---------------------- MODULE FinalizerProtocolProofs ----------------------
(***************************************************************************)
(* What the finalizer protocol is for: nothing leaks.                      *)
(***************************************************************************)
EXTENDS FinalizerProtocol, TLAPS

\* An external resource always has its API object, with the finalizer on it:
\* what both controllers gain from implementing the protocol.
THEOREM ProtocolLeaksNothing == ProtocolSpec => []NothingLeaks
<1>1. ProtocolInit => NothingLeaks
  BY DEF ProtocolInit, NothingLeaks
<1>2. NothingLeaks /\ [ProtocolNext]_protocolVars => NothingLeaks'
  <2> SUFFICES ASSUME NothingLeaks, [ProtocolNext]_protocolVars PROVE NothingLeaks'
    OBVIOUS
  <2>1. CASE UNCHANGED protocolVars
    BY <2>1 DEF protocolVars, NothingLeaks
  <2>2. ASSUME NEW o \in Objects, Appear(o) \/ Disappear(o) PROVE NothingLeaks'
    BY <2>2 DEF Appear, Disappear, NothingLeaks
  <2>3. ASSUME NEW o \in Objects, Guard(o) \/ Acquire(o) PROVE NothingLeaks'
    BY <2>3 DEF Guard, Acquire, NothingLeaks
  <2>4. ASSUME NEW o \in Objects, Release(o) PROVE NothingLeaks'
    BY <2>4 DEF Release, NothingLeaks
  <2>5. ASSUME NEW gone \in SUBSET Objects, Dispose(gone) PROVE NothingLeaks'
    BY <2>5 DEF Dispose, NothingLeaks
  <2>6. QED
    BY <2>1, <2>2, <2>3, <2>4, <2>5 DEF ProtocolNext
<1>3. QED
  BY <1>1, <1>2, PTL DEF ProtocolSpec
=============================================================================
