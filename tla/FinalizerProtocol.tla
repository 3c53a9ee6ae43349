-------------------------- MODULE FinalizerProtocol --------------------------
(***************************************************************************)
(* What a finalizer promises, as api/v1alpha1/constants.go states it: an   *)
(* external resource is managed on behalf of an API object only while the  *)
(* object carries the finalizer, and the object is there as long as it     *)
(* does.  Who takes the steps, and when, is left open.                     *)
(***************************************************************************)
CONSTANT Objects

VARIABLES
    live,       \* objects that exist in the API server
    guarded,    \* objects with the finalizer
    external    \* objects whose external resource exists

protocolVars == <<live, guarded, external>>

ProtocolInit == live = {} /\ guarded = {} /\ external = {}

Appear(o) ==
    /\ o \notin live
    /\ live' = live \cup {o}
    /\ UNCHANGED <<guarded, external>>

Disappear(o) ==
    /\ o \in live \ guarded
    /\ live' = live \ {o}
    /\ UNCHANGED <<guarded, external>>

Guard(o) ==
    /\ o \in live
    /\ guarded' = guarded \cup {o}
    /\ UNCHANGED <<live, external>>

Acquire(o) ==
    /\ o \in guarded
    /\ external' = external \cup {o}
    /\ UNCHANGED <<live, guarded>>

\* External resources go, several at once if one event ends them all.
Dispose(gone) ==
    /\ external' = external \ gone
    /\ UNCHANGED <<live, guarded>>

\* The object goes with its finalizer, unless others keep it.
Release(o) ==
    /\ o \in guarded \ external
    /\ guarded' = guarded \ {o}
    /\ live' \in {live, live \ {o}}
    /\ UNCHANGED external

ProtocolNext ==
    \/ \E o \in Objects : Appear(o) \/ Disappear(o) \/ Guard(o) \/ Acquire(o) \/ Release(o)
    \/ \E gone \in SUBSET Objects : Dispose(gone)

ProtocolSpec == ProtocolInit /\ [][ProtocolNext]_protocolVars

\* No external resource without a finalizer, no finalizer without an object:
\* the reason all three deletion handlers release the finalizer last.
NothingLeaks == external \subseteq guarded /\ guarded \subseteq live
=============================================================================
