------------------------------- MODULE Faults -------------------------------
(***************************************************************************)
(* The outcome of a call to the platform cluster's API server or to GCP.   *)
(* Every handler of the provider distinguishes only "no error" and "error" *)
(* (NotFound apart, which depends on the callee's state).  An error may    *)
(* hide that the call was applied: a connection lost before the answer.    *)
(***************************************************************************)
EXTENDS ProviderConstants, Naturals

VARIABLE faults     \* failures produced so far, at most MaxFaults

FaultsType == faults \in Nat

FaultsInit == faults = 0

Fault(mode) ==
    /\ mode \in FaultModes
    /\ faults < MaxFaults
    /\ faults' = faults + 1

\* A call that changes its callee.
Write(outcome) ==
    \/ outcome = "ok" /\ UNCHANGED faults
    \/ outcome \in {"refused", "lost"} /\ Fault(outcome)

\* A call that only reads.
Read(outcome) ==
    \/ outcome = "ok" /\ UNCHANGED faults
    \/ outcome = "refused" /\ Fault(outcome)

WriteOutcomes == {"ok", "refused", "lost"}
ReadOutcomes == {"ok", "refused"}

Applied(outcome) == outcome # "refused"
=============================================================================
