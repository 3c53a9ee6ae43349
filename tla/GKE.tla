-------------------------------- MODULE GKE --------------------------------
(***************************************************************************)
(* Google Kubernetes Engine, as the provider uses it: one cluster name per *)
(* Cluster resource (shared.GKEClusterName), separately in every location, *)
(* each with the status that GetCluster reports.  External.                *)
(***************************************************************************)
EXTENDS Faults

VARIABLE gke      \* gke[l][c]: status in location l of the cluster named for c

\* DEGRADED is handled as ERROR and is not told apart from it.
Statuses == {"ABSENT", "PROVISIONING", "RUNNING", "RECONCILING", "STOPPING", "ERROR"}

GKEType == gke \in [Locations -> [Clusters -> Statuses]]

GKEInit == gke = [l \in Locations |-> [c \in Clusters |-> "ABSENT"]]

Present(l, c) == gke[l][c] # "ABSENT"

SetStatus(l, c, status) == gke' = [gke EXCEPT ![l][c] = status]

\* The service side of CreateCluster and of DeleteCluster.
SubmitCreate(l, c) ==
    IF Present(l, c) THEN UNCHANGED gke ELSE SetStatus(l, c, "PROVISIONING")

SubmitDelete(l, c) ==
    IF Present(l, c) THEN SetStatus(l, c, "STOPPING") ELSE UNCHANGED gke

-----------------------------------------------------------------------------
(***************************************************************************)
(* What GKE does by itself.                                                *)
(***************************************************************************)
Become(l, c, from, to) == gke[l][c] \in from /\ SetStatus(l, c, to)

Provisioned(l, c) == Become(l, c, {"PROVISIONING", "RECONCILING"}, "RUNNING") /\ UNCHANGED faults
Stopped(l, c)     == Become(l, c, {"STOPPING"}, "ABSENT") /\ UNCHANGED faults
Repaired(l, c)    == Become(l, c, {"ERROR"}, "RUNNING") /\ UNCHANGED faults
Maintenance(l, c) == Become(l, c, {"RUNNING"}, "RECONCILING") /\ Fault("maintenance")
Failure(l, c)     == Become(l, c, {"PROVISIONING", "RUNNING", "RECONCILING", "STOPPING"}, "ERROR")
                     /\ Fault("failure")

GKEProgress(l, c) == Provisioned(l, c) \/ Stopped(l, c)

GKENext ==
    \E l \in Locations, c \in Clusters :
        \/ GKEProgress(l, c)
        \/ Repaired(l, c)
        \/ Maintenance(l, c)
        \/ Failure(l, c)
=============================================================================
