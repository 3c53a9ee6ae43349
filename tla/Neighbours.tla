----------------------------- MODULE Neighbours -----------------------------
(***************************************************************************)
(* What the AccessRequest controller sees of the rest of the provider and  *)
(* of its platform: the lock and the profiles of the runtime               *)
(* configuration, which Clusters exist, and the API servers of their GKE   *)
(* clusters.  A writer keeps readers out from when it is announced until   *)
(* it leaves, whether it waits or works; of other readers, which make it   *)
(* wait longer, nothing is seen.  ClusterProvider implements it.           *)
(***************************************************************************)
EXTENDS ProviderConstants

VARIABLES
    rwlock,     \* RuntimeConfiguration.Lock
    profiles,   \* profiles[n]: the location of n's Profile, or NoProfile
    live,       \* Clusters that exist
    api         \* api[c]: the API server of c's GKE cluster, at c's config's Home

neighbourVars == <<rwlock, profiles, live, api>>

Runtime == INSTANCE RuntimeConfiguration WITH providerConfigs <- {}

\* "unsure": the GKE cluster exists, but is being created or deleted, or broken.
ApiStates == {"absent", "unsure", "serving"}

NeighboursType ==
    /\ Runtime!RuntimeType
    /\ live \subseteq Clusters
    /\ api \in [Clusters -> ApiStates]

NeighboursInit ==
    /\ Runtime!RuntimeInit
    /\ live = {}
    /\ api = [c \in Clusters |-> "absent"]

-----------------------------------------------------------------------------
(***************************************************************************)
(* The runtime configuration: profiles change only under the write lock.   *)
(***************************************************************************)
Announce == Runtime!AnnounceWriter /\ UNCHANGED <<profiles, live, api>>

Publish ==
    /\ rwlock.writer # "free"
    /\ rwlock.readers = {}
    /\ Runtime!Unlock
    /\ \E n \in Configs, profile \in Locations \cup {NoProfile} :
        /\ n \notin Relocatable => profile \in {Home[n], NoProfile}
        /\ Runtime!SetProfile(n, profile)
    /\ UNCHANGED <<live, api>>

\* The process starts again.
Forget ==
    /\ rwlock' = Runtime!NewRwlock
    /\ profiles' = Runtime!NewProfiles
    /\ UNCHANGED <<live, api>>

-----------------------------------------------------------------------------
(***************************************************************************)
(* Clusters and their GKE clusters.                                        *)
(***************************************************************************)
Settled(c) == ProfileOf[c] \notin Relocatable

Appear(c) ==
    /\ c \notin live
    /\ live' = live \cup {c}
    /\ UNCHANGED <<rwlock, profiles, api>>

\* A Cluster goes after its GKE cluster.
Withdraw(c) ==
    /\ c \in live
    /\ Settled(c) => api[c] = "absent"
    /\ live' = live \ {c}
    /\ UNCHANGED <<rwlock, profiles, api>>

ApiBecomes(c, from, to) ==
    /\ api[c] = from
    /\ api' = [api EXCEPT ![c] = to]
    /\ UNCHANGED <<rwlock, profiles, live>>

\* A GKE cluster is created for an existing Cluster, with its loaded profile.
Created(c) ==
    /\ c \in live
    /\ profiles[ProfileOf[c]] = Home[ProfileOf[c]]
    /\ ApiBecomes(c, "absent", "unsure")

Serves(c) == ApiBecomes(c, "unsure", "serving")
Falters(c) == ApiBecomes(c, "serving", "unsure")
Vanishes(c) == ApiBecomes(c, "unsure", "absent")

-----------------------------------------------------------------------------
\* Everything the AccessRequest controller takes no part in.
NeighboursStep ==
    \/ Announce
    \/ Publish
    \/ \E c \in Clusters :
        \/ Appear(c)
        \/ Withdraw(c)
        \/ Created(c)
        \/ Serves(c)
        \/ Falters(c)
        \/ Vanishes(c)

\* The AccessRequest controller itself, seen by its neighbours: its passes hold the
\* read lock.  In AccessSystem these are parts of AccessGet and AccessLeave.
ReaderEnters == Runtime!RLock("AccessRequest") /\ UNCHANGED <<profiles, live, api>>

ReaderLeaves == Runtime!RUnlock("AccessRequest") /\ UNCHANGED <<profiles, live, api>>

NeighboursNext == NeighboursStep \/ ReaderEnters \/ ReaderLeaves \/ Forget

NeighboursSpec == NeighboursInit /\ [][NeighboursNext]_neighbourVars
=============================================================================
