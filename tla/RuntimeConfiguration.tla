------------------------ MODULE RuntimeConfiguration ------------------------
(***************************************************************************)
(* shared.RuntimeConfiguration: the in-memory state the three controllers  *)
(* share and the sync.RWMutex that guards it.  A profile is represented by *)
(* the location it names, the only part of it a property tells apart.      *)
(***************************************************************************)
EXTENDS ProviderConstants

VARIABLES
    rwlock,           \* RuntimeConfiguration.Lock
    providerConfigs,  \* names with an entry in the map of the same name
    profiles          \* profiles[n]: the location of n's Profile, or NoProfile

runtimeVars == <<rwlock, providerConfigs, profiles>>

RuntimeType ==
    /\ rwlock \in [writer : {"free", "announced", "held"}, readers : SUBSET Readers]
    /\ providerConfigs \subseteq Configs
    /\ profiles \in [Configs -> Locations \cup {NoProfile}]

\* NewRuntimeConfiguration: both maps are empty, nobody holds the lock.
NewRwlock == [writer |-> "free", readers |-> {}]
NewProfiles == [n \in Configs |-> NoProfile]

RuntimeInit ==
    /\ rwlock = NewRwlock
    /\ providerConfigs = {}
    /\ profiles = NewProfiles

-----------------------------------------------------------------------------
(***************************************************************************)
(* sync.RWMutex.  Lock announces the writer, which keeps new readers out,  *)
(* then waits for the present readers to leave.                            *)
(***************************************************************************)
AnnounceWriter ==
    /\ rwlock.writer = "free"
    /\ rwlock' = [rwlock EXCEPT !.writer = "announced"]

\* Mutant: a plain mutex for writers, which does not wait for readers.
LockIgnoringReaders == rwlock.writer = "announced"

LockAvailable == rwlock.writer = "announced" /\ rwlock.readers = {}

Lock == LockAvailable /\ rwlock' = [rwlock EXCEPT !.writer = "held"]

Unlock == rwlock' = [rwlock EXCEPT !.writer = "free"]

RLock(reader) ==
    /\ rwlock.writer = "free"
    /\ rwlock' = [rwlock EXCEPT !.readers = @ \cup {reader}]

RUnlock(reader) == rwlock' = [rwlock EXCEPT !.readers = @ \ {reader}]

-----------------------------------------------------------------------------
SetProviderConfig(n) == providerConfigs' = providerConfigs \cup {n}

UnsetProviderConfig(n) == providerConfigs' = providerConfigs \ {n}

SetProfile(n, profile) == profiles' = [profiles EXCEPT ![n] = profile]

UnsetProfile(n) == SetProfile(n, NoProfile)

\* The caller holds at least a read lock and works on a copy.
GetProfile(n) == profiles[n]
=============================================================================
