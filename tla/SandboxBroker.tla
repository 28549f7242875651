---------------------------- MODULE SandboxBroker ----------------------------
(***************************************************************************)
(* sandbox_broker/server.py and its callers in workers/coding/common.py:   *)
(* dependency caches (docker volumes named by the hash of a lockfile) are  *)
(* prepared under a lock of the broker's process, handed to the caller by  *)
(* name, and mounted by a later request; the watchdog's cleanup removes    *)
(* containers and old caches meanwhile.  A docker command is one step.     *)
(***************************************************************************)
EXTENDS FiniteSets, Naturals

CONSTANTS
    Attempts,   \* executions of coding work that ask for a sandbox
    Caches,     \* names of dependency volumes
    NoCache,    \* the repository needs none
    NoAttempt,
    MaxVolumes  \* DEPENDENCY_MAX_CACHE_VOLUMES

ASSUME SandboxAssumption ==
    NoCache \notin Caches /\ NoAttempt \notin Attempts /\ MaxVolumes \in Nat \ {0}

VARIABLES
    needs,           \* the cache of each attempt's repository, or NoCache
    attempt,         \* step of each attempt, and whether its client still waits
    volume,          \* dependency volumes: content, and whether docker has the label
    leftover,        \* preparation container a dead broker left on a volume
    dependencyLock,  \* holder of _DEPENDENCY_LOCK
    stale,           \* volumes the cleanup has found past their retention
    jobVolumes,      \* attempts whose workspace volume exists
    swept            \* attempts whose cache was removed after it was handed out

brokerVars == <<needs, attempt, volume, leftover, dependencyLock, stale, jobVolumes, swept>>

Mounting == {"agent", "test", "abandoned"}
Preparing == {"inspect", "count", "create", "fill"}
HasKey == {"prepared", "agent", "pause", "test"}

NoVolume == [content |-> "absent", labelled |-> FALSE]

BrokerInit ==
    /\ needs \in [Attempts -> Caches \cup {NoCache}]
    /\ attempt = [a \in Attempts |-> [step |-> "idle", waiting |-> TRUE]]
    /\ volume = [c \in Caches |-> NoVolume]
    /\ leftover = [c \in Caches |-> "none"]
    /\ dependencyLock = NoAttempt
    /\ stale = {} /\ jobVolumes = {} /\ swept = {}

Goto(a, step) == attempt' = [attempt EXCEPT ![a].step = step]

(* A volume some container refers to, an exited one included, stays.       *)
InUse(c) ==
    \/ leftover[c] # "none"
    \/ \E a \in Attempts : needs[a] = c /\ attempt[a].step \in Mounting
RemoveVolume(c) == volume' = IF InUse(c) THEN volume ELSE [volume EXCEPT ![c] = NoVolume]

Labelled == {c \in Caches : volume[c].labelled}

-----------------------------------------------------------------------------
(* /prepare, under the lock of the process.                                *)

(* run_ai_coding_sandbox, run_ci_sandbox; admission may refuse.            *)
RequestSandbox(a) ==
    /\ attempt[a].step = "idle"
    /\ \/ Goto(a, "done")
       \/ Goto(a, IF needs[a] = NoCache THEN "prepared" ELSE "queued")
    /\ UNCHANGED <<needs, volume, leftover, dependencyLock, stale, jobVolumes, swept>>

TakeDependencyLock(a) ==
    /\ attempt[a].step = "queued" /\ dependencyLock = NoAttempt
    /\ dependencyLock' = a
    /\ Goto(a, "inspect")
    /\ UNCHANGED <<needs, volume, leftover, stale, jobVolumes, swept>>

Answer(a, key) ==
    /\ dependencyLock' = NoAttempt
    /\ Goto(a, IF key /\ attempt[a].waiting THEN "prepared" ELSE "done")

(* Mutant: a volume that exists is taken for a complete one.               *)
ExistingIsUsable(c) == volume[c].content # "absent"
Usable(c) == volume[c].content = "ready"

InspectCache(a) ==
    LET c == needs[a] IN
    /\ attempt[a].step = "inspect"
    /\ IF Usable(c) THEN Answer(a, TRUE) /\ UNCHANGED volume
       ELSE Goto(a, "count") /\ RemoveVolume(c) /\ UNCHANGED dependencyLock
    /\ UNCHANGED <<needs, leftover, stale, jobVolumes, swept>>

CountVolumes(a) ==
    /\ attempt[a].step = "count"
    /\ IF Cardinality(Labelled) >= MaxVolumes THEN Answer(a, FALSE)
       ELSE Goto(a, "create") /\ UNCHANGED dependencyLock
    /\ UNCHANGED <<needs, volume, leftover, stale, jobVolumes, swept>>

(* docker volume create of a name that exists keeps the old volume.        *)
CreateVolume(a) ==
    LET c == needs[a] IN
    /\ attempt[a].step = "create"
    /\ volume' = IF volume[c].content = "absent"
                 THEN [volume EXCEPT ![c] = [content |-> "partial", labelled |-> TRUE]]
                 ELSE volume
    /\ Goto(a, "fill")
    /\ UNCHANGED <<needs, leftover, dependencyLock, stale, jobVolumes, swept>>

(* The container fills the volume within its bounds and touches .ready, or *)
(* it fails, grows too large or takes too long, and the volume is removed. *)
FillVolume(a) ==
    LET c == needs[a] IN
    /\ attempt[a].step = "fill"
    /\ \/ volume' = [volume EXCEPT ![c].content = "ready"] /\ Answer(a, TRUE)
       \/ RemoveVolume(c) /\ Answer(a, FALSE)
    /\ UNCHANGED <<needs, leftover, stale, jobVolumes, swept>>

ClientGivesUp(a) ==
    /\ attempt[a].step \in Preparing \cup {"queued"} /\ attempt[a].waiting
    /\ attempt' = [attempt EXCEPT ![a].waiting = FALSE]
    /\ UNCHANGED <<needs, volume, leftover, dependencyLock, stale, jobVolumes, swept>>

-----------------------------------------------------------------------------
(* /run: the agent (or the checks of a CI job), then the diff and the tests*)
(* of the agent's work, each in a container of its own.  docker run creates*)
(* a volume that is not there, empty and without a label.                  *)

Mount(a, step) ==
    LET c == needs[a] IN
    /\ volume' = IF c # NoCache /\ volume[c].content = "absent"
                 THEN [volume EXCEPT ![c].content = "partial"] ELSE volume
    /\ Goto(a, step)
    /\ UNCHANGED <<needs, leftover, dependencyLock, stale, swept>>

RunAgent(a) ==
    /\ attempt[a].step = "prepared"
    /\ Mount(a, "agent")
    /\ jobVolumes' = jobVolumes \cup {a}

AgentEnds(a) ==
    /\ attempt[a].step = "agent"
    /\ Goto(a, "pause")
    /\ UNCHANGED <<needs, volume, leftover, dependencyLock, stale, jobVolumes, swept>>

RunTests(a) ==
    /\ attempt[a].step = "pause"
    /\ Mount(a, "test")
    /\ UNCHANGED jobVolumes

FinishRun(a) ==
    /\ attempt[a].step = "test"
    /\ Goto(a, "done")
    /\ jobVolumes' = jobVolumes \ {a}
    /\ UNCHANGED <<needs, volume, leftover, dependencyLock, stale, swept>>

(* A timeout kills the docker client and not the container, so the volume  *)
(* of the workspace cannot be removed.                                     *)
RunTimesOut(a) ==
    /\ attempt[a].step \in {"agent", "test"}
    /\ Goto(a, "abandoned")
    /\ UNCHANGED <<needs, volume, leftover, dependencyLock, stale, jobVolumes, swept>>

-----------------------------------------------------------------------------
(* Restart of the broker, and the cleanup the watchdog asks for.           *)

BrokerDies ==
    LET filling == {needs[a] : a \in {b \in Attempts : attempt[b].step = "fill"}} IN
    /\ \E a \in Attempts : attempt[a].step \in Preparing \cup {"agent", "pause", "test"}
    /\ attempt' = [a \in Attempts |->
           IF attempt[a].step \in Preparing \cup {"queued", "pause"}
           THEN [attempt[a] EXCEPT !.step = "done"]
           ELSE IF attempt[a].step \in {"agent", "test"}
           THEN [attempt[a] EXCEPT !.step = "abandoned"] ELSE attempt[a]]
    /\ leftover' = [c \in Caches |-> IF c \in filling THEN "running" ELSE leftover[c]]
    /\ dependencyLock' = NoAttempt
    /\ UNCHANGED <<needs, volume, stale, jobVolumes, swept>>

LeftoverEnds(c) ==
    /\ leftover[c] = "running"
    /\ leftover' = [leftover EXCEPT ![c] = "exited"]
    /\ volume' \in {volume, [volume EXCEPT ![c].content = "ready"]}
    /\ UNCHANGED <<needs, attempt, dependencyLock, stale, jobVolumes, swept>>

(* By itself, or as a stale container in cleanup_stale_containers.         *)
AbandonedEnds(a) ==
    /\ attempt[a].step = "abandoned"
    /\ Goto(a, "done")
    /\ UNCHANGED <<needs, volume, leftover, dependencyLock, stale, jobVolumes, swept>>

FindStaleVolume(c) ==
    /\ volume[c].labelled /\ c \notin stale
    /\ stale' = stale \cup {c}
    /\ UNCHANGED <<needs, attempt, volume, leftover, dependencyLock, jobVolumes, swept>>

RemoveStaleVolume(c) ==
    /\ c \in stale
    /\ stale' = stale \ {c}
    /\ RemoveVolume(c)
    /\ swept' = IF InUse(c) THEN swept
                ELSE swept \cup {a \in Attempts : needs[a] = c /\ attempt[a].step \in HasKey}
    /\ UNCHANGED <<needs, attempt, leftover, dependencyLock, jobVolumes>>

BrokerNext ==
    \/ \E a \in Attempts :
          \/ RequestSandbox(a) \/ TakeDependencyLock(a) \/ InspectCache(a) \/ CountVolumes(a)
          \/ CreateVolume(a) \/ FillVolume(a) \/ ClientGivesUp(a) \/ RunAgent(a) \/ AgentEnds(a)
          \/ RunTests(a) \/ FinishRun(a) \/ RunTimesOut(a) \/ AbandonedEnds(a)
    \/ \E c \in Caches : LeftoverEnds(c) \/ FindStaleVolume(c) \/ RemoveStaleVolume(c)
    \/ BrokerDies

BrokerSpec == BrokerInit /\ [][BrokerNext]_brokerVars

-----------------------------------------------------------------------------
(* Code and tests run on a complete cache, whatever a dead broker or a     *)
(* failed preparation left under its name (server.py:133-138), unless the  *)
(* cleanup removed it after the key was handed out; and the labelled caches*)
(* never exceed the configured number, although they are counted and       *)
(* created by different commands (server.py:140-151).                      *)
CachesAreSound ==
    /\ \A a \in Attempts :
          attempt[a].step \in {"agent", "test"} /\ needs[a] # NoCache /\ a \notin swept
              => volume[needs[a]].content = "ready"
    /\ Cardinality(Labelled) <= MaxVolumes
=============================================================================
