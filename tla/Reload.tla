------------------------------- MODULE Reload -------------------------------
(***************************************************************************)
(* PUT /_cluster/config on a running node (cluster/reload.rs, store.rs,    *)
(* config_api.rs): the snapshot is validated, a backend is built for it    *)
(* (which starts its replication worker), the snapshot is saved, and the   *)
(* live configuration and backend are replaced, while other reloads and    *)
(* writes are in progress; and the start of the node (main.rs).            *)
(* A backend is a number; a write keeps the backend it took from AppState. *)
(***************************************************************************)
EXTENDS Integers, Sequences, FiniteSets

CONSTANTS
    EnvConfig,    \* configuration from the environment
    Snapshots,    \* admin request -> snapshot it puts
    MaxWrites,    \* bound: writes
    MaxRestarts   \* bound: restarts

VARIABLES
    saved,     \* cluster_runtime_config: a snapshot, or None
    cluster,   \* AppState::cluster
    live,      \* AppState::backend
    configs,   \* backend -> configuration it was built for
    running,   \* backends whose worker is not cancelled
    req,       \* admin request -> [pc, backend]
    overlap,   \* two reloads were in progress together since the start
    queued,    \* changes in the replication log not yet delivered
    writer,    \* the write in progress: backend it uses, 0 when none
    writes, restarts

vars == <<saved, cluster, live, configs, running, req, overlap, queued, writer, writes, restarts>>

None == [mode |-> "none"]
Requests == DOMAIN Snapshots
Working == {r \in Requests : req[r].pc \notin {"idle", "ok", "failed"}}

Replicates(c) == c.mode \in {"replicated", "replicated+assigned"}
Assigns(c) == c.mode \in {"assigned", "replicated+assigned"}

\* into_cluster_config: what cannot be built is rejected first.
IntoClusterConfig(s) ==
    /\ s.mode # "standalone" /\ s.token
    /\ s.peers
    /\ Assigns(s) => s.rules

BuildOk(c) == c.mode = "standalone" \/ (c.peers /\ (Assigns(c) => c.rules))

\* Building a replicating backend starts its worker.
Build(c) ==
    /\ configs' = Append(configs, c)
    /\ running' = IF Replicates(c) THEN running \cup {Len(configs) + 1} ELSE running

-----------------------------------------------------------------------------
(* One reload, statement by statement.                                     *)

PutClusterConfig(r) ==
    /\ req[r].pc = "idle"
    /\ overlap' = (overlap \/ Working # {})
    /\ IF IntoClusterConfig(Snapshots[r]) /\ BuildOk(Snapshots[r])
       THEN /\ Build(Snapshots[r])
            /\ req' = [req EXCEPT ![r] = [pc |-> "built", backend |-> Len(configs) + 1]]
       ELSE req' = [req EXCEPT ![r].pc = "failed"] /\ UNCHANGED <<configs, running>>
    /\ UNCHANGED <<saved, cluster, live, queued, writer, writes, restarts>>

\* The new backend is shut down again.
SaveFails(r) ==
    /\ req' = [req EXCEPT ![r].pc = "failed"]
    /\ running' = running \ {req[r].backend}
    /\ UNCHANGED saved

SaveSnapshot(r) ==
    /\ req[r].pc = "built"
    /\ \/ /\ saved' = Snapshots[r]
          /\ req' = [req EXCEPT ![r].pc = "saved"] /\ UNCHANGED running
       \/ SaveFails(r)
    /\ UNCHANGED <<cluster, live, configs, overlap, queued, writer, writes, restarts>>

\* Mutant of SetCluster: the live configuration is left as it was.
SetClusterSkipped(r) == UNCHANGED cluster

SetCluster(r) == cluster' = Snapshots[r]

UpdateCluster(r) ==
    /\ req[r].pc = "saved"
    /\ SetCluster(r)
    /\ req' = [req EXCEPT ![r].pc = "replace"]
    /\ UNCHANGED <<saved, live, configs, running, overlap, queued, writer, writes, restarts>>

\* The old backend comes back from the same atomic replace.
ReplaceBackend(r) ==
    /\ req[r].pc = "replace"
    /\ live' = req[r].backend
    /\ req' = [req EXCEPT ![r] = [pc |-> "stop", backend |-> live]]
    /\ UNCHANGED <<saved, cluster, configs, running, overlap, queued, writer, writes, restarts>>

\* Mutant of Stopped: every worker started so far stops.
StoppedAll(b) == 1 .. Len(configs)

Stopped(b) == {b}

\* replaced.shutdown() cancels that backend's token and no other.
ShutdownReplaced(r) ==
    /\ req[r].pc = "stop"
    /\ running' = running \ Stopped(req[r].backend)
    /\ req' = [req EXCEPT ![r].pc = "ok"]
    /\ UNCHANGED <<saved, cluster, live, configs, overlap, queued, writer, writes, restarts>>

-----------------------------------------------------------------------------
(* Writes and workers.                                                     *)

TakeBackend ==
    /\ writer = 0 /\ writes < MaxWrites /\ writes' = writes + 1
    /\ writer' = live
    /\ UNCHANGED <<saved, cluster, live, configs, running, req, overlap, queued, restarts>>

\* A replicating backend records the change in the node's log, also when it
\* has been replaced meanwhile.
Write ==
    /\ writer # 0 /\ writer' = 0
    /\ queued' = IF Replicates(configs[writer]) THEN queued + 1 ELSE queued
    /\ UNCHANGED <<saved, cluster, live, configs, running, req, overlap, writes, restarts>>

\* Any worker delivers what is due in the log.
Deliver(b) ==
    /\ b \in running /\ queued > 0 /\ queued' = queued - 1
    /\ UNCHANGED <<saved, cluster, live, configs, running, req, overlap, writer, writes, restarts>>

-----------------------------------------------------------------------------
\* The saved snapshot replaces the environment's settings, if it is valid.
StartConfig == IF saved # None /\ IntoClusterConfig(saved) THEN saved ELSE EnvConfig

\* A restart, in the middle of a reload or not.
Restart ==
    /\ restarts < MaxRestarts /\ restarts' = restarts + 1
    /\ cluster' = StartConfig
    /\ configs' = <<StartConfig>> /\ live' = 1
    /\ running' = IF Replicates(StartConfig) THEN {1} ELSE {}
    /\ req' = [r \in Requests |-> IF r \in Working THEN [pc |-> "failed", backend |-> 0] ELSE req[r]]
    /\ overlap' = FALSE /\ writer' = 0
    /\ UNCHANGED <<saved, queued, writes>>

Init ==
    /\ saved = None /\ cluster = EnvConfig
    /\ configs = <<EnvConfig>> /\ live = 1
    /\ running = IF Replicates(EnvConfig) THEN {1} ELSE {}
    /\ req = [r \in Requests |-> [pc |-> "idle", backend |-> 0]]
    /\ overlap = FALSE /\ queued = 0 /\ writer = 0 /\ writes = 0 /\ restarts = 0

Step(r) ==
    SaveSnapshot(r) \/ UpdateCluster(r) \/ ReplaceBackend(r) \/ ShutdownReplaced(r)

Delivery == \E b \in DOMAIN configs : Deliver(b)

Next ==
    \/ TakeBackend \/ Write \/ Restart
    \/ \E r \in Requests : PutClusterConfig(r) \/ Step(r)
    \/ Delivery

Spec == Init /\ [][Next]_vars

\* Reloads and writes that began go on, and workers keep polling the log.
FairSpec ==
    /\ Spec /\ WF_vars(Write)
    /\ \A r \in Requests : WF_vars(Step(r))
    /\ WF_vars(Delivery)

-----------------------------------------------------------------------------
(* However reloads overlap, fail and interleave, the node never stops the  *)
(* worker of its live backend, and once no reload is in progress no other  *)
(* worker is left running.                                                 *)
OneWorker ==
    /\ Replicates(configs[live]) => live \in running
    /\ Working = {} => running \subseteq {live}

(* With reloads one at a time, whatever fails or crashes: when none is in  *)
(* progress the saved snapshot, the live configuration and the live        *)
(* backend describe the same cluster.                                      *)
ConfigsAgree ==
    Working = {} /\ ~overlap =>
        cluster = StartConfig /\ configs[live] = cluster

(* Reloads leave one worker and one configuration behind.                 *)
ReloadSettles == OneWorker /\ ConfigsAgree

(* A change recorded in the log through a backend that was being replaced  *)
(* is still delivered, as long as the node goes on replicating.            *)
Undelivered == queued > 0 /\ Replicates(configs[live])
LogDrained == Undelivered ~> ~Undelivered
=============================================================================
