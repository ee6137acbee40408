------------------------------- MODULE Deploy -------------------------------
(***************************************************************************)
(* DEPLOY_MODEL, CANCEL_DEPLOY and UNINSTALL_MODEL of AgentRuntime         *)
(* (src/link/app/runtime.py) together with the deployment rows of          *)
(* HealthState (src/link/infra/health_server.py).      Commands arrive on  *)
(* several threads (the command pipeline and one per loopback request);    *)
(* every deploy runs on a worker thread of its own.  A critical section    *)
(* under self.lock is one action; everything outside it is cut into the    *)
(* steps other threads can see.  The process may die between any two.      *)
(***************************************************************************)
EXTENDS Naturals, FiniteSets

CONSTANTS
    Pipelines, Files,
    FileOf,        \* model_name of a pipeline's config: [Pipelines -> Files]
    Deploys,       \* DEPLOY_MODEL command ids
    DeployOf,      \* the pipeline a deploy is for: [Deploys -> Pipelines]
    Uninstalls,    \* UNINSTALL_MODEL command ids
    UninstallOf,   \* the pipeline an uninstall is for
    Forced,        \* the uninstalls that carry force_stop
    Pushed,        \* the pipelines that START_MODEL and UPDATE_PIPELINE bring configs for
    Targets,       \* the sets of pipelines that an agent config may list
    SendsLength,   \* does the server send a content-length?
    MaxRestarts    \* bound on how often the process dies

ASSUME FileOfAssumption == FileOf \in [Pipelines -> Files]
ASSUME DeployOfAssumption == DeployOf \in [Deploys -> Pipelines]
ASSUME UninstallAssumption ==
    UninstallOf \in [Uninstalls -> Pipelines] /\ Forced \subseteq Uninstalls
ASSUME PushedAssumption == Pushed \subseteq Pipelines /\ Targets \subseteq SUBSET Pipelines
ASSUME LengthAssumption == SendsLength \in BOOLEAN
ASSUME RestartsAssumption == MaxRestarts \in Nat

NoOne == "no one"
ASSUME NoOneAssumption == NoOne \notin Deploys \cup Pipelines

VARIABLES
    phase,      \* where each deploy is
    cancel,     \* its cancel_event
    report,     \* its terminal report_command: "none", "completed", "failed"
    reports,    \* how many terminal reports it sent
    worker,     \* _agent_workers: the deploy registered for a pipeline
    dlock,      \* the holder of a file's download lock
    partial,    \* models/<file>.partial
    target,     \* models/<file>
    row,        \* HealthState.deployments: the stage shown for a pipeline
    configs,    \* pipeline_configs: the pipelines that have one
    saved,      \* the pipelines of the persisted session
    running,    \* self.pipelines
    starting,   \* the pipeline that _start_pipeline is at, under _pipeline_ops_lock
    stage,      \* how far it is, and whether it builds a stored or a pushed config
    swap,       \* where apply_agent_config is
    wanted,     \* the pipelines its config lists
    exposed,    \* history: the configs written while their file was missing or about
                \* to be unlinked, or brought back by a restart
    uphase,     \* where each uninstall is
    restarts

deployVars == <<phase, cancel, report, reports, worker, dlock, partial, row>>
pipeVars == <<running, starting, stage, swap, wanted>>
vars == <<phase, cancel, report, reports, worker, dlock, partial, target, row,
          configs, exposed, saved, running, starting, stage, swap, wanted, uphase, restarts>>

Working == {"queued", "locked", "request", "stream", "guard", "rename",
            "configure", "commit", "announce"}
Phase == {"idle", "refused", "final", "end", "lost"} \cup Working
Content == {"none", "short", "whole"}
Stage == {"none", "queued", "downloading", "configuring", "failed"}
UPhase == {"idle", "stop", "drop", "unlink", "end", "refused", "lost"}

TypeOK ==
    /\ phase \in [Deploys -> Phase] /\ cancel \in [Deploys -> BOOLEAN]
    /\ report \in [Deploys -> {"none", "completed", "failed"}]
    /\ reports \in [Deploys -> Nat]
    /\ worker \in [Pipelines -> Deploys \cup {NoOne}]
    /\ dlock \in [Files -> Deploys \cup {NoOne}]
    /\ partial \in [Files -> Content] /\ target \in [Files -> Content]
    /\ row \in [Pipelines -> Stage]
    /\ configs \subseteq Pipelines /\ saved \subseteq Pipelines
    /\ running \subseteq Pipelines /\ starting \in Pipelines \cup {NoOne}
    /\ stage \in {"none", "stored", "pushed", "save"}
    /\ swap \in {"none", "apply", "save"}
    /\ wanted \subseteq Pipelines /\ exposed \subseteq Pipelines
    /\ uphase \in [Uninstalls -> UPhase]
    /\ restarts \in 0..MaxRestarts

PathOf(c) == FileOf[DeployOf[c]]

\* Any pipelines may have been deployed before; their files are there.
Init ==
    /\ phase = [c \in Deploys |-> "idle"] /\ cancel = [c \in Deploys |-> FALSE]
    /\ report = [c \in Deploys |-> "none"] /\ reports = [c \in Deploys |-> 0]
    /\ worker = [p \in Pipelines |-> NoOne] /\ dlock = [f \in Files |-> NoOne]
    /\ configs \in SUBSET Pipelines /\ saved = configs
    /\ partial = [f \in Files |-> "none"]
    /\ target = [f \in Files |-> IF \E p \in configs : FileOf[p] = f THEN "whole" ELSE "none"]
    /\ row = [p \in Pipelines |-> "none"]
    /\ running = {} /\ starting = NoOne /\ stage = "none"
    /\ swap = "none" /\ wanted = {} /\ exposed = {}
    /\ uphase = [u \in Uninstalls |-> "idle"]
    /\ restarts = 0

-----------------------------------------------------------------------------
(* Steps shared by the worker's paths.                                     *)

At(c, here) == phase[c] = here
Goto(c, there) == phase' = [phase EXCEPT ![c] = there]
Report(c, what) == /\ report' = [report EXCEPT ![c] = what]
                   /\ reports' = [reports EXCEPT ![c] = @ + 1]
\* set_deployment_progress; the stage "completed" drops the row.
ShowRow(p, shown) == row' = [row EXCEPT ![p] = shown]
Release(c) == dlock' = [dlock EXCEPT ![PathOf(c)] = IF @ = c THEN NoOne ELSE @]
\* Best effort: an unlink that fails is only logged.
CleanupPartial(c) ==
    partial' \in {partial, [partial EXCEPT ![PathOf(c)] = "none"]}

\* Nobody holds _pipeline_ops_lock.
OpsFree == starting = NoOne /\ swap # "apply"
\* History: is the file of p missing, or an uninstall just about to unlink it?
AtRisk(p) ==
    \/ target[FileOf[p]] = "none"
    \/ \E u \in Uninstalls : uphase[u] = "unlink" /\ FileOf[UninstallOf[u]] = FileOf[p]
WriteConfig(p) ==
    /\ configs' = configs \cup {p}
    /\ exposed' = IF AtRisk(p) THEN exposed \cup {p} ELSE exposed \ {p}

\* Mutants: the row is left behind; the download lock is.
EndsFailedRowLeft(c) ==
    /\ Report(c, "failed") /\ UNCHANGED row
    /\ Release(c) /\ Goto(c, "final")
EndsFailedLockLeft(c) ==
    /\ Report(c, "failed") /\ ShowRow(DeployOf[c], "none")
    /\ UNCHANGED dlock /\ Goto(c, "final")

\* report_command "failed" (cancelled or not), the row dropped, the lock left.
EndsFailed(c) ==
    /\ Report(c, "failed") /\ ShowRow(DeployOf[c], "none")
    /\ Release(c) /\ Goto(c, "final")

-----------------------------------------------------------------------------
(* DEPLOY_MODEL and CANCEL_DEPLOY.                                         *)

\* A companion pre-registers a deploy: POST /deployments/pending.
QueueRow(p) ==
    /\ row[p] \in {"none", "queued"}
    /\ ShowRow(p, "queued")
    /\ UNCHANGED <<phase, cancel, report, reports, worker, dlock, partial, target,
                   configs, exposed, saved, pipeVars, uphase, restarts>>

\* snapshot(): a row queued for longer than QUEUED_TTL_SECONDS is failed.
ExpireRow(p) ==
    /\ row[p] = "queued"
    /\ ShowRow(p, "failed")
    /\ UNCHANGED <<phase, cancel, report, reports, worker, dlock, partial, target,
                   configs, exposed, saved, pipeVars, uphase, restarts>>

ThreadAlive(c) == phase[c] \in Working \cup {"final"}

\* Mutant: a worker that is still alive does not stand in the way.
DeployModelTwice(c) ==
    /\ At(c, "idle")
    /\ Goto(c, "queued") /\ worker' = [worker EXCEPT ![DeployOf[c]] = c]
    /\ UNCHANGED <<cancel, report, reports, dlock, partial, target, row, configs, exposed,
                   saved, pipeVars, uphase, restarts>>

\* _deploy_model: refused when malformed (its ids differ, an unsafe name), and
\* while a worker for the pipeline is alive; else the worker is registered and
\* started in one critical section.
DeployModel(c) ==
    LET p == DeployOf[c]
        busy == worker[p] # NoOne /\ ThreadAlive(worker[p])
    IN
    /\ At(c, "idle")
    /\ \/ /\ Goto(c, "refused") /\ Report(c, "failed") /\ UNCHANGED worker
       \/ /\ ~busy
          /\ Goto(c, "queued") /\ worker' = [worker EXCEPT ![p] = c]
          /\ UNCHANGED <<report, reports>>
    /\ UNCHANGED <<cancel, dlock, partial, target, row, configs, exposed, saved, pipeVars,
                   uphase, restarts>>

\* _cancel_deploy for p: sets the registered worker's event.  (Closing its
\* response only makes the stream fail sooner; StreamEnds allows that anyway.)
CancelDeploy(p) ==
    /\ worker[p] # NoOne /\ ThreadAlive(worker[p])
    /\ cancel' = [cancel EXCEPT ![worker[p]] = TRUE]
    /\ UNCHANGED <<phase, report, reports, worker, dlock, partial, target, row,
                   configs, exposed, saved, pipeVars, uphase, restarts>>

\* Mutant: every worker gets a lock of its own.
TakeOwnLock(c) ==
    /\ At(c, "queued")
    /\ dlock' = [dlock EXCEPT ![PathOf(c)] = c] /\ Goto(c, "locked")
    /\ UNCHANGED <<cancel, report, reports, worker, partial, target, row, configs, exposed,
                   saved, pipeVars, uphase, restarts>>

\* with self._download_lock_for(model_name).
TakeDownloadLock(c) ==
    /\ At(c, "queued") /\ dlock[PathOf(c)] = NoOne
    /\ dlock' = [dlock EXCEPT ![PathOf(c)] = c] /\ Goto(c, "locked")
    /\ UNCHANGED <<cancel, report, reports, worker, partial, target, row, configs, exposed,
                   saved, pipeVars, uphase, restarts>>

\* Cancelled while queued, or the models directory cannot be made or read; a
\* cached file (the lock is left); or a download.
LookForTarget(c) ==
    /\ At(c, "locked")
    /\ \/ EndsFailed(c)
       \/ /\ ~cancel[c] /\ target[PathOf(c)] # "none"
          /\ Goto(c, "configure") /\ Release(c) /\ UNCHANGED <<report, reports, row>>
       \/ /\ ~cancel[c] /\ target[PathOf(c)] = "none"
          /\ Goto(c, "request") /\ UNCHANGED <<report, reports, row, dlock>>
    /\ UNCHANGED <<cancel, worker, partial, target, configs, exposed, saved, pipeVars,
                   uphase, restarts>>

\* The stale partial is removed and the request sent: it fails, or the
\* partial is opened for writing.
OpenStream(c) ==
    /\ At(c, "request")
    /\ \/ EndsFailed(c) /\ CleanupPartial(c)
       \/ /\ partial' = [partial EXCEPT ![PathOf(c)] = "short"]
          /\ ShowRow(DeployOf[c], "downloading") /\ Goto(c, "stream")
          /\ UNCHANGED <<report, reports, dlock>>
    /\ UNCHANGED <<cancel, worker, target, configs, exposed, saved, pipeVars, uphase, restarts>>

\* The chunk loop: it raises or sees the cancel, ends early, or ends.
StreamEnds(c) ==
    /\ At(c, "stream")
    /\ \/ EndsFailed(c) /\ CleanupPartial(c)
       \/ Goto(c, "guard") /\ UNCHANGED <<partial, report, reports, row, dlock>>
       \/ /\ Goto(c, "guard") /\ partial' = [partial EXCEPT ![PathOf(c)] = "whole"]
          /\ UNCHANGED <<report, reports, row, dlock>>
    /\ UNCHANGED <<cancel, worker, target, configs, exposed, saved, pipeVars, uphase, restarts>>

\* Mutant: a short read passes.
GuardCancelOnly(c) ==
    /\ At(c, "guard")
    /\ \/ cancel[c] /\ EndsFailed(c) /\ CleanupPartial(c)
       \/ ~cancel[c] /\ Goto(c, "rename") /\ UNCHANGED <<partial, report, reports, row, dlock>>
    /\ UNCHANGED <<cancel, worker, target, configs, exposed, saved, pipeVars, uphase, restarts>>

\* The two guards before the rename: the length, then the cancel.
GuardRename(c) ==
    LET stop == cancel[c] \/ (SendsLength /\ partial[PathOf(c)] = "short") IN
    /\ At(c, "guard")
    /\ \/ stop /\ EndsFailed(c) /\ CleanupPartial(c)
       \/ ~stop /\ Goto(c, "rename") /\ UNCHANGED <<partial, report, reports, row, dlock>>
    /\ UNCHANGED <<cancel, worker, target, configs, exposed, saved, pipeVars, uphase, restarts>>

\* partial_path.replace(target_path); an OSError ends in the worker's except.
Publish(c) ==
    LET f == PathOf(c) IN
    /\ At(c, "rename")
    /\ \/ /\ partial[f] # "none"
          /\ target' = [target EXCEPT ![f] = partial[f]]
          /\ partial' = [partial EXCEPT ![f] = "none"]
          /\ Release(c) /\ Goto(c, "configure")
          /\ UNCHANGED <<report, reports, row>>
       \/ EndsFailed(c) /\ UNCHANGED <<partial, target>>
    /\ UNCHANGED <<cancel, worker, configs, exposed, saved, pipeVars, uphase, restarts>>

\* _commit_deploy, before the locks.
Configure(c) ==
    /\ At(c, "configure")
    /\ ShowRow(DeployOf[c], "configuring") /\ Goto(c, "commit")
    /\ UNCHANGED <<cancel, report, reports, worker, dlock, partial, target, configs, exposed,
                   saved, pipeVars, uphase, restarts>>

\* Mutants: the cancel is not looked at again; it is, and not reported.
CommitAnyway(c) ==
    /\ At(c, "commit") /\ OpsFree
    /\ WriteConfig(DeployOf[c]) /\ saved' = saved \cup {DeployOf[c]}
    /\ Goto(c, "announce")
    /\ UNCHANGED <<cancel, report, reports, worker, dlock, partial, target, row,
                   pipeVars, uphase, restarts>>
CommitSilent(c) ==
    /\ At(c, "commit") /\ OpsFree
    /\ \/ /\ cancel[c] /\ Goto(c, "final") /\ ShowRow(DeployOf[c], "none")
          /\ UNCHANGED <<configs, exposed>>
       \/ /\ ~cancel[c] /\ Goto(c, "announce") /\ UNCHANGED row
          /\ WriteConfig(DeployOf[c])
    /\ UNCHANGED <<cancel, report, reports, worker, dlock, partial, target, saved,
                   pipeVars, uphase, restarts>>

\* _commit_deploy, under _pipeline_ops_lock and self.lock; a persistence
\* error is only logged.
CommitDeploy(c) ==
    /\ At(c, "commit") /\ OpsFree
    /\ \/ cancel[c] /\ EndsFailed(c) /\ UNCHANGED <<configs, exposed, saved>>
       \/ /\ ~cancel[c]
          /\ WriteConfig(DeployOf[c])
          /\ saved' \in {saved, saved \cup {DeployOf[c]}}
          /\ Goto(c, "announce") /\ UNCHANGED <<report, reports, row, dlock>>
    /\ UNCHANGED <<cancel, worker, partial, target, pipeVars, uphase, restarts>>

Announce(c) ==
    /\ At(c, "announce")
    /\ Report(c, "completed") /\ ShowRow(DeployOf[c], "none") /\ Goto(c, "final")
    /\ UNCHANGED <<cancel, worker, dlock, partial, target, configs, exposed, saved, pipeVars,
                   uphase, restarts>>

\* The finally: deregister, unless a newer worker took the place.
Deregister(c) ==
    LET p == DeployOf[c] IN
    /\ At(c, "final")
    /\ worker' = [worker EXCEPT ![p] = IF @ = c THEN NoOne ELSE @]
    /\ Goto(c, "end")
    /\ UNCHANGED <<cancel, report, reports, dlock, partial, target, row, configs, exposed,
                   saved, pipeVars, uphase, restarts>>

-----------------------------------------------------------------------------
(* UNINSTALL_MODEL.                                                        *)

UGoto(u, there) == uphase' = [uphase EXCEPT ![u] = there]

\* "pipeline_id in self.pipelines", read without the lock.
UninstallCheck(u) ==
    LET p == UninstallOf[u] IN
    /\ uphase[u] = "idle"
    /\ UGoto(u, IF p \notin running THEN "drop" ELSE IF u \in Forced THEN "stop" ELSE "refused")
    /\ UNCHANGED <<deployVars, target, configs, exposed, saved, pipeVars, restarts>>

\* force_stop: _stop_pipeline, which may time out.
UninstallStop(u) ==
    /\ uphase[u] = "stop" /\ OpsFree
    /\ \/ UGoto(u, "drop") /\ running' = running \ {UninstallOf[u]}
       \/ UGoto(u, "refused") /\ UNCHANGED running
    /\ UNCHANGED <<deployVars, target, configs, exposed, saved, starting, stage, swap, wanted,
                   restarts>>

\* Mutant: the other configs are not looked at.
UninstallDropBlindly(u) ==
    LET p == UninstallOf[u] IN
    /\ uphase[u] = "drop" /\ UGoto(u, "unlink")
    /\ configs' = configs \ {p} /\ exposed' = exposed \ {p} /\ saved' = saved \ {p}
    /\ UNCHANGED <<deployVars, target, pipeVars, restarts>>

\* Under self.lock: refused if another config names the file, else the config
\* is dropped; without a config of its own the payload names the file or
\* nothing does.
UninstallDrop(u) ==
    LET p == UninstallOf[u]
        shared == \E q \in configs \ {p} : FileOf[q] = FileOf[p]
    IN
    /\ uphase[u] = "drop"
    /\ \/ shared /\ UGoto(u, "refused") /\ UNCHANGED <<configs, exposed, saved>>
       \/ /\ ~shared \/ p \notin configs
          /\ \/ ~shared /\ UGoto(u, "unlink")
             \/ p \notin configs /\ UGoto(u, "end")
          /\ configs' = configs \ {p} /\ exposed' = exposed \ {p}
          /\ saved' \in {saved, saved \ {p}}
    /\ UNCHANGED <<deployVars, target, pipeVars, restarts>>

\* artifact_path.unlink(), after the lock was left; a failure is only logged.
UninstallUnlink(u) ==
    LET f == FileOf[UninstallOf[u]] IN
    /\ uphase[u] = "unlink"
    /\ UGoto(u, "end")
    /\ \/ target' = [target EXCEPT ![f] = "none"]
       \/ UNCHANGED target
    /\ UNCHANGED <<deployVars, configs, exposed, saved, pipeVars, restarts>>

-----------------------------------------------------------------------------
(* _start_pipeline and _stop_pipeline, as far as deploys see them, and the *)
(* process going down and coming back.                                     *)

\* START_MODEL, or UPDATE_PIPELINE of one that runs: with the stored config or
\* with one the command brings, a running instance is stopped and the components
\* are built off self.lock (which may fail); only then is a config that was
\* brought committed, with the pipeline; what was built is saved after that (a
\* failure to is only logged).  apply_agent_config starts what it lists so.
StartPipeline(p) ==
    /\ \/ /\ starting = NoOne /\ starting' = p /\ running' = running \ {p}
          /\ \/ OpsFree /\ p \in configs /\ stage' = "stored"
             \/ OpsFree /\ p \in Pushed /\ stage' = "pushed"
             \/ swap = "apply" /\ p \in wanted /\ stage' = "pushed"
          /\ UNCHANGED <<configs, exposed, saved>>
       \/ /\ starting = p /\ stage \in {"stored", "pushed"}
          /\ starting' = NoOne /\ stage' = "none"
          /\ UNCHANGED <<running, configs, exposed, saved>>
       \/ /\ starting = p /\ running' = running \cup {p} /\ stage' = "save"
          /\ \/ stage = "stored" /\ UNCHANGED <<configs, exposed>>
             \/ stage = "pushed" /\ WriteConfig(p)
          /\ UNCHANGED <<starting, saved>>
       \/ /\ starting = p /\ stage = "save" /\ starting' = NoOne /\ stage' = "none"
          /\ saved' \in {saved, saved \cup {p}}
          /\ UNCHANGED <<running, configs, exposed>>
    /\ UNCHANGED <<deployVars, target, swap, wanted, uphase, restarts>>

\* STOP_MODEL, or apply_agent_config for a pipeline it drops or keeps inactive.
StopPipeline(p) ==
    /\ starting = NoOne /\ p \in running
    /\ running' = running \ {p}
    /\ UNCHANGED <<deployVars, target, configs, exposed, saved, starting, stage, swap, wanted,
                   uphase, restarts>>

\* UPDATE_PIPELINE of a pipeline that does not run: the config is committed and
\* saved at once.
UpdatePipeline(p) ==
    /\ p \in Pushed /\ OpsFree /\ p \notin running
    /\ WriteConfig(p)
    /\ saved' \in {saved, saved \cup {p}}
    /\ UNCHANGED <<deployVars, target, pipeVars, uphase, restarts>>

\* apply_agent_config, and its revert: under _pipeline_ops_lock pipelines are
\* stopped and started, then the configs are replaced by the listed ones (or the
\* swap raises); after the lock is left the session is overwritten, with the new
\* config or, in a revert, with what was saved before.
Reconfigure ==
    /\ \/ /\ swap = "none" /\ OpsFree
          /\ swap' = "apply" /\ wanted' \in Targets
          /\ UNCHANGED <<configs, exposed, saved>>
       \/ /\ swap = "apply" /\ starting = NoOne
          /\ configs' = wanted /\ exposed' = {p \in wanted : AtRisk(p)}
          /\ swap' = "save" /\ UNCHANGED <<wanted, saved>>
       \/ /\ swap = "apply" /\ starting = NoOne
          /\ swap' = "none" /\ wanted' = {} /\ UNCHANGED <<configs, exposed, saved>>
       \/ /\ swap = "save" /\ swap' = "none" /\ wanted' = {}
          /\ saved' \in {saved} \cup Targets
          /\ UNCHANGED <<configs, exposed>>
    /\ UNCHANGED <<deployVars, target, running, starting, stage, uphase, restarts>>

\* _shutdown sets every registered worker's cancel_event.
ShutdownCancels ==
    /\ \E p \in Pipelines : worker[p] # NoOne /\ ~cancel[worker[p]]
    /\ cancel' = [c \in Deploys |-> cancel[c] \/ \E p \in Pipelines : worker[p] = c]
    /\ UNCHANGED <<phase, report, reports, worker, dlock, partial, target, row,
                   configs, exposed, saved, pipeVars, uphase, restarts>>

\* The process ends (its daemon threads with it) and a new one recovers the
\* saved session: memory is lost, the files stay as they are.
ProcessRestarts ==
    /\ restarts < MaxRestarts /\ restarts' = restarts + 1
    /\ phase' = [c \in Deploys |-> IF ThreadAlive(c) THEN "lost" ELSE phase[c]]
    /\ uphase' = [u \in Uninstalls |->
                    IF uphase[u] \in {"stop", "drop", "unlink"} THEN "lost" ELSE uphase[u]]
    /\ worker' = [p \in Pipelines |-> NoOne] /\ dlock' = [f \in Files |-> NoOne]
    /\ row' = [p \in Pipelines |-> "none"]
    /\ configs' = saved /\ exposed' = saved \cap (exposed \cup (saved \ configs))
    /\ running' = {} /\ starting' = NoOne /\ stage' = "none"
    /\ swap' = "none" /\ wanted' = {}
    /\ UNCHANGED <<cancel, report, reports, partial, target, saved>>

-----------------------------------------------------------------------------
WorkerStep(c) ==
    \/ TakeDownloadLock(c) \/ LookForTarget(c) \/ OpenStream(c) \/ StreamEnds(c)
    \/ GuardRename(c) \/ Publish(c) \/ Configure(c) \/ CommitDeploy(c)
    \/ Announce(c) \/ Deregister(c)
UninstallStep(u) ==
    UninstallStop(u) \/ UninstallDrop(u) \/ UninstallUnlink(u)
Command ==
    \/ \E c \in Deploys : DeployModel(c)
    \/ \E u \in Uninstalls : UninstallCheck(u)
    \/ \E p \in Pipelines : \/ QueueRow(p) \/ ExpireRow(p) \/ CancelDeploy(p)
                            \/ StartPipeline(p) \/ StopPipeline(p)
                            \/ UpdatePipeline(p)
    \/ Reconfigure \/ ShutdownCancels \/ ProcessRestarts
Next == \/ \E c \in Deploys : WorkerStep(c)
        \/ \E u \in Uninstalls : UninstallStep(u)
        \/ Command

Spec == Init /\ [][Next]_vars

\* Threads are scheduled and every HTTP call is bounded by a timeout; a start
\* or a reconfiguration in progress ends (but for the lock cycle of SwapManager,
\* which this assumes away).  Commands, cancels and crashes promise nothing.  A
\* commit that keeps asking for _pipeline_ops_lock gets it between two holders.
Fairness ==
    /\ \A c \in Deploys : WF_vars(WorkerStep(c)) /\ SF_vars(CommitDeploy(c))
    /\ \A p \in Pipelines : WF_vars(starting = p /\ StartPipeline(p))
    /\ WF_vars(swap # "none" /\ Reconfigure)
FairSpec == Spec /\ Fairness

-----------------------------------------------------------------------------
(* What deploys promise.                                                   *)

\* A rename always finds the partial it wrote: two deploys of one file never
\* share the .partial (the race the CHANGELOG says was fixed).
RenameFindsPartial ==
    \A c \in Deploys : phase[c] \in {"guard", "rename"} => partial[PathOf(c)] # "none"

\* A short download is never published as the model (with a content-length).
PublishedWhole == SendsLength => \A f \in Files : target[f] # "short"

\* Every live worker is the one registered for its pipeline, so CANCEL_DEPLOY
\* and shutdown reach it: no start, refusal or deregistration orphans it.
WorkersReachable ==
    \A c \in Deploys : phase[c] \in Working => worker[DeployOf[c]] = c

\* A progress bar means progress: a row shows "downloading" or "configuring"
\* only while a live worker is at that work, on every error and cancel path.
NoStuckRow ==
    \A p \in Pipelines :
        row[p] \in {"downloading", "configuring"} =>
            worker[p] # NoOne /\ phase[worker[p]] \in Working

\* Each deploy is answered at most once, and a worker that ran to its end has
\* answered exactly once.
AnsweredOnce ==
    \A c \in Deploys : /\ reports[c] <= 1
                       /\ phase[c] \in {"refused", "final", "end"} => reports[c] = 1

\* Once a deploy is cancelled it commits no config: a cancel that arrives
\* before the commit wins.
CancelWins ==
    [][\A c \in Deploys : cancel[c] /\ phase[c] # "announce" => phase'[c] # "announce"]_vars

\* Every accepted deploy is answered, or its process died: the workers that
\* share a file do not block one another.
DeployAnswered ==
    \A c \in Deploys : (phase[c] = "queued") ~> (reports[c] = 1 \/ phase[c] = "lost")

\* UNINSTALL_MODEL takes no file from a pipeline whose config was there when it
\* looked, whoever else writes configs or unlinks: a configured pipeline is
\* without its file only if its config was written while the file was missing or
\* an uninstall of it past its look, or if a restart brought back a config that
\* had been dropped and not saved so.
UnlinkSparesConfigured ==
    \A p \in configs : target[FileOf[p]] # "none" \/ p \in exposed

\* What the comment on the last guard says: a cancel that arrives before the
\* atomic replace does not publish the file.
CancelledNotPublished ==
    [][\A c \in Deploys : cancel[c] /\ phase[c] = "rename" => target' = target]_vars

\* What UNINSTALL_MODEL's refusal is for: a pipeline that is configured keeps
\* its artifact (no uninstall under way for it).
ConfiguredHasFile ==
    \A p \in configs :
        \/ target[FileOf[p]] # "none"
        \/ \E u \in Uninstalls : UninstallOf[u] = p /\ uphase[u] # "idle"

\* What the test says: without force_stop a running pipeline is not removed.
RunningNotRemoved ==
    [][\A u \in Uninstalls \ Forced :
          uphase[u] = "drop" /\ uphase'[u] \in {"unlink", "end"} =>
              UninstallOf[u] \notin running]_vars
=============================================================================
