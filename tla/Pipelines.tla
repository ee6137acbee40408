----------------------------- MODULE Pipelines -----------------------------
(***************************************************************************)
(* Pipelines of AgentRuntime (src/link/app/runtime.py): start, stop,       *)
(* update, serve and drop, the commit of a deploy, hot reconfiguration     *)
(* with its revert (reconfigure.py) and the session file (state.py).       *)
(* Commands arrive on several threads.  _pipeline_ops_lock is `ops`; what  *)
(* runs under self.lock is one action.  StateManager has no lock: a save   *)
(* (update of the cache, flush) is one step, and when two threads may be   *)
(* in theirs at once, under different locks, either may lose its update or *)
(* its write (Saves).                                                      *)
(***************************************************************************)
EXTENDS Naturals

CONSTANTS
    Pipelines, Versions, Threads,
    Kinds,      \* the kinds of commands that arrive
    Confs,      \* the configs that START_MODEL, UPDATE_PIPELINE and DEPLOY_MODEL carry
    Targets,    \* the AgentConfigs (their pipelines) that may be applied
    Default,    \* the factory configuration
    SaveFaults, \* what may befall a save: that its flush fails, that it races with another
    MaxBoots    \* bound on how often the process is killed

NoOne == "no one"
\* No config: told apart by a version no config has.
None == [ver |-> 0, serve |-> FALSE, active |-> FALSE]
\* A PipelineConfig: its contents, source.args["mode"] = "serve", and active.
Conf == [ver : Versions, serve : BOOLEAN, active : BOOLEAN]
AgentConf == [Pipelines -> Conf \cup {None}]
AllKinds == {"start", "infer", "stop", "update", "serve", "deploy", "uninstall", "reconfig"}

ASSUME KindsAssumption == Kinds \subseteq AllKinds
ASSUME ConfsAssumption == Confs \subseteq Conf
ASSUME TargetsAssumption == Targets \subseteq AgentConf /\ Default \in AgentConf
ASSUME VersionsAssumption == Versions \subseteq Nat \ {0}
ASSUME ThreadsAssumption == NoOne \notin Threads \cup Pipelines
ASSUME BootsAssumption == MaxBoots \in Nat /\ SaveFaults \subseteq {"fail", "race"}

VARIABLES
    base,    \* agent_config.pipelines
    mem,     \* pipeline_configs
    shared,  \* the pipelines whose object in mem is the one in base
    pipe,    \* self.pipelines: the config the tracked instance was built from
    up,      \* the tracked instances whose thread is alive
    live,    \* how many threads of each pipeline are alive
    told,    \* the tracked instances that were told to stop and did not in time
    cache,   \* StateManager._cache: configs whose active flag says "running"
    file,    \* what a start reads from the session file: Default if it does not parse
    late,    \* the threads whose save overlaps with one that is over
    saved,   \* history: the last flush was "clean" or "failed"; or saves "raced"
    ops,     \* the holder of _pipeline_ops_lock
    pc, job, \* where each thread is, and its command
    boots

memVars == <<base, mem, shared>>
pipeVars == <<pipe, up, live, told>>
diskVars == <<cache, file, late, saved>>
vars == <<base, mem, shared, pipe, up, live, told, cache, file, late, saved, ops, pc, job,
          boots>>

NoConf == [p \in Pipelines |-> None]
NoJob == [kind |-> "none", p |-> NoOne, conf |-> None, copy |-> None, tgt |-> NoConf,
          old |-> NoConf, snap |-> NoConf, todo |-> {}, revert |-> FALSE]
Job == [kind : Kinds \cup {"none"}, p : Pipelines \cup {NoOne}, conf : Conf \cup {None},
        copy : Conf \cup {None}, tgt : AgentConf, old : AgentConf, snap : AgentConf,
        todo : SUBSET Pipelines, revert : BOOLEAN]
PC == {"idle", "begin", "stopold", "build", "save", "mark", "stop", "update", "commit",
       "serve", "check", "drop", "snapshot", "lock", "swap", "persist", "raise", "restart"}

TypeOK ==
    /\ base \in AgentConf /\ mem \in AgentConf /\ shared \subseteq Pipelines
    /\ pipe \in AgentConf /\ up \subseteq Pipelines /\ live \in [Pipelines -> Nat]
    /\ told \subseteq Pipelines
    /\ cache \in AgentConf /\ file \in AgentConf /\ late \subseteq Threads
    /\ saved \in {"clean", "failed", "raced"}
    /\ ops \in Threads \cup {NoOne}
    /\ pc \in [Threads -> PC] /\ job \in [Threads -> Job]
    /\ boots \in 0..MaxBoots

Active(c) == {p \in Pipelines : c[p] # None /\ c[p].active}

\* AgentRuntime.run on a session c starts its active pipelines; those outside S
\* fail to start.
Started(c, S) == [p \in Pipelines |-> IF p \in S THEN c[p] ELSE None]
Count(S) == [p \in Pipelines |-> IF p \in S THEN 1 ELSE 0]
Jobless == [t \in Threads |-> NoJob]
AllIdle == [t \in Threads |-> "idle"]

Init ==
    \E c \in Targets : \E S \in SUBSET Active(c) :
        /\ base = c /\ mem = c /\ shared = {}
        /\ cache = c /\ file = c /\ late = {} /\ saved = "clean"
        /\ pipe = Started(c, S) /\ up = S /\ live = Count(S) /\ told = {}
        /\ ops = NoOne /\ pc = AllIdle /\ job = Jobless /\ boots = 0

-----------------------------------------------------------------------------
(* Steps shared by the commands.                                           *)

CanLock(t) == ops \in {NoOne, t}
Goto(t, there) == pc' = [pc EXCEPT ![t] = there]

\* A called operation returns: a reconfiguration goes on with its swap and
\* keeps the lock, an uninstall goes on with the drop, others are answered.
Returns(t) ==
    IF job[t].kind = "reconfig"
    THEN Goto(t, "swap") /\ ops' = t /\ UNCHANGED job
    ELSE /\ ops' = NoOne
         /\ IF job[t].kind = "uninstall"
            THEN Goto(t, "drop") /\ UNCHANGED job
            ELSE Goto(t, "idle") /\ job' = [job EXCEPT ![t] = NoJob]

\* Mutant: a pipeline that fails does not stop the swap.
FailsAnyway(t) == Returns(t)
\* It returns False: a reconfiguration raises, others are answered "failed".
Fails(t) ==
    IF job[t].kind = "reconfig"
    THEN Goto(t, "raise") /\ ops' = t /\ UNCHANGED job
    ELSE Goto(t, "idle") /\ ops' = NoOne /\ job' = [job EXCEPT ![t] = NoJob]

\* The places from which a thread may be saving, by the lock it saves under;
\* the others save under none.
UnderOps == {"save", "mark", "stopold", "stop", "update", "commit"}
UnderLock == {"update", "commit", "serve", "drop"}
InSave(u) ==
    /\ pc[u] \in UnderOps \cup UnderLock \cup {"persist", "raise"}
    /\ pc[u] \in UnderOps => CanLock(u)
Overlapping(t) ==
    {u \in Threads \ {t} : /\ "race" \in SaveFaults /\ InSave(u)
                           /\ ~({pc[t], pc[u]} \subseteq UnderOps)
                           /\ ~({pc[t], pc[u]} \subseteq UnderLock)}

\* Of two saves that overlap the later one may put back what it had read before
\* the first one's update: update_pipeline_config its pipeline's entry (and the
\* list it is in), the others but set_pipeline_status the list.
Undone(t) ==
    \E u \in Overlapping(t) :
        \/ pc[u] \in {"drop", "persist", "raise"}
        \/ /\ pc[u] \in {"save", "update", "commit", "serve"}
           /\ job[u].p = job[t].p \/ pc[t] \in {"drop", "persist", "raise"}

\* A save of thread t puts c in the cache and flushes it: the file is truncated
\* and written, by a write that may fail, or be cut short by a kill.  Saves that
\* overlap may write what they dumped earlier, or over each other's text.
Saves(t, c) ==
    LET race == Overlapping(t) # {} \/ t \in late IN
    /\ late' = (late \ {t}) \cup Overlapping(t)
    /\ cache' = c \/ (Undone(t) /\ UNCHANGED cache)
    /\ \/ race /\ file' \in {c, cache, file, Default} /\ saved' = "raced"
       \/ ~race /\ file' = c /\ saved' = IF saved = "raced" THEN saved ELSE "clean"
       \/ /\ ~race /\ "fail" \in SaveFaults /\ file' \in {file, Default}
          /\ saved' = IF saved = "raced" THEN saved ELSE "failed"
\* It leaves such a place without a save.
NoSave(t) == late' = late \ {t} /\ UNCHANGED <<cache, file, saved>>

\* update_pipeline_config: replaces a config but keeps its active flag.
KeepActive(c, p, conf) ==
    [c EXCEPT ![p] = [conf EXCEPT !.active = c[p] # None /\ c[p].active]]
\* set_pipeline_status.
SetActive(c, p, on) == IF c[p] = None THEN c ELSE [c EXCEPT ![p].active = on]
\* update_full_config: a known pipeline keeps its active flag.
FullConfig(c, tgt) ==
    [p \in Pipelines |-> IF tgt[p] = None \/ c[p] = None THEN tgt[p]
                         ELSE [tgt[p] EXCEPT !.active = c[p].active]]

\* Mutant: the instance is dropped whether its thread ended or not.
StoppedAnyway(t, p) ==
    /\ pipe' = [pipe EXCEPT ![p] = None] /\ up' = up \ {p} /\ UNCHANGED live
    /\ told' = told \ {p} /\ Saves(t, SetActive(cache, p, FALSE))

\* _stop_pipeline, when the thread ended within the timeout.
Stopped(t, p) ==
    /\ pipe' = [pipe EXCEPT ![p] = None] /\ up' = up \ {p}
    /\ live' = [live EXCEPT ![p] = IF p \in up THEN @ - 1 ELSE @]
    /\ told' = told \ {p} /\ Saves(t, SetActive(cache, p, FALSE))

\* ... and when it did not: the instance stays tracked, with its stop event set.
NotStopped(t, p) ==
    /\ p \in up /\ told' = told \cup {p} /\ UNCHANGED <<pipe, up, live>>
    /\ Fails(t) /\ NoSave(t)

-----------------------------------------------------------------------------
First == [start |-> "begin", infer |-> "begin", stop |-> "stop", update |-> "update",
          serve |-> "serve", deploy |-> "commit", uninstall |-> "check",
          reconfig |-> "snapshot"]

\* handle_command: a validated command is dispatched by its type.
Receive(t) ==
    /\ pc[t] = "idle"
    /\ \E k \in Kinds :
         /\ Goto(t, First[k])
         /\ \/ /\ k \in {"start", "update", "deploy"}
               /\ \E p \in Pipelines, c \in Confs :
                    job' = [job EXCEPT ![t] = [NoJob EXCEPT !.kind = k, !.p = p, !.conf = c]]
            \/ /\ k \in {"infer", "stop", "serve", "uninstall"}
               /\ \E p \in Pipelines : job' = [job EXCEPT ![t] = [NoJob EXCEPT !.kind = k, !.p = p]]
            \/ /\ k = "reconfig"
               /\ \E c \in Targets : job' = [job EXCEPT ![t] = [NoJob EXCEPT !.kind = k, !.tgt = c]]
    /\ UNCHANGED <<memVars, pipeVars, diskVars, ops, boots>>

\* _start_pipeline up to the snapshot: no config, the identical config of a
\* running pipeline, or a copy to build from.
BeginStart(t) ==
    LET p == job[t].p
        given == job[t].conf # None
        conf == IF given THEN job[t].conf ELSE mem[p]
        same == given /\ pipe[p] # None /\ mem[p] = conf
    IN
    /\ pc[t] = "begin" /\ CanLock(t)
    /\ \/ conf = None /\ Fails(t)
       \/ same /\ Returns(t)
       \/ /\ conf # None /\ ~same
          /\ ops' = t /\ job' = [job EXCEPT ![t].copy = conf]
          /\ Goto(t, IF pipe[p] # None THEN "stopold" ELSE "build")
    /\ UNCHANGED <<memVars, pipeVars, diskVars, boots>>

\* The running instance is stopped first, or does not stop in time.
StopOld(t) ==
    LET p == job[t].p IN
    /\ pc[t] = "stopold"
    /\ \/ NotStopped(t, p)
       \/ Stopped(t, p) /\ Goto(t, "build") /\ UNCHANGED <<ops, job>>
    /\ UNCHANGED <<memVars, boots>>

\* The components are built off the lock; then the new config is committed
\* and the pipeline registered and started.
Build(t) ==
    LET p == job[t].p IN
    /\ pc[t] = "build"
    /\ \/ Fails(t) /\ UNCHANGED <<memVars, pipeVars>>
       \/ /\ IF job[t].conf = None THEN UNCHANGED memVars
             ELSE /\ mem' = [mem EXCEPT ![p] = job[t].conf]
                  /\ shared' = shared \ {p} /\ UNCHANGED base
          /\ pipe' = [pipe EXCEPT ![p] = job[t].copy] /\ up' = up \cup {p}
          /\ live' = [live EXCEPT ![p] = @ + 1]
          /\ told' = told \ {p} /\ Goto(t, "save") /\ UNCHANGED <<ops, job>>
    /\ UNCHANGED <<diskVars, boots>>

\* The copy it was built from is saved, then marked active.
SaveStarted(t) ==
    /\ pc[t] = "save" /\ Saves(t, KeepActive(cache, job[t].p, job[t].copy))
    /\ Goto(t, "mark")
    /\ UNCHANGED <<memVars, pipeVars, ops, job, boots>>
MarkActive(t) ==
    /\ pc[t] = "mark" /\ Saves(t, SetActive(cache, job[t].p, TRUE))
    /\ Returns(t)
    /\ UNCHANGED <<memVars, pipeVars, boots>>

\* _stop_pipeline: nothing to stop, a timeout, or a stop.
StopPipeline(t) ==
    LET p == job[t].p IN
    /\ pc[t] = "stop" /\ CanLock(t)
    /\ \/ pipe[p] = None /\ Returns(t) /\ NoSave(t) /\ UNCHANGED pipeVars
       \/ NotStopped(t, p)
       \/ pipe[p] # None /\ Stopped(t, p) /\ Returns(t)
    /\ UNCHANGED <<memVars, boots>>

\* A pipeline's thread ends: its source is exhausted, or a late stop.
ThreadEnds(p) ==
    /\ p \in up
    /\ up' = up \ {p} /\ live' = [live EXCEPT ![p] = @ - 1]
    /\ UNCHANGED <<memVars, pipe, told, diskVars, ops, pc, job, boots>>

\* Mutant: the config is only put in memory.
StoreUnsaved(t) ==
    /\ mem' = [mem EXCEPT ![job[t].p] = job[t].conf]
    /\ shared' = shared \ {job[t].p} /\ UNCHANGED base
    /\ NoSave(t) /\ Returns(t)
\* A config is stored without a start.
Store(t) ==
    /\ mem' = [mem EXCEPT ![job[t].p] = job[t].conf]
    /\ shared' = shared \ {job[t].p} /\ UNCHANGED base
    /\ Saves(t, KeepActive(cache, job[t].p, job[t].conf)) /\ Returns(t)

\* _update_pipeline: a running pipeline is restarted with the new config under
\* the same lock, another one's config is stored.
UpdatePipeline(t) ==
    /\ pc[t] = "update" /\ CanLock(t)
    /\ \/ /\ pipe[job[t].p] # None
          /\ Goto(t, "begin") /\ ops' = t /\ NoSave(t) /\ UNCHANGED <<job, memVars>>
       \/ pipe[job[t].p] = None /\ Store(t)
    /\ UNCHANGED <<pipeVars, boots>>

\* _commit_deploy (Deploy has the rest of a deploy).
CommitDeploy(t) ==
    /\ pc[t] = "commit" /\ CanLock(t) /\ Store(t)
    /\ UNCHANGED <<pipeVars, boots>>

\* START_SERVING: the stored config's args are changed in place, under
\* self.lock only; then _start_pipeline.
StartServing(t) ==
    LET p == job[t].p IN
    /\ pc[t] = "serve"
    /\ \/ /\ mem[p] = None /\ Goto(t, "idle") /\ job' = [job EXCEPT ![t] = NoJob]
          /\ NoSave(t) /\ UNCHANGED memVars
       \/ /\ mem[p] # None /\ Goto(t, "begin") /\ UNCHANGED <<job, shared>>
          /\ mem' = [mem EXCEPT ![p].serve = TRUE]
          /\ base' = IF p \in shared THEN [base EXCEPT ![p].serve = TRUE] ELSE base
          /\ Saves(t, KeepActive(cache, p, mem'[p]))
    /\ UNCHANGED <<pipeVars, ops, boots>>

\* _uninstall_model: the unlocked check (refused, or force_stop), ...
CheckUninstall(t) ==
    LET running == pipe[job[t].p] # None IN
    /\ pc[t] = "check"
    /\ \/ running /\ Goto(t, "idle") /\ job' = [job EXCEPT ![t] = NoJob]
       \/ Goto(t, IF running THEN "stop" ELSE "drop") /\ UNCHANGED job
    /\ UNCHANGED <<memVars, pipeVars, diskVars, ops, boots>>

\* ... and the drop of the config under self.lock.
DropConfig(t) ==
    LET p == job[t].p IN
    /\ pc[t] = "drop"
    /\ mem' = [mem EXCEPT ![p] = None] /\ shared' = shared \ {p}
    /\ Saves(t, [cache EXCEPT ![p] = None])
    /\ Goto(t, "idle") /\ job' = [job EXCEPT ![t] = NoJob]
    /\ UNCHANGED <<base, pipeVars, ops, boots>>

-----------------------------------------------------------------------------
(* UPDATE_AGENT_CONFIG.                                                    *)

From(t) == IF job[t].revert THEN job[t].tgt ELSE job[t].old
To(t) == IF job[t].revert THEN job[t].old ELSE job[t].tgt

\* apply_agent_config: refused (version, shape, identity, transport), or the
\* snapshots are taken, under no lock.
TakeSnapshot(t) ==
    /\ pc[t] = "snapshot"
    /\ \/ Goto(t, "idle") /\ job' = [job EXCEPT ![t] = NoJob]
       \/ Goto(t, "lock") /\ job' = [job EXCEPT ![t].old = base, ![t].snap = cache]
    /\ UNCHANGED <<memVars, pipeVars, diskVars, ops, boots>>

\* apply_config, for the new config or back to the snapshot.
LockOps(t) ==
    /\ pc[t] = "lock" /\ ops = NoOne
    /\ ops' = t /\ Goto(t, "swap")
    /\ job' = [job EXCEPT ![t].todo = {p \in Pipelines : From(t)[p] # None \/ To(t)[p] # None}]
    /\ UNCHANGED <<memVars, pipeVars, diskVars, boots>>

\* _diff_and_swap_pipelines: removed pipelines are stopped first, then active
\* ones started and inactive ones stopped.
SwapNext(t) ==
    LET removed == {p \in job[t].todo : To(t)[p] = None} IN
    /\ pc[t] = "swap"
    /\ \E p \in (IF removed # {} THEN removed ELSE job[t].todo) :
         LET starts == p \in Active(To(t))
             stops == p \in removed \/ (~starts /\ pipe[p] # None)
         IN /\ Goto(t, IF starts THEN "begin" ELSE IF stops THEN "stop" ELSE "swap")
            /\ job' = [job EXCEPT ![t].todo = @ \ {p}, ![t].p = p,
                                  ![t].conf = IF starts THEN To(t)[p] ELSE None]
    /\ UNCHANGED <<memVars, pipeVars, diskVars, ops, boots>>

\* rebuild_handlers raises, or the new config replaces the old one whole.
Publish(t) ==
    /\ pc[t] = "swap" /\ job[t].todo = {}
    /\ \/ Goto(t, "raise") /\ UNCHANGED <<memVars, ops>>
       \/ /\ base' = To(t) /\ mem' = To(t)
          /\ shared' = {p \in Pipelines : To(t)[p] # None}
          /\ ops' = NoOne /\ Goto(t, "persist")
    /\ UNCHANGED <<pipeVars, diskVars, job, boots>>

\* update_full_config or restore, after the lock was left.
PersistConfig(t) ==
    /\ pc[t] = "persist"
    /\ Saves(t, IF job[t].revert THEN job[t].snap ELSE FullConfig(cache, job[t].tgt))
    /\ Goto(t, "idle") /\ job' = [job EXCEPT ![t] = NoJob]
    /\ UNCHANGED <<memVars, pipeVars, ops, boots>>

\* A failed swap is reverted; a failed revert saves the new config and asks for
\* a restart.
Raise(t) ==
    /\ pc[t] = "raise" /\ ops' = NoOne
    /\ \/ /\ ~job[t].revert /\ Goto(t, "lock")
          /\ job' = [job EXCEPT ![t].revert = TRUE] /\ NoSave(t)
       \/ /\ job[t].revert /\ Goto(t, "restart")
          /\ Saves(t, FullConfig(cache, job[t].tgt)) /\ UNCHANGED job
    /\ UNCHANGED <<memVars, pipeVars, boots>>

\* The process comes back with the session file; without a readable one, with
\* the factory config.
Boots ==
    \E c \in {file} : \E S \in SUBSET Active(c) :
        /\ base' = c /\ mem' = c /\ shared' = {}
        /\ cache' = c /\ file' = c /\ late' = {} /\ saved' = "clean"
        /\ pipe' = Started(c, S) /\ up' = S /\ live' = Count(S) /\ told' = {}
        /\ ops' = NoOne /\ pc' = AllIdle /\ job' = Jobless
Killed == boots < MaxBoots /\ boots' = boots + 1 /\ Boots
\* request_restart: the process ends with the exit code of a restart.
RestartsForConfig == (\E t \in Threads : pc[t] = "restart") /\ Boots /\ UNCHANGED boots

-----------------------------------------------------------------------------
ThreadStep(t) ==
    \/ BeginStart(t) \/ StopOld(t) \/ Build(t) \/ SaveStarted(t) \/ MarkActive(t)
    \/ StopPipeline(t) \/ UpdatePipeline(t) \/ CommitDeploy(t) \/ StartServing(t)
    \/ CheckUninstall(t) \/ DropConfig(t)
    \/ TakeSnapshot(t) \/ LockOps(t) \/ SwapNext(t) \/ Publish(t) \/ PersistConfig(t)
    \/ Raise(t)
Next == \/ \E t \in Threads : Receive(t) \/ ThreadStep(t)
        \/ \E p \in Pipelines : ThreadEnds(p)
        \/ Killed \/ RestartsForConfig

Spec == Init /\ [][Next]_vars

\* A thread that handles a command goes on (joins and downloads have timeouts),
\* and one that waits for a lock that is free again and again gets it.
Fairness == \A t \in Threads : SF_vars(ThreadStep(t))
FairSpec == Spec /\ Fairness

-----------------------------------------------------------------------------
(* What it promises.                                                       *)

Quiet == \A t \in Threads : pc[t] = "idle"

\* A pipeline never runs twice: no start, update or swap orphans a thread
\* that did not stop in time.
OneInstance == \A p \in Pipelines : live[p] <= 1

\* What is tracked is marked active in the session.
MarkedActive == \A p \in Pipelines : pipe[p] # None => p \in Active(cache)
\* Between commands the session has every config of the runtime with its
\* version, even where saves overlapped; where none did, what is tracked is
\* marked active and, unless the last write failed, the file says the same: a
\* crash then loses no config and no running pipeline.
SessionFaithful ==
    Quiet =>
      /\ \A p \in Pipelines : /\ (mem[p] = None) = (cache[p] = None)
                              /\ mem[p] # None => mem[p].ver = cache[p].ver
      /\ saved # "raced" => MarkedActive
      /\ saved = "clean" => file = cache

\* A config is published only when the runtime tracks what it says: its active
\* pipelines are tracked with the version it gives them (an instance may have
\* ended, or be about to: see PublishedRuns), and of what it drops or turns off
\* nothing is tracked and no thread is alive.
AppliedWhole ==
    [][\A t \in Threads : pc[t] = "swap" /\ pc'[t] = "persist" =>
          \A p \in Pipelines :
              /\ To(t)[p] = None /\ From(t)[p] # None => pipe[p] = None
              /\ To(t)[p] # None =>
                    pipe[p].ver = IF To(t)[p].active THEN To(t)[p].ver ELSE None.ver
              /\ p \notin Active(To(t)) /\ ~(To(t)[p] = None /\ From(t)[p] = None) =>
                    live[p] = 0]_vars

\* Every command is answered: none waits for ever for the lock of another.
CommandAnswered ==
    \A t \in Threads : (pc[t] # "idle") ~> (pc[t] \in {"idle", "restart"})

\* What reconfigure.py says: a failed reconfiguration reverts to the snapshot.
\* The runtime then knows every pipeline the restored session lists.
RevertKeepsDeployed == Quiet => \A p \in Pipelines : cache[p] # None => mem[p] # None

\* What the comments on the lock say: a deploy is serialised against a
\* reconfiguration, so what it committed is in the session too.
CommitPersisted == Quiet => \A p \in Pipelines : mem[p] # None => cache[p] # None

\* What the comment in _diff_and_swap_pipelines says: removed pipelines are
\* stopped; no pipeline runs that has no config.
RunningConfigured == Quiet => \A p \in Pipelines : pipe[p] # None => mem[p] # None

\* What START_MODEL_INFERENCE says: the pipeline it starts is in inference mode.
InferenceMode ==
    \A t \in Threads : pc[t] = "save" /\ job[t].kind = "infer" => ~job[t].copy.serve

\* What remove_pipeline says: an uninstalled pipeline is out of the session
\* until a command brings it back with a config.
RemovedStaysRemoved ==
    [][\A p \in Pipelines : mem[p] = None /\ cache[p] = None =>
          cache'[p] = None \/ mem'[p] # None]_vars

\* What StateManager says: the session is the source of truth after a crash.
SessionSurvives == [][boots' # boots => cache' = cache]_vars

\* The same where saves overlapped: what runs is started again after a crash.
RunningMarked == Quiet => MarkedActive

\* What revert_to_snapshot says: the old pipelines run again.  No instance is
\* published that was told to stop before.
PublishedRuns ==
    [][\A t \in Threads : pc[t] = "swap" /\ pc'[t] = "persist" => Active(To(t)) \cap told = {}]_vars
=============================================================================
