--------------------------- MODULE PipelinesProofs ---------------------------
(* Proofs about Pipelines, for any pipelines, threads, commands, configs,  *)
(* faults and bounds.                                                      *)
EXTENDS Pipelines, TLAPS

(* A command has what its step needs: its pipeline, its config, the copy   *)
(* it builds from, and a kind that leads there.                            *)
AtPipeline == {"begin", "stopold", "build", "save", "mark", "stop", "update", "commit", "serve", "check",
               "drop"}
OfReconfig == {"snapshot", "lock", "swap", "persist", "raise", "restart"}
JobFits(t) ==
    /\ pc[t] \in AtPipeline => job[t].p \in Pipelines
    /\ pc[t] \in {"update", "commit"} => job[t].conf # None
    /\ pc[t] \in {"stopold", "build", "save", "mark"} => job[t].copy # None
    /\ pc[t] = "commit" => job[t].kind = "deploy"
    /\ pc[t] = "update" => job[t].kind = "update"
    /\ pc[t] = "serve" => job[t].kind = "serve"
    /\ pc[t] \in {"check", "drop"} => job[t].kind = "uninstall"
    /\ pc[t] \in OfReconfig => job[t].kind = "reconfig"
SharedThere == \A p \in shared : base[p] # None

(* From the choice of what to start to the save of what was started, and   *)
(* during the whole of a swap, _pipeline_ops_lock is held.                 *)
Holding(t) ==
    \/ pc[t] \in {"stopold", "build", "save", "mark", "swap", "raise"}
    \/ pc[t] \in {"begin", "stop"} /\ job[t].kind = "reconfig"
LockHeld == \A t \in Threads : Holding(t) => ops = t

(* A thread that runs is the tracked instance's, and a pipeline is built   *)
(* where none is tracked.                                                  *)
Counted ==
    /\ \A p \in Pipelines : live[p] = IF p \in up THEN 1 ELSE 0
    /\ \A p \in up : pipe[p] # None
Fresh == \A t \in Threads : pc[t] = "build" => pipe[job[t].p] = None

(* The file is the cache when the last write succeeded.                    *)
FileFits == saved = "clean" => file = cache

IInv == /\ TypeOK /\ SharedThere /\ LockHeld /\ Counted /\ Fresh /\ FileFits
        /\ \A t \in Threads : JobFits(t)

---------------------------------------------------------------------------
(* Configs.                                                                *)
LEMMA ConfTypes ==
    /\ None \notin Conf /\ None.ver = 0 /\ ~None.active /\ NoConf \in AgentConf
    /\ \A c \in Conf : c.ver \in Versions /\ c.ver # 0
    /\ \A c \in Conf, b \in BOOLEAN : [c EXCEPT !.active = b] \in Conf /\ [c EXCEPT !.serve = b] \in Conf
    /\ \A c \in Conf, b \in BOOLEAN : [c EXCEPT !.active = b].ver = c.ver /\ [c EXCEPT !.serve = b].ver = c.ver
    /\ \A c \in Conf, b \in BOOLEAN : [c EXCEPT !.active = b].active = b /\ [c EXCEPT !.serve = b].active = c.active
  <1>1. None \notin Conf /\ None.ver = 0 /\ ~None.active
    BY VersionsAssumption DEF None, Conf
  <1>2. NoConf \in AgentConf BY DEF NoConf, AgentConf
  <1>3. \A c \in Conf : c.ver \in Versions /\ c.ver # 0 BY VersionsAssumption DEF Conf
  <1>4. \A c \in Conf, b \in BOOLEAN : [c EXCEPT !.active = b] \in Conf /\ [c EXCEPT !.serve = b] \in Conf
    BY DEF Conf
  <1>5. \A c \in Conf, b \in BOOLEAN : [c EXCEPT !.active = b].ver = c.ver /\ [c EXCEPT !.serve = b].ver = c.ver
    BY DEF Conf
  <1>6. \A c \in Conf, b \in BOOLEAN : [c EXCEPT !.active = b].active = b /\ [c EXCEPT !.serve = b].active = c.active
    BY DEF Conf
  <1> QED BY <1>1, <1>2, <1>3, <1>4, <1>5, <1>6

(* update_pipeline_config and set_pipeline_status change one pipeline, and *)
(* of it not what the other one keeps.                                     *)
LEMMA KeepActiveType ==
    ASSUME NEW c \in AgentConf, NEW p \in Pipelines, NEW conf \in Conf
    PROVE  /\ KeepActive(c, p, conf) \in AgentConf
           /\ KeepActive(c, p, conf)[p] # None /\ KeepActive(c, p, conf)[p].ver = conf.ver
           /\ p \in Active(c) => p \in Active(KeepActive(c, p, conf))
           /\ \A q \in Pipelines \ {p} : KeepActive(c, p, conf)[q] = c[q]
  <1> DEFINE b == c[p] # None /\ c[p].active
  <1>1. b \in BOOLEAN BY DEF AgentConf, Conf
  <1>2. KeepActive(c, p, conf) = [c EXCEPT ![p] = [conf EXCEPT !.active = b]] BY DEF KeepActive
  <1>3. p \in Active(c) <=> b BY DEF Active
  <1> HIDE DEF b
  <1> DEFINE d == [conf EXCEPT !.active = b]
  <1>4. d \in Conf /\ d.ver = conf.ver /\ d.active = b
    BY <1>1 DEF Conf
  <1>5. d # None /\ KeepActive(c, p, conf) = [c EXCEPT ![p] = d] BY <1>2, <1>4, ConfTypes
  <1> HIDE DEF d
  <1> QED BY <1>3, <1>4, <1>5 DEF AgentConf, Active

LEMMA SetActiveType ==
    ASSUME NEW c \in AgentConf, NEW p \in Pipelines, NEW b \in BOOLEAN
    PROVE  /\ SetActive(c, p, b) \in AgentConf
           /\ \A q \in Pipelines : SetActive(c, p, b)[q] = None <=> c[q] = None
           /\ \A q \in Pipelines : SetActive(c, p, b)[q].ver = c[q].ver
           /\ \A q \in Pipelines \ {p} : SetActive(c, p, b)[q] = c[q]
  <1>1. CASE c[p] = None BY <1>1 DEF SetActive
  <1>2. CASE c[p] # None
    <2>1. c[p] \in Conf BY <1>2 DEF AgentConf
    <2> DEFINE d == [c[p] EXCEPT !.active = b]
    <2>2. d \in Conf /\ d.ver = c[p].ver BY <2>1 DEF Conf
    <2>3. SetActive(c, p, b) = [c EXCEPT ![p] = d] BY <1>2 DEF SetActive, AgentConf
    <2> HIDE DEF d
    <2> QED BY <1>2, <2>2, <2>3, ConfTypes DEF AgentConf
  <1> QED BY <1>1, <1>2

LEMMA FullConfigType ==
    ASSUME NEW c \in AgentConf, NEW tgt \in AgentConf
    PROVE  FullConfig(c, tgt) \in AgentConf
  <1> SUFFICES ASSUME NEW p \in Pipelines
               PROVE  (IF tgt[p] = None \/ c[p] = None THEN tgt[p]
                       ELSE [tgt[p] EXCEPT !.active = c[p].active]) \in Conf \cup {None}
    BY DEF FullConfig, AgentConf
  <1>1. CASE tgt[p] # None /\ c[p] # None
    <2>1. tgt[p] \in Conf /\ c[p].active \in BOOLEAN BY <1>1 DEF AgentConf, Conf
    <2>2. [tgt[p] EXCEPT !.active = c[p].active] \in Conf BY <2>1, ConfTypes
    <2> QED BY <1>1, <2>2
  <1> QED BY <1>1 DEF AgentConf

---------------------------------------------------------------------------
(* What a step of thread t leaves of the control state: the other threads  *)
(* where they were, and the lock with whoever else has it.                 *)
ControlOK(t) ==
    /\ ops' \in Threads \cup {NoOne} /\ pc' \in [Threads -> PC] /\ job' \in [Threads -> Job]
    /\ \A u \in Threads \ {t} : pc'[u] = pc[u] /\ job'[u] = job[u]
    /\ ops' = ops \/ ops \in {NoOne, t}
    /\ JobFits(t)' /\ (Holding(t)' => ops' = t)

LEMMA JobTypes ==
    /\ NoJob \in Job /\ NoJob.kind = "none"
    /\ \A j \in Job : j.p \in Pipelines \cup {NoOne} /\ j.conf \in Conf \cup {None}
    /\ \A j \in Job : j.copy \in Conf \cup {None} /\ j.kind \in Kinds \cup {"none"}
    /\ \A j \in Job : j.tgt \in AgentConf /\ j.old \in AgentConf /\ j.snap \in AgentConf
    /\ \A j \in Job : j.todo \subseteq Pipelines /\ j.revert \in BOOLEAN
  BY ConfTypes DEF NoJob, Job

LEMMA ReturnsOK ==
    ASSUME IInv, NEW t \in Threads, pc[t] \in AtPipeline, ops \in {NoOne, t}, Returns(t)
    PROVE  ControlOK(t)
  <1> USE JobTypes DEF IInv, TypeOK, Returns, Goto
  <1>1. CASE job[t].kind = "reconfig"
    BY <1>1 DEF ControlOK, JobFits, Holding, AtPipeline, OfReconfig, PC
  <1>2. CASE job[t].kind = "uninstall"
    BY <1>2 DEF ControlOK, JobFits, Holding, AtPipeline, OfReconfig, PC
  <1>3. CASE job[t].kind \notin {"reconfig", "uninstall"}
    BY <1>3 DEF ControlOK, JobFits, Holding, AtPipeline, OfReconfig, PC
  <1> QED BY <1>1, <1>2, <1>3

LEMMA FailsOK ==
    ASSUME IInv, NEW t \in Threads, ops \in {NoOne, t}, Fails(t)
    PROVE  ControlOK(t)
  BY JobTypes DEF IInv, TypeOK, Fails, Goto, ControlOK, JobFits, Holding, AtPipeline, OfReconfig, PC

(* What handle_command hands to the step that a command of kind k begins   *)
(* with.                                                                   *)
Accepts(t, k, j) ==
    /\ pc' = [pc EXCEPT ![t] = First[k]] /\ job' = [job EXCEPT ![t] = j]
    /\ j.kind = k
    /\ k # "reconfig" => j.p \in Pipelines
    /\ k \in {"start", "update", "deploy"} => j.conf # None

LEMMA Received ==
    ASSUME IInv, NEW t \in Threads, Receive(t)
    PROVE  ops' = ops /\ \E k \in Kinds, j \in Job : Accepts(t, k, j)
  <1> USE ConfTypes, ConfsAssumption, TargetsAssumption DEF IInv, TypeOK
  <1>1. ops' = ops BY DEF Receive
  <1>2. PICK k \in Kinds :
          /\ Goto(t, First[k])
          /\ \/ /\ k \in {"start", "update", "deploy"}
                /\ \E p \in Pipelines, c \in Confs :
                     job' = [job EXCEPT ![t] = [NoJob EXCEPT !.kind = k, !.p = p, !.conf = c]]
             \/ /\ k \in {"infer", "stop", "serve", "uninstall"}
                /\ \E p \in Pipelines : job' = [job EXCEPT ![t] = [NoJob EXCEPT !.kind = k, !.p = p]]
             \/ /\ k = "reconfig"
                /\ \E c \in Targets : job' = [job EXCEPT ![t] = [NoJob EXCEPT !.kind = k, !.tgt = c]]
    BY DEF Receive
  <1>3. CASE k \in {"start", "update", "deploy"}
    <2>1. PICK p \in Pipelines, c \in Confs :
            job' = [job EXCEPT ![t] = [NoJob EXCEPT !.kind = k, !.p = p, !.conf = c]]
      BY <1>2, <1>3
    <2> DEFINE j == [NoJob EXCEPT !.kind = k, !.p = p, !.conf = c]
    <2>2. j \in Job /\ j.kind = k /\ j.p = p /\ j.conf = c BY DEF Job, NoJob
    <2>3. job' = [job EXCEPT ![t] = j] BY <2>1
    <2> HIDE DEF j
    <2>4. Accepts(t, k, j) BY <1>2, <2>2, <2>3 DEF Accepts, Goto
    <2> QED BY <1>1, <2>2, <2>4
  <1>4. CASE k \in {"infer", "stop", "serve", "uninstall"}
    <2>1. PICK p \in Pipelines : job' = [job EXCEPT ![t] = [NoJob EXCEPT !.kind = k, !.p = p]]
      BY <1>2, <1>4
    <2> DEFINE j == [NoJob EXCEPT !.kind = k, !.p = p]
    <2>2. j \in Job /\ j.kind = k /\ j.p = p BY DEF Job, NoJob
    <2>3. job' = [job EXCEPT ![t] = j] BY <2>1
    <2> HIDE DEF j
    <2>4. Accepts(t, k, j) BY <1>2, <1>4, <2>2, <2>3 DEF Accepts, Goto
    <2> QED BY <1>1, <2>2, <2>4
  <1>5. CASE k = "reconfig"
    <2>1. PICK c \in Targets : job' = [job EXCEPT ![t] = [NoJob EXCEPT !.kind = k, !.tgt = c]]
      BY <1>2, <1>5
    <2> DEFINE j == [NoJob EXCEPT !.kind = k, !.tgt = c]
    <2>2. j \in Job /\ j.kind = k BY DEF Job, NoJob
    <2>3. job' = [job EXCEPT ![t] = j] BY <2>1
    <2> HIDE DEF j
    <2>4. Accepts(t, k, j) BY <1>2, <1>5, <2>2, <2>3 DEF Accepts, Goto
    <2> QED BY <1>1, <2>2, <2>4
  <1> QED BY <1>2, <1>3, <1>4, <1>5

LEMMA CommandControl ==
    ASSUME IInv, NEW t \in Threads,
           Receive(t) \/ BeginStart(t) \/ StopOld(t) \/ Build(t) \/ SaveStarted(t)
           \/ MarkActive(t) \/ StopPipeline(t)
    PROVE  ControlOK(t)
  <1> USE JobTypes DEF IInv, TypeOK, AtPipeline, OfReconfig, PC
  <1>1. CASE Receive(t)
    <2>1. PICK k \in Kinds, j \in Job : Accepts(t, k, j) /\ ops' = ops BY <1>1, Received
    <2>2. First[k] \in PC BY KindsAssumption DEF First, AllKinds
    <2>3. pc'[t] = First[k] /\ job'[t] = j BY <2>1 DEF Accepts
    <2>4. JobFits(t)' /\ ~Holding(t)'
      BY <2>1, <2>3, KindsAssumption DEF Accepts, First, AllKinds, JobFits, Holding
    <2> QED BY <2>1, <2>2, <2>4 DEF ControlOK, Accepts
  <1>2. CASE BeginStart(t)
    <2> DEFINE conf == IF job[t].conf # None THEN job[t].conf ELSE mem[job[t].p]
    <2>1. ops \in {NoOne, t} /\ pc[t] = "begin" BY <1>2 DEF BeginStart, CanLock
    <2>2. CASE Fails(t) BY <2>1, <2>2, FailsOK
    <2>3. CASE Returns(t) BY <2>1, <2>3, ReturnsOK
    <2>4. CASE /\ conf # None /\ ops' = t /\ job' = [job EXCEPT ![t].copy = conf]
               /\ \E there \in {"stopold", "build"} : Goto(t, there)
      <3>1. job[t].p \in Pipelines BY <2>1 DEF JobFits
      <3>2. conf \in Conf BY <2>4, <3>1 DEF AgentConf
      <3>3. [job[t] EXCEPT !.copy = conf] \in Job BY <3>2 DEF Job
      <3>4. job' = [job EXCEPT ![t] = [job[t] EXCEPT !.copy = conf]] BY <2>4
      <3>5. [job[t] EXCEPT !.copy = conf].copy # None /\ [job[t] EXCEPT !.copy = conf].p = job[t].p
        BY <2>4 DEF Job
      <3> HIDE DEF conf
      <3>6. job' \in [Threads -> Job] BY <3>3, <3>4
      <3>7. JobFits(t)' /\ pc' \in [Threads -> PC] BY <2>4, <3>1, <3>4, <3>5 DEF JobFits, Goto
      <3> QED BY <2>1, <2>4, <3>4, <3>6, <3>7 DEF ControlOK, Goto
    <2> QED BY <1>2, <2>2, <2>3, <2>4 DEF BeginStart
  <1>3. CASE StopOld(t)
    <2>1. ops = t /\ pc[t] = "stopold" BY <1>3 DEF StopOld, LockHeld, Holding
    <2>2. CASE Fails(t) BY <2>1, <2>2, FailsOK
    <2>3. CASE Goto(t, "build") /\ UNCHANGED <<ops, job>>
      <3>1. JobFits(t)' BY <2>1, <2>3 DEF JobFits, Goto
      <3> QED BY <2>1, <2>3, <3>1 DEF ControlOK, Goto
    <2> QED BY <1>3, <2>2, <2>3 DEF StopOld, NotStopped
  <1>4. CASE Build(t)
    <2>1. ops = t /\ pc[t] = "build" BY <1>4 DEF Build, LockHeld, Holding
    <2>2. CASE Fails(t) BY <2>1, <2>2, FailsOK
    <2>3. CASE Goto(t, "save") /\ UNCHANGED <<ops, job>>
      <3>1. JobFits(t)' BY <2>1, <2>3 DEF JobFits, Goto
      <3> QED BY <2>1, <2>3, <3>1 DEF ControlOK, Goto
    <2> QED BY <1>4, <2>2, <2>3 DEF Build
  <1>5. CASE SaveStarted(t)
    <2>1. ops = t /\ pc[t] = "save" /\ Goto(t, "mark") /\ UNCHANGED <<ops, job>>
      BY <1>5 DEF SaveStarted, LockHeld, Holding
    <2>2. JobFits(t)' BY <2>1 DEF JobFits, Goto
    <2> QED BY <2>1, <2>2 DEF ControlOK, Goto
  <1>6. CASE MarkActive(t)
    BY <1>6, ReturnsOK DEF MarkActive, LockHeld, Holding
  <1>7. CASE StopPipeline(t)
    BY <1>7, ReturnsOK, FailsOK DEF StopPipeline, NotStopped, CanLock
  <1> QED BY <1>1, <1>2, <1>3, <1>4, <1>5, <1>6, <1>7

LEMMA StoreControl ==
    ASSUME IInv, NEW t \in Threads,
           UpdatePipeline(t) \/ CommitDeploy(t) \/ StartServing(t) \/ CheckUninstall(t) \/ DropConfig(t)
    PROVE  ControlOK(t)
  <1> USE JobTypes DEF IInv, TypeOK, AtPipeline, OfReconfig, PC
  <1>1. CASE UpdatePipeline(t)
    <2>1. ops \in {NoOne, t} /\ pc[t] = "update" BY <1>1 DEF UpdatePipeline, CanLock
    <2>2. CASE Store(t) BY <2>1, <2>2, ReturnsOK DEF Store
    <2>3. CASE Goto(t, "begin") /\ ops' = t /\ job' = job
      <3>1. JobFits(t)' BY <2>1, <2>3 DEF JobFits, Goto
      <3> QED BY <2>1, <2>3, <3>1 DEF ControlOK, Goto
    <2> QED BY <1>1, <2>2, <2>3 DEF UpdatePipeline
  <1>2. CASE CommitDeploy(t)
    BY <1>2, ReturnsOK DEF CommitDeploy, CanLock, Store
  <1>3. CASE StartServing(t)
    <2>1. pc[t] = "serve" /\ ops' = ops BY <1>3 DEF StartServing
    <2>2. CASE Goto(t, "idle") /\ job' = [job EXCEPT ![t] = NoJob]
      BY <2>1, <2>2 DEF ControlOK, Goto, JobFits, Holding
    <2>3. CASE Goto(t, "begin") /\ job' = job
      <3>1. JobFits(t)' BY <2>1, <2>3 DEF JobFits, Goto
      <3>2. ~Holding(t)' BY <2>1, <2>3 DEF JobFits, Holding, Goto
      <3> QED BY <2>1, <2>3, <3>1, <3>2 DEF ControlOK, Goto
    <2> QED BY <1>3, <2>2, <2>3 DEF StartServing
  <1>4. CASE CheckUninstall(t)
    <2>1. pc[t] = "check" /\ ops' = ops BY <1>4 DEF CheckUninstall
    <2>2. CASE Goto(t, "idle") /\ job' = [job EXCEPT ![t] = NoJob]
      BY <2>1, <2>2 DEF ControlOK, Goto, JobFits, Holding
    <2>3. CASE job' = job /\ \E there \in {"stop", "drop"} : Goto(t, there)
      <3>1. JobFits(t)' /\ ~Holding(t)' BY <2>1, <2>3 DEF JobFits, Holding, Goto
      <3> QED BY <2>1, <2>3, <3>1 DEF ControlOK, Goto
    <2> QED BY <1>4, <2>2, <2>3 DEF CheckUninstall
  <1>5. CASE DropConfig(t)
    BY <1>5 DEF DropConfig, ControlOK, Goto, JobFits, Holding
  <1> QED BY <1>1, <1>2, <1>3, <1>4, <1>5

LEMMA ReconfigControl ==
    ASSUME IInv, NEW t \in Threads,
           \/ TakeSnapshot(t) \/ LockOps(t) \/ SwapNext(t) \/ Publish(t)
           \/ PersistConfig(t) \/ Raise(t)
    PROVE  ControlOK(t)
  <1> USE JobTypes DEF IInv, TypeOK, AtPipeline, OfReconfig, PC
  <1>1. CASE TakeSnapshot(t)
    <2>1. pc[t] = "snapshot" /\ ops' = ops BY <1>1 DEF TakeSnapshot
    <2>2. CASE Goto(t, "idle") /\ job' = [job EXCEPT ![t] = NoJob]
      BY <2>1, <2>2 DEF ControlOK, Goto, JobFits, Holding
    <2>3. CASE Goto(t, "lock") /\ job' = [job EXCEPT ![t].old = base, ![t].snap = cache]
      <3> DEFINE j == [job[t] EXCEPT !.old = base, !.snap = cache]
      <3>1. j \in Job /\ j.kind = job[t].kind BY DEF Job
      <3>2. job' = [job EXCEPT ![t] = j] BY <2>3
      <3> HIDE DEF j
      <3>3. JobFits(t)' BY <2>1, <2>3, <3>1, <3>2 DEF JobFits, Goto
      <3> QED BY <2>1, <2>3, <3>1, <3>2, <3>3, ZenonT(40) DEF ControlOK, Goto, Holding
    <2> QED BY <1>1, <2>2, <2>3 DEF TakeSnapshot
  <1>2. CASE LockOps(t)
    <2> DEFINE j == [job[t] EXCEPT !.todo = {p \in Pipelines : From(t)[p] # None \/ To(t)[p] # None}]
    <2>1. j \in Job /\ j.kind = job[t].kind BY DEF Job
    <2>2. job' = [job EXCEPT ![t] = j] BY <1>2 DEF LockOps
    <2> HIDE DEF j
    <2>3. pc[t] = "lock" /\ ops = NoOne /\ ops' = t /\ Goto(t, "swap") BY <1>2 DEF LockOps
    <2>4. JobFits(t)' BY <2>1, <2>2, <2>3 DEF JobFits, Goto
    <2> QED BY <2>1, <2>2, <2>3, <2>4 DEF ControlOK, Goto
  <1>3. CASE SwapNext(t)
    <2>1. pc[t] = "swap" /\ ops = t /\ ops' = t /\ job[t].kind = "reconfig" /\ job[t].todo \subseteq Pipelines
      BY <1>3 DEF SwapNext, LockHeld, Holding, JobFits
    <2>2. To(t) \in AgentConf BY DEF To
    <2>3. PICK p \in job[t].todo, there \in {"begin", "stop", "swap"}, c \in Conf \cup {None} :
            Goto(t, there) /\ job' = [job EXCEPT ![t].todo = @ \ {p}, ![t].p = p, ![t].conf = c]
      <3> DEFINE removed == {p \in job[t].todo : To(t)[p] = None}
                 starts(p) == p \in Active(To(t))
                 stops(p) == p \in removed \/ (~starts(p) /\ pipe[p] # None)
      <3>1. PICK p \in (IF removed # {} THEN removed ELSE job[t].todo) :
              /\ Goto(t, IF starts(p) THEN "begin" ELSE IF stops(p) THEN "stop" ELSE "swap")
              /\ job' = [job EXCEPT ![t].todo = @ \ {p}, ![t].p = p,
                                    ![t].conf = IF starts(p) THEN To(t)[p] ELSE None]
        BY <1>3 DEF SwapNext
      <3>2. p \in job[t].todo /\ p \in Pipelines BY <2>1
      <3>3. To(t)[p] \in Conf \cup {None} BY <2>2, <3>2 DEF AgentConf
      <3> HIDE DEF removed, starts, stops
      <3>4. CASE starts(p) BY <3>1, <3>2, <3>3, <3>4
      <3>5. CASE ~starts(p)
        <4>1. \E there \in {"stop", "swap"} : Goto(t, there) BY <3>1, <3>5
        <4> QED BY <3>1, <3>2, <3>5, <4>1
      <3> QED BY <3>4, <3>5
    <2> DEFINE j == [job[t] EXCEPT !.todo = @ \ {p}, !.p = p, !.conf = c]
    <2>4. j \in Job /\ j.kind = "reconfig" /\ j.p \in Pipelines BY <2>1, <2>3 DEF Job
    <2>5. job' = [job EXCEPT ![t] = j] BY <2>3
    <2> HIDE DEF j
    <2>6. JobFits(t)' BY <2>3, <2>4, <2>5 DEF JobFits, Goto
    <2>7. pc' \in [Threads -> PC] /\ \A u \in Threads \ {t} : pc'[u] = pc[u] BY <2>3 DEF Goto
    <2>8. job' \in [Threads -> Job] /\ \A u \in Threads \ {t} : job'[u] = job[u] BY <2>4, <2>5
    <2> QED BY ONLY <2>1, <2>6, <2>7, <2>8, t \in Threads DEF ControlOK
  <1>4. CASE Publish(t)
    <2>1. pc[t] = "swap" /\ ops = t /\ job' = job /\ job[t].kind = "reconfig"
      BY <1>4 DEF Publish, LockHeld, Holding, JobFits
    <2>2. \/ Goto(t, "raise") /\ ops' = ops
          \/ Goto(t, "persist") /\ ops' = NoOne
      BY <1>4 DEF Publish
    <2>3. JobFits(t)' BY <2>1, <2>2 DEF JobFits, Goto
    <2> QED BY <2>1, <2>2, <2>3 DEF ControlOK, Goto, Holding
  <1>5. CASE PersistConfig(t)
    BY <1>5 DEF PersistConfig, ControlOK, Goto, JobFits, Holding
  <1>6. CASE Raise(t)
    <2>1. pc[t] = "raise" /\ ops = t /\ ops' = NoOne /\ job[t].kind = "reconfig"
      BY <1>6 DEF Raise, LockHeld, Holding, JobFits
    <2>2. CASE Goto(t, "lock") /\ job' = [job EXCEPT ![t].revert = TRUE]
      <3> DEFINE j == [job[t] EXCEPT !.revert = TRUE]
      <3>1. j \in Job /\ j.kind = "reconfig"
        <4>1. \A i \in Job, b \in BOOLEAN :
                [i EXCEPT !.revert = b] \in Job /\ [i EXCEPT !.revert = b].kind = i.kind
          BY DEF Job
        <4>2. job[t] \in Job OBVIOUS
        <4> QED BY <2>1, <4>1, <4>2
      <3>2. job' = [job EXCEPT ![t] = j] BY <2>2
      <3> HIDE DEF j
      <3>3. JobFits(t)' BY <2>2, <3>1, <3>2 DEF JobFits, Goto
      <3> QED BY <2>1, <2>2, <3>1, <3>2, <3>3 DEF ControlOK, Goto, Holding
    <2>3. CASE Goto(t, "restart") /\ job' = job
      <3>1. pc'[t] = "restart" /\ job'[t].kind = "reconfig" BY <2>1, <2>3 DEF Goto
      <3>2. JobFits(t)' BY <3>1 DEF JobFits
      <3>3. ~Holding(t)' BY <3>1 DEF Holding
      <3> QED BY <2>1, <2>3, <3>2, <3>3 DEF ControlOK, Goto
    <2>4. \/ Goto(t, "lock") /\ job' = [job EXCEPT ![t].revert = TRUE]
          \/ Goto(t, "restart") /\ UNCHANGED job
      BY <1>6 DEF Raise
    <2> QED BY <2>2, <2>3, <2>4
  <1> QED BY <1>1, <1>2, <1>3, <1>4, <1>5, <1>6

LEMMA StepControl ==
    ASSUME IInv, NEW t \in Threads, Receive(t) \/ ThreadStep(t) PROVE ControlOK(t)
  BY CommandControl, StoreControl, ReconfigControl DEF ThreadStep

---------------------------------------------------------------------------
(* What a step leaves of the configs, the instances and the session.       *)
MemOK == base' \in AgentConf /\ mem' \in AgentConf /\ shared' \subseteq Pipelines /\ SharedThere'
PipesOK ==
    /\ pipe' \in AgentConf /\ up' \subseteq Pipelines /\ live' \in [Pipelines -> Nat] /\ Counted'
    /\ told' \subseteq Pipelines
DiskOK ==
    /\ cache' \in AgentConf /\ file' \in AgentConf /\ late' \subseteq Threads
    /\ saved' \in {"clean", "failed", "raced"} /\ FileFits'
\* An instance comes or goes only under the lock, and is built where none is.
FreshOK(t) ==
    /\ pipe' = pipe \/ ops \in {NoOne, t}
    /\ pc'[t] = "build" => pipe'[job'[t].p] = None

(* A save puts its update in the cache, unless it overlapped with one that *)
(* put the old entry back.                                                 *)
LEMMA SavesOK ==
    ASSUME IInv, NEW t \in Threads, NEW c \in AgentConf, Saves(t, c)
    PROVE  /\ DiskOK
           /\ cache' = c \/ (cache' = cache /\ Undone(t))
           /\ saved' # "raced" => saved # "raced" /\ cache' = c
  <1> USE DEF IInv, TypeOK
  <1> DEFINE race == Overlapping(t) # {} \/ t \in late
  <1>1. /\ late' = (late \ {t}) \cup Overlapping(t)
        /\ cache' = c \/ (Undone(t) /\ cache' = cache)
        /\ \/ race /\ file' \in {c, cache, file, Default} /\ saved' = "raced"
           \/ ~race /\ file' = c /\ saved' = IF saved = "raced" THEN saved ELSE "clean"
           \/ /\ ~race /\ file' \in {file, Default}
              /\ saved' = IF saved = "raced" THEN saved ELSE "failed"
    BY DEF Saves
  <1>2. Undone(t) => race BY DEF Undone
  <1>3. Overlapping(t) \subseteq Threads BY DEF Overlapping
  <1>4. Default \in AgentConf BY TargetsAssumption
  <1> HIDE DEF race
  <1>5. saved' # "raced" => saved # "raced" /\ cache' = c BY <1>1, <1>2
  <1>6. FileFits' BY <1>1, <1>2 DEF FileFits
  <1>7. DiskOK BY <1>1, <1>3, <1>4, <1>6 DEF DiskOK
  <1> QED BY <1>1, <1>5, <1>7

LEMMA NoSaveOK == ASSUME IInv, NEW t \in Threads, NoSave(t) PROVE DiskOK /\ cache' = cache /\ saved' = saved
  BY DEF IInv, TypeOK, NoSave, DiskOK, FileFits

LEMMA StoppedOK ==
    ASSUME IInv, NEW t \in Threads, NEW p \in Pipelines, Stopped(t, p)
    PROVE  PipesOK /\ DiskOK /\ pipe'[p] = None
  <1> USE DEF IInv, TypeOK
  <1>1. pipe' = [pipe EXCEPT ![p] = None] /\ up' = up \ {p} /\ told' = told \ {p} BY DEF Stopped
  <1>2. live' = [live EXCEPT ![p] = IF p \in up THEN live[p] - 1 ELSE live[p]] BY DEF Stopped
  <1>3. live[p] \in Nat /\ (p \in up => live[p] = 1) /\ (p \notin up => live[p] = 0)
    BY DEF Counted
  <1>4. live' = [live EXCEPT ![p] = 0]
    <2>1. (IF p \in up THEN live[p] - 1 ELSE live[p]) = 0 BY <1>3
    <2> QED BY <1>2, <2>1
  <1>5. PipesOK BY <1>1, <1>4 DEF PipesOK, Counted, AgentConf
  <1>6. DiskOK
    <2>1. SetActive(cache, p, FALSE) \in AgentConf BY SetActiveType
    <2>2. Saves(t, SetActive(cache, p, FALSE)) BY DEF Stopped
    <2> QED BY <2>1, <2>2, SavesOK
  <1> QED BY <1>1, <1>5, <1>6 DEF AgentConf

LEMMA NotStoppedOK ==
    ASSUME IInv, NEW t \in Threads, NEW p \in Pipelines, NotStopped(t, p)
    PROVE  PipesOK /\ DiskOK /\ pipe' = pipe
  <1>1. told' = told \cup {p} /\ UNCHANGED <<pipe, up, live>> /\ NoSave(t) BY DEF NotStopped
  <1>2. PipesOK BY <1>1 DEF IInv, TypeOK, PipesOK, Counted
  <1> QED BY <1>1, <1>2, NoSaveOK

LEMMA SameOK ==
    /\ IInv /\ UNCHANGED memVars => MemOK
    /\ IInv /\ UNCHANGED pipeVars => PipesOK
    /\ IInv /\ UNCHANGED diskVars => DiskOK
  <1>1. IInv /\ UNCHANGED memVars => MemOK BY DEF IInv, TypeOK, memVars, MemOK, SharedThere
  <1>2. IInv /\ UNCHANGED pipeVars => PipesOK BY DEF IInv, TypeOK, pipeVars, PipesOK, Counted
  <1>3. IInv /\ UNCHANGED diskVars => DiskOK BY DEF IInv, TypeOK, diskVars, DiskOK, FileFits
  <1> QED BY <1>1, <1>2, <1>3

\* The steps that change no instance.
LEMMA NoBuild ==
    ASSUME NEW t \in Threads, UNCHANGED pipeVars, pc'[t] # "build"
    PROVE  FreshOK(t)
  BY DEF FreshOK, pipeVars

\* A called operation never returns into the middle of a start.
LEMMA NotBuilding ==
    ASSUME IInv, NEW t \in Threads, Returns(t) \/ Fails(t) PROVE pc'[t] # "build"
  BY DEF IInv, TypeOK, Returns, Fails, Goto

LEMMA CommandData ==
    ASSUME IInv, NEW t \in Threads,
           Receive(t) \/ BeginStart(t) \/ StopOld(t) \/ Build(t) \/ SaveStarted(t)
           \/ MarkActive(t) \/ StopPipeline(t)
    PROVE  MemOK /\ PipesOK /\ DiskOK /\ FreshOK(t) /\ boots' = boots
  <1> USE JobTypes, SameOK DEF IInv, TypeOK, AtPipeline
  <1>1. CASE Receive(t)
    <2>1. PICK k \in Kinds, j \in Job : Accepts(t, k, j) BY <1>1, Received
    <2>2. pc'[t] # "build" BY <2>1, KindsAssumption DEF Accepts, First, AllKinds
    <2> QED BY <1>1, <2>2, NoBuild DEF Receive
  <1>2. CASE BeginStart(t)
    <2>1. UNCHANGED <<memVars, pipeVars, diskVars>> /\ boots' = boots BY <1>2 DEF BeginStart
    <2>2. CASE Returns(t) \/ Fails(t) BY <2>1, <2>2, NotBuilding, NoBuild
    <2>3. CASE ~(Returns(t) \/ Fails(t))
      <3>1. pc'[t] = IF pipe[job[t].p] # None THEN "stopold" ELSE "build"
        BY <1>2, <2>3 DEF BeginStart, Goto
      <3>2. job'[t].p = job[t].p
        <4>1. \E c : job' = [job EXCEPT ![t].copy = c] BY <1>2, <2>3 DEF BeginStart
        <4> QED BY <4>1 DEF Job
      <3>3. FreshOK(t) BY <2>1, <3>1, <3>2 DEF FreshOK, pipeVars
      <3> QED BY <2>1, <3>3
    <2> QED BY <2>2, <2>3
  <1>3. CASE StopOld(t)
    <2>1. /\ ops = t /\ job[t].p \in Pipelines /\ UNCHANGED memVars /\ boots' = boots
          /\ pc[t] = "stopold"
      BY <1>3 DEF StopOld, LockHeld, Holding, JobFits
    <2>2. CASE NotStopped(t, job[t].p)
      <3>1. pc'[t] # "build" BY <2>2, NotBuilding DEF NotStopped
      <3> QED BY <2>1, <2>2, <3>1, NotStoppedOK DEF FreshOK
    <2>3. CASE Stopped(t, job[t].p) /\ UNCHANGED job
      BY <2>1, <2>3, StoppedOK DEF FreshOK
    <2> QED BY <1>3, <2>2, <2>3 DEF StopOld
  <1>4. CASE Build(t)
    <2> DEFINE p == job[t].p
    <2>1. /\ ops = t /\ p \in Pipelines /\ UNCHANGED diskVars /\ boots' = boots /\ job[t].copy \in Conf
          /\ pc[t] = "build" /\ pipe[p] = None
      BY <1>4 DEF Build, LockHeld, Holding, JobFits, Fresh
    <2>2. CASE Fails(t) /\ UNCHANGED <<memVars, pipeVars>> BY <2>1, <2>2, NotBuilding, NoBuild
    <2>3. CASE /\ IF job[t].conf = None THEN UNCHANGED memVars
                  ELSE mem' = [mem EXCEPT ![p] = job[t].conf] /\ shared' = shared \ {p} /\ UNCHANGED base
               /\ pipe' = [pipe EXCEPT ![p] = job[t].copy] /\ up' = up \cup {p}
               /\ live' = [live EXCEPT ![p] = @ + 1] /\ told' = told \ {p} /\ Goto(t, "save")
      <3>1. MemOK BY <2>1, <2>3 DEF MemOK, SharedThere, AgentConf
      <3>2. p \notin up /\ live[p] = 0 BY <2>1 DEF Counted
      <3>3. live' = [live EXCEPT ![p] = 1] BY <2>3, <3>2
      <3>4. PipesOK BY <2>1, <2>3, <3>3, ConfTypes DEF PipesOK, Counted, AgentConf
      <3>5. FreshOK(t) BY <2>1, <2>3 DEF FreshOK, Goto
      <3> QED BY <2>1, <3>1, <3>4, <3>5
    <2> QED BY <1>4, <2>2, <2>3 DEF Build
  <1>5. CASE SaveStarted(t)
    <2>1. /\ job[t].p \in Pipelines /\ job[t].copy \in Conf /\ UNCHANGED <<memVars, pipeVars>>
          /\ boots' = boots
      BY <1>5 DEF SaveStarted, JobFits
    <2>2. KeepActive(cache, job[t].p, job[t].copy) \in AgentConf BY <2>1, KeepActiveType
    <2>3. DiskOK BY <1>5, <2>2, SavesOK DEF SaveStarted
    <2>4. pc'[t] # "build" BY <1>5 DEF SaveStarted, Goto
    <2> QED BY <2>1, <2>3, <2>4, NoBuild
  <1>7. CASE MarkActive(t)
    <2>1. job[t].p \in Pipelines /\ UNCHANGED <<memVars, pipeVars>> /\ boots' = boots
      BY <1>7 DEF MarkActive, JobFits
    <2>2. SetActive(cache, job[t].p, TRUE) \in AgentConf BY <2>1, SetActiveType
    <2>3. DiskOK BY <1>7, <2>2, SavesOK DEF MarkActive
    <2> QED BY <1>7, <2>1, <2>3, NotBuilding, NoBuild DEF MarkActive
  <1>6. CASE StopPipeline(t)
    <2>1. /\ ops \in {NoOne, t} /\ job[t].p \in Pipelines /\ UNCHANGED memVars /\ boots' = boots
      BY <1>6 DEF StopPipeline, CanLock, JobFits
    <2>2. pc'[t] # "build" BY <1>6, NotBuilding DEF StopPipeline, NotStopped
    <2>3. CASE NoSave(t) /\ UNCHANGED pipeVars BY <2>1, <2>2, <2>3, NoBuild, NoSaveOK
    <2>4. CASE Stopped(t, job[t].p) BY <2>1, <2>2, <2>4, StoppedOK DEF FreshOK
    <2>5. CASE NotStopped(t, job[t].p) BY <2>1, <2>2, <2>5, NotStoppedOK DEF FreshOK
    <2> QED BY <1>6, <2>3, <2>4, <2>5 DEF StopPipeline
  <1> QED BY <1>1, <1>2, <1>3, <1>4, <1>5, <1>6, <1>7

LEMMA StoreOK ==
    ASSUME IInv, NEW t \in Threads, pc[t] \in {"update", "commit"}, Store(t)
    PROVE  MemOK /\ DiskOK
  <1> USE JobTypes DEF IInv, TypeOK
  <1>1. job[t].p \in Pipelines /\ job[t].conf \in Conf BY DEF JobFits, AtPipeline
  <1>2. MemOK BY <1>1 DEF Store, MemOK, SharedThere, AgentConf
  <1>3. DiskOK
    <2>1. KeepActive(cache, job[t].p, job[t].conf) \in AgentConf BY <1>1, KeepActiveType
    <2> QED BY <2>1, SavesOK DEF Store
  <1> QED BY <1>2, <1>3

LEMMA ServingOK ==
    ASSUME IInv, NEW t \in Threads, NEW p \in Pipelines, mem[p] # None,
           mem' = [mem EXCEPT ![p].serve = TRUE], shared' = shared,
           base' = (IF p \in shared THEN [base EXCEPT ![p].serve = TRUE] ELSE base),
           Saves(t, KeepActive(cache, p, mem'[p]))
    PROVE  MemOK /\ DiskOK /\ mem'[p] \in Conf /\ mem'[p].ver = mem[p].ver
  <1> USE DEF IInv, TypeOK
  <1> DEFINE m == [mem[p] EXCEPT !.serve = TRUE]
             b == [base[p] EXCEPT !.serve = TRUE]
  <1>0. mem[p] \in Conf /\ (p \in shared => base[p] \in Conf) BY DEF AgentConf, SharedThere
  <1>1. m \in Conf /\ m.ver = mem[p].ver BY <1>0 DEF Conf
  <1>2. mem' = [mem EXCEPT ![p] = m] /\ mem'[p] = m BY DEF AgentConf
  <1>3. p \in shared => b \in Conf BY <1>0 DEF Conf
  <1>4. base' = IF p \in shared THEN [base EXCEPT ![p] = b] ELSE base BY DEF AgentConf
  <1> HIDE DEF m, b
  <1>5. MemOK
    <2>1. mem' \in AgentConf BY <1>1, <1>2 DEF AgentConf
    <2>2. base' \in AgentConf BY <1>3, <1>4 DEF AgentConf
    <2>3. SharedThere'
      <3>1. \A q \in shared : base'[q] = base[q] \/ base'[q] \in Conf BY <1>3, <1>4 DEF AgentConf
      <3>2. None \notin Conf BY ConfTypes
      <3>3. shared' = shared /\ \A q \in shared : base[q] # None BY DEF SharedThere
      <3> HIDE DEF IInv, TypeOK
      <3> QED BY <3>1, <3>2, <3>3 DEF SharedThere
    <2>4. shared' \subseteq Pipelines OBVIOUS
    <2> QED BY <2>1, <2>2, <2>3, <2>4 DEF MemOK
  <1>6. DiskOK
    <2>1. KeepActive(cache, p, mem'[p]) \in AgentConf BY <1>1, <1>2, KeepActiveType
    <2> QED BY <2>1, SavesOK
  <1> QED BY <1>1, <1>2, <1>5, <1>6

LEMMA OtherData ==
    ASSUME IInv, NEW t \in Threads,
           \/ UpdatePipeline(t) \/ CommitDeploy(t) \/ StartServing(t) \/ CheckUninstall(t)
           \/ DropConfig(t) \/ TakeSnapshot(t) \/ LockOps(t) \/ SwapNext(t) \/ Publish(t)
           \/ PersistConfig(t) \/ Raise(t)
    PROVE  MemOK /\ PipesOK /\ DiskOK /\ FreshOK(t) /\ boots' = boots
  <1> USE JobTypes, SameOK DEF IInv, TypeOK, AtPipeline
  <1>1. UNCHANGED pipeVars /\ boots' = boots
    BY DEF UpdatePipeline, CommitDeploy, StartServing, CheckUninstall, DropConfig, TakeSnapshot,
           LockOps, SwapNext, Publish, PersistConfig, Raise
  <1>2. pc'[t] # "build"
    <2>1. CASE \E there \in PC \ {"build"} : Goto(t, there) BY <2>1 DEF Goto
    <2>2. CASE UpdatePipeline(t) BY <2>2, NotBuilding DEF UpdatePipeline, Store, Goto
    <2>3. CASE CommitDeploy(t) BY <2>3, NotBuilding DEF CommitDeploy, Store
    <2>4. CASE SwapNext(t) BY <2>4 DEF SwapNext, Goto
    <2>5. CASE CheckUninstall(t) BY <2>5 DEF CheckUninstall, Goto
    <2> QED
      BY <2>1, <2>2, <2>3, <2>4, <2>5
      DEF StartServing, DropConfig, TakeSnapshot, LockOps, Publish, PersistConfig, Raise, PC
  <1>3. FreshOK(t) BY <1>1, <1>2, NoBuild
  <1>4. To(t) \in AgentConf /\ FullConfig(cache, job[t].tgt) \in AgentConf /\ job[t].snap \in AgentConf
    BY FullConfigType DEF To
  <1>5. MemOK /\ DiskOK
    <2>1. CASE UpdatePipeline(t) BY <2>1, StoreOK, NoSaveOK DEF UpdatePipeline
    <2>2. CASE CommitDeploy(t) BY <2>2, StoreOK DEF CommitDeploy
    <2>3. CASE StartServing(t)
      BY <2>3, ServingOK, NoSaveOK DEF StartServing, JobFits
    <2>4. CASE CheckUninstall(t) \/ TakeSnapshot(t) \/ LockOps(t) \/ SwapNext(t)
      BY <2>4 DEF CheckUninstall, TakeSnapshot, LockOps, SwapNext
    <2>5. CASE DropConfig(t)
      <3>1. job[t].p \in Pipelines BY <2>5 DEF DropConfig, JobFits
      <3>2. MemOK BY <2>5, <3>1 DEF DropConfig, MemOK, SharedThere, AgentConf
      <3>3. [cache EXCEPT ![job[t].p] = None] \in AgentConf BY DEF AgentConf
      <3> QED BY <2>5, <3>2, <3>3, SavesOK DEF DropConfig
    <2>6. CASE Publish(t)
      BY <1>4, <2>6 DEF Publish, MemOK, SharedThere
    <2>7. CASE PersistConfig(t)
      BY <1>4, <2>7, SavesOK DEF PersistConfig
    <2>8. CASE Raise(t)
      BY <1>4, <2>8, SavesOK, NoSaveOK DEF Raise
    <2> QED BY <2>1, <2>2, <2>3, <2>4, <2>5, <2>6, <2>7, <2>8
  <1> QED BY <1>1, <1>3, <1>5

---------------------------------------------------------------------------
LEMMA BootState ==
    ASSUME NEW c \in AgentConf, NEW S \in SUBSET Active(c)
    PROVE  /\ Started(c, S) \in AgentConf /\ S \subseteq Pipelines /\ Count(S) \in [Pipelines -> Nat]
           /\ \A p \in Pipelines : Count(S)[p] = IF p \in S THEN 1 ELSE 0
           /\ \A p \in S : Started(c, S)[p] # None
  BY DEF Started, Active, Count, AgentConf

LEMMA InitIInv == Init => IInv
  <1> SUFFICES ASSUME Init PROVE IInv
    OBVIOUS
  <1>0. PICK c \in Targets : \E S \in SUBSET Active(c) :
        /\ base = c /\ mem = c /\ shared = {}
        /\ cache = c /\ file = c /\ late = {} /\ saved = "clean"
        /\ pipe = Started(c, S) /\ up = S /\ live = Count(S) /\ told = {}
        /\ ops = NoOne /\ pc = AllIdle /\ job = Jobless /\ boots = 0
    BY DEF Init
  <1>1. PICK S \in SUBSET Active(c) :
        /\ base = c /\ mem = c /\ shared = {}
        /\ cache = c /\ file = c /\ late = {} /\ saved = "clean"
        /\ pipe = Started(c, S) /\ up = S /\ live = Count(S) /\ told = {}
        /\ ops = NoOne /\ pc = AllIdle /\ job = Jobless /\ boots = 0
    BY <1>0
  <1>2. c \in AgentConf BY TargetsAssumption
  <1>3. pc = AllIdle /\ job = Jobless /\ \A t \in Threads : pc[t] = "idle" BY <1>1 DEF AllIdle
  <1>4. TypeOK
    <2>1. /\ Started(c, S) \in AgentConf /\ S \subseteq Pipelines /\ Count(S) \in [Pipelines -> Nat]
      BY <1>2, BootState
    <2>2. AllIdle \in [Threads -> PC] BY DEF AllIdle, PC
    <2>3. Jobless \in [Threads -> Job] BY JobTypes DEF Jobless
    <2>4. 0 \in 0 .. MaxBoots BY BootsAssumption
    <2> QED BY <1>1, <1>2, <2>1, <2>2, <2>3, <2>4 DEF TypeOK
  <1>7. Counted
    BY <1>1, <1>2, BootState DEF Counted
  <1>5. SharedThere /\ FileFits BY <1>1 DEF SharedThere, FileFits
  <1>6. LockHeld /\ Fresh /\ \A t \in Threads : JobFits(t)
    BY <1>3 DEF LockHeld, Holding, Fresh, JobFits, AtPipeline, OfReconfig
  <1> QED BY <1>4, <1>5, <1>6, <1>7 DEF IInv

LEMMA BootsIInv == ASSUME IInv, Boots, boots' \in 0 .. MaxBoots PROVE IInv'
  <1> DEFINE c == file
  <1>1. PICK S \in SUBSET Active(c) :
        /\ base' = c /\ mem' = c /\ shared' = {}
        /\ cache' = c /\ file' = c /\ late' = {} /\ saved' = "clean"
        /\ pipe' = Started(c, S) /\ up' = S /\ live' = Count(S) /\ told' = {}
        /\ ops' = NoOne /\ pc' = AllIdle /\ job' = Jobless
    BY DEF Boots
  <1>2. c \in AgentConf BY DEF IInv, TypeOK
  <1> HIDE DEF c
  <1>3. \A t \in Threads : pc'[t] = "idle" BY <1>1 DEF AllIdle
  <1>4. TypeOK'
    BY <1>1, <1>2, BootState, JobTypes DEF TypeOK, AllIdle, Jobless, PC
  <1>7. Counted'
    BY <1>1, <1>2, BootState DEF Counted
  <1>5. SharedThere' /\ FileFits' BY <1>1 DEF SharedThere, FileFits
  <1>6. LockHeld' /\ Fresh' /\ \A t \in Threads : JobFits(t)'
    BY <1>3 DEF LockHeld, Holding, Fresh, JobFits, AtPipeline, OfReconfig
  <1> QED BY <1>4, <1>5, <1>6, <1>7 DEF IInv

LEMMA NextIInv == IInv /\ [Next]_vars => IInv'
  <1> SUFFICES ASSUME IInv, [Next]_vars PROVE IInv'
    OBVIOUS
  <1>1. ASSUME NEW t \in Threads, Receive(t) \/ ThreadStep(t) PROVE IInv'
    <2>1. ControlOK(t) BY <1>1, StepControl
    <2>2. MemOK /\ PipesOK /\ DiskOK /\ FreshOK(t) /\ boots' = boots
      BY <1>1, CommandData, OtherData DEF ThreadStep
    <2>3. TypeOK' /\ SharedThere' /\ Counted' /\ FileFits'
      BY <2>1, <2>2 DEF IInv, TypeOK, ControlOK, MemOK, PipesOK, DiskOK
    <2>4. \A u \in Threads : JobFits(u)'
      BY <2>1 DEF IInv, ControlOK, JobFits
    <2>5. LockHeld'
      BY <2>1, ThreadsAssumption DEF IInv, ControlOK, LockHeld, Holding
    <2>6. Fresh'
      BY <2>1, <2>2, ThreadsAssumption DEF IInv, ControlOK, LockHeld, Holding, Fresh, FreshOK
    <2> QED BY <2>3, <2>4, <2>5, <2>6 DEF IInv
  <1>2. ASSUME NEW p \in Pipelines, ThreadEnds(p) PROVE IInv'
    <2>1. up' = up \ {p} /\ live' = [live EXCEPT ![p] = 0] /\ UNCHANGED <<memVars, pipe, told, diskVars, ops, pc, job, boots>>
      <3>1. live[p] - 1 = 0 BY <1>2 DEF ThreadEnds, IInv, Counted
      <3> QED BY <1>2, <3>1 DEF ThreadEnds
    <2>2. TypeOK' /\ Counted'
      BY <2>1 DEF IInv, TypeOK, Counted, memVars, diskVars
    <2>3. SharedThere' /\ LockHeld' /\ Fresh' /\ FileFits' /\ \A t \in Threads : JobFits(t)'
      BY <2>1 DEF IInv, SharedThere, LockHeld, Holding, Fresh, FileFits, JobFits, memVars, diskVars
    <2> QED BY <2>2, <2>3 DEF IInv
  <1>3. CASE Killed
    BY <1>3, BootsIInv, BootsAssumption DEF Killed, IInv, TypeOK
  <1>4. CASE RestartsForConfig
    BY <1>4, BootsIInv DEF RestartsForConfig, IInv, TypeOK
  <1>5. CASE UNCHANGED vars
    BY <1>5 DEF vars, IInv, TypeOK, SharedThere, LockHeld, Holding, Counted, Fresh, FileFits, JobFits
  <1> QED BY <1>1, <1>2, <1>3, <1>4, <1>5 DEF Next

(* The lock, the instances and their threads stay as IInv says.            *)
THEOREM Invariance == Spec => []IInv
  BY InitIInv, NextIInv, PTL DEF Spec

(* The variables have their types.                                         *)
THEOREM TypeCorrect == Spec => []TypeOK
  BY Invariance, PTL DEF IInv

(* No pipeline ever runs twice, whatever mix of commands, reconfigurations *)
(* and reverts arrives on whatever threads and however late a thread ends: *)
(* _start_pipeline builds only where nothing is tracked, _stop_pipeline    *)
(* keeps what did not stop, and both hold _pipeline_ops_lock.              *)
THEOREM OneInstanceSafe == Spec => []OneInstance
  <1>1. ASSUME IInv, NEW p \in Pipelines PROVE live[p] <= 1
    BY <1>1 DEF IInv, Counted
  <1>2. IInv => OneInstance BY <1>1 DEF OneInstance
  <1> QED BY <1>2, Invariance, PTL

---------------------------------------------------------------------------
(* What a start builds from is what memory has, but for the serve mode,    *)
(* which START_SERVING changes without the lock, and for an uninstall,     *)
(* which drops the config without it.                                      *)
CopyFits(t) ==
    LET p == job[t].p IN
    /\ pc[t] \in {"stopold", "build"} =>
         IF job[t].conf # None THEN job[t].copy = job[t].conf
         ELSE mem[p] = None \/ mem[p].ver = job[t].copy.ver
    /\ pc[t] \in {"save", "mark"} => pipe[p] = job[t].copy /\ (mem[p] = None \/ mem[p].ver = job[t].copy.ver)
CopiesFit == \A t \in Threads : CopyFits(t)

\* Memory, as it may change under another thread's lock.
MemKept == \A p \in Pipelines : mem'[p] = None \/ (mem[p] # None /\ mem'[p].ver = mem[p].ver)

LEMMA KeptBut ==
    ASSUME NEW p, \A q \in Pipelines : q # p => mem'[q] = mem[q],
           mem'[p] = None \/ (mem[p] # None /\ mem'[p].ver = mem[p].ver)
    PROVE  MemKept
  <1> SUFFICES ASSUME NEW q \in Pipelines
               PROVE  mem'[q] = None \/ (mem[q] # None /\ mem'[q].ver = mem[q].ver)
    BY DEF MemKept
  <1>1. CASE q = p BY <1>1
  <1>2. CASE q # p
    <2>1. mem'[q] = mem[q] BY <1>2
    <2> QED BY <2>1
  <1> QED BY <1>1, <1>2
LEMMA SameMem == mem' = mem => MemKept
  <1> SUFFICES ASSUME mem' = mem, NEW q \in Pipelines
               PROVE  mem'[q] = None \/ (mem[q] # None /\ mem'[q].ver = mem[q].ver)
    BY DEF MemKept
  <1>1. mem'[q] = mem[q] OBVIOUS
  <1> QED BY <1>1

\* START_SERVING and the drop of an uninstall, which do not wait for the lock.
LEMMA UnlockedKeep ==
    ASSUME IInv, NEW t \in Threads, StartServing(t) \/ DropConfig(t) PROVE MemKept
  <1>1. job[t].p \in Pipelines BY DEF IInv, JobFits, AtPipeline, StartServing, DropConfig
  <1>2. CASE mem' = mem BY <1>2, SameMem
  <1>3. CASE StartServing(t) /\ mem' # mem
    <2>1. mem[job[t].p] # None /\ mem' = [mem EXCEPT ![job[t].p].serve = TRUE] BY <1>3 DEF StartServing, memVars
    <2>2. \A q \in Pipelines : q # job[t].p => mem'[q] = mem[q] BY <2>1 DEF IInv, TypeOK, AgentConf
    <2>3. mem'[job[t].p].ver = mem[job[t].p].ver
      <3>1. mem[job[t].p] \in Conf BY <1>1, <2>1 DEF IInv, TypeOK, AgentConf
      <3>2. mem'[job[t].p] = [mem[job[t].p] EXCEPT !.serve = TRUE]
        BY <1>1, <2>1 DEF IInv, TypeOK, AgentConf
      <3> QED BY <3>1, <3>2 DEF Conf
    <2> QED BY <2>1, <2>2, <2>3, KeptBut
  <1>4. CASE DropConfig(t)
    <2>1. mem'[job[t].p] = None BY <1>1, <1>4 DEF DropConfig, IInv, TypeOK, AgentConf
    <2>2. \A q \in Pipelines : q # job[t].p => mem'[q] = mem[q] BY <1>4 DEF DropConfig, IInv, TypeOK, AgentConf
    <2> QED BY <2>1, <2>2, KeptBut
  <1> QED BY <1>2, <1>3, <1>4

LEMMA MemUnderLock ==
    ASSUME IInv, NEW t \in Threads, Receive(t) \/ ThreadStep(t), ops \notin {NoOne, t}
    PROVE  MemKept /\ pipe' = pipe
  <1>1. pipe' = pipe
    BY CommandData, OtherData DEF ThreadStep, FreshOK
  <1>2. CASE StopOld(t) \/ Build(t) \/ SaveStarted(t) \/ MarkActive(t) \/ SwapNext(t) \/ Publish(t) \/ Raise(t)
    BY <1>2 DEF StopOld, Build, SaveStarted, MarkActive, SwapNext, Publish, Raise, IInv, LockHeld, Holding
  <1>3. CASE BeginStart(t) \/ StopPipeline(t) \/ UpdatePipeline(t) \/ CommitDeploy(t) \/ LockOps(t)
    BY <1>3 DEF BeginStart, StopPipeline, UpdatePipeline, CommitDeploy, LockOps, CanLock
  <1>4. CASE Receive(t) \/ CheckUninstall(t) \/ TakeSnapshot(t) \/ PersistConfig(t)
    BY <1>1, <1>4, SameMem DEF Receive, CheckUninstall, TakeSnapshot, PersistConfig, memVars
  <1> QED BY <1>1, <1>2, <1>3, <1>4, UnlockedKeep DEF ThreadStep

\* The config that a start is given, or finds.
Given(t) == IF job[t].conf # None THEN job[t].conf ELSE mem[job[t].p]

\* The steps of a start.
Begins(t) ==
    /\ BeginStart(t) /\ pc[t] = "begin" /\ pc'[t] \in {"stopold", "build"} /\ mem' = mem /\ pipe' = pipe
    /\ job' = [job EXCEPT ![t].copy = Given(t)] /\ Given(t) # None
Frees(t) == StopOld(t) /\ pc[t] = "stopold" /\ pc'[t] = "build" /\ job' = job /\ mem' = mem
Builds(t) ==
    /\ Build(t) /\ pc[t] = "build" /\ pc'[t] = "save" /\ job' = job
    /\ pipe' = [pipe EXCEPT ![job[t].p] = job[t].copy]
    /\ job[t].conf = None => mem' = mem
    /\ job[t].conf # None => mem' = [mem EXCEPT ![job[t].p] = job[t].conf]
Copies(t) == SaveStarted(t) /\ pc[t] = "save" /\ pc'[t] = "mark" /\ job' = job /\ mem' = mem /\ pipe' = pipe

LEMMA StartSteps ==
    ASSUME IInv, NEW t \in Threads, Receive(t) \/ ThreadStep(t), pc'[t] \in {"stopold", "build", "save", "mark"}
    PROVE  Begins(t) \/ Frees(t) \/ Builds(t) \/ Copies(t)
  <1> USE DEF IInv, TypeOK
  <1>1. ~Returns(t) /\ ~Fails(t) BY DEF Returns, Fails, Goto
  <1>2. ~Receive(t)
    <2>1. ASSUME Receive(t) PROVE FALSE
      <3>1. PICK k \in Kinds, j \in Job : Accepts(t, k, j) BY <2>1, Received
      <3> QED BY <3>1, KindsAssumption DEF Accepts, First, AllKinds
    <2> QED BY <2>1
  <1>3. \A there \in PC \ {"stopold", "build", "save", "mark"} : ~Goto(t, there) BY DEF Goto
  <1>4. ~MarkActive(t) /\ ~StopPipeline(t) /\ ~CommitDeploy(t) /\ ~UpdatePipeline(t)
    BY <1>1, <1>3 DEF MarkActive, StopPipeline, NotStopped, CommitDeploy, UpdatePipeline, Store, PC
  <1>5. ~StartServing(t) /\ ~CheckUninstall(t) /\ ~DropConfig(t) /\ ~TakeSnapshot(t)
    BY <1>3 DEF StartServing, CheckUninstall, DropConfig, TakeSnapshot, PC
  <1>6. ~LockOps(t) /\ ~SwapNext(t) /\ ~Publish(t) /\ ~PersistConfig(t) /\ ~Raise(t)
    BY <1>3 DEF LockOps, SwapNext, Publish, PersistConfig, Raise, PC
  <1>7. CASE BeginStart(t)
    <2>1. pc'[t] \in {"stopold", "build"} BY <1>1, <1>7 DEF BeginStart, Goto
    <2> QED BY <1>1, <1>7, <2>1 DEF BeginStart, Begins, Given, memVars, pipeVars
  <1>8. CASE StopOld(t)
    <2>1. pc'[t] = "build" BY <1>1, <1>8 DEF StopOld, NotStopped, Goto
    <2> QED BY <1>1, <1>8, <2>1 DEF StopOld, NotStopped, Frees, memVars
  <1>9. CASE Build(t)
    <2>1. pc'[t] = "save" BY <1>1, <1>9 DEF Build, Goto
    <2> QED BY <1>1, <1>9, <2>1 DEF Build, Builds, memVars
  <1>10. CASE SaveStarted(t)
    <2>1. pc'[t] = "mark" BY <1>10 DEF SaveStarted, Goto
    <2> QED BY <1>10, <2>1 DEF SaveStarted, Copies, memVars, pipeVars
  <1> QED BY <1>2, <1>4, <1>5, <1>6, <1>7, <1>8, <1>9, <1>10 DEF ThreadStep

\* A start keeps its command, but for the copy it takes first.
LEMMA BeginsJob ==
    ASSUME IInv, NEW t \in Threads, Begins(t)
    PROVE  /\ job'[t].copy = Given(t) /\ job'[t].conf = job[t].conf /\ job'[t].p = job[t].p
           /\ job'[t].kind = job[t].kind /\ job'[t].tgt = job[t].tgt /\ job'[t].old = job[t].old
           /\ job'[t].revert = job[t].revert /\ job'[t].todo = job[t].todo
  <1> DEFINE c == Given(t)
  <1>1. job' = [job EXCEPT ![t].copy = c] BY DEF Begins
  <1>2. job \in [Threads -> Job] BY DEF IInv, TypeOK
  <1> HIDE DEF c
  <1>3. job'[t] = [job[t] EXCEPT !.copy = c] /\ job[t] \in Job BY <1>1, <1>2
  <1>4. job'[t].copy = c /\ job'[t].conf = job[t].conf /\ job'[t].p = job[t].p BY <1>3 DEF Job
  <1>5. job'[t].kind = job[t].kind /\ job'[t].tgt = job[t].tgt /\ job'[t].old = job[t].old BY <1>3 DEF Job
  <1>6. job'[t].revert = job[t].revert /\ job'[t].todo = job[t].todo BY <1>3 DEF Job
  <1> QED BY <1>4, <1>5, <1>6 DEF c

\* The thread that moves.
LEMMA OwnCopy ==
    ASSUME IInv, NEW t \in Threads, CopyFits(t), Receive(t) \/ ThreadStep(t)
    PROVE  CopyFits(t)'
  <1>1. CASE Begins(t)
    <2>1. pc'[t] \notin {"save", "mark"} /\ mem' = mem BY <1>1 DEF Begins
    <2>2. job'[t].copy = Given(t) /\ job'[t].conf = job[t].conf /\ job'[t].p = job[t].p BY <1>1, BeginsJob
    <2>3. CASE job[t].conf # None BY <2>1, <2>2, <2>3 DEF CopyFits, Given
    <2>4. CASE job[t].conf = None BY <2>1, <2>2, <2>4 DEF CopyFits, Given
    <2> QED BY <2>3, <2>4
  <1>2. CASE Frees(t) BY <1>2 DEF Frees, CopyFits
  <1>3. CASE Builds(t)
    <2>1. job[t].p \in Pipelines BY <1>3 DEF Builds, IInv, JobFits, AtPipeline
    <2>2. pipe'[job[t].p] = job[t].copy BY <1>3, <2>1 DEF Builds, IInv, TypeOK, AgentConf
    <2>3. job[t].conf # None => mem'[job[t].p] = job[t].copy
      <3>1. job[t].conf # None => job[t].copy = job[t].conf BY <1>3 DEF Builds, CopyFits
      <3> QED BY <1>3, <2>1, <3>1 DEF Builds, IInv, TypeOK, AgentConf
    <2>4. pc[t] = "build" /\ pc'[t] = "save" /\ job' = job /\ (job[t].conf = None => mem' = mem)
      BY <1>3 DEF Builds
    <2> QED BY <2>2, <2>3, <2>4 DEF CopyFits
  <1>4. CASE Copies(t) BY <1>4 DEF Copies, CopyFits
  <1>5. CASE pc'[t] \notin {"stopold", "build", "save", "mark"} BY <1>5 DEF CopyFits
  <1> QED BY <1>1, <1>2, <1>3, <1>4, <1>5, StartSteps

LEMMA StepCopies ==
    ASSUME IInv, CopiesFit, NEW t \in Threads, Receive(t) \/ ThreadStep(t)
    PROVE  CopiesFit'
  <1> SUFFICES ASSUME NEW u \in Threads PROVE CopyFits(u)'
    BY DEF CopiesFit
  <1>1. CASE u = t BY <1>1, OwnCopy DEF CopiesFit
  <1>2. CASE u # t
    <2>1. pc'[u] = pc[u] /\ job'[u] = job[u] BY <1>2, StepControl DEF ControlOK
    <2>2. CASE pc[u] \notin {"stopold", "build", "save", "mark"} BY <2>1, <2>2 DEF CopyFits
    <2>3. CASE pc[u] \in {"stopold", "build", "save", "mark"}
      <3>1. ops = u /\ ops \notin {NoOne, t} /\ job[u].p \in Pipelines
        BY <1>2, <2>3, ThreadsAssumption DEF IInv, LockHeld, Holding, JobFits, AtPipeline
      <3>2. MemKept /\ pipe' = pipe BY <3>1, MemUnderLock
      <3>3. CopyFits(u) BY DEF CopiesFit
      <3> QED BY <2>1, <3>1, <3>2, <3>3 DEF CopyFits, MemKept
    <2> QED BY <2>2, <2>3
  <1> QED BY <1>1, <1>2

(* The configs and the session that a command may leave apart only while a *)
(* save of the pipeline is to come, and the active flag only while a       *)
(* started pipeline is about to be marked.                                 *)
Agree(p) == (mem[p] = None) = (cache[p] = None) /\ (mem[p] # None => mem[p].ver = cache[p].ver)
Marked(p) == pipe[p] # None => p \in Active(cache)
Saving(p) == \E t \in Threads : pc[t] \in {"save", "serve"} /\ job[t].p = p /\ mem[p] # None
Marking(p) == \E t \in Threads : pc[t] \in {"save", "mark"} /\ job[t].p = p
SavedLater == \A p \in Pipelines : Agree(p) \/ Saving(p)
MarkedLater ==
    saved # "raced" =>
      /\ \A p \in Pipelines : Marked(p) \/ Marking(p)
      /\ \A t \in Threads : pc[t] = "mark" => cache[job[t].p] # None
\* What a start commits is a config, and stays one until it is saved.
StartKept ==
    \A t \in Threads :
        /\ pc[t] \in {"stopold", "build"} => job[t].conf # None \/ mem[job[t].p] # None
        /\ pc[t] \in {"save", "mark"} => mem[job[t].p] # None
CommandsOnly == Kinds \cap {"reconfig", "uninstall"} = {}
SessInv == IInv /\ CopiesFit /\ SavedLater /\ MarkedLater /\ StartKept

\* The steps that remain of such a runtime.
CommandStep(t) ==
    \/ Receive(t) \/ BeginStart(t) \/ StopOld(t) \/ Build(t) \/ SaveStarted(t) \/ MarkActive(t)
    \/ StopPipeline(t) \/ UpdatePipeline(t) \/ CommitDeploy(t) \/ StartServing(t)
LEMMA OnlyCommandSteps ==
    ASSUME CommandsOnly, IInv, NEW t \in Threads, Receive(t) \/ ThreadStep(t)
    PROVE  CommandStep(t) /\ job[t].kind \notin {"reconfig", "uninstall"}
  <1>1. job[t].kind \notin {"reconfig", "uninstall"}
    BY JobTypes DEF CommandsOnly, IInv, TypeOK
  <1>2. pc[t] \notin OfReconfig \cup {"check", "drop"} BY <1>1 DEF IInv, JobFits
  <1> QED BY <1>1, <1>2 DEF ThreadStep, CommandStep, CheckUninstall, DropConfig, TakeSnapshot, LockOps,
                        SwapNext, Publish, PersistConfig, Raise, OfReconfig

\* No command drops a config.
LEMMA MemStays ==
    ASSUME IInv, NEW t \in Threads, CommandStep(t), NEW p \in Pipelines, mem[p] # None
    PROVE  mem'[p] # None
  <1> USE JobTypes DEF IInv, TypeOK, AgentConf
  <1>1. CASE Receive(t) \/ BeginStart(t) \/ StopOld(t) \/ SaveStarted(t) \/ MarkActive(t) \/ StopPipeline(t)
    BY <1>1 DEF Receive, BeginStart, StopOld, SaveStarted, MarkActive, StopPipeline, memVars
  <1>2. CASE Build(t)
    BY <1>2 DEF Build, memVars
  <1>3. CASE UpdatePipeline(t)
    BY <1>3 DEF UpdatePipeline, Store, memVars, JobFits
  <1>4. CASE CommitDeploy(t)
    BY <1>4 DEF CommitDeploy, Store, JobFits
  <1>5. CASE StartServing(t)
    <2>1. CASE mem' = mem BY <2>1
    <2>2. CASE mem' # mem
      <3>1. job[t].p \in Pipelines BY <1>5 DEF StartServing, JobFits, AtPipeline
      <3>2. mem'[job[t].p] \in Conf BY <1>5, <2>2, <3>1, ServingOK DEF StartServing, memVars
      <3>3. p # job[t].p => mem'[p] = mem[p] BY <1>5, <2>2 DEF StartServing, memVars
      <3> QED BY <3>2, <3>3, ConfTypes
    <2> QED BY <2>1, <2>2
  <1> QED BY <1>1, <1>2, <1>3, <1>4, <1>5 DEF CommandStep

LEMMA StepStartKept ==
    ASSUME CommandsOnly, IInv, StartKept, NEW t \in Threads, Receive(t) \/ ThreadStep(t)
    PROVE  StartKept'
  <1>0. CommandStep(t) BY OnlyCommandSteps
  <1> SUFFICES ASSUME NEW u \in Threads, pc'[u] \in {"stopold", "build", "save", "mark"}
               PROVE  /\ pc'[u] \in {"stopold", "build"} => job'[u].conf # None \/ mem'[job'[u].p] # None
                      /\ pc'[u] \in {"save", "mark"} => mem'[job'[u].p] # None
    BY DEF StartKept
  <1>1. CASE u # t
    <2>1. pc'[u] = pc[u] /\ job'[u] = job[u] BY <1>1, StepControl DEF ControlOK
    <2>2. job[u].p \in Pipelines BY <2>1 DEF IInv, JobFits, AtPipeline
    <2> QED BY <1>0, <2>1, <2>2, MemStays DEF StartKept
  <1>2. CASE u = t
    <2>1. CASE Begins(t)
      BY <1>2, <2>1, BeginsJob DEF Begins, Given
    <2>2. CASE Frees(t) BY <1>2, <2>2 DEF Frees, StartKept
    <2>3. CASE Builds(t)
      <3>1. job[t].p \in Pipelines BY <2>3 DEF Builds, IInv, JobFits, AtPipeline
      <3>2. CASE job[t].conf = None BY <1>2, <2>3, <3>2 DEF Builds, StartKept
      <3>3. CASE job[t].conf # None
        <4>1. mem'[job[t].p] = job[t].conf BY <2>3, <3>1, <3>3 DEF Builds, IInv, TypeOK, AgentConf
        <4> QED BY <1>2, <2>3, <3>3, <4>1 DEF Builds
      <3> QED BY <3>2, <3>3
    <2>4. CASE Copies(t) BY <1>2, <2>4 DEF Copies, StartKept
    <2> QED BY <1>2, <2>1, <2>2, <2>3, <2>4, StartSteps
  <1> QED BY <1>1, <1>2

LEMMA SameAgree ==
    ASSUME NEW q \in Pipelines, Agree(q), mem'[q] = mem[q], cache'[q] = cache[q]
    PROVE  Agree(q)'
  BY DEF Agree
LEMMA SameMarked ==
    ASSUME NEW q \in Pipelines, Marked(q), pipe'[q] = pipe[q], cache'[q] = cache[q]
    PROVE  Marked(q)'
  BY DEF Marked, Active

\* set_pipeline_status.
LEMMA SetAgrees ==
    ASSUME IInv, NEW p \in Pipelines, NEW q \in Pipelines, NEW b \in BOOLEAN, Agree(q), mem' = mem,
           cache' = SetActive(cache, p, b)
    PROVE  Agree(q)'
  <1>0. cache \in AgentConf BY DEF IInv, TypeOK
  <1>1. (cache'[q] = None <=> cache[q] = None) /\ cache'[q].ver = cache[q].ver BY <1>0, SetActiveType
  <1> QED BY <1>1 DEF Agree

\* update_pipeline_config, when what it is given is in memory.
LEMMA KeepAgrees ==
    ASSUME IInv, NEW p \in Pipelines, NEW q \in Pipelines, q = p \/ Agree(q), NEW conf \in Conf,
           mem'[p] # None, mem'[p].ver = conf.ver, q # p => mem'[q] = mem[q],
           cache' = KeepActive(cache, p, conf)
    PROVE  Agree(q)'
  <1>0. cache \in AgentConf BY DEF IInv, TypeOK
  <1>1. cache'[p] # None /\ cache'[p].ver = conf.ver BY <1>0, KeepActiveType
  <1>2. q # p => cache'[q] = cache[q] BY <1>0, KeepActiveType
  <1>3. CASE q # p BY <1>2, <1>3, SameAgree
  <1>4. CASE q = p BY <1>1, <1>4 DEF Agree
  <1> QED BY <1>3, <1>4
LEMMA KeepMarked ==
    ASSUME IInv, NEW p \in Pipelines, NEW q \in Pipelines, Marked(q), NEW conf \in Conf, pipe' = pipe,
           cache' = KeepActive(cache, p, conf)
    PROVE  Marked(q)'
  <1>0. cache \in AgentConf BY DEF IInv, TypeOK
  <1>1. p \in Active(cache) => p \in Active(cache') BY <1>0, KeepActiveType
  <1>2. q # p => cache'[q] = cache[q] BY <1>0, KeepActiveType
  <1>3. CASE q # p BY <1>2, <1>3, SameMarked
  <1>4. CASE q = p BY <1>1, <1>4 DEF Marked
  <1> QED BY <1>3, <1>4

\* Of the commands, only START_SERVING saves without the ops lock, and only a
\* start without self.lock what START_SERVING may undo, or it.
LEMMA UndoneBy ==
    ASSUME CommandsOnly, IInv, NEW t \in Threads, Undone(t), pc[t] \in UnderOps \cup UnderLock
    PROVE  /\ pc[t] \notin {"update", "commit"}
           /\ \E u \in Threads \ {t} : pc[u] \in {"save", "serve"} /\ job[u].p = job[t].p
  <1>1. PICK u \in Overlapping(t) :
          \/ pc[u] \in {"drop", "persist", "raise"}
          \/ /\ pc[u] \in {"save", "update", "commit", "serve"}
             /\ job[u].p = job[t].p \/ pc[t] \in {"drop", "persist", "raise"}
    BY DEF Undone
  <1>2. /\ u \in Threads \ {t}
        /\ ~(pc[t] \in UnderOps /\ pc[u] \in UnderOps) /\ ~(pc[t] \in UnderLock /\ pc[u] \in UnderLock)
    BY DEF Overlapping
  <1>3. \A v \in Threads : pc[v] \notin {"drop", "persist", "raise"}
    <2> SUFFICES ASSUME NEW v \in Threads PROVE pc[v] \notin {"drop", "persist", "raise"}
      OBVIOUS
    <2>1. job[v].kind \notin {"reconfig", "uninstall"} BY JobTypes DEF CommandsOnly, IInv, TypeOK
    <2> QED BY <2>1 DEF IInv, JobFits, OfReconfig
  <1>4. pc[u] \in {"save", "update", "commit", "serve"} /\ job[u].p = job[t].p BY <1>1, <1>2, <1>3
  <1>5. pc[t] \notin {"update", "commit"} BY <1>2, <1>4 DEF UnderOps, UnderLock
  <1>6. pc[u] \in {"save", "serve"} BY <1>2, <1>4 DEF UnderOps, UnderLock
  <1> QED BY <1>2, <1>4, <1>5, <1>6

\* What a stop does to the session: it marks its pipeline as not running.
LEMMA StopSaves ==
    ASSUME IInv, NEW t \in Threads, StopOld(t) \/ StopPipeline(t)
    PROVE  /\ job[t].p \in Pipelines /\ mem' = mem
           /\ \/ cache' = cache /\ pipe' = pipe /\ saved' = saved
              \/ /\ cache' = SetActive(cache, job[t].p, FALSE) \/ cache' = cache
                 /\ saved' # "raced" => saved # "raced" /\ cache' = SetActive(cache, job[t].p, FALSE)
                 /\ pipe' = [pipe EXCEPT ![job[t].p] = None]
  <1>1. job[t].p \in Pipelines /\ mem' = mem
    BY DEF StopOld, StopPipeline, IInv, JobFits, AtPipeline, memVars
  <1>2. CASE NoSave(t) /\ pipe' = pipe BY <1>1, <1>2, NoSaveOK
  <1>3. CASE Stopped(t, job[t].p)
    <2>1. SetActive(cache, job[t].p, FALSE) \in AgentConf BY <1>1, SetActiveType DEF IInv, TypeOK
    <2>2. Saves(t, SetActive(cache, job[t].p, FALSE)) /\ pipe' = [pipe EXCEPT ![job[t].p] = None]
      BY <1>3 DEF Stopped
    <2> QED BY <1>1, <2>1, <2>2, SavesOK
  <1> QED BY <1>2, <1>3 DEF StopOld, StopPipeline, NotStopped, pipeVars

\* A save of update_pipeline_config with a config whose version memory has.
KeptSave(t, p, conf) ==
    /\ p \in Pipelines /\ conf \in Conf /\ pipe' = pipe /\ job[t].p = p
    /\ mem'[p] # None /\ mem'[p].ver = conf.ver /\ \A q \in Pipelines : q # p => mem'[q] = mem[q]
    /\ Saves(t, KeepActive(cache, p, conf))
LEMMA Kept ==
    ASSUME CommandsOnly, SessInv, NEW t \in Threads, CommandStep(t), pc[t] \in {"save", "update", "commit", "serve"}
    PROVE  \/ cache' = cache /\ saved' = saved /\ mem' = mem /\ pipe' = pipe /\ (pc[t] = "serve" => mem[job[t].p] = None)
              /\ pc[t] # "save"
           \/ \E p \in Pipelines, conf \in Conf : KeptSave(t, p, conf)
  <1>0. IInv BY DEF SessInv
  <1>1. job[t].p \in Pipelines BY <1>0 DEF IInv, JobFits, AtPipeline
  <1>2. CASE SaveStarted(t)
    <2>1. mem[job[t].p] # None /\ mem[job[t].p].ver = job[t].copy.ver
      BY <1>2 DEF SaveStarted, SessInv, CopiesFit, CopyFits, StartKept
    <2>2. job[t].copy \in Conf BY <1>0, <1>2, JobTypes DEF SaveStarted, IInv, TypeOK, JobFits
    <2>3. KeptSave(t, job[t].p, job[t].copy) BY <1>1, <1>2, <2>1, <2>2 DEF SaveStarted, KeptSave, memVars, pipeVars
    <2> QED BY <1>1, <2>2, <2>3
  <1>3. ASSUME Store(t), pc[t] \in {"update", "commit"}, pipe' = pipe PROVE KeptSave(t, job[t].p, job[t].conf)
    <2>1. job[t].conf \in Conf BY <1>0, <1>3, JobTypes DEF IInv, TypeOK, JobFits
    <2>2. mem'[job[t].p] = job[t].conf /\ \A q \in Pipelines : q # job[t].p => mem'[q] = mem[q]
      BY <1>0, <1>1, <1>3 DEF Store, IInv, TypeOK, AgentConf
    <2> QED BY <1>1, <1>3, <2>1, <2>2, ConfTypes DEF Store, KeptSave
  <1>4. CASE UpdatePipeline(t)
    <2>1. pipe' = pipe /\ pc[t] = "update" BY <1>4 DEF UpdatePipeline, pipeVars
    <2>2. CASE NoSave(t) /\ mem' = mem BY <1>0, <2>1, <2>2, NoSaveOK
    <2>3. CASE Store(t)
      <3>1. job[t].conf \in Conf BY <1>0, <2>1, JobTypes DEF IInv, TypeOK, JobFits
      <3> QED BY <1>1, <1>3, <2>1, <2>3, <3>1
    <2> QED BY <1>4, <2>2, <2>3 DEF UpdatePipeline, memVars
  <1>5. CASE CommitDeploy(t)
    <2>1. pipe' = pipe /\ pc[t] = "commit" /\ Store(t) BY <1>5 DEF CommitDeploy, pipeVars
    <2>2. job[t].conf \in Conf BY <1>0, <2>1, JobTypes DEF IInv, TypeOK, JobFits
    <2> QED BY <1>1, <1>3, <2>1, <2>2
  <1>6. CASE StartServing(t)
    <2>1. pipe' = pipe /\ pc[t] = "serve" BY <1>6 DEF StartServing, pipeVars
    <2>2. CASE mem[job[t].p] = None
      BY <1>0, <1>6, <2>1, <2>2, NoSaveOK DEF StartServing, memVars
    <2>3. CASE mem[job[t].p] # None
      <3>1. /\ mem' = [mem EXCEPT ![job[t].p].serve = TRUE] /\ shared' = shared
            /\ base' = IF job[t].p \in shared THEN [base EXCEPT ![job[t].p].serve = TRUE] ELSE base
            /\ Saves(t, KeepActive(cache, job[t].p, mem'[job[t].p]))
        BY <1>6, <2>3 DEF StartServing
      <3>2. mem'[job[t].p] \in Conf BY <1>0, <1>1, <2>3, <3>1, ServingOK
      <3>3. \A q \in Pipelines : q # job[t].p => mem'[q] = mem[q] BY <1>0, <3>1 DEF IInv, TypeOK, AgentConf
      <3>4. KeptSave(t, job[t].p, mem'[job[t].p]) BY <1>1, <2>1, <3>1, <3>2, <3>3, ConfTypes DEF KeptSave
      <3> QED BY <1>1, <3>2, <3>4
    <2> QED BY <2>2, <2>3
  <1> QED BY <1>2, <1>4, <1>5, <1>6
        DEF CommandStep, Receive, BeginStart, StopOld, Build, MarkActive, StopPipeline

\* The steps of a command that save no config.
LEMMA OtherSteps ==
    ASSUME IInv, NEW t \in Threads, CommandStep(t), pc[t] \notin {"save", "update", "commit", "serve"}
    PROVE  Receive(t) \/ BeginStart(t) \/ StopOld(t) \/ Build(t) \/ MarkActive(t) \/ StopPipeline(t)
  BY DEF CommandStep, SaveStarted, UpdatePipeline, CommitDeploy, StartServing

\* A pipeline is built, and saved next; or the build failed.
LEMMA BuildSaves ==
    ASSUME IInv, NEW t \in Threads, Build(t)
    PROVE  /\ cache' = cache /\ saved' = saved /\ job[t].p \in Pipelines
           /\ \/ mem' = mem /\ pipe' = pipe
              \/ /\ pc'[t] = "save" /\ job' = job
                 /\ \A q \in Pipelines : q # job[t].p => mem'[q] = mem[q] /\ pipe'[q] = pipe[q]
  <1>1. cache' = cache /\ saved' = saved /\ job[t].p \in Pipelines
    BY DEF Build, diskVars, IInv, JobFits, AtPipeline
  <1>2. CASE UNCHANGED <<memVars, pipeVars>> BY <1>1, <1>2 DEF memVars, pipeVars
  <1>3. CASE ~UNCHANGED <<memVars, pipeVars>>
    <2>1. Goto(t, "save") /\ job' = job BY <1>3 DEF Build
    <2>2. pc'[t] = "save" BY <2>1 DEF Goto, IInv, TypeOK
    <2>3. \A q \in Pipelines : q # job[t].p => mem'[q] = mem[q] /\ pipe'[q] = pipe[q]
      BY <1>3 DEF Build, IInv, TypeOK, AgentConf, memVars, pipeVars
    <2> QED BY <1>1, <2>1, <2>2, <2>3
  <1> QED BY <1>2, <1>3

\* A start's second save.
LEMMA MarkSaves ==
    ASSUME IInv, NEW t \in Threads, MarkActive(t)
    PROVE  /\ job[t].p \in Pipelines /\ mem' = mem /\ pipe' = pipe
           /\ cache' = cache \/ cache' = SetActive(cache, job[t].p, TRUE)
           /\ saved' # "raced" => saved # "raced" /\ cache' = SetActive(cache, job[t].p, TRUE)
  <1>1. job[t].p \in Pipelines /\ mem' = mem /\ pipe' = pipe
    BY DEF MarkActive, IInv, JobFits, AtPipeline, memVars, pipeVars
  <1>2. SetActive(cache, job[t].p, TRUE) \in AgentConf BY <1>1, SetActiveType DEF IInv, TypeOK
  <1> QED BY <1>1, <1>2, SavesOK DEF MarkActive

\* The configs: what a step leaves apart is saved later, by it or by the one
\* that undid its save.
LEMMA StepSaved ==
    ASSUME CommandsOnly, SessInv, NEW t \in Threads, CommandStep(t), NEW q \in Pipelines,
           Agree(q) \/ (pc[t] \in {"save", "serve"} /\ job[t].p = q /\ mem[q] # None)
    PROVE  Agree(q)' \/ Saving(q)'
  <1>0. IInv BY DEF SessInv
  <1>1. CASE pc[t] \in {"save", "update", "commit", "serve"}
    <2>1. CASE cache' = cache /\ mem' = mem /\ pc[t] # "save" /\ (pc[t] = "serve" => mem[job[t].p] = None)
      BY <2>1, SameAgree
    <2>2. ASSUME NEW p \in Pipelines, NEW conf \in Conf, KeptSave(t, p, conf) PROVE Agree(q)' \/ Saving(q)'
      <3>1. KeepActive(cache, p, conf) \in AgentConf /\ Saves(t, KeepActive(cache, p, conf))
        BY <1>0, <2>2, KeepActiveType DEF KeptSave, IInv, TypeOK
      <3>2. /\ mem'[p] # None /\ mem'[p].ver = conf.ver /\ (q # p => mem'[q] = mem[q]) /\ job[t].p = p
        BY <2>2 DEF KeptSave
      <3>3. cache' = KeepActive(cache, p, conf) \/ (cache' = cache /\ Undone(t)) BY <1>0, <3>1, SavesOK
      <3>4. CASE cache' = KeepActive(cache, p, conf) BY <1>0, <3>2, <3>4, KeepAgrees
      <3>5. CASE cache' = cache /\ q # p BY <3>2, <3>5, SameAgree
      <3>6. CASE Undone(t) /\ q = p
        <4>1. PICK u \in Threads \ {t} : pc[u] \in {"save", "serve"} /\ job[u].p = job[t].p
          BY <1>0, <1>1, <3>6, UndoneBy DEF UnderOps, UnderLock
        <4>2. pc'[u] = pc[u] /\ job'[u] = job[u]
          BY <1>0, <4>1, StepControl DEF ControlOK, CommandStep, ThreadStep
        <4> QED BY <3>2, <3>6, <4>1, <4>2 DEF Saving
      <3> QED BY <3>3, <3>4, <3>5, <3>6
    <2> QED BY <1>1, <2>1, <2>2, Kept
  <1>2. CASE pc[t] \notin {"save", "update", "commit", "serve"}
    <2>0. Agree(q) BY <1>2
    <2>1. CASE Receive(t) \/ BeginStart(t)
      BY <2>0, <2>1, SameAgree DEF Receive, BeginStart, memVars, diskVars
    <2>2. CASE StopOld(t) \/ StopPipeline(t)
      BY <1>0, <2>0, <2>2, StopSaves, SetAgrees, SameAgree
    <2>3. CASE Build(t)
      <3>1. CASE mem' = mem BY <1>0, <2>0, <2>3, <3>1, BuildSaves, SameAgree
      <3>2. CASE mem' # mem /\ q # job[t].p BY <1>0, <2>0, <2>3, <3>2, BuildSaves, SameAgree
      <3>3. CASE mem' # mem /\ q = job[t].p
        <4>1. pc'[t] = "save" /\ job' = job BY <1>0, <2>3, <3>3, BuildSaves
        <4>2. StartKept' BY <1>0, <2>3, StepStartKept DEF SessInv, ThreadStep
        <4> QED BY <3>3, <4>1, <4>2 DEF Saving, StartKept
      <3> QED BY <3>1, <3>2, <3>3
    <2>4. CASE MarkActive(t) BY <1>0, <2>0, <2>4, MarkSaves, SetAgrees, SameAgree
    <2> QED BY <1>0, <1>2, <2>1, <2>2, <2>3, <2>4, OtherSteps
  <1> QED BY <1>1, <1>2

\* The active flags, where no save races: KeepActive keeps them, a stop takes
\* the flag with the instance, and a start that built one sets it.
LEMMA StepMarked ==
    ASSUME CommandsOnly, SessInv, NEW t \in Threads, CommandStep(t), saved' # "raced"
    PROVE  /\ saved # "raced"
           /\ \A q \in Pipelines : cache[q] # None => cache'[q] # None
           /\ pc'[t] = "mark" => cache'[job'[t].p] # None
           /\ \A q \in Pipelines :
                Marked(q) \/ (pc[t] \in {"save", "mark"} /\ job[t].p = q) =>
                  Marked(q)' \/ (pc'[t] \in {"save", "mark"} /\ job'[t].p = q)
  <1>0. IInv /\ cache \in AgentConf /\ (Receive(t) \/ ThreadStep(t)) BY DEF SessInv, IInv, TypeOK, CommandStep, ThreadStep
  <1>1. CASE pc[t] \in {"save", "update", "commit", "serve"}
    <2>1. ~Copies(t) => pc'[t] # "mark"
      BY <1>0, StartSteps DEF Begins, Frees, Builds
    <2>2. CASE cache' = cache /\ saved' = saved /\ pipe' = pipe /\ pc[t] # "save"
      BY <1>1, <2>1, <2>2, SameMarked DEF Copies
    <2>3. ASSUME NEW p \in Pipelines, NEW conf \in Conf, KeptSave(t, p, conf)
          PROVE  /\ saved # "raced"
                 /\ \A q \in Pipelines : cache[q] # None => cache'[q] # None
                 /\ pc'[t] = "mark" => cache'[job'[t].p] # None
                 /\ \A q \in Pipelines :
                      Marked(q) \/ (pc[t] \in {"save", "mark"} /\ job[t].p = q) =>
                        Marked(q)' \/ (pc'[t] \in {"save", "mark"} /\ job'[t].p = q)
      <3>1. KeepActive(cache, p, conf) \in AgentConf /\ Saves(t, KeepActive(cache, p, conf))
        BY <1>0, <2>3, KeepActiveType DEF KeptSave
      <3>2. saved # "raced" /\ cache' = KeepActive(cache, p, conf) BY <1>0, <3>1, SavesOK
      <3>3. cache'[p] # None /\ \A q \in Pipelines : q # p => cache'[q] = cache[q] BY <1>0, <3>2, KeepActiveType
      <3>4. pc[t] = "save" => Copies(t)
        BY <1>0 DEF Copies, SessInv, CommandStep, SaveStarted, Receive, BeginStart, StopOld, Build, MarkActive,
             StopPipeline, UpdatePipeline, CommitDeploy, StartServing, Goto, IInv, TypeOK, memVars, pipeVars
      <3>5. pipe' = pipe /\ job[t].p = p BY <2>3 DEF KeptSave
      <3>6. \A q \in Pipelines : Marked(q) => Marked(q)' BY <1>0, <3>2, <3>5, KeepMarked
      <3> QED BY <1>1, <2>1, <3>2, <3>3, <3>4, <3>5, <3>6 DEF Copies
    <2> QED BY <1>1, <2>2, <2>3, Kept
  <1>2. CASE pc[t] \notin {"save", "update", "commit", "serve"}
    <2>0. pc'[t] # "mark" BY <1>0, <1>2, StartSteps DEF Begins, Frees, Builds, Copies
    <2>1. CASE Receive(t) \/ BeginStart(t)
      <3>1. cache' = cache /\ saved' = saved /\ pipe' = pipe BY <2>1 DEF Receive, BeginStart, diskVars, pipeVars
      <3>2. pc[t] # "mark" BY <2>1 DEF Receive, BeginStart
      <3> QED BY <1>2, <2>0, <3>1, <3>2, SameMarked
    <2>2. CASE StopOld(t) \/ StopPipeline(t)
      <3>1. pc[t] # "mark" /\ job[t].p \in Pipelines BY <1>0, <2>2, StopSaves DEF StopOld, StopPipeline
      <3>2. CASE cache' = cache /\ pipe' = pipe /\ saved' = saved BY <1>2, <2>0, <3>1, <3>2, SameMarked
      <3>3. CASE /\ saved # "raced" /\ cache' = SetActive(cache, job[t].p, FALSE)
                 /\ pipe' = [pipe EXCEPT ![job[t].p] = None]
        <4>1. \A q \in Pipelines : cache'[q] = None <=> cache[q] = None BY <1>0, <3>1, <3>3, SetActiveType
        <4>2. \A q \in Pipelines : q # job[t].p => cache'[q] = cache[q]
          <5>1. \A q \in Pipelines \ {job[t].p} : SetActive(cache, job[t].p, FALSE)[q] = cache[q]
            BY <1>0, <3>1, SetActiveType
          <5> QED BY <3>3, <5>1
        <4>3. pipe'[job[t].p] = None /\ \A q \in Pipelines : q # job[t].p => pipe'[q] = pipe[q]
          BY <1>0, <3>1, <3>3 DEF IInv, TypeOK, AgentConf
        <4>4. \A q \in Pipelines : Marked(q) => Marked(q)'
          <5> SUFFICES ASSUME NEW q \in Pipelines, Marked(q) PROVE Marked(q)' OBVIOUS
          <5>1. CASE q = job[t].p BY <4>3, <5>1 DEF Marked
          <5>2. CASE q # job[t].p BY <4>2, <4>3, <5>2, SameMarked
          <5> QED BY <5>1, <5>2
        <4> QED BY <1>2, <2>0, <3>1, <3>3, <4>1, <4>4
      <3> QED BY <1>0, <2>2, <3>2, <3>3, StopSaves
    <2>3. CASE Build(t)
      <3>1. cache' = cache /\ saved' = saved /\ pc[t] # "mark" BY <1>0, <2>3, BuildSaves DEF Build
      <3>2. ASSUME NEW q \in Pipelines, Marked(q)
            PROVE  Marked(q)' \/ (pc'[t] \in {"save", "mark"} /\ job'[t].p = q)
        <4>1. CASE pipe'[q] = pipe[q] BY <3>1, <3>2, <4>1, SameMarked
        <4>2. CASE pipe'[q] # pipe[q] BY <1>0, <2>3, <4>2, BuildSaves
        <4> QED BY <4>1, <4>2
      <3> QED BY <1>2, <2>0, <3>1, <3>2
    <2>4. CASE MarkActive(t)
      <3>0. PICK p \in Pipelines : p = job[t].p BY <1>0, <2>4, MarkSaves
      <3>1. pipe' = pipe /\ saved # "raced" /\ cache' = SetActive(cache, p, TRUE) BY <1>0, <2>4, <3>0, MarkSaves
      <3>2. \A q \in Pipelines : cache'[q] = None <=> cache[q] = None BY <1>0, <3>1, SetActiveType
      <3>3. \A q \in Pipelines \ {p} : cache'[q] = cache[q]
        <4>1. \A q \in Pipelines \ {p} : SetActive(cache, p, TRUE)[q] = cache[q] BY <1>0, SetActiveType
        <4> QED BY <3>1, <4>1
      <3>4. cache[p] # None BY <2>4, <3>0, <3>1 DEF MarkActive, SessInv, MarkedLater
      <3>5. Marked(p)'
        <4>1. cache[p] \in Conf BY <1>0, <3>4 DEF AgentConf
        <4> DEFINE d == [cache[p] EXCEPT !.active = TRUE]
        <4>2. d \in Conf /\ d.active BY <4>1, ConfTypes
        <4>3. SetActive(cache, p, TRUE) = [cache EXCEPT ![p] = d] BY <3>4 DEF SetActive
        <4> HIDE DEF d
        <4>4. cache'[p] = d BY <1>0, <3>1, <4>3 DEF AgentConf
        <4>5. d # None BY <4>2, ConfTypes
        <4>6. p \in Active(cache)' BY <4>2, <4>4, <4>5 DEF Active
        <4> QED BY <4>6 DEF Marked
      <3>6. \A q \in Pipelines : q # p /\ Marked(q) => Marked(q)' BY <3>1, <3>3, SameMarked
      <3> QED BY <2>0, <3>0, <3>1, <3>2, <3>5, <3>6
    <2> QED BY <1>0, <1>2, <2>1, <2>2, <2>3, <2>4, OtherSteps
  <1> QED BY <1>1, <1>2

LEMMA StepSession ==
    ASSUME CommandsOnly, SessInv, NEW t \in Threads, Receive(t) \/ ThreadStep(t)
    PROVE  CopiesFit' /\ StartKept' /\ SavedLater' /\ MarkedLater'
  <1>0. CommandStep(t) /\ IInv BY OnlyCommandSteps DEF SessInv
  <1>1. CopiesFit' /\ StartKept' BY StepCopies, StepStartKept DEF SessInv
  <1>2. \A u \in Threads \ {t} : pc'[u] = pc[u] /\ job'[u] = job[u] BY <1>0, StepControl DEF ControlOK
  <1>3. ASSUME NEW q \in Pipelines PROVE Agree(q)' \/ Saving(q)'
    <2>1. Agree(q) \/ Saving(q) BY DEF SessInv, SavedLater
    <2>2. CASE \E u \in Threads \ {t} : pc[u] \in {"save", "serve"} /\ job[u].p = q /\ mem[q] # None
      BY <1>0, <1>2, <2>2, MemStays DEF Saving
    <2>3. CASE Agree(q) \/ (pc[t] \in {"save", "serve"} /\ job[t].p = q /\ mem[q] # None)
      BY <1>0, <2>3, StepSaved
    <2> QED BY <2>1, <2>2, <2>3 DEF Saving
  <1>4. ASSUME saved' # "raced" PROVE MarkedLater'
    <2>1. /\ saved # "raced"
          /\ \A q \in Pipelines : cache[q] # None => cache'[q] # None
          /\ pc'[t] = "mark" => cache'[job'[t].p] # None
          /\ \A q \in Pipelines :
               Marked(q) \/ (pc[t] \in {"save", "mark"} /\ job[t].p = q) =>
                 Marked(q)' \/ (pc'[t] \in {"save", "mark"} /\ job'[t].p = q)
      BY <1>0, <1>4, StepMarked
    <2>2. \A q \in Pipelines : Marked(q) \/ Marking(q) BY <2>1 DEF SessInv, MarkedLater
    <2>3. \A q \in Pipelines : Marked(q)' \/ Marking(q)' BY <1>2, <2>1, <2>2 DEF Marking
    <2>4. \A u \in Threads : pc'[u] = "mark" => cache'[job'[u].p] # None
      <3> SUFFICES ASSUME NEW u \in Threads \ {t}, pc[u] = "mark" PROVE cache'[job[u].p] # None
        BY <1>2, <2>1
      <3>1. job[u].p \in Pipelines /\ cache[job[u].p] # None
        BY <1>0, <2>1 DEF SessInv, MarkedLater, IInv, JobFits, AtPipeline
      <3> QED BY <2>1, <3>1
    <2> QED BY <2>3, <2>4 DEF MarkedLater
  <1>5. MarkedLater' BY <1>4 DEF MarkedLater
  <1> QED BY <1>1, <1>3, <1>5 DEF SavedLater

(* A start of the process leaves nothing to save.                          *)
LEMMA BootSession ==
    ASSUME NEW c \in AgentConf, NEW S \in SUBSET Active(c), mem' = c, cache' = c,
           pipe' = Started(c, S), pc' = AllIdle
    PROVE  CopiesFit' /\ StartKept' /\ SavedLater' /\ MarkedLater'
  <1>1. \A t \in Threads : pc'[t] = "idle" BY DEF AllIdle
  <1>2. CopiesFit' /\ StartKept' BY <1>1 DEF CopiesFit, CopyFits, StartKept
  <1>3. ASSUME NEW q \in Pipelines PROVE Agree(q)' /\ Marked(q)'
    <2>1. Marked(q)' BY DEF Started, Marked
    <2> QED BY <2>1 DEF Agree
  <1> QED BY <1>1, <1>2, <1>3 DEF SavedLater, MarkedLater

LEMMA InitSession == Init => SessInv
  <1> SUFFICES ASSUME Init PROVE CopiesFit /\ StartKept /\ SavedLater /\ MarkedLater
    BY InitIInv DEF SessInv
  <1>1. PICK c \in Targets : \E S \in SUBSET Active(c) :
          mem = c /\ cache = c /\ pipe = Started(c, S) /\ pc = AllIdle
    BY DEF Init
  <1>2. PICK S \in SUBSET Active(c) : mem = c /\ cache = c /\ pipe = Started(c, S) /\ pc = AllIdle
    BY <1>1
  <1>3. \A t \in Threads : pc[t] = "idle" BY <1>2 DEF AllIdle
  <1>4. CopiesFit /\ StartKept BY <1>3 DEF CopiesFit, CopyFits, StartKept
  <1>5. ASSUME NEW q \in Pipelines PROVE Agree(q) /\ Marked(q)
    <2>1. Marked(q) BY <1>2 DEF Started, Marked
    <2> QED BY <1>2, <2>1 DEF Agree
  <1> QED BY <1>3, <1>4, <1>5 DEF SavedLater, MarkedLater

LEMMA NextSession == CommandsOnly /\ SessInv /\ [Next]_vars => SessInv'
  <1> SUFFICES ASSUME CommandsOnly, SessInv, [Next]_vars
               PROVE  CopiesFit' /\ StartKept' /\ SavedLater' /\ MarkedLater'
    BY NextIInv DEF SessInv
  <1>1. ASSUME NEW t \in Threads, Receive(t) \/ ThreadStep(t)
        PROVE  CopiesFit' /\ StartKept' /\ SavedLater' /\ MarkedLater'
    BY <1>1, StepSession
  <1>2. CASE Boots
    <2> DEFINE c == file
    <2>1. PICK S \in SUBSET Active(c) : mem' = c /\ cache' = c /\ pipe' = Started(c, S) /\ pc' = AllIdle
      BY <1>2 DEF Boots
    <2>2. c \in AgentConf BY DEF SessInv, IInv, TypeOK
    <2> HIDE DEF c
    <2> QED BY <2>1, <2>2, BootSession
  <1>3. CASE UNCHANGED <<mem, pipe, cache, saved, pc, job>>
    <2>1. CopiesFit' /\ StartKept' BY <1>3 DEF SessInv, CopiesFit, CopyFits, StartKept
    <2>2. SavedLater' BY <1>3 DEF SessInv, SavedLater, Saving, Agree
    <2>3. MarkedLater' BY <1>3 DEF SessInv, MarkedLater, Marking, Marked, Active
    <2> QED BY <2>1, <2>2, <2>3
  <1>4. (\E p \in Pipelines : ThreadEnds(p)) => UNCHANGED <<mem, pipe, cache, saved, pc, job>>
    BY DEF ThreadEnds, memVars, diskVars
  <1> QED BY <1>1, <1>2, <1>3, <1>4 DEF Next, Killed, RestartsForConfig, vars

(* Of the commands that start, serve, update, stop and deploy, none leaves *)
(* a config behind when the last of them was answered: every config of the *)
(* runtime is in the session with its version, however the threads         *)
(* interleave, their saves overlap and the process dies in between.  What  *)
(* runs is marked active there unless saves overlapped, and the file is    *)
(* the cache unless they did or a write failed.  Reconfigurations and      *)
(* uninstalls, which write the session after they left the lock or without *)
(* it, are what the hypothesis leaves out; with them it is not true.       *)
THEOREM SessionSafe ==
    ASSUME CommandsOnly PROVE Spec => []SessionFaithful
  <1>1. ASSUME SessInv, Quiet PROVE \A p \in Pipelines : ~Saving(p) /\ ~Marking(p)
    BY <1>1 DEF Quiet, Saving, Marking
  <1>2. SessInv => SessionFaithful
    <2> SUFFICES ASSUME SessInv, Quiet
                 PROVE  /\ \A p \in Pipelines : Agree(p)
                        /\ saved # "raced" => MarkedActive
                        /\ saved = "clean" => file = cache
      BY DEF SessionFaithful, Agree
    <2>1. \A p \in Pipelines : Agree(p) BY <1>1 DEF SessInv, SavedLater
    <2>2. saved # "raced" => MarkedActive BY <1>1 DEF SessInv, MarkedLater, Marked, MarkedActive
    <2>3. saved = "clean" => file = cache BY DEF SessInv, IInv, FileFits
    <2> QED BY <2>1, <2>2, <2>3
  <1>3. SessInv /\ [Next]_vars => SessInv' BY NextSession
  <1> QED BY <1>2, <1>3, InitSession, PTL DEF Spec

---------------------------------------------------------------------------
(* Reconfigurations.  What runs has the version that memory has: only the  *)
(* commit of a deploy changes the config under a running pipeline.         *)
Tracks == \A p \in Pipelines : pipe[p] # None /\ mem[p] # None => pipe[p].ver = mem[p].ver

\* What a swap was to do with pipeline p is done.
Applied(t, p) ==
    /\ To(t)[p] = None /\ From(t)[p] # None => pipe[p] = None
    /\ To(t)[p] # None => pipe[p].ver = IF To(t)[p].active THEN To(t)[p].ver ELSE None.ver
Swapping(t) ==
    job[t].kind = "reconfig" /\ pc[t] \in {"swap", "begin", "stop", "stopold", "build", "save", "mark"}
\* Every pipeline that the swap is through with is as the new config says, and
\* the one at hand is being brought there.
SwapFits(t) ==
    Swapping(t) =>
      /\ \A p \in Pipelines \ job[t].todo : pc[t] = "swap" \/ p # job[t].p => Applied(t, p)
      /\ pc[t] \in {"begin", "stopold", "build", "save", "mark"} =>
           job[t].conf = To(t)[job[t].p] /\ job[t].p \in Active(To(t))
      /\ pc[t] \in {"save", "mark"} => job[t].copy = job[t].conf
      /\ pc[t] = "stop" => job[t].p \notin Active(To(t))
      /\ pc[t] # "swap" => job[t].p \notin job[t].todo
SwapInv == IInv /\ CopiesFit /\ Tracks /\ \A t \in Threads : SwapFits(t)

LEMMA SameTarget ==
    ASSUME NEW t \in Threads, job'[t].tgt = job[t].tgt, job'[t].old = job[t].old,
           job'[t].revert = job[t].revert
    PROVE  To(t)' = To(t) /\ From(t)' = From(t)
  BY DEF To, From

LEMMA StoppedTracks ==
    ASSUME IInv, Tracks, NEW t \in Threads, NEW p \in Pipelines, Stopped(t, p), mem' = mem
    PROVE  Tracks' /\ pipe'[p] = None /\ \A q \in Pipelines : q # p => pipe'[q] = pipe[q]
  <1>1. pipe' = [pipe EXCEPT ![p] = None] /\ pipe \in AgentConf BY DEF Stopped, IInv, TypeOK
  <1>2. pipe'[p] = None /\ \A q \in Pipelines : q # p => pipe'[q] = pipe[q] BY <1>1 DEF AgentConf
  <1> QED BY <1>2 DEF Tracks

LEMMA KeptTracks == ASSUME Tracks, pipe' = pipe, MemKept PROVE Tracks'
  <1> SUFFICES ASSUME NEW p \in Pipelines, pipe[p] # None, mem'[p] # None PROVE pipe[p].ver = mem'[p].ver
    BY DEF Tracks
  <1>1. mem[p] # None /\ mem'[p].ver = mem[p].ver BY DEF MemKept
  <1>2. pipe[p].ver = mem[p].ver BY <1>1 DEF Tracks
  <1> QED BY <1>1, <1>2

NoDeploys == "deploy" \notin Kinds

LEMMA StepTracks ==
    ASSUME NoDeploys, SwapInv, NEW t \in Threads, Receive(t) \/ ThreadStep(t)
    PROVE  Tracks'
  <1>0. IInv /\ Tracks BY DEF SwapInv
  <1>1. CASE mem' = mem /\ pipe' = pipe BY <1>0, <1>1, SameMem, KeptTracks
  <1>2. CASE StartServing(t) \/ DropConfig(t)
    BY <1>0, <1>2, UnlockedKeep, KeptTracks DEF StartServing, DropConfig, pipeVars
  <1>3. CASE StopOld(t) \/ StopPipeline(t)
    <2>1. job[t].p \in Pipelines /\ mem' = mem
      BY <1>0, <1>3 DEF StopOld, StopPipeline, IInv, JobFits, AtPipeline, memVars
    <2>2. pipe' = pipe \/ Stopped(t, job[t].p) BY <1>3 DEF StopOld, StopPipeline, NotStopped, pipeVars
    <2> QED BY <1>0, <1>1, <2>1, <2>2, StoppedTracks
  <1>4. CASE Build(t) /\ pc'[t] = "save"
    <2>1. Builds(t) BY <1>0, <1>4, StartSteps DEF ThreadStep, Begins, Frees, Copies
    <2>2. CopyFits(t)' /\ job[t].p \in Pipelines
      BY <1>0, <2>1, StepCopies DEF SwapInv, CopiesFit, Builds, IInv, JobFits, AtPipeline
    <2>3. LET p == job[t].p IN pipe'[p] = job[t].copy /\ (mem'[p] = None \/ mem'[p].ver = job[t].copy.ver)
      BY <1>4, <2>1, <2>2 DEF CopyFits, Builds
    <2>4. \A q \in Pipelines : q # job[t].p => mem'[q] = mem[q] /\ pipe'[q] = pipe[q]
      BY <1>0, <2>1 DEF Builds, IInv, TypeOK, AgentConf
    <2> QED BY <1>0, <2>3, <2>4 DEF Tracks
  <1>5. CASE Build(t) /\ pc'[t] # "save"
    BY <1>0, <1>1, <1>5 DEF Build, Goto, IInv, TypeOK, memVars, pipeVars
  <1>6. CASE UpdatePipeline(t)
    <2>1. CASE mem' = mem BY <1>1, <1>6, <2>1 DEF UpdatePipeline, pipeVars
    <2>2. CASE pipe[job[t].p] = None /\ mem' = [mem EXCEPT ![job[t].p] = job[t].conf]
      <3>1. pipe' = pipe BY <1>6 DEF UpdatePipeline, pipeVars
      <3>2. \A q \in Pipelines : q # job[t].p => mem'[q] = mem[q] BY <1>0, <2>2 DEF IInv, TypeOK, AgentConf
      <3> QED BY <1>0, <2>2, <3>1, <3>2 DEF Tracks
    <2> QED BY <1>6, <2>1, <2>2 DEF UpdatePipeline, Store, memVars
  <1>7. ~CommitDeploy(t)
    BY <1>0, JobTypes DEF CommitDeploy, IInv, TypeOK, JobFits, NoDeploys
  <1>8. CASE Publish(t) /\ mem' # mem
    <2>1. /\ pc[t] = "swap" /\ job[t].todo = {} /\ mem' = To(t) /\ pipe' = pipe /\ job[t].kind = "reconfig"
      BY <1>0, <1>8 DEF Publish, memVars, pipeVars, IInv, JobFits, OfReconfig
    <2>2. SwapFits(t) /\ Swapping(t) BY <2>1 DEF SwapInv, Swapping
    <2>3. \A p \in Pipelines : Applied(t, p) BY <2>1, <2>2 DEF SwapFits
    <2>4. \A p \in Pipelines : pipe[p] # None => pipe[p].ver # None.ver
      BY <1>0, ConfTypes DEF IInv, TypeOK, AgentConf
    <2> QED BY <2>1, <2>3, <2>4 DEF Tracks, Applied
  <1>9. CASE \/ Receive(t) \/ BeginStart(t) \/ SaveStarted(t) \/ MarkActive(t) \/ CheckUninstall(t)
             \/ TakeSnapshot(t) \/ LockOps(t) \/ SwapNext(t) \/ PersistConfig(t) \/ Raise(t)
    BY <1>1, <1>9 DEF Receive, BeginStart, SaveStarted, MarkActive, CheckUninstall, TakeSnapshot, LockOps,
                      SwapNext, PersistConfig, Raise, memVars, pipeVars
  <1>10. Publish(t) => pipe' = pipe BY DEF Publish, pipeVars
  <1> QED BY <1>1, <1>2, <1>3, <1>4, <1>5, <1>6, <1>7, <1>8, <1>9, <1>10 DEF ThreadStep

\* Where a pipeline's instance did not change, what was applied stays applied.
LEMMA StaysApplied ==
    ASSUME NEW t \in Threads, NEW q \in Pipelines, Applied(t, q), pipe'[q] = pipe[q],
           To(t)' = To(t), From(t)' = From(t)
    PROVE  Applied(t, q)'
  BY DEF Applied

\* What an operation of the swap returns from is done.
LEMMA ReturnApplied ==
    ASSUME SwapInv, NEW t \in Threads, Swapping(t), pc[t] # "swap", Returns(t),
           \A q \in Pipelines : q # job[t].p => pipe'[q] = pipe[q],
           LET p == job[t].p IN
             IF p \in Active(To(t)) THEN pipe'[p].ver = To(t)[p].ver ELSE pipe'[p] = None
    PROVE  SwapFits(t)'
  <1>1. pc'[t] = "swap" /\ job' = job BY DEF Returns, Goto, Swapping, SwapInv, IInv, TypeOK
  <1>2. To(t)' = To(t) /\ From(t)' = From(t) BY <1>1, SameTarget
  <1> SUFFICES ASSUME NEW q \in Pipelines, q \notin job[t].todo PROVE Applied(t, q)'
    BY <1>1 DEF SwapFits
  <1>3. CASE q # job[t].p
    <2>1. Applied(t, q) BY <1>3 DEF SwapInv, SwapFits
    <2> QED BY <1>2, <1>3, <2>1, StaysApplied
  <1>4. CASE q = job[t].p
    <2>1. CASE q \in Active(To(t)) BY <1>2, <1>4, <2>1 DEF Applied, Active
    <2>2. CASE q \notin Active(To(t)) BY <1>2, <1>4, <2>2 DEF Applied, Active
    <2> QED BY <2>1, <2>2
  <1> QED BY <1>3, <1>4

LEMMA OwnSwapCommand ==
    ASSUME SwapInv, NEW t \in Threads, Swapping(t)',
           BeginStart(t) \/ StopOld(t) \/ Build(t) \/ SaveStarted(t) \/ MarkActive(t) \/ StopPipeline(t)
    PROVE  SwapFits(t)'
  <1>0. IInv /\ Tracks /\ CopyFits(t) /\ SwapFits(t) /\ ThreadStep(t)
    BY DEF SwapInv, CopiesFit, ThreadStep
  <1> DEFINE p == job[t].p
  <1>1. p \in Pipelines /\ pc[t] \in {"begin", "stopold", "build", "save", "mark", "stop"}
    BY <1>0 DEF BeginStart, StopOld, Build, SaveStarted, MarkActive, StopPipeline, IInv, JobFits, AtPipeline
  <1>2. ~Fails(t) BY <1>0 DEF Fails, Goto, Swapping, IInv, TypeOK, NoJob
  <1>3. job[t].kind = "reconfig" /\ Swapping(t)
    <2>1. CASE Returns(t)
      BY <1>0, <1>1, <2>1, JobTypes DEF Returns, Goto, Swapping, IInv, TypeOK
    <2>2. CASE Begins(t) BY <1>0, <1>1, <2>2, BeginsJob DEF Swapping
    <2>3. CASE Frees(t) \/ Builds(t) \/ Copies(t) BY <1>1, <2>3 DEF Frees, Builds, Copies, Swapping
    <2>4. Returns(t) \/ pc'[t] \in {"stopold", "build", "save", "mark"}
      BY <1>0, <1>2 DEF BeginStart, StopOld, NotStopped, Build, SaveStarted, MarkActive, StopPipeline, Goto,
                        IInv, TypeOK
    <2> QED BY <1>0, <2>1, <2>2, <2>3, <2>4, StartSteps
  <1>4. pc[t] # "stop" => p \in Active(To(t)) /\ job[t].conf = To(t)[p] /\ job[t].conf # None
    BY <1>0, <1>1, <1>3 DEF SwapFits, Active
  <1>5. pc[t] = "stop" => p \notin Active(To(t)) BY <1>0, <1>3 DEF SwapFits
  <1>6. p \notin job[t].todo /\ \A q \in Pipelines \ job[t].todo : q # p => Applied(t, q)
    BY <1>0, <1>1, <1>3 DEF SwapFits
  <1>7. CASE Begins(t)
    <2>1. pipe' = pipe /\ pc'[t] \in {"stopold", "build"} /\ pc[t] = "begin" BY <1>7 DEF Begins
    <2>2. job'[t].conf = job[t].conf /\ job'[t].p = p /\ job'[t].todo = job[t].todo BY <1>0, <1>7, BeginsJob
    <2>3. To(t)' = To(t) /\ From(t)' = From(t) BY <1>0, <1>7, BeginsJob, SameTarget
    <2>4. \A q \in Pipelines \ job[t].todo : q # p => Applied(t, q)' BY <1>6, <2>1, <2>3, StaysApplied
    <2> QED BY <1>4, <1>6, <2>1, <2>2, <2>3, <2>4 DEF SwapFits
  <1>8. CASE Frees(t)
    <2>1. pc[t] = "stopold" /\ pc'[t] = "build" /\ job' = job /\ mem' = mem BY <1>8 DEF Frees
    <2>2. Stopped(t, p) BY <1>2, <1>8 DEF Frees, StopOld, NotStopped
    <2>3. To(t)' = To(t) /\ From(t)' = From(t) BY <2>1, SameTarget
    <2>4. \A q \in Pipelines \ job[t].todo : q # p => Applied(t, q)'
      BY <1>0, <1>1, <1>6, <2>1, <2>2, <2>3, StoppedTracks, StaysApplied
    <2> QED BY <1>4, <1>6, <2>1, <2>3, <2>4 DEF SwapFits
  <1>9. CASE Builds(t)
    <2>1. pc[t] = "build" /\ pc'[t] = "save" /\ job' = job BY <1>9 DEF Builds
    <2>2. job[t].copy = job[t].conf BY <1>0, <1>4, <2>1 DEF CopyFits
    <2>3. To(t)' = To(t) /\ From(t)' = From(t) BY <2>1, SameTarget
    <2>4. \A q \in Pipelines : q # p => pipe'[q] = pipe[q] BY <1>0, <1>9 DEF Builds, IInv, TypeOK, AgentConf
    <2>5. \A q \in Pipelines \ job[t].todo : q # p => Applied(t, q)' BY <1>6, <2>3, <2>4, StaysApplied
    <2> QED BY <1>4, <1>6, <2>1, <2>2, <2>3, <2>5 DEF SwapFits
  <1>10. CASE Returns(t) /\ BeginStart(t)
    <2>1. pc[t] = "begin" /\ pipe' = pipe BY <1>10 DEF BeginStart, pipeVars
    <2>2. pipe[p] # None /\ mem[p] = job[t].conf
      <3>1. ~Goto(t, "stopold") /\ ~Goto(t, "build")
        BY <1>0, <1>3, <1>10 DEF Returns, Goto, IInv, TypeOK
      <3> QED BY <1>2, <1>4, <1>10, <2>1, <3>1 DEF BeginStart
    <2>3. pipe[p].ver = To(t)[p].ver BY <1>0, <1>1, <1>4, <2>1, <2>2 DEF Tracks
    <2> QED BY <1>3, <1>4, <1>10, <2>1, <2>3, ReturnApplied
  <1>11. CASE Returns(t) /\ MarkActive(t)
    <2>1. pc[t] = "mark" /\ pipe' = pipe BY <1>11 DEF MarkActive, pipeVars
    <2>2. pipe[p] = job[t].copy /\ job[t].copy = job[t].conf BY <1>0, <1>3, <2>1 DEF CopyFits, SwapFits
    <2>3. pipe[p].ver = To(t)[p].ver BY <1>4, <2>1, <2>2
    <2> QED BY <1>3, <1>4, <1>11, <2>1, <2>3, ReturnApplied
  <1>12. CASE Returns(t) /\ StopPipeline(t)
    <2>1. pc[t] = "stop" /\ mem' = mem BY <1>12 DEF StopPipeline, memVars
    <2>2. (pipe[p] = None /\ pipe' = pipe) \/ Stopped(t, p) BY <1>2, <1>12 DEF StopPipeline, NotStopped, pipeVars
    <2>3. pipe'[p] = None /\ \A q \in Pipelines : q # p => pipe'[q] = pipe[q]
      BY <1>0, <1>1, <2>1, <2>2, StoppedTracks
    <2> QED BY <1>3, <1>5, <1>12, <2>1, <2>3, ReturnApplied
  <1>13. CASE Copies(t)
    <2>1. pc[t] = "save" /\ pc'[t] = "mark" /\ job' = job /\ pipe' = pipe BY <1>13 DEF Copies
    <2>2. job[t].copy = job[t].conf BY <1>0, <1>3, <2>1 DEF SwapFits
    <2>3. To(t)' = To(t) /\ From(t)' = From(t) BY <2>1, SameTarget
    <2>4. \A q \in Pipelines \ job[t].todo : q # p => Applied(t, q)' BY <1>6, <2>1, <2>3, StaysApplied
    <2> QED BY <1>4, <1>6, <2>1, <2>2, <2>3, <2>4 DEF SwapFits
  <1>16. CASE pc'[t] \in {"stopold", "build", "save", "mark"}
    BY <1>0, <1>7, <1>8, <1>9, <1>13, <1>16, StartSteps
  <1>14. CASE Returns(t) /\ (StopOld(t) \/ Build(t) \/ SaveStarted(t))
    <2>1. pc[t] \in {"stopold", "build", "save"} BY <1>14 DEF StopOld, Build, SaveStarted
    <2>2. pc'[t] = "swap" BY <1>0, <1>3, <1>14 DEF Returns, Goto, IInv, TypeOK
    <2> QED BY <1>0, <1>2, <1>14, <2>2 DEF StopOld, NotStopped, Build, SaveStarted, Goto, IInv, TypeOK
  <1>15. Returns(t) \/ pc'[t] \in {"stopold", "build", "save", "mark"}
    BY <1>0, <1>2 DEF BeginStart, StopOld, NotStopped, Build, SaveStarted, MarkActive, StopPipeline, Goto,
                      IInv, TypeOK
  <1> QED BY <1>10, <1>11, <1>12, <1>14, <1>15, <1>16

\* _diff_and_swap_pipelines takes the next pipeline, or leaves it as it is.
LEMMA OwnSwapNext ==
    ASSUME SwapInv, NEW t \in Threads, SwapNext(t) PROVE SwapFits(t)'
  <1>0. IInv /\ SwapFits(t) /\ pc[t] = "swap" BY DEF SwapInv, SwapNext
  <1>1. /\ job[t] \in Job /\ job[t].kind = "reconfig" /\ Swapping(t) /\ pipe' = pipe /\ To(t) \in AgentConf
        /\ job[t].todo \subseteq Pipelines
    BY <1>0, JobTypes DEF SwapNext, IInv, TypeOK, JobFits, OfReconfig, Swapping, pipeVars, To
  <1> DEFINE removed == {q \in job[t].todo : To(t)[q] = None}
             starts(q) == q \in Active(To(t))
             stops(q) == q \in removed \/ (~starts(q) /\ pipe[q] # None)
  <1>2. PICK p \in (IF removed # {} THEN removed ELSE job[t].todo) :
          /\ Goto(t, IF starts(p) THEN "begin" ELSE IF stops(p) THEN "stop" ELSE "swap")
          /\ job' = [job EXCEPT ![t].todo = @ \ {p}, ![t].p = p,
                                ![t].conf = IF starts(p) THEN To(t)[p] ELSE None]
    BY DEF SwapNext
  <1>3. p \in job[t].todo /\ p \in Pipelines BY <1>1, <1>2
  <1>4. stops(p) <=> To(t)[p] = None \/ (~starts(p) /\ pipe[p] # None) BY <1>3
  <1> DEFINE c == IF starts(p) THEN To(t)[p] ELSE None
             j == [job[t] EXCEPT !.todo = @ \ {p}, !.p = p, !.conf = c]
  <1>5. c \in Conf \cup {None} BY <1>1, <1>3 DEF AgentConf
  <1>6. job' = [job EXCEPT ![t] = j] BY <1>2
  <1>7. (starts(p) => c = To(t)[p]) OBVIOUS
  <1> HIDE DEF c, removed, stops
  <1>8. /\ j.todo = job[t].todo \ {p} /\ j.p = p /\ j.conf = c /\ j.kind = "reconfig"
        /\ j.tgt = job[t].tgt /\ j.old = job[t].old /\ j.revert = job[t].revert
    BY <1>1, <1>5 DEF Job
  <1>9. job'[t] = j BY <1>0, <1>6 DEF IInv, TypeOK
  <1> HIDE DEF j
  <1>10. To(t)' = To(t) /\ From(t)' = From(t) BY <1>8, <1>9, SameTarget
  <1>11. pc'[t] = IF starts(p) THEN "begin" ELSE IF stops(p) THEN "stop" ELSE "swap"
    BY <1>0, <1>2 DEF Goto, IInv, TypeOK
  <1>12. \A q \in Pipelines \ job[t].todo : Applied(t, q)'
    <2>1. \A q \in Pipelines \ job[t].todo : Applied(t, q) BY <1>0, <1>1 DEF SwapFits
    <2> QED BY <1>1, <1>10, <2>1, StaysApplied
  <1>13. pc'[t] = "swap" => Applied(t, p)'
    <2>1. pc'[t] = "swap" => ~starts(p) /\ To(t)[p] # None /\ pipe[p] = None BY <1>4, <1>11
    <2>2. starts(p) <=> To(t)[p] # None /\ To(t)[p].active BY <1>3 DEF Active
    <2> HIDE DEF starts
    <2> QED BY <1>1, <1>10, <2>1, <2>2 DEF Applied
  <1>14. pc'[t] = "begin" => starts(p) BY <1>11
  <1>15. pc'[t] = "stop" => ~starts(p) BY <1>11
  <1>16. pc'[t] \in {"begin", "stop", "swap"} BY <1>11
  <1>17. \A q \in Pipelines \ job'[t].todo : pc'[t] = "swap" \/ q # job'[t].p => Applied(t, q)'
    BY <1>8, <1>9, <1>12, <1>13
  <1> QED BY <1>7, <1>8, <1>9, <1>10, <1>14, <1>15, <1>16, <1>17 DEF SwapFits

LEMMA OwnSwapOther ==
    ASSUME SwapInv, NEW t \in Threads, Swapping(t)',
           \/ Receive(t) \/ UpdatePipeline(t) \/ CommitDeploy(t) \/ StartServing(t) \/ CheckUninstall(t)
           \/ DropConfig(t) \/ TakeSnapshot(t) \/ LockOps(t) \/ Publish(t) \/ PersistConfig(t) \/ Raise(t)
    PROVE  SwapFits(t)'
  <1>0. IInv BY DEF SwapInv
  <1>1. ~Receive(t)
    <2>1. ASSUME Receive(t) PROVE FALSE
      <3>1. PICK k \in Kinds, j \in Job : Accepts(t, k, j) BY <1>0, <2>1, Received
      <3>2. pc'[t] = First[k] /\ job'[t].kind = k BY <1>0, <3>1 DEF Accepts, IInv, TypeOK
      <3> QED BY <3>2 DEF Swapping, First
    <2> QED BY <2>1
  <1>2. ASSUME job[t].kind # "reconfig", job' = job \/ job' = [job EXCEPT ![t] = NoJob] PROVE FALSE
    BY <1>0, <1>2, JobTypes DEF Swapping, IInv, TypeOK
  <1>3. ~(UpdatePipeline(t) \/ CommitDeploy(t))
    <2>1. ASSUME UpdatePipeline(t) \/ CommitDeploy(t) PROVE FALSE
      <3>1. job[t].kind # "reconfig" BY <1>0, <2>1 DEF UpdatePipeline, CommitDeploy, IInv, JobFits
      <3> QED BY <1>2, <2>1, <3>1 DEF UpdatePipeline, CommitDeploy, Store, Returns
    <2> QED BY <2>1
  <1>4. ~(StartServing(t) \/ CheckUninstall(t) \/ DropConfig(t))
    <2>1. ASSUME StartServing(t) \/ CheckUninstall(t) \/ DropConfig(t) PROVE FALSE
      <3>1. job[t].kind # "reconfig" BY <1>0, <2>1 DEF StartServing, CheckUninstall, DropConfig, IInv, JobFits
      <3> QED BY <1>2, <2>1, <3>1 DEF StartServing, CheckUninstall, DropConfig
    <2> QED BY <2>1
  <1>5. ~(TakeSnapshot(t) \/ Publish(t) \/ PersistConfig(t) \/ Raise(t))
    BY <1>0 DEF TakeSnapshot, Publish, PersistConfig, Raise, Goto, Swapping, IInv, TypeOK
  <1>6. CASE LockOps(t)
    <2> DEFINE S == {p \in Pipelines : From(t)[p] # None \/ To(t)[p] # None}
               j == [job[t] EXCEPT !.todo = S]
    <2>1. job' = [job EXCEPT ![t] = j] /\ pc'[t] = "swap" BY <1>0, <1>6 DEF LockOps, Goto, IInv, TypeOK
    <2>2. \A p \in Pipelines \ S : From(t)[p] = None /\ To(t)[p] = None OBVIOUS
    <2> HIDE DEF S
    <2>3. j.todo = S /\ j.tgt = job[t].tgt /\ j.old = job[t].old /\ j.revert = job[t].revert
      BY <1>0 DEF Job, IInv, TypeOK
    <2>4. job'[t] = j BY <1>0, <2>1 DEF IInv, TypeOK
    <2> HIDE DEF j
    <2>5. To(t)' = To(t) /\ From(t)' = From(t) BY <2>3, <2>4, SameTarget
    <2>6. \A p \in Pipelines \ S : Applied(t, p)' BY <2>2, <2>5 DEF Applied
    <2> QED BY <2>1, <2>3, <2>4, <2>6 DEF SwapFits
  <1> QED BY <1>1, <1>3, <1>4, <1>5, <1>6

LEMMA StepSwap ==
    ASSUME NoDeploys, SwapInv, NEW t \in Threads, Receive(t) \/ ThreadStep(t)
    PROVE  CopiesFit' /\ Tracks' /\ \A u \in Threads : SwapFits(u)'
  <1>1. CopiesFit' /\ Tracks' BY StepCopies, StepTracks DEF SwapInv
  <1>2. SwapFits(t)'
    <2>1. CASE ~Swapping(t)' BY <2>1 DEF SwapFits
    <2> QED BY <2>1, OwnSwapCommand, OwnSwapNext, OwnSwapOther DEF ThreadStep
  <1>3. ASSUME NEW u \in Threads, u # t PROVE SwapFits(u)'
    <2>1. pc'[u] = pc[u] /\ job'[u] = job[u] BY <1>3, StepControl DEF ControlOK, SwapInv
    <2>2. CASE ~Swapping(u) BY <2>1, <2>2 DEF SwapFits, Swapping
    <2>3. CASE Swapping(u)
      <3>1. ops = u /\ ops \notin {NoOne, t}
        BY <1>3, <2>3, ThreadsAssumption DEF SwapInv, IInv, LockHeld, Holding, Swapping
      <3>2. pipe' = pipe BY <3>1, MemUnderLock DEF SwapInv
      <3>3. To(u)' = To(u) /\ From(u)' = From(u) BY <2>1, SameTarget
      <3>4. \A q \in Pipelines : Applied(u, q) => Applied(u, q)' BY <3>2, <3>3, StaysApplied
      <3>5. SwapFits(u) BY DEF SwapInv
      <3> QED BY <2>1, <2>3, <3>3, <3>4, <3>5 DEF SwapFits
    <2> QED BY <2>2, <2>3
  <1> QED BY <1>1, <1>2, <1>3

LEMMA IdleSwap == (\A t \in Threads : pc[t] = "idle") => CopiesFit /\ \A t \in Threads : SwapFits(t)
  BY DEF CopiesFit, CopyFits, SwapFits, Swapping

LEMMA InitSwap == Init => SwapInv
  <1> SUFFICES ASSUME Init PROVE CopiesFit /\ Tracks /\ \A t \in Threads : SwapFits(t)
    BY InitIInv DEF SwapInv
  <1>1. PICK c \in Targets : \E S \in SUBSET Active(c) :
          mem = c /\ pipe = Started(c, S) /\ pc = AllIdle
    BY DEF Init
  <1>2. PICK S \in SUBSET Active(c) : mem = c /\ pipe = Started(c, S) /\ pc = AllIdle BY <1>1
  <1>3. CopiesFit /\ \A t \in Threads : SwapFits(t) BY <1>2, IdleSwap DEF AllIdle
  <1>4. Tracks BY <1>2 DEF Tracks, Started
  <1> QED BY <1>3, <1>4

LEMMA NextSwap == NoDeploys /\ SwapInv /\ [Next]_vars => SwapInv'
  <1> SUFFICES ASSUME NoDeploys, SwapInv, [Next]_vars
               PROVE  CopiesFit' /\ Tracks' /\ \A t \in Threads : SwapFits(t)'
    BY NextIInv DEF SwapInv
  <1>1. ASSUME NEW t \in Threads, Receive(t) \/ ThreadStep(t)
        PROVE  CopiesFit' /\ Tracks' /\ \A u \in Threads : SwapFits(u)'
    BY <1>1, StepSwap
  <1>2. CASE Boots
    <2> DEFINE c == file
    <2>1. PICK S \in SUBSET Active(c) : mem' = c /\ pipe' = Started(c, S) /\ pc' = AllIdle
      BY <1>2 DEF Boots
    <2> HIDE DEF c
    <2>2. \A t \in Threads : pc'[t] = "idle" BY <2>1 DEF AllIdle
    <2>3. CopiesFit' /\ \A t \in Threads : SwapFits(t)'
      BY <2>2 DEF CopiesFit, CopyFits, SwapFits, Swapping
    <2>4. Tracks' BY <2>1 DEF Tracks, Started
    <2> QED BY <2>3, <2>4
  <1>3. CASE UNCHANGED <<mem, pipe, pc, job>>
    <2>1. CopiesFit' /\ Tracks' BY <1>3 DEF SwapInv, CopiesFit, CopyFits, Tracks
    <2>2. ASSUME NEW t \in Threads PROVE SwapFits(t)'
      <3>1. SwapFits(t) BY DEF SwapInv
      <3> QED BY <1>3, <3>1 DEF SwapFits, Swapping, Applied, To, From
    <2> QED BY <2>1, <2>2
  <1>4. (\E p \in Pipelines : ThreadEnds(p)) => UNCHANGED <<mem, pipe, pc, job>>
    BY DEF ThreadEnds, memVars
  <1> QED BY <1>1, <1>2, <1>3, <1>4 DEF Next, Killed, RestartsForConfig, vars

(* apply_config publishes a configuration, or goes back to the old one,    *)
(* only when the runtime tracks an instance of the version it gives each   *)
(* active pipeline, and of what it drops or turns off nothing is tracked   *)
(* and no thread is alive, whatever else is started, stopped, served or    *)
(* uninstalled meanwhile and whatever failed before.  (That a tracked      *)
(* instance still runs is not so: see PublishedRuns.)  The commit of a deploy, which changes the config under  *)
(* a running pipeline and so makes _start_pipeline take an old instance    *)
(* for the new config, is what the hypothesis leaves out.                  *)
THEOREM AppliedWholeSafe ==
    ASSUME NoDeploys PROVE Spec => AppliedWhole /\ []OneInstance
  <1>1. SwapInv /\ [Next]_vars => SwapInv' BY NextSwap
  <1>2. ASSUME SwapInv, NEW t \in Threads, pc[t] = "swap", NEW p \in Pipelines, job[t].todo = {}
        PROVE  Applied(t, p)
    <2>1. SwapFits(t) /\ Swapping(t) BY <1>2 DEF SwapInv, Swapping, IInv, JobFits, OfReconfig
    <2> QED BY <1>2, <2>1 DEF SwapFits
  <1>3. ASSUME SwapInv, [Next]_vars, NEW t \in Threads, pc[t] = "swap", pc'[t] = "persist"
        PROVE  job[t].todo = {}
    <2>0. IInv BY <1>3 DEF SwapInv
    <2>1. ASSUME NEW u \in Threads, Receive(u) \/ ThreadStep(u) PROVE job[t].todo = {}
      <3>1. u = t BY <1>3, <2>0, <2>1, StepControl DEF ControlOK
      <3>2. SwapNext(t) \/ Publish(t)
        BY <1>3, <2>1, <3>1 DEF ThreadStep, Receive, BeginStart, StopOld, Build, SaveStarted, MarkActive,
             StopPipeline, UpdatePipeline, CommitDeploy, StartServing, CheckUninstall, DropConfig, TakeSnapshot, LockOps,
             PersistConfig, Raise
      <3>3. ~SwapNext(t) BY <1>3, <2>0 DEF SwapNext, Goto, IInv, TypeOK
      <3> QED BY <3>2, <3>3 DEF Publish
    <2>2. ~Boots
      <3>1. Boots => pc' = AllIdle BY DEF Boots
      <3> QED BY <1>3, <3>1 DEF AllIdle
    <2>3. pc' # pc BY <1>3
    <2> QED BY <1>3, <2>1, <2>2, <2>3 DEF Next, ThreadEnds, Killed, RestartsForConfig, vars
  <1>4. SwapInv /\ [Next]_vars =>
          [\A t \in Threads : pc[t] = "swap" /\ pc'[t] = "persist" =>
             \A p \in Pipelines :
               /\ To(t)[p] = None /\ From(t)[p] # None => pipe[p] = None
               /\ To(t)[p] # None =>
                    pipe[p].ver = IF To(t)[p].active THEN To(t)[p].ver ELSE None.ver
               /\ p \notin Active(To(t)) /\ ~(To(t)[p] = None /\ From(t)[p] = None) =>
                    live[p] = 0]_vars
    <2>1. ASSUME SwapInv, NEW t \in Threads, NEW p \in Pipelines, Applied(t, p),
                 p \notin Active(To(t)), ~(To(t)[p] = None /\ From(t)[p] = None)
          PROVE  live[p] = 0
      <3>1. pipe[p] = None
        <4>1. CASE To(t)[p] = None BY <2>1, <4>1 DEF Applied
        <4>2. CASE To(t)[p] # None
          <5>1. pipe[p].ver = None.ver BY <2>1, <4>2 DEF Applied, Active
          <5>2. pipe[p] \in Conf \cup {None} BY <2>1 DEF SwapInv, IInv, TypeOK, AgentConf
          <5> QED BY <5>1, <5>2, ConfTypes
        <4> QED BY <4>1, <4>2
      <3> QED BY <2>1, <3>1 DEF SwapInv, IInv, Counted
    <2> QED BY <1>2, <1>3, <2>1 DEF Applied
  <1> QED BY <1>1, <1>4, InitSwap, OneInstanceSafe, PTL DEF Spec, AppliedWhole
=============================================================================
