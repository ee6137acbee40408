---------------------------- MODULE DeployProofs ----------------------------
(***************************************************************************)
(* Proofs about Deploy, for any number of pipelines, files, deploys,       *)
(* uninstalls and restarts: the download lock excludes, workers stay       *)
(* reachable and answer once, and no short file is published.              *)
(***************************************************************************)
EXTENDS Deploy, TLAPS

InLock == {"locked", "request", "stream", "guard", "rename"}

\* A worker inside the `with` block holds its file's download lock.
LockHeld == \A c \in Deploys : phase[c] \in InLock => dlock[PathOf(c)] = c

\* A live worker thread, its finally block included, is the registered one.
Registered ==
    \A c \in Deploys : phase[c] \in Working \cup {"final"} => worker[DeployOf[c]] = c

\* The registry holds a pipeline's own deploys.
OwnWorker == \A p \in Pipelines : worker[p] # NoOne => DeployOf[worker[p]] = p

\* What a worker has written is there until it renames it or gives up.
PartialKept ==
    \A c \in Deploys : phase[c] \in {"stream", "guard", "rename"} => partial[PathOf(c)] # "none"

\* Past the guards the partial is whole, when the server sent a length.
RenamesWhole ==
    SendsLength => \A c \in Deploys : phase[c] = "rename" => partial[PathOf(c)] = "whole"

\* No deploy is answered before its worker is done.
Unanswered == \A c \in Deploys : phase[c] \in Working \cup {"idle"} => reports[c] = 0

\* What the steps need of one another: the lock for the partial, the registry
\* for the rows, the partial for the published file.
Exclusion == LockHeld /\ PartialKept /\ RenamesWhole /\ PublishedWhole
Answers == Registered /\ OwnWorker /\ NoStuckRow /\ Unanswered /\ AnsweredOnce
\* While an uninstall is past its look at the other configs, those that name
\* the file were all written since.
WrittenSince ==
    \A u \in Uninstalls : uphase[u] = "unlink" =>
        \A p \in configs : FileOf[p] = FileOf[UninstallOf[u]] => p \in exposed
Unlinks == UnlinkSparesConfigured /\ WrittenSince
IndInv == TypeOK /\ Exclusion /\ Answers /\ Unlinks

\* The steps of a worker keep the types.
LEMMA TypeWorker ==
    ASSUME TypeOK, NEW c \in Deploys, WorkerStep(c)
    PROVE  TypeOK'
<1> USE FileOfAssumption, DeployOfAssumption
    DEF TypeOK, PathOf, At, Goto, Report, ShowRow, Release, CleanupPartial, EndsFailed,
        Phase, Working, Content, Stage, pipeVars
<1>1. CASE TakeDownloadLock(c)
  BY <1>1 DEF TakeDownloadLock
<1>2. CASE LookForTarget(c)
  BY <1>2 DEF LookForTarget
<1>3. CASE OpenStream(c)
  <2>1. CASE EndsFailed(c) /\ CleanupPartial(c)
    BY <1>3, <2>1 DEF OpenStream
  <2>2. CASE ~(EndsFailed(c) /\ CleanupPartial(c))
    <3>1. /\ partial' = [partial EXCEPT ![PathOf(c)] = "short"]
          /\ ShowRow(DeployOf[c], "downloading") /\ Goto(c, "stream")
          /\ UNCHANGED <<report, reports, dlock>>
          /\ UNCHANGED <<cancel, worker, target, configs, exposed, saved, pipeVars, uphase,
                         restarts>>
      BY <1>3, <2>2, Zenon DEF OpenStream
    <3> HIDE <1>3, <2>2
    <3> QED
      BY <3>1
  <2> QED
    BY <2>1, <2>2
<1>4. CASE StreamEnds(c)
  <2>1. partial' \in [Files -> Content]
    BY <1>4 DEF StreamEnds
  <2>2. UNCHANGED <<cancel, worker, target, configs, exposed, saved, pipeVars, uphase, restarts>>
    BY <1>4, Zenon DEF StreamEnds
  <2>3. EndsFailed(c) \/ (Goto(c, "guard") /\ UNCHANGED <<report, reports, row, dlock>>)
    BY <1>4, Zenon DEF StreamEnds
  <2> HIDE <1>4
  <2> QED
    BY SMTT(20), <2>1, <2>2, <2>3
<1>5. CASE GuardRename(c)
  <2>1. partial' \in [Files -> Content]
    BY <1>5 DEF GuardRename
  <2>2. UNCHANGED <<cancel, worker, target, configs, exposed, saved, pipeVars, uphase, restarts>>
    BY <1>5, Zenon DEF GuardRename
  <2>3. EndsFailed(c) \/ (Goto(c, "rename") /\ UNCHANGED <<report, reports, row, dlock>>)
    BY <1>5, Zenon DEF GuardRename
  <2> HIDE <1>5
  <2> QED
    BY SMTT(20), <2>1, <2>2, <2>3
<1>6. CASE Publish(c)
  <2>1. CASE EndsFailed(c) /\ UNCHANGED <<partial, target>>
    BY <1>6, <2>1 DEF Publish
  <2>2. CASE ~(EndsFailed(c) /\ UNCHANGED <<partial, target>>)
    <3>1. target' \in [Files -> Content] /\ partial' \in [Files -> Content]
      BY <1>6, <2>2 DEF Publish
    <3>2. Release(c) /\ Goto(c, "configure") /\ UNCHANGED <<report, reports, row>>
      BY <1>6, <2>2, Zenon DEF Publish
    <3>3. UNCHANGED <<cancel, worker, configs, exposed, saved, pipeVars, uphase, restarts>>
      BY <1>6, Zenon DEF Publish
    <3> HIDE <1>6, <2>2
    <3> QED
      BY <3>1, <3>2, <3>3
  <2> QED
    BY <2>1, <2>2
<1>7. CASE Configure(c)
  BY <1>7 DEF Configure
<1>8. CASE CommitDeploy(c)
  <2>1. configs' \subseteq Pipelines /\ exposed' \subseteq Pipelines /\ saved' \subseteq Pipelines
    BY <1>8 DEF CommitDeploy, WriteConfig
  <2>2. /\ UNCHANGED <<cancel, worker, partial, target, pipeVars, uphase, restarts>>
        /\ EndsFailed(c) \/ (Goto(c, "announce") /\ UNCHANGED <<report, reports, row, dlock>>)
    BY <1>8, Zenon DEF CommitDeploy
  <2> HIDE <1>8
  <2> QED
    BY <2>1, <2>2
<1>9. CASE Announce(c)
  BY <1>9 DEF Announce
<1>10. CASE Deregister(c)
  BY <1>10 DEF Deregister
<1> QED
  BY <1>1, <1>2, <1>3, <1>4, <1>5, <1>6, <1>7, <1>8, <1>9, <1>10 DEF WorkerStep

\* Under its download lock a worker has the partial to itself.
LEMMA ExclusionWorker ==
    ASSUME IndInv, TypeOK', NEW c \in Deploys, WorkerStep(c)
    PROVE  Exclusion'
<1> USE FileOfAssumption, DeployOfAssumption, NoOneAssumption, LengthAssumption
    DEF IndInv, TypeOK, PathOf, At, Goto, Report, ShowRow, Release, CleanupPartial, EndsFailed,
        Phase, Working, pipeVars, Content, Exclusion, InLock, LockHeld,
        PartialKept, RenamesWhole, PublishedWhole
<1>1. CASE TakeDownloadLock(c)
  BY <1>1 DEF TakeDownloadLock
<1>2. CASE LookForTarget(c)
  BY <1>2 DEF LookForTarget
<1>3. CASE OpenStream(c)
  BY <1>3 DEF OpenStream
<1>4. CASE StreamEnds(c)
  BY SMTT(20), <1>4 DEF StreamEnds
<1>5. CASE GuardRename(c)
  BY <1>5 DEF GuardRename
<1>6. CASE Publish(c)
  BY <1>6 DEF Publish
<1>7. CASE Configure(c)
  BY <1>7 DEF Configure
<1>8. CASE CommitDeploy(c)
  BY <1>8 DEF CommitDeploy, WriteConfig, AtRisk
<1>9. CASE Announce(c)
  BY <1>9 DEF Announce
<1>10. CASE Deregister(c)
  BY <1>10 DEF Deregister
<1> QED
  BY <1>1, <1>2, <1>3, <1>4, <1>5, <1>6, <1>7, <1>8, <1>9, <1>10 DEF WorkerStep

\* A worker step that goes on: no answer yet, and a row of its own pipeline.
GoesOn(c) ==
    /\ phase[c] \in Working /\ (\E there \in Working : Goto(c, there))
    /\ (row' = row \/ \E shown \in Stage : ShowRow(DeployOf[c], shown))
    /\ UNCHANGED <<reports, worker>>

\* A worker step that ends the work: one answer, and the row dropped.
EndsWork(c) ==
    /\ phase[c] \in Working /\ Goto(c, "final")
    /\ reports' = [reports EXCEPT ![c] = @ + 1] /\ ShowRow(DeployOf[c], "none")
    /\ UNCHANGED worker

\* Every worker step goes on, ends the work with one answer, or is the finally
\* block that deregisters the thread.
LEMMA WorkerEffect ==
    ASSUME TypeOK, NEW c \in Deploys, WorkerStep(c)
    PROVE  GoesOn(c) \/ EndsWork(c) \/ Deregister(c)
<1> USE DEF At, Report, EndsFailed, Working, Stage, GoesOn, EndsWork
<1>0. ASSUME phase[c] \in Working, EndsFailed(c), UNCHANGED worker PROVE EndsWork(c)
  BY <1>0, Zenon
<1>1. CASE TakeDownloadLock(c)
  BY <1>1 DEF TakeDownloadLock
<1>2. CASE LookForTarget(c)
  BY <1>0, <1>2 DEF LookForTarget
<1>3. CASE OpenStream(c)
  BY <1>0, <1>3 DEF OpenStream
<1>4. CASE StreamEnds(c)
  BY <1>0, <1>4 DEF StreamEnds
<1>5. CASE GuardRename(c)
  BY <1>0, <1>5 DEF GuardRename
<1>6. CASE Publish(c)
  BY <1>0, <1>6 DEF Publish
<1>7. CASE Configure(c)
  BY <1>7 DEF Configure
<1>8. CASE CommitDeploy(c)
  BY <1>0, <1>8 DEF CommitDeploy
<1>9. CASE Announce(c)
  BY <1>9 DEF Announce
<1> QED
  BY <1>1, <1>2, <1>3, <1>4, <1>5, <1>6, <1>7, <1>8, <1>9 DEF WorkerStep

\* A worker answers once, drops its row and stays registered until its end.
LEMMA AnswersWorker ==
    ASSUME IndInv, TypeOK', NEW c \in Deploys, WorkerStep(c)
    PROVE  Answers'
<1> USE DeployOfAssumption, NoOneAssumption
    DEF IndInv, TypeOK, Goto, ShowRow, Phase, Working, Stage, Answers, Registered, OwnWorker,
        NoStuckRow, Unanswered, AnsweredOnce
<1>1. CASE GoesOn(c)
  BY <1>1 DEF GoesOn
<1>2. CASE EndsWork(c)
  <2> USE <1>2 DEF EndsWork
  <2>1. Registered' /\ OwnWorker'
    OBVIOUS
  <2>2. NoStuckRow'
    OBVIOUS
  <2>3. Unanswered'
    OBVIOUS
  <2>4. AnsweredOnce'
    OBVIOUS
  <2> QED
    BY <2>1, <2>2, <2>3, <2>4
<1>3. CASE Deregister(c)
  BY <1>3 DEF Deregister, At
<1> QED
  BY <1>1, <1>2, <1>3, WorkerEffect

\* A deploy's commit counts as written since where an uninstall is past its look.
LEMMA UnlinkWorker ==
    ASSUME IndInv, TypeOK', NEW c \in Deploys, WorkerStep(c)
    PROVE  Unlinks'
<1> USE FileOfAssumption, DeployOfAssumption, NoOneAssumption, LengthAssumption
    DEF IndInv, TypeOK, PathOf, At, Goto, Report, ShowRow, Release, CleanupPartial, EndsFailed,
        Phase, Working, pipeVars, UPhase, Unlinks, UnlinkSparesConfigured, WrittenSince
<1>1. CASE TakeDownloadLock(c)
  BY <1>1 DEF TakeDownloadLock
<1>2. CASE LookForTarget(c)
  BY <1>2 DEF LookForTarget
<1>3. CASE OpenStream(c)
  BY <1>3 DEF OpenStream
<1>4. CASE StreamEnds(c)
  BY <1>4 DEF StreamEnds
<1>5. CASE GuardRename(c)
  BY <1>5 DEF GuardRename
<1>6. CASE Publish(c)
  BY <1>6 DEF Publish
<1>7. CASE Configure(c)
  BY <1>7 DEF Configure
<1>8. CASE CommitDeploy(c)
  BY <1>8 DEF CommitDeploy, WriteConfig, AtRisk
<1>9. CASE Announce(c)
  BY <1>9 DEF Announce
<1>10. CASE Deregister(c)
  BY <1>10 DEF Deregister
<1> QED
  BY <1>1, <1>2, <1>3, <1>4, <1>5, <1>6, <1>7, <1>8, <1>9, <1>10 DEF WorkerStep

\* Commands, uninstalls, starts and restarts keep the types.
LEMMA TypeOther ==
    ASSUME TypeOK,
           \/ \E u \in Uninstalls : UninstallStep(u)
           \/ Command
    PROVE  TypeOK'
<1> USE FileOfAssumption, DeployOfAssumption, UninstallAssumption, RestartsAssumption
    DEF TypeOK, At, Goto, Report, ShowRow, Phase, Working, Content, Stage, UPhase, UGoto,
        ThreadAlive, deployVars, pipeVars
<1>1. CASE \E c \in Deploys : DeployModel(c)
  BY <1>1 DEF DeployModel
<1>2. CASE \E u \in Uninstalls : UninstallCheck(u)
  BY <1>2 DEF UninstallCheck
<1>3. CASE \E p \in Pipelines : QueueRow(p) \/ ExpireRow(p)
  BY <1>3 DEF QueueRow, ExpireRow
<1>4. CASE \E p \in Pipelines : CancelDeploy(p)
  BY <1>4 DEF CancelDeploy
<1>5. CASE \E p \in Pipelines : StartPipeline(p)
  BY <1>5, PushedAssumption DEF StartPipeline, WriteConfig, AtRisk
<1>11. CASE \E p \in Pipelines : StopPipeline(p)
  BY <1>11 DEF StopPipeline
<1>12. CASE \E p \in Pipelines : UpdatePipeline(p)
  BY <1>12, PushedAssumption DEF UpdatePipeline, WriteConfig, AtRisk
<1>13. CASE Reconfigure
  BY <1>13, PushedAssumption DEF Reconfigure, AtRisk
<1>6. CASE ShutdownCancels
  BY <1>6 DEF ShutdownCancels
<1>7. CASE ProcessRestarts
  BY <1>7 DEF ProcessRestarts
<1>8. CASE \E u \in Uninstalls : UninstallStop(u)
  BY <1>8 DEF UninstallStop
<1>9. CASE \E u \in Uninstalls : UninstallDrop(u)
  BY <1>9 DEF UninstallDrop
<1>10. CASE \E u \in Uninstalls : UninstallUnlink(u)
  BY <1>10 DEF UninstallUnlink
<1> QED
  BY <1>1, <1>2, <1>3, <1>4, <1>5, <1>6, <1>7, <1>8, <1>9, <1>10, <1>11,
     <1>12, <1>13 DEF Command, UninstallStep

\* None of them touches a partial or a lock, except a restart, which ends every
\* worker.
LEMMA ExclusionOther ==
    ASSUME IndInv, TypeOK', (\E u \in Uninstalls : UninstallStep(u)) \/ Command
    PROVE  Exclusion'
<1> USE FileOfAssumption, DeployOfAssumption, NoOneAssumption, UninstallAssumption
    DEF IndInv, TypeOK, PathOf, At, Goto, Report, ShowRow, Phase, Working, UGoto, ThreadAlive,
        deployVars, pipeVars, Content, Exclusion, InLock, LockHeld,
        PartialKept, RenamesWhole, PublishedWhole
<1>1. CASE \E c \in Deploys : DeployModel(c)
  BY <1>1 DEF DeployModel
<1>2. CASE \E u \in Uninstalls : UninstallCheck(u)
  BY <1>2 DEF UninstallCheck
<1>3. CASE \E p \in Pipelines : QueueRow(p) \/ ExpireRow(p)
  BY <1>3 DEF QueueRow, ExpireRow
<1>4. CASE \E p \in Pipelines : CancelDeploy(p)
  BY <1>4 DEF CancelDeploy
<1>5. CASE \E p \in Pipelines : StartPipeline(p)
  BY <1>5, PushedAssumption DEF StartPipeline, WriteConfig, AtRisk
<1>11. CASE \E p \in Pipelines : StopPipeline(p)
  BY <1>11 DEF StopPipeline
<1>12. CASE \E p \in Pipelines : UpdatePipeline(p)
  BY <1>12, PushedAssumption DEF UpdatePipeline, WriteConfig, AtRisk
<1>13. CASE Reconfigure
  BY <1>13, PushedAssumption DEF Reconfigure, AtRisk
<1>6. CASE ShutdownCancels
  BY <1>6 DEF ShutdownCancels
<1>7. CASE ProcessRestarts
  BY <1>7 DEF ProcessRestarts
<1>8. CASE \E u \in Uninstalls : UninstallStop(u)
  BY <1>8 DEF UninstallStop
<1>9. CASE \E u \in Uninstalls : UninstallDrop(u)
  BY <1>9 DEF UninstallDrop
<1>10. CASE \E u \in Uninstalls : UninstallUnlink(u)
  BY <1>10 DEF UninstallUnlink
<1> QED
  BY <1>1, <1>2, <1>3, <1>4, <1>5, <1>6, <1>7, <1>8, <1>9, <1>10, <1>11,
     <1>12, <1>13 DEF Command, UninstallStep

\* A deploy is accepted only where no live worker is registered.
LEMMA AnswersOther ==
    ASSUME IndInv, TypeOK', (\E u \in Uninstalls : UninstallStep(u)) \/ Command
    PROVE  Answers'
<1> USE FileOfAssumption, DeployOfAssumption, NoOneAssumption, UninstallAssumption
    DEF IndInv, TypeOK, PathOf, At, Goto, Report, ShowRow, Phase, Working, UGoto, ThreadAlive,
        deployVars, pipeVars, Stage, Answers, Registered, OwnWorker, NoStuckRow,
        Unanswered, AnsweredOnce
<1>1. CASE \E c \in Deploys : DeployModel(c)
  BY <1>1, SMTT(30) DEF DeployModel
<1>2. CASE \E u \in Uninstalls : UninstallCheck(u)
  BY <1>2 DEF UninstallCheck
<1>3. CASE \E p \in Pipelines : QueueRow(p) \/ ExpireRow(p)
  BY <1>3 DEF QueueRow, ExpireRow
<1>4. CASE \E p \in Pipelines : CancelDeploy(p)
  BY <1>4 DEF CancelDeploy
<1>5. CASE \E p \in Pipelines : StartPipeline(p)
  BY <1>5, PushedAssumption DEF StartPipeline, WriteConfig, AtRisk
<1>11. CASE \E p \in Pipelines : StopPipeline(p)
  BY <1>11 DEF StopPipeline
<1>12. CASE \E p \in Pipelines : UpdatePipeline(p)
  BY <1>12, PushedAssumption DEF UpdatePipeline, WriteConfig, AtRisk
<1>13. CASE Reconfigure
  BY <1>13, PushedAssumption DEF Reconfigure, AtRisk
<1>6. CASE ShutdownCancels
  BY <1>6 DEF ShutdownCancels
<1>7. CASE ProcessRestarts
  BY <1>7 DEF ProcessRestarts
<1>8. CASE \E u \in Uninstalls : UninstallStop(u)
  BY <1>8 DEF UninstallStop
<1>9. CASE \E u \in Uninstalls : UninstallDrop(u)
  BY <1>9 DEF UninstallDrop
<1>10. CASE \E u \in Uninstalls : UninstallUnlink(u)
  BY <1>10 DEF UninstallUnlink
<1> QED
  BY <1>1, <1>2, <1>3, <1>4, <1>5, <1>6, <1>7, <1>8, <1>9, <1>10, <1>11,
     <1>12, <1>13 DEF Command, UninstallStep

\* An uninstall looks at every other config before it goes on to unlink, and
\* the other writers of configs count like a deploy's commit.
LEMMA UnlinkOther ==
    ASSUME IndInv, TypeOK', (\E u \in Uninstalls : UninstallStep(u)) \/ Command
    PROVE  Unlinks'
<1> USE FileOfAssumption, DeployOfAssumption, NoOneAssumption, UninstallAssumption
    DEF IndInv, TypeOK, PathOf, At, Goto, Report, ShowRow, Phase, Working, UGoto, ThreadAlive,
        deployVars, pipeVars, UPhase, Unlinks, UnlinkSparesConfigured, WrittenSince
<1>1. CASE \E c \in Deploys : DeployModel(c)
  BY <1>1 DEF DeployModel
<1>2. CASE \E u \in Uninstalls : UninstallCheck(u)
  BY <1>2 DEF UninstallCheck
<1>3. CASE \E p \in Pipelines : QueueRow(p) \/ ExpireRow(p)
  BY <1>3 DEF QueueRow, ExpireRow
<1>4. CASE \E p \in Pipelines : CancelDeploy(p)
  BY <1>4 DEF CancelDeploy
<1>5. CASE \E p \in Pipelines : StartPipeline(p)
  BY <1>5, PushedAssumption DEF StartPipeline, WriteConfig, AtRisk
<1>11. CASE \E p \in Pipelines : StopPipeline(p)
  BY <1>11 DEF StopPipeline
<1>12. CASE \E p \in Pipelines : UpdatePipeline(p)
  BY <1>12, PushedAssumption DEF UpdatePipeline, WriteConfig, AtRisk
<1>13. CASE Reconfigure
  BY <1>13, PushedAssumption DEF Reconfigure, AtRisk
<1>6. CASE ShutdownCancels
  BY <1>6 DEF ShutdownCancels
<1>7. CASE ProcessRestarts
  BY <1>7 DEF ProcessRestarts
<1>8. CASE \E u \in Uninstalls : UninstallStop(u)
  BY <1>8 DEF UninstallStop
<1>9. CASE \E u \in Uninstalls : UninstallDrop(u)
  BY <1>9 DEF UninstallDrop
<1>10. CASE \E u \in Uninstalls : UninstallUnlink(u)
  BY <1>10 DEF UninstallUnlink
<1> QED
  BY <1>1, <1>2, <1>3, <1>4, <1>5, <1>6, <1>7, <1>8, <1>9, <1>10, <1>11,
     <1>12, <1>13 DEF Command, UninstallStep

\* A fresh process has no workers, rows or locks.
LEMMA InitInd == Init => IndInv
BY FileOfAssumption, DeployOfAssumption, UninstallAssumption, RestartsAssumption, NoOneAssumption
   DEF Init, IndInv, TypeOK, Phase, Working, Content, Stage, UPhase, InLock, LockHeld,
       Registered, PartialKept, RenamesWhole, PublishedWhole, Exclusion, Answers, OwnWorker,
       NoStuckRow, Unanswered, AnsweredOnce, Unlinks, UnlinkSparesConfigured, WrittenSince

\* The invariant holds in every state.
THEOREM DeployInvariance == Spec => []IndInv
<1>1. IndInv /\ UNCHANGED vars => IndInv'
  BY DEF IndInv, TypeOK, PathOf, InLock, LockHeld, Registered, PartialKept, RenamesWhole,
         PublishedWhole, Exclusion, Answers, OwnWorker, NoStuckRow, Unanswered, AnsweredOnce,
         Unlinks, UnlinkSparesConfigured, WrittenSince, vars
<1>2. ASSUME IndInv, NEW c \in Deploys, WorkerStep(c) PROVE IndInv'
  <2>1. TypeOK'
    BY <1>2, TypeWorker DEF IndInv
  <2> QED
    BY <1>2, <2>1, ExclusionWorker, AnswersWorker, UnlinkWorker DEF IndInv
<1>3. ASSUME IndInv, (\E u \in Uninstalls : UninstallStep(u)) \/ Command PROVE IndInv'
  <2>1. TypeOK'
    BY <1>3, TypeOther DEF IndInv
  <2> QED
    BY <1>3, <2>1, ExclusionOther, AnswersOther, UnlinkOther DEF IndInv
<1>4. IndInv /\ [Next]_vars => IndInv'
  BY <1>1, <1>2, <1>3 DEF Next
<1> QED
  BY InitInd, <1>4, PTL DEF Spec

\* Cancels and shutdown reach every worker: no start, refusal or finally block
\* leaves a live worker out of the registry.
THEOREM WorkersReachableSafe == Spec => []WorkersReachable
<1>1. IndInv => WorkersReachable
  BY DEF IndInv, Answers, Registered, WorkersReachable
<1> QED
  BY <1>1, DeployInvariance, PTL

\* Two deploys of one file never share the .partial: the worker that is about
\* to rename it finds it.
THEOREM RenameFindsPartialSafe == Spec => []RenameFindsPartial
<1>1. IndInv => RenameFindsPartial
  BY DEF IndInv, Exclusion, PartialKept, RenameFindsPartial
<1> QED
  BY <1>1, DeployInvariance, PTL

\* With a content-length no short download becomes the model, whatever is
\* cancelled, retried or killed.
THEOREM PublishedWholeSafe == Spec => []PublishedWhole
<1>1. IndInv => PublishedWhole
  BY DEF IndInv, Exclusion
<1> QED
  BY <1>1, DeployInvariance, PTL

\* A deploy is answered at most once, and exactly once when its worker ends.
THEOREM AnsweredOnceSafe == Spec => []AnsweredOnce
<1>1. IndInv => AnsweredOnce
  BY DEF IndInv, Answers
<1> QED
  BY <1>1, DeployInvariance, PTL

\* A progress row never outlives the work it shows, on any error or cancel path.
THEOREM NoStuckRowSafe == Spec => []NoStuckRow
<1>1. IndInv => NoStuckRow
  BY DEF IndInv, Answers
<1> QED
  BY <1>1, DeployInvariance, PTL

\* An uninstall takes no file from a pipeline that was configured when it looked,
\* whatever deploys, starts, updates, reconfigurations and restarts go on beside it.
THEOREM UnlinkSparesSafe == Spec => []UnlinkSparesConfigured
<1>1. IndInv => UnlinkSparesConfigured
  BY DEF IndInv, Unlinks
<1> QED
  BY <1>1, DeployInvariance, PTL

\* A cancel that arrives before the commit wins: only a worker whose event is
\* clear enters the announcement of a committed config.
THEOREM CancelWinsSafe == Spec => CancelWins
<1> DEFINE Loses == \A c \in Deploys : cancel[c] /\ phase[c] # "announce" => phase'[c] # "announce"
<1>1. ASSUME TypeOK, NEW d \in Deploys, WorkerStep(d) PROVE Loses
  <2> USE <1>1 DEF TypeOK, At, Goto, EndsFailed
  <2>1. CASE CommitDeploy(d)
    BY <2>1 DEF CommitDeploy
  <2>2. CASE TakeDownloadLock(d) \/ LookForTarget(d) \/ OpenStream(d) \/ StreamEnds(d)
    BY <2>2 DEF TakeDownloadLock, LookForTarget, OpenStream, StreamEnds
  <2>3. CASE GuardRename(d) \/ Publish(d) \/ Configure(d) \/ Announce(d) \/ Deregister(d)
    BY <2>3 DEF GuardRename, Publish, Configure, Announce, Deregister
  <2> QED
    BY <2>1, <2>2, <2>3 DEF WorkerStep
<1>2. ASSUME TypeOK, NEW u \in Uninstalls, UninstallStep(u) PROVE Loses
  BY <1>2 DEF UninstallStep, UninstallStop, UninstallDrop, UninstallUnlink, deployVars
<1>3. ASSUME TypeOK, Command PROVE Loses
  <2> USE <1>3 DEF TypeOK, At, Goto, deployVars
  <2>1. CASE \E c \in Deploys : DeployModel(c)
    BY <2>1 DEF DeployModel
  <2>2. CASE ProcessRestarts
    BY <2>2 DEF ProcessRestarts, ThreadAlive
  <2>3. CASE phase' = phase
    BY <2>3
  <2> QED
    BY <2>1, <2>2, <2>3 DEF Command, UninstallCheck, QueueRow, ExpireRow, CancelDeploy,
                            StartPipeline, StopPipeline, UpdatePipeline, Reconfigure,
                            ShutdownCancels
<1>4. IndInv /\ [Next]_vars => [Loses]_vars
  BY <1>1, <1>2, <1>3 DEF IndInv, Next
<1> QED
  BY DeployInvariance, <1>4, PTL DEF Spec, CancelWins
=============================================================================
