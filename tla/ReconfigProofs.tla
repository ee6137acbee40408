--------------------------- MODULE ReconfigProofs ---------------------------
(* What PipelinesProofs proves of apply_config for any pipelines, threads  *)
(* and targets, applied to the two reconfigured devices of MCPipelines:    *)
(* they meet the assumptions the general theorem rests on, and whichever   *)
(* part of the composition moves, each of them behaves as its own          *)
(* specification says.                                                     *)
EXTENDS MCPipelines, TLAPS

TwiceProofs == INSTANCE PipelinesProofs WITH
    Pipelines <- {"b"}, Versions <- {1, 2}, Threads <- {"t1", "t2"},
    Kinds <- {"reconfig", "start", "stop"}, Confs <- {C(1, FALSE)},
    Targets <- TwiceTargets, Default <- Nothing({"b"}), SaveFaults <- {},
    MaxBoots <- 0, base <- t_base, mem <- t_mem, shared <- t_shared, pipe <- t_pipe,
    up <- t_up, live <- t_live, told <- t_told, cache <- t_cache, file <- t_file,
    late <- t_late, saved <- t_saved, ops <- t_ops, pc <- t_pc, job <- t_job,
    boots <- t_boots

PairProofs == INSTANCE PipelinesProofs WITH
    Pipelines <- {"a", "b"}, Versions <- {1, 2}, Threads <- {"t1"},
    Kinds <- {"reconfig", "start", "stop", "uninstall"}, Confs <- {C(1, FALSE)},
    Targets <- PairTargets, Default <- Nothing({"a", "b"}), SaveFaults <- {},
    MaxBoots <- 0, base <- r_base, mem <- r_mem, shared <- r_shared, pipe <- r_pipe,
    up <- r_up, live <- r_live, told <- r_told, cache <- r_cache, file <- r_file,
    late <- r_late, saved <- r_saved, ops <- r_ops, pc <- r_pc, job <- r_job,
    boots <- r_boots

---------------------------------------------------------------------------
(* Twice's constants meet every assumption of Pipelines, and no deploy is  *)
(* among its commands.                                                     *)
LEMMA TwiceConstants ==
    /\ {"reconfig", "start", "stop"} \subseteq TwiceProofs!AllKinds
    /\ {C(1, FALSE)} \subseteq TwiceProofs!Conf
    /\ TwiceTargets \subseteq TwiceProofs!AgentConf /\ Nothing({"b"}) \in TwiceProofs!AgentConf
    /\ {1, 2} \subseteq Nat \ {0}
    /\ TwiceProofs!NoOne \notin {"t1", "t2", "b"}
    /\ 0 \in Nat /\ {} \subseteq {"fail", "race"}
    /\ TwiceProofs!NoDeploys
  <1>1. TwiceProofs!None = None
    BY DEF TwiceProofs!None, None
  <1>2. \A v \in {1, 2}, on \in BOOLEAN : C(v, on) \in TwiceProofs!Conf
    BY DEF C, TwiceProofs!Conf
  <1>3. TwiceTargets \subseteq TwiceProofs!AgentConf /\ Nothing({"b"}) \in TwiceProofs!AgentConf
    BY <1>1, <1>2 DEF TwiceTargets, Nothing, TwiceProofs!AgentConf
  <1>4. {"reconfig", "start", "stop"} \subseteq TwiceProofs!AllKinds
        /\ TwiceProofs!NoDeploys
    BY DEF TwiceProofs!AllKinds, TwiceProofs!NoDeploys
  <1>5. TwiceProofs!NoOne \notin {"t1", "t2", "b"}
    BY DEF TwiceProofs!NoOne
  <1>6. {C(1, FALSE)} \subseteq TwiceProofs!Conf
    BY <1>2
  <1>7. {1, 2} \subseteq Nat \ {0} /\ 0 \in Nat
    OBVIOUS
  <1>8. {} \subseteq {"fail", "race"}
    OBVIOUS
  <1> QED BY ONLY <1>3, <1>4, <1>5, <1>6, <1>7, <1>8, Zenon

(* The copy of the model the theorem speaks of is Twice itself.            *)
LEMMA TwiceSame ==
    /\ Twice!Init => TwiceProofs!Init
    /\ [Twice!Next]_t_vars => [TwiceProofs!Next]_TwiceProofs!vars
  <1>1. Twice!Init => TwiceProofs!Init
    BY Zenon
    DEF Twice!NoOne, TwiceProofs!NoOne, Twice!None, TwiceProofs!None, Twice!NoConf,
        TwiceProofs!NoConf, Twice!NoJob, TwiceProofs!NoJob, Twice!Active, TwiceProofs!Active,
        Twice!Started, TwiceProofs!Started, Twice!Count, TwiceProofs!Count, Twice!Jobless,
        TwiceProofs!Jobless, Twice!AllIdle, TwiceProofs!AllIdle, Twice!Init, TwiceProofs!Init
  <1>2. Twice!Next => TwiceProofs!Next
    BY Zenon
    DEF Twice!NoOne, TwiceProofs!NoOne, Twice!None, TwiceProofs!None, Twice!memVars,
        TwiceProofs!memVars, Twice!pipeVars, TwiceProofs!pipeVars, Twice!diskVars,
        TwiceProofs!diskVars, Twice!NoConf, TwiceProofs!NoConf, Twice!NoJob, TwiceProofs!NoJob,
        Twice!Active, TwiceProofs!Active, Twice!Started, TwiceProofs!Started, Twice!Count,
        TwiceProofs!Count, Twice!Jobless, TwiceProofs!Jobless, Twice!AllIdle,
        TwiceProofs!AllIdle, Twice!CanLock, TwiceProofs!CanLock, Twice!Goto, TwiceProofs!Goto,
        Twice!Returns, TwiceProofs!Returns, Twice!Fails, TwiceProofs!Fails, Twice!UnderOps,
        TwiceProofs!UnderOps, Twice!UnderLock, TwiceProofs!UnderLock, Twice!InSave,
        TwiceProofs!InSave, Twice!Overlapping, TwiceProofs!Overlapping, Twice!Undone,
        TwiceProofs!Undone, Twice!Saves, TwiceProofs!Saves, Twice!NoSave, TwiceProofs!NoSave,
        Twice!KeepActive, TwiceProofs!KeepActive, Twice!SetActive, TwiceProofs!SetActive,
        Twice!FullConfig, TwiceProofs!FullConfig, Twice!Stopped, TwiceProofs!Stopped,
        Twice!NotStopped, TwiceProofs!NotStopped, Twice!First, TwiceProofs!First, Twice!Receive,
        TwiceProofs!Receive, Twice!BeginStart, TwiceProofs!BeginStart, Twice!StopOld,
        TwiceProofs!StopOld, Twice!Build, TwiceProofs!Build, Twice!SaveStarted,
        TwiceProofs!SaveStarted, Twice!MarkActive, TwiceProofs!MarkActive, Twice!StopPipeline,
        TwiceProofs!StopPipeline, Twice!ThreadEnds, TwiceProofs!ThreadEnds, Twice!Store,
        TwiceProofs!Store, Twice!UpdatePipeline, TwiceProofs!UpdatePipeline, Twice!CommitDeploy,
        TwiceProofs!CommitDeploy, Twice!StartServing, TwiceProofs!StartServing,
        Twice!CheckUninstall, TwiceProofs!CheckUninstall, Twice!DropConfig,
        TwiceProofs!DropConfig, Twice!From, TwiceProofs!From, Twice!To, TwiceProofs!To,
        Twice!TakeSnapshot, TwiceProofs!TakeSnapshot, Twice!LockOps, TwiceProofs!LockOps,
        Twice!SwapNext, TwiceProofs!SwapNext, Twice!Publish, TwiceProofs!Publish,
        Twice!PersistConfig, TwiceProofs!PersistConfig, Twice!Raise, TwiceProofs!Raise,
        Twice!Boots, TwiceProofs!Boots, Twice!Killed, TwiceProofs!Killed,
        Twice!RestartsForConfig, TwiceProofs!RestartsForConfig, Twice!ThreadStep,
        TwiceProofs!ThreadStep, Twice!Next, TwiceProofs!Next
  <1>3. UNCHANGED t_vars => UNCHANGED TwiceProofs!vars
    BY DEF t_vars, TwiceProofs!vars
  <1> QED BY <1>1, <1>2, <1>3

(* So the general theorem speaks of Twice.                                 *)
LEMMA TwiceApplied ==
    Twice!Init /\ [][Twice!Next]_t_vars => Twice!AppliedWhole /\ []Twice!OneInstance
  <1>1. TwiceProofs!Spec => TwiceProofs!AppliedWhole /\ []TwiceProofs!OneInstance
    BY TwiceConstants, TwiceProofs!AppliedWholeSafe
  <1>2. TwiceProofs!OneInstance <=> Twice!OneInstance
    BY DEF Twice!OneInstance, TwiceProofs!OneInstance
  <1>3. TwiceProofs!AppliedWhole => Twice!AppliedWhole
    BY Zenon DEF Twice!None, TwiceProofs!None, Twice!vars, TwiceProofs!vars, Twice!Active,
           TwiceProofs!Active, Twice!From, TwiceProofs!From, Twice!To, TwiceProofs!To,
           Twice!AppliedWhole, TwiceProofs!AppliedWhole
  <1> QED BY TwiceSame, <1>1, <1>2, <1>3, PTL DEF TwiceProofs!Spec

---------------------------------------------------------------------------
(* Pair's constants meet every assumption of Pipelines, and no deploy is   *)
(* among its commands.                                                     *)
LEMMA PairConstants ==
    /\ {"reconfig", "start", "stop", "uninstall"} \subseteq PairProofs!AllKinds
    /\ {C(1, FALSE)} \subseteq PairProofs!Conf
    /\ PairTargets \subseteq PairProofs!AgentConf /\ Nothing({"a", "b"}) \in PairProofs!AgentConf
    /\ {1, 2} \subseteq Nat \ {0}
    /\ PairProofs!NoOne \notin {"t1", "a", "b"}
    /\ 0 \in Nat /\ {} \subseteq {"fail", "race"}
    /\ PairProofs!NoDeploys
  <1>1. PairProofs!None = None
    BY DEF PairProofs!None, None
  <1>2. \A v \in {1, 2}, on \in BOOLEAN : C(v, on) \in PairProofs!Conf
    BY DEF C, PairProofs!Conf
  <1>3. PairTargets \subseteq PairProofs!AgentConf /\ Nothing({"a", "b"}) \in PairProofs!AgentConf
    BY <1>1, <1>2 DEF PairTargets, Nothing, PairProofs!AgentConf
  <1>4. {"reconfig", "start", "stop", "uninstall"} \subseteq PairProofs!AllKinds
        /\ PairProofs!NoDeploys
    BY DEF PairProofs!AllKinds, PairProofs!NoDeploys
  <1>5. PairProofs!NoOne \notin {"t1", "a", "b"}
    BY DEF PairProofs!NoOne
  <1>6. {C(1, FALSE)} \subseteq PairProofs!Conf
    BY <1>2
  <1>7. {1, 2} \subseteq Nat \ {0} /\ 0 \in Nat
    OBVIOUS
  <1>8. {} \subseteq {"fail", "race"}
    OBVIOUS
  <1> QED BY ONLY <1>3, <1>4, <1>5, <1>6, <1>7, <1>8, Zenon

(* The copy of the model the theorem speaks of is Pair itself.             *)
LEMMA PairSame ==
    /\ Pair!Init => PairProofs!Init
    /\ [Pair!Next]_r_vars => [PairProofs!Next]_PairProofs!vars
  <1>1. Pair!Init => PairProofs!Init
    BY Zenon
    DEF Pair!NoOne, PairProofs!NoOne, Pair!None, PairProofs!None, Pair!NoConf,
        PairProofs!NoConf, Pair!NoJob, PairProofs!NoJob, Pair!Active, PairProofs!Active,
        Pair!Started, PairProofs!Started, Pair!Count, PairProofs!Count, Pair!Jobless,
        PairProofs!Jobless, Pair!AllIdle, PairProofs!AllIdle, Pair!Init, PairProofs!Init
  <1>2. Pair!Next => PairProofs!Next
    BY Zenon
    DEF Pair!NoOne, PairProofs!NoOne, Pair!None, PairProofs!None, Pair!memVars,
        PairProofs!memVars, Pair!pipeVars, PairProofs!pipeVars, Pair!diskVars,
        PairProofs!diskVars, Pair!NoConf, PairProofs!NoConf, Pair!NoJob, PairProofs!NoJob,
        Pair!Active, PairProofs!Active, Pair!Started, PairProofs!Started, Pair!Count,
        PairProofs!Count, Pair!Jobless, PairProofs!Jobless, Pair!AllIdle, PairProofs!AllIdle,
        Pair!CanLock, PairProofs!CanLock, Pair!Goto, PairProofs!Goto, Pair!Returns,
        PairProofs!Returns, Pair!Fails, PairProofs!Fails, Pair!UnderOps, PairProofs!UnderOps,
        Pair!UnderLock, PairProofs!UnderLock, Pair!InSave, PairProofs!InSave, Pair!Overlapping,
        PairProofs!Overlapping, Pair!Undone, PairProofs!Undone, Pair!Saves, PairProofs!Saves,
        Pair!NoSave, PairProofs!NoSave, Pair!KeepActive, PairProofs!KeepActive, Pair!SetActive,
        PairProofs!SetActive, Pair!FullConfig, PairProofs!FullConfig, Pair!Stopped,
        PairProofs!Stopped, Pair!NotStopped, PairProofs!NotStopped, Pair!First,
        PairProofs!First, Pair!Receive, PairProofs!Receive, Pair!BeginStart,
        PairProofs!BeginStart, Pair!StopOld, PairProofs!StopOld, Pair!Build, PairProofs!Build,
        Pair!SaveStarted, PairProofs!SaveStarted, Pair!MarkActive, PairProofs!MarkActive,
        Pair!StopPipeline, PairProofs!StopPipeline, Pair!ThreadEnds, PairProofs!ThreadEnds,
        Pair!Store, PairProofs!Store, Pair!UpdatePipeline, PairProofs!UpdatePipeline,
        Pair!CommitDeploy, PairProofs!CommitDeploy, Pair!StartServing, PairProofs!StartServing,
        Pair!CheckUninstall, PairProofs!CheckUninstall, Pair!DropConfig, PairProofs!DropConfig,
        Pair!From, PairProofs!From, Pair!To, PairProofs!To, Pair!TakeSnapshot,
        PairProofs!TakeSnapshot, Pair!LockOps, PairProofs!LockOps, Pair!SwapNext,
        PairProofs!SwapNext, Pair!Publish, PairProofs!Publish, Pair!PersistConfig,
        PairProofs!PersistConfig, Pair!Raise, PairProofs!Raise, Pair!Boots, PairProofs!Boots,
        Pair!Killed, PairProofs!Killed, Pair!RestartsForConfig, PairProofs!RestartsForConfig,
        Pair!ThreadStep, PairProofs!ThreadStep, Pair!Next, PairProofs!Next
  <1>3. UNCHANGED r_vars => UNCHANGED PairProofs!vars
    BY DEF r_vars, PairProofs!vars
  <1> QED BY <1>1, <1>2, <1>3

(* So the general theorem speaks of Pair.                                  *)
LEMMA PairApplied ==
    Pair!Init /\ [][Pair!Next]_r_vars => Pair!AppliedWhole /\ []Pair!OneInstance
  <1>1. PairProofs!Spec => PairProofs!AppliedWhole /\ []PairProofs!OneInstance
    BY PairConstants, PairProofs!AppliedWholeSafe
  <1>2. PairProofs!OneInstance <=> Pair!OneInstance
    BY DEF Pair!OneInstance, PairProofs!OneInstance
  <1>3. PairProofs!AppliedWhole => Pair!AppliedWhole
    BY Zenon DEF Pair!None, PairProofs!None, Pair!vars, PairProofs!vars, Pair!Active,
           PairProofs!Active, Pair!From, PairProofs!From, Pair!To, PairProofs!To,
           Pair!AppliedWhole, PairProofs!AppliedWhole
  <1> QED BY PairSame, <1>1, <1>2, <1>3, PTL DEF PairProofs!Spec

---------------------------------------------------------------------------
(* Whichever part moves, the others stay where they started.               *)
LEMMA PartsRefine ==
    /\ PartsInit => Twice!Init /\ Pair!Init
    /\ [PartsNext]_<<part, vars, t_vars, r_vars, s_vars>> =>
            [Twice!Next]_t_vars /\ [Pair!Next]_r_vars
  <1>1. PartsInit => Twice!Init /\ Pair!Init
    BY DEF PartsInit
  <1>2. [PartsNext]_<<part, vars, t_vars, r_vars, s_vars>> =>
            [Twice!Next]_t_vars /\ [Pair!Next]_r_vars
    BY DEF PartsNext
  <1> QED BY <1>1, <1>2

(* apply_config publishes a configuration only when the runtime tracks     *)
(* what it says and nothing it drops is alive, also when two of them       *)
(* overlap and when two pipelines change at once, and no pipeline runs     *)
(* twice meanwhile.                                                        *)
THEOREM ReconfigWhole == PartsSpec => ReconfigAppliedWhole
  BY PartsRefine, TwiceApplied, PairApplied, PTL DEF PartsSpec, ReconfigAppliedWhole
=============================================================================
