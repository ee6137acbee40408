---------------------------- MODULE ServingProofs ----------------------------
(***************************************************************************)
(* Proofs about what stands between a client and a model: the telemetry of *)
(* a chat completion, for any bodies; the proxy (Proxy), for any requests, *)
(* slots and starts; the llama-swap engine that the adapters share (Swap), *)
(* for any adapters, models, managers, pids and number of crashes; and the *)
(* engine of a single model, of the language model (Llama) and of the      *)
(* transcriber (Whisper), for every mode and with starts that fail.        *)
(***************************************************************************)
EXTENDS MCServing, FiniteSetTheorems, SequenceTheorems, TLAPS

(* Numbers and names that stand for nobody are not used for somebody.      *)
SwapConstants ==
    /\ Alias \in [Adapters -> Models] /\ MaxCrashes \in Nat
    /\ 0 \notin Managers /\ 0 \notin Pids /\ Swap!NoOne \notin Adapters

Stages == {"off", "on"} \cup Swap!Building \cup Swap!Ending

(* The types, the flags apart.                                             *)
SwapTyped ==
    /\ s_inst \in Managers \cup {0}
    /\ s_models \in [Managers -> SUBSET Models] /\ s_cbs \in [Managers -> SUBSET Adapters]
    /\ s_proc \in [Managers -> Pids \cup {0}]
    /\ s_lock \in [Managers -> Adapters \cup {Swap!NoOne}] /\ s_glock \in Adapters \cup {Swap!NoOne}
    /\ s_conf \subseteq Models /\ s_pidfile \in Pids \cup {0}
    /\ s_procs \in [Pids -> {"free", "swap", "foreign", "alike"}] /\ s_loaded \subseteq Models
    /\ s_st \in [Adapters -> Stages]
    /\ s_mgr \in [Adapters -> Managers \cup {0}] /\ s_crashes \in 0 .. MaxCrashes
    /\ \A a \in Adapters : s_st[a] \notin {"off", "get"} => s_mgr[a] \in Managers

Flags == s_proxy \in [Managers -> BOOLEAN] /\ s_hup \in BOOLEAN

(* A lock is held by the adapter that is at a step made under it.          *)
LocksHeld ==
    /\ \A a \in Adapters : s_st[a] \in Swap!Locked => s_lock[s_mgr[a]] = a
    /\ \A m \in Managers : s_lock[m] # Swap!NoOne =>
            s_mgr[s_lock[m]] = m /\ s_st[s_lock[m]] \in Swap!Locked
    /\ \A a \in Adapters : (s_glock = a) <=> (s_st[a] = "register")

LEMMA InitSwap == ASSUME SwapConstants, Swap!Init PROVE SwapTyped /\ Flags /\ LocksHeld
  <1> USE DEF SwapConstants, Swap!Init, Swap!FreshMemory
  <1>1. SwapTyped BY DEF SwapTyped, Stages
  <1>2. Flags BY DEF Flags
  <1>3. LocksHeld BY DEF LocksHeld, Swap!Locked
  <1> QED BY <1>1, <1>2, <1>3

LEMMA NextSwapTyped == ASSUME SwapConstants, SwapTyped, [Swap!Next]_Swap!vars PROVE SwapTyped'
  <1> USE DEF SwapConstants, SwapTyped, Stages, Swap!Building, Swap!Ending, Swap!mem,
              Swap!locks, Swap!os, Swap!files
  <1>1. ASSUME NEW a \in Adapters, Swap!Construct(a) PROVE SwapTyped'
    BY <1>1 DEF Swap!Construct, Swap!Goto
  <1>2. ASSUME NEW a \in Adapters, Swap!GetManager(a) PROVE SwapTyped'
    BY <1>2 DEF Swap!GetManager, Swap!Goto
  <1>3. ASSUME NEW a \in Adapters, Swap!RegisterCallback(a) PROVE SwapTyped'
    BY <1>3 DEF Swap!RegisterCallback, Swap!Goto, Swap!Free
  <1>4. ASSUME NEW a \in Adapters, Swap!AddModel(a) PROVE SwapTyped'
    BY <1>4 DEF Swap!AddModel, Swap!Goto, Swap!Free, Swap!Take, Swap!Reload, Swap!Running
  <1>5. ASSUME NEW a \in Adapters, Swap!Reclaim(a) PROVE SwapTyped'
    BY <1>5 DEF Swap!Reclaim, Swap!Goto, Swap!LooksLikeOurs
  <1>6. ASSUME NEW a \in Adapters, Swap!Spawn(a) PROVE SwapTyped'
    BY <1>6 DEF Swap!Spawn, Swap!Goto, Swap!Raises, Swap!Release, Swap!PortInUse
  <1>7. ASSUME NEW a \in Adapters, Swap!RecordPid(a) PROVE SwapTyped'
    BY <1>7 DEF Swap!RecordPid, Swap!Goto
  <1>8. ASSUME NEW a \in Adapters, Swap!Settle(a) PROVE SwapTyped'
    BY <1>8 DEF Swap!Settle, Swap!Goto, Swap!Raises, Swap!Release, Swap!Running
  <1>9. ASSUME NEW a \in Adapters, Swap!Stop(a) PROVE SwapTyped'
    BY <1>9 DEF Swap!Stop, Swap!Goto
  <1>10. ASSUME NEW a \in Adapters, Swap!Unregister(a) PROVE SwapTyped'
    BY <1>10 DEF Swap!Unregister, Swap!Goto, Swap!Free
  <1>11. ASSUME NEW a \in Adapters, Swap!RemoveModel(a) PROVE SwapTyped'
    BY <1>11 DEF Swap!RemoveModel, Swap!Goto, Swap!Free, Swap!Take, Swap!Reload, Swap!Running
  <1>12. ASSUME NEW a \in Adapters, Swap!StopEngine(a) PROVE SwapTyped'
    BY <1>12 DEF Swap!StopEngine, Swap!Goto, Swap!Running
  <1>13. ASSUME NEW a \in Adapters, Swap!PopInstance(a) PROVE SwapTyped'
    BY <1>13 DEF Swap!PopInstance, Swap!Goto, Swap!Release
  <1>14. ASSUME NEW a \in Adapters, Swap!Heartbeat(a) PROVE SwapTyped'
    BY <1>14 DEF Swap!Heartbeat, Swap!Free, Swap!EnsureProxy, Swap!Running
  <1>15. ASSUME NEW p \in Pids, Swap!EngineDies(p) PROVE SwapTyped'
    BY <1>15 DEF Swap!EngineDies
  <1>16. ASSUME NEW p \in Pids, Swap!PidTaken(p) PROVE SwapTyped'
    BY <1>16 DEF Swap!PidTaken
  <1>17. CASE Swap!EngineReloads
    BY <1>17 DEF Swap!EngineReloads
  <1>18. CASE Swap!Crash
    BY <1>18 DEF Swap!Crash, Swap!FreshMemory
  <1>19. CASE UNCHANGED Swap!vars BY <1>19 DEF Swap!vars
  <1> QED BY <1>1, <1>2, <1>3, <1>4, <1>5, <1>6, <1>7, <1>8, <1>9, <1>10,
             <1>11, <1>12, <1>13, <1>14, <1>15, <1>16, <1>17, <1>18, <1>19
          DEF Swap!Next, Swap!Works

LEMMA NextFlags == ASSUME Flags, [Swap!Next]_Swap!vars PROVE Flags'
  <1> USE DEF Flags, Swap!mem, Swap!locks, Swap!os, Swap!files
  <1>1. ASSUME NEW a \in Adapters, Swap!Construct(a) PROVE Flags'
    BY <1>1 DEF Swap!Construct, Swap!Goto
  <1>2. ASSUME NEW a \in Adapters, Swap!GetManager(a) PROVE Flags'
    BY <1>2 DEF Swap!GetManager, Swap!Goto
  <1>3. ASSUME NEW a \in Adapters, Swap!RegisterCallback(a) PROVE Flags'
    BY <1>3 DEF Swap!RegisterCallback, Swap!Goto, Swap!Free
  <1>4. ASSUME NEW a \in Adapters, Swap!AddModel(a) PROVE Flags'
    BY <1>4 DEF Swap!AddModel, Swap!Goto, Swap!Free, Swap!Take, Swap!Reload, Swap!Running
  <1>5. ASSUME NEW a \in Adapters, Swap!Reclaim(a) PROVE Flags'
    BY <1>5 DEF Swap!Reclaim, Swap!Goto, Swap!LooksLikeOurs
  <1>6. ASSUME NEW a \in Adapters, Swap!Spawn(a) PROVE Flags'
    BY <1>6 DEF Swap!Spawn, Swap!Goto, Swap!Raises, Swap!Release, Swap!PortInUse
  <1>7. ASSUME NEW a \in Adapters, Swap!RecordPid(a) PROVE Flags'
    BY <1>7 DEF Swap!RecordPid, Swap!Goto
  <1>8. ASSUME NEW a \in Adapters, Swap!Settle(a) PROVE Flags'
    BY <1>8 DEF Swap!Settle, Swap!Goto, Swap!Raises, Swap!Release, Swap!Running
  <1>9. ASSUME NEW a \in Adapters, Swap!Stop(a) PROVE Flags'
    BY <1>9 DEF Swap!Stop, Swap!Goto
  <1>10. ASSUME NEW a \in Adapters, Swap!Unregister(a) PROVE Flags'
    BY <1>10 DEF Swap!Unregister, Swap!Goto, Swap!Free
  <1>11. ASSUME NEW a \in Adapters, Swap!RemoveModel(a) PROVE Flags'
    BY <1>11 DEF Swap!RemoveModel, Swap!Goto, Swap!Free, Swap!Take, Swap!Reload, Swap!Running
  <1>12. ASSUME NEW a \in Adapters, Swap!StopEngine(a) PROVE Flags'
    BY <1>12 DEF Swap!StopEngine, Swap!Goto, Swap!Running
  <1>13. ASSUME NEW a \in Adapters, Swap!PopInstance(a) PROVE Flags'
    BY <1>13 DEF Swap!PopInstance, Swap!Goto, Swap!Release
  <1>14. ASSUME NEW a \in Adapters, Swap!Heartbeat(a) PROVE Flags'
    BY <1>14 DEF Swap!Heartbeat, Swap!Free, Swap!EnsureProxy, Swap!Running
  <1>15. ASSUME NEW p \in Pids, Swap!EngineDies(p) PROVE Flags'
    BY <1>15 DEF Swap!EngineDies
  <1>16. ASSUME NEW p \in Pids, Swap!PidTaken(p) PROVE Flags'
    BY <1>16 DEF Swap!PidTaken
  <1>17. CASE Swap!EngineReloads
    BY <1>17 DEF Swap!EngineReloads
  <1>18. CASE Swap!Crash
    BY <1>18 DEF Swap!Crash, Swap!FreshMemory
  <1>19. CASE UNCHANGED Swap!vars BY <1>19 DEF Swap!vars
  <1> QED BY <1>1, <1>2, <1>3, <1>4, <1>5, <1>6, <1>7, <1>8, <1>9, <1>10,
             <1>11, <1>12, <1>13, <1>14, <1>15, <1>16, <1>17, <1>18, <1>19
          DEF Swap!Next, Swap!Works

LEMMA NextLocksHeld ==
    ASSUME SwapConstants, SwapTyped, LocksHeld, [Swap!Next]_Swap!vars
    PROVE  LocksHeld'
  <1> USE DEF SwapConstants, SwapTyped, LocksHeld, Swap!Locked, Swap!mem, Swap!locks, Swap!os,
              Swap!files
  <1>1. ASSUME NEW a \in Adapters, Swap!Construct(a) PROVE LocksHeld'
    BY <1>1 DEF Swap!Construct, Swap!Goto
  <1>2. ASSUME NEW a \in Adapters, Swap!GetManager(a) PROVE LocksHeld'
    BY <1>2 DEF Swap!GetManager, Swap!Goto
  <1>3. ASSUME NEW a \in Adapters, Swap!RegisterCallback(a) PROVE LocksHeld'
    BY <1>3 DEF Swap!RegisterCallback, Swap!Goto, Swap!Free
  <1>4. ASSUME NEW a \in Adapters, Swap!AddModel(a) PROVE LocksHeld'
    BY <1>4 DEF Swap!AddModel, Swap!Goto, Swap!Free, Swap!Take, Swap!Reload, Swap!Running
  <1>5. ASSUME NEW a \in Adapters, Swap!Reclaim(a) PROVE LocksHeld'
    BY <1>5 DEF Swap!Reclaim, Swap!Goto, Swap!LooksLikeOurs
  <1>6. ASSUME NEW a \in Adapters, Swap!Spawn(a) PROVE LocksHeld'
    BY <1>6 DEF Swap!Spawn, Swap!Goto, Swap!Raises, Swap!Release, Swap!PortInUse
  <1>7. ASSUME NEW a \in Adapters, Swap!RecordPid(a) PROVE LocksHeld'
    BY <1>7 DEF Swap!RecordPid, Swap!Goto
  <1>8. ASSUME NEW a \in Adapters, Swap!Settle(a) PROVE LocksHeld'
    BY <1>8 DEF Swap!Settle, Swap!Goto, Swap!Raises, Swap!Release, Swap!Running
  <1>9. ASSUME NEW a \in Adapters, Swap!Stop(a) PROVE LocksHeld'
    BY <1>9 DEF Swap!Stop, Swap!Goto
  <1>10. ASSUME NEW a \in Adapters, Swap!Unregister(a) PROVE LocksHeld'
    BY <1>10 DEF Swap!Unregister, Swap!Goto, Swap!Free
  <1>11. ASSUME NEW a \in Adapters, Swap!RemoveModel(a) PROVE LocksHeld'
    BY <1>11 DEF Swap!RemoveModel, Swap!Goto, Swap!Free, Swap!Take, Swap!Reload, Swap!Running
  <1>12. ASSUME NEW a \in Adapters, Swap!StopEngine(a) PROVE LocksHeld'
    BY <1>12 DEF Swap!StopEngine, Swap!Goto, Swap!Running
  <1>13. ASSUME NEW a \in Adapters, Swap!PopInstance(a) PROVE LocksHeld'
    BY <1>13 DEF Swap!PopInstance, Swap!Goto, Swap!Release
  <1>14. ASSUME NEW a \in Adapters, Swap!Heartbeat(a) PROVE LocksHeld'
    BY <1>14 DEF Swap!Heartbeat, Swap!Free, Swap!EnsureProxy, Swap!Running
  <1>15. ASSUME NEW p \in Pids, Swap!EngineDies(p) PROVE LocksHeld'
    BY <1>15 DEF Swap!EngineDies
  <1>16. ASSUME NEW p \in Pids, Swap!PidTaken(p) PROVE LocksHeld'
    BY <1>16 DEF Swap!PidTaken
  <1>17. CASE Swap!EngineReloads
    BY <1>17 DEF Swap!EngineReloads
  <1>18. CASE Swap!Crash
    BY <1>18 DEF Swap!Crash, Swap!FreshMemory
  <1>19. CASE UNCHANGED Swap!vars BY <1>19 DEF Swap!vars
  <1> QED BY <1>1, <1>2, <1>3, <1>4, <1>5, <1>6, <1>7, <1>8, <1>9, <1>10,
             <1>11, <1>12, <1>13, <1>14, <1>15, <1>16, <1>17, <1>18, <1>19
          DEF Swap!Next, Swap!Works

LockInv == SwapTyped /\ Flags /\ LocksHeld

LEMMA NextLockInv == ASSUME SwapConstants, LockInv, [Swap!Next]_Swap!vars PROVE LockInv'
  BY NextSwapTyped, NextFlags, NextLocksHeld DEF LockInv

LEMMA LockInvTypes == LockInv => Swap!TypeOK
  BY DEF LockInv, SwapTyped, Flags, LocksHeld, Swap!TypeOK, Stages

(* The proxy is taken down before the engine, and nobody brings it back    *)
(* while the lock is held.                                                 *)
ProxyInv == Swap!ProxyHasEngine /\ \A a \in Adapters : s_st[a] = "stop" => ~s_proxy[s_mgr[a]]

LEMMA NextProxyInv == ASSUME SwapConstants, LockInv, ProxyInv, [Swap!Next]_Swap!vars PROVE ProxyInv'
  <1> USE DEF SwapConstants, LockInv, SwapTyped, Flags, LocksHeld, Swap!Locked, ProxyInv,
              Swap!ProxyHasEngine, Swap!mem, Swap!locks, Swap!os, Swap!files
  <1>1. ASSUME NEW a \in Adapters, Swap!Construct(a) PROVE ProxyInv'
    BY <1>1 DEF Swap!Construct, Swap!Goto
  <1>2. ASSUME NEW a \in Adapters, Swap!GetManager(a) PROVE ProxyInv'
    BY <1>2 DEF Swap!GetManager, Swap!Goto
  <1>3. ASSUME NEW a \in Adapters, Swap!RegisterCallback(a) PROVE ProxyInv'
    BY <1>3 DEF Swap!RegisterCallback, Swap!Goto, Swap!Free
  <1>4. ASSUME NEW a \in Adapters, Swap!AddModel(a) PROVE ProxyInv'
    BY <1>4 DEF Swap!AddModel, Swap!Goto, Swap!Free, Swap!Take, Swap!Reload, Swap!Running
  <1>5. ASSUME NEW a \in Adapters, Swap!Reclaim(a) PROVE ProxyInv'
    BY <1>5 DEF Swap!Reclaim, Swap!Goto, Swap!LooksLikeOurs
  <1>6. ASSUME NEW a \in Adapters, Swap!Spawn(a) PROVE ProxyInv'
    BY <1>6 DEF Swap!Spawn, Swap!Goto, Swap!Raises, Swap!Release, Swap!PortInUse
  <1>7. ASSUME NEW a \in Adapters, Swap!RecordPid(a) PROVE ProxyInv'
    BY <1>7 DEF Swap!RecordPid, Swap!Goto
  <1>8. ASSUME NEW a \in Adapters, Swap!Settle(a) PROVE ProxyInv'
    BY <1>8 DEF Swap!Settle, Swap!Goto, Swap!Raises, Swap!Release, Swap!Running
  <1>9. ASSUME NEW a \in Adapters, Swap!Stop(a) PROVE ProxyInv'
    BY <1>9 DEF Swap!Stop, Swap!Goto
  <1>10. ASSUME NEW a \in Adapters, Swap!Unregister(a) PROVE ProxyInv'
    BY <1>10 DEF Swap!Unregister, Swap!Goto, Swap!Free
  <1>11. ASSUME NEW a \in Adapters, Swap!RemoveModel(a) PROVE ProxyInv'
    BY <1>11 DEF Swap!RemoveModel, Swap!Goto, Swap!Free, Swap!Take, Swap!Reload, Swap!Running
  <1>12. ASSUME NEW a \in Adapters, Swap!StopEngine(a) PROVE ProxyInv'
    BY <1>12 DEF Swap!StopEngine, Swap!Goto, Swap!Running
  <1>13. ASSUME NEW a \in Adapters, Swap!PopInstance(a) PROVE ProxyInv'
    BY <1>13 DEF Swap!PopInstance, Swap!Goto, Swap!Release
  <1>14. ASSUME NEW a \in Adapters, Swap!Heartbeat(a) PROVE ProxyInv'
    BY <1>14 DEF Swap!Heartbeat, Swap!Free, Swap!EnsureProxy, Swap!Running
  <1>15. ASSUME NEW p \in Pids, Swap!EngineDies(p) PROVE ProxyInv'
    BY <1>15 DEF Swap!EngineDies
  <1>16. ASSUME NEW p \in Pids, Swap!PidTaken(p) PROVE ProxyInv'
    BY <1>16 DEF Swap!PidTaken
  <1>17. CASE Swap!EngineReloads
    BY <1>17 DEF Swap!EngineReloads
  <1>18. CASE Swap!Crash
    BY <1>18 DEF Swap!Crash, Swap!FreshMemory
  <1>19. CASE UNCHANGED Swap!vars BY <1>19 DEF Swap!vars
  <1> QED BY <1>1, <1>2, <1>3, <1>4, <1>5, <1>6, <1>7, <1>8, <1>9, <1>10,
             <1>11, <1>12, <1>13, <1>14, <1>15, <1>16, <1>17, <1>18, <1>19
          DEF Swap!Next, Swap!Works

---------------------------------------------------------------------------
(* Every teardown ends within the two seconds that _stop_pipeline waits,   *)
(* so that one call of an adapter runs at a time.                          *)
NoOverlap == "overlap" \notin SwapFaults

(* Every adapter registers a model of its own.                             *)
OwnModels == \A a, b \in Adapters : Alias[a] = Alias[b] => a = b

Busy == Swap!Building \cup Swap!Ending
Registered == {"reclaim", "spawn", "record", "settle", "on", "unregister", "remove"}
Leaving == {"stop", "pop"}

(* The runtime runs one constructor or teardown at a time.                 *)
Alone == \A a, b \in Adapters : a # b /\ s_st[a] \in Busy => s_st[b] \notin Busy

(* All adapters have the registered manager, it has their models, and it   *)
(* is given up only once it has none.                                      *)
Shared ==
    \A a \in Adapters :
        /\ s_st[a] \notin {"off", "get"} => s_mgr[a] = s_inst
        /\ s_st[a] \in Registered => Alias[a] \in s_models[s_inst]
        /\ s_st[a] \in Leaving => s_models[s_inst] = {}

(* One engine at most; while it runs the config file lists the models, and *)
(* the engine has read it or has a SIGHUP on its way.                      *)
Fresh ==
    /\ \A p, q \in Pids : s_procs[p] = "swap" /\ s_procs[q] = "swap" => p = q
    /\ s_inst # 0 /\ Swap!Running(s_inst) /\ (\A a \in Adapters : s_st[a] \notin Leaving) =>
         s_conf = s_models[s_inst] /\ (s_hup \/ s_loaded = s_conf)
    /\ \A a \in Adapters : s_st[a] \in {"reclaim", "spawn"} => s_conf = s_models[s_inst]

LEMMA NextAlone == ASSUME NoOverlap, SwapTyped, Alone, [Swap!Next]_Swap!vars PROVE Alone'
  <1> USE DEF NoOverlap, SwapTyped, Alone, Busy, Swap!Building, Swap!Ending, Swap!mem,
              Swap!locks, Swap!os, Swap!files
  <1>1. ASSUME NEW a \in Adapters, Swap!Construct(a) PROVE Alone'
    BY <1>1 DEF Swap!Construct, Swap!Goto
  <1>2. ASSUME NEW a \in Adapters, Swap!GetManager(a) PROVE Alone'
    BY <1>2 DEF Swap!GetManager, Swap!Goto
  <1>3. ASSUME NEW a \in Adapters, Swap!RegisterCallback(a) PROVE Alone'
    BY <1>3 DEF Swap!RegisterCallback, Swap!Goto, Swap!Free
  <1>4. ASSUME NEW a \in Adapters, Swap!AddModel(a) PROVE Alone'
    BY <1>4 DEF Swap!AddModel, Swap!Goto, Swap!Free, Swap!Take, Swap!Reload, Swap!Running
  <1>5. ASSUME NEW a \in Adapters, Swap!Reclaim(a) PROVE Alone'
    BY <1>5 DEF Swap!Reclaim, Swap!Goto, Swap!LooksLikeOurs
  <1>6. ASSUME NEW a \in Adapters, Swap!Spawn(a) PROVE Alone'
    BY <1>6 DEF Swap!Spawn, Swap!Goto, Swap!Raises, Swap!Release, Swap!PortInUse
  <1>7. ASSUME NEW a \in Adapters, Swap!RecordPid(a) PROVE Alone'
    BY <1>7 DEF Swap!RecordPid, Swap!Goto
  <1>8. ASSUME NEW a \in Adapters, Swap!Settle(a) PROVE Alone'
    BY <1>8 DEF Swap!Settle, Swap!Goto, Swap!Raises, Swap!Release, Swap!Running
  <1>9. ASSUME NEW a \in Adapters, Swap!Stop(a) PROVE Alone'
    BY <1>9 DEF Swap!Stop, Swap!Goto
  <1>10. ASSUME NEW a \in Adapters, Swap!Unregister(a) PROVE Alone'
    BY <1>10 DEF Swap!Unregister, Swap!Goto, Swap!Free
  <1>11. ASSUME NEW a \in Adapters, Swap!RemoveModel(a) PROVE Alone'
    BY <1>11 DEF Swap!RemoveModel, Swap!Goto, Swap!Free, Swap!Take, Swap!Reload, Swap!Running
  <1>12. ASSUME NEW a \in Adapters, Swap!StopEngine(a) PROVE Alone'
    BY <1>12 DEF Swap!StopEngine, Swap!Goto, Swap!Running
  <1>13. ASSUME NEW a \in Adapters, Swap!PopInstance(a) PROVE Alone'
    BY <1>13 DEF Swap!PopInstance, Swap!Goto, Swap!Release
  <1>14. ASSUME NEW a \in Adapters, Swap!Heartbeat(a) PROVE Alone'
    BY <1>14 DEF Swap!Heartbeat, Swap!Free, Swap!EnsureProxy, Swap!Running
  <1>15. ASSUME NEW p \in Pids, Swap!EngineDies(p) PROVE Alone'
    BY <1>15 DEF Swap!EngineDies
  <1>16. ASSUME NEW p \in Pids, Swap!PidTaken(p) PROVE Alone'
    BY <1>16 DEF Swap!PidTaken
  <1>17. CASE Swap!EngineReloads
    BY <1>17 DEF Swap!EngineReloads
  <1>18. CASE Swap!Crash
    BY <1>18 DEF Swap!Crash, Swap!FreshMemory
  <1>19. CASE UNCHANGED Swap!vars BY <1>19 DEF Swap!vars
  <1> QED BY <1>1, <1>2, <1>3, <1>4, <1>5, <1>6, <1>7, <1>8, <1>9, <1>10,
             <1>11, <1>12, <1>13, <1>14, <1>15, <1>16, <1>17, <1>18, <1>19
          DEF Swap!Next, Swap!Works

LEMMA NextShared ==
    ASSUME SwapConstants, OwnModels, SwapTyped, Alone, Shared, [Swap!Next]_Swap!vars
    PROVE  Shared'
  <1> USE DEF SwapConstants, OwnModels, SwapTyped, Shared, Alone, Busy, Swap!Building,
              Swap!Ending, Registered, Leaving, Swap!mem, Swap!locks, Swap!os, Swap!files
  <1>1. ASSUME NEW a \in Adapters, Swap!Construct(a) PROVE Shared'
    BY <1>1 DEF Swap!Construct, Swap!Goto
  <1>2. ASSUME NEW a \in Adapters, Swap!GetManager(a) PROVE Shared'
    BY <1>2 DEF Swap!GetManager, Swap!Goto
  <1>3. ASSUME NEW a \in Adapters, Swap!RegisterCallback(a) PROVE Shared'
    BY <1>3 DEF Swap!RegisterCallback, Swap!Goto, Swap!Free
  <1>4. ASSUME NEW a \in Adapters, Swap!AddModel(a) PROVE Shared'
    BY <1>4 DEF Swap!AddModel, Swap!Goto, Swap!Free, Swap!Take, Swap!Reload, Swap!Running
  <1>5. ASSUME NEW a \in Adapters, Swap!Reclaim(a) PROVE Shared'
    BY <1>5 DEF Swap!Reclaim, Swap!Goto, Swap!LooksLikeOurs
  <1>6. ASSUME NEW a \in Adapters, Swap!Spawn(a) PROVE Shared'
    BY <1>6 DEF Swap!Spawn, Swap!Goto, Swap!Raises, Swap!Release, Swap!PortInUse
  <1>7. ASSUME NEW a \in Adapters, Swap!RecordPid(a) PROVE Shared'
    BY <1>7 DEF Swap!RecordPid, Swap!Goto
  <1>8. ASSUME NEW a \in Adapters, Swap!Settle(a) PROVE Shared'
    BY <1>8 DEF Swap!Settle, Swap!Goto, Swap!Raises, Swap!Release, Swap!Running
  <1>9. ASSUME NEW a \in Adapters, Swap!Stop(a) PROVE Shared'
    BY <1>9 DEF Swap!Stop, Swap!Goto
  <1>10. ASSUME NEW a \in Adapters, Swap!Unregister(a) PROVE Shared'
    BY <1>10 DEF Swap!Unregister, Swap!Goto, Swap!Free
  <1>11. ASSUME NEW a \in Adapters, Swap!RemoveModel(a) PROVE Shared'
    BY <1>11 DEF Swap!RemoveModel, Swap!Goto, Swap!Free, Swap!Take, Swap!Reload, Swap!Running
  <1>12. ASSUME NEW a \in Adapters, Swap!StopEngine(a) PROVE Shared'
    BY <1>12 DEF Swap!StopEngine, Swap!Goto, Swap!Running
  <1>13. ASSUME NEW a \in Adapters, Swap!PopInstance(a) PROVE Shared'
    <2>1. s_st[a] = "pop" /\ s_models[s_inst] = {} BY <1>13 DEF Swap!PopInstance
    <2>2. \A b \in Adapters \ {a} : s_st[b] = "off"
      BY <2>1 DEF Stages
    <2>3. \A b \in Adapters : s_st'[b] = "off"
      BY <1>13, <2>2 DEF Swap!PopInstance, Swap!Goto
    <2> QED BY <2>3
  <1>14. ASSUME NEW a \in Adapters, Swap!Heartbeat(a) PROVE Shared'
    BY <1>14 DEF Swap!Heartbeat, Swap!Free, Swap!EnsureProxy, Swap!Running
  <1>15. ASSUME NEW p \in Pids, Swap!EngineDies(p) PROVE Shared'
    BY <1>15 DEF Swap!EngineDies
  <1>16. ASSUME NEW p \in Pids, Swap!PidTaken(p) PROVE Shared'
    BY <1>16 DEF Swap!PidTaken
  <1>17. CASE Swap!EngineReloads
    BY <1>17 DEF Swap!EngineReloads
  <1>18. CASE Swap!Crash
    BY <1>18 DEF Swap!Crash, Swap!FreshMemory
  <1>19. CASE UNCHANGED Swap!vars BY <1>19 DEF Swap!vars
  <1> QED BY <1>1, <1>2, <1>3, <1>4, <1>5, <1>6, <1>7, <1>8, <1>9, <1>10,
             <1>11, <1>12, <1>13, <1>14, <1>15, <1>16, <1>17, <1>18, <1>19
          DEF Swap!Next, Swap!Works

LEMMA NextFresh ==
    ASSUME SwapConstants, SwapTyped, Flags, Alone, Shared, Fresh, [Swap!Next]_Swap!vars
    PROVE  Fresh'
  <1> USE DEF SwapConstants, SwapTyped, Flags, Shared, Alone, Fresh, Busy, Swap!Building,
              Swap!Ending, Registered, Leaving, Swap!Running, Swap!PortInUse, Swap!mem,
              Swap!locks, Swap!os, Swap!files
  <1>1. ASSUME NEW a \in Adapters, Swap!Construct(a) PROVE Fresh'
    BY <1>1 DEF Swap!Construct, Swap!Goto
  <1>2. ASSUME NEW a \in Adapters, Swap!GetManager(a) PROVE Fresh'
    BY <1>2 DEF Swap!GetManager, Swap!Goto
  <1>3. ASSUME NEW a \in Adapters, Swap!RegisterCallback(a) PROVE Fresh'
    BY <1>3 DEF Swap!RegisterCallback, Swap!Goto, Swap!Free
  <1>4. ASSUME NEW a \in Adapters, Swap!AddModel(a) PROVE Fresh'
    BY <1>4 DEF Swap!AddModel, Swap!Goto, Swap!Free, Swap!Take, Swap!Reload, Swap!Running
  <1>5. ASSUME NEW a \in Adapters, Swap!Reclaim(a) PROVE Fresh'
    BY <1>5 DEF Swap!Reclaim, Swap!Goto, Swap!LooksLikeOurs
  <1>6. ASSUME NEW a \in Adapters, Swap!Spawn(a) PROVE Fresh'
    BY <1>6 DEF Swap!Spawn, Swap!Goto, Swap!Raises, Swap!Release, Swap!PortInUse
  <1>7. ASSUME NEW a \in Adapters, Swap!RecordPid(a) PROVE Fresh'
    BY <1>7 DEF Swap!RecordPid, Swap!Goto
  <1>8. ASSUME NEW a \in Adapters, Swap!Settle(a) PROVE Fresh'
    BY <1>8 DEF Swap!Settle, Swap!Goto, Swap!Raises, Swap!Release, Swap!Running
  <1>9. ASSUME NEW a \in Adapters, Swap!Stop(a) PROVE Fresh'
    BY <1>9 DEF Swap!Stop, Swap!Goto
  <1>10. ASSUME NEW a \in Adapters, Swap!Unregister(a) PROVE Fresh'
    BY <1>10 DEF Swap!Unregister, Swap!Goto, Swap!Free
  <1>11. ASSUME NEW a \in Adapters, Swap!RemoveModel(a) PROVE Fresh'
    <2> DEFINE left == s_models[s_inst] \ {Alias[a]}
    <2>1. s_mgr[a] = s_inst /\ s_inst \in Managers /\ s_st[a] = "remove"
      BY <1>11 DEF Swap!RemoveModel
    <2>2. /\ s_models' = [s_models EXCEPT ![s_inst] = left]
          /\ UNCHANGED <<s_inst, s_proc, s_procs, s_loaded>>
      BY <1>11, <2>1 DEF Swap!RemoveModel
    <2>3. \A b \in Adapters : s_st'[b] \notin {"reclaim", "spawn"}
      BY <1>11, <2>1 DEF Swap!RemoveModel, Swap!Goto
    <2>4. \A b \in Adapters : s_st[b] \notin Leaving
      BY <2>1
    <2>5. CASE left = s_models[s_inst]
      <3>1. UNCHANGED <<s_models, s_conf, s_hup>>
        BY <1>11, <2>1, <2>2, <2>5 DEF Swap!RemoveModel
      <3> QED BY <2>2, <2>3, <2>4, <3>1
    <2>6. CASE left # s_models[s_inst] /\ left # {}
      <3>1. s_conf' = left /\ (s_hup' <=> (s_hup \/ Swap!Running(s_inst)))
        BY <1>11, <2>1, <2>6 DEF Swap!RemoveModel, Swap!Reload
      <3> QED BY <2>1, <2>2, <2>3, <3>1
    <2>7. CASE left # s_models[s_inst] /\ left = {}
      <3>1. s_st'[a] \in Leaving
        BY <1>11, <2>1, <2>7 DEF Swap!RemoveModel, Swap!Goto
      <3> QED BY <2>2, <2>3, <3>1
    <2> QED BY <2>5, <2>6, <2>7
  <1>12. ASSUME NEW a \in Adapters, Swap!StopEngine(a) PROVE Fresh'
    BY <1>12 DEF Swap!StopEngine, Swap!Goto, Swap!Running
  <1>13. ASSUME NEW a \in Adapters, Swap!PopInstance(a) PROVE Fresh'
    BY <1>13 DEF Swap!PopInstance, Swap!Goto, Swap!Release
  <1>14. ASSUME NEW a \in Adapters, Swap!Heartbeat(a) PROVE Fresh'
    BY <1>14 DEF Swap!Heartbeat, Swap!Free, Swap!EnsureProxy, Swap!Running
  <1>15. ASSUME NEW p \in Pids, Swap!EngineDies(p) PROVE Fresh'
    BY <1>15 DEF Swap!EngineDies
  <1>16. ASSUME NEW p \in Pids, Swap!PidTaken(p) PROVE Fresh'
    BY <1>16 DEF Swap!PidTaken
  <1>17. CASE Swap!EngineReloads
    BY <1>17 DEF Swap!EngineReloads
  <1>18. CASE Swap!Crash
    BY <1>18 DEF Swap!Crash, Swap!FreshMemory
  <1>19. CASE UNCHANGED Swap!vars BY <1>19 DEF Swap!vars
  <1> QED BY <1>1, <1>2, <1>3, <1>4, <1>5, <1>6, <1>7, <1>8, <1>9, <1>10,
             <1>11, <1>12, <1>13, <1>14, <1>15, <1>16, <1>17, <1>18, <1>19
          DEF Swap!Next, Swap!Works

ServeInv == LockInv /\ ProxyInv /\ Alone /\ Shared /\ Fresh

(* get_swap_manager, add_model, remove_model, ensure_proxy: between calls  *)
(* the engine serves every model of the adapters that are on, whatever was *)
(* added, removed, killed or reclaimed before, and no proxy outlives the   *)
(* engine.                                                                 *)
THEOREM EngineServesSafe ==
    ASSUME SwapConstants, OwnModels, NoOverlap
    PROVE  Swap!Spec => []EngineServes
  <1>1. Swap!Init => ServeInv
    <2> SUFFICES ASSUME Swap!Init PROVE ServeInv
      OBVIOUS
    <2>1. LockInv BY InitSwap DEF LockInv
    <2>2. ProxyInv BY DEF Swap!Init, Swap!FreshMemory, ProxyInv, Swap!ProxyHasEngine
    <2>3. Alone /\ Shared
      BY DEF Swap!Init, Swap!FreshMemory, Alone, Shared, Busy, Swap!Building, Swap!Ending,
             Registered, Leaving
    <2>4. Fresh BY DEF Swap!Init, Swap!FreshMemory, Fresh
    <2> QED BY <2>1, <2>2, <2>3, <2>4 DEF ServeInv
  <1>2. ServeInv /\ [Swap!Next]_Swap!vars => ServeInv'
    BY NextLockInv, NextProxyInv, NextAlone, NextShared, NextFresh DEF ServeInv, LockInv
  <1>3. ServeInv => EngineServes
    <2> SUFFICES ASSUME ServeInv PROVE Swap!EngineServes
      BY DEF ServeInv, ProxyInv, EngineServes
    <2> SUFFICES ASSUME Swap!Quiet, ~s_hup, s_inst # 0, Swap!Running(s_inst)
                 PROVE  Swap!Serving \subseteq s_loaded
      BY DEF Swap!EngineServes
    <2>1. \A a \in Adapters : s_st[a] \notin Leaving BY DEF Swap!Quiet, Leaving
    <2>2. s_loaded = s_models[s_inst] BY <2>1 DEF ServeInv, Fresh
    <2> QED BY <2>2 DEF Swap!Serving, ServeInv, Shared, Registered
  <1> QED BY <1>1, <1>2, <1>3, PTL DEF Swap!Spec

(* _lock and _global_lock are held by the adapter at a step made under     *)
(* them, and _stop takes the proxy down before the engine: with every      *)
(* fault, teardowns that overlap other calls included.                     *)
THEOREM SwapTypeCorrect ==
    ASSUME SwapConstants PROVE Swap!Spec => [](Swap!TypeOK /\ Swap!ProxyHasEngine)
  <1>1. Swap!Init => LockInv /\ ProxyInv
    BY InitSwap DEF LockInv, Swap!Init, Swap!FreshMemory, ProxyInv, Swap!ProxyHasEngine
  <1>2. LockInv /\ ProxyInv /\ [Swap!Next]_Swap!vars => LockInv' /\ ProxyInv'
    BY NextLockInv, NextProxyInv
  <1>3. LockInv /\ ProxyInv => Swap!TypeOK /\ Swap!ProxyHasEngine
    BY LockInvTypes DEF ProxyInv
  <1> QED BY <1>1, <1>2, <1>3, PTL DEF Swap!Spec

(* _reclaim_previous_instance, _stop and a start that fails: whatever the  *)
(* pidfile says, a process of someone else is terminated only when its     *)
(* command line has the words _looks_like_our_llama_swap looks for.        *)
THEOREM ForeignSparedSafe == ASSUME SwapConstants PROVE Swap!Spec => ForeignSpared
  <1> DEFINE Spared == \A p \in Pids : s_procs[p] = "foreign" => s_procs'[p] = "foreign"
  <1>1. ASSUME LockInv, [Swap!Next]_Swap!vars PROVE Spared
    <2> USE <1>1 DEF LockInv, SwapTyped, SwapConstants, Swap!mem, Swap!locks, Swap!os, Swap!files
    <2>1. ASSUME NEW a \in Adapters, Swap!Reclaim(a) PROVE Spared
      BY <2>1 DEF Swap!Reclaim, Swap!LooksLikeOurs
    <2>2. ASSUME NEW a \in Adapters, Swap!Spawn(a) PROVE Spared BY <2>2 DEF Swap!Spawn
    <2>3. ASSUME NEW a \in Adapters, Swap!Settle(a) PROVE Spared
      BY <2>3 DEF Swap!Settle, Swap!Running
    <2>4. ASSUME NEW a \in Adapters, Swap!StopEngine(a) PROVE Spared
      BY <2>4 DEF Swap!StopEngine, Swap!Running
    <2>5. ASSUME NEW p \in Pids, Swap!EngineDies(p) \/ Swap!PidTaken(p) PROVE Spared
      BY <2>5 DEF Swap!EngineDies, Swap!PidTaken
    <2>6. ASSUME NEW a \in Adapters,
                 Swap!Construct(a) \/ Swap!GetManager(a) \/ Swap!RegisterCallback(a)
                 \/ Swap!AddModel(a) \/ Swap!RecordPid(a)
          PROVE  Spared
      BY <2>6 DEF Swap!Construct, Swap!GetManager, Swap!RegisterCallback, Swap!AddModel,
                  Swap!RecordPid
    <2>7. ASSUME NEW a \in Adapters,
                 Swap!Stop(a) \/ Swap!Unregister(a) \/ Swap!RemoveModel(a) \/ Swap!PopInstance(a)
                 \/ Swap!Heartbeat(a)
          PROVE  Spared
      BY <2>7 DEF Swap!Stop, Swap!Unregister, Swap!RemoveModel, Swap!PopInstance, Swap!Heartbeat
    <2>8. CASE Swap!EngineReloads \/ Swap!Crash \/ UNCHANGED Swap!vars
      BY <2>8 DEF Swap!EngineReloads, Swap!Crash, Swap!vars
    <2> QED BY <1>1, <2>1, <2>2, <2>3, <2>4, <2>5, <2>6, <2>7, <2>8 DEF Swap!Next, Swap!Works
  <1>2. Swap!Init => LockInv BY InitSwap DEF LockInv
  <1>3. LockInv /\ [Swap!Next]_Swap!vars => LockInv' BY NextLockInv
  <1>4. LockInv /\ [Swap!Next]_Swap!vars => [Spared]_Swap!vars BY <1>1
  <1> QED BY <1>2, <1>3, <1>4, PTL DEF Swap!Spec, ForeignSpared, Swap!ForeignSpared

---------------------------------------------------------------------------
(* Without faults: no start fails, and no agent is killed with its engine  *)
(* running.  The registered manager has exactly the models of the adapters *)
(* that are registered.                                                    *)
Exact == s_inst # 0 =>
              s_models[s_inst] = {Alias[a] : a \in {b \in Adapters : s_st[b] \in Registered}}

(* A running engine is the registered manager's, and somebody needs it or  *)
(* is about to stop it.                                                    *)
Owned ==
    /\ \A p \in Pids : s_procs[p] = "swap" =>
          s_inst # 0 /\ s_proc[s_inst] = p
          /\ \E a \in Adapters : s_st[a] \in Registered \cup {"stop"}
    /\ \A a \in Adapters : /\ s_st[a] \in {"reclaim", "spawn"} => ~Swap!Running(s_inst)
                           /\ s_st[a] \in {"record", "settle"} => Swap!Running(s_inst)

(* An adapter's callback is there from add_telemetry_callback to its       *)
(* remove_telemetry_callback.                                              *)
Callbacks == \A m \in Managers : \A a \in s_cbs[m] :
    s_mgr[a] = m /\ s_st[a] \in (Registered \cup {"add"}) \ {"remove"}

NoFaults == SwapFaults = {}
LeftInv == LockInv /\ Alone /\ Shared /\ Exact /\ Owned /\ Callbacks

LEMMA NextExact ==
    ASSUME SwapConstants, OwnModels, NoFaults, LeftInv, [Swap!Next]_Swap!vars
    PROVE  Exact'
  <1> USE DEF SwapConstants, OwnModels, NoFaults, LeftInv, LockInv, SwapTyped, Alone, Shared,
              Exact, Owned, Busy, Swap!Building, Swap!Ending, Registered, Leaving, Swap!Running,
              Swap!PortInUse, Swap!mem, Swap!locks, Swap!os, Swap!files
  <1>1. ASSUME NEW a \in Adapters, Swap!Construct(a) PROVE Exact'
    BY <1>1 DEF Swap!Construct, Swap!Goto
  <1>2. ASSUME NEW a \in Adapters, Swap!GetManager(a) PROVE Exact'
    BY <1>2 DEF Swap!GetManager, Swap!Goto
  <1>3. ASSUME NEW a \in Adapters, Swap!RegisterCallback(a) PROVE Exact'
    BY <1>3 DEF Swap!RegisterCallback, Swap!Goto, Swap!Free
  <1>4. ASSUME NEW a \in Adapters, Swap!AddModel(a) PROVE Exact'
    BY <1>4 DEF Swap!AddModel, Swap!Goto, Swap!Free, Swap!Take, Swap!Reload, Swap!Running
  <1>5. ASSUME NEW a \in Adapters, Swap!Reclaim(a) PROVE Exact'
    BY <1>5 DEF Swap!Reclaim, Swap!Goto, Swap!LooksLikeOurs
  <1>6. ASSUME NEW a \in Adapters, Swap!Spawn(a) PROVE Exact'
    BY <1>6 DEF Swap!Spawn, Swap!Goto, Swap!Raises, Swap!Release, Swap!PortInUse
  <1>7. ASSUME NEW a \in Adapters, Swap!RecordPid(a) PROVE Exact'
    BY <1>7 DEF Swap!RecordPid, Swap!Goto
  <1>8. ASSUME NEW a \in Adapters, Swap!Settle(a) PROVE Exact'
    BY <1>8 DEF Swap!Settle, Swap!Goto, Swap!Raises, Swap!Release, Swap!Running
  <1>9. ASSUME NEW a \in Adapters, Swap!Stop(a) PROVE Exact'
    BY <1>9 DEF Swap!Stop, Swap!Goto
  <1>10. ASSUME NEW a \in Adapters, Swap!Unregister(a) PROVE Exact'
    BY <1>10 DEF Swap!Unregister, Swap!Goto, Swap!Free
  <1>11. ASSUME NEW a \in Adapters, Swap!RemoveModel(a) PROVE Exact'
    BY <1>11 DEF Swap!RemoveModel, Swap!Goto, Swap!Free, Swap!Take, Swap!Reload, Swap!Running
  <1>12. ASSUME NEW a \in Adapters, Swap!StopEngine(a) PROVE Exact'
    BY <1>12 DEF Swap!StopEngine, Swap!Goto, Swap!Running
  <1>13. ASSUME NEW a \in Adapters, Swap!PopInstance(a) PROVE Exact'
    BY <1>13 DEF Swap!PopInstance, Swap!Goto, Swap!Release
  <1>14. ASSUME NEW a \in Adapters, Swap!Heartbeat(a) PROVE Exact'
    BY <1>14 DEF Swap!Heartbeat, Swap!Free, Swap!EnsureProxy, Swap!Running
  <1>15. ASSUME NEW p \in Pids, Swap!EngineDies(p) PROVE Exact'
    BY <1>15 DEF Swap!EngineDies
  <1>16. ASSUME NEW p \in Pids, Swap!PidTaken(p) PROVE Exact'
    BY <1>16 DEF Swap!PidTaken
  <1>17. CASE Swap!EngineReloads
    BY <1>17 DEF Swap!EngineReloads
  <1>18. CASE Swap!Crash
    BY <1>18 DEF Swap!Crash, Swap!FreshMemory
  <1>19. CASE UNCHANGED Swap!vars BY <1>19 DEF Swap!vars
  <1> QED BY <1>1, <1>2, <1>3, <1>4, <1>5, <1>6, <1>7, <1>8, <1>9, <1>10,
             <1>11, <1>12, <1>13, <1>14, <1>15, <1>16, <1>17, <1>18, <1>19
          DEF Swap!Next, Swap!Works

LEMMA NextOwned ==
    ASSUME SwapConstants, OwnModels, NoFaults, LeftInv, [Swap!Next]_Swap!vars
    PROVE  Owned'
  <1> USE DEF SwapConstants, OwnModels, NoFaults, LeftInv, LockInv, SwapTyped, Alone, Shared,
              Exact, Owned, Busy, Swap!Building, Swap!Ending, Registered, Leaving, Swap!Running,
              Swap!PortInUse, Swap!mem, Swap!locks, Swap!os, Swap!files
  <1>1. ASSUME NEW a \in Adapters, Swap!Construct(a) PROVE Owned'
    BY <1>1 DEF Swap!Construct, Swap!Goto
  <1>2. ASSUME NEW a \in Adapters, Swap!GetManager(a) PROVE Owned'
    BY <1>2 DEF Swap!GetManager, Swap!Goto
  <1>3. ASSUME NEW a \in Adapters, Swap!RegisterCallback(a) PROVE Owned'
    BY <1>3 DEF Swap!RegisterCallback, Swap!Goto, Swap!Free
  <1>4. ASSUME NEW a \in Adapters, Swap!AddModel(a) PROVE Owned'
    BY <1>4 DEF Swap!AddModel, Swap!Goto, Swap!Free, Swap!Take, Swap!Reload, Swap!Running
  <1>5. ASSUME NEW a \in Adapters, Swap!Reclaim(a) PROVE Owned'
    BY <1>5 DEF Swap!Reclaim, Swap!Goto, Swap!LooksLikeOurs
  <1>6. ASSUME NEW a \in Adapters, Swap!Spawn(a) PROVE Owned'
    BY <1>6 DEF Swap!Spawn, Swap!Goto, Swap!Raises, Swap!Release, Swap!PortInUse
  <1>7. ASSUME NEW a \in Adapters, Swap!RecordPid(a) PROVE Owned'
    BY <1>7 DEF Swap!RecordPid, Swap!Goto
  <1>8. ASSUME NEW a \in Adapters, Swap!Settle(a) PROVE Owned'
    BY <1>8 DEF Swap!Settle, Swap!Goto, Swap!Raises, Swap!Release, Swap!Running
  <1>9. ASSUME NEW a \in Adapters, Swap!Stop(a) PROVE Owned'
    BY <1>9 DEF Swap!Stop, Swap!Goto
  <1>10. ASSUME NEW a \in Adapters, Swap!Unregister(a) PROVE Owned'
    BY <1>10 DEF Swap!Unregister, Swap!Goto, Swap!Free
  <1>11. ASSUME NEW a \in Adapters, Swap!RemoveModel(a) PROVE Owned'
    BY <1>11 DEF Swap!RemoveModel, Swap!Goto, Swap!Free, Swap!Take, Swap!Reload, Swap!Running
  <1>12. ASSUME NEW a \in Adapters, Swap!StopEngine(a) PROVE Owned'
    BY <1>12 DEF Swap!StopEngine, Swap!Goto, Swap!Running
  <1>13. ASSUME NEW a \in Adapters, Swap!PopInstance(a) PROVE Owned'
    BY <1>13 DEF Swap!PopInstance, Swap!Goto, Swap!Release
  <1>14. ASSUME NEW a \in Adapters, Swap!Heartbeat(a) PROVE Owned'
    BY <1>14 DEF Swap!Heartbeat, Swap!Free, Swap!EnsureProxy, Swap!Running
  <1>15. ASSUME NEW p \in Pids, Swap!EngineDies(p) PROVE Owned'
    BY <1>15 DEF Swap!EngineDies
  <1>16. ASSUME NEW p \in Pids, Swap!PidTaken(p) PROVE Owned'
    BY <1>16 DEF Swap!PidTaken
  <1>17. CASE Swap!EngineReloads
    BY <1>17 DEF Swap!EngineReloads
  <1>18. CASE Swap!Crash
    BY <1>18 DEF Swap!Crash, Swap!FreshMemory
  <1>19. CASE UNCHANGED Swap!vars BY <1>19 DEF Swap!vars
  <1> QED BY <1>1, <1>2, <1>3, <1>4, <1>5, <1>6, <1>7, <1>8, <1>9, <1>10,
             <1>11, <1>12, <1>13, <1>14, <1>15, <1>16, <1>17, <1>18, <1>19
          DEF Swap!Next, Swap!Works

LEMMA NextCallbacks ==
    ASSUME SwapConstants, NoFaults, LeftInv, [Swap!Next]_Swap!vars
    PROVE  Callbacks'
  <1> USE DEF SwapConstants, NoFaults, LeftInv, LockInv, SwapTyped, Alone, Shared, Owned,
              Callbacks, Busy, Swap!Building, Swap!Ending, Registered, Leaving, Swap!Running,
              Swap!PortInUse, Swap!mem, Swap!locks, Swap!os, Swap!files
  <1>1. ASSUME NEW a \in Adapters, Swap!Construct(a) PROVE Callbacks'
    BY <1>1 DEF Swap!Construct, Swap!Goto
  <1>2. ASSUME NEW a \in Adapters, Swap!GetManager(a) PROVE Callbacks'
    BY <1>2 DEF Swap!GetManager, Swap!Goto
  <1>3. ASSUME NEW a \in Adapters, Swap!RegisterCallback(a) PROVE Callbacks'
    BY <1>3 DEF Swap!RegisterCallback, Swap!Goto, Swap!Free
  <1>4. ASSUME NEW a \in Adapters, Swap!AddModel(a) PROVE Callbacks'
    BY <1>4 DEF Swap!AddModel, Swap!Goto, Swap!Free, Swap!Take, Swap!Reload, Swap!Running
  <1>5. ASSUME NEW a \in Adapters, Swap!Reclaim(a) PROVE Callbacks'
    BY <1>5 DEF Swap!Reclaim, Swap!Goto, Swap!LooksLikeOurs
  <1>6. ASSUME NEW a \in Adapters, Swap!Spawn(a) PROVE Callbacks'
    BY <1>6 DEF Swap!Spawn, Swap!Goto, Swap!Raises, Swap!Release, Swap!PortInUse
  <1>7. ASSUME NEW a \in Adapters, Swap!RecordPid(a) PROVE Callbacks'
    BY <1>7 DEF Swap!RecordPid, Swap!Goto
  <1>8. ASSUME NEW a \in Adapters, Swap!Settle(a) PROVE Callbacks'
    BY <1>8 DEF Swap!Settle, Swap!Goto, Swap!Raises, Swap!Release, Swap!Running
  <1>9. ASSUME NEW a \in Adapters, Swap!Stop(a) PROVE Callbacks'
    BY <1>9 DEF Swap!Stop, Swap!Goto
  <1>10. ASSUME NEW a \in Adapters, Swap!Unregister(a) PROVE Callbacks'
    BY <1>10 DEF Swap!Unregister, Swap!Goto, Swap!Free
  <1>11. ASSUME NEW a \in Adapters, Swap!RemoveModel(a) PROVE Callbacks'
    BY <1>11 DEF Swap!RemoveModel, Swap!Goto, Swap!Free, Swap!Take, Swap!Reload, Swap!Running
  <1>12. ASSUME NEW a \in Adapters, Swap!StopEngine(a) PROVE Callbacks'
    BY <1>12 DEF Swap!StopEngine, Swap!Goto, Swap!Running
  <1>13. ASSUME NEW a \in Adapters, Swap!PopInstance(a) PROVE Callbacks'
    BY <1>13 DEF Swap!PopInstance, Swap!Goto, Swap!Release
  <1>14. ASSUME NEW a \in Adapters, Swap!Heartbeat(a) PROVE Callbacks'
    BY <1>14 DEF Swap!Heartbeat, Swap!Free, Swap!EnsureProxy, Swap!Running
  <1>15. ASSUME NEW p \in Pids, Swap!EngineDies(p) PROVE Callbacks'
    BY <1>15 DEF Swap!EngineDies
  <1>16. ASSUME NEW p \in Pids, Swap!PidTaken(p) PROVE Callbacks'
    BY <1>16 DEF Swap!PidTaken
  <1>17. CASE Swap!EngineReloads
    BY <1>17 DEF Swap!EngineReloads
  <1>18. CASE Swap!Crash
    BY <1>18 DEF Swap!Crash, Swap!FreshMemory
  <1>19. CASE UNCHANGED Swap!vars BY <1>19 DEF Swap!vars
  <1> QED BY <1>1, <1>2, <1>3, <1>4, <1>5, <1>6, <1>7, <1>8, <1>9, <1>10,
             <1>11, <1>12, <1>13, <1>14, <1>15, <1>16, <1>17, <1>18, <1>19
          DEF Swap!Next, Swap!Works

(* remove_telemetry_callback, remove_model: without faults, adapters that  *)
(* went off leave no callback behind, and the last of them no engine.      *)
THEOREM NothingLeftSafe ==
    ASSUME SwapConstants, OwnModels, NoFaults PROVE Swap!Spec => []Swap!NothingLeft
  <1>1. Swap!Init => LeftInv
    <2> SUFFICES ASSUME Swap!Init PROVE LeftInv
      OBVIOUS
    <2>1. LockInv BY InitSwap DEF LockInv
    <2>2. Alone /\ Shared
      BY DEF Swap!Init, Swap!FreshMemory, Alone, Shared, Busy, Swap!Building, Swap!Ending,
             Registered, Leaving
    <2>3. Exact /\ Owned /\ Callbacks
      BY DEF Swap!Init, Swap!FreshMemory, Exact, Owned, Callbacks
    <2> QED BY <2>1, <2>2, <2>3 DEF LeftInv
  <1>2. LeftInv /\ [Swap!Next]_Swap!vars => LeftInv'
    <2> SUFFICES ASSUME LeftInv, [Swap!Next]_Swap!vars PROVE LeftInv'
      OBVIOUS
    <2>1. NoOverlap BY DEF NoFaults, NoOverlap
    <2>2. LockInv' BY NextLockInv DEF LeftInv
    <2>3. Alone' BY <2>1, NextAlone DEF LeftInv, LockInv
    <2>4. Shared' BY NextShared DEF LeftInv, LockInv
    <2>5. Exact' /\ Owned' /\ Callbacks' BY NextExact, NextOwned, NextCallbacks
    <2> QED BY <2>2, <2>3, <2>4, <2>5 DEF LeftInv
  <1>3. LeftInv => Swap!NothingLeft
    <2> SUFFICES ASSUME LeftInv, Swap!Quiet, NEW m \in Managers
                 PROVE  /\ \A a \in s_cbs[m] : s_st[a] = "on"
                        /\ Swap!Serving = {} => ~Swap!Running(m)
      BY DEF Swap!NothingLeft
    <2>1. \A a \in Adapters : s_st[a] \in {"off", "on"} BY DEF Swap!Quiet
    <2>2. \A a \in s_cbs[m] : a \in Adapters /\ s_st[a] = "on"
      BY <2>1 DEF LeftInv, LockInv, SwapTyped, Callbacks, Registered
    <2>3. ASSUME Swap!Serving = {}, Swap!Running(m) PROVE FALSE
      <3>1. \A a \in Adapters : s_st[a] = "off" BY <2>1, <2>3 DEF Swap!Serving
      <3>2. s_proc[m] \in Pids /\ s_procs[s_proc[m]] = "swap"
        BY <2>3 DEF LeftInv, LockInv, SwapTyped, Swap!Running
      <3> QED BY <3>1, <3>2 DEF LeftInv, Owned, Registered
    <2> QED BY <2>2, <2>3
  <1> QED BY <1>1, <1>2, <1>3, PTL DEF Swap!Spec

---------------------------------------------------------------------------
(* The single-model engine.  Nobody calls stop() before the engine was     *)
(* launched; a caller that is past the termination left it dead; and a     *)
(* server whose flag is down, at which a second caller turns back, has no  *)
(* engine that runs.                                                       *)
Gone == {"none", "dead"}
LlamaInv ==
    /\ Llama!TypeOK
    /\ ~e_running => e_proc \in Gone
    /\ \A c \in Llama!Callers :
        /\ e_pipe = "new" => e_stop[c] = "idle"
        /\ e_stop[c] \in {"flag", "returned"} => e_proc \in Gone
        /\ e_stop[c] \in {"terminate", "flag"} => e_proc # "none"
    /\ e_pipe = "new" => e_proc = "none"

LEMMA InitLlamaInv == Llama!Init => LlamaInv
  <1> SUFFICES ASSUME Llama!Init PROVE LlamaInv
    OBVIOUS
  <1> USE DEF Llama!Init, Llama!Callers, Gone
  <1>1. e_stop \in [Llama!Callers -> {"idle", "begin", "terminate", "flag", "returned"}]
    OBVIOUS
  <1>2. e_running = FALSE /\ e_ready = FALSE /\ e_stopEvent = FALSE /\ e_active = TRUE
    OBVIOUS
  <1>3. e_proc = "none" /\ e_watch = "none" /\ e_thread = "none" /\ e_queue \in 0 .. 1
        /\ e_pipe = "new"
    OBVIOUS
  <1>4. Llama!TypeOK BY <1>1, <1>2, <1>3 DEF Llama!TypeOK
  <1> QED BY <1>4 DEF LlamaInv

(* One caller of stop() goes on; the other stays where it was.             *)
LEMMA LlamaStopGoes ==
    ASSUME Llama!TypeOK, NEW c \in Llama!Callers, NEW from, NEW to,
           Llama!StopGoes(c, from, to), to \in {"terminate", "flag", "returned"}
    PROVE  /\ e_stop[c] = from
           /\ e_stop' \in [Llama!Callers -> {"idle", "begin", "terminate", "flag", "returned"}]
           /\ \A d \in Llama!Callers : e_stop'[d] = IF d = c THEN to ELSE e_stop[d]
  <1>1. e_stop \in [Llama!Callers -> {"idle", "begin", "terminate", "flag", "returned"}]
    BY DEF Llama!TypeOK
  <1>2. e_stop[c] = from /\ e_stop' = [e_stop EXCEPT ![c] = to] BY DEF Llama!StopGoes
  <1> HIDE DEF Llama!Callers
  <1> QED BY ONLY <1>1, <1>2, c \in Llama!Callers, to \in {"terminate", "flag", "returned"}

LEMMA LlamaStopStep ==
    ASSUME LlamaInv, NEW c \in Llama!Callers, Llama!StopStep(c) PROVE LlamaInv'
  <1> USE DEF LlamaInv, Gone
  <1>0. Llama!TypeOK OBVIOUS
  <1>1. CASE ~e_running /\ Llama!StopBegins(c)
    <2>1. Llama!StopGoes(c, "begin", "returned") BY <1>1 DEF Llama!StopBegins
    <2>2. UNCHANGED <<e_running, e_ready, e_stopEvent, e_proc, e_watch, e_active, e_thread,
                      e_queue, e_pipe>>
      BY <1>1 DEF Llama!StopBegins
    <2>3. /\ e_stop[c] = "begin"
          /\ e_stop' \in [Llama!Callers -> {"idle", "begin", "terminate", "flag", "returned"}]
          /\ \A d \in Llama!Callers : e_stop'[d] = IF d = c THEN "returned" ELSE e_stop[d]
      BY ONLY <1>0, <2>1, c \in Llama!Callers, LlamaStopGoes
    <2>4. Llama!TypeOK' BY <1>0, <2>2, <2>3 DEF Llama!TypeOK
    <2> QED BY <1>1, <2>2, <2>3, <2>4
  <1>2. CASE e_running /\ Llama!StopBegins(c)
    <2>1. Llama!StopGoes(c, "begin", "terminate") BY <1>2 DEF Llama!StopBegins
    <2>2. UNCHANGED <<e_running, e_proc, e_watch, e_active, e_thread, e_queue, e_pipe>>
      BY <1>2 DEF Llama!StopBegins
    <2>3. /\ e_stop[c] = "begin"
          /\ e_stop' \in [Llama!Callers -> {"idle", "begin", "terminate", "flag", "returned"}]
          /\ \A d \in Llama!Callers : e_stop'[d] = IF d = c THEN "terminate" ELSE e_stop[d]
      BY ONLY <1>0, <2>1, c \in Llama!Callers, LlamaStopGoes
    <2>4. e_ready' \in BOOLEAN /\ e_stopEvent' \in BOOLEAN BY <1>2 DEF Llama!StopBegins
    <2>5. Llama!TypeOK' BY <1>0, <2>2, <2>3, <2>4 DEF Llama!TypeOK
    <2>6. e_proc # "none" BY <1>0, <1>2 DEF Llama!TypeOK
    <2> QED BY <1>2, <2>2, <2>3, <2>5, <2>6
  <1>3. CASE Llama!StopTerminates(c)
    <2>1. Llama!StopGoes(c, "terminate", "flag") BY <1>3 DEF Llama!StopTerminates
    <2>2. e_proc' = "dead" /\ UNCHANGED <<e_running, e_ready, e_stopEvent, e_watch, e_active,
                                           e_thread, e_queue, e_pipe>>
      BY <1>3 DEF Llama!StopTerminates, Llama!server
    <2>3. /\ e_stop[c] = "terminate"
          /\ e_stop' \in [Llama!Callers -> {"idle", "begin", "terminate", "flag", "returned"}]
          /\ \A d \in Llama!Callers : e_stop'[d] = IF d = c THEN "flag" ELSE e_stop[d]
      BY ONLY <1>0, <2>1, c \in Llama!Callers, LlamaStopGoes
    <2>4. e_pipe # "new" /\ e_proc # "none" BY <2>3
    <2>5. Llama!TypeOK' BY <1>0, <2>2, <2>3, <2>4 DEF Llama!TypeOK
    <2> QED BY <2>2, <2>3, <2>4, <2>5
  <1>4. CASE Llama!StopFlags(c)
    <2>1. Llama!StopGoes(c, "flag", "returned") BY <1>4 DEF Llama!StopFlags
    <2>2. UNCHANGED <<e_ready, e_stopEvent, e_proc, e_watch, e_active, e_thread, e_queue, e_pipe>>
      BY <1>4 DEF Llama!StopFlags
    <2>3. /\ e_stop[c] = "flag"
          /\ e_stop' \in [Llama!Callers -> {"idle", "begin", "terminate", "flag", "returned"}]
          /\ \A d \in Llama!Callers : e_stop'[d] = IF d = c THEN "returned" ELSE e_stop[d]
      BY ONLY <1>0, <2>1, c \in Llama!Callers, LlamaStopGoes
    <2>4. e_running' \in BOOLEAN /\ ~e_running' BY <1>4 DEF Llama!StopFlags
    <2>5. e_proc \in Gone BY <2>3
    <2>6. Llama!TypeOK' BY ONLY <1>0, <2>2, <2>3, <2>4 DEF Llama!TypeOK
    <2> QED BY <2>2, <2>3, <2>5, <2>6
  <1> HIDE DEF LlamaInv
  <1> QED BY <1>1, <1>2, <1>3, <1>4 DEF Llama!StopStep

LEMMA NextLlamaInv == LlamaInv /\ [Llama!Next]_Llama!vars => LlamaInv'
  <1> SUFFICES ASSUME LlamaInv, [Llama!Next]_Llama!vars PROVE LlamaInv'
    OBVIOUS
  <1> USE DEF LlamaInv, Llama!TypeOK, Llama!Callers, Gone, Llama!server
  <1>1. CASE Llama!Launch BY <1>1 DEF Llama!Launch, Llama!BeginThread
  <1>2. CASE Llama!StartGivesUp BY <1>2 DEF Llama!StartGivesUp, Llama!BeginThread
  <1>3. CASE Llama!NoBinary BY <1>3 DEF Llama!NoBinary
  <1>4. CASE Llama!EngineLoads BY <1>4 DEF Llama!EngineLoads
  <1>5. CASE Llama!EngineExits BY <1>5 DEF Llama!EngineExits
  <1>6. CASE Llama!WaitForHealth BY <1>6 DEF Llama!WaitForHealth
  <1>7. CASE Llama!WatcherReady BY <1>7 DEF Llama!WatcherReady
  <1>8. CASE Llama!WatcherFails BY <1>8 DEF Llama!WatcherFails
  <1>9. ASSUME NEW c \in Llama!Callers, Llama!StopStep(c) PROVE LlamaInv'
    BY <1>9, LlamaStopStep
  <1>10. CASE Llama!Heartbeat BY <1>10 DEF Llama!Heartbeat
  <1>11. CASE Llama!WaitUntilReady BY <1>11 DEF Llama!WaitUntilReady
  <1>12. CASE Llama!Transcribe BY <1>12 DEF Llama!Transcribe
  <1>13. CASE Llama!Result BY <1>13 DEF Llama!Result
  <1>14. CASE Llama!Empty BY <1>14 DEF Llama!Empty
  <1>15. CASE Llama!Exhausted BY <1>15 DEF Llama!Exhausted
  <1>16. CASE Llama!Teardown BY <1>16, ZenonT(30) DEF Llama!Teardown
  <1>17. CASE UNCHANGED Llama!vars BY <1>17 DEF Llama!vars
  <1> QED BY <1>1, <1>2, <1>3, <1>4, <1>5, <1>6, <1>7, <1>8, <1>9, <1>10, <1>11, <1>12, <1>13,
             <1>14, <1>15, <1>16, <1>17
          DEF Llama!Next, Llama!Watcher, Llama!OwnThread

(* ModelServer.stop and WhisperServer.stop: a teardown that returned left  *)
(* no engine behind, whichever of the pipeline and the health watcher came *)
(* first and however far the start was; and the engine's state keeps its   *)
(* types.                                                                  *)
THEOREM LlamaStoppedSafe == Llama!Spec => [](Llama!TypeOK /\ Llama!EngineStopped)
  <1>1. LlamaInv => Llama!TypeOK /\ Llama!EngineStopped
    BY DEF LlamaInv, Llama!EngineStopped, Llama!Callers, Gone
  <1> QED BY <1>1, InitLlamaInv, NextLlamaInv, PTL DEF Llama!Spec

(* The same of the transcriber's engine.                                    *)
WhisperInv ==
    /\ Whisper!TypeOK
    /\ ~w_running => w_proc \in Gone
    /\ \A c \in Whisper!Callers :
        /\ w_pipe = "new" => w_stop[c] = "idle"
        /\ w_stop[c] \in {"flag", "returned"} => w_proc \in Gone
        /\ w_stop[c] \in {"terminate", "flag"} => w_proc # "none"
    /\ w_pipe = "new" => w_proc = "none"

LEMMA InitWhisperInv == Whisper!Init => WhisperInv
  <1> SUFFICES ASSUME Whisper!Init PROVE WhisperInv
    OBVIOUS
  <1> USE DEF Whisper!Init, Whisper!Callers, Gone
  <1>1. w_stop \in [Whisper!Callers -> {"idle", "begin", "terminate", "flag", "returned"}]
    OBVIOUS
  <1>2. w_running = FALSE /\ w_ready = FALSE /\ w_stopEvent = FALSE /\ w_active = TRUE
    OBVIOUS
  <1>3. w_proc = "none" /\ w_watch = "none" /\ w_thread = "none" /\ w_queue \in 0 .. 1
        /\ w_pipe = "new"
    OBVIOUS
  <1>4. Whisper!TypeOK BY <1>1, <1>2, <1>3 DEF Whisper!TypeOK
  <1> QED BY <1>4 DEF WhisperInv

LEMMA WhisperStopGoes ==
    ASSUME Whisper!TypeOK, NEW c \in Whisper!Callers, NEW from, NEW to,
           Whisper!StopGoes(c, from, to), to \in {"terminate", "flag", "returned"}
    PROVE  /\ w_stop[c] = from
           /\ w_stop' \in [Whisper!Callers -> {"idle", "begin", "terminate", "flag", "returned"}]
           /\ \A d \in Whisper!Callers : w_stop'[d] = IF d = c THEN to ELSE w_stop[d]
  <1>1. w_stop \in [Whisper!Callers -> {"idle", "begin", "terminate", "flag", "returned"}]
    BY DEF Whisper!TypeOK
  <1>2. w_stop[c] = from /\ w_stop' = [w_stop EXCEPT ![c] = to] BY DEF Whisper!StopGoes
  <1> HIDE DEF Whisper!Callers
  <1> QED BY ONLY <1>1, <1>2, c \in Whisper!Callers, to \in {"terminate", "flag", "returned"}

LEMMA WhisperStopStep ==
    ASSUME WhisperInv, NEW c \in Whisper!Callers, Whisper!StopStep(c) PROVE WhisperInv'
  <1> USE DEF WhisperInv, Gone
  <1>0. Whisper!TypeOK OBVIOUS
  <1>1. CASE ~w_running /\ Whisper!StopBegins(c)
    <2>1. Whisper!StopGoes(c, "begin", "returned") BY <1>1 DEF Whisper!StopBegins
    <2>2. UNCHANGED <<w_running, w_ready, w_stopEvent, w_proc, w_watch, w_active, w_thread,
                      w_queue, w_pipe>>
      BY <1>1 DEF Whisper!StopBegins
    <2>3. /\ w_stop[c] = "begin"
          /\ w_stop' \in [Whisper!Callers -> {"idle", "begin", "terminate", "flag", "returned"}]
          /\ \A d \in Whisper!Callers : w_stop'[d] = IF d = c THEN "returned" ELSE w_stop[d]
      BY ONLY <1>0, <2>1, c \in Whisper!Callers, WhisperStopGoes
    <2>4. Whisper!TypeOK' BY <1>0, <2>2, <2>3 DEF Whisper!TypeOK
    <2> QED BY <1>1, <2>2, <2>3, <2>4
  <1>2. CASE w_running /\ Whisper!StopBegins(c)
    <2>1. Whisper!StopGoes(c, "begin", "terminate") BY <1>2 DEF Whisper!StopBegins
    <2>2. UNCHANGED <<w_running, w_proc, w_watch, w_active, w_thread, w_queue, w_pipe>>
      BY <1>2 DEF Whisper!StopBegins
    <2>3. /\ w_stop[c] = "begin"
          /\ w_stop' \in [Whisper!Callers -> {"idle", "begin", "terminate", "flag", "returned"}]
          /\ \A d \in Whisper!Callers : w_stop'[d] = IF d = c THEN "terminate" ELSE w_stop[d]
      BY ONLY <1>0, <2>1, c \in Whisper!Callers, WhisperStopGoes
    <2>4. w_ready' \in BOOLEAN /\ w_stopEvent' \in BOOLEAN BY <1>2 DEF Whisper!StopBegins
    <2>5. Whisper!TypeOK' BY <1>0, <2>2, <2>3, <2>4 DEF Whisper!TypeOK
    <2>6. w_proc # "none" BY <1>0, <1>2 DEF Whisper!TypeOK
    <2> QED BY <1>2, <2>2, <2>3, <2>5, <2>6
  <1>3. CASE Whisper!StopTerminates(c)
    <2>1. Whisper!StopGoes(c, "terminate", "flag") BY <1>3 DEF Whisper!StopTerminates
    <2>2. w_proc' = "dead" /\ UNCHANGED <<w_running, w_ready, w_stopEvent, w_watch, w_active,
                                           w_thread, w_queue, w_pipe>>
      BY <1>3 DEF Whisper!StopTerminates, Whisper!server
    <2>3. /\ w_stop[c] = "terminate"
          /\ w_stop' \in [Whisper!Callers -> {"idle", "begin", "terminate", "flag", "returned"}]
          /\ \A d \in Whisper!Callers : w_stop'[d] = IF d = c THEN "flag" ELSE w_stop[d]
      BY ONLY <1>0, <2>1, c \in Whisper!Callers, WhisperStopGoes
    <2>4. w_pipe # "new" /\ w_proc # "none" BY <2>3
    <2>5. Whisper!TypeOK' BY <1>0, <2>2, <2>3, <2>4 DEF Whisper!TypeOK
    <2> QED BY <2>2, <2>3, <2>4, <2>5
  <1>4. CASE Whisper!StopFlags(c)
    <2>1. Whisper!StopGoes(c, "flag", "returned") BY <1>4 DEF Whisper!StopFlags
    <2>2. UNCHANGED <<w_ready, w_stopEvent, w_proc, w_watch, w_active, w_thread, w_queue, w_pipe>>
      BY <1>4 DEF Whisper!StopFlags
    <2>3. /\ w_stop[c] = "flag"
          /\ w_stop' \in [Whisper!Callers -> {"idle", "begin", "terminate", "flag", "returned"}]
          /\ \A d \in Whisper!Callers : w_stop'[d] = IF d = c THEN "returned" ELSE w_stop[d]
      BY ONLY <1>0, <2>1, c \in Whisper!Callers, WhisperStopGoes
    <2>4. w_running' \in BOOLEAN /\ ~w_running' BY <1>4 DEF Whisper!StopFlags
    <2>5. w_proc \in Gone BY <2>3
    <2>6. Whisper!TypeOK' BY ONLY <1>0, <2>2, <2>3, <2>4 DEF Whisper!TypeOK
    <2> QED BY <2>2, <2>3, <2>5, <2>6
  <1> HIDE DEF WhisperInv
  <1> QED BY <1>1, <1>2, <1>3, <1>4 DEF Whisper!StopStep

LEMMA NextWhisperInv == WhisperInv /\ [Whisper!Next]_Whisper!vars => WhisperInv'
  <1> SUFFICES ASSUME WhisperInv, [Whisper!Next]_Whisper!vars PROVE WhisperInv'
    OBVIOUS
  <1> USE DEF WhisperInv, Whisper!TypeOK, Whisper!Callers, Gone, Whisper!server
  <1>1. CASE Whisper!Launch BY <1>1 DEF Whisper!Launch, Whisper!BeginThread
  <1>2. CASE Whisper!StartGivesUp BY <1>2 DEF Whisper!StartGivesUp, Whisper!BeginThread
  <1>3. CASE Whisper!NoBinary BY <1>3 DEF Whisper!NoBinary
  <1>4. CASE Whisper!EngineLoads BY <1>4 DEF Whisper!EngineLoads
  <1>5. CASE Whisper!EngineExits BY <1>5 DEF Whisper!EngineExits
  <1>6. CASE Whisper!WaitForHealth BY <1>6 DEF Whisper!WaitForHealth
  <1>7. CASE Whisper!WatcherReady BY <1>7 DEF Whisper!WatcherReady
  <1>8. CASE Whisper!WatcherFails BY <1>8 DEF Whisper!WatcherFails
  <1>9. ASSUME NEW c \in Whisper!Callers, Whisper!StopStep(c) PROVE WhisperInv'
    BY <1>9, WhisperStopStep
  <1>10. CASE Whisper!Heartbeat BY <1>10 DEF Whisper!Heartbeat
  <1>11. CASE Whisper!WaitUntilReady BY <1>11 DEF Whisper!WaitUntilReady
  <1>12. CASE Whisper!Transcribe BY <1>12 DEF Whisper!Transcribe
  <1>13. CASE Whisper!Result BY <1>13 DEF Whisper!Result
  <1>14. CASE Whisper!Empty BY <1>14 DEF Whisper!Empty
  <1>15. CASE Whisper!Exhausted BY <1>15 DEF Whisper!Exhausted
  <1>16. CASE Whisper!Teardown BY <1>16, ZenonT(30) DEF Whisper!Teardown
  <1>17. CASE UNCHANGED Whisper!vars BY <1>17 DEF Whisper!vars
  <1> QED BY <1>1, <1>2, <1>3, <1>4, <1>5, <1>6, <1>7, <1>8, <1>9, <1>10, <1>11, <1>12, <1>13,
             <1>14, <1>15, <1>16, <1>17
          DEF Whisper!Next, Whisper!Watcher, Whisper!OwnThread

(* ModelServer.stop and WhisperServer.stop: a teardown that returned left  *)
(* no engine behind, whichever of the pipeline and the health watcher came *)
(* first and however far the start was; and the engine's state keeps its   *)
(* types.                                                                  *)
THEOREM WhisperStoppedSafe == Whisper!Spec => [](Whisper!TypeOK /\ Whisper!EngineStopped)
  <1>1. WhisperInv => Whisper!TypeOK /\ Whisper!EngineStopped
    BY DEF WhisperInv, Whisper!EngineStopped, Whisper!Callers, Gone
  <1> QED BY <1>1, InitWhisperInv, NextWhisperInv, PTL DEF Whisper!Spec

(* stop of the adapters: NoEngineLeft holds throughout, for both plugins   *)
(* and every mode of the single-model engines, and for the engine that     *)
(* adapters share where nothing fails.                                     *)
THEOREM NoEngineLeftSafe ==
    ASSUME SwapConstants, OwnModels, NoFaults
    PROVE  Llama!Spec /\ Whisper!Spec /\ Swap!Spec => []NoEngineLeft
  BY LlamaStoppedSafe, WhisperStoppedSafe, NothingLeftSafe, PTL DEF NoEngineLeft

---------------------------------------------------------------------------
(* The part of the state that start, stop and a foreign listener share.    *)
Ports ==
    /\ p_made \in 0 .. MaxStarts /\ p_server \in 0 .. p_made
    /\ p_listen \in (0 .. p_made) \cup {Proxy!Other} /\ p_call \in {"idle", "bind", "close"}
    /\ p_call = "bind" => p_server = Proxy!None /\ p_made < MaxStarts

PortInv == Ports /\ StartedListens

(* start and stop run one after the other under the lock; whoever takes    *)
(* the port takes it while no server of ours is bound.                     *)
LEMMA NextPortInv == PortInv /\ [Proxy!Next]_Proxy!vars => PortInv'
  <1> SUFFICES ASSUME PortInv, [Proxy!Next]_Proxy!vars PROVE PortInv'
    OBVIOUS
  <1> USE ProxyAssumption
      DEF PortInv, Ports, StartedListens, Proxy!StartedListens, Proxy!None, Proxy!Other
  <1>1. CASE Proxy!Start BY <1>1 DEF Proxy!Start
  <1>2. CASE Proxy!Bind BY <1>2 DEF Proxy!Bind
  <1>3. CASE Proxy!Stop BY <1>3 DEF Proxy!Stop
  <1>4. CASE Proxy!ServerClose BY <1>4 DEF Proxy!ServerClose
  <1>5. CASE Proxy!OtherListens BY <1>5 DEF Proxy!OtherListens
  <1>6. ASSUME NEW q \in Requests,
               \/ Proxy!Connect(q) \/ Proxy!Leave(q) \/ Proxy!Accept(q)
               \/ Proxy!Handle(q) \/ Proxy!StreamEnds(q) \/ Proxy!Fire(q)
        PROVE  PortInv'
    <2>1. UNCHANGED Proxy!proxyVars
      BY <1>6 DEF Proxy!Connect, Proxy!Leave, Proxy!Accept, Proxy!Handle, Proxy!Simple,
                  Proxy!UpstreamFails, Proxy!Get, Proxy!Reply, Proxy!Post, Proxy!Headers,
                  Proxy!Hangup, Proxy!CloseUpstream, Proxy!StreamEnds, Proxy!Fire
    <2> QED BY <2>1 DEF Proxy!proxyVars
  <1>7. CASE UNCHANGED Proxy!vars BY <1>7 DEF Proxy!vars
  <1> QED BY <1>1, <1>2, <1>3, <1>4, <1>5, <1>6, <1>7 DEF Proxy!Next

(* A proxy that is started listens on its port, whatever other programs    *)
(* take between the check and the bind.                                    *)
THEOREM StartedProxyListens == Proxy!Spec => []StartedListens
  <1>1. Proxy!Init => PortInv
    BY ProxyAssumption DEF Proxy!Init, PortInv, Ports, StartedListens, Proxy!StartedListens,
                           Proxy!None, Proxy!Other
  <1>2. Proxy!Spec => []PortInv
    BY <1>1, NextPortInv, PTL DEF Proxy!Spec
  <1> QED BY <1>2, PTL DEF PortInv

---------------------------------------------------------------------------
States == {"new", "connect", "done"} \cup Proxy!Serving
Early == {"new", "connect", "route", "reply"}

(* What a handler knows at each of its steps: before the upstream answered *)
(* there is no inference, before the headers no answer, before the last    *)
(* step no record.                                                         *)
HandlerState(q) ==
    /\ p_req[q] \in Early => q \notin p_inferred
    /\ p_req[q] = "reply" => p_route[q] = "get"
    /\ p_req[q] \in {"headers", "stream", "close", "fire"} => p_route[q] = "post"
    /\ p_req[q] \in Early \cup {"headers"} => p_answer[q].code \notin {200, 500}
    /\ p_req[q] \in {"stream", "close", "fire"} => p_answer[q].code \in {200, 500}
    /\ p_req[q] # "done" => p_records[q] = 0

RecordInv ==
    /\ p_req \in [Requests -> States] /\ p_records \in [Requests -> Nat]
    /\ p_inferred \subseteq Requests /\ DOMAIN p_answer = Requests
    /\ \A q \in Requests : HandlerState(q)
    /\ OneRecordPerStream

LEMMA InitRecordInv == Proxy!Init => RecordInv
  BY DEF Proxy!Init, RecordInv, HandlerState, OneRecordPerStream, Proxy!OneRecordPerStream,
         States, Early, Proxy!Serving, Proxy!NoAnswer, Proxy!Begun

(* A step of the handler of q leaves the other requests alone.             *)
LEMMA NextRecordInv == RecordInv /\ [Proxy!Next]_Proxy!vars => RecordInv'
  <1> SUFFICES ASSUME RecordInv, [Proxy!Next]_Proxy!vars PROVE RecordInv'
    OBVIOUS
  <1> USE DEF RecordInv, HandlerState, OneRecordPerStream, Proxy!OneRecordPerStream, States,
              Early, Proxy!Serving, Proxy!Begun, Proxy!asked
  <1>1. CASE Proxy!Start BY <1>1 DEF Proxy!Start
  <1>2. CASE Proxy!Bind BY <1>2 DEF Proxy!Bind
  <1>3. CASE Proxy!Stop BY <1>3 DEF Proxy!Stop
  <1>4. CASE Proxy!ServerClose BY <1>4 DEF Proxy!ServerClose, Proxy!Reset
  <1>5. CASE Proxy!OtherListens BY <1>5 DEF Proxy!OtherListens
  <1>6. ASSUME NEW q \in Requests, Proxy!Connect(q) PROVE RecordInv' BY <1>6 DEF Proxy!Connect
  <1>7. ASSUME NEW q \in Requests, Proxy!Leave(q) PROVE RecordInv' BY <1>7 DEF Proxy!Leave
  <1>8. ASSUME NEW q \in Requests, Proxy!Accept(q) PROVE RecordInv' BY <1>8 DEF Proxy!Accept
  <1>9. ASSUME NEW q \in Requests, Proxy!Simple(q) PROVE RecordInv'
    BY <1>9 DEF Proxy!Simple, Proxy!Answered, Proxy!Written
  <1>10. ASSUME NEW q \in Requests, Proxy!UpstreamFails(q) PROVE RecordInv'
    BY <1>10 DEF Proxy!UpstreamFails, Proxy!Answered, Proxy!Written
  <1>11. ASSUME NEW q \in Requests, Proxy!Get(q) PROVE RecordInv' BY <1>11 DEF Proxy!Get
  <1>12. ASSUME NEW q \in Requests, Proxy!Reply(q) PROVE RecordInv'
    BY <1>12 DEF Proxy!Reply, Proxy!Answered, Proxy!Written
  <1>13. ASSUME NEW q \in Requests, Proxy!Post(q) PROVE RecordInv' BY <1>13 DEF Proxy!Post
  <1>14. ASSUME NEW q \in Requests, Proxy!Headers(q) PROVE RecordInv'
    BY <1>14 DEF Proxy!Headers, Proxy!Written
  <1>15. ASSUME NEW q \in Requests, Proxy!Hangup(q) PROVE RecordInv' BY <1>15 DEF Proxy!Hangup
  <1>16. ASSUME NEW q \in Requests, Proxy!CloseUpstream(q) PROVE RecordInv'
    BY <1>16 DEF Proxy!CloseUpstream
  <1>17. ASSUME NEW q \in Requests, Proxy!StreamEnds(q) PROVE RecordInv'
    BY <1>17 DEF Proxy!StreamEnds
  <1>18. ASSUME NEW q \in Requests, Proxy!Fire(q) PROVE RecordInv' BY <1>18 DEF Proxy!Fire
  <1>19. CASE UNCHANGED Proxy!vars BY <1>19 DEF Proxy!vars
  <1> QED BY <1>1, <1>2, <1>3, <1>4, <1>5, <1>6, <1>7, <1>8, <1>9, <1>10, <1>11, <1>12, <1>13,
             <1>14, <1>15, <1>16, <1>17, <1>18, <1>19 DEF Proxy!Next, Proxy!Handle

(* Every chat request whose answer began fires exactly one record, also    *)
(* when its client hangs up or the proxy is stopped under it, and no other *)
(* request fires one.                                                      *)
THEOREM StreamFiresOnce == Proxy!Spec => []OneRecordPerStream
  <1>1. Proxy!Spec => []RecordInv
    BY InitRecordInv, NextRecordInv, PTL DEF Proxy!Spec
  <1> QED BY <1>1, PTL DEF RecordInv

---------------------------------------------------------------------------
Open == {"headers", "stream", "close"}

(* The upstream's slots: the open responses are those of the handlers that *)
(* will close them, and a slot is only taken while one is free; an error   *)
(* takes none.                                                             *)
SlotInv ==
    /\ p_client \in [Requests -> {"there", "gone"}]
    /\ p_up = {q \in Requests : p_req[q] \in Open}
    /\ IsFiniteSet(p_up \cap p_inferred) /\ Cardinality(p_up \cap p_inferred) <= Slots

LEMMA SameCardinality == ASSUME NEW S PROVE Proxy!Cardinality(S) = Cardinality(S)
  BY DEF Proxy!Cardinality, Cardinality

LEMMA InitSlotInv == Proxy!Init => SlotInv
  <1> SUFFICES ASSUME Proxy!Init PROVE SlotInv
    OBVIOUS
  <1>1. p_up = {q \in Requests : p_req[q] \in Open}
    BY DEF Proxy!Init, Open
  <1>2. IsFiniteSet(p_up \cap p_inferred) /\ Cardinality(p_up \cap p_inferred) <= Slots
    <2>1. p_up \cap p_inferred = {} BY DEF Proxy!Init
    <2> QED BY <2>1, FS_EmptySet, ProxyAssumption
  <1> QED BY <1>1, <1>2 DEF Proxy!Init, SlotInv

LEMMA NextSlotInv == RecordInv /\ SlotInv /\ [Proxy!Next]_Proxy!vars => SlotInv'
  <1> SUFFICES ASSUME RecordInv, SlotInv, [Proxy!Next]_Proxy!vars PROVE SlotInv'
    OBVIOUS
  <1>1. p_req \in [Requests -> States]
    BY DEF RecordInv
  <1>2. p_client' \in [Requests -> {"there", "gone"}]
    BY DEF SlotInv, Proxy!Next, Proxy!vars, Proxy!Start, Proxy!Bind, Proxy!Stop,
           Proxy!ServerClose, Proxy!OtherListens, Proxy!Connect, Proxy!Leave, Proxy!Accept,
           Proxy!Handle, Proxy!Simple, Proxy!UpstreamFails, Proxy!Get, Proxy!Reply, Proxy!Post,
           Proxy!Headers, Proxy!Hangup, Proxy!CloseUpstream, Proxy!StreamEnds, Proxy!Fire
  <1>3. p_up' = {q \in Requests : p_req'[q] \in Open}
    <2> USE <1>1 DEF SlotInv, Open
    <2>1. CASE Proxy!ServerClose BY <2>1 DEF Proxy!ServerClose, Proxy!Reset
    <2>2. ASSUME NEW q \in Requests, Proxy!Post(q)
          PROVE  p_up' = {r \in Requests : p_req'[r] \in Open}
      BY <2>2 DEF Proxy!Post
    <2>3. ASSUME NEW q \in Requests, Proxy!Headers(q)
          PROVE  p_up' = {r \in Requests : p_req'[r] \in Open}
      BY <2>3 DEF Proxy!Headers
    <2>4. ASSUME NEW q \in Requests, Proxy!CloseUpstream(q)
          PROVE  p_up' = {r \in Requests : p_req'[r] \in Open}
      BY <2>4 DEF Proxy!CloseUpstream
    <2>5. ASSUME NEW q \in Requests,
                 \/ Proxy!Connect(q) \/ Proxy!Leave(q) \/ Proxy!Accept(q)
                 \/ Proxy!Simple(q) \/ Proxy!UpstreamFails(q)
          PROVE  p_up' = {r \in Requests : p_req'[r] \in Open}
      BY <2>5 DEF Proxy!Connect, Proxy!Leave, Proxy!Accept, Proxy!Simple, Proxy!UpstreamFails
    <2>6. ASSUME NEW q \in Requests,
                 \/ Proxy!Get(q) \/ Proxy!Reply(q) \/ Proxy!Hangup(q)
                 \/ Proxy!StreamEnds(q) \/ Proxy!Fire(q)
          PROVE  p_up' = {r \in Requests : p_req'[r] \in Open}
      BY <2>6 DEF Proxy!Get, Proxy!Reply, Proxy!Hangup, Proxy!StreamEnds, Proxy!Fire
    <2>7. CASE Proxy!Start \/ Proxy!Bind \/ Proxy!Stop \/ Proxy!OtherListens \/ UNCHANGED Proxy!vars
      BY <2>7 DEF Proxy!Start, Proxy!Bind, Proxy!Stop, Proxy!OtherListens, Proxy!vars
    <2> QED BY <2>1, <2>2, <2>3, <2>4, <2>5, <2>6, <2>7 DEF Proxy!Next, Proxy!Handle
  <1> DEFINE U == p_up \cap p_inferred
             Taken(q) == U' = U \cup {q} /\ Cardinality(U) < Slots
  <1>4. \/ U' = U
        \/ \E q \in Requests : U' = U \ {q} \/ Taken(q)
    <2>1. CASE Proxy!Start \/ Proxy!Bind \/ Proxy!Stop \/ Proxy!ServerClose
      BY <2>1 DEF Proxy!Start, Proxy!Bind, Proxy!Stop, Proxy!ServerClose
    <2>2. CASE Proxy!OtherListens \/ UNCHANGED Proxy!vars
      BY <2>2 DEF Proxy!OtherListens, Proxy!vars
    <2>3. ASSUME NEW q \in Requests, Proxy!Post(q) PROVE U' = U \/ Taken(q)
      <3>1. q \notin p_inferred BY <2>3 DEF Proxy!Post, RecordInv, HandlerState, Early
      <3>2. CASE p_inferred' = p_inferred BY <2>3, <3>1, <3>2 DEF Proxy!Post
      <3>3. CASE p_inferred' = p_inferred \cup {q} /\ Proxy!Cardinality(U) < Slots
        BY <2>3, <3>1, <3>3, SameCardinality DEF Proxy!Post
      <3> QED BY <2>3, <3>2, <3>3 DEF Proxy!Post
    <2>4. ASSUME NEW q \in Requests, Proxy!Headers(q) PROVE U' = U \/ U' = U \ {q}
      BY <2>4 DEF Proxy!Headers
    <2>5. ASSUME NEW q \in Requests, Proxy!CloseUpstream(q) PROVE U' = U \ {q}
      BY <2>5 DEF Proxy!CloseUpstream
    <2>6. ASSUME NEW q \in Requests,
                 \/ Proxy!Connect(q) \/ Proxy!Leave(q) \/ Proxy!Accept(q) \/ Proxy!Simple(q)
                 \/ Proxy!UpstreamFails(q) \/ Proxy!Get(q) \/ Proxy!Reply(q)
                 \/ Proxy!Hangup(q) \/ Proxy!StreamEnds(q) \/ Proxy!Fire(q)
          PROVE  U' = U
      BY <2>6 DEF Proxy!Connect, Proxy!Leave, Proxy!Accept, Proxy!Simple, Proxy!UpstreamFails,
                  Proxy!Get, Proxy!Reply, Proxy!Hangup, Proxy!StreamEnds, Proxy!Fire
    <2> HIDE DEF Taken, U
    <2> QED BY <2>1, <2>2, <2>3, <2>4, <2>5, <2>6 DEF Proxy!Next, Proxy!Handle
  <1>5. IsFiniteSet(U') /\ Cardinality(U') <= Slots
    <2>1. /\ IsFiniteSet(U) /\ Cardinality(U) <= Slots
          /\ Cardinality(U) \in Nat /\ Slots \in Nat
      BY FS_CardinalityType, ProxyAssumption DEF SlotInv
    <2> HIDE DEF U
    <2>2. CASE U' = U BY <2>1, <2>2
    <2>3. ASSUME NEW q \in Requests, U' = U \ {q}
          PROVE  IsFiniteSet(U') /\ Cardinality(U') <= Slots
      <3>1. /\ IsFiniteSet(U \ {q})
            /\ Cardinality(U \ {q}) =
                 IF q \in U THEN Cardinality(U) - 1 ELSE Cardinality(U)
        BY <2>1, FS_RemoveElement
      <3> QED BY <2>1, <2>3, <3>1
    <2>4. ASSUME NEW q \in Requests, Taken(q)
          PROVE  IsFiniteSet(U') /\ Cardinality(U') <= Slots
      <3>1. /\ IsFiniteSet(U \cup {q})
            /\ Cardinality(U \cup {q}) =
                 IF q \in U THEN Cardinality(U) ELSE Cardinality(U) + 1
        BY <2>1, FS_AddElement
      <3> QED BY <2>1, <2>4, <3>1
    <2> QED BY <1>4, <2>2, <2>3, <2>4
  <1> QED BY <1>2, <1>3, <1>5 DEF SlotInv

(* The variables keep their types; in particular the proxy never holds     *)
(* more completions of the upstream open than it has slots for, and every  *)
(* response it holds belongs to a handler that is going to close it.       *)
THEOREM TypeCorrect == Proxy!Spec => []TypeOK
  <1>1. Proxy!Init => PortInv
    BY ProxyAssumption DEF Proxy!Init, PortInv, Ports, StartedListens, Proxy!StartedListens,
                           Proxy!None, Proxy!Other
  <1>2. PortInv /\ RecordInv /\ SlotInv => TypeOK
    <2> SUFFICES ASSUME PortInv, RecordInv, SlotInv PROVE TypeOK
      OBVIOUS
    <2>2. p_up = {q \in Requests : p_req[q] \in {"headers", "stream", "close"}}
      BY DEF SlotInv, Open
    <2>3. p_req \in [Requests -> {"new", "connect", "done"} \cup Proxy!Serving]
      BY DEF RecordInv, States
    <2>4. /\ p_server \in 0 .. p_made /\ p_listen \in (0 .. p_made) \cup {Proxy!Other}
          /\ p_made \in 0 .. MaxStarts /\ p_call \in {"idle", "bind", "close"}
      BY DEF PortInv, Ports
    <2>5. p_client \in [Requests -> {"there", "gone"}] /\ Cardinality(p_up \cap p_inferred) <= Slots
      BY DEF SlotInv
    <2> QED BY <2>2, <2>3, <2>4, <2>5, SameCardinality DEF TypeOK, Proxy!TypeOK
  <1> QED
    BY <1>1, <1>2, NextPortInv, InitRecordInv, NextRecordInv, InitSlotInv, NextSlotInv, PTL
       DEF Proxy!Spec

---------------------------------------------------------------------------
(* Induction over the natural numbers. Of the numbers up to m that are not *)
(* in T each has its predecessor there, so the predecessor, an injection   *)
(* of a finite set into itself, is onto; but it does not reach m.          *)
LEMMA NatInd ==
    ASSUME NEW T \in SUBSET Nat, 0 \in T, \A n \in T : n + 1 \in T
    PROVE  Nat \subseteq T
  <1> SUFFICES ASSUME NEW m \in Nat, m \notin T PROVE FALSE
    OBVIOUS
  <1> DEFINE U == (0 .. m) \ T
             pred == [x \in U |-> x - 1]
  <1>1. IsFiniteSet(U)
    <2>1. IsFiniteSet(0 .. m) BY FS_Interval
    <2> QED BY <2>1, FS_Subset
  <1>2. \A x \in U : x - 1 \in U
    <2> TAKE x \in U
    <2>1. x # 0 OBVIOUS
    <2>2. x - 1 \in Nat /\ x - 1 \in 0 .. m BY <2>1
    <2>3. (x - 1) + 1 = x BY <2>2
    <2> QED BY <2>2, <2>3
  <1>3. pred \in Injection(U, U)
    BY <1>2 DEF Injection, IsInjective
  <1>4. pred \in Surjection(U, U)
    BY <1>1, <1>3, FS_Injection
  <1>5. m \in U OBVIOUS
  <1>6. PICK x \in U : pred[x] = m
    BY <1>4, <1>5 DEF Surjection
  <1> QED BY <1>6

(* A set of natural numbers has a least one, and a bounded one a largest.  *)
LEMMA NatMin ==
    ASSUME NEW T \in SUBSET Nat, T # {}
    PROVE  \E i \in T : \A j \in T : i <= j
  <1> SUFFICES ASSUME \A i \in T : \E j \in T : j < i PROVE FALSE
    OBVIOUS
  <1> DEFINE L == {n \in Nat : \A k \in 0 .. n : k \notin T}
  <1>1. 0 \in L OBVIOUS
  <1>2. \A n \in L : n + 1 \in L
    <2> TAKE n \in L
    <2>1. n + 1 \notin T
      <3> SUFFICES ASSUME n + 1 \in T PROVE FALSE
        OBVIOUS
      <3>1. PICK j \in T : j < n + 1 OBVIOUS
      <3>2. j \in 0 .. n BY <3>1
      <3> QED BY <3>2
    <2>2. \A k \in 0 .. n + 1 : k \in 0 .. n \/ k = n + 1 OBVIOUS
    <2> QED BY <2>1, <2>2
  <1>3. Nat \subseteq L
    <2> HIDE DEF L
    <2>1. L \in SUBSET Nat BY DEF L
    <2> QED BY <2>1, <1>1, <1>2, NatInd
  <1>4. PICK t \in T : TRUE OBVIOUS
  <1> QED BY <1>3, <1>4

LEMMA NatMax ==
    ASSUME NEW n \in Nat, NEW T \in SUBSET (0 .. n), T # {}
    PROVE  \E i \in T : \A j \in T : j <= i
  <1> DEFINE U == {n - i : i \in T}
  <1>1. PICK t \in T : TRUE OBVIOUS
  <1>0. U \in SUBSET Nat /\ n - t \in U BY <1>1
  <1> HIDE DEF U
  <1>2. PICK u \in U : \A v \in U : u <= v BY <1>0, NatMin
  <1>3. PICK i \in T : u = n - i BY DEF U
  <1>4. \A j \in T : j <= i
    <2> TAKE j \in T
    <2>1. n - j \in U BY DEF U
    <2>2. n - i <= n - j BY <2>1, <1>2, <1>3
    <2> QED BY <2>2
  <1> QED BY <1>4

(* A slice of a sequence has the elements that it is cut from.             *)
LEMMA Slice ==
    ASSUME NEW A, NEW b \in Seq(A), NEW i \in Nat \ {0}, NEW j \in 0 .. Len(b), i <= j + 1
    PROVE  /\ SubSeq(b, i, j) \in Seq(A) /\ Len(SubSeq(b, i, j)) = j + 1 - i
           /\ \A k \in 1 .. j + 1 - i : SubSeq(b, i, j)[k] = b[i + k - 1]
  <1> DEFINE q == SubSeq(b, i, j)
  <1>1. Len(b) \in Nat /\ \A k \in i .. j : b[k] \in A BY LenProperties
  <1>2. /\ q \in Seq(A) /\ Len(q) = IF i <= j THEN j - i + 1 ELSE 0
        /\ \A k \in 1 .. j - i + 1 : q[k] = b[i + k - 1]
    BY <1>1, SubSeqProperties
  <1>3. j - i + 1 = j + 1 - i /\ (i <= j \/ j + 1 - i = 0) BY <1>1
  <1> HIDE DEF q
  <1>4. q \in Seq(A) /\ Len(q) = j + 1 - i /\ \A k \in 1 .. j + 1 - i : q[k] = b[i + k - 1]
    BY <1>2, <1>3
  <1> QED BY <1>4 DEF q

(* Two sequences that agree on a slice have it in common.                  *)
LEMMA SameSlice ==
    ASSUME NEW A, NEW b \in Seq(A), NEW c \in Seq(A), NEW i \in Nat \ {0},
           NEW j \in 0 .. Len(b), j <= Len(c), i <= j + 1, \A k \in i .. j : b[k] = c[k]
    PROVE  SubSeq(b, i, j) = SubSeq(c, i, j)
  <1> DEFINE s == SubSeq(b, i, j)
             t == SubSeq(c, i, j)
  <1>1. Len(b) \in Nat /\ Len(c) \in Nat /\ j \in 0 .. Len(c) BY LenProperties
  <1>2. s \in Seq(A) /\ Len(s) = j + 1 - i /\ \A k \in 1 .. j + 1 - i : s[k] = b[i + k - 1]
    BY Slice
  <1>3. t \in Seq(A) /\ Len(t) = j + 1 - i /\ \A k \in 1 .. j + 1 - i : t[k] = c[i + k - 1]
    BY <1>1, Slice
  <1>4. \A k \in 1 .. j + 1 - i : i + k - 1 \in i .. j BY <1>1
  <1> HIDE DEF s, t
  <1>5. \A k \in 1 .. Len(s) : s[k] = t[k] BY <1>2, <1>3, <1>4
  <1>6. s = t BY ONLY <1>2, <1>3, <1>5, SeqEqual
  <1> QED BY <1>6 DEF s, t

(* The first bytes of a body, and what follows them.                       *)
LEMMA Prefix ==
    ASSUME NEW A, NEW b \in Seq(A), NEW m \in 0 .. Len(b)
    PROVE  /\ SubSeq(b, 1, m) \in Seq(A) /\ Len(SubSeq(b, 1, m)) = m
           /\ \A k \in 1 .. m : SubSeq(b, 1, m)[k] = b[k]
  <1> DEFINE c == SubSeq(b, 1, m)
  <1>1. m \in Nat /\ m + 1 - 1 = m /\ 1 <= m + 1 BY LenProperties
  <1>2. c \in Seq(A) /\ Len(c) = m + 1 - 1 /\ \A k \in 1 .. m + 1 - 1 : c[k] = b[1 + k - 1]
    BY ONLY <1>1, b \in Seq(A), m \in 0 .. Len(b), Slice
  <1>3. \A k \in 1 .. m : 1 + k - 1 = k BY ONLY <1>1
  <1> HIDE DEF c
  <1>4. c \in Seq(A) /\ Len(c) = m /\ \A k \in 1 .. m : c[k] = b[k] BY ONLY <1>1, <1>2, <1>3
  <1> QED BY <1>4 DEF c

LEMMA Rest ==
    ASSUME NEW A, NEW b \in Seq(A), NEW g \in 0 .. Len(b), NEW p \in 0 .. g
    PROVE  /\ SubSeq(b, p + 1, g) \in Seq(A) /\ Len(SubSeq(b, p + 1, g)) = g - p
           /\ \A k \in 1 .. g - p : SubSeq(b, p + 1, g)[k] = b[p + k]
  <1> DEFINE i == p + 1
             c == SubSeq(b, i, g)
  <1>1. p \in Nat /\ g \in Nat /\ i \in Nat \ {0} /\ i <= g + 1 /\ g + 1 - i = g - p
    BY LenProperties
  <1>2. \A k \in 1 .. g - p : i + k - 1 = p + k BY ONLY <1>1
  <1> HIDE DEF i
  <1>3. c \in Seq(A) /\ Len(c) = g + 1 - i /\ \A k \in 1 .. g + 1 - i : c[k] = b[i + k - 1]
    BY ONLY <1>1, b \in Seq(A), g \in 0 .. Len(b), Slice
  <1> HIDE DEF c
  <1>4. c \in Seq(A) /\ Len(c) = g - p /\ \A k \in 1 .. g - p : c[k] = b[p + k]
    BY ONLY <1>1, <1>2, <1>3
  <1> QED BY <1>4 DEF c, i

LEMMA SameRest ==
    ASSUME NEW A, NEW b \in Seq(A), NEW c \in Seq(A), NEW g \in 0 .. Len(b), g <= Len(c),
           NEW p \in 0 .. g, \A k \in p + 1 .. g : b[k] = c[k]
    PROVE  SubSeq(b, p + 1, g) = SubSeq(c, p + 1, g)
  <1> DEFINE i == p + 1
  <1>1. i \in Nat \ {0} /\ i <= g + 1 BY ONLY p \in 0 .. g
  <1>0. \A k \in i .. g : b[k] = c[k] OBVIOUS
  <1> HIDE DEF i
  <1>2. SubSeq(b, i, g) = SubSeq(c, i, g)
    BY ONLY <1>0, <1>1, b \in Seq(A), c \in Seq(A), g \in 0 .. Len(b), g <= Len(c), SameSlice
  <1> QED BY <1>2 DEF i

(* Where a delimiter is, byte by byte.                                     *)
LEMMA AtLF ==
    ASSUME NEW A, NEW b \in Seq(A), NEW i \in 1 .. Len(b) - 1
    PROVE  SubSeq(b, i, i + 1) = LF <=> b[i] = "N" /\ b[i + 1] = "N"
  <1> DEFINE q == SubSeq(b, i, i + 1)
  <1>1. q \in Seq(A) /\ Len(q) = 2 /\ \A k \in 1 .. 2 : q[k] = b[i + k - 1]
    <2>1. i + 1 + 1 - i = 2 /\ i + 1 \in 0 .. Len(b) BY LenProperties
    <2> QED BY <2>1, Slice
  <1> HIDE DEF q
  <1>2. LF \in Seq({"N"}) /\ Len(LF) = 2 /\ LF[1] = "N" /\ LF[2] = "N" BY DEF LF
  <1>3. q[1] = b[i] /\ q[2] = b[i + 1] BY <1>1
  <1>4. ASSUME b[i] = "N", b[i + 1] = "N" PROVE q = LF
    <2>1. \A k \in 1 .. Len(q) : q[k] = LF[k] BY <1>4, <1>1, <1>2, <1>3
    <2>2. q \in Seq(A \cup {"N"}) /\ LF \in Seq(A \cup {"N"}) BY <1>1, <1>2, SeqMonotonic
    <2> QED BY <2>1, <2>2, <1>1, <1>2, SeqEqual
  <1> QED BY <1>2, <1>3, <1>4 DEF q

LEMMA AtCRLF ==
    ASSUME NEW A, NEW b \in Seq(A), NEW i \in 1 .. Len(b) - 3
    PROVE  SubSeq(b, i, i + 3) = CRLF <=>
             b[i] = "R" /\ b[i + 1] = "N" /\ b[i + 2] = "R" /\ b[i + 3] = "N"
  <1> DEFINE q == SubSeq(b, i, i + 3)
  <1>1. q \in Seq(A) /\ Len(q) = 4 /\ \A k \in 1 .. 4 : q[k] = b[i + k - 1]
    <2>1. i + 3 + 1 - i = 4 /\ i + 3 \in 0 .. Len(b) /\ i \in Nat \ {0} /\ i <= i + 3 + 1
      BY LenProperties
    <2>2. /\ q \in Seq(A) /\ Len(q) = i + 3 + 1 - i
          /\ \A k \in 1 .. i + 3 + 1 - i : q[k] = b[i + k - 1]
      BY ONLY <2>1, b \in Seq(A), Slice
    <2> HIDE DEF q
    <2> QED BY ONLY <2>1, <2>2
  <1> HIDE DEF q
  <1>2. CRLF \in Seq({"N", "R"}) /\ Len(CRLF) = 4
        /\ CRLF[1] = "R" /\ CRLF[2] = "N" /\ CRLF[3] = "R" /\ CRLF[4] = "N" BY DEF CRLF
  <1>3. q[1] = b[i] /\ q[2] = b[i + 1] /\ q[3] = b[i + 2] /\ q[4] = b[i + 3]
    <2>1. i + 1 - 1 = i /\ i + 2 - 1 = i + 1 /\ i + 3 - 1 = i + 2 /\ i + 4 - 1 = i + 3 OBVIOUS
    <2>2. q[1] = b[i + 1 - 1] /\ q[2] = b[i + 2 - 1] BY <1>1
    <2>3. q[3] = b[i + 3 - 1] /\ q[4] = b[i + 4 - 1] BY <1>1
    <2> QED BY <2>1, <2>2, <2>3
  <1>4. ASSUME b[i] = "R", b[i + 1] = "N", b[i + 2] = "R", b[i + 3] = "N" PROVE q = CRLF
    <2> DEFINE B == A \cup {"N", "R"}
    <2>1. \A k \in 1 .. Len(q) : q[k] = CRLF[k] BY <1>4, <1>1, <1>2, <1>3
    <2>2. q \in Seq(B) BY <1>1, SeqMonotonic
    <2>3. CRLF \in Seq(B) BY <1>2, SeqMonotonic
    <2>4. Len(q) = Len(CRLF) BY <1>1, <1>2
    <2> HIDE DEF B
    <2> QED BY ONLY <2>1, <2>2, <2>3, <2>4, SeqEqual
  <1> QED BY <1>2, <1>3, <1>4 DEF q

(* A delimiter of b that begins at i or later is complete at n.            *)
ClosesAt(b, s, n) ==
    \/ n - 1 >= s /\ b[n - 1] = "N" /\ b[n] = "N"
    \/ n - 3 >= s /\ b[n - 3] = "R" /\ b[n - 2] = "N" /\ b[n - 1] = "R" /\ b[n] = "N"

(* Closes, byte by byte.                                                   *)
LEMMA ClosesIsClosesAt ==
    ASSUME NEW A, NEW b \in Seq(A), NEW n \in 1 .. Len(b), NEW s \in Nat \ {0}
    PROVE  Closes(b, s, n) <=> ClosesAt(b, s, n)
  <1>1. Len(LF) = 2 /\ Len(CRLF) = 4 BY DEF LF, CRLF
  <1>2. ASSUME n - 1 >= s PROVE SubSeq(b, n - 1, n) = LF <=> b[n - 1] = "N" /\ b[n] = "N"
    <2>1. n - 1 \in 1 .. Len(b) - 1 /\ n - 1 + 1 = n BY <1>2
    <2>2. SubSeq(b, n - 1, n - 1 + 1) = LF <=> b[n - 1] = "N" /\ b[n - 1 + 1] = "N"
      BY <2>1, AtLF
    <2> QED BY <2>1, <2>2
  <1>3. ASSUME n - 3 >= s
        PROVE  SubSeq(b, n - 3, n) = CRLF <=>
                 b[n - 3] = "R" /\ b[n - 2] = "N" /\ b[n - 1] = "R" /\ b[n] = "N"
    <2> DEFINE i == n - 3
    <2>1. i \in 1 .. Len(b) - 3 /\ i + 1 = n - 2 /\ i + 2 = n - 1 /\ i + 3 = n BY <1>3
    <2> HIDE DEF i
    <2>2. SubSeq(b, i, i + 3) = CRLF <=>
             b[i] = "R" /\ b[i + 1] = "N" /\ b[i + 2] = "R" /\ b[i + 3] = "N"
      BY <2>1, AtCRLF
    <2>3. SubSeq(b, i, n) = CRLF <=>
                 b[i] = "R" /\ b[n - 2] = "N" /\ b[n - 1] = "R" /\ b[n] = "N"
      BY <2>1, <2>2
    <2> QED BY <2>3 DEF i
  <1>4. n - Len(LF) + 1 = n - 1 /\ n - Len(CRLF) + 1 = n - 3 BY <1>1
  <1>5. Closes(b, s, n) <=>
           \/ n - 1 >= s /\ SubSeq(b, n - 1, n) = LF
           \/ n - 3 >= s /\ SubSeq(b, n - 3, n) = CRLF
    BY <1>4 DEF Closes
  <1> QED BY <1>2, <1>3, <1>5 DEF ClosesAt

(* f says of the first m bytes of b where the open event began.            *)
IsOpenSince(f, b, m) ==
    f = [n \in 0 .. m |->
           IF n = 0 THEN 1 ELSE IF Closes(b, f[n - 1], n) THEN n + 1 ELSE f[n - 1]]

(* There is such a function, by induction over the bytes: the recursive    *)
(* definition of OpenSince means what it says.                             *)
LEMMA OpenSinceExists ==
    ASSUME NEW b, NEW m \in Nat
    PROVE  \E f : IsOpenSince(f, b, m)
  <1> DEFINE T == {n \in Nat : \E f : IsOpenSince(f, b, n)}
  <1>1. 0 \in T
    <2> DEFINE f == [n \in 0 .. 0 |-> 1]
    <2>1. IsOpenSince(f, b, 0) BY DEF IsOpenSince
    <2> QED BY <2>1
  <1>2. \A n \in T : n + 1 \in T
    <2> TAKE n \in T
    <2>1. PICK f : IsOpenSince(f, b, n) OBVIOUS
    <2> DEFINE last == IF Closes(b, f[n], n + 1) THEN n + 2 ELSE f[n]
               g == [k \in 0 .. n + 1 |-> IF k = n + 1 THEN last ELSE f[k]]
    <2>2. \A k \in 0 .. n : f[k] =
             IF k = 0 THEN 1 ELSE IF Closes(b, f[k - 1], k) THEN k + 1 ELSE f[k - 1]
      BY <2>1 DEF IsOpenSince
    <2>3. \A k \in 0 .. n + 1 : g[k] =
             IF k = 0 THEN 1 ELSE IF Closes(b, g[k - 1], k) THEN k + 1 ELSE g[k - 1]
      <3> TAKE k \in 0 .. n + 1
      <3>1. CASE k = n + 1
        <4>1. g[n] = f[n] /\ g[n + 1] = last /\ n + 1 - 1 = n /\ n + 1 + 1 = n + 2 OBVIOUS
        <4> HIDE DEF g
        <4> QED BY <3>1, <4>1
      <3>2. CASE k \in 1 .. n
        <4>1. g[k] = f[k] /\ g[k - 1] = f[k - 1] /\ k # 0 BY <3>2
        <4> HIDE DEF g
        <4> QED BY <3>2, <4>1, <2>2
      <3>3. CASE k = 0
        <4>1. g[0] = f[0] OBVIOUS
        <4> HIDE DEF g
        <4> QED BY <4>1, <3>3, <2>2
      <3> QED BY <3>1, <3>2, <3>3
    <2>4. IsOpenSince(g, b, n + 1)
      <3>1. DOMAIN g = 0 .. n + 1 /\ g = [k \in DOMAIN g |-> g[k]] OBVIOUS
      <3> HIDE DEF g
      <3> QED BY <2>3, <3>1 DEF IsOpenSince
    <2> HIDE DEF g
    <2> QED BY <2>4
  <1>3. Nat \subseteq T
    <2> HIDE DEF T
    <2>1. T \in SUBSET Nat BY DEF T
    <2> QED BY <2>1, <1>1, <1>2, NatInd
  <1> QED BY <1>3

LEMMA OpenSinceIs ==
    ASSUME NEW b, Len(b) \in Nat
    PROVE  IsOpenSince(OpenSince(b), b, Len(b))
  <1>1. PICK f : IsOpenSince(f, b, Len(b)) BY OpenSinceExists
  <1> QED BY <1>1 DEF IsOpenSince, OpenSince

(* OpenSince, from one byte to the next.                                   *)
LEMMA OpenSinceStep ==
    ASSUME NEW A, NEW b \in Seq(A)
    PROVE  /\ OpenSince(b)[0] = 1
           /\ \A n \in 1 .. Len(b) : OpenSince(b)[n] =
                IF Closes(b, OpenSince(b)[n - 1], n) THEN n + 1 ELSE OpenSince(b)[n - 1]
  <1> DEFINE f == OpenSince(b)
  <1>1. Len(b) \in Nat BY LenProperties
  <1>2. IsOpenSince(f, b, Len(b)) BY <1>1, OpenSinceIs
  <1> HIDE DEF f
  <1>3. \A n \in 0 .. Len(b) : f[n] =
           IF n = 0 THEN 1 ELSE IF Closes(b, f[n - 1], n) THEN n + 1 ELSE f[n - 1]
    BY <1>2 DEF IsOpenSince
  <1>4. 0 \in 0 .. Len(b) /\ \A n \in 1 .. Len(b) : n \in 0 .. Len(b) /\ n # 0 BY <1>1
  <1>5. f[0] = 1 BY <1>3, <1>4
  <1>6. \A n \in 1 .. Len(b) : f[n] = IF Closes(b, f[n - 1], n) THEN n + 1 ELSE f[n - 1]
    BY <1>3, <1>4
  <1> QED BY <1>5, <1>6 DEF f

(* The induction over the bytes of a body.                                 *)
LEMMA IndUpTo ==
    ASSUME NEW m \in Nat, NEW p \in 0 .. m, NEW T, p \in T,
           \A n \in p + 1 .. m : n - 1 \in T => n \in T
    PROVE  p .. m \subseteq T
  <1> DEFINE U == {n \in Nat : p + n <= m => p + n \in T}
  <1>1. 0 \in U OBVIOUS
  <1>2. \A n \in U : n + 1 \in U
    <2> TAKE n \in U
    <2>1. SUFFICES ASSUME p + (n + 1) <= m PROVE p + (n + 1) \in T
      OBVIOUS
    <2>2. p + n \in T BY <2>1
    <2>3. p + (n + 1) \in p + 1 .. m /\ p + (n + 1) - 1 = p + n BY <2>1
    <2> QED BY <2>2, <2>3
  <1>3. Nat \subseteq U
    <2> HIDE DEF U
    <2>1. U \in SUBSET Nat BY DEF U
    <2> QED BY <2>1, <1>1, <1>2, NatInd
  <1>4. ASSUME NEW k \in p .. m PROVE k \in T
    <2>1. k - p \in Nat /\ p + (k - p) = k /\ k <= m OBVIOUS
    <2>2. k - p \in U BY <2>1, <1>3
    <2> QED BY <2>1, <2>2
  <1> QED BY <1>4

(* An event begins at or before the byte that follows.                     *)
LEMMA OpenSinceBound ==
    ASSUME NEW A, NEW b \in Seq(A)
    PROVE  \A n \in 0 .. Len(b) : OpenSince(b)[n] \in 1 .. n + 1
  <1> DEFINE f == OpenSince(b)
             T == {n \in 0 .. Len(b) : f[n] \in 1 .. n + 1}
  <1>1. Len(b) \in Nat BY LenProperties
  <1>2. f[0] = 1 /\ \A n \in 1 .. Len(b) : f[n] = n + 1 \/ f[n] = f[n - 1]
    BY OpenSinceStep
  <1> HIDE DEF f
  <1>3. 0 \in T BY <1>1, <1>2
  <1>4. \A n \in 0 + 1 .. Len(b) : n - 1 \in T => n \in T BY <1>1, <1>2
  <1>5. 0 .. Len(b) \subseteq T
    <2> HIDE DEF T
    <2>1. 0 \in 0 .. Len(b) BY <1>1
    <2> QED BY <1>1, <1>3, <1>4, <2>1, IndUpTo
  <1> QED BY <1>5 DEF f

(* What is open after k bytes does not depend on the bytes that follow.    *)
LEMMA OpenSincePrefix ==
    ASSUME NEW A, NEW b \in Seq(A), NEW m \in 0 .. Len(b)
    PROVE  \A k \in 0 .. m : OpenSince(SubSeq(b, 1, m))[k] = OpenSince(b)[k]
  <1> DEFINE c == SubSeq(b, 1, m)
             f == OpenSince(b)
             g == OpenSince(c)
             T == {k \in 0 .. m : g[k] = f[k]}
  <1>1. Len(b) \in Nat /\ m \in Nat BY LenProperties
  <1>2. c \in Seq(A) /\ Len(c) = m /\ \A k \in 1 .. m : c[k] = b[k] BY Prefix
  <1> HIDE DEF c
  <1>3. /\ f[0] = 1
        /\ \A n \in 1 .. m : f[n] = IF Closes(b, f[n - 1], n) THEN n + 1 ELSE f[n - 1]
    <2>1. \A n \in 1 .. m : n \in 1 .. Len(b) BY <1>1
    <2> QED BY <2>1, OpenSinceStep
  <1>4. g[0] = 1 /\ \A n \in 1 .. m : g[n] = IF Closes(c, g[n - 1], n) THEN n + 1 ELSE g[n - 1]
    BY <1>2, OpenSinceStep
  <1>5. \A n \in 0 .. m : f[n] \in Nat \ {0}
    <2>1. \A n \in 0 .. m : n \in 0 .. Len(b) BY <1>1
    <2>2. \A n \in 0 .. m : f[n] \in 1 .. n + 1 BY <2>1, OpenSinceBound
    <2> HIDE DEF f
    <2> QED BY <1>1, <2>2
  <1> HIDE DEF f, g
  <1>6. ASSUME NEW n \in 1 .. m, NEW s \in Nat \ {0} PROVE Closes(b, s, n) <=> Closes(c, s, n)
    <2>1. n \in 1 .. Len(b) /\ n \in 1 .. Len(c) BY <1>1, <1>2
    <2>2. Closes(b, s, n) <=> ClosesAt(b, s, n) BY <2>1, ClosesIsClosesAt
    <2>3. Closes(c, s, n) <=> ClosesAt(c, s, n) BY <2>1, <1>2, ClosesIsClosesAt
    <2>4. c[n] = b[n] BY <1>2
    <2>5. n - 1 >= s => c[n - 1] = b[n - 1] BY <1>2
    <2>6. n - 3 >= s => c[n - 1] = b[n - 1] /\ c[n - 2] = b[n - 2] /\ c[n - 3] = b[n - 3]
      BY <1>2
    <2> QED BY <2>2, <2>3, <2>4, <2>5, <2>6 DEF ClosesAt
  <1>7. 0 \in T BY <1>1, <1>3, <1>4
  <1>8. \A n \in 0 + 1 .. m : n - 1 \in T => n \in T
    <2> SUFFICES ASSUME NEW n \in 1 .. m, g[n - 1] = f[n - 1] PROVE n \in 0 .. m /\ g[n] = f[n]
      BY <1>1
    <2>1. n - 1 \in 0 .. m /\ n \in 0 .. m BY <1>1
    <2>2. Closes(b, f[n - 1], n) <=> Closes(c, f[n - 1], n) BY <2>1, <1>5, <1>6
    <2> QED BY <2>1, <2>2, <1>3, <1>4
  <1>9. 0 .. m \subseteq T
    <2> HIDE DEF T
    <2>1. 0 \in 0 .. m BY <1>1
    <2> QED BY <1>1, <1>7, <1>8, <2>1, IndUpTo
  <1> QED BY <1>9 DEF f, g, c

(* An event stays open as long as no delimiter is complete in it.          *)
LEMMA OpenSinceStays ==
    ASSUME NEW A, NEW b \in Seq(A), NEW q \in 0 .. Len(b), NEW p \in 0 .. q,
           OpenSince(b)[p] = p + 1, \A n \in p + 1 .. q : ~ ClosesAt(b, p + 1, n)
    PROVE  \A n \in p .. q : OpenSince(b)[n] = p + 1
  <1> DEFINE f == OpenSince(b)
             T == {n \in p .. q : f[n] = p + 1}
  <1>1. Len(b) \in Nat /\ q \in Nat /\ p \in Nat BY LenProperties
  <1>2. p \in T BY <1>1
  <1>3. \A n \in p + 1 .. q : n - 1 \in T => n \in T
    <2> SUFFICES ASSUME NEW n \in p + 1 .. q, f[n - 1] = p + 1 PROVE n \in p .. q /\ f[n] = p + 1
      OBVIOUS
    <2>1. n \in 1 .. Len(b) /\ n \in p .. q /\ p + 1 \in Nat \ {0} BY <1>1
    <2>2. ~ Closes(b, p + 1, n) BY <2>1, ClosesIsClosesAt
    <2>3. f[n] = IF Closes(b, f[n - 1], n) THEN n + 1 ELSE f[n - 1] BY <2>1, OpenSinceStep
    <2> HIDE DEF f
    <2> QED BY <2>1, <2>2, <2>3
  <1>4. p .. q \subseteq T
    <2> HIDE DEF T
    <2> QED BY <1>1, <1>2, <1>3, IndUpTo
  <1> QED BY <1>4

(* bytearray.find returns where the pattern first is.                      *)
LEMMA FindFirst ==
    ASSUME NEW A, NEW b \in Seq(A), NEW d, Len(d) \in Nat \ {0}
    PROVE  /\ Find(b, d) # 0 => /\ Find(b, d) \in 1 .. Len(b) - Len(d) + 1
                                /\ SubSeq(b, Find(b, d), Find(b, d) + Len(d) - 1) = d
           /\ \A j \in 1 .. Len(b) - Len(d) + 1 : SubSeq(b, j, j + Len(d) - 1) = d =>
                Find(b, d) # 0 /\ Find(b, d) <= j
  <1> DEFINE at == {i \in 1 .. Len(b) - Len(d) + 1 : SubSeq(b, i, i + Len(d) - 1) = d}
             m == CHOOSE i \in at : \A j \in at : i <= j
  <1>1. Len(b) \in Nat BY LenProperties
  <1>2. at \in SUBSET Nat /\ 0 \notin at BY <1>1
  <1>3. Find(b, d) = IF at = {} THEN 0 ELSE m BY DEF Find
  <1>4. at # {} => m \in at /\ \A j \in at : m <= j
    <2> SUFFICES ASSUME at # {} PROVE m \in at /\ \A j \in at : m <= j
      OBVIOUS
    <2> HIDE DEF at
    <2>1. \E i \in at : \A j \in at : i <= j BY <1>2, NatMin
    <2> QED BY <2>1
  <1> HIDE DEF m
  <1>5. Find(b, d) # 0 => Find(b, d) \in at BY <1>3, <1>4
  <1>6. \A j \in at : Find(b, d) # 0 /\ Find(b, d) <= j BY <1>2, <1>3, <1>4
  <1> QED BY <1>5, <1>6

(* The delimiter that begins first is the one that is complete first.      *)
LEMMA EventEndFirst ==
    ASSUME NEW A, NEW b \in Seq(A)
    PROVE  /\ EventEnd(b).sep = 0 => \A n \in 1 .. Len(b) : ~ ClosesAt(b, 1, n)
           /\ EventEnd(b).sep # 0 => \E i \in 1 .. Len(b), d \in {LF, CRLF} :
                /\ EventEnd(b) = [sep |-> i, len |-> Len(d)]
                /\ i + Len(d) - 1 \in 1 .. Len(b) /\ SubSeq(b, i, i + Len(d) - 1) = d
                /\ ClosesAt(b, 1, i + Len(d) - 1)
                /\ \A n \in 1 .. i + Len(d) - 2 : ~ ClosesAt(b, 1, n)
  <1> DEFINE lf == Find(b, LF)
             crlf == Find(b, CRLF)
             IsLF(i) == b[i] = "N" /\ b[i + 1] = "N"
             IsCR(i) == b[i] = "R" /\ b[i + 1] = "N" /\ b[i + 2] = "R" /\ b[i + 3] = "N"
  <1>1. Len(b) \in Nat /\ Len(LF) = 2 /\ Len(CRLF) = 4 BY LenProperties DEF LF, CRLF
  <1>2. /\ lf # 0 => lf \in 1 .. Len(b) - 1 /\ SubSeq(b, lf, lf + 1) = LF /\ IsLF(lf)
        /\ \A j \in 1 .. Len(b) - 1 : IsLF(j) => lf # 0 /\ lf <= j
    <2>1. Len(b) - Len(LF) + 1 = Len(b) - 1 /\ Len(LF) \in Nat \ {0} BY <1>1
    <2>2. /\ lf # 0 => lf \in 1 .. Len(b) - 1 /\ SubSeq(b, lf, lf + Len(LF) - 1) = LF
          /\ \A j \in 1 .. Len(b) - 1 : SubSeq(b, j, j + Len(LF) - 1) = LF =>
                lf # 0 /\ lf <= j
      BY <2>1, FindFirst
    <2>3. \A j \in 1 .. Len(b) - 1 : j + Len(LF) - 1 = j + 1 BY <1>1
    <2>4. \A j \in 1 .. Len(b) - 1 : SubSeq(b, j, j + 1) = LF <=> IsLF(j) BY AtLF
    <2> HIDE DEF lf
    <2> QED BY <2>2, <2>3, <2>4
  <1>3. /\ crlf # 0 => crlf \in 1 .. Len(b) - 3 /\ SubSeq(b, crlf, crlf + 3) = CRLF /\ IsCR(crlf)
        /\ \A j \in 1 .. Len(b) - 3 : IsCR(j) => crlf # 0 /\ crlf <= j
    <2>1. Len(b) - Len(CRLF) + 1 = Len(b) - 3 /\ Len(CRLF) \in Nat \ {0} BY <1>1
    <2>2. /\ crlf # 0 => crlf \in 1 .. Len(b) - 3 /\ SubSeq(b, crlf, crlf + Len(CRLF) - 1) = CRLF
          /\ \A j \in 1 .. Len(b) - 3 : SubSeq(b, j, j + Len(CRLF) - 1) = CRLF =>
                crlf # 0 /\ crlf <= j
      BY <2>1, FindFirst
    <2>3. \A j \in 1 .. Len(b) - 3 : j + Len(CRLF) - 1 = j + 3 BY <1>1
    <2>4. \A j \in 1 .. Len(b) - 3 : SubSeq(b, j, j + 3) = CRLF <=> IsCR(j) BY AtCRLF
    <2> HIDE DEF crlf
    <2> QED BY <2>2, <2>3, <2>4
  <1>4. \A n \in 1 .. Len(b) : ClosesAt(b, 1, n) <=>
           (n - 1 >= 1 /\ IsLF(n - 1)) \/ (n - 3 >= 1 /\ IsCR(n - 3))
    <2> TAKE n \in 1 .. Len(b)
    <2>1. n - 1 + 1 = n /\ n - 3 + 1 = n - 2 /\ n - 3 + 2 = n - 1 /\ n - 3 + 3 = n OBVIOUS
    <2> QED BY <2>1 DEF ClosesAt
  <1>5. EventEnd(b) = IF lf = 0 /\ crlf = 0 THEN [sep |-> 0, len |-> 0]
                      ELSE IF crlf = 0 \/ (lf > 0 /\ lf < crlf) THEN [sep |-> lf, len |-> 2]
                      ELSE [sep |-> crlf, len |-> 4]
    BY DEF EventEnd
  <1>6. lf \in Nat /\ crlf \in Nat BY <1>1, <1>2, <1>3
  <1>7. lf # 0 /\ crlf # 0 => lf < crlf \/ lf >= crlf + 3
    <2> SUFFICES ASSUME lf # 0, crlf # 0, lf >= crlf, lf < crlf + 3 PROVE FALSE
      BY <1>6
    <2>1. lf = crlf \/ lf = crlf + 1 \/ lf = crlf + 2 BY <1>6
    <2>2. crlf + 1 + 1 = crlf + 2 /\ crlf + 2 + 1 = crlf + 3 BY <1>6
    <2>3. IsLF(lf) /\ IsCR(crlf) BY <1>2, <1>3
    <2> HIDE DEF lf, crlf
    <2> QED BY <2>1, <2>2, <2>3
  <1> HIDE DEF lf, crlf
  <1>8. CASE lf = 0 /\ crlf = 0
    <2>1. EventEnd(b).sep = 0 BY <1>5, <1>8
    <2>2. ASSUME NEW n \in 1 .. Len(b), ClosesAt(b, 1, n) PROVE FALSE
      <3>1. (n - 1 >= 1 /\ IsLF(n - 1)) \/ (n - 3 >= 1 /\ IsCR(n - 3)) BY <2>2, <1>4
      <3>2. n - 1 >= 1 => n - 1 \in 1 .. Len(b) - 1 BY <1>1
      <3>3. n - 3 >= 1 => n - 3 \in 1 .. Len(b) - 3 BY <1>1
      <3> HIDE DEF IsLF, IsCR
      <3> QED BY <3>1, <3>2, <3>3, <1>2, <1>3, <1>8
    <2> QED BY <2>1, <2>2
  <1>9. CASE lf # 0 /\ (crlf = 0 \/ lf < crlf)
    <2>1. EventEnd(b) = [sep |-> lf, len |-> Len(LF)] /\ lf # 0 BY <1>1, <1>5, <1>6, <1>9
    <2>0. lf \in 1 .. Len(b) - 1 BY <1>2, <1>9
    <2>2. lf \in 1 .. Len(b) /\ lf + Len(LF) - 1 = lf + 1 /\ lf + Len(LF) - 2 = lf
          /\ lf + 1 \in 1 .. Len(b) /\ lf + 1 - 1 = lf
      BY ONLY <1>1, <2>0
    <2>3. SubSeq(b, lf, lf + 1) = LF /\ IsLF(lf) BY <1>2, <1>9
    <2>4. ClosesAt(b, 1, lf + 1)
      <3> HIDE DEF IsLF, IsCR
      <3> QED BY <2>2, <2>3, <1>4
    <2>5. ASSUME NEW n \in 1 .. lf, ClosesAt(b, 1, n) PROVE FALSE
      <3>0. n \in 1 .. Len(b) BY <2>2
      <3>1. (n - 1 >= 1 /\ IsLF(n - 1)) \/ (n - 3 >= 1 /\ IsCR(n - 3)) BY <3>0, <2>5, <1>4
      <3>2. n - 1 >= 1 => n - 1 \in 1 .. Len(b) - 1 /\ n - 1 < lf BY <1>1, <3>0, <1>6
      <3>3. n - 3 >= 1 => n - 3 \in 1 .. Len(b) - 3 /\ n - 3 < lf BY <1>1, <3>0, <1>6
      <3> HIDE DEF IsLF, IsCR
      <3>4. ~ (n - 1 >= 1 /\ IsLF(n - 1)) BY <3>2, <1>2, <1>6
      <3>5. ~ (n - 3 >= 1 /\ IsCR(n - 3)) BY <3>3, <1>3, <1>6, <1>9
      <3> QED BY <3>1, <3>4, <3>5
    <2>6. EventEnd(b).sep # 0 BY <2>1
    <2> QED BY <2>1, <2>2, <2>3, <2>4, <2>5, <2>6
  <1>10. CASE crlf # 0 /\ ~ (lf # 0 /\ lf < crlf)
    <2>1. EventEnd(b) = [sep |-> crlf, len |-> Len(CRLF)] /\ crlf # 0 BY <1>1, <1>5, <1>6, <1>10
    <2>0. crlf \in 1 .. Len(b) - 3 BY <1>3, <1>10
    <2>2. crlf \in 1 .. Len(b) /\ crlf + Len(CRLF) - 1 = crlf + 3 /\ crlf + Len(CRLF) - 2 = crlf + 2
          /\ crlf + 3 \in 1 .. Len(b) /\ crlf + 3 - 3 = crlf
      BY ONLY <1>1, <2>0
    <2>3. SubSeq(b, crlf, crlf + 3) = CRLF /\ IsCR(crlf) BY <1>3, <1>10
    <2>4. ClosesAt(b, 1, crlf + 3)
      <3> HIDE DEF IsLF, IsCR
      <3> QED BY <2>2, <2>3, <1>4
    <2>5. ASSUME NEW n \in 1 .. crlf + 2, ClosesAt(b, 1, n) PROVE FALSE
      <3>0. n \in 1 .. Len(b) BY <2>2
      <3>1. (n - 1 >= 1 /\ IsLF(n - 1)) \/ (n - 3 >= 1 /\ IsCR(n - 3)) BY <3>0, <2>5, <1>4
      <3>2. n - 1 >= 1 => n - 1 \in 1 .. Len(b) - 1 /\ n - 1 < crlf + 3 BY <1>1, <3>0, <1>6
      <3>3. n - 3 >= 1 => n - 3 \in 1 .. Len(b) - 3 /\ n - 3 < crlf BY <1>1, <3>0, <1>6
      <3> HIDE DEF IsLF, IsCR
      <3>4. ~ (n - 1 >= 1 /\ IsLF(n - 1)) BY <3>2, <1>2, <1>6, <1>7, <1>10
      <3>5. ~ (n - 3 >= 1 /\ IsCR(n - 3)) BY <3>3, <1>3, <1>6
      <3> QED BY <3>1, <3>4, <3>5
    <2>6. EventEnd(b).sep # 0 BY <2>1
    <2> QED BY <2>1, <2>2, <2>3, <2>4, <2>5, <2>6
  <1> QED BY <1>8, <1>9, <1>10

(* A delimiter of what is left of a body is one of the body.               *)
LEMMA ClosesInRest ==
    ASSUME NEW A, NEW b \in Seq(A), NEW g \in 0 .. Len(b), NEW p \in 0 .. g, NEW n \in 1 .. g - p
    PROVE  ClosesAt(SubSeq(b, p + 1, g), 1, n) <=> ClosesAt(b, p + 1, p + n)
  <1> DEFINE c == SubSeq(b, p + 1, g)
  <1>1. Len(b) \in Nat /\ g \in Nat /\ p \in Nat BY LenProperties
  <1>2. \A k \in 1 .. g - p : c[k] = b[p + k] BY Rest
  <1> HIDE DEF c
  <1>3. /\ n - 1 >= 1 <=> p + n - 1 >= p + 1
        /\ n - 3 >= 1 <=> p + n - 3 >= p + 1
    BY <1>1
  <1>4. c[n] = b[p + n] BY <1>2
  <1>5. n - 1 >= 1 => c[n - 1] = b[p + n - 1]
    <2>1. p + (n - 1) = p + n - 1 BY <1>1
    <2> QED BY <1>2, <2>1
  <1>6. n - 3 >= 1 => c[n - 1] = b[p + n - 1] /\ c[n - 2] = b[p + n - 2] /\ c[n - 3] = b[p + n - 3]
    <2>1. p + (n - 1) = p + n - 1 /\ p + (n - 2) = p + n - 2 /\ p + (n - 3) = p + n - 3 BY <1>1
    <2> QED BY <1>2, <2>1
  <1>7. ClosesAt(c, 1, n) <=> ClosesAt(b, p + 1, p + n)
    BY <1>3, <1>4, <1>5, <1>6 DEF ClosesAt
  <1> QED BY <1>7 DEF c

(* bytes.strip of carriage returns: of nothing else nothing is left, and   *)
(* one more at the end makes no difference.                                *)
LEMMA StripBlank ==
    ASSUME NEW l, \A i \in 1 .. Len(l) : l[i] = "R"
    PROVE  Strip(l) = <<>>
  <1>1. {i \in 1 .. Len(l) : l[i] # "R"} = {} OBVIOUS
  <1> QED BY <1>1 DEF Strip

LEMMA StripReturn ==
    ASSUME NEW A, NEW l \in Seq(A), NEW m \in Seq(A), Len(m) = Len(l) + 1,
           \A i \in 1 .. Len(l) : m[i] = l[i], m[Len(l) + 1] = "R"
    PROVE  Strip(m) = Strip(l)
  <1> DEFINE keep == {i \in 1 .. Len(l) : l[i] # "R"}
             lo == CHOOSE i \in keep : \A j \in keep : i <= j
             hi == CHOOSE i \in keep : \A j \in keep : j <= i
  <1>1. Len(l) \in Nat BY LenProperties
  <1>2. {i \in 1 .. Len(m) : m[i] # "R"} = keep BY <1>1
  <1>3. Strip(l) = IF keep = {} THEN <<>> ELSE SubSeq(l, lo, hi) BY DEF Strip
  <1>4. Strip(m) = IF keep = {} THEN <<>> ELSE SubSeq(m, lo, hi)
    <2> DEFINE mine == {i \in 1 .. Len(m) : m[i] # "R"}
    <2>1. Strip(m) = IF mine = {} THEN <<>>
                     ELSE SubSeq(m, CHOOSE i \in mine : \A j \in mine : i <= j,
                                    CHOOSE i \in mine : \A j \in mine : j <= i)
      BY DEF Strip
    <2>2. mine = keep BY <1>2
    <2> HIDE DEF keep, mine
    <2> QED BY <2>1, <2>2
  <1>5. ASSUME keep # {} PROVE SubSeq(m, lo, hi) = SubSeq(l, lo, hi)
    <2>1. keep \in SUBSET (0 .. Len(l)) /\ keep \in SUBSET Nat BY <1>1
    <2>2. keep \in SUBSET (1 .. Len(l)) OBVIOUS
    <2> HIDE DEF keep
    <2>3. \E i \in keep : \A j \in keep : i <= j BY <2>1, <1>5, NatMin
    <2>4. \E i \in keep : \A j \in keep : j <= i BY <2>1, <1>1, <1>5, NatMax
    <2>5. lo \in keep /\ hi \in keep /\ lo <= hi BY <2>3, <2>4
    <2> HIDE DEF lo, hi
    <2>6. lo \in Nat \ {0} /\ hi \in 0 .. Len(l) /\ hi \in 0 .. Len(m) /\ lo <= hi + 1
      BY <2>2, <2>5, <1>1
    <2>7. \A k \in lo .. hi : l[k] = m[k] BY <2>6, <1>1
    <2> QED BY <2>6, <2>7, <1>1, SameSlice
  <1> HIDE DEF keep, lo, hi
  <1>6. CASE keep = {} BY <1>3, <1>4, <1>6
  <1>7. CASE keep # {} BY <1>3, <1>4, <1>5, <1>7
  <1> QED BY <1>6, <1>7

---------------------------------------------------------------------------
(* Where the lines of e begin, and where the one that begins after i ends. *)
Starts(e) == {0} \cup {i \in 1 .. Len(e) : e[i] = "N"}
Ends(e) == Starts(e) \cup {Len(e) + 1}
NextEnd(e, i) == CHOOSE j \in Ends(e) : j > i /\ \A k \in Ends(e) : k > i => j <= k
Line(e, i) == Strip(SubSeq(e, i + 1, NextEnd(e, i) - 1))

(* Lines and DataLines in these terms.                                     *)
LEMMA LinesAre ==
    ASSUME NEW A, NEW e \in Seq(A)
    PROVE  Lines(e) = {<<i, Line(e, i)>> : i \in Starts(e)}
  <1> DEFINE ends == {0, Len(e) + 1} \cup {i \in 1 .. Len(e) : e[i] = "N"}
  <1>1. Len(e) \in Nat BY LenProperties
  <1>2. ends = Ends(e) BY DEF Ends, Starts
  <1>3. ends \ {Len(e) + 1} = Starts(e) BY <1>1 DEF Starts
  <1>4. Lines(e) = {<<i, Strip(SubSeq(e, i + 1,
                     (CHOOSE j \in ends : j > i /\ \A k \in ends : k > i => j <= k) - 1))>> :
                     i \in ends \ {Len(e) + 1}}
    BY DEF Lines
  <1> HIDE DEF ends
  <1> QED BY <1>2, <1>3, <1>4 DEF Line, NextEnd

(* NextEnd is the first end after i.                                       *)
LEMMA NextEndIs ==
    ASSUME NEW A, NEW e \in Seq(A), NEW i \in Starts(e)
    PROVE  /\ NextEnd(e, i) \in Ends(e) /\ NextEnd(e, i) > i
           /\ \A k \in Ends(e) : k > i => NextEnd(e, i) <= k
           /\ \A j \in Ends(e) : j > i /\ (\A k \in Ends(e) : k > i => j <= k) => NextEnd(e, i) = j
  <1> DEFINE T == {k \in Ends(e) : k > i}
  <1>1. Len(e) \in Nat BY LenProperties
  <1>2. Ends(e) \in SUBSET Nat /\ i \in 0 .. Len(e) BY <1>1 DEF Ends, Starts
  <1>3. T \in SUBSET Nat /\ Len(e) + 1 \in T BY <1>1, <1>2 DEF Ends
  <1>4. \E j \in T : \A k \in T : j <= k
    <2> HIDE DEF T
    <2> QED BY <1>3, NatMin
  <1>5. \E j \in Ends(e) : j > i /\ \A k \in Ends(e) : k > i => j <= k BY <1>4
  <1>6. /\ NextEnd(e, i) \in Ends(e) /\ NextEnd(e, i) > i
        /\ \A k \in Ends(e) : k > i => NextEnd(e, i) <= k
    BY <1>5 DEF NextEnd
  <1>7. ASSUME NEW j \in Ends(e), j > i, \A k \in Ends(e) : k > i => j <= k
        PROVE  NextEnd(e, i) = j
    <2>1. NextEnd(e, i) <= j /\ j <= NextEnd(e, i) BY <1>6, <1>7
    <2> QED BY <2>1, <1>2, <1>6
  <1> QED BY <1>6, <1>7

LEMMA DataLinesAre ==
    ASSUME NEW A, NEW e \in Seq(A), NEW o
    PROVE  DataLines(e, o) =
             {<<i, Line(e, i)>> : i \in {k \in Starts(e) : /\ Line(e, k) # <<>>
                                            /\ Head(Line(e, k)) = "d"
                                            /\ Strip(Tail(Line(e, k))) = <<o>>}}
  BY LinesAre DEF DataLines

(* The blank line that ends an event adds no data line: what an event is   *)
(* parsed for is the same with and without its delimiter.                  *)
LEMMA DelimiterIsNoLine ==
    ASSUME NEW A, NEW x \in Seq(A), NEW n \in Nat, NEW d \in {LF, CRLF}, NEW o,
           Len(x) = n + Len(d), SubSeq(x, n + 1, n + Len(d)) = d
    PROVE  DataLines(x, o) = DataLines(SubSeq(x, 1, n), o)
  <1> DEFINE e == SubSeq(x, 1, n)
             J == Starts(e)
  <1>1. e \in Seq(A) /\ Len(e) = n /\ \A k \in 1 .. n : e[k] = x[k]
    <2>0. Len(d) \in Nat BY DEF LF, CRLF
    <2>1. n \in 0 .. Len(x) BY <2>0
    <2> QED BY <2>1, Prefix
  <1> HIDE DEF e
  <1>2. J = {0} \cup {i \in 1 .. n : x[i] = "N"} /\ Ends(e) = J \cup {n + 1}
    BY <1>1 DEF Starts, Ends
  <1>3. \A k \in J : k \in Nat /\ k <= n BY <1>2
  <1> HIDE DEF J
  <1>4. ASSUME NEW i \in J
        PROVE  \/ /\ NextEnd(e, i) \in J /\ NextEnd(e, i) \in i + 1 .. n
                  /\ \A k \in J : k > i => NextEnd(e, i) <= k
               \/ NextEnd(e, i) = n + 1 /\ \A k \in J : k <= i
    <2>1. /\ NextEnd(e, i) \in J \cup {n + 1} /\ NextEnd(e, i) > i
          /\ \A k \in J \cup {n + 1} : k > i => NextEnd(e, i) <= k
      BY <1>1, <1>2, NextEndIs DEF J
    <2> QED BY <2>1, <1>3
  <1>5. /\ Starts(x) \ J \in SUBSET (n + 1 .. n + 4)
        /\ J \subseteq Starts(x)
        /\ \A i \in J : Line(x, i) = Line(e, i)
        /\ \A i \in Starts(x) \ J : Line(x, i) = <<>>
    <2>1. CASE d = LF
      <3>1. Len(d) = 2 /\ Len(x) = n + 2 BY <2>1 DEF LF
      <3>2. x[n + 1] = "N" /\ x[n + 2] = "N"
        <4>1. n + 1 \in 1 .. Len(x) - 1 /\ n + 1 + 1 = n + 2 BY <3>1
        <4>2. SubSeq(x, n + 1, n + 1 + 1) = LF BY <2>1, <3>1, <4>1
        <4> QED BY <4>1, <4>2, AtLF
      <3>3. Starts(x) = J \cup {n + 1, n + 2} /\ Ends(x) = J \cup {n + 1, n + 2, n + 3}
        BY <3>1, <3>2, <1>2 DEF Starts, Ends
      <3>4. ASSUME NEW i \in J PROVE NextEnd(x, i) = NextEnd(e, i)
        <4>1. NextEnd(e, i) \in Ends(x) /\ NextEnd(e, i) > i
              /\ \A k \in Ends(x) : k > i => NextEnd(e, i) <= k
          BY <3>3, <1>3, <1>4
        <4> QED BY <4>1, <3>3, NextEndIs
      <3>5. ASSUME NEW i \in J PROVE Line(x, i) = Line(e, i)
        <4> DEFINE j == NextEnd(e, i)
        <4>1. i \in 0 .. n /\ j \in i + 1 .. n + 1 BY <1>3, <1>4
        <4> DEFINE h == j - 1
        <4> HIDE DEF j
        <4>2. h \in 0 .. Len(x) /\ h <= Len(e) /\ i \in 0 .. h /\ \A k \in i + 1 .. h : x[k] = e[k]
          BY <4>1, <3>1, <1>1
        <4> HIDE DEF h
        <4>0. SubSeq(x, i + 1, h) = SubSeq(e, i + 1, h)
          BY ONLY <4>2, <1>1, x \in Seq(A), SameRest
        <4>3. SubSeq(x, i + 1, j - 1) = SubSeq(e, i + 1, j - 1) BY <4>0 DEF h
        <4> QED BY <3>4, <4>3 DEF Line, j
      <3>6. ASSUME NEW i \in {n + 1, n + 2} PROVE Line(x, i) = <<>>
        <4>1. i + 1 \in Ends(x) /\ i + 1 > i /\ \A k \in Ends(x) : k > i => i + 1 <= k
          BY <3>3, <1>3
        <4>2. NextEnd(x, i) = i + 1 BY <4>1, <3>3, NextEndIs
        <4>3. SubSeq(x, i + 1, NextEnd(x, i) - 1) = <<>>
          <5>1. i + 1 \in Int /\ NextEnd(x, i) - 1 \in Int /\ NextEnd(x, i) - 1 < i + 1 BY <4>2
          <5> QED BY <5>1, SubSeqEmpty
        <4>4. Strip(<<>>) = <<>> BY StripBlank
        <4> QED BY <4>3, <4>4 DEF Line
      <3> QED BY <3>3, <3>5, <3>6
    <2>2. CASE d = CRLF
      <3>1. Len(d) = 4 /\ Len(x) = n + 4 BY <2>2 DEF CRLF
      <3>2. x[n + 1] = "R" /\ x[n + 2] = "N" /\ x[n + 3] = "R" /\ x[n + 4] = "N"
        <4> DEFINE i == n + 1
        <4>1. i \in 1 .. Len(x) - 3 /\ i + 1 = n + 2 /\ i + 2 = n + 3 /\ i + 3 = n + 4 BY <3>1
        <4> HIDE DEF i
        <4>2. SubSeq(x, i, i + 3) = CRLF BY <2>2, <3>1, <4>1 DEF i
        <4>3. x[i] = "R" /\ x[i + 1] = "N" /\ x[i + 2] = "R" /\ x[i + 3] = "N"
          BY <4>1, <4>2, AtCRLF
        <4> QED BY <4>1, <4>3 DEF i
      <3>3. Starts(x) = J \cup {n + 2, n + 4} /\ Ends(x) = J \cup {n + 2, n + 4, n + 5}
        <4>1. 1 .. Len(x) = (1 .. n) \cup {n + 1, n + 2, n + 3, n + 4} BY <3>1
        <4>2. {i \in 1 .. Len(x) : x[i] = "N"} = {i \in 1 .. n : x[i] = "N"} \cup {n + 2, n + 4}
          BY <4>1, <3>2
        <4> QED BY <4>2, <3>1, <1>2 DEF Starts, Ends
      <3>4. ASSUME NEW i \in J, NextEnd(e, i) \in J PROVE Line(x, i) = Line(e, i)
        <4> DEFINE j == NextEnd(e, i)
        <4>1. i \in 0 .. n /\ j \in i + 1 .. n /\ \A k \in J : k > i => j <= k
          BY <1>3, <1>4, <3>4
        <4>2. j \in J BY <3>4
        <4> HIDE DEF j
        <4>3. j \in Ends(x) /\ j > i /\ \A k \in Ends(x) : k > i => j <= k
          <5>1. j \in Ends(x) /\ j > i BY <3>3, <4>1, <4>2
          <5>2. ASSUME NEW k \in J, k > i PROVE j <= k BY <4>1, <5>2
          <5>3. ASSUME NEW k \in {n + 2, n + 4, n + 5} PROVE j <= k BY <4>1, <5>3
          <5> QED BY <5>1, <5>2, <5>3, <3>3
        <4>4. NextEnd(x, i) = j BY <4>3, <3>3, NextEndIs
        <4> DEFINE h == j - 1
        <4>5. h \in 0 .. Len(x) /\ h <= Len(e) /\ i \in 0 .. h /\ \A k \in i + 1 .. h : x[k] = e[k]
          BY <4>1, <3>1, <1>1
        <4> HIDE DEF h
        <4>0. SubSeq(x, i + 1, h) = SubSeq(e, i + 1, h)
          BY ONLY <4>5, <1>1, x \in Seq(A), SameRest
        <4>6. SubSeq(x, i + 1, j - 1) = SubSeq(e, i + 1, j - 1) BY <4>0 DEF h
        <4> QED BY <4>4, <4>6 DEF Line, j
      <3>5. ASSUME NEW i \in J, NextEnd(e, i) \notin J PROVE Line(x, i) = Line(e, i)
        <4>1. NextEnd(e, i) = n + 1 /\ i \in 0 .. n /\ \A k \in J : k <= i BY <1>3, <1>4, <3>5
        <4>2. n + 2 \in Ends(x) /\ n + 2 > i /\ \A k \in Ends(x) : k > i => n + 2 <= k
          <5>1. n + 2 \in Ends(x) /\ n + 2 > i BY <3>3, <4>1
          <5>2. ASSUME NEW k \in J, k > i PROVE FALSE BY <4>1, <1>3, <5>2
          <5>3. ASSUME NEW k \in {n + 2, n + 4, n + 5} PROVE n + 2 <= k BY <5>3
          <5> QED BY <5>1, <5>2, <5>3, <3>3
        <4>3. NextEnd(x, i) = n + 2 BY <4>2, <3>3, NextEndIs
        <4>4. n + 1 - 1 = n /\ n + 2 - 1 = n + 1 OBVIOUS
        <4> DEFINE w == n + 1
                   l == SubSeq(e, i + 1, n)
                   m == SubSeq(x, i + 1, w)
        <4>0. e \in Seq(A) /\ n \in 0 .. Len(e) /\ i \in 0 .. n BY <4>1, <1>1
        <4>5. w \in 0 .. Len(x) /\ i \in 0 .. w /\ w - i = n - i + 1 BY <4>1, <3>1
        <4> HIDE DEF w
        <4>6. l \in Seq(A) /\ Len(l) = n - i /\ \A k \in 1 .. n - i : l[k] = e[i + k]
          BY ONLY <4>0, Rest
        <4>7. m \in Seq(A) /\ Len(m) = w - i /\ \A k \in 1 .. w - i : m[k] = x[i + k]
          BY ONLY <4>5, x \in Seq(A), Rest
        <4> HIDE DEF l, m
        <4>8. Len(m) = Len(l) + 1 /\ \A k \in 1 .. Len(l) : m[k] = l[k]
          <5>1. \A k \in 1 .. n - i : k \in 1 .. w - i /\ i + k \in 1 .. n BY <4>1, <4>5
          <5> QED BY <5>1, <4>5, <4>6, <4>7, <1>1
        <4>9. m[Len(l) + 1] = "R"
          <5>1. Len(l) + 1 \in 1 .. w - i /\ i + (Len(l) + 1) = n + 1 BY <4>1, <4>5, <4>6
          <5> QED BY <5>1, <4>7, <3>2
        <4>10. Strip(m) = Strip(l) BY <4>6, <4>7, <4>8, <4>9, StripReturn
        <4> QED BY <4>1, <4>3, <4>4, <4>10 DEF Line, l, m, w
      <3>6. Line(x, n + 2) = <<>>
        <4>1. n + 4 \in Ends(x) /\ n + 4 > n + 2 /\ \A k \in Ends(x) : k > n + 2 => n + 4 <= k
          BY <3>3, <1>3
        <4> DEFINE i == n + 2
                   c == n + 3
                   l == SubSeq(x, c, c)
        <4>2. i \in Starts(x) BY <3>3
        <4>3. NextEnd(x, i) = n + 4
          <5> HIDE DEF i
          <5>1. n + 4 \in Ends(x) /\ n + 4 > i /\ \A k \in Ends(x) : k > i => n + 4 <= k
            BY <4>1 DEF i
          <5> QED BY <4>2, <5>1, NextEndIs
        <4>4. i + 1 = c /\ n + 4 - 1 = c OBVIOUS
        <4>5. c \in Nat \ {0} /\ c \in 0 .. Len(x) /\ c <= c + 1 /\ x[c] = "R" BY <3>1, <3>2
        <4> HIDE DEF c
        <4>6. Len(l) = c + 1 - c /\ \A k \in 1 .. c + 1 - c : l[k] = x[c + k - 1]
          BY <4>5, Slice
        <4>7. c + 1 - c = 1 /\ c + 1 - 1 = c BY <4>5
        <4> HIDE DEF l, i
        <4>8. \A k \in 1 .. Len(l) : l[k] = "R" BY <4>5, <4>6, <4>7
        <4>9. Strip(l) = <<>> BY <4>8, StripBlank
        <4>10. Line(x, i) = Strip(SubSeq(x, c, c)) BY <4>3, <4>4 DEF Line
        <4> QED BY <4>9, <4>10 DEF l, i
      <3>7. Line(x, n + 4) = <<>>
        <4>1. n + 5 \in Ends(x) /\ n + 5 > n + 4 /\ \A k \in Ends(x) : k > n + 4 => n + 5 <= k
          BY <3>3, <1>3
        <4> DEFINE i == n + 4
        <4>0. i \in Starts(x) /\ n + 5 \in Ends(x) /\ n + 5 > i
              /\ \A k \in Ends(x) : k > i => n + 5 <= k
          BY <3>3, <4>1
        <4> HIDE DEF i
        <4>5. NextEnd(x, i) = n + 5 BY ONLY <4>0, x \in Seq(A), NextEndIs
        <4>2. NextEnd(x, n + 4) = n + 5 BY <4>5 DEF i
        <4>3. SubSeq(x, n + 4 + 1, NextEnd(x, n + 4) - 1) = <<>>
          <5>1. n + 4 + 1 \in Int /\ NextEnd(x, n + 4) - 1 \in Int
                /\ NextEnd(x, n + 4) - 1 < n + 4 + 1
            BY <4>2
          <5> QED BY <5>1, SubSeqEmpty
        <4>4. Strip(<<>>) = <<>> BY StripBlank
        <4> QED BY <4>3, <4>4 DEF Line
      <3> QED BY <3>3, <3>4, <3>5, <3>6, <3>7
    <2> QED BY <2>1, <2>2
  <1>6. DataLines(x, o) =
             {<<i, Line(x, i)>> : i \in {k \in Starts(x) : /\ Line(x, k) # <<>>
                                            /\ Head(Line(x, k)) = "d"
                                            /\ Strip(Tail(Line(x, k))) = <<o>>}}
    BY DataLinesAre
  <1>7. DataLines(e, o) =
             {<<i, Line(e, i)>> : i \in {k \in J : /\ Line(e, k) # <<>>
                                            /\ Head(Line(e, k)) = "d"
                                            /\ Strip(Tail(Line(e, k))) = <<o>>}}
    BY <1>1, DataLinesAre DEF J
  <1>8. DataLines(x, o) = DataLines(e, o) BY <1>5, <1>6, <1>7
  <1> QED BY <1>8 DEF e

---------------------------------------------------------------------------
(* The complete events among the first m bytes of b.                       *)
LEMMA SpansOfPrefix ==
    ASSUME NEW A, NEW b \in Seq(A), NEW m \in 0 .. Len(b)
    PROVE  EventSpans(SubSeq(b, 1, m)) =
             {<<OpenSince(b)[n - 1], n>> : n \in {k \in 1 .. m : OpenSince(b)[k] = k + 1}}
  <1> DEFINE c == SubSeq(b, 1, m)
             f == OpenSince(b)
             g == OpenSince(c)
  <1>1. Len(b) \in Nat /\ m \in Nat BY LenProperties
  <1>2. Len(c) = m BY Prefix
  <1>3. \A k \in 0 .. m : g[k] = f[k] BY OpenSincePrefix
  <1>4. EventSpans(c) = {<<g[n - 1], n>> : n \in {k \in 1 .. Len(c) : g[k] = k + 1}}
    BY DEF EventSpans
  <1> HIDE DEF c, f, g
  <1>5. \A k \in 1 .. m : k \in 0 .. m /\ k - 1 \in 0 .. m BY <1>1
  <1>6. EventSpans(c) = {<<f[n - 1], n>> : n \in {k \in 1 .. m : f[k] = k + 1}}
    BY <1>2, <1>3, <1>4, <1>5
  <1> QED BY <1>6 DEF c, f

LEMMA ExpectedOfPrefix ==
    ASSUME NEW A, NEW b \in Seq(A), NEW m \in 0 .. Len(b), NEW o
    PROVE  /\ Expected(SubSeq(b, 1, m), o) =
                UNION {{p} \X DataLines(SubSeq(b, p[1], p[2]), o) :
                       p \in EventSpans(SubSeq(b, 1, m))}
           /\ \A p \in EventSpans(SubSeq(b, 1, m)) : p[2] \in 1 .. m
  <1> DEFINE c == SubSeq(b, 1, m)
             E == EventSpans(c)
  <1>1. Len(b) \in Nat /\ m \in Nat BY LenProperties
  <1>2. c \in Seq(A) /\ Len(c) = m /\ \A k \in 1 .. m : c[k] = b[k] BY Prefix
  <1>3. \A p \in E : p[2] \in 1 .. m /\ p[1] \in 1 .. p[2]
    <2> DEFINE f == OpenSince(b)
    <2>1. E = {<<f[n - 1], n>> : n \in {k \in 1 .. m : f[k] = k + 1}} BY SpansOfPrefix
    <2>2. ASSUME NEW n \in 1 .. m PROVE f[n - 1] \in 1 .. n
      <3>1. n - 1 \in 0 .. Len(b) /\ n - 1 + 1 = n BY <1>1
      <3>2. f[n - 1] \in 1 .. n - 1 + 1 BY <3>1, OpenSinceBound
      <3> HIDE DEF f
      <3> QED BY <3>1, <3>2
    <2> HIDE DEF f, E
    <2> QED BY <2>1, <2>2
  <1>4. ASSUME NEW p \in E PROVE SubSeq(c, p[1], p[2]) = SubSeq(b, p[1], p[2])
    <2> DEFINE i == p[1]
               j == p[2]
    <2>1. j \in 1 .. m /\ i \in 1 .. j BY <1>3
    <2> HIDE DEF i, j
    <2>2. i \in Nat \ {0} /\ j \in 0 .. Len(c) /\ j <= Len(b) /\ i <= j + 1
          /\ \A k \in i .. j : c[k] = b[k]
      BY <2>1, <1>1, <1>2
    <2>3. SubSeq(c, i, j) = SubSeq(b, i, j) BY <2>2, <1>2, SameSlice
    <2> QED BY <2>3 DEF i, j
  <1>5. Expected(c, o) = UNION {{p} \X DataLines(SubSeq(c, p[1], p[2]), o) : p \in E}
    BY DEF Expected
  <1> HIDE DEF c, E
  <1>6. Expected(c, o) = UNION {{p} \X DataLines(SubSeq(b, p[1], p[2]), o) : p \in E}
    BY <1>4, <1>5
  <1> QED BY <1>3, <1>6 DEF c, E

(* Bytes that complete no event add nothing to what is expected.           *)
LEMMA NothingComplete ==
    ASSUME NEW A, NEW b \in Seq(A), NEW g \in 0 .. Len(b), NEW p \in 0 .. g, NEW o,
           OpenSince(b)[p] = p + 1, \A n \in p + 1 .. g : ~ ClosesAt(b, p + 1, n)
    PROVE  Expected(SubSeq(b, 1, g), o) = Expected(SubSeq(b, 1, p), o)
  <1> DEFINE f == OpenSince(b)
             K(m) == {k \in 1 .. m : f[k] = k + 1}
  <1>1. Len(b) \in Nat /\ g \in Nat /\ p \in Nat /\ p \in 0 .. Len(b) BY LenProperties
  <1>2. \A n \in p .. g : f[n] = p + 1 BY OpenSinceStays
  <1>3. EventSpans(SubSeq(b, 1, g)) = {<<f[n - 1], n>> : n \in K(g)} BY SpansOfPrefix
  <1>4. EventSpans(SubSeq(b, 1, p)) = {<<f[n - 1], n>> : n \in K(p)} BY <1>1, SpansOfPrefix
  <1> HIDE DEF f
  <1>5. K(g) = K(p)
    <2>1. \A k \in 1 .. g : k \notin 1 .. p => f[k] # k + 1 BY <1>1, <1>2
    <2>2. \A k \in 1 .. p : k \in 1 .. g BY <1>1
    <2> QED BY <2>1, <2>2
  <1> HIDE DEF K
  <1>6. EventSpans(SubSeq(b, 1, g)) = EventSpans(SubSeq(b, 1, p)) BY <1>3, <1>4, <1>5
  <1>7. Expected(SubSeq(b, 1, g), o) =
          UNION {{r} \X DataLines(SubSeq(b, r[1], r[2]), o) : r \in EventSpans(SubSeq(b, 1, g))}
    BY ExpectedOfPrefix
  <1>8. Expected(SubSeq(b, 1, p), o) =
          UNION {{r} \X DataLines(SubSeq(b, r[1], r[2]), o) : r \in EventSpans(SubSeq(b, 1, p))}
    BY <1>1, ExpectedOfPrefix
  <1> QED BY <1>6, <1>7, <1>8

(* The byte that completes the event that is open adds its data lines.     *)
LEMMA OneComplete ==
    ASSUME NEW A, NEW b \in Seq(A), NEW q \in 1 .. Len(b), NEW p \in 0 .. q - 1, NEW o,
           OpenSince(b)[p] = p + 1, \A n \in p + 1 .. q - 1 : ~ ClosesAt(b, p + 1, n),
           ClosesAt(b, p + 1, q)
    PROVE  /\ OpenSince(b)[q] = q + 1
           /\ Expected(SubSeq(b, 1, q), o) = Expected(SubSeq(b, 1, p), o) \cup
                ({<<p + 1, q>>} \X DataLines(SubSeq(b, p + 1, q), o))
           /\ Expected(SubSeq(b, 1, p), o) \cap
                ({<<p + 1, q>>} \X DataLines(SubSeq(b, p + 1, q), o)) = {}
  <1> DEFINE f == OpenSince(b)
             K(m) == {k \in 1 .. m : f[k] = k + 1}
             Eq == EventSpans(SubSeq(b, 1, q))
             Ep == EventSpans(SubSeq(b, 1, p))
             D(r) == DataLines(SubSeq(b, r[1], r[2]), o)
  <1>1. /\ Len(b) \in Nat /\ q \in Nat /\ p \in Nat /\ p \in 0 .. Len(b) /\ q \in 0 .. Len(b)
        /\ q - 1 \in 0 .. Len(b) /\ p + 1 \in Nat \ {0} /\ q - 1 \in p .. q - 1
    BY LenProperties
  <1>2. \A n \in p .. q - 1 : f[n] = p + 1 BY <1>1, OpenSinceStays
  <1>3. f[q - 1] = p + 1 BY <1>1, <1>2
  <1>4. f[q] = q + 1
    <2>1. Closes(b, p + 1, q) BY <1>1, ClosesIsClosesAt
    <2>2. f[q] = IF Closes(b, f[q - 1], q) THEN q + 1 ELSE f[q - 1] BY OpenSinceStep
    <2> HIDE DEF f
    <2> QED BY <2>1, <2>2, <1>3
  <1>5. Eq = {<<f[n - 1], n>> : n \in K(q)} BY <1>1, SpansOfPrefix
  <1>6. Ep = {<<f[n - 1], n>> : n \in K(p)} BY <1>1, SpansOfPrefix
  <1>7. Expected(SubSeq(b, 1, q), o) = UNION {{r} \X D(r) : r \in Eq} BY <1>1, ExpectedOfPrefix
  <1>8. /\ Expected(SubSeq(b, 1, p), o) = UNION {{r} \X D(r) : r \in Ep}
        /\ \A r \in Ep : r[2] \in 1 .. p
    BY <1>1, ExpectedOfPrefix
  <1> HIDE DEF f, Eq, Ep
  <1>9. K(q) = K(p) \cup {q}
    <2>1. \A k \in 1 .. q : k \notin 1 .. p /\ k # q => f[k] # k + 1 BY <1>1, <1>2
    <2>2. \A k \in 1 .. p : k \in 1 .. q BY <1>1
    <2>3. q \in K(q) BY <1>1, <1>4
    <2> QED BY <2>1, <2>2, <2>3
  <1> HIDE DEF K
  <1>10. Eq = Ep \cup {<<p + 1, q>>} BY <1>3, <1>5, <1>6, <1>9
  <1>11. D(<<p + 1, q>>) = DataLines(SubSeq(b, p + 1, q), o) OBVIOUS
  <1> HIDE DEF D
  <1>12. Expected(SubSeq(b, 1, q), o) =
           Expected(SubSeq(b, 1, p), o) \cup ({<<p + 1, q>>} \X D(<<p + 1, q>>))
    BY <1>7, <1>8, <1>10
  <1>13. Expected(SubSeq(b, 1, p), o) \cap ({<<p + 1, q>>} \X D(<<p + 1, q>>)) = {}
    <2>1. <<p + 1, q>> \notin Ep
      <3>1. <<p + 1, q>>[2] = q /\ q \notin 1 .. p BY <1>1
      <3> QED BY <3>1, <1>8
    <2>2. ASSUME NEW y \in UNION {{r} \X D(r) : r \in Ep} PROVE y[1] \in Ep OBVIOUS
    <2>3. ASSUME NEW y \in {<<p + 1, q>>} \X D(<<p + 1, q>>) PROVE y[1] = <<p + 1, q>> OBVIOUS
    <2> QED BY <2>1, <2>2, <2>3, <1>8
  <1> QED BY <1>4, <1>11, <1>12, <1>13 DEF f

(* An event has finitely many data lines.                                  *)
LEMMA DataLinesFinite ==
    ASSUME NEW A, NEW e \in Seq(A), NEW o
    PROVE  IsFiniteSet(DataLines(e, o))
  <1> DEFINE K == {k \in Starts(e) : /\ Line(e, k) # <<>> /\ Head(Line(e, k)) = "d"
                                     /\ Strip(Tail(Line(e, k))) = <<o>>}
             D == {<<i, Line(e, i)>> : i \in K}
             f == [i \in K |-> <<i, Line(e, i)>>]
  <1>1. DataLines(e, o) = D BY DataLinesAre
  <1>2. Len(e) \in Nat BY LenProperties
  <1>3. K \in SUBSET (0 .. Len(e)) BY <1>2 DEF Starts
  <1> HIDE DEF K
  <1>4. IsFiniteSet(K)
    <2>1. IsFiniteSet(0 .. Len(e)) BY <1>2, FS_Interval
    <2> QED BY <2>1, <1>3, FS_Subset
  <1>5. f \in Surjection(K, D) BY DEF Surjection
  <1> HIDE DEF f, D
  <1> QED BY <1>1, <1>4, <1>5, FS_Surjection

---------------------------------------------------------------------------
(* How much of the body the complete events that were absorbed take.       *)
Pos == got - Len(buf)

(* The parser is between two events, has counted those before it, keeps    *)
(* what follows, and between two chunks that is part of one event.         *)
Parsed ==
    /\ Pos \in 0 .. got /\ buf = SubSeq(body, Pos + 1, got)
    /\ OpenSince(body)[Pos] = Pos + 1
    /\ IsFiniteSet(Expected(SubSeq(body, 1, Pos), "c"))
    /\ chunks = Cardinality(Expected(SubSeq(body, 1, Pos), "c"))
    /\ usage = (Expected(SubSeq(body, 1, Pos), "u") # {})
    /\ phase # "drain" => EventEnd(buf).sep = 0

(* A body that is not a stream is kept whole, and parsed at its end.       *)
Kept ==
    /\ buf = SubSeq(body, 1, got) /\ phase # "drain" /\ chunks = 0
    /\ usage => phase \in {"end", "fired"} /\ buf = <<"u">> /\ buf = body

Inv ==
    /\ body \in Seq(Bytes) /\ got \in 0 .. Len(body) /\ usage \in BOOLEAN
    /\ phase \in {"copy", "drain", "end", "fired"}
    /\ IF shape = "sse" THEN Parsed ELSE Kept
    /\ phase = "fired" => record = IF usage THEN [source |-> "usage", tokens |-> 0]
                                   ELSE [source |-> "delta_count", tokens |-> chunks]

(* Before the first byte nothing is expected.                              *)
LEMMA NothingOfNothing ==
    ASSUME NEW A, NEW b \in Seq(A), NEW o PROVE Expected(SubSeq(b, 1, 0), o) = {}
  <1>1. 0 \in 0 .. Len(b) BY LenProperties
  <1>2. Expected(SubSeq(b, 1, 0), o) =
          UNION {{p} \X DataLines(SubSeq(b, p[1], p[2]), o) : p \in EventSpans(SubSeq(b, 1, 0))}
        /\ \A p \in EventSpans(SubSeq(b, 1, 0)) : p[2] \in 1 .. 0
    BY <1>1, ExpectedOfPrefix
  <1>3. EventSpans(SubSeq(b, 1, 0)) = {} BY <1>2
  <1> QED BY <1>2, <1>3

(* The first state: nothing was read, nothing is in the buffer.            *)
LEMMA InitInv == ASSUME Init PROVE Inv
  <1>0. body \in Seq(Bytes) /\ got = 0 /\ buf = <<>> /\ chunks = 0 /\ phase = "copy"
    BY BodiesAssumption DEF Init
  <1>a. usage = FALSE BY DEF Init
  <1>1. body \in Seq(Bytes) /\ got \in 0 .. Len(body)
    <2>1. Len(body) \in Nat BY <1>0, LenProperties
    <2> QED BY ONLY <1>0, <2>1
  <1>2. Len(buf) = 0 /\ Pos = 0
    <2>1. Len(buf) = 0 BY ONLY <1>0
    <2>2. got = 0 BY ONLY <1>0
    <2> QED BY ONLY <2>1, <2>2 DEF Pos
  <1>3. SubSeq(body, 1, 0) = <<>> BY SubSeqEmpty
  <1>4. Parsed
    <2>1. Pos \in 0 .. got /\ Pos + 1 = 1 BY <1>0, <1>2
    <2>2. OpenSince(body)[0] = 1 BY <1>1, OpenSinceStep
    <2>3. Expected(SubSeq(body, 1, 0), "c") = {} /\ Expected(SubSeq(body, 1, 0), "u") = {}
      BY <1>1, NothingOfNothing
    <2>4. EventEnd(buf).sep = 0
      <3> SUFFICES ASSUME EventEnd(buf).sep # 0 PROVE FALSE
        OBVIOUS
      <3>1. buf \in Seq(Bytes) BY <1>0, EmptySeq
      <3>2. \E i \in 1 .. Len(buf) : TRUE BY <3>1, EventEndFirst
      <3> QED BY <3>2, <1>2
    <2> QED BY <1>0, <1>a, <1>2, <1>3, <2>1, <2>2, <2>3, <2>4, FS_EmptySet DEF Parsed
  <1>5. Kept BY <1>0, <1>a, <1>3 DEF Kept
  <1> QED BY <1>0, <1>a, <1>1, <1>4, <1>5 DEF Inv

(* A chunk is what follows in the body, wherever it was cut.               *)
LEMMA CopyInv == ASSUME Inv, Copy PROVE Inv'
  <1> USE DEF Inv
  <1>1. PICK n \in got + 1 .. Len(body) :
            got' = n /\ buf' = buf \o SubSeq(body, got + 1, n)
    BY DEF Copy
  <1>2. phase = "copy" /\ phase' = (IF shape = "sse" THEN "drain" ELSE "copy")
        /\ UNCHANGED <<body, shape, chunks, usage, record>>
    BY DEF Copy
  <1>3. Len(body) \in Nat /\ got' \in 0 .. Len(body) /\ got \in Nat /\ n \in Nat
    BY <1>1, LenProperties
  <1>4. ASSUME NEW p \in 0 .. got, buf = SubSeq(body, p + 1, got)
        PROVE  buf' = SubSeq(body, p + 1, got') /\ Len(buf) = got - p /\ Len(buf') = got' - p
    <2>1. p + 1 \in 1 .. Len(body) + 1 /\ got \in p + 1 - 1 .. Len(body) /\ n \in got .. Len(body)
      BY <1>1, <1>3
    <2>2. buf' = SubSeq(body, p + 1, n)
      <3> DEFINE i == p + 1
      <3>1. i \in 1 .. Len(body) + 1 /\ got \in i - 1 .. Len(body) BY <2>1
      <3> HIDE DEF i
      <3>2. SubSeq(body, i, got) \o SubSeq(body, got + 1, n) = SubSeq(body, i, n)
        BY ONLY <2>1, <3>1, body \in Seq(Bytes), ConcatAdjacentSubSeq
      <3>3. buf = SubSeq(body, i, got) BY <1>4 DEF i
      <3> QED BY <1>1, <3>2, <3>3 DEF i
    <2>3. p \in 0 .. got /\ got \in 0 .. Len(body) /\ p \in 0 .. n /\ n \in 0 .. Len(body)
      BY <1>1, <1>3
    <2>4. Len(buf) = got - p BY ONLY <1>4, <2>3, body \in Seq(Bytes), Rest
    <2>5. Len(buf') = n - p BY ONLY <2>2, <2>3, body \in Seq(Bytes), Rest
    <2> QED BY <1>1, <2>2, <2>4, <2>5
  <1>5. CASE shape = "sse"
    <2>1. Parsed BY <1>5
    <2>2. buf' = SubSeq(body, Pos + 1, got') /\ Len(buf) = got - Pos /\ Len(buf') = got' - Pos
      BY <2>1, <1>4 DEF Parsed
    <2>3. Pos \in 0 .. got BY <2>1 DEF Parsed
    <2>4. got' - (got' - Pos) = Pos BY <1>3, <2>3
    <2>5. Pos' = Pos BY <2>2, <2>4 DEF Pos
    <2>6. Pos \in 0 .. got' BY <1>1, <1>3, <2>3
    <2>7. phase' = "drain" BY <1>2, <1>5
    <2>8. Parsed' BY <1>2, <2>1, <2>2, <2>5, <2>6, <2>7 DEF Parsed
    <2> QED BY <1>2, <1>3, <1>5, <2>7, <2>8
  <1>6. CASE shape # "sse"
    <2>1. Kept BY <1>6
    <2>2. 0 \in 0 .. got /\ 0 + 1 = 1 BY <1>3
    <2>3. buf' = SubSeq(body, 1, got') BY <2>1, <2>2, <1>4 DEF Kept
    <2>4. ~ usage /\ phase' = "copy" BY <1>2, <1>6, <2>1 DEF Kept
    <2>5. Kept' BY <1>2, <2>3, <2>4 DEF Kept
    <2> QED BY <1>2, <1>3, <1>6, <2>4, <2>5
  <1> QED BY <1>5, <1>6

(* The rest of what is left of a body, and its beginning.                  *)
LEMMA RestOfRest ==
    ASSUME NEW A, NEW b \in Seq(A), NEW g \in 0 .. Len(b), NEW p \in 0 .. g, NEW k \in 0 .. g - p
    PROVE  /\ SubSeq(SubSeq(b, p + 1, g), k + 1, g - p) = SubSeq(b, p + k + 1, g)
           /\ Len(SubSeq(b, p + k + 1, g)) = g - p - k
  <1> DEFINE c == SubSeq(b, p + 1, g)
             h == g - p
             q == p + k
             s == SubSeq(c, k + 1, h)
             t == SubSeq(b, q + 1, g)
  <1>1. p \in Nat /\ g \in Nat /\ k \in Nat /\ k <= g - p BY LenProperties
  <1>2. c \in Seq(A) /\ Len(c) = h /\ \A i \in 1 .. h : c[i] = b[p + i] BY Rest
  <1> HIDE DEF c
  <1>0. c \in Seq(A) BY <1>2
  <1>3. h \in 0 .. Len(c) /\ k \in 0 .. h /\ q \in 0 .. g BY ONLY <1>1, <1>2
  <1>4. h - k = g - p - k /\ g - q = g - p - k BY ONLY <1>1
  <1>5. ASSUME NEW i \in 1 .. h - k PROVE k + i \in 1 .. h /\ p + (k + i) = q + i BY <1>1
  <1> HIDE DEF h, q
  <1>6. s \in Seq(A) /\ Len(s) = h - k /\ \A i \in 1 .. h - k : s[i] = c[k + i]
    BY ONLY <1>0, <1>3, Rest
  <1>7. t \in Seq(A) /\ Len(t) = g - q /\ \A i \in 1 .. g - q : t[i] = b[q + i]
    <2>1. q \in 0 .. g BY <1>3
    <2> QED BY ONLY <2>1, b \in Seq(A), g \in 0 .. Len(b), Rest
  <1> HIDE DEF s, t
  <1>8. ASSUME NEW i \in 1 .. Len(s) PROVE s[i] = t[i]
    <2>1. i \in 1 .. h - k /\ i \in 1 .. g - q BY <1>4, <1>6
    <2>2. s[i] = c[k + i] /\ t[i] = b[q + i] BY ONLY <1>6, <1>7, <2>1
    <2>3. c[k + i] = b[p + (k + i)] /\ p + (k + i) = q + i BY ONLY <1>2, <1>5, <2>1
    <2> QED BY ONLY <2>2, <2>3
  <1>9. Len(s) = Len(t) BY ONLY <1>4, <1>6, <1>7
  <1>10. s = t BY ONLY <1>6, <1>7, <1>8, <1>9, SeqEqual
  <1>11. Len(t) = g - p - k BY ONLY <1>4, <1>7
  <1> QED BY <1>10, <1>11 DEF c, h, q, s, t

LEMMA FirstOfRest ==
    ASSUME NEW A, NEW b \in Seq(A), NEW g \in 0 .. Len(b), NEW p \in 0 .. g, NEW k \in 0 .. g - p
    PROVE  SubSeq(SubSeq(b, p + 1, g), 1, k) = SubSeq(b, p + 1, p + k)
  <1> DEFINE c == SubSeq(b, p + 1, g)
             q == p + k
             x == SubSeq(b, p + 1, q)
             y == SubSeq(c, 1, k)
  <1>1. p \in Nat /\ g \in Nat /\ k \in Nat /\ k <= g - p /\ Len(b) \in Nat BY LenProperties
  <1>2. q \in 0 .. Len(b) /\ p \in 0 .. q /\ q - p = k BY <1>1
  <1>3. \A j \in 1 .. k : j \in 1 .. g - p BY <1>1
  <1> HIDE DEF q
  <1>4. x \in Seq(A) /\ Len(x) = q - p /\ \A j \in 1 .. q - p : x[j] = b[p + j]
    BY ONLY <1>2, b \in Seq(A), Rest
  <1>5. c \in Seq(A) /\ Len(c) = g - p /\ \A j \in 1 .. g - p : c[j] = b[p + j] BY Rest
  <1> HIDE DEF c, x
  <1>6. y \in Seq(A) /\ Len(y) = k /\ \A j \in 1 .. k : y[j] = c[j]
    <2>1. k \in 0 .. Len(c) BY <1>1, <1>5
    <2> QED BY ONLY <1>5, <2>1, Prefix
  <1> HIDE DEF y
  <1>7. \A j \in 1 .. Len(x) : x[j] = y[j] BY ONLY <1>2, <1>3, <1>4, <1>5, <1>6
  <1>8. Len(x) = Len(y) BY ONLY <1>2, <1>4, <1>6
  <1>9. x = y BY ONLY <1>4, <1>6, <1>7, <1>8, SeqEqual
  <1> QED BY <1>9 DEF c, q, x, y

(* The event e of b, from p to q, adds its data lines to what is expected. *)
Adds(b, p, q, e, o) ==
    LET old == Expected(SubSeq(b, 1, p), o)
        new == {<<p + 1, q>>} \X DataLines(e, o)
    IN Expected(SubSeq(b, 1, q), o) = old \cup new /\ old \cap new = {}

(* The next complete event of what is left, as the parser finds it, is the *)
(* next event of the body.                                                 *)
LEMMA NextEvent ==
    ASSUME NEW A, NEW b \in Seq(A), NEW g \in 0 .. Len(b), NEW p \in 0 .. g,
           OpenSince(b)[p] = p + 1, NEW c, c = SubSeq(b, p + 1, g), EventEnd(c).sep # 0
    PROVE  \E k \in 1 .. g - p :
             /\ EventEnd(c).sep > 0 /\ EventEnd(c).sep + EventEnd(c).len = k + 1
             /\ OpenSince(b)[p + k] = p + k + 1
             /\ SubSeq(c, k + 1, Len(c)) = SubSeq(b, p + k + 1, g)
             /\ Len(SubSeq(b, p + k + 1, g)) = g - p - k
             /\ SubSeq(c, 1, EventEnd(c).sep - 1) \in Seq(A)
             /\ \A o : Adds(b, p, p + k, SubSeq(c, 1, EventEnd(c).sep - 1), o)
  <1>1. Len(b) \in Nat /\ g \in Nat /\ p \in Nat BY LenProperties
  <1>2. c \in Seq(A) /\ Len(c) = g - p BY Rest
  <1>3. PICK i \in 1 .. Len(c), d \in {LF, CRLF} :
          /\ EventEnd(c) = [sep |-> i, len |-> Len(d)]
          /\ i + Len(d) - 1 \in 1 .. Len(c) /\ SubSeq(c, i, i + Len(d) - 1) = d
          /\ ClosesAt(c, 1, i + Len(d) - 1)
          /\ \A n \in 1 .. i + Len(d) - 2 : ~ ClosesAt(c, 1, n)
    BY <1>2, EventEndFirst
  <1> DEFINE k == i + Len(d) - 1
             q == p + k
             ev == SubSeq(c, 1, i - 1)
             x == SubSeq(c, 1, k)
  <1>4. Len(d) \in Nat /\ Len(d) >= 2 /\ i \in Nat \ {0}
    <2> DEFINE l == Len(d)
    <2>1. l = 2 \/ l = 4 BY DEF LF, CRLF
    <2>2. i \in Nat \ {0} BY <1>1, <1>2
    <2> HIDE DEF l
    <2>3. l \in Nat /\ l >= 2 BY ONLY <2>1
    <2> QED BY <2>2, <2>3 DEF l
  <1>5. EventEnd(c).sep = i /\ EventEnd(c).sep > 0 /\ EventEnd(c).sep + EventEnd(c).len = k + 1
    <2>1. EventEnd(c).sep = i /\ EventEnd(c).len = Len(d) BY ONLY <1>3
    <2>2. i > 0 /\ i + Len(d) = k + 1 BY ONLY <1>4
    <2> QED BY ONLY <2>1, <2>2
  <1>6. k \in 1 .. g - p /\ k \in 0 .. g - p /\ k = i - 1 + Len(d) /\ i - 1 + 1 = i
        /\ k - 1 = i + Len(d) - 2 /\ i - 1 \in Nat /\ i - 1 <= k
    <2>1. k \in 1 .. g - p BY ONLY <1>2, <1>3
    <2> QED BY ONLY <2>1, <1>1, <1>4
  <1>7. /\ ClosesAt(c, 1, k) /\ \A n \in 1 .. k - 1 : ~ ClosesAt(c, 1, n)
        /\ SubSeq(c, i, k) = d
    BY <1>3, <1>6
  <1> HIDE DEF k
  <1>8. q \in 1 .. Len(b) /\ p \in 0 .. q - 1 /\ q \in 0 .. g BY <1>1, <1>6
  <1>9. SubSeq(c, k + 1, Len(c)) = SubSeq(b, p + k + 1, g)
        /\ Len(SubSeq(b, p + k + 1, g)) = g - p - k
    <2>1. SubSeq(SubSeq(b, p + 1, g), k + 1, g - p) = SubSeq(b, p + k + 1, g)
          /\ Len(SubSeq(b, p + k + 1, g)) = g - p - k
      <3>1. k \in 0 .. g - p BY <1>6
      <3> QED BY ONLY <3>1, b \in Seq(A), g \in 0 .. Len(b), p \in 0 .. g, RestOfRest
    <2> QED BY <1>2, <2>1
  <1>10. ClosesAt(b, p + 1, q) /\ \A n \in p + 1 .. q - 1 : ~ ClosesAt(b, p + 1, n)
    <2>1. \A n \in 1 .. g - p : ClosesAt(c, 1, n) <=> ClosesAt(b, p + 1, p + n)
      BY ClosesInRest
    <2>2. ASSUME NEW n \in p + 1 .. q - 1 PROVE ~ ClosesAt(b, p + 1, n)
      <3>1. n - p \in 1 .. g - p /\ n - p \in 1 .. k - 1 /\ p + (n - p) = n BY <1>1, <1>6, <1>8
      <3>2. ClosesAt(c, 1, n - p) <=> ClosesAt(b, p + 1, p + (n - p)) BY <2>1, <3>1
      <3> QED BY <1>7, <3>1, <3>2
    <2>3. ClosesAt(b, p + 1, q) BY <1>6, <1>7, <2>1
    <2> QED BY <2>2, <2>3
  <1>11. x \in Seq(A) /\ Len(x) = k /\ \A j \in 1 .. k : x[j] = c[j]
    <2>1. k \in 0 .. Len(c) BY <1>2, <1>6
    <2> QED BY ONLY <1>2, <2>1, Prefix
  <1>12. x = SubSeq(b, p + 1, q) BY <1>6, FirstOfRest
  <1> HIDE DEF x
  <1>13. ev \in Seq(A) /\ ev = SubSeq(x, 1, i - 1)
    <2> DEFINE m == i - 1
    <2>0. m \in Nat /\ m <= k /\ k \in Nat /\ k <= Len(c) BY <1>1, <1>2, <1>6
    <2> HIDE DEF m
    <2>1. 1 <= m + 1 /\ m \in 0 .. Len(c) /\ m <= Len(x) /\ \A j \in 1 .. m : c[j] = x[j]
      BY ONLY <2>0, <1>2, <1>11
    <2>2. 1 \in Nat \ {0} OBVIOUS
    <2>3. SubSeq(c, 1, m) = SubSeq(x, 1, m) BY ONLY <1>2, <1>11, <2>1, <2>2, SameSlice
    <2>4. SubSeq(c, 1, m) \in Seq(A) BY ONLY <1>2, <2>1, Prefix
    <2> QED BY <2>3, <2>4 DEF m
  <1>14. SubSeq(x, i, k) = d
    <2>1. i \in Nat \ {0} /\ k \in 0 .. Len(x) /\ k <= Len(c) /\ i <= k + 1
      BY ONLY <1>1, <1>2, <1>4, <1>6, <1>11
    <2>0. \A j \in i .. k : x[j] = c[j] BY ONLY <1>4, <1>11, <2>1
    <2>3. x \in Seq(A) /\ c \in Seq(A) BY <1>2, <1>11
    <2>2. SubSeq(x, i, k) = SubSeq(c, i, k) BY ONLY <2>0, <2>1, <2>3, SameSlice
    <2> QED BY <1>7, <2>2
  <1> HIDE DEF ev
  <1>15. ASSUME NEW o PROVE DataLines(x, o) = DataLines(ev, o)
    <2> DEFINE m == i - 1
    <2>1. m \in Nat /\ Len(x) = m + Len(d) /\ SubSeq(x, m + 1, m + Len(d)) = d
      BY <1>6, <1>11, <1>14
    <2> HIDE DEF m
    <2>2. DataLines(x, o) = DataLines(SubSeq(x, 1, m), o) BY <1>11, <2>1, DelimiterIsNoLine
    <2> QED BY <1>13, <2>2 DEF m
  <1>16. /\ OpenSince(b)[q] = q + 1
         /\ \A o : Adds(b, p, q, ev, o)
    <2>1. ASSUME NEW o
          PROVE  /\ OpenSince(b)[q] = q + 1
                 /\ Expected(SubSeq(b, 1, q), o) = Expected(SubSeq(b, 1, p), o) \cup
                         ({<<p + 1, q>>} \X DataLines(SubSeq(b, p + 1, q), o))
                 /\ Expected(SubSeq(b, 1, p), o) \cap
                         ({<<p + 1, q>>} \X DataLines(SubSeq(b, p + 1, q), o)) = {}
      BY <1>8, <1>10, OneComplete
    <2> HIDE DEF q
    <2> QED BY <1>12, <1>15, <2>1 DEF Adds
  <1> QED BY <1>5, <1>6, <1>9, <1>13, <1>16 DEF ev

(* _absorb of the next complete event, whichever its delimiter.            *)
LEMMA DrainInv == ASSUME Inv, Drain PROVE Inv'
  <1>1. phase = "drain" /\ UNCHANGED <<body, shape, got, record>> BY DEF Drain
  <1>2. shape = "sse" /\ Parsed BY <1>1 DEF Inv, Kept
  <1>3. body \in Seq(Bytes) /\ got \in 0 .. Len(body) BY DEF Inv
  <1>4. /\ Pos \in 0 .. got /\ buf = SubSeq(body, Pos + 1, got) /\ OpenSince(body)[Pos] = Pos + 1
        /\ IsFiniteSet(Expected(SubSeq(body, 1, Pos), "c"))
        /\ chunks = Cardinality(Expected(SubSeq(body, 1, Pos), "c"))
    BY <1>2 DEF Parsed
  <1>5. usage = (Expected(SubSeq(body, 1, Pos), "u") # {}) BY <1>2 DEF Parsed
  <1>6. CASE EventEnd(buf).sep = 0
    <2>1. phase' = "copy" /\ UNCHANGED <<buf, chunks, usage>> BY <1>6 DEF Drain
    <2>2. Pos' = Pos BY <1>1, <2>1 DEF Pos
    <2>3. Parsed' BY <1>1, <1>2, <1>6, <2>1, <2>2 DEF Parsed
    <2> QED BY <1>1, <1>2, <2>1, <2>3 DEF Inv
  <1>7. CASE EventEnd(buf).sep # 0
    <2> DEFINE p == Pos
               ev == SubSeq(buf, 1, EventEnd(buf).sep - 1)
    <2>1. PICK k \in 1 .. got - p :
             /\ EventEnd(buf).sep > 0 /\ EventEnd(buf).sep + EventEnd(buf).len = k + 1
             /\ OpenSince(body)[p + k] = p + k + 1
             /\ SubSeq(buf, k + 1, Len(buf)) = SubSeq(body, p + k + 1, got)
             /\ Len(SubSeq(body, p + k + 1, got)) = got - p - k
             /\ ev \in Seq(Bytes)
             /\ \A o : Adds(body, p, p + k, ev, o)
      <3>1. p \in 0 .. got /\ OpenSince(body)[p] = p + 1 /\ buf = SubSeq(body, p + 1, got) BY <1>4
      <3> HIDE DEF p
      <3> QED BY ONLY <1>3, <1>7, <3>1, NextEvent
    <2> DEFINE q == p + k
               old(o) == Expected(SubSeq(body, 1, p), o)
               lines(o) == {<<p + 1, q>>} \X DataLines(ev, o)
    <2>2. \A o : Expected(SubSeq(body, 1, q), o) = old(o) \cup lines(o) /\ old(o) \cap lines(o) = {}
      BY <2>1 DEF Adds
    <2>3. /\ phase' = "drain" /\ buf' = SubSeq(buf, k + 1, Len(buf))
          /\ chunks' = chunks + Cardinality(DataLines(ev, "c"))
      BY <1>1, <2>1 DEF Drain, Absorb
    <2>4. usage' = (usage \/ DataLines(ev, "u") # {}) BY <2>1 DEF Drain, Absorb
    <2>5. Len(body) \in Nat /\ got \in Nat /\ p \in Nat /\ q \in 0 .. got /\ got - (got - p - k) = q
      <3>1. Len(body) \in Nat BY <1>3, LenProperties
      <3>2. p \in 0 .. got BY <1>4
      <3> HIDE DEF p
      <3> QED BY <1>3, <3>1, <3>2
    <2>6. buf' = SubSeq(body, q + 1, got) /\ Len(buf') = got - p - k BY <2>1, <2>3
    <2>7. Pos' = q BY <1>1, <2>5, <2>6 DEF Pos
    <2>8. OpenSince(body)[q] = q + 1 BY <2>1
    <2>9. /\ IsFiniteSet(old("c") \cup lines("c"))
          /\ Cardinality(old("c") \cup lines("c")) = chunks + Cardinality(DataLines(ev, "c"))
      <3> DEFINE D == DataLines(ev, "c")
                 r == <<p + 1, q>>
                 L == lines("c")
                 O == old("c")
      <3>1. IsFiniteSet(D) BY <2>1, DataLinesFinite
      <3>2. IsFiniteSet({r}) /\ Cardinality({r}) = 1 BY FS_Singleton
      <3>3. O \cap L = {} /\ IsFiniteSet(O) /\ chunks = Cardinality(O) BY <1>4, <2>2
      <3>4. L = {r} \X D OBVIOUS
      <3> HIDE DEF D, r, L, O
      <3>5. Cardinality(D) \in Nat /\ Cardinality(O) \in Nat BY <3>1, <3>3, FS_CardinalityType
      <3>6. IsFiniteSet(L) /\ Cardinality(L) = Cardinality(D)
        <4>1. IsFiniteSet(L) /\ Cardinality(L) = Cardinality({r}) * Cardinality(D)
          BY <3>1, <3>2, <3>4, FS_Product
        <4> QED BY <3>2, <3>5, <4>1
      <3>7. /\ IsFiniteSet(O \cup L)
            /\ Cardinality(O \cup L) = Cardinality(O) + Cardinality(L) - Cardinality(O \cap L)
        BY <3>3, <3>6, FS_Union
      <3>8. Cardinality(O \cap L) = 0 BY <3>3, FS_EmptySet
      <3>9. IsFiniteSet(O \cup L) /\ Cardinality(O \cup L) = chunks + Cardinality(D)
        BY <3>3, <3>5, <3>6, <3>7, <3>8
      <3> QED BY <3>9 DEF D, L, O
    <2>10. usage' = (old("u") \cup lines("u") # {})
      <3>1. lines("u") # {} <=> DataLines(ev, "u") # {}
        <4> DEFINE r == <<p + 1, q>>
                   D == DataLines(ev, "u")
        <4> HIDE DEF r, D
        <4>1. ASSUME NEW z \in D PROVE <<r, z>> \in {r} \X D OBVIOUS
        <4>2. ASSUME NEW y \in {r} \X D PROVE y[2] \in D OBVIOUS
        <4>3. {r} \X D # {} <=> D # {} BY ONLY <4>1, <4>2
        <4> QED BY <4>3 DEF r, D
      <3>2. usage <=> old("u") # {} BY <1>5
      <3>3. usage' \in BOOLEAN BY <2>4
      <3>4. usage' <=> (usage \/ DataLines(ev, "u") # {}) BY <2>4
      <3> HIDE DEF old, lines
      <3> QED BY <3>1, <3>2, <3>3, <3>4
    <2>11. Parsed'
      <3>1. Pos' \in 0 .. got' /\ buf' = SubSeq(body', Pos' + 1, got')
            /\ OpenSince(body')[Pos'] = Pos' + 1
        BY <1>1, <2>5, <2>6, <2>7, <2>8
      <3>2. SubSeq(body', 1, Pos') = SubSeq(body, 1, q) BY <1>1, <2>7
      <3>3. /\ IsFiniteSet(Expected(SubSeq(body', 1, Pos'), "c"))
            /\ chunks' = Cardinality(Expected(SubSeq(body', 1, Pos'), "c"))
        BY <2>2, <2>3, <2>9, <3>2
      <3>4. usage' = (Expected(SubSeq(body', 1, Pos'), "u") # {}) BY <2>2, <2>10, <3>2
      <3> HIDE DEF q, p, ev
      <3> QED BY <2>3, <3>1, <3>3, <3>4 DEF Parsed
    <2>12. usage' \in BOOLEAN BY <2>4
    <2> QED BY <1>1, <1>2, <1>3, <2>3, <2>11, <2>12 DEF Inv
  <1> QED BY <1>6, <1>7

(* Every step keeps the invariant: the end of the body parses what was     *)
(* kept of a JSON body, and the record is made of what was counted.        *)
LEMMA NextInv == ASSUME Inv, [Next]_vars PROVE Inv'
  <1>1. CASE Copy BY <1>1, CopyInv
  <1>2. CASE Drain BY <1>2, DrainInv
  <1>3. CASE Eof
    <2>1. /\ phase = "copy" /\ got = Len(body) /\ phase' = "end"
          /\ UNCHANGED <<body, shape, got, buf, chunks, record>>
      BY <1>3 DEF Eof
    <2>2. usage' = (usage \/ (shape = "json" /\ buf = <<"u">>)) BY <1>3 DEF Eof
    <2>3. Pos' = Pos BY <2>1 DEF Pos
    <2>4. CASE shape = "sse"
      <3>1. usage' = usage BY <2>2, <2>4 DEF Inv
      <3>2. Parsed' BY <2>1, <2>3, <2>4, <3>1 DEF Inv, Parsed
      <3> QED BY <2>1, <2>4, <3>1, <3>2 DEF Inv
    <2>5. CASE shape # "sse"
      <3>1. Kept /\ body \in Seq(Bytes) BY <2>5 DEF Inv
      <3>2. ~ usage BY <2>1, <3>1 DEF Kept
      <3>3. SubSeq(body, 1, got) = body BY <2>1, <3>1, SubSeqFull
      <3>4. Kept' BY <2>1, <2>2, <3>1, <3>2, <3>3 DEF Kept
      <3>5. usage' \in BOOLEAN BY <2>2
      <3> QED BY <2>1, <2>5, <3>4, <3>5 DEF Inv
    <2> QED BY <2>4, <2>5
  <1>4. CASE Break
    <2>1. phase' = "end" /\ phase = "copy"
          /\ UNCHANGED <<body, shape, got, buf, chunks, usage, record>>
      BY <1>4 DEF Break
    <2>2. Pos' = Pos BY <2>1 DEF Pos
    <2>3. Parsed => Parsed' BY <2>1, <2>2 DEF Parsed
    <2>4. Kept => Kept' BY <2>1 DEF Kept
    <2> QED BY <2>1, <2>3, <2>4 DEF Inv
  <1>5. CASE Fire
    <2>1. phase' = "fired" /\ phase = "end" /\ UNCHANGED <<body, shape, got, buf, chunks, usage>>
          /\ record' = IF usage THEN [source |-> "usage", tokens |-> 0]
                       ELSE [source |-> "delta_count", tokens |-> chunks]
      BY <1>5 DEF Fire
    <2>2. Pos' = Pos BY <2>1 DEF Pos
    <2>3. Parsed => Parsed' BY <2>1, <2>2 DEF Parsed
    <2>4. Kept => Kept' BY <2>1 DEF Kept
    <2> QED BY <2>1, <2>3, <2>4 DEF Inv
  <1>6. CASE UNCHANGED vars
    <2>1. UNCHANGED <<body, shape, got, buf, chunks, usage, phase, record>> BY <1>6 DEF vars
    <2>2. Pos' = Pos BY <2>1 DEF Pos
    <2>3. Parsed => Parsed' BY <2>1, <2>2 DEF Parsed
    <2>4. Kept => Kept' BY <2>1 DEF Kept
    <2> QED BY <2>1, <2>3, <2>4 DEF Inv
  <1> QED BY <1>1, <1>2, <1>3, <1>4, <1>5, <1>6 DEF Next

(* The invariant has the types.                                            *)
LEMMA InvTyped == ASSUME Inv PROVE ChatTyped
  <1>1. chunks \in Nat
    <2>1. CASE shape = "sse" BY <2>1, FS_CardinalityType DEF Inv, Parsed
    <2>2. CASE shape # "sse" BY <2>2 DEF Inv, Kept
    <2> QED BY <2>1, <2>2
  <1>2. phase = "copy" /\ shape = "sse" => EventEnd(buf).sep = 0 BY DEF Inv, Parsed
  <1> QED BY <1>1, <1>2 DEF Inv, ChatTyped

(* Between two chunks the events that are complete are those absorbed.     *)
LEMMA InvCounts == ASSUME Inv PROVE RecordIsRight
  <1>1. ASSUME shape = "sse", phase # "drain", NEW o
        PROVE  Expected(SubSeq(body, 1, got), o) = Expected(SubSeq(body, 1, Pos), o)
    <2> DEFINE p == Pos
    <2>1. body \in Seq(Bytes) /\ got \in 0 .. Len(body) /\ p \in 0 .. got /\ EventEnd(buf).sep = 0
          /\ buf = SubSeq(body, p + 1, got) /\ OpenSince(body)[p] = p + 1
      BY <1>1 DEF Inv, Parsed
    <2> HIDE DEF p
    <2>2. Len(body) \in Nat /\ got \in Nat /\ p \in Nat BY <2>1, LenProperties
    <2>3. buf \in Seq(Bytes) /\ Len(buf) = got - p BY ONLY <2>1, Rest
    <2>4. \A n \in 1 .. got - p : ~ ClosesAt(buf, 1, n) BY ONLY <2>1, <2>3, EventEndFirst
    <2>5. ASSUME NEW n \in p + 1 .. got PROVE ~ ClosesAt(body, p + 1, n)
      <3>1. n - p \in 1 .. got - p /\ p + (n - p) = n BY ONLY <2>2, n \in p + 1 .. got
      <3>2. ClosesAt(buf, 1, n - p) <=> ClosesAt(body, p + 1, p + (n - p))
        BY ONLY <2>1, <3>1, ClosesInRest
      <3> QED BY <2>4, <3>1, <3>2
    <2>6. Expected(SubSeq(body, 1, got), o) = Expected(SubSeq(body, 1, p), o)
      BY ONLY <2>1, <2>5, NothingComplete
    <2> QED BY <2>6 DEF p
  <1>2. CutsDoNotMatter BY <1>1 DEF CutsDoNotMatter, Inv, Parsed
  <1>3. ASSUME phase = "fired"
        PROVE  LET sent == SubSeq(body, 1, got)
               IN /\ shape = "sse" =>
                       record = IF Expected(sent, "u") # {} THEN [source |-> "usage", tokens |-> 0]
                                ELSE [source |-> "delta_count",
                                      tokens |-> Cardinality(Expected(sent, "c"))]
                  /\ shape = "json" /\ record.source = "usage" => sent = <<"u">> /\ sent = body
    <2>1. ASSUME phase = "fired", shape = "sse"
          PROVE  record = IF Expected(SubSeq(body, 1, got), "u") # {}
                          THEN [source |-> "usage", tokens |-> 0]
                          ELSE [source |-> "delta_count",
                                tokens |-> Cardinality(Expected(SubSeq(body, 1, got), "c"))]
      BY <1>2, <2>1 DEF Inv, CutsDoNotMatter
    <2>2. ASSUME phase = "fired", shape = "json", record.source = "usage"
          PROVE  SubSeq(body, 1, got) = <<"u">> /\ SubSeq(body, 1, got) = body
      <3>1. usage BY <2>2 DEF Inv
      <3> QED BY <2>2, <3>1 DEF Inv, Kept
    <2> QED BY <1>3, <2>1, <2>2
  <1> QED BY <1>2, <1>3 DEF RecordIsRight

(* What is counted of a chat completion is what the complete events say    *)
(* that the client was sent, for any body, cut into chunks in any way; and *)
(* the record prefers the usage block to that count.                       *)
THEOREM RecordCounts == Spec => []RecordIsRight
  <1>1. Init => Inv BY InitInv
  <1>2. Inv /\ [Next]_vars => Inv' BY NextInv
  <1>3. Inv => RecordIsRight BY InvCounts
  <1> QED BY <1>1, <1>2, <1>3, PTL DEF Spec

(* The parser's variables keep their types, and no complete event waits in *)
(* the buffer for a chunk that may not come.                               *)
THEOREM ChatTypeCorrect == Spec => []ChatTyped
  <1>1. Init => Inv BY InitInv
  <1>2. Inv /\ [Next]_vars => Inv' BY NextInv
  <1>3. Inv => ChatTyped BY InvTyped
  <1> QED BY <1>1, <1>2, <1>3, PTL DEF Spec
=============================================================================
