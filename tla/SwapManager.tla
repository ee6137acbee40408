---------------------------- MODULE SwapManager ----------------------------
(***************************************************************************)
(* The llama-swap manager of the language_model plugin (swap_manager.py)   *)
(* and the serving half of its adapter (adapter.py): one public port, the  *)
(* models the adapters register on it, the engine process they share, its  *)
(* pidfile and config file, and the two locks.  Constructors of adapters   *)
(* run under the runtime's ops lock, one at a time; teardowns run on       *)
(* pipeline threads.  Hosts are POSIX (a reload is a SIGHUP).              *)
(***************************************************************************)
EXTENDS Naturals

CONSTANTS
    Adapters, Models,
    Alias,      \* the model_id of each adapter
    Managers,   \* SwapManager objects (one that nothing refers to is made again)
    Pids,
    Faults,     \* which faults may happen
    MaxCrashes  \* bound on how often the agent is killed

AllFaults == {"overlap",  \* a teardown outlives the two seconds _stop_pipeline waits
              "dud",      \* the engine exits at once, or its binary is missing
              "denied",   \* the OS lets us not inspect or terminate a process
              "crash"}

VARIABLES
    inst,      \* _instances: the registered manager, or 0
    models, cbs, proc, proxy,  \* per manager: _models, callbacks, pid of _proc, _proxy
    lock,      \* per manager: the adapter whose thread holds _lock
    glock,     \* the holder of _global_lock
    conf,      \* the models in the config file
    pidfile,   \* its pid, or 0
    procs,     \* what runs under each pid: our engine ("swap"), another program, or
               \* one whose command line looks like our engine's
    loaded,    \* the config of the engine that runs
    hup,       \* a SIGHUP is on its way to it
    st, mgr,   \* per adapter: where it is, and its manager
    crashes

mem == <<inst, models, cbs, proc, proxy>>
locks == <<lock, glock>>
os == <<procs, loaded, hup>>
files == <<conf, pidfile>>
vars == <<inst, models, cbs, proc, proxy, lock, glock, conf, pidfile, procs, loaded, hup,
          st, mgr, crashes>>

NoOne == "no one"
Building == {"get", "register", "add", "reclaim", "spawn", "record", "settle"}
Ending == {"unregister", "remove", "stop", "pop"}
Locked == {"reclaim", "spawn", "record", "settle", "stop", "pop"}

\* The types, and where each lock is held.
TypeOK ==
    /\ \A a \in Adapters : st[a] \in Locked => lock[mgr[a]] = a
    /\ \A m \in Managers : lock[m] # NoOne => mgr[lock[m]] = m /\ st[lock[m]] \in Locked
    /\ \A a \in Adapters : (glock = a) = (st[a] = "register")
    /\ inst \in Managers \cup {0}
    /\ models \in [Managers -> SUBSET Models] /\ cbs \in [Managers -> SUBSET Adapters]
    /\ proc \in [Managers -> Pids \cup {0}] /\ proxy \in [Managers -> BOOLEAN]
    /\ lock \in [Managers -> Adapters \cup {NoOne}] /\ glock \in Adapters \cup {NoOne}
    /\ conf \subseteq Models /\ pidfile \in Pids \cup {0}
    /\ procs \in [Pids -> {"free", "swap", "foreign", "alike"}] /\ loaded \subseteq Models
    /\ hup \in BOOLEAN
    /\ st \in [Adapters -> {"off", "on"} \cup Building \cup Ending]
    /\ mgr \in [Adapters -> Managers \cup {0}] /\ crashes \in 0..MaxCrashes

FreshMemory ==
    [inst |-> 0, models |-> [m \in Managers |-> {}], cbs |-> [m \in Managers |-> {}],
     proc |-> [m \in Managers |-> 0], proxy |-> [m \in Managers |-> FALSE],
     lock |-> [m \in Managers |-> NoOne], glock |-> NoOne,
     st |-> [a \in Adapters |-> "off"], mgr |-> [a \in Adapters |-> 0]]

Init ==
    /\ inst = FreshMemory.inst /\ models = FreshMemory.models
    /\ cbs = FreshMemory.cbs /\ proc = FreshMemory.proc /\ proxy = FreshMemory.proxy
    /\ lock = FreshMemory.lock /\ glock = FreshMemory.glock
    /\ st = FreshMemory.st /\ mgr = FreshMemory.mgr
    /\ conf = {} /\ pidfile = 0 /\ procs = [p \in Pids |-> "free"] /\ loaded = {} /\ hup = FALSE
    /\ crashes = 0

-----------------------------------------------------------------------------
Running(m) == proc[m] # 0 /\ procs[proc[m]] = "swap"
PortInUse == \E p \in Pids : procs[p] = "swap"
Goto(a, there) == st' = [st EXCEPT ![a] = there]
Free(m) == lock[m] = NoOne
Take(a) == lock' = [lock EXCEPT ![mgr[a]] = a]
Release(a) == lock' = [lock EXCEPT ![mgr[a]] = NoOne]

\* The constructor raises: the pipeline is not built, and nobody calls stop().
Raises(a) == Goto(a, "off") /\ Release(a)

\* A running engine is told to read its config again.
Reload(m) == hup' = (hup \/ Running(m))

-----------------------------------------------------------------------------
(* LanguageModel.__init__ in serve mode.                                   *)

Construct(a) ==
    /\ st[a] = "off" /\ \A b \in Adapters : st[b] \notin Building
    /\ "overlap" \in Faults \/ \A b \in Adapters : st[b] \notin Ending
    /\ Goto(a, "get")
    /\ UNCHANGED <<mem, locks, files, os, mgr, crashes>>

\* get_swap_manager, under the global lock: look up or create ...
GetManager(a) ==
    /\ st[a] = "get" /\ glock = NoOne
    /\ IF inst # 0
       THEN mgr' = [mgr EXCEPT ![a] = inst] /\ UNCHANGED <<inst, models, cbs, proc, proxy>>
       ELSE \E m \in Managers \ {mgr[b] : b \in Adapters \ {a}} :
            /\ inst' = m /\ mgr' = [mgr EXCEPT ![a] = m]
            /\ models' = [models EXCEPT ![m] = {}] /\ cbs' = [cbs EXCEPT ![m] = {}]
            /\ proc' = [proc EXCEPT ![m] = 0] /\ proxy' = [proxy EXCEPT ![m] = FALSE]
    /\ glock' = a /\ Goto(a, "register")
    /\ UNCHANGED <<lock, files, os, crashes>>

\* ... and still under it, add_telemetry_callback, under the manager's lock.
RegisterCallback(a) ==
    /\ st[a] = "register" /\ Free(mgr[a])
    /\ cbs' = [cbs EXCEPT ![mgr[a]] = @ \cup {a}] /\ glock' = NoOne /\ Goto(a, "add")
    /\ UNCHANGED <<inst, models, proc, proxy, lock, files, os, mgr, crashes>>

AddModel(a) ==
    LET m == mgr[a] IN
    /\ st[a] = "add" /\ Free(m)
    /\ models' = [models EXCEPT ![m] = @ \cup {Alias[a]}] /\ conf' = models'[m]
    /\ IF Running(m) THEN Reload(m) /\ Goto(a, "on") /\ UNCHANGED lock
       ELSE Goto(a, "reclaim") /\ Take(a) /\ UNCHANGED hup
    /\ UNCHANGED <<inst, cbs, proc, proxy, glock, pidfile, procs, loaded, mgr, crashes>>

\* Mutant: any process under the recorded pid is taken for ours.
LooksLikeAnything(p) == procs[p] # "free"
\* _looks_like_our_llama_swap: "llama-swap" and the config path or the address
\* somewhere in the command line (127.0.0.1:8080 is part of 127.0.0.1:80801).
LooksLikeOurs(p) == procs[p] \in {"swap", "alike"}

\* _reclaim_previous_instance: an orphan of ours is terminated; of anything
\* else only the pidfile is removed.
Reclaim(a) ==
    /\ st[a] = "reclaim"
    /\ \/ pidfile = 0 /\ UNCHANGED <<pidfile, procs>>
       \/ pidfile # 0 /\ ~LooksLikeOurs(pidfile) /\ pidfile' = 0 /\ UNCHANGED procs
       \/ pidfile # 0 /\ "denied" \in Faults /\ pidfile' \in {0, pidfile} /\ UNCHANGED procs
       \/ /\ pidfile # 0 /\ LooksLikeOurs(pidfile)
          /\ pidfile' = 0 /\ procs' = [procs EXCEPT ![pidfile] = "free"]
    /\ Goto(a, "spawn")
    /\ UNCHANGED <<mem, locks, conf, loaded, hup, mgr, crashes>>

\* _start: refused while the port is held; otherwise the process is spawned.
Spawn(a) ==
    LET m == mgr[a] IN
    /\ st[a] = "spawn"
    /\ \/ (PortInUse \/ "dud" \in Faults) /\ Raises(a) /\ UNCHANGED <<proc, procs, loaded, hup>>
       \/ /\ ~PortInUse
          /\ \E p \in Pids : /\ procs[p] = "free"
                             /\ procs' = [procs EXCEPT ![p] = "swap"]
                             /\ proc' = [proc EXCEPT ![m] = p]
          /\ loaded' = conf /\ hup' = FALSE /\ Goto(a, "record") /\ UNCHANGED lock
    /\ UNCHANGED <<inst, models, cbs, proxy, glock, files, mgr, crashes>>

RecordPid(a) ==
    /\ st[a] = "record"
    /\ pidfile' = proc[mgr[a]] /\ Goto(a, "settle")
    /\ UNCHANGED <<mem, locks, conf, os, mgr, crashes>>

\* One second later it runs, and the proxy is put before it; or it is gone.
Settle(a) ==
    LET m == mgr[a] IN
    /\ st[a] = "settle"
    /\ \/ /\ Running(m)
          /\ proxy' = [proxy EXCEPT ![m] = TRUE] /\ Goto(a, "on") /\ Release(a)
          /\ UNCHANGED <<pidfile, procs>>
       \/ /\ ~Running(m) \/ "dud" \in Faults
          /\ procs' = IF Running(m) THEN [procs EXCEPT ![proc[m]] = "free"] ELSE procs
          /\ pidfile' = 0 /\ Raises(a) /\ UNCHANGED proxy
    /\ UNCHANGED <<inst, models, cbs, proc, glock, conf, loaded, hup, mgr, crashes>>

-----------------------------------------------------------------------------
(* LanguageModel.stop.                                                     *)

Stop(a) ==
    /\ st[a] = "on"
    /\ "overlap" \in Faults \/ \A b \in Adapters : st[b] \notin Building \cup Ending
    /\ Goto(a, "unregister")
    /\ UNCHANGED <<mem, locks, files, os, mgr, crashes>>

\* remove_telemetry_callback.
Unregister(a) ==
    /\ st[a] = "unregister" /\ Free(mgr[a])
    /\ cbs' = [cbs EXCEPT ![mgr[a]] = @ \ {a}] /\ Goto(a, "remove")
    /\ UNCHANGED <<inst, models, proc, proxy, locks, files, os, mgr, crashes>>

\* Mutant: the lock is kept when models remain.
RemoveModelLocked(a) ==
    LET m == mgr[a]
        left == models[m] \ {Alias[a]}
    IN
    /\ st[a] = "remove" /\ Free(m) /\ Take(a)
    /\ models' = [models EXCEPT ![m] = left]
    /\ IF left = {} THEN Goto(a, "stop") /\ proxy' = [proxy EXCEPT ![m] = FALSE] /\ UNCHANGED <<conf, hup>>
       ELSE Goto(a, "off") /\ conf' = left /\ Reload(m) /\ UNCHANGED proxy
    /\ UNCHANGED <<inst, cbs, proc, glock, pidfile, procs, loaded, mgr, crashes>>
\* remove_model: the last model stops the proxy and then the engine.
RemoveModel(a) ==
    LET m == mgr[a]
        left == models[m] \ {Alias[a]}
    IN
    /\ st[a] = "remove" /\ Free(m)
    /\ models' = [models EXCEPT ![m] = left]
    /\ \/ /\ left = models[m]
          /\ Goto(a, "off") /\ UNCHANGED <<lock, proxy, conf, hup>>
       \/ /\ left # models[m] /\ left # {}
          /\ Goto(a, "off") /\ conf' = left /\ Reload(m) /\ UNCHANGED <<lock, proxy>>
       \/ /\ left # models[m] /\ left = {}
          /\ proxy' = [proxy EXCEPT ![m] = FALSE]
          /\ Goto(a, "stop") /\ Take(a) /\ UNCHANGED <<conf, hup>>
    /\ UNCHANGED <<inst, cbs, proc, glock, pidfile, procs, loaded, mgr, crashes>>

\* _stop, and the config file goes.
StopEngine(a) ==
    LET m == mgr[a] IN
    /\ st[a] = "stop"
    /\ IF Running(m)
       THEN /\ procs' = [procs EXCEPT ![proc[m]] = "free"] /\ hup' = FALSE
            /\ proc' = [proc EXCEPT ![m] = 0] /\ pidfile' = 0
       ELSE UNCHANGED <<procs, hup, proc, pidfile>>
    /\ conf' = {} /\ Goto(a, "pop")
    /\ UNCHANGED <<inst, models, cbs, proxy, locks, loaded, mgr, crashes>>

\* The registry forgets the port, with the manager's lock still held.
PopInstance(a) ==
    /\ st[a] = "pop" /\ glock = NoOne
    /\ inst' = 0 /\ Goto(a, "off") /\ Release(a)
    /\ UNCHANGED <<models, cbs, proc, proxy, glock, files, os, mgr, crashes>>

-----------------------------------------------------------------------------
\* Mutant: a proxy is started whether an engine runs or not.
EnsureProxyAlways(m) == proxy' = [proxy EXCEPT ![m] = TRUE]
\* ensure_proxy: no-op without a running engine.
EnsureProxy(m) == proxy' = [proxy EXCEPT ![m] = @ \/ Running(m)]

\* A round of an adapter's heartbeat; its last one may come after stop().
Heartbeat(a) ==
    /\ mgr[a] # 0 /\ Free(mgr[a]) /\ EnsureProxy(mgr[a])
    /\ UNCHANGED <<inst, models, cbs, proc, locks, files, os, st, mgr, crashes>>

\* llama-swap reads the config again.
EngineReloads ==
    /\ hup /\ hup' = FALSE /\ loaded' = conf
    /\ UNCHANGED <<mem, locks, files, procs, st, mgr, crashes>>

EngineDies(p) ==
    /\ procs[p] = "swap" /\ procs' = [procs EXCEPT ![p] = "free"] /\ hup' = FALSE
    /\ "dud" \in Faults \/ \A a \in Adapters : st[a] \notin {"record", "settle"}
    /\ UNCHANGED <<mem, locks, files, loaded, st, mgr, crashes>>

\* The OS gives a pid to another program (one at most, for the bound).
PidTaken(p) ==
    /\ procs[p] = "free" /\ \A q \in Pids : procs[q] \in {"free", "swap"}
    /\ \E other \in {"foreign", "alike"} : procs' = [procs EXCEPT ![p] = other]
    /\ UNCHANGED <<mem, locks, files, loaded, hup, st, mgr, crashes>>

\* The agent is killed: files and engine stay.
Crash ==
    /\ "crash" \in Faults /\ crashes < MaxCrashes /\ crashes' = crashes + 1
    /\ inst' = FreshMemory.inst /\ models' = FreshMemory.models
    /\ cbs' = FreshMemory.cbs /\ proc' = FreshMemory.proc /\ proxy' = FreshMemory.proxy
    /\ lock' = FreshMemory.lock /\ glock' = FreshMemory.glock
    /\ st' = FreshMemory.st /\ mgr' = FreshMemory.mgr
    /\ UNCHANGED <<files, os>>

Works(a) ==
    \/ GetManager(a) \/ RegisterCallback(a) \/ AddModel(a) \/ Reclaim(a) \/ Spawn(a)
    \/ RecordPid(a) \/ Settle(a) \/ Unregister(a) \/ RemoveModel(a) \/ StopEngine(a)
    \/ PopInstance(a)
Next ==
    \/ \E a \in Adapters : Construct(a) \/ Stop(a) \/ Works(a) \/ Heartbeat(a)
    \/ \E p \in Pids : EngineDies(p) \/ PidTaken(p)
    \/ EngineReloads \/ Crash

Spec == Init /\ [][Next]_vars
\* A thread inside a call goes on when it can: every wait has a timeout.
Fairness == \A a \in Adapters : WF_vars(Works(a))
FairSpec == Spec /\ Fairness

-----------------------------------------------------------------------------
Serving == {Alias[a] : a \in {b \in Adapters : st[b] = "on"}}
Quiet == \A a \in Adapters : st[a] \in {"off", "on"}

\* Between calls the engine serves every model of the adapters that are on,
\* whatever was added, removed, killed or reclaimed before.
EngineServes ==
    Quiet /\ ~hup /\ inst # 0 /\ Running(inst) => Serving \subseteq loaded

\* What an adapter that went off leaves behind: no callback, and no engine of
\* this process after the last one.
NothingLeft ==
    Quiet => \A m \in Managers :
        /\ \A a \in cbs[m] : st[a] = "on"
        /\ Serving = {} => ~Running(m)

\* A proxy never outlives the manager's engine: a late heartbeat does not
\* bring it back after the last model was removed.
ProxyHasEngine == \A m \in Managers : proxy[m] => proc[m] # 0

\* A pid that was given to another program is not killed in a reclaim, unless
\* its command line has the words that are looked for.
ForeignSpared == [][\A p \in Pids : procs[p] = "foreign" => procs'[p] = "foreign"]_vars

\* Every construction and every teardown comes to its end.
CallReturns == \A a \in Adapters : (st[a] \in Building \cup Ending) ~> (st[a] \in {"off", "on"})

\* No two threads wait for each other's lock.
NoLockCycle ==
    ~\E a, b \in Adapters : st[a] = "register" /\ st[b] = "pop" /\ lock[mgr[a]] = b /\ glock = a

\* What the registry's comment says: one SwapManager per (host, port).
OneManager ==
    \A m, n \in Managers : models[m] # {} /\ models[n] # {} => m = n

\* What the docstring of _looks_like_our_llama_swap says: not even a different
\* llama-swap instance that got the pid is killed.
OthersSpared == [][\A p \in Pids : procs[p] \notin {"free", "swap"} => procs'[p] = procs[p]]_vars

\* What the header says of orphans: the next start reclaims its own.
OrphanReclaimed == \A a \in Adapters : st[a] = "spawn" => ~PortInUse
=============================================================================
