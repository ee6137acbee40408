----------------------------- MODULE SwapEngine -----------------------------
(* The llama-swap manager that the adapters share, as one part of what     *)
(* runs on the device.                                                     *)
EXTENDS Naturals

CONSTANTS
    Adapters, Models, Alias, Managers, Pids,
    SwapFaults,  \* which faults may happen
    MaxCrashes

VARIABLES
    s_inst, s_models, s_cbs, s_proc, s_proxy, s_lock, s_glock, s_conf, s_pidfile, s_procs,
    s_loaded, s_hup, s_st, s_mgr, s_crashes

Swap == INSTANCE SwapManager WITH
    Faults <- SwapFaults, inst <- s_inst, models <- s_models, cbs <- s_cbs, proc <- s_proc,
    proxy <- s_proxy, lock <- s_lock, glock <- s_glock, conf <- s_conf,
    pidfile <- s_pidfile, procs <- s_procs, loaded <- s_loaded, hup <- s_hup, st <- s_st,
    mgr <- s_mgr, crashes <- s_crashes

s_vars == <<s_inst, s_models, s_cbs, s_proc, s_proxy, s_lock, s_glock, s_conf, s_pidfile,
    s_procs, s_loaded, s_hup, s_st, s_mgr, s_crashes>>

---------------------------------------------------------------------------
(* A pid that was given to another program is not killed in a reclaim,     *)
(* unless its command line has the words _looks_like_our_llama_swap looks  *)
(* for.                                                                    *)
ForeignSpared == Swap!ForeignSpared

(* SwapManager: between calls the engine serves every model of the         *)
(* adapters that are on, whatever was added, removed, killed or reclaimed, *)
(* and no proxy outlives the engine: a late heartbeat does not bring it    *)
(* back after the last model was removed.                                  *)
EngineServes == Swap!EngineServes /\ Swap!ProxyHasEngine
=============================================================================
