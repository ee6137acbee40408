---------------------------- MODULE MCPipelines ----------------------------
(* What runs on the device, for TLC: a model's pipeline that two threads   *)
(* start, serve, update, stop and deploy, with kills and with saves that   *)
(* fail or overlap; the same reconfigured by both (Twice); two by one      *)
(* (Pair); and the llama-swap manager two adapters share, with engines     *)
(* that fail, refused signals and a crash (Swap).  A behaviour is one of   *)
(* the part it chooses at the start, the others stay in one first state.   *)
EXTENDS Pipelines, SwapEngine

VARIABLES
    part,  \* which part moves
    t_base, t_mem, t_shared, t_pipe, t_up, t_live, t_told, t_cache, t_file,
    t_late, t_saved, t_ops, t_pc, t_job, t_boots,
    r_base, r_mem, r_shared, r_pipe, r_up, r_live, r_told, r_cache, r_file,
    r_late, r_saved, r_ops, r_pc, r_job, r_boots

C(v, on) == [ver |-> v, serve |-> FALSE, active |-> on]
Nothing(P) == [p \in P |-> None]
OneConf == {C(1, FALSE)}
BaseTargets == {[p \in Pipelines |-> c] : c \in {None, C(2, TRUE)}}
TwiceTargets == {[p \in {"b"} |-> C(2, TRUE)]}
PairTargets ==
    {[p \in {"a", "b"} |-> IF p = "a" THEN C(1, TRUE) ELSE None],
     [p \in {"a", "b"} |-> IF p = "a" THEN C(1, TRUE) ELSE C(2, TRUE)],
     [p \in {"a", "b"} |-> C(2, p = "a")]}
OwnAlias == [a \in {"a1", "a2"} |-> IF a = "a1" THEN "x" ELSE "y"]

Twice == INSTANCE Pipelines WITH
    Pipelines <- {"b"}, Versions <- {1, 2}, Threads <- {"t1", "t2"},
    Kinds <- {"reconfig", "start", "stop"}, Confs <- {C(1, FALSE)},
    Targets <- TwiceTargets, Default <- Nothing({"b"}), SaveFaults <- {},
    MaxBoots <- 0, base <- t_base, mem <- t_mem, shared <- t_shared, pipe <- t_pipe,
    up <- t_up, live <- t_live, told <- t_told, cache <- t_cache, file <- t_file,
    late <- t_late, saved <- t_saved, ops <- t_ops, pc <- t_pc, job <- t_job,
    boots <- t_boots

Pair == INSTANCE Pipelines WITH
    Pipelines <- {"a", "b"}, Versions <- {1, 2}, Threads <- {"t1"},
    Kinds <- {"reconfig", "start", "stop", "uninstall"}, Confs <- {C(1, FALSE)},
    Targets <- PairTargets, Default <- Nothing({"a", "b"}), SaveFaults <- {},
    MaxBoots <- 0, base <- r_base, mem <- r_mem, shared <- r_shared, pipe <- r_pipe,
    up <- r_up, live <- r_live, told <- r_told, cache <- r_cache, file <- r_file,
    late <- r_late, saved <- r_saved, ops <- r_ops, pc <- r_pc, job <- r_job,
    boots <- r_boots

t_vars == <<t_base, t_mem, t_shared, t_pipe, t_up, t_live, t_told, t_cache, t_file,
    t_late, t_saved, t_ops, t_pc, t_job, t_boots>>
r_vars == <<r_base, r_mem, r_shared, r_pipe, r_up, r_live, r_told, r_cache, r_file,
    r_late, r_saved, r_ops, r_pc, r_job, r_boots>>

PartsInit ==
    /\ part \in {"base", "twice", "pair", "swap"}
    /\ IF part = "base" THEN Init ELSE base = Nothing(Pipelines) /\ Init
    /\ IF part = "twice" THEN Twice!Init ELSE t_up = {} /\ Twice!Init
    /\ IF part = "pair" THEN Pair!Init
       ELSE r_base = [p \in {"a", "b"} |-> C(2, p = "a")] /\ r_up = {} /\ Pair!Init
    /\ Swap!Init

PartsNext ==
    \/ part = "base" /\ Next /\ UNCHANGED <<part, t_vars, r_vars, s_vars>>
    \/ part = "twice" /\ Twice!Next /\ UNCHANGED <<part, vars, r_vars, s_vars>>
    \/ part = "pair" /\ Pair!Next /\ UNCHANGED <<part, vars, t_vars, s_vars>>
    \/ part = "swap" /\ Swap!Next /\ UNCHANGED <<part, vars, t_vars, r_vars>>

PartsSpec == PartsInit /\ [][PartsNext]_<<part, vars, t_vars, r_vars, s_vars>>

---------------------------------------------------------------------------
(* apply_config: a config is published only when the runtime tracks what   *)
(* it says and nothing of what it drops or turns off is alive, whatever    *)
(* fails on the way there or back and whoever else starts and stops        *)
(* pipelines; and no pipeline runs twice on that way.                      *)
ReconfigAppliedWhole ==
    /\ Twice!AppliedWhole /\ Pair!AppliedWhole
    /\ [](Twice!OneInstance /\ Pair!OneInstance)
=============================================================================
