---------------------------- MODULE MCReporting ----------------------------
(* What the agent hears from Control and tells it, for TLC: the uninstall  *)
(* reports without and with kills and a failing disk (Faulty), the command *)
(* intake with one transport (Polled) and with both (Both), the handlers   *)
(* of two threads (Pipes), the logger with one handler (Steady) and with a *)
(* rebuild (Log).  A behaviour is one of the part it chooses at the start, *)
(* while the others stay in one first state, so that their state spaces    *)
(* add up and are not multiplied.                                          *)
EXTENDS UninstallReports

CONSTANTS
    FaultyFaults, MaxFaulty,                     \* of Faulty, which has the rest from above
    MaxCmds, Deploys, Sources, Window, PollFaults, MaxBoots,                     \* of Polled
    Threads, MaxRecords, QueueMax, MaxRetries, MaxHandlers, MaxLate, Kinds       \* of Steady

VARIABLES
    part,  \* which part moves
    f_here, f_shown, f_worker, f_pending, f_unread, f_flushing, f_todo, f_left, f_deploys,
    f_faults,
    p_issued, p_backlog, p_reports, p_work, p_answered, p_queue, p_batch, p_busy, p_seen,
    p_ran, p_faults, p_boots,
    b_issued, b_backlog, b_reports, b_work, b_answered, b_queue, b_batch, b_busy, b_seen,
    b_ran, b_faults, b_boots,
    c_base, c_mem, c_shared, c_pipe, c_up, c_live, c_told, c_cache, c_file, c_late, c_saved,
    c_ops, c_pc, c_job, c_boots,
    s_kind, s_attached, s_newest, s_stop, s_queue, s_sending, s_ended, s_attempt, s_holds,
    s_next, s_by, s_fate, s_sent, s_timely, s_late, s_rebuild,
    l_kind, l_attached, l_newest, l_stop, l_queue, l_sending, l_ended, l_attempt, l_holds,
    l_next, l_by, l_fate, l_sent, l_timely, l_late, l_rebuild

C(v, on) == [ver |-> v, serve |-> FALSE, active |-> on]

Faulty == INSTANCE UninstallReports WITH
    MaxFaults <- MaxFaulty, Faults <- FaultyFaults, here <- f_here, shown <- f_shown,
    worker <- f_worker, pending <- f_pending, unread <- f_unread, flushing <- f_flushing,
    todo <- f_todo, left <- f_left, deploys <- f_deploys, faults <- f_faults

Polled == INSTANCE CommandDelivery WITH
    MaxFaults <- PollFaults, issued <- p_issued, backlog <- p_backlog,
    reports <- p_reports, work <- p_work, answered <- p_answered, queue <- p_queue,
    batch <- p_batch, busy <- p_busy,
    seen <- p_seen, ran <- p_ran, faults <- p_faults, boots <- p_boots

Both == INSTANCE CommandDelivery WITH
    MaxCmds <- 2, Deploys <- {1}, Sources <- {"http", "zenoh"}, Window <- 1, MaxFaults <- 1,
    MaxBoots <- 1, issued <- b_issued, backlog <- b_backlog, reports <- b_reports,
    work <- b_work, answered <- b_answered, queue <- b_queue,
    batch <- b_batch, busy <- b_busy, seen <- b_seen, ran <- b_ran, faults <- b_faults,
    boots <- b_boots

Pipes == INSTANCE Pipelines WITH
    Pipelines <- {"b"}, Versions <- {1, 2}, Threads <- {"t1", "t2"},
    Kinds <- {"stop", "infer", "reconfig"}, Confs <- {C(1, FALSE)},
    Targets <- {[p \in {"b"} |-> C(2, TRUE)]}, Default <- [p \in {"b"} |-> C(0, FALSE)],
    SaveFaults <- {}, MaxBoots <- 0, base <- c_base, mem <- c_mem, shared <- c_shared,
    pipe <- c_pipe, up <- c_up, live <- c_live, told <- c_told, cache <- c_cache,
    file <- c_file, late <- c_late, saved <- c_saved, ops <- c_ops, pc <- c_pc,
    job <- c_job, boots <- c_boots

Steady == INSTANCE Reporter WITH
    kind <- s_kind, attached <- s_attached, newest <- s_newest, stop <- s_stop,
    queue <- s_queue, sending <- s_sending, ended <- s_ended, attempt <- s_attempt,
    holds <- s_holds, next <- s_next, by <- s_by, fate <- s_fate, sent <- s_sent,
    timely <- s_timely, late <- s_late, rebuild <- s_rebuild

Log == INSTANCE Reporter WITH
    Threads <- {"t1", "t2"}, MaxRecords <- 2, QueueMax <- 2, MaxRetries <- 1,
    MaxHandlers <- 2, MaxLate <- 0, Kinds <- {"http", "zenoh"}, kind <- l_kind,
    attached <- l_attached, newest <- l_newest, stop <- l_stop, queue <- l_queue, sending <- l_sending,
    ended <- l_ended, attempt <- l_attempt, holds <- l_holds, next <- l_next, by <- l_by,
    fate <- l_fate, sent <- l_sent, timely <- l_timely, late <- l_late, rebuild <- l_rebuild

f_vars == <<f_here, f_shown, f_worker, f_pending, f_unread, f_flushing, f_todo, f_left,
    f_deploys, f_faults>>
p_vars == <<p_issued, p_backlog, p_reports, p_work, p_answered, p_queue, p_batch, p_busy,
    p_seen, p_ran, p_faults, p_boots>>
b_vars == <<b_issued, b_backlog, b_reports, b_work, b_answered, b_queue, b_batch, b_busy,
    b_seen, b_ran, b_faults, b_boots>>
c_vars == <<c_base, c_mem, c_shared, c_pipe, c_up, c_live, c_told, c_cache, c_file, c_late,
    c_saved, c_ops, c_pc, c_job, c_boots>>
s_vars == <<s_kind, s_attached, s_newest, s_stop, s_queue, s_sending, s_ended, s_attempt,
    s_holds, s_next, s_by, s_fate, s_sent, s_timely, s_late, s_rebuild>>
l_vars == <<l_kind, l_attached, l_newest, l_stop, l_queue, l_sending, l_ended, l_attempt,
    l_holds, l_next, l_by, l_fate, l_sent, l_timely, l_late, l_rebuild>>

PartsInit ==
    /\ part \in {"reports", "faulty", "polled", "both", "pipes", "steady", "log"}
    /\ Init /\ Faulty!Init /\ Polled!Init /\ Both!Init
    /\ IF part = "pipes" THEN Pipes!Init ELSE c_up = {} /\ Pipes!Init
    /\ Steady!Init /\ (part # "steady" => s_kind = [h \in {1} |-> "http"])
    /\ Log!Init /\ (part # "log" => l_kind = [h \in 1 .. 2 |-> "http"])

PartsNext ==
    \/ part = "reports" /\ Next /\ UNCHANGED <<part, f_vars, p_vars, b_vars, c_vars, s_vars, l_vars>>
    \/ part = "faulty" /\ Faulty!Next /\ UNCHANGED <<part, vars, p_vars, b_vars, c_vars, s_vars, l_vars>>
    \/ part = "polled" /\ Polled!Next /\ UNCHANGED <<part, vars, f_vars, b_vars, c_vars, s_vars, l_vars>>
    \/ part = "both" /\ Both!Next /\ UNCHANGED <<part, vars, f_vars, p_vars, c_vars, s_vars, l_vars>>
    \/ part = "pipes" /\ Pipes!Next /\ UNCHANGED <<part, vars, f_vars, p_vars, b_vars, s_vars, l_vars>>
    \/ part = "steady" /\ Steady!Next /\ UNCHANGED <<part, vars, f_vars, p_vars, b_vars, c_vars, l_vars>>
    \/ part = "log" /\ Log!Next /\ UNCHANGED <<part, vars, f_vars, p_vars, b_vars, c_vars, s_vars>>

\* In its first state no part has a step that it must take.
PartsSpec ==
    /\ PartsInit /\ [][PartsNext]_<<part, vars, f_vars, p_vars, b_vars, c_vars, s_vars, l_vars>>
    /\ Fairness /\ Both!Fairness /\ Pipes!Fairness /\ Log!Fairness

---------------------------------------------------------------------------
(* A report that was queued stays queued until Control has it, also when   *)
(* the process is killed or the disk refuses a write                       *)
(* (_flush_pending_uninstall_reports); only a queue file that cannot be    *)
(* read loses reports (_load_pending_uninstalls).                          *)
QueueSurvivesFaults == Faulty!DroppedWhenDelivered

(* Control stops showing a model that was removed, once its requests get   *)
(* through (_flush_pending_uninstall_reports); a record that is in the     *)
(* queue when its handler is closed is sent or given up with its retries   *)
(* (AsyncHandler.close).                                                   *)
ReportsSettled == RemovalShown /\ Log!QueuedIsSettled

(* What goes over one transport keeps its order: commands are handled in   *)
(* the order Control issued them and none twice, although a handler that   *)
(* raises ends its batch (AgentCommand); what a thread reports to a        *)
(* handler reaches Control before anything it reported later, except for   *)
(* requests that the handler had given up (AsyncHandler).                  *)
InOrder == Polled!AtMostOnce /\ Polled!InOrder /\ Steady!ReportsInOrder

(* Every command that was issued is answered at last, with both            *)
(* transports, a window of one, deploys that go on in their worker and a   *)
(* restart, and no start, stop or reconfiguration waits for ever for       *)
(* _pipeline_ops_lock: it is answered, or ends in the restart it asks for. *)
CommandsEnd == Both!EveryCommandAnswered /\ Pipes!CommandAnswered
=============================================================================
