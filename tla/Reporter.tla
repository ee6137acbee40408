------------------------------ MODULE Reporter ------------------------------
(* Reports and logs on their way to Control (src/link/utils/logger.py): a  *)
(* thread that reports puts a record into the bounded queue of the         *)
(* attached handler, the handler's worker sends it over HTTP (with         *)
(* retries) or Zenoh, and a new configuration closes the handlers and      *)
(* attaches new ones while the agent's threads go on reporting.            *)
EXTENDS Naturals, SequencesExt

CONSTANTS
    Threads,     \* threads that report
    MaxRecords,  \* bound on records
    QueueMax,    \* maxsize of a handler's queue
    MaxRetries,  \* _MAX_RETRIES
    MaxHandlers, \* handlers that are attached one after the other
    MaxLate,     \* bound on requests that arrive after they were given up
    Kinds        \* the transports: "http", "zenoh"

Record == 1 .. MaxRecords
Handler == 1 .. MaxHandlers
None == 0

VARIABLES
    kind,      \* the transport of each handler
    attached,  \* the logger's handler, None while there is none
    newest,    \* handlers made so far
    stop,      \* handlers whose _stop_event is set
    queue,     \* the records in each handler's queue
    sending,   \* the record each handler's worker sends, None while it waits
    ended,     \* handlers whose worker has ended
    attempt,   \* the worker's attempt at its record
    holds,     \* the record each thread is putting, and the handler it puts it to
    next,      \* the next record
    by,        \* which thread made each record
    fate,      \* what became of each record
    sent,      \* the records that reached Control, in the order they did
    timely,    \* history: which of these arrivals the worker was still waiting for
    late,      \* requests for each record that timed out and may still arrive
    rebuild    \* where rebuild_handlers is

vars == <<kind, attached, newest, stop, queue, sending, ended, attempt, holds, next, by, fate,
          sent, timely, late, rebuild>>
handlerVars == <<kind, attached, newest, stop, rebuild>>
arrivals == <<sent, timely, late>>
Free == [rec |-> None, to |-> None]

Init ==
    /\ kind \in [Handler -> Kinds]
    /\ attached = 1 /\ newest = 1 /\ stop = {} /\ rebuild = "idle"
    /\ queue = [h \in Handler |-> <<>>] /\ sending = [h \in Handler |-> None] /\ ended = {}
    /\ attempt = [h \in Handler |-> 0] /\ holds = [t \in Threads |-> Free]
    /\ next = 1 /\ by = [r \in Record |-> None] /\ fate = [r \in Record |-> "none"]
    /\ sent = <<>> /\ timely = {} /\ late = [r \in Record |-> 0]

\* report_lifecycle, report_command, report_model, report_deployment_progress:
\* a record for the handler that is attached now, under the lock that logging
\* takes around emit.  emit returns at once when its handler is being closed.
Report(t) ==
    /\ next <= MaxRecords /\ \A u \in Threads : holds[u] = Free \/ (u # t /\ holds[u].to # attached)
    /\ next' = next + 1 /\ by' = [by EXCEPT ![next] = t]
    /\ IF attached = None \/ attached \in stop
       THEN fate' = [fate EXCEPT ![next] = "lost"] /\ holds' = holds
       ELSE /\ fate' = [fate EXCEPT ![next] = "held"]
            /\ holds' = [holds EXCEPT ![t] = [rec |-> next, to |-> attached]]
    /\ UNCHANGED <<handlerVars, queue, sending, ended, attempt, arrivals>>

\* put_nowait: a record that finds the queue full is dropped and counted.
Put(t) ==
    /\ holds[t] # Free /\ holds' = [holds EXCEPT ![t] = Free]
    /\ LET r == holds[t].rec
           h == holds[t].to
       IN IF Len(queue[h]) < QueueMax
          THEN queue' = [queue EXCEPT ![h] = Append(@, r)] /\ fate' = [fate EXCEPT ![r] = "queued"]
          ELSE queue' = queue /\ fate' = [fate EXCEPT ![r] = "dropped"]
    /\ UNCHANGED <<handlerVars, sending, ended, attempt, next, by, arrivals>>

\* The worker takes the next record, also after the stop, until none is left.
Get(h) ==
    /\ h <= newest /\ h \notin ended /\ sending[h] = None /\ queue[h] # <<>>
    /\ sending' = [sending EXCEPT ![h] = Head(queue[h])]
    /\ queue' = [queue EXCEPT ![h] = Tail(@)] /\ attempt' = [attempt EXCEPT ![h] = 0]
    /\ UNCHANGED <<handlerVars, ended, holds, next, by, fate, arrivals>>

\* Mutant: the worker ends at the stop, without the drain.
WorkerEndsAtStop(h) ==
    /\ h \in stop \ ended /\ sending[h] = None /\ ended' = ended \cup {h}
    /\ UNCHANGED <<handlerVars, queue, sending, attempt, holds, next, by, fate, arrivals>>

WorkerEnds(h) ==
    /\ h \in stop \ ended /\ sending[h] = None /\ queue[h] = <<>> /\ ended' = ended \cup {h}
    /\ UNCHANGED <<handlerVars, queue, sending, attempt, holds, next, by, fate, arrivals>>

\* A record reaches Control while the worker waits for the answer.
Arrives(r) == sent' = Append(sent, r) /\ timely' = timely \cup {Len(sent) + 1} /\ UNCHANGED late

\* A request without a good answer: it failed, or its answer did, or it timed
\* out and is still on its way.
Unanswered(r) ==
    \/ UNCHANGED arrivals
    \/ Arrives(r)
    \/ /\ \A q \in Record : late[q] < MaxLate
       /\ late' = [late EXCEPT ![r] = @ + 1] /\ UNCHANGED <<sent, timely>>

\* The record is settled, and the worker looks for the next one.
Settle(h, f) ==
    /\ fate' = [fate EXCEPT ![sending[h]] = f] /\ sending' = [sending EXCEPT ![h] = None]
    /\ IF f = "sent" THEN Arrives(sending[h])
       ELSE IF f = "failed" THEN Unanswered(sending[h]) ELSE UNCHANGED arrivals
    /\ UNCHANGED <<handlerVars, queue, ended, attempt, holds, next, by>>

\* HTTP: the request succeeds; or a 4xx, or no retry left: an error on stderr.
SendHttp(h) ==
    /\ sending[h] # None /\ kind[h] = "http"
    /\ \E f \in {"sent", "failed"} : Settle(h, f)

\* A request that was given up arrives all the same, after its retry or after
\* later records.
LateArrives(r) ==
    /\ late[r] > 0 /\ late' = [late EXCEPT ![r] = @ - 1]
    /\ sent' = Append(sent, r)
    /\ UNCHANGED <<handlerVars, queue, sending, ended, attempt, holds, next, by, fate, timely>>

\* Mutant: a record that fails goes to the end of the queue.
RetryLater(h) ==
    /\ sending[h] # None /\ kind[h] = "http" /\ Len(queue[h]) < QueueMax
    /\ queue' = [queue EXCEPT ![h] = Append(@, sending[h])]
    /\ sending' = [sending EXCEPT ![h] = None]
    /\ UNCHANGED <<handlerVars, ended, attempt, holds, next, by, fate, arrivals>>

\* A timeout, a refused connection or a 5xx, with a retry left.
RetryHttp(h) ==
    /\ sending[h] # None /\ kind[h] = "http" /\ attempt[h] < MaxRetries
    /\ attempt' = [attempt EXCEPT ![h] = @ + 1]
    /\ Unanswered(sending[h])
    /\ UNCHANGED <<handlerVars, queue, sending, ended, holds, next, by, fate>>

\* Zenoh: put succeeds, raises, or finds the session closed, which is not
\* mentioned.
SendZenoh(h) ==
    /\ sending[h] # None /\ kind[h] = "zenoh"
    /\ \E f \in {"sent", "failed", "closed"} : Settle(h, f)

\* rebuild_handlers: close sets the event and waits for the worker ...
Close ==
    /\ rebuild = "idle" /\ newest < MaxHandlers
    /\ stop' = stop \cup {attached} /\ rebuild' = "join"
    /\ UNCHANGED <<kind, attached, newest, queue, sending, ended, attempt, holds, next, by, fate,
                   arrivals>>

\* ... until it ends or two seconds have passed; then the handler is dropped.
Join ==
    /\ rebuild = "join" /\ rebuild' = "attach" /\ attached' = None
    /\ UNCHANGED <<kind, newest, stop, queue, sending, ended, attempt, holds, next, by, fate,
                   arrivals>>

\* _configure_logger makes the handlers of the new configuration.
Attach ==
    /\ rebuild = "attach" /\ rebuild' = "idle"
    /\ newest' = newest + 1 /\ attached' = newest'
    /\ UNCHANGED <<kind, stop, queue, sending, ended, attempt, holds, next, by, fate, arrivals>>

Next ==
    \/ Close \/ Join \/ Attach
    \/ \E t \in Threads : Report(t) \/ Put(t)
    \/ \E h \in Handler : \/ Get(h) \/ WorkerEnds(h) \/ SendHttp(h) \/ RetryHttp(h)
                          \/ SendZenoh(h)
    \/ \E r \in Record : LateArrives(r)

\* Threads that report go on, workers run, requests end within their timeouts.
Fairness ==
    /\ WF_vars(Join) /\ WF_vars(Attach)
    /\ \A t \in Threads : WF_vars(Put(t))
    /\ \A h \in Handler : /\ WF_vars(Get(h)) /\ WF_vars(WorkerEnds(h))
                          /\ WF_vars(SendHttp(h) \/ RetryHttp(h) \/ SendZenoh(h))

Spec == Init /\ [][Next]_vars
LiveSpec == Spec /\ Fairness

---------------------------------------------------------------------------
(* The variables have their types; the queues stay within their bound, a   *)
(* record that waits is in one queue or with one worker, none is sent more *)
(* often than there are attempts, and a worker that has ended holds none.  *)
TypeOK ==
    /\ attached \in 0 .. newest /\ newest \in Handler /\ stop \subseteq 1 .. newest
    /\ rebuild \in {"idle", "join", "attach"} /\ (rebuild = "idle" => attached # None)
    /\ ended \subseteq stop /\ sending \in [Handler -> Record \cup {None}]
    /\ attempt \in [Handler -> 0 .. MaxRetries]
    /\ \A h \in Handler :
         /\ Len(queue[h]) <= QueueMax /\ IsInjective(queue[h]) /\ sending[h] \notin Range(queue[h])
         /\ \A r \in Range(queue[h]) \cup ({sending[h]} \ {None}) : fate[r] = "queued"
    /\ \A h \in ended : sending[h] = None
    /\ \A r \in Record : /\ Len(SelectSeq(sent, LAMBDA x : x = r)) <= MaxRetries + 1
                         /\ fate[r] = "sent" => r \in Range(sent)
    /\ late \in [Record -> 0 .. MaxLate] /\ timely \subseteq 1 .. Len(sent)

(* What one thread reports reaches Control in the order it was reported,   *)
(* retries notwithstanding: a record that arrives while its worker waits   *)
(* for the answer finds no later record there, be it a late one.  A copy   *)
(* that was given up may come after later records (see ArrivesInOrder).    *)
ReportsInOrder ==
    \A j \in timely : \A i \in 1 .. j : by[sent[i]] = by[sent[j]] => sent[i] <= sent[j]

(* "completed" never arrives before "started".                             *)
ArrivesInOrder ==
    \A i, j \in 1 .. Len(sent) : i < j /\ by[sent[i]] = by[sent[j]] => sent[i] <= sent[j]

(* A record that is in the queue when its handler is closed is settled     *)
(* all the same: sent, or given up with its retries.                       *)
QueuedIsSettled == \A r \in Record :
    (\E h \in Handler \ stop : r \in Range(queue[h])) ~> fate[r] \in {"sent", "failed", "closed"}

(* rebuild_handlers: "Safe to call while pipelines are running: the logger *)
(* references are preserved and only the handler set is swapped."  No      *)
(* record vanishes without an error or a count.                            *)
NoRecordLost ==
    /\ \A r \in Record : fate[r] # "lost"
    /\ \A h \in Handler : h \in ended => queue[h] = <<>>

(* rebuild_handlers: "AsyncHandler worker threads are stopped via .close() *)
(* before the handlers are dropped."                                       *)
OldWorkerStopped == \A h \in Handler : h < newest => h \in ended
============================================================================
