-------------------------- MODULE CommandDelivery --------------------------
(* Commands on their way from Control to the runtime.  A command pipeline  *)
(* is a source (components/http.py polls the backlog, components/zenoh.py  *)
(* queues live samples) and the sink components/command.py, which drops    *)
(* ids it has seen and calls AgentRuntime.handle_command.  A command stays *)
(* in Control's backlog until a status report for it arrives; the report   *)
(* may be lost, a sample may be lost, a handler may raise, the process may *)
(* be restarted.  Each pipeline has a thread and a sink of its own.        *)
EXTENDS Naturals, SequencesExt

CONSTANTS
    MaxCmds,    \* commands are 1 .. MaxCmds, issued in this order
    Deploys,    \* those of them that are DEPLOY_MODEL
    Sources,    \* the command pipelines that are configured
    Window,     \* dedup_window
    MaxFaults,  \* bound on raising handlers and lost reports
    MaxBoots    \* bound on restarts

Cmd == 1 .. MaxCmds
Idle == 0

VARIABLES
    issued,   \* commands issued so far
    backlog,  \* Control: commands without a report
    reports,  \* status reports on their way to Control
    work,     \* deploys whose worker runs
    answered, \* history: the commands whose final report was made
    queue,    \* ZenohListener._queue
    batch,    \* what each source returned and the sink has not gone through, oldest first
    busy,     \* the command each sink's callback is running, or Idle
    seen,     \* AgentCommand._seen
    ran,      \* how often the handler of each command has returned: 0, 1, or 2 for more
    faults, boots

vars == <<issued, backlog, reports, work, answered, queue, batch, busy, seen, ran, faults, boots>>
control == <<issued, backlog, reports>>
agent == <<work, answered>>

Init ==
    /\ issued = 0 /\ backlog = {} /\ reports = {} /\ queue = <<>> /\ work = {} /\ answered = {}
    /\ batch = [s \in Sources |-> {}] /\ busy = [s \in Sources |-> Idle]
    /\ seen = [s \in Sources |-> <<>>] /\ ran = [c \in Cmd |-> 0]
    /\ faults = 0 /\ boots = 0

\* Control issues a command: into the backlog, and live.  The sample reaches
\* the listener's callback if the device is connected.
Issue ==
    /\ issued < MaxCmds /\ issued' = issued + 1 /\ backlog' = backlog \cup {issued'}
    /\ \/ queue' = queue
       \/ "zenoh" \in Sources /\ queue' = Append(queue, issued')
    /\ UNCHANGED <<reports, agent, batch, busy, seen, ran, faults, boots>>

Free(s) == batch[s] = {} /\ busy[s] = Idle

\* The command of a batch that was issued first.
Oldest(s, c) == c \in batch[s] /\ \A d \in batch[s] : c <= d

\* HttpPoller: the interval has passed and the GET succeeds.  A timeout, a
\* server error and a refused request leave everything as it is.
Poll ==
    /\ "http" \in Sources /\ Free("http") /\ backlog # {}
    /\ batch' = [batch EXCEPT !["http"] = backlog]
    /\ UNCHANGED <<control, agent, queue, busy, seen, ran, faults, boots>>

\* ZenohListener: the next queued sample.
Take ==
    /\ "zenoh" \in Sources /\ Free("zenoh") /\ queue # <<>>
    /\ batch' = [batch EXCEPT !["zenoh"] = {Head(queue)}]
    /\ queue' = Tail(queue)
    /\ UNCHANGED <<control, agent, busy, seen, ran, faults, boots>>

\* _dispatch: a command that was seen is dropped, another is handled.
Dispatch(s) ==
    /\ busy[s] = Idle
    /\ \E c \in batch[s] :
        /\ Oldest(s, c)
        /\ IF c \in Range(seen[s])
           THEN batch' = [batch EXCEPT ![s] = @ \ {c}] /\ UNCHANGED busy
           ELSE busy' = [busy EXCEPT ![s] = c] /\ UNCHANGED batch
    /\ UNCHANGED <<control, agent, queue, seen, ran, faults, boots>>

\* The deque forgets its oldest id when it is full.
Remember(ids, c) == LET all == Append(ids, c) IN
    IF Len(all) > Window THEN Tail(all) ELSE all

\* The final report of a command, by its handler or its worker.
Answer(c) == reports' = reports \cup {c} /\ answered' = answered \cup {c}

\* handle_command returns: the command is done or refused, which is reported;
\* or a DEPLOY_MODEL is with its worker, which goes on (one that is running
\* refuses its duplicate).
HandleCommand(c) ==
    \/ Answer(c) /\ UNCHANGED work
    \/ c \in Deploys \ work /\ work' = work \cup {c} /\ UNCHANGED <<reports, answered>>

\* The callback has returned, and the id is recorded.
Handled(s) ==
    /\ busy[s] # Idle /\ busy' = [busy EXCEPT ![s] = Idle]
    /\ HandleCommand(busy[s])
    /\ ran' = [ran EXCEPT ![busy[s]] = IF @ = 0 THEN 1 ELSE 2]
    /\ seen' = [seen EXCEPT ![s] = Remember(@, busy[s])]
    /\ batch' = [batch EXCEPT ![s] = @ \ {busy[s]}]
    /\ UNCHANGED <<issued, backlog, queue, faults, boots>>

\* _deploy_worker ends, however, with one report (module Deploy has its steps).
WorkerEnds(c) ==
    /\ c \in work /\ work' = work \ {c} /\ Answer(c)
    /\ UNCHANGED <<issued, backlog, queue, batch, busy, seen, ran, faults, boots>>

\* Mutant: the id is recorded although the callback raised.
RaisesSeen(s) ==
    /\ busy[s] # Idle /\ faults < MaxFaults /\ faults' = faults + 1
    /\ busy' = [busy EXCEPT ![s] = Idle] /\ batch' = [batch EXCEPT ![s] = {}]
    /\ seen' = [seen EXCEPT ![s] = Remember(@, busy[s])]
    /\ UNCHANGED <<control, agent, queue, ran, boots>>

\* The callback raises: the id is not recorded, and all() leaves the rest of
\* the batch alone.
Raises(s) ==
    /\ busy[s] # Idle /\ faults < MaxFaults /\ faults' = faults + 1
    /\ busy' = [busy EXCEPT ![s] = Idle] /\ batch' = [batch EXCEPT ![s] = {}]
    /\ UNCHANGED <<control, agent, queue, seen, ran, boots>>

\* A report arrives and settles its command, or is lost: the reporter's queue
\* is full, or its handler gives the record up after its retries.
ReportArrives(c) ==
    /\ c \in reports /\ reports' = reports \ {c}
    /\ backlog' = backlog \ {c}
    /\ UNCHANGED <<issued, agent, queue, batch, busy, seen, ran, faults, boots>>

ReportLost(c) ==
    /\ c \in reports /\ faults < MaxFaults /\ faults' = faults + 1
    /\ reports' = reports \ {c}
    /\ UNCHANGED <<issued, backlog, agent, queue, batch, busy, seen, ran, boots>>

\* The process restarts, or the command pipeline is built anew after a change
\* of its config: new source, new sink, nothing seen.  Workers die with the
\* process.
Restart ==
    /\ boots < MaxBoots /\ boots' = boots + 1
    /\ work' \in {{}, work} /\ UNCHANGED answered
    /\ queue' = <<>> /\ batch' = [s \in Sources |-> {}]
    /\ busy' = [s \in Sources |-> Idle] /\ seen' = [s \in Sources |-> <<>>]
    /\ UNCHANGED <<control, ran, faults>>

Next ==
    \/ Issue \/ Poll \/ Take \/ Restart
    \/ \E s \in Sources : Dispatch(s) \/ Handled(s) \/ Raises(s)
    \/ \E c \in Cmd : WorkerEnds(c) \/ ReportArrives(c) \/ ReportLost(c)

\* The threads of the pipelines run, a callback returns or raises, and a worker
\* ends (DeployAnswered of module Deploy).
Fairness ==
    /\ WF_vars(Poll) /\ WF_vars(Take)
    /\ \A s \in Sources : WF_vars(Dispatch(s)) /\ WF_vars(Handled(s) \/ Raises(s))
    /\ \A c \in Cmd : WF_vars(WorkerEnds(c))

Spec == Init /\ [][Next]_vars
LiveSpec == Spec /\ Fairness

---------------------------------------------------------------------------
(* The variables have their types; a callback runs the first command of    *)
(* its sink's batch; the window holds no id twice and at most Window.      *)
TypeOK ==
    /\ issued \in 0 .. MaxCmds /\ reports \subseteq answered /\ answered \subseteq 1 .. issued
    /\ work \subseteq Deploys
    /\ \A s \in Sources :
         /\ batch[s] \subseteq 1 .. issued /\ (busy[s] # Idle => Oldest(s, busy[s]))
         /\ IsInjective(seen[s]) /\ Len(seen[s]) <= Window
    /\ faults \in 0 .. MaxFaults /\ boots \in 0 .. MaxBoots

(* AgentCommand: "drops duplicates silently: the same command can arrive   *)
(* twice (HTTP backlog drain + live Zenoh sample)".  No command is handled *)
(* twice while the process runs.                                           *)
AtMostOnce == \A c \in Cmd : ran[c] <= 1

(* "a retry should be allowed to try again": what a sink drops as seen was *)
(* handled.                                                                *)
SeenIsDone == \A s \in Sources : \A c \in Range(seen[s]) : ran[c] > 0

(* Commands of one transport are handled in the order Control issued them, *)
(* handlers that raise and lost reports notwithstanding: a stop never      *)
(* overtakes the start before it.  The download that a DEPLOY_MODEL leaves *)
(* to its worker may go on meanwhile.                                      *)
InOrder == \A c, d \in Cmd : c < d /\ ran[d] > 0 => ran[c] > 0

(* With the backlog polled, every command that was issued is answered: its *)
(* handler reported that it is done or refused, or its worker did, after a *)
(* restart another one.                                                    *)
EveryCommandAnswered == \A c \in Cmd : (issued >= c) ~> (c \in answered)
============================================================================
