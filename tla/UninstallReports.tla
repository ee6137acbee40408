-------------------------- MODULE UninstallReports --------------------------
(* Reports of local removals to Control (src/link/app/runtime.py): a model *)
(* removed on the device is reported; a report that fails is queued in a   *)
(* file, and the main loop sends the queue again.  Workers and the main    *)
(* loop share the file under _pending_reports_lock.  The device is         *)
(* enrolled over HTTPS (else nothing is ever reported).                    *)
EXTENDS Naturals, FiniteSets

CONSTANTS
    Models,
    MaxDeploys,   \* bound on deployments
    MaxFaults,    \* bound on failed requests and on what Faults names
    Faults        \* what else goes wrong: "kill" the process, "disk" writes fail,
                  \* "read" the queue file cannot be read

ASSUME ReportsAssumption ==
    MaxDeploys \in Nat /\ MaxFaults \in Nat /\ Faults \subseteq {"kill", "disk", "read"}

VARIABLES
    here,      \* the models on the device
    shown,     \* the models Control shows for the device
    worker,    \* what the thread that removed a model still has to do
    pending,   \* the queue file
    unread,    \* history: what was queued and is gone because the file could not be read
    flushing,  \* the main loop holds the lock and sends the queue
    todo, left,  \* its list: not sent yet, and failed again
    deploys, faults

vars == <<here, shown, worker, pending, unread, flushing, todo, left, deploys, faults>>
file == <<pending, unread>>
flush == <<flushing, todo, left>>

Init ==
    /\ here = Models /\ shown = Models /\ worker = [m \in Models |-> "none"]
    /\ pending = {} /\ unread = {} /\ flushing = FALSE /\ todo = {} /\ left = {}
    /\ deploys = 0 /\ faults = 0

\* Control deploys a model, and shows it.
Deploy(m) ==
    /\ m \notin here /\ worker[m] = "none" /\ deploys < MaxDeploys /\ deploys' = deploys + 1
    /\ here' = here \cup {m} /\ shown' = shown \cup {m}
    /\ UNCHANGED <<worker, file, flush, faults>>

\* A loopback UNINSTALL_MODEL removed the model; its report is due.
Uninstalled(m) ==
    /\ m \in here /\ worker[m] = "none"
    /\ here' = here \ {m} /\ worker' = [worker EXCEPT ![m] = "post"]
    /\ UNCHANGED <<shown, file, flush, deploys, faults>>

\* _post_uninstall_report: answered with 200 or 404.
PostOK(m) ==
    /\ worker[m] = "post" /\ worker' = [worker EXCEPT ![m] = "none"]
    /\ shown' = shown \ {m}
    /\ UNCHANGED <<here, file, flush, deploys, faults>>

\* Another answer or none; the request may have been carried out.
PostFails(m) ==
    /\ worker[m] = "post" /\ worker' = [worker EXCEPT ![m] = "queue"]
    /\ faults < MaxFaults /\ faults' = faults + 1
    /\ shown' \in {shown, shown \ {m}}
    /\ UNCHANGED <<here, file, flush, deploys>>

\* Mutant: the queue is changed without the lock.
QueueUnlocked(m) ==
    /\ worker[m] = "queue" /\ worker' = [worker EXCEPT ![m] = "none"]
    /\ pending' = pending \cup {m} /\ unread' = unread \ {m}
    /\ UNCHANGED <<here, shown, flush, deploys, faults>>

\* _queue_pending_uninstall: read, add, write beside and rename.
Queue(m) ==
    /\ worker[m] = "queue" /\ worker' = [worker EXCEPT ![m] = "none"]
    /\ ~flushing /\ pending' = pending \cup {m} /\ unread' = unread \ {m}
    /\ UNCHANGED <<here, shown, flush, deploys, faults>>

\* The file cannot be read, which is taken for an empty queue: what was in it
\* is overwritten.
QueueUnread(m) ==
    /\ "read" \in Faults /\ faults < MaxFaults /\ faults' = faults + 1
    /\ worker[m] = "queue" /\ worker' = [worker EXCEPT ![m] = "none"]
    /\ ~flushing /\ pending' = {m} /\ unread' = (unread \cup pending) \ {m}
    /\ UNCHANGED <<here, shown, flush, deploys>>

\* The write fails and is only logged.
QueueFails(m) ==
    /\ "disk" \in Faults /\ faults < MaxFaults /\ faults' = faults + 1
    /\ worker[m] = "queue" /\ worker' = [worker EXCEPT ![m] = "none"]
    /\ ~flushing
    /\ UNCHANGED <<here, shown, file, flush, deploys>>

\* _flush_pending_uninstall_reports, at start and every few minutes.  A file
\* that cannot be read ends it before anything is sent or written.
FlushBegins ==
    /\ ~flushing /\ pending # {}
    /\ flushing' = TRUE /\ todo' = pending /\ left' = {}
    /\ UNCHANGED <<here, shown, worker, file, deploys, faults>>

\* Each report of the list is sent once more.
FlushPost(m) ==
    /\ flushing /\ m \in todo /\ todo' = todo \ {m}
    /\ \/ shown' = shown \ {m} /\ UNCHANGED <<left, faults>>
       \/ /\ faults < MaxFaults /\ faults' = faults + 1 /\ left' = left \cup {m}
          /\ shown' \in {shown, shown \ {m}}
    /\ UNCHANGED <<here, worker, file, flushing, deploys>>

\* Mutant: the queue is emptied whatever failed.
FlushSavesNone ==
    /\ flushing /\ todo = {} /\ flushing' = FALSE /\ left' = {} /\ pending' = {}
    /\ UNCHANGED <<here, shown, worker, unread, todo, deploys, faults>>

\* What failed again stays in the queue; a write that fails leaves it as it was.
FlushSaves ==
    /\ flushing /\ todo = {} /\ flushing' = FALSE /\ left' = {}
    /\ \/ pending' = left /\ UNCHANGED faults
       \/ /\ "disk" \in Faults /\ faults < MaxFaults /\ faults' = faults + 1
          /\ UNCHANGED pending
    /\ UNCHANGED <<here, shown, worker, unread, todo, deploys>>

\* The process is killed; the file stays, unless the machine goes down before
\* the disk has it (nothing syncs it), and what is there does not parse.
Killed ==
    /\ "kill" \in Faults /\ faults < MaxFaults /\ faults' = faults + 1
    /\ worker' = [m \in Models |-> "none"]
    /\ flushing' = FALSE /\ todo' = {} /\ left' = {}
    /\ \/ UNCHANGED file
       \/ "read" \in Faults /\ pending' = {} /\ unread' = unread \cup pending
    /\ UNCHANGED <<here, shown, deploys>>

Next ==
    \/ FlushBegins \/ FlushSaves \/ Killed
    \/ \E m \in Models : \/ Deploy(m) \/ Uninstalled(m) \/ PostOK(m) \/ PostFails(m)
                         \/ Queue(m) \/ QueueFails(m) \/ QueueUnread(m) \/ FlushPost(m)

\* Requests end, the lock is given back, and the main loop comes round.
\* A worker that waits for the lock gets it between two rounds.
Fairness ==
    /\ WF_vars(FlushBegins) /\ WF_vars(FlushSaves)
    /\ \A m \in Models : /\ WF_vars(PostOK(m) \/ PostFails(m)) /\ SF_vars(Queue(m))
                         /\ WF_vars(FlushPost(m))

Spec == Init /\ [][Next]_vars
LiveSpec == Spec /\ Fairness

---------------------------------------------------------------------------
(* The variables have their types; what the main loop sends is in the      *)
(* queue file until it has sent it all; a report is queued or was lost     *)
(* with a file that could not be read, not both.                           *)
TypeOK ==
    /\ here \subseteq Models /\ shown \subseteq Models /\ pending \subseteq Models
    /\ unread \subseteq Models \ pending
    /\ worker \in [Models -> {"none", "post", "queue"}]
    /\ (flushing => pending # {} /\ todo \cup left \subseteq pending)
    /\ (~flushing => todo = {} /\ left = {})
    /\ deploys \in 0 .. MaxDeploys /\ faults \in 0 .. MaxFaults

(* "A delivery failure (offline, 5xx) queues the report; the main loop     *)
(* retries until Control acknowledges it".  A model that is gone and still *)
(* shown has a report under way or queued.                                 *)
NoForgottenReport ==
    \A m \in Models : m \in shown \ here => worker[m] # "none" \/ m \in pending

(* A queued report leaves the queue only when Control has it (the model is *)
(* not shown any more, or was deployed again and its next removal is being *)
(* reported), whatever is killed or fails meanwhile, with one exception: a *)
(* queue file that cannot be read when the next report is queued, or that  *)
(* a power loss spoiled.                                                   *)
DroppedWhenDelivered ==
    [][\A m \in pending \ pending' :
          m \notin shown \/ m \in here \/ worker[m] # "none" \/ m \in unread']_vars

(* "A delivery failure queues the report; the main loop retries until      *)
(* Control acknowledges it": also over a read of the queue file that fails.*)
NothingUnread == unread = {}

(* Control stops showing a model that was removed, unless it is deployed   *)
(* again.                                                                  *)
RemovalShown == \A m \in Models : m \in shown \ here ~> m \notin shown \/ m \in here

(* "Local removal is the source of truth": a model that is on the device is*)
(* shown, whatever reports are still queued.                               *)
DeployedIsShown == here \subseteq shown
============================================================================
