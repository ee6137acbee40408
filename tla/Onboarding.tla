----------------------------- MODULE Onboarding -----------------------------
(* How a device gets its identity (src/link/app/onboarding.py, the identity*)
(* phase of run and the register command in src/link/main.py, the session  *)
(* files of src/link/app/state.py): a key is redeemed at Control, which    *)
(* rotates the device's api key every time, and the answer is saved in a   *)
(* session file named after the local time.                                *)
EXTENDS Naturals, FiniteSets

CONSTANTS
    Procs,       \* processes of the command line and of the service
    Jobs,        \* what they are started as: records of JobType
    MaxStarts,   \* bound on starts
    MaxAttempts, \* _RETRY_MAX_ATTEMPTS
    MaxClock,    \* bound on the local time
    MaxFaults,   \* bound on kills, wipes and failing writes
    Faults,      \* of {"kill", "wipe", "disk"}
    Late,        \* a request that timed out may reach Control later
    ClockBack    \* the local time may be set back

\* A key, none, or for run --config a configuration or one session file.
JobType ==
    [cmd : {"register", "run"}, cred : {"reg", "fleet", "none"}]
      \cup [cmd : {"run"}, cred : {"config", "session"}]

ASSUME OnboardingAssumption ==
    /\ Jobs \subseteq JobType /\ Faults \subseteq {"kill", "wipe", "disk"}
    /\ {MaxStarts, MaxFaults} \subseteq Nat /\ {MaxAttempts, MaxClock} \subseteq Nat \ {0}
    /\ Late \in BOOLEAN /\ ClockBack \in BOOLEAN

VARIABLES
    ctl,      \* Control's current api key of this machine, 0 before the first
    flight,   \* requests that have not reached Control
    made,     \* requests made
    files,    \* the session file of each time, NoFile where there is none
    last,     \* the time of the session that was bootstrapped last
    marker,   \* the fleet marker exists
    clock,    \* the local time
    pc,       \* where each process is
    job,      \* what it was started as
    attempt,  \* its attempt at the request
    await,    \* the request it waits for
    key,      \* the api key in the answer; 0 for none, and in a configuration
    path,     \* the time in the name of the session it writes
    starts,   \* starts so far
    faults,   \* faults so far
    fleet     \* "enrolled" once an enrolled device's session was written,
              \* "unmarked" once its marker could not be

vars == <<ctl, flight, made, files, last, marker, clock, pc, job, attempt, await, key, path,
          starts, faults, fleet>>
disk == <<files, last, marker, fleet>>
control == <<ctl, flight, made>>
world == <<clock, starts, faults>>

Time == 1 .. MaxClock
\* from: what the session was bootstrapped from.
NoFile == [key |-> 0, from |-> "none", whole |-> FALSE, there |-> FALSE]
Session(k, c) == [key |-> k, from |-> c, whole |-> TRUE, there |-> TRUE]
Torn == [key |-> 0, from |-> "none", whole |-> FALSE, there |-> TRUE]
NoJob == [cmd |-> "run", cred |-> "none"]

Init ==
    /\ ctl = 0 /\ flight = {} /\ made = 0 /\ marker = FALSE /\ clock = 1 /\ last = 0
    /\ files = [t \in Time |-> NoFile] /\ fleet = "no"
    /\ pc = [p \in Procs |-> "idle"] /\ job = [p \in Procs |-> NoJob]
    /\ attempt = [p \in Procs |-> 0] /\ await = [p \in Procs |-> 0]
    /\ key = [p \in Procs |-> 0] /\ path = [p \in Procs |-> 0]
    /\ starts = 0 /\ faults = 0

\* _get_latest_session_file: the last by name.
Latest == CHOOSE t \in Time \cup {0} :
    /\ t = 0 \/ files[t].there
    /\ \A u \in Time : files[u].there => u <= t

\* load_state: that file, and no other, when it can be parsed.
HasState == Latest # 0 /\ files[Latest].whole

Ended == {"idle", "exit0", "exit1", "running", "killed"}

---------------------------------------------------------------------------
\* What a process without a session does: onboard with its key, refuse on a
\* fleet device, or take the default configuration.
Ladder(j) ==
    IF j.cred # "none" THEN "send"
    ELSE IF j.cmd = "register" \/ marker THEN "exit1" ELSE "open"

\* run --config: a session file is resumed if it can be, a configuration that
\* can be loaded is bootstrapped, whatever the marker and other sessions say.
Given(j) ==
    {"exit1"} \cup (IF j.cred = "config" THEN {"open"}
                   ELSE IF \E t \in Time : files[t].whole THEN {"running"} ELSE {})

\* Where a start goes on: register does nothing when there is a session, run
\* resumes it.
Resolve(j) ==
    IF j.cred \in {"config", "session"} THEN Given(j)
    ELSE IF HasState THEN {IF j.cmd = "register" THEN "exit0" ELSE "running"}
    ELSE {Ladder(j)}

\* Mutant: register redeems its key although there is a session.
BeginAnyway(p, j) ==
    /\ pc[p] \in Ended /\ starts < MaxStarts /\ starts' = starts + 1
    /\ job' = [job EXCEPT ![p] = j] /\ attempt' = [attempt EXCEPT ![p] = 0]
    /\ await' = [await EXCEPT ![p] = 0] /\ key' = [key EXCEPT ![p] = 0]
    /\ \E c \in (IF j.cmd = "register" THEN {Ladder(j)} ELSE Resolve(j)) : pc' = [pc EXCEPT ![p] = c]
    /\ UNCHANGED <<control, disk, clock, faults, path>>

\* register or run starts.
Begin(p, j) ==
    /\ pc[p] \in Ended /\ starts < MaxStarts /\ starts' = starts + 1
    /\ job' = [job EXCEPT ![p] = j] /\ attempt' = [attempt EXCEPT ![p] = 0]
    /\ await' = [await EXCEPT ![p] = 0] /\ key' = [key EXCEPT ![p] = 0]
    /\ \E c \in Resolve(j) : pc' = [pc EXCEPT ![p] = c]
    /\ UNCHANGED <<control, disk, clock, faults, path>>

\* _request_with_retry: the next attempt.
Send(p) ==
    /\ pc[p] = "send" /\ pc' = [pc EXCEPT ![p] = "wait"]
    /\ made' = made + 1 /\ flight' = flight \cup {made'}
    /\ attempt' = [attempt EXCEPT ![p] = @ + 1] /\ await' = [await EXCEPT ![p] = made']
    /\ UNCHANGED <<ctl, disk, world, job, key, path>>

\* Control redeems the key: a new api key, and an answer to whoever waits.
Redeem(r) ==
    /\ r \in flight /\ flight' = flight \ {r} /\ ctl' = ctl + 1
    /\ key' = [p \in Procs |-> IF pc[p] = "wait" /\ await[p] = r THEN ctl' ELSE key[p]]
    /\ UNCHANGED <<made, disk, world, pc, job, attempt, await, path>>

\* The retry after a transient failure, or the error after the last one.
Retries(p) ==
    /\ pc' = [pc EXCEPT ![p] = IF attempt[p] >= MaxAttempts THEN "exit1" ELSE "send"]
    /\ attempt' = attempt

\* The network failed or the request timed out: it is lost, or its answer is,
\* or it is late.
TimesOut(p) ==
    /\ pc[p] = "wait" /\ Retries(p) /\ key' = [key EXCEPT ![p] = 0]
    /\ flight' \in {flight \ {await[p]}} \cup (IF Late THEN {flight} ELSE {})
    /\ UNCHANGED <<ctl, made, disk, world, job, await, path>>

\* 429 or 5xx; the key was not redeemed.
Busy(p) ==
    /\ pc[p] = "wait" /\ await[p] \in flight /\ flight' = flight \ {await[p]} /\ Retries(p)
    /\ UNCHANGED <<ctl, made, disk, world, job, await, key, path>>

\* Any other 4xx.
Rejected(p) ==
    /\ pc[p] = "wait" /\ await[p] \in flight /\ flight' = flight \ {await[p]}
    /\ pc' = [pc EXCEPT ![p] = "exit1"]
    /\ UNCHANGED <<ctl, made, disk, world, job, attempt, await, key, path>>

\* The answer has both a device id and an api key.  Its config, or the
\* built-in one when it has none that can be used, is what is saved.
Receive(p) ==
    /\ pc[p] = "wait" /\ key[p] # 0
    /\ pc' = [pc EXCEPT ![p] = IF job[p].cred = "fleet" THEN "mark" ELSE "open"]
    /\ UNCHANGED <<control, disk, world, job, attempt, await, key, path>>

\* The answer is no JSON object or lacks one of the two.
Unusable(p) ==
    /\ pc[p] = "wait" /\ key[p] # 0 /\ pc' = [pc EXCEPT ![p] = "exit1"]
    /\ UNCHANGED <<control, disk, world, job, attempt, await, key, path>>

DiskFails == "disk" \in Faults /\ faults < MaxFaults

\* Mutant: the marker is left for later.
MarkNot(p) ==
    /\ pc[p] = "mark" /\ pc' = [pc EXCEPT ![p] = "open"]
    /\ UNCHANGED <<control, disk, world, job, attempt, await, key, path>>

\* _write_fleet_marker, best effort, before the session.
Mark(p) ==
    /\ pc[p] = "mark" /\ pc' = [pc EXCEPT ![p] = "open"]
    /\ \/ marker' = TRUE /\ faults' = faults /\ fleet' = fleet
       \/ DiskFails /\ faults' = faults + 1 /\ marker' = marker /\ fleet' = "unmarked"
    /\ UNCHANGED <<control, files, last, clock, starts, job, attempt, await, key, path>>

\* bootstrap: a new name, and _flush opens the file, which truncates it.  An
\* error of the write is logged, and the process goes on.
Done(p) == IF job[p].cmd = "register" THEN "exit0" ELSE "running"

Open(p) ==
    /\ pc[p] = "open" /\ path' = [path EXCEPT ![p] = clock] /\ last' = clock
    /\ \/ /\ files' = [files EXCEPT ![clock] = Torn] /\ faults' = faults
          /\ pc' = [pc EXCEPT ![p] = "write"]
       \/ /\ DiskFails /\ faults' = faults + 1 /\ files' = files
          /\ pc' = [pc EXCEPT ![p] = Done(p)]
    /\ UNCHANGED <<control, marker, fleet, clock, starts, job, attempt, await, key>>

Write(p) ==
    /\ pc[p] = "write" /\ pc' = [pc EXCEPT ![p] = Done(p)]
    /\ \/ files' = [files EXCEPT ![path[p]] = Session(key[p], job[p].cred)] /\ faults' = faults
       \/ DiskFails /\ faults' = faults + 1 /\ files' = files
    /\ fleet' = IF fleet = "no" /\ job[p].cred = "fleet" /\ faults' = faults THEN "enrolled" ELSE fleet
    /\ UNCHANGED <<control, last, marker, clock, starts, job, attempt, await, key, path>>

Kill(p) ==
    /\ "kill" \in Faults /\ faults < MaxFaults /\ faults' = faults + 1
    /\ pc[p] \notin Ended /\ pc' = [pc EXCEPT ![p] = "killed"]
    /\ flight' \in {flight \ {await[p]}} \cup (IF Late THEN {flight} ELSE {})
    /\ UNCHANGED <<ctl, made, disk, clock, starts, job, attempt, await, key, path>>

\* The session files are deleted, as reset --hard does.
Wipe ==
    /\ "wipe" \in Faults /\ faults < MaxFaults /\ faults' = faults + 1
    /\ \A p \in Procs : pc[p] \in Ended
    /\ files' = [t \in Time |-> NoFile]
    /\ UNCHANGED <<control, last, marker, fleet, clock, starts, pc, job, attempt, await, key, path>>

Tick ==
    /\ clock < MaxClock /\ clock' = clock + 1
    /\ UNCHANGED <<control, disk, starts, faults, pc, job, attempt, await, key, path>>

\* Daylight saving ends, or the clock is set.
SetBack ==
    /\ ClockBack /\ clock > 1 /\ clock' = clock - 1
    /\ UNCHANGED <<control, disk, starts, faults, pc, job, attempt, await, key, path>>

Step(p) ==
    \/ Send(p) \/ TimesOut(p) \/ Busy(p) \/ Rejected(p) \/ Receive(p) \/ Unusable(p)
    \/ Mark(p) \/ Open(p) \/ Write(p)

Next ==
    \/ \E p \in Procs : Step(p) \/ Kill(p) \/ \E j \in Jobs : Begin(p, j)
    \/ \E r \in flight : Redeem(r)
    \/ Wipe \/ Tick \/ SetBack

Spec == Init /\ [][Next]_vars
\* A process runs, and no request waits longer than its timeout.
LiveSpec == Spec /\ \A p \in Procs : WF_vars(Step(p))

---------------------------------------------------------------------------
Quiet == \A p \in Procs : pc[p] \in Ended

(* The variables have their types; no process makes more attempts than it  *)
(* has, and none that onboards goes on to write without an api key.        *)
TypeOK ==
    /\ flight \subseteq 1 .. made /\ clock \in Time /\ last \in Time \cup {0}
    /\ \A p \in Procs :
         /\ pc[p] \in Ended \cup {"send", "wait", "mark", "open", "write"}
         /\ attempt[p] \in 0 .. MaxAttempts /\ key[p] \in 0 .. ctl
         /\ pc[p] \in {"mark", "open", "write"} /\ job[p].cred \in {"reg", "fleet"} => key[p] # 0
    /\ \A t \in Time : files[t].key \in 0 .. ctl /\ (files[t].whole => files[t].there)

(* The api key of the session that the next start loads is the one Control *)
(* accepts, however often the request was retried, the process killed and  *)
(* the command run again.                                                  *)
SavedKeyWorks == Quiet /\ HasState /\ files[Latest].key # 0 => files[Latest].key = ctl

(* A fleet device that lost its session is never started again as a fresh  *)
(* agent with the default configuration: what it resumes was made from a   *)
(* key, or from a configuration somebody gave it with --config.            *)
FleetFailsLoud == fleet = "enrolled" /\ HasState => files[Latest].from # "none"

(* The session that was bootstrapped last is the one the next start finds. *)
SessionFound == Quiet /\ last # 0 /\ files[last].whole => HasState /\ Latest = last

(* Onboarding comes to an end, whatever the network does.                  *)
OnboardingEnds == \A p \in Procs : pc[p] = "send" ~> pc[p] \in Ended

(* register: "onboard, write the session, exit" and "a no-op if the device *)
(* is already registered".  When it says so, the device has a session with *)
(* an api key of Control.                                                  *)
RegisterRegisters == [][\A p \in Procs :
    pc[p] # "exit0" /\ pc'[p] = "exit0" => HasState' /\ files'[Latest'].key # 0]_vars
=============================================================================
