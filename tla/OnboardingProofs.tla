-------------------------- MODULE OnboardingProofs --------------------------
(* Proofs about Onboarding, for any processes, jobs, faults and bounds:    *)
(* first what holds whoever else onboards, then what holds when only one   *)
(* process does at a time; and about ZenohTransport, for any bounds.       *)
EXTENDS MCOnboarding, TLAPS

Cred == {"reg", "fleet", "none", "config", "session"}
File == [key : Nat, from : Cred, whole : BOOLEAN, there : BOOLEAN]
PC == Ended \cup {"send", "wait", "mark", "open", "write"}

(* The types TypeOK leaves out, and how far an attempt has got.            *)
Typed ==
    /\ ctl \in Nat /\ made \in Nat /\ files \in [Time -> File] /\ marker \in BOOLEAN
    /\ pc \in [Procs -> PC] /\ job \in [Procs -> JobType] /\ attempt \in [Procs -> Nat]
    /\ await \in [Procs -> Nat] /\ key \in [Procs -> Nat] /\ path \in [Procs -> Nat]
    /\ faults \in Nat /\ fleet \in {"no", "enrolled", "unmarked"}
    /\ \A p \in Procs : pc[p] = "send" => attempt[p] < MaxAttempts
    /\ \A p \in Procs : pc[p] = "write" => path[p] \in Time

TInv == TypeOK /\ Typed

(* The records the session files hold.                                     *)
LEMMA FileTypes ==
    /\ NoFile \in File /\ Torn \in File /\ \A k \in Nat, c \in Cred : Session(k, c) \in File
    /\ NoFile.key = 0 /\ ~NoFile.whole /\ ~NoFile.there
    /\ Torn.key = 0 /\ ~Torn.whole /\ Torn.there
    /\ \A k \in Nat, c \in Cred :
         /\ Session(k, c).key = k /\ Session(k, c).from = c
         /\ Session(k, c).whole /\ Session(k, c).there
  BY DEF NoFile, Torn, Session, File, Cred

LEMMA CredTypes == \A j \in JobType : j.cred \in Cred
  BY DEF JobType, Cred

LEMMA InitTInv == Init => TInv
  <1> SUFFICES ASSUME Init PROVE TInv
    OBVIOUS
  <1> USE OnboardingAssumption, FileTypes DEF Init, Time
  <1>1. NoJob \in JobType BY DEF NoJob, JobType
  <1>2. Typed
    BY <1>1 DEF Typed, PC, Ended
  <1>3. TypeOK
    BY <1>1 DEF TypeOK, Ended
  <1> QED BY <1>2, <1>3 DEF TInv

LEMMA StepTInv == ASSUME TInv, NEW p \in Procs, Step(p) PROVE TInv'
  <1> USE OnboardingAssumption, FileTypes
      DEF TInv, TypeOK, Typed, Time, PC, Ended, disk, control, world
  <1>1. CASE Send(p)
    <2>1. /\ made' = made + 1 /\ made' \in Nat /\ flight' = flight \cup {made + 1}
          /\ ctl' = ctl /\ files' = files /\ last' = last /\ marker' = marker /\ fleet' = fleet
          /\ clock' = clock /\ faults' = faults /\ job' = job /\ key' = key /\ path' = path
      BY <1>1 DEF Send
    <2>2. /\ pc' = [pc EXCEPT ![p] = "wait"] /\ attempt' = [attempt EXCEPT ![p] = @ + 1]
          /\ await' = [await EXCEPT ![p] = made + 1] /\ pc[p] = "send"
      BY <1>1 DEF Send
    <2>3. flight' \subseteq 1 .. made'
      BY <2>1
    <2>4. \A q \in Procs : attempt'[q] \in 0 .. MaxAttempts
      BY <2>2
    <2>5. TypeOK' BY <2>1, <2>2, <2>3, <2>4, SMTT(30)
    <2>6. Typed' BY <2>1, <2>2, SMTT(30)
    <2> QED BY <2>5, <2>6
  <1>2. CASE TimesOut(p)
    BY <1>2, SMTT(30) DEF TimesOut, Retries
  <1>3. CASE Busy(p)
    <2>1. TypeOK'
      <3>1. /\ flight' \subseteq flight /\ made' = made
            /\ \E c \in {"exit1", "send"} : pc' = [pc EXCEPT ![p] = c]
        BY <1>3 DEF Busy, Retries
      <3>2. /\ ctl' = ctl /\ files' = files /\ last' = last /\ clock' = clock /\ job' = job
            /\ attempt' = attempt /\ key' = key
        BY <1>3 DEF Busy, Retries
      <3> QED BY <3>1, <3>2, SMTT(30)
    <2>2. Typed' BY <1>3 DEF Busy, Retries
    <2> QED BY <2>1, <2>2
  <1>4. CASE Rejected(p)
    <2>1. TypeOK'
      <3>1. flight' \subseteq flight /\ pc' = [pc EXCEPT ![p] = "exit1"] /\ made' = made
        BY <1>4 DEF Rejected
      <3>2. /\ ctl' = ctl /\ files' = files /\ last' = last /\ clock' = clock /\ job' = job
            /\ attempt' = attempt /\ key' = key
        BY <1>4 DEF Rejected
      <3> QED BY <3>1, <3>2, SMTT(30)
    <2>2. Typed' BY <1>4, SMTT(30) DEF Rejected
    <2> QED BY <2>1, <2>2
  <1>5. CASE Receive(p)
    <2>1. TypeOK' BY <1>5, SMTT(30) DEF Receive
    <2>2. Typed' BY <1>5, SMTT(30) DEF Receive
    <2> QED BY <2>1, <2>2
  <1>6. CASE Unusable(p)
    <2>1. TypeOK' BY <1>6, SMTT(30) DEF Unusable
    <2>2. Typed' BY <1>6, SMTT(30) DEF Unusable
    <2> QED BY <2>1, <2>2
  <1>7. CASE Mark(p)
    <2>1. TypeOK' BY <1>7 DEF Mark
    <2>2. faults' \in Nat /\ marker' \in BOOLEAN /\ fleet' \in {"no", "enrolled", "unmarked"}
      <3>1. faults' \in Nat BY <1>7 DEF Mark
      <3>2. marker' \in BOOLEAN BY <1>7 DEF Mark
      <3>3. fleet' \in {"no", "enrolled", "unmarked"} BY <1>7 DEF Mark
      <3> QED BY <3>1, <3>2, <3>3
    <2>3. Typed' BY <1>7, <2>2, SMTT(30) DEF Mark
    <2> QED BY <2>1, <2>3
  <1>8. CASE Open(p)
    <2>1. /\ last' = clock /\ path' = [path EXCEPT ![p] = clock]
          /\ ctl' = ctl /\ made' = made /\ flight' = flight /\ marker' = marker
          /\ fleet' = fleet /\ clock' = clock /\ job' = job /\ attempt' = attempt
          /\ await' = await /\ key' = key
      BY <1>8 DEF Open
    <2>2. files' = files \/ files' = [files EXCEPT ![clock] = Torn]
      BY <1>8 DEF Open
    <2>3. /\ files' \in [Time -> File]
          /\ \A t \in Time : files'[t].key \in 0 .. ctl /\ (files'[t].whole => files'[t].there)
      <3>1. files' \in [Time -> File] BY <2>2
      <3>2. \A t \in Time : files'[t].key \in 0 .. ctl BY <2>2, SMTT(30)
      <3>3. \A t \in Time : files'[t].whole => files'[t].there
        <4>1. \A t \in Time : files'[t] = files[t] \/ files'[t] = Torn BY <2>2
        <4>2. \A t \in Time : files[t].whole => files[t].there OBVIOUS
        <4> QED BY ONLY <4>1, <4>2, FileTypes
      <3> QED BY <3>1, <3>2, <3>3
    <2>4. pc[p] = "open" /\ \E c \in {"write", "exit0", "running"} : pc' = [pc EXCEPT ![p] = c]
      BY <1>8 DEF Open, Done
    <2>5. faults' \in Nat
      BY <1>8 DEF Open
    <2>6. TypeOK' BY <2>1, <2>3, <2>4, SMTT(30)
    <2>7. Typed' BY <2>1, <2>3, <2>4, <2>5, SMTT(30)
    <2> QED BY <2>6, <2>7
  <1>9. CASE Write(p)
    <2>1. /\ last' = last /\ path' = path
          /\ ctl' = ctl /\ made' = made /\ flight' = flight /\ marker' = marker
          /\ clock' = clock /\ job' = job /\ attempt' = attempt
          /\ await' = await /\ key' = key
      BY <1>9 DEF Write
    <2>2. files' = files \/ files' = [files EXCEPT ![path[p]] = Session(key[p], job[p].cred)]
      BY <1>9 DEF Write
    <2>3. /\ files' \in [Time -> File]
          /\ \A t \in Time : files'[t].key \in 0 .. ctl /\ (files'[t].whole => files'[t].there)
      <3> DEFINE g == Session(key[p], job[p].cred)
      <3>1. path[p] \in Time /\ key[p] \in 0 .. ctl /\ job[p].cred \in Cred
        BY <1>9, CredTypes DEF Write
      <3>2. g \in File /\ g.key = key[p] /\ g.there BY <3>1
      <3>3. files' = files \/ files' = [files EXCEPT ![path[p]] = g] BY <2>2
      <3> HIDE DEF g
      <3>4. files' \in [Time -> File]
        <4>1. CASE files' = files BY <4>1
        <4>2. CASE files' = [files EXCEPT ![path[p]] = g]
          <5>1. files \in [Time -> File] OBVIOUS
          <5> QED BY ONLY <3>1, <3>2, <4>2, <5>1
        <4> QED BY <3>3, <4>1, <4>2
      <3>5. \A t \in Time : files'[t] = files[t] \/ files'[t] = g BY <3>1, <3>3
      <3>6. \A t \in Time : files[t].key \in 0 .. ctl /\ (files[t].whole => files[t].there)
        OBVIOUS
      <3>7. \A t \in Time : files'[t].key \in 0 .. ctl /\ (files'[t].whole => files'[t].there)
        BY ONLY <3>1, <3>2, <3>5, <3>6
      <3> QED BY <3>4, <3>7
    <2>4. pc[p] = "write" /\ \E c \in {"exit0", "running"} : pc' = [pc EXCEPT ![p] = c]
      BY <1>9 DEF Write, Done
    <2>5. faults' \in Nat /\ fleet' \in {"no", "enrolled", "unmarked"}
      BY <1>9 DEF Write
    <2>6. TypeOK' BY <2>1, <2>3, <2>4, SMTT(30)
    <2>7. Typed' BY <2>1, <2>3, <2>4, <2>5
    <2> QED BY <2>6, <2>7
  <1> QED BY <1>1, <1>2, <1>3, <1>4, <1>5, <1>6, <1>7, <1>8, <1>9 DEF Step

(* Where a start goes on.                                                  *)
LEMMA BeginGoes ==
    ASSUME NEW p \in Procs, NEW j \in Jobs, Begin(p, j)
    PROVE  \E c \in {"exit0", "exit1", "running", "send", "open"} :
             /\ pc' = [pc EXCEPT ![p] = c]
             /\ c = "open" => j.cred \notin {"reg", "fleet"}
             /\ c = "open" /\ j.cred = "none" => ~marker
             /\ c = "send" => j.cred \in {"reg", "fleet"}
             /\ HasState => c \notin {"send", "open"} \/ (c = "open" /\ j.cred = "config")
  <1>1. PICK c \in Resolve(j) : pc' = [pc EXCEPT ![p] = c]
    BY DEF Begin
  <1>2. j.cred \in Cred BY OnboardingAssumption, CredTypes
  <1>3. /\ c \in {"exit0", "exit1", "running", "send", "open"}
        /\ c = "open" => j.cred \notin {"reg", "fleet"}
        /\ c = "open" /\ j.cred = "none" => ~marker
        /\ c = "send" => j.cred \in {"reg", "fleet"}
        /\ HasState => c \notin {"send", "open"} \/ (c = "open" /\ j.cred = "config")
    <2>1. CASE j.cred \in {"config", "session"} BY <2>1 DEF Resolve, Given
    <2>2. CASE j.cred \notin {"config", "session"} /\ HasState BY <2>2 DEF Resolve
    <2>3. CASE j.cred \notin {"config", "session"} /\ ~HasState
      BY <1>2, <2>3 DEF Resolve, Ladder, Cred
    <2> QED BY <2>1, <2>2, <2>3
  <1> QED BY <1>1, <1>3

LEMMA NextTInv == TInv /\ [Next]_vars => TInv'
  <1> SUFFICES ASSUME TInv, [Next]_vars PROVE TInv'
    OBVIOUS
  <1> USE OnboardingAssumption, FileTypes
      DEF TInv, TypeOK, Typed, Time, PC, Ended, disk, control, world
  <1>1. ASSUME NEW p \in Procs, Step(p) PROVE TInv' BY <1>1, StepTInv
  <1>2. ASSUME NEW p \in Procs, Kill(p) PROVE TInv'
    <2>1. TypeOK' BY <1>2, SMTT(30) DEF Kill
    <2>2. Typed' BY <1>2, SMTT(30) DEF Kill
    <2> QED BY <2>1, <2>2
  <1>3. ASSUME NEW p \in Procs, NEW j \in Jobs, Begin(p, j) PROVE TInv'
    <2>1. /\ ctl' = ctl /\ made' = made /\ flight' = flight /\ files' = files /\ last' = last
          /\ marker' = marker /\ fleet' = fleet /\ clock' = clock /\ faults' = faults /\ path' = path
          /\ job' = [job EXCEPT ![p] = j] /\ attempt' = [attempt EXCEPT ![p] = 0]
          /\ await' = [await EXCEPT ![p] = 0] /\ key' = [key EXCEPT ![p] = 0]
      BY <1>3 DEF Begin
    <2>2. PICK c \in {"exit0", "exit1", "running", "send", "open"} :
            pc' = [pc EXCEPT ![p] = c] /\ (c = "open" => j.cred \notin {"reg", "fleet"})
      BY ONLY <1>3, BeginGoes, p \in Procs, j \in Jobs
    <2>3. j \in JobType OBVIOUS
    <2>4. TypeOK' BY <2>1, <2>2, <2>3, SMTT(30)
    <2>5. \A q \in Procs : pc'[q] = "send" => attempt'[q] < MaxAttempts BY <2>1, <2>2
    <2>6. \A q \in Procs : pc'[q] = "write" => path'[q] \in Time BY <2>1, <2>2
    <2>7. /\ pc' \in [Procs -> PC] /\ job' \in [Procs -> JobType] /\ attempt' \in [Procs -> Nat]
          /\ await' \in [Procs -> Nat] /\ key' \in [Procs -> Nat]
      BY <2>1, <2>2, <2>3
    <2>8. Typed' BY ONLY TInv, <2>1, <2>5, <2>6, <2>7 DEF TInv, Typed
    <2> QED BY <2>4, <2>8
  <1>4. ASSUME NEW r \in flight, Redeem(r) PROVE TInv' BY <1>4, SMTT(30) DEF Redeem
  <1>5. CASE Wipe BY <1>5 DEF Wipe
  <1>6. CASE Tick BY <1>6 DEF Tick
  <1>7. CASE SetBack BY <1>7 DEF SetBack
  <1>8. CASE UNCHANGED vars BY <1>8 DEF vars
  <1> QED BY <1>1, <1>2, <1>3, <1>4, <1>5, <1>6, <1>7, <1>8 DEF Next

(* The variables have their types, and TypeOK's bounds hold, whoever else  *)
(* onboards, however late a request is and however the clock is set.       *)
THEOREM TypeCorrect == Spec => []TypeOK
  <1>1. Spec => []TInv
    BY InitTInv, NextTInv, PTL DEF Spec
  <1> QED BY <1>1, PTL DEF TInv

---------------------------------------------------------------------------
(* One process at a time, no request that arrives after it was given up,   *)
(* and no clock that is set back: what the session files are safe under.   *)
Serial == (\A p, q \in Procs : p = q) /\ ~Late /\ ~ClockBack

\* Latest and HasState, of any files.
NewestIn(f, t) == (t = 0 \/ f[t].there) /\ \A u \in Time : f[u].there => u <= t
LatestIn(f) == CHOOSE t \in Time \cup {0} : NewestIn(f, t)
Loads(f) == LatestIn(f) # 0 /\ f[LatestIn(f)].whole

\* A session is named after a time that is over, and the last one is newest.
Names == last <= clock /\ \A u \in Time : files[u].there => u <= last
NewestThere == \E t \in Time \cup {0} : NewestIn(files, t)
\* A process onboards only where there is no session to load, unless it was
\* given a configuration, and writes the newest file.
NoSessionYet == \A p \in Procs :
    pc[p] \notin Ended => ~Loads(files) \/ (pc[p] = "open" /\ job[p].cred = "config")
WritesNewest == \A p \in Procs : pc[p] = "write" => path[p] = last /\ files[last].there
\* A request under way is one whose answer is waited for.
Awaited == \A r \in flight : \E p \in Procs : pc[p] = "wait" /\ await[p] = r /\ key[p] = 0
\* An answer, and a session that can be loaded, have the current api key.
KeyCurrent == \A p \in Procs : pc[p] \notin Ended =>
    (key[p] = 0 \/ key[p] = ctl) /\ (pc[p] = "send" => key[p] = 0)
SavedCurrent == Loads(files) =>
    files[LatestIn(files)].key = 0 \/ files[LatestIn(files)].key = ctl
\* An enrolled device has its marker, and a process that takes the default
\* configuration saw none.
Marked ==
    /\ fleet = "enrolled" => marker
    /\ \A p \in Procs : pc[p] \in {"send", "wait", "mark"} =>
         job[p].cred \in {"reg", "fleet"} /\ (pc[p] = "mark" => job[p].cred = "fleet")
    /\ \A p \in Procs : pc[p] \in {"open", "write"} =>
         /\ job[p].cred = "fleet" => marker \/ fleet = "unmarked"
         /\ job[p].cred = "none" => ~marker
EnrolledKey == fleet = "enrolled" /\ Loads(files) => files[LatestIn(files)].from # "none"

FilesInv == Names /\ NewestThere /\ NoSessionYet /\ WritesNewest
KeysInv == Awaited /\ KeyCurrent /\ SavedCurrent
FleetInv == Marked /\ EnrolledKey
IInv == TInv /\ FilesInv /\ KeysInv /\ FleetInv

(* The file that is loaded is the newest by name, and there is only one.   *)
LEMMA NewestIs ==
    ASSUME NEW f, NEW t \in Time \cup {0}, NewestIn(f, t)
    PROVE  LatestIn(f) = t
  <1>1. \A u \in Time \cup {0} : NewestIn(f, u) => u = t
    BY OnboardingAssumption DEF NewestIn, Time
  <1> QED BY <1>1 DEF LatestIn

LEMMA StateLoads ==
    /\ Latest = LatestIn(files) /\ (HasState <=> Loads(files))
    /\ (Latest = LatestIn(files))' /\ (HasState <=> Loads(files))'
  BY DEF Latest, LatestIn, HasState, Loads, NewestIn

LEMMA InitIInv == Init => IInv
  <1> SUFFICES ASSUME Init PROVE IInv
    OBVIOUS
  <1>1. TInv BY InitTInv
  <1>2. \A u \in Time : ~files[u].there
    BY FileTypes DEF Init
  <1>3. NewestIn(files, 0) BY <1>2 DEF NewestIn
  <1>4. LatestIn(files) = 0 BY <1>3, NewestIs
  <1>5. ~Loads(files) BY <1>4 DEF Loads
  <1>6. FilesInv
    BY <1>2, <1>3, <1>5 DEF FilesInv, Init, Names, NewestThere, NoSessionYet, WritesNewest
  <1>7. KeysInv
    BY <1>5 DEF KeysInv, Init, Awaited, KeyCurrent, SavedCurrent, Ended
  <1>8. FleetInv
    BY <1>5 DEF FleetInv, Init, Marked, EnrolledKey
  <1> QED BY <1>1, <1>6, <1>7, <1>8 DEF IInv

(* What the two steps of a save do to the file that is loaded.             *)
LEMMA Opened ==
    ASSUME IInv, files' = [files EXCEPT ![clock] = Torn]
    PROVE  NewestIn(files', clock) /\ LatestIn(files') = clock /\ ~Loads(files') /\ files'[clock].there
  <1> USE FileTypes DEF IInv, TInv, TypeOK, Typed, FilesInv, Names
  <1>1. clock \in Time /\ files' \in [Time -> File] OBVIOUS
  <1>2. files'[clock] = Torn OBVIOUS
  <1>3. NewestIn(files', clock)
    BY <1>1, <1>2 DEF NewestIn, Time
  <1>4. LatestIn(files') = clock BY <1>1, <1>3, NewestIs
  <1> QED BY <1>2, <1>3, <1>4 DEF Loads

LEMMA Written ==
    ASSUME IInv, NEW p \in Procs, pc[p] = "write",
           files' = [files EXCEPT ![path[p]] = Session(key[p], job[p].cred)]
    PROVE  /\ NewestIn(files', path[p]) /\ LatestIn(files') = path[p]
           /\ files'[path[p]].key = key[p] /\ files'[path[p]].from = job[p].cred
           /\ files'[path[p]].there
  <1> USE FileTypes DEF IInv, TInv, TypeOK, Typed, FilesInv, Names, WritesNewest
  <1>1. path[p] \in Time /\ path[p] = last /\ key[p] \in Nat /\ job[p].cred \in Cred
    BY CredTypes
  <1>2. files'[path[p]] = Session(key[p], job[p].cred) BY <1>1
  <1>3. NewestIn(files', path[p])
    BY <1>1, <1>2 DEF NewestIn, Time
  <1>4. LatestIn(files') = path[p] BY <1>1, <1>3, NewestIs
  <1> QED BY <1>1, <1>2, <1>3, <1>4

LEMMA Wiped ==
    ASSUME files' = [t \in Time |-> NoFile]
    PROVE  NewestIn(files', 0) /\ ~Loads(files') /\ \A u \in Time : ~files'[u].there
  <1>1. \A u \in Time : ~files'[u].there BY FileTypes
  <1>2. NewestIn(files', 0) BY <1>1 DEF NewestIn
  <1> QED BY <1>1, <1>2, NewestIs DEF Loads

\* The steps that leave the session files alone.
Apart(p) == Send(p) \/ TimesOut(p) \/ Busy(p) \/ Rejected(p) \/ Receive(p) \/ Unusable(p) \/ Mark(p)

LEMMA NextFiles == ASSUME Serial, IInv, [Next]_vars PROVE FilesInv'
  <1> USE DEF Serial, IInv, TInv, FilesInv, disk, control, world
  <1>1. ASSUME NEW p \in Procs, Apart(p) PROVE FilesInv'
    <2>1. files' = files /\ last' = last /\ clock' = clock /\ pc[p] \notin Ended
      BY <1>1 DEF Apart, Send, TimesOut, Busy, Rejected, Receive, Unusable, Mark, Ended
    <2>2. ~Loads(files)
      BY <1>1 DEF NoSessionYet, Apart, Send, TimesOut, Busy, Rejected, Receive, Unusable, Mark, Ended
    <2>3. \A q \in Procs : pc'[q] # "write"
      BY <1>1 DEF Apart, Send, TimesOut, Busy, Rejected, Receive, Unusable, Mark, Retries, Typed
    <2> QED BY <2>1, <2>2, <2>3 DEF Names, NewestThere, NoSessionYet, WritesNewest
  <1>2. ASSUME NEW p \in Procs, Kill(p) PROVE FilesInv'
    BY <1>2 DEF Kill, Names, NewestThere, NoSessionYet, WritesNewest, Typed, Ended
  <1>3. ASSUME NEW p \in Procs, NEW j \in Jobs, Begin(p, j) PROVE FilesInv'
    <2>0. PICK c \in {"exit0", "exit1", "running", "send", "open"} :
            /\ pc' = [pc EXCEPT ![p] = c]
            /\ HasState => c \notin {"send", "open"} \/ (c = "open" /\ j.cred = "config")
      BY <1>3, BeginGoes
    <2>1. HasState => pc'[p] \in Ended \/ (pc'[p] = "open" /\ job'[p].cred = "config")
      BY <1>3, <2>0 DEF Begin, Typed, Ended
    <2>2. files' = files /\ last' = last /\ clock' = clock BY <1>3 DEF Begin
    <2>3. pc'[p] # "write" BY <1>3, BeginGoes DEF Typed
    <2> QED BY <2>1, <2>2, <2>3, StateLoads DEF Names, NewestThere, NoSessionYet, WritesNewest
  <1>4. ASSUME NEW r \in flight, Redeem(r) PROVE FilesInv'
    BY <1>4 DEF Redeem, Names, NewestThere, NoSessionYet, WritesNewest
  <1>5. CASE Wipe
    <2>1. pc' = pc /\ last' = last /\ clock' = clock BY <1>5 DEF Wipe
    <2>2. NewestIn(files', 0) /\ ~Loads(files') /\ \A u \in Time : ~files'[u].there
      BY <1>5, Wiped DEF Wipe
    <2>3. \A p \in Procs : pc[p] # "write" BY <1>5 DEF Wipe, Ended
    <2> QED BY <2>1, <2>2, <2>3 DEF Names, NewestThere, NoSessionYet, WritesNewest
  <1>6. CASE Tick
    BY <1>6 DEF Tick, Names, NewestThere, NoSessionYet, WritesNewest, TypeOK, Time
  <1>7. CASE SetBack BY <1>7 DEF SetBack
  <1>8. ASSUME NEW p \in Procs, Open(p) PROVE FilesInv'
    <2>1. last' = clock /\ clock' = clock /\ clock \in Time /\ path' = [path EXCEPT ![p] = clock]
      BY <1>8 DEF Open, TypeOK
    <2>2. CASE files' = [files EXCEPT ![clock] = Torn] /\ pc' = [pc EXCEPT ![p] = "write"]
      <3>1. NewestIn(files', clock) /\ ~Loads(files') /\ files'[clock].there BY <2>2, Opened
      <3>2. Names' BY <2>1, <3>1 DEF Names, NewestIn, Time
      <3>3. WritesNewest' BY <2>1, <2>2, <3>1 DEF WritesNewest, Typed
      <3> QED BY <2>1, <3>1, <3>2, <3>3 DEF NewestThere, NoSessionYet
    <2>3. CASE files' = files /\ pc' = [pc EXCEPT ![p] = Done(p)]
      <3>1. \A q \in Procs : pc'[q] \in Ended /\ pc'[q] # "write"
        BY <2>3 DEF Typed, Done, Ended
      <3> QED BY <2>1, <2>3, <3>1 DEF Names, NewestThere, NoSessionYet, WritesNewest, TypeOK, Time
    <2> QED BY <1>8, <2>2, <2>3 DEF Open
  <1>9. ASSUME NEW p \in Procs, Write(p) PROVE FilesInv'
    <2>1. last' = last /\ clock' = clock /\ pc[p] = "write" /\ path' = path
      BY <1>9 DEF Write
    <2>2. \A q \in Procs : pc'[q] \in Ended /\ pc'[q] # "write"
      BY <1>9 DEF Write, Typed, Done, Ended
    <2>3. CASE files' = [files EXCEPT ![path[p]] = Session(key[p], job[p].cred)]
      <3>1. NewestIn(files', path[p]) /\ path[p] \in Time /\ path[p] = last
        BY <2>1, <2>3, Written DEF Typed, WritesNewest
      <3> QED BY <2>1, <2>2, <3>1 DEF Names, NewestIn, NewestThere, NoSessionYet, WritesNewest
    <2>4. CASE files' = files
      BY <2>1, <2>2, <2>4 DEF Names, NewestThere, NoSessionYet, WritesNewest
    <2> QED BY <1>9, <2>3, <2>4 DEF Write
  <1>10. CASE UNCHANGED vars
    BY <1>10 DEF vars, Names, NewestThere, NoSessionYet, WritesNewest
  <1> QED
    BY <1>1, <1>2, <1>3, <1>4, <1>5, <1>6, <1>7, <1>8, <1>9, <1>10 DEF Next, Step, Apart

LEMMA NextKeys == ASSUME Serial, IInv, [Next]_vars PROVE KeysInv'
  <1> USE DEF Serial, IInv, TInv, KeysInv, disk, control, world
  <1>1. ASSUME NEW p \in Procs, Send(p) PROVE KeysInv'
    <2>1. /\ pc[p] = "send" /\ pc'[p] = "wait" /\ key' = key /\ key[p] = 0
          /\ flight' = flight \cup {made'} /\ await'[p] = made'
      BY <1>1 DEF Send, Typed, KeyCurrent, Ended
    <2>2. flight = {} BY <2>1 DEF Awaited
    <2>3. ctl' = ctl /\ files' = files BY <1>1 DEF Send
    <2> QED BY <2>1, <2>2, <2>3 DEF Awaited, KeyCurrent, SavedCurrent
  <1>2. ASSUME NEW p \in Procs, TimesOut(p) PROVE KeysInv'
    <2>1. /\ key' = [key EXCEPT ![p] = 0] /\ flight' = flight \ {await[p]} /\ ctl' = ctl
          /\ files' = files /\ await' = await
      BY <1>2 DEF TimesOut
    <2>2. flight' = {} BY <2>1 DEF Awaited
    <2> QED BY <2>1, <2>2 DEF Awaited, KeyCurrent, SavedCurrent, Typed
  <1>3. ASSUME NEW p \in Procs, Busy(p) PROVE KeysInv'
    <2>1. /\ key' = key /\ flight' = flight \ {await[p]} /\ ctl' = ctl /\ await[p] \in flight
          /\ files' = files /\ await' = await
      BY <1>3 DEF Busy
    <2>2. flight' = {} /\ key[p] = 0 BY <2>1 DEF Awaited
    <2> QED BY <2>1, <2>2 DEF Awaited, KeyCurrent, SavedCurrent, Typed
  <1>4. ASSUME NEW p \in Procs, Rejected(p) PROVE KeysInv'
    <2>1. /\ key' = key /\ flight' = flight \ {await[p]} /\ ctl' = ctl /\ pc'[p] = "exit1"
          /\ files' = files /\ await' = await
      BY <1>4 DEF Rejected, Typed
    <2>2. flight' = {} BY <2>1 DEF Awaited
    <2> QED BY <2>1, <2>2 DEF Awaited, KeyCurrent, SavedCurrent, Ended
  <1>5. ASSUME NEW p \in Procs,
               Receive(p) \/ Unusable(p) \/ Mark(p) \/ Open(p) \/ Write(p)
        PROVE  KeysInv'
    <2>1. /\ key' = key /\ flight' = flight /\ ctl' = ctl /\ pc[p] \notin Ended
          /\ pc[p] = "wait" => key[p] # 0
      BY <1>5 DEF Receive, Unusable, Mark, Open, Write, Ended
    <2>2. flight = {} BY <2>1 DEF Awaited
    <2>3. pc'[p] # "send"
      BY <1>5 DEF Receive, Unusable, Mark, Open, Write, Typed, Done
    <2>4. SavedCurrent'
      <3>1. CASE files' = files BY <2>1, <3>1 DEF SavedCurrent
      <3>2. CASE files' = [files EXCEPT ![clock] = Torn] BY <3>2, Opened DEF SavedCurrent
      <3>3. CASE pc[p] = "write" /\ files' = [files EXCEPT ![path[p]] = Session(key[p], job[p].cred)]
        <4>1. LatestIn(files') = path[p] /\ files'[path[p]].key = key[p]
          BY <3>3, Written
        <4>2. key[p] = 0 \/ key[p] = ctl BY <2>1 DEF KeyCurrent
        <4> QED BY ONLY <2>1, <4>1, <4>2 DEF SavedCurrent
      <3> QED BY <1>5, <3>1, <3>2, <3>3 DEF Receive, Unusable, Mark, Open, Write
    <2> QED BY <2>1, <2>2, <2>3, <2>4 DEF Awaited, KeyCurrent
  <1>6. ASSUME NEW p \in Procs, Kill(p) PROVE KeysInv'
    <2>1. /\ key' = key /\ flight' = flight \ {await[p]} /\ ctl' = ctl /\ pc'[p] = "killed"
          /\ files' = files /\ await' = await
      BY <1>6 DEF Kill, Typed
    <2>2. flight' = {} BY <2>1 DEF Awaited
    <2> QED BY <2>1, <2>2 DEF Awaited, KeyCurrent, SavedCurrent, Ended
  <1>7. ASSUME NEW p \in Procs, NEW j \in Jobs, Begin(p, j) PROVE KeysInv'
    <2>1. /\ key'[p] = 0 /\ flight' = flight /\ ctl' = ctl /\ files' = files /\ pc[p] \in Ended
      BY <1>7 DEF Begin, Typed
    <2>2. flight = {} BY <2>1 DEF Awaited, Ended
    <2> QED BY <2>1, <2>2 DEF Awaited, KeyCurrent, SavedCurrent
  <1>8. ASSUME NEW r \in flight, Redeem(r) PROVE KeysInv'
    <2>1. PICK p \in Procs : pc[p] = "wait" /\ await[p] = r /\ key[p] = 0
      BY DEF Awaited
    <2>2. flight' = {} BY <1>8, <2>1 DEF Awaited, Redeem
    <2>3. key'[p] = ctl' /\ pc' = pc /\ files' = files
      BY <1>8, <2>1 DEF Redeem
    <2>4. ~Loads(files) BY <2>1 DEF FilesInv, NoSessionYet, Ended
    <2> QED BY <2>1, <2>2, <2>3, <2>4 DEF Awaited, KeyCurrent, SavedCurrent
  <1>9. CASE Wipe
    <2>1. pc' = pc /\ key' = key /\ ctl' = ctl /\ flight' = flight /\ await' = await
      BY <1>9 DEF Wipe
    <2>2. ~Loads(files') BY <1>9, Wiped DEF Wipe
    <2> QED BY <2>1, <2>2 DEF Awaited, KeyCurrent, SavedCurrent
  <1>10. CASE Tick BY <1>10 DEF Tick, Awaited, KeyCurrent, SavedCurrent
  <1>11. CASE SetBack BY <1>11 DEF SetBack
  <1>12. CASE UNCHANGED vars BY <1>12 DEF vars, Awaited, KeyCurrent, SavedCurrent
  <1> QED
    BY <1>1, <1>2, <1>3, <1>4, <1>5, <1>6, <1>7, <1>8, <1>9, <1>10, <1>11, <1>12 DEF Next, Step

LEMMA NextFleet == ASSUME Serial, IInv, [Next]_vars PROVE FleetInv'
  <1> USE DEF Serial, IInv, TInv, FleetInv, disk, control, world
  <1>1. ASSUME NEW p \in Procs, Apart(p) PROVE FleetInv'
    <2>1. /\ files' = files /\ job' = job /\ (marker => marker') /\ pc[p] \notin {"open", "write"}
          /\ fleet' = "enrolled" => fleet = "enrolled"
      BY <1>1 DEF Apart, Send, TimesOut, Busy, Rejected, Receive, Unusable, Mark
    <2>2. \A q \in Procs : q = p OBVIOUS
    <2>3. pc'[p] \in {"open", "write"} =>
            /\ job[p].cred \in {"reg", "fleet"}
            /\ job[p].cred = "fleet" => marker' \/ fleet' = "unmarked"
      BY <1>1 DEF Apart, Send, TimesOut, Busy, Rejected, Receive, Unusable, Mark, Retries, Typed, Marked
    <2>4. pc'[p] \in {"send", "wait", "mark"} =>
            job[p].cred \in {"reg", "fleet"} /\ (pc'[p] = "mark" => job[p].cred = "fleet")
      BY <1>1 DEF Apart, Send, TimesOut, Busy, Rejected, Receive, Unusable, Mark, Retries, Typed, Marked
    <2>5. Marked' BY <2>1, <2>2, <2>3, <2>4 DEF Marked
    <2> QED BY <2>1, <2>5 DEF EnrolledKey
  <1>2. ASSUME NEW p \in Procs, Kill(p) PROVE FleetInv'
    BY <1>2 DEF Kill, Marked, EnrolledKey, Typed
  <1>3. ASSUME NEW p \in Procs, NEW j \in Jobs, Begin(p, j) PROVE FleetInv'
    <2>1. marker' = marker /\ fleet' = fleet /\ files' = files /\ job'[p] = j
      BY <1>3 DEF Begin, Typed
    <2>2. /\ pc'[p] \in {"send", "open", "exit0", "exit1", "running"}
          /\ pc'[p] = "send" => j.cred \in {"reg", "fleet"}
          /\ pc'[p] = "open" => j.cred \notin {"reg", "fleet"} /\ (j.cred = "none" => ~marker)
      BY <1>3, BeginGoes DEF Typed
    <2> QED BY <2>1, <2>2 DEF Marked, EnrolledKey
  <1>4. ASSUME NEW r \in flight, Redeem(r) PROVE FleetInv'
    BY <1>4 DEF Redeem, Marked, EnrolledKey
  <1>5. CASE Wipe
    <2>1. ~Loads(files') BY <1>5, Wiped DEF Wipe
    <2> QED BY <1>5, <2>1 DEF Wipe, Marked, EnrolledKey
  <1>6. CASE Tick BY <1>6 DEF Tick, Marked, EnrolledKey
  <1>7. CASE SetBack BY <1>7 DEF SetBack
  <1>8. ASSUME NEW p \in Procs, Open(p) PROVE FleetInv'
    <2>1. /\ marker' = marker /\ fleet' = fleet /\ job' = job /\ pc[p] = "open"
          /\ pc'[p] \in {"write", "exit0", "running"}
      BY <1>8 DEF Open, Done, Typed
    <2>2. Marked' BY <2>1 DEF Marked
    <2>3. EnrolledKey'
      BY <1>8, <2>1, Opened DEF Open, EnrolledKey
    <2> QED BY <2>2, <2>3
  <1>9. ASSUME NEW p \in Procs, Write(p) PROVE FleetInv'
    <2>1. /\ marker' = marker /\ job' = job /\ pc[p] = "write" /\ pc'[p] \in {"exit0", "running"}
          /\ fleet' = "enrolled" => fleet = "enrolled" \/ (job[p].cred = "fleet" /\ fleet = "no")
      BY <1>9 DEF Write, Done, Typed
    <2>2. Marked' BY <2>1 DEF Marked
    <2>3. ~Loads(files) BY <2>1 DEF FilesInv, NoSessionYet, Ended
    <2>4. fleet' = "enrolled" => job[p].cred # "none"
      BY <2>1 DEF Marked
    <2>5. EnrolledKey'
      BY <1>9, <2>1, <2>3, <2>4, Written DEF Write, EnrolledKey
    <2> QED BY <2>2, <2>5
  <1>10. CASE UNCHANGED vars BY <1>10 DEF vars, Marked, EnrolledKey
  <1> QED
    BY <1>1, <1>2, <1>3, <1>4, <1>5, <1>6, <1>7, <1>8, <1>9, <1>10 DEF Next, Step, Apart

(* When one process onboards at a time, the inductive invariant holds.     *)
THEOREM SerialInvariance == ASSUME Serial PROVE Spec => []IInv
  <1>1. IInv /\ [Next]_vars => IInv'
    BY NextTInv, NextFiles, NextKeys, NextFleet DEF IInv
  <1> QED BY InitIInv, <1>1, PTL DEF Spec

(* Control rotates the api key at every redemption, and a request may be   *)
(* repeated, its answer lost and the process killed at any step: the key   *)
(* in the session that the next start loads is still the one Control       *)
(* accepts (_request_with_retry, bootstrap, load_state).                   *)
THEOREM SavedKeySafe == ASSUME Serial PROVE Spec => []SavedKeyWorks
  <1>1. IInv => SavedKeyWorks
    BY StateLoads DEF IInv, KeysInv, SavedCurrent, SavedKeyWorks
  <1> QED BY <1>1, SerialInvariance, PTL

(* An enrolled fleet device never comes back as a fresh agent with the     *)
(* default configuration, and the session that was bootstrapped last is    *)
(* the one that is loaded (_write_fleet_marker, _get_latest_session_file). *)
THEOREM EnrolledSafe == ASSUME Serial PROVE Spec => []EnrolledStays
  <1>1. ASSUME IInv PROVE SessionFound
    <2> SUFFICES ASSUME last # 0, files[last].whole PROVE HasState /\ Latest = last
      BY DEF SessionFound
    <2>1. last \in Time /\ files[last].there
      BY <1>1 DEF IInv, TInv, TypeOK
    <2>2. LatestIn(files) = last
      BY <1>1, <2>1, NewestIs DEF IInv, FilesInv, Names, NewestIn
    <2> QED BY <2>2, StateLoads DEF Loads
  <1>2. IInv => FleetFailsLoud
    BY StateLoads DEF IInv, FleetInv, EnrolledKey, FleetFailsLoud
  <1>3. IInv => EnrolledStays BY <1>1, <1>2 DEF EnrolledStays
  <1> QED BY <1>3, SerialInvariance, PTL

---------------------------------------------------------------------------
(* The Zenoh session.  Only the part that the agent works on may have an   *)
(* archive; zenohd is cut only while it is unpacked, and waits only for    *)
(* its chmod where it may not be executed.  Neither outlives provisioning, *)
(* as long as no kill or failing unpacking gets in between.                *)
AtWork == {"fetching", "unpack", "unpacking", "remove"}
Level == {"none", "part", "whole"}
ZPC == {"off", "unregistered", "fetch", "fetching", "unpack", "unpacking", "remove", "chmod",
        "stalled", "ensure", "boot", "connect", "up"}

RouterInv ==
    /\ z_archive \in [Zenoh!Part -> Level] /\ z_files \in [Zenoh!Part -> Level]
    /\ z_part \in Zenoh!Part /\ z_exec \in BOOLEAN /\ z_pc \in ZPC
    /\ \A c \in Zenoh!Part : z_archive[c] # "none" => z_pc = "stalled" \/ (c = z_part /\ z_pc \in AtWork)
    /\ z_part = "router" /\ z_pc \in {"fetch", "fetching", "unpack"} => z_files["router"] = "none"
    /\ z_files["router"] = "part" => z_part = "router" /\ z_pc = "unpacking"
    /\ z_files["router"] # "none" /\ ~z_exec => z_part = "router" /\ z_pc \in {"unpacking", "remove", "chmod"}

LEMMA NextRouterInv == RouterInv /\ [Zenoh!Next]_Zenoh!vars => RouterInv'
  <1> SUFFICES ASSUME RouterInv, [Zenoh!Next]_Zenoh!vars PROVE RouterInv'
    OBVIOUS
  <1> USE DEF RouterInv, AtWork, Level, ZPC, Zenoh!Part
  <1>1. CASE Zenoh!Start BY <1>1 DEF Zenoh!Start
  <1>2. CASE Zenoh!FetchSkipped BY <1>2 DEF Zenoh!FetchSkipped
  <1>3. CASE Zenoh!Fetch BY <1>3 DEF Zenoh!Fetch
  <1>4. CASE Zenoh!Fetched BY <1>4 DEF Zenoh!Fetched
  <1>5. CASE Zenoh!Unpack BY <1>5 DEF Zenoh!Unpack
  <1>6. CASE Zenoh!Unpacked BY <1>6 DEF Zenoh!Unpacked
  <1>7. CASE Zenoh!FetchFails BY <1>7 DEF Zenoh!FetchFails, Zenoh!Breaks, Zenoh!Fault
  <1>8. CASE Zenoh!Remove BY <1>8 DEF Zenoh!Remove
  <1>9. CASE Zenoh!NextPart BY <1>9 DEF Zenoh!NextPart, Zenoh!After
  <1>10. CASE Zenoh!Ensure BY <1>10 DEF Zenoh!Ensure, Zenoh!Fault
  <1>11. CASE Zenoh!RouterBoots BY <1>11 DEF Zenoh!RouterBoots
  <1>12. CASE Zenoh!RouterFails BY <1>12 DEF Zenoh!RouterFails, Zenoh!Fault
  <1>13. CASE Zenoh!Connect BY <1>13 DEF Zenoh!Connect
  <1>14. CASE Zenoh!ConnectFails BY <1>14 DEF Zenoh!ConnectFails, Zenoh!Fault
  <1>15. CASE Zenoh!RouterFound BY <1>15 DEF Zenoh!RouterFound
  <1>16. CASE Zenoh!Kill BY <1>16 DEF Zenoh!Kill, Zenoh!Fault
  <1>17. CASE Zenoh!Stall BY <1>17 DEF Zenoh!Stall, Zenoh!Fault
  <1>18. CASE Zenoh!Unregister BY <1>18 DEF Zenoh!Unregister, Zenoh!Fault
  <1>19. CASE Zenoh!Register BY <1>19 DEF Zenoh!Register
  <1>20. CASE UNCHANGED Zenoh!vars BY <1>20 DEF Zenoh!vars
  <1> QED BY <1>1, <1>2, <1>3, <1>4, <1>5, <1>6, <1>7, <1>8, <1>9, <1>10, <1>11, <1>12,
             <1>13, <1>14, <1>15, <1>16, <1>17, <1>18, <1>19, <1>20
          DEF Zenoh!Next, Zenoh!Agent

(* _download_component: downloads that fail leave no archive behind that   *)
(* would keep the next start from trying again, and the zenohd that        *)
(* is_router_installed finds is whole and executable, though nothing but   *)
(* its existence is asked; for any number of attempts and of faults.       *)
THEOREM RouterWholeSafe == Zenoh!Spec => []RouterWhole
  <1>1. Zenoh!Init => RouterInv
    BY DEF Zenoh!Init, RouterInv, Zenoh!Part, Level, ZPC
  <1>2. RouterInv => RouterWhole
    BY DEF RouterInv, RouterWhole, Zenoh!NoArchiveLeft, Zenoh!InstalledWorks, Zenoh!Works,
       Zenoh!Provisioned, AtWork, Zenoh!Part, Level
  <1> QED BY <1>1, <1>2, NextRouterInv, PTL DEF Zenoh!Spec
=============================================================================
