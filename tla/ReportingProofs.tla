-------------------------- MODULE ReportingProofs --------------------------
(***************************************************************************)
(* Proofs about what goes between the agent and Control: the reports of    *)
(* removals without and with kills, failing writes and failing reads       *)
(* (Faulty), for any models, bounds and faults; the commands of one        *)
(* pipeline with the deploys their workers go on with (Polled) and         *)
(* the records of one handler (Steady), for any number of them, any        *)
(* faults, threads and retries.                                            *)
(***************************************************************************)
EXTENDS MCReporting, Sequences, TLAPS

(* A report that the main loop has sent and Control has taken is no longer *)
(* needed, or its model has a worker of its own again.                     *)
Settled(m) == m \notin shown \/ m \in here \/ worker[m] # "none"
SentIsSettled == flushing => \A m \in pending \ (todo \cup left) : Settled(m)

IInv == TypeOK /\ SentIsSettled

LEMMA InitIInv == Init => IInv
  BY ReportsAssumption DEF Init, IInv, TypeOK, SentIsSettled

LEMMA NextTypeOK == TypeOK /\ [Next]_vars => TypeOK'
  <1> SUFFICES ASSUME TypeOK, [Next]_vars PROVE TypeOK'
    OBVIOUS
  <1> USE ReportsAssumption DEF TypeOK, file, flush
  <1>1. CASE FlushBegins BY <1>1 DEF FlushBegins
  <1>2. CASE FlushSaves BY <1>2 DEF FlushSaves
  <1>3. CASE Killed BY <1>3 DEF Killed
  <1>4. ASSUME NEW m \in Models, Deploy(m) PROVE TypeOK' BY <1>4 DEF Deploy
  <1>5. ASSUME NEW m \in Models, Uninstalled(m) PROVE TypeOK' BY <1>5 DEF Uninstalled
  <1>6. ASSUME NEW m \in Models, PostOK(m) PROVE TypeOK' BY <1>6 DEF PostOK
  <1>7. ASSUME NEW m \in Models, PostFails(m) PROVE TypeOK' BY <1>7 DEF PostFails
  <1>8. ASSUME NEW m \in Models, Queue(m) PROVE TypeOK' BY <1>8 DEF Queue
  <1>9. ASSUME NEW m \in Models, QueueFails(m) PROVE TypeOK' BY <1>9 DEF QueueFails
  <1>10. ASSUME NEW m \in Models, FlushPost(m) PROVE TypeOK' BY <1>10 DEF FlushPost
  <1>12. ASSUME NEW m \in Models, QueueUnread(m) PROVE TypeOK' BY <1>12 DEF QueueUnread
  <1>11. CASE UNCHANGED vars BY <1>11 DEF vars
  <1> QED BY <1>1, <1>2, <1>3, <1>4, <1>5, <1>6, <1>7, <1>8, <1>9, <1>10, <1>11, <1>12
        DEF Next

(* The strengthening: the queue changes only outside a flush, and what a   *)
(* flush takes off its list has reached Control.                           *)
LEMMA NextSentIsSettled == IInv /\ [Next]_vars => SentIsSettled'
  <1> SUFFICES ASSUME IInv, [Next]_vars PROVE SentIsSettled'
    OBVIOUS
  <1> USE DEF IInv, TypeOK, SentIsSettled, Settled, file, flush
  <1>1. CASE FlushBegins BY <1>1 DEF FlushBegins
  <1>2. CASE FlushSaves BY <1>2 DEF FlushSaves
  <1>3. CASE Killed BY <1>3 DEF Killed
  <1>4. ASSUME NEW m \in Models, Deploy(m) PROVE SentIsSettled' BY <1>4 DEF Deploy
  <1>5. ASSUME NEW m \in Models, Uninstalled(m) PROVE SentIsSettled' BY <1>5 DEF Uninstalled
  <1>6. ASSUME NEW m \in Models, PostOK(m) PROVE SentIsSettled' BY <1>6 DEF PostOK
  <1>7. ASSUME NEW m \in Models, PostFails(m) PROVE SentIsSettled' BY <1>7 DEF PostFails
  <1>8. ASSUME NEW m \in Models, Queue(m) PROVE SentIsSettled' BY <1>8 DEF Queue
  <1>9. ASSUME NEW m \in Models, QueueFails(m) PROVE SentIsSettled' BY <1>9 DEF QueueFails
  <1>10. ASSUME NEW m \in Models, FlushPost(m) PROVE SentIsSettled' BY <1>10 DEF FlushPost
  <1>12. ASSUME NEW m \in Models, QueueUnread(m) PROVE SentIsSettled' BY <1>12 DEF QueueUnread
  <1>11. CASE UNCHANGED vars BY <1>11 DEF vars
  <1> QED BY <1>1, <1>2, <1>3, <1>4, <1>5, <1>6, <1>7, <1>8, <1>9, <1>10, <1>11, <1>12
        DEF Next

(* The type invariant and its strengthening hold in every behaviour.       *)
THEOREM Invariance == Spec => []IInv
  <1>1. IInv /\ [Next]_vars => IInv'
    BY NextTypeOK, NextSentIsSettled DEF IInv
  <1> QED BY InitIInv, <1>1, PTL DEF Spec

(* The variables of the queue and of its flush have their types.           *)
THEOREM TypeCorrect == Spec => []TypeOK
  BY Invariance, PTL DEF IInv

(* Without kills and failing writes no removal that Control still shows is *)
(* forgotten: a worker has it, or the queue file.                          *)
THEOREM NothingForgotten == ASSUME Faults = {} PROVE Spec => []NoForgottenReport
  <1>1. Init => NoForgottenReport
    BY DEF Init, NoForgottenReport
  <1>2. IInv /\ NoForgottenReport /\ [Next]_vars => NoForgottenReport'
    <2> SUFFICES ASSUME IInv, NoForgottenReport, [Next]_vars PROVE NoForgottenReport'
      OBVIOUS
    <2> USE DEF IInv, TypeOK, SentIsSettled, Settled, NoForgottenReport, file, flush
    <2>1. CASE FlushBegins BY <2>1 DEF FlushBegins
    <2>2. CASE FlushSaves BY <2>2 DEF FlushSaves
    <2>3. CASE Killed BY <2>3 DEF Killed
    <2>4. ASSUME NEW m \in Models, Deploy(m) PROVE NoForgottenReport' BY <2>4 DEF Deploy
    <2>5. ASSUME NEW m \in Models, Uninstalled(m) PROVE NoForgottenReport' BY <2>5 DEF Uninstalled
    <2>6. ASSUME NEW m \in Models, PostOK(m) PROVE NoForgottenReport' BY <2>6 DEF PostOK
    <2>7. ASSUME NEW m \in Models, PostFails(m) PROVE NoForgottenReport' BY <2>7 DEF PostFails
    <2>8. ASSUME NEW m \in Models, Queue(m) PROVE NoForgottenReport' BY <2>8 DEF Queue
    <2>9. ASSUME NEW m \in Models, QueueFails(m) PROVE NoForgottenReport' BY <2>9 DEF QueueFails
    <2>10. ASSUME NEW m \in Models, FlushPost(m) PROVE NoForgottenReport' BY <2>10 DEF FlushPost
    <2>12. ASSUME NEW m \in Models, QueueUnread(m) PROVE NoForgottenReport' BY <2>12 DEF QueueUnread
    <2>11. CASE UNCHANGED vars BY <2>11 DEF vars
    <2> QED BY <2>1, <2>2, <2>3, <2>4, <2>5, <2>6, <2>7, <2>8, <2>9, <2>10, <2>11, <2>12
          DEF Next
  <1> QED BY <1>1, <1>2, Invariance, PTL DEF Spec

---------------------------------------------------------------------------
(* The reports of removals, with kills, writes and reads that fail         *)
(* (Faulty).                                                               *)
FaultyConstants ==
    MaxDeploys \in Nat /\ MaxFaulty \in Nat /\ FaultyFaults \subseteq {"kill", "disk", "read"}

(* A report that the main loop has sent and Control has taken is no longer *)
(* needed, or its model has a worker of its own again.                     *)
Known(m) == m \notin f_shown \/ m \in f_here \/ f_worker[m] # "none"
FaultySettled == f_flushing => \A m \in f_pending \ (f_todo \cup f_left) : Known(m)

FaultyInv == Faulty!TypeOK /\ FaultySettled

LEMMA InitFaultyInv == ASSUME FaultyConstants PROVE Faulty!Init => FaultyInv
  BY DEF FaultyConstants, Faulty!Init, FaultyInv, Faulty!TypeOK, FaultySettled

LEMMA NextFaultyTypeOK ==
    ASSUME FaultyConstants, Faulty!TypeOK, [Faulty!Next]_Faulty!vars PROVE Faulty!TypeOK'
  <1> USE DEF FaultyConstants, Faulty!TypeOK, Faulty!file, Faulty!flush
  <1>1. CASE Faulty!FlushBegins BY <1>1 DEF Faulty!FlushBegins
  <1>2. CASE Faulty!FlushSaves BY <1>2 DEF Faulty!FlushSaves
  <1>3. CASE Faulty!Killed BY <1>3 DEF Faulty!Killed
  <1>4. ASSUME NEW m \in Models, Faulty!Deploy(m) PROVE Faulty!TypeOK' BY <1>4 DEF Faulty!Deploy
  <1>5. ASSUME NEW m \in Models, Faulty!Uninstalled(m) PROVE Faulty!TypeOK'
    BY <1>5 DEF Faulty!Uninstalled
  <1>6. ASSUME NEW m \in Models, Faulty!PostOK(m) PROVE Faulty!TypeOK' BY <1>6 DEF Faulty!PostOK
  <1>7. ASSUME NEW m \in Models, Faulty!PostFails(m) PROVE Faulty!TypeOK'
    BY <1>7 DEF Faulty!PostFails
  <1>8. ASSUME NEW m \in Models, Faulty!Queue(m) PROVE Faulty!TypeOK' BY <1>8 DEF Faulty!Queue
  <1>9. ASSUME NEW m \in Models, Faulty!QueueFails(m) PROVE Faulty!TypeOK'
    BY <1>9 DEF Faulty!QueueFails
  <1>10. ASSUME NEW m \in Models, Faulty!FlushPost(m) PROVE Faulty!TypeOK'
    BY <1>10 DEF Faulty!FlushPost
  <1>12. ASSUME NEW m \in Models, Faulty!QueueUnread(m) PROVE Faulty!TypeOK'
    BY <1>12 DEF Faulty!QueueUnread
  <1>11. CASE UNCHANGED Faulty!vars BY <1>11 DEF Faulty!vars
  <1> QED BY <1>1, <1>2, <1>3, <1>4, <1>5, <1>6, <1>7, <1>8, <1>9, <1>10, <1>11, <1>12
        DEF Faulty!Next

(* The strengthening: the queue changes only outside a flush, and what a   *)
(* flush takes off its list has reached Control.                           *)
LEMMA NextFaultySettled ==
    FaultyInv /\ [Faulty!Next]_Faulty!vars => FaultySettled'
  <1> SUFFICES ASSUME FaultyInv, [Faulty!Next]_Faulty!vars PROVE FaultySettled'
    OBVIOUS
  <1> USE DEF FaultyInv, Faulty!TypeOK, FaultySettled, Known, Faulty!file, Faulty!flush
  <1>1. CASE Faulty!FlushBegins BY <1>1 DEF Faulty!FlushBegins
  <1>2. CASE Faulty!FlushSaves BY <1>2 DEF Faulty!FlushSaves
  <1>3. CASE Faulty!Killed BY <1>3 DEF Faulty!Killed
  <1>4. ASSUME NEW m \in Models, Faulty!Deploy(m) PROVE FaultySettled' BY <1>4 DEF Faulty!Deploy
  <1>5. ASSUME NEW m \in Models, Faulty!Uninstalled(m) PROVE FaultySettled'
    BY <1>5 DEF Faulty!Uninstalled
  <1>6. ASSUME NEW m \in Models, Faulty!PostOK(m) PROVE FaultySettled' BY <1>6 DEF Faulty!PostOK
  <1>7. ASSUME NEW m \in Models, Faulty!PostFails(m) PROVE FaultySettled'
    BY <1>7 DEF Faulty!PostFails
  <1>8. ASSUME NEW m \in Models, Faulty!Queue(m) PROVE FaultySettled' BY <1>8 DEF Faulty!Queue
  <1>9. ASSUME NEW m \in Models, Faulty!QueueFails(m) PROVE FaultySettled'
    BY <1>9 DEF Faulty!QueueFails
  <1>10. ASSUME NEW m \in Models, Faulty!FlushPost(m) PROVE FaultySettled'
    BY <1>10 DEF Faulty!FlushPost
  <1>12. ASSUME NEW m \in Models, Faulty!QueueUnread(m) PROVE FaultySettled'
    BY <1>12 DEF Faulty!QueueUnread
  <1>11. CASE UNCHANGED Faulty!vars BY <1>11 DEF Faulty!vars
  <1> QED BY <1>1, <1>2, <1>3, <1>4, <1>5, <1>6, <1>7, <1>8, <1>9, <1>10, <1>11, <1>12
        DEF Faulty!Next

(* The type invariant and its strengthening hold in every behaviour.       *)
THEOREM FaultyInvariance == ASSUME FaultyConstants PROVE Faulty!Spec => []FaultyInv
  <1>1. FaultyInv /\ [Faulty!Next]_Faulty!vars => FaultyInv'
    BY NextFaultyTypeOK, NextFaultySettled DEF FaultyInv
  <1> QED BY InitFaultyInv, <1>1, PTL DEF Faulty!Spec

(* The variables of the queue and of its flush have their types.           *)
THEOREM FaultyTypeCorrect == ASSUME FaultyConstants PROVE Faulty!Spec => []Faulty!TypeOK
  BY FaultyInvariance, PTL DEF FaultyInv

(* With any kills and failing writes, a queued report leaves the file only *)
(* when Control has it, as _flush_pending_uninstall_reports writes back    *)
(* what failed; or it is lost with a file that could not be read           *)
(* (_load_pending_uninstalls takes that for an empty queue).               *)
THEOREM QueueKeepsReports ==
    ASSUME FaultyConstants PROVE Faulty!Spec => QueueSurvivesFaults
  <1>1. FaultyInv /\ [Faulty!Next]_Faulty!vars =>
          [\A m \in f_pending \ f_pending' :
             m \notin f_shown \/ m \in f_here \/ f_worker[m] # "none" \/ m \in f_unread'
             ]_Faulty!vars
    <2> SUFFICES ASSUME FaultyInv, Faulty!Next, NEW m \in f_pending \ f_pending'
                 PROVE  Known(m) \/ m \in f_unread'
      BY DEF Known
    <2> USE DEF FaultyInv, Faulty!TypeOK, FaultySettled, Faulty!file, Faulty!flush
    <2>1. CASE Faulty!FlushBegins BY <2>1 DEF Faulty!FlushBegins
    <2>2. CASE Faulty!FlushSaves BY <2>2 DEF Faulty!FlushSaves
    <2>3. CASE Faulty!Killed BY <2>3 DEF Faulty!Killed
    <2>4. ASSUME NEW n \in Models,
                 \/ Faulty!Deploy(n) \/ Faulty!Uninstalled(n)
                 \/ Faulty!PostOK(n) \/ Faulty!PostFails(n)
                 \/ Faulty!Queue(n) \/ Faulty!QueueFails(n) \/ Faulty!FlushPost(n)
          PROVE  Known(m)
      <3>1. f_pending \subseteq f_pending'
        BY <2>4 DEF Faulty!Deploy, Faulty!Uninstalled, Faulty!PostOK, Faulty!PostFails,
                    Faulty!Queue, Faulty!QueueFails, Faulty!FlushPost
      <3> QED BY <3>1
    <2>5. ASSUME NEW n \in Models, Faulty!QueueUnread(n) PROVE m \in f_unread'
      BY <2>5 DEF Faulty!QueueUnread
    <2> QED BY <2>1, <2>2, <2>3, <2>4, <2>5 DEF Faulty!Next
  <1> QED BY <1>1, FaultyInvariance, PTL
          DEF Faulty!Spec, QueueSurvivesFaults, Faulty!DroppedWhenDelivered

(* Reports are lost to the queue file only where a read of it fails: with  *)
(* kills and failing writes alone, none is.                                *)
THEOREM ReadsLoseReports ==
    ASSUME "read" \notin FaultyFaults PROVE Faulty!Spec => []Faulty!NothingUnread
  <1>1. Faulty!Init => Faulty!NothingUnread BY DEF Faulty!Init, Faulty!NothingUnread
  <1>2. Faulty!NothingUnread /\ [Faulty!Next]_Faulty!vars => Faulty!NothingUnread'
    BY DEF Faulty!NothingUnread, Faulty!Next, Faulty!vars, Faulty!file, Faulty!FlushBegins,
           Faulty!FlushSaves, Faulty!Killed, Faulty!Deploy, Faulty!Uninstalled, Faulty!PostOK,
           Faulty!PostFails, Faulty!Queue, Faulty!QueueFails, Faulty!QueueUnread,
           Faulty!FlushPost
  <1> QED BY <1>1, <1>2, PTL DEF Faulty!Spec

---------------------------------------------------------------------------
(* Commands that are polled, by a sink that remembers all it has seen and  *)
(* is not built anew.  A window that forgets, a restart, and a second      *)
(* transport with a window of its own each let a command be done twice.    *)
OnePipeline ==
    /\ Sources = {"http"} /\ MaxBoots = 0
    /\ MaxCmds \in Nat /\ Window \in Nat /\ MaxCmds <= Window

done == Len(p_seen["http"])

CommandTypes ==
    /\ p_issued \in 0 .. MaxCmds /\ p_backlog \subseteq 1 .. p_issued
    /\ p_batch \in [Sources -> SUBSET (1 .. p_issued)] /\ p_busy \in [Sources -> 0 .. p_issued]
    /\ p_seen \in [Sources -> Seq(Nat)] /\ p_ran \in [Polled!Cmd -> 0 .. 2] /\ p_boots \in Nat

(* What was handled are the first commands, each once, and they are what   *)
(* the sink has seen; reports and workers are about no others.             *)
DoneFirst ==
    /\ done <= p_issued /\ \A i \in 1 .. done : p_seen["http"][i] = i
    /\ \A c \in Polled!Cmd : p_ran[c] = IF c <= done THEN 1 ELSE 0
    /\ p_reports \subseteq 1 .. done /\ p_work \subseteq 1 .. done

(* What is to be done is in the backlog; a batch leaves none of it out     *)
(* before its last command; and the command that runs is the next one.     *)
NextInLine ==
    /\ \A c \in 1 .. p_issued : c > done => c \in p_backlog
    /\ \A c \in p_batch["http"] : \A d \in 1 .. c : d > done => d \in p_batch["http"]
    /\ p_busy["http"] # 0 => p_busy["http"] = done + 1 /\ p_busy["http"] \in p_batch["http"]

CommandInv == CommandTypes /\ DoneFirst /\ NextInLine

(* What Append does to a sequence of numbers.                              *)
LEMMA AppendFacts ==
    ASSUME NEW s \in Seq(Nat), NEW x \in Nat
    PROVE  /\ Append(s, x) \in Seq(Nat) /\ Len(Append(s, x)) = Len(s) + 1 /\ Len(s) \in Nat
           /\ \A i \in 1 .. Len(s) : Append(s, x)[i] = s[i] /\ s[i] \in Nat
           /\ Append(s, x)[Len(s) + 1] = x
  OBVIOUS

LEMMA InitCommandInv == ASSUME OnePipeline, Polled!Init PROVE CommandInv
  BY DEF OnePipeline, Polled!Init, Polled!Cmd, Polled!Idle, CommandInv, CommandTypes, DoneFirst,
         NextInLine, done

LEMMA NextCommandInv ==
    ASSUME OnePipeline, CommandInv, [Polled!Next]_Polled!vars PROVE CommandInv'
  <1> USE DEF OnePipeline, CommandInv, CommandTypes, DoneFirst, NextInLine, done, Polled!Cmd,
              Polled!Idle, Polled!control, Polled!agent
  <1>1. CASE Polled!Issue BY <1>1 DEF Polled!Issue
  <1>2. CASE Polled!Poll BY <1>2 DEF Polled!Poll, Polled!Free
  <1>3. CASE Polled!Take BY <1>3 DEF Polled!Take
  <1>4. CASE Polled!Restart BY <1>4 DEF Polled!Restart
  <1>5. CASE Polled!Dispatch("http")
    BY <1>5 DEF Polled!Dispatch, Polled!Oldest, Polled!Range
  <1>6. CASE Polled!Handled("http")
    <2>1. /\ done \in Nat /\ p_busy["http"] = done + 1 /\ done + 1 \in 1 .. p_issued
          /\ done + 1 \in Polled!Cmd /\ done + 1 <= Window
      BY <1>6 DEF Polled!Handled
    <2>2. p_seen' = [p_seen EXCEPT !["http"] = Append(p_seen["http"], done + 1)]
      <3>1. p_seen' = [p_seen EXCEPT !["http"] = Polled!Remember(p_seen["http"], done + 1)]
        BY <1>6, <2>1 DEF Polled!Handled
      <3>2. ~(Len(Append(p_seen["http"], done + 1)) > Window)
        BY <2>1, AppendFacts
      <3>3. Polled!Remember(p_seen["http"], done + 1) = Append(p_seen["http"], done + 1)
        BY <3>2 DEF Polled!Remember
      <3> QED BY <3>1, <3>3
    <2>3. /\ p_seen' \in [Sources -> Seq(Nat)] /\ done' = done + 1
          /\ \A i \in 1 .. done + 1 : p_seen'["http"][i] = i
      BY <2>1, <2>2, AppendFacts
    <2>4. /\ p_ran' \in [Polled!Cmd -> 0 .. 2]
          /\ \A c \in Polled!Cmd : p_ran'[c] = IF c <= done + 1 THEN 1 ELSE 0
      BY <1>6, <2>1 DEF Polled!Handled
    <2>5. /\ UNCHANGED <<p_issued, p_backlog, p_boots>> /\ p_busy' = [p_busy EXCEPT !["http"] = 0]
          /\ p_batch' = [p_batch EXCEPT !["http"] = @ \ {done + 1}]
          /\ p_reports' \subseteq p_reports \cup {done + 1}
          /\ p_work' \subseteq p_work \cup {done + 1}
      BY <1>6, <2>1 DEF Polled!Handled, Polled!HandleCommand, Polled!Answer
    <2>6. CommandTypes' BY <2>3, <2>4, <2>5
    <2>7. DoneFirst'
      <3>1. /\ done' <= p_issued' /\ \A i \in 1 .. done' : p_seen'["http"][i] = i
            /\ p_reports' \subseteq 1 .. done' /\ p_work' \subseteq 1 .. done'
        <4>1. p_reports \subseteq 1 .. done /\ p_work \subseteq 1 .. done /\ p_issued \in Nat
          OBVIOUS
        <4> HIDE DEF done, CommandInv, CommandTypes, DoneFirst, NextInLine
        <4>2. p_reports' \subseteq 1 .. done + 1 /\ p_work' \subseteq 1 .. done + 1
          BY <2>1, <2>5, <4>1
        <4> QED BY <2>1, <2>3, <2>5, <4>1, <4>2
      <3>2. ASSUME NEW c \in Polled!Cmd PROVE p_ran'[c] = IF c <= done' THEN 1 ELSE 0
        <4>1. p_ran'[c] = IF c <= done + 1 THEN 1 ELSE 0 BY <2>4
        <4> HIDE DEF done
        <4> QED BY <2>3, <4>1
      <3> QED BY <3>1, <3>2
    <2>8. NextInLine' BY <2>1, <2>3, <2>5
    <2> QED BY <2>6, <2>7, <2>8
  <1>7. CASE Polled!Raises("http") BY <1>7 DEF Polled!Raises
  <1>8. ASSUME NEW c \in Polled!Cmd, Polled!ReportArrives(c) PROVE CommandInv'
    BY <1>8 DEF Polled!ReportArrives
  <1>9. ASSUME NEW c \in Polled!Cmd, Polled!ReportLost(c) PROVE CommandInv'
    BY <1>9 DEF Polled!ReportLost
  <1>10. CASE UNCHANGED Polled!vars BY <1>10 DEF Polled!vars
  <1>11. ASSUME NEW c \in Polled!Cmd, Polled!WorkerEnds(c) PROVE CommandInv'
    BY <1>11 DEF Polled!WorkerEnds, Polled!Answer
  <1> QED BY <1>1, <1>2, <1>3, <1>4, <1>5, <1>6, <1>7, <1>8, <1>9, <1>10, <1>11
          DEF Polled!Next

(* AgentCommand: commands of one pipeline are handled in the order Control *)
(* issued them and none twice, whatever handlers raise, whichever workers  *)
(* still run and whichever reports are lost, up to as many commands as the *)
(* window holds.                                                           *)
THEOREM CommandsInOrder ==
    ASSUME OnePipeline PROVE Polled!Spec => [](Polled!AtMostOnce /\ Polled!InOrder)
  <1>1. CommandInv => Polled!AtMostOnce /\ Polled!InOrder
    BY SMTT(30) DEF OnePipeline, CommandInv, CommandTypes, DoneFirst, done, Polled!AtMostOnce,
           Polled!InOrder, Polled!Cmd
  <1>2. Polled!Init => CommandInv BY InitCommandInv
  <1>3. CommandInv /\ [Polled!Next]_Polled!vars => CommandInv' BY NextCommandInv
  <1> QED BY <1>1, <1>2, <1>3, PTL DEF Polled!Spec

---------------------------------------------------------------------------
(* A logger whose handler is not rebuilt: a worker that is closed while it *)
(* retries is overtaken by its successor.                                  *)
OneHandler == MaxHandlers = 1 /\ MaxRecords \in Nat

LogTypes ==
    /\ s_newest = 1 /\ s_attached = 1 /\ s_stop = {} /\ s_rebuild = "idle" /\ s_next \in Nat \ {0}
    /\ s_queue \in [{1} -> Seq(Nat)] /\ s_sending \in [{1} -> Nat] /\ s_sent \in Seq(Nat)
    /\ s_holds \in [Threads -> [rec : Nat, to : 0 .. 1]] /\ s_late \in [Steady!Record -> Nat]
    /\ \A t \in Threads : s_holds[t] # Steady!Free => s_holds[t].to = 1 /\ s_holds[t].rec # 0

Busy == s_sending[1] # 0

(* Nothing that is still to be sent comes before record x.                 *)
Past(x) ==
    /\ x < s_next /\ (Busy => x <= s_sending[1])
    /\ \A k \in 1 .. Len(s_queue[1]) : x < s_queue[1][k]
    /\ \A t \in Threads : s_holds[t] # Steady!Free => x < s_holds[t].rec

(* Records come by in the order they were made: sent or given up, being    *)
(* sent, queued, being put, to be made.                                    *)
InLine ==
    /\ Busy => s_sending[1] < s_next
    /\ \A k \in 1 .. Len(s_queue[1]) :
         /\ 0 < s_queue[1][k] /\ s_queue[1][k] < s_next
         /\ Busy => s_sending[1] < s_queue[1][k]
         /\ \A l \in 1 .. Len(s_queue[1]) : k < l => s_queue[1][k] < s_queue[1][l]
HeldLast ==
    \A t \in Threads : s_holds[t] # Steady!Free =>
        /\ s_holds[t].rec < s_next /\ (Busy => s_sending[1] < s_holds[t].rec)
        /\ \A k \in 1 .. Len(s_queue[1]) : s_queue[1][k] < s_holds[t].rec
        /\ \A u \in Threads : s_holds[u] # Steady!Free => u = t

(* What arrived, and what may still arrive although it was given up, is    *)
(* past; what arrived in time came after nothing later.                    *)
GoneIsPast ==
    /\ \A i \in 1 .. Len(s_sent) : Past(s_sent[i])
    /\ \A r \in Steady!Record : s_late[r] > 0 => Past(r)
    /\ \A j \in s_timely : j \in 1 .. Len(s_sent) /\ \A i \in 1 .. j : s_sent[i] <= s_sent[j]

LogInv == LogTypes /\ InLine /\ HeldLast /\ GoneIsPast

LEMMA InitLogInv == ASSUME OneHandler, Steady!Init PROVE LogInv
  BY DEF OneHandler, Steady!Init, Steady!Handler, Steady!Free, Steady!None, LogInv, LogTypes,
         InLine, HeldLast, GoneIsPast, Past, Busy

(* Steps that change neither what has arrived nor what may.                *)
LEMMA GoneStaysPast ==
    ASSUME LogInv, UNCHANGED <<s_sent, s_timely, s_late>>, LogTypes',
           \A x \in Nat : Past(x) => Past(x)'
    PROVE  GoneIsPast'
  BY DEF LogInv, LogTypes, GoneIsPast, Steady!Record

LEMMA ReportKeeps == ASSUME OneHandler, LogInv, NEW t \in Threads, Steady!Report(t) PROVE LogInv'
  <1> USE DEF OneHandler, LogInv, LogTypes, InLine, HeldLast, Busy, Steady!Free, Steady!None,
              Steady!handlerVars, Steady!arrivals
  <1>1. \A u \in Threads : s_holds[u] = Steady!Free BY DEF Steady!Report
  <1>2. /\ s_holds' = [s_holds EXCEPT ![t] = [rec |-> s_next, to |-> 1]] /\ s_next' = s_next + 1
        /\ UNCHANGED <<s_newest, s_attached, s_stop, s_rebuild, s_queue, s_sending>>
        /\ UNCHANGED <<s_sent, s_timely, s_late>>
    BY DEF Steady!Report
  <1>3. LogTypes' BY <1>1, <1>2
  <1>4. InLine' BY <1>2
  <1>5. HeldLast' BY <1>1, <1>2
  <1>6. \A x \in Nat : Past(x) => Past(x)' BY <1>1, <1>2 DEF Past
  <1> QED BY <1>2, <1>3, <1>4, <1>5, <1>6, GoneStaysPast

LEMMA PutKeeps == ASSUME OneHandler, LogInv, NEW t \in Threads, Steady!Put(t) PROVE LogInv'
  <1> USE DEF OneHandler, LogInv, LogTypes, InLine, HeldLast, Busy, Steady!Free, Steady!None,
              Steady!handlerVars, Steady!arrivals
  <1> DEFINE r == s_holds[t].rec
  <1>1. /\ s_holds[t] # Steady!Free /\ s_holds[t].to = 1 /\ r \in Nat \ {0}
        /\ s_holds' = [s_holds EXCEPT ![t] = Steady!Free]
        /\ UNCHANGED <<s_newest, s_attached, s_stop, s_rebuild, s_sending, s_next>>
        /\ UNCHANGED <<s_sent, s_timely, s_late>>
    BY DEF Steady!Put
  <1>2. s_queue' = s_queue \/ s_queue' = [s_queue EXCEPT ![1] = Append(s_queue[1], r)]
    BY <1>1 DEF Steady!Put
  <1>3. \A u \in Threads : s_holds'[u] = Steady!Free BY <1>1
  <1>4. LogTypes'
    <2>1. s_queue' \in [{1} -> Seq(Nat)]
      <3>1. Append(s_queue[1], r) \in Seq(Nat) BY <1>1, AppendFacts
      <3> HIDE DEF LogInv, r
      <3> QED BY <1>2, <3>1 DEF LogInv
    <2>2. s_holds' \in [Threads -> [rec : Nat, to : 0 .. 1]] BY <1>1
    <2> QED BY <1>1, <1>3, <2>1, <2>2
  <1>5. InLine' /\ \A x \in Nat : Past(x) => Past(x)'
    <2>1. CASE s_queue' = s_queue BY <1>1, <1>3, <2>1 DEF Past
    <2>2. CASE s_queue' = [s_queue EXCEPT ![1] = Append(s_queue[1], r)]
      <3>1. /\ Len(s_queue'[1]) = Len(s_queue[1]) + 1 /\ Len(s_queue[1]) \in Nat
            /\ \A i \in 1 .. Len(s_queue[1]) : s_queue'[1][i] = s_queue[1][i]
            /\ s_queue'[1][Len(s_queue[1]) + 1] = r
        BY <1>1, <2>2, AppendFacts
      <3>2. ASSUME NEW k \in 1 .. Len(s_queue'[1])
            PROVE  /\ 0 < s_queue'[1][k] /\ s_queue'[1][k] < s_next
                   /\ Busy => s_sending[1] < s_queue'[1][k]
        <4>1. CASE k \in 1 .. Len(s_queue[1]) BY <3>1, <4>1
        <4>2. CASE k = Len(s_queue[1]) + 1 BY <1>1, <3>1, <4>2
        <4> QED BY <3>1, <4>1, <4>2
      <3>3. ASSUME NEW k \in 1 .. Len(s_queue'[1]), NEW l \in 1 .. Len(s_queue'[1]), k < l
            PROVE  s_queue'[1][k] < s_queue'[1][l]
        <4>1. k \in 1 .. Len(s_queue[1]) /\ s_queue'[1][k] = s_queue[1][k]
          BY <3>1, <3>3
        <4>2. CASE l \in 1 .. Len(s_queue[1]) BY <3>1, <3>3, <4>1, <4>2
        <4>3. CASE l = Len(s_queue[1]) + 1 BY <1>1, <3>1, <4>1, <4>3
        <4> QED BY <3>1, <4>2, <4>3
      <3>4. InLine' BY <1>1, <3>2, <3>3
      <3>5. ASSUME NEW x \in Nat, Past(x) PROVE Past(x)'
        <4>1. ASSUME NEW k \in 1 .. Len(s_queue'[1]) PROVE x < s_queue'[1][k]
          <5>1. CASE k \in 1 .. Len(s_queue[1]) BY <3>1, <3>5, <5>1 DEF Past
          <5>2. CASE k = Len(s_queue[1]) + 1 BY <1>1, <3>1, <3>5, <5>2 DEF Past
          <5> QED BY <3>1, <5>1, <5>2
        <4> QED BY <1>1, <1>3, <3>5, <4>1 DEF Past
      <3> QED BY <3>4, <3>5
    <2> QED BY <1>2, <2>1, <2>2
  <1>6. HeldLast' BY <1>3
  <1> QED BY <1>1, <1>4, <1>5, <1>6, GoneStaysPast

LEMMA GetKeeps == ASSUME OneHandler, LogInv, Steady!Get(1) PROVE LogInv'
  <1> USE DEF OneHandler, LogInv, LogTypes, InLine, HeldLast, Busy, Steady!Free, Steady!None,
              Steady!handlerVars, Steady!arrivals
  <1> DEFINE q == s_queue[1]
  <1>1. /\ q # <<>> /\ s_sending' = [s_sending EXCEPT ![1] = Head(q)]
        /\ s_queue' = [s_queue EXCEPT ![1] = Tail(q)] /\ ~Busy
        /\ UNCHANGED <<s_newest, s_attached, s_stop, s_rebuild, s_holds, s_next, s_late, s_sent>>
    BY DEF Steady!Get
  <1>2. /\ Head(q) = q[1] /\ Tail(q) \in Seq(Nat) /\ Len(q) \in Nat \ {0} /\ q[1] \in Nat
        /\ Len(Tail(q)) = Len(q) - 1 /\ \A i \in 1 .. Len(Tail(q)) : Tail(q)[i] = q[i + 1]
    BY <1>1
  <1>4. LogTypes' BY <1>1, <1>2
  <1>5. InLine' BY <1>1, <1>2
  <1>6. HeldLast' BY <1>1, <1>2
  <1>7. \A x \in Nat : Past(x) => Past(x)' BY <1>1, <1>2 DEF Past
  <1>3. UNCHANGED <<s_sent, s_timely, s_late>> BY DEF Steady!Get
  <1> QED BY <1>3, <1>4, <1>5, <1>6, <1>7, GoneStaysPast

(* A record that arrives, in time or late, is one that is past.            *)
LEMMA ArrivesPast ==
    ASSUME LogInv, NEW x \in Nat, Past(x),
           s_sent' = Append(s_sent, x), s_timely' \subseteq s_timely \cup {Len(s_sent) + 1},
           (Len(s_sent) + 1 \in s_timely') => \A i \in 1 .. Len(s_sent) : s_sent[i] <= x,
           \A y \in Nat : Past(y) => Past(y)',
           \A q \in Steady!Record : s_late'[q] > 0 => s_late[q] > 0
    PROVE  GoneIsPast' /\ s_sent' \in Seq(Nat)
  <1>1. /\ Len(s_sent') = Len(s_sent) + 1 /\ Len(s_sent) \in Nat /\ s_sent' \in Seq(Nat)
        /\ \A i \in 1 .. Len(s_sent) : s_sent'[i] = s_sent[i] /\ s_sent[i] \in Nat
        /\ s_sent'[Len(s_sent) + 1] = x
    BY AppendFacts DEF LogInv, LogTypes
  <1>2. ASSUME NEW i \in 1 .. Len(s_sent') PROVE s_sent'[i] \in Nat /\ Past(s_sent'[i])
    <2>1. CASE i \in 1 .. Len(s_sent) BY <1>1, <2>1 DEF LogInv, GoneIsPast
    <2>2. CASE i = Len(s_sent) + 1 BY <1>1, <2>2
    <2> QED BY <1>1, <2>1, <2>2
  <1>3. \A i \in 1 .. Len(s_sent') : Past(s_sent[i])'
    <2> TAKE i \in 1 .. Len(s_sent')
    <2> PICK y \in Nat : y = s_sent'[i] BY <1>2
    <2>1. Past(y)' BY <1>2
    <2> QED BY <2>1 DEF Past
  <1>4. \A r \in Steady!Record : s_late'[r] > 0 => Past(r)'
    BY DEF LogInv, GoneIsPast, Steady!Record
  <1>5. ASSUME NEW j \in s_timely'
        PROVE  j \in 1 .. Len(s_sent') /\ \A i \in 1 .. j : s_sent'[i] <= s_sent'[j]
    <2>1. CASE j \in s_timely BY <1>1, <2>1 DEF LogInv, GoneIsPast
    <2>2. CASE j = Len(s_sent) + 1 BY <1>1, <2>2
    <2> QED BY <2>1, <2>2
  <1> QED BY <1>1, <1>3, <1>4, <1>5 DEF GoneIsPast

LEMMA SendKeeps ==
    ASSUME OneHandler, LogInv, Steady!SendHttp(1) \/ Steady!SendZenoh(1) \/ Steady!RetryHttp(1)
    PROVE  LogInv'
  <1> DEFINE r == s_sending[1]
  <1>1. /\ Busy /\ (s_sending' = s_sending \/ s_sending' = [s_sending EXCEPT ![1] = 0])
        /\ UNCHANGED <<s_newest, s_attached, s_stop, s_rebuild, s_queue, s_holds, s_next>>
        /\ UNCHANGED Steady!arrivals \/ Steady!Arrives(r) \/ Steady!Unanswered(r)
    BY DEF Steady!SendHttp, Steady!SendZenoh, Steady!RetryHttp, Steady!Settle, Steady!None,
           Steady!handlerVars, Busy
  <1>2. /\ r \in Nat /\ Past(r)
        /\ \A i \in 1 .. Len(s_sent) : s_sent[i] <= r
    BY <1>1 DEF LogInv, LogTypes, InLine, HeldLast, GoneIsPast, Past, Busy
  <1>3. /\ s_sending' \in [{1} -> Nat] /\ InLine' /\ HeldLast'
        /\ \A x \in Nat : Past(x) => Past(x)'
    BY <1>1 DEF LogInv, LogTypes, InLine, HeldLast, Busy, Past
  <1>4. CASE UNCHANGED Steady!arrivals
    <2>1. UNCHANGED <<s_sent, s_timely, s_late>> BY <1>4 DEF Steady!arrivals
    <2>2. LogTypes' BY <1>1, <1>3, <2>1 DEF LogInv, LogTypes
    <2> QED BY <1>3, <2>1, <2>2, GoneStaysPast DEF LogInv
  <1>5. CASE Steady!Arrives(r)
    <2> HIDE DEF r
    <2>1. /\ s_sent' = Append(s_sent, r) /\ s_timely' = s_timely \cup {Len(s_sent) + 1}
          /\ s_late' = s_late
      BY <1>5 DEF Steady!Arrives
    <2>2. GoneIsPast' /\ s_sent' \in Seq(Nat) BY <1>2, <1>3, <2>1, ArrivesPast
    <2>3. LogTypes' BY <1>1, <1>3, <2>1, <2>2 DEF LogInv, LogTypes
    <2> QED BY <1>3, <2>2, <2>3 DEF LogInv
  <1>6. CASE /\ s_late' = [s_late EXCEPT ![r] = @ + 1] /\ UNCHANGED <<s_sent, s_timely>>
    <2> HIDE DEF r
    <2>1. s_late' \in [Steady!Record -> Nat]
      <3>1. s_late \in [Steady!Record -> Nat] BY DEF LogInv, LogTypes
      <3>2. CASE r \in Steady!Record BY <1>6, <3>1, <3>2
      <3>3. CASE r \notin Steady!Record BY <1>6, <3>1, <3>3
      <3> QED BY <3>2, <3>3
    <2>2. LogTypes' BY <1>1, <1>3, <1>6, <2>1 DEF LogInv, LogTypes
    <2>3. \A q \in Steady!Record : s_late'[q] > 0 => s_late[q] > 0 \/ q = r
      BY <1>6 DEF LogInv, LogTypes
    <2>4. \A q \in Steady!Record : s_late'[q] > 0 => Past(q)'
      BY <1>2, <1>3, <2>3 DEF LogInv, GoneIsPast, Steady!Record
    <2>5. /\ \A i \in 1 .. Len(s_sent) : s_sent[i] \in Nat /\ Past(s_sent[i])
          /\ s_sent' = s_sent /\ s_timely' = s_timely
      BY <1>6 DEF LogInv, LogTypes, GoneIsPast
    <2>6. \A i \in 1 .. Len(s_sent') : Past(s_sent[i])'
      <3> TAKE i \in 1 .. Len(s_sent')
      <3> PICK y \in Nat : y = s_sent[i] BY <2>5
      <3>1. Past(y)' BY <1>3, <2>5
      <3> QED BY <2>5, <3>1 DEF Past
    <2>7. GoneIsPast' BY <2>4, <2>5, <2>6 DEF LogInv, GoneIsPast
    <2> QED BY <1>3, <2>2, <2>7 DEF LogInv
  <1> QED BY <1>1, <1>4, <1>5, <1>6 DEF Steady!Unanswered

LEMMA LateKeeps ==
    ASSUME LogInv, NEW r \in Steady!Record, Steady!LateArrives(r) PROVE LogInv'
  <1>1. /\ s_late[r] > 0 /\ s_late' = [s_late EXCEPT ![r] = @ - 1]
        /\ s_sent' = Append(s_sent, r) /\ s_timely' = s_timely
        /\ UNCHANGED <<s_newest, s_attached, s_stop, s_rebuild, s_queue, s_sending, s_holds,
                       s_next>>
    BY DEF Steady!LateArrives, Steady!handlerVars
  <1>2. r \in Nat /\ Past(r) BY <1>1 DEF LogInv, GoneIsPast, Steady!Record
  <1>3. /\ s_late' \in [Steady!Record -> Nat]
        /\ \A q \in Steady!Record : s_late'[q] > 0 => s_late[q] > 0
    BY <1>1 DEF LogInv, LogTypes
  <1>4. \A y \in Nat : Past(y) => Past(y)' BY <1>1 DEF Past, Busy
  <1>5. Len(s_sent) \in Nat /\ Len(s_sent) + 1 \notin s_timely'
    BY <1>1 DEF LogInv, LogTypes, GoneIsPast
  <1>6. GoneIsPast' /\ s_sent' \in Seq(Nat) BY <1>1, <1>2, <1>3, <1>4, <1>5, ArrivesPast
  <1>7. InLine' /\ HeldLast' BY <1>1 DEF LogInv, InLine, HeldLast, Busy
  <1>8. LogTypes' BY <1>1, <1>3, <1>6 DEF LogInv, LogTypes
  <1> QED BY <1>6, <1>7, <1>8 DEF LogInv

LEMMA NextLogInv == ASSUME OneHandler, LogInv, [Steady!Next]_Steady!vars PROVE LogInv'
  <1> USE DEF Steady!handlerVars, Steady!arrivals
  <1>1. CASE Steady!Close \/ Steady!Join \/ Steady!Attach
    BY <1>1 DEF Steady!Close, Steady!Join, Steady!Attach, OneHandler, LogInv, LogTypes
  <1>2. ASSUME NEW t \in Threads, Steady!Report(t) \/ Steady!Put(t) PROVE LogInv'
    BY <1>2, ReportKeeps, PutKeeps
  <1>3. ASSUME NEW h \in Steady!Handler,
               \/ Steady!Get(h) \/ Steady!WorkerEnds(h) \/ Steady!SendHttp(h)
               \/ Steady!RetryHttp(h) \/ Steady!SendZenoh(h)
        PROVE  LogInv'
    <2>1. h = 1 BY DEF OneHandler, Steady!Handler
    <2>2. ~Steady!WorkerEnds(1) BY DEF Steady!WorkerEnds, LogInv, LogTypes
    <2> QED BY <1>3, <2>1, <2>2, GetKeeps, SendKeeps
  <1>4. ASSUME NEW r \in Steady!Record, Steady!LateArrives(r) PROVE LogInv' BY <1>4, LateKeeps
  <1>5. CASE UNCHANGED Steady!vars
    BY <1>5 DEF Steady!vars, LogInv, LogTypes, InLine, HeldLast, GoneIsPast, Past, Busy
  <1> QED BY <1>1, <1>2, <1>3, <1>4, <1>5 DEF Steady!Next

(* AsyncHandler: what is reported to a handler reaches Control in the      *)
(* order it was reported, whatever is retried and given up: a record that  *)
(* arrives while its worker waits for the answer finds no later one there, *)
(* although requests that were given up still arrive.                      *)
THEOREM RecordsInOrder == ASSUME OneHandler PROVE Steady!Spec => []Steady!ReportsInOrder
  <1>1. LogInv => Steady!ReportsInOrder BY DEF LogInv, GoneIsPast, Steady!ReportsInOrder
  <1>2. Steady!Init => LogInv BY InitLogInv
  <1>3. LogInv /\ [Steady!Next]_Steady!vars => LogInv' BY NextLogInv
  <1> QED BY <1>1, <1>2, <1>3, PTL DEF Steady!Spec

(* AgentCommand and AsyncHandler together.                                 *)
THEOREM InOrderSafe ==
    ASSUME OnePipeline, OneHandler PROVE Polled!Spec /\ Steady!Spec => []InOrder
  BY CommandsInOrder, RecordsInOrder, PTL DEF InOrder
=============================================================================
