----------------------------- MODULE OtaProofs -----------------------------
(***************************************************************************)
(* Proofs about Ota: for every set of versions, and whichever of them pass *)
(* the self-check or crash, as long as "latest" never moves back, the      *)
(* live version and the rollback target are usable in every state, crashes *)
(* between any two file operations included.  Where it may move back       *)
(* (Yanked), the live version is still there and the running one whole.    *)
(***************************************************************************)
EXTENDS MCOta, TLAPS

\* Numbers: a version the swap installs is newer than the live one, which is
\* at least as new as the one the stamp records.
Ordered ==
    /\ current <= latest
    /\ stamp <= current
    /\ rel <= latest
    /\ pc \in BeforeFlip \cup {"discard"} => rel > current /\ from = current

\* What the disk holds at each step of the swap.
SwapInv ==
    /\ pc \in {"run", "resolve", "discard"} \cup BeforeFlip =>
            ver = current /\ current # NoVersion
    /\ pc \in AfterFlip => /\ current = rel /\ ver = from /\ from # NoVersion
                           /\ rel > from
    /\ pc = "flip" => dir[rel] = "accepted"
    /\ pc \in {"stamp", "apps", "gcScan", "gc", "gcRm"} => previous = from
    /\ pc \in {"apps", "gcScan", "gc", "gcRm"} => stamp = from
    /\ pc \in {"gc", "gcRm"} => current \notin doomed /\ previous \notin doomed

\* Where the supervisor is, and what it left half-done.
SupervisorInv ==
    /\ sup # "wait" => pc = "none"
    /\ sup \in {"unpack", "point"} => current = NoVersion /\ rel # NoVersion
    /\ sup = "point" => dir[rel] = "accepted"

Usable(v) == v # NoVersion => dir[v] = "accepted"

\* The inductive invariant.
IndInv ==
    /\ TypeOK
    /\ Ordered
    /\ SwapInv
    /\ SupervisorInv
    /\ Usable(current) /\ Usable(stamp)
    /\ pc \in Alive => dir[ver] = "accepted"
\* The step lemmas below each take one group of actions.
LEMMA InitInd == Init => IndInv
<1> USE VersionsAssumption, YankAssumption, LossesAssumption
<1> SUFFICES ASSUME Init PROVE IndInv
    OBVIOUS
<1>1. TypeOK
  <2>1. current \in MaybeVersion /\ dir \in [Versions -> DirState]
      BY DEF Init, MaybeVersion, DirState
  <2>2. losses \in 0..MaxLosses
      BY DEF Init
  <2>3. QED
      BY <2>1, <2>2, Zenon DEF Init, TypeOK, MaybeVersion, SupState
<1>2. Ordered /\ SwapInv /\ SupervisorInv
  <2>1. latest \in Nat /\ current \in Nat /\ current <= latest
    <3>1. CASE current = NoVersion
        BY <3>1 DEF Init, NoVersion
    <3>2. CASE current \in {v \in Versions : v <= latest}
        BY <3>2 DEF Init
    <3>3. QED
        BY <3>1, <3>2 DEF Init
  <2>2. QED
      BY <2>1 DEF Init, Ordered, SwapInv, SupervisorInv, NoVersion, BeforeFlip, AfterFlip
<1>3. Usable(current) /\ Usable(stamp) /\ (pc \in Alive => dir[ver] = "accepted")
    BY DEF Init, Usable, NoVersion, Alive, BeforeFlip, AfterFlip
<1>4. QED
    BY <1>1, <1>2, <1>3 DEF IndInv

\* swap_bundle up to and including the self-check: only versions/<rel> changes.
LEMMA PrepareInd ==
    ASSUME IndInv, Resolve \/ Fetch \/ ClearTarget \/ PlacePayload \/ HealthCheck
    PROVE  IndInv'
<1> USE VersionsAssumption, YankAssumption, LossesAssumption
        DEF IndInv, TypeOK, MaybeVersion, NoVersion, DirState, SupState, Alive,
            Exited, BeforeFlip, AfterFlip, Goto, LeavesSupervisor,
            Ordered, SwapInv, SupervisorInv, Usable
<1>1. CASE Resolve
    BY <1>1 DEF Resolve
<1>2. CASE Fetch
    BY <1>2 DEF Fetch
<1>3. CASE ClearTarget
    BY <1>3 DEF ClearTarget
<1>4. CASE PlacePayload
    BY <1>4 DEF PlacePayload
<1>5. CASE HealthCheck
    BY <1>5 DEF HealthCheck
<1>6. QED
    BY <1>1, <1>2, <1>3, <1>4, <1>5

\* The flip, the stamp and everything up to the scan.
LEMMA FlipInd ==
    ASSUME IndInv, FlipCurrent \/ DemoteOld \/ WriteUpdatePending \/ SwapUiApps
    PROVE  IndInv'
<1> USE VersionsAssumption, YankAssumption, LossesAssumption
        DEF IndInv, TypeOK, MaybeVersion, NoVersion, DirState, SupState, Alive,
            Exited, BeforeFlip, AfterFlip, Goto, LeavesSupervisor,
            Ordered, SwapInv, SupervisorInv, Usable
<1>1. CASE FlipCurrent
    BY <1>1 DEF FlipCurrent
<1>2. CASE DemoteOld
    BY <1>2 DEF DemoteOld
<1>3. CASE WriteUpdatePending
    BY <1>3 DEF WriteUpdatePending
<1>4. CASE SwapUiApps
    BY <1>4 DEF SwapUiApps
<1>5. QED
    BY <1>1, <1>2, <1>3, <1>4

\* gc_old_versions keeps the pinned versions, so it dooms neither the live
\* version nor the rollback target.
LEMMA CollectInd ==
    ASSUME IndInv, GcScan \/ GcRemove \/ SwapDone \/ SwapFails
    PROVE  IndInv'
<1> USE VersionsAssumption, YankAssumption, LossesAssumption
        DEF IndInv, TypeOK, MaybeVersion, NoVersion, DirState, SupState, Alive,
            Exited, BeforeFlip, AfterFlip, Goto, LeavesSupervisor,
            Ordered, SwapInv, SupervisorInv, Usable
<1>1. CASE GcScan
  <2>1. PICK keepers \in KeeperSets : doomed' = Candidates \ keepers
      BY <1>1 DEF GcScan
  <2>2. current \in keepers /\ previous \in keepers
      BY <1>1, <2>1 DEF GcScan, KeeperSets, Pinned
  <2>3. doomed' \subseteq Versions /\ current \notin doomed' /\ previous \notin doomed'
      BY <2>1, <2>2 DEF Candidates
  <2>4. QED
      BY <1>1, <2>3 DEF GcScan
<1>2. CASE GcRemove
  <2>1. pc \in {"gc", "gcRm"} /\ pc' \in {"gc", "gcRm"} /\ doomed' \subseteq doomed
      BY <1>2 DEF GcRemove
  <2>2. /\ dir' \in [Versions -> DirState]
        /\ \A v \in Versions \ doomed : dir'[v] = dir[v]
      BY <1>2 DEF GcRemove
  <2>3. ver \in Versions \ doomed /\ current \in Versions \ doomed /\ stamp = ver
      BY <2>1
  <2>4. QED
      BY <1>2, <2>1, <2>2, <2>3 DEF GcRemove
<1>3. CASE SwapDone
    BY <1>3 DEF SwapDone
<1>4. CASE SwapFails
    BY <1>4 DEF SwapFails
<1>5. QED
    BY <1>1, <1>2, <1>3, <1>4

\* The supervisor: bootstrap, spawn, exit codes and rollback.
LEMMA SuperviseInd ==
    ASSUME IndInv, Supervise
    PROVE  IndInv'
<1> USE VersionsAssumption, YankAssumption, LossesAssumption
        DEF IndInv, TypeOK, MaybeVersion, NoVersion, DirState, SupState, Alive,
            Exited, BeforeFlip, AfterFlip, Reaped, disk, child,
            Ordered, SwapInv, SupervisorInv, Usable
<1>1. CASE Spawn
    BY <1>1 DEF Spawn, MayLaunch
<1>2. CASE BootstrapUnpack
    BY <1>2 DEF BootstrapUnpack, MayLaunch
<1>3. CASE BootstrapFinish
    BY <1>3 DEF BootstrapFinish
<1>4. CASE HandleCleanExit
    BY <1>4 DEF HandleCleanExit
<1>5. CASE HandleCrash
  <2>1. fresh' \in BOOLEAN /\ stamp' \in {stamp, NoVersion}
      BY <1>5 DEF HandleCrash
  <2>2. /\ pc' = "none" /\ sup' = "loop" /\ rel' = NoVersion
        /\ UNCHANGED <<dir, current, latest>>
      BY <1>5 DEF HandleCrash
  <2>3. TypeOK'
      BY <1>5, <2>1 DEF HandleCrash
  <2>4. QED
      BY <2>1, <2>2, <2>3
<1>6. CASE Rollback
  <2>1. CASE /\ ExitedNonZero /\ RollbackApplies
             /\ current' = stamp /\ onTrial' = NoVersion
             /\ sup' = "unlinkPrevious" /\ Reaped
             /\ UNCHANGED <<previous, stamp, fresh>>
      BY <1>6, <2>1 DEF Rollback, RollbackApplies
  <2>2. CASE /\ sup = "unlinkPrevious" /\ sup' = "unlinkStamp"
             /\ previous' = NoVersion
             /\ UNCHANGED <<current, onTrial, stamp, fresh, child>>
      BY <1>6, <2>2 DEF Rollback
  <2>3. CASE /\ sup = "unlinkStamp" /\ sup' = "loop"
             /\ stamp' = NoVersion /\ fresh' = FALSE
             /\ UNCHANGED <<current, onTrial, previous, child>>
    <3>1. pc = "none" /\ UNCHANGED <<dir, current, latest, rel, pc>>
        BY <1>6, <2>3 DEF Rollback
    <3>2. TypeOK'
        BY <1>6, <2>3 DEF Rollback
    <3>3. QED
        BY <2>3, <3>1, <3>2
  <2>4. QED
      BY <1>6, <2>1, <2>2, <2>3 DEF Rollback
<1>7. QED
    BY <1>1, <1>2, <1>3, <1>4, <1>5, <1>6 DEF Supervise

\* Releases, the clock, the agent's own exits, users and power losses.
LEMMA EnvironmentInd ==
    ASSUME IndInv, ~AllowYank, Environment
    PROVE  IndInv'
<1> USE VersionsAssumption, YankAssumption, LossesAssumption
        DEF IndInv, TypeOK, MaybeVersion, NoVersion, DirState, SupState, Alive,
            Exited, BeforeFlip, AfterFlip, Reaped, disk, child, Goto, LeavesSupervisor,
            Ordered, SwapInv, SupervisorInv, Usable
<1>1. CASE \E v \in Versions : Publish(v)
    BY <1>1 DEF Publish
<1>2. CASE WindowCloses
  <2>1. fresh' \in BOOLEAN
      BY <1>2 DEF WindowCloses
  <2>2. TypeOK'
      BY <1>2, <2>1 DEF WindowCloses
  <2>3. QED
      BY <1>2, <2>2 DEF WindowCloses
<1>3. CASE RequestUpdate
    BY <1>3 DEF RequestUpdate
<1>4. CASE AgentExits
    BY <1>4 DEF AgentExits
<1>5. CASE Interrupt
  <2>1. want' \in BOOLEAN
      BY <1>5, Zenon DEF Interrupt
  <2>2. /\ sup' = "loop" /\ Reaped
        /\ UNCHANGED <<disk, latest, losses, identity>>
      BY <1>5, Zenon DEF Interrupt
  <2> HIDE <1>5
  <2>3. QED
      BY <2>1, <2>2
<1>6. CASE UserToggles
    BY <1>6 DEF UserToggles
<1>7. CASE GoesDown
    BY <1>7 DEF GoesDown
<1>8. CASE SessionChanges
    BY <1>8 DEF SessionChanges
<1>9. QED
    BY <1>1, <1>2, <1>3, <1>4, <1>5, <1>6, <1>7, <1>8 DEF Environment

LEMMA StepInd == IndInv /\ ~AllowYank /\ [Next]_vars => IndInv'
<1> SUFFICES ASSUME IndInv, ~AllowYank, [Next]_vars PROVE IndInv'
    OBVIOUS
<1>1. CASE Swap
    BY <1>1, PrepareInd, FlipInd, CollectInd DEF Swap
<1>2. CASE Supervise
    BY <1>2, SuperviseInd
<1>3. CASE Environment
    BY <1>3, EnvironmentInd
<1>4. CASE UNCHANGED vars
    BY <1>4 DEF vars, IndInv, TypeOK, Ordered, SwapInv, SupervisorInv, Usable
<1>5. QED
    BY <1>1, <1>2, <1>3, <1>4 DEF Next

\* The inductive invariant holds in every reachable state.
THEOREM Invariance == ASSUME ~AllowYank PROVE Spec => []IndInv
<1>1. Init => IndInv
    BY InitInd
<1>2. IndInv /\ [Next]_vars => IndInv'
    BY StepInd
<1>3. QED
    BY <1>1, <1>2, PTL DEF Spec

\* `current` always names a complete version that passed its self-check, at
\* every point where swap_bundle, the bootstrap or try_rollback may be cut off.
THEOREM LiveVersionSafe == ASSUME ~AllowYank PROVE Spec => []LiveVersionUsable
<1>1. IndInv => LiveVersionUsable
    BY DEF IndInv, Usable, LiveVersionUsable
<1>2. QED
    BY <1>1, Invariance, PTL

\* The version a fresh `.update-pending` stamp would roll back to is always
\* there, complete.
THEOREM RollbackTargetSafe == ASSUME ~AllowYank PROVE Spec => []RollbackTargetUsable
<1>1. IndInv => RollbackTargetUsable
    BY DEF IndInv, Usable, RollbackTargetUsable
<1>2. QED
    BY <1>1, Invariance, PTL

\* No step of an update removes files of the version that is running.
THEOREM RunningVersionSafe == ASSUME ~AllowYank PROVE Spec => []RunningVersionKept
<1>1. IndInv => RunningVersionKept
    BY DEF IndInv, RunningVersionKept
<1>2. QED
    BY <1>1, Invariance, PTL

-----------------------------------------------------------------------------
(* Refinement of VersionSlots.                                             *)

UsableSet == {v \in Versions : dir[v] = "accepted"}

\* Marking one directory changes the set of usable versions by at most it.
LEMMA MarkOne ==
    ASSUME IndInv, NEW v \in Versions, NEW d \in DirState,
           dir' = [dir EXCEPT ![v] = d]
    PROVE  UsableSet' = IF d = "accepted" THEN UsableSet \cup {v} ELSE UsableSet \ {v}
    BY DEF UsableSet, IndInv, TypeOK

\* A step that marks one directory other than the live one, or accepts one,
\* is a step of VersionSlots.
LEMMA MarkIsSlotStep ==
    ASSUME IndInv, NEW v \in Versions, NEW d \in DirState,
           dir' = [dir EXCEPT ![v] = d], UNCHANGED current,
           d = "accepted" \/ v # current
    PROVE  Slots!Next
<1>1. CASE d = "accepted"
    BY <1>1, MarkOne DEF Slots!Next, Slots!Offer, UsableSet
<1>2. CASE d # "accepted"
    BY <1>2, MarkOne DEF Slots!Next, Slots!Withdraw, UsableSet
<1>3. QED
    BY <1>1, <1>2

LEMMA SlotStep ==
    ASSUME IndInv, IndInv', [Next]_vars
    PROVE  [Slots!Next]_<<current, UsableSet>>
<1> USE VersionsAssumption DEF MaybeVersion, NoVersion, DirState
<1>1. CASE UNCHANGED <<dir, current>>
    BY <1>1 DEF UsableSet
<1>2. CASE current' # current /\ UNCHANGED dir
  <2>1. current' # NoVersion
    <3>1. FlipCurrent \/ BootstrapFinish \/ Rollback
      <4>1. ~Environment /\ ~UNCHANGED vars
          BY <1>2 DEF Environment, vars, disk, Publish, WindowCloses, RequestUpdate,
                AgentExits, Interrupt, UserToggles, SessionChanges, GoesDown
      <4>2. Swap => FlipCurrent
          BY <1>2 DEF Swap, Resolve, Fetch, ClearTarget, PlacePayload, HealthCheck, DemoteOld,
                WriteUpdatePending, SwapUiApps, GcScan, GcRemove, SwapDone, SwapFails
      <4>3. Supervise => BootstrapFinish \/ Rollback
          BY <1>2 DEF Supervise, Spawn, BootstrapUnpack, HandleCleanExit, HandleCrash, disk
      <4>4. QED
          BY <4>1, <4>2, <4>3 DEF Next
    <3>2. CASE FlipCurrent
        BY <3>2 DEF FlipCurrent, Goto, IndInv, TypeOK, Ordered, BeforeFlip
    <3>3. CASE BootstrapFinish
        BY <1>2, <3>3 DEF BootstrapFinish, IndInv, SupervisorInv
    <3>4. CASE Rollback
        BY <1>2, <3>4 DEF Rollback, RollbackApplies
    <3>5. QED
        BY <3>1, <3>2, <3>3, <3>4
  <2>2. current' \in UsableSet
      BY <1>2, <2>1 DEF UsableSet, IndInv, Usable, TypeOK
  <2>3. QED
      BY <1>2, <2>1, <2>2 DEF Slots!Next, Slots!Switch, UsableSet, IndInv, TypeOK
<1>3. CASE ClearTarget \/ PlacePayload \/ HealthCheck
  <2>1. rel \in Versions /\ rel # current /\ UNCHANGED current
      BY <1>3 DEF ClearTarget, PlacePayload, HealthCheck, Goto, IndInv, TypeOK, Ordered, BeforeFlip
  <2>2. dir[rel] \in DirState /\ dir = [dir EXCEPT ![rel] = dir[rel]]
      BY <2>1 DEF IndInv, TypeOK
  <2>3. \E d \in DirState : dir' = [dir EXCEPT ![rel] = d]
      BY <1>3, <2>2 DEF ClearTarget, PlacePayload, HealthCheck, DirState
  <2>4. QED
      BY <2>1, <2>3, MarkIsSlotStep
<1>4. CASE GcRemove
  <2>1. UNCHANGED current /\ current \notin doomed /\ doomed \subseteq Versions
      BY <1>4 DEF GcRemove, Goto, IndInv, TypeOK, SwapInv
  <2>2. \/ UNCHANGED dir
        \/ \E v \in doomed, d \in DirState : d # "accepted" /\ dir' = [dir EXCEPT ![v] = d]
      BY <1>4 DEF GcRemove
  <2>3. QED
      BY <1>1, <2>1, <2>2, MarkIsSlotStep
<1>5. CASE BootstrapUnpack \/ BootstrapFinish
  <2>1. CASE BootstrapUnpack
      BY <2>1, MarkIsSlotStep DEF BootstrapUnpack, IndInv, TypeOK
  <2>2. CASE BootstrapFinish
      BY <1>1, <1>2, <2>2, MarkIsSlotStep DEF BootstrapFinish, IndInv, TypeOK, SupervisorInv
  <2>3. QED
      BY <1>5, <2>1, <2>2
<1>6. QED
  <2>1. CASE Swap
      BY <1>1, <1>2, <1>3, <1>4, <2>1 DEF Swap, Resolve, Fetch, FlipCurrent, DemoteOld,
            WriteUpdatePending, SwapUiApps, GcScan, SwapDone, SwapFails
  <2>2. CASE Supervise
      BY <1>1, <1>2, <1>5, <2>2 DEF Supervise, Spawn, HandleCleanExit, HandleCrash, Rollback, disk
  <2>3. CASE Environment
      BY <1>1, <2>3 DEF Environment, Publish, WindowCloses, RequestUpdate, AgentExits,
            Interrupt, UserToggles, SessionChanges, GoesDown, disk
  <2>4. QED
      BY <1>1, <2>1, <2>2, <2>3 DEF Next, vars

\* Every behaviour of the update machinery is, seen through `current` and the
\* accepted directories, a behaviour of the abstract version slots.
THEOREM OtaImplementsSlots == ASSUME ~AllowYank PROVE Spec => ImplementsSlots
<1>1. Init => Slots!Init
  <2> SUFFICES ASSUME Init PROVE Slots!Init
      OBVIOUS
  <2>1. CASE current = NoVersion
      BY <2>1, VersionsAssumption DEF Init, Slots!Init, NoVersion
  <2>2. CASE current \in Versions
      BY <2>2, VersionsAssumption DEF Init, Slots!Init, NoVersion
  <2>3. QED
      BY <2>1, <2>2 DEF Init
<1>2. IndInv /\ IndInv' /\ [Next]_vars => [Slots!Next]_<<current, UsableSet>>
    BY SlotStep
<1>3. QED
    BY <1>1, <1>2, Invariance, PTL DEF Spec, ImplementsSlots, Slots!Spec, UsableSet

-----------------------------------------------------------------------------
(* With a "latest" that may move back, versions are not ordered, and what  *)
(* a rollback finds may be half-replaced.  What is left is that a swap     *)
(* never works on the version that is live or running.                     *)
NotLive ==
    /\ y_pc \in {"run", "resolve", "discard"} \cup Yanked!BeforeFlip =>
         y_ver = y_current /\ y_current # Yanked!NoVersion
    /\ y_pc \in Yanked!BeforeFlip \cup {"discard"} =>
         y_rel # Yanked!NoVersion /\ y_rel # y_current /\ y_from = y_current
    /\ y_pc \in Yanked!AfterFlip => /\ y_current = y_rel /\ y_rel # Yanked!NoVersion
                                  /\ y_ver = y_from /\ y_from # Yanked!NoVersion /\ y_rel # y_from
    /\ y_pc \in {"stamp", "apps", "gcScan", "gc", "gcRm"} => y_previous = y_from
    /\ y_pc \in {"gc", "gcRm"} => y_current \notin y_doomed /\ y_previous \notin y_doomed

\* Where the supervisor is, and what it left half-done.
YankSupervisor ==
    /\ y_sup # "wait" => y_pc = "none"
    /\ y_sup \in {"unpack", "point"} => y_current = Yanked!NoVersion /\ y_rel # Yanked!NoVersion
    /\ y_sup = "point" => y_dir[y_rel] = "accepted"

YankInv == Yanked!TypeOK /\ NotLive /\ YankSupervisor /\ YankedVersionsThere

LEMMA YankInit == Yanked!Init => YankInv
<1>1. Yanked!Init => Yanked!TypeOK
  <2> SUFFICES ASSUME Yanked!Init PROVE Yanked!TypeOK
      OBVIOUS
  <2>1. y_current \in Yanked!MaybeVersion /\ y_dir \in [YankVersions -> Yanked!DirState]
      BY DEF Yanked!Init, Yanked!MaybeVersion, Yanked!DirState
  <2>2. y_losses \in 0..YankLosses
      BY YankedAssumption DEF Yanked!Init
  <2>3. y_latest \in YankVersions
      BY DEF Yanked!Init
  <2>4. QED
      BY <2>1, <2>2, <2>3, Zenon DEF Yanked!Init, Yanked!TypeOK, Yanked!MaybeVersion,
         Yanked!SupState
<1>2. Yanked!Init => NotLive /\ YankSupervisor /\ Yanked!RunningVersionWhole
    BY DEF Yanked!Init, NotLive, YankSupervisor, Yanked!RunningVersionWhole, Yanked!Alive,
           Yanked!BeforeFlip, Yanked!AfterFlip
<1>3. Yanked!Init => Yanked!LiveVersionPresent
    BY DEF Yanked!Init, Yanked!LiveVersionPresent, Yanked!NoVersion
<1>4. QED
    BY <1>1, <1>2, <1>3 DEF YankInv, YankedVersionsThere

LEMMA YankSwap == ASSUME YankInv, Yanked!Swap PROVE YankInv'
<1> USE YankedAssumption
        DEF YankInv, YankedVersionsThere, Yanked!TypeOK, Yanked!MaybeVersion, Yanked!NoVersion,
            Yanked!DirState, Yanked!SupState, Yanked!Alive,
            Yanked!Exited, Yanked!BeforeFlip, Yanked!AfterFlip, Yanked!Goto, Yanked!LeavesSupervisor,
            NotLive, YankSupervisor, Yanked!LiveVersionPresent, Yanked!RunningVersionWhole
<1>1. CASE Yanked!Resolve
    BY <1>1 DEF Yanked!Resolve
<1>2. CASE Yanked!Fetch
    BY <1>2 DEF Yanked!Fetch
<1>3. CASE Yanked!ClearTarget
    BY <1>3 DEF Yanked!ClearTarget
<1>4. CASE Yanked!PlacePayload
    BY <1>4 DEF Yanked!PlacePayload
<1>5. CASE Yanked!HealthCheck
    BY <1>5 DEF Yanked!HealthCheck
<1>6. CASE Yanked!FlipCurrent
    BY <1>6 DEF Yanked!FlipCurrent
<1>7. CASE Yanked!DemoteOld \/ Yanked!WriteUpdatePending \/ Yanked!SwapUiApps
    BY <1>7 DEF Yanked!DemoteOld, Yanked!WriteUpdatePending, Yanked!SwapUiApps
<1>8. CASE Yanked!GcScan
  <2>1. PICK keepers \in Yanked!KeeperSets : y_doomed' = Yanked!Candidates \ keepers
      BY <1>8 DEF Yanked!GcScan
  <2>2. y_current \in keepers /\ y_previous \in keepers
      BY <1>8, <2>1 DEF Yanked!GcScan, Yanked!KeeperSets, Yanked!Pinned
  <2>3. y_doomed' \subseteq YankVersions /\ y_current \notin y_doomed'
        /\ y_previous \notin y_doomed'
      BY <2>1, <2>2 DEF Yanked!Candidates
  <2>4. QED
      BY <1>8, <2>3 DEF Yanked!GcScan
<1>9. CASE Yanked!GcRemove
  <2>1. y_pc \in {"gc", "gcRm"} /\ y_pc' \in {"gc", "gcRm"} /\ y_doomed' \subseteq y_doomed
      BY <1>9 DEF Yanked!GcRemove
  <2>2. /\ y_dir' \in [YankVersions -> Yanked!DirState]
        /\ \A v \in YankVersions \ y_doomed : y_dir'[v] = y_dir[v]
      BY <1>9 DEF Yanked!GcRemove
  <2>3. y_ver \in YankVersions \ y_doomed /\ y_current \in YankVersions \ y_doomed
      BY <2>1
  <2>4. QED
      BY <1>9, <2>1, <2>2, <2>3 DEF Yanked!GcRemove
<1>10. CASE Yanked!SwapDone \/ Yanked!SwapFails
    BY <1>10 DEF Yanked!SwapDone, Yanked!SwapFails
<1>11. QED
    BY <1>1, <1>2, <1>3, <1>4, <1>5, <1>6, <1>7, <1>8, <1>9, <1>10 DEF Yanked!Swap

LEMMA YankSupervise == ASSUME YankInv, Yanked!Supervise PROVE YankInv'
<1> USE YankedAssumption
        DEF YankInv, YankedVersionsThere, Yanked!TypeOK, Yanked!MaybeVersion, Yanked!NoVersion,
            Yanked!DirState, Yanked!SupState, Yanked!Alive,
            Yanked!Exited, Yanked!BeforeFlip, Yanked!AfterFlip, Yanked!Reaped, Yanked!disk, Yanked!child,
            NotLive, YankSupervisor, Yanked!LiveVersionPresent, Yanked!RunningVersionWhole
<1>1. CASE Yanked!Spawn
    BY <1>1 DEF Yanked!Spawn, Yanked!MayLaunch
<1>2. CASE Yanked!BootstrapUnpack
    BY <1>2 DEF Yanked!BootstrapUnpack, Yanked!MayLaunch
<1>3. CASE Yanked!BootstrapFinish
    BY <1>3 DEF Yanked!BootstrapFinish
<1>4. CASE Yanked!HandleCleanExit
    BY <1>4 DEF Yanked!HandleCleanExit
<1>5. CASE Yanked!HandleCrash
  <2>1. y_fresh' \in BOOLEAN /\ y_stamp' \in {y_stamp, Yanked!NoVersion}
      BY <1>5 DEF Yanked!HandleCrash
  <2>2. y_pc' = "none" /\ y_sup' = "loop" /\ UNCHANGED <<y_dir, y_current>>
      BY <1>5 DEF Yanked!HandleCrash
  <2>3. Yanked!TypeOK'
      BY <1>5, <2>1 DEF Yanked!HandleCrash
  <2>4. QED
      BY <2>2, <2>3
<1>6. CASE Yanked!Rollback
  <2>1. Yanked!TypeOK' /\ y_pc' = "none"
    <3>1. y_fresh' \in BOOLEAN /\ y_stamp' \in Yanked!MaybeVersion
          /\ y_current' \in Yanked!MaybeVersion
        BY <1>6 DEF Yanked!Rollback, Yanked!ExitedNonZero
    <3>2. y_pc' = "none" /\ y_sup' \in Yanked!SupState
        BY <1>6 DEF Yanked!Rollback
    <3>3. QED
        BY <1>6, <3>1, <3>2 DEF Yanked!Rollback
  <2>2. Yanked!LiveVersionPresent' /\ y_sup' \notin {"unpack", "point"}
      BY <1>6 DEF Yanked!Rollback, Yanked!RollbackApplies
  <2>3. QED
      BY <2>1, <2>2
<1>7. QED
    BY <1>1, <1>2, <1>3, <1>4, <1>5, <1>6 DEF Yanked!Supervise

LEMMA YankEnvironment == ASSUME YankInv, Yanked!Environment PROVE YankInv'
<1> USE YankedAssumption
        DEF YankInv, YankedVersionsThere, Yanked!TypeOK, Yanked!MaybeVersion, Yanked!NoVersion,
            Yanked!DirState, Yanked!SupState, Yanked!Alive,
            Yanked!Exited, Yanked!BeforeFlip, Yanked!AfterFlip, Yanked!Reaped, Yanked!disk, Yanked!child,
            Yanked!Goto, Yanked!LeavesSupervisor,
            NotLive, YankSupervisor, Yanked!LiveVersionPresent, Yanked!RunningVersionWhole
<1>1. CASE \E v \in YankVersions : Yanked!Publish(v)
    BY <1>1 DEF Yanked!Publish
<1>2. CASE Yanked!WindowCloses
  <2>1. y_fresh' \in BOOLEAN
      BY <1>2 DEF Yanked!WindowCloses
  <2>2. QED
      BY <1>2, <2>1 DEF Yanked!WindowCloses
<1>3. CASE Yanked!RequestUpdate
    BY <1>3 DEF Yanked!RequestUpdate
<1>4. CASE Yanked!AgentExits
    BY <1>4 DEF Yanked!AgentExits
<1>5. CASE Yanked!Interrupt
  <2>1. y_want' \in BOOLEAN
      BY <1>5, Zenon DEF Yanked!Interrupt
  <2>2. /\ y_sup' = "loop" /\ Yanked!Reaped
        /\ UNCHANGED <<Yanked!disk, y_latest, y_losses>>
      BY <1>5, Zenon DEF Yanked!Interrupt
  <2> HIDE <1>5
  <2>3. QED
      BY <2>1, <2>2
<1>6. CASE Yanked!UserToggles
    BY <1>6 DEF Yanked!UserToggles
<1>7. CASE Yanked!GoesDown
    BY <1>7 DEF Yanked!GoesDown
<1>8. ~Yanked!SessionChanges
    BY DEF Yanked!SessionChanges
<1>9. QED
    BY <1>1, <1>2, <1>3, <1>4, <1>5, <1>6, <1>7, <1>8 DEF Yanked!Environment

\* The types, also where "latest" moves back.
THEOREM YankTypeCorrect == Yanked!Spec => []Yanked!TypeOK
<1>1. YankInv /\ [Yanked!Next]_Yanked!vars => YankInv'
    BY YankSwap, YankSupervise, YankEnvironment DEF Yanked!Next, Yanked!vars, YankInv,
       YankedVersionsThere, Yanked!TypeOK, NotLive, YankSupervisor, Yanked!LiveVersionPresent,
       Yanked!RunningVersionWhole
<1>2. YankInv => Yanked!TypeOK
    BY DEF YankInv
<1>3. QED
    BY <1>1, <1>2, YankInit, PTL DEF Yanked!Spec

\* Whatever the release server calls latest, and wherever the update, the
\* rollback or the bootstrap is cut off: `current` never names a directory that
\* is gone, and swap_bundle, gc_old_versions and try_rollback never take files
\* of the version that is running.
THEOREM YankedVersionsSafe == Yanked!Spec => []YankedVersionsThere
<1>1. YankInv /\ [Yanked!Next]_Yanked!vars => YankInv'
    BY YankSwap, YankSupervise, YankEnvironment DEF Yanked!Next, Yanked!vars, YankInv,
       YankedVersionsThere, Yanked!TypeOK, NotLive, YankSupervisor, Yanked!LiveVersionPresent,
       Yanked!RunningVersionWhole
<1>2. YankInv => YankedVersionsThere
    BY DEF YankInv
<1>3. QED
    BY <1>1, <1>2, YankInit, PTL DEF Yanked!Spec

=============================================================================
