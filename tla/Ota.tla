-------------------------------- MODULE Ota --------------------------------
(***************************************************************************)
(* Over-the-air update of the runtime bundle: swap_bundle of               *)
(* src/link/app/updater.py running in the runtime process, and the         *)
(* supervisor of crates/link/src-tauri/src/supervisor that launches the    *)
(* runtime, reads its exit code and rolls a bad update back.  The two meet *)
(* only on disk: the versions/<v> directories, the `current` and           *)
(* `previous` pointers and the `.update-pending` stamp.                    *)
(*                                                                         *)
(* Every action is one file-system step that is atomic on its own (a       *)
(* rename, an unlink, a pointer swap); removing or unpacking a tree is two *)
(* steps with a "partial" directory between them.  The child may be killed *)
(* between any two steps (Stop, Restart, a changed identity, power loss).  *)
(***************************************************************************)
EXTENDS Integers, FiniteSets

CONSTANTS
    Versions,      \* version numbers a release may carry (larger = newer)
    SelfCheckOk,   \* the versions whose `self-check` exits 0
    Stable,        \* the versions whose `run` does not crash by itself
    AllowYank,     \* may "latest" move back to an older release?
    MaxLosses      \* bound on how often the machine (or the unit) goes down

ASSUME VersionsAssumption == Versions \subseteq Nat \ {0}
ASSUME YankAssumption == AllowYank \in BOOLEAN
ASSUME LossesAssumption == MaxLosses \in Nat

NoVersion == 0
MaybeVersion == Versions \cup {NoVersion}

VARIABLES
    dir,        \* what is on disk under versions/<v>
    current,    \* the `current` pointer
    previous,   \* the `previous` pointer
    stamp,      \* the version recorded in `.update-pending`
    fresh,      \* is the stamp's age within POST_UPDATE_HEALTH_WINDOW_SECS?
    latest,     \* the release the server calls latest
    sup,        \* where the supervisor loop is
    want,       \* ControlState.want_running
    pc,         \* where the runtime child is
    ver,        \* the version the child was launched from
    rel,        \* the release being installed (by swap_bundle or bootstrap)
    from,       \* manifest.version as swap_bundle read it
    doomed,     \* what gc_old_versions has left to remove
    onTrial,    \* history: the version the last flip replaced, while inside
                \* the health window
    losses,     \* how often the machine went down
    identity    \* does read_identity find a registered session?

disk == <<dir, current, previous, stamp, fresh, onTrial>>
child == <<pc, ver, rel, from, doomed>>
vars == <<dir, current, previous, stamp, fresh, latest, sup, want,
          pc, ver, rel, from, doomed, onTrial, losses, identity>>

\* "staged": complete, self-check not passed; "accepted": self-check passed,
\* or delivered whole by the installer or the bootstrap.
DirState == {"absent", "partial", "staged", "accepted"}
SupState == {"loop", "unpack", "point", "wait", "unlinkPrevious", "unlinkStamp"}

BeforeFlip == {"fetch", "clear", "cleared", "place", "check", "flip"}
AfterFlip == {"demote", "stamp", "apps", "gcScan", "gc", "gcRm"}
Alive == {"run", "resolve", "discard"} \cup BeforeFlip \cup AfterFlip
\* "crash" and "failed" are both exit code 1: a crash of the agent, and
\* sys.exit(1) of _apply_update_and_reexec after a failed update.
Exited == {"exit42", "exit0", "crash", "failed"}

TypeOK ==
    /\ dir \in [Versions -> DirState]
    /\ current \in MaybeVersion /\ previous \in MaybeVersion
    /\ stamp \in MaybeVersion /\ fresh \in BOOLEAN
    /\ latest \in Versions
    /\ sup \in SupState /\ want \in BOOLEAN
    /\ pc \in {"none"} \cup Alive \cup Exited
    /\ ver \in MaybeVersion /\ rel \in MaybeVersion /\ from \in MaybeVersion
    /\ doomed \subseteq Versions
    /\ onTrial \in MaybeVersion
    /\ losses \in 0..MaxLosses
    /\ identity \in {"none", "read"}

-----------------------------------------------------------------------------
\* Pattern A (the installer seeds one version) or Pattern B (boot.json only).
Init ==
    /\ latest \in Versions
    /\ \/ /\ current \in {v \in Versions : v <= latest}
          /\ dir = [v \in Versions |-> IF v = current THEN "accepted" ELSE "absent"]
       \/ /\ current = NoVersion
          /\ dir = [v \in Versions |-> "absent"]
    /\ previous = NoVersion /\ stamp = NoVersion /\ fresh = FALSE
    /\ sup = "loop" /\ want = TRUE
    /\ pc = "none" /\ ver = NoVersion /\ rel = NoVersion /\ from = NoVersion
    /\ doomed = {} /\ onTrial = NoVersion /\ losses = 0
    /\ identity \in {"none", "read"}

\* A new release becomes latest; with AllowYank an older one may again.
Publish(v) ==
    /\ v # latest
    /\ AllowYank \/ v > latest
    /\ latest' = v
    /\ UNCHANGED <<dir, current, previous, stamp, fresh, sup, want,
                   pc, ver, rel, from, doomed, onTrial, losses, identity>>

\* The stamp outlives POST_UPDATE_HEALTH_WINDOW_SECS.
WindowCloses ==
    /\ fresh
    /\ fresh' = FALSE /\ onTrial' = NoVersion
    /\ UNCHANGED <<dir, current, previous, stamp, latest, sup, want,
                   pc, ver, rel, from, doomed, losses, identity>>

-----------------------------------------------------------------------------
(* The runtime child.                                                      *)

Goto(here, there) == sup = "wait" /\ pc = here /\ pc' = there
LeavesSupervisor == UNCHANGED <<latest, sup, want, losses, identity>>

\* UPDATE_AGENT accepted: the agent shuts down and main.run starts the OTA.
RequestUpdate ==
    /\ Goto("run", "resolve")
    /\ UNCHANGED <<dir, current, previous, stamp, fresh, onTrial, ver, rel, from, doomed>>
    /\ LeavesSupervisor

\* A deliberate shutdown exits 0; a version that is not Stable may exit 1.
AgentExits ==
    /\ \/ Goto("run", "exit0")
       \/ Goto("run", "crash") /\ ver \notin Stable
    /\ UNCHANGED <<dir, current, previous, stamp, fresh, onTrial, ver, rel, from, doomed>>
    /\ LeavesSupervisor

\* read_manifest(current), latest_release_for; no asset yet or already at
\* latest: exit 42 with nothing done.
Resolve ==
    /\ \/ Goto("resolve", "exit42") /\ UNCHANGED <<rel, from>>
       \/ /\ Goto("resolve", "fetch")
          /\ dir[current] # "absent"
          /\ latest # current
          /\ rel' = latest /\ from' = current
    /\ UNCHANGED <<dir, current, previous, stamp, fresh, onTrial, ver, doomed>>
    /\ LeavesSupervisor

\* Download, verify and unpack into .staging: nothing under versions/ changes.
Fetch ==
    /\ Goto("fetch", IF dir[rel] = "absent" THEN "place" ELSE "clear")
    /\ UNCHANGED <<dir, current, previous, stamp, fresh, onTrial, ver, rel, from, doomed>>
    /\ LeavesSupervisor

\* shutil.rmtree(target): first some of the tree is gone, then all of it.
ClearTarget ==
    /\ \/ Goto("clear", "cleared") /\ dir' = [dir EXCEPT ![rel] = "partial"]
       \/ Goto("cleared", "place") /\ dir' = [dir EXCEPT ![rel] = "absent"]
    /\ UNCHANGED <<current, previous, stamp, fresh, onTrial, ver, rel, from, doomed>>
    /\ LeavesSupervisor

\* os.replace(payload, target).
PlacePayload ==
    /\ Goto("place", "check")
    /\ dir' = [dir EXCEPT ![rel] = "staged"]
    /\ UNCHANGED <<current, previous, stamp, fresh, onTrial, ver, rel, from, doomed>>
    /\ LeavesSupervisor

\* Mutant: the result of health_check is not looked at.
HealthCheckIgnored ==
    /\ Goto("check", "flip")
    /\ UNCHANGED <<dir, current, previous, stamp, fresh, onTrial, ver, rel, from, doomed>>
    /\ LeavesSupervisor

\* health_check: a pass needs a healthy runtime, a failure (a timeout, say)
\* may happen to any; it removes the target, as far as it can be removed,
\* and raises HealthCheckFailed.
HealthCheck ==
    /\ \/ /\ Goto("check", "flip")
          /\ rel \in SelfCheckOk
          /\ dir' = [dir EXCEPT ![rel] = "accepted"]
       \/ Goto("check", "discard") /\ dir' = [dir EXCEPT ![rel] = "partial"]
       \/ /\ Goto("discard", "failed")
          /\ \/ dir' = [dir EXCEPT ![rel] = "absent"]
             \/ UNCHANGED dir
    /\ UNCHANGED <<current, previous, stamp, fresh, onTrial, ver, rel, from, doomed>>
    /\ LeavesSupervisor

\* flip_current: `current` first, then (a second rename) `previous`.
FlipCurrent ==
    /\ Goto("flip", "demote")
    /\ dir[rel] # "absent"
    /\ current' = rel /\ onTrial' = from
    /\ UNCHANGED <<dir, previous, stamp, fresh, ver, rel, from, doomed>>
    /\ LeavesSupervisor

DemoteOld ==
    /\ Goto("demote", "stamp")
    /\ previous' = from
    /\ UNCHANGED <<dir, current, stamp, fresh, onTrial, ver, rel, from, doomed>>
    /\ LeavesSupervisor

WriteUpdatePending ==
    /\ Goto("stamp", "apps")
    /\ stamp' = from /\ fresh' = TRUE /\ onTrial' = from
    /\ UNCHANGED <<dir, current, previous, ver, rel, from, doomed>>
    /\ LeavesSupervisor

\* The UI apps are swapped and relaunched; every error is caught.  (The
\* relaunch may take this process down with it: see GoesDown.)
SwapUiApps ==
    /\ Goto("apps", "gcScan")
    /\ UNCHANGED <<dir, current, previous, stamp, fresh, onTrial, ver, rel, from, doomed>>
    /\ LeavesSupervisor

\* Mutants: only one of the two pointers protects its version.
PinnedCurrentOnly == {current} \ {NoVersion}
PinnedPreviousOnly == {previous} \ {NoVersion}
Pinned == {current, previous} \ {NoVersion}
Candidates == {v \in Versions : dir[v] # "absent"}
Keep == 2
\* The sets gc_old_versions may keep: the pinned versions and, up to Keep,
\* the most recently modified others (modification times are abstracted).
KeeperSets ==
    {K \in SUBSET (Pinned \cup Candidates) :
        /\ Pinned \subseteq K
        /\ IF Cardinality(Pinned) >= Keep THEN K = Pinned
           ELSE Cardinality(K) = Keep \/ K = Pinned \cup Candidates}

GcScan ==
    /\ Goto("gcScan", "gc")
    /\ \E keepers \in KeeperSets : doomed' = Candidates \ keepers
    /\ UNCHANGED <<dir, current, previous, stamp, fresh, onTrial, ver, rel, from>>
    /\ LeavesSupervisor

\* One rmtree at a time; one that fails is logged and skipped.
GcRemove ==
    /\ \/ /\ Goto("gc", "gcRm")
          /\ \E v \in doomed : dir' = [dir EXCEPT ![v] = "partial"]
          /\ UNCHANGED doomed
       \/ /\ Goto("gcRm", "gc")
          /\ \E v \in {d \in doomed : dir[d] = "partial"} :
                /\ \/ dir' = [dir EXCEPT ![v] = "absent"]
                   \/ UNCHANGED dir
                /\ doomed' = doomed \ {v}
    /\ UNCHANGED <<current, previous, stamp, fresh, onTrial, ver, rel, from>>
    /\ LeavesSupervisor

\* clear_staging and sys.exit(42).
SwapDone ==
    /\ Goto("gc", "exit42")
    /\ doomed = {}
    /\ UNCHANGED <<dir, current, previous, stamp, fresh, onTrial, ver, rel, from, doomed>>
    /\ LeavesSupervisor

\* An exception out of swap_bundle (no network, bad checksum, disk full,
\* codesign, an OSError of the scan): _apply_update_and_reexec exits 1.
SwapFails ==
    /\ sup = "wait"
    /\ pc \in {"resolve", "gcScan", "demote", "stamp"} \cup BeforeFlip
    /\ pc' = "failed"
    /\ UNCHANGED <<dir, current, previous, stamp, fresh, onTrial, ver, rel, from, doomed>>
    /\ LeavesSupervisor

-----------------------------------------------------------------------------
(* The supervisor.                                                         *)

\* supervise_forever launches nothing without a registered session: with none,
\* or with one it cannot read, it idles until `locai register` writes one.
MayLaunch == sup = "loop" /\ want /\ identity = "read"

\* resolve_current_version found a version whose runtime binary exists.
Spawn ==
    /\ MayLaunch
    /\ current # NoVersion
    /\ \/ dir[current] \in {"staged", "accepted"} /\ pc' = "run"
       \/ dir[current] = "partial" /\ pc' = "crash"
    /\ ver' = current /\ rel' = NoVersion /\ from' = NoVersion /\ doomed' = {}
    /\ sup' = "wait"
    /\ UNCHANGED <<dir, current, previous, stamp, fresh, onTrial, latest, want, losses, identity>>

\* bootstrap_from_boot: fetch the latest release and unpack it in place.
BootstrapUnpack ==
    /\ MayLaunch
    /\ current = NoVersion
    /\ rel' = latest
    /\ dir' = [dir EXCEPT ![latest] = "partial"]
    /\ sup' = "unpack"
    /\ UNCHANGED <<current, previous, stamp, fresh, onTrial, latest, want,
                   pc, ver, from, doomed, losses, identity>>

\* The rest of bootstrap_from_boot, or an error with the partial tree left.
BootstrapFinish ==
    /\ \/ sup = "unpack" /\ sup' = "point" /\ dir' = [dir EXCEPT ![rel] = "accepted"]
          /\ UNCHANGED current
       \/ sup = "unpack" /\ sup' = "loop" /\ UNCHANGED <<dir, current>>
       \/ sup = "point" /\ sup' = "loop" /\ current' = rel /\ UNCHANGED dir
    /\ UNCHANGED <<previous, stamp, fresh, onTrial, latest, want,
                   pc, ver, rel, from, doomed, losses, identity>>

\* The child is gone, killed by the supervisor: its exit code is not read.
Reaped == pc' = "none" /\ ver' = NoVersion /\ rel' = NoVersion /\ from' = NoVersion /\ doomed' = {}

\* Stop was asked for, or Restart (which also wants the runtime up), or the
\* identity changed: terminate_child, before try_wait is read.
Interrupt ==
    /\ sup = "wait"
    /\ want' \in {want, TRUE}
    /\ sup' = "loop" /\ Reaped
    /\ UNCHANGED <<disk, latest, losses, identity>>

\* SupervisorControl.start and .stop, from the tray, at any time.
UserToggles ==
    /\ want' = ~want
    /\ UNCHANGED <<disk, child, latest, sup, losses, identity>>

\* `locai register` writes a session, or the one there is wiped, torn by a
\* kill in the middle of its rewriting, or otherwise unreadable.
SessionChanges ==
    /\ identity' \in {"none", "read"} \ {identity}
    /\ UNCHANGED <<disk, child, latest, sup, want, losses>>

\* Exit 42 respawns, exit 0 latches the supervisor stopped.
HandleCleanExit ==
    /\ sup = "wait" /\ pc \in {"exit42", "exit0"}
    /\ want' = (want /\ pc = "exit42")
    /\ sup' = "loop" /\ Reaped
    /\ UNCHANGED <<disk, latest, losses, identity>>

ExitedNonZero == sup = "wait" /\ pc \in {"crash", "failed"}
RollbackApplies == stamp # NoVersion /\ fresh /\ dir[stamp] # "absent"

\* try_rollback says no (the stamp is missing, stale, or names a missing
\* directory: it is then removed), or cannot write the pointer.
HandleCrash ==
    /\ ExitedNonZero
    /\ stamp' = IF RollbackApplies THEN stamp ELSE NoVersion
    /\ fresh' = IF RollbackApplies THEN fresh ELSE FALSE
    /\ sup' = "loop" /\ Reaped
    /\ UNCHANGED <<dir, current, previous, onTrial, latest, want, losses, identity>>

\* try_rollback: the pointer, then `previous`, then the stamp.
Rollback ==
    /\ \/ /\ ExitedNonZero /\ RollbackApplies
          /\ current' = stamp /\ onTrial' = NoVersion
          /\ sup' = "unlinkPrevious" /\ Reaped
          /\ UNCHANGED <<previous, stamp, fresh>>
       \/ /\ sup = "unlinkPrevious" /\ sup' = "unlinkStamp"
          /\ previous' = NoVersion
          /\ UNCHANGED <<current, onTrial, stamp, fresh, child>>
       \/ /\ sup = "unlinkStamp" /\ sup' = "loop"
          /\ stamp' = NoVersion /\ fresh' = FALSE
          /\ UNCHANGED <<current, onTrial, previous, child>>
    /\ UNCHANGED <<dir, latest, want, losses, identity>>

\* Power loss, or the unit (supervisor and child) is restarted: memory is
\* lost, the disk stays, and the supervisor starts out wanting the runtime.
GoesDown ==
    /\ losses < MaxLosses /\ losses' = losses + 1
    /\ sup' = "loop" /\ want' = TRUE /\ Reaped
    /\ UNCHANGED <<disk, latest, identity>>

-----------------------------------------------------------------------------
Swap == \/ Resolve \/ Fetch \/ ClearTarget \/ PlacePayload \/ HealthCheck
        \/ FlipCurrent \/ DemoteOld \/ WriteUpdatePending \/ SwapUiApps
        \/ GcScan \/ GcRemove \/ SwapDone \/ SwapFails
Supervise == \/ Spawn \/ BootstrapUnpack \/ BootstrapFinish
             \/ HandleCleanExit \/ HandleCrash \/ Rollback
Environment == \/ \E v \in Versions : Publish(v)
               \/ WindowCloses \/ RequestUpdate \/ AgentExits
               \/ Interrupt \/ UserToggles \/ SessionChanges \/ GoesDown
Next == Swap \/ Supervise \/ Environment

Spec == Init /\ [][Next]_vars

\* The supervisor thread and a running swap_bundle keep taking steps; users,
\* releases, crashes, sessions and the clock promise nothing.
FairSpec == Spec /\ WF_vars(Supervise) /\ WF_vars(Swap)

-----------------------------------------------------------------------------
(* What the protocol promises.                                             *)

Slots == INSTANCE VersionSlots
         WITH live <- current,
              usable <- {v \in Versions : dir[v] = "accepted"}

\* Seen from outside, swap_bundle and the supervisor move the device between
\* usable versions in single steps and never withdraw the live one, wherever
\* a kill or a power loss cuts them off.
ImplementsSlots == Slots!Spec

\* `current` never names a version that is missing, half-unpacked, or that
\* did not pass its self-check (supervisor: "runtime missing" otherwise loops
\* for ever, since a dangling `current` is never bootstrapped again).
LiveVersionUsable == current # NoVersion => dir[current] = "accepted"

\* With a release server that may move "latest" back, `current` still never
\* names a directory that is gone, so the supervisor always finds a runtime.
LiveVersionPresent == current # NoVersion => dir[current] # "absent"

\* As long as the stamp would still trigger a rollback, its target is a whole,
\* accepted version: neither gc_old_versions nor a later swap took it away.
RollbackTargetUsable == stamp # NoVersion /\ fresh => dir[stamp] = "accepted"

\* The files of the version a live child was launched from stay in place
\* while it runs, whatever swap_bundle clears, discards or collects.
RunningVersionKept == pc \in Alive => dir[ver] = "accepted"

\* With a "latest" that moves back the running version may be one that never
\* passed its self-check (a rollback to a half-replaced stamp target), but its
\* files are still not taken away under the child.
RunningVersionWhole == pc \in Alive => dir[ver] \in {"staged", "accepted"}

\* Every exit of the child is answered: the runtime is running again, unless
\* it was stopped on purpose or the device's session could not be read (the
\* supervisor then idles until the device is registered again).
ExitIsAnswered == (pc \in Exited) ~> (pc = "run" \/ ~want \/ identity = "none")

\* What main.py says of a failed update: exiting 1 gracefully is not read by
\* the launcher as a rollback trigger.
FailedUpdateIsNoRollback == [][pc = "failed" => current' = current]_vars

\* What README.md says of the stamp: a version just flipped to and now
\* running can be rolled back to the one it replaced.
NewVersionRevertible == pc = "run" /\ onTrial # NoVersion => stamp = onTrial
=============================================================================
