--------------------------- MODULE ArtifactStore ---------------------------
(* Engines fetched on demand: infra/artifact_store.py and infra/engines.py.*)
(* Several processes ask for the same engine at once.  Each reads the      *)
(* store's manifest, takes the first variant of the device's candidates,   *)
(* and, under a file lock, downloads and verifies the archive, extracts it *)
(* into a staging directory, writes the marker with the archive's hash and *)
(* swaps the directory into place with two renames.  The store may publish *)
(* a new version at any time, a download may drop or deliver other bytes,  *)
(* a process may be killed, and the lock may be refused.                   *)
EXTENDS Naturals, Sequences

CONSTANTS
    Proc,          \* processes that use the engine
    Devices,       \* the devices considered, see Device
    Published,     \* the sets of variants a version may be published with
    MaxVersion,    \* the store publishes versions 1 .. MaxVersion
    Attempts,      \* attempts at a download
    MaxFaults,     \* bound on bad downloads and kills
    LockFails,     \* may the file lock be refused or time out?
    DeletionFails, \* may files refuse to be deleted?
    NoOne

\* cuda is the CUDA major version the tools report, 0 for none.
Device == [os : {"linux", "macos", "windows"}, arm : BOOLEAN, cuda : Nat, gpu : BOOLEAN]

Accel == {"-cuda-13.3", "-cuda-12.4", "-vulkan", ""}
Version == 1 .. MaxVersion

\* A hash stands for the one archive that has it; Other for any other bytes.
Sha == Version \X Accel
Other == <<0, "other">>
NoSha == <<0, "none">>

\* A directory: the archives its files come from, whether a file is missing,
\* and what the marker file says.
Dir == [there : BOOLEAN, files : SUBSET (Sha \cup {Other}), whole : BOOLEAN, marker : Sha \cup {NoSha}]
NoDir == [there |-> FALSE, files |-> {}, whole |-> FALSE, marker |-> NoSha]
EmptyDir == [NoDir EXCEPT !.there = TRUE]

VARIABLES
    device,
    published,  \* the manifest: accel variants of each version, and the default
    dest, staging, old,       \* the three directories
    archive, partial,         \* the cached archive and its sidecar
    lock,       \* who holds the file lock
    pc, want, attempt,        \* each process: step, hash it resolved, attempt
    faults

vars == <<device, published, dest, staging, old, archive, partial, lock, pc, want, attempt, faults>>
dirs == <<dest, staging, old>>
store == <<device, published>>

\* accel_suffixes: the device's candidates, the best first, the cpu last.
AccelSuffixes(d) ==
    (IF d.os = "windows" /\ d.cuda # 0
        THEN <<IF d.cuda >= 13 THEN "-cuda-13.3" ELSE "-cuda-12.4">> ELSE <<>>)
    \o (IF d.gpu /\ (d.os = "windows" \/ (d.os = "linux" /\ ~d.arm)) THEN <<"-vulkan">> ELSE <<>>)
    \o <<"">>

\* Manifest.variant: the first candidate that the default version has.
Candidates == {i \in 1 .. Len(AccelSuffixes(device)) :
                 AccelSuffixes(device)[i] \in published.variants[published.default]}
VariantFound == Candidates # {}
Variant == <<published.default,
             AccelSuffixes(device)[CHOOSE i \in Candidates : \A j \in Candidates : i <= j]>>

\* _installed: the directory is there and its marker has the hash.
Installed(p) == dest.there /\ dest.marker = want[p]

\* The steps under the lock.
Working == {"cached", "download", "stream", "verify", "fetched", "extract", "mark", "out", "in", "clean"}

\* Leaving the with statement closes the lock's file.
Released(p) == IF lock = p THEN NoOne ELSE lock

Init ==
    /\ device \in Devices
    /\ published \in [default : {1}, variants : [Version -> Published]]
    /\ dest = NoDir /\ staging = NoDir /\ old = NoDir
    /\ archive = NoSha /\ partial = NoSha /\ lock = NoOne
    /\ pc = [p \in Proc |-> "idle"] /\ want = [p \in Proc |-> NoSha]
    /\ attempt = [p \in Proc |-> 1] /\ faults = 0

At(p, a, b) == pc[p] = a /\ pc' = [pc EXCEPT ![p] = b]

\* The store's publish job moves the default version.
Publish ==
    /\ published.default < MaxVersion
    /\ published' = [published EXCEPT !.default = @ + 1]
    /\ UNCHANGED <<device, dirs, archive, partial, lock, pc, want, attempt, faults>>

\* ensure_engine reads the manifest and resolves the hash.
EnsureEngine(p) ==
    /\ At(p, "idle", "check") /\ VariantFound
    /\ want' = [want EXCEPT ![p] = Variant]
    /\ UNCHANGED <<store, dirs, archive, partial, lock, attempt, faults>>

\* The manifest cannot be read or has no variant for the device: the call raises.
ManifestFails(p) ==
    /\ At(p, "idle", "raise")
    /\ VariantFound => faults < MaxFaults
    /\ faults' = IF VariantFound THEN faults + 1 ELSE faults
    /\ UNCHANGED <<store, dirs, archive, partial, lock, want, attempt>>

\* Installed at this hash: done without the lock.
FirstCheck(p) ==
    /\ pc[p] = "check"
    /\ pc' = [pc EXCEPT ![p] = IF Installed(p) THEN "ok" ELSE "lock"]
    /\ UNCHANGED <<store, dirs, archive, partial, lock, want, attempt, faults>>

\* Mutant: the marker is not read again.
LockOnce(p) ==
    /\ At(p, "lock", "cached") /\ lock = NoOne /\ lock' = p
    /\ UNCHANGED <<store, dirs, archive, partial, want, attempt, faults>>

\* _engine_lock blocks until it has the lock; the marker is read again.
Lock(p) ==
    /\ pc[p] = "lock" /\ lock = NoOne
    /\ IF Installed(p) THEN pc' = [pc EXCEPT ![p] = "ok"] /\ lock' = lock
                       ELSE pc' = [pc EXCEPT ![p] = "cached"] /\ lock' = p
    /\ UNCHANGED <<store, dirs, archive, partial, want, attempt, faults>>

\* Locking is not supported here, or its timeout passed: on without the lock.
Unlocked(p) ==
    /\ LockFails /\ pc[p] = "lock"
    /\ pc' = [pc EXCEPT ![p] = IF Installed(p) THEN "ok" ELSE "cached"]
    /\ UNCHANGED <<store, dirs, archive, partial, lock, want, attempt, faults>>

\* fetch_variant: a cached archive with the right hash is not fetched again.
FetchVariant(p) ==
    /\ pc[p] = "cached" /\ attempt' = [attempt EXCEPT ![p] = 1]
    /\ pc' = [pc EXCEPT ![p] = IF archive = want[p] THEN "fetched" ELSE "download"]
    /\ UNCHANGED <<store, dirs, archive, partial, lock, want, faults>>

\* _download_to opens the sidecar for writing.
OpenPartial(p) ==
    /\ At(p, "download", "stream") /\ partial' = Other
    /\ UNCHANGED <<store, dirs, archive, lock, want, attempt, faults>>

\* The body is read to its end and the sidecar renamed.  The store may serve
\* bytes that the manifest does not know; two streams garble one sidecar.
Downloaded(p) ==
    /\ At(p, "stream", "verify") /\ partial # NoSha
    /\ \/ archive' = want[p] /\ faults' = faults
       \/ faults < MaxFaults /\ faults' = faults + 1 /\ archive' = Other
       \/ (\E q \in Proc \ {p} : pc[q] = "stream") /\ faults' = faults /\ archive' = Other
    /\ partial' = NoSha
    /\ UNCHANGED <<store, dirs, lock, want, attempt>>

\* Another installer renamed or deleted the sidecar: the rename raises.
SidecarGone(p) ==
    /\ At(p, "stream", "raise") /\ partial = NoSha /\ lock' = Released(p)
    /\ UNCHANGED <<store, dirs, archive, partial, want, attempt, faults>>

\* The connection drops or the server answers with an error: the sidecar is
\* deleted; another attempt if one is left, or the call raises (at once for
\* an answer that will not change).
DownloadDrops(p) ==
    /\ pc[p] = "stream" /\ partial' = NoSha
    /\ \/ /\ attempt[p] < Attempts /\ attempt' = [attempt EXCEPT ![p] = @ + 1]
          /\ pc' = [pc EXCEPT ![p] = "download"] /\ lock' = lock
       \/ pc' = [pc EXCEPT ![p] = "raise"] /\ attempt' = attempt /\ lock' = Released(p)
    /\ UNCHANGED <<store, dirs, archive, want, faults>>

\* Size and hash are compared; an archive that fails is deleted.
Verify(p) ==
    /\ pc[p] = "verify"
    /\ IF archive = want[p]
       THEN pc' = [pc EXCEPT ![p] = "fetched"] /\ UNCHANGED <<archive, lock>>
       ELSE /\ pc' = [pc EXCEPT ![p] = "raise"] /\ archive' = NoSha
            /\ lock' = Released(p)
    /\ UNCHANGED <<store, dirs, partial, want, attempt, faults>>

\* Mutant: what is in the staging directory stays.
StagingReused(p) ==
    /\ At(p, "fetched", "extract") /\ staging' = [staging EXCEPT !.there = TRUE]
    /\ UNCHANGED <<store, dest, old, archive, partial, lock, want, attempt, faults>>

\* rmtree(ignore_errors=True) of the staging directory of an earlier try.
FreshStaging(p) ==
    /\ At(p, "fetched", "extract")
    /\ staging' = EmptyDir \/ (DeletionFails /\ staging.there /\ staging' = staging)
    /\ UNCHANGED <<store, dest, old, archive, partial, lock, want, attempt, faults>>

\* _extract writes every file of the archive into the directory.
Extract(p) ==
    /\ pc[p] = "extract"
    /\ IF archive = NoSha
       THEN /\ pc' = [pc EXCEPT ![p] = "raise"] /\ staging' = staging
            /\ lock' = Released(p)
       ELSE /\ pc' = [pc EXCEPT ![p] = "mark"] /\ lock' = lock
            /\ staging' = [staging EXCEPT !.there = TRUE, !.files = @ \cup {archive}, !.whole = TRUE]
    /\ UNCHANGED <<store, dest, old, archive, partial, want, attempt, faults>>

\* The marker is written last, into the staging directory.
Mark(p) ==
    /\ pc[p] = "mark"
    /\ IF staging.there
       THEN pc' = [pc EXCEPT ![p] = "out"] /\ staging' = [staging EXCEPT !.marker = want[p]] /\ lock' = lock
       ELSE pc' = [pc EXCEPT ![p] = "raise"] /\ staging' = staging
            /\ lock' = Released(p)
    /\ UNCHANGED <<store, dest, old, archive, partial, want, attempt, faults>>

\* _atomic_swap, first rename: what is there moves aside.
SwapOut(p) ==
    /\ At(p, "out", "in")
    /\ old' = IF dest.there THEN dest ELSE NoDir
    /\ dest' = NoDir
    /\ UNCHANGED <<store, staging, archive, partial, lock, want, attempt, faults>>

\* Second rename: the staging directory becomes the engine's.  It fails when
\* another installer moved the directory, or put one there first.
SwapIn(p) ==
    /\ pc[p] = "in"
    /\ IF staging.there /\ (dest.there => dest.files = {} /\ dest.marker = NoSha)
       THEN /\ pc' = [pc EXCEPT ![p] = "clean"] /\ lock' = lock
            /\ dest' = staging /\ staging' = NoDir /\ old' = NoDir
       ELSE /\ pc' = [pc EXCEPT ![p] = "raise"] /\ UNCHANGED dirs
            /\ lock' = Released(p)
    /\ UNCHANGED <<store, archive, partial, want, attempt, faults>>

\* The archive is deleted, the lock's file closed.
CleanUp(p) ==
    /\ At(p, "clean", "ok") /\ archive' = NoSha
    /\ lock' = Released(p)
    /\ UNCHANGED <<store, dirs, partial, want, attempt, faults>>

\* provision returns the directory and binary_path looks for the binary.
BinaryPath(p) ==
    /\ pc[p] = "ok"
    /\ pc' = [pc EXCEPT ![p] = IF dest.there /\ dest.whole THEN "serving" ELSE "missing"]
    /\ UNCHANGED <<store, dirs, archive, partial, lock, want, attempt, faults>>

\* The caller asks again, at the next deploy or the next start.
AskAgain(p) ==
    /\ pc[p] \in {"serving", "missing", "raise"} /\ pc' = [pc EXCEPT ![p] = "idle"]
    /\ want' = [want EXCEPT ![p] = NoSha] /\ attempt' = [attempt EXCEPT ![p] = 1]
    /\ UNCHANGED <<store, dirs, archive, partial, lock, faults>>

\* A kill: the kernel gives back the lock; what was written is torn.
Killed(p) ==
    /\ pc[p] \notin {"idle", "serving", "missing", "raise"} /\ faults < MaxFaults
    /\ faults' = faults + 1
    /\ pc' = [pc EXCEPT ![p] = "idle"]
    /\ want' = [want EXCEPT ![p] = NoSha] /\ attempt' = [attempt EXCEPT ![p] = 1]
    /\ lock' = Released(p)
    /\ staging' = IF pc[p] = "extract" /\ archive # NoSha
                  THEN [staging EXCEPT !.files = @ \cup {archive}] ELSE staging
    /\ UNCHANGED <<store, dest, old, archive, partial>>

Step(p) ==
    \/ FirstCheck(p) \/ Lock(p) \/ FetchVariant(p) \/ OpenPartial(p) \/ Downloaded(p) \/ SidecarGone(p)
    \/ Verify(p) \/ FreshStaging(p) \/ Extract(p) \/ Mark(p) \/ SwapOut(p)
    \/ SwapIn(p) \/ CleanUp(p) \/ BinaryPath(p)

Next ==
    \/ Publish
    \/ \E p \in Proc : \/ EnsureEngine(p) \/ ManifestFails(p) \/ Unlocked(p) \/ DownloadDrops(p)
                       \/ AskAgain(p) \/ Killed(p) \/ Step(p)

\* Every step of a call is taken; a stream ends or drops; a waiter that
\* keeps finding the lock free in turn gets it (the kernel queues waiters).
Fairness == \A p \in Proc : WF_vars(Step(p) \/ DownloadDrops(p)) /\ SF_vars(Lock(p))

Spec == Init /\ [][Next]_vars
LiveSpec == Spec /\ Fairness

---------------------------------------------------------------------------
(* The variables have their types; the lock is with the one process that   *)
(* is between taking and releasing it, and unless locking fails no other   *)
(* process works on the directories.                                       *)
TypeOK ==
    /\ device \in Devices /\ {dest, staging, old} \subseteq Dir
    /\ {archive, partial} \subseteq Sha \cup {Other, NoSha}
    /\ lock \in Proc \cup {NoOne}
    /\ (lock # NoOne => pc[lock] \in Working)
    /\ (~LockFails => \A p \in Proc : pc[p] \in Working => lock = p)
    /\ want \in [Proc -> Sha \cup {NoSha}] /\ attempt \in [Proc -> 1 .. Attempts]
    /\ faults \in 0 .. MaxFaults

(* ensure_engine: "concurrent first-use calls can't corrupt the dir, and a *)
(* version change swaps in a clean dir".  The engine's directory, whenever *)
(* it is there, has every file of the one archive its marker names.        *)
EngineIntact == dest.there => dest.whole /\ dest.files = {dest.marker}

(* _engine_lock: "the marker recheck under the lock still prevents double  *)
(* work".  No installer replaces an engine by the same engine.             *)
NoDoubleWork ==
    [][\A p \in Proc : pc[p] = "in" /\ pc'[p] = "clean" => old.marker # want[p]]_vars

(* binary_path: "Raises if it is not in the fetched archive".  A call that *)
(* provisioned a whole engine finds the binary.                            *)
BinaryThere == \A p \in Proc : pc[p] # "missing"

(* ensure_engine is "a locked + atomic transaction": unless an installer is*)
(* between its two renames, an engine that was moved aside was replaced.   *)
EngineKept == (\A p \in Proc : pc[p] # "in") => (old.there => dest.there)

(* A call ends: it serves or raises, whoever holds the lock and whoever is *)
(* killed with it.                                                         *)
CallEnds == \A p \in Proc :
    pc[p] = "check" ~> pc[p] \in {"serving", "missing", "raise", "idle"}
============================================================================
