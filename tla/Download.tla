------------------------------ MODULE Download ------------------------------
(***************************************************************************)
(* The resumable bundle download of the updater (download and verify of    *)
(* src/link/app/updater.py) as swap_bundle uses it, over many runs of the  *)
(* runtime: staging/<asset>.partial outlives a failed or killed run, and   *)
(* since releases publish stable asset names it also outlives the release  *)
(* it was part of.  A byte is the pair of its release and its position, so *)
(* what a resumed file is made of stays visible.                           *)
(***************************************************************************)
EXTENDS Naturals, Sequences

CONSTANTS
    Releases,      \* release numbers: larger is newer
    Size,          \* the size of a release's asset: [Releases -> Nat \ {0}]
    MaxFaults      \* bound on errors, short reads and kills together

ASSUME ReleasesAssumption == Releases \subseteq Nat
ASSUME SizeAssumption == Size \in [Releases -> Nat \ {0}]
ASSUME FaultsAssumption == MaxFaults \in Nat

VARIABLES
    latest,     \* the release the server calls latest
    ranges,     \* does the server honour Range requests?
    pc,         \* where swap_bundle is
    rel,        \* the release it installs
    attempt,    \* the attempt of download
    sent,       \* the position of the last byte the server has sent
    partial,    \* the bytes of staging/<asset>.partial (<<>>: none)
    dest,       \* the bytes of staging/<asset> (<<>>: none)
    faults

vars == <<latest, ranges, pc, rel, attempt, sent, partial, dest, faults>>

MaxRetries == 3
Byte == Releases \X (Nat \ {0})
Archive(r) == [i \in 1..Size[r] |-> <<r, i>>]

TypeOK ==
    /\ latest \in Releases /\ rel \in Releases /\ ranges \in BOOLEAN
    /\ pc \in {"idle", "attempt", "stream", "replace", "verify", "verified"}
    /\ attempt \in 1..(MaxRetries + 1) /\ sent \in Nat
    /\ partial \in Seq(Byte) /\ dest \in Seq(Byte)
    /\ faults \in 0..MaxFaults

Init ==
    /\ latest \in Releases /\ rel = latest /\ ranges \in BOOLEAN
    /\ pc = "idle" /\ attempt = 1 /\ sent = 0
    /\ partial = <<>> /\ dest = <<>> /\ faults = 0

Fault == faults < MaxFaults /\ faults' = faults + 1

-----------------------------------------------------------------------------
\* A newer release becomes latest; its asset has the same name.
PublishRelease(r) ==
    /\ r > latest /\ latest' = r
    /\ UNCHANGED <<ranges, pc, rel, attempt, sent, partial, dest, faults>>

\* swap_bundle resolves the latest release and calls download.
StartDownload ==
    /\ pc = "idle" /\ pc' = "attempt"
    /\ rel' = latest /\ attempt' = 1 /\ sent' = 0
    /\ UNCHANGED <<latest, ranges, partial, dest, faults>>

Existing == Len(partial)
Resuming == Existing > 0 /\ ranges

\* Mutant: the file is opened for appending whatever the server answered.
OpenForAppend ==
    /\ pc = "attempt" /\ attempt <= MaxRetries /\ pc' = "stream"
    /\ Resuming => Existing < Size[rel]
    /\ sent' = IF Resuming THEN Existing ELSE 0
    /\ UNCHANGED <<latest, ranges, rel, attempt, partial, dest, faults>>

\* The request is answered with 206 (the rest is appended) or with 200 (the
\* file is started over).
OpenPartial ==
    /\ pc = "attempt" /\ attempt <= MaxRetries /\ pc' = "stream"
    /\ Resuming => Existing < Size[rel]
    /\ sent' = IF Resuming THEN Existing ELSE 0
    /\ partial' = IF Resuming THEN partial ELSE <<>>
    /\ UNCHANGED <<latest, ranges, rel, attempt, dest, faults>>

\* The attempt fails: with 416, since nothing is left of the asset after the
\* bytes at hand, or with any other refusal.
AttemptFails ==
    /\ pc = "attempt" /\ attempt <= MaxRetries
    /\ \/ Resuming /\ Existing >= Size[rel] /\ UNCHANGED faults
       \/ Fault
    /\ attempt' = attempt + 1
    /\ UNCHANGED <<latest, ranges, pc, rel, sent, partial, dest>>

WriteChunk ==
    /\ pc = "stream" /\ sent < Size[rel]
    /\ sent' = sent + 1
    /\ partial' = Append(partial, <<rel, sent + 1>>)
    /\ UNCHANGED <<latest, ranges, pc, rel, attempt, dest, faults>>

\* The stream ends, in full or short, or it raises and is attempted again.
StreamEnds ==
    /\ pc = "stream"
    /\ \/ sent = Size[rel] /\ pc' = "replace" /\ UNCHANGED <<attempt, faults>>
       \/ sent < Size[rel] /\ Fault /\ pc' = "replace" /\ UNCHANGED attempt
       \/ Fault /\ pc' = "attempt" /\ attempt' = attempt + 1
    /\ UNCHANGED <<latest, ranges, rel, sent, partial, dest>>

\* "Giving up after {max_retries} attempts".
GiveUp ==
    /\ pc = "attempt" /\ attempt > MaxRetries /\ pc' = "idle"
    /\ UNCHANGED <<latest, ranges, rel, attempt, sent, partial, dest, faults>>

\* Mutant: an archive that is already there is taken for the download.
KeepDest ==
    /\ pc = "replace" /\ pc' = "verify"
    /\ dest' = IF dest = <<>> THEN partial ELSE dest
    /\ partial' = <<>>
    /\ UNCHANGED <<latest, ranges, rel, attempt, sent, faults>>

\* os.replace(partial, dest).
ReplaceDest ==
    /\ pc = "replace" /\ pc' = "verify"
    /\ dest' = partial /\ partial' = <<>>
    /\ UNCHANGED <<latest, ranges, rel, attempt, sent, faults>>

\* verify: the digest of the file against the release's; a mismatch raises and
\* leaves the file where it is.
Verify ==
    /\ pc = "verify"
    /\ pc' = IF dest = Archive(rel) THEN "verified" ELSE "idle"
    /\ UNCHANGED <<latest, ranges, rel, attempt, sent, partial, dest, faults>>

\* The rest of swap_bundle: clear_staging when it succeeds, nothing when not.
Install ==
    /\ pc = "verified" /\ pc' = "idle"
    /\ \/ dest' = <<>> /\ partial' = <<>> /\ UNCHANGED faults
       \/ Fault /\ UNCHANGED <<dest, partial>>
    /\ UNCHANGED <<latest, ranges, rel, attempt, sent>>

\* The process is killed, or an OSError (disk full) leaves download.
Killed ==
    /\ pc # "idle" /\ pc' = "idle" /\ Fault
    /\ UNCHANGED <<latest, ranges, rel, attempt, sent, partial, dest>>

-----------------------------------------------------------------------------
Updater == \/ OpenPartial \/ AttemptFails \/ WriteChunk \/ StreamEnds \/ GiveUp
           \/ ReplaceDest \/ Verify \/ Install
Next == \/ Updater \/ StartDownload \/ Killed
        \/ \E r \in Releases : PublishRelease(r)

Spec == Init /\ [][Next]_vars

\* A started update goes on, and one that failed is asked for again (by
\* Control or the companion app, as long as the device reports it is behind).
FairSpec == Spec /\ WF_vars(Updater) /\ WF_vars(StartDownload)

-----------------------------------------------------------------------------
\* Whatever was resumed, appended, started over or published in between, byte
\* i of the partial file is byte i of some release: nothing is duplicated,
\* skipped or shifted, so a partial of one release is a prefix of it.
ResumeExact == \A i \in 1..Len(partial) : partial[i][2] = i

\* Once the faults are over, an update that is asked for again and again gets
\* a verified archive, unless an attempt starts with a partial that is already
\* at least as long as the asset: only that keeps it from ever finishing.
CompletesUnlessOversized ==
    (pc = "attempt") ~> \/ pc = "verified"
                        \/ pc = "attempt" /\ ranges /\ Len(partial) >= Size[rel]

\* What the docstring of download says: a partial of a previous run is reused
\* and the completed file returned.
ResumedDownloadCompletes == (pc = "attempt") ~> (pc = "verified")
=============================================================================
