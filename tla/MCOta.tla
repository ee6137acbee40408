------------------------------- MODULE MCOta -------------------------------
(* Ota on small instances: with releases that only get newer, and with a   *)
(* release server that may move "latest" back to an older one (Yanked).    *)
(* The two are the same module with its variables and constants renamed; a *)
(* behaviour is one of the part it chooses at the start, while the other   *)
(* stays in one first state, so that their state spaces add up and are not *)
(* multiplied.  The device of the second part stays registered: a session  *)
(* that cannot be read only takes launches away, which changes no pointer  *)
(* and no directory, so the states of the others are the same.             *)
EXTENDS Ota

CONSTANTS YankVersions, YankSelfCheckOk, YankStable, YankLosses

ASSUME YankedAssumption == YankVersions \subseteq Nat \ {0} /\ YankLosses \in Nat

VARIABLES
    part,  \* which part moves
    y_dir, y_current, y_previous, y_stamp, y_fresh, y_latest, y_sup, y_want, y_pc, y_ver,
    y_rel, y_from, y_doomed, y_onTrial, y_losses

Yanked == INSTANCE Ota WITH
    Versions <- YankVersions, SelfCheckOk <- YankSelfCheckOk, Stable <- YankStable,
    AllowYank <- TRUE, MaxLosses <- YankLosses, dir <- y_dir, current <- y_current,
    previous <- y_previous, stamp <- y_stamp, fresh <- y_fresh, latest <- y_latest,
    sup <- y_sup, want <- y_want, pc <- y_pc, ver <- y_ver, rel <- y_rel, from <- y_from,
    doomed <- y_doomed, onTrial <- y_onTrial, losses <- y_losses,
    identity <- "read"

y_vars == <<y_dir, y_current, y_previous, y_stamp, y_fresh, y_latest, y_sup, y_want, y_pc,
    y_ver, y_rel, y_from, y_doomed, y_onTrial, y_losses>>

PartsInit ==
    /\ part \in {"newer", "yanked"}
    /\ Init /\ (part # "newer" => latest = 1 /\ current = 1 /\ identity = "none")
    /\ Yanked!Init /\ (part # "yanked" => y_latest = 1 /\ y_current = 1)

PartsNext ==
    \/ part = "newer" /\ Next /\ UNCHANGED <<part, y_vars>>
    \/ part = "yanked" /\ Yanked!Next /\ UNCHANGED <<part, vars>>

\* FairSpec of the part that only gets newer releases; the other part is
\* checked for safety alone.
PartsSpec ==
    /\ PartsInit /\ [][PartsNext]_<<part, vars, y_vars>>
    /\ WF_vars(part = "newer" /\ Supervise) /\ WF_vars(part = "newer" /\ Swap)

---------------------------------------------------------------------------
(* With a release server that may move "latest" back, `current` still      *)
(* never names a directory that is gone, and although the running version  *)
(* may be one that never passed its self-check, its files are not taken    *)
(* away under the child (swap_bundle's removal of the target directory,    *)
(* gc_old_versions, try_rollback).                                         *)
YankedVersionsThere == Yanked!LiveVersionPresent /\ Yanked!RunningVersionWhole
=============================================================================
