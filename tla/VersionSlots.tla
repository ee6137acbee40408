---------------------------- MODULE VersionSlots ----------------------------
(***************************************************************************)
(* What the update machinery promises the device, without files, stamps or *)
(* crashes: a set of usable versions, of which at most one is live, and a  *)
(* live version that is never taken away.  Ota.tla implements it.          *)
(***************************************************************************)
CONSTANTS Versions, NoVersion

VARIABLES
    live,      \* the version the device runs, or NoVersion before bootstrap
    usable     \* the versions that could be run

Init == \/ live = NoVersion /\ usable = {}
        \/ live \in Versions /\ usable = {live}

\* A version becomes usable (downloaded, verified, self-checked).
Offer(v) == usable' = usable \cup {v} /\ UNCHANGED live
\* A version other than the live one is withdrawn.
Withdraw(v) == v # live /\ usable' = usable \ {v} /\ UNCHANGED live
\* The device moves, in one step, to another usable version: the newer one
\* of an update, or the older one of a rollback.
Switch(v) == v \in usable /\ live' = v /\ UNCHANGED usable

Next == \E v \in Versions : Offer(v) \/ Withdraw(v) \/ Switch(v)
Spec == Init /\ [][Next]_<<live, usable>>
=============================================================================
