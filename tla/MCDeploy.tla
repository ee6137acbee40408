------------------------------ MODULE MCDeploy ------------------------------
(***************************************************************************)
(* Deploy on small instances: two pipelines of one model file, with two    *)
(* deploys of the first and one of the second, or one each and an          *)
(* uninstall.                                                              *)
(***************************************************************************)
EXTENDS Deploy, TLC

CONSTANTS pa, pb, d1, d2, d3, u1, f1

SharedFile == pa :> f1 @@ pb :> f1
ThreeDeploys == d1 :> pa @@ d2 :> pa @@ d3 :> pb
TwoDeploys == d1 :> pa @@ d3 :> pb
OneDeploy == d3 :> pb
OneUninstall == u1 :> pa
ListsSecond == {{pa}, {pb}}
NoUninstall == [u \in {} |-> pa]
=============================================================================
