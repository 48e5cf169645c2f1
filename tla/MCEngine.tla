------------------------------ MODULE MCEngine ------------------------------
(***************************************************************************)
(* Engine on small sets.  MCEngineRun.cfg: one job with two branches and   *)
(* every kind of provider answer.  MCEnginePermits.cfg: two jobs, two      *)
(* workers and one rollout permit between them.  MCEngineLiveness.cfg:     *)
(* what must eventually happen, with two jobs and one worker.              *)
(* MCEngineLostSettlement.cfg: the settlement a hard deadline refuses.     *)
(***************************************************************************)
EXTENDS Engine, TLC

Symmetry == Permutations(Branches)

=============================================================================
