----------------------------- MODULE MCSkills -----------------------------
(***************************************************************************)
(* Two releases: the second changes "install", leaves "operate" as it is   *)
(* and adds "trigger", as the bundles from 0.2.0 to 0.2.5 did.             *)
(***************************************************************************)
EXTENDS SkillsInstaller

MCOrder == <<"install", "operate", "trigger", "receipt">>

MCKnown == [v \in Versions |-> IF v = "v1" THEN {"v1"} ELSE {"v1", "v2"}]

MCPayload ==
  [v \in Versions |->
     CASE v = "v1" -> [install |-> "i1", operate |-> "o", trigger |-> Nothing, receipt |-> Nothing]
       [] v = "v2" -> [install |-> "i2", operate |-> "o", trigger |-> "t", receipt |-> Nothing]]

MCDirOf == [install |-> "a", operate |-> "a", trigger |-> "b", receipt |-> "state"]

=============================================================================
