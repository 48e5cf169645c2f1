----------------------------- MODULE MCFailover -----------------------------
(***************************************************************************)
(* Failover with one serial phase and two rollout branches: the smallest   *)
(* attempt in which one lane opens the circuit while another is in flight, *)
(* asleep before its retry, or waiting to be repaired.                     *)
(***************************************************************************)
EXTENDS Failover, TLC

\* A serial phase and a branch after it, or two branches beside each other.
SerialOrBeside == {{Serial, b} : b \in Branches} \union {Branches}

Symmetry == Permutations(Branches)

=============================================================================
