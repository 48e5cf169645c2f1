----------------------------- MODULE MCService -----------------------------
(***************************************************************************)
(* Two services on one path; the first makes a provider call.              *)
(***************************************************************************)
EXTENDS ServiceLifecycle

CONSTANTS s1, s2, c1

MCCallsOf == [s \in Services |-> IF s = s1 THEN {c1} ELSE {}]

=============================================================================
