----------------------------- MODULE MCPrimeRpc -----------------------------
(***************************************************************************)
(* Sessions of a few events, with lengths that let every limit be met.     *)
(***************************************************************************)
EXTENDS PrimeRpc, TLC

CONSTANTS i1, i2, c1, c2

MCUpdates == {<<"queued", "absent">>, <<"running", "yes">>, <<"running", "no">>, <<"done", "yes">>,
              <<"done", "absent">>, <<"cancelled", "absent">>, <<"error", "absent">>}

MCBytes == [k \in Kinds |-> CASE k = "update" -> 4 [] k \in {"toolUpdate", "agentEnd"} -> 2
                                 [] OTHER -> 1]

MCSnapshot == [k \in Kinds |-> CASE k = "update" -> 3 [] k = "toolUpdate" -> 1 [] OTHER -> 0]

MCMaxOfKind == [k \in Kinds |-> IF k = "child" THEN 2 ELSE 1]

MCSymmetry == Permutations(Ids) \union Permutations(CallIds)

=============================================================================
