------------------------------ MODULE MCBudget ------------------------------
(* Three claimers against a limit of one, over four units of time.         *)
EXTENDS Budget

CONSTANTS c1, c2, c3

MCClaimers == {c1, c2, c3}
=============================================================================
