-------------------------- MODULE MCProviderRegistry --------------------------
(***************************************************************************)
(* Two operators and two nodes with their key histories.  Nodes differ     *)
(* only in name; the first operator also owns the registry.                *)
(***************************************************************************)
EXTENDS ProviderRegistry, TLC

CONSTANTS op1, op2

TwoOperators == {op1, op2}
BestEffortFlags == {<<TRUE, FALSE>>}
ZeroPayout == {NoAccount}
ZeroOrOp1 == {NoAccount, op1}
Alike == Permutations(Nodes)
===============================================================================
