--------------------------------- MODULE MCHub ---------------------------------
(***************************************************************************)
(* A small Hub: one node with two possible operators, one of whom is also  *)
(* the user, the owner, the treasury and the settlement operator.          *)
(***************************************************************************)
EXTENDS Hub

CONSTANTS host, gov

OpAndGov == {host, gov}
JustGov == {gov}
ZeroOrGov == {NoAccount, gov}
AnyFlags == {<<TRUE, FALSE>>, <<FALSE, TRUE>>}
UnitPrice == {[inputPer1k |-> 2, outputPer1k |-> 2]}
FixedRate == {1}
OneInputToken == {<<1, 0>>}
===============================================================================
