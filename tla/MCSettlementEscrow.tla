-------------------------- MODULE MCSettlementEscrow --------------------------
(***************************************************************************)
(* Instances of SettlementEscrow for TLC.  Scales are cut down so that     *)
(* rounding, fees and the TEE multiplier all show within single digits: a  *)
(* price is per 2 tokens instead of 1000, a basis point is a quarter.      *)
(***************************************************************************)
EXTENDS EscrowLedger

CONSTANTS alice, gov

TwoAccounts == {alice, gov}
JustGov == {gov}
GovOrNobody == {gov, NoAccount}
AliceOrGov == {alice, gov}
BothTiers == {Tier}
AnyTiers == {{}, Tier}
BestEffortOnly == {{"BEST_EFFORT"}}

UnitPrice == [inputPer1k |-> 2, outputPer1k |-> 2]
OddPrice == [inputPer1k |-> 1, outputPer1k |-> 3]
OneUnitPrice == {UnitPrice}
TwoPrices == {UnitPrice, OddPrice}
PricesAndNone == {UnitPrice, OddPrice, NoPrice}
FixedRate == {1}
RatesAndNone == {0, 1, 2, NoRate}

OneInputToken == {<<1, 0>>}
SmallDeltas == {<<1, 0>>, <<1, 1>>}
WrappingDeltas == {<<1, 0>>, <<0, 1>>, <<5, 0>>}
===============================================================================
