--------------------------- MODULE SettlementEscrow ---------------------------
(***************************************************************************)
(* The Hub EVM contract contracts/src/SettlementEscrow.sol: free user      *)
(* balances, session locks, provider earnings and protocol fees, all kept  *)
(* in internal DOT units.  One action per external function; a reverting   *)
(* call changes nothing, so a revert is a disabled action.                 *)
(*                                                                         *)
(* The registry and the two price oracles are seen here only through the   *)
(* four answers the escrow asks of them (owner, nodeOperator, supportsTier,*)
(* effective price and rate).  They may change between any two calls; the  *)
(* module Hub shows that the real registry does nothing else.              *)
(***************************************************************************)
EXTENDS Integers, FiniteSets, EscrowSums

CONSTANTS
    Accounts,               \* EVM addresses that send transactions
    NoAccount,              \* address(0)
    Nodes,                  \* registry node ids
    Models,                 \* model ids (hashes of names)
    NoNode, NoModel,        \* bytes32(0) as a node id and as a model id
    NoPrice,                \* answer of an oracle whose getEffectivePrice reverts
    NoRate,                 \* answer of a rate oracle whose getUsdcPerDot reverts
    MaxSessions,            \* bound: sessions opened in a behaviour
    MaxCirculating,         \* bound: internal DOT in circulation
    MaxUsage,               \* bound: usage recorded on one session
    MaxNative,              \* bound: native tokens the contract holds
    MaxUsdcCredited,        \* bound: internal DOT ever credited against USDC
    Amounts,                \* internal amounts a caller may name
    UsdcAmounts,            \* USDC amounts a caller may deposit
    Gifts,                  \* native amounts sent to receive()
    TokenDeltas,            \* <<input, output>> token deltas of a recordUsage
    NATIVE_UNIT,            \* internal units per native unit, 10^(18 - nativeDotDecimals)
    USDC_UNIT,              \* the 1e18 of the USDC conversion
    PRICE_TOKENS,           \* tokens a price is quoted for (1000)
    TOKEN_MOD,              \* 2^64, the width of the recorded token counts
    BPS_DENOM,              \* 10_000
    MIN_TEE_MULTIPLIER_BPS, MAX_TEE_MULTIPLIER_BPS, MAX_PROTOCOL_FEE_BPS,
    DefaultTeeMultiplierBps, DefaultFeeBps, \* the values a deployment starts with
    TeeMultiplierChoices, FeeBpsChoices,    \* arguments of the two bps setters
    DeployedRole,           \* who holds the three roles when the behaviour starts
    RoleChoices,            \* arguments of the three role setters
    OwnerChoices, OperatorChoices, TierChoices,  \* answers of the registry
    PriceChoices, RateChoices                    \* answers of the oracles

Tier == {"BEST_EFFORT", "TEE_VERIFIED"}
Addresses == Accounts \cup {NoAccount}
SessionIds == 0..(MaxSessions - 1)
Price == [inputPer1k : Nat, outputPer1k : Nat]

ASSUME AccountAssumption ==
    /\ NoAccount \notin Accounts
    /\ DeployedRole \in Addresses
    /\ RoleChoices \subseteq Addresses
    /\ OwnerChoices \subseteq Accounts
    /\ OperatorChoices \subseteq Addresses
    /\ TierChoices \subseteq SUBSET Tier

ASSUME FiniteAssumption ==
    /\ IsFiniteSet(Accounts)
    /\ IsFiniteSet(Nodes)

ASSUME AmountAssumption ==
    /\ MaxSessions \in Nat
    /\ MaxCirculating \in Nat
    /\ MaxUsage \in Nat
    /\ MaxNative \in Nat
    /\ MaxUsdcCredited \in Nat
    /\ Amounts \subseteq Nat
    /\ UsdcAmounts \subseteq Nat
    /\ Gifts \subseteq Nat
    /\ TokenDeltas \subseteq Nat \X Nat
    /\ RateChoices \subseteq Nat \cup {NoRate}
    /\ NoRate \notin Nat
    /\ PriceChoices \subseteq Price \cup {NoPrice}
    /\ NoPrice \notin Price

ASSUME ScaleAssumption ==
    /\ NATIVE_UNIT \in Nat \ {0}
    /\ USDC_UNIT \in Nat \ {0}
    /\ PRICE_TOKENS \in Nat \ {0}
    /\ TOKEN_MOD \in Nat \ {0}
    /\ BPS_DENOM \in Nat \ {0}
    /\ MAX_PROTOCOL_FEE_BPS \in 0..BPS_DENOM
    /\ MIN_TEE_MULTIPLIER_BPS \in Nat
    /\ MAX_TEE_MULTIPLIER_BPS \in Nat
    /\ DefaultTeeMultiplierBps \in MIN_TEE_MULTIPLIER_BPS..MAX_TEE_MULTIPLIER_BPS
    /\ DefaultFeeBps \in 0..MAX_PROTOCOL_FEE_BPS
    /\ TeeMultiplierChoices \subseteq Nat
    /\ FeeBpsChoices \subseteq Nat

VARIABLES
    dotBalances,            \* [Accounts -> Nat] free balance per user
    providerBalances,       \* [Nodes -> Nat] earnings per node
    protocolBalances,       \* Nat, fees accrued for the treasury
    totalLockedInternal,    \* Nat, cached sum of the locks
    internalCirculating,    \* Nat, cached sum of every liability
    openSessionCountByNode, \* [Nodes -> Nat] cached number of unsettled sessions
    nextSessionId,          \* Nat
    sessionById,            \* [SessionIds -> Session]
    settlementOperator, recordUsageRole, protocolTreasury,
    protocolFeeBps, teePriceMultiplierBps,
    nativeBalance,          \* address(this).balance
    usdcCredited,           \* history: internal DOT credited against USDC so far
    registryOwner,          \* registry.owner()
    nodeOperator,           \* registry.nodeOperator(nodeId)
    supportedTiers,         \* {t : registry.supportsTier(nodeId, t)}
    effectivePrice,         \* modelPriceOracle.getEffectivePrice(modelId)
    usdcPerDot              \* priceOracle.getUsdcPerDot()

balances == <<dotBalances, providerBalances, protocolBalances>>
caches   == <<totalLockedInternal, internalCirculating, openSessionCountByNode>>
sessionVars == <<nextSessionId, sessionById>>
roles    == <<settlementOperator, recordUsageRole, protocolTreasury>>
rates    == <<protocolFeeBps, teePriceMultiplierBps>>
custody  == <<nativeBalance, usdcCredited>>
registryView == <<registryOwner, nodeOperator, supportedTiers>>
oracleView   == <<effectivePrice, usdcPerDot>>
vars == <<balances, caches, sessionVars, roles, rates, custody, registryView, oracleView>>

Session == [user : Addresses, nodeId : Nodes \cup {NoNode},
            modelId : Models \cup {NoModel}, tier : Tier,
            lockedInternal : Nat, usageRecorded : Nat,
            paidToProviderInternal : Nat, paidToProtocolInternal : Nat,
            openingInternal : Nat, settled : BOOLEAN,
            inputTokensRecorded : Nat, outputTokensRecorded : Nat]

NewSession(user, nodeId, modelId, tier, amount) ==
    [user |-> user, nodeId |-> nodeId, modelId |-> modelId, tier |-> tier,
     lockedInternal |-> amount, usageRecorded |-> 0,
     paidToProviderInternal |-> 0, paidToProtocolInternal |-> 0,
     openingInternal |-> amount, settled |-> FALSE,
     inputTokensRecorded |-> 0, outputTokensRecorded |-> 0]

\* What Solidity reads from a mapping slot that was never written.
NoSession == NewSession(NoAccount, NoNode, NoModel, "BEST_EFFORT", 0)

MoneyTypeOK ==
    /\ dotBalances \in [Accounts -> Nat]
    /\ providerBalances \in [Nodes -> Nat]
    /\ protocolBalances \in Nat
    /\ totalLockedInternal \in Nat
    /\ internalCirculating \in Nat
    /\ openSessionCountByNode \in [Nodes -> Nat]
    /\ nextSessionId \in 0..MaxSessions
    /\ sessionById \in [SessionIds -> Session]

ConfigTypeOK ==
    /\ settlementOperator \in Addresses
    /\ recordUsageRole \in Addresses
    /\ protocolTreasury \in Addresses
    /\ protocolFeeBps \in 0..MAX_PROTOCOL_FEE_BPS
    /\ teePriceMultiplierBps \in Nat

CustodyTypeOK ==
    /\ nativeBalance \in Nat
    /\ usdcCredited \in Nat

ViewTypeOK ==
    /\ registryOwner \in Accounts
    /\ nodeOperator \in [Nodes -> Addresses]
    /\ supportedTiers \in [Nodes -> SUBSET Tier]
    /\ effectivePrice \in [Models -> Price \cup {NoPrice}]
    /\ usdcPerDot \in Nat \cup {NoRate}

\* Every balance and counter is a natural number: none of the contract's checked
\* subtractions can underflow, so no call reverts for a reason the code does not name.
TypeOK == MoneyTypeOK /\ ConfigTypeOK /\ CustodyTypeOK /\ ViewTypeOK

-------------------------------------------------------------------------------
\* Conversions and prices.

\* Mutant: a payout is rounded up to whole native units.
InternalToNativeRoundedUp(amountInternal) == (amountInternal + NATIVE_UNIT - 1) \div NATIVE_UNIT

\* _nativeToInternal and _internalToNative; the constructor keeps
\* nativeDotDecimals <= 18, so a native unit is worth NATIVE_UNIT internal units.
NativeToInternal(amountNative) == amountNative * NATIVE_UNIT
InternalToNative(amountInternal) == amountInternal \div NATIVE_UNIT

\* The uint64(...) cast of a token delta drops the high bits silently; the sum it
\* is added to is checked, and reverts when it leaves the width.
Uint64(x) == x % TOKEN_MOD

\* The cost _applyUsage adds for one report, at the price in force NOW (not the
\* one the session was opened at), each product rounded down by itself.
UsageCost(tier, price, inDelta, outDelta) ==
    LET base == (inDelta * price.inputPer1k) \div PRICE_TOKENS
                + (outDelta * price.outputPer1k) \div PRICE_TOKENS
    IN  IF tier = "TEE_VERIFIED"
        THEN (base * teePriceMultiplierBps) \div BPS_DENOM
        ELSE base

\* The slice _settle withholds from a provider payout.
ProtocolFee(toProvider) ==
    IF toProvider > 0 /\ protocolFeeBps > 0 /\ protocolTreasury # NoAccount
    THEN (toProvider * protocolFeeBps) \div BPS_DENOM
    ELSE 0

-------------------------------------------------------------------------------
\* Deployment: Init fixes what the constructor and the first governance calls
\* leave, with no money and no session in the contract.
Init ==
    /\ dotBalances = [a \in Accounts |-> 0]
    /\ providerBalances = [n \in Nodes |-> 0]
    /\ protocolBalances = 0
    /\ totalLockedInternal = 0
    /\ internalCirculating = 0
    /\ openSessionCountByNode = [n \in Nodes |-> 0]
    /\ nextSessionId = 0
    /\ sessionById = [id \in SessionIds |-> NoSession]
    /\ settlementOperator = DeployedRole
    /\ recordUsageRole = DeployedRole
    /\ protocolTreasury = DeployedRole
    /\ protocolFeeBps = DefaultFeeBps
    /\ teePriceMultiplierBps = DefaultTeeMultiplierBps
    /\ nativeBalance = 0
    /\ usdcCredited = 0
    /\ registryOwner \in OwnerChoices
    /\ nodeOperator \in [Nodes -> OperatorChoices]
    /\ supportedTiers \in [Nodes -> TierChoices]
    /\ effectivePrice \in [Models -> PriceChoices]
    /\ usdcPerDot \in RateChoices

-------------------------------------------------------------------------------
\* Governance: every setter asks that the sender be registry.owner().

SetTeePriceMultiplierBps(sender, bps) ==
    /\ sender = registryOwner
    /\ bps \in MIN_TEE_MULTIPLIER_BPS..MAX_TEE_MULTIPLIER_BPS
    /\ teePriceMultiplierBps' = bps
    /\ UNCHANGED <<balances, caches, sessionVars, roles, protocolFeeBps, custody,
                   registryView, oracleView>>

SetSettlementOperator(sender, next) ==
    /\ sender = registryOwner
    /\ settlementOperator' = next
    /\ UNCHANGED <<balances, caches, sessionVars, recordUsageRole, protocolTreasury,
                   rates, custody, registryView, oracleView>>

SetRecordUsage(sender, next) ==
    /\ sender = registryOwner
    /\ recordUsageRole' = next
    /\ UNCHANGED <<balances, caches, sessionVars, settlementOperator, protocolTreasury,
                   rates, custody, registryView, oracleView>>

SetProtocolTreasury(sender, next) ==
    /\ sender = registryOwner
    /\ protocolTreasury' = next
    /\ UNCHANGED <<balances, caches, sessionVars, settlementOperator, recordUsageRole,
                   rates, custody, registryView, oracleView>>

SetProtocolFeeBps(sender, bps) ==
    /\ sender = registryOwner
    /\ bps <= MAX_PROTOCOL_FEE_BPS
    /\ protocolFeeBps' = bps
    /\ UNCHANGED <<balances, caches, sessionVars, roles, teePriceMultiplierBps, custody,
                   registryView, oracleView>>

-------------------------------------------------------------------------------
\* Money in and out.

\* The native transfer that ends the three withdrawals: it fails, and with it
\* the whole call, when the contract holds too little native.
PayNative(amountInternal) ==
    LET native == InternalToNative(amountInternal)
    IN  /\ native <= nativeBalance
        /\ nativeBalance' = nativeBalance - native

\* Mutant: the treasury is paid without lowering internalCirculating, as the
\* comment on that counter would have it.
WithdrawProtocolDotKeepsCirculating(sender, amount) ==
    /\ sender = protocolTreasury
    /\ amount \in 1..protocolBalances
    /\ protocolBalances' = protocolBalances - amount
    /\ PayNative(amount)
    /\ UNCHANGED <<dotBalances, providerBalances, caches, sessionVars, roles, rates,
                   usdcCredited, registryView, oracleView>>

WithdrawProtocolDot(sender, amount) ==
    /\ sender = protocolTreasury
    /\ amount \in 1..protocolBalances
    /\ protocolBalances' = protocolBalances - amount
    /\ internalCirculating' = internalCirculating - amount
    /\ PayNative(amount)
    /\ UNCHANGED <<dotBalances, providerBalances, totalLockedInternal,
                   openSessionCountByNode, sessionVars, roles, rates, usdcCredited,
                   registryView, oracleView>>

DepositDot(sender, value) ==
    LET credited == NativeToInternal(value)
    IN  /\ value > 0
        /\ nativeBalance + value <= MaxNative
        /\ internalCirculating + credited <= MaxCirculating
        /\ dotBalances' = [dotBalances EXCEPT ![sender] = @ + credited]
        /\ internalCirculating' = internalCirculating + credited
        /\ nativeBalance' = nativeBalance + value
        /\ UNCHANGED <<providerBalances, protocolBalances, totalLockedInternal,
                       openSessionCountByNode, sessionVars, roles, rates, usdcCredited,
                       registryView, oracleView>>

WithdrawDot(sender, amount) ==
    /\ amount \in 1..dotBalances[sender]
    /\ dotBalances' = [dotBalances EXCEPT ![sender] = @ - amount]
    /\ internalCirculating' = internalCirculating - amount
    /\ PayNative(amount)
    /\ UNCHANGED <<providerBalances, protocolBalances, totalLockedInternal,
                   openSessionCountByNode, sessionVars, roles, rates, usdcCredited,
                   registryView, oracleView>>

\* _depositUsdcAsDot.  The age bound and minOut are the caller's own; a caller
\* that passes type(uint256).max and 0 switches both off, so they forbid no step.
DepositUsdcAsDot(sender, usdcAmount) ==
    /\ usdcAmount > 0
    /\ usdcPerDot # NoRate
    /\ usdcPerDot # 0
    /\ LET credited == (usdcAmount * USDC_UNIT) \div usdcPerDot
       IN  /\ credited > 0
           /\ internalCirculating + credited <= MaxCirculating
           /\ usdcCredited + credited <= MaxUsdcCredited
           /\ dotBalances' = [dotBalances EXCEPT ![sender] = @ + credited]
           /\ internalCirculating' = internalCirculating + credited
           /\ usdcCredited' = usdcCredited + credited
    /\ UNCHANGED <<providerBalances, protocolBalances, totalLockedInternal,
                   openSessionCountByNode, sessionVars, roles, rates, nativeBalance,
                   registryView, oracleView>>

WithdrawProviderDot(sender, nodeId, amount) ==
    /\ nodeOperator[nodeId] = sender
    /\ amount \in 1..providerBalances[nodeId]
    /\ providerBalances' = [providerBalances EXCEPT ![nodeId] = @ - amount]
    /\ internalCirculating' = internalCirculating - amount
    /\ PayNative(amount)
    /\ UNCHANGED <<dotBalances, protocolBalances, totalLockedInternal,
                   openSessionCountByNode, sessionVars, roles, rates, usdcCredited,
                   registryView, oracleView>>

\* receive(): native arrives and nobody is credited.
Receive(value) ==
    /\ nativeBalance + value <= MaxNative
    /\ nativeBalance' = nativeBalance + value
    /\ UNCHANGED <<balances, caches, sessionVars, roles, rates, usdcCredited,
                   registryView, oracleView>>

-------------------------------------------------------------------------------
\* Sessions.

\* _fundLockedSession: no msg.value takes the lock from the free balance;
\* otherwise msg.value must be the lock's native worth, rounded down.
FundLockedSession(sender, amount, value) ==
    \/ /\ value = 0
       /\ amount <= dotBalances[sender]
       /\ dotBalances' = [dotBalances EXCEPT ![sender] = @ - amount]
       /\ UNCHANGED <<internalCirculating, nativeBalance>>
    \/ /\ value > 0
       /\ value = InternalToNative(amount)
       /\ nativeBalance + value <= MaxNative
       /\ internalCirculating + amount <= MaxCirculating
       /\ internalCirculating' = internalCirculating + amount
       /\ nativeBalance' = nativeBalance + value
       /\ UNCHANGED dotBalances

OpenSession(sender, nodeId, tier, modelId, amount, value) ==
    /\ amount > 0
    /\ tier \in supportedTiers[nodeId]
    /\ effectivePrice[modelId] # NoPrice
    /\ usdcPerDot # NoRate
    /\ nextSessionId < MaxSessions
    /\ nextSessionId' = nextSessionId + 1
    /\ sessionById' = [sessionById EXCEPT
            ![nextSessionId] = NewSession(sender, nodeId, modelId, tier, amount)]
    /\ totalLockedInternal' = totalLockedInternal + amount
    /\ openSessionCountByNode' = [openSessionCountByNode EXCEPT ![nodeId] = @ + 1]
    /\ FundLockedSession(sender, amount, value)
    /\ UNCHANGED <<providerBalances, protocolBalances, roles, rates, usdcCredited,
                   registryView, oracleView>>

\* The session record after one usage report.
Metered(s, cost, inDelta, outDelta) ==
    [s EXCEPT !.usageRecorded = s.usageRecorded + cost,
              !.inputTokensRecorded = s.inputTokensRecorded + Uint64(inDelta),
              !.outputTokensRecorded = s.outputTokensRecorded + Uint64(outDelta)]

\* Mutant: usage is still accepted on a settled session.
RecordUsageAfterSettle(sender, id, inDelta, outDelta) ==
    LET s == sessionById[id]
        cost == UsageCost(s.tier, effectivePrice[s.modelId], inDelta, outDelta)
    IN  /\ s.user # NoAccount
        /\ sender = recordUsageRole \/ sender = nodeOperator[s.nodeId]
        /\ inDelta > 0 \/ outDelta > 0
        /\ effectivePrice[s.modelId] # NoPrice
        /\ s.usageRecorded + cost <= MaxUsage
        /\ s.inputTokensRecorded + Uint64(inDelta) < TOKEN_MOD
        /\ s.outputTokensRecorded + Uint64(outDelta) < TOKEN_MOD
        /\ sessionById' = [sessionById EXCEPT ![id] = Metered(s, cost, inDelta, outDelta)]
        /\ UNCHANGED <<balances, caches, nextSessionId, roles, rates, custody,
                       registryView, oracleView>>

RecordUsage(sender, id, inDelta, outDelta) ==
    LET s == sessionById[id]
        cost == UsageCost(s.tier, effectivePrice[s.modelId], inDelta, outDelta)
    IN  /\ s.user # NoAccount
        /\ sender = recordUsageRole \/ sender = nodeOperator[s.nodeId]
        /\ ~s.settled
        /\ inDelta > 0 \/ outDelta > 0
        /\ effectivePrice[s.modelId] # NoPrice
        /\ s.usageRecorded + cost <= MaxUsage
        /\ s.inputTokensRecorded + Uint64(inDelta) < TOKEN_MOD
        /\ s.outputTokensRecorded + Uint64(outDelta) < TOKEN_MOD
        /\ sessionById' = [sessionById EXCEPT ![id] = Metered(s, cost, inDelta, outDelta)]
        /\ UNCHANGED <<balances, caches, nextSessionId, roles, rates, custody,
                       registryView, oracleView>>

\* Mutant: the payout is compared with the usage alone, not with what was
\* already paid out of it by an earlier partial settle.
SplitAllowedForgetsPaid(s, toProvider, toUser, mustDrain) ==
    /\ IF mustDrain THEN toProvider + toUser = s.lockedInternal
                    ELSE toProvider + toUser \in 1..s.lockedInternal
    /\ toProvider <= s.usageRecorded

\* Mutant: a session cannot close before its usage is paid in full.
SplitAllowedPaysAll(s, toProvider, toUser, mustDrain) ==
    /\ IF mustDrain THEN toProvider + toUser = s.lockedInternal
                    ELSE toProvider + toUser \in 1..s.lockedInternal
    /\ s.paidToProviderInternal + toProvider <= s.usageRecorded
    /\ mustDrain => s.paidToProviderInternal + toProvider = s.usageRecorded

\* The checks _settle makes on the split.
SplitAllowed(s, toProvider, toUser, mustDrain) ==
    /\ IF mustDrain THEN toProvider + toUser = s.lockedInternal
                    ELSE toProvider + toUser \in 1..s.lockedInternal
    /\ s.paidToProviderInternal + toProvider <= s.usageRecorded

\* Mutant: the record keeps only the last payout, not the sum of all of them.
ReleasedLastPayout(s, toProvider, toUser) ==
    [s EXCEPT !.lockedInternal = s.lockedInternal - (toProvider + toUser),
              !.paidToProviderInternal = toProvider,
              !.paidToProtocolInternal = s.paidToProtocolInternal + ProtocolFee(toProvider),
              !.settled = (s.lockedInternal = toProvider + toUser)]

\* The session record after a settle; the drained session is settled.
Released(s, toProvider, toUser) ==
    [s EXCEPT !.lockedInternal = s.lockedInternal - (toProvider + toUser),
              !.paidToProviderInternal = s.paidToProviderInternal + toProvider,
              !.paidToProtocolInternal = s.paidToProtocolInternal + ProtocolFee(toProvider),
              !.settled = (s.lockedInternal = toProvider + toUser)]

\* Mutant: the open-session counter drops on every settle, not only on the one
\* that drains the lock.
CloseCountAlways(s, toProvider, toUser) ==
    /\ openSessionCountByNode[s.nodeId] > 0
    /\ openSessionCountByNode' = [openSessionCountByNode EXCEPT ![s.nodeId] = @ - 1]

\* The counter drops when the lock is drained; a zero counter reverts the call.
CloseCount(s, toProvider, toUser) ==
    IF s.lockedInternal = toProvider + toUser
    THEN /\ openSessionCountByNode[s.nodeId] > 0
         /\ openSessionCountByNode' = [openSessionCountByNode EXCEPT ![s.nodeId] = @ - 1]
    ELSE UNCHANGED openSessionCountByNode

\* Mutant: the provider is credited the gross payout and the fee comes on top.
PayProviderGross(nodeId, toProvider) ==
    /\ providerBalances' = [providerBalances EXCEPT ![nodeId] = @ + toProvider]
    /\ protocolBalances' = protocolBalances + ProtocolFee(toProvider)

PayProvider(nodeId, toProvider) ==
    /\ providerBalances' = [providerBalances EXCEPT
                               ![nodeId] = @ + (toProvider - ProtocolFee(toProvider))]
    /\ protocolBalances' = protocolBalances + ProtocolFee(toProvider)

\* Mutant: only the provider's part is taken off the cached sum of locks.
UnlockProviderPart(toProvider, toUser) ==
    totalLockedInternal' = totalLockedInternal - toProvider

Unlock(toProvider, toUser) ==
    totalLockedInternal' = totalLockedInternal - (toProvider + toUser)

\* _settle, after the caller's authorisation.
Settle(id, toProvider, toUser, mustDrain) ==
    LET s == sessionById[id]
    IN  /\ s.user # NoAccount
        /\ ~s.settled
        /\ SplitAllowed(s, toProvider, toUser, mustDrain)
        /\ PayProvider(s.nodeId, toProvider)
        /\ sessionById' = [sessionById EXCEPT ![id] = Released(s, toProvider, toUser)]
        /\ Unlock(toProvider, toUser)
        /\ dotBalances' = [dotBalances EXCEPT ![s.user] = @ + toUser]
        /\ CloseCount(s, toProvider, toUser)
        /\ UNCHANGED <<internalCirculating, nextSessionId, roles, rates, custody,
                       registryView, oracleView>>

\* settlePartial / settleFull: the session user, the escape hatch.
SettleByUser(sender, id, toProvider, toUser, mustDrain) ==
    /\ sender = sessionById[id].user
    /\ Settle(id, toProvider, toUser, mustDrain)

\* settleByOperatorPartial / settleByOperatorFull.
SettleByOperator(sender, id, toProvider, toUser, mustDrain) ==
    /\ sender = settlementOperator
    /\ Settle(id, toProvider, toUser, mustDrain)

-------------------------------------------------------------------------------
\* The registry and the oracles, seen from the escrow.

RegistryChanges(n, op, tiers) ==
    /\ nodeOperator' = [nodeOperator EXCEPT ![n] = op]
    /\ supportedTiers' = [supportedTiers EXCEPT ![n] = tiers]
    /\ UNCHANGED <<balances, caches, sessionVars, roles, rates, custody,
                   registryOwner, oracleView>>

RegistryOwnerChanges(owner) ==
    /\ registryOwner' = owner
    /\ UNCHANGED <<balances, caches, sessionVars, roles, rates, custody,
                   nodeOperator, supportedTiers, oracleView>>

ModelPriceChanges(m, price) ==
    /\ effectivePrice' = [effectivePrice EXCEPT ![m] = price]
    /\ UNCHANGED <<balances, caches, sessionVars, roles, rates, custody,
                   registryView, usdcPerDot>>

RateChanges(rate) ==
    /\ usdcPerDot' = rate
    /\ UNCHANGED <<balances, caches, sessionVars, roles, rates, custody,
                   registryView, effectivePrice>>

-------------------------------------------------------------------------------
Governance ==
    \E sender \in Accounts :
        \/ \E bps \in TeeMultiplierChoices : SetTeePriceMultiplierBps(sender, bps)
        \/ \E bps \in FeeBpsChoices : SetProtocolFeeBps(sender, bps)
        \/ \E a \in RoleChoices : SetSettlementOperator(sender, a)
        \/ \E a \in RoleChoices : SetRecordUsage(sender, a)
        \/ \E a \in RoleChoices : SetProtocolTreasury(sender, a)

MoneyMoves ==
    \/ \E sender \in Accounts, value \in 1..MaxNative : DepositDot(sender, value)
    \/ \E value \in Gifts : Receive(value)
    \/ \E sender \in Accounts, amount \in UsdcAmounts : DepositUsdcAsDot(sender, amount)
    \/ \E sender \in Accounts, amount \in Amounts : WithdrawDot(sender, amount)
    \/ \E sender \in Accounts, amount \in Amounts : WithdrawProtocolDot(sender, amount)
    \/ \E sender \in Accounts, n \in Nodes, amount \in Amounts :
           WithdrawProviderDot(sender, n, amount)

SessionMoves ==
    \E sender \in Accounts :
        \/ \E n \in Nodes, t \in Tier, m \in Models, amount \in Amounts,
              value \in 0..MaxNative : OpenSession(sender, n, t, m, amount, value)
        \/ \E id \in SessionIds, d \in TokenDeltas : RecordUsage(sender, id, d[1], d[2])
        \/ \E id \in SessionIds, p \in 0..MaxUsage, u \in 0..MaxCirculating,
              mustDrain \in BOOLEAN : SettleByUser(sender, id, p, u, mustDrain)
        \/ \E id \in SessionIds, p \in 0..MaxUsage, u \in 0..MaxCirculating,
              mustDrain \in BOOLEAN : SettleByOperator(sender, id, p, u, mustDrain)

OutsideMoves ==
    \/ \E n \in Nodes, op \in OperatorChoices, ts \in TierChoices : RegistryChanges(n, op, ts)
    \/ \E a \in OwnerChoices : RegistryOwnerChanges(a)
    \/ \E m \in Models, p \in PriceChoices : ModelPriceChanges(m, p)
    \/ \E r \in RateChoices : RateChanges(r)

Next == Governance \/ MoneyMoves \/ SessionMoves \/ OutsideMoves

Spec == Init /\ [][Next]_vars

\* A session user who keeps using the escape hatch: settleFull with the whole
\* lock refunded.  The contract can guarantee nothing to a user who never calls.
UserExit(id) ==
    LET s == sessionById[id]
    IN  /\ s.user # NoAccount
        /\ SettleByUser(s.user, id, 0, s.lockedInternal, TRUE)

FairSpec == Spec /\ \A id \in SessionIds : WF_vars(UserExit(id))

-------------------------------------------------------------------------------
\* Properties.

Locks == [id \in SessionIds |-> sessionById[id].lockedInternal]
Fees  == [id \in SessionIds |-> sessionById[id].paidToProtocolInternal]
NetPaid(n) ==
    [id \in SessionIds |->
        IF sessionById[id].nodeId = n
        THEN sessionById[id].paidToProviderInternal - sessionById[id].paidToProtocolInternal
        ELSE 0]
OpenSessionsOf(n) ==
    {id \in SessionIds : /\ sessionById[id].user # NoAccount
                         /\ ~sessionById[id].settled
                         /\ sessionById[id].nodeId = n}

\* Every internal DOT in circulation is in exactly one of the four places it can
\* be withdrawn or settled from: free balances, locks, earnings, fees.  This is
\* what contracts/test/SettlementEscrow.invariants.t.sol fuzzes for one user.
CirculatingConserved ==
    internalCirculating = Total(dotBalances, Accounts) + totalLockedInternal
                          + Total(providerBalances, Nodes) + protocolBalances

\* The cached totalLockedInternal is the sum of the locks of all sessions, through
\* every mix of opens, partial and full settles by user and operator.
LocksConserved == totalLockedInternal = Total(Locks, SessionIds)

\* The counter markDefunct relies on counts the unsettled sessions of each node:
\* it drops once per session, however many partial settles lead to the last one
\* (so the underflow revert of _settle can never block a settle).
OpenCountsMatch ==
    \A n \in Nodes : openSessionCountByNode[n] = Cardinality(OpenSessionsOf(n))

\* The books of each session: settled exactly when its lock is drained; what left
\* the lock covers what was paid; the provider is never paid beyond the recorded
\* usage, over any sequence of partial settles; fees come out of the payout.
SessionBooks ==
    \A id \in SessionIds :
        LET s == sessionById[id]
        IN  /\ s.user # NoAccount => (s.settled <=> s.lockedInternal = 0)
            /\ s.lockedInternal + s.paidToProviderInternal <= s.openingInternal
            /\ s.paidToProviderInternal <= s.usageRecorded
            /\ s.paidToProtocolInternal <= s.paidToProviderInternal

\* What a node can withdraw was paid, net of fees, by sessions opened on that very
\* node, and what the treasury can withdraw by the fees of all sessions.
EarningsAttributed ==
    /\ \A n \in Nodes : providerBalances[n] <= Total(NetPaid(n), SessionIds)
    /\ protocolBalances <= Total(Fees, SessionIds)

\* How far native custody can fall behind the liabilities: by what was credited
\* against USDC, and by less than one native unit per session funded with
\* msg.value (_internalToNative rounds the price of the lock down).
ShortfallBounded ==
    internalCirculating <= nativeBalance * NATIVE_UNIT + usdcCredited
                           + (NATIVE_UNIT - 1) * nextSessionId

\* What one step may do to one session.
SessionAdvances(id) ==
    LET s == sessionById[id]
    IN  /\ s.settled => sessionById'[id] = s
        /\ s.user # NoAccount =>
             /\ sessionById'[id].user = s.user
             /\ sessionById'[id].nodeId = s.nodeId
             /\ sessionById'[id].openingInternal = s.openingInternal
             /\ sessionById'[id].lockedInternal <= s.lockedInternal
             /\ sessionById'[id].usageRecorded >= s.usageRecorded
             /\ sessionById'[id].paidToProviderInternal >= s.paidToProviderInternal

\* A settled session is frozen: no call moves its money, adds usage or reopens it;
\* and no call ever changes whose session it is or lowers what was recorded.
SessionsOnlyAdvance == [][\A id \in SessionIds : SessionAdvances(id)]_vars

\* The escape hatch: whatever the operator, the registry, the oracles and
\* governance do or fail to do, a user who keeps calling settleFull gets every
\* session closed.
EscapeHatch ==
    \A id \in SessionIds :
        (sessionById[id].user # NoAccount) ~> sessionById[id].settled
===============================================================================
