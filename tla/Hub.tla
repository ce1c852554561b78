---------------------------------- MODULE Hub ----------------------------------
(***************************************************************************)
(* The registry and the escrow deployed side by side.  Each was specified  *)
(* against an environment that stands for the other; here the escrow asks  *)
(* the real registry for owner, operator and tiers, and the registry's     *)
(* markDefunct reads the real escrow's openSessionCountByNode.  A step is  *)
(* one transaction on one of the two contracts, or a move of the oracles.  *)
(***************************************************************************)
EXTENDS ProviderRegistry

CONSTANTS
    Models, NoNode, NoModel, NoPrice, NoRate,
    MaxSessions, MaxCirculating, MaxUsage, MaxNative, MaxUsdcCredited,
    Amounts, UsdcAmounts, Gifts, TokenDeltas,
    NATIVE_UNIT, USDC_UNIT, PRICE_TOKENS, TOKEN_MOD, BPS_DENOM,
    MIN_TEE_MULTIPLIER_BPS, MAX_TEE_MULTIPLIER_BPS, MAX_PROTOCOL_FEE_BPS,
    DefaultTeeMultiplierBps, DefaultFeeBps, TeeMultiplierChoices, FeeBpsChoices,
    DeployedRole, RoleChoices, PriceChoices, RateChoices

VARIABLES
    dotBalances, providerBalances, protocolBalances, totalLockedInternal,
    internalCirculating, nextSessionId, sessionById, settlementOperator,
    recordUsageRole, protocolTreasury, protocolFeeBps, teePriceMultiplierBps,
    nativeBalance, usdcCredited, effectivePrice, usdcPerDot

\* The escrow, with the registry's answers for its view of the registry.
Escrow == INSTANCE SettlementEscrow
    WITH registryOwner   <- owner,
         supportedTiers  <- [n \in Nodes |-> {t \in SecurityTier : SupportsTier(n, t)}],
         OwnerChoices    <- Accounts,
         OperatorChoices <- Accounts \cup {NoAccount},
         TierChoices     <- SUBSET SecurityTier

\* The escrow is deployed with constants it was specified for.
ASSUME EscrowAssumption ==
    /\ Escrow!AccountAssumption
    /\ Escrow!FiniteAssumption
    /\ Escrow!AmountAssumption
    /\ Escrow!ScaleAssumption

\* The escrow's variables other than the one it shares with the registry.
escrowOwn == <<dotBalances, providerBalances, protocolBalances, totalLockedInternal,
               internalCirculating, nextSessionId, sessionById, settlementOperator,
               recordUsageRole, protocolTreasury, protocolFeeBps, teePriceMultiplierBps,
               nativeBalance, usdcCredited, effectivePrice, usdcPerDot>>
hubVars == <<vars, escrowOwn>>

HubInit == RegistryInit /\ Escrow!Init

RegistryStep ==
    /\ RegistryMoves
    /\ UNCHANGED <<openSessionCountByNode, escrowOwn>>

EscrowStep ==
    /\ UNCHANGED registryVars
    /\ \/ Escrow!Governance
       \/ Escrow!MoneyMoves
       \/ Escrow!SessionMoves
       \/ \E m \in Models, p \in PriceChoices : Escrow!ModelPriceChanges(m, p)
       \/ \E r \in RateChoices : Escrow!RateChanges(r)

HubNext == RegistryStep \/ EscrowStep

HubSpec == HubInit /\ [][HubNext]_hubVars

-------------------------------------------------------------------------------
\* Properties.

\* The escrow in its real surroundings is the escrow of SettlementEscrow: what is
\* proved there of all answers the registry could give holds of the Hub.
EscrowSpec == Escrow!Spec

\* A node that is defunct or unregistered has no unsettled session: with the
\* escrow wired at deployment, no order of opens, settles, chills and purges in
\* the two contracts lets markDefunct pass a node that still owes work.
DefunctNodesDrained ==
    \A n \in Nodes :
        (nodes[n].lifecycle = "Defunct" \/ nodeOperator[n] = NoAccount)
            => Escrow!OpenSessionsOf(n) = {}

===============================================================================
