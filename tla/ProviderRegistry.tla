--------------------------- MODULE ProviderRegistry ---------------------------
(***************************************************************************)
(* The Hub EVM contract contracts/src/ProviderRegistry.sol: who operates   *)
(* which node, the rundown Active -> Chilled -> Defunct -> purged, and the *)
(* versioned encryption keys.  A reverting call is a disabled action.      *)
(*                                                                         *)
(* The settlement escrow is seen only through openSessionCountByNode; in   *)
(* the module Hub that variable is the real escrow's.                      *)
(***************************************************************************)
EXTENDS Integers, FiniteSets, Sequences

CONSTANTS
    Accounts, NoAccount,    \* EVM addresses that send transactions, address(0)
    Nodes,                  \* node ids other than bytes32(0)
    HubEscrow,              \* the deployed SettlementEscrow
    InitialOwner, InitialAttestationService,  \* arguments of the constructor
    InitialEscrow,          \* what setSettlementEscrow was given at deployment
    OwnerArgs,              \* arguments of transferOwnership
    ServiceArgs,            \* arguments of setAttestationService
    EscrowArgs,             \* arguments of setSettlementEscrow
    PayoutArgs,             \* payout addresses named by operators
    TierFlags,              \* <<supportsBestEffort, supportsTEE>> named at registration
    Hashes, NoHash,         \* TEE report hashes, bytes32(0)
    Pubkeys, NoKey,         \* X25519 public keys, bytes32(0)
    FeeArgs,                \* arguments of setNodeFee
    Uris, NoUri,            \* metadata URIs, the empty string
    GracePeriods,           \* arguments of rotateEncryptionKey
    MaxVersion,             \* bound: encryption key versions per node
    MaxTime,                \* bound: block timestamps
    MAX_UINT64,             \* the last timestamp a deadline can hold
    MaxOpen                 \* bound: open sessions the escrow reports

Addresses == Accounts \cup {NoAccount}
Lifecycle == {"Active", "Chilled", "Defunct"}
SecurityTier == {"BEST_EFFORT", "TEE_VERIFIED"}
Versions == 1..MaxVersion

ASSUME RegistryAddressAssumption ==
    /\ NoAccount \notin Accounts
    /\ InitialOwner \in Accounts
    /\ InitialAttestationService \in Addresses
    /\ OwnerArgs \subseteq Addresses
    /\ ServiceArgs \subseteq Addresses
    /\ PayoutArgs \subseteq Addresses
    /\ TierFlags \subseteq BOOLEAN \X BOOLEAN
    /\ HubEscrow # NoAccount
    /\ IsFiniteSet(Nodes)

ASSUME RegistryDataAssumption ==
    /\ NoHash \notin Hashes
    /\ NoKey \notin Pubkeys
    /\ NoUri \notin Uris
    /\ FeeArgs \subseteq Nat
    /\ GracePeriods \subseteq Nat
    /\ MaxVersion \in Nat
    /\ MaxTime \in Nat \ {0}
    /\ MAX_UINT64 \in Nat
    /\ MaxOpen \in Nat

VARIABLES
    owner, attestationService, settlementEscrow,
    nodes,                  \* [Nodes -> NodeInfo]
    nodeOperator,           \* [Nodes -> Addresses]
    operatorNodes,          \* [Accounts -> Seq(Nodes)], the internal _operatorNodes
    encryptionKeys,         \* [Nodes -> [Versions -> EncryptionKey]]
    blockTimestamp,         \* block.timestamp
    openSessionCountByNode  \* the escrow's answer, [Nodes -> Nat]

admin == <<owner, attestationService, settlementEscrow>>
index == <<nodeOperator, operatorNodes>>
registryVars == <<admin, nodes, index, encryptionKeys, blockTimestamp>>
vars == <<registryVars, openSessionCountByNode>>

NodeInfo == [payout : Addresses, feeBps : Nat, active : BOOLEAN,
             supportsBestEffort : BOOLEAN, supportsTEE : BOOLEAN,
             teeReportHash : Hashes \cup {NoHash}, metadataURI : Uris \cup {NoUri},
             lifecycle : Lifecycle, encryptionPubkey : Pubkeys \cup {NoKey},
             encryptionKeyVersion : 0..MaxVersion,
             encryptionKeysLastVersion : 0..MaxVersion]

EncryptionKey == [pubkey : Pubkeys \cup {NoKey}, activatedAt : Nat, deprecatedAt : Nat,
                  revoked : BOOLEAN]

\* Storage that was never written, or was deleted.
NoNodeInfo ==
    [payout |-> NoAccount, feeBps |-> 0, active |-> FALSE, supportsBestEffort |-> FALSE,
     supportsTEE |-> FALSE, teeReportHash |-> NoHash, metadataURI |-> NoUri,
     lifecycle |-> "Active", encryptionPubkey |-> NoKey, encryptionKeyVersion |-> 0,
     encryptionKeysLastVersion |-> 0]
NoEncryptionKey ==
    [pubkey |-> NoKey, activatedAt |-> 0, deprecatedAt |-> 0, revoked |-> FALSE]

FreshKey(pubkey) ==
    [pubkey |-> pubkey, activatedAt |-> blockTimestamp, deprecatedAt |-> 0, revoked |-> FALSE]

\* The escrow's and the aggregators' eligibility test.
SupportsTier(n, tier) ==
    LET info == nodes[n]
    IN  /\ info.lifecycle = "Active"
        /\ info.active
        /\ info.payout # NoAccount
        /\ IF tier = "BEST_EFFORT"
           THEN info.supportsBestEffort
           ELSE info.supportsTEE /\ info.teeReportHash # NoHash

\* Every record, index entry and key slot holds values the contract can store.
RegistryTypeOK ==
    /\ owner \in Accounts
    /\ attestationService \in Addresses
    /\ settlementEscrow \in {NoAccount, HubEscrow} \cup EscrowArgs \cup {InitialEscrow}
    /\ nodes \in [Nodes -> NodeInfo]
    /\ nodeOperator \in [Nodes -> Addresses]
    /\ operatorNodes \in [Accounts -> Seq(Nodes)]
    /\ encryptionKeys \in [Nodes -> [Versions -> EncryptionKey]]
    /\ blockTimestamp \in 1..MaxTime
    /\ openSessionCountByNode \in [Nodes -> Nat]

RegistryInit ==
    /\ owner = InitialOwner
    /\ attestationService = InitialAttestationService
    /\ settlementEscrow = InitialEscrow
    /\ nodes = [n \in Nodes |-> NoNodeInfo]
    /\ nodeOperator = [n \in Nodes |-> NoAccount]
    /\ operatorNodes = [a \in Accounts |-> <<>>]
    /\ encryptionKeys = [n \in Nodes |-> [v \in Versions |-> NoEncryptionKey]]
    /\ blockTimestamp = 1

-------------------------------------------------------------------------------
\* The owner's calls.

\* Mutant: the zero address is accepted as the next owner.
TransferOwnershipToZero(sender, newOwner) ==
    /\ sender = owner
    /\ owner' = newOwner
    /\ UNCHANGED <<attestationService, settlementEscrow, nodes, index, encryptionKeys,
                   blockTimestamp>>

TransferOwnership(sender, newOwner) ==
    /\ sender = owner
    /\ newOwner # NoAccount
    /\ owner' = newOwner
    /\ UNCHANGED <<attestationService, settlementEscrow, nodes, index, encryptionKeys,
                   blockTimestamp>>

SetAttestationService(sender, next) ==
    /\ sender = owner
    /\ attestationService' = next
    /\ UNCHANGED <<owner, settlementEscrow, nodes, index, encryptionKeys, blockTimestamp>>

SetSettlementEscrow(sender, escrow) ==
    /\ sender = owner
    /\ settlementEscrow' = escrow
    /\ UNCHANGED <<owner, attestationService, nodes, index, encryptionKeys, blockTimestamp>>

SetNodeFee(sender, n, feeBps) ==
    /\ sender = owner
    /\ nodeOperator[n] # NoAccount
    /\ nodes' = [nodes EXCEPT ![n].feeBps = feeBps]
    /\ UNCHANGED <<admin, index, encryptionKeys, blockTimestamp>>

-------------------------------------------------------------------------------
\* Registration and the operator's calls.

RegisterNode(sender, n, payout, bestEffort, tee, uri, pubkey) ==
    LET version == IF pubkey = NoKey THEN 0 ELSE 1
    IN  /\ nodeOperator[n] = NoAccount
        /\ version <= MaxVersion
        /\ nodeOperator' = [nodeOperator EXCEPT ![n] = sender]
        /\ operatorNodes' = [operatorNodes EXCEPT ![sender] = Append(@, n)]
        /\ nodes' = [nodes EXCEPT ![n] =
               [payout |-> IF payout = NoAccount THEN sender ELSE payout,
                feeBps |-> 0, active |-> TRUE, supportsBestEffort |-> bestEffort,
                supportsTEE |-> tee, teeReportHash |-> NoHash, metadataURI |-> uri,
                lifecycle |-> "Active", encryptionPubkey |-> pubkey,
                encryptionKeyVersion |-> version, encryptionKeysLastVersion |-> version]]
        /\ encryptionKeys' = IF pubkey = NoKey THEN encryptionKeys
                             ELSE [encryptionKeys EXCEPT ![n][1] = FreshKey(pubkey)]
        /\ UNCHANGED <<admin, blockTimestamp>>

\* Mutant: the next version follows the current one, which a revoke resets to 0.
NewVersionAfterCurrent(n) == nodes[n].encryptionKeyVersion + 1

\* The next version is one past the last ever issued, not past the current one: a
\* revoked current version is never issued again.
NewVersion(n) == nodes[n].encryptionKeysLastVersion + 1

\* The key table of n with a deadline on its current version, if it has one.
Deprecated(n, gracePeriod) ==
    LET cur == nodes[n].encryptionKeyVersion
    IN  IF cur = 0 THEN encryptionKeys[n]
        ELSE [encryptionKeys[n] EXCEPT ![cur].deprecatedAt = blockTimestamp + gracePeriod]

RotateEncryptionKey(sender, n, pubkey, gracePeriod) ==
    /\ sender = nodeOperator[n]
    /\ pubkey # NoKey
    /\ NewVersion(n) <= MaxVersion
    /\ nodes[n].encryptionKeyVersion > 0 => blockTimestamp + gracePeriod <= MAX_UINT64
    /\ encryptionKeys' = [encryptionKeys EXCEPT ![n] =
           [Deprecated(n, gracePeriod) EXCEPT ![NewVersion(n)] = FreshKey(pubkey)]]
    /\ nodes' = [nodes EXCEPT ![n].encryptionPubkey = pubkey,
                              ![n].encryptionKeyVersion = NewVersion(n),
                              ![n].encryptionKeysLastVersion = NewVersion(n)]
    /\ UNCHANGED <<admin, index, blockTimestamp>>

\* Revoking the current version also clears the headline key.
RevokeEncryptionKey(sender, n, version) ==
    /\ sender = nodeOperator[n]
    /\ encryptionKeys[n][version].pubkey # NoKey \/ encryptionKeys[n][version].activatedAt # 0
    /\ ~encryptionKeys[n][version].revoked
    /\ encryptionKeys' = [encryptionKeys EXCEPT ![n][version].revoked = TRUE]
    /\ IF nodes[n].encryptionKeyVersion = version
       THEN nodes' = [nodes EXCEPT ![n].encryptionPubkey = NoKey,
                                   ![n].encryptionKeyVersion = 0]
       ELSE UNCHANGED nodes
    /\ UNCHANGED <<admin, index, blockTimestamp>>

ChillNode(sender, n) ==
    /\ sender = nodeOperator[n]
    /\ nodes[n].lifecycle = "Active"
    /\ nodes' = [nodes EXCEPT ![n].lifecycle = "Chilled", ![n].active = FALSE]
    /\ UNCHANGED <<admin, index, encryptionKeys, blockTimestamp>>

\* Mutant: a node goes straight from Active to Defunct.
MarkDefunctAnyLifecycle(sender, n) ==
    /\ sender = nodeOperator[n]
    /\ nodes[n].lifecycle # "Defunct"
    /\ settlementEscrow # NoAccount
    /\ settlementEscrow = HubEscrow => openSessionCountByNode[n] = 0
    /\ nodes' = [nodes EXCEPT ![n].lifecycle = "Defunct"]
    /\ UNCHANGED <<admin, index, encryptionKeys, blockTimestamp>>

\* Mutant: open sessions do not stop the rundown.
MarkDefunctUndrained(sender, n) ==
    /\ sender = nodeOperator[n]
    /\ nodes[n].lifecycle = "Chilled"
    /\ settlementEscrow # NoAccount
    /\ nodes' = [nodes EXCEPT ![n].lifecycle = "Defunct"]
    /\ UNCHANGED <<admin, index, encryptionKeys, blockTimestamp>>

\* The escrow asked is the configured one; another contract the owner may wire
\* answers for sessions of its own.
MarkDefunct(sender, n) ==
    /\ sender = nodeOperator[n]
    /\ nodes[n].lifecycle = "Chilled"
    /\ settlementEscrow # NoAccount
    /\ settlementEscrow = HubEscrow => openSessionCountByNode[n] = 0
    /\ nodes' = [nodes EXCEPT ![n].lifecycle = "Defunct"]
    /\ UNCHANGED <<admin, index, encryptionKeys, blockTimestamp>>

\* Mutant: the last entry is dropped, whichever node is removed.
WithoutLast(ids, n) == [i \in 1..(Len(ids) - 1) |-> ids[i]]

\* _removeOperatorNode: the last entry takes the place of the removed one.
Without(ids, n) ==
    LET at == CHOOSE i \in 1..Len(ids) : ids[i] = n
    IN  [i \in 1..(Len(ids) - 1) |-> IF i = at THEN ids[Len(ids)] ELSE ids[i]]

\* Mutant: only the node's own record is deleted, not its key slots.
KeysKept(n) == encryptionKeys[n]

\* The delete loop over versions 1..encryptionKeysLastVersion.
KeysDeleted(n) ==
    [v \in Versions |-> IF v <= nodes[n].encryptionKeysLastVersion
                        THEN NoEncryptionKey ELSE encryptionKeys[n][v]]

PurgeDefunctNode(sender, n) ==
    LET op == nodeOperator[n]
    IN  /\ sender = owner
        /\ op # NoAccount
        /\ nodes[n].lifecycle = "Defunct"
        /\ \E i \in 1..Len(operatorNodes[op]) : operatorNodes[op][i] = n
        /\ operatorNodes' = [operatorNodes EXCEPT ![op] = Without(@, n)]
        /\ encryptionKeys' = [encryptionKeys EXCEPT ![n] = KeysDeleted(n)]
        /\ nodes' = [nodes EXCEPT ![n] = NoNodeInfo]
        /\ nodeOperator' = [nodeOperator EXCEPT ![n] = NoAccount]
        /\ UNCHANGED <<admin, blockTimestamp>>

SetNodePayout(sender, n, payout) ==
    /\ sender = nodeOperator[n]
    /\ payout # NoAccount
    /\ nodes' = [nodes EXCEPT ![n].payout = payout]
    /\ UNCHANGED <<admin, index, encryptionKeys, blockTimestamp>>

\* No test of the lifecycle: a chilled or defunct node may be set active.
SetNodeActive(sender, n, active) ==
    /\ sender = nodeOperator[n]
    /\ nodes' = [nodes EXCEPT ![n].active = active]
    /\ UNCHANGED <<admin, index, encryptionKeys, blockTimestamp>>

SetNodeMetadata(sender, n, uri) ==
    /\ sender = nodeOperator[n]
    /\ nodes' = [nodes EXCEPT ![n].metadataURI = uri]
    /\ UNCHANGED <<admin, index, encryptionKeys, blockTimestamp>>

SetTEEProof(sender, n, hash) ==
    /\ sender = attestationService
    /\ nodeOperator[n] # NoAccount
    /\ hash # NoHash
    /\ nodes' = [nodes EXCEPT ![n].supportsTEE = TRUE, ![n].teeReportHash = hash]
    /\ UNCHANGED <<admin, index, encryptionKeys, blockTimestamp>>

-------------------------------------------------------------------------------
\* The chain's clock and the escrow's counter.

Block ==
    /\ blockTimestamp < MaxTime
    /\ blockTimestamp' = blockTimestamp + 1
    /\ UNCHANGED <<admin, nodes, index, encryptionKeys>>

OpenSessionCountChanges(n, count) ==
    /\ openSessionCountByNode' = [openSessionCountByNode EXCEPT ![n] = count]
    /\ UNCHANGED registryVars

OwnerMoves ==
    \E sender \in Accounts :
        \/ \E a \in OwnerArgs : TransferOwnership(sender, a)
        \/ \E a \in ServiceArgs : SetAttestationService(sender, a)
        \/ \E a \in EscrowArgs : SetSettlementEscrow(sender, a)
        \/ \E n \in Nodes, bps \in FeeArgs : SetNodeFee(sender, n, bps)
        \/ \E n \in Nodes : PurgeDefunctNode(sender, n)

NodeMoves ==
    \E sender \in Accounts, n \in Nodes :
        \/ \E payout \in PayoutArgs, flags \in TierFlags, uri \in Uris \cup {NoUri},
              key \in Pubkeys \cup {NoKey} :
               RegisterNode(sender, n, payout, flags[1], flags[2], uri, key)
        \/ \E key \in Pubkeys \cup {NoKey}, grace \in GracePeriods :
               RotateEncryptionKey(sender, n, key, grace)
        \/ \E v \in Versions : RevokeEncryptionKey(sender, n, v)
        \/ ChillNode(sender, n)
        \/ MarkDefunct(sender, n)
        \/ \E payout \in PayoutArgs : SetNodePayout(sender, n, payout)
        \/ \E active \in BOOLEAN : SetNodeActive(sender, n, active)
        \/ \E uri \in Uris : SetNodeMetadata(sender, n, uri)
        \/ \E hash \in Hashes \cup {NoHash} : SetTEEProof(sender, n, hash)

RegistryMoves == OwnerMoves \/ NodeMoves \/ Block

RegistryNext ==
    \/ RegistryMoves /\ UNCHANGED openSessionCountByNode
    \/ \E n \in Nodes, count \in 0..MaxOpen : OpenSessionCountChanges(n, count)

\* The registry with an escrow in which nothing is open yet.
DeployedInit == RegistryInit /\ openSessionCountByNode = [n \in Nodes |-> 0]

RegistrySpec == DeployedInit /\ [][RegistryNext]_vars

-------------------------------------------------------------------------------
\* Properties.

\* The per-operator index, which purge maintains by moving the last entry, lists
\* exactly the nodes whose operator it is, each once: no purge can hit the
\* NodeNotRegistered revert of _removeOperatorNode and strand a defunct node.
IndexMatchesOperators ==
    \A a \in Accounts :
        /\ {operatorNodes[a][i] : i \in 1..Len(operatorNodes[a])}
               = {n \in Nodes : nodeOperator[n] = a}
        /\ Len(operatorNodes[a]) = Cardinality({n \in Nodes : nodeOperator[n] = a})

\* The key book of a node: slots beyond the last version are empty, so that the
\* delete loop of purge leaves nothing to a later owner of the id; the headline
\* key is the unrevoked, undated last version or nothing; and every superseded
\* version has a deadline or was revoked, so at most one key is valid for ever.
KeyBookConsistent ==
    \A n \in Nodes :
        LET info == nodes[n]
            cur  == info.encryptionKeyVersion
            last == info.encryptionKeysLastVersion
            key  == encryptionKeys[n]
        IN  /\ nodeOperator[n] = NoAccount => info = NoNodeInfo
            /\ \A v \in Versions : key[v] = NoEncryptionKey <=> v > last
            /\ cur \in {0, last}
            /\ IF cur = 0 THEN info.encryptionPubkey = NoKey
               ELSE /\ info.encryptionPubkey = key[cur].pubkey
                    /\ key[cur].deprecatedAt = 0
                    /\ ~key[cur].revoked
            /\ \A v \in Versions :
                   (v <= last /\ v # cur) => key[v].deprecatedAt # 0 \/ key[v].revoked

\* What one step may do to one issued key version of a node that stays registered.
KeyAges(n, v) ==
    LET old == encryptionKeys[n][v]
        new == encryptionKeys'[n][v]
    IN  (old # NoEncryptionKey /\ nodeOperator'[n] = nodeOperator[n]) =>
          /\ new.pubkey = old.pubkey
          /\ new.activatedAt = old.activatedAt
          /\ old.deprecatedAt # 0 => new.deprecatedAt = old.deprecatedAt
          /\ old.revoked => new.revoked

\* While a node stays registered, an issued key version keeps its key, gets its
\* deadline at most once and never comes back from revocation.
IssuedKeysOnlyAge == [][\A n \in Nodes, v \in Versions : KeyAges(n, v)]_vars

\* What one transaction may do to the lifecycle of a node that stays registered.
RundownSteps ==
    {<<"Active", "Active">>, <<"Active", "Chilled">>, <<"Chilled", "Chilled">>,
     <<"Chilled", "Defunct">>, <<"Defunct", "Defunct">>}

\* What one step may do to the lifecycle of one node.
RunsDown(n) ==
    LET old == nodes[n].lifecycle
        new == nodes'[n].lifecycle
    IN  IF nodeOperator'[n] = nodeOperator[n]
        THEN <<old, new>> \in RundownSteps
        ELSE \/ nodeOperator[n] = NoAccount /\ new = "Active"
             \/ nodeOperator'[n] = NoAccount /\ old = "Defunct"

\* The rundown only moves forward, one stage at a time, and an operator leaves a
\* node only by the purge of a defunct one.
RundownInOrder == [][\A n \in Nodes : RunsDown(n)]_vars
===============================================================================
