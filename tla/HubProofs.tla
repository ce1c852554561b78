------------------------------- MODULE HubProofs -------------------------------
(***************************************************************************)
(* Proofs about the two contracts of the Hub, for any number of accounts,  *)
(* nodes, key versions and sessions: first the registry by itself, then    *)
(* the registry and the escrow deployed together.                          *)
(***************************************************************************)
EXTENDS Hub, FiniteSetTheorems, TLAPS

-------------------------------------------------------------------------------
\* The registry's inductive invariant.

NodesOf(a) == {n \in Nodes : nodeOperator[n] = a}

\* The list ids names each member of S once and nothing else.
Lists(ids, S) ==
    /\ ids \in Seq(Nodes)
    /\ \A i \in 1..Len(ids) : ids[i] \in S
    /\ \A n \in S : \E i \in 1..Len(ids) : ids[i] = n
    /\ \A i, j \in 1..Len(ids) : ids[i] = ids[j] => i = j

\* KeyBookConsistent for one node: its operator, its record and its key table.
Book(op, info, key) ==
    /\ op = NoAccount => info = NoNodeInfo
    /\ \A v \in Versions : key[v] = NoEncryptionKey <=> v > info.encryptionKeysLastVersion
    /\ info.encryptionKeyVersion \in {0, info.encryptionKeysLastVersion}
    /\ IF info.encryptionKeyVersion = 0 THEN info.encryptionPubkey = NoKey
       ELSE /\ info.encryptionPubkey = key[info.encryptionKeyVersion].pubkey
            /\ key[info.encryptionKeyVersion].deprecatedAt = 0
            /\ ~key[info.encryptionKeyVersion].revoked
    /\ \A v \in Versions :
           (v <= info.encryptionKeysLastVersion /\ v # info.encryptionKeyVersion)
               => key[v].deprecatedAt # 0 \/ key[v].revoked

AdminTyped ==
    /\ owner \in Accounts
    /\ attestationService \in Addresses
    /\ settlementEscrow \in {NoAccount, HubEscrow} \cup EscrowArgs \cup {InitialEscrow}
    /\ blockTimestamp \in 1..MaxTime

NodesTyped ==
    /\ nodes \in [Nodes -> NodeInfo]
    /\ nodeOperator \in [Nodes -> Addresses]
    /\ operatorNodes \in [Accounts -> Seq(Nodes)]
    /\ encryptionKeys \in [Nodes -> [Versions -> EncryptionKey]]

Indexed == \A a \in Accounts : Lists(operatorNodes[a], NodesOf(a))
Booked == \A n \in Nodes : Book(nodeOperator[n], nodes[n], encryptionKeys[n])

RegistryInv == AdminTyped /\ NodesTyped /\ Indexed /\ Booked

-------------------------------------------------------------------------------
\* Lists.

\* What registerNode does to its operator's list: push(nodeId).
LEMMA ListsAppend ==
    ASSUME NEW ids, NEW S, NEW n \in Nodes, Lists(ids, S), n \notin S
    PROVE  Lists(Append(ids, n), S \cup {n})
  <1> DEFINE new == Append(ids, n)
  <1>1. /\ new \in Seq(Nodes)
        /\ Len(new) = Len(ids) + 1
        /\ Len(ids) \in Nat
        /\ \A i \in 1..Len(ids) : new[i] = ids[i]
        /\ new[Len(ids) + 1] = n
    BY DEF Lists
  <1> HIDE DEF new
  <1>2. \A i \in 1..Len(new) : new[i] \in S \cup {n}
    BY <1>1 DEF Lists
  <1>3. ASSUME NEW m \in S \cup {n}
        PROVE  \E i \in 1..Len(new) : new[i] = m
    <2>1. CASE m = n
      BY <1>1, <2>1
    <2>2. CASE m \in S
      BY <1>1, <2>2 DEF Lists
    <2> QED
      BY <2>1, <2>2
  <1>4. ASSUME NEW i \in 1..Len(new), NEW j \in 1..Len(new), new[i] = new[j]
        PROVE  i = j
    BY <1>1, <1>4 DEF Lists
  <1> QED
    BY <1>1, <1>2, <1>3, <1>4 DEF Lists, new

\* What _removeOperatorNode does to it: the last entry moves, the list shrinks by
\* one, and only the removed node is gone.
LEMMA ListsWithout ==
    ASSUME NEW ids, NEW S, NEW n \in S, Lists(ids, S)
    PROVE  Lists(Without(ids, n), S \ {n})
  <1> DEFINE at == CHOOSE i \in 1..Len(ids) : ids[i] = n
             new == Without(ids, n)
  <1>1. /\ Len(ids) \in Nat
        /\ \A i \in 1..Len(ids) : ids[i] \in Nodes
    BY DEF Lists
  <1>2. at \in 1..Len(ids) /\ ids[at] = n
    BY DEF Lists
  <1>3. new = [i \in 1..(Len(ids) - 1) |-> IF i = at THEN ids[Len(ids)] ELSE ids[i]]
    BY DEF Without
  <1> HIDE DEF at, new
  <1>4. /\ new \in Seq(Nodes)
        /\ Len(new) = Len(ids) - 1
    BY <1>1, <1>2, <1>3
  <1>5. \A i \in 1..(Len(ids) - 1) : new[i] = IF i = at THEN ids[Len(ids)] ELSE ids[i]
    BY <1>3
  <1>6. \A i \in 1..Len(new) : new[i] \in S \ {n}
    BY <1>1, <1>2, <1>4, <1>5 DEF Lists
  <1>7. ASSUME NEW m \in S \ {n}
        PROVE  \E i \in 1..Len(new) : new[i] = m
    <2>1. PICK k \in 1..Len(ids) : ids[k] = m
      BY DEF Lists
    <2>2. k # at
      BY <1>2, <2>1
    <2>3. CASE k = Len(ids)
      BY <1>1, <1>2, <1>4, <1>5, <2>1, <2>2, <2>3
    <2>4. CASE k # Len(ids)
      BY <1>1, <1>2, <1>4, <1>5, <2>1, <2>2, <2>4
    <2> QED
      BY <2>3, <2>4
  <1>8. ASSUME NEW i \in 1..Len(new), NEW j \in 1..Len(new), new[i] = new[j]
        PROVE  i = j
    BY <1>1, <1>2, <1>4, <1>5, <1>8 DEF Lists
  <1> QED
    BY <1>4, <1>6, <1>7, <1>8 DEF Lists, new

\* A list without repetitions is as long as the set it lists is large.
LEMMA ListsCount ==
    ASSUME NEW ids, NEW S, Lists(ids, S)
    PROVE  /\ {ids[i] : i \in 1..Len(ids)} = S
           /\ Len(ids) = Cardinality(S)
  <1>1. Len(ids) \in Nat /\ ids \in [1..Len(ids) -> Nodes]
    BY DEF Lists
  <1>2. {ids[i] : i \in 1..Len(ids)} = S
    BY DEF Lists
  <1>3. ids \in Bijection(1..Len(ids), S)
    <2>1. ids \in [1..Len(ids) -> S]
      BY <1>1 DEF Lists
    <2>2. IsInjective(ids)
      BY <2>1 DEF Lists, IsInjective
    <2> QED
      BY <2>1, <2>2 DEF Lists, Bijection, Injection, Surjection
  <1>4. IsFiniteSet(1..Len(ids)) /\ Cardinality(1..Len(ids)) = Len(ids)
    BY <1>1, FS_Interval
  <1>5. Cardinality(S) = Cardinality(1..Len(ids))
    BY <1>3, <1>4, FS_Bijection DEF ExistsBijection
  <1> QED
    BY <1>2, <1>4, <1>5

-------------------------------------------------------------------------------
\* Steps of the registry.

\* The contract is deployed with empty lists and empty key books.
LEMMA RegistryStarts == RegistryInit => RegistryInv
  <1> SUFFICES ASSUME RegistryInit PROVE RegistryInv
    OBVIOUS
  <1>1. AdminTyped
    BY RegistryAddressAssumption, RegistryDataAssumption DEF RegistryInit, AdminTyped
  <1>2. NoNodeInfo \in NodeInfo
    BY RegistryDataAssumption DEF NoNodeInfo, NodeInfo, Addresses, Lifecycle
  <1>3. NoEncryptionKey \in EncryptionKey
    BY DEF NoEncryptionKey, EncryptionKey
  <1>4. NodesTyped
    BY <1>2, <1>3 DEF RegistryInit, NodesTyped, Addresses
  <1>5. Indexed
    <2> SUFFICES ASSUME NEW a \in Accounts PROVE Lists(operatorNodes[a], NodesOf(a))
      BY DEF Indexed
    <2>1. operatorNodes[a] = << >> /\ NodesOf(a) = {}
      BY RegistryAddressAssumption DEF RegistryInit, NodesOf
    <2> QED
      BY <2>1 DEF Lists
  <1>6. Booked
    <2> SUFFICES ASSUME NEW n \in Nodes
                 PROVE  Book(nodeOperator[n], nodes[n], encryptionKeys[n])
      BY DEF Booked
    <2>1. /\ nodes[n] = NoNodeInfo
          /\ \A v \in Versions : encryptionKeys[n][v] = NoEncryptionKey
      BY DEF RegistryInit
    <2> QED
      BY <2>1 DEF Book, NoNodeInfo, Versions
  <1> QED
    BY <1>1, <1>4, <1>5, <1>6 DEF RegistryInv

\* One key slot may only age: the key stays, the deadline is set once, revocation
\* is for ever.
Ages(old, new) ==
    old # NoEncryptionKey =>
        /\ new.pubkey = old.pubkey
        /\ new.activatedAt = old.activatedAt
        /\ old.deprecatedAt # 0 => new.deprecatedAt = old.deprecatedAt
        /\ old.revoked => new.revoked

\* What markDefunct asks of the escrow it is wired to.
Drained(n) ==
    /\ settlementEscrow # NoAccount
    /\ settlementEscrow = HubEscrow => openSessionCountByNode[n] = 0

\* What every call on a registered node does, except its purge: rewrite that node's
\* record and key table, leaving a book in order.
NodeStep(n, info, keys) ==
    /\ nodeOperator[n] # NoAccount
    /\ nodes' = [nodes EXCEPT ![n] = info]
    /\ encryptionKeys' = [encryptionKeys EXCEPT ![n] = keys]
    /\ UNCHANGED <<admin, index, blockTimestamp>>
    /\ Book(nodeOperator[n], info, keys)
    /\ <<nodes[n].lifecycle, info.lifecycle>> \in RundownSteps
    /\ info.lifecycle # nodes[n].lifecycle /\ info.lifecycle = "Defunct" => Drained(n)
    /\ \A v \in Versions : Ages(encryptionKeys[n][v], keys[v])

\* Such a step preserves the invariant.
LEMMA NodeKeeps ==
    ASSUME RegistryInv, NEW n \in Nodes,
           NEW info \in NodeInfo, NEW keys \in [Versions -> EncryptionKey],
           NodeStep(n, info, keys)
    PROVE  RegistryInv'
  <1>1. AdminTyped'
    BY DEF RegistryInv, AdminTyped, admin, NodeStep
  <1>2. NodesTyped'
    BY DEF RegistryInv, NodesTyped, index, NodeStep
  <1>3. Indexed'
    <2>1. Indexed /\ UNCHANGED <<nodeOperator, operatorNodes>>
      BY DEF RegistryInv, index, NodeStep
    <2> QED
      BY <2>1 DEF Indexed, NodesOf, Lists
  <1>4. ASSUME NEW m \in Nodes
        PROVE  Book(nodeOperator[m], nodes'[m], encryptionKeys'[m])
    BY DEF RegistryInv, Booked, NodesTyped, NodeStep
  <1> QED
    BY <1>1, <1>2, <1>3, <1>4 DEF RegistryInv, Booked, index, NodeStep

\* A record that keeps the three key fields keeps the book, and a call that
\* rewrites only the record is a NodeStep.
LEMMA RecordStep ==
    ASSUME RegistryInv, NEW n \in Nodes, nodeOperator[n] # NoAccount,
           NEW info \in NodeInfo, nodes' = [nodes EXCEPT ![n] = info],
           UNCHANGED <<admin, index, encryptionKeys, blockTimestamp>>,
           info.encryptionPubkey = nodes[n].encryptionPubkey,
           info.encryptionKeyVersion = nodes[n].encryptionKeyVersion,
           info.encryptionKeysLastVersion = nodes[n].encryptionKeysLastVersion,
           <<nodes[n].lifecycle, info.lifecycle>> \in RundownSteps,
           info.lifecycle # nodes[n].lifecycle /\ info.lifecycle = "Defunct" => Drained(n)
    PROVE  NodeStep(n, info, encryptionKeys[n])
  <1>1. encryptionKeys' = [encryptionKeys EXCEPT ![n] = encryptionKeys[n]]
    BY DEF RegistryInv, NodesTyped
  <1>2. Book(nodeOperator[n], info, encryptionKeys[n])
    <2>1. Book(nodeOperator[n], nodes[n], encryptionKeys[n])
      BY DEF RegistryInv, Booked
    <2> QED
      BY <2>1 DEF Book
  <1>3. \A v \in Versions : Ages(encryptionKeys[n][v], encryptionKeys[n][v])
    BY DEF Ages
  <1> QED
    BY <1>1, <1>2, <1>3 DEF NodeStep

\* A record and a key table of the right type.
SomeNodeStep(n) ==
    \E info \in NodeInfo, keys \in [Versions -> EncryptionKey] : NodeStep(n, info, keys)

\* The owner's and the operator's calls on a node's record, and the attestation
\* service's, are such steps.
LEMMA RecordCalls ==
    ASSUME RegistryInv, NEW sender \in Accounts, NEW n \in Nodes,
           \/ \E bps \in FeeArgs : SetNodeFee(sender, n, bps)
           \/ \E payout \in PayoutArgs : SetNodePayout(sender, n, payout)
           \/ \E active \in BOOLEAN : SetNodeActive(sender, n, active)
           \/ \E uri \in Uris : SetNodeMetadata(sender, n, uri)
           \/ \E hash \in Hashes \cup {NoHash} : SetTEEProof(sender, n, hash)
           \/ ChillNode(sender, n)
           \/ MarkDefunct(sender, n)
    PROVE  SomeNodeStep(n)
  <1> DEFINE r == nodes[n]
             Fits(info) == /\ info \in NodeInfo
                           /\ info.encryptionPubkey = r.encryptionPubkey
                           /\ info.encryptionKeyVersion = r.encryptionKeyVersion
                           /\ info.encryptionKeysLastVersion = r.encryptionKeysLastVersion
  <1>1. /\ r \in NodeInfo
        /\ nodes \in [Nodes -> NodeInfo]
        /\ encryptionKeys[n] \in [Versions -> EncryptionKey]
    BY DEF RegistryInv, NodesTyped
  <1>2. nodeOperator[n] # NoAccount
    BY RegistryAddressAssumption DEF SetNodeFee, SetNodePayout, SetNodeActive,
       SetNodeMetadata, SetTEEProof, ChillNode, MarkDefunct
  <1>3. UNCHANGED <<admin, index, encryptionKeys, blockTimestamp>>
    BY DEF SetNodeFee, SetNodePayout, SetNodeActive, SetNodeMetadata, SetTEEProof, ChillNode,
       MarkDefunct
  <1>4. ASSUME NEW info, Fits(info), nodes' = [nodes EXCEPT ![n] = info],
               <<r.lifecycle, info.lifecycle>> \in RundownSteps,
               info.lifecycle # r.lifecycle /\ info.lifecycle = "Defunct" => Drained(n)
        PROVE  SomeNodeStep(n)
    BY <1>1, <1>2, <1>3, <1>4, RecordStep DEF SomeNodeStep
  <1>5. <<r.lifecycle, r.lifecycle>> \in RundownSteps
    BY <1>1 DEF NodeInfo, Lifecycle, RundownSteps
  <1> HIDE DEF r
  <1>6. ASSUME NEW bps \in FeeArgs, SetNodeFee(sender, n, bps)
        PROVE  SomeNodeStep(n)
    <2> DEFINE info == [r EXCEPT !.feeBps = bps]
    <2>1. Fits(info) /\ info.lifecycle = r.lifecycle
      BY <1>1, <1>6, RegistryDataAssumption DEF NodeInfo
    <2>2. nodes' = [nodes EXCEPT ![n] = info]
      BY <1>6 DEF SetNodeFee, r
    <2> HIDE DEF info, Fits
    <2> QED
      BY <2>1, <2>2, <1>4, <1>5
  <1>7. ASSUME NEW payout \in PayoutArgs, SetNodePayout(sender, n, payout)
        PROVE  SomeNodeStep(n)
    <2> DEFINE info == [r EXCEPT !.payout = payout]
    <2>1. Fits(info) /\ info.lifecycle = r.lifecycle
      BY <1>1, <1>7, RegistryAddressAssumption DEF NodeInfo
    <2>2. nodes' = [nodes EXCEPT ![n] = info]
      BY <1>7 DEF SetNodePayout, r
    <2> HIDE DEF info, Fits
    <2> QED
      BY <2>1, <2>2, <1>4, <1>5
  <1>8. ASSUME NEW active \in BOOLEAN, SetNodeActive(sender, n, active)
        PROVE  SomeNodeStep(n)
    <2> DEFINE info == [r EXCEPT !.active = active]
    <2>1. Fits(info) /\ info.lifecycle = r.lifecycle
      BY <1>1, <1>8 DEF NodeInfo
    <2>2. nodes' = [nodes EXCEPT ![n] = info]
      BY <1>8 DEF SetNodeActive, r
    <2> HIDE DEF info, Fits
    <2> QED
      BY <2>1, <2>2, <1>4, <1>5
  <1>9. ASSUME NEW uri \in Uris, SetNodeMetadata(sender, n, uri)
        PROVE  SomeNodeStep(n)
    <2> DEFINE info == [r EXCEPT !.metadataURI = uri]
    <2>1. Fits(info) /\ info.lifecycle = r.lifecycle
      BY <1>1, <1>9 DEF NodeInfo
    <2>2. nodes' = [nodes EXCEPT ![n] = info]
      BY <1>9 DEF SetNodeMetadata, r
    <2> HIDE DEF info, Fits
    <2> QED
      BY <2>1, <2>2, <1>4, <1>5
  <1>10. ASSUME NEW hash \in Hashes \cup {NoHash}, SetTEEProof(sender, n, hash)
         PROVE  SomeNodeStep(n)
    <2> DEFINE flagged == [r EXCEPT !.supportsTEE = TRUE]
               info == [flagged EXCEPT !.teeReportHash = hash]
    <2>1. Fits(flagged) /\ flagged.lifecycle = r.lifecycle
      BY <1>1 DEF NodeInfo
    <2>2. nodes' = [nodes EXCEPT ![n] = info]
      BY <1>10, Zenon DEF SetTEEProof, r
    <2> HIDE DEF flagged
    <2>3. Fits(info) /\ info.lifecycle = r.lifecycle
      BY <2>1 DEF NodeInfo
    <2> HIDE DEF info, Fits
    <2> QED
      BY <2>2, <2>3, <1>4, <1>5
  <1>11. ASSUME ChillNode(sender, n)
         PROVE  SomeNodeStep(n)
    <2> DEFINE chilled == [r EXCEPT !.lifecycle = "Chilled"]
               info == [chilled EXCEPT !.active = FALSE]
    <2>1. Fits(chilled) /\ chilled.lifecycle = "Chilled"
      BY <1>1 DEF NodeInfo, Lifecycle
    <2>2. nodes' = [nodes EXCEPT ![n] = info] /\ r.lifecycle = "Active"
      BY <1>11, Zenon DEF ChillNode, r
    <2> HIDE DEF chilled
    <2>3. Fits(info) /\ info.lifecycle = "Chilled"
      BY <2>1 DEF NodeInfo
    <2>4. <<r.lifecycle, info.lifecycle>> \in RundownSteps
      BY <2>2, <2>3 DEF RundownSteps
    <2> HIDE DEF info, Fits
    <2> QED
      BY <2>2, <2>3, <2>4, <1>4
  <1>12. ASSUME MarkDefunct(sender, n)
         PROVE  SomeNodeStep(n)
    <2> DEFINE info == [r EXCEPT !.lifecycle = "Defunct"]
    <2>1. Fits(info) /\ info.lifecycle = "Defunct"
      BY <1>1 DEF NodeInfo, Lifecycle
    <2>2. nodes' = [nodes EXCEPT ![n] = info] /\ r.lifecycle = "Chilled" /\ Drained(n)
      BY <1>12 DEF MarkDefunct, Drained, r
    <2>3. <<r.lifecycle, info.lifecycle>> \in RundownSteps
      BY <2>1, <2>2 DEF RundownSteps
    <2> HIDE DEF info, Fits
    <2> QED
      BY <2>1, <2>2, <2>3, <1>4
  <1> QED
    BY <1>6, <1>7, <1>8, <1>9, <1>10, <1>11, <1>12

\* A rotation dates the current version and issues the next slot, which was empty.
LEMMA RotateCall ==
    ASSUME RegistryInv, NEW sender \in Accounts, NEW n \in Nodes,
           NEW pubkey \in Pubkeys \cup {NoKey}, NEW grace \in GracePeriods,
           RotateEncryptionKey(sender, n, pubkey, grace)
    PROVE  SomeNodeStep(n)
  <1> DEFINE r == nodes[n]
             key == encryptionKeys[n]
             cur == r.encryptionKeyVersion
             last == r.encryptionKeysLastVersion
             new == last + 1
             dated == Deprecated(n, grace)
             keys == [dated EXCEPT ![new] = FreshKey(pubkey)]
             named == [r EXCEPT !.encryptionPubkey = pubkey]
             moved == [named EXCEPT !.encryptionKeyVersion = new]
             info == [moved EXCEPT !.encryptionKeysLastVersion = new]
  <1>1. /\ r \in NodeInfo
        /\ key \in [Versions -> EncryptionKey]
        /\ cur \in 0..MaxVersion /\ last \in 0..MaxVersion /\ MaxVersion \in Nat
    BY RegistryDataAssumption DEF RegistryInv, NodesTyped, NodeInfo
  <1>2. /\ nodeOperator[n] # NoAccount
        /\ pubkey # NoKey
        /\ new <= MaxVersion
        /\ UNCHANGED <<admin, index, blockTimestamp>>
        /\ encryptionKeys' = [encryptionKeys EXCEPT ![n] = keys]
    BY RegistryAddressAssumption DEF RotateEncryptionKey, NewVersion
  <1>3. nodes' = [nodes EXCEPT ![n] = info]
    BY Zenon DEF RotateEncryptionKey, NewVersion
  <1>4. Book(nodeOperator[n], r, key)
    BY DEF RegistryInv, Booked
  <1>5. blockTimestamp \in Nat /\ blockTimestamp >= 1 /\ grace \in Nat
    BY RegistryDataAssumption DEF RegistryInv, AdminTyped
  <1>6. /\ FreshKey(pubkey) \in EncryptionKey
        /\ FreshKey(pubkey).pubkey = pubkey
        /\ FreshKey(pubkey).deprecatedAt = 0
        /\ ~FreshKey(pubkey).revoked
        /\ NoEncryptionKey.pubkey = NoKey
        /\ NoEncryptionKey.deprecatedAt = 0
    BY <1>5 DEF FreshKey, EncryptionKey, NoEncryptionKey
  <1>7. /\ dated \in [Versions -> EncryptionKey]
        /\ \A v \in Versions : v # cur => dated[v] = key[v]
        /\ cur # 0 => /\ dated[cur].deprecatedAt = blockTimestamp + grace
                      /\ dated[cur].pubkey = key[cur].pubkey
                      /\ dated[cur].activatedAt = key[cur].activatedAt
                      /\ dated[cur].revoked = key[cur].revoked
    <2>1. CASE cur = 0
      BY <1>1, <2>1 DEF Deprecated
    <2>2. CASE cur # 0
      <3> DEFINE old == key[cur]
                 one == [old EXCEPT !.deprecatedAt = blockTimestamp + grace]
      <3>1. cur \in Versions /\ old \in EncryptionKey
        BY <1>1, <2>2 DEF Versions
      <3>2. /\ one \in EncryptionKey
            /\ one.deprecatedAt = blockTimestamp + grace
            /\ one.pubkey = old.pubkey
            /\ one.activatedAt = old.activatedAt
            /\ one.revoked = old.revoked
        BY <1>5, <3>1 DEF EncryptionKey
      <3>3. dated = [key EXCEPT ![cur] = one]
        BY <2>2 DEF Deprecated
      <3> HIDE DEF one, key, cur, dated
      <3> QED
        BY <1>1, <3>1, <3>2, <3>3
    <2> QED
      BY <2>1, <2>2
  <1>8. /\ info \in NodeInfo
        /\ info.encryptionPubkey = pubkey
        /\ info.encryptionKeyVersion = new
        /\ info.encryptionKeysLastVersion = new
        /\ info.lifecycle = r.lifecycle
    <2> HIDE DEF r
    <2>1. /\ named \in NodeInfo
          /\ named.encryptionPubkey = pubkey
          /\ named.lifecycle = r.lifecycle
      BY <1>1 DEF NodeInfo
    <2>2. new \in 0..MaxVersion
      BY <1>1, <1>2
    <2> HIDE DEF named, new
    <2>3. /\ moved \in NodeInfo
          /\ moved.encryptionPubkey = pubkey
          /\ moved.encryptionKeyVersion = new
          /\ moved.lifecycle = r.lifecycle
      BY <2>1, <2>2 DEF NodeInfo
    <2> HIDE DEF moved
    <2> QED
      BY <2>2, <2>3 DEF NodeInfo
  <1>9. <<r.lifecycle, info.lifecycle>> \in RundownSteps
    BY <1>1, <1>8 DEF NodeInfo, Lifecycle, RundownSteps
  <1> HIDE DEF dated, info, key, r
  <1>10. /\ keys \in [Versions -> EncryptionKey]
         /\ keys[new] = FreshKey(pubkey)
         /\ \A v \in Versions : v # new => keys[v] = dated[v]
    BY <1>1, <1>2, <1>6, <1>7 DEF Versions
  <1> HIDE DEF keys
  <1>11. Book(nodeOperator[n], info, keys)
    <2>1. \A v \in Versions : keys[v] = NoEncryptionKey <=> v > new
      <3> TAKE v \in Versions
      <3>1. CASE v = new
        BY <1>1, <1>2, <1>6, <1>10, <3>1
      <3>2. CASE v = cur /\ v # new
        BY <1>1, <1>4, <1>5, <1>6, <1>7, <1>10, <3>2 DEF Versions, Book
      <3>3. CASE v # cur /\ v # new
        BY <1>1, <1>4, <1>7, <1>10, <3>3 DEF Versions, Book
      <3> QED
        BY <3>1, <3>2, <3>3
    <2>2. ASSUME NEW v \in Versions, v <= new, v # new
          PROVE  keys[v].deprecatedAt # 0 \/ keys[v].revoked
      <3>1. CASE v = cur
        BY <1>1, <1>5, <1>7, <1>10, <2>2, <3>1 DEF Versions
      <3>2. CASE v # cur
        BY <1>1, <1>4, <1>7, <1>10, <2>2, <3>2 DEF Versions, Book
      <3> QED
        BY <3>1, <3>2
    <2>3. new # 0
      BY <1>1
    <2> HIDE DEF new
    <2> QED
      BY <1>2, <1>6, <1>8, <1>10, <2>1, <2>2, <2>3 DEF Book
  <1>12. ASSUME NEW v \in Versions
         PROVE  Ages(key[v], keys[v])
    <2>1. CASE v = new
      BY <1>1, <1>4, <2>1 DEF Ages, Book
    <2>2. CASE v = cur /\ v # new
      BY <1>1, <1>4, <1>7, <1>10, <2>2 DEF Ages, Book, Versions
    <2>3. CASE v # cur /\ v # new
      BY <1>7, <1>10, <2>3 DEF Ages
    <2> QED
      BY <2>1, <2>2, <2>3
  <1> QED
    BY <1>2, <1>3, <1>8, <1>9, <1>10, <1>11, <1>12 DEF NodeStep, SomeNodeStep, key, r

\* A revocation marks one issued slot; if it was the current one, the headline key
\* goes with it.
LEMMA RevokeCall ==
    ASSUME RegistryInv, NEW sender \in Accounts, NEW n \in Nodes, NEW version \in Versions,
           RevokeEncryptionKey(sender, n, version)
    PROVE  SomeNodeStep(n)
  <1> DEFINE r == nodes[n]
             key == encryptionKeys[n]
             old == key[version]
             one == [old EXCEPT !.revoked = TRUE]
             keys == [key EXCEPT ![version] = one]
             cleared == [r EXCEPT !.encryptionPubkey = NoKey]
             info == IF r.encryptionKeyVersion = version
                     THEN [cleared EXCEPT !.encryptionKeyVersion = 0] ELSE r
  <1>1. /\ r \in NodeInfo
        /\ nodes \in [Nodes -> NodeInfo]
        /\ key \in [Versions -> EncryptionKey]
        /\ old \in EncryptionKey
        /\ version \in 1..MaxVersion /\ MaxVersion \in Nat
        /\ r.encryptionKeyVersion \in 0..MaxVersion
        /\ r.encryptionKeysLastVersion \in 0..MaxVersion
    BY RegistryDataAssumption DEF RegistryInv, NodesTyped, Versions, NodeInfo
  <1>2. /\ nodeOperator[n] # NoAccount
        /\ old # NoEncryptionKey
        /\ UNCHANGED <<admin, index, blockTimestamp>>
    BY RegistryAddressAssumption DEF RevokeEncryptionKey, NoEncryptionKey
  <1>3. encryptionKeys' = [encryptionKeys EXCEPT ![n] = keys]
    BY DEF RevokeEncryptionKey
  <1>4. nodes' = [nodes EXCEPT ![n] = info]
    <2>1. CASE r.encryptionKeyVersion = version
      BY <2>1, Zenon DEF RevokeEncryptionKey
    <2>2. CASE r.encryptionKeyVersion # version
      <3>1. nodes' = nodes /\ info = r
        BY <2>2 DEF RevokeEncryptionKey
      <3> QED
        BY <1>1, <3>1
    <2> QED
      BY <2>1, <2>2
  <1>5. Book(nodeOperator[n], r, key)
    BY DEF RegistryInv, Booked
  <1>6. /\ one \in EncryptionKey
        /\ one.revoked
        /\ one.pubkey = old.pubkey
        /\ one.activatedAt = old.activatedAt
        /\ one.deprecatedAt = old.deprecatedAt
        /\ one # NoEncryptionKey
    <2> HIDE DEF old
    <2> QED
      BY <1>1 DEF EncryptionKey, NoEncryptionKey
  <1> HIDE DEF r, old, one, key
  <1>7. /\ info \in NodeInfo
        /\ info.lifecycle = r.lifecycle
        /\ info.encryptionKeysLastVersion = r.encryptionKeysLastVersion
        /\ IF r.encryptionKeyVersion = version
           THEN info.encryptionKeyVersion = 0 /\ info.encryptionPubkey = NoKey
           ELSE info = r
    <2>1. /\ cleared \in NodeInfo
          /\ cleared.encryptionPubkey = NoKey
          /\ cleared.lifecycle = r.lifecycle
          /\ cleared.encryptionKeysLastVersion = r.encryptionKeysLastVersion
      BY <1>1 DEF NodeInfo
    <2> HIDE DEF cleared
    <2> QED
      BY <1>1, <2>1 DEF NodeInfo
  <1>8. /\ keys \in [Versions -> EncryptionKey]
        /\ keys[version] = one
        /\ \A v \in Versions : v # version => keys[v] = key[v]
    BY <1>1, <1>6
  <1>9. <<r.lifecycle, info.lifecycle>> \in RundownSteps
    BY <1>1, <1>7 DEF NodeInfo, Lifecycle, RundownSteps
  <1> HIDE DEF info, keys
  <1>10. Book(nodeOperator[n], info, keys)
    <2>1. version <= r.encryptionKeysLastVersion
      BY <1>1, <1>2, <1>5 DEF Book, Versions, old
    <2>2. CASE r.encryptionKeyVersion = version
      BY <1>1, <1>2, <1>5, <1>6, <1>7, <1>8, <2>1, <2>2 DEF Book, Versions
    <2>3. CASE r.encryptionKeyVersion # version
      BY <1>1, <1>2, <1>5, <1>6, <1>7, <1>8, <2>1, <2>3 DEF Book, Versions
    <2> QED
      BY <2>2, <2>3
  <1>11. ASSUME NEW v \in Versions
         PROVE  Ages(key[v], keys[v])
    BY <1>6, <1>8 DEF Ages, old
  <1> QED
    BY <1>2, <1>3, <1>4, <1>7, <1>8, <1>9, <1>10, <1>11 DEF NodeStep, SomeNodeStep, key, r

\* Registration fills an empty record, at most the first key slot, and appends the
\* node to the sender's list.
LEMMA RegisterKeeps ==
    ASSUME RegistryInv, NEW sender \in Accounts, NEW n \in Nodes,
           NEW payout \in PayoutArgs, NEW bestEffort \in BOOLEAN, NEW tee \in BOOLEAN,
           NEW uri \in Uris \cup {NoUri}, NEW pubkey \in Pubkeys \cup {NoKey},
           RegisterNode(sender, n, payout, bestEffort, tee, uri, pubkey)
    PROVE  RegistryInv' /\ nodes'[n].lifecycle = "Active"
  <1> DEFINE version == IF pubkey = NoKey THEN 0 ELSE 1
             rec == [payout |-> IF payout = NoAccount THEN sender ELSE payout,
                feeBps |-> 0, active |-> TRUE, supportsBestEffort |-> bestEffort,
                supportsTEE |-> tee, teeReportHash |-> NoHash, metadataURI |-> uri,
                lifecycle |-> "Active", encryptionPubkey |-> pubkey,
                encryptionKeyVersion |-> version, encryptionKeysLastVersion |-> version]
             key == encryptionKeys[n]
             keys == IF pubkey = NoKey THEN key ELSE [key EXCEPT ![1] = FreshKey(pubkey)]
  <1>1. /\ nodeOperator[n] = NoAccount
        /\ version <= MaxVersion
        /\ nodeOperator' = [nodeOperator EXCEPT ![n] = sender]
        /\ operatorNodes' = [operatorNodes EXCEPT ![sender] = Append(operatorNodes[sender], n)]
        /\ nodes' = [nodes EXCEPT ![n] = rec]
        /\ UNCHANGED <<admin, blockTimestamp>>
    BY DEF RegisterNode
  <1>2. NodesTyped /\ AdminTyped /\ Indexed
    BY DEF RegistryInv
  <1>3. version \in 0..MaxVersion
    BY <1>1, RegistryDataAssumption
  <1>4. /\ rec \in NodeInfo
        /\ rec.lifecycle = "Active"
        /\ rec.encryptionPubkey = pubkey
        /\ rec.encryptionKeyVersion = version
        /\ rec.encryptionKeysLastVersion = version
    <2> HIDE DEF version
    <2> QED
      BY <1>3, RegistryAddressAssumption DEF NodeInfo, Addresses, Lifecycle
  <1>5. \A v \in Versions : key[v] = NoEncryptionKey
    BY <1>1, RegistryDataAssumption DEF RegistryInv, Booked, Book, NoNodeInfo, Versions
  <1>6. key \in [Versions -> EncryptionKey]
    BY <1>2 DEF NodesTyped
  <1>7. /\ FreshKey(pubkey) \in EncryptionKey
        /\ FreshKey(pubkey).pubkey = pubkey
        /\ FreshKey(pubkey).deprecatedAt = 0
        /\ ~FreshKey(pubkey).revoked
        /\ NoEncryptionKey.pubkey = NoKey
    BY <1>2 DEF FreshKey, EncryptionKey, NoEncryptionKey, AdminTyped
  <1>8. encryptionKeys' = [encryptionKeys EXCEPT ![n] = keys]
    <2>1. CASE pubkey = NoKey
      BY <1>2, <2>1 DEF RegisterNode, NodesTyped
    <2>2. CASE pubkey # NoKey
      BY <1>2, <2>2 DEF RegisterNode, NodesTyped
    <2> QED
      BY <2>1, <2>2
  <1> HIDE DEF key, rec
  <1>9. keys \in [Versions -> EncryptionKey] /\ Book(sender, rec, keys)
    <2>1. sender # NoAccount
      BY RegistryAddressAssumption
    <2>2. CASE pubkey = NoKey
      BY <1>4, <1>5, <1>6, <2>1, <2>2, RegistryDataAssumption DEF Book, Versions
    <2>3. CASE pubkey # NoKey
      <3>1. /\ keys \in [Versions -> EncryptionKey]
            /\ keys[1] = FreshKey(pubkey)
            /\ \A v \in Versions : v # 1 => keys[v] = NoEncryptionKey
        BY <1>3, <1>5, <1>6, <1>7, <2>3 DEF Versions
      <3> HIDE DEF keys
      <3> QED
        BY <1>3, <1>4, <1>7, <2>1, <2>3, <3>1, RegistryDataAssumption DEF Book, Versions
    <2> QED
      BY <2>2, <2>3
  <1> HIDE DEF keys
  <1>10. NodesTyped'
    <2>1. Append(operatorNodes[sender], n) \in Seq(Nodes)
      BY <1>2 DEF NodesTyped
    <2>2. operatorNodes' \in [Accounts -> Seq(Nodes)]
      BY <1>1, <1>2, <2>1 DEF NodesTyped
    <2> QED
      BY <1>1, <1>2, <1>4, <1>8, <1>9, <2>2 DEF NodesTyped, Addresses
  <1>11. AdminTyped'
    BY <1>1, <1>2 DEF AdminTyped, admin
  <1>12. ASSUME NEW a \in Accounts
         PROVE  Lists(operatorNodes'[a], NodesOf(a)')
    <2>1. Lists(operatorNodes[a], NodesOf(a))
      BY <1>2 DEF Indexed
    <2>2. NodesOf(a)' = IF a = sender THEN NodesOf(a) \cup {n} ELSE NodesOf(a)
      BY <1>1, <1>2, RegistryAddressAssumption DEF NodesOf, NodesTyped
    <2>3. n \notin NodesOf(a)
      BY <1>1, RegistryAddressAssumption DEF NodesOf
    <2>4. CASE a = sender
      BY <1>1, <1>2, <2>1, <2>2, <2>3, <2>4, ListsAppend DEF NodesTyped
    <2>5. CASE a # sender
      BY <1>1, <1>2, <2>1, <2>2, <2>5 DEF NodesTyped
    <2> QED
      BY <2>4, <2>5
  <1>13. ASSUME NEW m \in Nodes
         PROVE  Book(nodeOperator'[m], nodes'[m], encryptionKeys'[m])
    BY <1>1, <1>2, <1>8, <1>9 DEF RegistryInv, Booked, NodesTyped
  <1>14. nodes'[n].lifecycle = "Active"
    BY <1>1, <1>2, <1>4 DEF NodesTyped
  <1> QED
    BY <1>10, <1>11, <1>12, <1>13, <1>14 DEF RegistryInv, Indexed, Booked, Lists

\* The purge empties the record and every key slot, and takes the node off its
\* operator's list.
LEMMA PurgeKeeps ==
    ASSUME RegistryInv, NEW sender \in Accounts, NEW n \in Nodes,
           PurgeDefunctNode(sender, n)
    PROVE  RegistryInv'
  <1> DEFINE op == nodeOperator[n]
             keys == KeysDeleted(n)
  <1>1. /\ op # NoAccount
        /\ operatorNodes' = [operatorNodes EXCEPT ![op] = Without(operatorNodes[op], n)]
        /\ encryptionKeys' = [encryptionKeys EXCEPT ![n] = keys]
        /\ nodes' = [nodes EXCEPT ![n] = NoNodeInfo]
        /\ nodeOperator' = [nodeOperator EXCEPT ![n] = NoAccount]
        /\ UNCHANGED <<admin, blockTimestamp>>
    BY DEF PurgeDefunctNode
  <1>2. NodesTyped /\ AdminTyped /\ Indexed /\ Booked
    BY DEF RegistryInv
  <1>3. op \in Accounts
    BY <1>1, <1>2 DEF NodesTyped, Addresses
  <1>4. NoNodeInfo \in NodeInfo /\ NoEncryptionKey \in EncryptionKey
    BY RegistryDataAssumption
       DEF NoNodeInfo, NodeInfo, NoEncryptionKey, EncryptionKey, Addresses, Lifecycle
  <1>5. /\ keys \in [Versions -> EncryptionKey]
        /\ \A v \in Versions : keys[v] = NoEncryptionKey
    <2>1. nodes[n].encryptionKeysLastVersion \in 0..MaxVersion /\ MaxVersion \in Nat
      BY <1>2, RegistryDataAssumption DEF NodesTyped, NodeInfo
    <2>2. \A v \in Versions :
              v > nodes[n].encryptionKeysLastVersion => encryptionKeys[n][v] = NoEncryptionKey
      BY <1>2 DEF Booked, Book
    <2> QED
      BY <1>4, <2>1, <2>2 DEF KeysDeleted, Versions
  <1> HIDE DEF keys
  <1>6. Book(NoAccount, NoNodeInfo, keys)
    BY <1>5 DEF Book, NoNodeInfo, Versions
  <1>7. ASSUME NEW a \in Accounts
        PROVE  Lists(operatorNodes'[a], NodesOf(a)')
    <2>1. Lists(operatorNodes[a], NodesOf(a))
      BY <1>2 DEF Indexed
    <2>2. NodesOf(a)' = IF a = op THEN NodesOf(a) \ {n} ELSE NodesOf(a)
      BY <1>1, <1>2, RegistryAddressAssumption DEF NodesOf, NodesTyped
    <2>3. CASE a = op
      <3>1. n \in NodesOf(a)
        BY <2>3 DEF NodesOf
      <3> QED
        BY <1>1, <1>2, <2>1, <2>2, <2>3, <3>1, ListsWithout DEF NodesTyped
    <2>4. CASE a # op
      BY <1>1, <1>2, <2>1, <2>2, <2>4 DEF NodesTyped
    <2> QED
      BY <2>3, <2>4
  <1>8. operatorNodes' \in [Accounts -> Seq(Nodes)]
    <2>1. operatorNodes'[op] \in Seq(Nodes)
      BY <1>3, <1>7 DEF Lists
    <2> QED
      BY <1>1, <1>2, <1>3, <2>1 DEF NodesTyped
  <1>9. NodesTyped'
    BY <1>1, <1>2, <1>4, <1>5, <1>8 DEF NodesTyped, Addresses
  <1>10. AdminTyped'
    BY <1>1, <1>2 DEF AdminTyped, admin
  <1>11. ASSUME NEW m \in Nodes
         PROVE  Book(nodeOperator'[m], nodes'[m], encryptionKeys'[m])
    BY <1>1, <1>2, <1>6 DEF Booked, NodesTyped
  <1> QED
    BY <1>7, <1>9, <1>10, <1>11 DEF RegistryInv, Indexed, Booked

\* A step that touches no node: the owner's wiring calls, the clock, and any step
\* of the escrow.
NodesKept == UNCHANGED <<nodes, index, encryptionKeys>>

\* The wiring calls and the clock keep the invariant.
LEMMA WiringKeeps ==
    ASSUME RegistryInv, NodesKept, AdminTyped'
    PROVE  RegistryInv'
  <1>1. NodesTyped' /\ Booked'
    BY DEF RegistryInv, NodesKept, NodesTyped, Booked, Book, index
  <1>2. Indexed'
    <2>1. Indexed /\ UNCHANGED <<nodeOperator, operatorNodes>>
      BY DEF RegistryInv, index, NodesKept
    <2> QED
      BY <2>1 DEF Indexed, NodesOf, Lists
  <1> QED
    BY <1>1, <1>2 DEF RegistryInv

Wires == NodesKept /\ AdminTyped'
Purges(n) == \E sender \in Accounts : PurgeDefunctNode(sender, n)
Registers(n) ==
    \E sender \in Accounts, payout \in PayoutArgs, bestEffort \in BOOLEAN, tee \in BOOLEAN,
       uri \in Uris \cup {NoUri}, key \in Pubkeys \cup {NoKey} :
           RegisterNode(sender, n, payout, bestEffort, tee, uri, key)

\* Every call of the registry is one of four kinds.
LEMMA RegistryMoveKinds ==
    ASSUME RegistryInv, RegistryMoves
    PROVE  Wires \/ \E n \in Nodes : SomeNodeStep(n) \/ Purges(n) \/ Registers(n)
  <1>1. AdminTyped
    BY DEF RegistryInv
  <1>2. ASSUME NEW sender \in Accounts, NEW a \in OwnerArgs, TransferOwnership(sender, a)
        PROVE  Wires
    BY <1>1, <1>2, RegistryAddressAssumption
       DEF Wires, TransferOwnership, NodesKept, AdminTyped, Addresses
  <1>3. ASSUME NEW sender \in Accounts, NEW a \in ServiceArgs,
               SetAttestationService(sender, a)
        PROVE  Wires
    BY <1>1, <1>3, RegistryAddressAssumption
       DEF Wires, SetAttestationService, NodesKept, AdminTyped
  <1>4. ASSUME NEW sender \in Accounts, NEW a \in EscrowArgs,
               SetSettlementEscrow(sender, a)
        PROVE  Wires
    BY <1>1, <1>4 DEF Wires, SetSettlementEscrow, NodesKept, AdminTyped
  <1>5. ASSUME Block PROVE Wires
    BY <1>1, <1>5, RegistryDataAssumption DEF Wires, Block, NodesKept, AdminTyped, admin
  <1>6. ASSUME NEW sender \in Accounts, NEW n \in Nodes, NEW payout \in PayoutArgs,
               NEW flags \in TierFlags, NEW uri \in Uris \cup {NoUri},
               NEW key \in Pubkeys \cup {NoKey},
               RegisterNode(sender, n, payout, flags[1], flags[2], uri, key)
        PROVE  Registers(n)
    <2>1. flags[1] \in BOOLEAN /\ flags[2] \in BOOLEAN
      BY RegistryAddressAssumption
    <2> QED
      BY <1>6, <2>1 DEF Registers
  <1>7. CASE OwnerMoves
    <2>1. PICK sender \in Accounts :
            \/ \E a \in OwnerArgs : TransferOwnership(sender, a)
            \/ \E a \in ServiceArgs : SetAttestationService(sender, a)
            \/ \E a \in EscrowArgs : SetSettlementEscrow(sender, a)
            \/ \E n \in Nodes, bps \in FeeArgs : SetNodeFee(sender, n, bps)
            \/ \E n \in Nodes : PurgeDefunctNode(sender, n)
      BY <1>7 DEF OwnerMoves
    <2>2. CASE \E n \in Nodes, bps \in FeeArgs : SetNodeFee(sender, n, bps)
      BY <2>2, RecordCalls
    <2> QED
      BY <1>2, <1>3, <1>4, <2>1, <2>2 DEF Purges
  <1>8. CASE NodeMoves
    <2>1. PICK sender \in Accounts, n \in Nodes :
        \/ \E payout \in PayoutArgs, flags \in TierFlags, uri \in Uris \cup {NoUri},
              key \in Pubkeys \cup {NoKey} :
               RegisterNode(sender, n, payout, flags[1], flags[2], uri, key)
        \/ \E key \in Pubkeys \cup {NoKey}, grace \in GracePeriods :
               RotateEncryptionKey(sender, n, key, grace)
        \/ \E v \in Versions : RevokeEncryptionKey(sender, n, v)
        \/ ChillNode(sender, n)
        \/ MarkDefunct(sender, n)
        \/ \E payout \in PayoutArgs : SetNodePayout(sender, n, payout)
        \/ \E active \in BOOLEAN : SetNodeActive(sender, n, active)
        \/ \E uri \in Uris : SetNodeMetadata(sender, n, uri)
        \/ \E hash \in Hashes \cup {NoHash} : SetTEEProof(sender, n, hash)
      BY <1>8 DEF NodeMoves
    <2> QED
      BY <1>6, <2>1, RecordCalls, RotateCall, RevokeCall
  <1> QED
    BY <1>5, <1>7, <1>8 DEF RegistryMoves

\* What a step of the registry may do, besides preserving the invariant: each node
\* runs down in order and each issued key only ages.
LEMMA RegistryMovesKeep ==
    ASSUME RegistryInv, RegistryMoves
    PROVE  /\ RegistryInv'
           /\ \A n \in Nodes : RunsDown(n)
           /\ \A n \in Nodes, v \in Versions : KeyAges(n, v)
  <1>1. NodesTyped
    BY DEF RegistryInv
  <1>2. ASSUME NEW m \in Nodes, UNCHANGED <<nodes[m], nodeOperator[m], encryptionKeys[m]>>
        PROVE  RunsDown(m) /\ \A v \in Versions : KeyAges(m, v)
    <2>1. nodes[m].lifecycle \in Lifecycle
      BY <1>1 DEF NodesTyped, NodeInfo
    <2> QED
      BY <1>2, <2>1 DEF RunsDown, RundownSteps, Lifecycle, KeyAges
  <1>3. CASE Wires
    <2>1. RegistryInv'
      BY <1>3, WiringKeeps DEF Wires
    <2> QED
      BY <1>2, <1>3, <2>1 DEF Wires, NodesKept, index
  <1>4. ASSUME NEW n \in Nodes, SomeNodeStep(n)
        PROVE  /\ RegistryInv'
               /\ \A m \in Nodes : RunsDown(m) /\ \A v \in Versions : KeyAges(m, v)
    <2>1. PICK info \in NodeInfo, keys \in [Versions -> EncryptionKey] :
              NodeStep(n, info, keys)
      BY <1>4 DEF SomeNodeStep
    <2>2. RegistryInv'
      BY <2>1, NodeKeeps
    <2>3. \A m \in Nodes : m # n => UNCHANGED <<nodes[m], nodeOperator[m], encryptionKeys[m]>>
      BY <1>1, <2>1 DEF NodesTyped, NodeStep, index
    <2>4. /\ nodes'[n] = info
          /\ encryptionKeys'[n] = keys
          /\ nodeOperator'[n] = nodeOperator[n]
      BY <1>1, <2>1 DEF NodesTyped, NodeStep, index
    <2>5. RunsDown(n)
      BY <2>1, <2>4 DEF RunsDown, NodeStep
    <2>6. \A v \in Versions : KeyAges(n, v)
      BY <2>1, <2>4 DEF KeyAges, NodeStep, Ages
    <2> QED
      BY <1>2, <2>2, <2>3, <2>5, <2>6
  <1>5. ASSUME NEW sender \in Accounts, NEW n \in Nodes, PurgeDefunctNode(sender, n)
        PROVE  /\ RegistryInv'
               /\ \A m \in Nodes : RunsDown(m) /\ \A v \in Versions : KeyAges(m, v)
    <2>1. RegistryInv'
      BY <1>5, PurgeKeeps
    <2>2. \A m \in Nodes : m # n => UNCHANGED <<nodes[m], nodeOperator[m], encryptionKeys[m]>>
      BY <1>1, <1>5 DEF NodesTyped, PurgeDefunctNode
    <2>3. /\ nodeOperator[n] # NoAccount /\ nodeOperator'[n] = NoAccount
          /\ nodes[n].lifecycle = "Defunct"
      BY <1>1, <1>5 DEF NodesTyped, PurgeDefunctNode
    <2>4. RunsDown(n) /\ \A v \in Versions : KeyAges(n, v)
      BY <2>3 DEF RunsDown, KeyAges
    <2> QED
      BY <1>2, <2>1, <2>2, <2>4
  <1>6. ASSUME NEW sender \in Accounts, NEW n \in Nodes, NEW payout \in PayoutArgs,
               NEW bestEffort \in BOOLEAN, NEW tee \in BOOLEAN,
               NEW uri \in Uris \cup {NoUri}, NEW key \in Pubkeys \cup {NoKey},
               RegisterNode(sender, n, payout, bestEffort, tee, uri, key)
        PROVE  /\ RegistryInv'
               /\ \A m \in Nodes : RunsDown(m) /\ \A v \in Versions : KeyAges(m, v)
    <2>1. RegistryInv' /\ nodes'[n].lifecycle = "Active"
      BY <1>6, RegisterKeeps
    <2>2. \A m \in Nodes : m # n => UNCHANGED <<nodes[m], nodeOperator[m], encryptionKeys[m]>>
      BY <1>1, <1>6 DEF NodesTyped, RegisterNode
    <2>3. nodeOperator[n] = NoAccount /\ nodeOperator'[n] = sender /\ sender # NoAccount
      BY <1>1, <1>6, RegistryAddressAssumption DEF NodesTyped, RegisterNode
    <2>4. RunsDown(n) /\ \A v \in Versions : KeyAges(n, v)
      BY <2>1, <2>3 DEF RunsDown, KeyAges
    <2> QED
      BY <1>2, <2>1, <2>2, <2>4
  <1> QED
    BY <1>3, <1>4, <1>5, <1>6, RegistryMoveKinds DEF Purges, Registers

\* The invariant implies the two properties of the registry's books.
LEMMA RegistryBooks == RegistryInv => IndexMatchesOperators /\ KeyBookConsistent
  <1> SUFFICES ASSUME RegistryInv PROVE IndexMatchesOperators /\ KeyBookConsistent
    OBVIOUS
  <1>1. ASSUME NEW a \in Accounts
        PROVE  /\ {operatorNodes[a][i] : i \in 1..Len(operatorNodes[a])} = NodesOf(a)
               /\ Len(operatorNodes[a]) = Cardinality(NodesOf(a))
    BY ListsCount DEF RegistryInv, Indexed
  <1>2. IndexMatchesOperators
    BY <1>1 DEF IndexMatchesOperators, NodesOf
  <1>3. KeyBookConsistent
    BY DEF RegistryInv, Booked, Book, KeyBookConsistent
  <1> QED
    BY <1>2, <1>3

-------------------------------------------------------------------------------
\* The registry by itself, with an escrow that may report any count.

CountTyped == openSessionCountByNode \in [Nodes -> Nat]

\* One step of the registry or of the escrow's counter.
LEMMA RegistryNextKeeps ==
    RegistryInv /\ CountTyped /\ [RegistryNext]_vars
        => /\ RegistryInv' /\ CountTyped'
           /\ [\A n \in Nodes : RunsDown(n)]_vars
           /\ [\A n \in Nodes, v \in Versions : KeyAges(n, v)]_vars
  <1> SUFFICES ASSUME RegistryInv, CountTyped, [RegistryNext]_vars
               PROVE  /\ RegistryInv' /\ CountTyped'
                      /\ [\A n \in Nodes : RunsDown(n)]_vars
                      /\ [\A n \in Nodes, v \in Versions : KeyAges(n, v)]_vars
    OBVIOUS
  <1>1. CASE RegistryMoves /\ UNCHANGED openSessionCountByNode
    BY <1>1, RegistryMovesKeep DEF CountTyped
  <1>2. CASE UNCHANGED registryVars
    <2>1. Wires
      BY <1>2 DEF RegistryInv, Wires, NodesKept, AdminTyped, registryVars, admin
    <2>2. RegistryInv'
      BY <2>1, WiringKeeps DEF Wires
    <2>3. \A n \in Nodes : nodes[n].lifecycle \in Lifecycle
      BY DEF RegistryInv, NodesTyped, NodeInfo
    <2>4. \A n \in Nodes : RunsDown(n)
      BY <2>1, <2>3 DEF Wires, NodesKept, index, RunsDown, RundownSteps, Lifecycle
    <2>5. \A n \in Nodes, v \in Versions : KeyAges(n, v)
      BY <2>1 DEF Wires, NodesKept, index, KeyAges
    <2>6. CountTyped'
      BY RegistryDataAssumption, <1>2
         DEF RegistryNext, OpenSessionCountChanges, CountTyped, vars
    <2> QED
      BY <2>2, <2>4, <2>5, <2>6
  <1> QED
    BY <1>1, <1>2 DEF RegistryNext, OpenSessionCountChanges, vars

\* The registry's invariant holds whatever the escrow reports.
THEOREM RegistryInvariance == RegistrySpec => [](RegistryInv /\ CountTyped)
  <1>1. DeployedInit => RegistryInv /\ CountTyped
    BY RegistryStarts DEF DeployedInit, CountTyped
  <1> QED
    BY <1>1, RegistryNextKeeps, PTL DEF RegistrySpec

\* Every record, index entry and key slot keeps its type.
THEOREM RegistryTypeCorrect == RegistrySpec => []RegistryTypeOK
  <1>1. RegistryInv /\ CountTyped => RegistryTypeOK
    BY DEF RegistryInv, CountTyped, AdminTyped, NodesTyped, RegistryTypeOK
  <1> QED
    BY <1>1, RegistryInvariance, PTL

\* _operatorNodes lists exactly each operator's nodes, once each, through every
\* order of registrations and purges: _removeOperatorNode never reverts.
THEOREM IndexAlwaysMatches == RegistrySpec => []IndexMatchesOperators
  BY RegistryInvariance, RegistryBooks, PTL

\* The key book of every node is in order through every mix of registrations,
\* rotations, revocations and purges.
THEOREM KeyBookAlwaysConsistent == RegistrySpec => []KeyBookConsistent
  BY RegistryInvariance, RegistryBooks, PTL

\* The rundown only moves forward, and only a purge frees a node's id.
THEOREM RundownAlwaysInOrder == RegistrySpec => RundownInOrder
  BY RegistryInvariance, RegistryNextKeeps, PTL DEF RegistrySpec, RundownInOrder

\* An issued key version keeps its key, is dated once and stays revoked.
THEOREM IssuedKeysAlwaysAge == RegistrySpec => IssuedKeysOnlyAge
  BY RegistryInvariance, RegistryNextKeeps, PTL DEF RegistrySpec, IssuedKeysOnlyAge

-------------------------------------------------------------------------------
\* The Hub: what the registry shows the escrow.

\* The tiers the registry reports for n: what the escrow's supportedTiers is here.
TiersOf(n) == {t \in SecurityTier : SupportsTier(n, t)}

\* A defunct or unregistered node supports no tier.
LEMMA GoneSupportsNothing ==
    ASSUME RegistryInv, NEW n \in Nodes,
           nodes[n].lifecycle = "Defunct" \/ nodeOperator[n] = NoAccount
    PROVE  TiersOf(n) = {}
  <1>1. CASE nodes[n].lifecycle = "Defunct"
    BY <1>1 DEF TiersOf, SupportsTier
  <1>2. CASE nodeOperator[n] = NoAccount
    <2>1. nodes[n].payout = NoAccount
      BY <1>2 DEF RegistryInv, Booked, Book, NoNodeInfo
    <2> QED
      BY <2>1 DEF TiersOf, SupportsTier
  <1> QED
    BY <1>1, <1>2

\* A registry step on one node is what the escrow calls RegistryChanges.
LEMMA OneNodeShown ==
    ASSUME NodesTyped, NodesTyped', NEW n \in Nodes,
           \A m \in Nodes : m # n => UNCHANGED <<nodes[m], nodeOperator[m]>>,
           UNCHANGED <<owner, openSessionCountByNode, escrowOwn>>
    PROVE  \E op \in Accounts \cup {NoAccount}, ts \in SUBSET SecurityTier :
               Escrow!RegistryChanges(n, op, ts)
  <1> DEFINE tiers == [m \in Nodes |-> {t \in SecurityTier : SupportsTier(m, t)}]
  <1>1. \A m \in Nodes : m # n => tiers'[m] = tiers[m]
    BY DEF SupportsTier
  <1>2. PICK ts \in SUBSET SecurityTier : ts = tiers'[n]
    OBVIOUS
  <1>3. tiers' = [tiers EXCEPT ![n] = ts]
    BY <1>1, <1>2
  <1>4. PICK op \in Accounts \cup {NoAccount} : op = nodeOperator'[n]
    BY DEF NodesTyped, Addresses
  <1>5. nodeOperator' = [nodeOperator EXCEPT ![n] = op]
    BY <1>4 DEF NodesTyped
  <1>6. Escrow!RegistryChanges(n, op, ts)
    BY <1>3, <1>5 DEF Escrow!RegistryChanges, escrowOwn, Escrow!balances,
       Escrow!caches, Escrow!sessionVars, Escrow!roles, Escrow!rates, Escrow!custody,
       Escrow!oracleView
  <1> QED
    BY <1>6

\* A registry step on no node is what the escrow calls RegistryOwnerChanges.
LEMMA OwnerShown ==
    ASSUME NodesKept, UNCHANGED <<openSessionCountByNode, escrowOwn>>
    PROVE  Escrow!RegistryOwnerChanges(owner')
  BY DEF NodesKept, index, SupportsTier, Escrow!RegistryOwnerChanges, escrowOwn,
     Escrow!balances, Escrow!caches, Escrow!sessionVars, Escrow!roles, Escrow!rates,
     Escrow!custody, Escrow!oracleView

\* Which nodes a registry step touches.
LEMMA OthersKept ==
    ASSUME RegistryInv, NEW n \in Nodes, SomeNodeStep(n) \/ Purges(n) \/ Registers(n)
    PROVE  /\ \A m \in Nodes : m # n => UNCHANGED <<nodes[m], nodeOperator[m]>>
           /\ UNCHANGED <<owner, settlementEscrow>>
  <1>1. CASE SomeNodeStep(n)
    BY <1>1 DEF RegistryInv, NodesTyped, SomeNodeStep, NodeStep, index, admin
  <1>2. CASE Purges(n)
    BY <1>2 DEF RegistryInv, NodesTyped, Purges, PurgeDefunctNode, admin
  <1>3. CASE Registers(n)
    BY <1>3 DEF RegistryInv, NodesTyped, Registers, RegisterNode, admin
  <1> QED
    BY <1>1, <1>2, <1>3

\* One step of the Hub is one step of the escrow of SettlementEscrow.
LEMMA HubStepRefines ==
    ASSUME RegistryInv, [HubNext]_hubVars
    PROVE  [Escrow!Next]_(Escrow!vars)
  <1>1. CASE RegistryStep
    <2>1. RegistryMoves /\ UNCHANGED <<openSessionCountByNode, escrowOwn>>
      BY <1>1 DEF RegistryStep
    <2>2. RegistryInv'
      BY <2>1, RegistryMovesKeep
    <2>3. CASE Wires
      <3>1. Escrow!RegistryOwnerChanges(owner')
        BY <2>1, <2>3, OwnerShown DEF Wires
      <3>2. owner' \in Accounts
        BY <2>2 DEF RegistryInv, AdminTyped
      <3>3. Escrow!OutsideMoves
        BY <3>1, <3>2 DEF Escrow!OutsideMoves
      <3> QED
        BY <3>3 DEF Escrow!Next
    <2>4. ASSUME NEW n \in Nodes, SomeNodeStep(n) \/ Purges(n) \/ Registers(n)
          PROVE  Escrow!Next
      <3>1. \E op \in Accounts \cup {NoAccount}, ts \in SUBSET SecurityTier :
                Escrow!RegistryChanges(n, op, ts)
        BY <2>1, <2>2, <2>4, OthersKept, OneNodeShown DEF RegistryInv
      <3>2. Escrow!OutsideMoves
        BY <3>1 DEF Escrow!OutsideMoves
      <3> QED
        BY <3>2 DEF Escrow!Next
    <2> QED
      BY <2>1, <2>3, <2>4, RegistryMoveKinds
  <1>2. CASE EscrowStep
    BY <1>2 DEF EscrowStep, Escrow!Next, Escrow!OutsideMoves
  <1>3. CASE UNCHANGED hubVars
    BY <1>3 DEF hubVars, vars, registryVars, admin, index, escrowOwn, SupportsTier,
       Escrow!vars, Escrow!balances, Escrow!caches, Escrow!sessionVars, Escrow!roles,
       Escrow!rates, Escrow!custody, Escrow!registryView, Escrow!oracleView
  <1> QED
    BY <1>1, <1>2, <1>3 DEF HubNext

\* A step of the Hub preserves the registry's invariant.
LEMMA HubKeepsRegistry == RegistryInv /\ [HubNext]_hubVars => RegistryInv'
  <1> SUFFICES ASSUME RegistryInv, [HubNext]_hubVars PROVE RegistryInv'
    OBVIOUS
  <1>1. CASE RegistryStep
    BY <1>1, RegistryMovesKeep DEF RegistryStep
  <1>2. CASE UNCHANGED registryVars
    <2>1. Wires
      BY <1>2 DEF RegistryInv, Wires, NodesKept, AdminTyped, registryVars, admin
    <2> QED
      BY <2>1, WiringKeeps DEF Wires
  <1> QED
    BY <1>1, <1>2 DEF HubNext, EscrowStep, hubVars, vars

\* The registry's invariant holds in the Hub.
THEOREM HubRegistryInvariance == HubSpec => []RegistryInv
  <1>1. HubInit => RegistryInv
    BY RegistryStarts DEF HubInit
  <1> QED
    BY <1>1, HubKeepsRegistry, PTL DEF HubSpec

\* The escrow next to the real registry behaves as the escrow of SettlementEscrow:
\* every theorem about that one holds of the deployed Hub.
THEOREM HubRefinesEscrow == HubSpec => EscrowSpec
  <1>1. HubInit => Escrow!Init
    BY DEF HubInit
  <1>2. RegistryInv /\ [HubNext]_hubVars => [Escrow!Next]_(Escrow!vars)
    BY HubStepRefines
  <1> QED
    BY <1>1, <1>2, HubRegistryInvariance, PTL DEF HubSpec, EscrowSpec, Escrow!Spec

-------------------------------------------------------------------------------
\* The Hub: what is proved of the escrow, and what it means for the rundown.

\* The proofs about the escrow, read with the registry's answers as in Hub.
EscrowProofs == INSTANCE SettlementEscrowProofs
    WITH registryOwner   <- owner,
         supportedTiers  <- [n \in Nodes |-> {t \in SecurityTier : SupportsTier(n, t)}],
         OwnerChoices    <- Accounts,
         OperatorChoices <- Accounts \cup {NoAccount},
         TierChoices     <- SUBSET SecurityTier

\* The two instances are instances of the same definitions.
LEMMA SameStep == [Escrow!Next]_(Escrow!vars) <=> [EscrowProofs!Next]_(EscrowProofs!vars)
  BY PTL DEF Escrow!Next, EscrowProofs!Next, Escrow!vars, EscrowProofs!vars,
             Escrow!balances, EscrowProofs!balances, Escrow!caches, EscrowProofs!caches,
             Escrow!sessionVars, EscrowProofs!sessionVars, Escrow!roles,
             EscrowProofs!roles, Escrow!rates, EscrowProofs!rates, Escrow!custody,
             EscrowProofs!custody, Escrow!registryView, EscrowProofs!registryView,
             Escrow!oracleView, EscrowProofs!oracleView, Escrow!Addresses,
             EscrowProofs!Addresses, Escrow!SessionIds, EscrowProofs!SessionIds,
             Escrow!Tier, EscrowProofs!Tier, Escrow!Price, EscrowProofs!Price,
             Escrow!NewSession, EscrowProofs!NewSession, Escrow!NativeToInternal,
             EscrowProofs!NativeToInternal, Escrow!InternalToNative,
             EscrowProofs!InternalToNative, Escrow!Uint64, EscrowProofs!Uint64,
             Escrow!UsageCost, EscrowProofs!UsageCost, Escrow!ProtocolFee,
             EscrowProofs!ProtocolFee, Escrow!PayNative, EscrowProofs!PayNative,
             Escrow!SetTeePriceMultiplierBps, EscrowProofs!SetTeePriceMultiplierBps,
             Escrow!SetSettlementOperator, EscrowProofs!SetSettlementOperator,
             Escrow!SetRecordUsage, EscrowProofs!SetRecordUsage,
             Escrow!SetProtocolTreasury, EscrowProofs!SetProtocolTreasury,
             Escrow!SetProtocolFeeBps, EscrowProofs!SetProtocolFeeBps,
             Escrow!WithdrawProtocolDot, EscrowProofs!WithdrawProtocolDot,
             Escrow!DepositDot, EscrowProofs!DepositDot, Escrow!WithdrawDot,
             EscrowProofs!WithdrawDot, Escrow!DepositUsdcAsDot,
             EscrowProofs!DepositUsdcAsDot, Escrow!WithdrawProviderDot,
             EscrowProofs!WithdrawProviderDot, Escrow!Receive, EscrowProofs!Receive,
             Escrow!FundLockedSession, EscrowProofs!FundLockedSession, Escrow!OpenSession,
             EscrowProofs!OpenSession, Escrow!Metered, EscrowProofs!Metered,
             Escrow!RecordUsage, EscrowProofs!RecordUsage, Escrow!SplitAllowed,
             EscrowProofs!SplitAllowed, Escrow!Released, EscrowProofs!Released,
             Escrow!CloseCount, EscrowProofs!CloseCount, Escrow!PayProvider,
             EscrowProofs!PayProvider, Escrow!Unlock, EscrowProofs!Unlock, Escrow!Settle,
             EscrowProofs!Settle, Escrow!SettleByUser, EscrowProofs!SettleByUser,
             Escrow!SettleByOperator, EscrowProofs!SettleByOperator,
             Escrow!RegistryChanges, EscrowProofs!RegistryChanges,
             Escrow!RegistryOwnerChanges, EscrowProofs!RegistryOwnerChanges,
             Escrow!ModelPriceChanges, EscrowProofs!ModelPriceChanges, Escrow!RateChanges,
             EscrowProofs!RateChanges, Escrow!Governance, EscrowProofs!Governance,
             Escrow!MoneyMoves, EscrowProofs!MoneyMoves, Escrow!SessionMoves,
             EscrowProofs!SessionMoves, Escrow!OutsideMoves, EscrowProofs!OutsideMoves

\* They start alike.
LEMMA SameStart == Escrow!Init <=> EscrowProofs!Init
  BY PTL DEF Escrow!Init, EscrowProofs!Init, Escrow!SessionIds, EscrowProofs!SessionIds,
             Escrow!NoSession, EscrowProofs!NoSession, Escrow!NewSession,
             EscrowProofs!NewSession

\* They mean the same sessions.
LEMMA SameOpen ==
    ASSUME NEW n
    PROVE  Escrow!OpenSessionsOf(n) = EscrowProofs!OpenSessionsOf(n)
  BY DEF Escrow!OpenSessionsOf, EscrowProofs!OpenSessionsOf, Escrow!SessionIds,
         EscrowProofs!SessionIds

\* Finiteness means the same in every instance of FiniteSets.
LEMMA SameFinite ==
    ASSUME NEW S
    PROVE  /\ Escrow!IsFiniteSet(S) <=> IsFiniteSet(S)
           /\ EscrowProofs!IsFiniteSet(S) <=> IsFiniteSet(S)
  BY DEF Escrow!IsFiniteSet, EscrowProofs!IsFiniteSet, IsFiniteSet

\* The escrow's inductive invariant holds at deployment and after each step of the
\* escrow, and bounds what a step can do to the open sessions of a node.
LEMMA EscrowFacts ==
    /\ EscrowProofs!Init => EscrowProofs!IInv
    /\ EscrowProofs!IInv /\ [EscrowProofs!Next]_(EscrowProofs!vars) => EscrowProofs!IInv'
  BY EscrowProofs!InitIInv, EscrowProofs!NextIInv, EscrowAssumption, SameFinite
     DEF Escrow!AccountAssumption, Escrow!FiniteAssumption, Escrow!AmountAssumption,
         Escrow!ScaleAssumption, Escrow!Addresses, EscrowProofs!Addresses, Escrow!Tier,
         EscrowProofs!Tier, Escrow!Price, EscrowProofs!Price, SecurityTier

\* markDefunct's question: a zero counter means no unsettled session.
LEMMA ZeroMeansDrained ==
    ASSUME EscrowProofs!IInv, NEW n \in Nodes, openSessionCountByNode[n] = 0
    PROVE  Escrow!OpenSessionsOf(n) = {}
  <1>1. EscrowProofs!OpenSessionsOf(n) = {}
    BY EscrowProofs!ZeroCountDrained, EscrowAssumption, SameFinite
     DEF Escrow!AccountAssumption, Escrow!FiniteAssumption, Escrow!AmountAssumption,
         Escrow!ScaleAssumption, Escrow!Addresses, EscrowProofs!Addresses, Escrow!Tier,
         EscrowProofs!Tier, Escrow!Price, EscrowProofs!Price, SecurityTier
  <1> QED
    BY <1>1, SameOpen

\* openSession's question: a node that supports no tier gets no session.
LEMMA NothingOpens ==
    ASSUME EscrowProofs!IInv, [EscrowProofs!Next]_(EscrowProofs!vars), NEW n \in Nodes,
           TiersOf(n) = {}
    PROVE  Escrow!OpenSessionsOf(n)' \subseteq Escrow!OpenSessionsOf(n)
  <1>1. EscrowProofs!OpenSessionsOf(n)' \subseteq EscrowProofs!OpenSessionsOf(n)
    BY EscrowProofs!OpensSupported, EscrowAssumption, SameFinite
     DEF Escrow!AccountAssumption, Escrow!FiniteAssumption, Escrow!AmountAssumption,
         Escrow!ScaleAssumption, Escrow!Addresses, EscrowProofs!Addresses, Escrow!Tier,
         EscrowProofs!Tier, Escrow!Price, EscrowProofs!Price, SecurityTier, TiersOf
  <1> QED
    BY <1>1 DEF Escrow!OpenSessionsOf, EscrowProofs!OpenSessionsOf, Escrow!SessionIds,
       EscrowProofs!SessionIds

\* The registry was deployed with the Hub's escrow, or not wired yet, and its owner
\* never wires another contract.
OnlyHubEscrow ==
    /\ InitialEscrow \in {HubEscrow, NoAccount}
    /\ EscrowArgs \subseteq {HubEscrow, NoAccount}

WiredToHub == settlementEscrow \in {HubEscrow, NoAccount}

\* Only setSettlementEscrow rewires the registry.
LEMMA WiringStays ==
    ASSUME OnlyHubEscrow, RegistryInv, WiredToHub, [HubNext]_hubVars
    PROVE  WiredToHub'
  <1>1. settlementEscrow' \in {settlementEscrow} \cup EscrowArgs
    <2>1. CASE OwnerMoves
      BY <2>1 DEF OwnerMoves, TransferOwnership, SetAttestationService,
         SetSettlementEscrow, SetNodeFee, PurgeDefunctNode, admin
    <2>2. CASE NodeMoves
      <3>1. ASSUME NEW a, NEW n, NEW p, NEW b, NEW t, NEW u, NEW k,
                   RegisterNode(a, n, p, b, t, u, k)
            PROVE  UNCHANGED admin
        BY <3>1, Zenon DEF RegisterNode
      <3>2. ASSUME NEW a, NEW n, NEW k, NEW g, RotateEncryptionKey(a, n, k, g)
            PROVE  UNCHANGED admin
        BY <3>2, Zenon DEF RotateEncryptionKey
      <3>3. ASSUME NEW a, NEW n, NEW v, RevokeEncryptionKey(a, n, v)
            PROVE  UNCHANGED admin
        BY <3>3, Zenon DEF RevokeEncryptionKey
      <3>4. UNCHANGED admin
        BY <2>2, <3>1, <3>2, <3>3 DEF NodeMoves, ChillNode, MarkDefunct, SetNodePayout,
           SetNodeActive, SetNodeMetadata, SetTEEProof
      <3> QED
        BY <3>4 DEF admin
    <2>3. CASE Block \/ UNCHANGED registryVars
      BY <2>3 DEF Block, registryVars, admin
    <2> QED
      BY <2>1, <2>2, <2>3 DEF HubNext, RegistryStep, RegistryMoves, EscrowStep, hubVars, vars
  <1> QED
    BY <1>1 DEF OnlyHubEscrow, WiredToHub

\* The registry's half: a step of the registry leaves the sessions alone, and makes
\* a node defunct only when the escrow counts no session of it.
LEMMA RegistryDrains ==
    ASSUME RegistryInv, EscrowProofs!IInv, DefunctNodesDrained, WiredToHub, RegistryStep
    PROVE  DefunctNodesDrained'
  <1>1. RegistryMoves /\ UNCHANGED <<openSessionCountByNode, escrowOwn>>
    BY DEF RegistryStep
  <1>2. \A m \in Nodes : Escrow!OpenSessionsOf(m)' = Escrow!OpenSessionsOf(m)
    BY <1>1 DEF escrowOwn, Escrow!OpenSessionsOf, Escrow!SessionIds
  <1>3. NodesTyped
    BY DEF RegistryInv
  <1> SUFFICES ASSUME NEW m \in Nodes,
                      nodes'[m].lifecycle = "Defunct" \/ nodeOperator'[m] = NoAccount
               PROVE  Escrow!OpenSessionsOf(m) = {}
    BY <1>2 DEF DefunctNodesDrained
  <1>4. CASE UNCHANGED <<nodes[m], nodeOperator[m]>>
    BY <1>4 DEF DefunctNodesDrained
  <1>5. CASE SomeNodeStep(m)
    <2>1. PICK info \in NodeInfo, keys \in [Versions -> EncryptionKey] : NodeStep(m, info, keys)
      BY <1>5 DEF SomeNodeStep
    <2>2. nodes'[m] = info /\ nodeOperator'[m] # NoAccount
      BY <1>3, <2>1 DEF NodeStep, NodesTyped, index
    <2>3. CASE nodes[m].lifecycle = "Defunct"
      BY <2>3 DEF DefunctNodesDrained
    <2>4. CASE nodes[m].lifecycle # "Defunct"
      <3>1. openSessionCountByNode[m] = 0
        BY <2>1, <2>2, <2>4 DEF NodeStep, Drained, WiredToHub
      <3> QED
        BY <3>1, ZeroMeansDrained
    <2> QED
      BY <2>3, <2>4
  <1>6. CASE Purges(m)
    BY <1>6 DEF Purges, PurgeDefunctNode, DefunctNodesDrained
  <1>7. CASE Registers(m)
    <2>1. nodeOperator[m] = NoAccount
      BY <1>7 DEF Registers, RegisterNode
    <2> QED
      BY <2>1 DEF DefunctNodesDrained
  <1>8. CASE Wires
    BY <1>4, <1>8 DEF Wires, NodesKept, index
  <1> QED
    BY <1>1, <1>4, <1>5, <1>6, <1>7, <1>8, RegistryMoveKinds, OthersKept

\* The escrow's half: it opens no session on a node that is gone.
LEMMA EscrowDrains ==
    ASSUME RegistryInv, EscrowProofs!IInv, DefunctNodesDrained, UNCHANGED registryVars,
           [EscrowProofs!Next]_(EscrowProofs!vars)
    PROVE  DefunctNodesDrained'
  <1>1. UNCHANGED <<nodes, nodeOperator>>
    BY DEF registryVars, index
  <1>2. ASSUME NEW n \in Nodes, nodes[n].lifecycle = "Defunct" \/ nodeOperator[n] = NoAccount
        PROVE  Escrow!OpenSessionsOf(n)' = {}
    <2>1. TiersOf(n) = {}
      BY <1>2, GoneSupportsNothing
    <2>2. Escrow!OpenSessionsOf(n)' \subseteq Escrow!OpenSessionsOf(n)
      BY <2>1, NothingOpens
    <2>3. Escrow!OpenSessionsOf(n) = {}
      BY <1>2 DEF DefunctNodesDrained
    <2> QED
      BY <2>2, <2>3
  <1> QED
    BY <1>1, <1>2 DEF DefunctNodesDrained

\* A defunct or purged node never owes an unsettled session, for any number of
\* nodes, operators and sessions, when no escrow but the Hub's is ever wired.
THEOREM DefunctAlwaysDrained ==
    ASSUME OnlyHubEscrow
    PROVE  HubSpec => []DefunctNodesDrained
  <1> DEFINE HubInv == RegistryInv /\ EscrowProofs!IInv /\ WiredToHub /\ DefunctNodesDrained
  <1>1. HubInit => HubInv
    <2> SUFFICES ASSUME HubInit PROVE HubInv
      OBVIOUS
    <2>1. RegistryInv
      BY RegistryStarts DEF HubInit
    <2>2. EscrowProofs!IInv
      BY EscrowFacts, SameStart DEF HubInit
    <2>3. WiredToHub
      BY DEF HubInit, RegistryInit, WiredToHub, OnlyHubEscrow
    <2>4. ASSUME NEW n \in Nodes PROVE Escrow!OpenSessionsOf(n) = {}
      <3>1. openSessionCountByNode[n] = 0
        BY DEF HubInit, Escrow!Init
      <3> QED
        BY <2>2, <3>1, ZeroMeansDrained
    <2> QED
      BY <2>1, <2>2, <2>3, <2>4 DEF DefunctNodesDrained
  <1>2. HubInv /\ [HubNext]_hubVars => HubInv'
    <2> SUFFICES ASSUME HubInv, [HubNext]_hubVars PROVE HubInv'
      OBVIOUS
    <2>1. [EscrowProofs!Next]_(EscrowProofs!vars)
      BY HubStepRefines, SameStep
    <2>2. RegistryInv' /\ EscrowProofs!IInv' /\ WiredToHub'
      BY <2>1, HubKeepsRegistry, EscrowFacts, WiringStays
    <2>3. CASE RegistryStep
      BY <2>2, <2>3, RegistryDrains
    <2>4. CASE UNCHANGED registryVars
      BY <2>1, <2>2, <2>4, EscrowDrains
    <2> QED
      BY <2>2, <2>3, <2>4 DEF HubNext, EscrowStep, hubVars, vars
  <1>3. HubInv => DefunctNodesDrained
    OBVIOUS
  <1> HIDE DEF HubInv
  <1> QED
    BY <1>1, <1>2, <1>3, PTL DEF HubSpec
===============================================================================
