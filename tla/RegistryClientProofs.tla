-------------------------- MODULE RegistryClientProofs --------------------------
(***************************************************************************)
(* Proofs about a node's keys, for any number of key versions, identities, *)
(* registrations, retries, lost answers and stops: every key the contract  *)
(* names can be recovered, the identity is never replaced, and without     *)
(* trouble the key in force is the one on disk.                            *)
(*                                                                         *)
(* The invariant follows the order of the writes.  A node without a secret *)
(* on disk has published nothing, so a new identity may replace what there *)
(* is; from the first secret on only a rotation writes that file, from the *)
(* secret the operator's tool read, which is still the one on disk.        *)
(***************************************************************************)
EXTENDS RegistryClient, SequenceTheorems, TLAPS

Publishing == {"register", "rotate"}
Generating == {"writesPublic", "writesSecret"}

\* Whoever is at work has an identity; what publishes a key has one.
Manned ==
    /\ server.at # "down" => server.id \in Loaded
    /\ server.at \in {"writesSwarmKey", "swarmUp", "up"} => server.peer \in Peer
    /\ server.at \in Generating => \E seed \in 1..MaxSeeds : server.id = Fresh(seed)
    /\ tool.at # "idle" =>
           /\ tool.id \in Loaded /\ tool.tx \in Tx
           /\ tool.tx.kind \in Publishing => tool.tx.key \in Key
           /\ tool.at = "backsOff" => tool.tx.kind = "register" /\ tool.attempt < MaxRetries
    /\ \A tx \in mempool : tx.kind \in Publishing => tx.key \in Key
    /\ entry.lifecycle = "Unregistered" => entry = NoEntry

\* The swarm key is written once, before any identity carries its peer id.
OneSwarmKey ==
    /\ server.at = "writesSwarmKey" => swarmFile = NoFile
    /\ server.at \in {"swarmUp", "up"} => swarmFile = server.peer
    /\ Written(publicFile) => publicFile.peer \in {NoPeer, swarmFile}
    /\ server.at # "down" => server.id.public.peer \in {NoPeer, swarmFile}
    /\ tool.at # "idle" => tool.id.public.peer \in {NoPeer, swarmFile}

\* Until the first secret is on disk nothing was published; from then on only the
\* operator's tool writes it, from the secret it read.
OneSecret ==
    /\ publicFile = NoFile => secretFile = NoFile
    /\ secretFile = NoFile =>
           /\ server.at \in Generating \cup {"down"}
           /\ tool.at = "idle" /\ mempool = {} /\ entry = NoEntry
    /\ server.at \in Generating => secretFile = NoFile
    /\ server.at = "writesSecret" => publicFile = server.id.public
    /\ tool.at # "idle" => tool.id.secret = secretFile
    /\ tool.at # "idle" /\ tool.tx.kind = "rotate" =>
           tool.tx.key = NextRotation(secretFile).key /\ secretFile.version < MaxVersion
    /\ tool.at \in Generating => tool.tx.kind = "rotate"
    /\ Written(secretFile) =>
           secretFile.version <= MaxVersion /\ (secretFile.version = 0 => secretFile.legacy = NoKey)

Opens(secret, key) == \E w \in 0..MaxVersion : DecryptKey(secret, w) = key

\* Every key that is published, or may yet be, opens with the secret on disk.
KeysOpen ==
    Written(secretFile) =>
        /\ Written(publicFile) => Opens(secretFile, publicFile.pubkey)
        /\ server.at # "down" => Opens(secretFile, server.id.public.pubkey)
        /\ tool.at # "idle" /\ tool.tx.kind \in Publishing => Opens(secretFile, tool.tx.key)
        /\ \A tx \in mempool : tx.kind \in Publishing => Opens(secretFile, tx.key)
        /\ \A v \in DOMAIN entry.book : Opens(secretFile, entry.book[v])

KeyInv == TypeOK /\ Manned /\ OneSwarmKey /\ OneSecret /\ KeysOpen

\* The rotation in hand is in the contract, and not yet on disk.
RotationMined ==
    \/ tool.at \in Generating
    \/ tool.at = "watches" /\ tool.tx \notin mempool /\ tool.tx.kind = "rotate"

\* The one transaction on its way is the one the tool watches.
OneAtATime == mempool # {} => tool.at = "watches" /\ mempool = {tool.tx}

\* A node whose secret cannot be read has done nothing yet.
Provisioned ==
    /\ secretFile \in {NoFile, Torn} => registrations = 0 /\ tool.at = "idle"
    /\ secretFile = Torn => server.at = "down"

\* Before the first registration every copy of the public key is the one of the secret.
Unregistered ==
    registrations = 0 =>
        /\ entry = NoEntry
        /\ tool.at \in {"watches"} \cup Generating => tool.tx.kind = "register"
        /\ Written(secretFile) =>
               /\ Written(publicFile) => publicFile.pubkey = secretFile.key
               /\ server.at # "down" => server.id.public.pubkey = secretFile.key
               /\ tool.at # "idle" /\ tool.tx.kind = "register" => tool.tx.key = secretFile.key

\* The version in force of the first registration.
Headline ==
    registrations = 1 /\ entry.current # 0 =>
        entry.book[entry.current] = IF RotationMined THEN tool.tx.key ELSE secretFile.key

\* As long as nothing was lost and nothing stopped in the tool, the contract follows
\* the disk, or is one rotation ahead of it.
InStep == troubles = 0 => OneAtATime /\ Provisioned /\ Unregistered /\ Headline

-------------------------------------------------------------------------------
\* Keys.

\* A secret after a rotation opens what it opened before.
LEMMA RotationOpens ==
    ASSUME NEW secret \in Secret, secret.version = 0 => secret.legacy = NoKey,
           secret.version < MaxVersion
    PROVE  /\ NextRotation(secret) \in Secret
           /\ NextRotation(secret).seed = secret.seed
           /\ NextRotation(secret).version \in 1..MaxVersion
           /\ NextRotation(secret).key \in Key
           /\ Opens(secret, NextRotation(secret).key)
           /\ \A key : Opens(secret, key) => Opens(NextRotation(secret), key)
  <1>1. /\ secret.seed \in 1..MaxSeeds /\ secret.version \in Nat /\ secret.key \in Key
        /\ secret.legacy \in Key \cup {NoKey}
    BY DEF Secret
  <1>2. PICK next, legacy : /\ next = secret.version + 1
                            /\ legacy = IF secret.version = 0 THEN secret.key ELSE secret.legacy
    OBVIOUS
  <1>3. next \in 1..MaxVersion /\ next \in Nat /\ next # 0 /\ legacy \in Key \cup {NoKey}
    BY <1>1, <1>2, RegistryClientAssumption
  <1>4. NextRotation(secret) = [seed |-> secret.seed, version |-> next,
                                key |-> Derive(secret.seed, next), legacy |-> legacy]
    BY <1>2 DEF NextRotation
  <1>5. Derive(secret.seed, next) \in Key
    BY <1>1, <1>3 DEF Derive, Key
  <1>6. PICK rotated : rotated = NextRotation(secret)
    OBVIOUS
  <1>7. /\ rotated \in Secret /\ rotated.seed = secret.seed /\ rotated.version = next
        /\ rotated.key = Derive(secret.seed, next) /\ rotated.legacy = legacy
    BY <1>1, <1>3, <1>4, <1>5, <1>6 DEF Secret
  <1>8. Opens(secret, rotated.key)
    <2>1. DecryptKey(secret, next) = rotated.key /\ next \in 0..MaxVersion
      BY <1>3, <1>7 DEF DecryptKey
    <2> QED
      BY <2>1 DEF Opens
  <1>9. ASSUME NEW w \in 0..MaxVersion PROVE DecryptKey(rotated, w) = DecryptKey(secret, w)
    <2>1. CASE w # 0
      BY <1>7, <2>1 DEF DecryptKey
    <2>2. CASE w = 0 /\ secret.version = 0
      <3>1. legacy = secret.key /\ legacy # NoKey /\ secret.legacy = NoKey
        BY <1>1, <1>2, <2>2, NothingAssumption
      <3> QED
        BY <1>7, <2>2, <3>1 DEF DecryptKey
    <2>3. CASE w = 0 /\ secret.version # 0
      BY <1>2, <1>3, <1>7, <2>3 DEF DecryptKey
    <2> QED
      BY <2>1, <2>2, <2>3
  <1>10. \A key : Opens(secret, key) => Opens(rotated, key)
    BY <1>9 DEF Opens
  <1> QED
    BY <1>3, <1>5, <1>6, <1>7, <1>8, <1>10

\* The secret of a new identity opens its public key.
LEMMA FreshOpens ==
    ASSUME NEW seed \in 1..MaxSeeds
    PROVE  LET id == Fresh(seed)
           IN  /\ id \in Loaded /\ id.public \in Public /\ id.secret \in Secret
               /\ id.public.peer = NoPeer /\ id.public.pubkey = id.secret.key
               /\ id.secret.version = 1 /\ 1 <= MaxVersion
               /\ Opens(id.secret, id.public.pubkey)
  <1>1. Derive(seed, 1) \in Key
    BY DEF Derive, Key
  <1>2. PICK public, secret :
            /\ public = [pubkey |-> Derive(seed, 1), peer |-> NoPeer]
            /\ secret = [seed |-> seed, version |-> 1, key |-> Derive(seed, 1), legacy |-> NoKey]
    OBVIOUS
  <1>3. /\ public \in Public /\ secret \in Secret /\ public.pubkey = Derive(seed, 1)
        /\ public.peer = NoPeer /\ secret.seed = seed /\ secret.version = 1
        /\ secret.key = Derive(seed, 1)
    BY <1>1, <1>2 DEF Public, Secret
  <1>4. PICK id : id = [public |-> public, secret |-> secret]
    OBVIOUS
  <1>5. id = Fresh(seed) /\ id.public = public /\ id.secret = secret /\ id \in Loaded
    BY <1>2, <1>3, <1>4 DEF Fresh, Loaded
  <1>6. 1 <= MaxVersion /\ 1 \in 0..MaxVersion
    BY RegistryClientAssumption
  <1>7. DecryptKey(secret, 1) = public.pubkey
    BY <1>3 DEF DecryptKey
  <1>8. Opens(secret, public.pubkey)
    BY <1>6, <1>7 DEF Opens
  <1> QED
    BY <1>3, <1>5, <1>6, <1>8

\* Files that were written are records; nothing else is.
LEMMA WrittenTyped ==
    ASSUME TypeOK
    PROVE  /\ Written(publicFile) <=> publicFile \in Public
           /\ Written(secretFile) <=> secretFile \in Secret
           /\ Written(swarmFile) <=> swarmFile \in Peer
           /\ publicFile \notin Public => publicFile \in {NoFile, Torn}
           /\ secretFile \notin Secret => secretFile \in {NoFile, Torn}
  BY NothingAssumption DEF TypeOK, Written

LEMMA IdentityTyped ==
    ASSUME NEW id \in Loaded
    PROVE  /\ id.public \in Public /\ id.secret \in Secret
           /\ id = [public |-> id.public, secret |-> id.secret]
           /\ id.public.pubkey \in Key /\ id.public.peer \in Peer \cup {NoPeer}
  BY DEF Loaded, Public

-------------------------------------------------------------------------------
\* The start.

LEMMA KeyStart == Init => KeyInv /\ InStep
  <1> SUFFICES ASSUME Init PROVE KeyInv /\ InStep
    OBVIOUS
  <1>1. /\ entry = NoEntry /\ mempool = {} /\ tool = Idle /\ registrations = 0 /\ troubles = 0
        /\ server = Down
    BY DEF Init, IdentityInit
  <1>2. /\ tool.at = "idle" /\ server.at = "down" /\ entry.lifecycle = "Unregistered"
        /\ entry.book = <<>> /\ entry.current = 0
    BY <1>1 DEF Idle, Down, NoEntry
  <1>3. tool \in Tool /\ entry \in Entry
    <2>1. 0 \in 0..MaxRetries
      BY RegistryClientAssumption
    <2>2. <<>> \in Seq(Key)
      OBVIOUS
    <2> QED
      BY <1>1, <2>1, <2>2 DEF Tool, Idle, Entry, NoEntry, Lifecycle
  <1>4. /\ server \in [at : {"down", "writesPublic", "writesSecret", "loaded", "writesSwarmKey",
                             "swarmUp", "up"},
                       id : Loaded \cup {NoIdentity}, peer : Peer \cup {NoPeer}]
        /\ 0 \in 0..MaxRegistrations /\ 0 \in 0..MaxTroubles
    BY <1>1, RegistryClientAssumption DEF Down
  <1>5. CASE publicFile = NoFile /\ secretFile = NoFile /\ swarmFile = NoFile /\ seeds = 0 /\ swarmKeys = 0
    <2>1. TypeOK
      BY <1>1, <1>3, <1>4, <1>5, IdentityAssumption DEF TypeOK
    <2>2. ~Written(publicFile) /\ ~Written(secretFile)
      BY <1>5 DEF Written
    <2>3. Manned /\ OneSwarmKey /\ OneSecret /\ KeysOpen
      BY <1>1, <1>2, <1>5, <2>2 DEF Manned, OneSwarmKey, OneSecret, KeysOpen, Generating
    <2>4. InStep
      BY <1>1, <1>2, <1>5, <2>2, IdentityAssumption
      DEF InStep, OneAtATime, Provisioned, Unregistered, Headline, Generating
    <2> QED
      BY <2>1, <2>3, <2>4 DEF KeyInv
  <1>6. CASE /\ publicFile = [pubkey |-> LegacySecret.key, peer |-> 1]
             /\ secretFile = LegacySecret
             /\ swarmFile = 1 /\ seeds = 1 /\ swarmKeys = 1
    <2>1. 1 \in 1..MaxSeeds /\ 1 \in 0..MaxSeeds /\ 0 \in 0..MaxVersion /\ 0 <= MaxVersion
      BY IdentityAssumption, RegistryClientAssumption
    <2>2. Derive(1, 0) \in Key
      BY <2>1 DEF Derive, Key
    <2>3. /\ secretFile.seed = 1 /\ secretFile.version = 0 /\ secretFile.key = Derive(1, 0)
          /\ secretFile.legacy = NoKey /\ secretFile \in Secret
      BY <1>6, <2>1, <2>2 DEF LegacySecret, Secret
    <2>4. publicFile.pubkey = secretFile.key /\ publicFile.peer = 1 /\ publicFile \in Public
      BY <1>6, <2>1, <2>2, <2>3 DEF Public, Peer
    <2>5. swarmFile \in Peer
      BY <1>6, <2>1 DEF Peer
    <2>6. TypeOK
      BY <1>1, <1>3, <1>4, <1>6, <2>1, <2>3, <2>4, <2>5 DEF TypeOK
    <2>7. Written(publicFile) /\ Written(secretFile)
      BY <2>3, <2>4, <2>6, WrittenTyped
    <2>8. Opens(secretFile, publicFile.pubkey)
      BY <2>1, <2>3, <2>4 DEF Opens, DecryptKey
    <2>9. Manned /\ OneSwarmKey /\ OneSecret /\ KeysOpen
      BY <1>1, <1>2, <1>6, <2>1, <2>3, <2>4, <2>7, <2>8
      DEF Manned, OneSwarmKey, OneSecret, KeysOpen, Generating, Written
    <2>10. InStep
      BY <1>1, <1>2, <2>3, <2>4, <2>7
      DEF InStep, OneAtATime, Provisioned, Unregistered, Headline, Generating, Written
    <2> QED
      BY <2>6, <2>9, <2>10 DEF KeyInv
  <1> QED
    BY <1>5, <1>6 DEF Init, IdentityInit

-------------------------------------------------------------------------------
\* The server.

\* What the server's steps leave alone.
Outside == <<entry, mempool, tool, registrations, troubles>>

ServerRecord ==
    [at : {"down", "writesPublic", "writesSecret", "loaded", "writesSwarmKey", "swarmUp", "up"},
     id : Loaded \cup {NoIdentity}, peer : Peer \cup {NoPeer}]

LEMMA ServerLoadsKeeps ==
    ASSUME KeyInv, ServerLoads, UNCHANGED Outside
    PROVE  KeyInv'
  <1>1. TypeOK /\ Manned /\ OneSwarmKey /\ OneSecret /\ KeysOpen
    BY DEF KeyInv
  <1>2. /\ UNCHANGED <<publicFile, secretFile, swarmFile, seeds, swarmKeys>>
        /\ UNCHANGED <<entry, mempool, tool, registrations, troubles>>
        /\ server.at = "down" /\ Written(publicFile) /\ Written(secretFile)
    BY DEF ServerLoads, Readable, Outside
  <1>3. publicFile \in Public /\ secretFile \in Secret
    BY <1>1, <1>2, WrittenTyped
  <1>4. /\ server' = [at |-> "loaded", id |-> [public |-> publicFile, secret |-> secretFile], peer |-> NoPeer]
        /\ [public |-> publicFile, secret |-> secretFile] \in Loaded
    BY <1>3 DEF ServerLoads, FromDisk, Loaded
  <1>5. /\ server'.at = "loaded" /\ server'.id \in Loaded /\ server'.id.public = publicFile
        /\ server' \in ServerRecord
    BY <1>4 DEF ServerRecord
  <1>6. TypeOK'
    BY <1>1, <1>2, <1>5 DEF TypeOK, ServerRecord
  <1>7. Manned'
    BY <1>1, <1>2, <1>5 DEF Manned, Generating
  <1>8. OneSwarmKey'
    BY <1>1, <1>2, <1>5 DEF OneSwarmKey, Written
  <1>9. OneSecret'
    BY <1>1, <1>2, <1>5 DEF OneSecret, Generating, Written
  <1>10. KeysOpen'
    BY <1>1, <1>2, <1>5 DEF KeysOpen, Written
  <1> QED
    BY <1>6, <1>7, <1>8, <1>9, <1>10 DEF KeyInv

\* A new identity: there was no secret, so nothing was published.
LEMMA ServerGeneratesKeeps ==
    ASSUME KeyInv, ServerGenerates, UNCHANGED Outside
    PROVE  KeyInv'
  <1>1. TypeOK /\ Manned /\ OneSwarmKey /\ OneSecret /\ KeysOpen
    BY DEF KeyInv
  <1>2. /\ UNCHANGED <<publicFile, secretFile, swarmFile, swarmKeys>>
        /\ UNCHANGED <<entry, mempool, tool, registrations, troubles>>
        /\ server.at = "down" /\ seeds < MaxSeeds /\ seeds' = seeds + 1
    BY DEF ServerGenerates, Outside
  <1>3. secretFile = NoFile /\ ~Written(secretFile)
    BY <1>1 DEF ServerGenerates, OneSecret, Written
  <1>4. PICK seed \in 1..MaxSeeds : seed = seeds + 1
    BY <1>1, <1>2, IdentityAssumption DEF TypeOK
  <1>5. PICK id : id = Fresh(seed)
    OBVIOUS
  <1>6. id \in Loaded /\ id.public.peer = NoPeer
    BY <1>5, FreshOpens
  <1>7. server' = [at |-> "writesPublic", id |-> id, peer |-> NoPeer]
    BY <1>4, <1>5 DEF ServerGenerates
  <1>8. server'.at = "writesPublic" /\ server'.id = id /\ server' \in ServerRecord
    BY <1>6, <1>7 DEF ServerRecord
  <1>9. TypeOK'
    <2>1. seeds' \in 0..MaxSeeds
      BY <1>2, <1>4
    <2> QED
      BY <1>1, <1>2, <1>8, <2>1 DEF TypeOK, ServerRecord
  <1>10. Manned'
    BY <1>1, <1>2, <1>5, <1>6, <1>8 DEF Manned, Generating
  <1>11. OneSwarmKey'
    BY <1>1, <1>2, <1>6, <1>8 DEF OneSwarmKey, Written
  <1>12. OneSecret'
    BY <1>1, <1>2, <1>3, <1>8 DEF OneSecret, Generating, Written
  <1>13. KeysOpen'
    BY <1>2, <1>3 DEF KeysOpen, Written
  <1> QED
    BY <1>9, <1>10, <1>11, <1>12, <1>13 DEF KeyInv

LEMMA WritesPublicKeeps ==
    ASSUME KeyInv, WritesPublic, UNCHANGED Outside
    PROVE  KeyInv'
  <1>1. TypeOK /\ Manned /\ OneSwarmKey /\ OneSecret /\ KeysOpen
    BY DEF KeyInv
  <1>2. /\ UNCHANGED <<secretFile, swarmFile, seeds, swarmKeys>>
        /\ UNCHANGED <<entry, mempool, tool, registrations, troubles>>
        /\ server.at = "writesPublic" /\ publicFile' = server.id.public
    BY DEF WritesPublic, Outside
  <1>3. secretFile = NoFile /\ ~Written(secretFile)
    BY <1>1, <1>2 DEF OneSecret, Generating, Written
  <1>4. PICK seed \in 1..MaxSeeds : server.id = Fresh(seed)
    BY <1>1, <1>2 DEF Manned, Generating
  <1>5. server.id \in Loaded /\ server.id.public \in Public /\ server.id.public.peer = NoPeer
    BY <1>4, FreshOpens
  <1>6. server' = [server EXCEPT !.at = "writesSecret"] /\ server \in ServerRecord
    BY <1>1 DEF WritesPublic, TypeOK, ServerRecord
  <1>7. server'.at = "writesSecret" /\ server'.id = server.id /\ server' \in ServerRecord
    BY <1>6 DEF ServerRecord
  <1>8. TypeOK'
    BY <1>1, <1>2, <1>5, <1>7 DEF TypeOK, ServerRecord
  <1>9. Manned'
    BY <1>1, <1>2, <1>4, <1>5, <1>7 DEF Manned, Generating
  <1>10. OneSwarmKey'
    BY <1>1, <1>2, <1>5, <1>7 DEF OneSwarmKey, Written
  <1>11. OneSecret'
    BY <1>1, <1>2, <1>3, <1>7 DEF OneSecret, Generating, Written
  <1>12. KeysOpen'
    BY <1>2, <1>3 DEF KeysOpen, Written
  <1> QED
    BY <1>8, <1>9, <1>10, <1>11, <1>12 DEF KeyInv

\* The first secret: its own public key is all there is.
LEMMA WritesSecretKeeps ==
    ASSUME KeyInv, WritesSecret, UNCHANGED Outside
    PROVE  KeyInv'
  <1>1. TypeOK /\ Manned /\ OneSwarmKey /\ OneSecret /\ KeysOpen
    BY DEF KeyInv
  <1>2. /\ UNCHANGED <<publicFile, swarmFile, seeds, swarmKeys>>
        /\ UNCHANGED <<entry, mempool, tool, registrations, troubles>>
        /\ server.at = "writesSecret" /\ secretFile' = server.id.secret
    BY DEF WritesSecret, Outside
  <1>3. /\ secretFile = NoFile /\ publicFile = server.id.public
        /\ tool.at = "idle" /\ mempool = {} /\ entry = NoEntry
    BY <1>1, <1>2 DEF OneSecret, Generating
  <1>4. PICK seed \in 1..MaxSeeds : server.id = Fresh(seed)
    BY <1>1, <1>2 DEF Manned, Generating
  <1>5. /\ server.id \in Loaded /\ server.id.public.peer = NoPeer /\ server.id.secret \in Secret
        /\ server.id.public \in Public
        /\ server.id.secret.version = 1 /\ 1 <= MaxVersion
        /\ Opens(server.id.secret, server.id.public.pubkey)
    BY <1>4, FreshOpens
  <1>6. server' = [server EXCEPT !.at = "loaded"] /\ server \in ServerRecord
    BY <1>1 DEF WritesSecret, TypeOK, ServerRecord
  <1>7. server'.at = "loaded" /\ server'.id = server.id /\ server' \in ServerRecord
    BY <1>6 DEF ServerRecord
  <1>8. entry.book = <<>>
    BY <1>3 DEF NoEntry
  <1>9. TypeOK'
    BY <1>1, <1>2, <1>5, <1>7 DEF TypeOK, ServerRecord
  <1>10. Manned'
    BY <1>1, <1>2, <1>5, <1>7 DEF Manned, Generating
  <1>11. OneSwarmKey'
    BY <1>1, <1>2, <1>5, <1>7 DEF OneSwarmKey, Written
  <1>12. OneSecret'
    <2>1. publicFile # NoFile /\ secretFile' # NoFile
      BY <1>2, <1>3, <1>5, NothingAssumption
    <2> QED
      BY <1>2, <1>3, <1>5, <1>7, <2>1 DEF OneSecret, Generating
  <1>13. KeysOpen'
    BY <1>2, <1>3, <1>5, <1>7, <1>8 DEF KeysOpen
  <1> QED
    BY <1>9, <1>10, <1>11, <1>12, <1>13 DEF KeyInv

LEMMA SwarmStartsKeeps ==
    ASSUME KeyInv, SwarmStarts, UNCHANGED Outside
    PROVE  KeyInv'
  <1>1. TypeOK /\ Manned /\ OneSwarmKey /\ OneSecret /\ KeysOpen
    BY DEF KeyInv
  <1>2. /\ UNCHANGED <<publicFile, secretFile, swarmFile, seeds>>
        /\ UNCHANGED <<entry, mempool, tool, registrations, troubles>>
        /\ server.at = "loaded" /\ server.id \in Loaded
    BY <1>1 DEF SwarmStarts, Outside, Manned
  <1>3. PICK at \in {"swarmUp", "writesSwarmKey"}, peer \in Peer :
            /\ server' = [at |-> at, id |-> server.id, peer |-> peer]
            /\ at = "swarmUp" => peer = swarmFile
            /\ at = "writesSwarmKey" => swarmFile = NoFile
            /\ swarmKeys' \in 0..MaxSeeds
    <2>1. CASE Written(swarmFile)
      BY <1>1, <2>1, WrittenTyped DEF SwarmStarts, TypeOK, Written
    <2>2. CASE ~Written(swarmFile)
      <3>1. /\ swarmFile = NoFile /\ swarmKeys < MaxSeeds /\ swarmKeys' = swarmKeys + 1
            /\ server' = [at |-> "writesSwarmKey", id |-> server.id, peer |-> swarmKeys + 1]
        BY <2>2 DEF SwarmStarts
      <3>2. swarmKeys + 1 \in Peer /\ swarmKeys' \in 0..MaxSeeds
        BY <1>1, <3>1, IdentityAssumption DEF TypeOK, Peer
      <3> QED
        BY <3>1, <3>2
    <2> QED
      BY <2>1, <2>2
  <1>4. /\ server'.at = at /\ server'.id = server.id /\ server'.peer = peer
        /\ server' \in ServerRecord
    BY <1>2, <1>3 DEF ServerRecord
  <1>5. TypeOK'
    BY <1>1, <1>2, <1>3, <1>4 DEF TypeOK, ServerRecord
  <1>6. Manned'
    BY <1>1, <1>2, <1>3, <1>4 DEF Manned, Generating
  <1>7. OneSwarmKey'
    BY <1>1, <1>2, <1>3, <1>4 DEF OneSwarmKey, Written
  <1>8. OneSecret'
    BY <1>1, <1>2, <1>3, <1>4 DEF OneSecret, Generating, Written
  <1>9. KeysOpen'
    BY <1>1, <1>2, <1>3, <1>4 DEF KeysOpen, Written
  <1> QED
    BY <1>5, <1>6, <1>7, <1>8, <1>9 DEF KeyInv

\* The swarm key is written where there was none: no identity carries a peer id yet.
LEMMA WritesSwarmKeyKeeps ==
    ASSUME KeyInv, WritesSwarmKey, UNCHANGED Outside
    PROVE  KeyInv'
  <1>1. TypeOK /\ Manned /\ OneSwarmKey /\ OneSecret /\ KeysOpen
    BY DEF KeyInv
  <1>2. /\ UNCHANGED <<publicFile, secretFile, seeds, swarmKeys>>
        /\ UNCHANGED <<entry, mempool, tool, registrations, troubles>>
        /\ server.at = "writesSwarmKey" /\ swarmFile' = server.peer
    BY DEF WritesSwarmKey, Outside
  <1>3. swarmFile = NoFile /\ server.id \in Loaded /\ server.peer \in Peer
    BY <1>1, <1>2 DEF OneSwarmKey, Manned
  <1>4. server' = [server EXCEPT !.at = "swarmUp"] /\ server \in ServerRecord
    BY <1>1 DEF WritesSwarmKey, TypeOK, ServerRecord
  <1>5. /\ server'.at = "swarmUp" /\ server'.id = server.id /\ server'.peer = server.peer
        /\ server' \in ServerRecord
    BY <1>4 DEF ServerRecord
  <1>6. \A peer \in Peer \cup {NoPeer} : peer \in {NoPeer, swarmFile} => peer = NoPeer
    BY <1>3, NothingAssumption
  <1>7. TypeOK'
    BY <1>1, <1>2, <1>3, <1>5 DEF TypeOK, ServerRecord
  <1>8. Manned'
    BY <1>1, <1>2, <1>3, <1>5 DEF Manned, Generating
  <1>9. OneSwarmKey'
    <2>1. Written(publicFile) => publicFile.peer = NoPeer
      <3>1. Written(publicFile) => publicFile.peer \in Peer \cup {NoPeer}
        BY <1>1, WrittenTyped DEF Public
      <3> QED
        BY <1>1, <1>6, <3>1 DEF OneSwarmKey
    <2>2. server.id.public.peer = NoPeer
      BY <1>1, <1>2, <1>3, <1>6, IdentityTyped DEF OneSwarmKey
    <2>3. tool.at # "idle" => tool.id.public.peer = NoPeer
      <3>1. tool.at # "idle" => tool.id.public.peer \in Peer \cup {NoPeer}
        BY <1>1, IdentityTyped DEF Manned
      <3> QED
        BY <1>1, <1>6, <3>1 DEF OneSwarmKey
    <2> QED
      BY <1>2, <1>5, <2>1, <2>2, <2>3 DEF OneSwarmKey, Written
  <1>10. OneSecret'
    BY <1>1, <1>2, <1>5 DEF OneSecret, Generating, Written
  <1>11. KeysOpen'
    BY <1>1, <1>2, <1>5 DEF KeysOpen, Written
  <1> QED
    BY <1>7, <1>8, <1>9, <1>10, <1>11 DEF KeyInv

LEMMA BindsKeeps ==
    ASSUME KeyInv, Binds, UNCHANGED Outside
    PROVE  KeyInv'
  <1>1. TypeOK /\ Manned /\ OneSwarmKey /\ OneSecret /\ KeysOpen
    BY DEF KeyInv
  <1>2. /\ UNCHANGED <<secretFile, swarmFile, seeds, swarmKeys>>
        /\ UNCHANGED <<entry, mempool, tool, registrations, troubles>>
        /\ server.at = "swarmUp"
    BY DEF Binds, Outside
  <1>3. server.id \in Loaded /\ server.peer \in Peer /\ swarmFile = server.peer
    BY <1>1, <1>2 DEF Manned, OneSwarmKey
  <1>4. PICK public \in Public, secret \in Secret : public = server.id.public /\ secret = server.id.secret
    BY <1>3, IdentityTyped
  <1>5. PICK bound : bound = [public EXCEPT !.peer = server.peer]
    OBVIOUS
  <1>6. bound \in Public /\ bound.pubkey = public.pubkey /\ bound.peer = swarmFile
    BY <1>3, <1>4, <1>5 DEF Public
  <1>7. PICK id : id = [public |-> bound, secret |-> secret]
    OBVIOUS
  <1>8. id \in Loaded /\ id.public = bound
    BY <1>4, <1>6, <1>7 DEF Loaded
  <1>9. /\ server' = [at |-> "up", id |-> id, peer |-> server.peer]
        /\ publicFile' = bound
    BY <1>4, <1>5, <1>7 DEF Binds
  <1>10. /\ server'.at = "up" /\ server'.id = id /\ server'.peer = server.peer
         /\ server' \in ServerRecord
    BY <1>3, <1>8, <1>9 DEF ServerRecord
  <1>11. TypeOK'
    BY <1>1, <1>2, <1>6, <1>9, <1>10 DEF TypeOK, ServerRecord
  <1>12. Manned'
    BY <1>1, <1>2, <1>3, <1>8, <1>10 DEF Manned, Generating
  <1>13. OneSwarmKey'
    BY <1>1, <1>2, <1>3, <1>6, <1>8, <1>9, <1>10 DEF OneSwarmKey, Written
  <1>14. OneSecret'
    <2>1. secretFile # NoFile
      BY <1>1, <1>2 DEF OneSecret, Generating
    <2>2. publicFile' # NoFile
      BY <1>6, <1>9, NothingAssumption
    <2> QED
      BY <1>1, <1>2, <1>10, <2>1, <2>2 DEF OneSecret, Generating, Written
  <1>15. KeysOpen'
    <2>1. Written(secretFile) => Opens(secretFile, bound.pubkey)
      BY <1>1, <1>2, <1>4, <1>6 DEF KeysOpen
    <2> QED
      BY <1>1, <1>2, <1>8, <1>9, <1>10, <2>1 DEF KeysOpen, Written
  <1> QED
    BY <1>11, <1>12, <1>13, <1>14, <1>15 DEF KeyInv

\* A stop tears at most the file that is being written, and never makes one go away.
LEMMA ServerStopsKeeps ==
    ASSUME KeyInv, ServerStops, UNCHANGED Outside
    PROVE  KeyInv'
  <1>1. TypeOK /\ Manned /\ OneSwarmKey /\ OneSecret /\ KeysOpen
    BY DEF KeyInv
  <1>2. /\ UNCHANGED <<entry, mempool, tool, registrations, troubles, seeds, swarmKeys>>
        /\ publicFile' \in {publicFile, Torn}
        /\ secretFile' \in {secretFile, Torn} /\ swarmFile' \in {swarmFile, Torn}
        /\ secretFile' # secretFile => server.at = "writesSecret"
        /\ swarmFile' # swarmFile => server.at = "writesSwarmKey"
        /\ server.at # "down"
    BY DEF ServerStops, Outside, AfterStop
  <1>3. server'.at = "down" /\ server' \in ServerRecord
    BY DEF ServerStops, Down, ServerRecord
  <1>4. TypeOK'
    BY <1>1, <1>2, <1>3 DEF TypeOK, ServerRecord
  <1>5. Manned'
    BY <1>1, <1>2, <1>3 DEF Manned, Generating
  <1>6. secretFile' # secretFile => secretFile = NoFile
    BY <1>1, <1>2 DEF OneSecret, Generating
  <1>7. swarmFile' # swarmFile => swarmFile = NoFile
    BY <1>1, <1>2 DEF OneSwarmKey
  <1>8. OneSwarmKey'
    <2>1. \A peer \in Peer \cup {NoPeer} :
              peer \in {NoPeer, swarmFile} => peer \in {NoPeer, swarmFile'}
      BY <1>7, NothingAssumption
    <2>2. Written(publicFile') => Written(publicFile) /\ publicFile' = publicFile
      BY <1>2 DEF Written
    <2>3. Written(publicFile) => publicFile.peer \in Peer \cup {NoPeer}
      BY <1>1, WrittenTyped DEF Public
    <2>4. tool.at # "idle" => tool.id.public.peer \in Peer \cup {NoPeer}
      BY <1>1, IdentityTyped DEF Manned
    <2>5. Written(publicFile') => publicFile'.peer \in {NoPeer, swarmFile'}
      BY <1>1, <2>1, <2>2, <2>3 DEF OneSwarmKey
    <2>6. tool.at # "idle" => tool.id.public.peer \in {NoPeer, swarmFile'}
      BY <1>1, <2>1, <2>4 DEF OneSwarmKey
    <2> QED
      BY <1>2, <1>3, <2>5, <2>6 DEF OneSwarmKey, Written
  <1>9. OneSecret'
    <2>1. publicFile' = NoFile => secretFile' = NoFile
      <3> SUFFICES ASSUME publicFile' = NoFile PROVE secretFile' = NoFile
        OBVIOUS
      <3>1. publicFile = NoFile /\ secretFile = NoFile
        BY <1>1, <1>2, IdentityAssumption DEF OneSecret
      <3>2. server.at # "writesSecret"
        <4> SUFFICES ASSUME server.at = "writesSecret" PROVE FALSE
          OBVIOUS
        <4>1. publicFile = server.id.public /\ server.id \in Loaded
          BY <1>1 DEF OneSecret, Manned
        <4> QED
          BY <3>1, <4>1, IdentityTyped, NothingAssumption
      <3> QED
        BY <1>2, <3>1, <3>2
    <2>2. secretFile' = NoFile => secretFile = NoFile
      BY <1>2, IdentityAssumption
    <2>3. secretFile' = secretFile \/ (secretFile = NoFile /\ secretFile' = Torn)
      BY <1>2, <1>6
    <2>4. CASE secretFile' = secretFile
      BY <1>1, <1>2, <1>3, <2>1, <2>4 DEF OneSecret, Generating, Written
    <2>5. CASE secretFile = NoFile /\ secretFile' = Torn
      <3>1. tool.at = "idle"
        BY <1>1, <2>5 DEF OneSecret
      <3> QED
        BY <1>2, <1>3, <2>1, <2>5, <3>1, IdentityAssumption DEF OneSecret, Generating, Written
    <2> QED
      BY <2>3, <2>4, <2>5
  <1>10. KeysOpen'
    <2>1. Written(secretFile') => secretFile' = secretFile /\ Written(secretFile)
      BY <1>2 DEF Written
    <2>2. Written(publicFile') => publicFile' = publicFile /\ Written(publicFile)
      BY <1>2 DEF Written
    <2> QED
      BY <1>1, <1>2, <1>3, <2>1, <2>2 DEF KeysOpen, Written
  <1> QED
    BY <1>4, <1>5, <1>8, <1>9, <1>10 DEF KeyInv

LEMMA ServerKeeps ==
    ASSUME KeyInv, ServerStep, UNCHANGED Outside
    PROVE  KeyInv'
  BY ServerLoadsKeeps, ServerGeneratesKeeps, WritesPublicKeeps, WritesSecretKeeps,
     SwarmStartsKeeps, WritesSwarmKeyKeeps, BindsKeeps, ServerStopsKeeps DEF ServerStep

-------------------------------------------------------------------------------
\* The contract.

\* An entry of the contract names only keys that open.
BookOpens(e) ==
    /\ e \in Entry
    /\ e.lifecycle = "Unregistered" => e = NoEntry
    /\ Written(secretFile) => \A v \in DOMAIN e.book : Opens(secretFile, e.book[v])

\* A step of the contract keeps the invariant if its entry does.
LEMMA ContractKeeps ==
    ASSUME KeyInv, UNCHANGED <<identityVars, tool, troubles>>, mempool' \subseteq mempool,
           BookOpens(entry'), registrations' \in 0..MaxRegistrations,
           secretFile = NoFile => entry' = NoEntry
    PROVE  KeyInv'
  <1>1. TypeOK /\ Manned /\ OneSwarmKey /\ OneSecret /\ KeysOpen
    BY DEF KeyInv
  <1>2. UNCHANGED <<publicFile, secretFile, swarmFile, server, seeds, swarmKeys, tool, troubles>>
    BY DEF identityVars
  <1>3. TypeOK'
    BY <1>1, <1>2 DEF TypeOK, BookOpens
  <1>4. Manned'
    BY <1>1, <1>2 DEF Manned, BookOpens, NoEntry
  <1>5. OneSwarmKey'
    BY <1>1, <1>2 DEF OneSwarmKey, Written
  <1>6. OneSecret'
    BY <1>1, <1>2 DEF OneSecret, Written, NoEntry
  <1>7. KeysOpen'
    BY <1>1, <1>2 DEF KeysOpen, BookOpens, Written
  <1> QED
    BY <1>3, <1>4, <1>5, <1>6, <1>7 DEF KeyInv

LEMMA EntryOpens ==
    ASSUME KeyInv
    PROVE  BookOpens(entry)
  BY DEF KeyInv, TypeOK, Manned, KeysOpen, BookOpens

LEMMA RegisteredOpens ==
    ASSUME NEW key \in Key \cup {NoKey}, key \in Key /\ Written(secretFile) => Opens(secretFile, key)
    PROVE  /\ BookOpens(Registered(key))
           /\ Registered(key).book = (IF key = NoKey THEN <<>> ELSE <<key>>)
           /\ Registered(key).current = (IF key = NoKey THEN 0 ELSE 1)
  <1>1. PICK book, current : /\ book = (IF key = NoKey THEN <<>> ELSE <<key>>)
                             /\ current = (IF key = NoKey THEN 0 ELSE 1)
    OBVIOUS
  <1>2. /\ book \in Seq(Key) /\ current \in Nat
        /\ Written(secretFile) => \A v \in DOMAIN book : Opens(secretFile, book[v])
    <2>1. CASE key = NoKey
      BY <1>1, <2>1
    <2>2. CASE key # NoKey
      BY <1>1, <2>2
    <2> QED
      BY <2>1, <2>2
  <1>3. PICK e : e = [lifecycle |-> "Active", book |-> book, current |-> current]
    OBVIOUS
  <1>4. e.lifecycle = "Active" /\ e.book = book /\ e.current = current /\ e \in Entry
    BY <1>2, <1>3 DEF Entry, Lifecycle
  <1>5. e = Registered(key)
    BY <1>1, <1>3 DEF Registered
  <1> QED
    BY <1>1, <1>2, <1>4, <1>5 DEF BookOpens

\* A change of the lifecycle or of the version in force leaves the book alone.
LEMMA EntryFields ==
    ASSUME TypeOK
    PROVE  /\ entry.lifecycle \in Lifecycle /\ entry.book \in Seq(Key) /\ entry.current \in Nat
           /\ entry = [lifecycle |-> entry.lifecycle, book |-> entry.book, current |-> entry.current]
  BY DEF TypeOK, Entry

LEMMA RelabelledOpens ==
    ASSUME KeyInv, NEW lifecycle \in Lifecycle, NEW current \in Nat, lifecycle # "Unregistered"
    PROVE  BookOpens([lifecycle |-> lifecycle, book |-> entry.book, current |-> current])
  <1>1. PICK e : e = [lifecycle |-> lifecycle, book |-> entry.book, current |-> current]
    OBVIOUS
  <1>2. entry.book \in Seq(Key)
    BY EntryFields DEF KeyInv
  <1>3. e \in Entry /\ e.lifecycle = lifecycle /\ e.book = entry.book
    BY <1>1, <1>2 DEF Entry
  <1> QED
    BY <1>1, <1>3 DEF BookOpens, KeyInv, KeysOpen

\* A rotation appends one key to the book.
LEMMA RotatedOpens ==
    ASSUME KeyInv, NEW key \in Key, Written(secretFile) => Opens(secretFile, key),
           entry.lifecycle # "Unregistered"
    PROVE  BookOpens([lifecycle |-> entry.lifecycle, book |-> Append(entry.book, key),
                      current |-> Len(entry.book) + 1])
  <1>1. PICK book, current : book = Append(entry.book, key) /\ current = Len(entry.book) + 1
    OBVIOUS
  <1>2. PICK old : old = entry.book
    OBVIOUS
  <1>3. old \in Seq(Key) /\ entry.lifecycle \in Lifecycle
    BY <1>2, EntryFields DEF KeyInv
  <1>4. book \in Seq(Key) /\ current \in Nat
    BY <1>1, <1>2, <1>3
  <1>5. DOMAIN book = 1..(Len(old) + 1) /\ book[Len(old) + 1] = key
        /\ \A v \in 1..Len(old) : book[v] = old[v]
    BY <1>1, <1>2, <1>3
  <1>6. DOMAIN old = 1..Len(old) /\ Len(old) \in Nat
    BY <1>3
  <1>7. Written(secretFile) => \A v \in DOMAIN book : Opens(secretFile, book[v])
    <2> SUFFICES ASSUME Written(secretFile), NEW v \in DOMAIN book PROVE Opens(secretFile, book[v])
      OBVIOUS
    <2>1. CASE v = Len(old) + 1
      BY <1>5, <2>1
    <2>2. CASE v # Len(old) + 1
      <3>1. v \in 1..Len(old)
        BY <1>5, <1>6, <2>2
      <3>2. Opens(secretFile, old[v])
        BY <1>2, <1>6, <3>1 DEF KeyInv, KeysOpen
      <3> QED
        BY <1>5, <3>1, <3>2
    <2> QED
      BY <2>1, <2>2
  <1>8. PICK e : e = [lifecycle |-> entry.lifecycle, book |-> book, current |-> current]
    OBVIOUS
  <1>9. e \in Entry /\ e.lifecycle = entry.lifecycle /\ e.book = book
    BY <1>3, <1>4, <1>8 DEF Entry
  <1> QED
    BY <1>1, <1>7, <1>8, <1>9 DEF BookOpens

\* What a transaction that is accepted makes of the entry.
LEMMA EffectOpens ==
    ASSUME KeyInv, NEW tx \in mempool, Accepted(tx)
    PROVE  BookOpens(Effect(tx))
  <1>1. TypeOK /\ Manned /\ KeysOpen
    BY DEF KeyInv
  <1>2. tx \in Tx /\ tx.kind \in Kind /\ tx.key \in Key \cup {NoKey}
    BY <1>1 DEF TypeOK, Tx
  <1>3. tx.kind \in Publishing =>
            tx.key \in Key /\ (Written(secretFile) => Opens(secretFile, tx.key))
    BY <1>1 DEF Manned, KeysOpen
  <1>4. CASE tx.kind = "register"
    <2>1. Effect(tx) = Registered(tx.key)
      BY <1>4 DEF Effect
    <2>2. tx.key \in Key /\ Written(secretFile) => Opens(secretFile, tx.key)
      BY <1>3, <1>4 DEF Publishing
    <2>3. PICK key : key = tx.key
      OBVIOUS
    <2>4. BookOpens(Registered(key))
      BY <1>2, <2>2, <2>3, RegisteredOpens
    <2> QED
      BY <2>1, <2>3, <2>4
  <1>5. CASE tx.kind = "deregister"
    <2>1. Effect(tx) = [lifecycle |-> "Chilled", book |-> entry.book, current |-> entry.current]
      BY <1>1, <1>5, EntryFields DEF Effect
    <2>2. entry.current \in Nat /\ "Chilled" \in Lifecycle
      BY <1>1, EntryFields DEF Lifecycle
    <2> QED
      BY <2>1, <2>2, RelabelledOpens
  <1>6. CASE tx.kind = "defunct"
    <2>1. Effect(tx) = [lifecycle |-> "Defunct", book |-> entry.book, current |-> entry.current]
      BY <1>1, <1>6, EntryFields DEF Effect
    <2>2. entry.current \in Nat /\ "Defunct" \in Lifecycle
      BY <1>1, EntryFields DEF Lifecycle
    <2> QED
      BY <2>1, <2>2, RelabelledOpens
  <1>7. CASE tx.kind = "rotate"
    <2>1. PICK key : key = tx.key
      OBVIOUS
    <2>2. /\ Effect(tx) = [lifecycle |-> entry.lifecycle, book |-> Append(entry.book, key),
                           current |-> Len(entry.book) + 1]
          /\ entry.lifecycle # "Unregistered"
      BY <1>7, <2>1 DEF Effect, Accepted
    <2>3. key \in Key /\ (Written(secretFile) => Opens(secretFile, key))
      BY <1>3, <1>7, <2>1 DEF Publishing
    <2> QED
      BY <2>2, <2>3, RotatedOpens
  <1> QED
    BY <1>2, <1>4, <1>5, <1>6, <1>7 DEF Kind

LEMMA MineKeeps ==
    ASSUME KeyInv, NEW tx \in mempool, Mine(tx)
    PROVE  KeyInv'
  <1>1. /\ UNCHANGED <<identityVars, tool, troubles>> /\ mempool' \subseteq mempool
        /\ registrations' <= MaxRegistrations
    BY DEF Mine
  <1>2. secretFile # NoFile /\ registrations \in 0..MaxRegistrations
    BY DEF KeyInv, OneSecret, TypeOK
  <1>3. registrations' \in 0..MaxRegistrations
    BY <1>1, <1>2, RegistryClientAssumption DEF Mine
  <1>4. BookOpens(entry')
    <2>1. CASE Accepted(tx)
      BY <2>1, EffectOpens DEF Mine
    <2>2. CASE ~Accepted(tx)
      BY <2>2, EntryOpens DEF Mine
    <2> QED
      BY <2>1, <2>2
  <1> QED
    BY <1>1, <1>2, <1>3, <1>4, ContractKeeps

LEMMA PortalRegistersKeeps ==
    ASSUME KeyInv, PortalRegisters
    PROVE  KeyInv'
  <1>1. PICK key \in {server.id.public.pubkey, NoKey} : entry' = Registered(key)
    BY DEF PortalRegisters
  <1>2. /\ UNCHANGED <<identityVars, tool, troubles>> /\ mempool' \subseteq mempool
        /\ server.at = "up" /\ registrations < MaxRegistrations
        /\ registrations' = registrations + 1
    BY DEF PortalRegisters
  <1>3. TypeOK /\ Manned /\ OneSecret /\ KeysOpen
    BY DEF KeyInv
  <1>4. server.id \in Loaded /\ secretFile # NoFile /\ registrations \in 0..MaxRegistrations
    BY <1>2, <1>3 DEF TypeOK, Manned, OneSecret, Generating
  <1>5. server.id.public.pubkey \in Key
        /\ (Written(secretFile) => Opens(secretFile, server.id.public.pubkey))
    BY <1>2, <1>3, <1>4, IdentityTyped DEF KeysOpen
  <1>6. key \in Key \cup {NoKey} /\ (key \in Key /\ Written(secretFile) => Opens(secretFile, key))
    BY <1>5, NothingAssumption
  <1>7. BookOpens(Registered(key))
    BY <1>6, RegisteredOpens
  <1>8. registrations' \in 0..MaxRegistrations
    BY <1>2, <1>4, RegistryClientAssumption
  <1> QED
    BY <1>1, <1>2, <1>4, <1>7, <1>8, ContractKeeps

LEMMA RevokeKeeps ==
    ASSUME KeyInv, Revoke
    PROVE  KeyInv'
  <1>1. TypeOK /\ Manned /\ OneSecret
    BY DEF KeyInv
  <1>2. /\ UNCHANGED <<identityVars, tool, troubles>> /\ mempool' \subseteq mempool
        /\ registrations' = registrations /\ entry.current # 0
    BY DEF Revoke
  <1>3. entry' = [lifecycle |-> entry.lifecycle, book |-> entry.book, current |-> 0]
    BY <1>1, EntryFields DEF Revoke
  <1>4. entry # NoEntry
    BY <1>2 DEF NoEntry
  <1>5. entry.lifecycle # "Unregistered" /\ secretFile # NoFile /\ entry.lifecycle \in Lifecycle
    BY <1>1, <1>4, EntryFields DEF Manned, OneSecret
  <1>6. BookOpens(entry')
    BY <1>3, <1>5, RelabelledOpens
  <1>7. registrations' \in 0..MaxRegistrations
    BY <1>1, <1>2 DEF TypeOK
  <1> QED
    BY <1>2, <1>5, <1>6, <1>7, ContractKeeps

LEMMA PurgeKeeps ==
    ASSUME KeyInv, Purge
    PROVE  KeyInv'
  <1>1. /\ UNCHANGED <<identityVars, tool, troubles>> /\ mempool' \subseteq mempool
        /\ registrations' = registrations /\ entry' = NoEntry
    BY DEF Purge
  <1>2. BookOpens(NoEntry)
    BY DEF BookOpens, NoEntry, Entry, Lifecycle
  <1>3. registrations' \in 0..MaxRegistrations
    BY <1>1 DEF KeyInv, TypeOK
  <1> QED
    BY <1>1, <1>2, <1>3, ContractKeeps

-------------------------------------------------------------------------------
\* The operator's tool.

\* A state of the tool that fits the disk.
Fit(t) ==
    /\ t \in Tool
    /\ t.at # "idle" =>
           /\ t.id \in Loaded /\ t.tx \in Tx
           /\ t.tx.kind \in Publishing => t.tx.key \in Key
           /\ t.at = "backsOff" => t.tx.kind = "register" /\ t.attempt < MaxRetries
           /\ t.id.public.peer \in {NoPeer, swarmFile}
           /\ secretFile # NoFile /\ t.id.secret = secretFile
           /\ t.tx.kind = "rotate" =>
                  t.tx.key = NextRotation(secretFile).key /\ secretFile.version < MaxVersion
           /\ t.at \in Generating => t.tx.kind = "rotate"
           /\ Written(secretFile) /\ t.tx.kind \in Publishing => Opens(secretFile, t.tx.key)

LEMMA ToolFits ==
    ASSUME KeyInv
    PROVE  Fit(tool)
  BY DEF KeyInv, TypeOK, Manned, OneSwarmKey, OneSecret, KeysOpen, Fit

LEMMA IdleFits == Fit(Idle) /\ Idle.at = "idle"
  <1>1. 0 \in 0..MaxRetries
    BY RegistryClientAssumption
  <1> QED
    BY <1>1 DEF Fit, Idle, Tool

\* The fields of the tool's record, one by one.
LEMMA ToolFields ==
    ASSUME KeyInv
    PROVE  /\ tool = [at |-> tool.at, id |-> tool.id, tx |-> tool.tx, attempt |-> tool.attempt]
           /\ tool.attempt \in 0..MaxRetries /\ tool.id \in Loaded \cup {NoIdentity}
           /\ tool.tx \in Tx \cup {NoTx}
           /\ tool.at \in {"idle", "sends", "watches", "writesPublic", "writesSecret", "backsOff"}
  BY DEF KeyInv, TypeOK, Tool

\* The tool moves on with the identity and the transaction it has.
LEMMA MovedFits ==
    ASSUME KeyInv, tool.at # "idle",
           NEW at \in {"sends", "watches", "writesPublic", "writesSecret", "backsOff"},
           at \in Generating => tool.tx.kind = "rotate",
           at = "backsOff" => tool.tx.kind = "register" /\ tool.attempt < MaxRetries
    PROVE  Fit([tool EXCEPT !.at = at])
  <1>1. PICK t : t = [tool EXCEPT !.at = at]
    OBVIOUS
  <1>2. t = [at |-> at, id |-> tool.id, tx |-> tool.tx, attempt |-> tool.attempt]
    BY <1>1, ToolFields
  <1>3. t.at = at /\ t.id = tool.id /\ t.tx = tool.tx /\ t.attempt = tool.attempt /\ t \in Tool
    BY <1>2, ToolFields DEF Tool
  <1>4. Fit(tool)
    BY ToolFits
  <1>5. Fit(t)
    BY <1>3, <1>4 DEF Fit
  <1> QED
    BY <1>1, <1>5

LEMMA AfterErrFits ==
    ASSUME KeyInv, tool.at # "idle"
    PROVE  Fit(AfterErr)
  <1>1. CASE tool.tx.kind = "register" /\ tool.attempt < MaxRetries
    <2>1. AfterErr = [tool EXCEPT !.at = "backsOff"]
      BY <1>1 DEF AfterErr
    <2> QED
      BY <1>1, <2>1, MovedFits DEF Generating
  <1>2. CASE ~(tool.tx.kind = "register" /\ tool.attempt < MaxRetries)
    <2>1. AfterErr = Idle
      BY <1>2 DEF AfterErr
    <2> QED
      BY <2>1, IdleFits
  <1> QED
    BY <1>1, <1>2

\* A step of the tool that writes no file keeps the invariant if its state fits.
LEMMA ToolKeeps ==
    ASSUME KeyInv, UNCHANGED <<identityVars, entry, registrations>>, NEW t, tool' = t, Fit(t),
           mempool' = mempool \/ (tool.at # "idle" /\ mempool' = mempool \cup {tool.tx}),
           troubles' \in 0..MaxTroubles
    PROVE  KeyInv'
  <1>1. TypeOK /\ Manned /\ OneSwarmKey /\ OneSecret /\ KeysOpen
    BY DEF KeyInv
  <1>2. UNCHANGED <<publicFile, secretFile, swarmFile, server, seeds, swarmKeys, entry, registrations>>
    BY DEF identityVars
  <1>3. mempool' \subseteq Tx
    BY <1>1 DEF TypeOK, Manned
  <1>4. TypeOK'
    BY <1>1, <1>2, <1>3 DEF TypeOK, Fit
  <1>5. ASSUME NEW tx \in mempool', tx.kind \in Publishing
        PROVE  tx.key \in Key /\ (Written(secretFile) => Opens(secretFile, tx.key))
    BY <1>1, <1>5 DEF Manned, KeysOpen
  <1>6. Manned'
    BY <1>1, <1>2, <1>5 DEF Manned, Fit
  <1>7. OneSwarmKey'
    BY <1>1, <1>2 DEF OneSwarmKey, Fit, Written
  <1>8. OneSecret'
    BY <1>1, <1>2 DEF OneSecret, Fit, Written, Generating
  <1>9. KeysOpen'
    BY <1>1, <1>2, <1>5 DEF KeysOpen, Fit, Written
  <1> QED
    BY <1>4, <1>6, <1>7, <1>8, <1>9 DEF KeyInv

\* A call starts from the files, with a key that opens with the secret it read.
LEMMA CallKeeps ==
    ASSUME KeyInv, NEW kind \in Kind, NEW key \in Key \cup {NoKey}, Call(kind, key),
           kind \in Publishing => key \in Key /\ Opens(secretFile, key),
           kind = "rotate" => key = NextRotation(secretFile).key /\ secretFile.version < MaxVersion
    PROVE  KeyInv'
  <1>1. TypeOK /\ OneSwarmKey /\ OneSecret
    BY DEF KeyInv
  <1>2. /\ UNCHANGED <<identityVars, entry, registrations>> /\ mempool' = mempool
        /\ troubles' = troubles /\ Written(publicFile) /\ Written(secretFile)
    BY DEF Call, Readable
  <1>3. publicFile \in Public /\ secretFile \in Secret /\ secretFile # NoFile
    BY <1>1, <1>2, WrittenTyped DEF Written
  <1>4. PICK attempt : attempt = IF kind = "register" THEN 1 ELSE 0
    OBVIOUS
  <1>5. attempt \in 0..MaxRetries
    BY <1>4, RegistryClientAssumption
  <1>6. PICK id, tx : /\ id = [public |-> publicFile, secret |-> secretFile]
                      /\ tx = [kind |-> kind, key |-> key, nonce |-> troubles]
    OBVIOUS
  <1>7. troubles \in Nat /\ troubles \in 0..MaxTroubles
    BY <1>1, RegistryClientAssumption DEF TypeOK
  <1>8. /\ id \in Loaded /\ id.public = publicFile /\ id.secret = secretFile
        /\ tx \in Tx /\ tx.kind = kind /\ tx.key = key
    BY <1>3, <1>6, <1>7 DEF Loaded, Tx
  <1>9. PICK t : t = [at |-> "sends", id |-> id, tx |-> tx, attempt |-> attempt]
    OBVIOUS
  <1>10. t.at = "sends" /\ t.id = id /\ t.tx = tx /\ t \in Tool
    BY <1>5, <1>8, <1>9 DEF Tool
  <1>11. id.public.peer \in {NoPeer, swarmFile}
    BY <1>1, <1>2, <1>8 DEF OneSwarmKey
  <1>12. Fit(t)
    BY <1>3, <1>8, <1>10, <1>11 DEF Fit, Generating
  <1>13. tool' = t
    BY <1>4, <1>6, <1>9 DEF Call, FromDisk
  <1> QED
    BY <1>2, <1>7, <1>12, <1>13, ToolKeeps

LEMMA StartupRegisterKeeps ==
    ASSUME KeyInv, StartupRegister
    PROVE  KeyInv'
  <1>1. Written(publicFile) /\ Written(secretFile)
    BY DEF StartupRegister, Call, Readable
  <1>2. publicFile.pubkey \in Key /\ Opens(secretFile, publicFile.pubkey)
    BY <1>1, WrittenTyped DEF KeyInv, KeysOpen, Public
  <1> QED
    BY <1>2, CallKeeps DEF StartupRegister, Kind

LEMMA DeregisterKeeps ==
    ASSUME KeyInv, Deregister
    PROVE  KeyInv'
  BY CallKeeps DEF Deregister, Kind, Publishing

LEMMA MarkDefunctKeeps ==
    ASSUME KeyInv, MarkDefunct
    PROVE  KeyInv'
  BY CallKeeps DEF MarkDefunct, Kind, Publishing

LEMMA RotateEncryptionKeyKeeps ==
    ASSUME KeyInv, RotateEncryptionKey
    PROVE  KeyInv'
  <1>1. Written(secretFile) /\ secretFile.version < MaxVersion
    BY DEF RotateEncryptionKey, Call, Readable
  <1>2. secretFile \in Secret /\ (secretFile.version = 0 => secretFile.legacy = NoKey)
    BY <1>1, WrittenTyped DEF KeyInv, OneSecret
  <1>3. PICK key : key = NextRotation(secretFile).key
    OBVIOUS
  <1>4. key \in Key /\ Opens(secretFile, key)
    BY <1>1, <1>2, <1>3, RotationOpens
  <1>5. Call("rotate", key)
    BY <1>3 DEF RotateEncryptionKey
  <1> QED
    BY <1>1, <1>3, <1>4, <1>5, CallKeeps DEF Kind

LEMMA RetryKeeps ==
    ASSUME KeyInv, Retry
    PROVE  KeyInv'
  <1>1. TypeOK /\ Fit(tool) /\ tool.at = "backsOff"
    BY ToolFits DEF KeyInv, Retry
  <1>2. troubles \in Nat /\ troubles \in 0..MaxTroubles
    BY <1>1, RegistryClientAssumption DEF TypeOK
  <1>3. tool.tx \in Tx /\ tool.id \in Loaded /\ tool.attempt < MaxRetries
    BY <1>1 DEF Fit
  <1>4. PICK tx : tx = [tool.tx EXCEPT !.nonce = troubles]
    OBVIOUS
  <1>5. tx \in Tx /\ tx.kind = tool.tx.kind /\ tx.key = tool.tx.key
    BY <1>2, <1>3, <1>4 DEF Tx
  <1>6. PICK attempt : attempt = tool.attempt + 1
    OBVIOUS
  <1>7. attempt \in 0..MaxRetries
    BY <1>3, <1>6, ToolFields, RegistryClientAssumption
  <1>8. PICK t : t = [at |-> "sends", id |-> tool.id, tx |-> tx, attempt |-> attempt]
    OBVIOUS
  <1>9. t.at = "sends" /\ t.id = tool.id /\ t.tx = tx /\ t \in Tool
    BY <1>3, <1>5, <1>7, <1>8 DEF Tool
  <1>10. Fit(t)
    BY <1>1, <1>5, <1>9 DEF Fit, Generating
  <1>11. tool' = t
    BY <1>4, <1>6, <1>8 DEF Retry
  <1> QED
    BY <1>2, <1>10, <1>11, ToolKeeps DEF Retry

LEMMA SendRefusedKeeps ==
    ASSUME KeyInv, SendRefused
    PROVE  KeyInv'
  <1>1. tool.at # "idle" /\ troubles \in 0..MaxTroubles
    BY DEF SendRefused, KeyInv, TypeOK
  <1> QED
    BY <1>1, AfterErrFits, ToolKeeps DEF SendRefused

LEMMA SendKeeps ==
    ASSUME KeyInv, Send
    PROVE  KeyInv'
  <1>1. /\ tool.at = "sends" /\ mempool' = mempool \cup {tool.tx}
        /\ UNCHANGED <<identityVars, entry, registrations>>
    BY DEF Send
  <1>2. troubles \in 0..MaxTroubles
    BY DEF KeyInv, TypeOK
  <1>3. CASE tool' = [tool EXCEPT !.at = "watches"] /\ UNCHANGED troubles
    <2>1. Fit([tool EXCEPT !.at = "watches"])
      BY <1>1, MovedFits DEF Generating
    <2> QED
      BY <1>1, <1>2, <1>3, <2>1, ToolKeeps
  <1>4. CASE troubles < MaxTroubles /\ tool' = AfterErr /\ troubles' = troubles + 1
    <2>1. troubles' \in 0..MaxTroubles
      BY <1>2, <1>4, RegistryClientAssumption
    <2> QED
      BY <1>1, <1>4, <2>1, AfterErrFits, ToolKeeps
  <1> QED
    BY <1>3, <1>4 DEF Send

LEMMA ConfirmedKeeps ==
    ASSUME KeyInv, Confirmed
    PROVE  KeyInv'
  <1>1. /\ tool.at = "watches" /\ mempool' = mempool /\ troubles' = troubles
        /\ UNCHANGED <<identityVars, entry, registrations>>
    BY DEF Confirmed
  <1>2. troubles \in 0..MaxTroubles
    BY DEF KeyInv, TypeOK
  <1>3. CASE tool.tx.kind = "rotate"
    <2>1. tool' = [tool EXCEPT !.at = "writesPublic"]
      BY <1>3 DEF Confirmed
    <2>2. Fit([tool EXCEPT !.at = "writesPublic"])
      BY <1>1, <1>3, MovedFits
    <2> QED
      BY <1>1, <1>2, <2>1, <2>2, ToolKeeps
  <1>4. CASE tool.tx.kind # "rotate"
    <2>1. tool' = Idle
      BY <1>4 DEF Confirmed
    <2> QED
      BY <1>1, <1>2, <2>1, IdleFits, ToolKeeps
  <1> QED
    BY <1>3, <1>4

LEMMA ConfirmationLostKeeps ==
    ASSUME KeyInv, ConfirmationLost
    PROVE  KeyInv'
  <1>1. /\ tool.at = "watches" /\ mempool' = mempool /\ troubles < MaxTroubles
        /\ troubles' = troubles + 1 /\ UNCHANGED <<identityVars, entry, registrations>>
        /\ tool' = AfterErr
    BY DEF ConfirmationLost
  <1>2. troubles \in 0..MaxTroubles
    BY DEF KeyInv, TypeOK
  <1>3. troubles' \in 0..MaxTroubles
    BY <1>1, <1>2, RegistryClientAssumption
  <1> QED
    BY <1>1, <1>3, AfterErrFits, ToolKeeps

\* What the tool has in hand while it persists a rotation.
LEMMA Persisting ==
    ASSUME KeyInv, tool.at \in Generating
    PROVE  /\ tool.id \in Loaded /\ tool.id.secret = secretFile /\ tool.tx.kind = "rotate"
           /\ tool.tx.key \in Key /\ secretFile \in Secret /\ Written(secretFile)
           /\ tool.tx.key = NextRotation(secretFile).key /\ secretFile.version < MaxVersion
           /\ secretFile.version = 0 => secretFile.legacy = NoKey
           /\ Opens(secretFile, tool.tx.key) /\ server.at \notin Generating
           /\ publicFile # NoFile
  <1>1. Fit(tool) /\ tool.at # "idle"
    BY ToolFits DEF Generating
  <1>2. tool.id \in Loaded /\ tool.id.secret = secretFile
    BY <1>1 DEF Fit
  <1>3. secretFile \in Secret
    BY <1>2, IdentityTyped
  <1>4. Written(secretFile)
    BY <1>3, WrittenTyped DEF KeyInv
  <1> QED
    BY <1>1, <1>2, <1>3, <1>4 DEF Fit, KeyInv, OneSecret, Publishing, Written

LEMMA PersistPublicKeeps ==
    ASSUME KeyInv, PersistPublic
    PROVE  KeyInv'
  <1>1. TypeOK /\ Manned /\ OneSwarmKey /\ OneSecret /\ KeysOpen
    BY DEF KeyInv
  <1>2. /\ tool.at = "writesPublic" /\ tool.at \in Generating
        /\ UNCHANGED <<secretFile, swarmFile, server, seeds, swarmKeys, entry, mempool, registrations, troubles>>
    BY DEF PersistPublic, Generating
  <1>3. /\ tool.id \in Loaded /\ tool.tx.kind = "rotate" /\ tool.tx.key \in Key
        /\ Written(secretFile) /\ Opens(secretFile, tool.tx.key) /\ server.at \notin Generating
    BY <1>2, Persisting
  <1>4. tool.id.public \in Public /\ tool.id.public.peer \in {NoPeer, swarmFile}
    BY <1>1, <1>2, <1>3, IdentityTyped DEF OneSwarmKey
  <1>5. PICK public : public = [tool.id.public EXCEPT !.pubkey = tool.tx.key]
    OBVIOUS
  <1>6. public \in Public /\ public.pubkey = tool.tx.key /\ public.peer = tool.id.public.peer
    BY <1>3, <1>4, <1>5 DEF Public
  <1>7. publicFile' = public /\ public # NoFile
    BY <1>5, <1>6, NothingAssumption DEF PersistPublic
  <1>8. Fit([tool EXCEPT !.at = "writesSecret"])
    BY <1>2, <1>3, MovedFits
  <1>9. PICK t : t = [tool EXCEPT !.at = "writesSecret"]
    OBVIOUS
  <1>10. tool' = t /\ Fit(t)
    BY <1>8, <1>9 DEF PersistPublic
  <1>11. TypeOK'
    BY <1>1, <1>2, <1>6, <1>7, <1>10 DEF TypeOK, Fit
  <1>12. Manned'
    BY <1>1, <1>2, <1>10 DEF Manned, Fit
  <1>13. OneSwarmKey'
    BY <1>1, <1>2, <1>4, <1>6, <1>7, <1>10 DEF OneSwarmKey, Fit, Written
  <1>14. OneSecret'
    BY <1>1, <1>2, <1>3, <1>7, <1>10 DEF OneSecret, Fit, Written, Generating
  <1>15. KeysOpen'
    BY <1>1, <1>2, <1>3, <1>6, <1>7, <1>10 DEF KeysOpen, Fit, Written
  <1> QED
    BY <1>11, <1>12, <1>13, <1>14, <1>15 DEF KeyInv

LEMMA PersistSecretKeeps ==
    ASSUME KeyInv, PersistSecret
    PROVE  KeyInv'
  <1>1. TypeOK /\ Manned /\ OneSwarmKey /\ OneSecret /\ KeysOpen
    BY DEF KeyInv
  <1>2. /\ tool.at = "writesSecret" /\ tool.at \in Generating /\ tool' = Idle
        /\ UNCHANGED <<publicFile, swarmFile, server, seeds, swarmKeys, entry, mempool, registrations, troubles>>
    BY DEF PersistSecret, Generating
  <1>3. /\ tool.id.secret = secretFile /\ secretFile \in Secret /\ Written(secretFile)
        /\ secretFile.version < MaxVersion /\ (secretFile.version = 0 => secretFile.legacy = NoKey)
        /\ server.at \notin Generating /\ publicFile # NoFile
    BY <1>2, Persisting
  <1>4. PICK secret : secret = NextRotation(secretFile)
    OBVIOUS
  <1>5. /\ secret \in Secret /\ secret.version \in 1..MaxVersion
        /\ \A key : Opens(secretFile, key) => Opens(secret, key)
    BY <1>3, <1>4, RotationOpens
  <1>6. secretFile' = secret /\ secret # NoFile
    BY <1>3, <1>4, <1>5, NothingAssumption DEF PersistSecret
  <1>7. Fit(Idle) /\ tool'.at = "idle"
    BY <1>2, IdleFits
  <1>8. TypeOK'
    BY <1>1, <1>2, <1>5, <1>6, <1>7 DEF TypeOK, Fit
  <1>9. Manned'
    BY <1>1, <1>2, <1>7 DEF Manned
  <1>10. OneSwarmKey'
    BY <1>1, <1>2, <1>7 DEF OneSwarmKey, Written
  <1>11. secret.version <= MaxVersion /\ secret.version # 0
    BY <1>5, RegistryClientAssumption
  <1>12. OneSecret'
    BY <1>1, <1>2, <1>3, <1>6, <1>7, <1>11 DEF OneSecret, Written, Generating
  <1>13. KeysOpen'
    BY <1>1, <1>2, <1>3, <1>5, <1>6, <1>7 DEF KeysOpen, Written
  <1> QED
    BY <1>8, <1>9, <1>10, <1>12, <1>13 DEF KeyInv

LEMMA ToolStopsKeeps ==
    ASSUME KeyInv, ToolStops
    PROVE  KeyInv'
  <1>1. TypeOK /\ Manned /\ OneSwarmKey /\ OneSecret /\ KeysOpen
    BY DEF KeyInv
  <1>2. /\ tool.at # "idle" /\ troubles < MaxTroubles /\ tool' = Idle /\ troubles' = troubles + 1
        /\ UNCHANGED <<swarmFile, server, seeds, swarmKeys, entry, mempool, registrations>>
        /\ publicFile' \in {publicFile, Torn} /\ secretFile' \in {secretFile, Torn}
    BY DEF ToolStops, AfterStop
  <1>3. secretFile # NoFile /\ server.at \notin Generating /\ publicFile # NoFile /\ Torn # NoFile
    BY <1>1, <1>2, IdentityAssumption DEF OneSecret
  <1>4. troubles' \in 0..MaxTroubles
    BY <1>1, <1>2, RegistryClientAssumption DEF TypeOK
  <1>5. tool'.at = "idle" /\ tool' \in Tool
    BY <1>2, IdleFits DEF Fit
  <1>6. TypeOK'
    BY <1>1, <1>2, <1>4, <1>5 DEF TypeOK
  <1>7. Manned'
    BY <1>1, <1>2, <1>5 DEF Manned
  <1>8. OneSwarmKey'
    BY <1>1, <1>2, <1>5 DEF OneSwarmKey, Written
  <1>9. OneSecret'
    BY <1>1, <1>2, <1>3, <1>5 DEF OneSecret, Written, Generating
  <1>10. KeysOpen'
    BY <1>1, <1>2, <1>5 DEF KeysOpen, Written
  <1> QED
    BY <1>6, <1>7, <1>8, <1>9, <1>10 DEF KeyInv

LEMMA KeyNext ==
    ASSUME KeyInv, [Next]_vars
    PROVE  KeyInv'
  <1>1. CASE UNCHANGED vars
    BY <1>1 DEF KeyInv, TypeOK, Manned, OneSwarmKey, OneSecret, KeysOpen, Written, vars, identityVars
  <1>2. CASE ServerStep /\ UNCHANGED <<entry, mempool, tool, registrations, troubles>>
    BY <1>2, ServerKeeps DEF Outside
  <1>3. CASE \E tx \in mempool : Mine(tx)
    BY <1>3, MineKeeps
  <1> QED
    BY <1>1, <1>2, <1>3, PortalRegistersKeeps, RevokeKeeps, PurgeKeeps, StartupRegisterKeeps,
       DeregisterKeeps, MarkDefunctKeeps, RotateEncryptionKeyKeeps, RetryKeeps, SendRefusedKeeps,
       SendKeeps, ConfirmedKeeps, ConfirmationLostKeeps, PersistPublicKeeps, PersistSecretKeeps,
       ToolStopsKeeps DEF Next

-------------------------------------------------------------------------------
\* The secret and the swarm key on disk.

\* A step of the server writes a secret only where there is none.
LEMMA ServerSecret ==
    ASSUME KeyInv, ServerStep
    PROVE  /\ secretFile = NoFile \/ secretFile' = secretFile
           /\ swarmFile = NoFile \/ swarmFile' = swarmFile
  <1>1. OneSecret /\ OneSwarmKey
    BY DEF KeyInv
  <1>2. CASE WritesSecret
    BY <1>1, <1>2 DEF WritesSecret, OneSecret, Generating
  <1>3. CASE WritesSwarmKey
    BY <1>1, <1>3 DEF WritesSwarmKey, OneSwarmKey
  <1>4. CASE ServerStops
    <2>1. /\ server.at # "writesSecret" => secretFile' = secretFile
          /\ server.at # "writesSwarmKey" => swarmFile' = swarmFile
      BY <1>4 DEF ServerStops, AfterStop
    <2> QED
      BY <1>1, <2>1 DEF OneSecret, OneSwarmKey, Generating
  <1> QED
    BY <1>2, <1>3, <1>4 DEF ServerStep, ServerLoads, ServerGenerates, WritesPublic, SwarmStarts, Binds

\* A step of the tool or of the contract leaves the secret as it is, unreadable, or
\* rotated.
LEMMA ToolSecret ==
    ASSUME KeyInv, [Next]_vars, ~ServerStep
    PROVE  /\ swarmFile' = swarmFile
           /\ \/ secretFile' = secretFile
              \/ PersistSecret /\ secretFile' = NextRotation(secretFile)
              \/ ToolStops /\ secretFile' = Torn
  <1>1. CASE PersistSecret
    <2>1. tool.at \in Generating
      BY <1>1 DEF PersistSecret, Generating
    <2> QED
      BY <1>1, <2>1, Persisting DEF PersistSecret
  <1>2. CASE ToolStops
    BY <1>2 DEF ToolStops, AfterStop
  <1>3. CASE UNCHANGED vars
    BY <1>3 DEF vars, identityVars
  <1>4. CASE \E tx \in mempool : Mine(tx)
    BY <1>4 DEF Mine, identityVars
  <1>5. CASE PortalRegisters \/ Revoke \/ Purge
    BY <1>5 DEF PortalRegisters, Revoke, Purge, identityVars
  <1>6. CASE StartupRegister \/ Deregister \/ MarkDefunct \/ RotateEncryptionKey
    BY <1>6 DEF StartupRegister, Deregister, MarkDefunct, RotateEncryptionKey, Call, identityVars
  <1>7. CASE Retry \/ SendRefused \/ Send \/ Confirmed \/ ConfirmationLost \/ PersistPublic
    BY <1>7 DEF Retry, SendRefused, Send, Confirmed, ConfirmationLost, PersistPublic, identityVars
  <1> QED
    BY <1>1, <1>2, <1>3, <1>4, <1>5, <1>6, <1>7 DEF Next

LEMMA IdentityStep ==
    ASSUME KeyInv, [Next]_vars
    PROVE  IdentityKept
  <1>1. Written(publicFile) => publicFile.peer \in {NoPeer, swarmFile}
    BY DEF KeyInv, OneSwarmKey
  <1>2. CASE ServerStep
    BY <1>1, <1>2, ServerSecret DEF IdentityKept, Written
  <1>3. CASE ~ServerStep
    <2>1. swarmFile' = swarmFile
      BY <1>3, ToolSecret
    <2>2. CASE PersistSecret /\ secretFile' = NextRotation(secretFile)
      <3>1. tool.at \in Generating
        BY <2>2 DEF PersistSecret, Generating
      <3>2. /\ secretFile \in Secret /\ secretFile.version < MaxVersion
            /\ secretFile.version = 0 => secretFile.legacy = NoKey
        BY <3>1, Persisting
      <3>3. /\ NextRotation(secretFile) \in Secret
            /\ NextRotation(secretFile).seed = secretFile.seed
        BY <3>2, RotationOpens
      <3>4. secretFile \notin {NoFile, Torn} /\ secretFile' \notin {NoFile, Torn}
        BY <2>2, <3>2, <3>3, NothingAssumption
      <3> QED
        BY <1>1, <2>1, <2>2, <3>3, <3>4 DEF IdentityKept, Written
    <2>3. CASE secretFile' \in {secretFile, Torn}
      BY <1>1, <2>1, <2>3 DEF IdentityKept, Written
    <2> QED
      BY <1>3, <2>2, <2>3, ToolSecret
  <1> QED
    BY <1>2, <1>3

-------------------------------------------------------------------------------
\* Contract and disk in step.

\* The steps of the server.
LEMMA ServerInStep ==
    ASSUME KeyInv, InStep, ServerStep, UNCHANGED Outside
    PROVE  InStep'
  <1>1. TypeOK /\ Manned /\ OneSwarmKey /\ OneSecret
    BY DEF KeyInv
  <1>2. UNCHANGED <<entry, mempool, tool, registrations, troubles>>
    BY DEF Outside
  <1> SUFFICES ASSUME troubles = 0
               PROVE  OneAtATime' /\ Provisioned' /\ Unregistered' /\ Headline'
    BY <1>2 DEF InStep
  <1>3. OneAtATime /\ Provisioned /\ Unregistered /\ Headline
    BY DEF InStep
  <1>4. OneAtATime'
    BY <1>2, <1>3 DEF OneAtATime
  <1>5. RotationMined' = RotationMined
    BY <1>2 DEF RotationMined
  <1>6. Headline'
    <2>1. CASE registrations = 1
      <3>1. secretFile' = secretFile
        BY <1>3, <2>1, ServerSecret DEF Provisioned
      <3> QED
        BY <1>2, <1>3, <1>5, <3>1 DEF Headline
    <2>2. CASE registrations # 1
      BY <1>2, <2>2 DEF Headline
    <2> QED
      BY <2>1, <2>2
  <1>7. CASE WritesSecret
    <2>1. /\ server.at = "writesSecret" /\ secretFile' = server.id.secret
          /\ server' = [server EXCEPT !.at = "loaded"] /\ publicFile' = publicFile
      BY <1>7 DEF WritesSecret
    <2>2. secretFile = NoFile /\ publicFile = server.id.public
      BY <1>1, <2>1 DEF OneSecret, Generating
    <2>3. PICK seed \in 1..MaxSeeds : server.id = Fresh(seed)
      BY <1>1, <2>1 DEF Manned, Generating
    <2>4. /\ server.id.secret \in Secret /\ server.id.public.pubkey = server.id.secret.key
      BY <2>3, FreshOpens
    <2>5. secretFile' \notin {NoFile, Torn}
      BY <2>1, <2>4, NothingAssumption
    <2>6. server'.id = server.id
      BY <1>1, <2>1 DEF TypeOK
    <2>7. tool.at = "idle" /\ registrations = 0
      BY <1>3, <2>2 DEF Provisioned
    <2>8. Provisioned'
      BY <2>5 DEF Provisioned
    <2>9. Unregistered'
      BY <1>2, <1>3, <2>1, <2>2, <2>4, <2>6, <2>7 DEF Unregistered, Generating
    <2> QED
      BY <1>4, <1>6, <2>8, <2>9
  <1>8. CASE ServerStops
    <2>1. server' = Down /\ server'.at = "down" /\ publicFile' \in {publicFile, Torn}
      BY <1>8 DEF ServerStops, Down, AfterStop
    <2>2. CASE secretFile' = secretFile
      <3>1. Provisioned'
        BY <1>2, <1>3, <2>1, <2>2 DEF Provisioned
      <3>2. Unregistered'
        BY <1>2, <1>3, <2>1, <2>2 DEF Unregistered, Written
      <3> QED
        BY <1>4, <1>6, <3>1, <3>2
    <2>3. CASE secretFile' # secretFile
      <3>1. secretFile = NoFile /\ secretFile' = Torn
        BY <1>8, <2>3, ServerSecret DEF ServerStops, AfterStop
      <3>2. Provisioned'
        BY <1>2, <1>3, <2>1, <3>1 DEF Provisioned
      <3>3. Unregistered'
        BY <1>2, <1>3, <3>1 DEF Unregistered, Written
      <3> QED
        BY <1>4, <1>6, <3>2, <3>3
    <2> QED
      BY <2>2, <2>3
  <1>9. ASSUME secretFile' = secretFile, secretFile # Torn \/ server'.at = "down",
               Written(secretFile) /\ registrations = 0 =>
                   /\ Written(publicFile') => publicFile'.pubkey = secretFile.key
                   /\ server'.at # "down" => server'.id.public.pubkey = secretFile.key
        PROVE  Provisioned' /\ Unregistered'
    <2>1. Provisioned'
      BY <1>2, <1>3, <1>9 DEF Provisioned
    <2>2. Unregistered'
      BY <1>2, <1>3, <1>9 DEF Unregistered, Written
    <2> QED
      BY <2>1, <2>2
  <1>10. CASE ServerLoads
    <2>1. /\ server' = [at |-> "loaded", id |-> FromDisk, peer |-> NoPeer]
          /\ UNCHANGED <<publicFile, secretFile>> /\ Written(publicFile) /\ Written(secretFile)
      BY <1>10 DEF ServerLoads, Readable
    <2>2. server'.id.public = publicFile
      BY <2>1 DEF FromDisk
    <2> QED
      BY <1>3, <1>4, <1>6, <1>9, <2>1, <2>2 DEF Unregistered, Written
  <1>11. CASE ServerGenerates
    <2>1. UNCHANGED <<publicFile, secretFile>> /\ secretFile = NoFile
      BY <1>1, <1>11 DEF ServerGenerates, OneSecret
    <2> QED
      BY <1>4, <1>6, <1>9, <2>1, IdentityAssumption DEF Written
  <1>12. CASE WritesPublic
    <2>1. secretFile' = secretFile /\ secretFile = NoFile
      BY <1>1, <1>12 DEF WritesPublic, OneSecret, Generating
    <2> QED
      BY <1>4, <1>6, <1>9, <2>1, IdentityAssumption DEF Written
  <1>13. CASE SwarmStarts
    <2>1. UNCHANGED <<publicFile, secretFile>> /\ server'.id = server.id /\ server.at = "loaded"
      BY <1>13 DEF SwarmStarts
    <2> QED
      BY <1>3, <1>4, <1>6, <1>9, <2>1 DEF Provisioned, Unregistered
  <1>14. CASE WritesSwarmKey
    <2>1. /\ UNCHANGED <<publicFile, secretFile>> /\ server.at = "writesSwarmKey"
          /\ server' = [server EXCEPT !.at = "swarmUp"]
      BY <1>14 DEF WritesSwarmKey
    <2>2. server'.id = server.id
      BY <1>1, <2>1 DEF TypeOK
    <2> QED
      BY <1>3, <1>4, <1>6, <1>9, <2>1, <2>2 DEF Provisioned, Unregistered
  <1>15. CASE Binds
    <2>1. PICK bound : bound = [server.id.public EXCEPT !.peer = server.peer]
      OBVIOUS
    <2>2. /\ server' = [at |-> "up", id |-> [public |-> bound, secret |-> server.id.secret],
                        peer |-> server.peer]
          /\ publicFile' = bound /\ secretFile' = secretFile /\ server.at = "swarmUp"
      BY <1>15, <2>1 DEF Binds
    <2>3. server.id.public \in Public
      BY <1>1, <2>2, IdentityTyped DEF Manned
    <2>4. bound.pubkey = server.id.public.pubkey /\ server'.id.public = bound
      BY <2>1, <2>2, <2>3 DEF Public
    <2> QED
      BY <1>3, <1>4, <1>6, <1>9, <2>2, <2>4 DEF Provisioned, Unregistered
  <1> QED
    BY <1>7, <1>8, <1>10, <1>11, <1>12, <1>13, <1>14, <1>15 DEF ServerStep

LEMMA MineInStep ==
    ASSUME KeyInv, InStep, NEW tx \in mempool, Mine(tx)
    PROVE  InStep'
  <1>1. TypeOK /\ Manned /\ OneSecret
    BY DEF KeyInv
  <1>2. /\ UNCHANGED <<publicFile, secretFile, swarmFile, server, tool, troubles>>
        /\ mempool' = mempool \ {tx}
    BY DEF Mine, identityVars
  <1> SUFFICES ASSUME troubles = 0
               PROVE  OneAtATime' /\ Provisioned' /\ Unregistered' /\ Headline'
    BY <1>2 DEF InStep
  <1>3. OneAtATime /\ Provisioned /\ Unregistered /\ Headline
    BY DEF InStep
  <1>4. mempool = {tool.tx} /\ tool.at = "watches" /\ tx = tool.tx
    BY <1>3 DEF OneAtATime
  <1>5. mempool' = {} /\ ~RotationMined /\ (RotationMined' <=> tx.kind = "rotate")
    BY <1>2, <1>4 DEF RotationMined, Generating
  <1>6. Written(secretFile)
    BY <1>3, <1>4 DEF Provisioned, Written
  <1>7. tx.kind \in Kind /\ registrations \in Nat
    BY <1>1, RegistryClientAssumption DEF TypeOK, Tx
  <1>8. OneAtATime'
    BY <1>5 DEF OneAtATime
  <1>9. Provisioned'
    BY <1>2, <1>6 DEF Provisioned, Written
  <1>10. CASE registrations = 0
    <2>1. tx.kind = "register" /\ tx.key = secretFile.key /\ entry.lifecycle = "Unregistered"
      BY <1>3, <1>4, <1>6, <1>10 DEF Unregistered, NoEntry
    <2>2. entry' = Registered(tx.key) /\ registrations' = 1
      BY <1>10, <2>1 DEF Mine, Accepted, Effect
    <2>3. tx.key \in Key
      BY <1>1, <2>1 DEF Manned, Publishing
    <2>4. entry'.book = <<tx.key>> /\ entry'.current = 1
      BY <2>2, <2>3, NothingAssumption DEF Registered
    <2>5. Headline'
      BY <1>2, <1>5, <2>1, <2>4 DEF Headline
    <2>6. Unregistered'
      BY <2>2 DEF Unregistered
    <2> QED
      BY <1>8, <1>9, <2>5, <2>6
  <1>11. CASE registrations # 0
    <2>1. registrations' # 0 /\ (registrations' = 1 => registrations = 1)
      BY <1>7, <1>11 DEF Mine
    <2>2. Unregistered'
      BY <2>1 DEF Unregistered
    <2>3. CASE registrations' # 1
      BY <1>8, <1>9, <2>2, <2>3 DEF Headline
    <2>4. CASE registrations' = 1 /\ ~Accepted(tx)
      <3>1. entry' = entry
        BY <2>4 DEF Mine
      <3>2. CASE tx.kind = "rotate"
        <4>1. entry = NoEntry
          BY <1>1, <2>4, <3>2 DEF Accepted, Manned
        <4> QED
          BY <1>8, <1>9, <2>2, <3>1, <4>1 DEF Headline, NoEntry
      <3>3. CASE tx.kind # "rotate"
        BY <1>2, <1>3, <1>5, <1>8, <1>9, <2>1, <2>2, <2>4, <3>1, <3>3 DEF Headline
      <3> QED
        BY <3>2, <3>3
    <2>5. CASE registrations' = 1 /\ Accepted(tx)
      <3>1. tx.kind # "register" /\ entry' = Effect(tx) /\ registrations = 1
        BY <1>7, <2>1, <2>5 DEF Mine
      <3>2. CASE tx.kind \in {"deregister", "defunct"}
        <4>1. entry'.book = entry.book /\ entry'.current = entry.current
          BY <1>1, <3>1, <3>2, EntryFields DEF Effect
        <4> QED
          BY <1>2, <1>3, <1>5, <1>8, <1>9, <2>2, <3>1, <3>2, <4>1 DEF Headline
      <3>3. CASE tx.kind = "rotate"
        <4>1. PICK key, old : key = tx.key /\ old = entry.book
          OBVIOUS
        <4>2. old \in Seq(Key) /\ key \in Key
          BY <1>1, <3>3, <4>1, EntryFields DEF Manned, Publishing
        <4>3. Append(old, key)[Len(old) + 1] = key
          BY <4>2
        <4>4. entry'.book = Append(old, key) /\ entry'.current = Len(old) + 1
          BY <3>1, <3>3, <4>1 DEF Effect
        <4>5. entry'.book[entry'.current] = tool'.tx.key
          BY <1>2, <1>4, <4>1, <4>3, <4>4
        <4>6. Headline'
          BY <1>5, <3>3, <4>5 DEF Headline
        <4> QED
          BY <1>8, <1>9, <2>2, <4>6
      <3> QED
        BY <1>7, <3>1, <3>2, <3>3 DEF Kind
    <2> QED
      BY <2>3, <2>4, <2>5
  <1> QED
    BY <1>10, <1>11

LEMMA PortalRegistersInStep ==
    ASSUME KeyInv, InStep, PortalRegisters
    PROVE  InStep'
  <1>1. TypeOK /\ Manned /\ OneSecret
    BY DEF KeyInv
  <1>2. /\ UNCHANGED <<publicFile, secretFile, swarmFile, server, tool, troubles, mempool>>
        /\ server.at = "up" /\ registrations' = registrations + 1 /\ registrations \in Nat
    BY <1>1, RegistryClientAssumption DEF PortalRegisters, identityVars, TypeOK
  <1>3. PICK key \in {server.id.public.pubkey, NoKey} : entry' = Registered(key)
    BY DEF PortalRegisters
  <1> SUFFICES ASSUME troubles = 0
               PROVE  OneAtATime' /\ Provisioned' /\ Unregistered' /\ Headline'
    BY <1>2 DEF InStep
  <1>4. OneAtATime /\ Provisioned /\ Unregistered /\ Headline
    BY DEF InStep
  <1>5. Written(secretFile)
    BY <1>1, <1>2, <1>4 DEF OneSecret, Provisioned, Generating, Written
  <1>6. OneAtATime'
    BY <1>2, <1>4 DEF OneAtATime
  <1>7. Provisioned'
    BY <1>2, <1>5 DEF Provisioned, Written
  <1>8. Unregistered'
    BY <1>2 DEF Unregistered
  <1>9. CASE registrations = 0
    <2>1. /\ tool.at \in {"watches"} \cup Generating => tool.tx.kind = "register"
          /\ server.id.public.pubkey = secretFile.key
      BY <1>2, <1>4, <1>5, <1>9 DEF Unregistered
    <2>2. ~RotationMined'
      BY <1>1, <1>2, <2>1 DEF RotationMined, OneSecret
    <2>3. entry'.current # 0 => entry'.book = <<key>> /\ entry'.current = 1 /\ key # NoKey
      BY <1>3 DEF Registered
    <2> QED
      BY <1>2, <1>3, <1>6, <1>7, <1>8, <2>1, <2>2, <2>3 DEF Headline
  <1>10. CASE registrations # 0
    BY <1>2, <1>6, <1>7, <1>8, <1>10 DEF Headline
  <1> QED
    BY <1>9, <1>10

LEMMA OwnerInStep ==
    ASSUME KeyInv, InStep, Revoke \/ Purge
    PROVE  InStep'
  <1>1. /\ UNCHANGED <<publicFile, secretFile, swarmFile, server, tool, troubles, mempool, registrations>>
        /\ entry # NoEntry /\ entry'.current = 0
    <2>1. CASE Revoke
      BY <2>1, EntryFields DEF KeyInv, Revoke, identityVars, NoEntry, Entry
    <2>2. CASE Purge
      BY <2>2 DEF Purge, identityVars, NoEntry
    <2> QED
      BY <2>1, <2>2
  <1> QED
    BY <1>1 DEF InStep, OneAtATime, Provisioned, Unregistered, Headline

\* A step of the tool that writes nothing.
LEMMA ToolInStep ==
    ASSUME KeyInv, InStep, UNCHANGED <<identityVars, entry, registrations, mempool, troubles>>,
           tool.at # "watches" \/ mempool = {},
           Written(secretFile),
           RotationMined' <=> RotationMined,
           RotationMined => tool'.tx = tool.tx,
           registrations = 0 /\ troubles = 0 => tool'.at \notin {"watches"} \cup Generating,
           registrations = 0 /\ troubles = 0 /\ tool'.at # "idle" /\ tool'.tx.kind = "register" =>
               tool'.tx.key = secretFile.key
    PROVE  InStep'
  <1>1. UNCHANGED <<publicFile, secretFile, swarmFile, server, entry, registrations, mempool, troubles>>
    BY DEF identityVars
  <1> SUFFICES ASSUME troubles = 0
               PROVE  OneAtATime' /\ Provisioned' /\ Unregistered' /\ Headline'
    BY <1>1 DEF InStep
  <1>2. OneAtATime /\ Provisioned /\ Unregistered /\ Headline
    BY DEF InStep
  <1>3. OneAtATime'
    BY <1>1, <1>2 DEF OneAtATime
  <1>4. Provisioned'
    BY <1>1 DEF Provisioned, Written
  <1>5. Unregistered'
    BY <1>1, <1>2 DEF Unregistered, Written
  <1>6. Headline'
    BY <1>1, <1>2 DEF Headline
  <1> QED
    BY <1>3, <1>4, <1>5, <1>6

LEMMA CallInStep ==
    ASSUME KeyInv, InStep, NEW kind \in Kind, NEW key, Call(kind, key),
           kind = "register" => key = publicFile.pubkey
    PROVE  InStep'
  <1>1. /\ UNCHANGED <<identityVars, entry, registrations, mempool, troubles>> /\ tool = Idle
        /\ Written(publicFile) /\ Written(secretFile)
        /\ tool'.at = "sends" /\ tool'.tx.kind = kind /\ tool'.tx.key = key
    BY DEF Call, Readable
  <1>2. tool.at = "idle"
    BY <1>1 DEF Idle
  <1>3. ~RotationMined /\ ~RotationMined'
    BY <1>1, <1>2 DEF RotationMined, Generating
  <1>4. registrations = 0 /\ troubles = 0 => publicFile.pubkey = secretFile.key
    BY <1>1 DEF InStep, Unregistered
  <1> QED
    BY <1>1, <1>2, <1>3, <1>4, ToolInStep DEF Generating

\* A tool at work has read a secret.
LEMMA ToolReadSecret ==
    ASSUME KeyInv, tool.at # "idle"
    PROVE  Written(secretFile) /\ secretFile \in Secret /\ tool.tx \in Tx
  <1>1. tool.id \in Loaded /\ tool.id.secret = secretFile /\ tool.tx \in Tx
    BY DEF KeyInv, Manned, OneSecret
  <1>2. secretFile \in Secret
    BY <1>1, IdentityTyped
  <1> QED
    BY <1>1, <1>2, WrittenTyped DEF KeyInv

LEMMA RetryInStep ==
    ASSUME KeyInv, InStep, Retry
    PROVE  InStep'
  <1>1. /\ UNCHANGED <<identityVars, entry, registrations, mempool, troubles>> /\ tool.at = "backsOff"
        /\ tool'.at = "sends" /\ tool'.tx = [tool.tx EXCEPT !.nonce = troubles]
    BY DEF Retry
  <1>2. Written(secretFile) /\ tool.tx \in Tx
    BY <1>1, ToolReadSecret
  <1>3. tool'.tx.kind = tool.tx.kind /\ tool'.tx.key = tool.tx.key
    BY <1>1, <1>2 DEF Tx
  <1>4. ~RotationMined /\ ~RotationMined'
    BY <1>1 DEF RotationMined, Generating
  <1>5. registrations = 0 /\ troubles = 0 /\ tool.tx.kind = "register" => tool.tx.key = secretFile.key
    BY <1>1, <1>2 DEF InStep, Unregistered
  <1> QED
    BY <1>1, <1>2, <1>3, <1>4, <1>5, ToolInStep DEF Generating

LEMMA SendRefusedInStep ==
    ASSUME KeyInv, InStep, SendRefused
    PROVE  InStep'
  <1>1. /\ UNCHANGED <<identityVars, entry, registrations, mempool, troubles>> /\ tool.at = "sends"
        /\ tool' = AfterErr
    BY DEF SendRefused
  <1>2. Written(secretFile)
    BY <1>1, ToolReadSecret
  <1>3. \/ tool'.at = "idle"
        \/ tool'.at = "backsOff" /\ tool'.tx = tool.tx
    BY <1>1, ToolFields DEF AfterErr, Idle
  <1>4. ~RotationMined /\ ~RotationMined'
    BY <1>1, <1>3 DEF RotationMined, Generating
  <1>5. registrations = 0 /\ troubles = 0 /\ tool.tx.kind = "register" => tool.tx.key = secretFile.key
    BY <1>1, <1>2 DEF InStep, Unregistered
  <1> QED
    BY <1>1, <1>2, <1>3, <1>4, <1>5, ToolInStep DEF Generating

LEMMA SendInStep ==
    ASSUME KeyInv, InStep, Send
    PROVE  InStep'
  <1>1. TypeOK
    BY DEF KeyInv
  <1>2. /\ tool.at = "sends" /\ Accepted(tool.tx) /\ mempool' = mempool \cup {tool.tx}
        /\ UNCHANGED <<publicFile, secretFile, swarmFile, server, entry, registrations>>
    BY DEF Send, identityVars
  <1>3. CASE troubles' = troubles + 1
    BY <1>1, <1>3, RegistryClientAssumption DEF TypeOK, InStep
  <1>4. CASE tool' = [tool EXCEPT !.at = "watches"] /\ UNCHANGED troubles
    <2>1. tool'.at = "watches" /\ tool'.tx = tool.tx
      BY <1>4, ToolFields
    <2> SUFFICES ASSUME troubles = 0
                 PROVE  OneAtATime' /\ Provisioned' /\ Unregistered' /\ Headline'
      BY <1>4 DEF InStep
    <2>2. OneAtATime /\ Provisioned /\ Unregistered /\ Headline
      BY DEF InStep
    <2>3. Written(secretFile) /\ tool.tx \in Tx
      BY <1>2, ToolReadSecret
    <2>4. OneAtATime'
      BY <1>2, <2>1, <2>2 DEF OneAtATime
    <2>5. Provisioned'
      BY <1>2, <2>3 DEF Provisioned, Written
    <2>6. tool.tx.kind \in Kind
      BY <2>3 DEF Tx
    <2>7. registrations = 0 => tool.tx.kind = "register"
      BY <1>2, <2>2, <2>6 DEF Unregistered, Accepted, NoEntry, Kind
    <2>8. Unregistered'
      BY <1>2, <2>1, <2>2, <2>3, <2>7 DEF Unregistered, Written
    <2>9. ~RotationMined /\ ~RotationMined'
      BY <1>2, <2>1 DEF RotationMined, Generating
    <2>10. Headline'
      BY <1>2, <2>2, <2>9 DEF Headline
    <2> QED
      BY <2>4, <2>5, <2>8, <2>10
  <1> QED
    BY <1>3, <1>4 DEF Send

LEMMA ConfirmedInStep ==
    ASSUME KeyInv, InStep, Confirmed
    PROVE  InStep'
  <1>1. /\ UNCHANGED <<identityVars, entry, registrations, mempool, troubles>> /\ tool.at = "watches"
        /\ tool.tx \notin mempool
    BY DEF Confirmed
  <1>2. Written(secretFile)
    BY <1>1, ToolReadSecret
  <1>3. CASE troubles # 0
    BY <1>1, <1>3 DEF InStep
  <1>4. CASE troubles = 0
    <2>1. mempool = {} /\ (registrations = 0 => tool.tx.kind = "register")
      BY <1>1, <1>4 DEF InStep, OneAtATime, Unregistered
    <2>2. CASE tool.tx.kind = "rotate"
      <3>1. tool'.at = "writesPublic" /\ tool'.tx = tool.tx
        BY <2>2, ToolFields DEF Confirmed
      <3>2. RotationMined /\ RotationMined'
        BY <1>1, <2>2, <3>1 DEF RotationMined, Generating
      <3> QED
        BY <1>1, <1>2, <2>1, <2>2, <3>1, <3>2, ToolInStep
    <2>3. CASE tool.tx.kind # "rotate"
      <3>1. tool'.at = "idle"
        BY <2>3 DEF Confirmed, Idle
      <3>2. ~RotationMined /\ ~RotationMined'
        BY <1>1, <2>3, <3>1 DEF RotationMined, Generating
      <3> QED
        BY <1>1, <1>2, <2>1, <3>1, <3>2, ToolInStep DEF Generating
    <2> QED
      BY <2>2, <2>3
  <1> QED
    BY <1>3, <1>4

\* After a trouble nothing is claimed.
LEMMA TroubleInStep ==
    ASSUME KeyInv, ConfirmationLost \/ ToolStops
    PROVE  InStep'
  <1>1. troubles' = troubles + 1 /\ troubles \in Nat
    BY RegistryClientAssumption DEF ConfirmationLost, ToolStops, KeyInv, TypeOK
  <1> QED
    BY <1>1 DEF InStep

LEMMA PersistInStep ==
    ASSUME KeyInv, InStep, PersistPublic \/ PersistSecret
    PROVE  InStep'
  <1>1. /\ UNCHANGED <<swarmFile, server, entry, mempool, registrations, troubles>>
        /\ tool.at \in Generating /\ tool.at # "watches" /\ tool.at # "idle"
    BY DEF PersistPublic, PersistSecret, Generating
  <1>2. /\ tool.tx.kind = "rotate" /\ tool.id.secret = secretFile /\ secretFile \in Secret
        /\ secretFile.version < MaxVersion /\ (secretFile.version = 0 => secretFile.legacy = NoKey)
        /\ tool.tx.key = NextRotation(secretFile).key /\ Written(secretFile)
    BY <1>1, Persisting
  <1> SUFFICES ASSUME troubles = 0
               PROVE  OneAtATime' /\ Provisioned' /\ Unregistered' /\ Headline'
    BY <1>1 DEF InStep
  <1>3. OneAtATime /\ Provisioned /\ Unregistered /\ Headline
    BY DEF InStep
  <1>4. mempool = {} /\ registrations # 0 /\ RotationMined
    BY <1>1, <1>2, <1>3 DEF OneAtATime, Unregistered, RotationMined
  <1>5. OneAtATime' /\ Unregistered'
    BY <1>1, <1>4 DEF OneAtATime, Unregistered
  <1>6. CASE PersistPublic
    <2>1. tool'.at = "writesSecret" /\ tool'.tx = tool.tx /\ secretFile' = secretFile
      BY <1>6, ToolFields DEF PersistPublic
    <2>2. RotationMined'
      BY <2>1 DEF RotationMined, Generating
    <2>3. Provisioned'
      BY <1>2, <2>1 DEF Provisioned, Written
    <2>4. Headline'
      BY <1>1, <1>3, <1>4, <2>1, <2>2 DEF Headline
    <2> QED
      BY <1>5, <2>3, <2>4
  <1>7. CASE PersistSecret
    <2>1. secretFile' = NextRotation(secretFile) /\ tool'.at = "idle"
      BY <1>2, <1>7 DEF PersistSecret, Idle
    <2>2. NextRotation(secretFile) \in Secret
      BY <1>2, RotationOpens
    <2>3. secretFile' \notin {NoFile, Torn}
      BY <2>1, <2>2, NothingAssumption
    <2>4. ~RotationMined'
      BY <2>1 DEF RotationMined, Generating
    <2>5. Provisioned'
      BY <2>3 DEF Provisioned
    <2>6. Headline'
      BY <1>1, <1>2, <1>3, <1>4, <2>1, <2>4 DEF Headline
    <2> QED
      BY <1>5, <2>5, <2>6
  <1> QED
    BY <1>6, <1>7

LEMMA InStepNext ==
    ASSUME KeyInv, InStep, [Next]_vars
    PROVE  InStep'
  <1>1. CASE UNCHANGED vars
    BY <1>1 DEF InStep, OneAtATime, Provisioned, Unregistered, Headline, RotationMined, Written,
                vars, identityVars
  <1>2. CASE ServerStep /\ UNCHANGED <<entry, mempool, tool, registrations, troubles>>
    BY <1>2, ServerInStep DEF Outside
  <1>3. CASE \E tx \in mempool : Mine(tx)
    BY <1>3, MineInStep
  <1>4. CASE StartupRegister \/ Deregister \/ MarkDefunct \/ RotateEncryptionKey
    <2>1. CASE StartupRegister
      BY <2>1, CallInStep DEF StartupRegister, Kind
    <2>2. CASE Deregister
      BY <2>2, CallInStep DEF Deregister, Kind
    <2>3. CASE MarkDefunct
      BY <2>3, CallInStep DEF MarkDefunct, Kind
    <2>4. CASE RotateEncryptionKey
      BY <2>4, CallInStep DEF RotateEncryptionKey, Kind
    <2> QED
      BY <1>4, <2>1, <2>2, <2>3, <2>4
  <1> QED
    BY <1>1, <1>2, <1>3, <1>4, PortalRegistersInStep, OwnerInStep, RetryInStep, SendRefusedInStep,
       SendInStep, ConfirmedInStep, TroubleInStep, PersistInStep DEF Next

-------------------------------------------------------------------------------
\* KeyInv holds in every reachable state: whatever the tool loses and wherever a process
\* stops, the files, the two processes and the contract stay consistent.
THEOREM KeyInvariance == Spec => []KeyInv
  <1>1. Init => KeyInv
    BY KeyStart
  <1>2. KeyInv /\ [Next]_vars => KeyInv'
    BY KeyNext
  <1> QED
    BY <1>1, <1>2, PTL DEF Spec

\* The files, the processes and the contract only hold values of their types.
THEOREM KeysTypeCorrect == Spec => []TypeOK
  <1>1. KeyInv => TypeOK
    BY DEF KeyInv
  <1> QED
    BY <1>1, KeyInvariance, PTL

\* Every key the contract ever names opens requests with the secret on disk, whatever
\* was lost, retried or interrupted in the middle of a write.
THEOREM PublishedKeysAlwaysRecoverable == Spec => []PublishedKeysRecoverable
  <1>1. KeyInv => PublishedKeysRecoverable
    BY DEF KeyInv, KeysOpen, Opens, PublishedKeysRecoverable
  <1> QED
    BY <1>1, KeyInvariance, PTL

\* Once they are on disk, torn or whole, no boot, no rotation and no interrupted write
\* puts another ed25519 secret or swarm key in their place.
THEOREM IdentityIsNeverReplaced == Spec => IdentityNeverReplaced
  <1>1. KeyInv /\ [Next]_vars => [IdentityKept]_vars
    BY IdentityStep
  <1> QED
    BY <1>1, KeyInvariance, PTL DEF Spec, IdentityNeverReplaced

\* With nothing lost and nothing on its way, the version in force of the first
\* registration is the key on disk: a rotation leaves contract and files agreeing.
THEOREM HeadlineAlwaysOnDisk == Spec => []HeadlineOnDisk
  <1>1. Init => KeyInv /\ InStep
    BY KeyStart
  <1>2. KeyInv /\ InStep /\ [Next]_vars => KeyInv' /\ InStep'
    BY KeyNext, InStepNext
  <1>3. KeyInv /\ InStep => HeadlineOnDisk
    <2> SUFFICES ASSUME KeyInv, InStep, troubles = 0, registrations = 1, entry.current # 0,
                        tool.at \in {"idle", "sends", "backsOff"}
                 PROVE  Written(secretFile) /\ secretFile.key = entry.book[entry.current]
      BY DEF HeadlineOnDisk
    <2>1. Provisioned /\ Headline
      BY DEF InStep
    <2>2. ~RotationMined
      BY DEF RotationMined, Generating
    <2> QED
      BY <2>1, <2>2 DEF Provisioned, Headline, Written
  <1> QED
    BY <1>1, <1>2, <1>3, PTL DEF Spec
===============================================================================
