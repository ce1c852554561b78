----------------------------- MODULE RegistryClient -----------------------------
(***************************************************************************)
(* What a node operator does to the node's entry in ProviderRegistry       *)
(* through registry.rs: register (with retries), chill, mark defunct and   *)
(* rotate the encryption key, against the node's files.  The calls run in  *)
(* a process of their own (the operator's tool) beside the server.         *)
(*                                                                         *)
(* The contract is the part of ProviderRegistry that concerns one node:    *)
(* its key book, the version in force and its lifecycle.  watch() returns  *)
(* for a reverted transaction as for any other.                            *)
(***************************************************************************)
EXTENDS NodeIdentity

CONSTANTS
    NoTx,
    MaxVersion,             \* bound: key versions of one registration, and on disk
    MaxRegistrations,       \* bound: how often the node is registered
    MaxRetries,             \* STARTUP_REGISTER_MAX_RETRIES
    MaxTroubles             \* bound: lost answers and stops of the tool

ASSUME RegistryClientAssumption ==
    /\ MaxVersion \in Nat \ {0}
    /\ MaxRegistrations \in Nat
    /\ MaxRetries \in Nat \ {0}
    /\ MaxTroubles \in Nat

VARIABLES
    entry,                  \* the node's entry in the contract
    mempool,                \* transactions sent and not yet mined
    tool,                   \* the operator's process
    registrations,          \* history: registrations so far
    troubles                \* history: lost answers and stops so far

vars == <<identityVars, entry, mempool, tool, registrations, troubles>>

Lifecycle == {"Unregistered", "Active", "Chilled", "Defunct"}
Entry == [lifecycle : Lifecycle, book : Seq(Key), current : Nat]
NoEntry == [lifecycle |-> "Unregistered", book |-> <<>>, current |-> 0]

Kind == {"register", "deregister", "defunct", "rotate"}
\* nonce tells a transaction sent again from one whose answer was lost.
Tx == [kind : Kind, key : Key \cup {NoKey}, nonce : Nat]

\* The call in hand, the identity it was made with, its transaction, the attempt of
\* startup_register_with_retry.
Tool == [at : {"idle", "sends", "watches", "writesPublic", "writesSecret", "backsOff"},
         id : Loaded \cup {NoIdentity}, tx : Tx \cup {NoTx}, attempt : 0..MaxRetries]
Idle == [at |-> "idle", id |-> NoIdentity, tx |-> NoTx, attempt |-> 0]

\* The stored states are ones the files, the processes and the contract can be in.
TypeOK ==
    /\ publicFile \in Public \cup {NoFile, Torn}
    /\ secretFile \in Secret \cup {NoFile, Torn}
    /\ swarmFile \in Peer \cup {NoFile, Torn}
    /\ server \in [at : {"down", "writesPublic", "writesSecret", "loaded", "writesSwarmKey",
                         "swarmUp", "up"},
                   id : Loaded \cup {NoIdentity}, peer : Peer \cup {NoPeer}]
    /\ seeds \in 0..MaxSeeds
    /\ swarmKeys \in 0..MaxSeeds
    /\ entry \in Entry
    /\ mempool \subseteq Tx
    /\ tool \in Tool
    /\ registrations \in 0..MaxRegistrations
    /\ troubles \in 0..MaxTroubles

Init ==
    /\ IdentityInit
    /\ entry = NoEntry
    /\ mempool = {}
    /\ tool = Idle
    /\ registrations = 0
    /\ troubles = 0

-------------------------------------------------------------------------------
\* The contract.

Accepted(tx) ==
    CASE tx.kind = "register"   -> entry.lifecycle = "Unregistered"
      [] tx.kind = "deregister" -> entry.lifecycle = "Active"
      [] tx.kind = "defunct"    -> entry.lifecycle = "Chilled"
      [] OTHER                  -> entry.lifecycle # "Unregistered"

Registered(key) == [lifecycle |-> "Active", book |-> IF key = NoKey THEN <<>> ELSE <<key>>,
                    current |-> IF key = NoKey THEN 0 ELSE 1]

Effect(tx) ==
    CASE tx.kind = "register"   -> Registered(tx.key)
      [] tx.kind = "deregister" -> [entry EXCEPT !.lifecycle = "Chilled"]
      [] tx.kind = "defunct"    -> [entry EXCEPT !.lifecycle = "Defunct"]
      [] OTHER -> [lifecycle |-> entry.lifecycle, book |-> Append(entry.book, tx.key),
                   current |-> Len(entry.book) + 1]

\* A transaction is mined; one the contract no longer accepts reverts.
Mine(tx) ==
    /\ tx \in mempool
    /\ mempool' = mempool \ {tx}
    /\ IF Accepted(tx)
       THEN /\ entry' = Effect(tx)
            /\ registrations' = registrations + IF tx.kind = "register" THEN 1 ELSE 0
       ELSE UNCHANGED <<entry, registrations>>
    /\ registrations' <= MaxRegistrations
    /\ UNCHANGED <<identityVars, tool, troubles>>

\* The portal registers the node, with the key GET /identity shows or with none.
PortalRegisters ==
    /\ server.at = "up"
    /\ entry.lifecycle = "Unregistered"
    /\ registrations < MaxRegistrations
    /\ \E key \in {server.id.public.pubkey, NoKey} : entry' = Registered(key)
    /\ registrations' = registrations + 1
    /\ UNCHANGED <<identityVars, mempool, tool, troubles>>

\* The operator revokes the version in force from a wallet.
Revoke ==
    /\ entry.current # 0
    /\ entry' = [entry EXCEPT !.current = 0]
    /\ UNCHANGED <<identityVars, mempool, tool, registrations, troubles>>

\* The registry's owner purges the defunct entry.
Purge ==
    /\ entry.lifecycle = "Defunct"
    /\ entry' = NoEntry
    /\ UNCHANGED <<identityVars, mempool, tool, registrations, troubles>>

-------------------------------------------------------------------------------
\* The operator's process.

\* The call has its keys and addresses (a call without them returns before it sends,
\* and so do a dry run and, for all but rotate, a disabled registry); a node id needs
\* the peer id the server has bound.
Call(kind, key) ==
    /\ tool = Idle
    /\ Readable
    /\ publicFile.peer # NoPeer
    /\ tool' = [at |-> "sends", id |-> FromDisk,
                tx |-> [kind |-> kind, key |-> key, nonce |-> troubles],
                attempt |-> IF kind = "register" THEN 1 ELSE 0]
    /\ UNCHANGED <<identityVars, entry, mempool, registrations, troubles>>

StartupRegister == Call("register", publicFile.pubkey)
Deregister == Call("deregister", NoKey)
MarkDefunct == Call("defunct", NoKey)
RotateEncryptionKey ==
    Call("rotate", NextRotation(secretFile).key) /\ secretFile.version < MaxVersion

\* Err: the call returns it; only startup_register_with_retry tries again, after a delay.
AfterErr == IF tool.tx.kind = "register" /\ tool.attempt < MaxRetries
            THEN [tool EXCEPT !.at = "backsOff"]
            ELSE Idle

Retry ==
    /\ tool.at = "backsOff"
    /\ tool' = [at |-> "sends", id |-> tool.id, tx |-> [tool.tx EXCEPT !.nonce = troubles],
                attempt |-> tool.attempt + 1]
    /\ UNCHANGED <<identityVars, entry, mempool, registrations, troubles>>

\* send() simulates the call first, so one the contract refuses now is not sent.
SendRefused ==
    /\ tool.at = "sends"
    /\ ~Accepted(tool.tx)
    /\ tool' = AfterErr
    /\ UNCHANGED <<identityVars, entry, mempool, registrations, troubles>>

Send ==
    /\ tool.at = "sends"
    /\ Accepted(tool.tx)
    /\ tool.tx.kind = "rotate" => Len(entry.book) < MaxVersion
    /\ mempool' = mempool \cup {tool.tx}
    /\ \/ tool' = [tool EXCEPT !.at = "watches"] /\ UNCHANGED troubles
       \/ /\ troubles < MaxTroubles         \* sent, but the answer is lost
          /\ tool' = AfterErr
          /\ troubles' = troubles + 1
    /\ UNCHANGED <<identityVars, entry, registrations>>

\* Mutant: the rotated key is not written to disk.
ConfirmedUnpersisted ==
    /\ tool.at = "watches"
    /\ tool.tx \notin mempool
    /\ tool' = Idle
    /\ UNCHANGED <<identityVars, entry, mempool, registrations, troubles>>

\* watch() saw the transaction in a block.  persist_encryption_key_rotation follows;
\* the other calls are done.
Confirmed ==
    /\ tool.at = "watches"
    /\ tool.tx \notin mempool
    /\ tool' = IF tool.tx.kind = "rotate"
               THEN [tool EXCEPT !.at = "writesPublic"]
               ELSE Idle
    /\ UNCHANGED <<identityVars, entry, mempool, registrations, troubles>>

ConfirmationLost ==
    /\ tool.at = "watches"
    /\ troubles < MaxTroubles
    /\ tool' = AfterErr
    /\ troubles' = troubles + 1
    /\ UNCHANGED <<identityVars, entry, mempool, registrations>>

PersistPublic ==
    /\ tool.at = "writesPublic"
    /\ publicFile' = [tool.id.public EXCEPT !.pubkey = tool.tx.key]
    /\ tool' = [tool EXCEPT !.at = "writesSecret"]
    /\ UNCHANGED <<secretFile, swarmFile, server, seeds, swarmKeys, entry, mempool, registrations, troubles>>

\* Mutant: the random key of an older build is not carried over.
PersistSecretForgetsLegacy ==
    /\ tool.at = "writesSecret"
    /\ secretFile' = [NextRotation(tool.id.secret) EXCEPT !.legacy = NoKey]
    /\ tool' = Idle
    /\ UNCHANGED <<publicFile, swarmFile, server, seeds, swarmKeys, entry, mempool, registrations, troubles>>

PersistSecret ==
    /\ tool.at = "writesSecret"
    /\ secretFile' = NextRotation(tool.id.secret)
    /\ tool' = Idle
    /\ UNCHANGED <<publicFile, swarmFile, server, seeds, swarmKeys, entry, mempool, registrations, troubles>>

\* The tool stops, or a write fails.
ToolStops ==
    /\ tool.at # "idle"
    /\ troubles < MaxTroubles
    /\ publicFile' \in AfterStop("writesPublic", tool.at, publicFile)
    /\ secretFile' \in AfterStop("writesSecret", tool.at, secretFile)
    /\ tool' = Idle
    /\ troubles' = troubles + 1
    /\ UNCHANGED <<swarmFile, server, seeds, swarmKeys, entry, mempool, registrations>>

Next ==
    \/ ServerStep /\ UNCHANGED <<entry, mempool, tool, registrations, troubles>>
    \/ \E tx \in mempool : Mine(tx)
    \/ PortalRegisters
    \/ Revoke
    \/ Purge
    \/ StartupRegister
    \/ Deregister
    \/ MarkDefunct
    \/ RotateEncryptionKey
    \/ Retry
    \/ SendRefused
    \/ Send
    \/ Confirmed
    \/ ConfirmationLost
    \/ PersistPublic
    \/ PersistSecret
    \/ ToolStops

Spec == Init /\ [][Next]_vars

-------------------------------------------------------------------------------
\* Whatever stops, is lost or is repeated, every key the contract names is one the
\* node can still open requests for: some version makes decrypt_request_versioned
\* use it, as long as identity-secret.json can be read.
PublishedKeysRecoverable ==
    Written(secretFile) =>
        \A v \in DOMAIN entry.book :
            \E w \in 0..MaxVersion : DecryptKey(secretFile, w) = entry.book[v]

\* What a step may do to the keys on disk: an unreadable secret stays unreadable, a
\* readable one is rotated from its own seed or torn; a swarm key is final.
IdentityKept ==
    /\ Written(publicFile) => publicFile.peer \in {NoPeer, swarmFile}
    /\ secretFile # NoFile =>
           \/ secretFile' = Torn
           \/ Written(secretFile) /\ Written(secretFile') /\ secretFile'.seed = secretFile.seed
    /\ swarmFile # NoFile => swarmFile' = swarmFile

\* From the first byte of the ed25519 secret and of the swarm key on disk, torn or
\* whole, no step of any boot, rotation or interrupted write puts another one in their
\* place, whatever has become of identity.json; and the only peer id that file ever
\* names is the one of that swarm key.
IdentityNeverReplaced == [][IdentityKept]_vars

\* A rotation leaves contract and disk agreeing: with nothing lost and no transaction
\* on its way, the version in force of the first registration is the key on disk.
HeadlineOnDisk ==
    /\ troubles = 0
    /\ registrations = 1
    /\ entry.current # 0
    /\ tool.at \in {"idle", "sends", "backsOff"}
    /\ mempool = {}
    => Written(secretFile) /\ secretFile.key = entry.book[entry.current]
===============================================================================
