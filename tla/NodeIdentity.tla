------------------------------ MODULE NodeIdentity ------------------------------
(***************************************************************************)
(* The keys a node keeps on disk and in memory (identity.rs and the key of *)
(* network/mod.rs): identity.json, identity-secret.json and the swarm key  *)
(* its peer id comes from, the boot of the server process that loads or    *)
(* generates them, and which X25519 key opens a request.                   *)
(*                                                                         *)
(* fs::write truncates before it writes, so a process that stops, or a     *)
(* disk that fills up, while a file is written leaves it as it was,        *)
(* unreadable, or written.  identity-meta.json only labels the source of   *)
(* the randomness and is left out.                                         *)
(***************************************************************************)
EXTENDS Integers, Sequences, FiniteSets

CONSTANTS
    MaxSeeds,               \* bound: identities, and swarm keys, ever generated
    NoFile, Torn,           \* a file that is absent, a file that cannot be parsed
    NoKey, NoIdentity, NoPeer,
    LegacyStart             \* may the node start with the files of an older build?

ASSUME IdentityAssumption ==
    /\ MaxSeeds \in Nat \ {0}
    /\ LegacyStart \in BOOLEAN
    /\ NoFile # Torn

VARIABLES
    publicFile,             \* identity.json
    secretFile,             \* identity-secret.json
    swarmFile,              \* network/secret_ed25519
    server,                 \* the server process: where it is, LoadedIdentity, its peer
    seeds,                  \* ed25519 secrets drawn so far
    swarmKeys               \* swarm keys drawn so far

identityVars == <<publicFile, secretFile, swarmFile, server, seeds, swarmKeys>>

\* An X25519 key pair.  Version 0 is the random key older builds drew.
Key == [seed : 1..MaxSeeds, version : Nat]
Derive(seed, version) == [seed |-> seed, version |-> version]

\* A peer id is known by its swarm key.
Peer == 1..MaxSeeds
Public == [pubkey : Key, peer : Peer \cup {NoPeer}]
Secret == [seed : 1..MaxSeeds, version : Nat, key : Key, legacy : Key \cup {NoKey}]
Loaded == [public : Public, secret : Secret]

\* What stands for nothing is none of these.
ASSUME NothingAssumption ==
    /\ {NoFile, Torn} \cap Peer = {}
    /\ NoFile \notin Public \cup Secret
    /\ Torn \notin Public \cup Secret
    /\ NoPeer \notin Peer
    /\ NoKey \notin Key

Written(file) == file \notin {NoFile, Torn}

\* What load_existing and load_or_generate accept.  The public key of identity.json
\* is not compared with the secret.
Readable ==
    /\ Written(publicFile)
    /\ Written(secretFile)
    /\ secretFile.version >= 1 => secretFile.key = Derive(secretFile.seed, secretFile.version)
FromDisk == [public |-> publicFile, secret |-> secretFile]

Fresh(seed) ==
    [public |-> [pubkey |-> Derive(seed, 1), peer |-> NoPeer],
     secret |-> [seed |-> seed, version |-> 1, key |-> Derive(seed, 1), legacy |-> NoKey]]

\* decrypt_request_versioned; decrypt_request uses secret.key.
DecryptKey(secret, version) ==
    IF version # 0 THEN Derive(secret.seed, version)
    ELSE IF secret.legacy # NoKey THEN secret.legacy
    ELSE IF secret.version = 0 THEN secret.key
    ELSE NoKey

\* prepare_encryption_rotation and the secret persist_encryption_key_rotation keeps.
NextRotation(secret) ==
    LET next == secret.version + 1
    IN  [seed |-> secret.seed, version |-> next, key |-> Derive(secret.seed, next),
         legacy |-> IF secret.version = 0 THEN secret.key ELSE secret.legacy]

LegacySecret == [seed |-> 1, version |-> 0, key |-> Derive(1, 0), legacy |-> NoKey]

Down == [at |-> "down", id |-> NoIdentity, peer |-> NoPeer]

IdentityInit ==
    /\ server = Down
    /\ \/ /\ publicFile = NoFile /\ secretFile = NoFile /\ swarmFile = NoFile
          /\ seeds = 0 /\ swarmKeys = 0
       \/ /\ LegacyStart
          /\ publicFile = [pubkey |-> LegacySecret.key, peer |-> 1]
          /\ secretFile = LegacySecret
          /\ swarmFile = 1
          /\ seeds = 1 /\ swarmKeys = 1

-------------------------------------------------------------------------------
\* The server's boot, one step for each file it writes.

ServerLoads ==
    /\ server.at = "down"
    /\ Readable
    /\ server' = [at |-> "loaded", id |-> FromDisk, peer |-> NoPeer]
    /\ UNCHANGED <<publicFile, secretFile, swarmFile, seeds, swarmKeys>>

\* Mutant: an unreadable identity.json counts as a missing one.
ServerGeneratesUnlessReadable ==
    /\ server.at = "down"
    /\ ~Readable
    /\ seeds < MaxSeeds
    /\ seeds' = seeds + 1
    /\ server' = [at |-> "writesPublic", id |-> Fresh(seeds + 1), peer |-> NoPeer]
    /\ UNCHANGED <<publicFile, secretFile, swarmFile, swarmKeys>>

\* Either file missing: a new identity replaces both.
ServerGenerates ==
    /\ server.at = "down"
    /\ publicFile = NoFile \/ secretFile = NoFile
    /\ seeds < MaxSeeds
    /\ seeds' = seeds + 1
    /\ server' = [at |-> "writesPublic", id |-> Fresh(seeds + 1), peer |-> NoPeer]
    /\ UNCHANGED <<publicFile, secretFile, swarmFile, swarmKeys>>

WritesPublic ==
    /\ server.at = "writesPublic"
    /\ publicFile' = server.id.public
    /\ server' = [server EXCEPT !.at = "writesSecret"]
    /\ UNCHANGED <<secretFile, swarmFile, seeds, swarmKeys>>

WritesSecret ==
    /\ server.at = "writesSecret"
    /\ secretFile' = server.id.secret
    /\ server' = [server EXCEPT !.at = "loaded"]
    /\ UNCHANGED <<publicFile, swarmFile, seeds, swarmKeys>>

\* start_swarm takes the swarm key from its file, or draws one and writes it.  A file
\* that does not decode ends the boot.
SwarmStarts ==
    /\ server.at = "loaded"
    /\ \/ /\ Written(swarmFile)
          /\ server' = [at |-> "swarmUp", id |-> server.id, peer |-> swarmFile]
          /\ UNCHANGED swarmKeys
       \/ /\ swarmFile = NoFile
          /\ swarmKeys < MaxSeeds
          /\ swarmKeys' = swarmKeys + 1
          /\ server' = [at |-> "writesSwarmKey", id |-> server.id, peer |-> swarmKeys + 1]
    /\ UNCHANGED <<publicFile, secretFile, swarmFile, seeds>>

WritesSwarmKey ==
    /\ server.at = "writesSwarmKey"
    /\ swarmFile' = server.peer
    /\ server' = [server EXCEPT !.at = "swarmUp"]
    /\ UNCHANGED <<publicFile, secretFile, seeds, swarmKeys>>

\* bind_libp2p_peer_id writes identity.json from memory, once the swarm is up.
Binds ==
    /\ server.at = "swarmUp"
    /\ LET bound == [server.id.public EXCEPT !.peer = server.peer]
       IN  /\ server' = [at |-> "up", id |-> [public |-> bound, secret |-> server.id.secret],
                         peer |-> server.peer]
           /\ publicFile' = bound
    /\ UNCHANGED <<secretFile, swarmFile, seeds, swarmKeys>>

\* What a file holds after a stop of the process that is about to write it at stage.
AfterStop(stage, at, file) == IF stage = at THEN {file, Torn} ELSE {file}

\* The server stops, in the middle of a write or not.
ServerStops ==
    /\ server.at # "down"
    /\ server' = Down
    /\ publicFile' \in AfterStop("writesPublic", server.at, publicFile)
                     \cup AfterStop("swarmUp", server.at, publicFile)
    /\ secretFile' \in AfterStop("writesSecret", server.at, secretFile)
    /\ swarmFile' \in AfterStop("writesSwarmKey", server.at, swarmFile)
    /\ UNCHANGED <<seeds, swarmKeys>>

ServerStep ==
    ServerLoads \/ ServerGenerates \/ WritesPublic \/ WritesSecret
    \/ SwarmStarts \/ WritesSwarmKey \/ Binds \/ ServerStops
===============================================================================
