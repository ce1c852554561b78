------------------------------ MODULE Attestation ------------------------------
(***************************************************************************)
(* The TEE report hash a node shows and publishes (attestation/runtime.rs, *)
(* attestation/nras.rs): the refresh that asks the attestation service     *)
(* NRAS under a lock held across the request, the cache with its time to   *)
(* live, the snapshot on the HTTP surface, and the two who refresh: the    *)
(* heartbeat loop, which puts the hash into ProviderRegistry, and          *)
(* GET /identity, which answers with it.                                   *)
(*                                                                         *)
(* Time passes in ticks.  Ages stand for time stamps: they grow with every *)
(* tick up to MaxAge, past which nothing is told apart.  The HTTP client's *)
(* timeouts keep one exchange with NRAS within MaxFlow ticks.              *)
(***************************************************************************)
EXTENDS Integers, FiniteSets

CONSTANTS
    Hashes, NoHash,         \* report hashes (bytes32), and none
    AttestationConfigs,     \* configurations the node may run under
    MaxFlow                 \* ticks an exchange with NRAS can take

\* Of the configuration: nras_enabled, a url, quote and signature, the time to live in
\* ticks (zero days is allowed); whether the registry is enabled and the node's wallet
\* is the registry's attestation service.
AttestationConfig == [nrasEnabled : BOOLEAN, url : BOOLEAN, inputs : BOOLEAN, ttl : Nat,
                      registryEnabled : BOOLEAN, isService : BOOLEAN]

ASSUME AttestationAssumption ==
    /\ NoHash \notin Hashes
    /\ AttestationConfigs \subseteq AttestationConfig
    /\ MaxFlow \in Nat \ {0}

VARIABLES
    attestation,            \* the configuration
    cache,                  \* cached_good_hash with the age of cached_verified_at_unix
    ui,                     \* NrasUiSnapshot: verified and tee_report_hash
    lock,                   \* who holds the write lock, or Nobody
    refresh,                \* [Refreshers -> its progress]
    proof,                  \* the node's teeReportHash in ProviderRegistry
    last                    \* history: what the last refresh returned

attestationVars == <<attestation, cache, ui, lock, refresh, proof, last>>

Refreshers == {"heartbeat", "identity"}
Nobody == "nobody"
NoCache == [hash |-> NoHash, age |-> 0]
Idle == [at |-> "idle"]
MaxAge == attestation.ttl + MaxFlow
Older(age) == IF age < MaxAge THEN age + 1 ELSE age

Snapshot(verified, hash) == [verified |-> verified, hash |-> hash]

AttestationInit ==
    /\ attestation \in AttestationConfigs
    /\ cache = NoCache
    /\ ui = Snapshot("unknown", NoHash)
    /\ lock = Nobody
    /\ refresh = [r \in Refreshers |-> Idle]
    /\ proof = NoHash
    /\ last = NoHash

\* The process stops: what was in memory is gone, the registry keeps its proof.
AttestationStops ==
    /\ cache' = NoCache
    /\ ui' = Snapshot("unknown", NoHash)
    /\ lock' = Nobody
    /\ refresh' = [r \in Refreshers |-> Idle]
    /\ last' = NoHash
    /\ UNCHANGED <<attestation, proof>>

-------------------------------------------------------------------------------
\* refresh_nras_tee_report_hash.

\* run_heartbeat_loop or, without a registry, main's own loop; none if NRAS is off too.
HeartbeatRuns == attestation.registryEnabled \/ attestation.nrasEnabled

\* A refresh begins by waiting for the lock.  GET /identity has read the snapshot for
\* its answer by then, so the two halves of the answer may disagree.
Want(r) ==
    /\ refresh[r] = Idle
    /\ r = "heartbeat" => HeartbeatRuns
    /\ refresh' = [refresh EXCEPT ![r] = [at |-> "waiting"]]
    /\ UNCHANGED <<attestation, cache, ui, lock, proof, last>>

\* Mutant: an entry is good for as long as there is one.
StillGoodForever(age) == cache.hash # NoHash

\* Is the cached hash within its time to live at that age?
StillGood(age) == cache.hash # NoHash /\ age < attestation.ttl

\* The refresh returns; the age of the verification behind the hash is kept.
Return(r, hash, age) ==
    /\ refresh' = [refresh EXCEPT ![r] = [at |-> "returned", hash |-> hash, age |-> age]]
    /\ last' = hash

\* With the lock: every case that needs no exchange with NRAS.
ReturnAtOnce(r) ==
    /\ refresh[r].at = "waiting"
    /\ lock = Nobody
    /\ \/ /\ ~attestation.nrasEnabled
          /\ ui' = Snapshot("unknown", ui.hash)
          /\ cache' = NoCache
          /\ Return(r, NoHash, 0)
       \/ /\ attestation.nrasEnabled /\ ~attestation.url
          /\ ui' = Snapshot("no", NoHash)
          /\ UNCHANGED cache
          /\ Return(r, NoHash, 0)
       \/ /\ attestation.nrasEnabled /\ attestation.url /\ ~attestation.inputs
          /\ ui' = IF StillGood(cache.age) THEN Snapshot("yes", cache.hash)
                                           ELSE Snapshot("no", NoHash)
          /\ UNCHANGED cache
          /\ Return(r, ui'.hash, cache.age)
    /\ UNCHANGED <<attestation, lock, proof>>

\* Now is taken here: the age the cache has when the exchange begins.
StartFlow(r) ==
    /\ refresh[r].at = "waiting"
    /\ lock = Nobody
    /\ attestation.nrasEnabled /\ attestation.url /\ attestation.inputs
    /\ lock' = r
    /\ refresh' = [refresh EXCEPT ![r] = [at |-> "asking", ageThen |-> cache.age, ticks |-> 0]]
    /\ UNCHANGED <<attestation, cache, ui, proof, last>>

\* full_attestation_flow: challenge, verdict, certificate chain, and a hash that
\* normalizes to 32 bytes.
FlowSucceeds(r) ==
    /\ refresh[r].at = "asking"
    /\ \E hash \in Hashes :
           /\ cache' = [hash |-> hash, age |-> 0]
           /\ ui' = Snapshot("yes", hash)
           /\ Return(r, hash, 0)
    /\ lock' = Nobody
    /\ UNCHANGED <<attestation, proof>>

\* Mutant: the snapshot is left as it was.
FlowFailsSilently(r) ==
    /\ refresh[r].at = "asking"
    /\ Return(r, IF StillGood(refresh[r].ageThen) THEN cache.hash ELSE NoHash, cache.age)
    /\ lock' = Nobody
    /\ UNCHANGED <<attestation, cache, ui, proof>>

\* An error at any point of it: maybe_use_cache_on_failure, with the time taken before.
FlowFails(r) ==
    /\ refresh[r].at = "asking"
    /\ ui' = IF StillGood(refresh[r].ageThen) THEN Snapshot("yes", cache.hash)
                                              ELSE Snapshot("no", NoHash)
    /\ Return(r, ui'.hash, cache.age)
    /\ lock' = Nobody
    /\ UNCHANGED <<attestation, cache, proof>>

\* Mutant: the lock stays taken.
IdentityDroppedKeepsLock ==
    /\ refresh["identity"].at \in {"waiting", "asking"}
    /\ refresh' = [refresh EXCEPT !["identity"] = Idle]
    /\ UNCHANGED <<attestation, cache, ui, lock, proof, last>>

\* A client that goes away takes its request along; the lock it held is given up.
IdentityDropped ==
    /\ refresh["identity"].at \in {"waiting", "asking"}
    /\ refresh' = [refresh EXCEPT !["identity"] = Idle]
    /\ lock' = IF lock = "identity" THEN Nobody ELSE lock
    /\ UNCHANGED <<attestation, cache, ui, proof, last>>

-------------------------------------------------------------------------------
\* What is done with the hash.

\* heartbeat: an empty hash is not sent, so the proof in the registry stays; setTEEProof
\* is refused unless the wallet is the attestation service; the loop goes on either way.
Heartbeat ==
    /\ refresh["heartbeat"].at = "returned"
    /\ \/ /\ attestation.registryEnabled
          /\ attestation.isService
          /\ refresh["heartbeat"].hash # NoHash
          /\ proof' = refresh["heartbeat"].hash
       \/ UNCHANGED proof
    /\ refresh' = [refresh EXCEPT !["heartbeat"] = Idle]
    /\ UNCHANGED <<attestation, cache, ui, lock, last>>

\* GET /identity answers.
IdentityAnswers ==
    /\ refresh["identity"].at = "returned"
    /\ refresh' = [refresh EXCEPT !["identity"] = Idle]
    /\ UNCHANGED <<attestation, cache, ui, lock, proof, last>>

\* A tick; an exchange with NRAS has timed out before it takes more than MaxFlow.
Tick ==
    /\ \A r \in Refreshers : refresh[r].at = "asking" => refresh[r].ticks < MaxFlow
    /\ cache' = [cache EXCEPT !.age = IF cache.hash = NoHash THEN @ ELSE Older(@)]
    /\ refresh' = [r \in Refreshers |->
           IF refresh[r].at = "asking" THEN [refresh[r] EXCEPT !.ticks = @ + 1] ELSE refresh[r]]
    /\ UNCHANGED <<attestation, ui, lock, proof, last>>

Enter(r) == ReturnAtOnce(r) \/ StartFlow(r)
FlowEnds(r) == FlowSucceeds(r) \/ FlowFails(r)

AttestationStep ==
    \/ \E r \in Refreshers : Want(r) \/ Enter(r) \/ FlowEnds(r)
    \/ IdentityDropped
    \/ Heartbeat
    \/ IdentityAnswers

-------------------------------------------------------------------------------
\* A hash handed out by a refresh stands for a verification within the time to live,
\* or older by at most the one exchange whose failure it covers for.
HashFresh ==
    \A r \in Refreshers :
        refresh[r].at = "returned" /\ refresh[r].hash # NoHash =>
            refresh[r].age < attestation.ttl + MaxFlow

\* The snapshot on the HTTP surface tells what the last refresh decided, also when the
\* exchange fails, the client hangs up in the middle of it or the other one refreshes in
\* between: it shows "verified" exactly if a hash was handed out, that hash, and the
\* hash is the cached one.
SnapshotHonest ==
    attestation.nrasEnabled =>
        /\ ui.hash = last
        /\ ui.verified = "yes" <=> last # NoHash
        /\ last \in {NoHash, cache.hash}

\* Whoever wants the hash gets an answer, though every exchange holds the lock.
RefreshAnswered ==
    \A r \in Refreshers : refresh[r].at = "waiting" ~> refresh[r].at \in {"returned", "idle"}
===============================================================================
