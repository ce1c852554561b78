----------------------------- MODULE NodeSettlement -----------------------------
(***************************************************************************)
(* One node from the first streamed token to the last settle transaction:  *)
(* the streams of server/inference.rs, the session manager with its disk   *)
(* copy (session.rs, store.rs), the settlement worker (settlement/mod.rs,  *)
(* settlement/evm.rs), the transactions it has in flight, and the escrow   *)
(* they reach, seen as SessionLedger.                                      *)
(*                                                                         *)
(* Settlement is enabled, so every request carries the id of an escrow     *)
(* session (server/auth.rs) and open_session_on_chain is never reached.    *)
(* One token costs one unit; tokens_input is never written by the node and *)
(* stays 0.  A local session is named by the request that opened it.       *)
(***************************************************************************)
EXTENDS SessionLedger, EscrowSums

CONSTANTS
    Requests,               \* inference requests, one local session each
    NoRequest, NoSession, NoTx, NoLink,
    Configs,                \* configurations the node may run under
    ReceiptCadence,         \* [node] receipt_cadence_tokens
    MaxTokens,              \* bound: tokens one stream produces
    MaxTroubles             \* bound: lost confirmations, restarts and settle calls
                            \* of session users, together

\* [node] session_security_tier, [settlement] tee_settle_tokens_threshold, whether
\* tee_settle_every_n_blocks > 0, and router.enabled && router_usage_metering.
Config == [tier : {"BestEffort", "TeeVerified"}, tokensThreshold : Nat,
           blockGate : BOOLEAN, routerMetering : BOOLEAN]

ASSUME NodeAssumption ==
    /\ Configs \subseteq Config
    /\ ReceiptCadence \in Nat \ {0}
    /\ MaxTokens \in Nat
    /\ MaxTroubles \in Nat
    /\ IsFiniteSet(Requests)
    /\ NoRequest \notin Requests
    /\ NoLink \notin ChainIds

VARIABLES
    config,                 \* the configuration, read at start-up
    stream,                 \* [Requests -> StreamState] the task of each request
    link,                   \* [Requests -> ChainIds] evm_session_id, once authenticated
    sessions,               \* [Requests -> Session or NoSession] SessionManager.sessions
    disk,                   \* [Requests -> Session or NoSession] the "sessions" tree
    worker,                 \* the settlement loop
    mempool,                \* transactions sent and not yet mined
    routerSaw,              \* requests whose usage line the router has still to report
    served,                 \* [Requests -> Nat] history: tokens streamed
    lost, restarts, userSettles  \* history: troubles so far

StreamState == {"idle", "admitted", "streaming", "receiptDue", "usageSent", "ended"}
\* Opening and Disputed are states of the enum that no code sets.
SessionState == {"Active", "Completed", "ConsumerDisconnected", "ProviderError", "Settled"}

Session == [state : SessionState, tokensOutput : Nat, lastReceiptSeq : Nat,
            outputTokensSynced : Nat, teeAnchorTokens : Nat]

\* open_with_tee.
NewSession == [state |-> "Active", tokensOutput |-> 0, lastReceiptSeq |-> 0,
               outputTokensSynced |-> 0, teeAnchorTokens |-> 0]

\* A transaction; attempt tells a resent one from one whose confirmation was lost.
Tx == [kind : {"recordUsage"}, request : Requests, tokens : Nat, attempt : Nat]
      \cup [kind : {"settleByOperator"}, request : Requests, toProvider : Nat,
            toUser : Nat, full : BOOLEAN, attempt : Nat]

\* The loop: asleep, at the next candidate of a tick, waiting for the confirmation
\* of a recordUsage, about to read the session again, waiting for a settle.  todo
\* holds the clones of the sessions the tick found, the one in hand included.
Worker == [at : {"asleep", "next", "reporting", "refresh", "settling"},
           todo : [Requests -> Session \cup {NoSession}], epochDue : BOOLEAN,
           current : Requests \cup {NoRequest}, tx : Tx \cup {NoTx}]

ASSUME NothingAssumption ==
    /\ NoSession \notin Session
    /\ NoTx \notin Tx

Nothing == [r \in Requests |-> NoSession]
Asleep == [at |-> "asleep", todo |-> Nothing, epochDue |-> FALSE,
           current |-> NoRequest, tx |-> NoTx]
\* Between two candidates, and with candidate r in hand.
AtNext(todo, epochDue) ==
    [at |-> "next", todo |-> todo, epochDue |-> epochDue, current |-> NoRequest, tx |-> NoTx]
Busy(at, r, tx) ==
    [at |-> at, todo |-> worker.todo, epochDue |-> worker.epochDue, current |-> r, tx |-> tx]

chainVars  == <<ledger, mempool>>
manager    == <<sessions, disk>>
streamVars == <<stream, link, served>>
troubles   == <<lost, restarts, userSettles>>
vars == <<config, chainVars, manager, streamVars, worker, routerSaw, troubles>>

\* Every variable is of its type and no history exceeds its bound.
TypeOK ==
    /\ LedgerTypeOK
    /\ stream \in [Requests -> StreamState]
    /\ link \in [Requests -> ChainIds \cup {NoLink}]
    /\ sessions \in [Requests -> Session \cup {NoSession}]
    /\ disk \in [Requests -> Session \cup {NoSession}]
    /\ worker \in Worker
    /\ mempool \subseteq Tx
    /\ routerSaw \subseteq Requests
    /\ served \in [Requests -> Nat]
    /\ lost \in Nat /\ restarts \in Nat /\ userSettles \in Nat
    /\ lost + restarts + userSettles <= MaxTroubles
    /\ config \in Configs

Init ==
    /\ config \in Configs
    /\ LedgerInit
    /\ stream = [r \in Requests |-> "idle"]
    /\ link = [r \in Requests |-> NoLink]
    /\ sessions = Nothing
    /\ disk = Nothing
    /\ worker = Asleep
    /\ mempool = {}
    /\ routerSaw = {}
    /\ served = [r \in Requests |-> 0]
    /\ lost = 0
    /\ restarts = 0
    /\ userSettles = 0

TroublesLeft == lost + restarts + userSettles < MaxTroubles

-------------------------------------------------------------------------------
\* The session manager: each operation changes the session in memory, if it is
\* there, and writes it through to disk under the session's lock.

\* Mutant: the change stays in memory.
SaveMemoryOnly(r, s) ==
    /\ sessions' = [sessions EXCEPT ![r] = s]
    /\ UNCHANGED disk

Save(r, s) ==
    /\ sessions' = [sessions EXCEPT ![r] = s]
    /\ disk' = [disk EXCEPT ![r] = s]

Close(r, state) ==
    IF sessions[r] = NoSession
    THEN UNCHANGED manager
    ELSE Save(r, [sessions[r] EXCEPT !.state = state])

UpdateTokensSynced(r, output) ==
    IF sessions[r] = NoSession
    THEN UNCHANGED manager
    ELSE Save(r, [sessions[r] EXCEPT !.outputTokensSynced = output])

UpdateTeeAnchorTokens(r, anchor) ==
    IF sessions[r] = NoSession
    THEN UNCHANGED manager
    ELSE Save(r, [sessions[r] EXCEPT !.teeAnchorTokens = anchor])

\* Mutant: the token gate holds for completed sessions too.
TeeTouchGatedAll ==
    [r \in Requests |->
        IF /\ config.tier = "TeeVerified"
           /\ sessions[r] # NoSession
           /\ sessions[r].state \in {"Completed", "Active"}
           /\ sessions[r].tokensOutput >= sessions[r].teeAnchorTokens
                                + (IF config.tokensThreshold = 0 THEN 1 ELSE config.tokensThreshold)
        THEN sessions[r] ELSE NoSession]

TeeTouchCandidates ==
    [r \in Requests |->
        IF /\ config.tier = "TeeVerified"
           /\ sessions[r] # NoSession
           /\ \/ sessions[r].state = "Completed"
              \/ /\ sessions[r].state = "Active"
                 /\ sessions[r].tokensOutput >= sessions[r].teeAnchorTokens
                                + (IF config.tokensThreshold = 0 THEN 1 ELSE config.tokensThreshold)
        THEN sessions[r] ELSE NoSession]

PendingBestEffortCompleted ==
    [r \in Requests |->
        IF /\ config.tier = "BestEffort"
           /\ sessions[r] # NoSession
           /\ sessions[r].state = "Completed"
        THEN sessions[r] ELSE NoSession]

-------------------------------------------------------------------------------
\* Session users on the chain.

UserOpens(id, amount) ==
    /\ Open(id, amount)
    /\ UNCHANGED <<mempool, manager, streamVars, worker, routerSaw, troubles, config>>

UserSettles(id, toProvider, toUser) ==
    /\ TroublesLeft
    /\ userSettles' = userSettles + 1
    /\ Release(id, toProvider, toUser)
    /\ UNCHANGED <<mempool, manager, streamVars, worker, routerSaw, lost, restarts, config>>

-------------------------------------------------------------------------------
\* A request, from authentication to the end of its stream.

\* require_session_bearer: the escrow session exists and is not settled.
Authenticate(r, id) ==
    /\ stream[r] = "idle"
    /\ ledger[id].status = "open"
    /\ stream' = [stream EXCEPT ![r] = "admitted"]
    /\ link' = [link EXCEPT ![r] = id]
    /\ UNCHANGED <<chainVars, manager, served, worker, routerSaw, troubles, config>>

\* The request is refused, or the client hangs up, before the stream body has
\* opened a session.
LeaveEarly(r) ==
    /\ stream[r] = "admitted"
    /\ stream' = [stream EXCEPT ![r] = "ended"]
    /\ UNCHANGED <<chainVars, manager, link, served, worker, routerSaw, troubles, config>>

OpenSession(r) ==
    /\ stream[r] = "admitted"
    /\ stream' = [stream EXCEPT ![r] = "streaming"]
    /\ Save(r, NewSession)
    /\ UNCHANGED <<chainVars, link, served, worker, routerSaw, troubles, config>>

\* record_chunk; a receipt is due when the count reaches the cadence.
RecordChunk(r) ==
    /\ stream[r] = "streaming"
    /\ served[r] < MaxTokens
    /\ served' = [served EXCEPT ![r] = @ + 1]
    /\ LET n == sessions[r].tokensOutput + 1
       IN  /\ Save(r, [sessions[r] EXCEPT !.tokensOutput = n])
           /\ stream' = [stream EXCEPT
                            ![r] = IF n % ReceiptCadence = 0 THEN "receiptDue" ELSE "streaming"]
    /\ UNCHANGED <<chainVars, link, worker, routerSaw, troubles, config>>

\* add_receipt, a save of its own; a receipt that cannot be signed is skipped.
IssueReceipt(r) ==
    /\ stream[r] = "receiptDue"
    /\ stream' = [stream EXCEPT ![r] = "streaming"]
    /\ \/ Save(r, [sessions[r] EXCEPT !.lastReceiptSeq = @ + 1])
       \/ UNCHANGED manager
    /\ UNCHANGED <<chainVars, link, served, worker, routerSaw, troubles, config>>

\* The usage line is on its way to the client, and the router reads it, before
\* the session is closed: a stream dropped at this yield never completes.
SendUsageLine(r) ==
    /\ stream[r] = "streaming"
    /\ sessions[r].tokensOutput > 0
    /\ stream' = [stream EXCEPT ![r] = "usageSent"]
    /\ routerSaw' = IF config.routerMetering THEN routerSaw \cup {r} ELSE routerSaw
    /\ UNCHANGED <<chainVars, manager, link, served, worker, troubles, config>>

EndStream(r, state) ==
    /\ stream' = [stream EXCEPT ![r] = "ended"]
    /\ Close(r, state)
    /\ UNCHANGED <<chainVars, link, served, worker, routerSaw, troubles, config>>

Complete(r) ==
    /\ stream[r] = "usageSent" \/ (stream[r] = "streaming" /\ served[r] = 0)
    /\ EndStream(r, "Completed")

BackendFails(r) ==
    /\ stream[r] = "streaming"
    /\ EndStream(r, "ProviderError")

\* Mutant: the cleanup does not ask whether the stream had finished.
DisconnectUnfinishedOrNot(r) ==
    /\ stream[r] \in {"streaming", "usageSent", "ended"}
    /\ EndStream(r, "ConsumerDisconnected")

\* StreamCleanup: the stream is dropped before it has finished.
Disconnect(r) ==
    /\ stream[r] \in {"streaming", "usageSent"}
    /\ EndStream(r, "ConsumerDisconnected")

-------------------------------------------------------------------------------
\* The settlement loop.

\* One wake-up: a TEE tick, an epoch boundary or both.  Candidates are cloned now
\* and used for the rest of the tick.  A closed block gate, or a chain head that
\* cannot be read, drops the TEE candidates of this tick.
Tick(tee, epoch, gateOpen) ==
    /\ worker.at = "asleep"
    /\ tee \/ epoch
    /\ gateOpen \/ config.blockGate
    /\ worker' = AtNext(IF tee /\ gateOpen THEN TeeTouchCandidates ELSE Nothing, epoch)
    /\ UNCHANGED <<chainVars, manager, streamVars, routerSaw, troubles, config>>

\* The TEE candidates are done; the best-effort ones are cloned at this point.
StartEpochPass ==
    /\ worker.at = "next"
    /\ worker.todo = Nothing
    /\ worker.epochDue
    /\ worker' = AtNext(PendingBestEffortCompleted, FALSE)
    /\ UNCHANGED <<chainVars, manager, streamVars, routerSaw, troubles, config>>

Sleep ==
    /\ worker.at = "next"
    /\ worker.todo = Nothing
    /\ ~worker.epochDue
    /\ worker' = Asleep
    /\ UNCHANGED <<chainVars, manager, streamVars, routerSaw, troubles, config>>

\* The worker is done with candidate r, whatever came of it.
NextCandidate(r) ==
    worker' = AtNext([worker.todo EXCEPT ![r] = NoSession], worker.epochDue)

\* A read or a send fails, or the node's key is not the registered operator: the
\* candidate is left for a later tick.  A tick that cannot start, because
\* settlementOperator() cannot be read, gives up every candidate in turn.
GiveUp(r) ==
    /\ \/ worker.at = "next" /\ worker.todo[r] # NoSession
       \/ worker.at = "refresh" /\ worker.current = r
    /\ NextCandidate(r)
    /\ UNCHANGED <<chainVars, manager, streamVars, routerSaw, troubles, config>>

\* A settled session on chain is marked so on the node.
MarkSettled(r) ==
    /\ Close(r, "Settled")
    /\ NextCandidate(r)
    /\ UNCHANGED <<chainVars, streamVars, routerSaw, troubles, config>>

\* skip_provider_record_usage.
NodeReports == ~config.routerMetering

\* Mutant: the tokens of the whole session are reported, not those since the last
\* confirmed report.
UnreportedIgnoresWatermark(s) == s.tokensOutput

\* What sync_token_usage_on_chain has to report for a clone.
Unreported(s) ==
    IF s.tokensOutput > s.outputTokensSynced THEN s.tokensOutput - s.outputTokensSynced ELSE 0

Send(r, tx, at) ==
    /\ mempool' = mempool \cup {tx}
    /\ worker' = Busy(at, r, tx)
    /\ UNCHANGED <<ledger, manager, streamVars, routerSaw, troubles, config>>

\* The first read of a candidate, and the usage report that may follow it.
Inspect(r) ==
    LET s == worker.todo[r]
    IN  /\ worker.at = "next"
        /\ s # NoSession
        /\ \/ /\ ledger[link[r]].status = "settled"
              /\ MarkSettled(r)
           \/ /\ ledger[link[r]].status = "open"
              /\ NodeReports
              /\ Unreported(s) > 0
              /\ Send(r, [kind |-> "recordUsage", request |-> r, tokens |-> Unreported(s),
                          attempt |-> lost + restarts], "reporting")
           \/ /\ ledger[link[r]].status = "open"
              /\ ~NodeReports \/ Unreported(s) = 0
              /\ worker' = Busy("refresh", r, NoTx)
              /\ UNCHANGED <<chainVars, manager, streamVars, routerSaw, troubles, config>>

\* Mutant: the watermark is read from the session as it is now, not as it was
\* when the report was computed.
ConfirmUsageLive(r) ==
    /\ worker.at = "reporting"
    /\ worker.current = r
    /\ worker.tx \notin mempool
    /\ UpdateTokensSynced(r, IF sessions[r] = NoSession THEN 0 ELSE sessions[r].tokensOutput)
    /\ worker' = Busy("refresh", r, NoTx)
    /\ UNCHANGED <<chainVars, streamVars, routerSaw, troubles, config>>

\* watch() returns once the transaction is in a block, whether it succeeded there
\* or reverted; the watermark moves to what the clone had.
ConfirmUsage(r) ==
    /\ worker.at = "reporting"
    /\ worker.current = r
    /\ worker.tx \notin mempool
    /\ UpdateTokensSynced(r, worker.todo[r].tokensOutput)
    /\ worker' = Busy("refresh", r, NoTx)
    /\ UNCHANGED <<chainVars, streamVars, routerSaw, troubles, config>>

\* The part of the lock the provider can claim for the usage on chain.
Claim(e) == IF e.usage - e.paid < e.locked THEN e.usage - e.paid ELSE e.locked

\* The second read, and the settle that follows from it: an active session pays
\* the claim out of the lock, a completed one drains it.
Refresh(r) ==
    LET e == ledger[link[r]]
        full == worker.todo[r].state # "Active"
        toProvider == Claim(e)
        toUser == IF full THEN e.locked - toProvider ELSE 0
    IN  /\ worker.at = "refresh"
        /\ worker.current = r
        /\ \/ /\ e.status = "settled"
              /\ MarkSettled(r)
           \/ /\ e.status = "open"
              /\ toProvider + toUser = 0
              /\ NextCandidate(r)
              /\ UNCHANGED <<chainVars, manager, streamVars, routerSaw, troubles, config>>
           \/ /\ e.status = "open"
              /\ toProvider + toUser > 0
              /\ Send(r, [kind |-> "settleByOperator", request |-> r,
                          toProvider |-> toProvider, toUser |-> toUser, full |-> full,
                          attempt |-> lost + restarts], "settling")

\* Mutant: the session is closed without waiting for the block.
ConfirmSettleUnwatched(r) ==
    /\ worker.at = "settling"
    /\ worker.current = r
    /\ IF worker.tx.full
       THEN Close(r, "Settled")
       ELSE UpdateTeeAnchorTokens(r, worker.todo[r].tokensOutput)
    /\ NextCandidate(r)
    /\ UNCHANGED <<chainVars, streamVars, routerSaw, troubles, config>>

\* A confirmed partial settle moves the anchor, a full one settles the session.
ConfirmSettle(r) ==
    /\ worker.at = "settling"
    /\ worker.current = r
    /\ worker.tx \notin mempool
    /\ IF worker.tx.full
       THEN Close(r, "Settled")
       ELSE UpdateTeeAnchorTokens(r, worker.todo[r].tokensOutput)
    /\ NextCandidate(r)
    /\ UNCHANGED <<chainVars, streamVars, routerSaw, troubles, config>>

\* watch() fails: the transaction may be mined already, or be mined later.
LoseConfirmation(r) ==
    /\ worker.at \in {"reporting", "settling"}
    /\ worker.current = r
    /\ TroublesLeft
    /\ lost' = lost + 1
    /\ NextCandidate(r)
    /\ UNCHANGED <<chainVars, manager, streamVars, routerSaw, restarts, userSettles, config>>

-------------------------------------------------------------------------------
\* The chain, the router and the process.

\* Whether a transaction takes effect when its turn comes.
Succeeds(tx) ==
    LET id == link[tx.request]
    IN  IF tx.kind = "recordUsage"
        THEN Reportable(id, tx.tokens)
        ELSE /\ Releasable(id, tx.toProvider, tx.toUser)
             /\ tx.full => tx.toProvider + tx.toUser = ledger[id].locked

\* A transaction enters a block; one that reverts there changes nothing.
Mine(tx) ==
    /\ mempool' = mempool \ {tx}
    /\ IF ~Succeeds(tx)
       THEN UNCHANGED ledger
       ELSE IF tx.kind = "recordUsage"
            THEN Report(link[tx.request], tx.tokens)
            ELSE Release(link[tx.request], tx.toProvider, tx.toUser)
    /\ UNCHANGED <<manager, streamVars, worker, routerSaw, troubles, config>>

\* The router reports the usage line it read, batched and so possibly late.
RouterReports(r) ==
    /\ r \in routerSaw
    /\ routerSaw' = routerSaw \ {r}
    /\ IF Reportable(link[r], served[r])
       THEN Report(link[r], served[r])
       ELSE UNCHANGED ledger
    /\ UNCHANGED <<mempool, manager, streamVars, worker, troubles, config>>

\* recover_from_store: of the sessions on disk only the unfinished ones.
Recovered(saved) ==
    [r \in Requests |->
        IF saved[r] # NoSession /\ saved[r].state = "Active" THEN saved[r] ELSE NoSession]

\* The process stops at any point and starts again: streams and the worker are
\* gone, old finished sessions are pruned, unfinished ones reloaded.
Restart ==
    /\ TroublesLeft
    /\ restarts' = restarts + 1
    /\ \E old \in SUBSET {r \in Requests : disk[r] # NoSession /\ disk[r].state # "Active"} :
           disk' = [r \in Requests |-> IF r \in old THEN NoSession ELSE disk[r]]
    /\ sessions' = Recovered(disk)
    /\ stream' = [r \in Requests |-> IF stream[r] = "idle" THEN "idle" ELSE "ended"]
    /\ worker' = Asleep
    /\ UNCHANGED <<chainVars, link, served, routerSaw, lost, userSettles, config>>

-------------------------------------------------------------------------------
StreamStep(r) ==
    \/ \E id \in ChainIds : Authenticate(r, id)
    \/ LeaveEarly(r)
    \/ OpenSession(r)
    \/ RecordChunk(r)
    \/ IssueReceipt(r)
    \/ SendUsageLine(r)
    \/ Complete(r)
    \/ BackendFails(r)
    \/ Disconnect(r)

WorkerStep(r) == Inspect(r) \/ ConfirmUsage(r) \/ Refresh(r) \/ ConfirmSettle(r)

UserStep ==
    \E id \in ChainIds :
        \/ \E amount \in Deposits : UserOpens(id, amount)
        \/ \E p, u \in 0..ledger[id].locked : UserSettles(id, p, u)

Next ==
    \/ UserStep
    \/ \E r \in Requests :
           \/ StreamStep(r)
           \/ WorkerStep(r)
           \/ GiveUp(r)
           \/ LoseConfirmation(r)
           \/ RouterReports(r)
    \/ \E tee, epoch, gateOpen \in BOOLEAN : Tick(tee, epoch, gateOpen)
    \/ StartEpochPass
    \/ Sleep
    \/ \E tx \in mempool : Mine(tx)
    \/ Restart

Spec == Init /\ [][Next]_vars

\* The timers of run_epoch_loop go off for ever, the chain grows so that the block
\* gate is found open again and again, the worker goes on, transactions are mined,
\* and a call that is tried again and again is answered some time.
Fairness ==
    /\ SF_vars(\E epoch \in BOOLEAN : Tick(TRUE, epoch, TRUE))
    /\ SF_vars(\E tee, gateOpen \in BOOLEAN : Tick(tee, TRUE, gateOpen))
    /\ WF_vars(StartEpochPass)
    /\ WF_vars(Sleep)
    /\ WF_vars(\E tx \in mempool : Mine(tx))
    /\ \A r \in Requests : SF_vars(Inspect(r)) /\ SF_vars(Refresh(r))
    /\ \A r \in Requests : WF_vars(ConfirmUsage(r)) /\ WF_vars(ConfirmSettle(r))

FairSpec == Spec /\ Fairness

-------------------------------------------------------------------------------
\* Properties.

LinkedTo(id) == {r \in Requests : link[r] = id}
Alone(r) == LinkedTo(link[r]) = {r}
Unconfirmed == lost + restarts
Uncontested == userSettles = 0 /\ (config.tier = "BestEffort" \/ Unconfirmed = 0)
OnChain(r) == IF link[r] = NoLink THEN NoEntry ELSE ledger[link[r]]

\* At any point between two steps a restart loses nothing that was served: the
\* disk has every session as it is in memory, with all the tokens streamed, a
\* watermark not beyond them, and no receipt for more than them.
DiskAccounts ==
    \A r \in Requests :
        /\ sessions[r] # NoSession => sessions[r] = disk[r]
        /\ disk[r] # NoSession =>
               /\ disk[r].tokensOutput = served[r]
               /\ disk[r].outputTokensSynced <= served[r]
               /\ disk[r].lastReceiptSeq * ReceiptCadence <= served[r]

\* A session is charged for the tokens its streams produced, once, and once more
\* at most for every confirmation that was lost to a failed watch or a restart.
BillingBounded ==
    \A id \in ChainIds :
        ledger[id].usage <= (1 + Unconfirmed) * Total(served, LinkedTo(id))

\* Nobody but the node metering it and, while it settles, releasing its lock, a
\* session marked settled has paid the provider for every token served, as far as the deposit goes.
ProviderPaid ==
    (Uncontested /\ NodeReports) => \A r \in Requests :
        /\ disk[r] # NoSession
        /\ disk[r].state = "Settled"
        /\ Alone(r)
        => LET e == OnChain(r) IN e.paid = e.opening \/ e.paid >= served[r]

\* A session the node takes for settled is settled on chain
\* (docs/sparkl-node1.md:432, "epoch settlement confirmed").
SettledOnChain ==
    \A r \in Requests :
        (disk[r] # NoSession /\ disk[r].state = "Settled")
            => OnChain(r).status = "settled"

\* The same while nobody else can release a part of the lock between the node's
\* read of it and its own settle: not the user, and not an earlier partial settle
\* of the node whose confirmation was lost and that is mined late.
SettledUncontested == Uncontested => SettledOnChain

\* What one step may do to a session whose stream has ended.
EndedSettles(r) ==
    (stream[r] = "ended" /\ disk[r] # NoSession /\ disk'[r] # NoSession)
        => /\ disk'[r].tokensOutput = disk[r].tokensOutput
           /\ disk'[r].state \in {disk[r].state, "Settled"}

\* Once a stream has ended, no late step of worker or stream changes what it
\* served, and its session changes state only to settled.
EndedOnlySettles == [][\A r \in Requests : EndedSettles(r)]_vars

\* Every completed session is settled on chain in the end, through failed reads,
\* failed sends and lost confirmations, unless the node restarts, which forgets
\* completed sessions, or its settle is contested.
CompletedGetsSettled ==
    \A r \in Requests :
        (disk[r] # NoSession /\ disk[r].state = "Completed")
            ~> (OnChain(r).status = "settled" \/ restarts > 0 \/ ~Uncontested)

===============================================================================
