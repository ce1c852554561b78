------------------------- MODULE NodeSettlementProofs -------------------------
(***************************************************************************)
(* Proofs about one node and the escrow it settles against, for any number *)
(* of requests, escrow sessions, tokens and troubles: the disk loses       *)
(* nothing, users are not overcharged, and a settled session is settled    *)
(* and paid.                                                               *)
(***************************************************************************)
EXTENDS NodeSettlement, EscrowSumsProofs

-------------------------------------------------------------------------------
\* The inductive invariant, in parts.

\* The books of one escrow session.
EntryOK(e) ==
    /\ e.paid + e.locked <= e.opening
    /\ e.paid <= e.usage
    /\ e.status = "open" => e.locked > 0
    /\ e.status = "settled" => e.locked = 0
    /\ e.status = "unknown" => e = NoEntry

LedgerBooks == \A id \in ChainIds : EntryOK(ledger[id])

Live == {"streaming", "receiptDue", "usageSent"}

\* One request: where its stream is, and what memory and disk hold for it.
RequestOK(r) ==
    /\ stream[r] = "idle" <=> link[r] = NoLink
    /\ stream[r] \in {"idle", "admitted"} =>
           sessions[r] = NoSession /\ disk[r] = NoSession /\ served[r] = 0
    /\ stream[r] \in Live => sessions[r] # NoSession
    /\ sessions[r] # NoSession => sessions[r] = disk[r]
    /\ disk[r] # NoSession =>
           /\ disk[r].tokensOutput = served[r]
           /\ disk[r].outputTokensSynced <= served[r]
           /\ disk[r].lastReceiptSeq * ReceiptCadence <= served[r]
           /\ disk[r].state = "Completed" => stream[r] = "ended"
           /\ stream[r] = "receiptDue" =>
                  (disk[r].lastReceiptSeq + 1) * ReceiptCadence <= served[r]

\* One clone of a tick: not ahead of its session, and in step with its watermark
\* until the worker itself moves it.
CloneOK(r) ==
    LET t == worker.todo[r]
    IN  t # NoSession =>
            /\ sessions[r] # NoSession
            /\ t.tokensOutput <= served[r]
            /\ t.outputTokensSynced <= t.tokensOutput
            /\ t.state # "Active" => stream[r] = "ended" /\ t.tokensOutput = served[r]
            /\ config.tier = "BestEffort" => t.state # "Active"
            /\ worker.current # r \/ worker.at = "reporting"
                   => t.outputTokensSynced = sessions[r].outputTokensSynced

InHand == {"reporting", "refresh", "settling"}

\* The worker: what it holds at each place of the loop.
WorkerShape ==
    /\ worker.at = "asleep" => worker = Asleep
    /\ worker.at = "next" => worker.current = NoRequest /\ worker.tx = NoTx
    /\ worker.at \in InHand =>
           worker.current \in Requests /\ worker.todo[worker.current] # NoSession
    /\ worker.at = "refresh" => worker.tx = NoTx
    /\ worker.at = "reporting" =>
           /\ NodeReports
           /\ worker.tx \in Tx
           /\ worker.tx.kind = "recordUsage"
           /\ worker.tx.request = worker.current
           /\ worker.tx.tokens = Unreported(worker.todo[worker.current])
    /\ worker.at = "settling" =>
           /\ worker.tx \in Tx
           /\ worker.tx.kind = "settleByOperator"
           /\ worker.tx.request = worker.current
           /\ worker.tx.full = (worker.todo[worker.current].state # "Active")

\* The transactions in flight.
MempoolOK ==
    /\ IsFiniteSet(mempool)
    /\ \A tx \in mempool :
           /\ link[tx.request] # NoLink
           /\ tx.kind = "recordUsage" => NodeReports
           /\ tx.kind = "settleByOperator" /\ config.tier = "BestEffort" => tx.full

RouterOK ==
    /\ NodeReports => routerSaw = {}
    /\ \A r \in routerSaw : stream[r] \in {"usageSent", "ended"}

NodeInv ==
    /\ TypeOK
    /\ LedgerBooks
    /\ \A r \in Requests : RequestOK(r) /\ CloneOK(r)
    /\ WorkerShape
    /\ MempoolOK
    /\ RouterOK

-------------------------------------------------------------------------------
\* Arithmetic of receipts.

\* When the count reaches a multiple of the cadence, one more receipt fits.
LEMMA OneMoreReceipt ==
    ASSUME NEW c \in Nat \ {0}, NEW k \in Nat, NEW n \in Nat,
           k * c <= n, (n + 1) % c = 0
    PROVE  (k + 1) * c <= n + 1
  <1> DEFINE q == (n + 1) \div c
  <1>1. q \in Nat /\ n + 1 = c * q
    OBVIOUS
  <1> HIDE DEF q
  <1>2. k + 1 <= q
    <2> SUFFICES ASSUME q <= k PROVE FALSE
      BY <1>1
    <2>1. c * q <= c * k
      BY <1>1
    <2> QED
      BY <1>1, <2>1
  <1>3. c * (k + 1) <= c * q
    BY <1>1, <1>2
  <1> QED
    BY <1>1, <1>3

-------------------------------------------------------------------------------
\* Frames: what a step leaves alone.

\* Nothing of request q changes.
Same(q) ==
    /\ stream'[q] = stream[q]
    /\ link'[q] = link[q]
    /\ sessions'[q] = sessions[q]
    /\ disk'[q] = disk[q]
    /\ served'[q] = served[q]

\* The types of what is kept per request.
RequestTypes ==
    /\ stream \in [Requests -> StreamState]
    /\ link \in [Requests -> ChainIds \cup {NoLink}]
    /\ sessions \in [Requests -> Session \cup {NoSession}]
    /\ disk \in [Requests -> Session \cup {NoSession}]
    /\ served \in [Requests -> Nat]

LEMMA SameRequest ==
    ASSUME NEW q \in Requests, RequestOK(q), Same(q)
    PROVE  RequestOK(q)'
  BY DEF RequestOK, Same

\* A clone stays good while its session is not touched and the worker does not
\* take it out of its hand.
LEMMA SameClone ==
    ASSUME NEW q \in Requests, CloneOK(q), Same(q), config' = config,
           worker'.todo[q] = worker.todo[q],
           worker'.current # q \/ worker'.at = "reporting"
               => worker.current # q \/ worker.at = "reporting"
    PROVE  CloneOK(q)'
  BY DEF CloneOK, Same

\* A write to the session of r that keeps its tokens and its receipts.
LEMMA SaveKeeps ==
    ASSUME NodeInv, NEW r \in Requests, sessions[r] # NoSession,
           NEW s \in Session, Save(r, s), UNCHANGED streamVars,
           s.tokensOutput = sessions[r].tokensOutput,
           s.lastReceiptSeq = sessions[r].lastReceiptSeq,
           s.outputTokensSynced <= served[r],
           s.state = "Completed" => stream[r] = "ended"
    PROVE  /\ RequestTypes'
           /\ \A q \in Requests : RequestOK(q)'
           /\ \A q \in Requests \ {r} : Same(q)
           /\ sessions'[r] = s /\ disk'[r] = s
  <1>1. /\ sessions' \in [Requests -> Session \cup {NoSession}]
        /\ disk' \in [Requests -> Session \cup {NoSession}]
        /\ sessions'[r] = s /\ disk'[r] = s
    BY DEF NodeInv, TypeOK, Save
  <1>2. RequestTypes'
    BY <1>1 DEF NodeInv, TypeOK, RequestTypes, streamVars
  <1>3. \A q \in Requests \ {r} : Same(q)
    BY DEF NodeInv, TypeOK, Save, Same, streamVars
  <1>4. ASSUME NEW q \in Requests \ {r} PROVE RequestOK(q)'
    BY <1>3, SameRequest DEF NodeInv
  <1>5. RequestOK(r)'
    BY <1>1, NothingAssumption DEF NodeInv, RequestOK, streamVars, Live
  <1> QED
    BY <1>1, <1>2, <1>3, <1>4, <1>5

\* Closing a session, whether it is in memory or not.
LEMMA CloseSettledKeeps ==
    ASSUME NodeInv, NEW r \in Requests, Close(r, "Settled"), UNCHANGED streamVars
    PROVE  /\ RequestTypes'
           /\ \A q \in Requests : RequestOK(q)'
           /\ \A q \in Requests \ {r} : Same(q)
  <1>1. CASE sessions[r] = NoSession
    <2>1. UNCHANGED manager
      BY <1>1 DEF Close
    <2>2. \A q \in Requests : Same(q)
      BY <2>1 DEF Same, manager, streamVars
    <2>3. RequestTypes'
      BY <2>1 DEF NodeInv, TypeOK, RequestTypes, manager, streamVars
    <2> QED
      BY <2>2, <2>3, SameRequest DEF NodeInv
  <1>2. CASE sessions[r] # NoSession
    <2> DEFINE s == [sessions[r] EXCEPT !.state = "Settled"]
    <2>1. sessions[r] \in Session
      BY <1>2 DEF NodeInv, TypeOK
    <2>2. /\ s \in Session /\ s.state = "Settled"
          /\ s.tokensOutput = sessions[r].tokensOutput
          /\ s.lastReceiptSeq = sessions[r].lastReceiptSeq
          /\ s.outputTokensSynced = sessions[r].outputTokensSynced
      BY <2>1 DEF Session, SessionState
    <2>3. Save(r, s)
      BY <1>2 DEF Close
    <2>4. s.outputTokensSynced <= served[r]
      BY <2>2, <1>2 DEF NodeInv, RequestOK
    <2> HIDE DEF s
    <2> QED
      BY <1>2, <2>2, <2>3, <2>4, SaveKeeps
  <1> QED
    BY <1>1, <1>2

-------------------------------------------------------------------------------
\* Steps of a stream.

\* What a step of the stream of r does: it touches only what belongs to r, and
\* keeps the clone of r, if the worker has one, as good as it was.
StreamMove(r) ==
    /\ UNCHANGED <<chainVars, worker, troubles, config>>
    /\ \A q \in Requests \ {r} : Same(q)
    /\ link[r] # NoLink => link'[r] = link[r]
    /\ sessions[r] # NoSession =>
           /\ sessions'[r] # NoSession
           /\ sessions'[r].outputTokensSynced = sessions[r].outputTokensSynced
           /\ served'[r] >= served[r]
           /\ stream[r] = "ended" => stream'[r] = "ended" /\ served'[r] = served[r]

LEMMA StreamKeeps ==
    ASSUME NodeInv, NEW r \in Requests, StreamMove(r),
           RequestTypes', RequestOK(r)', RouterOK', routerSaw' \subseteq Requests
    PROVE  NodeInv'
  <1>1. TypeOK'
    BY DEF NodeInv, TypeOK, RequestTypes, StreamMove, chainVars, troubles, LedgerTypeOK
  <1>2. LedgerBooks'
    BY DEF NodeInv, LedgerBooks, StreamMove, chainVars
  <1>3. ASSUME NEW q \in Requests PROVE RequestOK(q)' /\ CloneOK(q)'
    <2>1. CASE q # r
      <3>1. Same(q) /\ RequestOK(q) /\ CloneOK(q)
        BY <2>1 DEF StreamMove, NodeInv
      <3>2. config' = config /\ worker' = worker
        BY DEF StreamMove
      <3> QED
        BY <3>1, <3>2, SameRequest, SameClone
    <2>2. CASE q = r
      <3>1. CloneOK(r) /\ served[r] \in Nat /\ served'[r] \in Nat
        BY DEF NodeInv, TypeOK, RequestTypes
      <3>2. worker.todo[r] # NoSession => worker.todo[r].tokensOutput \in Nat
        BY DEF NodeInv, TypeOK, Worker, Session
      <3>3. CloneOK(r)'
        BY <3>1, <3>2 DEF CloneOK, StreamMove
      <3> QED
        BY <2>2, <3>3
    <2> QED
      BY <2>1, <2>2
  <1>4. WorkerShape'
    BY DEF NodeInv, WorkerShape, StreamMove, NodeReports
  <1>5. MempoolOK'
    <2>1. \A q \in Requests : link[q] # NoLink => link'[q] = link[q]
      BY DEF StreamMove, Same
    <2>2. \A tx \in mempool : tx.request \in Requests
      BY DEF NodeInv, TypeOK, Tx
    <2> QED
      BY <2>1, <2>2 DEF NodeInv, MempoolOK, StreamMove, chainVars, NodeReports
  <1> QED
    BY <1>1, <1>2, <1>3, <1>4, <1>5 DEF NodeInv

\* Before there is a session.
LEMMA EarlyKeeps ==
    ASSUME NodeInv, NEW r \in Requests,
           (\E id \in ChainIds : Authenticate(r, id)) \/ LeaveEarly(r)
    PROVE  NodeInv' /\ StreamMove(r)
  <1>1. /\ sessions[r] = NoSession /\ disk[r] = NoSession /\ served[r] = 0
        /\ UNCHANGED <<chainVars, worker, troubles, config, manager, served, routerSaw>>
    BY DEF NodeInv, RequestOK, Authenticate, LeaveEarly
  <1>2. StreamMove(r) /\ RequestTypes' /\ RequestOK(r)' /\ stream[r] \notin {"usageSent", "ended"}
    <2>1. CASE LeaveEarly(r)
      BY <1>1, <2>1 DEF LeaveEarly, NodeInv, TypeOK, RequestTypes, RequestOK, StreamMove,
                        Same, manager, StreamState, Live
    <2>2. ASSUME NEW id \in ChainIds, Authenticate(r, id)
          PROVE  StreamMove(r) /\ RequestTypes' /\ RequestOK(r)'
                    /\ stream[r] \notin {"usageSent", "ended"}
      <3>1. stream'[r] = "admitted" /\ link'[r] = id /\ link[r] = NoLink /\ id # NoLink
        BY <2>2, NodeAssumption DEF Authenticate, NodeInv, TypeOK, RequestOK
      <3>2. RequestTypes'
        BY <1>1, <2>2 DEF Authenticate, NodeInv, TypeOK, RequestTypes, manager, StreamState
      <3>3. StreamMove(r)
        BY <1>1, <2>2, <3>1 DEF Authenticate, NodeInv, TypeOK, StreamMove, Same, manager
      <3>4. RequestOK(r)'
        BY <1>1, <3>1 DEF RequestOK, manager, Live
      <3> QED
        BY <2>2, <3>2, <3>3, <3>4 DEF Authenticate
    <2> QED
      BY <2>1, <2>2
  <1>3. RouterOK' /\ routerSaw' \subseteq Requests
    BY <1>1, <1>2 DEF NodeInv, TypeOK, RouterOK, StreamMove, Same, NodeReports
  <1> QED
    BY <1>2, <1>3, StreamKeeps

\* A step that writes a new version s of the session of r, moves its stream to st
\* and has served n tokens then.
StreamWrites(r, s, st, n) ==
    /\ stream' = [stream EXCEPT ![r] = st]
    /\ served' = [served EXCEPT ![r] = n]
    /\ Save(r, s)
    /\ UNCHANGED <<chainVars, link, worker, troubles, config, routerSaw>>
    /\ n >= served[r]
    /\ stream[r] \notin {"idle", "ended"}
    /\ stream[r] = "usageSent" => st \in {"usageSent", "ended"}
    /\ sessions[r] # NoSession => s.outputTokensSynced = sessions[r].outputTokensSynced
    /\ s.tokensOutput = n
    /\ s.outputTokensSynced <= n
    /\ s.lastReceiptSeq * ReceiptCadence <= n
    /\ s.state = "Completed" => st = "ended"
    /\ st = "receiptDue" => (s.lastReceiptSeq + 1) * ReceiptCadence <= n

LEMMA StreamSaves ==
    ASSUME NodeInv, NEW r \in Requests, NEW s \in Session,
           NEW st \in StreamState \ {"idle", "admitted"}, NEW n \in Nat,
           StreamWrites(r, s, st, n)
    PROVE  NodeInv' /\ StreamMove(r)
  <1> USE DEF StreamWrites
  <1>1. /\ RequestTypes'
        /\ stream'[r] = st /\ served'[r] = n /\ sessions'[r] = s /\ disk'[r] = s
        /\ link'[r] = link[r]
        /\ \A q \in Requests \ {r} : Same(q)
    BY DEF NodeInv, TypeOK, RequestTypes, Save, Same
  <1>2. link[r] # NoLink
    BY DEF NodeInv, RequestOK
  <1>3. RequestOK(r)'
    BY <1>1, <1>2, NothingAssumption DEF RequestOK, Live
  <1>4. StreamMove(r)
    BY <1>1, NothingAssumption DEF StreamMove
  <1>5. RouterOK' /\ routerSaw' \subseteq Requests
    BY <1>1 DEF NodeInv, TypeOK, RouterOK, NodeReports, Same
  <1> QED
    BY <1>1, <1>3, <1>4, <1>5, StreamKeeps

\* What the stream of r finds while it is open.
LEMMA LiveSession ==
    ASSUME NodeInv, NEW r \in Requests, stream[r] \in Live
    PROVE  /\ sessions[r] \in Session
           /\ sessions[r] # NoSession
           /\ disk[r] = sessions[r]
           /\ served[r] \in Nat
           /\ sessions[r].tokensOutput = served[r]
           /\ sessions[r].outputTokensSynced <= served[r]
           /\ sessions[r].lastReceiptSeq * ReceiptCadence <= served[r]
           /\ sessions[r].state # "Completed"
  BY NothingAssumption DEF NodeInv, TypeOK, RequestOK, Live

\* Leaving a function alone is writing its own value.
LEMMA WriteSame ==
    ASSUME NEW S, NEW T, NEW f \in [S -> T], NEW x \in S
    PROVE  f = [f EXCEPT ![x] = f[x]]
  OBVIOUS

LEMMA OpenSessionKeeps ==
    ASSUME NodeInv, NEW r \in Requests, OpenSession(r)
    PROVE  NodeInv' /\ StreamMove(r)
  <1>1. /\ NewSession \in Session /\ NewSession.tokensOutput = 0 /\ NewSession.state = "Active"
        /\ NewSession.outputTokensSynced = 0 /\ NewSession.lastReceiptSeq = 0
    BY DEF NewSession, Session, SessionState
  <1>2. sessions[r] = NoSession /\ served[r] = 0 /\ served \in [Requests -> Nat]
    BY DEF NodeInv, TypeOK, RequestOK, OpenSession
  <1>3. served' = [served EXCEPT ![r] = 0]
    BY <1>2, WriteSame DEF OpenSession
  <1>4. NewSession.lastReceiptSeq * ReceiptCadence <= 0
    BY <1>1, NodeAssumption
  <1>5. "streaming" \in StreamState \ {"idle", "admitted"}
    BY DEF StreamState
  <1>6. StreamWrites(r, NewSession, "streaming", 0)
    <2>1. /\ stream[r] = "admitted"
          /\ stream' = [stream EXCEPT ![r] = "streaming"]
          /\ Save(r, NewSession)
          /\ UNCHANGED <<chainVars, link, worker, troubles, config, routerSaw>>
      BY DEF OpenSession
    <2> QED
      BY <1>1, <1>2, <1>3, <1>4, <2>1 DEF StreamWrites
  <1> QED
    BY <1>1, <1>5, <1>6, StreamSaves

LEMMA RecordChunkKeeps ==
    ASSUME NodeInv, NEW r \in Requests, RecordChunk(r)
    PROVE  NodeInv' /\ StreamMove(r)
  <1> DEFINE n == sessions[r].tokensOutput + 1
             s == [sessions[r] EXCEPT !.tokensOutput = n]
             st == IF n % ReceiptCadence = 0 THEN "receiptDue" ELSE "streaming"
  <1>1. stream[r] = "streaming"
    BY DEF RecordChunk
  <1>2. /\ sessions[r] \in Session /\ sessions[r] # NoSession /\ served[r] \in Nat
        /\ sessions[r].tokensOutput = served[r]
        /\ sessions[r].outputTokensSynced <= served[r]
        /\ sessions[r].lastReceiptSeq * ReceiptCadence <= served[r]
        /\ sessions[r].state # "Completed"
    BY <1>1, LiveSession DEF Live
  <1>3. /\ n \in Nat /\ n = served[r] + 1 /\ n >= served[r]
        /\ s \in Session /\ s.tokensOutput = n /\ s.state = sessions[r].state
        /\ s.outputTokensSynced = sessions[r].outputTokensSynced
        /\ s.lastReceiptSeq = sessions[r].lastReceiptSeq
        /\ s.outputTokensSynced \in Nat /\ s.lastReceiptSeq \in Nat
    BY <1>2 DEF Session
  <1>4. served' = [served EXCEPT ![r] = n]
    BY <1>3 DEF RecordChunk
  <1>5. Save(r, s) /\ stream' = [stream EXCEPT ![r] = st]
    BY DEF RecordChunk
  <1>6. st \in StreamState \ {"idle", "admitted"} /\ st # "ended"
    BY DEF StreamState
  <1>7. st = "receiptDue" => (n % ReceiptCadence = 0)
    OBVIOUS
  <1> HIDE DEF n, s, st
  <1>8. s.outputTokensSynced <= n
    BY <1>2, <1>3
  <1>9. s.lastReceiptSeq * ReceiptCadence <= n
    <2>1. s.lastReceiptSeq * ReceiptCadence \in Nat
      BY <1>3, NodeAssumption
    <2> QED
      BY <1>2, <1>3, <2>1
  <1>10. st = "receiptDue" => (s.lastReceiptSeq + 1) * ReceiptCadence <= n
    BY <1>2, <1>3, <1>7, OneMoreReceipt, NodeAssumption
  <1>11. UNCHANGED <<chainVars, link, worker, troubles, config, routerSaw>>
    BY DEF RecordChunk
  <1>12. StreamWrites(r, s, st, n)
    BY <1>1, <1>2, <1>3, <1>4, <1>5, <1>6, <1>8, <1>9, <1>10, <1>11 DEF StreamWrites
  <1> QED
    BY <1>3, <1>6, <1>12, StreamSaves

LEMMA IssueReceiptKeeps ==
    ASSUME NodeInv, NEW r \in Requests, IssueReceipt(r)
    PROVE  NodeInv' /\ StreamMove(r)
  <1>1. stream[r] = "receiptDue"
    BY DEF IssueReceipt
  <1>2. /\ sessions[r] \in Session /\ sessions[r] # NoSession /\ served[r] \in Nat
        /\ sessions[r] = disk[r]
        /\ sessions[r].tokensOutput = served[r]
        /\ sessions[r].outputTokensSynced <= served[r]
        /\ sessions[r].lastReceiptSeq * ReceiptCadence <= served[r]
        /\ sessions[r].state # "Completed"
    BY <1>1, LiveSession DEF Live
  <1>3. (sessions[r].lastReceiptSeq + 1) * ReceiptCadence <= served[r]
    BY <1>1, <1>2 DEF NodeInv, RequestOK
  <1>4. served' = [served EXCEPT ![r] = served[r]]
    BY WriteSame DEF NodeInv, TypeOK, IssueReceipt
  <1>5. "streaming" \in StreamState \ {"idle", "admitted"}
    BY DEF StreamState
  <1>6. CASE UNCHANGED manager
    <2>1. Save(r, sessions[r])
      BY <1>2, <1>6 DEF Save, manager, NodeInv, TypeOK
    <2>2. /\ stream' = [stream EXCEPT ![r] = "streaming"]
          /\ UNCHANGED <<chainVars, link, worker, troubles, config, routerSaw>>
      BY DEF IssueReceipt
    <2>3. StreamWrites(r, sessions[r], "streaming", served[r])
      BY <1>1, <1>2, <1>4, <2>1, <2>2 DEF StreamWrites
    <2> QED
      BY <1>2, <1>5, <2>3, StreamSaves
  <1>7. CASE Save(r, [sessions[r] EXCEPT !.lastReceiptSeq = @ + 1])
    <2> DEFINE s == [sessions[r] EXCEPT !.lastReceiptSeq = @ + 1]
    <2>1. /\ s \in Session /\ s.tokensOutput = sessions[r].tokensOutput
          /\ s.outputTokensSynced = sessions[r].outputTokensSynced
          /\ s.lastReceiptSeq = sessions[r].lastReceiptSeq + 1
          /\ s.state = sessions[r].state
      BY <1>2 DEF Session
    <2>2. Save(r, s)
      BY <1>7
    <2>3. /\ stream' = [stream EXCEPT ![r] = "streaming"]
          /\ UNCHANGED <<chainVars, link, worker, troubles, config, routerSaw>>
      BY DEF IssueReceipt
    <2> HIDE DEF s
    <2>4. StreamWrites(r, s, "streaming", served[r])
      BY <1>1, <1>2, <1>3, <1>4, <2>1, <2>2, <2>3 DEF StreamWrites
    <2> QED
      BY <1>2, <1>5, <2>1, <2>4, StreamSaves
  <1> QED
    BY <1>6, <1>7 DEF IssueReceipt

LEMMA SendUsageLineKeeps ==
    ASSUME NodeInv, NEW r \in Requests, SendUsageLine(r)
    PROVE  NodeInv' /\ StreamMove(r)
  <1>1. stream[r] = "streaming" /\ stream'[r] = "usageSent" /\ UNCHANGED <<manager, link, served>>
    BY DEF SendUsageLine, NodeInv, TypeOK
  <1>2. RequestTypes'
    BY <1>1 DEF SendUsageLine, NodeInv, TypeOK, RequestTypes, manager, StreamState
  <1>3. StreamMove(r)
    BY <1>1 DEF SendUsageLine, NodeInv, TypeOK, StreamMove, Same, manager
  <1>4. RequestOK(r)'
    BY <1>1, LiveSession DEF NodeInv, RequestOK, Live, manager
  <1>5. routerSaw' \subseteq Requests /\ RouterOK'
    BY <1>1, <1>3 DEF SendUsageLine, NodeInv, TypeOK, RouterOK, NodeReports, StreamMove, Same
  <1> QED
    BY <1>2, <1>3, <1>4, <1>5, StreamKeeps

LEMMA EndStreamKeeps ==
    ASSUME NodeInv, NEW r \in Requests, NEW state \in SessionState,
           stream[r] \in Live, EndStream(r, state)
    PROVE  NodeInv' /\ StreamMove(r)
  <1>1. /\ sessions[r] \in Session /\ sessions[r] # NoSession /\ served[r] \in Nat
        /\ sessions[r].tokensOutput = served[r]
        /\ sessions[r].outputTokensSynced <= served[r]
        /\ sessions[r].lastReceiptSeq * ReceiptCadence <= served[r]
    BY LiveSession
  <1> DEFINE s == [sessions[r] EXCEPT !.state = state]
  <1>2. /\ s \in Session /\ s.tokensOutput = sessions[r].tokensOutput
        /\ s.outputTokensSynced = sessions[r].outputTokensSynced
        /\ s.lastReceiptSeq = sessions[r].lastReceiptSeq
    BY <1>1 DEF Session
  <1>3. Save(r, s)
    BY <1>1 DEF EndStream, Close
  <1>4. served' = [served EXCEPT ![r] = served[r]]
    BY WriteSame DEF NodeInv, TypeOK, EndStream
  <1>5. "ended" \in StreamState \ {"idle", "admitted"} /\ stream[r] \notin {"idle", "ended"}
    BY DEF StreamState, Live
  <1>6. /\ stream' = [stream EXCEPT ![r] = "ended"]
        /\ UNCHANGED <<chainVars, link, worker, troubles, config, routerSaw>>
    BY DEF EndStream
  <1> HIDE DEF s
  <1>7. StreamWrites(r, s, "ended", served[r])
    BY <1>1, <1>2, <1>3, <1>4, <1>5, <1>6 DEF StreamWrites
  <1> QED
    BY <1>1, <1>2, <1>5, <1>7, StreamSaves

LEMMA StreamStepKeeps ==
    ASSUME NodeInv, NEW r \in Requests, StreamStep(r)
    PROVE  NodeInv' /\ StreamMove(r)
  <1>1. CASE (\E id \in ChainIds : Authenticate(r, id)) \/ LeaveEarly(r)
    BY <1>1, EarlyKeeps
  <1>2. CASE Complete(r)
    BY <1>2, EndStreamKeeps DEF Complete, SessionState, Live
  <1>3. CASE BackendFails(r)
    BY <1>3, EndStreamKeeps DEF BackendFails, SessionState, Live
  <1>4. CASE Disconnect(r)
    BY <1>4, EndStreamKeeps DEF Disconnect, SessionState, Live
  <1> QED
    BY <1>1, <1>2, <1>3, <1>4, OpenSessionKeeps, RecordChunkKeeps, IssueReceiptKeeps,
       SendUsageLineKeeps DEF StreamStep

-------------------------------------------------------------------------------
\* Steps of the worker.

TroublesOK ==
    /\ lost \in Nat /\ restarts \in Nat /\ userSettles \in Nat
    /\ lost + restarts + userSettles <= MaxTroubles

\* The worker has candidate r in hand or none.
Handles(r) == worker.current \in {r, NoRequest}

\* What the worker does at candidate r leaves the other requests, the streams and
\* the ledger alone, and r in order.
WorkerMove(r) ==
    /\ Handles(r)
    /\ UNCHANGED <<ledger, streamVars, routerSaw, config>>
    /\ RequestTypes'
    /\ TroublesOK'
    /\ \A q \in Requests : RequestOK(q)'
    /\ \A q \in Requests \ {r} : Same(q)

LEMMA WorkerKeeps ==
    ASSUME NodeInv, NEW r \in Requests, WorkerMove(r),
           worker' \in Worker, WorkerShape',
           \A q \in Requests \ {r} : worker'.todo[q] = worker.todo[q],
           CloneOK(r)',
           mempool' \subseteq Tx, MempoolOK'
    PROVE  NodeInv'
  <1>1. TypeOK'
    BY DEF NodeInv, TypeOK, LedgerTypeOK, WorkerMove, RequestTypes, TroublesOK
  <1>2. LedgerBooks'
    BY DEF NodeInv, LedgerBooks, WorkerMove
  <1>3. ASSUME NEW q \in Requests \ {r} PROVE CloneOK(q)'
    <2>1. worker.current # q
      BY NodeAssumption DEF WorkerMove, Handles
    <2>2. CloneOK(q) /\ Same(q) /\ config' = config
      BY DEF NodeInv, WorkerMove
    <2> QED
      BY <2>1, <2>2, SameClone
  <1>4. RouterOK'
    BY DEF NodeInv, RouterOK, NodeReports, WorkerMove, streamVars
  <1> QED
    BY <1>1, <1>2, <1>3, <1>4 DEF NodeInv, WorkerMove

\* The worker lets go of r.
LEMMA NextCandidateKeeps ==
    ASSUME NodeInv, NEW r \in Requests, WorkerMove(r), NextCandidate(r), UNCHANGED mempool
    PROVE  NodeInv'
  <1> DEFINE todo == [worker.todo EXCEPT ![r] = NoSession]
  <1>1. /\ worker.todo \in [Requests -> Session \cup {NoSession}]
        /\ worker.epochDue \in BOOLEAN
    BY DEF NodeInv, TypeOK, Worker
  <1>2. /\ todo \in [Requests -> Session \cup {NoSession}]
        /\ todo[r] = NoSession
        /\ \A q \in Requests \ {r} : todo[q] = worker.todo[q]
    BY <1>1
  <1>3. worker' = [at |-> "next", todo |-> todo, epochDue |-> worker.epochDue,
                   current |-> NoRequest, tx |-> NoTx]
    BY DEF NextCandidate, AtNext
  <1> HIDE DEF todo
  <1>4. /\ worker' \in Worker
        /\ worker'.at = "next" /\ worker'.todo = todo
        /\ worker'.current = NoRequest /\ worker'.tx = NoTx
    BY <1>1, <1>2, <1>3 DEF Worker
  <1>5. WorkerShape'
    BY <1>4 DEF WorkerShape, InHand
  <1>6. CloneOK(r)'
    BY <1>2, <1>4 DEF CloneOK
  <1>7. mempool' \subseteq Tx /\ MempoolOK'
    BY DEF NodeInv, TypeOK, MempoolOK, WorkerMove, streamVars, NodeReports
  <1> QED
    BY <1>2, <1>4, <1>5, <1>6, <1>7, WorkerKeeps

\* The worker goes on with r in hand.
LEMMA BusyKeeps ==
    ASSUME NodeInv, NEW r \in Requests, WorkerMove(r),
           NEW at \in {"reporting", "refresh", "settling"}, NEW tx \in Tx \cup {NoTx},
           worker' = Busy(at, r, tx), worker.todo[r] # NoSession,
           at = "refresh" => tx = NoTx,
           at = "reporting" =>
               /\ NodeReports
               /\ tx \in Tx
               /\ tx.kind = "recordUsage"
               /\ tx.request = r
               /\ tx.tokens = Unreported(worker.todo[r]),
           at = "settling" =>
               /\ tx \in Tx
               /\ tx.kind = "settleByOperator"
               /\ tx.request = r
               /\ tx.full = (worker.todo[r].state # "Active"),
           sessions'[r] # NoSession,
           at = "reporting" => worker.at = "next" /\ sessions' = sessions,
           mempool' \subseteq Tx, MempoolOK'
    PROVE  NodeInv'
  <1>1. /\ worker.todo \in [Requests -> Session \cup {NoSession}]
        /\ worker.epochDue \in BOOLEAN
    BY DEF NodeInv, TypeOK, Worker
  <1>2. worker' = [at |-> at, todo |-> worker.todo, epochDue |-> worker.epochDue,
                   current |-> r, tx |-> tx]
    BY DEF Busy
  <1>3. /\ worker' \in Worker
        /\ worker'.at = at /\ worker'.todo = worker.todo
        /\ worker'.current = r /\ worker'.tx = tx
    BY <1>1, <1>2 DEF Worker
  <1>4. config' = config /\ served' = served /\ stream' = stream
    BY DEF WorkerMove, streamVars
  <1>5. WorkerShape'
    BY <1>3, <1>4 DEF WorkerShape, InHand, NodeReports, Unreported
  <1>6. CloneOK(r)'
    <2>1. CloneOK(r) /\ WorkerShape
      BY DEF NodeInv
    <2>2. at = "reporting" => worker.current # r
      BY <2>1, NodeAssumption DEF WorkerShape
    <2> QED
      BY <1>3, <1>4, <2>1, <2>2 DEF CloneOK
  <1> QED
    BY <1>3, <1>5, <1>6, WorkerKeeps

\* A transaction joins the ones in flight.
LEMMA SendKeeps ==
    ASSUME NodeInv, NEW tx \in Tx, mempool' = mempool \cup {tx},
           UNCHANGED <<link, config>>,
           link[tx.request] # NoLink,
           tx.kind = "recordUsage" => NodeReports,
           tx.kind = "settleByOperator" /\ config.tier = "BestEffort" => tx.full
    PROVE  mempool' \subseteq Tx /\ MempoolOK'
  <1>1. IsFiniteSet(mempool')
    BY FS_AddElement DEF NodeInv, MempoolOK
  <1> QED
    BY <1>1 DEF NodeInv, TypeOK, MempoolOK, NodeReports

\* A step that leaves every request alone keeps their parts of the invariant.
LEMMA AllSame ==
    ASSUME NodeInv, UNCHANGED <<manager, streamVars>>
    PROVE  RequestTypes' /\ \A q \in Requests : RequestOK(q)' /\ Same(q)
  <1>1. \A q \in Requests : Same(q)
    BY DEF Same, manager, streamVars
  <1>2. RequestTypes'
    BY DEF NodeInv, TypeOK, RequestTypes, manager, streamVars
  <1> QED
    BY <1>1, <1>2, SameRequest DEF NodeInv

\* A candidate of the worker is a session of a request that was admitted.
LEMMA Candidate ==
    ASSUME NodeInv, NEW r \in Requests, worker.todo[r] # NoSession
    PROVE  /\ worker.todo[r] \in Session
           /\ sessions[r] \in Session /\ sessions[r] # NoSession
           /\ disk[r] = sessions[r]
           /\ link[r] \in ChainIds /\ link[r] # NoLink
           /\ served[r] \in Nat
           /\ worker.todo[r].tokensOutput <= served[r]
           /\ worker.todo[r].outputTokensSynced <= worker.todo[r].tokensOutput
  <1>1. worker.todo[r] \in Session /\ served[r] \in Nat
    BY DEF NodeInv, TypeOK, Worker
  <1>2. CloneOK(r) /\ RequestOK(r)
    BY DEF NodeInv
  <1>3. sessions[r] # NoSession
    BY <1>2 DEF CloneOK
  <1>4. stream[r] \notin {"idle", "admitted"} /\ sessions[r] \in Session /\ disk[r] = sessions[r]
    BY <1>2, <1>3 DEF RequestOK, NodeInv, TypeOK
  <1>5. link[r] # NoLink /\ link[r] \in ChainIds
    BY <1>2, <1>4 DEF RequestOK, NodeInv, TypeOK
  <1> QED
    BY <1>1, <1>2, <1>3, <1>4, <1>5 DEF CloneOK

\* A step of the worker that leaves the sessions alone.
LEMMA QuietMove ==
    ASSUME NodeInv, NEW r \in Requests, Handles(r), TroublesOK',
           UNCHANGED <<ledger, manager, streamVars, routerSaw, config>>
    PROVE  WorkerMove(r)
  BY AllSame DEF WorkerMove

LEMMA SameTroubles ==
    ASSUME NodeInv, UNCHANGED troubles
    PROVE  TroublesOK'
  BY DEF NodeInv, TypeOK, TroublesOK, troubles

\* At the next candidate the worker has none in hand; at the other places it has
\* the one the step is about.
LEMMA HandlesNext ==
    ASSUME NodeInv, NEW r \in Requests, worker.at = "next"
    PROVE  Handles(r)
  BY DEF NodeInv, WorkerShape, Handles

LEMMA HandlesCurrent ==
    ASSUME NodeInv, NEW r \in Requests, worker.at \in InHand, worker.current = r
    PROVE  Handles(r) /\ worker.todo[r] # NoSession
  BY DEF NodeInv, WorkerShape, Handles

LEMMA MarkSettledKeeps ==
    ASSUME NodeInv, NEW r \in Requests, Handles(r), MarkSettled(r)
    PROVE  NodeInv'
  <1>1. /\ Close(r, "Settled") /\ NextCandidate(r)
        /\ UNCHANGED <<ledger, streamVars, routerSaw, config>>
        /\ UNCHANGED mempool /\ UNCHANGED troubles
    BY DEF MarkSettled, chainVars
  <1>2. WorkerMove(r)
    BY <1>1, CloseSettledKeeps, SameTroubles DEF WorkerMove
  <1> QED
    BY <1>1, <1>2, NextCandidateKeeps

LEMMA GiveUpKeeps ==
    ASSUME NodeInv, NEW r \in Requests, GiveUp(r)
    PROVE  NodeInv'
  <1>1. Handles(r)
    BY HandlesNext, HandlesCurrent DEF GiveUp, InHand
  <1>2. /\ NextCandidate(r) /\ UNCHANGED mempool /\ UNCHANGED troubles
        /\ UNCHANGED <<ledger, manager, streamVars, routerSaw, config>>
    BY DEF GiveUp, chainVars
  <1> QED
    BY <1>1, <1>2, QuietMove, SameTroubles, NextCandidateKeeps

LEMMA LoseConfirmationKeeps ==
    ASSUME NodeInv, NEW r \in Requests, LoseConfirmation(r)
    PROVE  NodeInv'
  <1>1. Handles(r)
    BY HandlesCurrent DEF LoseConfirmation, InHand
  <1>2. /\ NextCandidate(r) /\ UNCHANGED mempool
        /\ UNCHANGED <<ledger, manager, streamVars, routerSaw, config>>
    BY DEF LoseConfirmation, chainVars
  <1>3. TroublesOK'
    BY NodeAssumption DEF LoseConfirmation, NodeInv, TypeOK, TroublesOK, TroublesLeft
  <1> QED
    BY <1>1, <1>2, <1>3, QuietMove, NextCandidateKeeps

\* The usage report of a clone is a transaction.
LEMMA ReportIsTx ==
    ASSUME NodeInv, NEW r \in Requests, worker.todo[r] # NoSession
    PROVE  /\ Unreported(worker.todo[r]) \in Nat
           /\ [kind |-> "recordUsage", request |-> r, tokens |-> Unreported(worker.todo[r]),
               attempt |-> lost + restarts] \in Tx
  <1>1. Unreported(worker.todo[r]) \in Nat
    BY Candidate DEF Unreported, Session
  <1>2. lost + restarts \in Nat
    BY DEF NodeInv, TypeOK
  <1> QED
    BY <1>1, <1>2 DEF Tx

LEMMA InspectKeeps ==
    ASSUME NodeInv, NEW r \in Requests, Inspect(r)
    PROVE  NodeInv'
  <1>1. worker.at = "next" /\ worker.todo[r] # NoSession
    BY DEF Inspect
  <1>2. Handles(r)
    BY <1>1, HandlesNext
  <1>3. link[r] # NoLink /\ sessions[r] # NoSession
    BY <1>1, Candidate
  <1>4. CASE MarkSettled(r)
    BY <1>2, <1>4, MarkSettledKeeps
  <1> DEFINE tx == [kind |-> "recordUsage", request |-> r,
                    tokens |-> Unreported(worker.todo[r]), attempt |-> lost + restarts]
  <1>5. CASE NodeReports /\ Send(r, tx, "reporting")
    <2>1. tx \in Tx
      BY <1>1, ReportIsTx
    <2>2. tx.kind = "recordUsage" /\ tx.request = r /\ tx.tokens = Unreported(worker.todo[r])
      OBVIOUS
    <2> HIDE DEF tx
    <2>3. /\ mempool' = mempool \cup {tx} /\ worker' = Busy("reporting", r, tx)
          /\ UNCHANGED <<ledger, manager, streamVars, routerSaw, config>>
          /\ UNCHANGED troubles
          /\ UNCHANGED <<link, config>>
      BY <1>5 DEF Send, streamVars
    <2>4. mempool' \subseteq Tx /\ MempoolOK'
      BY <1>3, <1>5, <2>1, <2>2, <2>3, SendKeeps
    <2>5. WorkerMove(r)
      BY <1>2, <2>3, QuietMove, SameTroubles
    <2>6. sessions' = sessions
      BY <2>3 DEF manager
    <2> QED
      BY <1>1, <1>3, <1>5, <2>1, <2>2, <2>3, <2>4, <2>5, <2>6, BusyKeeps
  <1>6. CASE /\ worker' = Busy("refresh", r, NoTx)
             /\ UNCHANGED <<chainVars, manager, streamVars, routerSaw, troubles, config>>
    <2>1. WorkerMove(r)
      BY <1>2, <1>6, QuietMove, SameTroubles DEF chainVars
    <2>2. mempool' \subseteq Tx /\ MempoolOK' /\ sessions' = sessions
      BY <1>6 DEF NodeInv, TypeOK, MempoolOK, chainVars, streamVars, NodeReports, manager
    <2> QED
      BY <1>1, <1>3, <1>6, <2>1, <2>2, BusyKeeps
  <1> QED
    BY <1>4, <1>5, <1>6 DEF Inspect

LEMMA ConfirmUsageKeeps ==
    ASSUME NodeInv, NEW r \in Requests, ConfirmUsage(r)
    PROVE  NodeInv'
  <1>1. Handles(r) /\ worker.todo[r] # NoSession
    BY HandlesCurrent DEF ConfirmUsage, InHand
  <1>2. /\ worker.todo[r] \in Session /\ sessions[r] \in Session /\ sessions[r] # NoSession
        /\ disk[r] = sessions[r] /\ worker.todo[r].tokensOutput <= served[r]
    BY <1>1, Candidate
  <1> DEFINE s == [sessions[r] EXCEPT !.outputTokensSynced = worker.todo[r].tokensOutput]
  <1>3. /\ s \in Session /\ s.tokensOutput = sessions[r].tokensOutput
        /\ s.lastReceiptSeq = sessions[r].lastReceiptSeq
        /\ s.outputTokensSynced <= served[r]
        /\ s.state = sessions[r].state
    BY <1>2 DEF Session
  <1>4. Save(r, s) /\ UNCHANGED streamVars
    BY <1>2 DEF ConfirmUsage, UpdateTokensSynced
  <1>5. s.state = "Completed" => stream[r] = "ended"
    BY <1>2, <1>3 DEF NodeInv, RequestOK
  <1> HIDE DEF s
  <1>6. /\ RequestTypes' /\ \A q \in Requests : RequestOK(q)'
        /\ \A q \in Requests \ {r} : Same(q)
        /\ sessions'[r] = s
    BY <1>2, <1>3, <1>4, <1>5, SaveKeeps
  <1>7. WorkerMove(r)
    BY <1>1, <1>6, SameTroubles DEF WorkerMove, ConfirmUsage, chainVars
  <1>8. mempool' \subseteq Tx /\ MempoolOK'
    BY DEF ConfirmUsage, NodeInv, TypeOK, MempoolOK, chainVars, streamVars, NodeReports
  <1>9. worker' = Busy("refresh", r, NoTx) /\ sessions'[r] # NoSession
    BY <1>3, <1>6, NothingAssumption DEF ConfirmUsage
  <1> QED
    BY <1>1, <1>7, <1>8, <1>9, BusyKeeps

\* What the provider can claim never exceeds the lock or the unpaid usage.
LEMMA ClaimBounds ==
    ASSUME NEW e \in Entry, EntryOK(e)
    PROVE  /\ Claim(e) \in Nat
           /\ Claim(e) <= e.locked
           /\ e.locked - Claim(e) \in Nat
           /\ e.paid + Claim(e) <= e.usage
           /\ Claim(e) = e.locked \/ e.paid + Claim(e) = e.usage
  BY DEF Claim, Entry, EntryOK

\* The two parts of the split a settle of r asks for.
SettleFull(r) == worker.todo[r].state # "Active"
ToProvider(r) == Claim(ledger[link[r]])
ToUser(r) == IF SettleFull(r) THEN ledger[link[r]].locked - ToProvider(r) ELSE 0

SettleTx(r) ==
    [kind |-> "settleByOperator", request |-> r, toProvider |-> ToProvider(r),
     toUser |-> ToUser(r), full |-> SettleFull(r), attempt |-> lost + restarts]

LEMMA SettleIsTx ==
    ASSUME NodeInv, NEW r \in Requests, worker.todo[r] # NoSession
    PROVE  /\ SettleTx(r) \in Tx
           /\ SettleTx(r).kind = "settleByOperator"
           /\ SettleTx(r).request = r
           /\ SettleTx(r).toProvider = ToProvider(r)
           /\ SettleTx(r).toUser = ToUser(r)
           /\ SettleTx(r).full = SettleFull(r)
           /\ ToProvider(r) \in Nat /\ ToUser(r) \in Nat
  <1>1. link[r] \in ChainIds
    BY Candidate
  <1>2. ledger[link[r]] \in Entry /\ EntryOK(ledger[link[r]])
    BY <1>1 DEF NodeInv, TypeOK, LedgerTypeOK, LedgerBooks
  <1>3. ToProvider(r) \in Nat /\ ToUser(r) \in Nat
    BY <1>2, ClaimBounds DEF ToProvider, ToUser
  <1>4. lost + restarts \in Nat /\ SettleFull(r) \in BOOLEAN
    BY DEF NodeInv, TypeOK, SettleFull
  <1> QED
    BY <1>3, <1>4 DEF SettleTx, Tx

\* The three outcomes of the second read.
LEMMA RefreshCases ==
    ASSUME NEW r \in Requests, Refresh(r)
    PROVE  /\ worker.at = "refresh" /\ worker.current = r
           /\ \/ /\ ledger[link[r]].status = "settled"
                 /\ MarkSettled(r)
              \/ /\ ledger[link[r]].status = "open"
                 /\ ToProvider(r) + ToUser(r) = 0
                 /\ NextCandidate(r)
                 /\ UNCHANGED <<chainVars, manager, streamVars, routerSaw, troubles, config>>
              \/ /\ ledger[link[r]].status = "open"
                 /\ ToProvider(r) + ToUser(r) > 0
                 /\ Send(r, SettleTx(r), "settling")
  BY DEF Refresh, ToProvider, ToUser, SettleFull, SettleTx

LEMMA RefreshKeeps ==
    ASSUME NodeInv, NEW r \in Requests, Refresh(r)
    PROVE  NodeInv'
  <1>1. Handles(r) /\ worker.todo[r] # NoSession
    BY RefreshCases, HandlesCurrent DEF InHand
  <1>2. link[r] # NoLink /\ sessions[r] # NoSession
    BY <1>1, Candidate
  <1>3. CASE MarkSettled(r)
    BY <1>1, <1>3, MarkSettledKeeps
  <1>4. CASE /\ NextCandidate(r)
             /\ UNCHANGED <<chainVars, manager, streamVars, routerSaw, troubles, config>>
    BY <1>1, <1>4, QuietMove, SameTroubles, NextCandidateKeeps DEF chainVars
  <1>5. CASE Send(r, SettleTx(r), "settling")
    <2>1. PICK tx : tx = SettleTx(r)
      OBVIOUS
    <2>2. /\ tx \in Tx /\ tx.kind = "settleByOperator" /\ tx.request = r
          /\ tx.full = (worker.todo[r].state # "Active")
      BY <1>1, <2>1, SettleIsTx DEF SettleFull
    <2>3. /\ mempool' = mempool \cup {tx} /\ worker' = Busy("settling", r, tx)
          /\ UNCHANGED <<ledger, manager, streamVars, routerSaw, config>>
          /\ UNCHANGED troubles
          /\ UNCHANGED <<link, config>>
      BY <1>5, <2>1 DEF Send, streamVars
    <2>4. config.tier = "BestEffort" => tx.full
      BY <1>1, <2>2 DEF NodeInv, CloneOK
    <2>5. mempool' \subseteq Tx /\ MempoolOK'
      BY <1>2, <2>2, <2>3, <2>4, SendKeeps
    <2>6. WorkerMove(r)
      BY <1>1, <2>3, QuietMove, SameTroubles
    <2>7. sessions'[r] # NoSession
      BY <1>2, <2>3 DEF manager
    <2> QED
      BY <1>1, <2>2, <2>3, <2>5, <2>6, <2>7, BusyKeeps
  <1> QED
    BY <1>3, <1>4, <1>5, RefreshCases

LEMMA ConfirmSettleKeeps ==
    ASSUME NodeInv, NEW r \in Requests, ConfirmSettle(r)
    PROVE  NodeInv'
  <1>1. Handles(r) /\ worker.todo[r] # NoSession
    BY HandlesCurrent DEF ConfirmSettle, InHand
  <1>2. /\ NextCandidate(r) /\ UNCHANGED mempool /\ UNCHANGED streamVars
        /\ UNCHANGED <<ledger, streamVars, routerSaw, config>>
        /\ UNCHANGED troubles
    BY DEF ConfirmSettle, chainVars
  <1>3. /\ RequestTypes' /\ \A q \in Requests : RequestOK(q)'
        /\ \A q \in Requests \ {r} : Same(q)
    <2>1. CASE worker.tx.full
      BY <1>2, <2>1, CloseSettledKeeps DEF ConfirmSettle
    <2>2. CASE ~worker.tx.full
      <3>1. /\ worker.todo[r] \in Session /\ sessions[r] \in Session
            /\ sessions[r] # NoSession /\ disk[r] = sessions[r]
        BY <1>1, Candidate
      <3> DEFINE s == [sessions[r] EXCEPT !.teeAnchorTokens = worker.todo[r].tokensOutput]
      <3>2. /\ s \in Session /\ s.tokensOutput = sessions[r].tokensOutput
            /\ s.lastReceiptSeq = sessions[r].lastReceiptSeq
            /\ s.outputTokensSynced = sessions[r].outputTokensSynced
            /\ s.state = sessions[r].state
        BY <3>1 DEF Session
      <3>3. Save(r, s)
        BY <2>2, <3>1 DEF ConfirmSettle, UpdateTeeAnchorTokens
      <3> HIDE DEF s
      <3>4. s.outputTokensSynced <= served[r] /\ (s.state = "Completed" => stream[r] = "ended")
        BY <3>1, <3>2 DEF NodeInv, RequestOK
      <3> QED
        BY <1>2, <3>1, <3>2, <3>3, <3>4, SaveKeeps
    <2> QED
      BY <2>1, <2>2
  <1>4. WorkerMove(r)
    BY <1>1, <1>2, <1>3, SameTroubles DEF WorkerMove
  <1> QED
    BY <1>2, <1>4, NextCandidateKeeps

LEMMA WorkerStepKeeps ==
    ASSUME NodeInv, NEW r \in Requests, WorkerStep(r) \/ GiveUp(r) \/ LoseConfirmation(r)
    PROVE  NodeInv'
  BY InspectKeeps, ConfirmUsageKeeps, RefreshKeeps, ConfirmSettleKeeps, GiveUpKeeps,
     LoseConfirmationKeeps DEF WorkerStep

-------------------------------------------------------------------------------
\* Steps of the ledger.

\* One entry becomes e; the books stay in order if e is.
LEMMA EntryKeeps ==
    ASSUME NodeInv, NEW id \in ChainIds, NEW e \in Entry, EntryOK(e),
           ledger' = [ledger EXCEPT ![id] = e]
    PROVE  /\ LedgerTypeOK' /\ LedgerBooks'
           /\ ledger'[id] = e
           /\ \A i \in ChainIds \ {id} : ledger'[i] = ledger[i]
  BY DEF NodeInv, TypeOK, LedgerTypeOK, LedgerBooks

LEMMA OpenKeeps ==
    ASSUME NodeInv, NEW id \in ChainIds, NEW amount \in Deposits, Open(id, amount)
    PROVE  /\ LedgerTypeOK' /\ LedgerBooks'
           /\ ledger'[id] = Opened(amount)
           /\ \A i \in ChainIds \ {id} : ledger'[i] = ledger[i]
  <1>1. amount \in Nat /\ amount > 0 /\ ledger' = [ledger EXCEPT ![id] = Opened(amount)]
    BY LedgerAssumption DEF Open
  <1>2. Opened(amount) \in Entry /\ EntryOK(Opened(amount))
    BY <1>1 DEF Opened, Entry, EntryOK
  <1> QED
    BY <1>1, <1>2, EntryKeeps

LEMMA ReleaseKeeps ==
    ASSUME NodeInv, NEW id \in ChainIds, NEW p \in Nat, NEW u \in Nat, Release(id, p, u)
    PROVE  /\ LedgerTypeOK' /\ LedgerBooks'
           /\ ledger'[id] = Released(ledger[id], p, u)
           /\ \A i \in ChainIds \ {id} : ledger'[i] = ledger[i]
  <1>1. PICK e : e = ledger[id]
    OBVIOUS
  <1>2. e \in Entry /\ EntryOK(e)
    BY <1>1 DEF NodeInv, TypeOK, LedgerTypeOK, LedgerBooks
  <1>3. e.status = "open" /\ p + u > 0 /\ p + u <= e.locked /\ e.paid + p <= e.usage
    BY <1>1 DEF Release, Releasable
  <1>4. Released(e, p, u) \in Entry
    BY <1>2, <1>3 DEF Released, Entry
  <1>5. EntryOK(Released(e, p, u))
    BY <1>2, <1>3 DEF Released, Entry, EntryOK
  <1>6. ledger' = [ledger EXCEPT ![id] = Released(e, p, u)]
    BY <1>1 DEF Release
  <1> QED
    BY <1>1, <1>4, <1>5, <1>6, EntryKeeps

LEMMA ReportKeeps ==
    ASSUME NodeInv, NEW id \in ChainIds, NEW cost \in Nat, Report(id, cost)
    PROVE  /\ LedgerTypeOK' /\ LedgerBooks'
           /\ ledger'[id] = [ledger[id] EXCEPT !.usage = @ + cost]
           /\ \A i \in ChainIds \ {id} : ledger'[i] = ledger[i]
           /\ ledger'[id].status = "open" /\ ledger'[id].opening = ledger[id].opening
           /\ ledger'[id].locked = ledger[id].locked /\ ledger'[id].paid = ledger[id].paid
           /\ ledger'[id].usage = ledger[id].usage + cost
  <1>1. PICK e : e = ledger[id]
    OBVIOUS
  <1>2. e \in Entry /\ EntryOK(e) /\ e.status = "open"
    BY <1>1 DEF NodeInv, TypeOK, LedgerTypeOK, LedgerBooks, Report, Reportable
  <1> DEFINE f == [e EXCEPT !.usage = @ + cost]
  <1>3. /\ f \in Entry /\ f.status = e.status /\ f.opening = e.opening
        /\ f.locked = e.locked /\ f.paid = e.paid /\ f.usage = e.usage + cost
    BY <1>2 DEF Entry
  <1>4. EntryOK(f)
    BY <1>2, <1>3 DEF EntryOK, Entry
  <1>5. ledger' = [ledger EXCEPT ![id] = f]
    BY <1>1 DEF Report, NodeInv, TypeOK, LedgerTypeOK
  <1>6. f = [ledger[id] EXCEPT !.usage = @ + cost]
    BY <1>1
  <1> HIDE DEF f
  <1> QED
    BY <1>1, <1>2, <1>3, <1>4, <1>5, <1>6, EntryKeeps

\* A step of the chain or of the router leaves the node alone.
LEMMA ChainKeeps ==
    ASSUME NodeInv, LedgerTypeOK', LedgerBooks', TroublesOK',
           UNCHANGED <<manager, streamVars, worker, config>>,
           mempool' \subseteq mempool, routerSaw' \subseteq routerSaw
    PROVE  NodeInv'
  <1>1. RequestTypes' /\ \A q \in Requests : RequestOK(q)' /\ Same(q)
    BY AllSame
  <1>2. TypeOK'
    BY <1>1 DEF NodeInv, TypeOK, RequestTypes, TroublesOK
  <1>3. \A q \in Requests : CloneOK(q)'
    BY <1>1, SameClone DEF NodeInv
  <1>4. WorkerShape'
    BY DEF NodeInv, WorkerShape, NodeReports
  <1>5. MempoolOK'
    BY FS_Subset DEF NodeInv, MempoolOK, streamVars, NodeReports
  <1>6. RouterOK'
    BY DEF NodeInv, RouterOK, streamVars, NodeReports
  <1> QED
    BY <1>1, <1>2, <1>3, <1>4, <1>5, <1>6 DEF NodeInv

\* A request whose usage is to be reported has an escrow session.
LEMMA Linked ==
    ASSUME NodeInv
    PROVE  /\ \A tx \in mempool :
                  /\ tx.request \in Requests /\ link[tx.request] \in ChainIds
                  /\ tx.kind \in {"recordUsage", "settleByOperator"}
                  /\ tx.kind = "recordUsage" => tx.tokens \in Nat
                  /\ tx.kind = "settleByOperator" =>
                         tx.toProvider \in Nat /\ tx.toUser \in Nat /\ tx.full \in BOOLEAN
           /\ \A r \in routerSaw : r \in Requests /\ link[r] \in ChainIds /\ served[r] \in Nat
  <1>1. ASSUME NEW tx \in mempool
        PROVE  /\ tx.request \in Requests
               /\ tx.kind \in {"recordUsage", "settleByOperator"}
               /\ tx.kind = "recordUsage" => tx.tokens \in Nat
               /\ tx.kind = "settleByOperator" =>
                      tx.toProvider \in Nat /\ tx.toUser \in Nat /\ tx.full \in BOOLEAN
    BY <1>1 DEF NodeInv, TypeOK, Tx
  <1>2. \A tx \in mempool : link[tx.request] \in ChainIds
    BY <1>1 DEF NodeInv, TypeOK, MempoolOK
  <1>3. ASSUME NEW r \in routerSaw
        PROVE  r \in Requests /\ link[r] \in ChainIds /\ served[r] \in Nat
    <2>1. r \in Requests /\ stream[r] # "idle" /\ RequestOK(r)
      BY <1>3 DEF NodeInv, TypeOK, RouterOK
    <2> QED
      BY <2>1 DEF NodeInv, TypeOK, RequestOK
  <1> QED
    BY <1>1, <1>2, <1>3

LEMMA UserStepKeeps ==
    ASSUME NodeInv, UserStep
    PROVE  NodeInv'
  <1>1. ASSUME NEW id \in ChainIds, NEW amount \in Deposits, UserOpens(id, amount)
        PROVE  NodeInv'
    <2>1. LedgerTypeOK' /\ LedgerBooks'
      BY <1>1, OpenKeeps DEF UserOpens
    <2>2. TroublesOK'
      BY <1>1, SameTroubles DEF UserOpens
    <2> QED
      BY <1>1, <2>1, <2>2, ChainKeeps DEF UserOpens
  <1>2. ASSUME NEW id \in ChainIds, NEW p \in 0..ledger[id].locked,
               NEW u \in 0..ledger[id].locked, UserSettles(id, p, u)
        PROVE  NodeInv'
    <2>1. ledger[id].locked \in Nat
      BY DEF NodeInv, TypeOK, LedgerTypeOK, Entry
    <2>2. p \in Nat /\ u \in Nat
      BY <2>1
    <2>3. LedgerTypeOK' /\ LedgerBooks'
      BY <1>2, <2>2, ReleaseKeeps DEF UserSettles
    <2>4. TroublesOK'
      BY <1>2, NodeAssumption DEF UserSettles, TroublesLeft, TroublesOK, NodeInv, TypeOK
    <2> QED
      BY <1>2, <2>3, <2>4, ChainKeeps DEF UserSettles
  <1> QED
    BY <1>1, <1>2 DEF UserStep

\* What mining a transaction does to the ledger.
LEMMA MineCases ==
    ASSUME NodeInv, NEW tx \in mempool, Mine(tx)
    PROVE  /\ LedgerTypeOK' /\ LedgerBooks'
           /\ \A i \in ChainIds \ {link[tx.request]} : ledger'[i] = ledger[i]
           /\ \/ /\ ~Succeeds(tx)
                 /\ UNCHANGED ledger
              \/ /\ tx.kind = "recordUsage" /\ Succeeds(tx)
                 /\ Report(link[tx.request], tx.tokens)
              \/ /\ tx.kind = "settleByOperator" /\ Succeeds(tx)
                 /\ Release(link[tx.request], tx.toProvider, tx.toUser)
  <1>1. CASE ~Succeeds(tx)
    BY <1>1 DEF Mine, NodeInv, TypeOK, LedgerTypeOK, LedgerBooks
  <1>2. CASE tx.kind = "recordUsage" /\ Succeeds(tx)
    BY <1>2, Linked, ReportKeeps DEF Mine
  <1>3. CASE tx.kind = "settleByOperator" /\ Succeeds(tx)
    BY <1>3, Linked, ReleaseKeeps DEF Mine
  <1> QED
    BY <1>1, <1>2, <1>3, Linked

LEMMA MineKeeps ==
    ASSUME NodeInv, NEW tx \in mempool, Mine(tx)
    PROVE  NodeInv'
  <1>1. TroublesOK'
    BY SameTroubles DEF Mine
  <1>2. mempool' \subseteq mempool /\ UNCHANGED <<manager, streamVars, worker, config, routerSaw>>
    BY DEF Mine
  <1> QED
    BY <1>1, <1>2, MineCases, ChainKeeps

LEMMA RouterReportsKeeps ==
    ASSUME NodeInv, NEW r \in Requests, RouterReports(r)
    PROVE  NodeInv'
  <1>1. LedgerTypeOK' /\ LedgerBooks'
    <2>1. CASE Reportable(link[r], served[r])
      BY <2>1, Linked, ReportKeeps DEF RouterReports
    <2>2. CASE ~Reportable(link[r], served[r])
      BY <2>2 DEF RouterReports, NodeInv, TypeOK, LedgerTypeOK, LedgerBooks
    <2> QED
      BY <2>1, <2>2
  <1>2. TroublesOK'
    BY SameTroubles DEF RouterReports
  <1>3. /\ mempool' \subseteq mempool /\ routerSaw' \subseteq routerSaw
        /\ UNCHANGED <<manager, streamVars, worker, config>>
    BY DEF RouterReports
  <1> QED
    BY <1>1, <1>2, <1>3, ChainKeeps

-------------------------------------------------------------------------------
\* Ticks, the end of a tick, and restarts.

\* Clones are taken of completed sessions, or, in the TEE tier, of active ones.
Clones(todo) ==
    /\ todo \in [Requests -> Session \cup {NoSession}]
    /\ \A r \in Requests : todo[r] # NoSession =>
           /\ sessions[r] # NoSession
           /\ todo[r] = sessions[r]
           /\ \/ sessions[r].state = "Completed"
              \/ sessions[r].state = "Active" /\ config.tier = "TeeVerified"

LEMMA CandidatesAreClones ==
    ASSUME NodeInv
    PROVE  Clones(TeeTouchCandidates) /\ Clones(PendingBestEffortCompleted) /\ Clones(Nothing)
  <1>1. Clones(TeeTouchCandidates)
    BY DEF NodeInv, TypeOK, Clones, TeeTouchCandidates
  <1>2. Clones(PendingBestEffortCompleted)
    BY DEF NodeInv, TypeOK, Clones, PendingBestEffortCompleted
  <1>3. Clones(Nothing)
    BY DEF Clones, Nothing
  <1> QED
    BY <1>1, <1>2, <1>3

\* Between two candidates, with fresh clones.
LEMMA FreshKeeps ==
    ASSUME NodeInv, NEW todo, Clones(todo), NEW epochDue \in BOOLEAN,
           worker' = AtNext(todo, epochDue),
           UNCHANGED <<chainVars, manager, streamVars, routerSaw, troubles, config>>
    PROVE  NodeInv'
  <1>1. RequestTypes' /\ (\A q \in Requests : RequestOK(q)' /\ Same(q)) /\ TroublesOK'
    BY AllSame, SameTroubles
  <1>2. /\ worker' \in Worker
        /\ worker'.at = "next" /\ worker'.todo = todo
        /\ worker'.current = NoRequest /\ worker'.tx = NoTx
    BY DEF AtNext, Worker, Clones
  <1>3. TypeOK'
    BY <1>1, <1>2 DEF NodeInv, TypeOK, LedgerTypeOK, RequestTypes, TroublesOK, chainVars
  <1>4. WorkerShape'
    BY <1>2 DEF WorkerShape, InHand
  <1>5. ASSUME NEW q \in Requests PROVE CloneOK(q)'
    <2> SUFFICES ASSUME todo[q] # NoSession PROVE CloneOK(q)'
      BY <1>2 DEF CloneOK
    <2>1. /\ sessions[q] # NoSession /\ todo[q] = sessions[q]
          /\ \/ sessions[q].state = "Completed"
             \/ sessions[q].state = "Active" /\ config.tier = "TeeVerified"
      BY DEF Clones
    <2>2. /\ sessions[q] = disk[q] /\ disk[q].tokensOutput = served[q]
          /\ disk[q].outputTokensSynced <= served[q] /\ served[q] \in Nat
          /\ disk[q].state = "Completed" => stream[q] = "ended"
      BY <2>1 DEF NodeInv, TypeOK, RequestOK
    <2>3. UNCHANGED <<sessions, stream, served, config>>
      BY DEF manager, streamVars
    <2> QED
      BY <1>2, <2>1, <2>2, <2>3 DEF CloneOK
  <1>6. LedgerBooks' /\ MempoolOK' /\ RouterOK'
    BY DEF NodeInv, LedgerBooks, MempoolOK, RouterOK, NodeReports, chainVars, streamVars
  <1> QED
    BY <1>1, <1>3, <1>4, <1>5, <1>6 DEF NodeInv

LEMMA AsleepShape ==
    /\ Asleep \in Worker
    /\ Asleep.at = "asleep"
    /\ \A r \in Requests : Asleep.todo[r] = NoSession
  BY DEF Asleep, Worker, Nothing

LEMMA SleepKeeps ==
    ASSUME NodeInv, Sleep
    PROVE  NodeInv'
  <1>1. worker' = Asleep /\ UNCHANGED <<chainVars, manager, streamVars, routerSaw, troubles, config>>
    BY DEF Sleep
  <1>2. RequestTypes' /\ (\A q \in Requests : RequestOK(q)') /\ TroublesOK'
    BY <1>1, AllSame, SameTroubles
  <1>3. TypeOK'
    BY <1>1, <1>2, AsleepShape DEF NodeInv, TypeOK, LedgerTypeOK, RequestTypes, TroublesOK, chainVars
  <1>4. WorkerShape' /\ \A q \in Requests : CloneOK(q)'
    BY <1>1, AsleepShape DEF WorkerShape, CloneOK, InHand
  <1>5. LedgerBooks' /\ MempoolOK' /\ RouterOK'
    BY <1>1 DEF NodeInv, LedgerBooks, MempoolOK, RouterOK, NodeReports, chainVars, streamVars
  <1> QED
    BY <1>2, <1>3, <1>4, <1>5 DEF NodeInv

LEMMA RestartKeeps ==
    ASSUME NodeInv, Restart
    PROVE  NodeInv'
  <1>1. PICK old \in SUBSET {r \in Requests : disk[r] # NoSession /\ disk[r].state # "Active"} :
            disk' = [r \in Requests |-> IF r \in old THEN NoSession ELSE disk[r]]
    BY DEF Restart
  <1>2. /\ sessions' = Recovered(disk) /\ worker' = Asleep
        /\ stream' = [r \in Requests |-> IF stream[r] = "idle" THEN "idle" ELSE "ended"]
        /\ UNCHANGED <<chainVars, link, served, routerSaw, config>>
    BY DEF Restart
  <1>3. RequestTypes'
    BY <1>1, <1>2 DEF NodeInv, TypeOK, RequestTypes, Recovered, StreamState
  <1>4. TroublesOK'
    BY NodeAssumption DEF Restart, TroublesOK, TroublesLeft, NodeInv, TypeOK
  <1>5. TypeOK'
    BY <1>2, <1>3, <1>4, AsleepShape
       DEF NodeInv, TypeOK, LedgerTypeOK, RequestTypes, TroublesOK, chainVars
  <1>6. ASSUME NEW r \in Requests PROVE RequestOK(r)'
    <2>1. RequestOK(r)
      BY DEF NodeInv
    <2>2. /\ stream'[r] = (IF stream[r] = "idle" THEN "idle" ELSE "ended")
          /\ disk'[r] = (IF r \in old THEN NoSession ELSE disk[r])
          /\ sessions'[r] = (IF disk[r] # NoSession /\ disk[r].state = "Active"
                             THEN disk[r] ELSE NoSession)
          /\ link'[r] = link[r] /\ served'[r] = served[r]
      BY <1>1, <1>2 DEF Recovered
    <2>3. r \in old => disk[r] # NoSession /\ disk[r].state # "Active"
      BY <1>1
    <2> QED
      BY <2>1, <2>2, <2>3 DEF RequestOK, Live
  <1>7. WorkerShape' /\ \A q \in Requests : CloneOK(q)'
    BY <1>2, AsleepShape DEF WorkerShape, CloneOK, InHand
  <1>8. LedgerBooks' /\ MempoolOK'
    BY <1>2 DEF NodeInv, LedgerBooks, MempoolOK, NodeReports, chainVars
  <1>9. RouterOK'
    BY <1>2 DEF NodeInv, TypeOK, RouterOK, NodeReports
  <1> QED
    BY <1>5, <1>6, <1>7, <1>8, <1>9 DEF NodeInv

-------------------------------------------------------------------------------
\* The invariant, and what follows from it.

LEMMA NodeInvInit ==
    Init => NodeInv
  <1> SUFFICES ASSUME Init PROVE NodeInv
    OBVIOUS
  <1> USE DEF Init
  <1>1. TypeOK
    BY AsleepShape, NodeAssumption
       DEF TypeOK, LedgerTypeOK, LedgerInit, NoEntry, Entry, StreamState, Nothing
  <1>2. LedgerBooks
    <2>1. EntryOK(NoEntry)
      BY DEF EntryOK, NoEntry
    <2> QED
      BY <2>1 DEF LedgerBooks, LedgerInit
  <1>3. \A r \in Requests : RequestOK(r) /\ CloneOK(r)
    BY AsleepShape DEF RequestOK, CloneOK, Nothing, Live
  <1>4. WorkerShape
    BY AsleepShape DEF WorkerShape, InHand
  <1>5. MempoolOK /\ RouterOK
    BY FS_EmptySet DEF MempoolOK, RouterOK
  <1> QED
    BY <1>1, <1>2, <1>3, <1>4, <1>5 DEF NodeInv

\* Every disjunct of Next by itself.
LEMMA NodeInvNext ==
    NodeInv /\ [Next]_vars => NodeInv'
  <1> SUFFICES ASSUME NodeInv, [Next]_vars PROVE NodeInv'
    OBVIOUS
  <1>1. CASE UserStep
    BY <1>1, UserStepKeeps
  <1>2. ASSUME NEW r \in Requests, StreamStep(r) PROVE NodeInv'
    BY <1>2, StreamStepKeeps
  <1>3. ASSUME NEW r \in Requests, WorkerStep(r) \/ GiveUp(r) \/ LoseConfirmation(r)
        PROVE  NodeInv'
    BY <1>3, WorkerStepKeeps
  <1>4. ASSUME NEW r \in Requests, RouterReports(r) PROVE NodeInv'
    BY <1>4, RouterReportsKeeps
  <1>5. ASSUME NEW tee \in BOOLEAN, NEW epoch \in BOOLEAN, NEW gateOpen \in BOOLEAN,
               Tick(tee, epoch, gateOpen)
        PROVE  NodeInv'
    BY <1>5, CandidatesAreClones, FreshKeeps DEF Tick
  <1>6. CASE StartEpochPass
    BY <1>6, CandidatesAreClones, FreshKeeps DEF StartEpochPass
  <1>7. CASE Sleep
    BY <1>7, SleepKeeps
  <1>8. ASSUME NEW tx \in mempool, Mine(tx) PROVE NodeInv'
    BY <1>8, MineKeeps
  <1>9. CASE Restart
    BY <1>9, RestartKeeps
  <1>10. CASE UNCHANGED vars
    <2>1. UNCHANGED <<chainVars, manager, streamVars, worker, routerSaw, troubles, config>>
      BY <1>10 DEF vars
    <2>2. LedgerTypeOK' /\ LedgerBooks' /\ TroublesOK'
      BY <2>1, SameTroubles DEF NodeInv, TypeOK, LedgerTypeOK, LedgerBooks, chainVars
    <2> QED
      BY <2>1, <2>2, ChainKeeps DEF chainVars
  <1> QED
    BY <1>1, <1>2, <1>3, <1>4, <1>5, <1>6, <1>7, <1>8, <1>9, <1>10 DEF Next

\* NodeInv holds in every state the node, its disk and the chain reach.
THEOREM NodeInvariance == Spec => []NodeInv
  BY NodeInvInit, NodeInvNext, PTL DEF Spec

\* Every variable keeps its type, and every history stays within its bound.
THEOREM NodeTypeCorrect == Spec => []TypeOK
  <1>1. NodeInv => TypeOK
    BY DEF NodeInv
  <1> QED
    BY <1>1, NodeInvariance, PTL

\* Whatever the interleaving of streams, worker and restarts, the disk accounts for
\* every token streamed: a restart at any point loses nothing.
THEOREM DiskAlwaysAccounts == Spec => []DiskAccounts
  <1>1. NodeInv => DiskAccounts
    BY DEF NodeInv, RequestOK, DiskAccounts
  <1> QED
    BY <1>1, NodeInvariance, PTL

\* A step that leaves the disk copy of q alone, or its stream open, changes no
\* ended session.
LEMMA DiskSameSettles ==
    ASSUME NEW q \in Requests, disk'[q] = disk[q] \/ stream[q] # "ended"
    PROVE  EndedSettles(q)
  BY DEF EndedSettles

LEMMA CloseSettles ==
    ASSUME NodeInv, NEW r \in Requests, Close(r, "Settled"), NEW q \in Requests
    PROVE  EndedSettles(q)
  <1>1. CASE q # r \/ sessions[r] = NoSession
    <2>1. disk'[q] = disk[q]
      BY <1>1 DEF Close, Save, manager, NodeInv, TypeOK
    <2> QED
      BY <2>1, DiskSameSettles
  <1>2. CASE q = r /\ sessions[r] # NoSession
    <2>1. sessions[r] \in Session /\ disk[r] = sessions[r]
      BY <1>2 DEF NodeInv, TypeOK, RequestOK
    <2>2. disk'[r] = [sessions[r] EXCEPT !.state = "Settled"]
      BY <1>2 DEF Close, Save, NodeInv, TypeOK
    <2>3. disk'[r].state = "Settled" /\ disk'[r].tokensOutput = sessions[r].tokensOutput
      BY <2>1, <2>2 DEF Session
    <2> QED
      BY <1>2, <2>1, <2>3 DEF EndedSettles
  <1> QED
    BY <1>1, <1>2

\* The worker's steps.
LEMMA WorkerSettles ==
    ASSUME NodeInv, NEW r \in Requests, WorkerStep(r), NEW q \in Requests
    PROVE  EndedSettles(q)
  <1>1. CASE MarkSettled(r)
    BY <1>1, CloseSettles DEF MarkSettled
  <1>2. CASE UNCHANGED manager
    BY <1>2, DiskSameSettles DEF manager
  <1>3. CASE ConfirmUsage(r)
    <2>1. CASE q # r \/ sessions[r] = NoSession
      <3>1. disk'[q] = disk[q]
        BY <1>3, <2>1 DEF ConfirmUsage, UpdateTokensSynced, Save, manager, NodeInv, TypeOK
      <3> QED
        BY <3>1, DiskSameSettles
    <2>2. CASE q = r /\ sessions[r] # NoSession
      <3>1. sessions[r] \in Session /\ disk[r] = sessions[r]
        BY <2>2 DEF NodeInv, TypeOK, RequestOK
      <3>2. disk'[r] = [sessions[r] EXCEPT !.outputTokensSynced = worker.todo[r].tokensOutput]
        BY <1>3, <2>2 DEF ConfirmUsage, UpdateTokensSynced, Save, NodeInv, TypeOK
      <3>3. disk'[r].state = sessions[r].state /\ disk'[r].tokensOutput = sessions[r].tokensOutput
        BY <3>1, <3>2 DEF Session
      <3> QED
        BY <2>2, <3>1, <3>3 DEF EndedSettles
    <2> QED
      BY <2>1, <2>2
  <1>4. CASE ConfirmSettle(r)
    <2>1. CASE Close(r, "Settled")
      BY <2>1, CloseSettles
    <2>2. CASE UpdateTeeAnchorTokens(r, worker.todo[r].tokensOutput)
      <3>1. CASE q # r \/ sessions[r] = NoSession
        <4>1. disk'[q] = disk[q]
          BY <2>2, <3>1 DEF UpdateTeeAnchorTokens, Save, manager, NodeInv, TypeOK
        <4> QED
          BY <4>1, DiskSameSettles
      <3>2. CASE q = r /\ sessions[r] # NoSession
        <4>1. sessions[r] \in Session /\ disk[r] = sessions[r]
          BY <3>2 DEF NodeInv, TypeOK, RequestOK
        <4>2. disk'[r] = [sessions[r] EXCEPT !.teeAnchorTokens = worker.todo[r].tokensOutput]
          BY <2>2, <3>2 DEF UpdateTeeAnchorTokens, Save, NodeInv, TypeOK
        <4>3. disk'[r].state = sessions[r].state /\ disk'[r].tokensOutput = sessions[r].tokensOutput
          BY <4>1, <4>2 DEF Session
        <4> QED
          BY <3>2, <4>1, <4>3 DEF EndedSettles
      <3> QED
        BY <3>1, <3>2
    <2> QED
      BY <1>4, <2>1, <2>2 DEF ConfirmSettle
  <1>5. CASE Inspect(r)
    BY <1>1, <1>2, <1>5 DEF Inspect, Send
  <1>6. CASE Refresh(r)
    BY <1>1, <1>2, <1>6 DEF Refresh, Send
  <1> QED
    BY <1>3, <1>4, <1>5, <1>6 DEF WorkerStep

\* The stream's steps: they come before the stream has ended.
LEMMA StreamSettles ==
    ASSUME NodeInv, NEW r \in Requests, StreamStep(r), NEW q \in Requests
    PROVE  EndedSettles(q)
  <1>1. stream[r] # "ended"
    BY DEF StreamStep, Authenticate, LeaveEarly, OpenSession, RecordChunk, IssueReceipt,
           SendUsageLine, Complete, BackendFails, Disconnect
  <1>2. q # r => disk'[q] = disk[q]
    BY DEF StreamStep, Authenticate, LeaveEarly, OpenSession, RecordChunk, IssueReceipt,
           SendUsageLine, Complete, BackendFails, Disconnect, EndStream, Close, Save, manager,
           NodeInv, TypeOK
  <1> QED
    BY <1>1, <1>2, DiskSameSettles

\* After its stream has ended, no step changes the tokens of a session on disk, and
\* its state changes to settled only: no late worker write and no cleanup undoes it.
THEOREM EndedAlwaysOnlySettles == Spec => EndedOnlySettles
  <1>1. NodeInv /\ [Next]_vars => [\A r \in Requests : EndedSettles(r)]_vars
    <2> SUFFICES ASSUME NodeInv, Next, NEW q \in Requests PROVE EndedSettles(q)
      OBVIOUS
    <2>1. CASE Restart
      <3>1. disk'[q] = NoSession \/ disk'[q] = disk[q]
        BY <2>1 DEF Restart
      <3> QED
        BY <3>1, DiskSameSettles DEF EndedSettles
    <2>2. CASE UNCHANGED manager
      BY <2>2, DiskSameSettles DEF manager
    <2>3. CASE UserStep
      BY <2>2, <2>3 DEF UserStep, UserOpens, UserSettles
    <2>4. ASSUME NEW r \in Requests, StreamStep(r) PROVE EndedSettles(q)
      BY <2>4, StreamSettles
    <2>5. ASSUME NEW r \in Requests, WorkerStep(r) PROVE EndedSettles(q)
      BY <2>5, WorkerSettles
    <2>6. ASSUME NEW r \in Requests, GiveUp(r) \/ LoseConfirmation(r) \/ RouterReports(r)
          PROVE  EndedSettles(q)
      BY <2>2, <2>6 DEF GiveUp, LoseConfirmation, RouterReports
    <2>7. CASE \E tee, epoch, gateOpen \in BOOLEAN : Tick(tee, epoch, gateOpen)
      BY <2>2, <2>7 DEF Tick
    <2>8. CASE StartEpochPass \/ Sleep
      BY <2>2, <2>8 DEF StartEpochPass, Sleep
    <2>9. ASSUME NEW tx \in mempool, Mine(tx) PROVE EndedSettles(q)
      BY <2>2, <2>9 DEF Mine
    <2> QED
      BY <2>1, <2>3, <2>4, <2>5, <2>6, <2>7, <2>8, <2>9 DEF Next
  <1> QED
    BY <1>1, NodeInvariance, PTL DEF Spec, EndedOnlySettles

-------------------------------------------------------------------------------
\* Billing: what has been charged, what is still on its way, and what accounts
\* for it.

\* The tokens of request r that reports, confirmed or awaited, stand for.
Expected(r) ==
    IF config.routerMetering
    THEN IF stream[r] \in {"usageSent", "ended"} THEN served[r] ELSE 0
    ELSE IF worker.at = "reporting" /\ worker.current = r
         THEN worker.todo[r].tokensOutput
         ELSE IF disk[r] = NoSession THEN 0 ELSE disk[r].outputTokensSynced

\* Per escrow session: tokens served, tokens accounted for, reports in flight and
\* usage lines the router has still to report.
ServedOn(id) == [r \in Requests |-> IF link[r] = id THEN served[r] ELSE 0]
ExpectedOn(id) == [r \in Requests |-> IF link[r] = id THEN Expected(r) ELSE 0]
SentOn(id) ==
    [tx \in mempool |->
        IF tx.kind = "recordUsage" /\ link[tx.request] = id THEN tx.tokens ELSE 0]
LinesOn(id) ==
    [r \in Requests |-> IF r \in routerSaw /\ link[r] = id THEN served[r] ELSE 0]

Billed(id) ==
    ledger[id].usage + Total(SentOn(id), mempool) + Total(LinesOn(id), Requests)

\* Beyond the tokens reports stand for, every lost confirmation pays for one more
\* report of everything served.
BillingInv ==
    \A id \in ChainIds :
        Billed(id) <= Unconfirmed * Total(ServedOn(id), Requests)
                          + Total(ExpectedOn(id), Requests)

\* A larger factor makes a larger product.
LEMMA TimesMono ==
    ASSUME NEW u \in Nat, NEW a \in Nat, NEW b \in Nat, a <= b
    PROVE  u * a <= u * b /\ u * a \in Nat /\ u * b \in Nat /\ (1 + u) * a = a + u * a
  OBVIOUS

\* Reports never stand for more than what was served.
ExpectedBounded ==
    \A r \in Requests : Expected(r) \in Nat /\ Expected(r) <= served[r] /\ served[r] \in Nat

LEMMA ExpectedBound == NodeInv => ExpectedBounded
  <1> SUFFICES ASSUME NodeInv, NEW r \in Requests
               PROVE  Expected(r) \in Nat /\ Expected(r) <= served[r] /\ served[r] \in Nat
    BY DEF ExpectedBounded
  <1>1. served[r] \in Nat /\ RequestOK(r) /\ CloneOK(r)
    BY DEF NodeInv, TypeOK
  <1>2. disk[r] # NoSession => disk[r].outputTokensSynced \in Nat
    BY DEF NodeInv, TypeOK, Session
  <1>3. worker.at = "reporting" /\ worker.current = r =>
            worker.todo[r] # NoSession /\ worker.todo[r].tokensOutput \in Nat
    BY DEF NodeInv, TypeOK, Worker, Session, WorkerShape, InHand
  <1> QED
    BY <1>1, <1>2, <1>3 DEF Expected, RequestOK, CloneOK

\* The four functions are functions to the naturals, and their sums naturals.
BillingTyped ==
    /\ Unconfirmed \in Nat
    /\ IsFiniteSet(mempool)
    /\ \A id \in ChainIds :
           /\ ledger[id].usage \in Nat
           /\ ServedOn(id) \in [Requests -> Nat] /\ Total(ServedOn(id), Requests) \in Nat
           /\ ExpectedOn(id) \in [Requests -> Nat] /\ Total(ExpectedOn(id), Requests) \in Nat
           /\ SentOn(id) \in [mempool -> Nat] /\ Total(SentOn(id), mempool) \in Nat
           /\ LinesOn(id) \in [Requests -> Nat] /\ Total(LinesOn(id), Requests) \in Nat
           /\ Total(ExpectedOn(id), Requests) <= Total(ServedOn(id), Requests)

LEMMA BillingTypes == NodeInv => BillingTyped
  <1> SUFFICES ASSUME NodeInv PROVE BillingTyped
    OBVIOUS
  <1>0. Unconfirmed \in Nat
    BY DEF NodeInv, TypeOK, Unconfirmed
  <1>2. \A r \in Requests : Expected(r) \in Nat /\ Expected(r) <= served[r] /\ served[r] \in Nat
    BY ExpectedBound DEF ExpectedBounded
  <1>3. IsFiniteSet(Requests) /\ IsFiniteSet(mempool)
    BY NodeAssumption DEF NodeInv, MempoolOK
  <1> SUFFICES ASSUME NEW id \in ChainIds
               PROVE  /\ ledger[id].usage \in Nat
                      /\ ServedOn(id) \in [Requests -> Nat] /\ Total(ServedOn(id), Requests) \in Nat
                      /\ ExpectedOn(id) \in [Requests -> Nat] /\ Total(ExpectedOn(id), Requests) \in Nat
                      /\ SentOn(id) \in [mempool -> Nat] /\ Total(SentOn(id), mempool) \in Nat
                      /\ LinesOn(id) \in [Requests -> Nat] /\ Total(LinesOn(id), Requests) \in Nat
                      /\ Total(ExpectedOn(id), Requests) <= Total(ServedOn(id), Requests)
    BY <1>0, <1>3 DEF BillingTyped
  <1>1. ledger[id].usage \in Nat
    BY DEF NodeInv, TypeOK, LedgerTypeOK, Entry
  <1>4. ServedOn(id) \in [Requests -> Nat] /\ LinesOn(id) \in [Requests -> Nat]
    BY <1>2 DEF ServedOn, LinesOn
  <1>5. ExpectedOn(id) \in [Requests -> Nat]
    BY <1>2 DEF ExpectedOn
  <1>6. SentOn(id) \in [mempool -> Nat]
    BY Linked DEF SentOn
  <1>7. \A r \in Requests : ExpectedOn(id)[r] <= ServedOn(id)[r]
    BY <1>2 DEF ExpectedOn, ServedOn
  <1> QED
    BY <1>1, <1>3, <1>4, <1>5, <1>6, <1>7, UnitsFinite, TotalMono

\* Both, before and after a step.
LEMMA BillingTypesNext ==
    ASSUME NodeInv, NodeInv'
    PROVE  BillingTyped /\ BillingTyped' /\ ExpectedBounded /\ ExpectedBounded'
  BY BillingTypes, ExpectedBound, PTL

\* A step that charges nothing and sends nothing: requests keep their escrow
\* session, and what was served and what is accounted for only grows.
BillingQuiet ==
    /\ UNCHANGED <<mempool, routerSaw, lost, restarts>>
    /\ \A id \in ChainIds : ledger'[id].usage = ledger[id].usage
    /\ \A q \in Requests : link[q] # NoLink =>
           /\ link'[q] = link[q]
           /\ served[q] <= served'[q]
           /\ Expected(q) <= Expected(q)'
    /\ \A q \in routerSaw : served'[q] = served[q]

LEMMA QuietKeepsBilling ==
    ASSUME NodeInv, NodeInv', BillingInv, BillingQuiet
    PROVE  BillingInv'
  <1> SUFFICES ASSUME NEW id \in ChainIds
               PROVE  (Billed(id) <= Unconfirmed * Total(ServedOn(id), Requests)
                                        + Total(ExpectedOn(id), Requests))'
    BY DEF BillingInv
  <1>1. id # NoLink
    BY NodeAssumption
  <1>2. ServedOn(id)' \in [Requests -> Nat] /\ ServedOn(id) \in [Requests -> Nat]
    BY BillingTypesNext DEF BillingTyped
  <1>3. \A q \in Requests : ServedOn(id)[q] <= ServedOn(id)'[q]
    <2> SUFFICES ASSUME NEW q \in Requests PROVE ServedOn(id)[q] <= ServedOn(id)'[q]
      OBVIOUS
    <2>1. served[q] \in Nat /\ served'[q] \in Nat
      BY DEF NodeInv, TypeOK
    <2> QED
      BY <1>1, <2>1 DEF ServedOn, BillingQuiet
  <1>4. \A q \in Requests : ExpectedOn(id)[q] <= ExpectedOn(id)'[q]
    <2> SUFFICES ASSUME NEW q \in Requests PROVE ExpectedOn(id)[q] <= ExpectedOn(id)'[q]
      OBVIOUS
    <2>1. Expected(q) \in Nat /\ Expected(q)' \in Nat
      BY BillingTypesNext DEF ExpectedBounded
    <2> QED
      BY <1>1, <2>1 DEF ExpectedOn, BillingQuiet
  <1>5. SentOn(id)' = SentOn(id)
    <2>1. \A tx \in mempool : link'[tx.request] = link[tx.request]
      BY Linked, NodeAssumption DEF BillingQuiet
    <2> QED
      BY <2>1 DEF SentOn, BillingQuiet
  <1>6. LinesOn(id)' = LinesOn(id)
    <2>1. \A q \in routerSaw : link'[q] = link[q] /\ served'[q] = served[q]
      BY Linked, NodeAssumption DEF BillingQuiet
    <2> QED
      BY <2>1 DEF LinesOn, BillingQuiet
  <1>7. Total(SentOn(id), mempool)' = Total(SentOn(id), mempool)
    BY <1>5 DEF BillingQuiet
  <1>8. Total(LinesOn(id), Requests)' = Total(LinesOn(id), Requests)
    BY <1>6
  <1>9. Total(ServedOn(id), Requests) <= Total(ServedOn(id), Requests)'
    BY <1>2, <1>3, TotalMono, NodeAssumption
  <1>10. Total(ExpectedOn(id), Requests) <= Total(ExpectedOn(id), Requests)'
    <2>1. ExpectedOn(id) \in [Requests -> Nat] /\ ExpectedOn(id)' \in [Requests -> Nat]
      BY BillingTypesNext DEF BillingTyped
    <2> QED
      BY <1>4, <2>1, TotalMono, NodeAssumption
  <1>11. Billed(id)' = Billed(id)
    BY <1>7, <1>8 DEF Billed, BillingQuiet
  <1>12. Unconfirmed' = Unconfirmed
    BY DEF Unconfirmed, BillingQuiet
  <1>13. /\ Total(ServedOn(id), Requests) \in Nat /\ Total(ServedOn(id), Requests)' \in Nat
         /\ Total(ExpectedOn(id), Requests) \in Nat /\ Total(ExpectedOn(id), Requests)' \in Nat
         /\ Unconfirmed \in Nat
    BY BillingTypesNext DEF BillingTyped
  <1>14. Unconfirmed * Total(ServedOn(id), Requests)
             <= Unconfirmed * Total(ServedOn(id), Requests)'
    BY <1>9, <1>13, TimesMono
  <1>15. Billed(id) <= Unconfirmed * Total(ServedOn(id), Requests) + Total(ExpectedOn(id), Requests)
    BY DEF BillingInv
  <1>16. Billed(id) \in Nat
    BY BillingTypesNext DEF BillingTyped, Billed
  <1>17. /\ Unconfirmed * Total(ServedOn(id), Requests) \in Nat
         /\ Unconfirmed * Total(ServedOn(id), Requests)' \in Nat
    BY <1>13
  <1> QED
    BY <1>10, <1>11, <1>12, <1>13, <1>14, <1>15, <1>16, <1>17

\* Steps of a stream charge nothing; the line the router reads stands for what it
\* will charge.
LEMMA StreamQuiet ==
    ASSUME NodeInv, NodeInv', NEW r \in Requests, StreamMove(r), stream[r] # "ended",
           UNCHANGED routerSaw,
           stream[r] = "usageSent" => stream'[r] = "ended" /\ served'[r] = served[r]
    PROVE  BillingQuiet
  <1>1. UNCHANGED <<ledger, mempool, worker, config, lost, restarts>>
    BY DEF StreamMove, chainVars, troubles
  <1>2. ASSUME NEW q \in Requests \ {r}
        PROVE  link'[q] = link[q] /\ served'[q] = served[q] /\ Expected(q)' = Expected(q)
    BY <1>1 DEF StreamMove, Same, Expected
  <1>3. RequestOK(r) /\ RequestOK(r)' /\ served[r] \in Nat /\ served'[r] \in Nat
    BY DEF NodeInv, TypeOK
  <1>4. ExpectedBounded /\ ExpectedBounded'
    BY BillingTypesNext
  <1>5. stream[r] \in StreamState
    BY DEF NodeInv, TypeOK
  <1>6. CASE stream[r] \in {"idle", "admitted"}
    <2>1. served[r] = 0 /\ Expected(r) = 0
      BY <1>3, <1>4, <1>6 DEF RequestOK, ExpectedBounded
    <2>2. r \notin routerSaw
      BY <1>6 DEF NodeInv, RouterOK
    <2>3. Expected(r)' \in Nat
      BY <1>4 DEF ExpectedBounded
    <2>4. Expected(r) <= Expected(r)'
      BY <2>1, <2>3
    <2>5. link[r] # NoLink => link'[r] = link[r]
      BY DEF StreamMove
    <2>6. \A q \in routerSaw : q \in Requests \ {r}
      BY <2>2 DEF NodeInv, TypeOK
    <2> QED
      BY <1>1, <1>2, <1>3, <2>1, <2>4, <2>5, <2>6, <1>4 DEF BillingQuiet, ExpectedBounded
  <1>7. CASE stream[r] \in Live
    <2>1. /\ sessions[r] # NoSession /\ sessions[r] = disk[r]
          /\ sessions'[r] # NoSession /\ sessions'[r] = disk'[r]
          /\ disk'[r].outputTokensSynced = disk[r].outputTokensSynced
          /\ served'[r] >= served[r]
          /\ link'[r] = link[r]
      BY <1>3, <1>7 DEF StreamMove, RequestOK, Live
    <2>2. r \in routerSaw => stream[r] = "usageSent"
      BY <1>7 DEF NodeInv, RouterOK, Live
    <2>3. Expected(r) = Expected(r)' \/ Expected(r) = 0
      BY <1>1, <1>7, <2>1 DEF Expected, Live
    <2>4. Expected(r) <= Expected(r)'
      BY <1>4, <2>3 DEF ExpectedBounded
    <2>5. \A q \in routerSaw : q \in Requests
      BY DEF NodeInv, TypeOK
    <2> QED
      BY <1>1, <1>2, <1>3, <1>4, <2>1, <2>2, <2>4, <2>5 DEF BillingQuiet, ExpectedBounded
  <1> QED
    BY <1>5, <1>6, <1>7 DEF StreamState, Live

\* What an escrow session is charged and may still be charged grows by d only when
\* what accounts for it does.
LEMMA BillingArithmetic ==
    ASSUME NodeInv, NodeInv', BillingInv, NEW id \in ChainIds, NEW d \in Nat,
           Unconfirmed' = Unconfirmed,
           Total(ServedOn(id), Requests)' = Total(ServedOn(id), Requests),
           Billed(id)' <= Billed(id) + d,
           Total(ExpectedOn(id), Requests)' = Total(ExpectedOn(id), Requests) + d
    PROVE  (Billed(id) <= Unconfirmed * Total(ServedOn(id), Requests)
                              + Total(ExpectedOn(id), Requests))'
  <1>1. BillingTyped /\ BillingTyped'
    BY BillingTypesNext
  <1>2. Billed(id) \in Nat /\ Billed(id)' \in Nat
    BY <1>1 DEF BillingTyped, Billed
  <1>3. Total(ExpectedOn(id), Requests) \in Nat
    BY <1>1 DEF BillingTyped
  <1>4. Unconfirmed * Total(ServedOn(id), Requests) \in Nat
    BY <1>1 DEF BillingTyped
  <1>5. Billed(id) <= Unconfirmed * Total(ServedOn(id), Requests) + Total(ExpectedOn(id), Requests)
    BY DEF BillingInv
  <1> QED
    BY <1>2, <1>3, <1>4, <1>5

\* The usage line: the router may charge what the stream has served.
LEMMA LineKeepsBilling ==
    ASSUME NodeInv, NodeInv', BillingInv, NEW r \in Requests, SendUsageLine(r),
           config.routerMetering
    PROVE  BillingInv'
  <1> SUFFICES ASSUME NEW id \in ChainIds
               PROVE  (Billed(id) <= Unconfirmed * Total(ServedOn(id), Requests)
                                        + Total(ExpectedOn(id), Requests))'
    BY DEF BillingInv
  <1>1. /\ stream[r] = "streaming" /\ stream'[r] = "usageSent"
        /\ \A q \in Requests \ {r} : stream'[q] = stream[q]
        /\ routerSaw' = routerSaw \cup {r}
        /\ UNCHANGED <<ledger, mempool, link, served, config, lost, restarts>>
    BY DEF SendUsageLine, NodeInv, TypeOK, chainVars, troubles
  <1>2. BillingTyped /\ BillingTyped'
    BY BillingTypesNext
  <1>3. PICK d : d = IF link[r] = id THEN served[r] ELSE 0
    OBVIOUS
  <1>4. d \in Nat
    BY <1>3 DEF NodeInv, TypeOK
  <1>5. ServedOn(id)' = ServedOn(id) /\ SentOn(id)' = SentOn(id)
    BY <1>1 DEF ServedOn, SentOn
  <1>6. /\ ExpectedOn(id)[r] = 0 /\ ExpectedOn(id)'[r] = d
        /\ \A q \in Requests \ {r} : ExpectedOn(id)'[q] = ExpectedOn(id)[q]
    BY <1>1, <1>3 DEF ExpectedOn, Expected
  <1>7. /\ LinesOn(id)'[r] = d
        /\ \A q \in Requests \ {r} : LinesOn(id)'[q] = LinesOn(id)[q]
    BY <1>1, <1>3 DEF LinesOn
  <1>8. Total(ExpectedOn(id), Requests)' = Total(ExpectedOn(id), Requests) + d
    <2>1. /\ ExpectedOn(id) \in [Requests -> Nat] /\ ExpectedOn(id)' \in [Requests -> Nat]
          /\ ExpectedOn(id)'[r] = ExpectedOn(id)[r] + d
      BY <1>2, <1>4, <1>6 DEF BillingTyped
    <2> QED
      BY <1>4, <1>6, <2>1, TotalAdd, NodeAssumption
  <1>9. Total(LinesOn(id), Requests)' <= Total(LinesOn(id), Requests) + d
    <2>1. LinesOn(id) \in [Requests -> Nat] /\ LinesOn(id)' \in [Requests -> Nat]
      BY <1>2 DEF BillingTyped
    <2>2. Total(LinesOn(id)', Requests) + LinesOn(id)[r] = Total(LinesOn(id), Requests) + d
      BY <1>7, <2>1, TotalChange, NodeAssumption
    <2>3. /\ Total(LinesOn(id), Requests) \in Nat /\ Total(LinesOn(id), Requests)' \in Nat
          /\ LinesOn(id)[r] \in Nat
      BY <1>2, <2>1 DEF BillingTyped
    <2> QED
      BY <1>4, <2>2, <2>3
  <1>10. Billed(id)' <= Billed(id) + d
    BY <1>1, <1>2, <1>4, <1>5, <1>9 DEF Billed, BillingTyped
  <1> QED
    BY <1>1, <1>4, <1>5, <1>8, <1>10, BillingArithmetic DEF Unconfirmed

LEMMA StreamKeepsBilling ==
    ASSUME NodeInv, BillingInv, NEW r \in Requests, StreamStep(r)
    PROVE  BillingInv'
  <1>1. NodeInv' /\ StreamMove(r)
    BY StreamStepKeeps
  <1>2. CASE SendUsageLine(r) /\ config.routerMetering
    BY <1>1, <1>2, LineKeepsBilling
  <1>3. CASE ~(SendUsageLine(r) /\ config.routerMetering)
    <2>1. stream[r] # "ended" /\ UNCHANGED routerSaw
      BY <1>3 DEF StreamStep, Authenticate, LeaveEarly, OpenSession, RecordChunk, IssueReceipt,
                  SendUsageLine, Complete, BackendFails, Disconnect, EndStream
    <2>2. stream[r] = "usageSent" => stream'[r] = "ended" /\ served'[r] = served[r]
      BY DEF StreamStep, Authenticate, LeaveEarly, OpenSession, RecordChunk, IssueReceipt,
             SendUsageLine, Complete, BackendFails, Disconnect, EndStream, NodeInv, TypeOK
    <2> QED
      BY <1>1, <2>1, <2>2, StreamQuiet, QuietKeepsBilling
  <1> QED
    BY <1>2, <1>3

\* A report of the worker: what it may charge is what the clone had unreported.
LEMMA ReportKeepsBilling ==
    ASSUME NodeInv, NodeInv', BillingInv, NEW r \in Requests, NEW tx,
           tx = [kind |-> "recordUsage", request |-> r,
                 tokens |-> Unreported(worker.todo[r]), attempt |-> lost + restarts],
           worker.at = "next", worker.todo[r] # NoSession, NodeReports,
           Send(r, tx, "reporting")
    PROVE  BillingInv'
  <1> SUFFICES ASSUME NEW id \in ChainIds
               PROVE  (Billed(id) <= Unconfirmed * Total(ServedOn(id), Requests)
                                        + Total(ExpectedOn(id), Requests))'
    BY DEF BillingInv
  <1>1. /\ tx.kind = "recordUsage" /\ tx.request = r
        /\ tx.tokens = Unreported(worker.todo[r]) /\ tx.tokens \in Nat
    BY ReportIsTx
  <1>2. BillingTyped /\ BillingTyped'
    BY BillingTypesNext
  <1>3. /\ mempool' = mempool \cup {tx}
        /\ worker'.at = "reporting" /\ worker'.current = r /\ worker'.todo = worker.todo
        /\ UNCHANGED <<ledger, disk, stream, link, served, routerSaw, config, lost, restarts>>
    BY DEF Send, Busy, manager, streamVars, troubles
  <1>4. PICK d : d = IF link[r] = id THEN tx.tokens ELSE 0
    OBVIOUS
  <1>5. d \in Nat
    BY <1>1, <1>4
  <1>6. ServedOn(id)' = ServedOn(id) /\ LinesOn(id)' = LinesOn(id)
    BY <1>3 DEF ServedOn, LinesOn
  <1>7. /\ ExpectedOn(id)'[r] = ExpectedOn(id)[r] + d
        /\ \A q \in Requests \ {r} : ExpectedOn(id)'[q] = ExpectedOn(id)[q]
    <2>1. worker.current = NoRequest /\ NoRequest \notin Requests
      BY NodeAssumption DEF NodeInv, WorkerShape
    <2>2. /\ worker.todo[r].outputTokensSynced = disk[r].outputTokensSynced
          /\ disk[r] # NoSession
      BY <2>1, Candidate DEF NodeInv, CloneOK
    <2>3. Expected(r) = worker.todo[r].outputTokensSynced
      BY <2>1, <2>2 DEF Expected, NodeReports
    <2>4. Expected(r)' = worker.todo[r].tokensOutput
      BY <1>3 DEF Expected, NodeReports
    <2>5. Expected(r)' = Expected(r) + tx.tokens
      BY <1>1, <2>3, <2>4, Candidate DEF Unreported, Session
    <2>6. \A q \in Requests \ {r} : Expected(q)' = Expected(q)
      BY <1>3, <2>1 DEF Expected
    <2> QED
      BY <1>3, <1>4, <2>5, <2>6 DEF ExpectedOn
  <1>8. Total(ExpectedOn(id), Requests)' = Total(ExpectedOn(id), Requests) + d
    <2>1. ExpectedOn(id) \in [Requests -> Nat] /\ ExpectedOn(id)' \in [Requests -> Nat]
      BY <1>2 DEF BillingTyped
    <2> QED
      BY <1>5, <1>7, <2>1, TotalAdd, NodeAssumption
  <1>9. Total(SentOn(id), mempool)' <= Total(SentOn(id), mempool) + d
    <2>1. CASE tx \in mempool
      <3>1. mempool' = mempool
        BY <1>3, <2>1
      <3>2. SentOn(id)' = SentOn(id)
        BY <1>3, <3>1 DEF SentOn
      <3> QED
        BY <1>2, <1>5, <3>1, <3>2 DEF BillingTyped
    <2>2. CASE tx \notin mempool
      <3>1. SentOn(id)'[tx] = d /\ \A y \in mempool : SentOn(id)'[y] = SentOn(id)[y]
        BY <1>1, <1>3, <1>4 DEF SentOn
      <3>2. /\ SentOn(id) \in [mempool -> Nat] /\ SentOn(id)' \in [mempool \cup {tx} -> Nat]
            /\ IsFiniteSet(mempool)
        BY <1>2, <1>3 DEF BillingTyped
      <3>3. Total(SentOn(id)', mempool \cup {tx}) = Total(SentOn(id), mempool) + d
        BY <2>2, <3>1, <3>2, TotalInsert
      <3> QED
        BY <1>2, <1>3, <1>5, <3>3 DEF BillingTyped
    <2> QED
      BY <2>1, <2>2
  <1>10. Billed(id)' <= Billed(id) + d
    <2>1. /\ Total(SentOn(id), mempool) \in Nat /\ Total(SentOn(id), mempool)' \in Nat
          /\ Total(LinesOn(id), Requests) \in Nat /\ ledger[id].usage \in Nat
      BY <1>2 DEF BillingTyped
    <2>2. /\ Total(LinesOn(id), Requests)' = Total(LinesOn(id), Requests)
          /\ ledger'[id].usage = ledger[id].usage
      BY <1>3, <1>6
    <2> QED
      BY <1>5, <1>9, <2>1, <2>2 DEF Billed
  <1> QED
    BY <1>3, <1>5, <1>6, <1>8, <1>10, BillingArithmetic DEF Unconfirmed

\* A settle charges nothing.
LEMMA SettleKeepsBilling ==
    ASSUME NodeInv, NodeInv', BillingInv, NEW r \in Requests, NEW tx,
           tx.kind = "settleByOperator", worker.at = "refresh", Send(r, tx, "settling")
    PROVE  BillingInv'
  <1> SUFFICES ASSUME NEW id \in ChainIds
               PROVE  (Billed(id) <= Unconfirmed * Total(ServedOn(id), Requests)
                                        + Total(ExpectedOn(id), Requests))'
    BY DEF BillingInv
  <1>1. BillingTyped /\ BillingTyped'
    BY BillingTypesNext
  <1>2. /\ mempool' = mempool \cup {tx}
        /\ worker'.at = "settling"
        /\ UNCHANGED <<ledger, disk, stream, link, served, routerSaw, config, lost, restarts>>
    BY DEF Send, Busy, manager, streamVars, troubles
  <1>3. ServedOn(id)' = ServedOn(id) /\ LinesOn(id)' = LinesOn(id)
    BY <1>2 DEF ServedOn, LinesOn
  <1>4. ExpectedOn(id)' = ExpectedOn(id)
    BY <1>2 DEF ExpectedOn, Expected
  <1>5. Total(SentOn(id), mempool)' = Total(SentOn(id), mempool)
    <2>1. CASE tx \in mempool
      <3>1. mempool' = mempool
        BY <1>2, <2>1
      <3> QED
        BY <1>2, <3>1 DEF SentOn
    <2>2. CASE tx \notin mempool
      <3>1. SentOn(id)'[tx] = 0 /\ \A y \in mempool : SentOn(id)'[y] = SentOn(id)[y]
        BY <1>2 DEF SentOn
      <3>2. /\ SentOn(id) \in [mempool -> Nat] /\ SentOn(id)' \in [mempool \cup {tx} -> Nat]
            /\ IsFiniteSet(mempool) /\ Total(SentOn(id), mempool) \in Nat
        BY <1>1, <1>2 DEF BillingTyped
      <3>3. Total(SentOn(id)', mempool \cup {tx}) = Total(SentOn(id), mempool) + 0
        BY <2>2, <3>1, <3>2, TotalInsert
      <3> QED
        BY <1>2, <3>2, <3>3
    <2> QED
      BY <2>1, <2>2
  <1>6. Billed(id)' = Billed(id) /\ Billed(id) \in Nat
    BY <1>1, <1>2, <1>3, <1>5 DEF Billed, BillingTyped
  <1>7. /\ Billed(id)' <= Billed(id) + 0
        /\ Total(ExpectedOn(id), Requests)' = Total(ExpectedOn(id), Requests) + 0
    BY <1>1, <1>4, <1>6 DEF BillingTyped
  <1> QED
    BY <1>2, <1>3, <1>7, BillingArithmetic DEF Unconfirmed

\* A step of the worker that neither reports nor loses a confirmation.
LEMMA WorkerQuiet ==
    ASSUME NodeInv, NodeInv', NEW r \in Requests, Handles(r),
           UNCHANGED <<ledger, mempool, streamVars, routerSaw, config, lost, restarts>>,
           \A q \in Requests \ {r} : disk'[q] = disk[q],
           worker'.at # "reporting",
           disk[r] # NoSession => disk'[r] # NoSession,
           disk[r] # NoSession /\ NodeReports =>
               disk'[r].outputTokensSynced =
                   (IF worker.at = "reporting" THEN worker.todo[r].tokensOutput
                    ELSE disk[r].outputTokensSynced),
           worker.at = "reporting" => worker.current = r /\ disk[r] # NoSession
    PROVE  BillingQuiet
  <1>1. UNCHANGED <<stream, link, served, config>>
    BY DEF streamVars
  <1>2. ASSUME NEW q \in Requests PROVE Expected(q) <= Expected(q)'
    <2>1. Expected(q) \in Nat /\ Expected(q)' \in Nat
      BY BillingTypesNext DEF ExpectedBounded
    <2>2. CASE q # r
      <3>1. worker.current # q
        BY <2>2, NodeAssumption DEF Handles
      <3>2. Expected(q)' = Expected(q)
        BY <1>1, <2>2, <3>1 DEF Expected
      <3> QED
        BY <2>1, <3>2
    <2>3. CASE q = r
      <3>1. Expected(r)' = Expected(r) \/ Expected(r) = 0
        BY <1>1 DEF Expected, NodeReports
      <3> QED
        BY <2>1, <2>3, <3>1
    <2> QED
      BY <2>2, <2>3
  <1>3. \A q \in Requests : served[q] <= served'[q]
    BY <1>1 DEF NodeInv, TypeOK
  <1> QED
    BY <1>1, <1>2, <1>3 DEF BillingQuiet

\* The first and the second read, when nothing is reported.
LEMMA CloseQuiet ==
    ASSUME NodeInv, NEW r \in Requests, Close(r, "Settled")
    PROVE  /\ \A q \in Requests \ {r} : disk'[q] = disk[q]
           /\ disk[r] # NoSession =>
                  disk'[r] # NoSession
                  /\ disk'[r].outputTokensSynced = disk[r].outputTokensSynced
  <1>1. CASE sessions[r] = NoSession
    BY <1>1 DEF Close, manager
  <1>2. CASE sessions[r] # NoSession
    <2>1. sessions[r] \in Session /\ disk[r] = sessions[r]
      BY <1>2 DEF NodeInv, TypeOK, RequestOK
    <2> DEFINE s == [sessions[r] EXCEPT !.state = "Settled"]
    <2>2. s \in Session /\ s.outputTokensSynced = sessions[r].outputTokensSynced
      BY <2>1 DEF Session, SessionState
    <2>3. disk' = [disk EXCEPT ![r] = s]
      BY <1>2 DEF Close, Save
    <2> HIDE DEF s
    <2>4. disk'[r] = s /\ \A q \in Requests \ {r} : disk'[q] = disk[q]
      BY <2>3 DEF NodeInv, TypeOK
    <2> QED
      BY <2>1, <2>2, <2>4, NothingAssumption
  <1> QED
    BY <1>1, <1>2

LEMMA NextNotReporting ==
    ASSUME NEW r \in Requests, NextCandidate(r)
    PROVE  worker'.at = "next"
  BY DEF NextCandidate, AtNext

LEMMA MarkSettledQuiet ==
    ASSUME NodeInv, NodeInv', NEW r \in Requests, Handles(r), worker.at # "reporting",
           MarkSettled(r)
    PROVE  BillingQuiet
  <1>1. /\ Close(r, "Settled") /\ NextCandidate(r)
        /\ UNCHANGED <<ledger, mempool, streamVars, routerSaw, config, lost, restarts>>
    BY DEF MarkSettled, chainVars, troubles
  <1> QED
    BY <1>1, CloseQuiet, NextNotReporting, WorkerQuiet

LEMMA NothingQuiet ==
    ASSUME NodeInv, NodeInv', NEW r \in Requests, Handles(r), worker.at # "reporting",
           worker'.at # "reporting",
           UNCHANGED <<ledger, mempool, manager, streamVars, routerSaw, config, lost, restarts>>
    PROVE  BillingQuiet
  <1>1. disk' = disk
    BY DEF manager
  <1> QED
    BY <1>1, WorkerQuiet

LEMMA WorkerKeepsBilling ==
    ASSUME NodeInv, BillingInv, NEW r \in Requests, WorkerStep(r) \/ GiveUp(r)
    PROVE  BillingInv'
  <1>1. NodeInv'
    BY WorkerStepKeeps
  <1>2. CASE Inspect(r)
    <2>1. worker.at = "next" /\ worker.todo[r] # NoSession /\ Handles(r)
      BY <1>2, HandlesNext DEF Inspect
    <2>2. CASE MarkSettled(r)
      BY <1>1, <2>1, <2>2, MarkSettledQuiet, QuietKeepsBilling
    <2> DEFINE tx == [kind |-> "recordUsage", request |-> r,
                      tokens |-> Unreported(worker.todo[r]), attempt |-> lost + restarts]
    <2>3. CASE NodeReports /\ Send(r, tx, "reporting")
      BY <1>1, <2>1, <2>3, ReportKeepsBilling
    <2>4. CASE /\ worker' = Busy("refresh", r, NoTx)
               /\ UNCHANGED <<chainVars, manager, streamVars, routerSaw, troubles, config>>
      BY <1>1, <2>1, <2>4, NothingQuiet, QuietKeepsBilling DEF Busy, chainVars, troubles
    <2> QED
      BY <1>2, <2>2, <2>3, <2>4 DEF Inspect
  <1>3. CASE ConfirmUsage(r)
    <2>1. /\ worker.at = "reporting" /\ worker.current = r
          /\ Handles(r) /\ worker.todo[r] # NoSession
      BY <1>3, HandlesCurrent DEF ConfirmUsage, InHand
    <2>2. /\ sessions[r] \in Session /\ sessions[r] # NoSession /\ disk[r] = sessions[r]
          /\ worker.todo[r] \in Session
      BY <2>1, Candidate
    <2> DEFINE s == [sessions[r] EXCEPT !.outputTokensSynced = worker.todo[r].tokensOutput]
    <2>3. s \in Session /\ s.outputTokensSynced = worker.todo[r].tokensOutput
      BY <2>2 DEF Session
    <2>4. disk' = [disk EXCEPT ![r] = s]
      BY <1>3, <2>2 DEF ConfirmUsage, UpdateTokensSynced, Save
    <2> HIDE DEF s
    <2>5. disk'[r] = s /\ \A q \in Requests \ {r} : disk'[q] = disk[q]
      BY <2>4 DEF NodeInv, TypeOK
    <2>6. /\ worker'.at = "refresh"
          /\ UNCHANGED <<ledger, mempool, streamVars, routerSaw, config, lost, restarts>>
      BY <1>3 DEF ConfirmUsage, Busy, chainVars, troubles
    <2>7. disk'[r] # NoSession
      BY <2>3, <2>5, NothingAssumption
    <2> QED
      BY <1>1, <2>1, <2>2, <2>3, <2>5, <2>6, <2>7, WorkerQuiet, QuietKeepsBilling
  <1>4. CASE Refresh(r)
    <2>1. worker.at = "refresh" /\ Handles(r)
      BY <1>4, RefreshCases, HandlesCurrent DEF InHand
    <2>2. CASE MarkSettled(r)
      BY <1>1, <2>1, <2>2, MarkSettledQuiet, QuietKeepsBilling
    <2>3. CASE /\ NextCandidate(r)
               /\ UNCHANGED <<chainVars, manager, streamVars, routerSaw, troubles, config>>
      BY <1>1, <2>1, <2>3, NothingQuiet, NextNotReporting, QuietKeepsBilling DEF chainVars, troubles
    <2>4. CASE Send(r, SettleTx(r), "settling")
      <3>1. SettleTx(r).kind = "settleByOperator"
        BY DEF SettleTx
      <3> QED
        BY <1>1, <2>1, <2>4, <3>1, SettleKeepsBilling
    <2> QED
      BY <1>4, <2>2, <2>3, <2>4, RefreshCases
  <1>5. CASE ConfirmSettle(r)
    <2>1. worker.at = "settling" /\ Handles(r) /\ worker.todo[r] # NoSession
      BY <1>5, HandlesCurrent DEF ConfirmSettle, InHand
    <2>2. /\ sessions[r] \in Session /\ sessions[r] # NoSession /\ disk[r] = sessions[r]
          /\ worker.todo[r] \in Session
      BY <2>1, Candidate
    <2>3. /\ NextCandidate(r)
          /\ UNCHANGED <<ledger, mempool, streamVars, routerSaw, config, lost, restarts>>
      BY <1>5 DEF ConfirmSettle, chainVars, troubles
    <2>4. CASE Close(r, "Settled")
      BY <1>1, <2>1, <2>3, <2>4, CloseQuiet, NextNotReporting, WorkerQuiet, QuietKeepsBilling
    <2>5. CASE UpdateTeeAnchorTokens(r, worker.todo[r].tokensOutput)
      <3> DEFINE s == [sessions[r] EXCEPT !.teeAnchorTokens = worker.todo[r].tokensOutput]
      <3>1. s \in Session /\ s.outputTokensSynced = sessions[r].outputTokensSynced
        BY <2>2 DEF Session
      <3>2. disk' = [disk EXCEPT ![r] = s]
        BY <2>2, <2>5 DEF UpdateTeeAnchorTokens, Save
      <3> HIDE DEF s
      <3>3. disk'[r] = s /\ \A q \in Requests \ {r} : disk'[q] = disk[q]
        BY <3>2 DEF NodeInv, TypeOK
      <3>4. disk'[r] # NoSession
        BY <3>1, <3>3, NothingAssumption
      <3> QED
        BY <1>1, <2>1, <2>2, <2>3, <3>1, <3>3, <3>4, NextNotReporting, WorkerQuiet,
           QuietKeepsBilling
    <2> QED
      BY <1>5, <2>4, <2>5 DEF ConfirmSettle
  <1>6. CASE GiveUp(r)
    <2>1. Handles(r) /\ worker.at # "reporting"
      BY <1>6, HandlesNext, HandlesCurrent DEF GiveUp, InHand
    <2> QED
      BY <1>1, <1>6, <2>1, NothingQuiet, NextNotReporting, QuietKeepsBilling
         DEF GiveUp, chainVars, troubles
  <1> QED
    BY <1>2, <1>3, <1>4, <1>5, <1>6 DEF WorkerStep

\* A lost confirmation, or a restart, may make the node report again what it has
\* reported; everything served once more pays for it.
LEMMA TroubleKeepsBilling ==
    ASSUME NodeInv, NodeInv', BillingInv, Unconfirmed' = Unconfirmed + 1,
           UNCHANGED <<ledger, mempool, link, served, routerSaw>>
    PROVE  BillingInv'
  <1> SUFFICES ASSUME NEW id \in ChainIds
               PROVE  (Billed(id) <= Unconfirmed * Total(ServedOn(id), Requests)
                                        + Total(ExpectedOn(id), Requests))'
    BY DEF BillingInv
  <1>1. BillingTyped /\ BillingTyped'
    BY BillingTypesNext
  <1>2. /\ ServedOn(id)' = ServedOn(id) /\ LinesOn(id)' = LinesOn(id)
        /\ SentOn(id)' = SentOn(id)
    BY DEF ServedOn, LinesOn, SentOn
  <1>3. Billed(id)' = Billed(id) /\ Billed(id) \in Nat
    BY <1>1, <1>2 DEF Billed, BillingTyped
  <1>4. PICK S : S = Total(ServedOn(id), Requests)
    OBVIOUS
  <1>5. /\ S \in Nat /\ Total(ServedOn(id), Requests)' = S
        /\ Total(ExpectedOn(id), Requests) <= S
        /\ Total(ExpectedOn(id), Requests) \in Nat /\ Total(ExpectedOn(id), Requests)' \in Nat
        /\ Unconfirmed \in Nat
    BY <1>1, <1>2, <1>4 DEF BillingTyped
  <1>6. Billed(id) <= Unconfirmed * S + Total(ExpectedOn(id), Requests)
    BY <1>4 DEF BillingInv
  <1>7. (1 + Unconfirmed) * S = S + Unconfirmed * S /\ Unconfirmed * S \in Nat
    BY <1>5, TimesMono
  <1>8. Unconfirmed' = 1 + Unconfirmed
    BY <1>5
  <1>9. Billed(id)' <= (1 + Unconfirmed) * S + Total(ExpectedOn(id), Requests)'
    BY <1>3, <1>5, <1>6, <1>7
  <1> QED
    BY <1>5, <1>8, <1>9

\* A mined report moves from the reports in flight to the charge, or is dropped.
LEMMA MineKeepsBilling ==
    ASSUME NodeInv, BillingInv, NEW tx \in mempool, Mine(tx)
    PROVE  BillingInv'
  <1> SUFFICES ASSUME NEW id \in ChainIds
               PROVE  (Billed(id) <= Unconfirmed * Total(ServedOn(id), Requests)
                                        + Total(ExpectedOn(id), Requests))'
    BY DEF BillingInv
  <1>1. NodeInv'
    BY MineKeeps
  <1>2. BillingTyped /\ BillingTyped'
    BY <1>1, BillingTypesNext
  <1>3. /\ mempool' = mempool \ {tx}
        /\ UNCHANGED <<worker, disk, stream, link, served, routerSaw, config, lost, restarts>>
    BY DEF Mine, manager, streamVars, troubles
  <1>4. ServedOn(id)' = ServedOn(id) /\ LinesOn(id)' = LinesOn(id)
    BY <1>3 DEF ServedOn, LinesOn
  <1>5. ExpectedOn(id)' = ExpectedOn(id)
    BY <1>3 DEF ExpectedOn, Expected
  <1>6. PICK d : d = SentOn(id)[tx]
    OBVIOUS
  <1>7. Total(SentOn(id), mempool) = Total(SentOn(id), mempool)' + d
    <2>1. \A y \in mempool \ {tx} : SentOn(id)[y] = SentOn(id)'[y]
      BY <1>3 DEF SentOn
    <2>2. /\ SentOn(id)' \in [mempool \ {tx} -> Nat]
          /\ SentOn(id) \in [(mempool \ {tx}) \cup {tx} -> Nat]
          /\ IsFiniteSet(mempool \ {tx})
          /\ (mempool \ {tx}) \cup {tx} = mempool
      <3>1. (mempool \ {tx}) \cup {tx} = mempool
        OBVIOUS
      <3> QED
        BY <1>2, <1>3, <3>1 DEF BillingTyped
    <2>3. Total(SentOn(id), (mempool \ {tx}) \cup {tx})
              = Total(SentOn(id)', mempool \ {tx}) + SentOn(id)[tx]
      BY <2>1, <2>2, TotalInsert
    <2> QED
      BY <1>3, <1>6, <2>2, <2>3
  <1>8. ledger'[id].usage <= ledger[id].usage + d
    <2>1. d \in Nat /\ ledger[id].usage \in Nat
      BY <1>2, <1>6 DEF BillingTyped
    <2>2. CASE ledger'[id].usage = ledger[id].usage
      BY <2>1, <2>2
    <2>3. CASE link[tx.request] = id /\ tx.kind = "recordUsage" /\ Report(id, tx.tokens)
      <3>1. d = tx.tokens
        BY <1>6, <2>3 DEF SentOn
      <3>2. ledger'[id].usage = ledger[id].usage + tx.tokens
        BY <2>3, ReportKeeps, Linked
      <3> QED
        BY <2>1, <3>1, <3>2
    <2>4. CASE link[tx.request] = id /\ tx.kind = "settleByOperator"
                 /\ Release(id, tx.toProvider, tx.toUser)
      <3>1. ledger'[id] = Released(ledger[id], tx.toProvider, tx.toUser)
        BY <2>4, ReleaseKeeps, Linked
      <3> QED
        BY <2>2, <3>1 DEF Released
    <2> QED
      BY <2>2, <2>3, <2>4, MineCases
  <1>9. Billed(id)' <= Billed(id) + 0
    <2>1. /\ Total(SentOn(id), mempool)' \in Nat /\ d \in Nat
          /\ Total(LinesOn(id), Requests) \in Nat
          /\ ledger[id].usage \in Nat /\ ledger'[id].usage \in Nat
      BY <1>2, <1>6 DEF BillingTyped
    <2>2. Total(LinesOn(id), Requests)' = Total(LinesOn(id), Requests)
      BY <1>4
    <2> QED
      BY <1>7, <1>8, <2>1, <2>2 DEF Billed
  <1>10. Total(ExpectedOn(id), Requests)' = Total(ExpectedOn(id), Requests) + 0
    BY <1>2, <1>5 DEF BillingTyped
  <1> QED
    BY <1>1, <1>3, <1>4, <1>9, <1>10, BillingArithmetic DEF Unconfirmed

\* The router's report moves from the usage lines to the charge, or is dropped.
LEMMA RouterKeepsBilling ==
    ASSUME NodeInv, BillingInv, NEW r \in Requests, RouterReports(r)
    PROVE  BillingInv'
  <1> SUFFICES ASSUME NEW id \in ChainIds
               PROVE  (Billed(id) <= Unconfirmed * Total(ServedOn(id), Requests)
                                        + Total(ExpectedOn(id), Requests))'
    BY DEF BillingInv
  <1>1. NodeInv'
    BY RouterReportsKeeps
  <1>2. BillingTyped /\ BillingTyped'
    BY <1>1, BillingTypesNext
  <1>3. /\ r \in routerSaw /\ routerSaw' = routerSaw \ {r}
        /\ UNCHANGED <<mempool, worker, disk, stream, link, served, config, lost, restarts>>
    BY DEF RouterReports, manager, streamVars, troubles
  <1>4. ServedOn(id)' = ServedOn(id) /\ SentOn(id)' = SentOn(id)
    BY <1>3 DEF ServedOn, SentOn
  <1>5. ExpectedOn(id)' = ExpectedOn(id)
    BY <1>3 DEF ExpectedOn, Expected
  <1>6. PICK d : d = LinesOn(id)[r]
    OBVIOUS
  <1>7. Total(LinesOn(id), Requests) = Total(LinesOn(id), Requests)' + d
    <2>1. /\ LinesOn(id)'[r] = 0
          /\ \A q \in Requests \ {r} : LinesOn(id)'[q] = LinesOn(id)[q]
      BY <1>3 DEF LinesOn
    <2>2. /\ LinesOn(id) \in [Requests -> Nat] /\ LinesOn(id)' \in [Requests -> Nat]
          /\ Total(LinesOn(id), Requests) \in Nat /\ Total(LinesOn(id), Requests)' \in Nat
      BY <1>2 DEF BillingTyped
    <2>3. Total(LinesOn(id)', Requests) + LinesOn(id)[r]
              = Total(LinesOn(id), Requests) + LinesOn(id)'[r]
      BY <2>1, <2>2, TotalChange, NodeAssumption
    <2> QED
      BY <1>6, <2>1, <2>2, <2>3
  <1>8. ledger'[id].usage <= ledger[id].usage + d
    <2>1. d \in Nat /\ ledger[id].usage \in Nat
      BY <1>2, <1>6 DEF BillingTyped
    <2>2. CASE ledger'[id] = ledger[id]
      BY <2>1, <2>2
    <2>3. CASE link[r] = id /\ Report(id, served[r])
      <3>1. d = served[r]
        BY <1>3, <1>6, <2>3 DEF LinesOn
      <3>2. ledger'[id].usage = ledger[id].usage + served[r]
        BY <1>3, <2>3, ReportKeeps, Linked
      <3> QED
        BY <2>1, <3>1, <3>2
    <2>4. link[r] \in ChainIds /\ served[r] \in Nat
      BY <1>3, Linked
    <2>5. CASE link[r] # id /\ Report(link[r], served[r])
      BY <2>2, <2>4, <2>5, ReportKeeps
    <2> QED
      BY <2>2, <2>3, <2>5 DEF RouterReports
  <1>9. Billed(id)' <= Billed(id) + 0
    <2>1. /\ Total(LinesOn(id), Requests)' \in Nat /\ d \in Nat
          /\ Total(SentOn(id), mempool) \in Nat
          /\ ledger[id].usage \in Nat /\ ledger'[id].usage \in Nat
      BY <1>2, <1>6 DEF BillingTyped
    <2>2. Total(SentOn(id), mempool)' = Total(SentOn(id), mempool)
      BY <1>3, <1>4
    <2> QED
      BY <1>7, <1>8, <2>1, <2>2 DEF Billed
  <1>10. Total(ExpectedOn(id), Requests)' = Total(ExpectedOn(id), Requests) + 0
    BY <1>2, <1>5 DEF BillingTyped
  <1> QED
    BY <1>1, <1>3, <1>4, <1>9, <1>10, BillingArithmetic DEF Unconfirmed

\* Steps that touch neither usage, transactions nor requests.
LEMMA OtherKeepsBilling ==
    ASSUME NodeInv, NodeInv', BillingInv,
           UNCHANGED <<mempool, manager, streamVars, routerSaw, config, lost, restarts>>,
           \A id \in ChainIds : ledger'[id].usage = ledger[id].usage,
           worker' = worker \/ (worker.at # "reporting" /\ worker'.at # "reporting")
    PROVE  BillingInv'
  <1>1. UNCHANGED <<disk, stream, link, served>>
    BY DEF manager, streamVars
  <1>2. \A q \in Requests : Expected(q)' = Expected(q)
    BY <1>1 DEF Expected
  <1>3. \A q \in Requests : Expected(q) <= Expected(q)' /\ served[q] <= served'[q]
    BY <1>1, <1>2, BillingTypesNext DEF ExpectedBounded
  <1> QED
    BY <1>1, <1>3, QuietKeepsBilling DEF BillingQuiet

LEMMA UserKeepsBilling ==
    ASSUME NodeInv, BillingInv, UserStep
    PROVE  BillingInv'
  <1>1. NodeInv'
    BY UserStepKeeps
  <1>2. UNCHANGED <<mempool, manager, streamVars, routerSaw, config, lost, restarts>> /\ worker' = worker
    BY DEF UserStep, UserOpens, UserSettles, troubles
  <1>3. \A i \in ChainIds : ledger'[i].usage = ledger[i].usage
    <2>1. ASSUME NEW id \in ChainIds, NEW amount \in Deposits, UserOpens(id, amount)
          PROVE  \A i \in ChainIds : ledger'[i].usage = ledger[i].usage
      <3>1. ledger[id] = NoEntry
        BY <2>1 DEF UserOpens, Open, NodeInv, LedgerBooks, EntryOK
      <3>2. ledger'[id] = Opened(amount) /\ \A i \in ChainIds \ {id} : ledger'[i] = ledger[i]
        BY <2>1, OpenKeeps DEF UserOpens
      <3> QED
        BY <3>1, <3>2 DEF NoEntry, Opened
    <2>2. ASSUME NEW id \in ChainIds, NEW p \in 0..ledger[id].locked,
                 NEW u \in 0..ledger[id].locked, UserSettles(id, p, u)
          PROVE  \A i \in ChainIds : ledger'[i].usage = ledger[i].usage
      <3>1. ledger[id].locked \in Nat
        BY DEF NodeInv, TypeOK, LedgerTypeOK, Entry
      <3>2. p \in Nat /\ u \in Nat
        BY <3>1
      <3>3. /\ ledger'[id] = Released(ledger[id], p, u)
            /\ \A i \in ChainIds \ {id} : ledger'[i] = ledger[i]
        BY <2>2, <3>2, ReleaseKeeps DEF UserSettles
      <3> QED
        BY <3>3 DEF Released
    <2> QED
      BY <2>1, <2>2 DEF UserStep
  <1> QED
    BY <1>1, <1>2, <1>3, OtherKeepsBilling

LEMMA BillingInit ==
    Init => BillingInv
  <1> SUFFICES ASSUME Init, NEW id \in ChainIds
               PROVE  Billed(id) <= Unconfirmed * Total(ServedOn(id), Requests)
                                       + Total(ExpectedOn(id), Requests)
    BY DEF BillingInv
  <1>1. BillingTyped
    BY NodeInvInit, BillingTypes
  <1>2. \A tx \in mempool : SentOn(id)[tx] = 0
    BY DEF Init
  <1>3. \A r \in Requests : LinesOn(id)[r] = 0
    BY DEF Init, LinesOn
  <1>4. ledger[id].usage = 0
    BY DEF Init, LedgerInit, NoEntry
  <1>5. Total(SentOn(id), mempool) = 0 /\ Total(LinesOn(id), Requests) = 0
    BY <1>2, <1>3, TotalZero
  <1>6. /\ Unconfirmed * Total(ServedOn(id), Requests) \in Nat
        /\ Total(ExpectedOn(id), Requests) \in Nat
    BY <1>1 DEF BillingTyped
  <1> QED
    BY <1>4, <1>5, <1>6 DEF Billed

LEMMA BillingNext ==
    NodeInv /\ BillingInv /\ [Next]_vars => BillingInv'
  <1> SUFFICES ASSUME NodeInv, BillingInv, [Next]_vars PROVE BillingInv'
    OBVIOUS
  <1>0. NodeInv'
    BY NodeInvNext
  <1>1. CASE UserStep
    BY <1>1, UserKeepsBilling
  <1>2. ASSUME NEW r \in Requests, StreamStep(r) PROVE BillingInv'
    BY <1>2, StreamKeepsBilling
  <1>3. ASSUME NEW r \in Requests, WorkerStep(r) \/ GiveUp(r) PROVE BillingInv'
    BY <1>3, WorkerKeepsBilling
  <1>4. ASSUME NEW r \in Requests, LoseConfirmation(r) PROVE BillingInv'
    <2>1. UNCHANGED <<ledger, mempool, link, served, routerSaw>>
      BY <1>4 DEF LoseConfirmation, chainVars, streamVars
    <2>2. Unconfirmed' = Unconfirmed + 1
      BY <1>4 DEF LoseConfirmation, Unconfirmed, NodeInv, TypeOK
    <2> QED
      BY <1>0, <2>1, <2>2, TroubleKeepsBilling
  <1>5. ASSUME NEW r \in Requests, RouterReports(r) PROVE BillingInv'
    BY <1>5, RouterKeepsBilling
  <1>6. CASE \E tee, epoch, gateOpen \in BOOLEAN : Tick(tee, epoch, gateOpen)
    <2>1. /\ UNCHANGED <<mempool, manager, streamVars, routerSaw, config, lost, restarts>>
          /\ ledger' = ledger
          /\ worker.at = "asleep" /\ worker'.at = "next"
      BY <1>6 DEF Tick, AtNext, chainVars, troubles
    <2> QED
      BY <1>0, <2>1, OtherKeepsBilling
  <1>7. CASE StartEpochPass \/ Sleep
    <2>1. /\ UNCHANGED <<mempool, manager, streamVars, routerSaw, config, lost, restarts>>
          /\ ledger' = ledger
          /\ worker.at = "next" /\ worker'.at \in {"next", "asleep"}
      BY <1>7 DEF StartEpochPass, Sleep, AtNext, Asleep, chainVars, troubles
    <2> QED
      BY <1>0, <2>1, OtherKeepsBilling
  <1>8. ASSUME NEW tx \in mempool, Mine(tx) PROVE BillingInv'
    BY <1>8, MineKeepsBilling
  <1>9. CASE Restart
    <2>1. UNCHANGED <<ledger, mempool, link, served, routerSaw>>
      BY <1>9 DEF Restart, chainVars
    <2>2. Unconfirmed' = Unconfirmed + 1
      BY <1>9 DEF Restart, Unconfirmed, NodeInv, TypeOK
    <2> QED
      BY <1>0, <2>1, <2>2, TroubleKeepsBilling
  <1>10. CASE UNCHANGED vars
    <2>1. /\ UNCHANGED <<mempool, manager, streamVars, routerSaw, config, lost, restarts>>
          /\ ledger' = ledger /\ worker' = worker
      BY <1>10 DEF vars, chainVars, troubles
    <2> QED
      BY <1>0, <2>1, OtherKeepsBilling
  <1> QED
    BY <1>1, <1>2, <1>3, <1>4, <1>5, <1>6, <1>7, <1>8, <1>9, <1>10 DEF Next

LEMMA BillingImplies ==
    NodeInv /\ BillingInv => BillingBounded
  <1> SUFFICES ASSUME NodeInv, BillingInv, NEW id \in ChainIds
               PROVE  ledger[id].usage <= (1 + Unconfirmed) * Total(served, LinkedTo(id))
    BY DEF BillingBounded
  <1>1. BillingTyped
    BY BillingTypes
  <1>2. Total(served, LinkedTo(id)) = Total(ServedOn(id), Requests)
    <2>1. LinkedTo(id) \in SUBSET Requests
      BY DEF LinkedTo
    <2>2. \A r \in Requests :
              ServedOn(id)[r] = IF r \in LinkedTo(id) THEN served[r] ELSE 0
      BY DEF ServedOn, LinkedTo
    <2> QED
      BY <2>1, <2>2, TotalMask
  <1>3. PICK S : S = Total(ServedOn(id), Requests)
    OBVIOUS
  <1>4. /\ S \in Nat /\ Unconfirmed \in Nat /\ ledger[id].usage \in Nat
        /\ Total(SentOn(id), mempool) \in Nat /\ Total(LinesOn(id), Requests) \in Nat
        /\ Total(ExpectedOn(id), Requests) \in Nat /\ Total(ExpectedOn(id), Requests) <= S
    BY <1>1, <1>3 DEF BillingTyped
  <1>5. (1 + Unconfirmed) * S = S + Unconfirmed * S /\ Unconfirmed * S \in Nat
    BY <1>4, TimesMono
  <1>6. ledger[id].usage + Total(SentOn(id), mempool) + Total(LinesOn(id), Requests)
            <= Unconfirmed * S + Total(ExpectedOn(id), Requests)
    BY <1>3 DEF BillingInv, Billed
  <1> QED
    BY <1>2, <1>3, <1>4, <1>5, <1>6

\* However reports, late confirmations, restarts and the router's batches
\* interleave, an escrow session is charged for the tokens its streams produced
\* once, and once more at most for every lost confirmation or restart.
THEOREM BillingAlwaysBounded == Spec => []BillingBounded
  <1>1. Spec => [](NodeInv /\ BillingInv)
    BY NodeInvInit, NodeInvNext, BillingInit, BillingNext, PTL DEF Spec
  <1> QED
    BY <1>1, BillingImplies, PTL

-------------------------------------------------------------------------------
\* Settling: a session the node takes for settled is settled.

\* In the TEE tier, while no confirmation has been lost, the transaction the worker
\* waits for is the only one in flight.
OneInFlight ==
    config.tier # "BestEffort" => \A tx \in mempool : worker.tx = tx

\* The full settle the worker waits for has settled its session, or will.
SettleArrives ==
    (worker.at = "settling" /\ worker.tx.full) =>
        \/ ledger[link[worker.current]].status = "settled"
        \/ worker.tx \in mempool /\ Succeeds(worker.tx)

SettleInv == Uncontested => OneInFlight /\ SettleArrives /\ SettledOnChain

LEMMA NoTroubleBefore ==
    ASSUME NEW a \in Nat, NEW b \in Nat, NEW c \in Nat, NEW d \in Nat,
           c >= a, d >= b, c + d = 0
    PROVE  a + b = 0
  OBVIOUS

\* Troubles do not go away.
LEMMA UncontestedBefore ==
    ASSUME NodeInv, NodeInv', config' = config, Uncontested',
           lost' >= lost, restarts' >= restarts, userSettles' >= userSettles
    PROVE  Uncontested
  <1>1. /\ lost \in Nat /\ restarts \in Nat /\ userSettles \in Nat
        /\ lost' \in Nat /\ restarts' \in Nat /\ userSettles' \in Nat
    BY DEF NodeInv, TypeOK
  <1>2. userSettles' = 0 => userSettles = 0
    BY <1>1
  <1>3. lost' + restarts' = 0 => lost + restarts = 0
    BY <1>1, NoTroubleBefore
  <1> QED
    BY <1>2, <1>3 DEF Uncontested, Unconfirmed

MarkedSettled(r) == disk[r] # NoSession /\ disk[r].state = "Settled"

\* Settled sessions of the ledger stay settled, and only those are marked.
LEMMA SettledKept ==
    ASSUME NodeInv, NodeInv', SettledOnChain,
           \A id \in ChainIds : ledger[id].status = "settled" => ledger'[id].status = "settled",
           \A q \in Requests : MarkedSettled(q)' =>
               /\ link'[q] = link[q]
               /\ MarkedSettled(q) \/ (link[q] # NoLink /\ ledger'[link[q]].status = "settled")
    PROVE  SettledOnChain'
  <1> SUFFICES ASSUME NEW q \in Requests, MarkedSettled(q)'
               PROVE  (OnChain(q).status = "settled")'
    BY DEF SettledOnChain, MarkedSettled
  <1>1. CASE MarkedSettled(q)
    <2>1. OnChain(q).status = "settled"
      BY <1>1 DEF SettledOnChain, MarkedSettled
    <2>2. link[q] # NoLink
      BY <2>1 DEF OnChain, NoEntry
    <2>3. link[q] \in ChainIds /\ ledger[link[q]].status = "settled"
      BY <2>1, <2>2 DEF OnChain, NodeInv, TypeOK
    <2> QED
      BY <2>2, <2>3 DEF OnChain
  <1>2. CASE link[q] # NoLink /\ ledger'[link[q]].status = "settled"
    BY <1>2 DEF OnChain
  <1> QED
    BY <1>1, <1>2

\* A stream marks no session settled.
LEMMA StreamNotMarks ==
    ASSUME NodeInv, NEW r \in Requests, StreamStep(r), MarkedSettled(r)'
    PROVE  MarkedSettled(r) /\ link'[r] = link[r]
  <1>1. CASE UNCHANGED disk /\ UNCHANGED link
    BY <1>1 DEF MarkedSettled
  <1>2. ASSUME NEW id \in ChainIds, Authenticate(r, id) PROVE FALSE
    BY <1>2 DEF Authenticate, manager, NodeInv, RequestOK, MarkedSettled
  <1>3. CASE OpenSession(r)
    <2>1. disk'[r] = NewSession
      BY <1>3 DEF OpenSession, Save, NodeInv, TypeOK
    <2> QED
      BY <2>1 DEF NewSession, MarkedSettled
  <1>4. CASE RecordChunk(r)
    <2>1. sessions[r] \in Session /\ disk[r] = sessions[r] /\ disk[r] # NoSession
      BY <1>4, LiveSession DEF RecordChunk, Live
    <2>2. PICK n : disk'[r] = [sessions[r] EXCEPT !.tokensOutput = n]
      BY <1>4 DEF RecordChunk, Save, NodeInv, TypeOK
    <2>3. disk'[r].state = sessions[r].state
      BY <2>1, <2>2 DEF Session
    <2> QED
      BY <1>4, <2>1, <2>3 DEF RecordChunk, MarkedSettled
  <1>5. CASE IssueReceipt(r)
    <2>1. sessions[r] \in Session /\ disk[r] = sessions[r] /\ disk[r] # NoSession
      BY <1>5, LiveSession DEF IssueReceipt, Live
    <2>2. CASE UNCHANGED manager
      BY <1>1, <1>5, <2>2 DEF IssueReceipt, manager
    <2>3. CASE Save(r, [sessions[r] EXCEPT !.lastReceiptSeq = @ + 1])
      <3>1. disk'[r] = [sessions[r] EXCEPT !.lastReceiptSeq = @ + 1]
        BY <2>3 DEF Save, NodeInv, TypeOK
      <3>2. disk'[r].state = sessions[r].state
        BY <2>1, <3>1 DEF Session
      <3> QED
        BY <1>5, <2>1, <3>2 DEF IssueReceipt, MarkedSettled
    <2> QED
      BY <1>5, <2>2, <2>3 DEF IssueReceipt
  <1>6. CASE Complete(r) \/ BackendFails(r) \/ Disconnect(r)
    <2>1. sessions[r] \in Session /\ sessions[r] # NoSession
      BY <1>6, LiveSession DEF Complete, BackendFails, Disconnect, Live
    <2>2. PICK state \in {"Completed", "ProviderError", "ConsumerDisconnected"} : EndStream(r, state)
      BY <1>6 DEF Complete, BackendFails, Disconnect
    <2>3. disk'[r] = [sessions[r] EXCEPT !.state = state]
      BY <2>1, <2>2 DEF EndStream, Close, Save, NodeInv, TypeOK
    <2>4. disk'[r].state = state
      BY <2>1, <2>3 DEF Session
    <2> QED
      BY <2>4 DEF MarkedSettled
  <1>7. CASE LeaveEarly(r) \/ SendUsageLine(r)
    BY <1>1, <1>7 DEF LeaveEarly, SendUsageLine, manager
  <1> QED
    BY <1>2, <1>3, <1>4, <1>5, <1>6, <1>7 DEF StreamStep

LEMMA StreamKeepsSettle ==
    ASSUME NodeInv, SettleInv, NEW r \in Requests, StreamStep(r)
    PROVE  SettleInv'
  <1>1. NodeInv' /\ StreamMove(r)
    BY StreamStepKeeps
  <1>2. UNCHANGED <<ledger, mempool, worker, config, lost, restarts, userSettles>>
    BY <1>1 DEF StreamMove, chainVars, troubles
  <1> SUFFICES ASSUME Uncontested' PROVE (OneInFlight /\ SettleArrives /\ SettledOnChain)'
    BY DEF SettleInv
  <1>3. OneInFlight /\ SettleArrives /\ SettledOnChain
    BY <1>2 DEF SettleInv, Uncontested, Unconfirmed
  <1>4. OneInFlight'
    BY <1>2, <1>3 DEF OneInFlight
  <1>5. SettleArrives'
    <2> SUFFICES ASSUME worker.at = "settling", worker.tx.full PROVE SettleArrives'
      BY <1>2 DEF SettleArrives
    <2>1. /\ worker.current \in Requests /\ worker.todo[worker.current] # NoSession
          /\ worker.tx.request = worker.current
      BY DEF NodeInv, WorkerShape, InHand
    <2>2. link[worker.current] # NoLink
      BY <2>1, Candidate
    <2>3. link'[worker.current] = link[worker.current]
      BY <1>1, <2>1, <2>2 DEF StreamMove, Same
    <2> QED
      BY <1>2, <1>3, <2>1, <2>3 DEF SettleArrives, Succeeds, Reportable, Releasable
  <1>6. SettledOnChain'
    <2>1. ASSUME NEW q \in Requests, MarkedSettled(q)'
          PROVE  link'[q] = link[q] /\ MarkedSettled(q)
      <3>1. CASE q = r
        BY <2>1, <3>1, StreamNotMarks
      <3>2. CASE q # r
        BY <1>1, <2>1, <3>2 DEF StreamMove, Same, MarkedSettled
      <3> QED
        BY <3>1, <3>2
    <2> QED
      BY <1>1, <1>2, <1>3, <2>1, SettledKept
  <1> QED
    BY <1>4, <1>5, <1>6

\* The worker goes on without a transaction, having marked only what is settled.
LEMMA LetGoKeepsSettle ==
    ASSUME NodeInv, NodeInv', OneInFlight, SettledOnChain,
           UNCHANGED <<ledger, mempool, link, config>>,
           worker'.at # "settling", worker'.tx = NoTx,
           worker.tx = NoTx \/ worker.tx \notin mempool,
           \A q \in Requests : MarkedSettled(q)' =>
               MarkedSettled(q) \/ (link[q] # NoLink /\ ledger[link[q]].status = "settled")
    PROVE  (OneInFlight /\ SettleArrives /\ SettledOnChain)'
  <1>1. OneInFlight'
    BY DEF OneInFlight
  <1>2. SettleArrives'
    BY DEF SettleArrives
  <1>3. SettledOnChain'
    BY SettledKept
  <1> QED
    BY <1>1, <1>2, <1>3

\* The worker sends tx with nothing else of its own in flight.
LEMMA SendKeepsSettle ==
    ASSUME NodeInv, NodeInv', OneInFlight, SettledOnChain, NEW r \in Requests,
           NEW tx, NEW at, Send(r, tx, at), worker.tx = NoTx,
           at = "settling" /\ tx.full => tx.request = r /\ Succeeds(tx)
    PROVE  (OneInFlight /\ SettleArrives /\ SettledOnChain)'
  <1>1. /\ mempool' = mempool \cup {tx}
        /\ worker'.at = at /\ worker'.tx = tx /\ worker'.current = r
        /\ UNCHANGED <<ledger, link, config, disk>>
    BY DEF Send, Busy, streamVars, manager
  <1>2. OneInFlight'
    BY <1>1, NothingAssumption DEF OneInFlight, NodeInv, TypeOK
  <1>3. SettleArrives'
    BY <1>1 DEF SettleArrives, Succeeds, Reportable, Releasable
  <1>4. SettledOnChain'
    BY <1>1, SettledKept DEF MarkedSettled
  <1> QED
    BY <1>2, <1>3, <1>4

\* A settle is sent for what the chain has just answered, and so would succeed now.
LEMMA SettleSucceeds ==
    ASSUME NodeInv, NEW r \in Requests, worker.todo[r] # NoSession,
           ledger[link[r]].status = "open", ToProvider(r) + ToUser(r) > 0
    PROVE  Succeeds(SettleTx(r))
  <1>1. link[r] \in ChainIds
    BY Candidate
  <1>2. PICK e : e = ledger[link[r]]
    OBVIOUS
  <1>3. e \in Entry /\ EntryOK(e)
    BY <1>1, <1>2 DEF NodeInv, TypeOK, LedgerTypeOK, LedgerBooks
  <1>4. /\ Claim(e) \in Nat /\ Claim(e) <= e.locked /\ e.paid + Claim(e) <= e.usage
        /\ e.locked - Claim(e) \in Nat /\ e.locked \in Nat
    BY <1>3, ClaimBounds DEF Entry
  <1>5. PICK p, u : p = ToProvider(r) /\ u = ToUser(r)
    OBVIOUS
  <1>6. /\ p = Claim(e)
        /\ u = IF SettleFull(r) THEN e.locked - Claim(e) ELSE 0
    BY <1>2, <1>5 DEF ToProvider, ToUser
  <1>7. p + u <= e.locked /\ (SettleFull(r) => p + u = e.locked)
    BY <1>4, <1>6
  <1>8. Releasable(link[r], p, u)
    BY <1>2, <1>4, <1>5, <1>6, <1>7 DEF Releasable
  <1>9. PICK tx : tx = SettleTx(r)
    OBVIOUS
  <1>10. /\ tx.kind = "settleByOperator" /\ tx.request = r
         /\ tx.toProvider = p /\ tx.toUser = u /\ tx.full = SettleFull(r)
    BY <1>5, <1>9, SettleIsTx
  <1>11. Succeeds(tx)
    BY <1>2, <1>7, <1>8, <1>10 DEF Succeeds
  <1> QED
    BY <1>9, <1>11

LEMMA MarkSettledKeepsSettle ==
    ASSUME NodeInv, NodeInv', OneInFlight, SettledOnChain, NEW r \in Requests,
           worker.todo[r] # NoSession, worker.tx = NoTx \/ worker.tx \notin mempool,
           ledger[link[r]].status = "settled",
           Close(r, "Settled"), NextCandidate(r), UNCHANGED <<ledger, mempool, link, config>>
    PROVE  (OneInFlight /\ SettleArrives /\ SettledOnChain)'
  <1>1. worker'.at = "next" /\ worker'.tx = NoTx
    BY DEF NextCandidate, AtNext
  <1>2. link[r] # NoLink
    BY Candidate
  <1>3. ASSUME NEW q \in Requests, MarkedSettled(q)'
        PROVE  MarkedSettled(q) \/ (link[q] # NoLink /\ ledger[link[q]].status = "settled")
    BY <1>2, <1>3, CloseQuiet DEF MarkedSettled
  <1> QED
    BY <1>1, <1>3, LetGoKeepsSettle

LEMMA WorkerKeepsSettle ==
    ASSUME NodeInv, SettleInv, NEW r \in Requests, WorkerStep(r) \/ GiveUp(r)
    PROVE  SettleInv'
  <1>1. NodeInv'
    BY WorkerStepKeeps
  <1>2. UNCHANGED <<ledger, link, config, lost, restarts, userSettles>>
    BY DEF WorkerStep, Inspect, ConfirmUsage, Refresh, ConfirmSettle, GiveUp, MarkSettled, Send,
           chainVars, streamVars, troubles
  <1> SUFFICES ASSUME Uncontested' PROVE (OneInFlight /\ SettleArrives /\ SettledOnChain)'
    BY DEF SettleInv
  <1>3. OneInFlight /\ SettleArrives /\ SettledOnChain
    BY <1>2 DEF SettleInv, Uncontested, Unconfirmed
  <1>4. worker.at \in {"next", "refresh"} => worker.tx = NoTx
    BY DEF NodeInv, WorkerShape
  <1>5. CASE Inspect(r)
    <2>1. worker.at = "next" /\ worker.todo[r] # NoSession /\ worker.tx = NoTx
      BY <1>4, <1>5 DEF Inspect
    <2>2. CASE ledger[link[r]].status = "settled" /\ MarkSettled(r)
      BY <1>1, <1>2, <1>3, <2>1, <2>2, MarkSettledKeepsSettle DEF MarkSettled, chainVars
    <2>3. CASE \E tx : Send(r, tx, "reporting")
      BY <1>1, <1>3, <2>1, <2>3, SendKeepsSettle
    <2>4. CASE /\ worker' = Busy("refresh", r, NoTx)
               /\ UNCHANGED <<chainVars, manager, streamVars, routerSaw, troubles, config>>
      <3>1. worker'.at = "refresh" /\ worker'.tx = NoTx /\ UNCHANGED <<mempool, disk>>
        BY <2>4 DEF Busy, chainVars, manager
      <3> QED
        BY <1>1, <1>2, <1>3, <2>1, <3>1, LetGoKeepsSettle DEF MarkedSettled
    <2> QED
      BY <1>5, <2>2, <2>3, <2>4 DEF Inspect
  <1>6. CASE ConfirmUsage(r)
    <2>1. /\ worker.at = "reporting" /\ worker.current = r /\ worker.tx \notin mempool
          /\ worker'.at = "refresh" /\ worker'.tx = NoTx /\ UNCHANGED mempool
      BY <1>6 DEF ConfirmUsage, Busy, chainVars
    <2>2. worker.todo[r] # NoSession
      BY <2>1, HandlesCurrent DEF InHand
    <2>3. /\ sessions[r] \in Session /\ sessions[r] # NoSession /\ disk[r] = sessions[r]
      BY <2>2, Candidate
    <2>4. disk' = [disk EXCEPT ![r] =
                      [sessions[r] EXCEPT !.outputTokensSynced = worker.todo[r].tokensOutput]]
      BY <1>6, <2>3 DEF ConfirmUsage, UpdateTokensSynced, Save
    <2>5. /\ \A q \in Requests \ {r} : disk'[q] = disk[q]
          /\ disk'[r].state = disk[r].state
      BY <2>3, <2>4 DEF NodeInv, TypeOK, Session
    <2>6. \A q \in Requests : MarkedSettled(q)' => MarkedSettled(q)
      BY <2>3, <2>5 DEF MarkedSettled
    <2> QED
      BY <1>1, <1>2, <1>3, <2>1, <2>6, LetGoKeepsSettle
  <1>7. CASE Refresh(r)
    <2>1. worker.at = "refresh" /\ worker.todo[r] # NoSession /\ worker.tx = NoTx
      BY <1>4, <1>7, RefreshCases, HandlesCurrent DEF InHand
    <2>2. CASE ledger[link[r]].status = "settled" /\ MarkSettled(r)
      BY <1>1, <1>2, <1>3, <2>1, <2>2, MarkSettledKeepsSettle DEF MarkSettled, chainVars
    <2>3. CASE /\ NextCandidate(r)
               /\ UNCHANGED <<chainVars, manager, streamVars, routerSaw, troubles, config>>
      <3>1. worker'.at = "next" /\ worker'.tx = NoTx /\ UNCHANGED <<mempool, disk>>
        BY <2>3 DEF NextCandidate, AtNext, chainVars, manager
      <3> QED
        BY <1>1, <1>2, <1>3, <2>1, <3>1, LetGoKeepsSettle DEF MarkedSettled
    <2>4. CASE /\ ledger[link[r]].status = "open"
               /\ ToProvider(r) + ToUser(r) > 0
               /\ Send(r, SettleTx(r), "settling")
      <3>1. Succeeds(SettleTx(r)) /\ SettleTx(r).request = r
        BY <2>1, <2>4, SettleSucceeds, SettleIsTx
      <3> QED
        BY <1>1, <1>3, <2>1, <2>4, <3>1, SendKeepsSettle
    <2> QED
      BY <1>7, <2>2, <2>3, <2>4, RefreshCases
  <1>8. CASE ConfirmSettle(r)
    <2>1. /\ worker.at = "settling" /\ worker.current = r /\ worker.tx \notin mempool
          /\ NextCandidate(r) /\ UNCHANGED mempool
      BY <1>8 DEF ConfirmSettle, chainVars
    <2>2. worker.todo[r] # NoSession
      BY <2>1, HandlesCurrent DEF InHand
    <2>3. CASE worker.tx.full
      <3>1. ledger[link[r]].status = "settled"
        BY <1>3, <2>1, <2>3 DEF SettleArrives
      <3> QED
        BY <1>1, <1>2, <1>3, <1>8, <2>1, <2>2, <2>3, <3>1, MarkSettledKeepsSettle DEF ConfirmSettle
    <2>4. CASE ~worker.tx.full
      <3>1. /\ sessions[r] \in Session /\ sessions[r] # NoSession /\ disk[r] = sessions[r]
        BY <2>2, Candidate
      <3>2. disk' = [disk EXCEPT ![r] =
                        [sessions[r] EXCEPT !.teeAnchorTokens = worker.todo[r].tokensOutput]]
        BY <1>8, <2>4, <3>1 DEF ConfirmSettle, UpdateTeeAnchorTokens, Save
      <3>3. /\ \A q \in Requests \ {r} : disk'[q] = disk[q]
            /\ disk'[r].state = disk[r].state
        BY <3>1, <3>2 DEF NodeInv, TypeOK, Session
      <3>4. \A q \in Requests : MarkedSettled(q)' => MarkedSettled(q)
        BY <3>1, <3>3 DEF MarkedSettled
      <3>5. worker'.at = "next" /\ worker'.tx = NoTx
        BY <2>1 DEF NextCandidate, AtNext
      <3> QED
        BY <1>1, <1>2, <1>3, <2>1, <3>4, <3>5, LetGoKeepsSettle
    <2> QED
      BY <2>3, <2>4
  <1>9. CASE GiveUp(r)
    <2>1. worker'.at = "next" /\ worker'.tx = NoTx /\ UNCHANGED <<mempool, disk>>
          /\ worker.tx = NoTx
      BY <1>4, <1>9 DEF GiveUp, NextCandidate, AtNext, chainVars, manager
    <2> QED
      BY <1>1, <1>2, <1>3, <2>1, LetGoKeepsSettle DEF MarkedSettled
  <1> QED
    BY <1>5, <1>6, <1>7, <1>8, <1>9 DEF WorkerStep

\* Reported usage does not stand in the way of a settle.
LEMMA UsageKeepsSucceeds ==
    ASSUME NodeInv, NEW tx \in Tx, tx.kind = "settleByOperator", Succeeds(tx),
           link[tx.request] \in ChainIds, link' = link,
           NEW cost \in Nat,
           ledger'[link[tx.request]] = ledger[link[tx.request]]
           \/ Report(link[tx.request], cost)
    PROVE  Succeeds(tx)'
  <1>1. PICK id : id = link[tx.request]
    OBVIOUS
  <1>2. id \in ChainIds /\ link'[tx.request] = id
    BY <1>1
  <1>3. PICK e, f : e = ledger[id] /\ f = ledger'[id]
    OBVIOUS
  <1>4. e \in Entry
    BY <1>2, <1>3 DEF NodeInv, TypeOK, LedgerTypeOK
  <1>5. /\ f.status = e.status /\ f.locked = e.locked /\ f.paid = e.paid
        /\ f.usage = e.usage \/ f.usage = e.usage + cost
    <2>1. CASE ledger'[link[tx.request]] = ledger[link[tx.request]]
      BY <1>1, <1>3, <2>1
    <2>2. CASE Report(link[tx.request], cost)
      BY <1>1, <1>2, <1>3, <2>2, ReportKeeps DEF Report, Reportable
    <2> QED
      BY <2>1, <2>2
  <1>6. tx.toProvider \in Nat /\ tx.toUser \in Nat
    BY DEF Tx
  <1>7. /\ e.status = "open" /\ tx.toProvider + tx.toUser > 0
        /\ tx.toProvider + tx.toUser <= e.locked /\ e.paid + tx.toProvider <= e.usage
        /\ tx.full => tx.toProvider + tx.toUser = e.locked
    BY <1>1, <1>3 DEF Succeeds, Releasable
  <1>8. e.paid + tx.toProvider <= f.usage
    BY <1>4, <1>5, <1>6, <1>7 DEF Entry
  <1> QED
    BY <1>2, <1>3, <1>5, <1>7, <1>8 DEF Succeeds, Releasable

\* Steps of the chain: the worker, the disk and the links stay, nothing new is in
\* flight, settled sessions stay settled, and so does the settle the worker awaits.
LEMMA ChainKeepsSettle ==
    ASSUME NodeInv, NodeInv', OneInFlight, SettledOnChain,
           UNCHANGED <<worker, disk, link, config>>, mempool' \subseteq mempool,
           \A id \in ChainIds : ledger[id].status = "settled" => ledger'[id].status = "settled",
           SettleArrives'
    PROVE  (OneInFlight /\ SettleArrives /\ SettledOnChain)'
  <1>1. OneInFlight'
    BY DEF OneInFlight
  <1>2. SettledOnChain'
    BY SettledKept DEF MarkedSettled
  <1> QED
    BY <1>1, <1>2

\* The transaction the worker waits for when it settles.
LEMMA AwaitedSettle ==
    ASSUME NodeInv, worker.at = "settling"
    PROVE  /\ worker.tx \in Tx /\ worker.tx.kind = "settleByOperator"
           /\ worker.tx.request = worker.current /\ worker.current \in Requests
           /\ link[worker.current] \in ChainIds
  <1>1. /\ worker.tx \in Tx /\ worker.tx.kind = "settleByOperator"
        /\ worker.tx.request = worker.current /\ worker.current \in Requests
        /\ worker.todo[worker.current] # NoSession
    BY DEF NodeInv, WorkerShape, InHand
  <1> QED
    BY <1>1, Candidate

\* A settled session takes no transaction; a full settle settles.
LEMMA MineSettles ==
    ASSUME NodeInv, NEW tx \in mempool, Mine(tx)
    PROVE  /\ \A id \in ChainIds : ledger[id].status = "settled" => ledger'[id].status = "settled"
           /\ tx.kind = "settleByOperator" /\ tx.full /\ Succeeds(tx) =>
                  ledger'[link[tx.request]].status = "settled"
  <1>1. link[tx.request] \in ChainIds
    BY Linked
  <1>2. CASE ~Succeeds(tx) /\ UNCHANGED ledger
    BY <1>2
  <1>3. CASE tx.kind = "recordUsage" /\ Report(link[tx.request], tx.tokens)
    BY <1>1, <1>3, Linked, MineCases DEF Report, Reportable
  <1>4. CASE /\ tx.kind = "settleByOperator" /\ Succeeds(tx)
             /\ Release(link[tx.request], tx.toProvider, tx.toUser)
    <2>1. ledger[link[tx.request]].status = "open"
      BY <1>4 DEF Release, Releasable
    <2>2. ledger'[link[tx.request]] = Released(ledger[link[tx.request]], tx.toProvider, tx.toUser)
      BY <1>1, <1>4, Linked, ReleaseKeeps
    <2>3. tx.full => ledger[link[tx.request]].locked = tx.toProvider + tx.toUser
      BY <1>4 DEF Succeeds
    <2>4. tx.full => ledger'[link[tx.request]].status = "settled"
      BY <2>2, <2>3 DEF Released
    <2> QED
      BY <1>1, <2>1, <2>4, MineCases
  <1> QED
    BY <1>2, <1>3, <1>4, MineCases

LEMMA MineKeepsSettle ==
    ASSUME NodeInv, SettleInv, NEW tx \in mempool, Mine(tx)
    PROVE  SettleInv'
  <1>1. NodeInv'
    BY MineKeeps
  <1>2. /\ mempool' = mempool \ {tx}
        /\ UNCHANGED <<worker, disk, link, config, lost, restarts, userSettles>>
    BY DEF Mine, manager, streamVars, troubles
  <1> SUFFICES ASSUME Uncontested' PROVE (OneInFlight /\ SettleArrives /\ SettledOnChain)'
    BY DEF SettleInv
  <1>3. OneInFlight /\ SettleArrives /\ SettledOnChain
    BY <1>2 DEF SettleInv, Uncontested, Unconfirmed
  <1>4. \A id \in ChainIds : ledger[id].status = "settled" => ledger'[id].status = "settled"
    BY MineSettles
  <1>5. SettleArrives'
    <2> SUFFICES ASSUME worker.at = "settling", worker.tx.full PROVE SettleArrives'
      BY <1>2 DEF SettleArrives
    <2>1. /\ worker.tx \in Tx /\ worker.tx.kind = "settleByOperator"
          /\ worker.tx.request = worker.current /\ worker.current \in Requests
          /\ link[worker.current] \in ChainIds
      BY AwaitedSettle
    <2>2. CASE ledger[link[worker.current]].status = "settled"
      BY <1>2, <1>4, <2>1, <2>2 DEF SettleArrives
    <2>3. CASE worker.tx \in mempool /\ Succeeds(worker.tx)
      <3>1. CASE tx = worker.tx
        BY <1>2, <2>1, <2>3, <3>1, MineSettles DEF SettleArrives
      <3>2. CASE tx # worker.tx
        <4>1. config.tier = "BestEffort"
          BY <1>3, <3>2 DEF OneInFlight
        <4>2. tx.kind = "settleByOperator" => tx.full
          BY <4>1 DEF NodeInv, MempoolOK
        <4>3. CASE ledger'[link[worker.current]].status = "settled"
          BY <1>2, <4>3 DEF SettleArrives
        <4>4. CASE ledger'[link[worker.current]] = ledger[link[worker.current]]
          <5>1. Succeeds(worker.tx)'
            BY <1>2, <2>1, <2>3, <4>4, UsageKeepsSucceeds
          <5> QED
            BY <1>2, <2>3, <3>2, <5>1 DEF SettleArrives
        <4>5. CASE /\ link[tx.request] = link[worker.current]
                   /\ tx.kind = "recordUsage" /\ Report(link[tx.request], tx.tokens)
          <5>1. Succeeds(worker.tx)'
            BY <1>2, <2>1, <2>3, <4>5, Linked, UsageKeepsSucceeds
          <5> QED
            BY <1>2, <2>3, <3>2, <5>1 DEF SettleArrives
        <4>6. CASE link[tx.request] = link[worker.current] /\ tx.kind = "settleByOperator"
                     /\ Succeeds(tx)
          BY <4>2, <4>3, <4>6, MineSettles
        <4> QED
          BY <2>1, <4>3, <4>4, <4>5, <4>6, MineCases
      <3> QED
        BY <3>1, <3>2
    <2> QED
      BY <1>3, <2>2, <2>3 DEF SettleArrives
  <1> QED
    BY <1>1, <1>2, <1>3, <1>4, <1>5, ChainKeepsSettle

LEMMA RouterKeepsSettle ==
    ASSUME NodeInv, SettleInv, NEW r \in Requests, RouterReports(r)
    PROVE  SettleInv'
  <1>1. NodeInv'
    BY RouterReportsKeeps
  <1>2. /\ r \in routerSaw
        /\ UNCHANGED <<mempool, worker, disk, link, config, lost, restarts, userSettles>>
    BY DEF RouterReports, manager, streamVars, troubles
  <1> SUFFICES ASSUME Uncontested' PROVE (OneInFlight /\ SettleArrives /\ SettledOnChain)'
    BY DEF SettleInv
  <1>3. OneInFlight /\ SettleArrives /\ SettledOnChain
    BY <1>2 DEF SettleInv, Uncontested, Unconfirmed
  <1>4. link[r] \in ChainIds /\ served[r] \in Nat
    BY <1>2, Linked
  <1>5. ASSUME NEW id \in ChainIds
        PROVE  ledger'[id] = ledger[id] \/ (id = link[r] /\ Report(id, served[r]))
    BY <1>4, ReportKeeps DEF RouterReports
  <1>6. \A id \in ChainIds : ledger[id].status = "settled" => ledger'[id].status = "settled"
    BY <1>5 DEF Report, Reportable
  <1>7. SettleArrives'
    <2> SUFFICES ASSUME worker.at = "settling", worker.tx.full PROVE SettleArrives'
      BY <1>2 DEF SettleArrives
    <2>1. /\ worker.tx \in Tx /\ worker.tx.kind = "settleByOperator"
          /\ worker.tx.request = worker.current /\ worker.current \in Requests
          /\ link[worker.current] \in ChainIds
      BY AwaitedSettle
    <2>2. CASE ledger[link[worker.current]].status = "settled"
      BY <1>2, <1>6, <2>1, <2>2 DEF SettleArrives
    <2>3. CASE worker.tx \in mempool /\ Succeeds(worker.tx)
      <3>1. Succeeds(worker.tx)'
        BY <1>2, <1>4, <1>5, <2>1, <2>3, UsageKeepsSucceeds
      <3> QED
        BY <1>2, <2>3, <3>1 DEF SettleArrives
    <2> QED
      BY <1>3, <2>2, <2>3 DEF SettleArrives
  <1> QED
    BY <1>1, <1>2, <1>3, <1>6, <1>7, ChainKeepsSettle

LEMMA UserKeepsSettle ==
    ASSUME NodeInv, SettleInv, UserStep
    PROVE  SettleInv'
  <1>1. NodeInv'
    BY UserStepKeeps
  <1> SUFFICES ASSUME Uncontested' PROVE (OneInFlight /\ SettleArrives /\ SettledOnChain)'
    BY DEF SettleInv
  <1>2. ASSUME NEW id \in ChainIds, NEW p \in 0..ledger[id].locked,
               NEW u \in 0..ledger[id].locked, UserSettles(id, p, u)
        PROVE  FALSE
    <2>1. userSettles' = userSettles + 1 /\ userSettles \in Nat
      BY <1>2 DEF UserSettles, NodeInv, TypeOK
    <2> QED
      BY <2>1 DEF Uncontested
  <1>3. PICK id \in ChainIds, amount \in Deposits : UserOpens(id, amount)
    BY <1>2 DEF UserStep
  <1>4. /\ UNCHANGED <<mempool, worker, disk, link, config, lost, restarts, userSettles>>
        /\ ledger[id].status = "unknown"
        /\ \A i \in ChainIds \ {id} : ledger'[i] = ledger[i]
    BY <1>3, OpenKeeps DEF UserOpens, Open, manager, streamVars, troubles
  <1>5. OneInFlight /\ SettleArrives /\ SettledOnChain
    BY <1>4 DEF SettleInv, Uncontested, Unconfirmed
  <1>6. \A i \in ChainIds : ledger[i].status = "settled" => ledger'[i].status = "settled"
    BY <1>4
  <1>7. SettleArrives'
    <2> SUFFICES ASSUME worker.at = "settling", worker.tx.full PROVE SettleArrives'
      BY <1>4 DEF SettleArrives
    <2>1. /\ worker.tx \in Tx /\ worker.tx.kind = "settleByOperator"
          /\ worker.tx.request = worker.current /\ link[worker.current] \in ChainIds
      BY AwaitedSettle
    <2>2. ledger[link[worker.current]].status # "unknown"
      BY <1>5, <2>1 DEF SettleArrives, Succeeds, Releasable
    <2>3. ledger'[link[worker.current]] = ledger[link[worker.current]]
      BY <1>4, <2>1, <2>2
    <2> QED
      BY <1>4, <1>5, <2>1, <2>3 DEF SettleArrives, Succeeds, Releasable
  <1> QED
    BY <1>1, <1>4, <1>5, <1>6, <1>7, ChainKeepsSettle

\* A lost confirmation or a restart.
LEMMA TroubleKeepsSettle ==
    ASSUME NodeInv, NodeInv', SettleInv, Unconfirmed' = Unconfirmed + 1,
           UNCHANGED <<ledger, link, config, userSettles>>,
           worker'.at # "settling",
           \A q \in Requests : disk'[q] = disk[q] \/ disk'[q] = NoSession
    PROVE  SettleInv'
  <1> SUFFICES ASSUME Uncontested' PROVE (OneInFlight /\ SettleArrives /\ SettledOnChain)'
    BY DEF SettleInv
  <1>1. Unconfirmed \in Nat
    BY DEF NodeInv, TypeOK, Unconfirmed
  <1>2. Unconfirmed' # 0
    BY <1>1
  <1>3. config.tier = "BestEffort" /\ Uncontested
    BY <1>2 DEF Uncontested
  <1>4. SettledOnChain
    BY <1>3 DEF SettleInv
  <1>5. OneInFlight' /\ SettleArrives'
    BY <1>3 DEF OneInFlight, SettleArrives
  <1>6. SettledOnChain'
    BY <1>4, SettledKept DEF MarkedSettled
  <1> QED
    BY <1>5, <1>6

\* Between ticks and between candidates.
LEMMA IdleKeepsSettle ==
    ASSUME NodeInv, NodeInv', SettleInv, worker.tx = NoTx, worker'.tx = NoTx,
           worker'.at # "settling",
           UNCHANGED <<chainVars, manager, link, config, troubles>>
    PROVE  SettleInv'
  <1> SUFFICES ASSUME Uncontested' PROVE (OneInFlight /\ SettleArrives /\ SettledOnChain)'
    BY DEF SettleInv
  <1>1. UNCHANGED <<ledger, mempool, disk, link, config, lost, restarts, userSettles>>
    BY DEF chainVars, manager, troubles
  <1>2. OneInFlight /\ SettledOnChain
    BY <1>1 DEF SettleInv, Uncontested, Unconfirmed
  <1> QED
    BY <1>1, <1>2, LetGoKeepsSettle DEF MarkedSettled

LEMMA SettleInit ==
    Init => SettleInv
  BY AsleepShape DEF Init, SettleInv, OneInFlight, SettleArrives, SettledOnChain, Nothing

LEMMA SettleNext ==
    NodeInv /\ SettleInv /\ [Next]_vars => SettleInv'
  <1> SUFFICES ASSUME NodeInv, SettleInv, [Next]_vars PROVE SettleInv'
    OBVIOUS
  <1>0. NodeInv'
    BY NodeInvNext
  <1>1. CASE UserStep
    BY <1>1, UserKeepsSettle
  <1>2. ASSUME NEW r \in Requests, StreamStep(r) PROVE SettleInv'
    BY <1>2, StreamKeepsSettle
  <1>3. ASSUME NEW r \in Requests, WorkerStep(r) \/ GiveUp(r) PROVE SettleInv'
    BY <1>3, WorkerKeepsSettle
  <1>4. ASSUME NEW r \in Requests, LoseConfirmation(r) PROVE SettleInv'
    <2>1. UNCHANGED <<ledger, link, config, userSettles, disk>> /\ worker'.at = "next"
      BY <1>4 DEF LoseConfirmation, NextCandidate, AtNext, chainVars, streamVars, manager
    <2>2. Unconfirmed' = Unconfirmed + 1
      BY <1>4 DEF LoseConfirmation, Unconfirmed, NodeInv, TypeOK
    <2> QED
      BY <1>0, <2>1, <2>2, TroubleKeepsSettle
  <1>5. ASSUME NEW r \in Requests, RouterReports(r) PROVE SettleInv'
    BY <1>5, RouterKeepsSettle
  <1>6. CASE \E tee, epoch, gateOpen \in BOOLEAN : Tick(tee, epoch, gateOpen)
    <2>1. /\ UNCHANGED <<chainVars, manager, link, config, troubles>>
          /\ worker.at = "asleep" /\ worker'.at = "next" /\ worker'.tx = NoTx
      BY <1>6 DEF Tick, AtNext, streamVars
    <2>2. worker.tx = NoTx
      BY <2>1 DEF NodeInv, WorkerShape, Asleep
    <2> QED
      BY <1>0, <2>1, <2>2, IdleKeepsSettle
  <1>7. CASE StartEpochPass \/ Sleep
    <2>1. /\ UNCHANGED <<chainVars, manager, link, config, troubles>>
          /\ worker.at = "next" /\ worker'.at \in {"next", "asleep"} /\ worker'.tx = NoTx
      BY <1>7 DEF StartEpochPass, Sleep, AtNext, Asleep, streamVars
    <2>2. worker.tx = NoTx
      BY <2>1 DEF NodeInv, WorkerShape
    <2> QED
      BY <1>0, <2>1, <2>2, IdleKeepsSettle
  <1>8. ASSUME NEW tx \in mempool, Mine(tx) PROVE SettleInv'
    BY <1>8, MineKeepsSettle
  <1>9. CASE Restart
    <2>1. /\ UNCHANGED <<ledger, link, config, userSettles>>
          /\ worker' = Asleep
          /\ \A q \in Requests : disk'[q] = disk[q] \/ disk'[q] = NoSession
      BY <1>9 DEF Restart, chainVars
    <2>2. Unconfirmed' = Unconfirmed + 1
      BY <1>9 DEF Restart, Unconfirmed, NodeInv, TypeOK
    <2> QED
      BY <1>0, <2>1, <2>2, AsleepShape, TroubleKeepsSettle
  <1>10. CASE UNCHANGED vars
    BY <1>10 DEF vars, chainVars, manager, streamVars, troubles, SettleInv, Uncontested,
                 Unconfirmed, OneInFlight, SettleArrives, SettledOnChain, OnChain, Succeeds,
                 Reportable, Releasable
  <1> QED
    BY <1>1, <1>2, <1>3, <1>4, <1>5, <1>6, <1>7, <1>8, <1>9, <1>10 DEF Next

\* A session the node has marked settled is settled on chain, as long as neither
\* the user nor an earlier partial settle of the node's own, mined late, releases a
\* part of the lock between the node's read and its settle.
THEOREM SettledUncontestedAlways == Spec => []SettledUncontested
  <1>1. Spec => [](NodeInv /\ SettleInv)
    BY NodeInvInit, NodeInvNext, SettleInit, SettleNext, PTL DEF Spec
  <1>2. NodeInv /\ SettleInv => SettledUncontested
    BY DEF SettleInv, SettledUncontested
  <1> QED
    BY <1>1, <1>2, PTL

-------------------------------------------------------------------------------
\* Paying: a settled session has paid for what was served.

\* A request is admitted to a session that exists, no stream exceeds its bound, and
\* a partial settle gives the user nothing.
PaymentShape ==
    /\ \A r \in Requests :
           /\ link[r] # NoLink => ledger[link[r]].status # "unknown"
           /\ served[r] <= MaxTokens
    /\ \A tx \in mempool : tx.kind = "settleByOperator" /\ ~tx.full => tx.toUser = 0

\* While nobody else releases the lock, what is not locked has been paid.
NothingAside ==
    \A id \in ChainIds :
        ledger[id].status = "open" => ledger[id].paid + ledger[id].locked = ledger[id].opening

\* The whole deposit, or what a stream that is over has served.
PaidUp(r, paid) ==
    paid = ledger[link[r]].opening \/ (stream[r] = "ended" /\ paid >= served[r])

\* A session with one request: once settled it is paid up; until then the chain
\* knows the usage the node takes for reported, and a full settle in flight pays up.
PaymentOn(r) ==
    LET e == ledger[link[r]]
    IN  /\ e.status = "settled" => PaidUp(r, e.paid)
        /\ e.status = "open" =>
               /\ disk[r] # NoSession => e.usage >= disk[r].outputTokensSynced
               /\ worker.at = "reporting" /\ worker.current = r =>
                      worker.tx \in mempool \/ e.usage >= worker.todo[r].tokensOutput
               /\ worker.at = "refresh" /\ worker.current = r =>
                      e.usage >= worker.todo[r].tokensOutput
               /\ \A tx \in mempool :
                      tx.request = r /\ tx.kind = "settleByOperator" /\ tx.full =>
                          PaidUp(r, e.paid + tx.toProvider)

PaymentInv ==
    (Uncontested /\ NodeReports) =>
        /\ NothingAside
        /\ \A r \in Requests : link[r] # NoLink /\ Alone(r) => PaymentOn(r)

\* The parts of PaymentShape, for a step that sends nothing.
LEMMA ShapeKept ==
    ASSUME PaymentShape, mempool' \subseteq mempool,
           \A r \in Requests : link'[r] # NoLink => ledger'[link'[r]].status # "unknown",
           \A r \in Requests : served'[r] <= MaxTokens
    PROVE  PaymentShape'
  BY DEF PaymentShape

LEMMA KnownStays ==
    ASSUME NodeInv, PaymentShape, link' = link, served' = served,
           \A id \in ChainIds : ledger[id].status # "unknown" => ledger'[id].status # "unknown"
    PROVE  /\ \A r \in Requests : link'[r] # NoLink => ledger'[link'[r]].status # "unknown"
           /\ \A r \in Requests : served'[r] <= MaxTokens
  <1>1. \A r \in Requests : link[r] # NoLink => link[r] \in ChainIds
    BY DEF NodeInv, TypeOK
  <1> QED
    BY <1>1 DEF PaymentShape

LEMMA StreamKeepsShape ==
    ASSUME NodeInv, PaymentShape, NEW r \in Requests, StreamStep(r)
    PROVE  PaymentShape'
  <1>1. NodeInv' /\ StreamMove(r)
    BY StreamStepKeeps
  <1>2. UNCHANGED <<ledger, mempool>>
    BY <1>1 DEF StreamMove, chainVars
  <1>3. link'[r] = link[r] \/ ledger[link'[r]].status = "open"
    BY DEF StreamStep, Authenticate, LeaveEarly, OpenSession, RecordChunk, IssueReceipt,
           SendUsageLine, Complete, BackendFails, Disconnect, EndStream, NodeInv, TypeOK
  <1>4. served'[r] <= MaxTokens
    <2>1. served[r] \in Nat /\ served[r] <= MaxTokens
      BY DEF NodeInv, TypeOK, PaymentShape
    <2>2. CASE RecordChunk(r)
      <3>1. served'[r] = served[r] + 1 /\ served[r] < MaxTokens
        BY <2>2 DEF RecordChunk, NodeInv, TypeOK
      <3> QED
        BY <2>1, <3>1, NodeAssumption
    <2>3. CASE served' = served
      BY <2>1, <2>3
    <2> QED
      BY <2>2, <2>3 DEF StreamStep, Authenticate, LeaveEarly, OpenSession, IssueReceipt,
                        SendUsageLine, Complete, BackendFails, Disconnect, EndStream
  <1>5. ASSUME NEW q \in Requests
        PROVE  /\ link'[q] # NoLink => ledger'[link'[q]].status # "unknown"
               /\ served'[q] <= MaxTokens
    <2>1. CASE q = r
      BY <1>2, <1>3, <1>4, <2>1 DEF PaymentShape
    <2>2. CASE q # r
      BY <1>1, <1>2, <2>2 DEF StreamMove, Same, PaymentShape
    <2> QED
      BY <2>1, <2>2
  <1> QED
    BY <1>2, <1>5, ShapeKept

LEMMA WorkerKeepsShape ==
    ASSUME NodeInv, PaymentShape, NEW r \in Requests,
           WorkerStep(r) \/ GiveUp(r) \/ LoseConfirmation(r)
    PROVE  PaymentShape'
  <1>1. UNCHANGED <<ledger, link, served>>
    BY DEF WorkerStep, Inspect, ConfirmUsage, Refresh, ConfirmSettle, GiveUp, LoseConfirmation,
           MarkSettled, Send, chainVars, streamVars
  <1>2. ASSUME NEW tx \in mempool'
        PROVE  tx \in mempool \/ tx.kind = "recordUsage" \/ tx.full \/ tx.toUser = 0
    <2>1. CASE mempool' = mempool
      BY <2>1
    <2>2. CASE Inspect(r)
      BY <2>1, <2>2 DEF Inspect, MarkSettled, Send, chainVars
    <2>3. CASE Refresh(r)
      <3>1. CASE Send(r, SettleTx(r), "settling")
        <4>1. SettleTx(r).full \/ SettleTx(r).toUser = 0
          BY <2>3, RefreshCases, HandlesCurrent, SettleIsTx DEF ToUser, InHand
        <4> QED
          BY <3>1, <4>1 DEF Send
      <3> QED
        BY <2>1, <2>3, <3>1, RefreshCases DEF MarkSettled, chainVars
    <2> QED
      BY <2>1, <2>2, <2>3 DEF WorkerStep, ConfirmUsage, ConfirmSettle, GiveUp, LoseConfirmation,
                              chainVars
  <1>3. ASSUME NEW tx \in mempool', tx.kind = "settleByOperator", ~tx.full PROVE tx.toUser = 0
    BY <1>2, <1>3 DEF PaymentShape
  <1> QED
    BY <1>1, <1>3 DEF PaymentShape

\* No step makes a session of the ledger unknown again.
LEMMA LedgerRemembers ==
    ASSUME NodeInv, UserStep \/ (\E tx \in mempool : Mine(tx)) \/ (\E r \in Requests : RouterReports(r))
    PROVE  \A id \in ChainIds : ledger[id].status # "unknown" => ledger'[id].status # "unknown"
  <1>1. ASSUME NEW id \in ChainIds, NEW p \in Nat, NEW u \in Nat, Release(id, p, u)
        PROVE  \A i \in ChainIds : ledger[i].status # "unknown" => ledger'[i].status # "unknown"
    <2>1. /\ ledger'[id] = Released(ledger[id], p, u)
          /\ \A i \in ChainIds \ {id} : ledger'[i] = ledger[i]
      BY <1>1, ReleaseKeeps
    <2>2. ledger'[id].status # "unknown"
      BY <2>1 DEF Released
    <2> QED
      BY <2>1, <2>2
  <1>2. ASSUME NEW id \in ChainIds, NEW cost \in Nat, Report(id, cost)
        PROVE  \A i \in ChainIds : ledger[i].status # "unknown" => ledger'[i].status # "unknown"
    BY <1>2, ReportKeeps
  <1>3. ASSUME NEW id \in ChainIds, NEW amount \in Deposits, Open(id, amount)
        PROVE  \A i \in ChainIds : ledger[i].status # "unknown" => ledger'[i].status # "unknown"
    <2>1. ledger'[id] = Opened(amount) /\ \A i \in ChainIds \ {id} : ledger'[i] = ledger[i]
      BY <1>3, OpenKeeps
    <2>2. ledger'[id].status # "unknown"
      BY <2>1 DEF Opened
    <2> QED
      BY <2>1, <2>2
  <1>4. CASE UserStep
    <2>1. \A id \in ChainIds : ledger[id].locked \in Nat
      BY DEF NodeInv, TypeOK, LedgerTypeOK, Entry
    <2>2. ASSUME NEW id \in ChainIds, NEW p \in 0..ledger[id].locked,
                 NEW u \in 0..ledger[id].locked, UserSettles(id, p, u)
          PROVE  p \in Nat /\ u \in Nat /\ Release(id, p, u)
      BY <2>1, <2>2 DEF UserSettles
    <2> QED
      BY <1>1, <1>3, <1>4, <2>2 DEF UserStep, UserOpens
  <1>5. ASSUME NEW tx \in mempool, Mine(tx)
        PROVE  \A i \in ChainIds : ledger[i].status # "unknown" => ledger'[i].status # "unknown"
    BY <1>1, <1>2, <1>5, MineCases, Linked
  <1>6. ASSUME NEW r \in Requests, RouterReports(r)
        PROVE  \A i \in ChainIds : ledger[i].status # "unknown" => ledger'[i].status # "unknown"
    BY <1>2, <1>6, Linked DEF RouterReports
  <1> QED
    BY <1>4, <1>5, <1>6

LEMMA ShapeInit ==
    Init => PaymentShape
  BY NodeAssumption DEF Init, PaymentShape

LEMMA ShapeNext ==
    NodeInv /\ PaymentShape /\ [Next]_vars => PaymentShape'
  <1> SUFFICES ASSUME NodeInv, PaymentShape, [Next]_vars PROVE PaymentShape'
    OBVIOUS
  <1>1. CASE UserStep \/ (\E tx \in mempool : Mine(tx)) \/ (\E r \in Requests : RouterReports(r))
    <2>1. UNCHANGED <<link, served>> /\ mempool' \subseteq mempool
      BY <1>1 DEF UserStep, UserOpens, UserSettles, Mine, RouterReports, streamVars
    <2> QED
      BY <1>1, <2>1, LedgerRemembers, KnownStays, ShapeKept
  <1>2. ASSUME NEW r \in Requests, StreamStep(r) PROVE PaymentShape'
    BY <1>2, StreamKeepsShape
  <1>3. ASSUME NEW r \in Requests, WorkerStep(r) \/ GiveUp(r) \/ LoseConfirmation(r)
        PROVE  PaymentShape'
    BY <1>3, WorkerKeepsShape
  <1>4. CASE UNCHANGED <<ledger, mempool, link, served>>
    BY <1>4 DEF PaymentShape
  <1>5. CASE \/ \E tee, epoch, gateOpen \in BOOLEAN : Tick(tee, epoch, gateOpen)
             \/ StartEpochPass \/ Sleep \/ Restart
    BY <1>4, <1>5 DEF Tick, StartEpochPass, Sleep, Restart, chainVars, streamVars
  <1>6. CASE UNCHANGED vars
    BY <1>4, <1>6 DEF vars, chainVars, streamVars
  <1> QED
    BY <1>1, <1>2, <1>3, <1>5, <1>6 DEF Next

\* The only request of its escrow session.
Single(r) == link[r] # NoLink /\ Alone(r)

LEMMA SingleBefore ==
    ASSUME \A q \in Requests : link[q] # NoLink => link'[q] = link[q],
           NEW r \in Requests, link[r] # NoLink, Single(r)'
    PROVE  Single(r)
  <1>1. link'[r] = link[r]
    OBVIOUS
  <1>2. LinkedTo(link[r])' = {r}
    BY <1>1 DEF Single, Alone
  <1>3. \A q \in Requests : link'[q] = link[r] => q = r
    BY <1>1, <1>2 DEF LinkedTo
  <1>4. \A q \in Requests : link[q] = link[r] => q = r
    BY <1>3
  <1>5. LinkedTo(link[r]) = {r}
    BY <1>4 DEF LinkedTo
  <1> QED
    BY <1>5 DEF Single, Alone

\* What a step leaves alone so that q stays paid for.
PaymentQuiet(q) ==
    /\ link'[q] = link[q]
    /\ ledger'[link[q]] = ledger[link[q]]
    /\ stream[q] = "ended" => stream'[q] = "ended" /\ served'[q] = served[q]
    /\ disk'[q] # NoSession =>
           \/ disk[q] # NoSession /\ disk'[q].outputTokensSynced = disk[q].outputTokensSynced
           \/ disk'[q].outputTokensSynced = 0
    /\ worker'.at \in {"reporting", "refresh"} /\ worker'.current = q =>
           worker' = worker /\ (worker.tx \in mempool => worker.tx \in mempool')
    /\ \A tx \in mempool' : tx \in mempool \/ tx.request # q \/ tx.kind # "settleByOperator"

LEMMA QuietKeepsPayment ==
    ASSUME NodeInv, NEW q \in Requests, link[q] # NoLink, PaymentOn(q), PaymentQuiet(q)
    PROVE  PaymentOn(q)'
  <1>1. PICK e : e = ledger[link[q]]
    OBVIOUS
  <1>2. e.usage \in Nat
    BY <1>1 DEF NodeInv, TypeOK, LedgerTypeOK, Entry
  <1>3. ledger'[link'[q]] = e
    BY <1>1 DEF PaymentQuiet
  <1>4. \A paid : PaidUp(q, paid) => PaidUp(q, paid)'
    BY <1>1, <1>3 DEF PaidUp, PaymentQuiet
  <1>5. e.status = "settled" => PaidUp(q, e.paid)'
    BY <1>1, <1>4 DEF PaymentOn
  <1>6. ASSUME e.status = "open"
        PROVE  /\ disk'[q] # NoSession => e.usage >= disk'[q].outputTokensSynced
               /\ worker'.at = "reporting" /\ worker'.current = q =>
                      worker'.tx \in mempool' \/ e.usage >= worker'.todo[q].tokensOutput
               /\ worker'.at = "refresh" /\ worker'.current = q =>
                      e.usage >= worker'.todo[q].tokensOutput
               /\ \A tx \in mempool' :
                      tx.request = q /\ tx.kind = "settleByOperator" /\ tx.full =>
                          PaidUp(q, e.paid + tx.toProvider)'
    <2>1. disk'[q] # NoSession => e.usage >= disk'[q].outputTokensSynced
      BY <1>1, <1>2, <1>6 DEF PaymentOn, PaymentQuiet
    <2>2. /\ worker'.at = "reporting" /\ worker'.current = q =>
                 worker'.tx \in mempool' \/ e.usage >= worker'.todo[q].tokensOutput
          /\ worker'.at = "refresh" /\ worker'.current = q =>
                 e.usage >= worker'.todo[q].tokensOutput
      BY <1>1, <1>6 DEF PaymentOn, PaymentQuiet
    <2>3. ASSUME NEW tx \in mempool', tx.request = q, tx.kind = "settleByOperator", tx.full
          PROVE  PaidUp(q, e.paid + tx.toProvider)'
      <3>1. tx \in mempool
        BY <2>3 DEF PaymentQuiet
      <3>2. PaidUp(q, e.paid + tx.toProvider)
        BY <1>1, <1>6, <2>3, <3>1 DEF PaymentOn
      <3> QED
        BY <1>4, <3>2
    <2> QED
      BY <2>1, <2>2, <2>3
  <1> QED
    BY <1>3, <1>5, <1>6 DEF PaymentOn

\* Steps of a stream.
LEMMA StreamSynced ==
    ASSUME NodeInv, NEW r \in Requests, StreamStep(r), disk'[r] # NoSession
    PROVE  \/ disk[r] # NoSession /\ disk'[r].outputTokensSynced = disk[r].outputTokensSynced
           \/ disk'[r].outputTokensSynced = 0
  <1>1. NodeInv' /\ StreamMove(r)
    BY StreamStepKeeps
  <1>2. RequestOK(r) /\ RequestOK(r)' /\ stream[r] \in StreamState
    BY <1>1 DEF NodeInv, TypeOK
  <1>3. CASE stream[r] \in Live
    BY <1>1, <1>2, <1>3 DEF StreamMove, RequestOK
  <1>4. CASE OpenSession(r)
    <2>1. disk'[r] = NewSession
      BY <1>4 DEF OpenSession, Save, NodeInv, TypeOK
    <2> QED
      BY <2>1 DEF NewSession
  <1>5. CASE UNCHANGED disk
    BY <1>5
  <1>6. CASE stream[r] \in {"idle", "admitted", "ended"}
    BY <1>4, <1>5, <1>6 DEF StreamStep, Authenticate, LeaveEarly, RecordChunk, IssueReceipt,
                            SendUsageLine, Complete, BackendFails, Disconnect, manager
  <1> QED
    BY <1>2, <1>3, <1>6 DEF StreamState, Live

LEMMA StreamKeepsPayment ==
    ASSUME NodeInv, PaymentInv, NEW r \in Requests, StreamStep(r)
    PROVE  PaymentInv'
  <1>1. NodeInv' /\ StreamMove(r)
    BY StreamStepKeeps
  <1>2. UNCHANGED <<ledger, mempool, worker, config, lost, restarts, userSettles>>
    BY <1>1 DEF StreamMove, chainVars, troubles
  <1> SUFFICES ASSUME Uncontested', NodeReports'
               PROVE  NothingAside' /\ \A q \in Requests : Single(q)' => PaymentOn(q)'
    BY DEF PaymentInv, Single
  <1>3. NothingAside /\ \A q \in Requests : Single(q) => PaymentOn(q)
    BY <1>2 DEF PaymentInv, Single, Uncontested, Unconfirmed, NodeReports
  <1>4. NothingAside'
    BY <1>2, <1>3 DEF NothingAside
  <1>5. ASSUME NEW q \in Requests, Single(q)' PROVE PaymentOn(q)'
    <2>1. CASE link[q] # NoLink
      <3>1. Single(q)
        BY <1>1, <1>5, <2>1, SingleBefore DEF StreamMove, Same
      <3>2. PaymentQuiet(q)
        <4>1. CASE q # r
          BY <1>1, <1>2, <4>1 DEF StreamMove, Same, PaymentQuiet
        <4>2. CASE q = r
          <5>1. stream[r] # "ended"
            BY DEF StreamStep, Authenticate, LeaveEarly, OpenSession, RecordChunk, IssueReceipt,
                   SendUsageLine, Complete, BackendFails, Disconnect
          <5> QED
            BY <1>1, <1>2, <2>1, <4>2, <5>1, StreamSynced DEF StreamMove, PaymentQuiet
        <4> QED
          BY <4>1, <4>2
      <3> QED
        BY <1>3, <2>1, <3>1, <3>2, QuietKeepsPayment
    <2>2. CASE link[q] = NoLink
      <3>1. q = r
        BY <1>1, <1>5, <2>2 DEF StreamMove, Same, Single
      <3>2. stream[r] = "idle"
        BY <2>2, <3>1 DEF NodeInv, RequestOK
      <3>3. PICK id \in ChainIds : Authenticate(r, id)
        BY <3>2 DEF StreamStep, LeaveEarly, OpenSession, RecordChunk, IssueReceipt,
                    SendUsageLine, Complete, BackendFails, Disconnect
      <3>4. ledger[id].status = "open" /\ link'[r] = id /\ disk'[r] = NoSession
        BY <3>2, <3>3 DEF Authenticate, NodeInv, TypeOK, RequestOK, manager
      <3>5. worker.at \in InHand => worker.current # r
        BY <2>2, <3>1, Candidate DEF NodeInv, WorkerShape
      <3>6. \A tx \in mempool : tx.request # r
        BY <2>2, <3>1 DEF NodeInv, MempoolOK
      <3> QED
        BY <1>2, <3>1, <3>4, <3>5, <3>6 DEF PaymentOn, InHand
    <2> QED
      BY <2>1, <2>2
  <1> QED
    BY <1>4, <1>5

-------------------------------------------------------------------------------
\* The chain takes every report.

\* MaxReported bounds the model, not the contract: it leaves room for what a stream
\* serves, once and once more for every trouble.
RoomToReport == (1 + MaxTroubles) * MaxTokens <= MaxReported

LEMMA RoomArithmetic ==
    ASSUME NEW usage \in Nat, NEW sent \in Nat, NEW lines \in Nat, NEW tokens \in Nat,
           NEW total \in Nat, NEW expected \in Nat, NEW u \in Nat, NEW m \in Nat,
           NEW t \in Nat, NEW max \in Nat,
           tokens <= sent, usage + sent + lines <= u * total + expected,
           expected <= total, total <= t, u <= m, (1 + m) * t <= max
    PROVE  usage + tokens <= max
  <1>1. u * total <= u * t /\ u * total \in Nat /\ u * t \in Nat
    BY TimesMono
  <1>2. t * u <= t * m /\ t * u = u * t /\ t * m = m * t /\ t * m \in Nat
    BY TimesMono
  <1>3. (1 + m) * t = t + t * m
    OBVIOUS
  <1> QED
    BY <1>1, <1>2, <1>3

\* All the tokens of a session with one request are the request's.
LEMMA SingleServed ==
    ASSUME NodeInv, NEW q \in Requests, Single(q)
    PROVE  Total(ServedOn(link[q]), Requests) = served[q]
  <1> DEFINE f == [r \in Requests |-> 0]
  <1>1. f \in [Requests -> Nat] /\ \A r \in Requests : f[r] = 0
    OBVIOUS
  <1>2. PICK g : g = ServedOn(link[q])
    OBVIOUS
  <1>3. \A r \in Requests : link[r] = link[q] => r = q
    BY DEF Single, Alone, LinkedTo
  <1>4. served[q] \in Nat /\ \A r \in Requests : served[r] \in Nat
    BY DEF NodeInv, TypeOK
  <1>5. g \in [Requests -> Nat] /\ g[q] = served[q] /\ \A r \in Requests \ {q} : g[r] = 0
    BY <1>2, <1>3, <1>4 DEF ServedOn
  <1> HIDE DEF f
  <1>6. Total(f, Requests) = 0
    BY <1>1, TotalZero
  <1>7. g[q] = f[q] + served[q] /\ \A r \in Requests \ {q} : g[r] = f[r]
    BY <1>1, <1>4, <1>5
  <1>8. Total(g, Requests) = Total(f, Requests) + served[q]
    BY <1>1, <1>4, <1>5, <1>7, NodeAssumption, TotalAdd
  <1> QED
    BY <1>2, <1>4, <1>6, <1>8

LEMMA RoomForReport ==
    ASSUME NodeInv, BillingInv, PaymentShape, RoomToReport,
           NEW tx \in mempool, tx.kind = "recordUsage", Single(tx.request)
    PROVE  ledger[link[tx.request]].usage + tx.tokens <= MaxReported
  <1>1. PICK q \in Requests : q = tx.request
    BY Linked
  <1>2. PICK id \in ChainIds : id = link[q]
    BY <1>1, Linked
  <1>3. BillingTyped
    BY BillingTypes
  <1>4. tx.tokens \in Nat /\ tx.tokens = SentOn(id)[tx]
    BY <1>1, <1>2, Linked DEF SentOn
  <1>5. tx.tokens <= Total(SentOn(id), mempool)
    <2>1. PICK f : f = SentOn(id)
      OBVIOUS
    <2>2. f \in [mempool -> Nat] /\ IsFiniteSet(mempool)
      BY <1>3, <2>1 DEF BillingTyped
    <2>3. f[tx] <= Total(f, mempool)
      BY <2>2, TotalBounds
    <2> QED
      BY <1>4, <2>1, <2>3
  <1>6. Total(ServedOn(id), Requests) = served[q]
    BY <1>1, <1>2, SingleServed
  <1>7. served[q] <= MaxTokens /\ MaxTokens \in Nat /\ MaxTroubles \in Nat /\ MaxReported \in Nat
    BY NodeAssumption, LedgerAssumption DEF PaymentShape
  <1>8. Unconfirmed <= MaxTroubles /\ Unconfirmed \in Nat
    BY <1>7 DEF NodeInv, TypeOK, Unconfirmed
  <1>9. /\ ledger[id].usage \in Nat /\ Total(SentOn(id), mempool) \in Nat
        /\ Total(LinesOn(id), Requests) \in Nat /\ Total(ServedOn(id), Requests) \in Nat
        /\ Total(ExpectedOn(id), Requests) \in Nat
        /\ Total(ExpectedOn(id), Requests) <= Total(ServedOn(id), Requests)
    BY <1>3 DEF BillingTyped
  <1>10. ledger[id].usage + Total(SentOn(id), mempool) + Total(LinesOn(id), Requests)
             <= Unconfirmed * Total(ServedOn(id), Requests) + Total(ExpectedOn(id), Requests)
    BY DEF BillingInv, Billed
  <1>11. ledger[id].usage + tx.tokens <= MaxReported
    <2>1. PICK usage \in Nat, sent \in Nat, lines \in Nat, total \in Nat, expected \in Nat :
              /\ usage = ledger[id].usage /\ sent = Total(SentOn(id), mempool)
              /\ lines = Total(LinesOn(id), Requests) /\ total = Total(ServedOn(id), Requests)
              /\ expected = Total(ExpectedOn(id), Requests)
      BY <1>9
    <2>2. PICK tokens \in Nat, u \in Nat : tokens = tx.tokens /\ u = Unconfirmed
      BY <1>4, <1>8
    <2>3. /\ tokens <= sent /\ expected <= total /\ total <= MaxTokens /\ u <= MaxTroubles
          /\ usage + sent + lines <= u * total + expected
      BY <1>5, <1>6, <1>7, <1>8, <1>9, <1>10, <2>1, <2>2
    <2>4. usage + tokens <= MaxReported
      BY <1>7, <2>3, RoomArithmetic DEF RoomToReport
    <2> QED
      BY <2>1, <2>2, <2>4
  <1> QED
    BY <1>1, <1>2, <1>11

-------------------------------------------------------------------------------
\* Steps of the worker.

\* What PaymentOn asks of r after a step that leaves its session on chain alone.
LEMMA HandKeepsPayment ==
    ASSUME NodeInv, NEW r \in Requests, link[r] # NoLink, PaymentOn(r),
           UNCHANGED <<ledger, link, stream, served>>,
           ledger[link[r]].status = "open" =>
               /\ disk'[r] # NoSession => ledger[link[r]].usage >= disk'[r].outputTokensSynced
               /\ worker'.at = "reporting" /\ worker'.current = r =>
                      worker'.tx \in mempool' \/ ledger[link[r]].usage >= worker'.todo[r].tokensOutput
               /\ worker'.at = "refresh" /\ worker'.current = r =>
                      ledger[link[r]].usage >= worker'.todo[r].tokensOutput
               /\ \A tx \in mempool' \ mempool :
                      tx.request = r /\ tx.kind = "settleByOperator" /\ tx.full =>
                          PaidUp(r, ledger[link[r]].paid + tx.toProvider)
    PROVE  PaymentOn(r)'
  <1>1. \A paid : PaidUp(r, paid)' <=> PaidUp(r, paid)
    BY DEF PaidUp
  <1> QED
    BY <1>1 DEF PaymentOn

\* Requests the worker does not have in hand.
LEMMA WorkerElsewhere ==
    ASSUME NodeInv, NEW r \in Requests, WorkerStep(r) \/ GiveUp(r) \/ LoseConfirmation(r),
           NEW q \in Requests \ {r}
    PROVE  PaymentQuiet(q)
  <1>1. UNCHANGED <<ledger, link, stream, served>>
    BY DEF WorkerStep, Inspect, ConfirmUsage, Refresh, ConfirmSettle, GiveUp, LoseConfirmation,
           MarkSettled, Send, chainVars, streamVars
  <1>2. disk'[q] = disk[q]
    BY DEF WorkerStep, Inspect, ConfirmUsage, Refresh, ConfirmSettle, GiveUp, LoseConfirmation,
           MarkSettled, Send, manager, Close, Save, UpdateTokensSynced, UpdateTeeAnchorTokens,
           NodeInv, TypeOK
  <1>3. worker'.current # q
    BY NodeAssumption
       DEF WorkerStep, Inspect, ConfirmUsage, Refresh, ConfirmSettle, GiveUp, LoseConfirmation,
           MarkSettled, Send, NextCandidate, AtNext, Busy
  <1>4. ASSUME NEW tx \in mempool' PROVE tx \in mempool \/ tx.request # q
    <2>1. CASE mempool' = mempool
      BY <2>1
    <2>2. CASE Inspect(r)
      BY <2>1, <2>2 DEF Inspect, MarkSettled, Send, chainVars
    <2>3. CASE Refresh(r)
      <3>1. SettleTx(r).request # q
        BY <2>3, RefreshCases, HandlesCurrent, SettleIsTx DEF InHand
      <3>2. CASE Send(r, SettleTx(r), "settling")
        BY <3>1, <3>2 DEF Send
      <3> QED
        BY <2>1, <2>3, <3>2, RefreshCases DEF MarkSettled, chainVars
    <2> QED
      BY <2>1, <2>2, <2>3 DEF WorkerStep, ConfirmUsage, ConfirmSettle, GiveUp, LoseConfirmation,
                              chainVars
  <1> QED
    BY <1>1, <1>2, <1>3, <1>4 DEF PaymentQuiet

\* The settle of a session whose usage covers the clone pays up.
LEMMA SettlePays ==
    ASSUME NodeInv, NothingAside, NEW r \in Requests, worker.todo[r] # NoSession,
           ledger[link[r]].status = "open", SettleFull(r),
           ledger[link[r]].usage >= worker.todo[r].tokensOutput
    PROVE  PaidUp(r, ledger[link[r]].paid + ToProvider(r))
  <1>1. link[r] \in ChainIds
    BY Candidate
  <1>2. PICK e : e = ledger[link[r]]
    OBVIOUS
  <1>3. e \in Entry /\ EntryOK(e) /\ e.paid + e.locked = e.opening
    BY <1>1, <1>2 DEF NodeInv, TypeOK, LedgerTypeOK, LedgerBooks, NothingAside
  <1>4. stream[r] = "ended" /\ worker.todo[r].tokensOutput = served[r]
    BY DEF NodeInv, CloneOK, SettleFull
  <1>5. Claim(e) = e.locked \/ e.paid + Claim(e) = e.usage
    BY <1>3, ClaimBounds
  <1>6. PICK p : p = e.paid + Claim(e)
    OBVIOUS
  <1>7. p = e.opening \/ p >= served[r]
    BY <1>2, <1>3, <1>4, <1>5, <1>6
  <1>8. p = ledger[link[r]].paid + ToProvider(r)
    BY <1>2, <1>6 DEF ToProvider
  <1> QED
    BY <1>2, <1>4, <1>7, <1>8 DEF PaidUp

LEMMA WorkerPays ==
    ASSUME NodeInv, NothingAside, NodeReports, NEW r \in Requests, link[r] # NoLink,
           PaymentOn(r), WorkerStep(r) \/ GiveUp(r) \/ LoseConfirmation(r)
    PROVE  PaymentOn(r)'
  <1>1. UNCHANGED <<ledger, link, stream, served>>
    BY DEF WorkerStep, Inspect, ConfirmUsage, Refresh, ConfirmSettle, GiveUp, LoseConfirmation,
           MarkSettled, Send, chainVars, streamVars
  <1>2. CASE ledger[link[r]].status # "open"
    BY <1>1, <1>2, HandKeepsPayment
  <1>3. CASE ledger[link[r]].status = "open"
    <2>1. PICK e : e = ledger[link[r]]
      OBVIOUS
    <2>2. /\ e.usage \in Nat
          /\ disk[r] # NoSession => e.usage >= disk[r].outputTokensSynced
      BY <1>3, <2>1 DEF NodeInv, TypeOK, LedgerTypeOK, Entry, PaymentOn
    <2>3. CASE NextCandidate(r) /\ mempool' = mempool /\ disk'[r] = disk[r]
      BY <1>1, <1>3, <2>1, <2>2, <2>3, HandKeepsPayment DEF NextCandidate, AtNext
    <2>4. CASE Inspect(r)
      <3>1. worker.at = "next" /\ worker.todo[r] # NoSession
        BY <2>4 DEF Inspect
      <3>2. CASE \E tx : tx.kind = "recordUsage" /\ Send(r, tx, "reporting")
        <4>1. PICK tx : tx.kind = "recordUsage" /\ Send(r, tx, "reporting")
          BY <3>2
        <4>2. /\ mempool' = mempool \cup {tx} /\ disk' = disk
              /\ worker'.at = "reporting" /\ worker'.tx = tx
          BY <4>1 DEF Send, Busy, manager
        <4> QED
          BY <1>1, <1>3, <2>1, <2>2, <4>1, <4>2, HandKeepsPayment
      <3>3. CASE /\ Unreported(worker.todo[r]) = 0
                 /\ worker' = Busy("refresh", r, NoTx)
                 /\ UNCHANGED <<chainVars, manager>>
        <4>1. worker.current # r
          BY <3>1, NodeAssumption DEF NodeInv, WorkerShape
        <4>2. worker.todo[r].outputTokensSynced = sessions[r].outputTokensSynced
          BY <3>1, <4>1 DEF NodeInv, CloneOK
        <4>3. /\ worker.todo[r] \in Session /\ disk[r] = sessions[r] /\ disk[r] # NoSession
          BY <3>1, Candidate
        <4>4. worker.todo[r].tokensOutput <= worker.todo[r].outputTokensSynced
          BY <3>3, <4>3 DEF Unreported, Session
        <4>5. e.usage >= worker.todo[r].tokensOutput
          BY <2>2, <4>2, <4>3, <4>4 DEF Session
        <4>6. /\ mempool' = mempool /\ disk' = disk
              /\ worker'.at = "refresh" /\ worker'.todo = worker.todo
          BY <3>3 DEF Busy, chainVars, manager
        <4> QED
          BY <1>1, <1>3, <2>1, <2>2, <4>5, <4>6, HandKeepsPayment
      <3> QED
        BY <1>3, <2>4, <3>2, <3>3 DEF Inspect
    <2>5. CASE ConfirmUsage(r)
      <3>1. /\ worker.at = "reporting" /\ worker.current = r /\ worker.tx \notin mempool
            /\ worker' = Busy("refresh", r, NoTx) /\ mempool' = mempool
        BY <2>5 DEF ConfirmUsage, chainVars
      <3>2. e.usage >= worker.todo[r].tokensOutput
        BY <1>3, <2>1, <3>1 DEF PaymentOn
      <3>3. worker.todo[r] # NoSession
        BY <3>1, HandlesCurrent DEF InHand
      <3>4. sessions[r] \in Session /\ sessions[r] # NoSession
        BY <3>3, Candidate
      <3>5. disk'[r] = [sessions[r] EXCEPT !.outputTokensSynced = worker.todo[r].tokensOutput]
        BY <2>5, <3>4 DEF ConfirmUsage, UpdateTokensSynced, Save, NodeInv, TypeOK
      <3>6. disk'[r].outputTokensSynced = worker.todo[r].tokensOutput
        BY <3>4, <3>5 DEF Session
      <3>7. worker'.at = "refresh" /\ worker'.todo = worker.todo
        BY <3>1 DEF Busy
      <3> QED
        BY <1>1, <1>3, <2>1, <3>1, <3>2, <3>6, <3>7, HandKeepsPayment
    <2>6. CASE Refresh(r)
      <3>1. CASE /\ NextCandidate(r)
                 /\ UNCHANGED <<chainVars, manager, streamVars, routerSaw, troubles, config>>
        BY <2>3, <3>1 DEF chainVars, manager
      <3>2. CASE Send(r, SettleTx(r), "settling")
        <4>1. worker.at = "refresh" /\ worker.current = r /\ worker.todo[r] # NoSession
          BY <2>6, RefreshCases, HandlesCurrent DEF InHand
        <4>2. e.usage >= worker.todo[r].tokensOutput
          BY <1>3, <2>1, <4>1 DEF PaymentOn
        <4>3. PICK tx : tx = SettleTx(r)
          OBVIOUS
        <4>4. tx.toProvider = ToProvider(r) /\ tx.full = SettleFull(r)
          BY <4>1, <4>3, SettleIsTx
        <4>5. tx.full => PaidUp(r, e.paid + tx.toProvider)
          BY <1>3, <2>1, <4>1, <4>2, <4>4, SettlePays
        <4>6. /\ mempool' = mempool \cup {tx} /\ disk' = disk /\ worker'.at = "settling"
          BY <3>2, <4>3 DEF Send, Busy, manager
        <4> QED
          BY <1>1, <1>3, <2>1, <2>2, <4>5, <4>6, HandKeepsPayment
      <3> QED
        BY <1>3, <2>6, <3>1, <3>2, RefreshCases
    <2>7. CASE ConfirmSettle(r)
      <3>1. /\ worker.at = "settling" /\ worker.current = r
            /\ worker'.at = "next" /\ mempool' = mempool
        BY <2>7 DEF ConfirmSettle, NextCandidate, AtNext, chainVars
      <3>2. worker.todo[r] # NoSession
        BY <3>1, HandlesCurrent DEF InHand
      <3>3. sessions[r] \in Session /\ sessions[r] # NoSession /\ disk[r] = sessions[r]
        BY <3>2, Candidate
      <3>4. \/ disk'[r] = [sessions[r] EXCEPT !.state = "Settled"]
            \/ disk'[r] = [sessions[r] EXCEPT !.teeAnchorTokens = worker.todo[r].tokensOutput]
        BY <2>7, <3>3 DEF ConfirmSettle, Close, UpdateTeeAnchorTokens, Save, NodeInv, TypeOK
      <3>5. disk'[r].outputTokensSynced = disk[r].outputTokensSynced
        BY <3>3, <3>4 DEF Session
      <3> QED
        BY <1>1, <1>3, <2>1, <2>2, <3>1, <3>3, <3>5, HandKeepsPayment
    <2>8. CASE GiveUp(r) \/ LoseConfirmation(r)
      BY <2>3, <2>8 DEF GiveUp, LoseConfirmation, chainVars, manager
    <2> QED
      BY <2>4, <2>5, <2>6, <2>7, <2>8 DEF WorkerStep
  <1> QED
    BY <1>2, <1>3

LEMMA WorkerKeepsPayment ==
    ASSUME NodeInv, PaymentInv, NEW r \in Requests,
           WorkerStep(r) \/ GiveUp(r) \/ LoseConfirmation(r)
    PROVE  PaymentInv'
  <1>1. NodeInv'
    BY WorkerStepKeeps
  <1>2. /\ UNCHANGED <<ledger, link, config>>
        /\ lost' >= lost /\ restarts' >= restarts /\ userSettles' >= userSettles
    BY DEF WorkerStep, Inspect, ConfirmUsage, Refresh, ConfirmSettle, GiveUp, LoseConfirmation,
           MarkSettled, Send, chainVars, streamVars, troubles, NodeInv, TypeOK
  <1> SUFFICES ASSUME Uncontested', NodeReports'
               PROVE  NothingAside' /\ \A q \in Requests : Single(q)' => PaymentOn(q)'
    BY DEF PaymentInv, Single
  <1>3. Uncontested /\ NodeReports
    BY <1>1, <1>2, UncontestedBefore DEF NodeReports
  <1>4. NothingAside /\ \A q \in Requests : Single(q) => PaymentOn(q)
    BY <1>3 DEF PaymentInv, Single
  <1>5. NothingAside'
    BY <1>2, <1>4 DEF NothingAside
  <1>6. ASSUME NEW q \in Requests, Single(q)' PROVE PaymentOn(q)'
    <2>1. Single(q) /\ link[q] # NoLink
      BY <1>2, <1>6 DEF Single, Alone, LinkedTo
    <2>2. CASE q = r
      BY <1>3, <1>4, <2>1, <2>2, WorkerPays
    <2>3. CASE q # r
      BY <1>4, <2>1, <2>3, WorkerElsewhere, QuietKeepsPayment
    <2> QED
      BY <2>2, <2>3
  <1> QED
    BY <1>5, <1>6

-------------------------------------------------------------------------------
\* Steps of the chain.

\* Transactions of other requests.
LEMMA MineElsewhere ==
    ASSUME NodeInv, NEW tx \in mempool, Mine(tx),
           NEW q \in Requests, Single(q), q # tx.request
    PROVE  PaymentQuiet(q)
  <1>1. /\ mempool' = mempool \ {tx}
        /\ UNCHANGED <<worker, disk, stream, link, served>>
    BY DEF Mine, manager, streamVars
  <1>2. tx.request \in Requests /\ link[q] # link[tx.request] /\ link[q] \in ChainIds
    BY Linked DEF Single, Alone, LinkedTo, NodeInv, TypeOK
  <1>3. ledger'[link[q]] = ledger[link[q]]
    BY <1>2, MineCases
  <1>4. worker.at \in {"reporting", "refresh"} /\ worker.current = q => worker.tx # tx
    BY NothingAssumption DEF NodeInv, TypeOK, WorkerShape
  <1> QED
    BY <1>1, <1>3, <1>4 DEF PaymentQuiet

\* A partial settle in flight is the one the worker waits for, and alone.
LEMMA PartialAlone ==
    ASSUME NodeInv, OneInFlight, NEW tx \in mempool, tx.kind = "settleByOperator", ~tx.full
    PROVE  mempool = {tx} /\ worker.at = "settling"
  <1>1. config.tier # "BestEffort"
    BY DEF NodeInv, MempoolOK
  <1>2. worker.tx = tx /\ mempool = {tx}
    BY <1>1 DEF OneInFlight
  <1>3. worker \in Worker /\ tx \in Tx
    BY DEF NodeInv, TypeOK
  <1>4. worker.at \in {"asleep", "next", "reporting", "refresh", "settling"}
    BY <1>3 DEF Worker
  <1>5. worker.at = "asleep" => worker.tx = NoTx
    BY DEF NodeInv, WorkerShape, Asleep
  <1>6. worker.at \in {"next", "refresh"} => worker.tx = NoTx
    BY DEF NodeInv, WorkerShape
  <1>7. worker.at = "reporting" => worker.tx.kind = "recordUsage"
    BY DEF NodeInv, WorkerShape
  <1> QED
    BY <1>2, <1>3, <1>4, <1>5, <1>6, <1>7, NothingAssumption

\* A report that is mined covers the clone it was computed from.
LEMMA ReportPays ==
    ASSUME NodeInv, NEW tx \in mempool, Mine(tx), NEW q \in Requests, q = tx.request,
           link[q] # NoLink, PaymentOn(q),
           tx.kind = "recordUsage", Report(link[q], tx.tokens)
    PROVE  PaymentOn(q)'
  <1>1. /\ mempool' = mempool \ {tx}
        /\ UNCHANGED <<worker, disk, stream, link, served>>
    BY DEF Mine, manager, streamVars
  <1>2. PICK id \in ChainIds : id = link[q]
    BY DEF NodeInv, TypeOK
  <1>3. tx.tokens \in Nat
    BY Linked
  <1>4. PICK e, f : e = ledger[id] /\ f = ledger'[id]
    OBVIOUS
  <1>5. /\ e.status = "open" /\ f.status = "open" /\ f.opening = e.opening
        /\ f.paid = e.paid /\ f.usage = e.usage + tx.tokens
    <2>1. e.status = "open"
      BY <1>2, <1>4 DEF Report, Reportable
    <2>2. Report(id, tx.tokens)
      BY <1>2
    <2> QED
      BY <1>3, <1>4, <2>1, <2>2, ReportKeeps
  <1>6. e.usage \in Nat
    BY <1>4 DEF NodeInv, TypeOK, LedgerTypeOK, Entry
  <1>7. \A paid : PaidUp(q, paid) => PaidUp(q, paid)'
    BY <1>1, <1>2, <1>4, <1>5 DEF PaidUp
  <1>8. disk[q] # NoSession => f.usage >= disk[q].outputTokensSynced
    <2>1. disk[q] # NoSession =>
              e.usage >= disk[q].outputTokensSynced /\ disk[q].outputTokensSynced \in Nat
      BY <1>2, <1>4, <1>5 DEF PaymentOn, NodeInv, TypeOK, Session
    <2> QED
      BY <1>3, <1>5, <1>6, <2>1
  <1>9. ASSUME worker.at \in {"reporting", "refresh"}, worker.current = q
        PROVE  \/ worker.at = "reporting" /\ worker.tx \in mempool'
               \/ f.usage >= worker.todo[q].tokensOutput
    <2>1. worker.todo[q] # NoSession
      BY <1>9, HandlesCurrent DEF InHand
    <2>2. worker.todo[q] \in Session /\ disk[q] = sessions[q] /\ disk[q] # NoSession
      BY <2>1, Candidate
    <2>3. worker.todo[q].tokensOutput \in Nat /\ worker.todo[q].outputTokensSynced \in Nat
      BY <2>2 DEF Session
    <2>4. CASE e.usage >= worker.todo[q].tokensOutput
      BY <1>3, <1>5, <1>6, <2>3, <2>4
    <2>5. CASE worker.at = "reporting" /\ worker.tx = tx
      <3>1. tx.tokens = Unreported(worker.todo[q])
        BY <1>9, <2>5 DEF NodeInv, WorkerShape
      <3>2. worker.todo[q].outputTokensSynced = disk[q].outputTokensSynced
        BY <2>1, <2>2, <2>5 DEF NodeInv, CloneOK
      <3>3. e.usage >= worker.todo[q].outputTokensSynced
        BY <1>2, <1>4, <1>5, <2>2, <3>2 DEF PaymentOn
      <3>4. tx.tokens + worker.todo[q].outputTokensSynced >= worker.todo[q].tokensOutput
        BY <2>3, <3>1 DEF Unreported
      <3> QED
        BY <1>3, <1>5, <1>6, <2>3, <3>3, <3>4
    <2>6. CASE worker.at = "reporting" /\ worker.tx # tx /\ worker.tx \in mempool
      BY <1>1, <2>6
    <2> QED
      BY <1>2, <1>4, <1>5, <1>9, <2>4, <2>5, <2>6 DEF PaymentOn
  <1>10. ASSUME NEW sent \in mempool', sent.request = q, sent.kind = "settleByOperator", sent.full
         PROVE  PaidUp(q, f.paid + sent.toProvider)'
    <2>1. sent \in mempool
      BY <1>1
    <2>2. PaidUp(q, e.paid + sent.toProvider)
      BY <1>2, <1>4, <1>5, <1>10, <2>1 DEF PaymentOn
    <2> QED
      BY <1>5, <1>7, <2>2
  <1> QED
    BY <1>1, <1>2, <1>4, <1>5, <1>8, <1>9, <1>10 DEF PaymentOn

\* A settle that is mined pays up, or pays a part of the lock and nothing else.
LEMMA ReleasePays ==
    ASSUME NodeInv, PaymentShape, OneInFlight, NothingAside,
           NEW tx \in mempool, Mine(tx), NEW q \in Requests, q = tx.request,
           link[q] # NoLink, PaymentOn(q),
           tx.kind = "settleByOperator", Succeeds(tx), Release(link[q], tx.toProvider, tx.toUser)
    PROVE  PaymentOn(q)'
  <1>1. /\ mempool' = mempool \ {tx}
        /\ UNCHANGED <<worker, disk, stream, link, served>>
    BY DEF Mine, manager, streamVars
  <1>2. PICK id \in ChainIds : id = link[q]
    BY DEF NodeInv, TypeOK
  <1>3. PICK p \in Nat, u \in Nat : p = tx.toProvider /\ u = tx.toUser
    BY Linked
  <1>4. PICK e, f : e = ledger[id] /\ f = ledger'[id]
    OBVIOUS
  <1>5. f = Released(e, p, u)
    BY <1>2, <1>3, <1>4, ReleaseKeeps
  <1>6. /\ f.opening = e.opening /\ f.usage = e.usage /\ f.paid = e.paid + p
        /\ f.status = IF e.locked = p + u THEN "settled" ELSE "open"
    BY <1>5 DEF Released
  <1>7. e \in Entry /\ e.status = "open" /\ e.paid + e.locked = e.opening
    BY <1>2, <1>4 DEF NodeInv, TypeOK, LedgerTypeOK, NothingAside, Release, Releasable
  <1>8. \A paid : PaidUp(q, paid) => PaidUp(q, paid)'
    BY <1>1, <1>2, <1>4, <1>6 DEF PaidUp
  <1>9. CASE tx.full
    <2>1. f.status = "settled"
      BY <1>2, <1>3, <1>4, <1>6, <1>9 DEF Succeeds
    <2>2. PaidUp(q, e.paid + p)
      BY <1>2, <1>3, <1>4, <1>7, <1>9 DEF PaymentOn
    <2>3. PaidUp(q, f.paid)'
      BY <1>6, <1>8, <2>2
    <2> QED
      BY <1>1, <1>2, <1>4, <2>1, <2>3 DEF PaymentOn
  <1>10. CASE ~tx.full
    <2>1. mempool' = {} /\ worker.at = "settling"
      BY <1>1, <1>10, PartialAlone
    <2>2. u = 0
      BY <1>3, <1>10 DEF PaymentShape
    <2>3. f.status = "settled" => f.paid = f.opening
      BY <1>6, <1>7, <2>2 DEF Entry
    <2>4. f.status = "settled" => PaidUp(q, f.paid)'
      BY <1>1, <1>2, <1>4, <2>3 DEF PaidUp
    <2>5. disk[q] # NoSession => f.usage >= disk[q].outputTokensSynced
      BY <1>2, <1>4, <1>6, <1>7 DEF PaymentOn
    <2> QED
      BY <1>1, <1>2, <1>4, <2>1, <2>4, <2>5 DEF PaymentOn
  <1> QED
    BY <1>9, <1>10

\* A transaction that reverts: not a report of an open session, which has room.
LEMMA RevertPays ==
    ASSUME NodeInv, BillingInv, PaymentShape, RoomToReport,
           NEW tx \in mempool, Mine(tx), NEW q \in Requests, q = tx.request, Single(q),
           PaymentOn(q), ~Succeeds(tx), UNCHANGED ledger
    PROVE  PaymentOn(q)'
  <1>1. /\ mempool' = mempool \ {tx}
        /\ UNCHANGED <<worker, disk, stream, link, served>>
    BY DEF Mine, manager, streamVars
  <1>2. link[q] # NoLink
    BY DEF Single
  <1>3. CASE ledger[link[q]].status = "open"
    <2>1. tx.kind # "recordUsage"
      <3>1. tx.kind = "recordUsage" => ledger[link[q]].usage + tx.tokens <= MaxReported
        BY RoomForReport
      <3> QED
        BY <1>3, <3>1 DEF Succeeds, Reportable
    <2>2. worker.at \in {"reporting", "refresh"} => worker.tx # tx
      BY <2>1, NothingAssumption DEF NodeInv, TypeOK, WorkerShape
    <2>3. PaymentQuiet(q)
      BY <1>1, <2>2 DEF PaymentQuiet
    <2> QED
      BY <1>2, <2>3, QuietKeepsPayment
  <1>4. CASE ledger[link[q]].status # "open"
    <2>1. \A paid : PaidUp(q, paid) => PaidUp(q, paid)'
      BY <1>1 DEF PaidUp
    <2> QED
      BY <1>1, <1>4, <2>1 DEF PaymentOn
  <1> QED
    BY <1>3, <1>4

\* What is not locked has been paid, after a transaction too.
LEMMA MineNothingAside ==
    ASSUME NodeInv, PaymentShape, NothingAside, NEW tx \in mempool, Mine(tx)
    PROVE  NothingAside'
  <1> SUFFICES ASSUME NEW id \in ChainIds, ledger'[id].status = "open"
               PROVE  ledger'[id].paid + ledger'[id].locked = ledger'[id].opening
    BY DEF NothingAside
  <1>1. CASE ledger'[id] = ledger[id]
    BY <1>1 DEF NothingAside
  <1>2. CASE id = link[tx.request] /\ tx.kind = "recordUsage" /\ Report(id, tx.tokens)
    <2>1. tx.tokens \in Nat /\ ledger[id].status = "open"
      BY <1>2, Linked DEF Report, Reportable
    <2> QED
      BY <1>2, <2>1, ReportKeeps DEF NothingAside
  <1>3. CASE /\ id = link[tx.request] /\ tx.kind = "settleByOperator" /\ Succeeds(tx)
             /\ Release(id, tx.toProvider, tx.toUser)
    <2>1. PICK p \in Nat, u \in Nat : p = tx.toProvider /\ u = tx.toUser
      BY <1>3, Linked
    <2>2. PICK e, f : e = ledger[id] /\ f = ledger'[id]
      OBVIOUS
    <2>3. f = Released(e, p, u)
      BY <1>3, <2>1, <2>2, ReleaseKeeps
    <2>4. /\ e \in Entry /\ e.status = "open" /\ e.paid + e.locked = e.opening
          /\ p + u <= e.locked
      BY <1>3, <2>1, <2>2 DEF NodeInv, TypeOK, LedgerTypeOK, NothingAside, Release, Releasable
    <2>5. /\ f.status = IF e.locked = p + u THEN "settled" ELSE "open"
          /\ f.opening = e.opening /\ f.locked = e.locked - (p + u) /\ f.paid = e.paid + p
      BY <2>3 DEF Released
    <2>6. e.locked # p + u
      BY <2>2, <2>5
    <2>7. ~tx.full
      BY <1>3, <2>1, <2>2, <2>6 DEF Succeeds
    <2>8. u = 0
      BY <1>3, <2>1, <2>7 DEF PaymentShape
    <2> QED
      BY <2>2, <2>4, <2>5, <2>8 DEF Entry
  <1> QED
    BY <1>1, <1>2, <1>3, MineCases

LEMMA MineKeepsPayment ==
    ASSUME NodeInv, BillingInv, SettleInv, PaymentShape, PaymentInv, RoomToReport,
           NEW tx \in mempool, Mine(tx)
    PROVE  PaymentInv'
  <1>1. UNCHANGED <<link, config, lost, restarts, userSettles>>
    BY DEF Mine, streamVars, troubles
  <1> SUFFICES ASSUME Uncontested', NodeReports'
               PROVE  NothingAside' /\ \A q \in Requests : Single(q)' => PaymentOn(q)'
    BY DEF PaymentInv, Single
  <1>2. Uncontested /\ NodeReports
    BY <1>1 DEF Uncontested, Unconfirmed, NodeReports
  <1>3. NothingAside /\ OneInFlight /\ \A q \in Requests : Single(q) => PaymentOn(q)
    BY <1>2 DEF PaymentInv, SettleInv, Single
  <1>4. NothingAside'
    BY <1>3, MineNothingAside
  <1>5. ASSUME NEW q \in Requests, Single(q)' PROVE PaymentOn(q)'
    <2>1. Single(q) /\ link[q] # NoLink
      BY <1>1, <1>5 DEF Single, Alone, LinkedTo
    <2>2. CASE q # tx.request
      BY <1>3, <2>1, <2>2, MineElsewhere, QuietKeepsPayment
    <2>3. CASE q = tx.request
      <3>1. PaymentOn(q)
        BY <1>3, <2>1
      <3>2. CASE ~Succeeds(tx) /\ UNCHANGED ledger
        BY <2>1, <2>3, <3>1, <3>2, RevertPays
      <3>3. CASE tx.kind = "recordUsage" /\ Report(link[q], tx.tokens)
        BY <2>1, <2>3, <3>1, <3>3, ReportPays
      <3>4. CASE /\ tx.kind = "settleByOperator" /\ Succeeds(tx)
                 /\ Release(link[q], tx.toProvider, tx.toUser)
        BY <1>3, <2>1, <2>3, <3>1, <3>4, ReleasePays
      <3> QED
        BY <2>3, <3>2, <3>3, <3>4, MineCases
    <2> QED
      BY <2>2, <2>3
  <1> QED
    BY <1>4, <1>5

-------------------------------------------------------------------------------
\* The other steps.

LEMMA UserKeepsPayment ==
    ASSUME NodeInv, PaymentShape, PaymentInv, UserStep
    PROVE  PaymentInv'
  <1> SUFFICES ASSUME Uncontested', NodeReports'
               PROVE  NothingAside' /\ \A q \in Requests : Single(q)' => PaymentOn(q)'
    BY DEF PaymentInv, Single
  <1>1. ASSUME NEW id \in ChainIds, NEW p \in 0..ledger[id].locked,
               NEW u \in 0..ledger[id].locked, UserSettles(id, p, u)
        PROVE  FALSE
    <2>1. userSettles' = userSettles + 1 /\ userSettles \in Nat
      BY <1>1 DEF UserSettles, NodeInv, TypeOK
    <2> QED
      BY <2>1 DEF Uncontested
  <1>2. PICK id \in ChainIds, amount \in Deposits : UserOpens(id, amount)
    BY <1>1 DEF UserStep
  <1>3. /\ UNCHANGED <<mempool, worker, disk, stream, link, served>>
        /\ UNCHANGED <<config, lost, restarts, userSettles>>
        /\ ledger[id].status = "unknown"
        /\ ledger'[id] = Opened(amount)
        /\ \A i \in ChainIds \ {id} : ledger'[i] = ledger[i]
    BY <1>2, OpenKeeps DEF UserOpens, Open, manager, streamVars, troubles
  <1>4. NothingAside /\ \A q \in Requests : Single(q) => PaymentOn(q)
    BY <1>3 DEF PaymentInv, Single, Uncontested, Unconfirmed, NodeReports
  <1>5. NothingAside'
    <2>1. amount \in Nat
      BY LedgerAssumption
    <2>2. ledger'[id].paid + ledger'[id].locked = ledger'[id].opening
      BY <1>3, <2>1 DEF Opened
    <2> QED
      BY <1>3, <1>4, <2>2 DEF NothingAside
  <1>6. ASSUME NEW q \in Requests, Single(q)' PROVE PaymentOn(q)'
    <2>1. Single(q) /\ link[q] # NoLink
      BY <1>3, <1>6 DEF Single, Alone, LinkedTo
    <2>2. link[q] \in ChainIds /\ link[q] # id
      BY <1>3, <2>1 DEF NodeInv, TypeOK, PaymentShape
    <2>3. PaymentQuiet(q)
      BY <1>3, <2>2 DEF PaymentQuiet
    <2> QED
      BY <1>4, <2>1, <2>3, QuietKeepsPayment
  <1> QED
    BY <1>5, <1>6

\* A step of the loop between candidates, a restart, or none.
LEMMA IdleKeepsPayment ==
    ASSUME NodeInv, NodeInv', PaymentInv,
           UNCHANGED <<ledger, mempool, link, served, config>>,
           lost' >= lost, restarts' >= restarts, userSettles' >= userSettles,
           worker' = worker \/ worker'.at \in {"next", "asleep"},
           \A q \in Requests : stream[q] = "ended" => stream'[q] = "ended",
           \A q \in Requests : disk'[q] = disk[q] \/ disk'[q] = NoSession
    PROVE  PaymentInv'
  <1> SUFFICES ASSUME Uncontested', NodeReports'
               PROVE  NothingAside' /\ \A q \in Requests : Single(q)' => PaymentOn(q)'
    BY DEF PaymentInv, Single
  <1>1. Uncontested /\ NodeReports
    BY UncontestedBefore DEF NodeReports
  <1>2. NothingAside /\ \A q \in Requests : Single(q) => PaymentOn(q)
    BY <1>1 DEF PaymentInv, Single
  <1>3. NothingAside'
    BY <1>2 DEF NothingAside
  <1>4. ASSUME NEW q \in Requests, Single(q)' PROVE PaymentOn(q)'
    <2>1. Single(q) /\ link[q] # NoLink
      BY <1>4 DEF Single, Alone, LinkedTo
    <2>2. PaymentQuiet(q)
      BY DEF PaymentQuiet
    <2> QED
      BY <1>2, <2>1, <2>2, QuietKeepsPayment
  <1> QED
    BY <1>3, <1>4

LEMMA PaymentInit ==
    Init => PaymentInv
  BY DEF Init, PaymentInv, NothingAside, LedgerInit, NoEntry

LEMMA PaymentNext ==
    ASSUME RoomToReport
    PROVE  NodeInv /\ BillingInv /\ SettleInv /\ PaymentShape /\ PaymentInv /\ [Next]_vars
               => PaymentInv'
  <1> SUFFICES ASSUME NodeInv, BillingInv, SettleInv, PaymentShape, PaymentInv, [Next]_vars
               PROVE  PaymentInv'
    OBVIOUS
  <1>0. NodeInv' /\ lost \in Nat /\ restarts \in Nat /\ userSettles \in Nat
    BY NodeInvNext DEF NodeInv, TypeOK
  <1>1. CASE UserStep
    BY <1>1, UserKeepsPayment
  <1>2. ASSUME NEW r \in Requests, StreamStep(r) PROVE PaymentInv'
    BY <1>2, StreamKeepsPayment
  <1>3. ASSUME NEW r \in Requests, WorkerStep(r) \/ GiveUp(r) \/ LoseConfirmation(r)
        PROVE  PaymentInv'
    BY <1>3, WorkerKeepsPayment
  <1>4. ASSUME NEW r \in Requests, RouterReports(r) PROVE PaymentInv'
    <2>1. r \in routerSaw /\ config' = config
      BY <1>4 DEF RouterReports
    <2>2. ~NodeReports /\ ~NodeReports'
      BY <2>1 DEF NodeInv, RouterOK, NodeReports
    <2> QED
      BY <2>2 DEF PaymentInv
  <1>5. CASE \E tee, epoch, gateOpen \in BOOLEAN : Tick(tee, epoch, gateOpen)
    <2>1. /\ UNCHANGED <<ledger, mempool, link, served, config, stream, disk>>
          /\ UNCHANGED <<lost, restarts, userSettles>>
          /\ worker'.at = "next"
      BY <1>5 DEF Tick, AtNext, chainVars, manager, streamVars, troubles
    <2> QED
      BY <1>0, <2>1, IdleKeepsPayment
  <1>6. CASE StartEpochPass \/ Sleep
    <2>1. /\ UNCHANGED <<ledger, mempool, link, served, config, stream, disk>>
          /\ UNCHANGED <<lost, restarts, userSettles>>
          /\ worker'.at \in {"next", "asleep"}
      BY <1>6 DEF StartEpochPass, Sleep, AtNext, Asleep, chainVars, manager, streamVars, troubles
    <2> QED
      BY <1>0, <2>1, IdleKeepsPayment
  <1>7. ASSUME NEW tx \in mempool, Mine(tx) PROVE PaymentInv'
    BY <1>7, MineKeepsPayment
  <1>8. CASE Restart
    <2>1. /\ UNCHANGED <<ledger, mempool, link, served, config, lost, userSettles>>
          /\ restarts' = restarts + 1 /\ worker'.at = "asleep"
      BY <1>8, AsleepShape DEF Restart, chainVars
    <2>2. \A q \in Requests : disk'[q] = disk[q] \/ disk'[q] = NoSession
      BY <1>8 DEF Restart
    <2>3. \A q \in Requests : stream[q] = "ended" => stream'[q] = "ended"
      BY <1>8 DEF Restart
    <2> QED
      BY <1>0, <2>1, <2>2, <2>3, IdleKeepsPayment
  <1>9. CASE UNCHANGED vars
    <2>1. /\ UNCHANGED <<ledger, mempool, link, served, config, stream, disk, worker>>
          /\ UNCHANGED <<lost, restarts, userSettles>>
      BY <1>9 DEF vars, chainVars, manager, streamVars, troubles
    <2> QED
      BY <1>0, <2>1, IdleKeepsPayment
  <1> QED
    BY <1>1, <1>2, <1>3, <1>4, <1>5, <1>6, <1>7, <1>8, <1>9 DEF Next

LEMMA PaymentImplies ==
    NodeInv /\ SettleInv /\ PaymentInv => ProviderPaid
  <1> SUFFICES ASSUME NodeInv, SettleInv, PaymentInv, Uncontested, NodeReports,
                      NEW r \in Requests, MarkedSettled(r), Alone(r)
               PROVE  LET e == OnChain(r) IN e.paid = e.opening \/ e.paid >= served[r]
    BY DEF ProviderPaid, MarkedSettled
  <1>1. OnChain(r).status = "settled"
    BY DEF SettleInv, SettledOnChain, MarkedSettled
  <1>2. link[r] # NoLink /\ OnChain(r) = ledger[link[r]]
    BY <1>1 DEF OnChain, NoEntry
  <1>3. PaymentOn(r)
    BY <1>2 DEF PaymentInv
  <1>4. PaidUp(r, OnChain(r).paid)
    BY <1>1, <1>2, <1>3 DEF PaymentOn
  <1> QED
    BY <1>2, <1>4 DEF PaidUp

\* A session the node has marked settled, with one request, metered by the node and
\* released by nobody else, has paid the provider for every token served, or the
\* whole deposit: through restarts and lost confirmations, process_settlement_tick
\* reports a session's usage before it computes the split.
THEOREM ProviderAlwaysPaid ==
    ASSUME RoomToReport
    PROVE  Spec => []ProviderPaid
  <1>1. Init => NodeInv /\ BillingInv /\ SettleInv /\ PaymentShape /\ PaymentInv
    BY NodeInvInit, BillingInit, SettleInit, ShapeInit, PaymentInit
  <1>2. NodeInv /\ BillingInv /\ SettleInv /\ PaymentShape /\ PaymentInv /\ [Next]_vars
            => (NodeInv /\ BillingInv /\ SettleInv /\ PaymentShape /\ PaymentInv)'
    BY NodeInvNext, BillingNext, SettleNext, ShapeNext, PaymentNext
  <1> QED
    BY <1>1, <1>2, PaymentImplies, PTL DEF Spec
===============================================================================
