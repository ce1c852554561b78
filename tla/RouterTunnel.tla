------------------------------ MODULE RouterTunnel ------------------------------
(***************************************************************************)
(* The node's tunnel to sparkl-router (router_client/): connect, challenge *)
(* and ready, the frame loop, one task per request forwarded to the node's *)
(* own HTTP API, session activation, and the reconnect loop around it all. *)
(*                                                                         *)
(* A task keeps the sending half of the websocket it was spawned from,     *)
(* also after the loop has left it.  A websocket is lost in three ways:    *)
(* both halves fail; the loop's read ends while the sending half still     *)
(* carries frames; or the other end falls silent and nothing tells the     *)
(* node, whose reads wait without a timeout and whose sends are lost.      *)
(* The router and the escrow's session table are external: the router asks *)
(* under fresh request ids; a session has an owner and a node, and is      *)
(* settled at some point.  Pings are answered on the same socket and leave *)
(* no trace.                                                               *)
(***************************************************************************)
EXTENDS Integers, Sequences, FiniteSets

CONSTANTS
    Rids,                   \* request ids (UUIDs) the router uses
    Users, NoUser,          \* EVM addresses, address(0)
    ChainSession,           \* escrow session id -> [user, here]: its user and whether
                            \* it is for this node
    RouterConfigs,          \* configurations the node may run under
    MaxChunks,              \* bound: chunks of one answer
    MaxDrops                \* bound: attempts and websockets that are lost

\* reconnect_min_secs, reconnect_max_secs, settlement.enabled.
RouterConfig == [reconnectMin : Nat, reconnectMax : Nat, settlement : BOOLEAN]

ChainIds == DOMAIN ChainSession
NoBearer == [kind |-> "none"]
\* Bearer <sessionId>, and Bearer sk_<sessionId, secret>: derive_bearer_secret hashes
\* the node's secret, the session id and the user.
PlainId(s) == [kind |-> "id", session |-> s]
SkToken(s, user) == [kind |-> "sk", session |-> s, secret |-> <<s, user>>]

ASSUME TunnelAssumption ==
    /\ NoUser \notin Users
    /\ \A s \in ChainIds : ChainSession[s].user \in Users \cup {NoUser}
    /\ RouterConfigs \subseteq RouterConfig
    /\ MaxChunks \in Nat \ {0}
    /\ MaxDrops \in Nat

VARIABLES
    config,
    phase,                  \* of the client loop
    backoff,                \* the delay of the next sleep, without its jitter
    slept,                  \* the sleep before the attempt being made, 0 if none
    tunnel,                 \* websockets opened so far; the last one is the loop's
    alive,                  \* websockets whose sending half carries frames
    silent,                 \* websockets with nobody at the other end, unnoticed
    ended,                  \* the loop's next read returns a Close, an error or nothing
    wire,                   \* frames the router has sent and the loop has not read
    task,                   \* [Rids -> task or its absence]
    delivered,              \* [Rids -> Seq of frames], as the router receives them
    settled,                \* escrow sessions that are settled
    minted,                 \* bearers handed out
    drops

linkVars == <<phase, backoff, slept, tunnel, alive, silent, ended, wire, drops>>
taskVars == <<task, delivered, minted>>
vars == <<config, linkVars, taskVars, settled>>

\* Time in quarters of a second: the jitter is up to a quarter of a whole number of
\* seconds, and the milliseconds in between reach no other bound.
Second == 4
MinDelay == Second * (IF config.reconnectMin > 1 THEN config.reconnectMin ELSE 1)
MaxDelay == IF Second * config.reconnectMax > MinDelay THEN Second * config.reconnectMax ELSE MinDelay

NoTask == [at |-> "none"]
Frames == {"Chunk", "End", "Error", "ActivateResponse"}
Final == Frames \ {"Chunk"}
Ask == [rid : Rids, bearer : {NoBearer} \cup {PlainId(s) : s \in ChainIds} \cup minted]
       \cup [rid : Rids, session : ChainIds, signer : Users]

Init ==
    /\ config \in RouterConfigs
    /\ phase = "connecting"
    /\ backoff = MinDelay
    /\ slept = 0
    /\ tunnel = 0
    /\ alive = {}
    /\ silent = {}
    /\ ended = FALSE
    /\ wire = {}
    /\ task = [r \in Rids |-> NoTask]
    /\ delivered = [r \in Rids |-> <<>>]
    /\ settled = {}
    /\ minted = {}
    /\ drops = 0

-------------------------------------------------------------------------------
\* The client loop.

\* The loop waits on its websocket: for the upgrade and the challenge, for Ready, or
\* for the next frame.
Waiting == phase \in {"challenge", "ready", "open"}

\* Websockets whose sending half a running task holds.
Held == {task[r].tunnel : r \in {q \in Rids : task[q].at \notin {"none", "done"}}}

Connect ==
    /\ phase = "connecting"
    /\ tunnel' = tunnel + 1
    /\ alive' = alive \cup {tunnel + 1}
    /\ phase' = "challenge"
    /\ slept' = 0
    /\ UNCHANGED <<config, backoff, silent, ended, wire, drops, taskVars, settled>>

\* The challenge is signed and answered; Ready opens the tunnel.
Handshake ==
    /\ phase \in {"challenge", "ready"}
    /\ tunnel \in alive
    /\ phase' = IF phase = "challenge" THEN "ready" ELSE "open"
    /\ UNCHANGED <<config, backoff, slept, tunnel, alive, silent, ended, wire, drops, taskVars,
                   settled>>

\* Mutant: an error before Ready ends the client.
HandshakeFailsForGood ==
    /\ phase = "connecting" \/ (phase \in {"challenge", "ready"} /\ tunnel \in alive)
    /\ drops < MaxDrops
    /\ drops' = drops + 1
    /\ phase' = "stopped"
    /\ alive' = IF phase = "connecting" THEN alive ELSE alive \ {tunnel}
    /\ slept' = 0
    /\ UNCHANGED <<config, backoff, tunnel, silent, ended, wire, taskVars, settled>>

\* Not reached, closed early, or any other frame than the one expected.
HandshakeFails ==
    /\ phase = "connecting" \/ (phase \in {"challenge", "ready"} /\ tunnel \in alive)
    /\ drops < MaxDrops
    /\ drops' = drops + 1
    /\ phase' = "backoff"
    /\ alive' = IF phase = "connecting" THEN alive ELSE alive \ {tunnel}
    /\ slept' = 0
    /\ UNCHANGED <<config, backoff, tunnel, silent, ended, wire, taskVars, settled>>

\* A websocket in use by the open loop, or still held by tasks of an earlier one, is
\* reset or closed; tasks may notice before the loop does.
Break(w) ==
    /\ w \in alive
    /\ IF w = tunnel /\ Waiting THEN phase = "open" ELSE w \in Held
    /\ drops < MaxDrops
    /\ drops' = drops + 1
    /\ alive' = alive \ {w}
    /\ ended' = (ended \/ (w = tunnel /\ phase = "open"))
    /\ UNCHANGED <<config, phase, backoff, slept, tunnel, silent, wire, taskVars, settled>>

\* The read half fails on what it receives; the sending half does not.
ReadBreaks ==
    /\ phase = "open" /\ tunnel \in alive /\ ~ended
    /\ drops < MaxDrops
    /\ drops' = drops + 1
    /\ ended' = TRUE
    /\ UNCHANGED <<config, phase, backoff, slept, tunnel, alive, silent, wire, taskVars, settled>>

\* The other end is gone and nothing says so.
FallsSilent ==
    /\ Waiting /\ tunnel \in alive /\ ~ended
    /\ drops < MaxDrops
    /\ drops' = drops + 1
    /\ alive' = alive \ {tunnel}
    /\ silent' = silent \cup {tunnel}
    /\ UNCHANGED <<config, phase, backoff, slept, tunnel, ended, wire, taskVars, settled>>

\* The kernel gives the connection up: it does so only for data sent and never
\* acknowledged, so nothing guarantees it.
SilenceNoticed ==
    /\ Waiting /\ tunnel \in silent
    /\ silent' = silent \ {tunnel}
    /\ ended' = TRUE
    /\ UNCHANGED <<config, phase, backoff, slept, tunnel, alive, wire, drops, taskVars, settled>>

\* run_connected_session returns; tasks keep the sending half.
LoopEnds ==
    /\ Waiting
    /\ ended
    /\ ended' = FALSE
    /\ phase' = "backoff"
    /\ wire' = {}
    /\ UNCHANGED <<config, backoff, slept, tunnel, alive, silent, drops, taskVars, settled>>

\* Mutant: the delay is doubled without the limit.
ReconnectUnlimited ==
    /\ phase = "backoff"
    /\ phase' = "connecting"
    /\ \E jitter \in 0..(backoff \div 4) : slept' = backoff + jitter
    /\ backoff' = 2 * backoff
    /\ UNCHANGED <<config, tunnel, alive, silent, ended, wire, drops, taskVars, settled>>

\* The delay and its jitter are slept, then the delay is doubled up to its limit; no
\* success ever resets it.
Reconnect ==
    /\ phase = "backoff"
    /\ phase' = "connecting"
    /\ \E jitter \in 0..(backoff \div 4) : slept' = backoff + jitter
    /\ backoff' = IF 2 * backoff < MaxDelay THEN 2 * backoff ELSE MaxDelay
    /\ UNCHANGED <<config, tunnel, alive, silent, ended, wire, drops, taskVars, settled>>

RouterAsks(ask) ==
    /\ phase = "open"
    /\ tunnel \in alive /\ ~ended
    /\ task[ask.rid] = NoTask
    /\ \A other \in wire : other.rid # ask.rid
    /\ wire' = wire \cup {ask}
    /\ UNCHANGED <<config, phase, backoff, slept, tunnel, alive, silent, ended, drops, taskVars,
                   settled>>

\* handle_router_frame spawns a task that keeps this websocket's sender.
HandleFrame(ask) ==
    /\ phase = "open"
    /\ wire' = wire \ {ask}
    /\ task' = [task EXCEPT ![ask.rid] =
           [at |-> IF "bearer" \in DOMAIN ask THEN "forwarding" ELSE "activating",
            ask |-> ask, tunnel |-> tunnel]]
    /\ UNCHANGED <<config, phase, backoff, slept, tunnel, alive, silent, ended, drops, delivered,
                   minted, settled>>

-------------------------------------------------------------------------------
\* The tasks.

Done(r) == [at |-> "done", tunnel |-> task[r].tunnel]

\* Mutant: the frame goes out on the websocket in use now.
SendOnCurrent(r, frame, next) ==
    /\ IF tunnel \in alive
       THEN /\ delivered' = [delivered EXCEPT ![r] = Append(@, [frame |-> frame, tunnel |-> tunnel])]
            /\ task' = [task EXCEPT ![r] = next]
       ELSE /\ UNCHANGED delivered
            /\ task' = [task EXCEPT ![r] = Done(r)]
    /\ UNCHANGED <<config, linkVars, settled>>

\* send_frame.  An error makes forward_http_request fail, which is answered with an
\* Error frame; that one's own error, and an activation's, is dropped.  What is sent
\* into silence is lost without an error.
Send(r, frame, next) ==
    /\ IF task[r].tunnel \in alive
       THEN /\ delivered' = [delivered EXCEPT
                                 ![r] = Append(@, [frame |-> frame, tunnel |-> task[r].tunnel])]
            /\ task' = [task EXCEPT ![r] = next]
       ELSE /\ UNCHANGED delivered
            /\ task' = [task EXCEPT ![r] =
                            IF @.tunnel \in silent THEN next
                            ELSE IF @.at \in {"streaming", "body", "ending"}
                            THEN [@ EXCEPT !.at = "failing"] ELSE Done(r)]
    /\ UNCHANGED <<config, linkVars, settled>>

\* Mutant: the token is checked against the first user instead of the session's.
VerifySkFixedUser(bearer) == bearer.secret = <<bearer.session, CHOOSE u \in Users : TRUE>>

\* verify_sk_bearer.
VerifySk(bearer) == bearer.secret = <<bearer.session, ChainSession[bearer.session].user>>

\* authenticate, with no EIP-191 proof headers on a plain id.
Authenticated(bearer) ==
    \/ ~config.settlement
    \/ /\ bearer # NoBearer
       /\ ChainSession[bearer.session].user # NoUser
       /\ bearer.session \notin settled
       /\ ChainSession[bearer.session].here
       /\ bearer.kind = "sk" => VerifySk(bearer)

\* The answer of the local API: a stream, a body (a refusal among them) with or
\* without content, or an error.
LocalAnswer(r) ==
    /\ task[r].at = "forwarding"
    /\ \E next \in {"body", "ending", "failing"}
                   \cup (IF Authenticated(task[r].ask.bearer) THEN {"streaming"} ELSE {}) :
           task' = [task EXCEPT ![r] = [at |-> next, tunnel |-> task[r].tunnel, chunks |-> 0]]
    /\ UNCHANGED <<config, linkVars, delivered, minted, settled>>

SendChunk(r) ==
    /\ task[r].at = "streaming"
    /\ task[r].chunks < MaxChunks
    /\ Send(r, "Chunk", [task[r] EXCEPT !.chunks = @ + 1])
    /\ UNCHANGED minted

SendBody(r) ==
    /\ task[r].at = "body"
    /\ Send(r, "Chunk", [task[r] EXCEPT !.at = "ending"])
    /\ UNCHANGED minted

\* The stream ends, breaks, or outlasts the HTTP client's timeout.
StreamOver(r) ==
    /\ task[r].at = "streaming"
    /\ \E next \in {"ending", "failing"} : task' = [task EXCEPT ![r].at = next]
    /\ UNCHANGED <<config, linkVars, delivered, minted, settled>>

SendEnd(r) ==
    /\ task[r].at = "ending"
    /\ Send(r, "End", Done(r))
    /\ UNCHANGED minted

SendError(r) ==
    /\ task[r].at = "failing"
    /\ Send(r, "Error", Done(r))
    /\ UNCHANGED minted

\* handle_activate_inner up to the answer of the escrow.
MayActivate(ask) ==
    \/ ~config.settlement
    \/ /\ ChainSession[ask.session].user = ask.signer
       /\ ask.session \notin settled
       /\ ChainSession[ask.session].here

\* Mutant: a failed activation is not answered.
ReadSessionSilently(r) ==
    /\ task[r].at = "activating"
    /\ \E next \in {"granting", "refusing"} :
           /\ next = "granting" => MayActivate(task[r].ask)
           /\ task' = [task EXCEPT ![r] = IF next = "granting" THEN [@ EXCEPT !.at = next] ELSE Done(r)]
    /\ UNCHANGED <<config, linkVars, delivered, minted, settled>>

\* fetch_chain_session answers, or fails; a signature that recovers no signer and an
\* identity secret that cannot be read are refused as well, with or without the read.
ReadSession(r) ==
    /\ task[r].at = "activating"
    /\ \E next \in {"granting", "refusing"} :
           /\ next = "granting" => MayActivate(task[r].ask)
           /\ task' = [task EXCEPT ![r].at = next]
    /\ UNCHANGED <<config, linkVars, delivered, minted, settled>>

\* The key is minted whatever has become of the session since it was read.
Grant(r) ==
    /\ task[r].at = "granting"
    /\ minted' = minted \cup {SkToken(task[r].ask.session, task[r].ask.signer)}
    /\ Send(r, "ActivateResponse", Done(r))

Refuse(r) ==
    /\ task[r].at = "refusing"
    /\ Send(r, "Error", Done(r))
    /\ UNCHANGED minted

TaskStep(r) ==
    \/ LocalAnswer(r) \/ SendChunk(r) \/ SendBody(r) \/ StreamOver(r) \/ SendEnd(r) \/ SendError(r)
    \/ ReadSession(r) \/ Grant(r) \/ Refuse(r)

SessionSettles(s) ==
    /\ s \notin settled
    /\ ChainSession[s].user # NoUser
    /\ settled' = settled \cup {s}
    /\ UNCHANGED <<config, linkVars, taskVars>>

LoopStep == Connect \/ Handshake \/ LoopEnds \/ Reconnect \/ \E ask \in wire : HandleFrame(ask)

Next ==
    \/ LoopStep
    \/ HandshakeFails
    \/ \E w \in alive : Break(w)
    \/ ReadBreaks
    \/ FallsSilent
    \/ SilenceNoticed
    \/ \E ask \in Ask : RouterAsks(ask)
    \/ \E r \in Rids : TaskStep(r)
    \/ \E s \in ChainIds : SessionSettles(s)

\* The read of an activation waits for the RPC with no timeout.
Reading(r) == task[r].at = "activating" /\ config.settlement

\* tokio keeps running what can run; reqwest's timeout ends every forwarded request; a
\* router that is there sends Challenge and Ready or closes, and takes what is sent to
\* it.  Nothing makes an activation's read return, or a silent websocket end.
Fairness == WF_vars(LoopStep) /\ \A r \in Rids : WF_vars(~Reading(r) /\ TaskStep(r))

Spec == Init /\ [][Next]_vars /\ Fairness

-------------------------------------------------------------------------------
\* The router can tell the answers apart: what arrives for a request id arrives on the
\* websocket it was asked on, in order chunks and at most one final frame, also when a
\* send fails halfway or a reconnect has put another websocket in its place.
AnswersWellFormed ==
    \A r \in Rids : \A i \in DOMAIN delivered[r] :
        /\ delivered[r][i].tunnel = task[r].tunnel
        /\ delivered[r][i].frame \in Final => i = Len(delivered[r]) /\ task[r].at = "done"

\* A bearer minted by an activation is accepted by the API exactly while its session
\* is open: mint_sk_bearer and verify_sk_bearer agree on every session and user.
MintedBearersOpen ==
    config.settlement => \A b \in minted : Authenticated(b) <=> b.session \notin settled

\* Whatever the configuration holds (zero, or a maximum below the minimum), what is slept
\* before another attempt is at least a second and the configured minimum, and at most
\* the effective maximum and its jitter of a quarter.
DelayBounded ==
    slept # 0 => Second <= slept /\ MinDelay <= slept /\ 4 * slept <= 5 * MaxDelay

\* A forwarded request, and an activation whose read has returned, gets its final frame
\* unless the websocket it came on is lost, also when the loop has long left that
\* websocket.
RequestsAnswered ==
    \A r \in Rids : task[r].at # "none" /\ ~Reading(r) ~>
        \/ delivered[r] # <<>> /\ delivered[r][Len(delivered[r])].frame \in Final
        \/ task[r].at # "none" /\ task[r].tunnel \notin alive

\* After the last failure the client is back on a websocket that works, whichever
\* attempts failed and however the earlier websockets were lost, unless the last one
\* fell silent unnoticed.
TunnelComesBack ==
    <>[](\/ phase = "open" /\ tunnel \in alive /\ ~ended
         \/ Waiting /\ tunnel \in silent)
===============================================================================
