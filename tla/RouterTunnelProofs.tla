--------------------------- MODULE RouterTunnelProofs ---------------------------
(***************************************************************************)
(* The tunnel's safety properties for any number of request ids, sessions, *)
(* users, reconnects and chunks, and any delays.                           *)
(*                                                                         *)
(* What has to be carried along: a request id on the wire has no task yet  *)
(* and is there once; a task that has not begun to answer has delivered    *)
(* nothing, and one in the middle of an answer only chunks; and an         *)
(* activation about to be granted was checked against the escrow, whatever *)
(* became of the session since.                                            *)
(***************************************************************************)
EXTENDS RouterTunnel, TLAPS

Tokens == {SkToken(s, u) : s \in ChainIds, u \in Users}
Bearers == {NoBearer} \cup {PlainId(s) : s \in ChainIds} \cup Tokens
HttpAsks == [rid : Rids, bearer : Bearers]
Activations == [rid : Rids, session : ChainIds, signer : Users]

Before == {"forwarding", "activating", "granting", "refusing"}
Amid == {"streaming", "body", "ending", "failing"}

Tasks == {NoTask}
         \cup [at : {"forwarding"}, ask : HttpAsks, tunnel : Nat]
         \cup [at : {"activating", "granting", "refusing"}, ask : Activations, tunnel : Nat]
         \cup [at : Amid, tunnel : Nat, chunks : Nat]
         \cup [at : {"done"}, tunnel : Nat]

Sent == [frame : Frames, tunnel : Nat]

LinkInv ==
    /\ config \in RouterConfigs
    /\ backoff \in Nat /\ MinDelay <= backoff /\ backoff <= MaxDelay
    /\ slept \in Nat
    /\ DelayBounded

TunnelTyped ==
    /\ tunnel \in Nat
    /\ wire \subseteq HttpAsks \cup Activations
    /\ minted \subseteq Tokens
    /\ task \in [Rids -> Tasks]
    /\ delivered \in [Rids -> Seq(Sent)]

AskedOnce ==
    /\ \A ask \in wire : task[ask.rid] = NoTask
    /\ \A a, b \in wire : a.rid = b.rid => a = b

\* What a task at this point may have delivered.
Fits(t, d) ==
    /\ t.at \in Before \cup {"none"} => d = <<>>
    /\ t.at \in Amid => \A i \in 1..Len(d) : d[i].frame = "Chunk" /\ d[i].tunnel = t.tunnel
    /\ t.at = "done" => \A i \in 1..Len(d) :
           d[i].tunnel = t.tunnel /\ (d[i].frame \in Final => i = Len(d))

NothingEarly == \A r \in Rids : Fits(task[r], delivered[r])

\* The session was the signer's, and for this node.
Owned(s, u) == ChainSession[s].user = u /\ ChainSession[s].here

GrantsChecked ==
    config.settlement =>
        /\ \A r \in Rids : task[r].at = "granting" => Owned(task[r].ask.session, task[r].ask.signer)
        /\ \A s \in ChainIds, u \in Users : SkToken(s, u) \in minted => Owned(s, u)

TaskInv == TunnelTyped /\ AskedOnce /\ NothingEarly /\ GrantsChecked

-------------------------------------------------------------------------------
\* The reconnect delay.

\* Both ends of the delay are numbers in order, of a second at least.
LEMMA DelayEnds == config \in RouterConfigs =>
                       /\ MinDelay \in Nat /\ MaxDelay \in Nat
                       /\ Second <= MinDelay /\ MinDelay <= MaxDelay
BY TunnelAssumption DEF MinDelay, MaxDelay, RouterConfig, Second

\* The delay is in its range at the start.
LEMMA LinkInit == Init => LinkInv
BY DelayEnds DEF Init, LinkInv, DelayBounded

\* Only a reconnect changes the delay; it sleeps what the delay and its jitter allow.
LEMMA LinkNext == LinkInv /\ [Next]_vars => LinkInv'
<1> SUFFICES ASSUME LinkInv, [Next]_vars PROVE LinkInv'
  OBVIOUS
<1>1. CASE Reconnect
  <2>1. config' = config /\ MinDelay' = MinDelay /\ MaxDelay' = MaxDelay
    BY <1>1 DEF Reconnect, MinDelay, MaxDelay
  <2>2. backoff' = IF 2 * backoff < MaxDelay THEN 2 * backoff ELSE MaxDelay
    BY <1>1 DEF Reconnect
  <2>3. PICK jitter \in 0..(backoff \div 4) : slept' = backoff + jitter
    BY <1>1 DEF Reconnect
  <2>4. /\ MinDelay \in Nat /\ MaxDelay \in Nat /\ Second <= MinDelay /\ MinDelay <= MaxDelay
        /\ backoff \in Nat /\ MinDelay <= backoff /\ backoff <= MaxDelay
    BY DelayEnds DEF LinkInv
  <2>5. backoff' \in Nat /\ MinDelay <= backoff' /\ backoff' <= MaxDelay
    BY <2>2, <2>4
  <2>6. /\ slept' \in Nat /\ Second <= slept' /\ MinDelay <= slept'
        /\ 4 * slept' <= 5 * MaxDelay
    BY <2>3, <2>4 DEF Second
  <2> QED
    BY <2>1, <2>5, <2>6 DEF LinkInv, DelayBounded
<1>2. CASE ~Reconnect
  <2>1. config' = config /\ backoff' = backoff /\ (slept' = slept \/ slept' = 0)
    BY <1>2 DEF Next, LoopStep, Connect, Handshake, LoopEnds, HandleFrame, HandshakeFails, Break,
                ReadBreaks, FallsSilent, SilenceNoticed, RouterAsks, TaskStep, LocalAnswer, SendChunk,
                SendBody, StreamOver, SendEnd, SendError, ReadSession, Grant, Refuse, Send,
                SessionSettles, linkVars, vars
  <2> QED
    BY <2>1 DEF LinkInv, DelayBounded, MinDelay, MaxDelay
<1> QED
  BY <1>1, <1>2

\* Whatever is configured, what is slept between two attempts stays in its range.
THEOREM DelayStaysBounded == Spec => []DelayBounded
<1>1. LinkInv => DelayBounded
  BY DEF LinkInv
<1> QED
  BY LinkInit, LinkNext, <1>1, PTL DEF Spec

-------------------------------------------------------------------------------
\* The tasks.

\* Nothing is asked, answered or minted at the start.
LEMMA TaskInit == Init => TaskInv
<1> SUFFICES ASSUME Init PROVE TaskInv
  OBVIOUS
<1>1. TunnelTyped
  BY DEF Init, TunnelTyped, Tasks
<1>2. AskedOnce /\ NothingEarly /\ GrantsChecked
  BY DEF Init, AskedOnce, NothingEarly, GrantsChecked, Fits, NoTask, Before, Amid
<1> QED
  BY <1>1, <1>2 DEF TaskInv

\* A step that leaves the tasks, the wire and the configuration alone.
LEMMA TasksUntouched ==
    ASSUME TaskInv, UNCHANGED <<config, task, delivered, minted>>, tunnel' \in Nat, wire' \subseteq wire
    PROVE  TaskInv'
<1>1. TunnelTyped' /\ AskedOnce' /\ NothingEarly'
  BY DEF TaskInv, TunnelTyped, AskedOnce, NothingEarly
<1>2. GrantsChecked'
  BY DEF TaskInv, GrantsChecked
<1> QED
  BY <1>1, <1>2 DEF TaskInv

\* Where a task is says which fields it has.
LEMMA TaskForms ==
    ASSUME NEW t \in Tasks
    PROVE  /\ t.at \in {"none", "done"} \cup Before \cup Amid
           /\ t.at = "none" => t = NoTask
           /\ t.at # "none" => t.tunnel \in Nat
           /\ t.at = "forwarding" => t \in [at : {"forwarding"}, ask : HttpAsks, tunnel : Nat]
           /\ t.at \in Before \ {"forwarding"} =>
                  t \in [at : {"activating", "granting", "refusing"}, ask : Activations, tunnel : Nat]
           /\ t.at \in Amid => t \in [at : Amid, tunnel : Nat, chunks : Nat]
BY DEF Tasks, Before, Amid, NoTask

\* A step of one task whose request is no longer on the wire.
LEMMA OneTask ==
    ASSUME TaskInv, NEW r \in Rids, NEW t \in Tasks, NEW d \in Seq(Sent),
           task' = [task EXCEPT ![r] = t],
           delivered' = [delivered EXCEPT ![r] = d],
           config' = config, tunnel' \in Nat, wire' \subseteq wire,
           \A ask \in wire' : ask.rid # r,
           Fits(t, d),
           config.settlement /\ t.at = "granting" => Owned(t.ask.session, t.ask.signer),
           minted' \subseteq Tokens,
           config.settlement => \A s \in ChainIds, u \in Users : SkToken(s, u) \in minted' => Owned(s, u)
    PROVE  TaskInv'
<1>1. task \in [Rids -> Tasks] /\ delivered \in [Rids -> Seq(Sent)]
  BY DEF TaskInv, TunnelTyped
<1>2. task' \in [Rids -> Tasks] /\ delivered' \in [Rids -> Seq(Sent)]
  BY <1>1
<1>3. task'[r] = t /\ delivered'[r] = d
  BY <1>1
<1>4. \A q \in Rids \ {r} : task'[q] = task[q] /\ delivered'[q] = delivered[q]
  BY <1>1
<1>5. TunnelTyped'
  BY <1>2 DEF TaskInv, TunnelTyped
<1>6. AskedOnce'
  <2>1. \A ask \in wire' : ask.rid \in Rids \ {r}
    BY DEF TaskInv, TunnelTyped, HttpAsks, Activations
  <2> QED
    BY <1>4, <2>1 DEF TaskInv, AskedOnce
<1>7. NothingEarly'
  BY <1>3, <1>4 DEF TaskInv, NothingEarly
<1>8. GrantsChecked'
  <2> SUFFICES ASSUME config.settlement
               PROVE  \A q \in Rids : task'[q].at = "granting" =>
                          Owned(task'[q].ask.session, task'[q].ask.signer)
    BY DEF GrantsChecked, Owned
  <2> QED
    BY <1>3, <1>4 DEF TaskInv, GrantsChecked
<1> QED
  BY <1>5, <1>6, <1>7, <1>8 DEF TaskInv

\* No request of a task that runs is on the wire.
LEMMA RunningNotAsked ==
    ASSUME TaskInv, NEW r \in Rids, task[r].at # "none"
    PROVE  \A ask \in wire : ask.rid # r
BY DEF TaskInv, AskedOnce, NoTask

\* A frame that goes out, or does not, on the task's own websocket.
LEMMA SendKeeps ==
    ASSUME TaskInv, NEW r \in Rids, NEW frame \in Frames, NEW next \in Tasks,
           Send(r, frame, next),
           task[r].at \in Before \cup Amid,
           next.tunnel = task[r].tunnel,
           \/ next.at = "done"
           \/ next.at \in Amid /\ task[r].at \in Amid /\ frame = "Chunk",
           minted' \subseteq Tokens,
           config.settlement => \A s \in ChainIds, u \in Users : SkToken(s, u) \in minted' => Owned(s, u)
    PROVE  TaskInv'
<1> DEFINE t == task[r]
           d == delivered[r]
<1>1. t \in Tasks /\ d \in Seq(Sent) /\ delivered \in [Rids -> Seq(Sent)] /\ tunnel \in Nat
  BY DEF TaskInv, TunnelTyped
<1>2. t.at # "none" /\ t.at # "done" /\ t.tunnel \in Nat
  BY <1>1, TaskForms DEF Before, Amid
<1>3. Fits(t, d)
  BY DEF TaskInv, NothingEarly
<1>4. /\ config' = config /\ tunnel' \in Nat /\ wire' \subseteq wire
      /\ \A ask \in wire' : ask.rid # r
  <2>1. config' = config /\ tunnel' = tunnel /\ wire' = wire
    BY DEF Send, linkVars
  <2>2. \A ask \in wire : ask.rid # r
    BY <1>2, RunningNotAsked
  <2> QED
    BY <1>1, <2>1, <2>2
<1>5. CASE t.tunnel \in alive
  <2> DEFINE e == Append(d, [frame |-> frame, tunnel |-> t.tunnel])
  <2>1. delivered' = [delivered EXCEPT ![r] = e] /\ task' = [task EXCEPT ![r] = next]
    BY <1>5 DEF Send
  <2>2. e \in Seq(Sent) /\ Len(e) = Len(d) + 1 /\ Len(d) \in Nat
    BY <1>1, <1>2 DEF Sent
  <2>3. /\ \A i \in 1..Len(d) : e[i] = d[i]
        /\ e[Len(d) + 1] = [frame |-> frame, tunnel |-> t.tunnel]
    BY <1>1
  <2>4. \A i \in 1..Len(d) : d[i].frame = "Chunk" /\ d[i].tunnel = t.tunnel
    <3>1. CASE t.at \in Amid
      BY <1>3, <3>1 DEF Fits
    <3>2. CASE t.at \in Before
      BY <1>3, <3>2 DEF Fits
    <3> QED
      BY <3>1, <3>2
  <2>5. \A i \in 1..Len(e) : /\ e[i].tunnel = next.tunnel
                             /\ e[i].frame = "Chunk" \/ (i = Len(e) /\ e[i].frame = frame)
    BY <2>2, <2>3, <2>4
  <2>6. Fits(next, e)
    <3>1. CASE next.at = "done"
      BY <2>5, <3>1 DEF Fits, Before, Amid, Final, Frames
    <3>2. CASE next.at \in Amid /\ frame = "Chunk"
      BY <2>5, <3>2 DEF Fits, Before, Amid
    <3> QED
      BY <3>1, <3>2
  <2>7. next.at # "granting"
    BY DEF Amid
  <2> HIDE DEF e
  <2> QED
    BY <1>4, <2>1, <2>2, <2>6, <2>7, OneTask
<1>6. CASE t.tunnel \notin alive /\ t.tunnel \in silent
  <2>1. delivered' = [delivered EXCEPT ![r] = d] /\ task' = [task EXCEPT ![r] = next]
    BY <1>1, <1>6 DEF Send, TaskInv, TunnelTyped
  <2>2. \A i \in 1..Len(d) : d[i].frame = "Chunk" /\ d[i].tunnel = next.tunnel
    <3>1. CASE t.at \in Amid
      BY <1>3, <3>1 DEF Fits
    <3>2. CASE t.at \in Before
      BY <1>3, <3>2 DEF Fits
    <3> QED
      BY <3>1, <3>2
  <2>3. Fits(next, d) /\ next.at # "granting"
    BY <2>2 DEF Fits, Before, Amid, Final, Frames
  <2> QED
    BY <1>1, <1>4, <2>1, <2>3, OneTask
<1>7. CASE t.tunnel \notin alive /\ t.tunnel \notin silent
  <2> DEFINE n == IF t.at \in {"streaming", "body", "ending"}
                  THEN [t EXCEPT !.at = "failing"] ELSE Done(r)
  <2>1. delivered' = [delivered EXCEPT ![r] = d] /\ task' = [task EXCEPT ![r] = n]
    BY <1>1, <1>7 DEF Send, TaskInv, TunnelTyped
  <2>2. n \in Tasks /\ Fits(n, d) /\ n.at # "granting"
    <3>1. CASE t.at \in {"streaming", "body", "ending"}
      <4>1. t \in [at : Amid, tunnel : Nat, chunks : Nat]
        BY <1>1, <3>1, TaskForms DEF Amid
      <4>2. n \in [at : Amid, tunnel : Nat, chunks : Nat] /\ n.at = "failing" /\ n.tunnel = t.tunnel
        BY <3>1, <4>1 DEF Amid
      <4> QED
        BY <1>3, <3>1, <4>2 DEF Tasks, Fits, Amid, Before
    <3>2. CASE t.at \notin {"streaming", "body", "ending"}
      <4>1. n = [at |-> "done", tunnel |-> t.tunnel]
        BY <3>2 DEF Done
      <4>2. n \in Tasks /\ n.at = "done" /\ n.tunnel = t.tunnel
        BY <1>2, <4>1 DEF Tasks
      <4> QED
        BY <1>3, <4>2 DEF Fits, Amid, Before, Final, Frames
    <3> QED
      BY <3>1, <3>2
  <2> HIDE DEF n
  <2> QED
    BY <1>1, <1>4, <2>1, <2>2, OneTask
<1> QED
  BY <1>5, <1>6, <1>7

\* A step of one task that sends nothing and hands nothing out.
LEMMA QuietKeeps ==
    ASSUME TaskInv, NEW r \in Rids, NEW t \in Tasks,
           task' = [task EXCEPT ![r] = t],
           UNCHANGED <<config, linkVars, delivered, minted>>,
           task[r].at # "none",
           Fits(t, delivered[r]),
           config.settlement /\ t.at = "granting" => Owned(t.ask.session, t.ask.signer)
    PROVE  TaskInv'
<1>1. /\ delivered' = [delivered EXCEPT ![r] = delivered[r]] /\ delivered[r] \in Seq(Sent)
      /\ tunnel' \in Nat /\ wire' = wire /\ minted' \subseteq Tokens
  BY DEF linkVars, TaskInv, TunnelTyped
<1>2. \A ask \in wire' : ask.rid # r
  BY <1>1, RunningNotAsked
<1>3. config.settlement => \A s \in ChainIds, u \in Users : SkToken(s, u) \in minted' => Owned(s, u)
  BY DEF TaskInv, GrantsChecked
<1> QED
  BY <1>1, <1>2, <1>3, OneTask

\* Every step of a task preserves what is known of the tasks.
LEMMA TaskStepKeeps ==
    ASSUME TaskInv, NEW r \in Rids, TaskStep(r)
    PROVE  TaskInv'
<1> DEFINE t == task[r]
<1>1. t \in Tasks /\ Fits(t, delivered[r])
  BY DEF TaskInv, TunnelTyped, NothingEarly
<1>2. minted' = minted =>
          /\ minted' \subseteq Tokens
          /\ config.settlement =>
                 \A s \in ChainIds, u \in Users : SkToken(s, u) \in minted' => Owned(s, u)
  BY DEF TaskInv, TunnelTyped, GrantsChecked
<1>3. t.at # "none" => Done(r) \in Tasks /\ Done(r).at = "done" /\ Done(r).tunnel = t.tunnel
  BY <1>1, TaskForms DEF Done, Tasks
<1>4. t.at \in Amid => t \in [at : Amid, tunnel : Nat, chunks : Nat]
  BY <1>1, TaskForms
<1>5. CASE LocalAnswer(r)
  <2>1. PICK next \in {"body", "ending", "failing", "streaming"} :
            task' = [task EXCEPT ![r] = [at |-> next, tunnel |-> t.tunnel, chunks |-> 0]]
    BY <1>5 DEF LocalAnswer
  <2> DEFINE n == [at |-> next, tunnel |-> t.tunnel, chunks |-> 0]
  <2>2. t.at = "forwarding" /\ t.tunnel \in Nat /\ delivered[r] = <<>>
    BY <1>1, <1>5, TaskForms DEF LocalAnswer, Fits, Before
  <2>3. n \in Tasks /\ Fits(n, delivered[r]) /\ n.at # "granting"
    BY <2>2 DEF Tasks, Amid, Fits, Before
  <2>4. UNCHANGED <<config, linkVars, delivered, minted>>
    BY <1>5 DEF LocalAnswer
  <2> HIDE DEF n
  <2> QED
    BY <2>1, <2>2, <2>3, <2>4, QuietKeeps DEF n
<1>6. CASE SendChunk(r)
  <2> DEFINE n == [t EXCEPT !.chunks = @ + 1]
  <2>1. t.at = "streaming" /\ Send(r, "Chunk", n) /\ minted' = minted
    BY <1>6 DEF SendChunk
  <2>2. n \in Tasks /\ n.at = "streaming" /\ n.tunnel = t.tunnel
    BY <1>4, <2>1 DEF Amid, Tasks
  <2> HIDE DEF n
  <2> QED
    BY <1>2, <2>1, <2>2, SendKeeps DEF Frames, Amid
<1>7. CASE SendBody(r)
  <2> DEFINE n == [t EXCEPT !.at = "ending"]
  <2>1. t.at = "body" /\ Send(r, "Chunk", n) /\ minted' = minted
    BY <1>7 DEF SendBody
  <2>2. n \in Tasks /\ n.at = "ending" /\ n.tunnel = t.tunnel
    BY <1>4, <2>1 DEF Amid, Tasks
  <2> HIDE DEF n
  <2> QED
    BY <1>2, <2>1, <2>2, SendKeeps DEF Frames, Amid
<1>8. CASE StreamOver(r)
  <2>1. PICK next \in {"ending", "failing"} : task' = [task EXCEPT ![r].at = next]
    BY <1>8 DEF StreamOver
  <2> DEFINE n == [t EXCEPT !.at = next]
  <2>2. t.at = "streaming" /\ UNCHANGED <<config, linkVars, delivered, minted>>
    BY <1>8 DEF StreamOver
  <2>3. n \in Tasks /\ n.at = next /\ n.tunnel = t.tunnel
    BY <1>4, <2>2 DEF Amid, Tasks
  <2>4. Fits(n, delivered[r]) /\ n.at # "granting"
    BY <1>1, <2>2, <2>3 DEF Fits, Amid, Before
  <2>5. task' = [task EXCEPT ![r] = n]
    BY <2>1
  <2> HIDE DEF n
  <2> QED
    BY <2>2, <2>3, <2>4, <2>5, QuietKeeps
<1>9. CASE SendEnd(r)
  <2>1. t.at = "ending" /\ Send(r, "End", Done(r)) /\ minted' = minted
    BY <1>9 DEF SendEnd
  <2> QED
    BY <1>2, <1>3, <2>1, SendKeeps DEF Frames, Amid
<1>10. CASE SendError(r)
  <2>1. t.at = "failing" /\ Send(r, "Error", Done(r)) /\ minted' = minted
    BY <1>10 DEF SendError
  <2> QED
    BY <1>2, <1>3, <2>1, SendKeeps DEF Frames, Amid
<1>11. CASE ReadSession(r)
  <2>0. PICK next \in {"granting", "refusing"} :
            /\ next = "granting" => MayActivate(t.ask)
            /\ task' = [task EXCEPT ![r].at = next]
    BY <1>11 DEF ReadSession
  <2> DEFINE n == [t EXCEPT !.at = next]
  <2>1. t.at = "activating" /\ UNCHANGED <<config, linkVars, delivered, minted>>
    BY <1>11 DEF ReadSession
  <2>2. task' = [task EXCEPT ![r] = n]
    BY <2>0
  <2>3. t \in [at : {"activating", "granting", "refusing"}, ask : Activations, tunnel : Nat]
    BY <1>1, <2>1, TaskForms DEF Before
  <2>4. n \in Tasks /\ n.at \in {"granting", "refusing"} /\ n.ask = t.ask
        /\ (n.at = "granting" => MayActivate(t.ask))
    BY <2>0, <2>3 DEF Tasks
  <2>5. Fits(n, delivered[r])
    BY <1>1, <2>1, <2>4 DEF Fits, Amid, Before
  <2>6. config.settlement /\ n.at = "granting" => Owned(n.ask.session, n.ask.signer)
    BY <2>4 DEF MayActivate, Owned
  <2> HIDE DEF n
  <2> QED
    BY <2>1, <2>2, <2>4, <2>5, <2>6, QuietKeeps
<1>12. CASE Grant(r)
  <2>1. /\ t.at = "granting" /\ Send(r, "ActivateResponse", Done(r))
        /\ minted' = minted \cup {SkToken(t.ask.session, t.ask.signer)}
    BY <1>12 DEF Grant
  <2>2. t.ask.session \in ChainIds /\ t.ask.signer \in Users
    BY <1>1, <2>1, TaskForms DEF Before, Activations
  <2>3. minted' \subseteq Tokens
    BY <2>1, <2>2 DEF TaskInv, TunnelTyped, Tokens
  <2>4. config.settlement => Owned(t.ask.session, t.ask.signer)
    BY <2>1 DEF TaskInv, GrantsChecked
  <2>5. \A s, u, v, w : SkToken(s, u) = SkToken(v, w) => s = v /\ u = w
    BY DEF SkToken
  <2>6. config.settlement =>
            \A s \in ChainIds, u \in Users : SkToken(s, u) \in minted' => Owned(s, u)
    BY <2>1, <2>4, <2>5 DEF TaskInv, GrantsChecked
  <2> QED
    BY <1>3, <2>1, <2>3, <2>6, SendKeeps DEF Frames, Before
<1>13. CASE Refuse(r)
  <2>1. t.at = "refusing" /\ Send(r, "Error", Done(r)) /\ minted' = minted
    BY <1>13 DEF Refuse
  <2> QED
    BY <1>2, <1>3, <2>1, SendKeeps DEF Frames, Before
<1> QED
  BY <1>5, <1>6, <1>7, <1>8, <1>9, <1>10, <1>11, <1>12, <1>13 DEF TaskStep

\* The router asks under an id of which nothing is known yet.
LEMMA AsksKeep ==
    ASSUME TaskInv, NEW ask \in Ask, RouterAsks(ask)
    PROVE  TaskInv'
<1>1. ask \in HttpAsks \cup Activations
  BY DEF TaskInv, TunnelTyped, Ask, HttpAsks, Bearers, Activations
<1>2. wire' = wire \cup {ask} /\ UNCHANGED <<config, tunnel, task, delivered, minted>>
  BY DEF RouterAsks, taskVars
<1>3. TunnelTyped'
  BY <1>1, <1>2 DEF TaskInv, TunnelTyped
<1>4. AskedOnce'
  BY <1>2 DEF TaskInv, AskedOnce, RouterAsks
<1>5. NothingEarly' /\ GrantsChecked'
  BY <1>2 DEF TaskInv, NothingEarly, GrantsChecked
<1> QED
  BY <1>3, <1>4, <1>5 DEF TaskInv

\* The loop reads a frame: its id leaves the wire and gets a task.
LEMMA HandleKeeps ==
    ASSUME TaskInv, NEW ask \in wire, HandleFrame(ask)
    PROVE  TaskInv'
<1> DEFINE r == ask.rid
           n == [at |-> IF "bearer" \in DOMAIN ask THEN "forwarding" ELSE "activating",
                 ask |-> ask, tunnel |-> tunnel]
<1>1. /\ ask \in HttpAsks \cup Activations /\ r \in Rids /\ tunnel \in Nat
      /\ delivered[r] \in Seq(Sent) /\ delivered \in [Rids -> Seq(Sent)]
  BY DEF TaskInv, TunnelTyped, HttpAsks, Activations
<1>2. task[r] = NoTask /\ \A other \in wire : other.rid = r => other = ask
  BY DEF TaskInv, AskedOnce
<1>3. /\ wire' = wire \ {ask} /\ task' = [task EXCEPT ![r] = n]
      /\ UNCHANGED <<config, tunnel, delivered, minted>>
  BY DEF HandleFrame
<1>4. n \in Tasks
  <2>1. CASE "bearer" \in DOMAIN ask
    <3>1. ask \in HttpAsks
      BY <1>1, <2>1 DEF Activations
    <3> QED
      BY <1>1, <2>1, <3>1 DEF Tasks
  <2>2. CASE "bearer" \notin DOMAIN ask
    <3>1. ask \in Activations
      BY <1>1, <2>2 DEF HttpAsks
    <3> QED
      BY <1>1, <2>2, <3>1 DEF Tasks
  <2> QED
    BY <2>1, <2>2
<1>5. n.at \in {"forwarding", "activating"}
  OBVIOUS
<1>6. Fits(n, delivered[r])
  BY <1>1, <1>2, <1>5 DEF TaskInv, NothingEarly, Fits, NoTask, Before, Amid
<1>7. /\ minted' \subseteq Tokens
      /\ config.settlement =>
             \A s \in ChainIds, u \in Users : SkToken(s, u) \in minted' => Owned(s, u)
  BY <1>3 DEF TaskInv, TunnelTyped, GrantsChecked
<1>8. delivered' = [delivered EXCEPT ![r] = delivered[r]]
  BY <1>1, <1>3
<1> HIDE DEF n
<1> QED
  BY <1>1, <1>2, <1>3, <1>4, <1>5, <1>6, <1>7, <1>8, OneTask

\* Every step preserves what is known of the tasks.
LEMMA TaskNext == TaskInv /\ [Next]_vars => TaskInv'
<1> SUFFICES ASSUME TaskInv, [Next]_vars PROVE TaskInv'
  OBVIOUS
<1>1. tunnel \in Nat
  BY DEF TaskInv, TunnelTyped
<1>2. CASE \/ Connect \/ Handshake \/ HandshakeFails \/ (\E w \in alive : Break(w))
           \/ ReadBreaks \/ FallsSilent \/ SilenceNoticed \/ LoopEnds \/ Reconnect
  <2>1. /\ UNCHANGED <<config, task, delivered, minted>>
        /\ tunnel' \in Nat /\ wire' \subseteq wire
    BY <1>1, <1>2 DEF Connect, Handshake, HandshakeFails, Break, ReadBreaks, FallsSilent,
                      SilenceNoticed, LoopEnds, Reconnect, taskVars
  <2> QED
    BY <2>1, TasksUntouched
<1>3. CASE (\E s \in ChainIds : SessionSettles(s)) \/ UNCHANGED vars
  <2>1. UNCHANGED <<config, tunnel, wire, task, delivered, minted>>
    BY <1>3 DEF SessionSettles, vars, linkVars, taskVars
  <2> QED
    BY <1>1, <2>1, TasksUntouched
<1>4. CASE \E ask \in wire : HandleFrame(ask)
  BY <1>4, HandleKeeps
<1>5. CASE \E ask \in Ask : RouterAsks(ask)
  BY <1>5, AsksKeep
<1>6. CASE \E r \in Rids : TaskStep(r)
  BY <1>6, TaskStepKeeps
<1> QED
  BY <1>2, <1>3, <1>4, <1>5, <1>6 DEF Next, LoopStep

\* The router can tell the answers apart, however many requests, sockets and breaks.
THEOREM AnswersAreWellFormed == Spec => []AnswersWellFormed
<1>1. TaskInv => AnswersWellFormed
  <2> SUFFICES ASSUME TaskInv, NEW r \in Rids, NEW i \in DOMAIN delivered[r]
               PROVE  /\ delivered[r][i].tunnel = task[r].tunnel
                      /\ delivered[r][i].frame \in Final =>
                             i = Len(delivered[r]) /\ task[r].at = "done"
    BY DEF AnswersWellFormed
  <2>1. task[r] \in Tasks /\ delivered[r] \in Seq(Sent) /\ Fits(task[r], delivered[r])
    BY DEF TaskInv, TunnelTyped, NothingEarly
  <2>2. i \in 1..Len(delivered[r]) /\ delivered[r] # <<>>
    BY <2>1
  <2>3. task[r].at \in Amid \cup {"done"}
    BY <2>1, <2>2, TaskForms DEF Fits
  <2> QED
    BY <2>1, <2>2, <2>3 DEF Fits, Final
<1> QED
  BY TaskInit, TaskNext, <1>1, PTL DEF Spec

\* A minted bearer opens its session to the session's user, exactly while it is open.
THEOREM MintedBearersAreOpen == Spec => []MintedBearersOpen
<1>1. TaskInv => MintedBearersOpen
  <2> SUFFICES ASSUME TaskInv, config.settlement, NEW b \in minted
               PROVE  Authenticated(b) <=> b.session \notin settled
    BY DEF MintedBearersOpen
  <2>1. PICK s \in ChainIds, u \in Users : b = SkToken(s, u)
    BY DEF TaskInv, TunnelTyped, Tokens
  <2>2. ChainSession[s].user = u /\ ChainSession[s].here
    BY <2>1 DEF TaskInv, GrantsChecked, Owned
  <2>3. u # NoUser
    BY TunnelAssumption
  <2>4. b.kind = "sk" /\ b.session = s /\ b.secret = <<s, u>>
    BY <2>1 DEF SkToken
  <2>5. b # NoBearer
    BY <2>4 DEF NoBearer
  <2>6. VerifySk(b)
    BY <2>2, <2>4 DEF VerifySk
  <2> QED
    BY <2>2, <2>3, <2>4, <2>5, <2>6 DEF Authenticated
<1> QED
  BY TaskInit, TaskNext, <1>1, PTL DEF Spec
===============================================================================
