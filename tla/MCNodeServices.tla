----------------------------- MODULE MCNodeServices -----------------------------
(***************************************************************************)
(* Instances of NodeServices for TLC.                                      *)
(***************************************************************************)
EXTENDS NodeServices

Nothing == [s \in Settings |-> Unset]
Off == [Nothing EXCEPT !["settlement"] = ZeroAddress, !["escrow"] = OwnAddress]
On == [Off EXCEPT !["settlement"] = OwnAddress]
WithBootstrap == [On EXCEPT !["bootstrap"] = OwnAddress]

\* Settlement off; on with the addresses of a file; on with the bootstrap contract, the
\* file missing or not, the switch in the environment or on the command line.
LayerChoices ==
    {[cli |-> Nothing, env |-> Nothing, file |-> Off, default |-> Nothing, fileExists |-> TRUE],
     [cli |-> Nothing, env |-> On, file |-> Off, default |-> Nothing, fileExists |-> TRUE],
     [cli |-> On, env |-> On, file |-> Nothing, default |-> WithBootstrap, fileExists |-> FALSE]}

BothKeys == [providerKey |-> TRUE, operatorKey |-> TRUE, operatorOwnsNode |-> TRUE]
NoKeys == [BothKeys EXCEPT !.providerKey = FALSE, !.operatorKey = FALSE]
NodeWallets == {BothKeys, NoKeys}

\* One of everything; nothing deposited yet.
StartingPots == [p \in Pots |-> IF p = "balance" THEN 0 ELSE 1]

Daily == [teeTickSecs |-> 60, epochSecs |-> 600]
Periods == {[teeTickSecs |-> 2, epochSecs |-> 3], [teeTickSecs |-> 0, epochSecs |-> 2], Daily}

Attesting == [nrasEnabled |-> TRUE, url |-> TRUE, inputs |-> TRUE, ttl |-> 2,
              registryEnabled |-> TRUE, isService |-> TRUE]
NotAttesting == [Attesting EXCEPT !.nrasEnabled = FALSE, !.registryEnabled = FALSE]
AttestationChoices ==
    {Attesting, [Attesting EXCEPT !.ttl = 0, !.registryEnabled = FALSE],
     [Attesting EXCEPT !.url = FALSE], [Attesting EXCEPT !.inputs = FALSE], NotAttesting}

\* The services share the start and the stop of the process and nothing else, so each is
\* explored in configurations that keep the others quiet: a node attests, resolves its
\* addresses, has periods short enough to elapse, or has wallets and a fixed escrow.
OneAtATime ==
    /\ attestation # NotAttesting => ~Enabled("settlement")
    /\ wallets # NoKeys => Enabled("settlement") /\ ~Enabled("bootstrap")
    /\ loopConfig = Daily <=>
           wallets # NoKeys \/ ~Enabled("settlement") \/ Enabled("bootstrap")

\* Others take from what these wallets use while a call is on its way: at other times,
\* and by what they add, they only make for other pots to begin with.
InTheMidst ==
    others' # others =>
        /\ drawn' # drawn
        /\ \E r \in Requests : request[r].at = "watching"
        /\ \A e \in Escrows \ {OwnAddress} : held'[e] = held[e]

MCInit == Init /\ OneAtATime
MCSpec == MCInit /\ [][Next /\ InTheMidst]_vars /\ Fairness
===============================================================================
