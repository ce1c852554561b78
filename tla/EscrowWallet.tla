------------------------------ MODULE EscrowWallet ------------------------------
(***************************************************************************)
(* The calls a node operator makes on the escrow through the node's HTTP   *)
(* API (server/settlement.rs, settlement/evm.rs): deposits and withdrawals *)
(* signed with the node's wallets, against the escrow the node resolved    *)
(* when it started.  Each is one transaction, sent after a simulation and  *)
(* watched until it is in a block; the operator may repeat one that was    *)
(* answered with an error.                                                 *)
(*                                                                         *)
(* What decides about a call is kept as pots: the wallet's native tokens   *)
(* and the USDC the escrow may pull from it; in each escrow the wallet's   *)
(* balance, the node's earnings and the native tokens in custody; and, as  *)
(* pots of one or none, whether the oracle's price is fresh and within the *)
(* caller's slippage, and whether the wallet is the node's operator in the *)
(* registry.  Other users, the oracle, the registry and the operator's own *)
(* other tools change them too.  Amounts are whole native units, credited  *)
(* one for one, and the gas estimated suffices.  Transactions of one       *)
(* wallet are mined in the order of their nonces.                          *)
(***************************************************************************)
EXTENDS NodeStart, SequencesExt

CONSTANTS
    Requests,               \* HTTP requests
    WalletConfigs,          \* wallets the node may be configured with
    CallAmounts,            \* amounts asked for, zero among them
    InitialPots,            \* what is in the pots at first
    MaxLost,                \* bound: lost answers
    MaxOthers               \* bound: changes made by others

\* Are the two keys set, and is the settlement operator's wallet the operator of the
\* node in the registry?
WalletConfig == [providerKey : BOOLEAN, operatorKey : BOOLEAN, operatorOwnsNode : BOOLEAN]

WalletPots == {"native", "usdc"}
Conditions == {"oracle", "registry"}
EscrowPots == {"balance", "custody", "earnings"} \cup Conditions
Pots == WalletPots \cup EscrowPots
\* What may run out between the simulation and the block.  A native deposit carries its
\* value, and no block takes it without.
Contested == Pots \ {"native"}

ASSUME WalletAssumption ==
    /\ WalletConfigs \subseteq WalletConfig
    /\ CallAmounts \subseteq Nat
    /\ InitialPots \in [Pots -> Nat]
    /\ {MaxLost, MaxOthers} \subseteq Nat

VARIABLES
    wallets,                \* the configuration
    funds,                  \* the pots of the provider wallet
    held,                   \* [address -> the pots of that escrow]
    mempool,                \* Seq of [request, call], oldest first
    request,                \* [Requests -> the handler's progress]
    others,                 \* changes made by others
    effects,                \* history: [Requests -> transactions that took effect]
    lost,                   \* history: [Requests -> answers that were lost]
    drawn                   \* history: [Contested -> how often something was taken from it]

walletVars == <<wallets, funds, held, mempool, request, others, effects, lost, drawn>>

Kinds == {"depositDot", "depositUsdcAsDot", "withdrawDot", "withdrawProvider"}
Escrows == {ZeroAddress, OwnAddress} \cup NetworkAddresses
Call == [kind : Kinds, amount : CallAmounts, escrow : Escrows]

NoRequest == [at |-> "none"]

WalletInit ==
    /\ wallets \in WalletConfigs
    /\ funds = [p \in WalletPots |-> InitialPots[p]]
    /\ held = [e \in Escrows |-> [p \in EscrowPots |->
                  IF p = "registry" /\ ~wallets.operatorOwnsNode THEN 0 ELSE InitialPots[p]]]
    /\ mempool = <<>>
    /\ request = [r \in Requests |-> NoRequest]
    /\ others = 0
    /\ effects = [r \in Requests |-> 0]
    /\ lost = [r \in Requests |-> 0]
    /\ drawn = [p \in Contested |-> 0]

-------------------------------------------------------------------------------
\* The escrow.

\* The pots a call draws on.
Needs(kind) ==
    CASE kind = "depositDot"       -> {"native"}
      [] kind = "depositUsdcAsDot" -> {"usdc", "oracle"}
      [] kind = "withdrawDot"      -> {"balance", "custody"}
      [] OTHER                     -> {"earnings", "custody", "registry"}

\* The pots it adds to; withdrawProviderDot pays another wallet.
Gives(kind) ==
    CASE kind = "depositDot"       -> {"balance", "custody"}
      [] kind = "depositUsdcAsDot" -> {"balance"}
      [] kind = "withdrawDot"      -> {"native"}
      [] OTHER                     -> {}

Takes(kind) == Needs(kind) \ Conditions

Available(p, escrow) == IF p \in WalletPots THEN funds[p] ELSE held[escrow][p]
Required(p, call) == IF p \in Conditions THEN 1 ELSE call.amount

Accepted(call) == \A p \in Needs(call.kind) : Available(p, call.escrow) >= Required(p, call)

After(p, was, call) ==
    (was + IF p \in Gives(call.kind) THEN call.amount ELSE 0)
        - IF p \in Takes(call.kind) THEN call.amount ELSE 0

MoveFunds(call) == [p \in WalletPots |-> After(p, funds[p], call)]
MoveHeld(call) ==
    [held EXCEPT ![call.escrow] = [p \in EscrowPots |-> After(p, held[call.escrow][p], call)]]
CountDrawn(pots) == [p \in Contested |-> drawn[p] + IF p \in pots THEN 1 ELSE 0]

Signer(tx) == IF tx.call.kind = "withdrawProvider" THEN "operator" ELSE "provider"

\* The oldest transaction of a wallet is mined; one the escrow no longer accepts reverts.
MineCall(i) ==
    /\ \A j \in 1..(i - 1) : Signer(mempool[j]) # Signer(mempool[i])
    /\ mempool[i].call.kind = "depositDot" => Accepted(mempool[i].call)
    /\ LET tx == mempool[i]
       IN  IF Accepted(tx.call)
           THEN /\ funds' = MoveFunds(tx.call)
                /\ held' = MoveHeld(tx.call)
                /\ effects' = [effects EXCEPT ![tx.request] = @ + 1]
                /\ drawn' = CountDrawn(Takes(tx.call.kind))
           ELSE UNCHANGED <<funds, held, effects, drawn>>
    /\ mempool' = RemoveAt(mempool, i)
    /\ UNCHANGED <<wallets, request, others, lost>>

\* Somebody else changes one pot: other users of the escrow, the price and its age, the
\* registry, the wallet's key used elsewhere.
OthersChange(p, escrow, value) ==
    /\ others < MaxOthers
    /\ p \in Conditions => value \in {0, 1}
    /\ others' = others + 1
    /\ IF p \in WalletPots
       THEN funds' = [funds EXCEPT ![p] = value] /\ UNCHANGED held
       ELSE held' = [held EXCEPT ![escrow][p] = value] /\ UNCHANGED funds
    /\ drawn' = CountDrawn(IF value < Available(p, escrow) THEN {p} ELSE {})
    /\ UNCHANGED <<wallets, mempool, request, effects, lost>>

Others ==
    \E p \in Pots, escrow \in Escrows :
        \E value \in 0..(Available(p, escrow) + 1) : OthersChange(p, escrow, value)

-------------------------------------------------------------------------------
\* The handlers.

\* A failed request may be repeated; of a confirmed one only its history counts.
Failed(r) == [request EXCEPT ![r] = [at |-> "failed", call |-> @.call]]
Watching(r) ==
    [at |-> "watching", call |-> request[r].call,
     since |-> [p \in Needs(request[r].call.kind) \cap Contested |-> drawn[p]]]
MayLose == MapThenSumSet(LAMBDA r : lost[r], Requests) < MaxLost

\* The checks the four handlers and the helpers behind them make before they send.
MaySend(kind, amount) ==
    /\ Enabled("settlement")
    /\ boot.escrow # ZeroAddress
    /\ amount # 0
    /\ IF kind = "withdrawProvider" THEN wallets.operatorKey ELSE wallets.providerKey

\* A request arrives, new or repeated after an error.
Handle(r, kind, amount) ==
    /\ request[r].at \in {"none", "failed"}
    /\ request[r].at = "failed" =>
           request[r].call.kind = kind /\ request[r].call.amount = amount
    /\ request' = [request EXCEPT ![r] =
           IF MaySend(kind, amount)
           THEN [at |-> "sending",
                 call |-> [kind |-> kind, amount |-> amount, escrow |-> boot.escrow]]
           ELSE [at |-> "skipped"]]
    /\ UNCHANGED <<wallets, funds, held, mempool, others, effects, lost, drawn>>

\* deposit_dot, deposit_usdc_as_dot, withdraw_dot and withdraw_provider_dot share what
\* happens on the way to the chain and back.
DepositDot(r, amount) == Handle(r, "depositDot", amount)
DepositUsdcAsDot(r, amount) == Handle(r, "depositUsdcAsDot", amount)
WithdrawDot(r, amount) == Handle(r, "withdrawDot", amount)
WithdrawProvider(r, amount) == Handle(r, "withdrawProvider", amount)

\* The simulation of send() refuses the call, or the RPC endpoint does not answer.
SendFails(r) ==
    /\ request[r].at = "sending"
    /\ request' = Failed(r)
    /\ UNCHANGED <<wallets, funds, held, mempool, others, effects, lost, drawn>>

\* Mutant: a slow transaction is sent again by the same handler.
SendCallAgain(r) ==
    /\ request[r].at \in {"sending", "watching"}
    /\ Len(mempool) <= Cardinality(Requests)
    /\ Accepted(request[r].call)
    /\ mempool' = Append(mempool, [request |-> r, call |-> request[r].call])
    /\ request' = [request EXCEPT ![r] = Watching(r)]
    /\ UNCHANGED <<wallets, funds, held, others, effects, lost, drawn>>

\* The transaction is sent; the answer to send() may be lost.
SendCall(r) ==
    /\ request[r].at = "sending"
    /\ Accepted(request[r].call)
    /\ mempool' = Append(mempool, [request |-> r, call |-> request[r].call])
    /\ \/ /\ request' = [request EXCEPT ![r] = Watching(r)]
          /\ UNCHANGED lost
       \/ /\ MayLose
          /\ request' = Failed(r)
          /\ lost' = [lost EXCEPT ![r] = @ + 1]
    /\ UNCHANGED <<wallets, funds, held, others, effects, drawn>>

\* Mutant: confirmed as soon as it is sent.
ConfirmCallEarly(r) ==
    /\ request[r].at = "watching"
    /\ request' = [request EXCEPT ![r] = [at |-> "confirmed", kind |-> @.call.kind, since |-> @.since]]
    /\ UNCHANGED <<wallets, funds, held, mempool, others, effects, lost, drawn>>

\* watch() sees the transaction in a block and the handler answers success; the status
\* of the receipt is not looked at.
ConfirmCall(r) ==
    /\ request[r].at = "watching"
    /\ \A i \in DOMAIN mempool : mempool[i].request # r
    /\ request' = [request EXCEPT ![r] = [at |-> "confirmed", kind |-> @.call.kind, since |-> @.since]]
    /\ UNCHANGED <<wallets, funds, held, mempool, others, effects, lost, drawn>>

LoseCall(r) ==
    /\ request[r].at = "watching"
    /\ MayLose
    /\ request' = Failed(r)
    /\ lost' = [lost EXCEPT ![r] = @ + 1]
    /\ UNCHANGED <<wallets, funds, held, mempool, others, effects, drawn>>

\* The process stops: whoever was waiting sees the connection closed.
WalletStops ==
    LET open == {r \in Requests : request[r].at \in {"sending", "watching"}}
    IN  /\ open # {} => MayLose
        /\ request' = [r \in Requests |-> IF r \in open THEN Failed(r)[r] ELSE request[r]]
        /\ lost' = [r \in Requests |-> lost[r] + IF r \in open THEN 1 ELSE 0]
        /\ UNCHANGED <<wallets, funds, held, mempool, others, effects, drawn>>

WalletStep ==
    \/ \E r \in Requests, amount \in CallAmounts :
           \/ DepositDot(r, amount) \/ DepositUsdcAsDot(r, amount)
           \/ WithdrawDot(r, amount) \/ WithdrawProvider(r, amount)
    \/ \E r \in Requests : SendFails(r) \/ SendCall(r) \/ ConfirmCall(r) \/ LoseCall(r)

-------------------------------------------------------------------------------
\* A request the operator repeats until it is answered with success moves money at
\* most once more than answers to it were lost.
MovedOncePerAnswer == \A r \in Requests : effects[r] <= 1 + lost[r]

\* An answer of success is true, unless between the simulation and the block something
\* was taken, by whomever, from what this very call draws on, or the price or the
\* node's operator changed: then the transaction reverted and the caller is told that
\* it was confirmed.  A native deposit draws on nothing that can fail it in a block.
ConfirmedTookEffect ==
    \A r \in Requests : request[r].at = "confirmed" =>
        \/ effects[r] >= 1
        \/ \E p \in Needs(request[r].kind) \cap Contested : drawn[p] > request[r].since[p]
===============================================================================
