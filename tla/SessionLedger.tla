----------------------------- MODULE SessionLedger -----------------------------
(***************************************************************************)
(* What the settlement escrow promises about the money of one session,     *)
(* without accounts, fees, prices or native tokens: a lock is opened once, *)
(* usage is reported while it is open, and pieces of the lock are released *)
(* to the provider, never beyond the reported usage, and to the user, until*)
(* nothing is locked and the session is settled for good.                  *)
(*                                                                         *)
(* EscrowLedger shows that contracts/src/SettlementEscrow.sol implements   *)
(* this; NodeSettlement uses it as the chain the node settles against.     *)
(***************************************************************************)
EXTENDS Naturals

CONSTANTS
    ChainIds,               \* session ids of the escrow
    Deposits,               \* amounts a session may be opened with
    MaxReported             \* bound: usage reported on one session

ASSUME LedgerAssumption ==
    /\ Deposits \subseteq Nat
    /\ MaxReported \in Nat

VARIABLE ledger             \* [ChainIds -> Entry]

Entry == [status : {"unknown", "open", "settled"}, opening : Nat,
          locked : Nat, usage : Nat, paid : Nat]

NoEntry == [status |-> "unknown", opening |-> 0, locked |-> 0, usage |-> 0, paid |-> 0]

LedgerTypeOK == ledger \in [ChainIds -> Entry]

LedgerInit == ledger = [id \in ChainIds |-> NoEntry]

Opened(amount) ==
    [status |-> "open", opening |-> amount, locked |-> amount, usage |-> 0, paid |-> 0]

Open(id, amount) ==
    /\ ledger[id].status = "unknown"
    /\ amount > 0
    /\ ledger' = [ledger EXCEPT ![id] = Opened(amount)]

\* recordUsage: open sessions only.
Reportable(id, cost) ==
    /\ ledger[id].status = "open"
    /\ ledger[id].usage + cost <= MaxReported

Report(id, cost) ==
    /\ Reportable(id, cost)
    /\ ledger' = [ledger EXCEPT ![id].usage = @ + cost]

\* The settle calls; a full settle asks that the split drain the lock.
Releasable(id, toProvider, toUser) ==
    /\ ledger[id].status = "open"
    /\ toProvider + toUser > 0
    /\ toProvider + toUser <= ledger[id].locked
    /\ ledger[id].paid + toProvider <= ledger[id].usage

Released(e, toProvider, toUser) ==
    [status  |-> IF e.locked = toProvider + toUser THEN "settled" ELSE "open",
     opening |-> e.opening,
     locked  |-> e.locked - (toProvider + toUser),
     usage   |-> e.usage,
     paid    |-> e.paid + toProvider]

Release(id, toProvider, toUser) ==
    /\ Releasable(id, toProvider, toUser)
    /\ ledger' = [ledger EXCEPT ![id] = Released(ledger[id], toProvider, toUser)]

LedgerNext ==
    \E id \in ChainIds :
        \/ \E amount \in Deposits : Open(id, amount)
        \/ \E cost \in 0..MaxReported : Report(id, cost)
        \/ \E p, u \in 0..ledger[id].locked : Release(id, p, u)

LedgerSpec == LedgerInit /\ [][LedgerNext]_ledger
===============================================================================
