----------------------------- MODULE EscrowLedger -----------------------------
(***************************************************************************)
(* The escrow contract implements SessionLedger: forget who pays whom and  *)
(* in which tokens, and each call is one step on one entry or no step.     *)
(***************************************************************************)
EXTENDS SettlementEscrow

\* What the ledger shows of a session record.
EntryOf(s) ==
    [status  |-> IF s.user = NoAccount THEN "unknown"
                 ELSE IF s.settled THEN "settled" ELSE "open",
     opening |-> s.openingInternal, locked |-> s.lockedInternal,
     usage   |-> s.usageRecorded, paid |-> s.paidToProviderInternal]

entries == [id \in SessionIds |-> EntryOf(sessionById[id])]

Ledger == INSTANCE SessionLedger
    WITH ChainIds <- SessionIds, Deposits <- Amounts, MaxReported <- MaxUsage,
         ledger <- entries

\* Every call of the escrow opens, reports on or releases from at most one entry
\* of the ledger and never does what the ledger forbids.
LedgerRefined == Ledger!LedgerSpec
===============================================================================
