------------------------------ MODULE NodeServices ------------------------------
(***************************************************************************)
(* The node process as main.rs puts it together: it starts (NodeStart),    *)
(* and once it serves, the epoch loop, the attestation refreshes and the   *)
(* wallet calls run side by side, as far as the configuration turns them   *)
(* on, until the process stops and takes all of them down.                 *)
(***************************************************************************)
EXTENDS EscrowWallet, EpochLoop, Attestation

vars == <<startVars, walletVars, loopVars, attestationVars>>

Init == StartInit /\ WalletInit /\ LoopInit /\ AttestationInit

Serving == boot.at = "serving"

StartOnly == StartStep /\ UNCHANGED <<walletVars, loopVars, attestationVars>>

LoopOnly ==
    /\ Serving
    /\ Enabled("settlement")
    /\ LoopStarts \/ Wake
    /\ UNCHANGED <<startVars, walletVars, attestationVars>>

AttestationOnly ==
    /\ Serving
    /\ AttestationStep
    /\ UNCHANGED <<startVars, walletVars, loopVars>>

WalletOnly ==
    /\ Serving
    /\ WalletStep
    /\ UNCHANGED <<startVars, loopVars, attestationVars>>

\* The process stops, by itself, for an error of a stage, or by hand.
ProcessStops ==
    /\ Stop
    /\ WalletStops
    /\ LoopStops
    /\ AttestationStops

\* The world around the process.
TimePasses == Tick /\ UNCHANGED <<startVars, walletVars, loopVars>>
ChainMines == (\E i \in DOMAIN mempool : MineCall(i)) /\ UNCHANGED <<startVars, loopVars, attestationVars>>
OthersAct == Others /\ UNCHANGED <<startVars, loopVars, attestationVars>>
OwnerUpdates ==
    /\ \E registry, escrow \in NetworkAddresses : SetAddresses(registry, escrow)
    /\ UNCHANGED <<walletVars, loopVars, attestationVars>>

Next ==
    \/ StartOnly \/ LoopOnly \/ AttestationOnly \/ WalletOnly
    \/ ProcessStops
    \/ TimePasses \/ ChainMines \/ OthersAct \/ OwnerUpdates

\* tokio's lock is handed out in the order of arrival, and every exchange with NRAS is
\* answered or times out.
EnterFairly(r) == Serving /\ Enter(r) /\ UNCHANGED <<startVars, walletVars, loopVars>>
FlowEndsFairly(r) == Serving /\ FlowEnds(r) /\ UNCHANGED <<startVars, walletVars, loopVars>>

Fairness == \A r \in Refreshers : SF_vars(EnterFairly(r)) /\ WF_vars(FlowEndsFairly(r))

Spec == Init /\ [][Next]_vars /\ Fairness
===============================================================================
