----------------------------- MODULE MCRouterTunnel -----------------------------
(***************************************************************************)
(* Instances of RouterTunnel for TLC: a session of one user, which another *)
(* tries to activate as well; delays at their limits.                      *)
(***************************************************************************)
EXTENDS RouterTunnel, TLC

CONSTANTS u1, u2

Sessions == 1 :> [user |-> u2, here |-> TRUE]

\* A maximum below the effective minimum, and one that is not a multiple of it.
EdgeConfigs == {[reconnectMin |-> 0, reconnectMax |-> 0, settlement |-> TRUE],
                [reconnectMin |-> 2, reconnectMax |-> 3, settlement |-> FALSE]}

===============================================================================
