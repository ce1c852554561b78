--------------------------- MODULE MCModelAdmission ---------------------------
(***************************************************************************)
(* Two slots and two queue places for four requests: enough for two guards *)
(* to be released before a waiter runs, and for the queue to be full.      *)
(***************************************************************************)
EXTENDS ModelAdmission

CONSTANT m1

AllLimited == [r \in Requests |-> m1]
TwoSlots == [m \in Models |-> 2]
===============================================================================
