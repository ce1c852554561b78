---------------------------- MODULE MCRegistryClient ----------------------------
(***************************************************************************)
(* Instances of RegistryClient for TLC.                                    *)
(***************************************************************************)
EXTENDS RegistryClient
===============================================================================
