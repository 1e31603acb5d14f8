-------------------------- MODULE MCExternalAccess --------------------------
(***************************************************************************)
(* A small instance of ExternalAccess.                                     *)
(***************************************************************************)
EXTENDS ExternalAccess, TLC

Symmetry == Permutations(Clients)
=============================================================================
