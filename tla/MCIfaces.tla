----------------------------- MODULE MCIfaces -----------------------------
(* A small instance of Ifaces: two scripts at a time, one interface of each *)
(* protocol, three units.                                                   *)
EXTENDS Ifaces, TLC

Symmetry == Permutations(Script)

=============================================================================
