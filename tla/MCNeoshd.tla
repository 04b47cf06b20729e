------------------------------ MODULE MCNeoshd ------------------------------
(* Neoshd for TLC: connections are interchangeable model values. *)
EXTENDS Neoshd, TLC

Symmetry == Permutations(Conns)

=============================================================================
