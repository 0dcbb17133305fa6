------------------------------ MODULE MCSession ------------------------------
(* Instances of Session for TLC. *)
EXTENDS Session, TLC

CONSTANTS h1, h2, i1, i2

MCForm == [i \in Ifaces |-> IF i = i2 THEN "int" ELSE "char"]

(* Every driver, and the drivers that leave no socket behind. *)
AllDrivers == Dispatched
Tidy       == Dispatched \ {"madwifiold"}

HandleSymmetry == Permutations(Handles)
=============================================================================
