------------------------------ MODULE MCFdbKvdb ------------------------------
(* Small instances of FdbKvdb for TLC. *)
EXTENDS FdbKvdb, TLC

CONSTANTS v1, v2

\* Every node takes one unit.
OneSize == [v \in Vals |-> 1]

\* A short and a long value.
TwoSizes == v1 :> 1 @@ v2 :> 2

\* Keys, and values of one length, are interchangeable.
Symmetric == Permutations(Keys) \cup Permutations(Vals)
SymmetricKeys == Permutations(Keys)
=============================================================================
