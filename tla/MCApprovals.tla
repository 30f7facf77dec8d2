----------------------------- MODULE MCApprovals ----------------------------
(***************************************************************************)
(* Instances of Approvals for TLC: which board each approval is created    *)
(* on, and the values that are interchangeable.                            *)
(***************************************************************************)
EXTENDS Approvals, TLC

CONSTANTS a1, a2, b1, b2

SameBoard == [a \in Approvals |-> b1]
TwoBoards == [a \in Approvals |-> IF a = a1 THEN b1 ELSE b2]
Symmetry == Permutations(Writers) \cup Permutations(Approvals) \cup
            Permutations(Decisions)
=============================================================================
