---------------------------- MODULE OrderedSets ----------------------------
(***************************************************************************)
(* The elements of a finite set in an order, as a sequence: sorted, and    *)
(* what pandas does with columns and rows in their order.  SortSeq of the  *)
(* TLC module is no definition that a proof could expand, so it is defined *)
(* by places: the element at place n is the one with n - 1 before it.      *)
(***************************************************************************)
EXTENDS Naturals, Sequences, FiniteSets

Below(S, less, x) == {y \in S : <<y, x>> \in less}

InOrder(S, less) ==
    [n \in 1 .. Cardinality(S) |->
        CHOOSE x \in S : Cardinality(Below(S, less, x)) = n - 1]

(* Numbers by size, and pairs of them by the first and then the second.    *)
Smaller == {p \in Nat \X Nat : p[1] < p[2]}
Earlier == {p \in (Nat \X Nat) \X (Nat \X Nat) :
              \/ p[1][1] < p[2][1]
              \/ p[1][1] = p[2][1] /\ p[1][2] < p[2][2]}

(* What is at some places of a sequence, in its order.                     *)
Picked(s, places) ==
    LET at == InOrder(places, Smaller)
    IN [n \in DOMAIN at |-> s[at[n]]]

(* drop_duplicates: of equal values the first stays.                       *)
WithoutRepeats(s) ==
    Picked(s, {i \in DOMAIN s : \A j \in 1 .. i - 1 : s[j] # s[i]})
=============================================================================
