---------------------------- MODULE Enumeration ----------------------------
(***************************************************************************)
(* A finite set in some order, and the part of a sequence at some of its   *)
(* indices, by how many elements come before one: there is no recursion,   *)
(* so that what a filter or a sort of the code keeps can be reasoned about *)
(* for sequences of every length.                                          *)
(***************************************************************************)
EXTENDS Naturals, Sequences, FiniteSets

(* The elements of S, where before[a] are those that come before a.         *)
InOrder(S, before) ==
    [n \in 1..Cardinality(S) |->
        CHOOSE a \in S : Cardinality(before[a]) = n - 1]

Ascending(K) == InOrder(K, [i \in K |-> {j \in K : j < i}])

(* Select(<<a, b, c>>, {1, 3}) = <<a, c>>.                                  *)
Select(s, K) ==
    LET at == Ascending(K) IN [n \in DOMAIN at |-> s[at[n]]]

=============================================================================
