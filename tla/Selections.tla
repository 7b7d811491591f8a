------------------------------ MODULE Selections ------------------------------
(***************************************************************************)
(* Taking elements out of a sequence, and putting sequences together, as    *)
(* recursive functions so that facts about them can be proved               *)
(* (RecursionTheorems).                                                     *)
(***************************************************************************)
EXTENDS Integers, Sequences

\* The elements of s that are in S, in their order.
Within(s, S) ==
    LET kept[i \in 0..Len(s)] ==
          IF i = 0 THEN <<>>
          ELSE IF s[i] \in S THEN Append(kept[i - 1], s[i])
          ELSE kept[i - 1]
    IN  kept[Len(s)]

\* The sequences of s, one behind the other.
Joined(s) ==
    LET joined[i \in 0..Len(s)] == IF i = 0 THEN <<>> ELSE joined[i - 1] \o s[i]
    IN  joined[Len(s)]
===============================================================================
