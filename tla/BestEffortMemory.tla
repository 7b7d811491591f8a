--------------------------- MODULE BestEffortMemory ----------------------------
(***************************************************************************)
(* What a memory that survives its process may do at its worst: forget.     *)
(* It never makes anything up, and what a restart could bring back once,    *)
(* every later restart brings back.                                         *)
(***************************************************************************)
CONSTANT Entries    \* all entries that could be worth keeping

VARIABLES
    told,    \* every entry the memory was ever asked to keep
    kept,    \* those of them a restart brings back
    known    \* those of them the running process knows

vars == <<told, kept, known>>

Init == told = {} /\ kept = {} /\ known = {}

Tell ==
    \E e \in Entries \ told :
      /\ told' = told \cup {e}
      /\ known' = known \cup {e}
      /\ UNCHANGED kept

Keep ==
    \E e \in told \ kept :
      /\ kept' = kept \cup {e}
      /\ UNCHANGED <<told, known>>

Stop == known' = {} /\ UNCHANGED <<told, kept>>

Restart == known' = kept /\ UNCHANGED <<told, kept>>

Next == Tell \/ Keep \/ Stop \/ Restart

Spec == Init /\ [][Next]_vars
===============================================================================
