------------------------------- MODULE Checklist -------------------------------
(***************************************************************************)
(* A list of items to tick off, as its user thinks of it: what each key     *)
(* does to the cursor, to the items that are ticked and to the dialogue.    *)
(***************************************************************************)
EXTENDS Naturals

Fresh == [cursor |-> 1, ticked |-> {}, state |-> "choosing"]

Toggled(set, x) == IF x \in set THEN set \ {x} ELSE set \cup {x}

\* Confirming keeps what is ticked, leaving without an answer drops it, an
\* interrupt ends the program. No other key does anything.
Press(list, key, items) ==
    IF list.state # "choosing" THEN list
    ELSE CASE key = "up" /\ list.cursor > 1 -> [list EXCEPT !.cursor = @ - 1]
           [] key = "down" /\ list.cursor < items -> [list EXCEPT !.cursor = @ + 1]
           [] key = "space" -> [list EXCEPT !.ticked = Toggled(@, list.cursor)]
           [] key = "enter" -> [list EXCEPT !.state = "answered"]
           [] key \in {"escape", "quit"} -> [list EXCEPT !.ticked = {}, !.state = "answered"]
           [] key = "interrupt" -> [list EXCEPT !.state = "exited"]
           [] OTHER -> list
===============================================================================
