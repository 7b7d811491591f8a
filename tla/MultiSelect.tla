------------------------------ MODULE MultiSelect ------------------------------
(***************************************************************************)
(* multiSelect of internal/configure/configure.go: a checklist on a raw     *)
(* terminal. The bytes of the keys come one by one; a Read takes what is    *)
(* there, three bytes at most, and only acts on what stands first in it.    *)
(***************************************************************************)
EXTENDS Checklist, Sequences, FiniteSets

CONSTANTS
    Items,   \* number of items
    Scripts  \* what users may type: sequences of keys

Bytes == [up |-> <<27, 91, 65>>, down |-> <<27, 91, 66>>, space |-> <<32>>, enter |-> <<13>>,
          escape |-> <<27>>, quit |-> <<113>>, interrupt |-> <<3>>, other |-> <<120>>]

ASSUME MultiSelectAssumption ==
    /\ Items \in Nat \ {0}
    /\ Scripts \subseteq Seq(DOMAIN Bytes)

VARIABLES
    script, \* the keys that are typed
    wire,   \* their bytes, those that have not come yet
    tty,    \* bytes that can be read
    log,    \* history: what each Read has returned, and the key it was taken for
    list    \* selected, cursor, and how multiSelect ended

widget == <<script, wire, tty, log, list>>

BytesOf(keys) ==
    LET bytes[k \in 0..Len(keys)] == IF k = 0 THEN <<>> ELSE bytes[k - 1] \o Bytes[keys[k]]
    IN  bytes[Len(keys)]

\* Mutant: an escape need not be alone.
MutantKeyOf(buf) ==
    CASE buf[1] \in {3, 4} -> "interrupt"
      [] buf[1] \in {13, 10} -> "enter"
      [] buf[1] = 27 -> "escape"
      [] buf[1] \in {113, 81} -> "quit"
      [] buf[1] = 32 -> "space"
      [] OTHER -> "other"

\* The key the loop takes a read for; an escape must be alone, an arrow whole.
KeyOf(buf) ==
    CASE buf[1] \in {3, 4} -> "interrupt"
      [] buf[1] \in {13, 10} -> "enter"
      [] buf = <<27>> -> "escape"
      [] buf[1] \in {113, 81} -> "quit"
      [] buf[1] = 32 -> "space"
      [] buf = Bytes["up"] -> "up"
      [] buf = Bytes["down"] -> "down"
      [] OTHER -> "other"

Open(keys) ==
    /\ script' = keys /\ wire' = BytesOf(keys)
    /\ tty' = <<>> /\ log' = <<>> /\ list' = Fresh

Arrive ==
    /\ list.state = "choosing" /\ wire # <<>>
    /\ tty' = Append(tty, Head(wire)) /\ wire' = Tail(wire)
    /\ UNCHANGED <<script, log, list>>

\* Mutant: an arrow need not be whole, what an earlier read has left in the
\* buffer makes up for it.
MutantRead ==
    /\ list.state = "choosing" /\ tty # <<>>
    /\ LET n == IF Len(tty) < 3 THEN Len(tty) ELSE 3
           buf == SubSeq(tty, 1, n)
           old == IF log = <<>> THEN <<>> ELSE log[Len(log)].buf
           key == KeyOf(IF n = 2 THEN buf \o SubSeq(old, 3, Len(old)) ELSE buf)
       IN  /\ log' = Append(log, [buf |-> buf, key |-> key])
           /\ tty' = SubSeq(tty, n + 1, Len(tty))
           /\ list' = Press(list, key, Items)
    /\ UNCHANGED <<script, wire>>

Read ==
    /\ list.state = "choosing" /\ tty # <<>>
    /\ LET n == IF Len(tty) < 3 THEN Len(tty) ELSE 3
           buf == SubSeq(tty, 1, n)
       IN  /\ log' = Append(log, [buf |-> buf, key |-> KeyOf(buf)])
           /\ tty' = SubSeq(tty, n + 1, Len(tty))
           /\ list' = Press(list, KeyOf(buf), Items)
    /\ UNCHANGED <<script, wire>>

\* The terminal is closed, or cannot be read: nothing is selected.
ReadFails ==
    /\ list.state = "choosing" /\ tty = <<>> /\ wire = <<>>
    /\ list' = Press(list, "escape", Items)
    /\ UNCHANGED <<script, wire, tty, log>>

\* There is no terminal: numbers can be typed instead, but what is selected by
\* them is dropped, and the program ends.
MakeRawFails ==
    /\ list = Fresh /\ log = <<>> /\ tty = <<>>
    /\ list' = [list EXCEPT !.state = "exited"]
    /\ UNCHANGED <<script, wire, tty, log>>

\* The end of the widget, what it has returned apart.
Forget == script' = <<>> /\ wire' = <<>> /\ tty' = <<>> /\ log' = <<>>

-----------------------------------------------------------------------------
(* Properties.                                                              *)

\* The place of x in the order of S.
Rank(x, S) == Cardinality({y \in S : y <= x})

\* configure.go, multiSelect: no key is made up and no two change places,
\* however the bytes come together: the reads that are acted on are, one by one
\* and in order, keys at some places of the script. The others are lost, and an
\* arrow whose first byte came alone is an escape.
KeysActInOrder ==
    LET acted == {i \in DOMAIN log : log[i].key # "other"}
    IN  \E places \in SUBSET DOMAIN script :
          /\ Cardinality(places) = Cardinality(acted)
          /\ \A i \in acted, p \in places :
               Rank(i, acted) = Rank(p, places) =>
                 \/ log[i].key = script[p]
                 \/ log[i].key = "escape" /\ script[p] \in {"up", "down"}

\* The list as its user thinks of it after so many of the keys.
Thought(keys, n) ==
    LET thought[k \in 0..Len(keys)] ==
          IF k = 0 THEN Fresh ELSE Press(thought[k - 1], keys[k], Items)
    IN  thought[n]

\* configure.go, multiSelect: while every read has taken one key as a whole, the
\* list is as its user thinks, until the terminal is closed.
WholeKeysCount ==
    (Len(log) <= Len(script) /\ \A i \in DOMAIN log : log[i].buf = Bytes[script[i]]) =>
      LET thought == Thought(script, Len(log))
      IN  \/ list = thought
          \/ list \in {Press(thought, "escape", Items), [Fresh EXCEPT !.state = "exited"]}
===============================================================================
