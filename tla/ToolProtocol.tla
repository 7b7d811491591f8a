----------------------------- MODULE ToolProtocol -----------------------------
(***************************************************************************)
(* What an agent promises to the two parties it sits between, the model and *)
(* the tools, whatever the conversation says and however its context is     *)
(* shortened: the model is consulted at most Limit times, the calls of one  *)
(* turn are taken up one by one in the order the model made them, each is   *)
(* carried out or refused once, and the model is not consulted again while  *)
(* one is open.                                                             *)
(***************************************************************************)
EXTENDS Integers, Sequences

CONSTANTS Ids,     \* tool call ids
          Limits   \* possible numbers of consultations

VARIABLES
    turn,    \* who is to act: the "agent", the "model", the "tools"; or "over"
    limit,   \* consultations allowed
    asked,   \* consultations made
    open,    \* calls the model made that have not been taken up yet
    carried  \* the calls that were carried out

vars == <<turn, limit, asked, open, carried>>

TypeOK == /\ turn \in {"agent", "model", "tools", "over"}
          /\ limit \in Limits
          /\ asked \in 0..limit
          /\ open \in Seq(Ids)
          /\ carried \subseteq Ids

Init == /\ turn = "agent"
        /\ limit \in Limits
        /\ asked = 0
        /\ open = <<>>
        /\ carried = {}

Consult == /\ turn = "agent"
           /\ asked < limit
           /\ open = <<>>
           /\ turn' = "model"
           /\ asked' = asked + 1
           /\ UNCHANGED <<limit, open, carried>>

\* The model answers with a batch of fresh calls.
MakeCalls == /\ turn = "model"
             /\ open' \in Seq(Ids) \ {<<>>}
             /\ \A i \in DOMAIN open' :
                  /\ open'[i] \notin carried
                  /\ \A j \in DOMAIN open' : open'[i] = open'[j] => i = j
             /\ turn' = "tools"
             /\ UNCHANGED <<limit, asked, carried>>

CarryOut == /\ turn = "tools"
            /\ open # <<>>
            /\ open' = Tail(open)
            /\ carried' = carried \cup {Head(open)}
            /\ UNCHANGED <<turn, limit, asked>>

\* A hook keeps the next call from being carried out.
Refuse == /\ turn = "tools"
          /\ open # <<>>
          /\ open' = Tail(open)
          /\ UNCHANGED <<turn, limit, asked, carried>>

\* All calls of the turn are done: on to the next consultation, or the end.
TurnDone == /\ turn = "tools"
            /\ open = <<>>
            /\ turn' = IF asked < limit THEN "agent" ELSE "over"
            /\ UNCHANGED <<limit, asked, open, carried>>

\* The model had nothing left to call, failed, or gave no usable answer; or
\* a hook forbade the consultation.
Stop == /\ turn \in {"agent", "model"}
        /\ turn' = "over"
        /\ UNCHANGED <<limit, asked, open, carried>>

Next == Consult \/ MakeCalls \/ CarryOut \/ Refuse \/ TurnDone \/ Stop

Spec == Init /\ [][Next]_vars
===============================================================================
