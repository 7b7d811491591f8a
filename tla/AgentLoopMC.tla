----------------------------- MODULE AgentLoopMC ------------------------------
(***************************************************************************)
(* AgentLoop on small instances. Lengths are chosen so that a text of       *)
(* LongText characters takes a conversation over the limit of MaxTokens     *)
(* and a few of the short ones do not.                                      *)
(***************************************************************************)
EXTENDS AgentLoop

ShortText == 8
LongText == 328
SomeTexts == {ShortText, LongText}
SomePrompts == {0, 240}
DefaultAndOwnSteps == {0, 4}
===============================================================================
