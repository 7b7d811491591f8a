--------------------------- MODULE DirectoryRegistry ---------------------------
(***************************************************************************)
(* What an index of workspaces promises: registering adds a directory and   *)
(* loses none, pruning removes only directories without a workspace.        *)
(***************************************************************************)
CONSTANT Dirs

VARIABLES
    registered,   \* the directories in the index
    exists        \* the directories with a workspace in them

vars == <<registered, exists>>

Init == registered = {} /\ exists \in SUBSET Dirs

Register ==
    \E d \in Dirs :
      /\ registered' = registered \cup {d}
      /\ UNCHANGED exists

Prune ==
    /\ registered' \in SUBSET registered
    /\ (registered \ registered') \cap exists = {}
    /\ UNCHANGED exists

\* Workspaces come and go without the index.
Change == exists' \in SUBSET Dirs /\ UNCHANGED registered

Next == Register \/ Prune \/ Change

Spec == Init /\ [][Next]_vars
===============================================================================
