-------------------------------- MODULE Recall ---------------------------------
(***************************************************************************)
(* What a prompt is told of the memory (internal/memory/memory.go, Search   *)
(* and WorkingContext; EnrichWithMemory in internal/ctxmgr/manager.go). An  *)
(* entry is its type; the entries are in the order of their times. Nothing  *)
(* the program adds has a tag GetInstructions looks for and is kept for     *)
(* long, so a prompt has no instructions of the memory.                     *)
(***************************************************************************)
EXTENDS Naturals, Sequences

EntryTypes == {"tool_result", "insight", "session_summary"}

\* Without a query and tags all entries score alike: the newest come first.
Search(entries, limit) == {k \in DOMAIN entries : k > Len(entries) - limit}

Insights(entries) == {k \in DOMAIN entries : entries[k] = "insight"}

\* Mutant: the insights are picked out before the newest are.
MutantWorkingContext(entries, limit) ==
    {k \in Insights(entries) :
       limit > Len(SelectSeq(SubSeq(entries, k + 1, Len(entries)), LAMBDA e : e = "insight"))}

\* The insights among the newest entries: 20 in the code.
WorkingContext(entries, limit) == Search(entries, limit) \cap Insights(entries)
===============================================================================
