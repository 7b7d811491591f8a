------------------------------ MODULE MemoryStore ------------------------------
(***************************************************************************)
(* The memory store (internal/memory/memory.go) with the goroutines that    *)
(* write its entries to disk, the end of the process at any moment, and the *)
(* next process that reads the files back.                                  *)
(*                                                                          *)
(* A file is a sequence of what its writers appended: the type descriptors  *)
(* an encoder sends before its value, and the value. Every entry has an     *)
(* encoder of its own; a file has one decoder, which stops at the second    *)
(* descriptors of the same type.                                            *)
(***************************************************************************)
EXTENDS Naturals, Sequences, FiniteSets

CONSTANTS
    MaxSessions,   \* bound: sessions ever created
    MaxEntries     \* bound: entries ever added

ASSUME MemoryBounds == MaxSessions \in Nat /\ MaxEntries \in Nat

Levels == {"working", "session", "long_term"}

Tiers == {"workspace", "global"}     \* dataDir and globalDir

Sessions == 1..MaxSessions           \* numbered in the order of their creation

Entry == [id: 1..MaxEntries, level: Levels, born: Sessions]

Files == Tiers \X Sessions           \* session_<id>.gob in one of the directories

Part == [part: {"types", "value"}, entry: Entry]

VARIABLES
    up,        \* is there a process
    session,   \* ms.sessionID; 0 before the first SetSession
    created,   \* sessions created so far, by all processes
    added,     \* entries added so far, by all processes
    entries,   \* ms.entries
    writers,   \* goroutines in persistEntry
    disk,      \* the contents of every file
    told       \* history: entries whose level asks for a file

vars == <<up, session, created, added, entries, writers, disk, told>>

Durable(e) == e.level \in {"session", "long_term"}

Writer == [entry: Entry, stage: {"started", "opened", "described"}, file: Files]

TierOf(e) == IF e.level = "session" THEN "workspace" ELSE "global"

Init ==
    /\ up = TRUE
    /\ session = 0 /\ created = 0 /\ added = 0
    /\ entries = {} /\ writers = {} /\ told = {}
    /\ disk = [f \in Files |-> <<>>]

-----------------------------------------------------------------------------
(* The process. Sessions are set before anything is added (Execute does).   *)

SetSession ==
    /\ up /\ created < MaxSessions
    /\ created' = created + 1
    /\ session' = created + 1
    /\ UNCHANGED <<up, added, entries, writers, disk, told>>

\* Mutant: entries without a level go to disk, too, under no session.
MutantStart(e) == [entry |-> e, stage |-> "started", file |-> <<TierOf(e), 0>>]

\* The goroutine for an entry does not know its file yet.
Start(e) == [entry |-> e, stage |-> "started", file |-> <<TierOf(e), e.born>>]

Add ==
    /\ up /\ session # 0 /\ added < MaxEntries
    /\ added' = added + 1
    /\ \E level \in Levels :
         LET e == [id |-> added + 1, level |-> level, born |-> session]
         IN  /\ entries' = entries \cup {e}
             /\ writers' = IF Durable(e) THEN writers \cup {Start(e)} ELSE writers
             /\ told' = IF Durable(e) THEN told \cup {e} ELSE told
    /\ UNCHANGED <<up, session, created, disk>>

\* The program ends, or is killed: goroutines end with it.
Exit ==
    /\ up
    /\ up' = FALSE
    /\ session' = 0
    /\ entries' = {} /\ writers' = {}
    /\ UNCHANGED <<created, added, disk, told>>

-----------------------------------------------------------------------------
(* persistEntry.                                                            *)

Move(w, to) == writers' = (writers \ {w}) \cup {to}

\* Mutant: the file is that of the first session, the parent of a pipeline.
MutantOpenFile(w) ==
    /\ w.stage = "started"
    /\ Move(w, [w EXCEPT !.stage = "opened", !.file = <<TierOf(w.entry), 1>>])
    /\ UNCHANGED <<up, session, created, added, entries, disk, told>>

\* The file is that of the session which is current now.
OpenFile(w) ==
    /\ w.stage = "started"
    /\ Move(w, [w EXCEPT !.stage = "opened", !.file = <<TierOf(w.entry), session>>])
    /\ UNCHANGED <<up, session, created, added, entries, disk, told>>

AppendPart(w, part) ==
    disk' = [disk EXCEPT ![w.file] = Append(@, [part |-> part, entry |-> w.entry])]

\* Mutant: the file is truncated when the first bytes are written.
MutantWriteTypes(w) ==
    /\ w.stage = "opened"
    /\ disk' = [disk EXCEPT ![w.file] = <<[part |-> "types", entry |-> w.entry]>>]
    /\ Move(w, [w EXCEPT !.stage = "described"])
    /\ UNCHANGED <<up, session, created, added, entries, told>>

WriteTypes(w) ==
    /\ w.stage = "opened"
    /\ AppendPart(w, "types")
    /\ Move(w, [w EXCEPT !.stage = "described"])
    /\ UNCHANGED <<up, session, created, added, entries, told>>

WriteValue(w) ==
    /\ w.stage = "described"
    /\ AppendPart(w, "value")
    /\ writers' = writers \ {w}
    /\ UNCHANGED <<up, session, created, added, entries, told>>

\* An error of opening or writing ends the goroutine, and nobody hears of it.
GiveUp(w) ==
    /\ writers' = writers \ {w}
    /\ UNCHANGED <<up, session, created, added, entries, disk, told>>

-----------------------------------------------------------------------------
(* NewMemoryStore and LoadAllSessions in the next process.                  *)

\* The values in front of the second descriptors.
Decoded(parts) ==
    {parts[i].entry : i \in {j \in DOMAIN parts :
        /\ parts[j].part = "value"
        /\ \A k \in 2..j : parts[k].part # "types"}}

Recovered == UNION {Decoded(disk[f]) : f \in Files}

Load ==
    /\ ~up
    /\ up' = TRUE
    /\ entries' = Recovered
    /\ UNCHANGED <<session, created, added, writers, disk, told>>

Persist == \E w \in writers : OpenFile(w) \/ WriteTypes(w) \/ WriteValue(w) \/ GiveUp(w)

Next == SetSession \/ Add \/ Exit \/ Load \/ Persist

Spec == Init /\ [][Next]_vars

-----------------------------------------------------------------------------
(* Properties.                                                              *)

TypeOK ==
    /\ up \in BOOLEAN
    /\ session \in Nat /\ created \in Nat /\ added \in Nat
    /\ entries \subseteq Entry /\ told \subseteq Entry
    /\ writers \subseteq Writer
    /\ disk \in [Files -> Seq(Part)]

On(f) == {disk[f][i] : i \in DOMAIN disk[f]}

\* The file of an entry is decided late, by whatever session is current then:
\* in the right directory, and never under a session before its own.
FiledNotEarlier ==
    \A f \in Files : \A p \in On(f) :
      /\ f[1] = "workspace" <=> p.entry.level = "session"
      /\ f[2] >= p.entry.born
      /\ f[2] <= created

Memory == INSTANCE BestEffortMemory WITH
    Entries <- Entry,
    kept  <- Recovered,
    known <- {e \in entries : Durable(e)}

\* Whatever the order of the goroutines, and wherever the process ends: the
\* store is a memory that forgets but never invents, and what one start could
\* load every later start loads.
ImplementsMemory == Memory!Spec

\* README.md, "Memory Types": long-term memory is cross-session, in gob files.
WrittenIsRemembered ==
    \A f \in Files : \A p \in On(f) : p.part = "value" => p.entry \in Recovered
===============================================================================
