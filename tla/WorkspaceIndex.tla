---------------------------- MODULE WorkspaceIndex -----------------------------
(***************************************************************************)
(* The index of workspaces, ~/.edcode/workspaces.json, shared by all edcode *)
(* processes of a user (internal/workspace/workspace.go). A process reads   *)
(* it once; saving truncates the file and then writes what the process      *)
(* remembers. There is no lock and no rename.                               *)
(***************************************************************************)
EXTENDS SequencesExt, Selections

CONSTANTS
    Procs,        \* edcode processes
    Dirs,         \* project directories
    MayCrash      \* may a process end anywhere?

ASSUME CrashAssumption == MayCrash \in BOOLEAN

VARIABLES
    pc,       \* where each process is
    workdir,  \* wm.workdir
    index,    \* wm.index, the paths in it
    file,     \* workspaces.json
    exists,   \* directories with a .edcode-workspace in them
    alone,    \* history: has no other process run since this one started?
    calm      \* history: have processes only run one by one, to their end?

vars == <<pc, workdir, index, file, exists, alone, calm>>

\* Nothing, nothing yet, bytes that do not parse, or a list of paths.
File == [kind: {"missing", "empty", "torn", "whole"}, paths: Seq(Dirs)]

Init ==
    /\ pc = [p \in Procs |-> "off"]
    /\ workdir \in [Procs -> Dirs]
    /\ index = [p \in Procs |-> <<>>]
    /\ file = [kind |-> "missing", paths |-> <<>>]
    /\ exists = {}
    /\ alone = [p \in Procs |-> FALSE]
    /\ calm = TRUE

Running == {p \in Procs : pc[p] # "off"}

Go(p, to) == pc' = [pc EXCEPT ![p] = to]

-----------------------------------------------------------------------------
\* loadIndex: a file that cannot be read or parsed is an empty index.
Loaded(p) == IF file.kind = "whole" THEN file.paths ELSE <<>>

\* Mutant: the loop over the entries compares nothing.
MutantRegisteredTwice(p) == Append(Loaded(p), workdir[p])

\* Mutant: an empty index is left alone.
MutantNotRegistered(p) ==
    IF Loaded(p) = <<>> \/ Contains(Loaded(p), workdir[p]) THEN Loaded(p)
    ELSE Append(Loaded(p), workdir[p])

\* Mutant: the entry has no path.
MutantNoPath(p) ==
    IF Contains(Loaded(p), workdir[p]) THEN Loaded(p) ELSE Append(Loaded(p), p)

Registered(p) ==
    IF Contains(Loaded(p), workdir[p]) THEN Loaded(p) ELSE Append(Loaded(p), workdir[p])

\* LoadInfo, up to where register saves.
LoadInfo(p) ==
    /\ pc[p] = "off"
    /\ index' = [index EXCEPT ![p] = Registered(p)]
    /\ alone' = [q \in Procs |-> IF q = p THEN Running = {} ELSE FALSE]
    /\ calm' = (calm /\ Running = {})
    /\ Go(p, "register")
    /\ UNCHANGED <<workdir, file, exists>>

\* saveIndex: os.WriteFile opens the file with O_TRUNC ...
Truncate(p) ==
    /\ pc[p] \in {"register", "prune"}
    /\ file' = [kind |-> "empty", paths |-> <<>>]
    /\ Go(p, IF pc[p] = "register" THEN "registering" ELSE "pruning")
    /\ UNCHANGED <<workdir, index, exists, alone, calm>>

\* ... and writes from its beginning. If another process wrote something
\* meanwhile, the end of that may stay behind the new text: also of a text with
\* the same paths, which has other times, that may be longer.
Write(p) ==
    /\ pc[p] \in {"registering", "pruning"}
    /\ \/ file' = [kind |-> "whole", paths |-> index[p]]
       \/ /\ file.kind # "empty"
          /\ file' = [kind |-> "torn", paths |-> <<>>]
    /\ Go(p, IF pc[p] = "registering" THEN "registered" ELSE "idle")
    /\ UNCHANGED <<workdir, index, exists, alone, calm>>

EnsureWorkspace(p) ==
    /\ pc[p] = "registered"
    /\ exists' = exists \cup {workdir[p]}
    /\ Go(p, "idle")
    /\ UNCHANGED <<workdir, index, file, alone, calm>>

\* Mutant: the condition is the wrong way round.
MutantKept(p) == Within(index[p], Dirs \ exists)

Kept(p) == Within(index[p], exists)

\* The index is not read again: Prune decides about what was there at the start.
Prune(p) ==
    /\ pc[p] = "idle"
    /\ index' = [index EXCEPT ![p] = Kept(p)]
    /\ Go(p, "prune")
    /\ UNCHANGED <<workdir, file, exists, alone, calm>>

Exit(p) ==
    /\ pc[p] = "idle"
    /\ Go(p, "off")
    /\ index' = [index EXCEPT ![p] = <<>>]
    /\ UNCHANGED <<workdir, file, exists, alone, calm>>

\* The process is killed; the file keeps what has reached it.
Crash(p) ==
    /\ MayCrash /\ pc[p] # "off"
    /\ Go(p, "off")
    /\ index' = [index EXCEPT ![p] = <<>>]
    /\ \/ file' = file
       \/ pc[p] \in {"registering", "pruning"} /\ file' = [kind |-> "torn", paths |-> <<>>]
    /\ calm' = FALSE
    /\ UNCHANGED <<workdir, exists, alone>>

\* The user deletes a project's workspace.
DeleteWorkspace ==
    \E d \in exists :
      /\ exists' = exists \ {d}
      /\ UNCHANGED <<pc, workdir, index, file, alone, calm>>

Step(p) ==
    \/ LoadInfo(p) \/ Truncate(p) \/ Write(p) \/ EnsureWorkspace(p)
    \/ Prune(p) \/ Exit(p) \/ Crash(p)

Next == DeleteWorkspace \/ \E p \in Procs : Step(p)

Spec == Init /\ [][Next]_vars

-----------------------------------------------------------------------------
(* Properties.                                                              *)

TypeOK ==
    /\ pc \in [Procs -> {"off", "register", "registering", "registered",
                         "idle", "prune", "pruning"}]
    /\ workdir \in [Procs -> Dirs]
    /\ index \in [Procs -> Seq(Dirs)]
    /\ file \in File
    /\ exists \subseteq Dirs
    /\ alone \in [Procs -> BOOLEAN]
    /\ calm \in BOOLEAN

\* No directory is ever listed twice, whichever processes save over each other.
NoDuplicates ==
    /\ IsInjective(file.paths)
    /\ \A p \in Procs : IsInjective(index[p])

\* Damage heals: whatever earlier processes left behind, one that has had
\* the machine to itself since it started is in a file that parses, until
\* its workspace is deleted.
HealedByOneRun ==
    \A p \in Procs :
      alone[p] /\ pc[p] \in {"registered", "idle"} /\ Running = {p} =>
        /\ file.kind = "whole"
        /\ file.paths = index[p]
        /\ workdir[p] \in exists => Contains(file.paths, workdir[p])

Saving == {p \in Procs : pc[p] \in {"registering", "pruning"}}

\* What the next reader will see, with a save under way counted as done.
Listed ==
    IF Saving = {} THEN ToSet(file.paths)
    ELSE ToSet(index[CHOOSE p \in Saving : TRUE])

Registry == INSTANCE DirectoryRegistry WITH registered <- Listed

\* As long as processes run one after the other and come to their end every
\* step is one of a registry: nothing is lost that has a workspace.
ImplementsRegistry ==
    /\ Registry!Init
    /\ [][calm' => Registry!Next \/ UNCHANGED Registry!vars]_vars
===============================================================================
