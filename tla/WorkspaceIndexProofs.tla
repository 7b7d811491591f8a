-------------------------- MODULE WorkspaceIndexProofs --------------------------
(***************************************************************************)
(* What holds of the index of workspaces for any number of processes and    *)
(* directories, and what it keeps of a registry.                            *)
(***************************************************************************)
EXTENDS WorkspaceIndex, RecursionTheorems

-----------------------------------------------------------------------------
(* The inductive invariant.                                                 *)

\* Only a file that parses has entries.
NothingElseListed == file.kind # "whole" => file.paths = <<>>

\* One that has had the machine to itself knows that its directory is in what
\* it has read or written, and that its file has nothing else in it.
AloneInOrder ==
    \A p \in Procs :
      alone[p] /\ p \in Running =>
        /\ Running = {p}
        /\ pc[p] \in {"register", "registering", "registered"} => workdir[p] \in ToSet(index[p])
        /\ pc[p] \in {"idle", "prune", "pruning"} /\ workdir[p] \in exists =>
             workdir[p] \in ToSet(index[p])
        /\ pc[p] \in {"registering", "pruning"} => file.kind = "empty"
        /\ pc[p] \in {"registered", "idle"} => file.kind = "whole" /\ file.paths = index[p]

\* In calm times one process runs at most, and it knows what is in the file.
CalmInOrder ==
    calm =>
      /\ \A p, q \in Running : p = q
      /\ \A p \in Procs :
           /\ pc[p] = "register" =>
                ToSet(index[p]) = ToSet(file.paths) \cup {workdir[p]}
           /\ pc[p] \in {"registering", "pruning"} => file.kind = "empty"
           /\ pc[p] \in {"registered", "idle"} => file.paths = index[p]
           /\ pc[p] = "prune" =>
                /\ ToSet(index[p]) \subseteq ToSet(file.paths)
                /\ (ToSet(file.paths) \ ToSet(index[p])) \cap exists = {}

Inv ==
    /\ TypeOK
    /\ NoDuplicates
    /\ NothingElseListed
    /\ AloneInOrder
    /\ CalmInOrder

-----------------------------------------------------------------------------
(* Lists of directories and the sets of what is in them.                    *)

\* Contains looks at every place.
LEMMA ContainsIsIn ==
    ASSUME NEW s, NEW d
    PROVE  Contains(s, d) <=> \E i \in 1..Len(s) : s[i] = d
  BY DEF Contains

\* A list in terms of its places.
LEMMA ListProperties ==
    ASSUME NEW s \in Seq(Dirs)
    PROVE  /\ ToSet(s) \subseteq Dirs
           /\ \A d : Contains(s, d) <=> d \in ToSet(s)
           /\ \A d : d \in ToSet(s) <=> \E i \in 1..Len(s) : s[i] = d
           /\ IsInjective(s) <=> OnceEach(s)
<1>1. DOMAIN s = 1..Len(s) /\ \A i \in 1..Len(s) : s[i] \in Dirs
  BY LenProperties, ElementOfSeq
<1> QED
  BY <1>1, ContainsIsIn DEF ToSet, IsInjective, OnceEach

LEMMA EmptyList ==
    /\ <<>> \in Seq(Dirs)
    /\ ToSet(<<>>) = {}
    /\ IsInjective(<<>>)
<1>1. <<>> \in Seq(Dirs) /\ Len(<<>>) = 0
  BY EmptySeq
<1>2. \A d : d \notin ToSet(<<>>)
  <2>1. \A d : d \in ToSet(<<>>) <=> \E i \in 1..Len(<<>>) : <<>>[i] = d
    BY <1>1, ListProperties, Zenon
  <2> QED BY <2>1, <1>1
<1>3. OnceEach(<<>>)
  BY <1>1 DEF OnceEach
<1> QED
  BY <1>1, <1>2, <1>3, ListProperties

LEMMA FileType ==
    ASSUME NEW kind \in {"empty", "torn", "whole"}, NEW s \in Seq(Dirs)
    PROVE  [kind |-> kind, paths |-> s] \in File
  BY DEF File

\* Adding a directory that is not there adds it to the set, and nothing twice.
LEMMA Added ==
    ASSUME NEW s \in Seq(Dirs), NEW d \in Dirs
    PROVE  /\ Append(s, d) \in Seq(Dirs)
           /\ ToSet(Append(s, d)) = ToSet(s) \cup {d}
           /\ IsInjective(s) /\ d \notin ToSet(s) => IsInjective(Append(s, d))
<1> DEFINE t == Append(s, d)
           L == Len(s)
<1>1. /\ t \in Seq(Dirs) /\ L \in Nat /\ Len(t) = L + 1
      /\ \A i \in 1..L : t[i] = s[i]
      /\ t[L + 1] = d
  BY AppendProperties, LenProperties
<1>2. \A e : e \in ToSet(t) <=> \E i \in 1..L + 1 : t[i] = e
  BY <1>1, ListProperties
<1>3. \A e : e \in ToSet(s) <=> \E i \in 1..L : s[i] = e
  BY ListProperties
<1> HIDE DEF t, L
<1>4. ToSet(t) = ToSet(s) \cup {d}
  <2>1. ASSUME NEW e \in ToSet(t) PROVE e \in ToSet(s) \cup {d}
    BY <2>1, <1>1, <1>2, <1>3
  <2>2. ASSUME NEW e \in ToSet(s) PROVE e \in ToSet(t)
    BY <2>2, <1>1, <1>2, <1>3
  <2>3. d \in ToSet(t)
    BY <1>1, <1>2
  <2> QED BY <2>1, <2>2, <2>3
<1>5. ASSUME IsInjective(s), d \notin ToSet(s) PROVE IsInjective(t)
  <2>1. \A i, j \in 1..L : s[i] = s[j] => i = j
    BY <1>5, ListProperties DEF OnceEach, L
  <2>2. \A i \in 1..L : s[i] # d
    BY <1>5, <1>3
  <2>3. ASSUME NEW i \in 1..L + 1, NEW j \in 1..L + 1, t[i] = t[j] PROVE i = j
    BY <2>1, <2>2, <2>3, <1>1
  <2> QED BY <2>3, <1>1, ListProperties DEF OnceEach
<1> QED
  BY <1>1, <1>4, <1>5 DEF t

\* Prune keeps the directories that are in the set, in a list.
LEMMA Selected ==
    ASSUME NEW s \in Seq(Dirs), NEW S
    PROVE  /\ Within(s, S) \in Seq(Dirs)
           /\ ToSet(Within(s, S)) = ToSet(s) \cap S
           /\ IsInjective(s) => IsInjective(Within(s, S))
<1> DEFINE t == Within(s, S)
<1>1. /\ t \in Seq(Dirs)
      /\ \A i \in 1..Len(t) : t[i] \in S /\ \E j \in 1..Len(s) : t[i] = s[j]
  BY WithinIsPart
<1>2. \A j \in 1..Len(s) : s[j] \in S => \E i \in 1..Len(t) : t[i] = s[j]
  BY WithinIsAll
<1>3. OnceEach(s) => OnceEach(t)
  BY WithinOnceEach
<1> HIDE DEF t
<1>4. \A d : d \in ToSet(s) <=> \E i \in 1..Len(s) : s[i] = d
  BY ListProperties
<1>5. \A d : d \in ToSet(t) <=> \E i \in 1..Len(t) : t[i] = d
  BY <1>1, ListProperties
<1>6. ToSet(t) = ToSet(s) \cap S
  <2>1. ASSUME NEW d \in ToSet(t) PROVE d \in ToSet(s) /\ d \in S
    BY <1>1, <1>4, <1>5
  <2>2. ASSUME NEW d \in ToSet(s), d \in S PROVE d \in ToSet(t)
    BY <1>2, <1>4, <1>5, <2>2
  <2> QED BY <2>1, <2>2
<1>7. IsInjective(s) => IsInjective(t)
  BY <1>1, <1>3, ListProperties
<1> QED
  BY <1>1, <1>6, <1>7 DEF t

\* What a starting process remembers: what it has read and its own directory.
LEMMA RegisteredProperties ==
    ASSUME TypeOK, NEW p \in Procs
    PROVE  /\ Registered(p) \in Seq(Dirs)
           /\ ToSet(Registered(p)) = ToSet(Loaded(p)) \cup {workdir[p]}
           /\ NoDuplicates => IsInjective(Registered(p))
<1>1. Loaded(p) \in Seq(Dirs) /\ workdir[p] \in Dirs
  BY EmptyList DEF TypeOK, File, Loaded
<1>2. NoDuplicates => IsInjective(Loaded(p))
  BY EmptyList DEF NoDuplicates, Loaded
<1>3. Contains(Loaded(p), workdir[p]) <=> workdir[p] \in ToSet(Loaded(p))
  BY <1>1, ListProperties
<1>4. CASE workdir[p] \in ToSet(Loaded(p))
  BY <1>1, <1>2, <1>3, <1>4 DEF Registered
<1>5. CASE workdir[p] \notin ToSet(Loaded(p))
  <2>1. Registered(p) = Append(Loaded(p), workdir[p])
    BY <1>3, <1>5 DEF Registered
  <2> QED BY <2>1, <1>1, <1>2, <1>5, Added
<1> QED
  BY <1>4, <1>5

-----------------------------------------------------------------------------
(* The invariant is kept.                                                   *)

States == {"off", "register", "registering", "registered", "idle", "prune", "pruning"}

LEMMA InitInv == Init => Inv
<1> SUFFICES ASSUME Init PROVE Inv
  OBVIOUS
<1>1. TypeOK
  BY EmptyList DEF Init, TypeOK, File
<1>2. NoDuplicates
  BY EmptyList DEF Init, NoDuplicates
<1>3. Running = {}
  BY DEF Init, Running
<1>4. NothingElseListed
  BY DEF Init, NothingElseListed
<1>5. AloneInOrder
  BY <1>3 DEF AloneInOrder
<1>6. CalmInOrder
  BY <1>3 DEF Init, CalmInOrder
<1> QED
  BY <1>1, <1>2, <1>4, <1>5, <1>6 DEF Inv

\* In a step of a process that is running nobody else is alone, and in calm
\* times nobody else is running.
LEMMA NobodyElse ==
    ASSUME Inv, NEW p \in Procs, pc[p] # "off"
    PROVE  /\ p \in Running
           /\ \A q \in Procs : alone[q] /\ pc[q] # "off" => q = p
           /\ calm => \A q \in Procs : pc[q] # "off" => q = p
  BY DEF Inv, AloneInOrder, CalmInOrder, Running

LEMMA LoadInfoInv ==
    ASSUME Inv, NEW p \in Procs, LoadInfo(p)
    PROVE  Inv'
<1> DEFINE r == Registered(p)
<1>1. /\ r \in Seq(Dirs)
      /\ ToSet(r) = ToSet(Loaded(p)) \cup {workdir[p]}
      /\ IsInjective(r)
  BY RegisteredProperties DEF Inv
<1>2. /\ pc[p] = "off" /\ pc' = [pc EXCEPT ![p] = "register"]
      /\ index' = [index EXCEPT ![p] = r]
      /\ alone' = [q \in Procs |-> IF q = p THEN Running = {} ELSE FALSE]
      /\ calm' = (calm /\ Running = {})
      /\ workdir' = workdir /\ file' = file /\ exists' = exists
  BY DEF LoadInfo, Go
<1> HIDE DEF r
<1>3. TypeOK'
  <2>1. pc' \in [Procs -> States] /\ index' \in [Procs -> Seq(Dirs)]
    BY <1>1, <1>2 DEF Inv, TypeOK, States
  <2>2. alone' \in [Procs -> BOOLEAN] /\ calm' \in BOOLEAN
    BY <1>2 DEF Inv, TypeOK
  <2>3. workdir' \in [Procs -> Dirs] /\ file' \in File /\ exists' \subseteq Dirs
    BY <1>2 DEF Inv, TypeOK
  <2> QED BY <2>1, <2>2, <2>3 DEF TypeOK, States, File
<1>4. NoDuplicates'
  BY <1>1, <1>2 DEF Inv, TypeOK, NoDuplicates
<1>5. NothingElseListed'
  BY <1>2 DEF Inv, NothingElseListed
<1>6. Running = {} => Running' = {p}
  BY <1>2 DEF Running, Inv, TypeOK
<1>7. pc'[p] = "register" /\ index'[p] = r /\ alone'[p] = (Running = {})
  BY <1>2 DEF Inv, TypeOK
<1>8. AloneInOrder'
  <2> SUFFICES ASSUME NEW q \in Procs, alone'[q]
               PROVE  /\ Running' = {q}
                      /\ pc'[q] = "register"
                      /\ workdir'[q] \in ToSet(index'[q])
    BY DEF AloneInOrder
  <2>1. q = p /\ Running = {}
    BY <1>2
  <2> QED BY <2>1, <1>1, <1>2, <1>6, <1>7
<1>9. CalmInOrder'
  <2> SUFFICES ASSUME calm'
               PROVE  /\ Running' = {p}
                      /\ pc'[p] = "register"
                      /\ ToSet(index'[p]) = ToSet(file'.paths) \cup {workdir'[p]}
    BY DEF CalmInOrder, Running
  <2>1. Running = {}
    BY <1>2
  <2>2. ToSet(Loaded(p)) = ToSet(file.paths)
    BY DEF Inv, NothingElseListed, Loaded
  <2> QED BY <2>1, <2>2, <1>1, <1>2, <1>6, <1>7
<1> QED
  BY <1>3, <1>4, <1>5, <1>8, <1>9 DEF Inv

LEMMA TruncateInv ==
    ASSUME Inv, NEW p \in Procs, Truncate(p)
    PROVE  Inv'
<1> DEFINE to == IF pc[p] = "register" THEN "registering" ELSE "pruning"
<1>1. /\ pc[p] \in {"register", "prune"} /\ pc' = [pc EXCEPT ![p] = to]
      /\ file' = [kind |-> "empty", paths |-> <<>>]
      /\ workdir' = workdir /\ index' = index /\ exists' = exists
      /\ alone' = alone /\ calm' = calm
  BY DEF Truncate, Go
<1>2. /\ p \in Running
      /\ \A q \in Procs : alone[q] /\ pc[q] # "off" => q = p
      /\ calm => \A q \in Procs : pc[q] # "off" => q = p
  BY <1>1, NobodyElse
<1>3. to \in {"registering", "pruning"} /\ (to = "registering" <=> pc[p] = "register")
  BY <1>1
<1> HIDE DEF to
<1>4. TypeOK'
  BY <1>1, <1>3, EmptyList DEF Inv, TypeOK, File
<1>5. NoDuplicates'
  BY <1>1, EmptyList DEF Inv, NoDuplicates
<1>6. NothingElseListed'
  BY <1>1 DEF NothingElseListed
<1>7. /\ pc'[p] = to
      /\ \A q \in Procs : pc'[q] # "off" <=> pc[q] # "off"
      /\ Running' = Running
  BY <1>1, <1>3 DEF Running, Inv, TypeOK
<1>8. AloneInOrder'
  <2> SUFFICES ASSUME NEW q \in Procs, alone'[q], q \in Running'
               PROVE  /\ Running' = {q}
                      /\ pc'[q] = to
                      /\ to = "registering" => workdir'[q] \in ToSet(index'[q])
                      /\ workdir'[q] \in exists' => workdir'[q] \in ToSet(index'[q])
                      /\ file'.kind = "empty"
    BY <1>3 DEF AloneInOrder
  <2>1. q = p /\ alone[p]
    BY <1>1, <1>2, <1>7 DEF Running
  <2> QED BY <2>1, <1>1, <1>2, <1>3, <1>7 DEF Inv, AloneInOrder
<1>9. CalmInOrder'
  <2> SUFFICES ASSUME calm'
               PROVE  (\A q \in Procs : pc'[q] # "off" => q = p) /\ file'.kind = "empty"
    BY <1>3, <1>7 DEF CalmInOrder, Running
  <2> QED BY <1>1, <1>2, <1>7
<1> QED
  BY <1>4, <1>5, <1>6, <1>8, <1>9 DEF Inv

LEMMA WriteInv ==
    ASSUME Inv, NEW p \in Procs, Write(p)
    PROVE  Inv'
<1> DEFINE to == IF pc[p] = "registering" THEN "registered" ELSE "idle"
<1>1. /\ pc[p] \in {"registering", "pruning"} /\ pc' = [pc EXCEPT ![p] = to]
      /\ workdir' = workdir /\ index' = index /\ exists' = exists
      /\ alone' = alone /\ calm' = calm
  BY DEF Write, Go
<1>2. /\ p \in Running
      /\ \A q \in Procs : alone[q] /\ pc[q] # "off" => q = p
      /\ calm => \A q \in Procs : pc[q] # "off" => q = p
  BY <1>1, NobodyElse
<1>3. to \in {"registered", "idle"} /\ (to = "registered" <=> pc[p] = "registering")
  BY <1>1
<1> HIDE DEF to
<1>4. \/ file' = [kind |-> "whole", paths |-> index[p]]
      \/ file.kind # "empty" /\ file' = [kind |-> "torn", paths |-> <<>>]
  BY DEF Write
<1>5. index[p] \in Seq(Dirs) /\ IsInjective(index[p])
  BY DEF Inv, TypeOK, NoDuplicates
<1>6. TypeOK'
  <2>1. file' \in File
    BY <1>4, <1>5, EmptyList, FileType
  <2> QED BY <2>1, <1>1, <1>3 DEF Inv, TypeOK, File
<1>7. NoDuplicates'
  BY <1>1, <1>4, <1>5, EmptyList DEF Inv, NoDuplicates
<1>8. NothingElseListed'
  BY <1>4 DEF NothingElseListed
<1>9. /\ pc'[p] = to
      /\ \A q \in Procs : pc'[q] # "off" <=> pc[q] # "off"
      /\ Running' = Running
  BY <1>1, <1>3 DEF Running, Inv, TypeOK
<1>10. file.kind = "empty" => file'.kind = "whole" /\ file'.paths = index[p]
  BY <1>4
<1>11. AloneInOrder'
  <2> SUFFICES ASSUME NEW q \in Procs, alone'[q], q \in Running'
               PROVE  /\ Running' = {q}
                      /\ pc'[q] = to
                      /\ to = "registered" => workdir'[q] \in ToSet(index'[q])
                      /\ workdir'[q] \in exists' => workdir'[q] \in ToSet(index'[q])
                      /\ file'.kind = "whole" /\ file'.paths = index'[q]
    BY <1>3 DEF AloneInOrder
  <2>1. q = p /\ alone[p]
    BY <1>1, <1>2, <1>9 DEF Running
  <2> QED BY <2>1, <1>1, <1>2, <1>3, <1>9, <1>10 DEF Inv, AloneInOrder
<1>12. CalmInOrder'
  <2> SUFFICES ASSUME calm'
               PROVE  (\A q \in Procs : pc'[q] # "off" => q = p) /\ file'.paths = index'[p]
    BY <1>3, <1>9 DEF CalmInOrder, Running
  <2>1. file.kind = "empty"
    BY <1>1 DEF Inv, CalmInOrder
  <2> QED BY <2>1, <1>1, <1>2, <1>9, <1>10
<1> QED
  BY <1>6, <1>7, <1>8, <1>11, <1>12 DEF Inv

LEMMA EnsureWorkspaceInv ==
    ASSUME Inv, NEW p \in Procs, EnsureWorkspace(p)
    PROVE  Inv'
<1>1. /\ pc[p] = "registered" /\ pc' = [pc EXCEPT ![p] = "idle"]
      /\ exists' = exists \cup {workdir[p]}
      /\ workdir' = workdir /\ index' = index /\ file' = file
      /\ alone' = alone /\ calm' = calm
  BY DEF EnsureWorkspace, Go
<1>2. /\ p \in Running
      /\ \A q \in Procs : alone[q] /\ pc[q] # "off" => q = p
      /\ calm => \A q \in Procs : pc[q] # "off" => q = p
  BY <1>1, NobodyElse
<1>3. TypeOK'
  BY <1>1 DEF Inv, TypeOK, File
<1>4. NoDuplicates' /\ NothingElseListed'
  BY <1>1 DEF Inv, NoDuplicates, NothingElseListed
<1>5. /\ pc'[p] = "idle"
      /\ \A q \in Procs : pc'[q] # "off" <=> pc[q] # "off"
      /\ Running' = Running
  BY <1>1 DEF Running, Inv, TypeOK
<1>6. AloneInOrder'
  <2> SUFFICES ASSUME NEW q \in Procs, alone'[q], q \in Running'
               PROVE  /\ Running' = {q}
                      /\ pc'[q] = "idle"
                      /\ workdir'[q] \in ToSet(index'[q])
                      /\ file'.kind = "whole" /\ file'.paths = index'[q]
    BY DEF AloneInOrder
  <2>1. q = p /\ alone[p]
    BY <1>1, <1>2, <1>5 DEF Running
  <2> QED BY <2>1, <1>1, <1>2, <1>5 DEF Inv, AloneInOrder
<1>7. CalmInOrder'
  <2> SUFFICES ASSUME calm'
               PROVE  (\A q \in Procs : pc'[q] # "off" => q = p) /\ file'.paths = index'[p]
    BY <1>5 DEF CalmInOrder, Running
  <2> QED BY <1>1, <1>2, <1>5 DEF Inv, CalmInOrder
<1> QED
  BY <1>3, <1>4, <1>6, <1>7 DEF Inv

LEMMA PruneInv ==
    ASSUME Inv, NEW p \in Procs, Prune(p)
    PROVE  Inv'
<1> DEFINE kept == Kept(p)
<1>1. /\ pc[p] = "idle" /\ pc' = [pc EXCEPT ![p] = "prune"]
      /\ index' = [index EXCEPT ![p] = kept]
      /\ exists' = exists
      /\ workdir' = workdir /\ file' = file
      /\ alone' = alone /\ calm' = calm
  BY DEF Prune, Go
<1>2. /\ kept \in Seq(Dirs)
      /\ ToSet(kept) = ToSet(index[p]) \cap exists
      /\ IsInjective(kept)
  <2>1. index[p] \in Seq(Dirs) /\ IsInjective(index[p])
    BY DEF Inv, TypeOK, NoDuplicates
  <2> QED BY <2>1, Selected DEF Kept
<1> HIDE DEF kept
<1>3. /\ p \in Running
      /\ \A q \in Procs : alone[q] /\ pc[q] # "off" => q = p
      /\ calm => \A q \in Procs : pc[q] # "off" => q = p
  BY <1>1, NobodyElse
<1>4. TypeOK'
  BY <1>1, <1>2 DEF Inv, TypeOK, File
<1>5. NoDuplicates' /\ NothingElseListed'
  BY <1>1, <1>2 DEF Inv, TypeOK, NoDuplicates, NothingElseListed
<1>6. /\ pc'[p] = "prune" /\ index'[p] = kept
      /\ \A q \in Procs : pc'[q] # "off" <=> pc[q] # "off"
      /\ Running' = Running
  BY <1>1 DEF Running, Inv, TypeOK
<1>7. AloneInOrder'
  <2> SUFFICES ASSUME NEW q \in Procs, alone'[q], q \in Running'
               PROVE  /\ Running' = {q}
                      /\ pc'[q] = "prune"
                      /\ workdir'[q] \in exists' => workdir'[q] \in ToSet(index'[q])
    BY DEF AloneInOrder
  <2>1. q = p /\ alone[p]
    BY <1>1, <1>3, <1>6 DEF Running
  <2> QED BY <2>1, <1>1, <1>2, <1>3, <1>6 DEF Inv, AloneInOrder
<1>8. CalmInOrder'
  <2> SUFFICES ASSUME calm'
               PROVE  /\ \A q \in Procs : pc'[q] # "off" => q = p
                      /\ ToSet(index'[p]) \subseteq ToSet(file'.paths)
                      /\ (ToSet(file'.paths) \ ToSet(index'[p])) \cap exists' = {}
    BY <1>6 DEF CalmInOrder, Running
  <2>1. file.paths = index[p]
    BY <1>1 DEF Inv, CalmInOrder
  <2> QED BY <2>1, <1>1, <1>2, <1>3, <1>6
<1> QED
  BY <1>4, <1>5, <1>7, <1>8 DEF Inv

\* Exit and Crash: a process that has ended remembers nothing.
LEMMA EndInv ==
    ASSUME Inv, NEW p \in Procs, Exit(p) \/ Crash(p)
    PROVE  Inv'
<1>1. /\ pc[p] # "off" /\ pc' = [pc EXCEPT ![p] = "off"]
      /\ index' = [index EXCEPT ![p] = <<>>]
      /\ exists' = exists /\ workdir' = workdir /\ alone' = alone
      /\ \/ calm' = calm /\ file' = file
         \/ calm' = FALSE /\ file' \in {file, [kind |-> "torn", paths |-> <<>>]}
  BY DEF Exit, Crash, Go
<1>2. /\ p \in Running
      /\ \A q \in Procs : alone[q] /\ pc[q] # "off" => q = p
      /\ calm => \A q \in Procs : pc[q] # "off" => q = p
  BY <1>1, NobodyElse
<1>3. TypeOK'
  <2>1. file' \in File /\ calm' \in BOOLEAN
    <3>1. file \in File /\ calm \in BOOLEAN
      BY DEF Inv, TypeOK
    <3>2. [kind |-> "torn", paths |-> <<>>] \in File
      BY EmptyList, FileType
    <3> QED BY <3>1, <3>2, <1>1
  <2> QED BY <2>1, <1>1, EmptyList DEF Inv, TypeOK, File
<1>4. NoDuplicates' /\ NothingElseListed'
  BY <1>1, EmptyList DEF Inv, TypeOK, NoDuplicates, NothingElseListed
<1>5. \A q \in Procs : pc'[q] # "off" => pc[q] # "off" /\ q # p
  BY <1>1 DEF Inv, TypeOK
<1>6. AloneInOrder'
  BY <1>1, <1>2, <1>5 DEF AloneInOrder, Running
<1>7. CalmInOrder'
  <2> SUFFICES ASSUME calm' PROVE \A q \in Procs : pc'[q] = "off"
    BY DEF CalmInOrder, Running
  <2> QED BY <1>1, <1>2, <1>5
<1> QED
  BY <1>3, <1>4, <1>6, <1>7 DEF Inv

LEMMA DeleteWorkspaceInv ==
    ASSUME Inv, DeleteWorkspace
    PROVE  Inv'
<1>1. /\ exists' \subseteq exists
      /\ pc' = pc /\ workdir' = workdir /\ index' = index /\ file' = file
      /\ alone' = alone /\ calm' = calm
  BY DEF DeleteWorkspace
<1>2. TypeOK'
  BY <1>1 DEF Inv, TypeOK, File
<1>3. NoDuplicates' /\ NothingElseListed'
  BY <1>1 DEF Inv, NoDuplicates, NothingElseListed
<1>4. Running' = Running
  BY <1>1 DEF Running
<1>5. AloneInOrder'
  BY <1>1, <1>4 DEF Inv, AloneInOrder
<1>6. CalmInOrder'
  BY <1>1, <1>4 DEF Inv, CalmInOrder
<1> QED
  BY <1>2, <1>3, <1>5, <1>6 DEF Inv

LEMMA NextInv == Inv /\ [Next]_vars => Inv'
<1> SUFFICES ASSUME Inv, [Next]_vars PROVE Inv'
  OBVIOUS
<1>1. CASE DeleteWorkspace
  BY <1>1, DeleteWorkspaceInv
<1>2. ASSUME NEW p \in Procs, Step(p) PROVE Inv'
  BY <1>2, LoadInfoInv, TruncateInv, WriteInv, EnsureWorkspaceInv, PruneInv, EndInv DEF Step
<1>3. CASE UNCHANGED vars
  <2>1. UNCHANGED <<pc, workdir, index, file, exists, alone, calm>>
    BY <1>3 DEF vars
  <2> QED BY <2>1 DEF Inv, TypeOK, NoDuplicates, NothingElseListed, AloneInOrder, CalmInOrder, Running
<1> QED
  BY <1>1, <1>2, <1>3 DEF Next

-----------------------------------------------------------------------------
(* Theorems.                                                                *)

\* The inductive invariant: types, no duplicates, nothing listed that was not
\* registered, and what one process alone, or all one by one, can rely on.
THEOREM InvHolds == Spec => []Inv
  BY InitInv, NextInv, PTL DEF Spec

\* workspace.go: the types of the index, of the file and of the processes.
THEOREM IndexTyped == Spec => []TypeOK
<1>1. Inv => TypeOK
  BY DEF Inv
<1> QED
  BY <1>1, InvHolds, PTL

\* workspace.go, register and saveIndex: no directory is listed twice, for any
\* number of processes, wherever they are interrupted.
THEOREM NeverListedTwice == Spec => []NoDuplicates
<1>1. Inv => NoDuplicates
  BY DEF Inv
<1> QED
  BY <1>1, InvHolds, PTL

\* workspace.go, LoadInfo: one undisturbed run of a process heals the file,
\* whatever the processes before it have left.
THEOREM OneRunHeals == Spec => []HealedByOneRun
<1>1. Inv => HealedByOneRun
  <2> SUFFICES ASSUME Inv, NEW p \in Procs, alone[p], pc[p] \in {"registered", "idle"}
               PROVE  /\ file.kind = "whole"
                      /\ file.paths = index[p]
                      /\ workdir[p] \in exists => Contains(file.paths, workdir[p])
    BY DEF HealedByOneRun
  <2>1. p \in Running /\ index[p] \in Seq(Dirs)
    BY DEF Running, Inv, TypeOK
  <2>2. /\ file.kind = "whole" /\ file.paths = index[p]
        /\ workdir[p] \in exists => workdir[p] \in ToSet(index[p])
    BY <2>1 DEF Inv, AloneInOrder
  <2> QED BY <2>1, <2>2, ListProperties
<1> QED
  BY <1>1, InvHolds, PTL

-----------------------------------------------------------------------------
(* The registry.                                                            *)

\* What the next reader will see, before a step and after it.
LEMMA ListedIs ==
    /\ Saving = {} => Listed = ToSet(file.paths)
    /\ \A p : Saving = {p} => Listed = ToSet(index[p])
    /\ Saving' = {} => Listed' = ToSet(file'.paths)
    /\ \A p : Saving' = {p} => Listed' = ToSet(index'[p])
  BY DEF Listed

\* Who is saving when one process runs and nobody else.
LEMMA SavingIs ==
    ASSUME NEW p \in Procs
    PROVE  /\ (\A q \in Procs : pc[q] # "off" => q = p) =>
                Saving = IF pc[p] \in {"registering", "pruning"} THEN {p} ELSE {}
           /\ (\A q \in Procs : pc'[q] # "off" => q = p) =>
                Saving' = IF pc'[p] \in {"registering", "pruning"} THEN {p} ELSE {}
  BY DEF Saving

\* The steps of the registry, in terms of the index.
LEMMA RegistrySteps ==
    /\ (\E d \in Dirs : Listed' = Listed \cup {d}) /\ exists' = exists => Registry!Next
    /\ /\ Listed' \subseteq Listed
       /\ (Listed \ Listed') \cap exists = {}
       /\ exists' = exists
       => Registry!Next
    /\ exists' \subseteq Dirs /\ Listed' = Listed => Registry!Next
    /\ Listed' = Listed /\ exists' = exists => UNCHANGED Registry!vars
  BY DEF Registry!Next, Registry!Register, Registry!Prune, Registry!Change, Registry!vars

LEMMA InitRegistry == Init => Registry!Init
<1> SUFFICES ASSUME Init PROVE Registry!Init
  OBVIOUS
<1>1. Saving = {} /\ file.paths = <<>> /\ exists = {}
  BY DEF Init, Saving
<1>2. Listed = {}
  BY <1>1, ListedIs, EmptyList
<1> QED
  BY <1>1, <1>2 DEF Registry!Init

\* A step of a process in calm times.
LEMMA StepRegistry ==
    ASSUME Inv, NEW p \in Procs, Step(p), calm'
    PROVE  Registry!Next \/ UNCHANGED Registry!vars
<1> USE DEF Go
<1>1. pc \in [Procs -> States] /\ index \in [Procs -> Seq(Dirs)] /\ exists \subseteq Dirs
      /\ workdir[p] \in Dirs
  BY DEF Inv, TypeOK, States
<1>2. ~Crash(p)
  BY DEF Crash
<1>3. CASE LoadInfo(p)
  <2>1. Running = {} /\ pc' = [pc EXCEPT ![p] = "register"] /\ file' = file /\ exists' = exists
    BY <1>3 DEF LoadInfo
  <2>2. Saving = {} /\ Saving' = {}
    BY <2>1, <1>1 DEF Saving, Running
  <2> QED BY <2>1, <2>2, ListedIs, RegistrySteps
<1>4. CASE pc[p] # "off"
  <2>1. \A q \in Procs : pc[q] # "off" => q = p
    BY <1>4, NobodyElse DEF Step, LoadInfo, Truncate, Write, EnsureWorkspace, Prune, Exit, Crash
  <2>2. Saving = IF pc[p] \in {"registering", "pruning"} THEN {p} ELSE {}
    BY <2>1, SavingIs
  <2>3. ASSUME NEW to \in States, pc' = [pc EXCEPT ![p] = to]
        PROVE  Saving' = IF to \in {"registering", "pruning"} THEN {p} ELSE {}
    <3>1. pc'[p] = to /\ \A q \in Procs : pc'[q] # "off" => q = p
      BY <2>1, <2>3, <1>1 DEF States
    <3> QED BY <3>1, SavingIs
  <2>4. calm
    BY <1>2, <1>4 DEF Step, LoadInfo, Truncate, Write, EnsureWorkspace, Prune, Exit
  <2>5. CASE Truncate(p)
    <3>1. /\ pc[p] \in {"register", "prune"} /\ index' = index /\ exists' = exists
          /\ pc' = [pc EXCEPT ![p] = IF pc[p] = "register" THEN "registering" ELSE "pruning"]
      BY <2>5 DEF Truncate
    <3>2. Saving = {} /\ Saving' = {p}
      BY <3>1, <2>2, <2>3 DEF States
    <3>3. Listed = ToSet(file.paths) /\ Listed' = ToSet(index[p])
      BY <3>1, <3>2, ListedIs
    <3>4. CASE pc[p] = "register"
      <4>1. Listed' = Listed \cup {workdir[p]}
        BY <3>3, <3>4, <2>4 DEF Inv, CalmInOrder
      <4> QED BY <4>1, <3>1, <1>1, RegistrySteps
    <3>5. CASE pc[p] = "prune"
      <4>1. Listed' \subseteq Listed /\ (Listed \ Listed') \cap exists = {}
        BY <3>3, <3>5, <2>4 DEF Inv, CalmInOrder
      <4> QED BY <4>1, <3>1, RegistrySteps
    <3> QED BY <3>1, <3>4, <3>5
  <2>6. CASE Write(p)
    <3>1. /\ pc[p] \in {"registering", "pruning"} /\ index' = index /\ exists' = exists
          /\ pc' = [pc EXCEPT ![p] = IF pc[p] = "registering" THEN "registered" ELSE "idle"]
      BY <2>6 DEF Write
    <3>2. Saving = {p} /\ Saving' = {}
      BY <3>1, <2>2, <2>3 DEF States
    <3>3. file.kind = "empty"
      BY <3>1, <2>4 DEF Inv, CalmInOrder
    <3>4. file'.paths = index[p]
      BY <2>6, <3>3 DEF Write
    <3>5. Listed = ToSet(index[p]) /\ Listed' = ToSet(index[p])
      BY <3>2, <3>4, ListedIs
    <3> QED BY <3>1, <3>5, RegistrySteps
  <2>7. CASE EnsureWorkspace(p)
    <3>1. /\ pc[p] = "registered" /\ pc' = [pc EXCEPT ![p] = "idle"]
          /\ file' = file /\ exists' = exists \cup {workdir[p]}
      BY <2>7 DEF EnsureWorkspace
    <3>2. Saving = {} /\ Saving' = {}
      BY <3>1, <2>2, <2>3 DEF States
    <3>3. Listed' = Listed
      BY <3>1, <3>2, ListedIs
    <3> QED BY <3>1, <3>3, <1>1, RegistrySteps
  <2>8. CASE Prune(p) \/ Exit(p)
    <3>1. /\ pc[p] = "idle" /\ file' = file /\ exists' = exists
          /\ pc' = [pc EXCEPT ![p] = "prune"] \/ pc' = [pc EXCEPT ![p] = "off"]
      BY <2>8 DEF Prune, Exit
    <3>2. Saving = {} /\ Saving' = {}
      BY <3>1, <2>2, <2>3 DEF States
    <3> QED BY <3>1, <3>2, ListedIs, RegistrySteps
  <2>9. ~LoadInfo(p)
    BY <1>4 DEF LoadInfo
  <2> QED BY <1>2, <2>5, <2>6, <2>7, <2>8, <2>9 DEF Step
<1>5. pc[p] = "off" => LoadInfo(p)
  BY <1>2 DEF Step, Truncate, Write, EnsureWorkspace, Prune, Exit
<1> QED
  BY <1>3, <1>4, <1>5

LEMMA NextRegistry ==
    Inv /\ [Next]_vars => [calm' => Registry!Next \/ UNCHANGED Registry!vars]_vars
<1> SUFFICES ASSUME Inv, Next, calm' PROVE Registry!Next \/ UNCHANGED Registry!vars
  OBVIOUS
<1>1. CASE DeleteWorkspace
  <2>1. /\ exists' \subseteq exists
        /\ pc' = pc /\ index' = index /\ file' = file
    BY <1>1 DEF DeleteWorkspace
  <2>2. exists' \subseteq Dirs
    BY <2>1 DEF Inv, TypeOK
  <2>3. Listed' = Listed
    BY <2>1 DEF Listed, Saving
  <2> QED BY <2>2, <2>3, RegistrySteps
<1>2. ASSUME NEW p \in Procs, Step(p) PROVE Registry!Next \/ UNCHANGED Registry!vars
  BY <1>2, StepRegistry
<1> QED
  BY <1>1, <1>2 DEF Next

\* workspace.go: as long as processes run one after the other and come to their
\* end the index is a registry: registering adds one directory and loses none,
\* pruning takes out only those without a workspace, for any number of
\* processes and directories.
THEOREM IndexImplementsRegistry == Spec => ImplementsRegistry
<1>1. Init => Registry!Init
  BY InitRegistry
<1>2. Inv /\ [Next]_vars => [calm' => Registry!Next \/ UNCHANGED Registry!vars]_vars
  BY NextRegistry
<1> QED
  BY <1>1, <1>2, InvHolds, PTL DEF Spec, ImplementsRegistry
===============================================================================
