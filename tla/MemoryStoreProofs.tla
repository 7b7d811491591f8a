--------------------------- MODULE MemoryStoreProofs ---------------------------
(***************************************************************************)
(* What holds of the memory store for any number of sessions, entries,      *)
(* goroutines and restarts: its files hold entries where they belong, and   *)
(* each of its steps is one of a memory that forgets but never invents.     *)
(***************************************************************************)
EXTENDS MemoryStore, SequenceTheorems, TLAPS

\* What an entry on its way to disk, or there, has to do with the past.
Counted ==
    /\ created <= MaxSessions /\ session <= created /\ added <= MaxEntries
    /\ \A e \in entries \cup told : e.id <= added
    /\ \A e \in told : Durable(e)

\* Goroutines exist in a process with a session only, and one that has opened
\* its file has taken one of the right directory and of no earlier session.
WritersHome ==
    /\ session = 0 => writers = {}
    /\ ~up => writers = {} /\ entries = {}
    /\ \A w \in writers :
         /\ w.entry \in told
         /\ w.entry.born <= session
         /\ w.stage # "started" =>
              /\ w.file[1] = TierOf(w.entry)
              /\ w.file[2] >= w.entry.born
              /\ w.file[2] <= created

\* What is on disk was told, and is where it belongs.
OnDiskTold == \A f \in Files : \A p \in On(f) : p.entry \in told

MemoryInv == TypeOK /\ Counted /\ WritersHome /\ OnDiskTold /\ FiledNotEarlier

-----------------------------------------------------------------------------
(* What is on disk, and what a reader gets of it.                           *)

\* Something appended to a file leaves everything else where it was.
LEMMA OnAfterAppend ==
    ASSUME disk \in [Files -> Seq(Part)], NEW w, w.file \in Files, w.entry \in Entry,
           NEW part \in {"types", "value"}, AppendPart(w, part)
    PROVE  /\ disk' \in [Files -> Seq(Part)]
           /\ \A f \in Files : \A p \in On(f)' :
                p \in On(f) \/ (f = w.file /\ p = [part |-> part, entry |-> w.entry])
<1> DEFINE new == [part |-> part, entry |-> w.entry]
<1>1. new \in Part
  BY DEF Part
<1>2. disk' = [disk EXCEPT ![w.file] = Append(disk[w.file], new)]
  BY DEF AppendPart
<1>3. disk[w.file] \in Seq(Part)
  OBVIOUS
<1> HIDE DEF new
<1>4. Append(disk[w.file], new) \in Seq(Part)
  BY <1>1, <1>3, AppendProperties
<1>5. disk' \in [Files -> Seq(Part)]
  BY <1>2, <1>4
<1>6. ASSUME NEW f \in Files, NEW p \in On(f)'
      PROVE  p \in On(f) \/ (f = w.file /\ p = new)
  <2>1. CASE f # w.file
    <3>1. disk'[f] = disk[f]
      BY <1>2, <2>1
    <3> QED BY <3>1 DEF On
  <2>2. CASE f = w.file
    <3>1. disk'[f] = Append(disk[f], new)
      BY <1>2, <2>2
    <3>2. /\ Len(Append(disk[f], new)) = Len(disk[f]) + 1
          /\ \A i \in 1..Len(disk[f]) : Append(disk[f], new)[i] = disk[f][i]
          /\ Append(disk[f], new)[Len(disk[f]) + 1] = new
      BY <1>1, <1>3, <2>2, AppendProperties
    <3>3. DOMAIN disk[f] = 1..Len(disk[f]) /\ Len(disk[f]) \in Nat
      BY <1>3, <2>2, LenProperties
    <3>4. DOMAIN Append(disk[f], new) = 1..Len(disk[f]) + 1
      BY <1>4, <2>2, <3>2, LenProperties
    <3>5. PICK i \in 1..Len(disk[f]) + 1 : p = Append(disk[f], new)[i]
      BY <3>1, <3>4 DEF On
    <3>6. i = Len(disk[f]) + 1 \/ i \in 1..Len(disk[f])
      BY <3>3
    <3> QED BY <2>2, <3>2, <3>3, <3>5, <3>6 DEF On
  <2> QED BY <2>1, <2>2
<1> QED
  BY <1>5, <1>6 DEF new

\* A reader of a longer file gets what it got before, and at most the value
\* that was appended: descriptors and values behind the second descriptors of
\* a file change nothing.
LEMMA DecodedAppend ==
    ASSUME NEW parts \in Seq(Part), NEW new \in Part
    PROVE  \/ Decoded(Append(parts, new)) = Decoded(parts)
           \/ /\ new.part = "value"
              /\ Decoded(Append(parts, new)) = Decoded(parts) \cup {new.entry}
<1> DEFINE long == Append(parts, new)
           n == Len(parts)
           Read(s, j) == s[j].part = "value" /\ \A k \in 2..j : s[k].part # "types"
<1>1. /\ long \in Seq(Part) /\ Len(long) = n + 1
      /\ \A i \in 1..n : long[i] = parts[i]
      /\ long[n + 1] = new
  BY AppendProperties
<1>2. n \in Nat /\ DOMAIN parts = 1..n
  BY LenProperties
<1>3. DOMAIN long = 1..n + 1
  BY <1>1, LenProperties
<1> HIDE DEF long, n
<1>4. \A j \in 1..n : Read(long, j) <=> Read(parts, j)
  BY <1>1, <1>2
<1>5. Decoded(parts) = {parts[i].entry : i \in {j \in 1..n : Read(parts, j)}}
  BY <1>2 DEF Decoded
<1>6. Decoded(long) = {long[i].entry : i \in {j \in 1..n + 1 : Read(long, j)}}
  BY <1>3 DEF Decoded
<1>7. CASE Read(long, n + 1)
  <2>1. new.part = "value"
    BY <1>1, <1>7
  <2>2. {j \in 1..n + 1 : Read(long, j)} = {j \in 1..n : Read(parts, j)} \cup {n + 1}
    <3> HIDE DEF Read
    <3> QED BY <1>2, <1>4, <1>7
  <2> HIDE DEF Read
  <2>3. Decoded(long) = Decoded(parts) \cup {new.entry}
    BY <1>1, <1>5, <1>6, <2>2
  <2> QED BY <2>1, <2>3 DEF long
<1>8. CASE ~Read(long, n + 1)
  <2>1. {j \in 1..n + 1 : Read(long, j)} = {j \in 1..n : Read(parts, j)}
    <3> HIDE DEF Read
    <3> QED BY <1>2, <1>4, <1>8
  <2> HIDE DEF Read
  <2>2. Decoded(long) = Decoded(parts)
    BY <1>1, <1>5, <1>6, <2>1
  <2> QED BY <2>2 DEF long
<1> QED
  BY <1>7, <1>8

-----------------------------------------------------------------------------
(* Types, and where entries are.                                            *)

\* A reader gets entries, and only such as are on disk.
LEMMA RecoveredOnDisk ==
    ASSUME TypeOK, NEW e \in Recovered
    PROVE  e \in Entry /\ \E f \in Files : \E p \in On(f) : p.entry = e
<1>1. PICK f \in Files : e \in Decoded(disk[f])
  BY DEF Recovered
<1>2. PICK i \in DOMAIN disk[f] : e = disk[f][i].entry
  BY <1>1 DEF Decoded
<1>3. disk[f] \in Seq(Part)
  BY DEF TypeOK
<1>4. disk[f][i] \in Part
  BY <1>3, ElementOfSeq, LenProperties
<1> QED
  BY <1>2, <1>4 DEF On, Part

LEMMA InitMemory == Init => MemoryInv
<1> SUFFICES ASSUME Init PROVE MemoryInv
  OBVIOUS
<1>1. disk \in [Files -> Seq(Part)] /\ \A f \in Files : On(f) = {}
  BY EmptySeq DEF Init, On
<1>2. TypeOK
  BY <1>1 DEF Init, TypeOK
<1>3. Counted /\ WritersHome
  BY MemoryBounds DEF Init, Counted, WritersHome
<1>4. OnDiskTold /\ FiledNotEarlier
  BY <1>1 DEF OnDiskTold, FiledNotEarlier
<1> QED
  BY <1>2, <1>3, <1>4 DEF MemoryInv

\* A step that leaves the files alone leaves them right.
LEMMA SameFiles ==
    ASSUME MemoryInv, UNCHANGED disk, told \subseteq told',
           created' \in Nat, created <= created'
    PROVE  (OnDiskTold /\ FiledNotEarlier)'
<1>1. \A f \in Files : On(f)' = On(f)
  BY DEF On
<1>2. OnDiskTold'
  BY <1>1 DEF MemoryInv, OnDiskTold
<1>3. ASSUME NEW f \in Files, NEW p \in On(f)
      PROVE  /\ f[1] = "workspace" <=> p.entry.level = "session"
             /\ f[2] >= p.entry.born
             /\ f[2] <= created'
  <2>1. f[2] \in Nat /\ created \in Nat
    BY DEF Files, Sessions, MemoryInv, TypeOK
  <2> QED BY <1>3, <2>1 DEF MemoryInv, FiledNotEarlier
<1> QED
  BY <1>1, <1>2, <1>3 DEF FiledNotEarlier

LEMMA SetSessionKeeps == MemoryInv /\ SetSession => MemoryInv'
<1> SUFFICES ASSUME MemoryInv, SetSession PROVE MemoryInv'
  OBVIOUS
<1>1. TypeOK'
  BY DEF MemoryInv, TypeOK, SetSession
<1>2. Counted'
  BY MemoryBounds DEF MemoryInv, TypeOK, Counted, SetSession, Durable
<1>3. WritersHome'
  <2>1. ASSUME NEW w \in writers
        PROVE  /\ w.entry.born <= created + 1
               /\ w.stage # "started" => w.file[2] <= created + 1
    <3>1. w.entry.born \in Nat /\ w.file[2] \in Nat /\ created \in Nat /\ session \in Nat
      BY DEF MemoryInv, TypeOK, Writer, Entry, Files, Sessions
    <3>2. w.entry.born <= session /\ session <= created
      BY DEF MemoryInv, Counted, WritersHome
    <3>3. w.stage # "started" => w.file[2] <= created
      BY DEF MemoryInv, WritersHome
    <3> QED BY <3>1, <3>2, <3>3
  <2>2. created + 1 # 0
    BY DEF MemoryInv, TypeOK
  <2> QED BY <2>1, <2>2 DEF MemoryInv, WritersHome, SetSession, TierOf
<1>4. (OnDiskTold /\ FiledNotEarlier)'
  <2>1. created' \in Nat /\ created <= created'
    BY DEF MemoryInv, TypeOK, SetSession
  <2> QED BY <2>1, SameFiles DEF SetSession
<1> QED
  BY <1>1, <1>2, <1>3, <1>4 DEF MemoryInv

LEMMA AddKeeps == MemoryInv /\ Add => MemoryInv'
<1> SUFFICES ASSUME MemoryInv, Add PROVE MemoryInv'
  OBVIOUS
<1>1. PICK level \in Levels :
        LET e == [id |-> added + 1, level |-> level, born |-> session]
        IN  /\ entries' = entries \cup {e}
            /\ writers' = IF Durable(e) THEN writers \cup {Start(e)} ELSE writers
            /\ told' = IF Durable(e) THEN told \cup {e} ELSE told
  BY DEF Add
<1> DEFINE e == [id |-> added + 1, level |-> level, born |-> session]
<1>2. /\ up /\ session \in 1..MaxSessions /\ added + 1 \in 1..MaxEntries
      /\ added' = added + 1
      /\ UNCHANGED <<up, session, created, disk>>
  BY MemoryBounds DEF Add, MemoryInv, TypeOK, Counted
<1>3. e \in Entry
  BY <1>2 DEF Entry, Sessions
<1>4. Start(e) \in Writer /\ Start(e).entry = e /\ Start(e).stage = "started"
  <2>1. <<TierOf(e), e.born>> \in Files
    BY <1>2 DEF Files, Tiers, TierOf, Sessions
  <2> QED BY <1>3, <2>1 DEF Start, Writer
<1>5. e.id = added + 1 /\ e.born = session
  OBVIOUS
<1> HIDE DEF e
<1>6. TypeOK'
  BY <1>1, <1>2, <1>3, <1>4 DEF MemoryInv, TypeOK, e
<1>7. Counted'
  <2>1. \A x \in entries \cup told \cup {e} : x.id <= added + 1
    <3>1. \A x \in entries \cup told : x.id \in Nat /\ x.id <= added
      BY DEF MemoryInv, TypeOK, Counted, Entry
    <3>2. added \in Nat
      BY DEF MemoryInv, TypeOK
    <3>3. \A x \in entries \cup told : x.id <= added + 1
      BY <3>1, <3>2
    <3> QED BY <1>5, <3>2, <3>3
  <2>2. entries' \cup told' \subseteq entries \cup told \cup {e}
    BY <1>1 DEF e
  <2>3. \A x \in told' : Durable(x)
    BY <1>1 DEF MemoryInv, Counted, e
  <2> QED BY <1>2, <2>1, <2>2, <2>3 DEF MemoryInv, Counted, Durable
<1>8. WritersHome'
  <2>1. ASSUME NEW w \in writers'
        PROVE  /\ w.entry \in told'
               /\ w.entry.born <= session
               /\ w.stage # "started" =>
                    w.file[1] = TierOf(w.entry) /\ w.file[2] >= w.entry.born /\ w.file[2] <= created
    <3>1. CASE w \in writers
      <4>1. w.entry \in told'
        BY <1>1, <3>1 DEF MemoryInv, WritersHome, e
      <4> QED BY <3>1, <4>1 DEF MemoryInv, WritersHome
    <3>2. CASE w \notin writers
      <4>1. w = Start(e) /\ Durable(e)
        BY <1>1, <2>1, <3>2 DEF e
      <4>2. e \in told'
        BY <1>1, <4>1 DEF e
      <4> QED BY <1>2, <1>4, <1>5, <4>1, <4>2
    <3> QED BY <3>1, <3>2
  <2> QED BY <1>2, <2>1 DEF WritersHome, TierOf
<1>9. (OnDiskTold /\ FiledNotEarlier)'
  <2>1. told \subseteq told' /\ created' \in Nat /\ created <= created'
    BY <1>1, <1>2 DEF MemoryInv, TypeOK
  <2> QED BY <1>2, <2>1, SameFiles
<1> QED
  BY <1>6, <1>7, <1>8, <1>9 DEF MemoryInv

LEMMA ExitKeeps == MemoryInv /\ Exit => MemoryInv'
<1> SUFFICES ASSUME MemoryInv, Exit PROVE MemoryInv'
  OBVIOUS
<1>1. TypeOK'
  BY DEF MemoryInv, TypeOK, Exit
<1>2. Counted'
  BY DEF MemoryInv, TypeOK, Counted, Exit, Durable
<1>3. WritersHome'
  BY DEF WritersHome, Exit
<1>4. (OnDiskTold /\ FiledNotEarlier)'
  BY SameFiles DEF MemoryInv, TypeOK, Exit
<1> QED
  BY <1>1, <1>2, <1>3, <1>4 DEF MemoryInv

\* What is loaded was told once, and nobody writes yet.
LEMMA LoadKeeps == MemoryInv /\ Load => MemoryInv'
<1> SUFFICES ASSUME MemoryInv, Load PROVE MemoryInv'
  OBVIOUS
<1>1. \A e \in Recovered : e \in Entry /\ e \in told
  BY RecoveredOnDisk DEF MemoryInv, OnDiskTold
<1>2. TypeOK'
  BY <1>1 DEF MemoryInv, TypeOK, Load
<1>3. Counted'
  BY <1>1 DEF MemoryInv, Counted, Load, Durable
<1>4. WritersHome'
  BY DEF MemoryInv, WritersHome, Load, TierOf
<1>5. (OnDiskTold /\ FiledNotEarlier)'
  BY SameFiles DEF MemoryInv, TypeOK, Load
<1> QED
  BY <1>2, <1>3, <1>4, <1>5 DEF MemoryInv

\* Only the set of goroutines changes, by one that is moved or gone.
LEMMA WritersKeep ==
    ASSUME MemoryInv, writers' \subseteq Writer, UNCHANGED <<up, session, created, added, entries, told>>,
           \A w \in writers' \ writers :
             /\ up /\ session # 0
             /\ w.entry \in told /\ w.entry.born <= session
             /\ w.stage # "started" =>
                  w.file[1] = TierOf(w.entry) /\ w.file[2] >= w.entry.born /\ w.file[2] <= created
    PROVE  Counted' /\ WritersHome'
<1>1. Counted'
  BY DEF MemoryInv, Counted, Durable
<1>2. \A w \in writers' \cap writers :
        /\ up /\ session # 0
        /\ w.entry \in told /\ w.entry.born <= session
        /\ w.stage # "started" =>
             w.file[1] = TierOf(w.entry) /\ w.file[2] >= w.entry.born /\ w.file[2] <= created
  BY DEF MemoryInv, TypeOK, WritersHome
<1>3. \A w \in writers' :
        /\ up /\ session # 0
        /\ w.entry \in told /\ w.entry.born <= session
        /\ w.stage # "started" =>
             w.file[1] = TierOf(w.entry) /\ w.file[2] >= w.entry.born /\ w.file[2] <= created
  BY <1>2
<1>4. ~up => entries = {}
  BY DEF MemoryInv, WritersHome
<1> QED
  BY <1>1, <1>3, <1>4 DEF WritersHome, TierOf

\* The current session is none before the one of the entry.
LEMMA OpenFileKeeps ==
    ASSUME MemoryInv, NEW w \in writers, OpenFile(w)
    PROVE  MemoryInv'
<1> DEFINE to == [w EXCEPT !.stage = "opened", !.file = <<TierOf(w.entry), session>>]
<1>1. w \in Writer /\ w.entry \in told /\ w.entry.born <= session
  BY DEF MemoryInv, TypeOK, WritersHome
<1>2. up /\ session # 0
  BY DEF MemoryInv, TypeOK, WritersHome
<1>3. session \in 1..MaxSessions /\ session <= created
  BY <1>2, MemoryBounds DEF MemoryInv, TypeOK, Counted
<1>4. <<TierOf(w.entry), session>> \in Files
  BY <1>3 DEF Files, Tiers, TierOf, Sessions
<1>5. to \in Writer /\ to.entry = w.entry /\ to.file = <<TierOf(w.entry), session>>
  BY <1>1, <1>4 DEF Writer
<1>6. writers' = (writers \ {w}) \cup {to} /\ UNCHANGED <<up, session, created, added, entries, disk, told>>
  BY DEF OpenFile, Move
<1> HIDE DEF to
<1>7. TypeOK'
  BY <1>5, <1>6 DEF MemoryInv, TypeOK
<1>8. session >= w.entry.born
  BY <1>1, <1>3 DEF Writer, Entry, Sessions
<1>9. Counted' /\ WritersHome'
  <2>1. writers' \subseteq Writer
    BY <1>7 DEF TypeOK
  <2>2. \A x \in writers' \ writers : x = to
    BY <1>6
  <2>3. /\ to.entry \in told /\ to.entry.born <= session
        /\ to.file[1] = TierOf(to.entry) /\ to.file[2] >= to.entry.born /\ to.file[2] <= created
    BY <1>1, <1>3, <1>5, <1>8
  <2> QED BY <1>2, <1>6, <2>1, <2>2, <2>3, WritersKeep
<1>10. (OnDiskTold /\ FiledNotEarlier)'
  BY <1>6, SameFiles DEF MemoryInv, TypeOK
<1> QED
  BY <1>7, <1>9, <1>10 DEF MemoryInv

\* What is written to an open file belongs there.
LEMMA WrittenAtHome ==
    ASSUME MemoryInv, NEW w \in writers, w.stage # "started",
           NEW part \in {"types", "value"}, AppendPart(w, part), UNCHANGED <<created, told>>
    PROVE  disk' \in [Files -> Seq(Part)] /\ (OnDiskTold /\ FiledNotEarlier)'
<1>1. w \in Writer /\ w.file \in Files /\ w.entry \in Entry
  BY DEF MemoryInv, TypeOK, Writer
<1>2. /\ w.entry \in told /\ Durable(w.entry)
      /\ w.file[1] = TierOf(w.entry) /\ w.file[2] >= w.entry.born /\ w.file[2] <= created
  BY DEF MemoryInv, WritersHome, Counted
<1>3. w.file[1] = "workspace" <=> w.entry.level = "session"
  BY <1>2 DEF TierOf
<1>4. disk \in [Files -> Seq(Part)]
  BY DEF MemoryInv, TypeOK
<1>5. /\ disk' \in [Files -> Seq(Part)]
      /\ \A f \in Files : \A p \in On(f)' :
           p \in On(f) \/ (f = w.file /\ p = [part |-> part, entry |-> w.entry])
  BY <1>1, <1>4, OnAfterAppend
<1>6. \A f \in Files : \A p \in On(f)' : p \in On(f) \/ (f = w.file /\ p.entry = w.entry)
  BY <1>5
<1>7. OnDiskTold'
  BY <1>2, <1>6 DEF MemoryInv, OnDiskTold
<1>8. FiledNotEarlier'
  BY <1>2, <1>3, <1>6 DEF MemoryInv, FiledNotEarlier
<1> QED
  BY <1>5, <1>7, <1>8

LEMMA WriteTypesKeeps ==
    ASSUME MemoryInv, NEW w \in writers, WriteTypes(w)
    PROVE  MemoryInv'
<1> DEFINE to == [w EXCEPT !.stage = "described"]
<1>1. w \in Writer /\ w.stage = "opened"
  BY DEF MemoryInv, TypeOK, WriteTypes
<1>2. to \in Writer /\ to.entry = w.entry /\ to.file = w.file
  BY <1>1 DEF Writer
<1>3. /\ writers' = (writers \ {w}) \cup {to} /\ AppendPart(w, "types")
      /\ UNCHANGED <<up, session, created, added, entries, told>>
  BY DEF WriteTypes, Move
<1> HIDE DEF to
<1>4. disk' \in [Files -> Seq(Part)] /\ (OnDiskTold /\ FiledNotEarlier)'
  BY <1>1, <1>3, WrittenAtHome
<1>5. TypeOK'
  BY <1>2, <1>3, <1>4 DEF MemoryInv, TypeOK
<1>6. Counted' /\ WritersHome'
  <2>1. writers' \subseteq Writer
    BY <1>5 DEF TypeOK
  <2>2. /\ up /\ session # 0
        /\ w.entry \in told /\ w.entry.born <= session
        /\ w.file[1] = TierOf(w.entry) /\ w.file[2] >= w.entry.born /\ w.file[2] <= created
    BY <1>1 DEF MemoryInv, TypeOK, WritersHome
  <2> QED BY <1>2, <1>3, <2>1, <2>2, WritersKeep
<1> QED
  BY <1>4, <1>5, <1>6 DEF MemoryInv

LEMMA WriteValueKeeps ==
    ASSUME MemoryInv, NEW w \in writers, WriteValue(w)
    PROVE  MemoryInv'
<1>1. /\ w.stage = "described" /\ writers' = writers \ {w} /\ AppendPart(w, "value")
      /\ UNCHANGED <<up, session, created, added, entries, told>>
  BY DEF WriteValue
<1>2. disk' \in [Files -> Seq(Part)] /\ (OnDiskTold /\ FiledNotEarlier)'
  BY <1>1, WrittenAtHome
<1>3. TypeOK'
  BY <1>1, <1>2 DEF MemoryInv, TypeOK
<1>4. Counted' /\ WritersHome'
  BY <1>1, <1>3, WritersKeep DEF TypeOK
<1> QED
  BY <1>2, <1>3, <1>4 DEF MemoryInv

LEMMA GiveUpKeeps ==
    ASSUME MemoryInv, NEW w \in writers, GiveUp(w)
    PROVE  MemoryInv'
<1>1. writers' = writers \ {w} /\ UNCHANGED <<up, session, created, added, entries, disk, told>>
  BY DEF GiveUp
<1>2. TypeOK'
  BY <1>1 DEF MemoryInv, TypeOK
<1>3. Counted' /\ WritersHome'
  BY <1>1, <1>2, WritersKeep DEF TypeOK
<1>4. (OnDiskTold /\ FiledNotEarlier)'
  BY <1>1, SameFiles DEF MemoryInv, TypeOK
<1> QED
  BY <1>2, <1>3, <1>4 DEF MemoryInv

LEMMA NextKeeps == MemoryInv /\ [Next]_vars => MemoryInv'
<1> SUFFICES ASSUME MemoryInv, [Next]_vars PROVE MemoryInv'
  OBVIOUS
<1>1. CASE SetSession
  BY <1>1, SetSessionKeeps
<1>2. CASE Add
  BY <1>2, AddKeeps
<1>3. CASE Exit
  BY <1>3, ExitKeeps
<1>4. CASE Load
  BY <1>4, LoadKeeps
<1>5. CASE Persist
  BY <1>5, OpenFileKeeps, WriteTypesKeeps, WriteValueKeeps, GiveUpKeeps DEF Persist
<1>6. CASE UNCHANGED vars
  <2>1. TypeOK'
    BY <1>6 DEF vars, MemoryInv, TypeOK
  <2>2. Counted' /\ WritersHome'
    BY <1>6, <2>1, WritersKeep DEF vars, TypeOK
  <2>3. (OnDiskTold /\ FiledNotEarlier)'
    BY <1>6, SameFiles DEF vars, MemoryInv, TypeOK
  <2> QED BY <2>1, <2>2, <2>3 DEF MemoryInv
<1> QED
  BY <1>1, <1>2, <1>3, <1>4, <1>5, <1>6 DEF Next

LEMMA MemoryKept == Spec => []MemoryInv
  BY InitMemory, NextKeeps, PTL DEF Spec

\* The store keeps its types, for any number of sessions, entries and restarts.
THEOREM StoreTyped == Spec => []TypeOK
<1>1. MemoryInv => TypeOK
  BY DEF MemoryInv
<1> QED
  BY <1>1, MemoryKept, PTL

\* However late a goroutine runs, its entry ends up in the directory of its
\* level, under no session before its own (persistEntry reads ms.sessionID
\* when it runs).
THEOREM FiledNeverEarlier == Spec => []FiledNotEarlier
<1>1. MemoryInv => FiledNotEarlier
  BY DEF MemoryInv
<1> QED
  BY <1>1, MemoryKept, PTL

-----------------------------------------------------------------------------
(* The store is a memory that forgets but never invents.                    *)

LEMMA SameRecovered == UNCHANGED disk => UNCHANGED Recovered
  BY DEF Recovered

\* A part written to a file adds at most its own entry to what a restart gets.
LEMMA RecoveredAfterAppend ==
    ASSUME TypeOK, NEW w \in writers, NEW part \in {"types", "value"}, AppendPart(w, part)
    PROVE  Recovered' = Recovered \/ Recovered' = Recovered \cup {w.entry}
<1> DEFINE new == [part |-> part, entry |-> w.entry]
<1>1. w \in Writer /\ w.file \in Files /\ new \in Part
  BY DEF TypeOK, Writer, Part
<1>2. disk \in [Files -> Seq(Part)]
  BY DEF TypeOK
<1>3. disk' = [disk EXCEPT ![w.file] = Append(disk[w.file], new)]
  BY DEF AppendPart
<1>4. disk[w.file] \in Seq(Part) /\ disk'[w.file] = Append(disk[w.file], new)
  BY <1>1, <1>2, <1>3
<1>5. new.entry = w.entry
  OBVIOUS
<1> HIDE DEF new
<1>6. \A f \in Files : f # w.file => Decoded(disk'[f]) = Decoded(disk[f])
  BY <1>2, <1>3
<1>7. \/ Decoded(disk'[w.file]) = Decoded(disk[w.file])
      \/ Decoded(disk'[w.file]) = Decoded(disk[w.file]) \cup {w.entry}
  BY <1>1, <1>4, <1>5, DecodedAppend
<1>8. Recovered' = UNION {Decoded(disk'[f]) : f \in Files}
  BY DEF Recovered, Decoded
<1>9. CASE Decoded(disk'[w.file]) = Decoded(disk[w.file])
  BY <1>6, <1>8, <1>9 DEF Recovered
<1>10. CASE Decoded(disk'[w.file]) = Decoded(disk[w.file]) \cup {w.entry}
  <2>1. \A e : e \in Recovered' <=> e \in Recovered \/ e = w.entry
    BY <1>1, <1>6, <1>8, <1>10 DEF Recovered
  <2> QED BY <2>1
<1> QED
  BY <1>7, <1>9, <1>10

LEMMA InitForgets == Init => Memory!Init
<1> SUFFICES ASSUME Init PROVE Memory!Init
  OBVIOUS
<1>1. \A f \in Files : disk[f] = <<>>
  BY DEF Init
<1>2. Decoded(<<>>) = {}
  BY DEF Decoded
<1>3. Recovered = {}
  BY <1>1, <1>2 DEF Recovered
<1> QED
  BY <1>3 DEF Init, Memory!Init

LEMMA AddTells == MemoryInv /\ Add => Memory!Tell \/ UNCHANGED Memory!vars
<1> SUFFICES ASSUME MemoryInv, Add PROVE Memory!Tell \/ UNCHANGED Memory!vars
  OBVIOUS
<1>1. PICK level \in Levels :
        LET e == [id |-> added + 1, level |-> level, born |-> session]
        IN  /\ entries' = entries \cup {e}
            /\ told' = IF Durable(e) THEN told \cup {e} ELSE told
  BY DEF Add
<1> DEFINE e == [id |-> added + 1, level |-> level, born |-> session]
<1>2. /\ session \in Sessions /\ added + 1 \in 1..MaxEntries /\ added \in Nat
  BY MemoryBounds DEF Add, MemoryInv, TypeOK, Counted, Sessions
<1>3. e \in Entry /\ e.id = added + 1
  BY <1>2 DEF Entry
<1> HIDE DEF e
<1>4. e \notin told
  <2>1. \A x \in told : x.id <= added
    BY DEF MemoryInv, Counted
  <2> QED BY <1>2, <1>3, <2>1
<1>5. entries' = entries \cup {e} /\ told' = (IF Durable(e) THEN told \cup {e} ELSE told)
  BY <1>1 DEF e
<1>6. UNCHANGED Recovered
  BY SameRecovered DEF Add
<1>7. CASE Durable(e)
  <2>1. {x \in entries : Durable(x)}' = {x \in entries : Durable(x)} \cup {e}
    BY <1>5, <1>7 DEF Durable
  <2>2. Memory!Tell
    BY <1>3, <1>4, <1>5, <1>6, <1>7, <2>1 DEF Memory!Tell
  <2> QED BY <2>2
<1>8. CASE ~Durable(e)
  <2>1. {x \in entries : Durable(x)}' = {x \in entries : Durable(x)}
    BY <1>5, <1>8 DEF Durable
  <2> QED BY <1>5, <1>6, <1>8, <2>1 DEF Memory!vars
<1> QED
  BY <1>7, <1>8

LEMMA ExitStops == Exit => Memory!Stop
  BY SameRecovered DEF Exit, Memory!Stop

LEMMA LoadRestarts == MemoryInv /\ Load => Memory!Restart
<1> SUFFICES ASSUME MemoryInv, Load PROVE Memory!Restart
  OBVIOUS
<1>1. \A e \in Recovered : Durable(e)
  BY RecoveredOnDisk DEF MemoryInv, OnDiskTold, Counted
<1>2. {e \in entries : Durable(e)}' = Recovered
  BY <1>1 DEF Load, Durable
<1> QED
  BY <1>2, SameRecovered DEF Load, Memory!Restart

\* Writing a part keeps an entry in the end, or changes nothing.
LEMMA WritingKeeps ==
    ASSUME MemoryInv, NEW w \in writers, NEW part \in {"types", "value"}, AppendPart(w, part),
           UNCHANGED <<entries, told>>
    PROVE  Memory!Keep \/ UNCHANGED Memory!vars
<1>1. w.entry \in told
  BY DEF MemoryInv, WritersHome
<1>2. UNCHANGED {e \in entries : Durable(e)}
  BY DEF Durable
<1>3. Recovered' = Recovered \/ Recovered' = Recovered \cup {w.entry}
  BY RecoveredAfterAppend DEF MemoryInv
<1>4. CASE Recovered' = Recovered
  BY <1>2, <1>4 DEF Memory!vars
<1>5. CASE w.entry \notin Recovered /\ Recovered' = Recovered \cup {w.entry}
  BY <1>1, <1>2, <1>5 DEF Memory!Keep
<1> QED
  BY <1>3, <1>4, <1>5

LEMMA NextForgets == MemoryInv /\ [Next]_vars => [Memory!Next]_(Memory!vars)
<1> SUFFICES ASSUME MemoryInv, [Next]_vars PROVE Memory!Next \/ UNCHANGED Memory!vars
  OBVIOUS
<1>1. UNCHANGED <<entries, told, disk>> => UNCHANGED Memory!vars
  BY SameRecovered DEF Memory!vars, Durable
<1>2. CASE SetSession
  BY <1>1, <1>2 DEF SetSession
<1>3. CASE Add
  BY <1>3, AddTells DEF Memory!Next
<1>4. CASE Exit
  BY <1>4, ExitStops DEF Memory!Next
<1>5. CASE Load
  BY <1>5, LoadRestarts DEF Memory!Next
<1>6. CASE Persist
  <2>1. PICK w \in writers : OpenFile(w) \/ WriteTypes(w) \/ WriteValue(w) \/ GiveUp(w)
    BY <1>6 DEF Persist
  <2>2. CASE OpenFile(w) \/ GiveUp(w)
    BY <1>1, <2>2 DEF OpenFile, GiveUp
  <2>3. CASE WriteTypes(w)
    BY <2>3, WritingKeeps DEF WriteTypes, Memory!Next
  <2>4. CASE WriteValue(w)
    BY <2>4, WritingKeeps DEF WriteValue, Memory!Next
  <2> QED BY <2>1, <2>2, <2>3, <2>4
<1>7. CASE UNCHANGED vars
  BY <1>1, <1>7 DEF vars
<1> QED
  BY <1>2, <1>3, <1>4, <1>5, <1>6, <1>7 DEF Next

\* Whatever the order of the goroutines, wherever the process ends and however
\* often it starts again: the store never invents an entry, and never takes
\* back what a start could load.
THEOREM StoreImplementsMemory == Spec => ImplementsMemory
  BY InitForgets, NextForgets, MemoryKept, PTL DEF Spec, ImplementsMemory, Memory!Spec
===============================================================================
