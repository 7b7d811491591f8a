-------------------------------- MODULE Skills ---------------------------------
(***************************************************************************)
(* The skills of internal/skills/skills.go and the tool "skill"             *)
(* (internal/tool/builtin.go): how a SKILL.md is read, which of several     *)
(* counts, which are loaded, and what a system prompt says of them.         *)
(***************************************************************************)
EXTENDS Naturals, Sequences, SequencesExt, Maps

\* Lines of a SKILL.md. Those under "## Allowed Tools" and "## Files" are
\* bullets like any other: nothing is kept of them.
Line(kind, text) == [kind |-> kind, text |-> text]
Title(text)  == Line("title", text)
Bullet(text) == Line("bullet", text)
Words(text)  == Line("words", text)
Blank        == Line("blank", "")

\* A file: the directory it is in, and its lines.
SkillFile(dir, lines) == [dir |-> dir, lines |-> lines]

\* The header ends at the first empty line.
HeaderLen(lines) ==
    LET k == SelectInSeq(lines, LAMBDA l : l = Blank) IN IF k = 0 THEN Len(lines) ELSE k - 1

OfKind(lines, kind) == SelectSeq(SubSeq(lines, 1, HeaderLen(lines)), LAMBDA l : l.kind = kind)

\* The last title, else the name of the directory.
NameOf(file) ==
    LET titles == OfKind(file.lines, "title")
    IN  IF titles = <<>> THEN file.dir ELSE Last(titles).text

\* The first bullet, and all that follows the header.
Skill(file) ==
    LET bullets == OfKind(file.lines, "bullet")
    IN  [description |-> IF bullets = <<>> THEN "a reusable skill" ELSE Head(bullets).text,
         content |-> SubSeq(file.lines, HeaderLen(file.lines) + 2, Len(file.lines))]

\* Mutant: the first file of a name counts.
MutantDiscover(files) ==
    LET found[k \in 0..Len(files)] ==
          IF k = 0 THEN <<>>
          ELSE IF NameOf(files[k]) \in DOMAIN found[k - 1] THEN found[k - 1]
          ELSE Put(found[k - 1], NameOf(files[k]), Skill(files[k]))
    IN  found[Len(files)]

\* The files in the order they are found: the workspace's .skills, its skills,
\* the user's. The last one of a name counts.
Discover(files) ==
    LET found[k \in 0..Len(files)] ==
          IF k = 0 THEN <<>> ELSE Put(found[k - 1], NameOf(files[k]), Skill(files[k]))
    IN  found[Len(files)]

\* A call of the tool "skill": its action, and the name or the query it has.
\* Returns whether it succeeds. A skill that is not there is no failure.
SkillSucceeds(action, arg) ==
    \/ action = "list"
    \/ action \in {"load", "unload", "search"} /\ arg # ""

\* The loaded skills after the call.
Loaded(skills, loaded, action, arg) ==
    IF arg = "" THEN loaded
    ELSE IF action = "load" THEN loaded \cup ({arg} \cap DOMAIN skills)
    ELSE IF action = "unload" THEN loaded \ {arg}
    ELSE loaded

\* The texts of the loaded skills, as a prompt has them.
LoadedInstructions(skills, loaded) ==
    {<<name, skills[name].content>> : name \in loaded \cap DOMAIN skills}
===============================================================================
