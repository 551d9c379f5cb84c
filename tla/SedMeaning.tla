----------------------------- MODULE SedMeaning -----------------------------
(***************************************************************************)
(* What a script means in the dialect of sed.cpp: every command meets      *)
(* every line of a text, with neither a cycle nor flags nor queues.        *)
(* A text is the contents of a file when it is opened, and s a script.     *)
(*                                                                         *)
(* In that dialect each file is a text of its own, with or without -s: `$` *)
(* and line numbers are those of the file, a range ends with it, `q` ends  *)
(* it only; `c` prints nothing with -n, and a range whose second line is   *)
(* before its first runs to the end.  docs/man/modbox-sed.1.md has one     *)
(* stream of all files without -s, and `q` end all input.                  *)
(***************************************************************************)
EXTENDS Sed

SeqExt == INSTANCE SequencesExt

\* Line k, of which the commands before made space, is one that addr names.
Meets(addr, text, k, space) ==
    CASE addr.type = "NONE" -> TRUE
      [] addr.type = "LINE_NUM" -> k = addr.line_num
      [] addr.type = "LAST_LINE" -> k = Len(text)
      [] addr.type = "REGEX" -> Holds(addr.x, space)
      [] addr.type = "STEP" ->
            /\ addr.line_num > 0 /\ addr.step > 0
            /\ k >= addr.line_num /\ (k - addr.line_num) % addr.step = 0

\* The places of a line that s and y change, and what they make of it.
Replaces(x, space, k) ==
    /\ space[k] = x.from
    /\ x.type = "y" \/ x.global \/ Cardinality({j \in 1..(k - 1) : space[j] = x.from}) = x.nth
Changed(x, space) ==
    IF x.type \in {"s", "y"}
    THEN [k \in DOMAIN space |-> IF Replaces(x, space, k) THEN x.to ELSE space[k]]
    ELSE space

\* s prints what it made if that is something else, or has a number and found it.
Tells(x, space) ==
    /\ x.print
    /\ IF ~x.global /\ x.nth > 0 THEN \E k \in DOMAIN space : Replaces(x, space, k)
       ELSE Changed(x, space) # space

(***************************************************************************)
(* found has, for each line, what the commands before x made of it, and    *)
(* whether it is over for x: deleted, or sed quits.  x is carried out on a *)
(* line its address names, or from one on that its first address names up  *)
(* to the next that its second one names.                                  *)
(***************************************************************************)
Begins(x, text, found, k) == ~found[k].over /\ Meets(x.addr1, text, k, found[k].space)
Ends(x, text, found, k) == ~found[k].over /\ Meets(x.addr2, text, k, found[k].space)

Meant(x, text, found, k) ==
    IF x.has_range
    THEN \E b \in 1..k : Begins(x, text, found, b) /\ \A m \in b..(k - 1) : ~Ends(x, text, found, m)
    ELSE Meets(x.addr1, text, k, found[k].space)

Does(x, text, found, k) == ~found[k].over /\ Meant(x, text, found, k) # x.negated

Leaves(x, text, found) ==
    [k \in DOMAIN text |->
        IF Does(x, text, found, k)
        THEN [space |-> Changed(x, found[k].space), over |-> x.type \in {"d", "q"}]
        ELSE found[k]]

\* The lines as each command finds them; as nothing has changed them for the first.
Finds(s, text) ==
    LET finds[i \in 1..(Len(s) + 1)] ==
            IF i = 1 THEN [k \in DOMAIN text |-> [space |-> <<text[k]>>, over |-> FALSE]]
            ELSE Leaves(s[i - 1], text, finds[i - 1])
    IN  finds

\* q is carried out on no line before k.
Reached(s, text, k) ==
    \A m \in 1..(k - 1) : \A i \in 1..Len(s) : s[i].type = "q" => ~Does(s[i], text, Finds(s, text)[i], m)

\* Command i is of this type and carried out on line k.
Acts(s, text, type, k, i) ==
    s[i].type = type /\ Reached(s, text, k) /\ Does(s[i], text, Finds(s, text)[i], k)

----------------------------------------------------------------------------
(***************************************************************************)
(* What is printed, and written by w, line by line.  A w command finds its *)
(* file as it was in start and adds to it.                                 *)
(***************************************************************************)
Says(s, text, k, i) ==
    LET space == Finds(s, text)[i][k].space IN
    CASE Acts(s, text, "p", k, i) -> space
      [] Acts(s, text, "=", k, i) -> <<k>>
      [] Acts(s, text, "i", k, i) -> <<s[i].text>>
      [] Acts(s, text, "s", k, i) -> IF Tells(s[i], space) THEN Changed(s[i], space) ELSE <<>>
      [] OTHER -> <<>>

Appends(s, text, k, i) == IF Acts(s, text, "a", k, i) THEN <<s[i].text>> ELSE <<>>

NotesIn(s, text, f, k, i) == Acts(s, text, "w", k, i) /\ s[i].file = f
Notes(s, text, f, k, i) == IF NotesIn(s, text, f, k, i) THEN Finds(s, text)[i][k].space ELSE <<>>

\* The commands carried out on line m before all but i of line k are.
UpTo(s, m, k, i) == 1..(IF m = k THEN i ELSE Len(s))

Held(start, f) == IF start[f] = Nil THEN <<>> ELSE start[f]
Noted(s, text, start, f, k, i) ==
    Held(start, f)
    \o SeqExt!FlattenSeq([m \in 1..k |->
         SeqExt!FlattenSeq([j \in UpTo(s, m, k, i) |-> Notes(s, text, f, m, j)])])

\* The files when i commands of line k, and all of the lines before, are done.
DiskAt(s, text, start, k, i) ==
    [f \in FileNames |->
        IF start[f] # Nil \/ \E m \in 1..k : \E j \in UpTo(s, m, k, i) : NotesIn(s, text, f, m, j)
        THEN Noted(s, text, start, f, k, i) ELSE Nil]

Reads(s, text, start, k, i) ==
    IF Acts(s, text, "r", k, i) THEN Noted(s, text, start, s[i].file, k, i - 1) ELSE <<>>

\* What the last of the first i commands that is a c puts in place of line k.
Changes(s, text, k, i) == {j \in 1..i : Acts(s, text, "c", k, j)}
NewText(s, text, k, i) ==
    LET changes == Changes(s, text, k, i) IN
    IF changes = {} THEN Nil ELSE s[CHOOSE j \in changes : \A h \in changes : h <= j].text

\* The line, at the end of its cycle.
AtEnd(s, text, quiet, k) ==
    IF quiet \/ ~Reached(s, text, k) \/ \E i \in 1..Len(s) : Acts(s, text, "d", k, i) THEN <<>>
    ELSE IF NewText(s, text, k, Len(s)) # Nil THEN <<NewText(s, text, k, Len(s))>>
    ELSE Finds(s, text)[Len(s) + 1][k].space

Passage(s, text, quiet, start, k) ==
    SeqExt!FlattenSeq([i \in 1..Len(s) |-> Says(s, text, k, i)])
    \o AtEnd(s, text, quiet, k)
    \o SeqExt!FlattenSeq([i \in 1..Len(s) |-> Appends(s, text, k, i)])
    \o SeqExt!FlattenSeq([i \in 1..Len(s) |-> Reads(s, text, start, k, i)])

Printed(s, text, quiet, start, k) ==
    SeqExt!FlattenSeq([m \in 1..k |-> Passage(s, text, quiet, start, m)])

----------------------------------------------------------------------------
(***************************************************************************)
(* A command line: one file after the other, each a text of its own and    *)
(* `q` for that one only (sed.cpp 1429-1440).  With -i what is printed of  *)
(* a file takes its place.                                                 *)
(***************************************************************************)
AfterFile(j, f, before) ==
    LET text == before.disk[f]
        printed == Printed(j.script, text, j.quiet, before.disk, Len(text))
        disk1 == DiskAt(j.script, text, before.disk, Len(text), Len(j.script))
    IN  IF text = Nil THEN before
        ELSE IF j.inPlace
        THEN [out |-> printed, disk |-> [disk1 EXCEPT ![BackupName[f]] = text, ![f] = printed]]
        ELSE [out |-> before.out \o printed, disk |-> disk1]

After(j) ==
    LET after[p \in 0..Len(j.paths)] ==
            IF p = 0 THEN [out |-> <<>>, disk |-> j.files]
            ELSE AfterFile(j, j.paths[p], after[p - 1])
    IN  after

Uses(types) == \E i \in DOMAIN script : script[i].type \in types

\* Without n and N, and if nothing fails, sed prints of every line and leaves in
\* every file what its commands mean.
LineByLine ==
    (phase = "done" /\ ~job.mishaps /\ ~Uses({"n", "N"}))
        => LET end == After(job)[Len(job.paths)] IN out = end.out /\ disk = end.disk

----------------------------------------------------------------------------
(***************************************************************************)
(* n and N, which take lines away from the cycle.                          *)
(***************************************************************************)
TextOf(p) == Held(job.files, job.paths[p])
OwnLines == UNION {{TextOf(p)[k] : k \in DOMAIN TextOf(p)} : p \in DOMAIN job.paths}
InsertedTexts == {script[i].text : i \in {i \in DOMAIN script : script[i].type \in {"i", "a"}}}

\* The elements of q that S has, in their order.
Among(q, S) == SeqExt!FlattenSeq([k \in DOMAIN q |-> IF q[k] \in S THEN <<q[k]>> ELSE <<>>])

\* A text, and its last lines once more.
Twice(text) == {text \o SubSeq(text, k, Len(text)) : k \in 1..(Len(text) + 1)}

\* No command deletes, changes or copies a line, and lines are told from what
\* is printed besides.
KeepsLines ==
    /\ ~job.mishaps /\ ~job.inPlace /\ ~job.quiet
    /\ ~Uses({"d", "c", "q", "s", "y", "p", "r"})
    /\ OwnLines \cap InsertedTexts = {} /\ \A x \in OwnLines : x \notin Nat

\* Then, n and N or not, none is lost and all are in order; and none is printed
\* twice, but for those in the pattern space when n finds the end of a file.
NoneLost ==
    (phase = "done" /\ KeepsLines)
        => LET texts == [p \in DOMAIN job.paths |-> TextOf(p)] IN
           /\ \E parts \in [DOMAIN job.paths -> UNION {Twice(texts[p]) : p \in DOMAIN job.paths}] :
                 /\ \A p \in DOMAIN job.paths : parts[p] \in Twice(texts[p])
                 /\ Among(out, OwnLines) = SeqExt!FlattenSeq(parts)
           /\ ~Uses({"n"}) => Among(out, OwnLines) = SeqExt!FlattenSeq(texts)

\* sed prints what its script means for each line, in the dialect of sed.cpp.
AsMeant == LineByLine /\ NoneLost
=============================================================================
