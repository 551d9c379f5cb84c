-------------------------------- MODULE Sed --------------------------------
(***************************************************************************)
(* src/src/commands/sed.cpp: the cycle that reads lines and runs the       *)
(* script on them, and -i, which replaces files by what it prints.         *)
(*                                                                         *)
(* A line is a value: a letter, a text of the script or, as `=` prints     *)
(* them, a number.  The pattern space is a sequence of lines, more than    *)
(* one after N; a regular expression is a letter to look for.  How scripts *)
(* are parsed is left out.                                                 *)
(*                                                                         *)
(* A definition Name_Fault is Name with a plausible mistake in it, used    *)
(* to see that a property would notice it.                                 *)
(***************************************************************************)
EXTENDS Naturals, Sequences, FiniteSets

CONSTANTS
    Jobs,      \* command lines, and the files there are
    Texts,     \* lines of files, and texts of scripts
    FileNames,     \* of files
    BackupName,    \* the backup's name of each name: its own where -i has no suffix
    Nil

\* The files that a command line edits in place.
Edited(j) == IF j.inPlace THEN {j.paths[i] : i \in DOMAIN j.paths} ELSE {}

Types == {"p", "=", "i", "s", "y", "d", "q", "a", "c", "n", "N", "w", "r"}
AddressTypes == {"NONE", "LINE_NUM", "LAST_LINE", "REGEX", "STEP"}

\* w and r work on other files than -i, w on none that is read as input, and -i
\* on no backup of another file.  Lines and texts are told from what is no file.
ASSUME JobAssumption ==
    /\ BackupName \in [FileNames -> FileNames]
    /\ Nil \notin Seq(Texts \cup Nat) /\ Nil \notin Texts
    /\ \A j \in Jobs :
          /\ j.files \in [FileNames -> {j.files[f] : f \in FileNames}]
          /\ \A f \in FileNames : j.files[f] = Nil \/ j.files[f] \in Seq(Texts)
          /\ j.paths \in Seq(FileNames)
          /\ Len(j.script) \in Nat /\ DOMAIN j.script = 1..Len(j.script)
          /\ \A i \in DOMAIN j.script :
                /\ j.script[i].type \in Types
                /\ j.script[i].has_range \in BOOLEAN /\ j.script[i].negated \in BOOLEAN
                /\ j.script[i].addr1.type \in AddressTypes
                /\ j.script[i].has_range => j.script[i].addr2.type \in AddressTypes
                /\ j.script[i].type \in {"i", "a", "c"} => j.script[i].text \in Texts
                /\ j.script[i].type \in {"s", "y"} => j.script[i].to \in Texts
                /\ j.script[i].type = "s" => j.script[i].nth \in Nat
                /\ j.script[i].type \in {"w", "r"} =>
                      j.script[i].file \in FileNames \ (Edited(j) \cup {BackupName[f] : f \in Edited(j)})
                /\ j.script[i].type = "w" => \A p \in DOMAIN j.paths : j.script[i].file # j.paths[p]
          /\ \A f, g \in Edited(j) : f # g => BackupName[f] \notin {g, BackupName[g]}

VARIABLES
    job,       \* script, quiet (-n), inPlace (-i), mishaps
    disk,      \* name -> the lines of the file, or Nil
    left,      \* paths still to do
    phase,
    unread,    \* lines of the open file that were not read yet
    line_num,
    pattern_space,
    ci,        \* the next command
    range_active,
    deleted, quit, change_text,
    append_queue, read_queue,
    out,       \* lines printed: to standard output, or for -i since it was redirected
    temp,      \* the temporary file of -i
    good,      \* name -> contents it had, and whole results of editing it
    cut        \* files whose result was cut short: unread to the end, or on a full disk

cycle == <<unread, line_num, pattern_space, ci, range_active, deleted, quit, change_text>>
queues == <<append_queue, read_queue>>
edit == <<temp, good, cut>>
sedVars == <<job, disk, left, phase, cycle, queues, out, edit>>

script == job.script
command == script[ci]

SedInit ==
    /\ job \in Jobs
    /\ disk = job.files
    /\ left = job.paths
    /\ phase = "open"
    /\ unread = <<>> /\ line_num = 0 /\ pattern_space = <<>> /\ ci = 1
    /\ range_active = [i \in DOMAIN script |-> FALSE]
    /\ deleted = FALSE /\ quit = FALSE /\ change_text = Nil
    /\ append_queue = <<>> /\ read_queue = <<>>
    /\ out = <<>> /\ temp = Nil /\ cut = {}
    /\ good = [f \in FileNames |-> {disk[f]}]

----------------------------------------------------------------------------
(***************************************************************************)
(* Files.  Each is a stream of its own, with or without -s: line numbers,  *)
(* ranges and `q` are those of the file.                                   *)
(***************************************************************************)
Path == Head(left)

Open ==
    /\ phase = "open" /\ left # <<>> /\ disk[Path] # Nil
    /\ unread' = disk[Path]
    /\ line_num' = 0
    /\ range_active' = [i \in DOMAIN script |-> FALSE]
    /\ out' = IF job.inPlace THEN <<>> ELSE out
    /\ phase' = "read"
    /\ UNCHANGED <<job, disk, left, pattern_space, ci, deleted, quit, change_text, queues, edit>>

\* The file cannot be opened, or for -i there is no temporary file.
Passes ==
    /\ phase = "open" /\ left # <<>>
    /\ disk[Path] = Nil \/ job.mishaps
    /\ left' = Tail(left)
    /\ UNCHANGED <<job, disk, phase, cycle, queues, out, edit>>

Return ==
    /\ phase = "open" /\ left = <<>>
    /\ phase' = "done"
    /\ UNCHANGED <<job, disk, left, cycle, queues, out, edit>>

----------------------------------------------------------------------------
(***************************************************************************)
(* The cycle: read a line, run the commands that its address selects, and  *)
(* print.                                                                  *)
(***************************************************************************)
ReadLine ==
    /\ phase = "read" /\ unread # <<>>
    /\ line_num' = line_num + 1
    /\ pattern_space' = <<Head(unread)>>
    /\ unread' = Tail(unread)
    /\ deleted' = FALSE /\ quit' = FALSE /\ change_text' = Nil
    /\ ci' = 1
    /\ phase' = "run"
    /\ UNCHANGED <<job, disk, left, range_active, queues, out, edit>>

Holds(x, space) == \E i \in DOMAIN space : space[i] = x

\* The line number is not advanced by N; the last line is that of the file.
Matches(addr) ==
    CASE addr.type = "NONE" -> TRUE
      [] addr.type = "LINE_NUM" -> line_num = addr.line_num
      [] addr.type = "LAST_LINE" -> unread = <<>>
      [] addr.type = "REGEX" -> Holds(addr.x, pattern_space)
      [] addr.type = "STEP" ->
            /\ addr.line_num > 0 /\ addr.step > 0 /\ line_num >= addr.line_num
            /\ (line_num - addr.line_num) % addr.step = 0

InRange == range_active[ci] \/ Matches(command.addr1)
Selects == IF command.has_range THEN InRange ELSE Matches(command.addr1)
ShouldExecute == Selects # command.negated

\* The end of a range counts on its first line as well.
StaysActive_NextLine ==
    command.has_range /\ InRange /\ (range_active[ci] => ~Matches(command.addr2))

StaysActive == command.has_range /\ InRange /\ ~Matches(command.addr2)

\* The next command is looked at: what becomes of its range, and of itself.
At(t) ==
    /\ phase = "run" /\ ci <= Len(script) /\ ~deleted /\ ~quit
    /\ command.type = t /\ ShouldExecute
    /\ range_active' = [range_active EXCEPT ![ci] = StaysActive]
    /\ ci' = ci + 1
    /\ UNCHANGED <<job, left, phase, edit>>

Skip ==
    /\ phase = "run" /\ ci <= Len(script) /\ ~deleted /\ ~quit
    /\ ~ShouldExecute
    /\ range_active' = [range_active EXCEPT ![ci] = StaysActive]
    /\ ci' = ci + 1
    /\ UNCHANGED <<job, disk, left, phase, unread, line_num, pattern_space, deleted, quit, change_text,
                   queues, out, edit>>

\* Nothing but ci and range_active changes in the cycle, apart from these.
Keep == UNCHANGED <<unread, line_num>>
KeepFlags == UNCHANGED <<deleted, quit, change_text>>

\* p, = and i
Prints ==
    /\ \/ At("p") /\ out' = out \o pattern_space
       \/ At("=") /\ out' = Append(out, line_num)
       \/ At("i") /\ out' = Append(out, command.text)
    /\ Keep /\ KeepFlags /\ UNCHANGED <<disk, pattern_space, queues>>

\* The places s/// replaces: all, or the one with that number, from 0.
Places(space) ==
    LET all == {i \in DOMAIN space : space[i] = command.from} IN
    IF command.global THEN all ELSE {i \in all : Cardinality({j \in all : j < i}) = command.nth}
Replaced(space, places) == [i \in DOMAIN space |-> IF i \in places THEN command.to ELSE space[i]]

\* s///: whether it replaced is seen from the result, but for a number above 1.
Substitute ==
    LET places == Places(pattern_space)
        result == Replaced(pattern_space, places)
        count == IF ~command.global /\ command.nth > 0 THEN places # {} ELSE result # pattern_space
    IN  /\ At("s")
        /\ pattern_space' = IF count THEN result ELSE pattern_space
        /\ out' = IF count /\ command.print THEN out \o result ELSE out
        /\ Keep /\ KeepFlags /\ UNCHANGED <<disk, queues>>

Transliterate ==
    /\ At("y")
    /\ pattern_space' = Replaced(pattern_space, {i \in DOMAIN pattern_space : pattern_space[i] = command.from})
    /\ Keep /\ KeepFlags /\ UNCHANGED <<disk, out, queues>>

Delete ==
    /\ At("d")
    /\ deleted' = TRUE
    /\ Keep /\ UNCHANGED <<disk, pattern_space, quit, change_text, out, queues>>

Quit ==
    /\ At("q")
    /\ quit' = TRUE
    /\ Keep /\ UNCHANGED <<disk, pattern_space, deleted, change_text, out, queues>>

AppendText ==
    /\ At("a")
    /\ append_queue' = Append(append_queue, command.text)
    /\ Keep /\ KeepFlags /\ UNCHANGED <<disk, pattern_space, out, read_queue>>

\* c does not end the cycle.
Change ==
    /\ At("c")
    /\ change_text' = command.text
    /\ Keep /\ UNCHANGED <<disk, pattern_space, deleted, quit, out, queues>>

\* n and N at the end of the file quit, so that n prints the last line twice.
NextLine ==
    /\ At("n")
    /\ out' = IF job.quiet THEN out ELSE out \o pattern_space
    /\ IF unread = <<>>
       THEN quit' = TRUE /\ UNCHANGED <<unread, line_num, pattern_space>>
       ELSE /\ line_num' = line_num + 1
            /\ pattern_space' = <<Head(unread)>>
            /\ unread' = Tail(unread)
            /\ quit' = quit
    /\ UNCHANGED <<disk, deleted, change_text, queues>>

NextAppend ==
    /\ At("N")
    /\ IF unread = <<>>
       THEN quit' = TRUE /\ UNCHANGED <<unread, pattern_space>>
       ELSE /\ pattern_space' = Append(pattern_space, Head(unread))
            /\ unread' = Tail(unread)
            /\ quit' = quit
    /\ UNCHANGED <<disk, line_num, deleted, change_text, out, queues>>

\* w appends to its file each time.
WriteTo ==
    /\ At("w")
    /\ \/ disk' = [disk EXCEPT ![command.file] = (IF @ = Nil THEN <<>> ELSE @) \o pattern_space]
       \/ job.mishaps /\ UNCHANGED disk
    /\ Keep /\ KeepFlags /\ UNCHANGED <<pattern_space, out, queues>>

\* r takes what the file holds now.
ReadFrom ==
    /\ At("r")
    /\ read_queue' = IF disk[command.file] = Nil THEN read_queue ELSE read_queue \o disk[command.file]
    /\ Keep /\ KeepFlags /\ UNCHANGED <<disk, pattern_space, out, append_queue>>

\* What the cycle prints at its end, before what a and r have queued.
LastPrinted ==
    IF job.quiet \/ deleted THEN <<>>
    ELSE IF change_text # Nil THEN <<change_text>> ELSE pattern_space

EndCycle_KeepsQueue ==
    /\ phase = "run" /\ (ci > Len(script) \/ deleted \/ quit)
    /\ out' = out \o LastPrinted \o append_queue \o read_queue
    /\ read_queue' = <<>>
    /\ phase' = IF quit THEN "eof" ELSE "read"
    /\ UNCHANGED <<job, disk, left, cycle, append_queue, edit>>

EndCycle ==
    /\ phase = "run" /\ (ci > Len(script) \/ deleted \/ quit)
    /\ out' = out \o LastPrinted \o append_queue \o read_queue
    /\ append_queue' = <<>> /\ read_queue' = <<>>
    /\ phase' = IF quit THEN "eof" ELSE "read"
    /\ UNCHANGED <<job, disk, left, cycle, edit>>

\* Reading fails from here on, which sed takes for the end of the file: it gets what
\* stdio had read ahead, which ends within a line and is nothing only at the start.
ReadError ==
    /\ job.mishaps
    /\ phase \in {"read", "run"} /\ unread # <<>>
    /\ \/ line_num = 0 /\ unread' = <<>>
       \/ \E x \in Texts : unread' = <<x>>
    /\ cut' = cut \cup {Path}
    /\ UNCHANGED <<job, disk, left, phase, line_num, pattern_space, ci, range_active, deleted, quit,
                   change_text, queues, out, temp, good>>

EndOfFile ==
    /\ phase = "read" /\ unread = <<>>
    /\ phase' = "eof"
    /\ UNCHANGED <<job, disk, left, cycle, queues, out, edit>>

----------------------------------------------------------------------------
(***************************************************************************)
(* -i: the result goes to a temporary file, which then gets the file's     *)
(* name.  No call's result is looked at.                                   *)
(***************************************************************************)
NextFile ==
    /\ phase = "eof" /\ ~job.inPlace
    /\ left' = Tail(left)
    /\ phase' = "open"
    /\ UNCHANGED <<job, disk, cycle, queues, out, edit>>

Flush_Partly ==
    /\ phase = "eof" /\ job.inPlace
    /\ \E k \in 0..Len(out) : temp' = SubSeq(out, 1, k)
    /\ good' = [good EXCEPT ![Path] = @ \cup {out}]
    /\ phase' = "backup"
    /\ UNCHANGED <<job, disk, left, cycle, queues, out, cut>>

Flush ==
    /\ phase = "eof" /\ job.inPlace
    /\ \/ temp' = out /\ cut' = cut
       \/ job.mishaps /\ cut' = cut \cup {Path} /\ \E k \in 0..Len(out) : temp' = SubSeq(out, 1, k)
    /\ good' = IF Path \in cut' THEN good ELSE [good EXCEPT ![Path] = @ \cup {out}]
    /\ phase' = "backup"
    /\ UNCHANGED <<job, disk, left, cycle, queues, out>>

\* rename(): a mishap may keep it from happening.
RenameOver(from, to) ==
    \/ from # to /\ disk[from] # Nil /\ disk' = [disk EXCEPT ![to] = disk[from], ![from] = Nil]
    \/ (from = to \/ disk[from] = Nil \/ job.mishaps) /\ UNCHANGED disk

BackUp ==
    /\ phase = "backup"
    /\ RenameOver(Path, BackupName[Path])
    /\ phase' = "replace"
    /\ UNCHANGED <<job, left, cycle, queues, out, edit>>

\* It also fails where /tmp is another file system.
Replace ==
    /\ phase = "replace"
    /\ \/ disk' = [disk EXCEPT ![Path] = temp] /\ temp' = Nil
       \/ job.mishaps /\ UNCHANGED <<disk, temp>>
    /\ left' = Tail(left)
    /\ phase' = "open"
    /\ UNCHANGED <<job, cycle, queues, out, good, cut>>

Kill ==
    /\ job.mishaps /\ phase # "done"
    /\ phase' = "done"
    /\ UNCHANGED <<job, disk, left, cycle, queues, out, edit>>

Files == Open \/ Passes \/ Return \/ EndOfFile \/ NextFile
ScriptStep ==
    \/ Skip \/ Prints \/ Substitute \/ Transliterate \/ Delete \/ Quit \/ AppendText \/ Change
    \/ NextLine \/ NextAppend \/ WriteTo \/ ReadFrom
InPlace == Flush \/ BackUp \/ Replace

SedTerminated == phase = "done" /\ UNCHANGED sedVars

SedNext == Files \/ ReadLine \/ ScriptStep \/ EndCycle \/ InPlace \/ ReadError \/ Kill \/ SedTerminated

SedSpec == SedInit /\ [][SedNext]_sedVars

----------------------------------------------------------------------------

\* The values each variable ranges over.
SedTypeOK ==
    /\ job \in Jobs
    /\ DOMAIN disk = FileNames
    /\ phase \in {"open", "read", "run", "eof", "backup", "replace", "done"}
    /\ line_num \in Nat
    /\ ci \in 1..(Len(script) + 1)
    /\ range_active \in [DOMAIN script -> BOOLEAN]
    /\ deleted \in BOOLEAN /\ quit \in BOOLEAN /\ cut \subseteq FileNames
    /\ phase \notin {"run", "done"} => append_queue = <<>> /\ read_queue = <<>>
    /\ phase \in {"read", "run", "eof", "backup", "replace"} => left # <<>>

\* While files are edited in place, and wherever that is stopped, each can be
\* found whole, as it was or as it was to become, under its own name or that
\* of its backup; unless the disk was full when its result was written out, or
\* reading it failed, neither of which sed looks at (sed.cpp 1069, 1415).
EditKept ==
    \A f \in Edited(job) \ cut : \E n \in {f, BackupName[f]} : disk[n] \in good[f]
=============================================================================
