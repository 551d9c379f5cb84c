----------------------------- MODULE FileMoves -----------------------------
(***************************************************************************)
(* `modbox mv`, `cp`, `install` and `rm --trash` of regular files, several *)
(* commands at once: src/src/commands/mv.cpp, cp.cpp, install.cpp, rm.cpp. *)
(*                                                                         *)
(* A name is a path, link[n] the inode it leads to and data[i] what inode  *)
(* i holds: a sequence of chunks, each a buffer's worth of the file it was *)
(* first written in.  Inode f is the file that was named f at the start,   *)
(* inode p the file that command p created.                                *)
(*                                                                         *)
(* A definition Name_Fault is Name with a plausible mistake in it, used    *)
(* only to show which property notices.                                    *)
(***************************************************************************)
EXTENDS Naturals, FiniteSets, Sequences

CONSTANTS
    Names,
    Device,      \* the file system each name is on
    Procs,       \* the commands that run at once
    Scenarios,   \* which files there are, and what each command is told to do
    CallsFail,   \* whether a call may fail for a reason that is not in the model
    None

\* op, source and destination of a command, with its options after one has
\* overridden the other.  spare: the backup DEST~ of -b, or the next name for
\* something in the trash.  ask: -i or -u, so that an answer or the times of
\* the files may have the command leave the destination alone.
Commands == [op : {"mv", "cp", "install", "trash"}, src : Names, to : Names,
             spare : Names, backup : BOOLEAN, force : BOOLEAN,
             noClobber : BOOLEAN, ask : BOOLEAN]
Offered == [mv |-> {"backup", "force", "noClobber", "ask"}, install |-> {"backup"},
            cp |-> {"force", "noClobber", "ask"}, trash |-> {}]

\* The calls that may fail when the names and files would let them succeed, and
\* those among them whose failing does not stop a command that needs them for
\* the data it copies: mv looks neither at fread() nor at fwrite(), and nobody
\* looks at what fclose() says of the last that was buffered.
Calls == {"backup", "unlink", "rename", "open", "read", "write", "remove"}
Unseen == [mv |-> {"read", "write"}, cp |-> {"write"}, install |-> {"write"},
           trash |-> {"write"}]

ASSUME NameAssumption ==
    /\ \A s \in Scenarios : s.files \subseteq Names /\ s.cmd \in [Procs -> Commands]
    /\ \A s \in Scenarios, p \in Procs, x \in {"backup", "force", "noClobber", "ask"} :
          s.cmd[p][x] => x \in Offered[s.cmd[p].op]
    \* DEST~ is another name in the directory of DEST
    /\ \A s \in Scenarios, p \in Procs : s.cmd[p].backup =>
          s.cmd[p].spare # s.cmd[p].to /\ Device[s.cmd[p].spare] = Device[s.cmd[p].to]
    /\ CallsFail \in BOOLEAN
    /\ Names \cap Procs = {} /\ None \notin Names \cup Procs

VARIABLES
    files,    \* the names that led to a file at the start
    cmd,      \* what each command was told
    link,     \* the inode of each name, None if there is no such file
    data,     \* the chunks each inode holds
    pc,       \* where each command is
    saw,      \* whether it found a file at its destination
    target,   \* the name it moves or copies to
    reading,  \* the inode it reads, None if it has none open
    writing,  \* the inode it writes
    done,     \* chunks it has read
    written,  \* chunks it has written
    hurt      \* the calls of it that have failed

vars == <<files, cmd, link, data, pc, saw, target, reading, writing, done, written, hurt>>

Inodes == Names \cup Procs
Chunks == 2
Whole(f) == [k \in 1..Chunks |-> <<f, k>>]
Chunk == (Names \X (1..Chunks)) \cup {<<"hole">>}

Init ==
    /\ \E s \in Scenarios : files = s.files /\ cmd = s.cmd
    /\ link = [n \in Names |-> IF n \in files THEN n ELSE None]
    /\ data = [i \in Inodes |-> IF i \in files THEN Whole(i) ELSE <<>>]
    /\ pc = [p \in Procs |-> "start"]
    /\ saw = [p \in Procs |-> FALSE]
    /\ target = [p \in Procs |-> cmd[p].to]
    /\ reading = [p \in Procs |-> None]
    /\ writing = [p \in Procs |-> None]
    /\ done = [p \in Procs |-> 0]
    /\ written = [p \in Procs |-> 0]
    /\ hurt = [p \in Procs |-> {}]

Goto(p, where) == pc' = [pc EXCEPT ![p] = where]
Exists(n) == link[n] # None
Fails(p, call) == hurt' = [hurt EXCEPT ![p] = @ \cup {call}]

\* rename(2): atomic, and nothing when both names lead to the same file.
Renamed(from, to) ==
    IF link[from] = link[to] THEN link
    ELSE [link EXCEPT ![to] = link[from], ![from] = None]

\* A command looks at its source, and at its destination before it acts.
Look(p) ==
    /\ pc[p] = "start"
    /\ Goto(p, IF Exists(cmd[p].src) THEN "decide" ELSE "failed")
    /\ saw' = [saw EXCEPT ![p] = Exists(cmd[p].to)]
    /\ UNCHANGED <<files, cmd, link, data, target, reading, writing, done, written, hurt>>

\* -n, or -i and -u when the answer or the times say so.
Decline(p) ==
    /\ pc[p] = "decide"
    /\ saw[p] /\ (cmd[p].noClobber \/ cmd[p].ask)
    /\ Goto(p, "declined")
    /\ UNCHANGED <<files, cmd, link, data, saw, target, reading, writing, done, written, hurt>>

AfterBackup(p) ==
    CASE cmd[p].op = "mv" /\ cmd[p].force /\ saw[p] -> "unlink"
      [] cmd[p].op = "mv" /\ ~(cmd[p].force /\ saw[p]) -> "rename"
      [] cmd[p].op = "trash" -> "rename"
      [] OTHER -> "read"

Proceed(p) ==
    /\ pc[p] = "decide"
    /\ ~(saw[p] /\ cmd[p].noClobber)
    /\ Goto(p, IF saw[p] /\ cmd[p].backup THEN "backup" ELSE AfterBackup(p))
    /\ target' = [target EXCEPT ![p] = IF cmd[p].op = "trash" /\ saw[p] THEN cmd[p].spare ELSE @]
    /\ UNCHANGED <<files, cmd, link, data, saw, reading, writing, done, written, hurt>>

\* The old destination becomes DEST~.  install stops if that fails, mv does not
\* look whether it did and goes on to replace what is still there.
Backup(p) ==
    /\ pc[p] = "backup"
    /\ \/ /\ Exists(target[p])
          /\ link' = Renamed(target[p], cmd[p].spare)
          /\ hurt' = hurt
          /\ Goto(p, AfterBackup(p))
       \/ /\ CallsFail \/ ~Exists(target[p])
          /\ link' = link
          /\ Fails(p, "backup")
          /\ Goto(p, IF cmd[p].op = "mv" THEN AfterBackup(p) ELSE "failed")
    /\ UNCHANGED <<files, cmd, data, saw, target, reading, writing, done, written>>

\* mv -f, which does not look at the result either.
Unlink(p) ==
    /\ pc[p] = "unlink"
    /\ \/ link' = [link EXCEPT ![target[p]] = None] /\ hurt' = hurt
       \/ CallsFail /\ link' = link /\ Fails(p, "unlink")
    /\ Goto(p, "rename")
    /\ UNCHANGED <<files, cmd, data, saw, target, reading, writing, done, written>>

Rename_UnlinksFirst(p) ==
    /\ pc[p] = "rename"
    /\ IF Exists(target[p])
       THEN link' = [link EXCEPT ![target[p]] = None] /\ Goto(p, "rename")
       ELSE link' = Renamed(cmd[p].src, target[p]) /\ Goto(p, "ok")
    /\ UNCHANGED <<files, cmd, data, saw, target, reading, writing, done, written, hurt>>

Rename(p) ==
    LET src == cmd[p].src IN
    /\ pc[p] = "rename"
    /\ \/ /\ CASE ~Exists(src) -> link' = link /\ Goto(p, "failed")
               [] Exists(src) /\ Device[src] # Device[target[p]] -> link' = link /\ Goto(p, "read")
               [] OTHER -> link' = Renamed(src, target[p]) /\ Goto(p, "ok")
          /\ hurt' = hurt
       \/ CallsFail /\ link' = link /\ Goto(p, "failed") /\ Fails(p, "rename")
    /\ UNCHANGED <<files, cmd, data, saw, target, reading, writing, done, written>>

(***************************************************************************)
(* Copying, for cp and install and across file systems for the others.     *)
(***************************************************************************)
OpenSource(p) ==
    LET src == cmd[p].src IN
    /\ pc[p] = "read"
    /\ Goto(p, IF Exists(src) THEN "write" ELSE "failed")
    /\ reading' = [reading EXCEPT ![p] = link[src]]
    /\ UNCHANGED <<files, cmd, link, data, saw, target, writing, done, written, hurt>>

\* fopen(dst, "wb") truncates the file that is there or makes a new one.
Opened(p, names) ==
    LET i == IF names[target[p]] # None THEN names[target[p]] ELSE p IN
    /\ link' = [names EXCEPT ![target[p]] = i]
    /\ data' = [data EXCEPT ![i] = <<>>]
    /\ writing' = [writing EXCEPT ![p] = i]
    /\ Goto(p, "copy")

OpenTarget(p) ==
    /\ pc[p] = "write"
    /\ Opened(p, link)
    /\ UNCHANGED <<files, cmd, saw, target, reading, done, written, hurt>>

\* A file cannot be opened.  cp -f then unlinks the destination, without
\* looking whether it did, and tries once more.
OpenFails(p) ==
    LET names == {link, [link EXCEPT ![target[p]] = None]} IN
    /\ CallsFail
    /\ pc[p] \in {"read", "write"}
    /\ Fails(p, "open")
    /\ \/ link' = link /\ UNCHANGED <<data, writing>> /\ Goto(p, "failed")
       \/ /\ pc[p] = "write" /\ cmd[p].op = "cp" /\ cmd[p].force
          /\ \/ \E l \in names : Opened(p, l)
             \/ link' \in names /\ UNCHANGED <<data, writing>> /\ Goto(p, "failed")
    /\ UNCHANGED <<files, cmd, saw, target, reading, done, written>>

MoreToRead(p) == done[p] < Len(data[reading[p]])

Put_Appends(s, k, chunk) == Append(s, chunk)

\* A write at an offset, over a hole if the file has since become shorter.
Put(s, k, chunk) ==
    [j \in 1..(IF k > Len(s) THEN k ELSE Len(s)) |->
        IF j = k THEN chunk ELSE IF j <= Len(s) THEN s[j] ELSE <<"hole">>]

CopyChunk(p) ==
    /\ pc[p] = "copy" /\ MoreToRead(p)
    /\ data' = [data EXCEPT ![writing[p]] = Put(@, written[p] + 1, data[reading[p]][done[p] + 1])]
    /\ done' = [done EXCEPT ![p] = @ + 1]
    /\ written' = [written EXCEPT ![p] = @ + 1]
    /\ UNCHANGED <<files, cmd, link, pc, saw, target, reading, writing, hurt>>

\* mv does not look at what fwrite() returns.  The others stop, unless the
\* chunk was still buffered and only fclose() could have told.
WriteFails(p) ==
    /\ CallsFail
    /\ pc[p] = "copy" /\ MoreToRead(p)
    /\ Fails(p, "write")
    /\ \/ done' = [done EXCEPT ![p] = @ + 1] /\ pc' = pc
       \/ cmd[p].op # "mv" /\ done' = done /\ Goto(p, "failed")
    /\ UNCHANGED <<files, cmd, link, data, saw, target, reading, writing, written>>

IsMove(p) == cmd[p].op \in {"mv", "trash"}

\* Everyone takes a read error for the end of the file.
ReadFails_NotAsked(p) ==
    /\ CallsFail
    /\ pc[p] = "copy"
    /\ Fails(p, "read")
    /\ Goto(p, IF IsMove(p) THEN "remove" ELSE "ok")
    /\ UNCHANGED <<files, cmd, link, data, saw, target, reading, writing, done, written>>

\* mv takes a read error for the end of the file; trash removes its copy if it can.
ReadFails(p) ==
    /\ CallsFail
    /\ pc[p] = "copy"
    /\ Fails(p, "read")
    /\ Goto(p, IF cmd[p].op = "mv" THEN "remove" ELSE "failed")
    /\ \/ link' = link
       \/ cmd[p].op = "trash" /\ link' = [link EXCEPT ![target[p]] = None]
    /\ UNCHANGED <<files, cmd, data, saw, target, reading, writing, done, written>>

EndCopy_AfterOneChunk(p) ==
    /\ pc[p] = "copy" /\ done[p] > 0
    /\ Goto(p, IF IsMove(p) THEN "remove" ELSE "ok")
    /\ UNCHANGED <<files, cmd, link, data, saw, target, reading, writing, done, written, hurt>>

EndCopy(p) ==
    /\ pc[p] = "copy" /\ ~MoreToRead(p)
    /\ Goto(p, IF IsMove(p) THEN "remove" ELSE "ok")
    /\ UNCHANGED <<files, cmd, link, data, saw, target, reading, writing, done, written, hurt>>

\* unlink() of what the source's name leads to by now.  trash does not look at
\* the result: what it could not remove it has copied all the same.
RemoveSource(p) ==
    LET src == cmd[p].src IN
    /\ pc[p] = "remove"
    /\ \/ /\ Exists(src)
          /\ link' = [link EXCEPT ![src] = None]
          /\ hurt' = hurt
          /\ Goto(p, "ok")
       \/ /\ CallsFail \/ ~Exists(src)
          /\ link' = link
          /\ Fails(p, "remove")
          /\ Goto(p, IF cmd[p].op = "trash" THEN "ok" ELSE "failed")
    /\ UNCHANGED <<files, cmd, data, saw, target, reading, writing, done, written>>

Ended == {"ok", "failed", "declined", "crashed"}

\* The command is killed, or the machine stops, between any two calls.
Crash(p) ==
    /\ pc[p] \notin Ended
    /\ Goto(p, "crashed")
    /\ UNCHANGED <<files, cmd, link, data, saw, target, reading, writing, done, written, hurt>>

Step(p) ==
    \/ Look(p) \/ Decline(p) \/ Proceed(p) \/ Backup(p) \/ Unlink(p) \/ Rename(p)
    \/ OpenSource(p) \/ OpenTarget(p) \/ OpenFails(p) \/ CopyChunk(p) \/ WriteFails(p)
    \/ ReadFails(p) \/ EndCopy(p) \/ RemoveSource(p)

Terminated == (\A p \in Procs : pc[p] \in Ended) /\ UNCHANGED vars

Next == (\E p \in Procs : Step(p) \/ Crash(p)) \/ Terminated

Spec == Init /\ [][Next]_vars

----------------------------------------------------------------------------

\* The values each variable ranges over.
TypeOK ==
    /\ files \subseteq Names
    /\ cmd \in [Procs -> Commands]
    /\ link \in [Names -> Inodes \cup {None}]
    /\ data \in [Inodes -> Seq(Chunk)] /\ \A i \in Inodes : Len(data[i]) <= Chunks
    /\ pc \in [Procs -> Ended \cup {"start", "decide", "backup", "unlink", "rename",
                                    "read", "write", "copy", "remove"}]
    /\ saw \in [Procs -> BOOLEAN]
    /\ target \in [Procs -> Names]
    /\ reading \in [Procs -> Inodes \cup {None}]
    /\ writing \in [Procs -> Inodes \cup {None}]
    /\ done \in [Procs -> 0..Chunks] /\ written \in [Procs -> 0..Chunks]
    /\ \A p \in Procs : written[p] <= done[p]
    /\ hurt \in [Procs -> SUBSET Calls]

\* The names a command may change apart from its source.
Destinations(c) == {c.to} \cup (IF c.backup \/ c.op = "trash" THEN {c.spare} ELSE {})

\* Nobody else works on p's names, except that others may have its source too.
Undisturbed(p) ==
    \A q \in Procs \ {p} :
        /\ Destinations(cmd[q]) \cap ({cmd[p].src} \cup Destinations(cmd[p])) = {}
        /\ cmd[q].src \notin Destinations(cmd[p])

HasSource(p) == cmd[p].src \in files \ Destinations(cmd[p])
Survives(f) == \E n \in Names : Exists(n) /\ data[link[n]] = Whole(f)

\* No call has failed on the data that p copies without p looking at it.
NoneUnseen(p) == hurt[p] \cap Unseen[cmd[p].op] = {}
\* mv goes on when DEST could not be renamed to DEST~.
NoBackup(p) == cmd[p].op = "mv" /\ "backup" \in hurt[p]

\* Wherever the commands on a file are stopped, and whatever calls fail, what
\* the file held can still be found whole under some name.  Left out are moves
\* that did not look at a call on the data (MoveKeepsData shows what they lose),
\* and moves whose names others use too.
SourceSurvives ==
    \A p \in Procs :
        (Undisturbed(p) /\ HasSource(p)
            /\ \A q \in Procs : cmd[q].src = cmd[p].src /\ IsMove(q) => NoneUnseen(q) /\ Undisturbed(q))
        => Survives(cmd[p].src)

\* With -b what the destination held can still be found, in DEST or DEST~,
\* unless it is mv that could not make DEST~: it replaces DEST all the same.
BackupSurvives ==
    \A p \in Procs :
        (/\ cmd[p].backup /\ Undisturbed(p) /\ cmd[p].to \in files /\ cmd[p].src # cmd[p].to
         /\ ~NoBackup(p))
        => Survives(cmd[p].to)

\* Neither source nor backup is lost.
FilesSurvive == SourceSurvives /\ BackupSurvives

\* A plain mv on one file system replaces its destination in one step: at no
\* moment, not even after a crash, is it missing or incomplete.
ReplacedAtOnce ==
    \A p \in Procs :
        LET o == cmd[p] IN
        (/\ o.op = "mv" /\ Undisturbed(p) /\ HasSource(p) /\ o.to \in files
         /\ ~o.backup /\ ~o.force /\ Device[o.src] = Device[o.to])
        => /\ Exists(o.to)
           /\ data[link[o.to]] \in {Whole(o.to), Whole(o.src)}

Others(p) == Procs \ {p}
OnlyOneWithSource(p) == \A q \in Others(p) : cmd[q].src # cmd[p].src

\* A command that succeeded did all of it: the destination holds all of the
\* source, and after a move, by rename or by copy, the source is gone.  Calls may
\* have failed, and been made up for or reported by then; left out are commands
\* in which one failed on the data that they do not look at (Unseen: mv returns 0
\* after a read or write error), and the source that trash could not remove.
SuccessIsComplete ==
    \A p \in Procs :
        (pc[p] = "ok" /\ Undisturbed(p) /\ HasSource(p) /\ OnlyOneWithSource(p) /\ NoneUnseen(p))
        => /\ Exists(target[p]) /\ data[link[target[p]]] = Whole(cmd[p].src)
           /\ IsMove(p) /\ "remove" \notin hurt[p] => ~Exists(cmd[p].src)

\* The manual: mv moves SOURCE to DEST, across file systems by copying it and
\* then removing it.  What is moved should not be lost on the way.
MoveKeepsData ==
    \A p \in Procs : cmd[p].op = "mv" /\ HasSource(p) /\ Undisturbed(p) => Survives(cmd[p].src)
=============================================================================
