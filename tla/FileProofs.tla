----------------------------- MODULE FileProofs -----------------------------
(***************************************************************************)
(* Proofs about the commands that put a file in the place of another.      *)
(*                                                                         *)
(* FileMoves, for any number of commands with any operands and options:    *)
(* what they are given survives them, a plain mv is atomic, and success    *)
(* means that all was done.                                                *)
(*                                                                         *)
(* Sed, for any script, files and options: the typing invariant, and that  *)
(* editing in place keeps a whole version of every file.  For the latter   *)
(* it takes more than EditKept: what is not under the file's name must be  *)
(* under the backup's, and what is about to get the file's name must be    *)
(* whole.                                                                  *)
(*                                                                         *)
(* And that sed does what its script means.  ByMeaning says at every step  *)
(* what has been printed and what each file holds: what SedMeaning gives   *)
(* for the files, lines and commands so far.  ByOrder says, of the scripts *)
(* with n and N that the meaning does not take line by line, which lines   *)
(* are printed and which are still in hand.                                *)
(***************************************************************************)
EXTENDS FileMoves, SedMeaning, SequenceTheorems, NaturalsInduction, WellFoundedInduction,
        TLAPS

Dest(p) == Destinations(cmd[p])
Src(p) == cmd[p].src

\* No command has f as its destination or backup: f can only go away.
Protected(f) == f \in files /\ \A q \in Procs : f \notin Dest(q)

\* What inode i held at the start is still in it, and nobody has it open for writing.
Intact(i) == data[i] = Whole(i) /\ \A q \in Procs : writing[q] # i

Locations ==
    \A p \in Procs :
        /\ target[p] \in Dest(p)
        /\ cmd[p].op # "trash" \/ pc[p] \in {"start", "decide"} => target[p] = cmd[p].to
        /\ pc[p] \in {"write", "copy"} => reading[p] \in Inodes
        /\ pc[p] = "copy" => writing[p] \in Inodes
        /\ pc[p] = "backup" => cmd[p].backup
        /\ pc[p] = "unlink" => cmd[p].op = "mv" /\ cmd[p].force
        /\ pc[p] \in {"rename", "remove"} => IsMove(p)

\* No inode has two names, and the inode a command will create has none.
Injective == \A m, n \in Names : link[m] = link[n] /\ link[m] # None => m = n
Fresh ==
    \A p \in Procs :
        /\ pc[p] \in {"start", "decide", "backup", "unlink", "rename", "read", "write"} => writing[p] = None
        /\ writing[p] = None => (\A n \in Names : link[n] # p) /\ (\A q \in Procs : writing[q] # p)

\* A protected file is untouched while its name leads to it; only a move that
\* came to its end takes the name away.
Sources ==
    \A f \in files : Protected(f) =>
        /\ (link[f] = f /\ Intact(f)) \/ link[f] = None
        /\ link[f] = None => \E m \in Procs : Src(m) = f /\ IsMove(m) /\ pc[m] = "ok"

----------------------------------------------------------------------------
\* A plain mv on one file system over a file.
PlainMove(p) ==
    /\ cmd[p].op = "mv" /\ Undisturbed(p) /\ HasSource(p) /\ cmd[p].to \in files
    /\ ~cmd[p].backup /\ ~cmd[p].force /\ Device[Src(p)] = Device[cmd[p].to]

Replacing ==
    \A p \in Procs : PlainMove(p) =>
        /\ pc[p] \in {"start", "decide", "rename"} \cup Ended
        /\ \E i \in {cmd[p].to, Src(p)} : link[cmd[p].to] = i /\ Intact(i)

\* Only mv and install have a backup, and it is another name beside DEST.
BesideDest ==
    \A p \in Procs : cmd[p].backup =>
        /\ cmd[p].op \in {"mv", "install"} /\ cmd[p].spare # cmd[p].to
        /\ Device[cmd[p].spare] = Device[cmd[p].to]

\* A command with -b over a file.
BacksUp(p) == cmd[p].backup /\ Undisturbed(p) /\ cmd[p].to \in files /\ Src(p) # cmd[p].to

Backups ==
    \A p \in Procs : BacksUp(p) /\ ~NoBackup(p) =>
        LET t == cmd[p].to IN
        /\ Intact(t)
        /\ link[t] = t \/ link[cmd[p].spare] = t
        /\ pc[p] \in {"start", "decide", "backup"} => link[t] = t
        /\ pc[p] = "decide" => saw[p]
        /\ pc[p] \in {"unlink", "rename", "read", "write", "copy", "remove"} => link[cmd[p].spare] = t
        /\ pc[p] \in {"read", "write", "copy", "remove"} /\ cmd[p].op = "mv" => Src(p) # cmd[p].spare

----------------------------------------------------------------------------
\* A source that only moves with names of their own take away.
Safe(f) ==
    /\ Protected(f)
    /\ \A q \in Procs : Src(q) = f /\ IsMove(q) => Undisturbed(q)

\* It stays what it was, and has no name but its own and that of a finished move.
Lasting ==
    \A f \in files : Safe(f) =>
        /\ Intact(f)
        /\ \A n \in Names : n # f /\ link[n] = f =>
              \E m \in Procs : Src(m) = f /\ IsMove(m) /\ pc[m] = "ok" /\ target[m] = n

\* A command that is alone with its names and whose source is safe.
Alone(p) == Undisturbed(p) /\ Safe(Src(p))

\* Nobody else has what its names lead to open for writing.
Unshared ==
    \A p \in Procs : Alone(p) =>
        \A n \in Dest(p), q \in Procs \ {p} : link[n] # None => writing[q] # link[n]

Copied(f, k) == [j \in 1..k |-> <<f, j>>]
HasCopied(p) ==
    LET i == link[target[p]] IN
    /\ i # None /\ writing[p] = i /\ i # Src(p)
    /\ written[p] = done[p] /\ data[i] = Copied(Src(p), done[p])

Progress ==
    \A p \in Procs : Alone(p) /\ NoneUnseen(p) =>
        /\ pc[p] \in {"start", "decide", "backup", "unlink", "rename", "read", "write"} =>
              done[p] = 0 /\ written[p] = 0
        /\ pc[p] \in {"write", "copy"} => reading[p] = Src(p)
        /\ pc[p] \in {"copy", "remove"} => HasCopied(p)
        /\ pc[p] = "remove" => done[p] = Chunks
        /\ pc[p] = "ok" =>
              /\ Exists(target[p]) /\ data[link[target[p]]] = Whole(Src(p))
              /\ IsMove(p) /\ "remove" \notin hurt[p] => link[Src(p)] = None

Order == Locations /\ Injective /\ Fresh
Copying == Lasting /\ Unshared /\ Progress
Inv == TypeOK /\ Order /\ Sources /\ Replacing /\ BesideDest /\ Backups /\ Copying

----------------------------------------------------------------------------
(***************************************************************************)
(* Types.                                                                  *)
(***************************************************************************)
LEMMA Sized ==
    ASSUME NEW S, NEW n \in Nat, NEW s \in [1..n -> S]
    PROVE  s \in Seq(S) /\ Len(s) = n
PROOF
  <1>1. s \in Seq(S)  BY SeqDef
  <1>2. Len(s) \in Nat /\ DOMAIN s = 1..Len(s)  BY <1>1, LenProperties
  <1>3. 1..n = 1..Len(s)  BY <1>2
  <1>4. QED  BY <1>1, <1>2, <1>3

LEMMA Constants ==
    /\ Names \cap Procs = {} /\ None \notin Inodes /\ Chunks = 2
    /\ <<>> \in Seq(Chunk) /\ Len(<<>>) = 0
    /\ \A f \in Names : Whole(f) \in Seq(Chunk) /\ Len(Whole(f)) = 2 /\ Whole(f) # <<>>
PROOF
  <1>1. Names \cap Procs = {} /\ None \notin Inodes  BY NameAssumption DEF Inodes
  <1>2. <<>> \in Seq(Chunk) /\ Len(<<>>) = 0  BY EmptySeq
  <1>3. ASSUME NEW f \in Names
        PROVE  Whole(f) \in Seq(Chunk) /\ Len(Whole(f)) = 2 /\ Whole(f) # <<>>
    <2>1. ASSUME NEW k \in 1..2  PROVE <<f, k>> \in Chunk  BY DEF Chunk, Chunks
    <2>2. Whole(f) \in [1..2 -> Chunk]  BY <2>1 DEF Whole, Chunks
    <2>3. Whole(f) \in Seq(Chunk) /\ Len(Whole(f)) = 2  BY <2>2, Sized, Zenon
    <2>4. QED  BY <2>3, <1>2
  <1>4. QED  BY <1>1, <1>2, <1>3 DEF Chunks

\* A write at an offset that is no further than a file's limit keeps to it.
LEMMA PutType ==
    ASSUME NEW s \in Seq(Chunk), Len(s) <= 2, NEW k \in 1..2, NEW c \in Chunk
    PROVE  Put(s, k, c) \in Seq(Chunk) /\ Len(Put(s, k, c)) <= 2
PROOF
  <1> DEFINE m == IF k > Len(s) THEN k ELSE Len(s)
  <1>1. Len(s) \in Nat /\ s \in [1..Len(s) -> Chunk]  BY LenProperties
  <1>2. m \in Nat /\ m <= 2  BY <1>1
  <1>3. <<"hole">> \in Chunk  BY DEF Chunk
  <1>4. ASSUME NEW j \in 1..m
        PROVE (IF j = k THEN c ELSE IF j <= Len(s) THEN s[j] ELSE <<"hole">>) \in Chunk
    <2>1. j <= Len(s) => s[j] \in Chunk  BY <1>1
    <2>2. QED  BY <1>3, <2>1
  <1>5. Put(s, k, c) \in [1..m -> Chunk]  BY <1>4 DEF Put
  <1>6. Put(s, k, c) \in Seq(Chunk) /\ Len(Put(s, k, c)) = m
    <2> HIDE DEF m
    <2>1. QED  BY <1>2, <1>5, Sized
  <1>7. QED  BY <1>2, <1>6

\* What a command is told stays in its range.
LEMMA CommandType ==
    ASSUME TypeOK, NEW p \in Procs
    PROVE  /\ Src(p) \in Names /\ cmd[p].to \in Names /\ cmd[p].spare \in Names
           /\ Dest(p) \subseteq Names /\ target[p] \in Names
           /\ cmd[p].op \in {"mv", "cp", "install", "trash"}
           /\ cmd[p].backup \in BOOLEAN /\ cmd[p].force \in BOOLEAN
PROOF
  BY DEF TypeOK, Commands, Src, Dest, Destinations

LEMMA TypeInit == Init => TypeOK
PROOF
  <1> SUFFICES ASSUME Init  PROVE TypeOK
    OBVIOUS
  <1>1. PICK s \in Scenarios : files = s.files /\ cmd = s.cmd  BY DEF Init
  <1>2. files \subseteq Names /\ cmd \in [Procs -> Commands]  BY <1>1, NameAssumption
  <1>3. link \in [Names -> Inodes \cup {None}]  BY DEF Init, Inodes
  <1>4. ASSUME NEW i \in Inodes
        PROVE  /\ (IF i \in files THEN Whole(i) ELSE <<>>) \in Seq(Chunk)
               /\ Len(IF i \in files THEN Whole(i) ELSE <<>>) <= Chunks
    <2>1. CASE i \in files
      <3>1. i \in Names  BY <2>1, <1>2
      <3>2. Whole(i) \in Seq(Chunk) /\ Len(Whole(i)) = 2  BY <3>1, Constants
      <3>3. QED  BY <2>1, <3>2 DEF Chunks
    <2>2. CASE i \notin files  BY <2>2, Constants
    <2>3. QED  BY <2>1, <2>2
  <1>5. data \in [Inodes -> Seq(Chunk)] /\ \A i \in Inodes : Len(data[i]) <= Chunks
    BY <1>4 DEF Init
  <1>6. \A p \in Procs : cmd[p].to \in Names  BY <1>2 DEF Commands
  <1>7. QED  BY <1>2, <1>3, <1>5, <1>6 DEF Init, TypeOK, Chunks, Ended

\* The next chunk fits in the inode it is written to.
LEMMA ChunkType ==
    ASSUME TypeOK, Locations, NEW p \in Procs, CopyChunk(p)
    PROVE  /\ reading[p] \in Inodes /\ writing[p] \in Inodes
           /\ done[p] + 1 \in 1..2 /\ written[p] + 1 \in 1..2
           /\ data[reading[p]][done[p] + 1] \in Chunk
           /\ data' \in [Inodes -> Seq(Chunk)] /\ \A i \in Inodes : Len(data'[i]) <= 2
PROOF
  <1>1. reading[p] \in Inodes /\ writing[p] \in Inodes  BY DEF Locations, CopyChunk
  <1>2. data[reading[p]] \in Seq(Chunk) /\ data[writing[p]] \in Seq(Chunk)
    BY <1>1 DEF TypeOK
  <1>3. Len(data[reading[p]]) <= 2 /\ Len(data[writing[p]]) <= 2
    BY <1>1 DEF TypeOK, Chunks
  <1>4. done[p] \in 0..2 /\ written[p] \in 0..2 /\ written[p] <= done[p]
    BY DEF TypeOK, Chunks
  <1>5. done[p] < Len(data[reading[p]])  BY DEF CopyChunk, MoreToRead
  <1>6. Len(data[reading[p]]) \in Nat  BY <1>2, LenProperties
  <1>7. done[p] + 1 \in 1..Len(data[reading[p]]) /\ written[p] + 1 \in 1..2
    BY <1>3, <1>4, <1>5, <1>6
  <1>8. data[reading[p]][done[p] + 1] \in Chunk  BY <1>2, <1>7, ElementOfSeq
  <1> DEFINE new == Put(data[writing[p]], written[p] + 1, data[reading[p]][done[p] + 1])
  <1>9. new \in Seq(Chunk) /\ Len(new) <= 2  BY <1>2, <1>3, <1>7, <1>8, PutType, Zenon
  <1> HIDE DEF new
  <1>10. data' = [data EXCEPT ![writing[p]] = new]  BY DEF CopyChunk, new
  <1>11. data' \in [Inodes -> Seq(Chunk)] /\ \A i \in Inodes : Len(data'[i]) <= 2
    BY <1>1, <1>9, <1>10 DEF TypeOK, Chunks
  <1>12. QED  BY <1>1, <1>3, <1>6, <1>7, <1>8, <1>11

\* What is open for writing afterwards, and what it holds.
LEMMA OpenedType ==
    ASSUME TypeOK, NEW p \in Procs, NEW l \in [Names -> Inodes \cup {None}], Opened(p, l)
    PROVE  /\ link' \in [Names -> Inodes \cup {None}]
           /\ data' \in [Inodes -> Seq(Chunk)] /\ \A i \in Inodes : Len(data'[i]) <= Chunks
           /\ writing' \in [Procs -> Inodes \cup {None}]
           /\ pc' = [pc EXCEPT ![p] = "copy"]
PROOF
  <1> DEFINE i == IF l[target[p]] # None THEN l[target[p]] ELSE p
  <1>1. i \in Inodes  BY CommandType DEF Inodes
  <1>2. /\ link' = [l EXCEPT ![target[p]] = i] /\ data' = [data EXCEPT ![i] = <<>>]
        /\ writing' = [writing EXCEPT ![p] = i] /\ pc' = [pc EXCEPT ![p] = "copy"]
    BY DEF Opened, Goto
  <1> HIDE DEF i
  <1>3. QED  BY <1>1, <1>2, CommandType, Constants DEF TypeOK

\* The ways in which an opening can fail.
LEMMA OpenFailing ==
    ASSUME TypeOK, NEW p \in Procs, OpenFails(p)
    PROVE  \/ /\ link' \in {link, [link EXCEPT ![target[p]] = None]} /\ data' = data
              /\ writing' = writing /\ Goto(p, "failed")
              /\ link' \in [Names -> Inodes \cup {None}]
              /\ link' # link => pc[p] = "write"
           \/ /\ pc[p] = "write"
              /\ \E l \in {link, [link EXCEPT ![target[p]] = None]} :
                    Opened(p, l) /\ l \in [Names -> Inodes \cup {None}]
PROOF
  <1>1. \A l \in {link, [link EXCEPT ![target[p]] = None]} : l \in [Names -> Inodes \cup {None}]
    BY CommandType DEF TypeOK
  <1>2. QED  BY <1>1 DEF OpenFails

LEMMA HurtType ==
    ASSUME TypeOK, NEW p \in Procs, Step(p) \/ Crash(p)
    PROVE  hurt' \in [Procs -> SUBSET Calls]
PROOF
  <1>1. hurt \in [Procs -> SUBSET Calls]  BY DEF TypeOK
  <1>2. CASE hurt' = hurt  BY <1>1, <1>2
  <1>3. ASSUME NEW call \in Calls, Fails(p, call)  PROVE hurt' \in [Procs -> SUBSET Calls]
    BY <1>1, <1>3 DEF Fails
  <1>4. \/ hurt' = hurt
        \/ \E call \in {"backup", "unlink", "rename", "open", "read", "write", "remove"} :
              Fails(p, call)
    BY DEF Step, Crash, Look, Decline, Proceed, Backup, Unlink, Rename, OpenSource, OpenTarget,
           OpenFails, CopyChunk, WriteFails, ReadFails, EndCopy, RemoveSource
  <1>5. QED  BY <1>2, <1>3, <1>4 DEF Calls

LEMMA TypeStep ==
    ASSUME TypeOK, Locations, NEW p \in Procs, Step(p) \/ Crash(p)
    PROVE  TypeOK'
PROOF
  <1>0. hurt' \in [Procs -> SUBSET Calls]  BY HurtType
  <1> USE CommandType, <1>0 DEF TypeOK, Goto, Ended
  <1>1. CASE Look(p)  BY <1>1 DEF Look, Exists
  <1>2. CASE Decline(p)  BY <1>2 DEF Decline
  <1>3. CASE Proceed(p)  BY <1>3 DEF Proceed, AfterBackup
  <1>4. CASE Backup(p)  BY <1>4, ZenonT(30) DEF Backup, AfterBackup, Renamed, Exists
  <1>5. CASE Unlink(p)  BY <1>5 DEF Unlink
  <1>6. CASE Rename(p)  BY <1>6, Zenon DEF Rename, Renamed, Exists, Src
  <1>7. CASE OpenSource(p)  BY <1>7 DEF OpenSource, Src
  <1>8. CASE OpenTarget(p)
    <2>1. \E l \in [Names -> Inodes \cup {None}] : Opened(p, l)
      BY <1>8, Zenon DEF OpenTarget
    <2>2. QED  BY <1>8, <2>1, OpenedType DEF OpenTarget
  <1>9. CASE OpenFails(p)
    <2>1. \/ /\ link' \in [Names -> Inodes \cup {None}] /\ data' = data /\ writing' = writing
             /\ Goto(p, "failed")
          \/ \E l \in [Names -> Inodes \cup {None}] : Opened(p, l)
      BY <1>9, OpenFailing
    <2>2. UNCHANGED <<files, cmd, saw, target, reading, done, written>>
      BY <1>9 DEF OpenFails
    <2>3. CASE link' \in [Names -> Inodes \cup {None}] /\ data' = data /\ writing' = writing
                 /\ Goto(p, "failed")
      BY <2>2, <2>3
    <2>4. CASE \E l \in [Names -> Inodes \cup {None}] : Opened(p, l)
      BY <2>2, <2>4, OpenedType
    <2>5. QED  BY <2>1, <2>3, <2>4
  <1>10. CASE CopyChunk(p)
    <2>1. data' \in [Inodes -> Seq(Chunk)] /\ \A i \in Inodes : Len(data'[i]) <= Chunks
      BY <1>10, ChunkType DEF Chunks
    <2>2. done[p] + 1 \in 0..Chunks /\ written[p] + 1 \in 0..Chunks
      BY <1>10, ChunkType DEF Chunks
    <2>3. QED  BY <1>10, <2>1, <2>2 DEF CopyChunk, Chunks
  <1>11. CASE WriteFails(p)
    <2>1. reading[p] \in Inodes  BY <1>11 DEF WriteFails, Locations
    <2>2. data[reading[p]] \in Seq(Chunk) /\ Len(data[reading[p]]) <= 2
      BY <2>1 DEF Chunks
    <2>3. Len(data[reading[p]]) \in Nat  BY <2>2, LenProperties
    <2>4. done[p] + 1 \in 0..Chunks
      <3>1. done[p] < Len(data[reading[p]])  BY <1>11 DEF WriteFails, MoreToRead
      <3>2. done[p] \in Nat  BY DEF Chunks
      <3>3. QED  BY ONLY <2>2, <2>3, <3>1, <3>2 DEF Chunks
    <2>5. CASE done' = [done EXCEPT ![p] = @ + 1] /\ pc' = pc
      <3>1. done' \in [Procs -> 0..Chunks]  BY <2>4, <2>5
      <3>2. ASSUME NEW q \in Procs  PROVE written'[q] <= done'[q]
        <4>1. written'[q] = written[q]  BY <1>11 DEF WriteFails
        <4>2. done[q] \in 0..2 /\ written[q] \in 0..2 /\ written[q] <= done[q]  BY DEF Chunks
        <4>3. done'[q] = done[q] \/ done'[q] = done[q] + 1  BY <2>5
        <4>4. QED  BY ONLY <4>1, <4>2, <4>3
      <3>3. QED  BY <1>11, <2>5, <3>1, <3>2 DEF WriteFails
    <2>6. CASE done' = done /\ Goto(p, "failed")  BY <1>11, <2>6 DEF WriteFails
    <2>7. QED  BY <1>11, <2>5, <2>6 DEF WriteFails
  <1>12. CASE ReadFails(p)  BY <1>12 DEF ReadFails
  <1>13. CASE EndCopy(p)  BY <1>13 DEF EndCopy
  <1>14. CASE RemoveSource(p)  BY <1>14 DEF RemoveSource, Src
  <1>15. CASE Crash(p)  BY <1>15 DEF Crash
  <1>16. QED
    BY <1>1, <1>2, <1>3, <1>4, <1>5, <1>6, <1>7, <1>8, <1>9, <1>10, <1>11, <1>12,
       <1>13, <1>14, <1>15, Zenon DEF Step

----------------------------------------------------------------------------
(***************************************************************************)
(* What one command's step does, however it is called.                     *)
(***************************************************************************)
Before == {"start", "decide", "backup", "unlink", "rename", "read", "write"}

\* The others keep what is their own.
Frame(p) ==
    /\ files' = files /\ cmd' = cmd
    /\ \A q \in Procs \ {p} :
          /\ pc'[q] = pc[q] /\ saw'[q] = saw[q] /\ target'[q] = target[q]
          /\ reading'[q] = reading[q] /\ writing'[q] = writing[q]
          /\ done'[q] = done[q] /\ written'[q] = written[q] /\ hurt'[q] = hurt[q]

LEMMA FrameStep ==
    ASSUME TypeOK, NEW p \in Procs, Step(p) \/ Crash(p)
    PROVE  Frame(p) /\ pc[p] \notin Ended /\ hurt[p] \subseteq hurt'[p]
PROOF
  <1>1. Frame(p)
    BY DEF Frame, TypeOK, Goto, Fails, Opened, Step, Crash, Look, Decline, Proceed, Backup, Unlink, Rename,
           OpenSource, OpenTarget, OpenFails, CopyChunk, WriteFails, ReadFails, EndCopy,
           RemoveSource
  <1>2. pc[p] \notin Ended
    BY DEF Ended, Step, Crash, Look, Decline, Proceed, Backup, Unlink, Rename, OpenSource,
           OpenTarget, OpenFails, CopyChunk, WriteFails, ReadFails, EndCopy, RemoveSource
  <1>3. hurt[p] \subseteq hurt'[p]
    BY DEF TypeOK, Fails, Step, Crash, Look, Decline, Proceed, Backup, Unlink, Rename, OpenSource,
           OpenTarget, OpenFails, CopyChunk, WriteFails, ReadFails, EndCopy, RemoveSource
  <1>4. QED  BY <1>1, <1>2, <1>3

\* The six things a step does to the names.
LinkStep(p) ==
    \/ link' = link
    \/ /\ pc[p] = "backup" /\ Exists(target[p]) /\ link' = Renamed(target[p], cmd[p].spare)
    \/ /\ pc[p] = "rename" /\ Exists(Src(p)) /\ Device[Src(p)] = Device[target[p]]
       /\ pc'[p] = "ok" /\ target'[p] = target[p] /\ link' = Renamed(Src(p), target[p])
    \/ /\ pc[p] = "remove" /\ pc'[p] = "ok" /\ link' = [link EXCEPT ![Src(p)] = None]
    \/ /\ pc[p] \in {"unlink", "write", "copy"} /\ link' = [link EXCEPT ![target[p]] = None]
    \/ /\ pc[p] = "write" /\ pc'[p] = "copy" /\ writing'[p] = p
       /\ link' = [link EXCEPT ![target[p]] = p]

\* What it does to what the inodes hold, and to who writes them.
DataStep(p) ==
    \/ data' = data /\ writing' = writing
    \/ \E i \in Inodes :
          /\ pc[p] = "write" /\ pc'[p] = "copy"
          /\ i = p \/ i = link[target[p]]
          /\ data' = [data EXCEPT ![i] = <<>>] /\ writing' = [writing EXCEPT ![p] = i]
    \/ \E s \in Seq(Chunk) :
          pc[p] = "copy" /\ data' = [data EXCEPT ![writing[p]] = s] /\ writing' = writing

\* The name that is opened leads to what it led to, or to a new file.
LEMMA OpenedLinks ==
    ASSUME TypeOK, NEW p \in Procs, pc[p] = "write",
           NEW l \in {link, [link EXCEPT ![target[p]] = None]}, Opened(p, l)
    PROVE  LinkStep(p) /\ DataStep(p)
PROOF
  <1> DEFINE i == IF l[target[p]] # None THEN l[target[p]] ELSE p
  <1>1. target[p] \in Names /\ link \in [Names -> Inodes \cup {None}]
    BY CommandType DEF TypeOK
  <1>2. /\ link' = [l EXCEPT ![target[p]] = i] /\ data' = [data EXCEPT ![i] = <<>>]
        /\ writing' = [writing EXCEPT ![p] = i] /\ pc' = [pc EXCEPT ![p] = "copy"]
    BY DEF Opened, Goto
  <1>3. i \in Inodes /\ (i = p \/ i = link[target[p]])
    BY <1>1 DEF Inodes
  <1>4. link' = link \/ (i = p /\ link' = [link EXCEPT ![target[p]] = p])
    BY <1>1, <1>2
  <1> HIDE DEF i
  <1>5. pc'[p] = "copy" /\ writing'[p] = i  BY <1>2 DEF TypeOK
  <1>6. LinkStep(p)  BY <1>4, <1>5 DEF LinkStep
  <1>7. DataStep(p)  BY <1>2, <1>3, <1>5, Zenon DEF DataStep
  <1>8. QED  BY <1>6, <1>7

\* A command that has opened its destination copies to it.
LEMMA OpenedIn ==
    ASSUME TypeOK, NEW p \in Procs, NEW l \in [Names -> Inodes \cup {None}], Opened(p, l)
    PROVE  pc'[p] = "copy" /\ writing'[p] \in Inodes
PROOF
  <1> DEFINE i == IF l[target[p]] # None THEN l[target[p]] ELSE p
  <1>1. i \in Inodes  BY CommandType DEF Inodes
  <1>2. writing' = [writing EXCEPT ![p] = i] /\ pc' = [pc EXCEPT ![p] = "copy"]
    BY DEF Opened, Goto
  <1> HIDE DEF i
  <1>3. QED  BY <1>1, <1>2 DEF TypeOK

LEMMA LinkSteps ==
    ASSUME TypeOK, NEW p \in Procs, Step(p) \/ Crash(p)
    PROVE  LinkStep(p)
PROOF
  <1> USE CommandType DEF LinkStep
  <1>1. CASE Look(p) \/ Decline(p) \/ Proceed(p) \/ OpenSource(p) \/ CopyChunk(p)
             \/ WriteFails(p) \/ EndCopy(p) \/ Crash(p)
    BY <1>1 DEF Look, Decline, Proceed, OpenSource, CopyChunk, WriteFails, EndCopy, Crash
  <1>2. CASE Backup(p)  BY <1>2 DEF Backup
  <1>3. CASE Unlink(p)  BY <1>3 DEF Unlink
  <1>4. CASE Rename(p)  BY <1>4 DEF Rename, Src, Goto, TypeOK
  <1>5. CASE OpenTarget(p)
    <2>1. pc[p] = "write" /\ Opened(p, link)  BY <1>5 DEF OpenTarget
    <2>2. QED  BY <2>1, OpenedLinks
  <1>6. CASE OpenFails(p)
    <2>1. CASE link' = link  BY <2>1
    <2>2. CASE pc[p] = "write" /\ link' = [link EXCEPT ![target[p]] = None]  BY <2>2
    <2>3. CASE pc[p] = "write" /\ \E l \in {link, [link EXCEPT ![target[p]] = None]} : Opened(p, l)
      BY <2>3, OpenedLinks
    <2>4. QED  BY <1>6, <2>1, <2>2, <2>3, OpenFailing
  <1>7. CASE ReadFails(p)  BY <1>7 DEF ReadFails
  <1>8. CASE RemoveSource(p)  BY <1>8 DEF RemoveSource, Src, Goto, TypeOK
  <1>9. QED  BY <1>1, <1>2, <1>3, <1>4, <1>5, <1>6, <1>7, <1>8 DEF Step

LEMMA DataSteps ==
    ASSUME TypeOK, Locations, NEW p \in Procs, Step(p) \/ Crash(p)
    PROVE  DataStep(p)
PROOF
  <1>1. CASE Look(p) \/ Decline(p) \/ Proceed(p) \/ OpenSource(p) \/ Backup(p) \/ Unlink(p)
             \/ Rename(p) \/ ReadFails(p) \/ RemoveSource(p) \/ WriteFails(p)
             \/ EndCopy(p) \/ Crash(p)
    BY <1>1 DEF DataStep, Look, Decline, Proceed, OpenSource, Backup, Unlink, Rename,
                ReadFails, RemoveSource, WriteFails, EndCopy, Crash
  <1>2. CASE OpenTarget(p)
    <2>1. pc[p] = "write" /\ Opened(p, link)  BY <1>2 DEF OpenTarget
    <2>2. QED  BY <2>1, OpenedLinks
  <1>3. CASE OpenFails(p)
    <2>1. CASE data' = data /\ writing' = writing  BY <2>1 DEF DataStep
    <2>2. CASE pc[p] = "write" /\ \E l \in {link, [link EXCEPT ![target[p]] = None]} : Opened(p, l)
      BY <2>2, OpenedLinks
    <2>3. QED  BY <1>3, <2>1, <2>2, OpenFailing
  <1>4. CASE CopyChunk(p)
    <2> DEFINE s == Put(data[writing[p]], written[p] + 1, data[reading[p]][done[p] + 1])
    <2>1. writing[p] \in Inodes /\ data' \in [Inodes -> Seq(Chunk)]  BY <1>4, ChunkType
    <2>2. data' = [data EXCEPT ![writing[p]] = s] /\ pc[p] = "copy" /\ writing' = writing
      BY <1>4 DEF CopyChunk
    <2>3. s = data'[writing[p]]  BY <2>1, <2>2 DEF TypeOK
    <2> HIDE DEF s
    <2>4. s \in Seq(Chunk)  BY <2>1, <2>3
    <2>5. QED  BY <2>2, <2>4, Zenon DEF DataStep
  <1>5. QED  BY <1>1, <1>2, <1>3, <1>4 DEF Step

----------------------------------------------------------------------------
(***************************************************************************)
(* Where each command is and what it has open; who leads to which inode.   *)
(***************************************************************************)
LEMMA LocationsStep ==
    ASSUME TypeOK, Locations, NEW p \in Procs, Step(p) \/ Crash(p)
    PROVE  Locations'
PROOF
  <1> DEFINE Loc(q) ==
        /\ target[q] \in Dest(q)
        /\ cmd[q].op # "trash" \/ pc[q] \in {"start", "decide"} => target[q] = cmd[q].to
        /\ pc[q] \in {"write", "copy"} => reading[q] \in Inodes
        /\ pc[q] = "copy" => writing[q] \in Inodes
        /\ pc[q] = "backup" => cmd[q].backup
        /\ pc[q] = "unlink" => cmd[q].op = "mv" /\ cmd[q].force
        /\ pc[q] \in {"rename", "remove"} => IsMove(q)
  <1>1. \A q \in Procs : Loc(q)  BY DEF Locations
  <1>2. ASSUME NEW q \in Procs \ {p}  PROVE Loc(q)'
    BY <1>1, FrameStep DEF Frame, Dest, IsMove
  <1>3. Loc(p)'
    <2> USE CommandType, <1>1 DEF TypeOK, Goto, Dest, IsMove
    <2>1. CASE Look(p)  BY <2>1 DEF Look, Exists
    <2>2. CASE Decline(p)  BY <2>2 DEF Decline
    <2>3. CASE Proceed(p)  BY <2>3 DEF Proceed, AfterBackup, Destinations
    <2>4. CASE Backup(p)  BY <2>4 DEF Backup, AfterBackup
    <2>5. CASE Unlink(p)  BY <2>5 DEF Unlink
    <2>6. CASE Rename(p)  BY <2>6 DEF Rename, Exists
    <2>7. CASE OpenSource(p)  BY <2>7 DEF OpenSource, Exists, Src
    <2>8. CASE OpenTarget(p)
      <3>1. pc'[p] = "copy" /\ writing'[p] \in Inodes  BY <2>8, OpenedIn DEF OpenTarget
      <3>2. QED  BY <2>8, <3>1 DEF OpenTarget
    <2>9. CASE OpenFails(p)
      <3>1. CASE pc'[p] = "failed"  BY <2>9, <3>1 DEF OpenFails
      <3>2. CASE pc[p] = "write" /\ pc'[p] = "copy" /\ writing'[p] \in Inodes
        BY <2>9, <3>2 DEF OpenFails
      <3>3. QED  BY <2>9, <3>1, <3>2, OpenFailing, OpenedIn
    <2>10. CASE CopyChunk(p)  BY <2>10 DEF CopyChunk
    <2>11. CASE WriteFails(p)  BY <2>11 DEF WriteFails
    <2>12. CASE ReadFails(p)  BY <2>12 DEF ReadFails
    <2>13. CASE EndCopy(p)  BY <2>13 DEF EndCopy
    <2>14. CASE RemoveSource(p)  BY <2>14 DEF RemoveSource
    <2>15. CASE Crash(p)  BY <2>15 DEF Crash
    <2>16. QED
      BY <2>1, <2>2, <2>3, <2>4, <2>5, <2>6, <2>7, <2>8, <2>9, <2>10, <2>11, <2>12,
         <2>13, <2>14, <2>15 DEF Step
  <1>4. \A q \in Procs : Loc(q)'  BY <1>2, <1>3
  <1>5. QED  BY <1>4 DEF Locations

\* A name leads to what some name led to before, unless to a new file of p's.
LEMMA NoOtherInode ==
    ASSUME TypeOK, NEW p \in Procs, LinkStep(p), NEW n \in Names
    PROVE  \/ link'[n] = None
           \/ \E m \in Names : link'[n] = link[m]
           \/ link'[n] = p /\ writing'[p] = p
PROOF
  BY CommandType, Zenon DEF LinkStep, Renamed, TypeOK

LEMMA OrderStep ==
    ASSUME TypeOK, Order, NEW p \in Procs, Step(p) \/ Crash(p)
    PROVE  Order'
PROOF
  <1> USE DEF Order
  <1>1. LinkStep(p) /\ DataStep(p) /\ Frame(p) /\ TypeOK'
    BY LinkSteps, DataSteps, FrameStep, TypeStep
  <1>2. pc[p] = "write" => writing[p] = None /\ \A n \in Names : link[n] # p
    BY DEF Fresh
  <1>3. Injective'
    <2> SUFFICES ASSUME NEW m \in Names, NEW n \in Names, link'[m] = link'[n], link'[m] # None
                 PROVE  m = n
      BY DEF Injective
    <2>1. /\ target[p] \in Names /\ cmd[p].spare \in Names /\ Src(p) \in Names
          /\ link \in [Names -> Inodes \cup {None}]
      BY CommandType DEF TypeOK
    <2>2. \A x, y \in Names : link[x] = link[y] /\ link[x] # None => x = y  BY DEF Injective
    <2>3. CASE link' = Renamed(target[p], cmd[p].spare) \/ link' = Renamed(Src(p), target[p])
      BY ONLY <2>1, <2>2, <2>3, link'[m] = link'[n], link'[m] # None, m \in Names, n \in Names
      DEF Renamed
    <2>4. CASE \E x \in Names : link' = [link EXCEPT ![x] = None]
      BY <2>1, <2>2, <2>4
    <2>5. CASE pc[p] = "write" /\ link' = [link EXCEPT ![target[p]] = p]
      BY <1>2, <2>1, <2>2, <2>5
    <2>6. CASE link' = link  BY <2>2, <2>6
    <2>7. QED  BY <1>1, <2>1, <2>3, <2>4, <2>5, <2>6 DEF LinkStep
  <1>4. ASSUME NEW r \in Procs
        PROVE  /\ pc'[r] \in Before => writing'[r] = None
               /\ writing'[r] = None => (\A n \in Names : link'[n] # r) /\ (\A q \in Procs : writing'[q] # r)
    <2>1. pc'[r] \in Before => pc[r] \in Before
      <3>1. CASE r # p  BY <1>1, <3>1 DEF Frame
      <3>2. CASE r = p
        BY <3>2 DEF Before, Step, Crash, Look, Decline, Proceed, Backup, Unlink, Rename,
               OpenSource, OpenTarget, OpenFails, CopyChunk, WriteFails, ReadFails, EndCopy,
               RemoveSource, Opened, Goto, TypeOK
      <3>3. QED  BY <3>1, <3>2
    <2>2. writing'[r] = None => writing[r] = None
      <3>1. CASE r # p  BY <1>1, <3>1 DEF Frame
      <3>2. CASE r = p  BY <1>1, <3>2, Constants DEF DataStep, TypeOK
      <3>3. QED  BY <3>1, <3>2
    <2>3. pc'[r] \in Before => writing'[r] = None
      <3>1. pc'[r] \in Before => writing[r] = None  BY <2>1 DEF Before, Fresh
      <3>2. CASE r # p  BY <1>1, <3>1, <3>2 DEF Frame
      <3>3. CASE r = p  BY <1>1, <3>1, <3>3 DEF DataStep, Before
      <3>4. QED  BY <3>2, <3>3
    <2>4. ASSUME writing'[r] = None, NEW n \in Names  PROVE link'[n] # r
      <3>1. \A m \in Names : link[m] # r  BY <2>2, <2>4 DEF Fresh
      <3>2. r # None  BY Constants DEF Inodes
      <3>3. QED  BY <1>1, <2>4, <3>1, <3>2, NoOtherInode
    <2>5. ASSUME writing'[r] = None, NEW q \in Procs  PROVE writing'[q] # r
      <3>1. writing[q] # r /\ \A m \in Names : link[m] # r  BY <2>2, <2>5 DEF Fresh
      <3>2. CASE q # p  BY <1>1, <3>1, <3>2 DEF Frame
      <3>3. CASE q = p
        <4>1. writing'[p] = writing[p] \/ writing'[p] = p \/ writing'[p] = link[target[p]]
          BY <1>1 DEF DataStep, TypeOK
        <4>2. writing'[p] = p => r # p  BY <2>5, Constants DEF Inodes
        <4>3. QED  BY <3>1, <3>3, <4>1, <4>2, CommandType
      <3>4. QED  BY <3>2, <3>3
    <2>6. QED  BY <2>3, <2>4, <2>5
  <1>5. Fresh'  BY <1>4 DEF Fresh, Before
  <1>6. QED  BY <1>3, <1>5, LocationsStep

----------------------------------------------------------------------------
(***************************************************************************)
(* What no command writes to stays; only a move that ends takes it away.   *)
(***************************************************************************)
\* A name that is no destination of p's can only go, as the source of p's move.
LEMMA LinkKept ==
    ASSUME TypeOK, Locations, NEW p \in Procs, Step(p) \/ Crash(p),
           NEW n \in Names, n \notin Dest(p)
    PROVE  \/ link'[n] = link[n]
           \/ /\ n = Src(p) /\ link'[n] = None
              /\ link[n] # None => pc'[p] = "ok" /\ IsMove(p)
PROOF
  <1>1. LinkStep(p)  BY LinkSteps
  <1>2. /\ n # target[p] /\ target[p] \in Names /\ cmd[p].spare \in Names /\ Src(p) \in Names
        /\ link \in [Names -> Inodes \cup {None}]
    BY CommandType DEF Locations, TypeOK
  <1>3. pc[p] = "backup" => n # cmd[p].spare  BY DEF Locations, Dest, Destinations
  <1>4. pc[p] \in {"rename", "remove"} => IsMove(p)  BY DEF Locations
  <1>5. QED
    BY ONLY <1>1, <1>2, <1>3, <1>4, n \in Names DEF LinkStep, Renamed, Exists

\* What an inode holds stays unless p is about to open it for writing.
LEMMA IntactKept ==
    ASSUME TypeOK, Order, NEW p \in Procs, Step(p) \/ Crash(p),
           NEW i \in Names, Intact(i), pc[p] = "write" => link[target[p]] # i
    PROVE  Intact(i)'
PROOF
  <1>1. DataStep(p) /\ Frame(p)  BY DataSteps, FrameStep DEF Order
  <1>2. data[i] = Whole(i) /\ i \in Inodes /\ i # p /\ \A q \in Procs : writing[q] # i
    BY Constants DEF Intact, Inodes
  <1>3. data'[i] = Whole(i)  BY <1>1, <1>2 DEF DataStep, TypeOK
  <1>4. writing'[p] # i  BY <1>1, <1>2 DEF DataStep, TypeOK
  <1>5. \A q \in Procs : writing'[q] # i  BY <1>1, <1>2, <1>4 DEF Frame
  <1>6. Whole(i)' = Whole(i)  BY DEF Whole, Chunks
  <1>7. QED  BY <1>3, <1>5, <1>6 DEF Intact

LEMMA SourcesStep ==
    ASSUME TypeOK, Order, Sources, NEW p \in Procs, Step(p) \/ Crash(p)
    PROVE  Sources'
PROOF
  <1> USE DEF Order
  <1>1. Frame(p) /\ pc[p] \notin Ended  BY FrameStep
  <1>2. ASSUME NEW f \in files, Protected(f)
        PROVE  /\ (link'[f] = f /\ Intact(f)') \/ link'[f] = None
               /\ link'[f] = None => \E m \in Procs : Src(m) = f /\ IsMove(m) /\ pc'[m] = "ok"
    <2>1. f \in Names /\ f # None /\ f \notin Dest(p)
      BY <1>2, Constants DEF TypeOK, Protected, Inodes
    <2>2. CASE link[f] = f /\ Intact(f)
      <3>1. pc[p] = "write" => link[target[p]] # f
        BY <2>1, <2>2, CommandType DEF Locations, Injective
      <3>2. Intact(f)'  BY <2>1, <2>2, <3>1, IntactKept
      <3>3. QED  BY <2>1, <2>2, <3>2, LinkKept
    <2>3. CASE link[f] = None
      <3>1. PICK m \in Procs : Src(m) = f /\ IsMove(m) /\ pc[m] = "ok"
        BY <1>2, <2>3 DEF Sources
      <3>2. m # p  BY <1>1, <3>1 DEF Ended
      <3>3. pc'[m] = "ok"  BY <1>1, <3>1, <3>2 DEF Frame
      <3>4. link'[f] = None  BY <2>1, <2>3, LinkKept
      <3>5. QED  BY <3>1, <3>3, <3>4
    <2>4. QED  BY <1>2, <2>2, <2>3 DEF Sources
  <1>3. QED  BY <1>1, <1>2 DEF Sources, Frame, Protected, Dest, Src, IsMove

\* What the names of one command and the step of another have to do with each other.
LEMMA Apart ==
    ASSUME TypeOK, Order, NEW p \in Procs, Undisturbed(p), NEW q \in Procs \ {p},
           Step(q) \/ Crash(q), NEW n \in Dest(p)
    PROVE  /\ n \notin Dest(q) /\ n # Src(q) /\ n # target[q] /\ link'[n] = link[n]
           /\ link[n] # None => link[n] # link[target[q]]
PROOF
  <1>1. n \notin Dest(q) /\ n # Src(q)  BY DEF Undisturbed, Dest, Src
  <1>2. n \in Names /\ target[q] \in Dest(q) /\ target[q] \in Names
    BY CommandType DEF Order, Locations
  <1>3. link'[n] = link[n]  BY <1>1, <1>2, LinkKept DEF Order
  <1>4. QED  BY <1>1, <1>2, <1>3 DEF Order, Injective

----------------------------------------------------------------------------
(***************************************************************************)
(* A plain mv over a file, and what -b keeps.                              *)
(***************************************************************************)
LEMMA ReplacingStep ==
    ASSUME TypeOK, Order, Sources, Replacing, NEW p \in Procs, Step(p) \/ Crash(p)
    PROVE  Replacing'
PROOF
  <1> USE DEF Order
  <1>1. Frame(p) /\ LinkStep(p)  BY FrameStep, LinkSteps
  <1>2. ASSUME NEW r \in Procs, PlainMove(r)
        PROVE  /\ pc'[r] \in {"start", "decide", "rename"} \cup Ended
               /\ \E i \in {cmd[r].to, Src(r)} : link'[cmd[r].to] = i /\ Intact(i)'
    <2> DEFINE t == cmd[r].to
    <2>1. t \in Names /\ t \in Dest(r) /\ Src(r) \in Names /\ Src(r) \notin Dest(r)
          /\ Src(r) \in files
      BY <1>2, CommandType DEF PlainMove, HasSource, Dest, Src, Destinations
    <2>2. PICK i \in {t, Src(r)} : link[t] = i /\ Intact(i)  BY <1>2 DEF Replacing
    <2>3. i \in Names /\ i # None  BY <2>1, <2>2, Constants DEF Inodes
    <2>4. CASE r # p
      <3>1. link'[t] = i /\ link[target[p]] # i
        BY <1>2, <2>1, <2>2, <2>3, <2>4, Apart DEF PlainMove
      <3>2. Intact(i)'  BY <2>2, <2>3, <3>1, IntactKept
      <3>3. pc'[r] = pc[r]  BY <1>1, <2>4 DEF Frame
      <3>4. QED  BY <1>2, <2>2, <3>1, <3>2, <3>3 DEF Replacing
    <2>5. CASE r = p
      <3>1. pc[p] \in {"start", "decide", "rename"} \cup Ended  BY <1>2, <2>5 DEF Replacing
      <3>2. pc'[p] \in {"start", "decide", "rename"} \cup Ended
        <4>1. pc[p] \in {"start", "decide", "rename"}  BY <3>1, FrameStep
        <4>2. CASE Look(p) \/ Decline(p) \/ Crash(p)
          BY <4>2 DEF Look, Decline, Crash, Goto, TypeOK, Ended
        <4>3. CASE Proceed(p)
          BY <4>3, <1>2, <2>5 DEF Proceed, AfterBackup, PlainMove, Goto, TypeOK
        <4>4. CASE Rename(p)
          <5>1. target[p] = t  BY <4>4, <1>2, <2>5 DEF Locations, PlainMove, Rename
          <5>2. Device[cmd[p].src] = Device[target[p]]
            BY <5>1, <1>2, <2>5 DEF PlainMove, Src
          <5>3. QED  BY <4>4, <5>2 DEF Rename, Goto, TypeOK, Ended
        <4>5. QED
          BY <4>1, <4>2, <4>3, <4>4 DEF Step, Backup, Unlink, OpenSource, OpenTarget, OpenFails,
             CopyChunk, WriteFails, ReadFails, EndCopy, RemoveSource
      <3>3. \A j \in Names : Intact(j) => Intact(j)'
        BY <3>1, IntactKept DEF Ended
      <3>4. CASE link' = link  BY <2>2, <2>3, <2>5, <3>2, <3>3, <3>4
      <3>5. CASE pc[p] = "rename" /\ Exists(Src(p)) /\ link' = Renamed(Src(p), target[p])
        <4>1. target[p] = t  BY <3>5, <1>2, <2>5 DEF Locations, PlainMove
        <4>2. Protected(Src(r))
          BY <1>2, <2>1 DEF Protected, PlainMove, Undisturbed, Dest, Src
        <4>3. link[Src(r)] = Src(r) /\ Intact(Src(r))
          BY <2>1, <3>5, <2>5, <4>2 DEF Sources, Exists
        <4>4. link'[t] = Src(r)
          BY <2>1, <2>5, <3>5, <4>1, <4>3 DEF Renamed, TypeOK
        <4>5. QED  BY <2>1, <2>5, <3>2, <3>3, <4>3, <4>4
      <3>6. QED  BY <1>1, <3>1, <3>4, <3>5 DEF LinkStep, Ended
    <2>6. QED  BY <2>4, <2>5
  <1>3. QED
    BY <1>1, <1>2 DEF Replacing, Frame, PlainMove, Undisturbed, HasSource, Src, Dest

LEMMA BesideInit == Init => BesideDest
PROOF
  <1> SUFFICES ASSUME Init, NEW p \in Procs, cmd[p].backup
               PROVE  /\ cmd[p].op \in {"mv", "install"} /\ cmd[p].spare # cmd[p].to
                      /\ Device[cmd[p].spare] = Device[cmd[p].to]
    BY DEF BesideDest
  <1>1. PICK s \in Scenarios : cmd = s.cmd  BY DEF Init
  <1>2. "backup" \in Offered[cmd[p].op]  BY <1>1, NameAssumption
  <1>3. cmd[p].op \in {"mv", "cp", "install", "trash"}
    BY <1>1, NameAssumption DEF Commands
  <1>4. cmd[p].op \in {"mv", "install"}  BY <1>2, <1>3 DEF Offered
  <1>5. QED  BY <1>1, <1>4, NameAssumption

LEMMA BackupsStep ==
    ASSUME TypeOK, Order, BesideDest, Backups, NEW p \in Procs, Step(p) \/ Crash(p)
    PROVE  Backups' /\ BesideDest'
PROOF
  <1> USE DEF Order
  <1>1. Frame(p) /\ LinkStep(p)  BY FrameStep, LinkSteps
  <1> DEFINE Kept(r) == LET t == cmd[r].to IN
        /\ Intact(t)
        /\ link[t] = t \/ link[cmd[r].spare] = t
        /\ pc[r] \in {"start", "decide", "backup"} => link[t] = t
        /\ pc[r] = "decide" => saw[r]
        /\ pc[r] \in {"unlink", "rename", "read", "write", "copy", "remove"} => link[cmd[r].spare] = t
        /\ pc[r] \in {"read", "write", "copy", "remove"} /\ cmd[r].op = "mv" => Src(r) # cmd[r].spare
  <1>2. ASSUME NEW r \in Procs, BacksUp(r), ~NoBackup(r)'  PROVE Kept(r)'
    <2>0. ~NoBackup(r)  BY <1>1, <1>2, FrameStep DEF NoBackup, Frame
    <2> DEFINE t == cmd[r].to
               b == cmd[r].spare
    <2>1. /\ t \in Names /\ t \in Dest(r) /\ b \in Names /\ b \in Dest(r) /\ Src(r) \in Names
          /\ t # b /\ t # None /\ Src(r) # t /\ Device[b] = Device[t] /\ Undisturbed(r)
          /\ cmd[r].op \in {"mv", "install"} /\ cmd[r].backup
      BY <1>2, CommandType, Constants DEF BacksUp, Dest, Destinations, BesideDest, Inodes
    <2>2. Kept(r)  BY <1>2, <2>0 DEF Backups
    <2>3. CASE r # p
      <3>1. link'[t] = link[t] /\ link'[b] = link[b]  BY <2>1, <2>3, Apart
      <3>2. link[target[p]] # t  BY <2>1, <2>2, <2>3, Apart
      <3>3. Intact(t)'
        <4>1. ASSUME NEW i \in Names, i = t  PROVE Intact(i)'
          BY <2>2, <3>2, <4>1, IntactKept
        <4>2. cmd' = cmd  BY <1>1 DEF Frame
        <4>3. QED  BY <2>1, <4>1, <4>2 DEF Intact
      <3>4. pc'[r] = pc[r] /\ saw'[r] = saw[r] /\ cmd' = cmd  BY <1>1, <2>3 DEF Frame
      <3>5. QED  BY <2>2, <3>1, <3>3, <3>4 DEF Src
    <2>4. CASE r = p
      <3>1. target[p] = t  BY <2>1, <2>4 DEF Locations
      <3>2. pc[p] = "write" => link[t] # t
        BY <2>1, <2>2, <2>4 DEF Injective
      <3>3. Intact(t)'
        <4>1. ASSUME NEW i \in Names, i = t  PROVE Intact(i)'
          BY <2>2, <3>1, <3>2, <4>1, IntactKept
        <4>2. cmd' = cmd  BY <1>1 DEF Frame
        <4>3. QED  BY <2>1, <4>1, <4>2 DEF Intact
      <3>4. cmd' = cmd  BY <1>1 DEF Frame
      <3> DEFINE Rest == 
            /\ link'[t] = t \/ link'[b] = t
            /\ pc'[p] \in {"start", "decide", "backup"} => link'[t] = t
            /\ pc'[p] = "decide" => saw'[p]
            /\ pc'[p] \in {"unlink", "rename", "read", "write", "copy", "remove"} => link'[b] = t
            /\ pc'[p] \in {"read", "write", "copy", "remove"} /\ cmd[p].op = "mv" => Src(p) # b
      <3>5. Rest
        <4> USE <2>1, <2>2, <2>4, <3>1 DEF Goto, TypeOK, Src
        <4>1. CASE Look(p)  BY <4>1, Zenon DEF Look, Exists
        <4>2. CASE Decline(p)  BY <4>2 DEF Decline
        <4>3. CASE Proceed(p)  BY <4>3 DEF Proceed
        <4>4. CASE Backup(p)
          <5>1. link[t] = t /\ link[b] # t  BY <4>4 DEF Backup, Injective
          <5>2. CASE link' = Renamed(t, b) /\ Goto(p, AfterBackup(p))
            <6>1. link'[b] = t  BY <5>1, <5>2 DEF Renamed
            <6>2. pc'[p] \in {"unlink", "rename", "read"} /\ (pc'[p] = "read" => cmd[p].op # "mv")
              BY <5>2 DEF AfterBackup
            <6>3. QED  BY <6>1, <6>2
          <5>3. CASE link' = link /\ cmd[p].op # "mv" /\ Goto(p, "failed")
            BY <5>1, <5>3
          <5>4. CASE cmd[p].op = "mv" /\ Fails(p, "backup")
            <6>1. "backup" \in hurt'[p]  BY <5>4 DEF Fails
            <6>2. QED  BY <1>1, <1>2, <5>4, <6>1 DEF NoBackup, Frame
          <5>5. QED  BY <4>4, <5>2, <5>3, <5>4 DEF Backup
        <4>5. CASE Unlink(p)  BY <4>5 DEF Unlink
        <4>6. CASE Rename(p)
          <5>1. link[b] = t /\ pc[p] = "rename"  BY <4>6 DEF Rename
          <5>2. CASE link' = link /\ pc'[p] = "failed"  BY <5>1, <5>2
          <5>3. CASE Device[Src(p)] # Device[t] /\ link' = link /\ pc'[p] = "read"
            BY <5>1, <5>3
          <5>4. CASE Exists(Src(p)) /\ link' = Renamed(Src(p), t) /\ pc'[p] = "ok"
            BY <5>1, <5>4 DEF Renamed
          <5>5. QED  BY <4>6, <5>2, <5>3, <5>4 DEF Rename
        <4>7. CASE OpenSource(p)  BY <4>7 DEF OpenSource
        <4>8. CASE OpenTarget(p)  BY <4>8 DEF OpenTarget, Opened
        <4>9. CASE OpenFails(p)  BY <4>9 DEF OpenFails
        <4>10. CASE CopyChunk(p)  BY <4>10 DEF CopyChunk
        <4>11. CASE WriteFails(p)  BY <4>11 DEF WriteFails
        <4>12. CASE ReadFails(p)  BY <4>12 DEF ReadFails
        <4>13. CASE EndCopy(p)  BY <4>13 DEF EndCopy
        <4>14. CASE RemoveSource(p)
          <5>1. cmd[p].op = "mv"  BY <4>14 DEF RemoveSource, Locations, IsMove
          <5>2. QED  BY <4>14, <5>1 DEF RemoveSource
        <4>15. CASE Crash(p)  BY <4>15 DEF Crash
        <4>16. QED
          BY <4>1, <4>2, <4>3, <4>4, <4>5, <4>6, <4>7, <4>8, <4>9, <4>10, <4>11, <4>12,
             <4>13, <4>14, <4>15 DEF Step
      <3>6. QED  BY <2>4, <3>3, <3>4, <3>5 DEF Src
    <2>5. QED  BY <2>3, <2>4
  <1>3. BesideDest'  BY <1>1 DEF BesideDest, Frame
  <1>4. \A r \in Procs : BacksUp(r)' => BacksUp(r)
    BY <1>1 DEF Frame, BacksUp, Undisturbed, Src
  <1>5. \A r \in Procs : BacksUp(r)' /\ ~NoBackup(r)' => Kept(r)'  BY <1>2, <1>4
  <1>6. QED  BY <1>3, <1>5 DEF Backups

----------------------------------------------------------------------------
(***************************************************************************)
(* A source that only undisturbed moves take away, and a command on it.    *)
(***************************************************************************)
\* Only its own name and the targets of finished moves lead to a safe source,
\* and none of these is a name of a command that is still at work.
LEMMA NoOtherName ==
    ASSUME TypeOK, Order, Lasting, NEW p \in Procs, pc[p] \notin Ended,
           NEW f \in files, Safe(f), NEW n \in Names, link[n] = f
    PROVE  n \notin Dest(p) /\ (n = Src(p) => n = f)
PROOF
  <1>1. CASE n = f  BY <1>1 DEF Safe, Protected
  <1>2. CASE n # f
    <2>1. PICK m \in Procs : Src(m) = f /\ IsMove(m) /\ pc[m] = "ok" /\ target[m] = n
      BY <1>2 DEF Lasting
    <2>2. m # p /\ n \in Dest(m)  BY <2>1 DEF Ended, Order, Locations
    <2>3. Undisturbed(m)  BY <2>1 DEF Safe
    <2>4. QED  BY <2>2, <2>3 DEF Undisturbed, Dest, Src
  <1>3. QED  BY <1>1, <1>2

LEMMA LastingStep ==
    ASSUME TypeOK, Order, Lasting, NEW p \in Procs, Step(p) \/ Crash(p)
    PROVE  Lasting'
PROOF
  <1>1. Frame(p) /\ LinkStep(p) /\ pc[p] \notin Ended  BY FrameStep, LinkSteps
  <1>2. target[p] \in Dest(p) /\ target[p] \in Names /\ Src(p) \in Names /\ cmd[p].spare \in Names
    BY CommandType DEF Order, Locations
  <1>3. ASSUME NEW f \in files, Safe(f)
        PROVE  /\ Intact(f)'
               /\ \A n \in Names : n # f /\ link'[n] = f =>
                     \E m \in Procs : Src(m) = f /\ IsMove(m) /\ pc'[m] = "ok" /\ target'[m] = n
    <2>1. f \in Names /\ f # p /\ f # None  BY Constants DEF TypeOK, Inodes
    <2>2. link[target[p]] # f  BY <1>1, <1>2, <1>3, NoOtherName
    <2>3. Intact(f)'  BY <1>3, <2>1, <2>2, IntactKept DEF Lasting
    <2>4. ASSUME NEW n \in Names, n # f, link'[n] = f
          PROVE  \E m \in Procs : Src(m) = f /\ IsMove(m) /\ pc'[m] = "ok" /\ target'[m] = n
      <3>1. CASE link[n] = f
        <4>1. PICK m \in Procs : Src(m) = f /\ IsMove(m) /\ pc[m] = "ok" /\ target[m] = n
          BY <1>3, <2>4, <3>1 DEF Lasting
        <4>2. m # p  BY <1>1, <4>1 DEF Ended
        <4>3. QED  BY <1>1, <4>1, <4>2 DEF Frame
      <3>2. CASE link[n] # f
        <4>1. /\ pc[p] = "rename" /\ pc'[p] = "ok" /\ target'[p] = target[p]
              /\ n = target[p] /\ link[Src(p)] = f
          BY <1>1, <1>2, <2>1, <2>2, <2>4, <3>2 DEF LinkStep, Renamed, TypeOK
        <4>2. Src(p) = f  BY <1>1, <1>2, <1>3, <4>1, NoOtherName
        <4>3. IsMove(p)  BY <4>1 DEF Order, Locations
        <4>4. QED  BY <4>1, <4>2, <4>3
      <3>3. QED  BY <3>1, <3>2
    <2>5. QED  BY <2>3, <2>4
  <1>4. \A f \in files : Safe(f)' => Safe(f)
    BY <1>1, Zenon DEF Frame, Safe, Protected, Undisturbed, Dest, Src, IsMove
  <1>5. QED  BY <1>1, <1>3, <1>4 DEF Lasting, Frame, Src, IsMove

\* The source of a command that is alone is where it was, or moved away.
LEMMA AloneSource ==
    ASSUME TypeOK, Sources, Lasting, NEW p \in Procs, Alone(p)
    PROVE  /\ Src(p) \in files /\ Src(p) \in Names /\ Src(p) \notin Dest(p) /\ Src(p) # None
           /\ link[Src(p)] \in {Src(p), None} /\ Intact(Src(p))
PROOF
  <1>1. Safe(Src(p)) /\ Src(p) \in files /\ Src(p) \in Names  BY DEF Alone, Safe, Protected, TypeOK
  <1>2. QED  BY <1>1, Constants DEF Safe, Protected, Sources, Lasting, Inodes

LEMMA UnsharedStep ==
    ASSUME TypeOK, Order, Sources, Lasting, Unshared, NEW p \in Procs, Step(p) \/ Crash(p)
    PROVE  Unshared'
PROOF
  <1>1. Frame(p) /\ LinkStep(p) /\ DataStep(p)  BY FrameStep, LinkSteps, DataSteps DEF Order
  <1>2. pc[p] = "write" => writing[p] = None  BY DEF Order, Fresh
  <1>3. ASSUME NEW r \in Procs, Alone(r), NEW n \in Dest(r), NEW q \in Procs \ {r}, link'[n] # None
        PROVE  writing'[q] # link'[n]
    <2>1. n \in Names  BY CommandType
    <2>2. CASE r # p
      <3>1. link'[n] = link[n] /\ link[n] # link[target[p]]
        BY <1>3, <2>2, Apart DEF Alone
      <3>2. writing[q] # link[n]  BY <1>3, <3>1 DEF Unshared
      <3>3. CASE q # p  BY <1>1, <3>1, <3>2, <3>3 DEF Frame
      <3>4. CASE q = p
        <4>1. CASE writing' = writing  BY <3>1, <3>2, <4>1
        <4>2. CASE pc[p] = "write" /\ (writing'[p] = p \/ writing'[p] = link[target[p]])
          <5>1. link[n] # p  BY <1>2, <2>1, <4>2 DEF Order, Fresh
          <5>2. QED  BY <3>1, <3>4, <4>2, <5>1
        <4>3. QED  BY <1>1, <4>1, <4>2 DEF DataStep, TypeOK
      <3>5. QED  BY <3>3, <3>4
    <2>3. CASE r = p
      <3>1. writing'[q] = writing[q]  BY <1>1, <2>3 DEF Frame
      <3>2. target[p] \in Dest(p) /\ (pc[p] = "backup" => cmd[p].spare \in Dest(p))
            /\ target[p] \in Names /\ cmd[p].spare \in Names
        BY CommandType DEF Order, Locations, Dest, Destinations
      <3>3. Src(p) \in Names /\ Src(p) \notin Dest(p) /\ writing[q] # Src(p)
            /\ link[Src(p)] \in {Src(p), None}
        BY <1>3, <2>3, AloneSource DEF Intact
      <3>4. \A m \in Dest(p) : link[m] # None => writing[q] # link[m]
        BY <1>3, <2>3 DEF Unshared
      <3>5. pc[p] = "write" => writing[q] # p  BY <1>2 DEF Order, Fresh
      <3>6. link \in [Names -> Inodes \cup {None}] /\ n \in Dest(p)  BY <1>3, <2>3 DEF TypeOK
      <3>7. \/ link'[n] \in {None, link[Src(p)]}
            \/ \E m \in Dest(p) : link'[n] = link[m]
            \/ pc[p] = "write" /\ link'[n] = p
        BY ONLY <1>1, <2>1, <3>2, <3>3, <3>6 DEF LinkStep, Renamed
      <3>8. QED  BY <1>3, <3>1, <3>3, <3>4, <3>5, <3>7
    <2>4. QED  BY <2>2, <2>3
  <1>4. \A r \in Procs : Alone(r)' => Alone(r)
    BY <1>1, Zenon DEF Frame, Alone, Safe, Protected, Undisturbed, Dest, Src, IsMove
  <1>5. QED  BY <1>1, <1>3, <1>4 DEF Unshared, Frame, Dest

\* A copy grows by the next chunk of the file until it is whole.
LEMMA CopyGrows ==
    ASSUME NEW f \in Names
    PROVE  /\ Copied(f, 0) = <<>> /\ Copied(f, 2) = Whole(f)
           /\ \A k \in 0..1 : Put(Copied(f, k), k + 1, Whole(f)[k + 1]) = Copied(f, k + 1)
PROOF
  <1> DEFINE S == {<<f, j>> : j \in 1..2}
  <1>1. ASSUME NEW k \in 0..2  PROVE Copied(f, k) \in Seq(S) /\ Len(Copied(f, k)) = k
    <2>1. Copied(f, k) \in [1..k -> S]  BY DEF Copied
    <2> HIDE DEF S
    <2>2. QED  BY <2>1, Sized
  <1>2. Copied(f, 0) = <<>>
    <2> HIDE DEF S
    <2>1. QED  BY <1>1, EmptySeq
  <1>3. Copied(f, 2) = Whole(f)  BY DEF Copied, Whole, Chunks
  <1>4. ASSUME NEW k \in 0..1
        PROVE  Put(Copied(f, k), k + 1, Whole(f)[k + 1]) = Copied(f, k + 1)
    <2>1. Len(Copied(f, k)) = k
      <3> HIDE DEF S
      <3>1. k \in 0..2  OBVIOUS
      <3>2. QED  BY <1>1, <3>1, Zenon
    <2>2. Whole(f)[k + 1] = <<f, k + 1>>  BY DEF Whole, Chunks
    <2>3. \A j \in 1..k : Copied(f, k)[j] = <<f, j>>  BY DEF Copied
    <2> DEFINE c(j) == IF j = k + 1 THEN <<f, k + 1>>
                       ELSE IF j <= k THEN Copied(f, k)[j] ELSE <<"hole">>
    <2>4. Put(Copied(f, k), k + 1, <<f, k + 1>>) = [j \in 1..(k + 1) |-> c(j)]
      BY <2>1 DEF Put
    <2>5. \A j \in 1..(k + 1) : c(j) = <<f, j>>  BY <2>3
    <2> HIDE DEF c
    <2>6. [j \in 1..(k + 1) |-> c(j)] = [j \in 1..(k + 1) |-> <<f, j>>]  BY <2>5
    <2>7. QED  BY <2>2, <2>4, <2>6 DEF Copied
  <1>5. QED  BY <1>2, <1>3, <1>4

\* What p leads to is not disturbed by the step of another.
LEMMA OthersCopy ==
    ASSUME TypeOK, Order, Sources, Lasting, Unshared, NEW r \in Procs, Alone(r),
           NEW p \in Procs \ {r}, Step(p) \/ Crash(p), NEW n \in Dest(r), link[n] # None
    PROVE  link'[n] = link[n] /\ data'[link[n]] = data[link[n]]
PROOF
  <1>1. DataStep(p) /\ Undisturbed(r)  BY DataSteps DEF Order, Alone
  <1>2. link'[n] = link[n] /\ link[n] # link[target[p]]  BY <1>1, Apart
  <1>3. n \in Names /\ link[n] \in Inodes  BY CommandType DEF TypeOK
  <1>4. pc[p] = "write" => link[n] # p  BY <1>3 DEF Order, Fresh
  <1>5. writing[p] # link[n]  BY DEF Unshared
  <1>6. data'[link[n]] = data[link[n]]
    BY <1>1, <1>2, <1>3, <1>4, <1>5 DEF DataStep, TypeOK
  <1>7. QED  BY <1>2, <1>6

LEMMA ProgressStep ==
    ASSUME TypeOK, Order, Sources, Lasting, Unshared, Progress,
           NEW p \in Procs, Step(p) \/ Crash(p)
    PROVE  Progress'
PROOF
  <1>1. Frame(p) /\ pc[p] \notin Ended /\ hurt[p] \subseteq hurt'[p]  BY FrameStep
  <1> DEFINE Going(r) ==
        /\ pc[r] \in Before => done[r] = 0 /\ written[r] = 0
        /\ pc[r] \in {"write", "copy"} => reading[r] = Src(r)
        /\ pc[r] \in {"copy", "remove"} => HasCopied(r)
        /\ pc[r] = "remove" => done[r] = Chunks
        /\ pc[r] = "ok" =>
              /\ Exists(target[r]) /\ data[link[target[r]]] = Whole(Src(r))
              /\ IsMove(r) /\ "remove" \notin hurt[r] => link[Src(r)] = None
  <1>2. ASSUME NEW r \in Procs, Alone(r), NoneUnseen(r)'  PROVE Going(r)'
    <2>1. Going(r)
      <3>1. NoneUnseen(r)  BY <1>1, <1>2 DEF Frame, NoneUnseen, Unseen
      <3>2. QED  BY <1>2, <3>1 DEF Progress, Before
    <2>2. /\ target[r] \in Dest(r) /\ target[r] \in Names
          /\ Src(r) \in files /\ Src(r) \in Names /\ Src(r) \notin Dest(r) /\ Src(r) # None
          /\ link[Src(r)] \in {Src(r), None} /\ Intact(Src(r))
      BY <1>2, CommandType, AloneSource DEF Order, Locations
    <2>3. CASE r # p
      <3>1. /\ pc'[r] = pc[r] /\ target'[r] = target[r] /\ reading'[r] = reading[r]
            /\ writing'[r] = writing[r] /\ done'[r] = done[r] /\ written'[r] = written[r]
            /\ hurt'[r] = hurt[r] /\ cmd' = cmd
        BY <1>1, <2>3 DEF Frame
      <3>2. link[target[r]] # None =>
              link'[target[r]] = link[target[r]] /\ data'[link[target[r]]] = data[link[target[r]]]
        BY <1>2, <2>2, <2>3, OthersCopy
      <3>3. link[Src(r)] = None => link'[Src(r)] = None
        <4>1. Src(r) \notin Dest(p)  BY <1>2 DEF Alone, Safe, Protected
        <4>2. QED  BY <2>2, <4>1, LinkKept DEF Order
      <3>4. HasCopied(r) => HasCopied(r)'
        BY <3>1, <3>2 DEF HasCopied, Src, Copied
      <3>5. Src(r)' = Src(r) /\ IsMove(r)' = IsMove(r) /\ Whole(Src(r))' = Whole(Src(r))
        BY <3>1 DEF Src, IsMove, Whole, Chunks
      <3>6. pc[r] = "ok" =>
              /\ Exists(target[r])' /\ data'[link'[target'[r]]] = Whole(Src(r))
              /\ IsMove(r) /\ "remove" \notin hurt'[r] => link'[Src(r)] = None
        BY <2>1, <3>1, <3>2, <3>3 DEF Exists
      <3>7. QED  BY <2>1, <3>1, <3>4, <3>5, <3>6 DEF Chunks
    <2>4. CASE r = p
      <3> DEFINE f == Src(p)
                 t == target[p]
      <3>1. cmd' = cmd  BY <1>1 DEF Frame
      <3>2. Going(p) /\ f \in Names /\ t \in Names /\ t # f /\ f # p /\ f # None /\ link[f] \in {f, None}
            /\ data[f] = Whole(f)
        BY <2>1, <2>2, <2>4, Constants DEF Intact, Inodes
      <3>3. link[t] # f
        BY <1>1, <1>2, <2>2, <2>4, NoOtherName DEF Alone
      <3>4. CASE pc'[p] \in {"failed", "declined", "crashed"}  BY <2>4, <3>4 DEF Before
      <3>5. CASE pc'[p] \in Before \ {"write"} /\ pc[p] \in Before /\ done' = done /\ written' = written
        BY <2>4, <3>2, <3>5 DEF Before
      <3> HIDE DEF Going
      <3>6. CASE Look(p) \/ Decline(p) \/ Proceed(p) \/ Backup(p) \/ Unlink(p) \/ Crash(p)
        <4>1. CASE Look(p)
          BY <3>4, <3>5, <4>1 DEF Look, Goto, TypeOK, Before
        <4>2. CASE Decline(p) \/ Crash(p)
          BY <3>4, <4>2 DEF Decline, Crash, Goto, TypeOK
        <4>3. CASE Proceed(p)
          BY <3>5, <4>3 DEF Proceed, AfterBackup, Goto, TypeOK, Before
        <4>4. CASE Backup(p)
          <5>1. pc'[p] \in {"failed", "unlink", "rename", "read"} /\ pc[p] = "backup"
                /\ done' = done /\ written' = written
            BY <4>4 DEF Backup, AfterBackup, Goto, TypeOK
          <5>2. QED  BY <3>4, <3>5, <5>1 DEF Before
        <4>5. CASE Unlink(p)  BY <3>5, <4>5 DEF Unlink, Goto, TypeOK, Before
        <4>6. QED  BY <3>6, <4>1, <4>2, <4>3, <4>4, <4>5
      <3>7. CASE Rename(p)
        <4>1. /\ pc[p] = "rename" /\ target' = target /\ data' = data /\ done' = done
              /\ written' = written
          BY <3>7 DEF Rename
        <4>2. CASE pc'[p] \in {"failed", "read"}  BY <3>4, <3>5, <4>1, <4>2 DEF Before
        <4>3. CASE Exists(f) /\ link' = Renamed(f, t) /\ pc'[p] = "ok"
          <5>1. link' = [link EXCEPT ![t] = f, ![f] = None]
            BY <3>2, <3>3, <4>3, Zenon DEF Renamed, Exists
          <5>2. link'[t] = f /\ link'[f] = None  BY <3>2, <5>1 DEF TypeOK
          <5>3. QED
            BY <2>4, <3>1, <3>2, <4>1, <4>3, <5>2 DEF Going, Exists, Src, Whole, Chunks, Before
        <4>4. QED  BY <3>7, <4>2, <4>3 DEF Rename, Goto, TypeOK, Src
      <3>8. CASE OpenSource(p)
        <4>1. /\ pc[p] = "read" /\ pc'[p] = (IF Exists(f) THEN "write" ELSE "failed")
              /\ reading'[p] = link[f] /\ done' = done /\ written' = written
          BY <3>8 DEF OpenSource, Goto, TypeOK, Src
        <4>2. CASE ~Exists(f)  BY <3>4, <4>1, <4>2
        <4>3. CASE Exists(f)
          <5>1. link[f] = f /\ pc'[p] = "write"  BY <3>2, <4>1, <4>3 DEF Exists
          <5>2. QED  BY <2>4, <3>1, <3>2, <4>1, <5>1 DEF Going, Src, Before
        <4>4. QED  BY <4>2, <4>3
      <3>9. CASE /\ pc[p] = "write" /\ target' = target /\ reading' = reading
                 /\ done' = done /\ written' = written
                 /\ \E l \in {link, [link EXCEPT ![t] = None]} : Opened(p, l)
        <4>1. PICK l \in {link, [link EXCEPT ![t] = None]} : Opened(p, l)  BY <3>9
        <4> DEFINE i == IF l[t] # None THEN l[t] ELSE p
        <4>2. l \in [Names -> Inodes \cup {None}] /\ l[t] \in {link[t], None}
          BY <3>2, <4>1 DEF TypeOK
        <4>3. i \in Inodes /\ i # None /\ i # f
          BY <3>2, <3>3, <4>2, Constants DEF Inodes
        <4>4. /\ pc'[p] = "copy"
              /\ link' = [l EXCEPT ![t] = i] /\ data' = [data EXCEPT ![i] = <<>>]
              /\ writing' = [writing EXCEPT ![p] = i]
          BY <4>1 DEF Opened, Goto, TypeOK
        <4> HIDE DEF i
        <4>5. link'[t] = i /\ data'[i] = <<>> /\ writing'[p] = i
          BY <3>2, <4>2, <4>3, <4>4 DEF TypeOK
        <4>6. done[p] = 0 /\ written[p] = 0 /\ reading[p] = f
          BY <3>2, <3>9 DEF Going, Before
        <4>7. data'[i] = Copied(f, 0)  BY <3>2, <4>5, CopyGrows
        <4>8. HasCopied(p)'
          BY <3>1, <3>9, <4>3, <4>5, <4>6, <4>7 DEF HasCopied, Src, Copied
        <4>9. QED  BY <2>4, <3>1, <3>9, <4>4, <4>6, <4>8 DEF Going, Src, Before
      <3>10. CASE OpenTarget(p) \/ OpenFails(p)
        <4>1. CASE OpenTarget(p)  BY <3>9, <4>1, Zenon DEF OpenTarget
        <4>2. CASE OpenFails(p)
          <5>1. CASE Goto(p, "failed")  BY <3>4, <5>1 DEF Goto, TypeOK
          <5>2. CASE pc[p] = "write" /\ \E l \in {link, [link EXCEPT ![t] = None]} : Opened(p, l)
            BY <3>9, <4>2, <5>2 DEF OpenFails
          <5>3. QED  BY <4>2, <5>1, <5>2, OpenFailing
        <4>3. QED  BY <3>10, <4>1, <4>2
      <3>15. CASE WriteFails(p) \/ ReadFails(p)
        <4>1. ASSUME \E call \in Unseen[cmd[p].op] : Fails(p, call)  PROVE FALSE
          <5>1. PICK call \in Unseen[cmd[p].op] : Fails(p, call)  BY <4>1
          <5>2. call \in hurt'[p]  BY <5>1 DEF Fails, TypeOK
          <5>3. Unseen' = Unseen  BY DEF Unseen
          <5>4. QED  BY <1>2, <2>4, <3>1, <5>1, <5>2, <5>3 DEF NoneUnseen
        <4>2. CASE WriteFails(p)
          <5>1. "write" \in Unseen[cmd[p].op]  BY CommandType DEF Unseen
          <5>2. QED  BY <4>1, <4>2, <5>1 DEF WriteFails
        <4>3. CASE ReadFails(p) /\ cmd[p].op = "mv"
          <5>1. "read" \in Unseen[cmd[p].op]  BY <4>3 DEF Unseen
          <5>2. QED  BY <4>1, <4>3, <5>1 DEF ReadFails
        <4>4. CASE ReadFails(p) /\ cmd[p].op # "mv"
          BY <3>4, <4>4 DEF ReadFails, Goto, TypeOK
        <4>5. QED  BY <3>15, <4>2, <4>3, <4>4
      <3>11. CASE CopyChunk(p)
        <4> DEFINE i == link[t]
        <4>1. /\ pc[p] = "copy" /\ pc' = pc /\ target' = target /\ reading' = reading
              /\ writing' = writing /\ link' = link
              /\ done[p] < Len(data[reading[p]])
              /\ data' = [data EXCEPT ![writing[p]] =
                            Put(@, written[p] + 1, data[reading[p]][done[p] + 1])]
              /\ done' = [done EXCEPT ![p] = @ + 1] /\ written' = [written EXCEPT ![p] = @ + 1]
          BY <3>11 DEF CopyChunk, MoreToRead
        <4>2. /\ reading[p] = f /\ i # None /\ writing[p] = i /\ i # f
              /\ written[p] = done[p] /\ data[i] = Copied(f, done[p])
          BY <3>2, <4>1 DEF Going, HasCopied
        <4>3. done[p] \in 0..1
          BY <3>2, <4>1, <4>2, Constants DEF TypeOK, Chunks
        <4>4. i \in Inodes  BY <3>2, <4>2 DEF TypeOK
        <4>5. data'[i] = Put(Copied(f, done[p]), done[p] + 1, Whole(f)[done[p] + 1])
          BY <3>2, <4>1, <4>2, <4>4 DEF TypeOK
        <4>6. data'[i] = Copied(f, done[p] + 1)  BY <3>2, <4>3, <4>5, CopyGrows
        <4>7. done'[p] = done[p] + 1 /\ written'[p] = done[p] + 1
          BY <4>1, <4>2 DEF TypeOK
        <4>8. HasCopied(p)'
          BY <3>1, <4>1, <4>2, <4>6, <4>7, Zenon DEF HasCopied, Src, Copied
        <4>9. QED  BY <2>4, <3>1, <4>1, <4>2, <4>8 DEF Going, Src, Before
      <3>12. CASE EndCopy(p)
        <4>1. /\ pc[p] = "copy" /\ pc'[p] = (IF IsMove(p) THEN "remove" ELSE "ok")
              /\ ~(done[p] < Len(data[reading[p]]))
              /\ UNCHANGED <<link, data, target, reading, writing, done, written>>
          BY <3>12 DEF EndCopy, MoreToRead, Goto, TypeOK
        <4>2. reading[p] = f /\ HasCopied(p)  BY <3>2, <4>1 DEF Going
        <4>3. done[p] \in 0..2 /\ Len(data[f]) = 2
          BY <3>2, Constants DEF TypeOK, Chunks
        <4>4. done[p] = 2  BY <4>1, <4>2, <4>3
        <4>5. Exists(t) /\ data[link[t]] = Whole(f)
          BY <3>2, <4>2, <4>4, CopyGrows DEF HasCopied, Exists
        <4>6. HasCopied(p)'  BY <3>1, <4>1, <4>2 DEF HasCopied, Src, Copied
        <4>7. QED
          BY <2>4, <3>1, <4>1, <4>4, <4>5, <4>6
          DEF Going, Src, Before, IsMove, Exists, Whole, Chunks
      <3>13. CASE RemoveSource(p)
        <4>1. /\ pc[p] = "remove" /\ pc'[p] \in {"ok", "failed"} /\ data' = data /\ target' = target
              /\ \/ link' = [link EXCEPT ![f] = None]
                 \/ link' = link /\ "remove" \in hurt'[p]
          BY <3>13 DEF RemoveSource, Fails, Goto, TypeOK, Src
        <4>2. HasCopied(p) /\ done[p] = 2  BY <3>2, <4>1 DEF Going, Chunks
        <4>3. Exists(t) /\ data[link[t]] = Whole(f)
          BY <3>2, <4>2, CopyGrows DEF HasCopied, Exists
        <4>4. link'[t] = link[t] /\ (link'[f] = None \/ "remove" \in hurt'[p])
          BY <3>2, <4>1 DEF TypeOK
        <4>5. CASE pc'[p] = "ok"
          BY <2>4, <3>1, <4>1, <4>3, <4>4, <4>5
          DEF Going, Src, Before, IsMove, Exists, Whole, Chunks
        <4>6. QED  BY <3>4, <4>1, <4>5
      <3>14. QED
        BY <3>6, <3>7, <3>8, <3>10, <3>11, <3>12, <3>13, <3>15 DEF Step
    <2>5. QED  BY <2>3, <2>4
  <1>3. \A r \in Procs : Alone(r)' => Alone(r)
    BY <1>1, Zenon DEF Frame, Alone, Safe, Protected, Undisturbed, Dest, Src, IsMove
  <1>4. \A r \in Procs : Alone(r)' /\ NoneUnseen(r)' => Going(r)'  BY <1>2, <1>3
  <1>5. QED  BY <1>4 DEF Progress, Before

----------------------------------------------------------------------------
(***************************************************************************)
(* The invariant, and what it says of every execution.                     *)
(***************************************************************************)
LEMMA InvInit == Init => Inv
PROOF
  <1> SUFFICES ASSUME Init  PROVE Inv
    OBVIOUS
  <1>1. TypeOK /\ BesideDest  BY TypeInit, BesideInit
  <1>2. /\ \A p \in Procs : /\ pc[p] = "start" /\ target[p] = cmd[p].to /\ writing[p] = None
                            /\ done[p] = 0 /\ written[p] = 0
        /\ \A n \in Names : link[n] = IF n \in files THEN n ELSE None
        /\ \A f \in files : data[f] = Whole(f) /\ f # None /\ f \in Names
    BY <1>1, Constants DEF Init, Inodes, TypeOK
  <1>3. \A f \in files : Intact(f)  BY <1>2 DEF Intact
  <1>4. Order
    <2>1. Locations  BY <1>2 DEF Locations, Dest, Destinations
    <2>2. Injective  BY <1>2 DEF Injective
    <2>3. Fresh
      <3>1. \A p \in Procs, n \in Names : link[n] # p  BY <1>2, Constants DEF Inodes
      <3>2. \A p, q \in Procs : writing[q] # p  BY <1>2, Constants DEF Inodes
      <3>3. QED  BY <1>2, <3>1, <3>2 DEF Fresh
    <2>4. QED  BY <2>1, <2>2, <2>3 DEF Order
  <1>5. Sources
    <2>1. \A f \in files : link[f] = f /\ link[f] # None  BY <1>2
    <2>2. QED  BY <1>3, <2>1 DEF Sources
  <1>6. Replacing
    <2> SUFFICES ASSUME NEW p \in Procs, PlainMove(p)
                 PROVE  link[cmd[p].to] = cmd[p].to /\ Intact(cmd[p].to)
      BY <1>2 DEF Replacing
    <2> QED  BY <1>2, <1>3 DEF PlainMove
  <1>7. Backups
    <2> SUFFICES ASSUME NEW p \in Procs, BacksUp(p)
                 PROVE  link[cmd[p].to] = cmd[p].to /\ Intact(cmd[p].to)
      BY <1>2 DEF Backups
    <2> QED  BY <1>2, <1>3 DEF BacksUp
  <1>8. Copying
    <2>1. Lasting
      <3>1. \A f \in files, n \in Names : n # f => link[n] # f  BY <1>2
      <3>2. QED  BY <1>3, <3>1 DEF Lasting
    <2>2. Unshared  BY <1>2 DEF Unshared
    <2>3. Progress  BY <1>2 DEF Progress
    <2>4. QED  BY <2>1, <2>2, <2>3 DEF Copying
  <1>9. QED  BY <1>1, <1>4, <1>5, <1>6, <1>7, <1>8 DEF Inv

LEMMA InvStep == Inv /\ [Next]_vars => Inv'
PROOF
  <1> SUFFICES ASSUME Inv, [Next]_vars  PROVE Inv'
    OBVIOUS
  <1> USE DEF Inv
  <1>1. CASE UNCHANGED vars
    <2> USE <1>1 DEF vars
    <2>1. TypeOK'  BY DEF TypeOK
    <2>2. Order'
      BY DEF Order, Locations, Injective, Fresh, Dest, IsMove
    <2>3. Sources'  BY DEF Sources, Protected, Intact, Dest, Src, IsMove
    <2>4. Replacing'
      BY DEF Replacing, PlainMove, Intact, Src, Undisturbed, HasSource
    <2>5. Backups' /\ BesideDest'
      BY DEF Backups, BesideDest, BacksUp, NoBackup, Intact, Src, Undisturbed
    <2>6. /\ \A f \in files : Safe(f)' => Safe(f)
          /\ \A p \in Procs : Alone(p)' => Alone(p)
      BY Zenon DEF Alone, Safe, Protected, Undisturbed, Dest, Src, IsMove
    <2>7. Lasting'  BY <2>6 DEF Copying, Lasting, Intact, Src, IsMove
    <2>8. Unshared'  BY <2>6 DEF Copying, Unshared, Dest
    <2>9. Progress'
      BY <2>6 DEF Copying, Progress, NoneUnseen, HasCopied, Copied, Exists, Src, IsMove, Whole
    <2>10. QED  BY <2>1, <2>2, <2>3, <2>4, <2>5, <2>7, <2>8, <2>9 DEF Copying
  <1>2. ASSUME NEW p \in Procs, Step(p) \/ Crash(p)  PROVE Inv'
    <2>1. TypeOK' /\ Order'  BY <1>2, TypeStep, OrderStep DEF Order
    <2>2. Sources' /\ Replacing'  BY <1>2, SourcesStep, ReplacingStep
    <2>3. Backups' /\ BesideDest'  BY <1>2, BackupsStep
    <2>4. Copying'  BY <1>2, LastingStep, UnsharedStep, ProgressStep DEF Copying
    <2>5. QED  BY <2>1, <2>2, <2>3, <2>4
  <1>3. QED  BY <1>1, <1>2 DEF Next, Terminated

LEMMA Invariance == Spec => []Inv
PROOF
  <1>1. QED  BY InvInit, InvStep, PTL DEF Spec

\* Every variable keeps to its values.  In particular no command reads or
\* writes what it has not opened, and none reads past the end of its source.
THEOREM FilesTyped == Spec => []TypeOK
PROOF
  <1>1. Inv => TypeOK  BY DEF Inv
  <1>2. QED  BY <1>1, Invariance, PTL

\* Wherever commands of any number are stopped, and whatever calls fail in them,
\* a source can be found whole, unless a move of it did not look at a call on the
\* data or shares its names with others; and so can what a destination held before
\* -b, unless mv could not rename it to DEST~.
THEOREM NothingIsLost == Spec => []FilesSurvive
PROOF
  <1>1. Inv => SourceSurvives
    <2> SUFFICES ASSUME Inv, NEW p \in Procs, Undisturbed(p), HasSource(p),
                        \A q \in Procs : cmd[q].src = cmd[p].src /\ IsMove(q) => NoneUnseen(q) /\ Undisturbed(q)
                 PROVE  Survives(Src(p))
      BY DEF SourceSurvives, Src
    <2> DEFINE f == Src(p)
    <2>1. Safe(f) /\ f \in files /\ f \in Names /\ f # None
      <3>1. Protected(f)  BY DEF Protected, HasSource, Undisturbed, Src, Dest
      <3>2. f \in files /\ f \in Names /\ f # None
        BY <3>1, Constants DEF Protected, Inv, TypeOK, Inodes
      <3>3. QED  BY <3>1, <3>2 DEF Safe, Src
    <2>2. CASE link[f] = f
      BY <2>1, <2>2 DEF Inv, Copying, Lasting, Intact, Survives, Exists
    <2>3. CASE link[f] = None
      <3>1. PICK m \in Procs : Src(m) = f /\ IsMove(m) /\ pc[m] = "ok"
        BY <2>1, <2>3 DEF Inv, Sources, Safe
      <3>2. Alone(m) /\ NoneUnseen(m)  BY <2>1, <3>1 DEF Alone, Src, Safe
      <3>3. Exists(target[m]) /\ data[link[target[m]]] = Whole(f)
        BY <3>1, <3>2 DEF Inv, Copying, Progress
      <3>4. target[m] \in Names  BY CommandType DEF Inv
      <3>5. QED  BY <3>3, <3>4 DEF Survives
    <2>4. QED  BY <2>1, <2>2, <2>3 DEF Inv, Sources, Safe
  <1>2. Inv => BackupSurvives
    <2> SUFFICES ASSUME Inv, NEW p \in Procs, BacksUp(p), ~NoBackup(p)
                 PROVE  Survives(cmd[p].to)
      BY DEF BackupSurvives, BacksUp, Src
    <2>1. Intact(cmd[p].to) /\ (link[cmd[p].to] = cmd[p].to \/ link[cmd[p].spare] = cmd[p].to)
      BY DEF Inv, Backups
    <2>2. cmd[p].to \in Names /\ cmd[p].spare \in Names /\ cmd[p].to # None
      BY CommandType, Constants DEF Inv, Inodes
    <2>3. QED  BY <2>1, <2>2 DEF Survives, Exists, Intact
  <1>3. Inv => FilesSurvive  BY <1>1, <1>2 DEF FilesSurvive
  <1>4. QED  BY <1>3, Invariance, PTL

\* A plain mv over a file of the same file system is atomic: whatever others do
\* with other names, and whenever it stops, its destination is there and holds
\* all of the old file or all of the new one.
THEOREM MoveIsAtomic == Spec => []ReplacedAtOnce
PROOF
  <1>1. Inv => ReplacedAtOnce
    <2> SUFFICES ASSUME Inv, NEW p \in Procs, PlainMove(p)
                 PROVE  /\ Exists(cmd[p].to)
                        /\ data[link[cmd[p].to]] \in {Whole(cmd[p].to), Whole(cmd[p].src)}
      BY DEF ReplacedAtOnce, PlainMove, Src
    <2>1. PICK i \in {cmd[p].to, Src(p)} : link[cmd[p].to] = i /\ Intact(i)
      BY DEF Inv, Replacing
    <2>2. i # None  BY CommandType, Constants DEF Inv, Inodes
    <2>3. QED  BY <2>1, <2>2 DEF Exists, Intact, Src
  <1>2. QED  BY <1>1, Invariance, PTL

\* A command that reports success did all of it, by rename or by copy, whatever
\* calls of it failed, unless one failed on the data that it does not look at; the
\* source of a move is gone, unless trash could not remove it.
THEOREM SuccessMeansDone == Spec => []SuccessIsComplete
PROOF
  <1>1. Inv => SuccessIsComplete
    <2> SUFFICES ASSUME Inv, NEW p \in Procs, pc[p] = "ok", Undisturbed(p), HasSource(p),
                        OnlyOneWithSource(p), NoneUnseen(p)
                 PROVE  /\ Exists(target[p]) /\ data[link[target[p]]] = Whole(cmd[p].src)
                        /\ IsMove(p) /\ "remove" \notin hurt[p] => ~Exists(cmd[p].src)
      BY DEF SuccessIsComplete
    <2>1. Alone(p)
      BY DEF Alone, Safe, Protected, HasSource, Undisturbed, OnlyOneWithSource, Others, Src, Dest
    <2>2. QED  BY <2>1 DEF Inv, Copying, Progress, Exists, Src
  <1>2. QED  BY <1>1, Invariance, PTL

----------------------------------------------------------------------------
(***************************************************************************)
(* sed -i.                                                                 *)
(***************************************************************************)
\* Files are there for every name, and paths are those of the command line.
Shape ==
    /\ job \in Jobs
    /\ disk = [n \in FileNames |-> disk[n]]
    /\ good = [n \in FileNames |-> good[n]]
    /\ left \in Seq(FileNames)
    /\ \A i \in 1..Len(left) : job.inPlace => left[i] \in Edited(job)
    /\ phase \in {"backup", "replace"} => job.inPlace

InHand == (phase \in {"backup", "replace"} /\ Path \notin cut) => temp \in good[Path]

KeptWhole(f) ==
    \/ disk[f] \in good[f]
    \/ disk[f] = Nil /\ disk[BackupName[f]] \in good[f]

AllKept == InHand /\ \A f \in Edited(job) \ cut : KeptWhole(f)

EditInv == SedTypeOK /\ Shape /\ AllKept

----------------------------------------------------------------------------

LEMMA EditInit ==
    ASSUME JobAssumption, SedInit
    PROVE  EditInv
PROOF
  <1>1. /\ job \in Jobs
        /\ job.files \in [FileNames -> {job.files[f] : f \in FileNames}]
        /\ job.paths \in Seq(FileNames)
        /\ Len(job.script) \in Nat /\ DOMAIN job.script = 1..Len(job.script)
    BY DEF JobAssumption, SedInit
  <1>2. SedTypeOK
    <2>1. range_active \in [DOMAIN script -> BOOLEAN]  BY DEF SedInit
    <2>2. ci \in 1..(Len(script) + 1)  BY <1>1 DEF SedInit, script
    <2>3. DOMAIN disk = FileNames  BY <1>1 DEF SedInit
    <2>4. phase = "open" /\ line_num = 0 /\ deleted = FALSE /\ quit = FALSE /\ cut = {}
          /\ append_queue = <<>> /\ read_queue = <<>>
      BY DEF SedInit
    <2>5. QED  BY <1>1, <2>1, <2>2, <2>3, <2>4, Zenon DEF SedTypeOK
  <1>3. disk = [n \in FileNames |-> disk[n]] /\ good = [n \in FileNames |-> good[n]]
    BY <1>1 DEF SedInit
  <1>4. left \in Seq(FileNames) /\ \A i \in 1..Len(left) : job.inPlace => left[i] \in Edited(job)
    <2>1. left = job.paths  BY DEF SedInit
    <2>2. DOMAIN job.paths = 1..Len(job.paths)  BY <1>1
    <2>3. QED  BY <1>1, <2>1, <2>2 DEF Edited
  <1>5. Shape  BY <1>1, <1>3, <1>4 DEF SedInit, Shape
  <1>6. AllKept
    <2>1. Edited(job) \subseteq FileNames
      BY <1>1 DEF Edited
    <2>2. QED  BY <2>1 DEF SedInit, AllKept, InHand, KeptWhole
  <1>7. QED  BY <1>2, <1>5, <1>6 DEF EditInv

\* What a command of the script leaves alone, and that it goes on to the next.
LEMMA CommandFrame ==
    ASSUME ScriptStep
    PROVE  /\ phase = "run" /\ phase' = "run" /\ ci <= Len(script) /\ ci' = ci + 1
           /\ job' = job /\ left' = left /\ temp' = temp /\ good' = good /\ cut' = cut
           /\ range_active' = [range_active EXCEPT ![ci] = StaysActive]
PROOF
  <1>1. CASE Skip
    BY <1>1 DEF Skip, edit
  <1>2. CASE \E t \in {"p", "=", "i", "s", "y", "d", "q", "a", "c", "n", "N", "w", "r"} : At(t)
    BY <1>2 DEF At, edit
  <1>3. QED
    BY <1>1, <1>2 DEF ScriptStep, Prints, Substitute, Transliterate, Delete, Quit, AppendText,
       Change, NextLine, NextAppend, WriteTo, ReadFrom

LEMMA EditedNames ==
    ASSUME JobAssumption, NEW j \in Jobs
    PROVE  Edited(j) \subseteq FileNames
PROOF
  <1>1. j.paths \in Seq(FileNames)  BY DEF JobAssumption
  <1>2. \A i \in DOMAIN j.paths : j.paths[i] \in FileNames  BY <1>1
  <1>3. QED  BY <1>2 DEF Edited

\* Of the commands only w writes to a file, and to none that is edited.
LEMMA CommandDisk ==
    ASSUME JobAssumption, SedTypeOK, Shape, ScriptStep
    PROVE  /\ disk' = [n \in FileNames |-> disk'[n]]
           /\ \A f \in Edited(job) : disk'[f] = disk[f] /\ disk'[BackupName[f]] = disk[BackupName[f]]
PROOF
  <1>1. CASE disk' = disk
    BY <1>1 DEF Shape
  <1>2. CASE WriteTo /\ disk' # disk
    <2>1. PICK c : disk' = [disk EXCEPT ![command.file] = c]
      BY <1>2, Zenon DEF WriteTo
    <2>2. ci \in DOMAIN job.script /\ job.script[ci].type = "w" /\ job \in Jobs
      <3>1. ci <= Len(script)  BY CommandFrame
      <3>2. job \in Jobs /\ ci \in 1..(Len(script) + 1)  BY DEF SedTypeOK
      <3>3. Len(script) \in Nat /\ DOMAIN job.script = 1..Len(script)
        BY <3>2 DEF JobAssumption, script
      <3>4. job.script[ci].type = "w"  BY <1>2, Zenon DEF WriteTo, At, command, script
      <3>5. QED  BY <3>1, <3>2, <3>3, <3>4
    <2>3. command.file \in FileNames \ (Edited(job) \cup {BackupName[f] : f \in Edited(job)})
      BY <2>2 DEF JobAssumption, command, script
    <2>4. \A f \in Edited(job) : f \in FileNames /\ BackupName[f] \in FileNames
      BY <2>2, EditedNames DEF JobAssumption
    <2>5. QED  BY <2>1, <2>3, <2>4, Zenon DEF Shape
  <1>3. QED
    BY <1>1, <1>2 DEF ScriptStep, Skip, Prints, Substitute, Transliterate, Delete, Quit, AppendText,
       Change, NextLine, NextAppend, WriteTo, ReadFrom

\* The commands keep the flags and the line number in their ranges.
LEMMA CommandTypes ==
    ASSUME JobAssumption, SedTypeOK, ScriptStep
    PROVE  SedTypeOK'
PROOF
  <1>1. /\ phase = "run" /\ phase' = "run" /\ ci <= Len(script) /\ ci' = ci + 1
        /\ job' = job /\ left' = left /\ cut' = cut
        /\ range_active' = [range_active EXCEPT ![ci] = StaysActive]
    BY CommandFrame
  <1>2. Len(script) \in Nat /\ DOMAIN script = 1..Len(script) /\ script' = script
    BY <1>1 DEF SedTypeOK, JobAssumption, script
  <1>3. ci' \in 1..(Len(script') + 1)
    BY <1>1, <1>2 DEF SedTypeOK
  <1>4. range_active' \in [DOMAIN script' -> BOOLEAN]
    <2>1. StaysActive \in BOOLEAN  BY DEF StaysActive
    <2>2. QED  BY <1>1, <1>2, <2>1 DEF SedTypeOK
  <1>5. line_num' \in Nat /\ deleted' \in BOOLEAN /\ quit' \in BOOLEAN
    <2>1. line_num \in Nat /\ deleted \in BOOLEAN /\ quit \in BOOLEAN  BY DEF SedTypeOK
    <2>2. CASE NextLine
      <3>1. line_num' = line_num \/ line_num' = line_num + 1  BY <2>2 DEF NextLine
      <3>2. quit' = TRUE \/ quit' = quit  BY <2>2, Zenon DEF NextLine
      <3>3. deleted' = deleted  BY <2>2 DEF NextLine
      <3>4. quit' \in BOOLEAN  BY <2>1, <3>2, Zenon
      <3>5. QED  BY <2>1, <3>1, <3>3, <3>4
    <2>3. CASE NextAppend \/ Delete \/ Quit \/ Change
      BY <2>1, <2>3, Zenon DEF NextAppend, Delete, Quit, Change, Keep
    <2>4. CASE Skip \/ Prints \/ Substitute \/ Transliterate \/ AppendText \/ WriteTo \/ ReadFrom
      BY <2>1, <2>4 DEF Skip, Prints, Substitute, Transliterate, AppendText, WriteTo, ReadFrom,
         Keep, KeepFlags
    <2>5. QED  BY <2>2, <2>3, <2>4 DEF ScriptStep
  <1>6. DOMAIN disk' = FileNames
    BY DEF SedTypeOK, ScriptStep, Skip, Prints, Substitute, Transliterate, Delete, Quit, AppendText,
       Change, NextLine, NextAppend, WriteTo, ReadFrom, Keep, KeepFlags
  <1>7. QED  BY <1>1, <1>3, <1>4, <1>5, <1>6 DEF SedTypeOK

LEMMA RestOfPaths ==
    ASSUME Shape, left # <<>>
    PROVE  /\ Path \in FileNames /\ (job.inPlace => Path \in Edited(job))
           /\ Tail(left) \in Seq(FileNames)
           /\ \A i \in 1..Len(Tail(left)) : job.inPlace => Tail(left)[i] \in Edited(job)
PROOF
  BY DEF Shape, Path

LEMMA EditTypeStep ==
    ASSUME JobAssumption, SedTypeOK, Shape, [SedNext]_sedVars
    PROVE  SedTypeOK'
PROOF
  <1>1. CASE ScriptStep  BY <1>1, CommandTypes
  <1>2. CASE Files
    <2>1. CASE Open
      <3>1. range_active' \in [DOMAIN script' -> BOOLEAN] /\ job' = job /\ script' = script
        BY <2>1 DEF Open, script
      <3>2. QED  BY <2>1, <3>1 DEF Open, SedTypeOK, queues, edit
    <2>2. CASE Passes \/ Return \/ EndOfFile \/ NextFile
      BY <2>2 DEF Passes, Return, EndOfFile, NextFile, SedTypeOK, cycle, queues, edit, script
    <2>3. QED  BY <1>2, <2>1, <2>2 DEF Files
  <1>3. CASE ReadLine
    <2>1. Len(script) \in Nat /\ script' = script
      BY <1>3 DEF ReadLine, SedTypeOK, JobAssumption, script
    <2>2. ci' \in 1..(Len(script') + 1)  BY <1>3, <2>1 DEF ReadLine
    <2>3. line_num' \in Nat /\ deleted' \in BOOLEAN /\ quit' \in BOOLEAN
      <3>1. line_num' \in Nat  BY <1>3 DEF ReadLine, SedTypeOK
      <3>2. deleted' = FALSE /\ quit' = FALSE  BY <1>3, Zenon DEF ReadLine
      <3>3. QED  BY <3>1, <3>2, Zenon
    <2>4. QED  BY <1>3, <2>1, <2>2, <2>3 DEF ReadLine, SedTypeOK, queues, edit
  <1>4. CASE EndCycle
    BY <1>4 DEF EndCycle, SedTypeOK, cycle, edit, script
  <1>5. CASE InPlace
    <2>1. CASE Flush
      <3>1. Path \in FileNames  BY <2>1, RestOfPaths DEF Flush, SedTypeOK
      <3>2. cut' \subseteq FileNames
        <4>1. cut' = cut \/ cut' = cut \cup {Path}  BY <2>1, Zenon DEF Flush
        <4>2. QED  BY <3>1, <4>1 DEF SedTypeOK
      <3>3. phase = "eof" /\ phase' = "backup" /\ job' = job /\ disk' = disk /\ left' = left
            /\ script' = script /\ UNCHANGED <<cycle, queues>>
        BY <2>1, Zenon DEF Flush, script
      <3>4. QED  BY <3>2, <3>3, Zenon DEF SedTypeOK, cycle, queues
    <2>2. CASE BackUp \/ Replace
      BY <2>2, Zenon DEF BackUp, Replace, RenameOver, SedTypeOK, cycle, queues, edit, script
    <2>3. QED  BY <1>5, <2>1, <2>2 DEF InPlace
  <1>r. CASE ReadError
    <2>1. cut' \subseteq FileNames /\ left # <<>>
      BY <1>r, RestOfPaths DEF ReadError, SedTypeOK
    <2>2. QED  BY <1>r, <2>1, Zenon DEF ReadError, SedTypeOK, queues, script
  <1>6. CASE Kill \/ SedTerminated \/ UNCHANGED sedVars
    BY <1>6 DEF Kill, SedTerminated, SedTypeOK, sedVars, cycle, queues, edit, script
  <1>7. QED  BY <1>1, <1>2, <1>3, <1>4, <1>5, <1>r, <1>6 DEF SedNext

\* The rest of the paths is part of the command line's.
LEMMA ShapeStep ==
    ASSUME JobAssumption, SedTypeOK, Shape, [SedNext]_sedVars
    PROVE  Shape'
PROOF
  <1>1. CASE ScriptStep
    <2>1. job' = job /\ left' = left /\ good' = good /\ phase' = "run"  BY <1>1, CommandFrame
    <2>2. disk' = [n \in FileNames |-> disk'[n]]  BY <1>1, CommandDisk
    <2>3. QED  BY <2>1, <2>2 DEF Shape
  <1>2. CASE Open \/ Return \/ EndOfFile \/ ReadLine \/ ReadError \/ EndCycle \/ Kill \/ UNCHANGED sedVars
    <2>1. job' = job /\ left' = left /\ good' = good /\ disk' = disk
      BY <1>2 DEF Open, Return, EndOfFile, ReadLine, ReadError, EndCycle, Kill, sedVars, edit
    <2>2. phase' = phase \/ phase' \notin {"backup", "replace"}
      BY <1>2 DEF Open, Return, EndOfFile, ReadLine, ReadError, EndCycle, Kill, sedVars
    <2>3. QED  BY <2>1, <2>2 DEF Shape
  <1>3. CASE Passes \/ NextFile
    <2>1. job' = job /\ good' = good /\ disk' = disk /\ left # <<>> /\ left' = Tail(left)
          /\ phase' = "open"
      BY <1>3 DEF Passes, NextFile, edit, SedTypeOK
    <2>2. QED  BY <2>1, RestOfPaths DEF Shape
  <1>4. CASE Flush
    <2>1. job' = job /\ left' = left /\ disk' = disk /\ job.inPlace /\ left # <<>>
      BY <1>4 DEF Flush, SedTypeOK
    <2>2. good' = good \/ good' = [good EXCEPT ![Path] = @ \cup {out}]  BY <1>4, Zenon DEF Flush
    <2>3. QED  BY <2>1, <2>2, Zenon DEF Shape
  <1>5. CASE BackUp
    <2>1. job' = job /\ left' = left /\ good' = good /\ phase = "backup"  BY <1>5 DEF BackUp, edit
    <2>2. disk' = [n \in FileNames |-> disk'[n]]  BY <1>5 DEF BackUp, RenameOver, Shape
    <2>3. QED  BY <2>1, <2>2 DEF Shape
  <1>6. CASE Replace
    <2>1. job' = job /\ good' = good /\ left # <<>> /\ left' = Tail(left) /\ phase' = "open"
      BY <1>6 DEF Replace, SedTypeOK
    <2>2. disk' = [n \in FileNames |-> disk'[n]]  BY <1>6 DEF Replace, Shape
    <2>3. QED  BY <2>1, <2>2, RestOfPaths DEF Shape
  <1>7. QED
    BY <1>1, <1>2, <1>3, <1>4, <1>5, <1>6 DEF SedNext, Files, InPlace, SedTerminated

\* No step leaves a file without a whole version, unless its result was cut short.
LEMMA KeptStep ==
    ASSUME JobAssumption, EditInv, [SedNext]_sedVars
    PROVE  AllKept'
PROOF
  <1>2. job \in Jobs /\ Edited(job) \subseteq FileNames /\ BackupName \in [FileNames -> FileNames]
        /\ \A f, g \in Edited(job) : f # g => BackupName[f] \notin {g, BackupName[g]}
    BY EditedNames, Zenon DEF EditInv, SedTypeOK, JobAssumption
  <1>j. job' = job /\ Edited(job') = Edited(job)
    <2>1. job' = job
      <3>1. CASE ScriptStep  BY <3>1, CommandFrame
      <3>2. CASE ~ScriptStep
        BY <3>2 DEF SedNext, Files, Open, Passes, Return, EndOfFile, NextFile, ReadLine, ReadError, EndCycle,
           InPlace, Flush, BackUp, Replace, Kill, SedTerminated, sedVars
      <3>3. QED  BY <3>1, <3>2
    <2>2. QED  BY <2>1
  <1>3. CASE ScriptStep
    <2>1. phase' = "run" /\ good' = good /\ cut' = cut  BY <1>3, CommandFrame
    <2>2. \A f \in Edited(job) : disk'[f] = disk[f] /\ disk'[BackupName[f]] = disk[BackupName[f]]
      BY <1>3, CommandDisk DEF EditInv
    <2>3. \A f \in Edited(job) \ cut : KeptWhole(f)
      BY DEF EditInv, AllKept
    <2>4. InHand'  BY <2>1 DEF InHand
    <2>5. QED  BY <1>j, <2>1, <2>2, <2>3, <2>4 DEF AllKept, KeptWhole
  <1>4. CASE Files \/ ReadLine \/ EndCycle \/ Kill \/ SedTerminated
    <2>1. disk' = disk /\ good' = good /\ cut' = cut /\ phase' \notin {"backup", "replace"}
      BY <1>4 DEF Files, Open, Passes, Return, EndOfFile, NextFile, ReadLine, EndCycle, Kill,
         SedTerminated, sedVars, edit
    <2>2. \A f \in Edited(job) \ cut : KeptWhole(f)
      BY DEF EditInv, AllKept
    <2>3. InHand'  BY <2>1 DEF InHand
    <2>4. QED  BY <1>j, <2>1, <2>2, <2>3 DEF AllKept, KeptWhole
  <1>r. CASE ReadError
    <2>1. disk' = disk /\ good' = good /\ cut \subseteq cut' /\ phase' \in {"read", "run"}
      BY <1>r DEF ReadError
    <2>2. \A f \in Edited(job) \ cut : KeptWhole(f)
      BY DEF EditInv, AllKept
    <2>3. InHand'  BY <2>1 DEF InHand
    <2>4. QED  BY <1>j, <2>1, <2>2, <2>3 DEF AllKept, KeptWhole
  <1>5. CASE Flush
    <2>1. /\ disk' = disk /\ left' = left /\ left # <<>> /\ cut \subseteq cut'
          /\ good' = IF Path \in cut' THEN good ELSE [good EXCEPT ![Path] = @ \cup {out}]
          /\ Path \notin cut' => temp' = out
      BY <1>5 DEF Flush, EditInv, SedTypeOK
    <2>2. Path \in FileNames /\ Path' = Path  BY <2>1, RestOfPaths DEF EditInv, Path
    <2>3. Path \notin cut' => good'[Path] = good[Path] \cup {out}
      BY <2>1, <2>2 DEF EditInv, Shape
    <2>4. \A f \in FileNames : good[f] \subseteq good'[f]
      BY <2>1, <2>2 DEF EditInv, Shape
    <2>5. InHand'  BY <2>1, <2>2, <2>3 DEF InHand
    <2>6. \A f \in Edited(job) \ cut : KeptWhole(f)
      BY DEF EditInv, AllKept
    <2>7. QED  BY <1>2, <1>j, <2>1, <2>4, <2>5, <2>6 DEF AllKept, KeptWhole
  <1>6. CASE BackUp
    <2>1. /\ phase = "backup" /\ left' = left /\ temp' = temp /\ good' = good /\ cut' = cut
          /\ RenameOver(Path, BackupName[Path]) /\ left # <<>>
      BY <1>6 DEF BackUp, edit, EditInv, SedTypeOK
    <2>2. Path \in Edited(job) /\ Path \in FileNames /\ BackupName[Path] \in FileNames
      BY <1>2, <2>1, RestOfPaths DEF EditInv, Shape
    <2>3. InHand'
      BY <2>1 DEF InHand, EditInv, AllKept, Path
    <2>4. \A f \in Edited(job) \ cut : KeptWhole(f)
      BY DEF EditInv, AllKept
    <2>5. CASE disk' = disk
      BY <1>j, <2>1, <2>3, <2>4, <2>5 DEF AllKept, KeptWhole
    <2>6. CASE /\ Path # BackupName[Path] /\ disk[Path] # Nil
               /\ disk' = [disk EXCEPT ![BackupName[Path]] = disk[Path], ![Path] = Nil]
      <3>1. /\ disk'[Path] = Nil /\ disk'[BackupName[Path]] = disk[Path]
            /\ \A n \in FileNames \ {Path, BackupName[Path]} : disk'[n] = disk[n]
        BY <2>2, <2>6 DEF EditInv, Shape
      <3>2. Path \notin cut => disk[Path] \in good[Path]
        BY <2>2, <2>4, <2>6 DEF KeptWhole
      <3>3. ASSUME NEW f \in Edited(job), f # Path
            PROVE  disk'[f] = disk[f] /\ disk'[BackupName[f]] = disk[BackupName[f]]
        BY <1>2, <2>2, <3>1, <3>3
      <3>4. ASSUME NEW f \in Edited(job) \ cut  PROVE KeptWhole(f)'
        <4>1. CASE f = Path  BY <2>1, <3>1, <3>2, <4>1 DEF KeptWhole
        <4>2. CASE f # Path  BY <2>1, <2>4, <3>3, <4>2 DEF KeptWhole
        <4>3. QED  BY <4>1, <4>2
      <3>5. QED  BY <1>j, <2>1, <2>3, <3>4 DEF AllKept
    <2>7. QED  BY <2>1, <2>5, <2>6 DEF RenameOver
  <1>7. CASE Replace
    <2>1. /\ phase = "replace" /\ good' = good /\ cut' = cut /\ phase' = "open" /\ left # <<>>
      BY <1>7 DEF Replace, EditInv, SedTypeOK
    <2>2. Path \in Edited(job) /\ Path \in FileNames
      BY <1>2, <2>1, RestOfPaths DEF EditInv, Shape
    <2>3. InHand'  BY <2>1 DEF InHand
    <2>4. \A f \in Edited(job) \ cut : KeptWhole(f)
      BY DEF EditInv, AllKept
    <2>5. CASE disk' = disk
      BY <1>j, <2>1, <2>3, <2>4, <2>5 DEF AllKept, KeptWhole
    <2>6. CASE disk' = [disk EXCEPT ![Path] = temp]
      <3>1. disk'[Path] = temp /\ \A n \in FileNames \ {Path} : disk'[n] = disk[n]
        BY <2>2, <2>6 DEF EditInv, Shape
      <3>2. Path \notin cut => temp \in good[Path]  BY <2>1 DEF EditInv, AllKept, InHand
      <3>3. ASSUME NEW f \in Edited(job) \ cut  PROVE KeptWhole(f)'
        <4>1. CASE f = Path  BY <2>1, <3>1, <3>2, <4>1 DEF KeptWhole
        <4>2. CASE f # Path
          <5>1. f \in FileNames \ {Path} /\ BackupName[f] \in FileNames \ {Path}
            BY <1>2, <2>2, <4>2
          <5>2. QED  BY <2>1, <2>4, <3>1, <5>1 DEF KeptWhole
        <4>3. QED  BY <4>1, <4>2
      <3>4. QED  BY <1>j, <2>1, <2>3, <3>3 DEF AllKept
    <2>7. QED  BY <1>7, <2>5, <2>6 DEF Replace
  <1>8. CASE UNCHANGED sedVars
    BY <1>8 DEF sedVars, edit, EditInv, AllKept, InHand, KeptWhole, Path
  <1>9. QED  BY <1>3, <1>4, <1>r, <1>5, <1>6, <1>7, <1>8 DEF SedNext, InPlace

LEMMA EditInvAlways ==
    ASSUME JobAssumption
    PROVE  SedSpec => []EditInv
PROOF
  <1>1. SedInit => EditInv  BY EditInit
  <1>2. EditInv /\ [SedNext]_sedVars => EditInv'
    BY EditTypeStep, ShapeStep, KeptStep DEF EditInv
  <1>3. QED  BY <1>1, <1>2, PTL DEF SedSpec

\* Whatever the script does and whatever fails, the variables keep their
\* ranges: ci stays within the script, and nothing queued is left over from
\* one cycle, or file, to the next.
THEOREM EditTyped ==
    ASSUME JobAssumption
    PROVE  SedSpec => []SedTypeOK
PROOF
  <1>1. EditInv => SedTypeOK  BY DEF EditInv
  <1>2. QED  BY <1>1, EditInvAlways, PTL

\* For any files and scripts, with or without a suffix: wherever `sed -i` is
\* stopped and whichever other calls fail, a whole version of each file is under
\* its name or that of its backup, unless the disk was full when its result was written
\* out, or reading it failed.
THEOREM NoEditLost ==
    ASSUME JobAssumption
    PROVE  SedSpec => []EditKept
PROOF
  <1>1. EditInv => EditKept
    BY DEF EditInv, AllKept, KeptWhole, EditKept
  <1>2. QED  BY <1>1, EditInvAlways, PTL

----------------------------------------------------------------------------
(***************************************************************************)
(* sed by its meaning.  First what SedMeaning is made of: recursive        *)
(* functions on numbers, and sequences of sequences joined to one.  There  *)
(* are such functions by RecursionExists; a value follows from the last.   *)
(***************************************************************************)

\* Numbers are well-founded; and so what holds of 0, and of each number after
\* one of which it holds, holds of all.
LEMMA EveryNumber ==
    ASSUME NEW S, 0 \in S, \A n \in Nat : n \in S => n + 1 \in S
    PROVE  Nat \subseteq S
PROOF
  <1> DEFINE N == Nat \ S
  <1>1. SUFFICES ASSUME N # {}  PROVE FALSE
    OBVIOUS
  <1>2. IsWellFoundedOn(OpToRel(<, Nat), Nat)
    BY NatLessThanWellFounded, Zenon
  <1>3. PICK i \in N : \A j \in N : ~ (<<j, i>> \in OpToRel(<, Nat))
    BY <1>1, <1>2, WFMin, Zenon
  <1>4. i \in Nat /\ i # 0 /\ i - 1 \in Nat /\ i - 1 < i  OBVIOUS
  <1>5. i - 1 \notin N
    BY <1>3, <1>4, Zenon DEF OpToRel
  <1>6. i - 1 \in S /\ (i - 1) + 1 = i  BY <1>4, <1>5
  <1>7. QED  BY <1>4, <1>6

\* A recursive function on numbers is there; F[i] is what makes its value at i
\* from the one before.
Makers(n, U) == [1..n -> [U -> U]]
Recursion(n, U, a, F) == {g \in [0..n -> U] : g[0] = a /\ \A i \in 1..n : g[i] = F[i][g[i - 1]]}

\* One step after the other gives such a function.
LEMMA RecursionExists ==
    ASSUME NEW n \in Nat, NEW U, NEW a \in U, NEW F \in Makers(n, U)
    PROVE  Recursion(n, U, a, F) # {}
PROOF
  <1> DEFINE Starts(m, g) == g[0] = a /\ \A i \in 1..m : g[i] = F[i][g[i - 1]]
             S == {m \in Nat : m <= n => \E g \in [0..m -> U] : Starts(m, g)}
  <1>1. 0 \in S
    <2> DEFINE g == [i \in 0..0 |-> a]
    <2>1. g \in [0..0 -> U] /\ g[0] = a  OBVIOUS
    <2>2. 1..0 = {}  OBVIOUS
    <2>3. QED  BY <2>1, <2>2, Zenon
  <1>2. ASSUME NEW m \in Nat, m \in S  PROVE m + 1 \in S
    <2>1. SUFFICES ASSUME m + 1 <= n  PROVE \E g \in [0..(m + 1) -> U] : Starts(m + 1, g)
      OBVIOUS
    <2>2. PICK g \in [0..m -> U] : Starts(m, g)
      BY <1>2, <2>1
    <2>3. m + 1 \in 1..n /\ m \in 0..m /\ m + 1 \in Nat /\ 0 \in 0..m  BY <2>1
    <2>4. F[m + 1][g[m]] \in U  BY <2>3 DEF Makers
    <2> DEFINE h == [i \in 0..(m + 1) |-> IF i = m + 1 THEN F[m + 1][g[m]] ELSE g[i]]
    <2>5. h \in [0..(m + 1) -> U]
      BY <2>4
    <2>6. h[0] = a
      BY <2>2, <2>3
    <2>7. ASSUME NEW i \in 1..(m + 1)  PROVE h[i] = F[i][h[i - 1]]
      <3>1. i - 1 \in 0..m /\ h[i - 1] = g[i - 1]  OBVIOUS
      <3>2. CASE i = m + 1
        <4>1. i - 1 = m /\ h[i] = F[m + 1][g[m]]  BY <3>2
        <4>2. QED  BY <3>1, <3>2, <4>1
      <3>3. CASE i # m + 1
        <4>1. i \in 1..m /\ h[i] = g[i]  BY <3>3
        <4>2. QED  BY <2>2, <3>1, <4>1
      <3>4. QED  BY <3>2, <3>3
    <2>8. QED  BY <2>5, <2>6, <2>7, Zenon
  <1>3. n \in S
    <2> HIDE DEF S
    <2>1. Nat \subseteq S  BY <1>1, <1>2, EveryNumber
    <2>2. QED  BY <2>1
  <1>4. QED  BY <1>3 DEF Recursion

----------------------------------------------------------------------------
(***************************************************************************)
(* Joining sequences.                                                      *)
(***************************************************************************)
Joins(s, f) == f = [i \in 1..Len(s) |-> IF i = 1 THEN s[i] ELSE f[i - 1] \o s[i]]
Joint(s) == CHOOSE f : Joins(s, f)

\* FlattenSeq, by the function it is defined with.
LEMMA FlattenIsJoint ==
    ASSUME NEW s
    PROVE  SeqExt!FlattenSeq(s) = IF Len(s) = 0 THEN s ELSE Joint(s)[Len(s)]
PROOF
  BY DEF SeqExt!FlattenSeq, Joint, Joins

\* What is joined so far, and how it goes on.
LEMMA JointFacts ==
    ASSUME NEW T, NEW s \in Seq(Seq(T))
    PROVE  \A i \in 1..Len(s) :
              Joint(s)[i] \in Seq(T) /\ Joint(s)[i] = IF i = 1 THEN s[i] ELSE Joint(s)[i - 1] \o s[i]
PROOF
  <1> DEFINE n == Len(s)
             U == Seq(T)
             F == [i \in 1..n |-> [u \in U |-> u \o s[i]]]
  <1>1. n \in Nat /\ \A i \in 1..n : s[i] \in U  OBVIOUS
  <1>2. <<>> \in U /\ \A u \in U : <<>> \o u = u  OBVIOUS
  <1>3. \A i \in 1..n : \A u \in U : u \o s[i] \in U
    <2>1. \A u, v \in Seq(T) : u \o v \in Seq(T)  BY ConcatProperties
    <2>2. QED  BY <1>1, <2>1
  <1>4. F \in Makers(n, U)  BY <1>3 DEF Makers
  <1>5. PICK g \in [0..n -> U] : g[0] = <<>> /\ \A i \in 1..n : g[i] = F[i][g[i - 1]]
    <2> HIDE DEF F, U, n
    <2>1. Recursion(n, U, <<>>, F) # {}  BY <1>1, <1>2, <1>4, RecursionExists
    <2>2. QED  BY <2>1 DEF Recursion
  <1>6. ASSUME NEW i \in 1..n
        PROVE  g[i] \in U /\ g[i - 1] \in U /\ g[i] = g[i - 1] \o s[i]
    <2>1. i - 1 \in 0..n /\ i \in 0..n  BY <1>1
    <2>2. g[i - 1] \in U /\ g[i] \in U  BY <2>1, Zenon
    <2> HIDE DEF U
    <2>3. QED  BY <1>5, <2>2, Zenon
  <1>7. Joins(s, [i \in 1..n |-> g[i]])
    <2> DEFINE h == [i \in 1..n |-> g[i]]
    <2>1. ASSUME NEW i \in 1..n  PROVE h[i] = IF i = 1 THEN s[i] ELSE h[i - 1] \o s[i]
      <3>1. CASE i = 1
        <4>1. g[1] = g[0] \o s[1]
          <5>1. 1 \in 1..n /\ 1 - 1 = 0  BY <3>1
          <5>2. QED  BY <1>6, <5>1, Zenon
        <4>2. s[i] \in U  BY <1>1
        <4>3. QED  BY <1>2, <1>5, <3>1, <4>1, <4>2
      <3>2. CASE i # 1
        <4>1. i - 1 \in 1..n  BY <1>1, <3>2
        <4>2. QED  BY <1>6, <3>2, <4>1, Zenon
      <3>3. QED  BY <3>1, <3>2
    <2>2. h = [i \in 1..n |-> h[i]]  OBVIOUS
    <2> HIDE DEF h
    <2>3. h = [i \in 1..n |-> IF i = 1 THEN s[i] ELSE h[i - 1] \o s[i]]
      BY <2>1, <2>2, Zenon
    <2>4. Joins(s, h)  BY <2>3, Zenon DEF Joins
    <2>5. QED  BY <2>4 DEF h
  <1>8. Joins(s, Joint(s))
    BY <1>7 DEF Joint
  <1> DEFINE J == Joint(s)
  <1>9. \A i \in 1..n : J[i] = IF i = 1 THEN s[i] ELSE J[i - 1] \o s[i]
    <2> HIDE DEF J
    <2>1. J = [i \in 1..n |-> IF i = 1 THEN s[i] ELSE J[i - 1] \o s[i]]  BY <1>8, Zenon DEF Joins, J
    <2>2. QED  BY <2>1, Zenon
  <1> HIDE DEF J
  <1> DEFINE S == {m \in Nat : m \in 1..n => J[m] \in Seq(T)}
  <1>10. 0 \in S  OBVIOUS
  <1>11. ASSUME NEW m \in Nat, m \in S  PROVE m + 1 \in S
    <2>1. SUFFICES ASSUME m + 1 \in 1..n  PROVE J[m + 1] \in Seq(T)
      OBVIOUS
    <2>2. s[m + 1] \in Seq(T)  BY <1>1, <2>1
    <2>3. CASE m = 0
      BY <1>9, <2>1, <2>2, <2>3
    <2>4. CASE m # 0
      <3>1. m \in 1..n /\ (m + 1) - 1 = m /\ m + 1 # 1  BY <2>1, <2>4
      <3>2. J[m] \in Seq(T)  BY <1>11, <3>1
      <3>3. J[m + 1] = J[m] \o s[m + 1]  BY <1>9, <2>1, <3>1, Zenon
      <3>4. QED  BY <2>2, <3>2, <3>3, ConcatProperties
    <2>5. QED  BY <2>3, <2>4
  <1>12. Nat \subseteq S
    <2> HIDE DEF S
    <2>1. QED  BY <1>10, <1>11, EveryNumber, Zenon
  <1>13. \A m \in 1..n : J[m] \in Seq(T)
    <2>1. \A m \in 1..n : m \in Nat  BY <1>1
    <2>2. QED  BY <1>12, <2>1
  <1>14. QED  BY <1>9, <1>13 DEF J

\* Sequences joined are a sequence, and none give the empty one.
LEMMA FlattenType ==
    ASSUME NEW T, NEW s \in Seq(Seq(T))
    PROVE  /\ SeqExt!FlattenSeq(s) \in Seq(T)
           /\ Len(s) = 0 => SeqExt!FlattenSeq(s) = <<>>
PROOF
  <1>1. Len(s) \in Nat  OBVIOUS
  <1>2. CASE Len(s) = 0
    <2>1. s = <<>>
      <3>1. s # <<>> => Len(s) \in Nat \ {0}  BY EmptySeq, Zenon
      <3>2. QED  BY <1>2, <3>1
    <2>2. SeqExt!FlattenSeq(s) = s  BY <1>2, FlattenIsJoint
    <2>3. <<>> \in Seq(T)  OBVIOUS
    <2>4. SeqExt!FlattenSeq(s) = <<>>  BY <2>1, <2>2, Zenon
    <2>5. QED  BY <2>3, <2>4, Zenon
  <1>3. CASE Len(s) # 0
    <2>1. Len(s) \in 1..Len(s)  BY <1>1, <1>3
    <2>2. Joint(s)[Len(s)] \in Seq(T)  BY <2>1, JointFacts
    <2>3. QED  BY <1>3, <2>2, FlattenIsJoint
  <1>4. QED  BY <1>2, <1>3

\* One sequence more.
LEMMA FlattenGrows ==
    ASSUME NEW T, NEW s \in Seq(Seq(T)), NEW x \in Seq(T)
    PROVE  SeqExt!FlattenSeq(Append(s, x)) = SeqExt!FlattenSeq(s) \o x
PROOF
  <1> DEFINE t == Append(s, x)
             n == Len(s)
  <1>1. n \in Nat /\ t \in Seq(Seq(T)) /\ Len(t) = n + 1 /\ t[n + 1] = x
        /\ \A i \in 1..n : t[i] = s[i] /\ i \in 1..Len(t)
    BY AppendProperties
  <1> HIDE DEF t
  <1>2. SeqExt!FlattenSeq(t) = Joint(t)[n + 1] /\ n + 1 \in 1..Len(t)
    BY <1>1, FlattenIsJoint
  <1>3. /\ \A i \in 1..Len(t) : Joint(t)[i] = IF i = 1 THEN t[i] ELSE Joint(t)[i - 1] \o t[i]
        /\ \A i \in 1..n : Joint(s)[i] = IF i = 1 THEN s[i] ELSE Joint(s)[i - 1] \o s[i]
    BY <1>1, JointFacts, Zenon
  <1> DEFINE S == {m \in Nat : m \in 1..n => Joint(t)[m] = Joint(s)[m]}
  <1>4. 0 \in S  OBVIOUS
  <1>5. ASSUME NEW m \in Nat, m \in S  PROVE m + 1 \in S
    <2>1. SUFFICES ASSUME m + 1 \in 1..n  PROVE Joint(t)[m + 1] = Joint(s)[m + 1]
      OBVIOUS
    <2>2. t[m + 1] = s[m + 1] /\ m + 1 \in 1..Len(t)  BY <1>1, <2>1
    <2>3. CASE m = 0
      BY <1>3, <2>1, <2>2, <2>3
    <2>4. CASE m # 0
      <3>1. m \in 1..n /\ (m + 1) - 1 = m /\ m + 1 # 1  BY <2>1, <2>4
      <3>2. Joint(t)[m] = Joint(s)[m]  BY <1>5, <3>1
      <3>3. Joint(t)[m + 1] = Joint(t)[m] \o t[m + 1] /\ Joint(s)[m + 1] = Joint(s)[m] \o s[m + 1]
        BY <1>3, <2>1, <2>2, <3>1, Zenon
      <3>4. QED  BY <2>2, <3>2, <3>3
    <2>5. QED  BY <2>3, <2>4
  <1>6. Nat \subseteq S
    <2> HIDE DEF S
    <2>1. QED  BY <1>4, <1>5, EveryNumber, Zenon
  <1>7. CASE n = 0
    <2>1. Joint(t)[1] = x  BY <1>1, <1>3, <1>7
    <2>2. SeqExt!FlattenSeq(s) = <<>>  BY <1>7, FlattenType, Zenon
    <2>3. <<>> \o x = x  OBVIOUS
    <2>4. QED  BY <1>2, <1>7, <2>1, <2>2, <2>3 DEF t
  <1>8. CASE n # 0
    <2>1. n \in 1..n /\ (n + 1) - 1 = n /\ n + 1 # 1  BY <1>1, <1>8
    <2>2. Joint(t)[n] = Joint(s)[n]  BY <1>1, <1>6, <2>1
    <2>3. Joint(t)[n + 1] = Joint(t)[n] \o x  BY <1>1, <1>2, <1>3, <2>1, Zenon
    <2>4. SeqExt!FlattenSeq(s) = Joint(s)[n]  BY <1>8, FlattenIsJoint
    <2>5. QED  BY <1>2, <2>2, <2>3, <2>4 DEF t
  <1>9. QED  BY <1>7, <1>8

----------------------------------------------------------------------------
(***************************************************************************)
(* What the commands do to the lines, by their meaning.                    *)
(***************************************************************************)
Item == Texts \cup Nat

\* A script, as JobAssumption has it.
Valid(s) ==
    /\ Len(s) \in Nat /\ DOMAIN s = 1..Len(s)
    /\ \A i \in 1..Len(s) :
          /\ s[i].type \in Types
          /\ s[i].has_range \in BOOLEAN /\ s[i].negated \in BOOLEAN
          /\ s[i].addr1.type \in AddressTypes
          /\ s[i].has_range => s[i].addr2.type \in AddressTypes
          /\ s[i].type \in {"i", "a", "c"} => s[i].text \in Texts
          /\ s[i].type \in {"s", "y"} => s[i].to \in Texts
          /\ s[i].type \in {"w", "r"} => s[i].file \in FileNames

Line == [space : Seq(Item), over : BOOLEAN]
Found(text) == [DOMAIN text -> Line]

\* s and y leave lines as they are, or with another text in them.
LEMMA ChangedType ==
    ASSUME NEW x, NEW space \in Seq(Item), x.type \in {"s", "y"} => x.to \in Texts
    PROVE  Changed(x, space) \in Seq(Item)
PROOF
  <1>1. CASE x.type \notin {"s", "y"}
    BY <1>1 DEF Changed
  <1>2. CASE x.type \in {"s", "y"}
    <2>1. x.to \in Item  BY <1>2 DEF Item
    <2>2. Len(space) \in Nat /\ DOMAIN space = 1..Len(space) /\ \A k \in DOMAIN space : space[k] \in Item
      OBVIOUS
    <2> DEFINE t == [k \in 1..Len(space) |-> IF Replaces(x, space, k) THEN x.to ELSE space[k]]
    <2>3. Changed(x, space) = t  BY <1>2, <2>2 DEF Changed
    <2>4. \A k \in 1..Len(space) : t[k] \in Item  BY <2>1, <2>2
    <2>5. t \in [1..Len(space) -> Item]  BY <2>4
    <2> HIDE DEF t
    <2>6. t \in Seq(Item)  BY <2>2, <2>5, IsASeq
    <2>7. QED  BY <2>3, <2>6
  <1>3. QED  BY <1>1, <1>2

\* What a command leaves of each line is again a line.
LEMMA LeavesType ==
    ASSUME NEW x, x.type \in {"s", "y"} => x.to \in Texts,
           NEW text, NEW found \in Found(text)
    PROVE  Leaves(x, text, found) \in Found(text)
PROOF
  <1>1. ASSUME NEW k \in DOMAIN text
        PROVE  Leaves(x, text, found)[k] \in Line
    <2>1. found[k] \in Line /\ found[k].space \in Seq(Item)  BY DEF Found, Line
    <2>2. Changed(x, found[k].space) \in Seq(Item)  BY <2>1, ChangedType
    <2>3. CASE Does(x, text, found, k)
      <3>1. Leaves(x, text, found)[k]
              = [space |-> Changed(x, found[k].space), over |-> x.type \in {"d", "q"}]
        BY <2>3 DEF Leaves
      <3>2. (x.type \in {"d", "q"}) \in BOOLEAN  OBVIOUS
      <3>3. QED  BY <2>2, <3>1, <3>2 DEF Line
    <2>4. CASE ~Does(x, text, found, k)
      BY <2>1, <2>4 DEF Leaves
    <2>5. QED  BY <2>3, <2>4
  <1>2. Leaves(x, text, found) = [k \in DOMAIN text |-> Leaves(x, text, found)[k]]
    BY DEF Leaves
  <1>3. QED  BY <1>1, <1>2 DEF Found

AtFirst(text) == [k \in DOMAIN text |-> [space |-> <<text[k]>>, over |-> FALSE]]

\* The first command finds the lines as they are.
LEMMA AtFirstType ==
    ASSUME NEW text \in Seq(Item)
    PROVE  AtFirst(text) \in Found(text)
PROOF
  <1>1. ASSUME NEW k \in DOMAIN text
        PROVE  [space |-> <<text[k]>>, over |-> FALSE] \in Line
    <2>1. text[k] \in Item  OBVIOUS
    <2>2. <<text[k]>> \in Seq(Item)  BY <2>1
    <2>3. QED  BY <2>2 DEF Line
  <1>2. QED  BY <1>1 DEF AtFirst, Found

IsFinds(s, text, f) ==
    f = [i \in 1..(Len(s) + 1) |-> IF i = 1 THEN AtFirst(text) ELSE Leaves(s[i - 1], text, f[i - 1])]

\* If there is such a function, Finds is one.
LEMMA FindsIsFinds ==
    ASSUME NEW s, NEW text, \E f : IsFinds(s, text, f)
    PROVE  IsFinds(s, text, Finds(s, text))
PROOF
  <1>1. Finds(s, text) = CHOOSE f : IsFinds(s, text, f)
    BY DEF Finds, IsFinds, AtFirst
  <1>2. QED  BY <1>1

\* What each command finds is what the one before leaves.
LEMMA FindsFacts ==
    ASSUME NEW s, Valid(s), NEW text \in Seq(Item)
    PROVE  /\ Finds(s, text)[1] = AtFirst(text)
           /\ \A i \in 1..Len(s) : Finds(s, text)[i + 1] = Leaves(s[i], text, Finds(s, text)[i])
           /\ \A i \in 1..(Len(s) + 1) : Finds(s, text)[i] \in Found(text)
PROOF
  <1> DEFINE n == Len(s)
             U == Found(text)
             F == [i \in 1..n |-> [u \in U |-> Leaves(s[i], text, u)]]
             a == AtFirst(text)
  <1>1. n \in Nat  BY DEF Valid
  <1>2. a \in U  BY AtFirstType
  <1>3. \A i \in 1..n : \A u \in U : Leaves(s[i], text, u) \in U
    <2>1. \A i \in 1..n : s[i].type \in {"s", "y"} => s[i].to \in Texts  BY DEF Valid
    <2>2. QED  BY <2>1, LeavesType
  <1>4. F \in Makers(n, U)  BY <1>3 DEF Makers
  <1>5. PICK g \in [0..n -> U] : g[0] = a /\ \A i \in 1..n : g[i] = F[i][g[i - 1]]
    <2> HIDE DEF F, U, n, a
    <2>1. Recursion(n, U, a, F) # {}  BY <1>1, <1>2, <1>4, RecursionExists
    <2>2. QED  BY <2>1 DEF Recursion
  <1>6. ASSUME NEW i \in 1..n
        PROVE  g[i] \in U /\ g[i - 1] \in U /\ g[i] = Leaves(s[i], text, g[i - 1])
    <2>1. i - 1 \in 0..n /\ i \in 0..n  BY <1>1
    <2>2. g[i - 1] \in U /\ g[i] \in U  BY <2>1
    <2> HIDE DEF U
    <2>3. QED  BY <1>5, <2>2, Zenon
  <1> DEFINE h == [i \in 1..(n + 1) |-> g[i - 1]]
  <1>7. IsFinds(s, text, h)
    <2>1. ASSUME NEW i \in 1..(n + 1)
          PROVE  h[i] = IF i = 1 THEN a ELSE Leaves(s[i - 1], text, h[i - 1])
      <3>1. CASE i = 1
        <4>1. h[i] = g[0]  BY <1>1, <3>1
        <4>2. QED  BY <1>5, <3>1, <4>1
      <3>2. CASE i # 1
        <4>1. i - 1 \in 1..n /\ i - 1 \in 1..(n + 1) /\ h[i] = g[i - 1]  BY <1>1, <3>2
        <4>2. h[i - 1] = g[(i - 1) - 1]  BY <4>1
        <4>3. g[i - 1] = Leaves(s[i - 1], text, g[(i - 1) - 1])  BY <1>6, <4>1
        <4>4. QED  BY <3>2, <4>1, <4>2, <4>3
      <3>3. QED  BY <3>1, <3>2
    <2>2. h = [i \in 1..(n + 1) |-> h[i]]  OBVIOUS
    <2> HIDE DEF h, a
    <2>3. h = [i \in 1..(n + 1) |-> IF i = 1 THEN a ELSE Leaves(s[i - 1], text, h[i - 1])]
      BY <2>1, <2>2, Zenon
    <2>4. QED  BY <2>3, Zenon DEF IsFinds, a
  <1> DEFINE f == Finds(s, text)
  <1>8. IsFinds(s, text, f)
    <2> HIDE DEF h
    <2>1. QED  BY <1>7, FindsIsFinds
  <1>9. \A i \in 1..(n + 1) : f[i] = IF i = 1 THEN a ELSE Leaves(s[i - 1], text, f[i - 1])
    <2> HIDE DEF f, a
    <2>1. f = [i \in 1..(n + 1) |-> IF i = 1 THEN a ELSE Leaves(s[i - 1], text, f[i - 1])]
      BY <1>8, Zenon DEF IsFinds, a
    <2>2. QED  BY <2>1, Zenon
  <1> HIDE DEF f
  <1>10. f[1] = a  BY <1>1, <1>9
  <1>11. ASSUME NEW i \in 1..n  PROVE f[i + 1] = Leaves(s[i], text, f[i])
    <2>1. i + 1 \in 1..(n + 1) /\ i + 1 # 1 /\ (i + 1) - 1 = i  BY <1>1
    <2>2. QED  BY <1>9, <2>1
  <1> DEFINE S == {m \in Nat : m \in 0..n => f[m + 1] \in U}
  <1>12. 0 \in S  BY <1>2, <1>10
  <1>13. ASSUME NEW m \in Nat, m \in S  PROVE m + 1 \in S
    <2>1. SUFFICES ASSUME m + 1 \in 0..n  PROVE f[(m + 1) + 1] \in U
      OBVIOUS
    <2>2. m \in 0..n /\ m + 1 \in 1..n  BY <2>1
    <2>3. f[m + 1] \in U  BY <1>13, <2>2
    <2> HIDE DEF U
    <2>4. QED  BY <1>3, <1>11, <2>2, <2>3
  <1>14. Nat \subseteq S
    <2> HIDE DEF S
    <2>1. QED  BY <1>12, <1>13, EveryNumber, Zenon
  <1>15. ASSUME NEW i \in 1..(n + 1)  PROVE f[i] \in U
    <2>1. i - 1 \in Nat /\ i - 1 \in 0..n /\ (i - 1) + 1 = i  BY <1>1
    <2>2. i - 1 \in S  BY <1>14, <2>1, Zenon
    <2>3. QED  BY <2>1, <2>2
  <1>16. QED  BY <1>10, <1>11, <1>15 DEF f

\* A line that is over stays as it is.
LEMMA OverStays ==
    ASSUME NEW s, Valid(s), NEW text \in Seq(Item), NEW k \in DOMAIN text,
           NEW i \in 1..(Len(s) + 1), Finds(s, text)[i][k].over
    PROVE  \A j \in i..(Len(s) + 1) : Finds(s, text)[j][k] = Finds(s, text)[i][k]
PROOF
  <1> DEFINE n == Len(s)
             f == Finds(s, text)
             S == {m \in Nat : i + m \in 1..(n + 1) => f[i + m][k] = f[i][k]}
  <1>1. n \in Nat  BY DEF Valid
  <1>2. \A j \in 1..n : f[j + 1] = Leaves(s[j], text, f[j])  BY FindsFacts
  <1> HIDE DEF f
  <1>3. 0 \in S  OBVIOUS
  <1>4. ASSUME NEW m \in Nat, m \in S  PROVE m + 1 \in S
    <2>1. SUFFICES ASSUME i + (m + 1) \in 1..(n + 1)  PROVE f[i + (m + 1)][k] = f[i][k]
      OBVIOUS
    <2>2. i + m \in 1..(n + 1) /\ i + m \in 1..n /\ i + (m + 1) = (i + m) + 1  BY <1>1, <2>1
    <2>3. f[i + m][k] = f[i][k]  BY <1>4, <2>2
    <2>4. ~Does(s[i + m], text, f[i + m], k)  BY <2>3 DEF Does, f
    <2>5. f[i + (m + 1)][k] = f[i + m][k]
      <3>1. f[i + (m + 1)] = Leaves(s[i + m], text, f[i + m])  BY <1>2, <2>2
      <3>2. Leaves(s[i + m], text, f[i + m])[k] = f[i + m][k]  BY <2>4 DEF Leaves
      <3>3. QED  BY <3>1, <3>2
    <2>6. QED  BY <2>3, <2>5
  <1>5. Nat \subseteq S
    <2> HIDE DEF S
    <2>1. QED  BY <1>3, <1>4, EveryNumber, Zenon
  <1>6. ASSUME NEW j \in i..(n + 1)  PROVE f[j][k] = f[i][k]
    <2>1. j - i \in Nat /\ i + (j - i) = j /\ j \in 1..(n + 1)  BY <1>1
    <2>2. j - i \in S  BY <1>5, <2>1, Zenon
    <2>3. QED  BY <2>1, <2>2
  <1>7. QED  BY <1>6 DEF f

\* The range of x goes on after line k.
StaysOpen(x, text, found, k) ==
    x.has_range /\ \E b \in 1..k : Begins(x, text, found, b) /\ \A m \in b..k : ~Ends(x, text, found, m)

\* Whether a range is open after a line is told from the line before; Meant says the
\* same of all lines at once.
LEMMA RangeFacts ==
    ASSUME NEW x, NEW text, NEW found, NEW k \in Nat \ {0}
    PROVE  /\ ~StaysOpen(x, text, found, 0)
           /\ found[k].over => StaysOpen(x, text, found, k) = StaysOpen(x, text, found, k - 1)
           /\ ~found[k].over =>
                 /\ x.has_range =>
                       Meant(x, text, found, k)
                         = (StaysOpen(x, text, found, k - 1) \/ Meets(x.addr1, text, k, found[k].space))
                 /\ StaysOpen(x, text, found, k)
                      = (/\ x.has_range /\ Meant(x, text, found, k)
                         /\ ~Meets(x.addr2, text, k, found[k].space))
PROOF
  <1>1. ~StaysOpen(x, text, found, 0)
    <2>1. 1..0 = {}  OBVIOUS
    <2>2. QED  BY <2>1 DEF StaysOpen
  <1>2. k - 1 \in Nat /\ 1..k = 1..(k - 1) \cup {k} /\ k \notin 1..(k - 1)
    OBVIOUS
  <1>3. \A b \in 1..(k - 1) : b..k = b..(k - 1) \cup {k}
    OBVIOUS
  <1>4. k..k = {k} /\ k..(k - 1) = {}
    OBVIOUS
  <1> DEFINE B(b) == Begins(x, text, found, b)
             E(m) == Ends(x, text, found, m)
  <1>5. ASSUME found[k].over
        PROVE  StaysOpen(x, text, found, k) = StaysOpen(x, text, found, k - 1)
    <2>1. ~B(k) /\ ~E(k)  BY <1>5 DEF Begins, Ends
    <2> HIDE DEF B, E
    <2>2. (\E b \in 1..k : B(b) /\ \A m \in b..k : ~E(m))
          = (\E b \in 1..(k - 1) : B(b) /\ \A m \in b..(k - 1) : ~E(m))
      BY <1>2, <1>3, <2>1
    <2>3. QED  BY <2>2 DEF StaysOpen, B, E
  <1>6. ASSUME ~found[k].over
        PROVE  /\ x.has_range =>
                     Meant(x, text, found, k)
                       = (StaysOpen(x, text, found, k - 1) \/ Meets(x.addr1, text, k, found[k].space))
               /\ StaysOpen(x, text, found, k)
                    = (/\ x.has_range /\ Meant(x, text, found, k)
                       /\ ~Meets(x.addr2, text, k, found[k].space))
    <2>1. /\ B(k) <=> Meets(x.addr1, text, k, found[k].space)
          /\ E(k) <=> Meets(x.addr2, text, k, found[k].space)
      BY <1>6 DEF Begins, Ends
    <2> HIDE DEF B, E
    <2> DEFINE M == \E b \in 1..k : B(b) /\ \A m \in b..(k - 1) : ~E(m)
               O == \E b \in 1..(k - 1) : B(b) /\ \A m \in b..(k - 1) : ~E(m)
               P == \E b \in 1..k : B(b) /\ \A m \in b..k : ~E(m)
    <2>2. M = (O \/ B(k))
      BY <1>2, <1>4, Zenon
    <2>3. P = (M /\ ~E(k))
      <3>1. ASSUME P  PROVE M /\ ~E(k)
        BY <1>2, <1>3, <1>4, <3>1
      <3>2. ASSUME M, ~E(k)  PROVE P
        BY <1>2, <1>3, <1>4, <3>2
      <3>3. QED  BY <3>1, <3>2, Zenon
    <2>4. x.has_range => Meant(x, text, found, k) = M
      BY DEF Meant, B, E
    <2>5. StaysOpen(x, text, found, k - 1) = (x.has_range /\ O)
          /\ StaysOpen(x, text, found, k) = (x.has_range /\ P)
      BY DEF StaysOpen, B, E
    <2> HIDE DEF M, O, P
    <2>6. QED  BY <2>1, <2>2, <2>3, <2>4, <2>5, Zenon
  <1>7. QED  BY <1>1, <1>5, <1>6, Zenon

\* Joining one sequence more.
LEMMA JoinMore ==
    ASSUME NEW T, NEW g \in Seq(Seq(T)), NEW h \in Seq(Seq(T)),
           Len(h) = Len(g) + 1, \A j \in 1..Len(g) : g[j] = h[j]
    PROVE  SeqExt!FlattenSeq(h) = SeqExt!FlattenSeq(g) \o h[Len(h)]
PROOF
  <1> DEFINE i == Len(g)
  <1>1. i \in Nat /\ Len(h) = i + 1  OBVIOUS
  <1>2. h[i + 1] \in Seq(T)  BY <1>1
  <1>3. h = Append(g, h[i + 1])
    <2>1. Append(g, h[i + 1]) \in Seq(Seq(T)) /\ Len(Append(g, h[i + 1])) = i + 1
          /\ \A j \in 1..(i + 1) : Append(g, h[i + 1])[j] = IF j = i + 1 THEN h[i + 1] ELSE g[j]
      BY <1>1, <1>2, AppendProperties
    <2>2. \A j \in 1..(i + 1) : j # i + 1 => j \in 1..i  OBVIOUS
    <2>3. \A j \in 1..(i + 1) : Append(g, h[i + 1])[j] = h[j]  BY <2>1, <2>2
    <2>4. QED  BY <1>1, <2>1, <2>3, SeqEqual
  <1>4. SeqExt!FlattenSeq(Append(g, h[i + 1])) = SeqExt!FlattenSeq(g) \o h[i + 1]
    BY <1>2, FlattenGrows, Zenon
  <1>5. QED  BY <1>1, <1>3, <1>4, Zenon

\* The first i pieces of some joined, by what they are for fewer.
Pieces(h, i) == SeqExt!FlattenSeq([j \in 1..i |-> h[j]])

\* The first pieces joined: one more is joined at the end.
LEMMA PiecesFacts ==
    ASSUME NEW T, NEW n \in Nat, NEW h, h \in [1..n -> Seq(T)]
    PROVE  /\ Pieces(h, 0) = <<>>
           /\ \A i \in 0..n : Pieces(h, i) \in Seq(T)
           /\ \A i \in 1..n : Pieces(h, i) = Pieces(h, i - 1) \o h[i]
PROOF
  <1> DEFINE g(m) == [j \in 1..m |-> h[j]]
  <1>1. \A m \in 0..n : DOMAIN g(m) = 1..m /\ g(m) \in [1..m -> Seq(T)] /\ m \in Nat
    OBVIOUS
  <1>2. \A m \in 0..n : g(m) \in Seq(Seq(T))
    BY <1>1, IsASeq
  <1>3. SeqExt!FlattenSeq(g(0)) = <<>>
    <2>1. g(0) \in Seq(Seq(T)) /\ DOMAIN g(0) = 1..0  BY <1>2
    <2> HIDE DEF g
    <2>2. Len(g(0)) = 0
      <3>1. Len(g(0)) \in Nat /\ 1..Len(g(0)) = 1..0  BY <2>1, LenProperties
      <3>2. Len(g(0)) # 0 => 1 \in 1..Len(g(0))  BY <3>1
      <3>3. 1 \notin 1..0  OBVIOUS
      <3>4. QED  BY <3>1, <3>2, <3>3, Zenon
    <2>3. QED  BY <2>1, <2>2, FlattenType
  <1>4. ASSUME NEW i \in 0..n  PROVE SeqExt!FlattenSeq(g(i)) \in Seq(T)
    <2>1. g(i) \in Seq(Seq(T))  BY <1>2
    <2> HIDE DEF g
    <2>2. QED  BY <2>1, FlattenType
  <1>5. ASSUME NEW i \in 1..n
        PROVE  SeqExt!FlattenSeq(g(i)) = SeqExt!FlattenSeq(g(i - 1)) \o h[i]
    <2>1. i - 1 \in Nat /\ i - 1 \in 0..n /\ i \in 0..n /\ (i - 1) + 1 = i  OBVIOUS
    <2>2. /\ g(i - 1) \in Seq(Seq(T)) /\ g(i) \in Seq(Seq(T))
          /\ Len(g(i - 1)) = i - 1 /\ Len(g(i)) = i
      BY <1>1, <1>2, <2>1
    <2>3. \A j \in 1..(i - 1) : g(i - 1)[j] = g(i)[j]  OBVIOUS
    <2>4. g(i)[i] = h[i]  BY <2>1
    <2> HIDE DEF g
    <2>5. SeqExt!FlattenSeq(g(i)) = SeqExt!FlattenSeq(g(i - 1)) \o g(i)[i]
      BY <2>1, <2>2, <2>3, JoinMore, Zenon
    <2>6. QED  BY <2>4, <2>5
  <1>6. \A m \in 0..n : Pieces(h, m) = SeqExt!FlattenSeq(g(m))  BY DEF Pieces
  <1>7. \A i \in 1..n : i - 1 \in 0..n /\ i \in 0..n  OBVIOUS
  <1>8. 0 \in 0..n  OBVIOUS
  <1> HIDE DEF g
  <1>9. QED  BY <1>3, <1>4, <1>5, <1>6, <1>7, <1>8, Zenon

\* What PiecesFacts says, under one name.
Joining(h, n, T) ==
    /\ Pieces(h, 0) = <<>>
    /\ \A i \in 0..n : Pieces(h, i) \in Seq(T)
    /\ \A i \in 1..n : Pieces(h, i) = Pieces(h, i - 1) \o h[i]

\* The pieces of a sequence of sequences join so.
LEMMA PiecesJoin ==
    ASSUME NEW T, NEW n \in Nat, NEW h, h \in [1..n -> Seq(T)]
    PROVE  Joining(h, n, T)
PROOF
  BY PiecesFacts DEF Joining

----------------------------------------------------------------------------
(***************************************************************************)
(* The elements of a sequence that are in a set, in their order.           *)
(***************************************************************************)

\* Every sequence is reached by appending.
LEMMA EverySequence ==
    ASSUME NEW T, NEW Z, <<>> \in Z,
           \A q \in Seq(T) : \A e \in T : q \in Z => Append(q, e) \in Z
    PROVE  Seq(T) \subseteq Z
PROOF
  <1> DEFINE S == {n \in Nat : \A q \in Seq(T) : Len(q) = n => q \in Z}
  <1>1. 0 \in S
    <2>1. \A q \in Seq(T) : Len(q) = 0 => q = <<>>  BY EmptySeq
    <2>2. QED  BY <2>1
  <1>2. ASSUME NEW n \in Nat, n \in S  PROVE n + 1 \in S
    <2>1. ASSUME NEW q \in Seq(T), Len(q) = n + 1  PROVE q \in Z
      <3>1. q # <<>>  BY <2>1
      <3>2. PICK r \in Seq(T), e \in T : q = Append(r, e)  BY <3>1, SequenceEmptyOrAppend
      <3>3. Len(q) = Len(r) + 1 /\ Len(r) \in Nat  BY <3>2, AppendProperties
      <3>4. Len(r) = n  BY <2>1, <3>3
      <3>5. r \in Z  BY <1>2, <3>4
      <3>6. QED  BY <3>2, <3>5
    <2>2. QED  BY <2>1
  <1>3. Nat \subseteq S
    <2> HIDE DEF S
    <2>1. QED  BY <1>1, <1>2, EveryNumber
  <1>4. ASSUME NEW q \in Seq(T)  PROVE q \in Z
    <2>1. Len(q) \in Nat  OBVIOUS
    <2>2. Len(q) \in S  BY <1>3, <2>1
    <2>3. QED  BY <2>2
  <1>5. QED  BY <1>4

One(e, S) == IF e \in S THEN <<e>> ELSE <<>>

\* The elements of S are found one by one.
LEMMA AmongFacts ==
    ASSUME NEW T, NEW S, NEW q \in Seq(T)
    PROVE  /\ Among(<<>>, S) = <<>>
           /\ Among(q, S) \in Seq(T)
           /\ \A e \in T : Among(Append(q, e), S) = Among(q, S) \o One(e, S)
PROOF
  <1> DEFINE M(p) == [k \in DOMAIN p |-> One(p[k], S)]
  <1>1. \A p : Among(p, S) = SeqExt!FlattenSeq(M(p))  BY DEF Among, One
  <1>2. \A e \in T : One(e, S) \in Seq(T)  BY DEF One
  <1>3. ASSUME NEW p \in Seq(T)
        PROVE  M(p) \in Seq(Seq(T)) /\ Len(M(p)) = Len(p)
    <2>1. DOMAIN M(p) = 1..Len(p) /\ Len(p) \in Nat  OBVIOUS
    <2>2. \A k \in 1..Len(p) : p[k] \in T  OBVIOUS
    <2>3. M(p) \in [1..Len(p) -> Seq(T)]  BY <1>2, <2>1, <2>2
    <2> HIDE DEF M
    <2>4. M(p) \in Seq(Seq(T))  BY <2>1, <2>3, IsASeq
    <2>5. QED  BY <2>1, <2>4, LenProperties
  <1>4. Among(<<>>, S) = <<>>
    <2>1. <<>> \in Seq(T) /\ Len(<<>>) = 0  OBVIOUS
    <2>2. M(<<>>) \in Seq(Seq(T)) /\ Len(M(<<>>)) = 0  BY <1>3, <2>1
    <2> HIDE DEF M
    <2>3. QED  BY <1>1, <2>2, FlattenType
  <1>5. Among(q, S) \in Seq(T)
    <2>1. M(q) \in Seq(Seq(T))  BY <1>3
    <2> HIDE DEF M
    <2>2. QED  BY <1>1, <2>1, FlattenType
  <1>6. ASSUME NEW e \in T  PROVE Among(Append(q, e), S) = Among(q, S) \o One(e, S)
    <2> DEFINE n == Len(q)
               p == Append(q, e)
    <2>1. /\ n \in Nat /\ p \in Seq(T) /\ Len(p) = n + 1 /\ p[n + 1] = e
          /\ \A k \in 1..n : p[k] = q[k]
      BY AppendProperties
    <2>2. M(p) \in Seq(Seq(T)) /\ Len(M(p)) = n + 1 /\ M(q) \in Seq(Seq(T)) /\ Len(M(q)) = n
      BY <1>3, <2>1, Zenon
    <2>3. M(p)[Len(M(p))] = One(e, S)
      <3>1. n + 1 \in DOMAIN p  BY <2>1
      <3>2. QED  BY <2>1, <2>2, <3>1
    <2>4. \A k \in 1..n : M(q)[k] = M(p)[k]
      <3>1. \A k \in 1..n : k \in DOMAIN q /\ k \in DOMAIN p  BY <2>1
      <3>2. QED  BY <2>1, <3>1
    <2> HIDE DEF M, p
    <2>5. SeqExt!FlattenSeq(M(p)) = SeqExt!FlattenSeq(M(q)) \o M(p)[Len(M(p))]
      BY <2>1, <2>2, <2>4, JoinMore, Zenon
    <2>6. QED  BY <1>1, <2>3, <2>5, Zenon DEF p
  <1>7. QED  BY <1>4, <1>5, <1>6

\* The members of two sequences joined, of one whose elements are all members, and of one without.
AmongJoins(a, b, S) == Among(a \o b, S) = Among(a, S) \o Among(b, S)

\* Of two sequences joined they are those of one and then those of the other.
LEMMA AmongJoined ==
    ASSUME NEW T, NEW S, NEW a \in Seq(T), NEW b \in Seq(T)
    PROVE  AmongJoins(a, b, S)
PROOF
  <1> DEFINE Z == {q \in Seq(T) : AmongJoins(a, q, S)}
  <1>1. <<>> \in Z
    <2>1. a \o <<>> = a  BY ConcatEmptySeq
    <2>2. Among(<<>>, S) = <<>> /\ Among(a, S) \in Seq(T)  BY AmongFacts
    <2>3. Among(a, S) \o <<>> = Among(a, S)  BY <2>2, ConcatEmptySeq
    <2>4. QED  BY <2>1, <2>2, <2>3 DEF AmongJoins
  <1>2. ASSUME NEW q \in Seq(T), NEW e \in T, q \in Z  PROVE Append(q, e) \in Z
    <2>1. Append(q, e) \in Seq(T) /\ Append(q, e) = q \o <<e>> /\ <<e>> \in Seq(T)
      BY AppendProperties, AppendIsConcat
    <2>2. a \o q \in Seq(T)  BY ConcatProperties
    <2>3. a \o Append(q, e) = Append(a \o q, e)
      <3>1. (a \o q) \o <<e>> = a \o (q \o <<e>>)  BY <2>1, ConcatAssociative
      <3>2. Append(a \o q, e) = (a \o q) \o <<e>>  BY <2>2, AppendIsConcat
      <3>3. QED  BY <2>1, <3>1, <3>2, Zenon
    <2>4. /\ Among(Append(a \o q, e), S) = Among(a \o q, S) \o One(e, S)
          /\ Among(Append(q, e), S) = Among(q, S) \o One(e, S)
      BY <2>2, AmongFacts, Zenon
    <2>5. Among(a \o q, S) = Among(a, S) \o Among(q, S)  BY <1>2 DEF AmongJoins
    <2>6. Among(a, S) \in Seq(T) /\ Among(q, S) \in Seq(T) /\ One(e, S) \in Seq(T)
      BY AmongFacts DEF One
    <2>7. (Among(a, S) \o Among(q, S)) \o One(e, S) = Among(a, S) \o (Among(q, S) \o One(e, S))
      BY <2>6, ConcatAssociative, SMTT(30)
    <2>8. QED  BY <2>1, <2>3, <2>4, <2>5, <2>7, Zenon DEF AmongJoins
  <1>3. Seq(T) \subseteq Z
    <2> HIDE DEF Z
    <2>1. QED  BY <1>1, <1>2, EverySequence
  <1>4. QED  BY <1>3

\* If all are in S, they are the sequence itself.
LEMMA AmongItself ==
    ASSUME NEW S, NEW q \in Seq(S)
    PROVE  Among(q, S) = q
PROOF
  <1> DEFINE Z == {r \in Seq(S) : Among(r, S) = r}
  <1>1. <<>> \in Z
    <2>1. <<>> \in Seq(S)  OBVIOUS
    <2>2. Among(<<>>, S) = <<>>  BY <2>1, AmongFacts, Zenon
    <2>3. QED  BY <2>1, <2>2
  <1>2. ASSUME NEW r \in Seq(S), NEW e \in S, r \in Z  PROVE Append(r, e) \in Z
    <2>1. Append(r, e) \in Seq(S) /\ Append(r, e) = r \o <<e>>  BY AppendProperties, AppendIsConcat
    <2>2. Among(Append(r, e), S) = Among(r, S) \o One(e, S)  BY AmongFacts
    <2>3. One(e, S) = <<e>>  BY DEF One
    <2>4. QED  BY <1>2, <2>1, <2>2, <2>3, Zenon
  <1>3. Seq(S) \subseteq Z
    <2> HIDE DEF Z
    <2>1. QED  BY <1>1, <1>2, EverySequence
  <1>4. QED  BY <1>3

\* If none is in S, there are none.
LEMMA AmongOthers ==
    ASSUME NEW S, NEW T, T \cap S = {}, NEW q \in Seq(T)
    PROVE  Among(q, S) = <<>>
PROOF
  <1> DEFINE Z == {r \in Seq(T) : Among(r, S) = <<>>}
  <1>1. <<>> \in Z
    <2>1. <<>> \in Seq(T)  OBVIOUS
    <2>2. Among(<<>>, S) = <<>>  BY <2>1, AmongFacts, Zenon
    <2>3. QED  BY <2>1, <2>2
  <1>2. ASSUME NEW r \in Seq(T), NEW e \in T, r \in Z  PROVE Append(r, e) \in Z
    <2>1. Append(r, e) \in Seq(T)  BY AppendProperties
    <2>2. Among(Append(r, e), S) = Among(r, S) \o One(e, S)  BY AmongFacts
    <2>3. One(e, S) = <<>>  BY DEF One
    <2>4. <<>> \o <<>> = <<>>  BY ConcatEmptySeq
    <2>5. QED  BY <1>2, <2>1, <2>2, <2>3, <2>4
  <1>3. Seq(T) \subseteq Z
    <2> HIDE DEF Z
    <2>1. QED  BY <1>1, <1>2, EverySequence
  <1>4. QED  BY <1>3

\* Another last piece.
LEMMA PiecesExcept ==
    ASSUME NEW T, NEW n \in Nat, NEW h \in [1..n -> Seq(T)], NEW m \in 1..n, NEW x \in Seq(T)
    PROVE  /\ Pieces([h EXCEPT ![m] = x], m) = Pieces(h, m - 1) \o x
           /\ Pieces(h, m - 1) \in Seq(T)
PROOF
  <1> DEFINE Q == [h EXCEPT ![m] = x]
  <1>1. Q \in [1..n -> Seq(T)] /\ Q[m] = x /\ m - 1 \in 0..n  OBVIOUS
  <1>2. \A j \in 1..(m - 1) : Q[j] = h[j]  OBVIOUS
  <1>3. [j \in 1..(m - 1) |-> Q[j]] = [j \in 1..(m - 1) |-> h[j]]  BY <1>2
  <1>4. Pieces(Q, m - 1) = Pieces(h, m - 1)  BY <1>3, Zenon DEF Pieces
  <1>5. Pieces(h, m - 1) \in Seq(T)  BY <1>1, PiecesFacts, Zenon
  <1> HIDE DEF Q
  <1>6. Pieces(Q, m) = Pieces(Q, m - 1) \o Q[m]  BY <1>1, PiecesFacts, Zenon
  <1>7. QED  BY <1>1, <1>4, <1>5, <1>6, Zenon DEF Q

Disks == [FileNames -> Seq(Item) \cup {Nil}]

\* What a command prints, queues and writes of a line are lines.
LEMMA PieceTypes ==
    ASSUME NEW s, Valid(s), NEW text \in Seq(Item), NEW k \in 1..Len(text)
    PROVE  /\ \A i \in 1..(Len(s) + 1) : Finds(s, text)[i][k] \in Line
           /\ \A i \in 1..Len(s) :
                 /\ Says(s, text, k, i) \in Seq(Item)
                 /\ Appends(s, text, k, i) \in Seq(Item)
                 /\ \A f : Notes(s, text, f, k, i) \in Seq(Item)
PROOF
  <1>1. Len(s) \in Nat  BY DEF Valid
  <1>2. k \in DOMAIN text /\ k \in Nat  OBVIOUS
  <1>3. \A i \in 1..(Len(s) + 1) : Finds(s, text)[i][k] \in Line
    <2>1. \A i \in 1..(Len(s) + 1) : Finds(s, text)[i] \in Found(text)  BY FindsFacts
    <2>2. QED  BY <1>2, <2>1 DEF Found
  <1>4. ASSUME NEW i \in 1..Len(s)
        PROVE  /\ Says(s, text, k, i) \in Seq(Item)
               /\ Appends(s, text, k, i) \in Seq(Item)
               /\ \A f : Notes(s, text, f, k, i) \in Seq(Item)
    <2> DEFINE space == Finds(s, text)[i][k].space
    <2>1. i \in 1..(Len(s) + 1)  BY <1>1
    <2>2. space \in Seq(Item)  BY <1>3, <2>1 DEF Line
    <2>3. /\ s[i].type \in {"i", "a", "c"} => s[i].text \in Texts
          /\ s[i].type \in {"s", "y"} => s[i].to \in Texts
      BY DEF Valid
    <2>4. Changed(s[i], space) \in Seq(Item)  BY <2>2, <2>3, ChangedType
    <2>5. <<>> \in Seq(Item)  OBVIOUS
    <2>6. \A x \in Item : <<x>> \in Seq(Item)  OBVIOUS
    <2>7. <<k>> \in Seq(Item)  BY <1>2, <2>6 DEF Item
    <2>8. s[i].type \in {"i", "a"} => <<s[i].text>> \in Seq(Item)  BY <2>3, <2>6 DEF Item
    <2>9. Acts(s, text, "i", k, i) \/ Acts(s, text, "a", k, i) => s[i].type \in {"i", "a"}  BY DEF Acts
    <2> HIDE DEF space
    <2>10. Says(s, text, k, i) \in Seq(Item)
      <3>1. \/ Says(s, text, k, i) = space
            \/ Says(s, text, k, i) = <<k>>
            \/ Says(s, text, k, i) = <<s[i].text>> /\ Acts(s, text, "i", k, i)
            \/ Says(s, text, k, i) = Changed(s[i], space)
            \/ Says(s, text, k, i) = <<>>
        BY DEF Says, space
      <3>2. QED  BY <2>2, <2>4, <2>5, <2>7, <2>8, <2>9, <3>1, Zenon
    <2>11. Appends(s, text, k, i) \in Seq(Item)
      BY <2>5, <2>8, <2>9 DEF Appends
    <2>12. \A f : Notes(s, text, f, k, i) \in Seq(Item)
      BY <2>2, <2>5 DEF Notes, space
    <2>13. QED  BY <2>10, <2>11, <2>12
  <1>5. QED  BY <1>3, <1>4

----------------------------------------------------------------------------
(***************************************************************************)
(* What w has written, by what it had one command or one line before.      *)
(***************************************************************************)
LineNotes(s, text, f, m, i) == SeqExt!FlattenSeq([j \in 1..i |-> Notes(s, text, f, m, j)])
LinesNotes(s, text, f, k) == SeqExt!FlattenSeq([m \in 1..k |-> LineNotes(s, text, f, m, Len(s))])

\* What w writes of one line, command by command.
LEMMA LineNotesFacts ==
    ASSUME NEW s, Valid(s), NEW text \in Seq(Item), NEW f, NEW k \in 1..Len(text)
    PROVE  /\ LineNotes(s, text, f, k, 0) = <<>>
           /\ \A i \in 0..Len(s) : LineNotes(s, text, f, k, i) \in Seq(Item)
           /\ \A i \in 1..Len(s) : LineNotes(s, text, f, k, i)
                                     = LineNotes(s, text, f, k, i - 1) \o Notes(s, text, f, k, i)
PROOF
  <1> DEFINE n == Len(s)
             h == [j \in 1..n |-> Notes(s, text, f, k, j)]
  <1>1. n \in Nat  BY DEF Valid
  <1>2. h \in [1..n -> Seq(Item)]  BY PieceTypes
  <1>3. \A i \in 1..n : h[i] = Notes(s, text, f, k, i)  OBVIOUS
  <1>4. ASSUME NEW i \in 0..n
        PROVE  LineNotes(s, text, f, k, i) = Pieces(h, i)
    <2>1. [j \in 1..i |-> h[j]] = [j \in 1..i |-> Notes(s, text, f, k, j)]
      BY <1>1
    <2>2. QED  BY <2>1, Zenon DEF LineNotes, Pieces
  <1> HIDE DEF h
  <1>5. \A i \in 1..n : i - 1 \in 0..n /\ i \in 0..n  BY <1>1
  <1>6. 0 \in 0..n  BY <1>1
  <1> HIDE DEF n
  <1>7. /\ Pieces(h, 0) = <<>>
        /\ \A i \in 0..n : Pieces(h, i) \in Seq(Item)
        /\ \A i \in 1..n : Pieces(h, i) = Pieces(h, i - 1) \o h[i]
    <2>1. Joining(h, n, Item)  BY <1>1, <1>2, PiecesJoin, Zenon
    <2>2. QED  BY <2>1, Zenon DEF Joining
  <1>8. LineNotes(s, text, f, k, 0) = <<>>  BY <1>4, <1>6, <1>7
  <1>9. \A i \in 0..n : LineNotes(s, text, f, k, i) \in Seq(Item)  BY <1>4, <1>7
  <1>10. \A i \in 1..n : LineNotes(s, text, f, k, i)
                           = LineNotes(s, text, f, k, i - 1) \o Notes(s, text, f, k, i)
    BY <1>3, <1>4, <1>5, <1>7, Zenon
  <1>11. QED  BY <1>8, <1>9, <1>10 DEF n

\* And of all lines up to one.
LEMMA LinesNotesFacts ==
    ASSUME NEW s, Valid(s), NEW text \in Seq(Item), NEW f
    PROVE  /\ LinesNotes(s, text, f, 0) = <<>>
           /\ \A k \in 0..Len(text) : LinesNotes(s, text, f, k) \in Seq(Item)
           /\ \A k \in 1..Len(text) : LinesNotes(s, text, f, k)
                 = LinesNotes(s, text, f, k - 1) \o LineNotes(s, text, f, k, Len(s))
PROOF
  <1> DEFINE n == Len(text)
             h == [m \in 1..n |-> LineNotes(s, text, f, m, Len(s))]
  <1>1. n \in Nat /\ Len(s) \in Nat  BY DEF Valid
  <1>2. h \in [1..n -> Seq(Item)]
    <2>1. Len(s) \in 0..Len(s)  BY <1>1
    <2>2. \A m \in 1..n : LineNotes(s, text, f, m, Len(s)) \in Seq(Item)
      BY <2>1, LineNotesFacts, Zenon
    <2>3. QED  BY <2>2
  <1>3. \A i \in 1..n : h[i] = LineNotes(s, text, f, i, Len(s))  OBVIOUS
  <1>4. ASSUME NEW i \in 0..n
        PROVE  LinesNotes(s, text, f, i) = Pieces(h, i)
    <2>1. [j \in 1..i |-> h[j]] = [j \in 1..i |-> LineNotes(s, text, f, j, Len(s))]
      BY <1>1
    <2>2. QED  BY <2>1, Zenon DEF LinesNotes, Pieces
  <1> HIDE DEF h
  <1>5. \A i \in 1..n : i - 1 \in 0..n /\ i \in 0..n  BY <1>1
  <1>6. 0 \in 0..n  BY <1>1
  <1> HIDE DEF n
  <1>7. /\ Pieces(h, 0) = <<>>
        /\ \A i \in 0..n : Pieces(h, i) \in Seq(Item)
        /\ \A i \in 1..n : Pieces(h, i) = Pieces(h, i - 1) \o h[i]
    <2>1. Joining(h, n, Item)  BY <1>1, <1>2, PiecesJoin, Zenon
    <2>2. QED  BY <2>1, Zenon DEF Joining
  <1>8. LinesNotes(s, text, f, 0) = <<>>  BY <1>4, <1>6, <1>7
  <1>9. \A i \in 0..n : LinesNotes(s, text, f, i) \in Seq(Item)  BY <1>4, <1>7
  <1>10. \A i \in 1..n : LinesNotes(s, text, f, i)
                           = LinesNotes(s, text, f, i - 1) \o LineNotes(s, text, f, i, Len(s))
    BY <1>3, <1>4, <1>5, <1>7, Zenon
  <1>11. QED  BY <1>8, <1>9, <1>10 DEF n

\* Noted as the lines before, and the commands of this one.
LEMMA NotedAtFirst ==
    ASSUME NEW s, Valid(s), NEW text \in Seq(Item), NEW start \in Disks, NEW f \in FileNames, NEW i \in 0..Len(s)
    PROVE  Noted(s, text, start, f, 0, i) = Held(start, f)
PROOF
  <1> DEFINE g == [m \in 1..0 |-> SeqExt!FlattenSeq([j \in UpTo(s, m, 0, i) |-> Notes(s, text, f, m, j)])]
  <1>1. g = [m \in 1..0 |-> LineNotes(s, text, f, m, Len(s))]
    <2>1. 1..0 = {}  OBVIOUS
    <2>2. \A m \in 1..0 : SeqExt!FlattenSeq([j \in UpTo(s, m, 0, i) |-> Notes(s, text, f, m, j)])
                            = LineNotes(s, text, f, m, Len(s))
      BY <2>1
    <2>3. QED  BY <2>2
  <1> HIDE DEF g
  <1>2. SeqExt!FlattenSeq(g) = <<>>  BY <1>1, LinesNotesFacts DEF LinesNotes
  <1>3. Held(start, f) \in Seq(Item)
    <2>1. start[f] \in Seq(Item) \cup {Nil} /\ <<>> \in Seq(Item)  BY DEF Disks
    <2>2. QED  BY <2>1 DEF Held
  <1>4. Noted(s, text, start, f, 0, i) = Held(start, f) \o SeqExt!FlattenSeq(g)  BY DEF Noted, g
  <1>5. QED  BY <1>2, <1>3, <1>4, ConcatEmptySeq

\* Before the first command of a line a file is as the line before has left it.
LEMMA NotedAtLine ==
    ASSUME NEW s, Valid(s), NEW text \in Seq(Item), NEW start, NEW f, NEW i \in 0..Len(s), NEW k \in 1..Len(text)
    PROVE  Noted(s, text, start, f, k, i)
             = Held(start, f) \o (LinesNotes(s, text, f, k - 1) \o LineNotes(s, text, f, k, i))
PROOF
  <1>0. Len(s) \in Nat /\ Len(text) \in Nat  BY DEF Valid
  <1> DEFINE h == [m \in 1..k |-> SeqExt!FlattenSeq([j \in UpTo(s, m, k, i) |-> Notes(s, text, f, m, j)])]
             g == [m \in 1..(k - 1) |-> LineNotes(s, text, f, m, Len(s))]
  <1>1. k \in Nat /\ k - 1 \in Nat /\ \A m \in 1..(k - 1) : m \in 1..k /\ m # k /\ m \in 1..Len(text)
    BY <1>0
  <1>2. \A m \in 1..k : h[m] = LineNotes(s, text, f, m, IF m = k THEN i ELSE Len(s))
    BY DEF UpTo, LineNotes
  <1>3. h[k] = LineNotes(s, text, f, k, i) /\ \A m \in 1..(k - 1) : h[m] = g[m]
    BY <1>1, <1>2
  <1>4. \A m \in 1..k : h[m] \in Seq(Item)
    <2>1. \A m \in 1..k : m \in 1..Len(text)  BY <1>0
    <2>2. \A m \in 1..k : (IF m = k THEN i ELSE Len(s)) \in 0..Len(s)  BY <1>0
    <2>3. \A m \in 1..k : LineNotes(s, text, f, m, IF m = k THEN i ELSE Len(s)) \in Seq(Item)
      BY <2>1, <2>2, LineNotesFacts, Zenon
    <2> HIDE DEF h
    <2>4. QED  BY <1>2, <2>3
  <1>5. h \in [1..k -> Seq(Item)] /\ g \in [1..(k - 1) -> Seq(Item)]
    BY <1>1, <1>3, <1>4, Zenon
  <1>6. h \in Seq(Seq(Item)) /\ g \in Seq(Seq(Item)) /\ Len(h) = k /\ Len(g) = k - 1
    BY <1>1, <1>5, IsASeq
  <1>7. Noted(s, text, start, f, k, i) = Held(start, f) \o SeqExt!FlattenSeq(h)
    BY DEF Noted
  <1>8. SeqExt!FlattenSeq(g) = LinesNotes(s, text, f, k - 1)  BY DEF LinesNotes
  <1> HIDE DEF h, g
  <1>9. Len(h) = Len(g) + 1 /\ h[Len(h)] = h[k] /\ \A j \in 1..Len(g) : g[j] = h[j]
    BY <1>1, <1>3, <1>6
  <1>10. SeqExt!FlattenSeq(h) = SeqExt!FlattenSeq(g) \o h[k]
    BY <1>6, <1>9, JoinMore, Zenon
  <1>11. QED  BY <1>3, <1>7, <1>8, <1>10

Regroups(h, a, b, c) == h \o (a \o (b \o c)) = (h \o (a \o b)) \o c

\* Joining three is associative.
LEMMA ThreeJoined ==
    ASSUME NEW T, NEW h \in Seq(T), NEW a \in Seq(T), NEW b \in Seq(T), NEW c \in Seq(T)
    PROVE  Regroups(h, a, b, c)
PROOF
  <1>1. a \o (b \o c) = (a \o b) \o c  BY ConcatAssociative, SMTT(30)
  <1>2. a \o b \in Seq(T)  BY ConcatProperties
  <1>3. (h \o (a \o b)) \o c = h \o ((a \o b) \o c)  BY <1>2, ConcatAssociative, SMTT(30)
  <1>4. QED  BY <1>1, <1>3 DEF Regroups

\* A command adds its note to the file, line by line.
LEMMA NotedSteps ==
    ASSUME NEW s, Valid(s), NEW text \in Seq(Item), NEW start \in Disks, NEW f \in FileNames
    PROVE  /\ Noted(s, text, start, f, 0, Len(s)) = Held(start, f)
           /\ \A k \in 0..Len(text) : \A i \in 0..Len(s) : Noted(s, text, start, f, k, i) \in Seq(Item)
           /\ \A k \in 1..Len(text) :
                 /\ Noted(s, text, start, f, k, 0) = Noted(s, text, start, f, k - 1, Len(s))
                 /\ \A i \in 1..Len(s) : Noted(s, text, start, f, k, i)
                       = Noted(s, text, start, f, k, i - 1) \o Notes(s, text, f, k, i)
PROOF
  <1> DEFINE n == Len(s)
             H == Held(start, f)
             P(k) == LinesNotes(s, text, f, k)
             L(k, i) == LineNotes(s, text, f, k, i)
             N(k, i) == Noted(s, text, start, f, k, i)
  <1>1. n \in Nat /\ Len(text) \in Nat /\ n \in 0..n /\ 0 \in 0..n  BY DEF Valid
  <1>2. H \in Seq(Item)
    <2>1. start[f] \in Seq(Item) \cup {Nil} /\ <<>> \in Seq(Item)  BY DEF Disks
    <2>2. QED  BY <2>1 DEF Held
  <1>3. \A i \in 0..n : N(0, i) = H  BY NotedAtFirst
  <1>4. \A k \in 1..Len(text) : \A i \in 0..n : N(k, i) = H \o (P(k - 1) \o L(k, i))
    <2>1. ASSUME NEW k \in 1..Len(text), NEW i \in 0..n
          PROVE  N(k, i) = H \o (P(k - 1) \o L(k, i))
      <3> HIDE DEF H, P, L, N
      <3>1. QED  BY NotedAtLine DEF H, P, L, N
    <2>2. QED  BY <2>1, Zenon
  <1>5. P(0) = <<>> /\ (\A k \in 0..Len(text) : P(k) \in Seq(Item))
        /\ \A k \in 1..Len(text) : P(k) = P(k - 1) \o L(k, n)
    BY LinesNotesFacts, Zenon
  <1>6. \A k \in 1..Len(text) :
           /\ L(k, 0) = <<>> /\ \A i \in 0..n : L(k, i) \in Seq(Item)
           /\ \A i \in 1..n : L(k, i) = L(k, i - 1) \o Notes(s, text, f, k, i)
    BY LineNotesFacts, Zenon
  <1>7. \A k \in 1..Len(text) : \A i \in 1..n : Notes(s, text, f, k, i) \in Seq(Item)
    BY PieceTypes
  <1>8. \A k \in 1..Len(text) : k - 1 \in 0..Len(text) /\ k \in 0..Len(text)
        /\ (k - 1 = 0 \/ k - 1 \in 1..Len(text))
    BY <1>1
  <1>9. \A i \in 1..n : i - 1 \in 0..n /\ i \in 0..n  BY <1>1
  <1>10. \A k \in 0..Len(text) : k = 0 \/ k \in 1..Len(text)  BY <1>1
  <1> HIDE DEF H, P, L, N
  <1>11. ASSUME NEW k \in 0..Len(text)  PROVE N(k, n) = H \o P(k)
    <2>1. CASE k = 0
      <3>1. H \o <<>> = H  BY <1>2, ConcatEmptySeq
      <3>2. QED  BY <1>1, <1>3, <1>5, <2>1, <3>1, Zenon
    <2>2. CASE k # 0
      <3>1. k \in 1..Len(text)  BY <1>10, <2>2
      <3>2. QED  BY <1>1, <1>4, <1>5, <3>1, Zenon
    <2>3. QED  BY <2>1, <2>2
  <1>12. ASSUME NEW k \in 0..Len(text), NEW i \in 0..n  PROVE N(k, i) \in Seq(Item)
    <2>1. CASE k = 0
      BY <1>2, <1>3, <2>1
    <2>2. CASE k # 0
      <3>1. k \in 1..Len(text)  BY <1>10, <2>2
      <3>2. N(k, i) = H \o (P(k - 1) \o L(k, i)) /\ P(k - 1) \in Seq(Item) /\ L(k, i) \in Seq(Item)
        BY <1>4, <1>5, <1>6, <1>8, <3>1, Zenon
      <3>3. P(k - 1) \o L(k, i) \in Seq(Item)  BY <3>2, ConcatProperties
      <3>4. QED  BY <1>2, <3>2, <3>3, ConcatProperties
    <2>3. QED  BY <2>1, <2>2
  <1>13. ASSUME NEW k \in 1..Len(text)  PROVE N(k, 0) = N(k - 1, n)
    <2>1. P(k - 1) \in Seq(Item) /\ k - 1 \in 0..Len(text)  BY <1>5, <1>8
    <2>2. P(k - 1) \o <<>> = P(k - 1)  BY <2>1, ConcatEmptySeq
    <2>3. N(k, 0) = H \o (P(k - 1) \o <<>>)  BY <1>1, <1>4, <1>6, Zenon
    <2>4. QED  BY <1>11, <2>1, <2>2, <2>3, Zenon
  <1>14. ASSUME NEW k \in 1..Len(text), NEW i \in 1..n
         PROVE  N(k, i) = N(k, i - 1) \o Notes(s, text, f, k, i)
    <2> DEFINE a == P(k - 1)
               b == L(k, i - 1)
               c == Notes(s, text, f, k, i)
    <2>1. a \in Seq(Item) /\ b \in Seq(Item) /\ c \in Seq(Item)
      BY <1>5, <1>6, <1>7, <1>8, <1>9, Zenon
    <2>2. N(k, i) = H \o (a \o (b \o c)) /\ N(k, i - 1) = H \o (a \o b)
      <3>1. i \in 0..n /\ i - 1 \in 0..n  BY <1>9
      <3>2. L(k, i) = b \o c  BY <1>6
      <3>3. \A m \in 0..n : N(k, m) = H \o (a \o L(k, m))  BY <1>4, Zenon
      <3>4. N(k, i) = H \o (a \o L(k, i))  BY <3>1, <3>3, Zenon
      <3>5. N(k, i - 1) = H \o (a \o b)  BY <3>1, <3>3, Zenon
      <3>6. QED  BY <3>2, <3>4, <3>5, Zenon
    <2> HIDE DEF a, b, c
    <2>3. H \o (a \o (b \o c)) = (H \o (a \o b)) \o c
      <3>1. Regroups(H, a, b, c)  BY <1>2, <2>1, ThreeJoined
      <3>2. QED  BY <3>1 DEF Regroups
    <2>4. QED  BY <2>2, <2>3, Zenon DEF c
  <1>15. QED  BY <1>1, <1>3, <1>12, <1>13, <1>14, Zenon DEF N, H

\* Line by line, and command by command.
LEMMA EveryPair ==
    ASSUME NEW n \in Nat, NEW l \in Nat, NEW S, <<0, n>> \in S,
           \A k \in 1..l : <<k - 1, n>> \in S => <<k, 0>> \in S,
           \A k \in 1..l : \A i \in 1..n : <<k, i - 1>> \in S => <<k, i>> \in S
    PROVE  \A k \in 1..l : \A i \in 0..n : <<k, i>> \in S
PROOF
  <1>1. ASSUME NEW k \in 1..l, <<k, 0>> \in S  PROVE \A i \in 0..n : <<k, i>> \in S
    <2> DEFINE R == {i \in Nat : i <= n => <<k, i>> \in S}
    <2>1. 0 \in R  BY <1>1
    <2>2. ASSUME NEW i \in Nat, i \in R  PROVE i + 1 \in R
      <3>1. SUFFICES ASSUME i + 1 <= n  PROVE <<k, i + 1>> \in S
        OBVIOUS
      <3>2. i + 1 \in 1..n /\ (i + 1) - 1 = i /\ i <= n  BY <3>1
      <3>3. <<k, i>> \in S  BY <2>2, <3>2
      <3>4. <<k, (i + 1) - 1>> \in S  BY <3>2, <3>3
      <3>5. QED  BY <3>2, <3>4
    <2>3. Nat \subseteq R
      <3> HIDE DEF R
      <3>1. QED  BY <2>1, <2>2, EveryNumber
    <2>4. ASSUME NEW i \in 0..n  PROVE <<k, i>> \in S
      <3>1. i \in Nat /\ i <= n  OBVIOUS
      <3>2. i \in R  BY <2>3, <3>1
      <3>3. QED  BY <3>1, <3>2
    <2>5. QED  BY <2>4
  <1> DEFINE Q == {k \in Nat : k <= l => <<k, n>> \in S}
  <1>2. 0 \in Q  OBVIOUS
  <1>3. ASSUME NEW k \in Nat, k \in Q  PROVE k + 1 \in Q
    <2>1. SUFFICES ASSUME k + 1 <= l  PROVE <<k + 1, n>> \in S
      OBVIOUS
    <2>2. k + 1 \in 1..l /\ (k + 1) - 1 = k /\ k <= l /\ n \in 0..n  BY <2>1
    <2>3. <<k, n>> \in S  BY <1>3, <2>2
    <2>4. <<k + 1, 0>> \in S
      <3>1. <<(k + 1) - 1, n>> \in S  BY <2>2, <2>3
      <3>2. QED  BY <2>2, <3>1
    <2>5. QED  BY <1>1, <2>2, <2>4
  <1>4. Nat \subseteq Q
    <2> HIDE DEF Q
    <2>1. QED  BY <1>2, <1>3, EveryNumber
  <1>5. ASSUME NEW k \in 1..l  PROVE <<k, 0>> \in S
    <2>1. k - 1 \in Nat /\ k - 1 <= l  OBVIOUS
    <2>2. k - 1 \in Q  BY <1>4, <2>1
    <2>3. QED  BY <2>1, <2>2
  <1>6. QED  BY <1>1, <1>5, Zenon

----------------------------------------------------------------------------
(***************************************************************************)
(* The files, one command or one line on.                                  *)
(***************************************************************************)
Seen(s, text, start, f, k, i) ==
    start[f] # Nil \/ \E m \in 1..k : \E j \in UpTo(s, m, k, i) : NotesIn(s, text, f, m, j)

\* Before the first line nothing was written.
LEMMA SeenFirst ==
    ASSUME NEW s, NEW text, NEW start, NEW f, NEW i
    PROVE  Seen(s, text, start, f, 0, i) <=> start[f] # Nil
PROOF
  <1>1. 1..0 = {}  OBVIOUS
  <1>2. QED  BY <1>1 DEF Seen

\* Before the first command of a line, what was written is what all before it have.
LEMMA SeenLine ==
    ASSUME NEW s, Valid(s), NEW text, NEW start, NEW f, NEW k \in Nat \ {0}
    PROVE  Seen(s, text, start, f, k, 0) <=> Seen(s, text, start, f, k - 1, Len(s))
PROOF
  <1>1. \A m \in 1..k : m # k => UpTo(s, m, k, 0) = 1..Len(s)  BY DEF UpTo
  <1>2. UpTo(s, k, k, 0) = 1..0 /\ 1..0 = {}  BY DEF UpTo
  <1>3. \A m \in 1..(k - 1) : UpTo(s, m, k - 1, Len(s)) = 1..Len(s)  BY DEF UpTo
  <1>4. 1..k = 1..(k - 1) \cup {k} /\ k \notin 1..(k - 1)  OBVIOUS
  <1> DEFINE N(m, j) == NotesIn(s, text, f, m, j)
  <1> HIDE DEF N
  <1>5. (\E m \in 1..k : \E j \in UpTo(s, m, k, 0) : N(m, j))
          <=> (\E m \in 1..(k - 1) : \E j \in UpTo(s, m, k - 1, Len(s)) : N(m, j))
    <2>1. ASSUME NEW m \in 1..k, NEW j \in UpTo(s, m, k, 0), N(m, j)
          PROVE  \E m1 \in 1..(k - 1) : \E j1 \in UpTo(s, m1, k - 1, Len(s)) : N(m1, j1)
      <3>1. m # k  BY <1>2, <2>1
      <3>2. m \in 1..(k - 1)  BY <1>4, <3>1
      <3>3. j \in UpTo(s, m, k - 1, Len(s))  BY <1>1, <1>3, <3>1, <3>2
      <3>4. QED  BY <2>1, <3>2, <3>3
    <2>2. ASSUME NEW m \in 1..(k - 1), NEW j \in UpTo(s, m, k - 1, Len(s)), N(m, j)
          PROVE  \E m1 \in 1..k : \E j1 \in UpTo(s, m1, k, 0) : N(m1, j1)
      <3>1. m \in 1..k /\ m # k  BY <1>4
      <3>2. j \in UpTo(s, m, k, 0)  BY <1>1, <1>3, <3>1
      <3>3. QED  BY <2>2, <3>1, <3>2
    <2>3. QED  BY <2>1, <2>2
  <1>6. QED  BY <1>5 DEF Seen, N

\* A command adds to it if it writes.
LEMMA SeenStep ==
    ASSUME NEW s, Valid(s), NEW text, NEW start, NEW f, NEW k \in Nat \ {0}, NEW i \in 1..Len(s)
    PROVE  Seen(s, text, start, f, k, i) <=> (Seen(s, text, start, f, k, i - 1) \/ NotesIn(s, text, f, k, i))
PROOF
  <1>1. Len(s) \in Nat  BY DEF Valid
  <1>2. \A m \in 1..k : m # k => UpTo(s, m, k, i) = UpTo(s, m, k, i - 1)  BY DEF UpTo
  <1>3. UpTo(s, k, k, i) = UpTo(s, k, k, i - 1) \cup {i}
    <2>1. 1..i = 1..(i - 1) \cup {i}  BY <1>1
    <2>2. QED  BY <2>1 DEF UpTo
  <1>4. k \in 1..k  OBVIOUS
  <1> DEFINE N(m, j) == NotesIn(s, text, f, m, j)
  <1> HIDE DEF N
  <1>5. (\E m \in 1..k : \E j \in UpTo(s, m, k, i) : N(m, j))
          <=> ((\E m \in 1..k : \E j \in UpTo(s, m, k, i - 1) : N(m, j)) \/ N(k, i))
    <2>1. ASSUME NEW m \in 1..k, NEW j \in UpTo(s, m, k, i), N(m, j), ~N(k, i)
          PROVE  \E m1 \in 1..k : \E j1 \in UpTo(s, m1, k, i - 1) : N(m1, j1)
      <3>1. j \in UpTo(s, m, k, i - 1)
        <4>1. CASE m = k
          <5>1. j # i  BY <2>1, <4>1
          <5>2. QED  BY <1>3, <4>1, <5>1
        <4>2. CASE m # k
          BY <1>2, <4>2
        <4>3. QED  BY <4>1, <4>2
      <3>2. QED  BY <2>1, <3>1
    <2>2. ASSUME NEW m \in 1..k, NEW j \in UpTo(s, m, k, i - 1), N(m, j)
          PROVE  \E m1 \in 1..k : \E j1 \in UpTo(s, m1, k, i) : N(m1, j1)
      <3>1. j \in UpTo(s, m, k, i)  BY <1>2, <1>3
      <3>2. QED  BY <2>2, <3>1
    <2>3. ASSUME N(k, i)
          PROVE  \E m1 \in 1..k : \E j1 \in UpTo(s, m1, k, i) : N(m1, j1)
      <3>1. i \in UpTo(s, k, k, i)  BY <1>3
      <3>2. QED  BY <1>4, <2>3, <3>1
    <2>4. QED  BY <2>1, <2>2, <2>3
  <1>6. QED  BY <1>5 DEF Seen, N

\* Nothing was noted in a file that is not there.
LEMMA UnseenIsEmpty ==
    ASSUME NEW s, Valid(s), NEW text \in Seq(Item), NEW start \in Disks, NEW f \in FileNames
    PROVE  \A k \in 0..Len(text) : \A i \in 0..Len(s) :
              (k = 0 => i = Len(s)) /\ ~Seen(s, text, start, f, k, i) => Noted(s, text, start, f, k, i) = <<>>
PROOF
  <1> DEFINE n == Len(s)
             l == Len(text)
             N(k, i) == Noted(s, text, start, f, k, i)
             B(k, i) == Seen(s, text, start, f, k, i)
             S == {p \in (0..l) \X (0..n) : ~B(p[1], p[2]) => N(p[1], p[2]) = <<>>}
  <1>1. n \in Nat /\ l \in Nat /\ 0 \in 0..l /\ 0 \in 0..n /\ n \in 0..n  BY DEF Valid
  <1>2. \A k \in 1..l : k \in Nat \ {0} /\ k \in 0..l /\ k - 1 \in 0..l  BY <1>1
  <1>3. \A i \in 1..n : i \in 0..n /\ i - 1 \in 0..n  BY <1>1
  <1>4. \A k \in 0..l, i \in 0..n : <<k, i>> \in S <=> (~B(k, i) => N(k, i) = <<>>)
    OBVIOUS
  <1>5. ~B(0, n) => N(0, n) = <<>>
    <2>1. N(0, n) = Held(start, f)  BY NotedSteps
    <2>2. B(0, n) <=> start[f] # Nil  BY SeenFirst
    <2>3. QED  BY <2>1, <2>2 DEF Held
  <1>6. ASSUME NEW k \in 1..l
        PROVE  (B(k, 0) <=> B(k - 1, n)) /\ N(k, 0) = N(k - 1, n)
    <2>1. B(k, 0) <=> B(k - 1, n)  BY <1>2, SeenLine
    <2>2. N(k, 0) = N(k - 1, n)  BY NotedSteps
    <2>3. QED  BY <2>1, <2>2
  <1>7. ASSUME NEW k \in 1..l, NEW i \in 1..n, ~B(k, i)
        PROVE  ~B(k, i - 1) /\ (N(k, i - 1) = <<>> => N(k, i) = <<>>)
    <2>1. ~B(k, i - 1) /\ ~NotesIn(s, text, f, k, i)  BY <1>2, <1>7, SeenStep, Zenon
    <2>2. N(k, i) = N(k, i - 1) \o Notes(s, text, f, k, i)  BY NotedSteps
    <2>3. Notes(s, text, f, k, i) = <<>>  BY <2>1 DEF Notes
    <2>4. <<>> \o <<>> = <<>>  OBVIOUS
    <2>5. QED  BY <2>1, <2>2, <2>3, <2>4, Zenon
  <1> HIDE DEF B, N, S
  <1>8. <<0, n>> \in S  BY <1>1, <1>4, <1>5
  <1>9. \A k \in 1..l : <<k - 1, n>> \in S => <<k, 0>> \in S
    <2>1. SUFFICES ASSUME NEW k \in 1..l, <<k - 1, n>> \in S  PROVE <<k, 0>> \in S
      OBVIOUS
    <2>2. k \in 0..l /\ k - 1 \in 0..l  BY <1>2
    <2>3. ~B(k - 1, n) => N(k - 1, n) = <<>>  BY <1>1, <1>4, <2>1, <2>2
    <2>4. ~B(k, 0) => N(k, 0) = <<>>  BY <1>6, <2>3
    <2>5. QED  BY <1>1, <1>4, <2>2, <2>4
  <1>10. \A k \in 1..l : \A i \in 1..n : <<k, i - 1>> \in S => <<k, i>> \in S
    <2>1. SUFFICES ASSUME NEW k \in 1..l, NEW i \in 1..n, <<k, i - 1>> \in S  PROVE <<k, i>> \in S
      OBVIOUS
    <2>2. k \in 0..l /\ i \in 0..n /\ i - 1 \in 0..n  BY <1>2, <1>3
    <2>3. ~B(k, i - 1) => N(k, i - 1) = <<>>  BY <1>4, <2>1, <2>2
    <2>4. ~B(k, i) => N(k, i) = <<>>  BY <1>7, <2>3
    <2>5. QED  BY <1>4, <2>2, <2>4
  <1>11. \A k \in 1..l : \A i \in 0..n : <<k, i>> \in S
    <2> HIDE DEF n, l
    <2>1. QED  BY <1>1, <1>8, <1>9, <1>10, EveryPair, Zenon
  <1>12. ASSUME NEW k \in 0..l, NEW i \in 0..n, k = 0 => i = n, ~B(k, i)  PROVE N(k, i) = <<>>
    <2>1. k = 0 \/ k \in 1..l  BY <1>1
    <2>2. <<k, i>> \in S  BY <1>8, <1>11, <1>12, <2>1
    <2>3. QED  BY <1>4, <1>12, <2>2
  <1>13. QED  BY <1>12 DEF B, N

\* What is in file f, if it is there.
InFile(s, text, start, f, k, i) ==
    IF Seen(s, text, start, f, k, i) THEN Noted(s, text, start, f, k, i) ELSE Nil

\* DiskAt, file by file.
LEMMA DiskIsInFile ==
    ASSUME NEW s, NEW text, NEW start, NEW k, NEW i
    PROVE  DiskAt(s, text, start, k, i) = [f \in FileNames |-> InFile(s, text, start, f, k, i)]
PROOF
  BY DEF DiskAt, InFile, Seen

\* A file is there or not, with the lines written to it.
LEMMA InFileFacts ==
    ASSUME NEW s, Valid(s), NEW text \in Seq(Item), NEW start \in Disks, NEW f \in FileNames,
           Nil \notin Seq(Item), NEW k \in 0..Len(text), NEW i \in 0..Len(s), k = 0 => i = Len(s)
    PROVE  /\ InFile(s, text, start, f, k, i) \in Seq(Item) \cup {Nil}
           /\ Noted(s, text, start, f, k, i)
                 = IF InFile(s, text, start, f, k, i) = Nil THEN <<>> ELSE InFile(s, text, start, f, k, i)
PROOF
  <1>1. Noted(s, text, start, f, k, i) \in Seq(Item)  BY NotedSteps
  <1>2. ~Seen(s, text, start, f, k, i) => Noted(s, text, start, f, k, i) = <<>>  BY UnseenIsEmpty
  <1>3. QED  BY <1>1, <1>2 DEF InFile

\* What a command makes of a file is told from before.
LEMMA InFileSteps ==
    ASSUME NEW s, Valid(s), NEW text \in Seq(Item), NEW start \in Disks, NEW f \in FileNames,
           Nil \notin Seq(Item)
    PROVE  /\ InFile(s, text, start, f, 0, Len(s)) = start[f]
           /\ \A k \in 1..Len(text) :
                 /\ InFile(s, text, start, f, k, 0) = InFile(s, text, start, f, k - 1, Len(s))
                 /\ \A i \in 1..Len(s) :
                      InFile(s, text, start, f, k, i)
                        = IF NotesIn(s, text, f, k, i)
                          THEN Noted(s, text, start, f, k, i - 1) \o Finds(s, text)[i][k].space
                          ELSE InFile(s, text, start, f, k, i - 1)
PROOF
  <1> DEFINE n == Len(s)
             l == Len(text)
             N(k, i) == Noted(s, text, start, f, k, i)
             B(k, i) == Seen(s, text, start, f, k, i)
             I(k, i) == InFile(s, text, start, f, k, i)
  <1>1. n \in Nat /\ l \in Nat  BY DEF Valid
  <1>2. I(0, n) = start[f]
    <2>1. N(0, n) = Held(start, f)  BY NotedSteps
    <2>2. B(0, n) <=> start[f] # Nil  BY SeenFirst
    <2>3. QED  BY <2>1, <2>2 DEF Held, InFile
  <1>3. ASSUME NEW k \in 1..l  PROVE I(k, 0) = I(k - 1, n)
    <2>1. k \in Nat \ {0}  OBVIOUS
    <2>2. B(k, 0) <=> B(k - 1, n)  BY <2>1, SeenLine
    <2>3. N(k, 0) = N(k - 1, n)  BY NotedSteps
    <2>4. QED  BY <2>2, <2>3 DEF InFile
  <1>4. ASSUME NEW k \in 1..l, NEW i \in 1..n
        PROVE  I(k, i) = IF NotesIn(s, text, f, k, i) THEN N(k, i - 1) \o Finds(s, text)[i][k].space
                         ELSE I(k, i - 1)
    <2>1. k \in Nat \ {0} /\ i - 1 \in 0..n  BY <1>1
    <2>2. B(k, i) <=> (B(k, i - 1) \/ NotesIn(s, text, f, k, i))  BY <2>1, SeenStep
    <2>3. N(k, i) = N(k, i - 1) \o Notes(s, text, f, k, i) /\ N(k, i - 1) \in Seq(Item)
      <3>1. k \in 0..l  BY <1>1
      <3>2. N(k, i) = N(k, i - 1) \o Notes(s, text, f, k, i)  BY NotedSteps
      <3>3. N(k, i - 1) \in Seq(Item)  BY <2>1, <3>1, NotedSteps
      <3>4. QED  BY <3>2, <3>3
    <2>4. CASE NotesIn(s, text, f, k, i)
      <3>1. B(k, i)  BY <2>2, <2>4
      <3>2. Notes(s, text, f, k, i) = Finds(s, text)[i][k].space  BY <2>4 DEF Notes
      <3>3. I(k, i) = N(k, i)  BY <3>1 DEF InFile
      <3>4. QED  BY <2>3, <2>4, <3>2, <3>3, Zenon
    <2>5. CASE ~NotesIn(s, text, f, k, i)
      <3>1. Notes(s, text, f, k, i) = <<>>  BY <2>5 DEF Notes
      <3>2. N(k, i) = N(k, i - 1)  BY <2>3, <3>1, ConcatEmptySeq
      <3>3. B(k, i) <=> B(k, i - 1)  BY <2>2, <2>5
      <3>4. I(k, i) = I(k, i - 1)  BY <3>2, <3>3 DEF InFile
      <3>5. QED  BY <2>5, <3>4
    <2>6. QED  BY <2>4, <2>5, Zenon
  <1>5. QED  BY <1>2, <1>3, <1>4, Zenon

\* The files that the meaning has are files.
LEMMA DiskType ==
    ASSUME NEW s, Valid(s), NEW text \in Seq(Item), NEW start \in Disks, Nil \notin Seq(Item),
           NEW k \in 0..Len(text), NEW i \in 0..Len(s), k = 0 => i = Len(s)
    PROVE  DiskAt(s, text, start, k, i) \in Disks
PROOF
  <1>1. \A f \in FileNames : InFile(s, text, start, f, k, i) \in Seq(Item) \cup {Nil}
    BY InFileFacts
  <1>2. DiskAt(s, text, start, k, i) = [f \in FileNames |-> InFile(s, text, start, f, k, i)]
    BY DiskIsInFile
  <1>3. QED  BY <1>1, <1>2 DEF Disks

\* Before anything is read they are those there were.
LEMMA DiskFirst ==
    ASSUME NEW s, Valid(s), NEW text \in Seq(Item), NEW start \in Disks, Nil \notin Seq(Item)
    PROVE  DiskAt(s, text, start, 0, Len(s)) = start
PROOF
  <1>1. \A f \in FileNames : InFile(s, text, start, f, 0, Len(s)) = start[f]
    BY InFileSteps, Zenon
  <1>2. DiskAt(s, text, start, 0, Len(s)) = [f \in FileNames |-> InFile(s, text, start, f, 0, Len(s))]
    BY DiskIsInFile
  <1>3. start = [f \in FileNames |-> start[f]]  BY DEF Disks
  <1>4. QED  BY <1>1, <1>2, <1>3, Zenon

\* A line finds the files as the one before has left them.
LEMMA DiskLine ==
    ASSUME NEW s, Valid(s), NEW text \in Seq(Item), NEW start \in Disks, Nil \notin Seq(Item),
           NEW k \in 1..Len(text)
    PROVE  DiskAt(s, text, start, k, 0) = DiskAt(s, text, start, k - 1, Len(s))
PROOF
  <1>1. \A f \in FileNames : InFile(s, text, start, f, k, 0) = InFile(s, text, start, f, k - 1, Len(s))
    BY InFileSteps, Zenon
  <1>2. /\ DiskAt(s, text, start, k, 0) = [f \in FileNames |-> InFile(s, text, start, f, k, 0)]
        /\ DiskAt(s, text, start, k - 1, Len(s))
             = [f \in FileNames |-> InFile(s, text, start, f, k - 1, Len(s))]
    BY DiskIsInFile
  <1>3. QED  BY <1>1, <1>2

\* A w adds the line to its file, and no other command changes one.
LEMMA DiskStep ==
    ASSUME NEW s, Valid(s), NEW text \in Seq(Item), NEW start \in Disks, Nil \notin Seq(Item),
           NEW k \in 1..Len(text), NEW i \in 1..Len(s)
    PROVE  DiskAt(s, text, start, k, i)
             = IF Acts(s, text, "w", k, i)
               THEN [DiskAt(s, text, start, k, i - 1) EXCEPT ![s[i].file] =
                        (IF @ = Nil THEN <<>> ELSE @) \o Finds(s, text)[i][k].space]
               ELSE DiskAt(s, text, start, k, i - 1)
PROOF
  <1> DEFINE w == Acts(s, text, "w", k, i)
             space == Finds(s, text)[i][k].space
             D == DiskAt(s, text, start, k, i)
             E == DiskAt(s, text, start, k, i - 1)
             I(f) == InFile(s, text, start, f, k, i)
             J(f) == InFile(s, text, start, f, k, i - 1)
             N(f) == Noted(s, text, start, f, k, i - 1)
  <1>1. Len(s) \in Nat /\ Len(text) \in Nat  BY DEF Valid
  <1>2. k \in 0..Len(text) /\ k # 0 /\ i - 1 \in 0..Len(s)  BY <1>1
  <1>3. \A f \in FileNames : NotesIn(s, text, f, k, i) <=> w /\ s[i].file = f
    BY DEF NotesIn
  <1>4. D = [f \in FileNames |-> I(f)] /\ E = [f \in FileNames |-> J(f)]
    BY DiskIsInFile
  <1>5. \A f \in FileNames : N(f) = IF J(f) = Nil THEN <<>> ELSE J(f)
    BY <1>2, InFileFacts
  <1>6. \A f \in FileNames : I(f) = IF w /\ s[i].file = f THEN N(f) \o space ELSE J(f)
    <2>1. ASSUME NEW f \in FileNames
          PROVE  I(f) = IF NotesIn(s, text, f, k, i) THEN N(f) \o space ELSE J(f)
      BY InFileSteps, Zenon
    <2> HIDE DEF w, I, J, N, space
    <2>2. QED  BY <1>3, <2>1
  <1>7. w => s[i].file \in FileNames
    BY DEF Acts, Valid
  <1> DEFINE g == s[i].file
  <1> HIDE DEF w, space, D, E, I, J, N, g
  <1>8. CASE w
    <2>1. \A f \in FileNames : D[f] = IF g = f THEN (IF E[f] = Nil THEN <<>> ELSE E[f]) \o space ELSE E[f]
      BY <1>4, <1>5, <1>6, <1>8, Zenon DEF g
    <2>2. D = [E EXCEPT ![g] = (IF @ = Nil THEN <<>> ELSE @) \o space]
      BY <1>4, <2>1, Zenon
    <2>3. QED  BY <1>8, <2>2 DEF D, E, g, space, w
  <1>9. CASE ~w
    <2>1. D = E  BY <1>4, <1>6, <1>9
    <2>2. QED  BY <1>9, <2>1 DEF D, E, w
  <1>10. QED  BY <1>8, <1>9, Zenon

\* r reads what is there then.
LEMMA ReadsFacts ==
    ASSUME NEW s, Valid(s), NEW text \in Seq(Item), NEW start \in Disks, Nil \notin Seq(Item),
           NEW k \in 1..Len(text), NEW i \in 1..Len(s)
    PROVE  /\ Reads(s, text, start, k, i) \in Seq(Item)
           /\ Reads(s, text, start, k, i)
                = IF Acts(s, text, "r", k, i) THEN Held(DiskAt(s, text, start, k, i - 1), s[i].file) ELSE <<>>
PROOF
  <1>1. Len(s) \in Nat /\ Len(text) \in Nat  BY DEF Valid
  <1>2. k \in 0..Len(text) /\ k # 0 /\ i - 1 \in 0..Len(s)  BY <1>1
  <1>3. <<>> \in Seq(Item)  OBVIOUS
  <1>4. CASE Acts(s, text, "r", k, i)
    <2> DEFINE f == s[i].file
               N == Noted(s, text, start, f, k, i - 1)
               J == InFile(s, text, start, f, k, i - 1)
               D == DiskAt(s, text, start, k, i - 1)
    <2>1. f \in FileNames  BY <1>4 DEF Acts, Valid
    <2>2. D[f] = J
      <3>1. D = [g \in FileNames |-> InFile(s, text, start, g, k, i - 1)]  BY DiskIsInFile
      <3>2. QED  BY <2>1, <3>1
    <2> HIDE DEF f
    <2>3. N = IF J = Nil THEN <<>> ELSE J  BY <1>2, <2>1, InFileFacts
    <2>4. N \in Seq(Item)  BY <1>2, <2>1, NotedSteps
    <2>5. Held(D, f) = N  BY <2>2, <2>3 DEF Held
    <2>6. Reads(s, text, start, k, i) = N  BY <1>4 DEF Reads, f
    <2> HIDE DEF N, D
    <2>7. QED  BY <1>4, <2>4, <2>5, <2>6 DEF D, f
  <1>5. CASE ~Acts(s, text, "r", k, i)
    BY <1>3, <1>5 DEF Reads
  <1>6. QED  BY <1>4, <1>5

----------------------------------------------------------------------------
(***************************************************************************)
(* What is printed of a line.                                              *)
(***************************************************************************)
LEMMA NewTextStep ==
    ASSUME NEW s, Valid(s), NEW text, NEW k, NEW i \in 1..Len(s)
    PROVE  /\ NewText(s, text, k, 0) = Nil
           /\ NewText(s, text, k, i) = IF Acts(s, text, "c", k, i) THEN s[i].text ELSE NewText(s, text, k, i - 1)
PROOF
  <1> DEFINE C(m) == Changes(s, text, k, m)
  <1>1. Len(s) \in Nat  BY DEF Valid
  <1>2. NewText(s, text, k, 0) = Nil
    <2>1. 1..0 = {}  OBVIOUS
    <2>2. Changes(s, text, k, 0) = {}  BY <2>1 DEF Changes
    <2>3. QED  BY <2>2 DEF NewText
  <1>3. CASE Acts(s, text, "c", k, i)
    <2>1. i \in C(i) /\ \A h \in C(i) : h \in Nat /\ h <= i  BY <1>1, <1>3 DEF Changes
    <2> DEFINE m == CHOOSE j \in C(i) : \A h \in C(i) : h <= j
    <2>2. m \in C(i) /\ \A h \in C(i) : h <= m  BY <2>1
    <2>3. m = i
      <3> HIDE DEF m
      <3>1. m \in Nat /\ i \in Nat /\ m <= i /\ i <= m  BY <1>1, <2>1, <2>2
      <3>2. QED  BY <3>1
    <2>4. NewText(s, text, k, i) = s[m].text
      <3>1. C(i) # {}  BY <2>1
      <3>2. QED  BY <3>1 DEF NewText
    <2> HIDE DEF m
    <2>5. QED  BY <1>2, <1>3, <2>3, <2>4
  <1>4. CASE ~Acts(s, text, "c", k, i)
    <2>1. 1..i = 1..(i - 1) \cup {i}  BY <1>1
    <2>2. C(i) = C(i - 1)  BY <1>4, <2>1 DEF Changes
    <2>3. NewText(s, text, k, i) = NewText(s, text, k, i - 1)  BY <2>2 DEF NewText
    <2>4. QED  BY <1>2, <1>4, <2>3
  <1>5. QED  BY <1>2, <1>3, <1>4

\* The text of a c command is a text, and not Nil.
LEMMA NewTextType ==
    ASSUME NEW s, Valid(s), NEW text, NEW k
    PROVE  \A i \in 0..Len(s) : NewText(s, text, k, i) \in Texts \cup {Nil}
PROOF
  <1> DEFINE n == Len(s)
             C(m) == Changes(s, text, k, m)
             S == {i \in Nat : i <= n => NewText(s, text, k, i) \in Texts \cup {Nil}}
  <1>1. n \in Nat  BY DEF Valid
  <1>2. 0 \in S
    <2>1. 1..0 = {}  OBVIOUS
    <2>2. Changes(s, text, k, 0) = {}  BY <2>1 DEF Changes
    <2>3. NewText(s, text, k, 0) = Nil  BY <2>2 DEF NewText
    <2>4. QED  BY <2>3
  <1>3. ASSUME NEW i \in Nat, i \in S  PROVE i + 1 \in S
    <2>1. SUFFICES ASSUME i + 1 <= n  PROVE NewText(s, text, k, i + 1) \in Texts \cup {Nil}
      OBVIOUS
    <2>2. i + 1 \in 1..n /\ (i + 1) - 1 = i /\ i <= n  BY <1>1, <2>1
    <2>3. NewText(s, text, k, i) \in Texts \cup {Nil}  BY <1>3, <2>2
    <2>4. NewText(s, text, k, i + 1)
            = IF Acts(s, text, "c", k, i + 1) THEN s[i + 1].text ELSE NewText(s, text, k, (i + 1) - 1)
      BY <2>2, NewTextStep
    <2>5. Acts(s, text, "c", k, i + 1) => s[i + 1].text \in Texts
      BY <2>2 DEF Acts, Valid
    <2>6. QED  BY <2>2, <2>3, <2>4, <2>5
  <1>4. Nat \subseteq S
    <2> HIDE DEF S
    <2>1. QED  BY <1>2, <1>3, EveryNumber
  <1>5. ASSUME NEW i \in 0..n  PROVE NewText(s, text, k, i) \in Texts \cup {Nil}
    <2>1. i \in Nat /\ i <= n  BY <1>1
    <2>2. i \in S  BY <1>4, <2>1
    <2>3. QED  BY <2>1, <2>2
  <1>6. QED  BY <1>5

\* Printed by, and queued by, the first i commands.
LineSays(s, text, k, i) == SeqExt!FlattenSeq([j \in 1..i |-> Says(s, text, k, j)])
LineAppends(s, text, k, i) == SeqExt!FlattenSeq([j \in 1..i |-> Appends(s, text, k, j)])
LineReads(s, text, start, k, i) == SeqExt!FlattenSeq([j \in 1..i |-> Reads(s, text, start, k, j)])


\* What the commands print of a line, one after the other.
LEMMA LineSaysFacts ==
    ASSUME NEW s, Valid(s), NEW text \in Seq(Item), NEW k \in 1..Len(text)
    PROVE  /\ LineSays(s, text, k, 0) = <<>>
           /\ \A i \in 0..Len(s) : LineSays(s, text, k, i) \in Seq(Item)
           /\ \A i \in 1..Len(s) : LineSays(s, text, k, i) = LineSays(s, text, k, i - 1) \o Says(s, text, k, i)
PROOF
  <1> DEFINE n == Len(s)
             h == [j \in 1..n |-> Says(s, text, k, j)]
  <1>1. n \in Nat  BY DEF Valid
  <1>2. h \in [1..n -> Seq(Item)]  BY PieceTypes
  <1>3. \A i \in 1..n : h[i] = Says(s, text, k, i)  OBVIOUS
  <1>4. ASSUME NEW i \in 0..n
        PROVE  LineSays(s, text, k, i) = Pieces(h, i)
    <2>1. [j \in 1..i |-> h[j]] = [j \in 1..i |-> Says(s, text, k, j)]
      BY <1>1
    <2>2. QED  BY <2>1, Zenon DEF LineSays, Pieces
  <1>5. \A i \in 1..n : i - 1 \in 0..n /\ i \in 0..n  BY <1>1
  <1>6. 0 \in 0..n  BY <1>1
  <1> HIDE DEF h, n
  <1>7. /\ Pieces(h, 0) = <<>>
        /\ \A i \in 0..n : Pieces(h, i) \in Seq(Item)
        /\ \A i \in 1..n : Pieces(h, i) = Pieces(h, i - 1) \o h[i]
    <2>1. Joining(h, n, Item)  BY <1>1, <1>2, PiecesJoin, Zenon
    <2>2. QED  BY <2>1, Zenon DEF Joining
  <1>8. QED  BY <1>3, <1>4, <1>5, <1>6, <1>7, Zenon DEF n

\* What a has queued, one after the other.
LEMMA LineAppendsFacts ==
    ASSUME NEW s, Valid(s), NEW text \in Seq(Item), NEW k \in 1..Len(text)
    PROVE  /\ LineAppends(s, text, k, 0) = <<>>
           /\ \A i \in 0..Len(s) : LineAppends(s, text, k, i) \in Seq(Item)
           /\ \A i \in 1..Len(s) :
                 LineAppends(s, text, k, i) = LineAppends(s, text, k, i - 1) \o Appends(s, text, k, i)
PROOF
  <1> DEFINE n == Len(s)
             h == [j \in 1..n |-> Appends(s, text, k, j)]
  <1>1. n \in Nat  BY DEF Valid
  <1>2. h \in [1..n -> Seq(Item)]  BY PieceTypes
  <1>3. \A i \in 1..n : h[i] = Appends(s, text, k, i)  OBVIOUS
  <1>4. ASSUME NEW i \in 0..n
        PROVE  LineAppends(s, text, k, i) = Pieces(h, i)
    <2>1. [j \in 1..i |-> h[j]] = [j \in 1..i |-> Appends(s, text, k, j)]
      BY <1>1
    <2>2. QED  BY <2>1, Zenon DEF LineAppends, Pieces
  <1>5. \A i \in 1..n : i - 1 \in 0..n /\ i \in 0..n  BY <1>1
  <1>6. 0 \in 0..n  BY <1>1
  <1> HIDE DEF h, n
  <1>7. /\ Pieces(h, 0) = <<>>
        /\ \A i \in 0..n : Pieces(h, i) \in Seq(Item)
        /\ \A i \in 1..n : Pieces(h, i) = Pieces(h, i - 1) \o h[i]
    <2>1. Joining(h, n, Item)  BY <1>1, <1>2, PiecesJoin, Zenon
    <2>2. QED  BY <2>1, Zenon DEF Joining
  <1>8. QED  BY <1>3, <1>4, <1>5, <1>6, <1>7, Zenon DEF n

\* What r has queued, one after the other.
LEMMA LineReadsFacts ==
    ASSUME NEW s, Valid(s), NEW text \in Seq(Item), NEW start \in Disks, Nil \notin Seq(Item),
           NEW k \in 1..Len(text)
    PROVE  /\ LineReads(s, text, start, k, 0) = <<>>
           /\ \A i \in 0..Len(s) : LineReads(s, text, start, k, i) \in Seq(Item)
           /\ \A i \in 1..Len(s) :
                 LineReads(s, text, start, k, i) = LineReads(s, text, start, k, i - 1) \o Reads(s, text, start, k, i)
PROOF
  <1> DEFINE n == Len(s)
             h == [j \in 1..n |-> Reads(s, text, start, k, j)]
  <1>1. n \in Nat  BY DEF Valid
  <1>2. h \in [1..n -> Seq(Item)]  BY ReadsFacts
  <1>3. \A i \in 1..n : h[i] = Reads(s, text, start, k, i)  OBVIOUS
  <1>4. ASSUME NEW i \in 0..n
        PROVE  LineReads(s, text, start, k, i) = Pieces(h, i)
    <2>1. [j \in 1..i |-> h[j]] = [j \in 1..i |-> Reads(s, text, start, k, j)]
      BY <1>1
    <2>2. QED  BY <2>1, Zenon DEF LineReads, Pieces
  <1>5. \A i \in 1..n : i - 1 \in 0..n /\ i \in 0..n  BY <1>1
  <1>6. 0 \in 0..n  BY <1>1
  <1> HIDE DEF h, n
  <1>7. /\ Pieces(h, 0) = <<>>
        /\ \A i \in 0..n : Pieces(h, i) \in Seq(Item)
        /\ \A i \in 1..n : Pieces(h, i) = Pieces(h, i - 1) \o h[i]
    <2>1. Joining(h, n, Item)  BY <1>1, <1>2, PiecesJoin, Zenon
    <2>2. QED  BY <2>1, Zenon DEF Joining
  <1>8. QED  BY <1>3, <1>4, <1>5, <1>6, <1>7, Zenon DEF n

\* What is printed of a line: by its commands, at its end, and what they queued.
PassageIs(s, text, quiet, start, k) ==
    /\ AtEnd(s, text, quiet, k) \in Seq(Item)
    /\ Passage(s, text, quiet, start, k) \in Seq(Item)
    /\ Passage(s, text, quiet, start, k)
         = LineSays(s, text, k, Len(s)) \o AtEnd(s, text, quiet, k)
           \o LineAppends(s, text, k, Len(s)) \o LineReads(s, text, start, k, Len(s))

\* What is printed of a line, and at the end of its cycle.
LEMMA PassageFacts ==
    ASSUME NEW s, Valid(s), NEW text \in Seq(Item), NEW quiet, NEW start \in Disks, Nil \notin Seq(Item),
           NEW k \in 1..Len(text)
    PROVE  PassageIs(s, text, quiet, start, k)
PROOF
  <1> DEFINE n == Len(s)
             A == AtEnd(s, text, quiet, k)
             S == LineSays(s, text, k, n)
             P == LineAppends(s, text, k, n)
             R == LineReads(s, text, start, k, n)
  <1>1. n \in Nat /\ n \in 0..n /\ n + 1 \in 1..(n + 1)  BY DEF Valid
  <1>2. A \in Seq(Item)
    <2>1. Finds(s, text)[n + 1][k] \in Line  BY <1>1, PieceTypes
    <2>2. Finds(s, text)[n + 1][k].space \in Seq(Item)  BY <2>1 DEF Line
    <2>3. NewText(s, text, k, n) \in Texts \cup {Nil}  BY <1>1, NewTextType
    <2>4. \A x \in Texts : <<x>> \in Seq(Item)  BY DEF Item
    <2>5. <<>> \in Seq(Item)  OBVIOUS
    <2>6. \/ A = <<>>
          \/ A = <<NewText(s, text, k, n)>> /\ NewText(s, text, k, n) # Nil
          \/ A = Finds(s, text)[n + 1][k].space
      BY DEF AtEnd
    <2> HIDE DEF A
    <2>7. QED  BY <2>2, <2>3, <2>4, <2>5, <2>6, Zenon
  <1>3. S \in Seq(Item) /\ P \in Seq(Item) /\ R \in Seq(Item)
    BY <1>1, LineSaysFacts, LineAppendsFacts, LineReadsFacts
  <1>4. Passage(s, text, quiet, start, k) = S \o A \o P \o R
    BY DEF Passage, LineSays, LineAppends, LineReads
  <1> HIDE DEF A, S, P, R
  <1>5. \A u, v \in Seq(Item) : u \o v \in Seq(Item)  BY ConcatProperties
  <1>6. S \o A \o P \o R \in Seq(Item)  BY <1>2, <1>3, <1>5
  <1>7. QED  BY <1>2, <1>4, <1>6 DEF A, S, P, R, PassageIs

PrintsOn(s, text, quiet, start) ==
    /\ Printed(s, text, quiet, start, 0) = <<>>
    /\ \A k \in 0..Len(text) : Printed(s, text, quiet, start, k) \in Seq(Item)
    /\ \A k \in 1..Len(text) :
          Printed(s, text, quiet, start, k)
            = Printed(s, text, quiet, start, k - 1) \o Passage(s, text, quiet, start, k)

\* And of the lines one after the other.
LEMMA PrintedFacts ==
    ASSUME NEW s, Valid(s), NEW text \in Seq(Item), NEW quiet, NEW start \in Disks, Nil \notin Seq(Item)
    PROVE  PrintsOn(s, text, quiet, start)
PROOF
  <1> DEFINE n == Len(text)
             h == [m \in 1..n |-> Passage(s, text, quiet, start, m)]
  <1>1. n \in Nat  OBVIOUS
  <1>2. h \in [1..n -> Seq(Item)]  BY PassageFacts, Zenon DEF PassageIs
  <1>3. \A i \in 1..n : h[i] = Passage(s, text, quiet, start, i)  OBVIOUS
  <1>4. ASSUME NEW i \in 0..n
        PROVE  Printed(s, text, quiet, start, i) = Pieces(h, i)
    <2>1. [j \in 1..i |-> h[j]] = [j \in 1..i |-> Passage(s, text, quiet, start, j)]
      BY <1>1
    <2>2. QED  BY <2>1, Zenon DEF Printed, Pieces
  <1>5. \A i \in 1..n : i - 1 \in 0..n /\ i \in 0..n  BY <1>1
  <1>6. 0 \in 0..n  BY <1>1
  <1> HIDE DEF h, n
  <1>7. /\ Pieces(h, 0) = <<>>
        /\ \A i \in 0..n : Pieces(h, i) \in Seq(Item)
        /\ \A i \in 1..n : Pieces(h, i) = Pieces(h, i - 1) \o h[i]
    <2>1. Joining(h, n, Item)  BY <1>1, <1>2, PiecesJoin, Zenon
    <2>2. QED  BY <2>1, Zenon DEF Joining
  <1>8. QED  BY <1>3, <1>4, <1>5, <1>6, <1>7, Zenon DEF n, PrintsOn

----------------------------------------------------------------------------
(***************************************************************************)
(* Commands that are not carried out, and lines that are not reached.      *)
(***************************************************************************)
LEMMA Steady ==
    ASSUME NEW n \in Nat, NEW i \in 0..n, NEW h, \A j \in (i + 1)..n : h[j] = h[j - 1]
    PROVE  h[n] = h[i]
PROOF
  <1> DEFINE S == {m \in Nat : i + m <= n => h[i + m] = h[i]}
  <1>1. 0 \in S  OBVIOUS
  <1>2. ASSUME NEW m \in Nat, m \in S  PROVE m + 1 \in S
    <2>1. SUFFICES ASSUME i + (m + 1) <= n  PROVE h[i + (m + 1)] = h[i]
      OBVIOUS
    <2>2. i + (m + 1) \in (i + 1)..n /\ (i + (m + 1)) - 1 = i + m /\ i + m <= n  BY <2>1
    <2>3. h[i + m] = h[i]  BY <1>2, <2>2
    <2>4. h[i + (m + 1)] = h[(i + (m + 1)) - 1]  BY <2>2
    <2>5. QED  BY <2>2, <2>3, <2>4
  <1>3. Nat \subseteq S
    <2> HIDE DEF S
    <2>1. QED  BY <1>1, <1>2, EveryNumber
  <1>4. n - i \in Nat /\ i + (n - i) = n  OBVIOUS
  <1>5. n - i \in S  BY <1>3, <1>4
  <1>6. QED  BY <1>4, <1>5

\* No command from i on is carried out on line k.
Idle(s, text, k, i) == \A j \in i..Len(s) : \A t \in Types : ~Acts(s, text, t, k, j)

\* A command that is not carried out on a line changes nothing.
LEMMA IdleStep ==
    ASSUME NEW s, Valid(s), NEW text \in Seq(Item), NEW start \in Disks, Nil \notin Seq(Item),
           NEW k \in 1..Len(text), NEW j \in 1..Len(s), \A t \in Types : ~Acts(s, text, t, k, j)
    PROVE  /\ LineSays(s, text, k, j) = LineSays(s, text, k, j - 1)
           /\ LineAppends(s, text, k, j) = LineAppends(s, text, k, j - 1)
           /\ LineReads(s, text, start, k, j) = LineReads(s, text, start, k, j - 1)
           /\ NewText(s, text, k, j) = NewText(s, text, k, j - 1)
           /\ DiskAt(s, text, start, k, j) = DiskAt(s, text, start, k, j - 1)
PROOF
  <1>1. Len(s) \in Nat /\ j - 1 \in 0..Len(s)  BY DEF Valid
  <1>2. /\ ~Acts(s, text, "p", k, j) /\ ~Acts(s, text, "=", k, j) /\ ~Acts(s, text, "i", k, j)
        /\ ~Acts(s, text, "s", k, j) /\ ~Acts(s, text, "a", k, j) /\ ~Acts(s, text, "r", k, j)
        /\ ~Acts(s, text, "c", k, j) /\ ~Acts(s, text, "w", k, j)
    BY DEF Types
  <1>3. Says(s, text, k, j) = <<>> /\ Appends(s, text, k, j) = <<>> /\ Reads(s, text, start, k, j) = <<>>
    BY <1>2 DEF Says, Appends, Reads
  <1>4. LineSays(s, text, k, j) = LineSays(s, text, k, j - 1)
    <2>1. LineSays(s, text, k, j) = LineSays(s, text, k, j - 1) \o Says(s, text, k, j)
          /\ LineSays(s, text, k, j - 1) \in Seq(Item)
      BY <1>1, LineSaysFacts, Zenon
    <2>2. QED  BY <1>3, <2>1, ConcatEmptySeq
  <1>5. LineAppends(s, text, k, j) = LineAppends(s, text, k, j - 1)
    <2>1. LineAppends(s, text, k, j) = LineAppends(s, text, k, j - 1) \o Appends(s, text, k, j)
          /\ LineAppends(s, text, k, j - 1) \in Seq(Item)
      BY <1>1, LineAppendsFacts, Zenon
    <2>2. QED  BY <1>3, <2>1, ConcatEmptySeq
  <1>6. LineReads(s, text, start, k, j) = LineReads(s, text, start, k, j - 1)
    <2>1. LineReads(s, text, start, k, j) = LineReads(s, text, start, k, j - 1) \o Reads(s, text, start, k, j)
          /\ LineReads(s, text, start, k, j - 1) \in Seq(Item)
      BY <1>1, LineReadsFacts
    <2>2. QED  BY <1>3, <2>1, ConcatEmptySeq
  <1>7. NewText(s, text, k, j) = NewText(s, text, k, j - 1)
    BY <1>2, NewTextStep
  <1>8. DiskAt(s, text, start, k, j) = DiskAt(s, text, start, k, j - 1)
    BY <1>2, DiskStep, Zenon
  <1>9. QED  BY <1>4, <1>5, <1>6, <1>7, <1>8

\* Nor do the ones after it, if none of them is.
LEMMA IdleRest ==
    ASSUME NEW s, Valid(s), NEW text \in Seq(Item), NEW start \in Disks, Nil \notin Seq(Item),
           NEW k \in 1..Len(text), NEW i \in 1..(Len(s) + 1), Idle(s, text, k, i)
    PROVE  /\ LineSays(s, text, k, Len(s)) = LineSays(s, text, k, i - 1)
           /\ LineAppends(s, text, k, Len(s)) = LineAppends(s, text, k, i - 1)
           /\ LineReads(s, text, start, k, Len(s)) = LineReads(s, text, start, k, i - 1)
           /\ NewText(s, text, k, Len(s)) = NewText(s, text, k, i - 1)
           /\ DiskAt(s, text, start, k, Len(s)) = DiskAt(s, text, start, k, i - 1)
PROOF
  <1> DEFINE n == Len(s)
  <1>1. n \in Nat /\ i - 1 \in 0..n /\ (i - 1) + 1 = i /\ n \in 0..n  BY DEF Valid
  <1>2. ASSUME NEW j \in i..n
        PROVE  /\ LineSays(s, text, k, j) = LineSays(s, text, k, j - 1)
               /\ LineAppends(s, text, k, j) = LineAppends(s, text, k, j - 1)
               /\ LineReads(s, text, start, k, j) = LineReads(s, text, start, k, j - 1)
               /\ NewText(s, text, k, j) = NewText(s, text, k, j - 1)
               /\ DiskAt(s, text, start, k, j) = DiskAt(s, text, start, k, j - 1)
    <2>1. j \in 1..n  BY <1>1
    <2>2. \A t \in Types : ~Acts(s, text, t, k, j)  BY DEF Idle
    <2>3. QED  BY <2>1, <2>2, IdleStep
  <1>3. \A j \in i..n : j \in 0..n /\ j - 1 \in 0..n  BY <1>1
  <1> DEFINE a == [j \in 0..n |-> LineSays(s, text, k, j)]
             b == [j \in 0..n |-> LineAppends(s, text, k, j)]
             c == [j \in 0..n |-> LineReads(s, text, start, k, j)]
             d == [j \in 0..n |-> NewText(s, text, k, j)]
             e == [j \in 0..n |-> DiskAt(s, text, start, k, j)]
  <1>4. \A j \in i..n : /\ a[j] = a[j - 1] /\ b[j] = b[j - 1] /\ c[j] = c[j - 1]
                        /\ d[j] = d[j - 1] /\ e[j] = e[j - 1]
    BY <1>2, <1>3
  <1> HIDE DEF a, b, c, d, e
  <1>5. a[n] = a[i - 1] /\ b[n] = b[i - 1] /\ c[n] = c[i - 1] /\ d[n] = d[i - 1] /\ e[n] = e[i - 1]
    <2>1. \A j \in ((i - 1) + 1)..n : /\ a[j] = a[j - 1] /\ b[j] = b[j - 1] /\ c[j] = c[j - 1]
                                      /\ d[j] = d[j - 1] /\ e[j] = e[j - 1]
      BY <1>1, <1>4
    <2> DEFINE m == i - 1
    <2>2. m \in 0..n  BY <1>1
    <2>3. \A j \in (m + 1)..n : /\ a[j] = a[j - 1] /\ b[j] = b[j - 1] /\ c[j] = c[j - 1]
                                /\ d[j] = d[j - 1] /\ e[j] = e[j - 1]
      BY <2>1
    <2> HIDE DEF m, n
    <2>4. a[n] = a[m]  BY <1>1, <2>2, <2>3, Steady
    <2>5. b[n] = b[m]  BY <1>1, <2>2, <2>3, Steady
    <2>6. c[n] = c[m]  BY <1>1, <2>2, <2>3, Steady
    <2>7. d[n] = d[m]  BY <1>1, <2>2, <2>3, Steady
    <2>8. e[n] = e[m]  BY <1>1, <2>2, <2>3, Steady
    <2>9. QED  BY <2>4, <2>5, <2>6, <2>7, <2>8 DEF m
  <1>6. QED  BY <1>1, <1>5 DEF a, b, c, d, e

\* Once a line is over for a command it is for those after it.
LEMMA OverIsIdle ==
    ASSUME NEW s, Valid(s), NEW text \in Seq(Item), NEW k \in 1..Len(text),
           NEW i \in 1..(Len(s) + 1), Finds(s, text)[i][k].over
    PROVE  Idle(s, text, k, i) /\ Finds(s, text)[Len(s) + 1][k] = Finds(s, text)[i][k]
PROOF
  <1>1. Len(s) \in Nat /\ k \in DOMAIN text  BY DEF Valid
  <1>2. \A j \in i..(Len(s) + 1) : Finds(s, text)[j][k] = Finds(s, text)[i][k]
    BY <1>1, OverStays
  <1>3. \A j \in i..Len(s) : j \in i..(Len(s) + 1)  BY <1>1
  <1>4. Len(s) + 1 \in i..(Len(s) + 1)  BY <1>1
  <1>5. \A j \in i..Len(s) : ~Does(s[j], text, Finds(s, text)[j], k)
    BY <1>2, <1>3 DEF Does
  <1>6. QED  BY <1>2, <1>4, <1>5 DEF Idle, Acts

\* On a line after q nothing is carried out, and nothing printed of it.
LEMMA Unreached ==
    ASSUME NEW s, Valid(s), NEW text \in Seq(Item), NEW quiet, NEW start \in Disks, Nil \notin Seq(Item),
           NEW k \in 1..Len(text), ~Reached(s, text, k)
    PROVE  /\ Printed(s, text, quiet, start, k) = Printed(s, text, quiet, start, k - 1)
           /\ DiskAt(s, text, start, k, Len(s)) = DiskAt(s, text, start, k - 1, Len(s))
PROOF
  <1>1. Len(s) \in Nat /\ 1 \in 1..(Len(s) + 1) /\ 1 - 1 = 0  BY DEF Valid
  <1>2. Idle(s, text, k, 1)  BY DEF Idle, Acts
  <1>3. /\ LineSays(s, text, k, Len(s)) = LineSays(s, text, k, 0)
        /\ LineAppends(s, text, k, Len(s)) = LineAppends(s, text, k, 0)
        /\ LineReads(s, text, start, k, Len(s)) = LineReads(s, text, start, k, 0)
        /\ DiskAt(s, text, start, k, Len(s)) = DiskAt(s, text, start, k, 0)
    BY <1>1, <1>2, IdleRest
  <1>4. /\ LineSays(s, text, k, 0) = <<>> /\ LineAppends(s, text, k, 0) = <<>>
        /\ LineReads(s, text, start, k, 0) = <<>>
    BY LineSaysFacts, LineAppendsFacts, LineReadsFacts
  <1>5. AtEnd(s, text, quiet, k) = <<>>  BY DEF AtEnd
  <1>6. Passage(s, text, quiet, start, k)
          = LineSays(s, text, k, Len(s)) \o AtEnd(s, text, quiet, k)
            \o LineAppends(s, text, k, Len(s)) \o LineReads(s, text, start, k, Len(s))
    BY PassageFacts, Zenon DEF PassageIs
  <1>7. <<>> \o <<>> = <<>>  OBVIOUS
  <1>8. Passage(s, text, quiet, start, k) = <<>>  BY <1>3, <1>4, <1>5, <1>6, <1>7, Zenon
  <1>9. Printed(s, text, quiet, start, k) = Printed(s, text, quiet, start, k - 1)
    <2>1. k - 1 \in 0..Len(text)  OBVIOUS
    <2>2. Printed(s, text, quiet, start, k - 1) \in Seq(Item)
      BY <2>1, PrintedFacts, Zenon DEF PrintsOn
    <2>3. Printed(s, text, quiet, start, k)
            = Printed(s, text, quiet, start, k - 1) \o Passage(s, text, quiet, start, k)
      BY PrintedFacts, Zenon DEF PrintsOn
    <2>4. QED  BY <1>8, <2>2, <2>3, ConcatEmptySeq
  <1>10. DiskAt(s, text, start, k, Len(s)) = DiskAt(s, text, start, k - 1, Len(s))
    BY <1>3, DiskLine
  <1>11. QED  BY <1>9, <1>10

\* After q the rest of the file is left alone.
LEMMA AfterQuit ==
    ASSUME NEW s, Valid(s), NEW text \in Seq(Item), NEW quiet, NEW start \in Disks, Nil \notin Seq(Item),
           NEW k \in 1..Len(text), ~Reached(s, text, k + 1)
    PROVE  /\ Printed(s, text, quiet, start, Len(text)) = Printed(s, text, quiet, start, k)
           /\ DiskAt(s, text, start, Len(text), Len(s)) = DiskAt(s, text, start, k, Len(s))
PROOF
  <1> DEFINE n == Len(text)
             a == [m \in 0..n |-> Printed(s, text, quiet, start, m)]
             b == [m \in 0..n |-> DiskAt(s, text, start, m, Len(s))]
  <1>1. n \in Nat /\ k \in 0..n /\ n \in 0..n  OBVIOUS
  <1>2. \A m \in (k + 1)..n : m \in 1..n /\ m \in 0..n /\ m - 1 \in 0..n /\ 1..k \subseteq 1..(m - 1)
    BY <1>1
  <1>3. ASSUME NEW m \in (k + 1)..n  PROVE ~Reached(s, text, m)
    <2>1. (k + 1) - 1 = k  OBVIOUS
    <2>2. QED  BY <1>2, <2>1, Zenon DEF Reached
  <1>4. ASSUME NEW m \in (k + 1)..n  PROVE a[m] = a[m - 1] /\ b[m] = b[m - 1]
    <2>1. /\ Printed(s, text, quiet, start, m) = Printed(s, text, quiet, start, m - 1)
          /\ DiskAt(s, text, start, m, Len(s)) = DiskAt(s, text, start, m - 1, Len(s))
      BY <1>2, <1>3, Unreached
    <2>2. QED  BY <1>2, <2>1
  <1> HIDE DEF a, b, n
  <1>5. a[n] = a[k]  BY <1>1, <1>4, Steady
  <1>6. b[n] = b[k]  BY <1>1, <1>4, Steady
  <1>7. QED  BY <1>1, <1>5, <1>6 DEF a, b, n

\* A line is reached if the one before is and no q was carried out on it.
LEMMA ReachedFacts ==
    ASSUME NEW s, NEW text
    PROVE  /\ Reached(s, text, 1)
           /\ \A k \in Nat \ {0} :
                 Reached(s, text, k + 1)
                   <=> Reached(s, text, k)
                       /\ \A i \in 1..Len(s) : s[i].type = "q" => ~Does(s[i], text, Finds(s, text)[i], k)
PROOF
  <1>1. Reached(s, text, 1)
    <2>1. 1..(1 - 1) = {}  OBVIOUS
    <2>2. QED  BY <2>1 DEF Reached
  <1>2. ASSUME NEW k \in Nat \ {0}
        PROVE  Reached(s, text, k + 1)
                 <=> Reached(s, text, k)
                     /\ \A i \in 1..Len(s) : s[i].type = "q" => ~Does(s[i], text, Finds(s, text)[i], k)
    <2> DEFINE Q(m) == \A i \in 1..Len(s) : s[i].type = "q" => ~Does(s[i], text, Finds(s, text)[i], m)
    <2>1. /\ Reached(s, text, k + 1) <=> \A m \in 1..((k + 1) - 1) : Q(m)
          /\ Reached(s, text, k) <=> \A m \in 1..(k - 1) : Q(m)
      BY DEF Reached
    <2> HIDE DEF Q
    <2>2. 1..((k + 1) - 1) = 1..(k - 1) \cup {k}  OBVIOUS
    <2>3. QED  BY <2>1, <2>2 DEF Q
  <1>3. QED  BY <1>1, <1>2

----------------------------------------------------------------------------
(***************************************************************************)
(* One file after the other.                                               *)
(***************************************************************************)
Outcome == [out : Seq(Item), disk : Disks]

\* What the command line and the files are.
LEMMA JobFacts ==
    ASSUME JobAssumption, NEW j \in Jobs
    PROVE  /\ Valid(j.script) /\ j.files \in Disks /\ j.paths \in Seq(FileNames)
           /\ Nil \notin Seq(Item) /\ Nil \notin Texts
PROOF
  <1>1. Valid(j.script)  BY DEF JobAssumption, Valid
  <1>2. j.files \in Disks
    <2>1. DOMAIN j.files = FileNames /\ j.files = [f \in FileNames |-> j.files[f]]
      BY DEF JobAssumption
    <2>2. \A f \in FileNames : j.files[f] = Nil \/ j.files[f] \in Seq(Texts)  BY DEF JobAssumption
    <2>3. ASSUME NEW x \in Seq(Texts)  PROVE x \in Seq(Item)
      BY DEF Item
    <2>4. QED  BY <2>1, <2>2, <2>3 DEF Disks
  <1>3. QED  BY <1>1, <1>2 DEF JobAssumption, Item

\* A file edited leaves files, and prints lines.
LEMMA AfterFileType ==
    ASSUME NEW j, Valid(j.script), NEW f \in FileNames, NEW before \in Outcome,
           BackupName \in [FileNames -> FileNames], Nil \notin Seq(Item)
    PROVE  AfterFile(j, f, before) \in Outcome
PROOF
  <1> DEFINE text == before.disk[f]
             printed == Printed(j.script, text, j.quiet, before.disk, Len(text))
             disk1 == DiskAt(j.script, text, before.disk, Len(text), Len(j.script))
  <1>1. before.disk \in Disks /\ before.out \in Seq(Item) /\ text \in Seq(Item) \cup {Nil}
    BY DEF Outcome, Disks
  <1>2. CASE text = Nil
    BY <1>2 DEF AfterFile
  <1>3. CASE text # Nil
    <2>1. text \in Seq(Item)  BY <1>1, <1>3
    <2>2. Len(text) \in 0..Len(text) /\ Len(text) \in Nat /\ Len(j.script) \in Nat
          /\ Len(j.script) \in 0..Len(j.script)
      BY <2>1 DEF Valid
    <2>3. printed \in Seq(Item)  BY <1>1, <2>1, <2>2, PrintedFacts, Zenon DEF PrintsOn
    <2>4. disk1 \in Disks  BY <1>1, <2>1, <2>2, DiskType
    <2>5. AfterFile(j, f, before)
            = IF j.inPlace
              THEN [out |-> printed, disk |-> [disk1 EXCEPT ![BackupName[f]] = text, ![f] = printed]]
              ELSE [out |-> before.out \o printed, disk |-> disk1]
      BY <1>3 DEF AfterFile
    <2> HIDE DEF printed, disk1, text
    <2>6. before.out \o printed \in Seq(Item)  BY <1>1, <2>3, ConcatProperties
    <2>7. BackupName[f] \in FileNames  OBVIOUS
    <2>8. [disk1 EXCEPT ![BackupName[f]] = text, ![f] = printed] \in Disks
      BY <2>1, <2>3, <2>4, <2>7 DEF Disks
    <2>9. QED  BY <2>3, <2>4, <2>5, <2>6, <2>8 DEF Outcome
  <1>4. QED  BY <1>2, <1>3

AtStart(j) == [out |-> <<>>, disk |-> j.files]

IsAfter(j, f) ==
    f = [p \in 0..Len(j.paths) |-> IF p = 0 THEN AtStart(j) ELSE AfterFile(j, j.paths[p], f[p - 1])]

\* If there is such a function, After is one.
LEMMA AfterIsAfter ==
    ASSUME NEW j, \E f : IsAfter(j, f)
    PROVE  IsAfter(j, After(j))
PROOF
  <1>1. After(j) = CHOOSE f : IsAfter(j, f)
    BY DEF After, IsAfter, AtStart
  <1>2. QED  BY <1>1

\* The files are edited one after the other.
LEMMA AfterFacts ==
    ASSUME NEW j, Valid(j.script), j.files \in Disks, j.paths \in Seq(FileNames),
           BackupName \in [FileNames -> FileNames], Nil \notin Seq(Item)
    PROVE  /\ After(j)[0] = AtStart(j)
           /\ \A p \in 1..Len(j.paths) : After(j)[p] = AfterFile(j, j.paths[p], After(j)[p - 1])
           /\ \A p \in 0..Len(j.paths) : After(j)[p] \in Outcome
PROOF
  <1> DEFINE n == Len(j.paths)
             U == Outcome
             F == [i \in 1..n |-> [u \in U |-> AfterFile(j, j.paths[i], u)]]
             a == AtStart(j)
  <1>1. n \in Nat /\ \A i \in 1..n : j.paths[i] \in FileNames  OBVIOUS
  <1>2. a \in U
    <2>1. <<>> \in Seq(Item)  OBVIOUS
    <2>2. QED  BY <2>1 DEF Outcome, AtStart
  <1>3. \A i \in 1..n : \A u \in U : AfterFile(j, j.paths[i], u) \in U
    BY <1>1, AfterFileType
  <1>4. F \in Makers(n, U)  BY <1>3 DEF Makers
  <1>5. PICK g \in [0..n -> U] : g[0] = a /\ \A i \in 1..n : g[i] = F[i][g[i - 1]]
    <2> HIDE DEF F, U, n, a
    <2>1. Recursion(n, U, a, F) # {}  BY <1>1, <1>2, <1>4, RecursionExists
    <2>2. QED  BY <2>1 DEF Recursion
  <1>6. ASSUME NEW i \in 1..n
        PROVE  g[i] \in U /\ g[i - 1] \in U /\ g[i] = AfterFile(j, j.paths[i], g[i - 1])
    <2>1. i - 1 \in 0..n /\ i \in 0..n  BY <1>1
    <2>2. g[i - 1] \in U /\ g[i] \in U  BY <2>1
    <2> HIDE DEF U
    <2>3. QED  BY <1>5, <2>2, Zenon
  <1>7. IsAfter(j, g)
    <2>1. ASSUME NEW i \in 0..n
          PROVE  g[i] = IF i = 0 THEN a ELSE AfterFile(j, j.paths[i], g[i - 1])
      <3>1. CASE i = 0
        BY <1>5, <3>1
      <3>2. CASE i # 0
        <4>1. i \in 1..n  BY <1>1, <3>2
        <4>2. QED  BY <1>6, <3>2, <4>1
      <3>3. QED  BY <3>1, <3>2
    <2>2. g = [i \in 0..n |-> g[i]]  OBVIOUS
    <2> HIDE DEF a
    <2>3. g = [i \in 0..n |-> IF i = 0 THEN a ELSE AfterFile(j, j.paths[i], g[i - 1])]
      BY <2>1, <2>2, Zenon
    <2>4. QED  BY <2>3, Zenon DEF IsAfter, a
  <1> DEFINE f == After(j)
  <1>8. IsAfter(j, f)
    BY <1>7, AfterIsAfter
  <1>9. \A i \in 0..n : f[i] = IF i = 0 THEN a ELSE AfterFile(j, j.paths[i], f[i - 1])
    <2> HIDE DEF f, a
    <2>1. f = [i \in 0..n |-> IF i = 0 THEN a ELSE AfterFile(j, j.paths[i], f[i - 1])]
      BY <1>8, Zenon DEF IsAfter, a
    <2>2. QED  BY <2>1, Zenon
  <1> HIDE DEF f
  <1>10. f[0] = a  BY <1>1, <1>9
  <1>11. ASSUME NEW i \in 1..n  PROVE f[i] = AfterFile(j, j.paths[i], f[i - 1])
    <2>1. i \in 0..n /\ i # 0  BY <1>1
    <2>2. QED  BY <1>9, <2>1
  <1> DEFINE S == {m \in Nat : m \in 0..n => f[m] \in U}
  <1>12. 0 \in S  BY <1>2, <1>10
  <1>13. ASSUME NEW m \in Nat, m \in S  PROVE m + 1 \in S
    <2>1. SUFFICES ASSUME m + 1 \in 0..n  PROVE f[m + 1] \in U
      OBVIOUS
    <2>2. m \in 0..n /\ m + 1 \in 1..n /\ (m + 1) - 1 = m  BY <2>1
    <2>3. f[m] \in U  BY <1>13, <2>2
    <2> HIDE DEF U
    <2>4. f[m + 1] = AfterFile(j, j.paths[m + 1], f[m])
      <3>1. f[m + 1] = AfterFile(j, j.paths[m + 1], f[(m + 1) - 1])  BY <1>11, <2>2
      <3>2. QED  BY <2>2, <3>1
    <2>5. QED  BY <1>3, <2>2, <2>3, <2>4
  <1>14. Nat \subseteq S
    <2> HIDE DEF S
    <2>1. QED  BY <1>12, <1>13, EveryNumber
  <1>15. ASSUME NEW p \in 0..n  PROVE f[p] \in U
    <2>1. p \in Nat  BY <1>1
    <2>2. p \in S  BY <1>14, <2>1
    <2>3. QED  BY <2>2
  <1>16. QED  BY <1>10, <1>11, <1>15 DEF f

----------------------------------------------------------------------------
(***************************************************************************)
(* Where sed is in what the script means: after some of the files, at a    *)
(* line of the next one, and before one of the commands.                   *)
(***************************************************************************)
Prior == After(job)[Len(job.paths) - Len(left)]
Text == Prior.disk[Path]
Lines == Len(Text)

\* What was printed since standard output was last redirected.
Shown(k) ==
    (IF job.inPlace THEN <<>> ELSE Prior.out) \o Printed(script, Text, job.quiet, Prior.disk, k)
Disk(k, i) == DiskAt(script, Text, Prior.disk, k, i)

\* Ranges of commands before i were last looked at on line k, others' on the one before.
Ranges(k, i) ==
    \A j \in 1..Len(script) :
       range_active[j] <=> StaysOpen(script[j], Text, Finds(script, Text)[j], IF j < i THEN k ELSE k - 1)

Between == out = Prior.out /\ disk = Prior.disk

AtLine ==
    /\ unread = SubSeq(Text, line_num + 1, Lines)
    /\ Reached(script, Text, IF phase = "run" THEN line_num ELSE line_num + 1)
    /\ line_num \in 0..Lines

Reading ==
    /\ Ranges(line_num + 1, 1)
    /\ out = Shown(line_num)
    /\ disk = Disk(line_num, Len(script))

\* A command before this one, and of this type, was carried out on the line.
Did(type) == \E j \in 1..(ci - 1) : Acts(script, Text, type, line_num, j)

Running ==
    /\ line_num > 0
    /\ Ranges(line_num, ci)
    /\ pattern_space = Finds(script, Text)[ci][line_num].space
    /\ (deleted \/ quit) <=> Finds(script, Text)[ci][line_num].over
    /\ (deleted <=> Did("d")) /\ (quit <=> Did("q"))
    /\ change_text = NewText(script, Text, line_num, ci - 1)
    /\ out = Shown(line_num - 1) \o LineSays(script, Text, line_num, ci - 1)
    /\ append_queue = LineAppends(script, Text, line_num, ci - 1)
    /\ read_queue = LineReads(script, Text, Prior.disk, line_num, ci - 1)
    /\ disk = Disk(line_num, ci - 1)

\* The file is read to its end, and its result not yet, or already, under its name.
ReadThrough ==
    LET result == Disk(Lines, Len(script)) IN
    /\ out = Shown(Lines)
    /\ phase # "replace" => disk = result
    /\ phase = "replace" =>
          disk = IF BackupName[Path] = Path THEN result
                 ELSE [result EXCEPT ![BackupName[Path]] = Text, ![Path] = Nil]
    /\ phase # "eof" => temp = out

AsPlanned ==
    /\ Len(left) <= Len(job.paths)
    /\ left = SubSeq(job.paths, Len(job.paths) - Len(left) + 1, Len(job.paths))
    /\ phase \in {"open", "done"} => Between
    /\ phase = "done" => left = <<>>
    /\ phase \notin {"open", "done"} => Text # Nil
    /\ phase \in {"read", "run"} => AtLine
    /\ phase = "read" => Reading
    /\ phase = "run" => Running
    /\ phase \in {"eof", "backup", "replace"} => ReadThrough

\* Nothing fails, and no line is taken away from the cycle.
Plain == ~job.mishaps /\ ~Uses({"n", "N"})

ByMeaning == Plain => AsPlanned

----------------------------------------------------------------------------
\* The file that is open, or that is opened next.
LEMMA NextFacts ==
    ASSUME JobAssumption, SedTypeOK, left \in Seq(FileNames), AsPlanned
    PROVE  /\ Valid(script) /\ Nil \notin Seq(Item) /\ Nil \notin Texts
           /\ job.paths \in Seq(FileNames) /\ Len(job.paths) \in Nat
           /\ left \in Seq(FileNames) /\ Len(left) \in Nat
           /\ Prior \in Outcome /\ Prior.disk \in Disks /\ Prior.out \in Seq(Item)
           /\ BackupName \in [FileNames -> FileNames]
           /\ After(job)[0] = AtStart(job)
           /\ left # <<>> =>
                 /\ Path \in FileNames /\ Text \in Seq(Item) \cup {Nil}
                 /\ Tail(left) \in Seq(FileNames) /\ Len(Tail(left)) = Len(left) - 1
                 /\ Tail(left) = SubSeq(job.paths, Len(job.paths) - Len(Tail(left)) + 1, Len(job.paths))
                 /\ After(job)[Len(job.paths) - Len(Tail(left))] = AfterFile(job, Path, Prior)
                 /\ \E p \in 1..Len(job.paths) : Path = job.paths[p]
PROOF
  <1> DEFINE n == Len(job.paths)
             m == Len(left)
             P == job.paths
  <1>1. /\ Valid(script) /\ job.files \in Disks /\ P \in Seq(FileNames)
        /\ Nil \notin Seq(Item) /\ Nil \notin Texts
    <2>1. job \in Jobs  BY DEF SedTypeOK
    <2>2. Valid(job.script) /\ job.files \in Disks /\ job.paths \in Seq(FileNames)
          /\ Nil \notin Seq(Item) /\ Nil \notin Texts
      BY <2>1, JobFacts
    <2>3. QED  BY <2>2 DEF script
  <1>2. BackupName \in [FileNames -> FileNames]  BY DEF JobAssumption
  <1>3. n \in Nat /\ n = Len(P) /\ \A i \in 1..n : P[i] \in FileNames  BY <1>1
  <1>4. left = SubSeq(P, n - m + 1, n) /\ m <= n  BY Zenon DEF AsPlanned
  <1>5. m \in Nat  OBVIOUS
  <1>6. /\ After(job)[0] = AtStart(job)
        /\ \A p \in 1..n : After(job)[p] = AfterFile(job, P[p], After(job)[p - 1])
        /\ \A p \in 0..n : After(job)[p] \in Outcome
    BY <1>1, <1>2, AfterFacts DEF script
  <1>7. n - m \in 0..n  BY <1>3, <1>4, <1>5
  <1>8. Prior \in Outcome /\ Prior.disk \in Disks /\ Prior.out \in Seq(Item)
    <2>1. Prior = After(job)[n - m]  BY DEF Prior
    <2>2. Prior \in Outcome  BY <1>6, <1>7, <2>1
    <2>3. QED  BY <2>2 DEF Outcome
  <1>9. ASSUME left # <<>>
        PROVE  /\ Path \in FileNames /\ Text \in Seq(Item) \cup {Nil}
               /\ Tail(left) \in Seq(FileNames) /\ Len(Tail(left)) = m - 1
               /\ Tail(left) = SubSeq(P, n - Len(Tail(left)) + 1, n)
               /\ After(job)[n - Len(Tail(left))] = AfterFile(job, Path, Prior)
               /\ \E p \in 1..n : Path = P[p]
    <2>1. m \in Nat \ {0}  BY <1>9, EmptySeq
    <2>2. Tail(left) \in Seq(FileNames) /\ Len(Tail(left)) = m - 1
      BY <1>9, HeadTailProperties
    <2> DEFINE q == n - m + 1
    <2>3. q \in 1..n /\ n \in q..n /\ q - 1 = n - m /\ n - (m - 1) = q /\ n - (m - 1) + 1 = q + 1
      BY <1>3, <1>4, <2>1
    <2> HIDE DEF q
    <2>4. left = SubSeq(P, q, n)  BY <1>4, Zenon DEF q
    <2> HIDE DEF n, m, P
    <2>5. Head(left) = P[q] /\ Tail(left) = SubSeq(P, q + 1, n)
      BY <1>1, <1>3, <2>3, <2>4, HeadTailOfSubSeq
    <2>6. Path = P[q] /\ Path \in FileNames  BY <1>3, <2>3, <2>5 DEF Path
    <2>7. Text \in Seq(Item) \cup {Nil}  BY <1>8, <2>6 DEF Text, Disks
    <2>8. Tail(left) = SubSeq(P, n - Len(Tail(left)) + 1, n)  BY <2>2, <2>3, <2>5, Zenon
    <2>9. After(job)[q] = AfterFile(job, Path, Prior)
      <3>1. After(job)[q] = AfterFile(job, P[q], After(job)[q - 1])  BY <1>6, <2>3
      <3>2. After(job)[q - 1] = Prior  BY <2>3 DEF Prior, n, m, P
      <3>3. QED  BY <2>6, <3>1, <3>2
    <2>10. After(job)[n - Len(Tail(left))] = AfterFile(job, Path, Prior)  BY <2>2, <2>3, <2>9
    <2>11. QED  BY <2>2, <2>3, <2>6, <2>7, <2>8, <2>10, Zenon
  <1>10. QED  BY <1>1, <1>2, <1>3, <1>5, <1>6, <1>8, <1>9, Zenon

----------------------------------------------------------------------------
(***************************************************************************)
(* The cycle and the meaning, at one line and one command.                 *)
(***************************************************************************)

\* The cycle's lines are those of the meaning.
LEMMA AtLastLine ==
    ASSUME NEW text \in Seq(Item), NEW k \in 0..Len(text)
    PROVE  /\ SubSeq(text, k + 1, Len(text)) = <<>> <=> k = Len(text)
           /\ k # Len(text) =>
                 /\ k + 1 \in 1..Len(text)
                 /\ Head(SubSeq(text, k + 1, Len(text))) = text[k + 1]
                 /\ Tail(SubSeq(text, k + 1, Len(text))) = SubSeq(text, (k + 1) + 1, Len(text))
PROOF
  <1> DEFINE n == Len(text)
             r == SubSeq(text, k + 1, n)
  <1>1. n \in Nat /\ k \in Nat /\ \A i \in 1..n : text[i] \in Item  OBVIOUS
  <1>2. CASE k = n
    <2>1. n < k + 1 /\ k + 1 \in Int /\ n \in Int  BY <1>1, <1>2
    <2>2. r = <<>>  BY <2>1, SubSeqEmpty
    <2>3. QED  BY <1>2, <2>2
  <1>3. CASE k # n
    <2>1. k + 1 \in 1..n /\ n \in (k + 1)..n  BY <1>1, <1>3
    <2>2. r \in Seq(Item) /\ Len(r) = n - k
      <3>1. k + 1 \in Int /\ n \in Int /\ k + 1 <= n /\ n - (k + 1) + 1 = n - k
            /\ \A i \in (k + 1)..n : text[i] \in Item
        BY <1>1, <2>1
      <3>2. /\ SubSeq(text, k + 1, n) \in Seq(Item)
            /\ Len(SubSeq(text, k + 1, n)) = IF k + 1 <= n THEN n - (k + 1) + 1 ELSE 0
        BY <3>1, SubSeqProperties
      <3>3. QED  BY <3>1, <3>2
    <2>3. Len(r) # 0  BY <1>1, <1>3, <2>2
    <2> HIDE DEF r
    <2>4. r # <<>>  BY <2>3
    <2>5. Head(r) = text[k + 1] /\ Tail(r) = SubSeq(text, (k + 1) + 1, n)
      BY <2>1, HeadTailOfSubSeq DEF r
    <2>6. QED  BY <1>3, <2>1, <2>4, <2>5 DEF r
  <1>4. QED  BY <1>2, <1>3

\* The cycle's Matches and the meaning's Meets: the line number is that of the line, and
\* the last line is the one after which nothing is unread.
LEMMA MatchesMeets ==
    ASSUME NEW addr, addr.type \in AddressTypes,
           NEW text \in Seq(Item), line_num \in 0..Len(text), unread = SubSeq(text, line_num + 1, Len(text))
    PROVE  /\ Matches(addr) <=> Meets(addr, text, line_num, pattern_space)
           /\ Matches(addr) \in BOOLEAN
           /\ \A k, space : Meets(addr, text, k, space) \in BOOLEAN
PROOF
  <1>1. unread = <<>> <=> line_num = Len(text)  BY AtLastLine
  <1>2. CASE addr.type = "NONE"
    BY <1>2 DEF Matches, Meets
  <1>3. CASE addr.type = "LINE_NUM"
    BY <1>3 DEF Matches, Meets
  <1>4. CASE addr.type = "LAST_LINE"
    BY <1>1, <1>4 DEF Matches, Meets
  <1>5. CASE addr.type = "REGEX"
    <2>1. Matches(addr) = Holds(addr.x, pattern_space)  BY <1>5 DEF Matches
    <2>2. \A k, space : Meets(addr, text, k, space) = Holds(addr.x, space)  BY <1>5 DEF Meets
    <2>3. \A space : Holds(addr.x, space) \in BOOLEAN  BY DEF Holds
    <2>4. QED  BY <2>1, <2>2, <2>3
  <1>6. CASE addr.type = "STEP"
    BY <1>6 DEF Matches, Meets
  <1>7. QED  BY <1>2, <1>3, <1>4, <1>5, <1>6 DEF AddressTypes

\* A command that is looked at: the line it finds, and whether it is carried out.
Looked == phase = "run" /\ ci <= Len(script) /\ ~deleted /\ ~quit

\* So the cycle carries a command out where the meaning does, and its flag says whether
\* the range stays open.
LEMMA CommandMeans ==
    ASSUME JobAssumption, SedTypeOK, left \in Seq(FileNames), AsPlanned, Looked
    PROVE  /\ ci \in 1..Len(script) /\ line_num \in 1..Lines /\ Text \in Seq(Item) /\ left # <<>>
           /\ command.type \in Types
           /\ pattern_space = Finds(script, Text)[ci][line_num].space /\ pattern_space \in Seq(Item)
           /\ ~Finds(script, Text)[ci][line_num].over
           /\ ShouldExecute <=> Does(command, Text, Finds(script, Text)[ci], line_num)
           /\ StaysActive <=> StaysOpen(command, Text, Finds(script, Text)[ci], line_num)
           /\ \A t : Acts(script, Text, t, line_num, ci) <=> command.type = t /\ ShouldExecute
           /\ Finds(script, Text)[ci + 1][line_num]
                = IF ShouldExecute
                  THEN [space |-> Changed(command, pattern_space), over |-> command.type \in {"d", "q"}]
                  ELSE Finds(script, Text)[ci][line_num]
PROOF
  <1> DEFINE n == Len(script)
             k == line_num
             found == Finds(script, Text)[ci]
             x == command
  <1>1. Running /\ AtLine /\ phase = "run" /\ Text # Nil  BY DEF Looked, AsPlanned
  <1>2. left # <<>>  BY <1>1 DEF SedTypeOK
  <1>3. Valid(script) /\ Text \in Seq(Item)  BY <1>1, <1>2, NextFacts, Zenon
  <1>4. n \in Nat /\ ci \in 1..n /\ x = script[ci]
    BY <1>3 DEF Looked, SedTypeOK, Valid, command
  <1>5. k \in 1..Lines /\ k \in 0..Lines /\ k \in DOMAIN Text /\ k \in Nat \ {0}
    <2>1. k \in 0..Lines /\ k > 0 /\ Lines \in Nat  BY <1>1, <1>3 DEF AtLine, Running, Lines
    <2>2. DOMAIN Text = 1..Lines  BY <1>3 DEF Lines
    <2>3. QED  BY <2>1, <2>2
  <1>6. /\ pattern_space = found[k].space
        /\ ((deleted \/ quit) <=> found[k].over)
        /\ Ranges(k, ci)
    BY <1>1 DEF Running
  <1>7. ~found[k].over  BY <1>6 DEF Looked
  <1>8. x.type \in Types /\ x.addr1.type \in AddressTypes
        /\ (x.has_range => x.addr2.type \in AddressTypes)
    BY <1>3, <1>4 DEF Valid
  <1>9. /\ Matches(x.addr1) <=> Meets(x.addr1, Text, k, found[k].space)
        /\ Matches(x.addr1) \in BOOLEAN /\ Meets(x.addr1, Text, k, found[k].space) \in BOOLEAN
        /\ x.has_range => (Matches(x.addr2) <=> Meets(x.addr2, Text, k, found[k].space))
    <2>1. unread = SubSeq(Text, k + 1, Len(Text)) /\ k \in 0..Len(Text)
      BY <1>1, <1>5 DEF AtLine, Lines
    <2> HIDE DEF x, found
    <2>2. QED  BY <1>3, <1>6, <1>8, <2>1, MatchesMeets, Zenon
  <1>10. range_active[ci] <=> StaysOpen(x, Text, found, k - 1)
    <2>1. range_active[ci] <=> StaysOpen(script[ci], Text, found, IF ci < ci THEN k ELSE k - 1)
      BY <1>4, <1>6 DEF Ranges
    <2>2. ~(ci < ci)  BY <1>4
    <2>3. QED  BY <1>4, <2>1, <2>2
  <1>11. /\ x.has_range =>
                (Meant(x, Text, found, k)
                   <=> (StaysOpen(x, Text, found, k - 1) \/ Meets(x.addr1, Text, k, found[k].space)))
         /\ StaysOpen(x, Text, found, k)
              <=> (/\ x.has_range /\ Meant(x, Text, found, k)
                   /\ ~Meets(x.addr2, Text, k, found[k].space))
    <2> HIDE DEF x, found
    <2>1. QED  BY <1>5, <1>7, RangeFacts, Zenon
  <1>12. Selects <=> Meant(x, Text, found, k)
    <2>1. CASE x.has_range
      <3>1. Selects <=> range_active[ci] \/ Matches(x.addr1)  BY <2>1 DEF Selects, InRange
      <3> HIDE DEF x, found
      <3>2. QED  BY <1>9, <1>10, <1>11, <2>1, <3>1
    <2>2. CASE ~x.has_range
      <3>1. Selects <=> Matches(x.addr1)  BY <2>2 DEF Selects
      <3>2. Meant(x, Text, found, k) <=> Meets(x.addr1, Text, k, found[k].space)  BY <2>2 DEF Meant
      <3> HIDE DEF x, found
      <3>3. QED  BY <1>9, <3>1, <3>2
    <2>3. QED  BY <2>1, <2>2
  <1>13. ShouldExecute <=> Does(x, Text, found, k)
    <2>1. Selects = Meant(x, Text, found, k)
      <3>1. Selects \in BOOLEAN
        <4>1. CASE x.has_range
          BY <4>1 DEF Selects, InRange
        <4>2. CASE ~x.has_range
          BY <1>9, <4>2 DEF Selects
        <4>3. QED  BY <4>1, <4>2
      <3>2. Meant(x, Text, found, k) \in BOOLEAN
        <4>1. CASE x.has_range
          BY <4>1 DEF Meant
        <4>2. CASE ~x.has_range
          <5>1. Meant(x, Text, found, k) = Meets(x.addr1, Text, k, found[k].space)  BY <4>2 DEF Meant
          <5> HIDE DEF x, found
          <5>2. QED  BY <1>9, <5>1
        <4>3. QED  BY <4>1, <4>2
      <3> HIDE DEF x, found
      <3>3. QED  BY <1>12, <3>1, <3>2
    <2>2. ShouldExecute <=> Selects # x.negated  BY DEF ShouldExecute
    <2>3. Does(x, Text, found, k) <=> Meant(x, Text, found, k) # x.negated  BY <1>7 DEF Does
    <2> HIDE DEF x, found
    <2>4. QED  BY <2>1, <2>2, <2>3
  <1>14. StaysActive <=> StaysOpen(x, Text, found, k)
    <2>1. CASE x.has_range
      <3>1. StaysActive <=> Selects /\ ~Matches(x.addr2)  BY <2>1 DEF StaysActive, Selects
      <3> HIDE DEF x, found
      <3>2. QED  BY <1>9, <1>11, <1>12, <2>1, <3>1
    <2>2. CASE ~x.has_range
      <3>1. ~StaysActive  BY <2>2 DEF StaysActive
      <3>2. ~StaysOpen(x, Text, found, k)  BY <2>2 DEF StaysOpen
      <3>3. QED  BY <3>1, <3>2
    <2>3. QED  BY <2>1, <2>2
  <1>15. ASSUME NEW t
         PROVE  Acts(script, Text, t, k, ci) <=> x.type = t /\ ShouldExecute
    <2>1. Reached(script, Text, k)  BY <1>1 DEF AtLine
    <2>2. QED  BY <1>4, <1>13, <2>1 DEF Acts
  <1>16. Finds(script, Text)[ci + 1][k]
           = IF ShouldExecute
             THEN [space |-> Changed(x, pattern_space), over |-> x.type \in {"d", "q"}]
             ELSE found[k]
    <2>1. Finds(script, Text)[ci + 1] = Leaves(x, Text, found)  BY <1>3, <1>4, FindsFacts
    <2>2. Leaves(x, Text, found)[k]
            = IF Does(x, Text, found, k)
              THEN [space |-> Changed(x, found[k].space), over |-> x.type \in {"d", "q"}]
              ELSE found[k]
      BY <1>5 DEF Leaves
    <2>3. QED  BY <1>6, <1>13, <2>1, <2>2
  <1>17. pattern_space \in Seq(Item)
    <2>1. ci \in 1..(Len(script) + 1)  BY <1>4
    <2>2. k \in 1..Len(Text)  BY <1>5 DEF Lines
    <2>3. found[k] \in Line  BY <1>3, <2>1, <2>2, PieceTypes
    <2>4. QED  BY <1>6, <2>3 DEF Line
  <1>18. QED  BY <1>2, <1>3, <1>4, <1>5, <1>6, <1>7, <1>8, <1>13, <1>14, <1>15, <1>16, <1>17

\* Within one file its text stays.
LEMMA SameText ==
    ASSUME job' = job, left' = left
    PROVE  /\ script' = script /\ Prior' = Prior /\ Path' = Path /\ Text' = Text /\ Lines' = Lines
PROOF
  <1>1. script' = script  BY DEF script
  <1>2. Prior' = Prior  BY DEF Prior
  <1>3. Path' = Path  BY DEF Path
  <1>4. Text' = Text  BY <1>2, <1>3 DEF Text
  <1>5. QED  BY <1>1, <1>2, <1>3, <1>4 DEF Lines

Groups(a, b, c) == (a \o b) \o c = a \o (b \o c)

\* Joining is associative.
LEMMA Grouped ==
    ASSUME NEW T, NEW a \in Seq(T), NEW b \in Seq(T), NEW c \in Seq(T)
    PROVE  Groups(a, b, c)
PROOF
  BY ConcatAssociative DEF Groups

\* Each line adds its passage to what was shown.
LEMMA ShownType ==
    ASSUME JobAssumption, SedTypeOK, left \in Seq(FileNames), AsPlanned, left # <<>>, Text # Nil
    PROVE  /\ \A k \in 0..Lines : Shown(k) \in Seq(Item)
           /\ Shown(0) = IF job.inPlace THEN <<>> ELSE Prior.out
           /\ \A k \in 1..Lines :
                 Shown(k) = Shown(k - 1) \o Passage(script, Text, job.quiet, Prior.disk, k)
PROOF
  <1> DEFINE H == IF job.inPlace THEN <<>> ELSE Prior.out
             P(k) == Printed(script, Text, job.quiet, Prior.disk, k)
             Q(k) == Passage(script, Text, job.quiet, Prior.disk, k)
  <1>1. /\ Valid(script) /\ Nil \notin Seq(Item) /\ Text \in Seq(Item)
        /\ Prior.disk \in Disks /\ Prior.out \in Seq(Item)
    <2>1. Text \in Seq(Item) \cup {Nil}  BY NextFacts, Zenon
    <2>2. Valid(script) /\ Nil \notin Seq(Item)  BY NextFacts, Zenon
    <2>3. Prior.disk \in Disks /\ Prior.out \in Seq(Item)  BY NextFacts, Zenon
    <2>4. QED  BY <2>1, <2>2, <2>3
  <1>2. H \in Seq(Item)
    <2>1. <<>> \in Seq(Item)  OBVIOUS
    <2>2. QED  BY <1>1, <2>1
  <1>3. /\ P(0) = <<>> /\ (\A k \in 0..Lines : P(k) \in Seq(Item))
        /\ \A k \in 1..Lines : P(k) = P(k - 1) \o Q(k)
    <2> DEFINE s == script
               T == Text
               q == job.quiet
               d == Prior.disk
    <2>1. Valid(s) /\ T \in Seq(Item) /\ d \in Disks /\ Nil \notin Seq(Item)  BY <1>1
    <2> HIDE DEF s, T, q, d
    <2>2. PrintsOn(s, T, q, d)  BY <2>1, PrintedFacts
    <2>3. QED  BY <2>2 DEF s, T, q, d, Lines, PrintsOn
  <1>4. \A k \in 1..Lines : Q(k) \in Seq(Item)
    BY <1>1, PassageFacts, Zenon DEF Lines, PassageIs
  <1>5. Lines \in Nat  BY <1>1 DEF Lines
  <1>6. \A k : Shown(k) = H \o P(k)  BY DEF Shown
  <1> HIDE DEF H, P, Q
  <1>7. \A k \in 0..Lines : Shown(k) \in Seq(Item)
    <2>1. \A u, v \in Seq(Item) : u \o v \in Seq(Item)  BY ConcatProperties
    <2>2. QED  BY <1>2, <1>3, <1>6, <2>1, Zenon
  <1>8. Shown(0) = H
    <2>1. H \o <<>> = H  BY <1>2, ConcatEmptySeq
    <2>2. QED  BY <1>3, <1>6, <2>1, Zenon
  <1>9. ASSUME NEW k \in 1..Lines  PROVE Shown(k) = Shown(k - 1) \o Q(k)
    <2>1. k - 1 \in 0..Lines  BY <1>5
    <2>2. Groups(H, P(k - 1), Q(k))
      <3>1. P(k - 1) \in Seq(Item) /\ Q(k) \in Seq(Item)  BY <1>3, <1>4, <2>1
      <3>2. QED  BY <1>2, <3>1, Grouped
    <2>3. Shown(k) = H \o P(k) /\ P(k) = P(k - 1) \o Q(k) /\ Shown(k - 1) = H \o P(k - 1)
      BY <1>3, <1>6, Zenon
    <2>4. QED  BY <2>2, <2>3, Zenon DEF Groups
  <1>10. QED  BY <1>7, <1>8, <1>9 DEF H, Q

\* A command that was looked at has seen to its own range only.
LEMMA RangesStep ==
    ASSUME JobAssumption, SedTypeOK, left \in Seq(FileNames), AsPlanned, Looked,
           job' = job, left' = left, line_num' = line_num, ci' = ci + 1,
           range_active' = [range_active EXCEPT ![ci] = StaysActive]
    PROVE  Ranges(line_num, ci)'
PROOF
  <1> DEFINE n == Len(script)
             k == line_num
             O(j, m) == StaysOpen(script[j], Text, Finds(script, Text)[j], m)
  <1>1. script' = script /\ Text' = Text  BY SameText
  <1>2. ci \in 1..n /\ (StaysActive <=> O(ci, k))
    BY CommandMeans DEF command
  <1>3. \A j \in 1..n : range_active[j] <=> O(j, IF j < ci THEN k ELSE k - 1)
    BY DEF Looked, AsPlanned, Running, Ranges
  <1>4. n \in Nat /\ range_active \in [1..n -> BOOLEAN]
    <2>1. Valid(script)  BY NextFacts, Zenon
    <2>2. QED  BY <2>1 DEF Valid, SedTypeOK
  <1>5. StaysActive \in BOOLEAN  BY DEF StaysActive
  <1> HIDE DEF O
  <1>6. ASSUME NEW j \in 1..n
        PROVE  range_active'[j] <=> O(j, IF j < ci + 1 THEN k ELSE k - 1)
    <2>1. CASE j = ci
      <3>1. j < ci + 1 /\ range_active'[j] = StaysActive  BY <1>2, <1>4, <2>1
      <3>2. QED  BY <1>2, <2>1, <3>1
    <2>2. CASE j # ci
      <3>1. (j < ci <=> j < ci + 1) /\ range_active'[j] = range_active[j]  BY <1>2, <1>4, <2>2
      <3>2. QED  BY <1>3, <3>1
    <2>3. QED  BY <2>1, <2>2
  <1>7. QED
    <2>1. \A j \in 1..Len(script') :
             range_active'[j] <=> StaysOpen(script'[j], Text', Finds(script', Text')[j],
                                            IF j < ci' THEN line_num' ELSE line_num' - 1)
      BY <1>1, <1>6 DEF O
    <2>2. QED  BY <2>1 DEF Ranges

----------------------------------------------------------------------------
(***************************************************************************)
(* A command of the cycle does what it means.                              *)
(***************************************************************************)

\* One command on.
StepsOn(s, text, start, k, i) ==
    /\ NewText(s, text, k, i) = IF Acts(s, text, "c", k, i) THEN s[i].text ELSE NewText(s, text, k, i - 1)
    /\ Says(s, text, k, i) \in Seq(Item) /\ LineSays(s, text, k, i - 1) \in Seq(Item)
    /\ LineSays(s, text, k, i) = LineSays(s, text, k, i - 1) \o Says(s, text, k, i)
    /\ LineAppends(s, text, k, i) = LineAppends(s, text, k, i - 1) \o Appends(s, text, k, i)
    /\ LineReads(s, text, start, k, i) = LineReads(s, text, start, k, i - 1) \o Reads(s, text, start, k, i)
    /\ DiskAt(s, text, start, k, i)
         = IF Acts(s, text, "w", k, i)
           THEN [DiskAt(s, text, start, k, i - 1) EXCEPT ![s[i].file] =
                    (IF @ = Nil THEN <<>> ELSE @) \o Finds(s, text)[i][k].space]
           ELSE DiskAt(s, text, start, k, i - 1)

\* What a command adds to what its line printed, queued and wrote.
LEMMA StepsFacts ==
    ASSUME NEW s, Valid(s), NEW text \in Seq(Item), NEW start \in Disks, Nil \notin Seq(Item),
           NEW k \in 1..Len(text), NEW i \in 1..Len(s)
    PROVE  StepsOn(s, text, start, k, i)
PROOF
  <1>1. Len(s) \in Nat /\ i - 1 \in 0..Len(s)  BY DEF Valid
  <1>2. NewText(s, text, k, i) = IF Acts(s, text, "c", k, i) THEN s[i].text ELSE NewText(s, text, k, i - 1)
    BY NewTextStep
  <1>3. Says(s, text, k, i) \in Seq(Item)  BY PieceTypes
  <1>4. /\ LineSays(s, text, k, i - 1) \in Seq(Item)
        /\ LineSays(s, text, k, i) = LineSays(s, text, k, i - 1) \o Says(s, text, k, i)
    BY <1>1, LineSaysFacts, Zenon
  <1>5. LineAppends(s, text, k, i) = LineAppends(s, text, k, i - 1) \o Appends(s, text, k, i)
    BY LineAppendsFacts
  <1>6. LineReads(s, text, start, k, i) = LineReads(s, text, start, k, i - 1) \o Reads(s, text, start, k, i)
    BY LineReadsFacts
  <1>7. DiskAt(s, text, start, k, i)
         = IF Acts(s, text, "w", k, i)
           THEN [DiskAt(s, text, start, k, i - 1) EXCEPT ![s[i].file] =
                    (IF @ = Nil THEN <<>> ELSE @) \o Finds(s, text)[i][k].space]
           ELSE DiskAt(s, text, start, k, i - 1)
    BY DiskStep, Zenon
  <1>8. QED  BY <1>2, <1>3, <1>4, <1>5, <1>6, <1>7, Zenon DEF StepsOn

\* A command does to the line, and to what is queued and printed, what it means.
CarriesOn ==
    /\ job' = job /\ left' = left /\ phase' = "run" /\ unread' = unread /\ line_num' = line_num
    /\ ci' = ci + 1
    /\ range_active' = [range_active EXCEPT ![ci] = StaysActive]

DoesByMeaning ==
    /\ pattern_space' = IF ShouldExecute THEN Changed(command, pattern_space) ELSE pattern_space
    /\ deleted' <=> ShouldExecute /\ command.type = "d"
    /\ quit' <=> ShouldExecute /\ command.type = "q"
    /\ change_text' = IF ShouldExecute /\ command.type = "c" THEN command.text ELSE change_text
    /\ out' = out \o Says(script, Text, line_num, ci)
    /\ append_queue' = append_queue \o Appends(script, Text, line_num, ci)
    /\ read_queue' = read_queue \o Reads(script, Text, Prior.disk, line_num, ci)
    /\ disk' = IF ShouldExecute /\ command.type = "w"
               THEN [disk EXCEPT ![command.file] = (IF @ = Nil THEN <<>> ELSE @) \o pattern_space]
               ELSE disk

\* If a command does what it is meant to do, the next one finds the line as the
\* meaning has it.
LEMMA CommandStep ==
    ASSUME JobAssumption, SedTypeOK, left \in Seq(FileNames), AsPlanned, Looked, CarriesOn, DoesByMeaning
    PROVE  AsPlanned'
PROOF
  <1> DEFINE k == line_num
             i == ci
             S == script
             T == Text
             D == Prior.disk
             W(t) == Acts(S, T, t, k, i)
  <1>1. S' = S /\ T' = T /\ D' = D /\ Prior' = Prior /\ Lines' = Lines /\ job' = job
    BY SameText DEF CarriesOn
  <1>2. k' = k /\ i' = i + 1 /\ i' - 1 = i /\ phase' = "run"
    <2>1. i \in Nat  BY CommandMeans
    <2>2. QED  BY <2>1 DEF CarriesOn
  <1>3. /\ Valid(S) /\ T \in Seq(Item) /\ D \in Disks /\ Nil \notin Seq(Item)
    <2>1. Valid(S) /\ D \in Disks /\ Nil \notin Seq(Item)  BY NextFacts, Zenon
    <2>2. T \in Seq(Item)  BY CommandMeans
    <2>3. QED  BY <2>1, <2>2
  <1>4. /\ i \in 1..Len(S) /\ k \in 1..Len(T) /\ k \in 1..Lines /\ Len(S) \in Nat /\ Lines \in Nat
    <2>1. i \in 1..Len(S) /\ k \in 1..Lines  BY CommandMeans
    <2>2. QED  BY <1>3, <2>1 DEF Lines, Valid
  <1>5. /\ command = S[i] /\ pattern_space = Finds(S, T)[i][k].space /\ pattern_space \in Seq(Item)
        /\ \A t : W(t) <=> command.type = t /\ ShouldExecute
    BY CommandMeans DEF command
  <1>0. StepsOn(S, T, D, k, i)
    <2> HIDE DEF S, T, D, k, i
    <2>1. QED  BY <1>3, <1>4, StepsFacts
  <1>6. Running /\ AtLine  BY DEF Looked, AsPlanned
  <1>7. AtLine'
    <2>1. unread' = unread /\ k' = k  BY DEF CarriesOn
    <2>2. phase = "run"  BY DEF Looked
    <2>3. QED  BY <1>1, <1>2, <1>6, <2>1, <2>2 DEF AtLine
  <1>8. Ranges(line_num, ci)'
    BY RangesStep DEF CarriesOn
  <1>9. /\ pattern_space' = Finds(S, T)[i + 1][k].space
        /\ Finds(S, T)[i + 1][k].over <=> ShouldExecute /\ command.type \in {"d", "q"}
    <2>1. ~Finds(S, T)[i][k].over  BY CommandMeans
    <2>0. Finds(S, T)[i + 1][k]
            = IF ShouldExecute
              THEN [space |-> Changed(command, pattern_space), over |-> command.type \in {"d", "q"}]
              ELSE Finds(S, T)[i][k]
      BY CommandMeans
    <2>2. pattern_space' = IF ShouldExecute THEN Changed(command, pattern_space) ELSE pattern_space
      BY DEF DoesByMeaning
    <2> HIDE DEF S, T, i, k
    <2>3. CASE ShouldExecute
      <3> DEFINE b == command.type \in {"d", "q"}
                 space == Changed(command, pattern_space)
      <3>1. b \in BOOLEAN  OBVIOUS
      <3>2. Finds(S, T)[i + 1][k] = [space |-> space, over |-> b]  BY <2>0, <2>3
      <3> HIDE DEF b, space
      <3>3. Finds(S, T)[i + 1][k].space = space /\ Finds(S, T)[i + 1][k].over = b  BY <3>2
      <3>4. QED  BY <2>2, <2>3, <3>1, <3>3, Zenon DEF b, space
    <2>4. CASE ~ShouldExecute
      BY <1>5, <2>0, <2>1, <2>2, <2>4
    <2>5. QED  BY <2>3, <2>4
  <1>10. (deleted' \/ quit') <=> Finds(S, T)[i + 1][k].over
    <2>1. (deleted' <=> ShouldExecute /\ command.type = "d") /\ (quit' <=> ShouldExecute /\ command.type = "q")
      BY DEF DoesByMeaning
    <2>2. QED  BY <1>9, <2>1
  <1>11. (deleted' <=> Did("d")') /\ (quit' <=> Did("q")')
    <2>1. ~Did("d") /\ ~Did("q")  BY <1>6 DEF Running, Looked
    <2>2. 1..i = 1..(i - 1) \cup {i}  BY <1>4
    <2>3. \A t : Did(t)' <=> \E j \in 1..i : Acts(S, T, t, k, j)
      BY <1>1, <1>2 DEF Did
    <2>4. \A t : Did(t) <=> \E j \in 1..(i - 1) : Acts(S, T, t, k, j)  BY DEF Did
    <2>5. (Did("d")' <=> W("d")) /\ (Did("q")' <=> W("q"))
      BY <2>1, <2>2, <2>3, <2>4
    <2>6. QED  BY <1>5, <2>5 DEF DoesByMeaning
  <1>12. change_text' = NewText(S, T, k, i)
    <2>1. NewText(S, T, k, i) = IF W("c") THEN S[i].text ELSE NewText(S, T, k, i - 1)
      BY <1>0 DEF StepsOn
    <2>2. change_text = NewText(S, T, k, i - 1)  BY <1>6 DEF Running
    <2>3. change_text' = IF ShouldExecute /\ command.type = "c" THEN command.text ELSE change_text
      BY DEF DoesByMeaning
    <2>4. W("c") <=> ShouldExecute /\ command.type = "c"  BY <1>5
    <2>5. QED  BY <1>5, <2>1, <2>2, <2>3, <2>4
  <1>13. out' = Shown(k - 1) \o LineSays(S, T, k, i)
    <2>1. out = Shown(k - 1) \o LineSays(S, T, k, i - 1) /\ out' = out \o Says(S, T, k, i)
      BY <1>6 DEF Running, DoesByMeaning
    <2>2. LineSays(S, T, k, i) = LineSays(S, T, k, i - 1) \o Says(S, T, k, i)
          /\ LineSays(S, T, k, i - 1) \in Seq(Item)
      BY <1>0 DEF StepsOn
    <2>3. Says(S, T, k, i) \in Seq(Item)  BY <1>0 DEF StepsOn
    <2>4. Shown(k - 1) \in Seq(Item)
      <3>1. k - 1 \in 0..Lines  BY <1>4
      <3>2. left # <<>> /\ Text # Nil  BY CommandMeans, Zenon DEF Looked, AsPlanned
      <3>3. QED  BY <3>1, <3>2, ShownType
    <2>5. Groups(Shown(k - 1), LineSays(S, T, k, i - 1), Says(S, T, k, i))  BY <2>2, <2>3, <2>4, Grouped
    <2>6. QED  BY <2>1, <2>2, <2>5 DEF Groups
  <1>14. append_queue' = LineAppends(S, T, k, i)
    <2>1. append_queue = LineAppends(S, T, k, i - 1) /\ append_queue' = append_queue \o Appends(S, T, k, i)
      BY <1>6 DEF Running, DoesByMeaning
    <2>2. LineAppends(S, T, k, i) = LineAppends(S, T, k, i - 1) \o Appends(S, T, k, i)
      BY <1>0 DEF StepsOn
    <2>3. QED  BY <2>1, <2>2
  <1>15. read_queue' = LineReads(S, T, D, k, i)
    <2>1. read_queue = LineReads(S, T, D, k, i - 1) /\ read_queue' = read_queue \o Reads(S, T, D, k, i)
      BY <1>6 DEF Running, DoesByMeaning
    <2>2. LineReads(S, T, D, k, i) = LineReads(S, T, D, k, i - 1) \o Reads(S, T, D, k, i)
      BY <1>0 DEF StepsOn
    <2>3. QED  BY <2>1, <2>2
  <1>16. disk' = Disk(k, i)
    <2>1. disk = DiskAt(S, T, D, k, i - 1)  BY <1>6 DEF Running, Disk
    <2>2. DiskAt(S, T, D, k, i)
             = IF W("w")
               THEN [DiskAt(S, T, D, k, i - 1) EXCEPT ![S[i].file] =
                        (IF @ = Nil THEN <<>> ELSE @) \o Finds(S, T)[i][k].space]
               ELSE DiskAt(S, T, D, k, i - 1)
      BY <1>0 DEF StepsOn
    <2>3. disk' = IF ShouldExecute /\ command.type = "w"
                  THEN [disk EXCEPT ![command.file] = (IF @ = Nil THEN <<>> ELSE @) \o pattern_space]
                  ELSE disk
      BY DEF DoesByMeaning
    <2>4. W("w") <=> ShouldExecute /\ command.type = "w"  BY <1>5
    <2> HIDE DEF S, T, D, k, i
    <2>5. disk' = DiskAt(S, T, D, k, i)  BY <1>5, <2>1, <2>2, <2>3, <2>4, Zenon
    <2>6. QED  BY <2>5 DEF Disk, S, T, D
  <1>17. Shown(line_num - 1)' = Shown(k - 1) /\ Disk(line_num, ci - 1)' = Disk(k, i)
    BY <1>1, <1>2 DEF Shown, Disk
  <1>18. Running'
    <2>1. line_num' > 0  BY <1>2, <1>4
    <2>2. pattern_space' = Finds(script', Text')[ci'][line_num'].space  BY <1>1, <1>2, <1>9
    <2>3. (deleted' \/ quit') <=> Finds(script', Text')[ci'][line_num'].over  BY <1>1, <1>2, <1>10
    <2>4. change_text' = NewText(script', Text', line_num', ci' - 1)  BY <1>1, <1>2, <1>12
    <2>5. out' = Shown(line_num - 1)' \o LineSays(script', Text', line_num', ci' - 1)
      BY <1>1, <1>2, <1>13, <1>17, Zenon
    <2>6. append_queue' = LineAppends(script', Text', line_num', ci' - 1)  BY <1>1, <1>2, <1>14
    <2>7. read_queue' = LineReads(script', Text', Prior'.disk, line_num', ci' - 1)
      BY <1>1, <1>2, <1>15
    <2>8. disk' = Disk(line_num, ci - 1)'  BY <1>16, <1>17
    <2>9. QED
      BY <1>8, <1>11, <2>1, <2>2, <2>3, <2>4, <2>5, <2>6, <2>7, <2>8, Zenon DEF Running
  <1>19. QED
    <2>1. AsPlanned /\ job' = job /\ left' = left /\ Text # Nil /\ Text' = Text
      BY <1>1, CommandMeans, Zenon DEF CarriesOn, Looked, AsPlanned
    <2>2. QED  BY <1>2, <1>7, <1>18, <2>1, Zenon DEF AsPlanned

\* s and y change the places that they mean.
LEMMA ReplacedIsChanged ==
    ASSUME NEW space \in Seq(Item)
    PROVE  /\ command.type = "s" =>
                 /\ Replaced(space, Places(space)) = Changed(command, space)
                 /\ Places(space) # {} <=> \E k \in DOMAIN space : Replaces(command, space, k)
                 /\ Places(space) = {} => Changed(command, space) = space
           /\ command.type = "y" =>
                 Replaced(space, {i \in DOMAIN space : space[i] = command.from}) = Changed(command, space)
PROOF
  <1>1. DOMAIN space = 1..Len(space) /\ Len(space) \in Nat  OBVIOUS
  <1>2. ASSUME command.type = "s", NEW i \in DOMAIN space
        PROVE  i \in Places(space) <=> Replaces(command, space, i)
    <2> DEFINE all == {j \in DOMAIN space : space[j] = command.from}
    <2>1. {j \in all : j < i} = {j \in 1..(i - 1) : space[j] = command.from}
      BY <1>1
    <2>2. Places(space) = IF command.global THEN all
                          ELSE {j \in all : Cardinality({h \in all : h < j}) = command.nth}
      BY DEF Places
    <2>3. Replaces(command, space, i)
            <=> /\ space[i] = command.from
                /\ \/ command.global
                   \/ Cardinality({j \in 1..(i - 1) : space[j] = command.from}) = command.nth
      BY <1>2 DEF Replaces
    <2>4. i \in all <=> space[i] = command.from  OBVIOUS
    <2> DEFINE C(j) == Cardinality({h \in all : h < j})
    <2>5. Replaces(command, space, i) <=> i \in all /\ (command.global \/ C(i) = command.nth)
      BY <2>1, <2>3, <2>4, Zenon
    <2>6. Places(space) = IF command.global THEN all ELSE {j \in all : C(j) = command.nth}
      BY <2>2
    <2> HIDE DEF all, C
    <2>7. CASE command.global
      BY <2>5, <2>6, <2>7
    <2>8. CASE ~command.global
      <3>1. i \in Places(space) <=> i \in all /\ C(i) = command.nth  BY <2>6, <2>8
      <3>2. QED  BY <2>5, <2>8, <3>1
    <2>9. QED  BY <2>7, <2>8
  <1>3. Places(space) \subseteq DOMAIN space
    BY DEF Places
  <1>4. ASSUME command.type = "s"
        PROVE  /\ Replaced(space, Places(space)) = Changed(command, space)
               /\ Places(space) # {} <=> \E k \in DOMAIN space : Replaces(command, space, k)
               /\ Places(space) = {} => Changed(command, space) = space
    <2>1. \A i \in DOMAIN space : i \in Places(space) <=> Replaces(command, space, i)
      BY <1>2, <1>4
    <2>2. Changed(command, space)
            = [k \in DOMAIN space |-> IF Replaces(command, space, k) THEN command.to ELSE space[k]]
      BY <1>4 DEF Changed
    <2>3. Replaced(space, Places(space)) = Changed(command, space)
      BY <2>1, <2>2 DEF Replaced
    <2>4. Places(space) # {} <=> \E k \in DOMAIN space : Replaces(command, space, k)
      BY <1>3, <2>1
    <2>5. Places(space) = {} => Changed(command, space) = space
      <3>1. space = [k \in DOMAIN space |-> space[k]]  BY <1>1
      <3>2. Places(space) = {} => \A k \in DOMAIN space : ~Replaces(command, space, k)  BY <2>1
      <3>3. QED  BY <2>2, <3>1, <3>2
    <2>6. QED  BY <2>3, <2>4, <2>5
  <1>5. ASSUME command.type = "y"
        PROVE  Replaced(space, {i \in DOMAIN space : space[i] = command.from}) = Changed(command, space)
    <2>1. \A i \in DOMAIN space : Replaces(command, space, i) <=> space[i] = command.from
      BY <1>5 DEF Replaces
    <2>2. Changed(command, space)
            = [k \in DOMAIN space |-> IF Replaces(command, space, k) THEN command.to ELSE space[k]]
      BY <1>5 DEF Changed
    <2>3. QED  BY <2>1, <2>2 DEF Replaced
  <1>6. QED  BY <1>4, <1>5

\* What a command means to print and queue.
SaysIt ==
    CASE command.type = "p" /\ ShouldExecute -> pattern_space
      [] command.type = "=" /\ ShouldExecute -> <<line_num>>
      [] command.type = "i" /\ ShouldExecute -> <<command.text>>
      [] command.type = "s" /\ ShouldExecute ->
            IF Tells(command, pattern_space) THEN Changed(command, pattern_space) ELSE <<>>
      [] OTHER -> <<>>
QueuesIt == IF command.type = "a" /\ ShouldExecute THEN <<command.text>> ELSE <<>>
ReadsIt == IF command.type = "r" /\ ShouldExecute THEN Held(disk, command.file) ELSE <<>>

\* The meaning of the command at hand, in terms of the cycle's state.
LEMMA WhatItSays ==
    ASSUME JobAssumption, SedTypeOK, left \in Seq(FileNames), AsPlanned, Looked
    PROVE  /\ Says(script, Text, line_num, ci) = SaysIt
           /\ Appends(script, Text, line_num, ci) = QueuesIt
           /\ Reads(script, Text, Prior.disk, line_num, ci) = ReadsIt
           /\ out \in Seq(Item) /\ append_queue \in Seq(Item) /\ read_queue \in Seq(Item)
PROOF
  <1> DEFINE W(t) == Acts(script, Text, t, line_num, ci)
  <1>1. /\ ci \in 1..Len(script) /\ line_num \in 1..Lines /\ Text \in Seq(Item)
        /\ pattern_space = Finds(script, Text)[ci][line_num].space
        /\ \A t : W(t) <=> command.type = t /\ ShouldExecute
    BY CommandMeans
  <1>2. Valid(script) /\ Prior.disk \in Disks /\ Nil \notin Seq(Item)  BY NextFacts, Zenon
  <1>3. command = script[ci]  BY DEF command
  <1>4. Running  BY DEF Looked, AsPlanned
  <1>5. Says(script, Text, line_num, ci) = SaysIt
    <2>1. Says(script, Text, line_num, ci)
            = CASE W("p") -> pattern_space
                [] W("=") -> <<line_num>>
                [] W("i") -> <<command.text>>
                [] W("s") -> IF Tells(command, pattern_space) THEN Changed(command, pattern_space) ELSE <<>>
                [] OTHER -> <<>>
      BY <1>1, <1>3 DEF Says
    <2> HIDE DEF W
    <2>2. /\ W("p") <=> command.type = "p" /\ ShouldExecute
          /\ W("=") <=> command.type = "=" /\ ShouldExecute
          /\ W("i") <=> command.type = "i" /\ ShouldExecute
          /\ W("s") <=> command.type = "s" /\ ShouldExecute
      BY <1>1
    <2>3. QED  BY <2>1, <2>2 DEF SaysIt
  <1>6. Appends(script, Text, line_num, ci) = QueuesIt
    BY <1>1, <1>3 DEF Appends, QueuesIt
  <1>7. Reads(script, Text, Prior.disk, line_num, ci) = ReadsIt
    <2> DEFINE s == script
               T == Text
               D == Prior.disk
               k == line_num
               i == ci
    <2>1. k \in 1..Len(T) /\ i \in 1..Len(s) /\ Valid(s) /\ T \in Seq(Item) /\ D \in Disks
      BY <1>1, <1>2 DEF Lines
    <2>2. disk = DiskAt(s, T, D, k, i - 1)  BY <1>4 DEF Running, Disk
    <2>3. W("r") <=> command.type = "r" /\ ShouldExecute  BY <1>1
    <2>4. W("r") <=> Acts(s, T, "r", k, i)  OBVIOUS
    <2> HIDE DEF s, T, D, k, i, W
    <2>5. Reads(s, T, D, k, i) = IF Acts(s, T, "r", k, i) THEN Held(DiskAt(s, T, D, k, i - 1), s[i].file) ELSE <<>>
      BY <1>2, <2>1, ReadsFacts
    <2>6. Reads(s, T, D, k, i) = IF W("r") THEN Held(disk, s[i].file) ELSE <<>>
      BY <2>2, <2>4, <2>5
    <2>7. QED  BY <1>3, <2>3, <2>6 DEF ReadsIt, s, T, D, k, i
  <1>8. out \in Seq(Item) /\ append_queue \in Seq(Item) /\ read_queue \in Seq(Item)
    <2> DEFINE s == script
               T == Text
               D == Prior.disk
               k == line_num
               i == ci
    <2>1. k \in 1..Len(T) /\ i - 1 \in 0..Len(s) /\ Valid(s) /\ T \in Seq(Item) /\ D \in Disks
      BY <1>1, <1>2 DEF Lines, Valid
    <2>2. /\ out = Shown(k - 1) \o LineSays(s, T, k, i - 1)
          /\ append_queue = LineAppends(s, T, k, i - 1)
          /\ read_queue = LineReads(s, T, D, k, i - 1)
      BY <1>4 DEF Running
    <2>3. Shown(k - 1) \in Seq(Item)
      <3>1. k - 1 \in 0..Lines  BY <1>1, <2>1 DEF Lines
      <3>2. left # <<>> /\ Text # Nil  BY CommandMeans, Zenon DEF Looked, AsPlanned
      <3>3. QED  BY <3>1, <3>2, ShownType
    <2> HIDE DEF s, T, D, k, i
    <2>4. LineSays(s, T, k, i - 1) \in Seq(Item)  BY <2>1, LineSaysFacts
    <2>5. LineAppends(s, T, k, i - 1) \in Seq(Item)  BY <2>1, LineAppendsFacts
    <2>6. LineReads(s, T, D, k, i - 1) \in Seq(Item)  BY <1>2, <2>1, LineReadsFacts
    <2>7. QED  BY <2>2, <2>3, <2>4, <2>5, <2>6, ConcatProperties
  <1>9. QED  BY <1>5, <1>6, <1>7, <1>8

\* What that is for each type of command.
LEMMA SaysByType ==
    /\ ShouldExecute /\ command.type = "p" => SaysIt = pattern_space
    /\ ShouldExecute /\ command.type = "=" => SaysIt = <<line_num>>
    /\ ShouldExecute /\ command.type = "i" => SaysIt = <<command.text>>
    /\ ShouldExecute /\ command.type = "s" =>
          SaysIt = IF Tells(command, pattern_space) THEN Changed(command, pattern_space) ELSE <<>>
    /\ ~ShouldExecute \/ command.type \notin {"p", "=", "i", "s"} => SaysIt = <<>>
    /\ ~ShouldExecute \/ command.type # "a" => QueuesIt = <<>>
    /\ ~ShouldExecute \/ command.type # "r" => ReadsIt = <<>>
    /\ command.type \notin {"s", "y"} => Changed(command, pattern_space) = pattern_space
PROOF
  <1>1. ShouldExecute /\ command.type = "p" => SaysIt = pattern_space  BY DEF SaysIt
  <1>2. ShouldExecute /\ command.type = "=" => SaysIt = <<line_num>>  BY DEF SaysIt
  <1>3. ShouldExecute /\ command.type = "i" => SaysIt = <<command.text>>  BY DEF SaysIt
  <1>4. ShouldExecute /\ command.type = "s" =>
          SaysIt = IF Tells(command, pattern_space) THEN Changed(command, pattern_space) ELSE <<>>
    BY DEF SaysIt
  <1>5. ~ShouldExecute \/ command.type \notin {"p", "=", "i", "s"} => SaysIt = <<>>
    BY DEF SaysIt
  <1>6. ~ShouldExecute \/ command.type # "a" => QueuesIt = <<>>  BY DEF QueuesIt
  <1>7. ~ShouldExecute \/ command.type # "r" => ReadsIt = <<>>  BY DEF ReadsIt
  <1>8. command.type \notin {"s", "y"} => Changed(command, pattern_space) = pattern_space
    BY DEF Changed
  <1>9. QED  BY <1>1, <1>2, <1>3, <1>4, <1>5, <1>6, <1>7, <1>8

\* A command that is carried out takes the cycle on.
LEMMA TakesOn ==
    ASSUME NEW t, At(t), Keep
    PROVE  Looked /\ CarriesOn /\ command.type = t /\ ShouldExecute
  BY DEF At, Keep, Looked, CarriesOn, edit

\* Every command does what it means.
LEMMA ScriptStepByMeaning ==
    ASSUME JobAssumption, SedTypeOK, left \in Seq(FileNames), AsPlanned, Plain, ScriptStep
    PROVE  Looked /\ CarriesOn /\ DoesByMeaning
PROOF
  <1> DEFINE x == command
             space == pattern_space
             Printing == out' = out \o SaysIt
             Queueing == append_queue' = append_queue \o QueuesIt /\ read_queue' = read_queue \o ReadsIt
  <1>0. Looked
    BY DEF ScriptStep, Skip, Prints, Substitute, Transliterate, Delete, Quit, AppendText, Change,
           NextLine, NextAppend, WriteTo, ReadFrom, At, Looked
  <1>1. /\ Says(script, Text, line_num, ci) = SaysIt
        /\ Appends(script, Text, line_num, ci) = QueuesIt
        /\ Reads(script, Text, Prior.disk, line_num, ci) = ReadsIt
        /\ out \in Seq(Item) /\ append_queue \in Seq(Item) /\ read_queue \in Seq(Item)
    BY <1>0, WhatItSays
  <1>2. \A q \in Seq(Item) : q \o <<>> = q  BY ConcatEmptySeq
  <1>3. ASSUME NEW q \in Seq(Item), NEW e
         PROVE  Append(q, e) = q \o <<e>>
    <2>1. q \in Seq(Item \cup {e})  BY SeqMonotonic
    <2>2. QED  BY <2>1, AppendIsConcat
  <1>4. x.type \in Types /\ space \in Seq(Item)  BY <1>0, CommandMeans
  <1>5. ~deleted /\ ~quit  BY <1>0 DEF Looked
  <1>6. ASSUME CarriesOn, Printing, Queueing,
               space' = IF ShouldExecute THEN Changed(x, space) ELSE space,
               deleted' <=> ShouldExecute /\ x.type = "d",
               quit' <=> ShouldExecute /\ x.type = "q",
               change_text' = IF ShouldExecute /\ x.type = "c" THEN x.text ELSE change_text,
               disk' = IF ShouldExecute /\ x.type = "w"
                       THEN [disk EXCEPT ![x.file] = (IF @ = Nil THEN <<>> ELSE @) \o space] ELSE disk
        PROVE  CarriesOn /\ DoesByMeaning
    BY <1>1, <1>6 DEF DoesByMeaning
  <1>7. CASE Skip
    <2>1. CarriesOn  BY <1>7 DEF Skip, CarriesOn
    <2>2. ~ShouldExecute  BY <1>7 DEF Skip
    <2>3. SaysIt = <<>> /\ QueuesIt = <<>> /\ ReadsIt = <<>>  BY <2>2, SaysByType
    <2>4. Printing /\ Queueing  BY <1>1, <1>2, <1>7, <2>3 DEF Skip, queues
    <2>5. QED  BY <1>0, <1>5, <1>6, <1>7, <2>1, <2>2, <2>4 DEF Skip
  <1>8. CASE Prints
    <2>1. PICK t \in {"p", "=", "i"} : At(t)  BY <1>8 DEF Prints
    <2>2. Keep  BY <1>8 DEF Prints
    <2>3. CarriesOn /\ x.type = t /\ ShouldExecute  BY <2>1, <2>2, TakesOn
    <2>4. out' = out \o SaysIt
      <3>1. CASE t = "p"
        <4>1. SaysIt = space  BY <2>3, <3>1, SaysByType
        <4>2. out' = out \o space  BY <1>8, <2>3, <3>1 DEF Prints, At
        <4>3. QED  BY <4>1, <4>2
      <3>2. CASE t = "="
        <4>1. SaysIt = <<line_num>>  BY <2>3, <3>2, SaysByType
        <4>2. out' = Append(out, line_num)  BY <1>8, <2>3, <3>2 DEF Prints, At
        <4>3. Append(out, line_num) = out \o <<line_num>>  BY <1>1, <1>3
        <4>4. QED  BY <4>1, <4>2, <4>3
      <3>3. CASE t = "i"
        <4>1. SaysIt = <<x.text>>  BY <2>3, <3>3, SaysByType
        <4>2. out' = Append(out, x.text)  BY <1>8, <2>3, <3>3 DEF Prints, At
        <4>3. Append(out, x.text) = out \o <<x.text>>  BY <1>1, <1>3
        <4>4. QED  BY <4>1, <4>2, <4>3
      <3>4. QED  BY <3>1, <3>2, <3>3
    <2>5. QueuesIt = <<>> /\ ReadsIt = <<>> /\ Changed(x, space) = space
      BY <2>3, SaysByType
    <2>6. Queueing  BY <1>1, <1>2, <1>8, <2>5 DEF Prints, queues
    <2>7. x.type \notin {"d", "q", "c", "w"}  BY <2>3
    <2>8. QED  BY <1>0, <1>5, <1>6, <1>8, <2>3, <2>4, <2>5, <2>6, <2>7 DEF Prints, KeepFlags
  <1>9. CASE Substitute
    <2> DEFINE places == Places(space)
               result == Replaced(space, places)
               count == IF ~x.global /\ x.nth > 0 THEN places # {} ELSE result # space
    <2>1. At("s") /\ Keep  BY <1>9 DEF Substitute
    <2>2. CarriesOn /\ x.type = "s" /\ ShouldExecute  BY <2>1, TakesOn
    <2>3. /\ result = Changed(x, space)
          /\ places # {} <=> \E k \in DOMAIN space : Replaces(x, space, k)
          /\ places = {} => Changed(x, space) = space
      BY <1>4, <2>2, ReplacedIsChanged
    <2>4. Tells(x, space) <=> x.print /\ count
      <3>1. Tells(x, space) <=> /\ x.print
                                /\ IF ~x.global /\ x.nth > 0 THEN \E k \in DOMAIN space : Replaces(x, space, k)
                                   ELSE Changed(x, space) # space
        BY DEF Tells
      <3>2. QED  BY <2>3, <3>1
    <2>5. /\ space' = IF count THEN result ELSE space
          /\ out' = IF count /\ x.print THEN out \o result ELSE out
      BY <1>9 DEF Substitute
    <2>6. count \/ Changed(x, space) = space  BY <2>3
    <2>7. space' = Changed(x, space)  BY <2>3, <2>5, <2>6
    <2>8. out' = out \o SaysIt
      <3>1. SaysIt = IF Tells(x, space) THEN Changed(x, space) ELSE <<>>  BY <2>2, SaysByType
      <3>2. QED  BY <1>1, <1>2, <2>3, <2>4, <2>5, <3>1
    <2>9. QueuesIt = <<>> /\ ReadsIt = <<>>  BY <2>2, SaysByType
    <2>10. Queueing  BY <1>1, <1>2, <1>9, <2>9 DEF Substitute, queues
    <2>11. deleted' = deleted /\ quit' = quit /\ change_text' = change_text /\ disk' = disk
      BY <1>9 DEF Substitute, KeepFlags
    <2> HIDE DEF places, result, count
    <2>12. QED  BY <1>0, <1>5, <1>6, <2>2, <2>7, <2>8, <2>10, <2>11
  <1>10. CASE Transliterate
    <2>1. At("y") /\ Keep  BY <1>10 DEF Transliterate
    <2>2. CarriesOn /\ x.type = "y" /\ ShouldExecute  BY <2>1, TakesOn
    <2>3. space' = Changed(x, space)
      BY <1>4, <1>10, <2>2, ReplacedIsChanged DEF Transliterate
    <2>4. SaysIt = <<>> /\ QueuesIt = <<>> /\ ReadsIt = <<>>  BY <2>2, SaysByType
    <2>5. Printing /\ Queueing  BY <1>1, <1>2, <1>10, <2>4 DEF Transliterate, queues
    <2>6. QED  BY <1>0, <1>5, <1>6, <1>10, <2>2, <2>3, <2>5 DEF Transliterate, KeepFlags
  <1>11. CASE Delete
    <2>1. At("d") /\ Keep  BY <1>11 DEF Delete
    <2>2. CarriesOn /\ x.type = "d" /\ ShouldExecute  BY <2>1, TakesOn
    <2>3. SaysIt = <<>> /\ QueuesIt = <<>> /\ ReadsIt = <<>> /\ Changed(x, space) = space
      BY <2>2, SaysByType
    <2>4. Printing /\ Queueing  BY <1>1, <1>2, <1>11, <2>3 DEF Delete, queues
    <2>5. QED  BY <1>0, <1>5, <1>6, <1>11, <2>2, <2>3, <2>4 DEF Delete
  <1>12. CASE Quit
    <2>1. At("q") /\ Keep  BY <1>12 DEF Quit
    <2>2. CarriesOn /\ x.type = "q" /\ ShouldExecute  BY <2>1, TakesOn
    <2>3. SaysIt = <<>> /\ QueuesIt = <<>> /\ ReadsIt = <<>> /\ Changed(x, space) = space
      BY <2>2, SaysByType
    <2>4. Printing /\ Queueing  BY <1>1, <1>2, <1>12, <2>3 DEF Quit, queues
    <2>5. QED  BY <1>0, <1>5, <1>6, <1>12, <2>2, <2>3, <2>4 DEF Quit
  <1>13. CASE AppendText
    <2>1. At("a") /\ Keep  BY <1>13 DEF AppendText
    <2>2. CarriesOn /\ x.type = "a" /\ ShouldExecute  BY <2>1, TakesOn
    <2>3. SaysIt = <<>> /\ ReadsIt = <<>> /\ Changed(x, space) = space  BY <2>2, SaysByType
    <2>4. QueuesIt = <<x.text>>  BY <2>2 DEF QueuesIt
    <2>5. append_queue' = append_queue \o QueuesIt
      <3>1. append_queue' = Append(append_queue, x.text)  BY <1>13 DEF AppendText
      <3>2. Append(append_queue, x.text) = append_queue \o <<x.text>>  BY <1>1, <1>3
      <3>3. QED  BY <2>4, <3>1, <3>2
    <2>6. Printing /\ Queueing  BY <1>1, <1>2, <1>13, <2>3, <2>5 DEF AppendText
    <2>7. QED  BY <1>0, <1>5, <1>6, <1>13, <2>2, <2>3, <2>6 DEF AppendText, KeepFlags
  <1>14. CASE Change
    <2>1. At("c") /\ Keep  BY <1>14 DEF Change
    <2>2. CarriesOn /\ x.type = "c" /\ ShouldExecute  BY <2>1, TakesOn
    <2>3. SaysIt = <<>> /\ QueuesIt = <<>> /\ ReadsIt = <<>> /\ Changed(x, space) = space
      BY <2>2, SaysByType
    <2>4. Printing /\ Queueing  BY <1>1, <1>2, <1>14, <2>3 DEF Change, queues
    <2>5. QED  BY <1>0, <1>5, <1>6, <1>14, <2>2, <2>3, <2>4 DEF Change
  <1>15. ~NextLine /\ ~NextAppend
    <2>1. x.type \notin {"n", "N"}
      <3>1. ci \in DOMAIN script
        <4>1. ci \in 1..Len(script) /\ Valid(script)  BY <1>0, CommandMeans, NextFacts, Zenon
        <4>2. QED  BY <4>1 DEF Valid
      <3>2. QED  BY <3>1 DEF Plain, Uses, command
    <2>2. QED  BY <2>1 DEF NextLine, NextAppend, At
  <1>16. CASE WriteTo
    <2>1. At("w") /\ Keep  BY <1>16 DEF WriteTo
    <2>2. CarriesOn /\ x.type = "w" /\ ShouldExecute  BY <2>1, TakesOn
    <2>3. SaysIt = <<>> /\ QueuesIt = <<>> /\ ReadsIt = <<>> /\ Changed(x, space) = space
      BY <2>2, SaysByType
    <2>4. Printing /\ Queueing  BY <1>1, <1>2, <1>16, <2>3 DEF WriteTo, queues
    <2>5. disk' = [disk EXCEPT ![x.file] = (IF @ = Nil THEN <<>> ELSE @) \o space]
      BY <1>16 DEF WriteTo, Plain
    <2>6. QED  BY <1>0, <1>5, <1>6, <1>16, <2>2, <2>3, <2>4, <2>5 DEF WriteTo, KeepFlags
  <1>17. CASE ReadFrom
    <2>1. At("r") /\ Keep  BY <1>17 DEF ReadFrom
    <2>2. CarriesOn /\ x.type = "r" /\ ShouldExecute  BY <2>1, TakesOn
    <2>3. SaysIt = <<>> /\ QueuesIt = <<>> /\ Changed(x, space) = space  BY <2>2, SaysByType
    <2>4. read_queue' = read_queue \o ReadsIt
      <3>1. read_queue' = IF disk[x.file] = Nil THEN read_queue ELSE read_queue \o disk[x.file]
        BY <1>17 DEF ReadFrom
      <3>2. ReadsIt = IF disk[x.file] = Nil THEN <<>> ELSE disk[x.file]  BY <2>2 DEF ReadsIt, Held
      <3>3. QED  BY <1>1, <1>2, <3>1, <3>2
    <2>5. Printing /\ Queueing  BY <1>1, <1>2, <1>17, <2>3, <2>4, Zenon DEF ReadFrom
    <2>6. QED  BY <1>0, <1>5, <1>6, <1>17, <2>2, <2>3, <2>5 DEF ReadFrom, KeepFlags
  <1>18. QED
    BY <1>0, <1>7, <1>8, <1>9, <1>10, <1>11, <1>12, <1>13, <1>14, <1>15, <1>16, <1>17 DEF ScriptStep

----------------------------------------------------------------------------
(***************************************************************************)
(* The other steps: files and lines.                                       *)
(***************************************************************************)

\* One file after the other.
LEMMA FileDone ==
    ASSUME JobAssumption, SedTypeOK, left \in Seq(FileNames), AsPlanned, left # <<>>,
           job' = job, left' = Tail(left), phase' = "open",
           out' = AfterFile(job, Path, Prior).out, disk' = AfterFile(job, Path, Prior).disk
    PROVE  AsPlanned'
PROOF
  <1>1. /\ Tail(left) \in Seq(FileNames) /\ Len(Tail(left)) = Len(left) - 1
        /\ Tail(left) = SubSeq(job.paths, Len(job.paths) - Len(Tail(left)) + 1, Len(job.paths))
        /\ After(job)[Len(job.paths) - Len(Tail(left))] = AfterFile(job, Path, Prior)
        /\ Len(left) \in Nat /\ Len(job.paths) \in Nat
    BY NextFacts, Zenon
  <1>2. Prior' = AfterFile(job, Path, Prior)
    <2>1. Prior' = After(job)[Len(job.paths) - Len(Tail(left))]  BY DEF Prior
    <2>2. QED  BY <1>1, <2>1
  <1>3. Between'  BY <1>2 DEF Between
  <1>4. Len(Tail(left)) <= Len(job.paths)  BY <1>1 DEF AsPlanned
  <1>5. QED  BY <1>1, <1>3, <1>4, Zenon DEF AsPlanned

\* A file is opened: line 0, no range open, nothing shown of it.
LEMMA OpenByMeaning ==
    ASSUME JobAssumption, SedTypeOK, left \in Seq(FileNames), AsPlanned, Open
    PROVE  AsPlanned'
PROOF
  <1>1. /\ job' = job /\ left' = left /\ phase' = "read" /\ unread' = disk[Path] /\ line_num' = 0
        /\ disk' = disk /\ phase = "open" /\ left # <<>> /\ disk[Path] # Nil
        /\ range_active' = [i \in DOMAIN script |-> FALSE]
        /\ out' = IF job.inPlace THEN <<>> ELSE out
    BY DEF Open, edit
  <1>2. script' = script /\ Prior' = Prior /\ Path' = Path /\ Text' = Text /\ Lines' = Lines
    BY <1>1, SameText
  <1>3. Between  BY <1>1 DEF AsPlanned
  <1>4. Text = disk[Path] /\ Text # Nil  BY <1>1, <1>3 DEF Between, Text
  <1>5. /\ Valid(script) /\ Nil \notin Seq(Item) /\ Prior.disk \in Disks /\ Text \in Seq(Item)
    BY <1>1, <1>4, NextFacts, Zenon
  <1>6. Lines \in Nat /\ Lines = Len(Text) /\ SubSeq(Text, 0 + 1, Lines) = Text
    <2>1. SubSeq(Text, 1, Len(Text)) = Text  BY <1>5, SubSeqFull
    <2>2. QED  BY <1>5, <2>1 DEF Lines
  <1>7. AtLine'
    <2>1. Reached(script, Text, 0 + 1)
      <3>1. Reached(script, Text, 1)  BY ReachedFacts
      <3>2. 0 + 1 = 1  OBVIOUS
      <3>3. QED  BY <3>1, <3>2
    <2>2. unread' = SubSeq(Text', line_num' + 1, Lines')  BY <1>1, <1>2, <1>4, <1>6
    <2>3. line_num' \in 0..Lines'  BY <1>1, <1>2, <1>6
    <2>4. QED  BY <1>1, <1>2, <2>1, <2>2, <2>3 DEF AtLine
  <1>8. Ranges(line_num + 1, 1)'
    <2>1. ASSUME NEW j \in 1..Len(script)
          PROVE  range_active'[j] <=> StaysOpen(script[j], Text, Finds(script, Text)[j],
                                                IF j < 1 THEN 0 + 1 ELSE (0 + 1) - 1)
      <3>1. j \in DOMAIN script /\ ~(j < 1)  BY <1>5 DEF Valid
      <3>2. ~range_active'[j]  BY <1>1, <3>1
      <3>3. ~StaysOpen(script[j], Text, Finds(script, Text)[j], 0)
        <4>1. 1 \in Nat \ {0}  OBVIOUS
        <4>2. QED  BY <4>1, RangeFacts, Zenon
      <3>4. (IF j < 1 THEN 0 + 1 ELSE (0 + 1) - 1) = 0  BY <3>1
      <3>5. QED  BY <3>2, <3>3, <3>4
    <2>2. QED  BY <1>1, <1>2, <2>1 DEF Ranges
  <1>9. Shown(0) = (IF job.inPlace THEN <<>> ELSE Prior.out)  BY <1>1, <1>4, ShownType
  <1>10. Shown(line_num)' = Shown(0) /\ Disk(line_num, Len(script))' = Disk(0, Len(script))
    BY <1>1, <1>2 DEF Shown, Disk
  <1>11. Disk(0, Len(script)) = disk
    <2>1. DiskAt(script, Text, Prior.disk, 0, Len(script)) = Prior.disk  BY <1>5, DiskFirst
    <2>2. QED  BY <1>3, <2>1 DEF Disk, Between
  <1>12. Reading'
    <2>1. out' = Shown(line_num)'  BY <1>1, <1>3, <1>9, <1>10 DEF Between
    <2>2. disk' = Disk(line_num, Len(script))'  BY <1>1, <1>10, <1>11
    <2>3. QED  BY <1>8, <2>1, <2>2 DEF Reading
  <1>13. QED
    <2>1. AsPlanned /\ Text' # Nil  BY <1>2, <1>4
    <2>2. QED  BY <1>1, <1>7, <1>12, <2>1, Zenon DEF AsPlanned

\* A file that is not there is passed over.
LEMMA PassesByMeaning ==
    ASSUME JobAssumption, SedTypeOK, left \in Seq(FileNames), AsPlanned, Plain, Passes
    PROVE  AsPlanned'
PROOF
  <1>1. /\ job' = job /\ left' = Tail(left) /\ left # <<>> /\ phase = "open" /\ phase' = "open"
        /\ out' = out /\ disk' = disk /\ disk[Path] = Nil
    BY DEF Passes, Plain
  <1>2. Between  BY <1>1 DEF AsPlanned
  <1>3. AfterFile(job, Path, Prior) = Prior  BY <1>1, <1>2 DEF AfterFile, Between
  <1>4. QED  BY <1>1, <1>2, <1>3, FileDone DEF Between

\* The last file is done.
LEMMA ReturnByMeaning ==
    ASSUME AsPlanned, Return
    PROVE  AsPlanned'
PROOF
  <1>1. job' = job /\ left' = left /\ left = <<>> /\ phase = "open" /\ phase' = "done" /\ out' = out /\ disk' = disk
    BY DEF Return
  <1>2. Prior' = Prior  BY <1>1 DEF Prior
  <1>3. QED  BY <1>1, <1>2, Zenon DEF AsPlanned, Between

\* The next line is read, as the first command finds it.
LEMMA ReadLineByMeaning ==
    ASSUME JobAssumption, SedTypeOK, left \in Seq(FileNames), AsPlanned, ReadLine
    PROVE  AsPlanned'
PROOF
  <1> DEFINE k == line_num
  <1>1. /\ job' = job /\ left' = left /\ phase' = "run" /\ phase = "read" /\ unread # <<>>
        /\ unread' = Tail(unread) /\ line_num' = line_num + 1 /\ pattern_space' = <<Head(unread)>>
        /\ ~deleted' /\ ~quit' /\ change_text' = Nil /\ ci' = 1
        /\ disk' = disk /\ out' = out /\ range_active' = range_active
        /\ append_queue' = append_queue /\ read_queue' = read_queue
    BY DEF ReadLine, queues
  <1>2. script' = script /\ Prior' = Prior /\ Path' = Path /\ Text' = Text /\ Lines' = Lines
    BY <1>1, SameText
  <1>3. /\ left # <<>> /\ append_queue = <<>> /\ read_queue = <<>>
    BY <1>1 DEF SedTypeOK
  <1>4. Text # Nil /\ AtLine /\ Reading  BY <1>1 DEF AsPlanned
  <1>5. /\ Valid(script) /\ Nil \notin Seq(Item) /\ Prior.disk \in Disks /\ Text \in Seq(Item)
    BY <1>3, <1>4, NextFacts, Zenon
  <1>6. /\ unread = SubSeq(Text, k + 1, Len(Text)) /\ k \in 0..Len(Text) /\ Lines = Len(Text)
        /\ Reached(script, Text, k + 1)
    BY <1>1, <1>4 DEF AtLine, Lines
  <1>7. /\ k + 1 \in 1..Len(Text) /\ Head(unread) = Text[k + 1]
        /\ Tail(unread) = SubSeq(Text, (k + 1) + 1, Len(Text))
    BY <1>1, <1>5, <1>6, AtLastLine, Zenon
  <1>8. k + 1 \in 0..Lines /\ (k + 1) - 1 = k /\ k + 1 > 0 /\ Len(script) \in Nat /\ k \in Nat
    <2>1. Len(script) \in Nat  BY <1>5 DEF Valid
    <2>2. Len(Text) \in Nat  BY <1>5
    <2>3. k \in 0..Len(Text) /\ k + 1 \in 1..Len(Text) /\ Lines = Len(Text)  BY <1>6, <1>7
    <2> HIDE DEF k
    <2>4. k + 1 \in 0..Lines /\ (k + 1) - 1 = k /\ k + 1 > 0 /\ k \in Nat  BY <2>2, <2>3
    <2>5. QED  BY <2>1, <2>4
  <1>9. AtLine'
    <2>1. unread' = SubSeq(Text', line_num' + 1, Lines')  BY <1>1, <1>2, <1>6, <1>7, Zenon
    <2>2. Reached(script', Text', line_num')  BY <1>1, <1>2, <1>6
    <2>3. line_num' \in 0..Lines'  BY <1>1, <1>2, <1>8
    <2>4. QED  BY <1>1, <2>1, <2>2, <2>3, Zenon DEF AtLine
  <1>10. Ranges(line_num, ci)'
    <2>1. Ranges(k + 1, 1)  BY <1>4 DEF Reading
    <2>2. QED  BY <1>1, <1>2, <2>1 DEF Ranges
  <1>11. Finds(script, Text)[1][k + 1] = [space |-> <<Text[k + 1]>>, over |-> FALSE]
    <2>1. Finds(script, Text)[1] = AtFirst(Text)  BY <1>5, FindsFacts
    <2>2. k + 1 \in DOMAIN Text  BY <1>5, <1>7
    <2>3. QED  BY <2>1, <2>2 DEF AtFirst
  <1>12. ~Did("d")' /\ ~Did("q")'
    <2>1. 1..(ci' - 1) = {}  BY <1>1
    <2>2. QED  BY <2>1 DEF Did
  <1>13. NewText(script, Text, k + 1, 0) = Nil
    BY DEF NewText, Changes
  <1>14. /\ LineSays(script, Text, k + 1, 0) = <<>>
         /\ LineAppends(script, Text, k + 1, 0) = <<>>
         /\ LineReads(script, Text, Prior.disk, k + 1, 0) = <<>>
    BY <1>5, <1>7, LineSaysFacts, LineAppendsFacts, LineReadsFacts
  <1>15. Disk(k + 1, 0) = Disk(k, Len(script))
    <2>1. DiskAt(script, Text, Prior.disk, k + 1, 0) = DiskAt(script, Text, Prior.disk, (k + 1) - 1, Len(script))
      BY <1>5, <1>7, DiskLine
    <2>2. QED  BY <1>8, <2>1 DEF Disk
  <1>16. Shown(line_num - 1)' = Shown(k) /\ Disk(line_num, ci - 1)' = Disk(k + 1, 0)
    <2>1. line_num' - 1 = k /\ ci' - 1 = 0  BY <1>1, <1>8
    <2>2. QED  BY <1>1, <1>2, <2>1, Zenon DEF Shown, Disk
  <1>17. Shown(k) \o <<>> = Shown(k)
    <2>1. Shown(k) \in Seq(Item)  BY <1>3, <1>4, <1>6, ShownType, Zenon
    <2>2. QED  BY <2>1, ConcatEmptySeq
  <1>18. Running'
    <2>0. ci' - 1 = 0 /\ line_num' = k + 1 /\ ci' = 1  BY <1>1
    <2>1. line_num' > 0  BY <1>1, <1>8
    <2>2. pattern_space' = Finds(script', Text')[ci'][line_num'].space
      BY <1>1, <1>2, <1>7, <1>11
    <2>3. (deleted' \/ quit') <=> Finds(script', Text')[ci'][line_num'].over
      BY <1>1, <1>2, <1>11
    <2>4. change_text' = NewText(script', Text', line_num', ci' - 1)  BY <1>1, <1>2, <1>13, <2>0
    <2>5. out' = Shown(line_num - 1)' \o LineSays(script', Text', line_num', ci' - 1)
      BY <1>1, <1>2, <1>4, <1>14, <1>16, <1>17, <2>0, Zenon DEF Reading
    <2>6. append_queue' = LineAppends(script', Text', line_num', ci' - 1)
      BY <1>1, <1>2, <1>3, <1>14, <2>0
    <2>7. read_queue' = LineReads(script', Text', Prior'.disk, line_num', ci' - 1)
      BY <1>1, <1>2, <1>3, <1>14, <2>0
    <2>8. disk' = Disk(line_num, ci - 1)'  BY <1>1, <1>4, <1>15, <1>16 DEF Reading
    <2>9. (deleted' <=> Did("d")') /\ (quit' <=> Did("q")')  BY <1>1, <1>12
    <2>10. QED
      BY <1>10, <2>1, <2>2, <2>3, <2>4, <2>5, <2>6, <2>7, <2>8, <2>9, Zenon DEF Running
  <1>19. QED
    <2>1. AsPlanned /\ Text' # Nil  BY <1>2, <1>4
    <2>2. QED  BY <1>1, <1>9, <1>18, <2>1, Zenon DEF AsPlanned

GroupsFour(S, a, b, c, d) == (((S \o a) \o b) \o c) \o d = S \o (((a \o b) \o c) \o d)

\* What the end of the cycle prints, after S what the line had printed already.
LEMMA FourJoined ==
    ASSUME NEW T, NEW S \in Seq(T), NEW a \in Seq(T), NEW b \in Seq(T), NEW c \in Seq(T), NEW d \in Seq(T)
    PROVE  GroupsFour(S, a, b, c, d)
PROOF
  <1>1. a \o b \in Seq(T) /\ (a \o b) \o c \in Seq(T)  BY ConcatProperties
  <1>2. Groups(S, a, b)  BY Grouped
  <1>3. Groups(S, a \o b, c)  BY <1>1, Grouped, Zenon
  <1>4. Groups(S, (a \o b) \o c, d)  BY <1>1, Grouped, Zenon
  <1>5. QED  BY <1>2, <1>3, <1>4 DEF Groups, GroupsFour

\* The end of the cycle: no command is carried out on the line any more.
Finished == phase = "run" /\ (ci > Len(script) \/ deleted \/ quit)

\* The rest of the commands leave the line alone: it is over, or there are none.
LEMMA FinishedFacts ==
    ASSUME JobAssumption, SedTypeOK, left \in Seq(FileNames), AsPlanned, Finished
    PROVE  /\ left # <<>> /\ Text # Nil /\ line_num \in 1..Lines /\ Running /\ AtLine
           /\ Valid(script) /\ Nil \notin Seq(Item) /\ Prior.disk \in Disks /\ Text \in Seq(Item)
           /\ Lines = Len(Text) /\ ci \in 1..(Len(script) + 1)
           /\ Idle(script, Text, line_num, ci)
           /\ Finds(script, Text)[Len(script) + 1][line_num] = Finds(script, Text)[ci][line_num]
           /\ ci <= Len(script) => Finds(script, Text)[ci][line_num].over
PROOF
  <1>1. Running /\ AtLine /\ Text # Nil  BY DEF Finished, AsPlanned
  <1>2. left # <<>>  BY DEF Finished, SedTypeOK
  <1>3. /\ Valid(script) /\ Nil \notin Seq(Item) /\ Prior.disk \in Disks /\ Text \in Seq(Item)
    BY <1>1, <1>2, NextFacts, Zenon
  <1>4. line_num \in 1..Lines /\ Lines = Len(Text) /\ Lines \in Nat
    <2>1. line_num \in 0..Lines /\ line_num > 0  BY <1>1 DEF AtLine, Running
    <2>2. Lines = Len(Text) /\ Lines \in Nat  BY <1>3 DEF Lines
    <2>3. QED  BY <2>1, <2>2
  <1>5. Len(script) \in Nat /\ ci \in 1..(Len(script) + 1)  BY <1>3 DEF Valid, SedTypeOK
  <1>6. ci <= Len(script) => Finds(script, Text)[ci][line_num].over
    <2>1. (deleted \/ quit) <=> Finds(script, Text)[ci][line_num].over  BY <1>1 DEF Running
    <2>2. QED  BY <1>5, <2>1 DEF Finished
  <1>7. CASE ci <= Len(script)
    <2>1. Finds(script, Text)[ci][line_num].over  BY <1>6, <1>7
    <2>2. /\ Idle(script, Text, line_num, ci)
          /\ Finds(script, Text)[Len(script) + 1][line_num] = Finds(script, Text)[ci][line_num]
      BY <1>3, <1>4, <1>5, <2>1, OverIsIdle
    <2>3. QED  BY <1>1, <1>2, <1>3, <1>4, <1>5, <1>6, <2>2
  <1>8. CASE ~(ci <= Len(script))
    <2>1. ci = Len(script) + 1  BY <1>5, <1>8
    <2>2. ci..Len(script) = {}  BY <1>5, <2>1
    <2>3. Idle(script, Text, line_num, ci)  BY <2>2 DEF Idle
    <2>4. QED  BY <1>1, <1>2, <1>3, <1>4, <1>5, <1>6, <2>1, <2>3
  <1>9. QED  BY <1>7, <1>8

\* What the cycle prints at its end is what the meaning has for the end of the line,
\* with the queues of the whole line; quit means that no later line is reached.
LEMMA LastPrintedIsAtEnd ==
    ASSUME JobAssumption, SedTypeOK, left \in Seq(FileNames), AsPlanned, Finished
    PROVE  /\ LastPrinted = AtEnd(script, Text, job.quiet, line_num)
           /\ quit <=> ~Reached(script, Text, line_num + 1)
           /\ out = Shown(line_num - 1) \o LineSays(script, Text, line_num, Len(script))
           /\ append_queue = LineAppends(script, Text, line_num, Len(script))
           /\ read_queue = LineReads(script, Text, Prior.disk, line_num, Len(script))
           /\ disk = Disk(line_num, Len(script))
PROOF
  <1> DEFINE n == Len(script)
             k == line_num
             s == script
             T == Text
             D == Prior.disk
             i == ci
             Q == job.quiet
  <1>1. /\ k \in 1..Len(T) /\ Running /\ AtLine
        /\ Valid(s) /\ Nil \notin Seq(Item) /\ D \in Disks /\ T \in Seq(Item)
        /\ i \in 1..(n + 1) /\ Idle(s, T, k, i)
        /\ Finds(s, T)[n + 1][k] = Finds(s, T)[i][k]
    BY FinishedFacts
  <1>2. n \in Nat /\ n = Len(s)  BY <1>1 DEF Valid
  <1>3. /\ LineSays(s, T, k, n) = LineSays(s, T, k, i - 1)
        /\ LineAppends(s, T, k, n) = LineAppends(s, T, k, i - 1)
        /\ LineReads(s, T, D, k, n) = LineReads(s, T, D, k, i - 1)
        /\ NewText(s, T, k, n) = NewText(s, T, k, i - 1)
        /\ DiskAt(s, T, D, k, n) = DiskAt(s, T, D, k, i - 1)
    <2>1. i \in 1..(Len(s) + 1)  BY <1>1
    <2>2. k \in 1..Len(T) /\ Valid(s) /\ Nil \notin Seq(Item) /\ D \in Disks /\ T \in Seq(Item) /\ Idle(s, T, k, i)
      BY <1>1
    <2> HIDE DEF k, s, T, D, i, n
    <2>3. QED  BY <1>2, <2>1, <2>2, IdleRest
  <1>4. ASSUME NEW t \in Types
        PROVE  Did(t) <=> \E j \in 1..n : Acts(s, T, t, k, j)
    <2>1. 1..n = (1..(i - 1)) \cup (i..n)  BY <1>1, <1>2
    <2>2. \A j \in i..n : ~Acts(s, T, t, k, j)  BY <1>1 DEF Idle
    <2>3. QED  BY <2>1, <2>2 DEF Did
  <1>5. "d" \in Types /\ "q" \in Types  BY DEF Types
  <1>6. deleted <=> \E j \in 1..n : Acts(s, T, "d", k, j)  BY <1>1, <1>4, <1>5 DEF Running
  <1>7. quit <=> \E j \in 1..n : Acts(s, T, "q", k, j)  BY <1>1, <1>4, <1>5 DEF Running
  <1>8. Reached(s, T, k)
    <2>1. phase = "run"  BY DEF Finished
    <2>2. QED  BY <1>1, <2>1 DEF AtLine
  <1>9. LastPrinted = AtEnd(s, T, Q, k)
    <2>1. LastPrinted = IF Q \/ deleted THEN <<>>
                        ELSE IF change_text # Nil THEN <<change_text>> ELSE pattern_space
      BY DEF LastPrinted
    <2>2. AtEnd(s, T, Q, k)
            = IF Q \/ ~Reached(s, T, k) \/ \E j \in 1..n : Acts(s, T, "d", k, j) THEN <<>>
              ELSE IF NewText(s, T, k, n) # Nil THEN <<NewText(s, T, k, n)>>
              ELSE Finds(s, T)[n + 1][k].space
      BY DEF AtEnd
    <2>3. change_text = NewText(s, T, k, n) /\ pattern_space = Finds(s, T)[n + 1][k].space
      BY <1>1, <1>3 DEF Running
    <2> HIDE DEF s, T, k, n, Q
    <2>4. QED  BY <1>6, <1>8, <2>1, <2>2, <2>3
  <1>10. quit <=> ~Reached(s, T, k + 1)
    <2>1. k \in Nat \ {0}  BY <1>1
    <2>2. Reached(s, T, k + 1)
            <=> /\ Reached(s, T, k)
                /\ \A j \in 1..Len(s) : s[j].type = "q" => ~Does(s[j], T, Finds(s, T)[j], k)
      BY <2>1, ReachedFacts, Zenon
    <2>3. \A j \in 1..n : Acts(s, T, "q", k, j) <=> s[j].type = "q" /\ Does(s[j], T, Finds(s, T)[j], k)
      BY <1>8 DEF Acts
    <2>4. QED  BY <1>7, <1>8, <2>2, <2>3
  <1>11. out = Shown(k - 1) \o LineSays(s, T, k, n)
    BY <1>1, <1>3 DEF Running
  <1>12. append_queue = LineAppends(s, T, k, n) /\ read_queue = LineReads(s, T, D, k, n)
    BY <1>1, <1>3 DEF Running
  <1>13. disk = Disk(k, n)
    BY <1>1, <1>3 DEF Running, Disk
  <1>14. QED  BY <1>9, <1>10, <1>11, <1>12, <1>13

\* The end of the cycle: the line's passage is shown, and the next one is read unless
\* sed quits.
LEMMA EndCycleByMeaning ==
    ASSUME JobAssumption, SedTypeOK, left \in Seq(FileNames), AsPlanned, EndCycle
    PROVE  AsPlanned'
PROOF
  <1> DEFINE n == Len(script)
             k == line_num
  <1>1. /\ job' = job /\ left' = left /\ Finished
        /\ phase' = IF quit THEN "eof" ELSE "read"
        /\ out' = out \o LastPrinted \o append_queue \o read_queue
        /\ disk' = disk /\ unread' = unread /\ line_num' = line_num /\ range_active' = range_active
    BY DEF EndCycle, Finished, cycle, edit
  <1>2. script' = script /\ Prior' = Prior /\ Path' = Path /\ Text' = Text /\ Lines' = Lines
    BY <1>1, SameText
  <1>3. /\ left # <<>> /\ Text # Nil /\ k \in 1..Lines /\ Running /\ AtLine
        /\ Valid(script) /\ Nil \notin Seq(Item) /\ Prior.disk \in Disks /\ Text \in Seq(Item)
        /\ Lines = Len(Text) /\ ci \in 1..(n + 1)
        /\ ci <= n => Finds(script, Text)[ci][k].over
    BY <1>1, FinishedFacts
  <1>4. /\ LastPrinted = AtEnd(script, Text, job.quiet, k)
        /\ quit <=> ~Reached(script, Text, k + 1)
        /\ out = Shown(k - 1) \o LineSays(script, Text, k, n)
        /\ append_queue = LineAppends(script, Text, k, n)
        /\ read_queue = LineReads(script, Text, Prior.disk, k, n)
        /\ disk = Disk(k, n)
    BY <1>1, LastPrintedIsAtEnd
  <1>5. k \in Nat \ {0} /\ k - 1 \in 0..Lines /\ k \in 0..Lines /\ n \in Nat /\ Lines \in Nat
    <2>1. n \in Nat /\ Lines \in Nat  BY <1>3 DEF Valid, Lines
    <2>2. QED  BY <1>3, <2>1
  <1>6. out' = Shown(k)
    <2> DEFINE S == Shown(k - 1)
               a == LineSays(script, Text, k, n)
               b == AtEnd(script, Text, job.quiet, k)
               c == LineAppends(script, Text, k, n)
               d == LineReads(script, Text, Prior.disk, k, n)
               P == Passage(script, Text, job.quiet, Prior.disk, k)
    <2>1. out' = (((S \o a) \o b) \o c) \o d  BY <1>1, <1>4
    <2>2. S \in Seq(Item) /\ Shown(k) = S \o P  BY <1>3, <1>5, ShownType, Zenon
    <2>3. b \in Seq(Item) /\ P = ((a \o b) \o c) \o d
      <3> DEFINE s == script
                 t == Text
                 q == job.quiet
                 D == Prior.disk
      <3>1. k \in 1..Len(t) /\ D \in Disks /\ Valid(s) /\ t \in Seq(Item) /\ Nil \notin Seq(Item)
        BY <1>3
      <3> HIDE DEF s, t, q, D, k
      <3>2. PassageIs(s, t, q, D, k)  BY <3>1, PassageFacts
      <3>3. QED  BY <3>2 DEF s, t, q, D, PassageIs
    <2>4. a \in Seq(Item) /\ c \in Seq(Item) /\ d \in Seq(Item)
      <3>1. n \in 0..Len(script) /\ k \in 1..Len(Text)  BY <1>3, <1>5
      <3>2. a \in Seq(Item)  BY <1>3, <3>1, LineSaysFacts
      <3>3. c \in Seq(Item)  BY <1>3, <3>1, LineAppendsFacts
      <3>4. d \in Seq(Item)  BY <1>3, <3>1, LineReadsFacts, Zenon
      <3>5. QED  BY <3>2, <3>3, <3>4
    <2> HIDE DEF S, a, b, c, d, P
    <2>5. GroupsFour(S, a, b, c, d)  BY <2>2, <2>3, <2>4, FourJoined
    <2>6. QED  BY <2>1, <2>2, <2>3, <2>5 DEF GroupsFour
  <1>7. CASE quit
    <2>1. ~Reached(script, Text, k + 1) /\ phase' = "eof"  BY <1>1, <1>4, <1>7
    <2>2. /\ Printed(script, Text, job.quiet, Prior.disk, Len(Text)) = Printed(script, Text, job.quiet, Prior.disk, k)
          /\ DiskAt(script, Text, Prior.disk, Len(Text), Len(script)) = DiskAt(script, Text, Prior.disk, k, Len(script))
      BY <1>3, <2>1, AfterQuit
    <2>3. Shown(Lines) = Shown(k) /\ Disk(Lines, n) = Disk(k, n)
      BY <1>3, <2>2 DEF Shown, Disk
    <2>4. Shown(Lines)' = Shown(Lines) /\ Disk(Lines, Len(script))' = Disk(Lines, n)
      BY <1>1, <1>2 DEF Shown, Disk
    <2>5. ReadThrough'
      BY <1>1, <1>4, <1>6, <2>1, <2>3, <2>4, Zenon DEF ReadThrough
    <2>6. AsPlanned /\ Text' # Nil  BY <1>2, <1>3
    <2>7. QED  BY <1>1, <2>1, <2>5, <2>6, Zenon DEF AsPlanned
  <1>8. CASE ~quit
    <2>1. Reached(script, Text, k + 1) /\ phase' = "read"  BY <1>1, <1>4, <1>8
    <2>2. AtLine'
      <3>1. unread' = SubSeq(Text', line_num' + 1, Lines')  BY <1>1, <1>2, <1>3 DEF AtLine
      <3>2. line_num' \in 0..Lines'  BY <1>1, <1>2, <1>5
      <3>3. QED  BY <1>1, <1>2, <2>1, <3>1, <3>2 DEF AtLine
    <2>3. ASSUME NEW j \in 1..n
          PROVE  range_active[j] <=> StaysOpen(script[j], Text, Finds(script, Text)[j],
                                               IF j < 1 THEN k + 1 ELSE (k + 1) - 1)
      <3> DEFINE R(m) == StaysOpen(script[j], Text, Finds(script, Text)[j], m)
      <3>1. range_active[j] <=> R(IF j < ci THEN k ELSE k - 1)  BY <1>3 DEF Running, Ranges
      <3>2. (IF j < 1 THEN k + 1 ELSE (k + 1) - 1) = k  BY <1>5, <2>3
      <3>3. CASE j < ci
        BY <3>1, <3>2, <3>3
      <3>4. CASE ~(j < ci)
        <4>1. ci <= n /\ j \in ci..(n + 1) /\ ci \in 1..(Len(script) + 1)  BY <1>3, <1>5, <2>3, <3>4
        <4>2. Finds(script, Text)[ci][k].over /\ k \in DOMAIN Text  BY <1>3, <4>1
        <4>3. Finds(script, Text)[j][k] = Finds(script, Text)[ci][k]
          <5>1. \A m \in ci..(Len(script) + 1) : Finds(script, Text)[m][k] = Finds(script, Text)[ci][k]
            <6> DEFINE s == script
                       t == Text
            <6>1. Valid(s) /\ t \in Seq(Item) /\ k \in DOMAIN t /\ ci \in 1..(Len(s) + 1) /\ Finds(s, t)[ci][k].over
              BY <1>3, <4>1, <4>2
            <6> HIDE DEF s, t, k
            <6>2. \A m \in ci..(Len(s) + 1) : Finds(s, t)[m][k] = Finds(s, t)[ci][k]
              BY <6>1, OverStays
            <6>3. QED  BY <6>2 DEF s, t
          <5>2. QED  BY <4>1, <5>1
        <4>4. R(k) <=> R(k - 1)
          <5> DEFINE found == Finds(script, Text)[j]
                     x == script[j]
                     t == Text
          <5>1. found[k].over  BY <4>2, <4>3
          <5> HIDE DEF k, found, x, t
          <5>2. StaysOpen(x, t, found, k) <=> StaysOpen(x, t, found, k - 1)
            <6>1. k \in Nat \ {0}  BY <1>5
            <6>2. QED  BY <5>1, <6>1, RangeFacts, Zenon
          <5>3. QED  BY <5>2 DEF found, x, t
        <4>5. range_active[j] <=> R(k - 1)  BY <3>1, <3>4
        <4> HIDE DEF R
        <4>6. range_active[j] <=> R(k)  BY <4>4, <4>5
        <4>7. QED  BY <3>2, <4>6 DEF R
      <3>5. QED  BY <3>3, <3>4
    <2>4. Ranges(line_num + 1, 1)'
      BY <1>1, <1>2, <2>3 DEF Ranges
    <2>5. Shown(line_num)' = Shown(k) /\ Disk(line_num, Len(script))' = Disk(k, n)
      BY <1>1, <1>2 DEF Shown, Disk
    <2>6. Reading'  BY <1>1, <1>4, <1>6, <2>4, <2>5, Zenon DEF Reading
    <2>7. AsPlanned /\ Text' # Nil  BY <1>2, <1>3
    <2>8. QED  BY <1>1, <2>1, <2>2, <2>6, <2>7, Zenon DEF AsPlanned
  <1>9. QED  BY <1>7, <1>8

\* A file that no w writes is as it was.
LEMMA Unwritten ==
    ASSUME NEW s, Valid(s), NEW text \in Seq(Item), NEW start \in Disks, Nil \notin Seq(Item),
           NEW f \in FileNames, \A i \in 1..Len(s) : s[i].type = "w" => s[i].file # f
    PROVE  DiskAt(s, text, start, Len(text), Len(s))[f] = start[f]
PROOF
  <1> DEFINE n == Len(s)
             l == Len(text)
             I(k, i) == InFile(s, text, start, f, k, i)
             S == {p \in (0..l) \X (0..n) : I(p[1], p[2]) = start[f]}
  <1>1. n \in Nat /\ l \in Nat  BY DEF Valid
  <1>2. \A k, i : i \in 1..n => ~NotesIn(s, text, f, k, i)  BY DEF NotesIn, Acts
  <1>3. /\ I(0, n) = start[f]
        /\ \A k \in 1..l : I(k, 0) = I(k - 1, n)
        /\ \A k \in 1..l : \A i \in 1..n : I(k, i) = I(k, i - 1)
    <2>1. I(0, n) = start[f]  BY InFileSteps, Zenon
    <2>2. \A k \in 1..l : I(k, 0) = I(k - 1, n)  BY InFileSteps, Zenon
    <2>3. ASSUME NEW k \in 1..l, NEW i \in 1..n
          PROVE  I(k, i) = IF NotesIn(s, text, f, k, i)
                           THEN Noted(s, text, start, f, k, i - 1) \o Finds(s, text)[i][k].space
                           ELSE I(k, i - 1)
      BY InFileSteps, Zenon
    <2>4. QED  BY <1>2, <2>1, <2>2, <2>3, Zenon
  <1> HIDE DEF n, l, I
  <1>4. \A k \in 0..l : \A i \in 0..n : <<k, i>> \in S <=> I(k, i) = start[f]  OBVIOUS
  <1>5. <<0, n>> \in S  BY <1>1, <1>3, <1>4
  <1>6. \A k \in 1..l : <<k - 1, n>> \in S => <<k, 0>> \in S
    <2>1. ASSUME NEW k \in 1..l, <<k - 1, n>> \in S  PROVE <<k, 0>> \in S
      <3>1. k - 1 \in 0..l /\ k \in 0..l /\ n \in 0..n /\ 0 \in 0..n  BY <1>1
      <3>2. I(k - 1, n) = start[f]  BY <1>4, <2>1, <3>1
      <3>3. QED  BY <1>3, <1>4, <3>1, <3>2
    <2>2. QED  BY <2>1
  <1>7. \A k \in 1..l : \A i \in 1..n : <<k, i - 1>> \in S => <<k, i>> \in S
    <2>1. ASSUME NEW k \in 1..l, NEW i \in 1..n, <<k, i - 1>> \in S  PROVE <<k, i>> \in S
      <3>1. k \in 0..l /\ i \in 0..n /\ i - 1 \in 0..n  BY <1>1
      <3>2. I(k, i - 1) = start[f]  BY <1>4, <2>1, <3>1
      <3>3. QED  BY <1>3, <1>4, <3>1, <3>2
    <2>2. QED  BY <2>1
  <1>8. I(l, n) = start[f]
    <2>1. CASE l = 0
      BY <1>3, <2>1
    <2>2. CASE l # 0
      <3> HIDE DEF S
      <3>1. \A k \in 1..l : \A i \in 0..n : <<k, i>> \in S
        BY <1>1, <1>5, <1>6, <1>7, EveryPair, Zenon
      <3>2. l \in 1..l /\ n \in 0..n /\ l \in 0..l  BY <1>1, <2>2
      <3>3. QED  BY <1>4, <3>1, <3>2, Zenon
    <2>3. QED  BY <2>1, <2>2
  <1>9. QED
    <2>1. DiskAt(s, text, start, l, n) = [g \in FileNames |-> InFile(s, text, start, g, l, n)]
      BY DiskIsInFile
    <2>2. QED  BY <1>8, <2>1 DEF I, l, n

\* A file that was read is still what it was, and its result is what comes after it.
LEMMA FileRead ==
    ASSUME JobAssumption, SedTypeOK, left \in Seq(FileNames), AsPlanned,
           phase \in {"eof", "backup", "replace"}
    PROVE  /\ left # <<>> /\ Text # Nil /\ ReadThrough
           /\ Disk(Lines, Len(script)) \in Disks /\ Disk(Lines, Len(script))[Path] = Text
           /\ Path \in FileNames /\ BackupName[Path] \in FileNames
           /\ AfterFile(job, Path, Prior)
                = IF job.inPlace
                  THEN [out |-> Shown(Lines),
                        disk |-> [Disk(Lines, Len(script)) EXCEPT ![BackupName[Path]] = Text,
                                                                  ![Path] = Shown(Lines)]]
                  ELSE [out |-> Shown(Lines), disk |-> Disk(Lines, Len(script))]
PROOF
  <1> DEFINE n == Len(script)
             result == Disk(Lines, n)
  <1>1. left # <<>> /\ Text # Nil /\ ReadThrough  BY DEF SedTypeOK, AsPlanned
  <1>2. /\ Valid(script) /\ Nil \notin Seq(Item) /\ Prior.disk \in Disks /\ Text \in Seq(Item)
        /\ Path \in FileNames /\ BackupName \in [FileNames -> FileNames] /\ Prior.out \in Seq(Item)
        /\ \E p \in 1..Len(job.paths) : Path = job.paths[p]
        /\ job.paths \in Seq(FileNames)
    BY <1>1, NextFacts, Zenon
  <1>3. Lines = Len(Text) /\ Lines \in Nat /\ n \in Nat /\ Lines \in 0..Lines /\ n \in 0..n
    BY <1>2 DEF Lines, Valid
  <1>4. result \in Disks
    <2>1. DiskAt(script, Text, Prior.disk, Len(Text), Len(script)) \in Disks
      BY <1>2, <1>3, DiskType
    <2>2. QED  BY <1>3, <2>1 DEF Disk
  <1>5. result[Path] = Text
    <2>1. \A i \in 1..n : script[i].type = "w" => script[i].file # Path
      <3>1. job \in Jobs  BY DEF SedTypeOK
      <3>2. DOMAIN script = 1..n  BY <1>2 DEF Valid
      <3>3. ASSUME NEW i \in 1..n, script[i].type = "w", NEW p \in DOMAIN job.paths
            PROVE  script[i].file # job.paths[p]
        BY <3>1, <3>2, <3>3 DEF JobAssumption, script
      <3>4. DOMAIN job.paths = 1..Len(job.paths)  BY <1>2
      <3>5. QED  BY <1>2, <3>3, <3>4, Zenon
    <2>2. DiskAt(script, Text, Prior.disk, Len(Text), Len(script))[Path] = Prior.disk[Path]
      <3> DEFINE s == script
                 t == Text
                 D == Prior.disk
                 f == Path
      <3>1. /\ Valid(s) /\ t \in Seq(Item) /\ D \in Disks /\ Nil \notin Seq(Item) /\ f \in FileNames
            /\ \A i \in 1..Len(s) : s[i].type = "w" => s[i].file # f
        BY <1>2, <2>1
      <3> HIDE DEF s, t, D, f
      <3>2. DiskAt(s, t, D, Len(t), Len(s))[f] = D[f]  BY <3>1, Unwritten
      <3>3. QED  BY <3>2 DEF s, t, D, f
    <2>3. QED  BY <1>3, <2>2 DEF Disk, Text
  <1>6. AfterFile(job, Path, Prior)
          = IF job.inPlace
            THEN [out |-> Shown(Lines),
                  disk |-> [result EXCEPT ![BackupName[Path]] = Text, ![Path] = Shown(Lines)]]
            ELSE [out |-> Shown(Lines), disk |-> result]
    <2> DEFINE printed == Printed(script, Text, job.quiet, Prior.disk, Lines)
    <2>1. AfterFile(job, Path, Prior)
            = IF job.inPlace
              THEN [out |-> printed, disk |-> [result EXCEPT ![BackupName[Path]] = Text, ![Path] = printed]]
              ELSE [out |-> Prior.out \o printed, disk |-> result]
      BY <1>1, <1>3 DEF AfterFile, Disk, Text, script
    <2>2. printed \in Seq(Item)
      <3> DEFINE s == script
                 t == Text
                 q == job.quiet
                 D == Prior.disk
      <3>1. Valid(s) /\ t \in Seq(Item) /\ D \in Disks /\ Nil \notin Seq(Item) /\ Lines = Len(t) /\ Lines \in 0..Len(t)
        BY <1>2, <1>3
      <3> HIDE DEF s, t, q, D
      <3>2. PrintsOn(s, t, q, D)  BY <3>1, PrintedFacts
      <3>3. Printed(s, t, q, D, Lines) \in Seq(Item)  BY <3>1, <3>2 DEF PrintsOn
      <3>4. QED  BY <3>3 DEF s, t, q, D
    <2>3. Shown(Lines) = (IF job.inPlace THEN <<>> ELSE Prior.out) \o printed  BY DEF Shown
    <2>4. <<>> \o printed = printed  BY <2>2, ConcatEmptySeq
    <2> HIDE DEF printed, result
    <2>5. CASE job.inPlace
      BY <2>1, <2>3, <2>4, <2>5
    <2>6. CASE ~job.inPlace
      BY <2>1, <2>3, <2>6
    <2>7. QED  BY <2>5, <2>6
  <1>7. BackupName[Path] \in FileNames  BY <1>2
  <1>8. QED  BY <1>1, <1>2, <1>4, <1>5, <1>6, <1>7

\* The end of the file: all lines are shown.
LEMMA EndOfFileByMeaning ==
    ASSUME JobAssumption, SedTypeOK, left \in Seq(FileNames), AsPlanned, EndOfFile
    PROVE  AsPlanned'
PROOF
  <1>1. /\ job' = job /\ left' = left /\ phase = "read" /\ unread = <<>> /\ phase' = "eof"
        /\ disk' = disk /\ out' = out
    BY DEF EndOfFile
  <1>2. script' = script /\ Prior' = Prior /\ Path' = Path /\ Text' = Text /\ Lines' = Lines
    BY <1>1, SameText
  <1>3. left # <<>> /\ Text # Nil /\ AtLine /\ Reading  BY <1>1 DEF SedTypeOK, AsPlanned
  <1>4. Text \in Seq(Item)  BY <1>3, NextFacts, Zenon
  <1>5. line_num = Lines
    <2>1. unread = SubSeq(Text, line_num + 1, Len(Text)) /\ line_num \in 0..Len(Text) /\ Lines = Len(Text)
      BY <1>3 DEF AtLine, Lines
    <2>2. QED  BY <1>1, <1>4, <2>1, AtLastLine
  <1>6. Shown(Lines)' = Shown(Lines) /\ Disk(Lines, Len(script))' = Disk(Lines, Len(script))
    BY <1>1, <1>2 DEF Shown, Disk
  <1>7. ReadThrough'  BY <1>1, <1>3, <1>5, <1>6 DEF Reading, ReadThrough
  <1>8. AsPlanned /\ Text' # Nil  BY <1>2, <1>3
  <1>9. QED  BY <1>1, <1>7, <1>8, Zenon DEF AsPlanned

\* Without -i the next file goes on from there.
LEMMA NextFileByMeaning ==
    ASSUME JobAssumption, SedTypeOK, left \in Seq(FileNames), AsPlanned, NextFile
    PROVE  AsPlanned'
PROOF
  <1>1. /\ job' = job /\ left' = Tail(left) /\ phase = "eof" /\ ~job.inPlace /\ phase' = "open"
        /\ disk' = disk /\ out' = out
    BY DEF NextFile
  <1>2. /\ left # <<>> /\ ReadThrough
        /\ AfterFile(job, Path, Prior) = [out |-> Shown(Lines), disk |-> Disk(Lines, Len(script))]
    BY <1>1, FileRead
  <1>3. out = Shown(Lines) /\ disk = Disk(Lines, Len(script))  BY <1>1, <1>2 DEF ReadThrough
  <1>4. QED  BY <1>1, <1>2, <1>3, FileDone

\* With -i the temporary file gets what was shown.
LEMMA FlushByMeaning ==
    ASSUME JobAssumption, SedTypeOK, left \in Seq(FileNames), AsPlanned, Plain, Flush
    PROVE  AsPlanned'
PROOF
  <1>1. /\ job' = job /\ left' = left /\ phase = "eof" /\ phase' = "backup" /\ temp' = out
        /\ disk' = disk /\ out' = out
    BY DEF Flush, Plain
  <1>2. script' = script /\ Prior' = Prior /\ Path' = Path /\ Text' = Text /\ Lines' = Lines
    BY <1>1, SameText
  <1>3. ReadThrough /\ Text # Nil  BY <1>1 DEF AsPlanned
  <1>4. Shown(Lines)' = Shown(Lines) /\ Disk(Lines, Len(script))' = Disk(Lines, Len(script))
    BY <1>1, <1>2 DEF Shown, Disk
  <1>5. ReadThrough'  BY <1>1, <1>3, <1>4 DEF ReadThrough
  <1>6. AsPlanned /\ Text' # Nil  BY <1>2, <1>3
  <1>7. QED  BY <1>1, <1>5, <1>6, Zenon DEF AsPlanned

\* The file gets its backup's name.
LEMMA BackUpByMeaning ==
    ASSUME JobAssumption, SedTypeOK, left \in Seq(FileNames), AsPlanned, Plain, BackUp
    PROVE  AsPlanned'
PROOF
  <1> DEFINE result == Disk(Lines, Len(script))
             b == BackupName[Path]
  <1>1. /\ job' = job /\ left' = left /\ phase = "backup" /\ phase' = "replace"
        /\ temp' = temp /\ out' = out /\ RenameOver(Path, b)
    BY DEF BackUp, edit
  <1>2. script' = script /\ Prior' = Prior /\ Path' = Path /\ Text' = Text /\ Lines' = Lines
    BY <1>1, SameText
  <1>3. ReadThrough /\ Text # Nil /\ result[Path] = Text
    BY <1>1, FileRead
  <1>4. out = Shown(Lines) /\ disk = result /\ temp = out  BY <1>1, <1>3 DEF ReadThrough
  <1>5. Shown(Lines)' = Shown(Lines) /\ Disk(Lines, Len(script))' = result
    BY <1>1, <1>2 DEF Shown, Disk
  <1>6. disk' = IF b = Path THEN result ELSE [result EXCEPT ![b] = Text, ![Path] = Nil]
    <2>1. \/ Path # b /\ disk[Path] # Nil /\ disk' = [disk EXCEPT ![b] = disk[Path], ![Path] = Nil]
          \/ (Path = b \/ disk[Path] = Nil) /\ disk' = disk
      BY <1>1 DEF RenameOver, Plain
    <2> HIDE DEF result, b
    <2>2. QED  BY <1>3, <1>4, <2>1
  <1>7. ReadThrough'  BY <1>1, <1>2, <1>4, <1>5, <1>6 DEF ReadThrough
  <1>8. AsPlanned /\ Text' # Nil  BY <1>2, <1>3
  <1>9. QED  BY <1>1, <1>7, <1>8, Zenon DEF AsPlanned

\* Writing to a twice is writing the second time.
Overwritten(R, a, b, x, y, z) ==
    [(IF b = a THEN R ELSE [R EXCEPT ![b] = x, ![a] = y]) EXCEPT ![a] = z]
        = [R EXCEPT ![b] = x, ![a] = z]

\* Giving one name up and writing both again is writing both.
LEMMA OverwrittenFacts ==
    ASSUME NEW S, NEW T, NEW R \in [S -> T], NEW a \in S, NEW b \in S, NEW x, NEW y, NEW z
    PROVE  Overwritten(R, a, b, x, y, z)
PROOF
  <1> DEFINE L == [(IF b = a THEN R ELSE [R EXCEPT ![b] = x, ![a] = y]) EXCEPT ![a] = z]
             M == [R EXCEPT ![b] = x, ![a] = z]
             V(f) == IF f = a THEN z ELSE IF f = b THEN x ELSE R[f]
  <1>1. CASE b = a
    <2>1. L = [R EXCEPT ![a] = z]  BY <1>1
    <2>2. L = [f \in S |-> V(f)]  BY <1>1, <2>1, Zenon
    <2>3. M = [f \in S |-> V(f)]  BY <1>1, Zenon
    <2>4. QED  BY <2>2, <2>3 DEF Overwritten
  <1>2. CASE b # a
    <2>1. L = [[R EXCEPT ![b] = x, ![a] = y] EXCEPT ![a] = z]  BY <1>2
    <2>2. L = [f \in S |-> V(f)]  BY <1>2, <2>1, Zenon
    <2>3. M = [f \in S |-> V(f)]  BY <1>2, Zenon
    <2>4. QED  BY <2>2, <2>3 DEF Overwritten
  <1>3. QED  BY <1>1, <1>2

\* The temporary file gets the file's name; that makes what the meaning leaves.
LEMMA ReplaceByMeaning ==
    ASSUME JobAssumption, SedTypeOK, left \in Seq(FileNames), AsPlanned, Plain, Replace, job.inPlace
    PROVE  AsPlanned'
PROOF
  <1> DEFINE result == Disk(Lines, Len(script))
             b == BackupName[Path]
             shown == Shown(Lines)
  <1>1. /\ job' = job /\ left' = Tail(left) /\ phase = "replace" /\ phase' = "open"
        /\ disk' = [disk EXCEPT ![Path] = temp] /\ out' = out
    BY DEF Replace, Plain
  <1>2. /\ ReadThrough /\ left # <<>> /\ result \in Disks /\ Path \in FileNames /\ b \in FileNames
        /\ AfterFile(job, Path, Prior)
             = [out |-> shown, disk |-> [result EXCEPT ![b] = Text, ![Path] = shown]]
    BY <1>1, FileRead
  <1>3. /\ out = shown /\ temp = out
        /\ disk = IF b = Path THEN result ELSE [result EXCEPT ![b] = Text, ![Path] = Nil]
    BY <1>1, <1>2 DEF ReadThrough
  <1>4. disk' = [result EXCEPT ![b] = Text, ![Path] = shown]
    <2> DEFINE P == Path
               T == Text
    <2>1. P \in FileNames /\ b \in FileNames /\ result \in [FileNames -> Seq(Item) \cup {Nil}]
      BY <1>2 DEF Disks
    <2>2. /\ disk' = [disk EXCEPT ![P] = shown]
          /\ disk = IF b = P THEN result ELSE [result EXCEPT ![b] = T, ![P] = Nil]
      BY <1>1, <1>3
    <2> HIDE DEF result, b, P, T, shown
    <2>3. Overwritten(result, P, b, T, Nil, shown)  BY <2>1, OverwrittenFacts, Zenon
    <2>4. disk' = [result EXCEPT ![b] = T, ![P] = shown]  BY <2>2, <2>3 DEF Overwritten
    <2>5. QED  BY <2>4 DEF P, T
  <1>5. QED
    <2> DEFINE D == [result EXCEPT ![b] = Text, ![Path] = shown]
    <2>1. AfterFile(job, Path, Prior) = [out |-> shown, disk |-> D] /\ disk' = D  BY <1>2, <1>4
    <2> HIDE DEF D, shown
    <2>2. AfterFile(job, Path, Prior).out = shown /\ AfterFile(job, Path, Prior).disk = D  BY <2>1
    <2>3. QED  BY <1>1, <1>2, <1>3, <2>1, <2>2, FileDone, Zenon

----------------------------------------------------------------------------
\* The invariant holds before the first file,
LEMMA ByMeaningInit ==
    ASSUME JobAssumption, SedInit
    PROVE  ByMeaning
PROOF
  <1> DEFINE n == Len(job.paths)
  <1>1. job \in Jobs /\ disk = job.files /\ left = job.paths /\ phase = "open" /\ out = <<>>
    BY DEF SedInit
  <1>2. /\ Valid(job.script) /\ job.files \in Disks /\ job.paths \in Seq(FileNames)
        /\ Nil \notin Seq(Item)
    BY <1>1, JobFacts
  <1>3. n \in Nat /\ SubSeq(job.paths, 1, n) = job.paths  BY <1>2, SubSeqFull
  <1>4. After(job)[0] = AtStart(job)
    <2>1. BackupName \in [FileNames -> FileNames]  BY DEF JobAssumption
    <2>2. QED  BY <1>2, <2>1, AfterFacts
  <1>5. Prior = AtStart(job)
    <2>1. Len(job.paths) - Len(left) = 0  BY <1>1, <1>3
    <2>2. QED  BY <1>4, <2>1, Zenon DEF Prior
  <1>6. Between  BY <1>1, <1>5 DEF Between, AtStart
  <1>7. left = SubSeq(job.paths, n - Len(left) + 1, n) /\ Len(left) <= n
    <2>1. n - Len(left) + 1 = 1  BY <1>1, <1>3
    <2>2. QED  BY <1>1, <1>3, <2>1
  <1>8. QED  BY <1>1, <1>6, <1>7 DEF ByMeaning, AsPlanned

\* is kept by every step,
LEMMA ByMeaningNext ==
    ASSUME JobAssumption, EditInv, ByMeaning, [SedNext]_sedVars
    PROVE  ByMeaning'
PROOF
  <1>1. SedTypeOK /\ left \in Seq(FileNames) /\ (phase \in {"backup", "replace"} => job.inPlace)
    BY DEF EditInv, Shape
  <1>2. job' = job
    BY DEF SedNext, Files, Open, Passes, Return, EndOfFile, NextFile, ReadLine, ReadError, EndCycle,
           InPlace, Flush, BackUp, Replace, Kill, SedTerminated, sedVars, ScriptStep, Skip, Prints, Substitute,
           Transliterate, Delete, Quit, AppendText, Change, NextLine, NextAppend, WriteTo, ReadFrom, At
  <1>3. SUFFICES ASSUME Plain PROVE AsPlanned'
    <2>1. Plain' => Plain  BY <1>2 DEF Plain, Uses, script
    <2>2. QED  BY <2>1 DEF ByMeaning
  <1>4. AsPlanned  BY <1>3 DEF ByMeaning
  <1>5. CASE Open        BY <1>1, <1>4, <1>5, OpenByMeaning
  <1>6. CASE Passes      BY <1>1, <1>3, <1>4, <1>6, PassesByMeaning
  <1>7. CASE Return      BY <1>4, <1>7, ReturnByMeaning
  <1>8. CASE EndOfFile   BY <1>1, <1>4, <1>8, EndOfFileByMeaning
  <1>9. CASE NextFile    BY <1>1, <1>4, <1>9, NextFileByMeaning
  <1>10. CASE ReadLine   BY <1>1, <1>4, <1>10, ReadLineByMeaning
  <1>11. CASE ScriptStep
    <2>1. Looked /\ CarriesOn /\ DoesByMeaning  BY <1>1, <1>3, <1>4, <1>11, ScriptStepByMeaning
    <2>2. QED  BY <1>1, <1>4, <2>1, CommandStep
  <1>12. CASE EndCycle   BY <1>1, <1>4, <1>12, EndCycleByMeaning
  <1>13. CASE Flush      BY <1>1, <1>3, <1>4, <1>13, FlushByMeaning
  <1>14. CASE BackUp     BY <1>1, <1>3, <1>4, <1>14, BackUpByMeaning
  <1>15. CASE Replace
    <2>1. job.inPlace  BY <1>1, <1>15 DEF Replace
    <2>2. QED  BY <1>1, <1>3, <1>4, <1>15, <2>1, ReplaceByMeaning
  <1>16. ~Kill /\ ~ReadError  BY <1>3 DEF Kill, ReadError, Plain
  <1>17. CASE UNCHANGED sedVars
    BY <1>4, <1>17, ZenonT(30)
    DEF sedVars, cycle, queues, edit, AsPlanned, Between, Prior, Text, Path, Lines, AtLine, Reading, Ranges,
        Shown, Disk, Running, Did, ReadThrough, script
  <1>18. QED
    BY <1>5, <1>6, <1>7, <1>8, <1>9, <1>10, <1>11, <1>12, <1>13, <1>14, <1>15, <1>16, <1>17
    DEF SedNext, Files, InPlace, SedTerminated

\* and says at the end what LineByLine does.
LEMMA ByMeaningIsLineByLine ==
    ASSUME JobAssumption, EditInv, ByMeaning
    PROVE  LineByLine
PROOF
  <1>1. SUFFICES ASSUME phase = "done", ~job.mishaps, ~Uses({"n", "N"})
                 PROVE  LET end == After(job)[Len(job.paths)] IN out = end.out /\ disk = end.disk
    BY DEF LineByLine
  <1>2. AsPlanned  BY <1>1 DEF ByMeaning, Plain
  <1>3. left = <<>> /\ Between  BY <1>1, <1>2 DEF AsPlanned
  <1>4. Len(job.paths) \in Nat
    <2>1. job.paths \in Seq(FileNames)  BY DEF EditInv, SedTypeOK, JobAssumption
    <2>2. QED  BY <2>1
  <1>5. Len(job.paths) - Len(left) = Len(job.paths)  BY <1>3, <1>4
  <1>6. QED  BY <1>3, <1>5 DEF Between, Prior

----------------------------------------------------------------------------
(***************************************************************************)
(* With n and N, which the meaning, line by line, does not cover: what is  *)
(* printed of the files' lines so far is all before this file, and of this *)
(* file all before the lines in hand.                                      *)
(***************************************************************************)
FileNumber == Len(job.paths) - Len(left) + 1
OpenText == TextOf(FileNumber)

\* What is printed of file p.
Gives(p, lines) == lines \in Twice(TextOf(p)) /\ (~Uses({"n"}) => lines = TextOf(p))

\* For each file, what is printed of it.
Given ==
    {parts \in [DOMAIN job.paths -> UNION {Twice(TextOf(p)) : p \in DOMAIN job.paths}] :
        \A p \in DOMAIN job.paths : Gives(p, parts[p])}

\* That much of the files before this one, and then more.
Told(lines, more) == \E parts \in Given : Among(lines, OwnLines) = Pieces(parts, FileNumber - 1) \o more

\* Line a of the open file is the last that was printed, and b the last that was read.
Holding(a, b) ==
    /\ pattern_space = SubSeq(OpenText, a + 1, b)
    /\ unread = SubSeq(OpenText, b + 1, Len(OpenText))
    /\ \/ Told(out, SubSeq(OpenText, 1, a)) /\ (quit => unread = <<>>)
       \/ quit /\ unread = <<>> /\ Uses({"n"}) /\ Told(out, OpenText)

\* What is printed and read when no line is deleted, changed or copied.
InOrder ==
    /\ Len(left) <= Len(job.paths)
    /\ left = SubSeq(job.paths, FileNumber, Len(job.paths))
    /\ \A p \in DOMAIN job.paths : disk[job.paths[p]] = job.files[job.paths[p]]
    /\ out \in Seq(Item) /\ append_queue \in Seq(InsertedTexts) /\ read_queue = <<>>
    /\ phase \in {"open", "done"} => Told(out, <<>>)
    /\ phase = "done" => left = <<>>
    /\ phase = "read" =>
          \E a \in 0..Len(OpenText) :
             unread = SubSeq(OpenText, a + 1, Len(OpenText)) /\ Told(out, SubSeq(OpenText, 1, a))
    /\ phase = "run" =>
          /\ ~deleted /\ change_text = Nil
          /\ \E a \in 0..Len(OpenText) : \E b \in a..Len(OpenText) : Holding(a, b)
    /\ phase = "eof" => \E lines : Gives(FileNumber, lines) /\ Told(out, lines)

ByOrder == KeepsLines => InOrder
----------------------------------------------------------------------------
\* The rest of a sequence.
LEMMA RestFacts ==
    ASSUME NEW T, NEW P \in Seq(T), NEW r \in Seq(T), Len(r) <= Len(P), r # <<>>,
           r = SubSeq(P, Len(P) - Len(r) + 1, Len(P))
    PROVE  /\ Len(P) - Len(r) + 1 \in 1..Len(P) /\ Head(r) = P[Len(P) - Len(r) + 1]
           /\ Tail(r) \in Seq(T) /\ Len(Tail(r)) = Len(r) - 1
           /\ Tail(r) = SubSeq(P, Len(P) - Len(Tail(r)) + 1, Len(P))
PROOF
  <1> DEFINE n == Len(P)
             q == n - Len(r) + 1
  <1>1. n \in Nat /\ Len(r) \in Nat \ {0}  BY EmptySeq
  <1>2. Tail(r) \in Seq(T) /\ Len(Tail(r)) = Len(r) - 1  BY HeadTailProperties
  <1>3. q \in 1..n /\ n \in q..n /\ n - (Len(r) - 1) + 1 = q + 1  BY <1>1
  <1>4. r = SubSeq(P, q, n)  OBVIOUS
  <1> HIDE DEF n, q
  <1>5. Head(r) = P[q] /\ Tail(r) = SubSeq(P, q + 1, n)
    <2>1. q \in 1..Len(P) /\ n \in q..Len(P)  BY <1>3 DEF n
    <2>2. Head(SubSeq(P, q, n)) = P[q] /\ Tail(SubSeq(P, q, n)) = SubSeq(P, q + 1, n)
      BY <2>1, HeadTailOfSubSeq
    <2>3. QED  BY <1>4, <2>2, Zenon
  <1>6. QED  BY <1>2, <1>3, <1>5 DEF n, q

\* What depends on the command line only.
LEMMA SameFiles ==
    ASSUME job' = job
    PROVE  /\ OwnLines' = OwnLines /\ InsertedTexts' = InsertedTexts /\ Given' = Given
           /\ (KeepsLines' <=> KeepsLines) /\ (Uses({"n"})' <=> Uses({"n"}))
           /\ \A p : TextOf(p)' = TextOf(p)
           /\ \A p, x : Gives(p, x)' <=> Gives(p, x)
           /\ left' = left => FileNumber' = FileNumber /\ OpenText' = OpenText
PROOF
  <1>1. script' = script  BY DEF script
  <1>2. \A p : TextOf(p)' = TextOf(p)  BY DEF TextOf
  <1>3. OwnLines' = OwnLines  BY DEF OwnLines, TextOf
  <1>4. InsertedTexts' = InsertedTexts  BY <1>1 DEF InsertedTexts
  <1>5. Uses({"n"})' <=> Uses({"n"})  BY <1>1 DEF Uses
  <1>6. KeepsLines' <=> KeepsLines  BY <1>1, <1>3, <1>4 DEF KeepsLines, Uses
  <1>7. \A p, x : Gives(p, x)' <=> Gives(p, x)  BY <1>5 DEF Gives, TextOf
  <1>8. Given' = Given  BY <1>1 DEF Given, Gives, TextOf, Uses
  <1>9. left' = left => FileNumber' = FileNumber /\ OpenText' = OpenText
    BY DEF FileNumber, OpenText, TextOf
  <1>10. QED  BY <1>2, <1>3, <1>4, <1>5, <1>6, <1>7, <1>8, <1>9

\* The texts, and what is printed of them.
LEMMA TextFacts ==
    ASSUME JobAssumption, job \in Jobs
    PROVE  /\ Valid(script) /\ job.paths \in Seq(FileNames) /\ Nil \notin Seq(Item)
           /\ DOMAIN job.paths = 1..Len(job.paths) /\ Len(job.paths) \in Nat
           /\ OwnLines \subseteq Texts /\ InsertedTexts \subseteq Texts
           /\ \A p \in DOMAIN job.paths : TextOf(p) \in Seq(OwnLines)
           /\ \A p \in DOMAIN job.paths : Twice(TextOf(p)) \subseteq Seq(OwnLines)
           /\ Given \subseteq [1..Len(job.paths) -> Seq(OwnLines)]
PROOF
  <1>1. Valid(script) /\ job.paths \in Seq(FileNames) /\ Nil \notin Seq(Item)
    BY JobFacts DEF script
  <1>2. DOMAIN job.paths = 1..Len(job.paths) /\ Len(job.paths) \in Nat
        /\ \A p \in DOMAIN job.paths : job.paths[p] \in FileNames
    BY <1>1
  <1>3. ASSUME NEW p \in DOMAIN job.paths  PROVE TextOf(p) \in Seq(Texts)
    <2>1. job.paths[p] \in FileNames  BY <1>2
    <2>2. job.files[job.paths[p]] = Nil \/ job.files[job.paths[p]] \in Seq(Texts)
      BY <2>1 DEF JobAssumption
    <2>3. <<>> \in Seq(Texts)  OBVIOUS
    <2>4. QED  BY <2>2, <2>3 DEF TextOf, Held
  <1>4. OwnLines \subseteq Texts
    <2>1. ASSUME NEW p \in DOMAIN job.paths, NEW k \in DOMAIN TextOf(p)  PROVE TextOf(p)[k] \in Texts
      BY <1>3
    <2>2. QED  BY <2>1 DEF OwnLines
  <1>5. InsertedTexts \subseteq Texts
    BY <1>1 DEF InsertedTexts, Valid
  <1>6. ASSUME NEW p \in DOMAIN job.paths  PROVE TextOf(p) \in Seq(OwnLines)
    <2> DEFINE t == TextOf(p)
    <2>1. t \in Seq(Texts) /\ DOMAIN t = 1..Len(t) /\ Len(t) \in Nat  BY <1>3
    <2>2. \A k \in DOMAIN t : t[k] \in OwnLines  BY DEF OwnLines
    <2>3. t = [k \in 1..Len(t) |-> t[k]]  BY <2>1
    <2> HIDE DEF t
    <2>4. t \in [1..Len(t) -> OwnLines]  BY <2>1, <2>2, <2>3
    <2>5. t \in Seq(OwnLines)  BY <2>1, <2>4, IsASeq
    <2>6. QED  BY <2>5 DEF t
  <1>7. ASSUME NEW p \in DOMAIN job.paths  PROVE Twice(TextOf(p)) \subseteq Seq(OwnLines)
    <2> DEFINE t == TextOf(p)
    <2>1. t \in Seq(OwnLines) /\ Len(t) \in Nat  BY <1>6
    <2> HIDE DEF t
    <2>2. ASSUME NEW k \in 1..(Len(t) + 1)  PROVE t \o SubSeq(t, k, Len(t)) \in Seq(OwnLines)
      <3>1. \A i \in k..Len(t) : t[i] \in OwnLines  BY <2>1
      <3>2. SubSeq(t, k, Len(t)) \in Seq(OwnLines)
        <4>1. k \in Int /\ Len(t) \in Int  BY <2>1
        <4>2. QED  BY <3>1, <4>1, SubSeqProperties
      <3>3. QED  BY <2>1, <3>2, ConcatProperties
    <2>3. ASSUME NEW x \in Twice(t)  PROVE x \in Seq(OwnLines)
      <3>1. PICK k \in 1..(Len(t) + 1) : x = t \o SubSeq(t, k, Len(t))  BY Zenon DEF Twice
      <3>2. QED  BY <2>2, <3>1
    <2>4. QED  BY <2>3 DEF t
  <1>8. Given \subseteq [1..Len(job.paths) -> Seq(OwnLines)]
    <2>1. ASSUME NEW parts \in Given  PROVE parts \in [1..Len(job.paths) -> Seq(OwnLines)]
      <3>1. /\ parts = [p \in DOMAIN job.paths |-> parts[p]]
            /\ \A p \in DOMAIN job.paths : parts[p] \in Twice(TextOf(p))
        BY DEF Given, Gives
      <3>2. \A p \in DOMAIN job.paths : parts[p] \in Seq(OwnLines)  BY <1>7, <3>1, Zenon
      <3>3. QED  BY <1>2, <3>1, <3>2, Zenon
    <2>2. QED  BY <2>1
  <1>9. QED  BY <1>1, <1>2, <1>4, <1>5, <1>6, <1>7, <1>8

\* Printing more of the open file's lines, or what is no line of a file.
LEMMA TellsMore ==
    ASSUME JobAssumption, job \in Jobs, FileNumber - 1 \in 0..Len(job.paths),
           NEW lines \in Seq(Item), NEW more \in Seq(OwnLines), NEW x \in Seq(Item), Told(lines, more)
    PROVE  Told(lines \o x, more \o Among(x, OwnLines))
PROOF
  <1> DEFINE S == OwnLines
  <1>1. PICK parts \in Given : Among(lines, S) = Pieces(parts, FileNumber - 1) \o more
    BY Zenon DEF Told
  <1>2. parts \in [1..Len(job.paths) -> Seq(S)] /\ Len(job.paths) \in Nat  BY TextFacts, Zenon
  <1>3. Pieces(parts, FileNumber - 1) \in Seq(S)  BY <1>2, PiecesFacts, Zenon
  <1>4. S \subseteq Item  BY TextFacts DEF Item
  <1> DEFINE P == Pieces(parts, FileNumber - 1)
             y == Among(x, S)
  <1>5. y \in Seq(Item) /\ P \in Seq(Item) /\ more \in Seq(Item)
    <2>1. Seq(S) \subseteq Seq(Item)  BY <1>4, SeqMonotonic
    <2>2. y \in Seq(Item)  BY AmongFacts
    <2>3. QED  BY <1>3, <2>1, <2>2
  <1>6. AmongJoins(lines, x, S)  BY AmongJoined
  <1>7. Among(lines \o x, S) = (P \o more) \o y  BY <1>1, <1>6 DEF AmongJoins
  <1> HIDE DEF P, y, S
  <1>8. Groups(P, more, y)  BY <1>5, Grouped
  <1>9. QED  BY <1>7, <1>8, Zenon DEF Told, P, y, S, Groups

\* The open file, and the rest of the command line.
LEMMA OpenFacts ==
    ASSUME JobAssumption, job \in Jobs, left \in Seq(FileNames), InOrder, left # <<>>
    PROVE  /\ FileNumber \in DOMAIN job.paths /\ FileNumber \in 1..Len(job.paths)
           /\ FileNumber - 1 \in 0..Len(job.paths) /\ Len(job.paths) \in Nat /\ Len(left) \in Nat
           /\ Path = job.paths[FileNumber] /\ disk[Path] = job.files[Path]
           /\ OpenText \in Seq(OwnLines) /\ Len(OpenText) \in Nat
           /\ OpenText = IF disk[Path] = Nil THEN <<>> ELSE disk[Path]
           /\ Tail(left) \in Seq(FileNames) /\ Len(Tail(left)) = Len(left) - 1
           /\ Tail(left) = SubSeq(job.paths, Len(job.paths) - Len(Tail(left)) + 1, Len(job.paths))
PROOF
  <1>1. /\ job.paths \in Seq(FileNames) /\ DOMAIN job.paths = 1..Len(job.paths) /\ Len(job.paths) \in Nat
    BY TextFacts
  <1>2. /\ Len(left) <= Len(job.paths)
        /\ left = SubSeq(job.paths, Len(job.paths) - Len(left) + 1, Len(job.paths))
    BY Zenon DEF InOrder, FileNumber
  <1>3. /\ FileNumber \in 1..Len(job.paths) /\ Head(left) = job.paths[FileNumber]
        /\ Tail(left) \in Seq(FileNames) /\ Len(Tail(left)) = Len(left) - 1
        /\ Tail(left) = SubSeq(job.paths, Len(job.paths) - Len(Tail(left)) + 1, Len(job.paths))
    <2> DEFINE P == job.paths
    <2>1. P \in Seq(FileNames) /\ Len(left) <= Len(P) /\ left = SubSeq(P, Len(P) - Len(left) + 1, Len(P))
      BY <1>1, <1>2, Zenon
    <2> HIDE DEF P
    <2>2. /\ Len(P) - Len(left) + 1 \in 1..Len(P) /\ Head(left) = P[Len(P) - Len(left) + 1]
          /\ Tail(left) \in Seq(FileNames) /\ Len(Tail(left)) = Len(left) - 1
          /\ Tail(left) = SubSeq(P, Len(P) - Len(Tail(left)) + 1, Len(P))
      BY <2>1, RestFacts
    <2>3. QED  BY <2>2, Zenon DEF P, FileNumber
  <1>4. FileNumber \in DOMAIN job.paths /\ FileNumber - 1 \in 0..Len(job.paths)  BY <1>1, <1>3
  <1>5. Path = job.paths[FileNumber]  BY <1>3 DEF Path
  <1>6. disk[Path] = job.files[Path]  BY <1>4, <1>5, Zenon DEF InOrder
  <1>7. OpenText \in Seq(OwnLines)  BY <1>4, TextFacts DEF OpenText
  <1>8. OpenText = IF disk[Path] = Nil THEN <<>> ELSE disk[Path]
    BY <1>5, <1>6 DEF OpenText, TextOf, Held
  <1>9. Len(OpenText) \in Nat /\ Len(left) \in Nat  BY <1>7
  <1>10. QED  BY <1>1, <1>3, <1>4, <1>5, <1>6, <1>7, <1>8, <1>9, Zenon

\* To print a file as it is is one way to give it.
LEMMA TextGiven ==
    ASSUME NEW p, NEW S, TextOf(p) \in Seq(S)
    PROVE  Gives(p, TextOf(p))
PROOF
  <1> DEFINE t == TextOf(p)
  <1>1. Len(t) \in Nat /\ Len(t) + 1 \in 1..(Len(t) + 1)  OBVIOUS
  <1>2. SubSeq(t, Len(t) + 1, Len(t)) = <<>>  BY <1>1, SubSeqEmpty
  <1>3. t \o <<>> = t  BY ConcatEmptySeq
  <1>4. t \in Twice(t)  BY <1>1, <1>2, <1>3 DEF Twice
  <1>5. QED  BY <1>4 DEF Gives

\* One file after the other.
LEMMA OrderedFileDone ==
    ASSUME JobAssumption, job \in Jobs, left \in Seq(FileNames), InOrder, left # <<>>,
           job' = job, left' = Tail(left), phase' = "open", disk' = disk, out' = out,
           append_queue' = append_queue, read_queue' = read_queue,
           NEW lines, Gives(FileNumber, lines), Told(out, lines)
    PROVE  InOrder'
PROOF
  <1> DEFINE n == Len(job.paths)
             m == FileNumber
             S == OwnLines
  <1>1. PICK parts \in Given : Among(out, S) = Pieces(parts, m - 1) \o lines  BY Zenon DEF Told
  <1>2. /\ m \in 1..n /\ m \in DOMAIN job.paths /\ m - 1 \in 0..n /\ n \in Nat /\ Len(left) \in Nat
        /\ Len(Tail(left)) = Len(left) - 1
        /\ Tail(left) = SubSeq(job.paths, n - Len(Tail(left)) + 1, n)
    BY OpenFacts, Zenon
  <1>3. DOMAIN job.paths = 1..n /\ Given \subseteq [1..n -> Seq(S)]  BY TextFacts
  <1> DEFINE Q == [parts EXCEPT ![m] = lines]
  <1>4. parts \in [1..n -> Seq(S)]  BY <1>3
  <1>5. Q \in Given
    <2>1. /\ \A p \in DOMAIN job.paths : Gives(p, parts[p])
          /\ parts \in [DOMAIN job.paths -> UNION {Twice(TextOf(p)) : p \in DOMAIN job.paths}]
      BY DEF Given
    <2>2. lines \in UNION {Twice(TextOf(p)) : p \in DOMAIN job.paths}  BY <1>2 DEF Gives
    <2>3. Q \in [DOMAIN job.paths -> UNION {Twice(TextOf(p)) : p \in DOMAIN job.paths}]
      BY <1>2, <2>1, <2>2, Zenon
    <2>4. \A p \in DOMAIN job.paths : Q[p] = IF p = m THEN lines ELSE parts[p]  BY <2>1
    <2>5. \A p \in DOMAIN job.paths : Gives(p, Q[p])  BY <2>1, <2>4
    <2>6. QED  BY <2>3, <2>5, Zenon DEF Given
  <1>6. lines \in Seq(S)
    <2>1. lines \in Twice(TextOf(m)) /\ Twice(TextOf(m)) \subseteq Seq(S)
      BY <1>2, TextFacts, Zenon DEF Gives
    <2>2. QED  BY <2>1
  <1>7. Pieces(Q, m) = Pieces(parts, m - 1) \o lines /\ Pieces(parts, m - 1) \in Seq(S)
    <2> HIDE DEF n, m, S
    <2>1. QED  BY <1>2, <1>4, <1>6, PiecesExcept, Zenon
  <1> HIDE DEF Q
  <1>8. Pieces(Q, m) \o <<>> = Pieces(Q, m)
    <2>1. Pieces(Q, m) \in Seq(S)  BY <1>6, <1>7, ConcatProperties
    <2>2. QED  BY <2>1, ConcatEmptySeq
  <1>9. Among(out, S) = Pieces(Q, m) \o <<>>  BY <1>1, <1>7, <1>8
  <1>10. OwnLines' = OwnLines /\ Given' = Given /\ InsertedTexts' = InsertedTexts  BY SameFiles
  <1>11. FileNumber' = m + 1 /\ FileNumber' - 1 = m
    <2>1. FileNumber' = n - Len(Tail(left)) + 1  BY DEF FileNumber
    <2>2. m = n - Len(left) + 1  BY DEF FileNumber
    <2> HIDE DEF m, n
    <2>3. QED  BY <1>2, <2>1, <2>2
  <1>12. Told(out, <<>>)'
    <2>1. Told(out, <<>>)' <=> \E ps \in Given' : Among(out', OwnLines') = Pieces(ps, FileNumber' - 1) \o <<>>
      BY DEF Told
    <2>2. QED  BY <1>5, <1>9, <1>10, <1>11, <2>1
  <1>13. (Len(left) <= Len(job.paths))' /\ (left = SubSeq(job.paths, FileNumber, Len(job.paths)))'
    <2>1. Len(left) <= n  BY DEF InOrder
    <2>2. Len(Tail(left)) <= n  BY <1>2, <2>1
    <2>3. FileNumber' = n - Len(Tail(left)) + 1  BY DEF FileNumber
    <2>4. QED  BY <1>2, <2>2, <2>3, Zenon
  <1>14. (\A p \in DOMAIN job.paths : disk[job.paths[p]] = job.files[job.paths[p]])'
    BY DEF InOrder
  <1>15. (out \in Seq(Item) /\ append_queue \in Seq(InsertedTexts) /\ read_queue = <<>>)'
    BY <1>10 DEF InOrder
  <1>16. QED  BY <1>12, <1>13, <1>14, <1>15, Zenon DEF InOrder

\* What stays of it while one file is read.
LEMMA StillInOrder ==
    ASSUME InOrder, job' = job, left' = left,
           \A p \in DOMAIN job.paths : disk'[job.paths[p]] = disk[job.paths[p]]
    PROVE  /\ (Len(left) <= Len(job.paths))' /\ (left = SubSeq(job.paths, FileNumber, Len(job.paths)))'
           /\ (\A p \in DOMAIN job.paths : disk[job.paths[p]] = job.files[job.paths[p]])'
           /\ \A lines, more : Told(lines, more)' <=> Told(lines, more)
PROOF
  <1>1. FileNumber' = FileNumber /\ OwnLines' = OwnLines /\ Given' = Given  BY SameFiles
  <1>2. (Len(left) <= Len(job.paths))' /\ (left = SubSeq(job.paths, FileNumber, Len(job.paths)))'
    BY <1>1, Zenon DEF InOrder
  <1>3. (\A p \in DOMAIN job.paths : disk[job.paths[p]] = job.files[job.paths[p]])'
    BY DEF InOrder
  <1>4. \A lines, more : Told(lines, more)' <=> Told(lines, more)
    BY <1>1 DEF Told
  <1>5. QED  BY <1>2, <1>3, <1>4, Zenon

\* Nothing but the open file's lines and queues has changed.
SameFile ==
    /\ job' = job /\ left' = left
    /\ \A p \in DOMAIN job.paths : disk'[job.paths[p]] = disk[job.paths[p]]
    /\ out' \in Seq(Item) /\ append_queue' \in Seq(InsertedTexts) /\ read_queue' = <<>>

\* What must hold before the next line is read,
LEMMA ReadInOrder ==
    ASSUME InOrder, SameFile, phase' = "read", NEW a \in 0..Len(OpenText),
           unread' = SubSeq(OpenText, a + 1, Len(OpenText)), Told(out', SubSeq(OpenText, 1, a))
    PROVE  InOrder'
PROOF
  <1>1. job' = job /\ left' = left  BY DEF SameFile
  <1>2. OpenText' = OpenText /\ InsertedTexts' = InsertedTexts /\ OwnLines' = OwnLines
        /\ Given' = Given /\ FileNumber' = FileNumber
    BY <1>1, SameFiles
  <1>3. /\ (Len(left) <= Len(job.paths))' /\ (left = SubSeq(job.paths, FileNumber, Len(job.paths)))'
        /\ (\A p \in DOMAIN job.paths : disk[job.paths[p]] = job.files[job.paths[p]])'
    BY <1>1, StillInOrder DEF SameFile
  <1>4. Told(out, SubSeq(OpenText, 1, a))'  BY <1>2, Zenon DEF Told
  <1>5. (unread = SubSeq(OpenText, a + 1, Len(OpenText)))'  BY <1>2
  <1>6. (out \in Seq(Item) /\ append_queue \in Seq(InsertedTexts) /\ read_queue = <<>>)'
    BY <1>2 DEF SameFile
  <1>7. a \in (0..Len(OpenText))'  BY <1>2
  <1>8. QED  BY <1>3, <1>4, <1>5, <1>6, <1>7, Zenon DEF InOrder

\* before a command,
LEMMA RunInOrder ==
    ASSUME InOrder, SameFile, phase' = "run", NEW a \in 0..Len(OpenText), NEW b \in a..Len(OpenText),
           ~deleted', change_text' = Nil,
           pattern_space' = SubSeq(OpenText, a + 1, b),
           unread' = SubSeq(OpenText, b + 1, Len(OpenText)),
           \/ Told(out', SubSeq(OpenText, 1, a)) /\ (quit' => unread' = <<>>)
           \/ quit' /\ unread' = <<>> /\ Uses({"n"}) /\ Told(out', OpenText)
    PROVE  InOrder'
PROOF
  <1>1. job' = job /\ left' = left  BY DEF SameFile
  <1>2. OpenText' = OpenText /\ InsertedTexts' = InsertedTexts /\ OwnLines' = OwnLines
        /\ Given' = Given /\ FileNumber' = FileNumber /\ (Uses({"n"})' <=> Uses({"n"}))
    BY <1>1, SameFiles
  <1>3. /\ (Len(left) <= Len(job.paths))' /\ (left = SubSeq(job.paths, FileNumber, Len(job.paths)))'
        /\ (\A p \in DOMAIN job.paths : disk[job.paths[p]] = job.files[job.paths[p]])'
    BY <1>1, StillInOrder DEF SameFile
  <1>4. /\ Told(out', SubSeq(OpenText, 1, a)) => Told(out, SubSeq(OpenText, 1, a))'
        /\ Told(out', OpenText) => Told(out, OpenText)'
    BY <1>2, Zenon DEF Told
  <1>5. (pattern_space = SubSeq(OpenText, a + 1, b) /\ unread = SubSeq(OpenText, b + 1, Len(OpenText)))'
    BY <1>2
  <1>6. Holding(a, b)'
    <2>1. \/ Told(out, SubSeq(OpenText, 1, a))' /\ (quit' => unread' = <<>>)
          \/ quit' /\ unread' = <<>> /\ Uses({"n"})' /\ Told(out, OpenText)'
      BY <1>2, <1>4
    <2>2. QED  BY <1>5, <2>1, Zenon DEF Holding
  <1>7. (out \in Seq(Item) /\ append_queue \in Seq(InsertedTexts) /\ read_queue = <<>>)'
    BY <1>2 DEF SameFile
  <1>8. a \in (0..Len(OpenText))' /\ b \in (a..Len(OpenText))'  BY <1>2
  <1>9. QED  BY <1>3, <1>6, <1>7, <1>8, Zenon DEF InOrder

\* and at the end of the file.
LEMMA EofInOrder ==
    ASSUME InOrder, SameFile, phase' = "eof", NEW lines, Gives(FileNumber, lines), Told(out', lines)
    PROVE  InOrder'
PROOF
  <1>1. job' = job /\ left' = left  BY DEF SameFile
  <1>2. OpenText' = OpenText /\ InsertedTexts' = InsertedTexts /\ OwnLines' = OwnLines
        /\ Given' = Given /\ FileNumber' = FileNumber
    BY <1>1, SameFiles
  <1>3. /\ (Len(left) <= Len(job.paths))' /\ (left = SubSeq(job.paths, FileNumber, Len(job.paths)))'
        /\ (\A p \in DOMAIN job.paths : disk[job.paths[p]] = job.files[job.paths[p]])'
    BY <1>1, StillInOrder DEF SameFile
  <1>4. Told(out, lines)'  BY <1>2 DEF Told
  <1>5. Gives(FileNumber, lines)'
    <2>1. script' = script  BY <1>1 DEF script
    <2>2. QED  BY <1>1, <1>2, <2>1 DEF Gives, TextOf, Uses
  <1>6. (out \in Seq(Item) /\ append_queue \in Seq(InsertedTexts) /\ read_queue = <<>>)'
    BY <1>2 DEF SameFile
  <1>7. QED  BY <1>3, <1>4, <1>5, <1>6, Zenon DEF InOrder

----------------------------------------------------------------------------
\* A file is opened: none of its lines is read or told.
LEMMA OpenInOrder ==
    ASSUME JobAssumption, job \in Jobs, left \in Seq(FileNames), InOrder, KeepsLines, Open
    PROVE  InOrder'
PROOF
  <1> DEFINE t == OpenText
  <1>1. /\ job' = job /\ left' = left /\ left # <<>> /\ phase = "open" /\ phase' = "read" /\ disk[Path] # Nil
        /\ unread' = disk[Path] /\ disk' = disk /\ out' = out
        /\ append_queue' = append_queue /\ read_queue' = read_queue
    BY DEF Open, KeepsLines, queues
  <1>2. SameFile  BY <1>1 DEF SameFile, InOrder
  <1>3. t = disk[Path] /\ t \in Seq(OwnLines) /\ Len(t) \in Nat  BY <1>1, OpenFacts, Zenon
  <1> HIDE DEF t
  <1>4. SubSeq(t, 1, 0) = <<>> /\ SubSeq(t, 0 + 1, Len(t)) = t
    BY <1>3, SubSeqEmpty, SubSeqFull
  <1>5. Told(out', SubSeq(t, 1, 0))  BY <1>1, <1>4, Zenon DEF InOrder
  <1>6. 0 \in 0..Len(t) /\ unread' = SubSeq(t, 0 + 1, Len(t))  BY <1>1, <1>3, <1>4
  <1>7. QED  BY <1>1, <1>2, <1>5, <1>6, ReadInOrder, Zenon DEF t

\* One that is not there has none.
LEMMA PassesInOrder ==
    ASSUME JobAssumption, job \in Jobs, left \in Seq(FileNames), InOrder, KeepsLines, Passes
    PROVE  InOrder'
PROOF
  <1>1. /\ job' = job /\ left' = Tail(left) /\ left # <<>> /\ phase = "open" /\ phase' = "open"
        /\ disk[Path] = Nil /\ disk' = disk /\ out' = out
        /\ append_queue' = append_queue /\ read_queue' = read_queue
    BY DEF Passes, KeepsLines, queues
  <1>2. OpenText = <<>> /\ OpenText \in Seq(OwnLines)  BY <1>1, OpenFacts, Zenon
  <1>3. Gives(FileNumber, <<>>)
    <2>1. TextOf(FileNumber) \in Seq(OwnLines)  BY <1>2 DEF OpenText
    <2>2. Gives(FileNumber, TextOf(FileNumber))  BY <2>1, TextGiven
    <2>3. QED  BY <1>2, <2>2 DEF OpenText
  <1>4. Told(out, <<>>)  BY <1>1 DEF InOrder
  <1>5. QED  BY <1>1, <1>3, <1>4, OrderedFileDone

\* The last file is done.
LEMMA ReturnInOrder ==
    ASSUME InOrder, Return
    PROVE  InOrder'
PROOF
  <1>1. /\ job' = job /\ left' = left /\ left = <<>> /\ phase = "open" /\ phase' = "done"
        /\ disk' = disk /\ out' = out /\ append_queue' = append_queue /\ read_queue' = read_queue
    BY DEF Return, queues
  <1>2. OwnLines' = OwnLines /\ Given' = Given /\ FileNumber' = FileNumber /\ InsertedTexts' = InsertedTexts
    BY <1>1, SameFiles
  <1>3. Told(out, <<>>)'
    <2>1. Told(out, <<>>)  BY <1>1 DEF InOrder
    <2>2. QED  BY <1>1, <1>2, <2>1 DEF Told
  <1>4. QED  BY <1>1, <1>2, <1>3, Zenon DEF InOrder

\* One line of a text.
LEMMA OneLine ==
    ASSUME NEW S, NEW t \in Seq(S), NEW m \in 1..Len(t)
    PROVE  SubSeq(t, m, m) = <<t[m]>>
PROOF
  <1>1. m \in m..Len(t) /\ m - 1 \in Int /\ m - 1 < m /\ m \in Int  OBVIOUS
  <1>2. SubSeq(t, m, m - 1) = <<>>  BY <1>1, SubSeqEmpty
  <1>3. SubSeq(t, m, m) = SubSeq(t, m, m - 1) \o <<t[m]>>
    BY <1>1, SubSeqRecursiveSecond
  <1>4. <<t[m]>> \in Seq(S)  OBVIOUS
  <1>5. <<>> \o <<t[m]>> = <<t[m]>>  BY <1>4, ConcatEmptySeq
  <1>6. QED  BY <1>2, <1>3, <1>5, Zenon

\* The next line is in hand.
LEMMA ReadLineInOrder ==
    ASSUME JobAssumption, job \in Jobs, left \in Seq(FileNames), left # <<>>, InOrder, ReadLine
    PROVE  InOrder'
PROOF
  <1> DEFINE t == OpenText
  <1>1. /\ job' = job /\ left' = left /\ phase = "read" /\ phase' = "run" /\ unread # <<>>
        /\ pattern_space' = <<Head(unread)>> /\ unread' = Tail(unread)
        /\ ~deleted' /\ ~quit' /\ change_text' = Nil /\ disk' = disk /\ out' = out
        /\ append_queue' = append_queue /\ read_queue' = read_queue
    BY DEF ReadLine, queues
  <1>2. SameFile  BY <1>1 DEF SameFile, InOrder
  <1>3. t \in Seq(OwnLines) /\ t \in Seq(Item) /\ Len(t) \in Nat
    <2>1. t \in Seq(OwnLines) /\ Len(t) \in Nat  BY OpenFacts, Zenon
    <2>2. OwnLines \subseteq Item  BY TextFacts DEF Item
    <2>3. QED  BY <2>1, <2>2, SeqMonotonic
  <1>4. PICK a \in 0..Len(t) : unread = SubSeq(t, a + 1, Len(t)) /\ Told(out, SubSeq(t, 1, a))
    BY <1>1 DEF InOrder
  <1> HIDE DEF t
  <1>5. /\ a # Len(t) /\ a + 1 \in 1..Len(t) /\ Head(unread) = t[a + 1]
        /\ Tail(unread) = SubSeq(t, (a + 1) + 1, Len(t))
    BY <1>1, <1>3, <1>4, AtLastLine, Zenon
  <1>6. SubSeq(t, a + 1, a + 1) = <<t[a + 1]>>  BY <1>3, <1>5, OneLine, Zenon
  <1>7. pattern_space' = SubSeq(t, a + 1, a + 1) /\ unread' = SubSeq(t, (a + 1) + 1, Len(t))
    BY <1>1, <1>5, <1>6, Zenon
  <1>8. a + 1 \in a..Len(t)  BY <1>3, <1>5
  <1>9. Told(out', SubSeq(t, 1, a)) /\ (quit' => unread' = <<>>)  BY <1>1, <1>4
  <1>10. QED
    <2> DEFINE b == a + 1
    <2>1. b \in a..Len(t) /\ pattern_space' = SubSeq(t, a + 1, b) /\ unread' = SubSeq(t, b + 1, Len(t))
      BY <1>7, <1>8
    <2> HIDE DEF b
    <2>2. QED  BY <1>1, <1>2, <1>9, <2>1, RunInOrder, Zenon DEF t

\* The whole text is told.
LEMMA EndOfFileInOrder ==
    ASSUME JobAssumption, job \in Jobs, left \in Seq(FileNames), left # <<>>, InOrder, EndOfFile
    PROVE  InOrder'
PROOF
  <1> DEFINE t == OpenText
  <1>1. /\ job' = job /\ left' = left /\ phase = "read" /\ phase' = "eof" /\ unread = <<>>
        /\ disk' = disk /\ out' = out /\ append_queue' = append_queue /\ read_queue' = read_queue
    BY DEF EndOfFile, queues
  <1>2. SameFile  BY <1>1 DEF SameFile, InOrder
  <1>3. t \in Seq(OwnLines) /\ t \in Seq(Item) /\ Len(t) \in Nat
    <2>1. t \in Seq(OwnLines) /\ Len(t) \in Nat  BY OpenFacts, Zenon
    <2>2. OwnLines \subseteq Item  BY TextFacts DEF Item
    <2>3. QED  BY <2>1, <2>2, SeqMonotonic
  <1>4. PICK a \in 0..Len(t) : unread = SubSeq(t, a + 1, Len(t)) /\ Told(out, SubSeq(t, 1, a))
    BY <1>1, Zenon DEF InOrder
  <1> HIDE DEF t
  <1>5. a = Len(t)  BY <1>1, <1>3, <1>4, AtLastLine
  <1>6. SubSeq(t, 1, a) = t  BY <1>3, <1>5, SubSeqFull
  <1>7. Gives(FileNumber, t)
    <2>1. Gives(FileNumber, TextOf(FileNumber))  BY <1>3, TextGiven DEF t, OpenText
    <2>2. QED  BY <2>1 DEF t, OpenText
  <1>8. Told(out', t)  BY <1>1, <1>4, <1>6, Zenon
  <1>9. QED  BY <1>1, <1>2, <1>7, <1>8, EofInOrder

\* The next file goes on from there.
LEMMA NextFileInOrder ==
    ASSUME JobAssumption, job \in Jobs, left \in Seq(FileNames), left # <<>>, InOrder, NextFile
    PROVE  InOrder'
PROOF
  <1>1. /\ job' = job /\ left' = Tail(left) /\ phase = "eof" /\ phase' = "open"
        /\ disk' = disk /\ out' = out /\ append_queue' = append_queue /\ read_queue' = read_queue
    BY DEF NextFile, queues
  <1>2. PICK lines : Gives(FileNumber, lines) /\ Told(out, lines)  BY <1>1 DEF InOrder
  <1>3. QED  BY <1>1, <1>2, OrderedFileDone

----------------------------------------------------------------------------
(***************************************************************************)
(* Printing lines, and what are none.                                      *)
(***************************************************************************)

\* What is printed besides the lines of the files.
Extras == Nat \cup InsertedTexts

\* Printing what is no line of a file.
LEMMA TellsOthers ==
    ASSUME JobAssumption, job \in Jobs, KeepsLines, FileNumber - 1 \in 0..Len(job.paths),
           NEW lines \in Seq(Item), NEW more \in Seq(OwnLines), NEW x \in Seq(Extras), Told(lines, more)
    PROVE  Told(lines \o x, more) /\ lines \o x \in Seq(Item)
PROOF
  <1>1. Extras \cap OwnLines = {}  BY DEF KeepsLines, Extras
  <1>2. Extras \subseteq Item  BY TextFacts DEF Extras, Item
  <1>3. x \in Seq(Item)  BY <1>2, SeqMonotonic
  <1>4. Among(x, OwnLines) = <<>>
    <2> DEFINE S == OwnLines
               T == Extras
    <2>1. T \cap S = {} /\ x \in Seq(T)  BY <1>1
    <2> HIDE DEF S, T
    <2>2. Among(x, S) = <<>>  BY <2>1, AmongOthers
    <2>3. QED  BY <2>2 DEF S
  <1>5. Told(lines \o x, more \o Among(x, OwnLines))  BY <1>3, TellsMore
  <1>6. more \o <<>> = more  BY ConcatEmptySeq
  <1>7. lines \o x \in Seq(Item)  BY <1>3, ConcatProperties
  <1>8. QED  BY <1>4, <1>5, <1>6, <1>7

\* The lines up to one, and from it up to another.
LEMMA LinesJoined ==
    ASSUME NEW S, NEW t \in Seq(S), NEW a \in 0..Len(t), NEW b \in a..Len(t)
    PROVE  SubSeq(t, 1, a) \o SubSeq(t, a + 1, b) = SubSeq(t, 1, b)
PROOF
  <1> DEFINE m == 1
  <1>1. m \in 1..(Len(t) + 1) /\ a \in (m - 1)..Len(t) /\ b \in a..Len(t)  OBVIOUS
  <1> HIDE DEF m
  <1>2. SubSeq(t, m, a) \o SubSeq(t, a + 1, b) = SubSeq(t, m, b)
    BY <1>1, ConcatAdjacentSubSeq
  <1>3. QED  BY <1>2 DEF m

\* What is printed of the open file's lines, from the first that was not printed.
LEMMA TellsLines ==
    ASSUME JobAssumption, job \in Jobs, FileNumber - 1 \in 0..Len(job.paths),
           NEW t \in Seq(OwnLines), NEW a \in 0..Len(t), NEW b \in a..Len(t),
           NEW lines \in Seq(Item), Told(lines, SubSeq(t, 1, a))
    PROVE  /\ SubSeq(t, a + 1, b) \in Seq(OwnLines)
           /\ lines \o SubSeq(t, a + 1, b) \in Seq(Item)
           /\ Told(lines \o SubSeq(t, a + 1, b), SubSeq(t, 1, b))
PROOF
  <1> DEFINE S == OwnLines
             x == SubSeq(t, a + 1, b)
  <1>1. S \subseteq Item  BY TextFacts, Zenon DEF Item
  <1>2. \A i \in 1..Len(t) : t[i] \in S  OBVIOUS
  <1>3. x \in Seq(S)
    <2>1. a + 1 \in Int /\ b \in Int /\ \A i \in (a + 1)..b : t[i] \in S  BY <1>2
    <2>2. QED  BY <2>1, SubSeqProperties
  <1>4. SubSeq(t, 1, a) \in Seq(S)
    <2>1. 1 \in Int /\ a \in Int /\ \A i \in 1..a : t[i] \in S  BY <1>2
    <2>2. QED  BY <2>1, SubSeqProperties
  <1>5. x \in Seq(Item)  BY <1>1, <1>3, SeqMonotonic
  <1>6. Among(x, S) = x
    <2> HIDE DEF S, x
    <2>1. QED  BY <1>3, AmongItself
  <1>7. SubSeq(t, 1, a) \o x = SubSeq(t, 1, b)  BY LinesJoined, Zenon
  <1>8. Told(lines \o x, SubSeq(t, 1, a) \o Among(x, OwnLines))
    <2> HIDE DEF x
    <2>1. QED  BY <1>4, <1>5, TellsMore, Zenon DEF S
  <1>9. lines \o x \in Seq(Item)  BY <1>5, ConcatProperties
  <1>10. QED  BY <1>3, <1>6, <1>7, <1>8, <1>9, Zenon

\* A script that keeps lines has no other commands.
LEMMA KeptTypes ==
    ASSUME JobAssumption, job \in Jobs, KeepsLines, ci \in 1..Len(script)
    PROVE  /\ command.type \in {"=", "i", "a", "n", "N", "w"}
           /\ command.type \in {"i", "a"} => command.text \in InsertedTexts
           /\ command.type = "n" => Uses({"n"})
           /\ command.type = "w" => \A p \in DOMAIN job.paths : command.file # job.paths[p]
PROOF
  <1>1. ci \in DOMAIN script /\ command.type \in Types
    BY DEF JobAssumption, script, command
  <1>2. command.type \notin {"d", "c", "q", "s", "y", "p", "r"}
    BY <1>1 DEF KeepsLines, Uses, command
  <1>3. command.type \in {"i", "a"} => command.text \in InsertedTexts
    BY <1>1 DEF InsertedTexts, command
  <1>4. command.type = "n" => Uses({"n"})  BY <1>1 DEF Uses, command
  <1>5. command.type = "w" => \A p \in DOMAIN job.paths : command.file # job.paths[p]
    BY <1>1 DEF JobAssumption, script, command
  <1>6. QED  BY <1>1, <1>2, <1>3, <1>4, <1>5 DEF Types

\* Before a command, nothing has quit: what was printed is short of the line in hand.
LEMMA InHandFacts ==
    ASSUME JobAssumption, SedTypeOK, left \in Seq(FileNames), InOrder, phase = "run", ~quit
    PROVE  /\ job \in Jobs /\ left # <<>> /\ FileNumber - 1 \in 0..Len(job.paths)
           /\ OpenText \in Seq(OwnLines) /\ OpenText \in Seq(Item) /\ Len(OpenText) \in Nat
           /\ out \in Seq(Item) /\ append_queue \in Seq(InsertedTexts) /\ read_queue = <<>>
           /\ ~deleted /\ change_text = Nil
           /\ \E a \in 0..Len(OpenText) : \E b \in a..Len(OpenText) :
                 /\ pattern_space = SubSeq(OpenText, a + 1, b)
                 /\ unread = SubSeq(OpenText, b + 1, Len(OpenText))
                 /\ Told(out, SubSeq(OpenText, 1, a))
PROOF
  <1>1. job \in Jobs /\ left # <<>>  BY DEF SedTypeOK
  <1>2. FileNumber - 1 \in 0..Len(job.paths) /\ OpenText \in Seq(OwnLines) /\ Len(OpenText) \in Nat
    BY <1>1, OpenFacts, Zenon
  <1>3. OwnLines \subseteq Item  BY <1>1, TextFacts DEF Item
  <1>4. OpenText \in Seq(Item)  BY <1>2, <1>3, SeqMonotonic
  <1>5. PICK a \in 0..Len(OpenText) : \E b \in a..Len(OpenText) : Holding(a, b)  BY DEF InOrder
  <1>6. PICK b \in a..Len(OpenText) : Holding(a, b)  BY <1>5
  <1>7. /\ pattern_space = SubSeq(OpenText, a + 1, b)
        /\ unread = SubSeq(OpenText, b + 1, Len(OpenText))
        /\ Told(out, SubSeq(OpenText, 1, a))
    BY <1>6 DEF Holding
  <1>8. out \in Seq(Item) /\ append_queue \in Seq(InsertedTexts) /\ read_queue = <<>>
        /\ ~deleted /\ change_text = Nil
    BY DEF InOrder
  <1>9. QED  BY <1>1, <1>2, <1>4, <1>7, <1>8, Zenon

\* A command that takes no line: it may print, or queue, what is none of a file.
Stays == unread' = unread /\ pattern_space' = pattern_space /\ ~deleted' /\ ~quit' /\ change_text' = Nil

\* It leaves everything in order.
LEMMA StaysInOrder ==
    ASSUME JobAssumption, SedTypeOK, left \in Seq(FileNames), InOrder, KeepsLines, phase = "run", ~quit,
           phase' = "run", Stays, job' = job, left' = left,
           \A p \in DOMAIN job.paths : disk'[job.paths[p]] = disk[job.paths[p]],
           append_queue' \in Seq(InsertedTexts), read_queue' = <<>>,
           NEW x \in Seq(Extras), out' = out \o x
    PROVE  InOrder'
PROOF
  <1> DEFINE t == OpenText
  <1>1. /\ job \in Jobs /\ FileNumber - 1 \in 0..Len(job.paths) /\ t \in Seq(OwnLines) /\ Len(t) \in Nat
        /\ out \in Seq(Item)
    BY InHandFacts
  <1>2. PICK a \in 0..Len(t) : \E b \in a..Len(t) :
           pattern_space = SubSeq(t, a + 1, b) /\ unread = SubSeq(t, b + 1, Len(t)) /\ Told(out, SubSeq(t, 1, a))
    BY InHandFacts, Zenon
  <1>3. PICK b \in a..Len(t) :
           pattern_space = SubSeq(t, a + 1, b) /\ unread = SubSeq(t, b + 1, Len(t)) /\ Told(out, SubSeq(t, 1, a))
    BY <1>2, Zenon
  <1>4. SubSeq(t, 1, a) \in Seq(OwnLines)
    <2> HIDE DEF t
    <2>1. \A i \in 1..a : t[i] \in OwnLines  BY <1>1
    <2>2. QED  BY <2>1, SubSeqProperties
  <1>5. Told(out \o x, SubSeq(t, 1, a)) /\ out \o x \in Seq(Item)
    <2> DEFINE more == SubSeq(t, 1, a)
    <2>1. more \in Seq(OwnLines) /\ Told(out, more)  BY <1>3, <1>4
    <2> HIDE DEF more
    <2>2. Told(out \o x, more) /\ out \o x \in Seq(Item)  BY <1>1, <2>1, TellsOthers, Zenon
    <2>3. QED  BY <2>2 DEF more
  <1>6. SameFile  BY <1>5 DEF SameFile
  <1>7. /\ ~deleted' /\ change_text' = Nil /\ pattern_space' = SubSeq(t, a + 1, b)
        /\ unread' = SubSeq(t, b + 1, Len(t)) /\ Told(out', SubSeq(t, 1, a)) /\ (quit' => unread' = <<>>)
    BY <1>3, <1>5 DEF Stays
  <1>8. QED  BY <1>6, <1>7, RunInOrder, Zenon DEF t

\* A command that prints nothing and takes no line.
LEMMA SilentInOrder ==
    ASSUME JobAssumption, SedTypeOK, left \in Seq(FileNames), InOrder, KeepsLines, phase = "run", ~quit,
           phase' = "run", Stays, job' = job, left' = left,
           \A p \in DOMAIN job.paths : disk'[job.paths[p]] = disk[job.paths[p]],
           append_queue' \in Seq(InsertedTexts), read_queue' = <<>>, out' = out
    PROVE  InOrder'
PROOF
  <1>1. <<>> \in Seq(Extras)  OBVIOUS
  <1>2. out \in Seq(Item)  BY DEF InOrder
  <1>3. out' = out \o <<>>  BY <1>2, ConcatEmptySeq
  <1>4. QED  BY <1>1, <1>3, StaysInOrder, Zenon

\* n prints the lines in hand and takes the next one, or quits with them.
LEMMA NextLineInOrder ==
    ASSUME JobAssumption, SedTypeOK, left \in Seq(FileNames), InOrder, KeepsLines, ~quit, NextLine,
           Uses({"n"}), phase = "run"
    PROVE  InOrder'
PROOF
  <1> DEFINE t == OpenText
  <1>1. /\ job' = job /\ left' = left /\ phase' = "run" /\ disk' = disk
        /\ deleted' = deleted /\ change_text' = change_text
        /\ append_queue' = append_queue /\ read_queue' = read_queue
        /\ out' = out \o pattern_space
        /\ unread = <<>> => quit' = TRUE /\ unread' = unread /\ pattern_space' = pattern_space
        /\ unread # <<>> => pattern_space' = <<Head(unread)>> /\ unread' = Tail(unread) /\ quit' = quit
    BY DEF NextLine, At, KeepsLines, queues
  <1>2. /\ job \in Jobs /\ FileNumber - 1 \in 0..Len(job.paths) /\ t \in Seq(OwnLines) /\ Len(t) \in Nat
        /\ t \in Seq(Item) /\ out \in Seq(Item) /\ ~deleted /\ change_text = Nil
        /\ append_queue \in Seq(InsertedTexts) /\ read_queue = <<>>
    BY InHandFacts
  <1>3. PICK a \in 0..Len(t) : \E b \in a..Len(t) :
           pattern_space = SubSeq(t, a + 1, b) /\ unread = SubSeq(t, b + 1, Len(t)) /\ Told(out, SubSeq(t, 1, a))
    BY InHandFacts, Zenon
  <1>4. PICK b \in a..Len(t) :
           pattern_space = SubSeq(t, a + 1, b) /\ unread = SubSeq(t, b + 1, Len(t)) /\ Told(out, SubSeq(t, 1, a))
    BY <1>3, Zenon
  <1> HIDE DEF t
  <1>5. out' \in Seq(Item) /\ Told(out', SubSeq(t, 1, b))
    <2>1. /\ out \o SubSeq(t, a + 1, b) \in Seq(Item)
          /\ Told(out \o SubSeq(t, a + 1, b), SubSeq(t, 1, b))
      BY <1>2, <1>4, TellsLines, Zenon
    <2>2. QED  BY <1>1, <1>4, <2>1
  <1>6. SameFile  BY <1>1, <1>2, <1>5 DEF SameFile
  <1>7. ~deleted' /\ change_text' = Nil  BY <1>1, <1>2
  <1>8. b \in 0..Len(t)  BY <1>2
  <1>9. CASE b = Len(t)
    <2>1. unread = <<>>  BY <1>2, <1>4, <1>8, <1>9, AtLastLine
    <2>2. quit' /\ unread' = <<>> /\ pattern_space' = SubSeq(t, a + 1, b) /\ unread' = SubSeq(t, b + 1, Len(t))
      BY <1>1, <1>4, <2>1, Zenon
    <2>3. SubSeq(t, 1, b) = t  BY <1>2, <1>9, SubSeqFull
    <2>4. Told(out', t)  BY <1>5, <2>3, Zenon
    <2>5. QED  BY <1>1, <1>6, <1>7, <2>2, <2>4, RunInOrder, Zenon DEF t
  <1>10. CASE b # Len(t)
    <2>1. /\ unread # <<>> /\ b + 1 \in 1..Len(t) /\ Head(unread) = t[b + 1]
          /\ Tail(unread) = SubSeq(t, (b + 1) + 1, Len(t))
      BY <1>2, <1>4, <1>8, <1>10, AtLastLine, Zenon
    <2>2. SubSeq(t, b + 1, b + 1) = <<t[b + 1]>>  BY <1>2, <2>1, OneLine, Zenon
    <2> DEFINE c == b + 1
    <2>3. c \in b..Len(t)  BY <1>2, <1>8, <2>1
    <2>4. pattern_space' = SubSeq(t, b + 1, c)  BY <1>1, <2>1, <2>2, Zenon
    <2>5. unread' = SubSeq(t, c + 1, Len(t))  BY <1>1, <2>1, Zenon
    <2>6. ~quit'  BY <1>1, <2>1, Zenon
    <2> HIDE DEF c
    <2>7. Told(out', SubSeq(t, 1, b)) /\ (quit' => unread' = <<>>)  BY <1>5, <2>6
    <2>8. QED  BY <1>1, <1>6, <1>7, <1>8, <2>3, <2>4, <2>5, <2>7, RunInOrder, Zenon DEF t
  <1>11. QED  BY <1>9, <1>10

\* One line more.
LEMMA LineMore ==
    ASSUME NEW S, NEW t \in Seq(S), NEW a \in 0..Len(t), NEW b \in a..Len(t), b # Len(t)
    PROVE  SubSeq(t, a + 1, b + 1) = Append(SubSeq(t, a + 1, b), t[b + 1])
PROOF
  <1> DEFINE m == a + 1
             n == b + 1
  <1>1. m \in 1..Len(t) /\ n \in m..Len(t) /\ n - 1 = b  OBVIOUS
  <1>2. \A i \in 1..Len(t) : t[i] \in S  OBVIOUS
  <1>3. SubSeq(t, m, b) \in Seq(S) /\ t[n] \in S
    <2>1. m \in Int /\ b \in Int /\ \A i \in m..b : t[i] \in S  BY <1>2
    <2>2. n \in 1..Len(t)  OBVIOUS
    <2>3. QED  BY <1>2, <2>1, <2>2, SubSeqProperties
  <1> HIDE DEF m, n
  <1>4. SubSeq(t, m, n) = SubSeq(t, m, n - 1) \o <<t[n]>>
    BY <1>1, SubSeqRecursiveSecond
  <1>5. Append(SubSeq(t, m, b), t[n]) = SubSeq(t, m, b) \o <<t[n]>>
    BY <1>3, AppendIsConcat, Zenon
  <1>6. QED  BY <1>1, <1>4, <1>5 DEF m, n

\* N adds the next line to those in hand, or quits with them.
LEMMA NextAppendInOrder ==
    ASSUME JobAssumption, SedTypeOK, left \in Seq(FileNames), InOrder, ~quit, NextAppend, phase = "run"
    PROVE  InOrder'
PROOF
  <1> DEFINE t == OpenText
  <1>1. /\ job' = job /\ left' = left /\ phase' = "run" /\ disk' = disk /\ out' = out
        /\ deleted' = deleted /\ change_text' = change_text
        /\ append_queue' = append_queue /\ read_queue' = read_queue
        /\ unread = <<>> => unread' = unread /\ pattern_space' = pattern_space
        /\ unread # <<>> => /\ pattern_space' = Append(pattern_space, Head(unread))
                            /\ unread' = Tail(unread) /\ quit' = quit
    BY DEF NextAppend, At, queues
  <1>2. /\ job \in Jobs /\ FileNumber - 1 \in 0..Len(job.paths) /\ t \in Seq(OwnLines) /\ Len(t) \in Nat
        /\ t \in Seq(Item) /\ out \in Seq(Item) /\ ~deleted /\ change_text = Nil
        /\ append_queue \in Seq(InsertedTexts) /\ read_queue = <<>>
    BY InHandFacts
  <1>3. PICK a \in 0..Len(t) : \E b \in a..Len(t) :
           pattern_space = SubSeq(t, a + 1, b) /\ unread = SubSeq(t, b + 1, Len(t)) /\ Told(out, SubSeq(t, 1, a))
    BY InHandFacts, Zenon
  <1>4. PICK b \in a..Len(t) :
           pattern_space = SubSeq(t, a + 1, b) /\ unread = SubSeq(t, b + 1, Len(t)) /\ Told(out, SubSeq(t, 1, a))
    BY <1>3, Zenon
  <1> HIDE DEF t
  <1>5. SameFile  BY <1>1, <1>2 DEF SameFile
  <1>6. ~deleted' /\ change_text' = Nil  BY <1>1, <1>2
  <1>7. b \in 0..Len(t)  BY <1>2
  <1>8. Told(out', SubSeq(t, 1, a))  BY <1>1, <1>4
  <1>9. CASE b = Len(t)
    <2>1. unread = <<>>  BY <1>2, <1>4, <1>7, <1>9, AtLastLine
    <2>2. unread' = <<>> /\ pattern_space' = SubSeq(t, a + 1, b) /\ unread' = SubSeq(t, b + 1, Len(t))
      BY <1>1, <1>4, <2>1, Zenon
    <2>3. QED  BY <1>1, <1>5, <1>6, <1>8, <2>2, RunInOrder, Zenon DEF t
  <1>10. CASE b # Len(t)
    <2>1. /\ unread # <<>> /\ b + 1 \in 1..Len(t) /\ Head(unread) = t[b + 1]
          /\ Tail(unread) = SubSeq(t, (b + 1) + 1, Len(t))
      BY <1>2, <1>4, <1>7, <1>10, AtLastLine, Zenon
    <2>2. SubSeq(t, a + 1, b + 1) = Append(SubSeq(t, a + 1, b), t[b + 1])
      BY <1>2, <1>10, LineMore, Zenon
    <2> DEFINE c == b + 1
    <2>3. c \in a..Len(t)  BY <1>2, <1>7, <2>1
    <2>4. pattern_space' = SubSeq(t, a + 1, c)  BY <1>1, <1>4, <2>1, <2>2, Zenon
    <2>5. unread' = SubSeq(t, c + 1, Len(t))  BY <1>1, <2>1, Zenon
    <2>6. ~quit'  BY <1>1, <2>1, Zenon
    <2> HIDE DEF c
    <2>7. quit' => unread' = <<>>  BY <2>6
    <2>8. QED  BY <1>1, <1>5, <1>6, <1>8, <2>3, <2>4, <2>5, <2>7, RunInOrder, Zenon DEF t
  <1>11. QED  BY <1>9, <1>10

\* Every command that the script may have.
LEMMA ScriptStepInOrder ==
    ASSUME JobAssumption, SedTypeOK, left \in Seq(FileNames), InOrder, KeepsLines, ScriptStep
    PROVE  InOrder'
PROOF
  <1>1. /\ phase = "run" /\ phase' = "run" /\ ci <= Len(script) /\ ~deleted /\ ~quit
        /\ job' = job /\ left' = left
    BY DEF ScriptStep, Skip, Prints, Substitute, Transliterate, Delete, Quit, AppendText, Change,
           NextLine, NextAppend, WriteTo, ReadFrom, At
  <1>2. /\ job \in Jobs /\ out \in Seq(Item) /\ append_queue \in Seq(InsertedTexts) /\ read_queue = <<>>
        /\ change_text = Nil
    BY <1>1, InHandFacts
  <1>3. ci \in 1..Len(script)
    <2>1. Len(script) \in Nat  BY <1>2 DEF JobAssumption, script
    <2>2. QED  BY <1>1, <2>1 DEF SedTypeOK
  <1>4. /\ command.type \in {"=", "i", "a", "n", "N", "w"}
        /\ command.type \in {"i", "a"} => command.text \in InsertedTexts
        /\ command.type = "n" => Uses({"n"})
        /\ command.type = "w" => \A p \in DOMAIN job.paths : command.file # job.paths[p]
    BY <1>2, <1>3, KeptTypes
  <1>5. ASSUME NEW e \in Extras, out' = Append(out, e), Stays, disk' = disk, queues' = queues
        PROVE  InOrder'
    <2>1. <<e>> \in Seq(Extras)  OBVIOUS
    <2>2. Extras \subseteq Item  BY <1>2, TextFacts DEF Extras, Item
    <2>3. out' = out \o <<e>>  BY <1>2, <1>5, <2>2, AppendIsConcat
    <2>4. append_queue' \in Seq(InsertedTexts) /\ read_queue' = <<>>  BY <1>2, <1>5 DEF queues
    <2>5. \A p \in DOMAIN job.paths : disk'[job.paths[p]] = disk[job.paths[p]]  BY <1>5
    <2>6. QED  BY <1>1, <1>5, <2>1, <2>3, <2>4, <2>5, StaysInOrder, Zenon
  <1>6. ASSUME NEW q \in Seq(InsertedTexts), append_queue' = q, read_queue' = read_queue, out' = out, Stays,
               \A p \in DOMAIN job.paths : disk'[job.paths[p]] = disk[job.paths[p]]
        PROVE  InOrder'
    <2>1. append_queue' \in Seq(InsertedTexts) /\ read_queue' = <<>>  BY <1>2, <1>6
    <2>2. QED  BY <1>1, <1>6, <2>1, SilentInOrder
  <1>7. CASE Skip
    <2>1. Stays  BY <1>1, <1>2, <1>7 DEF Skip, Stays
    <2>2. append_queue' = append_queue /\ read_queue' = read_queue /\ out' = out /\ disk' = disk
      BY <1>7 DEF Skip, queues
    <2>3. QED  BY <1>2, <1>6, <2>1, <2>2
  <1>8. CASE Prints
    <2>1. Stays /\ disk' = disk /\ queues' = queues
      BY <1>1, <1>2, <1>8 DEF Prints, Stays, Keep, KeepFlags
    <2>2. PICK e \in Extras : out' = Append(out, e)
      <3>1. ~At("p")  BY <1>4 DEF At
      <3>2. CASE At("=") /\ out' = Append(out, line_num)
        <4>1. line_num \in Extras  BY DEF SedTypeOK, Extras
        <4>2. QED  BY <3>2, <4>1
      <3>3. CASE At("i") /\ out' = Append(out, command.text)
        <4>1. command.text \in Extras  BY <1>4, <3>3 DEF At, Extras
        <4>2. QED  BY <3>3, <4>1
      <3>4. QED  BY <1>8, <3>1, <3>2, <3>3 DEF Prints
    <2>3. QED  BY <1>5, <2>1, <2>2
  <1>9. ~Substitute /\ ~Transliterate /\ ~Delete /\ ~Quit /\ ~Change /\ ~ReadFrom
    BY <1>4 DEF Substitute, Transliterate, Delete, Quit, Change, ReadFrom, At
  <1>10. CASE AppendText
    <2>1. Stays /\ disk' = disk /\ out' = out /\ read_queue' = read_queue
      BY <1>1, <1>2, <1>10 DEF AppendText, Stays, Keep, KeepFlags
    <2>2. append_queue' = Append(append_queue, command.text) /\ command.text \in InsertedTexts
      BY <1>4, <1>10 DEF AppendText, At
    <2>3. append_queue' \in Seq(InsertedTexts)  BY <1>2, <2>2, AppendProperties
    <2>4. QED  BY <1>6, <2>1, <2>3
  <1>11. CASE NextLine
    <2>1. Uses({"n"})  BY <1>4, <1>11 DEF NextLine, At
    <2>2. QED  BY <1>1, <1>11, <2>1, NextLineInOrder
  <1>12. CASE NextAppend
    BY <1>1, <1>12, NextAppendInOrder
  <1>13. CASE WriteTo
    <2>1. Stays /\ out' = out /\ append_queue' = append_queue /\ read_queue' = read_queue
      BY <1>1, <1>2, <1>13 DEF WriteTo, Stays, Keep, KeepFlags, queues
    <2>2. \A p \in DOMAIN job.paths : command.file # job.paths[p]  BY <1>4, <1>13 DEF WriteTo, At
    <2>3. \A p \in DOMAIN job.paths : disk'[job.paths[p]] = disk[job.paths[p]]
      <3>1. DOMAIN disk = FileNames /\ \A p \in DOMAIN job.paths : job.paths[p] \in FileNames
        <4>1. job.paths \in Seq(FileNames)  BY <1>2, TextFacts
        <4>2. QED  BY <4>1 DEF SedTypeOK
      <3>2. disk' = [disk EXCEPT ![command.file] = (IF @ = Nil THEN <<>> ELSE @) \o pattern_space]
            \/ disk' = disk
        BY <1>13 DEF WriteTo
      <3>3. QED  BY <2>2, <3>1, <3>2
    <2>4. QED  BY <1>2, <1>6, <2>1, <2>3
  <1>14. QED
    BY <1>7, <1>8, <1>9, <1>10, <1>11, <1>12, <1>13 DEF ScriptStep

----------------------------------------------------------------------------
\* The end of the cycle prints the lines in hand: each for the first time, or, if n has
\* quit with them, once more.
LEMMA EndCycleInOrder ==
    ASSUME JobAssumption, SedTypeOK, left \in Seq(FileNames), InOrder, KeepsLines, EndCycle
    PROVE  InOrder'
PROOF
  <1> DEFINE t == OpenText
  <1>1. /\ phase = "run" /\ job' = job /\ left' = left /\ disk' = disk
        /\ append_queue' = <<>> /\ read_queue' = <<>> /\ unread' = unread
        /\ out' = ((out \o LastPrinted) \o append_queue) \o read_queue
        /\ quit => phase' = "eof"
        /\ ~quit => phase' = "read"
    BY DEF EndCycle, cycle
  <1>2. /\ job \in Jobs /\ left # <<>> /\ out \in Seq(Item) /\ append_queue \in Seq(InsertedTexts)
        /\ read_queue = <<>> /\ ~deleted /\ change_text = Nil
    BY <1>1 DEF SedTypeOK, InOrder
  <1>3. FileNumber - 1 \in 0..Len(job.paths) /\ t \in Seq(OwnLines) /\ Len(t) \in Nat
    BY <1>2, OpenFacts, Zenon
  <1>4. t \in Seq(Item)
    <2>1. OwnLines \subseteq Item  BY <1>2, TextFacts DEF Item
    <2>2. QED  BY <1>3, <2>1, SeqMonotonic
  <1>5. LastPrinted = pattern_space  BY <1>2 DEF LastPrinted, KeepsLines
  <1>6. PICK a \in 0..Len(t) : \E b \in a..Len(t) : Holding(a, b)  BY <1>1 DEF InOrder
  <1>7. PICK b \in a..Len(t) : Holding(a, b)  BY <1>6
  <1>8. /\ pattern_space = SubSeq(t, a + 1, b) /\ unread = SubSeq(t, b + 1, Len(t))
        /\ \/ Told(out, SubSeq(t, 1, a)) /\ (quit => unread = <<>>)
           \/ quit /\ unread = <<>> /\ Uses({"n"}) /\ Told(out, t)
    BY <1>7 DEF Holding
  <1>9. b \in 0..Len(t) /\ a \in Nat /\ b \in Nat  BY <1>3
  <1>10. ASSUME NEW more \in Seq(OwnLines), out \o pattern_space \in Seq(Item), Told(out \o pattern_space, more)
         PROVE  Told(out', more) /\ out' \in Seq(Item)
    <2>1. append_queue \in Seq(Extras)
      <3>1. InsertedTexts \subseteq Extras  BY DEF Extras
      <3>2. QED  BY <1>2, <3>1, SeqMonotonic
    <2>2. /\ Told((out \o pattern_space) \o append_queue, more)
          /\ (out \o pattern_space) \o append_queue \in Seq(Item)
      <3> DEFINE lines == out \o pattern_space
      <3>1. lines \in Seq(Item) /\ Told(lines, more)  BY <1>10
      <3> HIDE DEF lines
      <3>2. Told(lines \o append_queue, more) /\ lines \o append_queue \in Seq(Item)
        BY <1>2, <1>3, <1>10, <2>1, <3>1, TellsOthers, Zenon
      <3>3. QED  BY <3>2 DEF lines
    <2>3. ((out \o pattern_space) \o append_queue) \o <<>> = (out \o pattern_space) \o append_queue
      BY <2>2, ConcatEmptySeq
    <2>4. QED  BY <1>1, <1>2, <1>5, <2>2, <2>3
  <1> HIDE DEF t
  <1>11. \A i \in 0..Len(t) : SubSeq(t, 1, i) \in Seq(OwnLines)
    <2>1. ASSUME NEW i \in 0..Len(t)  PROVE SubSeq(t, 1, i) \in Seq(OwnLines)
      <3>1. 1 \in Int /\ i \in Int /\ \A j \in 1..i : t[j] \in OwnLines  BY <1>3
      <3>2. QED  BY <3>1, SubSeqProperties
    <2>2. QED  BY <2>1
  <1>12. ASSUME out' \in Seq(Item)  PROVE SameFile
    <2>1. <<>> \in Seq(InsertedTexts)  OBVIOUS
    <2>2. QED  BY <1>1, <1>12, <2>1 DEF SameFile
  <1>13. CASE Told(out, SubSeq(t, 1, a)) /\ (quit => unread = <<>>)
    <2>1. out \o pattern_space \in Seq(Item) /\ Told(out \o pattern_space, SubSeq(t, 1, b))
      <3>1. /\ out \o SubSeq(t, a + 1, b) \in Seq(Item)
            /\ Told(out \o SubSeq(t, a + 1, b), SubSeq(t, 1, b))
        BY <1>2, <1>3, <1>13, TellsLines, Zenon
      <3>2. QED  BY <1>8, <3>1
    <2>2. Told(out', SubSeq(t, 1, b)) /\ out' \in Seq(Item)  BY <1>9, <1>10, <1>11, <2>1, Zenon
    <2>3. SameFile  BY <1>12, <2>2
    <2>4. CASE ~quit
      BY <1>1, <1>8, <1>9, <2>2, <2>3, <2>4, ReadInOrder, Zenon DEF t
    <2>5. CASE quit
      <3>1. b = Len(t)  BY <1>4, <1>8, <1>9, <1>13, <2>5, AtLastLine
      <3>2. SubSeq(t, 1, b) = t  BY <1>3, <3>1, SubSeqFull
      <3>3. Gives(FileNumber, t)
        <4>1. TextOf(FileNumber) \in Seq(OwnLines)  BY <1>3 DEF t, OpenText
        <4>2. Gives(FileNumber, TextOf(FileNumber))  BY <4>1, TextGiven
        <4>3. QED  BY <4>2 DEF t, OpenText
      <3>4. Told(out', t)  BY <2>2, <3>2, Zenon
      <3>5. QED  BY <1>1, <2>3, <2>5, <3>3, <3>4, EofInOrder
    <2>6. QED  BY <2>4, <2>5
  <1>14. CASE quit /\ unread = <<>> /\ Uses({"n"}) /\ Told(out, t)
    <2> DEFINE more == t \o SubSeq(t, a + 1, Len(t))
    <2>1. b = Len(t)  BY <1>4, <1>8, <1>9, <1>14, AtLastLine
    <2>2. out \o pattern_space \in Seq(Item) /\ Told(out \o pattern_space, more) /\ more \in Seq(OwnLines)
      <3> DEFINE x == SubSeq(t, a + 1, Len(t))
      <3>1. x \in Seq(OwnLines)
        <4>1. a + 1 \in Int /\ Len(t) \in Int /\ \A j \in (a + 1)..Len(t) : t[j] \in OwnLines
          BY <1>3, <1>9
        <4>2. QED  BY <4>1, SubSeqProperties
      <3>2. pattern_space = x  BY <1>8, <2>1
      <3> HIDE DEF x
      <3>3. OwnLines \subseteq Item  BY <1>2, TextFacts DEF Item
      <3>4. x \in Seq(Item)  BY <3>1, <3>3, SeqMonotonic
      <3>5. Told(out \o x, t \o Among(x, OwnLines))
        BY <1>2, <1>3, <1>14, <3>4, TellsMore, Zenon
      <3>6. Among(x, OwnLines) = x  BY <3>1, AmongItself
      <3>7. t \o x \in Seq(OwnLines) /\ out \o x \in Seq(Item)  BY <1>2, <1>3, <3>1, <3>4, ConcatProperties
      <3>8. QED  BY <3>2, <3>5, <3>6, <3>7, Zenon DEF x
    <2>3. Gives(FileNumber, more)
      <3>1. a + 1 \in 1..(Len(t) + 1)  BY <1>3, <1>9
      <3>2. more \in Twice(t)  BY <3>1, Zenon DEF Twice
      <3>3. more \in Twice(TextOf(FileNumber))  BY <3>2 DEF t, OpenText
      <3> HIDE DEF more
      <3>4. QED  BY <1>14, <3>3 DEF Gives
    <2> HIDE DEF more
    <2>4. Told(out', more) /\ out' \in Seq(Item)  BY <1>10, <2>2
    <2>5. SameFile  BY <1>12, <2>4
    <2>6. QED  BY <1>1, <1>14, <2>3, <2>4, <2>5, EofInOrder
  <1>15. QED  BY <1>8, <1>13, <1>14

\* All files may be printed as they are.
LEMMA TextsGiven ==
    ASSUME JobAssumption, job \in Jobs
    PROVE  [p \in DOMAIN job.paths |-> TextOf(p)] \in Given
PROOF
  <1> DEFINE texts == [p \in DOMAIN job.paths |-> TextOf(p)]
  <1>1. \A p \in DOMAIN job.paths : TextOf(p) \in Seq(OwnLines)  BY TextFacts
  <1>2. \A p \in DOMAIN job.paths : Gives(p, TextOf(p))  BY <1>1, TextGiven
  <1>3. \A p \in DOMAIN job.paths : TextOf(p) \in UNION {Twice(TextOf(q)) : q \in DOMAIN job.paths}
    BY <1>2 DEF Gives
  <1>4. texts \in [DOMAIN job.paths -> UNION {Twice(TextOf(p)) : p \in DOMAIN job.paths}]
    BY <1>3
  <1>5. \A p \in DOMAIN job.paths : Gives(p, texts[p])  BY <1>2
  <1> HIDE DEF texts
  <1>6. texts \in Given  BY <1>4, <1>5 DEF Given
  <1>7. QED  BY <1>6 DEF texts

\* Before anything is read, nothing is told.
LEMMA InOrderInit ==
    ASSUME JobAssumption, SedInit
    PROVE  ByOrder
PROOF
  <1> DEFINE n == Len(job.paths)
             texts == [p \in DOMAIN job.paths |-> TextOf(p)]
  <1>1. /\ job \in Jobs /\ disk = job.files /\ left = job.paths /\ phase = "open" /\ out = <<>>
        /\ append_queue = <<>> /\ read_queue = <<>>
    BY DEF SedInit
  <1>2. /\ job.paths \in Seq(FileNames) /\ DOMAIN job.paths = 1..n /\ n \in Nat
        /\ \A p \in DOMAIN job.paths : TextOf(p) \in Seq(OwnLines)
        /\ Given \subseteq [1..n -> Seq(OwnLines)]
    BY <1>1, TextFacts
  <1>3. FileNumber = 1 /\ FileNumber - 1 = 0  BY <1>1, <1>2 DEF FileNumber
  <1>4. SubSeq(job.paths, 1, n) = job.paths  BY <1>2, SubSeqFull
  <1>5. texts \in Given  BY <1>1, TextsGiven
  <1>6. Told(out, <<>>)
    <2>1. <<>> \in Seq(OwnLines)  OBVIOUS
    <2>2. Among(<<>>, OwnLines) = <<>>  BY <2>1, AmongFacts, Zenon
    <2>3. Pieces(texts, 0) = <<>>
      <3>1. texts \in [1..n -> Seq(OwnLines)]  BY <1>2, <1>5
      <3> HIDE DEF texts, n
      <3>2. QED  BY <1>2, <3>1, PiecesFacts, Zenon
    <2>4. <<>> \o <<>> = <<>>  BY <2>1, ConcatEmptySeq
    <2> HIDE DEF texts
    <2>5. QED  BY <1>1, <1>3, <1>5, <2>2, <2>3, <2>4 DEF Told
  <1>7. out \in Seq(Item) /\ append_queue \in Seq(InsertedTexts) /\ read_queue = <<>>
    BY <1>1
  <1>8. InOrder  BY <1>1, <1>2, <1>3, <1>4, <1>6, <1>7 DEF InOrder
  <1>9. QED  BY <1>8 DEF ByOrder

\* Every step keeps the order: it opens a file, takes a line, prints or queues, or goes
\* on to the next file.
LEMMA InOrderNext ==
    ASSUME JobAssumption, EditInv, ByOrder, [SedNext]_sedVars
    PROVE  ByOrder'
PROOF
  <1>1. /\ SedTypeOK /\ job \in Jobs /\ left \in Seq(FileNames)
        /\ phase \in {"backup", "replace"} => job.inPlace
    BY DEF EditInv, Shape
  <1>2. job' = job
    BY DEF SedNext, Files, Open, Passes, Return, EndOfFile, NextFile, ReadLine, ReadError, EndCycle,
           InPlace, Flush, BackUp, Replace, Kill, SedTerminated, sedVars, ScriptStep, Skip, Prints, Substitute,
           Transliterate, Delete, Quit, AppendText, Change, NextLine, NextAppend, WriteTo, ReadFrom, At
  <1>3. SUFFICES ASSUME KeepsLines PROVE InOrder'
    <2>1. KeepsLines' <=> KeepsLines  BY <1>2, SameFiles
    <2>2. QED  BY <2>1 DEF ByOrder
  <1>4. InOrder  BY <1>3 DEF ByOrder
  <1>5. CASE Open        BY <1>1, <1>3, <1>4, <1>5, OpenInOrder
  <1>6. CASE Passes      BY <1>1, <1>3, <1>4, <1>6, PassesInOrder
  <1>7. CASE Return      BY <1>4, <1>7, ReturnInOrder
  <1>8. CASE EndOfFile
    <2>1. left # <<>>  BY <1>1, <1>8 DEF EndOfFile, SedTypeOK
    <2>2. QED  BY <1>1, <1>4, <1>8, <2>1, EndOfFileInOrder
  <1>9. CASE NextFile
    <2>1. left # <<>>  BY <1>1, <1>9 DEF NextFile, SedTypeOK
    <2>2. QED  BY <1>1, <1>4, <1>9, <2>1, NextFileInOrder
  <1>10. CASE ReadLine
    <2>1. left # <<>>  BY <1>1, <1>10 DEF ReadLine, SedTypeOK
    <2>2. QED  BY <1>1, <1>4, <1>10, <2>1, ReadLineInOrder
  <1>11. CASE ScriptStep  BY <1>1, <1>3, <1>4, <1>11, ScriptStepInOrder
  <1>12. CASE EndCycle    BY <1>1, <1>3, <1>4, <1>12, EndCycleInOrder
  <1>13. ~Flush /\ ~BackUp /\ ~Replace /\ ~Kill /\ ~ReadError
    BY <1>1, <1>3 DEF KeepsLines, Flush, BackUp, Replace, Kill, ReadError
  <1>14. CASE UNCHANGED sedVars
    <2>1. /\ job' = job /\ left' = left /\ disk' = disk /\ out' = out /\ phase' = phase
          /\ append_queue' = append_queue /\ read_queue' = read_queue /\ unread' = unread
          /\ pattern_space' = pattern_space /\ (deleted' <=> deleted) /\ (quit' <=> quit)
          /\ change_text' = change_text
      BY <1>14 DEF sedVars, cycle, queues, edit
    <2>2. /\ OwnLines' = OwnLines /\ InsertedTexts' = InsertedTexts /\ Given' = Given
          /\ (Uses({"n"})' <=> Uses({"n"})) /\ (\A p, x : Gives(p, x)' <=> Gives(p, x))
          /\ FileNumber' = FileNumber /\ OpenText' = OpenText
      BY <2>1, SameFiles
    <2>3. \A lines, more : Told(lines, more)' <=> Told(lines, more)  BY <2>2 DEF Told
    <2>4. \A a, b : Holding(a, b)' <=> Holding(a, b)  BY <2>1, <2>2, Zenon DEF Holding, Told
    <2>5. (\E lines : Gives(FileNumber, lines) /\ Told(out, lines))
             <=> (\E lines : Gives(FileNumber, lines) /\ Told(out, lines))'
      BY <2>1, <2>2 DEF Told, Gives, TextOf, Uses, script
    <2>6. /\ Told(out, <<>>)' <=> Told(out, <<>>)
          /\ \A a : Told(out, SubSeq(OpenText, 1, a))' <=> Told(out, SubSeq(OpenText, 1, a))
      BY <2>1, <2>2 DEF Told
    <2>7. QED  BY <1>4, <2>1, <2>2, <2>4, <2>5, <2>6, Zenon DEF InOrder
  <1>15. QED
    BY <1>5, <1>6, <1>7, <1>8, <1>9, <1>10, <1>11, <1>12, <1>13, <1>14
    DEF SedNext, Files, InPlace, SedTerminated

\* At the end that is NoneLost.
LEMMA InOrderIsNoneLost ==
    ASSUME JobAssumption, EditInv, ByOrder
    PROVE  NoneLost
PROOF
  <1> DEFINE n == Len(job.paths)
             texts == [p \in DOMAIN job.paths |-> TextOf(p)]
             S == OwnLines
  <1>1. SUFFICES ASSUME phase = "done", KeepsLines
                 PROVE  /\ \E parts \in [DOMAIN job.paths -> UNION {Twice(texts[p]) : p \in DOMAIN job.paths}] :
                              /\ \A p \in DOMAIN job.paths : parts[p] \in Twice(texts[p])
                              /\ Among(out, S) = SeqExt!FlattenSeq(parts)
                        /\ ~Uses({"n"}) => Among(out, S) = SeqExt!FlattenSeq(texts)
    BY Zenon DEF NoneLost
  <1>2. InOrder  BY <1>1 DEF ByOrder
  <1>3. job \in Jobs  BY DEF EditInv, SedTypeOK
  <1>4. DOMAIN job.paths = 1..n /\ n \in Nat /\ Given \subseteq [1..n -> Seq(S)]  BY <1>3, TextFacts
  <1>5. FileNumber - 1 = n
    <2>1. left = <<>>  BY <1>1, <1>2 DEF InOrder
    <2>2. QED  BY <1>4, <2>1 DEF FileNumber
  <1>6. Told(out, <<>>)  BY <1>1, <1>2 DEF InOrder
  <1>7. PICK parts \in Given : Among(out, S) = Pieces(parts, n) \o <<>>  BY <1>5, <1>6 DEF Told
  <1>8. /\ \A p \in DOMAIN job.paths : Gives(p, parts[p])
        /\ parts \in [DOMAIN job.paths -> UNION {Twice(TextOf(p)) : p \in DOMAIN job.paths}]
    BY DEF Given
  <1>9. parts \in [1..n -> Seq(S)]  BY <1>4
  <1>10. Among(out, S) = SeqExt!FlattenSeq(parts)
    <2>1. Pieces(parts, n) \in Seq(S)
      <3> HIDE DEF n, S
      <3>1. n \in 0..n  BY <1>4
      <3>2. QED  BY <1>4, <1>9, <3>1, PiecesFacts, Zenon
    <2>2. Pieces(parts, n) \o <<>> = Pieces(parts, n)
      <3> HIDE DEF n, S
      <3>1. QED  BY <2>1, ConcatEmptySeq
    <2>3. [j \in 1..n |-> parts[j]] = parts  BY <1>9
    <2>4. Pieces(parts, n) = SeqExt!FlattenSeq(parts)  BY <2>3 DEF Pieces
    <2>5. QED  BY <1>7, <2>2, <2>4
  <1>11. \A p \in DOMAIN job.paths : texts[p] = TextOf(p)  OBVIOUS
  <1>12. \A p \in DOMAIN job.paths : parts[p] \in Twice(texts[p])  BY <1>8, <1>11 DEF Gives
  <1>13. ~Uses({"n"}) => parts = texts
    <2>1. ~Uses({"n"}) => \A p \in DOMAIN job.paths : parts[p] = texts[p]  BY <1>8, <1>11 DEF Gives
    <2>2. DOMAIN parts = DOMAIN job.paths /\ DOMAIN texts = DOMAIN job.paths  BY <1>8
    <2>3. parts = [p \in DOMAIN job.paths |-> parts[p]]  BY <1>8
    <2>4. QED  BY <2>1, <2>3, Zenon
  <1> HIDE DEF texts, S, n
  <1>14. parts \in [DOMAIN job.paths -> UNION {Twice(texts[p]) : p \in DOMAIN job.paths}]
    <2>1. parts = [p \in DOMAIN job.paths |-> parts[p]]  BY <1>8
    <2>2. \A p \in DOMAIN job.paths : parts[p] \in UNION {Twice(texts[q]) : q \in DOMAIN job.paths}
      BY <1>12
    <2>3. QED  BY <2>1, <2>2
  <1>15. QED  BY <1>10, <1>12, <1>13, <1>14

\* What sed prints of every line, and leaves in every file, is what the script's commands
\* mean in the dialect of sed.cpp, if no call fails; and with n or N no line is lost, moved or, but for those in
\* the pattern space when n finds the end of a file, printed twice (sed.cpp: process_file,
\* execute_command and sed_command's loop over the files).
THEOREM PrintsAsMeant ==
    ASSUME JobAssumption
    PROVE  SedSpec => []AsMeant
PROOF
  <1>1. SedInit => ByMeaning /\ ByOrder  BY ByMeaningInit, InOrderInit
  <1>2. EditInv /\ ByMeaning /\ ByOrder /\ [SedNext]_sedVars => ByMeaning' /\ ByOrder'
    BY ByMeaningNext, InOrderNext
  <1>3. EditInv /\ ByMeaning /\ ByOrder => AsMeant
    BY ByMeaningIsLineByLine, InOrderIsNoneLost DEF AsMeant
  <1>4. SedSpec => []EditInv  BY EditInvAlways
  <1>5. QED  BY <1>1, <1>2, <1>3, <1>4, PTL DEF SedSpec
=============================================================================
