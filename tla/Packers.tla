------------------------------ MODULE Packers ------------------------------
(***************************************************************************)
(* `modbox gzip`, `bzip2`, `xz` and `zstd` (src/src/commands/gzip.cpp,     *)
(* bzip2.cpp, xz.cpp, zstd.cpp, src/include/commands/compress_util.hpp):   *)
(* a command reads a file whole, writes another one beside it and removes  *)
(* the first.                                                              *)
(*                                                                         *)
(* A file is a sequence of pieces: letters, which are what users care for, *)
(* and the two halves of packed streams.  Packed streams are not packed    *)
(* again.  A name is a stem with its suffixes; the suffix of a tool is     *)
(* written as the tool's name.  There are no links, so that a file is told *)
(* by its name and a number: those of one name are numbered as they are    *)
(* created, and only the last can still be in the directory.               *)
(*                                                                         *)
(* A definition Name_Fault is Name with a plausible mistake in it, used    *)
(* only to show which property notices.                                    *)
(***************************************************************************)
EXTENDS Naturals, Sequences, FiniteSets

SeqExt == INSTANCE SequencesExt

CONSTANTS
    Users,    \* who runs commands, one each
    Stems,
    Names,
    Letters,
    Hole,     \* what lies between the end of a file and a write beyond it
    Wrap,     \* the first size, in pieces, that 32 bits do not hold
    Scenes    \* who runs what, where, and what happens

Tools == {"gzip", "bzip2", "xz", "zstd"}
Job == [tool : Tools, mode : {"pack", "unpack", "test", "list"}, stdout : BOOLEAN,
        keep : BOOLEAN, rm : BOOLEAN, force : BOOLEAN, paths : Seq(Names)]
Text == Letters \cup {Hole}
Stream == [tool : Tools, of : Seq(Text), part : {"head", "tail"}]
Piece == Text \cup Stream

Suffixed(tool, n) == n[Len(n)] = tool

\* A name without the suffix is its own target, except for bunzip2.
Target(j, n) ==
    IF j.mode = "pack" THEN Append(n, j.tool)
    ELSE IF Suffixed(j.tool, n) THEN SubSeq(n, 1, Len(n) - 1)
    ELSE IF j.tool = "bzip2" THEN Append(n, "out") ELSE n

\* Whether a command makes a file of what is in another.
Acts(j, n) ==
    j.mode \in {"pack", "unpack"} /\ ~j.stdout /\ ~(j.mode = "pack" /\ Suffixed(j.tool, n))

ASSUME PackersAssumption ==
    /\ Wrap \in Nat \ {0}
    /\ Letters \cap Stream = {} /\ Hole \notin Letters \cup Stream
    /\ Names \subseteq Seq(Stems \cup Tools \cup {"out"}) \ {<<>>}
    /\ \A s \in Scenes :
          /\ s.alone \in BOOLEAN    \* one command at a time
          /\ s.mishaps \in BOOLEAN  \* commands are killed, and calls fail
          /\ s.job \in [Users -> Job]
          /\ DOMAIN s.folder \subseteq Names
          /\ s.folder \in [DOMAIN s.folder -> Seq(Piece)]
          /\ \A u \in Users : \A i \in DOMAIN s.job[u].paths :
                LET j == s.job[u]
                    n == j.paths[i]
                IN  Acts(j, n) =>
                      /\ Target(j, n) \in Names
                      /\ j.mode = "pack" =>
                            n[Len(n)] \notin Tools /\ (n \in DOMAIN s.folder => s.folder[n] \in Seq(Text))

VARIABLES
    scene,
    files,   \* the contents of all files there have ever been, for each name
    there,   \* whether the last of them is in the directory
    pc,
    left,    \* the paths still to be processed
    src,     \* the number of the open source
    got,     \* what has been read of it
    out,     \* what is to be written
    dst,     \* the number of the open target
    at,      \* how much has been written
    status,  \* the exit status
    dear,    \* the letters that were there at the beginning
    huge     \* whether a file was made of one whose size does not fit

vars == <<scene, files, there, pc, left, src, got, out, dst, at, status, dear, huge>>
disk == <<files, there>>
given == <<scene, dear, huge>>

job == scene.job
Path(u) == Head(left[u])
Goto(u, where) == pc' = [pc EXCEPT ![u] = where]

(***************************************************************************)
(* The formats.  All tools but zstd tell their libraries the size of the   *)
(* input in 32 bits: of what is larger, the library sees the first         *)
(* size % 2^32 bytes.                                                      *)
(***************************************************************************)
Fits(tool, c) == tool = "zstd" \/ Len(c) < Wrap
Cast(c) == SubSeq(c, 1, Len(c) % Wrap)

OneStream(tool, c) ==
    <<[tool |-> tool, of |-> c, part |-> "head"], [tool |-> tool, of |-> c, part |-> "tail"]>>

\* The sum and the size at the end of a gzip stream are cut in the same way,
\* so that it is sound.
Gzip(c) == OneStream("gzip", Cast(c))
Bzip2(c) == OneStream("bzip2", Cast(c))
Xz(c) == OneStream("xz", Cast(c))
Zstd(c) == OneStream("zstd", c)

Pack(tool, c) ==
    CASE tool = "gzip" -> Gzip(c)
      [] tool = "bzip2" -> Bzip2(c)
      [] tool = "xz" -> Xz(c)
      [] tool = "zstd" -> Zstd(c)

IsHead(tool, x) == x \notin Text /\ x.tool = tool /\ x.part = "head"
IsStream(tool, c, i) == IsHead(tool, c[i]) /\ i < Len(c) /\ c[i + 1] = [c[i] EXCEPT !.part = "tail"]

\* How many whole streams of a tool a file begins with, and what is behind them.
Leading(tool, c) ==
    LET ks == {k \in 0..Len(c) : 2 * k <= Len(c) /\ \A i \in 1..k : IsStream(tool, c, 2 * i - 1)}
    IN  CHOOSE k \in ks : \A l \in ks : l <= k
Rest(tool, c) == SubSeq(c, 2 * Leading(tool, c) + 1, Len(c))

Joined(c, k) == SeqExt!FlattenSeq([i \in 1..k |-> c[2 * i - 1].of])

Bad == [res |-> "bad", out |-> <<>>]
Never == [res |-> "never", out |-> <<>>]
Good(c) == [res |-> "ok", out |-> c]

\* The first stream, checked against the sum at the end of the file, and its
\* size, which is not cut here.
Gunzip(c) ==
    IF Leading("gzip", Cast(c)) > 0 /\ c[Len(c)] = c[2] /\ Len(c[1].of) < Wrap
    THEN Good(c[1].of) ELSE Bad

\* All streams.  libbz2 asks for more input, which is no error, as long as
\* there is none: a file that ends early is decoded for ever.  An empty file
\* has no stream and nothing wrong.
AllBzip2(c) ==
    LET rest == Rest("bzip2", c)
    IN  IF rest = <<>> THEN Good(Joined(c, Leading("bzip2", c)))
        ELSE IF Len(rest) = 1 /\ IsHead("bzip2", rest[1]) THEN Never ELSE Bad

\* What libbz2 leaves of what it sees is taken for the end of the file.
Bunzip2(c) ==
    LET seen == Cast(c)
        more == AllBzip2(SubSeq(c, Len(c) - Len(seen) + 3, Len(c)))
    IN  IF Len(c) < Wrap THEN AllBzip2(c)
        ELSE IF Leading("bzip2", seen) > 0 THEN [more EXCEPT !.out = c[1].of \o @]
        ELSE IF seen = <<>> THEN Never ELSE AllBzip2(seen)

\* The first stream, whatever follows.
Unxz_Waits(c) ==
    IF Leading("xz", Cast(c)) > 0 THEN Good(c[1].of)
    ELSE IF Len(c) = 1 /\ IsHead("xz", c[1]) THEN Never ELSE Bad

Unxz(c) == IF Leading("xz", Cast(c)) > 0 THEN Good(c[1].of) ELSE Bad

\* All streams, into a buffer with the size of the first.
Unzstd(c) ==
    LET k == Leading("zstd", c)
    IN  IF k > 0 /\ Rest("zstd", c) = <<>> /\ Len(Joined(c, k)) <= Len(c[1].of)
        THEN Good(Joined(c, k)) ELSE Bad

Unpack(tool, c) ==
    CASE tool = "gzip" -> Gunzip(c)
      [] tool = "bzip2" -> Bunzip2(c)
      [] tool = "xz" -> Unxz(c)
      [] tool = "zstd" -> Unzstd(c)

Keeps(j) == j.keep /\ ~(j.tool = "zstd" /\ j.mode = "pack" /\ j.rm)

----------------------------------------------------------------------------

LettersOf(c) ==
    {x \in Letters : \E i \in DOMAIN c :
        c[i] = x \/ \E t \in Tools : IsStream(t, c, i) /\ \E k \in DOMAIN c[i].of : c[i].of[k] = x}

Init ==
    /\ scene \in Scenes
    /\ LET f == scene.folder IN
       /\ there = [n \in Names |-> n \in DOMAIN f]
       /\ files = [n \in Names |-> IF n \in DOMAIN f THEN <<f[n]>> ELSE <<>>]
       /\ dear = UNION {LettersOf(f[n]) : n \in DOMAIN f}
    /\ pc = [u \in Users |-> "idle"]
    /\ left = [u \in Users |-> job[u].paths]
    /\ src = [u \in Users |-> 0] /\ dst = [u \in Users |-> 0] /\ at = [u \in Users |-> 0]
    /\ got = [u \in Users |-> <<>>] /\ out = [u \in Users |-> <<>>]
    /\ status = [u \in Users |-> 0]
    /\ huge = FALSE

Start(u) ==
    /\ pc[u] = "idle"
    /\ scene.alone => \A v \in Users : pc[v] \in {"idle", "done"}
    /\ Goto(u, "source")
    /\ UNCHANGED <<given, disk, left, src, got, out, dst, at, status>>

Combined_Sum(s, r) == s + r
Combined(s, r) == IF r = 0 THEN s ELSE r

\* On to the next path, with what this one adds to the exit status.
NextPath(u, s) ==
    /\ Goto(u, "source")
    /\ left' = [left EXCEPT ![u] = Tail(@)]
    /\ src' = [src EXCEPT ![u] = 0] /\ dst' = [dst EXCEPT ![u] = 0] /\ at' = [at EXCEPT ![u] = 0]
    /\ got' = [got EXCEPT ![u] = <<>>] /\ out' = [out EXCEPT ![u] = <<>>]
    /\ status' = [status EXCEPT ![u] = Combined(@, s)]
    /\ UNCHANGED given

Source(u) ==
    /\ pc[u] = "source" /\ left[u] # <<>>
    /\ IF there[Path(u)]
       THEN /\ src' = [src EXCEPT ![u] = Len(files[Path(u)])]
            /\ Goto(u, "read")
            /\ UNCHANGED <<given, left, got, out, dst, at, status>>
       ELSE NextPath(u, 1)
    /\ UNCHANGED disk

Read(u) ==
    /\ pc[u] = "read"
    /\ LET c == files[Path(u)][src[u]] IN
       IF Len(got[u]) < Len(c)
       THEN got' = [got EXCEPT ![u] = Append(@, c[Len(@) + 1])] /\ UNCHANGED pc
       ELSE Goto(u, "code") /\ UNCHANGED got
    /\ UNCHANGED <<given, disk, left, src, out, dst, at, status>>

\* zstd -l looks at the name before anything else.
Lists(u) ==
    /\ pc[u] = "code" /\ job[u].mode = "list"
    /\ NextPath(u, IF Suffixed(job[u].tool, Path(u)) THEN 0 ELSE 1)
    /\ UNCHANGED disk

Skips(u) ==
    /\ pc[u] = "code" /\ job[u].mode = "pack" /\ Suffixed(job[u].tool, Path(u))
    /\ NextPath(u, IF job[u].tool = "bzip2" THEN 1 ELSE 0)
    /\ UNCHANGED disk

\* The compressor or the decoder, from memory to memory.
Result(j, c) == IF j.mode = "pack" THEN Good(Pack(j.tool, c)) ELSE Unpack(j.tool, c)

Code(u) ==
    /\ pc[u] = "code" /\ job[u].mode # "list"
    /\ ~(job[u].mode = "pack" /\ Suffixed(job[u].tool, Path(u)))
    /\ LET r == Result(job[u], got[u]) IN
       CASE r.res = "bad" -> NextPath(u, 1)
         [] r.res = "never" -> UNCHANGED vars
         [] r.res = "ok" /\ (job[u].stdout \/ job[u].mode = "test") -> NextPath(u, 0)
         [] OTHER -> /\ out' = [out EXCEPT ![u] = r.out]
                     /\ huge' = (huge \/ ~Fits(job[u].tool, got[u]))
                     /\ Goto(u, IF job[u].force THEN "open" ELSE "stat")
                     /\ UNCHANGED <<scene, dear, left, src, got, dst, at, status>>
    /\ UNCHANGED disk

(***************************************************************************)
(* write_output_file, and what follows.                                    *)
(***************************************************************************)
To(u) == Target(job[u], Path(u))

Stat_Forgotten(u) ==
    /\ pc[u] = "stat"
    /\ Goto(u, "open")
    /\ UNCHANGED <<given, disk, left, src, got, out, dst, at, status>>

Stat(u) ==
    /\ pc[u] = "stat"
    /\ IF there[To(u)] THEN NextPath(u, 1)
       ELSE Goto(u, "open") /\ UNCHANGED <<given, left, src, got, out, dst, at, status>>
    /\ UNCHANGED disk

\* fopen(..., "wb") empties the file that is there, or makes one.
Open(u) ==
    /\ pc[u] = "open"
    /\ LET t == To(u) IN
       /\ files' = [files EXCEPT ![t] =
                       IF there[t] THEN [@ EXCEPT ![Len(@)] = <<>>] ELSE Append(@, <<>>)]
       /\ there' = [there EXCEPT ![t] = TRUE]
       /\ dst' = [dst EXCEPT ![u] = Len(files'[t])]
    /\ Goto(u, "write")
    /\ UNCHANGED <<given, left, src, got, out, at, status>>

Larger(m, n) == IF m < n THEN n ELSE m
Placed(c, i, x) ==
    [k \in 1..Larger(Len(c), i) |-> IF k = i THEN x ELSE IF k <= Len(c) THEN c[k] ELSE Hole]

Write(u) ==
    /\ pc[u] = "write"
    /\ IF at[u] < Len(out[u])
       THEN /\ files' = [files EXCEPT ![To(u)][dst[u]] = Placed(@, at[u] + 1, out[u][at[u] + 1])]
            /\ at' = [at EXCEPT ![u] = @ + 1]
            /\ UNCHANGED <<given, there, pc, left, src, got, out, dst, status>>
       ELSE /\ IF Keeps(job[u]) THEN NextPath(u, 0)
               ELSE Goto(u, "remove") /\ UNCHANGED <<given, left, src, got, out, dst, at, status>>
            /\ UNCHANGED disk

\* Whether it fails is not looked at.
Remove(u) ==
    /\ pc[u] = "remove"
    /\ \/ there' = [there EXCEPT ![Path(u)] = FALSE]
       \/ scene.mishaps /\ UNCHANGED there
    /\ NextPath(u, 0)
    /\ UNCHANGED files

Fails_Ignored(u) ==
    /\ scene.mishaps /\ pc[u] \in {"source", "read", "open", "write"} /\ left[u] # <<>>
    /\ IF pc[u] = "write"
       THEN Goto(u, "remove") /\ UNCHANGED <<given, left, src, got, out, dst, at, status>>
       ELSE NextPath(u, 1)
    /\ UNCHANGED disk

\* No permission, a read error, a full disk: what has been written stays.
Fails(u) ==
    /\ scene.mishaps /\ pc[u] \in {"source", "read", "open", "write"} /\ left[u] # <<>>
    /\ NextPath(u, 1)
    /\ UNCHANGED disk

Return(u) ==
    /\ pc[u] = "source" /\ left[u] = <<>>
    /\ Goto(u, "done")
    /\ UNCHANGED <<given, disk, left, src, got, out, dst, at, status>>

Kill(u) ==
    /\ scene.mishaps /\ pc[u] \notin {"idle", "done"}
    /\ Goto(u, "done")
    /\ status' = [status EXCEPT ![u] = 137]
    /\ UNCHANGED <<given, disk, left, src, got, out, dst, at>>

Step(u) ==
    \/ Source(u) \/ Read(u) \/ Lists(u) \/ Skips(u) \/ Code(u) \/ Stat(u) \/ Open(u) \/ Write(u)
    \/ Remove(u) \/ Return(u)

Terminated == (\A u \in Users : pc[u] = "done") /\ UNCHANGED vars

Next == (\E u \in Users : Start(u) \/ Step(u) \/ Fails(u) \/ Kill(u)) \/ Terminated

Spec == Init /\ [][Next]_vars /\ \A u \in Users : WF_vars(Step(u))

----------------------------------------------------------------------------

\* The values each variable ranges over.
TypeOK ==
    /\ scene.alone \in BOOLEAN /\ scene.mishaps \in BOOLEAN /\ dear \subseteq Letters /\ huge \in BOOLEAN
    /\ files \in [Names -> Seq(Seq(Piece))]
    /\ there \in [Names -> BOOLEAN] /\ \A n \in Names : there[n] => files[n] # <<>>
    /\ pc \in [Users -> {"idle", "source", "read", "code", "stat", "open", "write", "remove", "done"}]
    /\ left \in [Users -> Seq(Names)]
    /\ src \in [Users -> Nat] /\ dst \in [Users -> Nat] /\ at \in [Users -> Nat]
    /\ got \in [Users -> Seq(Piece)] /\ out \in [Users -> Seq(Piece)]
    /\ status \in [Users -> {0, 1, 137}]

Content(n) == files[n][Len(files[n])]

\* No command writes what another, or itself, reads, and what two commands
\* write they make of the same file in the same way.
Apart ==
    \A u, v \in Users : \A i \in DOMAIN job[u].paths, k \in DOMAIN job[v].paths :
        LET n == job[u].paths[i]
            m == job[v].paths[k]
        IN  Acts(job[u], n) /\ Acts(job[v], m) =>
                /\ Target(job[u], n) # m
                /\ Target(job[u], n) = Target(job[v], m) =>
                      n = m /\ job[u].tool = job[v].tool /\ job[u].mode = job[v].mode

\* gunzip and unxz make a file of the first stream, and drop the others.
FirstIsAll(c) ==
    \A t \in {"gzip", "xz"} : Leading(t, c) > 0 => LettersOf(c) \subseteq LettersOf(c[1].of)

\* Commands that one would trust with one's files: none forces anything, and
\* they run one at a time, or apart and without mishaps.  (An archive in the
\* making, or a file that is just being unpacked, is read as far as it goes.)
Trusted ==
    /\ \A u \in Users : ~job[u].force
    /\ scene.alone \/ (~scene.mishaps /\ Apart)
    /\ \A n \in DOMAIN scene.folder : FirstIsAll(scene.folder[n])

InHand == UNION {LettersOf(out[u]) : u \in {v \in Users : pc[v] = "write" /\ ~scene.mishaps}}

\* Whatever fails, wherever commands are killed or meet, everything that was
\* in the files is in some whole file of the directory, or being written by
\* a command that nothing will stop.  Only where a file has been made of one
\* of 2^32 bytes or more, by another tool than zstd, is that not so.
Survives ==
    Trusted /\ ~huge => dear \subseteq InHand \cup UNION {LettersOf(Content(n)) : n \in {m \in Names : there[m]}}

\* What a file with these contents stands for: all its streams, one by one.
Meant(j, c) ==
    IF j.mode = "pack" THEN OneStream(j.tool, c) ELSE Joined(c, Leading(j.tool, c))

\* Before a source goes, its target is there and has all that the source has,
\* whatever other paths the command line names.  (gunzip and unxz know only
\* one stream, a forced target may be the source, and all tools but zstd see
\* only a part of a source of 2^32 bytes or more.)
SafeToRemove ==
    \A u \in Users :
        (/\ pc[u] = "remove" /\ scene.alone /\ To(u) # Path(u) /\ Fits(job[u].tool, got[u])
         /\ job[u].mode = "unpack" /\ job[u].tool \in {"gzip", "xz"} => Leading(job[u].tool, got[u]) = 1)
            => there[To(u)] /\ Content(To(u)) = Meant(job[u], Content(Path(u)))

\* A command ends, whatever the files contain; only bunzip2 may not.
Ends ==
    \A u \in Users :
        (pc[u] # "idle" /\ (job[u].tool = "bzip2" => job[u].mode = "pack")) ~> (pc[u] = "done")
=============================================================================
