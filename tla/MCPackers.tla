----------------------------- MODULE MCPackers -----------------------------
(***************************************************************************)
(* Scenes for the model-checking run of Packers: one stem, and two users   *)
(* who run commands on it, at the same time, or in turn and with mishaps.  *)
(***************************************************************************)
EXTENDS Packers, TLC

CONSTANTS base, a, b, u1, u2

Stem == <<base>>
Suf(t) == Append(Stem, t)
OneStem == {Stem, Append(Stem, "out")} \cup {Suf(t) : t \in Tools}

Line(tool, mode, options, paths) ==
    [tool |-> tool, mode |-> mode, stdout |-> "c" \in options, keep |-> "k" \in options,
     rm |-> "rm" \in options, force |-> "f" \in options, paths |-> paths]

Packs(t) ==
    {Line(t, "pack", o, <<Stem>>) : o \in {{}, {"k", "rm"}, {"f"}, {"c"}}}
    \cup {Line(t, "pack", {}, p) : p \in {<<Stem, Suf(t)>>, <<Suf(t), Stem>>}}
Unpacks(t) ==
    {Line(t, "unpack", o, <<Suf(t)>>) : o \in {{}, {"k"}, {"f"}, {"c"}}}
    \cup {Line(t, m, {}, <<Suf(t)>>) : m \in IF t = "bzip2" THEN {"test"} ELSE {}}
    \cup {Line(t, m, {}, <<Stem, Suf(t)>>) : m \in IF t = "zstd" THEN {"list"} ELSE {}}
\* What the other user runs.
Common(t) == {Line(t, "unpack", {}, <<Suf(t)>>), Line(t, "unpack", {"f"}, <<Suf(t)>>)}
Misuses(t) == {Line(t, "unpack", {"f"}, <<Stem>>)}

Packed(t) == Pack(t, <<a, b>>)
\* More than fits: what is left of it when it is cut is one letter, one half
\* of a stream, or a whole stream.
Long == <<a, b, a, b, b, b>>
Longer(t) == {Packed(t) \o Packed(t) \o Packed(t), Packed(t) \o Pack(t, <<b>>) \o Packed(t) \o <<a>>}
Archives(t) ==
    {(Suf(t) :> c) : c \in {<<>>, <<a>>, Packed(t), SubSeq(Packed(t), 1, 1), Packed(t) \o Pack(t, <<b>>),
                            Packed(t) \o Packed(t), Packed(t) \o Pack(t, <<>>)}
                           \cup Longer(t) \cup {OneStream(t, Long)}}
Plain == (Stem :> <<a>>)
Much == (Stem :> Long)
Archive(t) == (Suf(t) :> Packed(t))
Both(t) == (Stem :> <<b>>) @@ (Suf(t) :> Packed(t))
Misnamed(t) == (Stem :> Packed(t))

Scene(alone, jobs, folder) ==
    [alone |-> alone, mishaps |-> alone, folder |-> folder, job |-> (u1 :> jobs[1]) @@ (u2 :> jobs[2])]

TwoUsers ==
    UNION {
        {Scene(x, <<j, k>>, d) :
            x \in BOOLEAN, j \in Packs(t), k \in {Line(t, "pack", {}, <<Stem>>)} \cup Common(t), d \in {Plain, Much, Both(t), Archive(t)}}
        \cup {Scene(x, <<j, k>>, d) : x \in BOOLEAN, j \in Unpacks(t), k \in Common(t), d \in Archives(t)}
        \cup {Scene(TRUE, <<j, k>>, Misnamed(t)) : j \in Misuses(t), k \in Misuses(t) \cup Unpacks(t)} : t \in Tools}
    \cup {Scene(x, <<Line(t, "pack", {}, <<Stem>>), Line(v, "pack", {}, <<Stem>>)>>, Plain) :
             x \in BOOLEAN, t, v \in Tools}
=============================================================================
