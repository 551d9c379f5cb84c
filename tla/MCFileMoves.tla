---------------------------- MODULE MCFileMoves ----------------------------
(***************************************************************************)
(* Files and commands for the model-checking runs of FileMoves.            *)
(***************************************************************************)
EXTENDS FileMoves, TLC

CONSTANTS a, b, c, d, e, p, q

\* Every name is on one file system, but for d and its backup e.
OneApart == [n \in Names |-> IF n \in {d, e} THEN 2 ELSE 1]

Plain(op, src, to) ==
    [op |-> op, src |-> src, to |-> to, spare |-> IF to = d THEN e ELSE c, backup |-> FALSE,
     force |-> FALSE, noClobber |-> FALSE, ask |-> FALSE]
Options(x) ==
    {x} \cup {[x EXCEPT ![o] = TRUE] : o \in Offered[x.op]}
        \cup (IF x.op = "mv" THEN {[x EXCEPT !.backup = TRUE, !.force = TRUE]} ELSE {})

\* One command moves or copies a to b or to the other file system, with each
\* option, into place or over a file, while another one has the same source
\* or reads what the first one replaces.
Firsts ==
    UNION {Options(Plain(op, a, to)) : op \in {"mv", "cp", "install"}, to \in {b, d}}
        \cup {Plain("trash", a, to) : to \in {b, d}}
Seconds(x) ==
    {Plain(op, a, to) : op \in {"mv", "cp"}, to \in {b, d} \ {x.to}}
        \cup {Plain("cp", x.to, x.to), Plain("mv", b, d)}
Pairs ==
    {[files |-> fs, cmd |-> (p :> x) @@ (q :> y)] :
        fs \in {{a}, {a, b, d}}, x \in Firsts, y \in UNION {Seconds(z) : z \in Firsts}}

AcrossDevices == {[files |-> {a}, cmd |-> [r \in Procs |-> Plain("mv", a, d)]]}
=============================================================================
