------------------------------- MODULE MCSed -------------------------------
(***************************************************************************)
(* Command lines for the model-checking run of Sed.                        *)
(***************************************************************************)
EXTENDS SedMeaning, TLC

CONSTANTS a, b, c, t, file, other, notes, saved

Contents == {<<>>, <<a>>, <<a, b, c>>, <<b, a, b>>}

Num(k) == [type |-> "LINE_NUM", line_num |-> k]
Always == [type |-> "NONE"]
End == [type |-> "LAST_LINE"]
Has(x) == [type |-> "REGEX", x |-> x]
Steps(k, d) == [type |-> "STEP", line_num |-> k, step |-> d]

At1(addr) == [addr1 |-> addr, has_range |-> FALSE, negated |-> FALSE]
Range2(x, y) == [addr1 |-> x, addr2 |-> y, has_range |-> TRUE, negated |-> FALSE]
Not(where) == [where EXCEPT !.negated = TRUE]

Actions ==
    {[type |-> x] : x \in {"p", "=", "d", "q", "n", "N"}}
    \cup {[type |-> x, text |-> t] : x \in {"i", "a", "c"}}
    \cup {[type |-> x, file |-> notes] : x \in {"w", "r"}}
    \cup {[type |-> "s", from |-> b, to |-> c, global |-> FALSE, nth |-> 0, print |-> TRUE],
          [type |-> "s", from |-> b, to |-> a, global |-> FALSE, nth |-> 1, print |-> FALSE],
          [type |-> "s", from |-> a, to |-> a, global |-> TRUE, nth |-> 0, print |-> TRUE],
          [type |-> "y", from |-> c, to |-> b]}

First == {At1(Always), Range2(Num(1), Num(2)), Range2(Has(b), Has(b)), Not(At1(End))}
Second == {At1(Always), Range2(Has(a), Has(c)), At1(Steps(1, 2)), Range2(Num(2), Num(1))}

Scripts ==
    {<<x @@ p, y @@ q>> : x, y \in Actions, p \in First, q \in Second}
    \cup {<<x @@ At1(Always), y @@ At1(Always), z @@ q>> :
            x \in {[type |-> "N"]}, y, z \in {[type |-> "N"], [type |-> "n"],
              [type |-> "s", from |-> b, to |-> a, global |-> FALSE, nth |-> 1, print |-> FALSE]},
            q \in Second}

Folder(content) == [f \in FileNames |-> CASE f = file -> content [] f = notes -> <<t>> [] OTHER -> Nil]

\* One file to standard output, with any script.
Filters ==
    [script : Scripts, quiet : BOOLEAN, inPlace : {FALSE}, mishaps : {FALSE}, paths : {<<file>>},
     files : {Folder(x) : x \in Contents}]

\* One file after another, with ranges that are left open and files that are missing.
Streams ==
    [script : {<<x @@ p, [type |-> "=" ] @@ Range2(Has(a), Has(c))>> : x \in Actions, p \in First},
     quiet : {FALSE}, inPlace : {FALSE}, mishaps : {FALSE}, paths : {<<file, other>>, <<file, other, file>>},
     files : {[Folder(x) EXCEPT ![other] = y] : x \in Contents, y \in {Nil, <<a, b>>}}]

\* Two files, or one twice, in place; everything may fail.
Edits ==
    [script : {<<[type |-> "s", from |-> b, to |-> c, global |-> FALSE, nth |-> 0, print |-> FALSE]
                    @@ At1(Always)>>,
               <<[type |-> "i", text |-> t] @@ At1(Num(2)), [type |-> "q"] @@ At1(End)>>},
     quiet : BOOLEAN, inPlace : {TRUE}, mishaps : BOOLEAN, paths : {<<file, other>>, <<file, file>>},
     files : {[Folder(x) EXCEPT ![other] = y] : x \in Contents, y \in {Nil, <<a, b>>}}]

MCJobs == Filters \cup Streams \cup Edits

BackupOne == [f \in FileNames |-> IF f = file THEN saved ELSE f]
=============================================================================
