------------------------------ MODULE MCShExec ------------------------------
(***************************************************************************)
(* ShExec on scripts in which exit, `set -e`, `exec`, `read` and `.` meet  *)
(* every construct of the language, and the meaning of the language as a   *)
(* reference to compare with: one recursive definition in which exit ends  *)
(* whatever contains it, with neither a stack nor a flag to test.          *)
(***************************************************************************)
EXTENDS ShExec

N(type, name, kids) == [type |-> type, name |-> name, kids |-> kids]
R(name) == N("run", name, <<>>)
X(name) == N("exit", name, <<>>)
E(name) == N("set", name, <<>>)
List(kids) == N("seq", 0, kids)
If(kids) == N("if", 0, kids)
And(a, b) == N("and", 0, <<a, b>>)
Or(a, b) == N("or", 0, <<a, b>>)
While(a, b) == N("while", 0, <<a, b>>)
Until(a, b) == N("until", 0, <<a, b>>)
None == N("none", 0, <<>>)

Line(node) == [node |-> node, heredocs |-> 0]
WithHeredoc(node) == [node |-> node, heredocs |-> 1]
EmptyLine == Line(N("empty", 0, <<>>))
SpaceLine == Line(N("space", 0, <<>>))

\* Scripts that are a single line, for sh -c.
OneLiners == {
    List(<<E(1), R(2), X(3), R(4)>>),
    List(<<E(1), If(<<R(2), R(3), R(4), List(<<R(5), R(6)>>), R(7)>>), R(8)>>),
    List(<<E(1), Or(And(R(2), R(3)), X(4)), R(5)>>),
    List(<<N("case", 1, <<List(<<R(2)>>), List(<<X(3)>>), List(<<>>)>>), R(4)>>),
    List(<<If(<<R(1), If(<<R(2), X(3)>>), List(<<N("exec", 4, <<>>), R(5)>>)>>), R(6)>>),
    List(<<N("dot", 1, <<R(2), List(<<E(3), R(4), X(5)>>), R(6)>>), R(7)>>),
    List(<<E(1), N("dot", 2, <<R(3), R(4)>>), R(5)>>),
    List(<<E(1), While(R(2), List(<<R(3), R(4)>>)), X(5), R(6)>>),
    List(<<While(And(R(1), R(2)), List(<<R(3), X(4), R(5)>>)), R(6)>>),
    List(<<Until(R(1), None), N("for", 2, <<If(<<R(3), X(4)>>)>>), X(5)>>),
    List(<<N("for", 1, <<List(<<R(2), R(3)>>)>>), If(<<R(4), None, X(5)>>), R(6)>>),
    And(Or(X(1), R(2)), List(<<>>)),
    If(<<N("exec", 1, <<>>), N("read", 2, <<>>), X(3)>>) }

\* Scripts of several lines, for a file or standard input.
Longer == {
    <<Line(R(1)), SpaceLine, Line(List(<<R(2), X(3), R(4)>>)), Line(R(5))>>,
    <<WithHeredoc(R(1)), Line(N("read", 2, <<>>)), WithHeredoc(X(3)), Line(R(4)), EmptyLine, Line(R(5))>>,
    <<WithHeredoc(R(1)), Line(Or(R(2), N("exec", 3, <<>>))), WithHeredoc(R(4))>>,
    <<Line(E(1)), Line(List(<<R(2), R(3)>>)), Line(R(4))>>,
    <<Line(R(1)), Line(N("dot", 2, <<X(3), R(4)>>)), Line(N("read", 5, <<>>))>> }

MCScripts ==
    {[way |-> "-c", lines |-> <<Line(n)>>] : n \in OneLiners}
    \cup [way : Ways \ {"-c"}, lines : Longer]

RECURSIVE Below(_)
Below(n) == {n} \cup UNION {Below(n.kids[k]) : k \in DOMAIN n.kids}
MCNodes == UNION {UNION {Below(s.lines[k].node) : k \in DOMAIN s.lines} : s \in MCScripts}

----------------------------------------------------------------------------
(***************************************************************************)
(* The reference.  st is what is known after some of the answers: how many *)
(* are used, and mode: "go"; "ask", when node ask needs an answer that has *)
(* not been given; "exit", "replaced" or "end" when the shell is no more;  *)
(* "odd" when exit, or a failure under `set -e`, meets a place that does   *)
(* not let it through.  place says where a node stands: "list" lets both   *)
(* through, "line" exit only, "last" means the end of a condition.         *)
(***************************************************************************)
Start == [mode |-> "go", ask |-> 0, used |-> 0, pos |-> 0, ec |-> 0, last |-> 0, errexit |-> FALSE]

Done(st, v) == IF st.mode = "go" THEN [st EXCEPT !.ec = v, !.last = v] ELSE st
To(st, mode) == [st EXCEPT !.mode = mode]
Ends(st, place) == To(st, IF place \in {"list", "line"} THEN "exit" ELSE "odd")
Failed(st) == st.mode = "go" /\ st.errexit /\ st.ec # 0

RECURSIVE Mean(_, _, _), MeanList(_, _, _, _), MeanLines(_, _, _, _)
RECURSIVE MeanIf(_, _, _, _), MeanLoop(_, _), MeanFor(_, _)

MeanList(kids, k, st, place) ==
    IF st.mode # "go" \/ k > Len(kids) THEN st
    ELSE LET r == Mean(kids[k], st, place)
         IN CASE ~Failed(r) -> MeanList(kids, k + 1, r, place)
              [] place = "list" -> To(r, "exit")
              [] place = "last" /\ k = Len(kids) -> r
              [] OTHER -> To(r, "odd")

MeanLines(kids, k, st, place) ==
    IF st.mode # "go" \/ k > Len(kids) THEN Done(st, st.last)
    ELSE LET r == Mean(kids[k], st, place)
         IN MeanLines(kids, k + 1, IF Failed(r) THEN To(r, "odd") ELSE r, place)

MeanIf(kids, k, st, place) ==
    LET c == Mean(kids[k], st, "last")
    IN CASE c.mode # "go" -> c
         [] c.ec = 0 -> Mean(kids[k + 1], c, place)
         [] c.ec # 0 /\ k + 2 < Len(kids) -> MeanIf(kids, k + 2, c, place)
         [] c.ec # 0 /\ k + 2 = Len(kids) -> Mean(kids[k + 2], c, place)
         [] OTHER -> c

MeanLoop(n, st) ==
    LET c == Mean(n.kids[1], st, "last")
    IN IF c.mode = "go" /\ (c.ec = 0) = (n.type = "while")
       THEN MeanLoop(n, Mean(n.kids[2], c, "loop"))
       ELSE c

MeanFor(n, st) ==
    IF st.mode # "go" THEN st
    ELSE IF st.used = Len(answers) THEN [st EXCEPT !.mode = "ask", !.ask = n.name]
    ELSE LET r == [st EXCEPT !.used = @ + 1]
         IN IF answers[r.used] = 0 THEN r ELSE MeanFor(n, Mean(n.kids[1], r, "loop"))

Mean(n, st, place) ==
    LET a == answers[st.used + 1]
        r == [st EXCEPT !.used = @ + 1]
    IN CASE st.mode # "go" \/ n.type = "none" -> st
         [] n.type = "seq" -> LET l == MeanList(n.kids, 1, [st EXCEPT !.ec = 0], place) IN Done(l, l.ec)
         [] n.type \in {"and", "or"} ->
              LET l == Mean(n.kids[1], st, "last")
              IN IF l.mode = "go" /\ (l.ec = 0) = (n.type = "and") THEN Mean(n.kids[2], l, place) ELSE l
         [] n.type = "if" -> LET i == MeanIf(n.kids, 1, st, place) IN Done(i, i.ec)
         [] n.type \in Loops -> LET l == MeanLoop(n, st) IN Done(l, l.ec)
         [] n.type = "for" -> LET f == MeanFor(n, [st EXCEPT !.ec = 0]) IN Done(f, f.ec)
         [] st.used = Len(answers) -> [st EXCEPT !.mode = "ask", !.ask = n.name]
         [] n.type = "run" -> Done(r, a)
         [] n.type = "exit" -> Ends(Done(r, a), place)
         [] n.type = "set" -> [Done(r, 0) EXCEPT !.errexit = (a = 1)]
         [] n.type = "exec" -> IF a = 0 THEN To(r, "replaced") ELSE Ends(Done(r, a), place)
         [] n.type = "read" -> [Done(r, a) EXCEPT !.pos = IF script.way \in {"bare", "--"} THEN @ + 1 - a ELSE @]
         [] n.type = "dot" -> IF a = 0 THEN Done(r, 127)
                              ELSE MeanLines(n.kids, 1, r, IF place = "list" THEN "line" ELSE place)
         [] n.type = "case" -> IF a = 0 THEN Done(r, 0)
                               ELSE LET k == Mean(n.kids[a], [r EXCEPT !.ec = 0], place) IN Done(k, k.ec)

RECURSIVE MeanScript(_)
MeanScript(st) ==
    CASE st.mode # "go" -> st
      [] st.mode = "go" /\ (st.pos = Len(Lines) \/ Lines[st.pos + 1].node.type = "empty") -> To(st, "end")
      [] OTHER ->
           LET next == [st EXCEPT !.pos = @ + 1]
               r == Mean(Lines[next.pos].node, next, IF script.way = "-c" THEN "list" ELSE "line")
           IN CASE Lines[next.pos].node.type = "space" -> MeanScript(next)
                [] script.way # "-c" /\ Failed(r) -> To(r, "odd")
                [] OTHER -> MeanScript(r)

Asks ==
    /\ stack # <<>>
    /\ \/ Top.node.type \in Simple \cup {"for"}
       \/ Top.node.type \in {"case", "dot"} /\ Top.at = 0

\* Where exit and `set -e` are said in a place that lets them through, the
\* commands that execute_node runs, the values of $? and errexit they find, and
\* where the shell ends are those of the language: a command that exits or fails
\* is left by all that contains it, at once.
AsReference ==
    LET ref == MeanScript(Start)
    IN \/ ref.mode = "odd"
       \/ /\ Asks => /\ ref.mode = "ask" /\ ref.ask = Top.node.name
                     /\ ref.last = last /\ ref.errexit = errexit
          /\ ended = "returned" => ref.mode \in {"exit", "end"} /\ ref.last = last
          /\ ended = "replaced" => ref.mode = "replaced"

\* Checked to see that the exception does not swallow the cases that matter.
NeverOdd == MeanScript(Start).mode # "odd"
=============================================================================
