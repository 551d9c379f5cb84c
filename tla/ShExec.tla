------------------------------- MODULE ShExec -------------------------------
(***************************************************************************)
(* `modbox sh` reading a script and executing its commands: execute_node,  *)
(* the built-ins that change the shell, and the runners that read lines,   *)
(* in src/src/commands/sh.cpp.                                             *)
(*                                                                         *)
(* A command is the tree that parse_program makes of a line; the recursion *)
(* of execute_node is the variable stack.  Whatever the outside decides (a *)
(* status, the words of a `for`, the pattern of a `case`) is an answer,    *)
(* and the answers given so far are kept.                                  *)
(*                                                                         *)
(* A definition Name_Fault is Name with a plausible mistake in it, used    *)
(* only to show which property notices.                                    *)
(***************************************************************************)
EXTENDS Naturals, SequencesExt

CONSTANTS
    Nodes,        \* the commands of the scripts, and those they are made of
    Scripts,      \* scripts with the way the shell is given them
    Statuses,     \* exit statuses of commands
    MaxAnswers    \* the most answers that are explored

(***************************************************************************)
(* A node has a type, a name to tell it from others, and the nodes below   *)
(* it.  "run" is anything that cannot change the shell but its status: an  *)
(* external command, a pipeline, an assignment, a redirected built-in or   *)
(* one like cd.  "none" is a body that is not there.  "empty" is a line of  *)
(* no characters, "space" any other that gives the parser nothing to do.   *)
(***************************************************************************)
Simple == {"run", "exit", "set", "exec", "read"}
Loops == {"while", "until"}
Types == Simple \cup Loops \cup {"dot", "for", "case", "if", "seq", "and", "or",
                                 "none", "empty", "space"}

\* No argument, `--`, -c STRING, and FILE.
Ways == {"bare", "--", "-c", "file"}

ASSUME NodeAssumption ==
    \A n \in Nodes :
       /\ n.type \in Types
       /\ n.kids \in Seq(Nodes)
       /\ n.type \in Loops \cup {"and", "or"} => Len(n.kids) = 2
       /\ n.type = "for" => Len(n.kids) = 1

ASSUME ScriptAssumption ==
    /\ \A s \in Scripts :
          /\ s.way \in Ways
          /\ s.lines \in Seq([node : Nodes, heredocs : Nat])
          /\ s.way = "-c" => Len(s.lines) = 1
    /\ Statuses \subseteq 0..255
    /\ MaxAnswers \in Nat

VARIABLES
    script,
    pos,       \* lines read so far
    stack,     \* the calls of execute_node: a node, and how far it has got
    ec,        \* what the last call of execute_node returned
    last,      \* last_exit_code
    running,
    errexit,
    temps,     \* temporary files of here-documents
    ended,     \* how the shell ended, "no" before
    answers

vars == <<script, pos, stack, ec, last, running, errexit, temps, ended, answers>>
reader == <<script, pos, temps, ended>>

Init ==
    /\ script \in Scripts
    /\ pos = 0
    /\ stack = <<>>
    /\ ec = 0 /\ last = 0
    /\ running = TRUE /\ errexit = FALSE
    /\ temps = 0
    /\ ended = "no"
    /\ answers = <<>>

----------------------------------------------------------------------------
(***************************************************************************)
(* Reading.                                                                *)
(***************************************************************************)
Lines == script.lines

\* read_whole_command() has nothing: the end, or an empty line.
NoLine == pos < Len(Lines) => Lines[pos + 1].node.type = "empty"

ReadLine_AfterExit ==
    /\ ended = "no" /\ stack = <<>>
    /\ ~NoLine
    /\ pos' = pos + 1
    /\ temps' = temps + Lines[pos + 1].heredocs
    /\ stack' = IF Lines[pos + 1].node.type = "space" THEN <<>>
                ELSE <<[node |-> Lines[pos + 1].node, at |-> 0]>>
    /\ UNCHANGED <<script, ec, last, running, errexit, ended, answers>>

\* A line's here-documents are written to files before it is parsed.
ReadLine ==
    /\ ended = "no" /\ stack = <<>> /\ running
    /\ ~NoLine
    /\ pos' = pos + 1
    /\ temps' = temps + Lines[pos + 1].heredocs
    /\ stack' = IF Lines[pos + 1].node.type = "space" THEN <<>>
                ELSE <<[node |-> Lines[pos + 1].node, at |-> 0]>>
    /\ UNCHANGED <<script, ec, last, running, errexit, ended, answers>>

Return_LeavesFiles ==
    /\ ended = "no" /\ stack = <<>>
    /\ ~running \/ NoLine
    /\ ended' = "returned"
    /\ UNCHANGED <<script, pos, stack, ec, last, running, errexit, temps, answers>>

\* Only without arguments are the temporary files removed.
Return ==
    /\ ended = "no" /\ stack = <<>>
    /\ ~running \/ NoLine
    /\ ended' = "returned"
    /\ temps' = IF script.way = "bare" THEN 0 ELSE temps
    /\ UNCHANGED <<script, pos, stack, ec, last, running, errexit, answers>>

----------------------------------------------------------------------------
(***************************************************************************)
(* Executing a node.                                                       *)
(***************************************************************************)
Top == Last(stack)
At(types, k) == stack # <<>> /\ Top.node.type \in types /\ Top.at = k
Kids == Len(Top.node.kids)

\* execute_node(kid), after which the node goes on at k.
Execute(kid, k) ==
    stack' = Append(Front(stack) \o <<[Top EXCEPT !.at = k]>>,
                    [node |-> Top.node.kids[kid], at |-> 0])

\* execute_node returns v.
Finish(v) == stack' = Front(stack) /\ ec' = v /\ last' = v

Answer(v) ==
    /\ Len(answers) < MaxAnswers
    /\ answers' = Append(answers, v)

\* A body that is not there is not executed.
SkipMissing ==
    /\ At({"none"}, 0)
    /\ stack' = Front(stack)
    /\ UNCHANGED <<reader, ec, last, running, errexit, answers>>

RunCommand ==
    /\ At({"run"}, 0)
    /\ \E v \in Statuses : Finish(v) /\ Answer(v)
    /\ UNCHANGED <<reader, running, errexit>>

\* Without an operand the status is that of the command before.
RunExit ==
    /\ At({"exit"}, 0)
    /\ \E v \in Statuses \cup {last} : Finish(v) /\ Answer(v)
    /\ running' = FALSE
    /\ UNCHANGED <<reader, errexit>>

RunSet ==
    /\ At({"set"}, 0)
    /\ \E v \in {0, 1} : errexit' = (v = 1) /\ Answer(v)
    /\ Finish(0)
    /\ UNCHANGED <<reader, running>>

\* The command replaces the shell, or it cannot be run and the shell stops.
RunExec ==
    /\ At({"exec"}, 0)
    /\ \/ /\ Answer(0)
          /\ ended' = "replaced"
          /\ stack' = <<>>
          /\ UNCHANGED <<ec, last, running>>
       \/ /\ Answer(126)
          /\ Finish(126)
          /\ running' = FALSE
          /\ ended' = ended
    /\ UNCHANGED <<script, pos, temps, errexit>>

RunRead_PastEnd ==
    /\ At({"read"}, 0)
    /\ IF script.way \in {"bare", "--"}
       THEN LET v == IF pos <= Len(Lines) THEN 0 ELSE 1
            IN Finish(v) /\ Answer(v) /\ pos' = pos + 1 - v
       ELSE pos' = pos /\ \E v \in {0, 1} : Finish(v) /\ Answer(v)
    /\ UNCHANGED <<script, temps, ended, running, errexit>>

\* The shell and `read` take turns at a script on standard input.
RunRead ==
    /\ At({"read"}, 0)
    /\ IF script.way \in {"bare", "--"}
       THEN LET v == IF pos < Len(Lines) THEN 0 ELSE 1
            IN Finish(v) /\ Answer(v) /\ pos' = pos + 1 - v
       ELSE pos' = pos /\ \E v \in {0, 1} : Finish(v) /\ Answer(v)
    /\ UNCHANGED <<script, temps, ended, running, errexit>>

\* The lines of a file that is read with `.`, until one of them says exit.
RunDot ==
    /\ stack # <<>> /\ Top.node.type = "dot"
    /\ \/ /\ Top.at = 0
          /\ \/ Finish(127) /\ Answer(0)
             \/ /\ Answer(1)
                /\ stack' = Front(stack) \o <<[Top EXCEPT !.at = 1]>>
                /\ UNCHANGED <<ec, last>>
       \/ /\ Top.at \in 1..Kids /\ running
          /\ Execute(Top.at, Top.at + 1)
          /\ UNCHANGED <<ec, last, answers>>
       \/ /\ Top.at > 0 /\ (~running \/ Top.at > Kids)
          /\ Finish(last)
          /\ UNCHANGED answers
    /\ UNCHANGED <<reader, running, errexit>>

RunList_IgnoresErrexit ==
    /\ stack # <<>> /\ Top.node.type = "seq"
    /\ LET stop == ~running \/ Top.at >= Kids
       IN \/ ~stop /\ Execute(Top.at + 1, Top.at + 1) /\ UNCHANGED <<ec, last>>
          \/ stop /\ Finish(IF Top.at = 0 THEN 0 ELSE ec)
    /\ UNCHANGED <<reader, running, errexit, answers>>

RunList_IgnoresExit ==
    /\ stack # <<>> /\ Top.node.type = "seq"
    /\ LET stop == Top.at >= Kids \/ (errexit /\ Top.at > 0 /\ ec # 0)
       IN \/ ~stop /\ Execute(Top.at + 1, Top.at + 1) /\ UNCHANGED <<ec, last>>
          \/ stop /\ Finish(IF Top.at = 0 THEN 0 ELSE ec)
    /\ UNCHANGED <<reader, running, errexit, answers>>

RunList ==
    /\ stack # <<>> /\ Top.node.type = "seq"
    /\ LET stop == ~running \/ Top.at >= Kids \/ (errexit /\ Top.at > 0 /\ ec # 0)
       IN \/ ~stop /\ Execute(Top.at + 1, Top.at + 1) /\ UNCHANGED <<ec, last>>
          \/ stop /\ Finish(IF Top.at = 0 THEN 0 ELSE ec)
    /\ UNCHANGED <<reader, running, errexit, answers>>

RunAndOr ==
    /\ stack # <<>> /\ Top.node.type \in {"and", "or"}
    /\ LET onward == Top.at = 0 \/ (Top.at = 1 /\ (ec = 0) = (Top.node.type = "and"))
       IN \/ onward /\ Execute(Top.at + 1, Top.at + 1) /\ UNCHANGED <<ec, last>>
          \/ ~onward /\ Finish(ec)
    /\ UNCHANGED <<reader, running, errexit, answers>>

\* Condition, body, ... and at the end the body after `else`, if there is one.
IsCondition(k) == k % 2 = 1 /\ k < Kids

RunIf ==
    /\ stack # <<>> /\ Top.node.type = "if"
    /\ LET k == CASE Top.at = 0 -> 1
                  [] IsCondition(Top.at) /\ ec = 0 -> Top.at + 1
                  [] IsCondition(Top.at) /\ ec # 0 -> Top.at + 2
                  [] OTHER -> Kids + 1
       IN \/ k <= Kids /\ Execute(k, k) /\ UNCHANGED <<ec, last>>
          \/ k > Kids /\ Finish(ec)
    /\ UNCHANGED <<reader, running, errexit, answers>>

\* Condition and body in turn, until the condition says otherwise.
RunLoop ==
    /\ stack # <<>> /\ Top.node.type \in Loops
    /\ LET over == Top.at = 1 /\ (ec = 0) # (Top.node.type = "while")
           kid == IF Top.at = 1 THEN 2 ELSE 1
       IN \/ ~over /\ Execute(kid, kid) /\ UNCHANGED <<ec, last>>
          \/ over /\ Finish(ec)
    /\ UNCHANGED <<reader, running, errexit, answers>>

RunFor ==
    /\ stack # <<>> /\ Top.node.type = "for"
    /\ LET status == IF Top.at = 0 THEN 0 ELSE ec
       IN \/ Answer(0) /\ Finish(status)                 \* no word is left
          \/ Answer(1) /\ Execute(1, Top.at + 1) /\ ec' = status /\ last' = last
    /\ UNCHANGED <<reader, running, errexit>>

RunCase ==
    /\ stack # <<>> /\ Top.node.type = "case"
    /\ \/ Top.at = 0 /\ Answer(0) /\ Finish(0)           \* no pattern matches
       \/ Top.at = 0 /\ \E k \in 1..Kids : Answer(k) /\ Execute(k, k) /\ ec' = 0 /\ last' = last
       \/ Top.at > 0 /\ Finish(ec) /\ UNCHANGED answers
    /\ UNCHANGED <<reader, running, errexit>>

Step ==
    \/ ReadLine \/ Return
    \/ SkipMissing \/ RunCommand \/ RunExit \/ RunSet \/ RunExec \/ RunRead
    \/ RunDot \/ RunList \/ RunAndOr \/ RunIf \/ RunLoop \/ RunFor \/ RunCase

\* Nothing is left to do, or no further answer is explored.
Stop == (ended # "no" \/ Len(answers) = MaxAnswers) /\ UNCHANGED vars

Next == Step \/ Stop

Spec == Init /\ [][Next]_vars

----------------------------------------------------------------------------

\* The values each variable ranges over.
TypeOK ==
    /\ script \in Scripts
    /\ pos \in 0..Len(Lines)
    /\ stack \in Seq([node : Nodes, at : Nat])
    /\ ec \in Statuses \cup {0, 1, 126, 127}
    /\ last \in Statuses \cup {0, 1, 126, 127}
    /\ running \in BOOLEAN /\ errexit \in BOOLEAN
    /\ temps \in Nat
    /\ ended \in {"no", "returned", "replaced"}
    /\ answers \in Seq(Nat) /\ Len(answers) <= MaxAnswers

\* Once exit has been said, a command runs only if it is part of a condition, a
\* loop or a chain of && and || that was being executed by then: lists, files
\* read with `.` and the script itself begin no other.
Unstoppable == Loops \cup {"for", "if", "and", "or"}
OnlyOpenGoOn ==
    ~running /\ stack # <<>> /\ Top.node.type \in Simple =>
        \E i \in 1..Len(stack) - 1 : stack[i].node.type \in Unstoppable

\* A shell that was started without arguments removes the files it made for
\* here-documents, whatever its commands did to it, if it is not replaced.
NoFilesLeft == script.way = "bare" /\ ended = "returned" => temps = 0
=============================================================================
