----------------------------- MODULE ShPipeline -----------------------------
(***************************************************************************)
(* `modbox sh` running a list of pipelines: execute_pipeline_internal and  *)
(* the sequence case of execute_node in src/src/commands/sh.cpp, with the  *)
(* processes it forks, their pipes, and the output the shell itself has    *)
(* buffered in stdio when it forks.                                        *)
(*                                                                         *)
(* Process 0 is the shell and process i its child for stage i of the       *)
(* pipeline of the current line.  A token is a piece of output named by    *)
(* the line that made it.                                                  *)
(*                                                                         *)
(* A definition Name_Fault is Name with a plausible mistake in it, used    *)
(* only to show which property notices.                                    *)
(***************************************************************************)
EXTENDS Naturals, FiniteSets, SequencesExt

CONSTANTS
    Scripts,      \* the scripts the shell may be given
    MaxStages,    \* of a pipeline
    Capacity,     \* tokens a pipe takes before a writer blocks
    BufferSize,   \* tokens stdio keeps before it writes them out
    CallsFail     \* whether pipe() and fork() may fail

\* What a stage runs.  "echo" and "exec" are builtins; "yes" never stops
\* writing, "head" stops after one token, "cat" at the end of its input.
Commands == {"echo", "exec", "gen", "yes", "cat", "head", "false", "missing"}
Builtins == {"echo", "exec"}

\* toFile: the stage has a redirection of its standard output.
Stages == [run : Commands, toFile : BOOLEAN]

ASSUME ScriptAssumption ==
    /\ \A s \in Scripts : s \in Seq(Seq(Stages) \ {<<>>})
    /\ MaxStages \in Nat \ {0}
    /\ \A s \in Scripts : \A k \in DOMAIN s : Len(s[k]) <= MaxStages
    /\ Capacity \in Nat \ {0}
    /\ BufferSize \in Nat \ {0}
    /\ CallsFail \in BOOLEAN

VARIABLES
    script,     \* the script
    terminal,   \* standard output is a terminal: stdio buffers lines only
    line,       \* the pipeline being run
    pc,         \* where the shell is in it
    at,         \* the pipe, fork or wait it is at
    ends,       \* the pipe ends each process has open
    pipe,       \* the tokens in each pipe of the line
    child,      \* the process of each stage
    todo,       \* tokens a child has still to write
    fed,        \* a child has read all that it wants
    code,       \* the exit status of each child, as waitpid reports it
    buffer,     \* tokens in each process's stdio buffer
    out,        \* tokens written to the shell's standard output
    status,     \* the status of the last pipeline
    failed      \* the lines in which pipe() or fork() failed

vars == <<script, terminal, line, pc, at, ends, pipe, child, todo, fed, code,
          buffer, out, status, failed>>

shellVars == <<script, terminal, line, pc, at, status, failed>>

Shell == 0
Children == 1..MaxStages
Processes == 0..MaxStages

Pipeline == script[line]
n == Len(Pipeline)

R(p) == <<"r", line, p>>
W(p) == <<"w", line, p>>
EndsOf(k) == UNION {{<<"r", k, p>>, <<"w", k, p>>} : p \in Children}
Open(e) == \E q \in Processes : e \in ends[q]

Sink_PipeWins(i) ==
    IF i < n THEN "pipe" ELSE IF Pipeline[i].toFile THEN "file" ELSE "out"

\* Where a child's standard output goes once its descriptors are set up.
Sink(i) == IF Pipeline[i].toFile THEN "file" ELSE IF i < n THEN "pipe" ELSE "out"

OwnEnds(i) == {e \in {R(i - 1), W(i)} :
                 (e = R(i - 1) /\ i > 1) \/ (e = W(i) /\ Sink(i) = "pipe")}

----------------------------------------------------------------------------

Init ==
    /\ script \in Scripts
    /\ terminal \in BOOLEAN
    /\ line = 1 /\ pc = "line" /\ at = 1
    /\ ends = [q \in Processes |-> {}]
    /\ pipe = [p \in Children |-> <<>>]
    /\ child = [i \in Children |-> "none"]
    /\ todo = [i \in Children |-> 0]
    /\ fed = [i \in Children |-> FALSE]
    /\ code = [i \in Children |-> 0]
    /\ buffer = [q \in Processes |-> <<>>]
    /\ out = <<>>
    /\ status = 0
    /\ failed = {}

UnchangedChildren == UNCHANGED <<pipe, child, todo, fed, code>>

\* The shell goes on with the next pipeline of the list.
Return(s) ==
    /\ status' = s
    /\ line' = line + 1
    /\ pc' = "line"
    /\ at' = 1

IsPlainBuiltin == n = 1 /\ Pipeline[1].run \in Builtins /\ ~Pipeline[1].toFile

Printf_Unbounded(tokens) ==
    /\ out' = IF terminal THEN out \o tokens ELSE out
    /\ buffer' = [buffer EXCEPT ![Shell] = IF terminal THEN @ ELSE @ \o tokens]

\* stdio: a line goes out at once on a terminal, else when the buffer is full.
Printf(tokens) ==
    LET all == buffer[Shell] \o tokens IN
    IF terminal \/ Len(all) >= BufferSize
    THEN out' = out \o all /\ buffer' = [buffer EXCEPT ![Shell] = <<>>]
    ELSE out' = out /\ buffer' = [buffer EXCEPT ![Shell] = all]

\* A builtin that is not in a pipeline runs in the shell itself.
RunEcho ==
    /\ pc = "line" /\ line <= Len(script)
    /\ IsPlainBuiltin /\ Pipeline[1].run = "echo"
    /\ Printf(<<line>>)
    /\ Return(0)
    /\ UNCHANGED <<script, terminal, ends, failed>> /\ UnchangedChildren

\* The command replaces the shell, and what stdio has buffered is gone; when
\* execv() fails the shell stops.
RunExec ==
    /\ pc = "line" /\ line <= Len(script)
    /\ IsPlainBuiltin /\ Pipeline[1].run = "exec"
    /\ \/ /\ out' = Append(out, line)
          /\ buffer' = [buffer EXCEPT ![Shell] = <<>>]
          /\ status' = 0
       \/ /\ out' = out \o buffer[Shell]
          /\ buffer' = [buffer EXCEPT ![Shell] = <<>>]
          /\ status' = 126
    /\ pc' = "done"
    /\ UNCHANGED <<script, terminal, line, at, ends, failed>> /\ UnchangedChildren

StartPipeline ==
    /\ pc = "line" /\ line <= Len(script)
    /\ ~IsPlainBuiltin
    /\ pc' = IF n = 1 THEN "fork" ELSE "pipe"
    /\ at' = 1
    /\ child' = [i \in Children |-> "none"]
    /\ pipe' = [p \in Children |-> <<>>]
    /\ UNCHANGED <<script, terminal, line, ends, todo, fed, code, buffer, out, status, failed>>

MakePipe ==
    /\ pc = "pipe"
    /\ ends' = [ends EXCEPT ![Shell] = @ \cup {R(at), W(at)}]
    /\ IF at = n - 1 THEN pc' = "fork" /\ at' = 1
                     ELSE pc' = pc /\ at' = at + 1
    /\ UNCHANGED <<script, terminal, line, buffer, out, status, failed>> /\ UnchangedChildren

\* The pipes made so far stay open in the shell.
PipeFails ==
    /\ CallsFail
    /\ pc = "pipe"
    /\ failed' = failed \cup {line}
    /\ Return(1)
    /\ UNCHANGED <<script, terminal, ends, buffer, out>> /\ UnchangedChildren

\* After each fork the shell closes the pipe between the last two stages.
AfterFork ==
    /\ ends' = [ends EXCEPT ![Shell] = @ \ {R(at - 1), W(at - 1)},
                            ![at] = IF child'[at] = "setup" THEN ends[Shell] ELSE {}]
    /\ IF at = n THEN pc' = "close" /\ at' = 1
                 ELSE pc' = pc /\ at' = at + 1

\* The child starts with a copy of the shell's descriptors and stdio buffer.
Fork ==
    /\ pc = "fork"
    /\ child' = [child EXCEPT ![at] = "setup"]
    /\ buffer' = [buffer EXCEPT ![at] = buffer[Shell]]
    /\ AfterFork
    /\ UNCHANGED <<script, terminal, line, pipe, todo, fed, code, out, status, failed>>

\* The shell does not look: pid -1 is kept as if it were a child's.
ForkFails ==
    /\ CallsFail
    /\ pc = "fork"
    /\ child' = [child EXCEPT ![at] = "failed"]
    /\ failed' = failed \cup {line}
    /\ AfterFork
    /\ UNCHANGED <<script, terminal, line, pipe, todo, fed, code, buffer, out, status>>

CloseAll ==
    /\ pc = "close"
    /\ ends' = [ends EXCEPT ![Shell] = @ \ EndsOf(line)]
    /\ pc' = "wait"
    /\ UNCHANGED <<script, terminal, line, at, buffer, out, status, failed>>
    /\ UnchangedChildren

\* One call of waitpid() has returned with the status s.
Waited(s) ==
    /\ IF at = n THEN Return(s)
                 ELSE at' = at + 1 /\ UNCHANGED <<line, pc, status>>
    /\ UNCHANGED <<script, terminal, ends, pipe, todo, fed, code, buffer, out, failed>>

Reap(i) == child' = [child EXCEPT ![i] = "reaped"]

Wait_Any ==
    /\ pc = "wait"
    /\ \E j \in Children : child[j] = "zombie" /\ Reap(j) /\ Waited(code[j])

\* waitpid(children[i]); waitpid(-1) for a fork that failed takes any child,
\* and the status is an uninitialised variable when there is no such child.
Wait ==
    /\ pc = "wait"
    /\ \/ child[at] = "zombie" /\ Reap(at) /\ Waited(code[at])
       \/ child[at] = "reaped" /\ UNCHANGED child /\ \E s \in {0, 1} : Waited(s)
       \/ /\ child[at] = "failed"
          /\ \/ \E j \in Children : child[j] = "zombie" /\ Reap(j) /\ Waited(code[j])
             \/ /\ \A j \in Children : child[j] \in {"none", "reaped", "failed"}
                /\ UNCHANGED child /\ \E s \in {0, 1} : Waited(s)

Finish ==
    /\ pc = "line" /\ line > Len(script)
    /\ out' = out \o buffer[Shell]
    /\ buffer' = [buffer EXCEPT ![Shell] = <<>>]
    /\ pc' = "done"
    /\ UNCHANGED <<script, terminal, line, at, ends, status, failed>> /\ UnchangedChildren

ShellStep ==
    \/ RunEcho \/ RunExec \/ StartPipeline \/ MakePipe \/ PipeFails
    \/ Fork \/ ForkFails \/ CloseAll \/ Wait \/ Finish

----------------------------------------------------------------------------
(***************************************************************************)
(* The children.                                                           *)
(***************************************************************************)
Readers == {"cat", "head"}
Writes(c) == CASE c = "gen" -> 2 [] c \in {"echo", "exec", "yes"} -> 1 [] OTHER -> 0
ExitStatus(c) == CASE c = "false" -> 1 [] c = "missing" -> 127 [] OTHER -> 0

\* setbuf(stdout, NULL) writes out what the buffer holds, which is the copy the
\* child was forked with.  A plain external command does not call it.
CallsSetbuf(i) == n > 1 \/ (Pipeline[i].run \in Builtins /\ Pipeline[i].toFile)

BecomeStage(i) ==
    /\ child' = [child EXCEPT ![i] = "run"]
    /\ todo' = [todo EXCEPT ![i] = Writes(Pipeline[i].run)]
    /\ fed' = [fed EXCEPT ![i] = Pipeline[i].run \notin Readers]
    /\ out' = IF CallsSetbuf(i) THEN out \o buffer[i] ELSE out
    /\ buffer' = [buffer EXCEPT ![i] = <<>>]
    /\ UNCHANGED shellVars /\ UNCHANGED <<pipe, code>>

SetUp_KeepsEnds(i) ==
    /\ child[i] = "setup"
    /\ UNCHANGED ends
    /\ BecomeStage(i)

\* setbuf, dup2 onto standard input and output, close every pipe, redirect.
SetUp(i) ==
    /\ child[i] = "setup"
    /\ ends' = [ends EXCEPT ![i] = (@ \ EndsOf(line)) \cup OwnEnds(i)]
    /\ BecomeStage(i)

RunningChild(i) == child[i] = "run" /\ UNCHANGED shellVars

\* A write into a pipe waits for room.  "yes" starts over with every line.
Write(i) ==
    /\ RunningChild(i)
    /\ todo[i] > 0
    /\ todo' = [todo EXCEPT ![i] = IF Pipeline[i].run = "yes" THEN @ ELSE @ - 1]
    /\ CASE Sink(i) = "pipe" -> /\ Open(R(i))
                                /\ Len(pipe[i]) < Capacity
                                /\ pipe' = [pipe EXCEPT ![i] = Append(@, line)]
                                /\ out' = out
         [] Sink(i) = "out" -> out' = Append(out, line) /\ pipe' = pipe
         [] OTHER -> UNCHANGED <<out, pipe>>
    /\ UNCHANGED <<ends, child, fed, code, buffer>>

Die(i, c) ==
    /\ child' = [child EXCEPT ![i] = "zombie"]
    /\ code' = [code EXCEPT ![i] = c]
    /\ ends' = [ends EXCEPT ![i] = {}]
    /\ todo' = [todo EXCEPT ![i] = 0]
    /\ UNCHANGED <<pipe, fed, buffer, out>>

\* SIGPIPE: not an exit, so the shell makes it a status of 1.
BrokenPipe(i) ==
    /\ RunningChild(i)
    /\ todo[i] > 0 /\ Sink(i) = "pipe" /\ ~Open(R(i))
    /\ Die(i, 1)

Read(i) ==
    /\ RunningChild(i)
    /\ todo[i] = 0 /\ ~fed[i]
    /\ i > 1 /\ pipe[i - 1] # <<>>
    /\ pipe' = [pipe EXCEPT ![i - 1] = Tail(@)]
    /\ todo' = [todo EXCEPT ![i] = 1]
    /\ fed' = [fed EXCEPT ![i] = Pipeline[i].run = "head"]
    /\ UNCHANGED <<ends, child, code, buffer, out>>

\* The first stage reads the shell's standard input, which is empty.
EndOfInput(i) == i > 1 => pipe[i - 1] = <<>> /\ ~Open(W(i - 1))

Exit(i) ==
    /\ RunningChild(i)
    /\ todo[i] = 0
    /\ fed[i] \/ EndOfInput(i)
    /\ Die(i, ExitStatus(Pipeline[i].run))

ChildStep(i) == SetUp(i) \/ Write(i) \/ BrokenPipe(i) \/ Read(i) \/ Exit(i)

Terminated == pc = "done" /\ UNCHANGED vars

Next == ShellStep \/ (\E i \in Children : ChildStep(i)) \/ Terminated

\* Every process is scheduled.
Spec ==
    /\ Init /\ [][Next]_vars
    /\ WF_vars(ShellStep)
    /\ \A i \in Children : WF_vars(ChildStep(i))

----------------------------------------------------------------------------

\* The values each variable ranges over.
TypeOK ==
    /\ script \in Scripts
    /\ terminal \in BOOLEAN
    /\ line \in 1..(Len(script) + 1)
    /\ pc \in {"line", "pipe", "fork", "close", "wait", "done"}
    /\ at \in Children
    /\ ends \in [Processes -> SUBSET UNION {EndsOf(k) : k \in 1..Len(script)}]
    /\ pipe \in [Children -> Seq(1..Len(script))]
    /\ \A p \in Children : Len(pipe[p]) <= Capacity
    /\ child \in [Children -> {"none", "setup", "run", "zombie", "reaped", "failed"}]
    /\ todo \in [Children -> 0..2]
    /\ fed \in [Children -> BOOLEAN]
    /\ code \in [Children -> {0, 1, 127}]
    /\ buffer \in [Processes -> Seq(1..Len(script))]
    /\ \A q \in Processes : Len(buffer[q]) < BufferSize
    /\ out \in Seq(1..Len(script))
    /\ status \in {0, 1, 126, 127}
    /\ failed \subseteq 1..Len(script)

\* No child outlives its pipeline: when the shell goes on, every process of the
\* pipeline has ended and was reaped, even if some could not be forked.
PipelineIsOver ==
    pc \in {"line", "done"} =>
        \A i \in Children : child[i] \in {"none", "reaped", "failed"} /\ ends[i] = {}

\* Once a stage runs, nobody but the stage on either side has an end of a pipe
\* open, apart from children still being set up and the shell before it waits;
\* otherwise a reader would miss the end of file, a writer the broken pipe.
NoSpareEnds ==
    /\ \A i \in Children : child[i] = "run" => ends[i] \cap EndsOf(line) = OwnEnds(i)
    /\ pc = "wait" => ends[Shell] \cap EndsOf(line) = {}

\* The status of a pipeline is that of its last stage, whichever ends first.
StatusOfLastStage ==
    pc = "line" /\ line > 1 /\ line - 1 \notin failed =>
        status = ExitStatus(Last(script[line - 1]).run)

\* The shell has ends of a pipe only while it makes, or forks, the pipeline of
\* it, or else because a call failed: the pipes made before a pipe() that
\* fails stay open in the shell for good (sh.cpp 1652-1655).
ShellLetsGo ==
    \A k \in 1..Len(script) :
        ends[Shell] \cap EndsOf(k) # {} => k \in failed \/ (k = line /\ pc \in {"pipe", "fork", "close"})

\* Every pipeline is set up and brought to its end as a whole: all four.
PipelinesInOrder == PipelineIsOver /\ NoSpareEnds /\ ShellLetsGo /\ StatusOfLastStage

\* What a line writes to standard output, from what its stages pass on.
\* "yes" is endless, which is as good as Endless tokens to a "head".
Endless == 9
Passed(stages) ==
    LET after[i \in 0..Len(stages)] ==
            IF i = 0 THEN 0
            ELSE LET s == stages[i]
                     input == IF i > 1 /\ stages[i - 1].toFile THEN 0 ELSE after[i - 1]
                 IN  CASE s.run = "cat" -> input
                       [] s.run = "head" -> IF input = 0 THEN 0 ELSE 1
                       [] s.run = "yes" -> Endless
                       [] OTHER -> Writes(s.run)
    IN IF Last(stages).toFile THEN 0 ELSE after[Len(stages)]

Printed(k) == Cardinality({j \in DOMAIN out : out[j] = k})
Finished == pc = "done" /\ failed = {}
Replaced == \E k \in DOMAIN script : script[k][1].run = "exec"

\* Unless exec replaces the shell, everything the script's lines print arrives.
NothingLost ==
    Finished /\ ~Replaced => \A k \in DOMAIN script : Printed(k) >= Passed(script[k])

\* On a terminal each line's output comes once and before that of later lines.
OrderedOnTerminal ==
    terminal =>
        /\ \A j \in DOMAIN out : j > 1 => out[j - 1] <= out[j]
        /\ Finished /\ ~Replaced => \A k \in DOMAIN script : Printed(k) = Passed(script[k])

\* Standard output gets all of it, and a terminal in order.
OutputArrives == NothingLost /\ OrderedOnTerminal

\* Writers whose reader has gone and readers whose writer has ended, no pipe
\* stays full or empty for ever: every script comes to its end.
EveryScriptEnds == <>(pc = "done")
=============================================================================
