-------------------------- MODULE ShPipelineProofs --------------------------
(***************************************************************************)
(* Proofs about ShPipeline, for any scripts, pipes and buffers and any     *)
(* number of stages: the typing invariant; that every pipeline is set up   *)
(* and brought to its end as a whole (PipelinesInOrder), whatever becomes  *)
(* of pipe() and fork(); and that all that the lines print arrives, on a   *)
(* terminal once and in order (OutputArrives).                             *)
(***************************************************************************)
EXTENDS ShPipeline, SequenceTheorems, FiniteSetTheorems, NaturalsInduction, TLAPS

Lines == 1..Len(script)

\* Where the shell is in a pipeline, the pipeline and the stage exist.
InPipeline ==
    /\ pc = "pipe" => line \in Lines /\ at \in 1..(n - 1)
    /\ pc \in {"fork", "wait"} => line \in Lines /\ at \in 1..n
    /\ pc = "close" => line \in Lines /\ at = 1

\* Which children there are, as the shell goes through its loops.
Family ==
    /\ \A i \in Children : child[i] \in {"none", "zombie", "reaped", "failed"} => ends[i] = {}
    /\ pc \in {"line", "done"} => \A i \in Children : child[i] \in {"none", "reaped", "failed"}
    /\ pc = "pipe" => \A i \in Children : child[i] = "none"
    /\ pc = "fork" => \A i \in Children : i >= at => child[i] = "none"
    /\ pc \in {"close", "wait"} => \A i \in Children : i > n => child[i] = "none"
    /\ pc = "wait" => \A i \in Children : i < at => child[i] \in {"reaped", "failed"}
    /\ pc = "fork" => \A i \in Children : i < at => child[i] # "none"
    /\ pc \in {"close", "wait"} => \A i \in Children : i <= n => child[i] # "none"

\* While nothing fails children are reaped one by one, the last with its status.
Orderly ==
    /\ pc \in {"fork", "close", "wait"} /\ line \notin failed =>
        \A i \in Children : /\ child[i] # "failed"
                            /\ child[i] = "reaped" => pc = "wait" /\ i < at
                            /\ child[i] = "zombie" /\ i = n => code[i] = ExitStatus(Pipeline[i].run)

Course == InPipeline /\ Family /\ NoSpareEnds /\ Orderly /\ StatusOfLastStage

Inv == TypeOK /\ Course

----------------------------------------------------------------------------

LEMMA ScriptType ==
    ASSUME TypeOK
    PROVE  /\ Len(script) \in Nat
           /\ \A k \in Lines : /\ script[k] \in Seq(Stages) /\ Len(script[k]) \in 1..MaxStages
                               /\ \A i \in 1..Len(script[k]) : script[k][i] \in Stages
PROOF
  <1>1. script \in Scripts  BY DEF TypeOK
  <1>2. script \in Seq(Seq(Stages) \ {<<>>}) /\ MaxStages \in Nat
    BY <1>1, ScriptAssumption
  <1>3. \A k \in Lines : Len(script[k]) <= MaxStages
    BY <1>1, <1>2, ScriptAssumption DEF Lines
  <1>4. ASSUME NEW k \in Lines
        PROVE  /\ script[k] \in Seq(Stages) /\ Len(script[k]) \in 1..MaxStages
               /\ \A i \in 1..Len(script[k]) : script[k][i] \in Stages
    <2>1. script[k] \in Seq(Stages) \ {<<>>}
      BY <1>2 DEF Lines
    <2>2. Len(script[k]) \in Nat /\ Len(script[k]) # 0
      BY <2>1
    <2>3. QED  BY <1>2, <1>3, <2>1, <2>2
  <1>5. QED  BY <1>2, <1>4

LEMMA ThePipeline ==
    ASSUME TypeOK, line \in Lines
    PROVE  /\ n \in 1..MaxStages /\ MaxStages \in Nat
           /\ \A i \in 1..n : Pipeline[i] \in Stages /\ i \in Children
PROOF
  BY ScriptType, ScriptAssumption DEF n, Pipeline, Children

\* The types of what commands do.
LEMMA CommandTypes ==
    ASSUME NEW c
    PROVE  Writes(c) \in 0..2 /\ ExitStatus(c) \in {0, 1, 127}
PROOF
  BY DEF Writes, ExitStatus

Ends == UNION {EndsOf(k) : k \in Lines}

LEMMA InvInit == Init => Inv
PROOF
  <1> SUFFICES ASSUME Init  PROVE Inv
    OBVIOUS
  <1>1. script \in Scripts /\ MaxStages \in Nat \ {0} /\ BufferSize \in Nat \ {0} /\ Capacity \in Nat \ {0}
    BY ScriptAssumption DEF Init
  <1>2. Len(script) \in Nat
    <2>1. script \in Seq(Seq(Stages) \ {<<>>})  BY <1>1, ScriptAssumption
    <2>2. QED  BY <2>1
  <1>3. 1 \in Children  BY <1>1 DEF Children
  <1>4. <<>> \in Seq(Lines) /\ Len(<<>>) = 0
    OBVIOUS
  <1>5. TypeOK
    BY <1>1, <1>2, <1>3, <1>4 DEF Init, TypeOK, Lines
  <1>6. Course
    BY DEF Init, Course, InPipeline, Family, NoSpareEnds, Orderly, StatusOfLastStage, Shell, Children, Processes
  <1>7. QED  BY <1>5, <1>6 DEF Inv

----------------------------------------------------------------------------

\* Appending tokens of the script's lines gives such a sequence again.
LEMMA Tokens ==
    ASSUME NEW S, NEW s \in Seq(S)
    PROVE  /\ \A t \in Seq(S) : s \o t \in Seq(S) /\ Len(s \o t) = Len(s) + Len(t)
           /\ \A x \in S : Append(s, x) \in Seq(S) /\ Len(Append(s, x)) = Len(s) + 1
           /\ s # <<>> => Tail(s) \in Seq(S) /\ Len(Tail(s)) = Len(s) - 1
PROOF
  <1>1. \A t \in Seq(S) : s \o t \in Seq(S) /\ Len(s \o t) = Len(s) + Len(t)
    BY ConcatProperties
  <1>2. \A x \in S : Append(s, x) \in Seq(S) /\ Len(Append(s, x)) = Len(s) + 1
    BY AppendProperties
  <1>3. s # <<>> => Tail(s) \in Seq(S) /\ Len(Tail(s)) = Len(s) - 1
    BY HeadTailProperties
  <1>4. QED  BY <1>1, <1>2, <1>3

\* The pipe ends of a line, and of a stage.
LEMMA EndTypes ==
    ASSUME TypeOK, line \in Lines
    PROVE  /\ EndsOf(line) \subseteq Ends
           /\ \A i \in 1..n : OwnEnds(i) \subseteq EndsOf(line)
           /\ \A p \in Children : {R(p), W(p)} \subseteq EndsOf(line)
PROOF
  <1>1. EndsOf(line) \subseteq Ends  BY DEF Ends
  <1>2. \A p \in Children : {R(p), W(p)} \subseteq EndsOf(line)
    BY DEF EndsOf, R, W
  <1>3. ASSUME NEW i \in 1..n  PROVE OwnEnds(i) \subseteq EndsOf(line)
    <2>1. i \in Children /\ n \in Nat  BY ThePipeline
    <2>2. i > 1 => i - 1 \in Children  BY <2>1, ScriptAssumption DEF Children
    <2>3. QED  BY <1>2, <2>1, <2>2 DEF OwnEnds
  <1>4. QED  BY <1>1, <1>2, <1>3

\* The typing invariant in four parts.
ControlType ==
    /\ script \in Scripts /\ terminal \in BOOLEAN
    /\ line \in 1..(Len(script) + 1)
    /\ pc \in {"line", "pipe", "fork", "close", "wait", "done"}
    /\ at \in Children
    /\ status \in {0, 1, 126, 127}
    /\ failed \subseteq Lines
EndsType == ends \in [Processes -> SUBSET Ends]
ChildrenType ==
    /\ pipe \in [Children -> Seq(Lines)]
    /\ \A p \in Children : Len(pipe[p]) <= Capacity
    /\ child \in [Children -> {"none", "setup", "run", "zombie", "reaped", "failed"}]
    /\ todo \in [Children -> 0..2]
    /\ fed \in [Children -> BOOLEAN]
    /\ code \in [Children -> {0, 1, 127}]
OutputType ==
    /\ buffer \in [Processes -> Seq(Lines)]
    /\ \A q \in Processes : Len(buffer[q]) < BufferSize
    /\ out \in Seq(Lines)

LEMMA FourTypes == TypeOK => ControlType /\ EndsType /\ ChildrenType /\ OutputType
PROOF
  BY DEF TypeOK, ControlType, EndsType, ChildrenType, OutputType, Lines, Ends

LEMMA FourTypesNext == ControlType' /\ EndsType' /\ ChildrenType' /\ OutputType' => TypeOK'
PROOF
  BY DEF TypeOK, ControlType, EndsType, ChildrenType, OutputType, Lines, Ends

LEMMA Constants ==
    ASSUME TypeOK
    PROVE  /\ Len(script) \in Nat /\ MaxStages \in Nat \ {0} /\ BufferSize \in Nat \ {0}
           /\ Capacity \in Nat \ {0} /\ line \in Nat /\ at \in Nat /\ 1 \in Children
           /\ Shell \in Processes /\ Children \subseteq Processes /\ Shell \notin Children
           /\ line <= Len(script) => line \in Lines
PROOF
  BY ScriptType, ScriptAssumption DEF TypeOK, Children, Processes, Shell, Lines

\* Output of the shell itself.
LEMMA PrintfType ==
    ASSUME TypeOK, line \in Lines, Printf(<<line>>), script' = script
    PROVE  OutputType'
PROOF
  <1>0. Shell \in Processes /\ BufferSize \in Nat \ {0}  BY Constants
  <1>1. <<line>> \in Seq(Lines) /\ <<>> \in Seq(Lines) /\ Len(<<>>) = 0
    OBVIOUS
  <1>2. /\ out \in Seq(Lines) /\ buffer \in [Processes -> Seq(Lines)]
        /\ \A q \in Processes : Len(buffer[q]) < BufferSize
    BY FourTypes DEF OutputType
  <1> DEFINE all == buffer[Shell] \o <<line>>
  <1>3. all \in Seq(Lines)  BY <1>0, <1>1, <1>2, Tokens
  <1>4. out \o all \in Seq(Lines)  BY <1>2, <1>3, Tokens
  <1>5. Len(all) \in Nat  BY <1>3
  <1>6. \/ out' = out \o all /\ buffer' = [buffer EXCEPT ![Shell] = <<>>]
        \/ out' = out /\ buffer' = [buffer EXCEPT ![Shell] = all] /\ ~(Len(all) >= BufferSize)
    BY DEF Printf
  <1> HIDE DEF all
  <1>7. buffer' \in [Processes -> Seq(Lines)]
    BY <1>0, <1>1, <1>2, <1>3, <1>6
  <1>8. ASSUME NEW q \in Processes  PROVE Len(buffer'[q]) < BufferSize
    BY <1>0, <1>1, <1>2, <1>5, <1>6
  <1>9. out' \in Seq(Lines)  BY <1>2, <1>4, <1>6
  <1>10. QED  BY <1>7, <1>8, <1>9 DEF OutputType, Lines

\* What a return of waitpid() tells and does to the children.
LEMMA WaitStatus ==
    ASSUME ControlType, ChildrenType, Wait
    PROVE  /\ \E s \in {0, 1, 127} : Waited(s)
           /\ child' = child \/ \E j \in Children : Reap(j)
PROOF
  <1>1. at \in Children /\ code \in [Children -> {0, 1, 127}]  BY DEF ControlType, ChildrenType
  <1>2. CASE child[at] = "zombie" /\ Reap(at) /\ Waited(code[at])
    BY <1>1, <1>2
  <1>3. CASE child[at] = "reaped" /\ UNCHANGED child /\ \E s \in {0, 1} : Waited(s)
    BY <1>3
  <1>4. CASE \E j \in Children : child[j] = "zombie" /\ Reap(j) /\ Waited(code[j])
    <2>1. PICK j \in Children : Reap(j) /\ Waited(code[j])  BY <1>4
    <2>2. QED  BY <1>1, <2>1
  <1>5. CASE UNCHANGED child /\ \E s \in {0, 1} : Waited(s)
    BY <1>5
  <1>6. QED  BY <1>2, <1>3, <1>4, <1>5 DEF Wait

LEMMA ShellTypeStep ==
    ASSUME TypeOK, InPipeline, ShellStep
    PROVE  TypeOK'
PROOF
  <1>0. ControlType /\ EndsType /\ ChildrenType /\ OutputType  BY FourTypes
  <1>c. /\ Len(script) \in Nat /\ MaxStages \in Nat \ {0} /\ BufferSize \in Nat \ {0}
        /\ Capacity \in Nat \ {0} /\ line \in Nat /\ at \in Nat /\ 1 \in Children
        /\ Shell \in Processes /\ Children \subseteq Processes /\ Shell \notin Children
        /\ line <= Len(script) => line \in Lines
    BY Constants
  <1>e. <<>> \in Seq(Lines) /\ Len(<<>>) = 0
    OBVIOUS
  <1>s. script' = script /\ Lines' = Lines /\ Ends' = Ends
    BY DEF ShellStep, RunEcho, RunExec, StartPipeline, MakePipe, PipeFails, Fork, ForkFails,
           CloseAll, Wait, Waited, Finish, Lines, Ends
  <1>1. ControlType'
    <2>1. CASE RunEcho \/ RunExec \/ StartPipeline
      <3>1. line \in Lines  BY <1>c, <2>1 DEF RunEcho, RunExec, StartPipeline
      <3>2. line + 1 \in 1..(Len(script) + 1)  BY <1>c, <3>1 DEF Lines
      <3>3. CASE RunEcho
        BY <1>0, <1>c, <1>s, <3>2, <3>3 DEF RunEcho, Return, ControlType
      <3>4. CASE RunExec
        BY <1>0, <1>s, <3>4 DEF RunExec, ControlType
      <3>5. CASE StartPipeline
        BY <1>0, <1>c, <1>s, <3>5 DEF StartPipeline, ControlType
      <3>6. QED  BY <2>1, <3>3, <3>4, <3>5
    <2>2. CASE MakePipe \/ PipeFails
      <3>1. line \in Lines /\ at \in 1..(n - 1) /\ n \in 1..MaxStages
        BY <2>2, ThePipeline DEF InPipeline, MakePipe, PipeFails
      <3>2. at + 1 \in Children  BY <1>c, <3>1 DEF Children
      <3>3. CASE MakePipe
        BY <1>0, <1>c, <1>s, <3>2, <3>3 DEF MakePipe, ControlType
      <3>4. CASE PipeFails
        <4>1. line + 1 \in 1..(Len(script) + 1)  BY <1>c, <3>1 DEF Lines
        <4>2. failed' \subseteq Lines  BY <1>0, <3>1, <3>4 DEF PipeFails, ControlType
        <4>3. QED  BY <1>0, <1>c, <1>s, <3>4, <4>1, <4>2 DEF PipeFails, Return, ControlType
      <3>5. QED  BY <2>2, <3>3, <3>4
    <2>3. CASE Fork \/ ForkFails \/ Wait
      <3>1. line \in Lines /\ at \in 1..n /\ n \in 1..MaxStages
        BY <2>3, ThePipeline DEF InPipeline, Fork, ForkFails, Wait
      <3>2. at # n => at + 1 \in Children  BY <1>c, <3>1 DEF Children
      <3>3. CASE Fork \/ ForkFails
        <4>1. failed' \subseteq Lines  BY <1>0, <3>1, <3>3 DEF Fork, ForkFails, ControlType
        <4>2. QED
          BY <1>0, <1>c, <1>s, <3>2, <3>3, <4>1 DEF Fork, ForkFails, AfterFork, ControlType
      <3>4. CASE Wait
        <4>1. PICK s \in {0, 1, 127} : Waited(s)
          BY <1>0, <3>4, WaitStatus
        <4>2. pc = "wait"  BY <3>4 DEF Wait
        <4>3. line + 1 \in 1..(Len(script) + 1)  BY <1>c, <3>1 DEF Lines
        <4>4. QED
          BY <1>0, <1>c, <1>s, <3>2, <4>1, <4>2, <4>3 DEF Waited, Return, ControlType
      <3>5. QED  BY <2>3, <3>3, <3>4
    <2>4. CASE CloseAll \/ Finish
      BY <1>0, <1>s, <2>4 DEF CloseAll, Finish, ControlType
    <2>5. QED  BY <2>1, <2>2, <2>3, <2>4 DEF ShellStep
  <1>2. EndsType'
    <2>1. CASE MakePipe
      <3>1. line \in Lines /\ at \in Children
        BY <1>0, <2>1 DEF InPipeline, MakePipe, ControlType
      <3>2. R(at) \in Ends /\ W(at) \in Ends  BY <3>1, EndTypes
      <3>3. QED  BY <1>0, <1>c, <1>s, <2>1, <3>2 DEF MakePipe, EndsType
    <2>2. CASE Fork \/ ForkFails
      BY <1>0, <1>c, <1>s, <2>2 DEF Fork, ForkFails, AfterFork, EndsType, ControlType
    <2>3. CASE CloseAll
      BY <1>0, <1>c, <1>s, <2>3 DEF CloseAll, EndsType
    <2>4. CASE ends' = ends
      BY <1>0, <1>s, <2>4 DEF EndsType
    <2>5. QED
      BY <2>1, <2>2, <2>3, <2>4 DEF ShellStep, RunEcho, RunExec, StartPipeline, PipeFails, Wait, Waited, Finish
  <1>3. ChildrenType'
    <2>1. CASE StartPipeline
      BY <1>0, <1>c, <1>e, <1>s, <2>1 DEF StartPipeline, ChildrenType
    <2>2. CASE Fork \/ ForkFails
      <3>1. child' \in [Children -> {"none", "setup", "run", "zombie", "reaped", "failed"}]
        BY <1>0, <2>2 DEF Fork, ForkFails, ChildrenType
      <3>2. UNCHANGED <<pipe, todo, fed, code>>  BY <2>2 DEF Fork, ForkFails
      <3>3. QED  BY <1>0, <1>s, <3>1, <3>2 DEF ChildrenType
    <2>3. CASE Wait
      <3>1. child' \in [Children -> {"none", "setup", "run", "zombie", "reaped", "failed"}]
        <4>1. child' = child \/ \E j \in Children : Reap(j)
          BY <1>0, <2>3, WaitStatus
        <4>2. QED  BY <1>0, <4>1 DEF Reap, ChildrenType
      <3>2. UNCHANGED <<pipe, todo, fed, code>>  BY <2>3 DEF Wait, Waited
      <3>3. QED  BY <1>0, <1>s, <3>1, <3>2 DEF ChildrenType
    <2>4. CASE UNCHANGED <<pipe, child, todo, fed, code>>
      BY <1>0, <1>s, <2>4 DEF ChildrenType
    <2>5. QED
      BY <2>1, <2>2, <2>3, <2>4 DEF ShellStep, RunEcho, RunExec, MakePipe, PipeFails, CloseAll, Finish, UnchangedChildren
  <1>4. OutputType'
    <2>1. CASE RunEcho
      <3>1. line \in Lines /\ Printf(<<line>>)  BY <1>c, <2>1 DEF RunEcho
      <3>2. QED  BY <1>s, <3>1, PrintfType
    <2>2. CASE RunExec
      <3>1. line \in Lines  BY <1>c, <2>2 DEF RunExec
      <3>2. Append(out, line) \in Seq(Lines) /\ out \o buffer[Shell] \in Seq(Lines)
        BY <1>0, <1>c, <3>1, Tokens DEF OutputType
      <3>3. out' \in Seq(Lines) /\ buffer' = [buffer EXCEPT ![Shell] = <<>>]
        BY <2>2, <3>2 DEF RunExec
      <3>4. QED  BY <1>0, <1>c, <1>e, <1>s, <3>3 DEF OutputType
    <2>3. CASE Finish
      <3>1. out \o buffer[Shell] \in Seq(Lines)  BY <1>0, <1>c, Tokens DEF OutputType
      <3>2. QED  BY <1>0, <1>c, <1>e, <1>s, <2>3, <3>1 DEF Finish, OutputType
    <2>4. CASE Fork
      <3>1. at \in Processes  BY <1>0, <1>c DEF ControlType
      <3>2. QED  BY <1>0, <1>c, <1>s, <2>4, <3>1 DEF Fork, OutputType
    <2>5. CASE UNCHANGED <<buffer, out>>
      BY <1>0, <1>s, <2>5 DEF OutputType
    <2>6. CASE Wait
      <3>1. UNCHANGED <<buffer, out>>  BY <1>0, <2>6, WaitStatus DEF Waited
      <3>2. QED  BY <2>5, <3>1
    <2>7. CASE StartPipeline \/ MakePipe \/ PipeFails \/ ForkFails \/ CloseAll
      <3>1. UNCHANGED <<buffer, out>>
        BY <2>7 DEF StartPipeline, MakePipe, PipeFails, ForkFails, CloseAll
      <3>2. QED  BY <2>5, <3>1
    <2>8. QED  BY <2>1, <2>2, <2>3, <2>4, <2>6, <2>7 DEF ShellStep
  <1>5. QED  BY <1>1, <1>2, <1>3, <1>4, FourTypesNext
\* A child is at work only in a pipeline that exists.
LEMMA ChildInPipeline ==
    ASSUME TypeOK, InPipeline, Family, NEW i \in Children, child[i] \in {"setup", "run"}
    PROVE  /\ pc \in {"fork", "close", "wait"} /\ line \in Lines /\ i \in 1..n /\ n \in 1..MaxStages
           /\ Pipeline[i] \in Stages
PROOF
  <1>1. pc \in {"fork", "close", "wait"} /\ line \in Lines
    BY DEF TypeOK, InPipeline, Family
  <1>2. n \in 1..MaxStages /\ MaxStages \in Nat  BY <1>1, ThePipeline
  <1>3. i \in Nat /\ i >= 1 /\ at \in Nat  BY Constants DEF Children
  <1>4. i <= n
    <2>1. CASE pc = "fork"
      <3>1. at \in 1..n /\ ~(i >= at)  BY <2>1 DEF InPipeline, Family
      <3>2. QED  BY <1>2, <1>3, <3>1
    <2>2. CASE pc \in {"close", "wait"}
      <3>1. ~(i > n)  BY <2>2 DEF Family
      <3>2. QED  BY <1>2, <1>3, <3>1
    <2>3. QED  BY <1>1, <2>1, <2>2
  <1>5. i \in 1..n  BY <1>2, <1>3, <1>4
  <1>6. QED  BY <1>1, <1>2, <1>5, ThePipeline

LEMMA ChildTypeStep ==
    ASSUME TypeOK, InPipeline, Family, NEW i \in Children, ChildStep(i)
    PROVE  TypeOK'
PROOF
  <1>0. ControlType /\ EndsType /\ ChildrenType /\ OutputType  BY FourTypes
  <1>c. /\ Len(script) \in Nat /\ MaxStages \in Nat \ {0} /\ BufferSize \in Nat \ {0}
        /\ Capacity \in Nat \ {0} /\ Children \subseteq Processes /\ i \in Processes
    BY Constants
  <1>p. line \in Lines /\ i \in 1..n
    BY ChildInPipeline DEF ChildStep, SetUp, Write, BrokenPipe, Read, Exit, RunningChild
  <1>s. shellVars' = shellVars
    BY DEF ChildStep, SetUp, BecomeStage, Write, BrokenPipe, Read, Exit, RunningChild
  <1>l. script' = script /\ Lines' = Lines /\ Ends' = Ends
    BY <1>s DEF shellVars, Lines, Ends
  <1>1. ControlType'  BY <1>0, <1>s, <1>l DEF shellVars, ControlType
  <1>2. CASE SetUp(i)
    <2>1. EndsType'
      <3>1. OwnEnds(i) \subseteq Ends  BY <1>p, EndTypes
      <3>2. QED  BY <1>0, <1>c, <1>l, <1>2, <3>1 DEF SetUp, EndsType
    <2>2. ChildrenType'
      <3>1. Writes(Pipeline[i].run) \in 0..2  BY CommandTypes
      <3>2. QED  BY <1>0, <1>l, <1>2, <3>1 DEF SetUp, BecomeStage, ChildrenType
    <2>3. OutputType'
      <3>1. out \o buffer[i] \in Seq(Lines)  BY <1>0, <1>c, Tokens DEF OutputType
      <3>2. <<>> \in Seq(Lines) /\ Len(<<>>) = 0  OBVIOUS
      <3>3. out' \in Seq(Lines) /\ buffer' = [buffer EXCEPT ![i] = <<>>]
        BY <1>0, <1>2, <3>1 DEF SetUp, BecomeStage, OutputType
      <3>4. buffer \in [Processes -> Seq(Lines)] /\ \A q \in Processes : Len(buffer[q]) < BufferSize
        BY <1>0 DEF OutputType
      <3>5. buffer' \in [Processes -> Seq(Lines)]
        BY <3>2, <3>3, <3>4
      <3>6. ASSUME NEW q \in Processes  PROVE Len(buffer'[q]) < BufferSize
        BY <1>c, <3>2, <3>3, <3>4
      <3>7. QED  BY <1>l, <3>3, <3>5, <3>6 DEF OutputType
    <2>4. QED  BY <1>1, <2>1, <2>2, <2>3, FourTypesNext
  <1>3. CASE Write(i)
    <2>1. EndsType'  BY <1>0, <1>l, <1>3 DEF Write, EndsType
    <2>2. Append(out, line) \in Seq(Lines)  BY <1>0, <1>p, Tokens DEF OutputType
    <2>3. Append(pipe[i], line) \in Seq(Lines) /\ Len(Append(pipe[i], line)) = Len(pipe[i]) + 1
      BY <1>0, <1>p, Tokens DEF ChildrenType
    <2>4. OutputType'
      <3>1. out' \in Seq(Lines) /\ buffer' = buffer
        BY <1>0, <1>3, <2>2 DEF Write, OutputType
      <3>2. QED  BY <1>0, <1>l, <3>1 DEF OutputType
    <2>5. ChildrenType'
      <3>1. todo' \in [Children -> 0..2]
        BY <1>0, <1>3 DEF Write, ChildrenType
      <3>2. \/ pipe' = pipe
            \/ pipe' = [pipe EXCEPT ![i] = Append(@, line)] /\ Len(pipe[i]) < Capacity
        BY <1>3 DEF Write
      <3>3. Len(pipe[i]) \in Nat  BY <1>0 DEF ChildrenType
      <3>4. pipe \in [Children -> Seq(Lines)] /\ \A p \in Children : Len(pipe[p]) <= Capacity
        BY <1>0 DEF ChildrenType
      <3>5. pipe' \in [Children -> Seq(Lines)]  BY <2>3, <3>2, <3>4
      <3>6. ASSUME NEW p \in Children  PROVE Len(pipe'[p]) <= Capacity
        <4>1. CASE pipe' = pipe  BY <3>4, <4>1
        <4>2. CASE pipe' = [pipe EXCEPT ![i] = Append(@, line)] /\ Len(pipe[i]) < Capacity
          <5>1. pipe'[p] = IF p = i THEN Append(pipe[i], line) ELSE pipe[p]  BY <3>4, <4>2
          <5>2. Len(pipe[i]) + 1 <= Capacity  BY <1>c, <3>3, <4>2
          <5>3. QED  BY <2>3, <3>4, <5>1, <5>2
        <4>3. QED  BY <3>2, <4>1, <4>2
      <3>7. UNCHANGED <<child, fed, code>>  BY <1>3 DEF Write
      <3>8. QED  BY <1>0, <1>l, <3>1, <3>5, <3>6, <3>7 DEF ChildrenType
    <2>6. QED  BY <1>1, <2>1, <2>4, <2>5, FourTypesNext
  <1>4. CASE BrokenPipe(i) \/ Exit(i)
    <2>1. PICK c \in {0, 1, 127} : Die(i, c)
      BY <1>4, CommandTypes DEF BrokenPipe, Exit
    <2>2. EndsType'  BY <1>0, <1>l, <2>1 DEF Die, EndsType
    <2>3. ChildrenType'  BY <1>0, <1>l, <2>1 DEF Die, ChildrenType
    <2>4. OutputType'
      <3>1. UNCHANGED <<buffer, out>>  BY <2>1 DEF Die
      <3>2. QED  BY <1>0, <1>l, <3>1 DEF OutputType
    <2>5. QED  BY <1>1, <2>2, <2>3, <2>4, FourTypesNext
  <1>5. CASE Read(i)
    <2>1. EndsType' /\ OutputType'  BY <1>0, <1>l, <1>5 DEF Read, EndsType, OutputType
    <2>2. i - 1 \in Children  BY <1>c, <1>5 DEF Read, Children
    <2>3. /\ Tail(pipe[i - 1]) \in Seq(Lines) /\ Len(Tail(pipe[i - 1])) = Len(pipe[i - 1]) - 1
          /\ Len(pipe[i - 1]) \in Nat
      BY <1>0, <1>5, <2>2, Tokens DEF Read, ChildrenType
    <2>4. pipe' = [pipe EXCEPT ![i - 1] = Tail(@)]  BY <1>5 DEF Read
    <2>5. pipe' \in [Children -> Seq(Lines)] /\ \A p \in Children : Len(pipe'[p]) <= Capacity
      BY <1>0, <1>c, <2>2, <2>3, <2>4 DEF ChildrenType
    <2>6. /\ todo' = [todo EXCEPT ![i] = 1] /\ fed' = [fed EXCEPT ![i] = Pipeline[i].run = "head"]
          /\ UNCHANGED <<child, code>>
      BY <1>5 DEF Read
    <2>7. (Pipeline[i].run = "head") \in BOOLEAN
      OBVIOUS
    <2>8. ChildrenType'  BY <1>0, <1>l, <2>5, <2>6, <2>7 DEF ChildrenType
    <2>9. QED  BY <1>1, <2>1, <2>8, FourTypesNext
  <1>6. QED  BY <1>2, <1>3, <1>4, <1>5 DEF ChildStep

----------------------------------------------------------------------------
(***************************************************************************)
(* The steps of the shell.                                                 *)
(***************************************************************************)

\* What the invariant says before a pipeline starts.
LEMMA BuiltinStep ==
    ASSUME Inv, RunEcho \/ RunExec \/ Finish
    PROVE  Course'
PROOF
  <1>0. TypeOK /\ Family /\ NoSpareEnds  BY DEF Inv, Course
  <1>1. /\ pc = "line" /\ pc' \in {"line", "done"}
        /\ UNCHANGED <<script, ends, child, failed>>
    BY DEF RunEcho, RunExec, Finish, Return, UnchangedChildren
  <1>2. InPipeline' /\ Orderly'  BY <1>1 DEF InPipeline, Orderly
  <1>3. \A i \in Children : child[i] \in {"none", "reaped", "failed"} /\ ends[i] = {}
    BY <1>0, <1>1 DEF Family
  <1>4. Family'  BY <1>1, <1>3 DEF Family
  <1>5. NoSpareEnds'  BY <1>1, <1>3 DEF NoSpareEnds
  <1>6. StatusOfLastStage'
    <2>1. CASE RunEcho
      <3>1. line \in Nat /\ line <= Len(script) /\ line \in Lines
        BY <1>0, <2>1, Constants DEF RunEcho
      <3>2. n = 1 /\ Pipeline[1].run = "echo"  BY <2>1 DEF RunEcho, IsPlainBuiltin
      <3>3. Last(script[line]).run = "echo"  BY <3>2 DEF Last, n, Pipeline
      <3>4. script' = script /\ line' - 1 = line /\ status' = 0
        BY <2>1, <3>1 DEF RunEcho, Return
      <3>5. ExitStatus("echo") = 0  BY DEF ExitStatus
      <3>6. QED  BY <3>3, <3>4, <3>5 DEF StatusOfLastStage
    <2>2. CASE RunExec \/ Finish  BY <2>2 DEF RunExec, Finish, StatusOfLastStage
    <2>3. QED  BY <2>1, <2>2
  <1>7. QED  BY <1>2, <1>4, <1>5, <1>6 DEF Course

LEMMA StartPipelineStep ==
    ASSUME Inv, StartPipeline
    PROVE  Course'
PROOF
  <1>0. TypeOK /\ Family  BY DEF Inv, Course
  <1>1. line \in Lines  BY <1>0, Constants DEF StartPipeline
  <1>2. n \in 1..MaxStages /\ MaxStages \in Nat  BY <1>0, <1>1, ThePipeline
  <1>3. /\ pc = "line" /\ pc' = (IF n = 1 THEN "fork" ELSE "pipe") /\ at' = 1
        /\ child' = [i \in Children |-> "none"] /\ UNCHANGED <<script, line, ends, failed>>
    BY DEF StartPipeline
  <1>4. n' = n /\ Lines' = Lines  BY <1>3 DEF n, Pipeline, Lines
  <1>5. InPipeline'  BY <1>1, <1>2, <1>3, <1>4 DEF InPipeline
  <1>6. \A i \in Children : ends'[i] = {} /\ child'[i] = "none"
    BY <1>0, <1>3 DEF Family
  <1>7. \A i \in Children : i \in Nat /\ i >= 1  BY DEF Children
  <1>8. Family'  BY <1>3, <1>6, <1>7 DEF Family
  <1>9. NoSpareEnds' /\ Orderly' /\ StatusOfLastStage'
    BY <1>3, <1>6 DEF NoSpareEnds, Orderly, StatusOfLastStage
  <1>10. QED  BY <1>5, <1>8, <1>9 DEF Course

LEMMA PipeStep ==
    ASSUME Inv, MakePipe \/ PipeFails
    PROVE  Course'
PROOF
  <1>0. TypeOK /\ InPipeline /\ Family  BY DEF Inv, Course
  <1>1. /\ pc = "pipe" /\ line \in Lines /\ at \in 1..(n - 1)
        /\ \A i \in Children : child[i] = "none" /\ ends[i] = {}
    BY <1>0 DEF MakePipe, PipeFails, InPipeline, Family
  <1>2. n \in 1..MaxStages /\ MaxStages \in Nat  BY <1>0, <1>1, ThePipeline
  <1>3. \A i \in Children : i \in Nat /\ i >= 1 /\ i # Shell  BY DEF Children, Shell
  <1>4. child' = child /\ script' = script  BY DEF MakePipe, PipeFails, UnchangedChildren
  <1>5. \A i \in Children : ends'[i] = {}
    <2>1. ends' = ends \/ ends' = [ends EXCEPT ![Shell] = @ \cup {R(at), W(at)}]
      BY DEF MakePipe, PipeFails
    <2>2. ends \in [Processes -> SUBSET Ends]  BY <1>0, FourTypes DEF EndsType
    <2>3. QED  BY <1>0, <1>1, <1>3, <2>1, <2>2, Constants
  <1>6. CASE MakePipe
    <2>1. /\ UNCHANGED <<line, failed, status>>
          /\ \/ pc' = "fork" /\ at' = 1
             \/ at # n - 1 /\ pc' = "pipe" /\ at' = at + 1
      BY <1>1, <1>6 DEF MakePipe
    <2>2. n' = n /\ Lines' = Lines  BY <1>4, <2>1 DEF n, Pipeline, Lines
    <2>3. InPipeline'  BY <1>1, <1>2, <2>1, <2>2 DEF InPipeline
    <2>4. Family'  BY <1>1, <1>3, <1>4, <1>5, <2>1 DEF Family
    <2>5. NoSpareEnds' /\ Orderly' /\ StatusOfLastStage'
      BY <1>1, <1>4, <2>1 DEF NoSpareEnds, Orderly, StatusOfLastStage
    <2>6. QED  BY <2>3, <2>4, <2>5 DEF Course
  <1>7. CASE PipeFails
    <2>1. pc' = "line" /\ line' = line + 1 /\ failed' = failed \cup {line}
      BY <1>7 DEF PipeFails, Return
    <2>2. line' - 1 \in failed'  BY <1>0, <2>1, Constants
    <2>3. InPipeline' /\ Orderly' /\ StatusOfLastStage'
      BY <2>1, <2>2 DEF InPipeline, Orderly, StatusOfLastStage
    <2>4. Family' /\ NoSpareEnds'
      BY <1>1, <1>4, <1>5, <2>1 DEF Family, NoSpareEnds
    <2>5. QED  BY <2>3, <2>4 DEF Course
  <1>8. QED  BY <1>6, <1>7

LEMMA ForkStep ==
    ASSUME Inv, Fork \/ ForkFails
    PROVE  Course'
PROOF
  <1>0. TypeOK /\ InPipeline /\ Family /\ NoSpareEnds /\ Orderly  BY DEF Inv, Course
  <1>1. /\ pc = "fork" /\ line \in Lines /\ at \in 1..n /\ at \in Children
        /\ \A i \in Children : (i >= at => child[i] = "none") /\ (i < at => child[i] # "none")
    BY <1>0 DEF Fork, ForkFails, InPipeline, Family, TypeOK
  <1>2. n \in 1..MaxStages /\ MaxStages \in Nat  BY <1>0, <1>1, ThePipeline
  <1>3. \A i \in Children : i \in Nat /\ i >= 1 /\ i # Shell /\ i \in Processes
    BY <1>0, Constants DEF Children, Shell
  <1>4. child \in [Children -> {"none", "setup", "run", "zombie", "reaped", "failed"}]
        /\ ends \in [Processes -> SUBSET Ends]
    BY <1>0, FourTypes DEF ChildrenType, EndsType
  <1>5. /\ UNCHANGED <<script, line, code, status>>
        /\ \/ child' = [child EXCEPT ![at] = "setup"] /\ failed' = failed
           \/ child' = [child EXCEPT ![at] = "failed"] /\ failed' = failed \cup {line}
    BY DEF Fork, ForkFails
  <1>6. /\ \A i \in Children : i # at => child'[i] = child[i]
        /\ child'[at] \in {"setup", "failed"}
        /\ child'[at] = "failed" => line \in failed'
    BY <1>1, <1>4, <1>5
  <1>7. /\ \A i \in Children : i # at => ends'[i] = ends[i]
        /\ child'[at] = "failed" => ends'[at] = {}
    <2>1. ends' = [ends EXCEPT ![Shell] = @ \ {R(at - 1), W(at - 1)},
                              ![at] = IF child'[at] = "setup" THEN ends[Shell] ELSE {}]
      BY DEF Fork, ForkFails, AfterFork
    <2>2. QED  BY <1>1, <1>3, <1>4, <2>1
  <1>8. \/ at = n /\ pc' = "close" /\ at' = 1
        \/ at # n /\ pc' = "fork" /\ at' = at + 1
    BY <1>1 DEF Fork, ForkFails, AfterFork
  <1>9. n' = n /\ Lines' = Lines /\ Pipeline' = Pipeline  BY <1>5 DEF n, Pipeline, Lines
  <1>10. InPipeline'  BY <1>1, <1>2, <1>5, <1>8, <1>9 DEF InPipeline
  <1>11. Family'
    <2>1. \A i \in Children : child'[i] \in {"none", "zombie", "reaped", "failed"} => ends'[i] = {}
      BY <1>0, <1>6, <1>7 DEF Family
    <2>2. \A i \in Children : (i > at => child'[i] = "none") /\ (i <= at => child'[i] # "none")
      BY <1>1, <1>2, <1>3, <1>6
    <2>3. QED  BY <1>1, <1>2, <1>3, <1>8, <1>9, <2>1, <2>2 DEF Family
  <1>12. NoSpareEnds'
    <2>1. ASSUME NEW i \in Children, child'[i] = "run"
          PROVE  ends'[i] \cap EndsOf(line) = OwnEnds(i)
      BY <1>0, <1>6, <1>7, <2>1 DEF NoSpareEnds
    <2>2. EndsOf(line)' = EndsOf(line) /\ \A i \in Children : OwnEnds(i)' = OwnEnds(i)
      BY <1>5, <1>9 DEF EndsOf, OwnEnds, Sink, R, W
    <2>3. QED  BY <1>8, <2>1, <2>2 DEF NoSpareEnds
  <1>13. Orderly'
    <2>1. SUFFICES ASSUME line \notin failed', NEW i \in Children
                   PROVE  /\ child'[i] # "failed" /\ child'[i] # "reaped"
                          /\ child'[i] = "zombie" /\ i = n => code[i] = ExitStatus(Pipeline[i].run)
      BY <1>5, <1>8, <1>9 DEF Orderly
    <2>2. line \notin failed /\ child'[at] = "setup"  BY <1>5, <1>6, <2>1
    <2>3. CASE i = at  BY <2>2, <2>3
    <2>4. CASE i # at
      BY <1>0, <1>1, <1>6, <2>2, <2>4 DEF Orderly
    <2>5. QED  BY <2>3, <2>4
  <1>14. StatusOfLastStage'  BY <1>8 DEF StatusOfLastStage
  <1>15. QED  BY <1>10, <1>11, <1>12, <1>13, <1>14 DEF Course

LEMMA CloseStep ==
    ASSUME Inv, CloseAll
    PROVE  Course'
PROOF
  <1>0. TypeOK /\ InPipeline /\ Family /\ NoSpareEnds /\ Orderly  BY DEF Inv, Course
  <1>1. pc = "close" /\ line \in Lines /\ at = 1
    BY <1>0 DEF CloseAll, InPipeline
  <1>2. n \in 1..MaxStages /\ MaxStages \in Nat  BY <1>0, <1>1, ThePipeline
  <1>3. \A i \in Children : i \in Nat /\ i >= 1 /\ i # Shell  BY DEF Children, Shell
  <1>4. /\ UNCHANGED <<script, line, at, child, code, status, failed>> /\ pc' = "wait"
        /\ ends' = [ends EXCEPT ![Shell] = @ \ EndsOf(line)]
    BY DEF CloseAll, UnchangedChildren
  <1>5. n' = n /\ Lines' = Lines /\ Pipeline' = Pipeline  BY <1>4 DEF n, Pipeline, Lines
  <1>6. /\ \A i \in Children : ends'[i] = ends[i]
        /\ ends'[Shell] \cap EndsOf(line) = {}
    <2>1. ends \in [Processes -> SUBSET Ends] /\ Shell \in Processes /\ Children \subseteq Processes
      BY <1>0, FourTypes, Constants DEF EndsType
    <2>2. QED  BY <1>3, <1>4, <2>1
  <1>7. InPipeline'  BY <1>1, <1>2, <1>4, <1>5 DEF InPipeline
  <1>8. Family'  BY <1>0, <1>1, <1>3, <1>4, <1>5, <1>6 DEF Family
  <1>9. EndsOf(line)' = EndsOf(line) /\ \A i \in Children : OwnEnds(i)' = OwnEnds(i)
    BY <1>4, <1>5 DEF EndsOf, OwnEnds, Sink, R, W
  <1>10. NoSpareEnds'  BY <1>0, <1>4, <1>6, <1>9 DEF NoSpareEnds
  <1>11. Orderly'  BY <1>0, <1>1, <1>4, <1>5 DEF Orderly
  <1>12. StatusOfLastStage'  BY <1>4 DEF StatusOfLastStage
  <1>13. QED  BY <1>7, <1>8, <1>10, <1>11, <1>12 DEF Course

LEMMA WaitStep ==
    ASSUME Inv, Wait
    PROVE  Course'
PROOF
  <1>0. TypeOK /\ InPipeline /\ Family /\ NoSpareEnds /\ Orderly  BY DEF Inv, Course
  <1>1. pc = "wait" /\ line \in Lines /\ at \in 1..n /\ at \in Children
    BY <1>0 DEF Wait, InPipeline, TypeOK
  <1>2. n \in 1..MaxStages /\ MaxStages \in Nat  BY <1>0, <1>1, ThePipeline
  <1>3. \A i \in Children : i \in Nat /\ i >= 1  BY DEF Children
  <1>4. child \in [Children -> {"none", "setup", "run", "zombie", "reaped", "failed"}]
        /\ code \in [Children -> {0, 1, 127}]
    BY <1>0, FourTypes DEF ChildrenType
  <1>5. /\ \A i \in Children : child'[i] = child[i] \/ (child[i] = "zombie" /\ child'[i] = "reaped")
        /\ child'[at] \in {"reaped", "failed"}
    <2>1. CASE child[at] = "zombie" /\ Reap(at)  BY <1>1, <1>4, <2>1 DEF Reap
    <2>2. CASE child[at] \in {"reaped", "failed"} /\ UNCHANGED child  BY <2>2
    <2>3. CASE child[at] = "failed" /\ \E j \in Children : child[j] = "zombie" /\ Reap(j)
      <3>1. PICK j \in Children : child[j] = "zombie" /\ Reap(j)  BY <2>3
      <3>2. j # at  BY <2>3, <3>1
      <3>3. QED  BY <1>1, <1>4, <2>3, <3>1, <3>2 DEF Reap
    <2>4. QED  BY <2>1, <2>2, <2>3 DEF Wait
  <1>6. PICK s \in {0, 1, 127} : /\ Waited(s)
                                 /\ line \notin failed => /\ child[at] = "zombie" /\ s = code[at]
                                                          /\ Reap(at)
    <2>1. line \notin failed => child[at] # "failed" /\ child[at] # "reaped"
      BY <1>0, <1>1, <1>2 DEF Orderly
    <2>2. CASE line \in failed  BY <1>0, <2>2, FourTypes, WaitStatus
    <2>3. CASE line \notin failed  BY <1>1, <1>4, <2>1, <2>3 DEF Wait
    <2>4. QED  BY <2>2, <2>3
  <1>7. /\ UNCHANGED <<script, ends, code, failed>>
        /\ \/ at = n /\ pc' = "line" /\ line' = line + 1 /\ status' = s
           \/ at # n /\ pc' = "wait" /\ line' = line /\ at' = at + 1
    BY <1>1, <1>6 DEF Waited, Return
  <1>8. InPipeline'
    <2>1. CASE at = n  BY <1>7, <2>1 DEF InPipeline
    <2>2. CASE at # n
      <3>1. n' = n /\ Lines' = Lines  BY <1>7, <2>2 DEF n, Pipeline, Lines
      <3>2. QED  BY <1>1, <1>2, <1>7, <2>2, <3>1 DEF InPipeline
    <2>3. QED  BY <2>1, <2>2
  <1>9. Family'
    <2>1. /\ \A i \in Children : child'[i] \in {"none", "zombie", "reaped", "failed"} => ends'[i] = {}
          /\ \A i \in Children : i <= at => child'[i] \in {"reaped", "failed"}
          /\ \A i \in Children : i > n => child'[i] = "none"
          /\ \A i \in Children : i <= n => child'[i] # "none"
      <3>1. \A i \in Children : child'[i] \in {"none", "zombie", "reaped", "failed"} => ends'[i] = {}
        BY <1>0, <1>5, <1>7 DEF Family
      <3>2. ASSUME NEW i \in Children, i <= at  PROVE child'[i] \in {"reaped", "failed"}
        <4>1. CASE i = at  BY <1>5, <4>1
        <4>2. CASE i # at
          <5>1. i < at  BY <1>1, <1>2, <1>3, <3>2, <4>2
          <5>2. child[i] \in {"reaped", "failed"}  BY <1>0, <1>1, <5>1 DEF Family
          <5>3. QED  BY <1>5, <5>2
        <4>3. QED  BY <4>1, <4>2
      <3>3. \A i \in Children : (i > n => child'[i] = "none") /\ (i <= n => child'[i] # "none")
        BY <1>0, <1>1, <1>5 DEF Family
      <3>4. QED  BY <3>1, <3>2, <3>3
    <2>2. CASE at = n
      <3>1. \A i \in Children : child'[i] \in {"none", "reaped", "failed"}
        BY <1>2, <1>3, <2>1, <2>2
      <3>2. QED  BY <1>7, <2>1, <2>2, <3>1 DEF Family
    <2>3. CASE at # n
      <3>1. n' = n  BY <1>7, <2>3 DEF n, Pipeline
      <3>2. \A i \in Children : i < at' => i <= at  BY <1>1, <1>2, <1>3, <1>7, <2>3
      <3>3. QED  BY <1>7, <2>1, <2>3, <3>1, <3>2 DEF Family
    <2>4. QED  BY <2>2, <2>3
  <1>10. NoSpareEnds'
    <2>1. CASE at = n
      <3>1. \A i \in Children : child'[i] # "run"
        BY <1>7, <1>9, <2>1 DEF Family
      <3>2. QED  BY <1>7, <2>1, <3>1 DEF NoSpareEnds
    <2>2. CASE at # n
      <3>1. EndsOf(line)' = EndsOf(line) /\ \A i \in Children : OwnEnds(i)' = OwnEnds(i)
        BY <1>7, <2>2 DEF EndsOf, OwnEnds, Sink, R, W, n, Pipeline
      <3>2. QED  BY <1>0, <1>1, <1>5, <1>7, <2>2, <3>1 DEF NoSpareEnds
    <2>3. QED  BY <2>1, <2>2
  <1>11. Orderly'
    <2>1. CASE at = n  BY <1>7, <2>1 DEF Orderly
    <2>2. CASE at # n
      <3>1. n' = n /\ Pipeline' = Pipeline  BY <1>7, <2>2 DEF n, Pipeline
      <3>2. SUFFICES ASSUME line \notin failed, NEW i \in Children
                     PROVE  /\ child'[i] # "failed"
                            /\ child'[i] = "reaped" => i < at'
                            /\ child'[i] = "zombie" /\ i = n => code[i] = ExitStatus(Pipeline[i].run)
        BY <1>7, <2>2, <3>1 DEF Orderly
      <3>3. /\ child[i] # "failed" /\ (child[i] = "reaped" => i < at)
            /\ child[i] = "zombie" /\ i = n => code[i] = ExitStatus(Pipeline[i].run)
        BY <1>0, <1>1, <3>2 DEF Orderly
      <3>4. child' = [child EXCEPT ![at] = "reaped"]  BY <1>6, <3>2 DEF Reap
      <3>5. at \in Nat /\ i \in Nat /\ at' = at + 1  BY <1>1, <1>2, <1>3, <1>7, <2>2
      <3>6. QED  BY <1>4, <3>3, <3>4, <3>5
    <2>3. QED  BY <2>1, <2>2
  <1>12. StatusOfLastStage'
    <2>1. SUFFICES ASSUME at = n, line \notin failed
                   PROVE  s = ExitStatus(Last(script[line]).run)
      <3>1. line \in Nat  BY <1>0, Constants
      <3>2. QED  BY <1>7, <2>1, <3>1 DEF StatusOfLastStage
    <2>2. s = code[n] /\ code[n] = ExitStatus(Pipeline[n].run)
      BY <1>0, <1>1, <1>6, <2>1 DEF Orderly
    <2>3. QED  BY <2>2 DEF Last, Pipeline, n
  <1>13. QED  BY <1>8, <1>9, <1>10, <1>11, <1>12 DEF Course

----------------------------------------------------------------------------
(***************************************************************************)
(* The steps of a child, and the theorems.                                 *)
(***************************************************************************)

\* What a step of a child leaves alone, and what it does to its own stage.
LEMMA ChildStepEffect ==
    ASSUME TypeOK, InPipeline, Family, NEW i \in Children, ChildStep(i)
    PROVE  /\ shellVars' = shellVars
           /\ \A j \in Processes \ {i} : ends'[j] = ends[j]
           /\ \A j \in Children \ {i} : child'[j] = child[j] /\ code'[j] = code[j]
           /\ child[i] \in {"setup", "run"}
           /\ \/ /\ child'[i] = "run"
                 /\ \/ ends'[i] = (ends[i] \ EndsOf(line)) \cup OwnEnds(i)
                    \/ child[i] = "run" /\ ends'[i] = ends[i]
              \/ /\ child'[i] = "zombie" /\ ends'[i] = {}
                 /\ i = n => code'[i] = ExitStatus(Pipeline[i].run)
PROOF
  <1>1. /\ child \in [Children -> {"none", "setup", "run", "zombie", "reaped", "failed"}]
        /\ code \in [Children -> {0, 1, 127}] /\ ends \in [Processes -> SUBSET Ends]
        /\ i \in Processes
    BY FourTypes, Constants DEF ChildrenType, EndsType
  <1>2. CASE SetUp(i)  BY <1>1, <1>2 DEF SetUp, BecomeStage
  <1>3. CASE Write(i) \/ Read(i)
    <2>1. /\ child[i] = "run" /\ UNCHANGED <<ends, child, code>> /\ shellVars' = shellVars
      BY <1>3 DEF Write, Read, RunningChild
    <2>2. QED  BY <2>1
  <1>4. CASE BrokenPipe(i)
    <2>1. child[i] = "run" /\ Sink(i) = "pipe" /\ Die(i, 1) /\ shellVars' = shellVars
      BY <1>4 DEF BrokenPipe, RunningChild
    <2>2. i \in 1..n /\ n \in 1..MaxStages  BY <2>1, ChildInPipeline
    <2>3. i # n  BY <2>1, <2>2, ScriptAssumption DEF Sink
    <2>4. QED  BY <1>1, <2>1, <2>3 DEF Die
  <1>5. CASE Exit(i)
    <2>1. child[i] = "run" /\ Die(i, ExitStatus(Pipeline[i].run)) /\ shellVars' = shellVars
      BY <1>5 DEF Exit, RunningChild
    <2>2. QED  BY <1>1, <2>1 DEF Die
  <1>6. QED  BY <1>2, <1>3, <1>4, <1>5 DEF ChildStep

LEMMA ChildCourseStep ==
    ASSUME Inv, NEW i \in Children, ChildStep(i)
    PROVE  Course'
PROOF
  <1>0. TypeOK /\ InPipeline /\ Family /\ NoSpareEnds /\ Orderly /\ StatusOfLastStage
    BY DEF Inv, Course
  <1>1. /\ shellVars' = shellVars
        /\ \A j \in Processes \ {i} : ends'[j] = ends[j]
        /\ \A j \in Children \ {i} : child'[j] = child[j] /\ code'[j] = code[j]
        /\ child[i] \in {"setup", "run"}
        /\ \/ /\ child'[i] = "run"
              /\ \/ ends'[i] = (ends[i] \ EndsOf(line)) \cup OwnEnds(i)
                 \/ child[i] = "run" /\ ends'[i] = ends[i]
           \/ /\ child'[i] = "zombie" /\ ends'[i] = {}
              /\ i = n => code'[i] = ExitStatus(Pipeline[i].run)
    BY <1>0, ChildStepEffect
  <1>2. UNCHANGED <<script, line, pc, at, status, failed>>  BY <1>1 DEF shellVars
  <1>3. /\ pc \in {"fork", "close", "wait"} /\ line \in Lines /\ i \in 1..n /\ n \in 1..MaxStages
    BY <1>0, <1>1, ChildInPipeline
  <1>4. n' = n /\ Lines' = Lines /\ Pipeline' = Pipeline  BY <1>2 DEF n, Pipeline, Lines
  <1>5. Children \subseteq Processes /\ Shell \in Processes /\ Shell # i  BY <1>0, Constants
  <1>6. InPipeline' /\ StatusOfLastStage'
    BY <1>0, <1>2, <1>4 DEF InPipeline, StatusOfLastStage
  <1>7. Family'
    <2>1. /\ child'[i] \notin {"none", "setup", "reaped", "failed"}
          /\ child'[i] = "zombie" => ends'[i] = {}
      BY <1>1
    <2>2. (pc = "fork" => ~(i >= at)) /\ (pc \in {"close", "wait"} => ~(i > n))
          /\ (pc = "wait" => ~(i < at))
      BY <1>0, <1>1 DEF Family
    <2>3. \A j \in Children \ {i} : child'[j] = child[j] /\ ends'[j] = ends[j]
      BY <1>1, <1>5
    <2>4. QED  BY <1>0, <1>2, <1>3, <1>4, <2>1, <2>2, <2>3 DEF Family
  <1>8. NoSpareEnds'
    <2>1. OwnEnds(i) \subseteq EndsOf(line)  BY <1>0, <1>3, EndTypes
    <2>2. EndsOf(line)' = EndsOf(line) /\ \A j \in Children : OwnEnds(j)' = OwnEnds(j)
      BY <1>2, <1>4 DEF EndsOf, OwnEnds, Sink, R, W
    <2>3. child'[i] = "run" => ends'[i] \cap EndsOf(line) = OwnEnds(i)
      BY <1>0, <1>1, <2>1 DEF NoSpareEnds
    <2>4. ASSUME NEW j \in Children \ {i}, child'[j] = "run"
          PROVE  ends'[j] \cap EndsOf(line) = OwnEnds(j)
      BY <1>0, <1>1, <1>5, <2>4 DEF NoSpareEnds
    <2>5. pc = "wait" => ends'[Shell] \cap EndsOf(line) = {}
      BY <1>0, <1>1, <1>5 DEF NoSpareEnds
    <2>6. QED  BY <1>2, <2>2, <2>3, <2>4, <2>5 DEF NoSpareEnds
  <1>9. Orderly'
    <2>1. SUFFICES ASSUME line \notin failed, NEW j \in Children
                   PROVE  /\ child'[j] # "failed"
                          /\ child'[j] = "reaped" => pc = "wait" /\ j < at
                          /\ child'[j] = "zombie" /\ j = n => code'[j] = ExitStatus(Pipeline[j].run)
      BY <1>2, <1>4 DEF Orderly
    <2>2. CASE j = i  BY <1>1, <2>2
    <2>3. CASE j # i  BY <1>0, <1>1, <1>3, <2>1, <2>3 DEF Orderly
    <2>4. QED  BY <2>2, <2>3
  <1>10. QED  BY <1>6, <1>7, <1>8, <1>9 DEF Course

LEMMA InvStep == Inv /\ [Next]_vars => Inv'
PROOF
  <1> SUFFICES ASSUME Inv, [Next]_vars  PROVE Inv'
    OBVIOUS
  <1>0. TypeOK /\ InPipeline /\ Family  BY DEF Inv, Course
  <1>1. CASE ShellStep
    <2>1. TypeOK'  BY <1>0, <1>1, ShellTypeStep
    <2>2. Course'
      BY <1>1, BuiltinStep, StartPipelineStep, PipeStep, ForkStep, CloseStep, WaitStep DEF ShellStep
    <2>3. QED  BY <2>1, <2>2 DEF Inv
  <1>2. ASSUME NEW i \in Children, ChildStep(i)  PROVE Inv'
    <2>1. TypeOK'  BY <1>0, <1>2, ChildTypeStep
    <2>2. Course'  BY <1>2, ChildCourseStep
    <2>3. QED  BY <2>1, <2>2 DEF Inv
  <1>3. CASE UNCHANGED vars
    <2>1. UNCHANGED <<script, line, pc, at, status, failed, ends, child, code>>  BY <1>3 DEF vars
    <2>2. n' = n /\ Pipeline' = Pipeline /\ Lines' = Lines  BY <2>1 DEF n, Pipeline, Lines
    <2>3. EndsOf(line)' = EndsOf(line) /\ \A i \in Children : OwnEnds(i)' = OwnEnds(i)
      BY <2>1, <2>2 DEF EndsOf, OwnEnds, Sink, R, W
    <2>4. TypeOK'  BY <1>0, <1>3 DEF TypeOK, vars
    <2>5. InPipeline' /\ Family'  BY <1>0, <2>1, <2>2 DEF InPipeline, Family
    <2>6. NoSpareEnds'  BY <2>1, <2>3 DEF Inv, Course, NoSpareEnds
    <2>7. Orderly' /\ StatusOfLastStage'
      BY <2>1, <2>2 DEF Inv, Course, Orderly, StatusOfLastStage
    <2>8. QED  BY <2>4, <2>5, <2>6, <2>7 DEF Inv, Course
  <1>4. QED  BY <1>1, <1>2, <1>3 DEF Next, Terminated

LEMMA InvAlways == Spec => []Inv
PROOF
  <1>1. QED  BY InvInit, InvStep, PTL DEF Spec

\* Every variable keeps to its values: no pipe holds more than its capacity and
\* no process keeps a full stdio buffer, whatever the scripts (Printf, Write).
THEOREM TypeCorrect == Spec => []TypeOK
PROOF
  <1>1. Inv => TypeOK  BY DEF Inv
  <1>2. QED  BY InvAlways, <1>1, PTL

\* The ends of one line's pipes are not those of another's.
LEMMA EndsApart ==
    ASSUME NEW k, NEW m, k # m
    PROVE  EndsOf(k) \cap EndsOf(m) = {}
PROOF
  BY DEF EndsOf

\* The shell gets ends of the present line only, and goes on to the next when it
\* has closed them or pipe() has failed.
LEMMA LetsGoStep ==
    ASSUME Inv, ShellLetsGo, [Next]_vars
    PROVE  ShellLetsGo'
PROOF
  <1>0. /\ TypeOK /\ InPipeline /\ NoSpareEnds
        /\ ends \in [Processes -> SUBSET Ends] /\ Shell \in Processes
        /\ failed \subseteq Lines
    BY FourTypes, Constants DEF Inv, Course, EndsType, ControlType
  <1>1. SUFFICES ASSUME NEW k \in Lines', ends'[Shell] \cap EndsOf(k) # {}
                 PROVE  k \in failed' \/ (k = line' /\ pc' \in {"pipe", "fork", "close"})
    BY DEF ShellLetsGo, Lines, EndsOf
  <1>2. script' = script /\ Lines' = Lines /\ failed \subseteq failed'
    <2>1. CASE ShellStep
      BY <2>1 DEF ShellStep, RunEcho, RunExec, StartPipeline, MakePipe, PipeFails, Fork, ForkFails,
         CloseAll, Wait, Waited, Finish, Lines
    <2>2. ASSUME NEW i \in Children, ChildStep(i)  PROVE script' = script /\ failed' = failed
      BY <1>0, <2>2, ChildStepEffect DEF Inv, Course, shellVars
    <2>3. CASE UNCHANGED vars  BY <2>3 DEF vars, Lines
    <2>4. QED  BY <2>1, <2>2, <2>3 DEF Next, Terminated, Lines
  <1>3. ASSUME ends'[Shell] \subseteq ends[Shell],
               \/ line' = line /\ pc' = pc
               \/ line' = line /\ pc' \in {"fork", "close"}
               \/ pc \in {"line", "wait"}
               \/ line \in failed'
        PROVE  k \in failed' \/ (k = line' /\ pc' \in {"pipe", "fork", "close"})
    <2>1. ends[Shell] \cap EndsOf(k) # {}  BY <1>1, <1>3
    <2>2. k \in failed \/ (k = line /\ pc \in {"pipe", "fork", "close"})
      BY <1>1, <1>2, <2>1 DEF ShellLetsGo, Lines
    <2>3. QED  BY <1>2, <1>3, <2>2
  <1>4. CASE RunEcho \/ RunExec \/ StartPipeline \/ Finish \/ PipeFails \/ Wait
    <2>1. ends' = ends  BY <1>4 DEF RunEcho, RunExec, StartPipeline, Finish, PipeFails, Wait, Waited
    <2>2. pc \in {"line", "wait"} \/ line \in failed'
      BY <1>4 DEF RunEcho, RunExec, StartPipeline, Finish, PipeFails, Wait
    <2>3. QED  BY <1>3, <2>1, <2>2
  <1>5. CASE Fork \/ ForkFails
    <2>1. at # Shell /\ pc' \in {"fork", "close"} /\ line' = line
      <3>1. at \in Children  BY <1>0, FourTypes DEF ControlType
      <3>2. QED  BY <1>5, <3>1 DEF Fork, ForkFails, AfterFork, Children, Shell
    <2>2. ends' = [ends EXCEPT ![Shell] = @ \ {R(at - 1), W(at - 1)},
                              ![at] = IF child'[at] = "setup" THEN ends[Shell] ELSE {}]
      BY <1>5 DEF Fork, ForkFails, AfterFork
    <2>3. ends'[Shell] \subseteq ends[Shell]  BY <1>0, <2>1, <2>2
    <2>4. QED  BY <1>3, <2>1, <2>3
  <1>6. CASE MakePipe
    <2>1. pc = "pipe" /\ line' = line /\ pc' \in {"pipe", "fork"} /\ line \in Lines
          /\ ends'[Shell] = ends[Shell] \cup {R(at), W(at)}
      BY <1>0, <1>6 DEF MakePipe, InPipeline
    <2>2. {R(at), W(at)} \subseteq EndsOf(line)
      <3>1. at \in Children  BY <1>0, FourTypes DEF ControlType
      <3>2. QED  BY <1>0, <2>1, <3>1, EndTypes
    <2>3. CASE k = line  BY <2>1, <2>3
    <2>4. CASE k # line
      <3>1. ends[Shell] \cap EndsOf(k) # {}  BY <1>1, <2>1, <2>2, <2>4, EndsApart
      <3>2. k \in failed  BY <1>1, <1>2, <2>4, <3>1 DEF ShellLetsGo, Lines
      <3>3. QED  BY <1>2, <3>2
    <2>5. QED  BY <2>3, <2>4
  <1>7. CASE CloseAll
    <2>1. ends'[Shell] = ends[Shell] \ EndsOf(line)
      BY <1>0, <1>7 DEF CloseAll
    <2>2. k # line /\ ends[Shell] \cap EndsOf(k) # {}  BY <1>1, <2>1
    <2>3. k \in failed  BY <1>1, <1>2, <2>2 DEF ShellLetsGo, Lines
    <2>4. QED  BY <1>2, <2>3
  <1>8. ASSUME NEW i \in Children, ChildStep(i)
        PROVE  k \in failed' \/ (k = line' /\ pc' \in {"pipe", "fork", "close"})
    <2>1. shellVars' = shellVars /\ \A j \in Processes \ {i} : ends'[j] = ends[j]
      BY <1>0, <1>8, ChildStepEffect DEF Inv, Course
    <2>2. i # Shell  BY <1>0, Constants DEF Children, Shell
    <2>3. QED  BY <1>0, <1>3, <2>1, <2>2 DEF shellVars
  <1>9. CASE UNCHANGED vars  BY <1>3, <1>9 DEF vars
  <1>10. QED
    BY <1>4, <1>5, <1>6, <1>7, <1>8, <1>9 DEF Next, ShellStep, Terminated

\* A pipeline of any number of stages is set up and brought to its end with
\* every process reaped, and has the status of its last stage; no stage has a
\* spare pipe end, nor has the shell, unless a pipe() or fork() of that line
\* has failed (execute_pipeline_internal).
THEOREM InOrder == Spec => []PipelinesInOrder
PROOF
  <1>1. Inv /\ ShellLetsGo => PipelinesInOrder
    <2>1. SUFFICES ASSUME Inv, ShellLetsGo  PROVE PipelinesInOrder
      OBVIOUS
    <2>2. Family /\ NoSpareEnds /\ StatusOfLastStage  BY <2>1 DEF Inv, Course
    <2>3. PipelineIsOver  BY <2>2 DEF PipelineIsOver, Family
    <2>4. QED  BY <2>1, <2>2, <2>3 DEF PipelinesInOrder
  <1>2. Init => ShellLetsGo
    <2>1. SUFFICES ASSUME Init  PROVE ShellLetsGo
      OBVIOUS
    <2>2. Shell \in Processes  BY <2>1, InvInit, Constants DEF Inv
    <2>3. ends[Shell] = {}  BY <2>1, <2>2 DEF Init
    <2>4. QED  BY <2>3 DEF ShellLetsGo
  <1>3. Inv /\ ShellLetsGo /\ [Next]_vars => ShellLetsGo'  BY LetsGoStep
  <1>4. QED  BY InvAlways, <1>1, <1>2, <1>3, PTL DEF Spec

----------------------------------------------------------------------------
(***************************************************************************)
(* That the output arrives.  What is printed of a line cannot be told from *)
(* what has been printed so far: a stage may go on for ever, be ended by   *)
(* its reader, or pass on what it has not read yet.  A ledger foretells it *)
(* for each stage, and every step keeps it balanced.                       *)
(***************************************************************************)

\* How often a line's token is in a sequence; Printed(k) is Copies(out, k).
Copies(s, k) == Cardinality({j \in DOMAIN s : s[j] = k})

\* What a command makes of x tokens on its standard input.
Given(c, x) ==
    CASE c = "cat" -> x
      [] c = "head" -> IF x = 0 THEN 0 ELSE 1
      [] c = "yes" -> Endless
      [] OTHER -> Writes(c)

\* Passed is computed by a function, whose value for a stage is what the
\* stages up to there write.
Input(stages, f, i) == IF i > 1 /\ stages[i - 1].toFile THEN 0 ELSE f[i - 1]
Flow(stages, f) ==
    f = [i \in 0..Len(stages) |-> IF i = 0 THEN 0 ELSE Given(stages[i].run, Input(stages, f, i))]
After(stages) == CHOOSE f : Flow(stages, f)

Unborn(i) == child[i] \in {"none", "setup"}
Dead(i) == child[i] \in {"zombie", "reaped"}
NeverEnds(i) == After(Pipeline)[i] = Endless

\* A ledger w has what each stage will still write.  It takes it from what is
\* in the pipe to a stage and what the stage before it will write.
Coming(w, i) == IF i = 1 \/ Pipeline[i - 1].toFile THEN 0 ELSE w[i - 1] + Len(pipe[i - 1])
Owes(w, i) ==
    /\ Dead(i) => w[i] = 0
    /\ ~Dead(i) /\ NeverEnds(i) => w[i] = Endless
    /\ Unborn(i) /\ ~NeverEnds(i) => w[i] = Given(Pipeline[i].run, Coming(w, i))
    /\ child[i] = "run" /\ ~NeverEnds(i) =>
          w[i] = todo[i] + (IF fed[i] THEN 0 ELSE Given(Pipeline[i].run, Coming(w, i)))

\* What is printed of a line and what the last stage owes is all of it.
Balanced(w) ==
    /\ \A i \in 1..n : Owes(w, i)
    /\ ~NeverEnds(n) /\ ~Pipeline[n].toFile => Copies(out, line) + w[n] = After(Pipeline)[n]
    /\ Pipeline[n].toFile => Copies(out, line) = 0

Underway == pc \in {"pipe", "fork", "close", "wait"} /\ line \notin failed

Ledger == Underway => \E w \in [Children -> Nat] : Balanced(w)

\* What running stages do, what is never in a pipe, and that an endless stage
\* ends only after the one it writes to.
Mannered(i) ==
    /\ child[i] = "run" => /\ Pipeline[i].run = "yes" => todo[i] = 1
                           /\ ~fed[i] => Pipeline[i].run \in Readers
                           /\ fed[i] => Pipeline[i].run # "cat"
    /\ Pipeline[i].toFile => pipe[i] = <<>>
    /\ NeverEnds(i) /\ Dead(i) => i < n /\ Dead(i + 1)

Manners == Underway => \A i \in 1..n : Mannered(i)

\* Who still has the ends of pipes before the stages that need them run.
Held ==
    /\ pc = "pipe" => \A p \in 1..(at - 1) : {R(p), W(p)} \subseteq ends[Shell]
    /\ pc = "fork" => \A p \in 1..(n - 1) : p >= at - 1 => {R(p), W(p)} \subseteq ends[Shell]
    /\ \A i \in Children : child[i] = "setup" =>
          (i > 1 => R(i - 1) \in ends[i]) /\ (i < n => W(i) \in ends[i])

\* Output is of lines that have been reached; buffers lag behind.
Reached ==
    /\ \A q \in Processes : \A j \in DOMAIN buffer[q] : buffer[q][j] < line
    /\ \A j \in DOMAIN out : out[j] <= line /\ (pc = "line" => out[j] < line)
    /\ terminal => /\ \A q \in Processes : buffer[q] = <<>>
                   /\ \A j \in DOMAIN out : j > 1 => out[j - 1] <= out[j]

\* All that earlier lines printed has arrived or is in the shell's buffer.
Due(k) == IF Last(script[k]).toFile THEN 0 ELSE After(script[k])[Len(script[k])]
AllOf(k) ==
    /\ Copies(out, k) + Copies(buffer[Shell], k) >= Due(k)
    /\ terminal => Copies(out, k) = Due(k)
Settled == ~Replaced /\ failed = {} =>
    /\ \A k \in Lines : k < line => AllOf(k)
    /\ pc = "done" => line > Len(script) /\ buffer[Shell] = <<>>

Accounts == Ledger /\ Manners /\ Held /\ Reached /\ Settled

\* Some number is the least of a set of them.
LEMMA LeastNumber ==
    ASSUME NEW N, N \subseteq Nat, N # {}
    PROVE  \E i \in N : \A j \in N : i <= j
PROOF
  <1>1. IsWellFoundedOn(OpToRel(<, Nat), Nat)
    BY NatLessThanWellFounded
  <1>2. PICK i \in N : \A j \in N : ~ (<<j, i>> \in OpToRel(<, Nat))
    BY <1>1, WFMin
  <1>3. ASSUME NEW j \in N, j < i PROVE FALSE
    BY <1>2, <1>3 DEF OpToRel
  <1>4. QED  BY <1>3

\* Counting tokens.
LEMMA CopiesType ==
    ASSUME NEW S, NEW s \in Seq(S), NEW k
    PROVE  /\ IsFiniteSet({j \in DOMAIN s : s[j] = k}) /\ Copies(s, k) \in Nat
           /\ (\A j \in DOMAIN s : s[j] # k) => Copies(s, k) = 0
PROOF
  <1>1. DOMAIN s = 1..Len(s) /\ Len(s) \in Nat
    OBVIOUS
  <1>2. IsFiniteSet(DOMAIN s)  BY <1>1, FS_Interval
  <1>3. IsFiniteSet({j \in DOMAIN s : s[j] = k})  BY <1>2, FS_Subset
  <1>4. Copies(s, k) \in Nat  BY <1>3, FS_CardinalityType DEF Copies
  <1>5. ASSUME \A j \in DOMAIN s : s[j] # k  PROVE Copies(s, k) = 0
    <2>1. {j \in DOMAIN s : s[j] = k} = {}  BY <1>5
    <2>2. QED  BY <2>1, FS_EmptySet DEF Copies
  <1>6. QED  BY <1>3, <1>4, <1>5

LEMMA CopiesAppend ==
    ASSUME NEW S, NEW s \in Seq(S), NEW x \in S, NEW k
    PROVE  Copies(Append(s, x), k) = Copies(s, k) + (IF x = k THEN 1 ELSE 0)
PROOF
  <1> DEFINE P == {j \in DOMAIN s : s[j] = k}
             t == Append(s, x)
             Q == {j \in DOMAIN t : t[j] = k}
  <1>1. /\ DOMAIN s = 1..Len(s) /\ Len(s) \in Nat /\ DOMAIN t = 1..(Len(s) + 1)
        /\ \A j \in 1..Len(s) : t[j] = s[j]
        /\ t[Len(s) + 1] = x
    BY AppendProperties
  <1>2. Q = IF x = k THEN P \cup {Len(s) + 1} ELSE P
    BY <1>1
  <1>3. IsFiniteSet(P) /\ Len(s) + 1 \notin P
    <2>1. IsFiniteSet(P)  BY CopiesType
    <2>2. Len(s) + 1 \notin P  BY <1>1
    <2>3. QED  BY <2>1, <2>2
  <1>4. Cardinality(P \cup {Len(s) + 1}) = Cardinality(P) + 1
    BY <1>3, FS_AddElement
  <1> HIDE DEF P, Q, t
  <1>5. Cardinality(P) \in Nat  BY <1>3, FS_CardinalityType
  <1>6. Cardinality(Q) = Cardinality(P) + (IF x = k THEN 1 ELSE 0)
    BY <1>2, <1>4, <1>5
  <1>7. QED  BY <1>6 DEF Copies, P, Q, t

LEMMA CopiesConcat ==
    ASSUME NEW S, NEW s \in Seq(S), NEW t \in Seq(S), NEW k
    PROVE  Copies(s \o t, k) = Copies(s, k) + Copies(t, k)
PROOF
  <1> DEFINE P == {j \in DOMAIN s : s[j] = k}
             Q == {j \in DOMAIN t : t[j] = k}
             U == {j \in DOMAIN (s \o t) : (s \o t)[j] = k}
             f == [j \in Q |-> Len(s) + j]
             F == {j \in U : j > Len(s)}
  <1>1. /\ DOMAIN s = 1..Len(s) /\ Len(s) \in Nat /\ DOMAIN t = 1..Len(t) /\ Len(t) \in Nat
        /\ DOMAIN (s \o t) = 1..(Len(s) + Len(t))
        /\ \A j \in 1..(Len(s) + Len(t)) : (s \o t)[j] = IF j <= Len(s) THEN s[j] ELSE t[j - Len(s)]
    BY ConcatProperties
  <1>2. IsFiniteSet(P) /\ IsFiniteSet(Q)  BY CopiesType
  <1>3. U = P \cup F /\ P \cap F = {}
    BY <1>1
  <1>4. f \in Bijection(Q, F)
    <2>1. \A j \in Q : f[j] \in F
      BY <1>1
    <2>2. f \in [Q -> F]
      BY <2>1
    <2>3. \A a, b \in Q : f[a] = f[b] => a = b
      BY <1>1
    <2>4. ASSUME NEW u \in F  PROVE \E j \in Q : f[j] = u
      <3>1. u - Len(s) \in Q  BY <1>1
      <3>2. f[u - Len(s)] = u  BY <1>1, <3>1
      <3>3. QED  BY <3>1, <3>2
    <2> HIDE DEF f, F, Q
    <2>5. QED
      <3>1. DOMAIN f = Q  BY <2>2
      <3>2. f \in Injection(Q, F)  BY <2>2, <2>3, <3>1 DEF Injection, IsInjective
      <3>3. f \in Surjection(Q, F)  BY <2>2, <2>4 DEF Surjection
      <3>4. QED  BY <3>2, <3>3 DEF Bijection
  <1> HIDE DEF f, F, P, Q, U
  <1>5. IsFiniteSet(F) /\ Cardinality(F) = Cardinality(Q)
    BY <1>2, <1>4, FS_Bijection DEF ExistsBijection
  <1>6. Cardinality(U) = Cardinality(P) + Cardinality(F) - Cardinality(P \cap F)
    BY <1>2, <1>3, <1>5, FS_Union
  <1>7. Cardinality(P \cap F) = 0 /\ Cardinality(P) \in Nat /\ Cardinality(Q) \in Nat
    BY <1>2, <1>3, FS_EmptySet, FS_CardinalityType
  <1>8. Cardinality(U) = Cardinality(P) + Cardinality(Q)
    BY <1>5, <1>6, <1>7
  <1>9. QED  BY <1>8 DEF Copies, U, P, Q

----------------------------------------------------------------------------

\* The function that Passed is computed by exists: were there none up to some
\* stage, one up to the stage before could be extended.
FlowUpTo(stages, m, f) ==
    f = [i \in 0..m |-> IF i = 0 THEN 0 ELSE Given(stages[i].run, Input(stages, f, i))]

LEMMA FlowExists ==
    ASSUME NEW stages, Len(stages) \in Nat
    PROVE  Flow(stages, After(stages))
PROOF
  <1> DEFINE N == {m \in Nat : ~ \E f : FlowUpTo(stages, m, f)}
  <1>1. N = {}
    <2> SUFFICES ASSUME N # {}  PROVE FALSE
      OBVIOUS
    <2>1. PICK m \in N : \A j \in N : m <= j
      <3>1. N \subseteq Nat  OBVIOUS
      <3> HIDE DEF N
      <3>2. QED  BY <3>1, LeastNumber
    <2>2. m \in Nat /\ ~ \E f : FlowUpTo(stages, m, f)
      BY <2>1
    <2>3. m # 0
      <3> DEFINE f == [i \in 0..0 |-> 0]
      <3>1. ASSUME m = 0  PROVE FlowUpTo(stages, m, f)
        <4>1. \A i \in 0..0 : i = 0  OBVIOUS
        <4>2. [i \in 0..0 |-> IF i = 0 THEN 0 ELSE Given(stages[i].run, Input(stages, f, i))] = f
          BY <4>1
        <4>3. QED  BY <3>1, <4>2 DEF FlowUpTo
      <3> HIDE DEF f
      <3>2. QED  BY <2>2, <3>1
    <2>4. m - 1 \in Nat /\ m - 1 \notin N
      BY <2>1, <2>2, <2>3
    <2>5. PICK g : FlowUpTo(stages, m - 1, g)
      BY <2>4
    <2> DEFINE f == [i \in 0..m |-> IF i = m THEN Given(stages[m].run, Input(stages, g, m)) ELSE g[i]]
    <2>6. \A i \in 0..m : i # 0 => i - 1 \in 0..(m - 1) /\ f[i - 1] = g[i - 1]
      BY <2>2, <2>3
    <2>7. \A i \in 0..m : i # 0 => Input(stages, f, i) = Input(stages, g, i)
      BY <2>6 DEF Input
    <2>8. ASSUME NEW i \in 0..m
          PROVE  f[i] = IF i = 0 THEN 0 ELSE Given(stages[i].run, Input(stages, f, i))
      <3>1. CASE i = m
        <4>1. f[i] = Given(stages[m].run, Input(stages, g, m))  BY <3>1
        <4>2. QED  BY <2>3, <2>7, <3>1, <4>1
      <3>2. CASE i # m
        <4>1. i \in 0..(m - 1)  BY <2>2, <3>2
        <4>2. g[i] = IF i = 0 THEN 0 ELSE Given(stages[i].run, Input(stages, g, i))
          BY <2>5, <4>1 DEF FlowUpTo
        <4>3. f[i] = g[i]  BY <3>2
        <4>4. QED  BY <2>7, <4>2, <4>3
      <3>3. QED  BY <3>1, <3>2
    <2>9. f = [i \in 0..m |-> f[i]]
      OBVIOUS
    <2> HIDE DEF f
    <2>10. FlowUpTo(stages, m, f)
      BY <2>8, <2>9 DEF FlowUpTo
    <2>11. QED  BY <2>2, <2>10
  <1>2. \E f : FlowUpTo(stages, Len(stages), f)
    BY <1>1
  <1>3. \E f : Flow(stages, f)
    BY <1>2 DEF Flow, FlowUpTo
  <1>4. QED  BY <1>3 DEF After

\* What a pipeline prints is what its last stage makes of what comes to it.
LEMMA PassedIsAfter ==
    ASSUME NEW stages
    PROVE  Passed(stages) = IF Last(stages).toFile THEN 0 ELSE After(stages)[Len(stages)]
PROOF
  BY Zenon DEF Passed, After, Flow, Given, Input

LEMMA AfterStage ==
    ASSUME NEW stages \in Seq(Stages)
    PROVE  /\ After(stages)[0] = 0
           /\ \A i \in 1..Len(stages) :
                 /\ After(stages)[i] = Given(stages[i].run, Input(stages, After(stages), i))
                 /\ After(stages)[i] \in Nat
PROOF
  <1> DEFINE A == After(stages)
             N == {i \in 1..Len(stages) : A[i] \notin Nat}
  <1>1. Len(stages) \in Nat  OBVIOUS
  <1>2. \A i \in 0..Len(stages) : A[i] = IF i = 0 THEN 0 ELSE Given(stages[i].run, Input(stages, A, i))
    BY <1>1, FlowExists DEF Flow
  <1>3. A[0] = 0 /\ \A i \in 1..Len(stages) : A[i] = Given(stages[i].run, Input(stages, A, i))
    BY <1>1, <1>2
  <1>4. N = {}
    <2> SUFFICES ASSUME N # {}  PROVE FALSE
      OBVIOUS
    <2>1. PICK i \in N : \A j \in N : i <= j
      <3>1. N \subseteq Nat  BY <1>1
      <3> HIDE DEF N
      <3>2. QED  BY <3>1, LeastNumber
    <2>2. i \in 1..Len(stages) /\ A[i] \notin Nat /\ i \in Nat
      BY <1>1, <2>1
    <2>3. i - 1 = 0 \/ (i - 1 \in 1..Len(stages) /\ i - 1 \notin N)
      BY <1>1, <2>1, <2>2
    <2>4. A[i - 1] \in Nat
      BY <1>3, <2>3
    <2>5. Input(stages, A, i) \in Nat
      BY <2>4 DEF Input
    <2>6. Writes(stages[i].run) \in 0..2  BY CommandTypes
    <2>7. Given(stages[i].run, Input(stages, A, i)) \in Nat
      BY <2>5, <2>6 DEF Given, Endless
    <2>8. QED  BY <1>3, <2>2, <2>7
  <1>5. QED  BY <1>3, <1>4

----------------------------------------------------------------------------
(***************************************************************************)
(* Who holds the ends of pipes.                                            *)
(***************************************************************************)

\* The two ends of a stage, if they are held by the process q.
HasEnds(q, i) == (i > 1 => R(i - 1) \in ends[q]) /\ (i < n => W(i) \in ends[q])

LEMMA HeldKept ==
    ASSUME TypeOK, Held, UNCHANGED <<script, line>>,
           NEW i \in Children, child[i] = "setup", ends'[i] = ends[i]
    PROVE  HasEnds(i, i)'
PROOF
  <1>1. HasEnds(i, i)  BY DEF Held, HasEnds
  <1>2. n' = n  BY DEF n, Pipeline
  <1>3. QED  BY <1>1, <1>2 DEF HasEnds, R, W

LEMMA HeldInPipe ==
    ASSUME Inv, Held, MakePipe
    PROVE  Held'
PROOF
  <1>0. TypeOK /\ InPipeline /\ Family  BY DEF Inv, Course
  <1>1. /\ pc = "pipe" /\ line \in Lines /\ at \in 1..(n - 1) /\ n \in 1..MaxStages
        /\ MaxStages \in Nat /\ \A i \in Children : child[i] = "none"
    BY <1>0, ThePipeline DEF MakePipe, InPipeline, Family
  <1>2. /\ UNCHANGED <<script, line, child>>
        /\ \/ at = n - 1 /\ pc' = "fork" /\ at' = 1
           \/ pc' = "pipe" /\ at' = at + 1
        /\ ends' = [ends EXCEPT ![Shell] = @ \cup {R(at), W(at)}]
    BY <1>1 DEF MakePipe, UnchangedChildren
  <1>3. ends \in [Processes -> SUBSET Ends] /\ Shell \in Processes
    BY <1>0, FourTypes, Constants DEF EndsType
  <1>4. ends'[Shell] = ends[Shell] \cup {R(at), W(at)}
    BY <1>2, <1>3
  <1>5. n' = n /\ \A p : R(p)' = R(p) /\ W(p)' = W(p)
    BY <1>2 DEF n, Pipeline, R, W
  <1>6. \A p \in 1..at : {R(p), W(p)} \subseteq ends'[Shell]
    <2>1. ASSUME NEW p \in 1..at  PROVE {R(p), W(p)} \subseteq ends'[Shell]
      <3>1. CASE p = at  BY <1>4, <3>1
      <3>2. CASE p # at
        <4>1. p \in 1..(at - 1)  BY <1>1, <3>2
        <4>2. QED  BY <1>1, <1>4, <4>1 DEF Held
      <3>3. QED  BY <3>1, <3>2
    <2>2. QED  BY <2>1
  <1>7. pc' = "fork" => \A p \in 1..(n - 1) : {R(p), W(p)} \subseteq ends'[Shell]
    BY <1>1, <1>2, <1>6
  <1>8. pc' = "pipe" => \A p \in 1..(at' - 1) : {R(p), W(p)} \subseteq ends'[Shell]
    BY <1>1, <1>2, <1>6
  <1>9. QED  BY <1>1, <1>2, <1>5, <1>7, <1>8 DEF Held

LEMMA HeldInFork ==
    ASSUME Inv, Held, Fork \/ ForkFails
    PROVE  Held'
PROOF
  <1>0. TypeOK /\ InPipeline /\ Family  BY DEF Inv, Course
  <1>1. /\ pc = "fork" /\ line \in Lines /\ at \in 1..n /\ n \in 1..MaxStages /\ MaxStages \in Nat
        /\ at \in Children
    BY <1>0, ThePipeline DEF Fork, ForkFails, InPipeline, TypeOK
  <1>2. /\ UNCHANGED <<script, line>>
        /\ \/ pc' = "close"
           \/ pc' = "fork" /\ at' = at + 1
        /\ child' = [child EXCEPT ![at] = "setup"] \/ child' = [child EXCEPT ![at] = "failed"]
        /\ ends' = [ends EXCEPT ![Shell] = @ \ {R(at - 1), W(at - 1)},
                                ![at] = IF child'[at] = "setup" THEN ends[Shell] ELSE {}]
    BY <1>1 DEF Fork, ForkFails, AfterFork
  <1>3. /\ ends \in [Processes -> SUBSET Ends] /\ Shell \in Processes /\ Children \subseteq Processes
        /\ Shell \notin Children
        /\ child \in [Children -> {"none", "setup", "run", "zombie", "reaped", "failed"}]
    BY <1>0, FourTypes, Constants DEF EndsType, ChildrenType
  <1>4. /\ ends'[Shell] = ends[Shell] \ {R(at - 1), W(at - 1)}
        /\ child'[at] = "setup" => ends'[at] = ends[Shell]
        /\ \A i \in Children : i # at => ends'[i] = ends[i] /\ child'[i] = child[i]
    BY <1>1, <1>2, <1>3
  <1>5. n' = n /\ \A p : R(p)' = R(p) /\ W(p)' = W(p)
    BY <1>2 DEF n, Pipeline, R, W
  <1>6. \A p \in 1..(n - 1) : p >= at - 1 => {R(p), W(p)} \subseteq ends[Shell]
    BY <1>1 DEF Held
  <1>7. ASSUME pc' = "fork", NEW p \in 1..(n - 1), p >= at' - 1
        PROVE  {R(p), W(p)} \subseteq ends'[Shell]
    <2>1. p >= at - 1 /\ p # at - 1  BY <1>1, <1>2, <1>7
    <2>2. {R(p), W(p)} \cap {R(at - 1), W(at - 1)} = {}  BY <2>1 DEF R, W
    <2>3. QED  BY <1>4, <1>6, <2>1, <2>2
  <1>8. ASSUME NEW i \in Children, child'[i] = "setup"
        PROVE  HasEnds(i, i)'
    <2>1. CASE i = at
      <3>1. at > 1 => at - 1 \in 1..(n - 1)  BY <1>1
      <3>2. at < n => at \in 1..(n - 1)  BY <1>1
      <3>3. HasEnds(Shell, at)  BY <1>1, <1>6, <3>1, <3>2 DEF HasEnds
      <3>4. ends'[at] = ends[Shell]  BY <1>4, <1>8, <2>1
      <3>5. QED  BY <1>5, <2>1, <3>3, <3>4 DEF HasEnds
    <2>2. CASE i # at
      BY <1>0, <1>2, <1>4, <1>8, <2>2, HeldKept
    <2>3. QED  BY <2>1, <2>2
  <1>9. pc' # "pipe"  BY <1>2
  <1>10. QED  BY <1>5, <1>7, <1>8, <1>9 DEF Held, HasEnds

LEMMA HeldStep ==
    ASSUME Inv, Held, [Next]_vars
    PROVE  Held'
PROOF
  <1>0. TypeOK /\ InPipeline /\ Family  BY DEF Inv, Course
  <1>1. CASE RunEcho \/ RunExec \/ Finish \/ PipeFails
    <2>1. pc' \in {"line", "done"} /\ child' = child
          /\ pc \in {"line", "pipe"}
      BY <1>1 DEF RunEcho, RunExec, Finish, PipeFails, Return, UnchangedChildren
    <2>2. QED  BY <1>0, <2>1 DEF Held, Family
  <1>2. CASE StartPipeline
    <2>1. /\ child' = [i \in Children |-> "none"] /\ at' = 1 /\ UNCHANGED <<script, line>>
          /\ pc' = IF n = 1 THEN "fork" ELSE "pipe"
      BY <1>2 DEF StartPipeline
    <2>2. n' = n  BY <2>1 DEF n, Pipeline
    <2>3. QED  BY <2>1, <2>2 DEF Held
  <1>3. CASE MakePipe  BY <1>3, HeldInPipe
  <1>4. CASE Fork \/ ForkFails  BY <1>4, HeldInFork
  <1>5. CASE CloseAll
    <2>1. /\ UNCHANGED <<script, line, child>> /\ pc' = "wait"
          /\ ends' = [ends EXCEPT ![Shell] = @ \ EndsOf(line)]
      BY <1>5 DEF CloseAll, UnchangedChildren
    <2>2. \A i \in Children : ends'[i] = ends[i]
      <3>1. ends \in [Processes -> SUBSET Ends] /\ Shell \notin Children /\ Children \subseteq Processes
        BY <1>0, FourTypes, Constants DEF EndsType
      <3>2. QED  BY <2>1, <3>1
    <2>3. \A i \in Children : child'[i] = "setup" => HasEnds(i, i)'
      BY <1>0, <2>1, <2>2, HeldKept
    <2>4. QED  BY <2>1, <2>3 DEF Held, HasEnds
  <1>6. CASE Wait
    <2>1. PICK s \in {0, 1, 127} : Waited(s)  BY <1>0, <1>6, WaitStatus, FourTypes
    <2>2. /\ UNCHANGED <<script, ends>> /\ pc = "wait"
          /\ \/ pc' = "line"
             \/ pc' = "wait" /\ line' = line
      BY <1>6, <2>1 DEF Wait, Waited, Return
    <2>3. Family'  BY <1>6, WaitStep DEF Course
    <2>4. \A i \in Children : child'[i] = "setup" => child[i] = "setup"
      <3>1. child' = child \/ \E j \in Children : Reap(j)
        BY <1>0, <1>6, WaitStatus, FourTypes
      <3>2. child \in [Children -> {"none", "setup", "run", "zombie", "reaped", "failed"}]
        BY <1>0, FourTypes DEF ChildrenType
      <3>3. QED  BY <3>1, <3>2 DEF Reap
    <2>5. CASE pc' = "line"  BY <2>3, <2>5 DEF Held, Family
    <2>6. CASE pc' = "wait" /\ line' = line
      <3>1. \A i \in Children : child'[i] = "setup" => HasEnds(i, i)'
        BY <1>0, <2>2, <2>4, <2>6, HeldKept
      <3>2. QED  BY <2>6, <3>1 DEF Held, HasEnds
    <2>7. QED  BY <2>2, <2>5, <2>6
  <1>7. ASSUME NEW i \in Children, ChildStep(i)  PROVE Held'
    <2>1. /\ shellVars' = shellVars
          /\ \A j \in Processes \ {i} : ends'[j] = ends[j]
          /\ \A j \in Children \ {i} : child'[j] = child[j]
          /\ child'[i] # "setup"
      BY <1>0, <1>7, ChildStepEffect
    <2>2. UNCHANGED <<script, line, pc, at>>  BY <2>1 DEF shellVars
    <2>3. Children \subseteq Processes /\ Shell \in Processes /\ Shell # i
      BY <1>0, Constants
    <2>4. n' = n /\ \A p : R(p)' = R(p) /\ W(p)' = W(p)
      BY <2>2 DEF n, Pipeline, R, W
    <2>5. ends'[Shell] = ends[Shell]  BY <2>1, <2>3
    <2>6. \A j \in Children : child'[j] = "setup" => HasEnds(j, j)'
      <3>1. \A j \in Children : child'[j] = "setup" => child[j] = "setup" /\ ends'[j] = ends[j]
        BY <2>1, <2>3
      <3>2. QED  BY <1>0, <2>2, <3>1, HeldKept
    <2>7. QED  BY <2>2, <2>4, <2>5, <2>6 DEF Held, HasEnds
  <1>8. CASE UNCHANGED vars
    BY <1>8 DEF vars, Held, n, Pipeline, R, W
  <1>9. QED  BY <1>1, <1>2, <1>3, <1>4, <1>5, <1>6, <1>7, <1>8 DEF Next, ShellStep, Terminated

\* A writer finds its pipe broken only after its reader has ended, and a reader
\* its pipe closed only after its writer has.
LEMMA NeighbourEnded ==
    ASSUME Inv, Held, line \notin failed, NEW i \in Children, child[i] = "run"
    PROVE  /\ Sink(i) = "pipe" /\ ~Open(R(i)) => i < n /\ i + 1 \in Children /\ Dead(i + 1)
           /\ i > 1 /\ ~Pipeline[i - 1].toFile /\ ~Open(W(i - 1)) => Dead(i - 1)
PROOF
  <1>0. TypeOK /\ InPipeline /\ Family /\ NoSpareEnds /\ Orderly  BY DEF Inv, Course
  <1>1. /\ pc \in {"fork", "close", "wait"} /\ line \in Lines /\ i \in 1..n /\ n \in 1..MaxStages
    BY <1>0, ChildInPipeline
  <1>2. Children \subseteq Processes /\ Shell \in Processes /\ MaxStages \in Nat
    BY <1>0, Constants
  <1>3. \A j \in Children : child[j] \in {"none", "setup", "run", "zombie", "reaped", "failed"}
    BY <1>0, FourTypes DEF ChildrenType
  <1>4. \A j \in Children : child[j] # "failed"
    BY <1>0, <1>1 DEF Orderly
  <1>5. \A j \in 1..n : j \in Children /\ j \in Nat  BY <1>1, <1>2 DEF Children
  <1>6. ASSUME Sink(i) = "pipe", ~Open(R(i))
        PROVE  i < n /\ i + 1 \in Children /\ Dead(i + 1)
    <2>1. i < n /\ i + 1 \in 1..n  BY <1>1, <1>6 DEF Sink
    <2>2. i + 1 \in Children /\ \A q \in Processes : R(i) \notin ends[q]
      BY <1>5, <1>6, <2>1 DEF Open
    <2>3. child[i + 1] # "none"
      <3>1. SUFFICES ASSUME child[i + 1] = "none"  PROVE FALSE
        OBVIOUS
      <3>2. pc = "fork"  BY <1>0, <1>1, <2>1, <2>2, <3>1 DEF Family
      <3>3. at \in 1..n /\ at \in Nat  BY <1>0, <1>5, <3>2 DEF InPipeline
      <3>4. ~(i >= at) /\ ~(i + 1 < at)
        BY <1>0, <2>2, <3>1, <3>2 DEF Family
      <3>5. i \in 1..(n - 1) /\ i >= at - 1  BY <1>1, <2>1, <3>3, <3>4
      <3>6. R(i) \in ends[Shell]  BY <3>2, <3>5 DEF Held
      <3>7. QED  BY <1>2, <2>2, <3>6
    <2>4. child[i + 1] # "setup"
      <3>1. i + 1 > 1 /\ (i + 1) - 1 = i  BY <1>1
      <3>2. child[i + 1] = "setup" => R(i) \in ends[i + 1]  BY <2>2, <3>1 DEF Held
      <3>3. QED  BY <1>2, <2>2, <3>2
    <2>5. child[i + 1] # "run"
      <3>1. i + 1 > 1 /\ (i + 1) - 1 = i  BY <1>1
      <3>2. R(i) \in OwnEnds(i + 1)  BY <3>1 DEF OwnEnds
      <3>3. child[i + 1] = "run" => R(i) \in ends[i + 1]  BY <1>0, <2>2, <3>2 DEF NoSpareEnds
      <3>4. QED  BY <1>2, <2>2, <3>3
    <2>6. QED  BY <1>3, <1>4, <2>1, <2>2, <2>3, <2>4, <2>5 DEF Dead
  <1>7. ASSUME i > 1, ~Pipeline[i - 1].toFile, ~Open(W(i - 1))
        PROVE  Dead(i - 1)
    <2>1. i - 1 \in 1..n /\ i - 1 < n /\ i - 1 \in Children  BY <1>1, <1>5, <1>7
    <2>2. \A q \in Processes : W(i - 1) \notin ends[q]  BY <1>7 DEF Open
    <2>3. child[i - 1] # "none"
      <3>1. CASE pc = "fork"
        <4>1. at \in 1..n /\ at \in Nat  BY <1>0, <1>5, <3>1 DEF InPipeline
        <4>2. ~(i >= at)  BY <1>0, <3>1 DEF Family
        <4>3. i - 1 < at  BY <1>1, <4>1, <4>2
        <4>4. QED  BY <1>0, <2>1, <3>1, <4>3 DEF Family
      <3>2. CASE pc \in {"close", "wait"}
        <4>1. i - 1 <= n  BY <1>1, <2>1
        <4>2. QED  BY <1>0, <2>1, <3>2, <4>1 DEF Family
      <3>3. QED  BY <1>1, <3>1, <3>2
    <2>4. child[i - 1] # "setup"
      <3>1. child[i - 1] = "setup" => W(i - 1) \in ends[i - 1]  BY <2>1 DEF Held
      <3>2. QED  BY <1>2, <2>1, <2>2, <3>1
    <2>5. child[i - 1] # "run"
      <3>1. Sink(i - 1) = "pipe"  BY <1>7, <2>1 DEF Sink
      <3>2. W(i - 1) \in OwnEnds(i - 1)  BY <3>1 DEF OwnEnds
      <3>3. child[i - 1] = "run" => W(i - 1) \in ends[i - 1]  BY <1>0, <2>1, <3>2 DEF NoSpareEnds
      <3>4. QED  BY <1>2, <2>1, <2>2, <3>3
    <2>6. QED  BY <1>3, <1>4, <2>1, <2>3, <2>4, <2>5 DEF Dead
  <1>8. QED  BY <1>6, <1>7

----------------------------------------------------------------------------
(***************************************************************************)
(* What stages write, in all.                                              *)
(***************************************************************************)

LEMMA GivenFacts ==
    ASSUME NEW c
    PROVE  /\ \A x \in Nat : Given(c, x) \in Nat
           /\ \A x, y \in Nat : c # "cat" /\ (x = 0 <=> y = 0) => Given(c, x) = Given(c, y)
           /\ Given("cat", 0) = 0 /\ Given("head", 0) = 0
PROOF
  BY CommandTypes DEF Given, Endless

\* Only "yes" never ends, and what copies what never ends.
LEMMA WhatNeverEnds ==
    ASSUME TypeOK, line \in Lines, NEW i \in 1..n
    PROVE  /\ After(Pipeline)[i] \in Nat
           /\ NeverEnds(i) <=> \/ Pipeline[i].run = "yes"
                               \/ /\ Pipeline[i].run = "cat" /\ i > 1
                                  /\ ~Pipeline[i - 1].toFile /\ NeverEnds(i - 1)
PROOF
  <1>1. Pipeline \in Seq(Stages) /\ n \in Nat  BY ScriptType DEF Pipeline, n
  <1> DEFINE A == After(Pipeline)
             c == Pipeline[i].run
  <1>2. /\ A[0] = 0 /\ A[i] = Given(c, Input(Pipeline, A, i)) /\ A[i] \in Nat
        /\ i > 1 => A[i - 1] \in Nat
    <2>1. i > 1 => i - 1 \in 1..n  BY <1>1
    <2>2. QED  BY <1>1, <2>1, AfterStage DEF n
  <1>3. Input(Pipeline, A, i) = IF i = 1 \/ Pipeline[i - 1].toFile THEN 0 ELSE A[i - 1]
    BY <1>1, <1>2 DEF Input
  <1>4. Writes(c) \in 0..2  BY CommandTypes
  <1> HIDE DEF A, c
  <1>5. CASE c = "yes"
    BY <1>2, <1>5 DEF Given, NeverEnds, A, c
  <1>6. CASE c = "cat"
    <2>1. A[i] = IF i = 1 \/ Pipeline[i - 1].toFile THEN 0 ELSE A[i - 1]
      BY <1>2, <1>3, <1>6 DEF Given
    <2>2. QED  BY <1>1, <1>2, <1>6, <2>1 DEF NeverEnds, Endless, A, c
  <1>7. CASE c \notin {"yes", "cat"}
    <2>1. A[i] \in 0..2  BY <1>2, <1>4, <1>7 DEF Given
    <2>2. QED  BY <1>2, <1>7, <2>1 DEF NeverEnds, Endless, A, c
  <1>8. QED  BY <1>5, <1>6, <1>7

LEMMA ComingType ==
    ASSUME TypeOK, line \in Lines, NEW w \in [Children -> Nat], NEW i \in 1..n
    PROVE  Coming(w, i) \in Nat
PROOF
  <1>1. n \in 1..MaxStages /\ MaxStages \in Nat /\ pipe \in [Children -> Seq(Lines)]
    BY ThePipeline, FourTypes DEF ChildrenType
  <1>2. CASE i = 1 \/ Pipeline[i - 1].toFile  BY <1>2 DEF Coming
  <1>3. CASE ~(i = 1 \/ Pipeline[i - 1].toFile)
    <2>1. i - 1 \in Children  BY <1>1, <1>3 DEF Children
    <2>2. pipe[i - 1] \in Seq(Lines) /\ w[i - 1] \in Nat  BY <1>1, <2>1
    <2>3. Len(pipe[i - 1]) \in Nat  BY <2>2
    <2>4. QED  BY <1>3, <2>2, <2>3 DEF Coming
  <1>4. QED  BY <1>2, <1>3

\* A stage's account is as it was if nothing changes at it but what is to come,
\* and it makes the same of that.
LEMMA OwesKept ==
    ASSUME UNCHANGED <<script, line>>, NEW w, NEW v, NEW i,
           v[i] = w[i], Owes(w, i),
           \/ child'[i] = child[i]
           \/ Unborn(i) /\ Unborn(i)'
           \/ Dead(i) /\ Dead(i)',
           todo'[i] = todo[i], fed'[i] = fed[i],
           Dead(i) \/ NeverEnds(i) \/ (child[i] = "run" /\ fed[i])
           \/ Given(Pipeline[i].run, Coming(v, i)') = Given(Pipeline[i].run, Coming(w, i))
    PROVE  Owes(v, i)'
PROOF
  <1>1. Pipeline' = Pipeline /\ (NeverEnds(i)' <=> NeverEnds(i))
    BY DEF Pipeline, NeverEnds, After, Flow, Given, Input, Writes, Endless
  <1>2. Given(Pipeline[i].run, Coming(v, i))' = Given(Pipeline[i].run, Coming(v, i)')
    BY <1>1 DEF Given, Writes, Endless
  <1>3. CASE Dead(i)
    <2>1. Dead(i)' /\ child'[i] # "run" /\ ~Unborn(i)'  BY <1>3 DEF Dead, Unborn
    <2>2. QED  BY <1>3, <2>1 DEF Owes
  <1>4. CASE ~Dead(i)
    <2>1. /\ ~Dead(i)' /\ (Unborn(i) <=> Unborn(i)') /\ (child'[i] = "run" <=> child[i] = "run")
      BY <1>4 DEF Dead, Unborn
    <2>2. child[i] = "run" => ~Unborn(i)  BY DEF Unborn
    <2>3. QED  BY <1>1, <1>2, <1>4, <2>1, <2>2 DEF Owes
  <1>5. QED  BY <1>3, <1>4

----------------------------------------------------------------------------
(***************************************************************************)
(* The ledger when a child takes a step.                                   *)
(***************************************************************************)

Sameness(i) ==
    /\ UNCHANGED <<script, terminal, line, pc, at, status, failed>>
    /\ \A j \in Children \ {i} : /\ child'[j] = child[j] /\ todo'[j] = todo[j] /\ fed'[j] = fed[j]
                                 /\ buffer'[j] = buffer[j]
    /\ \A p \in Children \ {i - 1, i} : pipe'[p] = pipe[p]
    /\ buffer'[Shell] = buffer[Shell]

\* A step of a child is nobody else's.
LEMMA OneChild ==
    ASSUME TypeOK, NEW i \in Children, ChildStep(i)
    PROVE  Sameness(i)
PROOF
  <1>1. /\ child \in [Children -> {"none", "setup", "run", "zombie", "reaped", "failed"}]
        /\ pipe \in [Children -> Seq(Lines)] /\ todo \in [Children -> 0..2]
        /\ fed \in [Children -> BOOLEAN] /\ buffer \in [Processes -> Seq(Lines)]
        /\ Shell \in Processes /\ Shell # i /\ Children \subseteq Processes
    BY FourTypes, Constants DEF ChildrenType, OutputType
  <1>2. CASE SetUp(i)  BY <1>1, <1>2 DEF SetUp, BecomeStage, shellVars, Sameness
  <1>3. CASE Write(i)  BY <1>1, <1>3 DEF Write, RunningChild, shellVars, Sameness
  <1>4. CASE BrokenPipe(i)  BY <1>1, <1>4 DEF BrokenPipe, RunningChild, Die, shellVars, Sameness
  <1>5. CASE Read(i)  BY <1>1, <1>5 DEF Read, RunningChild, shellVars, Sameness
  <1>6. CASE Exit(i)  BY <1>1, <1>6 DEF Exit, RunningChild, Die, shellVars, Sameness
  <1>7. QED  BY <1>2, <1>3, <1>4, <1>5, <1>6 DEF ChildStep

\* Where a child takes a step.
LEMMA AtWork ==
    ASSUME Inv, NEW i \in Children, ChildStep(i), line \notin failed, Ledger, Manners
    PROVE  /\ line \in Lines /\ i \in 1..n /\ n \in 1..MaxStages /\ MaxStages \in Nat
           /\ \A j \in 1..n : j \in Children
           /\ Underway /\ Underway' /\ n' = n /\ Pipeline' = Pipeline
           /\ \A j \in 1..n : Mannered(j)
           /\ \E w \in [Children -> Nat] : Balanced(w)
           /\ child \in [Children -> {"none", "setup", "run", "zombie", "reaped", "failed"}]
           /\ pipe \in [Children -> Seq(Lines)] /\ todo \in [Children -> 0..2]
           /\ fed \in [Children -> BOOLEAN]
           /\ out \in Seq(Lines) /\ Copies(out, line) \in Nat
           /\ Lines' = Lines
PROOF
  <1>0. TypeOK /\ InPipeline /\ Family  BY DEF Inv, Course
  <1>1. child[i] \in {"setup", "run"}  BY <1>0, ChildStepEffect
  <1>2. pc \in {"fork", "close", "wait"} /\ line \in Lines /\ i \in 1..n /\ n \in 1..MaxStages
    BY <1>0, <1>1, ChildInPipeline
  <1>3. MaxStages \in Nat /\ \A j \in 1..n : j \in Children
    BY <1>0, <1>2, ThePipeline
  <1>4. UNCHANGED <<script, line, pc, failed>>  BY <1>0, OneChild DEF Sameness
  <1>5. n' = n /\ Pipeline' = Pipeline /\ Lines' = Lines  BY <1>4 DEF n, Pipeline, Lines
  <1>6. Underway /\ Underway'  BY <1>2, <1>4 DEF Underway
  <1>7. /\ child \in [Children -> {"none", "setup", "run", "zombie", "reaped", "failed"}]
        /\ pipe \in [Children -> Seq(Lines)] /\ todo \in [Children -> 0..2]
        /\ fed \in [Children -> BOOLEAN]
        /\ out \in Seq(Lines)
    BY <1>0, FourTypes DEF ChildrenType, OutputType
  <1>8. Copies(out, line) \in Nat  BY <1>7, CopiesType
  <1>9. QED  BY <1>2, <1>3, <1>5, <1>6, <1>7, <1>8 DEF Ledger, Manners

LEMMA OthersOwe ==
    ASSUME NEW i \in Children, Sameness(i), NEW w, NEW v,
           \A j \in Children \ {i} : v[j] = w[j],
           NEW j \in Children, j # i, j # i + 1, Owes(w, j)
    PROVE  Owes(v, j)'
PROOF
  <1>1. child'[j] = child[j] /\ todo'[j] = todo[j] /\ fed'[j] = fed[j] /\ v[j] = w[j]
        /\ UNCHANGED <<script, line>>
    BY DEF Sameness
  <1>2. Coming(v, j)' = Coming(w, j)
    <2>1. j > 1 => j - 1 \in Children /\ j - 1 \notin {i - 1, i}
      BY ScriptAssumption DEF Children
    <2>2. j > 1 => pipe'[j - 1] = pipe[j - 1] /\ v[j - 1] = w[j - 1]
      BY <2>1 DEF Sameness
    <2>3. j = 1 \/ j > 1  BY ScriptAssumption DEF Children
    <2>4. Pipeline' = Pipeline  BY <1>1 DEF Pipeline
    <2>5. QED  BY <2>2, <2>3, <2>4 DEF Coming
  <1>3. QED  BY <1>1, <1>2, OwesKept

LEMMA OthersMannered ==
    ASSUME NEW i \in Children, Sameness(i), NEW j \in Children, j # i, Mannered(j),
           pipe'[j] = pipe[j] \/ ~Pipeline[j].toFile, ~Dead(i),
           n \in 1..MaxStages, MaxStages \in Nat
    PROVE  Mannered(j)'
PROOF
  <1>1. /\ child'[j] = child[j] /\ todo'[j] = todo[j] /\ fed'[j] = fed[j]
        /\ UNCHANGED <<script, line>>
    BY DEF Sameness
  <1>2. Pipeline' = Pipeline /\ n' = n /\ (NeverEnds(j)' <=> NeverEnds(j))
    BY <1>1 DEF Pipeline, n, NeverEnds, After, Flow, Given, Input, Writes, Endless
  <1>3. j < n /\ Dead(j + 1) => Dead(j + 1)'
    <2>1. j < n => j + 1 \in Children  BY DEF Children
    <2>2. CASE j + 1 = i  BY <2>2
    <2>3. CASE j + 1 # i  BY <2>1, <2>3 DEF Sameness, Dead
    <2>4. QED  BY <2>2, <2>3
  <1>4. (Dead(j)' <=> Dead(j))  BY <1>1 DEF Dead
  <1>5. QED  BY <1>1, <1>2, <1>3, <1>4 DEF Mannered

LEMMA LedgerSetUp ==
    ASSUME Inv, Reached, line \notin failed, Ledger, Manners, NEW i \in Children, SetUp(i)
    PROVE  Ledger' /\ Manners'
PROOF
  <1>1. TypeOK /\ ChildStep(i)  BY DEF Inv, ChildStep
  <1>2. Sameness(i)  BY <1>1, OneChild
  <1>3. /\ line \in Lines /\ i \in 1..n /\ n \in 1..MaxStages /\ MaxStages \in Nat
        /\ \A j \in 1..n : j \in Children
        /\ Underway /\ Underway' /\ n' = n /\ Pipeline' = Pipeline
        /\ \A j \in 1..n : Mannered(j)
        /\ \E w \in [Children -> Nat] : Balanced(w)
        /\ child \in [Children -> {"none", "setup", "run", "zombie", "reaped", "failed"}]
        /\ todo \in [Children -> 0..2]
        /\ fed \in [Children -> BOOLEAN]
        /\ out \in Seq(Lines) /\ Copies(out, line) \in Nat
    BY <1>1, AtWork
  <1>4. PICK w \in [Children -> Nat] : Balanced(w)  BY <1>3
  <1> DEFINE c == Pipeline[i].run
  <1>5. /\ child[i] = "setup" /\ child'[i] = "run" /\ todo'[i] = Writes(c) /\ pipe' = pipe
        /\ (fed'[i] <=> c \notin Readers)
        /\ out' = (IF CallsSetbuf(i) THEN out \o buffer[i] ELSE out)
    BY <1>3 DEF SetUp, BecomeStage
  <1>6. UNCHANGED <<script, line>>  BY <1>2 DEF Sameness
  <1>7. \A j : Coming(w, j)' = Coming(w, j)  BY <1>3, <1>5 DEF Coming
  <1>8. \A j \in 1..n : Owes(w, j)  BY <1>4 DEF Balanced
  <1>9. \A j : NeverEnds(j)' <=> NeverEnds(j)
    BY <1>3 DEF NeverEnds, After, Flow, Given, Input, Writes, Endless
  <1>10. Owes(w, i)'
    <2>1. Owes(w, i) /\ Unborn(i) /\ ~Dead(i) /\ ~Unborn(i)' /\ ~Dead(i)'
      BY <1>3, <1>5, <1>8 DEF Unborn, Dead
    <2>2. CASE NeverEnds(i)  BY <1>9, <2>1, <2>2 DEF Owes
    <2>3. CASE ~NeverEnds(i)
      <3>1. w[i] = Given(c, Coming(w, i))  BY <2>1, <2>3 DEF Owes
      <3>2. Coming(w, i) \in Nat  BY <1>1, <1>3, ComingType
      <3>3. c # "yes"  BY <1>1, <1>3, <2>3, WhatNeverEnds
      <3>4. CASE c \in Readers
        <4>1. todo'[i] = 0 /\ ~fed'[i]  BY <1>5, <3>4 DEF Readers, Writes
        <4>2. w[i] \in Nat  BY <1>3
        <4>3. w[i] = todo'[i] + Given(c, Coming(w, i))  BY <3>1, <4>1, <4>2
        <4>4. Given(Pipeline[i].run, Coming(w, i))' = Given(c, Coming(w, i))
          BY <1>3, <1>7 DEF Given, Writes, Endless
        <4>5. QED  BY <1>9, <2>1, <2>3, <4>1, <4>3, <4>4 DEF Owes
      <3>5. CASE c \notin Readers
        <4>1. Given(c, Coming(w, i)) = Writes(c) /\ fed'[i]
          BY <1>5, <3>3, <3>5 DEF Given, Readers
        <4>2. w[i] = todo'[i] + 0  BY <1>3, <1>5, <3>1, <4>1
        <4>3. QED  BY <1>9, <2>1, <2>3, <4>1, <4>2 DEF Owes
      <3>6. QED  BY <3>4, <3>5
    <2>4. QED  BY <2>2, <2>3
  <1>11. ASSUME NEW j \in 1..n, j # i  PROVE Owes(w, j)'
    <2>1. child'[j] = child[j] /\ todo'[j] = todo[j] /\ fed'[j] = fed[j]
      BY <1>2, <1>3, <1>11 DEF Sameness
    <2>2. QED  BY <1>6, <1>7, <1>8, <2>1, OwesKept
  <1>12. Copies(out', line) = Copies(out, line)
    <2>1. buffer[i] \in Seq(Lines) /\ \A k \in DOMAIN buffer[i] : buffer[i][k] < line
      BY <1>1, FourTypes, Constants DEF OutputType, Reached
    <2>2. Copies(buffer[i], line) = 0
      <3>1. line \in Nat  BY <1>1, Constants
      <3>2. Lines \subseteq Nat  BY DEF Lines
      <3>3. \A k \in DOMAIN buffer[i] : buffer[i][k] # line
        BY <2>1, <3>1, <3>2
      <3>4. QED  BY <2>1, <3>3, CopiesType
    <2>3. CASE CallsSetbuf(i)
      BY <1>3, <1>5, <2>1, <2>2, <2>3, CopiesConcat
    <2>4. CASE ~CallsSetbuf(i)  BY <1>5, <2>4
    <2>5. QED  BY <2>3, <2>4
  <1>13. Balanced(w)'
    <2>1. \A j \in 1..n : Owes(w, j)'  BY <1>10, <1>11
    <2>2. Copies(out, line)' = Copies(out, line)  BY <1>6, <1>12 DEF Copies
    <2>3. After(Pipeline)' = After(Pipeline)  BY <1>3 DEF After, Flow, Given, Input, Writes, Endless
    <2>4. QED  BY <1>3, <1>4, <1>9, <2>1, <2>2, <2>3 DEF Balanced
  <1>14. Ledger'  BY <1>13 DEF Ledger
  <1>15. Mannered(i)'
    <2>1. c \notin Readers => c # "cat"  BY DEF Readers
    <2>2. c = "yes" => todo'[i] = 1  BY <1>5 DEF Writes
    <2>3. ~Dead(i)'  BY <1>5 DEF Dead
    <2>4. Pipeline[i].toFile => pipe'[i] = <<>>  BY <1>3, <1>5 DEF Mannered
    <2>5. QED  BY <1>3, <1>5, <2>1, <2>2, <2>3, <2>4 DEF Mannered
  <1>16. \A j \in 1..n : Mannered(j)'
    <2>1. ~Dead(i)  BY <1>5 DEF Dead
    <2>2. \A j \in 1..n : j # i => Mannered(j)'
      BY <1>2, <1>3, <1>5, <2>1, OthersMannered
    <2>3. QED  BY <1>15, <2>2
  <1>17. QED  BY <1>3, <1>14, <1>16 DEF Manners

LEMMA LedgerWrite ==
    ASSUME Inv, line \notin failed, Ledger, Manners, NEW i \in Children, Write(i)
    PROVE  Ledger' /\ Manners'
PROOF
  <1>1. TypeOK /\ ChildStep(i)  BY DEF Inv, ChildStep
  <1>2. Sameness(i)  BY <1>1, OneChild
  <1>3. /\ line \in Lines /\ i \in 1..n /\ n \in 1..MaxStages /\ MaxStages \in Nat
        /\ \A j \in 1..n : j \in Children
        /\ Underway /\ Underway' /\ n' = n /\ Pipeline' = Pipeline
        /\ \A j \in 1..n : Mannered(j)
        /\ \E w \in [Children -> Nat] : Balanced(w)
        /\ pipe \in [Children -> Seq(Lines)]
        /\ todo \in [Children -> 0..2]
        /\ out \in Seq(Lines) /\ Copies(out, line) \in Nat
    BY <1>1, AtWork
  <1>4. PICK w \in [Children -> Nat] : Balanced(w)  BY <1>3
  <1> DEFINE c == Pipeline[i].run
  <1>5. /\ child[i] = "run" /\ child' = child /\ fed' = fed /\ todo[i] > 0
        /\ todo'[i] = (IF c = "yes" THEN todo[i] ELSE todo[i] - 1)
    BY <1>3 DEF Write, RunningChild
  <1>6. UNCHANGED <<script, line>>  BY <1>2 DEF Sameness
  <1>7. \A j : NeverEnds(j)' <=> NeverEnds(j)
    BY <1>3 DEF NeverEnds, After, Flow, Given, Input, Writes, Endless
  <1>8. \A j \in 1..n : Owes(w, j)  BY <1>4 DEF Balanced
  <1>9. ~Dead(i) /\ ~Dead(i)' /\ ~Unborn(i) /\ ~Unborn(i)'  BY <1>5 DEF Dead, Unborn
  <1>10. PICK v \in [Children -> Nat] :
           /\ \A j \in Children \ {i} : v[j] = w[j]
           /\ NeverEnds(i) => v[i] = Endless /\ w[i] = Endless
           /\ ~NeverEnds(i) =>
                /\ w[i] = todo[i] + (IF fed[i] THEN 0 ELSE Given(c, Coming(w, i)))
                /\ v[i] = w[i] - 1 /\ c # "yes"
    <2>1. Owes(w, i) /\ Coming(w, i) \in Nat /\ w[i] \in Nat  BY <1>1, <1>3, <1>8, ComingType
    <2>2. Given(c, Coming(w, i)) \in Nat  BY <2>1, GivenFacts
    <2>3. CASE NeverEnds(i)
      <3>1. w[i] = Endless  BY <1>9, <2>1, <2>3 DEF Owes
      <3>2. QED  BY <2>3, <3>1
    <2>4. CASE ~NeverEnds(i)
      <3>1. w[i] = todo[i] + (IF fed[i] THEN 0 ELSE Given(c, Coming(w, i)))
        BY <1>5, <2>1, <2>4 DEF Owes
      <3>2. w[i] - 1 \in Nat
        <4>1. todo[i] \in Nat /\ todo[i] > 0
          <5>1. todo[i] \in 0..2  BY <1>3
          <5>2. QED  BY <1>5, <5>1
        <4>2. PICK x \in Nat : w[i] = todo[i] + x
          <5>1. CASE fed[i]  BY <3>1, <5>1
          <5>2. CASE ~fed[i]  BY <2>2, <3>1, <5>2
          <5>3. QED  BY <5>1, <5>2
        <4>3. QED  BY <4>1, <4>2
      <3>3. c # "yes"  BY <1>1, <1>3, <2>4, WhatNeverEnds
      <3> DEFINE u == [w EXCEPT ![i] = w[i] - 1]
      <3>4. u \in [Children -> Nat] /\ u[i] = w[i] - 1 /\ \A j \in Children \ {i} : u[j] = w[j]
        BY <3>2
      <3> HIDE DEF u
      <3>5. QED  BY <2>4, <3>1, <3>3, <3>4
    <2>5. QED  BY <2>3, <2>4
  <1>11. \A j \in Children \ {i} : v[j] = w[j]
    BY <1>10
  <1>12. /\ Sink(i) = "pipe" /\ i < n /\ ~Pipeline[i].toFile /\ pipe' = [pipe EXCEPT ![i] = Append(@, line)]
            /\ out' = out
         \/ /\ Sink(i) = "out" /\ i = n /\ ~Pipeline[i].toFile /\ pipe' = pipe /\ out' = Append(out, line)
         \/ /\ Sink(i) = "file" /\ Pipeline[i].toFile /\ pipe' = pipe /\ out' = out
    BY <1>3 DEF Write, Sink
  <1>13. Coming(v, i)' = Coming(w, i)
    <2>1. i > 1 => i - 1 \in Children /\ i - 1 # i  BY <1>3 DEF Children
    <2>2. i > 1 => v[i - 1] = w[i - 1] /\ pipe'[i - 1] = pipe[i - 1]
      BY <1>3, <1>11, <1>12, <2>1
    <2>3. i = 1 \/ i > 1  BY <1>3
    <2>4. QED  BY <1>3, <2>2, <2>3 DEF Coming
  <1>14. Owes(v, i)'
    <2>1. CASE NeverEnds(i)  BY <1>7, <1>9, <1>10, <2>1 DEF Owes
    <2>2. CASE ~NeverEnds(i)
      <3>1. w[i] = todo[i] + (IF fed[i] THEN 0 ELSE Given(c, Coming(w, i))) /\ v[i] = w[i] - 1
            /\ todo'[i] = todo[i] - 1
        BY <1>5, <1>10, <2>2
      <3>2. Given(Pipeline[i].run, Coming(v, i))' = Given(c, Coming(w, i))
        BY <1>3, <1>13 DEF Given, Writes, Endless
      <3>3. Given(c, Coming(w, i)) \in Nat  BY <1>1, <1>3, ComingType, GivenFacts
      <3>4. v[i] = todo'[i] + (IF fed'[i] THEN 0 ELSE Given(c, Coming(w, i)))
        <4>1. todo[i] \in Nat  BY <1>3
        <4>2. CASE fed[i]  BY <1>5, <3>1, <4>1, <4>2
        <4>3. CASE ~fed[i]  BY <1>5, <3>1, <3>3, <4>1, <4>3
        <4>4. QED  BY <4>2, <4>3
      <3>5. QED  BY <1>7, <1>9, <2>2, <3>2, <3>4 DEF Owes
    <2>3. QED  BY <2>1, <2>2
  <1>15. ASSUME i + 1 \in 1..n  PROVE Owes(v, i + 1)'
    <2>1. i + 1 \in Children /\ i + 1 # i /\ (i + 1) - 1 = i  BY <1>3, <1>15
    <2>2. Owes(w, i + 1) /\ child'[i + 1] = child[i + 1] /\ todo'[i + 1] = todo[i + 1]
          /\ fed'[i + 1] = fed[i + 1] /\ v[i + 1] = w[i + 1]
      BY <1>2, <1>8, <1>11, <1>15, <2>1 DEF Sameness
    <2>3. CASE Pipeline[i].toFile
      <3>1. Coming(v, i + 1)' = 0 /\ Coming(w, i + 1) = 0
        BY <1>3, <2>1, <2>3 DEF Coming
      <3>2. QED  BY <1>6, <2>2, <3>1, OwesKept
    <2>4. CASE ~Pipeline[i].toFile
      <3>1. pipe' = [pipe EXCEPT ![i] = Append(@, line)]  BY <1>3, <1>12, <1>15, <2>4
      <3>2. pipe[i] \in Seq(Lines)  BY <1>3
      <3>3. Len(pipe'[i]) = Len(pipe[i]) + 1 /\ Len(pipe[i]) \in Nat
        BY <1>3, <3>1, <3>2, Tokens
      <3>4. Coming(v, i + 1)' = v[i] + Len(pipe'[i]) /\ Coming(w, i + 1) = w[i] + Len(pipe[i])
        <4>1. i + 1 # 1 /\ ~Pipeline[(i + 1) - 1].toFile /\ Pipeline' = Pipeline
          BY <1>3, <2>1, <2>4
        <4>2. Coming(v, i + 1)' = v[(i + 1) - 1] + Len(pipe'[(i + 1) - 1])  BY <4>1 DEF Coming
        <4>3. Coming(w, i + 1) = w[(i + 1) - 1] + Len(pipe[(i + 1) - 1])  BY <4>1 DEF Coming
        <4>4. QED  BY <2>1, <4>2, <4>3
      <3>5. CASE NeverEnds(i)
        <4>1. /\ Coming(v, i + 1)' \in Nat /\ Coming(v, i + 1)' # 0
              /\ Coming(w, i + 1) \in Nat /\ Coming(w, i + 1) # 0
          BY <1>10, <3>3, <3>4, <3>5 DEF Endless
        <4>2. Pipeline[i + 1].run # "cat" =>
                Given(Pipeline[i + 1].run, Coming(v, i + 1)') = Given(Pipeline[i + 1].run, Coming(w, i + 1))
          BY <4>1, GivenFacts
        <4>3. i + 1 > 1  BY <1>3
        <4>4. Pipeline[i + 1].run = "cat" => NeverEnds(i + 1)
          BY <1>1, <1>3, <1>15, <2>1, <2>4, <3>5, <4>3, WhatNeverEnds
        <4>5. QED  BY <1>6, <2>2, <4>2, <4>4, OwesKept
      <3>6. CASE ~NeverEnds(i)
        <4>1. v[i] = w[i] - 1 /\ w[i] \in Nat /\ v[i] \in Nat  BY <1>3, <1>10, <3>6
        <4>2. Coming(v, i + 1)' = Coming(w, i + 1)  BY <3>3, <3>4, <4>1
        <4>3. QED  BY <1>6, <2>2, <4>2, OwesKept
      <3>7. QED  BY <3>5, <3>6
    <2>5. QED  BY <2>3, <2>4
  <1>16. \A j \in 1..n : Owes(v, j)'
    <2>1. \A j \in 1..n : j # i /\ j # i + 1 => Owes(v, j)'
      BY <1>2, <1>3, <1>8, <1>11, OthersOwe
    <2>2. QED  BY <1>14, <1>15, <2>1
  <1>17. Copies(out, line)' = Copies(out, line) + (IF Sink(i) = "out" THEN 1 ELSE 0)
    <2>1. Copies(out, line)' = Copies(out', line)  BY <1>6 DEF Copies
    <2>2. Copies(Append(out, line), line) = Copies(out, line) + 1  BY <1>3, CopiesAppend
    <2>3. CASE Sink(i) = "out"
      <3>1. out' = Append(out, line)  BY <1>12, <2>3
      <3>2. QED  BY <2>1, <2>2, <2>3, <3>1
    <2>4. CASE Sink(i) # "out"
      <3>1. out' = out  BY <1>12, <2>4
      <3>2. QED  BY <1>3, <2>1, <2>4, <3>1
    <2>5. QED  BY <2>3, <2>4
  <1>18. Balanced(v)'
    <2>1. After(Pipeline)' = After(Pipeline)  BY <1>3 DEF After, Flow, Given, Input, Writes, Endless
    <2>2. n \in Children /\ w[n] \in Nat  BY <1>3
    <2>3. CASE Sink(i) = "out"
      <3>1. i = n /\ ~Pipeline[n].toFile  BY <1>12, <2>3
      <3>2. ~NeverEnds(n) => Copies(out, line)' + v[n] = Copies(out, line) + w[n]
        BY <1>3, <1>10, <1>17, <2>2, <2>3, <3>1
      <3>3. QED  BY <1>3, <1>4, <1>7, <1>16, <2>1, <3>1, <3>2 DEF Balanced
    <2>4. CASE Sink(i) # "out"
      <3>1. Copies(out, line)' = Copies(out, line)  BY <1>3, <1>17, <2>4
      <3>2. ~Pipeline[n].toFile => v[n] = w[n]  
        <4>1. Pipeline[n].toFile \/ n # i  BY <1>3, <1>12, <2>4
        <4>2. QED  BY <1>11, <2>2, <4>1
      <3>3. QED  BY <1>3, <1>4, <1>7, <1>16, <2>1, <3>1, <3>2 DEF Balanced
    <2>5. QED  BY <2>3, <2>4
  <1>19. Ledger'  BY <1>18 DEF Ledger
  <1>20. Mannered(i)'
    <2>1. Mannered(i)  BY <1>3
    <2>2. c = "yes" => todo'[i] = 1  BY <1>5, <2>1 DEF Mannered
    <2>3. Pipeline[i].toFile => pipe'[i] = <<>>  BY <1>12, <2>1 DEF Mannered
    <2>4. QED  BY <1>3, <1>5, <1>9, <2>1, <2>2, <2>3 DEF Mannered
  <1>21. \A j \in 1..n : Mannered(j)'
    <2>1. \A j \in 1..n : j # i => Mannered(j)'
      <3>1. \A j \in 1..n : j # i => pipe'[j] = pipe[j]  BY <1>3, <1>12
      <3>2. QED  BY <1>2, <1>3, <1>9, <3>1, OthersMannered
    <2>2. QED  BY <1>20, <2>1
  <1>22. QED  BY <1>3, <1>19, <1>21 DEF Manners

\* A stage ends when it owes nothing more, or after the one it writes to.
LEMMA LedgerDie ==
    ASSUME Inv, line \notin failed, Ledger, Manners, NEW i \in Children, ChildStep(i),
           child[i] = "run", child' = [child EXCEPT ![i] = "zombie"], pipe' = pipe, out' = out,
           \/ i < n /\ Dead(i + 1)
           \/ ~NeverEnds(i) /\ \A w \in [Children -> Nat] : Balanced(w) => w[i] = 0
    PROVE  Ledger' /\ Manners'
PROOF
  <1>1. TypeOK  BY DEF Inv
  <1>2. Sameness(i)  BY <1>1, OneChild
  <1>3. /\ line \in Lines /\ i \in 1..n /\ n \in 1..MaxStages /\ MaxStages \in Nat
        /\ \A j \in 1..n : j \in Children
        /\ Underway /\ Underway' /\ n' = n /\ Pipeline' = Pipeline
        /\ \A j \in 1..n : Mannered(j)
        /\ \E w \in [Children -> Nat] : Balanced(w)
        /\ child \in [Children -> {"none", "setup", "run", "zombie", "reaped", "failed"}]
    BY AtWork
  <1>4. PICK w \in [Children -> Nat] : Balanced(w)  BY <1>3
  <1>5. PICK v \in [Children -> Nat] : v[i] = 0 /\ \A j \in Children \ {i} : v[j] = w[j]
    <2> DEFINE u == [w EXCEPT ![i] = 0]
    <2>1. u \in [Children -> Nat] /\ u[i] = 0 /\ \A j \in Children \ {i} : u[j] = w[j]
      OBVIOUS
    <2> HIDE DEF u
    <2>2. QED  BY <2>1
  <1>6. UNCHANGED <<script, line>>  BY <1>2 DEF Sameness
  <1>7. \A j : NeverEnds(j)' <=> NeverEnds(j)
    BY <1>3 DEF NeverEnds, After, Flow, Given, Input, Writes, Endless
  <1>8. \A j \in 1..n : Owes(w, j)  BY <1>4 DEF Balanced
  <1>9. /\ child'[i] = "zombie" /\ ~Dead(i) /\ Dead(i)' /\ ~Unborn(i)'
        /\ \A j \in Children \ {i} : child'[j] = child[j]
    BY <1>3 DEF Dead, Unborn
  <1>10. (i < n /\ Dead(i + 1)) \/ (~NeverEnds(i) /\ w[i] = 0)
    BY <1>4
  <1>11. Owes(v, i)'  BY <1>5, <1>9 DEF Owes
  <1>12. ASSUME i + 1 \in 1..n  PROVE Owes(v, i + 1)'
    <2>1. i + 1 \in Children /\ i + 1 # i /\ (i + 1) - 1 = i  BY <1>3, <1>12
    <2>2. Owes(w, i + 1) /\ child'[i + 1] = child[i + 1] /\ todo'[i + 1] = todo[i + 1]
          /\ fed'[i + 1] = fed[i + 1] /\ v[i + 1] = w[i + 1]
      BY <1>2, <1>5, <1>8, <1>12, <2>1 DEF Sameness
    <2>3. CASE Dead(i + 1)  BY <1>6, <2>2, <2>3, OwesKept
    <2>4. CASE w[i] = 0
      <3>1. Coming(v, i + 1)' = Coming(w, i + 1)  BY <1>3, <1>5, <2>1, <2>4 DEF Coming
      <3>2. QED  BY <1>6, <2>2, <3>1, OwesKept
    <2>5. QED  BY <1>10, <2>3, <2>4
  <1>13. \A j \in 1..n : Owes(v, j)'
    <2>1. \A j \in 1..n : j # i /\ j # i + 1 => Owes(v, j)'
      BY <1>2, <1>3, <1>5, <1>8, OthersOwe
    <2>2. QED  BY <1>11, <1>12, <2>1
  <1>14. v[n] = w[n]
    <2>1. n \in Children  BY <1>3
    <2>2. CASE n = i
      <3>1. ~(i < n)  BY <1>3, <2>2
      <3>2. QED  BY <1>5, <1>10, <2>2, <3>1
    <2>3. QED  BY <1>5, <2>1, <2>2
  <1>15. Balanced(v)'
    <2>1. After(Pipeline)' = After(Pipeline)  BY <1>3 DEF After, Flow, Given, Input, Writes, Endless
    <2>2. Copies(out, line)' = Copies(out, line)  BY <1>6 DEF Copies
    <2>3. QED  BY <1>3, <1>4, <1>7, <1>13, <1>14, <2>1, <2>2 DEF Balanced
  <1>16. Ledger'  BY <1>15 DEF Ledger
  <1>17. Mannered(i)'
    <2>1. Mannered(i)  BY <1>3
    <2>2. i < n /\ Dead(i + 1) => Dead(i + 1)'
      <3>1. i < n => i + 1 \in Children /\ i + 1 # i  BY <1>3 DEF Children
      <3>2. QED  BY <1>9, <3>1 DEF Dead
    <2>3. NeverEnds(i)' => i < n' /\ Dead(i + 1)'  BY <1>3, <1>7, <1>10, <2>2
    <2>4. QED  BY <1>3, <1>9, <2>1, <2>3 DEF Mannered
  <1>18. \A j \in 1..n : Mannered(j)'
    <2>1. \A j \in 1..n : j # i => Mannered(j)'
      BY <1>2, <1>3, <1>9, OthersMannered
    <2>2. QED  BY <1>17, <2>1
  <1>19. QED  BY <1>3, <1>16, <1>18 DEF Manners

LEMMA LedgerBrokenPipe ==
    ASSUME Inv, Held, line \notin failed, Ledger, Manners, NEW i \in Children, BrokenPipe(i)
    PROVE  Ledger' /\ Manners'
PROOF
  <1>1. ChildStep(i)  BY DEF ChildStep
  <1>2. /\ child[i] = "run" /\ child' = [child EXCEPT ![i] = "zombie"] /\ pipe' = pipe /\ out' = out
        /\ Sink(i) = "pipe" /\ ~Open(R(i))
    BY DEF BrokenPipe, RunningChild, Die
  <1>3. i < n /\ Dead(i + 1)  BY <1>2, NeighbourEnded
  <1>4. QED  BY <1>1, <1>2, <1>3, LedgerDie

LEMMA LedgerExit ==
    ASSUME Inv, Held, line \notin failed, Ledger, Manners, NEW i \in Children, Exit(i)
    PROVE  Ledger' /\ Manners'
PROOF
  <1>1. TypeOK /\ ChildStep(i)  BY DEF Inv, ChildStep
  <1>2. /\ child[i] = "run" /\ child' = [child EXCEPT ![i] = "zombie"] /\ pipe' = pipe /\ out' = out
        /\ todo[i] = 0 /\ (fed[i] \/ EndOfInput(i))
    BY DEF Exit, RunningChild, Die
  <1>3. /\ line \in Lines /\ i \in 1..n /\ n \in 1..MaxStages /\ MaxStages \in Nat
        /\ \A j \in 1..n : j \in Children /\ Mannered(j)
        /\ pipe \in [Children -> Seq(Lines)]
    BY <1>1, AtWork
  <1> DEFINE c == Pipeline[i].run
  <1>4. ~Dead(i) /\ ~Unborn(i)  BY <1>2 DEF Dead, Unborn
  <1>5. /\ c # "yes" /\ (~fed[i] => c \in Readers) /\ (fed[i] => c # "cat")
    BY <1>2, <1>3 DEF Mannered
  <1>6. ASSUME ~fed[i], i > 1, ~Pipeline[i - 1].toFile
        PROVE  i - 1 \in 1..n /\ Dead(i - 1) /\ pipe[i - 1] = <<>>
    <2>1. pipe[i - 1] = <<>> /\ ~Open(W(i - 1))  BY <1>2, <1>6 DEF EndOfInput
    <2>2. i - 1 \in 1..n  BY <1>3, <1>6
    <2>3. QED  BY <1>2, <1>6, <2>1, <2>2, NeighbourEnded
  <1>7. ~NeverEnds(i)
    <2>1. SUFFICES ASSUME NeverEnds(i)  PROVE FALSE
      OBVIOUS
    <2>2. c = "cat" /\ i > 1 /\ ~Pipeline[i - 1].toFile /\ NeverEnds(i - 1)
      BY <1>1, <1>3, <1>5, <2>1, WhatNeverEnds
    <2>3. i - 1 \in 1..n /\ Dead(i - 1)  BY <1>5, <1>6, <2>2
    <2>4. Dead((i - 1) + 1)  BY <1>3, <2>2, <2>3 DEF Mannered
    <2>5. (i - 1) + 1 = i  BY <1>3
    <2>6. QED  BY <1>4, <2>4, <2>5
  <1>8. ASSUME NEW w \in [Children -> Nat], Balanced(w)
        PROVE  w[i] = 0
    <2>1. \A j \in 1..n : Owes(w, j)  BY <1>8 DEF Balanced
    <2>2. w[i] = 0 + (IF fed[i] THEN 0 ELSE Given(c, Coming(w, i)))
      BY <1>2, <1>3, <1>7, <2>1 DEF Owes
    <2>3. CASE fed[i]  BY <2>2, <2>3
    <2>4. CASE ~fed[i]
      <3>1. Coming(w, i) = 0
        <4>1. CASE i = 1 \/ Pipeline[i - 1].toFile  BY <4>1 DEF Coming
        <4>2. CASE ~(i = 1 \/ Pipeline[i - 1].toFile)
          <5>1. i > 1  BY <1>3, <4>2
          <5>2. i - 1 \in 1..n /\ Dead(i - 1) /\ pipe[i - 1] = <<>>  BY <1>6, <2>4, <4>2, <5>1
          <5>3. w[i - 1] = 0  BY <2>1, <5>2 DEF Owes
          <5>4. Len(pipe[i - 1]) = 0  BY <5>2
          <5>5. QED  BY <4>2, <5>3, <5>4 DEF Coming
        <4>3. QED  BY <4>1, <4>2
      <3>2. c = "cat" \/ c = "head"  BY <1>5, <2>4 DEF Readers
      <3>3. QED  BY <2>2, <2>4, <3>1, <3>2, GivenFacts
    <2>5. QED  BY <2>3, <2>4
  <1>9. QED  BY <1>1, <1>2, <1>7, <1>8, LedgerDie

LEMMA LedgerRead ==
    ASSUME Inv, line \notin failed, Ledger, Manners, NEW i \in Children, Read(i)
    PROVE  Ledger' /\ Manners'
PROOF
  <1>1. TypeOK /\ ChildStep(i)  BY DEF Inv, ChildStep
  <1>2. Sameness(i)  BY <1>1, OneChild
  <1>3. /\ line \in Lines /\ i \in 1..n /\ n \in 1..MaxStages /\ MaxStages \in Nat
        /\ \A j \in 1..n : j \in Children
        /\ Underway /\ Underway' /\ n' = n /\ Pipeline' = Pipeline
        /\ \A j \in 1..n : Mannered(j)
        /\ \E w \in [Children -> Nat] : Balanced(w)
        /\ pipe \in [Children -> Seq(Lines)]
        /\ todo \in [Children -> 0..2] /\ fed \in [Children -> BOOLEAN]
    BY <1>1, AtWork
  <1>4. PICK w \in [Children -> Nat] : Balanced(w)  BY <1>3
  <1> DEFINE c == Pipeline[i].run
  <1>5. /\ child[i] = "run" /\ child' = child /\ out' = out /\ todo[i] = 0 /\ ~fed[i]
        /\ i > 1 /\ pipe[i - 1] # <<>> /\ pipe' = [pipe EXCEPT ![i - 1] = Tail(@)]
        /\ todo'[i] = 1 /\ (fed'[i] <=> c = "head")
    BY <1>3 DEF Read, RunningChild
  <1>6. UNCHANGED <<script, line>>  BY <1>2 DEF Sameness
  <1>7. \A j : NeverEnds(j)' <=> NeverEnds(j)
    BY <1>3 DEF NeverEnds, After, Flow, Given, Input, Writes, Endless
  <1>8. \A j \in 1..n : Owes(w, j)  BY <1>4 DEF Balanced
  <1>9. ~Dead(i) /\ ~Dead(i)' /\ ~Unborn(i) /\ ~Unborn(i)'  BY <1>5 DEF Dead, Unborn
  <1>10. i - 1 \in 1..n /\ i - 1 \in Children /\ i - 1 # i  BY <1>3, <1>5
  <1>11. ~Pipeline[i - 1].toFile  BY <1>3, <1>5, <1>10 DEF Mannered
  <1>12. c = "cat" \/ c = "head"  BY <1>3, <1>5 DEF Mannered, Readers
  <1>13. Coming(w, i)' \in Nat /\ Coming(w, i) = Coming(w, i)' + 1
    <2>1. pipe[i - 1] \in Seq(Lines) /\ w[i - 1] \in Nat  BY <1>3, <1>10
    <2>2. pipe'[i - 1] = Tail(pipe[i - 1])  BY <1>3, <1>5, <1>10
    <2>3. Len(pipe[i - 1]) \in Nat /\ Len(pipe'[i - 1]) = Len(pipe[i - 1]) - 1 /\ Len(pipe'[i - 1]) \in Nat
      <3>1. pipe[i - 1] # <<>>  BY <1>5
      <3>2. Tail(pipe[i - 1]) \in Seq(Lines) /\ Len(Tail(pipe[i - 1])) = Len(pipe[i - 1]) - 1
        BY <2>1, <3>1, Tokens
      <3>3. Len(pipe[i - 1]) \in Nat /\ Len(Tail(pipe[i - 1])) \in Nat  BY <2>1, <3>2
      <3>4. QED  BY <2>2, <3>2, <3>3
    <2>4. i # 1  BY <1>3, <1>5
    <2>5. Coming(w, i)' = w[i - 1] + Len(pipe'[i - 1]) /\ Coming(w, i) = w[i - 1] + Len(pipe[i - 1])
      BY <1>3, <1>11, <2>4 DEF Coming
    <2>6. QED  BY <2>1, <2>3, <2>5
  <1>14. Owes(w, i)'
    <2>1. CASE NeverEnds(i)  BY <1>3, <1>7, <1>8, <1>9, <2>1 DEF Owes
    <2>2. CASE ~NeverEnds(i)
      <3>1. w[i] = 0 + Given(c, Coming(w, i))  BY <1>3, <1>5, <1>8, <2>2 DEF Owes
      <3>2. Given(Pipeline[i].run, Coming(w, i))' = Given(c, Coming(w, i)')
        BY <1>3 DEF Given, Writes, Endless
      <3>3. w[i] = todo'[i] + (IF fed'[i] THEN 0 ELSE Given(c, Coming(w, i)'))
        <4>1. CASE c = "cat"
          <5>1. Given(c, Coming(w, i)) = Coming(w, i) /\ Given(c, Coming(w, i)') = Coming(w, i)' /\ ~fed'[i]
            BY <1>5, <4>1 DEF Given
          <5>2. QED  BY <1>5, <1>13, <3>1, <5>1
        <4>2. CASE c = "head"
          <5>1. Coming(w, i) # 0  BY <1>13
          <5>2. Given(c, Coming(w, i)) = 1 /\ fed'[i]  BY <1>5, <4>2, <5>1 DEF Given
          <5>3. QED  BY <1>5, <3>1, <5>2
        <4>3. QED  BY <1>12, <4>1, <4>2
      <3>4. QED  BY <1>7, <1>9, <2>2, <3>2, <3>3 DEF Owes
    <2>3. QED  BY <2>1, <2>2
  <1>15. ASSUME i + 1 \in 1..n  PROVE Owes(w, i + 1)'
    <2>1. i + 1 \in Children /\ i + 1 # i /\ (i + 1) - 1 = i  BY <1>3, <1>15
    <2>2. Owes(w, i + 1) /\ child'[i + 1] = child[i + 1] /\ todo'[i + 1] = todo[i + 1]
          /\ fed'[i + 1] = fed[i + 1]
      BY <1>2, <1>8, <1>15, <2>1 DEF Sameness
    <2>3. pipe'[i] = pipe[i]  BY <1>3, <1>5, <1>10
    <2>4. Coming(w, i + 1)' = Coming(w, i + 1)  BY <1>3, <2>1, <2>3 DEF Coming
    <2>5. QED  BY <1>6, <2>2, <2>4, OwesKept
  <1>16. \A j \in 1..n : Owes(w, j)'
    <2>1. \A j \in 1..n : j # i /\ j # i + 1 => Owes(w, j)'
      BY <1>2, <1>3, <1>8, OthersOwe
    <2>2. QED  BY <1>14, <1>15, <2>1
  <1>17. Balanced(w)'
    <2>1. After(Pipeline)' = After(Pipeline)  BY <1>3 DEF After, Flow, Given, Input, Writes, Endless
    <2>2. Copies(out, line)' = Copies(out, line)  BY <1>5, <1>6 DEF Copies
    <2>3. QED  BY <1>3, <1>4, <1>7, <1>16, <2>1, <2>2 DEF Balanced
  <1>18. Ledger'  BY <1>17 DEF Ledger
  <1>19. Mannered(i)'
    <2>1. Mannered(i)  BY <1>3
    <2>2. pipe'[i] = pipe[i]  BY <1>3, <1>5, <1>10
    <2>3. QED  BY <1>3, <1>5, <1>9, <1>12, <2>1, <2>2 DEF Mannered, Readers
  <1>20. \A j \in 1..n : Mannered(j)'
    <2>1. \A j \in 1..n : j # i => pipe'[j] = pipe[j] \/ ~Pipeline[j].toFile
      BY <1>3, <1>5, <1>11
    <2>2. \A j \in 1..n : j # i => Mannered(j)'
      BY <1>2, <1>3, <1>9, <2>1, OthersMannered
    <2>3. QED  BY <1>19, <2>2
  <1>21. QED  BY <1>3, <1>18, <1>20 DEF Manners

----------------------------------------------------------------------------
(***************************************************************************)
(* The ledger when the shell takes a step.                                 *)
(***************************************************************************)

\* A pipeline starts with its children owing all that they pass on.
LEMMA LedgerStart ==
    ASSUME Inv, Reached, StartPipeline
    PROVE  Ledger' /\ Manners'
PROOF
  <1>0. TypeOK  BY DEF Inv
  <1>1. /\ pc = "line" /\ line \in Lines /\ UNCHANGED <<script, line, todo, fed, out>>
        /\ child' = [i \in Children |-> "none"] /\ pipe' = [p \in Children |-> <<>>]
    BY <1>0, Constants DEF StartPipeline
  <1>2. n \in 1..MaxStages /\ MaxStages \in Nat /\ \A i \in 1..n : i \in Children
    BY <1>0, <1>1, ThePipeline
  <1>3. n' = n /\ Pipeline' = Pipeline  BY <1>1 DEF n, Pipeline
  <1> DEFINE A == After(Pipeline)
  <1>4. /\ A[0] = 0
        /\ \A i \in 1..n : A[i] = Given(Pipeline[i].run, Input(Pipeline, A, i)) /\ A[i] \in Nat
    BY <1>0, <1>1, ScriptType, AfterStage DEF Pipeline, n
  <1>5. PICK w \in [Children -> Nat] : \A i \in 1..n : w[i] = A[i]
    <2> DEFINE u == [i \in Children |-> IF i \in 1..n THEN A[i] ELSE 0]
    <2> HIDE DEF A
    <2>1. u \in [Children -> Nat] /\ \A i \in 1..n : u[i] = A[i]
      BY <1>2, <1>4
    <2> HIDE DEF u
    <2>2. QED  BY <2>1
  <1>6. A' = A /\ \A i : NeverEnds(i)' <=> NeverEnds(i)
    BY <1>3 DEF NeverEnds, After, Flow, Given, Input, Writes, Endless
  <1>7. ASSUME NEW i \in 1..n
        PROVE  Owes(w, i)' /\ Mannered(i)'
    <2>1. /\ child'[i] = "none" /\ pipe'[i] = <<>> /\ Unborn(i)' /\ ~Dead(i)'
      BY <1>1, <1>2 DEF Unborn, Dead
    <2>2. Coming(w, i)' = Input(Pipeline, A, i)
      <3>1. i = 1 => Input(Pipeline, A, i) = 0 /\ Coming(w, i)' = 0
        BY <1>4 DEF Input, Coming
      <3>2. ASSUME i # 1  PROVE Coming(w, i)' = Input(Pipeline, A, i)
        <4>1. i > 1 /\ i - 1 \in 1..n  BY <1>2, <3>2
        <4>2. pipe'[i - 1] = <<>> /\ w[i - 1] = A[i - 1] /\ A[i - 1] \in Nat  BY <1>1, <1>2, <1>4, <1>5, <4>1
        <4>3. w[i - 1] + Len(pipe'[i - 1]) = A[i - 1]
          <5>1. Len(<<>>) = 0  OBVIOUS
          <5>2. QED  BY <4>2, <5>1
        <4> HIDE DEF A
        <4>4. QED  BY <1>3, <3>2, <4>1, <4>3 DEF Coming, Input
      <3>3. QED  BY <3>1, <3>2
    <2>3. Given(Pipeline[i].run, Coming(w, i))' = Given(Pipeline[i].run, Coming(w, i)')
      BY <1>3 DEF Given, Writes, Endless
    <2>4. w[i] = Given(Pipeline[i].run, Coming(w, i))'  BY <1>4, <1>5, <2>2, <2>3
    <2>5. NeverEnds(i)' => w[i] = Endless  BY <1>5, <1>6 DEF NeverEnds
    <2>6. Owes(w, i)'  BY <2>1, <2>4, <2>5 DEF Owes
    <2>7. Mannered(i)'  BY <2>1 DEF Mannered
    <2>8. QED  BY <2>6, <2>7
  <1>8. Copies(out, line)' = 0
    <2>1. out \in Seq(Lines) /\ line \in Nat  BY <1>0, FourTypes, Constants DEF OutputType
    <2>2. \A j \in DOMAIN out : out[j] < line /\ out[j] \in Nat
      BY <1>1, <2>1 DEF Reached, Lines
    <2>3. \A j \in DOMAIN out : out[j] # line  BY <2>1, <2>2
    <2>4. Copies(out, line) = 0  BY <2>1, <2>3, CopiesType
    <2>5. QED  BY <1>1, <2>4 DEF Copies
  <1>9. Balanced(w)'
    <2>1. 0 + w[n] = A[n]
      <3>1. w[n] = A[n] /\ A[n] \in Nat  BY <1>2, <1>4, <1>5
      <3> HIDE DEF A
      <3>2. QED  BY <3>1
    <2>2. QED  BY <1>3, <1>6, <1>7, <1>8, <2>1 DEF Balanced
  <1>10. QED  BY <1>3, <1>7, <1>9 DEF Ledger, Manners

\* What the shell does to a pipeline that goes on leaves the accounts alone.
LEMMA LedgerKept ==
    ASSUME TypeOK, line \in Lines, Underway, Ledger, Manners,
           UNCHANGED <<script, line, pipe, todo, fed, out>>,
           \A i \in 1..n : \/ child'[i] = child[i]
                           \/ Unborn(i) /\ Unborn(i)'
                           \/ Dead(i) /\ Dead(i)'
    PROVE  Ledger' /\ Manners'
PROOF
  <1>1. n' = n /\ Pipeline' = Pipeline  BY DEF n, Pipeline
  <1>2. n \in 1..MaxStages  BY ThePipeline
  <1>3. PICK w \in [Children -> Nat] : Balanced(w)  BY DEF Ledger
  <1>4. \A i : NeverEnds(i)' <=> NeverEnds(i)
    BY <1>1 DEF NeverEnds, After, Flow, Given, Input, Writes, Endless
  <1>5. \A i : Coming(w, i)' = Coming(w, i)  BY <1>1 DEF Coming
  <1>6. \A i \in 1..n : Owes(w, i)  BY <1>3 DEF Balanced
  <1>7. \A i \in 1..n : Owes(w, i)'  BY <1>5, <1>6, OwesKept
  <1>8. Balanced(w)'
    <2>1. After(Pipeline)' = After(Pipeline)  BY <1>1 DEF After, Flow, Given, Input, Writes, Endless
    <2>2. Copies(out, line)' = Copies(out, line)  BY DEF Copies
    <2>3. QED  BY <1>1, <1>3, <1>4, <1>7, <2>1, <2>2 DEF Balanced
  <1>9. ASSUME NEW i \in 1..n  PROVE Mannered(i)'
    <2>1. Mannered(i)  BY DEF Manners
    <2>2. (Dead(i)' <=> Dead(i)) /\ (child'[i] = "run" <=> child[i] = "run")
      BY DEF Dead, Unborn
    <2>3. i < n /\ Dead(i + 1) => Dead(i + 1)'
      <3>1. i < n => i + 1 \in 1..n  BY <1>2
      <3>2. QED  BY <3>1 DEF Dead, Unborn
    <2>4. QED  BY <1>1, <1>4, <2>1, <2>2, <2>3 DEF Mannered
  <1>10. QED  BY <1>1, <1>8, <1>9 DEF Ledger, Manners

LEMMA LedgerShell ==
    ASSUME Inv, Reached, Ledger, Manners, ShellStep
    PROVE  Ledger' /\ Manners'
PROOF
  <1>0. TypeOK /\ InPipeline /\ Family /\ Orderly  BY DEF Inv, Course
  <1>1. CASE RunEcho \/ RunExec \/ Finish \/ PipeFails
    <2>1. pc' \in {"line", "done"}
      BY <1>1 DEF RunEcho, RunExec, Finish, PipeFails, Return
    <2>2. ~Underway'  BY <2>1 DEF Underway
    <2>3. QED  BY <2>2 DEF Ledger, Manners
  <1>2. CASE StartPipeline  BY <1>2, LedgerStart
  <1>3. CASE MakePipe \/ CloseAll
    <2>1. /\ pc \in {"pipe", "close"} /\ line \in Lines
          /\ UNCHANGED <<script, line, pipe, todo, fed, out, child, failed>>
      BY <1>0, <1>3 DEF MakePipe, CloseAll, UnchangedChildren, InPipeline
    <2>2. CASE ~Underway'  BY <2>2 DEF Ledger, Manners
    <2>3. CASE Underway'
      <3>1. Underway  BY <2>1, <2>3 DEF Underway
      <3>2. QED  BY <1>0, <2>1, <3>1, LedgerKept
    <2>4. QED  BY <2>2, <2>3
  <1>4. CASE Fork
    <2>1. /\ pc = "fork" /\ line \in Lines /\ at \in Children
          /\ UNCHANGED <<script, line, pipe, todo, fed, out, failed>>
          /\ child' = [child EXCEPT ![at] = "setup"]
          /\ child \in [Children -> {"none", "setup", "run", "zombie", "reaped", "failed"}]
      BY <1>0, <1>4, FourTypes DEF Fork, InPipeline, ControlType, ChildrenType
    <2>2. n \in 1..MaxStages /\ \A i \in 1..n : i \in Children  BY <1>0, <2>1, ThePipeline
    <2>3. child[at] = "none"
      <3>1. at \in Nat  BY <1>0, Constants
      <3>2. at >= at  BY <3>1
      <3>3. QED  BY <1>0, <2>1, <3>2 DEF Family
    <2>4. \A i \in 1..n : child'[i] = child[i] \/ (Unborn(i) /\ Unborn(i)')
      BY <2>1, <2>2, <2>3 DEF Unborn
    <2>5. CASE ~Underway'  BY <2>5 DEF Ledger, Manners
    <2>6. CASE Underway'
      <3>1. Underway  BY <2>1, <2>6 DEF Underway
      <3>2. QED  BY <1>0, <2>1, <2>4, <3>1, LedgerKept
    <2>7. QED  BY <2>5, <2>6
  <1>5. CASE ForkFails
    <2>1. line' = line /\ line \in failed'  BY <1>5 DEF ForkFails
    <2>2. QED  BY <2>1 DEF Ledger, Manners, Underway
  <1>6. CASE Wait
    <2>1. PICK s \in {0, 1, 127} : Waited(s)  BY <1>0, <1>6, WaitStatus, FourTypes
    <2>2. CASE ~Underway'  BY <2>2 DEF Ledger, Manners
    <2>3. CASE Underway'
      <3>1. pc = "wait" /\ line' = line /\ UNCHANGED <<script, pipe, todo, fed, out, failed>>
        BY <1>6, <2>1, <2>3 DEF Wait, Waited, Return, Underway
      <3>2. Underway /\ line \in Lines /\ at \in 1..n
        BY <1>0, <2>3, <3>1 DEF Underway, InPipeline
      <3>3. \A i \in 1..n : i \in Children  BY <1>0, <3>2, ThePipeline
      <3>4. \A i \in Children : child[i] # "failed"  BY <1>0, <3>1, <3>2 DEF Orderly, Underway
      <3>5. child[at] \in {"zombie", "reaped"} /\ (UNCHANGED child \/ Reap(at))
            /\ (child[at] = "reaped" => UNCHANGED child)
        BY <1>6, <3>2, <3>3, <3>4 DEF Wait, Reap
      <3>6. child \in [Children -> {"none", "setup", "run", "zombie", "reaped", "failed"}]
        BY <1>0, FourTypes DEF ChildrenType
      <3>7. \A i \in 1..n : child'[i] = child[i] \/ (Dead(i) /\ Dead(i)')
        BY <3>2, <3>3, <3>5, <3>6 DEF Dead, Reap
      <3>8. QED  BY <1>0, <3>1, <3>2, <3>7, LedgerKept
    <2>4. QED  BY <2>2, <2>3
  <1>7. QED  BY <1>1, <1>2, <1>3, <1>4, <1>5, <1>6 DEF ShellStep

LEMMA LedgerStep ==
    ASSUME Inv, Held, Reached, Ledger, Manners, [Next]_vars
    PROVE  Ledger' /\ Manners'
PROOF
  <1>1. CASE ShellStep  BY <1>1, LedgerShell
  <1>2. ASSUME NEW i \in Children, ChildStep(i)  PROVE Ledger' /\ Manners'
    <2>1. TypeOK  BY DEF Inv
    <2>2. CASE line \in failed
      <3>1. line' \in failed'  BY <1>2, <2>1, <2>2, OneChild DEF Sameness
      <3>2. QED  BY <3>1 DEF Ledger, Manners, Underway
    <2>3. CASE line \notin failed
      BY <1>2, <2>3, LedgerSetUp, LedgerWrite, LedgerBrokenPipe, LedgerRead, LedgerExit DEF ChildStep
    <2>4. QED  BY <2>2, <2>3
  <1>3. CASE UNCHANGED vars
    <2>1. UNCHANGED <<script, line, pc, pipe, todo, fed, out, child, failed>>  BY <1>3 DEF vars
    <2>2. CASE ~Underway'  BY <2>2 DEF Ledger, Manners
    <2>3. CASE Underway'
      <3>1. Underway /\ line \in Lines  BY <2>1, <2>3 DEF Underway, Inv, Course, InPipeline
      <3>2. TypeOK  BY DEF Inv
      <3>3. QED  BY <2>1, <3>1, <3>2, LedgerKept
    <2>4. QED  BY <2>2, <2>3
  <1>4. QED  BY <1>1, <1>2, <1>3 DEF Next, Terminated

----------------------------------------------------------------------------
(***************************************************************************)
(* The output of earlier lines.                                            *)
(***************************************************************************)

LEMMA TokensIn ==
    ASSUME NEW S, NEW s \in Seq(S), NEW K, \A j \in DOMAIN s : s[j] \in K
    PROVE  /\ \A t \in Seq(S) : (\A j \in DOMAIN t : t[j] \in K) =>
                  \A j \in DOMAIN (s \o t) : (s \o t)[j] \in K
           /\ \A x \in S \cap K : \A j \in DOMAIN Append(s, x) : Append(s, x)[j] \in K
PROOF
  <1>1. ASSUME NEW t \in Seq(S), \A j \in DOMAIN t : t[j] \in K, NEW j \in DOMAIN (s \o t)
        PROVE  (s \o t)[j] \in K
    <2>1. /\ DOMAIN s = 1..Len(s) /\ Len(s) \in Nat /\ DOMAIN t = 1..Len(t) /\ Len(t) \in Nat
          /\ DOMAIN (s \o t) = 1..(Len(s) + Len(t))
          /\ (s \o t)[j] = IF j <= Len(s) THEN s[j] ELSE t[j - Len(s)]
      BY <1>1, ConcatProperties
    <2>2. IF j <= Len(s) THEN j \in DOMAIN s ELSE j - Len(s) \in DOMAIN t
      BY <1>1, <2>1
    <2>3. QED  BY <1>1, <2>1, <2>2
  <1>2. ASSUME NEW x \in S \cap K, NEW j \in DOMAIN Append(s, x)
        PROVE  Append(s, x)[j] \in K
    <2>1. /\ DOMAIN s = 1..Len(s) /\ Len(s) \in Nat /\ DOMAIN Append(s, x) = 1..(Len(s) + 1)
          /\ \A k \in 1..Len(s) : Append(s, x)[k] = s[k]
          /\ Append(s, x)[Len(s) + 1] = x
      BY AppendProperties
    <2>2. j \in DOMAIN s \/ j = Len(s) + 1  BY <1>2, <2>1
    <2>3. QED  BY <2>1, <2>2
  <1>3. QED  BY <1>1, <1>2

Ascending(s) == \A j \in DOMAIN s : j > 1 => s[j - 1] <= s[j]

LEMMA AscendingAppend ==
    ASSUME NEW S, S \subseteq Nat, NEW s \in Seq(S), NEW x \in S, Ascending(s),
           \A j \in DOMAIN s : s[j] <= x
    PROVE  Ascending(Append(s, x))
PROOF
  <1>1. /\ DOMAIN s = 1..Len(s) /\ Len(s) \in Nat /\ DOMAIN Append(s, x) = 1..(Len(s) + 1)
        /\ \A k \in 1..Len(s) : Append(s, x)[k] = s[k]
        /\ Append(s, x)[Len(s) + 1] = x
    BY AppendProperties
  <1>2. ASSUME NEW j \in 1..(Len(s) + 1), j > 1
        PROVE  Append(s, x)[j - 1] <= Append(s, x)[j]
    <2>1. j - 1 \in 1..Len(s)  BY <1>1, <1>2
    <2>2. CASE j = Len(s) + 1  BY <1>1, <2>1, <2>2
    <2>3. CASE j # Len(s) + 1
      <3>1. j \in 1..Len(s)  BY <1>1, <1>2, <2>3
      <3>2. s[j - 1] <= s[j]  BY <1>1, <1>2, <3>1 DEF Ascending
      <3>3. QED  BY <1>1, <2>1, <3>1, <3>2
    <2>4. QED  BY <2>2, <2>3
  <1>3. QED  BY <1>1, <1>2 DEF Ascending

\* What a step does to standard output while a line is being run.
OutputGrows ==
    \/ out' = out
    \/ line \in Lines /\ out' = Append(out, line)
    \/ \E q \in Processes : out' = out \o buffer[q]

LEMMA ReachedGrows ==
    ASSUME Inv, Reached,
           UNCHANGED <<script, terminal, line>>, pc' # "line", OutputGrows,
           \A q \in Processes : buffer'[q] = <<>> \/ \E r \in Processes : buffer'[q] = buffer[r]
    PROVE  Reached'
PROOF
  <1>1. /\ out \in Seq(Lines) /\ \A q \in Processes : buffer[q] \in Seq(Lines)
        /\ line \in Nat /\ Lines \subseteq Nat
    BY FourTypes, Constants DEF Inv, OutputType, Lines
  <1> DEFINE K == {k \in Nat : k <= line}
  <1>2. \A j \in DOMAIN out : out[j] \in Lines
    BY <1>1
  <1>3. \A q \in Processes : \A j \in DOMAIN buffer[q] : buffer[q][j] \in Lines
    BY <1>1
  <1>4. /\ \A j \in DOMAIN out : out[j] \in K
        /\ \A q \in Processes : \A j \in DOMAIN buffer[q] : buffer[q][j] \in K
    <2>1. \A j \in DOMAIN out : out[j] \in K  BY <1>1, <1>2 DEF Reached
    <2>2. ASSUME NEW q \in Processes, NEW j \in DOMAIN buffer[q]  PROVE buffer[q][j] \in K
      <3>1. buffer[q][j] \in Nat /\ buffer[q][j] < line  BY <1>1, <1>3 DEF Reached
      <3>2. QED  BY <1>1, <3>1
    <2>3. QED  BY <2>1, <2>2
  <1>5. line \in K  BY <1>1
  <1>6. \A q \in Processes : out \o buffer[q] = out \/ ~terminal
    <2>1. terminal => \A q \in Processes : buffer[q] = <<>>  BY DEF Reached
    <2>2. out \o <<>> = out  BY <1>1, ConcatEmptySeq
    <2>3. QED  BY <2>1, <2>2
  <1>7. /\ \A j \in DOMAIN out' : out'[j] \in K
        /\ terminal => Ascending(out')
    <2>1. terminal => Ascending(out)  BY DEF Reached, Ascending
    <2>2. CASE out' = out  BY <1>4, <2>1, <2>2
    <2>3. CASE line \in Lines /\ out' = Append(out, line)
      <3>1. line \in Lines  BY <2>3
      <3>2. \A j \in DOMAIN out : out[j] <= line  BY DEF Reached
      <3>3. terminal => Ascending(Append(out, line))  BY <1>1, <2>1, <3>1, <3>2, AscendingAppend
      <3>4. line \in Lines \cap K  BY <1>5, <3>1
      <3> HIDE DEF K
      <3>5. \A j \in DOMAIN Append(out, line) : Append(out, line)[j] \in K
        BY <1>1, <1>4, <3>4, TokensIn
      <3>6. QED  BY <2>3, <3>3, <3>5
    <2>4. ASSUME NEW q \in Processes, out' = out \o buffer[q]
          PROVE  (\A j \in DOMAIN out' : out'[j] \in K) /\ (terminal => Ascending(out'))
      <3> HIDE DEF K
      <3>1. \A j \in DOMAIN (out \o buffer[q]) : (out \o buffer[q])[j] \in K
        BY <1>1, <1>4, TokensIn
      <3>2. QED  BY <1>6, <2>1, <2>4, <3>1
    <2>5. QED  BY <2>2, <2>3, <2>4 DEF OutputGrows
  <1>8. \A q \in Processes : \A j \in DOMAIN buffer'[q] : buffer'[q][j] < line
    <2>1. SUFFICES ASSUME NEW q \in Processes, NEW j \in DOMAIN buffer'[q]
                   PROVE  buffer'[q][j] < line
      OBVIOUS
    <2>2. DOMAIN <<>> = {}  OBVIOUS
    <2>3. QED  BY <2>1, <2>2 DEF Reached
  <1>9. terminal => \A q \in Processes : buffer'[q] = <<>>  BY DEF Reached
  <1>10. QED  BY <1>7, <1>8, <1>9 DEF Reached, Ascending

\* The shell goes on: what was of the line is now of an earlier one.
LEMMA ReachedNext ==
    ASSUME Inv, Reached, UNCHANGED <<script, terminal, buffer, out>>, line' = line + 1
    PROVE  Reached'
PROOF
  <1>1. /\ out \in Seq(Lines) /\ \A q \in Processes : buffer[q] \in Seq(Lines)
        /\ line \in Nat /\ Lines \subseteq Nat
    BY FourTypes, Constants DEF Inv, OutputType, Lines
  <1>2. /\ \A j \in DOMAIN out : out[j] \in Nat
        /\ \A q \in Processes : \A j \in DOMAIN buffer[q] : buffer[q][j] \in Nat
    <2>1. \A j \in DOMAIN out : out[j] \in Lines  BY <1>1
    <2>2. \A q \in Processes : \A j \in DOMAIN buffer[q] : buffer[q][j] \in Lines  BY <1>1
    <2>3. QED  BY <1>1, <2>1, <2>2
  <1>3. QED  BY <1>1, <1>2 DEF Reached

LEMMA PrintfReached ==
    ASSUME Inv, Reached, RunEcho
    PROVE  Reached'
PROOF
  <1>1. /\ out \in Seq(Lines) /\ buffer \in [Processes -> Seq(Lines)]
        /\ line \in Lines /\ line \in Nat /\ Lines \subseteq Nat /\ Shell \in Processes
    BY FourTypes, Constants DEF Inv, OutputType, Lines, RunEcho
  <1>2. pc = "line" /\ line' = line + 1 /\ terminal' = terminal /\ Printf(<<line>>)
    BY DEF RunEcho, Return
  <1> DEFINE K == {k \in Nat : k <= line}
             all == buffer[Shell] \o <<line>>
  <1>3. /\ \A j \in DOMAIN out : out[j] \in Lines
        /\ \A q \in Processes : \A j \in DOMAIN buffer[q] : buffer[q][j] \in Lines
    BY <1>1
  <1>4. /\ \A j \in DOMAIN out : out[j] \in K
        /\ \A q \in Processes : \A j \in DOMAIN buffer[q] : buffer[q][j] \in K
    <2>1. \A j \in DOMAIN out : out[j] \in K  BY <1>1, <1>3 DEF Reached
    <2>2. ASSUME NEW q \in Processes, NEW j \in DOMAIN buffer[q]  PROVE buffer[q][j] \in K
      <3>1. buffer[q][j] \in Nat /\ buffer[q][j] < line  BY <1>1, <1>3 DEF Reached
      <3>2. QED  BY <1>1, <3>1
    <2>3. QED  BY <2>1, <2>2
  <1>5. /\ <<line>> \in Seq(Lines) /\ \A j \in DOMAIN <<line>> : <<line>>[j] \in K
    BY <1>1
  <1>6. all \in Seq(Lines) /\ buffer[Shell] \in Seq(Lines)  BY <1>1, <1>5, Tokens
  <1>7. (\A j \in DOMAIN all : all[j] \in K) /\ (\A j \in DOMAIN (out \o all) : (out \o all)[j] \in K)
    <2> HIDE DEF K
    <2>1. \A j \in DOMAIN all : all[j] \in K  BY <1>1, <1>4, <1>5, <1>6, TokensIn
    <2> HIDE DEF all
    <2>2. QED  BY <1>1, <1>4, <1>6, <2>1, TokensIn
  <1>8. terminal => out \o all = Append(out, line)
    <2>1. SUFFICES ASSUME terminal  PROVE out \o all = Append(out, line)
      OBVIOUS
    <2>2. buffer[Shell] = <<>>  BY <1>1, <2>1 DEF Reached
    <2>3. all = <<line>>  BY <1>5, <2>2, ConcatEmptySeq
    <2>4. QED  BY <1>1, <2>3, AppendIsConcat
  <1>9. terminal => Ascending(Append(out, line))
    <2>1. \A j \in DOMAIN out : out[j] <= line  BY DEF Reached
    <2>2. terminal => Ascending(out)  BY DEF Reached, Ascending
    <2>3. QED  BY <1>1, <2>1, <2>2, AscendingAppend
  <1>10. \/ out' = out \o all /\ buffer' = [buffer EXCEPT ![Shell] = <<>>]
         \/ ~terminal /\ out' = out /\ buffer' = [buffer EXCEPT ![Shell] = all]
    BY <1>2 DEF Printf
  <1> HIDE DEF all
  <1>11. \A j \in DOMAIN out' : out'[j] \in K
    BY <1>4, <1>7, <1>10
  <1>12. \A q \in Processes : \A j \in DOMAIN buffer'[q] : buffer'[q][j] \in K
    <2>1. SUFFICES ASSUME NEW q \in Processes, NEW j \in DOMAIN buffer'[q]
                   PROVE  buffer'[q][j] \in K
      OBVIOUS
    <2>2. DOMAIN <<>> = {}  OBVIOUS
    <2>3. CASE q = Shell
      <3>1. buffer'[q] = <<>> \/ buffer'[q] = all  BY <1>1, <1>10, <2>3
      <3>2. QED  BY <1>7, <2>1, <2>2, <3>1
    <2>4. CASE q # Shell
      <3>1. buffer'[q] = buffer[q]  BY <1>1, <1>10, <2>4
      <3>2. QED  BY <1>4, <2>1, <3>1
    <2>5. QED  BY <2>3, <2>4
  <1>13. terminal => Ascending(out') /\ \A q \in Processes : buffer'[q] = <<>>
    <2>1. SUFFICES ASSUME terminal  PROVE Ascending(out') /\ \A q \in Processes : buffer'[q] = <<>>
      OBVIOUS
    <2>2. \A q \in Processes : buffer[q] = <<>>  BY <2>1 DEF Reached
    <2>3. QED  BY <1>1, <1>8, <1>9, <1>10, <2>1, <2>2
  <1>14. \A k \in K : k < line' /\ k <= line'  BY <1>1, <1>2
  <1>15. QED  BY <1>2, <1>11, <1>12, <1>13, <1>14 DEF Reached, Ascending

\* What a step of a child does to output.
LEMMA ChildOutput ==
    ASSUME TypeOK, InPipeline, Family, NEW i \in Children, ChildStep(i)
    PROVE  /\ line \in Lines /\ pc' # "line" /\ pc' # "done" /\ OutputGrows
           /\ \A q \in Processes : buffer'[q] = <<>> \/ buffer'[q] = buffer[q]
PROOF
  <1>1. Sameness(i)  BY OneChild
  <1>2. child[i] \in {"setup", "run"}  BY ChildStepEffect
  <1>3. pc \in {"fork", "close", "wait"} /\ line \in Lines  BY <1>2, ChildInPipeline
  <1>4. buffer \in [Processes -> Seq(Lines)] /\ i \in Processes
    BY FourTypes, Constants DEF OutputType
  <1>5. CASE SetUp(i)
    <2>1. out' = out \/ out' = out \o buffer[i]  BY <1>5 DEF SetUp, BecomeStage
    <2>2. buffer' = [buffer EXCEPT ![i] = <<>>]  BY <1>5 DEF SetUp, BecomeStage
    <2>3. QED  BY <1>1, <1>3, <1>4, <2>1, <2>2 DEF OutputGrows, Sameness
  <1>6. CASE Write(i)
    <2>1. buffer' = buffer /\ (out' = out \/ out' = Append(out, line))  BY <1>6 DEF Write
    <2>2. QED  BY <1>1, <1>3, <2>1 DEF OutputGrows, Sameness
  <1>7. CASE BrokenPipe(i) \/ Read(i) \/ Exit(i)
    <2>1. buffer' = buffer /\ out' = out  BY <1>7 DEF BrokenPipe, Read, Exit, Die
    <2>2. QED  BY <1>1, <1>3, <2>1 DEF OutputGrows, Sameness
  <1>8. QED  BY <1>5, <1>6, <1>7 DEF ChildStep

LEMMA ReachedStep ==
    ASSUME Inv, Reached, [Next]_vars
    PROVE  Reached'
PROOF
  <1>0. TypeOK /\ InPipeline /\ Family  BY DEF Inv, Course
  <1>1. buffer \in [Processes -> Seq(Lines)] /\ Shell \in Processes /\ line \in Nat
    BY <1>0, FourTypes, Constants DEF OutputType
  <1>2. CASE RunEcho  BY <1>2, PrintfReached
  <1>3. CASE RunExec \/ Finish
    <2>1. /\ UNCHANGED <<script, terminal, line>> /\ pc' # "line"
          /\ buffer' = [buffer EXCEPT ![Shell] = <<>>]
          /\ \/ out' = Append(out, line) /\ line <= Len(script)
             \/ out' = out \o buffer[Shell]
      BY <1>3 DEF RunExec, Finish
    <2>2. line <= Len(script) => line \in Lines  BY <1>0, Constants
    <2>3. OutputGrows  BY <1>1, <2>1, <2>2 DEF OutputGrows
    <2>4. QED  BY <1>1, <2>1, <2>3, ReachedGrows
  <1>4. CASE StartPipeline \/ MakePipe \/ CloseAll \/ ForkFails \/ Fork
    <2>1. /\ UNCHANGED <<script, terminal, line, out>> /\ pc' # "line" /\ line \in Lines
      BY <1>0, <1>4, Constants
      DEF StartPipeline, MakePipe, CloseAll, ForkFails, Fork, AfterFork, InPipeline
    <2>2. \A q \in Processes : \E r \in Processes : buffer'[q] = buffer[r]
      BY <1>1, <1>4 DEF StartPipeline, MakePipe, CloseAll, ForkFails, Fork
    <2>3. QED  BY <2>1, <2>2, ReachedGrows DEF OutputGrows
  <1>5. CASE PipeFails
    BY <1>5, ReachedNext DEF PipeFails, Return
  <1>6. CASE Wait
    <2>1. PICK s \in {0, 1, 127} : Waited(s)  BY <1>0, <1>6, WaitStatus, FourTypes
    <2>2. pc = "wait" /\ line \in Lines  BY <1>0, <1>6 DEF Wait, InPipeline
    <2>3. CASE at = n  BY <2>1, <2>3, ReachedNext DEF Waited, Return
    <2>4. CASE at # n
      <3>1. UNCHANGED <<script, terminal, line, pc, buffer, out>>  BY <2>1, <2>4 DEF Waited
      <3>2. QED  BY <2>2, <3>1, ReachedGrows DEF OutputGrows
    <2>5. QED  BY <2>3, <2>4
  <1>7. ASSUME NEW i \in Children, ChildStep(i)  PROVE Reached'
    <2>1. UNCHANGED <<script, terminal, line>>  BY <1>0, <1>7, OneChild DEF Sameness
    <2>2. QED  BY <1>0, <1>7, <2>1, ChildOutput, ReachedGrows
  <1>8. CASE UNCHANGED vars
    BY <1>8 DEF vars, Reached
  <1>9. QED  BY <1>2, <1>3, <1>4, <1>5, <1>6, <1>7, <1>8 DEF Next, ShellStep, Terminated

\* What the tokens of a line come to when output grows.
LEMMA CopiesGrow ==
    ASSUME TypeOK, OutputGrows, NEW k \in Nat, k < line
    PROVE  /\ Copies(out, k) \in Nat /\ Copies(out', k) \in Nat /\ Copies(buffer[Shell], k) \in Nat
           /\ Copies(out', k) >= Copies(out, k)
           /\ (\A q \in Processes : buffer[q] = <<>>) => Copies(out', k) = Copies(out, k)
PROOF
  <1>1. out \in Seq(Lines) /\ (\A q \in Processes : buffer[q] \in Seq(Lines)) /\ Shell \in Processes
        /\ line \in Nat
    BY FourTypes, Constants DEF OutputType
  <1>2. Copies(out, k) \in Nat /\ \A q \in Processes : Copies(buffer[q], k) \in Nat
    BY <1>1, CopiesType
  <1>3. CASE out' = out  BY <1>1, <1>2, <1>3
  <1>4. CASE line \in Lines /\ out' = Append(out, line)
    <2>1. line # k  BY <1>1
    <2>2. Copies(out', k) = Copies(out, k) + 0  BY <1>1, <1>4, <2>1, CopiesAppend
    <2>3. QED  BY <1>1, <1>2, <2>2
  <1>5. ASSUME NEW q \in Processes, out' = out \o buffer[q]
        PROVE  /\ Copies(out', k) \in Nat /\ Copies(out', k) >= Copies(out, k)
               /\ buffer[q] = <<>> => Copies(out', k) = Copies(out, k)
    <2>1. Copies(out', k) = Copies(out, k) + Copies(buffer[q], k)
      BY <1>1, <1>5, CopiesConcat
    <2>2. buffer[q] = <<>> => out' = out  BY <1>1, <1>5, ConcatEmptySeq
    <2>3. Copies(buffer[q], k) \in Nat  BY <1>2
    <2>4. QED  BY <1>2, <2>1, <2>2, <2>3
  <1>6. QED  BY <1>1, <1>2, <1>3, <1>4, <1>5 DEF OutputGrows

LEMMA DueType ==
    ASSUME TypeOK, NEW k \in Lines
    PROVE  Due(k) \in Nat
PROOF
  <1>1. script[k] \in Seq(Stages) /\ Len(script[k]) \in Nat /\ Len(script[k]) > 0
    BY ScriptType
  <1>2. Len(script[k]) \in 1..Len(script[k])  BY <1>1
  <1>3. QED  BY <1>1, <1>2, AfterStage DEF Due

\* What is said of the lines behind the shell, of the next state.
LEMMA SameScript ==
    ASSUME UNCHANGED script
    PROVE  (Replaced' <=> Replaced) /\ Lines' = Lines
PROOF
  BY DEF Replaced, Lines

LEMMA DueKept ==
    ASSUME UNCHANGED script, NEW k
    PROVE  Due(k)' = Due(k)
PROOF
  BY DEF Due, After, Flow, Given, Input, Writes, Endless, Last

LEMMA AllOfNext ==
    ASSUME UNCHANGED <<script, terminal>>, NEW k,
           Copies(out', k) + Copies(buffer'[Shell], k) >= Due(k),
           terminal => Copies(out', k) = Due(k)
    PROVE  AllOf(k)'
PROOF
  <1>1. Due(k)' = Due(k)  BY DueKept
  <1>2. Copies(out, k)' = Copies(out', k) /\ Copies(buffer[Shell], k)' = Copies(buffer'[Shell], k)
    BY DEF Copies, Shell
  <1>3. QED  BY <1>1, <1>2 DEF AllOf

LEMMA SettledKept ==
    ASSUME Inv, Reached, Settled, UNCHANGED <<script, terminal, line>>, failed \subseteq failed',
           buffer'[Shell] = buffer[Shell], pc' # "done" \/ pc = "done", OutputGrows
    PROVE  Settled'
PROOF
  <1>0. TypeOK  BY DEF Inv
  <1>1. ASSUME NEW k \in Lines, k < line, AllOf(k)
        PROVE  AllOf(k)'
    <2>1. k \in Nat  BY DEF Lines
    <2>2. /\ Copies(out, k) \in Nat /\ Copies(out', k) \in Nat /\ Copies(buffer[Shell], k) \in Nat
          /\ Copies(out', k) >= Copies(out, k)
          /\ (\A q \in Processes : buffer[q] = <<>>) => Copies(out', k) = Copies(out, k)
      BY <1>0, <1>1, <2>1, CopiesGrow
    <2>3. /\ Copies(out, k) + Copies(buffer[Shell], k) >= Due(k)
          /\ terminal => Copies(out, k) = Due(k)
      BY <1>1 DEF AllOf
    <2>4. Due(k) \in Nat  BY <1>0, DueType
    <2>5. terminal => \A q \in Processes : buffer[q] = <<>>  BY DEF Reached
    <2>6. QED  BY <2>2, <2>3, <2>4, <2>5, AllOfNext
  <1>2. (Replaced' <=> Replaced) /\ Lines' = Lines  BY SameScript
  <1>3. failed' = {} => failed = {}  OBVIOUS
  <1>4. QED  BY <1>1, <1>2, <1>3 DEF Settled, Shell

\* One more line is behind the shell.
LEMMA SettledNext ==
    ASSUME Inv, Settled, line \in Lines, line' = line + 1, pc' # "done",
           UNCHANGED <<script, terminal>>, failed \subseteq failed',
           ~Replaced /\ failed' = {} =>
              \A k \in Lines : k = line \/ (k < line /\ AllOf(k)) => AllOf(k)'
    PROVE  Settled'
PROOF
  <1>1. (Replaced' <=> Replaced) /\ Lines' = Lines  BY SameScript
  <1>2. failed' = {} => failed = {}  OBVIOUS
  <1>3. \A k \in Lines : k < line' => k = line \/ k < line
    BY DEF Lines
  <1>4. QED  BY <1>1, <1>2, <1>3 DEF Settled

\* A line's pipeline is over when its last stage is: it owes nothing then.
LEMMA LineDone ==
    ASSUME Inv, Ledger, Manners, Wait, at = n, line \notin failed
    PROVE  line \in Lines /\ Copies(out, line) = Due(line)
PROOF
  <1>0. TypeOK /\ InPipeline /\ Orderly  BY DEF Inv, Course
  <1>1. pc = "wait" /\ line \in Lines  BY <1>0 DEF Wait, InPipeline
  <1>2. n \in 1..MaxStages /\ n \in Children  BY <1>0, <1>1, ThePipeline
  <1>3. Underway  BY <1>1 DEF Underway
  <1>4. child[n] # "failed"  BY <1>0, <1>1, <1>2 DEF Orderly
  <1>5. Dead(n)  BY <1>4 DEF Wait, Dead
  <1>6. ~NeverEnds(n)
    <2>1. n \in 1..n /\ ~(n < n)  BY <1>2
    <2>2. QED  BY <1>3, <1>5, <2>1 DEF Manners, Mannered
  <1>7. PICK w \in [Children -> Nat] : Balanced(w)  BY <1>3 DEF Ledger
  <1>8. w[n] = 0
    <2>1. n \in 1..n  BY <1>2
    <2>2. QED  BY <1>5, <1>7, <2>1 DEF Balanced, Owes
  <1>9. Copies(out, line) \in Nat
    <2>1. out \in Seq(Lines)  BY <1>0, FourTypes DEF OutputType
    <2>2. QED  BY <2>1, CopiesType
  <1>10. Due(line) = IF Pipeline[n].toFile THEN 0 ELSE After(Pipeline)[n]
    BY DEF Due, Last, Pipeline, n
  <1>11. CASE Pipeline[n].toFile
    BY <1>1, <1>7, <1>10, <1>11 DEF Balanced
  <1>12. CASE ~Pipeline[n].toFile
    <2>1. Copies(out, line) + 0 = After(Pipeline)[n]
      BY <1>6, <1>7, <1>8, <1>12 DEF Balanced
    <2>2. QED  BY <1>1, <1>9, <1>10, <1>12, <2>1
  <1>13. QED  BY <1>11, <1>12

\* What the shell's own printf() comes to, on standard output and in its buffer.
LEMMA PrintfCopies ==
    ASSUME Inv, Reached, RunEcho, NEW k \in Lines, k <= line
    PROVE  /\ Copies(out', k) + Copies(buffer'[Shell], k)
                = Copies(out, k) + Copies(buffer[Shell], k) + (IF k = line THEN 1 ELSE 0)
           /\ terminal => Copies(out', k) = Copies(out, k) + (IF k = line THEN 1 ELSE 0)
           /\ Copies(out, k) \in Nat /\ Copies(buffer[Shell], k) \in Nat
           /\ Copies(out, line) = 0
PROOF
  <1>1. /\ out \in Seq(Lines) /\ buffer \in [Processes -> Seq(Lines)] /\ buffer[Shell] \in Seq(Lines)
        /\ line \in Lines /\ line \in Nat /\ Lines \subseteq Nat /\ Shell \in Processes
        /\ <<>> \in Seq(Lines) /\ <<line>> \in Seq(Lines)
    BY FourTypes, Constants DEF Inv, OutputType, Lines, RunEcho
  <1> DEFINE all == buffer[Shell] \o <<line>>
  <1>2. Copies(<<>>, k) = 0
    <2>1. DOMAIN <<>> = {}  OBVIOUS
    <2>2. QED  BY <1>1, <2>1, CopiesType
  <1>3. Copies(<<line>>, k) = IF k = line THEN 1 ELSE 0
    <2>1. PICK e \in Seq(Lines) : e = <<>>  BY <1>1
    <2>2. Copies(Append(e, line), k) = Copies(e, k) + (IF line = k THEN 1 ELSE 0)
      BY <1>1, CopiesAppend
    <2>3. Append(e, line) = <<line>>  BY <2>1
    <2>4. QED  BY <1>2, <2>1, <2>2, <2>3
  <1>4. all \in Seq(Lines) /\ Copies(all, k) = Copies(buffer[Shell], k) + (IF k = line THEN 1 ELSE 0)
    <2>1. all \in Seq(Lines)  BY <1>1, Tokens
    <2>2. Copies(all, k) = Copies(buffer[Shell], k) + Copies(<<line>>, k)  BY <1>1, CopiesConcat
    <2>3. QED  BY <1>3, <2>1, <2>2
  <1>5. Copies(out, k) \in Nat /\ Copies(buffer[Shell], k) \in Nat
    BY <1>1, CopiesType
  <1>6. terminal => Copies(buffer[Shell], k) = 0
    BY <1>1, <1>2 DEF Reached
  <1>7. \/ out' = out \o all /\ buffer'[Shell] = <<>>
        \/ ~terminal /\ out' = out /\ buffer'[Shell] = all
    BY <1>1 DEF RunEcho, Printf
  <1> HIDE DEF all
  <1>8. Copies(out \o all, k) = Copies(out, k) + Copies(all, k)
    BY <1>1, <1>4, CopiesConcat
  <1>10. Copies(out, line) = 0
    <2>1. \A j \in DOMAIN out : out[j] # line
      <3>1. \A j \in DOMAIN out : out[j] < line  BY DEF Reached, RunEcho
      <3>2. ~(line < line)  BY <1>1
      <3>3. QED  BY <3>1, <3>2
    <2>2. QED  BY <1>1, <2>1, CopiesType
  <1>9. CASE out' = out \o all /\ buffer'[Shell] = <<>>
    BY <1>2, <1>4, <1>5, <1>6, <1>8, <1>9, <1>10
  <1>11. CASE ~terminal /\ out' = out /\ buffer'[Shell] = all
    BY <1>4, <1>5, <1>10, <1>11
  <1>12. QED  BY <1>5, <1>7, <1>9, <1>10, <1>11

LEMMA SettledEcho ==
    ASSUME Inv, Reached, Settled, RunEcho
    PROVE  Settled'
PROOF
  <1>0. TypeOK  BY DEF Inv
  <1>1. /\ line \in Lines /\ line' = line + 1 /\ pc' = "line" /\ UNCHANGED <<script, terminal, failed>>
        /\ n = 1 /\ Pipeline[1].run = "echo" /\ ~Pipeline[1].toFile
    BY <1>0, Constants DEF RunEcho, Return, IsPlainBuiltin
  <1>2. Due(line) = 1
    <2>1. Due(line) = After(Pipeline)[1]  BY <1>1 DEF Due, Last, Pipeline, n
    <2>2. After(Pipeline)[1] = Given("echo", Input(Pipeline, After(Pipeline), 1))
      BY <1>0, <1>1, ScriptType, AfterStage DEF Pipeline, n
    <2>3. QED  BY <2>1, <2>2 DEF Given, Writes
  <1>3. ASSUME NEW k \in Lines, k = line \/ (k < line /\ AllOf(k))
        PROVE  AllOf(k)'
    <2>1. k \in Nat /\ k <= line  BY <1>0, <1>3, Constants DEF Lines
    <2>2. /\ Copies(out', k) + Copies(buffer'[Shell], k)
                = Copies(out, k) + Copies(buffer[Shell], k) + (IF k = line THEN 1 ELSE 0)
          /\ terminal => Copies(out', k) = Copies(out, k) + (IF k = line THEN 1 ELSE 0)
          /\ Copies(out, k) \in Nat /\ Copies(buffer[Shell], k) \in Nat
          /\ Copies(out, line) = 0
      BY <2>1, PrintfCopies
    <2>3. CASE k = line
      <3>1. /\ Copies(out', k) + Copies(buffer'[Shell], k) = Copies(buffer[Shell], k) + 1
            /\ terminal => Copies(out', k) = 1
        BY <2>2, <2>3
      <3>2. QED  BY <1>1, <1>2, <2>2, <2>3, <3>1, AllOfNext
    <2>4. CASE k # line
      <3>1. /\ Copies(out', k) + Copies(buffer'[Shell], k) = Copies(out, k) + Copies(buffer[Shell], k)
            /\ terminal => Copies(out', k) = Copies(out, k)
        BY <2>2, <2>4
      <3>2. QED  BY <1>1, <1>3, <2>4, <3>1, AllOfNext DEF AllOf
    <2>5. QED  BY <2>3, <2>4
  <1>4. QED  BY <1>1, <1>3, SettledNext

LEMMA SettledFinish ==
    ASSUME Inv, Reached, Settled, Finish
    PROVE  Settled'
PROOF
  <1>0. TypeOK  BY DEF Inv
  <1>1. /\ UNCHANGED <<script, terminal, line, failed>> /\ line > Len(script)
        /\ out' = out \o buffer[Shell] /\ buffer' = [buffer EXCEPT ![Shell] = <<>>]
    BY DEF Finish
  <1>2. out \in Seq(Lines) /\ buffer \in [Processes -> Seq(Lines)] /\ Shell \in Processes
        /\ buffer[Shell] \in Seq(Lines)
    BY <1>0, FourTypes, Constants DEF OutputType
  <1>3. buffer'[Shell] = <<>>  BY <1>1, <1>2
  <1>4. ASSUME NEW k \in Lines, AllOf(k)  PROVE AllOf(k)'
    <2>1. Copies(out', k) = Copies(out, k) + Copies(buffer[Shell], k)
      BY <1>1, <1>2, CopiesConcat
    <2>2. Copies(out, k) \in Nat /\ Copies(buffer[Shell], k) \in Nat
      BY <1>2, CopiesType
    <2>3. Copies(<<>>, k) = 0
      <3>1. <<>> \in Seq(Lines) /\ DOMAIN <<>> = {}  OBVIOUS
      <3>2. QED  BY <3>1, CopiesType
    <2>4. terminal => out' = out
      <3>1. terminal => buffer[Shell] = <<>>  BY <1>2 DEF Reached
      <3>2. QED  BY <1>1, <1>2, <3>1, ConcatEmptySeq
    <2>5. Due(k) \in Nat  BY <1>0, DueType
    <2>6. QED  BY <1>1, <1>3, <1>4, <2>1, <2>2, <2>3, <2>4, <2>5, AllOfNext DEF AllOf
  <1>5. (Replaced' <=> Replaced) /\ Lines' = Lines  BY <1>1, SameScript
  <1>6. buffer[Shell]' = <<>>  BY <1>3 DEF Shell
  <1>7. QED  BY <1>1, <1>4, <1>5, <1>6 DEF Settled

LEMMA SettledStep ==
    ASSUME Inv, Ledger, Manners, Reached, Settled, [Next]_vars
    PROVE  Settled'
PROOF
  <1>0. TypeOK /\ InPipeline /\ Family  BY DEF Inv, Course
  <1>1. buffer \in [Processes -> Seq(Lines)] /\ Shell \in Processes /\ Children \subseteq Processes
        /\ Shell \notin Children
    BY <1>0, FourTypes, Constants DEF OutputType
  <1>2. CASE RunEcho  BY <1>2, SettledEcho
  <1>3. CASE Finish  BY <1>3, SettledFinish
  <1>4. CASE RunExec
    <2>1. line \in Lines /\ script[line][1].run = "exec" /\ script' = script
      BY <1>0, <1>4, Constants DEF RunExec, Pipeline
    <2>2. line \in DOMAIN script
      <3>1. script \in Seq(Seq(Stages) \ {<<>>})  BY <1>0, ScriptAssumption DEF TypeOK
      <3>2. QED  BY <2>1, <3>1 DEF Lines
    <2>3. Replaced'  BY <2>1, <2>2 DEF Replaced
    <2>4. QED  BY <2>3 DEF Settled
  <1>5. CASE PipeFails \/ ForkFails
    <2>1. failed' # {}  BY <1>5 DEF PipeFails, ForkFails
    <2>2. QED  BY <2>1 DEF Settled
  <1>6. CASE StartPipeline \/ MakePipe \/ CloseAll \/ Fork
    <2>1. /\ UNCHANGED <<script, terminal, line, out, failed>> /\ pc' # "done"
      BY <1>6 DEF StartPipeline, MakePipe, CloseAll, Fork, AfterFork
    <2>2. buffer'[Shell] = buffer[Shell]
      <3>1. CASE Fork
        <4>1. buffer' = [buffer EXCEPT ![at] = buffer[Shell]] /\ at \in Children
          BY <1>0, <3>1, FourTypes DEF Fork, ControlType
        <4>2. QED  BY <1>1, <4>1
      <3>2. CASE ~Fork  BY <1>6, <3>2 DEF StartPipeline, MakePipe, CloseAll
      <3>3. QED  BY <3>1, <3>2
    <2>3. QED  BY <2>1, <2>2, SettledKept DEF OutputGrows
  <1>7. CASE Wait
    <2>1. PICK s \in {0, 1, 127} : Waited(s)  BY <1>0, <1>7, WaitStatus, FourTypes
    <2>2. pc = "wait" /\ line \in Lines  BY <1>0, <1>7 DEF Wait, InPipeline
    <2>3. UNCHANGED <<script, terminal, buffer, out, failed>>  BY <2>1 DEF Waited
    <2>4. CASE at = n
      <3>1. line' = line + 1 /\ pc' = "line"  BY <2>1, <2>4 DEF Waited, Return
      <3>2. ASSUME failed = {}, NEW k \in Lines, k = line \/ AllOf(k)
            PROVE  AllOf(k)'
        <4>1. k = line => Copies(out, k) = Due(k)  BY <1>7, <2>4, <3>2, LineDone
        <4>2. Copies(out, k) \in Nat /\ Copies(buffer[Shell], k) \in Nat /\ Due(k) \in Nat
          <5>1. out \in Seq(Lines) /\ buffer[Shell] \in Seq(Lines)
            BY <1>0, <1>1, FourTypes DEF OutputType
          <5>2. Copies(out, k) \in Nat /\ Copies(buffer[Shell], k) \in Nat
            <6>1. Copies(out, k) \in Nat  BY <5>1, CopiesType
            <6>2. PICK b \in Seq(Lines) : b = buffer[Shell]  BY <5>1
            <6>3. Copies(b, k) \in Nat  BY CopiesType
            <6>4. QED  BY <6>1, <6>2, <6>3
          <5>3. QED  BY <1>0, <5>2, DueType
        <4>3. AllOf(k)  BY <3>2, <4>1, <4>2 DEF AllOf
        <4>4. QED  BY <2>3, <4>3, AllOfNext DEF AllOf
      <3>3. QED  BY <2>2, <2>3, <3>1, <3>2, SettledNext
    <2>5. CASE at # n
      <3>1. UNCHANGED <<line, pc>>  BY <2>1, <2>5 DEF Waited
      <3>2. QED  BY <2>2, <2>3, <3>1, SettledKept DEF OutputGrows
    <2>6. QED  BY <2>4, <2>5
  <1>8. ASSUME NEW i \in Children, ChildStep(i)  PROVE Settled'
    <2>1. UNCHANGED <<script, terminal, line, failed>> /\ buffer'[Shell] = buffer[Shell]
      BY <1>0, <1>8, OneChild DEF Sameness
    <2>2. pc' # "done" /\ OutputGrows  BY <1>0, <1>8, ChildOutput
    <2>3. QED  BY <2>1, <2>2, SettledKept
  <1>9. CASE UNCHANGED vars
    <2>1. UNCHANGED <<script, terminal, line, failed, pc, buffer, out>>  BY <1>9 DEF vars
    <2>2. QED  BY <2>1, SettledKept DEF OutputGrows
  <1>10. QED
    BY <1>2, <1>3, <1>4, <1>5, <1>6, <1>7, <1>8, <1>9 DEF Next, ShellStep, Terminated

LEMMA AccountsInit == Init => Accounts
PROOF
  <1> SUFFICES ASSUME Init  PROVE Accounts
    OBVIOUS
  <1>1. /\ pc = "line" /\ line = 1 /\ \A i \in Children : child[i] = "none"
        /\ out = <<>> /\ \A q \in Processes : buffer[q] = <<>>
    BY DEF Init
  <1>2. DOMAIN <<>> = {}  OBVIOUS
  <1>3. Ledger /\ Manners  BY <1>1 DEF Ledger, Manners, Underway
  <1>4. Held  BY <1>1 DEF Held
  <1>5. Reached  BY <1>1, <1>2 DEF Reached
  <1>6. Settled
    <2>1. \A k \in Lines : ~(k < line)  BY <1>1 DEF Lines
    <2>2. QED  BY <1>1, <2>1 DEF Settled
  <1>7. QED  BY <1>3, <1>4, <1>5, <1>6 DEF Accounts

LEMMA AccountsAlways == Spec => []Accounts
PROOF
  <1>1. Inv /\ Accounts /\ [Next]_vars => Accounts'
    BY LedgerStep, HeldStep, ReachedStep, SettledStep DEF Accounts
  <1>2. QED  BY AccountsInit, <1>1, InvAlways, PTL DEF Spec

\* Whatever the scripts, pipes and buffers, everything the lines print arrives
\* unless exec replaces the shell or a call fails; on a terminal it comes once
\* and in order (execute_pipeline_internal, and the buffer each fork copies).
THEOREM AllArrives == Spec => []OutputArrives
PROOF
  <1>1. Inv /\ Accounts => OutputArrives
    <2> SUFFICES ASSUME Inv, Accounts  PROVE OutputArrives
      OBVIOUS
    <2>1. TypeOK /\ Reached /\ Settled  BY DEF Inv, Accounts
    <2>2. ASSUME Finished, ~Replaced, NEW k \in DOMAIN script
          PROVE  Printed(k) >= Passed(script[k]) /\ (terminal => Printed(k) = Passed(script[k]))
      <3>1. k \in Lines
        <4>1. script \in Seq(Seq(Stages) \ {<<>>})  BY <2>1, ScriptAssumption DEF TypeOK
        <4>2. QED  BY <2>2, <4>1 DEF Lines
      <3>2. pc = "done" /\ failed = {}  BY <2>2 DEF Finished
      <3>3. line > Len(script) /\ buffer[Shell] = <<>>  BY <2>1, <2>2, <3>2 DEF Settled
      <3>4. k < line  BY <2>1, <3>1, <3>3, Constants DEF Lines
      <3>5. AllOf(k)  BY <2>1, <2>2, <3>1, <3>2, <3>4 DEF Settled
      <3>6. Due(k) = Passed(script[k])  BY PassedIsAfter DEF Due
      <3>7. Printed(k) = Copies(out, k)  BY DEF Printed, Copies
      <3>8. Copies(buffer[Shell], k) = 0
        <4>1. <<>> \in Seq(Lines) /\ DOMAIN <<>> = {}  OBVIOUS
        <4>2. QED  BY <3>3, <4>1, CopiesType
      <3>9. Copies(out, k) \in Nat
        <4>1. out \in Seq(Lines)  BY <2>1, FourTypes DEF OutputType
        <4>2. QED  BY <4>1, CopiesType
      <3>10. Copies(out, k) + 0 >= Due(k) /\ (terminal => Copies(out, k) = Due(k))
        BY <3>5, <3>8 DEF AllOf
      <3>11. QED  BY <3>6, <3>7, <3>9, <3>10
    <2>3. NothingLost  BY <2>2 DEF NothingLost
    <2>4. OrderedOnTerminal  BY <2>1, <2>2 DEF OrderedOnTerminal, Reached
    <2>5. QED  BY <2>3, <2>4 DEF OutputArrives
  <1>2. QED  BY InvAlways, AccountsAlways, <1>1, PTL
=============================================================================
