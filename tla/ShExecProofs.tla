---------------------------- MODULE ShExecProofs ----------------------------
(***************************************************************************)
(* Proofs about ShExec, for any scripts, statuses and number of answers.   *)
(*                                                                         *)
(* OnlyOpenGoOn speaks of the commands that run after exit, but a command  *)
(* is put on the stack by what contains it, and that by what contains it.  *)
(* OpenOnly says the same of every node that has not begun yet, and Begun  *)
(* that those below the top have.                                          *)
(***************************************************************************)
EXTENDS ShExec, SequenceTheorems, TLAPS

Frames == [node : Nodes, at : Nat]

Enclosed(s) == \E i \in 1..Len(s) - 1 : s[i].node.type \in Unstoppable

Begun == \A i \in 1..Len(stack) - 1 : stack[i].at > 0 /\ stack[i].node.type \notin Simple

Waits(f) == f.at = 0 \/ f.node.type \in Simple

OpenOnly == ~running /\ stack # <<>> /\ Waits(Top) => Enclosed(stack)

Inv == TypeOK /\ Begun /\ OpenOnly

----------------------------------------------------------------------------
\* What is left of a stack without its top, the node that a handler is about.
LEMMA Popped ==
    ASSUME NEW S, NEW s \in Seq(S), s # <<>>
    PROVE  /\ Front(s) \in Seq(S)
           /\ Len(Front(s)) = Len(s) - 1
           /\ \A i \in 1..Len(s) - 1 : Front(s)[i] = s[i]
           /\ Last(s) \in S
           /\ Last(s) = s[Len(s)]
           /\ Len(s) \in Nat \ {0}
<1>1. Len(s) \in Nat \ {0} /\ s[Len(s)] \in S
  OBVIOUS
<1>2. Last(s) = s[Len(s)]
  BY DEF Last
<1>3. Front(s) = SubSeq(s, 1, Len(s) - 1)
  BY DEF Front
<1>4. /\ SubSeq(s, 1, Len(s) - 1) \in Seq(S)
      /\ Len(SubSeq(s, 1, Len(s) - 1)) = Len(s) - 1
      /\ \A i \in 1..Len(s) - 1 : SubSeq(s, 1, Len(s) - 1)[i] = s[i]
  BY <1>1, SubSeqProperties
<1> QED
  BY <1>1, <1>2, <1>3, <1>4

\* A stack whose top has moved on, as handlers leave it.
LEMMA Moved ==
    ASSUME NEW S, NEW s \in Seq(S), s # <<>>, NEW f \in S
    PROVE  LET t == Front(s) \o <<f>>
           IN /\ t \in Seq(S)
              /\ Len(t) = Len(s)
              /\ t[Len(s)] = f
              /\ \A i \in 1..Len(s) - 1 : t[i] = s[i]
<1>1. /\ Front(s) \in Seq(S) /\ Len(Front(s)) = Len(s) - 1
      /\ \A i \in 1..Len(s) - 1 : Front(s)[i] = s[i]
      /\ Len(s) \in Nat \ {0}
  BY Popped
<1> QED
  BY <1>1

\* A stack that a handler has put a node on.
LEMMA Pushed ==
    ASSUME NEW S, NEW s \in Seq(S), s # <<>>, NEW f \in S, NEW g \in S
    PROVE  LET t == Append(Front(s) \o <<f>>, g)
           IN /\ t \in Seq(S)
              /\ t # <<>>
              /\ Len(t) = Len(s) + 1
              /\ t[Len(s) + 1] = g
              /\ t[Len(s)] = f
              /\ \A i \in 1..Len(s) - 1 : t[i] = s[i]
<1> DEFINE m == Front(s) \o <<f>>
<1>1. /\ m \in Seq(S) /\ Len(m) = Len(s) /\ m[Len(s)] = f
      /\ \A i \in 1..Len(s) - 1 : m[i] = s[i]
  BY Moved
<1>2. Len(s) \in Nat \ {0}
  BY Popped
<1> HIDE DEF m
<1>3. /\ Append(m, g) \in Seq(S)
      /\ Append(m, g) # <<>>
      /\ Len(Append(m, g)) = Len(m) + 1
      /\ Append(m, g)[Len(m) + 1] = g
      /\ \A i \in 1..Len(m) : Append(m, g)[i] = m[i]
  BY <1>1
<1> QED
  BY <1>1, <1>2, <1>3 DEF m

----------------------------------------------------------------------------
(***************************************************************************)
(* The three things that a handler does to the stack.                      *)
(***************************************************************************)

\* execute_node returns: what it returns to had begun, and is no command.
LEMMA ReturnKeeps ==
    ASSUME Inv, stack # <<>>, stack' = Front(stack)
    PROVE  stack' \in Seq(Frames) /\ Begun' /\ OpenOnly'
<1>1. stack \in Seq(Frames)
  BY DEF Inv, TypeOK, Frames
<1>2. /\ stack' \in Seq(Frames) /\ Len(stack') = Len(stack) - 1
      /\ \A i \in 1..Len(stack) - 1 : stack'[i] = stack[i]
      /\ Len(stack) \in Nat \ {0}
  BY <1>1, Popped
<1>3. \A i \in 1..Len(stack') : stack'[i].at > 0 /\ stack'[i].node.type \notin Simple
  BY <1>2 DEF Inv, Begun
<1>4. Begun'
  BY <1>2, <1>3 DEF Begun
<1>5. stack' # <<>> => ~Waits(Top)'
  <2> SUFFICES ASSUME stack' # <<>> PROVE ~Waits(Top)'
    OBVIOUS
  <2>1. Top' = stack'[Len(stack')] /\ Len(stack') \in 1..Len(stack')
    BY <1>2 DEF Top, Last
  <2>2. Top'.at > 0 /\ Top'.node.type \notin Simple
    BY <2>1, <1>3
  <2>3. Top'.at \in Nat
    <3>1. stack'[Len(stack')] \in Frames
      BY <2>1, <1>2
    <3> QED
      BY <3>1, <2>1 DEF Frames
  <2> QED
    BY <2>2, <2>3 DEF Waits
<1> QED
  BY <1>2, <1>4, <1>5 DEF OpenOnly

\* A handler goes on: the node it was about has begun.
LEMMA TurnKeeps ==
    ASSUME Inv, stack # <<>>, Top.node.type \notin Simple,
           stack' = Front(stack) \o <<[Top EXCEPT !.at = 1]>>
    PROVE  stack' \in Seq(Frames) /\ Begun' /\ OpenOnly'
<1> DEFINE f == [Top EXCEPT !.at = 1]
<1>1. stack \in Seq(Frames)
  BY DEF Inv, TypeOK, Frames
<1>2. Top \in Frames /\ Len(stack) \in Nat \ {0}
  BY <1>1, Popped DEF Top
<1>3. f \in Frames /\ f.at = 1 /\ f.node = Top.node
  BY <1>2 DEF Frames
<1>4. stack' = Front(stack) \o <<f>>
  OBVIOUS
<1> HIDE DEF f
<1>5. /\ stack' \in Seq(Frames) /\ Len(stack') = Len(stack)
      /\ stack'[Len(stack)] = f
      /\ \A i \in 1..Len(stack) - 1 : stack'[i] = stack[i]
  BY <1>1, <1>3, <1>4, Moved
<1>6. Begun'
  BY <1>2, <1>5 DEF Inv, Begun
<1>7. Top' = f
  BY <1>5 DEF Top, Last
<1>8. ~Waits(Top)'
  BY <1>3, <1>7 DEF Waits
<1> QED
  BY <1>5, <1>6, <1>8 DEF OpenOnly

\* A handler executes a node below its own: after exit only one does that is
\* Unstoppable itself, or a `case` that waited inside such a node.
LEMMA ExecuteKeeps ==
    ASSUME Inv, stack # <<>>, Top.node.type \notin Simple,
           NEW kid \in 1..Kids, NEW k \in Nat, k > 0, Execute(kid, k),
           running' = running,
           ~running => Top.node.type \in Unstoppable \/ Top.at = 0
    PROVE  stack' \in Seq(Frames) /\ Begun' /\ OpenOnly'
<1> DEFINE f == [Top EXCEPT !.at = k]
           g == [node |-> Top.node.kids[kid], at |-> 0]
<1>1. stack \in Seq(Frames)
  BY DEF Inv, TypeOK, Frames
<1>2. Top \in Frames /\ Len(stack) \in Nat \ {0} /\ Top = stack[Len(stack)]
  BY <1>1, Popped DEF Top
<1>3. f \in Frames /\ f.at = k /\ f.node = Top.node
  BY <1>2 DEF Frames
<1>4. g \in Frames
  <2>1. Top.node \in Nodes
    BY <1>2 DEF Frames
  <2>2. Top.node.kids \in Seq(Nodes)
    BY <2>1, NodeAssumption
  <2>3. Top.node.kids[kid] \in Nodes
    BY <2>2 DEF Kids
  <2> QED
    BY <2>3 DEF Frames
<1>5. stack' = Append(Front(stack) \o <<f>>, g)
  BY DEF Execute
<1> HIDE DEF f, g
<1>6. /\ stack' \in Seq(Frames) /\ stack' # <<>> /\ Len(stack') = Len(stack) + 1
      /\ stack'[Len(stack)] = f
      /\ \A i \in 1..Len(stack) - 1 : stack'[i] = stack[i]
  BY <1>1, <1>3, <1>4, <1>5, Pushed
<1>7. Begun'
  BY <1>2, <1>3, <1>6 DEF Inv, Begun
<1>8. OpenOnly'
  <2> SUFFICES ASSUME ~running PROVE Enclosed(stack')
    BY DEF OpenOnly
  <2>1. CASE Top.node.type \in Unstoppable
    BY <2>1, <1>2, <1>3, <1>6 DEF Enclosed
  <2>2. CASE Top.at = 0
    <3>1. Enclosed(stack)
      BY <2>2 DEF Inv, OpenOnly, Waits
    <3> QED
      BY <3>1, <1>2, <1>6 DEF Enclosed
  <2> QED
    BY <2>1, <2>2
<1> QED
  BY <1>6, <1>7, <1>8

----------------------------------------------------------------------------
(***************************************************************************)
(* Types.                                                                  *)
(***************************************************************************)
Codes == Statuses \cup {0, 1, 126, 127}

LEMMA Answered ==
    ASSUME TypeOK, NEW v \in Nat, Answer(v)
    PROVE  answers' \in Seq(Nat) /\ Len(answers') <= MaxAnswers
<1>1. answers \in Seq(Nat) /\ Len(answers) < MaxAnswers /\ answers' = Append(answers, v)
  BY DEF TypeOK, Answer
<1>2. MaxAnswers \in Nat
  BY ScriptAssumption
<1> QED
  BY <1>1, <1>2

LEMMA Returned ==
    ASSUME Inv, stack # <<>>, NEW v \in Codes, Finish(v)
    PROVE  /\ stack' \in Seq(Frames) /\ Begun' /\ OpenOnly'
           /\ ec' \in Codes /\ last' \in Codes
BY ReturnKeeps DEF Finish

LEMMA ReadTypes ==
    ASSUME TypeOK
    PROVE  /\ Lines \in Seq([node : Nodes, heredocs : Nat])
           /\ Len(Lines) \in Nat
           /\ pos \in 0..Len(Lines)
           /\ temps \in Nat
<1>1. Lines \in Seq([node : Nodes, heredocs : Nat])
  BY ScriptAssumption DEF TypeOK, Lines
<1> QED
  BY <1>1 DEF TypeOK

\* The type invariant in the form in which the steps below give it.
LEMMA TypesNext ==
    ASSUME TypeOK, script' = script,
           pos' \in 0..Len(Lines), stack' \in Seq(Frames),
           ec' \in Codes, last' \in Codes, running' \in BOOLEAN, errexit' \in BOOLEAN,
           temps' \in Nat, ended' \in {"no", "returned", "replaced"},
           answers' \in Seq(Nat) /\ Len(answers') <= MaxAnswers
    PROVE  TypeOK'
BY DEF TypeOK, Frames, Codes, Lines

\* What the handlers of lists, conditions and loops leave alone.
LEMMA Settled ==
    ASSUME Inv, UNCHANGED <<script, pos, temps, ended, running, errexit>>,
           stack' \in Seq(Frames), Begun', OpenOnly', ec' \in Codes, last' \in Codes,
           answers' \in Seq(Nat) /\ Len(answers') <= MaxAnswers
    PROVE  Inv'
<1>1. TypeOK /\ pos \in 0..Len(Lines) /\ temps \in Nat
  BY ReadTypes DEF Inv
<1>2. TypeOK'
  BY <1>1, TypesNext DEF TypeOK
<1> QED
  BY <1>2 DEF Inv

----------------------------------------------------------------------------
LEMMA InitInv == Init => Inv
<1> SUFFICES ASSUME Init PROVE Inv
  OBVIOUS
<1>1. stack = <<>> /\ answers = <<>> /\ Len(stack) = 0 /\ Len(answers) = 0
  BY DEF Init
<1>2. script.lines \in Seq([node : Nodes, heredocs : Nat])
  BY ScriptAssumption DEF Init
<1>3. TypeOK
  <2>1. Len(Lines) \in Nat /\ 0 \in 0..Len(Lines)
    BY <1>2 DEF Lines
  <2>2. stack \in Seq([node : Nodes, at : Nat]) /\ answers \in Seq(Nat) /\ 0 <= MaxAnswers
    BY <1>1, ScriptAssumption
  <2> QED
    BY <1>1, <2>1, <2>2 DEF Init, TypeOK
<1>4. Begun /\ OpenOnly
  BY <1>1 DEF Begun, OpenOnly
<1> QED
  BY <1>3, <1>4 DEF Inv

\* Every action keeps the invariant; exit only returns, and what it returns to
\* had begun.
LEMMA StepInv == Inv /\ [Next]_vars => Inv'
<1> SUFFICES ASSUME Inv, [Next]_vars PROVE Inv'
  OBVIOUS
<1> USE DEF reader
<1>0. /\ TypeOK
      /\ ec \in Codes /\ last \in Codes /\ running \in BOOLEAN /\ errexit \in BOOLEAN
      /\ ended \in {"no", "returned", "replaced"}
      /\ answers \in Seq(Nat) /\ Len(answers) <= MaxAnswers
      /\ stack \in Seq(Frames)
      /\ script' = script => Lines' = Lines
  BY DEF Inv, TypeOK, Codes, Frames, Lines
<1>r. /\ Lines \in Seq([node : Nodes, heredocs : Nat]) /\ Len(Lines) \in Nat
      /\ pos \in 0..Len(Lines) /\ temps \in Nat
  BY <1>0, ReadTypes
<1>t. ASSUME stack # <<>>
      PROVE  /\ Top \in Frames /\ Top.at \in Nat
             /\ Top.node \in Nodes /\ Top.node.kids \in Seq(Nodes) /\ Kids \in Nat
  <2>1. Top \in Frames
    BY <1>0, <1>t, Popped DEF Top
  <2>2. Top.node \in Nodes /\ Top.at \in Nat
    BY <2>1 DEF Frames
  <2>3. Top.node.kids \in Seq(Nodes)
    BY <2>2, NodeAssumption
  <2> QED
    BY <2>1, <2>2, <2>3 DEF Kids
<1>s. Statuses \subseteq Nat /\ 0 \in Codes /\ 1 \in Codes /\ 126 \in Codes /\ 127 \in Codes
      /\ Statuses \subseteq Codes /\ Codes \subseteq Nat
  BY ScriptAssumption DEF Codes
<1>1. CASE ReadLine
  <2>1. pos < Len(Lines)
    BY <1>1, <1>r DEF ReadLine, NoLine
  <2>2. Lines[pos + 1] \in [node : Nodes, heredocs : Nat]
    <3>1. pos + 1 \in 1..Len(Lines)
      BY <2>1, <1>r
    <3> DEFINE S == [node : Nodes, heredocs : Nat]
    <3>2. Lines \in Seq(S)
      BY <1>r
    <3> HIDE DEF S
    <3>3. Lines[pos + 1] \in S
      BY <3>1, <3>2
    <3> QED
      BY <3>3 DEF S
  <2>3. pos' \in 0..Len(Lines) /\ temps' \in Nat
    BY <2>1, <2>2, <1>1, <1>r DEF ReadLine
  <2>4. stack' \in Seq(Frames) /\ Len(stack') \in {0, 1}
    <3> DEFINE f == [node |-> Lines[pos + 1].node, at |-> 0]
    <3>1. f \in Frames
      BY <2>2 DEF Frames
    <3>2. stack' = <<>> \/ stack' = <<f>>
      BY <1>1 DEF ReadLine
    <3> HIDE DEF f
    <3>3. <<f>> \in Seq(Frames) /\ Len(<<f>>) = 1
      BY <3>1
    <3>4. <<>> \in Seq(Frames) /\ Len(<<>>) = 0
      OBVIOUS
    <3>5. CASE stack' = <<>>
      BY <3>4, <3>5
    <3>6. CASE stack' = <<f>>
      BY <3>3, <3>6
    <3> QED
      BY <3>2, <3>5, <3>6
  <2>5. Begun'
    <3>1. ASSUME NEW i \in 1..Len(stack') - 1 PROVE FALSE
      <4>1. CASE Len(stack') = 0
        BY <4>1
      <4>2. CASE Len(stack') = 1
        BY <4>2
      <4> QED
        BY <2>4, <4>1, <4>2
    <3> QED
      BY <3>1 DEF Begun
  <2>6. OpenOnly'
    BY <1>1 DEF ReadLine, OpenOnly
  <2>7. TypeOK'
    BY <2>3, <2>4, <1>0, <1>1, TypesNext DEF ReadLine
  <2> QED
    BY <2>5, <2>6, <2>7 DEF Inv
<1>2. CASE Return
  <2>1. TypeOK'
    BY <1>0, <1>r, <1>2, TypesNext DEF Return
  <2>2. Begun' /\ OpenOnly'
    BY <1>2 DEF Return, Inv, Begun, OpenOnly
  <2> QED
    BY <2>1, <2>2 DEF Inv
<1>3. CASE SkipMissing
  <2>1. stack # <<>> /\ stack' = Front(stack)
    BY <1>3 DEF SkipMissing, At
  <2>2. stack' \in Seq(Frames) /\ Begun' /\ OpenOnly'
    BY <2>1, ReturnKeeps
  <2>3. TypeOK'
    BY <2>2, <1>0, <1>r, <1>3, TypesNext DEF SkipMissing
  <2> QED
    BY <2>2, <2>3 DEF Inv
<1>4. CASE RunCommand
  <2>1. stack # <<>>
    BY <1>4 DEF RunCommand, At
  <2>2. PICK v \in Statuses : Finish(v) /\ Answer(v)
    BY <1>4 DEF RunCommand
  <2>3. v \in Codes /\ v \in Nat
    BY <1>s
  <2>4. /\ stack' \in Seq(Frames) /\ Begun' /\ OpenOnly'
        /\ ec' \in Codes /\ last' \in Codes
    BY <2>1, <2>2, <2>3, Returned
  <2>5. answers' \in Seq(Nat) /\ Len(answers') <= MaxAnswers
    BY <2>2, <2>3, <1>0, Answered
  <2>6. TypeOK'
    BY <2>4, <2>5, <1>0, <1>r, <1>4, TypesNext DEF RunCommand
  <2> QED
    BY <2>4, <2>6 DEF Inv
<1>5. CASE RunExit
  <2>1. stack # <<>>
    BY <1>5 DEF RunExit, At
  <2>2. PICK v \in Statuses \cup {last} : Finish(v) /\ Answer(v)
    BY <1>5 DEF RunExit
  <2>3. v \in Codes /\ v \in Nat
    BY <1>s, <1>0
  <2>4. /\ stack' \in Seq(Frames) /\ Begun' /\ OpenOnly'
        /\ ec' \in Codes /\ last' \in Codes
    BY <2>1, <2>2, <2>3, Returned
  <2>5. answers' \in Seq(Nat) /\ Len(answers') <= MaxAnswers
    BY <2>2, <2>3, <1>0, Answered
  <2>6. TypeOK'
    BY <2>4, <2>5, <1>0, <1>r, <1>5, TypesNext DEF RunExit
  <2> QED
    BY <2>4, <2>6 DEF Inv
<1>6. CASE RunSet
  <2>1. stack # <<>> /\ Finish(0)
    BY <1>6 DEF RunSet, At
  <2>2. PICK v \in {0, 1} : errexit' = (v = 1) /\ Answer(v)
    BY <1>6 DEF RunSet
  <2>4. /\ stack' \in Seq(Frames) /\ Begun' /\ OpenOnly'
        /\ ec' \in Codes /\ last' \in Codes
    BY <2>1, <1>s, Returned
  <2>5. answers' \in Seq(Nat) /\ Len(answers') <= MaxAnswers
    BY <2>2, <1>0, Answered
  <2>6. TypeOK'
    BY <2>2, <2>4, <2>5, <1>0, <1>r, <1>6, TypesNext DEF RunSet
  <2> QED
    BY <2>4, <2>6 DEF Inv
<1>7. CASE RunExec
  <2>1. stack # <<>>
    BY <1>7 DEF RunExec, At
  <2>2. CASE Answer(0) /\ ended' = "replaced" /\ stack' = <<>> /\ UNCHANGED <<ec, last, running>>
    <3>1. answers' \in Seq(Nat) /\ Len(answers') <= MaxAnswers
      BY <2>2, <1>0, Answered
    <3>2. TypeOK'
      BY <2>2, <3>1, <1>0, <1>r, <1>7, TypesNext DEF RunExec
    <3>3. Begun' /\ OpenOnly'
      BY <2>2 DEF Begun, OpenOnly
    <3> QED
      BY <3>2, <3>3 DEF Inv
  <2>3. CASE Answer(126) /\ Finish(126) /\ running' = FALSE /\ ended' = ended
    <3>1. answers' \in Seq(Nat) /\ Len(answers') <= MaxAnswers
      BY <2>3, <1>0, Answered
    <3>2. /\ stack' \in Seq(Frames) /\ Begun' /\ OpenOnly'
          /\ ec' \in Codes /\ last' \in Codes
      BY <2>1, <2>3, <1>s, Returned
    <3>3. TypeOK'
      BY <2>3, <3>1, <3>2, <1>0, <1>r, <1>7, TypesNext DEF RunExec
    <3> QED
      BY <3>2, <3>3 DEF Inv
  <2> QED
    BY <2>2, <2>3, <1>7 DEF RunExec
<1>8. CASE RunRead
  <2>1. stack # <<>>
    BY <1>8 DEF RunRead, At
  <2>2. PICK v \in {0, 1} : Finish(v) /\ Answer(v) /\ pos' \in 0..Len(Lines)
    BY <1>8, <1>r DEF RunRead
  <2>4. /\ stack' \in Seq(Frames) /\ Begun' /\ OpenOnly'
        /\ ec' \in Codes /\ last' \in Codes
    BY <2>1, <2>2, <1>s, Returned
  <2>5. answers' \in Seq(Nat) /\ Len(answers') <= MaxAnswers
    BY <2>2, <1>0, Answered
  <2>6. TypeOK'
    BY <2>2, <2>4, <2>5, <1>0, <1>r, <1>8, TypesNext DEF RunRead
  <2> QED
    BY <2>4, <2>6 DEF Inv
<1>9. CASE RunDot
  <2>1. stack # <<>> /\ Top.node.type = "dot" /\ Top.node.type \notin Simple
    BY <1>9 DEF RunDot, Simple
  <2>2. CASE Finish(127) /\ Answer(0)
    <3>1. stack' \in Seq(Frames) /\ Begun' /\ OpenOnly' /\ ec' \in Codes /\ last' \in Codes
      BY <2>1, <2>2, <1>s, Returned
    <3>2. answers' \in Seq(Nat) /\ Len(answers') <= MaxAnswers
      BY <2>2, <1>0, Answered
    <3> QED
      BY <3>1, <3>2, <1>9, Settled DEF RunDot
  <2>3. CASE Answer(1) /\ stack' = Front(stack) \o <<[Top EXCEPT !.at = 1]>> /\ UNCHANGED <<ec, last>>
    <3>1. stack' \in Seq(Frames) /\ Begun' /\ OpenOnly'
      BY <2>1, <2>3, TurnKeeps
    <3>2. answers' \in Seq(Nat) /\ Len(answers') <= MaxAnswers
      BY <2>3, <1>0, Answered
    <3> QED
      BY <3>1, <3>2, <2>3, <1>0, <1>9, Settled DEF RunDot
  <2>4. CASE /\ Top.at \in 1..Kids /\ running
             /\ Execute(Top.at, Top.at + 1) /\ UNCHANGED <<ec, last, answers>>
    <3>1. Top.at + 1 \in Nat /\ Top.at + 1 > 0 /\ running' = running
      BY <2>1, <1>t, <1>9 DEF RunDot
    <3>2. stack' \in Seq(Frames) /\ Begun' /\ OpenOnly'
      BY <2>1, <2>4, <3>1, ExecuteKeeps
    <3> QED
      BY <3>2, <2>4, <1>0, <1>9, Settled DEF RunDot
  <2>5. CASE Finish(last) /\ UNCHANGED answers
    <3>1. stack' \in Seq(Frames) /\ Begun' /\ OpenOnly' /\ ec' \in Codes /\ last' \in Codes
      BY <2>1, <2>5, <1>0, Returned
    <3> QED
      BY <3>1, <2>5, <1>0, <1>9, Settled DEF RunDot
  <2> QED
    BY <2>2, <2>3, <2>4, <2>5, <1>9 DEF RunDot
<1>10. CASE RunList
  <2>1. stack # <<>> /\ Top.node.type = "seq" /\ Top.node.type \notin Simple
    BY <1>10 DEF RunList, Simple
  <2>2. CASE running /\ Top.at < Kids /\ Execute(Top.at + 1, Top.at + 1) /\ UNCHANGED <<ec, last>>
    <3>1. Top.at + 1 \in 1..Kids /\ Top.at + 1 \in Nat /\ Top.at + 1 > 0 /\ running' = running
      BY <2>1, <2>2, <1>t, <1>10 DEF RunList
    <3>2. stack' \in Seq(Frames) /\ Begun' /\ OpenOnly'
      BY <2>1, <2>2, <3>1, ExecuteKeeps
    <3> QED
      BY <3>2, <2>2, <1>0, <1>10, Settled DEF RunList
  <2>3. CASE Finish(IF Top.at = 0 THEN 0 ELSE ec)
    <3>1. stack' \in Seq(Frames) /\ Begun' /\ OpenOnly' /\ ec' \in Codes /\ last' \in Codes
      BY <2>1, <2>3, <1>0, <1>s, Returned
    <3> QED
      BY <3>1, <1>0, <1>10, Settled DEF RunList
  <2> QED
    BY <2>1, <2>2, <2>3, <1>t, <1>10 DEF RunList
<1>11. CASE RunAndOr
  <2>1. /\ stack # <<>> /\ Top.node.type \in {"and", "or"}
        /\ Top.node.type \notin Simple /\ Top.node.type \in Unstoppable
    BY <1>11 DEF RunAndOr, Simple, Unstoppable
  <2>2. CASE Top.at \in {0, 1} /\ Execute(Top.at + 1, Top.at + 1) /\ UNCHANGED <<ec, last>>
    <3>1. Kids = 2
      BY <2>1, <1>t, NodeAssumption DEF Kids
    <3>2. Top.at + 1 \in 1..Kids /\ Top.at + 1 \in Nat /\ Top.at + 1 > 0 /\ running' = running
      BY <2>2, <3>1, <1>11 DEF RunAndOr
    <3>3. stack' \in Seq(Frames) /\ Begun' /\ OpenOnly'
      BY <2>1, <2>2, <3>2, ExecuteKeeps
    <3> QED
      BY <3>3, <2>2, <1>0, <1>11, Settled DEF RunAndOr
  <2>3. CASE Finish(ec)
    <3>1. stack' \in Seq(Frames) /\ Begun' /\ OpenOnly' /\ ec' \in Codes /\ last' \in Codes
      BY <2>1, <2>3, <1>0, Returned
    <3> QED
      BY <3>1, <1>0, <1>11, Settled DEF RunAndOr
  <2> QED
    BY <2>2, <2>3, <1>11 DEF RunAndOr
<1>12. CASE RunIf
  <2>1. /\ stack # <<>> /\ Top.node.type = "if"
        /\ Top.node.type \notin Simple /\ Top.node.type \in Unstoppable
    BY <1>12 DEF RunIf, Simple, Unstoppable
  <2>2. ASSUME NEW k \in Nat, k > 0, k <= Kids, Execute(k, k), UNCHANGED <<ec, last>>
        PROVE  Inv'
    <3>1. k \in 1..Kids /\ running' = running
      BY <2>1, <2>2, <1>t, <1>12 DEF RunIf
    <3>2. stack' \in Seq(Frames) /\ Begun' /\ OpenOnly'
      BY <2>1, <2>2, <3>1, ExecuteKeeps
    <3> QED
      BY <3>2, <2>2, <1>0, <1>12, Settled DEF RunIf
  <2>3. CASE Finish(ec)
    <3>1. stack' \in Seq(Frames) /\ Begun' /\ OpenOnly' /\ ec' \in Codes /\ last' \in Codes
      BY <2>1, <2>3, <1>0, Returned
    <3> QED
      BY <3>1, <1>0, <1>12, Settled DEF RunIf
  <2> DEFINE k == CASE Top.at = 0 -> 1
                    [] IsCondition(Top.at) /\ ec = 0 -> Top.at + 1
                    [] IsCondition(Top.at) /\ ec # 0 -> Top.at + 2
                    [] OTHER -> Kids + 1
  <2>4. k \in Nat /\ k > 0
    BY <2>1, <1>t
  <2>5. \/ k <= Kids /\ Execute(k, k) /\ UNCHANGED <<ec, last>>
        \/ Finish(ec)
    BY <1>12 DEF RunIf
  <2> HIDE DEF k
  <2> QED
    BY <2>2, <2>3, <2>4, <2>5
<1>13. CASE RunLoop
  <2>1. /\ stack # <<>> /\ Top.node.type \in Loops
        /\ Top.node.type \notin Simple /\ Top.node.type \in Unstoppable
    BY <1>13 DEF RunLoop, Simple, Unstoppable, Loops
  <2>2. ASSUME NEW kid \in {1, 2}, Execute(kid, kid), UNCHANGED <<ec, last>>
        PROVE  Inv'
    <3>1. Kids = 2
      BY <2>1, <1>t, NodeAssumption DEF Kids
    <3>2. kid \in 1..Kids /\ kid \in Nat /\ kid > 0 /\ running' = running
      BY <3>1, <1>13 DEF RunLoop
    <3>3. stack' \in Seq(Frames) /\ Begun' /\ OpenOnly'
      BY <2>1, <2>2, <3>2, ExecuteKeeps
    <3> QED
      BY <3>3, <2>2, <1>0, <1>13, Settled DEF RunLoop
  <2>3. CASE Finish(ec)
    <3>1. stack' \in Seq(Frames) /\ Begun' /\ OpenOnly' /\ ec' \in Codes /\ last' \in Codes
      BY <2>1, <2>3, <1>0, Returned
    <3> QED
      BY <3>1, <1>0, <1>13, Settled DEF RunLoop
  <2>4. \/ Execute(1, 1) /\ UNCHANGED <<ec, last>>
        \/ Execute(2, 2) /\ UNCHANGED <<ec, last>>
        \/ Finish(ec)
    BY <1>13 DEF RunLoop
  <2> QED
    BY <2>2, <2>3, <2>4
<1>14. CASE RunFor
  <2>1. /\ stack # <<>> /\ Top.node.type = "for"
        /\ Top.node.type \notin Simple /\ Top.node.type \in Unstoppable
    BY <1>14 DEF RunFor, Simple, Unstoppable
  <2> DEFINE status == IF Top.at = 0 THEN 0 ELSE ec
  <2>2. status \in Codes
    BY <1>0, <1>s
  <2>3. CASE Answer(0) /\ Finish(status)
    <3>1. stack' \in Seq(Frames) /\ Begun' /\ OpenOnly' /\ ec' \in Codes /\ last' \in Codes
      BY <2>1, <2>2, <2>3, Returned
    <3>2. answers' \in Seq(Nat) /\ Len(answers') <= MaxAnswers
      BY <2>3, <1>0, Answered
    <3> QED
      BY <3>1, <3>2, <1>14, Settled DEF RunFor
  <2>4. CASE Answer(1) /\ Execute(1, Top.at + 1) /\ ec' = status /\ last' = last
    <3>1. Kids = 1
      BY <2>1, <1>t, NodeAssumption DEF Kids
    <3>2. 1 \in 1..Kids /\ Top.at + 1 \in Nat /\ Top.at + 1 > 0 /\ running' = running
      BY <2>1, <3>1, <1>t, <1>14 DEF RunFor
    <3>3. stack' \in Seq(Frames) /\ Begun' /\ OpenOnly'
      BY <2>1, <2>4, <3>2, ExecuteKeeps
    <3>4. answers' \in Seq(Nat) /\ Len(answers') <= MaxAnswers
      BY <2>4, <1>0, Answered
    <3> QED
      BY <3>3, <3>4, <2>2, <2>4, <1>0, <1>14, Settled DEF RunFor
  <2> QED
    BY <2>3, <2>4, <1>14 DEF RunFor
<1>15. CASE RunCase
  <2>1. stack # <<>> /\ Top.node.type = "case" /\ Top.node.type \notin Simple
    BY <1>15 DEF RunCase, Simple
  <2>2. CASE Answer(0) /\ Finish(0)
    <3>1. stack' \in Seq(Frames) /\ Begun' /\ OpenOnly' /\ ec' \in Codes /\ last' \in Codes
      BY <2>1, <2>2, <1>s, Returned
    <3>2. answers' \in Seq(Nat) /\ Len(answers') <= MaxAnswers
      BY <2>2, <1>0, Answered
    <3> QED
      BY <3>1, <3>2, <1>15, Settled DEF RunCase
  <2>3. ASSUME Top.at = 0, NEW k \in 1..Kids, Answer(k), Execute(k, k), ec' = 0, last' = last
        PROVE  Inv'
    <3>1. k \in Nat /\ k > 0 /\ running' = running
      BY <2>1, <1>t, <1>15 DEF RunCase
    <3>2. stack' \in Seq(Frames) /\ Begun' /\ OpenOnly'
      BY <2>1, <2>3, <3>1, ExecuteKeeps
    <3>3. answers' \in Seq(Nat) /\ Len(answers') <= MaxAnswers
      BY <2>3, <3>1, <1>0, Answered
    <3> QED
      BY <3>2, <3>3, <2>3, <1>0, <1>s, <1>15, Settled DEF RunCase
  <2>4. CASE Finish(ec) /\ UNCHANGED answers
    <3>1. stack' \in Seq(Frames) /\ Begun' /\ OpenOnly' /\ ec' \in Codes /\ last' \in Codes
      BY <2>1, <2>4, <1>0, Returned
    <3> QED
      BY <3>1, <2>4, <1>0, <1>15, Settled DEF RunCase
  <2> QED
    BY <2>2, <2>3, <2>4, <1>15 DEF RunCase
<1>16. CASE UNCHANGED vars
  BY <1>16 DEF Inv, TypeOK, Begun, OpenOnly, Top, vars, Lines, Waits, Enclosed
<1> QED
  BY <1>1, <1>2, <1>3, <1>4, <1>5, <1>6, <1>7, <1>8, <1>9, <1>10, <1>11, <1>12, <1>13,
     <1>14, <1>15, <1>16 DEF Next, Step, Stop

----------------------------------------------------------------------------
THEOREM InvAlways == Spec => []Inv
BY InitInv, StepInv, PTL DEF Spec

\* Every variable stays in its range: the reader within its script, and the stack
\* made of nodes of that script.
THEOREM TypeCorrect == Spec => []TypeOK
<1>1. Inv => TypeOK
  BY DEF Inv
<1> QED
  BY <1>1, InvAlways, PTL

\* After exit only what was begun inside a condition, a loop or a chain of && and
\* || goes on, in any script whatever its commands do.
THEOREM ExitStops == Spec => []OnlyOpenGoOn
<1>1. Inv => OnlyOpenGoOn
  BY DEF Inv, OpenOnly, OnlyOpenGoOn, Waits, Enclosed
<1> QED
  BY <1>1, InvAlways, PTL

----------------------------------------------------------------------------
\* A shell that has ended executes nothing, and so makes no more files.
OverInv == (ended # "no" => stack = <<>>) /\ NoFilesLeft

\* No file of a here-document is left by a shell started without arguments.
THEOREM NoHeredocLeft == Spec => []NoFilesLeft
<1>1. Init => OverInv
  BY DEF Init, OverInv, NoFilesLeft
<1>2. OverInv /\ [Next]_vars => OverInv'
  <2> SUFFICES ASSUME OverInv, [Next]_vars PROVE OverInv'
    OBVIOUS
  <2>1. CASE ended # "no"
    <3>1. UNCHANGED vars
      BY <2>1 DEF OverInv, Next, Step, Stop, At, ReadLine, Return, SkipMissing, RunCommand,
         RunExit, RunSet, RunExec, RunRead, RunDot, RunList, RunAndOr, RunIf, RunLoop, RunFor,
         RunCase
    <3> QED
      BY <3>1 DEF OverInv, NoFilesLeft, vars
  <2>2. CASE ended = "no"
    <3>1. CASE ended' = "no"
      BY <3>1 DEF OverInv, NoFilesLeft
    <3>2. CASE Return
      BY <3>2 DEF Return, OverInv, NoFilesLeft
    <3>3. CASE RunExec
      BY <3>3, <2>2 DEF RunExec, OverInv, NoFilesLeft
    <3> QED
      BY <2>2, <3>1, <3>2, <3>3 DEF Next, Step, Stop, vars, reader, ReadLine, SkipMissing,
         RunCommand, RunExit, RunSet, RunRead, RunDot, RunList, RunAndOr, RunIf, RunLoop,
         RunFor, RunCase
  <2> QED
    BY <2>1, <2>2
<1>3. OverInv => NoFilesLeft
  BY DEF OverInv
<1> QED
  BY <1>1, <1>2, <1>3, PTL DEF Spec
=============================================================================
