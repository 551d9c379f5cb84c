---------------------------- MODULE ProbesProofs ----------------------------
(***************************************************************************)
(* Proofs about Probes, for any command lines, clock and bounds: the       *)
(* typing invariant, that probes and verdicts come when they are due, and  *)
(* that the loss told is the loss there was.                               *)
(***************************************************************************)
EXTENDS Probes, FiniteSetTheorems, SequenceTheorems, TLAPS

Waiting == [seq : Nat, deadline : Nat]
Packet == [kind : {"answer", "claim", "stray"}, seq : Nat]
IsAnswer(i) == queue[i].kind = "answer"

\* Who waits where, and that what is heard of was sent.
Sound ==
    /\ pc = "drain" => IsPing
    /\ pc = "hear" => ~IsPing
    /\ Len(sent) <= MaxProbes
    /\ heard \subseteq 1..Len(sent)
    /\ \A i \in 1..Len(queue) : IF IsAnswer(i) THEN queue[i].seq \in 1..Len(sent) ELSE others > 0

Ascending(w) == \A i, j \in 1..Len(w) : i < j => w[i].seq < w[j].seq

\* ping waits for the probes without an answer, and possibly for others.
Waits ==
    /\ Ascending(outstanding)
    /\ \A i \in 1..Len(outstanding) : outstanding[i].seq <= Len(sent)
    /\ IsPing => \A k \in 1..Len(sent) : k \in heard \/ \E i \in 1..Len(outstanding) : outstanding[i].seq = k

\* Without doubles an answer is in one place of the queue, or was heard.
Once ==
    Undoubled =>
        /\ IsPing => received = Cardinality(heard)
        /\ \A k \in heard : answers[k] = 1
        /\ \A i \in 1..Len(queue) :
              IsAnswer(i) => queue[i].seq \notin heard /\ answers[queue[i].seq] = 1
        /\ \A i, j \in 1..Len(queue) :
              IsAnswer(i) /\ IsAnswer(j) /\ queue[i].seq = queue[j].seq => i = j

Told == pc = "done" /\ IsPing => lost = (Len(sent) - received) % SizeMod

\* The time at which ping enters its loop, and until which it waits.
Schedule ==
    IsPing /\ job.interval <= MaxInt =>
        /\ \A k \in 1..Len(sent) : sent[k] = (k - 1) * job.interval
        /\ pc = "loop" /\ Left(Len(sent)) => now = Len(sent) * job.interval
        /\ pc = "drain" /\ Left(Len(sent)) => more
        /\ pc = "drain" /\ more =>
              until = Len(sent) * job.interval /\ now <= until /\ until - now <= job.interval

\* What excuses a verdict: it is due, or nothing is missing, or it was cut short.
Excused ==
    \/ stop \/ failed \/ job.wait > MaxInt
    \/ (1..Len(sent)) \subseteq heard
    \/ ~IsPing /\ (found \/ others > 0)
    \/ now >= sent[Len(sent)] + job.wait

Deadlines ==
    /\ pc \in {"report", "done"} => Excused
    /\ pc = "loop" /\ ~Left(Len(sent)) => Excused
    /\ pc \in {"drain", "hear"} => Len(sent) > 0 /\ now >= sent[Len(sent)]
    /\ pc = "drain" /\ ~more => until = sent[Len(sent)] + job.wait
    /\ pc = "drain" /\ ~stop => (more <=> Left(Len(sent)))
    /\ pc = "hear" /\ job.wait <= MaxInt => until = sent[Len(sent)] + job.wait

Inv == TypeOK /\ Sound /\ Waits /\ Once /\ Told /\ Schedule /\ Deadlines

----------------------------------------------------------------------------

\* What Without leaves: every other probe, in their order.
LEMMA WithoutOne ==
    ASSUME NEW w \in Seq(Waiting), Ascending(w), NEW k \in Nat
    PROVE  /\ Without(w, k) \in Seq(Waiting)
           /\ Ascending(Without(w, k))
           /\ \A j \in 1..Len(Without(w, k)) : \E i \in 1..Len(w) : Without(w, k)[j] = w[i]
           /\ \A i \in 1..Len(w) : w[i].seq # k =>
                 \E j \in 1..Len(Without(w, k)) : Without(w, k)[j] = w[i]
PROOF
  <1>1. CASE ~ \E i \in DOMAIN w : w[i].seq = k
    <2>1. Without(w, k) = w  BY <1>1 DEF Without
    <2>2. QED  BY <2>1
  <1>2. CASE \E i \in DOMAIN w : w[i].seq = k
    <2>1. PICK f \in 1..Len(w) : w[f].seq = k  BY <1>2
    <2>2. \A j \in 1..(f - 1) : w[j].seq # k
      <3>1. ASSUME NEW j \in 1..(f - 1)  PROVE w[j].seq # k
        <4>1. j \in 1..Len(w) /\ j < f  BY <2>1
        <4>2. w[j].seq < w[f].seq
          BY <4>1, <2>1 DEF Ascending
        <4>3. w[j] \in Waiting  BY <4>1
        <4>4. w[j].seq \in Nat  BY <4>3 DEF Waiting
        <4>5. QED  BY <4>2, <4>4, <2>1
      <3>2. QED  BY <3>1
    <2>3. /\ First(w, k) \in DOMAIN w /\ w[First(w, k)].seq = k
      BY <2>1, <2>2 DEF First
    <2>4. DEFINE n == First(w, k)
    <2>5. n \in 1..Len(w)  BY <2>3
    <2>6. \A i \in 1..Len(w) : w[i].seq = k => i = n
      <3>1. ASSUME NEW i \in 1..Len(w), w[i].seq = k, i # n  PROVE FALSE
        <4>1. i < n \/ n < i  BY <2>5, <3>1
        <4>2. w[i].seq < w[n].seq \/ w[n].seq < w[i].seq
          BY <4>1, <2>5, <3>1 DEF Ascending
        <4>3. QED  BY <4>2, <3>1, <2>3
      <3>2. QED  BY <3>1
    <2>7. Without(w, k) = [i \in 1..(Len(w) - 1) |-> w[IF i < n THEN i ELSE i + 1]]
      BY <1>2 DEF Without
    <2> DEFINE at(i) == IF i < n THEN i ELSE i + 1
    <2> HIDE DEF n
    <2>8. \A i \in 1..(Len(w) - 1) : at(i) \in 1..Len(w)
      BY <2>5
    <2>9. \A i \in 1..(Len(w) - 1) : Without(w, k)[i] = w[at(i)]
      BY <2>7
    <2>10. /\ Without(w, k) \in Seq(Waiting)
           /\ Len(Without(w, k)) = Len(w) - 1
      <3>1. \A i \in 1..(Len(w) - 1) : w[at(i)] \in Waiting
        BY <2>8
      <3>2. Len(w) - 1 \in Nat  BY <2>5
      <3>3. QED  BY <2>7, <3>1, <3>2
    <2>11. Ascending(Without(w, k))
      <3>1. ASSUME NEW i \in 1..(Len(w) - 1), NEW j \in 1..(Len(w) - 1), i < j
            PROVE  Without(w, k)[i].seq < Without(w, k)[j].seq
        <4>1. at(i) < at(j)  BY <2>5, <3>1
        <4>2. QED  BY <4>1, <2>8, <2>9, <3>1 DEF Ascending
      <3>2. QED  BY <3>1, <2>10 DEF Ascending
    <2>12. ASSUME NEW i \in 1..Len(w), w[i].seq # k
           PROVE  \E j \in 1..(Len(w) - 1) : Without(w, k)[j] = w[i]
      <3>1. i # n  BY <2>3, <2>12 DEF n
      <3>2. CASE i < n
        <4>1. i \in 1..(Len(w) - 1) /\ at(i) = i  BY <2>5, <3>2
        <4>2. QED  BY <4>1, <2>9
      <3>3. CASE i > n
        <4>1. i - 1 \in 1..(Len(w) - 1) /\ at(i - 1) = i  BY <2>5, <3>3
        <4>2. QED  BY <4>1, <2>9
      <3>4. QED  BY <3>1, <3>2, <3>3, <2>5
    <2>13. QED  BY <2>8, <2>9, <2>10, <2>11, <2>12
  <1>3. QED  BY <1>1, <1>2

LEMMA InvInit == Init => Inv
PROOF
  <1> SUFFICES ASSUME Init  PROVE Inv
    OBVIOUS
  <1>1. job \in Jobs /\ MaxProbes \in Nat  BY JobsAssumption DEF Init
  <1>2. <<>> \in Seq(Nat) /\ <<>> \in Seq(Waiting) /\ <<>> \in Seq(Packet) /\ Len(<<>>) = 0
    OBVIOUS
  <1>3. TypeOK  BY <1>1, <1>2 DEF Init, TypeOK, Waiting, Packet
  <1>4. Sound /\ Waits /\ Told  BY <1>1, <1>2 DEF Init, Sound, Waits, Told, Ascending
  <1>5. Once
    <2>1. Cardinality({}) = 0  BY FS_EmptySet
    <2>2. QED  BY <1>2, <2>1 DEF Init, Once
  <1>6. Schedule
    <2>1. IsPing => job.interval \in Nat  BY <1>1, JobsAssumption
    <2>2. Len(sent) * job.interval = 0 \/ ~IsPing  BY <1>2, <2>1 DEF Init
    <2>3. QED  BY <1>2, <2>2 DEF Init, Schedule
  <1>7. Deadlines  BY <1>2 DEF Init, Deadlines, Excused
  <1>8. QED  BY <1>3, <1>4, <1>5, <1>6, <1>7 DEF Inv

\* What a step other than Send leaves of the job and of the probes.
LEMMA Frame ==
    ASSUME [Next]_vars
    PROVE  /\ job' = job
           /\ sent' = sent \/ Send
           /\ outstanding' = outstanding \/ Send \/ Hear
PROOF
  BY DEF Next, Command, Send, SendFails, LoopEnds, WaitEnds, Hear, HearArp, Report, Interrupt,
         Tick, Answer, Stray, Terminated, vars

LEMMA JobType ==
    ASSUME TypeOK
    PROVE  /\ job.tool \in {"ping", "arping", "dad"}
           /\ job.count \in Nat \cup {Forever}
           /\ job.interval \in Nat /\ job.wait \in Nat
PROOF
  BY JobsAssumption DEF TypeOK

\* The type of the end of a wait.
LEMMA UntilType ==
    ASSUME TypeOK, NEW n \in Nat, NEW w \in Seq(Waiting), w # <<>>
    PROVE  DrainUntil(n, w) \in Nat
PROOF
  <1>1. w[Len(w)] \in Waiting
    <2>1. Len(w) \in 1..Len(w)  OBVIOUS
    <2>2. QED  BY <2>1
  <1>2. w[Len(w)].deadline \in Nat  BY <1>1 DEF Waiting
  <1>3. n * job.interval \in Nat  BY JobType
  <1>4. QED  BY <1>2, <1>3 DEF DrainUntil

LEMMA TypeStep ==
    ASSUME TypeOK, Sound, Waits, [Next]_vars
    PROVE  TypeOK'
PROOF
  <1> USE DEF TypeOK, network
  <1>1. CASE Send
    <2>a. Len(sent') = Len(sent) + 1 /\ sent' \in Seq(Nat) /\ pc' \in {"drain", "hear"}
      BY <1>1 DEF Send
    <2>b. more' \in BOOLEAN
      <3>1. \A n : Left(n) \in BOOLEAN  BY DEF Left
      <3>2. more' = more \/ \E n : more' = Left(n)  BY <1>1, Zenon DEF Send
      <3>3. QED  BY <3>1, <3>2
    <2>2. outstanding' \in Seq(Waiting) /\ until' \in Nat \cup {Forever}
      <3>1. CASE IsPing
        <4> DEFINE n == Len(sent) + 1
                   w == Append(outstanding, [seq |-> n, deadline |-> now + job.wait])
        <4>1. [seq |-> n, deadline |-> now + job.wait] \in Waiting
          BY JobType DEF Waiting
        <4>2. w \in Seq(Waiting) /\ w # <<>> /\ n \in Nat
          <5>1. outstanding \in Seq(Waiting)  BY DEF Waiting
          <5>2. w \in Seq(Waiting) /\ w # <<>>  BY <4>1, <5>1, AppendProperties
          <5>3. QED  BY <5>2
        <4>3. outstanding' = w /\ until' = DrainUntil(n, w)
          BY <1>1, <3>1 DEF Send
        <4> HIDE DEF w, n
        <4>4. QED  BY <4>2, <4>3, UntilType
      <3>2. CASE ~IsPing
        BY <1>1, <3>2, JobType DEF Send, Waiting
      <3>3. QED  BY <3>1, <3>2
    <2>3. QED  BY <1>1, <2>a, <2>b, <2>2 DEF Send, Waiting
  <1>2. CASE SendFails \/ LoopEnds \/ WaitEnds \/ Interrupt
    BY <1>2 DEF SendFails, LoopEnds, WaitEnds, Interrupt
  <1>3. CASE Tick
    BY <1>3 DEF Tick
  <1>4. CASE Hear
    <2>c. queue \in Seq(Packet) /\ queue # <<>>
      BY <1>4 DEF Hear, Packet
    <2>1. queue' \in Seq(Packet) /\ Head(queue) \in Packet /\ Head(queue) = queue[1]
      BY <1>4, <2>c, HeadTailProperties DEF Hear
    <2>a. 1 \in 1..Len(queue)
      BY <1>4 DEF Hear
    <2>b. IsAnswer(1) => queue[1].seq \in 1..MaxProbes
      BY <2>a, JobsAssumption DEF Sound
    <2>2. Head(queue).seq \in Nat  BY <2>1 DEF Packet
    <2>3. outstanding' \in Seq(Waiting)
      BY <1>4, <2>2, WithoutOne DEF Hear, Waits, Waiting
    <2>4. heard' \subseteq 1..MaxProbes
      BY <1>4, <2>1, <2>b DEF Hear, IsAnswer
    <2>5. received' \in Nat /\ pc' \in {"loop", "drain"}
      BY <1>4 DEF Hear
    <2>6. QED  BY <1>4, <2>1, <2>3, <2>4, <2>5 DEF Hear, Waiting, Packet
  <1>5. CASE HearArp
    <2>1. queue' \in Seq(Packet) /\ Head(queue) = queue[1]
      BY <1>5 DEF HearArp, Packet
    <2>a. 1 \in 1..Len(queue)
      BY <1>5 DEF HearArp
    <2>b. IsAnswer(1) => queue[1].seq \in 1..MaxProbes
      BY <2>a, JobsAssumption DEF Sound
    <2>2. heard' \subseteq 1..MaxProbes
      BY <1>5, <2>1, <2>b DEF HearArp, IsAnswer
    <2>3. found' \in BOOLEAN /\ pc' \in {"report", "loop"}
      BY <1>5 DEF HearArp
    <2>4. QED  BY <1>5, <2>1, <2>2, <2>3 DEF HearArp, Packet
  <1>6. CASE Report
    <2>1. lost' \in Nat
      <3>1. \A x \in Int : x % SizeMod \in Nat  BY JobsAssumption
      <3>2. Len(sent) - received \in Int  OBVIOUS
      <3>3. QED  BY <1>6, <3>1, <3>2 DEF Report
    <2>2. code' \in {0, 1}
      BY <1>6, JobType DEF Report, IsPing
    <2>3. QED  BY <1>6, <2>1, <2>2 DEF Report
  <1>7. CASE Answer
    <2>1. PICK k \in 1..Len(sent) :
             /\ answers' = [answers EXCEPT ![k] = @ + 1]
             /\ queue' = Append(queue, [kind |-> "answer", seq |-> k])
      BY <1>7 DEF Answer
    <2>2. [kind |-> "answer", seq |-> k] \in Packet  BY DEF Packet
    <2>3. queue' \in Seq(Packet)  BY <2>1, <2>2 DEF Packet
    <2>4. answers' \in [1..MaxProbes -> Nat]  BY <2>1, JobsAssumption DEF Sound
    <2>5. QED  BY <1>7, <2>3, <2>4 DEF Answer, Packet
  <1>8. CASE Stray
    <2>1. PICK kind \in {"claim", "stray"} : queue' = Append(queue, [kind |-> kind, seq |-> 0])
      BY <1>8 DEF Stray
    <2>2. [kind |-> kind, seq |-> 0] \in Packet  BY DEF Packet
    <2>3. queue' \in Seq(Packet)  BY <2>1, <2>2 DEF Packet
    <2>4. QED  BY <1>8, <2>3 DEF Stray, Packet
  <1>9. CASE UNCHANGED vars
    BY <1>9 DEF vars
  <1>10. QED
    BY <1>1, <1>2, <1>3, <1>4, <1>5, <1>6, <1>7, <1>8, <1>9 DEF Next, Command, Terminated

----------------------------------------------------------------------------

\* What the three kinds of steps do to the packets.
Quiet == UNCHANGED <<queue, heard, answers, others, received>>

Arrives(p) ==
    /\ p \in Packet
    /\ queue' \in Seq(Packet) /\ Len(queue') = Len(queue) + 1
    /\ \A i \in 1..Len(queue) : queue'[i] = queue[i]
    /\ queue'[Len(queue) + 1] = p
    /\ heard' = heard /\ received' = received /\ pc' = pc
    /\ IF p.kind = "answer"
       THEN p.seq \in 1..Len(sent) /\ answers' = [answers EXCEPT ![p.seq] = @ + 1] /\ others' = others
       ELSE answers' = answers /\ others' = others + 1

Reads ==
    /\ Len(queue) > 0 /\ Len(queue') = Len(queue) - 1
    /\ \A i \in 1..Len(queue') : queue'[i] = queue[i + 1]
    /\ answers' = answers /\ others' = others
    /\ heard' = IF IsAnswer(1) THEN heard \cup {queue[1].seq} ELSE heard
    /\ IsPing => received' = IF IsAnswer(1) THEN received + 1 ELSE received

LEMMA Traffic ==
    ASSUME TypeOK, Sound, [Next]_vars
    PROVE  \/ Quiet
           \/ sent' = sent /\ \E p \in Packet : Arrives(p)
           \/ sent' = sent /\ Reads
PROOF
  <1>q. queue \in Seq(Packet)  BY DEF TypeOK, Packet
  <1>1. CASE Send \/ SendFails \/ LoopEnds \/ WaitEnds \/ Interrupt \/ Tick \/ Report \/ UNCHANGED vars
    BY <1>1 DEF Send, SendFails, LoopEnds, WaitEnds, Interrupt, Tick, Report, vars, network, Quiet
  <1>2. CASE Answer
    <2>1. PICK k \in 1..Len(sent) :
             /\ answers' = [answers EXCEPT ![k] = @ + 1]
             /\ queue' = Append(queue, [kind |-> "answer", seq |-> k])
      BY <1>2 DEF Answer
    <2> DEFINE p == [kind |-> "answer", seq |-> k]
    <2>2. p \in Packet /\ p.kind = "answer" /\ p.seq = k  BY DEF Packet
    <2> HIDE DEF p
    <2>3. Arrives(p)
      <3>1. queue' = Append(queue, p)  BY <2>1 DEF p
      <3>2. /\ queue' \in Seq(Packet) /\ Len(queue') = Len(queue) + 1
            /\ \A i \in 1..Len(queue) : queue'[i] = queue[i]
            /\ queue'[Len(queue) + 1] = p
        BY <1>q, <2>2, <3>1, AppendProperties
      <3>3. answers' = [answers EXCEPT ![p.seq] = @ + 1]  BY <2>1, <2>2
      <3>4. QED  BY <1>2, <2>2, <3>2, <3>3 DEF Answer, Arrives
    <2>4. QED  BY <1>2, <2>2, <2>3 DEF Answer
  <1>3. CASE Stray
    <2>1. PICK kind \in {"claim", "stray"} : queue' = Append(queue, [kind |-> kind, seq |-> 0])
      BY <1>3 DEF Stray
    <2> DEFINE p == [kind |-> kind, seq |-> 0]
    <2>2. p \in Packet /\ p.kind # "answer"  BY DEF Packet
    <2> HIDE DEF p
    <2>3. Arrives(p)
      <3>1. queue' = Append(queue, p)  BY <2>1 DEF p
      <3>2. QED  BY <1>3, <1>q, <2>1, <2>2, <3>1, AppendProperties DEF Stray, Arrives
    <2>4. QED  BY <1>3, <2>2, <2>3 DEF Stray
  <1>4. CASE Hear \/ HearArp
    <2>1. queue # <<>> /\ queue' = Tail(queue) /\ Head(queue) = queue[1]
      BY <1>4 DEF Hear, HearArp
    <2>2. /\ Len(queue) > 0 /\ Len(queue') = Len(queue) - 1
          /\ \A i \in 1..Len(queue') : queue'[i] = queue[i + 1]
      BY <1>q, <2>1, HeadTailProperties
    <2>3. QED
      BY <1>4, <2>1, <2>2 DEF Hear, HearArp, Sound, Reads, IsAnswer
  <1>5. QED
    BY <1>1, <1>2, <1>3, <1>4 DEF Next, Command, Terminated

\* Probes are only added.
LEMMA SentStep ==
    ASSUME TypeOK, [Next]_vars
    PROVE  /\ Len(sent') >= Len(sent) /\ \A k \in 1..Len(sent) : sent'[k] = sent[k]
           /\ Send => /\ Len(sent') = Len(sent) + 1 /\ sent'[Len(sent) + 1] = now
                      /\ Len(sent') <= MaxProbes
           /\ ~Send => sent' = sent
PROOF
  <1>1. sent \in Seq(Nat) /\ now \in Nat  BY DEF TypeOK
  <1>2. CASE Send
    <2>1. sent' = Append(sent, now) /\ Len(sent) < MaxProbes  BY <1>2 DEF Send
    <2>2. QED  BY <1>1, <1>2, <2>1, AppendProperties, JobsAssumption
  <1>3. CASE ~Send
    BY <1>1, <1>3, Frame
  <1>4. QED  BY <1>2, <1>3

LEMMA SoundStep ==
    ASSUME TypeOK, Sound, [Next]_vars
    PROVE  Sound'
PROOF
  <1>1. job' = job  BY Frame
  <1>2. (pc' = "drain" => IsPing) /\ (pc' = "hear" => ~IsPing)
    BY DEF Sound, Next, Command, Send, SendFails, LoopEnds, WaitEnds, Hear, HearArp, Report,
           Interrupt, Tick, Answer, Stray, Terminated, vars
  <1>3. Len(sent') <= MaxProbes
    BY SentStep DEF Sound
  <1>4. 1..Len(sent) \subseteq 1..Len(sent') /\ Len(sent) \in Nat /\ Len(queue) \in Nat /\ others \in Nat
    BY SentStep DEF TypeOK
  <1>5. CASE Quiet
    BY <1>1, <1>2, <1>3, <1>4, <1>5 DEF Sound, IsPing, IsAnswer, Quiet
  <1>6. CASE sent' = sent /\ \E p \in Packet : Arrives(p)
    <2>1. PICK p \in Packet : Arrives(p)  BY <1>6
    <2>2. ASSUME NEW i \in 1..(Len(queue) + 1)
          PROVE  IF queue'[i].kind = "answer" THEN queue'[i].seq \in 1..Len(sent) ELSE others' > 0
      <3>1. CASE i = Len(queue) + 1  BY <1>4, <2>1, <3>1 DEF Arrives
      <3>2. CASE i \in 1..Len(queue)  BY <1>4, <2>1, <3>2 DEF Arrives, Sound, IsAnswer
      <3>3. QED  BY <1>4, <3>1, <3>2
    <2>3. QED
      BY <1>1, <1>2, <1>3, <1>4, <1>6, <2>1, <2>2 DEF Sound, IsPing, IsAnswer, Arrives
  <1>7. CASE sent' = sent /\ Reads
    <2>1. ASSUME NEW i \in 1..Len(queue')
          PROVE  IF queue'[i].kind = "answer" THEN queue'[i].seq \in 1..Len(sent) ELSE others' > 0
      <3>1. i + 1 \in 1..Len(queue)  BY <1>4, <1>7 DEF Reads
      <3>2. QED  BY <1>7, <3>1 DEF Sound, Reads, IsAnswer
    <2>2. heard' \subseteq 1..Len(sent)
      <3>1. 1 \in 1..Len(queue)  BY <1>4, <1>7 DEF Reads
      <3>2. QED  BY <1>7, <3>1 DEF Sound, Reads
    <2>3. QED
      BY <1>1, <1>2, <1>3, <1>7, <2>1, <2>2 DEF Sound, IsPing, IsAnswer
  <1>8. QED  BY <1>5, <1>6, <1>7, Traffic

LEMMA WaitsStep ==
    ASSUME TypeOK, Sound, Waits, [Next]_vars
    PROVE  Waits'
PROOF
  <1>1. job' = job  BY Frame
  <1>2. outstanding \in Seq(Waiting) /\ Len(sent) \in Nat /\ now \in Nat /\ Len(outstanding) \in Nat
    BY DEF TypeOK, Waiting
  <1>3. heard \subseteq heard'
    BY Traffic DEF Quiet, Arrives, Reads
  <1>4. CASE Send /\ IsPing
    <2> DEFINE p == [seq |-> Len(sent) + 1, deadline |-> now + job.wait]
    <2>1. p \in Waiting /\ p.seq = Len(sent) + 1
      BY <1>2, JobType DEF Waiting
    <2>2. outstanding' = Append(outstanding, p) /\ heard' = heard
      BY <1>4 DEF Send
    <2> HIDE DEF p
    <2>3. /\ Len(outstanding') = Len(outstanding) + 1
          /\ \A i \in 1..Len(outstanding) : outstanding'[i] = outstanding[i]
          /\ outstanding'[Len(outstanding) + 1] = p
      BY <1>2, <2>1, <2>2, AppendProperties
    <2>4. \A i \in 1..Len(outstanding) : outstanding[i].seq \in Nat
      <3>1. \A i \in 1..Len(outstanding) : outstanding[i] \in Waiting  BY <1>2
      <3>2. QED  BY <3>1 DEF Waiting
    <2>5. Ascending(outstanding')
      <3>1. ASSUME NEW i \in 1..Len(outstanding'), NEW j \in 1..Len(outstanding'), i < j
            PROVE  outstanding'[i].seq < outstanding'[j].seq
        <4>1. i \in 1..Len(outstanding)  BY <1>2, <2>3, <3>1
        <4>2. CASE j \in 1..Len(outstanding)
          BY <2>3, <3>1, <4>1, <4>2 DEF Waits, Ascending
        <4>3. CASE j = Len(outstanding) + 1
          <5>1. outstanding[i].seq <= Len(sent)  BY <4>1 DEF Waits
          <5>2. QED  BY <1>2, <2>1, <2>3, <2>4, <4>1, <4>3, <5>1
        <4>4. QED  BY <1>2, <2>3, <3>1, <4>2, <4>3
      <3>2. QED  BY <3>1 DEF Ascending
    <2>6. Len(sent') = Len(sent) + 1  BY <1>4, SentStep
    <2>7. ASSUME NEW i \in 1..Len(outstanding')  PROVE outstanding'[i].seq <= Len(sent')
      <3>1. CASE i \in 1..Len(outstanding)
        BY <1>2, <2>3, <2>4, <2>6, <3>1 DEF Waits
      <3>2. CASE i = Len(outstanding) + 1
        BY <1>2, <2>1, <2>3, <2>6, <3>2
      <3>3. QED  BY <1>2, <2>3, <3>1, <3>2
    <2>8. ASSUME NEW k \in 1..Len(sent')
          PROVE  k \in heard \/ \E i \in 1..Len(outstanding') : outstanding'[i].seq = k
      <3>1. CASE k = Len(sent) + 1
        <4>1. Len(outstanding) + 1 \in 1..Len(outstanding')  BY <1>2, <2>3
        <4>2. QED  BY <2>1, <2>3, <3>1, <4>1
      <3>2. CASE k \in 1..Len(sent) /\ k \notin heard
        <4>1. PICK i \in 1..Len(outstanding) : outstanding[i].seq = k
          BY <1>4, <3>2 DEF Waits
        <4>2. i \in 1..Len(outstanding')  BY <1>2, <2>3
        <4>3. QED  BY <2>3, <4>1, <4>2
      <3>3. QED  BY <1>2, <2>6, <3>1, <3>2
    <2>9. QED  BY <1>1, <2>2, <2>5, <2>7, <2>8 DEF Waits, IsPing
  <1>5. CASE Send /\ ~IsPing
    <2>1. outstanding' = outstanding  BY <1>5 DEF Send
    <2>2. Len(sent') = Len(sent) + 1  BY <1>5, SentStep
    <2>3. \A i \in 1..Len(outstanding) : outstanding[i].seq \in Nat
      <3>1. \A i \in 1..Len(outstanding) : outstanding[i] \in Waiting  BY <1>2
      <3>2. QED  BY <3>1 DEF Waiting
    <2>4. QED  BY <1>1, <1>2, <1>5, <2>1, <2>2, <2>3 DEF Waits, Ascending, IsPing
  <1>6. CASE Hear
    <2>1. sent' = sent /\ queue # <<>>  BY <1>6 DEF Hear
    <2>2. queue \in Seq(Packet)  BY DEF TypeOK, Packet
    <2>3. Head(queue) \in Packet  BY <2>1, <2>2, HeadTailProperties
    <2>4. Head(queue).seq \in Nat  BY <2>3 DEF Packet
    <2>5. CASE outstanding' = outstanding
      BY <1>1, <1>3, <2>1, <2>5 DEF Waits, IsPing
    <2>6. CASE outstanding' = Without(outstanding, Head(queue).seq)
               /\ heard' = heard \cup {Head(queue).seq}
      <3> DEFINE k == Head(queue).seq
                 w == Without(outstanding, k)
      <3>1. /\ Ascending(w)
            /\ \A j \in 1..Len(w) : \E i \in 1..Len(outstanding) : w[j] = outstanding[i]
            /\ \A i \in 1..Len(outstanding) : outstanding[i].seq # k =>
                  \E j \in 1..Len(w) : w[j] = outstanding[i]
        BY <1>2, <2>4, WithoutOne DEF Waits
      <3> HIDE DEF w, k
      <3>2. \A j \in 1..Len(w) : w[j].seq <= Len(sent)
        BY <3>1 DEF Waits
      <3>3. ASSUME IsPing, NEW l \in 1..Len(sent), l \notin heard, l # k
            PROVE  \E j \in 1..Len(w) : w[j].seq = l
        <4>1. PICK i \in 1..Len(outstanding) : outstanding[i].seq = l
          BY <3>3 DEF Waits
        <4>2. QED  BY <3>1, <3>3, <4>1
      <3>4. outstanding' = w /\ heard' = heard \cup {k}  BY <2>6 DEF w, k
      <3>5. QED  BY <1>1, <2>1, <3>1, <3>2, <3>3, <3>4 DEF Waits, IsPing
    <2>7. QED  BY <1>6, <2>5, <2>6 DEF Hear
  <1>7. CASE ~Send /\ ~Hear
    <2>1. sent' = sent /\ outstanding' = outstanding
      BY <1>7, Frame
    <2>2. QED  BY <1>1, <1>3, <2>1 DEF Waits, IsPing
  <1>8. QED  BY <1>4, <1>5, <1>6, <1>7

LEMMA OnceStep ==
    ASSUME TypeOK, Sound, Once, [Next]_vars
    PROVE  Once'
PROOF
  <1>1. job' = job  BY Frame
  <1>2. Len(sent) \in Nat /\ Len(queue) \in Nat /\ MaxProbes \in Nat /\ Len(sent) <= MaxProbes
    BY JobsAssumption DEF TypeOK, Sound
  <1>3. answers \in [1..MaxProbes -> Nat] /\ IsFiniteSet(heard)
    <2>1. IsFiniteSet(1..MaxProbes)  BY <1>2, FS_Interval
    <2>2. heard \in SUBSET (1..MaxProbes)  BY DEF TypeOK
    <2>3. QED  BY <2>1, <2>2, FS_Subset DEF TypeOK
  <1>4. CASE Quiet
    BY <1>1, <1>4 DEF Once, Undoubled, IsPing, IsAnswer, Quiet
  <1>5. CASE \E p \in Packet : Arrives(p)
    <2>1. PICK p \in Packet : Arrives(p)  BY <1>5
    <2>2. SUFFICES ASSUME Undoubled'  PROVE Once'
      BY DEF Once
    <2>3. CASE p.kind # "answer"
      <3>1. answers' = answers  BY <2>1, <2>3 DEF Arrives
      <3>2. Undoubled  BY <2>2, <3>1 DEF Undoubled
      <3>3. \A i \in 1..Len(queue') : queue'[i].kind = "answer" =>
                i \in 1..Len(queue) /\ queue'[i] = queue[i]
        BY <1>2, <2>1, <2>3 DEF Arrives
      <3>4. QED
        BY <1>1, <2>1, <3>1, <3>2, <3>3 DEF Once, IsPing, IsAnswer, Arrives
    <2>4. CASE p.kind = "answer"
      <3>1. p.seq \in 1..MaxProbes /\ answers' = [answers EXCEPT ![p.seq] = @ + 1]
        BY <1>2, <2>1, <2>4 DEF Arrives
      <3>2. /\ answers'[p.seq] = answers[p.seq] + 1
            /\ \A k \in (1..MaxProbes) \ {p.seq} : answers'[k] = answers[k]
        BY <1>3, <3>1
      <3>3. answers'[p.seq] <= 1 /\ answers[p.seq] \in Nat
        BY <1>3, <2>2, <3>1 DEF Undoubled
      <3>4. answers[p.seq] = 0  BY <3>2, <3>3
      <3>5. Undoubled
        <4>1. ASSUME NEW k \in 1..MaxProbes  PROVE answers[k] <= 1
          BY <2>2, <3>2, <3>4 DEF Undoubled
        <4>2. QED  BY <4>1 DEF Undoubled
      <3>6. p.seq \notin heard  BY <3>4, <3>5 DEF Once
      <3>7. \A i \in 1..Len(queue) : IsAnswer(i) => queue[i].seq # p.seq /\ queue[i].seq \in 1..MaxProbes
        BY <1>2, <3>4, <3>5 DEF Once, Sound
      <3>8. \A k \in heard' : answers'[k] = 1
        BY <2>1, <3>2, <3>5, <3>6 DEF Once, Arrives, TypeOK
      <3>9. ASSUME NEW i \in 1..Len(queue'), queue'[i].kind = "answer"
            PROVE  queue'[i].seq \notin heard' /\ answers'[queue'[i].seq] = 1
        <4>1. CASE i \in 1..Len(queue)
          <5>1. queue'[i] = queue[i] /\ heard' = heard  BY <2>1, <4>1 DEF Arrives
          <5>2. QED  BY <3>2, <3>5, <3>7, <3>9, <4>1, <5>1 DEF Once, IsAnswer
        <4>2. CASE i = Len(queue) + 1
          BY <2>1, <3>2, <3>4, <3>6, <4>2 DEF Arrives
        <4>3. QED  BY <1>2, <2>1, <4>1, <4>2 DEF Arrives
      <3>10. ASSUME NEW i \in 1..Len(queue'), NEW j \in 1..Len(queue'),
                    queue'[i].kind = "answer", queue'[j].kind = "answer", queue'[i].seq = queue'[j].seq
             PROVE  i = j
        <4>1. CASE i \in 1..Len(queue) /\ j \in 1..Len(queue)
          <5>1. queue'[i] = queue[i] /\ queue'[j] = queue[j]  BY <2>1, <4>1 DEF Arrives
          <5>2. QED  BY <3>5, <3>10, <4>1, <5>1 DEF Once, IsAnswer
        <4>2. CASE i \in 1..Len(queue) /\ j = Len(queue) + 1
          BY <2>1, <3>7, <3>10, <4>2 DEF Arrives, IsAnswer
        <4>3. CASE j \in 1..Len(queue) /\ i = Len(queue) + 1
          BY <2>1, <3>7, <3>10, <4>3 DEF Arrives, IsAnswer
        <4>4. QED  BY <1>2, <2>1, <4>1, <4>2, <4>3 DEF Arrives
      <3>11. IsPing => received' = Cardinality(heard')
        BY <2>1, <3>5 DEF Once, Arrives
      <3>12. QED  BY <1>1, <3>8, <3>9, <3>10, <3>11 DEF Once, IsAnswer, IsPing
    <2>5. QED  BY <2>3, <2>4
  <1>6. CASE Reads
    <2>1. SUFFICES ASSUME Undoubled'  PROVE Once'
      BY DEF Once
    <2>2. Undoubled /\ answers' = answers  BY <1>6, <2>1 DEF Reads, Undoubled
    <2>3. 1 \in 1..Len(queue)  BY <1>2, <1>6 DEF Reads
    <2>4. \A i \in 1..Len(queue') : i + 1 \in 1..Len(queue) /\ i + 1 # 1 /\ queue'[i] = queue[i + 1]
      BY <1>2, <1>6 DEF Reads
    <2>5. \A k \in heard' : answers[k] = 1
      BY <1>6, <2>2, <2>3 DEF Once, Reads
    <2>6. ASSUME NEW i \in 1..Len(queue'), queue'[i].kind = "answer"
          PROVE  queue'[i].seq \notin heard' /\ answers[queue'[i].seq] = 1
      <3>1. IsAnswer(i + 1)  BY <2>4, <2>6 DEF IsAnswer
      <3>2. queue[i + 1].seq \notin heard /\ answers[queue[i + 1].seq] = 1
        BY <2>2, <2>4, <3>1 DEF Once
      <3>3. IsAnswer(1) => queue[1].seq # queue[i + 1].seq
        BY <2>2, <2>3, <2>4, <3>1 DEF Once
      <3>4. QED  BY <1>6, <2>4, <3>2, <3>3 DEF Reads
    <2>7. ASSUME NEW i \in 1..Len(queue'), NEW j \in 1..Len(queue'),
                 queue'[i].kind = "answer", queue'[j].kind = "answer", queue'[i].seq = queue'[j].seq
          PROVE  i = j
      <3>1. i + 1 = j + 1  BY <2>2, <2>4, <2>7 DEF Once, IsAnswer
      <3>2. QED  BY <3>1
    <2>8. IsPing => received' = Cardinality(heard')
      <3>1. CASE ~IsAnswer(1)  BY <1>6, <2>2, <3>1 DEF Once, Reads
      <3>2. CASE IsAnswer(1)
        <4>1. queue[1].seq \notin heard  BY <2>2, <2>3, <3>2 DEF Once
        <4>2. Cardinality(heard \cup {queue[1].seq}) = Cardinality(heard) + 1
          BY <1>3, <4>1, FS_AddElement
        <4>3. QED  BY <1>6, <2>2, <3>2, <4>2 DEF Once, Reads
      <3>3. QED  BY <3>1, <3>2
    <2>9. QED  BY <1>1, <2>2, <2>5, <2>6, <2>7, <2>8 DEF Once, IsAnswer, IsPing
  <1>7. QED  BY <1>4, <1>5, <1>6, Traffic

LEMMA ToldStep ==
    ASSUME TypeOK, Told, [Next]_vars
    PROVE  Told'
PROOF
  <1>1. job' = job  BY Frame
  <1>2. CASE Report
    BY <1>1, <1>2 DEF Report, Told, IsPing
  <1>3. CASE Terminated \/ UNCHANGED vars
    BY <1>1, <1>3 DEF Terminated, vars, Told, IsPing
  <1>4. CASE pc' # "done"
    BY <1>4 DEF Told
  <1>5. CASE ~Report /\ ~Terminated /\ ~UNCHANGED vars
    <2>1. pc' # "done"
      BY <1>5 DEF Next, Command, Send, SendFails, LoopEnds, WaitEnds, Hear, HearArp,
                  Interrupt, Tick, Answer, Stray, Blocked
    <2>2. QED  BY <1>4, <2>1
  <1>6. QED  BY <1>2, <1>3, <1>5

\* Multiples of the interval.
LEMMA Intervals ==
    ASSUME NEW n \in Nat, NEW d \in Nat
    PROVE  /\ n * d \in Nat /\ (n + 1) * d = n * d + d
           /\ ((n + 1) - 1) * d = n * d
PROOF OBVIOUS

LEMMA ScheduleStep ==
    ASSUME TypeOK, Sound, Schedule, [Next]_vars
    PROVE  Schedule'
PROOF
  <1>1. job' = job /\ Len(sent) \in Nat /\ now \in Nat  BY Frame DEF TypeOK
  <1>2. SUFFICES ASSUME IsPing, job.interval <= MaxInt  PROVE Schedule'
    BY <1>1 DEF Schedule, IsPing
  <1>3. job.interval \in Nat /\ MaxInt \in Nat
    BY JobType, JobsAssumption
  <1> DEFINE S == \A k \in 1..Len(sent) : sent[k] = (k - 1) * job.interval
             L == pc = "loop" /\ Left(Len(sent)) => now = Len(sent) * job.interval
             M == pc = "drain" /\ Left(Len(sent)) => more
             D == pc = "drain" /\ more =>
                    until = Len(sent) * job.interval /\ now <= until /\ until - now <= job.interval
  <1>4. S /\ L /\ M /\ D  BY <1>2 DEF Schedule
  <1>5. SUFFICES S' /\ L' /\ M' /\ D'
    BY DEF Schedule
  <1>6. CASE Send
    <2>1. /\ pc = "loop" /\ Left(Len(sent)) /\ now' = now /\ stop' = stop /\ pc' = "drain"
          /\ Len(sent') = Len(sent) + 1 /\ sent'[Len(sent) + 1] = now
          /\ \A k \in 1..Len(sent) : sent'[k] = sent[k]
      BY <1>2, <1>6, SentStep DEF Send
    <2>2. now = Len(sent) * job.interval  BY <1>4, <2>1
    <2>3. more' = Left(Len(sent'))  BY <1>2, <1>6, <2>1 DEF Send
    <2>4. more' => until' = Len(sent') * job.interval
      BY <1>2, <1>6, <2>1, <2>3 DEF Send, DrainUntil
    <2>5. S'
      <3>1. ASSUME NEW k \in 1..Len(sent')  PROVE sent'[k] = (k - 1) * job.interval
        <4>1. CASE k \in 1..Len(sent)  BY <1>4, <2>1, <4>1
        <4>2. CASE k = Len(sent) + 1  BY <1>1, <1>3, <2>1, <2>2, <4>2, Intervals
        <4>3. QED  BY <1>1, <2>1, <4>1, <4>2
      <3>2. QED  BY <1>1, <3>1
    <2>6. L'  BY <2>1
    <2>7. M'  BY <1>1, <2>1, <2>3 DEF Left
    <2>8. D'
      <3>1. (Len(sent) + 1) * job.interval = Len(sent) * job.interval + job.interval
            /\ Len(sent) * job.interval \in Nat
        BY <1>1, <1>3, Intervals
      <3>2. more' => until' = now + job.interval
        BY <2>1, <2>2, <2>4, <3>1
      <3>3. QED  BY <1>1, <1>3, <2>1, <2>4, <3>2
    <2>9. QED  BY <2>5, <2>6, <2>7, <2>8
  <1>7. CASE SendFails \/ LoopEnds \/ Report
    BY <1>1, <1>4, <1>7 DEF SendFails, LoopEnds, Report
  <1>8. CASE WaitEnds
    <2>1. /\ pc = "drain" /\ Elapsed /\ pc' = "loop" /\ sent' = sent /\ now' = now /\ stop' = stop
          /\ more' = more /\ until' = until
      BY <1>2, <1>8 DEF WaitEnds, Sound
    <2>2. ASSUME Left(Len(sent))  PROVE now = Len(sent) * job.interval
      <3>1. until = Len(sent) * job.interval /\ now <= until /\ until - now <= job.interval
        BY <1>4, <2>1, <2>2
      <3>2. Len(sent) * job.interval \in Nat  BY <1>1, <1>3, Intervals
      <3>3. now >= until  BY <1>1, <1>2, <1>3, <2>1, <3>1, <3>2 DEF Elapsed
      <3>4. QED  BY <1>1, <3>1, <3>2, <3>3
    <2>3. QED  BY <1>1, <1>4, <2>1, <2>2 DEF Left
  <1>9. CASE Hear
    <2>1. /\ pc = "drain" /\ sent' = sent /\ now' = now /\ stop' = stop /\ more' = more /\ until' = until
          /\ pc' = "drain" \/ (pc' = "loop" /\ ~more)
      BY <1>9 DEF Hear
    <2>2. QED  BY <1>1, <1>4, <2>1 DEF Left
  <1>10. CASE HearArp
    BY <1>2, <1>10 DEF HearArp, Sound
  <1>11. CASE Interrupt
    <2>1. stop' = TRUE /\ sent' = sent /\ now' = now /\ more' = more /\ until' = until /\ pc' \in {"loop", "report", pc}
      BY <1>11 DEF Interrupt
    <2>2. QED  BY <1>1, <1>4, <2>1 DEF Left
  <1>12. CASE Tick
    <2>1. /\ sent' = sent /\ now' = now + 1 /\ stop' = stop /\ more' = more /\ until' = until
          /\ pc = "drain" /\ pc' = pc /\ until # Forever /\ ~Elapsed
      BY <1>2, <1>12 DEF Tick, Blocked, Sound
    <2>2. ASSUME more  PROVE now + 1 <= until /\ until - (now + 1) <= job.interval
      <3>1. until = Len(sent) * job.interval /\ now <= until /\ until - now <= job.interval
        BY <1>4, <2>1, <2>2
      <3>2. until \in Nat  BY <1>1, <1>3, <3>1, Intervals
      <3>3. now < until  BY <1>1, <2>1, <3>2 DEF Elapsed
      <3>4. QED  BY <1>1, <1>3, <3>1, <3>2, <3>3
    <2>3. QED  BY <1>1, <1>4, <2>1, <2>2 DEF Left
  <1>13. CASE Answer \/ Stray \/ UNCHANGED vars
    <2>1. UNCHANGED <<sent, now, stop, more, until, pc>>
      BY <1>13 DEF Answer, Stray, vars
    <2>2. QED  BY <1>1, <1>4, <2>1 DEF Left
  <1>14. QED
    BY <1>6, <1>7, <1>8, <1>9, <1>10, <1>11, <1>12, <1>13 DEF Next, Command, Terminated

LEMMA DeadlinesStep ==
    ASSUME TypeOK, Sound, Waits, Deadlines, [Next]_vars
    PROVE  Deadlines'
PROOF
  <1>1. job' = job /\ Len(sent) \in Nat /\ now \in Nat /\ others \in Nat
    BY Frame DEF TypeOK
  <1>2. job.wait \in Nat /\ MaxInt \in Nat /\ Forever \notin Nat
    BY JobType, JobsAssumption
  <1>3. Len(sent) > 0 => sent[Len(sent)] \in Nat
    BY DEF TypeOK
  <1>4. ASSUME Excused, sent' = sent, now' >= now, now' \in Nat, stop => stop', failed => failed',
               heard \subseteq heard', others' >= others, others' \in Nat, found => found'
        PROVE  Excused'
    <2>1. CASE Len(sent) > 0
      BY <1>1, <1>2, <1>3, <1>4, <2>1 DEF Excused, IsPing
    <2>2. CASE Len(sent) = 0
      BY <1>4, <2>2 DEF Excused
    <2>3. QED  BY <1>1, <2>1, <2>2
  <1>5. CASE Send
    <2>1. /\ Len(sent') = Len(sent) + 1 /\ sent'[Len(sent')] = now /\ now' = now /\ stop' = stop
          /\ pc' \in {"drain", "hear"}
      BY <1>1, <1>5, SentStep DEF Send
    <2>2. CASE IsPing
      <3> DEFINE p == [seq |-> Len(sent) + 1, deadline |-> now + job.wait]
                 w == Append(outstanding, p)
      <3>1. p \in Waiting /\ p.deadline = now + job.wait
        BY <1>1, <1>2 DEF Waiting
      <3>2. /\ pc' = "drain" /\ more' = Left(Len(sent) + 1)
            /\ until' = DrainUntil(Len(sent) + 1, w)
        BY <1>5, <2>2 DEF Send
      <3>3. w[Len(w)].deadline = now + job.wait
        <4>1. outstanding \in Seq(Waiting)  BY DEF TypeOK, Waiting
        <4> HIDE DEF p
        <4>2. w[Len(w)] = p  BY <3>1, <4>1, AppendProperties
        <4>3. QED  BY <3>1, <4>2
      <3> HIDE DEF w, p
      <3>4. ~more' => until' = now + job.wait
        BY <3>2, <3>3 DEF DrainUntil
      <3>5. more' <=> Left(Len(sent))'
        BY <1>1, <2>1, <3>2 DEF Left
      <3>6. QED  BY <1>1, <2>1, <3>2, <3>4, <3>5 DEF Deadlines
    <2>3. CASE ~IsPing
      <3>1. pc' = "hear" /\ until' = IF job.wait > MaxInt THEN Forever ELSE now + job.wait
        BY <1>5, <2>3 DEF Send
      <3>2. QED  BY <1>1, <1>2, <2>1, <3>1 DEF Deadlines
    <2>4. QED  BY <2>2, <2>3
  <1>6. CASE SendFails
    BY <1>6 DEF SendFails, Deadlines, Excused
  <1>7. CASE LoopEnds
    <2>1. Excused /\ pc' = "report"  BY <1>7 DEF LoopEnds, Deadlines
    <2>2. Excused'  BY <1>1, <1>4, <1>7, <2>1 DEF LoopEnds, network
    <2>3. QED  BY <2>1, <2>2 DEF Deadlines
  <1>8. CASE WaitEnds
    <2>1. /\ pc \in {"drain", "hear"} /\ Elapsed /\ pc' = "loop"
          /\ UNCHANGED <<sent, now, stop, failed, heard, others, found, more, until>>
      BY <1>8 DEF WaitEnds, network
    <2>2. Len(sent) > 0 /\ now >= sent[Len(sent)]  BY <2>1 DEF Deadlines
    <2>3. ASSUME ~Left(Len(sent))  PROVE Excused
      <3>1. CASE stop \/ job.wait > MaxInt  BY <3>1 DEF Excused
      <3>2. CASE ~stop /\ job.wait <= MaxInt /\ until = sent[Len(sent)] + job.wait
        BY <1>1, <1>2, <1>3, <2>1, <2>2, <3>2 DEF Excused, Elapsed
      <3>3. CASE pc = "drain" /\ more /\ ~stop
        BY <2>3, <3>3 DEF Deadlines
      <3>4. QED  BY <1>2, <2>1, <3>1, <3>2, <3>3 DEF Deadlines, Sound
    <2>4. ~Left(Len(sent))' => Excused'
      BY <1>1, <1>4, <2>1, <2>3 DEF Left
    <2>5. QED  BY <2>1, <2>4 DEF Deadlines
  <1>9. CASE Hear
    <2>1. /\ pc = "drain" /\ pc' \in {"drain", "loop"}
          /\ UNCHANGED <<sent, now, stop, failed, others, found, more, until>>
      BY <1>9 DEF Hear
    <2>2. ASSUME pc' = "loop"  PROVE Excused'
      <3>1. outstanding' = <<>>  BY <1>9, <2>1, <2>2 DEF Hear
      <3>2. Waits' /\ IsPing  BY <1>9, <2>1, WaitsStep DEF Sound
      <3>3. 1..Len(sent') \subseteq heard'
        BY <1>1, <3>1, <3>2 DEF Waits, IsPing
      <3>4. QED  BY <3>3 DEF Excused
    <2>3. QED  BY <1>1, <2>1, <2>2 DEF Deadlines, Left
  <1>10. CASE HearArp
    <2>1. /\ pc = "hear" /\ ~IsPing /\ queue # <<>> /\ others' = others
          /\ found' = (Head(queue).kind \in Wanted)
          /\ pc' = IF found' THEN "report" ELSE "loop"
      BY <1>10 DEF HearArp, Sound
    <2>2. Excused'
      <3>1. CASE found'  BY <1>1, <2>1, <3>1 DEF Excused, IsPing
      <3>2. CASE ~found'
        <4>1. Head(queue).kind # "answer"  BY <2>1, <3>2 DEF Wanted
        <4>2. Head(queue) = queue[1] /\ 1 \in 1..Len(queue)
          BY <2>1 DEF TypeOK
        <4>3. others > 0  BY <4>1, <4>2 DEF Sound, IsAnswer
        <4>4. QED  BY <1>1, <2>1, <4>3 DEF Excused, IsPing
      <3>3. QED  BY <3>1, <3>2
    <2>3. QED  BY <2>1, <2>2 DEF Deadlines
  <1>11. CASE Interrupt
    <2>1. stop' = TRUE /\ UNCHANGED <<sent, now, more, until>> /\ pc' \in {"loop", "report", pc}
      BY <1>11 DEF Interrupt
    <2>2. Excused'  BY <2>1 DEF Excused
    <2>3. QED  BY <1>1, <2>1, <2>2 DEF Deadlines
  <1>12. CASE Tick
    <2>1. /\ pc \in {"drain", "hear"} /\ pc' = pc /\ now' = now + 1
          /\ UNCHANGED <<sent, stop, more, until>>
      BY <1>12 DEF Tick, Blocked
    <2>2. QED  BY <1>1, <1>3, <2>1 DEF Deadlines, Left
  <1>13. CASE Answer \/ Stray \/ UNCHANGED vars
    <2>1. /\ UNCHANGED <<sent, now, stop, more, until, pc, failed, heard, found>>
          /\ others' \in {others, others + 1}
      BY <1>13 DEF Answer, Stray, vars
    <2>2. Excused => Excused'  BY <1>1, <1>4, <2>1
    <2>3. QED  BY <1>1, <2>1, <2>2 DEF Deadlines, Left
  <1>14. CASE Report
    <2>1. /\ pc = "report" /\ pc' = "done"
          /\ UNCHANGED <<sent, now, stop, failed, heard, others, found>>
      BY <1>14 DEF Report, network
    <2>2. Excused  BY <2>1 DEF Deadlines
    <2>3. Excused'  BY <1>1, <1>4, <2>1, <2>2
    <2>4. QED  BY <2>1, <2>3 DEF Deadlines
  <1>15. QED
    BY <1>5, <1>6, <1>7, <1>8, <1>9, <1>10, <1>11, <1>12, <1>13, <1>14 DEF Next, Command, Terminated

LEMMA InvAlways == Spec => []Inv
PROOF
  <1>1. Init => Inv  BY InvInit
  <1>2. Inv /\ [Next]_vars => Inv'
    BY TypeStep, SoundStep, WaitsStep, OnceStep, ToldStep, ScheduleStep, DeadlinesStep DEF Inv
  <1>3. QED  BY <1>1, <1>2, PTL DEF Spec

----------------------------------------------------------------------------

\* Whatever the network does, the variables keep their types; the loss is a
\* natural number, even where more answers came than probes were sent.
THEOREM TypeCorrect == Spec => []TypeOK
PROOF
  <1>1. Inv => TypeOK  BY DEF Inv
  <1>2. QED  BY <1>1, InvAlways, PTL

\* For any command line and any network: ping sends every probe on time, and
\* no verdict comes before the last wait is over, unless it was cut short.
THEOREM ComesWhenDue == Spec => []Punctual
PROOF
  <1>1. Inv => OnSchedule
    BY DEF Inv, TypeOK, Schedule, OnSchedule
  <1>2. Inv => WaitsForLast
    <2> SUFFICES ASSUME Inv, pc = "done", ~stop, ~failed, job.wait <= MaxInt, Unanswered # {},
                        IsPing \/ (~found /\ others = 0)
                 PROVE  now >= sent[Len(sent)] + job.wait
      BY DEF WaitsForLast
    <2>1. Excused  BY DEF Inv, Deadlines
    <2>2. ~(job.wait > MaxInt) /\ ~(others > 0 /\ others = 0)
      BY JobType, JobsAssumption DEF Inv
    <2>3. ~ ((1..Len(sent)) \subseteq heard)  BY DEF Unanswered
    <2>4. QED  BY <2>1, <2>2, <2>3 DEF Excused
  <1>3. Inv => Punctual  BY <1>1, <1>2 DEF Punctual
  <1>4. QED  BY <1>3, InvAlways, PTL

\* As long as the number of probes fits a size_t, ping's summary counts
\* exactly the probes without an answer if no answer came twice.
THEOREM LossCounted ==
    ASSUME MaxProbes < SizeMod
    PROVE  Spec => []LossIsTrue
PROOF
  <1>1. ASSUME Inv, pc = "done", IsPing, Undoubled  PROVE lost = Cardinality(Unanswered)
    <2>1. /\ Len(sent) \in Nat /\ Len(sent) <= MaxProbes /\ heard \subseteq 1..Len(sent)
          /\ MaxProbes \in Nat /\ SizeMod \in Nat \ {0}
      BY <1>1, JobsAssumption DEF Inv, TypeOK, Sound
    <2>2. lost = (Len(sent) - received) % SizeMod /\ received = Cardinality(heard)
      BY <1>1 DEF Inv, Told, Once
    <2> DEFINE N == 1..Len(sent)
    <2>3. IsFiniteSet(N) /\ Cardinality(N) = Len(sent)
      <3>1. 1 \in Int /\ Len(sent) \in Int  BY <2>1
      <3>2. IsFiniteSet(N) /\ Cardinality(N) = IF 1 > Len(sent) THEN 0 ELSE Len(sent) - 1 + 1
        BY <3>1, FS_Interval
      <3>3. QED  BY <2>1, <3>2
    <2>6. heard \in SUBSET N /\ N \cap heard = heard /\ Unanswered = N \ heard
      BY <2>1 DEF Unanswered
    <2> HIDE DEF N
    <2>4. IsFiniteSet(heard) /\ Cardinality(heard) <= Len(sent)
      BY <2>3, <2>6, FS_Subset
    <2>5. Cardinality(heard) \in Nat  BY <2>4, FS_CardinalityType
    <2>7. Cardinality(Unanswered) = Len(sent) - Cardinality(heard)
      <3>1. Cardinality(N \ heard) = Cardinality(N) - Cardinality(N \cap heard)
        BY <2>3, FS_Difference
      <3>2. QED  BY <2>3, <2>6, <3>1
    <2>8. \A x \in 0..(SizeMod - 1) : x % SizeMod = x  BY <2>1
    <2>9. Len(sent) - received \in 0..(SizeMod - 1)  BY <2>1, <2>2, <2>4, <2>5
    <2>10. QED  BY <2>2, <2>7, <2>8, <2>9
  <1>2. Inv => LossIsTrue  BY <1>1 DEF LossIsTrue
  <1>3. QED  BY <1>2, InvAlways, PTL
=============================================================================
