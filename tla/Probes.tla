------------------------------- MODULE Probes -------------------------------
(***************************************************************************)
(* `modbox ping` and `modbox arping` (src/src/commands/ping.cpp and        *)
(* arping.cpp): a command that sends probes and waits for answers, on a    *)
(* network that loses, delays, duplicates and reorders them and delivers   *)
(* what is not meant for the command.                                      *)
(*                                                                         *)
(* Time passes only while the command waits.  ping's sequence numbers have *)
(* 16 bits; it sends fewer probes than that here.                          *)
(*                                                                         *)
(* A definition Name_Fault is Name with a plausible mistake in it, used    *)
(* only to show which property notices.                                    *)
(***************************************************************************)
EXTENDS Integers, Sequences, FiniteSets

CONSTANTS
    Jobs,       \* the command lines
    MaxInt,     \* the largest int, in units of the clock
    SizeMod,    \* 2^64, for unsigned subtraction
    MaxProbes,  \* bound: probes of one command
    MaxDups,    \* bound: answers to one probe beyond the first
    MaxStrays,  \* bound: other packets the socket receives
    Forever

\* dad: duplicate address detection, `arping -D`.
ASSUME JobsAssumption ==
    /\ Jobs \subseteq [tool : {"ping", "arping", "dad"}, count : Nat \cup {Forever},
                       interval : Nat, wait : Nat]
    /\ MaxInt \in Nat /\ SizeMod \in Nat \ {0}
    /\ MaxProbes \in Nat /\ MaxDups \in Nat /\ MaxStrays \in Nat
    /\ Forever \notin Nat

VARIABLES
    job,
    pc,           \* "loop", "drain" (ping), "hear" (arping), "report" or "done"
    now,          \* the clock
    stop,         \* g_stop: SIGINT has come
    sent,         \* when each probe was sent
    outstanding,  \* ping's probes without an answer, with the time each may take
    more,         \* whether ping means to send another probe
    until,        \* the end of the present wait
    received,     \* the answers ping has counted
    found,        \* whether arping has heard from the address
    failed,       \* whether sendto() has failed
    queue,        \* what the socket has received and the command has not read
    answers,      \* how many answers to each probe the socket has received
    others,       \* and how many other packets
    heard,        \* the probes whose answers the command has read
    code,         \* the exit status
    lost          \* the number of lost probes that the summary tells

vars == <<job, pc, now, stop, sent, outstanding, more, until, received, found, failed,
          queue, answers, others, heard, code, lost>>
network == <<queue, answers, others>>

Init ==
    /\ job \in Jobs
    /\ pc = "loop" /\ now = 0 /\ stop = FALSE
    /\ sent = <<>> /\ outstanding = <<>> /\ more = TRUE /\ until = 0
    /\ received = 0 /\ found = FALSE /\ failed = FALSE
    /\ queue = <<>> /\ others = 0
    /\ answers = [k \in 1..MaxProbes |-> 0] /\ heard = {}
    /\ code = 0 /\ lost = 0

IsPing == job.tool = "ping"

\* The condition of both loops, when n probes have been sent.
Left(n) == ~stop /\ (IF job.count = Forever THEN TRUE ELSE n < job.count)

(***************************************************************************)
(* Sending.  ping sends when the next interval begins, however late it was *)
(* with the last probe, and waits for answers until then; after the last   *)
(* probe until the time of that one is over.                               *)
(***************************************************************************)
DrainUntil_Oldest(n, waiting) ==
    IF Left(n) THEN n * job.interval ELSE waiting[1].deadline

DrainUntil(n, waiting) ==
    IF Left(n) THEN n * job.interval ELSE waiting[Len(waiting)].deadline

Send ==
    /\ pc = "loop" /\ Left(Len(sent)) /\ Len(sent) < MaxProbes
    /\ sent' = Append(sent, now)
    /\ IF IsPing
       THEN LET n == Len(sent) + 1
                waiting == Append(outstanding, [seq |-> n, deadline |-> now + job.wait])
            IN  /\ outstanding' = waiting
                /\ more' = Left(n)
                /\ until' = DrainUntil(n, waiting)
                /\ pc' = "drain"
       ELSE \* a wait that no int holds becomes negative, which poll() takes for ever
            /\ until' = IF job.wait > MaxInt THEN Forever ELSE now + job.wait
            /\ pc' = "hear"
            /\ UNCHANGED <<outstanding, more>>
    /\ UNCHANGED <<job, now, stop, received, found, failed, network, heard, code, lost>>

SendFails ==
    /\ pc = "loop" /\ Left(Len(sent))
    /\ failed' = TRUE
    /\ pc' = "report"
    /\ UNCHANGED <<job, now, stop, sent, outstanding, more, until, received, found, network,
                   heard, code, lost>>

LoopEnds ==
    /\ pc = "loop" /\ ~Left(Len(sent))
    /\ pc' = "report"
    /\ UNCHANGED <<job, now, stop, sent, outstanding, more, until, received, found, failed,
                   network, heard, code, lost>>

(***************************************************************************)
(* Waiting, with poll().                                                   *)
(***************************************************************************)
\* The time is up, or too long for the int that poll() gets: then ping does
\* not wait at all.
Elapsed == until # Forever /\ (now >= until \/ until - now > MaxInt)

Blocked == pc \in {"drain", "hear"} /\ queue = <<>> /\ ~Elapsed

WaitEnds_Patient ==
    /\ pc \in {"drain", "hear"} /\ queue = <<>> /\ Elapsed
    /\ IsPing => more \/ outstanding = <<>>
    /\ pc' = "loop"
    /\ UNCHANGED <<job, now, stop, sent, outstanding, more, until, received, found, failed,
                   network, heard, code, lost>>

WaitEnds ==
    /\ pc \in {"drain", "hear"} /\ queue = <<>> /\ Elapsed
    /\ pc' = "loop"
    /\ UNCHANGED <<job, now, stop, sent, outstanding, more, until, received, found, failed,
                   network, heard, code, lost>>

\* SIGINT.  It interrupts a poll() that waits: ping then leaves its loop at
\* the condition, arping at once.  Any other moment only sets the flag, that
\* between the test of the flag and poll(), which then waits, as well.
Interrupt ==
    /\ pc \notin {"report", "done"}
    /\ stop' = TRUE
    /\ \/ pc' = pc
       \/ Blocked /\ pc' = IF IsPing THEN "loop" ELSE "report"
    /\ UNCHANGED <<job, now, sent, outstanding, more, until, received, found, failed, network,
                   heard, code, lost>>

\* The first probe of that number goes; there is none after a second answer.
First(waiting, k) ==
    CHOOSE i \in DOMAIN waiting : waiting[i].seq = k /\ \A j \in 1..(i - 1) : waiting[j].seq # k
Without(waiting, k) ==
    IF \E i \in DOMAIN waiting : waiting[i].seq = k
    THEN [i \in 1..(Len(waiting) - 1) |-> waiting[IF i < First(waiting, k) THEN i ELSE i + 1]]
    ELSE waiting

Hear_AnyPacket ==
    /\ pc = "drain" /\ queue # <<>>
    /\ LET k == Head(queue).seq IN
       /\ received' = received + 1
       /\ heard' = IF Head(queue).kind = "answer" THEN heard \cup {k} ELSE heard
       /\ outstanding' = Without(outstanding, k)
    /\ pc' = IF outstanding' = <<>> /\ ~more THEN "loop" ELSE "drain"
    /\ queue' = Tail(queue)
    /\ UNCHANGED <<job, now, stop, sent, more, until, found, failed, answers, others, code, lost>>

\* ping reads a packet, and goes on waiting.
Hear ==
    /\ pc = "drain" /\ queue # <<>>
    /\ IF Head(queue).kind = "answer"
       THEN LET k == Head(queue).seq IN
            /\ received' = received + 1
            /\ heard' = heard \cup {k}
            /\ outstanding' = Without(outstanding, k)
            /\ pc' = IF outstanding' = <<>> /\ ~more THEN "loop" ELSE "drain"
       ELSE UNCHANGED <<received, heard, outstanding, pc>>
    /\ queue' = Tail(queue)
    /\ UNCHANGED <<job, now, stop, sent, more, until, found, failed, answers, others, code, lost>>

\* The packets that tell arping who has the address; with -D any that comes
\* from there.
Wanted == IF job.tool = "dad" THEN {"answer", "claim"} ELSE {"answer"}

\* arping reads one packet for each probe; another one than it waits for has
\* it send the next probe at once.
HearArp ==
    /\ pc = "hear" /\ queue # <<>>
    /\ found' = (Head(queue).kind \in Wanted)
    /\ heard' = IF Head(queue).kind = "answer" THEN heard \cup {Head(queue).seq} ELSE heard
    /\ pc' = IF found' THEN "report" ELSE "loop"
    /\ queue' = Tail(queue)
    /\ UNCHANGED <<job, now, stop, sent, outstanding, more, until, received, failed, answers,
                   others, code, lost>>

Tick ==
    /\ Blocked /\ until # Forever
    /\ now' = now + 1
    /\ UNCHANGED <<job, pc, stop, sent, outstanding, more, until, received, found, failed,
                   network, heard, code, lost>>

(***************************************************************************)
(* The summary and the exit status.                                        *)
(***************************************************************************)
Report_Signed ==
    /\ pc = "report"
    /\ lost' = IF IsPing THEN Len(sent) - received ELSE 0
    /\ code' = CASE IsPing -> IF received > 0 THEN 0 ELSE 1
                 [] job.tool = "dad" -> IF ~found /\ sent # <<>> THEN 0 ELSE 1
                 [] job.tool = "arping" -> IF found THEN 0 ELSE 1
    /\ pc' = "done"
    /\ UNCHANGED <<job, now, stop, sent, outstanding, more, until, received, found, failed,
                   network, heard>>

Report ==
    /\ pc = "report"
    /\ lost' = IF IsPing THEN (Len(sent) - received) % SizeMod ELSE 0
    /\ code' = CASE IsPing -> IF received > 0 THEN 0 ELSE 1
                 [] job.tool = "dad" -> IF ~found /\ sent # <<>> THEN 0 ELSE 1
                 [] job.tool = "arping" -> IF found THEN 0 ELSE 1
    /\ pc' = "done"
    /\ UNCHANGED <<job, now, stop, sent, outstanding, more, until, received, found, failed,
                   network, heard>>

(***************************************************************************)
(* The network.  An answer that never arrives was lost.                    *)
(***************************************************************************)
Answer ==
    /\ pc \notin {"report", "done"}
    /\ \E k \in 1..Len(sent) :
          /\ answers[k] <= MaxDups
          /\ answers' = [answers EXCEPT ![k] = @ + 1]
          /\ queue' = Append(queue, [kind |-> "answer", seq |-> k])
    /\ UNCHANGED <<job, pc, now, stop, sent, outstanding, more, until, received, found, failed,
                   others, heard, code, lost>>

\* Something else, or another message from the address that arping asks for.
Stray ==
    /\ pc \notin {"report", "done"} /\ others < MaxStrays
    /\ \E kind \in {"claim", "stray"} : queue' = Append(queue, [kind |-> kind, seq |-> 0])
    /\ others' = others + 1
    /\ UNCHANGED <<job, pc, now, stop, sent, outstanding, more, until, received, found, failed,
                   answers, heard, code, lost>>

Command == Send \/ SendFails \/ LoopEnds \/ WaitEnds \/ Hear \/ HearArp \/ Report

Terminated == pc = "done" /\ UNCHANGED vars

Next == Command \/ Interrupt \/ Tick \/ Answer \/ Stray \/ Terminated

Spec == Init /\ [][Next]_vars /\ WF_vars(Command) /\ WF_vars(Tick)

----------------------------------------------------------------------------

\* The values each variable ranges over.
TypeOK ==
    /\ job \in Jobs
    /\ pc \in {"loop", "drain", "hear", "report", "done"}
    /\ now \in Nat /\ stop \in BOOLEAN /\ more \in BOOLEAN
    /\ sent \in Seq(Nat)
    /\ outstanding \in Seq([seq : Nat, deadline : Nat])
    /\ until \in Nat \cup {Forever}
    /\ received \in Nat /\ found \in BOOLEAN /\ failed \in BOOLEAN
    /\ queue \in Seq([kind : {"answer", "claim", "stray"}, seq : Nat])
    /\ answers \in [1..MaxProbes -> Nat] /\ others \in Nat
    /\ heard \subseteq 1..MaxProbes
    /\ code \in {0, 1} /\ lost \in Nat

Undoubled == \A k \in 1..MaxProbes : answers[k] <= 1
Unanswered == (1..Len(sent)) \ heard

\* Unless the network duplicates answers, ping's summary tells how many of
\* its probes had none, in whatever order and however late the others came.
LossIsTrue ==
    pc = "done" /\ IsPing /\ Undoubled => lost = Cardinality(Unanswered)

\* ping keeps to its schedule: answers, early or late, neither delay a probe
\* nor bring it forward, provided an int holds the interval.
OnSchedule ==
    IsPing /\ job.interval <= MaxInt
        => \A k \in 1..Len(sent) : sent[k] = (k - 1) * job.interval

\* The manuals: after the last probe ping waits for its answer for as long as
\* -W says, arping after each probe for -w.  Only SIGINT, a failed sendto(),
\* or for arping a packet it did not ask for, has them give up sooner while
\* there is a probe without an answer, however early the others came.
WaitsForLast ==
    (/\ pc = "done" /\ ~stop /\ ~failed /\ job.wait <= MaxInt /\ Unanswered # {}
     /\ IsPing \/ (~found /\ others = 0))
        => now >= sent[Len(sent)] + job.wait

\* Probes and verdicts come when they are due: both.
Punctual == OnSchedule /\ WaitsForLast

\* A command with a count ends, whatever is lost: each of its waits does.
CountEnds ==
    (job.count # Forever /\ job.wait <= MaxInt) ~> (pc = "done")
=============================================================================
