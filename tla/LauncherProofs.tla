--------------------------- MODULE LauncherProofs ---------------------------
(***************************************************************************)
(* Theorems about two commands that run another one, Timeout and Xargs.    *)
(*                                                                         *)
(* About Timeout: that no kill() can reach a process timeout has already   *)
(* reaped, that no child outlives timeout, that no signal is early when    *)
(* every duration fits an int, and that the exit status tells what         *)
(* happened.                                                               *)
(*                                                                         *)
(* About Xargs, for any input, any limits and any SizeMax that an index of *)
(* the input fits in, from three facts:                                    *)
(*   - whatever is handled has everything before it handled, and the items *)
(*     before pos are handled or in the batch, unless pos is off the end;  *)
(*   - as long as max_c has not ended a batch, pos says exactly which      *)
(*     items were handled, each once;                                      *)
(*   - what is added to a line adds its length, in whatever order.         *)
(***************************************************************************)
EXTENDS Timeout, Xargs, FiniteSetTheorems, TLAPS

(***************************************************************************)
(* Where the child may be at each point of timeout's code.                 *)
(***************************************************************************)
Held == {"sleep", "reap", "signal", "grace", "reapGrace", "kill9"}

Custody ==
    /\ pc = "fork" => child.state = "none"
    /\ pc \in Held => child.state \in {"alive", "stopped", "zombie"}
    /\ pc = "wait" => child.state \in {"alive", "stopped", "zombie", "reaped"}
    /\ pc = "report" => child.state = "reaped"
    /\ pc = "done" => child.state \in {"none", "reaped"}

Safe == TypeOK /\ Custody

ChildRecords ==
    [state : ChildStates, execd : BOOLEAN, ignores : BOOLEAN,
     pending : PossibleSignals \cup {0}, status : WaitStatuses \cup {NoStatus}]

\* A signal leaves a well-typed child, and creates, revives or reaps none.
LEMMA HitKeepsChild ==
    ASSUME NEW c \in ChildRecords,
           NEW s \in Signals \cup Strangers \cup {SIGKILL}
    PROVE  /\ Hit(c, s) \in ChildRecords
           /\ c.state \notin Running => Hit(c, s) = c
           /\ c.state \in Running => Hit(c, s).state \in {"alive", "stopped", "zombie"}
PROOF
  <1>1. ASSUME NEW n \in PossibleSignals
        PROVE  /\ Die(c, n) \in ChildRecords
               /\ Die(c, n).state = "zombie"
    <2>1. Signaled(n) \in WaitStatuses \cup {NoStatus}  BY DEF WaitStatuses
    <2>2. Die(c, n) = [c EXCEPT !.state = "zombie", !.status = Signaled(n)]  BY DEF Die
    <2>3. QED  BY <2>1, <2>2 DEF ChildRecords, ChildStates
  <1>2. s \in Deliverable => s \in PossibleSignals  BY DEF PossibleSignals
  <1>3. [c EXCEPT !.state = "stopped"] \in ChildRecords
    BY DEF ChildRecords, ChildStates
  <1>4. [c EXCEPT !.state = "alive"] \in ChildRecords
    BY DEF ChildRecords, ChildStates
  <1>5. s \in Deliverable => [c EXCEPT !.pending = s] \in ChildRecords
    BY <1>2 DEF ChildRecords
  <1>6. c.pending # 0 => c.pending \in PossibleSignals
    BY DEF ChildRecords
  <1>7. CASE c.state \notin Running \/ s \notin Deliverable
    BY <1>7 DEF Hit, Running
  <1>8. CASE c.state \in Running /\ s \in Deliverable
    <2>1. Hit(c, s) \in {c, Die(c, s), Die(c, c.pending),
                         [c EXCEPT !.state = "stopped"],
                         [c EXCEPT !.state = "alive"], [c EXCEPT !.pending = s]}
      BY <1>8 DEF Hit
    <2>2. QED  BY <1>1, <1>2, <1>3, <1>4, <1>5, <1>6, <1>8, <2>1
            DEF Hit, Running, ChildRecords, ChildStates
  <1>9. QED  BY <1>7, <1>8

----------------------------------------------------------------------------

LEMMA SafeInit ==
    ASSUME NatAssumption, Init
    PROVE  Safe
BY DEF Init, Safe, TypeOK, Custody, Held, ChildStates

\* Every step of timeout, of the command and of a stranger keeps Safe.
LEMMA SafeStep ==
    ASSUME NatAssumption, Safe, [Next]_vars
    PROVE  Safe'
PROOF
  <1> USE NatAssumption DEF Safe, Held
  <1> SUFFICES ASSUME Next PROVE Safe'
    BY DEF vars, TypeOK, Custody
  <1>t. child \in ChildRecords  BY DEF TypeOK, ChildRecords
  <1>w. wake \in Nat /\ now \in Nat /\ opt.duration \in Nat /\ opt.killAfter \in Nat
        /\ opt.signal \in Signals
    BY DEF TypeOK, Options
  <1>n. \A d \in Nat : NapEnd(d) \in Nat  BY <1>w DEF NapEnd
  <1>1. CASE ForkFails
    BY <1>1 DEF ForkFails, Exit, EXIT_CANCELED, TypeOK, Custody
  <1>2. CASE Fork
    <2>1. child' \in ChildRecords  BY <1>2, <1>t DEF Fork, ChildRecords, ChildStates
    <2>2. QED  BY <1>2, <1>n, <1>w, <2>1 DEF Fork, TypeOK, Custody, ChildRecords
  <1>3. CASE Tick
    BY <1>3 DEF Tick, TypeOK, Custody
  <1>4. CASE Wake
    BY <1>4 DEF Wake, TypeOK, Custody
  <1>5. CASE ReapInTime
    <2>1. child' \in ChildRecords
      BY <1>5, <1>t DEF ReapInTime, Reap, ChildRecords, ChildStates
    <2>2. child.state = "zombie" => StatusInTime(child.status) \in -1..255
      BY <1>t DEF ChildRecords, StatusInTime, WaitStatuses, ExitStatuses, Exited,
         Signaled, NoStatus, PossibleSignals, Deliverable, EXIT_TIMEDOUT,
         EXIT_CANNOT_INVOKE, EXIT_ENOENT
    <2>3. QED
      BY <1>5, <2>1, <2>2 DEF ReapInTime, Reap, Exit, TypeOK, Custody, ChildRecords
  <1>6. CASE Signal
    <2>1. child' = Hit(child, opt.signal)  BY <1>6 DEF Signal, Kill
    <2>2. child' \in ChildRecords /\ child'.state \in {"alive", "stopped", "zombie"}
      BY <1>6, <1>t, <1>w, <2>1, HitKeepsChild DEF Signal, Custody, Running
    <2>3. sent' \subseteq [signal : Signals \cup {SIGKILL}, at : Nat, step : {"signal", "kill9"}]
      BY <1>6, <1>w DEF Signal, Kill, TypeOK
    <2>4. QED
      BY <1>6, <1>n, <1>w, <2>2, <2>3 DEF Signal, TypeOK, Custody, ChildRecords
  <1>7. CASE ReapGrace
    <2>1. child' \in ChildRecords
      BY <1>7, <1>t DEF ReapGrace, Reap, ChildRecords, ChildStates
    <2>2. QED  BY <1>7, <2>1 DEF ReapGrace, Reap, TypeOK, Custody, ChildRecords
  <1>8. CASE KillHard
    <2>1. child' = Hit(child, SIGKILL)  BY <1>8 DEF KillHard, Kill
    <2>2. child' \in ChildRecords /\ child'.state \in {"alive", "stopped", "zombie"}
      BY <1>8, <1>t, <2>1, HitKeepsChild DEF KillHard, Custody, Running
    <2>3. sent' \subseteq [signal : Signals \cup {SIGKILL}, at : Nat, step : {"signal", "kill9"}]
      BY <1>8, <1>w DEF KillHard, Kill, TypeOK
    <2>4. QED  BY <1>8, <2>2, <2>3 DEF KillHard, TypeOK, Custody, ChildRecords
  <1>9. CASE Wait
    <2>1. child' \in ChildRecords /\ child'.state = "reaped"
      BY <1>9, <1>t DEF Wait, Reap, ChildRecords, ChildStates
    <2>2. status' \in WaitStatuses \cup {NoStatus}
      BY <1>9, <1>t DEF Wait, ChildRecords
    <2>3. QED  BY <1>9, <2>1, <2>2 DEF Wait, TypeOK, Custody, ChildRecords
  <1>10. CASE Report
    <2>1. StatusTimedOut(status) \in -1..255
      BY DEF TypeOK, StatusTimedOut, WaitStatuses, ExitStatuses, Exited,
         Signaled, NoStatus, PossibleSignals, Deliverable, EXIT_TIMEDOUT,
         EXIT_CANNOT_INVOKE, EXIT_ENOENT
    <2>2. QED  BY <1>10, <2>1 DEF Report, Exit, TypeOK, Custody
  <1>11. CASE ChildExec
    <2>1. child.state = "alive"  BY <1>11 DEF ChildExec
    <2>2. CASE child' = [child EXCEPT !.execd = TRUE]
      <3>1. child' \in ChildRecords /\ child'.state = "alive"
        BY <1>t, <2>1, <2>2 DEF ChildRecords
      <3>2. QED  BY <1>11, <2>1, <3>1 DEF ChildExec, TypeOK, Custody, ChildRecords
    <2>3. CASE \E code \in {EXIT_ENOENT, EXIT_CANNOT_INVOKE} :
                 child' = [child EXCEPT !.state = "zombie", !.status = Exited(code)]
      <3>1. PICK code \in {EXIT_ENOENT, EXIT_CANNOT_INVOKE} :
                 child' = [child EXCEPT !.state = "zombie", !.status = Exited(code)]
        BY <2>3
      <3>2. Exited(code) \in WaitStatuses  BY DEF WaitStatuses, ExitStatuses
      <3>3. child' \in ChildRecords /\ child'.state = "zombie"
        BY <1>t, <3>1, <3>2 DEF ChildRecords, ChildStates
      <3>4. QED  BY <1>11, <2>1, <3>3 DEF ChildExec, TypeOK, Custody, ChildRecords
    <2>4. QED  BY <1>11, <2>2, <2>3 DEF ChildExec
  <1>12. CASE CommandExits
    <2>1. \A code \in Codes : Exited(code) \in WaitStatuses
      BY DEF WaitStatuses, ExitStatuses
    <2>2. child' \in ChildRecords /\ child'.state = "zombie"
      BY <1>12, <1>t, <2>1 DEF CommandExits, ChildRecords, ChildStates
    <2>3. QED  BY <1>12, <2>2 DEF CommandExits, TypeOK, Custody, ChildRecords
  <1>13. CASE CommandIgnores
    <2>1. child' \in ChildRecords /\ child'.state = "alive"
      BY <1>13, <1>t DEF CommandIgnores, ChildRecords
    <2>2. QED  BY <1>13, <2>1 DEF CommandIgnores, TypeOK, Custody, ChildRecords
  <1>14. CASE StrangerSignals
    <2>1. PICK s \in Strangers : child' = Hit(child, s)  BY <1>14 DEF StrangerSignals
    <2>2. /\ child' \in ChildRecords
          /\ child.state \notin Running => child' = child
          /\ child.state \in Running => child'.state \in {"alive", "stopped", "zombie"}
      BY <1>t, <2>1, HitKeepsChild
    <2>3. QED
      BY <1>14, <2>2 DEF StrangerSignals, TypeOK, Custody, ChildRecords, Running
  <1>15. CASE Terminated
    BY <1>15 DEF Terminated, vars, TypeOK, Custody
  <1>16. QED
    BY <1>1, <1>2, <1>3, <1>4, <1>5, <1>6, <1>7, <1>8, <1>9, <1>10, <1>11,
       <1>12, <1>13, <1>14, <1>15 DEF Next, TimeoutStep, ChildStep

\* Custody of the child follows timeout's control in every behaviour.
THEOREM SafeAlways ==
    ASSUME NatAssumption
    PROVE  Spec => []Safe
BY SafeInit, SafeStep, PTL DEF Spec

\* The variables of timeout and of the child keep their types, the exit status
\* stays within a byte.
THEOREM TypeCorrect ==
    ASSUME NatAssumption
    PROVE  Spec => []TypeOK
PROOF
  <1>1. Safe => TypeOK  BY DEF Safe
  <1>2. QED  BY <1>1, SafeAlways, PTL

\* For every command line and every behaviour of the command and of other
\* processes, kill() is only called while child_pid is unreaped, and timeout
\* has reaped the process it forked whenever it exits.
THEOREM ChildKept ==
    ASSUME NatAssumption
    PROVE  Spec => []OwnChildOnly
PROOF
  <1>1. Safe => KillsOnlyOwnChild
    BY DEF Safe, Custody, Held, KillsOnlyOwnChild, Running
  <1>2. Safe => NoChildLeft  BY DEF Safe, Custody, NoChildLeft
  <1>3. Safe => OwnChildOnly  BY <1>1, <1>2 DEF OwnChildOnly
  <1>4. QED  BY <1>3, SafeAlways, PTL

(***************************************************************************)
(* The clock at each point of the code, when no duration overflows.        *)
(***************************************************************************)
DurationsFit == \A d \in Durations \cup KillAfters : d <= IntMax

Timely ==
    /\ pc = "fork" => now = 0
    /\ pc = "sleep" => wake >= opt.duration
    /\ pc \in {"reap", "signal", "grace"} => now >= opt.duration
    /\ pc = "grace" => wake >= opt.duration + opt.killAfter
    /\ pc \in {"reapGrace", "kill9"} => now >= opt.duration + opt.killAfter
    /\ NeverEarly

LEMMA TimelyStep ==
    ASSUME NatAssumption, DurationsFit, TypeOK, Timely, [Next]_vars
    PROVE  Timely'
PROOF
  <1> USE DEF Timely, NeverEarly
  <1> SUFFICES ASSUME Next PROVE Timely'
    BY DEF vars
  <1>w. /\ wake \in Nat /\ now \in Nat
        /\ opt.duration \in Nat /\ opt.duration <= IntMax
        /\ opt.killAfter \in Nat /\ opt.killAfter <= IntMax
    BY NatAssumption DEF TypeOK, Options, DurationsFit
  <1>1. CASE Fork
    BY <1>1, <1>w DEF Fork, NapEnd, NanosleepAccepts
  <1>2. CASE Tick
    BY <1>2, <1>w DEF Tick
  <1>3. CASE Wake
    BY <1>3, <1>w DEF Wake
  <1>4. CASE ReapInTime
    BY <1>4, <1>w DEF ReapInTime, Exit
  <1>5. CASE Signal
    <2>1. sent' = sent \cup {[signal |-> opt.signal, at |-> now, step |-> "signal"]}
      BY <1>5 DEF Signal, Kill
    <2>2. NeverEarly'
      BY <1>5, <2>1, <1>w DEF Signal
    <2>3. opt' = opt /\ now' = now /\ now >= opt.duration  BY <1>5 DEF Signal
    <2>4. pc' = "grace" => wake' = now + opt.killAfter
      BY <1>5, <1>w DEF Signal, NapEnd, NanosleepAccepts
    <2>5. pc' \in {"grace", "wait"}  BY <1>5 DEF Signal
    <2>6. QED  BY <1>w, <2>2, <2>3, <2>4, <2>5
  <1>6. CASE KillHard
    <2>1. sent' = sent \cup {[signal |-> SIGKILL, at |-> now, step |-> "kill9"]}
      BY <1>6 DEF KillHard, Kill
    <2>2. NeverEarly'
      BY <1>6, <2>1, <1>w DEF KillHard
    <2>3. QED  BY <1>6, <2>2 DEF KillHard
  <1>7. CASE ForkFails \/ ReapGrace \/ Wait \/ Report
    <2>1. opt' = opt /\ now' = now /\ wake' = wake /\ sent' = sent
      BY <1>7 DEF ForkFails, ReapGrace, Wait, Report
    <2>2. \/ pc' \in {"done", "wait", "report"}
          \/ pc = "reapGrace" /\ pc' = "kill9"
      BY <1>7 DEF ForkFails, ReapGrace, Wait, Report, Exit
    <2>3. QED  BY <2>1, <2>2
  <1>x. CASE ChildStep \/ Terminated
    <2>1. opt' = opt /\ pc' = pc /\ now' = now /\ wake' = wake /\ sent' = sent
      BY <1>x DEF ChildStep, ChildExec, CommandExits, CommandIgnores,
         StrangerSignals, Terminated, vars
    <2>2. QED  BY <2>1
  <1>8. QED
    BY <1>1, <1>2, <1>3, <1>4, <1>5, <1>6, <1>7, <1>x DEF Next, TimeoutStep

\* When every duration fits an int, no signal is sent before DURATION has
\* passed and no SIGKILL before the grace period has passed as well.
THEOREM SignalsOnTime ==
    ASSUME NatAssumption, DurationsFit
    PROVE  Spec => []NeverEarly
PROOF
  <1>1. Init => Timely  BY DEF Init, Timely, NeverEarly
  <1>2. Timely => NeverEarly  BY DEF Timely
  <1>3. QED  BY <1>1, <1>2, TimelyStep, TypeCorrect, PTL DEF Spec

(***************************************************************************)
(* What is known of the signals sent and of the command's end at each      *)
(* point of the code.                                                      *)
(***************************************************************************)
Untold == {"fork", "sleep", "reap", "signal"}
Told == {"grace", "reapGrace", "kill9", "wait", "report"}

History ==
    /\ pc \in Untold => sent = {}
    /\ pc \in Told => sent # {}
    /\ pc # "done" => exitCode = -1
    /\ child.status.how = "none" <=> child.state \in {"none", "alive", "stopped"}
    /\ opt.killAfter = 0 =>
          /\ pc \notin {"grace", "reapGrace", "kill9"}
          /\ pc = "wait" => child.state # "reaped"
          /\ pc = "report" => status = child.status
    /\ StatusTells

\* A signal ends a child only if it was running, and leaves it a status then.
LEMMA HitTells ==
    ASSUME NEW c \in ChildRecords, NEW s \in Nat,
           c.status.how = "none" <=> c.state \in {"none", "alive", "stopped"}
    PROVE  Hit(c, s).status.how = "none" <=> Hit(c, s).state \in {"none", "alive", "stopped"}
PROOF
  <1>1. ASSUME NEW k  PROVE Die(c, k).status.how = "signal" /\ Die(c, k).state = "zombie"
    BY DEF Die, Signaled, ChildRecords
  <1>2. CASE Hit(c, s) \in {Die(c, s), Die(c, c.pending)}
    BY <1>1, <1>2
  <1>3. CASE Hit(c, s) \in {c, [c EXCEPT !.pending = s]}
    BY <1>3 DEF ChildRecords
  <1>4. CASE c.state \in Running /\ Hit(c, s) \in {[c EXCEPT !.state = "stopped"], [c EXCEPT !.state = "alive"]}
    BY <1>4 DEF ChildRecords, Running
  <1>5. QED  BY <1>2, <1>3, <1>4 DEF Hit

LEMMA HistoryStep ==
    ASSUME NatAssumption, Safe, History, [Next]_vars
    PROVE  History'
PROOF
  <1> USE DEF Safe, Held, Untold, Told
  <1> SUFFICES ASSUME Next PROVE History'
    BY DEF vars, History, StatusTells, TimedOutMeansSignalled, StatusPassedThrough,
           PreservedWithoutGrace, PreservedExit
  <1>t. child \in ChildRecords /\ opt \in Options  BY DEF TypeOK, ChildRecords
  <1>h. child.status.how = "none" <=> child.state \in {"none", "alive", "stopped"}  BY DEF History
  <1>s. pc # "done" => exitCode = -1  BY DEF History
  \* Before the end StatusTells says nothing, and the rest follows control.
  <1>e. pc' # "done" /\ exitCode' = -1 => StatusTells'
    BY DEF StatusTells, TimedOutMeansSignalled, StatusPassedThrough, PreservedWithoutGrace,
           PreservedExit, EXIT_TIMEDOUT
  <1>1. CASE ForkFails
    <2>1. child.state = "none" /\ child.status.how = "none"  BY <1>1, <1>h DEF ForkFails, Custody
    <2>2. StatusTells'
      BY <1>1, <2>1 DEF ForkFails, Exit, EXIT_CANCELED, EXIT_TIMEDOUT, StatusTells,
         TimedOutMeansSignalled, StatusPassedThrough, PreservedWithoutGrace, PreservedExit
    <2>3. QED  BY <1>1, <1>h, <2>2 DEF ForkFails, Exit, History
  <1>2. CASE Fork \/ Tick \/ Wake \/ ReapGrace
    <2>1. /\ UNCHANGED <<opt, status, sent, exitCode>> /\ pc # "done" /\ pc' # "done"
          /\ pc \in Untold <=> pc' \in Untold
          /\ pc \in Told <=> pc' \in Told
      BY <1>2 DEF Fork, Tick, Wake, ReapGrace
    <2>2. /\ child'.status = child.status
          /\ child'.state \in {"none", "alive", "stopped"} <=> child.state \in {"none", "alive", "stopped"}
      BY <1>2, <1>t DEF Fork, Tick, Wake, ReapGrace, Reap, Custody, ChildRecords
    <2>3. opt.killAfter = 0 => pc' \notin {"grace", "reapGrace", "kill9", "wait", "report"}
      BY <1>2 DEF Fork, Tick, Wake, ReapGrace, History
    <2>4. QED  BY <1>s, <1>e, <1>h, <2>1, <2>2, <2>3 DEF History
  <1>3. CASE ReapInTime
    <2>1. CASE child.state = "zombie"
      <3>1. /\ child' = Reap(child) /\ exitCode' = StatusInTime(child.status) /\ pc' = "done"
            /\ opt' = opt /\ sent' = sent /\ sent = {} /\ pc = "reap"
        BY <1>3, <2>1 DEF ReapInTime, Exit, History
      <3>2. child'.status = child.status /\ child'.state = "reaped"
        BY <1>t, <3>1 DEF Reap, ChildRecords
      <3>3. child.status \in WaitStatuses  BY <1>t, <1>h, <2>1 DEF ChildRecords, NoStatus
      <3>4. CASE child.status.how = "exit"
        <4>1. /\ exitCode' = child.status.n
              /\ child.status = Exited(child.status.n)
          BY <3>1, <3>3, <3>4 DEF StatusInTime, WaitStatuses, Exited, Signaled
        <4>2. StatusTells'
          BY <3>1, <3>2, <4>1 DEF StatusTells, TimedOutMeansSignalled, StatusPassedThrough,
             PreservedWithoutGrace, PreservedExit
        <4>3. QED  BY <1>h, <2>1, <3>1, <3>2, <4>2 DEF History
      <3>5. CASE child.status.how = "signal"
        <4>1. child.status.n \in 1..64
          BY <3>3, <3>5 DEF WaitStatuses, Exited, Signaled, PossibleSignals, Deliverable
        <4>2. exitCode' # EXIT_TIMEDOUT
          BY <3>1, <3>5, <4>1 DEF StatusInTime, EXIT_TIMEDOUT
        <4>3. StatusTells'
          BY <3>1, <3>2, <3>5, <4>2 DEF StatusTells, TimedOutMeansSignalled, StatusPassedThrough,
             PreservedWithoutGrace, PreservedExit
        <4>4. QED  BY <1>h, <2>1, <3>1, <3>2, <4>3 DEF History
      <3>6. QED  BY <3>3, <3>4, <3>5 DEF WaitStatuses, Exited, Signaled
    <2>2. CASE child.state # "zombie"
      <3>1. /\ UNCHANGED <<opt, child, status, sent, exitCode>> /\ pc = "reap" /\ pc' = "signal"
        BY <1>3, <2>2 DEF ReapInTime
      <3>2. QED  BY <1>s, <1>e, <1>h, <3>1 DEF History
    <2>3. QED  BY <2>1, <2>2
  <1>4. CASE Signal \/ KillHard
    <2>1. PICK s \in Nat : child' = Hit(child, s)
      <3>1. opt.signal \in Nat
        <4>1. opt.signal \in Signals  BY <1>t DEF Options
        <4>2. \A s \in Signals : s \in Nat  BY NatAssumption
        <4>3. QED  BY <4>1, <4>2
      <3>2. SIGKILL \in Nat  BY DEF SIGKILL
      <3>3. child' = Hit(child, opt.signal) \/ child' = Hit(child, SIGKILL)
        BY <1>4 DEF Signal, KillHard, Kill
      <3>4. QED  BY <3>1, <3>2, <3>3
    <2>2. child'.status.how = "none" <=> child'.state \in {"none", "alive", "stopped"}
      BY <1>t, <1>h, <2>1, HitTells
    <2>3. /\ UNCHANGED <<opt, status, exitCode>> /\ sent' # {} /\ pc # "done"
          /\ pc' \in {"grace", "wait"}
          /\ opt.killAfter = 0 => pc' = "wait"
      <3>1. opt.killAfter = 0 => ~(opt.killAfter > 0)
        OBVIOUS
      <3>2. QED  BY <1>4, <3>1 DEF Signal, KillHard, Kill
    <2>4. opt.killAfter = 0 => child'.state # "reaped"
      <3>1. SUFFICES ASSUME opt.killAfter = 0  PROVE child'.state # "reaped"
        OBVIOUS
      <3>2. pc = "signal"  BY <1>4, <3>1 DEF Signal, KillHard, History
      <3>3. child.state \in {"alive", "stopped", "zombie"}  BY <3>2 DEF Custody
      <3>4. child' = Hit(child, opt.signal) /\ opt.signal \in Signals
        BY <1>4, <1>t, <3>2 DEF Signal, KillHard, Kill, Options
      <3>5. CASE child.state = "zombie"
        <4>1. Hit(child, opt.signal) = child  BY <3>5 DEF Hit, Running
        <4>2. QED  BY <3>4, <3>5, <4>1
      <3>6. CASE child.state \in Running
        BY <1>t, <3>4, <3>6, HitKeepsChild
      <3>7. QED  BY <3>3, <3>5, <3>6 DEF Running
    <2>5. QED  BY <1>s, <1>e, <2>2, <2>3, <2>4 DEF History
  <1>5. CASE Wait
    <2>1. /\ UNCHANGED <<opt, sent, exitCode>> /\ pc = "wait" /\ pc' = "report" /\ sent # {}
          /\ \/ child.state = "zombie" /\ child' = Reap(child) /\ status' = child.status
             \/ child.state = "reaped" /\ child' = child
      BY <1>5 DEF Wait, History
    <2>2. child'.status = child.status /\ child'.state = "reaped" /\ child.status.how # "none"
      BY <1>t, <1>h, <2>1 DEF Reap, ChildRecords
    <2>3. opt.killAfter = 0 => status' = child'.status
      BY <2>1, <2>2 DEF History
    <2>4. QED  BY <1>s, <1>e, <2>1, <2>2, <2>3 DEF History
  <1>6. CASE Report
    <2>1. /\ UNCHANGED <<opt, child, sent>> /\ sent # {} /\ pc' = "done" /\ child.state = "reaped"
          /\ exitCode' = StatusTimedOut(status) /\ (opt.killAfter = 0 => status = child.status)
      BY <1>6 DEF Report, Exit, History, Custody
    <2>2. StatusTells'
      BY <2>1 DEF StatusTells, TimedOutMeansSignalled, StatusPassedThrough, PreservedWithoutGrace,
         PreservedExit, StatusTimedOut
    <2>3. QED  BY <1>h, <2>1, <2>2 DEF History
  <1>7. CASE ChildStep
    <2>1. UNCHANGED <<opt, pc, status, sent, exitCode>>
      BY <1>7 DEF ChildStep, ChildExec, CommandExits, CommandIgnores, StrangerSignals
    <2>2. CASE child.state \in Running
      <3>1. /\ child'.status.how = "none" <=> child'.state \in {"none", "alive", "stopped"}
            /\ child'.state # "reaped"
        <4>1. CASE StrangerSignals
          <5>1. PICK s \in Strangers : child' = Hit(child, s)  BY <4>1 DEF StrangerSignals
          <5>2. s \in Nat  BY NatAssumption
          <5>3. QED  BY <1>t, <1>h, <2>2, <5>1, <5>2, HitTells, HitKeepsChild
        <4>2. CASE ChildExec \/ CommandExits \/ CommandIgnores
          <5>1. \/ \E c \in Nat : child' = [child EXCEPT !.state = "zombie", !.status = Exited(c)]
                \/ child' = [child EXCEPT !.execd = TRUE]
                \/ child' = [child EXCEPT !.ignores = TRUE]
            <6>1. \A c \in Codes \cup {EXIT_ENOENT, EXIT_CANNOT_INVOKE} : c \in Nat
              BY NatAssumption DEF EXIT_ENOENT, EXIT_CANNOT_INVOKE
            <6>2. CASE ChildExec  BY <6>1, <6>2 DEF ChildExec
            <6>3. CASE CommandExits  BY <6>1, <6>3 DEF CommandExits
            <6>4. CASE CommandIgnores  BY <6>4 DEF CommandIgnores
            <6>5. QED  BY <4>2, <6>2, <6>3, <6>4
          <5>2. ASSUME NEW c \in Nat, child' = [child EXCEPT !.state = "zombie", !.status = Exited(c)]
                PROVE  child'.status.how = "exit" /\ child'.state = "zombie"
            BY <1>t, <5>2 DEF ChildRecords, Exited
          <5>3. CASE child' = [child EXCEPT !.execd = TRUE] \/ child' = [child EXCEPT !.ignores = TRUE]
            <6>1. child'.status = child.status /\ child'.state = child.state
              BY <1>t, <5>3 DEF ChildRecords
            <6>2. QED  BY <1>h, <2>2, <6>1 DEF Running
          <5>4. QED  BY <5>1, <5>2, <5>3
        <4>3. QED  BY <1>7, <4>1, <4>2 DEF ChildStep
      <3>2. pc \notin {"fork", "report", "done"}  BY <2>2 DEF Custody, Running
      <3>3. QED  BY <1>s, <1>e, <2>1, <3>1, <3>2 DEF History
    <2>3. CASE child.state \notin Running
      <3>1. child' = child
        BY <1>7, <2>3 DEF ChildStep, ChildExec, CommandExits, CommandIgnores, StrangerSignals,
           Hit, Running
      <3>2. QED
        BY <2>1, <3>1 DEF History, StatusTells, TimedOutMeansSignalled, StatusPassedThrough,
           PreservedWithoutGrace, PreservedExit
    <2>4. QED  BY <2>2, <2>3
  <1>8. CASE Terminated
    BY <1>8 DEF Terminated, vars, History, StatusTells, TimedOutMeansSignalled, StatusPassedThrough,
       PreservedWithoutGrace, PreservedExit
  <1>9. QED
    BY <1>1, <1>2, <1>3, <1>4, <1>5, <1>6, <1>7, <1>8 DEF Next, TimeoutStep

\* 124 means that the command was signalled or chose 124; a status chosen in
\* time is passed through, and with --preserve-status but without --kill-after
\* any status the command chose, for all durations, signals and statuses.
THEOREM StatusReported ==
    ASSUME NatAssumption
    PROVE  Spec => []StatusTells
PROOF
  <1>1. Init => History
    BY DEF Init, History, Untold, Told, NoStatus, StatusTells, TimedOutMeansSignalled,
       StatusPassedThrough, PreservedWithoutGrace, PreservedExit, EXIT_TIMEDOUT
  <1>2. History => StatusTells  BY DEF History
  <1>3. QED  BY <1>1, <1>2, HistoryStep, SafeAlways, PTL DEF Spec

----------------------------------------------------------------------------

Handled(p) == fed[p] > 0 \/ p \in skipped
Times(p) == fed[p] + (IF p \in skipped THEN 1 ELSE 0)

Filling == phase \in {"fill", "run"}
Between == phase \in {"next", "each"}

NoItems == phase = "bare" => Items = {}

Prefix == \A p, q \in Items : p < q /\ Handled(q) => Handled(p)
BatchPrefix == Filling => \A p, q \in Items : p < q /\ q \in batch => Handled(p) \/ p \in batch
BeforePos ==
    /\ Between /\ pos < size => \A p \in Items : p < pos => Handled(p)
    /\ Filling /\ pos < size => \A p \in Items : p < pos => Handled(p) \/ p \in batch

ExactBetween == ~overflowed /\ Between =>
    pos <= size /\ \A p \in Items : Times(p) = IF p < pos THEN 1 ELSE 0
ExactFilling == ~overflowed /\ Filling =>
    /\ pos <= size
    /\ \A p \in batch : p < pos
    /\ \A p \in Items : Times(p) = IF p < pos /\ p \notin batch THEN 1 ELSE 0
ExactDone == ~overflowed /\ phase = "done" => \A p \in Items : Times(p) = 1

Inv ==
    /\ XargsTypeOK /\ NoItems
    /\ Prefix /\ BatchPrefix /\ BeforePos
    /\ ExactBetween /\ ExactFilling /\ ExactDone

\* The items are numbered from 0, and pos can count them.
LEMMA ItemsAreNumbered ==
    ASSUME items \in Inputs
    PROVE  /\ size \in Nat /\ size <= SizeMax
           /\ Items = 0..(size - 1)
           /\ \A p \in Items : items[p] \in Nat
<1>1. PICK k \in 0..SizeMax : items \in [0..(k - 1) -> Nat]
  BY InputAssumption
<1>2. k \in Nat /\ k <= SizeMax /\ SizeMax \in Nat
  BY <1>1, InputAssumption
<1>3. Items = 0..(k - 1)
  BY <1>1 DEF Items
<1>4. Cardinality(0..(k - 1)) = IF 0 <= k - 1 THEN (k - 1) - 0 + 1 ELSE 0
  BY <1>2, FS_Interval
<1>5. size = k
  BY <1>2, <1>3, <1>4 DEF size
<1> QED BY <1>1, <1>2, <1>3, <1>5

\* Xargs starts with nothing handled and pos at the first item.
LEMMA InitInv == XargsInit => Inv
<1> SUFFICES ASSUME XargsInit PROVE Inv
  OBVIOUS
<1>1. items \in Inputs
  BY DEF XargsInit
<1>2. size \in Nat /\ Items = 0..(size - 1)
  BY <1>1, ItemsAreNumbered
<1>3. XargsTypeOK
  <2>1. phase \in {"bare", "each", "next", "fill", "run", "done"}
    BY DEF XargsInit
  <2>2. pos \in Nat /\ used_chars \in Nat /\ overflowed \in BOOLEAN
    BY DEF XargsInit
  <2>3. batch \subseteq Items /\ skipped \subseteq Items
    BY DEF XargsInit
  <2>4. fed \in [Items -> 0..2]
    <3>1. fed = [p \in Items |-> 0]
      BY DEF XargsInit
    <3> QED BY <3>1
  <2> QED BY <2>1, <2>2, <2>3, <2>4 DEF XargsInit, XargsTypeOK
<1>4. \A p \in Items : fed[p] = 0
  BY DEF XargsInit
<1>5. NoItems
  BY DEF XargsInit, NoItems, Items
<1>6. \A p \in Items : ~Handled(p) /\ Times(p) = 0
  BY <1>4 DEF XargsInit, Handled, Times
<1>7. phase \in {"bare", "next", "each"} /\ pos = 0
  BY DEF XargsInit
<1>8. Prefix /\ BatchPrefix
  BY <1>6, <1>7 DEF Prefix, BatchPrefix, Filling
<1>9. BeforePos
  BY <1>2, <1>7 DEF BeforePos, Filling
<1>10. ExactBetween /\ ExactFilling /\ ExactDone
  BY <1>2, <1>6, <1>7 DEF ExactBetween, ExactFilling, ExactDone, Filling
<1> QED BY <1>3, <1>5, <1>8, <1>9, <1>10 DEF Inv

\* A command that gets ps leaves no item of ps unfed, and touches no other item.
LEMMA FeedLemma ==
    ASSUME XargsTypeOK, NEW ps \in SUBSET Items, Feed(ps)
    PROVE  /\ fed' \in [Items -> 0..2]
           /\ \A p \in Items : p \in ps => fed'[p] > 0
           /\ \A p \in Items : p \in ps /\ fed[p] = 0 => fed'[p] = 1
           /\ \A p \in Items : p \notin ps => fed'[p] = fed[p]
           /\ \A p \in Items : fed[p] > 0 => fed'[p] > 0
<1>1. fed \in [Items -> 0..2]
  BY DEF XargsTypeOK
<1>2. fed' = [p \in Items |-> IF p \in ps /\ fed[p] < 2 THEN fed[p] + 1 ELSE fed[p]]
  BY DEF Feed
<1>3. \A p \in Items : fed'[p] = IF p \in ps /\ fed[p] < 2 THEN fed[p] + 1 ELSE fed[p]
  BY <1>2
<1>4. \A p \in Items : fed[p] \in 0..2
  BY <1>1
<1>5. fed' \in [Items -> 0..2]
  BY <1>2, <1>4
<1> QED BY <1>3, <1>4, <1>5

\* The input and the options do not change.
LEMMA InputStays ==
    ASSUME [XargsNext]_xargsVars
    PROVE  items' = items /\ mode' = mode /\ nargs' = nargs /\ max_c' = max_c
           /\ Items' = Items /\ size' = size
<1>1. items' = items /\ mode' = mode /\ nargs' = nargs /\ max_c' = max_c
  BY DEF XargsNext, Step, XargsTerminated, xargsVars, input, RunBare, RunReplaced, GiveUp, NewBatch, Take,
     Overflow, Filled, Run, RunFails, Return
<1> QED BY <1>1 DEF Items, size

\* Building a command line: the items move from the input into the batch.
LEMMA FillInv ==
    ASSUME Inv, items' = items, Items' = Items, size' = size,
           mode' = mode, nargs' = nargs, max_c' = max_c,
           NewBatch \/ Take \/ Overflow \/ Filled
    PROVE  Inv'
<1>1. size \in Nat /\ size <= SizeMax /\ Items = 0..(size - 1) /\ \A p \in Items : items[p] \in Nat
  BY ItemsAreNumbered DEF Inv, XargsTypeOK
<1>2. fed' = fed /\ skipped' = skipped
  BY DEF NewBatch, Take, Overflow, Filled
<1>3. \A p \in Items : Handled(p)' = Handled(p) /\ Times(p)' = Times(p)
  BY <1>2 DEF Handled, Times
<1>4. Prefix'
  BY <1>3 DEF Inv, Prefix
<1>5. CASE NewBatch
  <2>1. phase = "next" /\ phase' = "fill" /\ pos < size /\ pos' = pos /\ batch' = {}
        /\ overflowed' = overflowed /\ used_chars' = InitialSize
    BY <1>5 DEF NewBatch
  <2>2. XargsTypeOK'
    BY <1>2, <2>1, InputAssumption DEF Inv, XargsTypeOK
  <2>3. NoItems' /\ BatchPrefix' /\ ExactBetween' /\ ExactDone'
    BY <2>1 DEF NoItems, BatchPrefix, ExactBetween, ExactDone, Between
  <2>4. BeforePos'
    BY <1>3, <2>1 DEF Inv, BeforePos, Between, Filling
  <2>5. ExactFilling'
    BY <1>3, <2>1 DEF Inv, ExactBetween, ExactFilling, Between, Filling
  <2> QED BY <1>4, <2>2, <2>3, <2>4, <2>5 DEF Inv
<1>6. CASE Take
  <2>1. phase = "fill" /\ phase' = "fill" /\ pos < size /\ pos' = pos + 1 /\ batch' = batch \cup {pos}
        /\ overflowed' = overflowed /\ used_chars' = WithNext
    BY <1>6 DEF Take, HasRoom
  <2>2. pos \in Nat /\ pos \in Items /\ used_chars \in Nat
    BY <1>1, <2>1 DEF Inv, XargsTypeOK
  <2>3. WithNext \in Nat
    BY <1>1, <2>2 DEF WithNext
  <2>4. XargsTypeOK'
    BY <1>2, <2>1, <2>2, <2>3 DEF Inv, XargsTypeOK
  <2>5. NoItems' /\ ExactBetween' /\ ExactDone'
    BY <2>1 DEF NoItems, ExactBetween, ExactDone, Between
  <2>6. \A p \in Items : p < pos => Handled(p) \/ p \in batch
    BY <2>1 DEF Inv, BeforePos, Filling
  <2>7. BatchPrefix'
    BY <1>3, <2>1, <2>6 DEF Inv, BatchPrefix, Filling
  <2>8. BeforePos'
    BY <1>1, <1>3, <2>1, <2>2, <2>6 DEF BeforePos, Between, Filling
  <2>9. ExactFilling'
    BY <1>1, <1>3, <2>1, <2>2 DEF Inv, XargsTypeOK, ExactFilling, Filling
  <2> QED BY <1>4, <2>4, <2>5, <2>7, <2>8, <2>9 DEF Inv
<1>7. CASE Overflow
  <2>1. phase = "fill" /\ phase' = "run" /\ pos < size /\ batch' = batch
        /\ pos' = (IF pos = 0 THEN SizeMax ELSE pos - 1)
        /\ overflowed' = TRUE /\ used_chars' = WithNext
    BY <1>7 DEF Overflow, HasRoom
  <2>2. pos \in Nat /\ pos \in Items /\ used_chars \in Nat /\ SizeMax \in Nat
    BY <1>1, <2>1, InputAssumption DEF Inv, XargsTypeOK
  <2>3. WithNext \in Nat
    BY <1>1, <2>2 DEF WithNext
  <2>4. XargsTypeOK'
    BY <1>2, <2>1, <2>2, <2>3 DEF Inv, XargsTypeOK
  <2>5. NoItems' /\ ExactBetween' /\ ExactFilling' /\ ExactDone'
    BY <2>1 DEF NoItems, ExactBetween, ExactFilling, ExactDone, Between
  <2>6. BatchPrefix'
    BY <1>3, <2>1 DEF Inv, BatchPrefix, Filling
  <2>7. BeforePos'
    BY <1>1, <1>3, <2>1, <2>2 DEF Inv, BeforePos, Between, Filling
  <2> QED BY <1>4, <2>4, <2>5, <2>6, <2>7 DEF Inv
<1>8. CASE Filled
  <2>1. phase = "fill" /\ phase' = "run" /\ pos' = pos /\ batch' = batch
        /\ overflowed' = overflowed /\ used_chars' = used_chars
    BY <1>8 DEF Filled
  <2>2. XargsTypeOK'
    BY <1>2, <2>1 DEF Inv, XargsTypeOK
  <2>3. NoItems' /\ ExactBetween' /\ ExactDone'
    BY <2>1 DEF NoItems, ExactBetween, ExactDone, Between
  <2>4. BatchPrefix'
    BY <1>3, <2>1 DEF Inv, BatchPrefix, Filling
  <2>5. BeforePos'
    BY <1>3, <2>1 DEF Inv, BeforePos, Between, Filling
  <2>6. ExactFilling'
    BY <1>3, <2>1 DEF Inv, ExactFilling, Filling
  <2> QED BY <1>4, <2>2, <2>3, <2>4, <2>5, <2>6 DEF Inv
<1> QED BY <1>5, <1>6, <1>7, <1>8

\* Handing items out: with -I one at a time, or the batch, whether or not its
\* command could be forked.
LEMMA HandOutInv ==
    ASSUME Inv, items' = items, Items' = Items, size' = size,
           mode' = mode, nargs' = nargs, max_c' = max_c,
           RunReplaced \/ GiveUp \/ Run \/ RunFails
    PROVE  Inv'
<1>1. size \in Nat /\ size <= SizeMax /\ Items = 0..(size - 1)
  BY ItemsAreNumbered DEF Inv, XargsTypeOK
<1>2. pos \in Nat /\ fed \in [Items -> 0..2] /\ skipped \subseteq Items /\ batch \subseteq Items
  BY DEF Inv, XargsTypeOK
<1>3. \A p \in Items : fed[p] \in 0..2
  BY <1>2
<1>4. CASE RunReplaced
  <2>1. phase = "each" /\ phase' = "each" /\ pos < size /\ pos' = pos + 1
        /\ batch' = batch /\ overflowed' = overflowed /\ used_chars' = used_chars
    BY <1>4 DEF RunReplaced
  <2>2. pos \in Items
    BY <1>1, <1>2, <2>1
  <2>3. /\ fed' \in [Items -> 0..2] /\ skipped' \subseteq Items
        /\ \A p \in Items : p = pos => Handled(p)'
        /\ \A p \in Items : Times(p) = 0 /\ p = pos => Times(p)' = 1
        /\ \A p \in Items : p # pos => (Handled(p)' <=> Handled(p)) /\ Times(p)' = Times(p)
    <3>1. CASE Feed({pos}) /\ skipped' = skipped
      <4>1. /\ fed' \in [Items -> 0..2]
            /\ fed'[pos] > 0 /\ (fed[pos] = 0 => fed'[pos] = 1)
            /\ \A p \in Items : p # pos => fed'[p] = fed[p]
        BY <2>2, <3>1, FeedLemma DEF Inv
      <4> QED BY <1>2, <1>3, <2>1, <2>2, <3>1, <4>1 DEF Handled, Times
    <3>2. CASE skipped' = skipped \cup {pos} /\ fed' = fed
      BY <1>2, <1>3, <2>1, <2>2, <3>2 DEF Handled, Times
    <3> QED BY <1>4, <3>1, <3>2 DEF RunReplaced
  <2>4. XargsTypeOK'
    BY <1>2, <2>1, <2>3 DEF Inv, XargsTypeOK
  <2>5. NoItems' /\ BatchPrefix' /\ ExactFilling' /\ ExactDone'
    BY <2>1 DEF NoItems, BatchPrefix, ExactFilling, ExactDone, Filling
  <2>6. \A p \in Items : p < pos => Handled(p)
    BY <2>1 DEF Inv, BeforePos, Between
  <2>7. \A p \in Items : p < pos + 1 => Handled(p)'
    BY <1>1, <1>2, <2>1, <2>3, <2>6 DEF Handled
  <2>8. \A p, q \in Items : p < q /\ Handled(q)' => Handled(p)'
    <3> SUFFICES ASSUME NEW p \in Items, NEW q \in Items, p < q, Handled(q)'
                 PROVE  Handled(p)'
      OBVIOUS
    <3>1. CASE q = pos
      BY <1>1, <1>2, <2>7, <3>1
    <3>2. CASE q # pos /\ p = pos
      BY <2>1, <2>3, <3>2 DEF Handled
    <3>3. CASE q # pos /\ p # pos
      <4>1. Handled(q)
        BY <2>3, <3>3
      <4>2. Handled(p)
        BY <4>1 DEF Inv, Prefix
      <4> QED BY <2>3, <3>3, <4>2
    <3> QED BY <3>1, <3>2, <3>3
  <2>9. Prefix'
    BY <2>8 DEF Prefix, Handled
  <2>10. BeforePos'
    BY <2>1, <2>7 DEF BeforePos, Between, Filling
  <2>11. ExactBetween'
    BY <1>1, <1>2, <2>1, <2>2, <2>3 DEF Inv, ExactBetween, Between
  <2> QED BY <2>4, <2>5, <2>9, <2>10, <2>11 DEF Inv
<1>5. CASE GiveUp
  <2>1. phase = "each" /\ phase' = "done" /\ pos < size /\ pos' = pos
        /\ batch' = batch /\ overflowed' = overflowed /\ used_chars' = used_chars
    BY <1>5 DEF GiveUp
  <2>2. pos \in Items
    BY <1>1, <1>2, <2>1
  <2>3. /\ fed' \in [Items -> 0..2] /\ skipped' \subseteq Items
        /\ \A p \in Items : Handled(p) => Handled(p)'
        /\ \A p \in Items : p >= pos => Handled(p)'
        /\ \A p \in Items : p < pos => Times(p)' = Times(p)
        /\ \A p \in Items : p >= pos /\ Times(p) = 0 => Times(p)' = 1
    <3>1. CASE Feed({pos}) /\ skipped' = skipped \cup {p \in Items : p > pos}
      <4>1. /\ fed' \in [Items -> 0..2]
            /\ fed'[pos] > 0 /\ (fed[pos] = 0 => fed'[pos] = 1)
            /\ \A p \in Items : p # pos => fed'[p] = fed[p]
        BY <2>2, <3>1, FeedLemma DEF Inv
      <4>2. \A p \in Items : p \in skipped' <=> p \in skipped \/ p > pos
        BY <3>1
      <4>3. skipped' \subseteq Items
        BY <1>2, <3>1
      <4>4. \A p \in Items : p \in Int /\ (p >= pos <=> p = pos \/ p > pos) /\ ~(p = pos /\ p > pos)
                             /\ (p < pos => p # pos /\ ~(p > pos))
        BY <1>1, <1>2
      <4>5. \A p \in Items : Handled(p) => Handled(p)'
        BY <1>3, <4>1, <4>2 DEF Handled
      <4>6. \A p \in Items : p >= pos => Handled(p)'
        BY <4>1, <4>2, <4>4 DEF Handled
      <4>7. \A p \in Items : p < pos => Times(p)' = Times(p)
        BY <4>1, <4>2, <4>4 DEF Times
      <4>8. \A p \in Items : p >= pos /\ Times(p) = 0 => Times(p)' = 1
        BY <1>3, <4>1, <4>2, <4>4 DEF Times
      <4> QED BY <4>1, <4>3, <4>5, <4>6, <4>7, <4>8
    <3>2. CASE skipped' = skipped \cup {p \in Items : p >= pos} /\ fed' = fed
      <4>1. \A p \in Items : p \in skipped' <=> p \in skipped \/ p >= pos
        BY <3>2
      <4>2. skipped' \subseteq Items
        BY <1>2, <3>2
      <4>3. \A p \in Items : p < pos => ~(p >= pos)
        BY <1>1, <1>2
      <4> QED BY <1>2, <1>3, <3>2, <4>1, <4>2, <4>3 DEF Handled, Times
    <3> QED BY <1>5, <3>1, <3>2 DEF GiveUp
  <2>4. XargsTypeOK'
    BY <1>2, <2>1, <2>3 DEF Inv, XargsTypeOK
  <2>5. NoItems' /\ BatchPrefix' /\ BeforePos' /\ ExactBetween' /\ ExactFilling'
    BY <2>1 DEF NoItems, BatchPrefix, BeforePos, ExactBetween, ExactFilling, Between, Filling
  <2>6. \A p \in Items : p < pos => Handled(p)
    BY <2>1 DEF Inv, BeforePos, Between
  <2>7. \A p \in Items : Handled(p)'
    BY <1>1, <1>2, <2>3, <2>6
  <2>8. Prefix'
    BY <2>7 DEF Prefix, Handled
  <2>9. ExactDone'
    BY <1>1, <1>2, <2>1, <2>3 DEF Inv, ExactBetween, ExactDone, Between
  <2> QED BY <2>4, <2>5, <2>8, <2>9 DEF Inv
<1>6. CASE Run \/ RunFails
  <2>1. phase = "run" /\ phase' = "next" /\ pos' = pos
        /\ batch' = batch /\ overflowed' = overflowed /\ used_chars' = used_chars
    BY <1>6 DEF Run, RunFails
  <2>2. /\ fed' \in [Items -> 0..2] /\ skipped' \subseteq Items
        /\ \A p \in Items : p \in batch => Handled(p)'
        /\ \A p \in Items : p \in batch /\ Times(p) = 0 => Times(p)' = 1
        /\ \A p \in Items : p \notin batch => (Handled(p)' <=> Handled(p)) /\ Times(p)' = Times(p)
        /\ \A p \in Items : Handled(p) => Handled(p)'
    <3>1. CASE Run
      <4>1. Feed(batch) /\ skipped' = skipped
        BY <3>1 DEF Run
      <4>2. /\ fed' \in [Items -> 0..2]
            /\ \A p \in Items : p \in batch => fed'[p] > 0
            /\ \A p \in Items : p \in batch /\ fed[p] = 0 => fed'[p] = 1
            /\ \A p \in Items : p \notin batch => fed'[p] = fed[p]
            /\ \A p \in Items : fed[p] > 0 => fed'[p] > 0
        BY <1>2, <4>1, FeedLemma DEF Inv
      <4> QED BY <1>2, <1>3, <4>1, <4>2 DEF Handled, Times
    <3>2. CASE RunFails
      BY <1>2, <1>3, <3>2 DEF RunFails, Handled, Times
    <3> QED BY <1>6, <3>1, <3>2
  <2>3. XargsTypeOK'
    BY <1>2, <2>1, <2>2 DEF Inv, XargsTypeOK
  <2>4. NoItems' /\ BatchPrefix' /\ ExactFilling' /\ ExactDone'
    BY <2>1 DEF NoItems, BatchPrefix, ExactFilling, ExactDone, Filling
  <2>5. \A p, q \in Items : p < q /\ Handled(q)' => Handled(p)'
    <3> SUFFICES ASSUME NEW p \in Items, NEW q \in Items, p < q, Handled(q)'
                 PROVE  Handled(p)'
      OBVIOUS
    <3>1. CASE q \in batch
      <4>1. Handled(p) \/ p \in batch
        BY <2>1, <3>1 DEF Inv, BatchPrefix, Filling
      <4> QED BY <2>2, <4>1
    <3>2. CASE q \notin batch
      <4>1. Handled(q)
        BY <2>2, <3>2
      <4>2. Handled(p)
        BY <4>1 DEF Inv, Prefix
      <4> QED BY <2>2, <4>2
    <3> QED BY <3>1, <3>2
  <2>6. Prefix'
    BY <2>5 DEF Prefix, Handled
  <2>7. \A p \in Items : pos < size /\ p < pos => Handled(p)'
    <3>1. \A p \in Items : pos < size /\ p < pos => Handled(p) \/ p \in batch
      BY <2>1 DEF Inv, BeforePos, Filling
    <3> QED BY <2>2, <3>1
  <2>8. BeforePos'
    BY <2>1, <2>7 DEF BeforePos, Between, Filling, Handled
  <2>9. ExactBetween'
    BY <1>1, <1>2, <2>1, <2>2 DEF Inv, ExactBetween, ExactFilling, Between, Filling
  <2> QED BY <2>3, <2>4, <2>6, <2>8, <2>9 DEF Inv
<1> QED BY <1>4, <1>5, <1>6

\* Every step preserves the invariant.
LEMMA NextInv == Inv /\ [XargsNext]_xargsVars => Inv'
<1> SUFFICES ASSUME Inv, [XargsNext]_xargsVars PROVE Inv'
  OBVIOUS
<1>1. /\ items' = items /\ mode' = mode /\ nargs' = nargs /\ max_c' = max_c
      /\ Items' = Items /\ size' = size
  BY InputStays
<1>2. CASE NewBatch \/ Take \/ Overflow \/ Filled
  BY <1>1, <1>2, FillInv
<1>3. CASE RunReplaced \/ GiveUp \/ Run \/ RunFails
  BY <1>1, <1>3, HandOutInv
<1>4. CASE RunBare \/ Return
  <2>1. /\ phase' = "done" /\ pos' = pos /\ used_chars' = used_chars /\ batch' = batch
        /\ fed' = fed /\ skipped' = skipped /\ overflowed' = overflowed
    BY <1>4 DEF RunBare, Return
  <2>2. \A p \in Items : Handled(p)' = Handled(p) /\ Times(p)' = Times(p)
    BY <2>1 DEF Handled, Times
  <2>3. XargsTypeOK'
    BY <1>1, <2>1 DEF Inv, XargsTypeOK
  <2>4. Prefix'
    BY <1>1, <2>2 DEF Inv, Prefix
  <2>5. NoItems' /\ BatchPrefix' /\ BeforePos' /\ ExactBetween' /\ ExactFilling'
    BY <2>1 DEF NoItems, BatchPrefix, BeforePos, ExactBetween, ExactFilling, Between, Filling
  <2>6. ExactDone'
    <3>1. CASE RunBare
      BY <1>1, <3>1 DEF Inv, NoItems, ExactDone, RunBare
    <3>2. CASE Return
      <4>1. size \in Nat /\ Items = 0..(size - 1) /\ pos \in Nat
        BY ItemsAreNumbered DEF Inv, XargsTypeOK
      <4> QED BY <1>1, <2>1, <2>2, <3>2, <4>1 DEF Inv, ExactBetween, ExactDone, Between, Return
    <3> QED BY <1>4, <3>1, <3>2
  <2> QED BY <2>3, <2>4, <2>5, <2>6 DEF Inv
<1>5. CASE UNCHANGED xargsVars
  BY <1>1, <1>5 DEF xargsVars, input, Inv, XargsTypeOK, NoItems, Prefix, BatchPrefix, BeforePos, ExactBetween,
     ExactFilling, ExactDone, Handled, Times, Filling, Between
<1> QED BY <1>2, <1>3, <1>4, <1>5 DEF XargsNext, Step, XargsTerminated

\* The inductive invariant, for every input, option and limit.
THEOREM InvAlways == XargsSpec => []Inv
  BY InitInv, NextInv, PTL DEF XargsSpec

\* The variables keep their ranges: pos does not go below zero.
THEOREM ItemsTyped == XargsSpec => []XargsTypeOK
<1>1. Inv => XargsTypeOK
  BY DEF Inv
<1> QED BY <1>1, InvAlways, PTL

\* No item is passed over, whatever a limit does to pos.
THEOREM NothingPassedOver == XargsSpec => []NoGap
<1>1. Inv => NoGap
  BY DEF Inv, Prefix, NoGap, Handled
<1> QED BY <1>1, InvAlways, PTL

\* Where no limit ended a batch, xargs uses every item exactly once, or gives
\* it up exactly once.
THEOREM UsedOnce == XargsSpec => []OnceUnlessOverflow
<1>1. Inv => OnceUnlessOverflow
  BY DEF Inv, ExactDone, OnceUnlessOverflow, Times
<1> QED BY <1>1, InvAlways, PTL

(***************************************************************************)
(* The length of a line is a sum over the items of a batch.  Such a sum is *)
(* taken item by item in an order nothing is known of, so that it has to   *)
(* be shown that it exists and that the order does not matter.             *)
(***************************************************************************)
\* The length of a line without its command: every item and a separator.
Length(w, s) == MapThenSumSet(LAMBDA p : w[p] + 1, s)

\* Length is computed by a function on the subsets of s, which takes one item
\* after the other out of them.
One(s) == CHOOSE x \in s : TRUE
Added(w, g, s) == IF s = {} THEN 0 ELSE w[One(s)] + 1 + g[s \ {One(s)}]
Adds(w, g, S) == g = [s \in SUBSET S |-> Added(w, g, s)]
Adder(w, S) == CHOOSE g : Adds(w, g, S)

LEMMA LengthIsAdded == ASSUME NEW w, NEW S PROVE Length(w, S) = Adder(w, S)[S]
BY Zenon DEF Length, MapThenSumSet, MapThenFoldSet, Adds, Added, One, Adder

LEMMA OneOf == ASSUME NEW s, s # {} PROVE One(s) \in s /\ s \ {One(s)} # s
BY DEF One

\* Of some subsets of a finite set one has no other below it.
LEMMA MinimalSubset ==
    ASSUME NEW S, IsFiniteSet(S), NEW N, N \subseteq SUBSET S, N # {}
    PROVE  \E s \in N : \A t \in N : t \subseteq s => t = s
<1>1. N \subseteq FiniteSubsetsOf(S)
  BY FS_FiniteSubsetsOfFinite
<1>2. PICK s \in N : \A t \in N : ~ (<<t, s>> \in StrictSubsetOrdering(S))
  BY <1>1, FS_StrictSubsetOrderingWellFounded, WFMin
<1>3. ASSUME NEW t \in N, t \subseteq s, t # s PROVE FALSE
  BY <1>2, <1>3 DEF StrictSubsetOrdering
<1> QED BY <1>3

LEMMA AddersAgree ==
    ASSUME NEW w, NEW T, IsFiniteSet(T), NEW S, S \subseteq T,
           NEW g, NEW h, Adds(w, g, S), Adds(w, h, T), NEW s, s \subseteq S
    PROVE  g[s] = h[s]
<1> DEFINE N == {t \in SUBSET S : g[t] # h[t]}
<1> SUFFICES ASSUME N # {} PROVE FALSE
  OBVIOUS
<1>1. IsFiniteSet(S)
  BY FS_Subset
<1>2. PICK t \in N : \A u \in N : u \subseteq t => u = t
  <2>1. N \subseteq SUBSET S
    OBVIOUS
  <2> HIDE DEF N
  <2> QED BY <1>1, <2>1, MinimalSubset
<1>3. t \in SUBSET S /\ t \in SUBSET T /\ g[t] # h[t]
  BY <1>2
<1>4. g[t] = Added(w, g, t) /\ h[t] = Added(w, h, t)
  BY <1>3 DEF Adds
<1>5. t # {}
  BY <1>3, <1>4 DEF Added
<1>6. g[t \ {One(t)}] = h[t \ {One(t)}]
  BY <1>2, <1>3, <1>5, OneOf
<1> QED BY <1>3, <1>4, <1>6 DEF Added

LEMMA AdderExists ==
    ASSUME NEW w, NEW S, IsFiniteSet(S)
    PROVE  Adds(w, Adder(w, S), S)
<1> DEFINE N == {s \in SUBSET S : ~ \E g : Adds(w, g, s)}
<1>1. ASSUME N # {} PROVE FALSE
  <2>1. PICK s \in N : \A t \in N : t \subseteq s => t = s
    <3>1. N \subseteq SUBSET S
      OBVIOUS
    <3> HIDE DEF N
    <3> QED BY <1>1, <3>1, MinimalSubset
  <2>2. \A t \in SUBSET s : t # s => Adds(w, Adder(w, t), t)
    <3> SUFFICES ASSUME NEW t \in SUBSET s, t # s PROVE \E g : Adds(w, g, t)
      BY DEF Adder
    <3> QED BY <2>1
  <2> DEFINE h == [t \in SUBSET s |-> IF t = s THEN Added(w, Adder(w, s \ {One(s)}), s) ELSE Adder(w, t)[t]]
  <2>3. ASSUME NEW t \in SUBSET s PROVE h[t] = Added(w, h, t)
    <3> DEFINE u == t \ {One(t)}
    <3>1. CASE t = {}
      <4>1. CASE t = s
        BY <3>1, <4>1 DEF Added
      <4>2. CASE t # s
        <5>1. Adds(w, Adder(w, t), t)
          BY <2>2, <4>2
        <5>2. Adder(w, t)[t] = Added(w, Adder(w, t), t)
          BY <5>1 DEF Adds
        <5> QED BY <3>1, <4>2, <5>2 DEF Added
      <4> QED BY <4>1, <4>2
    <3>2. CASE t # {}
      <4>1. u \in SUBSET t /\ u \in SUBSET s /\ u # s /\ u # t
        BY <3>2, OneOf
      <4>2. h[u] = Adder(w, u)[u]
        BY <4>1
      <4>3. CASE t = s
        <5>1. h[t] = w[One(t)] + 1 + Adder(w, u)[u]
          BY <3>2, <4>3 DEF Added
        <5> QED BY <3>2, <4>2, <5>1 DEF Added
      <4>4. CASE t # s
        <5>1. Adds(w, Adder(w, t), t) /\ Adds(w, Adder(w, u), u)
          BY <2>2, <4>1, <4>4
        <5>2. IsFiniteSet(t)
          BY <2>1, FS_Subset
        <5>3. Adder(w, u)[u] = Adder(w, t)[u]
          <6>1. u \subseteq t /\ u \subseteq u
            BY <4>1
          <6> HIDE DEF u
          <6> QED BY <5>1, <5>2, <6>1, AddersAgree
        <5>4. Adder(w, t)[t] = Added(w, Adder(w, t), t)
          BY <5>1 DEF Adds
        <5>5. h[t] = Adder(w, t)[t]
          BY <4>4
        <5> QED BY <3>2, <4>2, <5>3, <5>4, <5>5 DEF Added
      <4> QED BY <4>3, <4>4
    <3> QED BY <3>1, <3>2
  <2>4. h = [t \in SUBSET s |-> h[t]]
    OBVIOUS
  <2> HIDE DEF h
  <2>5. Adds(w, h, s)
    BY <2>3, <2>4 DEF Adds
  <2> QED BY <2>1, <2>5
<1>2. \E g : Adds(w, g, S)
  BY <1>1
<1> QED BY <1>2 DEF Adder

LEMMA LengthOfOne ==
    ASSUME NEW w, NEW S, IsFiniteSet(S)
    PROVE  /\ Length(w, {}) = 0
           /\ S # {} => Length(w, S) = w[One(S)] + 1 + Length(w, S \ {One(S)})
<1>1. ASSUME NEW T, IsFiniteSet(T)
      PROVE  Length(w, T) = Added(w, Adder(w, T), T)
  <2>1. Adds(w, Adder(w, T), T)
    BY <1>1, AdderExists
  <2>2. Adder(w, T)[T] = Added(w, Adder(w, T), T)
    BY <2>1 DEF Adds
  <2> QED BY <2>2, LengthIsAdded
<1>2. Length(w, {}) = 0
  BY <1>1, FS_EmptySet DEF Added
<1>3. ASSUME S # {} PROVE Length(w, S) = w[One(S)] + 1 + Length(w, S \ {One(S)})
  <2> DEFINE T == S \ {One(S)}
  <2>1. T \subseteq S /\ IsFiniteSet(T)
    BY FS_Subset
  <2>2. Adds(w, Adder(w, T), T) /\ Adds(w, Adder(w, S), S)
    BY <2>1, AdderExists
  <2>3. Adder(w, T)[T] = Adder(w, S)[T]
    BY <2>1, <2>2, AddersAgree
  <2>4. Length(w, T) = Adder(w, T)[T]
    BY LengthIsAdded
  <2> QED BY <1>1, <1>3, <2>3, <2>4 DEF Added
<1> QED BY <1>2, <1>3

\* The sum does not depend on the order in which items are taken.
LEMMA LengthAdds ==
    ASSUME NEW w, NEW S, IsFiniteSet(S), \A p \in S : w[p] \in Nat
    PROVE  /\ Length(w, S) \in Nat
           /\ \A p \in S : Length(w, S) = w[p] + 1 + Length(w, S \ {p})
<1> DEFINE Sums(s) == /\ Length(w, s) \in Nat
                      /\ \A p \in s : Length(w, s) = w[p] + 1 + Length(w, s \ {p})
           N == {s \in SUBSET S : ~Sums(s)}
<1> SUFFICES ASSUME N # {} PROVE FALSE
  OBVIOUS
<1>1. PICK s \in N : \A t \in N : t \subseteq s => t = s
  <2>1. N \subseteq SUBSET S
    OBVIOUS
  <2> HIDE DEF N
  <2> QED BY <2>1, MinimalSubset
<1>2. s \in SUBSET S /\ ~Sums(s) /\ \A t \in SUBSET s : t # s => Sums(t)
  BY <1>1
<1>3. IsFiniteSet(s)
  BY <1>2, FS_Subset
<1> HIDE DEF N
<1>4. s # {}
  <2>1. ASSUME s = {} PROVE Sums(s)
    <3>1. Length(w, {}) = 0
      BY <1>3, LengthOfOne
    <3> QED BY <2>1, <3>1
  <2> QED BY <1>2, <2>1
<1> DEFINE q == One(s)
           rest == s \ {q}
<1>5. q \in s /\ rest \in SUBSET s /\ rest # s
  BY <1>4, OneOf
<1>6. Length(w, s) = w[q] + 1 + Length(w, rest)
  BY <1>3, <1>4, LengthOfOne
<1>7. Sums(rest)
  BY <1>2, <1>5
<1>8. w[q] \in Nat /\ Length(w, s) \in Nat
  BY <1>2, <1>5, <1>6, <1>7
<1>9. ASSUME NEW p \in s PROVE Length(w, s) = w[p] + 1 + Length(w, s \ {p})
  <2>1. CASE p = q
    BY <1>6, <2>1
  <2>2. CASE p # q
    <3> DEFINE others == s \ {p}
               both == rest \ {p}
    <3>1. others \in SUBSET s /\ others # s /\ q \in others /\ p \in rest /\ others \ {q} = both
      BY <1>5, <2>2
    <3>2. Sums(others)
      BY <1>2, <3>1
    <3>3. Length(w, others) = w[q] + 1 + Length(w, both)
      BY <3>1, <3>2
    <3>4. Length(w, rest) = w[p] + 1 + Length(w, both)
      BY <1>7, <3>1
    <3>5. both \in SUBSET s /\ both # s
      BY <1>5
    <3>6. Length(w, both) \in Nat
      BY <1>2, <3>5
    <3>7. w[p] \in Nat /\ w[q] \in Nat
      BY <1>2, <1>5
    <3> HIDE DEF others, both, q, rest
    <3>8. Length(w, s) = w[p] + 1 + Length(w, others)
      BY <1>6, <3>3, <3>4, <3>6, <3>7
    <3> QED BY <3>8 DEF others
  <2> QED BY <2>1, <2>2
<1> QED BY <1>2, <1>8, <1>9
----------------------------------------------------------------------------

\* While a line is built, used_chars counts at least its length; what is in
\* the batch has been found to fit.
Room ==
    /\ phase = "fill" => InitialSize + Length(items, batch) <= used_chars
    /\ Filling /\ batch # {} => InitialSize + Length(items, batch) <= max_c

\* What the sum is over, in any state.
LEMMA BatchIsFinite ==
    ASSUME XargsTypeOK, NEW b, b \subseteq Items
    PROVE  IsFiniteSet(b) /\ Length(items, b) \in Nat /\ \A p \in b : items[p] \in Nat
<1>1. size \in Nat /\ Items = 0..(size - 1) /\ \A p \in Items : items[p] \in Nat
  BY ItemsAreNumbered DEF XargsTypeOK
<1>2. IsFiniteSet(Items)
  BY <1>1, FS_Interval
<1>3. IsFiniteSet(b) /\ \A p \in b : items[p] \in Nat
  BY <1>1, <1>2, FS_Subset
<1>4. Length(items, b) \in Nat
  BY <1>3, LengthAdds
<1> QED BY <1>3, <1>4

\* An item more makes the line longer by no more than WithNext counts.
LEMMA TakenFits ==
    ASSUME XargsTypeOK, Room, Take
    PROVE  /\ InitialSize + Length(items, batch') <= used_chars'
           /\ used_chars' <= max_c
<1>1. /\ phase = "fill" /\ pos < size /\ WithNext <= max_c
      /\ used_chars' = WithNext /\ batch' = batch \cup {pos}
  BY DEF Take, HasRoom
<1>2. pos \in Items /\ items[pos] \in Nat
  BY <1>1, ItemsAreNumbered DEF XargsTypeOK
<1>3. used_chars \in Nat /\ InitialSize \in Nat /\ batch \subseteq Items
  BY InputAssumption DEF XargsTypeOK
<1>4. Length(items, batch) \in Nat /\ InitialSize + Length(items, batch) <= used_chars
  BY <1>1, <1>3, BatchIsFinite DEF Room
<1>5. WithNext \in Nat /\ WithNext >= used_chars + items[pos] + 1
  BY <1>2, <1>3 DEF WithNext
<1>6. CASE pos \in batch
  <2>1. batch' = batch
    BY <1>1, <1>6
  <2>2. Length(items, batch') = Length(items, batch)
    BY <2>1
  <2>3. InitialSize + Length(items, batch) <= WithNext
    BY <1>2, <1>3, <1>4, <1>5
  <2> QED BY <1>1, <2>2, <2>3
<1>7. CASE pos \notin batch
  <2>1. batch' \subseteq Items /\ pos \in batch' /\ batch' \ {pos} = batch
    BY <1>1, <1>2, <1>3, <1>7
  <2>2. IsFiniteSet(batch') /\ \A p \in batch' : items[p] \in Nat
    BY <2>1, BatchIsFinite
  <2>3. Length(items, batch') = items[pos] + 1 + Length(items, batch)
    BY <2>1, <2>2, LengthAdds
  <2> QED BY <1>1, <1>2, <1>3, <1>4, <1>5, <2>3
<1> QED BY <1>6, <1>7

LEMMA RoomStep ==
    ASSUME Inv, Room, [XargsNext]_xargsVars
    PROVE  Room'
<1>1. XargsTypeOK /\ InitialSize \in Nat
  BY InputAssumption DEF Inv
<1>2. items' = items /\ max_c' = max_c
  BY InputStays
<1>3. CASE NewBatch
  <2>1. phase' = "fill" /\ used_chars' = InitialSize /\ batch' = {}
    BY <1>3 DEF NewBatch
  <2>2. Length(items, {}) = 0
    BY FS_EmptySet, LengthOfOne
  <2> QED BY <1>1, <1>2, <2>1, <2>2 DEF Room
<1>4. CASE Take
  <2>1. /\ InitialSize + Length(items, batch') <= used_chars'
        /\ used_chars' <= max_c
    BY <1>1, <1>4, TakenFits
  <2>2. XargsTypeOK' /\ batch' \subseteq Items
    <3>1. XargsTypeOK'
      BY NextInv DEF Inv
    <3>2. Items' = Items
      BY InputStays
    <3> QED BY <3>1, <3>2 DEF XargsTypeOK
  <2>3. Length(items, batch') \in Nat /\ used_chars' \in Nat /\ max_c \in Nat
    BY <1>1, <2>2, BatchIsFinite, InputAssumption DEF XargsTypeOK
  <2> QED BY <1>1, <1>2, <2>1, <2>3 DEF Room
<1>5. CASE Overflow \/ Filled
  <2>1. phase = "fill" /\ phase' = "run" /\ batch' = batch
    BY <1>5 DEF Overflow, Filled
  <2> QED BY <1>2, <2>1 DEF Room, Filling
<1>6. CASE RunBare \/ RunReplaced \/ GiveUp \/ Run \/ RunFails \/ Return
  <2>1. phase' \notin {"fill", "run"}
    BY <1>6 DEF RunBare, RunReplaced, GiveUp, Run, RunFails, Return
  <2> QED BY <2>1 DEF Room, Filling
<1>7. CASE UNCHANGED xargsVars
  BY <1>7 DEF xargsVars, input, Room, Filling
<1> QED BY <1>3, <1>4, <1>5, <1>6, <1>7 DEF XargsNext, Step, XargsTerminated

\* A command line that has items is never longer than -s allows, whatever
\* items come after which, and after any number of overflows.
THEOREM LinesFit == XargsSpec => []LineFits
<1>1. XargsInit => Room
  BY DEF XargsInit, Room, Filling
<1>2. Inv /\ Room /\ [XargsNext]_xargsVars => Room'
  BY RoomStep
<1>3. Room => LineFits
  BY DEF Room, Filling, LineFits, Length
<1> QED BY <1>1, <1>2, <1>3, InvAlways, PTL DEF XargsSpec
=============================================================================
