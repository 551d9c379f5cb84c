------------------------------ MODULE Timeout ------------------------------
(***************************************************************************)
(* `modbox timeout [OPTION] DURATION COMMAND` : src/src/commands/timeout.cpp *)
(*                                                                         *)
(* Two processes share one state: timeout itself, a straight line of       *)
(* system calls followed by the program counter pc, and the child it       *)
(* forks, which the kernel also lets other processes signal.  Time is the  *)
(* variable now; it only moves while timeout is inside nanosleep(), the    *)
(* only place where its passing can be observed.  timeout installs no      *)
(* signal handler, so nanosleep() is never interrupted and the EINTR loop  *)
(* around it is not a behaviour of the program.                            *)
(*                                                                         *)
(* A definition Name_Fault is Name with a plausible mistake in it.  No     *)
(* specification uses it: PROJECT.json puts it in the place of Name to     *)
(* show which property notices.                                            *)
(***************************************************************************)
EXTENDS Integers

CONSTANTS
    Durations,    \* values DURATION may take, in seconds
    KillAfters,   \* values of --kill-after; 0 is "not given"
    Signals,      \* values of --signal
    Strangers,    \* signals other processes may send to the command
    Codes,        \* exit statuses the command may choose
    IntMax        \* largest value of the int that holds whole seconds

ASSUME NatAssumption ==
    /\ Durations \subseteq Nat
    /\ KillAfters \subseteq Nat
    /\ Signals \subseteq 0..255
    /\ Strangers \subseteq 1..64
    /\ Codes \subseteq 0..255
    /\ IntMax \in Nat

SIGKILL == 9
SIGCONT == 18
SIGSTOP == 19

EXIT_TIMEDOUT == 124
EXIT_CANCELED == 125
EXIT_CANNOT_INVOKE == 126
EXIT_ENOENT == 127

VARIABLES
    opt,      \* the command line: duration, killAfter, signal, preserve
    pc,       \* where timeout is
    now,      \* seconds since fork()
    wake,     \* when the current nanosleep() returns
    child,    \* the process timeout forked, as the kernel sees it
    status,   \* the local variable `status` read after the last waitpid()
    sent,     \* history: the kill() calls made, with their time
    exitCode  \* what timeout passed to exit(); -1 while it runs

vars == <<opt, pc, now, wake, child, status, sent, exitCode>>

(***************************************************************************)
(* A wait status is what WIFEXITED and WIFSIGNALED tell apart; "none" is   *)
(* a status for which both are false.                                      *)
(***************************************************************************)
Exited(c) == [how |-> "exit", n |-> c]
Signaled(s) == [how |-> "signal", n |-> s]
NoStatus == [how |-> "none", n |-> 0]
ExitStatuses == Codes \cup {EXIT_CANNOT_INVOKE, EXIT_ENOENT}
Deliverable == 1..64
PossibleSignals == (Signals \cup Strangers \cup {SIGKILL}) \cap Deliverable
WaitStatuses ==
    {Exited(c) : c \in ExitStatuses}
        \cup {Signaled(s) : s \in PossibleSignals}

Running == {"alive", "stopped"}

(***************************************************************************)
(* What kill() does to the child.  0 only probes, and the numbers above 64 *)
(* that --signal accepts fail with EINVAL.                                 *)
(***************************************************************************)
Die(c, s) == [c EXCEPT !.state = "zombie", !.status = Signaled(s)]

Catchable(s) == s \notin {SIGKILL, SIGSTOP, SIGCONT}

Hit(c, s) ==
    IF c.state \notin Running \/ s \notin Deliverable THEN c
    ELSE IF s = SIGSTOP THEN [c EXCEPT !.state = "stopped"]
    ELSE IF s = SIGCONT /\ c.pending = 0 THEN [c EXCEPT !.state = "alive"]
    ELSE IF s = SIGCONT THEN Die(c, c.pending)
    ELSE IF Catchable(s) /\ c.ignores THEN c
    ELSE IF Catchable(s) /\ c.state = "stopped" THEN [c EXCEPT !.pending = s]
    ELSE Die(c, s)

Reap(c) == [c EXCEPT !.state = "reaped"]

(***************************************************************************)
(* static_cast<int>(duration) of a value above INT_MAX does not fit: what  *)
(* the build leaves in the timespec (INT_MIN seconds, or INT_MAX seconds   *)
(* with more than 10^9 nanoseconds) is refused by nanosleep() with EINVAL, *)
(* so the call returns at once.                                            *)
(***************************************************************************)
NanosleepAccepts(d) == d <= IntMax
NapEnd(d) == IF NanosleepAccepts(d) THEN now + d ELSE now

----------------------------------------------------------------------------

\* What the option loop, parse_duration() and parse_signal() let through.
Options == [duration : Durations, killAfter : KillAfters,
            signal : Signals, preserve : BOOLEAN]

Init ==
    /\ opt \in Options
    /\ pc = "fork"
    /\ now = 0
    /\ wake = 0
    /\ child = [state |-> "none", execd |-> FALSE, ignores |-> FALSE,
                pending |-> 0, status |-> NoStatus]
    /\ status = NoStatus
    /\ sent = {}
    /\ exitCode = -1

Exit(code) ==
    /\ exitCode' = code
    /\ pc' = "done"

ForkFails ==
    /\ pc = "fork"
    /\ Exit(EXIT_CANCELED)
    /\ UNCHANGED <<opt, now, wake, child, status, sent>>

\* A zero DURATION skips the sleep and the look at the child that follows it.
Fork ==
    /\ pc = "fork"
    /\ child' = [child EXCEPT !.state = "alive"]
    /\ IF opt.duration = 0
       THEN pc' = "signal" /\ wake' = wake
       ELSE pc' = "sleep" /\ wake' = NapEnd(opt.duration)
    /\ UNCHANGED <<opt, now, status, sent, exitCode>>

Tick ==
    /\ pc \in {"sleep", "grace"}
    /\ now < wake
    /\ now' = now + 1
    /\ UNCHANGED <<opt, pc, wake, child, status, sent, exitCode>>

Wake_NotResumed ==
    /\ pc \in {"sleep", "grace"}
    /\ pc' = IF pc = "sleep" THEN "reap" ELSE "reapGrace"
    /\ UNCHANGED <<opt, now, wake, child, status, sent, exitCode>>

Wake ==
    /\ pc \in {"sleep", "grace"}
    /\ now >= wake
    /\ pc' = IF pc = "sleep" THEN "reap" ELSE "reapGrace"
    /\ UNCHANGED <<opt, now, wake, child, status, sent, exitCode>>

StatusInTime_RawStatus(st) ==
    IF st.how = "exit" THEN 256 * st.n ELSE st.n

\* The status with which timeout exits when the command ended in time.
StatusInTime(st) ==
    CASE st.how = "exit" -> st.n
      [] st.how = "signal" -> IF opt.preserve THEN 128 + st.n ELSE 0
      [] OTHER -> EXIT_TIMEDOUT

ReapInTime ==
    /\ pc = "reap"
    /\ IF child.state = "zombie"
       THEN /\ child' = Reap(child)
            /\ Exit(StatusInTime(child.status))
       ELSE /\ pc' = "signal"
            /\ UNCHANGED <<child, exitCode>>
    /\ UNCHANGED <<opt, now, wake, status, sent>>

Kill(s) ==
    /\ child' = Hit(child, s)
    /\ sent' = sent \cup {[signal |-> s, at |-> now, step |-> pc]}

Signal ==
    /\ pc = "signal"
    /\ Kill(opt.signal)
    /\ IF opt.killAfter > 0
       THEN pc' = "grace" /\ wake' = NapEnd(opt.killAfter)
       ELSE pc' = "wait" /\ wake' = wake
    /\ UNCHANGED <<opt, now, status, exitCode>>

ReapGrace_IgnoresResult ==
    /\ pc = "reapGrace"
    /\ child' = IF child.state = "zombie" THEN Reap(child) ELSE child
    /\ pc' = "kill9"
    /\ UNCHANGED <<opt, now, wake, status, sent, exitCode>>

\* This waitpid() stores into an inner `status` that is never read again.
ReapGrace ==
    /\ pc = "reapGrace"
    /\ IF child.state = "zombie"
       THEN child' = Reap(child) /\ pc' = "wait"
       ELSE child' = child /\ pc' = "kill9"
    /\ UNCHANGED <<opt, now, wake, status, sent, exitCode>>

KillHard_SameSignal ==
    /\ pc = "kill9"
    /\ Kill(opt.signal)
    /\ pc' = "wait"
    /\ UNCHANGED <<opt, now, wake, status, exitCode>>

KillHard ==
    /\ pc = "kill9"
    /\ Kill(SIGKILL)
    /\ pc' = "wait"
    /\ UNCHANGED <<opt, now, wake, status, exitCode>>

\* waitpid() blocks while the child lives.  With no child left it fails with
\* ECHILD and leaves `status` uninitialized: any value may be in it.
Wait ==
    /\ pc = "wait"
    /\ \/ /\ child.state = "zombie"
          /\ child' = Reap(child)
          /\ status' = child.status
       \/ /\ child.state = "reaped"
          /\ child' = child
          /\ status' \in WaitStatuses \cup {NoStatus}
    /\ pc' = "report"
    /\ UNCHANGED <<opt, now, wake, sent, exitCode>>

StatusTimedOut_AlwaysPreserves(st) ==
    IF st.how = "exit" THEN st.n ELSE EXIT_TIMEDOUT

\* The status with which timeout exits once it has signalled the command.
StatusTimedOut(st) ==
    CASE opt.preserve /\ st.how = "exit" -> st.n
      [] opt.preserve /\ st.how = "signal" /\ st.n # opt.signal -> 128 + st.n
      [] OTHER -> EXIT_TIMEDOUT

Report ==
    /\ pc = "report"
    /\ Exit(StatusTimedOut(status))
    /\ UNCHANGED <<opt, now, wake, child, status, sent>>

(***************************************************************************)
(* The child: a copy of timeout until execvp() succeeds, then the command, *)
(* which may end, or arrange to survive the signals that can be caught.    *)
(***************************************************************************)
ChildExec ==
    /\ child.state = "alive"
    /\ ~child.execd
    /\ \/ child' = [child EXCEPT !.execd = TRUE]
       \/ \E code \in {EXIT_ENOENT, EXIT_CANNOT_INVOKE} :
            child' = [child EXCEPT !.state = "zombie", !.status = Exited(code)]
    /\ UNCHANGED <<opt, pc, now, wake, status, sent, exitCode>>

CommandExits ==
    /\ child.state = "alive"
    /\ child.execd
    /\ \E code \in Codes :
         child' = [child EXCEPT !.state = "zombie", !.status = Exited(code)]
    /\ UNCHANGED <<opt, pc, now, wake, status, sent, exitCode>>

CommandIgnores ==
    /\ child.state = "alive"
    /\ child.execd
    /\ child' = [child EXCEPT !.ignores = TRUE]
    /\ UNCHANGED <<opt, pc, now, wake, status, sent, exitCode>>

StrangerSignals ==
    /\ \E s \in Strangers : child' = Hit(child, s)
    /\ UNCHANGED <<opt, pc, now, wake, status, sent, exitCode>>

Terminated == pc = "done" /\ UNCHANGED vars

TimeoutStep ==
    \/ ForkFails \/ Fork \/ Tick \/ Wake \/ ReapInTime \/ Signal
    \/ ReapGrace \/ KillHard \/ Wait \/ Report

ChildStep == ChildExec \/ CommandExits \/ CommandIgnores \/ StrangerSignals

Next == TimeoutStep \/ ChildStep \/ Terminated

\* The scheduler runs timeout and its sleeps expire; the command may hang.
Spec == Init /\ [][Next]_vars /\ WF_vars(TimeoutStep)

----------------------------------------------------------------------------

ChildStates == {"none", "alive", "stopped", "zombie", "reaped"}

\* The values each variable ranges over.
TypeOK ==
    /\ opt \in Options
    /\ pc \in {"fork", "sleep", "reap", "signal", "grace", "reapGrace",
               "kill9", "wait", "report", "done"}
    /\ now \in Nat /\ wake \in Nat
    /\ child \in [state : ChildStates, execd : BOOLEAN, ignores : BOOLEAN,
                  pending : PossibleSignals \cup {0},
                  status : WaitStatuses \cup {NoStatus}]
    /\ status \in WaitStatuses \cup {NoStatus}
    /\ sent \subseteq [signal : Signals \cup {SIGKILL}, at : Nat,
                       step : {"signal", "kill9"}]
    /\ exitCode \in -1..255

\* Every kill() goes to a process that timeout has not reaped yet.  Once
\* waitpid() has returned the child the kernel may give its pid to another
\* process, which the two kill(child_pid, ...) calls would then hit.
KillsOnlyOwnChild ==
    pc \in {"signal", "kill9"} => child.state \in Running \cup {"zombie"}

\* timeout never leaves a process behind: when it exits, the child was reaped,
\* on every path through the two polls and the blocking waitpid().
NoChildLeft ==
    pc = "done" => child.state \in {"none", "reaped"}

\* From fork() to exit timeout deals with its own child, and with nobody else.
OwnChildOnly == KillsOnlyOwnChild /\ NoChildLeft

\* No signal is sent before DURATION has passed, nor SIGKILL before the grace
\* period of --kill-after has passed as well.
NeverEarly ==
    \A k \in sent :
        /\ k.at >= opt.duration
        /\ k.step = "kill9" => k.at >= opt.duration + opt.killAfter

\* 124 reports a timeout: it is the exit status only if the command was
\* signalled, or used that very status itself.
TimedOutMeansSignalled ==
    exitCode = EXIT_TIMEDOUT => sent # {} \/ child.status = Exited(EXIT_TIMEDOUT)

\* A command that ends by itself with a status before the deadline has that
\* status passed through, and after the deadline the status is 124 unless
\* --preserve-status asks for the command's own.
StatusPassedThrough ==
    pc = "done" /\ child.state = "reaped" =>
        /\ sent = {} /\ child.status.how = "exit" => exitCode = child.status.n
        /\ sent # {} /\ ~opt.preserve => exitCode = EXIT_TIMEDOUT

\* With --preserve-status, a command that ended with an exit status, however
\* late, has that status reported.
PreservedExit ==
    pc = "done" /\ opt.preserve /\ child.status.how = "exit"
        => exitCode = child.status.n

\* The same where no grace period was asked for, so that only the blocking
\* waitpid() can have reaped a command that was signalled.
PreservedWithoutGrace == opt.killAfter = 0 => PreservedExit

\* The exit status tells what happened: all three.
StatusTells == TimedOutMeansSignalled /\ StatusPassedThrough /\ PreservedWithoutGrace

\* Once the command has ended timeout ends too: no order of the command's
\* death, the two polls and the signals leaves it waiting.
CommandEndEndsTimeout == (child.state = "zombie") ~> (pc = "done")

\* With --kill-after timeout ends whatever the command does, ignores or is
\* stopped by.
KillAfterBoundsRun == (opt.killAfter > 0) => <>(pc = "done")

\* No run of timeout outlasts both: it ends after its command, or before.
TimeoutEnds == CommandEndEndsTimeout /\ KillAfterBoundsRun

=============================================================================
