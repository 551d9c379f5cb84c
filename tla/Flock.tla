------------------------------- MODULE Flock -------------------------------
(***************************************************************************)
(* `modbox flock [OPTION] FILE COMMAND` and `modbox flock [OPTION] FD` :   *)
(* src/src/commands/flock.cpp, several invocations on one lock file.       *)
(*                                                                         *)
(* The kernel keeps the lock on an open file description, here one for     *)
(* every client: held[i] is the mode in which description i is locked and  *)
(* open[i] the processes that have a descriptor of it.  The description is *)
(* gone, and its lock with it, when the last descriptor is closed.  In the *)
(* file form flock opens the description and the command inherits it; in   *)
(* the descriptor form a shell opened it, and the section is what the      *)
(* shell does until it runs `flock -u` or exits.                           *)
(*                                                                         *)
(* A definition Name_Fault is Name with a plausible mistake in it, used    *)
(* only to show which property notices.                                    *)
(***************************************************************************)
CONSTANTS
    Clients,
    CommandLines,  \* the options a client may be run with
    LoseHolders,   \* whether a flock process that alone holds a lock may be killed
    Daemons        \* whether commands may leave processes behind

Forms == {"file", "fd"}
Modes == {"UN", "SH", "EX"}
Timeouts == {"none", "negative", "zero", "some"}

\* had: the mode in which a shell's descriptor is already locked.
Options == [form : Forms, type : Modes, nb : BOOLEAN, timeout : Timeouts,
            close : BOOLEAN, noFork : BOOLEAN, had : {"UN", "SH"}]

ASSUME OptionAssumption ==
    /\ CommandLines \subseteq Options
    /\ LoseHolders \in BOOLEAN
    /\ Daemons \in BOOLEAN
    /\ \A o \in CommandLines : o.form = "file" => o.had = "UN"

VARIABLES
    opt,       \* the command line of each client
    pc,        \* where its flock process is
    nb,        \* LOCK_NB is part of `block`
    timer,     \* ITIMER_REAL of its flock process: "off" or "armed"
    expired,   \* g_timeout_expired
    held,      \* the kernel's lock on each description
    open,      \* the processes with a descriptor of each description
    cmd,       \* the command, or the shell's section
    exitCode   \* what flock returned, "none" before

vars == <<opt, pc, nb, timer, expired, held, open, cmd, exitCode>>

Processes == {"flock", "command", "daemon", "shell"}
Finished == {"done", "killed"}

(***************************************************************************)
(* flock(2) and close(2).                                                  *)
(***************************************************************************)
Compatible(i, m) ==
    m = "UN" \/ \A j \in Clients \ {i} :
                    held[j] = "UN" \/ (held[j] = "SH" /\ m = "SH")

\* The processes ps lose their descriptors; the last one takes the lock along.
Close(i, ps) ==
    /\ open' = [open EXCEPT ![i] = @ \ ps]
    /\ held' = [held EXCEPT ![i] = IF open[i] \subseteq ps THEN "UN" ELSE @]

----------------------------------------------------------------------------

Init ==
    /\ opt \in [Clients -> CommandLines]
    /\ pc = [i \in Clients |-> "start"]
    /\ nb = [i \in Clients |-> opt[i].nb]
    /\ timer = [i \in Clients |-> "off"]
    /\ expired = [i \in Clients |-> FALSE]
    /\ held = [i \in Clients |-> opt[i].had]
    /\ open = [i \in Clients |-> IF opt[i].form = "fd" THEN {"shell"} ELSE {}]
    /\ cmd = [i \in Clients |-> "none"]
    /\ exitCode = [i \in Clients |-> "none"]

Goto(i, where) == pc' = [pc EXCEPT ![i] = where]

\* flock returns: the process is gone, its timer and its descriptor with it.
Return(i, code) ==
    /\ Goto(i, "done")
    /\ exitCode' = [exitCode EXCEPT ![i] = code]
    /\ timer' = [timer EXCEPT ![i] = "off"]
    /\ Close(i, {"flock"})

Reject(i) ==
    /\ pc[i] = "start"
    /\ \/ /\ opt[i].noFork /\ opt[i].close
          /\ Return(i, "usage")
       \/ /\ opt[i].form = "file"           \* the file cannot be opened
          /\ Return(i, "error")
    /\ UNCHANGED <<opt, nb, expired, cmd>>

Open(i) ==
    /\ pc[i] = "start"
    /\ ~(opt[i].noFork /\ opt[i].close)
    /\ open' = [open EXCEPT ![i] = @ \cup {"flock"}]
    /\ Goto(i, "arm")
    /\ UNCHANGED <<opt, nb, timer, expired, held, cmd, exitCode>>

Arm_AnyTimeout(i) ==
    /\ pc[i] = "arm"
    /\ timer' = [timer EXCEPT ![i] = opt[i].timeout]
    /\ Goto(i, "lock")
    /\ UNCHANGED <<opt, nb, expired, held, open, cmd, exitCode>>

\* setitimer() takes 0 for "disarm", so a zero timeout becomes LOCK_NB.
Arm(i) ==
    /\ pc[i] = "arm"
    /\ opt[i].timeout # "negative"
    /\ nb' = [nb EXCEPT ![i] = @ \/ opt[i].timeout = "zero"]
    /\ timer' = [timer EXCEPT ![i] = IF opt[i].timeout = "some" THEN "armed" ELSE @]
    /\ Goto(i, "lock")
    /\ UNCHANGED <<opt, expired, held, open, cmd, exitCode>>

ArmFails(i) ==
    /\ pc[i] = "arm"
    /\ opt[i].timeout = "negative"
    /\ Return(i, "timer")
    /\ UNCHANGED <<opt, nb, expired, cmd>>

\* SIGALRM: the handler only sets a flag, and a blocked flock() returns EINTR.
Alarm(i) ==
    /\ timer[i] = "armed"
    /\ timer' = [timer EXCEPT ![i] = "off"]
    /\ expired' = [expired EXCEPT ![i] = TRUE]
    /\ pc' = [pc EXCEPT ![i] = IF @ = "blocked" THEN "interrupted" ELSE @]
    /\ UNCHANGED <<opt, nb, held, open, cmd, exitCode>>

Acquire(i) ==
    /\ Compatible(i, opt[i].type)
    /\ held' = [held EXCEPT ![i] = opt[i].type]
    /\ Goto(i, "locked")
    /\ UNCHANGED <<opt, nb, timer, expired, open, cmd, exitCode>>

\* A description that is already locked in another mode loses that lock
\* before the kernel looks for conflicts.
Conflict_KeepsOld(i) ==
    /\ ~Compatible(i, opt[i].type)
    /\ ~nb[i]
    /\ Goto(i, "blocked")
    /\ UNCHANGED <<opt, nb, timer, expired, held, open, cmd, exitCode>>

Conflict(i) ==
    /\ ~Compatible(i, opt[i].type)
    /\ ~nb[i]
    /\ held' = [held EXCEPT ![i] = IF opt[i].type = @ THEN @ ELSE "UN"]
    /\ Goto(i, "blocked")
    /\ UNCHANGED <<opt, nb, timer, expired, open, cmd, exitCode>>

WouldBlock(i) ==
    /\ ~Compatible(i, opt[i].type)
    /\ nb[i]
    /\ Goto(i, "done")
    /\ exitCode' = [exitCode EXCEPT ![i] = "conflict"]
    /\ timer' = [timer EXCEPT ![i] = "off"]
    /\ open' = [open EXCEPT ![i] = @ \ {"flock"}]
    /\ held' = [held EXCEPT ![i] = IF opt[i].type = @ /\ open[i] # {"flock"} THEN @ ELSE "UN"]
    /\ UNCHANGED <<opt, nb, expired, cmd>>

Lock(i) == pc[i] = "lock" /\ (Acquire(i) \/ Conflict(i) \/ WouldBlock(i))

LockFails(i) ==
    /\ pc[i] = "lock"
    /\ Return(i, "error")
    /\ UNCHANGED <<opt, nb, expired, cmd>>

Granted(i) == pc[i] = "blocked" /\ Acquire(i)

Interrupted_RunsAnyway(i) ==
    /\ pc[i] = "interrupted"
    /\ Goto(i, "locked")
    /\ UNCHANGED <<opt, nb, timer, expired, held, open, cmd, exitCode>>

Interrupted(i) ==
    /\ pc[i] = "interrupted"
    /\ Return(i, "conflict")
    /\ UNCHANGED <<opt, nb, expired, cmd>>

Disarm_Forgotten(i) ==
    /\ pc[i] = "locked"
    /\ opt[i].form = "file"
    /\ Goto(i, "launch")
    /\ UNCHANGED <<opt, nb, timer, expired, held, open, cmd, exitCode>>

Disarm(i) ==
    /\ pc[i] = "locked"
    /\ opt[i].form = "file"
    /\ timer' = [timer EXCEPT ![i] = "off"]
    /\ Goto(i, "launch")
    /\ UNCHANGED <<opt, nb, expired, held, open, cmd, exitCode>>

\* Descriptor form: flock is done, and the shell that ran it goes on.
ReturnLocked(i) ==
    /\ pc[i] = "locked"
    /\ opt[i].form = "fd"
    /\ Return(i, "ok")
    /\ cmd' = [cmd EXCEPT ![i] = "running"]
    /\ UNCHANGED <<opt, nb, expired>>

Fork(i) ==
    /\ pc[i] = "launch"
    /\ ~opt[i].noFork
    /\ cmd' = [cmd EXCEPT ![i] = "forked"]
    /\ open' = [open EXCEPT ![i] = @ \cup {"command"}]
    /\ Goto(i, "wait")
    /\ UNCHANGED <<opt, nb, timer, expired, held, exitCode>>

\* --no-fork: the flock process becomes the command.
ExecInPlace(i) ==
    /\ pc[i] = "launch"
    /\ opt[i].noFork
    /\ cmd' = [cmd EXCEPT ![i] = "running"]
    /\ Goto(i, "command")
    /\ UNCHANGED <<opt, nb, timer, expired, held, open, exitCode>>

\* fork() or, with --no-fork, exec fails.
LaunchFails(i) ==
    /\ pc[i] = "launch"
    /\ Return(i, IF opt[i].noFork THEN "exec" ELSE "error")
    /\ UNCHANGED <<opt, nb, expired, cmd>>

ReturnStatus_NoWait(i) ==
    /\ pc[i] = "wait"
    /\ Return(i, "status")
    /\ UNCHANGED <<opt, nb, expired, cmd>>

ReturnStatus(i) ==
    /\ pc[i] = "wait"
    /\ cmd[i] = "ended"
    /\ Return(i, "status")
    /\ UNCHANGED <<opt, nb, expired, cmd>>

(***************************************************************************)
(* The forked child, the command, what it leaves behind, and the shell.    *)
(***************************************************************************)
ChildExec(i) ==
    /\ cmd[i] = "forked"
    /\ \/ /\ cmd' = [cmd EXCEPT ![i] = "running"]
          /\ IF opt[i].close THEN Close(i, {"command"})
             ELSE UNCHANGED <<open, held>>
       \/ /\ cmd' = [cmd EXCEPT ![i] = "ended"]      \* exec failed: _exit(127)
          /\ Close(i, {"command"})
    /\ UNCHANGED <<opt, pc, nb, timer, expired, exitCode>>

\* The command starts a process that inherits its descriptors and outlives it.
LeaveDaemon(i) ==
    /\ Daemons
    /\ cmd[i] = "running"
    /\ opt[i].form = "file"
    /\ (IF opt[i].noFork THEN "flock" ELSE "command") \in open[i]
    /\ open' = [open EXCEPT ![i] = @ \cup {"daemon"}]
    /\ UNCHANGED <<opt, pc, nb, timer, expired, held, cmd, exitCode>>

DaemonEnds(i) ==
    /\ "daemon" \in open[i]
    /\ Close(i, {"daemon"})
    /\ UNCHANGED <<opt, pc, nb, timer, expired, cmd, exitCode>>

CommandEnds(i) ==
    /\ cmd[i] = "running"
    /\ opt[i].form = "file"
    /\ cmd' = [cmd EXCEPT ![i] = "ended"]
    /\ IF opt[i].noFork
       THEN Return(i, "status")
       ELSE Close(i, {"command"}) /\ UNCHANGED <<pc, timer, exitCode>>
    /\ UNCHANGED <<opt, nb, expired>>

\* The shell ends its section with `flock -u`, and keeps its descriptor.
Unlock(i) ==
    /\ cmd[i] = "running"
    /\ opt[i].form = "fd"
    /\ cmd' = [cmd EXCEPT ![i] = "ended"]
    /\ held' = [held EXCEPT ![i] = "UN"]
    /\ UNCHANGED <<opt, pc, nb, timer, expired, open, exitCode>>

\* The shell exits, in the section or out of it.
ShellExits(i) ==
    /\ pc[i] \in Finished
    /\ "shell" \in open[i]
    /\ cmd' = [cmd EXCEPT ![i] = IF @ = "running" THEN "ended" ELSE @]
    /\ Close(i, {"shell"})
    /\ UNCHANGED <<opt, pc, nb, timer, expired, exitCode>>

Kill(i) ==
    /\ opt[i].close => LoseHolders
    /\ pc[i] \notin Finished \cup {"start", "command"}
    /\ Goto(i, "killed")
    /\ timer' = [timer EXCEPT ![i] = "off"]
    /\ Close(i, {"flock"})
    /\ UNCHANGED <<opt, nb, expired, cmd, exitCode>>

FlockStep(i) ==
    \/ Reject(i) \/ Open(i) \/ Arm(i) \/ ArmFails(i) \/ Lock(i) \/ LockFails(i)
    \/ Granted(i) \/ Interrupted(i) \/ Disarm(i) \/ ReturnLocked(i)
    \/ Fork(i) \/ ExecInPlace(i) \/ LaunchFails(i) \/ ReturnStatus(i)

SectionEnds(i) == CommandEnds(i) \/ Unlock(i) \/ ShellExits(i) \/ DaemonEnds(i)

ClientStep(i) ==
    FlockStep(i) \/ Alarm(i) \/ ChildExec(i) \/ LeaveDaemon(i) \/ SectionEnds(i) \/ Kill(i)

Quiet == \A i \in Clients : pc[i] \in Finished /\ open[i] = {}
Terminated == Quiet /\ UNCHANGED vars

Next == (\E i \in Clients : ClientStep(i)) \/ Terminated

\* flock processes are scheduled and their timers expire; commands may hang.
Spec ==
    /\ Init /\ [][Next]_vars
    /\ \A i \in Clients : WF_vars(FlockStep(i)) /\ WF_vars(Alarm(i))

\* Every command, daemon and shell ends as well.
FairSpec ==
    /\ Spec
    /\ \A i \in Clients :
          /\ WF_vars(ChildExec(i)) /\ WF_vars(CommandEnds(i) \/ Unlock(i))
          /\ WF_vars(DaemonEnds(i)) /\ WF_vars(ShellExits(i))

----------------------------------------------------------------------------

\* The values each variable ranges over.
TypeOK ==
    /\ opt \in [Clients -> CommandLines]
    /\ pc \in [Clients -> {"start", "arm", "lock", "blocked", "interrupted", "locked",
                           "launch", "wait", "command", "done", "killed"}]
    /\ nb \in [Clients -> BOOLEAN]
    /\ timer \in [Clients -> {"off", "armed"}]
    /\ expired \in [Clients -> BOOLEAN]
    /\ held \in [Clients -> Modes]
    /\ open \in [Clients -> SUBSET Processes]
    /\ cmd \in [Clients -> {"none", "forked", "running", "ended"}]
    /\ exitCode \in [Clients -> {"none", "usage", "error", "timer", "conflict", "exec", "ok", "status"}]

\* Sections run under the lock: the mode of the section each client is in.
InSection == [i \in Clients |-> IF cmd[i] = "running" THEN opt[i].type ELSE "UN"]

Promise == INSTANCE Sections WITH in <- InSection

\* The commands run under one lock file take turns as Sections says, whatever
\* is killed and in whatever order locks are granted, converted and dropped.
TakesTurns == Promise!Spec

\* A running command, or a shell's section, still has the lock it was given:
\* some process of its own keeps the description open and nobody unlocked it.
SectionHoldsLock ==
    \A i \in Clients : cmd[i] = "running" => held[i] = opt[i].type

\* The conflict exit code means that the command was not run.
ConflictNeverRan ==
    \A i \in Clients : exitCode[i] = "conflict" => cmd[i] = "none"

\* The interval timer survives exec, but the handler does not: a command that
\* replaces flock (--no-fork) with the timer armed would be killed by SIGALRM.
NoAlarmInCommand ==
    \A i \in Clients : pc[i] = "command" => timer[i] = "off"

\* The lock is free once flock has returned, unless a process that the command
\* left behind inherited it; with --close no such process can.
ReleasedWithCommand ==
    \A i \in Clients :
        /\ opt[i].form = "file" /\ pc[i] = "done"
        /\ opt[i].close \/ "daemon" \notin open[i]
        => held[i] = "UN"

\* With -n, or a zero -w, flock never waits for the lock.
NeverBlocks ==
    \A i \in Clients : opt[i].nb \/ opt[i].timeout = "zero" => pc[i] # "blocked"

\* What an invocation tells and leaves behind is what happened: all four.
OptionsKept == ConflictNeverRan /\ NoAlarmInCommand /\ ReleasedWithCommand /\ NeverBlocks

\* When every section ends, every flock does: no order of acquisitions,
\* conversions of a shell's shared lock and kills leaves one waiting for ever.
EveryoneFinishes == \A i \in Clients : <>(pc[i] \in Finished)

=============================================================================
