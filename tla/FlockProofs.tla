---------------------------- MODULE FlockProofs ----------------------------
(***************************************************************************)
(* Proofs about Flock, for any number of clients: sections hold the lock   *)
(* they were given, the sections of all clients implement Sections, and    *)
(* each invocation keeps what its options promise, provided no flock       *)
(* process that alone holds the lock (--close) is killed.                  *)
(***************************************************************************)
EXTENDS Flock, TLAPS

HoldersLive == ~LoseHolders

Before == {"start", "arm", "lock", "blocked", "interrupted", "locked", "launch"}

\* What flock's own control implies about its descriptor, lock and command.
Control(i) ==
    /\ pc[i] \in Before => cmd[i] = "none"
    /\ pc[i] \notin Finished \cup {"start"} => "flock" \in open[i]
    /\ pc[i] \in {"locked", "launch"} => held[i] = opt[i].type
    /\ pc[i] \in {"launch", "wait", "command"} => opt[i].form = "file"
    /\ pc[i] = "command" => opt[i].noFork
    /\ pc[i] \in {"arm", "lock", "blocked", "interrupted", "locked", "launch"}
          => ~(opt[i].noFork /\ opt[i].close)
    /\ pc[i] \notin Finished => (opt[i].form = "fd" <=> "shell" \in open[i])
    /\ opt[i].form = "file" => "shell" \notin open[i]

\* Who keeps the description open while the section lasts.
Anchored(i) ==
    cmd[i] \in {"forked", "running"} =>
        /\ held[i] = opt[i].type
        /\ opt[i].form = "fd" =>
              cmd[i] = "running" /\ pc[i] \in Finished /\ "shell" \in open[i]
        /\ opt[i].form = "file" /\ opt[i].noFork =>
              cmd[i] = "running" /\ pc[i] = "command"
        /\ opt[i].form = "file" /\ ~opt[i].noFork =>
              /\ pc[i] \in {"wait", "killed"}
              /\ opt[i].close => pc[i] = "wait"
              /\ cmd[i] = "forked" \/ ~opt[i].close => "command" \in open[i]

\* No two descriptions are locked in conflicting modes.
Disjoint == \A i, j \in Clients : i # j /\ held[i] = "EX" => held[j] = "UN"

Inv ==
    /\ TypeOK
    /\ \A i \in Clients : Control(i) /\ Anchored(i)
    /\ Disjoint

----------------------------------------------------------------------------

LEMMA InvInit ==
    ASSUME OptionAssumption, Init
    PROVE  Inv
PROOF
  <1>1. TypeOK
    BY DEF Init, TypeOK, OptionAssumption, Options, Modes, Forms, Processes
  <1>2. ASSUME NEW i \in Clients
        PROVE  Control(i) /\ Anchored(i) /\ held[i] # "EX" /\ (held[i] # "UN" => held[i] = "SH")
    BY DEF Init, Control, Anchored, Before, Finished, OptionAssumption, Options, Forms
  <1>3. Disjoint  BY <1>2 DEF Disjoint
  <1>4. QED  BY <1>1, <1>2, <1>3 DEF Inv

\* A step of one client leaves the state of every other client alone.
LEMMA Frame ==
    ASSUME TypeOK, NEW k \in Clients, ClientStep(k)
    PROVE  /\ TypeOK'
           /\ opt' = opt
           /\ \A i \in Clients \ {k} :
                /\ pc'[i] = pc[i] /\ held'[i] = held[i]
                /\ open'[i] = open[i] /\ cmd'[i] = cmd[i]
                /\ nb'[i] = nb[i] /\ timer'[i] = timer[i] /\ exitCode'[i] = exitCode[i]
PROOF
  <1> USE DEF TypeOK, Goto, Return, Close, Modes, Processes
  <1>1. CASE Reject(k)  BY <1>1 DEF Reject
  <1>2. CASE Open(k)  BY <1>2 DEF Open
  <1>3. CASE Arm(k)  BY <1>3 DEF Arm
  <1>4. CASE ArmFails(k)  BY <1>4 DEF ArmFails
  <1>t. opt[k].type \in Modes
    BY OptionAssumption DEF OptionAssumption, Options
  <1>5. CASE Lock(k)
    <2>1. CASE Acquire(k)  BY <2>1, <1>t DEF Acquire
    <2>2. CASE Conflict(k)  BY <2>2, <1>t DEF Conflict
    <2>3. CASE WouldBlock(k)  BY <2>3, <1>t DEF WouldBlock
    <2>4. QED  BY <1>5, <2>1, <2>2, <2>3 DEF Lock
  <1>6. CASE LockFails(k)  BY <1>6 DEF LockFails
  <1>7. CASE Granted(k)  BY <1>7, <1>t DEF Granted, Acquire
  <1>8. CASE Interrupted(k)  BY <1>8 DEF Interrupted
  <1>9. CASE Disarm(k)  BY <1>9 DEF Disarm
  <1>10. CASE ReturnLocked(k)  BY <1>10 DEF ReturnLocked
  <1>11. CASE Fork(k)  BY <1>11 DEF Fork
  <1>12. CASE ExecInPlace(k)  BY <1>12 DEF ExecInPlace
  <1>13. CASE LaunchFails(k)  BY <1>13 DEF LaunchFails
  <1>14. CASE ReturnStatus(k)  BY <1>14 DEF ReturnStatus
  <1>15. CASE Alarm(k)  BY <1>15 DEF Alarm
  <1>16. CASE ChildExec(k)  BY <1>16 DEF ChildExec
  <1>17. CASE LeaveDaemon(k)  BY <1>17 DEF LeaveDaemon
  <1>18. CASE DaemonEnds(k)  BY <1>18 DEF DaemonEnds
  <1>19. CASE CommandEnds(k)  BY <1>19 DEF CommandEnds
  <1>20. CASE Unlock(k)  BY <1>20 DEF Unlock
  <1>21. CASE ShellExits(k)  BY <1>21 DEF ShellExits
  <1>22. CASE Kill(k)  BY <1>22 DEF Kill
  <1>23. QED
    BY <1>1, <1>2, <1>3, <1>4, <1>5, <1>6, <1>7, <1>8, <1>9, <1>10, <1>11,
       <1>12, <1>13, <1>14, <1>15, <1>16, <1>17, <1>18, <1>19, <1>20, <1>21,
       <1>22 DEF ClientStep, FlockStep, SectionEnds

\* The client that moves keeps its own control and the hold on its lock.
LEMMA LocalStep ==
    ASSUME OptionAssumption, HoldersLive, TypeOK, NEW k \in Clients,
           Control(k), Anchored(k), ClientStep(k)
    PROVE  Control(k)' /\ Anchored(k)'
PROOF
  <1>t. /\ opt[k] \in Options /\ opt[k] \in CommandLines
        /\ held[k] \in Modes /\ open[k] \in SUBSET Processes
        /\ pc \in [Clients -> {"start", "arm", "lock", "blocked", "interrupted", "locked",
                               "launch", "wait", "command", "done", "killed"}]
        /\ held \in [Clients -> Modes] /\ open \in [Clients -> SUBSET Processes]
        /\ cmd \in [Clients -> {"none", "forked", "running", "ended"}]
    BY DEF TypeOK, OptionAssumption
  <1>f. opt[k].form \in Forms /\ opt[k].type \in Modes /\ opt[k].close \in BOOLEAN
        /\ opt[k].noFork \in BOOLEAN
    BY <1>t DEF Options
  <1> USE <1>t, <1>f DEF Control, Anchored, Before, Finished, Goto, Return, Close, Forms
  <1>1. CASE Reject(k)  BY <1>1 DEF Reject
  <1>2. CASE Open(k)  BY <1>2 DEF Open
  <1>3. CASE Arm(k)  BY <1>3 DEF Arm
  <1>4. CASE ArmFails(k)  BY <1>4 DEF ArmFails
  <1>5. CASE Lock(k)
    <2>1. CASE Acquire(k)  BY <1>5, <2>1 DEF Acquire, Lock
    <2>2. CASE Conflict(k)  BY <1>5, <2>2 DEF Conflict, Lock
    <2>3. CASE WouldBlock(k)  BY <1>5, <2>3 DEF WouldBlock, Lock
    <2>4. QED  BY <1>5, <2>1, <2>2, <2>3 DEF Lock
  <1>6. CASE LockFails(k)  BY <1>6 DEF LockFails
  <1>7. CASE Granted(k)  BY <1>7 DEF Granted, Acquire
  <1>8. CASE Interrupted(k)  BY <1>8 DEF Interrupted
  <1>9. CASE Disarm(k)  BY <1>9 DEF Disarm
  <1>10. CASE ReturnLocked(k)  BY <1>10 DEF ReturnLocked
  <1>11. CASE Fork(k)  BY <1>11 DEF Fork
  <1>12. CASE ExecInPlace(k)  BY <1>12 DEF ExecInPlace
  <1>13. CASE LaunchFails(k)  BY <1>13 DEF LaunchFails
  <1>14. CASE ReturnStatus(k)  BY <1>14 DEF ReturnStatus
  <1>15. CASE Alarm(k)  BY <1>15 DEF Alarm
  <1>16. CASE ChildExec(k)  BY <1>16 DEF ChildExec
  <1>17. CASE LeaveDaemon(k)  BY <1>17 DEF LeaveDaemon
  <1>18. CASE DaemonEnds(k)  BY <1>18 DEF DaemonEnds
  <1>19. CASE CommandEnds(k)  BY <1>19 DEF CommandEnds
  <1>20. CASE Unlock(k)  BY <1>20 DEF Unlock
  <1>21. CASE ShellExits(k)  BY <1>21 DEF ShellExits
  <1>22. CASE Kill(k)  BY <1>22 DEF Kill, HoldersLive
  <1>23. QED
    BY <1>1, <1>2, <1>3, <1>4, <1>5, <1>6, <1>7, <1>8, <1>9, <1>10, <1>11,
       <1>12, <1>13, <1>14, <1>15, <1>16, <1>17, <1>18, <1>19, <1>20, <1>21,
       <1>22 DEF ClientStep, FlockStep, SectionEnds

\* A lock only appears where it is compatible with every other.
LEMMA DisjointStep ==
    ASSUME TypeOK, Disjoint, NEW k \in Clients, ClientStep(k)
    PROVE  Disjoint'
PROOF
  <1>1. \/ held'[k] \in {held[k], "UN"}
        \/ held'[k] = opt[k].type /\ Compatible(k, opt[k].type)
    <2> USE DEF TypeOK, Return, Close
    <2>1. CASE Reject(k) \/ Open(k) \/ Arm(k) \/ ArmFails(k)
      BY <2>1 DEF Reject, Open, Arm, ArmFails
    <2>2. CASE Lock(k) \/ Granted(k)
      BY <2>2 DEF Lock, Granted, Acquire, Conflict, WouldBlock
    <2>3. CASE LockFails(k) \/ Interrupted(k) \/ Disarm(k) \/ ReturnLocked(k)
      BY <2>3 DEF LockFails, Interrupted, Disarm, ReturnLocked
    <2>4. CASE Fork(k) \/ ExecInPlace(k) \/ LaunchFails(k) \/ ReturnStatus(k)
      BY <2>4 DEF Fork, ExecInPlace, LaunchFails, ReturnStatus
    <2>5. CASE Alarm(k) \/ ChildExec(k) \/ LeaveDaemon(k) \/ DaemonEnds(k)
      BY <2>5 DEF Alarm, ChildExec, LeaveDaemon, DaemonEnds
    <2>6. CASE CommandEnds(k) \/ Unlock(k) \/ ShellExits(k) \/ Kill(k)
      BY <2>6 DEF CommandEnds, Unlock, ShellExits, Kill
    <2>7. QED
      BY <2>1, <2>2, <2>3, <2>4, <2>5, <2>6 DEF ClientStep, FlockStep, SectionEnds
  <1>2. \A i \in Clients \ {k} : held'[i] = held[i]  BY Frame
  <1>3. held \in [Clients -> Modes]  BY DEF TypeOK
  <1>4. QED  BY <1>1, <1>2, <1>3 DEF Disjoint, Compatible, Modes

LEMMA InvStep ==
    ASSUME OptionAssumption, HoldersLive, Inv, [Next]_vars
    PROVE  Inv'
PROOF
  <1>1. ASSUME NEW k \in Clients, ClientStep(k)
        PROVE  Inv'
    <2>1. TypeOK' /\ Disjoint' /\ Control(k)' /\ Anchored(k)'
      BY <1>1, Frame, LocalStep, DisjointStep DEF Inv
    <2>2. ASSUME NEW i \in Clients, i # k
          PROVE  Control(i)' /\ Anchored(i)'
      BY <1>1, <2>2, Frame DEF Inv, Control, Anchored, Before, Finished
    <2>3. QED  BY <2>1, <2>2 DEF Inv
  <1>2. CASE UNCHANGED vars
    BY <1>2 DEF Inv, vars, TypeOK, Control, Anchored, Before, Finished, Disjoint
  <1>3. QED  BY <1>1, <1>2 DEF Next, Terminated

THEOREM InvAlways ==
    ASSUME OptionAssumption, HoldersLive
    PROVE  Spec => []Inv
BY InvInit, InvStep, PTL DEF Spec

\* However many clients there are and whichever flock processes are killed,
\* a section runs under the lock it was given until it ends.
THEOREM SectionsHoldTheirLock ==
    ASSUME OptionAssumption, HoldersLive
    PROVE  Spec => []SectionHoldsLock
PROOF
  <1>1. Inv => SectionHoldsLock  BY DEF Inv, Anchored, SectionHoldsLock
  <1>2. QED  BY <1>1, InvAlways, PTL

----------------------------------------------------------------------------
(***************************************************************************)
(* The refinement: the sections of Flock behave as Sections allows.        *)
(***************************************************************************)

LEMMA PromiseInit ==
    ASSUME OptionAssumption, Init
    PROVE  Promise!Init
BY DEF Init, Promise!Init, InSection

\* Every step of flock, of a command or of a shell enters one section, leaves
\* one, or changes no section.
LEMMA PromiseStep ==
    ASSUME OptionAssumption, HoldersLive, Inv, [Next]_vars
    PROVE  [Promise!Next]_InSection
PROOF
  <1>1. ASSUME NEW k \in Clients, ClientStep(k)
        PROVE  [Promise!Next]_InSection
    <2> DEFINE mode(i) == IF cmd[i] = "running" THEN opt[i].type ELSE "UN"
    <2>1. /\ opt' = opt /\ TypeOK'
          /\ \A i \in Clients \ {k} : cmd'[i] = cmd[i]
      BY <1>1, Frame DEF Inv
    <2>2. InSection' = [InSection EXCEPT ![k] = mode(k)']
      BY <2>1 DEF InSection
    <2>3. CASE mode(k)' = mode(k)
      BY <2>1, <2>2, <2>3 DEF InSection
    <2>4. CASE mode(k)' # mode(k) /\ mode(k)' = "UN"
      <3>1. Promise!Leave(k)
        BY <2>2, <2>4 DEF Promise!Leave, InSection
      <3>2. QED  BY <3>1 DEF Promise!Next
    <2>5. CASE mode(k)' # mode(k) /\ mode(k)' # "UN"
      <3>1. cmd'[k] = "running" /\ opt[k].type \in {"SH", "EX"}
        BY <2>1, <2>5 DEF Inv, TypeOK, OptionAssumption, Options, Modes
      <3>2. cmd[k] # "running" /\ mode(k) = "UN"
        BY <2>1, <2>5
      <3>3. Inv'  BY <1>1, InvStep DEF Next
      <3>4. held'[k] = opt[k].type
        BY <2>1, <3>1, <3>3 DEF Inv, Anchored
      <3>5. \A j \in Clients \ {k} : mode(j) = "UN" \/ (mode(j) = "SH" /\ opt[k].type = "SH")
        <4>1. SUFFICES ASSUME NEW j \in Clients \ {k}, cmd[j] = "running"
                       PROVE  opt[j].type = "UN" \/ (opt[j].type = "SH" /\ opt[k].type = "SH")
          OBVIOUS
        <4>2. held'[j] = opt[j].type
          BY <2>1, <3>3, <4>1 DEF Inv, Anchored
        <4>3. held'[j] \in Modes  BY <3>3 DEF Inv, TypeOK
        <4>4. (held'[j] = "EX" => held'[k] = "UN") /\ (held'[k] = "EX" => held'[j] = "UN")
          BY <3>3, <4>1 DEF Inv, Disjoint
        <4>5. QED  BY <3>1, <3>4, <4>2, <4>3, <4>4 DEF Modes
      <3>6. Promise!Enter(k, opt[k].type)
        <4>1. InSection[k] = "UN"  BY <3>2 DEF InSection
        <4>2. Promise!Compatible(k, opt[k].type)
          BY <3>5 DEF Promise!Compatible, InSection
        <4>3. InSection' = [InSection EXCEPT ![k] = opt[k].type]
          BY <2>1, <2>2, <3>1
        <4>4. QED  BY <4>1, <4>2, <4>3 DEF Promise!Enter
      <3>7. QED  BY <3>1, <3>6 DEF Promise!Next
    <2>6. QED  BY <2>3, <2>4, <2>5
  <1>2. CASE UNCHANGED vars
    BY <1>2 DEF vars, InSection
  <1>3. QED  BY <1>1, <1>2 DEF Next, Terminated

\* flock implements Sections for any number of clients and any command lines.
THEOREM FlockTakesTurns ==
    ASSUME OptionAssumption, HoldersLive
    PROVE  Spec => TakesTurns
BY InvAlways, PromiseInit, PromiseStep, PTL DEF Spec, TakesTurns, Promise!Spec

LEMMA SectionsExclude ==
    ASSUME Promise!TypeOK, Promise!Exclusion, [Promise!Next]_InSection
    PROVE  Promise!TypeOK' /\ Promise!Exclusion'
PROOF
  <1> USE DEF Promise!TypeOK, Promise!Exclusion, Promise!Modes
  <1>1. CASE UNCHANGED InSection  BY <1>1
  <1>2. ASSUME NEW k \in Clients, Promise!Leave(k)
        PROVE  Promise!TypeOK' /\ Promise!Exclusion'
    BY <1>2 DEF Promise!Leave
  <1>3. ASSUME NEW k \in Clients, NEW m \in {"SH", "EX"}, Promise!Enter(k, m)
        PROVE  Promise!TypeOK' /\ Promise!Exclusion'
    BY <1>3 DEF Promise!Enter, Promise!Compatible
  <1>4. QED  BY <1>1, <1>2, <1>3 DEF Promise!Next

\* What Sections promises, read off it: an exclusive section is alone.
THEOREM ExclusiveSections ==
    ASSUME OptionAssumption, HoldersLive
    PROVE  Spec => []Promise!Exclusion
PROOF
  <1>1. Promise!Init => Promise!TypeOK /\ Promise!Exclusion
    BY DEF Promise!Init, Promise!TypeOK, Promise!Exclusion, Promise!Modes
  <1>2. QED
    BY <1>1, SectionsExclude, FlockTakesTurns, PTL DEF TakesTurns, Promise!Spec

----------------------------------------------------------------------------
(***************************************************************************)
(* What the options promise.                                               *)
(***************************************************************************)

\* The exit code, the timer, the descriptors and LOCK_NB at each point.
Kept(i) ==
    /\ pc[i] # "done" => exitCode[i] = "none"
    /\ exitCode[i] = "conflict" => cmd[i] = "none"
    /\ pc[i] \in {"launch", "wait", "command"} => timer[i] = "off"
    /\ open[i] = {} => held[i] = "UN"
    /\ pc[i] \in Finished \cup {"start"} => "flock" \notin open[i]
    /\ "command" \in open[i] =>
          cmd[i] \in {"forked", "running"} /\ opt[i].form = "file" /\ ~opt[i].noFork
    /\ opt[i].close =>
          /\ pc[i] # "command"
          /\ cmd[i] = "running" => "command" \notin open[i]
          /\ "daemon" \notin open[i]
    /\ opt[i].nb => nb[i]
    /\ opt[i].timeout = "zero" => pc[i] \in {"start", "arm"} \cup Finished \/ nb[i]
    /\ pc[i] = "blocked" => ~nb[i]

AllKept == \A i \in Clients : Kept(i)

LEMMA KeptLocal ==
    ASSUME OptionAssumption, TypeOK, NEW k \in Clients,
           Control(k), Anchored(k), Kept(k), ClientStep(k)
    PROVE  Kept(k)'
PROOF
  <1>t. /\ opt[k] \in Options
        /\ held[k] \in Modes /\ open[k] \in SUBSET Processes
        /\ pc \in [Clients -> {"start", "arm", "lock", "blocked", "interrupted", "locked",
                               "launch", "wait", "command", "done", "killed"}]
        /\ held \in [Clients -> Modes] /\ open \in [Clients -> SUBSET Processes]
        /\ cmd \in [Clients -> {"none", "forked", "running", "ended"}]
        /\ nb \in [Clients -> BOOLEAN] /\ timer \in [Clients -> {"off", "armed"}]
        /\ exitCode \in [Clients -> {"none", "usage", "error", "timer", "conflict", "exec", "ok", "status"}]
    BY DEF TypeOK, OptionAssumption
  <1>f. opt[k].form \in Forms /\ opt[k].close \in BOOLEAN /\ opt[k].noFork \in BOOLEAN
        /\ opt[k].nb \in BOOLEAN
    BY <1>t DEF Options
  <1> USE <1>t, <1>f DEF Control, Anchored, Kept, Before, Finished, Goto, Return, Close, Forms
  <1>1. CASE Reject(k)  BY <1>1 DEF Reject
  <1>2. CASE Open(k)  BY <1>2 DEF Open
  <1>3. CASE Arm(k)  BY <1>3 DEF Arm
  <1>4. CASE ArmFails(k)  BY <1>4 DEF ArmFails
  <1>5. CASE Lock(k)
    <2>1. CASE Acquire(k)  BY <1>5, <2>1 DEF Acquire, Lock
    <2>2. CASE Conflict(k)  BY <1>5, <2>2 DEF Conflict, Lock
    <2>3. CASE WouldBlock(k)  BY <1>5, <2>3 DEF WouldBlock, Lock
    <2>4. QED  BY <1>5, <2>1, <2>2, <2>3 DEF Lock
  <1>6. CASE LockFails(k)  BY <1>6 DEF LockFails
  <1>7. CASE Granted(k)  BY <1>7 DEF Granted, Acquire
  <1>8. CASE Interrupted(k)  BY <1>8 DEF Interrupted
  <1>9. CASE Disarm(k)  BY <1>9 DEF Disarm
  <1>10. CASE ReturnLocked(k)  BY <1>10 DEF ReturnLocked
  <1>11. CASE Fork(k)  BY <1>11 DEF Fork
  <1>12. CASE ExecInPlace(k)  BY <1>12 DEF ExecInPlace
  <1>13. CASE LaunchFails(k)  BY <1>13 DEF LaunchFails
  <1>14. CASE ReturnStatus(k)  BY <1>14 DEF ReturnStatus
  <1>15. CASE Alarm(k)  BY <1>15 DEF Alarm
  <1>16. CASE ChildExec(k)  BY <1>16 DEF ChildExec
  <1>17. CASE LeaveDaemon(k)  BY <1>17 DEF LeaveDaemon
  <1>18. CASE DaemonEnds(k)  BY <1>18 DEF DaemonEnds
  <1>19. CASE CommandEnds(k)  BY <1>19 DEF CommandEnds
  <1>20. CASE Unlock(k)  BY <1>20 DEF Unlock
  <1>21. CASE ShellExits(k)  BY <1>21 DEF ShellExits
  <1>22. CASE Kill(k)  BY <1>22 DEF Kill
  <1>23. QED
    BY <1>1, <1>2, <1>3, <1>4, <1>5, <1>6, <1>7, <1>8, <1>9, <1>10, <1>11,
       <1>12, <1>13, <1>14, <1>15, <1>16, <1>17, <1>18, <1>19, <1>20, <1>21,
       <1>22 DEF ClientStep, FlockStep, SectionEnds

LEMMA KeptStep ==
    ASSUME OptionAssumption, Inv, AllKept, [Next]_vars
    PROVE  AllKept'
PROOF
  <1> USE DEF AllKept
  <1>1. ASSUME NEW k \in Clients, ClientStep(k), NEW i \in Clients
        PROVE  Kept(i)'
    <2>1. CASE i = k  BY <1>1, <2>1, KeptLocal DEF Inv
    <2>2. CASE i # k
      <3>1. /\ opt' = opt /\ pc'[i] = pc[i] /\ held'[i] = held[i] /\ open'[i] = open[i]
            /\ cmd'[i] = cmd[i] /\ nb'[i] = nb[i] /\ timer'[i] = timer[i] /\ exitCode'[i] = exitCode[i]
        BY <1>1, <2>2, Frame DEF Inv
      <3>2. QED  BY <3>1 DEF Kept, Finished
    <2>3. QED  BY <2>1, <2>2
  <1>2. CASE UNCHANGED vars  BY <1>2 DEF vars, Kept, Finished
  <1>3. QED  BY <1>1, <1>2 DEF Next, Terminated

\* Whatever is killed and in whatever order locks come and go: the conflict
\* status means that no command ran, a command never inherits an armed timer,
\* -n never waits, and a command that has ended leaves no lock behind, unless
\* in a process of its own that outlives it.
THEOREM OptionsAreKept ==
    ASSUME OptionAssumption, HoldersLive
    PROVE  Spec => []OptionsKept
PROOF
  <1>1. Init => AllKept
    <2>1. SUFFICES ASSUME Init, NEW i \in Clients  PROVE Kept(i)
      BY DEF AllKept
    <2>2. opt[i] \in CommandLines /\ opt[i] \in Options
      BY <2>1, OptionAssumption DEF Init
    <2>3. opt[i].form = "file" => held[i] = "UN"
      BY <2>1, <2>2, OptionAssumption DEF Init
    <2>4. opt[i].form \in Forms  BY <2>2 DEF Options
    <2>5. QED  BY <2>1, <2>3, <2>4 DEF Init, Kept, Finished, Forms
  <1>2. Inv /\ AllKept => OptionsKept
    <2>1. SUFFICES ASSUME Inv, NEW i \in Clients, Kept(i), Control(i), Anchored(i)
                   PROVE  /\ exitCode[i] = "conflict" => cmd[i] = "none"
                          /\ pc[i] = "command" => timer[i] = "off"
                          /\ opt[i].form = "file" /\ pc[i] = "done" /\ "daemon" \notin open[i]
                                => held[i] = "UN"
                          /\ opt[i].close => "daemon" \notin open[i]
                          /\ opt[i].nb \/ opt[i].timeout = "zero" => pc[i] # "blocked"
      BY DEF AllKept, Inv, OptionsKept, ConflictNeverRan, NoAlarmInCommand, ReleasedWithCommand, NeverBlocks
    <2>2. /\ exitCode[i] = "conflict" => cmd[i] = "none"
          /\ pc[i] = "command" => timer[i] = "off"
          /\ opt[i].close => "daemon" \notin open[i]
          /\ opt[i].nb \/ opt[i].timeout = "zero" => pc[i] # "blocked"
      BY <2>1 DEF Kept, Finished
    <2>3. ASSUME opt[i].form = "file", pc[i] = "done", "daemon" \notin open[i]
          PROVE  held[i] = "UN"
      <3>1. open[i] \subseteq Processes  BY <2>1 DEF Inv, TypeOK
      <3>2. "shell" \notin open[i] /\ "flock" \notin open[i]
        BY <2>1, <2>3 DEF Control, Kept, Finished
      <3>3. cmd[i] \notin {"forked", "running"}  BY <2>1, <2>3 DEF Anchored
      <3>4. "command" \notin open[i]  BY <2>1, <3>3 DEF Kept
      <3>5. open[i] = {}  BY <2>3, <3>1, <3>2, <3>4 DEF Processes
      <3>6. QED  BY <2>1, <3>5 DEF Kept
    <2>4. QED  BY <2>2, <2>3
  <1>3. QED  BY <1>1, <1>2, KeptStep, InvAlways, PTL DEF Spec

=============================================================================
