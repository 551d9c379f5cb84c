------------------------------ MODULE Frecency ------------------------------
(***************************************************************************)
(* What `modbox zoxide` promises: a map from directories to the number of  *)
(* visits.  A command that was asked for changes it in one step, in the    *)
(* way it was asked to, and nothing else ever does.                        *)
(***************************************************************************)
EXTENDS Naturals

CONSTANTS Dirs, Ops, None

VARIABLES
    rank,   \* 0 for a directory that is not in the database
    asked   \* the command that has not had its effect yet, None if there is none

Requests == [op : Ops, dir : Dirs]

Init == rank = [d \in Dirs |-> 0] /\ asked = None

Ask == asked = None /\ asked' \in Requests /\ rank' = rank

\* The effect of a command, after which it is no longer asked for.
Answer(command) ==
    /\ asked \in Requests /\ asked.op = command
    /\ asked' = None

Add == Answer("add") /\ rank' = [rank EXCEPT ![asked.dir] = @ + 1]

Remove == Answer("remove") /\ rank' = [rank EXCEPT ![asked.dir] = 0]

\* The user takes out any directories.
Edit ==
    /\ Answer("edit")
    /\ \E gone \in SUBSET Dirs : rank' = [d \in Dirs |-> IF d \in gone THEN 0 ELSE rank[d]]

List == Answer("list") /\ rank' = rank

Next == Ask \/ Add \/ Remove \/ Edit \/ List

Spec == Init /\ [][Next]_<<rank, asked>>
=============================================================================
