------------------------------- MODULE Zoxide -------------------------------
(***************************************************************************)
(* `modbox zoxide` (src/src/commands/zoxide.cpp): the prompt of every      *)
(* terminal runs `zoxide add`, which reads the whole database, changes it  *)
(* in memory and writes it back, without a lock.                           *)
(*                                                                         *)
(* The database is a sequence of lines, each a directory and its rank; a   *)
(* missing file reads like an empty one.  It fits in the buffer of a file  *)
(* stream (8191 bytes), so that it is read, and written, by one call.      *)
(*                                                                         *)
(* A definition Name_Fault is Name with a plausible mistake in it, used    *)
(* only to show which property notices.                                    *)
(***************************************************************************)
EXTENDS Naturals, Sequences, FiniteSets

CONSTANTS
    Terminals,
    Dirs,
    Ops,        \* the subcommands in use
    Mishaps,    \* whether commands are killed and calls fail
    MaxVisits,  \* bound: additions of one directory
    MaxRuns,    \* bound: commands of one terminal
    None

ASSUME ZoxideAssumption ==
    /\ Ops \subseteq {"add", "remove", "edit", "list"}
    /\ Mishaps \in BOOLEAN
    /\ MaxVisits \in Nat /\ MaxRuns \in Nat
    /\ None \notin Ops \cup Dirs \cup [op : Ops, dir : Dirs]

Line == [path : Dirs, rank : Nat]

VARIABLES
    calm,    \* one command at a time, none of which fails
    db,      \* the lines of the database
    pc,      \* what the command of each terminal does next, "idle" if there is none
    op,      \* its subcommand
    dir,     \* and its directory
    got,     \* the entries it has in memory
    visits,  \* how often each directory has been added so far
    runs     \* how many commands each terminal has run

vars == <<calm, db, pc, op, dir, got, visits, runs>>

Init ==
    /\ calm \in BOOLEAN
    /\ db = <<>>
    /\ pc = [t \in Terminals |-> "idle"]
    /\ op = [t \in Terminals |-> None] /\ dir = [t \in Terminals |-> None]
    /\ got = [t \in Terminals |-> <<>>]
    /\ visits = [d \in Dirs |-> 0]
    /\ runs = [t \in Terminals |-> 0]

Goto(t, where) == pc' = [pc EXCEPT ![t] = where]

\* The command is over, and its memory gone.
End(t) ==
    /\ Goto(t, "idle")
    /\ op' = [op EXCEPT ![t] = None]
    /\ dir' = [dir EXCEPT ![t] = None]
    /\ got' = [got EXCEPT ![t] = <<>>]

(***************************************************************************)
(* Sequences of lines.                                                     *)
(***************************************************************************)
Named(s, d) == {i \in DOMAIN s : s[i].path = d}
First(s, d) == CHOOSE i \in Named(s, d) : \A j \in Named(s, d) : i <= j

\* The lines of s at the positions in kept, in their order: one sequence.
Picked(s, kept) ==
    {[k \in DOMAIN f |-> s[f[k]]] :
        f \in {g \in [1..Cardinality(kept) -> kept] :
                  \A j, k \in DOMAIN g : j < k => g[j] < g[k]}}

\* A line that lost its beginning: the digits left are those of a smaller
\* number.  One that lost a separator too is skipped by load_db.
Cut(line) == {[line EXCEPT !.rank = r] : r \in 0..line.rank}

\* What is left of a file beyond a place that another one's length gave.
Rests(s) ==
    {SubSeq(s, k, Len(s)) : k \in 1..Len(s) + 1}
        \cup UNION {{<<l>> \o SubSeq(s, k + 1, Len(s)) : l \in Cut(s[k])} : k \in DOMAIN s}

(***************************************************************************)
(* The commands.                                                           *)
(***************************************************************************)
Issue(t) ==
    /\ pc[t] = "idle" /\ runs[t] < MaxRuns
    /\ calm => \A u \in Terminals : pc[u] = "idle"
    /\ \E o \in Ops, d \in Dirs :
          /\ o = "add" => visits[d] + Cardinality({u \in Terminals : pc[u] # "idle"}) < MaxVisits
          /\ op' = [op EXCEPT ![t] = o]
          /\ dir' = [dir EXCEPT ![t] = d]
    /\ runs' = [runs EXCEPT ![t] = @ + 1]
    /\ Goto(t, "read")
    /\ UNCHANGED <<calm, db, got, visits>>

\* load_db: an empty file is read once, another one again to find its end.
Read(t) ==
    /\ pc[t] = "read"
    /\ got' = [got EXCEPT ![t] = db]
    /\ Goto(t, IF db = <<>> THEN "change" ELSE "more")
    /\ UNCHANGED <<calm, db, op, dir, visits, runs>>

\* The end, or what another command has written beyond what was read.
ReadMore(t) ==
    /\ pc[t] = "more"
    /\ \E rest \in IF db = got[t] THEN {<<>>} ELSE Rests(db) :
          got' = [got EXCEPT ![t] = @ \o rest]
    /\ Goto(t, "change")
    /\ UNCHANGED <<calm, db, op, dir, visits, runs>>

Added_First(s, d) ==
    IF Named(s, d) = {} THEN Append(s, [path |-> d, rank |-> 1])
    ELSE [s EXCEPT ![1].rank = @ + 1]

Added_NoRank(s, d) ==
    IF Named(s, d) = {} THEN Append(s, [path |-> d, rank |-> None])
    ELSE [s EXCEPT ![First(s, d)].rank = @ + 1]

Added(s, d) ==
    IF Named(s, d) = {} THEN Append(s, [path |-> d, rank |-> 1])
    ELSE [s EXCEPT ![First(s, d)].rank = @ + 1]

Add(t) ==
    /\ pc[t] = "change" /\ op[t] = "add"
    /\ got' = [got EXCEPT ![t] = Added(@, dir[t])]
    /\ visits' = [visits EXCEPT ![dir[t]] = @ + 1]
    /\ Goto(t, "open")
    /\ UNCHANGED <<calm, db, op, dir, runs>>

\* All lines of the directory go; there may be several after a collision.
Remove(t) ==
    /\ pc[t] = "change" /\ op[t] = "remove"
    /\ \/ /\ Named(got[t], dir[t]) # {}
          /\ \E s \in Picked(got[t], DOMAIN got[t] \ Named(got[t], dir[t])) :
                got' = [got EXCEPT ![t] = s]
          /\ Goto(t, "open")
          /\ UNCHANGED <<op, dir>>
       \/ Named(got[t], dir[t]) = {} /\ End(t)
    /\ UNCHANGED <<calm, db, visits, runs>>

\* An editor, in which the user deletes lines and saves, or does not.
Edit(t) ==
    /\ pc[t] = "change" /\ op[t] = "edit"
    /\ \/ \E kept \in SUBSET DOMAIN got[t] : \E s \in Picked(got[t], kept) :
             /\ got' = [got EXCEPT ![t] = s]
             /\ Goto(t, "open")
             /\ UNCHANGED <<op, dir>>
       \/ End(t)
    /\ UNCHANGED <<calm, db, visits, runs>>

\* list and query only read.
List(t) ==
    /\ pc[t] = "change" /\ op[t] = "list"
    /\ End(t)
    /\ UNCHANGED <<calm, db, visits, runs>>

\* save_db: the stream truncates the file when it is opened, ...
Open(t) ==
    /\ pc[t] = "open"
    /\ db' = <<>>
    /\ Goto(t, "write")
    /\ UNCHANGED <<calm, op, dir, got, visits, runs>>

Write_Unflushed(t) ==
    /\ pc[t] = "write"
    /\ db' = db
    /\ End(t)
    /\ UNCHANGED <<calm, visits, runs>>

\* ... and writes its buffer, at the beginning, when it is closed; a longer
\* text that another command has written meanwhile shows behind it.
Write(t) ==
    /\ pc[t] = "write"
    /\ IF got[t] = <<>> THEN db' = db
       ELSE \E rest \in Rests(db) : db' = got[t] \o rest
    /\ End(t)
    /\ UNCHANGED <<calm, visits, runs>>

\* Neither failure is told: open only by a message, write not at all.
SaveFails(t) ==
    /\ Mishaps /\ ~calm
    /\ pc[t] \in {"open", "write"}
    /\ End(t)
    /\ UNCHANGED <<calm, db, visits, runs>>

Kill(t) ==
    /\ Mishaps /\ ~calm
    /\ pc[t] # "idle"
    /\ End(t)
    /\ UNCHANGED <<calm, db, visits, runs>>

Step(t) ==
    \/ Issue(t) \/ Read(t) \/ ReadMore(t) \/ Add(t) \/ Remove(t) \/ Edit(t) \/ List(t)
    \/ Open(t) \/ Write(t) \/ SaveFails(t) \/ Kill(t)

Terminated == (\A t \in Terminals : pc[t] = "idle") /\ UNCHANGED vars

Next == (\E t \in Terminals : Step(t)) \/ Terminated

Spec == Init /\ [][Next]_vars

----------------------------------------------------------------------------

\* The values each variable ranges over.
TypeOK ==
    /\ calm \in BOOLEAN
    /\ db \in Seq(Line)
    /\ pc \in [Terminals -> {"idle", "read", "more", "change", "open", "write"}]
    /\ op \in [Terminals -> Ops \cup {None}] /\ dir \in [Terminals -> Dirs \cup {None}]
    /\ got \in [Terminals -> Seq(Line)]
    /\ visits \in [Dirs -> Nat]
    /\ runs \in [Terminals -> Nat]

Bounded(s) == \A i \in DOMAIN s : s[i].rank <= visits[s[i].path]

\* However commands collide, fail or are killed, no line of the database, and
\* none that a command has in memory, ranks a directory above the number of
\* its visits: collisions lose visits and never make them up.
RankWithinVisits == Bounded(db) /\ \A t \in Terminals : Bounded(got[t])

(***************************************************************************)
(* One command at a time behaves like the map of Frecency.  A command is   *)
(* asked for until it has changed what it read; while it saves, the map is *)
(* what it is about to write.                                              *)
(***************************************************************************)
Looking == {t \in Terminals : pc[t] \in {"read", "more", "change"}}
Saving == {t \in Terminals : pc[t] \in {"open", "write"}}
View == IF Saving = {} THEN db ELSE got[CHOOSE t \in Saving : TRUE]
RankOf(s, d) == IF Named(s, d) = {} THEN 0 ELSE s[First(s, d)].rank
Asked ==
    IF Looking = {} THEN None
    ELSE LET t == CHOOSE u \in Looking : TRUE IN [op |-> op[t], dir |-> dir[t]]

F == INSTANCE Frecency WITH
        rank <- [d \in Dirs |-> IF calm THEN RankOf(View, d) ELSE 0],
        asked <- IF calm THEN Asked ELSE None

\* Commands that do not overlap and do not fail keep every visit: the database
\* counts one more for the directory of an add, forgets that of a remove and
\* what the user takes out in the editor, and changes by nothing else: neither
\* reading it nor truncating and rewriting it loses a line.  Of commands that
\* overlap RankWithinVisits is all that is said: they do lose additions.
KeepsVisits == F!Spec
=============================================================================
