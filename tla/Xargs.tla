------------------------------- MODULE Xargs -------------------------------
(***************************************************************************)
(* `modbox xargs [OPTION] COMMAND [INITIAL-ARGS]` from the moment its input *)
(* is read: src/src/commands/xargs.cpp, the function xargs_command.         *)
(*                                                                         *)
(* An item is its position in the input, counted from 0 as pos counts; of  *)
(* its text only the length matters.                                       *)
(*                                                                         *)
(* A definition Name_Fault is Name with a plausible mistake in it, used    *)
(* only to show which property notices.                                    *)
(***************************************************************************)
EXTENDS Integers, FiniteSetsExt

CONSTANTS
    Inputs,        \* what may be on standard input: functions from 0..k-1 to lengths
    MaxArgs,       \* values of -n, one of them as large as any input for no -n
    MaxChars,      \* values of -s
    InitialSize,   \* strlen + 1 of COMMAND and INITIAL-ARGS, added up
    SizeMax        \* the largest size_t

Modes == {"append", "replace", "script"}   \* no -I, -I with COMMAND, -I without

ASSUME InputAssumption ==
    /\ \A in \in Inputs : \E k \in 0..SizeMax : in \in [0..(k - 1) -> Nat]
    /\ MaxArgs \subseteq Nat \ {0}
    /\ MaxChars \subseteq Nat \ {0}
    /\ InitialSize \in Nat
    /\ SizeMax \in Nat

VARIABLES
    items,       \* stdin_items: the length of each
    mode,
    nargs,       \* the most items to a command
    max_c,       \* the most characters to a command line
    phase,
    pos,         \* the next item to take
    used_chars,
    batch,       \* the items of the command line being built
    fed,         \* how often each item was given to a command (2: more than once)
    skipped,     \* items whose command could not be forked, or that -I gave up on
    overflowed   \* some batch was ended by max_c

xargsVars == <<items, mode, nargs, max_c, phase, pos, used_chars, batch, fed, skipped, overflowed>>
input == <<items, mode, nargs, max_c>>

Items == DOMAIN items
size == Cardinality(Items)

XargsInit ==
    /\ items \in Inputs
    /\ mode \in Modes
    /\ nargs \in MaxArgs
    /\ max_c \in MaxChars
    /\ phase = IF mode # "append" THEN "each" ELSE IF items = <<>> THEN "bare" ELSE "next"
    /\ pos = 0
    /\ used_chars = 0
    /\ batch = {}
    /\ fed = [p \in Items |-> 0]
    /\ skipped = {}
    /\ overflowed = FALSE

Feed(ps) == fed' = [p \in Items |-> IF p \in ps /\ fed[p] < 2 THEN fed[p] + 1 ELSE fed[p]]

\* Without items the command runs once, with its initial arguments.
RunBare ==
    /\ phase = "bare"
    /\ phase' = "done"
    /\ UNCHANGED <<input, pos, used_chars, batch, fed, skipped, overflowed>>

\* -I: one command for each item, whatever the others returned.
RunReplaced ==
    /\ phase = "each" /\ pos < size
    /\ \/ Feed({pos}) /\ skipped' = skipped
       \/ mode = "replace" /\ skipped' = skipped \cup {pos} /\ fed' = fed
    /\ pos' = pos + 1
    /\ UNCHANGED <<input, phase, used_chars, batch, overflowed>>

\* -I without COMMAND: the items are commands, and the first that fails, or
\* cannot be forked, ends it (max_procs is 1 unless -P is given).
GiveUp ==
    /\ phase = "each" /\ pos < size
    /\ mode = "script"
    /\ \/ Feed({pos}) /\ skipped' = skipped \cup {p \in Items : p > pos}
       \/ skipped' = skipped \cup {p \in Items : p >= pos} /\ fed' = fed
    /\ phase' = "done"
    /\ UNCHANGED <<input, pos, used_chars, batch, overflowed>>

NewBatch ==
    /\ phase = "next" /\ pos < size
    /\ used_chars' = InitialSize
    /\ batch' = {}
    /\ phase' = "fill"
    /\ UNCHANGED <<input, pos, fed, skipped, overflowed>>

\* What used_chars becomes with the next item: a separator is counted twice.
WithNext == used_chars + (IF batch = {} THEN 0 ELSE 1) + items[pos] + 1

HasRoom == pos < size /\ Cardinality(batch) < nargs

Take_OffByOne ==
    /\ phase = "fill" /\ HasRoom
    /\ WithNext <= max_c + 1
    /\ used_chars' = WithNext
    /\ batch' = batch \cup {pos}
    /\ pos' = pos + 1
    /\ UNCHANGED <<input, phase, fed, skipped, overflowed>>

Take ==
    /\ phase = "fill" /\ HasRoom
    /\ WithNext <= max_c
    /\ used_chars' = WithNext
    /\ batch' = batch \cup {pos}
    /\ pos' = pos + 1
    /\ UNCHANGED <<input, phase, fed, skipped, overflowed>>

Overflow_SkipsItem ==
    /\ phase = "fill" /\ HasRoom
    /\ WithNext > max_c
    /\ used_chars' = WithNext
    /\ pos' = pos + 1
    /\ phase' = "run"
    /\ overflowed' = TRUE
    /\ UNCHANGED <<input, batch, fed, skipped>>

Overflow_Signed ==
    /\ phase = "fill" /\ HasRoom
    /\ WithNext > max_c
    /\ used_chars' = WithNext
    /\ pos' = pos - 1
    /\ phase' = "run"
    /\ overflowed' = TRUE
    /\ UNCHANGED <<input, batch, fed, skipped>>

\* pos-- ahead of a break, although the increment of the loop is not reached.
Overflow ==
    /\ phase = "fill" /\ HasRoom
    /\ WithNext > max_c
    /\ used_chars' = WithNext
    /\ pos' = IF pos = 0 THEN SizeMax ELSE pos - 1
    /\ phase' = "run"
    /\ overflowed' = TRUE
    /\ UNCHANGED <<input, batch, fed, skipped>>

Filled_SkipsItem ==
    /\ phase = "fill" /\ ~HasRoom
    /\ phase' = "run"
    /\ pos' = pos + 1
    /\ UNCHANGED <<input, used_chars, batch, fed, skipped, overflowed>>

Filled ==
    /\ phase = "fill" /\ ~HasRoom
    /\ phase' = "run"
    /\ UNCHANGED <<input, pos, used_chars, batch, fed, skipped, overflowed>>

Run ==
    /\ phase = "run"
    /\ Feed(batch)
    /\ phase' = "next"
    /\ UNCHANGED <<input, pos, used_chars, batch, skipped, overflowed>>

RunFails_Retries ==
    /\ phase = "run"
    /\ pos' = IF batch = {} THEN pos ELSE Min(batch)
    /\ phase' = "next"
    /\ UNCHANGED <<input, used_chars, batch, fed, skipped, overflowed>>

\* fork() failed: run_cmd returns 0, and the batch is not tried again.
RunFails ==
    /\ phase = "run"
    /\ skipped' = skipped \cup batch
    /\ phase' = "next"
    /\ UNCHANGED <<input, pos, used_chars, batch, fed, overflowed>>

Return ==
    /\ phase \in {"next", "each"} /\ pos >= size
    /\ phase' = "done"
    /\ UNCHANGED <<input, pos, used_chars, batch, fed, skipped, overflowed>>

Step ==
    \/ RunBare \/ RunReplaced \/ GiveUp \/ NewBatch \/ Take \/ Overflow
    \/ Filled \/ Run \/ RunFails \/ Return

XargsTerminated == phase = "done" /\ UNCHANGED xargsVars

XargsNext == Step \/ XargsTerminated

\* xargs is scheduled and its commands end.
XargsSpec == XargsInit /\ [][XargsNext]_xargsVars /\ WF_xargsVars(Step)

----------------------------------------------------------------------------

\* The values each variable ranges over.
XargsTypeOK ==
    /\ items \in Inputs /\ mode \in Modes /\ nargs \in MaxArgs /\ max_c \in MaxChars
    /\ phase \in {"bare", "each", "next", "fill", "run", "done"}
    /\ pos \in Nat
    /\ used_chars \in Nat
    /\ batch \subseteq Items
    /\ fed \in [Items -> 0..2]
    /\ skipped \subseteq Items
    /\ overflowed \in BOOLEAN

\* No item is passed over: an item is reached only after every one before it
\* was given to a command, or to one that could not be run.
NoGap ==
    \A q \in Items : fed[q] > 0 =>
        \A p \in Items : p < q => fed[p] > 0 \/ p \in skipped

\* A command line that has items is never longer than -s allows.
LineFits ==
    phase = "run" /\ batch # {} =>
        InitialSize + MapThenSumSet(LAMBDA p : items[p] + 1, batch) <= max_c

\* Each item is given to exactly one command, unless max_c ended a batch.
OnceUnlessOverflow ==
    phase = "done" /\ ~overflowed => \A p \in Items : fed[p] + (IF p \in skipped THEN 1 ELSE 0) = 1

\* The longest line that the options can make of this input.
Fits == InitialSize + MapThenSumSet(LAMBDA p : items[p] + 2, Items) <= max_c

\* When even all items together fit into a line, xargs comes to its end.
EndsWhenItFits == Fits \/ mode # "append" => <>(phase = "done")
=============================================================================
