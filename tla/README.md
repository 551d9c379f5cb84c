# modbox in TLA+

modbox (`src/src`) is one C++ program with about 200 Unix commands. The command is chosen by
`argv[0]` or `argv[1]`; each is a function `xxx_command(argc, argv)` in a file of its own under
`src/src/commands/`. There is no daemon, and but for the database of `zoxide` no state kept between
commands: what makes some of them hard is what they share with others through the kernel (child
processes, signals, locks, pipes, files) and the order in which they use it. That is what the
modules here are about.

| file | what it is |
|---|---|
| `Timeout.tla`, `LauncherProofs.tla` | `timeout`: a process, its child, the clock and other processes' signals |
| `Sections.tla` | what `flock` promises: sections take turns |
| `Flock.tla`, `FlockProofs.tla`, `MCFlock.tla` | `flock`: several invocations on one lock file |
| `ShPipeline.tla`, `ShPipelineProofs.tla`, `MCShPipeline.tla` | `sh`: pipelines, their processes, pipes and buffered output |
| `ShExec.tla`, `ShExecProofs.tla`, `MCShExec.tla` | `sh`: reading and executing a script, `exit`, `set -e`, `exec`, `read`, `.` |
| `Xargs.tla`, `LauncherProofs.tla`, `MCXargs.tla` | `xargs`: batching items into command lines |
| `FileMoves.tla`, `FileProofs.tla`, `MCFileMoves.tla` | `mv`, `cp`, `install`, `rm --trash` on files, several at once |
| `Frecency.tla` | what `zoxide` promises: a map from directories to visits, and what each command does to it |
| `Zoxide.tla`, `ZoxideProofs.tla` | `zoxide`: several terminals on one database file |
| `Probes.tla`, `ProbesProofs.tla`, `MCProbes.tla` | `ping` and `arping`: probes, answers, deadlines |
| `Packers.tla`, `PackersProofs.tla`, `MCPackers.tla` | `gzip`, `bzip2`, `xz`, `zstd`: files packed and unpacked in place |
| `SedMeaning.tla` | what a script means in the dialect of `sed.cpp`, for every line and file: a definition without a cycle |
| `Sed.tla`, `FileProofs.tla`, `MCSed.tla` | `sed`: the cycle, its commands, and `-i` |
| `*.cfg` | one TLC configuration per run |
| `PROJECT.json` | components, runs, the map from definitions to source lines, hazards, findings, theorems |

`tlc -config X.cfg M` checks a run and `tlapm MProofs.tla` the proofs. A definition `Name_Fault`
is `Name` with a plausible mistake. No specification uses it; `PROJECT.json` names the property
that notices when it takes the place of `Name`.

## Inventory

**Dispatcher and registry** (`main.cpp`, `command_registry.cpp`). State: the array of commands,
filled by static constructors, and an index over it that the first lookup builds. Operations: add,
find. Right when every name finds its function. Nothing registers after `main` has started, so the
index cannot go stale.

**timeout** (`timeout.cpp`). State: the child's pid, whether it has been reaped, the deadline.
Operations: fork, sleep, poll with `waitpid(WNOHANG)`, signal, sleep again (`--kill-after`), poll,
SIGKILL, blocking `waitpid`, report. Its child may end, be stopped, be continued or ignore signals
at any point. Right when it signals no other process, leaves none behind, is neither early nor
late, and reports the status the manual says.

**flock** (`flock.cpp`). State: the kernel's lock on an open file description, the descriptors of
it that flock, the command, its daemons or a shell have, an interval timer and the flag its handler
sets. Operations: open, arm, lock, convert, disarm, fork or exec in place, wait, unlock. Right when
sections protected by one file never conflict, last as long as their lock, and all get their turn.

**sh** (`sh.cpp`, the largest component). A reader of lines with continuation, a tokenizer, a
recursive parser, expansion, ten built-ins and an executor over a tree of lists, conditionals,
loops and pipelines. State: variables, `last_exit_code`, `errexit`, `running`, the input it reads,
temporary files of here-documents, and the stdio buffer every forked child gets a copy of. Right
when a pipeline's processes see the ends of file they wait for, all are reaped, statuses are those
of the right process, output is neither lost nor repeated, and `exit` and `set -e` stop what they
should.

**xargs** (`xargs.cpp`). State: the items, an index into them, the line being built. Right when
each item is used once, in order, on lines within the limits.

**mv, cp, install, rm** (and `rsync`, `split`, `tee`, `truncate`, `dd`). State: the file system.
Each is a sequence of calls (`stat`, `rename`, `unlink`, `fopen`, `fread`, `fwrite`) that may fail,
be interrupted by a crash, or interleave with another command's. Right when what was in a file can
still be found afterwards, and success means that all was done.

**gzip, bzip2, xz, zstd** (and `compress_util.hpp`). State: the file read, the file written beside
it. Operations: read whole, pack, unpack, test or list in memory, look for the target, write, remove
the source. Right when a source goes only after all that was in it is in its target.

**sed** (`sed.cpp`). State: the pattern space, the line number, whether each range is active, what
`a` and `r` have queued, the file open; with `-i` a temporary file and two renames. Right when each
line meets the commands its addresses name, no line gets lost, and a file that is edited can be
found whole whenever sed stops.

**zoxide** (`zoxide.cpp`). State: one database file which the prompt hook of every terminal reads
whole, changes and rewrites, without a lock and by truncating it. Operations: add, remove, edit,
list and query. Right when an added directory stays, and its rank is what was visited.

**ping, arping** (`ping.cpp`, `arping.cpp`). State: the schedule, the probes without an answer and
their deadlines, counters, the flag SIGINT sets. Operations: send, poll, read one packet, report.
Answers are lost, late, doubled and out of order. Right when probes and verdicts come on time, and
the loss told is the loss there was.

**Launchers** (`env`, `nohup`, `nice`, `time`, `stdbuf`, `watch`, `chroot`, ...), **network tools**,
**archives** (`tar`, `zip`), **text filters and checksums**, **interpreters** (`awk`, `bc`, `jq`, ...),
**viewers** (`ls`, `find`, `less`, `lf`, ... with terminal interfaces), **system information**,
**SELinux and audit**: see "Not modelled".

Components interact through the kernel only. `sh`, `xargs`, `timeout` and `flock` run other
programs, of modbox or not, by fork and exec; two commands meet in a file, a lock or a process.
`Flock`, `FileMoves`, `Zoxide` and `Packers` therefore have several commands each; `Timeout` and
`Probes` have one, with a child or a network that does as it likes.

## The modules and the code

### Timeout

`pc` follows `timeout_command` from `fork()` to `exit()`; every system call is an action (`Fork`,
`Wake`, `ReapInTime`, `Signal`, `ReapGrace`, `KillHard`, `Wait`, `Report`). The child is a kernel
process: alive, stopped, zombie or reaped, with a pending signal while it is stopped. `Hit` is what
`kill()` does to it, including signal 0 and numbers above 64, which `--signal` accepts. Time moves
while timeout sleeps; a duration above `INT_MAX` expires at once, as the cast in
`timeout.cpp:266` makes it. An uninitialized `status` is any value.

Run `timeout` (durations 0 to 2 with the largest `int` at 2, grace 0 and 1, three signals of which
one probes and one stops, two signals of other processes, one of them SIGCONT):

- `OwnChildOnly`: no order of events has a reaped pid signalled (`KillsOnlyOwnChild`) or a child left
  at exit (`NoChildLeft`);
- `NeverEarly`: no signal before the deadline;
- `StatusTells`: 124 means that the command was signalled or chose 124 (`TimedOutMeansSignalled`),
  a status chosen in time is passed through (`StatusPassedThrough`), and `--preserve-status` without
  `--kill-after` reports what the command chose (`PreservedWithoutGrace`);
- `TimeoutEnds`: timeout ends once its command has (`CommandEndEndsTimeout`), and with `--kill-after`
  in any case (`KillAfterBoundsRun`).

These numbers are enough because the code compares durations only with zero and with `INT_MAX`, and
looks at signals only for equality.

Run `timeout_grace` (expected violation): with `--kill-after`, a command that ends during the grace
period is reaped by the poll whose result is thrown away, and the reported status is a variable
nobody set.

### Sections and Flock

`Flock` has one `pc` per invocation, the steps of `flock_command`, and for each the kernel's view:
the mode in which its description is locked and the set of processes that have a descriptor of it.
A lock goes when it is unlocked or its last descriptor is closed, and converting one drops it first,
as flock(2) says. Both forms are there: `flock FILE COMMAND`, and `flock FD` run by a shell whose
section lasts until `flock -u` or its exit. `Kill` ends a flock process anywhere; `LeaveDaemon` is a
command that leaves a process with its descriptors behind. `Sections` is the abstract specification:
clients enter and leave sections, and no section in exclusive mode overlaps another. The refinement
mapping is `InSection`: a client is in a section while its command, or its shell's section, runs.

Run `flock` (two clients, any pair of twelve command lines: both forms, every kind of timeout, `-n`,
`--close`, `--no-fork`, conversions, and combinations the code rejects): `TakesTurns` is the
refinement; `SectionHoldsLock` says that a section runs under its lock from beginning to end;
`OptionsKept` that no command ran where the conflict status is returned, that none inherits an armed
timer, that `-n` never waits, and that an ended command leaves no lock behind unless in a process of
its own; `EveryoneFinishes` is liveness. Two clients are enough for TLC because conflicts are between
pairs; the proofs are for any number.

A flock process with `--close` that is killed while its command runs loses the lock under that
command: nobody else has the descriptor. That is what `--close` means; `LoseHolders = FALSE` leaves
it out, in the run and, as the assumption `HoldersLive`, in the theorems.

### ShPipeline

Process 0 is the shell in `execute_pipeline_internal` and the list case of `execute_node`; processes
1 to `MaxStages` are the children of the current pipeline. `ends` are the pipe ends each has open,
so end of file and broken pipes follow from who has closed what. `buffer` is stdio: `Printf` by the
shell, copied by `Fork`, written by `setbuf` in the child and by `Finish` at exit. Any `pipe()` and
`fork()` may fail; pid -1 is waited for like a child, as the code does.

Run `sh_pipelines` (eight scripts of one to four stages, with writers faster than their pipe,
outliving their reader, redirected, failing and missing, terminal or not):

- `PipelinesInOrder`: when a pipeline is over all its processes are reaped, no stage has a spare end of a
  pipe, nor has the shell unless a call failed (pipes made before a `pipe()` that fails stay open in it),
  and the status is that of its last stage;
- `OutputArrives`: no output is lost, and on a terminal all is in order;
- `EveryScriptEnds`, which fails as soon as any process keeps a spare end.

Pipes of one token and buffers of two are the smallest that fill up; three stages are the shortest
pipeline with a middle and four the shortest with two neighbours in it.

### ShExec

A script is a list of lines, each the tree that `parse_program` makes of it; names tell its commands
apart. `stack` holds the calls of `execute_node`: a node and how many of its parts have been
executed. `ec` is what the last call returned, `last` is `last_exit_code`, `running` and `errexit`
are the shell's flags, `temps` counts the files of here-documents. Each case of `execute_node` is an
action (`RunList`, `RunAndOr`, `RunIf`, `RunLoop`, `RunFor`, `RunCase`), as is each built-in that
changes the shell (`RunExit`, `RunSet`, `RunExec`, `RunRead`, `RunDot`); every other command is
`RunCommand`, a status. The runners are `ReadLine` and `Return`. What only the outside knows (a
status, how many words a `for` has, which pattern matches) is kept in `answers`.

Run `sh_exec` (eighteen scripts, the longer ones given as a file, on standard input and after `--`;
three statuses; seven answers, enough for every script without a loop to end and for two rounds of
each loop): `AsReference` compares the machine with `Mean` in `MCShExec`, a recursive definition in
which exit, or a failure under `set -e`, ends all that contains it; the machine has to ask the same
command next, with the same `$?` and `errexit`, or to have ended at the same place. It makes no claim
(`odd`) after an exit in a condition, a loop or on the left of `&&`, or a failure under `set -e` in
those, in a file or in a line of a longer script, where the code goes on (see the divergences below):
about a sixth of the states. The statuses of compounds are the dialect's: a loop has that of its
last condition, an `if` without a branch that of its condition. `OnlyOpenGoOn` says which commands can
still run after exit at all, and `NoFilesLeft` that a shell started without arguments cleans up.

### Xargs

`items` are lengths, `pos`, `used_chars`, `batch` and `max_c` are the code's; `pos` is unsigned
and wraps to `SizeMax`. `Take`, `Overflow` and `Filled` are the three ways through the inner loop,
`Run` and `RunFails` the command of a batch, `RunReplaced` and `GiveUp` the two forms of `-I`.

Run `xargs` (up to three items of one to three characters, every `-n` to 4, seven limits from none
to ample): no item is passed over (`NoGap`), no line is too long (`LineFits`), each item is used once
unless a limit ended a batch (`OnceUnlessOverflow`), and xargs ends when all items fit a line
(`EndsWhenItFits`). Three items are the fewest with a batch before, at and after the one that
overflows. At the limit `pos--; break` steps back over an item that was just used; the properties
leave this case out, the model does not (see the divergences).

### FileMoves

Names lead to inodes, inodes hold two chunks, and each chunk remembers the file it came from, so
that mixtures, holes and truncation can be told from the whole. Every call of `move_entry`
(`mv.cpp`), `copy_file` (`cp.cpp`), `install_file` (`install.cpp`) and `move_to_trash` (`rm.cpp`) that touches a file is an
action; `Crash` stops a command between any two. Every call that changes or copies something may
also fail, and then the command does what the code makes of it: `hurt` has the calls that failed. mv
looks neither at `fread()` and `fwrite()` nor at the rename to DEST~ nor at the `unlink()` of `-f`, trash
not at the last `unlink()`, nobody at `fclose()`; the others end the command.

Run `files` (two commands at once, all pairs of a move or copy with each option and a second one on
the same source or on what is replaced; one name on another file system, and the one for its backup,
which `NameAssumption` wants beside it, as DEST~ is beside DEST): `FilesSurvive` (what a
source held, and with `-b` what the destination held, can still be found whole), `ReplacedAtOnce` (a
plain mv on one file system has no moment without its destination), `SuccessIsComplete` (a command that
succeeded has the whole source at its target and, if it moves, not at its source). They hold whatever
calls fail but for three things the code does not look at, which their guards name: a read or write
that fails unseen (`Unseen`; what mv loses by it is the run `files_across`), the rename to DEST~ of
`mv -b` (`NoBackup`: mv replaces DEST all the same, and what it held is lost), and the last `unlink()` of
trash (the source is then still there, next to its copy). Two chunks
are the fewest that can be half-copied; two commands the fewest that can race. The properties say
which other commands they allow (`Undisturbed`): two users who write to one destination get what they
asked for.

Run `files_across` (expected violation): across file systems mv looks neither at what `fread()` nor at what
`fwrite()` returns, then removes the source: an error or a full disk loses the file.

### Frecency and Zoxide

`Frecency` is the promise: a map from directories to ranks, and a command that was asked for (`Ask`)
and changes it in one step: `Add` raises the rank of its directory by one, `Remove` clears that of its
directory, `Edit` those of the directories the user takes out, and `List` none. Nothing else changes the
map. In `Zoxide` the database is a sequence of lines; every subcommand is
`Issue`, the two reads of `load_db` (`Read`, `ReadMore`: the second sees what another terminal has
written beyond the first), the change in memory (`Add`, `Remove`, `Edit`, `List`, which stands for
`query` as well) and the two steps of `save_db`: `Open` truncates, `Write` puts the text at the
beginning of what is there by then. `Rests` are the tails of a longer text that show behind a shorter
one, beginning in the middle of a line or not. `SaveFails` and `Kill` may happen anywhere.

Run `zoxide` (two terminals, two directories, two visits of each, two commands per terminal, all
subcommands, kills and failures): `RankWithinVisits` holds whatever collides: collisions lose visits
and never make them up. `KeepsVisits` is the refinement of Frecency by runs in which commands neither
overlap nor fail (`calm`), under the mapping that takes the rank of the first line of each directory in
the database or, during a save, in the memory of the command that saves, and has a command asked for
until it has changed what it read. Of commands that overlap it says nothing: they do lose additions (see
below). Two visits are the fewest at
which a line is changed and not appended; two terminals the fewest that collide.

### Probes

Both commands are a loop that sends (`Send`, `SendFails`), waits (`WaitEnds`), reads (`Hear` for ping,
`HearArp` for arping with and without `-D`) and reports (`Report`). `Tick` is the clock, which only
runs in `poll()`; `Answer` and `Stray` are the network: an answer comes any time after its probe, in
any order, more than once or never. `Interrupt` is SIGINT, which ends a wait, if it comes within
`poll()`, and otherwise sets a flag. Times above `MaxInt` are what the casts for `poll()` make of them: no wait in ping, a wait for
ever in arping. The loss is an unsigned difference (`% SizeMod`).

Run `probes` (25 command lines; counts 0, 2, 3 and none, times to wait shorter and longer than the
interval, zero, and beyond `MaxInt`; three probes, one doubled answer, one stray packet):

- `LossIsTrue`: unless answers are doubled, the loss ping tells is the number of probes without one;
- `Punctual`: ping neither delays a probe nor brings it forward (`OnSchedule`), and no command gives up
  before the last wait is over (`WaitsForLast`), whose comment names the exceptions;
- `CountEnds`: a command with a count ends, whatever is lost.

Three probes are the fewest for which an early one may be outstanding when a later one is answered
while a third is still to be sent.

### Packers

A file is a sequence of pieces: letters, and the two halves of packed streams, so that empty, cut,
concatenated and foreign files can be told apart. `Gunzip`, `Bunzip2`, `Unxz` and `Unzstd` say what
each decoder makes of them; they differ. Gzip, bzip2 and xz hand their libraries the size of the input in
32 bits: `Cast` is what is left of it, and `huge` remembers that a file was made of less than all.
`Wrap` is the size at which that begins, and 5 pieces in the run. Each step on a file is an action: `Source`, `Read`, `Code`
(in memory), `Stat` and `Open` of the target, `Write`, `Remove`; `Lists` and `Skips` are the early
ends. `files` keeps every file there ever was under a name, because a command may go on writing to
one that another has removed. `Fails` and `Kill` are the mishaps.

Run `packers` (one stem, two users with any of the command lines of one tool, or one of each of two
tools; in turn with mishaps, or at the same time without; ten kinds of archives, of which three have five pieces
or more, and a text of six): `Survives` (every
letter is in a whole file of the directory, or being written by a command that nothing will stop),
`SafeToRemove` (before a source goes, its target is there and has all of it), `Ends`. What they leave
out is in the guards of the two and in `Trusted`: input that does not fit 32 bits, but for zstd (`huge`,
`Fits`), commands that force, archives of which gunzip
or unxz drop a part (`FirstIsAll`), and of commands at the same time those that write what another reads
or make one file of two (`Apart`). The run has those cases too, and contents do get lost in them. Two
letters are the fewest that can be half-written.

### Sed

The cycle is `ReadLine`, one action for each kind of command (`Substitute`, `Delete`, `NextAppend`,
...; `Skip` where the address says no), and `EndCycle`, which prints and empties the queues. An
address is what `address_matches` makes of it and a range is a flag per command, advanced only when
the command is looked at (`At`). A line is one value; the pattern space has several after `N`. `-i` is
`Flush` into the temporary file, `BackUp` and `Replace`, whose results the code does not look at. `ReadError`
is a `getline()` that fails: the code takes it for the end of the file, after what stdio had read ahead
(the last line of that may be cut); that a later call reads on is left out. `cut` has the files of
which the result is incomplete, by such an error or by a full disk.

`SedMeaning` says what comes of it with neither a cycle nor flags nor queues. It is the meaning that a
script has in the dialect of `sed.cpp`, which the cycle is to carry out, not what `modbox-sed.1.md` says: the
manual is short, and disagrees in some points, which are listed below. `Finds` has each
command meet all lines at once, as the commands before have left them; a range is a statement about
all lines before (`Meant`), not a flag. From that follow what is printed of a line (`Passage`), what `w`
has written when (`Noted`), and what one file after the other leaves behind (`After`).

Run `sed` (any two of fifteen commands, each with one of four addresses, among them ranges by number and by
pattern, steps and a negated last line; three commands where `N` and `n` meet `s`; four inputs; two or
three files one after the other, one of them perhaps missing; for `-i` two files, or one twice, with
kills, failures, read errors and full disks):

- `AsMeant`: without `n` and `N`, and if nothing fails, what is printed and what every file holds at the
  end are those of SedMeaning (`LineByLine`). `n` and `N` move lines between cycles; with them, and
  commands that only add to what is printed, no line may get lost or out of order, and none be printed
  twice, but for those in the pattern space when `n` finds the end of a file (`NoneLost`);
- `EditKept`: wherever `-i` is stopped, a file that was read to the end and written out can be found whole,
  as it was or as it was to become, under its own name or its backup's, whatever became of the other
  files (`cut`).

Inputs of three lines are the shortest on which a range begins, goes on and ends, or begins twice.

The model reads a file when it is opened, as sed's stream does not: `JobAssumption` has `w` write to no
file that the command line reads, where lines would come back as input, and `w`, `r` and backups of `-i`
keep out of each other's way.

## Fairness

- `Timeout`: weak fairness of timeout's own steps, which include its sleeps. The command may hang.
- `Flock`: weak fairness of flock's steps and of armed timers (`Spec`); `EveryoneFinishes` also
  assumes that commands, daemons and shells end (`FairSpec`), as no lock could be waited for
  otherwise. A lock that is granted again and again to others could starve one waiter; each client
  of the model runs once, so this does not arise.
- `ShPipeline`: weak fairness of the shell and of each child: the kernel schedules them. `yes` never
  ends by itself, only by a broken pipe.
- `ShExec`: none, and no liveness: a script need not end.
- `Xargs`: weak fairness of xargs' steps; commands end.
- `FileMoves`, `Zoxide`, `Sed`: none, and no liveness.
- `Probes`: weak fairness of the command's own steps and of the clock while it waits. The network
  owes nothing. `CountEnds` is about command lines with a count and a wait that an int holds.
- `Packers`: weak fairness of each command's steps, once it was started. A bunzip2 that decodes a
  truncated file takes steps for ever, and `Ends` leaves it out.

## Proofs

All for any value of the constants, within the named assumptions of the modules.

- `LauncherProofs`, first part: Timeout. The inductive invariant `Safe` is `TypeOK` and `Custody`, which says in which
  states the child may be at each `pc`: only the polls and the last wait reap it, and after them no
  `kill()` follows. It is needed because `KillsOnlyOwnChild` speaks of two values of `pc` and is
  reached through all. `ChildKept` and `TypeCorrect` follow. `SignalsOnTime` proves `NeverEarly` where
  every duration fits an int (`DurationsFit`); without that it is false, and the run, whose durations
  do fit, shows the same. `StatusReported` needs what the variables remember of the way that led to
  a `pc` (`History`): whether a signal was sent, and what the child chose before it.
- `FlockProofs`. `Inv` is `Control` (what each flock's `pc` implies about its descriptor and lock),
  `Anchored` (who keeps the description open while a section lasts) and `Disjoint` (no two
  descriptions are locked in conflicting modes). A step of one client leaves the others' parts
  alone (`Frame`). `SectionsHoldTheirLock` follows; `FlockTakesTurns` shows that Flock implements
  Sections under the mapping, initial states to initial states and each step to a step or a stutter;
  `ExclusiveSections` carries the exclusion of Sections over to Flock. `OptionsAreKept` adds, for each
  client, what its options have done at each `pc` (`Kept`): the timer it armed, whether it ever waits,
  and which of its exit codes can come before the command.
- `ShPipelineProofs`. `TypeOK` bounds pipes and buffers. `Course` follows the shell through a pipeline
  of any length: `InPipeline` says which line it is at, `Family` which children exist while it forks
  and waits, `Orderly` that they are reaped one by one, each by its own wait, as long as no call has
  failed (after a failed `fork()` the wait for pid -1 takes any of them); `ShellLetsGo` is inductive with
  these, because the ends of two lines' pipes are not the same (`EndsApart`); `NoSpareEnds` and
  `StatusOfLastStage` are parts of what is to be shown. `InOrder` and `TypeCorrect` follow.

  `AllArrives` proves `OutputArrives`. What has been printed of a line says nothing of what is still to
  come, so `Ledger` gives each stage of the line a number, what it will still write: from what it has
  in hand and, if it reads, from what is in its pipe and what the stage before it owes. Each step keeps
  the numbers balanced, and they come down to nothing, or for a `yes`, and a `cat` that copies one,
  until it is ended by its reader (`Mannered`). A stage may be ended by `SIGPIPE`, or take an
  empty pipe for the end, only after its neighbour has ended (`NeighbourEnded`): until a neighbour
  runs, somebody still has its ends of the pipe open (`Held`). `Reached` says that buffers hold only
  earlier lines, on a terminal nothing, and `Settled` accounts for all lines behind the shell. `After`
  is the function that `Passed` computes; that there is one is shown by the least stage without
  (`FlowExists`).
- `LauncherProofs`, second part: Xargs, which has names of its own (`XargsSpec`, `phase`) for what others
  call `Spec` and `pc`. `Inv` has two halves. Handled items always form a prefix of the input (`Prefix`,
  `BatchPrefix`, `BeforePos`), whatever a limit does to `pos`: this gives `NothingPassedOver`. As
  long as no limit has ended a batch, `pos` says exactly which items were handled once
  (`ExactBetween`, `ExactFilling`, `ExactDone`): this gives `UsedOnce`. `LinesFit` proves `LineFits`:
  an item is taken only when the line has room for it (`Room`). A length is a sum over a set, and that
  it grows by the item that is added (`LengthAdds`) needs that a sum exists and does not depend on
  the order of adding; both are shown by a minimal subset without it (`MinimalSubset`), as induction
  theorems of the library cannot be used.
- `ShExecProofs`. `OnlyOpenGoOn` speaks of commands, but a command gets on the stack through what
  contains it. `Inv` adds that nodes below the top have begun (`Begun`) and that after exit any node
  that has not begun, not only a command, is inside a condition, a loop or a chain (`OpenOnly`). Each
  handler does one of three things to the stack, which `ReturnKeeps`, `TurnKeeps` and `ExecuteKeeps`
  treat once. `ExitStops` and `TypeCorrect` follow. `NoHeredocLeft` needs only that an ended shell
  has an empty stack. What a tree means (`AsReference`) is induction over trees, and stays with TLC.
- `ZoxideProofs`. `RankWithinVisits` is inductive once the types of what commands have in memory are
  added; the work is in the lemmas on lines (`RestsBounded`, `AddedBounded`, `PickedLines`).
  `NoVisitInvented` follows. `CalmInv` adds that a calm command is alone (`Alone`) and that what it has
  read is what the database says, each directory once (`Fresh`); from it `ImplementsFrecency` shows
  that every step of a calm run is the effect of the command that was asked for, or a stutter: a
truncation, a write or a read changes nothing of the map. The first line of a directory exists
  because numbers are well-founded (`LeastNumber`).
- `ProbesProofs`. `Sound` says that answers in the queue belong to probes that were sent, `Waits` that
  the outstanding probes are in order and none without an answer is missing, `Once` that without
  doubles an answer is in the queue once or counted and not both, `Told` what the report says, `Schedule` when the next probe is due, and
  `Deadlines` that a wait does not end before the last deadline but for the reasons in `Excused`.
  `ComesWhenDue` and `TypeCorrect` follow, and `LossCounted` where the probes of a command fit a
  `size_t` (`MaxProbes < SizeMod`), which otherwise wraps.
- `FileProofs`, first part: FileMoves, for any number of commands, any files and any devices. A step of
  one command changes names and contents in few ways, which `LinkStep` and `DataStep` list; the others'
  names are out of its reach (`Apart`), as far as `Undisturbed` says so. `Inv` is
  - `Order`: which name a command writes to, that no inode has two names, that a new inode is nobody
    else's (there are no hard links, and this is where it is needed);
  - `Sources`: a file stays where it was until a move of it has finished;
  - `Replacing`: what ReplacedAtOnce says, with the program counters that a plain mv on one file system
    can have: it never gets to the copying;
  - `BesideDest` and `Backups`: where the old destination is at each `pc`, before and after it became
    DEST~ (they are on one file system, or mv would go on to truncate what it could not rename), as
    long as no mv was refused that rename;
  - `Copying`: what a copy holds at each `pc` is what has been read so far (`Progress`), because nobody
    changes its source (`Lasting`) or writes to its target (`Unshared`), as long as no call on the data
    has failed unseen.

  From these follow `FilesTyped`, `NothingIsLost` (both halves of FilesSurvive), `MoveIsAtomic` and
  `SuccessMeansDone`.
- `FileProofs`, second part: `-i` of sed. `Shape` ties `phase` to the paths that are left, and `AllKept`
  says for every file not in `cut` that it or its backup is whole (`KeptWhole`), and while `-i` is between its steps
  that the temporary file is (`InHand`). The commands of the cycle touch no edited file (`CommandDisk`,
  from `JobAssumption`), so the proof is about the three steps of `-i`. `NoEditLost` and `EditTyped`
  follow. One module extends both specifications, which is why Sed has names of its own (`SedSpec`,
  `phase`) for what others call `Spec` and `pc`.
- `FileProofs`, third part: `PrintsAsMeant`, which is `AsMeant` for any scripts, texts and files. AsMeant
  speaks of the end only; two invariants say where sed is before it.

  `ByMeaning` (without `n` and `N`) places the cycle in that definition. Between files, what is
  printed and the files are those of `After` (`Between`). At a line, what is unread is the rest of the
  text, no `q` was carried out before (`AtLine`), and each flag says whether its range stays open at the
  last line its command looked at (`Ranges`): for commands before `ci` that is this line, for the others
  the one before. In the cycle (`Running`) the pattern space is what `Finds` has for `ci`, and what is
  printed, queued and written is what the commands before `ci` say of it (`LineSays`, `LineAppends`,
  `LineReads`, `Disk`). `CommandMeans` is the heart of it: a command is carried out exactly when `Does`
  says so, because the flag of a range (`StaysOpen`) can be told from the line before (`RangeFacts`), also
  where the line is over for the command and the flag is left as it was. A line that is deleted, or
  that sed quits on, is left alone by the commands that remain (`IdleRest`), and so are all lines
  after a `q` (`AfterQuit`).

  `ByOrder` (with them, for scripts that keep lines) has what is printed of the files' lines, `Told`: all
  of the files before, and of this one all before the lines in hand, which are followed by what is
  unread (`Holding`); or, when `n` has quit with them, all of it. `EndCycleInOrder` prints them once more
  then, which is why `Twice` is needed.

  `Finds`, `After` and FlattenSeq are recursive functions. That there are such functions, and so that
  they have the values they are defined by, is shown from the well-foundedness of the numbers, with the
  numbers that something holds of as a set (`EveryNumber`, `RecursionExists`, `EverySequence`).

- `PackersProofs`, for any number of commands and any files. First what the codecs do: `UnpackFacts` and
  `ResultFacts` say that what a decoder returns is what the file stands for, and that no letter is left
  out of it, as long as its size fits (`CastFacts`). That streams can be joined at all is shown by the least length that could not
  (`JointExists`), and that a file begins with a greatest number of whole streams by
  `GreatestNumber`. `Safe` is then
  - `Base`, types and which path a command is at; what is packed is text, because nobody packs a name
    that ends like a pack command's target (`PackedIsNotForPacking`);
  - `Coded`: what is to be written was made of what was read, and of all of it unless the size of
    something did not fit (`Sized`);
  - `InTurn`, for commands one at a time: what a command has in hand is what is in the directory at
    each `pc`, and what it has written so far is the beginning of what it is to write (`Faithful`);
  - `KeptInTurn`, if none forces: a target is new, and every letter is in a file that none is writing;
  - `Together`, for commands at the same time, apart: the files of the beginning are untouched, one
    that was removed has a target that is there (`Replaced`), and that target is whole, or the last
    command to have opened it has made its beginning right and goes on (`Made`), whatever holes and
    pieces the others write into it: they write the same.

  `SourceIsSafe` follows from the third, `NoContentLost` from the last two.

Only model-checked: all liveness (TLAPS has no ENABLED); and `AsReference`, which compares with a
definition by recursion on trees that the prover cannot be given (`MCShExec`).

## Known divergences without a run

Seen while reading and modelling; the models have the ones of the components they model, and the
properties say that they leave them out.

Files:

- `mv -f a a` unlinks `a` and `cp a a` truncates it: source and destination are not compared.
- `mv -b` goes on when DEST cannot be renamed to DEST~ (`mv.cpp:281`: DEST~ a directory, a name too
  long, a sticky directory) and replaces DEST; `modbox-mv.1.md` says that `-b` backs up.
- `mv -n` looks at the destination before the rename; a file created in between is replaced.
- `mv x/a y/a dir` puts both on `dir/a`.
- Two files of one name trashed at once by `rm --trash` get one name in the trash (`rm.cpp:36`).
- `install` returns 0 after a copy that failed (`install.cpp:132`); `mv`, `cp`, `install`, `rm` and
  `xargs` return 0 whatever happened, although the manuals give 1.
- By reading only: `rsync` of one file to a name that is not there makes a directory of that name,
  fails, and with `--remove-source-files` removes the source; its `--delete` does nothing.

sh:

- `sh FILE` takes an empty line for the end of the file (`sh.cpp:1971`), and `sh` always returns 0
  (`sh.cpp:2268`), although its manual says "non-zero on error".
- `exit` inside a loop or on the left of `&&` does not stop the commands after it; `set -e` ends the
  current list, not the script. `while true; do exit; done` does not end, and under `set -e` a loop
  that ends is a failure, because its status is that of its condition (`sh.cpp:1807`).
- A loop over several lines of a script file is run line by line, because `do` ends the
  continuation (`sh.cpp:1926`).
- Into a file, what `echo` printed before a pipeline is printed again by every child of it, because
  `setbuf(stdout, NULL)` writes out the inherited buffer (`sh.cpp:1664`).
- After a `pipe()` that fails, the pipes made for the stages before it stay open in the shell
  (`sh.cpp:1652`).
- A shell given a file or `-c` leaves the files of its here-documents in `/tmp` when it exits: only
  one of the ways out removes them (`sh.cpp:2209`).
- A single built-in, or `.`, with a redirection runs in a child, and what it does to the shell is
  lost (`sh.cpp:1609`).

timeout, flock, xargs:

- Without `--preserve-status` a command that another process kills before the deadline is reported
  as 0 (`timeout.cpp:313`).
- flock's timer may expire between `setitimer()` and `flock()`: the handler sets a flag that is read
  after an EINTR only, so the call then waits without a limit (`flock.cpp:319`).
- A process that the command leaves behind has the lock unless `--close` is given (`flock.cpp:387`);
  `modbox-flock.1.md:18` has the lock released when the command exits.
- A duration of more than `INT_MAX` seconds expires at once (`timeout.cpp:265`).
- At a limit xargs steps back over the item just used (`xargs.cpp:226`): it is used again, for ever
  if a line holds only one. With `-0` the reader skips NULs past the end of the input
  (`xargs.cpp:42`).

zoxide, ping, arping:

- Additions of two terminals at once are lost, and a reader between truncation and write saves an
  empty database (`zoxide.cpp:74`, `zoxide.cpp:137`).
- A SIGINT between the test of the flag and `poll()` is seen only when the wait is over (`ping.cpp:432`).
- A packet that is not the answer ends the wait of an arping probe; the answer behind it is taken
  for that of the next one, or never read (`arping.cpp:254`).

gzip, bzip2, xz, zstd:

- `gunzip -f`, `unxz -f` and `zstd -d -f` of a name without the suffix write over the file and
  then remove it.
- `unxz` unpacks the first stream and removes the source with all the others (`xz.cpp:90`); gunzip
  of two identical members gives one.
- `gzip`, `bzip2` and `xz` cast the size of their input to 32 bits (`gzip.cpp:77`, `bzip2.cpp:45`,
  `xz.cpp:43`): of a file of 4 GiB or more the first size % 2^32 bytes are packed, the command succeeds and
  removes the file. Decoders see as much of an archive of that size and, if that is sound, remove all of it.
- `bunzip2` does not end on a truncated file (`bzip2.cpp:96`) and takes an empty file for an archive.
- The target is looked for before it is opened (`compress_util.hpp:40`): archives of two tools that
  unpack to one name at the same time both succeed. What a killed or failed command has written stays,
  and without `-f` keeps the next one from succeeding.
- Nothing tells a file that is being written from a whole one: `gzip x` while `gunzip x.gz` is still
  writing `x` packs the half that is there and removes `x`, and `x.gz` then goes as well.

sed:

- Where `docs/man/modbox-sed.1.md` disagrees with the dialect that SedMeaning has: `-s` is "Consider files as
  separate rather than as a single continuous stream", but files are separate streams without it as well,
  with line numbers, ranges and `$` ("The last line of input") of their own; `q` is "Quit immediately; do
  not process any more input", but ends the current file only (`sed.cpp:1431`); `c` is "Replace the
  current line", but with `-n` prints nothing (`sed.cpp:1185`).
- Where the manual is silent: `n` at the end of a file prints the last line twice; `N` does not advance the
  line number; `c` prints its text for each line of a range, and does not end the cycle; the range `2,1`
  runs to the end; `w` adds to a file that was there; `s` with `p` or `w` acts only where the result differs.
- A read error is taken for the end of the file (`sed.cpp:1069`, `1127`, `1154`), and with `-i` what was read
  until then replaces the file; so does a result cut short by a full disk (`sed.cpp:1415`). Without a suffix
  the rest is lost.
- Where `/tmp` is another file system the edit of `-i` is lost and, with a suffix, the file has only its
  backup's name (`sed.cpp:1427`). The exit status is always 0.

Text filters, by reading only: `diff3 -m` and pure insertions; `join` forgets keys.

## Not modelled, and why

The repository has about 200 commands, nearly all of them sequential functions of their input; the
map therefore covers a small part of its lines. Within the components that are modelled:

- The tokenizer, parser and expansion of sh, and built-ins that change only variables: text processing.
- Directory trees in `cp -r`, `mv`, `rm -r`, `rsync`, and several sources: FileMoves is about one
  file per command; a tree is one such copy after another.
- zoxide: databases longer than the stream's buffer (8191 bytes), which take several writes; short
  writes; paths with `|` or a newline; `z` without a match, which runs `cd ""`; how query orders.
- ping and arping: name resolution, sockets, sequence numbers beyond 16 bits, figures of round trips.
- Packers: mishaps while two commands run at once; standard input to output; links; packing what
  is already packed; the formats themselves, beyond whether streams are whole, cut or joined.
- sed: parsing, what regular expressions match, and the `w` flag of `s`.

Components that are not:

- Launchers other than timeout, flock and xargs: one attribute, then exec; `watch` is in the plan.
- Splitting of xargs' input, shell words, patterns and arithmetic: text processing.
- Text filters, checksums, archives and interpreters: sequential functions of their input.
- Network tools but ping and arping: their hard parts are in the kernel and the peer.
- Viewers and terminal interfaces: one thread, one event loop; their rules are about layout and keys.
- System information, SELinux, audit: one read of `/proc`, `/sys` or a log, then print.
- argtable3 is vendored; parsed options are the models' input.

## Plan

1. `Watch`: a timer, a child, a pipe drained with `poll()`. `Copies`: `rsync`'s copy of one file.
2. Text filters with state between lines (`uniq`, `comm`, `join`, `diff3`, `tsort`) against reference
   definitions, as SedMeaning is one.
3. Built-ins of sh in redirected and piped children, whose changes to the shell are lost.
