# Remind in TLA+

Remind reads scripts of reminders and issues those that trigger today; it can
stay in memory to issue the timed ones at their times and serve a graphical
client. This directory holds TLA+ modules of the parts of the program whose
behaviour is hard to test, configurations that model-check them with TLC on small
instances, and proofs for TLAPS. Paths are relative to the root of the
repository; line numbers refer to the sources beside this directory.

## 1. The system

| Component | State | Operations | Depends on |
|---|---|---|---|
| Queue of timed reminders (`src/src/queue.c`) | `QueueHead` (list with `nextdtime`, `qid`), `RealToday`, `got_sighup`, `Daemon`, `FileModTime`, inotify descriptor | `QueueReminder`, `HandleQueuedReminders`, `ServerWait`, `CheckInitialFile`, `reread`, `del_reminder` | clock, signals, the script file, the client on stdin/stdout, `dorem.c` (`ShouldQueueReminder`, `TriggerReminder`) |
| Script reader (`files.c`) | include stack, cache, current file and position, glob chains, `RunDisabled` | `ReadLine`, `OpenFile`, `CacheFile`, `IncludeFile`, `IncludeCmd`, `PopFile` | file system, IF blocks |
| IF blocks (`ifelse.c`) | `IfArray`, `if_pointer`, `base_pointer`, `return` flag | IF, IFTRIG, ELSE, ENDIF, RETURN | reader (base pointer), triggers (IFTRIG) |
| Main loop (`main.c`) | pass, options, today's date, `$OnceFile`, the purged file | `DoReminders`, `PerIterationInit`, commands | all |
| OMIT context (`omit.c`) | sorted arrays of full and partial dates, weekday set, stack of saved contexts | OMIT, ADDOMIT, CLEAR-, PUSH-, POP-OMIT-CONTEXT, `IsOmitted` | – |
| Triggers (`trigger.c`, part of `dorem.c`) | none but "last trigger" globals | `ComputeTrigger`, `ShouldTriggerReminder` | calendar, OMIT context |
| REM command (`dorem.c`) | trigger being built | `ParseRem`, TODO, SATISFY, WARN, TZ, formatting | triggers, queue, expressions |
| Expressions (`expr.c`, `funcs.c`) | free list of nodes, counter of nodes, alarm, depth of calls, RUN | parsing, evaluation | variables, user functions |
| Definitions (`var.c`, `userfns.c`, `trans.c`) | hash tables, stacks of saved variables and functions | SET, UNSET, PRESERVE, FSET, FUNSET, FRENAME, TRANSLATE, PUSH and POP | `hashtab.c` |
| Duplicate table, sorting (`dedupe.c`, `sort.c`) | hash table, sorted list | suppress, insert, flush | `hashtab.c` |
| Calendar and back ends (`calendar.c`, `rem2ps.c`, `rem2html`, `rem2pdf`) | column lists, page state | layout | everything above, as text |
| Client (`scripts/tkremind.in`) | popups with qids | DEL, REREAD, QUEUE, STATUS, EXIT over a pipe | queue |

How they interact: the main loop pulls lines from the reader; IF blocks decide
whether a line is executed; a REM computes a trigger against the OMIT context and
is issued at once, queued, or both; when the script is over the queue takes the
process over, waits, and in the end executes the program anew, which is the only
way it rereads a script.

What is hard in it:

* the queue process shares time, signals, the script and a pipe with others, and
  keeps values (the date, a pointer to an entry, modification times) over waits;
* the reader has one stack of blocks for all files, and files that are closed,
  reopened, cached, missing, or owned by someone else;
* trigger computation jumps to the next date, forwards and backwards over omitted
  days, and yet has to say the same on every day it is asked;
* the OMIT context is changed, saved and restored in any order by scripts;
* a run starts from nothing: what has been issued, done or purged is known from the
  script, one timestamp and the date alone;
* variables, functions and translations live in tables that are resized during the
  walks over them, and are saved and restored in parts, across files and passes;
* an evaluation may fail at any node, in any depth of calls, and must leave
  nothing behind; what it calls constant decides what a purge throws away;
* the words of a REM come in any order, and some are read by functions that read on.

What makes each part correct:

* queue: a reminder is issued at its time, once, in order, not early, not stale,
  not after it was deleted; signals, edits and commands are served;
* reader: the lines that are executed are the ones the text means, in every pass,
  whatever files do to their includers;
* OMIT context: the arrays are sets; POP undoes PUSH;
* triggers: a date is announced and triggers on exactly the days that satisfy the
  specification, and no run takes back what an earlier one said;
* the life of a script: what is due is issued on each day, ONCE reminders once, tasks
  until they are done, and a purge takes away only what is over;
* definitions: the tables are maps, POP brings back what PUSH saved;
* expressions: the value is the one of the text; errors leave nothing behind;
* REM: the trigger depends on the parts and not on their order.

## 2. Modules

| Module | Models | Depends on |
|---|---|---|
| `AtSchedule` | times of a timed reminder: notices, repeats, lateness, sleep | – |
| `RemindQueue` | the queue process with clock, signals, script and client | `AtSchedule` |
| `RemindQueueProps`, `MCRemindQueue` | its properties; instances | `RemindQueue` |
| `RemindQueue_proofs` | theorems | `RemindQueueProps`, TLAPS |
| `IfStack` | the IF blocks as operators on the stack | – |
| `IncludeStack` | the reader and the main loop | `IfStack` |
| `ScriptMeaning`, `MCIncludeStack` | reference semantics; instances | `IncludeStack` |
| `IncludeStack_proofs` | theorems | `IncludeStack`, `NatLemmas`, TLAPS |
| `NatLemmas` | lemmas on numbers and loops that the proofs share | TLAPS |
| `Dates` | the calendar | – |
| `Omits` | the OMIT context and its commands as operators | `Dates` |
| `OmitContext`, `MCOmitContext` | any sequence of commands over several passes | `Omits` |
| `OmitContext_proofs` | theorems | `OmitContext`, `NatLemmas` |
| `OmitSets` | abstract specification: three sets and a stack of triples | – |
| `Triggers` | `NextSimpleTrig` to `ShouldTriggerReminder` as operators | `Omits` |
| `Occurrences` | the dates a trigger means, without a scan | `Triggers` |
| `DailyRun`, `MCDailyRun` | the runs of successive days over one REM command | `Occurrences` |
| `Triggers_proofs`, `DailyRun_proofs` | theorems | `Occurrences`, `DailyRun`, `NatLemmas` |
| `SortBuffer` | the sort buffer, and what a stable sort is | – |
| `RemCommand` | `ComputeTrigger` with tasks, durations, zones, SCANFROM, SATISFY; the verdicts to issue and to queue | `Occurrences`, `SortBuffer` |
| `ReminderRun` | the life of a script: runs, ONCE, purge, its user | `RemCommand` |
| `ReminderMeaning`, `MCReminderRun` | its properties; instances | `ReminderRun` |
| `ReminderRun_proofs` | theorems | `ReminderMeaning`, `NatLemmas` |
| `HashTable` | `hashtab.c` as operators on a table | – |
| `Vars`, `UserFuncs`, `Translations` | the commands on their tables | `HashTable` |
| `Definitions`, `MCDefinitions` | the issued reminders (`dedupe.c`); any sequence of the commands over several files and passes | the three |
| `DefinitionMaps` | abstract specification: maps and stacks of parts of them | – |
| `Definitions_proofs` | theorems | `Definitions`, `NatLemmas`, TLAPS |
| `Values` | values, literals, coercion, operators with overflow | – |
| `ExprParser`, `Evaluator` | the text to a tree, with the nodes used; the tree to a value, with limits, alarm and constness | `Values` |
| `Expressions`, `MCExpressions` | lines written token by token and evaluated; meaning by the text | `Evaluator` |
| `Tokens` | words to tokens | – |
| `RemParser` | `ParseRem` word by word, with the word that is pushed back | `Tokens` |
| `RemGrammar`, `MCRemParser` | what the parts of a REM mean in whatever order | `RemParser` |

Definitions named "Faulty" in a comment (`PopOmitContextDatesOnly`,
`BlockStartStays`, ...) are not used by any specification. Each is a plausible
mistake in the operator beside it; with the operator replaced by it, TLC finds the
property violated that `PROJECT.json` names, so no property holds vacuously.

### RemindQueue

Variables are the fields of the process: `queued`, `next`, `qid` and `usesSched` are
the list entries, `cur` the pointer `q`, `realToday`, `sighup` and `pc` its control:
`read → parsed → setup → find → wait (→ reading) → issue → recalc → find`.
The actions are the stretches of code between two points where the process blocks
or its environment can act. `read` to `setup` is the time from `main` to the
installation of the signal handler and the inotify watch; in `wait` the process
is in `sleep` or `select`, in `reading` in the middle of a command line that the
client has written in part. In `recalc` it has issued the reminder and waits for what that
started: in every mode, a server included, `System` returns when the command of a RUN
reminder, or of `-k`, has ended (`main.c:2216`), and only then is the reminder rescheduled. `Exec` is `reread`: the image is replaced, everything but
the pipe is lost; with `ExecMayFail` it may return. The environment may advance
the clock (`Tick`, while the process starts, sleeps, reads a line or waits for a command; a nap ends
on time, the others may take long), suspend the computer
(`Suspend`), send SIGHUP, edit the script in place, in its directory or by
replacement (`Edit`), and send whole or partial commands (`Send`,
`CompleteLine`). `shown` is the client's screen; `fired` is a history of what this
image has issued, `idle` of when it last slept. A scheduling function may return any outcome its checks let pass.

### IncludeStack

`rd` is the reader: current file, source (cache or disk), position, `IStack`, block
stack and base pointer, RETURN flag, owner flag. `text` is what the files hold,
chosen at the start; `present` which still exist (`Vanish` removes one, at any
time). One action per command (`Include`, `Block`, `Return`, `Run`, `Rem`, `Exit`), one
for an ignored line, one each for the end of a file and its reading past the end,
and one for the start of a pass. Files up to `MaxCachedLines` are cached, the
others are closed when they include another file and reopened afterwards.

### OmitContext, Triggers, DailyRun

`omits` and `saved` are the arrays and the saved contexts; `Omits` gives each command
as an operator from a context to a context and an error. `OmitSets` says the same
with sets; `ImplementsOmitSets` is the refinement, under the mapping of an array to
the set of its elements.

`Triggers` splits `NextSimpleTrig` into its sixteen cases, `GetNextTriggerDate` into
its loops. A loop that walks from a date to the first one that satisfies a test is
the minimum (or maximum) of the dates that do, cut at `MaxSatIter`, the limit of
the loop; an empty set is the error the code reports. `DailyRun` runs the program
once a day. Its variables say what the run of today computed. Since Remind keeps
nothing between runs, agreement between the days is the property to check.

### RemCommand, ReminderRun

`ReminderRun` puts the runs of a script side by side over some days. Its variables
outlive a run: the lines of `file`, the timestamp `stamp` (in `$OnceFile` or the
access date of the script), the COMPLETE-THROUGH dates and the day; `run` is the one
that goes on: mode and options, the line it reads, its copy of the timestamp
(`OnceDate`), the OMIT context, what was queued, issued, sorted and written to the
purged file. `Start`, `ReadLine`, `Finish` and `Killed` are the run, `Complete`,
`TakePurged` and `NextDayComes` its user and the clock. `ReadLine` is the whole of
`DoRem` for a line; its disjuncts are the ways out of it (`RefusedLine`, `NoDate`,
`NoRoom`, `PurgeLine`, `RemLine`). A SATISFY is given by the days of the week that
satisfy it, a WARN function by the list of its values, a time zone by its distance
from the user's. `ReminderMeaning` says by `Occurrences` what is due on a day, and
keeps a history (`seen`) that no run reads.

### Definitions

The variables are the four hash tables with their chains, the stacks of saved
variables and functions, the system variables, the translations, and whether the
script or an included file is read. A behaviour runs commands of one kind, as the
kinds do not meet but in translated system variables, which are in theirs.
`ImplementsMaps` is the refinement of `DefinitionMaps`, where a table is a function
from names to definitions and knows no chains, buckets or walks.

### Expressions

A state is a line of tokens (`Type` adds one, as long as the parser still wants
more) and the globals `g` that an evaluation may change: the counters, the alarm,
RUN, constness and the nodes in use. `Evaluate` is `EvalExpr`: it parses, evaluates
and frees; an alarm may strike at any node. The meaning it is compared with splits
the text at the operator that binds loosest.

### RemParser

One action per word. `in` says which function reads: `ParseRem` or one that it
called, or whose argument comes next; `pushed` is the word that came back by
`PushToken`. The trigger is filled in as the code does; `RemGrammar` knows parts and
their meaning only.

## 3. Runs

| Run | States | What it shows |
|---|---|---|
| `server` | 4,645,090 | `CurrentIsQueued` (the pointer never dangles), `NeverEarly`, `AtMostOnce`, `InOrder`, with slow starts and commands, suspensions, signals, edits, partial lines, failing `execvp` |
| `server_awake` | 631,141 | no suspension, `MaxLateMinutes` 0, slow starts and commands, partial lines: `NeverOversleeps`, `AtTimeIsIssued`, the inductive invariant `AwakeInv`; liveness: `SighupRereads`, `DueIsServed` |
| `daemon` | 661,384 | `-z1`, slow starts and commands, suspensions: the inductive invariant `IInv` (with the types), `NeverStale` |
| `include_stack` | 1,871,336 | all scripts of two or three lines with errors, a foreign file, a directory, commands, vanishing files: `IncludedWhereExecuted`, `EnclosingBlocksUntouched`, `RunFollowsOwner` |
| `include_meaning` | 1,278,307 | all error-free scripts of three or four lines: `MeansWhatItSays` (against recursion on the text), `PassesAgree`, `Terminates` |
| `omits` | 11,772 | `SearchIsMembership`, `ImplementsOmitSets` |
| `triggers` | 74,605 | `TriggersOnTheDay` (against a reference meaning), `PromiseKept`, `AnnouncedUntilTheDay` |
| `reminder_run` | 64,564 | 42 scripts over seven days, six sets of options, kills, edits, purges: `IssuesWhatIsDue`, `OnceADay`, `SortedStably`, `PurgedIsOver`, `PurgeLosesNothing`, `NaggedUntilDone` |
| `definitions` | 18,855 | `TypeOK` (chains, counts, the iterator), `DedupeIsExact`, `IncludedFilesOnlyLowerTheLimit`, `FunctionsAsWritten`, `ImplementsMaps` |
| `expressions` | 220,671 | `MeansWhatItSays`, `NothingLeftOver`, `ConstantsStayConstant`, `LimitIsFinal` |
| `rem_parser` | 451,532 | `MeansItsParts`, `AcceptsWhatIsClear`, `MarksNonConstant` |
| `v_purge` | – | a counterexample, section 5 |

Bounds and why they suffice.

* *Queue.* Minutes have two seconds and days six minutes; the clock goes from
  second 17 (19 in `server_awake`) to 27, over midnight of day 1, with one reminder at the last minute of
  the day, a repeated one with advance notices, one of tomorrow with its notice
  today and one with a scheduling function. The code tells seconds apart only by
  whether a minute is over, so two are enough; six minutes hold a notice, its
  repeats and the AT time on one side of midnight. `MaxEvents = 2` gives any two
  environment events in any order: the races are between two of them. A jump of five
  seconds is longer than a minute plus `MaxLateMinutes`. `MaxBusy` bounds how long a process does anything
  but sleep: 2 to 4 seconds, so that a command outlasts its minute and, in `server_awake` and `daemon`, the whole of
  the next one. It is a bound of the runs only; the theorems hold for any.
* *Reader.* `IF_NEST` is 2 or 5 (64 in the code), `INCLUDE_NEST` 3 (9), so that
  stacks fill up; two passes, the second from cache; files of three (four) lines are
  too long for the cache. Scripts of three lines and their includer's suffice for an
  open block in one file to meet a loose ELSE or ENDIF in another.
* *OMIT context.* `MAX_FULL_OMITS` 4 (1000), so the array fills up within a range;
  one saved context, as the stack is only pushed and popped. Dates around
  29 February and the end of the year.
* *Triggers.* Every kind of specification with days 1, 29 and 31, January, February
  and December, daily from November 1995 into 1997; the modifiers from 20 February
  1996 for 40 days with a weekend and a holiday block over 29 February. `MaxSatIter`
  is 8 (10000): no omitted block in the runs is that long, so the limit cuts
  no search there. `TRIG_ATTEMPTS` is 20 (500), and is reached: by a SKIP reminder
  every date of which is omitted, where giving up is the right answer.
* *Life of a script.* Each kind of trigger, task and modifier alone in its script from
  Wednesday, 10 to Tuesday, 16 January 1990, so that dates lie before, in and after the
  seven days; the others (ONCE, ADDOMIT, sorting, duplicates, errors) together in
  scripts of three or four lines. `MAX_FULL_OMITS` is 1, so that a second ADDOMIT
  finds no room. Any number of runs a day, with any of the options.
* *Definitions.* Tables of 1, 3 and 7 buckets (7 to 1,437,356,741 in the code) and hash
  values that collide in some sizes and not in others, so four names grow and
  shrink a table and share chains; two values; one level of PUSH, as a stack.
* *Expressions.* Eight vocabularies, each for one concern (`MCStyles`), of lines up to
  three to six tokens; `IntMax` is 32767, large enough for the codes of date and time;
  24 nodes a line and a depth of 4, so that both limits strike in `recursion`.
* *REM.* All words up to three on a line (about 60 of them), those whose functions
  read on up to five: a part, its argument, and what follows it.

Fairness. `FairSpec` of `RemindQueue` asks weak fairness of the process, the clock
and the client that finishes a line it has begun. The first two hold because what the
process blocks in comes to an end: `select` and `sleep` with the clock, `read` with the line, `waitpid` with the
command. That commands end is the assumption that the process is busy for at most `MaxBusy`; that a line ends
is one about `tkremind`, which writes whole lines. `server_awake` does let it stop in the middle, so the process
is held up and other events come first. Nothing is assumed of signals, edits or further commands. Responses are
only demanded if the clock still has a poll interval to go before the bound
(`Soon`). `FairSpec` of `IncludeStack` asks weak fairness of the reader, a sequential
loop. `CHECK_DEADLOCK FALSE` stands where the system really stops: after the
last day (`triggers`, `reminder_run`, `v_purge`), at the end of a line (`rem_parser`,
`expressions`).

## 4. What is proved

`RemindQueue_proofs`, for every script, clock, bound, mode and number of
reminders that meets `QueueAssumption` and the assumption of `AtSchedule`:

| Theorem | Statement |
|---|---|
| `QueueInvariant` | `Spec => []IInv` |
| `TypeCorrect` | `Spec => []TypeOK` |
| `CurrentAlwaysQueued` | `Spec => []CurrentIsQueued` |
| `IssuedInTime` | `Spec => []NeverEarly` |
| `IssuedOnce` | `Spec => AtMostOnce` |
| `IssuedInOrder` | `Spec => InOrder` |
| `InTimeOnItsDay` | `Spec => []NeverStaleOnItsDay` |
| `AwakeInTime` | without suspensions, for a daemon or server: `Spec => []NeverOversleeps` |
| `AwakeInvariant` | without suspensions, in every mode: `Spec => []AwakeInv` |
| `AtTimeIssued` | likewise: `Spec => AtTimeIsIssued` |
| `NeverStaleBeforeMidnight` | with suspensions, for notices of less than a day and no scheduling functions: `Spec /\ [](pc = "issue" => ~RolledOver) => []NeverStale` |

`NeverEarly` is not inductive: that a reminder is issued after its time depends on
`pc = "issue"` being entered only then (`DueWhenIssued`), and that on an entry having
a time at all once the initialisation pass is over (`StagesInOrder`). `AtMostOnce` needs
that the next time of an entry lies after all it was issued for
(`FiredBeforeNext`), which the step through `recalc` breaks for one moment.
`CurrentIsQueued` needs `WaitsForQueued` for processes that take no commands; a server
looks for `cur` again after each command. `InOrder` needs that what a process waits for is
the earliest entry also after a wait in which entries were deleted (`EarliestInHand`).
`IInv` is the conjunction; `daemon` checks it with TLC. The proofs have a lemma per
group of steps, and the lemmas on `AtSchedule` (a next time is later than the last,
never after the event, and before the clock only for the event itself).

The test whether a reminder is too late compares times of day. `InTimeOnItsDay` says where
that is right, in every mode and with any suspensions: on the day of the reminder. Across
days it is wrong (section 5), and a notice a whole number of days ahead of its event passes
for the event itself, which is why the theorem asks for the day of the event.

The other four theorems have hypotheses, and need them. Without suspensions
(`Jumps = {}`) a nap ends no later than the first time on the list (`WakesInTime`):
`NapEndsInTime` follows `TimeToSleep` through the three kinds of sleep, by
arithmetic with seconds, minutes and days. A forked background process is left out of `AwakeInTime`, as it
does not see that the date changed.

`AwakeInv` adds what a process without suspensions misses, in every mode and however long starts, commands and
lines of the client take: no time on the list lies before the last moment at which the process slept (`NoneIsMissed`), notices
end with the time of the AT (`EndsAtTheTime`), which is issued when the process comes to it (`AtTimeFired`).
A time can only pass unnoticed between that moment and now, while the process is busy. That is the exception
of `AtTimeIsIssued`, and it is needed: an AT time whose minute comes and goes while the process waits for a slow command is
dropped (section 5). `NoneIsMissed` has an exception too: a process that starts before midnight and reads its script
after it takes in times of the day before.

`NeverStaleBeforeMidnight` allows suspensions and slow commands, of any length. It asks that the process issues nothing on
a later day than the one it started on (it may wake up or be busy on one), since the test would take a time of
yesterday for one of today; that notices are for less than a day; and that no function schedules, since a function may
name the time of day of the event on another day. `EndsAtTheTime` and `FromFirstNotice` (no notice lies before the first)
then put everything that is issued within a day of its event, where equal times of day are equal times.

`IncludeStack_proofs`, for every script, directory and command, any depth of the two
stacks and any file that vanishes, under `IfNestAssumption` and `IncludeAssumption`:

| Theorem | Statement |
|---|---|
| `BlocksKept` | `Spec => []EnclosingBlocksUntouched` |
| `ExecutedWhereIncluded` | `Spec => []IncludedWhereExecuted` |
| `RunFollowsTheOwner` | `Spec => []RunFollowsOwner` |

The first two follow from `NestInv`: each entry of the include stack remembers a prefix of the IF
stack, the base pointers are the lengths of these prefixes and do not decrease
(`Enclosed`), all blocks below the base pointer are being executed (`AllExecuting`), and
the script itself has nothing below it (`Outermost`). The lemmas `BlocksChange`, `Entered`,
`Left` and `Rechained` are about the two stacks alone; the ones after them show that
each function of `files.c` and `ifelse.c` is one of these changes, and that the
cache, the owner and the place in a file do not matter (`Beside`).
`ExecutedWhereIncluded` needs the rest: back in an including file the base pointer is the
one it had, and the blocks below it are still those of the INCLUDE.
TLC checked `NestInv` over the instance of `include_stack` before it was proved.

`RunFollowsTheOwner` holds under `TextAssumption` as well: an INCLUDE names a file and an
INCLUDECMD a command. (The cache keeps what a command `c` prints under the name `c|`,
`files.c:1062`; a file that is called `c|` would take its place and its owner.)
The owner of the current file is not enough for an induction: `OwnerInv` says that the cache
knows the owner of every file it holds, and of a command whether it has a `!`
(`RightCache`); that the frames of the include stack know the owner of the file they
return to (`RightFrame`); and that a chain of a directory names files (`RightListing`). An
INCLUDECMD tells the cache that its output may use RUN if the INCLUDECMD itself could, and
so depends on being executed with RUN enabled only (`IncludeCmdOwned`). `NestInv` is used for the
shape of the stacks. TLC checked `OwnerInv` over the instance of `include_stack` before it was
proved. `ExistingFiles` shows how a loop is reasoned about: `LoopComputes` (`NatLemmas`) gives a function
with the recursive equation, so the one the definition chooses has it too, and
`UpTo` takes the place of induction.

`OmitContext_proofs`, for every list of commands and every length of the array of dates,
under `OmitsAssumption` and `CommandAssumption` (a date has a month and a day of its range, or
leaves them out):

| Theorem | Statement |
|---|---|
| `ArraysStaySorted` | `Spec => []OmitInv` |
| `SearchIsExactAlways` | `Spec => []` `IsOmitted` agrees with the sets on every date from 1990 on |
| `SearchesAreMembership` | `Spec => []SearchIsMembership` |
| `OmitsImplementSets` | `Spec => ImplementsOmitSets` |

`OmitInv`: the arrays of the context and of all saved ones are strictly sorted, and the array of dates
is within `MAX_FULL_OMITS`. `SearchFinds` proves the binary search by the smallest range it
could be wrong on: the half it goes on with is smaller. `InsertKeepsOrder` is about
`InsertIntoSortedArray`. For the refinement each command has a lemma on the sets
(`AddPartialAdds`, `OmitDatesAdds`, `AddGlobalOmitAdds`, `OmitWeekdaysAdds`); the two loops of `DoOmit` have an
invariant each. `PartialLoop` counts days round a year of 366 (`YearIsARing`: the order of the codes
`m * 32 + d` is the order of the days, `DayAfter` the next one in it), and `FullLoop` remembers the
date that found the array full. What the arrays promise of their size follows from
`ArrayHasNoDoubles`. That each step maps to a step of `OmitSets` or a stutter is `NextRefines`.

`Triggers_proofs`, for every trigger a REM can write (`IsTrigger`), every OMIT context and day, and any limits
of the search (`TriggersAssumption`):

| Theorem | Statement |
|---|---|
| `NextSimpleTrigFinds` | the date is specified, and none from the start on is passed over |
| `ComputesOnlyOccurrences` | `ComputeTrigger` returns `Expired`, `Failed` or a day from today on that `Occurs` |
| `ComputesTheFirst` | unless it is `Failed`, no day that `Occurs` from today on comes before it |
| `PlainSearchSucceeds` | without BACK, SKIP, BEFORE and AFTER it is not `Failed` |

`DailyRun_proofs`, for every set of scripts that meets `DailyRunAssumption`:

| Theorem | Statement |
|---|---|
| `PromisesOccurrences` | `Spec => []PromisesAnOccurrence` |
| `PromisesTheFirstDay` | for regular scripts: `Spec => []PromisesTheFirst` |
| `TriggersUnlessFailed` | for regular scripts: `Spec => [](promised # Failed => TriggersOnTheDay)` |
| `PromisesAreKept` | for regular scripts: `Spec /\ [](promised # Failed) => PromiseKept` |
| `AnnouncementsGoOn` | for regular scripts: `Spec /\ [](promised # Failed) => AnnouncedUntilTheDay` |
| `PlainScriptsAreExact` | for plain scripts: the three properties, without a condition on the search |

The runs of the program meet in nothing but the date, so the invariant of `DailyRun` is small; what it takes is a
theorem about `ComputeTrigger` on each day. The argument goes along the functions. The calendar comes first:
a date is the day of exactly one month of one year (`DayInMonth`), the months follow one another, and a gap of
two months, or of eight years, without a given day is too long. Each of the sixteen kinds of `NextSimpleTrig` then
`Finds`: what it returns is specified (`Sound`), not before the start (`Ahead`), and the first (`NoneBefore`). BACK,
repeats and SKIP keep the order of the dates they move (`BackKeepsOrder`, `RepeatsFirst`, `MovesInOrder`), so the first
one moved is the first of the moved ones. The scan of `ComputeTrigger` is a loop over attempts with the
invariant `Left`: every day that is due still comes from a date not before the start of the next attempt.
`AttemptsDecide` says that an attempt fails, returns the first day due, or goes on with `Left`; in particular it
does not give up early (`NextStart` is later than the start) while something is due. That is the test at
`trigger.c:703`, which is where the code goes wrong for the triggers of `Diverges`.

The hypotheses are these. `Regular` scripts are not among `Diverges`, the kinds listed in section 5 for which the
theorem is false, and start at least `Reach` days after 1 January 1990: in the first days of the calendar BACK may lead
to a day before it, where the number -1 is both a day and `Expired`. `promised # Failed`: a search that gives up
after `MaxSatIter` or `TRIG_ATTEMPTS` steps (E_CANT_TRIG) says nothing, and whether one does depends on how many days
the OMIT context leaves; for plain scripts none does.

`ReminderRun_proofs`, for every script, trigger, zone, option and bound that meets the
assumptions of `ReminderRun` and the modules it extends:

| Theorem | Statement |
|---|---|
| `OnceOnlyOnceADay` | `HSpec => []OnceADay` |
| `IssuedInTheOrderAskedFor` | `HSpec => []SortedStably` |

`OnceADay` says that among the runs of a day at most one shows reminders with ONCE. It
is not inductive. `OnceInv` adds what makes it so: once a run has shown such a
reminder the timestamp is today's (`StampedWhenKnown`, `StampedWhenSeen`); a run that knows
an older timestamp is the first, or none before it has shown any (`FirstOrNone`); and
whatever a run has queued, issued or holds in the sort buffer was asked for with an
older timestamp (`OnceIfNotToday`). The sort buffer enters by `InsertAdds`: inserting
neither loses nor invents a reminder. A run killed while it writes the
timestamp starts the count of the day again, as the model's history says. TLC checked `OnceInv`
over the instance of `reminder_run` before it was proved.

`SortedStably` speaks of the end of a run; `SortInv` says what holds of the buffer after each line. The place of a
reminder is the number of those before it (`Place`), and `Sorts` has it as an invariant that the places of the buffer
are each taken once, in the order of the keys. `CompareRems` is that order (`ComparesKeys`): its three comparisons, with
untimed reminders first or last, are a linear order of keys of four numbers. `InsertSorts` is the step: the
reminders the loop of `InsertIntoSortBuffer` finds to go after the new one are all at the end of the buffer, so
only they move (`PlacesMove`), and as many places come before (`CountsPlaces`). An order of numbers needs numbers: that
each reminder has a date and a time (`TriggerIsADate`) goes through the two loops of `RemCommand`, the attempts of
`ComputeTriggerNoAdjustDuration` with tasks, durations and zones and the search of `DoSatRemind`, under `RemAssumption`
(the fields of a parsed reminder) and `OptionsAssumption` (the directions of `-g`). TLC checked `SortInv` over the
instance of `reminder_run` before it was proved.

`Definitions_proofs`, for every set of names, hash values, numbers of buckets and commands, any values,
and any depth of the stacks, under `HashAssumption`, `NamesAssumption`, `SysVarsAssumption` and
`FunctionsAssumption`:

| Theorem | Statement |
|---|---|
| `DefinitionsInvariant` | `Spec => []DefInv` |
| `TablesWellFormed` | `Spec => []TypeOK` |
| `IssuedOnceInAPass` | `Spec => []DedupeIsExact` |
| `FunctionsStayAsWritten` | `Spec => []FunctionsAsWritten` |
| `LimitIsLoweredOnly` | `Spec => IncludedFilesOnlyLowerTheLimit` |
| `DefinitionsImplementMaps` | `Spec => ImplementsMaps` |

The hash table comes first, as a type: `TablesOf(D)` are the tables with data in `D` whose items are in the
chain of their hash value, have distinct keys, and are as many as the count says (`Placed`, `Shape`, `Roomy`).
Linking, unlinking, changing in place and resizing keep this and change what is found under one key
or none (`InsertMaps`, `DeleteMaps`, `UpdateMaps`, `KeepMaps`). Resizing is a loop in a loop:
`MoveChainsSteps` says what is in the new buckets after some of the old chains, and that nothing is in two
of them is where `Placed` is needed; `NextSize` says that one larger size is enough, for which
`HashAssumption` asks that the sizes grow, to at most the fourfold. The iterator is proved by what it has still
to visit (`OrderOfItems`, `NextOfTheRest`): the items are in an order, each round takes the first of the rest
(`SeesAll`), and a deletion of the item that was left behind changes the rest by that item only
(`RestAfter`), so the loop that deletes as it goes meets every item once and leaves the kept ones (`KeepsOnly`).

Upon that a variable, translation or function is the value under a key (`ValueIn`, `BodyIn`), and each command a change
of one value. The loops of UNSET, PUSH and POP go over a list in which a name may come twice, and under two
spellings; `LastCounts` is the lemma they share: after the loop a key has the value that the last
round for it set. `DefInv` adds to the tables what a POP relies on. What is saved can be set again (`Saves`): a
system variable in a saved list is modifiable, a number is in its range, and a translation has the escapes of
its message, as InsertTranslation would refuse it otherwise and POP-VARS would silently restore nothing
(`Safe`; so `TranslationTable` is in `SafeTables`). In one list a name has one value (`SaveLists`). Every function
and every clone is the one of an FSET line (`FuncData`), which is `FunctionsAsWritten` before it is asked of a line.

`StepMaps` is the refinement: for each command, the step of `DefinitionMaps` it is. That `PopVars`
restores the limit or leaves it lower is the exception `DefinitionMaps` states; `LimitStep` follows the limit through
a POP. `FunctionsAssumption` asks that a line of a file is one command, since that is what FSET
takes it for (`userfns.c:239`). `SysVarsAssumption` asks that a modifiable number starts in its range, which
the table of `var.c`, the initial values of `globals.h` and the options of `init.c` satisfy but for one: `$MinsFromUTC` is computed from the time zone
(`init.c:843`), and a zone more than 13 hours from UTC puts it outside -780 to 780. A POP-VARS then
fails to bring it back.

Not proved, model-checked only: liveness (`SighupRereads`, `DueIsServed`,
`Terminates`); the meanings of scripts, lines of a REM and expressions (recursive definitions); what is due in
the life of a script (`IssuesWhatIsDue`, `NaggedUntilDone`) and what a purge takes
away (`PurgedIsOver`, `PurgeLosesNothing`); that a search with BACK, SKIP, BEFORE or AFTER succeeds (it may not, see above);
which dates tasks, durations, time zones and SATISFY lead to in `RemCommand`; `NeverStale` for
a daemon that issues after midnight, with notices of days or scheduling functions.

## 5. Where the code does something else than a document says

In the run `v_purge` TLC finds the counterexample, and `PROJECT.json` quotes the text: a task with a time zone ten hours behind the user's that is late counts as
expired (`trigger.c:631`), so a purge takes it away, though nobody marked it as complete
and the manual says that it stays.

The others were found while modelling. They are in the models; the runs leave them
out by what they do not write (`Diverges` in `Occurrences`, `KnownDivergence` in `MCRemParser`, the scripts of
`MCReminderRun` and `MCIncludeStack`), since a property fails where the code does
what a document does not say.

*Queue.*

* A background process never looks at the date again (`queue.c:401`), and whether a
  reminder is too late is asked of times of day (`queue.c:468`): suspended before the
  time of a reminder and woken after midnight, it sleeps until that time of the new day
  and issues the reminder a day late, which the comment at `queue.c:462` and
  `remind.1.in:3291` exclude. `NeverStale` fails for `Mode = "background"`, one reminder
  at five and a jump of eight seconds at 17. A daemon does the same if it is suspended for a day while it
  starts or issues a reminder; the jumps of the run `daemon` are shorter.
* A background process compares with the date it started on, so it sleeps past a
  reminder whose advance notice was yesterday (`queue.c:401`; `remind.1.in:1399`).
* A notice a whole number of days before its event has the time of day of the event, so
  `$MaxLateMinutes` is applied to it as if it were the AT time (`queue.c:469`).
* With `$MaxLateMinutes` 0 a repeated reminder is dropped without having been issued for
  its AT time after a suspension, or if that minute passes while the process waits for the command of its notice
  or, with that notice, for another one's (a RUN reminder or `-k`: `queue.c:534`, `main.c:2216`; `remind.1.in:3284`, and the comment at
  `queue.c:466`: "so all queued reminders are triggered at least once"). `AtTimeIsIssued`
  fails without `CameAndWentWhileBusy`, in a server that nothing suspends.
* A process that starts before midnight and reads its script after it queues the AT times of the day
  before that are later in the day than the clock (`dorem.c:2344`). A daemon or server rereads when it
  wakes up; a background process issues them on the new day.
* A SIGHUP between `execvp` and the installation of the handler ends the process
  (`queue.c:378`; `tkremind.1.in:536`).
* A DEL for a popup shown before a reread deletes whichever entry has the number now
  (`queue.c:1045`); an edit between the reading of the script and the first watch
  is missed (`:381`).

*Reader.* An IFTRIG with a parse error opens no block, so its ENDIF closes the
enclosing one (`main.c:1321`).

*Triggers.*

* `REM date *n BEFORE` counts as expired on the omitted days it has moved from
  (`trigger.c:703`; `remind.1.in:1096`), so its warnings stop and return.
* A weekday, a day and a year without a month (`:177`): after the last day
  of December the year counts as over although its first weekday may follow in
  January, and the length of the next month is asked for the year "day" (`:209`).
* BACK with AFTER: the scan starts at the block before today, its next start may not
  be after today, and the reminder counts as expired (`:703`).
* BACK with UNTIL: a scan that has gone on past UNTIL gives up, though going back
  would lead before UNTIL (`:317`).
* BACK with a repeat and SKIP: after an omitted repetition the scan goes on at the
  base date (`:705`) and skips repetitions before it.

*Life of a script.*

* A TODO that lasts past midnight (DURATION) and is complete through its date counts as
  expired while it lasts and is purged (`trigger.c:525`); without COMPLETE-THROUGH
  it has no date. A TODO whose only date lies before its FROM is issued as
  overdue since day 0 of the calendar.
* A TODO that recurs and has MAX-OVERDUE but no COMPLETE-THROUGH never gets past its
  first occurrence: after that date plus MAX-OVERDUE it is silent for ever
  (`dorem.c:203`).
* An error in purge mode writes the line to the purged file twice, once by DoRem and
  once by DoReminders (`remind.1.in:6495`); `PurgeLosesNothing` allows it.
* In purge mode a REM with ADDOMIT and SATISFY adds no date, and one that is commented
  out will not: later lines see another OMIT context than a run does.
* An ADDOMIT for which there is no room is an error that keeps the reminder itself
  back, which `IssuesWhatIsDue` allows.
* Two runs that start together both read the old timestamp and both issue the ONCE
  reminders; a run that is killed while it writes `$OnceFile` leaves it empty, and the
  next one issues them again (`main.c:2263`), which `OnceADay` allows.

*REM.*

* `MAX-OVERDUE` with a word that is no number takes the default in silence (`dorem.c:927`).
* `AT 11:00 2026-01-01@10:00` and `DURATION 60 2026-01-01@10:00` lose the time or the
  days of the duration (`dorem.c:882`), while the reverse order gives an error or the
  meaning of the manual (`remind.1.in:753`).
* A relative date after the parts of a date in FROM (`FROM 5 Feb 2025 -3`) is refused; a
  second OMIT without weekdays is accepted.

*Expressions.*

* `const(x)` makes the whole line constant, with what stands before it
  (`expr.c:578`; `remind.1.in:6510`).
* A TIME minus an INT is not checked for overflow (`expr.c:1288`; `remind.1.in:2916`).

## 6. Not modelled

`PROJECT.json` lists every component with its reason. In short: text (substitution
sequences, layout, messages), floating point (moon, sun), third-party code (`json.c`,
`md5.c`), data (holidays), the other programs. Of the modelled components:
OMITFUNC and MAYBE-UNCOMPUTABLE, changes to daylight saving time, calendar mode
(triggers and REM); scripts from standard input, line continuation, lack of
memory (reader); output of reports and lists of translations, a
daemon whose script cannot be examined when it starts, which goes on as a background process
(`queue.c:344`) (queue); a TAG with a comma, an error (`dorem.c:1134`) (REM); a bad date in a SATISFY
reminder, which ends the line like a search that gave up; two runs of a script at the same
time (life of a script); most of the range checks of system variables, warnings and dumps
(definitions); most of the built-in functions, escapes in strings
(expressions); abbreviations of keywords (tokens). A write to the client never blocks in the model.

Two places of the code are undefined behaviour or end the program and are kept out of
the runs: a TODO with AFTER or BACK looks at day -1 (`omit.c:227`), and a
`trig()` in a SATISFY of a reminder with a time zone enters the zone twice, which aborts
(`dorem.c:78`).

## 7. Plan

In this order:

1. Proofs: `IssuesWhatIsDue` for a reminder with a date and nothing else, upon `ComputesTheFirst`;
   `PurgeLosesNothing`, which takes an invariant on what a run in purge mode has written so far.
2. An abstract alarm service (a set of times; issue each once, in order) refined by
   `RemindQueue`; the protocol of a scheduling function.
3. OMITFUNC as an oracle; daylight saving time as an offset that depends on the date.
4. Calendar mode: the days of a month over one script, the order of entries in a day, the
   columns.
5. Pure algorithms against reference definitions: `hbcal.c` (both ways), `Dates` itself
   (`FromDSE` inverts `DSE`), the date functions of `funcs.c`.
