# mini_edr: a verification development

TLA+ models of the mini_edr agent, the TLC runs that check them, and theorems
about them with proofs checked by TLAPS. Every definition is translated from the
Go source; `PROJECT.json` lists, for each one, the lines it stands for.

## 1. The system

The agent is a pipeline of goroutines joined by bounded channels
(`src/cmd/agent/main.go`):

    audit.log -> TailEngine -> AuditdCollector -> EventDispatcher -> RuleEngine -> alert printer
                 lineChan 1000   outputChan 1000    outputChan 1000    alertChan 1000
                 errChan 10      errChan 50         errChan 50
                      \______________\__________________\-> error printer

A stage never waits for the next one: every send is a `select` with a `default`,
so a full channel loses what is sent. Hence the questions the models ask are
about what is lost, what is reported, in which order things arrive, and whether
everything still ends when nobody reads any more.

| component | state it keeps | operations | talks to |
|---|---|---|---|
| TailEngine (`collector/tail.go`) | lineChan, errChan, context | Start, runLoop, Stop | tail library, collector, error printer |
| AuditdCollector (`collector/auditd.go`, `types.go`) | pendingMap and mapMutex, outputChan, errChan, context, wait group | Start, runAssembleLoop, processLine, isReadyToAssemble, runMapCleanerLoop, Stop | tail engine, dispatcher, error printer, clock |
| record parsers (`auditd.go:291-634, 678-706`) | none | one parser per record type, field extraction | processLine |
| EventDispatcher (`dispatcher/event_dispatcher.go`) | sequenceID, outputChan, errChan | Start, runTransformLoop | collector, rule engine, main's context |
| event building (same file, 94-493) | none, reads `/proc` | buildBaseEvent, enrichments, path selection | the loop |
| RuleEngine (`rule/engine.go`) | rules, group table, alertChan | LoadRuleFile, Start, runMatchingLoop, evaluateEvent | dispatcher, printer |
| RuleMatcher, accessor (`rule/matcher.go`, `accessor.go`) | the group table | MatchCondition, checkValueInGroup, compareValue, GetEventField | evaluateEvent |
| rule files (`rules/*.json`) | data | | LoadRuleFile |
| AlertDispatcher (`dispatcher/alert_dispatcher.go`) | two output channels, copies of alerts | Start | rule engine, response and storage stages; not started by main |
| agent (`cmd/agent/main.go`) | the context, the wait group | start order, alert printer, error printer, shutdown | all stages |

What makes each correct, and what is hard about it:

* **TailEngine**: lines in order and once; after a loss some overflow has been reported;
  Stop returns. Hard: two channels that may both be full, Stop with nobody reading.
* **AuditdCollector**: an event is delivered at most once, only when complete, and
  not lost silently. Hard: the cleaner runs between the records of an event;
  records arrive after their event was delivered; a group is given up by age; both
  goroutines send with the mutex held; Stop closes the channels they send on.
* **EventDispatcher**: events without a gap and numbered; what is lost is the end of
  the sequence. Hard: an overflow in the middle, cancellation with groups queued.
* **record parsers and event building**: the fields the rules look at are what auditd
  wrote. Hard: keys that end in other keys, numbers in two bases, addresses that are
  cut short, PATH records in any order, and `/proc`, which shows the present and not
  the time of the event.
* **RuleEngine**: every event is judged by every rule; an alert names its rule. Hard:
  one event object is written for each match while the printer reads it, with no lock.
* **RuleMatcher and rule files**: a rule means what its file says, whatever else is
  loaded, whatever fails to load and in whatever order Go ranges over maps.
* **agent**: after a signal everything ends, and what was detected is printed or named
  among the losses. Hard: stages run before their readers are started, and are
  cancelled before their writers are stopped.
* **AlertDispatcher**: what one side does to an alert, or fails to take, does not
  concern the other.

The hazards are listed with their lines in `PROJECT.json`.

## 2. Modules

| module | models | of |
|---|---|---|
| `AuditRecords` | record types, required records per event type, keys | `types.go`, `isReadyToAssemble` |
| `EventAssembly` | what the collector promises: Collect, Deliver, GiveUp | abstract |
| `AuditdCollector` | assembler, cleaner, Stop, clock, channels | `auditd.go` |
| `LossyChannel` | what a stage promises of its output: no waiting, loss only when full, order, nothing after the close | abstract |
| `TailEngine` | runLoop, Stop, the tail library's stream | `tail.go` |
| `EventDispatcher` | runTransformLoop | `event_dispatcher.go` |
| `RuleEngine` | runMatchingLoop, evaluateEvent, main's alert printer | `engine.go`, `main.go` |
| `Agent` | main, the error printer; extends `EventDispatcher` and instantiates `RuleEngine` | `main.go` |
| `RuleMatcher` | LoadRuleFile, the judging of an event, conditions | `engine.go`, `matcher.go`, `accessor.go` |
| `RecordParsers` | field extraction and the six record parsers | `auditd.go:291-493, 541-600, 678-707` |
| `EventBuilder` | from audit records to the system event; extends `RecordParsers` | `event_dispatcher.go:94-494` |
| `AlertDispatcher` | the fan-out of alerts | `alert_dispatcher.go` |
| `MC...` | small logs, events and rule files for the runs | |
| `ChannelTheorems` | lemmas about bounded queues and the counting of what was sent | |
| `AuditdCollectorProofs`, `TailEngineProofs`, `RuleEngineProofs`, `RuleMatcherProofs`, `AlertDispatcherProofs`, `EventBuilderProofs` | the theorems about each component | |
| `AgentProofs` | the theorems about the dispatcher's loop, and about the composition; instantiates `RuleEngineProofs` | |

### AuditdCollector

State as in the Go struct: `pendingMap`, `mapMutex`, `outputChan`, `errChan`,
`ctxDone`; the program counters of the two goroutines and of the caller of Stop;
the line at hand; the entries a sweep has still to evict. A **line** is its event and
its position in what auditd writes for the event (constant `Log`); a **group** is the
set of positions it was parsed from, so two PATH records or a replaced EXECVE record
are told apart without any field values. `processLine` is three actions, cut where
other goroutines can see a difference: `AssembleReceive` (before the lock),
`StoreRecord` (lock, lookup, parse, store) and `HandOff` (readiness test, send or
report, delete, deferred unlock). A sweep is `SweepBegin` (lock, read the clock),
one `Evict` per stale entry in any order, `SweepEnd`. An age is a number of clock units
that saturates at `Minute + 1`: the code only asks if it is more than a minute.
`fresh` is the answer to `UpdatedAt.After(startTime)`. The clock, the tail engine
and the consumers of both channels are environment actions. `handed` and `gone` are
history variables that no action reads.

### TailEngine, EventDispatcher, RuleEngine

Each has the goroutine's program counter, its channels and the closing of the
channels. The receive and the non-blocking send of `runLoop` are one action: nothing
another goroutine does in between could be told from it being done before. In
`EventDispatcher` a group is opaque but for its having a SYSCALL record; its
environment is nondeterministic, and `Agent` puts the real one in its place. `RuleEngine`
takes which rules an event matches as a constant; `auditKey` is the field the engine
writes and the printer reads, as the set of the names it is made of: a Go string
assignment is not atomic, so while a name is being written a reader may see a
mixture (actions `NameRule` and `RuleNamed`, read by `PrintAlert`).

### Agent

The composition: the dispatcher's variables are the module's own, the engine's are
those of `R == INSTANCE RuleEngine`, in which the event stream is the dispatcher's
`outputChan` and the context is shared. A step that belongs to both is the conjunction
of their actions (`EngineReceives` is the engine's receive and the dispatcher's
`TakeEvent`; `CancelContext` is both `Cancel`s). main is one action per statement that
another goroutine can tell apart. The collector is what `AuditdCollector` shows the
dispatcher: it hands off groups until its goroutines have ended, and closes its channel
in Stop. Two properties of other modules justify that two waits end here,
`StopReturns` of the collector and of the tail engine. The tail engine and the
collector are not composed again: `ReadLine` of `AuditdCollector` is already the tail
engine's non-blocking send, with the loss of a line.

### RecordParsers, EventBuilder

A line is the type of its record and its fields in order; a text is told apart as far as
Go's conversions do (a word, hexadecimal digits, digits behind `0x`, digits with auditd's
interpretation glued to them, an encoded text). The chain starts with a fact: an exec, a
connect, a ptrace call and so on, with the numbers and texts auditd writes about it.
`Lines` is how auditd writes it (external), `Store` is `processLine`'s switch, and the
group is handed off when the readiness test of `AuditRecords` says so, so that an event
whose group leaves early is built from what the group has. The three reads of
`resolveProcessExe` are three actions, between which the parent's process number may come
to stand for something else. The parsers' preconditions are named: no value contains the
text of another field behind a colon or a space. What `strings.TrimSpace`, `filepath.Ext`
and the last part of a path are for the words of a run is given by constants. The keys a0,
a1, ... are a constant, `ArgKey`, since TLA+ has no text to put them together from.

### AlertDispatcher

The channels carry pointers, so objects are modelled: the engine's events, each of
which may be sent several times, and the two copies of the k-th alert received. The
memory of an object is the set of the consumers that have written to it.

### RuleMatcher

JSON values are tagged records; texts are opaque and what `strings.Contains`,
`filepath.Match`, `strings.Fields`, `filepath.Base`, `strings.ToLower` and
`strconv.ParseInt` say of them is given by constant relations. The conditions of a rule
are checked one per step in any order, since Go ranges over maps so; any file may fail
to load.
`checkValueInGroup` calls itself for a map in a map; `Within` gives what is found in
at most that many maps, and the constant `Depth` is how deep the files' groups go
(`DepthAssumption`, which TLC evaluates on the files of the run).

## 3. Runs

All bounds are constants in the `.cfg` files.

| run | bounds | shows |
|---|---|---|
| `collector` | events of three and four lines, with a damaged record and a line without an audit ID, all channels of capacity 1, a group stale after one clock unit (`Minute = 0`), a tick at every unit | type invariant, at most one delivery per event, titled events whole, no complete group left in the map, no record vanishes, eviction only of stale groups, no send after close, refinement of `EventAssembly` |
| `collector_live` | two events of two records, `outputChan` of capacity 1 and nobody who must read it, `Minute = Period = 1` | Stop returns, every group leaves the map, and complete events are handed off, also when the second finds the channel full and is reported with the mutex held |
| `collector_connect` | the log of `auditd_test.go` | finding, section 6 |
| `tail` | five lines, capacities 2 | order, an overflow reported once a line is dropped (not one for each), Stop, refinement of `LossyChannel` |
| `dispatcher_overflow` | three groups with a SYSCALL record, one without, capacities 2, 2, 1 | finding |
| `rule_engine` | three rules; events that match two, one, none; alert channel of 1 | every rule that matches alerts once and no other does, names printed, refinement of `LossyChannel` |
| `rule_engine_names` | the same | finding |
| `rule_files` | four files of every shape, each of which may fail, eight events | what a file's rules detect depends on that file only, in whatever order the conditions are checked |
| `agent` | three groups, one without a SYSCALL record; two rules; channels of 2, 1, 1, 1 | alerts accounted for from the hand-off on, the dispatcher is a `LossyChannel` and the environment `RuleEngine` assumes, shutdown ends, an overflow is announced, detections are printed |
| `event_fields` | some fifty events of every kind and shape, five programs a process number can stand for, two changes | identity, parent, address, target, command line and ptrace request of the event are what auditd wrote, with the exceptions named in section 6 |
| `ptrace_target` | one ptrace call | finding |
| `alert_dispatcher` | three alerts about two objects, channels of 1, 1, 2 | isolation of the copies, a complete fan-out, refinement of `LossyChannel` on both sides, cancellation |

**Why these bounds are enough to be interesting.** A capacity of 1 makes a channel full
after one send, so every drop and report branch is taken with the consumer stopped as well
as running. In `collector` a group is stale one clock unit after its last record and every
unit brings a tick, so a group can be stale at any tick and be freshened between the tick,
the lock and the sweep; in `collector_live` a whole period passes before it is stale, so a
tick also finds it too young; there both events can be assembled and nobody need read
`outputChan`, so the second finds it full with the mutex held (a send that waited for room
would violate `StopReturns` and `CompleteEventsHanded`), and a dropped SYSCALL line leaves
a group that can never be completed. Two events interleave line by line. Three lines of an
event suffice for records before, at and after the completing one. In `agent` three groups
overfill the dispatcher's output and the alert channel, and the signal may come at any
point after the start, the overflow even before the printers are started. In
`event_fields` two changes of a process number let it change between any two of the three
reads and back. In `alert_dispatcher` three alerts about two objects make at least two of
them about the same one, and either output overflows. What holds for all logs and
capacities is proved (section 5).

**Deadlock** is checked in the collector's runs, where the clock always ticks, and
off where the program does stop: goroutines that have ended, an agent that has
returned or has panicked while loading rules, an event that is built.

## 4. Fairness

The liveness runs assume what the Go runtime gives: a goroutine that can run does
(weak fairness of its actions); a `select` picks at random among its ready cases and
so does not pass over a ready one for ever, and a mutex is handed to a waiter in the
end (strong fairness of `AssembleDone`, `CleanerDone`, `CleanerTick` and the tail
engine's `LoopDone`; of `StoreRecord` and `SweepBegin`); time passes. `AssembleReceive`,
`AssembleClosed`, `Receive` and their like need only weak fairness, since nothing
takes their line or group away. Nothing is assumed of auditd, of consumers, nor of
the callers of Stop. The tail library's Stop is assumed to return
(`LibraryStopped`): its code is not in the repository. `Agent` and
`AlertDispatcher` get by with weak fairness of each goroutine as a whole: their inputs
are finite, so no `select` can pass over a case for ever. In `Agent` nothing is assumed
of the collector's hand-offs nor of the signal, and in `AlertDispatcher` nothing of
anybody but the loop.

## 5. Theorems

All theorems hold for every value of the constants that satisfies the assumptions
named below; TLC evaluates those in every run. Each inductive invariant was checked
by TLC on the component's run before it was proved. A step is proved to preserve it
with one case per action and, below that, one step per part of it that the action
touches.

| module | theorem | property |
|---|---|---|
| `AuditdCollectorProofs` | `TypeCorrect`, `EventsHandedOnce`, `CompleteGroupsSent`, `EvictionsAreStale`, `ClosedChannelsQuiet`, `NothingVanishes` | `TypeOK`, `AtMostOnce`, `NoCompleteGroupWaits`, `OnlyStaleEvicted`, `NoSendAfterClose`, `NoRecordVanishes` |
| | `TitledWhole` | `TitledEventsWhole` |
| | `Refinement` | `ImplementsAssembly` |
| `TailEngineProofs` | `TypeCorrect`, `LinesKeepOrder`, `LossesNoticed`, `ClosedChannelsQuiet` | `TypeOK`, `LinesInOrder`, `LossReported`, `NoSendAfterClose` |
| | `Refinement` | `ImplementsChannel` |
| `AgentProofs`, dispatcher | `TypeCorrect`, `NoGapInEvents` | `TypeOK`, `EventsInOrder` |
| | `Refinement` | `ImplementsChannel` |
| `RuleEngineProofs` | `TypeCorrect`, `RulesAllJudge`, `PrintedNamesMatch` | `TypeOK`, `EventsFullyJudged`, `PrintedRuleMatches` |
| | `Refinement` | `ImplementsChannel` |
| `AlertDispatcherProofs` | `CopiesKeptApart`, `BothSidesServed` | `CopiesIsolated`, `FanOutComplete` |
| | `Refinement` | `ImplementsChannels` |
| `RuleMatcherProofs` | `FilesAreIndependent` | `FilesIndependent` |
| `AgentProofs`, agent | `AgentTypeCorrect`, `AgentKeepsOrder`, `AlertsAreAccounted` | `AgentTypeOK`, `EventsInOrder`, `AlertsAccounted` |
| | `AgentKeepsChannel`, `EnvironmentAsAssumed` | `ImplementsChannel`, `EngineAsSpecified` |
| `EventBuilderProofs` | `ParentIsNamed`, `IdentityIsKept`, `TargetIsRead` | `ParentNamed`, `IdentityKept`, `TargetRead` |
| | `AddressIsRead`, `CommandIsRead`, `RequestIsNamed` | `AddressRead`, `CommandRead`, `RequestNamed` |

### Assumptions

`BoundsAssumption`, `TailAssumption`, `DispatcherAssumption`, `RuleAssumption`,
`AgentAssumption` and `AlertAssumption` say that capacities are positive, numbers are
numbers and rules are rules. `FilesAssumption` gives the form of a rule file and
`DepthAssumption` says how deep its groups go; `ArgKeyAssumption` says that the keys a0,
a1, ... are different from each other and from the other keys of a record. Five say
something of the world. `LogAssumption` gives the form of a line. `SyscallAssumption`:
auditd writes one SYSCALL record per event. `TitleAssumption`: PROCTITLE is the last
record it writes for an event (the kernel emits it after all others); only `TitledWhole`
uses it. `FactAssumption` gives the form of what auditd writes about: PATH items with a
name type the kernel knows, argument lists no longer than there are keys, a title, at most
one sockaddr of which the program passed any number of bytes it has, two to four
registers, and numbers that are not negative. `GroupsAssumption` says that no two rule
files give different groups one name, and that a condition's text is not the name of
another file's group only: true of the eight files main loads, and needed, since the table
of groups is one for all files (section 6).

### AuditdCollector

    IInv == BaseInv /\ PlaceInv /\ SyscallInv /\ AtMostOnce /\ NoCompleteGroupWaits /\ DoneInv

`AtMostOnce` is not inductive: nothing in it keeps a second complete group from
forming. A complete group contains a SYSCALL record, an event has only one, and a
record is in one place at a time. So `SyscallInv` says that each group handed off
holds the SYSCALL record of its event, and `PlaceInv` that a line is queued once at
most, that a line in the map or handed off has been read and is not on its way any
more, and that what was handed off is not in the map: the SYSCALL record of an event
that was handed off cannot come back. `BaseInv` joins `TypeOK` with who holds the
mutex at which program counter (`MutexInv`), what a sweep may still evict
(`SweepInv`: groups that are in the map and stale, because only the clock runs
beside a sweep) and what is at hand (`HandInv`). `DoneInv` relates Stop to the
goroutines.
`NothingVanishes` and `Refinement` take `IInv` and describe where each action moves
records to. For the refinement, what an event has collected is what its group in the
map holds; `StoreRecord` maps to Collect, a successful `HandOff` to Deliver (for which
`AtMostOnce` is needed), `Evict` to GiveUp, and every other action to a stutter.

`TitledWhole` needs the order besides (`OrderInv`): the queued lines of an event come
in the order auditd wrote them, after the one that waits for the mutex, and all that
is on its way comes after what was stored. When the PROCTITLE is stored nothing of its
event is on its way any more, so by `NoRecordVanishes` whatever the group lacks is
known to be lost; and it lacks nothing of what is never lost.

### TailEngine and EventDispatcher

The tail engine's `LossReported` depends on what else may be in errChan while the loop runs
(`ErrorInv`: only overflows, since a failure to open the log ends it). The dispatcher's
numbers are counted over the groups that have *arrived*: `QueueInv` says that what is
queued is the end of them, so what the loop has received is a prefix, and `CountInv`
that `sequenceID` is the number of groups with a SYSCALL record in it. Both environments are
left open: anything may arrive, be taken or be cancelled at any time.

Each refinement of `LossyChannel` maps a successful send to Send, a send to a full
channel to Lose, the consumer's action to Receive and the closing of the channel to
Close. That nothing is sent after Close is `DoneInv`.

### RuleEngine

`CountInv` generalises `EventsFullyJudged` to the event in hand: a rule before the
one that is next has had its alert if it matches, no other has. For the next step to
preserve it, no event may be queued twice or be queued and in hand (`StreamInv`).
`KeyInv` is what makes a name read in the middle of a write harmless: an event's key
is only ever made of its own audit key (written as 0) and of rules that match it, and
the former is overwritten before the first alert about the event is sent.

### Agent

    AInv == IInv /\ GroupsOnce /\ RP!IInv /\ EventQueueInv /\ AlertInv

Every step of `AgentSpec` is a step of the dispatcher, or leaves its variables alone
(`AgentKeepsOrder`, `AgentKeepsChannel` follow from the dispatcher's theorems, the first
part of the module), and a step of the engine, its printer or its environment. The latter
is `EnvironmentAsAssumed`; that an event is sent once needs that no group is handed off
twice (`GroupsOnce`) and that events are numbered. So `RuleEngineProofs`' invariant, as
`RP!IInv` with `RP == INSTANCE RuleEngineProofs`, holds in the agent without being proved
again. `EventQueueInv` relates the engine's progress to the dispatcher's output, and
`AlertInv` each alert to the event it is about; together with the counts of both
components they give `AlertsAccounted`.

### RuleMatcher

`TableInv` says what loading leaves behind: the rules of the files loaded and of no
other, and their groups, each as its file has it, since a group that replaces one of
its name equals it. `JudgeInv` is about the event in hand: the conditions checked held,
the others are still to be checked, and the alerts raised are of the rules passed that
matched. A condition evaluated against the table means what it means with the groups of
its own file (`HoldsAsMeant`, `MeansAlone`); the order of the conditions does not occur
in either.

### AlertDispatcher

Copies are named by their side and the number of their alert, so `CopiesIsolated` needs
that a side only holds its own (`HandedInv`), and `FanOutComplete` that at each point
between the two copies and the two sends each side is at most one alert behind
(`ServedInv`).

### EventBuilder

The prover has no induction over data: the library's theorems about it take an operator,
which it cannot instantiate, and of a fold or a recursive function it knows only that it
is *some* function that satisfies its equation, if there is one. The module's section on
induction supplies both without an operator. A predicate on numbers is the *set* of the
numbers it holds for, and a set without a least element is empty (`LeastIs`, `Inductive`,
`Progressive`). Solutions of the recursions are put together from those up to a bound
(`IterExists` for folds, `DigitsExist` for `DigitsIn`); with them a fold is what an
accumulator has come to after the last element (`FoldAfter`), the value of digits grows by
`base * n + d` (`ValueAfter`), and texts without an empty one are all kept (`AllKept`). So
a number is read as it was written, in either base (`NumberReadBack`).

`IdentityIsKept` (invariants `RecordInv`, `IdentityInv`): the fields of the SYSCALL record
stand where `SyscallLaid` says and no two have one key (`SyscallKeys`), so each is found
(`FieldFound`) and read back (`SyscallRead`). The group has that record as it is read
(`RecordInv`), no group is ready without it, `buildBaseEvent` copies it, and nothing that
is done to the event later touches these fields (`IdentityInv`).

`ParentIsNamed` (invariant `ParentInv`): what has been read of a process, as long as the
number has stood for no other, was empty, so the text at which the search ends is its
name. That the number looked up is the one auditd wrote is `IdentityInv`.

`CommandIsRead`: an event other than a connection needs its title, which is the last line,
so the EXECVE record was read as well if there is one (`AllIsRead`). Its argument count is
a number read back, its keys are different, and since none of its texts is empty all are
kept (`ExecveRead`, `CleanKeeps`), as are the words of a title (`TitleRead`), which
`decodeProcTitle` trims. Three cases are outside `CommandRead`, and events of the run: a
program without any argument, a title with an empty word, and a title with a word that is
blank or has a space at an end, which is dropped or cut (`event_dispatcher.go:487`).

`RequestIsNamed`: the first text kept is the first register (`FirstRegister`), and the
hexadecimal digits of each request's number are in its row of the table and in no other
(`RequestDigits`, `RequestRows`).

`TargetIsRead` (invariant `GroupInv`): the n-th line read is the n-th of `Lines(fact)`,
which are the records before the paths, the paths, and the title (`LinesAre`); so the
group holds the paths read so far in their order, parsed as they were written
(`PathParsed`), and has its title only when it has them all. Each event type whose
target is a file requires the title, hence `selectTargetPath` sees every PATH record,
and finds what `TargetRead` asks for (`SelectedIsTarget`).

`AddressIsRead` (invariant `AddressInv`) goes the same way for the one SOCKADDR record:
a byte is its two digits, so decoding gives back the bytes auditd wrote (`ReadBack`);
they are those of the sockaddr, cut after `length` (`AddressLaid`), so the port and the
address are where `parseSockAddrRecord` looks for them, and the test of the length is
one for their presence (`AddressParsed`). A connection's group is ready only with
the record in it.

### Only model-checked

Liveness, out of the prover's reach: `StopReturns` (both), `GroupsLeave`,
`CompleteEventsHanded`, `ShutdownEnds`, `OverflowAnnounced`, `DetectionsPrinted`,
`CancelEnds`.

## 6. Findings

* `AllEventsWhole`: a network_connect event is handed off with its SOCKADDR record;
  `auditd_test.go:63-68` expects the CWD and PATH records that follow it.
* `KeepsWatching`: one full output channel ends the dispatcher's loop for good
  (`event_dispatcher.go:85`).
* `AlertsNameTheirRule`: an event that matches two rules is one object, renamed while
  its first alert is on its way (`engine.go:143`).
* `TargetPIDRead`: the second argument of ptrace is hexadecimal in the log and read as
  decimal (`event_dispatcher.go:382`); for most targets the event has another PID or 0.

Where the code departs from a comment, without a run of its own: late records of an
assembled event are reported a minute later as an event that could not be assembled,
though `auditd.go:656` says that only failed assemblies are; and groups of the same name
replace each other across rule files (`engine.go:55`), though line 34 says the files are
loaded independently. No two of the eight files main loads have a group name in common,
which is what `FilesIndependent` rests on (`GroupsAssumption`). Two fields of the event
are not always what `model/event.go` calls them, and the properties do not claim it:
`ImagePath` is "the absolute path of the binary" (line 46), but a path with a space comes
as hexadecimal digits and stays so (`event_dispatcher.go:122`), which `IdentityKept`
leaves out; `TargetFile` is "the full path" (line 60), but the name in the PATH record is
copied (`event_dispatcher.go:250`), neither joined with the CWD record nor decoded, and
`TargetRead` is only about which record is chosen. Both kinds of text are in the run.

Three more things the models show, which no doc of the repository contradicts: the field
`syscall` of a rule, which seven of the eight files have, is decoded (`rule/types.go:15`)
and never compared, so `RuleMatcher` has no such condition either; a first rule file
without groups makes the next one panic (`engine.go:52-55`; `LoadPanics`, reached in
`rule_files`, though every shipped file has groups), and a condition that is a JSON
number, outside a group, never holds (`MatchCondition`, `matcher.go:24-69`).

## 7. Not modelled, and the plan

Left out:

* the texts of messages and debug output, the JSON decoder, the tail library, the
  kernel's audit system, and the Go interfaces of `collector.go`;
* fields no rule and no printer of the agent reads (items, inode, capabilities and so
  on), the event's time stamp and Exit;
* the search for the record type and the audit ID in the text of a line: that an argument
  which contains `type=SYSCALL` makes another record of a line, and that a value with a
  colon and the text of a field is read as that field, are listed as hazards;
* `decodeSockAddr` (`auditd.go:603-634`), which nothing calls, and
  `AlertDispatcher.reportError`, whose calls are commented out;
* a signal that comes before `signal.Notify`, which ends the process at once, and the
  errors of tail engine and collector in the error printer, which it reads as it does the
  dispatcher's.

Every safety property and every refinement the passing runs check is proved. What a
continuation could add: the search for a field in the text of a line, character by
character, which would turn the hazards of `auditd.go:518` and `:557` into properties, and
a property of programs whose arguments take several EXECVE records, of which each later
one replaces what was read before (`auditd.go:153`).
