# Formal models of locks-leases-fencing-e2e

TLA+ specifications of the programs of this repository, model-checked with TLC.
Every safety property that a passing run checks is also proved with TLAPS, for all
values of the constants; liveness is model-checked.
`PROJECT.json` is the machine-readable index: which definition stands for which
source lines, which run checks which property, which theorem proves which, and
which mutation of the code each property catches.

## 1. The system and its parts

The repository is a test harness. It holds an executable model of grouped
fenced locks, a destructive end-to-end test of a real cluster that it starts and
kills itself, a script that runs eighteen clients against two brokers, and the
lint and CI machinery around them.

| part | state | operations | what is hard | what makes it correct |
|---|---|---|---|---|
| **lock-many model** `formal/model.mjs` | clock, one grant for a group of locks (owner, connected, expiry, fences), newest fence per lock, tokens per client, fence and value per resource | `step()`: tick, acquire-many, renew-many, release-many, partition, write-many; `expire()` at the start of each; `assertState`/`assertTransition` after each; `explore()` closes over all actions; a replay adapter feeds documents to `step()` | long legal sequences; the lease's last instant; superseded and partitioned holders; retries under one fence; the fence bound | the group is one lock: atomic, fences monotonic, a write commits only under the newest fence; refused calls change nothing |
| **reference downstream** `stale-fencing-e2e.mjs:378-438` | highest token, history | `/mutate` handler, client `mutate()` with a 2 s timeout | delayed, reordered, unanswered and duplicated writes | accepted in token order; the history explains state and answers; rejections are deserved |
| **scenario** `stale-fencing-e2e.mjs`, `main`, `clusterRequest` | place in the script, member handles, tokens, evidence, file, exit status | start, acquire, write, pause, renew, release, inspect, crash, restart, restart all, union, finish/catch/finally; per call: attempt, redirect, retry, deadline | elections and lost or late answers between any two steps; failure at any step; evidence written on two paths | no false pass, no false alarm, no member left, an exit status of 0 goes with evidence that says passed, the run ends |
| **cluster** (external) | members, leader, locks, token counter | acquire, renew, release, inspect; election, crash, lease expiry | not in this repository | what the scenario relies on |
| **member processes** `stale-fencing-e2e.mjs:57-175` | ports, child processes and what is known of them, the startup loop, `stop()` | pickPorts, spawn, health loop, crash, stop, stopAll | exit events racing signals and timers; ports taken in between; a start given up | one process per member, none left, starts and stops end |
| **polyglot script** `run-live-mutex-polyglot-e2e.sh` | broker PIDs, receipts on disk | build, start, wait_for_tcp, nine cases, receipt, kill, wait; exit trap | `set -e`; stale receipts; a foreign listener; a broker that died | a passing run left its own receipts, earned from its own brokers |
| **plan validator** `validate-plan.mjs` | none | one pass over two documents | none: sequential, pure | rejects incomplete plans |
| **ores-lint gate** `.ores-lint/lint.sh`, `js.sh`, `rust.sh`, `dart.sh`, `gleam.sh`, `eslint/base.mjs`, `eslint/formatter.mjs` | the log of printed reports | one runner per language, the scanner, a gate that greps their reports | exit codes dropped, tools that are missing or cannot run, report formats that do not match the gate's pattern, files that no linter looks at | a strict run that passes means what it says |
| **require-send** `.ores-lint/require-send.mjs`, `eslint/plugin.mjs` | a stack of maps from names to undelivered events, known loggers | one pass over a file: chains, names, deliveries, scopes, overrides | two implementations of one rule; names that are shadowed, reused, copied, or used from an inner scope | of the statements it tells apart, what it misses and what it reports wrongly can be named |
| **contracts, CI workflows** | none | schemas; declarative jobs | none | none |

How they interact: `main()` starts the member processes, calls the cluster over
HTTP through `clusterRequest`, and writes to the downstream in between, under
tokens the cluster granted. Nothing is shared except these calls, the child
processes and the evidence file. The lock-many model and the polyglot script
stand alone. `lint.sh` runs the language runners and the scanner one after the
other and sees nothing of them but what they print. CI runs each of them.

## 2. Modules

| module | models | composes |
|---|---|---|
| `FencedLease` | the abstract promise: one lock, one resource, one fence counter | |
| `LockManyFencing` | `formal/model.mjs` | refines `FencedLease` |
| `LockManyProofs` | its theorems | extends `LockManyFencing` |
| `DownstreamReference` | the `/mutate` handler and `mutate()` with an asynchronous network | |
| `DownstreamProofs` | its theorems | extends `DownstreamReference` |
| `LockService` | the cluster as the scenario sees it (external) | |
| `StaleFencingRun` | `main()`, `clusterRequest`, evidence | extends `LockService`; has the downstream's handler as one step |
| `StaleFencingProofs` | its theorems against any cluster | extends `StaleFencingRun` |
| `NoFalseAlarmProofs` | its theorem against an honest cluster | extends `StaleFencingProofs` |
| `NodeLifecycle` | `pickPorts`, `startNode`, `crash`, `stop`, and `main`'s use of them | details the starts and stops of `StaleFencingRun` |
| `NodeLifecycleProofs` | its theorems | extends `NodeLifecycle` |
| `PolyglotRun` | the polyglot script over one evidence directory | |
| `PolyglotProofs` | its theorems | extends `PolyglotRun` |
| `Exploration` | `explore()` of `formal/model.mjs` over any graph | takes from `LockManyProofs` that refused calls change nothing |
| `ExplorationProofs` | its theorems | extends `Exploration` |
| `RequireSend` | the house rule: the ESLint plugin and the scanner, beside the program they read | |
| `LintGate` | `lint.sh`, the runners, ESLint's file selection and formatter, the strict gate | extends `RequireSend` |
| `LintProofs` | the theorems of both | extends `LintGate` |
| `MC*` | constants and symmetry for TLC | |

A definition whose comment starts with "Variant" is not part of the model: it is
a plausible defect of the definition below it, and the properties are tested by
putting it in that definition's place.

### LockManyFencing

One action is one call of `step(input, action)`. `Before` is `expire(input)`. An
action is a disjunction: the guard holds and the call takes effect, or it does
not and `Refused` returns the expired state with a reason. `grant` gathers
`owner`, `connected`, `expiresAt` and `grantFences`, which the code only sets and
clears together. `outcome` is what `step()` reports; no guard reads it, and the
action properties talk about it. `Callers` and `Payloads` are larger than
`Clients` and `Values` because the replay adapter passes on any name and any
payload a document holds. `explore()` drops the successors of refused calls,
the model does not: that this makes no difference is `RefusalChangesNothing`.
`AssertState` and `AssertTransition` translate the assertions that `step()`
makes; `AssertionsHold` says that they never throw. What `assertTransition` says
of an accepted write is not an assertion of the code; `CommitCarriesNewestFence`
and `OneValuePerFence` say it here.

### DownstreamReference

A call of `mutate()` is a record with what the server answered and what the
client saw. Handling, receiving and giving up are three actions, in any order
that causality allows; a request may be handled after its client gave up, or
never. The handler itself is one action: Node runs the `end` callback without
interruption. Writers' tokens come from an external `Grant`, and a writer may
use any token it ever had.

### StaleFencingRun, LockService

`Script` is the scenario as a sequence of steps; each kind of step has its action.
A cluster call is a loop over the members (`cursor`), and each attempt is
answered, fails, is executed with its answer lost, or is delayed and executed
later. The service is honest (`Honest`) or answers anything. The deadline of a
call may pass at any round. `evidence` and `file` are distinct: the success path,
the catch block and the finally block change them in the code's order. `trouble`
is a history variable that records whether anything happened that the scenario
cannot tell from a defect of the cluster: an answer was lost, a request delayed, a
lease ran out too early, or no member answered as leader in the 15 seconds after
which the scenario asserts that one did (`NoLeaderFound`). Starting and stopping a member is one
step here, with its possible outcomes. `SetupFails` is a run that ends before the
`try` block is entered: neither `catch` nor `finally` runs then.

### NodeLifecycle

What a process is (`proc`) and what the harness knows of it (`exit`, set by the
exit event) are two variables, because `killTree`, `stop` and the health loop
decide on the second. Signals are pending until they act; SIGTERM may be ignored;
a process may exit by itself at any time; a stranger may take any free port. A
spawn that fails leaves no process and sets the error. The first turn of the
health loop is part of `Spawn`, since no event can be delivered before it. Each
member's client port and peer port are one port. `main()` is reduced to when it
starts, crashes and stops members, with a failure possible between any two steps.
The restart of the crashed member assumes that SIGKILL has acted within the
500 ms delay. Failures before the `try` block are left out here.

### PolyglotRun

The script's commands in order, `set -e` as "any failure goes to the exit trap",
and a sequence of runs over one evidence directory. A run may be killed without
its trap: its broker then stays on its port, and the next run finds it. At most
one `*_BROKER_PID` is set at a time (`TypeOK`), so the trap's two halves are one
action. Assumed: a broker has bound its port or exited by the time nine clients
have run; a leftover broker does not end by itself. A receipt is written in one
step.

### Exploration

`explore()` is a breadth-first search over `step()`. Here `step()` is any function
from states and actions to states (`edge`), with states that `assertState` refuses
(`bad`) and calls whose transition `assertTransition` refuses (`Error`). One
action takes the next state of the queue and asserts it (`Take`), one tries one
action in it (`Try`), one prints the verdict when the queue is through
(`PrintVerdict`); any assertion ends the search. The only thing assumed of
`step()` is that a refused call returns the state unchanged (`RefusalsStutter`),
because the code drops such successors. For the `step()` of this repository that
is `RefusalChangesNothing`, which is proved. The order of actions is free.

### RequireSend

One step is one statement of a source file. It moves two things: the linted
program (`frames` with what each name holds, `events`, and whether each was delivered or handed on)
and the rule that reads it (`scopes`, `known`, `found`). The program's side is
external, it is ordinary scoping; the rule's side is the code. The plugin has one
map per function and reads five uses of a name as a delivery; the scanner has one
map per brace and reads two, or one in Gleam; each has its own override comments.
A name is marked in the innermost map (`Mark`), cleared in the innermost map that
has it (`Cleared`), and what a map still holds when its scope ends is reported
(`Flushed`). How a chain is found in a syntax tree or in tokens is left out: a
chain is `sent`, `open`, or `wide` (the convenience call with three arguments). Its
root is a logger by its usual name, a logger of another name (which the plugin knows
from its declaration on, the Rust and Dart scanner never, and the Gleam scanner does
not ask for), or `alike`: something that is no logger, but whose call the rule takes
for a logging chain. `precedingAssignment` takes the word before the equals sign for the
name, which in Rust's and Gleam's `let n: Event = ...` is the type's: `TakenName` is what the
rule marks, and `named` records both what a name held and what the rule took it for.
The code that the file holds runs once, in the order of the text, and a nested
function is called where it stands: the rule knows nothing of branches, loops or
later calls, so a model of them would only add reasons for it to be wrong.
`events[e].why` is a history variable with those reasons that the two properties name
and that are not about names.

### LintGate

When the file has ended, the runners take their turns in `Order`. Each prints
lines, reduced to what the gate can tell apart: `across`, `count`, `clean`,
`note`. A host's linter is missing, cannot run, is silent or warns; `gleam
format` may also find unformatted files, which `gleam.sh` drops. For JavaScript, where the
file is (`Places`) and whether a TypeScript parser loads (`Parsers`) decide whether
ESLint looks at it (`Matched`), and, separately, whether `js.sh` prints a note
(`GapNote`). `raised` remembers that a linter had something to say, `examined`
that the house rule looked at the file.

## 3. What is checked

| run | question | size |
|---|---|---|
| `LockMany` | three invariants, seven action properties, refinement of `FencedLease`, `PartitionEnds` | 52,492 states |
| `Downstream` | order, history, rejections, answers; no writer waits for ever | two writers, three tokens, three calls: 115,247 states |
| `RunHonest` | no false alarm, no member left, exit status 0 means a passed file with the whole history, with one delayed request | three members, the scenario's own script: 2,216,300 states |
| `RunAnyAnswer` | no false pass against a service that answers anything, and the run ends | same, tokens up to 5: some 88,000 states |
| `NodeLifecycle` | no process left, one process per member, starts and stops end | two members, two ports, three starts: 61,518 states |
| `PolyglotRun` | receipts, brokers, readiness | three runs, two revisions, two cases, two attempts: 27,024 states |
| `LintGate` | what require-send misses, what it reports wrongly, what a strict pass means | three languages, two chains, two names: 790,499 states |
| `Exploration` | a printed verdict is an exhaustive one | every graph of three states and two actions: 194,529 states |
| `RunEvidence` | **violated**: the evidence of every run holds the downstream history | |
| `RunLeader` | **violated**: the member that is killed is the current leader | |
| `LintStrict` | **violated**: in strict mode every finding makes the exit non-zero | |
| `Override` | **violated**: the unified override comment works in every language | |

**Bounds.** `LockMany` uses the bounds of `formal/fm.toml` itself (two clients, two
locks, clock to 4, fences to 3, leases of 2), plus a caller and a payload the model does not
know; the theorems remove them. In the downstream, three tokens let a token be
superseded twice and three calls let a writer repeat its write around another's;
the theorems remove these bounds, too. The scenario has three members and six
tokens at most in an honest run (one more may be minted by a retry); against an
arbitrary service five tokens allow every order of the four it compares. In
`NodeLifecycle` two members are enough for every property, which relates a member
to itself or two members; three starts let both start and one start again. In
`PolyglotRun` three runs let a run meet what two earlier ones left; two cases
stand for nine, two attempts for 120. In `LintGate` two chains and two names are
what it takes for one event to overwrite another's mark, to have two names, or to
clear a mark that is not its own; three frames let a name be used from an inner
scope and a block stand in a function. `MaxNamings` (two pairs of a name and a
value) bounds the file's length only, as does that one name at most
is declared without an event first (`Declare`). `MaxOdd` lets one of the two chains have
an override comment, an unusual logger or only the looks of a chain; a comment stands with an open
chain of a usual logger, never with an assignment, and chains that are delivered or handed
over where they are built have a usual logger, because nothing the rule does depends on
more. The theorems keep these restrictions of `Built`, and remove the numbers. Dart is
not among the files: its rule is Rust's without tail expressions and annotations, and its
runner takes part (`Others`). In `Exploration` three states and two actions let two calls meet in one
state, lead back, and leave a state unreached; the theorems remove the bound.

**Deadlock** is checked in `LockMany`, where `step()` answers every call in every
state. Everywhere else the program stops by itself, or at a bound.

**Fairness.** `LockMany`: the environment ticks while the clock has room (the
exploration takes every enabled action). Downstream: `AbortSignal.timeout` fires.
`RunAnyAnswer`: `main()` is scheduled, and the 30 s deadline of `clusterRequest` is
strongly fair, because it is looked at only between rounds. `NodeLifecycle`: `main()`
goes on, both timers fire, SIGKILL acts and exit events are delivered; a process
asked to end by SIGTERM need not. `PolyglotRun`: only the loop of `wait_for_tcp`;
nothing is assumed of builds, clients or brokers, so only that loop is claimed to
end.

**Findings.** (1) The evidence file of a failed run has an empty downstream history:
the catch block writes the file before the finally block copies the history. (2)
The member that is killed is the one that answered a read some time before; after
an election in between it is a follower, and the run passes without a failover.
(3) The README of ores-lint and the finding's own text offer the comment
`ores-lint-disable-next-line require-send` for every language; in JavaScript
nothing reads it, and the finding stays. (4) `ORES_LINT_STRICT=1` is documented to
make any finding exit non-zero; the gate's pattern needs "across", which the
Gleam report does not print, and unformatted Gleam files are not printed at all.

**What the models of ores-lint leave standing.** `MissedOnlyIfNamesake` and
`AlarmsAreTrue` hold with the exceptions they name, and TLC reaches each of these:
a name marked twice loses its first event; a logger declared further down, or in Rust
and Dart one of an unusual name (`tracer.info(x)`), is unknown, and its events are
missed; `let n: Event = log.info(x)` in Rust and Gleam is marked under the type, so
that it is reported although `n` is delivered, and two of them in one scope overwrite each
other; `self.error(x)` in Rust and Dart, `io.debug(x)` in Gleam and a `log` that is no
logger are reported though they build no event; an event with two names, one stored from an inner scope, `n.more().send()`
or a returned event in Rust and Dart, `n |> send` and the value of a `case` arm in
Gleam are reported although they are delivered or handed on. Two more gaps have no
property: `base.mjs:152-158` ignores TypeScript when no parser loads and says that
`js.sh` prints a note, which it does only for TypeScript at the root and if no
parser resolves; clippy and gleam that could not run still print "clean" after
the note that says so.

## 4. What is proved

TLAPS checks every statement for all values of the constants that the assumption
of the module allows. These assumptions ask for little: in lock-many any finite or
infinite group of locks, any clients and values, any bounds (`LockManyAssumption`);
any writers, tokens and calls (`DownstreamAssumption`); any states and actions
(`ExplorationAssumption`); the scenario's own three members, keys and holders, and any others beside them
(`RunAssumption`, `LockServiceAssumption`); any members, with a port for
each (`LifecycleAssumption`); any positive number of cases and attempts
(`PolyglotAssumption`). `LintProofs` needs only that no variable is called like the
events' type (`NamesAssumption`): `MaxEvents`, `MaxDepth` and the other bounds of the
file may be as large as one likes.

Each proof module has the same shape: an inductive invariant `IInv`, lemmas
about what an action changes, one step per action, `Inductive == Spec => []IInv`,
and a theorem for each property, which follows from `IInv`.

**LockManyProofs.** `IInv` is the conjunction of `TypeOK`, `NoExpiredGrant`,
`GrantIsWhole`, `GroupAtomic`, `FenceHasOneHolder` and `NewestIsHeld` (a fence
that was minted last is held by somebody, which is what makes "stale-fence" mean
superseded by another client). The key is `NoExpiredGrant`: no stored state holds a dead
lease, so `Before = grant` (`BeforeIsGrant`), a refused call is a stutter
(`RefusedIsStutter`), and a step is one of six accepted calls or no change
(`StepCases`). One `...Effect` lemma per call says what it changes; one `...Step`
lemma per conjunct shows it preserved. From `Inductive == Spec => []IInv` follow the
five invariants, the action properties, that the assertions never throw
(`NeverThrows`), and the refinement (`Refinement`): Init maps to Init, and each
call to Grant, Free, Commit or a stutter of `FencedLease`. Atomicity is used
there: one lock's fence stands for the group's.

**DownstreamProofs.** Only `Handle` touches the server, and it only appends to the
history. `IInv` adds to the checked invariants that `highestToken` bounds what was
accepted (`HighestBounds`), that every logged token was granted to its writer
(`LoggedWasGranted`, without which one token could have two writers), and that a call
that has an answer points at its own entry before its caller knows
(`AnswersExplained`, `EntriesApart`): what the caller is told later is then already
in the history. From `Inductive` follow `HandOverIsFinal`, `HistoryIsSound`,
`NoUndeservedRejection` and `AnswersAreTrue`.

**ExplorationProofs.** `IInv` says that the queue lists `seen` in order and without
repetition, that everything in it is reachable, and that each state taken from it
is not refused and has all its successors in the queue, but for the actions still to
be tried in the last one. When the verdict is printed nothing is left to try, so
`seen` contains `Start` and is closed under calls: it contains every
reachable state, and by the first part no other. `RefusalsStutter` is used there, for
the refused calls whose successors were dropped. `PrintedIsExhaustive` is the
result; with `RefusalsAreStutters` of `LockManyProofs` it is what the code's claim
"finite-exhaustive-abstraction" needs. That the search ends is neither proved nor
claimed: a graph may be infinite.

`GrantIsWhole`, `NoExpiredGrant` and `FencesMonotonic` of lock-many are proved
(`Whole`, `NeverStoredExpired`, `Monotonic`) and not checked by a run of their own: the
first two are conjuncts of the inductive invariant, and the refinement of
`FencedLease` contains the third.

**StaleFencingProofs.** The scenario is one script, so its invariant goes by the place in
it. `Story` says which writes the downstream has in its history there and whose token is
newer than whose, `Length` that the history has no others. Nothing is assumed
of the cluster: every comparison that `Story` builds on is an assertion of the
scenario (a token that is not newer fails the run), and therefore `PassedMeansFenced`
holds against a service that answers anything (`NoFalsePass`). `Verdict` says, by
phase, what evidence, file and `failure` are; `ExitIsTheVerdict` follows. It does not say that
an exit status of 1 goes with no passed file: the finally block may throw (line 656) after a
passed file was written; then the file has the whole history and no assertion had
failed. `Tracked`
says that what runs is in `nodes[]`; it is why `stopAll()` leaves nothing (`NothingRunsOn`).

**NoFalseAlarmProofs.** The converse, for an honest cluster: as long as there is no
trouble, what the cluster holds is a function of the place in the script
(`Quiet`: who holds which key under which token, what the downstream saw last, that no
request is delayed), whoever leads, whatever crashes and however often a call
is tried. Every answer is then the expected one, so an assertion fails only after
trouble (`NoFalseAlarm`). The search for a leader is the one assertion that is not about an
answer: it fails when the cluster had no leader for 15 seconds, which `trouble` records. This theorem has the hypothesis `Honest`, which the run
`RunHonest` sets.

**NodeLifecycleProofs.** `Tracked`: a process that is not gone is in `handles` or is the one
being started. `Honest`: what `exitCode` or `signalCode` say is so, a stop that
somebody waits for is done only when its exit event came, and of a dead process it is
settled what that event will say. From the two, a run that is over left no process
(`NothingLeft`), and a member is spawned only when its last process is gone
(`OneAtATime`, an action property). `PortsDiffer` is not checked by a run of its own: ports are
distinct because each is held open until all are picked (`HeldOpen`).

**PolyglotProofs.** Receipts and listeners carry the number of their run, and none is of a run
to come (`NoneOfTheFuture`). Whoever answered a client is this run's broker or an earlier
run's that is still on the port (`Sits`); as such a broker never leaves, and this run's
broker is on the port when it is killed successfully, nobody else can have answered
(`PassedIsItsOwn`). `Progress` says what is finished at each command, `Trapped` that
a live broker's PID is set whenever the exit trap may run (`NoneLeft`).

**LintProofs.** The argument is about marks, the entries of the rule's maps. `Noticed`: an
open event has a mark, or was reported, or may be missed. `MarkedNamed`, `MarkedOnce`: a
mark is of an event that its name did hold or was taken for the name of, and no event has two. `MarkedOpen`: unless
there is an excuse, a marked event is open, and is held only by frames that end no
later than the map it is marked in, so that nothing can deliver it once the map is
flushed; hence `FoundOpen`. When the file has ended no map is left, and `Noticed` and
`FoundOpen` become `NothingMissed` and `AlarmsTrue`. The gate adds `Logged` (what was
found in a file that was looked at is in the log) and `Passed`, and `StrictPass`
combines them with `NothingMissed`. A use of a name is the hard step
(`UsedKeeps`): it may delete a mark that is not the used event's, and may leave the used
event's own mark standing, and in each of these cases the two events or the two names
are the excuse that the property lists.

**Only model-checked.** Every liveness property (`PartitionEnds`, `CallsEnd`, `RunEnds`,
`StartEnds`, `StopEnds`, `ReadinessEnds`) and anything about `ENABLED`: the prover
does not handle them. What a recursive definition computes for every input, which
needs induction over data. The properties of the
four runs that find a violation are false of the code.

## 5. What is not modelled

- The replay adapter's parsing and its error path (`model.mjs:273-296`): each
  document starts from `initialState()` and shares nothing with the next. Its
  inputs are in `LockManyFencing` (`Callers`, `Payloads`). The counters of
  `explore()`; its witness traces are one step that may fail.
- `validate-plan.mjs`: assertions over two documents, without state; a model would
  restate them.
- Of require-send: the tokenizer (Rust lifetimes that read as strings, for one);
  fields and other names with dots (the scanner marks `self.e = ...` under `e`);
  patterns and annotations that do not end in a word (`let (a, b) = ...`,
  `let e: [Event; 1] = ...`), where the scanner sees no name; a value that Gleam pipes
  into a level's call; a level called on the value of a call other than a chain's
  (`createLogger().info(x)`), which but for Gleam is no chain to the rule, like that of a
  logger it does not know; branches and loops, functions
  called more than once or later, and the fallback `semi` rule. Of the runners: how
  crates and packages are found, the order and number of the findings in a
  report; `selftest.sh`; the defaults of `config.sh`; a `mktemp` of a runner that fails
  (that of `lint.sh` is `NoLog`).
- The cluster's consensus: not in this repository.
- Logs, log buffers, tokens, timestamps and wording of the evidence, the downstream's 404 answer and its
  listen and close.
- `contracts/` and the workflows: data schemas and declarative jobs.

## 6. Plan

Done, in this order: the lock-many model with its refinement and proofs, the
downstream with its proofs, the scenario against an honest and an arbitrary
service, the member processes, the polyglot script, the exploration with its
proofs, require-send and the strict gate, and the safety proofs of all of them.
Next:

1. `NodeLifecycle` shown to implement an abstract start and stop of a member, the
   one that `StaleFencingRun` takes, with the members that exit by themselves as
   steps of the service; the step simulation proved.
2. Action properties of the scenario worth a proof: the file's verdict never turns
   from failed to passed, the history only grows.
