# Verification of rust-statement-spacing

`cargo statement-spacing` checks and fixes the blank lines between Rust
statements. The spacing itself is decided by a pure planner that runs inside
rustc as a Dylint lint; around it a command line tool runs cargo, collects the
diagnostics of all targets, applies the edits to a copy of the workspace,
verifies the copy, and replaces the project's sources in a journaled
transaction. The specifications in this directory model that code, not its
documentation: paths below are relative to the repository, and `PROJECT.json`
gives the source lines of every definition.

What matters most to a user is that the tool never damages a source file. That
is why the transaction was modelled first, then the process runner on which
every step depends, then the way from a diagnostic to bytes on disk, then the
planner that decides the spacing, and last the workflow that puts them together.

## The system

| Component | Source | State it keeps | Operations | Properties that make it correct |
|---|---|---|---|---|
| File transaction | `crates/cli/src/transaction.rs` | `.statement-spacing/lock` (flock), `.statement-spacing/transactions/<random>/{journal.json, *.original}`, the sources | `workspace_lock`, `commit`, `rollback`, `recover`, `atomic_bytes` | one at a time; all or nothing through failures, kills and power losses; no save of the user's editor is lost; backups outlive their need; every run ends |
| Workflow | `crates/cli/src/workflow.rs` | replica of the workspace in a temporary directory, snapshots, report | `check`, `fix`, `fix --dry-run`, `recover` | only verified text is committed; `check` and `--dry-run` change nothing; the exit code says what happened |
| Workspace scan and snapshot | `crates/cli/src/workspace.rs` | none (file tree in, map of digests out) | `scan`, `assert_snapshot`, `copy_snapshot`, path and manifest validation | what is compared is what was linted |
| Process runner | `crates/cli/src/cargo.rs:17-515` | child, process group, pipes, `INTERRUPTED` | `Driver::run`, SIGINT listener, `check_interrupted` | output of a result is complete; a signalled command is no result; calls end; SIGINT stops the invocation |
| Lint handshake | `crates/cli/src/cargo.rs:664-975`, `lint/src/protocol.rs` | one JSON file per rustc process in a probe directory | `Driver::lint`, `emit` | every target that was linted is fresh, of this run, and agrees with the others |
| Edit collection and application | `crates/cli/src/protocol.rs` | findings, edits by span | `collect_edits`, `apply` | conflicts never hide; the edits applied are those planned; only whitespace moves |
| Source text and edits | `crates/core/src/{text,edits}.rs` | none | normalisation, raw offsets, line endings, `apply_edits` | edits commute with normalisation |
| Baseline | `crates/cli/src/baseline.rs` | a JSON file of fingerprints with counts | `fingerprints`, `document`, `filter` | a written baseline admits its findings and hides no new one |
| Command line, report | `crates/cli/src/{main,report}.rs` | the report | option checks, exit codes, `emit` | 0, 1, 2 and 130 mean what the help says |
| Spacing planner | `crates/core/src/planner.rs`, `planner/decisions.rs` | decisions on gaps | `plan`, `settled_decisions`, `put` | arbitration by priority; planning settles; planning the planned text changes nothing; a finding is one its rule may report |
| Rules: local, setup, visual; groups, relations | `crates/core/src/planner/*.rs`, `relations.rs` | none | one pass over a statement list each | the documented rule, whatever the neighbours |
| Syntax | `crates/syntax/src/` | none | rustc AST to statement lists, gaps, comments | token fingerprint kept |
| Lint pass | `lint/src/` | per-crate anchors and events | rustc callbacks, diagnostics, handshake file | one diagnostic per finding, or an error |
| Diff, developer tooling | `crates/cli/src/diff.rs`, `tools/`, `scripts/`, `fuzz/` | none | presentation; checks on the repository | - |

**How they interact.** One invocation is one `Driver`: it takes the workspace
lock, refuses to go on over an unfinished transaction, scans the workspace,
copies it, runs `cargo dylint` on the copy (each rustc process writes JSON
diagnostics to a pipe and a handshake file to a directory), collects edits from
the diagnostics, applies them to the copy, runs the formatter and the lint
again, and hands the changed bytes to `commit`, which re-reads the project,
journals, replaces, runs the formatter once more in the project and finishes.
Invocations meet only at the flock and at the journals that killed ones leave.
The project's sources are shared with the user's editor throughout, and the
copy with whatever build scripts start.

**What is hard here.** Crashes and power losses between any two file-system
calls; a system call that fails after it took effect (rename done, directory
fsync failed); an editor that saves at any moment; two invocations; commands
whose descendants outlive them, ignore TERM or leave the process group; a
timeout, SIGINT and the end of the output racing in one `select!`; diagnostics of several
targets that repeat or contradict each other in any order; offsets in two
coordinate systems (CRLF, byte order mark); build scripts that write to the tree
they are linted in; targets that are never compiled because another one failed;
some fifty conditions of eight rules that bid for the same gap, read the spacing they decide, and
must still settle on one that they then leave alone. `PROJECT.json` lists each hazard at
its line with the properties that would catch it, and says so where none does.

## Modules

| Module | Models |
|---|---|
| `Transaction` | `transaction.rs` and the steps of `workflow.rs` around it: lock, snapshot, `commit`, `rollback`, `recover`, editor, failures, kill, power loss |
| `TransactionProperties` | its invariants and temporal properties, and the refinement mapping |
| `AtomicWorkspace` | the abstract promise: a fix lays out all files it started from in one step, or none; `Fix` says what it may make of a text |
| `TransactionProofs` | type correctness, mutual exclusion, write-ahead discipline, no lost save |
| `RecoveryProofs` | all or nothing, backups that outlive their need, deletion after sync |
| `AtomicProofs` | `Transaction` implements `AtomicWorkspace` |
| `Command` | `Driver::run`, the SIGINT listener and the processes of the commands |
| `CommandProofs` | type correctness and the three safety invariants of a call |
| `SourceText` | the pure operators of `text.rs` and `edits.rs` on texts as sequences of characters |
| `Edits` | diagnostics of several targets, `collect_edits`, the refusal of unfixable findings, `apply`, a late writer in the replica |
| `EditsProofs` | disjointness of accepted edits, freshness of every edit, code that stays, agreement of targets, the exact verdict, the plan on disk, type correctness |
| `PlannerInput` | what the planner is given: statements and gaps (`model.rs`), the configuration with `validate` and `enabled` (`config.rs`), the relations of statements (`relations.rs`) |
| `Decisions` | arbitration of bids on a gap (`decisions.rs`), cohesive groups (`groups.rs`) |
| `Visual` | the predicates of the visual groups (`visual.rs`) |
| `Local` | the bids of `local.rs`, in their order |
| `Setup` | what one control statement does to the gaps before it (`setup.rs`) |
| `Planner` | `plan`: the passes over control statements, `settled_decisions`, findings, the fix and the plan of what it leaves |
| `PlannerProofs` | licensed findings, adjacent checks, lasting joins, silence at boundaries others own, type correctness; planning settles, its passes suffice, what it leaves is accepted |
| `Workflow` | invocations of `check` and `fix` in a workspace: scans, replica, lints, gates, baseline, commit, with an editor, build scripts and crashing targets |
| `WorkflowProofs` | complete coverage of every success; what the gates see through, up to the commit |
| `VerdictProofs` | type correctness, what a pass, a fix and a baseline mean, only verified text is committed, `Workflow` implements `AtomicWorkspace` |
| `MCTransaction`, `MCCommand`, `MCEdits`, `MCPlanner`, `MCWorkflow` | instances for TLC |

`Transaction` and `Workflow` meet in `AtomicWorkspace`: `Transaction` shows that
`commit` with its journal keeps that promise through crashes, `Workflow` that the
whole command keeps it with the short commit that stands for the long one.
`PlannerInput`, `Decisions`, `Visual`, `Local` and `Setup` are layers of
operators, each of which extends the one before; `Planner` gives them a state.

Mutated forms of some definitions stand before them (their comments begin with
`Mutant`, for example `LockWorkspaceShared` before `LockWorkspace`). They are plausible bugs;
`PROJECT.json` "mutants" pairs each with the property that detects it.

### Transaction

*State.* The file system has two levels. `src` and `jr` are what a process
reads; `srcD` and `jrD` are the sets of contents and journal directories a power
loss may leave. A write adds to the second level, the `fsync` of a directory
reduces it to what is read now. `anchored` says that the entries of `transactions/`
and of `.statement-spacing` are on disk. The code syncs the directories that hold
journals and `transactions/`, but never the workspace root, where it creates
`.statement-spacing` (`transaction.rs:110`): in a workspace whose first run this is
(`"unrooted"` in `Env`, the negation of `Rooted`) `SyncStateDir` therefore anchors
nothing, and a power loss may take all journals. `run[p]` is the program counter and the local variables of
invocation `p`: every label is a place between two file-system calls.
`before[t]` is the snapshot transaction `t` started from. `user`, `dirty` and
`last` are history: the editor's last saves, the files saved since the last
transaction began, that transaction.

*Actions.* One per file-system call or check of the code, in its order: the
names follow the code (`LockWorkspace`, `WriteBackup`, `SyncStateDir`,
`CheckSource`, `RenameSource`, `FinalCheck`, `WriteComplete`, `RestoreCheck`, ...).
`OnError` is where the `?` of a failing call leads: to `rollback` once the journal
is prepared, to the end before that. The environment is `Save` (editor), `Fail` (a
call or the formatter fails; under `"commitSync"` also the fsync after the rename
of the complete journal), `Signal`, `Kill` (the kernel frees the flock) and
`PowerLoss` (every entry becomes one of those it may be).

*Abstractions.* A content is a model value and `Fix` gives the verified candidate
for it, idempotent because the second lint must find nothing. Everything `commit`
refuses besides a stale digest (hard links, changed mode or size, not `.rs`) is
the set `Protected`. A blocked attempt at the lock is a stutter. File data is
fsynced before it is renamed (`atomic_bytes`), so no entry has partial data; the
editor's saves are durable; temporary files are invisible to the scan. Only Unix
is modelled: on Windows directories are not fsynced.

*The refinement.* `Resolved` is the workspace as `recover` would leave it;
`InFlight` says that a transaction may still take effect. Under this mapping
`Transaction` implements `AtomicWorkspace`: all of `commit` collapses to one
step, the rename of the complete journal. The abstract specification had to admit
one thing the code really does: a save of exactly the text the fix writes cannot be
told from the fix's own work, so its layout may be undone (`Respace`, and the second
disjunct of `Save`, when the fix has already written the file).

### Command

`task` holds the processes of the current and of earlier commands: alive, in the
process group, holding a pipe, deaf to TERM. The runner goes `idle` - `spawn` -
`select` - `check` (the output ended) or `term` - `grace` - `kill` - `drain` -
`stopped` (SIGINT or timeout). `Communicated` is what `communication.await` waits
for: the child has been reaped and both pipes are closed. Processes may exit,
fork, close their pipes, ignore TERM and, under `"escape"`, leave the group; under
`"refuse"`, `kill(2)` fails. Reuse of process numbers, the command report and
Windows job objects are left out.

### SourceText and Edits

A text is a sequence of characters in which `"bom"`, `"cr"`, `"lf"` and `"sp"`
have a meaning and anything else is code. `Normalized` is what rustc and the
planner see, `RawOffset` the table that maps offsets back, `BlankLineReplacement`
the one edit the planner makes. In `Edits`, `Gaps` are the places between
statements that `classify_gap` may return (with or without a comment on either
side), `Items` the findings possible there, and `Report(t, i)` a diagnostic of
target `t` as `collect_edits` digests it, any targets interleaved. Whether rustc
attaches a suggestion is left open, as is every choice of the planner, so the
results hold for any planner. `CollectEnd` is the overlap check, the failed
lint and the workflow's refusal; `OpenFile`, `SpliceEdit`, `WriteFile` are
`apply`. `LateWrite` is a build script that writes to the replica after the lint
has read it. Names of files (their order), rules, JSON and paths are abstracted.

### The planner

*Input.* A statement is a record of the facts the adapter records of it: kind,
form, role, the places it defines, reads, writes and mutates, its shape (lines,
whether it may fail, where it exits). A place is a local with a path of fields. What
`local.rs` reads of a statement's text is a set of marks (`says`), and a text that
is compared with another a model value. A gap has the blank lines of the source
and says whether it may change at all (`joinable`, `vertical`, `protected`).
`Configs` has every option that the planner reads.

*Arbitration.* A bid is a rule, a number of blank lines, a priority and the
statement that carries the diagnostic. `put` is called by one rule after the other;
since it does nothing but compare with the slot, a whole pass of `local.rs` is
the list of its bids on a gap in the order of the code (`GapOffers`), and
`Winner` what the calls of `put` leave. `Blocked` gaps and disabled rules
bid in vain (`Bids`).

*State.* `decisions` are the slots of the build in work, `blank` the blank lines that
this build reads, `plan` what `settled_decisions` has so far. `Build` makes the
groups and the local bids; `SetupControl` is one iteration of the loop of
`setup.rs` over control statements, in which the preparations, accumulators and
splits of one statement change the slots before it; `SetupPass` repeats the loop
while it changes anything; `Close` caps blank lines and plans again on its own
output, merging what changed, until nothing does. `Apply` writes the fixes to the
source and starts over: what the second `check` of a user sees.

*Abstractions.* One statement list at a time, as in the code. Attachment of comments,
offsets and the text of messages are not part of the input. Two branches of
`visual.rs` are left out because no input reaches them: each asks for a shape that a condition
before it excludes. Statements carry facts the adapter can produce; the pools of
`MCPlanner` give the Rust statement each one stands for.

### Workflow

A text is its code (a token hash), whether rustfmt accepts it, and its findings; a finding
says what its fix does: remove it, remove it and reveal another, leave text that
rustfmt rejects, change the code, or nothing because there is no fix. So the
model makes no assumption about the planner or the lint: the gates of
`workflow.rs` must catch what they get wrong. What `cargo fmt` makes of a text is the
constant `Rustfmt`, any function that leaves alone what rustfmt accepts: it may
change the code, since the token hash is one of an ordered sequence and rustfmt sorts
imports, and it may change the findings.

*Actions.* The control of `Driver::execute`, step by step: `Original` (scan),
`FmtOriginal`, `Copy`, then up to three lints (`label`: that of `--format-first`,
the first, and the one of the candidate), each with `Snapshot`, a `Compile` or `Crash` per target, `LintEnd`
and `Assert`; `Layout` (the edits between declarations, then rustfmt on every Rust
file) and `Apply` change the replica; `Baseline` takes the
fingerprints and what the baseline leaves; `Gates` compares the two lints;
`AssertOriginal` and `AssertAgain` look at the project once more; `Replace`,
`FinalCheck`, `Verify` and `Rollback` are the transaction. A scan reads one file per step
(`ReadFile`), and the editor saves in between. A target compiles after those it
needs; one that fails, or has a denied finding, keeps its dependents from
compiling. Which dependents still get their turn is open: Cargo may go on with targets that do not
need the failed one, or stop. `Fail` is any failing command or call, SIGINT, or a
handshake of the wrong version, library or nonce.

*History.* `user`, `touched` and `settled` / `recorded` remember what was saved
and whether the last fix or the last written baseline still describes the project.

*Left out.* `recover` and the refusal over an unfinished transaction, which
are in `Transaction`; validation of Cargo metadata; files that a build script creates or
deletes in the candidate (`workflow.rs:252`, an error); the diff, the report and its
formats. A build script writes at most
once to a file in a lint: a write that is taken back in the same lint escapes the snapshots, as a save does.

## What the runs check

| Run | Question | Result |
|---|---|---|
| `transaction_crash` | two invocations, two saves, two faults of any kind but power: mutual exclusion, no lost save, all or nothing, backups not deleted early; implements `AtomicWorkspace` | holds |
| `transaction_power` | three faults out of signals and power losses, in a workspace whose `.statement-spacing` is on disk: write-ahead discipline, all or nothing, nothing deleted before what replaces it is on disk | holds |
| `transaction_live` | one event of each kind: every run ends and frees the lock, if the cargo commands it waits for end | holds |
| `transaction_race` | `OnlySpacing` if the editor may save between check and rename | violated |
| `transaction_late_failure` | `AllOrNothing` if the fsync after the complete journal's rename fails and the rollback is killed | violated |
| `transaction_unsynced` | `AllOrNothing` if `recover` is killed between a rename and its fsync and power is lost later | violated |
| `transaction_stuck` | `RecoverResolves` if `recover` is killed while it removes a journal directory | violated |
| `command` | complete output, no signalled result, a final KILL, calls and invocations end | holds |
| `command_hang` | `TimeoutBounds` if a descendant leaves the process group with a pipe | violated |
| `edits` | the plan ends on disk, only whitespace moves, conflicts are exact, no unfixable finding is skipped, no edit is stale | holds |
| `planner` | the planner settles and stops by itself, its output is clean, pairs stay together, findings are licensed, silenced gaps stay silent, joins last | holds |
| `workflow` | what is committed was verified, a passing check was clean or known, a fix is final, a baseline holds, success covers all targets, implements `AtomicWorkspace` | holds |

The five violated properties are things the repository says of itself;
`PROJECT.json` "findings" quotes the line for each. In short: (1) `commit` checks a
digest, then writes and fsyncs a temporary file, then renames: a save in between
is lost, although the report says `concurrent_edits_guarded`. (2) When the fsync
after the rename of the *complete* journal fails, the code rolls back under a
journal that already says complete; if that rollback dies, `recover` deletes the
backups of a mixed workspace. (3) `rollback` skips a file that already reads as
the original without making it durable. (4) `remove_dir_all` killed in the middle
leaves a prepared journal without backups, which `recover` can never resolve and
every command refuses. (5) After the KILL the runner waits for pipes without a
limit. The passing runs exclude exactly the events of (1) to (3) that their
property cannot survive, by the set `Env` of their configuration, and check everything else.

One more event is excluded, by the kind `"unrooted"`: a power loss in the first fix of a workspace. The
directory in which that fix creates `.statement-spacing` is never synced, so the loss may take the
journal and leave a part of the replacements, against `transaction.rs:404` ("Persist every backup and the
prepared journal before replacing any source."). What then happens is what the mutant
`SyncStateDirSkipped` does to `AllOrNothing` in `transaction_power`.

What the two last runs say depends on exceptions that the code makes and their
properties name:

* With `--format-first`, the edits between declarations and `cargo fmt` come before
  the lint whose tokens are compared (`workflow.rs:124`, `:245`). What they change is
  compared with their own result. `CommitsVerified` and `ImplementsAtomic` therefore
  allow, beside the code of the original, the codes of `LaidFrom`: those that
  rustfmt makes of the original with some of its own edits between declarations. Any
  other change, by another edit or a build script, is still excluded (mutant
  `LayoutEditsAll`: the layout applies every edit). That rustfmt and these edits keep the
  meaning of the code is not shown by anything in the tool, nor here. Nor does `LaidFrom`
  demand all of the edits: the groups of declarations should be there before rustfmt sorts
  within them (`workflow.rs:125`), but the lint that finds them is accepted when a target
  fails over a denied finding, and the files of the targets that need it go without theirs
  (`Parted` in `MCWorkflow`).
* A check under a baseline can pass without a report from every target, although
  it reports `"workspace": true, "all_targets": true` (`workflow.rs:155`): a
  denied finding stops its target, the targets that need it are never compiled,
  `Driver::lint` accepts that because there is a finding (`cargo.rs:890`), and the
  baseline takes the finding away. `CoversAll` excepts that case;
  `NothingNewHidden` speaks of the files that were reported for the same reason.
* Snapshots see a file that was saved, not one that was saved twice, away and
  back. Where such a file matters, a property says `touched[f] = 2`.
* `bindings = "preserve"` keeps the separators of that rule away; joins of
  bindings that other rules ask for remain (`local.rs:205-298`), and so
  `SuppressedStaysSilent` speaks of gaps before control flow, exits and tails.

### Bounds, and why they are enough

* `transaction_*`: two files, two invocations, three journal names. Two files are
  what partial states need (one replaced, one not); two invocations are what
  mutual exclusion and recovery need; a third journal name lets a new transaction
  follow a recovered one. Three contents: one the fixer changes, what it changes
  it to, and one that no fixer produces. `MaxSaves` and `MaxFaults` bound editor saves and
  faults; the violated properties need at most three faults, or one save, and two saves
  are what a file saved over its own fix and saved again needs.
  `transaction_power` and `transaction_crash` treat invocations and journal names as
  symmetric: no property of theirs names one, and `ImplementsAtomic`, an initial
  condition and a condition on steps without fairness, picks a journal only where
  there is but one. `transaction_live` checks liveness and does not.
* `command`: the child and two descendants, so that one may hold a pipe while the
  other has left the group; any number of commands in a row.
* `edits`: two targets, two files of at most ten characters: LF with indentation,
  CRLF with a byte order mark, `\r\r\n`, mixed line endings, two statements on
  one line. Each target may report any set of findings that does not overlap itself. One late
  write, to a shorter or to a shifted text. Targets are symmetric.

* `planner`: all well-formed lists of four statements over six pools, and of three over
  fourteen, with the kinds of gap that matter to the pool, under nine
  configurations that between them choose every policy: 203034 states. A rule relates two neighbours, or three
  where it looks past one; four let a group of three meet the control statement
  that splits it. `MaxBeforeControl` is 0, 1 or 2 and is exceeded. The pools mix the
  statements that rules compete for; a list over all of them would be
  five million inputs for each configuration.
* `workflow`: a library, its tests, which need the library, and a manifest; one or
  two invocations, so that a fix is followed by a check, a written baseline
  by a check under it; one finding of each kind. Two saves let a file be saved away and
  back, two writes of a build script and one crash meet each gate alone and, with the saves,
  together. A text that rustfmt sorts changes its code, in one way if
  a group is still to be established and in another if it is not. 745472 states.

### Fairness

`Transaction` assumes weak fairness of the next step of each invocation that is
running, because the operating system schedules it and each step is a system call
that returns. Two steps are not: `Open` and `FinalCheck` wait for cargo commands, which
may hang for ever with the lock held (finding (5)). Where a run is in one of them
(`InCargo`) nothing is assumed, and `Terminates` has the premise that no run stays there:
`[]<>~InCargo(p)`. Nobody has to start an invocation, save or fail. `Command` assumes
weak fairness of the runner only: the executor polls its futures and its timers
fire. Commands, their descendants and the person at the terminal owe nothing: a
command may run for ever. `CallReturns` therefore has the premise `[]<>~Held`: no KILL
was refused for good, and no process outside the group keeps a pipe for ever. The
premise is what finding (5) is about: without it the property is `TimeoutBounds`,
which fails. `InterruptStops` has the same premise. `Edits`, `Planner` and
`Workflow` are safety specifications. The planner needs no fairness to end: `Settles`
says that it does not run into its limit of rounds, `ClosureReached` that it does not run into
its limit of passes, and both limits are in the code.

## What is proved

TLAPS checks the following for every value of the constants: any sets of
invocations, files, contents, journals, process slots, targets, statements,
configurations, and any texts.
The only assumptions are the named `ASSUME`s of the modules, each of which TLC evaluates on its
instances: the absent values are no members, `Fix` is idempotent, whitespace
characters are characters, no target needs itself, the workflow's inputs are projects and
options that `main` accepts, the planner's inputs are configurations and lists whose gaps have
numbers of blank lines (`InputAssumption`), a tail is no let statement (`TailAssumption`: `lower.rs:98` makes
a tail of expressions only), a target compiles at least one file, all of them of the project,
there are finitely many findings and each has a print, and what is saved or written is a text
whose findings some target that compiles the file can report, also after rustfmt, and which, if it is not Rust,
rustfmt has no opinion of (`SeenAssumption`: a finding that nothing reports is none); rustfmt leaves alone
what it accepts (`RustfmtAssumption`).

* **Transaction.** `TypeCorrect`, `MutualExclusion`, `WriteAheadDiscipline` rest on
  one inductive invariant, `IInv == TypeOK /\ TxnOK /\ OneAtATime /\ JournalInv`.
  None of the three is inductive alone: that every image a power loss may leave has
  all backups holds because each label bounds what `jrD` of its own transaction may hold (`JournalInv`), and
  that survives the steps of other invocations only because the holder of the lock is
  alone (`OneAtATime`) and its transaction is named (`TxnOK`). `TypeOK` says besides the
  ranges of the variables that a run works through files and journals that exist for it (`Looping`,
  `Listed`). `WriteAhead` speaks of a workspace whose `.statement-spacing` is on disk (`Rooted`).
  `NoLostSave` needs in
  addition `SpacingInv == Kept /\ \A p : Window(p)`: not only what is read but
  all that may survive on disk differs from the last save by spacing, and between a check and its rename
  the checked file still is what was checked. That last part is exactly what an
  editor's save in the window breaks, so the theorem has the hypothesis
  `"race" \notin Env`, and run `transaction_race` shows that it is needed.
  `NothingInBetween` and `BackupsOutlive` are about what a workspace is between two
  invocations, and only the history of the last transaction tells: `Outcome` says for every
  phase of the journal, on disk or not, and every label of its owner, which files
  read as before, which as after, and which have been saved since. They hold for the faults of
  `Survivable`: no failing fsync of the completion, and no power loss in the company of a
  kill or a failing call or in the first fix of a workspace (`Rooted`). The runs `transaction_late_failure` and
  `transaction_unsynced` turn the first two into a violation, a mutant of `transaction_power` the third.
  `SyncedBeforeDelete` needs only that what is renamed is synced before the next label, hence that
  nothing fails in between, and, where power may be lost, that the workspace is `Rooted`.
  `FixIsAtomic` is the refinement, one lemma per kind of step. `Resolved` changes at three places:
  at the rename of the complete journal (`Commit`), where a journal appears or goes and a file
  saved as the fix writes it changes sides (`Respace`), and by a save; `Begin` is `Open`, and every other
  step stutters (`AInv`: what each label knows of the files it has checked, `Saved`, and what an invocation
  that has no transaction may be doing, `Errand`). Power losses are excluded
  here, as in the run: one of them may bring back the fix that a rollback has undone, which no step of
  `AtomicWorkspace` does.
* **Command.** `TypeCorrect`, `OutputIsComplete`, `OkIsUndisturbed`,
  `KilledGroupIsGone`, from `CallInv == TypeOK /\ Blank /\ OutputComplete /\ Sent`:
  `Sent` ties the signals sent to the place in the call, `Blank` says a dead slot
  holds nothing.
* **Edits.** `AcceptedEditsAreDisjoint`: comparing neighbours in span order is enough for
  *all* pairs, since the nearest successor of an edit starts no later than any other
  (`NextExists`, from the least-element property of the naturals). `EditsStayFresh`:
  splicing at the greatest remaining start leaves every slice before it as it was
  (`SpliceKeeps`), so what an edit found when it was collected it finds when it is
  applied. `IInv` adds to these that one span has one edit, that a file is read
  before it is written, and that without a late write the replica is what was linted.
  Neither of these proofs uses anything about the planner or rustc's offsets.
  `CodeStays`: through any sequence of edits, also after late writes, what is in the replica has the code of its original or
  of something that was written to it. The text in work between two splices is part of the invariant (`WorkKept`), and the step
  is `CodeOfSplice`: replacing trivia by trivia leaves the code as it was. That is a fact about a
  recursive function; `Counts` says what the function does at each character, and `SetInduction`
  gives the induction over the length, as a statement about a set of numbers where the library's theorem has an operator.
  `AgreedIsApplied`: a finding in the report of a target that did not propose its fix makes
  it unfixable, for good, and an unfixable finding among those collected rejects the whole collection before anything is
  applied (`Agreed`).
  `VerdictStaysExact` says that the collection is given up for a contradiction of the planner's fixes and for nothing
  else, though it compares spans in the file: offsets in the raw text keep the order of those in the normalized one (`RawOffsetOrder`,
  from what `InOrder` lists), whitespace there is whitespace here, whatever the line endings and
  with or without a byte order mark (`RawTrivia`), a gap is never empty (`GapFacts`), and fixes that differ still
  differ after the line endings of the file are put back (`NewlineAdded`). The invariant `Exact` says that until the verdict the edits are those of
  all reports so far.
  `PlanIsApplied` is about the way there and back: the planner's edits are in offsets of the text
  that the compiler reads, what `apply` splices are bytes of the file. A file is described by a text and the file it
  was read from: `Writes(raw, s)` is `s` with the byte order mark and the line endings of `raw`. A file without mixed line
  endings is what its own text writes, up to every offset (`OwnText`, `RawLength`, by `RawNext` from one
  offset to the next), and a splice there is a splice of the text (`SpliceWrites`), since
  `OriginalNewlines` takes a text apart at any place (`NewlinesConcat`, by `TextInduction`). The invariant
  `AsPlanned` says that the bytes in work are the text with the edits applied so far (`Holds`), and
  that nothing has changed before the end of any edit that is left (`Ahead`), the reason for the order of the
  edits; `ApplyOne` takes up one more edit in the definition of `ApplyEdits`. At the end the file is read back
  (`ReadBack`): an edit leaves a line break in the gap, creates no CRLF out of a CR and an LF that were apart, and never
  puts a byte order mark first (`Plain`, `ReplacedText`), so that the style of the file is the one it had.
* **Planner.** The theorems hold for lists and configurations of any size; the first three
  assume nothing of them. `FindingsAreLicensed` follows a decision
  from its bid to the plan: every slot, of the build, of the merge and
  of the cap, is empty or was admitted by `put`, which asks `Blocked` and `Enabled`. That is the
  invariant; it needs that no step changes the list or configuration and that findings compare the plan with
  the source. `MandatoryJoinsStay` is the reason that setup groups may be computed in passes: a
  separator never outbids a mandatory join, whatever the control statement, the
  accumulator or the split it comes from. `ChecksStayAdjacent` puts the
  two together: the join of a pair is the first bid on its gap, no
  later bid of the same build replaces it, no control statement takes it
  apart, and the merge of rounds keeps it because every round asks for it again.
  `SuppressedStaysSilent` has to go through all offers of `local.rs`, since a single general one at a
  boundary that control flow, an exit or a tail owns would do: none of those is of the rules for bindings or
  expressions (`GapOffersSilent`), and the setup groups replace a decision there by another of their own rule
  only (`SilentStep`). Its theorem, `SuppressedStaysSuppressed`, and `PlannerTypes` use the two
  assumptions on the inputs. `PlannerTypes` includes the bounds of the three loops: the chosen control statement is one of the list
  (`MinIsMember`), groups consist of gaps of the list (`GroupsAreGaps`), passes and rounds stay in their limits.

  `PassesSuffice`, `FixedIsAccepted`, `PlanningSettles` and `JoinsAlwaysStand` are about the loops of the
  planner, and none of them is a fact about one rule. The first says why `setup.rs` may stop after as many passes
  as there are statements. What a control statement puts lies in the open group before it, and no two groups share a
  gap (`GroupsAreApart`); what it sees of the slots is which gaps of its group are open and which are mandatory joins
  (`SameView`); nothing opens a gap. So a control statement is asked again in vain unless its group
  became shorter, which it can do only so often: after k passes each group that may still
  change starts after the k-th statement (`Progress`). The other three need what a build depends on. `SameOffers` and
  `SameSetup` go through all rules: the blank lines matter only in so far as they make a gap tight
  (`Tight`: the group and the local rules) or open (`Open`: the setup groups); blank lines
  that agree in this are the same to the planner (`SameSight`). A build is one computation with one end
  (`Built`, `BuiltOnce`). For `FixedIsAccepted`, the blank lines that a plan leaves are those of a build that asked for no
  others (`Stable`), and the build on the fixed source is the same one (`Replays`).

  `PlanningSettles` counts (`Settling`), and differently for the two values of `join_related`. Under it every gap is tight, and
  all that a build sees of the blank lines is which of the gaps that cannot be joined have any. These never lose them all
  (`FirmIsParted`), so that each replanning adds one to them or sees what the one before it saw and is the last
  (`SeenBefore`). Otherwise the joins that depend on no blank line win their gap in every
  build (`FixedJoin`, `HeldWins`), and where there is none, a gap with blank lines is never joined: from the second
  round on each replanning separates a gap for good. A list has fewer gaps than rounds. `JoinsAlwaysStand`
  follows from the same invariant. It is why `PlannedStaysHeld` distinguishes these two cases: without
  `join_related` a mandatory join of a run of accumulators can be given up in a later round, when the separator of that round
  takes a statement out of the run (in the pool `Feeders` of `MCPlanner` it is); what then stays is the separation.
* **Workflow.** `SuccessCoversAll`: while the first lint is accepted with a failed
  target, there is a finding, and from there it remains (no baseline takes it
  away in a fix, or in a check without `--baseline`), so that a check ends in
  `violations` and a fix has to lint again; the second lint passes its gate only without
  findings, hence without a failed target, and then every target had its turn,
  since among those that are left one can always be compiled (`NeedsAssumption`).
  The inductive invariant says where in the run which of these facts is known.
  `Sound`, the invariant behind the promise to the user, is the reason for the order of the gates. A target may read a file that a build script has just
  overwritten; but then the replica differs from the scan before the lint for the rest of it, and
  `Assert` fails (`Linting`, `Scanning`). So the tokens of the first lint are those of
  the original (`FirstLint`, `SecondLint`), an edit concerns only files that were checked, the files
  that were not keep their code (`KeptElsewhere`), and the second lint, by the coverage above, has seen every file
  that any target compiles (`Candidate`).

  `VerdictProofs` is about what the end of a run says. A check reads a project that is
  being saved, file after file, four times, and compares the first and the last
  scan. `PassIsClean` and `NothingIsHidden` hold because a file that has been saved at most once and
  reads at the end as at the start has read so all the time: `Held` names those files, `AsRead` follows through the
  formatter, the lint and the fingerprints what was read of them, `Unsaved0`
  does so for files that nobody saved. The rest of
  `NothingIsHidden` counts: `filter` leaves nothing only if it matched every finding, so that what
  occurs with a fingerprint is no more than its count in the baseline. `FixStays` says that a settled project is a
  fixed point of both commands: every lint of it finds nothing, so nothing is edited and the
  gates see no difference (`Settled`, `NothingToDo`); `BaselineStays` the same of a baseline that was
  written over a complete lint (`Recorded`; `Standing` is the project with an open commit undone).
  `OnlyVerifiedCommits` and `WorkflowIsAtomic` take all the gates together: the findings of a committed file are
  gone because every target has seen it (`Verified`, `Origins`), it is formatted, and its code is that of the
  original or of the layout (`Promised`). At the layout the replica still is the original, since the scans around the
  lint would have shown a write, and so what `Layout` leaves of a file is in `LaidFrom`; `Layouts` follows that code
  through the scans, the tokens of the first lint for the files it checked, the edits, which leave
  other files alone, and the comparison with the second lint. Nothing is assumed about
  rustfmt but that it leaves alone what it accepts, which is also why a second fix of a settled project changes
  nothing under `--format-first`. The commit of the abstract specification is the
  step of `Verify` that finds the project as expected; a rollback undoes what counts as not done yet, save for
  `Respace`.

Only model-checked: liveness (`Terminates`, `CallReturns`, `InterruptStops`), which is
out of the prover's reach, as is `ENABLED`. Every invariant and every action property of
the passing runs is a theorem.

## What is not modelled, and why

* The syntax crate and the HIR walks of the lint are functions of trees that only
  rustc produces; there is no state and no concurrency to check. Of the lint pass,
  `Workflow` has what leaves a target: its diagnostics and its handshake.
* The path handling of `workspace.rs`: ignore rules, links, limits, Cargo
  metadata, permissions of the copy. The scans themselves are in `Workflow`.
* A process that outlives the build script that started it and writes to the replica between the
  last snapshot and the reading of the bytes to commit (`workflow.rs:266`). Nothing in the code would
  notice it. Inside its process group such a process is killed (`Command`, `KillIsFinal`).
* Diff text, report wording and JSON layout are presentation.
* Developer tooling checks the repository, not the program.
* Windows: job objects, handles, no directory fsync.
* Cargo, rustfmt, Dylint and git are outside; they appear as nondeterministic results.

## What could come next

In the order of its worth: the refinement of `Transaction` under power losses, for an
abstract workspace in which an undone fix may come back; the walk and the ignore
rules of `workspace.rs` as operators on a small tree.
