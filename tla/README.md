# A verification of gengo

gengo (`cmd/gengo`, with `gen`, `harness`, `observe`, `golean`) generates small
deterministic Go programs, runs each under the reference toolchain and a clone,
compares what the two observed, and publishes the programs with the verdicts
as a *batch*, a directory that somebody else can verify and judge again. This
directory holds TLA+ models of the parts of it where the order of events
matters, the TLC runs that check them, and TLAPS proofs of their main
properties. Line numbers refer to the repository; the table of every definition
and the lines it stands for is the `map` of `PROJECT.json`.

## 1. The system

    flags ── validate / loadCheck ─┐
                                   v
    generator ──> stageBatchDir ──> cases, manifest.json, complete.json ──> publishBatch / publishCheck
       │  (draws, budget,             ^                    ^
       │   profiles, scopes)          │ outcomes, verdicts │ functions.json
       │                              │                    │
       │                     RunBatch (pool)         runBatteries (pool)
       │                              │                    │
       │                              └──── GcAdapter ─────┘   build + run, process group, deadlines
       │                                       │
       │                            observe.Decode / Validate / Equal ── Judge
       │
       └── replay, -verify (ValidateBatch, VerifyBatch, ValidateBatchReport), golean campaign

| Component | State it keeps | Operations | Talks to | What is hard | What makes it right |
| --- | --- | --- | --- | --- | --- |
| batch publication (`main.go`, `check.go`) | three paths: `<out>`, `<out>.staging`, `<out>.prev` | validate/loadCheck, stageBatchDir, the writes of a batch, publishBatchMode, publishCheck | file system, a second gengo, the user | every step is a system call with a crash, a failure or another writer behind it | only whole batches at `-out`; the previous batch survives an interruption; nobody else's files are touched |
| batch judging pool (`harness.go`, RunBatch) | jobs channel, a slot per case, the context | send, receive, run both sides, store, wait | GcAdapter, Judge, caller's context | workers, an unbuffered channel and a cancellation | no report with an unjudged or a cut-off case; no deadlock |
| judge and observation (`harness.go`, `observe`) | none: functions | Outcome.Validate, Document.Validate, Equal, Judge | RunBatch, report | three policies times six statuses times malformed documents | a semantic verdict only from two valid observations; failures never hide or mirror wrongly |
| battery pool (`battery.go`, runBatteries) | channel, mutex, first error, context | send, run, record, fail, cancel | GcAdapter, disk | the first error cancels the others, whose errors then race with it | nil means everything is recorded; the error is the cause |
| gc adapter (`harness.go`, `proc_unix.go`) | child, process group, pipe, two deadlines | buildRun, killGroup, cappedBuffer, Run | os/exec, compiler, subject | descendants that hold pipes, deadlines at any moment, floods of output | only complete output is observed; Run always returns |
| battery protocol (`harness/battery.go`, the driver in `gen/functions.go`) | functions.json | parseBattery, checkTypedValue, FunctionsDoc.validate, SameBattery | adapter, functions.json | truncated, repeated, late rows; integer widths | what is recorded is what the calls came to, or nothing is |
| batch descriptor (`harness/manifest.go`) | manifest.json, complete.json, digests | WriteManifest, WriteComplete, ValidateBatch, VerifyBatch | file system, RunBatch, other writers | digests taken at one time and used at another | what `-verify` accepts is what was judged |
| batch report (`harness/report.go`) | histograms, totals | ValidateBatchReport, checkExternalVerdict | RunBatch, wrapper accounting | two writers of numbers that have to agree | every report that run writes is accepted by `-verify` |
| golean campaign (`golean`) | work directory, results of a script | Run, translate, invoke, parseResults, judge | external script | results of an earlier invocation | every verdict is of this invocation |
| golean work digests | digests of the work tree | WorkDigests, VerifyWork | golean | as the batch descriptor | as the batch descriptor |
| draw source and replay (`gen/choice.go`) | the recorded trace and a position | chooser, replaySource | generator | a replay that has drifted | a replay is identical or refused |
| work budget (`gen/budget.go`) | remaining work, floors, loop multipliers | charge, afford, commitFloor, priceBody | generator | work that is already committed to, bodies priced before their call sites, nested loops | every generated program ends within its budget, whatever the draws |
| program generator (`gen`) | scopes, the panic risk of a statement, frozen slices, bounds on lengths and magnitudes, callees | statements, expressions, types, functions | draws, budget | one site of a statement may panic and no other; a bound true at writing is read at a later pass of a loop | no two panics whose order is open; no loop with more trips than charged; no untagged dependence on the width of int |
| profiles | allow-lists | apply, re-derive | generator, `-verify` | two derivations that have to agree | the profile of a batch is the one it was generated with |
| driver text, strict JSON, generator revision, command line | none | text in, text out | | | |

## 2. The plan

Done, in this order, the part of the program that can lose data or report
something false first:

1. `Publish`, with the abstract specification `BatchOfRecord` and the proofs.
2. `RunBatch`, `Verdicts`, `Batteries`, `GcAdapter`.
3. `Report`: what run writes, and ValidateBatchReport on it (composes
   `Verdicts` with the totals and the wrapper accounting).
4. `GoLean`: the campaign, its script, the results and the work digests.
5. `Generator`: the work budget and the emitters that use it; `Growth`: the
   bounds on what a generated program grows.
6. `BatchTree`: manifest and completion over a tree with another writer, composed
   with `RunBatch`, from the writing of a batch to `-verify`.
7. `BatteryCampaign`: the rows and the typed values, composed with `Batteries`.

Not worth a module of their own, and why: the draw source and replay, the
profiles, the generator revision and the text components (section 6).

Every safety property that a run checks is also a theorem. What is left are the
type invariants of the modules that have one outside an inductive invariant, and
what the prover cannot reach (section 5).

## 3. The modules and the code

**Publish** - `fs` is the three paths; a node is its kind and a set of entries
`<<name, run>>`. One action is one system call that changes the tree or one look
at it with the decision taken on it (`StatPrev`, `RestorePrev`, `MoveAside`,
`Swap`, ...); os.RemoveAll is as many actions as the directory has entries, in
any order. A process that dies and a system call that fails both leave what was
written and end the run (`Crash`). The user makes, fills, replaces or takes
`-out`, and clears a sibling that a run refused, as the error messages advise.
All case files are one entry; `batch.json` and `manifest.tsv` stand and fall
with `complete.json`.

**BatchOfRecord** - the promise, without a file system: the run whose batch the
user can get back never vanishes and never goes back to an older run. `Publish`
refines it with `record <- Recoverable`.

**PublishSafety** - the inductive invariants, so that TLC can check them too.
**PublishProofs** - types, the claim of the checks, strangers' files, whole
batches and the refinement of `BatchOfRecord`.

**RunBatch** - the sending loop, the workers, the slots and the context. `Send`
is the rendezvous of an unbuffered channel; `Skip` is the drain on
cancellation; `Return` is the test after the wait. Outcomes and Judge are
parameters.

**BatchTree** - the files of a batch from the writing to `-verify`, and `RunBatch`
as its judge: the composition adds to each worker step what it finds on disk. A
file's content is a version (absent, as gengo wrote it, or the k-th edit) and a
digest is the version; `manifest`, `complete` and `sha` are the versions that
manifest.json, complete.json and the report name. `Valid` is ValidateBatch with
everything it calls; the three moments of a case (the worker's own reading of
subject.go, the build of the reference, the build of the clone) are three steps,
and an outcome is `"listed"` if every `.go` file in the directory is then the
listed one. Another writer edits, removes or adds any input, and once
complete.json is there also the descriptor, the reports and complete.json itself.
No edit is undone: manifest.go:18-20 names a tree edited between validation and
build as what it does not cover, and an edit that is undone before `-verify`
looks is just that.

**Verdicts** - the functions of the judge. Text (a panic message, a value) is a
member of a small set.

**Report** - one campaign from the outcomes to `-verify`: `RunBatch` fills the
report (and judges a gc clone), `runGoLean` folds in the rows of a golean
campaign, `Account` counts the wrapper catches, `Verify` is ValidateBatchReport.
Between the last two, `Falsify` may make one fact of the report false, alone or
(a verdict) with all that follows from it. The producer and the validator are
translated each from its own code; they share the operators that count, which
the code has twice.

**Batteries** - runBatteries: `Fail` and `CancelOthers` are apart, as the mutex
and the cancel call are. **BatteryCampaign** - the same pool with what its workers
hold (`held`) and what is on disk (`docs`). `Driver` is the output of the generated
battery driver for the true outcomes of its calls; `Faulty` is every way one line
of it is lost, doubled, exchanged or cut off, a value that is just outside its
type or is spelled otherwise, a message that is not quoted or no runtime error's;
`parseBattery` and `validate` read it. A damage that leaves a well-formed output
with another value in range cannot be told by anyone and is left out.

**GcAdapter** - one case, the child, its descendants,
the pipe and both deadlines; buildRun is run twice, for the build and for the
program.

**GoLean** - `work` is the work directory; a file is the set of its content, and
the bytes of a subject are a token. Every write of golean.Run is an action;
os.RemoveAll of the case tree is one per case. The script is external: it reads
the manifest and the cases that are there when it judges, may lose, double or
invent rows, publishes its two files in either order, and may exit or hang at
any point. A row carries (beside its verdict) which campaign's script wrote it
and the bytes it judged, which no program reads; the properties do. One edit of
the tree or of a subject by somebody else may come at any time. gengo gives every
campaign a fresh directory at the same path; golean.Run and its tests allow a
used one, which is what is modelled.

**Generator** - the emitters call each other and themselves; `todo` is what they
still have to do, innermost first, so that one action is one arm of a statement
or an expression with its gate, its charge, and what it commits to. The text,
the types and the variables are left out: an arm may be drawn wherever its gate
allows it. `pool` is what budget.go keeps; `real` counts beside it what the text
would execute, so that the properties compare the generator's account with the
truth. `risk` is the flag of the statement, `line` what the line really has.

**Growth** - two phases. In `emit` a short program is written on variables of one
kind (strings, slices, ints) by the arms that move a bound; in `run` it is executed
on lengths and magnitudes, every path of it, against the bounds, the charged
trips and the multipliers it was written with. A value is told from greater ones
up to `MaxVal`, which is above the window.

**BatchTreeProofs** has the proofs of `RunBatch` and of `BatchTree`,
**BatteryCampaignProofs** those of `Batteries` and of `BatteryCampaign`;
**GcAdapterProofs**, **ReportProofs** (with the lemmas on `Verdicts`),
**GoLeanProofs**, **GeneratorProofs** and **GrowthProofs** those of the module they
are named after.

The operators under the heading "slips" in each module are used by no action:
each is the form a definition would have after a plausible mistake, and shows
that the property it is meant for notices it.

## 4. The runs

| Run | Bounds | What it shows |
| --- | --- | --- |
| publish_crash | 1 process, both modes, 4 runs, user clears | `TypeOK`; `PublishedWhole`: what parses as a batch at `-out` is all of one finished run's batch; `RecordKept` (refinement of BatchOfRecord); `StrangersSpared`; `Recovers` |
| publish_checks | 2 processes in `-check`, 4 runs, user makes, fills, takes, clears | `ClaimExclusive`, `CheckKeepsFiles` |
| batch_tree | 2 workers, 3 cases with batteries, a clone, a cancellation, 1 edit of any file at any moment | `ReportIsWhole`, `NothingCut`: a report has every case and no outcome that was cut off; `AcceptedIsJudged`: an accepted batch's verdicts are of the programs its manifest lists; `VerifyIsExact`: no change after completion is accepted and nothing else is refused; `WrittenOnce`; `JudgingEnds` |
| report | one case with every pair of outcomes, broken ones included, under every policy; two cases with fewer outcomes, every golean row, features, an unreadable subject; no, a gc and a golean clone; one false fact | `SemanticOnlyIfObserved`, `HarnessErrorIsContract`, `KindIgnoresMessages`, `SidesMirror`, `OwnReportAccepted`, `DefectRefused` |
| batteries | 3 workers, 4 batteries, two functions with three calls, three sets of outcomes at the edges of int8, uint8, bool, or panics | `NilMeansAll`, `FirstErrorIsCause`, `RecordedIsTrue`, `Returns` |
| adapter | one case, a descendant of each kind | `RanIsComplete`, `GroupDiesWithChild`, `Returns` |
| golean | 2 campaigns of 2 cases in one work directory, 1 edit | `FreshVerdicts`, `JudgedSource`, `VerifyExact`, `ForeignSpared`, `Returns` |
| generator | a budget of 48, 2 statements, nesting 2, loops of 2 passes, bodies of 1 statement, one variable; eight mixes of constructs | `NoBreach`, `WithinBudget`, `PricesCoverRuns`, `PanicOrdered`, `NestBalanced` |
| growth | 2 variables of a kind, programs of up to 4 (ints: 3) operations, nesting 2, loops of 2 passes, ranges of at most 4, lengths up to 6, a window of 11, values told apart up to 22; every path of each | `TripsPriced`, `RunsWithinMul`, `BoundsHold`, `WidthTagged` |
| publish_mkdir | 1 process, 3 runs, user makes `-out` | refutes `RecordKept` |
| generator_calls | as generator, one mix with helpers, and calls of bool helpers counted | refutes `WithinBudget` |
| growth_widths | as growth, ints, and plain assignments in loops | refutes `WidthTagged` |

Why the bounds are enough. Four runs allow a published batch, an interrupted
run over it, an interrupted recovery, and the run that looks at the result; a
fifth finds a tree that one of the first four could already leave. Two checks
are the fewest that can meet, and the claim treats every further one alike.
Two or three workers on three or four jobs allow one to be done, one to fail or be cut
off and one to be on its way at the cancellation; the theorems remove the bound.
A report is a conjunction over its cases and sums over them, so two cases show
whether a count takes in what it should, and one whether a case is judged right.
Two golean campaigns are one that leaves something and one that finds it; of two
cases one can be lost and the other not.
An edit of a batch matters by where and when it falls: one edit at every file and
every moment is every place a check could miss, and none is undone by a second
(two edits of a batch of two cases, 1.4 million states, show nothing else, in
more time than a run of this size deserves). Three cases let one be judged before the edit,
one be in a worker's hands and one be still to come. Of battery outputs every
single damage is tried on all three shapes of the outcomes.
The generator's budget is a few times what its smallest arms cost, so that
every tape meets an arm it can just not afford; nesting 2 has a loop in a loop
and a call in it, and the eight mixes have together every construct, each beside
those whose accounts it shares (in all mixes at once the state space is out of
reach). In `Growth` two variables can exchange their bounds or grow one another,
and a loop in a loop is the least that runs an inner write after an outer one.
The kinds of descendants (in the group or not, with the pipe or without) are
all that killGroup and os/exec tell apart.

The systems stop (after `MaxRuns` runs, or when the call returns), so deadlock
is not checked; that a pool or an adapter cannot get stuck on the way is
`JudgingEnds` and `Returns`.

Fairness. `WF(RunStep(p))` and `WF(Start(p))` in `Publish`: a live process goes
on, and the user goes on starting runs. The last run within the bound does not
crash; without that the bound itself would look like an interruption for ever.
`GoLean`: gengo goes on and time passes (the ceiling); of the script nothing is
assumed. `BatchTree` (of the judging only: nobody has to write, edit, cancel or
verify) and `BatteryCampaign`: goroutines are scheduled, and a run of an adapter
ends - the latter is `Returns` of `GcAdapter`, which assumes only that os/exec's
goroutines run and that time passes, never that a process ends.

### Disagreements between code and comments

Each is a run that refutes what a comment says, and a finding in `PROJECT.json`.

* publish_mkdir: an empty `-out` made between an interrupted publish and the next
  run lets that run delete `<out>.prev`, the only copy of the previous batch.
* generator_calls: the call arm of boolExpr (expr.go:1092) neither asks whether a
  callee is affordable nor charges for it, where every other call does. A subject
  with bool helpers executes more than `ExecBudget`. Run generator leaves
  what these calls execute uncounted (`CountBool`), so its `WithinBudget` is about
  everything else.
* growth_widths: `v = v * v` in a loop is judged by the bound `v` had before the
  loop; the program has no tag `width_dependent` and leaves the 32-bit window. Run
  growth has no plain assignment of ints inside loops (`AssignInLoops`), so its
  `WidthTagged` is about compound assignments, increments and folds.

### Where the properties stop

The bounds on the user and the processes in the passing runs are the limits of
what the code does, found by allowing more:

* with the user taking `-out` away, a `<out>.prev` whose removal was interrupted
  can be restored in part (so `PublishedWhole` excludes "take");
* files put at `-out` after validate looked are moved aside and deleted with the
  old batch (so publish_crash excludes "fill");
* a plain file put in the place of the empty `-out` is unlinked by a check's
  os.Remove (so publish_checks excludes "file");
* an interrupted removal of a staging tree may have lost its marker, and an
  interrupted publish over an empty `-out` leaves an empty `<out>.prev`; later
  runs refuse both until the user clears them (so `Recovers` has "clear");
* a deadline that passes after the child was reaped, while a descendant holds the
  pipe, is reported as a timeout and kills nobody (`GroupDiesWithChild` is about
  a deadline that takes the child);
* a caught wrapper case to which golean gives a harness error is in neither leg of
  the account: run publishes the batch and `-verify` refuses it. `OwnReportAccepted`
  states that this, an unreadable subject and an adapter that breaks its contract
  are the only reports of run that `-verify` refuses;
* the script of a killed gengo that publishes between the next campaign's own
  results and its reading of them is believed (so run golean has `Orphans` FALSE: a
  script dies with its gengo);
* a batch whose subject was edited and put back between validation and `-verify` is
  accepted (so no edit of `BatchTree` is undone), and a report that somebody
  replaces while `-verify` runs is digested before and read after
  (`AcceptedIsJudged` is about gengo's own report);
* a golean campaign that dies between making its case tree and marking it leaves a
  tree that later campaigns refuse;
* two runs that generate at one `-out`, or one that generates beside a live
  check, share a staging tree; the code does not claim to exclude it.

## 5. The proofs

| Module | Theorem: property | For every | Inductive invariant |
| --- | --- | --- | --- |
| PublishProofs | `TypeCorrect`: TypeOK | set of processes, modes, user, number of runs | itself |
| | `OneClaim`: ClaimExclusive; `ChecksKeepFiles`: CheckKeepsFiles | number of checks and runs, a user who puts no plain file at `-out` | CheckInv |
| | `StrangersAreSpared`: StrangersSpared | processes, modes, runs, a user who puts no file at `-out` after validate looked (no "write", no "file") | SparedInv |
| | `PublishedIsWhole`: PublishedWhole | number of runs of one process, a user who does not take `-out` away | SoundInv |
| | `RecordIsKept`: RecordKept (refinement of BatchOfRecord) | number of runs of one process, a user who at most clears | RecordInv |
| BatchTreeProofs | `ReportWhole`: ReportIsWhole; `ReportUncut`: NothingCut | pool, number of cases, outcomes, Judge | BatchInv |
| | `SlotWrittenOnce`: WrittenOnce | same | BatchInv and Own |
| | `BatchReportWhole`: the three above, of `TreeSpec` | same, any case files, edits anywhere at any time | none: each step is a step of RunBatch or leaves it alone |
| | `Accepted`: AcceptedIsJudged; `ExactVerify`: VerifyIsExact | same | TreeInv (and BatchInv) |
| BatteryCampaignProofs | `NilIsAll`: NilMeansAll; `ErrorIsCause`: FirstErrorIsCause | pool, number of batteries | BatteriesInv |
| | `CampaignAnswer`: both, of `CampaignSpec` | same, any functions, inputs, outcomes and damage | none, as BatchReportWhole |
| | `RecordedTruth`: RecordedIsTrue | same, any one damage to a driver's output | DocsInv (and BatteriesInv) |
| GcAdapterProofs | `ObservedIsComplete`: RanIsComplete; `GroupDies`: GroupDiesWithChild | descendants, floods, deadlines | AdapterInv |
| ReportProofs | `SemanticIsObserved`, `HarnessErrors`, `MessagesAreIgnored`, `SidesAreMirrored`: the four properties of the judge | cases, documents, messages, policies | ReportInv |
| | `OwnReports`: OwnReportAccepted; `FalseFacts`: DefectRefused | number of cases, outcomes, features, golean rows | ReportInv |
| GoLeanProofs | `OwnVerdicts`: FreshVerdicts; `JudgedAsNamed`: JudgedSource; `VerifiedAsLeft`: VerifyExact | number of campaigns and cases, edits, scripts that die with their gengo | Inv |
| | `StrangersTreeStays`: ForeignSpared | same, scripts that survive included | RemoveInv |
| GeneratorProofs | `CommitmentsPayable`: NoBreach; `BudgetKept`: WithinBudget; `PricesSuffice`: PricesCoverRuns; `OnePanicSite`: PanicOrdered; `LoopsBalanced`: NestBalanced | budget, limits, mix of constructs, tape | GeneratorInv |
| GrowthProofs | `TripsKept`: TripsPriced; `WithinKept`: RunsWithinMul; `BoundsKept`: BoundsHold; `TypesKept`: TypeOK | length and nesting of a program, variables, trips, literals, lengths and values, paths | GrowthInv |
| | `TagKept`: WidthTagged | same, ints assigned outside loops only | GrowthInv |

Every theorem of the table is about the specification that the run of section 4
checks, and the restrictions in the third column are hypotheses of the theorem.
They are the ones the runs have, for the reasons given under *Where the
properties stop*: without them the code does something else. The one that looks
otherwise is `CountBool = FALSE` of the generator: the flag decides only whether
the auxiliary sum `real.sum` has in it what calls of bool helpers execute, and no
guard reads that sum. `NoBreach`, `PanicOrdered` and `NestBalanced` do not mention
it; `WithinBudget` and `PricesCoverRuns` do, and counted they are false (the
finding of run generator_calls). `TagKept` has the restriction of run growth
(`AssignInLoops = FALSE`); without it the property is false, which is the finding of
growth_widths. The other theorems about `Growth` hold with it and without it.

### The invariants, and why they are needed

*CheckInv.* That two checks are never between claim and end together follows only
if the claim is refused for a directory that another check is still filling:
each path has at most gengo's entries or none (`Bare`), no process is at a step
that only a generate run has, and what a building check has not written yet is
not there (`Unwritten`), so nobody can lose the staging tree to a rename.

*SparedInv.* A stranger's file at a path means that no process is past the look
at that path which makes a run refuse it (`Touchable`).

*SoundInv.* `PublishedWhole` alone is not inductive: a batch reaches `-out` from
the staging tree or from `<out>.prev`. `Progress` says how much of the staging
tree is there at each step, so that what is swapped in is whole; `Siblings` says
that `<out>.prev` is taken apart only while something stands at `-out`, so that
what is restored is whole. The three file-system lemmas (`GotoAt`, `SetAt`,
`RemoveAllAt`) reduce a step to what it does to one path.

*RecordInv* adds what the record can be: `<out>.prev` is a batch only while `-out`
is missing or a newer batch, both are of runs before the one in progress, and a
tree has one manifest. Each step is then shown to be a step of `BatchOfRecord`
(a newer record) or to leave the record as it is.

*BatchInv.* An empty slot is of a case that is not handed out, in a worker's
hands, or dropped by a cancellation (`Slot`); a cut-off outcome means that the
context has ended (`Held`, `Slot`); a report is returned only if it has not.
With all workers gone and all cases handed out, no slot can be empty. *Own* adds
that no two workers hold one case and that a held case's slot is empty.

*TreeInv.* A file never goes back to an earlier version, one that a descriptor
lists as missing stays missing (`Versioned`, `StaysMissing`), and who acted between
the descriptors or after them left a trace (`Touched`); as long as nobody
edited a described batch, every outcome is of the listed files (`JudgedListed`).
An accepting `-verify` has seen all files at the versions of the manifest, and no
version comes back, so nobody did. `GengoFiles` and `GengoSeals` are what the other
direction needs: with no edit there is nothing to refuse.

*BatteriesInv.* A battery that was handed out is recorded, in a worker's hands,
or belongs to a batch that has failed (`Accounted`); an error that is only a cut
follows from the cancellation, which follows from the first error (`HasError`,
`Kept`), so a cut can never be the first. *DocsInv*: what is on disk is what the
worker held, and a worker reaches its write only with an output that was read as
the truth. The work is in that last step: a damaged output which parseBattery
and validate accept says what the undamaged one says, shown for every kind of
damage and every position in an output of any length.

*AdapterInv.* A killed child's group is dead and stays so (nothing is left in it
that could fork); a result is looked at only when the child is reaped and the
pipe is closed or given up on.

*ReportInv* says what the report has at each stage of the campaign (`Filled`,
`Accounted`) and what is true of a falsified report that the validator still
accepts (`OnItsWord`: golean's own part of a verdict, and nothing else). Judge,
Equal and Document.Validate have lemmas of their own, for all outcomes; that
the counts of a falsified report cannot add up is arithmetic on cardinalities.

*Inv* of `GoLean`: only this campaign's script is alive (`ScriptInv`), the results
file is absent until it writes, its rows are of what stood in the tree, which is
what was translated unless somebody edited it (`TreeInv`, `ReportInv`).
*RemoveInv*: the marker is ours wherever the case tree is about to be removed.

*GeneratorInv.* `todo`, the stack of unfinished emitter calls, is arbitrarily
long, and each item relies on what those below it will leave. The *Ledger* is a
list of entries beside it, one in front of each item: the body and the product of
the open loops there, the liability, what has to be charged without a gate from
there on, and whether a panic site may still follow in the statement. Two
neighbouring entries differ by what the item between them charges and releases
(`Follows`), so a step is looked at only where it replaces the first item by
others (`Covered` of a concatenation is the lemma for it); the first entry is tied
to the accounts themselves (`Accounts`: in a subject or a function what the pool
has left covers what is owed, and what was executed plus what is left is at most
the cap; in a priced body what was executed is at most what was charged) and to
the line being written (`Order`, `Quiet`). `PricesKept` is about the finished
callees. `NoBreach` is then the inequality left >= owed, and `NestBalanced` the
entry at the end.

*GrowthInv* says that a static analysis is sound: every path through a written
program stays within bounds that were noted while it was written. None of the four
properties is inductive, and no relation of the present bounds to the present
lengths is: a statement in a loop is run again after others have been written, and
what is noted in the middle of a loop is not true of its later passes. The
invariant has three layers.

* The text. Bodies nest, a close belongs to its opener, a jump to the loop it
  ends, the open bodies are those without an end (`Opened`), and what a statement is
  charged is the product of the trips of the loops around it (`Charged`, `Alone`).
* The history `h` of the bounds, one entry after each statement, and what two
  neighbouring entries have to do with the statement between them: under a loop or
  a condition no bound is ever replaced by a smaller one (`Raising`); inside a loop
  it grows by what the statement adds times its multiplier, or is unknown
  (`Charging`); outside loops it covers what the statement computes (`Covering`);
  a fold and a range were charged what was noted before them (`Priced`), and a slice
  that is ranged over in a nest is as it was then to the end of the nest (`Held`,
  which is what frozen is for). `Narrow` is the tag.
* The run. `frames` are loops around pc (`FramedAt`); `d` counts the passes of each
  loop that are over, which is at most its trips for each time it was entered, and a
  statement was executed once in each pass at most (`PassedAt`, `ExecutionsAt`,
  `WithinAt`). Outside loops a value is within the entry before pc (`KnownAt`);
  inside, within the entry before the outermost loop plus what the statements of
  that loop have added in all passes so far (`GrownAt`, `Reached`). When the loop
  ends, no statement was executed more often than it was charged, so the sum is
  within the entry after the loop.

That sum over the statements of a loop has no closed form; `Reached` says instead
that a sequence g exists which rises by no more than each statement has spent, and
a step shows how to change g. Before the proof TLC checked the invariant with `h`
and `d` as variables, on the bounds of run growth (115,895 states) and on variables
of mixed kinds with nesting 3 (1,525,773 states).

### Assumptions

`PublishAssumption`, `RunBatchAssumption`, `BatchTreeAssumption`,
`BatteriesAssumption`, `SpecsAssumption`, `TruthsAssumption`, `ReportAssumption`,
`GoLeanAssumption`, `GeneratorAssumption`, `GrowthAssumption`: each is named in the module that declares
the constants, says what values they can have, and is evaluated by TLC in each
run. Two are more than typing. `GeneratorAssumption` has what Config.Validate
refuses otherwise (the mandatory part of a program, or of a function, is below its
budget) and that the names of forms are none of the other kinds of callees. `RunBatchAssumption`
has that Judge answers with a verdict for any two outcomes, and that the marks of
an empty slot and of a cut-off outcome are no outcomes.

### Only model-checked

* Liveness (`Recovers`, `JudgingEnds`, the three `Returns`): out of the prover's
  reach.
* The type invariants of the modules where it is not a part of an inductive
  invariant; they are no properties of a run.

Induction over data is used in one form only: over Nat, on a set of numbers
(lemma `NatInduct`), for lengths of sequences and for
counts. Recursive functions are reasoned about by showing first that a function
with the recursion exists. No module that is proved about has a RECURSIVE
operator.

## 6. Not modelled

Symbolic links and permissions; the inside of a value (checkValue is one bit);
what a build leaves running when the program starts; the identity probes and the
pinned environment of the adapter; the identities, oracle records, seeds and the
membership of cases in a report; 32- and 64-bit battery types, whose edges are
those of the narrow ones with another exponent; the text, the types and the
variables of generated programs, and with them scopes, reads and discharges; the
saturation of the budget's arithmetic, at a value far above every budget, where
a cost closes an arm as its exact value would.

With no module, and why:

* *draw source and replay*: a case is a function of its tape, and `Generator` takes
  every tape. runReplay generates again from the recorded draws and compares the
  bytes, and replayBattery the outcomes; that equal arguments give equal results
  holds in every model of a function, and what would break it in the code (ranging
  over a map, a clock) has no counterpart in one.
* *profiles*: allow-lists over a table of construct names, applied and re-derived by
  the same functions; no state and no order of events.
* *generator revision*: one decision on git's answers before anything is written.
* *driver text, strict JSON decoding, command line*: text in, text out.
