# A formal model of gomutant

gomutant mutates Go source, runs the tests that reach each mutant and keeps
what it measured as reviewed findings.  This directory models the parts of it
that run concurrently, persist state, must survive a crash or decide what an
earlier measurement is still worth, as TLA+ modules checked by TLC on small
instances and, for the properties that matter most, proved by TLAPS for every
instance.

`PROJECT.json` maps every definition to the source lines it stands for and
lists the runs, the mutants that show each property can fail, the hazards and
the theorems.

## 1. Inventory of the system

| Component (source) | State it keeps | Operations | What is hard | Correct when |
|---|---|---|---|---|
| **Findings store** (`store.go`, `revise.go`, `exemptions.go`, `findings.go`, `recordfile.go`, `lifecycle.go`) | the findings document, the machine-local overlay, the reviewed exemption record; per open store the entries in force and the verdicts remembered | open, load, `Update`, `Revise`, retarget, prune | a write is several file system steps under one lock; verbs die between them; the exemption record is edited by hand without the lock | one writer; decided on fresh state; no claim lost; the document carries portable rows only |
| **Findings document codec** (`findings.go`, `interned.go`) | fourteen layouts of the document, 4 to 17 | intern, write, parse, expand, validate, upgrade | records share tables under content keys; a field damaged by hand must not read as zero | what is read is what was written, or a refusal |
| **Run ledger and dispositions** (`epilogue.go`, `findings.go`, `internal/cmd/attest.go`) | the snapshot of attestations, what was committed and shed | incremental commit, final merge, attest, re-attest, withdraw | a three-way merge done twice against the same snapshot while reviewers write | a reviewer's disposition is never silently lost and never resurrected |
| **Build selections** (`findings.go`, `run.go` annotateCrossSelection) | one record per symbol and selection, notes on each of what the others say | run, commit, attest, detach, prune | notes written as text, read back at every later write | no selection's verb touches another's record |
| **Campaign pipeline** (`run.go`, `schedule.go`, `execute.go`, `prepare.go`) | prepared items, windows, proof units and their reference counts, the held window | resolve, view, prove, enumerate, probe, gather, execute, aggregate, commit | preparation runs ahead of execution in another goroutine; errors, drift and the soft stop cut in anywhere | every target is committed once or reported unfinished; no work for a released unit; the run ends |
| **Kill confirmation** (`schedule.go`) | a gate per target, the window's flip, skipped and queued kills | confirm, skip, drain | evidence found late takes earlier sampling back | a flip leaves nothing sampled; nothing is confirmed twice |
| **Freshness, reuse and extension** (`freshness.go`, `execute.go`, `shaped.go`, `banked.go`) | stored evidence, its digests and what the processes read | serve, re-measure, extend, measure | the tree is edited under the campaign; a splice joins verdicts of different days | what is served is still true of the tree |
| **Reconciliation and provenance** (`reconcile.go`, `driftabort.go`, `provenance.go`) | the measured tree's identity, the commit a record names | re-observe, splice, adopt, stamp | edits and commits under a running campaign | nothing measured on one tree is stored as of another |
| **Baseline bank and cache prune** (`bank.go`, `cacheprune.go`) | a file of measured baselines; the overlay's entries as files | serve, deposit, persist, prune | two campaigns of one tree; a lock that may be done without | no campaign's deposit is lost to another's; a prune removes what it judged |
| **Campaign lock, CLI interrupt** (`campaignlock_unix.go`, `internal/cmd/interrupt.go`, `internal/cmd/run.go`) | an advisory lock file; the interrupt's two stages and its deadline | try, release, fire, arm, disarm | a second signal racing the deadline and the final merge | the first signal drains, the second stops; nothing of a drain reaches the final merge |
| **MCP server residency** (`internal/mcpserver`) | the resident tree, its fingerprint, the idle timer, the heap's return | calls, idle release, load, end of the serve | timer callbacks against calls; edits during a load | an idle server lets its tree go and returns its heap; a hit is true of the disk |
| **Ephemeral probes** (`ephemeral.go`, `ephemeralattest.go`) | the committed record of attested probes | probe, attest, prune, retarget | a probe takes minutes between its looks at the record | one row per mutant; nothing replaced unasked |
| **Mutation engine** (`internal/engine`) | compiled schemas, linked sets, reach memos, test processes | run, classify, compile once, derive an oracle, narrow it | cancellation and timers against a process's own exit; memos shared by callers whose contexts die apart | a verdict is of the process that was scored; an oracle is whole |
| **Faces** (`internal/cmd`, `internal/mcpserver/server.go`) | none of their own | parse, run, render | a run from a terminal beside one from a server | one campaign at a time |
| **Helpers** (`internal/gitref`, `internal/gitcmd`, `internal/contextio`) | none | git, cancellable reads | — | — |

How they meet: a face starts a verb (`Verb`), which takes the campaign lock,
loads the tree (`Resident` in a server) and runs a campaign (`Campaign`).  The
campaign prepares its targets (`Preparation`), asking of each prior record what
it is still worth (`Serving`), gathers them in windows, executes a window
(`Window`) whose candidates are oracle executions (`Oracle`) of an oracle that
was derived (`Derive`) and narrowed (`Reach`), and confirms its kills
(`Confirm`).  Each target's record takes up its dispositions (`Ledger`), is
noted beside its siblings (`Selections`), laid out in bytes (`Document`) and
written (`Store`); its baselines go to the bank (`Cache`).  The read-only tools
judge the stored records together (`Inspection`).  Probes
(`Ephemeral`) use the same oracle and a record of their own.

## 2. Plan

In order of what would cost a user most if it went wrong.

| Step | Modules | About | State |
|---|---|---|---|
| 1 | `Confirm`, `ConfirmProofs` | the serial confirmation walk | done |
| 2 | `Register`, `Store`, `StoreProofs` | the document, its overlay and the exemption record, under crashes; `Store` implements `Register` | done |
| 3 | `Ledger` | dispositions through a run's two merges; proofs in `RecordsProofs` | done |
| 4 | `Campaign`, `CampaignProofs` | preparation, gathering, execution and folding, target by target | done |
| 5 | `Window` | one window's dispatch, pool, ticks and drain; proofs in `StagesProofs` | done |
| 6 | `Preparation`, `Cache`, `StagesProofs` | how a target is prepared; the bank and the prune | done |
| 7 | `Serving` | what a campaign reuses of a record, and what it stores; proofs in `RecordsProofs` | done |
| 8 | `Selections`, `Document`, `DocumentProofs` | siblings under other selections (proofs in `RecordsProofs`); the bytes | done |
| 9 | `Resident`, `Verb`, `Faces`, `FacesProofs` | the server's tree, the interrupt, the campaign lock, composed | done |
| 10 | `Oracle`, `Ephemeral`, `Derive`, `Reach`, `Engine`, `EngineProofs` | executions, probes and their record, the oracle's derivation and narrowing | done |
| 11 | `Stages`, `Records`, `RecordsProofs` | what happens inside a stage of a campaign; what a record meets | done |
| 12 | `Inspection` | the batched inspection behind the read-only tools (`freshness.go` inspectFindings); proofs in `RecordsProofs` | done |
| 13 | `Overlay` | entries not at their record's own path: parking, re-homing, sidelined legacy entries, readers without the lock | open |
| 14 | proofs | every safety property of the passing runs for every instance | done |
| 15 | composition | `Campaign`'s execution step refined by `Window` | open |

`Register` is the abstract specification of the store.  `Reach` and `Window`
carry reference definitions of their own: what a narrowed oracle ought to be
(`MayRun`, `Narrowed`) and what a committed prefix ought to hold.

## 3. Modules and runs

A run is module, configuration and properties; each property has a mutant, a
plausible bug in one mapped definition under which the run finds it violated.
Modules that share a run are joined by a module that only composes them
(`Stages`, `Records`, `Engine`, `Faces`).  `Faces` composes for good: an MCP
run is a call of the server and a verb at once.  The others explore their parts
side by side, each from every state its neighbours may leave, so a run's states
are the sum of its parts' and the properties of a part are about that part.

| Run | Modules | Instance | Distinct states |
|---|---|---|---|
| `StoreCrash` | `Store`, `Register` | 2 keys, 2 verbs that commit or prune and may die, 2 records, 1 acceptance | 1,747,256 |
| `StoreLifecycle` | `Store` | 2 keys, 1 verb that makes any kind of write, may die and come back, 1 hand edit that accepts, revokes or tears | 2,307,956 |
| `StoreRevoked` | `Store` | 2 keys, 2 verbs, 2 hand edits with revocations and torn records, no crash | 4,218,928 |
| `Campaign` | `Campaign` | 4 targets in 2 units, 3 windows | 946,153 |
| `Stages` | `Window`, `Confirm`, `Preparation`, `Cache` | below | 1,103,746 |
| `Records` | `Ledger`, `Serving`, `Selections`, `Document`, `Inspection` | below | 1,144,205 |
| `Faces` | `Resident`, `Verb` | 7 casts | 103,044 |
| `Engine` | `Oracle`, `Ephemeral`, `Derive`, `Reach` | 6 casts | 155,538 |
| `StoreLost`, `CacheLost`, `EphemeralLost`, `SelectionsLost` | | as their siblings | violated: section 4 |

Deadlock is never checked: every instance bounds what its actors may do, and
two states of rest are the program's own (a finished campaign; an exemption
record left torn by hand, which refuses every open).  That things do end, and
end in the right place, is what `RunEnds`, `StagesEnd`, `FacesEnd` and
`ProbesEnd` say.

### Store, Register

A write is `Acquire, Refresh, Decide*, Prepare, WriteDocument, RemoveEntry*,
InstallEntry*, Return`, each an action, with `Die` between any two and hand
edits of the exemption record at any time.  A record is its version (which
write made it) and its class, the three kinds the portable line tells apart.
`Register` is what the store promises of a key: a register whose writers may
die.  `KeysAreRegisters` is the refinement, with the merged view for the
register's value and two ghosts, `landed` and `tried`, for its history.  A third
ghost, `shown`, is what the exemption file has held since the holder of the
document lock took it: what a write judged by is compared with the file itself,
not with the entries the write says it used.

A verb keeps its store open over any number of measuring writes, with the
entries it loaded (`store.entries`) and what `route` remembers of each key
(`store.judged`: the content it judged and the verdict).  `Refreshed` re-reads a
file that moved and forgets the verdicts; `Prepare` writes the file and keeps
them, as `rewriteExemptions` does, on the premise its comment states: a record
verb's store ends with its one write (`Return`).

* `KeysAreRegisters` (`StoreCrash`): whatever dies where, every key goes from
  one landed or attempted value to another.
* `CommittedSurvives` (`StoreLifecycle`) has two halves.  `KeysSurvive`: under a
  key whose possible records (`Known`: what its last returned write left and
  what later ones offered) need no exemption to stand, a reader finds one of
  them, never something older, whatever is revoked, torn or moved.  Nothing is
  one of them where a prune or a retarget offered it, so this half alone would
  let a record get lost on the way from one key to another.  `PortableInSight`
  is about that way: at each step of a prune or a retarget every portable
  record it keeps is found under some key.  It says nothing of records that are
  not portable, and those the code does lose (section 4).
* `DocumentPortable` (`StoreRevoked`): when a measuring write's document lands,
  every row in it is portable under entries the exemption file itself held
  while the write had its lock, unless the file was torn in that time.  A row
  whose exemption was revoked does not outlive the next write, however long ago
  the store was opened and the row judged.  A write that does not re-read the
  file, one that re-reads it and keeps its verdicts, and one that keeps standing
  rows unjudged, each violate it.
* `DocumentNeverRegresses` (`StoreRevoked`): no row gives way to an older one.
  No verb dies here; section 4 has what a crash may add to it.

Two keys are needed for one write to move another key's row (a revoked or a
stale one), two verbs for a decision to be stale, two attempts at the lock for
a wait that is not yet a refusal, two records and two hand edits for a verdict
to be remembered and then stale.  Keys and verbs are interchangeable, so their
permutations are a symmetry.  `StoreCrash` has no revocation, because of
`StoreLost`: a revoked row is dropped from the document ahead of its install in
the overlay, so for a step its key holds nothing.  `StoreRevoked` has neither a
crash nor a retarget: either may leave an overlay entry above a newer row, which
a later write promotes over it.  Retargets have a run of their own, with the
crashes and the revocations: a retarget moves a record onto a key that had
another, which is no register operation of either key, and what every reader
may count on under all of these is `CommittedSurvives`.

`StoreCrash` commits and prunes only, to stay small; the other kinds of write
are in `StoreLifecycle` and `StoreRevoked`, and in the theorems, which have
them all.

Abstractions: every overlay entry is at its record's own path; two records are
the same content when they are of the same write; the memo keeps the content it
judged and not its reasons.

### Campaign

Three goroutines of one `Run`:

| In the code | In the module |
|---|---|
| the preparation goroutine, `deliverPrepared` and `prepareTarget` | `prep`, `next`; `PassSettled`, `PrepareSkips`, `PrepareRefuses`, `PrepareServes`, `PrepareProves`, `PrepareEmits`, and its ends |
| `items`, `windowCh`, the ready pool, the window being gathered | places of a target: `"items"`, `"sent"`, `"pool"`, `"gathering"` |
| the gatherer, `gatherWindow` | `GatherTake`, `GatherSend`, `GatherEnds` |
| the driver loop | `driver`; `TopReceive` and `TopPasses` for the blocking receive, `Look*` for the two ways of collecting what is ready, `Check*` for the early error and the pick |
| `held`, `aggregateHeld`, `aggregateWindow` | places `"measured"`, `"cut"`, `"void"`; `Fold*` per target, `then` for what follows |
| `executeWindow` | `ExecuteStarts` and one of `ExecuteAll`, `ExecuteDrains`, `ExecuteFails` |
| `targetDone`, `unitOf`, `remaining` | `TargetDone`, `Unit`, `remaining`, `done` |
| the deferred join | `Leave`, `Joined`, `Returns` |

Abstractions: both channels are first in, first out and filled in target order,
so a channel is the set of targets in it and arrival order is window number.
What decides between skipping, serving and measuring is any choice
(`Preparation` has the decisions); targets settled while resolving are any
subset in `Init`.  A soft stop changes nothing unless a dispatch reads it, so
it fires while a window starts or executes.  A target whose commit failed, or
whose guidance failed after its commit, stays where it was and the run ends as
failed.

The instance: Ceiling 2, execution budget 3.  If all four targets are emitted
they make three windows: one closed by the ceiling, one by the execution
budget, one by the end of preparation; one is unpriced and the last is the
cheapest, so the pick differs from arrival order and the race at the end of
preparation matters.  Each unit has targets in two windows.  `RunEnds` assumes
weak fairness of the three goroutines together: the Go scheduler runs something
while anything can run; nothing is assumed of which goroutine, nor of the
caller's interrupts.  It suffices because no goroutine can run forever.

`ProofsCounted` (a unit's counter is its unfinished targets, no proof is used
after its release, and none is kept once all are done), `HeldWindowSafe`,
`NeverTruncated`, `WindowsFixed` (windows are what the reference partition of
the emitted targets says, whatever the speeds) and `RunEnds`.

### Stages: Window, Confirm, Preparation, Cache

**Window** is one window, candidate by candidate: the dispatch loop with its
two looks at the soft stop, the unbuffered channel (`Offer` is the rendezvous),
the workers' places between the receive and the tick, `tickMu` (`ticking`), the
drain's prefix and truncation (`Keeps`) and the boundary true-up
(`AdvanceDone`).  The select's free choice among ready cases is the choice
among `Offer`, `OfferStops` and `OfferQuits`.  `late` is a ghost that counts
admissions after a stop.  Five candidates of three works, the second a serve of
which one candidate is not re-executed, three workers: a break can fall before,
inside and after the indivisible work and at a served candidate; three workers
let one fail while one is counting and one is idle.  Properties:
`NothingPartial`, `AdmissionStops`.

**Confirm** follows `confirmWindowKills` line by line: `pos` is the walk,
`gates` the map `gateFor` fills, `queue` and `skipped` the two slices.  Five
kills of three targets, streak 1, stride 3, every outcome of every serial
re-run: long enough for an opening streak, a sampled stretch, a sample, a flip
and a drain in one window, and for a drain to reach targets already walked.
Properties: `ConfirmsAll` (after a window's flip, and for a volatile target,
nothing stays sampled), `SamplingSound`.

**Preparation** is the walk over the targets: `Resolves*`, `Views`, then per
target the serve, measure and extend decisions, its unit's proofs, enumeration,
and its oracle groups' baselines (`GroupKnown`, `GroupServed`, `GroupPasses`,
`GroupFails`), with what was handed over executing and committing beside it.
Every step that can fail does, at most twice (`MaxFaults`): faults of a view or
a proof hit a symbol or a whole group.  Three lists of targets have between
them every kind of prior record, a shape, unsound targets and shared and split
oracles.  An unsound target is one whose shape is invalid or that has no
oracle.  A forced run is one whose priors are none; work handed over may be
lost only when the run is dead.  A deposit whose pins were not known when its
baseline was probed waits for a commit that has evidence rows of its group; a
commit without any leaves it waiting, for a sibling's or for the end of the run
(`Commits`).  Properties: `RowsAreTrue`, `BaselinesOnce` (a baseline is probed
once for all the targets that share it, and nothing is committed on one that
failed, whichever target found out).

**Cache** is the bank's file and an overlay entry under two campaigns (of
different documents, or the campaign lock would serialize them) and a prune.
A campaign opens once and deposits at most twice; its lock's wait is bounded,
after which it writes bare; the entries are three for a ceiling of two, so that
eviction happens.  The overlay is explored with the bank at rest.  The prune
takes the campaign lock of the default document only where its file exists.
Property: `BankOnlyAges`: while every writer gets the file's lock, a banked
baseline leaves the file only at the ceiling for younger ones, or by a prune.
A campaign whose write failed keeps what it deposited to write it again, and by
then the file may hold a younger measurement of the same group, which the
older one replaces and may then be evicted by: so a group the writer itself
deposited ages from its own measurement.  The file starts empty or full.

`StagesEnd` assumes weak fairness of the window's steps and of the confirmation
walk: an execution ends within its budget, a cancelled one is reaped, every
serial re-run has an oracle budget.

`Campaign`'s `ExecuteAll`, `ExecuteDrains` and `ExecuteFails` state by hand what
`Window`'s `Settle`, `Refuse` and `Return` come to per work; showing that is
step 15 of the plan.

### Records: Ledger, Serving, Selections, Document, Inspection

**Ledger** is one record, a map over its mutants, through a run: read at the
start (`Prepare`), carried over by the measurement (`Measure`), merged when its
target is done (`CommitWrite`) and merged again at the end (`FinishWrite`), both
times against the dispositions read at the start, with reviewers attesting,
re-attesting and withdrawing in between.  A write of the document is one step
here.  A mutant is told of at most once per run, so `StripsAccounted` counts
mutants, not events.  Two mutants, two reasons, two sites, two runs, two
reviewer acts.  The run starts from every state of dispositions an earlier
history may leave, one for each renaming of mutants, reasons and sites
(`Representative`; nothing in the module or its properties tells two names
apart), which is why two acts suffice; the four invariants `SitesAgree`,
`WithdrawalStands`, `ReviewerWins`, `StripsAccounted` are proved for any number.

**Serving** is one target's record across up to three campaigns.  A tree is
versions: of the code, of each input a test process may read, of the commit
that names them; an edit makes a new one.  A campaign fixes its view of the
code, decides (`ServesWhole`, `Splices`, `Extends`, `Remeasures`), takes or
probes a baseline, executes (`Verdicts`, one candidate at a time), drains, joins
what it measured with what it kept, re-observes (`Validates`), looks at git and
stores.  The first candidate needs the longer timeout and the second the larger
memory ceiling, so budgets and ceilings given, derived, raised and lowered
change verdicts; each setup of `MCSetups` is a short script of requests with
the edits and commits it meets.  `truth` is a ghost: for each verdict, the tree
and the bounds it was taken under.

* `OneTree`: what a stored record or the bank lets a later campaign reuse was
  all taken on the one tree its evidence names.
* `RecordStands`: a verdict kept from an earlier campaign is what this one's
  bounds would give (`KeptVerdictsStand`), and tallies and rows are the verdicts,
  after any sequence of splices and extensions (`CountsReconcile`).
* `CleanNamesItsCommit`: a record stamped clean names a commit that holds what
  it was measured on, as long as nobody edits between its validation and the
  naming.

Versions never come back, so an undo is out of this model.  A merge conflict
keeps the first reader and is unverifiable; a refused, drifted, failed or
cancelled baseline is `GivesUp`; the operator set, the policy and the regime
pins are constant; the match of evidence is one step and looks at the disk
again (`Unmoved`); the re-building of a producer's view after a fault is left
out.

**Selections** is one symbol's records under two build selections: runs work
from the records they read at their start, acts and retirements land in
between, every write renews the notes.  `SelectionsApart`: a step under one
selection leaves every other's body and dispositions alone.  Dispositions ride
only an unmoved body here; which ones a merge keeps is `Ledger`'s.

**Document** writes one of six documents in one of the layouts 4 to 17, with
content keys that may coincide, changes one place by hand or none, and reads it.
Between them the documents share and split manifests, evidence rows and
ledgers, and hold a budgeted, a shaped, an annotated and a withdrawn record and
one symbol under two selections; two hold no record, one of them bounds.
`ReadsBack`: an undamaged document reads back as what was measured, whichever
layout it was written in; a write is refused only where two contents would
share a key.  `DamageShows`: a damaged one is refused or reads as it was.
Damage is one place; a reference is redirected only to another subject's row;
the fields no count depends on (explicit, dirty, budget) are exempt, and so is
another version's label on a document without a record (section 4); a digest is
taken to tell contents apart.  A manifest is a set, empty when there is none,
and its stand-in the set of its reference.  Lists of mutants are sets, so a
repeated entry, which the code refuses, is not there; the order of tables is
abstract.  What is measured is a document a reader accepts
(`DocumentsAssumption`): an export parses what it has laid out and refuses to
write it otherwise (`findings.go:1180`).

**Inspection** is one call of `inspectFindings`: `Admits` runs each record's
pre-checks (`Admission`), `BuildsViews` views the subjects of the undecided
ones together, once per package-process posture, `Judges` judges each record
from the shared views of its own posture and from a strict set of its own where
they lack a subject (`Missing`, `Outcome`).  A module's view is tried whole and
then package by package (`Served`); an engine or a build may fail once for no
reason of the tree's (`Builds`, `Unlucky`), a walk of the tree too.  A reader
takes all or nothing, or every outcome; the closure signpost (`Signposts`) is
of the second kind.  Up to two records of a pool of eleven, over three trees
with a package that does not load, a subject without a view or a module without
an engine: each pair of records shares subjects in one or both postures.
`BatchAgrees`: what the pass tells of a record is what that record would be told
alone, whatever shares its views; a mishap of its own costs it its verdict or
the names of its edited tests, and no other's; who takes all or nothing has no
error in what is taken.  The tree rests during a pass; a view's verdict on a row
is part of the record (`rows`), and a row read under the other posture says
nothing; a recorded oracle repeats no test; which records a changed test file
reaches is not decided here.

### Faces: Resident, Verb

**Resident** is what the server keeps: a call keys the tree file by file, hits
or misses, loads file by file under the server's lock, keys again and caches
only if nothing moved; the idle timer fires at any time; the heap's return
begins again when a last call ended during it.  **Verb** is a run from its
preparation to its outcome: the campaign lock's one attempt, windows, the
interrupt's two stages and deadline, arming and disarming, the final merge, the
render.  The document is the number of campaign writes it took.

Casts: two calls and an editor; one tool's calls under changing selections; an
MCP run disturbed; a command-line run disturbed; an MCP run beside a
command-line run; an MCP run beside a call; a call and the end of the server.
Two files are needed for a fingerprint or a load to see half an edit; two
signals for the second stage; one window for a drain.

* `HitsAreTrue`: a hit is a tree the disk held, whole, at some moment after the
  call began to look.  An edit undone within one load is left out
  (`Undoing = "between"`): there it is false (section 4).
* `HeapReturnStands`, `IdleDropsTree`: the last end's heap return is never
  forgotten; a server left idle lets its tree go.
* `MergeUntimed`: nothing of a drain reaches the final merge.  `disarm` takes
  the interrupt's lock twice (`Disarms`: the hook, then the timer), and a
  SIGTERM may be fired before, between or after: over the merge no deadline
  runs or begins to cancel, and a signal that comes then cancels hard.  With the
  halves in the other order, a signal between them leaves a deadline nobody
  stops.  A timer that had begun to cancel when it was stopped is past recall
  (section 4).
* `FacesEnd`: calls end, and a SIGTERM, or a second signal, ends a run though
  no oracle ever does.

Fairness: loads, call ends, idle timers, the watcher, the deadline and the
verb's own steps go on; nothing is assumed of an oracle's end, a signal, a kill
or a cancellation.  The server's lock is held over a load, which is finite, so
weak fairness of each call is enough.

### Engine: Oracle, Ephemeral, Derive, Reach

**Oracle**: a seat (a campaign's worker or a probe) asks for a baseline or a run
against a mutant; the process ends by itself or is killed by its bound or its
caller; what it did is classified afterwards, while both may still expire.
Seats of one schema share a binary, compiled by whoever comes first under its
own context (`Finds`, `Compiles`, `WaitsForBuilt`, `Drops`).

**Ephemeral**: a probe from its preparation, through a baseline, its repetition
and its runs, to an attestation written under the record's lock, beside other
attests, hand edits, prunes and retargets.  Two spellings of one edit share a
digest under one toolchain and not under the next, and the record starts with a
row of either version, both or none: the cases in which a second row of one
mutant could be born.

**Derive**: callers derive one package's oracle through three memos, none of
whose locks is held over the work, and may be cancelled anywhere; the tests of
one of two packages do not build; one mishap.  **Reach**: the narrowing of an
oracle to the tests that reach a symbol, a worklist over the build's uses,
interface methods, initializers and reflection, asked about twice in any order;
two small builds hold a foreign runner that calls back through an interface, a
package variable's initializer, a test variant that declares a symbol again, a
variable that holds anything, a reflective call, an init target and an
unresolved symbol.

* `SchemaCompiledOnce`: a key is compiled for good at most once, and an entry a
  cancellation cut short does not outlive the calls that met it.
* `VerdictsAreEarned`: a verdict is of the process that was scored.
* `StandingIsOne`, `NoSilentReplace`: one row per mutant; an attestation that
  does not ask for the replacement takes no row away.
* `DerivedIsWhole`: an answered oracle holds every package that links the
  target or names the ones it could not ask; a caller is told of its own
  cancellation only.
* `OracleIsWhatReaches`: a narrowed oracle is what the reference definition
  says, whatever was asked before and in whatever order maps are walked.
* `ProbesEnd`: every call returns and every probe ends.  Fairness: a killed
  process is reaped, a bound fires, a compile ends (it has no bound of its own,
  and a cancelled waiter still waits for another's), probes go on; a hung test
  is not assumed to end.

Each cast has a limit of its own that keeps the sum small: bounds fire outside
a process only in the "world" casts, a probe runs its mutant once in the
"record" cast and twice elsewhere, one outside act on the record.

## 4. Findings

Places where a document or comment says one thing and the code does another;
each has a run whose counterexample shows it.

* `StoreLost` (`store.go:1271`): a write that drops a revoked row from the
  document installs it in the overlay afterwards; a crash between the two leaves
  it in neither, though `store.go:1203` says a crash never loses a record.
* `EphemeralLost` (`ephemeralattest.go:355`): a prune or a retarget of the
  attestation record decides on what it read before taking the record's lock,
  and writes over a row attested meanwhile, though `docs/specs/results.md:568`
  says no row is lost to a concurrent attest.
* `CacheLost` (`cacheprune.go:292`): a cache prune removes whatever is at the
  path of an overlay entry it judged, without the document's lock: a disposition
  attested in between goes, though `docs/guidance.md:182` says it stays.
* `SelectionsLost` (`findings.go:3289`): an attestation whose reasoning has two
  lines is refused when its symbol has a record under another selection: the
  sibling notes it in a form that is read back line by line.

Met on the way and not a run.  Of the store and its document:

* an overlay entry a crash left behind is older than the document's row and yet
  wins; an exemption accepted later lets the next write promote it over the
  newer row, and so does, over the record that moved there, a retarget onto its
  key;
* a torn exemption record defers the pending re-key without failing the write,
  and refuses only a subject rewrite (`store.go:435`);
* a retarget of a record that only the overlay holds removes its entry under the
  old key before it installs it under the new one, and looks at its context
  before each (`revise.go:284-304`): one that dies or is cancelled between the
  two leaves the record in neither layer, with any disposition it carried
  (`PortableInSight` is about portable records for this reason);
* a retarget writes the exemption record before the document (`findings.go:3149`);
  a crash between the two leaves the entries under the new key and the record
  under the old one.  A second retarget of the same record then carries it on
  uncovered, and the next measuring write demotes it as it would a revoked one;
* a tabled row without `oracleExplicit`, `dirty` or a budget reads as false or
  zero: `validateInternedFindingRowJSON` (`findings.go:1766`) asks for no
  required field, while `docs/specs/results.md:701` says a missing field is
  refused.  A lone kill dropped from a row is taken for an old record, and a
  budget lost where it covers every candidate is not noticed; a tabled document
  without records, relabelled to an inline version, drops its bounds;
* `docs/specs/results.md:678` says the current version is 16; the code writes 17;
* `AnnotateSelectionVerdicts` skips a symbol with one record left
  (`findings.go:2668`), so the record keeps the note of a sibling that is gone.

Of a run:

* the final merge sheds a disposition given again, with the same reason at the
  same site, after the run's own commit stripped it (`findings.go:2938`, against
  `findings.go:2791` and `docs/specs/results.md:1008`);
* a write that landed and returns an error drops the sheds it collected
  (`StripsAccounted` leaves those out), and the edits of the overlay look at the
  context after the replacement (`revise.go:283`, against
  `docs/specs/execution.md:1083`);
* the evidence check of a budget extension fails the campaign, where that of a
  serve refuses the target (`docs/specs/execution.md:470`);
* a shaped target's cached serve is not committed incrementally
  (`run.go:1871`), while `docs/specs/execution.md:1049` says a cached serve is
  committed once its pins hold; the final merge writes it;
* the document is read before the campaign lock is taken (`prepare.go:208`);
* the closure signpost takes every stale reason that begins with "oracle" for
  one the changed tests caused (`gomutant.go:719`): a record without the
  execution policy, whose reason is "oracle execution policy is missing", is
  named with them;
* `bank.go` says of a baseline's age that it is diagnostic only; at the ceiling
  the oldest entries are evicted.  A pruned entry comes back from the memory of
  a running campaign; only baselines are bounded, coverage entries never.

Of the faces and the engine:

* a process that failed by itself while its caller was being cancelled is
  discarded (`internal/engine/run.go:1732`), though the comment above says what
  exited by itself is scored;
* a deadline that fires as disarm stops it can cancel the final merge
  (`interrupt.go:29`), and a signal caught before disarm is swallowed by it;
* an edit and its undo inside one load are served as the old tree's content,
  though `treecache.go` says they never are;
* an idle callback that fired before a call began drops the tree as soon as
  that call ends;
* a transient failure of one caller's question can overwrite another's linked
  set with none, and a transient verification fault is remembered for as long
  as the tree is (`internal/engine/buildset.go`): never a wrong set, but a
  poorer one.

## 5. Proofs

Every theorem is for all values of the constants under the modules' named
assumptions (`CampaignAssumption`, `StoreAssumption` and so on), which say what
kind of values they are and, of what is given as data, that it is closed: a
loaded build names only its own objects (`ReachAssumption`), a cache's walk of
its files has an order (`ResidentAssumption`).  TLC evaluates each on the runs'
instances.

| Module | Theorems | Inductive invariant, and why it is needed |
|---|---|---|
| `CampaignProofs` | `TypeCorrect`, `ProofsAreCounted`, `GatherHasRoom`, `HeldIsSafe`, `NoneLost`, `PicksCheapest`, `QuietOnceReturned`, `WindowsAreFixed` | `Typed`: a unit's counter is the number of its targets without a terminal place, so a target in the pipeline keeps it above zero; `Flow`: what each closed channel and each place of the driver says of the places before it, up to: past the loop every place but the terminal and the held ones is empty; `Windowed`: targets are gathered in their order, nobody joined a full window, and every window sent is full but one that the end of preparation closed |
| `ConfirmProofs` | `TypeCorrect`, `WalkConfirmsAll`, `SamplingIsSound` | `IInv`: the property speaks of the end of the walk, so the invariant follows each kill (confirmed, queued or skipped: `Placed`), knows that gates exist for the walked targets, and that after the first flip nothing is skipped (`FlipArms`), which needs that before it only the newest target's kills are being drained (`DrainsNewest`).  `SampInv`: no kill waits twice, a gate's streak is that many reproductions before the walk, what is skipped was skipped on one, and since a target's last sample its gate has counted the stride (`Dense`) |
| `StagesProofs` (`Window`) | `WindowTypeCorrect`, `NoPartialWindow`, `StopAdmitsOne`, `TicksNeverFall`, `BoundaryConverges` | `WInv`: every candidate that executes and that the walk passed is scored or has one worker, unless the pool is done (`Owned`), so after the join what lies before the break is scored; `tickMu`'s holder has the last count (`Ticking`).  `CInv` adds the tally of the counted |
| `StagesProofs` (`Preparation`, `Cache`) | `StreamTrue`, `BaselinesSpent`, `DepositsAge` | `WalkInv`: one row per walked target, each with what its target's fate and its groups' baselines have come to; `PrepInv` adds that a group is probed only while nothing is known of it (`Probed`); `BankInv`: between its reading of the file and its write, a writer's merge holds what the file holds or something younger |
| `StoreProofs` | `TypeCorrect`, `SingleWriter`, `FreshDecisions`, `PortableDocument`, `ClaimsSurvive`, `StoreIsRegisters`, `DocumentAges` | `IInv`: one verb inside a write at a time, so the layers cannot move under a decided plan; a store's remembered verdicts are those of the entries it loaded (`TruthfulStores`); `DecidedSound` ties a plan's rows to the layers, to the key's portability and to the ghosts.  `Witnessed`: from its refresh on, a write's entries are among those the file has shown under its lock, so what it renames into place is portable under them.  `Sighted`: what a half done prune or retarget keeps of portable records is under one key or the other.  `Writing`: what a decided, and a half done, write leaves if it dies now.  `Standing`: every document row is covered by the exemption record.  `Aged`: what a write renames into place is no older than what was there and no younger than what it makes visible |
| `RecordsProofs` (`Ledger`) | `LedgerTypeCorrect`, `DispositionsSitOnSurvivors`, `WithdrawalsStand`, `ReviewersWin`, `StripsTold` | `IInv`: what a fresh record carries comes from the snapshot (`Carry`), what survivors the document reports before and after the first merge (`Reported`), where an act was made (`ActSite`), and that a withdrawal is remembered for as long as a carry could undo it (`WithdrawalKept`) |
| `RecordsProofs` (`Selections`) | `SelectionsTypeCorrect`, `StandApart` | the typing of the rows and of the run's reading: noting changes nothing measured (`AnnotatedKeeps`), and each step changes one record (`OneChanges`) |
| `RecordsProofs` (`Inspection`) | `ToldAsAlone` | `InspectionInv`: how far the pass is says which records are admitted and told; the shared views hold only what can be viewed alone (`ViewsHold`), and what can is viewed when nothing built beside it is in the way (`ServedViewable`, `ViewableServed`), so that one record's outcome is what it is told alone (`OutcomeAgrees`) |
| `RecordsProofs` (`Serving`) | `ReusedIsOneTree`, `KeptRecordsStand`, `CleanIsCommitted` | `ServingInv`: of each place of a campaign, which verdicts are the prior record's and which this one's (`Chosen`, `Drafted`), that what was kept was matched against the view the campaign holds (`Measuring`), that what is measured under it is pinned at its versions, and that a store follows a re-observation after which nothing it names moved (`Stored`, `Quietly`) |
| `DocumentProofs` | `DocumentInvariant`, `ReadsBackAlways`, `DamageShowsAlways` | `DocInv`: the file is a layout of the truth or a layout with one change by hand (`WrittenHolds`), and whatever is held is a document a reader accepts.  What a layout is worth, `Layout`, is said once for the three shapes: which entries it has, under which keys, and what its rows name of them.  Every such layout is judged as the truth is and reads as the truth (`LayoutReads`), each of the writers makes one (`LabelledLays`, `PositionsLay`, `InlineLays`), and each kind of damage is refused or rebuilds the same records (`RowsDamaged`, `DocumentDamaged`, `EntriesDamaged`) |
| `FacesProofs` | `CacheIsTrue`, `HeapReturnIsKept`, `FinalMergeIsUntimed` | `LoadInv`: the disk's history since each call began to look; what a fingerprint or a load has read so far is, file by file, of some moment in it, and two fingerprints that agree fix the moment.  `HeapInv`: the calls in flight are counted.  `MergeInv`: from disarm's first half on there is no hook, so no signal arms the timer its second half stops |
| `EngineProofs` | `DerivedWhole`, `CompiledOnce`, `VerdictsEarned`, `StandingOne`, `NoneReplaced`, `NarrowedIsReached` | `DeriveInv`: every memo holds a whole answer or names what it misses, and so does every caller between its reads; `CacheInv`: one seat compiles an entry and an entry cut short is held by those who met it only; `ReviewInv`; `ReachInv`: a memoized closure is the least closed set of the roots in its key, and a walk under way holds nothing outside it |

`NoPartialWindow`, `NoneLost` and `ReusedIsOneTree` are the ones a reader should
start from: each follows a datum through concurrent steps to the point where it
is trusted.

Three theorems have a hypothesis on what may happen, each of which TLC shows to
be needed.  `CacheIsTrue` assumes that no edit is undone within one load
(section 4 has the case).  `StoreIsRegisters` assumes `Calm`: no exemption
is taken back, and a retarget does not die.  Without it a row loses its
exemption, is dropped from the document ahead of its install in the overlay,
and its key shows nothing for a step (`StoreLost`).  `DocumentAges` assumes
`Steady`: no verb dies in a write and no record is moved.  A crash between the
document and the overlay leaves an entry above a newer row, and a retarget
brings a record under another's entry; a later write promotes either.
`ClaimsSurvive`, which is what a reader of the store is promised under all of
it, has no hypothesis.

`WindowsAreFixed` is about a recursive definition, the reference partition, and
is proved by induction over a set of numbers (`AllBelow`) instead of over a
predicate: the recursion's function exists (`PartingExists`), and the targets up
to which it has reached the windows gathered are all of them (`JoinReaches`).

The runs check what thirty-five of these theorems state, on their instances.
`SingleWriter`, `FreshDecisions`, `GatherHasRoom`, `PicksCheapest`,
`QuietOnceReturned`, `TicksNeverFall`, `BoundaryConverges`, `DocumentInvariant`
and the six type invariants have only their proofs. A theorem is about its
module's own specification; the composing modules take that specification's
steps, one module at a time, and leave its variables alone otherwise. Those of
`FacesProofs` and `EngineProofs` are about the compositions.

## 6. Model-checked only

* Liveness (`RunEnds`, `StagesEnd`, `FacesEnd`, `IdleDropsTree`, `ProbesEnd`):
  the prover has no temporal reasoning under fairness.
* What a sum over a fold comes to.  `ReadsBackAlways` and `DamageShowsAlways`
  need no sum's value: a reader's sums (`Total`) are the same before and after,
  so a changed count contradicts one of them, or its operator's own identity.
  That what a run measured adds up needs an induction over its mutants, which
  is out of the prover's reach: it is in `DocumentsAssumption`, which TLC
  evaluates on the measured documents of the instance.

## 7. Not modelled

* *Store*: entries not at their record's own path, sidelined legacy entries,
  coverage bounds, readers without the lock (they
  write nothing, and a torn reading is a reading).
* *Campaign*: pauses of staged runs, the ordering of oracle groups, the wording
  of oracle guidance, the probe gate that keeps preparation's probes out of a
  confirmation's isolation (a mutual exclusion of test processes, of which the
  models keep no state); the library's runs without a bank.
* *Cache*: coverage entries and memos, files of the former version, the prune's
  preview.
* *Freshness*: what a view says of a row (gofresh's judgment and the runtime
  manifests re-read for it), the observed proofs captured beside a view, edits
  while the read-only tools inspect.  *Reconciliation*: git's
  plumbing, the rendering of drift, a producer's view rebuilt after a fault.
* *Ledger*: tallies of promoted and demoted records.
* *Ephemeral probes*: the edit forms and digests (a table of model values), the
  gates between load and baseline beyond one refusal, drift between a probe's
  baseline and its runs, for which the code has no check either.
* *Mutation engine*: mutators, the loader and the rendering of overlays turn
  syntax into syntax and keep no state; `Reach` takes a name, an arity and a
  package as one signature and does not cap the nesting of types; package
  initializers of merely imported packages are not enqueued; the mark of a
  memory-decided kill, the content of observations, the order of the scratch
  sweep and `SchemaCache.Close` are left out.
* *Faces*: the read-only tools, their rendering, the caps of an answer; plan
  mode.
* *Helpers* only talk to git, the file system or a terminal and keep no state.
