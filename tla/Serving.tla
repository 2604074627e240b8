------------------------------- MODULE Serving -------------------------------
(***************************************************************************)
(* One target's record across campaigns: what a campaign serves from it,   *)
(* what it measures again, and what it then stores, while the tree, the    *)
(* inputs its test processes read and the repository move underneath       *)
(* (prepareTarget, prepareShaped and aggregateWindow in src/run.go, the    *)
(* matching in src/freshness.go, the splices in src/reconcile.go and the   *)
(* baseline bank in src/bank.go).                                          *)
(*                                                                         *)
(* Contents are version numbers, and an edit makes a new one: two equal    *)
(* versions are equal bytes.  An observation is a function from the inputs *)
(* a process read to the versions it read (the manifest is its domain, the *)
(* digest its values).                                                     *)
(***************************************************************************)
EXTENDS Integers, Sequences, FiniteSets

CONSTANTS
    Inputs,      \* what a test process may read beside the code
    Size,        \* candidates of the target
    Memory,      \* the memory a candidate needs to answer
    Duration,    \* the time it needs
    Unlimited,   \* above every ceiling and need
    Budgets,     \* budgets a baseline may derive
    Answers,     \* outcomes of a mutant that answers
    Setups       \* what a target and its campaigns are

Candidates == 1 .. Size
Outcomes   == {"killed", "survived", "discarded"}

\* What a campaign is asked: candidates, a memory ceiling (0 is none), an oracle
\* timeout (0 derives it).
Requests  == [force : BOOLEAN, budget : Candidates, ceiling : Nat, timeout : Nat]
NoRequest == [force |-> FALSE, budget |-> 1, ceiling |-> 0, timeout |-> 0]

\* shaped: a structural or manual target.  banked: a baseline bank.  git: a
\* repository.  asks: the campaigns (a bank sees one way of setting the timeout).
\* edits and commits bound the world.
IsSetup(s) ==
    /\ s \in [shaped : BOOLEAN, banked : BOOLEAN, git : BOOLEAN,
              asks : Seq(Requests), edits : Nat, commits : Nat]
    /\ \A n \in DOMAIN s.asks : s.asks[n].ceiling <= Unlimited
    /\ s.banked => Cardinality({s.asks[n].timeout = 0 : n \in DOMAIN s.asks}) <= 1

ASSUME ServingAssumption ==
    /\ Size \in Nat \ {0} /\ Unlimited \in Nat
    /\ Memory \in [Candidates -> 0 .. Unlimited] /\ Duration \in [Candidates -> Nat]
    /\ Budgets \subseteq Nat /\ Answers \subseteq Outcomes
    /\ \A s \in Setups : IsSetup(s)

Nothing == [i \in {} |-> 0]

\* What a campaign asks of the verdicts it keeps.
Bounds(r) == [ceiling |-> r.ceiling, timeout |-> r.timeout]

VARIABLES
    setup,          \* what the target and its campaigns are
    code, input,    \* the tree's code, the inputs' versions
    head,           \* what the last commit holds of both
    edits, commits, campaigns, \* how many there were
    rec,            \* the stored record; generated = 0 is none
    bank,           \* the baseline bank's entry of the target's group
    at, request,    \* where the campaign is, what it was asked
    view,           \* the code its views captured at the load
    kind, todo,     \* what becomes of the target, the candidates it executes
    base, waits,  \* the group's baseline, and whether its deposit waits
    scores,         \* verdicts of this campaign
    draft           \* the record being assembled

tree == <<setup, code, input, head, edits, commits>>
planned == <<campaigns, request, view>>
work == <<kind, todo>>
servingVars == <<tree, planned, work, rec, bank, at, base, waits, scores, draft>>

\* A record: its pins, its tallies and rows, and the campaign bounds it names.
\* truth, carried, asked and quiet are ghosts: how each verdict came about,
\* which ones the last write kept, what that campaign asked, and whether the
\* tree stood still from the evidence check to the commit's name.
Unrecorded ==
    [generated |-> 0, code |-> 0, pins |-> Nothing, unverifiable |-> FALSE,
     survivors |-> {}, kills |-> {}, timeouts |-> {}, flags |-> [c \in {} |-> "killed"],
     tally |-> [o \in Outcomes |-> 0],
     ceiling |-> 0, decided |-> FALSE, timeout |-> 0,
     dirty |-> TRUE, commit |-> [code |-> 0, input |-> Nothing],
     truth |-> [c \in {} |-> 0], carried |-> {},
     asked |-> Bounds(NoRequest), quiet |-> TRUE]

\* measured is a ghost: the code the probe ran on.
NoBaseline == [reads |-> Nothing, budget |-> 0, measured |-> 0]
NoDeposit  == [held |-> FALSE, code |-> 0, pins |-> Nothing, unverifiable |-> FALSE, base |-> NoBaseline]

ServingInit ==
    /\ setup \in Setups
    /\ code = 0
    /\ input = [i \in Inputs |-> 0]
    /\ head = [code |-> 0, input |-> [i \in Inputs |-> 0]]
    /\ edits = 0 /\ commits = 0 /\ campaigns = 0
    /\ rec = Unrecorded
    /\ bank = NoDeposit
    /\ at = "idle"
    /\ request = NoRequest
    /\ view = 0
    /\ kind = "measure" /\ todo = {}
    /\ base = NoBaseline /\ waits = FALSE
    /\ scores = [c \in {} |-> 0]
    /\ draft = Unrecorded

\* Every recorded input stands on disk as recorded.
Stands(o) == \A i \in DOMAIN o : input[i] = o[i]

------------------------------------------------------------------------------
(* What a record must hold to be reused.                                   *)

EffectiveCeiling(m) == IF m = 0 THEN Unlimited ELSE m

MemoryPinStale(r) ==
    IF r.decided THEN r.ceiling # request.ceiling
                 ELSE EffectiveCeiling(request.ceiling) < EffectiveCeiling(r.ceiling)

TimeoutKillsReexecutable(r) == r.timeouts \subseteq DOMAIN r.flags

\* Budgets derived on both sides never have to agree.
TimeoutPinMatches(r) ==
    /\ r.timeout = request.timeout
    /\ r.timeout = 0 => TimeoutKillsReexecutable(r)

BudgetCovers(r) == r.generated >= request.budget

\* Evidence rows: the runtime inputs against disk, the code against the view.
EvidenceHolds(pins, c, unverifiable) == ~unverifiable /\ Stands(pins) /\ c = view

EvidenceMatches(r) ==
    /\ TimeoutPinMatches(r)
    /\ ~MemoryPinStale(r)
    /\ EvidenceHolds(r.pins, r.code, r.unverifiable)

\* A shaped target's record is served whole or not at all.
ShapedMatches(r) == EvidenceMatches(r) /\ DOMAIN r.flags = {}

Considered == rec.generated > 0 /\ ~request.force
Covers     == setup.shaped \/ BudgetCovers(rec)
Flagged    == DOMAIN rec.flags # {}
Matches    == IF setup.shaped THEN ShapedMatches(rec) ELSE EvidenceMatches(rec)

\* The tree is as the views captured it, which a check re-observes.
Unmoved == code = view

------------------------------------------------------------------------------
(* The decision.                                                           *)

\* A campaign loads the tree; the record it finds is the prior.
Begin ==
    /\ at = "idle" /\ campaigns < Len(setup.asks)
    /\ campaigns' = campaigns + 1
    /\ request' = setup.asks[campaigns + 1]
    /\ view' = code
    /\ at' = "deciding"
    /\ UNCHANGED <<tree, work, rec, bank, base, waits, scores, draft>>

\* What the campaign held of the target is dropped.
Leaves ==
    /\ at' = "idle"
    /\ request' = NoRequest /\ view' = 0
    /\ kind' = "measure" /\ todo' = {}
    /\ base' = NoBaseline /\ waits' = FALSE
    /\ scores' = [c \in {} |-> 0]
    /\ draft' = Unrecorded
    /\ UNCHANGED campaigns

Decides(k, S) ==
    /\ kind' = k /\ todo' = S
    /\ at' = "probing"
    /\ UNCHANGED <<tree, planned, rec, bank, base, waits, scores, draft>>

Everything == IF setup.shaped THEN Candidates ELSE 1 .. request.budget

\* No prior, a forced run, a moved pin, or flagged candidates under a wider
\* budget: the target is measured whole.
Remeasures ==
    /\ at = "deciding"
    /\ \/ ~Considered
       \/ ~Matches
       \/ ~Covers /\ Flagged
    /\ Decides("measure", Everything)

\* Served whole: nothing executes, the record's provenance is stamped anew.
ServesWhole ==
    /\ at = "deciding" /\ Considered /\ Covers /\ Matches /\ Unmoved /\ ~Flagged
    /\ kind' = "serve"
    /\ draft' = [rec EXCEPT !.carried = 1 .. rec.generated, !.asked = Bounds(request), !.quiet = TRUE]
    /\ at' = "stamping"
    /\ UNCHANGED <<tree, planned, rec, bank, todo, base, waits, scores>>

\* Served but for the flagged candidates, which execute again.
Splices ==
    /\ at = "deciding" /\ Considered /\ Covers /\ Matches /\ Unmoved /\ Flagged
    /\ Decides("splice", DOMAIN rec.flags)

\* A wider budget keeps the measured prefix and executes the rest.
Extends ==
    /\ at = "deciding" /\ Considered /\ ~Covers /\ Matches /\ Unmoved /\ ~Flagged
    /\ Decides("extend", rec.generated + 1 .. request.budget)

\* Regeneration does not identify the recorded candidates again: the target is
\* measured whole after all.
Unidentified ==
    /\ at = "probing" /\ kind \in {"splice", "extend"}
    /\ kind' = "measure" /\ todo' = Everything
    /\ UNCHANGED <<tree, planned, rec, bank, at, base, waits, scores, draft>>

\* A failed evidence check, proof, probe or attach, drift, a failing
\* baseline, or the caller: the target ends without a write.
GivesUp ==
    /\ at # "idle"
    /\ Leaves
    /\ UNCHANGED <<tree, rec, bank>>

------------------------------------------------------------------------------
(* The baseline and its bank.                                              *)

\* The bank's entry under the checks a record's rows get, and its own
\* observation adopted against disk.
BankPinsHold ==
    /\ EvidenceHolds(bank.pins, bank.code, bank.unverifiable)
    /\ Stands(bank.base.reads)

BankServes ==
    /\ at = "probing" /\ setup.banked /\ bank.held /\ ~request.force /\ BankPinsHold /\ Unmoved
    /\ base' = bank.base
    /\ at' = "executing"
    /\ UNCHANGED <<tree, planned, work, rec, bank, waits, scores, draft>>

\* What a process reads, and what is observed of it.
Observed(S) == [i \in S |-> input[i]]

\* A budget derives from the probe's duration in derive mode only.
DerivedBudgets == IF request.timeout = 0 THEN Budgets ELSE {0}

Probes ==
    /\ at = "probing"
    /\ \E S \in SUBSET Inputs, b \in DerivedBudgets :
           base' = [reads |-> Observed(S), budget |-> b, measured |-> code]
    /\ at' = "depositing"
    /\ UNCHANGED <<tree, planned, work, rec, bank, waits, scores, draft>>

\* The deposit attaches the observation to views of its own and validates
\* them; failing that it waits for a committed record's rows.
Deposited(c, pins, unverifiable) ==
    bank' = [held |-> TRUE, code |-> c, pins |-> pins, unverifiable |-> unverifiable, base |-> base]

Deposits ==
    /\ at = "depositing" /\ setup.banked /\ Stands(base.reads) /\ Unmoved
    /\ Deposited(view, base.reads, FALSE)
    /\ waits' = FALSE
    /\ at' = "executing"
    /\ UNCHANGED <<tree, planned, work, rec, base, scores, draft>>

DefersDeposit ==
    /\ at = "depositing"
    /\ waits' = TRUE
    /\ at' = "executing"
    /\ UNCHANGED <<tree, planned, work, rec, bank, base, scores, draft>>

------------------------------------------------------------------------------
(* Execution.                                                              *)

StepBudget == IF request.timeout = 0 THEN base.budget ELSE request.timeout

\* complete: the process's own observation was finalized; of one that was not,
\* nothing is kept.  A mutant that does not build runs no process.
Verdict(o, w, complete, S) ==
    [outcome |-> o, why |-> w, complete |-> complete, reads |-> Observed(S), code |-> code,
     ceiling |-> request.ceiling, timeout |-> request.timeout]

Verdicts(c) ==
    LET Fits    == Memory[c] <= EffectiveCeiling(request.ceiling)
        InTime  == Duration[c] <= StepBudget
        Of(o, w) == {Verdict(o, w, TRUE, S) : S \in SUBSET Inputs} \cup {Verdict(o, w, FALSE, {})}
    IN  {v \in UNION {Of(o, "answer") : o \in Answers} :
             Fits /\ InTime /\ (v.outcome = "discarded" => v = Verdict("discarded", "answer", TRUE, {}))}
        \cup (IF Fits THEN {} ELSE Of("killed", "memory"))
        \cup (IF InTime THEN {} ELSE {Verdict("killed", "timeout", FALSE, {})})

Executes ==
    /\ at = "executing"
    /\ \E c \in todo \ DOMAIN scores : \E v \in Verdicts(c) :
           scores' = [d \in DOMAIN scores \cup {c} |-> IF d = c THEN v ELSE scores[d]]
    /\ UNCHANGED <<tree, planned, work, rec, bank, at, base, waits, draft>>

\* A drained measure keeps the prefix it has.
Drains ==
    /\ at = "executing" /\ kind = "measure" /\ ~setup.shaped
    /\ \E k \in todo : DOMAIN scores = 1 .. k
    /\ todo' = DOMAIN scores
    /\ UNCHANGED <<tree, planned, kind, rec, bank, at, base, waits, scores, draft>>

------------------------------------------------------------------------------
(* Evidence.                                                               *)

\* The processes whose observations are merged, in the order of the merge:
\* the baseline and the completed candidates, none of a shaped target's.
Completed == IF setup.shaped THEN {}
             ELSE {c \in DOMAIN scores : scores[c].complete /\ scores[c].outcome # "discarded"}
Reads(k)   == IF k = 0 THEN base.reads ELSE scores[k].reads
Readers(i) == {k \in Completed \cup {0} : i \in DOMAIN Reads(k)}
First(i)   == CHOOSE k \in Readers(i) : \A j \in Readers(i) : k <= j

\* The merge keeps the first reading of an input; two readings that differ
\* leave it incomplete.
CompletedUnion == [i \in {j \in Inputs : Readers(j) # {}} |-> Reads(First(i))[i]]
Conflict == \E i \in Inputs : \E j, k \in Readers(i) : Reads(j)[i] # Reads(k)[i]

\* The record's own pins, where they still stand, under the fresh reads.
FoldRecorded(u) ==
    IF Stands(rec.pins)
    THEN [i \in DOMAIN u \cup DOMAIN rec.pins |-> IF i \in DOMAIN u THEN u[i] ELSE rec.pins[i]]
    ELSE u

\* A flagged splice compares what it read with the record's pins, an
\* extension folds the pins in first.
SplicedUnion == IF kind = "extend" THEN FoldRecorded(CompletedUnion) ELSE CompletedUnion
SplicedUnionDiverged == Conflict \/ SplicedUnion # rec.pins

------------------------------------------------------------------------------
(* The record assembled.                                                   *)

Scored(o) == {c \in DOMAIN scores : scores[c].outcome = o}
TimedOut  == {c \in DOMAIN scores : scores[c].why = "timeout"}
Decided   == \E c \in DOMAIN scores : scores[c].why = "memory"

\* Candidate evidence: what executed without a sound observation, with its
\* disposition.
FreshFlags ==
    [c \in IF setup.shaped THEN {} ELSE {d \in DOMAIN scores : ~scores[d].complete} |-> scores[c].outcome]

Tallied(tally) == [o \in Outcomes |-> tally[o] + Cardinality(Scored(o))]
Dropped(o)     == {c \in DOMAIN rec.flags : rec.flags[c] = o}

Fresh ==
    [generated |-> Cardinality(DOMAIN scores), code |-> view, pins |-> CompletedUnion,
     unverifiable |-> Conflict,
     survivors |-> Scored("survived"), kills |-> Scored("killed"), timeouts |-> TimedOut,
     flags |-> FreshFlags, tally |-> Tallied([o \in Outcomes |-> 0]),
     ceiling |-> request.ceiling, decided |-> Decided, timeout |-> request.timeout,
     dirty |-> TRUE, commit |-> head,
     truth |-> scores, carried |-> {}, asked |-> Bounds(request), quiet |-> TRUE]

\* Mutant: the record keeps the ceiling it was first measured under.
MergeOutcomesOnly(r) == [r EXCEPT !.decided = @ \/ Decided]

\* The ceiling's facts join the record: a memory-decided verdict, and the
\* larger of the two ceilings.
MergeScoredFacts(r) ==
    [r EXCEPT !.decided = @ \/ Decided,
              !.ceiling = IF EffectiveCeiling(request.ceiling) > EffectiveCeiling(@)
                          THEN request.ceiling ELSE @]

\* Mutant: diverged evidence replaces the record's.
ReplaceUnion(r) == [r EXCEPT !.pins = SplicedUnion]

\* Diverged evidence keeps the outcomes and is never reused.
ApplySplicedUnion(r) ==
    IF SplicedUnionDiverged THEN [r EXCEPT !.pins = SplicedUnion, !.unverifiable = TRUE] ELSE r

Truths == [c \in DOMAIN rec.truth \cup DOMAIN scores |->
               IF c \in DOMAIN scores THEN scores[c] ELSE rec.truth[c]]

Kept(r) ==
    [r EXCEPT !.truth = Truths, !.carried = DOMAIN rec.truth \ DOMAIN scores,
              !.asked = Bounds(request), !.quiet = TRUE]

Rows(r) ==
    [r EXCEPT !.survivors = (@ \ DOMAIN scores) \cup Scored("survived"),
              !.kills     = (@ \ DOMAIN scores) \cup Scored("killed"),
              !.timeouts  = (@ \ DOMAIN scores) \cup TimedOut,
              !.flags     = FreshFlags]

\* Each flagged candidate's recorded disposition is taken back, its fresh one
\* counted.
SpliceCounts(r) ==
    [Rows(r) EXCEPT !.tally = Tallied([o \in Outcomes |-> @[o] - Cardinality(Dropped(o))])]

\* The suffix is appended.
ExtendCounts(r) ==
    [Rows(r) EXCEPT !.tally = Tallied(@), !.generated = Cardinality(DOMAIN rec.truth \cup DOMAIN scores)]

Assembled ==
    CASE kind = "measure" -> Fresh
      [] kind = "splice"  -> Kept(SpliceCounts(MergeScoredFacts(ApplySplicedUnion(rec))))
      [] kind = "extend"  -> Kept(ExtendCounts(MergeScoredFacts(ApplySplicedUnion(rec))))

\* Attaching revalidates every input of the union against disk; one that moved
\* refuses the target.
Assembles ==
    /\ at = "executing" /\ DOMAIN scores = todo
    /\ Stands(CompletedUnion)
    /\ draft' = Assembled
    /\ at' = "validating"
    /\ UNCHANGED <<tree, planned, work, rec, bank, base, waits, scores>>

\* The producing views against disk.  An analysis that could not re-establish
\* a proof, all else holding, leaves the record unverifiable.
Validates ==
    /\ at = "validating" /\ Unmoved
    /\ \E unavailable \in BOOLEAN :
           draft' = [draft EXCEPT !.unverifiable = @ \/ unavailable]
    /\ at' = "stamping"
    /\ UNCHANGED <<tree, planned, work, rec, bank, base, waits, scores>>

\* Mutant: git is asked about the code alone.
DirtyCode == ~setup.git \/ code # head.code

\* Whether git sees a difference in what the record names.
Dirty == ~setup.git \/ code # head.code \/ \E i \in DOMAIN draft.pins : input[i] # head.input[i]

StampsDirty ==
    /\ at = "stamping"
    /\ draft' = [draft EXCEPT !.dirty = Dirty]
    /\ at' = IF setup.git THEN "naming" ELSE "committing"
    /\ UNCHANGED <<tree, planned, work, rec, bank, base, waits, scores>>

\* The commit is read after the dirty judgment; a repository that cannot be
\* read leaves the record without one, and dirty.
NamesCommit ==
    /\ at = "naming"
    /\ \/ draft' = [draft EXCEPT !.commit = head]
       \/ draft' = [draft EXCEPT !.dirty = TRUE]
    /\ at' = "committing"
    /\ UNCHANGED <<tree, planned, work, rec, bank, base, waits, scores>>

\* The record is stored; its rows complete a deposit that waits.
Stores ==
    /\ at = "committing"
    /\ rec' = draft
    /\ IF waits /\ setup.banked THEN Deposited(draft.code, draft.pins, draft.unverifiable) ELSE UNCHANGED bank
    /\ Leaves
    /\ UNCHANGED tree

------------------------------------------------------------------------------
(* The world.                                                              *)

\* Someone edits the tree.
Edited ==
    /\ edits < setup.edits
    /\ edits' = edits + 1
    /\ draft' = [draft EXCEPT !.quiet = @ /\ at \notin {"validating", "stamping", "naming"}]
    /\ UNCHANGED <<setup, head, commits, planned, work, rec, bank, at, base, waits, scores>>

EditsCode   == Edited /\ code' = code + 1 /\ UNCHANGED input
EditsInput  == Edited /\ (\E i \in Inputs : input' = [input EXCEPT ![i] = @ + 1]) /\ UNCHANGED code

\* Someone commits the tree.
Commits_ ==
    /\ setup.git /\ commits < setup.commits
    /\ commits' = commits + 1
    /\ head' = [code |-> code, input |-> input]
    /\ UNCHANGED <<setup, code, input, edits, planned, work, rec, bank, at, base, waits, scores, draft>>

ServingNext ==
    \/ Begin \/ Remeasures \/ ServesWhole \/ Splices \/ Extends
    \/ Unidentified \/ GivesUp
    \/ BankServes \/ Probes \/ Deposits \/ DefersDeposit
    \/ Executes \/ Drains
    \/ Assembles \/ Validates \/ StampsDirty \/ NamesCommit \/ Stores
    \/ EditsCode \/ EditsInput \/ Commits_

ServingSpec == ServingInit /\ [][ServingNext]_servingVars

------------------------------------------------------------------------------
(* Properties.                                                             *)

\* A verdict taken on one tree, with everything its process read pinned.
OnTree(v, c, pins) ==
    /\ v.code = c
    /\ v.complete /\ ~setup.shaped =>
           \A i \in DOMAIN v.reads : i \in DOMAIN pins /\ pins[i] = v.reads[i]

\* A stored record that may be reused holds verdicts of one tree only: each
\* was taken on the code its evidence names and read no input the record does
\* not pin at that version, whichever campaigns they come from (the splices
\* and the fresh assembly, against edits at any step).
RecordOneTree ==
    ~rec.unverifiable =>
        \A c \in DOMAIN rec.truth : OnTree(rec.truth[c], rec.code, rec.pins)

\* A baseline the bank would serve ran on the code its rows name and read
\* nothing they do not pin, whether it was deposited at the probe or with a
\* committed record's rows.
BankOneTree ==
    bank.held /\ ~bank.unverifiable =>
        /\ bank.base.measured = bank.code
        /\ \A i \in DOMAIN bank.base.reads :
               i \in DOMAIN bank.pins /\ bank.pins[i] = bank.base.reads[i]

\* Both: what a later campaign may reuse without executing it was all taken on
\* one tree (spliceServedFinding, spliceExtendedFinding, the deposits of the bank).
OneTree == RecordOneTree /\ BankOneTree

\* A verdict kept from an earlier campaign is what this campaign's bounds would
\* give: an answer still fits the memory, a memory-decided kill had the same
\* ceiling, and a timeout is a kill by the very same explicit timeout
\* (memoryPinStale, timeoutPinMatches and the facts each splice merges).
KeptVerdictsStand ==
    \A c \in rec.carried :
        LET v == rec.truth[c] IN
        CASE v.why = "answer"  -> Memory[c] <= EffectiveCeiling(rec.asked.ceiling)
          [] v.why = "memory"  -> v.ceiling = rec.asked.ceiling
          [] v.why = "timeout" -> v.timeout = rec.asked.timeout /\ v.timeout # 0

\* The tallies and rows of a record are its verdicts, after any sequence of
\* measures, splices and extensions.
CountsReconcile ==
    LET Of(o) == {c \in DOMAIN rec.truth : rec.truth[c].outcome = o} IN
    /\ DOMAIN rec.truth = 1 .. rec.generated
    /\ \A o \in Outcomes : rec.tally[o] = Cardinality(Of(o))
    /\ rec.survivors = Of("survived") /\ rec.kills = Of("killed")

\* Both: whatever sequence of serves, splices and extensions wrote it, a record
\* counts each of its verdicts once, and one this campaign did not take is what
\* it would have taken.
RecordStands == KeptVerdictsStand /\ CountsReconcile

\* A record stamped clean names a commit that holds the code and the inputs it
\* was measured on, as long as nobody edits between its validation and the
\* naming; commits may land anywhere.
CleanNamesItsCommit ==
    rec.generated > 0 /\ ~rec.dirty /\ ~rec.unverifiable /\ rec.quiet =>
        /\ rec.commit.code = rec.code
        /\ \A i \in DOMAIN rec.pins : rec.commit.input[i] = rec.pins[i]
==============================================================================
