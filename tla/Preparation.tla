------------------------------ MODULE Preparation ------------------------------
(***************************************************************************)
(* The preparation of a run's targets (runCounted's phase one and          *)
(* prepareTarget, src/run.go; runPreparation, src/prepare.go).             *)
(*                                                                         *)
(* Every target is resolved, the resolved ones' decision views are built   *)
(* in one pass, and then the targets are walked in order: each is judged   *)
(* against its prior record, units with the siblings of its proof unit,   *)
(* enumerated, and its oracle groups' baselines are measured, served from  *)
(* the bank or known.  The walk streams one decision row per target.       *)
(* What it hands over executes and commits beside the walk.  A plan walks  *)
(* the same way and stops short of every measurement.                      *)
(*                                                                         *)
(* Reasons, candidates and evidence are not modelled; what each step lets  *)
(* happen next is.  A mishap is a step that fails.                         *)
(***************************************************************************)
EXTENDS Integers, Sequences, FiniteSets

CONSTANTS
    Requests,   \* the target lists a run may be given
    Groups,     \* oracle packages
    MaxFaults   \* mishaps of one run

\* A target: whether there is something to measure it by (a shape that
\* validates, an oracle), whether it is shaped, its attestation, its oracle
\* groups in order, and what its prior record is: none (or forced away),
\* covering the budget, covering with flagged candidates, capped, capped and
\* flagged.
Priors == {"none", "covering", "flagged", "capped", "cappedFlagged"}

PrepTargets == [sound : BOOLEAN, shaped : BOOLEAN, attested : BOOLEAN,
                groups : Seq(Groups), prior : Priors]

ASSUME PreparationAssumption ==
    /\ MaxFaults \in Nat
    /\ Requests \subseteq Seq(PrepTargets)
    /\ \A r \in Requests : \A i \in DOMAIN r :
           r[i].shaped => r[i].prior \in {"none", "covering"}

VARIABLES
    asked,      \* the run's targets
    planning,   \* Options.PlanOnly
    staged,     \* the run measures the index
    leg,        \* how far the run is
    cursor,     \* the target at hand
    place,      \* how far its preparation is
    intent,     \* what it measures: whole, the flagged, or the suffix
    turn,       \* the oracle group at hand
    fate,       \* what became of each target
    rows,       \* the decision stream
    oracles,    \* the oracle validations: groups |-> TRUE or FALSE
    detected,   \* the property runtimes are known
    units,      \* proof units by key: built, and whom their pass faulted
    base,       \* per group: "none", "passed", "failed"
    probes,     \* baseline probes per group
    pending,    \* groups whose deposit waits for a commit
    bank,       \* groups with a banked baseline whose pins hold
    saved,      \* targets whose finding was committed
    faults,     \* mishaps so far
    dead        \* the run's context is cancelled

judged  == <<place, intent, turn>>
measured == <<base, probes, pending, bank>>
given   == <<asked, planning, staged>>
prepVars == <<given, leg, cursor, judged, fate, rows, oracles, detected,
              units, measured, saved, faults, dead>>

Asked == DOMAIN asked

\* A proof unit's key: the mode and the oracle's packages.
Key(i) == <<asked[i].attested, asked[i].groups>>

Members(i) == {j \in Asked : Key(j) = Key(i)}

NoUnit == [built |-> FALSE, faulted |-> {}]

PrepInit ==
    /\ asked \in Requests
    /\ planning \in BOOLEAN /\ staged \in BOOLEAN
    /\ leg = "starting" /\ cursor = 1
    /\ place = "judging" /\ intent = "whole" /\ turn = 1
    /\ fate = [i \in Asked |-> "open"]
    /\ rows = <<>>
    /\ oracles = [o \in {} |-> TRUE]
    /\ detected = FALSE
    /\ units = [k \in {Key(i) : i \in Asked} |-> NoUnit]
    /\ base = [g \in Groups |-> "none"]
    /\ probes = [g \in Groups |-> 0]
    /\ pending = {}
    /\ bank \in SUBSET Groups
    /\ saved = {}
    /\ faults = 0
    /\ dead = FALSE

Mishap(n) == faults + n <= MaxFaults /\ faults' = faults + n

Row(i, action) == Append(rows, [target |-> i, action |-> action])

\* The options, the tree's repository state and the target list are in
\* order: no symbol is asked for twice.  (What is not ends the run.)
Starts ==
    /\ leg = "starting"
    /\ leg' = "resolving"
    /\ UNCHANGED <<given, cursor, judged, fate, rows, oracles, detected,
                   units, measured, saved, faults, dead>>

------------------------------------------------------------------------------
(* Resolving: no unit exists yet, and the walk streams the rows.           *)

\* Mutant of Withheld: a resolution skip streams its row at once.
WithheldNot(i) == Row(i, "skipped")

\* skipTarget(i, reason, false).
Withheld(i) == rows

Resolved(i, to) ==
    /\ leg = "resolving" /\ cursor = i /\ i \in Asked
    /\ fate' = [fate EXCEPT ![i] = to]
    /\ rows' = IF to = "resolved" THEN rows ELSE Withheld(i)
    /\ cursor' = i + 1
    /\ UNCHANGED <<given, leg, judged, detected, units, measured, saved, dead>>

\* An invalid shape or no oracle.
ResolveSkips(i) ==
    /\ ~asked[i].sound
    /\ Resolved(i, "skipped")
    /\ UNCHANGED <<oracles, faults>>

\* validateOracle: one verdict per oracle.
Validates(i, valid) ==
    IF asked[i].groups \in DOMAIN oracles
    THEN oracles[asked[i].groups] = valid /\ UNCHANGED oracles
    ELSE oracles' = [o \in DOMAIN oracles \cup {asked[i].groups} |->
                         IF o \in DOMAIN oracles THEN oracles[o] ELSE valid]

ValidationSkips(i) ==
    /\ asked[i].sound
    /\ IF asked[i].groups \in DOMAIN oracles THEN UNCHANGED faults ELSE ~dead /\ Mishap(1)
    /\ Resolved(i, "skipped")
    /\ Validates(i, FALSE)

Resolves(i) ==
    /\ asked[i].sound
    /\ Resolved(i, "resolved")
    /\ Validates(i, TRUE)
    /\ UNCHANGED faults

\* No function, a body or a shape that does not resolve, or a source that
\* moved or vanished since load.
ResolutionFails(i) ==
    /\ asked[i].sound /\ ~dead
    /\ \E to \in {"skipped", "refused"} : Resolved(i, to)
    /\ Validates(i, TRUE)
    /\ Mishap(1)

\* One view pass per mode; what it could not view faults the targets that
\* need it.
Views ==
    /\ leg = "resolving" /\ cursor \notin Asked
    /\ \E views \in SUBSET (BOOLEAN \X Groups), bodies \in SUBSET Asked :
           LET lost == {i \in Asked :
                   /\ fate[i] = "resolved"
                   /\ \/ i \in bodies /\ ~asked[i].shaped
                      \/ \E n \in DOMAIN asked[i].groups :
                             <<asked[i].attested, asked[i].groups[n]>> \in views}
           IN  /\ Mishap(Cardinality(views) + Cardinality(bodies))
               /\ fate' = [i \in Asked |-> IF i \in lost THEN "skipped" ELSE fate[i]]
    /\ leg' = "walking" /\ cursor' = 1
    /\ UNCHANGED <<given, judged, rows, oracles, detected, units, measured, saved, dead>>

------------------------------------------------------------------------------
(* The walk.                                                               *)

\* The walk is at i, which is in the given place of its preparation.
At(i, where) ==
    /\ leg = "walking" /\ cursor = i /\ i \in Asked
    /\ fate[i] = "resolved" /\ place = where

Onward(i) ==
    /\ cursor' = i + 1
    /\ place' = "judging" /\ intent' = "whole" /\ turn' = 1

\* skipTarget, refuseSkipped (which is refuseTarget and skipTarget) and
\* cacheTarget past the walk's head: the row streams here.
Ends(i, to) ==
    /\ fate' = [fate EXCEPT ![i] = to]
    /\ rows' = Row(i, IF to = "cached" THEN "cached" ELSE "skipped")
    /\ Onward(i)
    /\ UNCHANGED <<given, leg, oracles, units, dead>>

Moves(i, where) ==
    /\ place' = where
    /\ UNCHANGED <<given, leg, cursor, fate, rows, oracles, units, dead>>

\* deliverPrepared streams what resolving withheld.
DeliversWithheld(i) ==
    /\ leg = "walking" /\ cursor = i /\ i \in Asked
    /\ fate[i] \in {"skipped", "refused"}
    /\ rows' = Row(i, "skipped")
    /\ Onward(i)
    /\ UNCHANGED <<given, leg, fate, oracles, detected, units, measured, saved, faults, dead>>

------------------------------------------------------------------------------
(* Judging the prior record.                                               *)

\* Inputs outside the repository under a staged run.
StagedRefuses(i) ==
    /\ At(i, "judging") /\ staged
    /\ Mishap(1)
    /\ Ends(i, "refused")
    /\ UNCHANGED <<detected, measured, saved>>

\* The runtime detection fails for this target; the next one retries.
DetectionSkips(i) ==
    /\ At(i, "judging") /\ ~detected /\ ~dead
    /\ Mishap(1)
    /\ Ends(i, "skipped")
    /\ UNCHANGED <<detected, measured, saved>>

Covering(i) == asked[i].prior \in {"covering", "flagged"}

\* The evidence check of a covering record fails.  (A capped record's
\* aborts the run.)
ServeCheckRefuses(i) ==
    /\ At(i, "judging") /\ Covering(i) /\ ~dead
    /\ Mishap(1)
    /\ Ends(i, "refused")
    /\ detected' = TRUE
    /\ UNCHANGED <<measured, saved>>

\* The record's pins hold and nothing of it is flagged.  Its provenance is
\* stamped, which a staged drift refuses.
StampRefuses(i) ==
    /\ At(i, "judging") /\ asked[i].prior = "covering" /\ staged
    /\ Mishap(1)
    /\ Ends(i, "refused")
    /\ detected' = TRUE
    /\ UNCHANGED <<measured, saved>>

\* A symbol's serve commits before its decision, but for a plan.
Serves(i) ==
    /\ At(i, "judging") /\ asked[i].prior = "covering"
    /\ Moves(i, "served")
    /\ detected' = TRUE
    /\ saved' = IF planning THEN saved ELSE saved \cup {i}
    /\ UNCHANGED <<intent, turn, measured, faults>>

\* A shape's serve is left to the run's final merge.
ServesShape(i) ==
    /\ At(i, "judging") /\ asked[i].prior = "covering"
    /\ Moves(i, "served")
    /\ detected' = TRUE
    /\ UNCHANGED <<intent, turn, measured, saved, faults>>

ServeDecides(i) ==
    /\ At(i, "served")
    /\ Ends(i, "cached")
    /\ UNCHANGED <<detected, measured, saved, faults>>

\* What may be measured: the whole target, the flagged candidates of a
\* record whose pins hold, or the suffix of a capped one's.
Intents(i) ==
    {"whole"} \cup (IF asked[i].prior = "flagged" THEN {"flagged"} ELSE {})
              \cup (IF asked[i].prior = "capped" THEN {"suffix"} ELSE {})

Measures(i) ==
    /\ At(i, "judging")
    /\ detected' = TRUE
    /\ intent' \in Intents(i)
    /\ Moves(i, IF planning THEN "enumerating" ELSE "proving")
    /\ UNCHANGED <<turn, measured, saved, faults>>

------------------------------------------------------------------------------
(* Proving, enumerating.                                                   *)

\* buildProofUnit: once, at the unit's first target to get here.
BuildsUnit(i) ==
    /\ At(i, "proving") /\ ~units[Key(i)].built
    /\ \E faulted \in SUBSET Members(i) :
           /\ Mishap(Cardinality(faulted))
           /\ units' = [units EXCEPT ![Key(i)].built = TRUE,
                                     ![Key(i)].faulted = faulted]
    /\ UNCHANGED <<given, leg, cursor, judged, fate, rows, oracles, detected,
                   measured, saved, dead>>

\* The unit's proof of i, or on a fault its own rebuild.
Proves(i) ==
    /\ At(i, "proving") /\ units[Key(i)].built
    /\ i \in units[Key(i)].faulted => ~dead
    /\ Moves(i, "enumerating")
    /\ UNCHANGED <<intent, turn, detected, measured, saved, faults>>

\* The rebuild faults too.
ProofSkips(i) ==
    /\ At(i, "proving") /\ units[Key(i)].built
    /\ i \in units[Key(i)].faulted /\ ~dead
    /\ Mishap(1)
    /\ Ends(i, "skipped")
    /\ UNCHANGED <<detected, measured, saved>>

\* The source changed since load.
EnumerationRefuses(i) ==
    /\ At(i, "enumerating")
    /\ Mishap(1)
    /\ Ends(i, "refused")
    /\ UNCHANGED <<detected, measured, saved>>

Action(kind) == IF kind = "flagged" THEN "cached" ELSE "measure"

\* Candidates that do not re-identify the record's measure whole; a plan
\* has its row now and nothing else.
Enumerates(i) ==
    /\ At(i, "enumerating")
    /\ \E kind \in {intent, "whole"} :
           IF planning
           THEN /\ rows' = Row(i, Action(kind))
                /\ fate' = [fate EXCEPT ![i] = "planned"]
                /\ Onward(i)
                /\ UNCHANGED <<given, leg, oracles, units, dead>>
           ELSE Moves(i, "baselines") /\ intent' = kind /\ UNCHANGED turn
    /\ UNCHANGED <<detected, measured, saved, faults>>

------------------------------------------------------------------------------
(* The oracle groups' baselines.                                           *)

\* The group of the walk's target that is at hand.
AtGroup(i, g) ==
    /\ At(i, "baselines")
    /\ turn \in DOMAIN asked[i].groups /\ g = asked[i].groups[turn]

GroupDone(i) ==
    /\ turn' = turn + 1
    /\ Moves(i, "baselines")
    /\ UNCHANGED <<intent, detected, saved>>

\* A sibling's failing baseline is this target's too.
GroupSkips(i, g) ==
    /\ AtGroup(i, g) /\ base[g] = "failed"
    /\ Ends(i, "skipped")
    /\ UNCHANGED <<detected, measured, saved, faults>>

GroupKnown(i, g) ==
    /\ AtGroup(i, g) /\ base[g] = "passed"
    /\ GroupDone(i)
    /\ UNCHANGED <<measured, faults>>

\* A banked measurement whose pins hold serves.
GroupServed(i, g) ==
    /\ AtGroup(i, g) /\ base[g] = "none" /\ g \in bank
    /\ base' = [base EXCEPT ![g] = "passed"]
    /\ GroupDone(i)
    /\ UNCHANGED <<probes, pending, bank, faults>>

\* The bank has none that holds, or (a mishap) its pins could not be checked
\* or the run is forced.
BankMisses(g) == IF g \in bank THEN 1 ELSE 0

\* depositGroupBaseline: a measurement is banked now under pins of its own,
\* or at the commit that has them, or (its observation unverifiable) never.
Deposits(g) ==
    \/ bank' = bank \cup {g} /\ UNCHANGED pending
    \/ pending' = pending \cup {g} /\ UNCHANGED bank
    \/ UNCHANGED <<bank, pending>>

\* The probe passes.
GroupPasses(i, g) ==
    /\ AtGroup(i, g) /\ base[g] = "none"
    /\ Mishap(BankMisses(g))
    /\ probes' = [probes EXCEPT ![g] = @ + 1]
    /\ base' = [base EXCEPT ![g] = "passed"]
    /\ Deposits(g)
    /\ GroupDone(i)

\* Mutant of Failing: a failing baseline is not remembered.
FailingForgotten(g) == base

\* baselineFailures[key] = reason.
Failing(g) == [base EXCEPT ![g] = "failed"]

\* The probe fails, matches nothing or does not pass.  A probe the run's
\* own cancellation ended is no answer.
GroupFails(i, g) ==
    /\ AtGroup(i, g) /\ base[g] = "none" /\ ~dead
    /\ Mishap(1 + BankMisses(g))
    /\ probes' = [probes EXCEPT ![g] = @ + 1]
    /\ base' = Failing(g)
    /\ Ends(i, "skipped")
    /\ UNCHANGED <<detected, pending, bank, saved>>

\* Its row streams and its work is handed over, unless the cancellation is
\* what the handing over sees.
HandsOver(i) ==
    /\ At(i, "baselines") /\ turn \notin DOMAIN asked[i].groups
    /\ rows' = Row(i, Action(intent))
    /\ \/ fate' = [fate EXCEPT ![i] = "measuring"] /\ UNCHANGED leg
       \/ dead /\ leg' = "aborted" /\ UNCHANGED fate
    /\ Onward(i)
    /\ UNCHANGED <<given, oracles, detected, units, measured, saved, faults, dead>>

WalkedAll ==
    /\ leg = "walking" /\ cursor \notin Asked
    /\ leg' = "walked"
    /\ UNCHANGED <<given, cursor, judged, fate, rows, oracles, detected,
                   units, measured, saved, faults, dead>>

------------------------------------------------------------------------------
(* What was handed over, beside the walk, in target order.                 *)

Oldest(i) ==
    /\ leg \in {"walking", "walked", "aborted"}
    /\ i \in Asked /\ fate[i] = "measuring"
    /\ \A j \in 1 .. i - 1 : fate[j] # "measuring"

OracleGroups(i) == {asked[i].groups[n] : n \in DOMAIN asked[i].groups}

\* commitAndAttribute: the finding is saved, and of the deposits that waited
\* for its evidence those whose group it has rows of are banked; the others
\* wait on.  (The proof unit's count of its targets is module Campaign's.)
Commits(i) ==
    /\ Oldest(i)
    /\ saved' = saved \cup {i}
    /\ fate' = [fate EXCEPT ![i] = "committed"]
    /\ \E evidenced \in SUBSET (pending \cap OracleGroups(i)) :
           /\ bank' = bank \cup evidenced
           /\ pending' = pending \ evidenced
    /\ UNCHANGED <<given, leg, cursor, judged, rows, oracles, detected,
                   units, base, probes, faults, dead>>

\* The tree moved under its window: refused without a second row.
RefusesLate(i) ==
    /\ Oldest(i) /\ Mishap(1)
    /\ fate' = [fate EXCEPT ![i] = "refused"]
    /\ UNCHANGED <<given, leg, cursor, judged, rows, oracles, detected, units,
                   measured, saved, dead>>

\* A refused target makes the run a drift error, and so does a plan whose
\* decision views no longer validate.
PrepReturns ==
    /\ leg = "walked" /\ \A i \in Asked : fate[i] # "measuring"
    /\ \/ /\ leg' = IF \E i \in Asked : fate[i] = "refused" THEN "drifted" ELSE "returned"
          /\ UNCHANGED faults
       \/ planning /\ leg' = "drifted" /\ Mishap(1)
    /\ UNCHANGED <<given, cursor, judged, fate, rows, oracles, detected,
                   units, measured, saved, dead>>

\* The run's inputs, a view pass, a proof unit, a generator, a commit or a package lookup
\* fails, or the cancellation is seen.
PrepAborts ==
    /\ leg \in {"starting", "resolving", "walking", "walked"} /\ place # "served"
    /\ IF dead THEN UNCHANGED faults ELSE Mishap(1)
    /\ leg' = "aborted"
    /\ UNCHANGED <<given, cursor, judged, fate, rows, oracles, detected,
                   units, measured, saved, dead>>

PrepCancel ==
    /\ ~dead /\ leg \in {"resolving", "walking"} /\ Mishap(1)
    /\ dead' = TRUE
    /\ UNCHANGED <<given, leg, cursor, judged, fate, rows, oracles, detected,
                   units, measured, saved>>

\* Phase one's turn of a target.
PhaseOne(i) ==
    ResolveSkips(i) \/ ValidationSkips(i) \/ Resolves(i) \/ ResolutionFails(i)

\* probeGroupBaselines.
ProbesBaselines(i) ==
    \E g \in Groups :
        \/ GroupSkips(i, g) \/ GroupKnown(i, g) \/ GroupServed(i, g)
        \/ GroupPasses(i, g) \/ GroupFails(i, g)

\* prepareTarget.
PreparesSymbol(i) ==
    /\ ~asked[i].shaped
    /\ \/ StagedRefuses(i) \/ DetectionSkips(i) \/ ServeCheckRefuses(i)
       \/ StampRefuses(i) \/ Serves(i) \/ ServeDecides(i) \/ Measures(i)
       \/ BuildsUnit(i) \/ Proves(i) \/ ProofSkips(i)
       \/ EnumerationRefuses(i) \/ Enumerates(i)
       \/ ProbesBaselines(i) \/ HandsOver(i)

\* prepareShaped: no flagged candidate, no extension, no enumeration to fail.
PreparesShape(i) ==
    /\ asked[i].shaped
    /\ \/ StagedRefuses(i) \/ DetectionSkips(i) \/ ServeCheckRefuses(i)
       \/ StampRefuses(i) \/ ServesShape(i) \/ ServeDecides(i) \/ Measures(i)
       \/ BuildsUnit(i) \/ Proves(i) \/ ProofSkips(i) \/ Enumerates(i)
       \/ ProbesBaselines(i) \/ HandsOver(i)

PrepStep ==
    \/ \E i \in Asked :
           \/ PhaseOne(i) \/ DeliversWithheld(i)
           \/ PreparesSymbol(i) \/ PreparesShape(i)
           \/ Commits(i) \/ RefusesLate(i)
    \/ Starts \/ Views \/ WalkedAll \/ PrepReturns

PrepNext == PrepStep \/ PrepAborts \/ PrepCancel

PrepSpec == PrepInit /\ [][PrepNext]_prepVars

------------------------------------------------------------------------------

RowOf(i) == {rows[n].action : n \in {m \in DOMAIN rows : rows[m].target = i}}

\* The decision stream is the targets' order and tells the truth about
\* each: one row per target walked, resolution's skips in their place; a
\* measure announced by a run has every baseline; a served symbol is saved
\* before it is announced; a plan saves nothing; a run that returns clean
\* decided and completed every target and refused none
\* (REQ-exec-run-status, REQ-exec-completion, REQ-exec-plan-only).
RowsAreTrue ==
    /\ \A n \in DOMAIN rows : rows[n].target = n
    /\ leg \in {"walking", "walked", "returned", "drifted"} => Len(rows) = cursor - 1
    /\ \A i \in Asked :
           /\ fate[i] = "measuring" => \A g \in OracleGroups(i) : base[g] = "passed"
           /\ "cached" \in RowOf(i) /\ fate[i] = "cached" /\ ~planning
                  => i \in saved \/ asked[i].shaped
           /\ planning => i \notin saved
           /\ leg = "returned" =>
                  fate[i] \in {"skipped", "cached", IF planning THEN "planned" ELSE "committed"}

\* A group's baseline is measured once for all the targets that share it, by
\* whichever comes to it first: never again after it passed or failed, never
\* for a plan; one that failed fails every sibling (no target is committed on
\* it), and only one that passed waits to be banked (REQ-exec-quiescence's
\* baseline locality, REQ-result-baseline-bank).
BaselinesOnce ==
    /\ \A g \in Groups :
           /\ probes[g] <= 1
           /\ planning => probes[g] = 0
           /\ g \in pending => base[g] = "passed"
    /\ \A i \in Asked : fate[i] = "committed" => \A g \in OracleGroups(i) : base[g] = "passed"
==============================================================================
