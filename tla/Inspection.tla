------------------------------ MODULE Inspection ------------------------------
(***************************************************************************)
(* One inspection pass over many records (inspectFindings and what it      *)
(* calls in src/freshness.go; the closure signpost of src/gomutant.go      *)
(* reads it record by record, every other face all or nothing).            *)
(*                                                                         *)
(* Every record is admitted, the subjects the undecided ones read are      *)
(* viewed together, once per package-process posture, and every record is  *)
(* judged from those views, or from its own where they lack a subject.     *)
(* A view is built for a module at once, and for one package at a time     *)
(* where that fails.  Views are gofresh's: what one holds is whether it    *)
(* exists.  The tree rests while it is inspected; a mishap is a build or a *)
(* walk that fails this time.                                              *)
(***************************************************************************)
EXTENDS Naturals, FiniteSets, Sequences, FiniteSetsExt

CONSTANTS
    Trees,        \* loaded trees, over one set of symbols
    Pool,         \* records over those symbols
    MaxRecords, MaxMishaps

\* A record's tests sort, and each subject it names has a row.
ASSUME InspectionAssumption ==
    /\ MaxRecords \in Nat /\ MaxMishaps \in Nat
    /\ \A r \in Pool : \A s \in {r.target} \cup r.oracle :
           s \in DOMAIN r.rows /\ r.rows[s] \in {"current", "stale", "unverifiable"}
    /\ \A r \in Pool : \A T \in SUBSET r.oracle :
           T # {} => \E o \in T : \A p \in T : o <= p

VARIABLES
    loaded,     \* the tree: module and pkg of each symbol, what is declared, an
                \* oracle test, broken (its closure does not load), bare (does
                \* not resolve or capture), down (modules without an engine)
    batch,      \* the records inspected
    tolerant,   \* the reader takes every record's outcome (bestEffort)
    pass, next, \* how far the pass is, and at which record
    admitted,   \* what each record's pre-checks said
    views,      \* the subjects the shared views serve, by posture
    told,       \* what the pass says of each record
    hit,        \* records that met a mishap of their own
    signposted, \* the records a signpost names
    mishaps

inspectionVars == <<loaded, batch, tolerant, pass, next, admitted, views, told,
                    hit, signposted, mishaps>>

------------------------------------------------------------------------------
(* Admission: the checks that need no view.                                *)

\* packageProcessAttestable: every oracle test is of the target's package.
PackageProcess(r) == \A o \in r.oracle : loaded.pkg[o] = loaded.pkg[r.target]

Inspected(state, by) == [state |-> state, by |-> by, modified |-> {}]
Untold  == Inspected("none", {})
Erred   == Inspected("error", {})

\* A pre-check decides a record, fails it, or leaves it to the views of symbols.
Concludes(state, by) == [is |-> "decided", symbols |-> {}, says |-> Inspected(state, by)]
Fails                == [is |-> "error", symbols |-> {}, says |-> Erred]
Undecided(symbols)   == [is |-> "open", symbols |-> symbols, says |-> Untold]

\* The delta names tests whose bodies changed, if the record has a ledger and a
\* recorded test is still in the derived oracle: that reads the target's view.
DerivedMoved(r) == ~r.explicit /\ loaded.derived[r.target] # r.oracle
Retained(r)     == r.oracle \cap loaded.derived[r.target]
Enriched(r)     == r.ledger /\ Retained(r) # {}

Delta(r) == [is |-> "decided", says |-> Inspected("stale", {"oracle"}),
             symbols |-> IF Enriched(r) THEN {r.target} ELSE {}]

ValidOracle(r) == r.oracle \cap loaded.tests

AdmitsShape(r) ==
    IF ~r.operators THEN Concludes("stale", {"operators"})
    ELSE IF ~r.timed THEN Fails
    ELSE IF ~r.holds THEN Concludes("stale", {"shape"})
    ELSE IF ~r.policy THEN Concludes("stale", {"policy"})
    ELSE Undecided(ValidOracle(r))

AdmitsSymbol(r) ==
    IF r.target \notin loaded.declared
    THEN Concludes(IF r.ours THEN "detached" ELSE "stale", {"target"})
    ELSE IF ~r.operators THEN Concludes("stale", {"operators"})
    ELSE IF ~r.timed THEN Fails
    ELSE IF ~r.policy THEN Concludes("stale", {"policy"})
    ELSE IF DerivedMoved(r) THEN Delta(r)
    ELSE Undecided({r.target} \cup ValidOracle(r))

Admission(r) == IF r.shaped THEN AdmitsShape(r) ELSE AdmitsSymbol(r)

------------------------------------------------------------------------------
(* Views.                                                                  *)

Modules  == {loaded.module[s] : s \in DOMAIN loaded.module}
Packages == {loaded.pkg[s] : s \in DOMAIN loaded.pkg}
Builds   == ({"engine", "view"} \X Modules) \cup ({"view"} \X Packages)

\* What may fail this time.
Unlucky == {u \in SUBSET Builds : Cardinality(u) + mishaps <= MaxMishaps}

Mates(S, of, s) == {t \in S \ loaded.bare : of[t] = of[s]}
Loads(S) == S \cap loaded.broken = {}

\* The subjects of S that get a view: in their module's, or in their package's
\* where the module's does not load; and are captured in it.
Served(S, unlucky) ==
    {s \in S \ loaded.bare :
        /\ loaded.module[s] \notin loaded.down
        /\ <<"engine", loaded.module[s]>> \notin unlucky
        /\ \/ /\ Loads(Mates(S, loaded.module, s))
              /\ <<"view", loaded.module[s]>> \notin unlucky
           \/ /\ Loads(Mates(S, loaded.pkg, s))
              /\ <<"view", loaded.pkg[s]>> \notin unlucky}

\* Mutant of Prebuilt: whatever a shared view serves.
PrebuiltAny(posture) == views[TRUE] \cup views[FALSE]

\* The shared views a record may read: those built under its own posture.
Prebuilt(posture) == views[posture]

\* The record's other subjects are viewed on their own.
Missing(i) == admitted[i].symbols \ Prebuilt(PackageProcess(batch[i]))

------------------------------------------------------------------------------
(* Judgment.                                                               *)

\* A row is checked under the posture it was recorded under, or says nothing.
RowsRead(i) ==
    LET r == batch[i]
        own == views[PackageProcess(r)] \cup Missing(i)
    IN [s \in DOMAIN r.rows |-> IF s \in own THEN r.rows[s] ELSE "unverifiable"]

\* The target is inspected first, then the oracle tests in order; the first
\* that is not current decides, then the record's own fault, then its flagged
\* candidates.
Judged(r, rows) ==
    LET unsound == {o \in r.oracle : o \notin loaded.tests \/ rows[o] # "current"}
        first   == Min(unsound)
    IN IF ~r.shaped /\ rows[r.target] # "current" THEN Inspected(rows[r.target], {"target"})
       ELSE IF unsound # {}
       THEN Inspected(IF first \in loaded.tests THEN rows[first] ELSE "stale", {"oracle"})
       ELSE IF r.fault THEN Inspected("unverifiable", {"fault"})
       ELSE IF r.flagged THEN Inspected("unverifiable", {"candidates"})
       ELSE Inspected("current", {})

\* A decided delta names the tests its view shows edited, if it gets the view.
Modified(r) == r.edited \cap Retained(r)

Named(said, tests) == [said EXCEPT !.modified = tests]

Outcome(i, unlucky) ==
    LET viewed == Missing(i) \subseteq Served(Missing(i), unlucky)
    IN CASE admitted[i].is = "decided" ->
              IF admitted[i].symbols = {} THEN admitted[i].says
              ELSE Named(admitted[i].says, IF viewed THEN Modified(batch[i]) ELSE {})
         [] admitted[i].is = "open" ->
              IF viewed THEN Judged(batch[i], RowsRead(i)) ELSE Erred

------------------------------------------------------------------------------
(* The pass.                                                               *)

InspectionInit ==
    /\ loaded \in Trees
    /\ batch \in UNION {[1 .. n -> Pool] : n \in 1 .. MaxRecords}
    /\ tolerant \in BOOLEAN
    /\ pass = "admitting" /\ next = 1
    /\ admitted = [i \in DOMAIN batch |-> Undecided({})]
    /\ views = [p \in BOOLEAN |-> {}]
    /\ told = [i \in DOMAIN batch |-> Untold]
    /\ hit = {} /\ signposted = {} /\ mishaps = 0

\* What follows a record: the next one, or, at the first error of a reader that
\* wants all or nothing, the end.
Onward(errs, after) ==
    IF errs /\ ~tolerant THEN pass' = "failed" /\ UNCHANGED next
    ELSE IF next < Len(batch) THEN next' = next + 1 /\ UNCHANGED pass
    ELSE pass' = after /\ next' = 1

Admits ==
    /\ pass = "admitting"
    /\ \/ /\ admitted' = [admitted EXCEPT ![next] = Admission(batch[next])]
          /\ UNCHANGED <<hit, mishaps>>
       \/ /\ ~batch[next].shaped /\ mishaps < MaxMishaps    \* the walks of the tree
          /\ admitted' = [admitted EXCEPT ![next] = Fails]
          /\ hit' = hit \cup {next}
          /\ mishaps' = mishaps + 1
    /\ told' = [told EXCEPT ![next] =
                   IF admitted'[next].is = "error" THEN Erred ELSE Untold]
    /\ Onward(admitted'[next].is = "error", "viewing")
    /\ UNCHANGED <<loaded, batch, tolerant, views, signposted>>

\* Each posture's shared views, built apart; no fault of theirs is anyone's error.
BuildsViews ==
    /\ pass = "viewing"
    /\ pass' = "judging"
    /\ \E unlucky \in [BOOLEAN -> Unlucky] :
           /\ mishaps' = mishaps + Cardinality(unlucky[TRUE]) + Cardinality(unlucky[FALSE])
           /\ mishaps' <= MaxMishaps
           /\ views' = [p \in BOOLEAN |->
                  Served(UNION {admitted[i].symbols :
                             i \in {j \in DOMAIN batch : PackageProcess(batch[j]) = p}},
                         unlucky[p])]
    /\ UNCHANGED <<loaded, batch, tolerant, next, admitted, told, hit, signposted>>

SkipsErred ==
    /\ pass = "judging" /\ admitted[next].is = "error"
    /\ Onward(FALSE, "judged")
    /\ UNCHANGED <<loaded, batch, tolerant, admitted, views, told, hit, signposted, mishaps>>

Judges ==
    /\ pass = "judging" /\ admitted[next].is # "error"
    /\ \E unlucky \in Unlucky :
           /\ Missing(next) = {} => unlucky = {}
           /\ told' = [told EXCEPT ![next] = Outcome(next, unlucky)]
           /\ hit' = IF unlucky = {} THEN hit ELSE hit \cup {next}
           /\ mishaps' = mishaps + Cardinality(unlucky)
    /\ Onward(told'[next] = Erred, "judged")
    /\ UNCHANGED <<loaded, batch, tolerant, admitted, views, signposted>>

\* OracleClosureSignpostContext: the records stale for a reason that begins with
\* "oracle", the erring ones aside.  A record without the execution policy reads
\* that way too.
OracleCaused(said) == said.state = "stale" /\ said.by \cap {"oracle", "policy"} # {}

Signposts ==
    /\ pass = "judged" /\ tolerant
    /\ pass' = "told"
    /\ signposted' = {i \in DOMAIN batch : OracleCaused(told[i])}
    /\ UNCHANGED <<loaded, batch, tolerant, next, admitted, views, told, hit, mishaps>>

\* Only a cancellation ends the pass with nothing told.
CancelsPass ==
    /\ pass \in {"admitting", "viewing", "judging"}
    /\ pass' = "cancelled"
    /\ told' = [i \in DOMAIN batch |-> Untold]
    /\ UNCHANGED <<loaded, batch, tolerant, next, admitted, views, hit, signposted, mishaps>>

InspectionNext ==
    Admits \/ BuildsViews \/ SkipsErred \/ Judges \/ Signposts \/ CancelsPass

InspectionSpec == InspectionInit /\ [][InspectionNext]_inspectionVars

------------------------------------------------------------------------------
\* What a record is told when nothing is shared and nothing fails but for the
\* tree's own reasons: a subject without a view of its own fails who reads it.
Viewable(s) == s \notin loaded.bare \cup loaded.broken /\ loaded.module[s] \notin loaded.down

Alone(r) ==
    LET said == Admission(r) IN
    CASE said.is = "error"   -> Erred
      [] said.is = "decided" ->
            IF said.symbols = {} THEN said.says
            ELSE Named(said.says, IF Viewable(r.target) THEN Modified(r) ELSE {})
      [] said.is = "open"    ->
            IF \A s \in said.symbols : Viewable(s) THEN Judged(r, r.rows) ELSE Erred

Agrees(i) ==
    \/ told[i] = Alone(batch[i])
    \/ i \in hit /\ told[i] \in {Erred, Named(Alone(batch[i]), {})}

\* A pass is only cheaper than its records one by one: what it tells of each is
\* what that record would be told alone, whichever records share its views,
\* whatever fails while those are built and whatever the others' subjects are
\* like; a failure while a record's own views are built costs that record its
\* verdict, or the names of its edited tests, and no other's (InspectFindings).
\* A reader that takes all or nothing has no error in what it takes.
BatchAgrees ==
    /\ \A i \in DOMAIN batch : told[i] # Untold => Agrees(i)
    /\ pass \in {"judged", "told"} =>
           /\ \A i \in DOMAIN batch : told[i] # Untold
           /\ tolerant \/ \A i \in DOMAIN batch : told[i] # Erred
    /\ \A i \in signposted : OracleCaused(Alone(batch[i]))
==============================================================================
