------------------------------ MODULE Selections ------------------------------
(***************************************************************************)
(* One symbol's records under several build selections in one document     *)
(* (src/findings.go, src/run.go annotateCrossSelection): each selection is *)
(* measured, attested and retired on its own, and every write notes on a   *)
(* survivor what the other selections' records say of the same mutant.     *)
(* A note is written as text and read back by every parse of the record    *)
(* that carries it.                                                        *)
(*                                                                         *)
(* A run works from the records it read at its start; acts and retirements *)
(* land in between.  Which dispositions a merge keeps is module Ledger's:  *)
(* here a fresh record keeps those of a mutant that still survives in an   *)
(* unmoved body.                                                           *)
(***************************************************************************)
EXTENDS Naturals, FiniteSets

CONSTANTS
    Selections,   \* build selections, by their canonical keys
    Default,      \* the undeclared one
    Points,       \* mutants: position and operator
    Bodies,       \* contents of the symbol: body hash, operator set and sites
    NoneSuch,     \* no record, no run, no selection named
    MaxSteps      \* bound: writes

VARIABLES
    rows,     \* the document's records of the symbol, by selection
    body,     \* the symbol in the tree
    running,  \* the campaign under way: its selection, what it read
    named,    \* the selection the last step was asked about
    failed,   \* what the last write was refused for
    steps     \* bounded counter

selectionVars == <<rows, body, running, named, failed, steps>>

\* What a record says of a mutant.  An attestation's reasoning is a line, or
\* several: ValidateAttestationReason asks only that it is not blank.
Attested == {"attested", "attested lines"}
Says     == {"killed", "survived"} \cup Attested
Fates    == Says \cup {"absent"}

Held(rs)  == {s \in Selections : rs[s] # NoneSuch}
Survives(r, p) == r.fate[p] \in Attested \cup {"survived"}
NoNotes   == [p \in Points |-> {}]

\* A record: what was measured, under an admitted oracle policy or an old one,
\* and what it notes of the others.
Row == [body : Bodies, admitted : BOOLEAN, fate : [Points -> Fates],
        notes : [Points -> SUBSET [by : Selections, says : Says]]]

ASSUME SelectionsAssumption ==
    /\ IsFiniteSet(Selections)
    /\ Default \in Selections
    /\ NoneSuch \notin Selections \cup Bodies \cup Row

------------------------------------------------------------------------------
(* The notes.                                                              *)

\* selectionVerdictFrom: a record under another selection speaks of a mutant
\* it measured in the same body under an admitted oracle policy.
Speaks(rs, s, other, p) ==
    /\ other \in Held(rs) \ {s}
    /\ rs[other].admitted
    /\ rs[other].body = rs[s].body
    /\ rs[other].fate[p] # "absent"

NotesOn(rs, s) ==
    [p \in Points |->
        IF rs[s].admitted /\ Survives(rs[s], p)
        THEN {[by |-> o, says |-> rs[o].fate[p]] :
                  o \in {t \in Selections : Speaks(rs, s, t, p)}}
        ELSE {}]

\* AnnotateSelectionVerdicts: a record without a sibling is left as it is.
Annotated(rs) ==
    IF Cardinality(Held(rs)) < 2 THEN rs
    ELSE [s \in Selections |->
             IF rs[s] = NoneSuch THEN NoneSuch
             ELSE [rs[s] EXCEPT !.notes = NotesOn(rs, s)]]

\* parseSelectionVerdicts: notes are one line each, so a reasoning of several
\* lines is read back as a line that says nothing known.
Parses(r) ==
    \A p \in Points : \A n \in r.notes[p] : n.says # "attested lines"

------------------------------------------------------------------------------
(* Writes.  Every record a write changes is parsed before the write lands,  *)
(* and one that does not parse refuses the write whole.                     *)

Write(next, what) ==
    LET changed == {s \in Held(next) : next[s] # rows[s]}
        lands   == \A s \in changed : Parses(next[s])
    IN  /\ steps < MaxSteps
        /\ steps' = steps + 1
        /\ rows' = IF lands THEN next ELSE rows
        /\ failed' = IF lands THEN NoneSuch ELSE what

SelectionsInit ==
    /\ body \in Bodies
    /\ rows \in [Selections -> {NoneSuch} \cup
                    {r \in [body : {body}, admitted : BOOLEAN, fate : [Points -> Fates],
                            notes : {NoNotes}] : ~r.admitted}]
    /\ running = NoneSuch
    /\ named = NoneSuch
    /\ failed = NoneSuch
    /\ steps = 0

\* Run reads the document's records; the campaign lock admits one.
Begins(s) ==
    /\ running = NoneSuch
    /\ steps < MaxSteps
    /\ running' = [sel |-> s, read |-> Annotated(rows)]
    /\ named' = s
    /\ failed' = NoneSuch
    /\ UNCHANGED <<rows, body, steps>>

\* A fresh measure, with the dispositions that still stand for it.
Remeasured(fate, prior) ==
    [body |-> body, admitted |-> TRUE, notes |-> NoNotes,
     fate |-> [p \in Points |->
                  IF /\ fate[p] = "survived" /\ prior # NoneSuch
                     /\ prior.body = body /\ prior.fate[p] \in Attested
                  THEN prior.fate[p] ELSE fate[p]]]

\* The target's commit: the record is noted against the siblings the run read,
\* merged into the live document and noted again (MergeFindings).
Commits ==
    /\ running # NoneSuch
    /\ \E fate \in [Points -> {"killed", "survived", "absent"}] :
           LET s == running.sel
               f == Annotated([running.read EXCEPT ![s] = Remeasured(fate, rows[s])])[s]
           IN  Write(Annotated([rows EXCEPT ![s] = f]), "measure")
    /\ named' = running.sel
    /\ running' = NoneSuch
    /\ UNCHANGED body

\* A whole-tree run that no longer discovers the symbol sheds its own record
\* and no other selection's (MergeWholeFindingsForSelection).
DetachesAll ==
    /\ running # NoneSuch
    /\ Write([s \in Selections |-> NoneSuch], "detach")
    /\ named' = running.sel
    /\ running' = NoneSuch
    /\ UNCHANGED body

Detaches ==
    /\ running # NoneSuch
    /\ Write(Annotated([Annotated(rows) EXCEPT ![running.sel] = NoneSuch]), "detach")
    /\ named' = running.sel
    /\ running' = NoneSuch
    /\ UNCHANGED body

\* A lifecycle verb retires a record and leaves the others as they are.
Prunes(s) ==
    /\ rows[s] # NoneSuch
    /\ Write([rows EXCEPT ![s] = NoneSuch], "prune")
    /\ named' = s
    /\ UNCHANGED <<body, running>>

\* The record a disposition addresses: the named selection's, else the
\* undeclared one's, else the only one there is.
Addressed(asked) ==
    IF asked # NoneSuch THEN {asked} \cap Held(rows)
    ELSE IF Default \in Held(rows) THEN {Default}
    ELSE IF Cardinality(Held(rows)) = 1 THEN Held(rows) ELSE {}

\* Attest, Reattest, WithdrawAttestation: on a survivor, the first two under
\* an admitted policy; every record is noted again.
Disposes(asked, p, fate) ==
    \E s \in Addressed(asked) :
        /\ Survives(rows[s], p)
        /\ IF fate = "survived" THEN rows[s].fate[p] \in Attested ELSE rows[s].admitted
        /\ Write(Annotated([rows EXCEPT ![s].fate[p] = fate]),
                 IF fate = "survived" THEN "withdraw" ELSE "attest")
        /\ named' = asked
        /\ UNCHANGED <<body, running>>

\* External: the author edits the symbol.
Rewrites(b) ==
    /\ b # body /\ steps < MaxSteps
    /\ body' = b
    /\ named' = NoneSuch /\ failed' = NoneSuch
    /\ UNCHANGED <<rows, running, steps>>

SelectionsNext ==
    \/ \E s \in Selections : Begins(s) \/ Prunes(s)
    \/ Commits \/ Detaches
    \/ \E asked \in Selections \cup {NoneSuch}, p \in Points,
          fate \in Attested \cup {"survived"} : Disposes(asked, p, fate)
    \/ \E b \in Bodies : Rewrites(b)

SelectionsSpec == SelectionsInit /\ [][SelectionsNext]_selectionVars

------------------------------------------------------------------------------
\* What a record's own measurement is: everything but the notes.
Own(r) == IF r = NoneSuch THEN r ELSE [body |-> r.body, fate |-> r.fate]

\* Selections stand apart: no run, disposition or retirement under one ever
\* changes what another's record measured, and one that names no selection
\* only ever meets the undeclared record or the only one there is
\* (MergeWholeFindingsForSelection, AttestFindingWithOptions).
SelectionsApart ==
    [][\A s \in Selections : Own(rows'[s]) # Own(rows[s]) =>
           \/ named' = s
           \/ named' = NoneSuch
              /\ (s = Default \/ Held(rows) = {s})]_selectionVars

\* "A survivor MUST be dispositionable as equivalent with a recorded reason,
\* refused unless the named mutant is among the record's current survivors
\* and its oracle execution policy passes": an attestation of such a survivor
\* is written (docs/specs/results.md REQ-attest-survivor).
AttestationsLand == failed # "attest"
==============================================================================
