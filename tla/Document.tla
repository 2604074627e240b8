------------------------------- MODULE Document -------------------------------
(***************************************************************************)
(* The findings document as bytes (src/findings.go, src/interned.go): what *)
(* a run measured is laid out in tables, written, read back by a later     *)
(* binary or one that knows older layouts, and judged record by record.    *)
(*                                                                         *)
(* Versions 4 to 10 hold every record inline, 11 to 13 refer to tables by  *)
(* position, 14 and later by content key; up to 12 an evidence row is      *)
(* flat.  A reading is a set: empty when the document is refused.  So is a *)
(* manifest: empty when there is none.  Lists of mutants are sets, so an   *)
(* entry of theirs is never there twice.                                   *)
(***************************************************************************)
EXTENDS Naturals, FiniteSets, SequencesExt

CONSTANTS
    Documents    \* what is measured: [findings |-> <<...>>, bounds |-> ...]

Current == 17
Oldest  == 4

VARIABLES
    truth,     \* the document as measured, or as last read
    collides,  \* the kind of entry whose content keys all coincide, or "none"
    file,      \* the bytes: a set of at most one layout
    mark,      \* what was done to the bytes by hand: a set of at most one
    held,      \* the last reading
    stage      \* "measured", "written" or "read"

documentVars == <<truth, collides, file, mark, held, stage>>

------------------------------------------------------------------------------
(* Records.                                                                *)

\* SubjectEvidence: whose it is, whether every pin a serving path reads is
\* there, the runtime-inputs manifest, and how the runtime was observed.
Zero == [of |-> "", pins |-> "zero", inputs |-> {}, ran |-> ""]
Evidence(of, inputs, ran) ==
    [of |-> of, pins |-> "complete", inputs |-> inputs, ran |-> ran]

With(outcome, what) == {p \in DOMAIN outcome : outcome[p] = what}

\* summarizeOperators: the outcomes of one operator's mutants.
Summary(outcome, op) ==
    LET count(what) == Cardinality({p \in With(outcome, what) : p.op = op})
    IN  [generated |-> Cardinality({p \in DOMAIN outcome : p.op = op}),
         discarded |-> count("discarded"), killed |-> count("killed"),
         survived |-> count("survived")]

Operators(outcome) ==
    [op \in {p.op : p \in DOMAIN outcome} |-> Summary(outcome, op)]

Total(ops, field) ==
    FoldFunction(+, 0, [op \in DOMAIN ops |-> ops[op][field]])

\* A finished measurement: the tallies are summed from the operators', over
\* the candidates a budget left.
Measured(about, budget, left, outcome) ==
    LET ops == Operators(outcome)
    IN  [symbol     |-> about.symbol, selection |-> about.selection,
         target     |-> about.target, oracles |-> about.oracles,
         ledger     |-> about.ledger,
         explicit   |-> about.explicit, dirty |-> about.dirty,
         shaped     |-> about.target = Zero,
         commit     |-> "head",
         budget     |-> budget,
         candidates |-> Cardinality(DOMAIN outcome) + left,
         generated  |-> Cardinality(DOMAIN outcome),
         discarded  |-> Total(ops, "discarded"),
         killed     |-> Total(ops, "killed"),
         mutants    |-> Total(ops, "killed") + Total(ops, "survived"),
         operators  |-> ops,
         kills      |-> With(outcome, "killed"),
         survivors  |-> With(outcome, "survived"),
         noted      |-> {}, attested |-> {}, withdrawn |-> {}, flagged |-> {}]

------------------------------------------------------------------------------
(* What a record must be to be read: decodeInlineFinding.                  *)

EvidenceComplete(e) ==
    e.of # "" /\ e.pins = "complete" /\ e.inputs # {}

\* The target's row is the symbol's own, absent from a shaped record; the
\* oracle's rows are one to a test; the runtime is the whole finding's.
RowsHold(f) ==
    LET anchor == IF f.shaped THEN f.oracles[1] ELSE f.target
    IN  /\ IF f.shaped THEN f.target = Zero
           ELSE EvidenceComplete(f.target) /\ f.target.of = f.symbol
        /\ f.oracles # <<>>
        /\ \A i \in DOMAIN f.oracles :
              /\ EvidenceComplete(f.oracles[i])
              /\ \A j \in DOMAIN f.oracles \ {i} : f.oracles[j].of # f.oracles[i].of
              /\ f.oracles[i].inputs = anchor.inputs
              /\ f.oracles[i].ran = anchor.ran

\* Counts reconcile, and kills are attributed all or none.
TalliesHold(f) ==
    /\ f.killed <= f.mutants
    /\ Cardinality(f.survivors) = f.mutants - f.killed
    /\ f.kills # {} => Cardinality(f.kills) = f.killed /\ f.kills \cap f.survivors = {}
    /\ f.generated = f.mutants + f.discarded
    /\ f.generated = IF f.budget > 0 /\ f.budget < f.candidates
                     THEN f.budget ELSE f.candidates

SummariesHold(f) ==
    /\ \A op \in DOMAIN f.operators :
          LET s == f.operators[op]
          IN  /\ s.generated > 0
              /\ s.generated = s.discarded + s.killed + s.survived
              /\ s.survived = Cardinality({p \in f.survivors : p.op = op})
    /\ Total(f.operators, "generated") = f.generated
    /\ Total(f.operators, "discarded") = f.discarded
    /\ Total(f.operators, "killed") = f.killed
    /\ Total(f.operators, "survived") = Cardinality(f.survivors)

\* A flagged candidate is disposed as the record disposes of it.
FlagsHold(f) ==
    LET as(what, op) == {g \in f.flagged : g.says = what /\ g.point.op = op}
    IN  /\ \A g \in f.flagged : (g.says = "survived") <=> (g.point \in f.survivors)
        /\ \A g, h \in f.flagged : g.point = h.point => g = h
        /\ \A op \in {g.point.op : g \in f.flagged} :
              /\ op \in DOMAIN f.operators
              /\ Cardinality(as("killed", op)) <= f.operators[op].killed
              /\ Cardinality(as("discarded", op)) <= f.operators[op].discarded

DispositionsHold(f) ==
    /\ f.attested \cup f.withdrawn \subseteq f.survivors
    /\ f.attested \cap f.withdrawn = {}
    /\ \A n \in f.noted : n.point \in f.survivors /\ n.by # f.selection

Valid(f) ==
    /\ f.commit # "" \/ f.dirty
    /\ RowsHold(f) /\ TalliesHold(f) /\ SummariesHold(f)
    /\ FlagsHold(f) /\ DispositionsHold(f)

\* What version 17 brought may not stand under a lower one.
OfVersion17(f) == f.selection # "" \/ f.withdrawn # {} \/ f.noted # {}

RowKey(g, v) == IF v >= 17 THEN <<g.symbol, g.selection>> ELSE <<g.symbol>>

\* Every record judged for itself, and no two of one key.
AllValid(fs, v) ==
    /\ \A i \in DOMAIN fs : Valid(fs[i]) /\ (OfVersion17(fs[i]) => v >= 17)
    /\ \A i, j \in DOMAIN fs : RowKey(fs[i], v) = RowKey(fs[j], v) => i = j

------------------------------------------------------------------------------
(* What is measured is typed, and a record that may be read: the store's   *)
(* rows are parsed forms, and an export parses what it wrote.              *)

IsSequence(s) == s \in Seq(Range(s))
IsEvidence(e) == e = [of |-> e.of, pins |-> e.pins, inputs |-> e.inputs, ran |-> e.ran]
IsSummary(s)  == s \in [generated : Nat, discarded : Nat, killed : Nat, survived : Nat]

Names  == {"symbol", "selection", "commit"}
Switches == {"explicit", "dirty", "shaped"}
Counts == {"budget", "candidates", "generated", "discarded", "killed", "mutants"}
Lists  == {"kills", "survivors", "noted", "attested", "withdrawn", "flagged", "ledger"}
Fields == Names \cup Switches \cup Counts \cup Lists \cup {"target", "oracles", "operators"}

IsFinding(f) ==
    /\ f = [x \in Fields |-> f[x]]
    /\ \A x \in Switches : f[x] \in BOOLEAN
    /\ \A x \in Counts : f[x] \in Nat
    /\ \A x \in Lists : IsFiniteSet(f[x])
    /\ IsEvidence(f.target)
    /\ IsSequence(f.oracles) /\ \A i \in DOMAIN f.oracles : IsEvidence(f.oracles[i])
    /\ IsFiniteSet(DOMAIN f.operators)
    /\ f.operators = [op \in DOMAIN f.operators |-> f.operators[op]]
    /\ \A op \in DOMAIN f.operators : IsSummary(f.operators[op])

IsDocument(d) ==
    /\ d = [findings |-> d.findings, bounds |-> d.bounds]
    /\ IsSequence(d.findings)
    /\ \A i \in DOMAIN d.findings : IsFinding(d.findings[i])
    /\ AllValid(d.findings, Current)

ASSUME DocumentsAssumption == \A d \in Documents : IsDocument(d)

------------------------------------------------------------------------------
(* Layouts.                                                                *)

Shape(v)    == IF v >= 14 THEN "keyed" ELSE IF v >= 11 THEN "positional" ELSE "inline"
Flat(v)     == v < 13
Bounded(v)  == v >= 12
Cleared(e)  == [e EXCEPT !.inputs = {}]
Heavy(f)    == (IF f.shaped THEN {} ELSE {f.target}) \cup Range(f.oracles)
Light(f)    == [f EXCEPT !.target = Zero, !.oracles = <<>>, !.ledger = {}]

\* contentKey: a digest of the entry's bytes.
Key(kind, content) == IF collides = kind THEN "same" ELSE content

InputsKey(m)   == Key("inputs", m)
EvidenceKey(e) == Key("evidence", <<InputsKey(e.inputs), Cleared(e)>>)
LedgerKey(l)   == Key("ledger", l)

Clash(keys) == \E a, b \in DOMAIN keys : a # b /\ keys[a] = keys[b]

Tables(fs) ==
    LET evidence == UNION {Heavy(fs[i]) : i \in DOMAIN fs}
    IN  [evidence |-> evidence,
         inputs   |-> {e.inputs : e \in evidence},
         ledgers  |-> UNION {fs[i].ledger : i \in DOMAIN fs}]

Keyed(t) ==
    [evidence |-> [e \in t.evidence |-> EvidenceKey(e)],
     inputs   |-> [m \in t.inputs |-> InputsKey(m)],
     ledgers  |-> [l \in t.ledgers |-> LedgerKey(l)]]

\* The rows of a tabled layout, which refer to entries by ev and led.
TableRows(fs, ev, led) ==
    [i \in DOMAIN fs |->
        [finding |-> Light(fs[i]), lost |-> {},
         target  |-> IF fs[i].shaped THEN {} ELSE {ev[fs[i].target]},
         oracles |-> [j \in DOMAIN fs[i].oracles |-> ev[fs[i].oracles[j]]],
         ledger  |-> {led[l] : l \in fs[i].ledger}]]

\* internDocument: each entry once, under its content key.
Tabled(doc) ==
    LET t == Keyed(Tables(doc.findings))
        one(keys) == {CHOOSE a \in DOMAIN keys : keys[a] = k : k \in Range(keys)}
    IN  [version |-> Current, shape |-> "keyed", flat |-> FALSE, defect |-> {},
         inputs   |-> SetToSeq({[key |-> InputsKey(m), content |-> m] :
                                   m \in one(t.inputs)}),
         evidence |-> SetToSeq({[key |-> EvidenceKey(e), content |-> Cleared(e),
                                 inputs |-> InputsKey(e.inputs)] :
                                   e \in one(t.evidence)}),
         ledgers  |-> SetToSeq({[key |-> LedgerKey(l), content |-> l] :
                                   l \in one(t.ledgers)}),
         rows     |-> TableRows(doc.findings, t.evidence, t.ledgers),
         bounds   |-> {doc.bounds}]

\* Two contents under one key, or a target's row on a shaped record, are
\* refused before anything is written.
Unchecked(doc) == {Tabled(doc)}

Interned(doc) ==
    LET t == Keyed(Tables(doc.findings))
    IN  IF \/ Clash(t.inputs) \/ Clash(t.evidence) \/ Clash(t.ledgers)
           \/ \E i \in DOMAIN doc.findings :
                 doc.findings[i].shaped /\ doc.findings[i].target # Zero
        THEN {} ELSE {Tabled(doc)}

\* External: the documents older binaries left.  A positional one may hold one
\* manifest at several positions.
Laid(doc, v) ==
    LET fs  == doc.findings
        evs == SetToSeq(Tables(fs).evidence)
        ls  == SetToSeq(Tables(fs).ledgers)
        positions(seq) == [x \in Range(seq) |-> CHOOSE i \in DOMAIN seq : seq[i] = x]
        tabled == Shape(v) # "inline"
        inTables(table) == IF tabled THEN table ELSE <<>>
    IN  [version |-> v, shape |-> Shape(v), flat |-> Flat(v), defect |-> {},
         inputs   |-> inTables([i \in DOMAIN evs |-> [key |-> i, content |-> evs[i].inputs]]),
         evidence |-> inTables([i \in DOMAIN evs |->
                          [key |-> i, content |-> Cleared(evs[i]), inputs |-> i]]),
         ledgers  |-> inTables([i \in DOMAIN ls |-> [key |-> i, content |-> ls[i]]]),
         rows     |-> IF tabled THEN TableRows(fs, positions(evs), positions(ls))
                      ELSE [i \in DOMAIN fs |->
                               [finding |-> fs[i], lost |-> {}, target |-> {},
                                oracles |-> <<>>, ledger |-> {}]],
         bounds   |-> IF Bounded(v) THEN {doc.bounds} ELSE {}]

------------------------------------------------------------------------------
(* Reading.                                                                *)

Entry(table, ref) == {x \in Range(table) : x.key = ref}
The(S) == CHOOSE x \in S : TRUE

\* An object is whole when no field it knows is null or there twice, and none
\* it requires is missing; a field it does not know is passed over.
Whole(f) == f.defect \subseteq {"unknown"}

\* A finding's own missing fields are an inline reading's refusal; a row of a
\* tabled layout decodes them to zero, and judges what it decoded.
Lossless(f) ==
    \A r \in Range(f.rows) : \A l \in r.lost :
        f.shape # "inline" /\ l \notin {"summary-generated", "summary-killed"}

Zeroed(r) ==
    LET f  == r.finding
        or0(l, value) == IF l \in r.lost THEN 0 ELSE value
        summary(op) == [f.operators[op] EXCEPT
                           !.discarded = or0("summary-discarded", @),
                           !.survived  = or0("summary-survived", @)]
    IN  [f EXCEPT !.explicit = @ /\ "explicit" \notin r.lost,
                  !.dirty    = @ /\ "dirty" \notin r.lost,
                  !.budget   = or0("budget", @),
                  !.mutants  = or0("mutants", @),
                  !.killed   = or0("killed", @),
                  !.operators = [op \in DOMAIN f.operators |-> summary(op)]]

\* upgradeLegacyEvidence: flat rows are lifted under the fingerprint's record
\* form.  A row read as the other form loses its fingerprint.
LiftedRow(f, e) ==
    IF f.flat = Flat(f.version) THEN e ELSE [Zero EXCEPT !.of = e.of, !.ran = e.ran]

LiftedRows(f, g) ==
    [g EXCEPT !.target  = LiftedRow(f, @),
              !.oracles = [j \in DOMAIN g.oracles |-> LiftedRow(f, g.oracles[j])]]

Lifted(f) ==
    LET entry(i) == [f.evidence[i] EXCEPT !.content = LiftedRow(f, @)]
        row(i)   == [f.rows[i] EXCEPT !.finding = LiftedRows(f, @)]
    IN  [f EXCEPT !.evidence = [i \in DOMAIN f.evidence |-> entry(i)],
                  !.rows     = [i \in DOMAIN f.rows |-> row(i)]]

\* The tables are the one home of what they hold, and a key names one content.
KeysUnchecked(f) == TRUE

Unrepeated(table) == \A i, j \in DOMAIN table : table[i].key = table[j].key => i = j

KeysHold(f) ==
    f.shape = "keyed" =>
        /\ Unrepeated(f.inputs) /\ Unrepeated(f.evidence) /\ Unrepeated(f.ledgers)
        /\ \A x \in Range(f.inputs) : x.key = InputsKey(x.content)
        /\ \A x \in Range(f.evidence) : x.key = Key("evidence", <<x.inputs, x.content>>)
        /\ \A x \in Range(f.ledgers) : x.key = LedgerKey(x.content)

RefsHold(f) ==
    /\ \A x \in Range(f.evidence) :
          x.content.inputs = {} /\ Entry(f.inputs, x.inputs) # {}
    /\ \A r \in Range(f.rows) :
          /\ r.finding = Light(r.finding)
          /\ \A ref \in r.target \cup Range(r.oracles) : Entry(f.evidence, ref) # {}
          /\ \A ref \in r.ledger : Entry(f.ledgers, ref) # {}

Manifest(f, ref) == The(Entry(f.inputs, ref)).content

\* The records are judged over stand-ins for their manifests: one to a
\* content, wherever it is held, and none for an empty one.
StandIn(f, ref) ==
    LET m == Manifest(f, ref)
    IN  IF m = {} THEN {}
        ELSE IF f.shape = "keyed" THEN {ref}
        ELSE {CHOOSE i \in DOMAIN f.inputs :
                 /\ f.inputs[i].content = m
                 /\ \A j \in 1..(i - 1) : f.inputs[j].content # m}

\* expandV11, expandDocument14: the records with their entries inlined, the
\* manifests or their stand-ins.
EvidenceAt(f, ref, stoodIn) ==
    LET x == The(Entry(f.evidence, ref))
    IN  IF x.content.pins = "zero" THEN x.content
        ELSE [x.content EXCEPT !.inputs =
                 IF stoodIn THEN StandIn(f, x.inputs) ELSE Manifest(f, x.inputs)]

Inlined(f, r, stoodIn) ==
    [Zeroed(r) EXCEPT
        !.target  = IF r.target = {} THEN Zero ELSE EvidenceAt(f, The(r.target), stoodIn),
        !.oracles = [j \in DOMAIN r.oracles |-> EvidenceAt(f, r.oracles[j], stoodIn)],
        !.ledger  = {The(Entry(f.ledgers, l)).content : l \in r.ledger}]

Expanded(f, stoodIn) == [i \in DOMAIN f.rows |-> Inlined(f, f.rows[i], stoodIn)]

Inline(f) ==
    LET fs == [i \in DOMAIN f.rows |-> f.rows[i].finding]
    IN  IF AllValid(fs, f.version) THEN {fs} ELSE {}

InTables(f) ==
    IF KeysHold(f) /\ RefsHold(f) /\ AllValid(Expanded(f, TRUE), f.version)
    THEN {Expanded(f, FALSE)} ELSE {}

\* A table laid out otherwise does not decode, unless there is nothing in it.
Decodes(f) ==
    \/ f.shape = Shape(f.version)
    \/ f.shape # "inline" /\ f.rows \o f.inputs \o f.evidence \o f.ledgers = <<>>

\* ParseDocument.
Parsed(f) ==
    LET v == f.version
        readable == /\ Oldest <= v /\ v <= Current
                    /\ Decodes(f)
                    /\ Bounded(v) => f.bounds # {}
                    /\ Whole(f) /\ Lossless(f)
        records == IF Shape(v) = "inline" THEN Inline(Lifted(f)) ELSE InTables(Lifted(f))
    IN  {[findings |-> fs, bounds |-> IF v >= 11 THEN UNION f.bounds ELSE {}] :
            fs \in IF readable THEN records ELSE {}}

------------------------------------------------------------------------------
(* External: a hand in the file, at one place.                             *)

Tallies  == {"generated", "mutants", "killed", "discarded"}
\* Fields no count depends on.
Untallied == {"explicit", "dirty", "budget"}
Losses   == Untallied \cup {"mutants", "killed", "summary-generated",
                "summary-killed", "summary-discarded", "summary-survived"}

Marked(how, S) == {[how |-> how, file |-> g] : g \in S}
Without(t, i)  == SubSeq(t, 1, i - 1) \o SubSeq(t, i + 1, Len(t))

InEntries(f) ==
    Marked("entry-edited",
        {[f EXCEPT !.inputs[i].content = {"other"}] : i \in DOMAIN f.inputs}
        \cup {[f EXCEPT !.evidence[i].content.ran = "other"] : i \in DOMAIN f.evidence}
        \cup {[f EXCEPT !.ledgers[i].content = "other"] : i \in DOMAIN f.ledgers})
    \cup Marked("entry-redirected",
        {[f EXCEPT !.evidence[i].inputs = f.inputs[j].key] :
            i \in DOMAIN f.evidence, j \in DOMAIN f.inputs})
    \cup Marked("entry-twice",
        {[f EXCEPT !.inputs = Append(@, f.inputs[i])] : i \in DOMAIN f.inputs}
        \cup {[f EXCEPT !.evidence = Append(@, f.evidence[i])] : i \in DOMAIN f.evidence}
        \cup {[f EXCEPT !.ledgers = Append(@, f.ledgers[i])] : i \in DOMAIN f.ledgers})
    \cup Marked("entry-dropped",
        {[f EXCEPT !.inputs = Without(@, i)] : i \in DOMAIN f.inputs}
        \cup {[f EXCEPT !.evidence = Without(@, i)] : i \in DOMAIN f.evidence}
        \cup {[f EXCEPT !.ledgers = Without(@, i)] : i \in DOMAIN f.ledgers})
    \cup Marked("manifest-inline",
        {[f EXCEPT !.evidence[i].content.inputs = Manifest(f, f.evidence[i].inputs)] :
            i \in DOMAIN f.evidence})
    \* to a row of another subject: one of the same reads as its evidence
    \cup Marked("target-redirected",
        {[f EXCEPT !.rows[i].target = {x.key}] :
            i \in {j \in DOMAIN f.rows : f.rows[j].target # {}},
            x \in {y \in Range(f.evidence) :
                      \A r \in Range(f.rows) : y.content.of # r.finding.symbol}})

InRows(f) ==
    LET at == DOMAIN f.rows
        finding(i) == f.rows[i].finding
    IN  Marked("row-twice", {[f EXCEPT !.rows = Append(@, f.rows[i])] : i \in at})
        \cup Marked("count-moved",
            {[f EXCEPT !.rows[i].finding[n] = @ + 1] : i \in at, n \in Tallies})
        \cup Marked("survivor-dropped",
            UNION {{[f EXCEPT !.rows[i].finding.survivors = @ \ {p}] :
                       p \in finding(i).survivors} : i \in at})
        \* the only kill of a record: attribution is then absent, as in old ones
        \cup Marked("kill-dropped",
            UNION {{[f EXCEPT !.rows[i].finding.kills = @ \ {p}] :
                       p \in {q \in finding(i).kills : finding(i).kills # {q}}} : i \in at})
        \cup Marked("kill-attested",
            UNION {{[f EXCEPT !.rows[i].finding.attested = @ \cup {p}] :
                       p \in finding(i).kills} : i \in at})
        \cup UNION {Marked(l, {[f EXCEPT !.rows[i].lost = {l}] : i \in at}) : l \in Losses}

InDocument(f) ==
    Marked("version-edited", {[f EXCEPT !.version = v] : v \in (3..18) \ {f.version}})
    \cup Marked("bounds-dropped", {[f EXCEPT !.bounds = {}]})
    \cup {[how |-> d, file |-> [f EXCEPT !.defect = {d}]] :
             d \in {"null", "twice", "missing", "unknown"}}

Damages(f) ==
    InRows(f) \cup InDocument(f) \cup (IF f.shape = "keyed" THEN InEntries(f) ELSE {})

------------------------------------------------------------------------------
DocumentInit ==
    /\ truth \in Documents
    /\ collides \in {"none", "inputs", "evidence", "ledger"}
    /\ file = {} /\ held = {}
    /\ mark = {}
    /\ stage = "measured"

\* Export, persistRecord, and the store's renderDocument of what it read.
Writes ==
    /\ \E doc \in IF stage = "read" THEN held ELSE {truth} :
          stage # "written" /\ truth' = doc /\ file' = Interned(doc)
    /\ stage' = "written"
    /\ mark' = {}
    /\ UNCHANGED <<collides, held>>

\* External: an older binary wrote it.
WritesOld(v) ==
    /\ stage = "measured"
    /\ \A f \in Range(truth.findings) : ~OfVersion17(f)
    /\ truth.bounds = {} \/ Bounded(v)
    /\ file' = IF Shape(v) = "keyed" THEN {[f EXCEPT !.version = v] : f \in Interned(truth)}
                ELSE {Laid(truth, v)}
    /\ stage' = "written"
    /\ UNCHANGED <<truth, collides, mark, held>>

DamagedByHand ==
    /\ stage = "written" /\ mark = {}
    /\ \E f \in file : \E d \in Damages(f) :
          file' = {d.file} /\ mark' = {d.how}
    /\ UNCHANGED <<truth, collides, held, stage>>

ReadsDocument ==
    /\ stage = "written"
    /\ \E f \in file : held' = Parsed(f)
    /\ stage' = "read"
    /\ UNCHANGED <<truth, collides, file, mark>>

DocumentNext ==
    Writes \/ DamagedByHand \/ ReadsDocument \/ \E v \in Oldest..(Current - 1) : WritesOld(v)

DocumentSpec == DocumentInit /\ [][DocumentNext]_documentVars

------------------------------------------------------------------------------
\* A document is read as it was measured, by whichever layout it was written
\* and however often it is read and written again; and a write is refused
\* only when two contents would share a key (internDocument, ParseDocument).
ReadsBack ==
    /\ stage = "read" /\ mark = {} => held = {truth}
    /\ stage = "written" /\ file = {} => collides # "none"

\* A document touched by hand at one place is refused, or reads as it was:
\* never as other findings.  What no count depends on may be lost unseen, so
\* may a document's bounds where it has no record and another version's label;
\* and a digest is taken to tell contents apart (expandDocument14,
\* validateFindingEncoding).
DamageShows ==
    /\ stage = "read" /\ mark # {}
    /\ mark \cap Untallied = {}
    /\ mark = {"version-edited"} => truth.findings # <<>>
    /\ collides = "none"
    => held \subseteq {truth}
==============================================================================
