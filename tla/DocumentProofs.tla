---------------------------- MODULE DocumentProofs ----------------------------
(***************************************************************************)
(* Proofs about the findings document: that every layout reads back as it  *)
(* was written, and that a change by hand is noticed; for every set of     *)
(* documents and any number of writes and readings.                        *)
(***************************************************************************)
EXTENDS Document, FiniteSetTheorems, WellFoundedInduction, TLAPS

------------------------------------------------------------------------------
(* Sequences.                                                              *)

LEMMA SequenceIs ==
    ASSUME NEW s, IsSequence(s)
    PROVE  /\ Len(s) \in Nat /\ DOMAIN s = 1 .. Len(s)
           /\ s = [i \in 1 .. Len(s) |-> s[i]]
BY DEF IsSequence

LEMMA IsASequence ==
    ASSUME NEW n \in Nat, NEW s, s = [i \in 1 .. n |-> s[i]]
    PROVE  IsSequence(s) /\ Len(s) = n /\ DOMAIN s = 1 .. n
<1>1. DOMAIN s = 1 .. n
  OBVIOUS
<1>2. \A i \in 1 .. n : s[i] \in Range(s)
  BY <1>1 DEF Range
<1>3. s \in [1 .. n -> Range(s)]
  BY <1>2
<1>4. s \in Seq(Range(s))
  BY <1>3
<1> QED BY <1>1, <1>4 DEF IsSequence

LEMMA OfASet ==
    ASSUME NEW S, NEW s \in Seq(S)
    PROVE  IsSequence(s)
<1>1. Len(s) \in Nat /\ s = [i \in 1 .. Len(s) |-> s[i]]
  OBVIOUS
<1> QED BY <1>1, IsASequence

\* A sequence with one entry replaced, or with each replaced by another.
LEMMA ReplacedIs ==
    ASSUME NEW s, IsSequence(s), NEW i \in DOMAIN s, NEW x
    PROVE  /\ IsSequence([s EXCEPT ![i] = x])
           /\ DOMAIN [s EXCEPT ![i] = x] = DOMAIN s
           /\ Len([s EXCEPT ![i] = x]) = Len(s)
<1>1. PICK n \in Nat : n = Len(s) /\ DOMAIN s = 1 .. n
  BY SequenceIs
<1> DEFINE t == [s EXCEPT ![i] = x]
<1>2. t = [j \in 1 .. n |-> t[j]]
  BY <1>1
<1> HIDE DEF t
<1>3. IsSequence(t) /\ Len(t) = n /\ DOMAIN t = 1 .. n
  BY <1>2, IsASequence
<1> QED BY <1>1, <1>3 DEF t

LEMMA AppendedIs ==
    ASSUME NEW s, IsSequence(s), NEW x
    PROVE  /\ IsSequence(Append(s, x))
           /\ Len(Append(s, x)) = Len(s) + 1
           /\ \A i \in DOMAIN s : Append(s, x)[i] = s[i]
           /\ Append(s, x)[Len(s) + 1] = x
<1>1. s \in Seq(Range(s) \cup {x}) /\ Len(s) \in Nat
  <2>1. s \in Seq(Range(s)) /\ Len(s) \in Nat /\ DOMAIN s = 1 .. Len(s)
    BY SequenceIs DEF IsSequence
  <2>2. \A i \in 1 .. Len(s) : s[i] \in Range(s) \cup {x}
    BY <2>1 DEF Range
  <2> QED BY <2>1, <2>2
<1>2. /\ Append(s, x) \in Seq(Range(s) \cup {x}) /\ Len(Append(s, x)) = Len(s) + 1
      /\ \A i \in 1 .. Len(s) : Append(s, x)[i] = s[i]
      /\ Append(s, x)[Len(s) + 1] = x
  BY <1>1
<1>4. IsSequence(Append(s, x))
  BY <1>2, OfASet
<1> QED BY <1>1, <1>2, <1>4, SequenceIs

LEMMA JoinedIs ==
    ASSUME NEW S, NEW a \in Seq(S), NEW b \in Seq(S)
    PROVE  a \o b \in Seq(S) /\ Len(a \o b) = Len(a) + Len(b)
OBVIOUS

LEMMA JoinedAt ==
    ASSUME NEW S, NEW a \in Seq(S), NEW b \in Seq(S), NEW j \in 1 .. Len(a) + Len(b)
    PROVE  (a \o b)[j] = IF j <= Len(a) THEN a[j] ELSE b[j - Len(a)]
OBVIOUS

LEMMA JoinedEmpty ==
    ASSUME NEW p, IsSequence(p), NEW q, IsSequence(q), NEW r, IsSequence(r),
           NEW s, IsSequence(s), p \o q \o r \o s = <<>>
    PROVE  p = <<>>
<1>1. PICK S : S = Range(p) \cup Range(q) \cup Range(r) \cup Range(s)
  OBVIOUS
<1>2. ASSUME NEW t, IsSequence(t), Range(t) \subseteq S PROVE t \in Seq(S)
  BY <1>2 DEF IsSequence
<1>3. p \in Seq(S) /\ q \in Seq(S) /\ r \in Seq(S) /\ s \in Seq(S)
  BY <1>1, <1>2
<1>4. p \o q \in Seq(S) /\ Len(p \o q) = Len(p) + Len(q)
  BY <1>3, JoinedIs
<1>5. (p \o q) \o r \in Seq(S) /\ Len((p \o q) \o r) = Len(p \o q) + Len(r)
  BY <1>3, <1>4, JoinedIs
<1>6. Len(((p \o q) \o r) \o s) = Len((p \o q) \o r) + Len(s)
  BY <1>3, <1>5, JoinedIs
<1>7. Len(p) \in Nat /\ Len(q) \in Nat /\ Len(r) \in Nat /\ Len(s) \in Nat
  BY <1>3
<1>8. Len(p) + Len(q) + Len(r) + Len(s) = 0
  BY <1>4, <1>5, <1>6
<1>9. Len(p) = 0
  BY <1>7, <1>8
<1> QED BY <1>3, <1>9

LEMMA WithoutIs ==
    ASSUME NEW s, IsSequence(s), NEW i \in DOMAIN s
    PROVE  /\ IsSequence(Without(s, i))
           /\ Len(Without(s, i)) = Len(s) - 1
           /\ \A j \in 1 .. Len(s) - 1 :
                 Without(s, i)[j] = IF j < i THEN s[j] ELSE s[j + 1]
<1>1. s \in Seq(Range(s)) /\ Len(s) \in Nat /\ DOMAIN s = 1 .. Len(s) /\ i \in 1 .. Len(s)
  BY SequenceIs DEF IsSequence
<1> DEFINE a == SubSeq(s, 1, i - 1)
           b == SubSeq(s, i + 1, Len(s))
<1>2. /\ a \in Seq(Range(s)) /\ Len(a) = i - 1
      /\ \A j \in 1 .. i - 1 : a[j] = s[j]
  BY <1>1
<1>3. /\ b \in Seq(Range(s)) /\ Len(b) = Len(s) - i
      /\ \A j \in 1 .. Len(s) - i : b[j] = s[i + j]
  BY <1>1
<1> HIDE DEF a, b
<1>4. /\ a \o b \in Seq(Range(s)) /\ Len(a \o b) = Len(s) - 1
      /\ \A j \in 1 .. Len(s) - 1 : (a \o b)[j] = IF j <= i - 1 THEN a[j] ELSE b[j - (i - 1)]
  <2>1. a \o b \in Seq(Range(s)) /\ Len(a \o b) = Len(a) + Len(b)
    BY <1>2, <1>3, JoinedIs
  <2>2. Len(a) + Len(b) = Len(s) - 1
    BY <1>1, <1>2, <1>3
  <2>3. \A j \in 1 .. Len(a) + Len(b) : (a \o b)[j] = IF j <= Len(a) THEN a[j] ELSE b[j - Len(a)]
    BY <1>2, <1>3, JoinedAt
  <2> QED BY <1>2, <2>1, <2>2, <2>3
<1>5. \A j \in 1 .. Len(s) - 1 : (a \o b)[j] = IF j < i THEN s[j] ELSE s[j + 1]
  <2> TAKE j \in 1 .. Len(s) - 1
  <2>1. CASE j < i
    BY <1>1, <1>2, <1>4, <2>1
  <2>2. CASE ~(j < i)
    <3>1. j - (i - 1) \in 1 .. Len(s) - i /\ i + (j - (i - 1)) = j + 1
      BY <1>1, <2>2
    <3>2. b[j - (i - 1)] = s[j + 1]
      BY <1>3, <3>1
    <3>3. (a \o b)[j] = b[j - (i - 1)]
      BY <1>1, <1>4, <2>2
    <3> QED BY <2>2, <3>2, <3>3
  <2> QED BY <2>1, <2>2
<1>6. IsSequence(a \o b)
  BY <1>4, OfASet
<1> QED BY <1>4, <1>5, <1>6 DEF Without, a, b

LEMMA ImageFinite ==
    ASSUME NEW S, IsFiniteSet(S), NEW v
    PROVE  IsFiniteSet({v[x] : x \in S})
<1> DEFINE T == {v[x] : x \in S}
           g == [x \in S |-> v[x]]
<1>1. g \in Surjection(S, T)
  BY DEF Surjection
<1> QED BY <1>1, FS_Surjection

LEMMA LeastIs ==
    ASSUME NEW S \in SUBSET Nat, S # {}
    PROVE  \E k \in S : \A m \in S : k <= m
<1> DEFINE R == {ss \in Nat \X Nat : ss[1] < ss[2]}
<1>1. IsWellFoundedOn(R, Nat)
  BY NatLessThanWellFounded, Zenon DEF OpToRel
<1>2. \A m, k \in Nat : m < k => <<m, k>> \in R
  OBVIOUS
<1> HIDE DEF R
<1>3. PICK k \in S : \A m \in S : ~(<<m, k>> \in R)
  BY <1>1, WFMin
<1>4. ASSUME NEW m \in S PROVE k <= m
  <2>1. m \in Nat /\ k \in Nat /\ <<m, k>> \notin R
    BY <1>3
  <2>2. ~(m < k)
    BY <1>2, <2>1
  <2> QED BY <2>1, <2>2
<1> QED BY <1>4

\* The numbering of a finite set.
LEMMA NumberedIs ==
    ASSUME NEW S, IsFiniteSet(S)
    PROVE  /\ IsSequence(SetToSeq(S)) /\ Range(SetToSeq(S)) = S
           /\ \A i, j \in DOMAIN SetToSeq(S) : SetToSeq(S)[i] = SetToSeq(S)[j] => i = j
<1>1. PICK n \in Nat : n = Cardinality(S)
  BY FS_CardinalityType
<1>2. ExistsBijection(1 .. n, S)
  BY <1>1, FS_CardinalityType
<1>3. PICK b : b \in Bijection(1 .. n, S)
  BY <1>2 DEF ExistsBijection
<1>4. b \in [1 .. n -> S] /\ IsInjective(b)
  BY <1>3 DEF Bijection, Injection
<1> DEFINE s == SetToSeq(S)
<1>5. s \in [1 .. n -> S] /\ IsInjective(s)
  BY <1>1, <1>4 DEF SetToSeq
<1> HIDE DEF s
<1>6. s \in Bijection(1 .. n, S)
  <2>1. IsFiniteSet(1 .. n) /\ Cardinality(1 .. n) = n
    BY FS_Interval
  <2>2. s \in Injection(1 .. n, S)
    BY <1>5 DEF Injection
  <2>3. s \in Surjection(1 .. n, S)
    BY <1>1, <2>1, <2>2, FS_Injection
  <2> QED BY <2>2, <2>3 DEF Bijection
<1>7. \A x \in S : \E i \in 1 .. n : s[i] = x
  BY <1>6 DEF Bijection, Surjection
<1>8. IsSequence(s) /\ DOMAIN s = 1 .. n
  BY <1>5, IsASequence
<1> QED BY <1>5, <1>7, <1>8 DEF Range, IsInjective, s

------------------------------------------------------------------------------
(* What the bytes are, damaged or not.                                     *)

IsRow(r) ==
    /\ r = [finding |-> r.finding, lost |-> r.lost, target |-> r.target,
            oracles |-> r.oracles, ledger |-> r.ledger]
    /\ IsFinding(r.finding)
    /\ IsSequence(r.oracles) /\ IsFiniteSet(r.ledger)

IsFile(f) ==
    /\ f = [version |-> f.version, shape |-> f.shape, flat |-> f.flat, defect |-> f.defect,
            inputs |-> f.inputs, evidence |-> f.evidence, ledgers |-> f.ledgers,
            rows |-> f.rows, bounds |-> f.bounds]
    /\ f.version \in Nat
    /\ IsSequence(f.inputs) /\ IsSequence(f.evidence) /\ IsSequence(f.ledgers)
    /\ IsSequence(f.rows)
    /\ \A i \in DOMAIN f.inputs :
          f.inputs[i] = [key |-> f.inputs[i].key, content |-> f.inputs[i].content]
    /\ \A i \in DOMAIN f.evidence :
          /\ f.evidence[i] = [key |-> f.evidence[i].key, content |-> f.evidence[i].content,
                              inputs |-> f.evidence[i].inputs]
          /\ IsEvidence(f.evidence[i].content)
    /\ \A i \in DOMAIN f.ledgers :
          f.ledgers[i] = [key |-> f.ledgers[i].key, content |-> f.ledgers[i].content]
    /\ \A i \in DOMAIN f.rows : IsRow(f.rows[i])

Heavies == {"target", "oracles", "ledger"}

LEMMA FieldsAre ==
    /\ Switches \subseteq Fields /\ Counts \subseteq Fields /\ Lists \subseteq Fields
    /\ Names \subseteq Fields /\ Heavies \subseteq Fields /\ "operators" \in Fields
    /\ Lists \cap Heavies = {"ledger"}
    /\ Heavies \cap (Switches \cup Counts \cup Names \cup {"operators"}) = {}
    /\ "explicit" \in Switches /\ "dirty" \in Switches /\ "shaped" \in Switches
    /\ "budget" \in Counts /\ "candidates" \in Counts /\ "generated" \in Counts
    /\ "discarded" \in Counts /\ "killed" \in Counts /\ "mutants" \in Counts
    /\ "kills" \in Lists /\ "survivors" \in Lists /\ "noted" \in Lists /\ "attested" \in Lists
    /\ "withdrawn" \in Lists /\ "flagged" \in Lists
    /\ "symbol" \in Names /\ "selection" \in Names /\ "commit" \in Names
BY DEF Fields, Switches, Counts, Lists, Names, Heavies

LEMMA ZeroIs == IsEvidence(Zero)
BY DEF IsEvidence, Zero

\* A finding with other evidence and another ledger.
Rowed(f, e, os, l) == [f EXCEPT !.target = e, !.oracles = os, !.ledger = l]

LEMMA FindingRowed ==
    ASSUME NEW f, IsFinding(f), NEW e, IsEvidence(e), NEW os, IsSequence(os),
           \A i \in DOMAIN os : IsEvidence(os[i]), NEW l, IsFiniteSet(l)
    PROVE  /\ IsFinding(Rowed(f, e, os, l)) /\ Rowed(f, e, os, l).target = e
           /\ Rowed(f, e, os, l).oracles = os /\ Rowed(f, e, os, l).ledger = l
           /\ \A x \in Fields \ Heavies : Rowed(f, e, os, l)[x] = f[x]
<1>g. PICK g : g = Rowed(f, e, os, l)
  OBVIOUS
<1>1. f = [x \in Fields |-> f[x]]
  BY DEF IsFinding
<1>2. g = [x \in Fields |-> g[x]]
  BY <1>g, <1>1 DEF Rowed
<1>3. g.target = e /\ g.oracles = os /\ g.ledger = l
  BY <1>g, <1>1, FieldsAre DEF Heavies, Rowed
<1>4. \A x \in Fields \ Heavies : g[x] = f[x]
  BY <1>g, <1>1 DEF Heavies, Rowed
<1>5. g.operators = f.operators
  BY <1>4, FieldsAre
<1>6. \A x \in Switches \cup Counts : g[x] = f[x]
  BY <1>4, FieldsAre
<1>7. \A x \in Lists : IsFiniteSet(g[x])
  BY <1>3, <1>4, FieldsAre DEF IsFinding, Heavies
<1> QED BY <1>g, <1>2, <1>3, <1>4, <1>5, <1>6, <1>7 DEF IsFinding

\* Lifting flat rows changes evidence, and nothing of rows laid out as their
\* version says.
LEMMA LiftedRowIs ==
    ASSUME NEW f, NEW e, IsEvidence(e)
    PROVE  /\ IsEvidence(LiftedRow(f, e))
           /\ f.flat = Flat(f.version) => LiftedRow(f, e) = e
BY DEF IsEvidence, LiftedRow, Zero

LEMMA LiftedRowsIs ==
    ASSUME NEW f, NEW g, IsFinding(g)
    PROVE  /\ IsFinding(LiftedRows(f, g))
           /\ f.flat = Flat(f.version) => LiftedRows(f, g) = g
<1> DEFINE os == [j \in DOMAIN g.oracles |-> LiftedRow(f, g.oracles[j])]
           e  == LiftedRow(f, g.target)
<1>1. PICK n \in Nat : n = Len(g.oracles) /\ DOMAIN g.oracles = 1 .. n
  BY SequenceIs DEF IsFinding
<1>2. os = [j \in 1 .. n |-> os[j]] /\ DOMAIN os = 1 .. n
  BY <1>1
<1>3. \A j \in 1 .. n : IsEvidence(os[j])
  BY <1>1, <1>2, LiftedRowIs DEF IsFinding
<1>4. IsEvidence(e)
  BY LiftedRowIs DEF IsFinding
<1>5. g = [x \in Fields |-> g[x]] /\ "target" \in Fields /\ "oracles" \in Fields
      /\ "ledger" \in Fields
  BY DEF IsFinding, Fields, Lists
<1>6. LiftedRows(f, g) = [g EXCEPT !.target = e, !.oracles = os]
  BY <1>5 DEF LiftedRows
<1>7. f.flat = Flat(f.version) => e = g.target /\ os = g.oracles
  <2>1. g.oracles = [j \in 1 .. n |-> g.oracles[j]]
    BY <1>1, SequenceIs DEF IsFinding
  <2> QED BY <1>1, <2>1, LiftedRowIs DEF IsFinding
<1> HIDE DEF os, e
<1>8. [g EXCEPT !.target = e, !.oracles = os] = Rowed(g, e, os, g.ledger)
  BY <1>5 DEF Rowed
<1>9. IsSequence(os) /\ IsFiniteSet(g.ledger)
  BY <1>2, IsASequence DEF IsFinding, Lists
<1>10. IsFinding(LiftedRows(f, g))
  <2>2. \A i \in DOMAIN os : IsEvidence(os[i])
    BY <1>2, <1>3
  <2> QED BY <1>4, <1>6, <1>8, <1>9, <2>2, FindingRowed
<1>11. f.flat = Flat(f.version) => LiftedRows(f, g) = g
  BY <1>5, <1>6, <1>7
<1> QED BY <1>10, <1>11

LEMMA LiftedIs ==
    ASSUME NEW f, IsFile(f)
    PROVE  /\ IsFile(Lifted(f))
           /\ Lifted(f).version = f.version /\ Lifted(f).shape = f.shape
           /\ Lifted(f).inputs = f.inputs /\ Lifted(f).ledgers = f.ledgers
           /\ Lifted(f).bounds = f.bounds
           /\ f.flat = Flat(f.version) => Lifted(f) = f
<1> DEFINE es == [i \in DOMAIN f.evidence |->
                      [f.evidence[i] EXCEPT !.content = LiftedRow(f, f.evidence[i].content)]]
           rs == [i \in DOMAIN f.rows |->
                      [f.rows[i] EXCEPT !.finding = LiftedRows(f, f.rows[i].finding)]]
           g  == Lifted(f)
<1>1. f = [version |-> f.version, shape |-> f.shape, flat |-> f.flat, defect |-> f.defect,
           inputs |-> f.inputs, evidence |-> f.evidence, ledgers |-> f.ledgers,
           rows |-> f.rows, bounds |-> f.bounds]
  BY DEF IsFile
<1>2. g = [f EXCEPT !.evidence = es, !.rows = rs]
  BY DEF Lifted
<1> HIDE DEF g
<1>3. \A i \in DOMAIN f.evidence :
          /\ f.evidence[i] = [key |-> f.evidence[i].key, content |-> f.evidence[i].content,
                              inputs |-> f.evidence[i].inputs]
          /\ IsEvidence(f.evidence[i].content)
  BY DEF IsFile
<1>4. PICK n \in Nat : DOMAIN f.evidence = 1 .. n /\ f.evidence = [i \in 1 .. n |-> f.evidence[i]]
  BY SequenceIs DEF IsFile
<1>5. \A i \in 1 .. n :
          /\ es[i] = [key |-> es[i].key, content |-> es[i].content, inputs |-> es[i].inputs]
          /\ IsEvidence(es[i].content)
          /\ f.flat = Flat(f.version) => es[i] = f.evidence[i]
  <2> TAKE i \in 1 .. n
  <2>1. PICK c : c = LiftedRow(f, f.evidence[i].content)
    OBVIOUS
  <2>2. es[i] = [f.evidence[i] EXCEPT !.content = c]
    BY <1>4, <2>1
  <2>3. IsEvidence(c) /\ (f.flat = Flat(f.version) => c = f.evidence[i].content)
    BY <1>3, <1>4, <2>1, LiftedRowIs
  <2> HIDE DEF es
  <2> QED BY <1>3, <1>4, <2>2, <2>3
<1>6. \A i \in DOMAIN f.rows : IsRow(f.rows[i])
  BY DEF IsFile
<1>7. PICK m \in Nat : DOMAIN f.rows = 1 .. m /\ f.rows = [i \in 1 .. m |-> f.rows[i]]
  BY SequenceIs DEF IsFile
<1>8. \A i \in 1 .. m : IsRow(rs[i]) /\ (f.flat = Flat(f.version) => rs[i] = f.rows[i])
  <2> TAKE i \in 1 .. m
  <2>1. PICK h : h = LiftedRows(f, f.rows[i].finding)
    OBVIOUS
  <2>2. rs[i] = [f.rows[i] EXCEPT !.finding = h]
    BY <1>7, <2>1
  <2>3. IsFinding(h) /\ (f.flat = Flat(f.version) => h = f.rows[i].finding)
    BY <1>6, <1>7, <2>1, LiftedRowsIs DEF IsRow
  <2> HIDE DEF rs
  <2> QED BY <1>6, <1>7, <2>2, <2>3 DEF IsRow
<1>9. es = [i \in 1 .. n |-> es[i]] /\ rs = [i \in 1 .. m |-> rs[i]]
  BY <1>4, <1>7
<1> HIDE DEF es, rs
<1>10. IsSequence(es) /\ DOMAIN es = 1 .. n /\ IsSequence(rs) /\ DOMAIN rs = 1 .. m
  BY <1>9, IsASequence
<1>11. /\ g.version = f.version /\ g.shape = f.shape /\ g.flat = f.flat /\ g.defect = f.defect
       /\ g.inputs = f.inputs /\ g.ledgers = f.ledgers /\ g.bounds = f.bounds
       /\ g.evidence = es /\ g.rows = rs
       /\ g = [version |-> g.version, shape |-> g.shape, flat |-> g.flat, defect |-> g.defect,
               inputs |-> g.inputs, evidence |-> g.evidence, ledgers |-> g.ledgers,
               rows |-> g.rows, bounds |-> g.bounds]
  BY <1>1, <1>2
<1>12. IsFile(g)
  BY <1>5, <1>8, <1>10, <1>11 DEF IsFile
<1>13. f.flat = Flat(f.version) => es = f.evidence /\ rs = f.rows
  BY <1>4, <1>5, <1>7, <1>8, <1>9
<1>14. f.flat = Flat(f.version) => g = f
  BY <1>1, <1>11, <1>13
<1> QED BY <1>11, <1>12, <1>14 DEF g

------------------------------------------------------------------------------
(* A row's finding with what it lost read as zero, and its entries inlined. *)

ZeroedSummary(r, op) ==
    LET s == r.finding.operators[op]
    IN  [generated |-> s.generated, killed |-> s.killed,
         discarded |-> IF "summary-discarded" \in r.lost THEN 0 ELSE s.discarded,
         survived  |-> IF "summary-survived" \in r.lost THEN 0 ELSE s.survived]

LEMMA ZeroedIs ==
    ASSUME NEW r, IsFinding(r.finding)
    PROVE  /\ IsFinding(Zeroed(r))
           /\ \A x \in Lists \cup Names \cup {"target", "oracles", "candidates", "generated",
                                             "discarded", "shaped"} :
                 Zeroed(r)[x] = r.finding[x]
           /\ \A x \in {"budget", "mutants", "killed"} :
                 Zeroed(r)[x] = IF x \in r.lost THEN 0 ELSE r.finding[x]
           /\ Zeroed(r).operators =
                 [op \in DOMAIN r.finding.operators |-> ZeroedSummary(r, op)]
           /\ \A x \in {"explicit", "dirty"} :
                 x \notin r.lost => Zeroed(r)[x] = r.finding[x]
           /\ r.lost = {} => Zeroed(r) = r.finding
<1> DEFINE f == r.finding
<1>1. PICK g : g = Zeroed(r)
  OBVIOUS
<1>2. PICK a \in BOOLEAN : a = (f.explicit /\ "explicit" \notin r.lost)
  OBVIOUS
<1>3. PICK b \in BOOLEAN : b = (f.dirty /\ "dirty" \notin r.lost)
  OBVIOUS
<1>4. PICK n : n = IF "budget" \in r.lost THEN 0 ELSE f.budget
  OBVIOUS
<1>5. PICK m : m = IF "mutants" \in r.lost THEN 0 ELSE f.mutants
  OBVIOUS
<1>6. PICK k : k = IF "killed" \in r.lost THEN 0 ELSE f.killed
  OBVIOUS
<1>7. PICK os : os = [op \in DOMAIN f.operators |->
                       [f.operators[op] EXCEPT
                          !.discarded = IF "summary-discarded" \in r.lost THEN 0 ELSE @,
                          !.survived  = IF "summary-survived" \in r.lost THEN 0 ELSE @]]
  OBVIOUS
<1>8. f = [x \in Fields |-> f[x]]
  BY DEF IsFinding
<1>9. g = [f EXCEPT !.explicit = a, !.dirty = b, !.budget = n, !.mutants = m, !.killed = k,
                    !.operators = os]
  <2>1. {"explicit", "dirty", "budget", "mutants", "killed", "operators"} \subseteq Fields
    BY FieldsAre
  <2> QED BY <1>1, <1>2, <1>3, <1>4, <1>5, <1>6, <1>7, <1>8, <2>1 DEF Zeroed
<1>10. n \in Nat /\ m \in Nat /\ k \in Nat
  BY <1>4, <1>5, <1>6 DEF IsFinding, Counts
<1>11. /\ os = [op \in DOMAIN f.operators |-> ZeroedSummary(r, op)]
       /\ \A op \in DOMAIN f.operators : IsSummary(os[op])
  <2>1. ASSUME NEW op \in DOMAIN f.operators
        PROVE  os[op] = ZeroedSummary(r, op) /\ IsSummary(os[op])
    <3>1. f.operators[op] \in [generated : Nat, discarded : Nat, killed : Nat, survived : Nat]
      BY DEF IsFinding, IsSummary
    <3>2. PICK s \in [generated : Nat, discarded : Nat, killed : Nat, survived : Nat] :
              s = f.operators[op]
      BY <3>1
    <3>3. os[op] = [s EXCEPT
                       !.discarded = IF "summary-discarded" \in r.lost THEN 0 ELSE @,
                       !.survived  = IF "summary-survived" \in r.lost THEN 0 ELSE @]
      BY <1>7, <3>2
    <3>4. os[op] = [generated |-> s.generated, killed |-> s.killed,
                    discarded |-> IF "summary-discarded" \in r.lost THEN 0 ELSE s.discarded,
                    survived  |-> IF "summary-survived" \in r.lost THEN 0 ELSE s.survived]
      BY <3>3
    <3>5. os[op] = ZeroedSummary(r, op)
      BY <3>2, <3>4 DEF ZeroedSummary
    <3>6. IsSummary(os[op])
      <4>1. PICK d \in Nat : d = IF "summary-discarded" \in r.lost THEN 0 ELSE s.discarded
        OBVIOUS
      <4>2. PICK v \in Nat : v = IF "summary-survived" \in r.lost THEN 0 ELSE s.survived
        OBVIOUS
      <4>3. os[op] = [generated |-> s.generated, killed |-> s.killed,
                      discarded |-> d, survived |-> v]
        BY <3>4, <4>1, <4>2
      <4> QED BY <4>3 DEF IsSummary
    <3> QED BY <3>5, <3>6
  <2> QED BY <1>7, <2>1
<1>12. DOMAIN os = DOMAIN f.operators
  BY <1>7
<1>13. /\ g = [x \in Fields |-> g[x]]
       /\ g.explicit = a /\ g.dirty = b /\ g.budget = n /\ g.mutants = m /\ g.killed = k
       /\ g.operators = os
  BY <1>8, <1>9, FieldsAre
<1>14. \A x \in Fields \ {"explicit", "dirty", "budget", "mutants", "killed", "operators"} :
          g[x] = f[x]
  BY <1>8, <1>9
<1>15. \A x \in Lists \cup Names \cup {"target", "oracles", "candidates", "generated",
                                      "discarded", "shaped"} :
          /\ g[x] = f[x]
  BY <1>14 DEF Fields, Lists, Names, Counts, Switches
<1>16. \A x \in Switches : g[x] \in BOOLEAN
  BY <1>2, <1>3, <1>13, <1>15 DEF Switches, IsFinding
<1>17. \A x \in Counts : g[x] \in Nat
  BY <1>10, <1>13, <1>15 DEF Counts, IsFinding
<1>18. IsFinding(g)
  <2>1. \A x \in Lists : IsFiniteSet(g[x])
    BY <1>15 DEF IsFinding
  <2>2. os = [op \in DOMAIN os |-> os[op]] /\ IsFiniteSet(DOMAIN os)
    BY <1>7, <1>12 DEF IsFinding
  <2>3. g.target = f.target /\ g.oracles = f.oracles
    BY <1>15
  <2> QED BY <1>11, <1>12, <1>13, <1>16, <1>17, <2>1, <2>2, <2>3 DEF IsFinding
<1>19. ASSUME r.lost = {} PROVE g = f
  <2>1. a = f.explicit /\ b = f.dirty
    BY <1>2, <1>3, <1>19 DEF IsFinding, Switches
  <2>2. n = f.budget /\ m = f.mutants /\ k = f.killed
    BY <1>4, <1>5, <1>6, <1>19
  <2>3. os = f.operators
    <3>1. \A op \in DOMAIN f.operators : os[op] = f.operators[op]
      BY <1>11, <1>19 DEF ZeroedSummary, IsFinding, IsSummary
    <3> QED BY <1>7, <3>1 DEF IsFinding
  <2>4. \A x \in Fields : g[x] = f[x]
    BY <1>13, <1>14, <2>1, <2>2, <2>3
  <2> QED BY <1>8, <1>13, <2>4
<1>20. \A x \in {"explicit", "dirty"} : x \notin r.lost => g[x] = f[x]
  BY <1>2, <1>3, <1>13 DEF IsFinding, Switches
<1> QED BY <1>1, <1>4, <1>5, <1>6, <1>11, <1>13, <1>15, <1>18, <1>19, <1>20

LEMMA FoundIs ==
    ASSUME NEW table, NEW ref, Entry(table, ref) # {}
    PROVE  \E i \in DOMAIN table : The(Entry(table, ref)) = table[i] /\ table[i].key = ref
<1>1. The(Entry(table, ref)) \in Entry(table, ref)
  BY DEF The
<1> QED BY <1>1 DEF Entry, Range

LEMMA EvidenceIs ==
    ASSUME NEW f, IsFile(f), NEW ref, Entry(f.evidence, ref) # {}, NEW b
    PROVE  IsEvidence(EvidenceAt(f, ref, b))
<1>1. PICK x : x = The(Entry(f.evidence, ref))
  OBVIOUS
<1>2. IsEvidence(x.content)
  BY <1>1, FoundIs DEF IsFile
<1>3. PICK m : m = IF b THEN StandIn(f, x.inputs) ELSE Manifest(f, x.inputs)
  OBVIOUS
<1>4. EvidenceAt(f, ref, b) = IF x.content.pins = "zero" THEN x.content
                              ELSE [x.content EXCEPT !.inputs = m]
  BY <1>1, <1>3 DEF EvidenceAt
<1>5. IsEvidence([x.content EXCEPT !.inputs = m])
  BY <1>2 DEF IsEvidence
<1> QED BY <1>2, <1>4, <1>5

\* What a row's references resolve to.
TargetOf(f, r, b)  == IF r.target = {} THEN Zero ELSE EvidenceAt(f, The(r.target), b)
OraclesOf(f, r, b) == [j \in DOMAIN r.oracles |-> EvidenceAt(f, r.oracles[j], b)]
LedgerOf(f, r)     == {The(Entry(f.ledgers, l)).content : l \in r.ledger}

LEMMA InlinedIs ==
    ASSUME NEW f, IsFile(f), RefsHold(f), NEW r \in Range(f.rows), NEW b
    PROVE  /\ Inlined(f, r, b) = Rowed(Zeroed(r), TargetOf(f, r, b), OraclesOf(f, r, b),
                                       LedgerOf(f, r))
           /\ IsFinding(Inlined(f, r, b))
           /\ Inlined(f, r, b).target = TargetOf(f, r, b)
           /\ Inlined(f, r, b).oracles = OraclesOf(f, r, b)
           /\ Inlined(f, r, b).ledger = LedgerOf(f, r)
           /\ \A x \in Fields \ Heavies : Inlined(f, r, b)[x] = Zeroed(r)[x]
<1>1. IsRow(r)
  BY DEF IsFile, Range
<1>2. IsFinding(Zeroed(r))
  BY <1>1, ZeroedIs DEF IsRow
<1>3. IsEvidence(TargetOf(f, r, b))
  <2>1. CASE r.target = {}
    BY <2>1, ZeroIs DEF TargetOf
  <2>2. CASE r.target # {}
    <3>1. The(r.target) \in r.target
      BY <2>2 DEF The
    <3>2. Entry(f.evidence, The(r.target)) # {}
      BY <3>1 DEF RefsHold
    <3> QED BY <2>2, <3>2, EvidenceIs DEF TargetOf
  <2> QED BY <2>1, <2>2
<1> DEFINE os == OraclesOf(f, r, b)
<1>4. PICK n \in Nat : DOMAIN r.oracles = 1 .. n
  BY <1>1, SequenceIs DEF IsRow
<1>5. os = [j \in 1 .. n |-> os[j]]
  BY <1>4 DEF OraclesOf
<1>6. IsSequence(os) /\ DOMAIN os = 1 .. n
  BY <1>5, IsASequence
<1>7. \A j \in 1 .. n : IsEvidence(os[j])
  <2> TAKE j \in 1 .. n
  <2>1. r.oracles[j] \in Range(r.oracles)
    BY <1>4 DEF Range
  <2>2. Entry(f.evidence, r.oracles[j]) # {}
    BY <2>1 DEF RefsHold
  <2>3. os[j] = EvidenceAt(f, r.oracles[j], b)
    BY <1>4 DEF OraclesOf
  <2> QED BY <2>2, <2>3, EvidenceIs
<1>8. IsFiniteSet(LedgerOf(f, r))
  <2>1. PICK v : v = [l \in r.ledger |-> The(Entry(f.ledgers, l)).content]
    OBVIOUS
  <2>2. LedgerOf(f, r) = {v[l] : l \in r.ledger}
    BY <2>1 DEF LedgerOf
  <2> QED BY <1>1, <2>2, ImageFinite DEF IsRow
<1>9. Inlined(f, r, b) = Rowed(Zeroed(r), TargetOf(f, r, b), OraclesOf(f, r, b), LedgerOf(f, r))
  BY DEF Inlined, Rowed, TargetOf, OraclesOf, LedgerOf
<1> HIDE DEF os
<1>10. \A j \in DOMAIN os : IsEvidence(os[j])
  BY <1>6, <1>7
<1> QED BY <1>2, <1>3, <1>6, <1>8, <1>9, <1>10, FindingRowed DEF os

------------------------------------------------------------------------------
(* Records are judged over stand-ins for their manifests as they would be  *)
(* over the manifests.                                                     *)

LEMMA ManifestIs ==
    ASSUME NEW f, NEW ref, Entry(f.inputs, ref) # {}
    PROVE  \E i \in DOMAIN f.inputs :
              f.inputs[i].key = ref /\ f.inputs[i].content = Manifest(f, ref)
BY FoundIs DEF Manifest

\* One stand-in to a content.
LEMMA StandInsTell ==
    ASSUME NEW f, IsFile(f), KeysHold(f),
           NEW p, Entry(f.inputs, p) # {}, NEW q, Entry(f.inputs, q) # {}
    PROVE  /\ StandIn(f, p) = StandIn(f, q) <=> Manifest(f, p) = Manifest(f, q)
           /\ StandIn(f, p) = {} <=> Manifest(f, p) = {}
<1> DEFINE First(m) == CHOOSE i \in DOMAIN f.inputs :
                          /\ f.inputs[i].content = m
                          /\ \A j \in 1..(i - 1) : f.inputs[j].content # m
<1>1. \A ref : StandIn(f, ref) = IF Manifest(f, ref) = {} THEN {}
                                 ELSE IF f.shape = "keyed" THEN {ref}
                                 ELSE {First(Manifest(f, ref))}
  BY DEF StandIn
<1>2. StandIn(f, p) = {} <=> Manifest(f, p) = {}
  BY <1>1
<1>3. CASE Manifest(f, p) = {} \/ Manifest(f, q) = {}
  BY <1>1, <1>3
<1>4. CASE Manifest(f, p) # {} /\ Manifest(f, q) # {} /\ f.shape = "keyed"
  <2>1. \A x \in Range(f.inputs) : x.key = InputsKey(x.content)
    BY <1>4 DEF KeysHold
  <2>2. p = InputsKey(Manifest(f, p)) /\ q = InputsKey(Manifest(f, q))
    BY <2>1, ManifestIs DEF Range
  <2> QED BY <1>1, <1>4, <2>2
<1>5. CASE Manifest(f, p) # {} /\ Manifest(f, q) # {} /\ f.shape # "keyed"
  <2>1. ASSUME NEW ref, Entry(f.inputs, ref) # {}
        PROVE  First(Manifest(f, ref)) \in DOMAIN f.inputs
               /\ f.inputs[First(Manifest(f, ref))].content = Manifest(f, ref)
    <3>1. PICK m : m = Manifest(f, ref)
      OBVIOUS
    <3> DEFINE S == {i \in DOMAIN f.inputs : f.inputs[i].content = m}
    <3>2. PICK n \in Nat : DOMAIN f.inputs = 1 .. n
      BY SequenceIs DEF IsFile
    <3>3. S # {}
      BY <2>1, <3>1, ManifestIs
    <3>4. S \in SUBSET Nat
      BY <3>2
    <3>5. PICK k \in S : \A i \in S : k <= i
      <4> HIDE DEF S
      <4> QED BY <3>3, <3>4, LeastIs
    <3>6. \A j \in 1 .. (k - 1) : f.inputs[j].content # m
      <4> TAKE j \in 1 .. (k - 1)
      <4>1. k \in 1 .. n /\ j \in 1 .. n /\ ~(k <= j)
        BY <3>2
      <4> QED BY <3>2, <3>5, <4>1
    <3> QED BY <3>1, <3>5, <3>6
  <2> HIDE DEF First
  <2> QED BY <1>1, <1>5, <2>1
<1> QED BY <1>2, <1>3, <1>4, <1>5

\* Two pieces of evidence that a judgement over rows does not tell apart.
SameRow(d, e) ==
    /\ d.of = e.of /\ d.pins = e.pins /\ d.ran = e.ran
    /\ d.inputs = {} <=> e.inputs = {}

SameRows(g, h) ==
    /\ g.shaped = h.shaped /\ g.symbol = h.symbol
    /\ IsSequence(g.oracles) /\ IsSequence(h.oracles)
    /\ DOMAIN g.oracles = DOMAIN h.oracles
    /\ SameRow(g.target, h.target) /\ (g.target = Zero <=> h.target = Zero)
    /\ \A i \in DOMAIN g.oracles :
          /\ SameRow(g.oracles[i], h.oracles[i])
          /\ EvidenceComplete(g.oracles[i]) /\ EvidenceComplete(g.target)
                => (g.oracles[i].inputs = g.target.inputs <=> h.oracles[i].inputs = h.target.inputs)
          /\ \A j \in DOMAIN g.oracles :
                EvidenceComplete(g.oracles[i]) /\ EvidenceComplete(g.oracles[j])
                => (g.oracles[i].inputs = g.oracles[j].inputs
                       <=> h.oracles[i].inputs = h.oracles[j].inputs)

LEMMA OraclesThere ==
    ASSUME NEW s, IsSequence(s)
    PROVE  s # <<>> <=> 1 \in DOMAIN s
<1>1. Len(s) \in Nat /\ DOMAIN s = 1 .. Len(s) /\ s \in Seq(Range(s))
  BY SequenceIs DEF IsSequence
<1> QED BY <1>1

LEMMA RowsAlike ==
    ASSUME NEW g, NEW h, SameRows(g, h)
    PROVE  RowsHold(g) <=> RowsHold(h)
<1>1. g.oracles # <<>> <=> h.oracles # <<>>
  BY OraclesThere DEF SameRows
<1>2. \A i \in DOMAIN g.oracles :
          EvidenceComplete(g.oracles[i]) <=> EvidenceComplete(h.oracles[i])
  BY DEF SameRows, SameRow, EvidenceComplete
<1>3. EvidenceComplete(g.target) <=> EvidenceComplete(h.target)
  BY DEF SameRows, SameRow, EvidenceComplete
<1>4. \A i, j \in DOMAIN g.oracles : /\ g.oracles[i].of = h.oracles[i].of
                                     /\ g.oracles[i].ran = h.oracles[i].ran
  BY DEF SameRows, SameRow
<1>5. /\ g.target.ran = h.target.ran /\ g.target.of = h.target.of
      /\ g.shaped = h.shaped /\ g.symbol = h.symbol /\ (g.target = Zero <=> h.target = Zero)
      /\ DOMAIN g.oracles = DOMAIN h.oracles
  BY DEF SameRows, SameRow
<1>6. CASE g.shaped
  <2>1. \A f : f.shaped => (RowsHold(f) <=>
            /\ f.target = Zero /\ f.oracles # <<>>
            /\ \A i \in DOMAIN f.oracles :
                  /\ EvidenceComplete(f.oracles[i])
                  /\ \A j \in DOMAIN f.oracles \ {i} : f.oracles[j].of # f.oracles[i].of
                  /\ f.oracles[i].inputs = f.oracles[1].inputs
                  /\ f.oracles[i].ran = f.oracles[1].ran)
    BY DEF RowsHold
  <2>2. CASE 1 \notin DOMAIN g.oracles
    BY <1>1, <1>5, <1>6, <2>1, <2>2, OraclesThere DEF SameRows
  <2>3. CASE 1 \in DOMAIN g.oracles
    <3>1. \A i \in DOMAIN g.oracles :
              EvidenceComplete(g.oracles[i]) /\ EvidenceComplete(g.oracles[1])
                  => (g.oracles[i].inputs = g.oracles[1].inputs
                         <=> h.oracles[i].inputs = h.oracles[1].inputs)
      BY <2>3 DEF SameRows
    <3>2. ASSUME RowsHold(g) PROVE RowsHold(h)
      <4>1. ASSUME NEW i \in DOMAIN h.oracles
            PROVE  /\ EvidenceComplete(h.oracles[i])
                   /\ \A j \in DOMAIN h.oracles \ {i} : h.oracles[j].of # h.oracles[i].of
                   /\ h.oracles[i].inputs = h.oracles[1].inputs
                   /\ h.oracles[i].ran = h.oracles[1].ran
        BY <1>2, <1>4, <1>5, <1>6, <2>1, <2>3, <3>1, <3>2
      <4> QED BY <1>1, <1>5, <1>6, <2>1, <3>2, <4>1
    <3>3. ASSUME RowsHold(h) PROVE RowsHold(g)
      <4>1. /\ h.target = Zero /\ h.oracles # <<>>
            /\ \A i \in DOMAIN h.oracles :
                  /\ EvidenceComplete(h.oracles[i])
                  /\ \A j \in DOMAIN h.oracles \ {i} : h.oracles[j].of # h.oracles[i].of
                  /\ h.oracles[i].inputs = h.oracles[1].inputs
                  /\ h.oracles[i].ran = h.oracles[1].ran
        BY <1>5, <1>6, <2>1, <3>3
      <4>2. \A i \in DOMAIN g.oracles : EvidenceComplete(g.oracles[i])
        BY <1>2, <1>5, <4>1
      <4>3. \A i \in DOMAIN g.oracles : g.oracles[i].inputs = g.oracles[1].inputs
        BY <1>5, <2>3, <3>1, <4>1, <4>2
      <4>4. \A i \in DOMAIN g.oracles :
                /\ \A j \in DOMAIN g.oracles \ {i} : g.oracles[j].of # g.oracles[i].of
                /\ g.oracles[i].ran = g.oracles[1].ran
        BY <1>4, <1>5, <2>3, <4>1
      <4>5. g.target = Zero /\ g.oracles # <<>>
        BY <1>1, <1>5, <4>1
      <4> QED BY <1>6, <2>1, <4>2, <4>3, <4>4, <4>5
    <3> QED BY <3>2, <3>3
  <2> QED BY <2>2, <2>3
<1>7. CASE ~g.shaped
  <2>1. \A f : ~f.shaped => (RowsHold(f) <=>
            /\ EvidenceComplete(f.target) /\ f.target.of = f.symbol /\ f.oracles # <<>>
            /\ \A i \in DOMAIN f.oracles :
                  /\ EvidenceComplete(f.oracles[i])
                  /\ \A j \in DOMAIN f.oracles \ {i} : f.oracles[j].of # f.oracles[i].of
                  /\ f.oracles[i].inputs = f.target.inputs
                  /\ f.oracles[i].ran = f.target.ran)
    BY DEF RowsHold
  <2>2. \A i \in DOMAIN g.oracles :
            EvidenceComplete(g.oracles[i]) /\ EvidenceComplete(g.target)
                => (g.oracles[i].inputs = g.target.inputs <=> h.oracles[i].inputs = h.target.inputs)
    BY DEF SameRows
  <2>3. ASSUME RowsHold(g) PROVE RowsHold(h)
    <3>1. EvidenceComplete(g.target)
      BY <1>7, <2>1, <2>3
    <3>2. EvidenceComplete(h.target) /\ h.target.of = h.symbol /\ h.oracles # <<>>
      BY <1>1, <1>3, <1>5, <1>7, <2>1, <2>3
    <3>3. ASSUME NEW i \in DOMAIN h.oracles
          PROVE  /\ EvidenceComplete(h.oracles[i])
                 /\ \A j \in DOMAIN h.oracles \ {i} : h.oracles[j].of # h.oracles[i].of
                 /\ h.oracles[i].inputs = h.target.inputs
                 /\ h.oracles[i].ran = h.target.ran
      BY <1>2, <1>4, <1>5, <1>7, <2>1, <2>2, <2>3, <3>1
    <3> QED BY <1>5, <1>7, <2>1, <3>2, <3>3
  <2>4. ASSUME RowsHold(h) PROVE RowsHold(g)
    <3>1. EvidenceComplete(h.target) /\ ~h.shaped
      BY <1>5, <1>7, <2>1, <2>4
    <3>2. EvidenceComplete(g.target) /\ g.target.of = g.symbol /\ g.oracles # <<>>
      BY <1>1, <1>3, <1>5, <2>1, <2>4, <3>1
    <3>3. ASSUME NEW i \in DOMAIN g.oracles
          PROVE  /\ EvidenceComplete(g.oracles[i])
                 /\ \A j \in DOMAIN g.oracles \ {i} : g.oracles[j].of # g.oracles[i].of
                 /\ g.oracles[i].inputs = g.target.inputs
                 /\ g.oracles[i].ran = g.target.ran
      BY <1>2, <1>4, <1>5, <2>1, <2>2, <2>4, <3>1, <3>2
    <3> QED BY <1>7, <2>1, <3>2, <3>3
  <2> QED BY <2>3, <2>4
<1> QED BY <1>6, <1>7

\* What else a judgement reads is neither the evidence nor the ledger.
LEMMA SameBesides ==
    ASSUME NEW g, NEW h, \A x \in Fields \ Heavies : g[x] = h[x]
    PROVE  /\ TalliesHold(g) <=> TalliesHold(h)
           /\ SummariesHold(g) <=> SummariesHold(h)
           /\ FlagsHold(g) <=> FlagsHold(h)
           /\ DispositionsHold(g) <=> DispositionsHold(h)
           /\ OfVersion17(g) <=> OfVersion17(h)
           /\ (g.commit # "" \/ g.dirty) <=> (h.commit # "" \/ h.dirty)
           /\ g.symbol = h.symbol /\ g.selection = h.selection /\ g.shaped = h.shaped
<1>1. /\ g.symbol = h.symbol /\ g.selection = h.selection /\ g.commit = h.commit
      /\ g.explicit = h.explicit /\ g.dirty = h.dirty /\ g.shaped = h.shaped
      /\ g.budget = h.budget /\ g.candidates = h.candidates /\ g.generated = h.generated
      /\ g.discarded = h.discarded /\ g.killed = h.killed /\ g.mutants = h.mutants
      /\ g.kills = h.kills /\ g.survivors = h.survivors /\ g.noted = h.noted
      /\ g.attested = h.attested /\ g.withdrawn = h.withdrawn /\ g.flagged = h.flagged
      /\ g.operators = h.operators
  BY FieldsAre DEF Heavies
<1>2. TalliesHold(g) <=> TalliesHold(h)
  BY <1>1 DEF TalliesHold
<1>3. SummariesHold(g) <=> SummariesHold(h)
  BY <1>1 DEF SummariesHold
<1>4. FlagsHold(g) <=> FlagsHold(h)
  BY <1>1 DEF FlagsHold
<1>5. DispositionsHold(g) <=> DispositionsHold(h)
  BY <1>1 DEF DispositionsHold
<1>6. OfVersion17(g) <=> OfVersion17(h)
  BY <1>1 DEF OfVersion17
<1> QED BY <1>1, <1>2, <1>3, <1>4, <1>5, <1>6

LEMMA ValidAlike ==
    ASSUME NEW g, NEW h, \A x \in Fields \ Heavies : g[x] = h[x],
           RowsHold(g) <=> RowsHold(h)
    PROVE  Valid(g) <=> Valid(h)
BY SameBesides DEF Valid

LEMMA AllValidAlike ==
    ASSUME NEW gs, NEW hs, DOMAIN gs = DOMAIN hs, NEW v,
           \A i \in DOMAIN gs : /\ \A x \in Fields \ Heavies : gs[i][x] = hs[i][x]
                                /\ RowsHold(gs[i]) <=> RowsHold(hs[i])
    PROVE  AllValid(gs, v) <=> AllValid(hs, v)
<1>1. ASSUME NEW i \in DOMAIN gs
      PROVE  /\ Valid(gs[i]) <=> Valid(hs[i])
             /\ OfVersion17(gs[i]) <=> OfVersion17(hs[i])
             /\ RowKey(gs[i], v) = RowKey(hs[i], v)
  <2>1. PICK g, h : g = gs[i] /\ h = hs[i]
    OBVIOUS
  <2>2. (\A x \in Fields \ Heavies : g[x] = h[x]) /\ (RowsHold(g) <=> RowsHold(h))
    BY <2>1
  <2>3. Valid(g) <=> Valid(h)
    BY <2>2, ValidAlike
  <2>4. /\ OfVersion17(g) <=> OfVersion17(h)
        /\ g.symbol = h.symbol /\ g.selection = h.selection
    BY <2>2, SameBesides
  <2>5. RowKey(g, v) = RowKey(h, v)
    BY <2>4 DEF RowKey
  <2> QED BY <2>1, <2>3, <2>4, <2>5
<1> QED BY <1>1 DEF AllValid

\* Evidence with another manifest.
Holding(e, m) == [e EXCEPT !.inputs = m]

LEMMA HoldingIs ==
    ASSUME NEW e, IsEvidence(e), NEW m
    PROVE  /\ IsEvidence(Holding(e, m))
           /\ Holding(e, m).of = e.of /\ Holding(e, m).pins = e.pins
           /\ Holding(e, m).ran = e.ran /\ Holding(e, m).inputs = m
           /\ m = e.inputs => Holding(e, m) = e
<1>1. e = [of |-> e.of, pins |-> e.pins, inputs |-> e.inputs, ran |-> e.ran]
  BY DEF IsEvidence
<1>2. PICK d : d = Holding(e, m)
  OBVIOUS
<1>3. d = [of |-> e.of, pins |-> e.pins, inputs |-> m, ran |-> e.ran]
  BY <1>1, <1>2 DEF Holding
<1> QED BY <1>1, <1>2, <1>3 DEF IsEvidence

LEMMA EvidenceAtIs ==
    ASSUME NEW f, NEW ref
    PROVE  LET x == The(Entry(f.evidence, ref))
           IN  /\ EvidenceAt(f, ref, TRUE) = IF x.content.pins = "zero" THEN x.content
                                             ELSE Holding(x.content, StandIn(f, x.inputs))
               /\ EvidenceAt(f, ref, FALSE) = IF x.content.pins = "zero" THEN x.content
                                              ELSE Holding(x.content, Manifest(f, x.inputs))
BY DEF EvidenceAt, Holding

\* One row's evidence with its manifest and with the stand-in for it.
LEMMA EvidenceAlike ==
    ASSUME NEW f, IsFile(f), KeysHold(f), RefsHold(f),
           NEW p, Entry(f.evidence, p) # {}, NEW q, Entry(f.evidence, q) # {}
    PROVE  /\ SameRow(EvidenceAt(f, p, TRUE), EvidenceAt(f, p, FALSE))
           /\ EvidenceAt(f, p, TRUE) = Zero <=> EvidenceAt(f, p, FALSE) = Zero
           /\ EvidenceComplete(EvidenceAt(f, p, TRUE)) /\ EvidenceComplete(EvidenceAt(f, q, TRUE))
              => (EvidenceAt(f, p, TRUE).inputs = EvidenceAt(f, q, TRUE).inputs
                     <=> EvidenceAt(f, p, FALSE).inputs = EvidenceAt(f, q, FALSE).inputs)
<1>1. ASSUME NEW ref, Entry(f.evidence, ref) # {}
      PROVE  /\ IsEvidence(The(Entry(f.evidence, ref)).content)
             /\ Entry(f.inputs, The(Entry(f.evidence, ref)).inputs) # {}
  <2>1. PICK i \in DOMAIN f.evidence : The(Entry(f.evidence, ref)) = f.evidence[i]
    BY <1>1, FoundIs
  <2> QED BY <2>1 DEF IsFile, RefsHold, Range
<1> DEFINE x == The(Entry(f.evidence, p))
           y == The(Entry(f.evidence, q))
<1>2. /\ IsEvidence(x.content) /\ IsEvidence(y.content)
      /\ StandIn(f, x.inputs) = {} <=> Manifest(f, x.inputs) = {}
      /\ StandIn(f, x.inputs) = StandIn(f, y.inputs)
            <=> Manifest(f, x.inputs) = Manifest(f, y.inputs)
  BY <1>1, StandInsTell
<1>3. PICK a, b, c, d : /\ a = EvidenceAt(f, p, TRUE) /\ b = EvidenceAt(f, p, FALSE)
                        /\ c = EvidenceAt(f, q, TRUE) /\ d = EvidenceAt(f, q, FALSE)
  OBVIOUS
<1>4. /\ a = IF x.content.pins = "zero" THEN x.content
             ELSE Holding(x.content, StandIn(f, x.inputs))
      /\ b = IF x.content.pins = "zero" THEN x.content
             ELSE Holding(x.content, Manifest(f, x.inputs))
      /\ c = IF y.content.pins = "zero" THEN y.content
             ELSE Holding(y.content, StandIn(f, y.inputs))
      /\ d = IF y.content.pins = "zero" THEN y.content
             ELSE Holding(y.content, Manifest(f, y.inputs))
  BY <1>3, EvidenceAtIs
<1> HIDE DEF x, y
<1>5. SameRow(a, b)
  <2>1. CASE x.content.pins = "zero"
    BY <1>4, <2>1 DEF SameRow
  <2>2. CASE x.content.pins # "zero"
    BY <1>2, <1>4, <2>2, HoldingIs DEF SameRow
  <2> QED BY <2>1, <2>2
<1>6. a = Zero <=> b = Zero
  <2>1. CASE x.content.pins = "zero"
    BY <1>4, <2>1
  <2>2. CASE x.content.pins # "zero"
    <3>1. a.pins = x.content.pins /\ b.pins = x.content.pins
      BY <1>2, <1>4, <2>2, HoldingIs
    <3>2. Zero.pins = "zero"
      BY DEF Zero
    <3> QED BY <2>2, <3>1, <3>2
  <2> QED BY <2>1, <2>2
<1>7. EvidenceComplete(a) /\ EvidenceComplete(c) => (a.inputs = c.inputs <=> b.inputs = d.inputs)
  <2>1. CASE x.content.pins = "zero"
    BY <1>4, <2>1 DEF EvidenceComplete
  <2>2. CASE y.content.pins = "zero"
    BY <1>4, <2>2 DEF EvidenceComplete
  <2>3. CASE x.content.pins # "zero" /\ y.content.pins # "zero"
    <3>1. /\ a.inputs = StandIn(f, x.inputs) /\ b.inputs = Manifest(f, x.inputs)
          /\ c.inputs = StandIn(f, y.inputs) /\ d.inputs = Manifest(f, y.inputs)
      BY <1>2, <1>4, <2>3, HoldingIs
    <3> QED BY <1>2, <3>1
  <2> QED BY <2>1, <2>2, <2>3
<1> QED BY <1>3, <1>5, <1>6, <1>7

LEMMA InlinedAlike ==
    ASSUME NEW f, IsFile(f), KeysHold(f), RefsHold(f), NEW r \in Range(f.rows)
    PROVE  SameRows(Inlined(f, r, TRUE), Inlined(f, r, FALSE))
<1>g. PICK g : g = Inlined(f, r, TRUE)
  OBVIOUS
<1>h. PICK h : h = Inlined(f, r, FALSE)
  OBVIOUS
<1>z. PICK z : z = Zeroed(r)
  OBVIOUS
<1>i. /\ IsFinding(g) /\ g.target = TargetOf(f, r, TRUE) /\ g.oracles = OraclesOf(f, r, TRUE)
      /\ \A x \in Fields \ Heavies : g[x] = z[x]
  BY <1>g, <1>z, InlinedIs
<1>j. /\ IsFinding(h) /\ h.target = TargetOf(f, r, FALSE) /\ h.oracles = OraclesOf(f, r, FALSE)
      /\ \A x \in Fields \ Heavies : h[x] = z[x]
  BY <1>h, <1>z, InlinedIs
<1>1. /\ IsFinding(g) /\ IsFinding(h)
      /\ g.target = TargetOf(f, r, TRUE) /\ h.target = TargetOf(f, r, FALSE)
      /\ g.oracles = OraclesOf(f, r, TRUE) /\ h.oracles = OraclesOf(f, r, FALSE)
      /\ \A x \in Fields \ Heavies : g[x] = h[x]
  BY <1>i, <1>j
<1>2. g.shaped = h.shaped /\ g.symbol = h.symbol
  BY <1>1, SameBesides
<1>3. IsSequence(g.oracles) /\ IsSequence(h.oracles)
  BY <1>1 DEF IsFinding
<1>4. /\ DOMAIN g.oracles = DOMAIN r.oracles /\ DOMAIN h.oracles = DOMAIN r.oracles
      /\ \A j \in DOMAIN r.oracles :
            \E ref : /\ Entry(f.evidence, ref) # {}
                    /\ g.oracles[j] = EvidenceAt(f, ref, TRUE)
                    /\ h.oracles[j] = EvidenceAt(f, ref, FALSE)
  <2>1. \A j \in DOMAIN r.oracles : Entry(f.evidence, r.oracles[j]) # {}
    <3>1. \A j \in DOMAIN r.oracles : r.oracles[j] \in r.target \cup Range(r.oracles)
      BY DEF Range
    <3> QED BY <3>1 DEF RefsHold
  <2>2. /\ g.oracles = [j \in DOMAIN r.oracles |-> EvidenceAt(f, r.oracles[j], TRUE)]
        /\ h.oracles = [j \in DOMAIN r.oracles |-> EvidenceAt(f, r.oracles[j], FALSE)]
    BY <1>1 DEF OraclesOf
  <2> QED BY <2>1, <2>2
<1>5. \/ /\ r.target = {} /\ g.target = Zero /\ h.target = Zero
      \/ \E ref : /\ Entry(f.evidence, ref) # {}
                  /\ g.target = EvidenceAt(f, ref, TRUE) /\ h.target = EvidenceAt(f, ref, FALSE)
  <2>1. CASE r.target = {}
    BY <1>1, <2>1 DEF TargetOf
  <2>2. CASE r.target # {}
    <3>1. The(r.target) \in r.target
      BY <2>2 DEF The
    <3>2. Entry(f.evidence, The(r.target)) # {}
      BY <3>1 DEF RefsHold
    <3> QED BY <1>1, <2>2, <3>2 DEF TargetOf
  <2> QED BY <2>1, <2>2
<1>6. SameRow(g.target, h.target) /\ (g.target = Zero <=> h.target = Zero)
  BY <1>5, EvidenceAlike DEF SameRow
<1>7. ASSUME NEW i \in DOMAIN g.oracles
      PROVE  /\ SameRow(g.oracles[i], h.oracles[i])
             /\ EvidenceComplete(g.oracles[i]) /\ EvidenceComplete(g.target)
                => (g.oracles[i].inputs = g.target.inputs <=> h.oracles[i].inputs = h.target.inputs)
             /\ \A j \in DOMAIN g.oracles :
                   EvidenceComplete(g.oracles[i]) /\ EvidenceComplete(g.oracles[j])
                   => (g.oracles[i].inputs = g.oracles[j].inputs
                          <=> h.oracles[i].inputs = h.oracles[j].inputs)
  <2>1. PICK p : /\ Entry(f.evidence, p) # {}
                 /\ g.oracles[i] = EvidenceAt(f, p, TRUE) /\ h.oracles[i] = EvidenceAt(f, p, FALSE)
    BY <1>4
  <2>2. SameRow(g.oracles[i], h.oracles[i])
    BY <2>1, EvidenceAlike
  <2>3. ASSUME NEW j \in DOMAIN g.oracles,
               EvidenceComplete(g.oracles[i]), EvidenceComplete(g.oracles[j])
        PROVE  g.oracles[i].inputs = g.oracles[j].inputs
                  <=> h.oracles[i].inputs = h.oracles[j].inputs
    <3>1. PICK q : /\ Entry(f.evidence, q) # {}
                   /\ g.oracles[j] = EvidenceAt(f, q, TRUE)
                   /\ h.oracles[j] = EvidenceAt(f, q, FALSE)
      BY <1>4
    <3>2. EvidenceComplete(EvidenceAt(f, p, TRUE)) /\ EvidenceComplete(EvidenceAt(f, q, TRUE))
          => (EvidenceAt(f, p, TRUE).inputs = EvidenceAt(f, q, TRUE).inputs
                 <=> EvidenceAt(f, p, FALSE).inputs = EvidenceAt(f, q, FALSE).inputs)
      BY <2>1, <3>1, EvidenceAlike
    <3> QED BY <2>1, <2>3, <3>1, <3>2
  <2>4. ASSUME EvidenceComplete(g.oracles[i]), EvidenceComplete(g.target)
        PROVE  g.oracles[i].inputs = g.target.inputs <=> h.oracles[i].inputs = h.target.inputs
    <3>1. ~EvidenceComplete(Zero)
      BY DEF EvidenceComplete, Zero
    <3>2. PICK q : /\ Entry(f.evidence, q) # {}
                   /\ g.target = EvidenceAt(f, q, TRUE) /\ h.target = EvidenceAt(f, q, FALSE)
      BY <1>5, <2>4, <3>1
    <3>3. EvidenceComplete(EvidenceAt(f, p, TRUE)) /\ EvidenceComplete(EvidenceAt(f, q, TRUE))
          => (EvidenceAt(f, p, TRUE).inputs = EvidenceAt(f, q, TRUE).inputs
                 <=> EvidenceAt(f, p, FALSE).inputs = EvidenceAt(f, q, FALSE).inputs)
      BY <2>1, <3>2, EvidenceAlike
    <3> QED BY <2>1, <2>4, <3>2, <3>3
  <2> QED BY <2>2, <2>3, <2>4
<1>8. SameRows(g, h)
  BY <1>2, <1>3, <1>4, <1>6, <1>7 DEF SameRows
<1> QED BY <1>8, <1>g, <1>h

LEMMA JudgedAlike ==
    ASSUME NEW f, IsFile(f), KeysHold(f), RefsHold(f), NEW v
    PROVE  AllValid(Expanded(f, TRUE), v) <=> AllValid(Expanded(f, FALSE), v)
<1> DEFINE gs == Expanded(f, TRUE)
           hs == Expanded(f, FALSE)
<1>1. /\ DOMAIN gs = DOMAIN f.rows /\ DOMAIN hs = DOMAIN f.rows
      /\ \A i \in DOMAIN f.rows : /\ gs[i] = Inlined(f, f.rows[i], TRUE)
                                  /\ hs[i] = Inlined(f, f.rows[i], FALSE)
                                  /\ f.rows[i] \in Range(f.rows)
  BY DEF Expanded, Range
<1> HIDE DEF gs, hs
<1>2. ASSUME NEW i \in DOMAIN gs
      PROVE  /\ \A x \in Fields \ Heavies : gs[i][x] = hs[i][x]
             /\ RowsHold(gs[i]) <=> RowsHold(hs[i])
  <2>1. PICK r \in Range(f.rows) : gs[i] = Inlined(f, r, TRUE) /\ hs[i] = Inlined(f, r, FALSE)
    BY <1>1
  <2>2. PICK g, h, z : g = Inlined(f, r, TRUE) /\ h = Inlined(f, r, FALSE) /\ z = Zeroed(r)
    OBVIOUS
  <2>3. \A x \in Fields \ Heavies : g[x] = z[x]
    BY <2>2, InlinedIs
  <2>4. \A x \in Fields \ Heavies : h[x] = z[x]
    BY <2>2, InlinedIs
  <2>5. RowsHold(g) <=> RowsHold(h)
    BY <2>2, InlinedAlike, RowsAlike
  <2>6. gs[i] = g /\ hs[i] = h
    BY <2>1, <2>2
  <2> QED BY <2>3, <2>4, <2>5, <2>6
<1> QED BY <1>1, <1>2, AllValidAlike DEF gs, hs

------------------------------------------------------------------------------
(* A reading.                                                              *)

Readable(f) ==
    /\ Oldest <= f.version /\ f.version <= Current
    /\ Decodes(f)
    /\ Bounded(f.version) => f.bounds # {}
    /\ Whole(f) /\ Lossless(f)

BoundsOf(f)  == IF f.version >= 11 THEN UNION f.bounds ELSE {}
RecordsOf(f) == IF Shape(f.version) = "inline" THEN Inline(Lifted(f)) ELSE InTables(Lifted(f))
Document(f, fs) == [findings |-> fs, bounds |-> BoundsOf(f)]

LEMMA ParsedIs ==
    ASSUME NEW f
    PROVE  Parsed(f) = {Document(f, fs) : fs \in IF Readable(f) THEN RecordsOf(f) ELSE {}}
BY DEF Parsed, Document, BoundsOf, RecordsOf, Readable

LEMMA ReadIs ==
    ASSUME NEW f, NEW d \in Parsed(f)
    PROVE  /\ Readable(f) /\ d = Document(f, d.findings)
           /\ IF Shape(f.version) = "inline"
              THEN /\ d.findings = [i \in DOMAIN Lifted(f).rows |-> Lifted(f).rows[i].finding]
                   /\ AllValid(d.findings, Lifted(f).version)
              ELSE /\ d.findings = Expanded(Lifted(f), FALSE)
                   /\ KeysHold(Lifted(f)) /\ RefsHold(Lifted(f))
                   /\ AllValid(Expanded(Lifted(f), TRUE), Lifted(f).version)
<1>1. PICK fs : Readable(f) /\ fs \in RecordsOf(f) /\ d = Document(f, fs)
  BY ParsedIs
<1>2. d.findings = fs
  BY <1>1 DEF Document
<1> QED BY <1>1, <1>2 DEF RecordsOf, Inline, InTables

LEMMA CurrentlyValid ==
    ASSUME NEW fs, NEW v \in Nat, v <= Current, AllValid(fs, v)
    PROVE  AllValid(fs, Current)
<1>1. Current = 17
  BY DEF Current
<1>2. ASSUME NEW i \in DOMAIN fs, NEW j \in DOMAIN fs,
             RowKey(fs[i], Current) = RowKey(fs[j], Current)
      PROVE  i = j
  <2>1. fs[i].symbol = fs[j].symbol /\ fs[i].selection = fs[j].selection
    BY <1>1, <1>2 DEF RowKey
  <2>2. RowKey(fs[i], v) = RowKey(fs[j], v)
    BY <2>1 DEF RowKey
  <2> QED BY <2>2 DEF AllValid
<1> QED BY <1>1, <1>2 DEF AllValid

LEMMA ReadsGood ==
    ASSUME NEW f, IsFile(f), NEW d \in Parsed(f)
    PROVE  IsDocument(d)
<1>1. PICK g : g = Lifted(f)
  OBVIOUS
<1>2. IsFile(g) /\ g.version = f.version
  BY <1>1, LiftedIs
<1>3. f.version \in Nat /\ f.version <= Current
  BY ReadIs DEF IsFile, Readable
<1>4. PICK n \in Nat : DOMAIN g.rows = 1 .. n
  BY <1>2, SequenceIs DEF IsFile
<1>5. PICK fs : fs = d.findings
  OBVIOUS
<1>6. fs = [i \in 1 .. n |-> fs[i]] /\ \A i \in 1 .. n : IsFinding(fs[i])
  <2>1. CASE Shape(f.version) = "inline"
    <3>1. fs = [i \in 1 .. n |-> g.rows[i].finding]
      BY <1>1, <1>4, <1>5, <2>1, ReadIs
    <3> QED BY <1>2, <1>4, <3>1 DEF IsFile, IsRow
  <2>2. CASE Shape(f.version) # "inline"
    <3>1. fs = Expanded(g, FALSE) /\ RefsHold(g)
      BY <1>1, <1>5, <2>2, ReadIs
    <3>2. fs = [i \in 1 .. n |-> Inlined(g, g.rows[i], FALSE)]
      BY <1>4, <3>1 DEF Expanded
    <3>3. \A i \in 1 .. n : g.rows[i] \in Range(g.rows)
      BY <1>4 DEF Range
    <3>4. \A i \in 1 .. n : IsFinding(Inlined(g, g.rows[i], FALSE))
      BY <1>2, <3>1, <3>3, InlinedIs
    <3> QED BY <3>2, <3>4
  <2> QED BY <2>1, <2>2
<1>7. IsSequence(fs) /\ DOMAIN fs = 1 .. n
  BY <1>6, IsASequence
<1>8. AllValid(fs, f.version)
  <2>1. CASE Shape(f.version) = "inline"
    BY <1>1, <1>2, <1>5, <2>1, ReadIs
  <2>2. CASE Shape(f.version) # "inline"
    <3>1. /\ fs = Expanded(g, FALSE) /\ KeysHold(g) /\ RefsHold(g)
          /\ AllValid(Expanded(g, TRUE), f.version)
      BY <1>1, <1>2, <1>5, <2>2, ReadIs
    <3> QED BY <1>2, <3>1, JudgedAlike
  <2> QED BY <2>1, <2>2
<1>9. AllValid(fs, Current)
  BY <1>3, <1>8, CurrentlyValid
<1>10. d = [findings |-> d.findings, bounds |-> d.bounds]
  <2>1. PICK b : d = [findings |-> fs, bounds |-> b]
    BY <1>5, ReadIs DEF Document
  <2> QED BY <2>1
<1> QED BY <1>5, <1>6, <1>7, <1>9, <1>10 DEF IsDocument

------------------------------------------------------------------------------
(* A tabled layout whose references resolve reads as what was laid out.    *)

EvidenceOf(fs) == UNION {Heavy(fs[i]) : i \in DOMAIN fs}
LedgersOf(fs)  == UNION {fs[i].ledger : i \in DOMAIN fs}

\* Whatever a reference resolves to is what it was laid out for.
Tells(f, fs, ev, led) ==
    /\ \A e \in EvidenceOf(fs) : \A x \in Entry(f.evidence, ev[e]) :
          x.content = Holding(e, {})
    /\ \A e \in EvidenceOf(fs) : \A x \in Entry(f.evidence, ev[e]) :
          \A y \in Entry(f.inputs, x.inputs) : y.content = e.inputs
    /\ \A l \in LedgersOf(fs) : \A x \in Entry(f.ledgers, led[l]) : x.content = l

\* A row whose references were laid out for a finding's entries.
Refers(r, g, ev, led) ==
    /\ r.target = IF g.shaped THEN {} ELSE {ev[g.target]}
    /\ r.oracles = [j \in DOMAIN g.oracles |-> ev[g.oracles[j]]]
    /\ r.ledger = {led[l] : l \in g.ledger}

LEMMA LightIs ==
    ASSUME NEW g, IsFinding(g)
    PROVE  /\ Light(g) = Rowed(g, Zero, <<>>, {})
           /\ IsFinding(Light(g)) /\ Light(Light(g)) = Light(g)
           /\ Light(g).shaped = g.shaped /\ Light(g).symbol = g.symbol
           /\ \A x \in Fields \ Heavies : Light(g)[x] = g[x]
<1>1. Light(g) = Rowed(g, Zero, <<>>, {})
  BY DEF Light, Rowed
<1>2. IsSequence(<<>>) /\ DOMAIN <<>> = {} /\ IsFiniteSet({}) /\ IsEvidence(Zero)
  <2>1. <<>> \in Seq(Range(<<>>))
    OBVIOUS
  <2> QED BY <2>1, ZeroIs, FS_EmptySet DEF IsSequence
<1>3. PICK h : h = Rowed(g, Zero, <<>>, {})
  OBVIOUS
<1>4. /\ IsFinding(h) /\ h.target = Zero /\ h.oracles = <<>> /\ h.ledger = {}
      /\ \A x \in Fields \ Heavies : h[x] = g[x]
  BY <1>2, <1>3, FindingRowed
<1>5. Light(h) = h
  <2>1. h = [x \in Fields |-> h[x]]
    BY <1>4 DEF IsFinding
  <2>2. [h EXCEPT !.target = Zero, !.oracles = <<>>, !.ledger = {}] = h
    BY <1>4, <2>1
  <2> QED BY <2>2 DEF Light
<1>6. h.shaped = g.shaped /\ h.symbol = g.symbol
  BY <1>4, SameBesides
<1> QED BY <1>1, <1>3, <1>4, <1>5, <1>6

\* A finding laid out light is whole again with what its references name.
LEMMA WholeAgain ==
    ASSUME NEW g, IsFinding(g)
    PROVE  Rowed(Light(g), g.target, g.oracles, g.ledger) = g
<1>1. g = [x \in Fields |-> g[x]] /\ {"target", "oracles", "ledger"} \subseteq Fields
  BY FieldsAre DEF IsFinding, Heavies
<1>2. PICK e, os, l : e = g.target /\ os = g.oracles /\ l = g.ledger
  OBVIOUS
<1>3. Rowed([g EXCEPT !.target = Zero, !.oracles = <<>>, !.ledger = {}], e, os, l) = g
  BY <1>1, <1>2 DEF Rowed
<1> QED BY <1>2, <1>3 DEF Light

LEMMA EvidenceTold ==
    ASSUME NEW f, NEW fs, NEW ev, NEW led, Tells(f, fs, ev, led), RefsHold(f),
           NEW e \in EvidenceOf(fs), IsEvidence(e), EvidenceComplete(e),
           Entry(f.evidence, ev[e]) # {}
    PROVE  EvidenceAt(f, ev[e], FALSE) = e
<1>1. PICK x : x = The(Entry(f.evidence, ev[e]))
  OBVIOUS
<1>2. x \in Entry(f.evidence, ev[e])
  BY <1>1 DEF The
<1>3. x \in Range(f.evidence)
  BY <1>2 DEF Entry
<1>4. Entry(f.inputs, x.inputs) # {}
  BY <1>3 DEF RefsHold
<1>5. Manifest(f, x.inputs) = e.inputs
  <2>1. The(Entry(f.inputs, x.inputs)) \in Entry(f.inputs, x.inputs)
    BY <1>4 DEF The
  <2> QED BY <1>2, <2>1 DEF Tells, Manifest
<1>6. x.content = Holding(e, {})
  BY <1>2 DEF Tells
<1>7. x.content.pins = "complete" /\ IsEvidence(x.content)
  <2>1. PICK m : m = {}
    OBVIOUS
  <2>2. Holding(e, m).pins = e.pins /\ IsEvidence(Holding(e, m))
    BY HoldingIs
  <2> QED BY <1>6, <2>1, <2>2 DEF EvidenceComplete
<1>8. EvidenceAt(f, ev[e], FALSE) = Holding(x.content, e.inputs)
  BY <1>1, <1>5, <1>7, EvidenceAtIs
<1>9. Holding(Holding(e, {}), e.inputs) = e
  BY DEF IsEvidence, Holding
<1> QED BY <1>6, <1>8, <1>9

LEMMA RowTold ==
    ASSUME NEW f, IsFile(f), RefsHold(f), NEW fs, NEW ev, NEW led, Tells(f, fs, ev, led),
           NEW i \in DOMAIN fs, IsFinding(fs[i]), RowsHold(fs[i]),
           NEW r \in Range(f.rows), Zeroed(r) = Light(fs[i]), Refers(r, fs[i], ev, led)
    PROVE  Inlined(f, r, FALSE) = fs[i]
<1>1. PICK g : g = fs[i]
  OBVIOUS
<1>2. /\ IsFinding(g) /\ RowsHold(g)
      /\ r.target = IF g.shaped THEN {} ELSE {ev[g.target]}
      /\ r.oracles = [j \in DOMAIN g.oracles |-> ev[g.oracles[j]]]
      /\ r.ledger = {led[l] : l \in g.ledger}
  BY <1>1 DEF Refers
<1>3. /\ \A ref \in r.target \cup Range(r.oracles) : Entry(f.evidence, ref) # {}
      /\ \A ref \in r.ledger : Entry(f.ledgers, ref) # {}
  BY DEF RefsHold
<1>4. Heavy(g) \subseteq EvidenceOf(fs) /\ g.ledger \subseteq LedgersOf(fs)
  BY <1>1 DEF EvidenceOf, LedgersOf
<1>5. TargetOf(f, r, FALSE) = g.target
  <2>1. CASE g.shaped
    BY <1>2, <2>1 DEF TargetOf, RowsHold
  <2>2. CASE ~g.shaped
    <3>1. r.target = {ev[g.target]} /\ The(r.target) = ev[g.target]
      BY <1>2, <2>2 DEF The
    <3>2. g.target \in EvidenceOf(fs)
      BY <1>4, <2>2 DEF Heavy
    <3>3. IsEvidence(g.target) /\ EvidenceComplete(g.target)
      BY <1>2, <2>2 DEF IsFinding, RowsHold
    <3>4. Entry(f.evidence, ev[g.target]) # {}
      BY <1>3, <3>1
    <3>5. PICK e : e = g.target
      OBVIOUS
    <3>6. EvidenceAt(f, ev[e], FALSE) = e
      BY <3>2, <3>3, <3>4, <3>5, EvidenceTold
    <3> QED BY <3>1, <3>5, <3>6 DEF TargetOf
  <2> QED BY <2>1, <2>2
<1>6. OraclesOf(f, r, FALSE) = g.oracles
  <2>1. PICK n \in Nat : DOMAIN g.oracles = 1 .. n /\ g.oracles = [j \in 1 .. n |-> g.oracles[j]]
    BY <1>2, SequenceIs DEF IsFinding
  <2>2. r.oracles = [j \in 1 .. n |-> ev[g.oracles[j]]]
    BY <1>2, <2>1
  <2>3. ASSUME NEW j \in 1 .. n
        PROVE  EvidenceAt(f, r.oracles[j], FALSE) = g.oracles[j]
    <3>1. r.oracles[j] = ev[g.oracles[j]] /\ r.oracles[j] \in Range(r.oracles)
      BY <2>2 DEF Range
    <3>2. g.oracles[j] \in EvidenceOf(fs)
      BY <1>4, <2>1 DEF Heavy, Range
    <3>3. IsEvidence(g.oracles[j]) /\ EvidenceComplete(g.oracles[j])
      BY <1>2, <2>1 DEF IsFinding, RowsHold
    <3>4. Entry(f.evidence, ev[g.oracles[j]]) # {}
      BY <1>3, <3>1
    <3>5. PICK e : e = g.oracles[j]
      OBVIOUS
    <3>6. EvidenceAt(f, ev[e], FALSE) = e
      BY <3>2, <3>3, <3>4, <3>5, EvidenceTold
    <3> QED BY <3>1, <3>5, <3>6
  <2>4. OraclesOf(f, r, FALSE) = [j \in 1 .. n |-> EvidenceAt(f, r.oracles[j], FALSE)]
    BY <2>2 DEF OraclesOf
  <2> QED BY <2>1, <2>3, <2>4
<1>7. LedgerOf(f, r) = g.ledger
  <2>1. r.ledger = {led[l] : l \in g.ledger}
    BY <1>2
  <2>2. ASSUME NEW l \in g.ledger PROVE The(Entry(f.ledgers, led[l])).content = l
    <3>1. Entry(f.ledgers, led[l]) # {}
      BY <1>3, <2>1
    <3>2. The(Entry(f.ledgers, led[l])) \in Entry(f.ledgers, led[l])
      BY <3>1 DEF The
    <3> QED BY <1>4, <3>2 DEF Tells
  <2> QED BY <2>1, <2>2 DEF LedgerOf
<1>8. Inlined(f, r, FALSE) = Rowed(Light(g), g.target, g.oracles, g.ledger)
  <2>1. PICK b : b = FALSE
    OBVIOUS
  <2>2. Inlined(f, r, b) = Rowed(Zeroed(r), TargetOf(f, r, b), OraclesOf(f, r, b), LedgerOf(f, r))
    BY InlinedIs
  <2> QED BY <1>1, <1>5, <1>6, <1>7, <2>1, <2>2
<1> QED BY <1>1, <1>2, <1>8, WholeAgain

LEMMA ToldReads ==
    ASSUME NEW f, IsFile(f), RefsHold(f), NEW fs, IsSequence(fs),
           \A i \in DOMAIN fs : IsFinding(fs[i]) /\ RowsHold(fs[i]),
           NEW ev, NEW led, Tells(f, fs, ev, led), DOMAIN f.rows = DOMAIN fs,
           \A i \in DOMAIN fs : /\ Zeroed(f.rows[i]) = Light(fs[i])
                                /\ Refers(f.rows[i], fs[i], ev, led)
    PROVE  Expanded(f, FALSE) = fs
<1>1. PICK n \in Nat : DOMAIN fs = 1 .. n /\ fs = [i \in 1 .. n |-> fs[i]]
  BY SequenceIs
<1>2. ASSUME NEW i \in 1 .. n PROVE Inlined(f, f.rows[i], FALSE) = fs[i]
  <2>1. PICK r : r = f.rows[i]
    OBVIOUS
  <2>2. r \in Range(f.rows)
    BY <1>1, <2>1 DEF Range
  <2>3. Inlined(f, r, FALSE) = fs[i]
    BY <1>1, <2>1, <2>2, RowTold
  <2> QED BY <2>1, <2>3
<1>3. Expanded(f, FALSE) = [i \in 1 .. n |-> Inlined(f, f.rows[i], FALSE)]
  BY <1>1 DEF Expanded
<1> QED BY <1>1, <1>2, <1>3

------------------------------------------------------------------------------
(* The layouts of a document.                                              *)

LaidInline(f, fs) ==
    /\ f.rows = [i \in DOMAIN fs |-> [finding |-> fs[i], lost |-> {}, target |-> {},
                                      oracles |-> <<>>, ledger |-> {}]]
    /\ f.inputs = <<>> /\ f.evidence = <<>> /\ f.ledgers = <<>>

LaidInTables(f, fs, ev, led) ==
    /\ f.rows = TableRows(fs, ev, led)
    /\ Tells(f, fs, ev, led) /\ KeysHold(f) /\ RefsHold(f)

Layout(f, doc) ==
    /\ IsFile(f) /\ IsDocument(doc)
    /\ Oldest <= f.version /\ f.version <= Current
    /\ f.shape = Shape(f.version) /\ f.flat = Flat(f.version) /\ f.defect = {}
    /\ f.bounds = IF Bounded(f.version) THEN {doc.bounds} ELSE {}
    /\ Bounded(f.version) \/ doc.bounds = {}
    /\ AllValid(doc.findings, f.version)
    /\ IF f.shape = "inline" THEN LaidInline(f, doc.findings)
       ELSE \E ev, led : LaidInTables(f, doc.findings, ev, led)

\* What a layout's rows are, whichever way it is laid out.
FindingsOf(f) ==
    IF Shape(f.version) = "inline" THEN [i \in DOMAIN f.rows |-> f.rows[i].finding]
    ELSE Expanded(f, FALSE)

LEMMA TableRowsAre ==
    ASSUME NEW fs, NEW ev, NEW led, \A i \in DOMAIN fs : IsFinding(fs[i])
    PROVE  LET rs == TableRows(fs, ev, led)
           IN  /\ DOMAIN rs = DOMAIN fs
               /\ \A i \in DOMAIN fs :
                     /\ rs[i].finding = Light(fs[i]) /\ rs[i].lost = {}
                     /\ Refers(rs[i], fs[i], ev, led)
                     /\ Zeroed(rs[i]) = Light(fs[i])
                     /\ IsFinding(rs[i].finding)
<1>1. ASSUME NEW i \in DOMAIN fs
      PROVE  LET r == TableRows(fs, ev, led)[i]
             IN  /\ r.finding = Light(fs[i]) /\ r.lost = {}
                 /\ Refers(r, fs[i], ev, led) /\ Zeroed(r) = Light(fs[i])
                 /\ IsFinding(r.finding)
  <2>1. PICK r : r = TableRows(fs, ev, led)[i]
    OBVIOUS
  <2>2. r.finding = Light(fs[i]) /\ r.lost = {} /\ Refers(r, fs[i], ev, led)
    BY <2>1 DEF TableRows, Refers
  <2>3. IsFinding(r.finding)
    BY <2>2, LightIs
  <2>4. Zeroed(r) = r.finding
    BY <2>2, <2>3, ZeroedIs
  <2> QED BY <2>1, <2>2, <2>3, <2>4
<1>2. DOMAIN TableRows(fs, ev, led) = DOMAIN fs
  BY DEF TableRows
<1> QED BY <1>1, <1>2

LEMMA BoundsRead ==
    ASSUME NEW f, NEW doc, Layout(f, doc)
    PROVE  BoundsOf(f) = doc.bounds
<1>1. f.version \in Nat
  BY DEF Layout, IsFile
<1>2. CASE f.version >= 12
  <2>1. f.bounds = {doc.bounds} /\ f.version >= 11
    BY <1>1, <1>2 DEF Layout, Bounded
  <2>2. UNION {doc.bounds} = doc.bounds
    OBVIOUS
  <2> QED BY <2>1, <2>2 DEF BoundsOf
<1>3. CASE ~(f.version >= 12)
  <2>1. f.bounds = {} /\ doc.bounds = {}
    BY <1>3 DEF Layout, Bounded
  <2>2. UNION {} = {}
    OBVIOUS
  <2> QED BY <2>1, <2>2 DEF BoundsOf
<1> QED BY <1>2, <1>3

LEMMA LayoutHolds ==
    ASSUME NEW f, NEW doc, Layout(f, doc)
    PROVE  FindingsOf(f) = doc.findings
<1>1. IsSequence(doc.findings) /\ \A i \in DOMAIN doc.findings : IsFinding(doc.findings[i])
  BY DEF Layout, IsDocument
<1>2. \A i \in DOMAIN doc.findings : RowsHold(doc.findings[i])
  BY DEF Layout, AllValid, Valid
<1>3. PICK n \in Nat : /\ DOMAIN doc.findings = 1 .. n
                       /\ doc.findings = [i \in 1 .. n |-> doc.findings[i]]
  BY <1>1, SequenceIs
<1>4. CASE Shape(f.version) = "inline"
  <2>1. LaidInline(f, doc.findings)
    BY <1>4 DEF Layout
  <2>2. DOMAIN f.rows = 1 .. n /\ \A i \in 1 .. n : f.rows[i].finding = doc.findings[i]
    BY <1>3, <2>1 DEF LaidInline
  <2> QED BY <1>3, <1>4, <2>2 DEF FindingsOf
<1>5. CASE Shape(f.version) # "inline"
  <2>1. PICK ev, led : LaidInTables(f, doc.findings, ev, led)
    BY <1>5 DEF Layout
  <2>2. Tells(f, doc.findings, ev, led) /\ RefsHold(f) /\ IsFile(f)
    BY <2>1 DEF LaidInTables, Layout
  <2>3. /\ DOMAIN f.rows = DOMAIN doc.findings
        /\ \A i \in DOMAIN doc.findings : /\ Zeroed(f.rows[i]) = Light(doc.findings[i])
                                          /\ Refers(f.rows[i], doc.findings[i], ev, led)
    BY <1>1, <2>1, TableRowsAre DEF LaidInTables
  <2>4. Expanded(f, FALSE) = doc.findings
    BY <1>1, <1>2, <2>2, <2>3, ToldReads
  <2> QED BY <1>5, <2>4 DEF FindingsOf
<1> QED BY <1>4, <1>5

LEMMA LayoutReadable ==
    ASSUME NEW f, NEW doc, Layout(f, doc)
    PROVE  Readable(f)
<1>1. \A i \in DOMAIN doc.findings : IsFinding(doc.findings[i])
  BY DEF Layout, IsDocument
<1>2. \A r \in Range(f.rows) : r.lost = {}
  <2>1. CASE f.shape = "inline"
    BY <2>1 DEF Layout, LaidInline, Range
  <2>2. CASE f.shape # "inline"
    <3>1. PICK ev, led : LaidInTables(f, doc.findings, ev, led)
      BY <2>2 DEF Layout
    <3> QED BY <1>1, <3>1, TableRowsAre DEF LaidInTables, Range
  <2> QED BY <2>1, <2>2
<1> QED BY <1>2 DEF Layout, Readable, Decodes, Whole, Lossless

LEMMA LayoutReads ==
    ASSUME NEW f, NEW doc, Layout(f, doc)
    PROVE  Parsed(f) = {doc}
<1>1. IsFile(f) /\ f.flat = Flat(f.version)
  BY DEF Layout
<1>2. Lifted(f) = f
  BY <1>1, LiftedIs
<1>3. FindingsOf(f) = doc.findings /\ AllValid(doc.findings, f.version)
  BY LayoutHolds DEF Layout
<1>4. RecordsOf(f) = {doc.findings}
  <2>1. CASE Shape(f.version) = "inline"
    BY <1>2, <1>3, <2>1 DEF RecordsOf, Inline, FindingsOf
  <2>2. CASE Shape(f.version) # "inline"
    <3>1. KeysHold(f) /\ RefsHold(f)
      BY <2>2 DEF Layout, LaidInTables
    <3>2. Expanded(f, FALSE) = doc.findings
      BY <1>3, <2>2 DEF FindingsOf
    <3>3. AllValid(Expanded(f, TRUE), f.version)
      BY <1>1, <1>3, <3>1, <3>2, JudgedAlike
    <3> QED BY <1>2, <2>2, <3>1, <3>2, <3>3 DEF RecordsOf, InTables
  <2> QED BY <2>1, <2>2
<1>5. Document(f, doc.findings) = doc
  <2>1. doc = [findings |-> doc.findings, bounds |-> doc.bounds]
    BY DEF Layout, IsDocument
  <2> QED BY <2>1, BoundsRead DEF Document
<1> QED BY <1>4, <1>5, LayoutReadable, ParsedIs

------------------------------------------------------------------------------
(* What is written is a layout.                                            *)

LEMMA EvidenceFinite ==
    ASSUME NEW fs, IsSequence(fs), \A i \in DOMAIN fs : IsFinding(fs[i])
    PROVE  IsFiniteSet(EvidenceOf(fs)) /\ IsFiniteSet(LedgersOf(fs))
<1>1. PICK n \in Nat : DOMAIN fs = 1 .. n
  BY SequenceIs
<1>2. IsFiniteSet(DOMAIN fs)
  BY <1>1, FS_Interval
<1>3. \A i \in DOMAIN fs : IsFiniteSet(Heavy(fs[i]))
  <2> TAKE i \in DOMAIN fs
  <2>1. PICK os : os = fs[i].oracles
    OBVIOUS
  <2>2. PICK m \in Nat : DOMAIN os = 1 .. m
    BY <2>1, SequenceIs DEF IsFinding
  <2>3. IsFiniteSet({os[j] : j \in 1 .. m})
    <3>1. PICK S : S = 1 .. m
      OBVIOUS
    <3>2. IsFiniteSet(S)
      BY <3>1, FS_Interval
    <3>3. IsFiniteSet({os[j] : j \in S})
      BY <3>2, ImageFinite
    <3> QED BY <3>1, <3>3
  <2>4. Range(os) = {os[j] : j \in 1 .. m}
    BY <2>2 DEF Range
  <2>5. PICK a : a = (IF fs[i].shaped THEN {} ELSE {fs[i].target}) /\ IsFiniteSet(a)
    BY FS_EmptySet, FS_Singleton
  <2> QED BY <2>1, <2>3, <2>4, <2>5, FS_Union DEF Heavy
<1>4. \A i \in DOMAIN fs : IsFiniteSet(fs[i].ledger)
  BY FieldsAre DEF IsFinding
<1>5. IsFiniteSet({Heavy(fs[i]) : i \in DOMAIN fs})
  <2>1. PICK v : v = [i \in DOMAIN fs |-> Heavy(fs[i])]
    OBVIOUS
  <2>2. {Heavy(fs[i]) : i \in DOMAIN fs} = {v[i] : i \in DOMAIN fs}
    BY <2>1
  <2> QED BY <1>2, <2>2, ImageFinite
<1>6. IsFiniteSet({fs[i].ledger : i \in DOMAIN fs})
  <2>1. PICK v : v = [i \in DOMAIN fs |-> fs[i].ledger]
    OBVIOUS
  <2>2. {fs[i].ledger : i \in DOMAIN fs} = {v[i] : i \in DOMAIN fs}
    BY <2>1
  <2> QED BY <1>2, <2>2, ImageFinite
<1>7. IsFiniteSet(EvidenceOf(fs))
  <2>1. \A S \in {Heavy(fs[i]) : i \in DOMAIN fs} : IsFiniteSet(S)
    BY <1>3
  <2> QED BY <1>5, <2>1, FS_UNION DEF EvidenceOf
<1>8. IsFiniteSet(LedgersOf(fs))
  <2>1. \A S \in {fs[i].ledger : i \in DOMAIN fs} : IsFiniteSet(S)
    BY <1>4
  <2> QED BY <1>6, <2>1, FS_UNION DEF LedgersOf
<1> QED BY <1>7, <1>8

LEMMA EvidenceTyped ==
    ASSUME NEW fs, \A i \in DOMAIN fs : IsFinding(fs[i]), NEW e \in EvidenceOf(fs)
    PROVE  IsEvidence(e)
<1>1. PICK i \in DOMAIN fs : e \in Heavy(fs[i])
  BY DEF EvidenceOf
<1>2. IsFinding(fs[i])
  OBVIOUS
<1>3. e = fs[i].target \/ \E j \in DOMAIN fs[i].oracles : e = fs[i].oracles[j]
  BY <1>1 DEF Heavy, Range
<1> QED BY <1>2, <1>3 DEF IsFinding

\* internDocument's one entry to a key, where no two entries share one.
One(keys) == {CHOOSE a \in DOMAIN keys : keys[a] = k : k \in Range(keys)}

LEMMA OneToAKey ==
    ASSUME NEW keys, ~Clash(keys)
    PROVE  One(keys) = DOMAIN keys
<1> DEFINE Of(k) == CHOOSE a \in DOMAIN keys : keys[a] = k
<1>1. ASSUME NEW a \in DOMAIN keys PROVE Of(keys[a]) = a
  <2>1. Of(keys[a]) \in DOMAIN keys /\ keys[Of(keys[a])] = keys[a]
    OBVIOUS
  <2> QED BY <2>1 DEF Clash
<1>2. One(keys) = {Of(k) : k \in Range(keys)}
  BY DEF One
<1> HIDE DEF Of
<1>3. \A k \in Range(keys) : \E a \in DOMAIN keys : k = keys[a]
  BY DEF Range
<1>4. \A a \in DOMAIN keys : keys[a] \in Range(keys)
  BY DEF Range
<1> QED BY <1>1, <1>2, <1>3, <1>4

\* A table numbered from a set of entries with a key each.
LEMMA TableIs ==
    ASSUME NEW S, IsFiniteSet(S), \A x, y \in S : x.key = y.key => x = y
    PROVE  /\ IsSequence(SetToSeq(S)) /\ Range(SetToSeq(S)) = S
           /\ Unrepeated(SetToSeq(S))
<1>1. PICK s : s = SetToSeq(S)
  OBVIOUS
<1>2. /\ IsSequence(s) /\ Range(s) = S
      /\ \A i, j \in DOMAIN s : s[i] = s[j] => i = j
  BY <1>1, NumberedIs
<1>3. \A i \in DOMAIN s : s[i] \in S
  BY <1>2 DEF Range
<1> QED BY <1>1, <1>2, <1>3 DEF Unrepeated

InputsOf(fs) == {e.inputs : e \in EvidenceOf(fs)}

EvidenceKeys(fs) == [e \in EvidenceOf(fs) |-> EvidenceKey(e)]
InputsKeys(fs)   == [m \in InputsOf(fs) |-> InputsKey(m)]
LedgerKeys(fs)   == [l \in LedgersOf(fs) |-> LedgerKey(l)]

Distinct(fs) == ~Clash(EvidenceKeys(fs)) /\ ~Clash(InputsKeys(fs)) /\ ~Clash(LedgerKeys(fs))

InputsTable(fs)   == {[key |-> InputsKey(m), content |-> m] : m \in InputsOf(fs)}
EvidenceTable(fs) == {[key |-> EvidenceKey(e), content |-> Cleared(e),
                       inputs |-> InputsKey(e.inputs)] : e \in EvidenceOf(fs)}
LedgersTable(fs)  == {[key |-> LedgerKey(l), content |-> l] : l \in LedgersOf(fs)}

LEMMA TabledIs ==
    ASSUME NEW doc, Distinct(doc.findings)
    PROVE  Tabled(doc) =
              [version |-> Current, shape |-> "keyed", flat |-> FALSE, defect |-> {},
               inputs   |-> SetToSeq(InputsTable(doc.findings)),
               evidence |-> SetToSeq(EvidenceTable(doc.findings)),
               ledgers  |-> SetToSeq(LedgersTable(doc.findings)),
               rows     |-> TableRows(doc.findings, EvidenceKeys(doc.findings),
                                      LedgerKeys(doc.findings)),
               bounds   |-> {doc.bounds}]
<1>1. PICK fs : fs = doc.findings
  OBVIOUS
<1>2. /\ Tables(fs).evidence = EvidenceOf(fs) /\ Tables(fs).inputs = InputsOf(fs)
      /\ Tables(fs).ledgers = LedgersOf(fs)
  BY DEF Tables, EvidenceOf, InputsOf, LedgersOf
<1>3. PICK t : t = Keyed(Tables(fs))
  OBVIOUS
<1>4. /\ t.evidence = EvidenceKeys(fs) /\ t.inputs = InputsKeys(fs) /\ t.ledgers = LedgerKeys(fs)
  BY <1>2, <1>3 DEF Keyed, EvidenceKeys, InputsKeys, LedgerKeys
<1>5. /\ One(t.evidence) = EvidenceOf(fs) /\ One(t.inputs) = InputsOf(fs)
      /\ One(t.ledgers) = LedgersOf(fs)
  BY <1>1, <1>4, OneToAKey DEF Distinct, EvidenceKeys, InputsKeys, LedgerKeys
<1>6. Tabled(doc) =
        [version |-> Current, shape |-> "keyed", flat |-> FALSE, defect |-> {},
         inputs   |-> SetToSeq({[key |-> InputsKey(m), content |-> m] : m \in One(t.inputs)}),
         evidence |-> SetToSeq({[key |-> EvidenceKey(e), content |-> Cleared(e),
                                 inputs |-> InputsKey(e.inputs)] : e \in One(t.evidence)}),
         ledgers  |-> SetToSeq({[key |-> LedgerKey(l), content |-> l] : l \in One(t.ledgers)}),
         rows     |-> TableRows(fs, t.evidence, t.ledgers),
         bounds   |-> {doc.bounds}]
  BY <1>1, <1>3 DEF Tabled, One
<1> QED BY <1>1, <1>4, <1>5, <1>6 DEF InputsTable, EvidenceTable, LedgersTable

LEMMA TablesAre ==
    ASSUME NEW fs, IsSequence(fs), \A i \in DOMAIN fs : IsFinding(fs[i]), Distinct(fs)
    PROVE  /\ IsSequence(SetToSeq(InputsTable(fs))) /\ Unrepeated(SetToSeq(InputsTable(fs)))
           /\ IsSequence(SetToSeq(EvidenceTable(fs))) /\ Unrepeated(SetToSeq(EvidenceTable(fs)))
           /\ IsSequence(SetToSeq(LedgersTable(fs))) /\ Unrepeated(SetToSeq(LedgersTable(fs)))
           /\ Range(SetToSeq(InputsTable(fs))) = InputsTable(fs)
           /\ Range(SetToSeq(EvidenceTable(fs))) = EvidenceTable(fs)
           /\ Range(SetToSeq(LedgersTable(fs))) = LedgersTable(fs)
<1>1. IsFiniteSet(EvidenceOf(fs)) /\ IsFiniteSet(LedgersOf(fs))
  BY EvidenceFinite
<1>2. IsFiniteSet(InputsOf(fs))
  <2>1. PICK v : v = [e \in EvidenceOf(fs) |-> e.inputs]
    OBVIOUS
  <2>2. InputsOf(fs) = {v[e] : e \in EvidenceOf(fs)}
    BY <2>1 DEF InputsOf
  <2> QED BY <1>1, <2>2, ImageFinite
<1>3. IsFiniteSet(InputsTable(fs))
  <2>1. PICK v : v = [m \in InputsOf(fs) |-> [key |-> InputsKey(m), content |-> m]]
    OBVIOUS
  <2>2. InputsTable(fs) = {v[m] : m \in InputsOf(fs)}
    BY <2>1 DEF InputsTable
  <2> QED BY <1>2, <2>2, ImageFinite
<1>4. IsFiniteSet(EvidenceTable(fs))
  <2>1. PICK v : v = [e \in EvidenceOf(fs) |-> [key |-> EvidenceKey(e), content |-> Cleared(e),
                                                inputs |-> InputsKey(e.inputs)]]
    OBVIOUS
  <2>2. EvidenceTable(fs) = {v[e] : e \in EvidenceOf(fs)}
    BY <2>1 DEF EvidenceTable
  <2> QED BY <1>1, <2>2, ImageFinite
<1>5. IsFiniteSet(LedgersTable(fs))
  <2>1. PICK v : v = [l \in LedgersOf(fs) |-> [key |-> LedgerKey(l), content |-> l]]
    OBVIOUS
  <2>2. LedgersTable(fs) = {v[l] : l \in LedgersOf(fs)}
    BY <2>1 DEF LedgersTable
  <2> QED BY <1>1, <2>2, ImageFinite
<1>6. \A x, y \in InputsTable(fs) : x.key = y.key => x = y
  <2>1. \A m, n \in InputsOf(fs) : InputsKey(m) = InputsKey(n) => m = n
    BY DEF Distinct, Clash, InputsKeys
  <2> QED BY <2>1 DEF InputsTable
<1>7. \A x, y \in EvidenceTable(fs) : x.key = y.key => x = y
  <2>1. \A d, e \in EvidenceOf(fs) : EvidenceKey(d) = EvidenceKey(e) => d = e
    BY DEF Distinct, Clash, EvidenceKeys
  <2> QED BY <2>1 DEF EvidenceTable
<1>8. \A x, y \in LedgersTable(fs) : x.key = y.key => x = y
  <2>1. \A k, l \in LedgersOf(fs) : LedgerKey(k) = LedgerKey(l) => k = l
    BY DEF Distinct, Clash, LedgerKeys
  <2> QED BY <2>1 DEF LedgersTable
<1>9. IsSequence(SetToSeq(InputsTable(fs))) /\ Unrepeated(SetToSeq(InputsTable(fs)))
      /\ Range(SetToSeq(InputsTable(fs))) = InputsTable(fs)
  BY <1>3, <1>6, TableIs
<1>10. IsSequence(SetToSeq(EvidenceTable(fs))) /\ Unrepeated(SetToSeq(EvidenceTable(fs)))
      /\ Range(SetToSeq(EvidenceTable(fs))) = EvidenceTable(fs)
  BY <1>4, <1>7, TableIs
<1>11. IsSequence(SetToSeq(LedgersTable(fs))) /\ Unrepeated(SetToSeq(LedgersTable(fs)))
      /\ Range(SetToSeq(LedgersTable(fs))) = LedgersTable(fs)
  BY <1>5, <1>8, TableIs
<1> QED BY <1>9, <1>10, <1>11

\* The rows of a tabled layout are typed whatever they refer by.
LEMMA RowsTyped ==
    ASSUME NEW fs, IsSequence(fs), \A i \in DOMAIN fs : IsFinding(fs[i]), NEW ev, NEW led
    PROVE  /\ IsSequence(TableRows(fs, ev, led))
           /\ \A i \in DOMAIN fs : IsRow(TableRows(fs, ev, led)[i])
<1>1. PICK n \in Nat : DOMAIN fs = 1 .. n
  BY SequenceIs
<1>2. PICK rs : rs = TableRows(fs, ev, led)
  OBVIOUS
<1>3. rs = [i \in 1 .. n |-> rs[i]]
  BY <1>1, <1>2 DEF TableRows
<1>4. ASSUME NEW i \in 1 .. n PROVE IsRow(rs[i])
  <2>1. PICK g : g = fs[i]
    OBVIOUS
  <2>2. IsFinding(g)
    BY <1>1, <2>1
  <2>3. PICK h : h = Light(g) /\ IsFinding(h)
    BY <2>2, LightIs
  <2>4. PICK a : a = IF g.shaped THEN {} ELSE {ev[g.target]}
    OBVIOUS
  <2>5. PICK os : os = [j \in DOMAIN g.oracles |-> ev[g.oracles[j]]]
    OBVIOUS
  <2>6. PICK l : l = {led[x] : x \in g.ledger}
    OBVIOUS
  <2>7. rs[i] = [finding |-> h, lost |-> {}, target |-> a, oracles |-> os, ledger |-> l]
    BY <1>1, <1>2, <2>1, <2>3, <2>4, <2>5, <2>6 DEF TableRows
  <2>8. IsSequence(os)
    <3>1. PICK m \in Nat : DOMAIN g.oracles = 1 .. m
      BY <2>2, SequenceIs DEF IsFinding
    <3>2. os = [j \in 1 .. m |-> os[j]]
      BY <2>5, <3>1
    <3> QED BY <3>2, IsASequence
  <2>9. IsFiniteSet(l)
    <3>1. PICK S : S = g.ledger
      OBVIOUS
    <3>2. IsFiniteSet(S)
      BY <2>2, <3>1, FieldsAre DEF IsFinding
    <3>3. IsFiniteSet({led[x] : x \in S})
      BY <3>2, ImageFinite
    <3> QED BY <2>6, <3>1, <3>3
  <2> QED BY <2>3, <2>7, <2>8, <2>9 DEF IsRow
<1> QED BY <1>1, <1>2, <1>3, <1>4, IsASequence

\* A document in tables, labelled with a version that lays out so.
Labelled(doc, v) == [Tabled(doc) EXCEPT !.version = v]

LEMMA LabelledIs ==
    ASSUME NEW doc, IsDocument(doc), Distinct(doc.findings), NEW v \in 14 .. Current
    PROVE  LET f == Labelled(doc, v)  fs == doc.findings
           IN  /\ IsFile(f) /\ f.version = v /\ f.shape = "keyed" /\ f.flat = FALSE
               /\ f.defect = {} /\ f.bounds = {doc.bounds}
               /\ Range(f.inputs) = InputsTable(fs) /\ Unrepeated(f.inputs)
               /\ Range(f.evidence) = EvidenceTable(fs) /\ Unrepeated(f.evidence)
               /\ Range(f.ledgers) = LedgersTable(fs) /\ Unrepeated(f.ledgers)
               /\ f.rows = TableRows(fs, EvidenceKeys(fs), LedgerKeys(fs))
<1>1. PICK fs : fs = doc.findings
  OBVIOUS
<1>2. IsSequence(fs) /\ (\A i \in DOMAIN fs : IsFinding(fs[i])) /\ Distinct(fs)
  BY <1>1 DEF IsDocument
<1>3. PICK a, b, c, rs : /\ a = SetToSeq(InputsTable(fs)) /\ b = SetToSeq(EvidenceTable(fs))
                         /\ c = SetToSeq(LedgersTable(fs))
                         /\ rs = TableRows(fs, EvidenceKeys(fs), LedgerKeys(fs))
  OBVIOUS
<1>4. /\ IsSequence(a) /\ Unrepeated(a) /\ Range(a) = InputsTable(fs)
      /\ IsSequence(b) /\ Unrepeated(b) /\ Range(b) = EvidenceTable(fs)
      /\ IsSequence(c) /\ Unrepeated(c) /\ Range(c) = LedgersTable(fs)
  BY <1>2, <1>3, TablesAre
<1>5. IsSequence(rs) /\ \A i \in DOMAIN rs : IsRow(rs[i])
  <2>1. DOMAIN rs = DOMAIN fs
    BY <1>3 DEF TableRows
  <2> QED BY <1>2, <1>3, <2>1, RowsTyped
<1>6. PICK f : f = Labelled(doc, v)
  OBVIOUS
<1>7. f = [version |-> v, shape |-> "keyed", flat |-> FALSE, defect |-> {},
           inputs |-> a, evidence |-> b, ledgers |-> c, rows |-> rs, bounds |-> {doc.bounds}]
  <2>1. Tabled(doc) = [version |-> Current, shape |-> "keyed", flat |-> FALSE, defect |-> {},
                       inputs |-> a, evidence |-> b, ledgers |-> c, rows |-> rs,
                       bounds |-> {doc.bounds}]
    BY <1>1, <1>3, TabledIs
  <2>2. PICK w, h, o, d, bs : /\ w = Current /\ h = "keyed" /\ o = FALSE /\ d = {}
                              /\ bs = {doc.bounds}
    OBVIOUS
  <2>3. Tabled(doc) = [version |-> w, shape |-> h, flat |-> o, defect |-> d, inputs |-> a,
                       evidence |-> b, ledgers |-> c, rows |-> rs, bounds |-> bs]
    BY <2>1, <2>2
  <2>4. f = [version |-> v, shape |-> h, flat |-> o, defect |-> d, inputs |-> a,
             evidence |-> b, ledgers |-> c, rows |-> rs, bounds |-> bs]
    BY <1>6, <2>3 DEF Labelled
  <2> QED BY <2>2, <2>4
<1>8. \A i \in DOMAIN a : a[i] = [key |-> a[i].key, content |-> a[i].content]
  <2>1. \A x \in InputsTable(fs) : x = [key |-> x.key, content |-> x.content]
    BY DEF InputsTable
  <2> QED BY <1>4, <2>1 DEF Range
<1>9. \A i \in DOMAIN c : c[i] = [key |-> c[i].key, content |-> c[i].content]
  <2>1. \A x \in LedgersTable(fs) : x = [key |-> x.key, content |-> x.content]
    BY DEF LedgersTable
  <2> QED BY <1>4, <2>1 DEF Range
<1>10. \A i \in DOMAIN b : /\ b[i] = [key |-> b[i].key, content |-> b[i].content,
                                      inputs |-> b[i].inputs]
                           /\ IsEvidence(b[i].content)
  <2>1. ASSUME NEW x \in EvidenceTable(fs)
        PROVE  /\ x = [key |-> x.key, content |-> x.content, inputs |-> x.inputs]
               /\ IsEvidence(x.content)
    <3>1. PICK e \in EvidenceOf(fs) : x = [key |-> EvidenceKey(e), content |-> Cleared(e),
                                           inputs |-> InputsKey(e.inputs)]
      BY DEF EvidenceTable
    <3>2. PICK m : m = {}
      OBVIOUS
    <3>3. IsEvidence(Holding(e, m))
      BY <1>2, EvidenceTyped, HoldingIs
    <3>4. IsEvidence(Cleared(e))
      BY <3>2, <3>3 DEF Holding, Cleared
    <3> QED BY <3>1, <3>4
  <2> QED BY <1>4, <2>1 DEF Range
<1>11. v \in Nat
  BY DEF Current
<1>12. IsFile(f)
  BY <1>4, <1>5, <1>7, <1>8, <1>9, <1>10, <1>11 DEF IsFile
<1> QED BY <1>1, <1>3, <1>4, <1>6, <1>7, <1>12

LEMMA LabelledLays ==
    ASSUME NEW doc, IsDocument(doc), Distinct(doc.findings), NEW v \in 14 .. Current,
           AllValid(doc.findings, v)
    PROVE  Layout(Labelled(doc, v), doc)
<1>1. PICK f, fs, ev, led : /\ f = Labelled(doc, v) /\ fs = doc.findings
                            /\ ev = EvidenceKeys(fs) /\ led = LedgerKeys(fs)
  OBVIOUS
<1>2. /\ IsFile(f) /\ f.version = v /\ f.shape = "keyed" /\ f.flat = FALSE
      /\ f.defect = {} /\ f.bounds = {doc.bounds}
      /\ Range(f.inputs) = InputsTable(fs) /\ Unrepeated(f.inputs)
      /\ Range(f.evidence) = EvidenceTable(fs) /\ Unrepeated(f.evidence)
      /\ Range(f.ledgers) = LedgersTable(fs) /\ Unrepeated(f.ledgers)
      /\ f.rows = TableRows(fs, ev, led)
  BY <1>1, LabelledIs
<1>3. \A i \in DOMAIN fs : IsFinding(fs[i])
  BY <1>1 DEF IsDocument
<1>4. ASSUME NEW e \in EvidenceOf(fs), NEW x \in Entry(f.evidence, ev[e])
      PROVE  x.content = Holding(e, {}) /\ x.inputs = InputsKey(e.inputs)
  <2>1. x \in EvidenceTable(fs) /\ x.key = EvidenceKey(e)
    BY <1>1, <1>2 DEF Entry, EvidenceKeys
  <2>2. PICK d \in EvidenceOf(fs) : x = [key |-> EvidenceKey(d), content |-> Cleared(d),
                                         inputs |-> InputsKey(d.inputs)]
    BY <2>1 DEF EvidenceTable
  <2>3. d = e
    BY <1>1, <2>1, <2>2 DEF Distinct, Clash, EvidenceKeys
  <2> QED BY <2>2, <2>3 DEF Cleared, Holding
<1>5. ASSUME NEW e \in EvidenceOf(fs), NEW y \in Entry(f.inputs, InputsKey(e.inputs))
      PROVE  y.content = e.inputs
  <2>1. PICK m \in InputsOf(fs) : y = [key |-> InputsKey(m), content |-> m]
    BY <1>2 DEF Entry, InputsTable
  <2>2. InputsKey(m) = InputsKey(e.inputs) /\ e.inputs \in InputsOf(fs)
    BY <2>1 DEF Entry, InputsOf
  <2> QED BY <1>1, <2>1, <2>2 DEF Distinct, Clash, InputsKeys
<1>6. ASSUME NEW l \in LedgersOf(fs), NEW x \in Entry(f.ledgers, led[l])
      PROVE  x.content = l
  <2>1. PICK k \in LedgersOf(fs) : x = [key |-> LedgerKey(k), content |-> k]
    BY <1>2 DEF Entry, LedgersTable
  <2>2. LedgerKey(k) = LedgerKey(l)
    BY <1>1, <2>1 DEF Entry, LedgerKeys
  <2> QED BY <1>1, <2>1, <2>2 DEF Distinct, Clash, LedgerKeys
<1>7. Tells(f, fs, ev, led)
  BY <1>4, <1>5, <1>6 DEF Tells
<1>8. KeysHold(f)
  <2>1. \A x \in Range(f.inputs) : x.key = InputsKey(x.content)
    BY <1>2 DEF InputsTable
  <2>2. \A x \in Range(f.evidence) : x.key = Key("evidence", <<x.inputs, x.content>>)
    <3> TAKE x \in Range(f.evidence)
    <3>1. PICK e \in EvidenceOf(fs) : x = [key |-> EvidenceKey(e), content |-> Cleared(e),
                                           inputs |-> InputsKey(e.inputs)]
      BY <1>2 DEF EvidenceTable
    <3>2. x.inputs = InputsKey(e.inputs) /\ x.content = Cleared(e) /\ x.key = EvidenceKey(e)
      BY <3>1
    <3> QED BY <3>2 DEF EvidenceKey
  <2>3. \A x \in Range(f.ledgers) : x.key = LedgerKey(x.content)
    BY <1>2 DEF LedgersTable
  <2> QED BY <1>2, <2>1, <2>2, <2>3 DEF KeysHold
<1>9. RefsHold(f)
  <2>1. ASSUME NEW e \in EvidenceOf(fs) PROVE Entry(f.evidence, ev[e]) # {}
    <3>1. [key |-> EvidenceKey(e), content |-> Cleared(e), inputs |-> InputsKey(e.inputs)]
             \in EvidenceTable(fs)
      BY DEF EvidenceTable
    <3> QED BY <1>1, <1>2, <3>1 DEF Entry, EvidenceKeys
  <2>2. ASSUME NEW e \in EvidenceOf(fs) PROVE Entry(f.inputs, InputsKey(e.inputs)) # {}
    <3>1. [key |-> InputsKey(e.inputs), content |-> e.inputs] \in InputsTable(fs)
      BY DEF InputsTable, InputsOf
    <3> QED BY <1>2, <3>1 DEF Entry
  <2>3. ASSUME NEW l \in LedgersOf(fs) PROVE Entry(f.ledgers, led[l]) # {}
    <3>1. [key |-> LedgerKey(l), content |-> l] \in LedgersTable(fs)
      BY DEF LedgersTable
    <3> QED BY <1>1, <1>2, <3>1 DEF Entry, LedgerKeys
  <2>4. ASSUME NEW x \in Range(f.evidence)
        PROVE  x.content.inputs = {} /\ Entry(f.inputs, x.inputs) # {}
    <3>1. PICK e \in EvidenceOf(fs) : x = [key |-> EvidenceKey(e), content |-> Cleared(e),
                                           inputs |-> InputsKey(e.inputs)]
      BY <1>2 DEF EvidenceTable
    <3>2. PICK m : m = {}
      OBVIOUS
    <3>3. Holding(e, m).inputs = m
      BY <1>3, EvidenceTyped, HoldingIs
    <3>4. Cleared(e).inputs = {}
      BY <3>2, <3>3 DEF Holding, Cleared
    <3> QED BY <2>2, <3>1, <3>4
  <2>5. ASSUME NEW r \in Range(f.rows)
        PROVE  /\ r.finding = Light(r.finding)
               /\ \A ref \in r.target \cup Range(r.oracles) : Entry(f.evidence, ref) # {}
               /\ \A ref \in r.ledger : Entry(f.ledgers, ref) # {}
    <3>1. PICK i \in DOMAIN fs : r = TableRows(fs, ev, led)[i]
      BY <1>2 DEF Range, TableRows
    <3>2. PICK g : g = fs[i] /\ IsFinding(g)
      BY <1>3
    <3>3. r.finding = Light(g) /\ Refers(r, g, ev, led)
      BY <1>3, <3>1, <3>2, TableRowsAre
    <3>4. Heavy(g) \subseteq EvidenceOf(fs) /\ g.ledger \subseteq LedgersOf(fs)
      BY <3>2 DEF EvidenceOf, LedgersOf
    <3>5. \A ref \in r.target \cup Range(r.oracles) : \E e \in Heavy(g) : ref = ev[e]
      BY <3>3 DEF Refers, Heavy, Range
    <3>6. \A ref \in r.ledger : \E l \in g.ledger : ref = led[l]
      BY <3>3 DEF Refers
    <3>7. r.finding = Light(r.finding)
      BY <3>2, <3>3, LightIs
    <3> QED BY <2>1, <2>3, <3>4, <3>5, <3>6, <3>7
  <2> QED BY <2>4, <2>5 DEF RefsHold
<1>10. LaidInTables(f, fs, ev, led)
  BY <1>2, <1>7, <1>8, <1>9 DEF LaidInTables
<1>11. /\ Oldest <= v /\ v <= Current /\ Shape(v) = "keyed" /\ Flat(v) = FALSE /\ Bounded(v)
  BY DEF Oldest, Current, Shape, Flat, Bounded
<1> QED BY <1>1, <1>2, <1>10, <1>11 DEF Layout

LEMMA InternedIs ==
    ASSUME NEW doc, IsDocument(doc)
    PROVE  /\ Distinct(doc.findings) => Interned(doc) = {Labelled(doc, Current)}
           /\ ~Distinct(doc.findings) => Interned(doc) = {}
<1>1. PICK fs : fs = doc.findings
  OBVIOUS
<1>2. /\ Tables(fs).evidence = EvidenceOf(fs) /\ Tables(fs).inputs = InputsOf(fs)
      /\ Tables(fs).ledgers = LedgersOf(fs)
  BY DEF Tables, EvidenceOf, InputsOf, LedgersOf
<1>3. PICK t : t = Keyed(Tables(fs))
  OBVIOUS
<1>4. /\ t.evidence = EvidenceKeys(fs) /\ t.inputs = InputsKeys(fs) /\ t.ledgers = LedgerKeys(fs)
  BY <1>2, <1>3 DEF Keyed, EvidenceKeys, InputsKeys, LedgerKeys
<1>5. ~\E i \in DOMAIN fs : fs[i].shaped /\ fs[i].target # Zero
  <2>1. \A i \in DOMAIN fs : RowsHold(fs[i])
    BY <1>1 DEF IsDocument, AllValid, Valid
  <2> QED BY <2>1 DEF RowsHold
<1>6. Interned(doc) = IF Clash(t.inputs) \/ Clash(t.evidence) \/ Clash(t.ledgers)
                      THEN {} ELSE {Tabled(doc)}
  BY <1>1, <1>3, <1>5 DEF Interned
<1>7. ASSUME Distinct(fs) PROVE Tabled(doc) = Labelled(doc, Current)
  <2>1. Tabled(doc) = [version |-> Current, shape |-> "keyed", flat |-> FALSE, defect |-> {},
               inputs   |-> SetToSeq(InputsTable(doc.findings)),
               evidence |-> SetToSeq(EvidenceTable(doc.findings)),
               ledgers  |-> SetToSeq(LedgersTable(doc.findings)),
               rows     |-> TableRows(doc.findings, EvidenceKeys(doc.findings),
                                      LedgerKeys(doc.findings)),
               bounds   |-> {doc.bounds}]
    BY <1>1, <1>7, TabledIs
  <2>2. PICK t0, w, h, o, d, a, b, c, rs, bs :
            /\ t0 = Tabled(doc) /\ w = Current
            /\ t0 = [version |-> w, shape |-> h, flat |-> o, defect |-> d, inputs |-> a,
                     evidence |-> b, ledgers |-> c, rows |-> rs, bounds |-> bs]
    BY <2>1
  <2>3. [t0 EXCEPT !.version = w] = t0
    BY <2>2
  <2> QED BY <2>2, <2>3 DEF Labelled
<1> QED BY <1>1, <1>4, <1>6, <1>7 DEF Distinct

\* An older binary's copy of the same tables.
LEMMA InternedLabelled ==
    ASSUME NEW doc, IsDocument(doc), NEW v \in 14 .. Current
    PROVE  /\ Distinct(doc.findings) =>
                {[f EXCEPT !.version = v] : f \in Interned(doc)} = {Labelled(doc, v)}
           /\ ~Distinct(doc.findings) =>
                {[f EXCEPT !.version = v] : f \in Interned(doc)} = {}
<1>1. ASSUME Distinct(doc.findings)
      PROVE  [Labelled(doc, Current) EXCEPT !.version = v] = Labelled(doc, v)
  <2>1. PICK t : t = Tabled(doc)
    OBVIOUS
  <2>2. [[t EXCEPT !.version = Current] EXCEPT !.version = v] = [t EXCEPT !.version = v]
    <3>1. PICK w : w = Current
      OBVIOUS
    <3>2. PICK p, q : p = [t EXCEPT !.version = w] /\ q = [t EXCEPT !.version = v]
      OBVIOUS
    <3>3. [p EXCEPT !.version = v] = q
      BY <3>2
    <3> QED BY <3>1, <3>2, <3>3
  <2> QED BY <2>1, <2>2 DEF Labelled
<1> QED BY <1>1, InternedIs

\* No two contents share a key but by a collision.
LEMMA DistinctUnless ==
    ASSUME NEW doc, IsDocument(doc), ~Distinct(doc.findings)
    PROVE  collides # "none"
<1>1. PICK fs : fs = doc.findings
  OBVIOUS
<1>2. SUFFICES ASSUME collides = "none" PROVE Distinct(fs)
  BY <1>1
<1>3. \A m : InputsKey(m) = m
  BY <1>2 DEF InputsKey, Key
<1>4. \A l : LedgerKey(l) = l
  BY <1>2 DEF LedgerKey, Key
<1>5. \A e : EvidenceKey(e) = <<e.inputs, Cleared(e)>>
  BY <1>2, <1>3 DEF EvidenceKey, Key
<1>6. ~Clash(InputsKeys(fs)) /\ ~Clash(LedgerKeys(fs))
  BY <1>3, <1>4 DEF Clash, InputsKeys, LedgerKeys
<1>7. ASSUME NEW d \in EvidenceOf(fs), NEW e \in EvidenceOf(fs), EvidenceKey(d) = EvidenceKey(e)
      PROVE  d = e
  <2>1. d.inputs = e.inputs /\ Cleared(d) = Cleared(e)
    BY <1>5, <1>7
  <2>2. IsEvidence(d) /\ IsEvidence(e)
    BY <1>1, EvidenceTyped DEF IsDocument
  <2>3. PICK m : m = {}
    OBVIOUS
  <2>4. Holding(d, m) = Holding(e, m)
    BY <2>1, <2>3 DEF Cleared, Holding
  <2>5. d.of = e.of /\ d.pins = e.pins /\ d.ran = e.ran
    BY <2>2, <2>4, HoldingIs
  <2> QED BY <2>1, <2>2, <2>5 DEF IsEvidence
<1>8. ~Clash(EvidenceKeys(fs))
  BY <1>7 DEF Clash, EvidenceKeys
<1> QED BY <1>6, <1>8 DEF Distinct

\* A record of none of what version 17 brought may stand under any version.
LEMMA OlderValid ==
    ASSUME NEW fs, AllValid(fs, Current), NEW v \in Nat,
           v >= 17 \/ \A i \in DOMAIN fs : ~OfVersion17(fs[i])
    PROVE  AllValid(fs, v)
<1>1. Current = 17
  BY DEF Current
<1>2. ASSUME NEW i \in DOMAIN fs, NEW j \in DOMAIN fs, RowKey(fs[i], v) = RowKey(fs[j], v)
      PROVE  i = j
  <2>1. CASE v >= 17
    <3>1. RowKey(fs[i], Current) = RowKey(fs[j], Current)
      BY <1>1, <1>2, <2>1 DEF RowKey
    <3> QED BY <3>1 DEF AllValid
  <2>2. CASE ~(v >= 17)
    <3>1. fs[i].symbol = fs[j].symbol /\ fs[i].selection = "" /\ fs[j].selection = ""
      BY <1>2, <2>2 DEF RowKey, OfVersion17
    <3>2. RowKey(fs[i], Current) = RowKey(fs[j], Current)
      BY <3>1 DEF RowKey
    <3> QED BY <3>2 DEF AllValid
  <2> QED BY <2>1, <2>2
<1> QED BY <1>2 DEF AllValid

Positions(seq) == [x \in Range(seq) |-> CHOOSE i \in DOMAIN seq : seq[i] = x]

LEMMA PositionsAre ==
    ASSUME NEW seq, NEW x \in Range(seq)
    PROVE  Positions(seq)[x] \in DOMAIN seq /\ seq[Positions(seq)[x]] = x
<1>1. \E i \in DOMAIN seq : seq[i] = x
  BY DEF Range
<1>2. Positions(seq)[x] = CHOOSE i \in DOMAIN seq : seq[i] = x
  BY DEF Positions
<1> QED BY <1>1, <1>2

LEMMA InlineLays ==
    ASSUME NEW doc, IsDocument(doc), NEW v \in Oldest .. 10, AllValid(doc.findings, v),
           doc.bounds = {}
    PROVE  Layout(Laid(doc, v), doc)
<1>1. PICK fs : fs = doc.findings
  OBVIOUS
<1>2. PICK n \in Nat : DOMAIN fs = 1 .. n
  BY <1>1, SequenceIs DEF IsDocument
<1>3. v \in Nat /\ Shape(v) = "inline" /\ ~Bounded(v) /\ Oldest <= v /\ v <= Current /\ Flat(v)
  BY DEF Oldest, Current, Shape, Bounded, Flat
<1>4. PICK rs : rs = [i \in DOMAIN fs |-> [finding |-> fs[i], lost |-> {}, target |-> {},
                                           oracles |-> <<>>, ledger |-> {}]]
  OBVIOUS
<1>5. PICK f : f = Laid(doc, v)
  OBVIOUS
<1>6. f = [version |-> v, shape |-> Shape(v), flat |-> Flat(v), defect |-> {},
           inputs |-> <<>>, evidence |-> <<>>, ledgers |-> <<>>, rows |-> rs, bounds |-> {}]
  BY <1>1, <1>3, <1>4, <1>5 DEF Laid
<1>7. IsSequence(<<>>) /\ DOMAIN <<>> = {} /\ IsFiniteSet({})
  <2>1. <<>> \in Seq(Range(<<>>))
    OBVIOUS
  <2> QED BY <2>1, FS_EmptySet DEF IsSequence
<1>8. IsSequence(rs) /\ \A i \in DOMAIN rs : IsRow(rs[i])
  <2>1. \A i \in DOMAIN fs : IsFinding(fs[i])
    BY <1>1 DEF IsDocument
  <2>2. rs = [i \in 1 .. n |-> rs[i]]
    BY <1>2, <1>4
  <2>3. IsSequence(rs) /\ DOMAIN rs = 1 .. n
    BY <2>2, IsASequence
  <2>4. ASSUME NEW i \in 1 .. n PROVE IsRow(rs[i])
    <3>1. PICK g, os, no : g = fs[i] /\ os = <<>> /\ no = {}
      OBVIOUS
    <3>2. rs[i] = [finding |-> g, lost |-> no, target |-> no, oracles |-> os, ledger |-> no]
      BY <1>2, <1>4, <3>1
    <3>3. IsFinding(g) /\ IsSequence(os) /\ IsFiniteSet(no)
      BY <1>2, <1>7, <2>1, <3>1
    <3> QED BY <3>2, <3>3 DEF IsRow
  <2> QED BY <2>3, <2>4
<1>9. /\ f.version = v /\ f.shape = Shape(v) /\ f.flat = Flat(v) /\ f.defect = {}
      /\ f.inputs = <<>> /\ f.evidence = <<>> /\ f.ledgers = <<>> /\ f.rows = rs /\ f.bounds = {}
      /\ f = [version |-> f.version, shape |-> f.shape, flat |-> f.flat, defect |-> f.defect,
              inputs |-> f.inputs, evidence |-> f.evidence, ledgers |-> f.ledgers,
              rows |-> f.rows, bounds |-> f.bounds]
  BY <1>6
<1>10. IsFile(f)
  BY <1>3, <1>7, <1>8, <1>9 DEF IsFile
<1>11. LaidInline(f, fs)
  BY <1>4, <1>9 DEF LaidInline
<1> QED BY <1>1, <1>3, <1>5, <1>9, <1>10, <1>11 DEF Layout

LEMMA PositionsLay ==
    ASSUME NEW doc, IsDocument(doc), NEW v \in 11 .. 13, AllValid(doc.findings, v),
           doc.bounds = {} \/ Bounded(v)
    PROVE  Layout(Laid(doc, v), doc)
<1>1. PICK fs, evs, ls : /\ fs = doc.findings /\ evs = SetToSeq(EvidenceOf(fs))
                         /\ ls = SetToSeq(LedgersOf(fs))
  OBVIOUS
<1>2. /\ IsSequence(fs) /\ \A i \in DOMAIN fs : IsFinding(fs[i])
  BY <1>1 DEF IsDocument
<1>3. /\ IsSequence(evs) /\ Range(evs) = EvidenceOf(fs)
      /\ IsSequence(ls) /\ Range(ls) = LedgersOf(fs)
  BY <1>1, <1>2, EvidenceFinite, NumberedIs
<1>4. PICK n \in Nat, m \in Nat : DOMAIN evs = 1 .. n /\ DOMAIN ls = 1 .. m
  BY <1>3, SequenceIs
<1>5. v \in Nat /\ Shape(v) = "positional" /\ Oldest <= v /\ v <= Current
  BY DEF Oldest, Current, Shape
<1>6. PICK ev, led : ev = Positions(evs) /\ led = Positions(ls)
  OBVIOUS
<1>7. PICK a, b, c, rs :
          /\ a = [i \in 1 .. n |-> [key |-> i, content |-> evs[i].inputs]]
          /\ b = [i \in 1 .. n |-> [key |-> i, content |-> Cleared(evs[i]), inputs |-> i]]
          /\ c = [i \in 1 .. m |-> [key |-> i, content |-> ls[i]]]
          /\ rs = TableRows(fs, ev, led)
  OBVIOUS
<1>8. PICK f, h, w, bs : /\ f = Laid(doc, v) /\ h = Shape(v) /\ w = Flat(v)
                         /\ bs = IF Bounded(v) THEN {doc.bounds} ELSE {}
  OBVIOUS
<1>9. f = [version |-> v, shape |-> h, flat |-> w, defect |-> {},
           inputs |-> a, evidence |-> b, ledgers |-> c, rows |-> rs, bounds |-> bs]
  <2>1. Tables(fs).evidence = EvidenceOf(fs) /\ Tables(fs).ledgers = LedgersOf(fs)
    BY DEF Tables, EvidenceOf, LedgersOf
  <2>2. PICK T : T = Tables(fs)
    OBVIOUS
  <2> DEFINE es == SetToSeq(T.evidence)
             ks == SetToSeq(T.ledgers)
  <2>3. Laid(doc, v) =
          [version |-> v, shape |-> Shape(v), flat |-> Flat(v), defect |-> {},
           inputs   |-> IF Shape(v) # "inline"
                        THEN [i \in DOMAIN es |-> [key |-> i, content |-> es[i].inputs]] ELSE <<>>,
           evidence |-> IF Shape(v) # "inline"
                        THEN [i \in DOMAIN es |->
                                 [key |-> i, content |-> Cleared(es[i]), inputs |-> i]] ELSE <<>>,
           ledgers  |-> IF Shape(v) # "inline"
                        THEN [i \in DOMAIN ks |-> [key |-> i, content |-> ks[i]]] ELSE <<>>,
           rows     |-> IF Shape(v) # "inline" THEN TableRows(fs, Positions(es), Positions(ks))
                        ELSE [i \in DOMAIN fs |->
                                 [finding |-> fs[i], lost |-> {}, target |-> {},
                                  oracles |-> <<>>, ledger |-> {}]],
           bounds   |-> IF Bounded(v) THEN {doc.bounds} ELSE {}]
    BY <1>1, <2>2 DEF Laid, Positions
  <2>4. evs = es /\ ls = ks /\ Shape(v) # "inline"
    BY <1>1, <1>5, <2>1, <2>2
  <2>5. /\ a = [i \in DOMAIN evs |-> [key |-> i, content |-> evs[i].inputs]]
        /\ b = [i \in DOMAIN evs |-> [key |-> i, content |-> Cleared(evs[i]), inputs |-> i]]
        /\ c = [i \in DOMAIN ls |-> [key |-> i, content |-> ls[i]]]
        /\ rs = TableRows(fs, Positions(evs), Positions(ls))
    BY <1>4, <1>6, <1>7
  <2> QED BY <1>8, <2>3, <2>4, <2>5
<1>10. /\ f.version = v /\ f.shape = Shape(v) /\ f.flat = Flat(v) /\ f.defect = {}
       /\ f.inputs = a /\ f.evidence = b /\ f.ledgers = c /\ f.rows = rs
       /\ f.bounds = IF Bounded(v) THEN {doc.bounds} ELSE {}
       /\ f = [version |-> f.version, shape |-> f.shape, flat |-> f.flat, defect |-> f.defect,
               inputs |-> f.inputs, evidence |-> f.evidence, ledgers |-> f.ledgers,
               rows |-> f.rows, bounds |-> f.bounds]
  BY <1>8, <1>9
<1>11. \A i \in 1 .. n : evs[i] \in EvidenceOf(fs) /\ IsEvidence(evs[i])
  <2>1. \A i \in 1 .. n : evs[i] \in EvidenceOf(fs)
    BY <1>3, <1>4 DEF Range
  <2> QED BY <1>2, <2>1, EvidenceTyped
<1>12. /\ IsSequence(a) /\ IsSequence(b) /\ IsSequence(c)
       /\ DOMAIN a = 1 .. n /\ DOMAIN b = 1 .. n /\ DOMAIN c = 1 .. m
  <2>1. a = [i \in 1 .. n |-> a[i]] /\ b = [i \in 1 .. n |-> b[i]] /\ c = [i \in 1 .. m |-> c[i]]
    BY <1>7
  <2> QED BY <2>1, IsASequence
<1>13. \A i \in 1 .. n : /\ a[i].key = i /\ a[i].content = evs[i].inputs
                         /\ a[i] = [key |-> a[i].key, content |-> a[i].content]
  BY <1>7
<1>14. \A i \in 1 .. m : /\ c[i].key = i /\ c[i].content = ls[i]
                         /\ c[i] = [key |-> c[i].key, content |-> c[i].content]
  BY <1>7
<1>15. \A i \in 1 .. n : /\ b[i].key = i /\ b[i].inputs = i /\ b[i].content = Cleared(evs[i])
                         /\ b[i] = [key |-> b[i].key, content |-> b[i].content,
                                    inputs |-> b[i].inputs]
  BY <1>7
<1>16. \A i \in 1 .. n : IsEvidence(b[i].content) /\ b[i].content = Holding(evs[i], {})
                         /\ b[i].content.inputs = {}
  <2> TAKE i \in 1 .. n
  <2>1. PICK e, none : e = evs[i] /\ none = {}
    OBVIOUS
  <2>2. IsEvidence(Holding(e, none)) /\ Holding(e, none).inputs = none
    BY <1>11, <2>1, HoldingIs
  <2>3. b[i].content = Holding(e, none)
    BY <1>15, <2>1 DEF Cleared, Holding
  <2> QED BY <2>1, <2>2, <2>3
<1>17. IsSequence(rs) /\ DOMAIN rs = DOMAIN fs /\ \A i \in DOMAIN rs : IsRow(rs[i])
  <2>1. DOMAIN rs = DOMAIN fs
    BY <1>7 DEF TableRows
  <2> QED BY <1>2, <1>7, <2>1, RowsTyped
<1>18. IsFile(f)
  BY <1>5, <1>10, <1>12, <1>13, <1>14, <1>15, <1>16, <1>17 DEF IsFile
<1>19. /\ \A k \in 1 .. n : Entry(f.inputs, k) = {a[k]} /\ Entry(f.evidence, k) = {b[k]}
       /\ \A k \in 1 .. m : Entry(f.ledgers, k) = {c[k]}
  BY <1>10, <1>12, <1>13, <1>14, <1>15 DEF Entry, Range
<1>20. /\ \A e \in EvidenceOf(fs) : ev[e] \in 1 .. n /\ evs[ev[e]] = e
       /\ \A l \in LedgersOf(fs) : led[l] \in 1 .. m /\ ls[led[l]] = l
  BY <1>3, <1>4, <1>6, PositionsAre
<1>21. Tells(f, fs, ev, led)
  <2>1. ASSUME NEW e \in EvidenceOf(fs), NEW x \in Entry(f.evidence, ev[e])
        PROVE  /\ x.content = Holding(e, {})
               /\ \A y \in Entry(f.inputs, x.inputs) : y.content = e.inputs
    <3>1. PICK k \in 1 .. n : k = ev[e] /\ evs[k] = e
      BY <1>20
    <3>2. x = b[k]
      BY <1>19, <3>1
    <3>3. x.inputs = k /\ x.content = Holding(e, {})
      BY <1>15, <1>16, <3>1, <3>2
    <3>4. Entry(f.inputs, x.inputs) = {a[k]}
      BY <1>19, <3>3
    <3> QED BY <1>13, <3>1, <3>3, <3>4
  <2>2. ASSUME NEW l \in LedgersOf(fs), NEW x \in Entry(f.ledgers, led[l])
        PROVE  x.content = l
    <3>1. PICK k \in 1 .. m : k = led[l] /\ ls[k] = l
      BY <1>20
    <3>2. x = c[k]
      BY <1>19, <3>1
    <3> QED BY <1>14, <3>1, <3>2
  <2> QED BY <2>1, <2>2 DEF Tells
<1>22. KeysHold(f)
  BY <1>5, <1>10 DEF KeysHold
<1>23. RefsHold(f)
  <2>1. ASSUME NEW x \in Range(f.evidence)
        PROVE  x.content.inputs = {} /\ Entry(f.inputs, x.inputs) # {}
    <3>1. PICK k \in 1 .. n : x = b[k]
      BY <1>10, <1>12 DEF Range
    <3>2. x.inputs = k /\ x.content.inputs = {}
      BY <1>15, <1>16, <3>1
    <3> QED BY <1>19, <3>2
  <2>2. ASSUME NEW r \in Range(f.rows)
        PROVE  /\ r.finding = Light(r.finding)
               /\ \A ref \in r.target \cup Range(r.oracles) : Entry(f.evidence, ref) # {}
               /\ \A ref \in r.ledger : Entry(f.ledgers, ref) # {}
    <3>1. PICK i \in DOMAIN fs : r = TableRows(fs, ev, led)[i]
      BY <1>7, <1>10, <1>17 DEF Range
    <3>2. PICK g : g = fs[i] /\ IsFinding(g)
      BY <1>2
    <3>3. r.finding = Light(g) /\ Refers(r, g, ev, led)
      BY <1>2, <3>1, <3>2, TableRowsAre
    <3>4. Heavy(g) \subseteq EvidenceOf(fs) /\ g.ledger \subseteq LedgersOf(fs)
      BY <3>2 DEF EvidenceOf, LedgersOf
    <3>5. \A ref \in r.target \cup Range(r.oracles) : \E e \in Heavy(g) : ref = ev[e]
      BY <3>3 DEF Refers, Heavy, Range
    <3>6. \A ref \in r.ledger : \E l \in g.ledger : ref = led[l]
      BY <3>3 DEF Refers
    <3>7. r.finding = Light(r.finding)
      BY <3>2, <3>3, LightIs
    <3>8. ASSUME NEW ref \in r.target \cup Range(r.oracles) PROVE Entry(f.evidence, ref) # {}
      <4>1. PICK k \in 1 .. n : ref = k
        BY <1>20, <3>4, <3>5
      <4> QED BY <1>19, <4>1
    <3>9. ASSUME NEW ref \in r.ledger PROVE Entry(f.ledgers, ref) # {}
      <4>1. PICK k \in 1 .. m : ref = k
        BY <1>20, <3>4, <3>6
      <4> QED BY <1>19, <4>1
    <3> QED BY <3>7, <3>8, <3>9
  <2> QED BY <2>1, <2>2 DEF RefsHold
<1>24. LaidInTables(f, fs, ev, led)
  BY <1>7, <1>10, <1>21, <1>22, <1>23 DEF LaidInTables
<1>25. f.shape # "inline"
  BY <1>5, <1>10
<1> QED BY <1>1, <1>5, <1>8, <1>10, <1>18, <1>24, <1>25 DEF Layout

------------------------------------------------------------------------------
(* What is read of bytes laid out as their version says.                   *)

Accepted(g) ==
    /\ AllValid(FindingsOf(g), g.version)
    /\ Shape(g.version) # "inline" => KeysHold(g) /\ RefsHold(g)

LEMMA AcceptedIs ==
    ASSUME NEW g, IsFile(g), g.flat = Flat(g.version), NEW d \in Parsed(g)
    PROVE  Readable(g) /\ Accepted(g) /\ d = Document(g, FindingsOf(g))
<1>1. Lifted(g) = g
  BY LiftedIs
<1>2. Readable(g) /\ d = Document(g, d.findings)
  BY ReadIs
<1>3. CASE Shape(g.version) = "inline"
  <2>1. d.findings = FindingsOf(g) /\ AllValid(d.findings, g.version)
    BY <1>1, <1>3, ReadIs DEF FindingsOf
  <2>2. Accepted(g)
    BY <1>3, <2>1 DEF Accepted
  <2> QED BY <1>2, <2>1, <2>2
<1>4. CASE Shape(g.version) # "inline"
  <2>1. /\ d.findings = Expanded(g, FALSE) /\ KeysHold(g) /\ RefsHold(g)
        /\ AllValid(Expanded(g, TRUE), g.version)
    BY <1>1, <1>4, ReadIs
  <2>2. AllValid(Expanded(g, FALSE), g.version)
    BY <2>1, JudgedAlike
  <2>3. FindingsOf(g) = Expanded(g, FALSE)
    BY <1>4 DEF FindingsOf
  <2> QED BY <1>2, <2>1, <2>2, <2>3 DEF Accepted
<1> QED BY <1>3, <1>4

\* What a judgement reads besides evidence, it reads from the row.
LEMMA RowRead ==
    ASSUME NEW g, IsFile(g), g.shape = Shape(g.version), Readable(g), Accepted(g),
           NEW i \in DOMAIN g.rows
    PROVE  /\ DOMAIN FindingsOf(g) = DOMAIN g.rows
           /\ \A x \in Fields \ Heavies : FindingsOf(g)[i][x] = Zeroed(g.rows[i])[x]
<1>1. IsRow(g.rows[i])
  BY DEF IsFile
<1>2. CASE Shape(g.version) = "inline"
  <2>1. g.rows[i] \in Range(g.rows)
    BY DEF Range
  <2>2. g.rows[i].lost = {}
    BY <1>2, <2>1 DEF Readable, Lossless
  <2>3. Zeroed(g.rows[i]) = g.rows[i].finding
    BY <1>1, <2>2, ZeroedIs DEF IsRow
  <2> QED BY <1>2, <2>3 DEF FindingsOf
<1>3. CASE Shape(g.version) # "inline"
  <2>1. PICK r \in Range(g.rows) : r = g.rows[i]
    BY DEF Range
  <2>2. PICK h, z, b : h = Inlined(g, r, b) /\ z = Zeroed(r) /\ b = FALSE
    OBVIOUS
  <2>3. RefsHold(g)
    BY <1>3 DEF Accepted
  <2>4. \A x \in Fields \ Heavies : h[x] = z[x]
    BY <2>2, <2>3, InlinedIs
  <2>5. FindingsOf(g)[i] = h /\ DOMAIN FindingsOf(g) = DOMAIN g.rows
    BY <1>3, <2>1, <2>2 DEF FindingsOf, Expanded
  <2> QED BY <2>1, <2>2, <2>4, <2>5
<1> QED BY <1>2, <1>3

LEMMA RowJudged ==
    ASSUME NEW g, IsFile(g), g.shape = Shape(g.version), Readable(g), Accepted(g),
           NEW i \in DOMAIN g.rows
    PROVE  /\ TalliesHold(Zeroed(g.rows[i])) /\ SummariesHold(Zeroed(g.rows[i]))
           /\ FlagsHold(Zeroed(g.rows[i])) /\ DispositionsHold(Zeroed(g.rows[i]))
<1>1. PICK z, h : z = Zeroed(g.rows[i]) /\ h = FindingsOf(g)[i]
  OBVIOUS
<1>2. i \in DOMAIN FindingsOf(g) /\ \A x \in Fields \ Heavies : h[x] = z[x]
  BY <1>1, RowRead
<1>3. Valid(h)
  BY <1>1, <1>2 DEF Accepted, AllValid
<1>4. /\ TalliesHold(z) <=> TalliesHold(h)
      /\ SummariesHold(z) <=> SummariesHold(h)
      /\ FlagsHold(z) <=> FlagsHold(h)
      /\ DispositionsHold(z) <=> DispositionsHold(h)
  BY <1>2, SameBesides
<1> QED BY <1>1, <1>3, <1>4 DEF Valid

LEMMA LayoutRow ==
    ASSUME NEW f, NEW doc, Layout(f, doc), NEW i \in DOMAIN f.rows
    PROVE  /\ DOMAIN f.rows = DOMAIN doc.findings
           /\ IsRow(f.rows[i]) /\ f.rows[i].lost = {}
           /\ Zeroed(f.rows[i]) = f.rows[i].finding
           /\ TalliesHold(f.rows[i].finding) /\ SummariesHold(f.rows[i].finding)
           /\ FlagsHold(f.rows[i].finding) /\ DispositionsHold(f.rows[i].finding)
           /\ f.rows[i].finding.symbol = doc.findings[i].symbol
           /\ f.rows[i].finding.shaped = doc.findings[i].shaped
<1>1. IsFile(f) /\ f.shape = Shape(f.version) /\ FindingsOf(f) = doc.findings
  BY LayoutHolds DEF Layout
<1>2. Readable(f)
  BY LayoutReadable
<1>3. Accepted(f)
  BY <1>1 DEF Layout, Accepted, LaidInTables
<1>4. IsRow(f.rows[i])
  BY <1>1 DEF IsFile
<1>5. f.rows[i].lost = {}
  <2>1. CASE f.shape = "inline"
    BY <2>1 DEF Layout, LaidInline
  <2>2. CASE f.shape # "inline"
    <3>1. PICK ev, led : LaidInTables(f, doc.findings, ev, led)
      BY <2>2 DEF Layout
    <3>2. \A j \in DOMAIN doc.findings : IsFinding(doc.findings[j])
      BY DEF Layout, IsDocument
    <3> QED BY <3>1, <3>2, TableRowsAre DEF LaidInTables
  <2> QED BY <2>1, <2>2
<1>6. Zeroed(f.rows[i]) = f.rows[i].finding
  BY <1>4, <1>5, ZeroedIs DEF IsRow
<1>7. /\ DOMAIN f.rows = DOMAIN doc.findings
      /\ \A x \in Fields \ Heavies : doc.findings[i][x] = f.rows[i].finding[x]
  BY <1>1, <1>2, <1>3, <1>6, RowRead
<1>8. /\ TalliesHold(f.rows[i].finding) /\ SummariesHold(f.rows[i].finding)
      /\ FlagsHold(f.rows[i].finding) /\ DispositionsHold(f.rows[i].finding)
  BY <1>1, <1>2, <1>3, <1>6, RowJudged
<1> QED BY <1>4, <1>5, <1>6, <1>7, <1>8, FieldsAre DEF Heavies

\* Bytes that read as the layout they were, if they are read at all.
LEMMA OnlyReads ==
    ASSUME NEW g, IsFile(g), g.flat = Flat(g.version), NEW doc, IsDocument(doc),
           Readable(g) /\ Accepted(g) =>
              FindingsOf(g) = doc.findings /\ BoundsOf(g) = doc.bounds
    PROVE  Parsed(g) \subseteq {doc}
<1> SUFFICES ASSUME NEW d \in Parsed(g) PROVE d = doc
  OBVIOUS
<1>1. d = Document(g, FindingsOf(g)) /\ Readable(g) /\ Accepted(g)
  BY AcceptedIs
<1>2. doc = [findings |-> doc.findings, bounds |-> doc.bounds]
  BY DEF IsDocument
<1>3. FindingsOf(g) = doc.findings /\ BoundsOf(g) = doc.bounds
  BY <1>1
<1> QED BY <1>1, <1>2, <1>3 DEF Document

------------------------------------------------------------------------------
(* A hand in the rows.                                                     *)

WithRows(f, rs) == [f EXCEPT !.rows = rs]

LEMMA WithRowsIs ==
    ASSUME NEW f, IsFile(f), NEW rs, IsSequence(rs), \A i \in DOMAIN rs : IsRow(rs[i])
    PROVE  /\ IsFile(WithRows(f, rs)) /\ WithRows(f, rs).rows = rs
           /\ WithRows(f, rs).version = f.version /\ WithRows(f, rs).shape = f.shape
           /\ WithRows(f, rs).flat = f.flat /\ WithRows(f, rs).defect = f.defect
           /\ WithRows(f, rs).inputs = f.inputs /\ WithRows(f, rs).evidence = f.evidence
           /\ WithRows(f, rs).ledgers = f.ledgers /\ WithRows(f, rs).bounds = f.bounds
<1>1. f = [version |-> f.version, shape |-> f.shape, flat |-> f.flat, defect |-> f.defect,
           inputs |-> f.inputs, evidence |-> f.evidence, ledgers |-> f.ledgers,
           rows |-> f.rows, bounds |-> f.bounds]
  BY DEF IsFile
<1>2. PICK g : g = WithRows(f, rs)
  OBVIOUS
<1>3. /\ g.version = f.version /\ g.shape = f.shape /\ g.flat = f.flat /\ g.defect = f.defect
      /\ g.inputs = f.inputs /\ g.evidence = f.evidence /\ g.ledgers = f.ledgers
      /\ g.bounds = f.bounds /\ g.rows = rs
      /\ g = [version |-> g.version, shape |-> g.shape, flat |-> g.flat, defect |-> g.defect,
              inputs |-> g.inputs, evidence |-> g.evidence, ledgers |-> g.ledgers,
              rows |-> g.rows, bounds |-> g.bounds]
  BY <1>1, <1>2 DEF WithRows
<1>4. IsFile(g)
  BY <1>3 DEF IsFile
<1> QED BY <1>2, <1>3, <1>4

\* A row there twice is one of two records of one key.
LEMMA RowTwice ==
    ASSUME NEW f, NEW doc, Layout(f, doc), NEW i \in DOMAIN f.rows
    PROVE  /\ IsFile([f EXCEPT !.rows = Append(@, f.rows[i])])
           /\ Parsed([f EXCEPT !.rows = Append(@, f.rows[i])]) \subseteq {doc}
<1>1. PICK rs : rs = Append(f.rows, f.rows[i])
  OBVIOUS
<1>2. PICK n \in Nat : n = Len(f.rows) /\ DOMAIN f.rows = 1 .. n
  BY SequenceIs DEF Layout, IsFile
<1>3. /\ IsSequence(rs) /\ Len(rs) = n + 1
      /\ \A j \in 1 .. n : rs[j] = f.rows[j]
      /\ rs[n + 1] = f.rows[i]
  BY <1>1, <1>2, AppendedIs DEF Layout, IsFile
<1>4. DOMAIN rs = 1 .. n + 1
  BY <1>3, SequenceIs
<1>5. \A j \in DOMAIN rs : IsRow(rs[j])
  <2>1. \A j \in DOMAIN f.rows : IsRow(f.rows[j])
    BY DEF Layout, IsFile
  <2>2. \A j \in 1 .. n + 1 : j \in 1 .. n \/ j = n + 1
    OBVIOUS
  <2> QED BY <1>2, <1>3, <1>4, <2>1, <2>2
<1>6. PICK g : g = WithRows(f, rs)
  OBVIOUS
<1>7. /\ IsFile(g) /\ g.rows = rs /\ g.flat = Flat(g.version) /\ g.shape = Shape(g.version)
  BY <1>3, <1>5, <1>6, WithRowsIs DEF Layout
<1>8. ~(Readable(g) /\ Accepted(g))
  <2>1. SUFFICES ASSUME Readable(g), Accepted(g) PROVE FALSE
    OBVIOUS
  <2>2. FindingsOf(g)[i] = FindingsOf(g)[n + 1]
    <3>1. i \in DOMAIN g.rows /\ n + 1 \in DOMAIN g.rows /\ g.rows[i] = g.rows[n + 1]
      BY <1>2, <1>3, <1>4, <1>7
    <3> QED BY <3>1 DEF FindingsOf, Expanded
  <2>3. i \in DOMAIN FindingsOf(g) /\ n + 1 \in DOMAIN FindingsOf(g) /\ i # n + 1
    BY <1>2, <1>4, <1>7 DEF FindingsOf, Expanded
  <2>4. RowKey(FindingsOf(g)[i], g.version) = RowKey(FindingsOf(g)[n + 1], g.version)
    BY <2>2
  <2> QED BY <2>1, <2>3, <2>4 DEF Accepted, AllValid
<1>9. Parsed(g) \subseteq {doc}
  BY <1>7, <1>8, OnlyReads DEF Layout
<1> QED BY <1>1, <1>6, <1>7, <1>9 DEF WithRows

\* One row replaced.
Rerowed(f, i, r) == WithRows(f, [f.rows EXCEPT ![i] = r])

LEMMA RerowedIs ==
    ASSUME NEW f, IsFile(f), NEW i \in DOMAIN f.rows, NEW r, IsRow(r)
    PROVE  LET g == Rerowed(f, i, r)
           IN  /\ IsFile(g) /\ DOMAIN g.rows = DOMAIN f.rows /\ g.rows[i] = r
               /\ \A j \in DOMAIN f.rows \ {i} : g.rows[j] = f.rows[j]
               /\ g.version = f.version /\ g.shape = f.shape /\ g.flat = f.flat
               /\ g.defect = f.defect /\ g.inputs = f.inputs /\ g.evidence = f.evidence
               /\ g.ledgers = f.ledgers /\ g.bounds = f.bounds
<1>1. PICK rs : rs = [f.rows EXCEPT ![i] = r]
  OBVIOUS
<1>2. IsSequence(rs) /\ DOMAIN rs = DOMAIN f.rows
  BY <1>1, ReplacedIs DEF IsFile
<1>3. rs[i] = r /\ \A j \in DOMAIN f.rows \ {i} : rs[j] = f.rows[j]
  BY <1>1
<1>4. \A j \in DOMAIN rs : IsRow(rs[j])
  BY <1>2, <1>3 DEF IsFile
<1>5. PICK g : g = WithRows(f, rs)
  OBVIOUS
<1> QED BY <1>1, <1>2, <1>3, <1>4, <1>5, WithRowsIs DEF Rerowed

\* One field of one row's finding replaced.
Refound(f, i, n, x) ==
    Rerowed(f, i, [f.rows[i] EXCEPT !.finding = [@ EXCEPT ![n] = x]])

LEMMA RefoundIs ==
    ASSUME NEW f, NEW doc, Layout(f, doc), NEW i \in DOMAIN f.rows, NEW n, NEW x,
           \/ n \in Counts /\ x \in Nat
           \/ n \in Lists \ {"ledger"} /\ IsFiniteSet(x)
    PROVE  LET g == Refound(f, i, n, x)
           IN  /\ IsFile(g) /\ g.flat = Flat(g.version) /\ g.shape = Shape(g.version)
               /\ i \in DOMAIN g.rows
               /\ Zeroed(g.rows[i])[n] = x
               /\ \A y \in Fields \ {n} : Zeroed(g.rows[i])[y] = f.rows[i].finding[y]
<1>1. PICK r, h : r = f.rows[i] /\ h = [r.finding EXCEPT ![n] = x]
  OBVIOUS
<1>2. IsRow(r) /\ IsFinding(r.finding) /\ r.lost = {}
  BY <1>1, LayoutRow DEF IsRow
<1>3. r.finding = [y \in Fields |-> r.finding[y]] /\ n \in Fields
  BY <1>2, FieldsAre DEF IsFinding
<1>4. /\ h = [y \in Fields |-> h[y]] /\ h[n] = x
      /\ \A y \in Fields \ {n} : h[y] = r.finding[y]
  BY <1>1, <1>3
<1>5. IsFinding(h)
  <2>1. n \notin Switches /\ n \notin {"target", "oracles", "operators"}
    BY FieldsAre DEF Lists, Counts, Switches
  <2>2. \A y \in Switches \cup {"target", "oracles", "operators"} : h[y] = r.finding[y]
    BY <1>4, <2>1, FieldsAre DEF Heavies
  <2>3. \A y \in Counts : h[y] \in Nat
    <3>1. Counts \cap Lists = {}
      BY DEF Counts, Lists
    <3> QED BY <1>2, <1>4, <3>1, FieldsAre DEF IsFinding
  <2>4. \A y \in Lists : IsFiniteSet(h[y])
    <3>1. Counts \cap Lists = {}
      BY DEF Counts, Lists
    <3> QED BY <1>2, <1>4, <3>1, FieldsAre DEF IsFinding
  <2>5. h.target = r.finding.target /\ h.oracles = r.finding.oracles
        /\ h.operators = r.finding.operators
    BY <2>2
  <2> QED BY <1>2, <1>4, <2>2, <2>3, <2>4, <2>5 DEF IsFinding
<1>6. PICK s : s = [r EXCEPT !.finding = h]
  OBVIOUS
<1>7. s.finding = h /\ s.lost = {} /\ IsRow(s)
  BY <1>2, <1>5, <1>6 DEF IsRow
<1>8. Zeroed(s) = h
  BY <1>5, <1>7, ZeroedIs
<1>9. PICK g : g = Rerowed(f, i, s)
  OBVIOUS
<1>10. /\ IsFile(g) /\ g.flat = Flat(g.version) /\ g.shape = Shape(g.version)
       /\ DOMAIN g.rows = DOMAIN f.rows /\ g.rows[i] = s
  BY <1>7, <1>9, RerowedIs DEF Layout
<1>11. Refound(f, i, n, x) = g
  BY <1>1, <1>6, <1>9 DEF Refound
<1> QED BY <1>1, <1>4, <1>8, <1>10, <1>11

\* A finding that its tallies and summaries hold of and do not after a change.
LEMMA Refused ==
    ASSUME NEW f, NEW doc, Layout(f, doc), NEW i \in DOMAIN f.rows, NEW n, NEW x,
           \/ n \in Counts /\ x \in Nat
           \/ n \in Lists \ {"ledger"} /\ IsFiniteSet(x),
           \A z : /\ z[n] = x /\ \A y \in Fields \ {n} : z[y] = f.rows[i].finding[y]
                  /\ TalliesHold(z) /\ SummariesHold(z) /\ DispositionsHold(z)
                  => FALSE
    PROVE  IsFile(Refound(f, i, n, x)) /\ Parsed(Refound(f, i, n, x)) \subseteq {doc}
<1>1. PICK g, z : g = Refound(f, i, n, x) /\ z = Zeroed(g.rows[i])
  OBVIOUS
<1>2. /\ IsFile(g) /\ g.flat = Flat(g.version) /\ g.shape = Shape(g.version)
      /\ i \in DOMAIN g.rows /\ z[n] = x
      /\ \A y \in Fields \ {n} : z[y] = f.rows[i].finding[y]
  BY <1>1, RefoundIs
<1>3. ~(Readable(g) /\ Accepted(g))
  BY <1>1, <1>2, RowJudged
<1>4. IsDocument(doc)
  BY DEF Layout
<1>5. Parsed(g) \subseteq {doc}
  BY <1>2, <1>3, <1>4, OnlyReads
<1> QED BY <1>1, <1>2, <1>5

LEMMA FindingCounts ==
    ASSUME NEW f, NEW doc, Layout(f, doc), NEW i \in DOMAIN f.rows
    PROVE  LET h == f.rows[i].finding
           IN  /\ TalliesHold(h) /\ SummariesHold(h) /\ DispositionsHold(h)
               /\ h.mutants \in Nat /\ h.killed \in Nat /\ h.generated \in Nat
               /\ h.discarded \in Nat
               /\ IsFiniteSet(h.survivors) /\ IsFiniteSet(h.kills) /\ IsFiniteSet(h.attested)
               /\ Cardinality(h.survivors) \in Nat /\ Cardinality(h.kills) \in Nat
<1>1. PICK h : h = f.rows[i].finding
  OBVIOUS
<1>2. TalliesHold(h) /\ SummariesHold(h) /\ DispositionsHold(h) /\ IsFinding(h)
  BY <1>1, LayoutRow DEF IsRow
<1>3. h.mutants \in Nat /\ h.killed \in Nat /\ h.generated \in Nat /\ h.discarded \in Nat
  BY <1>2, FieldsAre DEF IsFinding
<1>4. IsFiniteSet(h.survivors) /\ IsFiniteSet(h.kills) /\ IsFiniteSet(h.attested)
  BY <1>2, FieldsAre DEF IsFinding
<1> QED BY <1>1, <1>2, <1>3, <1>4, FS_CardinalityType

LEMMA CountMoved ==
    ASSUME NEW f, NEW doc, Layout(f, doc), NEW i \in DOMAIN f.rows, NEW n \in Tallies
    PROVE  /\ IsFile([f EXCEPT !.rows[i].finding[n] = @ + 1])
           /\ Parsed([f EXCEPT !.rows[i].finding[n] = @ + 1]) \subseteq {doc}
<1>1. PICK h, x : h = f.rows[i].finding /\ x = h[n] + 1
  OBVIOUS
<1>2. /\ TalliesHold(h) /\ SummariesHold(h)
      /\ h.mutants \in Nat /\ h.killed \in Nat /\ h.generated \in Nat /\ h.discarded \in Nat
      /\ Cardinality(h.survivors) \in Nat
  BY <1>1, FindingCounts
<1>3. n \in Counts /\ x \in Nat
  BY <1>1, <1>2 DEF Counts, Tallies
<1>4. ASSUME NEW z, z[n] = x, \A y \in Fields \ {n} : z[y] = h[y],
             TalliesHold(z), SummariesHold(z), DispositionsHold(z)
      PROVE  FALSE
  <2>1. z.survivors = h.survivors /\ z.operators = h.operators
    BY <1>4, FieldsAre DEF Tallies
  <2>2. CASE n = "mutants"
    <3>1. z.mutants = h.mutants + 1 /\ z.killed = h.killed
      BY <1>1, <1>4, <2>2, FieldsAre
    <3>2. /\ Cardinality(h.survivors) = h.mutants - h.killed
          /\ Cardinality(z.survivors) = z.mutants - z.killed
      BY <1>2, <1>4 DEF TalliesHold
    <3> QED BY <1>2, <2>1, <3>1, <3>2
  <2>3. CASE n = "killed"
    <3>1. z.killed = h.killed + 1
      BY <1>1, <1>4, <2>3
    <3>2. Total(h.operators, "killed") = h.killed /\ Total(z.operators, "killed") = z.killed
      BY <1>2, <1>4 DEF SummariesHold
    <3> QED BY <1>2, <2>1, <3>1, <3>2
  <2>4. CASE n = "generated"
    <3>1. z.generated = h.generated + 1
      BY <1>1, <1>4, <2>4
    <3>2. /\ Total(h.operators, "generated") = h.generated
          /\ Total(z.operators, "generated") = z.generated
      BY <1>2, <1>4 DEF SummariesHold
    <3> QED BY <1>2, <2>1, <3>1, <3>2
  <2>5. CASE n = "discarded"
    <3>1. z.discarded = h.discarded + 1
      BY <1>1, <1>4, <2>5
    <3>2. /\ Total(h.operators, "discarded") = h.discarded
          /\ Total(z.operators, "discarded") = z.discarded
      BY <1>2, <1>4 DEF SummariesHold
    <3> QED BY <1>2, <2>1, <3>1, <3>2
  <2> QED BY <2>2, <2>3, <2>4, <2>5 DEF Tallies
<1>5. IsFile(Refound(f, i, n, x)) /\ Parsed(Refound(f, i, n, x)) \subseteq {doc}
  <2>1. \A z : /\ z[n] = x /\ \A y \in Fields \ {n} : z[y] = f.rows[i].finding[y]
               /\ TalliesHold(z) /\ SummariesHold(z) /\ DispositionsHold(z)
               => FALSE
    BY <1>1, <1>4
  <2> QED BY <1>3, <2>1, Refused
<1>6. [f EXCEPT !.rows[i].finding[n] = @ + 1] = Refound(f, i, n, x)
  BY <1>1 DEF Refound, Rerowed, WithRows
<1> QED BY <1>5, <1>6

LEMMA SurvivorDropped ==
    ASSUME NEW f, NEW doc, Layout(f, doc), NEW i \in DOMAIN f.rows,
           NEW p \in f.rows[i].finding.survivors
    PROVE  /\ IsFile([f EXCEPT !.rows[i].finding.survivors = @ \ {p}])
           /\ Parsed([f EXCEPT !.rows[i].finding.survivors = @ \ {p}]) \subseteq {doc}
<1>1. PICK h, x, n : h = f.rows[i].finding /\ x = h.survivors \ {p} /\ n = "survivors"
  OBVIOUS
<1>2. /\ TalliesHold(h) /\ h.mutants \in Nat /\ h.killed \in Nat
      /\ IsFiniteSet(h.survivors) /\ Cardinality(h.survivors) \in Nat
  BY <1>1, FindingCounts
<1>3. IsFiniteSet(x) /\ Cardinality(x) = Cardinality(h.survivors) - 1
  BY <1>1, <1>2, FS_RemoveElement
<1>4. n \in Lists \ {"ledger"}
  BY <1>1 DEF Lists
<1>5. ASSUME NEW z, z[n] = x, \A y \in Fields \ {n} : z[y] = h[y],
             TalliesHold(z), SummariesHold(z), DispositionsHold(z)
      PROVE  FALSE
  <2>1. z.survivors = x /\ z.mutants = h.mutants /\ z.killed = h.killed
    BY <1>1, <1>5, FieldsAre
  <2>2. /\ Cardinality(h.survivors) = h.mutants - h.killed
        /\ Cardinality(z.survivors) = z.mutants - z.killed
    BY <1>2, <1>5 DEF TalliesHold
  <2> QED BY <1>2, <1>3, <2>1, <2>2
<1>6. IsFile(Refound(f, i, n, x)) /\ Parsed(Refound(f, i, n, x)) \subseteq {doc}
  <2>1. \A z : /\ z[n] = x /\ \A y \in Fields \ {n} : z[y] = f.rows[i].finding[y]
               /\ TalliesHold(z) /\ SummariesHold(z) /\ DispositionsHold(z)
               => FALSE
    BY <1>1, <1>5
  <2> QED BY <1>3, <1>4, <2>1, Refused
<1>7. [f EXCEPT !.rows[i].finding.survivors = @ \ {p}] = Refound(f, i, n, x)
  BY <1>1 DEF Refound, Rerowed, WithRows
<1> QED BY <1>6, <1>7

LEMMA KillDropped ==
    ASSUME NEW f, NEW doc, Layout(f, doc), NEW i \in DOMAIN f.rows,
           NEW p \in f.rows[i].finding.kills, f.rows[i].finding.kills # {p}
    PROVE  /\ IsFile([f EXCEPT !.rows[i].finding.kills = @ \ {p}])
           /\ Parsed([f EXCEPT !.rows[i].finding.kills = @ \ {p}]) \subseteq {doc}
<1>1. PICK h, x, n : h = f.rows[i].finding /\ x = h.kills \ {p} /\ n = "kills"
  OBVIOUS
<1>2. /\ TalliesHold(h) /\ h.killed \in Nat
      /\ IsFiniteSet(h.kills) /\ Cardinality(h.kills) \in Nat
  BY <1>1, FindingCounts
<1>3. IsFiniteSet(x) /\ Cardinality(x) = Cardinality(h.kills) - 1 /\ x # {}
  <2>1. IsFiniteSet(x) /\ Cardinality(x) = Cardinality(h.kills) - 1
    BY <1>1, <1>2, FS_RemoveElement
  <2>2. x # {}
    BY <1>1
  <2> QED BY <2>1, <2>2
<1>4. n \in Lists \ {"ledger"}
  BY <1>1 DEF Lists
<1>5. ASSUME NEW z, z[n] = x, \A y \in Fields \ {n} : z[y] = h[y],
             TalliesHold(z), SummariesHold(z), DispositionsHold(z)
      PROVE  FALSE
  <2>1. z.kills = x /\ z.killed = h.killed
    BY <1>1, <1>5, FieldsAre
  <2>2. Cardinality(h.kills) = h.killed /\ Cardinality(z.kills) = z.killed
    BY <1>1, <1>2, <1>3, <1>5, <2>1 DEF TalliesHold
  <2> QED BY <1>2, <1>3, <2>1, <2>2
<1>6. IsFile(Refound(f, i, n, x)) /\ Parsed(Refound(f, i, n, x)) \subseteq {doc}
  <2>1. \A z : /\ z[n] = x /\ \A y \in Fields \ {n} : z[y] = f.rows[i].finding[y]
               /\ TalliesHold(z) /\ SummariesHold(z) /\ DispositionsHold(z)
               => FALSE
    BY <1>1, <1>5
  <2> QED BY <1>3, <1>4, <2>1, Refused
<1>7. [f EXCEPT !.rows[i].finding.kills = @ \ {p}] = Refound(f, i, n, x)
  BY <1>1 DEF Refound, Rerowed, WithRows
<1> QED BY <1>6, <1>7

LEMMA KillAttested ==
    ASSUME NEW f, NEW doc, Layout(f, doc), NEW i \in DOMAIN f.rows,
           NEW p \in f.rows[i].finding.kills
    PROVE  /\ IsFile([f EXCEPT !.rows[i].finding.attested = @ \cup {p}])
           /\ Parsed([f EXCEPT !.rows[i].finding.attested = @ \cup {p}]) \subseteq {doc}
<1>1. PICK h, x, n : h = f.rows[i].finding /\ x = h.attested \cup {p} /\ n = "attested"
  OBVIOUS
<1>2. TalliesHold(h) /\ IsFiniteSet(h.attested)
  BY <1>1, FindingCounts
<1>3. IsFiniteSet(x)
  BY <1>1, <1>2, FS_AddElement
<1>4. n \in Lists \ {"ledger"}
  BY <1>1 DEF Lists
<1>5. ASSUME NEW z, z[n] = x, \A y \in Fields \ {n} : z[y] = h[y],
             TalliesHold(z), SummariesHold(z), DispositionsHold(z)
      PROVE  FALSE
  <2>1. z.attested = x /\ z.survivors = h.survivors
    BY <1>1, <1>5, FieldsAre
  <2>2. p \notin h.survivors
    BY <1>1, <1>2 DEF TalliesHold
  <2> QED BY <1>1, <1>5, <2>1, <2>2 DEF DispositionsHold
<1>6. IsFile(Refound(f, i, n, x)) /\ Parsed(Refound(f, i, n, x)) \subseteq {doc}
  <2>1. \A z : /\ z[n] = x /\ \A y \in Fields \ {n} : z[y] = f.rows[i].finding[y]
               /\ TalliesHold(z) /\ SummariesHold(z) /\ DispositionsHold(z)
               => FALSE
    BY <1>1, <1>5
  <2> QED BY <1>3, <1>4, <2>1, Refused
<1>7. [f EXCEPT !.rows[i].finding.attested = @ \cup {p}] = Refound(f, i, n, x)
  BY <1>1 DEF Refound, Rerowed, WithRows
<1> QED BY <1>6, <1>7

LEMMA AddendZero ==
    ASSUME NEW a \in Nat, NEW b \in Nat, NEW c \in Nat
    PROVE  /\ a + b + c = 0 + b + c => a = 0
           /\ a + b + c = a + b + 0 => c = 0
OBVIOUS

LEMMA DifferenceZero ==
    ASSUME NEW c \in Nat, NEW m \in Nat, NEW k \in Nat, c = m - k
    PROVE  /\ k <= 0 /\ c = 0 - k => k = 0 /\ m = 0
           /\ c = m - 0 => k = 0
OBVIOUS

\* A count read as zero is zero, or is refused.
LEMMA LossTold ==
    ASSUME NEW h, IsFinding(h), TalliesHold(h), SummariesHold(h),
           NEW l \in {"mutants", "killed", "summary-discarded", "summary-survived"},
           NEW r, r.finding = h, r.lost = {l}, TalliesHold(Zeroed(r)), SummariesHold(Zeroed(r))
    PROVE  Zeroed(r) = h
<1>1. PICK z : z = Zeroed(r)
  OBVIOUS
<1>2. /\ IsFinding(z)
      /\ \A x \in Lists \cup Names \cup {"target", "oracles", "candidates", "generated",
                                         "discarded", "shaped"} : z[x] = h[x]
      /\ z.budget = IF "budget" \in r.lost THEN 0 ELSE h.budget
      /\ z.mutants = IF "mutants" \in r.lost THEN 0 ELSE h.mutants
      /\ z.killed = IF "killed" \in r.lost THEN 0 ELSE h.killed
      /\ z.operators = [op \in DOMAIN h.operators |-> ZeroedSummary(r, op)]
      /\ \A x \in {"explicit", "dirty"} : x \notin r.lost => z[x] = h[x]
  BY <1>1, ZeroedIs
<1>3. z.explicit = h.explicit /\ z.dirty = h.dirty /\ z.budget = h.budget
  BY <1>2
<1>4. z.survivors = h.survivors
  BY <1>2, FieldsAre
<1>5. /\ h.mutants \in Nat /\ h.killed \in Nat /\ Cardinality(h.survivors) \in Nat
  BY FieldsAre, FS_CardinalityType DEF IsFinding
<1>6. /\ h.killed <= h.mutants /\ Cardinality(h.survivors) = h.mutants - h.killed
      /\ z.killed <= z.mutants /\ Cardinality(z.survivors) = z.mutants - z.killed
  BY <1>1 DEF TalliesHold
<1>7. z.mutants = h.mutants /\ z.killed = h.killed
  <2>4. PICK c \in Nat, m \in Nat, k \in Nat :
            c = Cardinality(h.survivors) /\ m = h.mutants /\ k = h.killed
    BY <1>5
  <2>5. c = m - k /\ z.killed <= z.mutants /\ c = z.mutants - z.killed
    BY <1>4, <1>6, <2>4
  <2>1. CASE l = "mutants"
    <3>1. z.mutants = 0 /\ z.killed = k
      BY <1>2, <2>1, <2>4
    <3>2. k <= 0 /\ c = 0 - k
      BY <2>5, <3>1
    <3>3. k = 0 /\ m = 0
      BY <2>5, <3>2, DifferenceZero
    <3> QED BY <2>4, <3>1, <3>3
  <2>2. CASE l = "killed"
    <3>1. z.killed = 0 /\ z.mutants = m
      BY <1>2, <2>2, <2>4
    <3>2. c = m - 0
      BY <2>5, <3>1
    <3>3. k = 0
      BY <2>5, <3>2, DifferenceZero
    <3> QED BY <2>4, <3>1, <3>3
  <2>3. CASE l \notin {"mutants", "killed"}
    BY <1>2, <2>3
  <2> QED BY <2>1, <2>2, <2>3
<1>8. z.operators = h.operators
  <2>1. ASSUME NEW op \in DOMAIN h.operators PROVE ZeroedSummary(r, op) = h.operators[op]
    <3>1. PICK s : s = h.operators[op]
      OBVIOUS
    <3>2. /\ s = [generated |-> s.generated, discarded |-> s.discarded, killed |-> s.killed,
                  survived |-> s.survived]
          /\ s.generated \in Nat /\ s.discarded \in Nat /\ s.killed \in Nat /\ s.survived \in Nat
      BY <3>1 DEF IsFinding, IsSummary
    <3>3. PICK t : t = ZeroedSummary(r, op)
      OBVIOUS
    <3>4. t = [generated |-> s.generated, killed |-> s.killed,
               discarded |-> IF "summary-discarded" \in r.lost THEN 0 ELSE s.discarded,
               survived  |-> IF "summary-survived" \in r.lost THEN 0 ELSE s.survived]
      BY <3>1, <3>3 DEF ZeroedSummary
    <3>5. s.generated = s.discarded + s.killed + s.survived
      BY <3>1 DEF SummariesHold
    <3>6. op \in DOMAIN z.operators /\ z.operators[op] = t
      BY <1>2, <3>3
    <3>7. t.generated = t.discarded + t.killed + t.survived
      BY <1>1, <3>6 DEF SummariesHold
    <3>8. /\ t.generated = s.generated /\ t.killed = s.killed
          /\ t.discarded = IF "summary-discarded" \in r.lost THEN 0 ELSE s.discarded
          /\ t.survived = IF "summary-survived" \in r.lost THEN 0 ELSE s.survived
      BY <3>4
    <3>9. t.discarded = s.discarded /\ t.survived = s.survived
      <4>1. CASE l = "summary-discarded"
        <5>1. t.discarded = 0 /\ t.survived = s.survived
          BY <3>8, <4>1
        <5>2. PICK a \in Nat, b \in Nat, c \in Nat :
                  a = s.discarded /\ b = s.killed /\ c = s.survived
          BY <3>2
        <5>3. a + b + c = 0 + b + c
          BY <3>5, <3>7, <3>8, <5>1, <5>2
        <5>4. a = 0
          BY <5>3, AddendZero
        <5> QED BY <5>1, <5>2, <5>4
      <4>2. CASE l = "summary-survived"
        <5>1. t.survived = 0 /\ t.discarded = s.discarded
          BY <3>8, <4>2
        <5>2. PICK a \in Nat, b \in Nat, c \in Nat :
                  a = s.discarded /\ b = s.killed /\ c = s.survived
          BY <3>2
        <5>3. a + b + c = a + b + 0
          BY <3>5, <3>7, <3>8, <5>1, <5>2
        <5>4. c = 0
          BY <5>3, AddendZero
        <5> QED BY <5>1, <5>2, <5>4
      <4>3. CASE l \notin {"summary-discarded", "summary-survived"}
        BY <3>8, <4>3
      <4> QED BY <4>1, <4>2, <4>3
    <3>10. t = s
      BY <3>2, <3>4, <3>8, <3>9
    <3> QED BY <3>1, <3>3, <3>10
  <2>2. h.operators = [op \in DOMAIN h.operators |-> h.operators[op]]
    BY DEF IsFinding
  <2> QED BY <1>2, <2>1, <2>2
<1>9. \A x \in Fields : z[x] = h[x]
  <2>1. Fields = Lists \cup Names \cup {"target", "oracles", "candidates", "generated",
                                       "discarded", "shaped"}
                 \cup {"explicit", "dirty", "budget", "mutants", "killed", "operators"}
    BY DEF Fields, Lists, Names, Switches, Counts
  <2> QED BY <1>2, <1>3, <1>7, <1>8, <2>1
<1>10. z = [x \in Fields |-> z[x]] /\ h = [x \in Fields |-> h[x]]
  BY <1>2 DEF IsFinding
<1> QED BY <1>1, <1>9, <1>10

LEMMA FieldLost ==
    ASSUME NEW f, NEW doc, Layout(f, doc), NEW i \in DOMAIN f.rows, NEW l \in Losses
    PROVE  /\ IsFile([f EXCEPT !.rows[i].lost = {l}])
           /\ l \notin Untallied => Parsed([f EXCEPT !.rows[i].lost = {l}]) \subseteq {doc}
<1>1. PICK r, s : r = f.rows[i] /\ s = [r EXCEPT !.lost = {l}]
  OBVIOUS
<1>2. /\ IsRow(r) /\ Zeroed(r) = r.finding
      /\ TalliesHold(r.finding) /\ SummariesHold(r.finding)
  BY <1>1, LayoutRow
<1>3. /\ s.finding = r.finding /\ s.lost = {l} /\ s.target = r.target /\ s.oracles = r.oracles
      /\ s.ledger = r.ledger /\ IsRow(s)
  BY <1>1, <1>2 DEF IsRow
<1>4. PICK g : g = Rerowed(f, i, s)
  OBVIOUS
<1>5. IsFile(f) /\ f.flat = Flat(f.version) /\ f.shape = Shape(f.version)
  BY DEF Layout
<1>6. /\ IsFile(g) /\ DOMAIN g.rows = DOMAIN f.rows /\ g.rows[i] = s
      /\ \A j \in DOMAIN f.rows \ {i} : g.rows[j] = f.rows[j]
      /\ g.version = f.version /\ g.shape = f.shape /\ g.flat = f.flat
      /\ g.inputs = f.inputs /\ g.evidence = f.evidence
      /\ g.ledgers = f.ledgers /\ g.bounds = f.bounds
  BY <1>3, <1>4, <1>5, RerowedIs
<1>7. [f EXCEPT !.rows[i].lost = {l}] = g
  BY <1>1, <1>4 DEF Rerowed, WithRows
<1>8. ASSUME l \notin Untallied, Readable(g), Accepted(g)
      PROVE  FindingsOf(g) = doc.findings /\ BoundsOf(g) = doc.bounds
  <2>1. s \in Range(g.rows)
    BY <1>6 DEF Range
  <2>2. f.shape # "inline" /\ l \notin {"summary-generated", "summary-killed"}
    BY <1>3, <1>6, <1>8, <2>1 DEF Readable, Lossless
  <2>3. l \in {"mutants", "killed", "summary-discarded", "summary-survived"}
    BY <1>8, <2>2 DEF Losses
  <2>4. TalliesHold(Zeroed(s)) /\ SummariesHold(Zeroed(s))
    BY <1>5, <1>6, <1>8, RowJudged
  <2>5. Zeroed(s) = r.finding
    BY <1>2, <1>3, <2>3, <2>4, LossTold DEF IsRow
  <2>6. PICK fs, ev, led : fs = doc.findings /\ LaidInTables(f, fs, ev, led)
    BY <2>2 DEF Layout
  <2>7. /\ IsSequence(fs) /\ \A j \in DOMAIN fs : IsFinding(fs[j]) /\ RowsHold(fs[j])
    BY <2>6 DEF Layout, IsDocument, AllValid, Valid
  <2>8. /\ DOMAIN f.rows = DOMAIN fs
        /\ \A j \in DOMAIN fs : /\ Zeroed(f.rows[j]) = Light(fs[j])
                                /\ Refers(f.rows[j], fs[j], ev, led)
    BY <2>6, <2>7, TableRowsAre DEF LaidInTables
  <2>9. \A j \in DOMAIN fs : /\ Zeroed(g.rows[j]) = Light(fs[j])
                             /\ Refers(g.rows[j], fs[j], ev, led)
    <3>1. Zeroed(s) = Light(fs[i]) /\ Refers(s, fs[i], ev, led)
      BY <1>1, <1>2, <1>3, <2>5, <2>8 DEF Refers
    <3> QED BY <1>6, <2>8, <3>1
  <2>10. Tells(g, fs, ev, led)
    BY <1>6, <2>6 DEF LaidInTables, Tells
  <2>11. Shape(g.version) # "inline" /\ RefsHold(g)
    BY <1>5, <1>6, <1>8, <2>2 DEF Accepted
  <2>12. Expanded(g, FALSE) = fs
    BY <1>6, <2>7, <2>8, <2>9, <2>10, <2>11, ToldReads
  <2>13. BoundsOf(g) = doc.bounds
    <3>1. BoundsOf(g) = BoundsOf(f)
      BY <1>6 DEF BoundsOf
    <3> QED BY <3>1, BoundsRead
  <2> QED BY <2>6, <2>11, <2>12, <2>13 DEF FindingsOf
<1>9. l \notin Untallied => Parsed(g) \subseteq {doc}
  <2>1. IsDocument(doc) /\ g.flat = Flat(g.version)
    BY <1>5, <1>6 DEF Layout
  <2> QED BY <1>6, <1>8, <2>1, OnlyReads
<1> QED BY <1>6, <1>7, <1>9

------------------------------------------------------------------------------
(* A hand in the document's own fields.                                    *)

Remarked(f, v, d, b) == [f EXCEPT !.version = v, !.defect = d, !.bounds = b]

LEMMA RemarkedIs ==
    ASSUME NEW f, IsFile(f), NEW v \in Nat, NEW d, NEW b
    PROVE  /\ IsFile(Remarked(f, v, d, b))
           /\ Remarked(f, v, d, b).version = v /\ Remarked(f, v, d, b).shape = f.shape
           /\ Remarked(f, v, d, b).flat = f.flat /\ Remarked(f, v, d, b).defect = d
           /\ Remarked(f, v, d, b).inputs = f.inputs
           /\ Remarked(f, v, d, b).evidence = f.evidence
           /\ Remarked(f, v, d, b).ledgers = f.ledgers
           /\ Remarked(f, v, d, b).rows = f.rows /\ Remarked(f, v, d, b).bounds = b
<1>1. f = [version |-> f.version, shape |-> f.shape, flat |-> f.flat, defect |-> f.defect,
           inputs |-> f.inputs, evidence |-> f.evidence, ledgers |-> f.ledgers,
           rows |-> f.rows, bounds |-> f.bounds]
  BY DEF IsFile
<1>2. PICK g : g = Remarked(f, v, d, b)
  OBVIOUS
<1>3. /\ g.version = v /\ g.shape = f.shape /\ g.flat = f.flat /\ g.defect = d
      /\ g.inputs = f.inputs /\ g.evidence = f.evidence /\ g.ledgers = f.ledgers
      /\ g.rows = f.rows /\ g.bounds = b
      /\ g = [version |-> g.version, shape |-> g.shape, flat |-> g.flat, defect |-> g.defect,
              inputs |-> g.inputs, evidence |-> g.evidence, ledgers |-> g.ledgers,
              rows |-> g.rows, bounds |-> g.bounds]
  BY <1>1, <1>2 DEF Remarked
<1>4. IsFile(g)
  BY <1>3 DEF IsFile
<1> QED BY <1>2, <1>3, <1>4

LEMMA RemarkedAs ==
    ASSUME NEW f, IsFile(f), NEW v, NEW d, NEW b
    PROVE  /\ d = f.defect /\ b = f.bounds => [f EXCEPT !.version = v] = Remarked(f, v, d, b)
           /\ v = f.version /\ b = f.bounds => [f EXCEPT !.defect = d] = Remarked(f, v, d, b)
           /\ v = f.version /\ d = f.defect => [f EXCEPT !.bounds = b] = Remarked(f, v, d, b)
<1>1. f = [version |-> f.version, shape |-> f.shape, flat |-> f.flat, defect |-> f.defect,
           inputs |-> f.inputs, evidence |-> f.evidence, ledgers |-> f.ledgers,
           rows |-> f.rows, bounds |-> f.bounds]
  BY DEF IsFile
<1>2. d = f.defect /\ b = f.bounds => [f EXCEPT !.version = v] = Remarked(f, v, d, b)
  BY <1>1 DEF Remarked
<1>3. v = f.version /\ b = f.bounds => [f EXCEPT !.defect = d] = Remarked(f, v, d, b)
  BY <1>1 DEF Remarked
<1>4. v = f.version /\ d = f.defect => [f EXCEPT !.bounds = b] = Remarked(f, v, d, b)
  BY <1>1 DEF Remarked
<1> QED BY <1>2, <1>3, <1>4

LEMMA SameTables ==
    ASSUME NEW f, NEW g, g.rows = f.rows, g.inputs = f.inputs, g.evidence = f.evidence,
           g.ledgers = f.ledgers, Shape(g.version) = Shape(f.version)
    PROVE  FindingsOf(g) = FindingsOf(f)
<1>1. \A ref : Manifest(g, ref) = Manifest(f, ref)
  BY DEF Manifest
<1>2. ASSUME NEW ref PROVE EvidenceAt(g, ref, FALSE) = EvidenceAt(f, ref, FALSE)
  BY <1>1, EvidenceAtIs
<1>3. ASSUME NEW r PROVE Inlined(g, r, FALSE) = Inlined(f, r, FALSE)
  <2>1. PICK b : b = FALSE
    OBVIOUS
  <2>2. TargetOf(g, r, b) = TargetOf(f, r, b) /\ OraclesOf(g, r, b) = OraclesOf(f, r, b)
    BY <1>2, <2>1 DEF TargetOf, OraclesOf
  <2>3. LedgerOf(g, r) = LedgerOf(f, r)
    BY DEF LedgerOf
  <2>4. \A h : Inlined(h, r, b) = Rowed(Zeroed(r), TargetOf(h, r, b), OraclesOf(h, r, b),
                                       LedgerOf(h, r))
    BY DEF Inlined, Rowed, TargetOf, OraclesOf, LedgerOf
  <2> QED BY <2>1, <2>2, <2>3, <2>4
<1>4. Expanded(g, FALSE) = Expanded(f, FALSE)
  BY <1>3 DEF Expanded
<1> QED BY <1>4 DEF FindingsOf

\* Neither what is null, missing, twice or unknown, nor bounds left out,
\* changes what is read.
LEMMA DocumentMarked ==
    ASSUME NEW f, NEW doc, Layout(f, doc)
    PROVE  /\ \A d : /\ IsFile([f EXCEPT !.defect = d])
                     /\ Parsed([f EXCEPT !.defect = d]) \subseteq {doc}
           /\ IsFile([f EXCEPT !.bounds = {}])
           /\ Parsed([f EXCEPT !.bounds = {}]) \subseteq {doc}
<1>1. IsFile(f) /\ f.version \in Nat /\ IsDocument(doc) /\ f.flat = Flat(f.version)
  BY DEF Layout, IsFile
<1>2. FindingsOf(f) = doc.findings /\ BoundsOf(f) = doc.bounds
  BY LayoutHolds, BoundsRead
<1>3. ASSUME NEW d
      PROVE  IsFile([f EXCEPT !.defect = d]) /\ Parsed([f EXCEPT !.defect = d]) \subseteq {doc}
  <2>0. PICK v, b : v = f.version /\ b = f.bounds /\ v \in Nat
    BY <1>1
  <2>1. PICK g : g = Remarked(f, v, d, b)
    OBVIOUS
  <2>2. /\ IsFile(g) /\ g.version = f.version /\ g.flat = f.flat /\ g.rows = f.rows
        /\ g.inputs = f.inputs /\ g.evidence = f.evidence /\ g.ledgers = f.ledgers
        /\ g.bounds = f.bounds
    BY <1>1, <2>0, <2>1, RemarkedIs
  <2>3. FindingsOf(g) = doc.findings
    BY <1>2, <2>2, SameTables
  <2>4. BoundsOf(g) = BoundsOf(f)
    BY <2>2 DEF BoundsOf
  <2>5. Parsed(g) \subseteq {doc}
    BY <1>1, <1>2, <2>2, <2>3, <2>4, OnlyReads
  <2>6. [f EXCEPT !.defect = d] = g
    <3>1. f = [version |-> f.version, shape |-> f.shape, flat |-> f.flat, defect |-> f.defect,
               inputs |-> f.inputs, evidence |-> f.evidence, ledgers |-> f.ledgers,
               rows |-> f.rows, bounds |-> f.bounds]
      BY <1>1 DEF IsFile
    <3> QED BY <2>0, <2>1, <3>1 DEF Remarked
  <2> QED BY <2>2, <2>5, <2>6
<1>4. IsFile([f EXCEPT !.bounds = {}]) /\ Parsed([f EXCEPT !.bounds = {}]) \subseteq {doc}
  <2>0. PICK v, e, none : v = f.version /\ e = f.defect /\ none = {} /\ v \in Nat
    BY <1>1
  <2>1. PICK g : g = Remarked(f, v, e, none)
    OBVIOUS
  <2>2. /\ IsFile(g) /\ g.version = f.version /\ g.flat = f.flat /\ g.rows = f.rows
        /\ g.inputs = f.inputs /\ g.evidence = f.evidence /\ g.ledgers = f.ledgers
        /\ g.bounds = {}
    BY <1>1, <2>0, <2>1, RemarkedIs
  <2>3. FindingsOf(g) = doc.findings
    BY <1>2, <2>2, SameTables
  <2>4. ASSUME Readable(g) PROVE BoundsOf(g) = doc.bounds
    <3>1. ~Bounded(f.version)
      BY <2>2, <2>4 DEF Readable
    <3>2. f.bounds = {}
      BY <3>1 DEF Layout
    <3>3. BoundsOf(g) = BoundsOf(f)
      BY <2>2, <3>2 DEF BoundsOf
    <3> QED BY <1>2, <3>3
  <2>5. Parsed(g) \subseteq {doc}
    BY <1>1, <2>2, <2>3, <2>4, OnlyReads
  <2>6. [f EXCEPT !.bounds = none] = g
    <3>1. IsFile(f) /\ v = f.version /\ e = f.defect
      BY <1>1, <2>0
    <3>2. [f EXCEPT !.bounds = none] = Remarked(f, v, e, none)
      BY <3>1, RemarkedAs
    <3> QED BY <2>1, <3>2
  <2> QED BY <2>0, <2>2, <2>5, <2>6
<1> QED BY <1>3, <1>4

\* Rows lifted under the other record form lose their fingerprints.
LEMMA LiftedWrong ==
    ASSUME NEW g, IsFile(g), ~(g.flat = Flat(g.version)), Shape(g.version) # "inline",
           g.rows # <<>>
    PROVE  Parsed(g) = {}
<1> SUFFICES ASSUME NEW d \in Parsed(g) PROVE FALSE
  OBVIOUS
<1>1. PICK h : h = Lifted(g)
  OBVIOUS
<1>2. IsFile(h) /\ RefsHold(h) /\ AllValid(Expanded(h, TRUE), h.version)
  BY <1>1, LiftedIs, ReadIs
<1>3. /\ DOMAIN h.rows = DOMAIN g.rows /\ DOMAIN h.evidence = DOMAIN g.evidence
      /\ \A k \in DOMAIN g.evidence :
            h.evidence[k] = [g.evidence[k] EXCEPT !.content = LiftedRow(g, g.evidence[k].content)]
  <2>1. g = [version |-> g.version, shape |-> g.shape, flat |-> g.flat, defect |-> g.defect,
             inputs |-> g.inputs, evidence |-> g.evidence, ledgers |-> g.ledgers,
             rows |-> g.rows, bounds |-> g.bounds]
    BY DEF IsFile
  <2>2. PICK es, rs :
            /\ es = [k \in DOMAIN g.evidence |->
                        [g.evidence[k] EXCEPT !.content = LiftedRow(g, g.evidence[k].content)]]
            /\ rs = [k \in DOMAIN g.rows |->
                        [g.rows[k] EXCEPT !.finding = LiftedRows(g, g.rows[k].finding)]]
    OBVIOUS
  <2>3. h = [g EXCEPT !.evidence = es, !.rows = rs]
    BY <1>1, <2>2 DEF Lifted
  <2>4. h.evidence = es /\ h.rows = rs
    BY <2>1, <2>3
  <2> QED BY <2>2, <2>4
<1>4. \A k \in DOMAIN h.evidence : h.evidence[k].content.pins = "zero"
  <2> TAKE k \in DOMAIN h.evidence
  <2>1. PICK e, c : e = g.evidence[k] /\ c = LiftedRow(g, e.content)
    OBVIOUS
  <2>2. c = [Zero EXCEPT !.of = e.content.of, !.ran = e.content.ran]
    BY <2>1 DEF LiftedRow
  <2>3. c.pins = "zero"
    BY <2>2 DEF Zero
  <2>4. e = [key |-> e.key, content |-> e.content, inputs |-> e.inputs]
    BY <1>3, <2>1 DEF IsFile
  <2>5. h.evidence[k] = [e EXCEPT !.content = c]
    BY <1>3, <2>1
  <2>6. h.evidence[k].content = c
    BY <2>4, <2>5
  <2> QED BY <2>3, <2>6
<1>5. PICK r \in Range(h.rows), i \in DOMAIN h.rows : r = h.rows[i]
  <2>1. 1 \in DOMAIN g.rows
    BY OraclesThere DEF IsFile
  <2>2. 1 \in DOMAIN h.rows
    BY <1>3, <2>1
  <2> QED BY <2>2 DEF Range
<1>6. PICK x, b : x = Inlined(h, r, b) /\ b = TRUE
  OBVIOUS
<1>7. RowsHold(x)
  <2>1. Expanded(h, TRUE)[i] = x /\ i \in DOMAIN Expanded(h, TRUE)
    BY <1>5, <1>6 DEF Expanded
  <2> QED BY <1>2, <2>1 DEF AllValid, Valid
<1>8. x.oracles = OraclesOf(h, r, b) /\ IsFinding(x)
  BY <1>2, <1>6, InlinedIs
<1>9. 1 \in DOMAIN x.oracles /\ EvidenceComplete(x.oracles[1])
  <2>1. x.oracles # <<>> /\ \A j \in DOMAIN x.oracles : EvidenceComplete(x.oracles[j])
    BY <1>7 DEF RowsHold
  <2>2. 1 \in DOMAIN x.oracles
    BY <1>8, <2>1, OraclesThere DEF IsFinding
  <2> QED BY <2>1, <2>2
<1>10. PICK ref : x.oracles[1] = EvidenceAt(h, ref, b) /\ Entry(h.evidence, ref) # {}
  <2>1. 1 \in DOMAIN r.oracles /\ x.oracles[1] = EvidenceAt(h, r.oracles[1], b)
    BY <1>8, <1>9 DEF OraclesOf
  <2>2. r.oracles[1] \in r.target \cup Range(r.oracles)
    BY <2>1 DEF Range
  <2>3. Entry(h.evidence, r.oracles[1]) # {}
    BY <1>2, <2>2 DEF RefsHold
  <2> QED BY <2>1, <2>3
<1>11. PICK k \in DOMAIN h.evidence : The(Entry(h.evidence, ref)) = h.evidence[k]
  BY <1>10, FoundIs
<1>12. x.oracles[1].pins = "zero"
  <2>1. EvidenceAt(h, ref, b) = h.evidence[k].content
    BY <1>4, <1>11 DEF EvidenceAt
  <2> QED BY <1>4, <1>10, <2>1
<1> QED BY <1>9, <1>12 DEF EvidenceComplete

\* Another version's label is refused, or reads the same.
LEMMA VersionEdited ==
    ASSUME NEW f, NEW doc, Layout(f, doc), NEW w \in 3 .. 18
    PROVE  /\ IsFile([f EXCEPT !.version = w])
           /\ doc.findings # <<>> => Parsed([f EXCEPT !.version = w]) \subseteq {doc}
<1>1. /\ IsFile(f) /\ f.version \in Nat /\ IsDocument(doc) /\ f.flat = Flat(f.version)
      /\ f.shape = Shape(f.version) /\ Oldest <= f.version /\ f.version <= Current
  BY DEF Layout, IsFile
<1>2. FindingsOf(f) = doc.findings /\ BoundsOf(f) = doc.bounds
  BY LayoutHolds, BoundsRead
<1>3. PICK d, b : d = f.defect /\ b = f.bounds
  OBVIOUS
<1>4. PICK g : g = Remarked(f, w, d, b)
  OBVIOUS
<1>5. w \in Nat
  OBVIOUS
<1>6. /\ IsFile(g) /\ g.version = w /\ g.flat = f.flat /\ g.rows = f.rows /\ g.shape = f.shape
      /\ g.inputs = f.inputs /\ g.evidence = f.evidence /\ g.ledgers = f.ledgers
      /\ g.bounds = f.bounds /\ [f EXCEPT !.version = w] = g
  <2>1. [f EXCEPT !.version = w] = g
    BY <1>1, <1>3, <1>4, RemarkedAs
  <2> QED BY <1>1, <1>3, <1>4, <1>5, <2>1, RemarkedIs
<1>7. ASSUME doc.findings # <<>>, NEW x \in Parsed(g) PROVE x = doc
  <2>1. Readable(g)
    BY ReadIs
  <2>2. g.rows # <<>>
    <3>1. DOMAIN f.rows = DOMAIN doc.findings
      <4>1. DOMAIN FindingsOf(f) = DOMAIN f.rows
        BY DEF FindingsOf, Expanded
      <4> QED BY <1>2, <4>1
    <3>2. 1 \in DOMAIN doc.findings
      BY <1>1, <1>7, OraclesThere DEF IsDocument
    <3> QED BY <1>1, <1>6, <3>1, <3>2, OraclesThere DEF IsFile
  <2>3. Shape(w) = Shape(f.version)
    <3>1. g.rows \o g.inputs \o g.evidence \o g.ledgers # <<>>
      <4>1. PICK p, q, r, s : p = g.rows /\ q = g.inputs /\ r = g.evidence /\ s = g.ledgers
        OBVIOUS
      <4>2. IsSequence(p) /\ IsSequence(q) /\ IsSequence(r) /\ IsSequence(s) /\ p # <<>>
        BY <1>6, <2>2, <4>1 DEF IsFile
      <4>3. p \o q \o r \o s # <<>>
        BY <4>2, JoinedEmpty
      <4> QED BY <4>1, <4>3
    <3> QED BY <1>1, <1>6, <2>1, <3>1 DEF Readable, Decodes
  <2>4. CASE Flat(w) = Flat(f.version)
    <3>1. FindingsOf(g) = doc.findings
      BY <1>2, <1>6, <2>3, SameTables
    <3>2. BoundsOf(g) = BoundsOf(f)
      BY <1>1, <1>5, <1>6, <2>3 DEF BoundsOf, Shape
    <3>3. Parsed(g) \subseteq {doc}
      BY <1>1, <1>2, <1>6, <2>4, <3>1, <3>2, OnlyReads
    <3> QED BY <1>7, <3>3
  <2>5. CASE Flat(w) # Flat(f.version)
    <3>1. Shape(w) # "inline"
      BY <1>1, <1>5, <2>3, <2>5 DEF Shape, Flat
    <3>2. Parsed(g) = {}
      BY <1>1, <1>6, <2>2, <2>5, <3>1, LiftedWrong
    <3> QED BY <1>7, <3>2
  <2> QED BY <2>4, <2>5
<1> QED BY <1>6, <1>7

------------------------------------------------------------------------------
(* A hand in the tables.                                                   *)

IsTable(t) ==
    /\ IsSequence(t)
    /\ \A i \in DOMAIN t : t[i] = [key |-> t[i].key, content |-> t[i].content]

IsEvidenceTable(t) ==
    /\ IsSequence(t)
    /\ \A i \in DOMAIN t :
          /\ t[i] = [key |-> t[i].key, content |-> t[i].content, inputs |-> t[i].inputs]
          /\ IsEvidence(t[i].content)

Retabled(f, a, b, c) == [f EXCEPT !.inputs = a, !.evidence = b, !.ledgers = c]

LEMMA RetabledIs ==
    ASSUME NEW f, IsFile(f), NEW a, IsTable(a), NEW b, IsEvidenceTable(b), NEW c, IsTable(c)
    PROVE  LET g == Retabled(f, a, b, c)
           IN  /\ IsFile(g) /\ g.version = f.version /\ g.shape = f.shape /\ g.flat = f.flat
               /\ g.defect = f.defect /\ g.inputs = a /\ g.evidence = b /\ g.ledgers = c
               /\ g.rows = f.rows /\ g.bounds = f.bounds
<1>1. f = [version |-> f.version, shape |-> f.shape, flat |-> f.flat, defect |-> f.defect,
           inputs |-> f.inputs, evidence |-> f.evidence, ledgers |-> f.ledgers,
           rows |-> f.rows, bounds |-> f.bounds]
  BY DEF IsFile
<1>2. PICK g : g = Retabled(f, a, b, c)
  OBVIOUS
<1>3. /\ g.version = f.version /\ g.shape = f.shape /\ g.flat = f.flat
      /\ g.defect = f.defect /\ g.inputs = a /\ g.evidence = b /\ g.ledgers = c
      /\ g.rows = f.rows /\ g.bounds = f.bounds
      /\ g = [version |-> g.version, shape |-> g.shape, flat |-> g.flat, defect |-> g.defect,
              inputs |-> g.inputs, evidence |-> g.evidence, ledgers |-> g.ledgers,
              rows |-> g.rows, bounds |-> g.bounds]
  BY <1>1, <1>2 DEF Retabled
<1>4. IsFile(g)
  BY <1>3 DEF IsFile, IsTable, IsEvidenceTable
<1> QED BY <1>2, <1>3, <1>4

LEMMA RetabledAs ==
    ASSUME NEW f, IsFile(f), NEW a, NEW b, NEW c
    PROVE  /\ b = f.evidence /\ c = f.ledgers => [f EXCEPT !.inputs = a] = Retabled(f, a, b, c)
           /\ a = f.inputs /\ c = f.ledgers => [f EXCEPT !.evidence = b] = Retabled(f, a, b, c)
           /\ a = f.inputs /\ b = f.evidence => [f EXCEPT !.ledgers = c] = Retabled(f, a, b, c)
<1>1. f = [version |-> f.version, shape |-> f.shape, flat |-> f.flat, defect |-> f.defect,
           inputs |-> f.inputs, evidence |-> f.evidence, ledgers |-> f.ledgers,
           rows |-> f.rows, bounds |-> f.bounds]
  BY DEF IsFile
<1>2. b = f.evidence /\ c = f.ledgers => [f EXCEPT !.inputs = a] = Retabled(f, a, b, c)
  BY <1>1 DEF Retabled
<1>3. a = f.inputs /\ c = f.ledgers => [f EXCEPT !.evidence = b] = Retabled(f, a, b, c)
  BY <1>1 DEF Retabled
<1>4. a = f.inputs /\ b = f.evidence => [f EXCEPT !.ledgers = c] = Retabled(f, a, b, c)
  BY <1>1 DEF Retabled
<1> QED BY <1>2, <1>3, <1>4

LEMMA TablesTyped ==
    ASSUME NEW f, IsFile(f)
    PROVE  IsTable(f.inputs) /\ IsEvidenceTable(f.evidence) /\ IsTable(f.ledgers)
BY DEF IsFile, IsTable, IsEvidenceTable

\* A hand's change is noticed, or changes nothing that is read.
Shows(g, doc) == IsFile(g) /\ Parsed(g) \subseteq {doc}

\* Tables that are accepted only when every entry of theirs was laid out.
LEMMA Retold ==
    ASSUME NEW f, NEW doc, Layout(f, doc), f.shape # "inline",
           NEW a, IsTable(a), NEW b, IsEvidenceTable(b), NEW c, IsTable(c),
           KeysHold(Retabled(f, a, b, c)) /\ RefsHold(Retabled(f, a, b, c)) =>
              /\ Range(a) \subseteq Range(f.inputs) /\ Range(b) \subseteq Range(f.evidence)
              /\ Range(c) \subseteq Range(f.ledgers)
    PROVE  Parsed(Retabled(f, a, b, c)) \subseteq {doc}
<1>1. PICK g : g = Retabled(f, a, b, c)
  OBVIOUS
<1>2. IsFile(f) /\ f.flat = Flat(f.version) /\ f.shape = Shape(f.version) /\ IsDocument(doc)
  BY DEF Layout
<1>3. /\ IsFile(g) /\ g.version = f.version /\ g.flat = Flat(g.version)
      /\ g.shape = Shape(g.version) /\ g.shape # "inline"
      /\ g.inputs = a /\ g.evidence = b /\ g.ledgers = c
      /\ g.rows = f.rows /\ g.bounds = f.bounds
  BY <1>1, <1>2, RetabledIs
<1>4. ASSUME Accepted(g) PROVE FindingsOf(g) = doc.findings
  <2>1. KeysHold(g) /\ RefsHold(g)
    BY <1>3, <1>4 DEF Accepted
  <2>2. /\ Range(g.inputs) \subseteq Range(f.inputs)
        /\ Range(g.evidence) \subseteq Range(f.evidence)
        /\ Range(g.ledgers) \subseteq Range(f.ledgers)
    BY <1>1, <1>3, <2>1
  <2>3. PICK fs, ev, led : fs = doc.findings /\ LaidInTables(f, fs, ev, led)
    BY DEF Layout
  <2>4. /\ IsSequence(fs) /\ \A j \in DOMAIN fs : IsFinding(fs[j]) /\ RowsHold(fs[j])
    BY <1>2, <2>3 DEF IsDocument, AllValid, Valid
  <2>5. /\ DOMAIN g.rows = DOMAIN fs
        /\ \A j \in DOMAIN fs : /\ Zeroed(g.rows[j]) = Light(fs[j])
                                /\ Refers(g.rows[j], fs[j], ev, led)
    BY <1>3, <2>3, <2>4, TableRowsAre DEF LaidInTables
  <2>6. /\ \A ref : Entry(g.inputs, ref) \subseteq Entry(f.inputs, ref)
        /\ \A ref : Entry(g.evidence, ref) \subseteq Entry(f.evidence, ref)
        /\ \A ref : Entry(g.ledgers, ref) \subseteq Entry(f.ledgers, ref)
    BY <2>2 DEF Entry
  <2>7. Tells(g, fs, ev, led)
    <3>1. Tells(f, fs, ev, led)
      BY <2>3 DEF LaidInTables
    <3> QED BY <2>6, <3>1 DEF Tells
  <2>8. Expanded(g, FALSE) = fs
    BY <1>3, <2>1, <2>4, <2>5, <2>7, ToldReads
  <2> QED BY <1>3, <2>3, <2>8 DEF FindingsOf
<1>5. BoundsOf(g) = doc.bounds
  <2>1. BoundsOf(g) = BoundsOf(f)
    BY <1>3 DEF BoundsOf
  <2> QED BY <2>1, BoundsRead
<1> QED BY <1>1, <1>2, <1>3, <1>4, <1>5, OnlyReads

LEMMA SubTable ==
    ASSUME NEW s, NEW t, IsSequence(t), Range(t) \subseteq Range(s)
    PROVE  /\ IsTable(s) => IsTable(t)
           /\ IsEvidenceTable(s) => IsEvidenceTable(t)
<1>1. \A i \in DOMAIN t : \E j \in DOMAIN s : t[i] = s[j]
  BY DEF Range
<1> QED BY <1>1 DEF IsTable, IsEvidenceTable

LEMMA TwiceIs ==
    ASSUME NEW s, IsSequence(s), NEW i \in DOMAIN s
    PROVE  IsSequence(Append(s, s[i])) /\ Range(Append(s, s[i])) \subseteq Range(s)
<1>1. PICK x, t : x = s[i] /\ t = Append(s, x)
  OBVIOUS
<1>2. PICK n \in Nat : n = Len(s) /\ DOMAIN s = 1 .. n
  BY SequenceIs
<1>3. IsSequence(t) /\ Len(t) = n + 1 /\ t[n + 1] = x /\ \A j \in 1 .. n : t[j] = s[j]
  BY <1>1, <1>2, AppendedIs
<1>4. DOMAIN t = 1 .. n + 1
  BY <1>3, SequenceIs
<1>5. \A j \in 1 .. n + 1 : j \in 1 .. n \/ j = n + 1
  BY <1>2
<1>6. \A j \in DOMAIN t : t[j] \in Range(s)
  BY <1>1, <1>2, <1>3, <1>4, <1>5 DEF Range
<1> QED BY <1>1, <1>3, <1>6 DEF Range

LEMMA DroppedIs ==
    ASSUME NEW s, IsSequence(s), NEW i \in DOMAIN s
    PROVE  IsSequence(Without(s, i)) /\ Range(Without(s, i)) \subseteq Range(s)
<1>1. PICK t : t = Without(s, i)
  OBVIOUS
<1>2. PICK n \in Nat : n = Len(s) /\ DOMAIN s = 1 .. n
  BY SequenceIs
<1>3. /\ IsSequence(t) /\ Len(t) = n - 1
      /\ \A j \in 1 .. n - 1 : t[j] = IF j < i THEN s[j] ELSE s[j + 1]
  BY <1>1, <1>2, WithoutIs
<1>4. DOMAIN t = 1 .. n - 1
  BY <1>3, SequenceIs
<1>5. \A j \in 1 .. n - 1 : j \in 1 .. n /\ j + 1 \in 1 .. n
  BY <1>2
<1>6. \A j \in DOMAIN t : t[j] \in Range(s)
  BY <1>2, <1>3, <1>4, <1>5 DEF Range
<1> QED BY <1>1, <1>3, <1>6 DEF Range

\* Tables with nothing but what was laid out, though not all of it, or twice.
LEMMA Subtabled ==
    ASSUME NEW f, NEW doc, Layout(f, doc), f.shape # "inline",
           NEW a, IsSequence(a), Range(a) \subseteq Range(f.inputs),
           NEW b, IsSequence(b), Range(b) \subseteq Range(f.evidence),
           NEW c, IsSequence(c), Range(c) \subseteq Range(f.ledgers)
    PROVE  Shows(Retabled(f, a, b, c), doc)
<1>1. IsFile(f)
  BY DEF Layout
<1>2. IsTable(a) /\ IsEvidenceTable(b) /\ IsTable(c)
  BY <1>1, TablesTyped, SubTable
<1> QED BY <1>1, <1>2, RetabledIs, Retold DEF Shows

LEMMA TablesListed ==
    ASSUME NEW f, IsFile(f)
    PROVE  IsSequence(f.inputs) /\ IsSequence(f.evidence) /\ IsSequence(f.ledgers)
BY DEF IsFile

LEMMA InputsSub ==
    ASSUME NEW f, NEW doc, Layout(f, doc), f.shape # "inline",
           NEW t, IsSequence(t), Range(t) \subseteq Range(f.inputs)
    PROVE  Shows([f EXCEPT !.inputs = t], doc)
<1>1. PICK b, c : b = f.evidence /\ c = f.ledgers
  OBVIOUS
<1>2. IsFile(f) /\ IsSequence(b) /\ IsSequence(c)
  BY <1>1, TablesListed DEF Layout
<1>3. [f EXCEPT !.inputs = t] = Retabled(f, t, b, c)
  BY <1>1, <1>2, RetabledAs
<1>4. Shows(Retabled(f, t, b, c), doc)
  BY <1>1, <1>2, Subtabled
<1> QED BY <1>3, <1>4

LEMMA EvidenceSub ==
    ASSUME NEW f, NEW doc, Layout(f, doc), f.shape # "inline",
           NEW t, IsSequence(t), Range(t) \subseteq Range(f.evidence)
    PROVE  Shows([f EXCEPT !.evidence = t], doc)
<1>1. PICK a, c : a = f.inputs /\ c = f.ledgers
  OBVIOUS
<1>2. IsFile(f) /\ IsSequence(a) /\ IsSequence(c)
  BY <1>1, TablesListed DEF Layout
<1>3. [f EXCEPT !.evidence = t] = Retabled(f, a, t, c)
  BY <1>1, <1>2, RetabledAs
<1>4. Shows(Retabled(f, a, t, c), doc)
  BY <1>1, <1>2, Subtabled
<1> QED BY <1>3, <1>4

LEMMA LedgersSub ==
    ASSUME NEW f, NEW doc, Layout(f, doc), f.shape # "inline",
           NEW t, IsSequence(t), Range(t) \subseteq Range(f.ledgers)
    PROVE  Shows([f EXCEPT !.ledgers = t], doc)
<1>1. PICK a, b : a = f.inputs /\ b = f.evidence
  OBVIOUS
<1>2. IsFile(f) /\ IsSequence(a) /\ IsSequence(b)
  BY <1>1, TablesListed DEF Layout
<1>3. [f EXCEPT !.ledgers = t] = Retabled(f, a, b, t)
  BY <1>1, <1>2, RetabledAs
<1>4. Shows(Retabled(f, a, b, t), doc)
  BY <1>1, <1>2, Subtabled
<1> QED BY <1>3, <1>4

\* An entry there twice, or gone.
LEMMA EntryRepeated ==
    ASSUME NEW f, NEW doc, Layout(f, doc), f.shape # "inline"
    PROVE  /\ \A i \in DOMAIN f.inputs : Shows([f EXCEPT !.inputs = Append(@, f.inputs[i])], doc)
           /\ \A i \in DOMAIN f.evidence :
                 Shows([f EXCEPT !.evidence = Append(@, f.evidence[i])], doc)
           /\ \A i \in DOMAIN f.ledgers : Shows([f EXCEPT !.ledgers = Append(@, f.ledgers[i])], doc)
<1>1. IsSequence(f.inputs) /\ IsSequence(f.evidence) /\ IsSequence(f.ledgers)
  BY TablesListed DEF Layout
<1>2. ASSUME NEW i \in DOMAIN f.inputs
      PROVE  Shows([f EXCEPT !.inputs = Append(@, f.inputs[i])], doc)
  <2>1. PICK s, t : s = f.inputs /\ t = Append(s, s[i])
    OBVIOUS
  <2>2. IsSequence(t) /\ Range(t) \subseteq Range(f.inputs)
    BY <1>1, <2>1, TwiceIs
  <2>3. Shows([f EXCEPT !.inputs = t], doc)
    BY <2>2, InputsSub
  <2> QED BY <2>1, <2>3
<1>3. ASSUME NEW i \in DOMAIN f.evidence
      PROVE  Shows([f EXCEPT !.evidence = Append(@, f.evidence[i])], doc)
  <2>1. PICK s, t : s = f.evidence /\ t = Append(s, s[i])
    OBVIOUS
  <2>2. IsSequence(t) /\ Range(t) \subseteq Range(f.evidence)
    BY <1>1, <2>1, TwiceIs
  <2>3. Shows([f EXCEPT !.evidence = t], doc)
    BY <2>2, EvidenceSub
  <2> QED BY <2>1, <2>3
<1>4. ASSUME NEW i \in DOMAIN f.ledgers
      PROVE  Shows([f EXCEPT !.ledgers = Append(@, f.ledgers[i])], doc)
  <2>1. PICK s, t : s = f.ledgers /\ t = Append(s, s[i])
    OBVIOUS
  <2>2. IsSequence(t) /\ Range(t) \subseteq Range(f.ledgers)
    BY <1>1, <2>1, TwiceIs
  <2>3. Shows([f EXCEPT !.ledgers = t], doc)
    BY <2>2, LedgersSub
  <2> QED BY <2>1, <2>3
<1> QED BY <1>2, <1>3, <1>4

LEMMA EntryDropped ==
    ASSUME NEW f, NEW doc, Layout(f, doc), f.shape # "inline"
    PROVE  /\ \A i \in DOMAIN f.inputs : Shows([f EXCEPT !.inputs = Without(@, i)], doc)
           /\ \A i \in DOMAIN f.evidence : Shows([f EXCEPT !.evidence = Without(@, i)], doc)
           /\ \A i \in DOMAIN f.ledgers : Shows([f EXCEPT !.ledgers = Without(@, i)], doc)
<1>1. IsSequence(f.inputs) /\ IsSequence(f.evidence) /\ IsSequence(f.ledgers)
  BY TablesListed DEF Layout
<1>2. ASSUME NEW i \in DOMAIN f.inputs
      PROVE  Shows([f EXCEPT !.inputs = Without(@, i)], doc)
  <2>1. PICK s, t : s = f.inputs /\ t = Without(s, i)
    OBVIOUS
  <2>2. IsSequence(t) /\ Range(t) \subseteq Range(f.inputs)
    BY <1>1, <2>1, DroppedIs
  <2>3. Shows([f EXCEPT !.inputs = t], doc)
    BY <2>2, InputsSub
  <2> QED BY <2>1, <2>3
<1>3. ASSUME NEW i \in DOMAIN f.evidence
      PROVE  Shows([f EXCEPT !.evidence = Without(@, i)], doc)
  <2>1. PICK s, t : s = f.evidence /\ t = Without(s, i)
    OBVIOUS
  <2>2. IsSequence(t) /\ Range(t) \subseteq Range(f.evidence)
    BY <1>1, <2>1, DroppedIs
  <2>3. Shows([f EXCEPT !.evidence = t], doc)
    BY <2>2, EvidenceSub
  <2> QED BY <2>1, <2>3
<1>4. ASSUME NEW i \in DOMAIN f.ledgers
      PROVE  Shows([f EXCEPT !.ledgers = Without(@, i)], doc)
  <2>1. PICK s, t : s = f.ledgers /\ t = Without(s, i)
    OBVIOUS
  <2>2. IsSequence(t) /\ Range(t) \subseteq Range(f.ledgers)
    BY <1>1, <2>1, DroppedIs
  <2>3. Shows([f EXCEPT !.ledgers = t], doc)
    BY <2>2, LedgersSub
  <2> QED BY <2>1, <2>3
<1> QED BY <1>2, <1>3, <1>4

\* A digest tells contents apart.
LEMMA KeysTell ==
    ASSUME collides = "none"
    PROVE  /\ \A m : InputsKey(m) = m
           /\ \A y : Key("evidence", y) = y
           /\ \A l : LedgerKey(l) = l
BY DEF InputsKey, LedgerKey, Key

\* Noticed where no two contents share a key.
Digested(g, doc) == IsFile(g) /\ (collides = "none" => Parsed(g) \subseteq {doc})

LEMMA InputsReplaced ==
    ASSUME NEW f, NEW doc, Layout(f, doc), f.shape = "keyed", NEW i \in DOMAIN f.inputs,
           NEW d, d = [key |-> f.inputs[i].key, content |-> d.content]
    PROVE  Digested([f EXCEPT !.inputs = [@ EXCEPT ![i] = d]], doc)
<1>1. PICK s, t, b, c : /\ s = f.inputs /\ t = [s EXCEPT ![i] = d]
                        /\ b = f.evidence /\ c = f.ledgers
  OBVIOUS
<1>2. IsFile(f) /\ IsTable(s) /\ IsEvidenceTable(b) /\ IsTable(c) /\ KeysHold(f)
  BY <1>1, TablesTyped DEF Layout, LaidInTables
<1>3. IsSequence(t) /\ DOMAIN t = DOMAIN s
  BY <1>1, <1>2, ReplacedIs DEF IsTable
<1>4. t[i] = d /\ \A j \in DOMAIN s \ {i} : t[j] = s[j]
  BY <1>1
<1>5. d = [key |-> d.key, content |-> d.content] /\ d.key = s[i].key
  BY <1>1
<1>6. IsTable(t)
  BY <1>2, <1>3, <1>4, <1>5 DEF IsTable
<1>7. PICK g : g = Retabled(f, t, b, c)
  OBVIOUS
<1>8. IsFile(g) /\ g.shape = f.shape /\ g.inputs = t
  BY <1>2, <1>6, <1>7, RetabledIs
<1>9. ASSUME collides = "none", KeysHold(g) PROVE Range(t) \subseteq Range(s)
  <2>1. d \in Range(g.inputs) /\ s[i] \in Range(f.inputs)
    BY <1>1, <1>3, <1>4, <1>8 DEF Range
  <2>2. PICK x, y : x = d.content /\ y = s[i].content
    OBVIOUS
  <2>3. d.key = InputsKey(x) /\ s[i].key = InputsKey(y)
    BY <1>2, <1>8, <1>9, <2>1, <2>2 DEF KeysHold
  <2>4. InputsKey(x) = x /\ InputsKey(y) = y
    BY <1>9, KeysTell
  <2>5. d = s[i]
    BY <1>1, <1>2, <1>5, <2>2, <2>3, <2>4 DEF IsTable
  <2> QED BY <1>3, <1>4, <2>5 DEF Range
<1>10. collides = "none" => Parsed(g) \subseteq {doc}
  <2>1. f.shape # "inline"
    OBVIOUS
  <2> QED BY <1>1, <1>2, <1>6, <1>7, <1>9, <2>1, Retold
<1>11. [f EXCEPT !.inputs = t] = g
  BY <1>1, <1>2, <1>7, RetabledAs
<1> QED BY <1>1, <1>8, <1>10, <1>11 DEF Digested

LEMMA LedgersReplaced ==
    ASSUME NEW f, NEW doc, Layout(f, doc), f.shape = "keyed", NEW i \in DOMAIN f.ledgers,
           NEW d, d = [key |-> f.ledgers[i].key, content |-> d.content]
    PROVE  Digested([f EXCEPT !.ledgers = [@ EXCEPT ![i] = d]], doc)
<1>1. PICK s, t, a, b : /\ s = f.ledgers /\ t = [s EXCEPT ![i] = d]
                        /\ a = f.inputs /\ b = f.evidence
  OBVIOUS
<1>2. IsFile(f) /\ IsTable(s) /\ IsTable(a) /\ IsEvidenceTable(b) /\ KeysHold(f)
  BY <1>1, TablesTyped DEF Layout, LaidInTables
<1>3. IsSequence(t) /\ DOMAIN t = DOMAIN s
  BY <1>1, <1>2, ReplacedIs DEF IsTable
<1>4. t[i] = d /\ \A j \in DOMAIN s \ {i} : t[j] = s[j]
  BY <1>1
<1>5. d = [key |-> d.key, content |-> d.content] /\ d.key = s[i].key
  BY <1>1
<1>6. IsTable(t)
  BY <1>2, <1>3, <1>4, <1>5 DEF IsTable
<1>7. PICK g : g = Retabled(f, a, b, t)
  OBVIOUS
<1>8. IsFile(g) /\ g.shape = f.shape /\ g.ledgers = t
  BY <1>2, <1>6, <1>7, RetabledIs
<1>9. ASSUME collides = "none", KeysHold(g) PROVE Range(t) \subseteq Range(s)
  <2>1. d \in Range(g.ledgers) /\ s[i] \in Range(f.ledgers)
    BY <1>1, <1>3, <1>4, <1>8 DEF Range
  <2>2. PICK x, y : x = d.content /\ y = s[i].content
    OBVIOUS
  <2>3. d.key = LedgerKey(x) /\ s[i].key = LedgerKey(y)
    BY <1>2, <1>8, <1>9, <2>1, <2>2 DEF KeysHold
  <2>4. LedgerKey(x) = x /\ LedgerKey(y) = y
    BY <1>9, KeysTell
  <2>5. d = s[i]
    BY <1>1, <1>2, <1>5, <2>2, <2>3, <2>4 DEF IsTable
  <2> QED BY <1>3, <1>4, <2>5 DEF Range
<1>10. collides = "none" => Parsed(g) \subseteq {doc}
  <2>1. f.shape # "inline"
    OBVIOUS
  <2> QED BY <1>1, <1>2, <1>6, <1>7, <1>9, <2>1, Retold
<1>11. [f EXCEPT !.ledgers = t] = g
  BY <1>1, <1>2, <1>7, RetabledAs
<1> QED BY <1>1, <1>8, <1>10, <1>11 DEF Digested

LEMMA EvidenceReplaced ==
    ASSUME NEW f, NEW doc, Layout(f, doc), f.shape = "keyed", NEW i \in DOMAIN f.evidence,
           NEW d, IsEvidence(d.content),
           d = [key |-> f.evidence[i].key, content |-> d.content, inputs |-> d.inputs]
    PROVE  Digested([f EXCEPT !.evidence = [@ EXCEPT ![i] = d]], doc)
<1>1. PICK s, t, a, c : /\ s = f.evidence /\ t = [s EXCEPT ![i] = d]
                        /\ a = f.inputs /\ c = f.ledgers
  OBVIOUS
<1>2. IsFile(f) /\ IsEvidenceTable(s) /\ IsTable(a) /\ IsTable(c) /\ KeysHold(f)
  BY <1>1, TablesTyped DEF Layout, LaidInTables
<1>3. IsSequence(t) /\ DOMAIN t = DOMAIN s
  BY <1>1, <1>2, ReplacedIs DEF IsEvidenceTable
<1>4. t[i] = d /\ \A j \in DOMAIN s \ {i} : t[j] = s[j]
  BY <1>1
<1>5. d = [key |-> d.key, content |-> d.content, inputs |-> d.inputs] /\ d.key = s[i].key
  BY <1>1
<1>6. IsEvidenceTable(t)
  BY <1>2, <1>3, <1>4, <1>5 DEF IsEvidenceTable
<1>7. PICK g : g = Retabled(f, a, t, c)
  OBVIOUS
<1>8. IsFile(g) /\ g.shape = f.shape /\ g.evidence = t
  BY <1>2, <1>6, <1>7, RetabledIs
<1>9. ASSUME collides = "none", KeysHold(g) PROVE Range(t) \subseteq Range(s)
  <2>1. d \in Range(g.evidence) /\ s[i] \in Range(f.evidence)
    BY <1>1, <1>3, <1>4, <1>8 DEF Range
  <2>2. PICK x, y : x = <<d.inputs, d.content>> /\ y = <<s[i].inputs, s[i].content>>
    OBVIOUS
  <2>3. d.key = Key("evidence", x) /\ s[i].key = Key("evidence", y)
    BY <1>2, <1>8, <1>9, <2>1, <2>2 DEF KeysHold
  <2>4. Key("evidence", x) = x /\ Key("evidence", y) = y
    BY <1>9, KeysTell
  <2>5. d = s[i]
    <3>1. d.inputs = s[i].inputs /\ d.content = s[i].content
      <4>1. x = y
        BY <1>5, <2>3, <2>4
      <4>2. PICK p, q, u, w : p = d.inputs /\ q = d.content
                              /\ u = s[i].inputs /\ w = s[i].content
        OBVIOUS
      <4>3. <<p, q>> = <<u, w>>
        BY <2>2, <4>1, <4>2
      <4> QED BY <4>2, <4>3
    <3>2. s[i] = [key |-> s[i].key, content |-> s[i].content, inputs |-> s[i].inputs]
      BY <1>1, <1>2 DEF IsEvidenceTable
    <3> QED BY <1>5, <3>1, <3>2
  <2> QED BY <1>3, <1>4, <2>5 DEF Range
<1>10. collides = "none" => Parsed(g) \subseteq {doc}
  <2>1. f.shape # "inline"
    OBVIOUS
  <2> QED BY <1>1, <1>2, <1>6, <1>7, <1>9, <2>1, Retold
<1>11. [f EXCEPT !.evidence = t] = g
  BY <1>1, <1>2, <1>7, RetabledAs
<1> QED BY <1>1, <1>8, <1>10, <1>11 DEF Digested

\* An entry whose contents are another's, or that refers to another.
LEMMA InputsEdited ==
    ASSUME NEW f, NEW doc, Layout(f, doc), f.shape = "keyed", NEW i \in DOMAIN f.inputs, NEW m
    PROVE  Digested([f EXCEPT !.inputs[i].content = m], doc)
<1>1. PICK e, d : e = f.inputs[i] /\ d = [e EXCEPT !.content = m]
  OBVIOUS
<1>2. e = [key |-> e.key, content |-> e.content]
  BY <1>1 DEF Layout, IsFile
<1>3. d = [key |-> f.inputs[i].key, content |-> d.content]
  BY <1>1, <1>2
<1>4. Digested([f EXCEPT !.inputs = [@ EXCEPT ![i] = d]], doc)
  BY <1>3, InputsReplaced
<1> QED BY <1>1, <1>4

LEMMA LedgersEdited ==
    ASSUME NEW f, NEW doc, Layout(f, doc), f.shape = "keyed", NEW i \in DOMAIN f.ledgers, NEW l
    PROVE  Digested([f EXCEPT !.ledgers[i].content = l], doc)
<1>1. PICK e, d : e = f.ledgers[i] /\ d = [e EXCEPT !.content = l]
  OBVIOUS
<1>2. e = [key |-> e.key, content |-> e.content]
  BY <1>1 DEF Layout, IsFile
<1>3. d = [key |-> f.ledgers[i].key, content |-> d.content]
  BY <1>1, <1>2
<1>4. Digested([f EXCEPT !.ledgers = [@ EXCEPT ![i] = d]], doc)
  BY <1>3, LedgersReplaced
<1> QED BY <1>1, <1>4

LEMMA EvidenceEdited ==
    ASSUME NEW f, NEW doc, Layout(f, doc), f.shape = "keyed", NEW i \in DOMAIN f.evidence, NEW x
    PROVE  /\ Digested([f EXCEPT !.evidence[i].content.ran = x], doc)
           /\ Digested([f EXCEPT !.evidence[i].content.inputs = x], doc)
           /\ Digested([f EXCEPT !.evidence[i].inputs = x], doc)
<1>1. PICK e : e = f.evidence[i]
  OBVIOUS
<1>2. /\ e = [key |-> e.key, content |-> e.content, inputs |-> e.inputs]
      /\ IsEvidence(e.content)
  BY <1>1 DEF Layout, IsFile
<1>3. Digested([f EXCEPT !.evidence[i].content.ran = x], doc)
  <2>1. PICK c, d : c = [e.content EXCEPT !.ran = x] /\ d = [e EXCEPT !.content = c]
    OBVIOUS
  <2>2. IsEvidence(c)
    BY <1>2, <2>1 DEF IsEvidence
  <2>3. d = [key |-> f.evidence[i].key, content |-> d.content, inputs |-> d.inputs]
        /\ d.content = c
    BY <1>1, <1>2, <2>1
  <2>4. Digested([f EXCEPT !.evidence = [@ EXCEPT ![i] = d]], doc)
    BY <2>2, <2>3, EvidenceReplaced
  <2> QED BY <1>1, <2>1, <2>4
<1>4. Digested([f EXCEPT !.evidence[i].content.inputs = x], doc)
  <2>1. PICK c, d : c = [e.content EXCEPT !.inputs = x] /\ d = [e EXCEPT !.content = c]
    OBVIOUS
  <2>2. IsEvidence(c)
    BY <1>2, <2>1 DEF IsEvidence
  <2>3. d = [key |-> f.evidence[i].key, content |-> d.content, inputs |-> d.inputs]
        /\ d.content = c
    BY <1>1, <1>2, <2>1
  <2>4. Digested([f EXCEPT !.evidence = [@ EXCEPT ![i] = d]], doc)
    BY <2>2, <2>3, EvidenceReplaced
  <2> QED BY <1>1, <2>1, <2>4
<1>5. Digested([f EXCEPT !.evidence[i].inputs = x], doc)
  <2>1. PICK d : d = [e EXCEPT !.inputs = x]
    OBVIOUS
  <2>2. d = [key |-> f.evidence[i].key, content |-> d.content, inputs |-> d.inputs]
        /\ d.content = e.content
    BY <1>1, <1>2, <2>1
  <2>3. IsEvidence(d.content)
    BY <1>2, <2>2
  <2>4. Digested([f EXCEPT !.evidence = [@ EXCEPT ![i] = d]], doc)
    BY <2>2, <2>3, EvidenceReplaced
  <2> QED BY <1>1, <2>1, <2>4
<1> QED BY <1>3, <1>4, <1>5

\* A row that takes another subject's evidence for its target's.
LEMMA TargetRedirected ==
    ASSUME NEW f, NEW doc, Layout(f, doc), f.shape = "keyed",
           NEW i \in DOMAIN f.rows, f.rows[i].target # {},
           NEW x \in Range(f.evidence), \A r \in Range(f.rows) : x.content.of # r.finding.symbol
    PROVE  Shows([f EXCEPT !.rows[i].target = {x.key}], doc)
<1>1. PICK r, s, k, one : /\ r = f.rows[i] /\ k = x.key /\ one = {k}
                          /\ s = [r EXCEPT !.target = one]
  OBVIOUS
<1>2. IsFile(f) /\ f.flat = Flat(f.version) /\ f.shape = Shape(f.version) /\ IsDocument(doc)
  BY DEF Layout
<1>3. IsRow(r) /\ r.lost = {} /\ Zeroed(r) = r.finding
  BY <1>1, LayoutRow
<1>4. /\ s.finding = r.finding /\ s.lost = {} /\ s.target = one /\ s.oracles = r.oracles
      /\ s.ledger = r.ledger /\ IsRow(s)
  BY <1>1, <1>3 DEF IsRow
<1>5. PICK g : g = Rerowed(f, i, s)
  OBVIOUS
<1>6. /\ IsFile(g) /\ DOMAIN g.rows = DOMAIN f.rows /\ g.rows[i] = s
      /\ g.version = f.version /\ g.shape = f.shape /\ g.flat = f.flat
      /\ g.evidence = f.evidence
  BY <1>2, <1>4, <1>5, RerowedIs
<1>7. ~r.finding.shaped
  <2>1. PICK fs, ev, led : fs = doc.findings /\ LaidInTables(f, fs, ev, led)
    BY DEF Layout
  <2>2. i \in DOMAIN fs /\ Refers(r, fs[i], ev, led)
    <3>1. \A j \in DOMAIN fs : IsFinding(fs[j])
      BY <1>2, <2>1 DEF IsDocument
    <3> QED BY <1>1, <2>1, <3>1, TableRowsAre DEF LaidInTables
  <2>3. ~fs[i].shaped
    BY <1>1, <2>2 DEF Refers
  <2> QED BY <1>1, <2>1, <2>3, LayoutRow
<1>8. Unrepeated(f.evidence)
  BY DEF Layout, LaidInTables, KeysHold
<1>9. The(Entry(f.evidence, k)) = x /\ Entry(f.evidence, k) # {}
  <2>1. Entry(f.evidence, k) = {x}
    BY <1>1, <1>8 DEF Entry, Range, Unrepeated
  <2> QED BY <2>1 DEF The
<1>10. ASSUME Readable(g), Accepted(g) PROVE FALSE
  <2>1. RefsHold(g) /\ g.shape = Shape(g.version)
    BY <1>2, <1>6, <1>10 DEF Accepted
  <2>2. PICK h, b : h = FindingsOf(g)[i] /\ b = FALSE
    OBVIOUS
  <2>3. s \in Range(g.rows)
    BY <1>6 DEF Range
  <2>4. h = Inlined(g, s, b) /\ i \in DOMAIN FindingsOf(g)
    BY <1>2, <1>6, <2>2 DEF FindingsOf, Expanded
  <2>5. h.target = TargetOf(g, s, b) /\ \A y \in Fields \ Heavies : h[y] = Zeroed(s)[y]
    BY <1>6, <2>1, <2>3, <2>4, InlinedIs
  <2>6. Zeroed(s) = r.finding
    BY <1>3, <1>4, ZeroedIs DEF IsRow
  <2>7. h.shaped = r.finding.shaped /\ h.symbol = r.finding.symbol
    BY <2>5, <2>6, FieldsAre DEF Heavies
  <2>8. h.target = EvidenceAt(g, k, b)
    <3>1. The(s.target) = k /\ s.target # {}
      BY <1>1, <1>4 DEF The
    <3> QED BY <2>5, <3>1 DEF TargetOf
  <2>9. EvidenceAt(g, k, b).of = x.content.of
    <3>1. IsEvidence(x.content)
      BY <1>2 DEF IsFile, Range
    <3>2. PICK m : m = Manifest(g, x.inputs)
      OBVIOUS
    <3>3. Holding(x.content, m).of = x.content.of
      BY <3>1, HoldingIs
    <3>4. The(Entry(g.evidence, k)) = x
      BY <1>6, <1>9
    <3>5. EvidenceAt(g, k, FALSE) = IF x.content.pins = "zero" THEN x.content
                                    ELSE Holding(x.content, m)
      BY <3>2, <3>4, EvidenceAtIs
    <3> QED BY <2>2, <3>3, <3>5
  <2>10. RowsHold(h)
    BY <1>10, <2>2, <2>4 DEF Accepted, AllValid, Valid
  <2>11. h.target.of = h.symbol
    BY <1>7, <2>7, <2>10 DEF RowsHold
  <2>12. r \in Range(f.rows)
    BY <1>1 DEF Range
  <2> QED BY <2>7, <2>8, <2>9, <2>11, <2>12
<1>11. Parsed(g) \subseteq {doc}
  BY <1>2, <1>6, <1>10, OnlyReads
<1>12. [f EXCEPT !.rows[i].target = one] = g
  BY <1>1, <1>5 DEF Rerowed, WithRows
<1> QED BY <1>1, <1>6, <1>11, <1>12 DEF Shows

------------------------------------------------------------------------------
(* Whatever a hand did, at one place.                                      *)

LEMMA MarkedIs ==
    ASSUME NEW d
    PROVE  \A how, S : d \in Marked(how, S) => d.how = how /\ d.file \in S
BY DEF Marked

LEMMA RowsDamaged ==
    ASSUME NEW f, NEW doc, Layout(f, doc), NEW d \in InRows(f)
    PROVE  IsFile(d.file) /\ (d.how \notin Untallied => Parsed(d.file) \subseteq {doc})
<1> DEFINE at         == DOMAIN f.rows
           finding(i) == f.rows[i].finding
           Twice(i)   == [f EXCEPT !.rows = Append(@, f.rows[i])]
           Count(i, n) == [f EXCEPT !.rows[i].finding[n] = @ + 1]
           Survivor(i, p) == [f EXCEPT !.rows[i].finding.survivors = @ \ {p}]
           Kill(i, p)     == [f EXCEPT !.rows[i].finding.kills = @ \ {p}]
           Attested(i, p) == [f EXCEPT !.rows[i].finding.attested = @ \cup {p}]
           Lost(i, l)     == [f EXCEPT !.rows[i].lost = {l}]
           Others(i)      == {q \in finding(i).kills : finding(i).kills # {q}}
           twice     == {Twice(i) : i \in at}
           counts    == {Count(i, n) : i \in at, n \in Tallies}
           survivors == UNION {{Survivor(i, p) : p \in finding(i).survivors} : i \in at}
           kills     == UNION {{Kill(i, p) : p \in Others(i)} : i \in at}
           attests   == UNION {{Attested(i, p) : p \in finding(i).kills} : i \in at}
           losses    == {Marked(l, {Lost(i, l) : i \in at}) : l \in Losses}
<1>1. \A i \in at : Shows(Twice(i), doc)
  BY RowTwice DEF Shows
<1>2. \A i \in at, n \in Tallies : Shows(Count(i, n), doc)
  BY CountMoved DEF Shows
<1>3. \A i \in at : \A p \in finding(i).survivors : Shows(Survivor(i, p), doc)
  BY SurvivorDropped DEF Shows
<1>4. \A i \in at : \A p \in Others(i) : Shows(Kill(i, p), doc)
  BY KillDropped DEF Shows
<1>5. \A i \in at : \A p \in finding(i).kills : Shows(Attested(i, p), doc)
  BY KillAttested DEF Shows
<1>6. \A i \in at, l \in Losses :
         IsFile(Lost(i, l)) /\ (l \notin Untallied => Parsed(Lost(i, l)) \subseteq {doc})
  BY FieldLost
<1>7. InRows(f) = Marked("row-twice", twice) \cup Marked("count-moved", counts)
                     \cup Marked("survivor-dropped", survivors) \cup Marked("kill-dropped", kills)
                     \cup Marked("kill-attested", attests) \cup UNION losses
  BY DEF InRows
<1>8. \A S \in losses : \E l \in Losses : S = Marked(l, {Lost(i, l) : i \in at})
  OBVIOUS
<1> HIDE DEF at, finding, Twice, Count, Survivor, Kill, Attested, Lost, Others
<1>9. \A g \in twice \cup counts \cup survivors \cup kills \cup attests : Shows(g, doc)
  BY <1>1, <1>2, <1>3, <1>4, <1>5
<1> HIDE DEF twice, counts, survivors, kills, attests, losses
<1>10. \/ d \in Marked("row-twice", twice) \/ d \in Marked("count-moved", counts)
       \/ d \in Marked("survivor-dropped", survivors) \/ d \in Marked("kill-dropped", kills)
       \/ d \in Marked("kill-attested", attests)
       \/ \E l \in Losses : d \in Marked(l, {Lost(i, l) : i \in at})
  BY <1>7, <1>8
<1>11. CASE \E l \in Losses : d \in Marked(l, {Lost(i, l) : i \in at})
  <2>1. PICK l \in Losses : d \in Marked(l, {Lost(i, l) : i \in at})
    BY <1>11
  <2>2. d.how = l /\ \E i \in at : d.file = Lost(i, l)
    BY <2>1, MarkedIs
  <2> QED BY <1>6, <2>2
<1>12. CASE ~\E l \in Losses : d \in Marked(l, {Lost(i, l) : i \in at})
  <2>1. d.file \in twice \cup counts \cup survivors \cup kills \cup attests
    BY <1>10, <1>12, MarkedIs
  <2> QED BY <1>9, <2>1 DEF Shows
<1> QED BY <1>11, <1>12

LEMMA DocumentDamaged ==
    ASSUME NEW f, NEW doc, Layout(f, doc), NEW d \in InDocument(f)
    PROVE  /\ IsFile(d.file)
           /\ (d.how = "version-edited" => doc.findings # <<>>) => Parsed(d.file) \subseteq {doc}
<1> DEFINE others     == (3 .. 18) \ {f.version}
           Version(v) == [f EXCEPT !.version = v]
           Defect(k)  == [f EXCEPT !.defect = {k}]
           dropped    == [f EXCEPT !.bounds = {}]
<1>1. \A v \in others : /\ IsFile(Version(v))
                        /\ doc.findings # <<>> => Parsed(Version(v)) \subseteq {doc}
  BY VersionEdited
<1>2. Shows(dropped, doc)
  BY DocumentMarked DEF Shows
<1>3. \A k : Shows(Defect(k), doc)
  BY DocumentMarked DEF Shows
<1>4. InDocument(f) =
          Marked("version-edited", {Version(v) : v \in others})
          \cup Marked("bounds-dropped", {dropped})
          \cup {[how |-> k, file |-> Defect(k)] : k \in {"null", "twice", "missing", "unknown"}}
  BY Zenon DEF InDocument
<1> HIDE DEF others, Version, Defect, dropped
<1>5. \/ d.how = "version-edited" /\ \E v \in others : d.file = Version(v)
      \/ d.file = dropped
      \/ \E k : d.file = Defect(k)
  BY <1>4, MarkedIs
<1> QED BY <1>1, <1>2, <1>3, <1>5 DEF Shows

LEMMA EntriesDamaged ==
    ASSUME NEW f, NEW doc, Layout(f, doc), f.shape = "keyed", NEW d \in InEntries(f)
    PROVE  Digested(d.file, doc)
<1> DEFINE ins  == DOMAIN f.inputs
           evs  == DOMAIN f.evidence
           leds == DOMAIN f.ledgers
           InputsTo(i)    == [f EXCEPT !.inputs[i].content = {"other"}]
           EvidenceTo(i)  == [f EXCEPT !.evidence[i].content.ran = "other"]
           LedgerTo(i)    == [f EXCEPT !.ledgers[i].content = "other"]
           Refer(i, j)    == [f EXCEPT !.evidence[i].inputs = f.inputs[j].key]
           InputsTwice(i)   == [f EXCEPT !.inputs = Append(@, f.inputs[i])]
           EvidenceTwice(i) == [f EXCEPT !.evidence = Append(@, f.evidence[i])]
           LedgerTwice(i)   == [f EXCEPT !.ledgers = Append(@, f.ledgers[i])]
           InputsGone(i)    == [f EXCEPT !.inputs = Without(@, i)]
           EvidenceGone(i)  == [f EXCEPT !.evidence = Without(@, i)]
           LedgerGone(i)    == [f EXCEPT !.ledgers = Without(@, i)]
           Holds(i)  == [f EXCEPT !.evidence[i].content.inputs =
                                      Manifest(f, f.evidence[i].inputs)]
           targeted  == {j \in DOMAIN f.rows : f.rows[j].target # {}}
           strangers == {y \in Range(f.evidence) :
                            \A r \in Range(f.rows) : y.content.of # r.finding.symbol}
           Aims(i, x) == [f EXCEPT !.rows[i].target = {x.key}]
<1>1. \A i \in ins : Digested(InputsTo(i), doc)
  BY InputsEdited
<1>2. \A i \in evs : Digested(EvidenceTo(i), doc)
  BY EvidenceEdited
<1>3. \A i \in leds : Digested(LedgerTo(i), doc)
  BY LedgersEdited
<1>4. \A i \in evs, j \in ins : Digested(Refer(i, j), doc)
  BY EvidenceEdited
<1>5. /\ \A i \in ins : Shows(InputsTwice(i), doc)
      /\ \A i \in evs : Shows(EvidenceTwice(i), doc)
      /\ \A i \in leds : Shows(LedgerTwice(i), doc)
  BY EntryRepeated
<1>6. /\ \A i \in ins : Shows(InputsGone(i), doc)
      /\ \A i \in evs : Shows(EvidenceGone(i), doc)
      /\ \A i \in leds : Shows(LedgerGone(i), doc)
  BY EntryDropped
<1>7. \A i \in evs : Digested(Holds(i), doc)
  BY EvidenceEdited
<1>8. \A i \in targeted, x \in strangers : Shows(Aims(i, x), doc)
  BY TargetRedirected
<1>9. InEntries(f) =
          Marked("entry-edited", {InputsTo(i) : i \in ins} \cup {EvidenceTo(i) : i \in evs}
                                 \cup {LedgerTo(i) : i \in leds})
          \cup Marked("entry-redirected", {Refer(i, j) : i \in evs, j \in ins})
          \cup Marked("entry-twice", {InputsTwice(i) : i \in ins}
                         \cup {EvidenceTwice(i) : i \in evs} \cup {LedgerTwice(i) : i \in leds})
          \cup Marked("entry-dropped", {InputsGone(i) : i \in ins}
                         \cup {EvidenceGone(i) : i \in evs} \cup {LedgerGone(i) : i \in leds})
          \cup Marked("manifest-inline", {Holds(i) : i \in evs})
          \cup Marked("target-redirected", {Aims(i, x) : i \in targeted, x \in strangers})
  BY DEF InEntries
<1> HIDE DEF ins, evs, leds, InputsTo, EvidenceTo, LedgerTo, Refer, InputsTwice, EvidenceTwice,
             LedgerTwice, InputsGone, EvidenceGone, LedgerGone, Holds, targeted, strangers, Aims
<1>10. \/ \E i \in ins : d.file = InputsTo(i) \/ d.file = InputsTwice(i) \/ d.file = InputsGone(i)
       \/ \E i \in evs : d.file = EvidenceTo(i) \/ d.file = EvidenceTwice(i)
                         \/ d.file = EvidenceGone(i) \/ d.file = Holds(i)
       \/ \E i \in leds : d.file = LedgerTo(i) \/ d.file = LedgerTwice(i) \/ d.file = LedgerGone(i)
       \/ \E i \in evs, j \in ins : d.file = Refer(i, j)
       \/ \E i \in targeted, x \in strangers : d.file = Aims(i, x)
  BY <1>9, MarkedIs
<1> QED BY <1>1, <1>2, <1>3, <1>4, <1>5, <1>6, <1>7, <1>8, <1>10 DEF Shows, Digested

\* What is left to be read is what was there, or a change that may go unseen.
LEMMA Damaged ==
    ASSUME NEW f, NEW doc, Layout(f, doc), NEW d \in Damages(f)
    PROVE  /\ IsFile(d.file)
           /\ /\ collides = "none" /\ d.how \notin Untallied
              /\ d.how = "version-edited" => doc.findings # <<>>
              => Parsed(d.file) \subseteq {doc}
<1>1. CASE d \in InRows(f)
  BY <1>1, RowsDamaged
<1>2. CASE d \in InDocument(f)
  BY <1>2, DocumentDamaged
<1>3. CASE f.shape = "keyed" /\ d \in InEntries(f)
  BY <1>3, EntriesDamaged DEF Digested
<1> QED BY <1>1, <1>2, <1>3 DEF Damages

LEMMA KeysKept ==
    ASSUME NEW f, UNCHANGED collides
    PROVE  KeysHold(f)' <=> KeysHold(f)
BY DEF KeysHold, InputsKey, LedgerKey, Key

LEMMA LayoutKept ==
    ASSUME NEW f, NEW doc, Layout(f, doc), UNCHANGED collides, truth' = doc
    PROVE  Layout(f, truth)'
BY KeysKept DEF Layout, LaidInTables

LEMMA DamagesKept ==
    ASSUME NEW f
    PROVE  Damages(f)' = Damages(f)
OBVIOUS

------------------------------------------------------------------------------
(* The document, from one reading to the next.                             *)

\* What is written is a layout of what was measured, or that after a hand.
WrittenHolds ==
    stage = "written" =>
        \/ file = {} /\ mark = {} /\ collides # "none"
        \/ mark = {} /\ \E f : file = {f} /\ Layout(f, truth)
        \/ \E f, d : Layout(f, truth) /\ d \in Damages(f) /\ file = {d.file} /\ mark = {d.how}

DocInv ==
    /\ IsDocument(truth) /\ \A d \in held : IsDocument(d)
    /\ stage \in {"measured", "written", "read"}
    /\ stage = "measured" => mark = {}
    /\ WrittenHolds
    /\ ReadsBack /\ DamageShows

LEMMA DocumentInitInv == DocumentInit => DocInv
BY DocumentsAssumption DEF DocumentInit, DocInv, WrittenHolds, ReadsBack, DamageShows

LEMMA WritesInv ==
    ASSUME DocInv, Writes
    PROVE  DocInv'
<1>1. PICK doc \in IF stage = "read" THEN held ELSE {truth} :
          stage # "written" /\ truth' = doc /\ file' = Interned(doc)
  BY DEF Writes
<1>2. IsDocument(doc)
  BY <1>1 DEF DocInv
<1>3. stage' = "written" /\ mark' = {} /\ UNCHANGED collides /\ held' = held
  BY DEF Writes
<1>4. IsDocument(truth')
  BY <1>1, <1>2
<1>5. CASE Distinct(doc.findings)
  <2>1. PICK v : v = Current /\ v \in 14 .. Current /\ v \in Nat
    BY DEF Current
  <2>2. Layout(Labelled(doc, v), doc)
    BY <1>2, <1>5, <2>1, LabelledLays DEF IsDocument
  <2>3. file' = {Labelled(doc, v)}
    BY <1>1, <1>2, <1>5, <2>1, InternedIs
  <2>4. PICK f : f = Labelled(doc, v)
    OBVIOUS
  <2>5. Layout(f, truth)'
    BY <1>1, <1>3, <2>2, <2>4, LayoutKept
  <2>6. WrittenHolds'
    BY <1>3, <2>3, <2>4, <2>5 DEF WrittenHolds
  <2> QED BY <1>3, <1>4, <2>3, <2>6 DEF DocInv, ReadsBack, DamageShows
<1>6. CASE ~Distinct(doc.findings)
  <2>1. file' = {} /\ collides' # "none"
    BY <1>1, <1>2, <1>3, <1>6, InternedIs, DistinctUnless
  <2> QED BY <1>3, <1>4, <2>1 DEF DocInv, WrittenHolds, ReadsBack, DamageShows
<1> QED BY <1>5, <1>6

LEMMA WritesOldInv ==
    ASSUME DocInv, NEW v \in Oldest .. (Current - 1), WritesOld(v)
    PROVE  DocInv'
<1>1. /\ stage = "measured" /\ mark = {} /\ stage' = "written"
      /\ truth' = truth /\ UNCHANGED collides /\ mark' = mark /\ held' = held
  BY DEF WritesOld, DocInv
<1>2. PICK doc : doc = truth
  OBVIOUS
<1>3. IsDocument(doc) /\ IsDocument(truth') /\ \A d \in held : IsDocument(d)
  BY <1>1, <1>2 DEF DocInv
<1>4. /\ v \in Nat /\ 4 <= v /\ v <= 16 /\ v \in Oldest .. Current
      /\ v >= 14 => v \in 14 .. Current
      /\ v < 11 => v \in Oldest .. 10
      /\ v >= 11 /\ v < 14 => v \in 11 .. 13
  BY DEF Oldest, Current
<1>5. AllValid(doc.findings, v)
  <2>1. \A i \in DOMAIN doc.findings : ~OfVersion17(doc.findings[i])
    BY <1>2 DEF WritesOld, Range
  <2> QED BY <1>3, <1>4, <2>1, OlderValid DEF IsDocument
<1>6. doc.bounds = {} \/ Bounded(v)
  BY <1>2 DEF WritesOld
<1>7. ASSUME NEW f, Layout(f, doc), file' = {f} PROVE DocInv'
  <2>1. Layout(f, truth)'
    BY <1>1, <1>2, <1>7, LayoutKept
  <2>2. WrittenHolds'
    BY <1>1, <1>7, <2>1 DEF WrittenHolds
  <2> QED BY <1>1, <1>3, <1>7, <2>2 DEF DocInv, ReadsBack, DamageShows
<1>8. CASE v >= 14
  <2>1. v \in 14 .. Current /\ Shape(v) = "keyed"
    BY <1>4, <1>8 DEF Shape
  <2>2. file' = {[f EXCEPT !.version = v] : f \in Interned(doc)}
    BY <1>2, <2>1 DEF WritesOld
  <2>3. CASE Distinct(doc.findings)
    <3>1. file' = {Labelled(doc, v)}
      BY <1>3, <2>1, <2>2, <2>3, InternedLabelled
    <3>2. Layout(Labelled(doc, v), doc)
      BY <1>3, <1>5, <2>1, <2>3, LabelledLays
    <3> QED BY <1>7, <3>1, <3>2
  <2>4. CASE ~Distinct(doc.findings)
    <3>1. file' = {}
      BY <1>3, <2>1, <2>2, <2>4, InternedLabelled
    <3>2. collides' # "none"
      BY <1>1, <1>3, <2>4, DistinctUnless
    <3> QED BY <1>1, <1>3, <3>1, <3>2 DEF DocInv, WrittenHolds, ReadsBack, DamageShows
  <2> QED BY <2>3, <2>4
<1>9. CASE ~(v >= 14)
  <2>1. Shape(v) # "keyed"
    BY <1>9 DEF Shape
  <2>2. file' = {Laid(doc, v)}
    BY <1>2, <2>1 DEF WritesOld
  <2>3. CASE v >= 11
    <3>1. v \in 11 .. 13
      BY <1>4, <1>9, <2>3
    <3>2. Layout(Laid(doc, v), doc)
      BY <1>3, <1>5, <1>6, <3>1, PositionsLay
    <3> QED BY <1>7, <2>2, <3>2
  <2>4. CASE ~(v >= 11)
    <3>1. v \in Oldest .. 10 /\ doc.bounds = {}
      BY <1>4, <1>6, <2>4 DEF Bounded
    <3>2. Layout(Laid(doc, v), doc)
      BY <1>3, <1>5, <3>1, InlineLays
    <3> QED BY <1>7, <2>2, <3>2
  <2> QED BY <2>3, <2>4
<1> QED BY <1>8, <1>9

LEMMA DamagedInv ==
    ASSUME DocInv, DamagedByHand
    PROVE  DocInv'
<1>1. /\ stage = "written" /\ mark = {} /\ stage' = "written"
      /\ truth' = truth /\ UNCHANGED collides /\ held' = held
  BY DEF DamagedByHand
<1>2. PICK f \in file : \E d \in Damages(f) : file' = {d.file} /\ mark' = {d.how}
  BY DEF DamagedByHand
<1>3. PICK d \in Damages(f) : file' = {d.file} /\ mark' = {d.how}
  BY <1>2
<1>4. Layout(f, truth)
  BY <1>1, <1>2 DEF DocInv, WrittenHolds
<1>5. Layout(f, truth)'
  <2>1. PICK doc : doc = truth
    OBVIOUS
  <2> QED BY <1>1, <1>4, <2>1, LayoutKept
<1>6. d \in Damages(f)'
  BY <1>3, DamagesKept
<1>7. WrittenHolds'
  BY <1>3, <1>5, <1>6 DEF WrittenHolds
<1>8. IsDocument(truth') /\ \A x \in held' : IsDocument(x)
  BY <1>1 DEF DocInv
<1> QED BY <1>1, <1>3, <1>7, <1>8 DEF DocInv, ReadsBack, DamageShows

LEMMA ReadsInv ==
    ASSUME DocInv, ReadsDocument
    PROVE  DocInv'
<1>1. /\ stage = "written" /\ stage' = "read" /\ truth' = truth /\ UNCHANGED collides
      /\ mark' = mark /\ file' = file
  BY DEF ReadsDocument
<1>2. PICK g \in file : held' = Parsed(g)
  BY DEF ReadsDocument
<1>3. PICK doc : doc = truth /\ IsDocument(doc)
  BY DEF DocInv
<1>4. CASE mark = {}
  <2>1. Layout(g, doc)
    BY <1>1, <1>2, <1>3, <1>4 DEF DocInv, WrittenHolds
  <2>2. held' = {doc}
    BY <1>2, <2>1, LayoutReads
  <2> QED BY <1>1, <1>3, <1>4, <2>2 DEF DocInv, WrittenHolds, ReadsBack, DamageShows
<1>5. CASE mark # {}
  <2>1. PICK f, d : Layout(f, doc) /\ d \in Damages(f) /\ g = d.file /\ mark = {d.how}
    BY <1>1, <1>2, <1>3, <1>5 DEF DocInv, WrittenHolds
  <2>2. IsFile(g)
    BY <2>1, Damaged
  <2>3. \A x \in held' : IsDocument(x)
    BY <1>2, <2>2, ReadsGood
  <2>4. ASSUME collides = "none", mark \cap Untallied = {},
               mark = {"version-edited"} => doc.findings # <<>>
        PROVE  held' \subseteq {doc}
    <3>1. d.how \notin Untallied /\ (d.how = "version-edited" => doc.findings # <<>>)
      BY <2>1, <2>4
    <3> QED BY <1>2, <2>1, <2>4, <3>1, Damaged
  <2>5. DamageShows'
    BY <1>1, <1>3, <2>4 DEF DamageShows
  <2> QED BY <1>1, <1>3, <1>5, <2>3, <2>5 DEF DocInv, WrittenHolds, ReadsBack
<1> QED BY <1>4, <1>5

LEMMA DocumentStutters ==
    ASSUME DocInv, UNCHANGED documentVars
    PROVE  DocInv'
<1>1. /\ truth' = truth /\ UNCHANGED collides /\ file' = file /\ mark' = mark
      /\ held' = held /\ stage' = stage
  BY DEF documentVars
<1>2. PICK doc : doc = truth
  OBVIOUS
<1>3. \A f : Layout(f, truth) => Layout(f, truth)'
  BY <1>1, <1>2, LayoutKept
<1>4. WrittenHolds'
  BY <1>1, <1>3, DamagesKept DEF DocInv, WrittenHolds
<1>5. IsDocument(truth)' /\ \A d \in held' : IsDocument(d)
  BY <1>1 DEF DocInv
<1> QED BY <1>1, <1>4, <1>5 DEF DocInv, ReadsBack, DamageShows

\* Whatever is written, by this binary or an older one, touched by hand or not,
\* what is held was a document: the invariant of writes and readings.
THEOREM DocumentInvariant == DocumentSpec => []DocInv
<1>1. DocInv /\ [DocumentNext]_documentVars => DocInv'
  BY WritesInv, DamagedInv, ReadsInv, WritesOldInv, DocumentStutters DEF DocumentNext
<1> QED BY <1>1, DocumentInitInv, PTL DEF DocumentSpec

\* A document reads back as it was measured, whichever layout it was written in
\* and however often; a write is refused only for a shared key (internDocument,
\* ParseDocument).
THEOREM ReadsBackAlways == DocumentSpec => []ReadsBack
<1>1. DocInv => ReadsBack
  BY DEF DocInv
<1> QED BY <1>1, DocumentInvariant, PTL

\* A change by hand is refused or changes nothing that is read, but where no
\* count depends on what was lost (expandDocument14, validateFindingEncoding).
THEOREM DamageShowsAlways == DocumentSpec => []DamageShows
<1>1. DocInv => DamageShows
  BY DEF DocInv
<1> QED BY <1>1, DocumentInvariant, PTL

==============================================================================
