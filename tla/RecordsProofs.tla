---------------------------- MODULE RecordsProofs ----------------------------
(***************************************************************************)
(* Proofs about what a record meets after its measurement: its             *)
(* dispositions under reviewers' acts, its siblings under other build      *)
(* selections, an inspection beside other records, the campaigns that      *)
(* serve and extend it; for every set of mutants, reasons, sites,          *)
(* selections, records and campaigns, and any number of steps.             *)
(***************************************************************************)
EXTENDS Ledger, Serving, Selections, Inspection, FiniteSetTheorems, WellFoundedInduction, TLAPS

(***************************************************************************)
(* Dispositions (module Ledger): what a running campaign may do to those   *)
(* reviewers give meanwhile.                                               *)
(***************************************************************************)

Running == phase # "idle"
Before  == phase \in {"prepared", "measured"}

\* A record's dispositions and withdrawals sit at their survivors' sites.
AtItsSite(f, m) ==
    /\ f.att[m] # NoAtt => f.surv[m] = f.att[m].site
    /\ f.wd[m] # NoWd => f.att[m] = NoAtt /\ f.surv[m] = f.wd[m]

\* What a measured record carries comes from the record the run read.
Carry(m) ==
    phase \notin {"idle", "prepared"} /\ fresh.att[m] # NoAtt
        => /\ prior.att[m] # NoAtt
           /\ prior.att[m].reason = fresh.att[m].reason
           /\ Anchors(prior.att[m].site, fresh.surv[m])

\* The survivors the document reports: the run's source before its commit,
\* the run's own after it.
Reported ==
    Running => doc.surv = IF Before THEN prior.surv ELSE fresh.surv

\* A reviewer's act is at the site the document reported at the time.
ActSite(m) ==
    Running /\ acted[m] \in Att
        => acted[m].site \in IF Before THEN {prior.surv[m]}
                             ELSE {prior.surv[m], doc.surv[m]}

\* The document remembers the withdrawal for as long as the run's own record
\* may still bring the disposition back.
WithdrawalKept(m) ==
    Running /\ acted[m] = Withdrew
        => doc.wd[m] # NoWd \/ (~Before /\ fresh.att[m] = NoAtt)

Sound == /\ SitesAgree
         /\ \A m \in Mutants : AtItsSite(prior, m) /\ AtItsSite(fresh, m)
         /\ \A m \in Mutants : Carry(m)
         /\ Reported
         /\ \A m \in Mutants : ActSite(m) /\ WithdrawalKept(m)
         /\ WithdrawalStands
         /\ ReviewerWins

IInv == LedgerTypeOK /\ Sound

------------------------------------------------------------------------------
(* What one merge leaves, mutant by mutant.                                *)

\* A kept or grafted disposition is one, at its survivor's site.
LEMMA MergedAttIs ==
    ASSUME LedgerTypeOK, Sound, NEW m \in Mutants
    PROVE  /\ MergedAtt(m) \in Att \cup {NoAtt}
           /\ MergedAtt(m) # NoAtt => MergedAtt(m).site = fresh.surv[m]
           /\ FreshAtt(m) \in Att \cup {NoAtt}
           /\ Grafts(m) => MergedAtt(m) = [reason |-> doc.att[m].reason,
                                           site   |-> fresh.surv[m]]
<1>1. /\ fresh.att[m] \in Att \cup {NoAtt} /\ doc.att[m] \in Att \cup {NoAtt}
      /\ fresh.surv[m] \in AnySite \cup {Gone}
  BY DEF LedgerTypeOK, Finding
<1>2. NoAtt \notin Att
  BY LedgerAssumption DEF Att, AnySite
<1>3. fresh.att[m] # NoAtt => fresh.surv[m] = fresh.att[m].site
  BY DEF Sound, AtItsSite
<1>4. /\ FreshAtt(m) \in Att \cup {NoAtt}
      /\ FreshAtt(m) # NoAtt => FreshAtt(m).site = fresh.surv[m]
  BY <1>1, <1>2, <1>3 DEF FreshAtt, Anchors, Att
<1>5. ASSUME Grafts(m)
      PROVE  /\ MergedAtt(m) = [reason |-> doc.att[m].reason, site |-> fresh.surv[m]]
             /\ MergedAtt(m) \in Att
  BY <1>1, <1>2, <1>5 DEF MergedAtt, Grafts, Anchors, Att
<1>6. CASE Grafts(m)
  BY <1>4, <1>5, <1>6
<1>7. CASE ~Grafts(m)
  BY <1>4, <1>7 DEF MergedAtt
<1> QED BY <1>6, <1>7

\* So the merged record is a record whose sites agree.
LEMMA MergedIs ==
    ASSUME LedgerTypeOK, Sound
    PROVE  /\ Merged \in Finding
           /\ \A m \in Mutants : AtItsSite(Merged, m)
<1>1. \A m \in Mutants : MergedAtt(m) \in Att \cup {NoAtt}
  BY MergedAttIs
<1>2. fresh.surv \in [Mutants -> AnySite \cup {Gone}]
  BY DEF LedgerTypeOK, Finding
<1>3. \A m \in Mutants : MergedWd(m) \in AnySite \cup {NoWd}
  BY <1>2 DEF MergedWd
<1>4. Merged \in Finding
  BY <1>1, <1>2, <1>3 DEF Merged, Finding
<1>5. ASSUME NEW m \in Mutants
      PROVE  AtItsSite(Merged, m)
  <2>1. /\ Merged.att[m] = MergedAtt(m)
        /\ Merged.wd[m] = MergedWd(m)
        /\ Merged.surv[m] = fresh.surv[m]
    BY DEF Merged
  <2>2. MergedAtt(m) # NoAtt => MergedAtt(m).site = fresh.surv[m]
    BY MergedAttIs
  <2>3. MergedWd(m) # NoWd => MergedAtt(m) = NoAtt /\ MergedWd(m) = fresh.surv[m]
    BY DEF MergedWd
  <2> QED BY <2>1, <2>2, <2>3 DEF AtItsSite
<1> QED BY <1>4, <1>5

\* A withdrawal made during the run survives a merge, or the run's record
\* has nothing left to bring back.
LEMMA MergeHonoursWithdrawal ==
    ASSUME LedgerTypeOK, Sound, phase \in {"measured", "committed"},
           NEW m \in Mutants, acted[m] = Withdrew
    PROVE  /\ MergedAtt(m) = NoAtt
           /\ MergedWd(m) # NoWd \/ fresh.att[m] = NoAtt
<1>1. doc.att[m] = NoAtt
  BY DEF Sound, WithdrawalStands
<1>2. doc.wd[m] # NoWd \/ fresh.att[m] = NoAtt
  BY DEF Sound, WithdrawalKept, Running
<1>3. FreshAtt(m) = NoAtt
  BY <1>1, <1>2 DEF FreshAtt, Sound, Carry
<1>4. MergedAtt(m) = NoAtt
  BY <1>1, <1>3 DEF MergedAtt, Grafts
<1>5. ASSUME fresh.att[m] # NoAtt
      PROVE  MergedWd(m) # NoWd
  <2>1. doc.wd[m] # NoWd /\ doc.surv[m] = doc.wd[m]
    BY <1>2, <1>5 DEF Sound, SitesAgree
  <2>2. /\ prior.att[m] # NoAtt /\ prior.surv[m] = prior.att[m].site
        /\ Anchors(prior.att[m].site, fresh.surv[m])
    BY <1>5 DEF Sound, Carry, AtItsSite
  <2>3. Anchors(doc.wd[m], fresh.surv[m])
    <3>1. CASE phase = "measured"
      BY <2>1, <2>2, <3>1 DEF Sound, Reported, Running, Before
    <3>2. CASE phase = "committed"
      BY <2>1, <2>2, <3>2 DEF Sound, Reported, Running, Before, Anchors
    <3> QED BY <3>1, <3>2
  <2> QED BY <1>4, <2>1, <2>3 DEF MergedWd, Anchors, NoWd
<1> QED BY <1>4, <1>5

\* A reviewer's disposition that is not the one the run started from
\* survives a merge under its reason while its survivor is reported.
LEMMA MergeHonoursReviewer ==
    ASSUME LedgerTypeOK, Sound, phase \in {"measured", "committed"},
           NEW m \in Mutants,
           acted[m] \in Att, Anchors(acted[m].site, fresh.surv[m]),
           acted[m] # prior.att[m]
    PROVE  MergedAtt(m) # NoAtt /\ MergedAtt(m).reason = acted[m].reason
<1>1. /\ fresh.att[m] \in Att \cup {NoAtt} /\ doc.att[m] \in Att \cup {NoAtt}
      /\ prior.att[m] \in Att \cup {NoAtt}
      /\ fresh.surv[m] \in AnySite \cup {Gone} /\ doc.surv[m] \in AnySite \cup {Gone}
  BY DEF LedgerTypeOK, Finding
<1>2. NoAtt \notin Att /\ Gone \notin AnySite
  BY LedgerAssumption DEF Att, AnySite
<1>3. acted[m].site \in IF phase = "measured" THEN {prior.surv[m]}
                        ELSE {prior.surv[m], doc.surv[m]}
  BY DEF Sound, ActSite, Running, Before
<1>4. doc.surv[m] = IF phase = "measured" THEN prior.surv[m] ELSE fresh.surv[m]
  BY DEF Sound, Reported, Running, Before
<1>5. Anchors(acted[m].site, doc.surv[m])
  BY <1>1, <1>2, <1>3, <1>4 DEF Anchors, Att
<1>6. /\ doc.att[m] # NoAtt /\ doc.att[m].reason = acted[m].reason
      /\ doc.surv[m] = doc.att[m].site
  BY <1>5 DEF Sound, ReviewerWins, StillJudged, SitesAgree
<1>7. Anchors(doc.att[m].site, fresh.surv[m])
  BY <1>3, <1>4, <1>6 DEF Anchors
<1>8. doc.att[m] # prior.att[m]
  <2>1. prior.att[m] # NoAtt => prior.surv[m] = prior.att[m].site
    BY DEF Sound, AtItsSite
  <2>2. ASSUME doc.att[m] = prior.att[m]
        PROVE  acted[m] = doc.att[m]
    <3>1. acted[m].site = doc.att[m].site
      BY <1>3, <1>4, <1>6, <2>1, <2>2
    <3> QED BY <1>1, <1>6, <3>1 DEF Att
  <2> QED BY <2>2
<1>9. CASE fresh.att[m] = NoAtt
  <2>1. FreshAtt(m) = NoAtt
    BY <1>9 DEF FreshAtt
  <2>2. Grafts(m)
    BY <1>6, <1>7, <1>8, <2>1 DEF Grafts
  <2>3. MergedAtt(m) = [reason |-> doc.att[m].reason, site |-> fresh.surv[m]]
    BY <2>2, MergedAttIs
  <2>4. MergedAtt(m) \in Att
    BY <1>1, <1>2, <1>6, <1>7, <2>3 DEF Att, Anchors
  <2> QED BY <1>2, <1>6, <2>3, <2>4
<1>10. CASE fresh.att[m] # NoAtt
  <2>1. prior.att[m] # NoAtt /\ prior.att[m].reason = fresh.att[m].reason
    BY <1>10 DEF Sound, Carry
  <2>2. FreshAtt(m) = IF doc.att[m].reason # fresh.att[m].reason
                      THEN [reason |-> doc.att[m].reason, site |-> fresh.surv[m]]
                      ELSE fresh.att[m]
    BY <1>6, <1>7, <1>10, <2>1 DEF FreshAtt
  <2>3. FreshAtt(m) # NoAtt /\ FreshAtt(m).reason = acted[m].reason
    <3>1. FreshAtt(m) \in Att
      BY <1>1, <1>2, <1>6, <1>7, <1>10, <2>2 DEF Att, Anchors
    <3> QED BY <1>2, <1>6, <2>2, <3>1
  <2> QED BY <2>3 DEF MergedAtt, Grafts
<1> QED BY <1>9, <1>10

------------------------------------------------------------------------------
(* Types.                                                                  *)

\* What the run carries over is typed and at the survivors' sites.
LEMMA CarriedIs ==
    ASSUME LedgerTypeOK, NEW surv \in [Mutants -> Sites \cup {Gone}], NEW m \in Mutants
    PROVE  /\ CarriedAtt(surv, m) \in Att \cup {NoAtt}
           /\ CarriedAtt(surv, m) # NoAtt
                => /\ CarriedAtt(surv, m).site = surv[m]
                   /\ CarriedAtt(surv, m).reason = prior.att[m].reason
                   /\ prior.att[m] # NoAtt /\ Anchors(prior.att[m].site, surv[m])
           /\ CarriedWd(surv, m) \in AnySite \cup {NoWd}
           /\ CarriedWd(surv, m) # NoWd
                => CarriedAtt(surv, m) = NoAtt /\ CarriedWd(surv, m) = surv[m]
<1>1. prior.att[m] \in Att \cup {NoAtt} /\ surv[m] \in AnySite \cup {Gone}
  BY DEF LedgerTypeOK, Finding, AnySite
<1>2. CASE prior.att[m] # NoAtt /\ Anchors(prior.att[m].site, surv[m])
  <2>1. CarriedAtt(surv, m) = [reason |-> prior.att[m].reason, site |-> surv[m]]
    BY <1>1, <1>2 DEF CarriedAtt, Att
  <2> QED BY <1>1, <1>2, <2>1 DEF CarriedWd, Att, Anchors
<1>3. CASE ~(prior.att[m] # NoAtt /\ Anchors(prior.att[m].site, surv[m]))
  BY <1>1, <1>3 DEF CarriedAtt, CarriedWd, Anchors
<1> QED BY <1>2, <1>3

\* A reviewer's write leaves a record.
LEMMA ReviewTyped == ASSUME LedgerTypeOK, Review PROVE LedgerTypeOK'
<1> USE DEF LedgerTypeOK
<1>1. PICK m \in Mutants : (\E r \in Reasons : Attest(m, r) \/ Reattest(m, r)) \/ Withdraw(m)
  BY DEF Review
<1>2. /\ doc.att[m] \in Att \cup {NoAtt} /\ doc.surv[m] \in AnySite \cup {Gone}
      /\ doc = [surv |-> doc.surv, att |-> doc.att, wd |-> doc.wd]
  BY DEF Finding
<1>3. acts' \in 0 .. MaxActs /\ UNCHANGED <<phase, prior, fresh, reported, pending, stripped, runs>>
  <2>1. /\ acts < MaxActs /\ acts' = acts + 1
        /\ UNCHANGED <<phase, prior, fresh, reported, pending, stripped, runs>>
    BY <1>1 DEF Act, Attest, Reattest, Withdraw
  <2>2. acts \in Nat /\ MaxActs \in Nat
    BY LedgerAssumption
  <2> QED BY <2>1, <2>2
<1>4. ASSUME NEW r \in Reasons, Attest(m, r)
      PROVE  doc' \in Finding /\ acted' \in [Mutants -> Att \cup {Untouched, Withdrew}]
  <2>1. [reason |-> r, site |-> doc.surv[m]] \in Att
    BY <1>2, <1>4 DEF Attest, Att
  <2> QED BY <1>4, <2>1 DEF Attest, Act, Finding
<1>5. ASSUME NEW r \in Reasons, Reattest(m, r)
      PROVE  doc' \in Finding /\ acted' \in [Mutants -> Att \cup {Untouched, Withdrew}]
  <2>1. [reason |-> r, site |-> doc.surv[m]] \in Att
    BY <1>2, <1>5 DEF Reattest, Att
  <2> QED BY <1>5, <2>1 DEF Reattest, Act, Finding
<1>6. ASSUME Withdraw(m)
      PROVE  doc' \in Finding /\ acted' \in [Mutants -> Att \cup {Untouched, Withdrew}]
  <2>1. (IF doc.surv[m] \in {Gone, NoSite} THEN doc.att[m].site ELSE doc.surv[m]) \in AnySite
    BY <1>2, <1>6 DEF Withdraw, Att
  <2> QED BY <1>6, <2>1 DEF Withdraw, Act, Finding
<1> QED BY <1>1, <1>3, <1>4, <1>5, <1>6

\* Every step keeps the state typed.
LEMMA TypeInvariance == IInv /\ [LedgerNext]_ledgerVars => LedgerTypeOK'
<1> SUFFICES ASSUME LedgerTypeOK, Sound, [LedgerNext]_ledgerVars PROVE LedgerTypeOK'
  BY DEF IInv
<1> USE DEF LedgerTypeOK
<1>1. CASE Review
  BY <1>1, ReviewTyped
<1>2. CASE PrepareTarget
  BY <1>2, LedgerAssumption DEF PrepareTarget, Phases, Untouched
<1>3. ASSUME NEW surv \in [Mutants -> Sites \cup {Gone}], NEW killed \in SUBSET Mutants,
             NEW held \in BOOLEAN, Measure(surv, killed, held)
      PROVE  LedgerTypeOK'
  <2>1. \A m \in Mutants : /\ CarriedAtt(surv, m) \in Att \cup {NoAtt}
                           /\ CarriedWd(surv, m) \in AnySite \cup {NoWd}
    BY CarriedIs
  <2>2. fresh' \in Finding
    BY <1>3, <2>1 DEF Measure, Finding, AnySite
  <2>3. reported' \subseteq Mutants
    BY <1>3 DEF Measure, SiteSheds, Contradictions
  <2> QED BY <1>3, <2>2, <2>3 DEF Measure, Phases
<1>4. ASSUME NEW after \in Phases, MergeInto(after)
      PROVE  LedgerTypeOK'
  <2>1. Merged \in Finding
    BY MergedIs
  <2> QED BY <1>4, <2>1 DEF MergeInto, Shed
<1>5. ASSUME NEW after \in Phases, Deliver(after)
      PROVE  LedgerTypeOK'
  BY <1>5 DEF Deliver
<1>6. {"persisted", "finishing", "committed", "idle"} \subseteq Phases
  BY DEF Phases
<1>7. CASE Abort \/ AbortWritten
  BY <1>6, <1>7 DEF Abort, AbortWritten
<1>8. CASE UNCHANGED ledgerVars
  BY <1>8 DEF ledgerVars
<1> QED
  BY <1>1, <1>2, <1>3, <1>4, <1>5, <1>6, <1>7, <1>8
     DEF LedgerNext, CommitWrite, CommitReturns, FinishWrite, FinishReturns

------------------------------------------------------------------------------
(* Soundness of the dispositions.                                          *)

\* A reviewer's write touches one mutant's disposition, at its survivor.
LEMMA ReviewSound == ASSUME LedgerTypeOK, Sound, Review PROVE Sound'
<1>1. PICK m \in Mutants : (\E r \in Reasons : Attest(m, r) \/ Reattest(m, r)) \/ Withdraw(m)
  BY DEF Review
<1>2. /\ UNCHANGED <<phase, prior, fresh>>
      /\ doc'.surv = doc.surv
      /\ \A n \in Mutants \ {m} : /\ doc'.att[n] = doc.att[n]
                                  /\ doc'.wd[n] = doc.wd[n]
                                  /\ acted'[n] = acted[n]
  <2>1. doc \in Finding /\ acted \in [Mutants -> Att \cup {Untouched, Withdrew}]
    BY DEF LedgerTypeOK
  <2>2. /\ UNCHANGED <<phase, prior, fresh>>
        /\ \A n \in Mutants \ {m} : acted'[n] = acted[n]
    BY <1>1, <2>1 DEF Attest, Reattest, Withdraw, Act
  <2>3. \/ \E a, w : doc' = [doc EXCEPT !.att[m] = a, !.wd[m] = w]
        \/ \E a : doc' = [doc EXCEPT !.att[m] = a]
    BY <1>1 DEF Attest, Reattest, Withdraw
  <2>4. /\ doc'.surv = doc.surv
        /\ \A n \in Mutants \ {m} : doc'.att[n] = doc.att[n] /\ doc'.wd[n] = doc.wd[n]
    BY <2>1, <2>3 DEF Finding
  <2> QED BY <2>2, <2>4
<1>3. /\ doc.att[m] \in Att \cup {NoAtt} /\ doc.surv[m] \in AnySite \cup {Gone}
      /\ NoAtt \notin Att /\ Gone \notin AnySite /\ Withdrew \notin Att \cup {NoAtt}
      /\ doc.wd[m] # NoWd => doc.att[m] = NoAtt
      /\ doc.att[m] # NoAtt => doc.surv[m] = doc.att[m].site
  BY LedgerAssumption DEF LedgerTypeOK, Finding, Att, AnySite, Sound, SitesAgree
\* What the act leaves of its mutant.
<1>4. \/ /\ doc'.att[m] \in Att /\ doc'.att[m].site = doc.surv[m]
         /\ doc'.wd[m] = NoWd /\ acted'[m] = doc'.att[m]
      \/ /\ doc'.att[m] = NoAtt /\ acted'[m] = Withdrew
         /\ doc'.wd[m] = doc.surv[m] /\ doc.surv[m] # NoWd
  <2>1. ASSUME NEW r \in Reasons, Attest(m, r) \/ Reattest(m, r)
        PROVE  /\ doc'.att[m] \in Att /\ doc'.att[m].site = doc.surv[m]
               /\ doc'.wd[m] = NoWd /\ acted'[m] = doc'.att[m]
    <3>1. [reason |-> r, site |-> doc.surv[m]] \in Att
      BY <1>3, <2>1 DEF Attest, Reattest, Att
    <3>2. CASE Attest(m, r)
      BY <3>1, <3>2 DEF Attest, Act, LedgerTypeOK, Finding
    <3>3. CASE Reattest(m, r)
      BY <1>3, <3>1, <3>3 DEF Reattest, Act, LedgerTypeOK, Finding
    <3> QED BY <2>1, <3>2, <3>3
  <2>2. ASSUME Withdraw(m)
        PROVE  /\ doc'.att[m] = NoAtt /\ acted'[m] = Withdrew
               /\ doc'.wd[m] = doc.surv[m] /\ doc.surv[m] # NoWd
    BY <1>3, <2>2 DEF Withdraw, Act, LedgerTypeOK, Finding, NoWd, Att
  <2> QED BY <1>1, <2>1, <2>2
<1>5. SitesAgree'
  BY <1>2, <1>3, <1>4 DEF Sound, SitesAgree
<1>6. \A n \in Mutants : AtItsSite(prior, n)' /\ AtItsSite(fresh, n)' /\ Carry(n)'
  BY <1>2 DEF Sound, AtItsSite, Carry
<1>7. Reported'
  BY <1>2 DEF Sound, Reported, Running, Before
<1>8. ASSUME NEW n \in Mutants
      PROVE  ActSite(n)' /\ WithdrawalKept(n)'
  <2>1. CASE n = m
    <3>1. Running => doc.surv[m] = IF Before THEN prior.surv[m] ELSE fresh.surv[m]
      BY DEF Sound, Reported
    <3>2. ActSite(m)'
      BY <1>2, <1>3, <1>4, <3>1 DEF ActSite, Running, Before
    <3>3. WithdrawalKept(m)'
      BY <1>2, <1>3, <1>4 DEF WithdrawalKept, Running, Before
    <3> QED BY <2>1, <3>2, <3>3
  <2>2. CASE n # m
    BY <1>2, <2>2 DEF Sound, ActSite, WithdrawalKept, Running, Before
  <2> QED BY <2>1, <2>2
<1>9. WithdrawalStands'
  BY <1>2, <1>3, <1>4 DEF Sound, WithdrawalStands
<1>10. ReviewerWins'
  BY <1>2, <1>3, <1>4 DEF Sound, ReviewerWins, StillJudged
<1> QED BY <1>5, <1>6, <1>7, <1>8, <1>9, <1>10 DEF Sound

\* A merge keeps the sites in agreement and honours the reviewers.
LEMMA MergeSound ==
    ASSUME LedgerTypeOK, Sound, phase \in {"measured", "committed"},
           NEW after \in {"persisted", "finishing"}, MergeInto(after)
    PROVE  Sound'
<1>1. /\ UNCHANGED <<prior, fresh, acted>> /\ phase' = after
      /\ doc'.surv = fresh.surv
      /\ \A m \in Mutants : doc'.att[m] = MergedAtt(m) /\ doc'.wd[m] = MergedWd(m)
  BY DEF MergeInto, Merged
<1>2. SitesAgree'
  BY <1>1, MergedIs DEF SitesAgree, AtItsSite, Merged, MergeInto
<1>3. \A m \in Mutants : AtItsSite(prior, m)' /\ AtItsSite(fresh, m)'
  BY <1>1 DEF Sound, AtItsSite
<1>4. \A m \in Mutants : Carry(m)'
  BY <1>1 DEF Sound, Carry
<1>5. Reported'
  BY <1>1 DEF Reported, Before
<1>6. ASSUME NEW m \in Mutants
      PROVE  ActSite(m)'
  <2>1. doc.surv[m] = IF phase = "measured" THEN prior.surv[m] ELSE fresh.surv[m]
    BY DEF Sound, Reported, Running, Before
  <2>2. acted[m] \in Att => acted[m].site \in {prior.surv[m], fresh.surv[m]}
    BY <2>1 DEF Sound, ActSite, Running, Before
  <2> QED BY <1>1, <2>2 DEF ActSite, Before
<1>7. ASSUME NEW m \in Mutants
      PROVE  WithdrawalKept(m)' /\ (acted'[m] = Withdrew => doc'.att[m] = NoAtt)
  BY <1>1, MergeHonoursWithdrawal DEF WithdrawalKept, Before
<1>8. ReviewerWins'
  BY <1>1, MergeHonoursReviewer DEF ReviewerWins, StillJudged
<1> QED BY <1>2, <1>3, <1>4, <1>5, <1>6, <1>7, <1>8 DEF Sound, WithdrawalStands

\* What a measurement carries is at its survivors' sites.
LEMMA MeasureSound ==
    ASSUME LedgerTypeOK, Sound, NEW surv \in [Mutants -> Sites \cup {Gone}],
           NEW killed \in SUBSET Mutants, NEW held \in BOOLEAN,
           Measure(surv, killed, held)
    PROVE  Sound'
<1>1. /\ phase = "prepared" /\ phase' = "measured"
      /\ UNCHANGED <<doc, prior, acted>>
  BY DEF Measure
<1>2. ASSUME NEW m \in Mutants
      PROVE  /\ fresh'.surv[m] = surv[m]
             /\ fresh'.att[m] = IF held THEN CarriedAtt(surv, m) ELSE NoAtt
             /\ fresh'.wd[m] = IF held THEN CarriedWd(surv, m) ELSE NoWd
  BY DEF Measure
<1>3. ASSUME NEW m \in Mutants
      PROVE  AtItsSite(fresh, m)' /\ Carry(m)'
  BY <1>1, <1>2, CarriedIs DEF AtItsSite, Carry
<1>4. SitesAgree' /\ WithdrawalStands' /\ ReviewerWins'
  BY <1>1 DEF Sound, SitesAgree, WithdrawalStands, ReviewerWins, StillJudged
<1>5. \A m \in Mutants : AtItsSite(prior, m)'
  BY <1>1 DEF Sound, AtItsSite
<1>6. Reported'
  BY <1>1 DEF Sound, Reported, Running, Before
<1>7. \A m \in Mutants : ActSite(m)' /\ WithdrawalKept(m)'
  BY <1>1 DEF Sound, ActSite, WithdrawalKept, Running, Before
<1> QED BY <1>3, <1>4, <1>5, <1>6, <1>7 DEF Sound

\* Every step keeps the dispositions sound.
LEMMA SoundInvariance == IInv /\ [LedgerNext]_ledgerVars => Sound'
<1> SUFFICES ASSUME LedgerTypeOK, Sound, [LedgerNext]_ledgerVars PROVE Sound'
  BY DEF IInv
<1>1. CASE Review
  BY <1>1, ReviewSound
<1>2. CASE PrepareTarget
  <2>1. \A m \in Mutants : acted'[m] = NoAtt /\ NoAtt \notin Att /\ NoAtt # Withdrew
    BY <1>2, LedgerAssumption DEF PrepareTarget, Untouched, Att, AnySite
  <2>2. /\ phase' = "prepared" /\ prior' = doc /\ UNCHANGED <<doc, fresh>>
    BY <1>2 DEF PrepareTarget
  <2>3. SitesAgree' /\ (\A m \in Mutants : AtItsSite(prior, m)' /\ AtItsSite(fresh, m)' /\ Carry(m)')
    BY <2>2 DEF Sound, SitesAgree, AtItsSite, Carry
  <2>4. Reported'
    BY <2>2 DEF Reported, Before
  <2> QED BY <2>1, <2>3, <2>4
          DEF Sound, ActSite, WithdrawalKept, WithdrawalStands, ReviewerWins, StillJudged
<1>3. ASSUME NEW surv \in [Mutants -> Sites \cup {Gone}], NEW killed \in SUBSET Mutants,
             NEW held \in BOOLEAN, Measure(surv, killed, held)
      PROVE  Sound'
  BY <1>3, MeasureSound
<1>4. CASE CommitWrite \/ FinishWrite
  BY <1>4, MergeSound DEF CommitWrite, FinishWrite
<1>5. CASE CommitReturns \/ FinishReturns \/ Abort \/ AbortWritten \/ UNCHANGED ledgerVars
  <2>1. /\ UNCHANGED <<doc, prior, fresh, acted>>
        /\ \/ phase' \in {"idle", phase}
           \/ phase = "persisted" /\ phase' = "committed"
    BY <1>5 DEF CommitReturns, FinishReturns, Deliver, Abort, AbortWritten, ledgerVars
  <2>2. SitesAgree' /\ WithdrawalStands' /\ ReviewerWins'
    BY <2>1 DEF Sound, SitesAgree, WithdrawalStands, ReviewerWins, StillJudged
  <2>3. \A m \in Mutants : AtItsSite(prior, m)' /\ AtItsSite(fresh, m)'
    BY <2>1 DEF Sound, AtItsSite
  <2>4. \A m \in Mutants : Carry(m)'
    <3>1. phase' \notin {"idle", "prepared"} => phase \notin {"idle", "prepared"}
      BY <2>1
    <3> QED BY <2>1, <3>1 DEF Sound, Carry
  <2>5. Running' => Running /\ (Before' <=> Before)
    BY <2>1 DEF Running, Before
  <2>6. Reported' /\ (\A m \in Mutants : ActSite(m)' /\ WithdrawalKept(m)')
    BY <2>1, <2>5 DEF Sound, Reported, ActSite, WithdrawalKept
  <2> QED BY <2>2, <2>3, <2>4, <2>6 DEF Sound
<1> QED BY <1>1, <1>2, <1>3, <1>4, <1>5 DEF LedgerNext

LEMMA InitSound == LedgerInit => IInv
<1> SUFFICES ASSUME LedgerInit PROVE IInv
  OBVIOUS
<1>1. NoFinding \in Finding /\ doc \in Finding
  BY DEF LedgerInit, NoFinding, Finding, NoWd
<1>2. LedgerTypeOK
  BY <1>1, LedgerAssumption DEF LedgerInit, LedgerTypeOK, Phases, Untouched
<1>3. SitesAgree
  BY DEF LedgerInit, SitesAgree
<1>4. \A m \in Mutants : AtItsSite(prior, m) /\ AtItsSite(fresh, m) /\ Carry(m)
  BY DEF LedgerInit, NoFinding, AtItsSite, Carry, NoWd
<1>5. \A m \in Mutants : acted[m] # Withdrew /\ acted[m] \notin Att
  BY LedgerAssumption DEF LedgerInit, Untouched, Att, AnySite
<1> QED
  BY <1>2, <1>3, <1>4, <1>5
     DEF LedgerInit, IInv, Sound, Reported, Running, ActSite, WithdrawalKept,
         WithdrawalStands, ReviewerWins, StillJudged

LEMMA Invariance == LedgerSpec => []IInv
<1>1. IInv /\ [LedgerNext]_ledgerVars => IInv'
  BY TypeInvariance, SoundInvariance DEF IInv
<1> QED BY InitSound, <1>1, PTL DEF LedgerSpec

\* Type correctness of the ledger, the document and the reviewers' acts.
THEOREM LedgerTypeCorrect == LedgerSpec => []LedgerTypeOK
<1>1. IInv => LedgerTypeOK
  BY DEF IInv
<1> QED BY Invariance, <1>1, PTL

\* No carry, adoption or graft of graftDispositionsAgainst leaves a
\* disposition at a site its survivor does not have.
THEOREM DispositionsSitOnSurvivors == LedgerSpec => []SitesAgree
<1>1. IInv => SitesAgree
  BY DEF IInv, Sound
<1> QED BY Invariance, <1>1, PTL

\* The two merges of a run never bring a disposition back that a reviewer
\* withdrew while the run measured.
THEOREM WithdrawalsStand == LedgerSpec => []WithdrawalStands
<1>1. IInv => WithdrawalStands
  BY DEF IInv, Sound
<1> QED BY Invariance, <1>1, PTL

\* A reviewer's disposition other than the one the run started from outlives
\* both merges, under its reason.
THEOREM ReviewersWin == LedgerSpec => []ReviewerWins
<1>1. IInv => ReviewerWins
  BY DEF IInv, Sound
<1> QED BY Invariance, <1>1, PTL

------------------------------------------------------------------------------
(* The reports.                                                            *)

\* A strip is told or its shed is at hand, and no shed is at hand when a
\* merge begins.
StripTold ==
    /\ stripped \subseteq reported \cup pending
    /\ phase \in {"prepared", "measured", "committed"} => pending = {}
    /\ phase = "prepared" => stripped = {}

\* Every strip of the run is told by the time it is over, or is a shed of
\* the write that landed and failed.
THEOREM StripsTold == LedgerSpec => []StripsAccounted
<1>1. LedgerInit => StripTold
  BY DEF LedgerInit, StripTold
<1>2. IInv /\ StripTold /\ [LedgerNext]_ledgerVars => StripTold'
  <2> SUFFICES ASSUME LedgerTypeOK, Sound, StripTold, [LedgerNext]_ledgerVars PROVE StripTold'
    BY DEF IInv
  <2>1. CASE Review
    BY <2>1 DEF Review, Attest, Reattest, Withdraw, Act, StripTold
  <2>2. CASE PrepareTarget
    BY <2>2 DEF PrepareTarget, StripTold
  <2>3. ASSUME NEW surv \in [Mutants -> Sites \cup {Gone}], NEW killed \in SUBSET Mutants,
               NEW held \in BOOLEAN, Measure(surv, killed, held)
        PROVE  StripTold'
    BY <2>3 DEF Measure, StripTold
  <2>4. ASSUME NEW after \in {"persisted", "finishing"}, MergeInto(after),
               phase \in {"measured", "committed"}
        PROVE  StripTold'
    <3>1. ASSUME NEW m \in Mutants, doc.att[m] # NoAtt, Merged.att[m] = NoAtt
          PROVE  m \in Shed
      <4>1. MergedAtt(m) = NoAtt
        BY <3>1 DEF Merged
      <4>2. ~Grafts(m)
        <5>1. Grafts(m) => MergedAtt(m) # NoAtt
          BY LedgerAssumption, MergedAttIs DEF Grafts, MergedAtt, Anchors, Att, AnySite,
             LedgerTypeOK, Finding
        <5> QED BY <4>1, <5>1
      <4>3. FreshAtt(m) = NoAtt
        BY <4>1, <4>2 DEF MergedAtt
      <4> QED BY <3>1, <4>2, <4>3 DEF Shed
    <3>2. stripped \subseteq reported
      BY <2>4 DEF StripTold
    <3> QED BY <2>4, <3>1, <3>2 DEF MergeInto, StripTold
  <2>5. CASE CommitReturns \/ FinishReturns
    BY <2>5 DEF CommitReturns, FinishReturns, Deliver, StripTold
  <2>6. CASE Abort \/ AbortWritten \/ UNCHANGED ledgerVars
    BY <2>6 DEF Abort, AbortWritten, StripTold, ledgerVars
  <2> QED BY <2>1, <2>2, <2>3, <2>4, <2>5, <2>6 DEF LedgerNext, CommitWrite, FinishWrite
<1>3. StripTold => StripsAccounted
  BY DEF StripTold, StripsAccounted
<1> QED BY Invariance, <1>1, <1>2, <1>3, PTL DEF LedgerSpec

------------------------------------------------------------------------------
(***************************************************************************)
(* Build selections: no step under one selection changes what another's    *)
(* record measured.                                                        *)
(***************************************************************************)

\* The document's records of the symbol, or what a run read of them.
RowDocuments == [Selections -> {NoneSuch} \cup Row]

SelectionsTypeOK ==
    /\ rows \in RowDocuments
    /\ body \in Bodies
    /\ running \in {NoneSuch} \cup [sel : Selections, read : RowDocuments]

------------------------------------------------------------------------------
(* The notes.                                                              *)

LEMMA NotesTyped ==
    ASSUME NEW rs \in RowDocuments, NEW s \in Selections
    PROVE  NotesOn(rs, s) \in [Points -> SUBSET [by : Selections, says : Says]]
<1>1. ASSUME NEW p \in Points, NEW o \in Selections, Speaks(rs, s, o, p)
      PROVE  rs[o].fate[p] \in Says
  <2>1. rs[o] \in Row
    BY <1>1 DEF Speaks, Held, RowDocuments
  <2>2. rs[o].fate[p] \in Fates
    BY <2>1 DEF Row
  <2> QED BY <1>1, <2>2 DEF Speaks, Fates
<1>2. ASSUME NEW p \in Points
      PROVE  {[by |-> o, says |-> rs[o].fate[p]] :
                  o \in {t \in Selections : Speaks(rs, s, t, p)}}
             \in SUBSET [by : Selections, says : Says]
  BY <1>1
<1> QED BY <1>2 DEF NotesOn

LEMMA AnnotatedTyped ==
    ASSUME NEW rs \in RowDocuments
    PROVE  Annotated(rs) \in RowDocuments
<1>1. CASE Cardinality(Held(rs)) < 2
  BY <1>1 DEF Annotated
<1>2. CASE ~(Cardinality(Held(rs)) < 2)
  <2>1. ASSUME NEW s \in Selections, rs[s] # NoneSuch
        PROVE  [rs[s] EXCEPT !.notes = NotesOn(rs, s)] \in Row
    <3>1. rs[s] \in Row
      BY <2>1 DEF RowDocuments
    <3> QED BY <3>1, NotesTyped DEF Row
  <2> QED BY <1>2, <2>1 DEF Annotated, RowDocuments
<1> QED BY <1>1, <1>2

\* Noting changes nothing of what was measured.
LEMMA AnnotatedKeeps ==
    ASSUME NEW rs \in RowDocuments, NEW s \in Selections
    PROVE  Own(Annotated(rs)[s]) = Own(rs[s])
<1>1. CASE Cardinality(Held(rs)) < 2
  BY <1>1 DEF Annotated
<1>2. CASE ~(Cardinality(Held(rs)) < 2)
  <2>1. CASE rs[s] = NoneSuch
    BY <1>2, <2>1 DEF Annotated
  <2>2. CASE rs[s] # NoneSuch
    <3> DEFINE r == [rs[s] EXCEPT !.notes = NotesOn(rs, s)]
    <3>1. rs[s] \in Row
      BY <2>2 DEF RowDocuments
    <3>2. r \in Row
      BY <3>1, NotesTyped DEF Row
    <3>3. r # NoneSuch
      BY <3>2, SelectionsAssumption
    <3>4. r.body = rs[s].body /\ r.fate = rs[s].fate
      BY <3>1 DEF Row
    <3>5. Annotated(rs)[s] = r
      BY <1>2, <2>2 DEF Annotated
    <3> HIDE DEF r
    <3> QED BY <2>2, <3>3, <3>4, <3>5 DEF Own
  <2> QED BY <2>1, <2>2
<1> QED BY <1>1, <1>2

------------------------------------------------------------------------------
(* What the writes would leave.                                            *)

LEMMA RemeasuredTyped ==
    ASSUME SelectionsTypeOK, NEW earlier \in {NoneSuch} \cup Row,
           NEW fate \in [Points -> {"killed", "survived", "absent"}]
    PROVE  Remeasured(fate, earlier) \in Row
<1>1. ASSUME NEW p \in Points
      PROVE  (IF /\ fate[p] = "survived" /\ earlier # NoneSuch
                 /\ earlier.body = body /\ earlier.fate[p] \in Attested
              THEN earlier.fate[p] ELSE fate[p]) \in Fates
  BY DEF Fates, Says
<1>2. NoNotes \in [Points -> SUBSET [by : Selections, says : Says]]
  BY DEF NoNotes
<1> QED BY <1>1, <1>2 DEF Remeasured, Row, SelectionsTypeOK

\* What a record becomes when it alone changes and all are noted again.
LEMMA OneChanges ==
    ASSUME NEW rs \in RowDocuments, NEW s \in Selections,
           NEW r \in {NoneSuch} \cup Row
    PROVE  /\ [rs EXCEPT ![s] = r] \in RowDocuments
           /\ Annotated([rs EXCEPT ![s] = r]) \in RowDocuments
           /\ \A t \in Selections \ {s} :
                  Own(Annotated([rs EXCEPT ![s] = r])[t]) = Own(rs[t])
<1> DEFINE later == [rs EXCEPT ![s] = r]
<1>1. later \in RowDocuments
  BY DEF RowDocuments
<1>2. \A t \in Selections \ {s} : later[t] = rs[t]
  BY DEF RowDocuments
<1> HIDE DEF later
<1>3. Annotated(later) \in RowDocuments
  BY <1>1, AnnotatedTyped
<1>4. \A t \in Selections \ {s} : Own(Annotated(later)[t]) = Own(rs[t])
  BY <1>1, <1>2, AnnotatedKeeps
<1> QED BY <1>1, <1>3, <1>4 DEF later

\* A write leaves what it was given or what there was.
LEMMA WriteKeeps ==
    ASSUME SelectionsTypeOK, NEW later \in RowDocuments, NEW s \in Selections, NEW what,
           Write(later, what),
           \A t \in Selections \ {s} : Own(later[t]) = Own(rows[t])
    PROVE  /\ rows' \in RowDocuments
           /\ \A t \in Selections \ {s} : Own(rows'[t]) = Own(rows[t])
<1>1. rows' = later \/ rows' = rows
  BY DEF Write
<1> QED BY <1>1 DEF SelectionsTypeOK

------------------------------------------------------------------------------
(* The steps.                                                              *)

\* The step form of SelectionsApart.
Apart ==
    \A s \in Selections : Own(rows'[s]) # Own(rows[s]) =>
        \/ named' = s
        \/ named' = NoneSuch /\ (s = Default \/ Held(rows) = {s})

\* A step whose write is about the selection it is asked for.
LEMMA NamedWrites ==
    ASSUME SelectionsTypeOK, NEW later \in RowDocuments, NEW s \in Selections, NEW what,
           Write(later, what), named' = s,
           \A t \in Selections \ {s} : Own(later[t]) = Own(rows[t]),
           UNCHANGED body, running' \in {NoneSuch, running}
    PROVE  SelectionsTypeOK' /\ Apart
<1>1. /\ rows' \in RowDocuments
      /\ \A t \in Selections \ {s} : Own(rows'[t]) = Own(rows[t])
  BY WriteKeeps
<1>2. SelectionsTypeOK'
  BY <1>1 DEF SelectionsTypeOK
<1>3. Apart
  BY <1>1 DEF Apart
<1> QED BY <1>2, <1>3

LEMMA BeginsApart ==
    ASSUME SelectionsTypeOK, NEW s \in Selections, Begins(s)
    PROVE  SelectionsTypeOK' /\ Apart
<1>1. Annotated(rows) \in RowDocuments
  BY AnnotatedTyped DEF SelectionsTypeOK
<1>2. SelectionsTypeOK'
  BY <1>1 DEF Begins, SelectionsTypeOK
<1>3. Apart
  BY DEF Begins, Apart
<1> QED BY <1>2, <1>3

LEMMA CommitsApart ==
    ASSUME SelectionsTypeOK, Commits
    PROVE  SelectionsTypeOK' /\ Apart
<1> DEFINE s == running.sel
<1>1. running \in [sel : Selections, read : RowDocuments]
  BY DEF Commits, SelectionsTypeOK
<1>2. s \in Selections /\ running.read \in RowDocuments
  BY <1>1
<1>3. PICK fate \in [Points -> {"killed", "survived", "absent"}] :
          Write(Annotated([rows EXCEPT ![s] =
                    Annotated([running.read EXCEPT ![s] = Remeasured(fate, rows[s])])[s]]),
                "measure")
  BY DEF Commits
<1> DEFINE f == Annotated([running.read EXCEPT ![s] = Remeasured(fate, rows[s])])[s]
<1> HIDE DEF s
<1>4. Remeasured(fate, rows[s]) \in Row
  BY <1>2, RemeasuredTyped DEF SelectionsTypeOK, RowDocuments
<1>5. f \in {NoneSuch} \cup Row
  <2>1. Annotated([running.read EXCEPT ![s] = Remeasured(fate, rows[s])]) \in RowDocuments
    BY <1>2, <1>4, OneChanges
  <2> QED BY <2>1, <1>2 DEF RowDocuments
<1> DEFINE later == Annotated([rows EXCEPT ![s] = f])
<1>6. /\ later \in RowDocuments
      /\ \A t \in Selections \ {s} : Own(later[t]) = Own(rows[t])
  <2> HIDE DEF f
  <2> QED BY <1>2, <1>5, OneChanges DEF SelectionsTypeOK
<1>7. Write(later, "measure")
  BY <1>3
<1>8. named' = s /\ UNCHANGED body /\ running' \in {NoneSuch, running}
  BY DEF Commits, s
<1> HIDE DEF later
<1> QED BY <1>2, <1>6, <1>7, <1>8, NamedWrites

LEMMA DetachesApart ==
    ASSUME SelectionsTypeOK, Detaches
    PROVE  SelectionsTypeOK' /\ Apart
<1> DEFINE s    == running.sel
           later == Annotated([Annotated(rows) EXCEPT ![s] = NoneSuch])
<1>1. running \in [sel : Selections, read : RowDocuments]
  BY DEF Detaches, SelectionsTypeOK
<1>2. s \in Selections
  BY <1>1
<1>3. Write(later, "detach") /\ named' = s /\ UNCHANGED body /\ running' \in {NoneSuch, running}
  BY DEF Detaches
<1> HIDE DEF s
<1>4. /\ Annotated(rows) \in RowDocuments
      /\ \A t \in Selections : Own(Annotated(rows)[t]) = Own(rows[t])
  BY AnnotatedTyped, AnnotatedKeeps DEF SelectionsTypeOK
<1>5. /\ later \in RowDocuments
      /\ \A t \in Selections \ {s} : Own(later[t]) = Own(Annotated(rows)[t])
  BY <1>2, <1>4, OneChanges
<1> HIDE DEF later
<1> QED BY <1>2, <1>3, <1>4, <1>5, NamedWrites

LEMMA PrunesApart ==
    ASSUME SelectionsTypeOK, NEW s \in Selections, Prunes(s)
    PROVE  SelectionsTypeOK' /\ Apart
<1> DEFINE later == [rows EXCEPT ![s] = NoneSuch]
<1>1. /\ later \in RowDocuments
      /\ \A t \in Selections \ {s} : Own(later[t]) = Own(rows[t])
  BY DEF SelectionsTypeOK, RowDocuments
<1>2. Write(later, "prune") /\ named' = s /\ UNCHANGED body /\ running' \in {NoneSuch, running}
  BY DEF Prunes
<1> HIDE DEF later
<1> QED BY <1>1, <1>2, NamedWrites

\* A disposition meets the record it names, the undeclared one or the only one.
LEMMA AddressedOne ==
    ASSUME NEW asked \in Selections \cup {NoneSuch}, NEW s \in Addressed(asked)
    PROVE  /\ s \in Held(rows)
           /\ asked = s \/ (asked = NoneSuch /\ (s = Default \/ Held(rows) = {s}))
<1>1. CASE asked # NoneSuch
  BY <1>1 DEF Addressed
<1>2. CASE asked = NoneSuch /\ Default \in Held(rows)
  BY <1>2 DEF Addressed
<1>3. CASE asked = NoneSuch /\ Default \notin Held(rows)
  <2>1. Cardinality(Held(rows)) = 1 /\ s \in Held(rows)
    BY <1>3 DEF Addressed
  <2>2. IsFiniteSet(Held(rows))
    BY SelectionsAssumption, FS_Subset DEF Held
  <2>3. Held(rows) = {s}
    BY <2>1, <2>2, FS_Singleton
  <2> QED BY <1>3, <2>1, <2>3
<1> QED BY <1>1, <1>2, <1>3

LEMMA DisposesApart ==
    ASSUME SelectionsTypeOK, NEW asked \in Selections \cup {NoneSuch},
           NEW p \in Points, NEW fate \in Attested \cup {"survived"},
           Disposes(asked, p, fate)
    PROVE  SelectionsTypeOK' /\ Apart
<1>1. PICK s \in Addressed(asked) :
          \E what : Write(Annotated([rows EXCEPT ![s].fate[p] = fate]), what)
  BY DEF Disposes
<1>2. PICK what : Write(Annotated([rows EXCEPT ![s].fate[p] = fate]), what)
  BY <1>1
<1>3. s \in Selections /\ rows[s] \in Row
  BY AddressedOne DEF Held, SelectionsTypeOK, RowDocuments
<1> DEFINE r    == [rows[s] EXCEPT !.fate[p] = fate]
           later == Annotated([rows EXCEPT ![s] = r])
<1>4. r \in Row
  BY <1>3 DEF Row, Fates, Says, Attested
<1>5. [rows EXCEPT ![s].fate[p] = fate] = [rows EXCEPT ![s] = r]
  BY <1>3 DEF SelectionsTypeOK, RowDocuments
<1> HIDE DEF r
<1>6. /\ later \in RowDocuments
      /\ \A t \in Selections \ {s} : Own(later[t]) = Own(rows[t])
  <2>1. rows \in RowDocuments
    BY DEF SelectionsTypeOK
  <2> QED BY <1>3, <1>4, <2>1, OneChanges
<1>7. Write(later, what)
  BY <1>2, <1>5
<1>8. named' = asked /\ UNCHANGED <<body, running>>
  BY DEF Disposes
<1> HIDE DEF later
<1>9. /\ rows' \in RowDocuments
      /\ \A t \in Selections \ {s} : Own(rows'[t]) = Own(rows[t])
  BY <1>3, <1>6, <1>7, WriteKeeps
<1>10. asked = s \/ (asked = NoneSuch /\ (s = Default \/ Held(rows) = {s}))
  BY AddressedOne
<1>11. SelectionsTypeOK'
  BY <1>8, <1>9 DEF SelectionsTypeOK
<1>12. Apart
  BY <1>8, <1>9, <1>10 DEF Apart
<1> QED BY <1>11, <1>12

LEMMA StepApart ==
    ASSUME SelectionsTypeOK, [SelectionsNext]_selectionVars
    PROVE  SelectionsTypeOK' /\ Apart
<1>1. ASSUME NEW s \in Selections, Begins(s) PROVE SelectionsTypeOK' /\ Apart
  BY <1>1, BeginsApart
<1>2. ASSUME NEW s \in Selections, Prunes(s) PROVE SelectionsTypeOK' /\ Apart
  BY <1>2, PrunesApart
<1>3. CASE Commits
  BY <1>3, CommitsApart
<1>4. CASE Detaches
  BY <1>4, DetachesApart
<1>5. ASSUME NEW asked \in Selections \cup {NoneSuch}, NEW p \in Points,
             NEW fate \in Attested \cup {"survived"}, Disposes(asked, p, fate)
      PROVE  SelectionsTypeOK' /\ Apart
  BY <1>5, DisposesApart
<1>6. ASSUME NEW b \in Bodies, Rewrites(b) PROVE SelectionsTypeOK' /\ Apart
  BY <1>6 DEF Rewrites, SelectionsTypeOK, Apart
<1>7. CASE UNCHANGED selectionVars
  BY <1>7 DEF selectionVars, SelectionsTypeOK, Apart
<1> QED BY <1>1, <1>2, <1>3, <1>4, <1>5, <1>6, <1>7 DEF SelectionsNext

LEMMA InitTyped == SelectionsInit => SelectionsTypeOK
<1> SUFFICES ASSUME SelectionsInit PROVE SelectionsTypeOK
  OBVIOUS
<1>1. NoNotes \in [Points -> SUBSET [by : Selections, says : Says]]
  BY DEF NoNotes
<1>2. {r \in [body : {body}, admitted : BOOLEAN, fate : [Points -> Fates],
              notes : {NoNotes}] : ~r.admitted} \subseteq Row
  BY <1>1 DEF SelectionsInit, Row
<1> HIDE DEF Row
<1> QED BY <1>2 DEF SelectionsInit, SelectionsTypeOK, RowDocuments

\* Records keep their shape: what a write or a run's reading holds under a
\* selection is a record or none (Finding, src/findings.go).
THEOREM SelectionsTypeCorrect == SelectionsSpec => []SelectionsTypeOK
<1>1. SelectionsTypeOK /\ [SelectionsNext]_selectionVars => SelectionsTypeOK'
  BY StepApart
<1> QED BY <1>1, InitTyped, PTL DEF SelectionsSpec

\* No run, disposition or retirement under one selection changes what
\* another's record measured, however many selections, mutants and writes
\* (MergeWholeFindingsForSelection, AttestFindingWithOptions).
THEOREM StandApart == SelectionsSpec => SelectionsApart
<1>1. SelectionsTypeOK /\ [SelectionsNext]_selectionVars
      => [Apart]_selectionVars
  BY StepApart
<1> QED BY <1>1, SelectionsTypeCorrect, PTL DEF SelectionsSpec, SelectionsApart, Apart

------------------------------------------------------------------------------
(***************************************************************************)
(* One inspection: whatever the trees, the records, their number and the   *)
(* mishaps, a record inspected among others is told what it would be told  *)
(* alone, save for a mishap of its own.                                    *)
(***************************************************************************)

Spoken == {"current", "stale", "unverifiable"}

LEMMA RowsSpeak ==
    ASSUME NEW r \in Pool, NEW s \in {r.target} \cup r.oracle
    PROVE  s \in DOMAIN r.rows /\ r.rows[s] \in Spoken
BY InspectionAssumption DEF Spoken

------------------------------------------------------------------------------
(* Views: one exists only for a subject that can be viewed alone, and does *)
(* when nothing it is built beside is in its way.                          *)

LEMMA ServedViewable ==
    ASSUME NEW S, NEW u, NEW s \in Served(S, u)
    PROVE  Viewable(s)
<1>1. s \in S \ loaded.bare /\ loaded.module[s] \notin loaded.down
  BY DEF Served
<1>2. \/ Loads(Mates(S, loaded.module, s))
      \/ Loads(Mates(S, loaded.pkg, s))
  BY DEF Served
<1>3. s \in Mates(S, loaded.module, s) /\ s \in Mates(S, loaded.pkg, s)
  BY <1>1 DEF Mates
<1>4. s \notin loaded.broken
  BY <1>2, <1>3 DEF Loads
<1> QED BY <1>1, <1>4 DEF Viewable

LEMMA ViewableServed ==
    ASSUME NEW S, \A s \in S : Viewable(s)
    PROVE  S \subseteq Served(S, {})
<1>1. ASSUME NEW s \in S
      PROVE  Loads(Mates(S, loaded.module, s))
  BY DEF Viewable, Loads, Mates
<1> QED BY <1>1 DEF Served, Viewable

------------------------------------------------------------------------------
(* What a record is told.                                                  *)

LEMMA AdmissionCases ==
    ASSUME NEW r
    PROVE  \/ Admission(r) = Fails
           \/ \E state, by : Admission(r) = Concludes(state, by) /\ state \in {"stale", "detached"}
           \/ ~r.shaped /\ Admission(r) = Delta(r)
           \/ ~r.shaped /\ Admission(r) = Undecided({r.target} \cup ValidOracle(r))
           \/ r.shaped /\ Admission(r) = Undecided(ValidOracle(r))
BY DEF Admission, AdmitsShape, AdmitsSymbol

LEMMA JudgedForm ==
    ASSUME NEW r \in Pool, NEW heard,
           \A s \in ValidOracle(r) : heard[s] \in Spoken,
           ~r.shaped => heard[r.target] \in Spoken
    PROVE  \E state \in Spoken : \E by : Judged(r, heard) = Inspected(state, by)
<1> DEFINE unsound == {o \in r.oracle : o \notin loaded.tests \/ heard[o] # "current"}
           first   == Min(unsound)
<1>1. CASE ~r.shaped /\ heard[r.target] # "current"
  BY <1>1 DEF Judged
<1>2. CASE ~(~r.shaped /\ heard[r.target] # "current") /\ unsound # {}
  <2>1. Judged(r, heard) =
            Inspected(IF first \in loaded.tests THEN heard[first] ELSE "stale", {"oracle"})
    BY <1>2 DEF Judged
  <2>2. \E o \in unsound : \A p \in unsound : o <= p
    BY <1>2, InspectionAssumption
  <2>3. first \in unsound
    BY <2>2 DEF Min
  <2>4. (IF first \in loaded.tests THEN heard[first] ELSE "stale") \in Spoken
    BY <2>3 DEF ValidOracle, Spoken
  <2> QED BY <2>1, <2>4
<1>3. CASE ~(~r.shaped /\ heard[r.target] # "current") /\ unsound = {}
  BY <1>3 DEF Judged, Spoken
<1> QED BY <1>1, <1>2, <1>3

\* Only the rows of the target and of the tests that still resolve are read.
LEMMA JudgedReads ==
    ASSUME NEW r \in Pool, NEW heard, NEW others,
           \A s \in ValidOracle(r) : heard[s] = others[s],
           ~r.shaped => heard[r.target] = others[r.target]
    PROVE  Judged(r, heard) = Judged(r, others)
<1>1. {o \in r.oracle : o \notin loaded.tests \/ heard[o] # "current"} =
      {o \in r.oracle : o \notin loaded.tests \/ others[o] # "current"}
  BY DEF ValidOracle
<1> DEFINE unsound == {o \in r.oracle : o \notin loaded.tests \/ heard[o] # "current"}
           first   == Min(unsound)
<1>2. CASE ~r.shaped /\ heard[r.target] # "current"
  BY <1>2 DEF Judged
<1>3. CASE ~(~r.shaped /\ heard[r.target] # "current") /\ unsound # {}
  <2>1. \E o \in unsound : \A p \in unsound : o <= p
    BY <1>3, InspectionAssumption
  <2>2. first \in r.oracle
    BY <2>1 DEF Min
  <2>3. (IF first \in loaded.tests THEN heard[first] ELSE "stale") =
        (IF first \in loaded.tests THEN others[first] ELSE "stale")
    BY <2>2 DEF ValidOracle
  <2>4. Judged(r, heard) =
            Inspected(IF first \in loaded.tests THEN heard[first] ELSE "stale", {"oracle"})
    BY <1>3 DEF Judged
  <2>5. Judged(r, others) =
            Inspected(IF first \in loaded.tests THEN others[first] ELSE "stale", {"oracle"})
    BY <1>1, <1>3 DEF Judged
  <2> QED BY <2>3, <2>4, <2>5
<1>4. CASE ~(~r.shaped /\ heard[r.target] # "current") /\ unsound = {}
  BY <1>1, <1>4 DEF Judged
<1> QED BY <1>2, <1>3, <1>4

Telling(said) ==
    \E state \in Spoken \cup {"detached", "error"} : \E by, m :
        said = [state |-> state, by |-> by, modified |-> m]

LEMMA TellingTold == ASSUME NEW said, Telling(said) PROVE said # Untold
BY DEF Telling, Untold, Inspected, Spoken

\* Naming the edited tests leaves the state and its reason alone, and the last
\* naming stands.
LEMMA NamedKeeps ==
    ASSUME NEW said, Telling(said), NEW tests
    PROVE  /\ Telling(Named(said, tests))
           /\ Named(said, tests).state = said.state
           /\ Named(said, tests).by = said.by
           /\ \A others : Named(Named(said, others), tests) = Named(said, tests)
<1>1. PICK state, by, m :
          /\ state \in Spoken \cup {"detached", "error"}
          /\ said = [state |-> state, by |-> by, modified |-> m]
  BY DEF Telling
<1>2. ASSUME NEW n, NEW T
      PROVE  Named([state |-> state, by |-> by, modified |-> n], T)
             = [state |-> state, by |-> by, modified |-> T]
  BY DEF Named
<1>3. ASSUME NEW others
      PROVE  Named(Named(said, others), tests) = Named(said, tests)
  <2>1. Named(said, others) = [state |-> state, by |-> by, modified |-> others]
    BY <1>1, <1>2
  <2>2. Named(said, tests) = [state |-> state, by |-> by, modified |-> tests]
    BY <1>1, <1>2
  <2> QED BY <1>2, <2>1, <2>2
<1>4. Named(said, tests) = [state |-> state, by |-> by, modified |-> tests]
  BY <1>1, <1>2
<1>5. Telling(Named(said, tests))
  BY <1>1, <1>4 DEF Telling
<1>6. Named(said, tests).state = said.state
  BY <1>1, <1>4
<1>7. Named(said, tests).by = said.by
  BY <1>1, <1>4
<1> QED BY <1>3, <1>5, <1>6, <1>7

LEMMA ErredTells == Telling(Erred)
<1>1. Erred = [state |-> "error", by |-> {}, modified |-> {}]
  BY DEF Erred, Inspected
<1> QED BY <1>1 DEF Telling

\* What an admission decides, it says; what it leaves open, the rows say.
LEMMA DecidedTells ==
    ASSUME NEW r, Admission(r).is = "decided"
    PROVE  Telling(Admission(r).says)
<1>1. ASSUME NEW state, NEW by, Admission(r) = Concludes(state, by),
             state \in {"stale", "detached"}
      PROVE  Telling(Admission(r).says)
  <2>1. Admission(r).says = [state |-> state, by |-> by, modified |-> {}]
    BY <1>1 DEF Concludes, Inspected
  <2> QED BY <1>1, <2>1 DEF Telling, Spoken
<1>2. CASE Admission(r) = Delta(r)
  <2>1. Admission(r).says = [state |-> "stale", by |-> {"oracle"}, modified |-> {}]
    BY <1>2 DEF Delta, Inspected
  <2> QED BY <2>1 DEF Telling, Spoken
<1>3. Admission(r) # Fails /\ \A symbols : Admission(r) # Undecided(symbols)
  BY DEF Fails, Undecided
<1> QED BY <1>1, <1>2, <1>3, AdmissionCases

LEMMA JudgedTells ==
    ASSUME NEW r \in Pool
    PROVE  Telling(Judged(r, r.rows))
<1>1. PICK state, by : state \in Spoken /\ Judged(r, r.rows) = Inspected(state, by)
  <2>1. \A s \in ValidOracle(r) : r.rows[s] \in Spoken
    BY RowsSpeak DEF ValidOracle
  <2>2. r.rows[r.target] \in Spoken
    BY RowsSpeak
  <2> QED BY <2>1, <2>2, JudgedForm
<1>2. Judged(r, r.rows) = [state |-> state, by |-> by, modified |-> {}]
  BY <1>1 DEF Inspected
<1> QED BY <1>1, <1>2 DEF Telling

LEMMA AdmissionSays ==
    ASSUME NEW r
    PROVE  Admission(r).is \in {"decided", "error", "open"}
BY AdmissionCases DEF Concludes, Fails, Undecided, Delta

LEMMA AloneTells ==
    ASSUME NEW r \in Pool
    PROVE  Telling(Alone(r))
<1>1. CASE Admission(r).is = "error"
  BY <1>1, ErredTells DEF Alone
<1>2. CASE Admission(r).is = "decided"
  <2>1. Telling(Admission(r).says)
    BY <1>2, DecidedTells
  <2>2. Alone(r) = IF Admission(r).symbols = {} THEN Admission(r).says
                   ELSE Named(Admission(r).says, IF Viewable(r.target) THEN Modified(r) ELSE {})
    BY <1>2 DEF Alone
  <2> QED BY <2>1, <2>2, NamedKeeps
<1>3. CASE Admission(r).is = "open"
  BY <1>3, ErredTells, JudgedTells DEF Alone
<1> QED BY <1>1, <1>2, <1>3, AdmissionSays

------------------------------------------------------------------------------
(* One record's outcome, from its admission and its views.                 *)

\* The shared views a record may read hold only what can be viewed alone.
Shared(i) == Prebuilt(PackageProcess(batch[i]))

\* The rows a judgment reads are the record's own.
LEMMA OpenJudged ==
    ASSUME NEW i, batch[i] \in Pool,
           admitted[i] = Admission(batch[i]), admitted[i].is = "open"
    PROVE  Judged(batch[i], RowsRead(i)) = Judged(batch[i], batch[i].rows)
<1> DEFINE r == batch[i]
           own == views[PackageProcess(r)] \cup Missing(i)
<1>1. ValidOracle(r) \subseteq admitted[i].symbols
      /\ (~r.shaped => r.target \in admitted[i].symbols)
  BY AdmissionCases DEF Concludes, Fails, Delta, Undecided
<1>2. admitted[i].symbols \subseteq own
  BY DEF Missing, Prebuilt
<1>3. ASSUME NEW s \in admitted[i].symbols, s \in {r.target} \cup r.oracle
      PROVE  RowsRead(i)[s] = r.rows[s]
  BY <1>2, <1>3, RowsSpeak DEF RowsRead
<1>4. \A s \in ValidOracle(r) : RowsRead(i)[s] = r.rows[s]
  BY <1>1, <1>3 DEF ValidOracle
<1>5. ~r.shaped => RowsRead(i)[r.target] = r.rows[r.target]
  BY <1>1, <1>3
<1> QED BY <1>4, <1>5, JudgedReads

LEMMA OutcomeAgrees ==
    ASSUME NEW i, batch[i] \in Pool, NEW unlucky,
           admitted[i] = Admission(batch[i]), admitted[i].is # "error",
           \A s \in Shared(i) : Viewable(s)
    PROVE  /\ Telling(Outcome(i, unlucky))
           /\ \/ Outcome(i, unlucky) = Alone(batch[i])
              \/ /\ unlucky # {}
                 /\ Outcome(i, unlucky) \in {Erred, Named(Alone(batch[i]), {})}
<1> DEFINE r == batch[i]
           viewed == Missing(i) \subseteq Served(Missing(i), unlucky)
           viewable == \A s \in admitted[i].symbols : Viewable(s)
<1>1. viewed => viewable
  BY ServedViewable DEF Missing, Shared
<1>2. unlucky = {} /\ viewable => viewed
  <2>1. viewable => \A s \in Missing(i) : Viewable(s)
    BY DEF Missing
  <2> QED BY <2>1, ViewableServed
<1>3. CASE admitted[i].is = "decided" /\ admitted[i].symbols = {}
  <2>1. Outcome(i, unlucky) = admitted[i].says
    BY <1>3 DEF Outcome
  <2>2. Alone(r) = admitted[i].says
    BY <1>3 DEF Alone
  <2> QED BY <1>3, <2>1, <2>2, DecidedTells
<1>4. CASE admitted[i].is = "decided" /\ admitted[i].symbols # {}
  <2>1. admitted[i].symbols = {r.target}
    BY <1>4, AdmissionCases DEF Concludes, Fails, Delta, Undecided
  <2>2. Outcome(i, unlucky) = Named(admitted[i].says, IF viewed THEN Modified(r) ELSE {})
    BY <1>4 DEF Outcome
  <2>3. Alone(r) = Named(admitted[i].says, IF viewable THEN Modified(r) ELSE {})
    BY <1>4, <2>1 DEF Alone
  <2>4. Telling(admitted[i].says)
    BY <1>4, DecidedTells
  <2>5. Telling(Outcome(i, unlucky))
    BY <2>2, <2>4, NamedKeeps
  <2>6. CASE viewed \/ ~viewable
    BY <1>1, <2>2, <2>3, <2>5, <2>6
  <2>7. CASE ~viewed /\ viewable
    <3>1. unlucky # {}
      BY <1>2, <2>7
    <3>2. Outcome(i, unlucky) = Named(admitted[i].says, {})
      BY <2>2, <2>7
    <3>3. Named(Alone(r), {}) = Named(admitted[i].says, {})
      BY <2>3, <2>4, NamedKeeps
    <3> QED BY <2>5, <3>1, <3>2, <3>3
  <2> QED BY <2>6, <2>7
<1>5. CASE admitted[i].is = "open"
  <2>1. Outcome(i, unlucky) = IF viewed THEN Judged(r, r.rows) ELSE Erred
    BY <1>5, OpenJudged DEF Outcome
  <2>2. Alone(r) = IF viewable THEN Judged(r, r.rows) ELSE Erred
    BY <1>5 DEF Alone
  <2> QED BY <1>1, <1>2, <2>1, <2>2, ErredTells, JudgedTells
<1> QED BY <1>3, <1>4, <1>5, AdmissionSays

------------------------------------------------------------------------------
(* The pass.                                                               *)

Passes == {"admitting", "viewing", "judging", "judged", "told", "failed", "cancelled"}

InspectionTypeOK ==
    /\ batch \in Seq(Pool) /\ next \in DOMAIN batch
    /\ tolerant \in BOOLEAN /\ pass \in Passes
    /\ DOMAIN admitted = DOMAIN batch /\ DOMAIN told = DOMAIN batch
    /\ pass = "viewing" => next = 1

\* The records that have been admitted, and those that have been judged.
Reached(i) == \/ pass = "admitting" /\ i < next
              \/ pass \in {"viewing", "judging", "judged", "told"}
Told(i)    == \/ pass = "judging" /\ i < next
              \/ pass \in {"judged", "told"}

AdmissionsHold ==
    \A i \in DOMAIN batch : Reached(i) =>
        /\ \/ admitted[i] = Admission(batch[i])
           \/ i \in hit /\ admitted[i] = Fails
        /\ admitted[i].is = "error" => told[i] = Erred

ViewsHold == \A p \in BOOLEAN : \A s \in views[p] : Viewable(s)

ToldAgrees ==
    \A i \in DOMAIN batch :
        /\ told[i] # Untold => Agrees(i) /\ Telling(told[i])
        /\ Told(i) => told[i] # Untold
        /\ ~tolerant /\ pass # "failed" => told[i] # Erred

SignpostHolds == \A i \in signposted : OracleCaused(Alone(batch[i]))

InspectionInv ==
    InspectionTypeOK /\ AdmissionsHold /\ ViewsHold /\ ToldAgrees /\ SignpostHolds

LEMMA UntoldApart == Untold # Erred
BY DEF Untold, Erred, Inspected

LEMMA InspectionInitInv == InspectionInit => InspectionInv
<1> SUFFICES ASSUME InspectionInit PROVE InspectionInv
  OBVIOUS
<1>1. PICK n \in 1 .. MaxRecords : batch \in [1 .. n -> Pool]
  BY DEF InspectionInit
<1>2. n \in Nat /\ DOMAIN batch = 1 .. n /\ batch \in Seq(Pool)
  BY <1>1, InspectionAssumption
<1>3. InspectionTypeOK
  BY <1>1, <1>2 DEF InspectionInit, InspectionTypeOK, Passes
<1>4. AdmissionsHold
  BY <1>2 DEF InspectionInit, AdmissionsHold, Reached
<1>5. ViewsHold
  BY DEF InspectionInit, ViewsHold
<1>6. ToldAgrees
  BY UntoldApart DEF InspectionInit, ToldAgrees, Told
<1> QED BY <1>3, <1>4, <1>5, <1>6 DEF InspectionInit, SignpostHolds, InspectionInv

LEMMA OnwardTyped ==
    ASSUME InspectionTypeOK, NEW errs \in BOOLEAN, NEW after \in Passes, Onward(errs, after)
    PROVE  pass' \in Passes /\ next' \in DOMAIN batch
<1>1. Len(batch) \in Nat /\ DOMAIN batch = 1 .. Len(batch) /\ next \in 1 .. Len(batch)
  BY DEF InspectionTypeOK
<1> QED BY <1>1 DEF Onward, Passes, InspectionTypeOK

\* The tree and the records rest, so what each is told alone does.
LEMMA TreeRests ==
    ASSUME UNCHANGED <<loaded, batch>>
    PROVE  /\ \A i : Alone(batch[i])' = Alone(batch[i])
           /\ \A i : Admission(batch[i])' = Admission(batch[i])
           /\ \A s : Viewable(s)' = Viewable(s)
<1>1. \A i : Admission(batch[i])' = Admission(batch[i])
  BY DEF Admission, AdmitsShape, AdmitsSymbol, Concludes, Fails, Undecided, Delta,
         Enriched, Retained, DerivedMoved, ValidOracle, Inspected, Erred, Untold
<1>2. \A i : Judged(batch[i], batch[i].rows)' = Judged(batch[i], batch[i].rows)
  BY DEF Judged, Inspected
<1>3. \A s : Viewable(s)' = Viewable(s)
  BY DEF Viewable
<1>4. \A i : Alone(batch[i])' = Alone(batch[i])
  BY <1>1, <1>2 DEF Alone, Viewable, Named, Modified, Retained
<1> QED BY <1>1, <1>3, <1>4

\* What a step does not tell anew still agrees.
LEMMA AgreesStill ==
    ASSUME UNCHANGED <<loaded, batch>>, hit \subseteq hit',
           NEW i, Agrees(i), told'[i] = told[i]
    PROVE  Agrees(i)'
BY TreeRests DEF Agrees

LEMMA SignpostStill ==
    ASSUME SignpostHolds, UNCHANGED <<loaded, batch, signposted>>
    PROVE  SignpostHolds'
BY TreeRests DEF SignpostHolds, OracleCaused

LEMMA ViewsStill ==
    ASSUME ViewsHold, UNCHANGED <<loaded, batch, views>>
    PROVE  ViewsHold'
BY TreeRests DEF ViewsHold

LEMMA AdmitsKeeps == InspectionInv /\ Admits => InspectionInv'
<1> SUFFICES ASSUME InspectionInv, Admits, NEW n, n = next PROVE InspectionInv'
  OBVIOUS
<1> USE DEF InspectionInv
<1> DEFINE errs == admitted'[n].is = "error"
<1>1. /\ pass = "admitting" /\ Onward(errs, "viewing")
      /\ UNCHANGED <<loaded, batch, tolerant, views, signposted>>
      /\ told' = [told EXCEPT ![n] = IF errs THEN Erred ELSE Untold]
      /\ hit \subseteq hit'
  BY DEF Admits
<1>2. Len(batch) \in Nat /\ DOMAIN batch = 1 .. Len(batch) /\ n \in DOMAIN batch
      /\ DOMAIN admitted = DOMAIN batch /\ DOMAIN told = DOMAIN batch
  BY DEF InspectionTypeOK
<1>3. /\ \/ admitted'[n] = Admission(batch[n])
         \/ n \in hit' /\ admitted'[n] = Fails
      /\ \A i \in DOMAIN batch \ {n} : admitted'[i] = admitted[i]
      /\ DOMAIN admitted' = DOMAIN batch
  BY <1>2 DEF Admits
<1>4. told'[n] = (IF errs THEN Erred ELSE Untold)
      /\ \A i \in DOMAIN batch \ {n} : told'[i] = told[i]
  BY <1>1, <1>2
<1>5. InspectionTypeOK'
  <2>1. pass' = "viewing" => next' = 1
    BY <1>1 DEF Onward
  <2> QED BY <1>1, <1>2, <1>3, <2>1, OnwardTyped DEF InspectionTypeOK, Passes
<1>6. AdmissionsHold'
  <2>1. ASSUME NEW i \in DOMAIN batch, Reached(i)', i # n
        PROVE  Reached(i)
    BY <1>1, <1>2, <2>1 DEF Reached, Onward
  <2>2. ASSUME NEW i \in DOMAIN batch, Reached(i)'
        PROVE  /\ \/ admitted'[i] = Admission(batch[i])'
                  \/ i \in hit' /\ admitted'[i] = Fails
               /\ admitted'[i].is = "error" => told'[i] = Erred
    BY <1>1, <1>3, <1>4, <2>1, <2>2, TreeRests DEF AdmissionsHold
  <2> QED BY <1>1, <2>2 DEF AdmissionsHold
<1>7. ToldAgrees'
  <2>1. ASSUME errs
        PROVE  Agrees(n)'
    <3>1. told'[n] = Erred
      BY <1>4, <2>1
    <3>2. CASE admitted'[n] = Admission(batch[n])
      <4>1. Alone(batch[n]) = Erred
        BY <2>1, <3>2 DEF Alone
      <4> QED BY <1>1, <3>1, <4>1, TreeRests DEF Agrees
    <3>3. CASE n \in hit'
      BY <3>1, <3>3 DEF Agrees
    <3> QED BY <1>3, <3>2, <3>3
  <2>2. ASSUME NEW i \in DOMAIN batch, told'[i] # Untold
        PROVE  Agrees(i)' /\ Telling(told'[i])
    <3>1. CASE i = n
      BY <1>4, <2>1, <2>2, <3>1, ErredTells
    <3>2. CASE i # n
      BY <1>1, <1>4, <2>2, <3>2, AgreesStill DEF ToldAgrees
    <3> QED BY <3>1, <3>2
  <2>3. ASSUME NEW i \in DOMAIN batch, Told(i)'
        PROVE  FALSE
    BY <1>1, <2>3 DEF Told, Onward
  <2>4. ASSUME NEW i \in DOMAIN batch, ~tolerant, pass' # "failed"
        PROVE  told'[i] # Erred
    BY <1>1, <1>4, <2>4, UntoldApart DEF ToldAgrees, Onward
  <2> QED BY <1>1, <2>2, <2>3, <2>4 DEF ToldAgrees
<1> QED BY <1>1, <1>5, <1>6, <1>7, ViewsStill, SignpostStill

LEMMA BuildsViewsKeeps == InspectionInv /\ BuildsViews => InspectionInv'
<1> SUFFICES ASSUME InspectionInv, BuildsViews PROVE InspectionInv'
  OBVIOUS
<1> USE DEF InspectionInv
<1>1. /\ pass = "viewing" /\ pass' = "judging" /\ next' = next
      /\ UNCHANGED <<loaded, batch, tolerant, admitted, told, hit, signposted>>
  BY DEF BuildsViews
<1>2. ViewsHold'
  <2>1. ASSUME NEW p \in BOOLEAN
        PROVE  \E S, u : views'[p] = Served(S, u)
    BY DEF BuildsViews
  <2>2. \A p \in BOOLEAN : \A s \in views'[p] : Viewable(s)
    BY <2>1, ServedViewable
  <2> QED BY <1>1, <2>2, TreeRests DEF ViewsHold
<1>3. InspectionTypeOK'
  BY <1>1 DEF InspectionTypeOK, Passes
<1>4. AdmissionsHold'
  BY <1>1, TreeRests DEF AdmissionsHold, Reached
<1>5. ToldAgrees'
  <2>1. ASSUME NEW i \in DOMAIN batch
        PROVE  ~Told(i)'
    BY <1>1 DEF Told, InspectionTypeOK
  <2>2. ASSUME NEW i \in DOMAIN batch, told[i] # Untold
        PROVE  Agrees(i)' /\ Telling(told[i])
    BY <1>1, <2>2, AgreesStill DEF ToldAgrees
  <2> QED BY <1>1, <2>1, <2>2 DEF ToldAgrees
<1> QED BY <1>1, <1>2, <1>3, <1>4, <1>5, SignpostStill

LEMMA SkipsErredKeeps == InspectionInv /\ SkipsErred => InspectionInv'
<1> SUFFICES ASSUME InspectionInv, SkipsErred, NEW n, n = next PROVE InspectionInv'
  OBVIOUS
<1> USE DEF InspectionInv
<1>1. /\ pass = "judging" /\ admitted[n].is = "error" /\ Onward(FALSE, "judged")
      /\ UNCHANGED <<loaded, batch, tolerant, admitted, views, told, hit, signposted>>
  BY DEF SkipsErred
<1>2. Len(batch) \in Nat /\ DOMAIN batch = 1 .. Len(batch) /\ n \in DOMAIN batch
  BY DEF InspectionTypeOK
<1>3. pass' \in {"judging", "judged"}
  BY <1>1 DEF Onward
<1>4. InspectionTypeOK'
  BY <1>1, <1>3, OnwardTyped DEF InspectionTypeOK, Passes
<1>5. AdmissionsHold'
  BY <1>1, <1>3, TreeRests DEF AdmissionsHold, Reached
<1>6. ToldAgrees'
  <2>1. told[n] = Erred
    BY <1>1, <1>2 DEF AdmissionsHold, Reached
  <2>2. ASSUME NEW i \in DOMAIN batch, Told(i)'
        PROVE  told[i] # Untold
    <3>1. i = n \/ Told(i)
      BY <1>1, <1>2, <2>2 DEF Told, Onward
    <3> QED BY <2>1, <3>1, UntoldApart DEF ToldAgrees
  <2>3. ASSUME NEW i \in DOMAIN batch, told[i] # Untold
        PROVE  Agrees(i)' /\ Telling(told[i])
    BY <1>1, <2>3, AgreesStill DEF ToldAgrees
  <2> QED BY <1>1, <2>2, <2>3 DEF ToldAgrees
<1> QED BY <1>1, <1>4, <1>5, <1>6, ViewsStill, SignpostStill

LEMMA JudgesKeeps == InspectionInv /\ Judges => InspectionInv'
<1> SUFFICES ASSUME InspectionInv, Judges, NEW n, n = next PROVE InspectionInv'
  OBVIOUS
<1> USE DEF InspectionInv
<1>1. /\ pass = "judging" /\ admitted[n].is # "error"
      /\ Onward(told'[n] = Erred, "judged")
      /\ UNCHANGED <<loaded, batch, tolerant, admitted, views, signposted>>
  BY DEF Judges
<1>2. PICK unlucky :
          /\ told' = [told EXCEPT ![n] = Outcome(n, unlucky)]
          /\ hit' = IF unlucky = {} THEN hit ELSE hit \cup {n}
  BY DEF Judges
<1>3. Len(batch) \in Nat /\ DOMAIN batch = 1 .. Len(batch) /\ n \in DOMAIN batch
      /\ DOMAIN told = DOMAIN batch /\ batch[n] \in Pool
  BY DEF InspectionTypeOK
<1>4. told'[n] = Outcome(n, unlucky)
      /\ \A i \in DOMAIN batch \ {n} : told'[i] = told[i]
  BY <1>2, <1>3
<1>5. pass' \in {"judging", "judged", "failed"}
  BY <1>1 DEF Onward
<1>6. /\ Telling(Outcome(n, unlucky))
      /\ \/ Outcome(n, unlucky) = Alone(batch[n])
         \/ /\ unlucky # {}
            /\ Outcome(n, unlucky) \in {Erred, Named(Alone(batch[n]), {})}
  <2>1. admitted[n] = Admission(batch[n])
    BY <1>1, <1>3 DEF AdmissionsHold, Reached, Fails
  <2>2. \A s \in Shared(n) : Viewable(s)
    BY DEF ViewsHold, Shared, Prebuilt, PackageProcess
  <2> QED BY <1>1, <1>3, <2>1, <2>2, OutcomeAgrees
<1>7. InspectionTypeOK'
  BY <1>1, <1>2, <1>5, OnwardTyped DEF InspectionTypeOK, Passes
<1>8. AdmissionsHold'
  BY <1>1, <1>2, <1>4, <1>5, TreeRests DEF AdmissionsHold, Reached
<1>9. ToldAgrees'
  <2>1. Agrees(n)'
    BY <1>1, <1>2, <1>4, <1>6, TreeRests DEF Agrees
  <2>2. ASSUME NEW i \in DOMAIN batch, told'[i] # Untold
        PROVE  Agrees(i)' /\ Telling(told'[i])
    <3>1. CASE i = n
      BY <1>4, <1>6, <2>1, <3>1
    <3>2. CASE i # n
      BY <1>1, <1>2, <1>4, <2>2, <3>2, AgreesStill DEF ToldAgrees
    <3> QED BY <3>1, <3>2
  <2>3. ASSUME NEW i \in DOMAIN batch, Told(i)'
        PROVE  told'[i] # Untold
    <3>1. i = n \/ Told(i)
      BY <1>1, <1>3, <2>3 DEF Told, Onward
    <3> QED BY <1>4, <1>6, <3>1, TellingTold DEF ToldAgrees
  <2>4. ASSUME NEW i \in DOMAIN batch, ~tolerant, pass' # "failed"
        PROVE  told'[i] # Erred
    BY <1>1, <1>4, <2>4 DEF ToldAgrees, Onward
  <2> QED BY <1>1, <2>2, <2>3, <2>4 DEF ToldAgrees
<1> QED BY <1>1, <1>7, <1>8, <1>9, ViewsStill, SignpostStill

LEMMA SignpostsKeeps == InspectionInv /\ Signposts => InspectionInv'
<1> SUFFICES ASSUME InspectionInv, Signposts PROVE InspectionInv'
  OBVIOUS
<1> USE DEF InspectionInv
<1>1. /\ pass = "judged" /\ pass' = "told"
      /\ UNCHANGED <<loaded, batch, tolerant, next, admitted, views, told, hit>>
  BY DEF Signposts
<1>2. InspectionTypeOK'
  BY <1>1 DEF InspectionTypeOK, Passes
<1>3. AdmissionsHold'
  BY <1>1, TreeRests DEF AdmissionsHold, Reached
<1>4. ToldAgrees'
  <2>1. ASSUME NEW i \in DOMAIN batch
        PROVE  told[i] # Untold /\ Agrees(i)' /\ Telling(told[i])
    <3>1. told[i] # Untold
      BY <1>1 DEF ToldAgrees, Told
    <3> QED BY <1>1, <3>1, AgreesStill DEF ToldAgrees
  <2> QED BY <1>1, <2>1 DEF ToldAgrees
<1>5. SignpostHolds'
  <2>1. ASSUME NEW i \in DOMAIN batch, OracleCaused(told[i])
        PROVE  OracleCaused(Alone(batch[i]))
    <3>1. Agrees(i) /\ batch[i] \in Pool
      BY <1>1 DEF ToldAgrees, Told, InspectionTypeOK
    <3>2. told[i] # Erred
      BY <2>1 DEF OracleCaused, Erred, Inspected
    <3>3. Telling(Alone(batch[i]))
      BY <3>1, AloneTells
    <3>4. CASE told[i] = Named(Alone(batch[i]), {})
      BY <2>1, <3>3, <3>4, NamedKeeps DEF OracleCaused
    <3> QED BY <2>1, <3>1, <3>2, <3>4 DEF Agrees
  <2>2. signposted' = {i \in DOMAIN batch : OracleCaused(told[i])}
    BY DEF Signposts
  <2>3. \A i \in signposted' : OracleCaused(Alone(batch[i]))
    BY <2>1, <2>2
  <2> QED BY <1>1, <2>3, TreeRests DEF SignpostHolds, OracleCaused
<1> QED BY <1>1, <1>2, <1>3, <1>4, <1>5, ViewsStill

LEMMA CancelsPassKeeps == InspectionInv /\ CancelsPass => InspectionInv'
<1> SUFFICES ASSUME InspectionInv, CancelsPass PROVE InspectionInv'
  OBVIOUS
<1> USE DEF InspectionInv
<1>1. /\ pass' = "cancelled" /\ told' = [i \in DOMAIN batch |-> Untold]
      /\ UNCHANGED <<loaded, batch, tolerant, next, admitted, views, hit, signposted>>
  BY DEF CancelsPass
<1>2. InspectionTypeOK'
  BY <1>1 DEF InspectionTypeOK, Passes
<1>3. AdmissionsHold'
  BY <1>1 DEF AdmissionsHold, Reached
<1>4. ToldAgrees'
  BY <1>1, UntoldApart DEF ToldAgrees, Told
<1> QED BY <1>1, <1>2, <1>3, <1>4, ViewsStill, SignpostStill

------------------------------------------------------------------------------
LEMMA InspectionStepInv == InspectionInv /\ [InspectionNext]_inspectionVars => InspectionInv'
<1>1. InspectionInv /\ UNCHANGED inspectionVars => InspectionInv'
  <2> SUFFICES ASSUME InspectionInv, UNCHANGED inspectionVars PROVE InspectionInv'
    OBVIOUS
  <2> USE DEF InspectionInv, inspectionVars
  <2>1. InspectionTypeOK'
    BY DEF InspectionTypeOK
  <2>2. AdmissionsHold'
    BY TreeRests DEF AdmissionsHold, Reached
  <2>3. ToldAgrees'
    <3>1. ASSUME NEW i \in DOMAIN batch, told[i] # Untold
          PROVE  Agrees(i)' /\ Telling(told[i])
      BY <3>1, AgreesStill DEF ToldAgrees
    <3> QED BY <3>1 DEF ToldAgrees, Told
  <2> QED BY <2>1, <2>2, <2>3, ViewsStill, SignpostStill
<1> QED
  BY <1>1, AdmitsKeeps, BuildsViewsKeeps, SkipsErredKeeps, JudgesKeeps, SignpostsKeeps,
     CancelsPassKeeps DEF InspectionNext

\* Whatever the trees, the records, their number and the mishaps: a record
\* inspected among others is told what it would be told alone, save for a mishap
\* of its own, and a reader that takes all or nothing has no error in what it
\* takes (inspectFindings).
THEOREM ToldAsAlone == InspectionSpec => []BatchAgrees
<1>1. InspectionInv => BatchAgrees
  <2> SUFFICES ASSUME InspectionInv PROVE BatchAgrees
    OBVIOUS
  <2>1. \A i \in DOMAIN batch : told[i] # Untold => Agrees(i)
    BY DEF InspectionInv, ToldAgrees
  <2>2. pass \in {"judged", "told"} =>
            /\ \A i \in DOMAIN batch : told[i] # Untold
            /\ tolerant \/ \A i \in DOMAIN batch : told[i] # Erred
    BY DEF InspectionInv, ToldAgrees, Told
  <2> QED BY <2>1, <2>2 DEF InspectionInv, SignpostHolds, BatchAgrees
<1> QED BY <1>1, InspectionInitInv, InspectionStepInv, PTL DEF InspectionSpec

------------------------------------------------------------------------------
(***************************************************************************)
(* Records across campaigns (module Serving): what a later campaign may    *)
(* reuse was all taken on one tree, counts each verdict once, and would    *)
(* come out as it did; for every target, ceiling, timeout, tree and any    *)
(* number of campaigns, edits and commits.                                 *)
(***************************************************************************)

\* What a process read.
Manifests == UNION {[S -> Nat] : S \in SUBSET Inputs}

Ceilings == 0 .. Unlimited

VerdictTypes ==
    [outcome : Outcomes, why : {"answer", "memory", "timeout"}, complete : BOOLEAN,
     reads : Manifests, code : Nat, ceiling : Ceilings, timeout : Nat]

RecordTypes ==
    [generated : Nat, code : Nat, pins : Manifests, unverifiable : BOOLEAN,
     survivors : SUBSET Candidates, kills : SUBSET Candidates, timeouts : SUBSET Candidates,
     flags : UNION {[S -> Outcomes] : S \in SUBSET Candidates},
     tally : [Outcomes -> Int],
     ceiling : Ceilings, decided : BOOLEAN, timeout : Nat,
     dirty : BOOLEAN, commit : [code : Nat, input : Manifests],
     truth : UNION {[S -> VerdictTypes] : S \in SUBSET Candidates}, carried : SUBSET Candidates,
     asked : [ceiling : Nat, timeout : Nat], quiet : BOOLEAN]

Baselines == [reads : Manifests, budget : Nat, measured : Nat]
BankTypes == [held : BOOLEAN, code : Nat, pins : Manifests, unverifiable : BOOLEAN, base : Baselines]

Steps == {"idle", "deciding", "probing", "depositing", "executing",
          "validating", "stamping", "naming", "committing"}

ServingTypeOK ==
    /\ setup \in Setups
    /\ code \in Nat /\ edits \in Nat /\ commits \in Nat
    /\ input \in [Inputs -> Nat]
    /\ head \in [code : Nat, input : [Inputs -> Nat]]
    /\ campaigns \in 0 .. Len(setup.asks)
    /\ rec \in RecordTypes /\ draft \in RecordTypes
    /\ bank \in BankTypes
    /\ at \in Steps
    /\ request \in Requests /\ request.ceiling \in Ceilings
    /\ view \in Nat
    /\ kind \in {"measure", "serve", "splice", "extend"}
    /\ todo \in SUBSET Candidates
    /\ base \in Baselines /\ waits \in BOOLEAN
    /\ scores \in UNION {[S -> VerdictTypes] : S \in SUBSET Candidates}

------------------------------------------------------------------------------
(* Functions over some of the candidates, or some of the inputs.           *)

LEMMA PartialFunction ==
    ASSUME NEW A, NEW B, NEW f
    PROVE  f \in UNION {[S -> B] : S \in SUBSET A}
               <=> DOMAIN f \subseteq A /\ f \in [DOMAIN f -> B]
<1>1. ASSUME f \in UNION {[S -> B] : S \in SUBSET A}
      PROVE  DOMAIN f \subseteq A /\ f \in [DOMAIN f -> B]
  BY <1>1
<1>2. ASSUME DOMAIN f \subseteq A, f \in [DOMAIN f -> B]
      PROVE  f \in UNION {[S -> B] : S \in SUBSET A}
  BY <1>2
<1> QED BY <1>1, <1>2

LEMMA ManifestIs ==
    ASSUME NEW m
    PROVE  m \in Manifests <=> DOMAIN m \subseteq Inputs /\ m \in [DOMAIN m -> Nat]
BY PartialFunction DEF Manifests

LEMMA ScoresAre ==
    ASSUME NEW f
    PROVE  f \in UNION {[S -> VerdictTypes] : S \in SUBSET Candidates}
               <=> DOMAIN f \subseteq Candidates /\ f \in [DOMAIN f -> VerdictTypes]
BY PartialFunction

LEMMA FlagsAre ==
    ASSUME NEW f
    PROVE  f \in UNION {[S -> Outcomes] : S \in SUBSET Candidates}
               <=> DOMAIN f \subseteq Candidates /\ f \in [DOMAIN f -> Outcomes]
BY PartialFunction

\* Any set of candidates can be counted.
LEMMA Countable ==
    ASSUME NEW S \in SUBSET Candidates
    PROVE  IsFiniteSet(S) /\ Cardinality(S) \in Nat
<1>1. Size \in Nat
  BY ServingAssumption
<1>2. IsFiniteSet(Candidates)
  BY <1>1, FS_Interval DEF Candidates
<1>3. IsFiniteSet(S)
  BY <1>2, FS_Subset
<1> QED BY <1>3, FS_CardinalityType

LEMMA UpTo ==
    ASSUME NEW n \in Nat
    PROVE  Cardinality(1 .. n) = n
<1>1. 1 \in Int /\ n \in Int
  OBVIOUS
<1>2. Cardinality(1 .. n) = IF 1 > n THEN 0 ELSE n - 1 + 1
  BY <1>1, FS_Interval
<1> QED BY <1>2

LEMMA Least ==
    ASSUME NEW S \in SUBSET Nat, S # {}
    PROVE  \E n \in S : \A m \in S : n <= m
<1> DEFINE R == {ss \in Nat \X Nat : ss[1] < ss[2]}
<1>1. IsWellFoundedOn(R, Nat)
  BY NatLessThanWellFounded, Zenon DEF OpToRel
<1>2. \A m, n \in Nat : m < n => <<m, n>> \in R
  OBVIOUS
<1> HIDE DEF R
<1>3. PICK n \in S : \A m \in S : ~(<<m, n>> \in R)
  BY <1>1, WFMin
<1>4. \A m \in S : ~(m < n)
  BY <1>2, <1>3
<1>5. \A m \in S : n <= m
  BY <1>4
<1> QED BY <1>5

LEMMA EffectiveIs ==
    ASSUME NEW m \in Ceilings
    PROVE  EffectiveCeiling(m) \in Nat /\ EffectiveCeiling(m) <= Unlimited
BY ServingAssumption DEF Ceilings, EffectiveCeiling

------------------------------------------------------------------------------
(* What the steps make is what it should be.                               *)

LEMMA ObservedTyped ==
    ASSUME ServingTypeOK, NEW S \in SUBSET Inputs
    PROVE  Observed(S) \in Manifests /\ DOMAIN Observed(S) = S
BY ManifestIs DEF Observed, ServingTypeOK

LEMMA VerdictTyped ==
    ASSUME ServingTypeOK, NEW o \in Outcomes, NEW w \in {"answer", "memory", "timeout"},
           NEW b \in BOOLEAN, NEW S \in SUBSET Inputs
    PROVE  Verdict(o, w, b, S) \in VerdictTypes
BY ObservedTyped DEF Verdict, VerdictTypes, ServingTypeOK, Requests

\* A verdict a candidate may get: an answer only when its memory is there, a
\* memory-decided kill only under a ceiling, nothing read by what does not build.
LEMMA VerdictsAre ==
    ASSUME ServingTypeOK, NEW c \in Candidates, NEW v \in Verdicts(c)
    PROVE  /\ v \in VerdictTypes
           /\ v.code = code /\ v.ceiling = request.ceiling /\ v.timeout = request.timeout
           /\ v.why = "answer" => Memory[c] <= EffectiveCeiling(request.ceiling)
           /\ v.why = "memory" => EffectiveCeiling(request.ceiling) < Unlimited
           /\ v.outcome = "discarded" => DOMAIN v.reads = {}
<1> DEFINE Of(o, w) == {Verdict(o, w, TRUE, S) : S \in SUBSET Inputs} \cup {Verdict(o, w, FALSE, {})}
<1>1. ASSUME NEW o \in Outcomes, NEW w \in {"answer", "memory", "timeout"}, v \in Of(o, w)
      PROVE  /\ v \in VerdictTypes
             /\ v.code = code /\ v.ceiling = request.ceiling /\ v.timeout = request.timeout
             /\ v.outcome = o /\ v.why = w
  <2>1. PICK b \in BOOLEAN, S \in SUBSET Inputs : v = Verdict(o, w, b, S)
    BY <1>1
  <2> QED BY <2>1, VerdictTyped DEF Verdict
<1>2. Memory[c] \in Nat /\ Memory[c] <= Unlimited /\ Answers \subseteq Outcomes
  BY ServingAssumption
<1>3. EffectiveCeiling(request.ceiling) \in Nat /\ Unlimited \in Nat
  BY EffectiveIs, ServingAssumption DEF ServingTypeOK
<1>4. CASE /\ \E o \in Answers : v \in Of(o, "answer")
           /\ Memory[c] <= EffectiveCeiling(request.ceiling)
           /\ v.outcome = "discarded" => v = Verdict("discarded", "answer", TRUE, {})
  <2>1. PICK o \in Answers : v \in Of(o, "answer")
    BY <1>4
  <2>2. /\ v \in VerdictTypes
        /\ v.code = code /\ v.ceiling = request.ceiling /\ v.timeout = request.timeout
        /\ v.outcome = o /\ v.why = "answer"
    BY <1>1, <1>2, <2>1
  <2>3. v.outcome = "discarded" => v.reads = Observed({})
    BY <1>4 DEF Verdict
  <2> QED BY <1>4, <2>2, <2>3, ObservedTyped
<1>5. CASE /\ v \in Of("killed", "memory")
           /\ ~(Memory[c] <= EffectiveCeiling(request.ceiling))
  <2>1. /\ v \in VerdictTypes
        /\ v.code = code /\ v.ceiling = request.ceiling /\ v.timeout = request.timeout
        /\ v.outcome = "killed" /\ v.why = "memory"
    BY <1>1, <1>5 DEF Outcomes
  <2>2. EffectiveCeiling(request.ceiling) < Unlimited
    BY <1>2, <1>3, <1>5
  <2> QED BY <2>1, <2>2
<1>6. CASE v = Verdict("killed", "timeout", FALSE, {})
  <2>1. v \in VerdictTypes
    BY <1>6, VerdictTyped DEF Outcomes
  <2> QED BY <1>6, <2>1 DEF Verdict
<1>7. \/ /\ \E o \in Answers : v \in Of(o, "answer")
         /\ Memory[c] <= EffectiveCeiling(request.ceiling)
         /\ v.outcome = "discarded" => v = Verdict("discarded", "answer", TRUE, {})
      \/ /\ v \in Of("killed", "memory")
         /\ ~(Memory[c] <= EffectiveCeiling(request.ceiling))
      \/ v = Verdict("killed", "timeout", FALSE, {})
  BY Zenon DEF Verdicts
<1> QED BY <1>4, <1>5, <1>6, <1>7

------------------------------------------------------------------------------
(* The merged observation.                                                 *)

LEMMA ReadsTyped ==
    ASSUME ServingTypeOK, NEW k \in Completed \cup {0}
    PROVE  Reads(k) \in Manifests
<1>1. CASE k = 0
  BY <1>1 DEF Reads, ServingTypeOK, Baselines
<1>2. CASE k # 0
  <2>1. k \in DOMAIN scores
    BY <1>2 DEF Completed
  <2>2. scores[k] \in VerdictTypes
    BY <2>1, ScoresAre DEF ServingTypeOK
  <2> QED BY <1>2, <2>2 DEF Reads, VerdictTypes
<1> QED BY <1>1, <1>2

\* An input that was read has a first reader.
LEMMA FirstReads ==
    ASSUME ServingTypeOK, NEW i, Readers(i) # {}
    PROVE  First(i) \in Readers(i)
<1>1. Readers(i) \in SUBSET Nat
  <2>1. DOMAIN scores \subseteq Candidates
    BY ScoresAre DEF ServingTypeOK
  <2>2. Candidates \subseteq Nat
    BY ServingAssumption DEF Candidates
  <2>3. Completed \subseteq DOMAIN scores
    BY DEF Completed
  <2>4. \A k \in Completed : k \in Nat
    BY <2>1, <2>2, <2>3
  <2>5. Completed \cup {0} \subseteq Nat
    BY <2>4
  <2> QED BY <2>5 DEF Readers
<1>2. \E k \in Readers(i) : \A j \in Readers(i) : k <= j
  BY <1>1, Least
<1> QED BY <1>2 DEF First

LEMMA UnionTyped ==
    ASSUME ServingTypeOK
    PROVE  CompletedUnion \in Manifests
<1>1. ASSUME NEW i \in Inputs, Readers(i) # {}
      PROVE  Reads(First(i))[i] \in Nat
  <2>1. First(i) \in Completed \cup {0} /\ i \in DOMAIN Reads(First(i))
    BY <1>1, FirstReads DEF Readers
  <2>2. Reads(First(i)) \in [DOMAIN Reads(First(i)) -> Nat]
    BY <2>1, ReadsTyped, ManifestIs
  <2> QED BY <2>1, <2>2
<1>2. /\ DOMAIN CompletedUnion \subseteq Inputs
      /\ CompletedUnion \in [DOMAIN CompletedUnion -> Nat]
  BY <1>1 DEF CompletedUnion
<1> QED BY <1>2, ManifestIs

PinnedIn(reads, pins) == \A i \in DOMAIN reads : i \in DOMAIN pins /\ pins[i] = reads[i]

\* Without a conflict the merge is what each process read.
LEMMA UnionPins ==
    ASSUME ServingTypeOK, ~Conflict, NEW k \in Completed \cup {0}
    PROVE  PinnedIn(Reads(k), CompletedUnion)
<1> SUFFICES ASSUME NEW i \in DOMAIN Reads(k)
             PROVE  i \in DOMAIN CompletedUnion /\ CompletedUnion[i] = Reads(k)[i]
  BY DEF PinnedIn
<1>1. i \in Inputs
  BY ReadsTyped, ManifestIs
<1>2. k \in Readers(i)
  BY DEF Readers
<1>3. First(i) \in Readers(i)
  BY <1>2, FirstReads
<1>4. Reads(First(i))[i] = Reads(k)[i]
  BY <1>1, <1>2, <1>3 DEF Conflict
<1> QED BY <1>1, <1>2, <1>4 DEF CompletedUnion

LEMMA SplicedUnionTyped ==
    ASSUME ServingTypeOK
    PROVE  SplicedUnion \in Manifests
<1>1. CompletedUnion \in Manifests
  BY UnionTyped
<1>2. rec.pins \in Manifests
  BY DEF ServingTypeOK, RecordTypes
<1>3. FoldRecorded(CompletedUnion) \in Manifests
  <2>1. CASE Stands(rec.pins)
    <3> DEFINE u == CompletedUnion
               m == [i \in DOMAIN u \cup DOMAIN rec.pins |-> IF i \in DOMAIN u THEN u[i] ELSE rec.pins[i]]
    <3>1. /\ DOMAIN u \subseteq Inputs /\ \A i \in DOMAIN u : u[i] \in Nat
          /\ DOMAIN rec.pins \subseteq Inputs /\ \A i \in DOMAIN rec.pins : rec.pins[i] \in Nat
      BY <1>1, <1>2, ManifestIs
    <3> HIDE DEF u
    <3>2. DOMAIN m \subseteq Inputs /\ m \in [DOMAIN m -> Nat]
      BY <3>1
    <3>3. m \in Manifests
      BY <3>2, ManifestIs
    <3> QED BY <2>1, <3>3 DEF FoldRecorded, u
  <2>2. CASE ~Stands(rec.pins)
    BY <1>1, <2>2 DEF FoldRecorded
  <2> QED BY <2>1, <2>2
<1> QED BY <1>1, <1>3 DEF SplicedUnion

\* What was read now comes before what the record pinned.
LEMMA SplicedUnionHolds == PinnedIn(CompletedUnion, SplicedUnion)
BY DEF SplicedUnion, FoldRecorded, PinnedIn

LEMMA SplicedUnionStands ==
    ASSUME Stands(CompletedUnion)
    PROVE  Stands(SplicedUnion)
BY DEF SplicedUnion, FoldRecorded, Stands

------------------------------------------------------------------------------
(* The records assembled.                                                  *)

LEMMA ScoredTyped ==
    ASSUME ServingTypeOK
    PROVE  /\ DOMAIN scores \subseteq Candidates
           /\ \A c \in DOMAIN scores : scores[c] \in VerdictTypes
           /\ \A o : Scored(o) \in SUBSET Candidates
           /\ TimedOut \in SUBSET Candidates
           /\ Decided \in BOOLEAN
           /\ DOMAIN FreshFlags \subseteq DOMAIN scores
           /\ \A c \in DOMAIN FreshFlags : FreshFlags[c] = scores[c].outcome
           /\ FreshFlags \in UNION {[S -> Outcomes] : S \in SUBSET Candidates}
<1>1. /\ DOMAIN scores \subseteq Candidates
      /\ \A c \in DOMAIN scores : scores[c] \in VerdictTypes
  BY ScoresAre DEF ServingTypeOK
<1>2. /\ \A o : Scored(o) \in SUBSET Candidates
      /\ TimedOut \in SUBSET Candidates
      /\ Decided \in BOOLEAN
  BY <1>1 DEF Scored, TimedOut, Decided
<1>3. /\ DOMAIN FreshFlags \subseteq DOMAIN scores
      /\ \A c \in DOMAIN FreshFlags : FreshFlags[c] = scores[c].outcome
      /\ FreshFlags \in [DOMAIN FreshFlags -> Outcomes]
  BY <1>1 DEF FreshFlags, VerdictTypes
<1> QED BY <1>1, <1>2, <1>3, FlagsAre

LEMMA TalliedTyped ==
    ASSUME ServingTypeOK, NEW t \in [Outcomes -> Int]
    PROVE  Tallied(t) \in [Outcomes -> Int]
<1>1. \A o : Cardinality(Scored(o)) \in Nat
  BY ScoredTyped, Countable
<1> QED BY <1>1 DEF Tallied

LEMMA FreshTyped ==
    ASSUME ServingTypeOK
    PROVE  Fresh \in RecordTypes
<1>1. Cardinality(DOMAIN scores) \in Nat
  BY ScoredTyped, Countable
<1>2. Tallied([o \in Outcomes |-> 0]) \in [Outcomes -> Int]
  BY TalliedTyped
<1>3. Conflict \in BOOLEAN
  BY DEF Conflict
<1>4. head \in [code : Nat, input : Manifests]
  <2>1. head.input \in Manifests
    BY ManifestIs DEF ServingTypeOK
  <2> QED BY <2>1 DEF ServingTypeOK
<1>5. Bounds(request) \in [ceiling : Nat, timeout : Nat]
  BY DEF Bounds, ServingTypeOK, Requests
<1>6. /\ view \in Nat /\ request.ceiling \in Ceilings /\ request.timeout \in Nat
      /\ scores \in UNION {[S -> VerdictTypes] : S \in SUBSET Candidates}
  BY DEF ServingTypeOK, Requests
<1> QED BY <1>1, <1>2, <1>3, <1>4, <1>5, <1>6, UnionTyped, ScoredTyped DEF Fresh, RecordTypes

\* The truths of a splice: the fresh one where there is one.
LEMMA TruthsTyped ==
    ASSUME ServingTypeOK
    PROVE  /\ Truths \in UNION {[S -> VerdictTypes] : S \in SUBSET Candidates}
           /\ DOMAIN Truths = DOMAIN rec.truth \cup DOMAIN scores
           /\ \A c \in DOMAIN scores : Truths[c] = scores[c]
           /\ \A c \in DOMAIN rec.truth \ DOMAIN scores : Truths[c] = rec.truth[c]
<1>1. /\ DOMAIN rec.truth \subseteq Candidates
      /\ \A c \in DOMAIN rec.truth : rec.truth[c] \in VerdictTypes
  <2>1. rec.truth \in UNION {[S -> VerdictTypes] : S \in SUBSET Candidates}
    BY DEF ServingTypeOK, RecordTypes
  <2> QED BY <2>1, ScoresAre
<1>2. /\ DOMAIN Truths \subseteq Candidates /\ Truths \in [DOMAIN Truths -> VerdictTypes]
  BY <1>1, ScoredTyped DEF Truths
<1>3. Truths \in UNION {[S -> VerdictTypes] : S \in SUBSET Candidates}
  BY <1>2, ScoresAre
<1> QED BY <1>3 DEF Truths

LargerCeiling ==
    IF EffectiveCeiling(request.ceiling) > EffectiveCeiling(rec.ceiling)
    THEN request.ceiling ELSE rec.ceiling

Facted == MergeScoredFacts(ApplySplicedUnion(rec))

LEMMA FactedIs ==
    ASSUME ServingTypeOK
    PROVE  /\ Facted \in RecordTypes
           /\ Facted.generated = rec.generated /\ Facted.code = rec.code
           /\ Facted.survivors = rec.survivors /\ Facted.kills = rec.kills
           /\ Facted.timeouts = rec.timeouts /\ Facted.flags = rec.flags
           /\ Facted.tally = rec.tally /\ Facted.timeout = rec.timeout
           /\ Facted.pins = IF SplicedUnionDiverged THEN SplicedUnion ELSE rec.pins
           /\ Facted.unverifiable = (rec.unverifiable \/ SplicedUnionDiverged)
           /\ Facted.decided = (rec.decided \/ Decided)
           /\ Facted.ceiling = LargerCeiling
<1> DEFINE a == ApplySplicedUnion(rec)
<1>1. rec \in RecordTypes /\ request.ceiling \in Ceilings
  BY DEF ServingTypeOK
<1>2. /\ a \in RecordTypes
      /\ a.generated = rec.generated /\ a.code = rec.code
      /\ a.survivors = rec.survivors /\ a.kills = rec.kills
      /\ a.timeouts = rec.timeouts /\ a.flags = rec.flags
      /\ a.tally = rec.tally /\ a.timeout = rec.timeout
      /\ a.pins = IF SplicedUnionDiverged THEN SplicedUnion ELSE rec.pins
      /\ a.unverifiable = (rec.unverifiable \/ SplicedUnionDiverged)
      /\ a.decided = rec.decided /\ a.ceiling = rec.ceiling
  <2>1. CASE SplicedUnionDiverged
    BY <1>1, <2>1, SplicedUnionTyped DEF ApplySplicedUnion, RecordTypes
  <2>2. CASE ~SplicedUnionDiverged
    BY <1>1, <2>2 DEF ApplySplicedUnion, RecordTypes
  <2> QED BY <2>1, <2>2
<1> HIDE DEF a
<1>3. Decided \in BOOLEAN
  BY DEF Decided
<1>4. Facted = [a EXCEPT !.decided = @ \/ Decided, !.ceiling = LargerCeiling]
  BY <1>2 DEF Facted, MergeScoredFacts, LargerCeiling, RecordTypes, a
<1>5. LargerCeiling \in Ceilings
  BY <1>1 DEF LargerCeiling, RecordTypes
<1> QED BY <1>2, <1>3, <1>4, <1>5 DEF RecordTypes

LEMMA KeptIs ==
    ASSUME ServingTypeOK, NEW r \in RecordTypes
    PROVE  /\ Kept(Rows(r)) \in RecordTypes
           /\ Kept(Rows(r)).generated = r.generated /\ Kept(Rows(r)).code = r.code
           /\ Kept(Rows(r)).pins = r.pins /\ Kept(Rows(r)).unverifiable = r.unverifiable
           /\ Kept(Rows(r)).ceiling = r.ceiling /\ Kept(Rows(r)).decided = r.decided
           /\ Kept(Rows(r)).timeout = r.timeout /\ Kept(Rows(r)).tally = r.tally
           /\ Kept(Rows(r)).survivors = (r.survivors \ DOMAIN scores) \cup Scored("survived")
           /\ Kept(Rows(r)).kills     = (r.kills \ DOMAIN scores) \cup Scored("killed")
           /\ Kept(Rows(r)).timeouts  = (r.timeouts \ DOMAIN scores) \cup TimedOut
           /\ Kept(Rows(r)).flags = FreshFlags
           /\ Kept(Rows(r)).truth = Truths
           /\ Kept(Rows(r)).carried = DOMAIN rec.truth \ DOMAIN scores
           /\ Kept(Rows(r)).asked = Bounds(request) /\ Kept(Rows(r)).quiet = TRUE
<1>1. Bounds(request) \in [ceiling : Nat, timeout : Nat]
  BY DEF Bounds, ServingTypeOK, Requests
<1>2. DOMAIN rec.truth \subseteq Candidates
  <2>1. rec.truth \in UNION {[S -> VerdictTypes] : S \in SUBSET Candidates}
    BY DEF ServingTypeOK, RecordTypes
  <2> QED BY <2>1, ScoresAre
<1>3. /\ Scored("survived") \in SUBSET Candidates /\ Scored("killed") \in SUBSET Candidates
      /\ TimedOut \in SUBSET Candidates
      /\ FreshFlags \in UNION {[S -> Outcomes] : S \in SUBSET Candidates}
      /\ Truths \in UNION {[S -> VerdictTypes] : S \in SUBSET Candidates}
  BY ScoredTyped, TruthsTyped
<1> DEFINE w == Rows(r)
<1>4. /\ w \in RecordTypes
      /\ w.generated = r.generated /\ w.code = r.code
      /\ w.pins = r.pins /\ w.unverifiable = r.unverifiable
      /\ w.ceiling = r.ceiling /\ w.decided = r.decided
      /\ w.timeout = r.timeout /\ w.tally = r.tally
      /\ w.survivors = (r.survivors \ DOMAIN scores) \cup Scored("survived")
      /\ w.kills     = (r.kills \ DOMAIN scores) \cup Scored("killed")
      /\ w.timeouts  = (r.timeouts \ DOMAIN scores) \cup TimedOut
      /\ w.flags = FreshFlags
  BY <1>3 DEF Rows, RecordTypes
<1> HIDE DEF w
<1> DEFINE k == Kept(w)
<1>5. k \in RecordTypes
  BY <1>1, <1>2, <1>3, <1>4 DEF Kept, RecordTypes
<1>6. /\ k.generated = w.generated /\ k.code = w.code
      /\ k.pins = w.pins /\ k.unverifiable = w.unverifiable
      /\ k.ceiling = w.ceiling /\ k.decided = w.decided
      /\ k.timeout = w.timeout /\ k.tally = w.tally
      /\ k.survivors = w.survivors /\ k.kills = w.kills /\ k.timeouts = w.timeouts
      /\ k.flags = w.flags
      /\ k.truth = Truths /\ k.carried = DOMAIN rec.truth \ DOMAIN scores
      /\ k.asked = Bounds(request) /\ k.quiet = TRUE
  BY <1>4 DEF Kept, RecordTypes
<1> HIDE DEF k
<1>7. /\ k \in RecordTypes
      /\ k.generated = r.generated /\ k.code = r.code
      /\ k.pins = r.pins /\ k.unverifiable = r.unverifiable
      /\ k.ceiling = r.ceiling /\ k.decided = r.decided
      /\ k.timeout = r.timeout /\ k.tally = r.tally
      /\ k.survivors = (r.survivors \ DOMAIN scores) \cup Scored("survived")
      /\ k.kills     = (r.kills \ DOMAIN scores) \cup Scored("killed")
      /\ k.timeouts  = (r.timeouts \ DOMAIN scores) \cup TimedOut
      /\ k.flags = FreshFlags
  BY <1>4, <1>5, <1>6
<1> QED BY <1>6, <1>7 DEF k, w

\* What a splice and an extension have in common.
Merges(d) ==
    /\ d.code = rec.code /\ d.timeout = rec.timeout
    /\ d.pins = IF SplicedUnionDiverged THEN SplicedUnion ELSE rec.pins
    /\ d.unverifiable = (rec.unverifiable \/ SplicedUnionDiverged)
    /\ d.decided = (rec.decided \/ Decided)
    /\ d.ceiling = LargerCeiling
    /\ d.survivors = (rec.survivors \ DOMAIN scores) \cup Scored("survived")
    /\ d.kills     = (rec.kills \ DOMAIN scores) \cup Scored("killed")
    /\ d.timeouts  = (rec.timeouts \ DOMAIN scores) \cup TimedOut
    /\ d.flags = FreshFlags
    /\ d.truth = Truths /\ d.carried = DOMAIN rec.truth \ DOMAIN scores
    /\ d.asked = Bounds(request) /\ d.quiet = TRUE

Spliced  == Kept(SpliceCounts(Facted))
Extended == Kept(ExtendCounts(Facted))

LEMMA SplicedIs ==
    ASSUME ServingTypeOK
    PROVE  /\ Spliced \in RecordTypes
           /\ Merges(Spliced)
           /\ Spliced.generated = rec.generated
           /\ Spliced.tally = Tallied([o \in Outcomes |-> rec.tally[o] - Cardinality(Dropped(o))])
<1> DEFINE k == Kept(Rows(Facted))
           t == Tallied([o \in Outcomes |-> rec.tally[o] - Cardinality(Dropped(o))])
<1>1. k \in RecordTypes /\ Merges(k) /\ k.generated = rec.generated
  <2>1. Facted \in RecordTypes
    BY FactedIs
  <2>2. k \in RecordTypes
    BY <2>1, KeptIs
  <2> QED BY <2>1, <2>2, FactedIs, KeptIs DEF Merges
<1>2. t \in [Outcomes -> Int]
  <2>1. DOMAIN rec.flags \subseteq Candidates
    <3>1. rec.flags \in UNION {[S -> Outcomes] : S \in SUBSET Candidates}
      BY DEF ServingTypeOK, RecordTypes
    <3> QED BY <3>1, FlagsAre
  <2>2. \A o : Cardinality(Dropped(o)) \in Nat
    BY <2>1, Countable DEF Dropped
  <2>3. rec.tally \in [Outcomes -> Int]
    BY DEF ServingTypeOK, RecordTypes
  <2>4. [o \in Outcomes |-> rec.tally[o] - Cardinality(Dropped(o))] \in [Outcomes -> Int]
    BY <2>2, <2>3
  <2> QED BY <2>4, TalliedTyped
<1>3. Spliced = [k EXCEPT !.tally = t]
  <2>1. Rows(Facted).tally = rec.tally
    BY FactedIs DEF Rows, RecordTypes
  <2>2. SpliceCounts(Facted) = [Rows(Facted) EXCEPT !.tally = t]
    BY <2>1 DEF SpliceCounts
  <2> HIDE DEF t
  <2> QED BY <2>2 DEF Spliced, Kept
<1> HIDE DEF k, t
<1>4. Spliced \in RecordTypes
  BY <1>1, <1>2, <1>3 DEF RecordTypes
<1>5. Merges(Spliced) /\ Spliced.generated = rec.generated /\ Spliced.tally = t
  BY <1>1, <1>3 DEF RecordTypes, Merges
<1> QED BY <1>4, <1>5 DEF t

LEMMA ExtendedIs ==
    ASSUME ServingTypeOK
    PROVE  /\ Extended \in RecordTypes
           /\ Merges(Extended)
           /\ Extended.generated = Cardinality(DOMAIN rec.truth \cup DOMAIN scores)
           /\ Extended.tally = Tallied(rec.tally)
<1> DEFINE k == Kept(Rows(Facted))
           t == Tallied(rec.tally)
           n == Cardinality(DOMAIN rec.truth \cup DOMAIN scores)
<1>1. k \in RecordTypes /\ Merges(k)
  <2>1. Facted \in RecordTypes
    BY FactedIs
  <2>2. k \in RecordTypes
    BY <2>1, KeptIs
  <2> QED BY <2>1, <2>2, FactedIs, KeptIs DEF Merges
<1>2. t \in [Outcomes -> Int]
  BY TalliedTyped DEF ServingTypeOK, RecordTypes
<1>3. n \in Nat
  <2>1. rec.truth \in UNION {[S -> VerdictTypes] : S \in SUBSET Candidates}
    BY DEF ServingTypeOK, RecordTypes
  <2>2. DOMAIN rec.truth \cup DOMAIN scores \subseteq Candidates
    BY <2>1, ScoresAre, ScoredTyped
  <2> QED BY <2>2, Countable
<1>4. Extended = [k EXCEPT !.tally = t, !.generated = n]
  <2>1. Rows(Facted).tally = rec.tally
    BY FactedIs DEF Rows, RecordTypes
  <2>2. ExtendCounts(Facted) = [Rows(Facted) EXCEPT !.tally = t, !.generated = n]
    BY <2>1 DEF ExtendCounts
  <2> HIDE DEF t, n
  <2> QED BY <2>2 DEF Extended, Kept
<1> HIDE DEF k, t, n
<1>5. Extended \in RecordTypes
  BY <1>1, <1>2, <1>3, <1>4 DEF RecordTypes
<1>6. Merges(Extended) /\ Extended.generated = n /\ Extended.tally = t
  BY <1>1, <1>4 DEF RecordTypes, Merges
<1> QED BY <1>5, <1>6 DEF t, n

------------------------------------------------------------------------------
(* The invariant.                                                          *)

TruthOf(r, o) == {c \in DOMAIN r.truth : r.truth[c].outcome = o}

\* A record's tallies, rows and flags are its verdicts'.
Reconciled(r) ==
    /\ r.generated <= Size /\ DOMAIN r.truth = 1 .. r.generated
    /\ r.tally = [o \in Outcomes |-> Cardinality(TruthOf(r, o))]
    /\ r.survivors = TruthOf(r, "survived") /\ r.kills = TruthOf(r, "killed")
    /\ r.timeouts = {c \in DOMAIN r.truth : r.truth[c].why = "timeout"}
    /\ DOMAIN r.flags \subseteq DOMAIN r.truth
    /\ \A c \in DOMAIN r.flags : r.flags[c] = r.truth[c].outcome

\* The bounds a record names are those its verdicts depend on.
Bounding(r) ==
    \A c \in DOMAIN r.truth :
        /\ r.truth[c].why = "answer" => Memory[c] <= EffectiveCeiling(r.ceiling)
        /\ r.truth[c].why = "memory" => r.decided /\ r.truth[c].ceiling = r.ceiling
        /\ r.truth[c].timeout = r.timeout

Would(v, c, asked) ==
    /\ v.why = "answer"  => Memory[c] <= EffectiveCeiling(asked.ceiling)
    /\ v.why = "memory"  => v.ceiling = asked.ceiling
    /\ v.why = "timeout" => v.timeout = asked.timeout /\ v.timeout # 0

KeepsWhatWould(r) == \A c \in r.carried : c \in DOMAIN r.truth /\ Would(r.truth[c], c, r.asked)

\* Whatever a kept observation read, the record pins.
PinsReads(r) ==
    ~r.unverifiable =>
        \A c \in DOMAIN r.truth :
            r.truth[c].complete /\ ~setup.shaped => PinnedIn(r.truth[c].reads, r.pins)

Trusted(r) == Reconciled(r) /\ Bounding(r) /\ KeepsWhatWould(r) /\ PinsReads(r)

Drafting == {"validating", "stamping", "naming", "committing"}
Working  == {"probing", "depositing", "executing"}

Campaigning ==
    /\ view <= code
    /\ at \notin {"executing"} \cup Drafting => DOMAIN scores = {}
    /\ at \in {"idle", "deciding", "probing", "depositing"} => ~waits

\* Verdicts and baseline are of the code between the load's and the tree's.
Measuring ==
    /\ at \in {"depositing", "executing", "validating"} =>
           view <= base.measured /\ base.measured <= code
    /\ \A c \in DOMAIN scores :
           /\ scores[c].why = "answer" => Memory[c] <= EffectiveCeiling(request.ceiling)
           /\ scores[c].why = "memory" => EffectiveCeiling(request.ceiling) < Unlimited
           /\ scores[c].outcome = "discarded" => DOMAIN scores[c].reads = {}
           /\ scores[c].ceiling = request.ceiling /\ scores[c].timeout = request.timeout
           /\ at = "executing" => view <= scores[c].code /\ scores[c].code <= code

\* The decision's grounds last as long as the work.
Chosen ==
    at \in Working =>
        /\ kind \in {"measure", "splice", "extend"}
        /\ DOMAIN scores \subseteq todo
        /\ kind = "measure" => \E n \in Candidates : todo = 1 .. n
        /\ kind \in {"splice", "extend"} =>
               /\ rec.code = view /\ ~rec.unverifiable
               /\ TimeoutPinMatches(rec) /\ ~MemoryPinStale(rec)
        /\ kind = "splice" => todo = DOMAIN rec.flags
        /\ kind = "extend" =>
               /\ DOMAIN rec.flags = {} /\ rec.generated < request.budget
               /\ todo = rec.generated + 1 .. request.budget

OfCode(r, c) == \A d \in DOMAIN r.truth : r.truth[d].code = c

Stored == Trusted(rec) /\ OfCode(rec, rec.code) /\ CleanNamesItsCommit /\ BankOneTree

Drafted ==
    at \in Drafting =>
        /\ Trusted(draft)
        /\ draft.code = view
        /\ waits /\ ~draft.unverifiable => PinnedIn(base.reads, draft.pins)
        /\ at = "validating" =>
               \A c \in DOMAIN draft.truth : view <= draft.truth[c].code /\ draft.truth[c].code <= code
        /\ at # "validating" => OfCode(draft, draft.code) /\ (waits => base.measured = draft.code)

HeldBy(tr, pins, c) == tr.code = c /\ \A i \in DOMAIN pins : tr.input[i] = pins[i]

\* While nobody edits, the draft's pins stand, and once it is judged clean the
\* commit it will name holds them.
Quietly ==
    at \in Drafting /\ draft.quiet /\ ~draft.unverifiable =>
        /\ at # "committing" => Stands(draft.pins)
        /\ at \in {"stamping", "naming"} => code = draft.code
        /\ at = "naming" /\ ~draft.dirty => HeldBy(head, draft.pins, draft.code)
        /\ at = "committing" /\ ~draft.dirty => HeldBy(draft.commit, draft.pins, draft.code)

ServingInv ==
    /\ ServingTypeOK
    /\ Campaigning /\ Measuring /\ Chosen /\ Stored /\ Drafted /\ Quietly

------------------------------------------------------------------------------
(* What a splice and an extension count.                                   *)

LEMMA RecTyped ==
    ASSUME ServingTypeOK
    PROVE  /\ rec \in RecordTypes
           /\ DOMAIN rec.truth \subseteq Candidates
           /\ \A c \in DOMAIN rec.truth : rec.truth[c] \in VerdictTypes
           /\ rec.generated \in Nat /\ rec.ceiling \in Ceilings /\ rec.tally \in [Outcomes -> Int]
<1>1. rec \in RecordTypes
  BY DEF ServingTypeOK
<1>2. rec.truth \in UNION {[S -> VerdictTypes] : S \in SUBSET Candidates}
  BY <1>1 DEF RecordTypes
<1> QED BY <1>1, <1>2, ScoresAre DEF RecordTypes

LEMMA TruthOfMerge ==
    ASSUME ServingTypeOK, NEW d, Merges(d), NEW o
    PROVE  TruthOf(d, o) = (TruthOf(rec, o) \ DOMAIN scores) \cup Scored(o)
<1>1. /\ DOMAIN d.truth = DOMAIN rec.truth \cup DOMAIN scores
      /\ \A c \in DOMAIN scores : d.truth[c] = scores[c]
      /\ \A c \in DOMAIN rec.truth \ DOMAIN scores : d.truth[c] = rec.truth[c]
  BY TruthsTyped DEF Merges
<1> QED BY <1>1 DEF TruthOf, Scored

LEMMA CountOfMerge ==
    ASSUME ServingTypeOK, NEW d, Merges(d), NEW o
    PROVE  /\ Cardinality(TruthOf(rec, o)) \in Nat
           /\ Cardinality(TruthOf(rec, o) \cap DOMAIN scores) \in Nat
           /\ Cardinality(Scored(o)) \in Nat
           /\ Cardinality(TruthOf(d, o)) =
                Cardinality(TruthOf(rec, o)) - Cardinality(TruthOf(rec, o) \cap DOMAIN scores)
                    + Cardinality(Scored(o))
<1> DEFINE T == TruthOf(rec, o)
           U == Scored(o)
           V == DOMAIN scores
<1>1. T \in SUBSET Candidates /\ U \in SUBSET Candidates /\ U \subseteq V /\ V \in SUBSET Candidates
  BY RecTyped, ScoredTyped DEF TruthOf, Scored
<1>2. TruthOf(d, o) = (T \ V) \cup U
  BY TruthOfMerge
<1> HIDE DEF T, U, V
<1>3. /\ IsFiniteSet(T) /\ Cardinality(T) \in Nat
      /\ IsFiniteSet(U) /\ Cardinality(U) \in Nat
      /\ Cardinality(T \cap V) \in Nat
  <2>1. T \cap V \in SUBSET Candidates
    BY <1>1
  <2> QED BY <1>1, <2>1, Countable
<1>4. IsFiniteSet(T \ V) /\ Cardinality(T \ V) = Cardinality(T) - Cardinality(T \cap V)
  BY <1>3, FS_Difference
<1>5. Cardinality((T \ V) \cup U)
        = Cardinality(T \ V) + Cardinality(U) - Cardinality((T \ V) \cap U)
  BY <1>3, <1>4, FS_Union
<1>6. (T \ V) \cap U = {}
  BY <1>1
<1>7. Cardinality((T \ V) \cap U) = 0
  BY <1>6, FS_EmptySet
<1>8. Cardinality((T \ V) \cup U) = Cardinality(T) - Cardinality(T \cap V) + Cardinality(U)
  BY <1>3, <1>4, <1>5, <1>7
<1> QED BY <1>2, <1>3, <1>8 DEF T, U, V

\* Rows and flags of a merge, whichever it is.
LEMMA RowsOfMerge ==
    ASSUME ServingTypeOK, Reconciled(rec), NEW d, Merges(d)
    PROVE  /\ d.survivors = TruthOf(d, "survived") /\ d.kills = TruthOf(d, "killed")
           /\ d.timeouts = {c \in DOMAIN d.truth : d.truth[c].why = "timeout"}
           /\ DOMAIN d.flags \subseteq DOMAIN d.truth
           /\ \A c \in DOMAIN d.flags : d.flags[c] = d.truth[c].outcome
<1>1. /\ DOMAIN d.truth = DOMAIN rec.truth \cup DOMAIN scores
      /\ \A c \in DOMAIN scores : d.truth[c] = scores[c]
      /\ \A c \in DOMAIN rec.truth \ DOMAIN scores : d.truth[c] = rec.truth[c]
  BY TruthsTyped DEF Merges
<1>2. d.survivors = TruthOf(d, "survived") /\ d.kills = TruthOf(d, "killed")
  <2>1. rec.survivors = TruthOf(rec, "survived") /\ rec.kills = TruthOf(rec, "killed")
    BY DEF Reconciled
  <2>2. /\ d.survivors = (rec.survivors \ DOMAIN scores) \cup Scored("survived")
        /\ d.kills = (rec.kills \ DOMAIN scores) \cup Scored("killed")
    BY DEF Merges
  <2>3. TruthOf(d, "survived") = (TruthOf(rec, "survived") \ DOMAIN scores) \cup Scored("survived")
    BY TruthOfMerge
  <2>4. TruthOf(d, "killed") = (TruthOf(rec, "killed") \ DOMAIN scores) \cup Scored("killed")
    BY TruthOfMerge
  <2> QED BY <2>1, <2>2, <2>3, <2>4
<1>3. d.timeouts = {c \in DOMAIN d.truth : d.truth[c].why = "timeout"}
  BY <1>1 DEF Merges, Reconciled, TimedOut
<1>4. /\ DOMAIN d.flags \subseteq DOMAIN d.truth
      /\ \A c \in DOMAIN d.flags : d.flags[c] = d.truth[c].outcome
  BY <1>1, ScoredTyped DEF Merges
<1> QED BY <1>2, <1>3, <1>4

LEMMA SplicedReconciles ==
    ASSUME ServingTypeOK, Reconciled(rec), DOMAIN scores = DOMAIN rec.flags
    PROVE  Reconciled(Spliced)
<1> DEFINE d == Spliced
<1>1. Merges(d) /\ d.generated = rec.generated
      /\ d.tally = Tallied([o \in Outcomes |-> rec.tally[o] - Cardinality(Dropped(o))])
  BY SplicedIs
<1> HIDE DEF d
<1>2. DOMAIN d.truth = 1 .. d.generated /\ d.generated <= Size
  BY <1>1, TruthsTyped DEF Merges, Reconciled
<1>3. ASSUME NEW o \in Outcomes
      PROVE  rec.tally[o] - Cardinality(Dropped(o)) + Cardinality(Scored(o))
                 = Cardinality(TruthOf(d, o))
  <2>1. Dropped(o) = TruthOf(rec, o) \cap DOMAIN scores
    BY DEF Dropped, TruthOf, Reconciled
  <2>2. rec.tally[o] = Cardinality(TruthOf(rec, o))
    BY DEF Reconciled
  <2> QED BY <1>1, <2>1, <2>2, CountOfMerge
<1>4. d.tally = [o \in Outcomes |-> Cardinality(TruthOf(d, o))]
  <2>1. d.tally = [o \in Outcomes |-> rec.tally[o] - Cardinality(Dropped(o)) + Cardinality(Scored(o))]
    BY <1>1 DEF Tallied
  <2> QED BY <1>3, <2>1
<1> QED BY <1>1, <1>2, <1>4, RowsOfMerge DEF Reconciled, d

LEMMA ExtendedReconciles ==
    ASSUME ServingTypeOK, Reconciled(rec), rec.generated < request.budget,
           DOMAIN scores = rec.generated + 1 .. request.budget
    PROVE  Reconciled(Extended)
<1> DEFINE d == Extended
<1>1. Merges(d) /\ d.generated = Cardinality(DOMAIN rec.truth \cup DOMAIN scores)
      /\ d.tally = Tallied(rec.tally)
  BY ExtendedIs
<1> HIDE DEF d
<1>2. /\ rec.generated \in Nat /\ request.budget \in Nat /\ request.budget <= Size
      /\ DOMAIN rec.truth = 1 .. rec.generated
  <2>1. rec \in RecordTypes
    BY RecTyped DEF Reconciled
  <2>2. rec.generated \in Nat
    BY <2>1 DEF RecordTypes
  <2>3. request.budget \in Nat /\ request.budget <= Size
    <3>1. request \in Requests
      BY DEF ServingTypeOK
    <3>2. request.budget \in Candidates
      BY <3>1 DEF Requests
    <3> QED BY <3>2, ServingAssumption DEF Candidates
  <2> QED BY <2>2, <2>3 DEF Reconciled
<1>3. DOMAIN rec.truth \cup DOMAIN scores = 1 .. request.budget
  BY <1>2
<1>4. d.generated = request.budget
  <2>1. Cardinality(1 .. request.budget) = request.budget
    BY <1>2, UpTo
  <2> QED BY <1>1, <1>3, <2>1
<1>5. DOMAIN d.truth = 1 .. d.generated /\ d.generated <= Size
  BY <1>1, <1>2, <1>3, <1>4, TruthsTyped DEF Merges
<1>6. ASSUME NEW o \in Outcomes
      PROVE  rec.tally[o] + Cardinality(Scored(o)) = Cardinality(TruthOf(d, o))
  <2>1. TruthOf(rec, o) \cap DOMAIN scores = {}
    <3>1. DOMAIN rec.truth \cap DOMAIN scores = {}
      BY <1>2
    <3> QED BY <3>1 DEF TruthOf
  <2>2. Cardinality(TruthOf(rec, o) \cap DOMAIN scores) = 0
    BY <2>1, FS_EmptySet
  <2>3. rec.tally[o] = Cardinality(TruthOf(rec, o))
    BY DEF Reconciled
  <2>4. /\ Cardinality(TruthOf(rec, o)) \in Nat /\ Cardinality(Scored(o)) \in Nat
        /\ Cardinality(TruthOf(d, o)) =
                Cardinality(TruthOf(rec, o)) - Cardinality(TruthOf(rec, o) \cap DOMAIN scores)
                    + Cardinality(Scored(o))
    BY <1>1, CountOfMerge
  <2> QED BY <2>2, <2>3, <2>4
<1>7. d.tally = [o \in Outcomes |-> Cardinality(TruthOf(d, o))]
  <2>1. d.tally = [o \in Outcomes |-> rec.tally[o] + Cardinality(Scored(o))]
    BY <1>1 DEF Tallied
  <2> QED BY <1>6, <2>1
<1> QED BY <1>1, <1>5, <1>7, RowsOfMerge DEF Reconciled, d

LEMMA FreshReconciles ==
    ASSUME ServingTypeOK, NEW n \in Candidates, DOMAIN scores = 1 .. n
    PROVE  Reconciled(Fresh)
<1> DEFINE d == Fresh
<1>1. n \in Nat /\ n <= Size
  BY ServingAssumption DEF Candidates
<1>2. Cardinality(DOMAIN scores) = n
  BY <1>1, UpTo
<1>3. d.truth = scores /\ d.generated = n
  BY <1>2 DEF Fresh
<1>4. \A o : TruthOf(d, o) = Scored(o)
  BY <1>3 DEF TruthOf, Scored
<1>5. d.tally = [o \in Outcomes |-> Cardinality(TruthOf(d, o))]
  <2>1. \A o : Cardinality(Scored(o)) \in Nat
    BY ScoredTyped, Countable
  <2>2. d.tally = [o \in Outcomes |-> 0 + Cardinality(Scored(o))]
    BY DEF Fresh, Tallied
  <2> HIDE DEF d
  <2> QED BY <1>4, <2>1, <2>2
<1>6. /\ d.survivors = Scored("survived") /\ d.kills = Scored("killed")
      /\ d.timeouts = TimedOut /\ d.flags = FreshFlags
  BY DEF Fresh
<1> HIDE DEF d
<1>7. /\ d.timeouts = {c \in DOMAIN d.truth : d.truth[c].why = "timeout"}
      /\ DOMAIN d.flags \subseteq DOMAIN d.truth
      /\ \A c \in DOMAIN d.flags : d.flags[c] = d.truth[c].outcome
  BY <1>3, <1>6, ScoredTyped DEF TimedOut
<1> QED BY <1>1, <1>3, <1>4, <1>5, <1>6, <1>7 DEF Reconciled, d

------------------------------------------------------------------------------
(* What a campaign assembles can be trusted.                               *)

LEMMA RequestIs ==
    ASSUME ServingTypeOK
    PROVE  /\ request.ceiling \in Ceilings /\ request.timeout \in Nat
           /\ request.budget \in Candidates
           /\ EffectiveCeiling(request.ceiling) \in Nat
           /\ EffectiveCeiling(request.ceiling) <= Unlimited
           /\ Unlimited \in Nat /\ \A c \in Candidates : Memory[c] \in Nat
<1>1. request.ceiling \in Ceilings /\ request.timeout \in Nat /\ request.budget \in Candidates
  BY DEF ServingTypeOK, Requests
<1> QED BY <1>1, EffectiveIs, ServingAssumption

\* A ceiling that decides nothing more may grow; one that decided stays.
LEMMA LargerHolds ==
    ASSUME ServingTypeOK, ~MemoryPinStale(rec)
    PROVE  /\ LargerCeiling \in Ceilings
           /\ EffectiveCeiling(LargerCeiling) = EffectiveCeiling(request.ceiling)
           /\ EffectiveCeiling(rec.ceiling) <= EffectiveCeiling(request.ceiling)
           /\ EffectiveCeiling(request.ceiling) < Unlimited => LargerCeiling = request.ceiling
           /\ rec.decided => LargerCeiling = rec.ceiling /\ request.ceiling = rec.ceiling
<1> DEFINE q == request.ceiling
           r == rec.ceiling
<1>1. /\ q \in Nat /\ r \in Nat /\ q \in Ceilings /\ r \in Ceilings /\ Unlimited \in Nat
      /\ EffectiveCeiling(q) \in Nat /\ EffectiveCeiling(r) \in Nat
  BY RequestIs, RecTyped, EffectiveIs DEF Ceilings
<1>2. EffectiveCeiling(r) <= EffectiveCeiling(q)
  <2>1. CASE rec.decided
    BY <1>1, <2>1 DEF MemoryPinStale
  <2>2. CASE ~rec.decided
    BY <1>1, <2>2 DEF MemoryPinStale
  <2> QED BY <2>1, <2>2
<1>3. rec.decided => q = r
  BY DEF MemoryPinStale
<1>4. LargerCeiling = IF EffectiveCeiling(q) > EffectiveCeiling(r) THEN q ELSE r
  BY DEF LargerCeiling
<1>5. EffectiveCeiling(q) = EffectiveCeiling(r) /\ EffectiveCeiling(q) < Unlimited => q = r
  BY <1>1 DEF EffectiveCeiling, Ceilings
<1> HIDE DEF q, r
<1>6. /\ LargerCeiling \in Ceilings
      /\ EffectiveCeiling(LargerCeiling) = EffectiveCeiling(q)
      /\ EffectiveCeiling(q) < Unlimited => LargerCeiling = q
      /\ rec.decided => LargerCeiling = r /\ q = r
  BY <1>1, <1>2, <1>3, <1>4, <1>5
<1> QED BY <1>2, <1>6 DEF q, r

LEMMA MergeBounding ==
    ASSUME ServingTypeOK, Measuring, Bounding(rec), ~MemoryPinStale(rec), TimeoutPinMatches(rec),
           NEW d, Merges(d)
    PROVE  Bounding(d)
<1>1. /\ DOMAIN d.truth = DOMAIN rec.truth \cup DOMAIN scores
      /\ \A c \in DOMAIN scores : d.truth[c] = scores[c]
      /\ \A c \in DOMAIN rec.truth \ DOMAIN scores : d.truth[c] = rec.truth[c]
      /\ d.ceiling = LargerCeiling /\ d.decided = (rec.decided \/ Decided) /\ d.timeout = rec.timeout
  BY TruthsTyped DEF Merges
<1>2. rec.timeout = request.timeout
  BY DEF TimeoutPinMatches
<1>3. EffectiveCeiling(rec.ceiling) \in Nat
  BY RecTyped, EffectiveIs
<1>4. ASSUME NEW c \in DOMAIN scores
      PROVE  /\ scores[c].why = "answer" => Memory[c] <= EffectiveCeiling(d.ceiling)
             /\ scores[c].why = "memory" => d.decided /\ scores[c].ceiling = d.ceiling
             /\ scores[c].timeout = d.timeout
  <2>1. scores[c].why = "memory" => Decided
    BY DEF Decided
  <2> QED BY <1>1, <1>2, <2>1, LargerHolds DEF Measuring
<1>5. ASSUME NEW c \in DOMAIN rec.truth
      PROVE  /\ rec.truth[c].why = "answer" => Memory[c] <= EffectiveCeiling(d.ceiling)
             /\ rec.truth[c].why = "memory" => d.decided /\ rec.truth[c].ceiling = d.ceiling
             /\ rec.truth[c].timeout = d.timeout
  <2>1. Memory[c] \in Nat
    BY RecTyped, RequestIs
  <2>2. rec.truth[c].why = "answer" => Memory[c] <= EffectiveCeiling(rec.ceiling)
    BY DEF Bounding
  <2>3. /\ rec.truth[c].why = "memory" => rec.decided /\ rec.truth[c].ceiling = rec.ceiling
        /\ rec.truth[c].timeout = rec.timeout
    BY DEF Bounding
  <2>4. rec.truth[c].why = "answer" => Memory[c] <= EffectiveCeiling(d.ceiling)
    BY <1>1, <1>3, <2>1, <2>2, LargerHolds, RequestIs
  <2>5. rec.truth[c].why = "memory" => d.decided /\ rec.truth[c].ceiling = d.ceiling
    BY <1>1, <2>3, LargerHolds
  <2> QED BY <1>1, <2>3, <2>4, <2>5
<1> QED BY <1>1, <1>4, <1>5 DEF Bounding

\* What was recorded and is not executed again would come out the same.
LEMMA RecordedWould ==
    ASSUME ServingTypeOK, Trusted(rec), ~MemoryPinStale(rec), TimeoutPinMatches(rec),
           NEW c \in DOMAIN rec.truth, c \notin DOMAIN rec.flags
    PROVE  Would(rec.truth[c], c, Bounds(request))
<1> DEFINE v == rec.truth[c]
<1>1. /\ v.why = "answer" => Memory[c] <= EffectiveCeiling(rec.ceiling)
      /\ v.why = "memory" => rec.decided /\ v.ceiling = rec.ceiling
      /\ v.timeout = rec.timeout
  BY DEF Trusted, Bounding
<1>2. /\ Memory[c] \in Nat /\ EffectiveCeiling(rec.ceiling) \in Nat
      /\ EffectiveCeiling(request.ceiling) \in Nat
      /\ EffectiveCeiling(rec.ceiling) <= EffectiveCeiling(request.ceiling)
      /\ rec.decided => request.ceiling = rec.ceiling
  BY RecTyped, RequestIs, EffectiveIs, LargerHolds
<1>3. v.why = "timeout" => v.timeout = request.timeout /\ v.timeout # 0
  <2>1. v.why = "timeout" => c \in rec.timeouts
    BY DEF Trusted, Reconciled
  <2>2. rec.timeout = request.timeout /\ (rec.timeout = 0 => rec.timeouts \subseteq DOMAIN rec.flags)
    BY DEF TimeoutPinMatches, TimeoutKillsReexecutable
  <2> QED BY <1>1, <2>1, <2>2
<1>4. v.why = "answer" => Memory[c] <= EffectiveCeiling(request.ceiling)
  BY <1>1, <1>2
<1> HIDE DEF v
<1>5. Bounds(request).ceiling = request.ceiling /\ Bounds(request).timeout = request.timeout
  BY DEF Bounds
<1> QED BY <1>1, <1>2, <1>3, <1>4, <1>5 DEF Would, v

\* What a completed process read, as its verdict tells.
LEMMA CompletedReads ==
    ASSUME ServingTypeOK, Measuring, ~Conflict,
           NEW c \in DOMAIN scores, scores[c].complete, ~setup.shaped
    PROVE  PinnedIn(scores[c].reads, CompletedUnion)
<1>1. CASE scores[c].outcome = "discarded"
  BY <1>1 DEF Measuring, PinnedIn
<1>2. CASE scores[c].outcome # "discarded"
  <2>1. c \in Completed
    BY <1>2 DEF Completed
  <2>2. c # 0
    BY ScoredTyped, ServingAssumption DEF Candidates
  <2> QED BY <2>1, <2>2, UnionPins DEF Reads
<1> QED BY <1>1, <1>2

LEMMA BaseReads ==
    ASSUME ServingTypeOK, ~Conflict
    PROVE  PinnedIn(base.reads, CompletedUnion)
BY UnionPins DEF Reads

LEMMA PinnedTransitive ==
    ASSUME NEW a, NEW b, NEW c, PinnedIn(a, b), PinnedIn(b, c)
    PROVE  PinnedIn(a, c)
BY DEF PinnedIn

LEMMA MergeUnion ==
    ASSUME NEW d, Merges(d), ~d.unverifiable
    PROVE  ~Conflict /\ PinnedIn(CompletedUnion, d.pins) /\ d.pins = rec.pins /\ ~rec.unverifiable
<1>1. ~SplicedUnionDiverged /\ d.pins = rec.pins /\ ~rec.unverifiable
  BY DEF Merges
<1>2. ~Conflict /\ SplicedUnion = d.pins
  BY <1>1 DEF SplicedUnionDiverged
<1> QED BY <1>1, <1>2, SplicedUnionHolds

LEMMA MergePins ==
    ASSUME ServingTypeOK, Measuring, PinsReads(rec), NEW d, Merges(d)
    PROVE  PinsReads(d) /\ (~d.unverifiable => PinnedIn(base.reads, d.pins))
<1> SUFFICES ASSUME ~d.unverifiable
             PROVE  /\ \A c \in DOMAIN d.truth :
                           d.truth[c].complete /\ ~setup.shaped => PinnedIn(d.truth[c].reads, d.pins)
                    /\ PinnedIn(base.reads, d.pins)
  BY DEF PinsReads
<1>1. ~Conflict /\ PinnedIn(CompletedUnion, d.pins) /\ d.pins = rec.pins /\ ~rec.unverifiable
  BY MergeUnion
<1>2. /\ DOMAIN d.truth = DOMAIN rec.truth \cup DOMAIN scores
      /\ \A c \in DOMAIN scores : d.truth[c] = scores[c]
      /\ \A c \in DOMAIN rec.truth \ DOMAIN scores : d.truth[c] = rec.truth[c]
  BY TruthsTyped DEF Merges
<1>3. ASSUME NEW c \in DOMAIN d.truth, d.truth[c].complete, ~setup.shaped
      PROVE  PinnedIn(d.truth[c].reads, d.pins)
  <2>1. CASE c \in DOMAIN scores
    <3>1. PinnedIn(scores[c].reads, CompletedUnion)
      BY <1>1, <1>2, <1>3, <2>1, CompletedReads
    <3>2. PinnedIn(scores[c].reads, d.pins)
      BY <1>1, <3>1, PinnedTransitive
    <3> QED BY <1>2, <2>1, <3>2
  <2>2. CASE c \notin DOMAIN scores
    BY <1>1, <1>2, <1>3, <2>2 DEF PinsReads
  <2> QED BY <2>1, <2>2
<1>4. PinnedIn(base.reads, d.pins)
  BY <1>1, BaseReads, PinnedTransitive
<1> QED BY <1>3, <1>4

LEMMA MergeTrusted ==
    ASSUME ServingTypeOK, Measuring, Trusted(rec), ~MemoryPinStale(rec), TimeoutPinMatches(rec),
           NEW d, Merges(d), Reconciled(d), DOMAIN rec.flags \subseteq DOMAIN scores
    PROVE  Trusted(d)
<1>1. Bounding(d) /\ PinsReads(d)
  BY MergeBounding, MergePins DEF Trusted
<1>2. KeepsWhatWould(d)
  <2>1. /\ DOMAIN d.truth = DOMAIN rec.truth \cup DOMAIN scores
        /\ \A c \in DOMAIN rec.truth \ DOMAIN scores : d.truth[c] = rec.truth[c]
        /\ d.carried = DOMAIN rec.truth \ DOMAIN scores /\ d.asked = Bounds(request)
    BY TruthsTyped DEF Merges
  <2>2. ASSUME NEW c \in DOMAIN rec.truth \ DOMAIN scores
        PROVE  Would(rec.truth[c], c, Bounds(request))
    BY RecordedWould
  <2> QED BY <2>1, <2>2 DEF KeepsWhatWould
<1> QED BY <1>1, <1>2 DEF Trusted

LEMMA FreshTrusted ==
    ASSUME ServingTypeOK, Measuring, NEW n \in Candidates, DOMAIN scores = 1 .. n
    PROVE  Trusted(Fresh) /\ (~Fresh.unverifiable => PinnedIn(base.reads, Fresh.pins))
<1> DEFINE d == Fresh
<1>1. Reconciled(d)
  BY FreshReconciles
<1>2. /\ d.truth = scores /\ d.ceiling = request.ceiling /\ d.decided = Decided
      /\ d.timeout = request.timeout /\ d.carried = {}
      /\ d.pins = CompletedUnion /\ d.unverifiable = Conflict
  BY DEF Fresh
<1> HIDE DEF d
<1>3. Bounding(d)
  <2>1. \A c \in DOMAIN scores : scores[c].why = "memory" => Decided
    BY DEF Decided
  <2> QED BY <1>2, <2>1 DEF Bounding, Measuring
<1>4. KeepsWhatWould(d)
  BY <1>2 DEF KeepsWhatWould
<1>5. PinsReads(d)
  BY <1>2, CompletedReads DEF PinsReads
<1>6. ~d.unverifiable => PinnedIn(base.reads, d.pins)
  BY <1>2, BaseReads
<1> QED BY <1>1, <1>3, <1>4, <1>5, <1>6 DEF Trusted, d

------------------------------------------------------------------------------
(* What a step leaves alone.                                               *)

LEMMA RecordStays ==
    ASSUME Stored, setup' = setup, rec' = rec
    PROVE  Trusted(rec)' /\ OfCode(rec, rec.code)' /\ CleanNamesItsCommit'
<1>1. \A o : TruthOf(rec, o)' = TruthOf(rec, o)
  BY DEF TruthOf
<1>2. Reconciled(rec)'
  BY <1>1 DEF Stored, Trusted, Reconciled
<1>3. Bounding(rec)'
  BY DEF Stored, Trusted, Bounding, EffectiveCeiling
<1>4. KeepsWhatWould(rec)'
  BY DEF Stored, Trusted, KeepsWhatWould, Would, EffectiveCeiling
<1>5. PinsReads(rec)'
  BY DEF Stored, Trusted, PinsReads, PinnedIn
<1>6. OfCode(rec, rec.code)' /\ CleanNamesItsCommit'
  BY DEF Stored, OfCode, CleanNamesItsCommit
<1> QED BY <1>2, <1>3, <1>4, <1>5, <1>6 DEF Trusted

LEMMA StoredStays ==
    ASSUME Stored, setup' = setup, rec' = rec, bank' = bank
    PROVE  Stored'
<1>1. BankOneTree'
  BY DEF Stored, BankOneTree
<1> QED BY <1>1, RecordStays DEF Stored

LEMMA NotDrafting ==
    ASSUME at' \notin Drafting
    PROVE  Drafted' /\ Quietly'
BY DEF Drafted, Quietly

LEMMA NotWorking ==
    ASSUME at' \notin Working
    PROVE  Chosen'
BY DEF Chosen

\* A record that says the same of its verdicts is trusted as much.
SaysTheSame(r, s) ==
    /\ s.generated = r.generated /\ s.code = r.code /\ s.pins = r.pins
    /\ s.survivors = r.survivors /\ s.kills = r.kills /\ s.timeouts = r.timeouts
    /\ s.flags = r.flags /\ s.tally = r.tally
    /\ s.ceiling = r.ceiling /\ s.decided = r.decided /\ s.timeout = r.timeout
    /\ s.truth = r.truth /\ s.carried = r.carried /\ s.asked = r.asked
    /\ ~s.unverifiable => ~r.unverifiable

LEMMA TrustedAlike ==
    ASSUME NEW r, NEW s, Trusted(r), SaysTheSame(r, s)
    PROVE  Trusted(s)
<1>1. Reconciled(s)
  <2>1. \A o : TruthOf(s, o) = TruthOf(r, o)
    BY DEF TruthOf, SaysTheSame
  <2> QED BY <2>1 DEF Trusted, Reconciled, SaysTheSame
<1>2. Bounding(s)
  BY DEF Trusted, Bounding, SaysTheSame
<1>3. KeepsWhatWould(s)
  BY DEF Trusted, KeepsWhatWould, SaysTheSame
<1>4. PinsReads(s)
  BY DEF Trusted, PinsReads, SaysTheSame
<1> QED BY <1>1, <1>2, <1>3, <1>4 DEF Trusted

LEMMA TrustedNext ==
    ASSUME setup' = setup, NEW r, Trusted(r), draft' = r
    PROVE  Trusted(draft)'
<1>1. \A o : TruthOf(draft, o)' = TruthOf(r, o)
  BY DEF TruthOf
<1>2. Reconciled(draft)'
  BY <1>1 DEF Trusted, Reconciled
<1>3. Bounding(draft)'
  BY DEF Trusted, Bounding, EffectiveCeiling
<1>4. KeepsWhatWould(draft)'
  BY DEF Trusted, KeepsWhatWould, Would, EffectiveCeiling
<1>5. PinsReads(draft)'
  BY DEF Trusted, PinsReads, PinnedIn
<1> QED BY <1>2, <1>3, <1>4, <1>5 DEF Trusted

LEMMA UnrecordedTyped == Unrecorded \in RecordTypes
<1>1. Nothing \in Manifests
  BY ManifestIs DEF Nothing
<1>2. [c \in {} |-> 0] \in UNION {[S -> VerdictTypes] : S \in SUBSET Candidates}
  BY ScoresAre
<1>3. [c \in {} |-> "killed"] \in UNION {[S -> Outcomes] : S \in SUBSET Candidates}
  BY FlagsAre
<1>4. 0 \in Ceilings
  BY ServingAssumption DEF Ceilings
<1>5. Bounds(NoRequest) \in [ceiling : Nat, timeout : Nat]
  BY DEF Bounds, NoRequest
<1>6. [o \in Outcomes |-> 0] \in [Outcomes -> Int]
  OBVIOUS
<1>7. [code |-> 0, input |-> Nothing] \in [code : Nat, input : Manifests]
  BY <1>1
<1> QED BY <1>1, <1>2, <1>3, <1>4, <1>5, <1>6, <1>7 DEF Unrecorded, RecordTypes

LEMMA LeavesKeeps ==
    ASSUME ServingInv, Leaves, UNCHANGED tree, rec' \in RecordTypes, bank' \in BankTypes
    PROVE  /\ ServingTypeOK'
           /\ Campaigning' /\ Measuring' /\ Chosen' /\ Drafted' /\ Quietly'
<1>1. ServingTypeOK'
  <2>1. NoRequest \in Requests /\ NoRequest.ceiling \in Ceilings
    BY ServingAssumption DEF NoRequest, Requests, Candidates, Ceilings
  <2>2. NoBaseline \in Baselines
    BY ManifestIs DEF NoBaseline, Baselines, Nothing
  <2>3. [c \in {} |-> 0] \in UNION {[S -> VerdictTypes] : S \in SUBSET Candidates}
    BY ScoresAre
  <2> QED BY <2>1, <2>2, <2>3, UnrecordedTyped DEF ServingInv, ServingTypeOK, Leaves, tree, Steps
<1>2. Campaigning' /\ Measuring'
  BY DEF ServingInv, ServingTypeOK, Leaves, tree, Campaigning, Measuring
<1>3. Chosen' /\ Drafted' /\ Quietly'
  BY NotDrafting, NotWorking DEF Leaves, Drafting, Working
<1> QED BY <1>1, <1>2, <1>3

------------------------------------------------------------------------------
(* The decision.                                                           *)

LEMMA BeginKeeps == ServingInv /\ Begin => ServingInv'
<1> SUFFICES ASSUME ServingInv, Begin PROVE ServingInv'
  OBVIOUS
<1>1. ServingTypeOK'
  <2>1. IsSetup(setup)
    BY ServingAssumption DEF ServingInv, ServingTypeOK
  <2>2. campaigns + 1 \in DOMAIN setup.asks /\ setup.asks[campaigns + 1] \in Requests
    BY <2>1 DEF IsSetup, ServingInv, ServingTypeOK, Begin
  <2>3. setup.asks[campaigns + 1].ceiling \in Ceilings
    BY <2>1, <2>2, ServingAssumption DEF IsSetup, Requests, Ceilings
  <2>4. campaigns + 1 \in 0 .. Len(setup.asks)
    BY <2>1, <2>2 DEF IsSetup, ServingInv, ServingTypeOK
  <2> QED BY <2>2, <2>3, <2>4 DEF ServingInv, ServingTypeOK, Begin, tree, work, Steps
<1>2. Campaigning' /\ Measuring'
  BY DEF ServingInv, ServingTypeOK, Begin, tree, work, Campaigning, Measuring, Drafting
<1>3. Chosen' /\ Drafted' /\ Quietly'
  BY NotDrafting, NotWorking DEF Begin, Drafting, Working
<1>4. Stored'
  BY StoredStays DEF ServingInv, Begin, tree
<1> QED BY <1>1, <1>2, <1>3, <1>4 DEF ServingInv

\* A decision with the grounds it lasts on.
Grounds(k, S) ==
    /\ k \in {"measure", "splice", "extend"} /\ S \in SUBSET Candidates
    /\ k = "measure" => \E n \in Candidates : S = 1 .. n
    /\ k \in {"splice", "extend"} =>
           /\ rec.code = view /\ ~rec.unverifiable
           /\ TimeoutPinMatches(rec) /\ ~MemoryPinStale(rec)
    /\ k = "splice" => S = DOMAIN rec.flags
    /\ k = "extend" =>
           /\ DOMAIN rec.flags = {} /\ rec.generated < request.budget
           /\ S = rec.generated + 1 .. request.budget

LEMMA GroundsNext ==
    ASSUME NEW k, NEW S, Grounds(k, S), kind' = k, todo' = S, DOMAIN scores' = {},
           rec' = rec, request' = request, view' = view
    PROVE  Chosen'
BY DEF Grounds, Chosen, TimeoutPinMatches, TimeoutKillsReexecutable, MemoryPinStale, EffectiveCeiling

LEMMA DecidesKeeps ==
    ASSUME ServingInv, at = "deciding", NEW k, NEW S, Grounds(k, S), Decides(k, S)
    PROVE  ServingInv'
<1>1. ServingTypeOK'
  BY DEF ServingInv, ServingTypeOK, Decides, Grounds, tree, planned, Steps
<1>2. DOMAIN scores = {} /\ ~waits
  BY DEF ServingInv, Campaigning, Drafting
<1>3. Campaigning' /\ Measuring'
  BY <1>2 DEF ServingInv, Decides, tree, planned, Campaigning, Measuring, Drafting
<1>4. Chosen'
  BY <1>2, GroundsNext DEF Decides, planned
<1>5. Drafted' /\ Quietly'
  BY NotDrafting DEF Decides, Drafting
<1>6. Stored'
  BY StoredStays DEF ServingInv, Decides, tree
<1> QED BY <1>1, <1>3, <1>4, <1>5, <1>6 DEF ServingInv

LEMMA EverythingIs ==
    ASSUME ServingTypeOK
    PROVE  Everything \in SUBSET Candidates /\ \E n \in Candidates : Everything = 1 .. n
<1>1. Size \in Candidates /\ request.budget \in Candidates
  BY RequestIs, ServingAssumption DEF Candidates
<1>2. 1 .. request.budget \subseteq Candidates
  BY <1>1, ServingAssumption DEF Candidates
<1> QED BY <1>1, <1>2 DEF Everything, Candidates

LEMMA MatchesIs ==
    ASSUME Matches
    PROVE  /\ TimeoutPinMatches(rec) /\ ~MemoryPinStale(rec)
           /\ ~rec.unverifiable /\ Stands(rec.pins) /\ rec.code = view
BY DEF Matches, ShapedMatches, EvidenceMatches, EvidenceHolds

LEMMA RemeasuresKeeps == ServingInv /\ Remeasures => ServingInv'
<1> SUFFICES ASSUME ServingInv, Remeasures PROVE ServingInv'
  OBVIOUS
<1>1. Grounds("measure", Everything)
  BY EverythingIs DEF Grounds, ServingInv
<1> QED BY <1>1, DecidesKeeps DEF Remeasures

LEMMA SplicesKeeps == ServingInv /\ Splices => ServingInv'
<1> SUFFICES ASSUME ServingInv, Splices PROVE ServingInv'
  OBVIOUS
<1>1. DOMAIN rec.flags \in SUBSET Candidates
  <2>1. rec.flags \in UNION {[S -> Outcomes] : S \in SUBSET Candidates}
    BY DEF ServingInv, ServingTypeOK, RecordTypes
  <2> QED BY <2>1, FlagsAre
<1>2. Grounds("splice", DOMAIN rec.flags)
  BY <1>1, MatchesIs DEF Grounds, Splices
<1> QED BY <1>2, DecidesKeeps DEF Splices

LEMMA ExtendsKeeps == ServingInv /\ Extends => ServingInv'
<1> SUFFICES ASSUME ServingInv, Extends PROVE ServingInv'
  OBVIOUS
<1>1. rec.generated \in Nat /\ request.budget \in Nat /\ request.budget <= Size /\ Size \in Nat
  BY RecTyped, RequestIs, ServingAssumption DEF ServingInv, Candidates
<1>2. rec.generated < request.budget
  BY <1>1 DEF Extends, Covers, BudgetCovers
<1>3. rec.generated + 1 .. request.budget \in SUBSET Candidates
  BY <1>1 DEF Candidates
<1>4. Grounds("extend", rec.generated + 1 .. request.budget)
  BY <1>2, <1>3, MatchesIs DEF Grounds, Extends, Flagged
<1> QED BY <1>4, DecidesKeeps DEF Extends

LEMMA UnidentifiedKeeps == ServingInv /\ Unidentified => ServingInv'
<1> SUFFICES ASSUME ServingInv, Unidentified PROVE ServingInv'
  OBVIOUS
<1>1. Grounds("measure", Everything)
  BY EverythingIs DEF Grounds, ServingInv
<1>2. DOMAIN scores = {}
  BY DEF ServingInv, Campaigning, Drafting, Unidentified
<1>3. ServingTypeOK'
  BY <1>1 DEF ServingInv, ServingTypeOK, Unidentified, Grounds, tree, planned
<1>4. Campaigning' /\ Measuring'
  BY DEF ServingInv, Unidentified, tree, planned, Campaigning, Measuring
<1>5. Chosen'
  BY <1>1, <1>2, GroundsNext DEF Unidentified, planned
<1>6. Drafted' /\ Quietly'
  BY NotDrafting DEF Unidentified, Drafting
<1>7. Stored'
  BY StoredStays DEF ServingInv, Unidentified, tree
<1> QED BY <1>3, <1>4, <1>5, <1>6, <1>7 DEF ServingInv

LEMMA GivesUpKeeps == ServingInv /\ GivesUp => ServingInv'
<1> SUFFICES ASSUME ServingInv, GivesUp PROVE ServingInv'
  OBVIOUS
<1>1. rec' \in RecordTypes /\ bank' \in BankTypes
  BY DEF ServingInv, ServingTypeOK, GivesUp
<1>2. Stored'
  BY StoredStays DEF ServingInv, GivesUp, tree
<1> QED BY <1>1, <1>2, LeavesKeeps DEF GivesUp, ServingInv

LEMMA ServesWholeKeeps == ServingInv /\ ServesWhole => ServingInv'
<1> SUFFICES ASSUME ServingInv, ServesWhole PROVE ServingInv'
  OBVIOUS
<1> USE DEF ServingInv
<1>1. PICK d : d = [rec EXCEPT !.carried = 1 .. rec.generated, !.asked = Bounds(request), !.quiet = TRUE]
  OBVIOUS
<1>2. draft' = d /\ at' = "stamping"
  BY <1>1 DEF ServesWhole
<1>3. /\ rec \in RecordTypes /\ Trusted(rec) /\ OfCode(rec, rec.code)
      /\ TimeoutPinMatches(rec) /\ ~MemoryPinStale(rec)
      /\ ~rec.unverifiable /\ Stands(rec.pins) /\ rec.code = view /\ code = view
      /\ DOMAIN rec.flags = {} /\ ~waits
  BY RecTyped, MatchesIs DEF ServesWhole, Stored, Unmoved, Flagged, Campaigning
<1>4. 1 .. rec.generated = DOMAIN rec.truth /\ DOMAIN rec.truth \subseteq Candidates
  BY <1>3, RecTyped DEF Trusted, Reconciled
<1>5. /\ d \in RecordTypes
      /\ d.carried = DOMAIN rec.truth /\ d.asked = Bounds(request) /\ d.quiet = TRUE
      /\ d.generated = rec.generated /\ d.code = rec.code /\ d.pins = rec.pins
      /\ d.survivors = rec.survivors /\ d.kills = rec.kills /\ d.timeouts = rec.timeouts
      /\ d.flags = rec.flags /\ d.tally = rec.tally
      /\ d.ceiling = rec.ceiling /\ d.decided = rec.decided /\ d.timeout = rec.timeout
      /\ d.truth = rec.truth /\ d.unverifiable = rec.unverifiable
  <2>1. Bounds(request) \in [ceiling : Nat, timeout : Nat]
    BY DEF Bounds, ServingTypeOK, Requests
  <2>2. d \in RecordTypes
    BY <1>1, <1>3, <1>4, <2>1 DEF RecordTypes
  <2>3. d.carried = DOMAIN rec.truth /\ d.asked = Bounds(request) /\ d.quiet = TRUE
    BY <1>1, <1>3, <1>4 DEF RecordTypes
  <2>4. /\ d.generated = rec.generated /\ d.code = rec.code /\ d.pins = rec.pins
        /\ d.survivors = rec.survivors /\ d.kills = rec.kills /\ d.timeouts = rec.timeouts
        /\ d.flags = rec.flags /\ d.tally = rec.tally
        /\ d.ceiling = rec.ceiling /\ d.decided = rec.decided /\ d.timeout = rec.timeout
        /\ d.truth = rec.truth /\ d.unverifiable = rec.unverifiable
    BY <1>1, <1>3 DEF RecordTypes
  <2> QED BY <2>2, <2>3, <2>4
<1>6. Trusted(d)
  <2>1. Reconciled(d)
    <3>1. \A o : TruthOf(d, o) = TruthOf(rec, o)
      BY <1>5 DEF TruthOf
    <3>2. Reconciled(rec)
      BY <1>3 DEF Trusted
    <3>3. d.tally = [o \in Outcomes |-> Cardinality(TruthOf(d, o))]
      BY <1>5, <3>1, <3>2 DEF Reconciled
    <3>4. d.timeouts = {c \in DOMAIN d.truth : d.truth[c].why = "timeout"}
      BY <1>5, <3>2 DEF Reconciled
    <3> QED BY <1>5, <3>1, <3>2, <3>3, <3>4 DEF Reconciled
  <2>2. Bounding(d) /\ PinsReads(d)
    BY <1>3, <1>5 DEF Trusted, Bounding, PinsReads
  <2>3. \A c \in DOMAIN rec.truth : Would(rec.truth[c], c, Bounds(request))
    BY <1>3, RecordedWould
  <2>4. KeepsWhatWould(d)
    BY <1>5, <2>3 DEF KeepsWhatWould
  <2> QED BY <2>1, <2>2, <2>4 DEF Trusted
<1>7. ServingTypeOK'
  BY <1>2, <1>5 DEF ServingTypeOK, ServesWhole, tree, planned, Steps
<1>8. Campaigning' /\ Measuring'
  BY DEF ServesWhole, tree, planned, Campaigning, Measuring, Drafting
<1>9. Chosen'
  BY NotWorking DEF ServesWhole, Working
<1>10. Stored'
  BY StoredStays DEF ServesWhole, tree
<1>11. Drafted'
  <2>1. Trusted(draft)'
    BY <1>2, <1>6, TrustedNext DEF ServesWhole, tree
  <2>2. draft'.code = view' /\ OfCode(draft, draft.code)' /\ ~waits'
    BY <1>2, <1>3, <1>5 DEF OfCode, ServesWhole, planned
  <2> QED BY <1>2, <2>1, <2>2 DEF Drafted
<1>12. Quietly'
  BY <1>2, <1>3, <1>5 DEF Quietly, Stands, ServesWhole, tree
<1> QED BY <1>7, <1>8, <1>9, <1>10, <1>11, <1>12

------------------------------------------------------------------------------
(* The baseline, the execution, the record.                                *)

LEMMA ChosenStays ==
    ASSUME Chosen, at \in Working, UNCHANGED <<kind, todo, rec, request, view>>,
           DOMAIN scores' \subseteq todo
    PROVE  Chosen'
BY DEF Chosen, TimeoutPinMatches, TimeoutKillsReexecutable, MemoryPinStale, EffectiveCeiling

LEMMA BankServesKeeps == ServingInv /\ BankServes => ServingInv'
<1> SUFFICES ASSUME ServingInv, BankServes PROVE ServingInv'
  OBVIOUS
<1> USE DEF ServingInv
<1>1. ServingTypeOK'
  BY DEF ServingTypeOK, BankServes, BankTypes, tree, planned, work, Steps
<1>2. bank.base.measured = view
  BY DEF Stored, BankOneTree, BankServes, BankPinsHold, EvidenceHolds
<1>3. view \in Nat /\ code \in Nat /\ view <= code
  BY DEF ServingTypeOK, Campaigning
<1>4. DOMAIN scores = {}
  BY DEF BankServes, Campaigning, Drafting
<1>5. Campaigning' /\ Measuring'
  BY <1>2, <1>3, <1>4 DEF BankServes, tree, planned, Campaigning, Measuring
<1>6. Chosen'
  BY <1>4, ChosenStays DEF BankServes, planned, work, Working
<1>7. Drafted' /\ Quietly'
  BY NotDrafting DEF BankServes, Drafting
<1>8. Stored'
  BY StoredStays DEF BankServes, tree
<1> QED BY <1>1, <1>5, <1>6, <1>7, <1>8

LEMMA ProbesKeeps == ServingInv /\ Probes => ServingInv'
<1> SUFFICES ASSUME ServingInv, Probes PROVE ServingInv'
  OBVIOUS
<1> USE DEF ServingInv
<1>1. PICK S \in SUBSET Inputs, b \in DerivedBudgets :
          base' = [reads |-> Observed(S), budget |-> b, measured |-> code]
  BY DEF Probes
<1>2. b \in Nat
  BY ServingAssumption DEF DerivedBudgets
<1>3. base' \in Baselines
  BY <1>1, <1>2, ObservedTyped DEF Baselines, ServingTypeOK
<1>4. ServingTypeOK'
  BY <1>3 DEF ServingTypeOK, Probes, tree, planned, work, Steps
<1>5. view \in Nat /\ code \in Nat /\ view <= code /\ base'.measured = code
  BY <1>1 DEF ServingTypeOK, Campaigning
<1>6. DOMAIN scores = {}
  BY DEF Probes, Campaigning, Drafting
<1>7. Campaigning' /\ Measuring'
  BY <1>5, <1>6 DEF Probes, tree, planned, Campaigning, Measuring, Drafting
<1>8. Chosen'
  BY <1>6, ChosenStays DEF Probes, planned, work, Working
<1>9. Drafted' /\ Quietly'
  BY NotDrafting DEF Probes, Drafting
<1>10. Stored'
  BY StoredStays DEF Probes, tree
<1> QED BY <1>4, <1>7, <1>8, <1>9, <1>10

LEMMA DepositsKeeps == ServingInv /\ Deposits => ServingInv'
<1> SUFFICES ASSUME ServingInv, Deposits PROVE ServingInv'
  OBVIOUS
<1> USE DEF ServingInv
<1>1. bank' = [held |-> TRUE, code |-> view, pins |-> base.reads, unverifiable |-> FALSE, base |-> base]
  BY DEF Deposits, Deposited
<1>2. bank' \in BankTypes
  BY <1>1 DEF BankTypes, ServingTypeOK, Baselines
<1>3. ServingTypeOK'
  BY <1>2 DEF ServingTypeOK, Deposits, tree, planned, work, Steps
<1>4. /\ view \in Nat /\ code \in Nat /\ base.measured \in Nat
      /\ view <= base.measured /\ base.measured <= code /\ code = view
  BY DEF ServingTypeOK, Baselines, Measuring, Deposits, Unmoved
<1>5. base.measured = view
  BY <1>4
<1>6. DOMAIN scores = {}
  BY DEF Deposits, Campaigning, Drafting
<1>7. Campaigning' /\ Measuring'
  BY <1>4, <1>6 DEF Deposits, tree, planned, Campaigning, Measuring
<1>8. Chosen'
  BY <1>6, ChosenStays DEF Deposits, planned, work, Working
<1>9. Drafted' /\ Quietly'
  BY NotDrafting DEF Deposits, Drafting
<1>10. BankOneTree'
  BY <1>1, <1>5 DEF BankOneTree
<1>11. Stored'
  BY <1>10, RecordStays DEF Stored, Deposits, tree
<1> QED BY <1>3, <1>7, <1>8, <1>9, <1>11

LEMMA DefersDepositKeeps == ServingInv /\ DefersDeposit => ServingInv'
<1> SUFFICES ASSUME ServingInv, DefersDeposit PROVE ServingInv'
  OBVIOUS
<1> USE DEF ServingInv
<1>1. ServingTypeOK'
  BY DEF ServingTypeOK, DefersDeposit, tree, planned, work, Steps
<1>2. DOMAIN scores = {}
  BY DEF DefersDeposit, Campaigning, Drafting
<1>3. Campaigning' /\ Measuring'
  BY <1>2 DEF DefersDeposit, tree, planned, Campaigning, Measuring
<1>4. Chosen'
  BY <1>2, ChosenStays DEF DefersDeposit, planned, work, Working
<1>5. Drafted' /\ Quietly'
  BY NotDrafting DEF DefersDeposit, Drafting
<1>6. Stored'
  BY StoredStays DEF DefersDeposit, tree
<1> QED BY <1>1, <1>3, <1>4, <1>5, <1>6

LEMMA ExecutesKeeps == ServingInv /\ Executes => ServingInv'
<1> SUFFICES ASSUME ServingInv, Executes PROVE ServingInv'
  OBVIOUS
<1> USE DEF ServingInv
<1>1. PICK c \in todo \ DOMAIN scores : \E v \in Verdicts(c) :
          scores' = [d \in DOMAIN scores \cup {c} |-> IF d = c THEN v ELSE scores[d]]
  BY DEF Executes
<1>2. PICK v \in Verdicts(c) :
          scores' = [d \in DOMAIN scores \cup {c} |-> IF d = c THEN v ELSE scores[d]]
  BY <1>1
<1>3. c \in Candidates /\ c \in todo
  BY <1>1 DEF ServingTypeOK
<1>4. /\ v \in VerdictTypes
      /\ v.code = code /\ v.ceiling = request.ceiling /\ v.timeout = request.timeout
      /\ v.why = "answer" => Memory[c] <= EffectiveCeiling(request.ceiling)
      /\ v.why = "memory" => EffectiveCeiling(request.ceiling) < Unlimited
      /\ v.outcome = "discarded" => DOMAIN v.reads = {}
  BY <1>3, VerdictsAre
<1>5. /\ DOMAIN scores' = DOMAIN scores \cup {c}
      /\ scores'[c] = v
      /\ \A d \in DOMAIN scores \ {c} : scores'[d] = scores[d]
  BY <1>2
<1>6. scores' \in UNION {[S -> VerdictTypes] : S \in SUBSET Candidates}
  <2>1. DOMAIN scores' \subseteq Candidates /\ scores' \in [DOMAIN scores' -> VerdictTypes]
    BY <1>2, <1>3, <1>4, ScoredTyped
  <2> QED BY <2>1, ScoresAre
<1>7. ServingTypeOK'
  BY <1>6 DEF ServingTypeOK, Executes, tree, planned, work
<1>8. view \in Nat /\ code \in Nat /\ view <= code /\ at = "executing" /\ at' = "executing"
  BY DEF ServingTypeOK, Campaigning, Executes
<1>9. Campaigning'
  BY <1>8 DEF Campaigning, Executes, tree, planned
<1>10. Measuring'
  <2>1. request' = request /\ view' = view /\ code' = code /\ base' = base
    BY DEF Executes, tree, planned
  <2>2. ASSUME NEW d \in DOMAIN scores'
        PROVE  /\ scores'[d].why = "answer" => Memory[d] <= EffectiveCeiling(request.ceiling)
               /\ scores'[d].why = "memory" => EffectiveCeiling(request.ceiling) < Unlimited
               /\ scores'[d].outcome = "discarded" => DOMAIN scores'[d].reads = {}
               /\ scores'[d].ceiling = request.ceiling /\ scores'[d].timeout = request.timeout
               /\ view <= scores'[d].code /\ scores'[d].code <= code
    <3>1. CASE d = c
      BY <1>4, <1>5, <1>8, <3>1
    <3>2. CASE d # c
      BY <1>5, <1>8, <3>2 DEF Measuring
    <3> QED BY <3>1, <3>2
  <2>3. view <= base.measured /\ base.measured <= code
    BY <1>8 DEF Measuring
  <2> QED BY <2>1, <2>2, <2>3 DEF Measuring, EffectiveCeiling
<1>11. Chosen'
  <2>1. DOMAIN scores' \subseteq todo
    BY <1>3, <1>5, <1>8 DEF Chosen, Working
  <2> QED BY <1>8, <2>1, ChosenStays DEF Executes, planned, work, Working
<1>12. Drafted' /\ Quietly'
  BY <1>8, NotDrafting DEF Drafting
<1>13. Stored'
  BY StoredStays DEF Executes, tree
<1> QED BY <1>7, <1>9, <1>10, <1>11, <1>12, <1>13

LEMMA DrainsKeeps == ServingInv /\ Drains => ServingInv'
<1> SUFFICES ASSUME ServingInv, Drains PROVE ServingInv'
  OBVIOUS
<1> USE DEF ServingInv
<1>1. at = "executing" /\ at' = "executing" /\ kind = "measure"
  BY DEF Drains
<1>2. PICK n \in todo : DOMAIN scores = 1 .. n
  BY DEF Drains
<1>3. n \in Candidates /\ DOMAIN scores \in SUBSET Candidates
  BY <1>2, ScoredTyped DEF ServingTypeOK
<1>4. ServingTypeOK'
  BY <1>3 DEF ServingTypeOK, Drains, tree, planned
<1>5. Campaigning' /\ Measuring'
  BY <1>1 DEF Drains, tree, planned, Campaigning, Measuring, EffectiveCeiling
<1>6. Chosen'
  <2>1. kind' = "measure" /\ todo' = 1 .. n /\ DOMAIN scores' = 1 .. n
    BY <1>1, <1>2 DEF Drains
  <2> QED BY <1>3, <2>1 DEF Chosen
<1>7. Drafted' /\ Quietly'
  BY <1>1, NotDrafting DEF Drafting
<1>8. Stored'
  BY StoredStays DEF Drains, tree
<1> QED BY <1>4, <1>5, <1>6, <1>7, <1>8

LEMMA MergeStands ==
    ASSUME NEW d, Merges(d), ~d.unverifiable, Stands(CompletedUnion)
    PROVE  Stands(d.pins)
<1>1. SplicedUnion = d.pins
  BY DEF Merges, SplicedUnionDiverged
<1> QED BY <1>1, SplicedUnionStands

\* What is about to be drafted.
Drafts(d) ==
    /\ d \in RecordTypes /\ Trusted(d) /\ d.code = view
    /\ ~d.unverifiable => PinnedIn(base.reads, d.pins) /\ Stands(d.pins)
    /\ \A c \in DOMAIN d.truth : view <= d.truth[c].code /\ d.truth[c].code <= code

LEMMA MergeDrafts ==
    ASSUME ServingInv, at = "executing", kind \in {"splice", "extend"}, Stands(CompletedUnion),
           NEW d \in RecordTypes, Merges(d), Reconciled(d), DOMAIN rec.flags \subseteq DOMAIN scores
    PROVE  Drafts(d)
<1> USE DEF ServingInv
<1>1. /\ rec.code = view /\ TimeoutPinMatches(rec) /\ ~MemoryPinStale(rec)
  BY DEF Chosen, Working
<1>2. Trusted(rec) /\ OfCode(rec, rec.code)
  BY DEF Stored
<1>3. Trusted(d)
  BY <1>1, <1>2, MergeTrusted
<1>4. ~d.unverifiable => PinnedIn(base.reads, d.pins) /\ Stands(d.pins)
  BY <1>2, MergePins, MergeStands DEF Trusted
<1>5. \A c \in DOMAIN d.truth : view <= d.truth[c].code /\ d.truth[c].code <= code
  <2>1. /\ DOMAIN d.truth = DOMAIN rec.truth \cup DOMAIN scores
        /\ \A c \in DOMAIN scores : d.truth[c] = scores[c]
        /\ \A c \in DOMAIN rec.truth \ DOMAIN scores : d.truth[c] = rec.truth[c]
    BY TruthsTyped DEF Merges
  <2>2. view \in Nat /\ code \in Nat /\ view <= code
    BY DEF ServingTypeOK, Campaigning
  <2>3. \A c \in DOMAIN scores : view <= scores[c].code /\ scores[c].code <= code
    BY DEF Measuring
  <2>4. \A c \in DOMAIN rec.truth : rec.truth[c].code = view
    BY <1>1, <1>2 DEF OfCode
  <2> QED BY <2>1, <2>2, <2>3, <2>4
<1> QED BY <1>1, <1>3, <1>4, <1>5 DEF Drafts, Merges

LEMMA AssembledDrafts ==
    ASSUME ServingInv, at = "executing", DOMAIN scores = todo, Stands(CompletedUnion)
    PROVE  Drafts(Assembled)
<1> USE DEF ServingInv
<1>1. Trusted(rec) /\ Reconciled(rec)
  BY DEF Stored, Trusted
<1>2. CASE kind = "measure"
  <2>1. PICK n \in Candidates : DOMAIN scores = 1 .. n
    BY <1>2 DEF Chosen, Working
  <2>2. Trusted(Fresh) /\ (~Fresh.unverifiable => PinnedIn(base.reads, Fresh.pins))
    BY <2>1, FreshTrusted
  <2>3. Fresh \in RecordTypes
    BY FreshTyped
  <2>4. Fresh.code = view /\ Fresh.truth = scores /\ Fresh.pins = CompletedUnion
    BY DEF Fresh
  <2>5. \A c \in DOMAIN scores : view <= scores[c].code /\ scores[c].code <= code
    BY DEF Measuring
  <2>6. Drafts(Fresh)
    BY <2>2, <2>3, <2>4, <2>5 DEF Drafts
  <2> QED BY <1>2, <2>6 DEF Assembled
<1>3. CASE kind = "splice"
  <2>1. DOMAIN scores = DOMAIN rec.flags
    BY <1>3 DEF Chosen, Working
  <2>2. Spliced \in RecordTypes /\ Merges(Spliced) /\ Reconciled(Spliced)
    BY <1>1, <2>1, SplicedIs, SplicedReconciles
  <2>3. Drafts(Spliced)
    BY <1>3, <2>1, <2>2, MergeDrafts
  <2> QED BY <1>3, <2>3 DEF Assembled, Spliced, Facted
<1>4. CASE kind = "extend"
  <2>1. /\ DOMAIN rec.flags = {} /\ rec.generated < request.budget
        /\ DOMAIN scores = rec.generated + 1 .. request.budget
    BY <1>4 DEF Chosen, Working
  <2>2. Extended \in RecordTypes /\ Merges(Extended) /\ Reconciled(Extended)
    BY <1>1, <2>1, ExtendedIs, ExtendedReconciles
  <2>3. Drafts(Extended)
    BY <1>4, <2>1, <2>2, MergeDrafts
  <2> QED BY <1>4, <2>3 DEF Assembled, Extended, Facted
<1>5. kind \in {"measure", "splice", "extend"}
  BY DEF Chosen, Working
<1> QED BY <1>2, <1>3, <1>4, <1>5

LEMMA AssemblesKeeps == ServingInv /\ Assembles => ServingInv'
<1> SUFFICES ASSUME ServingInv, Assembles PROVE ServingInv'
  OBVIOUS
<1> USE DEF ServingInv
<1>1. PICK d : d = Assembled
  OBVIOUS
<1>2. draft' = d /\ at = "executing" /\ at' = "validating"
  BY <1>1 DEF Assembles
<1>3. Drafts(d)
  BY <1>1, AssembledDrafts DEF Assembles
<1>4. ServingTypeOK'
  BY <1>2, <1>3 DEF Drafts, ServingTypeOK, Assembles, tree, planned, work, Steps
<1>5. Campaigning' /\ Measuring'
  BY <1>2 DEF Assembles, tree, planned, Campaigning, Measuring, Drafting, EffectiveCeiling
<1>6. Chosen'
  BY <1>2, NotWorking DEF Working
<1>7. Stored'
  BY StoredStays DEF Assembles, tree
<1>8. UNCHANGED <<setup, view, base, code, input, waits>>
  BY DEF Assembles, tree, planned
<1>9. Drafted'
  <2>1. Trusted(draft)'
    BY <1>2, <1>3, <1>8, TrustedNext DEF Drafts
  <2> QED BY <1>2, <1>3, <1>8, <2>1 DEF Drafted, Drafts, PinnedIn
<1>10. Quietly'
  BY <1>2, <1>3, <1>8 DEF Quietly, Drafts, Stands
<1> QED BY <1>4, <1>5, <1>6, <1>7, <1>9, <1>10

LEMMA ValidatesKeeps == ServingInv /\ Validates => ServingInv'
<1> SUFFICES ASSUME ServingInv, Validates PROVE ServingInv'
  OBVIOUS
<1> USE DEF ServingInv
<1>1. PICK u \in BOOLEAN : draft' = [draft EXCEPT !.unverifiable = @ \/ u]
  BY DEF Validates
<1>2. PICK d : d = [draft EXCEPT !.unverifiable = @ \/ u]
  OBVIOUS
<1>3. draft \in RecordTypes /\ draft.unverifiable \in BOOLEAN
  BY DEF ServingTypeOK, RecordTypes
<1>4. d \in RecordTypes /\ SaysTheSame(draft, d) /\ d.quiet = draft.quiet
  BY <1>2, <1>3 DEF RecordTypes, SaysTheSame
<1>5. draft' = d /\ at = "validating" /\ at' = "stamping" /\ code = view
  BY <1>1, <1>2 DEF Validates, Unmoved
<1>6. UNCHANGED <<setup, view, base, code, input, waits>>
  BY DEF Validates, tree, planned
<1>7. ServingTypeOK'
  BY <1>4, <1>5 DEF ServingTypeOK, Validates, tree, planned, work, Steps
<1>8. Campaigning' /\ Measuring'
  BY <1>5 DEF Validates, tree, planned, Campaigning, Measuring, Drafting, EffectiveCeiling
<1>9. Chosen'
  BY <1>5, NotWorking DEF Working
<1>10. Stored'
  BY StoredStays DEF Validates, tree
<1>11. /\ Trusted(draft) /\ draft.code = view
       /\ waits /\ ~draft.unverifiable => PinnedIn(base.reads, draft.pins)
       /\ \A c \in DOMAIN draft.truth : view <= draft.truth[c].code /\ draft.truth[c].code <= code
  BY <1>5 DEF Drafted, Drafting
<1>12. Drafted'
  <2>1. Trusted(d)
    BY <1>4, <1>11, TrustedAlike
  <2>2. Trusted(draft)'
    BY <1>5, <1>6, <2>1, TrustedNext
  <2>3. \A c \in DOMAIN d.truth : d.truth[c].code = view
    <3>1. ASSUME NEW c \in DOMAIN d.truth PROVE d.truth[c].code \in Nat
      <4>1. d.truth \in UNION {[S -> VerdictTypes] : S \in SUBSET Candidates}
        BY <1>4 DEF RecordTypes
      <4>2. d.truth[c] \in VerdictTypes
        BY <4>1, ScoresAre
      <4> QED BY <4>2 DEF VerdictTypes
    <3>2. view \in Nat
      BY DEF ServingTypeOK
    <3> QED BY <1>4, <1>5, <1>11, <3>1, <3>2 DEF SaysTheSame
  <2>4. base.measured = view
    <3>1. view \in Nat /\ base.measured \in Nat
      BY DEF ServingTypeOK, Baselines
    <3>2. view <= base.measured /\ base.measured <= code
      BY <1>5 DEF Measuring
    <3> QED BY <1>5, <3>1, <3>2
  <2> QED BY <1>4, <1>5, <1>6, <1>11, <2>2, <2>3, <2>4 DEF Drafted, OfCode, SaysTheSame, PinnedIn
<1>13. Quietly'
  <2>1. draft.quiet /\ ~draft.unverifiable => Stands(draft.pins)
    BY <1>5 DEF Quietly, Drafting
  <2> QED BY <1>4, <1>5, <1>6, <1>11, <2>1 DEF Quietly, SaysTheSame, Stands
<1> QED BY <1>7, <1>8, <1>9, <1>10, <1>12, <1>13

\* The dirty judgment and the commit's name change nothing a draft says.
Stamps(d) ==
    /\ SaysTheSame(draft, d) /\ d \in RecordTypes
    /\ at \in {"stamping", "naming"} /\ at' \in {"naming", "committing"} /\ draft' = d
    /\ UNCHANGED <<tree, planned, work, rec, bank, base, waits, scores>>

LEMMA StampsKeeps ==
    ASSUME ServingInv, NEW d, Stamps(d)
    PROVE  /\ ServingTypeOK' /\ Campaigning' /\ Measuring' /\ Chosen' /\ Stored' /\ Drafted'
<1> USE DEF ServingInv
<1>1. /\ draft' = d /\ SaysTheSame(draft, d) /\ d \in RecordTypes
      /\ at \in {"stamping", "naming"} /\ at' \in {"naming", "committing"}
      /\ UNCHANGED <<setup, view, base, code, input, waits>>
  BY DEF Stamps, tree, planned
<1>2. ServingTypeOK'
  BY <1>1 DEF ServingTypeOK, Stamps, tree, planned, work, Steps
<1>3. Campaigning' /\ Measuring'
  BY <1>1 DEF Stamps, tree, planned, Campaigning, Measuring, Drafting, EffectiveCeiling
<1>4. Chosen'
  BY <1>1, NotWorking DEF Working
<1>5. Stored'
  BY StoredStays DEF Stamps, tree
<1>6. Drafted'
  <2>1. /\ Trusted(draft) /\ draft.code = view /\ OfCode(draft, draft.code)
        /\ waits /\ ~draft.unverifiable => PinnedIn(base.reads, draft.pins)
        /\ waits => base.measured = draft.code
    BY <1>1 DEF Drafted, Drafting
  <2>2. Trusted(d)
    BY <1>1, <2>1, TrustedAlike
  <2>3. Trusted(draft)'
    BY <1>1, <2>2, TrustedNext
  <2> QED BY <1>1, <2>1, <2>3 DEF Drafted, OfCode, SaysTheSame, PinnedIn
<1> QED BY <1>2, <1>3, <1>4, <1>5, <1>6

LEMMA StampsDirtyKeeps == ServingInv /\ StampsDirty => ServingInv'
<1> SUFFICES ASSUME ServingInv, StampsDirty PROVE ServingInv'
  OBVIOUS
<1> USE DEF ServingInv
<1>1. PICK d : d = [draft EXCEPT !.dirty = Dirty]
  OBVIOUS
<1>2. draft \in RecordTypes /\ Dirty \in BOOLEAN
  BY DEF ServingTypeOK, Dirty
<1>3. /\ d \in RecordTypes /\ SaysTheSame(draft, d) /\ d.quiet = draft.quiet /\ d.dirty = Dirty
      /\ d.unverifiable = draft.unverifiable
  BY <1>1, <1>2 DEF RecordTypes, SaysTheSame
<1>4. Stamps(d)
  BY <1>1, <1>3 DEF Stamps, StampsDirty
<1>5. Quietly'
  <2>1. /\ draft' = d /\ at = "stamping" /\ at' = IF setup.git THEN "naming" ELSE "committing"
        /\ UNCHANGED <<code, input, head>>
    BY <1>1 DEF StampsDirty, tree
  <2>2. draft.quiet /\ ~draft.unverifiable => Stands(draft.pins) /\ code = draft.code
    BY <2>1 DEF Quietly, Drafting
  <2>3. draft.quiet /\ ~draft.unverifiable /\ ~Dirty => HeldBy(head, draft.pins, draft.code)
    BY <2>2 DEF Dirty, Stands, HeldBy
  <2>4. ~setup.git => Dirty
    BY DEF Dirty
  <2> HIDE DEF Dirty
  <2> QED BY <1>3, <2>1, <2>2, <2>3, <2>4 DEF Quietly, SaysTheSame, Stands, HeldBy
<1> QED BY <1>4, <1>5, StampsKeeps

LEMMA NamesCommitKeeps == ServingInv /\ NamesCommit => ServingInv'
<1> SUFFICES ASSUME ServingInv, NamesCommit PROVE ServingInv'
  OBVIOUS
<1> USE DEF ServingInv
<1>1. draft \in RecordTypes /\ head \in [code : Nat, input : Manifests] /\ at = "naming"
  <2>1. head.input \in Manifests
    BY ManifestIs DEF ServingTypeOK
  <2> QED BY <2>1 DEF ServingTypeOK, NamesCommit
<1>2. draft.quiet /\ ~draft.unverifiable /\ ~draft.dirty => HeldBy(head, draft.pins, draft.code)
  BY <1>1 DEF Quietly, Drafting
<1>3. CASE draft' = [draft EXCEPT !.commit = head]
  <2>1. PICK d : d = [draft EXCEPT !.commit = head]
    OBVIOUS
  <2>2. /\ d \in RecordTypes /\ SaysTheSame(draft, d) /\ d.quiet = draft.quiet
        /\ d.dirty = draft.dirty /\ d.unverifiable = draft.unverifiable /\ d.commit = head
    BY <1>1, <2>1 DEF RecordTypes, SaysTheSame
  <2>3. Stamps(d)
    BY <1>3, <2>1, <2>2 DEF Stamps, NamesCommit
  <2>4. Quietly'
    BY <1>2, <1>3, <2>1, <2>2 DEF Quietly, HeldBy, SaysTheSame, NamesCommit
  <2> QED BY <2>3, <2>4, StampsKeeps
<1>4. CASE draft' = [draft EXCEPT !.dirty = TRUE]
  <2>1. PICK d : d = [draft EXCEPT !.dirty = TRUE]
    OBVIOUS
  <2>2. d \in RecordTypes /\ SaysTheSame(draft, d) /\ d.dirty = TRUE
    BY <1>1, <2>1 DEF RecordTypes, SaysTheSame
  <2>3. Stamps(d)
    BY <1>4, <2>1, <2>2 DEF Stamps, NamesCommit
  <2>4. Quietly'
    BY <1>4, <2>1, <2>2 DEF Quietly, NamesCommit
  <2> QED BY <2>3, <2>4, StampsKeeps
<1> QED BY <1>3, <1>4 DEF NamesCommit

LEMMA StoresKeeps == ServingInv /\ Stores => ServingInv'
<1> SUFFICES ASSUME ServingInv, Stores PROVE ServingInv'
  OBVIOUS
<1> USE DEF ServingInv
<1>1. PICK d : d = draft
  OBVIOUS
<1>2. /\ rec' = d /\ at = "committing" /\ setup' = setup
      /\ UNCHANGED tree /\ Leaves
  BY <1>1 DEF Stores, tree
<1>3. /\ d \in RecordTypes /\ Trusted(d) /\ OfCode(d, d.code)
      /\ waits /\ ~d.unverifiable => PinnedIn(base.reads, d.pins)
      /\ waits => base.measured = d.code
  BY <1>1, <1>2 DEF Drafted, Drafting, ServingTypeOK
<1>4. \/ bank' = bank
      \/ waits /\ bank' = [held |-> TRUE, code |-> d.code, pins |-> d.pins,
                           unverifiable |-> d.unverifiable, base |-> base]
  BY <1>1 DEF Stores, Deposited
<1>5. bank' \in BankTypes
  <2>1. /\ bank \in BankTypes /\ base \in Baselines
        /\ d.code \in Nat /\ d.pins \in Manifests /\ d.unverifiable \in BOOLEAN
    BY <1>3 DEF ServingTypeOK, RecordTypes
  <2>2. CASE bank' = bank
    BY <2>1, <2>2
  <2>3. CASE bank' = [held |-> TRUE, code |-> d.code, pins |-> d.pins,
                      unverifiable |-> d.unverifiable, base |-> base]
    BY <2>1, <2>3 DEF BankTypes
  <2> QED BY <1>4, <2>2, <2>3
<1>6. /\ ServingTypeOK'
      /\ Campaigning' /\ Measuring' /\ Chosen' /\ Drafted' /\ Quietly'
  BY <1>2, <1>3, <1>5, LeavesKeeps
<1>7. Trusted(rec)'
  <2>1. \A o : TruthOf(rec, o)' = TruthOf(d, o)
    BY <1>2 DEF TruthOf
  <2>2. Reconciled(rec)'
    BY <1>2, <1>3, <2>1 DEF Trusted, Reconciled
  <2>3. Bounding(rec)'
    BY <1>2, <1>3 DEF Trusted, Bounding, EffectiveCeiling
  <2>4. KeepsWhatWould(rec)'
    BY <1>2, <1>3 DEF Trusted, KeepsWhatWould, Would, EffectiveCeiling
  <2>5. PinsReads(rec)'
    BY <1>2, <1>3 DEF Trusted, PinsReads, PinnedIn
  <2> QED BY <2>2, <2>3, <2>4, <2>5 DEF Trusted
<1>8. OfCode(rec, rec.code)'
  BY <1>2, <1>3 DEF OfCode
<1>9. CleanNamesItsCommit'
  BY <1>1, <1>2 DEF CleanNamesItsCommit, Quietly, HeldBy, Drafting
<1>10. BankOneTree'
  <2>1. CASE bank' = bank
    BY <2>1 DEF Stored, BankOneTree
  <2>2. CASE waits /\ bank' = [held |-> TRUE, code |-> d.code, pins |-> d.pins,
                               unverifiable |-> d.unverifiable, base |-> base]
    BY <1>3, <2>2 DEF BankOneTree, PinnedIn
  <2> QED BY <1>4, <2>1, <2>2
<1> QED BY <1>6, <1>7, <1>8, <1>9, <1>10 DEF Stored

------------------------------------------------------------------------------
(* The world.                                                              *)

\* An edit: what is measured so far stays within the tree's versions, and what
\* is being validated or stamped is no longer quiet.
LEMMA EditedKeeps ==
    ASSUME ServingInv, Edited, code' \in Nat, code <= code', input' \in [Inputs -> Nat]
    PROVE  ServingInv'
<1> USE DEF ServingInv
<1>1. PICK d : d = [draft EXCEPT !.quiet = @ /\ at \notin {"validating", "stamping", "naming"}]
  OBVIOUS
<1>2. draft \in RecordTypes /\ draft.quiet \in BOOLEAN
  BY DEF ServingTypeOK, RecordTypes
<1>3. /\ d \in RecordTypes /\ SaysTheSame(draft, d)
      /\ d.quiet = (draft.quiet /\ at \notin {"validating", "stamping", "naming"})
      /\ d.dirty = draft.dirty /\ d.commit = draft.commit /\ d.unverifiable = draft.unverifiable
  BY <1>1, <1>2 DEF RecordTypes, SaysTheSame
<1>4. /\ draft' = d
      /\ UNCHANGED <<setup, head, commits, planned, work, rec, bank, at, base, waits, scores>>
      /\ edits' = edits + 1
  BY <1>1 DEF Edited
<1>5. /\ UNCHANGED <<setup, head, commits, campaigns, request, view, kind, todo, rec, bank,
                      at, base, waits, scores>>
  BY <1>4 DEF planned, work
<1>6. ServingTypeOK'
  BY <1>3, <1>4, <1>5 DEF ServingTypeOK
<1>7. /\ view \in Nat /\ code \in Nat /\ base.measured \in Nat
      /\ \A c \in DOMAIN scores : scores[c].code \in Nat
  BY ScoredTyped DEF ServingTypeOK, Baselines, VerdictTypes
<1>8. Campaigning'
  BY <1>5, <1>7 DEF Campaigning
<1>9. Measuring'
  BY <1>5, <1>7 DEF Measuring, EffectiveCeiling
<1>10. Chosen'
  <2>1. CASE at \in Working
    BY <1>5, <2>1, ChosenStays DEF Chosen
  <2>2. CASE at \notin Working
    BY <1>5, <2>2, NotWorking
  <2> QED BY <2>1, <2>2
<1>11. Stored'
  BY <1>5, StoredStays
<1>12. CASE at \notin Drafting
  BY <1>5, <1>6, <1>8, <1>9, <1>10, <1>11, <1>12, NotDrafting
<1>13. CASE at \in Drafting
  <2>1. /\ Trusted(draft)
        /\ draft.code = view
        /\ waits /\ ~draft.unverifiable => PinnedIn(base.reads, draft.pins)
        /\ at = "validating" =>
               \A c \in DOMAIN draft.truth : view <= draft.truth[c].code /\ draft.truth[c].code <= code
        /\ at # "validating" => OfCode(draft, draft.code) /\ (waits => base.measured = draft.code)
    BY <1>13 DEF Drafted
  <2>2. Trusted(draft)'
    BY <1>3, <1>4, <1>5, <2>1, TrustedAlike, TrustedNext
  <2>3. \A c \in DOMAIN draft.truth : draft.truth[c].code \in Nat
    <3>1. draft.truth \in UNION {[S -> VerdictTypes] : S \in SUBSET Candidates}
      BY <1>2 DEF RecordTypes
    <3> QED BY <3>1, ScoresAre DEF VerdictTypes
  <2>4. at = "validating" =>
            \A c \in DOMAIN draft.truth : view <= draft.truth[c].code /\ draft.truth[c].code <= code'
    BY <1>7, <2>1, <2>3
  <2>5. Drafted'
    BY <1>3, <1>4, <1>5, <2>1, <2>2, <2>4 DEF Drafted, OfCode, SaysTheSame, PinnedIn
  <2>6. Quietly'
    BY <1>3, <1>4, <1>5, <1>13 DEF Quietly, Drafting, SaysTheSame, HeldBy
  <2> QED BY <1>6, <1>8, <1>9, <1>10, <1>11, <2>5, <2>6
<1> QED BY <1>12, <1>13

LEMMA EditsCodeKeeps == ServingInv /\ EditsCode => ServingInv'
<1> SUFFICES ASSUME ServingInv, EditsCode PROVE ServingInv'
  OBVIOUS
<1>1. code' \in Nat /\ code <= code' /\ input' \in [Inputs -> Nat]
  BY DEF ServingInv, ServingTypeOK, EditsCode
<1> QED BY <1>1, EditedKeeps DEF EditsCode

LEMMA EditsInputKeeps == ServingInv /\ EditsInput => ServingInv'
<1> SUFFICES ASSUME ServingInv, EditsInput PROVE ServingInv'
  OBVIOUS
<1>1. code' \in Nat /\ code <= code'
  BY DEF ServingInv, ServingTypeOK, EditsInput
<1>2. input' \in [Inputs -> Nat]
  BY DEF ServingInv, ServingTypeOK, EditsInput
<1> QED BY <1>1, <1>2, EditedKeeps DEF EditsInput

LEMMA Commits_Keeps == ServingInv /\ Commits_ => ServingInv'
<1> SUFFICES ASSUME ServingInv, Commits_ PROVE ServingInv'
  OBVIOUS
<1> USE DEF ServingInv
<1>1. /\ UNCHANGED <<setup, code, input, edits, campaigns, request, view, kind, todo, rec, bank,
                      at, base, waits, scores, draft>>
      /\ head' = [code |-> code, input |-> input] /\ commits' = commits + 1
  BY DEF Commits_, planned, work
<1>2. ServingTypeOK'
  BY <1>1 DEF ServingTypeOK
<1>3. Campaigning' /\ Measuring'
  BY <1>1 DEF Campaigning, Measuring, EffectiveCeiling
<1>4. Chosen'
  <2>1. CASE at \in Working
    BY <1>1, <2>1, ChosenStays DEF Chosen
  <2>2. CASE at \notin Working
    BY <1>1, <2>2, NotWorking
  <2> QED BY <2>1, <2>2
<1>5. Stored'
  BY <1>1, StoredStays
<1>6. Drafted'
  <2>1. CASE at \notin Drafting
    BY <1>1, <2>1, NotDrafting
  <2>2. CASE at \in Drafting
    <3>1. Trusted(draft)'
      BY <1>1, <2>2, TrustedNext DEF Drafted
    <3> QED BY <1>1, <2>2, <3>1 DEF Drafted, OfCode, PinnedIn
  <2> QED BY <2>1, <2>2
<1>7. Quietly'
  BY <1>1 DEF Quietly, Stands, HeldBy
<1> QED BY <1>2, <1>3, <1>4, <1>5, <1>6, <1>7

LEMMA ServingInitInv == ServingInit => ServingInv
<1> SUFFICES ASSUME ServingInit PROVE ServingInv
  OBVIOUS
<1> USE DEF ServingInit
<1>1. ServingTypeOK
  <2>1. NoRequest \in Requests /\ NoRequest.ceiling \in Ceilings
    BY ServingAssumption DEF NoRequest, Requests, Candidates, Ceilings
  <2>2. NoBaseline \in Baselines
    BY ManifestIs DEF NoBaseline, Baselines, Nothing
  <2>3. [c \in {} |-> 0] \in UNION {[S -> VerdictTypes] : S \in SUBSET Candidates}
    BY ScoresAre
  <2>4. NoDeposit \in BankTypes
    BY <2>2, ManifestIs DEF NoDeposit, BankTypes, Nothing
  <2>5. 0 \in 0 .. Len(setup.asks)
    <3>1. setup.asks \in Seq(Requests)
      BY ServingAssumption DEF IsSetup
    <3> QED BY <3>1
  <2> QED BY <2>1, <2>2, <2>3, <2>4, <2>5, UnrecordedTyped DEF ServingTypeOK, Steps
<1>2. Campaigning /\ Measuring /\ Chosen /\ Drafted /\ Quietly
  BY DEF Campaigning, Measuring, Chosen, Drafted, Quietly, Drafting, Working
<1>3. Trusted(Unrecorded)
  <2>1. PICK r : r = Unrecorded
    OBVIOUS
  <2>2. /\ r.generated = 0 /\ DOMAIN r.truth = {} /\ DOMAIN r.flags = {} /\ r.carried = {}
        /\ r.survivors = {} /\ r.kills = {} /\ r.timeouts = {}
        /\ r.tally = [o \in Outcomes |-> 0]
    BY <2>1 DEF Unrecorded
  <2>3. \A o : TruthOf(r, o) = {}
    BY <2>2 DEF TruthOf
  <2>4. r.tally = [o \in Outcomes |-> Cardinality(TruthOf(r, o))]
    BY <2>2, <2>3, FS_EmptySet
  <2>5. DOMAIN r.truth = 1 .. r.generated /\ r.generated <= Size
    BY <2>2, ServingAssumption
  <2>6. Reconciled(r)
    BY <2>2, <2>3, <2>4, <2>5 DEF Reconciled
  <2>7. Bounding(r) /\ KeepsWhatWould(r) /\ PinsReads(r)
    BY <2>2 DEF Bounding, KeepsWhatWould, PinsReads
  <2> QED BY <2>1, <2>6, <2>7 DEF Trusted
<1>4. OfCode(rec, rec.code) /\ CleanNamesItsCommit /\ BankOneTree
  BY DEF OfCode, CleanNamesItsCommit, BankOneTree, Unrecorded, NoDeposit
<1> QED BY <1>1, <1>2, <1>3, <1>4 DEF ServingInv, Stored

LEMMA ServingStepInv == ServingInv /\ [ServingNext]_servingVars => ServingInv'
<1> SUFFICES ASSUME ServingInv, [ServingNext]_servingVars PROVE ServingInv'
  OBVIOUS
<1>1. CASE ServingNext
  BY <1>1, BeginKeeps, RemeasuresKeeps, ServesWholeKeeps, SplicesKeeps, ExtendsKeeps,
     UnidentifiedKeeps, GivesUpKeeps, BankServesKeeps, ProbesKeeps, DepositsKeeps,
     DefersDepositKeeps, ExecutesKeeps, DrainsKeeps, AssemblesKeeps, ValidatesKeeps,
     StampsDirtyKeeps, NamesCommitKeeps, StoresKeeps, EditsCodeKeeps, EditsInputKeeps,
     Commits_Keeps
  DEF ServingNext
<1>2. CASE UNCHANGED servingVars
  <2> USE DEF ServingInv
  <2>1. UNCHANGED <<setup, code, input, head, edits, commits, campaigns, request, view, kind, todo,
                     rec, bank, at, base, waits, scores, draft>>
    BY <1>2 DEF servingVars, tree, planned, work
  <2>2. ServingTypeOK'
    BY <2>1 DEF ServingTypeOK
  <2>3. Campaigning' /\ Measuring'
    BY <2>1 DEF Campaigning, Measuring, EffectiveCeiling
  <2>4. Chosen'
    <3>1. CASE at \in Working
      BY <2>1, <3>1, ChosenStays DEF Chosen
    <3>2. CASE at \notin Working
      BY <2>1, <3>2, NotWorking
    <3> QED BY <3>1, <3>2
  <2>5. Stored'
    BY <2>1, StoredStays
  <2>6. Drafted'
    <3>1. CASE at \notin Drafting
      BY <2>1, <3>1, NotDrafting
    <3>2. CASE at \in Drafting
      <4>1. Trusted(draft)'
        BY <2>1, <3>2, TrustedNext DEF Drafted
      <4> QED BY <2>1, <3>2, <4>1 DEF Drafted, OfCode, PinnedIn
    <3> QED BY <3>1, <3>2
  <2>7. Quietly'
    BY <2>1 DEF Quietly, Stands, HeldBy
  <2> QED BY <2>2, <2>3, <2>4, <2>5, <2>6, <2>7
<1> QED BY <1>1, <1>2

LEMMA ServingInvariance == ServingSpec => []ServingInv
BY ServingInitInv, ServingStepInv, PTL DEF ServingSpec

\* What a later campaign may reuse without executing it (a stored record that
\* may be served, an entry of the baseline bank) was all taken on one tree, from
\* whichever campaigns it comes and wherever the edits fell
\* (spliceServedFinding, spliceExtendedFinding, aggregateWindow, the deposits).
THEOREM ReusedIsOneTree == ServingSpec => []OneTree
<1>1. ServingInv => OneTree
  <2> SUFFICES ASSUME ServingInv PROVE OneTree
    OBVIOUS
  <2>1. RecordOneTree
    BY DEF ServingInv, Stored, Trusted, PinsReads, PinnedIn, OfCode, RecordOneTree, OnTree
  <2> QED BY <2>1 DEF OneTree, ServingInv, Stored
<1> QED BY <1>1, ServingInvariance, PTL

\* Every verdict is counted once, and one kept from an earlier campaign would
\* come out the same under this one's ceiling and timeout (memoryPinStale,
\* timeoutPinMatches and what each splice merges).
THEOREM KeptRecordsStand == ServingSpec => []RecordStands
<1>1. ServingInv => RecordStands
  <2> SUFFICES ASSUME ServingInv PROVE RecordStands
    OBVIOUS
  <2>1. Trusted(rec) /\ ServingTypeOK
    BY DEF ServingInv, Stored
  <2>2. KeptVerdictsStand
    <3> SUFFICES ASSUME NEW c \in rec.carried
                 PROVE  LET v == rec.truth[c] IN
                        CASE v.why = "answer"  -> Memory[c] <= EffectiveCeiling(rec.asked.ceiling)
                          [] v.why = "memory"  -> v.ceiling = rec.asked.ceiling
                          [] v.why = "timeout" -> v.timeout = rec.asked.timeout /\ v.timeout # 0
      BY DEF KeptVerdictsStand
    <3>1. c \in DOMAIN rec.truth /\ Would(rec.truth[c], c, rec.asked)
      BY <2>1 DEF Trusted, KeepsWhatWould
    <3>2. rec.truth[c].why \in {"answer", "memory", "timeout"}
      BY <2>1, <3>1, RecTyped DEF VerdictTypes
    <3> QED BY <3>1, <3>2 DEF Would
  <2>3. CountsReconcile
    <3>1. \A o : TruthOf(rec, o) = {c \in DOMAIN rec.truth : rec.truth[c].outcome = o}
      BY DEF TruthOf
    <3>2. /\ DOMAIN rec.truth = 1 .. rec.generated
          /\ \A o \in Outcomes : rec.tally[o] = Cardinality(TruthOf(rec, o))
          /\ rec.survivors = TruthOf(rec, "survived") /\ rec.kills = TruthOf(rec, "killed")
      BY <2>1 DEF Trusted, Reconciled
    <3> QED BY <3>1, <3>2 DEF CountsReconcile
  <2> QED BY <2>2, <2>3 DEF RecordStands
<1> QED BY <1>1, ServingInvariance, PTL

\* A record stamped clean names a commit that holds what it was measured on,
\* wherever commits land, unless someone edits between the evidence check and
\* the naming (validateProducedEvidence, then the provenance stamp).
THEOREM CleanIsCommitted == ServingSpec => []CleanNamesItsCommit
<1>1. ServingInv => CleanNamesItsCommit
  BY DEF ServingInv, Stored
<1> QED BY <1>1, ServingInvariance, PTL
==============================================================================
