-------------------------------- MODULE Ledger --------------------------------
(***************************************************************************)
(* Survivor dispositions under a running campaign: the run's ledger        *)
(* (src/epilogue.go), the merge that grafts dispositions onto fresh        *)
(* records (src/findings.go MergeFindings), the carry of a re-measure      *)
(* (src/reconcile.go) and the reviewers' attest verb.                      *)
(*                                                                         *)
(* A run reads the record once, measures for minutes, merges its fresh     *)
(* record when the target is done and merges the same fresh record again   *)
(* when the run ends, both times against the dispositions it read at the   *)
(* start.  Reviewers attest, re-attest and withdraw in between.  Every     *)
(* write of the document is one step here; module Store is about what a    *)
(* write is made of.                                                       *)
(*                                                                         *)
(* One record is modelled, a map over its mutants; a record the document   *)
(* does not hold is one whose mutants are all gone.  A site is the content *)
(* under a survivor's position.                                            *)
(***************************************************************************)
EXTENDS Naturals, FiniteSets

CONSTANTS
    Mutants,     \* survivor keys: position and operator
    Reasons,     \* equivalence reasonings a reviewer gives
    Sites,       \* site contents
    NoSite,      \* recorded before sites existed
    Gone,        \* the mutant is not among the survivors
    NoAtt,       \* no disposition
    Withdrew,    \* a reviewer's act that is no disposition
    MaxRuns,     \* bound: campaigns
    MaxActs      \* bound: reviewer acts

ASSUME LedgerAssumption ==
    /\ NoSite \notin Sites /\ Gone \notin Sites \cup {NoSite}
    /\ NoAtt # Withdrew
    /\ {NoAtt, Withdrew} \cap [reason : Reasons, site : Sites \cup {NoSite}] = {}
    /\ MaxRuns \in Nat /\ MaxActs \in Nat

VARIABLES
    doc,       \* the target's record in the findings document
    phase,     \* the campaign's place
    prior,     \* the record as the run read it: carry source and snapshot
    fresh,     \* the run's own record
    reported,  \* mutants whose fate the run told
    pending,   \* sheds of a landed write that were not delivered (yet)
    acted,     \* what reviewers last did to a mutant since the run began
    stripped,  \* mutants that lost a disposition to the run's writes
    runs, acts \* bounded counters

ledgerVars == <<doc, phase, prior, fresh, reported, pending, acted, stripped, runs, acts>>

AnySite == Sites \cup {NoSite}
Att     == [reason : Reasons, site : AnySite]
NoWd    == Gone

\* wd is the site of a withdrawn disposition.
Finding == [surv : [Mutants -> AnySite \cup {Gone}],
            att  : [Mutants -> Att \cup {NoAtt}],
            wd   : [Mutants -> AnySite \cup {NoWd}]]

NoFinding == [surv |-> [m \in Mutants |-> Gone],
              att  |-> [m \in Mutants |-> NoAtt],
              wd   |-> [m \in Mutants |-> NoWd]]

Phases == {"idle", "prepared", "measured", "persisted", "committed", "finishing"}

Untouched == NoAtt

\* A document of an earlier session: survivors, some attested, some
\* withdrawn, possibly of a version that recorded no sites.
LedgerInit ==
    /\ doc \in {d \in Finding :
           \A m \in Mutants :
               /\ d.att[m] # NoAtt => d.surv[m] = d.att[m].site
               /\ d.wd[m] # NoWd => d.surv[m] = d.wd[m] /\ d.att[m] = NoAtt}
    /\ phase = "idle"
    /\ prior = NoFinding
    /\ fresh = NoFinding
    /\ reported = {}
    /\ pending = {}
    /\ acted = [m \in Mutants |-> Untouched]
    /\ stripped = {}
    /\ runs = 0
    /\ acts = 0

------------------------------------------------------------------------------
(* The reviewers.                                                          *)

Act(m, did) ==
    /\ acts < MaxActs
    /\ acts' = acts + 1
    /\ acted' = [acted EXCEPT ![m] = did]
    /\ UNCHANGED <<phase, prior, fresh, reported, pending, stripped, runs>>

\* Attest: a disposition on an open survivor, at its site.
Attest(m, r) ==
    /\ doc.surv[m] # Gone /\ doc.att[m] = NoAtt
    /\ doc' = [doc EXCEPT !.att[m] = [reason |-> r, site |-> doc.surv[m]],
                          !.wd[m] = NoWd]
    /\ Act(m, [reason |-> r, site |-> doc.surv[m]])

\* Reattest: a new reason on a standing one.
Reattest(m, r) ==
    /\ doc.surv[m] # Gone /\ doc.att[m] # NoAtt
    /\ doc' = [doc EXCEPT !.att[m] = [reason |-> r, site |-> doc.surv[m]]]
    /\ Act(m, [reason |-> r, site |-> doc.surv[m]])

\* WithdrawAttestation: back to open, the withdrawal kept.
Withdraw(m) ==
    /\ doc.att[m] # NoAtt
    /\ doc' = [doc EXCEPT !.att[m] = NoAtt,
                          !.wd[m] = IF doc.surv[m] \in {Gone, NoSite}
                                    THEN doc.att[m].site ELSE doc.surv[m]]
    /\ Act(m, Withdrew)

Review == \E m \in Mutants : (\E r \in Reasons : Attest(m, r) \/ Reattest(m, r))
                             \/ Withdraw(m)

------------------------------------------------------------------------------
(* The campaign's own record.                                              *)

\* The run reads the document once (NewRunLedger).
PrepareTarget ==
    /\ phase = "idle" /\ runs < MaxRuns
    /\ runs' = runs + 1
    /\ phase' = "prepared"
    /\ prior' = doc
    /\ reported' = {} /\ pending' = {} /\ stripped' = {}
    /\ acted' = [m \in Mutants |-> Untouched]
    /\ UNCHANGED <<doc, fresh, acts>>

Anchors(site, survivor) == survivor # Gone /\ site \in {NoSite, survivor}

\* carryAnchoredAttestations: kept dispositions adopt their survivor's site.
CarriedAtt(surv, m) ==
    IF prior.att[m] # NoAtt /\ Anchors(prior.att[m].site, surv[m])
    THEN [prior.att[m] EXCEPT !.site = surv[m]] ELSE NoAtt

\* carryAnchoredWithdrawn.
CarriedWd(surv, m) ==
    IF /\ prior.wd[m] # NoWd /\ Anchors(prior.wd[m], surv[m])
       /\ CarriedAtt(surv, m) = NoAtt
    THEN surv[m] ELSE NoWd

\* What a measurement tells on the way: dispositions whose site moved, and
\* those whose mutant a test now kills (contradictKilledDispositions).
SiteSheds(surv) == {m \in Mutants : /\ prior.att[m] # NoAtt /\ surv[m] # Gone
                                    /\ CarriedAtt(surv, m) = NoAtt}

Contradictions(surv, killed) ==
    {m \in killed : prior.att[m] # NoAtt /\ surv[m] = Gone}

\* The target is measured: survivors at their sites, and dispositions
\* carried over when its mutation domain held.
Measure(surv, killed, held) ==
    /\ phase = "prepared"
    /\ phase' = "measured"
    /\ fresh' = [surv |-> surv,
                 att |-> [m \in Mutants |-> IF held THEN CarriedAtt(surv, m) ELSE NoAtt],
                 wd  |-> [m \in Mutants |-> IF held THEN CarriedWd(surv, m) ELSE NoWd]]
    /\ reported' = IF held THEN SiteSheds(surv) \cup Contradictions(surv, killed)
                   ELSE {}
    /\ UNCHANGED <<doc, prior, pending, acted, stripped, runs, acts>>

------------------------------------------------------------------------------
(* The merge (graftDispositionsAgainst), mutant by mutant.                 *)

\* Mutants of FreshAtt: a withdrawal is not looked for; a carried
\* disposition never adopts the reason the document holds now.
FreshAttResurrects(m) ==
    LET f == fresh.att[m]
        p == doc.att[m]
    IN  IF /\ f # NoAtt /\ p # NoAtt /\ prior.att[m] # NoAtt
           /\ prior.att[m].reason = f.reason /\ p.reason # f.reason
           /\ Anchors(p.site, fresh.surv[m])
        THEN [reason |-> p.reason, site |-> fresh.surv[m]]
        ELSE f

FreshAttDeaf(m) ==
    LET f == fresh.att[m]
    IN  IF /\ f # NoAtt /\ prior.att[m] # NoAtt /\ prior.att[m].reason = f.reason
           /\ doc.att[m] = NoAtt /\ doc.wd[m] # NoWd
        THEN NoAtt
        ELSE f

\* The disposition the fresh record keeps: its carry, unless the document
\* withdrew it meanwhile, under the reason the document holds now.
FreshAtt(m) ==
    LET f    == fresh.att[m]
        p    == doc.att[m]
        held == f # NoAtt /\ prior.att[m] # NoAtt /\ prior.att[m].reason = f.reason
    IN  IF held /\ p = NoAtt /\ doc.wd[m] # NoWd
        THEN NoAtt
        ELSE IF /\ held /\ p # NoAtt /\ p.reason # f.reason
                /\ Anchors(p.site, fresh.surv[m])
        THEN [reason |-> p.reason, site |-> fresh.surv[m]]
        ELSE f

\* A standing disposition the fresh record lacks rides survivor and site,
\* unless it is the one the run started from: that was judged afresh.
Grafts(m) ==
    /\ FreshAtt(m) = NoAtt
    /\ doc.att[m] # NoAtt
    /\ Anchors(doc.att[m].site, fresh.surv[m])
    /\ doc.att[m] # prior.att[m]

\* Mutant of MergedAtt: the graft keeps the site it was recorded at.
MergedAttStale(m) == IF Grafts(m) THEN doc.att[m] ELSE FreshAtt(m)

MergedAtt(m) ==
    IF Grafts(m) THEN [doc.att[m] EXCEPT !.site = fresh.surv[m]] ELSE FreshAtt(m)

MergedWd(m) ==
    IF MergedAtt(m) = NoAtt /\ fresh.surv[m] # Gone
    THEN IF \E w \in {doc.wd[m], fresh.wd[m]} :
                w # NoWd /\ Anchors(w, fresh.surv[m])
         THEN fresh.surv[m] ELSE NoWd
    ELSE NoWd

Merged == [surv |-> fresh.surv,
           att  |-> [m \in Mutants |-> MergedAtt(m)],
           wd   |-> [m \in Mutants |-> MergedWd(m)]]

\* Dispositions the merge sheds.
Shed == {m \in Mutants : /\ doc.att[m] # NoAtt
                         /\ FreshAtt(m) = NoAtt /\ ~Grafts(m)}

\* One merge under the document lock.
MergeInto(next) ==
    /\ doc' = Merged
    /\ pending' = Shed
    /\ stripped' = stripped \cup {m \in Mutants : doc.att[m] # NoAtt
                                                  /\ Merged.att[m] = NoAtt}
    /\ phase' = next
    /\ UNCHANGED <<prior, fresh, reported, acted, runs, acts>>

------------------------------------------------------------------------------
(* The ledger's two merges.                                                *)

\* RunLedger.Commit's update.
CommitWrite == phase = "measured" /\ MergeInto("persisted")

\* Mutant of Deliver: the ledger forgets the commit's sheds.
DeliverForgets(next) ==
    /\ phase' = next
    /\ pending' = {}
    /\ UNCHANGED <<doc, prior, fresh, reported, acted, stripped, runs, acts>>

\* deliver: each shed told once per mutant, after the update returned.
Deliver(next) ==
    /\ phase' = next
    /\ reported' = reported \cup pending
    /\ pending' = {}
    /\ UNCHANGED <<doc, prior, fresh, acted, stripped, runs, acts>>

CommitReturns == phase = "persisted" /\ Deliver("committed")

\* RunLedger.Finish's update: the same fresh record against the same
\* snapshot.
FinishWrite == phase = "committed" /\ MergeInto("finishing")

\* Finish returns the residue and the run ends.
FinishReturns == phase = "finishing" /\ Deliver("idle")

\* A write fails with nothing landed, or the run ends between two writes.
Abort ==
    /\ phase \in {"prepared", "measured", "committed"}
    /\ phase' = "idle"
    /\ UNCHANGED <<doc, prior, fresh, reported, pending, acted, stripped, runs, acts>>

\* A write whose document landed returns an error (an overlay edit failed
\* or was cancelled): Commit and Finish return it at once, the sheds of that
\* write undelivered.
AbortWritten ==
    /\ phase \in {"persisted", "finishing"}
    /\ phase' = "idle"
    /\ UNCHANGED <<doc, prior, fresh, reported, pending, acted, stripped, runs, acts>>

LedgerNext ==
    \/ Review
    \/ PrepareTarget
    \/ \E surv \in [Mutants -> Sites \cup {Gone}], killed \in SUBSET Mutants,
          held \in BOOLEAN : Measure(surv, killed, held)
    \/ CommitWrite \/ CommitReturns \/ FinishWrite \/ FinishReturns
    \/ Abort \/ AbortWritten

LedgerSpec == LedgerInit /\ [][LedgerNext]_ledgerVars

------------------------------------------------------------------------------

LedgerTypeOK ==
    /\ doc \in Finding
    /\ phase \in Phases
    /\ prior \in Finding
    /\ fresh \in Finding
    /\ reported \subseteq Mutants
    /\ pending \subseteq Mutants
    /\ acted \in [Mutants -> Att \cup {Untouched, Withdrew}]
    /\ stripped \subseteq Mutants
    /\ runs \in 0 .. MaxRuns
    /\ acts \in 0 .. MaxActs

\* The tool never persists a disposition whose site diverges from its own
\* survivor, whichever carries, grafts and adoptions brought it there
\* (REQ-attest-survivor); a withdrawal stands only on an open survivor.
SitesAgree ==
    \A m \in Mutants :
        /\ doc.att[m] # NoAtt => doc.surv[m] = doc.att[m].site
        /\ doc.wd[m] # NoWd => doc.att[m] = NoAtt /\ doc.surv[m] = doc.wd[m]

\* A withdrawal made during the run is never undone by it: the carry of the
\* run-start snapshot does not resurrect the disposition.
WithdrawalStands ==
    \A m \in Mutants : acted[m] = Withdrew => doc.att[m] = NoAtt

\* The survivor a reviewer judged is still reported, at that site.
StillJudged(m) == acted[m] \in Att /\ Anchors(acted[m].site, doc.surv[m])

\* A disposition recorded during the run, other than the very one the run
\* started from, stands through both merges while its survivor does, under
\* the reason the reviewer gave.
ReviewerWins ==
    \A m \in Mutants :
        StillJudged(m) /\ acted[m] # prior.att[m]
            => doc.att[m] # NoAtt /\ doc.att[m].reason = acted[m].reason

\* Over the two merges of a run, whatever a reviewer did between them, a
\* mutant whose disposition left the document by the run's writes was told of
\* when the run is over, unless the write that landed last is the one that
\* returned an error.
StripsAccounted == phase = "idle" => stripped \subseteq reported \cup pending
==============================================================================
