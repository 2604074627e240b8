----------------------------- MODULE StoreProofs -----------------------------
(***************************************************************************)
(* Proofs about the findings store: for any number of keys, verbs and      *)
(* lock attempts, whatever kinds of write run, wherever they die and       *)
(* whatever a reviewer edits meanwhile, one verb at a time is inside a     *)
(* write of the document, it writes what it decided on the layers that are *)
(* still there, and a measuring write leaves only rows portable under what *)
(* the exemption file held meanwhile; a claim that needs no exemption      *)
(* survives all of it, and a record verb keeps what is portable in sight.  *)
(* While no exemption is taken back the store implements the registers of  *)
(* module Register, and while no verb dies the document never goes back.   *)
(***************************************************************************)
EXTENDS Store, TLAPS

\* The places at which a verb is past the lock.
Inside == {"locked", "refreshed", "decided", "prepared", "written"}

------------------------------------------------------------------------------
(* What the deciding operators return.                                     *)

\* A key's visible record comes from one of the layers (mergeLayers).
LEMMA MergeTyped ==
    ASSUME NEW r \in Layer, NEW o \in Layer
    PROVE  Merge(r, o) \in Layer
<1> QED BY DEF Merge, Layer

\* Loading a parsed record yields entries in force (loadExemptionsFile).
LEMMA LoadedTyped ==
    ASSUME NEW file \in ExemptionFile
    PROVE  Loaded(file) \in StoreState
<1> QED BY DEF Loaded, StoreState, ExemptionFile, NothingJudged, Judgement

\* So does the store of a closed verb.
LEMMA UnopenedTyped == Unopened \in StoreState
<1>1. [entries |-> {}, torn |-> FALSE, oldKeys |-> FALSE] \in ExemptionFile
  BY DEF ExemptionFile
<1> QED BY <1>1, LoadedTyped DEF Unopened

\* Routing a layer's records changes nothing of the store but what it
\* remembers (Store.route).
LEMMA JudgingTyped ==
    ASSUME NEW layer \in Layer, NEW s \in StoreState
    PROVE  /\ Judging(layer, s) \in StoreState
           /\ Judging(layer, s).entries = s.entries
           /\ Judging(layer, s).raw = s.raw
           /\ Judging(layer, s).torn = s.torn
<1> DEFINE J == [k \in Keys |->
                     IF layer[k] = NoRecord THEN s.judged[k]
                     ELSE [rec |-> layer[k], ok |-> Routed(k, layer[k], s)]]
<1>1. \A k \in Keys : Routed(k, layer[k], s) \in BOOLEAN
  BY DEF Routed, Committable, StoreState, Judgement
<1>2. J \in [Keys -> Judgement]
  BY <1>1 DEF StoreState, Judgement, Layer
<1>3. Judging(layer, s) = [s EXCEPT !.judged = J]
  BY DEF Judging
<1> HIDE DEF J
<1> QED BY <1>2, <1>3 DEF StoreState

\* The split decided by Store.Update is a plan over the layers' records.
LEMMA UpdatePlanTyped ==
    ASSUME TypeOK, NEW next \in Layer, NEW s \in StoreState
    PROVE  UpdatePlan(next, s) \in Plan
<1>1. [k \in Keys |-> SplitRow(k, next, s)] \in Layer
  BY DEF SplitRow, Incumbent, Layer, TypeOK
<1>2. Installs(next, s) \in Layer
  BY DEF Installs, Layer
<1>3. Removals(next, s) \in SUBSET Keys
  BY DEF Removals
<1>4. s.entries \in SUBSET Keys
  BY DEF StoreState
<1> QED BY <1>1, <1>2, <1>3, <1>4 DEF UpdatePlan, Plan

\* So is a prune's.
LEMMA PrunePlanTyped ==
    ASSUME TypeOK, NEW kept \in SUBSET Keys, NEW entries \in SUBSET Keys
    PROVE  PrunePlan(kept, entries) \in Plan
<1> DEFINE keep(layer) == [k \in Keys |-> IF k \in kept THEN layer[k] ELSE NoRecord]
<1>1. Merge(repo, overlay) \in Layer
  BY MergeTyped DEF TypeOK
<1>2. keep(repo) \in Layer /\ keep(Merge(repo, overlay)) \in Layer
  BY <1>1 DEF Layer, TypeOK
<1>3. NoLayer \in Layer
  BY DEF NoLayer, Layer
<1> HIDE DEF keep
<1>4. PrunePlan(kept, entries) =
        [repo |-> keep(repo), rewrite |-> keep(repo) # repo,
         removals |-> {k \in Keys \ kept : overlay[k] # NoRecord},
         installs |-> NoLayer, entries |-> entries, moved |-> FALSE,
         changed |-> {k \in Keys \ kept : Merge(repo, overlay)[k] # NoRecord},
         view |-> keep(Merge(repo, overlay)), measured |-> FALSE]
  BY DEF PrunePlan, keep
<1>5. (keep(repo) # repo) \in BOOLEAN
  OBVIOUS
<1> QED BY <1>2, <1>3, <1>4, <1>5 DEF Plan

\* So is a retarget's.
LEMMA RetargetPlanTyped ==
    ASSUME TypeOK, NEW from \in Keys, NEW to \in Keys,
           NEW entries \in SUBSET Keys
    PROVE  RetargetPlan(from, to, entries) \in Plan
<1> DEFINE R == Renamed(repo, from, to)
           O == Renamed(overlay, from, to)
           I == [k \in Keys |-> IF k = to /\ overlay[from] # NoRecord
                                THEN overlay[from] ELSE NoRecord]
           X == {k \in {from} : overlay[k] # NoRecord}
           C == {k \in Keys : Merge(repo, overlay)[k] # Merge(R, O)[k]}
<1>1. R \in Layer /\ O \in Layer
  BY DEF Renamed, Layer, TypeOK
<1>2. Merge(R, O) \in Layer
  BY <1>1, MergeTyped
<1>3. I \in Layer
  BY DEF Layer, TypeOK
<1>4. RenamedEntries(entries, from, to) \in SUBSET Keys
  BY DEF RenamedEntries
<1>5. X \in SUBSET Keys /\ C \in SUBSET Keys
  OBVIOUS
<1>6. RetargetPlan(from, to, entries) =
        [repo |-> R, rewrite |-> R # repo, removals |-> X, installs |-> I,
         entries |-> RenamedEntries(entries, from, to),
         moved |-> from \in entries, changed |-> C,
         view |-> Merge(R, O), measured |-> FALSE]
  BY DEF RetargetPlan
<1> HIDE DEF R, O, I, X, C
<1>7. (R # repo) \in BOOLEAN /\ (from \in entries) \in BOOLEAN
  OBVIOUS
<1> QED BY <1>1, <1>2, <1>3, <1>4, <1>5, <1>6, <1>7 DEF Plan

\* The plan of a verb that decided nothing is a plan.
LEMMA NoPlanTyped == NoPlan \in Plan
<1>1. NoLayer \in Layer
  BY DEF NoLayer, Layer
<1> QED BY <1>1 DEF NoPlan, Plan
------------------------------------------------------------------------------
(* Type correctness.                                                       *)

\* The store starts well typed: empty layers, a record that parses.
LEMMA InitTyped == Init => TypeOK
<1> SUFFICES ASSUME Init
             PROVE  TypeOK
  OBVIOUS
<1>1. NoLayer \in Layer
  BY DEF NoLayer, Layer
<1>2. exemptions \in ExemptionFile
  BY DEF Init
<1>3. Unopened \in StoreState /\ NothingShown \in Showing
  BY UnopenedTyped DEF NothingShown, Showing
<1>4. /\ store \in [Verbs -> StoreState]
      /\ pc \in [Verbs -> Places]
      /\ attempts \in [Verbs -> 0 .. LockAttempts]
      /\ plan \in [Verbs -> Plan]
      /\ tried \in [Keys -> SUBSET (Record \cup {NoRecord})]
  BY <1>3, NoPlanTyped, StoreAssumption DEF Init, Places
<1>5. version \in 0 .. MaxVersion /\ handEdits \in 0 .. MaxHandEdits
  BY StoreAssumption DEF Init
<1> QED BY <1>1, <1>2, <1>3, <1>4, <1>5 DEF Init, TypeOK

\* A verb has attempts at the lock left: the last of them refuses the write
\* (acquireDocumentLock).
AttemptsLeft == \A p \in Verbs : attempts[p] < LockAttempts

\* Opening, closing, entering and waiting keep the store well typed.
LEMMA LockingTyped ==
    ASSUME TypeOK, AttemptsLeft, NEW p \in Verbs,
           Open(p) \/ Close(p) \/ BeginWrite(p) \/ LockStep(p) \/ Refresh(p)
    PROVE  TypeOK' /\ AttemptsLeft'
<1>1. CASE Open(p)
  <2>1. Loaded(exemptions) \in StoreState
    BY LoadedTyped DEF TypeOK
  <2> QED
    BY <1>1, <2>1 DEF Open, TypeOK, AttemptsLeft, files, bounds, ghosts, Places
<1>2. CASE Close(p)
  BY <1>2, UnopenedTyped
  DEF Close, TypeOK, AttemptsLeft, files, bounds, ghosts, Places
<1>3. CASE BeginWrite(p)
  BY <1>3 DEF BeginWrite, TypeOK, AttemptsLeft, files, bounds, ghosts, Places
<1>4. CASE Acquire(p)
  <2>1. 0 \in 0 .. LockAttempts /\ 0 < LockAttempts
    BY StoreAssumption
  <2>2. shown' \in Showing
    BY <1>4 DEF Acquire, TypeOK, ExemptionFile, Showing
  <2> QED
    BY <1>4, <2>1, <2>2
    DEF Acquire, TypeOK, AttemptsLeft, files, bounds, claims, Places
<1>5. CASE Blocked(p)
  <2>1. attempts[p] \in 0 .. LockAttempts /\ attempts[p] < LockAttempts
    BY <1>5 DEF Blocked, TypeOK, AttemptsLeft
  <2>2. Tries(attempts[p]) \in 0 .. LockAttempts
    BY <2>1, StoreAssumption DEF Tries
  <2>3. Tries(attempts[p]) # LockAttempts => Tries(attempts[p]) < LockAttempts
    BY <2>2, StoreAssumption
  <2>4. 0 \in 0 .. LockAttempts /\ 0 < LockAttempts
    BY StoreAssumption
  <2>5. /\ pc' \in [Verbs -> Places]
        /\ attempts' \in [Verbs -> 0 .. LockAttempts]
        /\ store' \in [Verbs -> StoreState]
    BY <1>5, <2>2, <2>4, UnopenedTyped DEF Blocked, TypeOK, Places
  <2>6. AttemptsLeft'
    BY <1>5, <2>3, <2>4 DEF Blocked, TypeOK, AttemptsLeft
  <2> QED BY <1>5, <2>5, <2>6 DEF Blocked, TypeOK, files, bounds, ghosts
<1>6. CASE Refresh(p)
  <2>1. Refreshed(store[p]) \in StoreState
    <3>1. store[p] \in StoreState /\ Loaded(exemptions) \in StoreState
      BY LoadedTyped DEF TypeOK
    <3>2. /\ [store[p] EXCEPT !.torn = FALSE] \in StoreState
          /\ [store[p] EXCEPT !.torn = TRUE] \in StoreState
      BY <3>1 DEF StoreState
    <3> QED BY <3>1, <3>2 DEF Refreshed
  <2> QED
    BY <1>6, <2>1 DEF Refresh, TypeOK, AttemptsLeft, files, bounds, ghosts, Places
<1> QED BY <1>1, <1>2, <1>3, <1>4, <1>5, <1>6 DEF LockStep

\* Deciding a plan keeps the store well typed, whichever verb decides.
LEMMA DecideTyped ==
    ASSUME TypeOK, AttemptsLeft, NEW p \in Verbs, NEW decided \in Plan,
           NEW interim \in [Keys -> SUBSET (Record \cup {NoRecord})],
           version' \in 0 .. MaxVersion, store' \in [Verbs -> StoreState],
           Decide(p, decided, interim)
    PROVE  TypeOK' /\ AttemptsLeft'
<1>1. plan' \in [Verbs -> Plan] /\ pc' \in [Verbs -> Places]
  BY DEF Decide, TypeOK, Places
<1>2. tried' \in [Keys -> SUBSET (Record \cup {NoRecord})]
  <2> DEFINE T(k) == IF k \in decided.changed
                     THEN tried[k] \cup {decided.view[k]} \cup interim[k]
                     ELSE tried[k]
  <2>1. \A k \in Keys : T(k) \in SUBSET (Record \cup {NoRecord})
    BY DEF TypeOK, Plan, Layer
  <2>2. tried' = [k \in Keys |-> T(k)]
    BY DEF Decide
  <2> HIDE DEF T
  <2> QED BY <2>1, <2>2
<1>3. AttemptsLeft'
  BY DEF Decide, TypeOK, AttemptsLeft
<1> QED BY <1>1, <1>2, <1>3 DEF Decide, TypeOK, files

\* Nothing is left in between.
LEMMA NoInterimTyped == NoInterim \in [Keys -> SUBSET (Record \cup {NoRecord})]
<1> QED BY DEF NoInterim

\* So does a decision of Store.Update, whatever set its callback returned.
LEMMA DecideUpdateTyped ==
    ASSUME TypeOK, AttemptsLeft, NEW p \in Verbs, NEW next \in Layer,
           version' \in 0 .. MaxVersion, DecideUpdate(p, next)
    PROVE  TypeOK' /\ AttemptsLeft'
<1>1. store[p] \in StoreState /\ repo \in Layer
  BY DEF TypeOK
<1>2. PICK s : s = Judging(next, store[p])
  OBVIOUS
<1>3. s \in StoreState
  BY <1>1, <1>2, JudgingTyped
<1>4. store' = [store EXCEPT ![p] = Judging(repo, s)]
  BY <1>2 DEF DecideUpdate
<1>5. store' \in [Verbs -> StoreState]
  BY <1>1, <1>3, <1>4, JudgingTyped DEF TypeOK
<1>6. UpdatePlan(next, store[p]) \in Plan
  BY <1>1, UpdatePlanTyped
<1> QED BY <1>5, <1>6, NoInterimTyped, DecideTyped DEF DecideUpdate

\* A decision is one of Store.Update or one of a record verb.
LEMMA MeasuresOrRevises ==
    ASSUME TypeOK, NEW p \in Verbs, Deciding(p), ~Refuse(p)
    PROVE  /\ version' \in 0 .. MaxVersion
           /\ \/ \E next \in Layer : DecideUpdate(p, next)
              \/ DecidePrune(p) \/ DecideRetarget(p)
<1>1. View \in [Keys -> Record \cup {NoRecord}] /\ version \in 0 .. MaxVersion
  BY MergeTyped DEF TypeOK, Layer, View
<1>2. CASE DecideCommit(p)
  <2>1. PICK k \in Keys, c \in Classes :
            DecideUpdate(p, [View EXCEPT ![k] = [v |-> version + 1, class |-> c]])
    BY <1>2 DEF DecideCommit, View
  <2>2. version + 1 \in 1 .. MaxVersion /\ version' = version + 1
    BY <1>1, <1>2, StoreAssumption DEF DecideCommit
  <2>3. [View EXCEPT ![k] = [v |-> version + 1, class |-> c]] \in Layer
    BY <1>1, <2>2 DEF Record, Layer
  <2> QED BY <2>1, <2>2, <2>3
<1>3. CASE DecideAttest(p)
  <2>1. PICK k \in Keys : /\ View[k] # NoRecord
                          /\ DecideUpdate(p, [View EXCEPT ![k].v = version + 1])
    BY <1>3 DEF DecideAttest, View
  <2>2. version + 1 \in 1 .. MaxVersion /\ version' = version + 1
    BY <1>1, <1>3, StoreAssumption DEF DecideAttest
  <2>3. [View[k] EXCEPT !.v = version + 1] \in Record
    BY <1>1, <2>1, <2>2 DEF Record
  <2>4. [View EXCEPT ![k].v = version + 1]
            = [View EXCEPT ![k] = [View[k] EXCEPT !.v = version + 1]]
    OBVIOUS
  <2>5. [View EXCEPT ![k].v = version + 1] \in Layer
    BY <1>1, <2>3, <2>4 DEF Layer
  <2> QED BY <2>1, <2>2, <2>5
<1>4. CASE DecideReconcile(p)
  <2>1. PICK discovered \in SUBSET Keys :
            DecideUpdate(p, [k \in Keys |-> IF k \in discovered THEN View[k]
                                            ELSE NoRecord])
    BY <1>4 DEF DecideReconcile, View
  <2>2. [k \in Keys |-> IF k \in discovered THEN View[k] ELSE NoRecord] \in Layer
    BY <1>1 DEF Layer
  <2>3. version' = version
    BY <1>4 DEF DecideReconcile
  <2> QED BY <1>1, <2>1, <2>2, <2>3
<1>5. CASE DecidePrune(p) \/ DecideRetarget(p)
  BY <1>1, <1>5 DEF DecidePrune, DecideRetarget
<1> QED BY <1>2, <1>3, <1>4, <1>5 DEF Deciding

\* Every decision keeps the store well typed.
LEMMA DecidingTyped ==
    ASSUME TypeOK, AttemptsLeft, NEW p \in Verbs, Deciding(p)
    PROVE  TypeOK' /\ AttemptsLeft'
<1> DEFINE E == store[p].entries
<1>1. E \in SUBSET Keys
  BY DEF TypeOK, StoreState
<1> HIDE DEF E
<1>2. ASSUME NEW next \in Layer, DecideUpdate(p, next), ~Refuse(p)
      PROVE  TypeOK' /\ AttemptsLeft'
  BY <1>2, MeasuresOrRevises, DecideUpdateTyped
<1>3. CASE DecidePrune(p)
  <2>1. PICK kept \in SUBSET Keys : Decide(p, PrunePlan(kept, E), NoInterim)
    BY <1>3 DEF DecidePrune, E
  <2>2. PrunePlan(kept, E) \in Plan
    BY <1>1, PrunePlanTyped
  <2>3. version' \in 0 .. MaxVersion /\ store' \in [Verbs -> StoreState]
    BY <1>3 DEF DecidePrune, TypeOK
  <2> QED BY <2>1, <2>2, <2>3, NoInterimTyped, DecideTyped
<1>4. CASE DecideRetarget(p)
  <2>1. PICK from \in Keys, to \in Keys :
            Decide(p, RetargetPlan(from, to, E), [NoInterim EXCEPT ![to] = {repo[from]}])
    BY <1>4 DEF DecideRetarget, E
  <2>2. RetargetPlan(from, to, E) \in Plan
    BY <1>1, RetargetPlanTyped
  <2>3. [NoInterim EXCEPT ![to] = {repo[from]}]
            \in [Keys -> SUBSET (Record \cup {NoRecord})]
    BY NoInterimTyped DEF TypeOK, Layer
  <2>4. version' \in 0 .. MaxVersion /\ store' \in [Verbs -> StoreState]
    BY <1>4 DEF DecideRetarget, TypeOK
  <2> QED BY <2>1, <2>2, <2>3, <2>4, DecideTyped
<1>5. CASE Refuse(p)
  BY <1>5, UnopenedTyped
  DEF Refuse, TypeOK, AttemptsLeft, files, bounds, claims, Places, NothingShown,
      Showing
<1> QED BY <1>2, <1>3, <1>4, <1>5, MeasuresOrRevises

\* Carrying a decided write out keeps the store well typed.
LEMMA CarryTyped ==
    ASSUME TypeOK, AttemptsLeft, NEW p \in Verbs, Carry(p) \/ Die(p)
    PROVE  TypeOK' /\ AttemptsLeft'
<1>1. plan[p] \in Plan
  BY DEF TypeOK
<1>2. CASE Prepare(p)
  <2> DEFINE written == [entries |-> plan[p].entries, torn |-> FALSE,
                         oldKeys |-> FALSE]
             kept    == [Loaded(written) EXCEPT !.judged = store[p].judged]
  <2>1. written \in ExemptionFile
    BY <1>1 DEF Plan, ExemptionFile
  <2>2. Loaded(written) \in StoreState /\ store[p] \in StoreState
    BY <2>1, LoadedTyped DEF TypeOK
  <2>3. kept \in StoreState
    BY <2>2 DEF StoreState
  <2>4. \/ exemptions' = written /\ store' = [store EXCEPT ![p] = kept]
        \/ UNCHANGED <<exemptions, store>>
    BY <1>2 DEF Prepare
  <2> HIDE DEF written, kept
  <2>5. exemptions' \in ExemptionFile /\ store' \in [Verbs -> StoreState]
    BY <2>1, <2>3, <2>4 DEF TypeOK
  <2> QED
    BY <1>2, <2>5 DEF Prepare, TypeOK, AttemptsLeft, bounds, ghosts, Places
<1>3. CASE WriteDocument(p)
  BY <1>1, <1>3
  DEF WriteDocument, TypeOK, AttemptsLeft, bounds, ghosts, Places, Plan
<1>4. ASSUME NEW k \in Keys, RemoveEntry(p, k)
      PROVE  TypeOK' /\ AttemptsLeft'
  <2>1. overlay' \in Layer
    BY <1>4 DEF RemoveEntry, TypeOK, Layer
  <2>2. [plan[p] EXCEPT !.removals = @ \ {k}] \in Plan
    BY <1>1 DEF Plan
  <2>3. plan' = [plan EXCEPT ![p] = [plan[p] EXCEPT !.removals = @ \ {k}]]
    BY <1>4 DEF RemoveEntry
  <2>4. plan' \in [Verbs -> Plan]
    BY <2>2, <2>3 DEF TypeOK
  <2> QED
    BY <1>4, <2>1, <2>4 DEF RemoveEntry, TypeOK, AttemptsLeft, bounds, ghosts
<1>5. ASSUME NEW k \in Keys, InstallEntry(p, k)
      PROVE  TypeOK' /\ AttemptsLeft'
  <2>1. plan[p].installs \in Layer
    BY <1>1 DEF Plan
  <2>2. overlay' \in Layer
    BY <1>5, <2>1 DEF InstallEntry, TypeOK, Layer
  <2>3. [plan[p].installs EXCEPT ![k] = NoRecord] \in Layer
    BY <2>1 DEF Layer
  <2>4. [plan[p] EXCEPT !.installs = [plan[p].installs EXCEPT ![k] = NoRecord]] \in Plan
    BY <1>1, <2>3 DEF Plan
  <2>5. plan' = [plan EXCEPT ![p] =
            [plan[p] EXCEPT !.installs = [plan[p].installs EXCEPT ![k] = NoRecord]]]
    BY <1>5 DEF InstallEntry
  <2>6. plan' \in [Verbs -> Plan]
    BY <2>4, <2>5 DEF TypeOK
  <2> QED
    BY <1>5, <2>2, <2>6 DEF InstallEntry, TypeOK, AttemptsLeft, bounds, ghosts
<1>6. CASE Return(p)
  <2>1. landed' \in Layer
    BY <1>1, <1>6 DEF Return, TypeOK, Layer, Plan
  <2>2. tried' \in [Keys -> SUBSET (Record \cup {NoRecord})]
    BY <1>6 DEF Return, TypeOK
  <2>3. shown' \in Showing
    BY <1>6 DEF Return, NothingShown, Showing
  <2>4. store' \in [Verbs -> StoreState] /\ pc' \in [Verbs -> Places]
    BY <1>6, UnopenedTyped DEF Return, TypeOK, Places
  <2> QED
    BY <1>6, <2>1, <2>2, <2>3, <2>4, NoPlanTyped
    DEF Return, TypeOK, AttemptsLeft, files, bounds
<1>7. CASE Die(p)
  <2>1. shown' \in Showing
    BY <1>7 DEF Die, NothingShown, Showing, TypeOK
  <2>2. 0 \in 0 .. LockAttempts /\ 0 < LockAttempts
    BY StoreAssumption
  <2> QED
    BY <1>7, <2>1, <2>2, NoPlanTyped, UnopenedTyped
    DEF Die, TypeOK, AttemptsLeft, files, bounds, claims, Places
<1> QED BY <1>2, <1>3, <1>4, <1>5, <1>6, <1>7 DEF Carry

\* So does a reviewer's hand.
LEMMA HandEditTyped ==
    ASSUME TypeOK, AttemptsLeft, HandEdit
    PROVE  TypeOK' /\ AttemptsLeft'
<1>1. exemptions' \in ExemptionFile
  <2>1. exemptions \in ExemptionFile
    BY DEF TypeOK
  <2>2. ASSUME NEW k \in Keys, Accept(k) \/ Revoke(k)
        PROVE  exemptions' \in ExemptionFile
    BY <2>1, <2>2 DEF Accept, Revoke, ExemptionFile
  <2>3. ASSUME Tear
        PROVE  exemptions' \in ExemptionFile
    <3>1. (~exemptions.torn) \in BOOLEAN
      OBVIOUS
    <3>2. \A b \in BOOLEAN : [exemptions EXCEPT !.torn = b] \in ExemptionFile
      BY <2>1 DEF ExemptionFile
    <3> QED BY <2>3, <3>1, <3>2 DEF Tear
  <2> QED BY <2>2, <2>3 DEF HandEdit
<1>2. handEdits' \in 0 .. MaxHandEdits
  BY StoreAssumption DEF HandEdit, TypeOK
<1>3. shown' \in Showing
  BY <1>1 DEF HandEdit, TypeOK, Showing, ExemptionFile
<1> QED BY <1>1, <1>2, <1>3 DEF HandEdit, TypeOK, AttemptsLeft, claims

\* Every step keeps the store well typed and a waiting verb within its
\* attempts.
LEMMA NextTyped ==
    ASSUME TypeOK, AttemptsLeft, [Next]_vars
    PROVE  TypeOK' /\ AttemptsLeft'
<1>1. CASE UNCHANGED vars
  BY <1>1 DEF vars, TypeOK, AttemptsLeft
<1> QED
  BY <1>1, LockingTyped, DecidingTyped, CarryTyped, HandEditTyped DEF Next

\* The store keeps its type: in particular every layer, plan and record of a
\* write is over the document's keys, and no verb polls past its bound.
THEOREM TypeCorrect == Spec => []TypeOK
<1>1. Init => AttemptsLeft
  BY StoreAssumption DEF Init, AttemptsLeft
<1> QED BY <1>1, InitTyped, NextTyped, PTL DEF Spec

------------------------------------------------------------------------------
(* One writer.                                                             *)

\* A verb past the lock holds it, and the holder is past the lock.
LEMMA NextOneWriter ==
    ASSUME TypeOK, OneWriter, [Next]_vars
    PROVE  OneWriter'
<1> SUFFICES ASSUME NEW q \in Verbs, pc'[q] \in Inside
             PROVE  lock' = q
  BY DEF OneWriter, Inside
<1>0. pc[q] \in Inside => lock = q
  BY DEF OneWriter, Inside
<1>1. CASE UNCHANGED vars
  BY <1>0, <1>1 DEF vars
<1>2. CASE HandEdit
  BY <1>0, <1>2 DEF HandEdit
<1>3. ASSUME NEW p \in Verbs,
             \/ Open(p) \/ Close(p) \/ BeginWrite(p) \/ Blocked(p) \/ Refresh(p)
      PROVE  lock' = q
  BY <1>0, <1>3
  DEF Open, Close, BeginWrite, Blocked, Refresh, Inside, TypeOK
<1>4. ASSUME NEW p \in Verbs, Acquire(p)
      PROVE  lock' = q
  BY <1>0, <1>4, StoreAssumption DEF Acquire, TypeOK
<1>5. ASSUME NEW p \in Verbs, Deciding(p)
      PROVE  lock' = q
  <2>1. \/ lock' = lock /\ pc' = [pc EXCEPT ![p] = "decided"]
        \/ lock' = NoVerb /\ pc' = [pc EXCEPT ![p] = "closed"]
    BY <1>5
    DEF Deciding, DecideCommit, DecideAttest, DecideReconcile, DecidePrune,
        DecideRetarget, DecideUpdate, Decide, Refuse
  <2>2. pc[p] = "refreshed"
    BY <1>5
    DEF Deciding, DecideCommit, DecideAttest, DecideReconcile, DecidePrune,
        DecideRetarget, Refuse
  <2>3. lock = p
    BY <2>2 DEF OneWriter
  <2> QED BY <1>0, <2>1, <2>2, <2>3 DEF Inside, TypeOK
<1>6. ASSUME NEW p \in Verbs, Carry(p)
      PROVE  lock' = q
  <2>1. pc[p] \in Inside /\ lock = p
    BY <1>6
    DEF Carry, Prepare, WriteDocument, RemoveEntry, InstallEntry, Return,
        OneWriter, Inside
  <2>2. \/ lock' = lock /\ (pc' = pc \/ \E s \in Inside : pc' = [pc EXCEPT ![p] = s])
        \/ /\ lock' = NoVerb
           /\ \/ pc' = [pc EXCEPT ![p] = "open"]
              \/ pc' = [pc EXCEPT ![p] = "closed"]
    BY <1>6
    DEF Carry, Prepare, WriteDocument, RemoveEntry, InstallEntry, Return, Inside
  <2> QED BY <1>0, <2>1, <2>2 DEF Inside, TypeOK
<1>7. ASSUME NEW p \in Verbs, Die(p)
      PROVE  lock' = q
  BY <1>0, <1>7 DEF Die, Inside, TypeOK
<1> QED BY <1>1, <1>2, <1>3, <1>4, <1>5, <1>6, <1>7 DEF Next, LockStep

\* No two verbs are inside a write of the document at once, whatever dies.
THEOREM SingleWriter == Spec => []OneWriter
<1>1. Init => OneWriter
  BY DEF Init, OneWriter
<1>2. TypeOK /\ AttemptsLeft /\ OneWriter /\ [Next]_vars
          => (TypeOK /\ AttemptsLeft /\ OneWriter)'
  BY NextTyped, NextOneWriter
<1>3. Init => AttemptsLeft
  BY StoreAssumption DEF Init, AttemptsLeft
<1> QED BY <1>1, <1>2, <1>3, InitTyped, PTL DEF Spec

------------------------------------------------------------------------------
(* The verdicts a store remembers are the ones a fresh walk of the portable *)
(* line would return.                                                      *)

Truthful(s) ==
    \A k \in Keys : s.judged[k].ok <=> Committable(k, s.judged[k].rec, s.entries)

\* route's memo is sound: what it answers is what a walk would.
LEMMA RoutedTruly ==
    ASSUME NEW s, Truthful(s), NEW k \in Keys, NEW rec
    PROVE  Routed(k, rec, s) <=> Committable(k, rec, s.entries)
<1> QED BY DEF Truthful, Routed

\* Nothing is judged under a store's entries when they are loaded.
LEMMA LoadedTruthful ==
    ASSUME NEW file
    PROVE  /\ Truthful(Loaded(file))
           /\ Loaded(file).entries = file.entries
           /\ Loaded(file).raw = file
           /\ ~Loaded(file).torn
<1> QED BY DEF Loaded, Truthful, NothingJudged, Committable

\* Remembering one more layer's verdicts keeps them true.
LEMMA JudgingTruthful ==
    ASSUME NEW layer \in Layer, NEW s \in StoreState, Truthful(s)
    PROVE  Truthful(Judging(layer, s))
<1> DEFINE J == [k \in Keys |->
                     IF layer[k] = NoRecord THEN s.judged[k]
                     ELSE [rec |-> layer[k], ok |-> Routed(k, layer[k], s)]]
<1>1. Judging(layer, s) = [s EXCEPT !.judged = J]
  BY DEF Judging
<1>2. ASSUME NEW k \in Keys
      PROVE  J[k].ok <=> Committable(k, J[k].rec, s.entries)
  <2>1. CASE layer[k] = NoRecord
    BY <2>1 DEF Truthful
  <2>2. CASE layer[k] # NoRecord
    BY <2>2, RoutedTruly
  <2> QED BY <2>1, <2>2
<1> HIDE DEF J
<1>3. Judging(layer, s).judged = J /\ Judging(layer, s).entries = s.entries
  BY <1>1 DEF StoreState
<1> QED BY <1>2, <1>3 DEF Truthful

\* Every store that a measuring write may still judge by is truthful: only a
\* record verb's rewrite of the exemption record leaves verdicts standing that
\* its entries may contradict, and that verb judges nothing more.
TruthfulStores ==
    \A p \in Verbs :
        \/ Truthful(store[p])
        \/ pc[p] \in {"prepared", "written"} /\ ~plan[p].measured

\* The split that Store.Update would decide with no verdict remembered.
IncumbentAfresh(k, entries) ==
    IF Committable(k, repo[k], entries) THEN repo[k] ELSE NoRecord

SplitRowAfresh(k, next, entries) ==
    IF next[k] = NoRecord THEN NoRecord
    ELSE IF Committable(k, next[k], entries) THEN next[k]
    ELSE IncumbentAfresh(k, entries)

RemovalsAfresh(next, entries) ==
    {k \in Keys : /\ overlay[k] # NoRecord
                  /\ next[k] = NoRecord \/ Committable(k, next[k], entries)}

InstallsAfresh(next, entries) ==
    [k \in Keys |->
        IF next[k] = overlay[k] \/ Committable(k, next[k], entries)
        THEN NoRecord ELSE next[k]]

PlanAfresh(next, entries) ==
    [repo     |-> [k \in Keys |-> SplitRowAfresh(k, next, entries)],
     rewrite  |-> TRUE,
     removals |-> RemovalsAfresh(next, entries),
     installs |-> InstallsAfresh(next, entries),
     entries  |-> entries,
     moved    |-> FALSE,
     changed  |-> {k \in Keys : next[k] # Merge(repo, overlay)[k]},
     view     |-> next,
     measured |-> TRUE]

\* Under a truthful store Update decides that very split, and leaves the
\* store truthful, with the entries it had.
LEMMA UpdateAfresh ==
    ASSUME TypeOK, NEW p \in Verbs, NEW next \in Layer, Truthful(store[p]),
           DecideUpdate(p, next)
    PROVE  /\ Decide(p, PlanAfresh(next, store[p].entries), NoInterim)
           /\ Truthful(store'[p])
<1>1. store[p] \in StoreState /\ repo \in Layer
  BY DEF TypeOK
<1>2. PICK s : s = store[p]
  OBVIOUS
<1>3. PICK t : t = Judging(next, s)
  OBVIOUS
<1>4. t \in StoreState /\ t.entries = s.entries /\ Truthful(t)
  BY <1>1, <1>2, <1>3, JudgingTyped, JudgingTruthful
<1>5. \A k \in Keys : /\ Routed(k, next[k], s) <=> Committable(k, next[k], s.entries)
                      /\ Routed(k, repo[k], t) <=> Committable(k, repo[k], s.entries)
  BY <1>2, <1>4, RoutedTruly
<1>6. \A k \in Keys : SplitRow(k, next, s) = SplitRowAfresh(k, next, s.entries)
  BY <1>3, <1>5 DEF SplitRow, SplitRowAfresh, Incumbent, IncumbentAfresh
<1>7. Removals(next, s) = RemovalsAfresh(next, s.entries)
  BY <1>5 DEF Removals, RemovalsAfresh
<1>8. Installs(next, s) = InstallsAfresh(next, s.entries)
  BY <1>5 DEF Installs, InstallsAfresh
<1>9. UpdatePlan(next, s) = PlanAfresh(next, s.entries)
  BY <1>6, <1>7, <1>8 DEF UpdatePlan, PlanAfresh
<1>10. store' = [store EXCEPT ![p] = Judging(repo, t)]
  BY <1>2, <1>3 DEF DecideUpdate
<1>11. Truthful(Judging(repo, t))
  BY <1>1, <1>4, JudgingTruthful
<1>12. store'[p] = Judging(repo, t)
  BY <1>10 DEF TypeOK
<1> QED BY <1>2, <1>9, <1>11, <1>12 DEF DecideUpdate

\* The entries, the bytes they were read from and the torn mark of a store
\* outlive every decision, and no other store is touched.
LEMMA DecidingKeepsStore ==
    ASSUME TypeOK, NEW p \in Verbs, Deciding(p), ~Refuse(p)
    PROVE  /\ store'[p].entries = store[p].entries
           /\ store'[p].raw = store[p].raw
           /\ store'[p].torn = store[p].torn
           /\ \A q \in Verbs \ {p} : store'[q] = store[q]
           /\ store' = store \/ \E next \in Layer : DecideUpdate(p, next)
<1>1. CASE \E next \in Layer : DecideUpdate(p, next)
  <2>1. PICK next \in Layer : DecideUpdate(p, next)
    BY <1>1
  <2>2. store[p] \in StoreState /\ repo \in Layer
    BY DEF TypeOK
  <2>3. PICK t : t = Judging(next, store[p])
    OBVIOUS
  <2>4. /\ t \in StoreState /\ t.entries = store[p].entries
        /\ t.raw = store[p].raw /\ t.torn = store[p].torn
    BY <2>2, <2>3, JudgingTyped
  <2>5. PICK u : u = Judging(repo, t)
    OBVIOUS
  <2>6. /\ u.entries = store[p].entries
        /\ u.raw = store[p].raw /\ u.torn = store[p].torn
    BY <2>2, <2>4, <2>5, JudgingTyped
  <2>7. store' = [store EXCEPT ![p] = u]
    BY <2>1, <2>3, <2>5 DEF DecideUpdate
  <2> QED BY <1>1, <2>6, <2>7 DEF TypeOK
<1>2. CASE DecidePrune(p) \/ DecideRetarget(p)
  BY <1>2 DEF DecidePrune, DecideRetarget
<1> QED BY <1>1, <1>2, MeasuresOrRevises

\* A verb that decides judges by a truthful store, and leaves it one.
LEMMA DecidingTruthful ==
    ASSUME TypeOK, NEW p \in Verbs, Deciding(p), ~Refuse(p), Truthful(store[p])
    PROVE  Truthful(store'[p])
<1> QED BY DecidingKeepsStore, UpdateAfresh

\* A verb that judges is at its decision.
LEMMA DecidingPlace ==
    ASSUME NEW p \in Verbs, Deciding(p)
    PROVE  pc[p] = "refreshed"
<1> QED
  BY DEF Deciding, DecideCommit, DecideAttest, DecideReconcile, DecidePrune,
         DecideRetarget, Refuse

------------------------------------------------------------------------------
(* What a decided write is about to do.                                    *)

\* The document row Store.Update's split leaves passes the portable line.
LEMMA SplitRowPortable ==
    ASSUME NEW k \in Keys, NEW next, NEW entries,
           SplitRowAfresh(k, next, entries) # NoRecord
    PROVE  Committable(k, SplitRowAfresh(k, next, entries), entries)
<1> QED BY DEF SplitRowAfresh, IncumbentAfresh

\* A decided plan changes only what it names, and a measuring one carries
\* only portable rows under the entries its verb holds.
Sound(d, entries) ==
    /\ \A k \in Keys \ d.changed : d.view[k] = View[k]
    /\ d.measured =>
           /\ d.rewrite
           /\ d.entries = entries
           /\ \A k \in Keys : d.repo[k] # NoRecord
                  => Committable(k, d.repo[k], entries)

DecidedSound ==
    \A p \in Verbs :
        pc[p] \in {"decided", "prepared"} => Sound(plan[p], store[p].entries)

\* Every verb decides soundly.
LEMMA DecidingSound ==
    ASSUME TypeOK, NEW p \in Verbs, Deciding(p), pc'[p] = "decided",
           Truthful(store[p])
    PROVE  /\ Sound(plan'[p], store[p].entries)
           /\ UNCHANGED <<repo, overlay>>
<1> DEFINE M == Merge(repo, overlay)
           E == store[p].entries
<1>1. \A next \in [Keys -> Record \cup {NoRecord}] : Sound(PlanAfresh(next, E), E)
  <2> TAKE next \in [Keys -> Record \cup {NoRecord}]
  <2> DEFINE d == PlanAfresh(next, E)
  <2>1. /\ d.view = next /\ d.measured /\ d.rewrite /\ d.entries = E
        /\ d.changed = {k \in Keys : next[k] # M[k]}
        /\ d.repo = [k \in Keys |-> SplitRowAfresh(k, next, E)]
    BY DEF PlanAfresh
  <2> HIDE DEF d, E
  <2>2. \A k \in Keys \ d.changed : d.view[k] = View[k]
    BY <2>1 DEF View
  <2>3. \A k \in Keys : d.repo[k] # NoRecord => Committable(k, d.repo[k], E)
    BY <2>1, SplitRowPortable
  <2> QED BY <2>1, <2>2, <2>3 DEF Sound, d
<1>2. \A kept \in SUBSET Keys : Sound(PrunePlan(kept, E), E)
  <2> TAKE kept \in SUBSET Keys
  <2> DEFINE d == PrunePlan(kept, E)
  <2>1. /\ d.view = [k \in Keys |-> IF k \in kept THEN M[k] ELSE NoRecord]
        /\ d.changed = {k \in Keys \ kept : M[k] # NoRecord}
        /\ ~d.measured
    BY DEF PrunePlan
  <2> HIDE DEF d
  <2>2. M = View
    BY DEF View
  <2> HIDE DEF M
  <2>3. ASSUME NEW k \in Keys, k \notin d.changed
        PROVE  d.view[k] = M[k]
    BY <2>1, <2>3
  <2>4. Sound(d, E)
    BY <2>1, <2>2, <2>3 DEF Sound
  <2> QED BY <2>4 DEF d
<1>3. \A from, to \in Keys : Sound(RetargetPlan(from, to, E), E)
  <2> TAKE from, to \in Keys
  <2> DEFINE d == RetargetPlan(from, to, E)
             A == Merge(Renamed(repo, from, to), Renamed(overlay, from, to))
  <2>1. d.view = A /\ d.changed = {k \in Keys : M[k] # A[k]} /\ ~d.measured
    BY DEF RetargetPlan
  <2> HIDE DEF d, A
  <2>2. M = View
    BY DEF View
  <2> HIDE DEF M
  <2>3. ASSUME NEW k \in Keys, k \notin d.changed
        PROVE  d.view[k] = M[k]
    BY <2>1, <2>3
  <2>4. Sound(d, E)
    BY <2>1, <2>2, <2>3 DEF Sound
  <2> QED BY <2>4 DEF d
<1>4. \A d : Decide(p, d, NoInterim) => plan'[p] = d /\ UNCHANGED <<repo, overlay>>
  BY DEF Decide, TypeOK, files
<1>5. \A d, i : Decide(p, d, i) => plan'[p] = d /\ UNCHANGED <<repo, overlay>>
  BY DEF Decide, TypeOK, files
<1> HIDE DEF M, E
<1>6. CASE \E next \in Layer : DecideUpdate(p, next)
  <2>1. PICK next \in Layer : DecideUpdate(p, next)
    BY <1>6
  <2>2. Decide(p, PlanAfresh(next, E), NoInterim)
    BY <2>1, UpdateAfresh DEF E
  <2> QED BY <1>1, <1>4, <2>2 DEF E, Layer
<1>7. CASE DecidePrune(p)
  <2>1. PICK kept \in SUBSET Keys : Decide(p, PrunePlan(kept, E), NoInterim)
    BY <1>7 DEF DecidePrune, E
  <2> QED BY <1>2, <1>4, <2>1 DEF E
<1>8. CASE DecideRetarget(p)
  <2>1. PICK from \in Keys, to \in Keys :
            Decide(p, RetargetPlan(from, to, E), [NoInterim EXCEPT ![to] = {repo[from]}])
    BY <1>8 DEF DecideRetarget, E
  <2> QED BY <1>3, <1>5, <2>1 DEF E
<1>9. CASE Refuse(p)
  BY <1>9 DEF Refuse, TypeOK
<1> QED BY <1>6, <1>7, <1>8, <1>9, MeasuresOrRevises

\* No step of another verb, and no hand edit, touches what a decided plan was
\* decided on: the lock keeps every other verb out of the layers.
LEMMA NextSound ==
    ASSUME TypeOK, OneWriter, TruthfulStores, DecidedSound, [Next]_vars
    PROVE  DecidedSound'
<1> SUFFICES ASSUME NEW q \in Verbs, pc'[q] \in {"decided", "prepared"}
             PROVE  Sound(plan[q], store[q].entries)'
  BY DEF DecidedSound
<1> DEFINE Still == /\ pc[q] \in {"decided", "prepared"}
                    /\ UNCHANGED <<repo, overlay>>
                    /\ plan'[q] = plan[q]
                    /\ store'[q] = store[q]
<1>0. Still => Sound(plan[q], store[q].entries)'
  <2> SUFFICES ASSUME Still
               PROVE  Sound(plan[q], store[q].entries)'
    OBVIOUS
  <2>1. Sound(plan[q], store[q].entries)
    BY DEF DecidedSound
  <2>2. View' = View
    BY DEF View, Merge
  <2> QED BY <2>1, <2>2 DEF Sound, Committable
<1>1. CASE UNCHANGED vars
  <2>1. Still
    BY <1>1 DEF vars
  <2> QED BY <1>0, <2>1
<1>2. CASE HandEdit
  <2>1. Still
    BY <1>2 DEF HandEdit
  <2> QED BY <1>0, <2>1
<1>3. ASSUME NEW p \in Verbs,
             \/ Open(p) \/ Close(p) \/ BeginWrite(p) \/ LockStep(p)
             \/ Refresh(p) \/ Die(p)
      PROVE  Sound(plan[q], store[q].entries)'
  <2>1. Still
    BY <1>3
    DEF Open, Close, BeginWrite, LockStep, Acquire, Blocked, Refresh, Die,
        TypeOK, files, Places
  <2> QED BY <1>0, <2>1
<1>4. ASSUME NEW p \in Verbs, Deciding(p)
      PROVE  Sound(plan[q], store[q].entries)'
  <2>1. pc[p] = "refreshed" /\ lock = p
    BY <1>4
    DEF Deciding, DecideCommit, DecideAttest, DecideReconcile, DecidePrune,
        DecideRetarget, Refuse, OneWriter
  <2>2. \/ pc' = [pc EXCEPT ![p] = "decided"]
        \/ pc' = [pc EXCEPT ![p] = "closed"]
    BY <1>4
    DEF Deciding, DecideCommit, DecideAttest, DecideReconcile, DecidePrune,
        DecideRetarget, DecideUpdate, Decide, Refuse
  <2>3. q = p
    BY <2>1, <2>2 DEF OneWriter, TypeOK
  <2>4. pc'[p] = "decided"
    BY <2>2, <2>3 DEF TypeOK
  <2>5. /\ Sound(plan'[p], store[p].entries)
        /\ UNCHANGED <<repo, overlay>>
    BY <1>4, <2>1, <2>4, DecidingSound DEF TruthfulStores
  <2>6. View' = View
    BY <2>5 DEF View, Merge
  <2>7. store'[p].entries = store[p].entries
    <3>1. ~Refuse(p)
      BY <2>4 DEF Refuse, TypeOK
    <3> QED BY <1>4, <3>1, DecidingKeepsStore
  <2> QED BY <2>3, <2>5, <2>6, <2>7 DEF Sound, Committable
<1>5. ASSUME NEW p \in Verbs, Prepare(p)
      PROVE  Sound(plan[q], store[q].entries)'
  <2>1. pc[p] = "decided" /\ lock = p /\ UNCHANGED <<repo, overlay, plan>>
    BY <1>5 DEF Prepare, OneWriter
  <2>2. pc' = [pc EXCEPT ![p] = "prepared"]
    BY <1>5 DEF Prepare
  <2>3. q = p
    BY <2>1, <2>2 DEF OneWriter, TypeOK
  <2>4. Sound(plan[p], store[p].entries)
    BY <2>1 DEF DecidedSound
  <2>5. store'[p] = store[p] \/ store'[p].entries = plan[p].entries
    BY <1>5 DEF Prepare, Loaded, TypeOK
  <2>6. View' = View
    BY <2>1 DEF View, Merge
  <2>7. plan[p].measured => store'[p].entries = store[p].entries
    BY <2>4, <2>5 DEF Sound
  <2> QED BY <2>1, <2>3, <2>4, <2>6, <2>7 DEF Sound, Committable
<1>6. ASSUME NEW p \in Verbs,
             \/ WriteDocument(p) \/ Return(p)
             \/ \E k \in Keys : RemoveEntry(p, k) \/ InstallEntry(p, k)
      PROVE  FALSE
  <2>1. pc[p] \in {"prepared", "written"} /\ lock = p
    BY <1>6 DEF WriteDocument, Return, RemoveEntry, InstallEntry, OneWriter
  <2>2. \/ pc' = [pc EXCEPT ![p] = "written"]
        \/ pc' = [pc EXCEPT ![p] = "open"]
        \/ pc' = [pc EXCEPT ![p] = "closed"]
        \/ pc' = pc /\ pc[p] = "written"
    BY <1>6 DEF WriteDocument, Return, RemoveEntry, InstallEntry
  <2>3. q # p
    BY <2>2 DEF TypeOK
  <2>4. pc[q] \in {"decided", "prepared"}
    BY <2>2, <2>3 DEF TypeOK
  <2> QED BY <2>1, <2>3, <2>4 DEF OneWriter
<1> QED BY <1>1, <1>2, <1>3, <1>4, <1>5, <1>6 DEF Next, Carry

\* Every step leaves the stores truthful: verdicts are forgotten whenever the
\* entries are read anew, and the rewrite of a measuring write leaves the
\* entries alone.
LEMMA NextTruthful ==
    ASSUME TypeOK, OneWriter, DecidedSound, TruthfulStores, [Next]_vars
    PROVE  TruthfulStores'
<1> SUFFICES ASSUME NEW q \in Verbs
             PROVE  (\/ Truthful(store[q])
                     \/ pc[q] \in {"prepared", "written"} /\ ~plan[q].measured)'
  BY DEF TruthfulStores
<1> DEFINE Owed == (\/ Truthful(store[q])
                    \/ pc[q] \in {"prepared", "written"} /\ ~plan[q].measured)'
<1>0. \/ Truthful(store[q])
      \/ pc[q] \in {"prepared", "written"} /\ ~plan[q].measured
  BY DEF TruthfulStores
<1>1. ASSUME store'[q] = store[q],
             \/ pc'[q] = pc[q] /\ plan'[q].measured = plan[q].measured
             \/ pc[q] \notin {"prepared", "written"}
             \/ pc'[q] = "written" /\ plan'[q] = plan[q]
      PROVE  Owed
  BY <1>0, <1>1 DEF Truthful, Committable
<1>2. ASSUME NEW file, store'[q] = Loaded(file)
      PROVE  Owed
  BY <1>2, LoadedTruthful DEF Truthful, Committable
<1>3. ASSUME store'[q] = Unopened
      PROVE  Owed
  BY <1>2, <1>3 DEF Unopened
<1>4. CASE UNCHANGED vars
  BY <1>1, <1>4 DEF vars
<1>5. CASE HandEdit
  BY <1>1, <1>5 DEF HandEdit
<1>6. ASSUME NEW p \in Verbs, p # q,
             \/ Open(p) \/ Close(p) \/ BeginWrite(p) \/ LockStep(p) \/ Refresh(p)
             \/ Refuse(p) \/ Carry(p) \/ Die(p)
      PROVE  Owed
  <2>1. store'[q] = store[q] /\ pc'[q] = pc[q] /\ plan'[q] = plan[q]
    BY <1>6
    DEF Open, Close, BeginWrite, LockStep, Acquire, Blocked, Refresh, Refuse,
        Carry, Prepare, WriteDocument, RemoveEntry, InstallEntry, Return, Die,
        TypeOK
  <2> QED BY <1>1, <2>1
<1>7. ASSUME NEW p \in Verbs, Deciding(p), ~Refuse(p)
      PROVE  Owed
  <2>1. pc[p] = "refreshed"
    BY <1>7, DecidingPlace
  <2>2. CASE p = q
    BY <1>7, <2>1, <2>2, <1>0, DecidingTruthful DEF Truthful, Committable
  <2>3. CASE p # q
    <3>1. store'[q] = store[q]
      BY <1>7, <2>3, DecidingKeepsStore
    <3>2. pc'[q] = pc[q] /\ plan'[q] = plan[q]
      BY <1>7, <2>3
      DEF Deciding, DecideCommit, DecideAttest, DecideReconcile, DecidePrune,
          DecideRetarget, DecideUpdate, Decide, TypeOK
    <3> QED BY <1>1, <3>1, <3>2
  <2> QED BY <2>2, <2>3
<1>8. CASE Open(q)
  <2>1. store'[q] = Loaded(exemptions)
    BY <1>8 DEF Open, TypeOK
  <2> QED BY <1>2, <2>1
<1>9. CASE Close(q) \/ Refuse(q) \/ Die(q)
  <2>1. store'[q] = Unopened
    BY <1>9 DEF Close, Refuse, Die, TypeOK
  <2> QED BY <1>3, <2>1
<1>10. CASE BeginWrite(q) \/ Acquire(q)
  BY <1>1, <1>10 DEF BeginWrite, Acquire
<1>11. CASE Blocked(q)
  <2>1. store'[q] = Unopened \/ (UNCHANGED <<store, pc, plan>>)
    BY <1>11 DEF Blocked, TypeOK
  <2> QED BY <1>1, <1>3, <2>1
<1>12. CASE Refresh(q)
  <2>1. Truthful(store[q]) /\ store[q] \in StoreState
    BY <1>0, <1>12 DEF Refresh, TypeOK
  <2>2. store'[q] = Refreshed(store[q])
    BY <1>12 DEF Refresh, TypeOK
  <2>3. PICK s : s = store[q]
    OBVIOUS
  <2>4. CASE store'[q] = Loaded(exemptions)
    BY <1>2, <2>4
  <2>5. CASE \E b \in BOOLEAN : store'[q] = [s EXCEPT !.torn = b]
    <3>1. store'[q].judged = s.judged /\ store'[q].entries = s.entries
      BY <2>1, <2>3, <2>5 DEF StoreState
    <3> QED BY <2>1, <2>3, <3>1 DEF Truthful, Committable
  <2> QED BY <2>2, <2>3, <2>4, <2>5 DEF Refreshed
<1>13. CASE Prepare(q)
  <2>1. /\ pc[q] = "decided" /\ pc'[q] = "prepared" /\ plan'[q] = plan[q]
    BY <1>13 DEF Prepare, TypeOK
  <2>2. CASE store' = store
    BY <1>1, <2>1, <2>2
  <2>3. CASE ~plan[q].measured
    BY <2>1, <2>3
  <2>4. CASE store' # store /\ plan[q].measured
    <3>1. PICK w : w = [entries |-> plan[q].entries, torn |-> FALSE,
                        oldKeys |-> FALSE]
      OBVIOUS
    <3>2. store' = [store EXCEPT ![q] =
                       [Loaded(w) EXCEPT !.judged = store[q].judged]]
      BY <1>13, <2>4, <3>1 DEF Prepare
    <3>3. /\ store'[q].judged = store[q].judged
          /\ store'[q].entries = plan[q].entries
      BY <3>1, <3>2 DEF Loaded, TypeOK
    <3>4. plan[q].entries = store[q].entries
      BY <2>1, <2>4 DEF DecidedSound, Sound
    <3>5. Truthful(store[q])
      BY <1>0, <2>1
    <3> QED BY <3>3, <3>4, <3>5 DEF Truthful, Committable
  <2> QED BY <2>2, <2>3, <2>4
<1>14. CASE WriteDocument(q)
  BY <1>1, <1>14 DEF WriteDocument, TypeOK
<1>15. ASSUME NEW k \in Keys, RemoveEntry(q, k) \/ InstallEntry(q, k)
       PROVE  Owed
  <2>1. UNCHANGED <<store, pc>>
    BY <1>15 DEF RemoveEntry, InstallEntry
  <2>2. plan[q] \in Plan
    BY DEF TypeOK
  <2>3. plan'[q].measured = plan[q].measured
    BY <1>15, <2>2 DEF RemoveEntry, InstallEntry, TypeOK, Plan
  <2> QED BY <1>1, <2>1, <2>3
<1>16. CASE Return(q)
  <2>1. CASE plan[q].measured
    <3>1. store' = store /\ Truthful(store[q])
      BY <1>0, <1>16, <2>1 DEF Return
    <3> QED BY <3>1 DEF Truthful, Committable
  <2>2. CASE ~plan[q].measured
    <3>1. store'[q] = Unopened
      BY <1>16, <2>2 DEF Return, TypeOK
    <3> QED BY <1>3, <3>1
  <2> QED BY <2>1, <2>2
<1> QED
  BY <1>4, <1>5, <1>6, <1>7, <1>8, <1>9, <1>10, <1>11, <1>12, <1>13, <1>14,
     <1>15, <1>16 DEF Next, LockStep, Carry, Deciding

IInv ==
    /\ TypeOK /\ AttemptsLeft /\ OneWriter
    /\ TruthfulStores /\ DecidedSound

\* The invariant behind the theorems below holds in every reachable state.
LEMMA Invariant == Spec => []IInv
<1>1. Init => IInv
  <2> SUFFICES ASSUME Init
               PROVE  IInv
    OBVIOUS
  <2>1. TruthfulStores
    BY LoadedTruthful DEF Init, TruthfulStores, Unopened
  <2>2. AttemptsLeft /\ OneWriter /\ DecidedSound
    BY StoreAssumption DEF Init, AttemptsLeft, OneWriter, DecidedSound
  <2> QED BY <2>1, <2>2, InitTyped DEF IInv
<1>2. IInv /\ [Next]_vars => IInv'
  BY NextTyped, NextOneWriter, NextSound, NextTruthful DEF IInv
<1> QED BY <1>1, <1>2, PTL DEF Spec

\* What a verb is about to write was decided on the layers still there:
\* keys the plan leaves alone keep the record it saw.
THEOREM FreshDecisions == Spec => []DecidedOnFreshState
<1>1. IInv => DecidedOnFreshState
  BY DEF IInv, DecidedSound, DecidedOnFreshState, Sound
<1> QED BY <1>1, Invariant, PTL

------------------------------------------------------------------------------
(* What a measuring write judges by is what the exemption file has held     *)
(* while the write held the lock.                                          *)

\* The entries a write may judge by, or the file was torn meanwhile.
Seen(entries) == shown.torn \/ entries \subseteq shown.entries

Witnessed ==
    /\ \A p \in Verbs : store[p].entries = store[p].raw.entries
    /\ \A p \in Verbs :
           /\ pc[p] = "locked" => /\ exemptions.entries \subseteq shown.entries
                                  /\ exemptions.torn => shown.torn
           /\ pc[p] \in {"refreshed", "decided"} => Seen(store[p].entries)
           /\ pc[p] = "prepared" /\ plan[p].measured => Seen(plan[p].entries)

\* Every step keeps the judged entries witnessed: the re-read under the lock
\* replaces whatever the store held since its open.
LEMMA NextWitnessed ==
    ASSUME TypeOK, OneWriter, DecidedSound, Witnessed, [Next]_vars
    PROVE  Witnessed'
<1> DEFINE Held(q)  == store[q].entries = store[q].raw.entries
           Shows(q) == /\ pc[q] = "locked" =>
                              /\ exemptions.entries \subseteq shown.entries
                              /\ exemptions.torn => shown.torn
                       /\ pc[q] \in {"refreshed", "decided"} => Seen(store[q].entries)
                       /\ pc[q] = "prepared" /\ plan[q].measured
                              => Seen(plan[q].entries)
<1> SUFFICES ASSUME NEW q \in Verbs
             PROVE  Held(q)' /\ Shows(q)'
  BY DEF Witnessed
<1>0. Held(q) /\ Shows(q)
  BY DEF Witnessed
<1>1. ASSUME UNCHANGED shown, pc'[q] = pc[q], plan'[q] = plan[q],
             store'[q] = store[q], exemptions' = exemptions \/ pc[q] # "locked"
      PROVE  Held(q)' /\ Shows(q)'
  BY <1>0, <1>1 DEF Seen
<1>2. CASE UNCHANGED vars
  BY <1>1, <1>2 DEF vars
<1>3. CASE HandEdit
  <2>1. UNCHANGED <<pc, plan, store, lock>>
    BY <1>3 DEF HandEdit
  <2>2. CASE lock = NoVerb
    <3>1. pc[q] \notin Inside
      BY <2>2, StoreAssumption DEF OneWriter, Inside
    <3> QED BY <1>0, <2>1, <3>1 DEF Inside
  <2>3. CASE lock # NoVerb
    <3>1. shown' = [entries |-> shown.entries \cup exemptions'.entries,
                    torn    |-> shown.torn \/ exemptions'.torn]
      BY <1>3, <2>3 DEF HandEdit
    <3>2. /\ shown.entries \subseteq shown'.entries
          /\ shown.torn => shown'.torn
          /\ exemptions'.entries \subseteq shown'.entries
          /\ exemptions'.torn => shown'.torn
      BY <3>1
    <3> QED BY <1>0, <2>1, <3>2 DEF Seen
  <2> QED BY <2>2, <2>3
<1>4. ASSUME NEW p \in Verbs, p # q,
             \/ Open(p) \/ Close(p) \/ BeginWrite(p) \/ LockStep(p) \/ Refresh(p)
             \/ Refuse(p) \/ Carry(p) \/ Die(p)
      PROVE  Held(q)' /\ Shows(q)'
  <2>1. store'[q] = store[q] /\ pc'[q] = pc[q] /\ plan'[q] = plan[q]
    BY <1>4
    DEF Open, Close, BeginWrite, LockStep, Acquire, Blocked, Refresh, Refuse,
        Carry, Prepare, WriteDocument, RemoveEntry, InstallEntry, Return, Die,
        TypeOK
  <2>2. CASE pc[q] \notin Inside
    BY <1>0, <2>1, <2>2 DEF Inside
  <2>3. CASE pc[q] \in Inside
    <3>1. lock = q /\ lock # NoVerb /\ pc[p] \notin Inside
      BY <1>4, <2>3, StoreAssumption DEF OneWriter, Inside
    <3>2. UNCHANGED <<shown, exemptions>>
      BY <1>4, <3>1
      DEF Open, Close, BeginWrite, LockStep, Acquire, Blocked, Refresh, Refuse,
          Carry, Prepare, WriteDocument, RemoveEntry, InstallEntry, Return, Die,
          Inside, files, ghosts
    <3> QED BY <1>1, <2>1, <3>2
  <2> QED BY <2>2, <2>3
<1>5. ASSUME NEW p \in Verbs, Deciding(p), ~Refuse(p)
      PROVE  Held(q)' /\ Shows(q)'
  <2>1. pc[p] = "refreshed"
    BY <1>5, DecidingPlace
  <2>2. UNCHANGED shown /\ pc' = [pc EXCEPT ![p] = "decided"]
        /\ \A r \in Verbs \ {p} : plan'[r] = plan[r]
    BY <1>5
    DEF Deciding, DecideCommit, DecideAttest, DecideReconcile, DecidePrune,
        DecideRetarget, DecideUpdate, Decide, TypeOK
  <2>3. /\ store'[p].entries = store[p].entries
        /\ store'[p].raw = store[p].raw
        /\ \A r \in Verbs \ {p} : store'[r] = store[r]
    BY <1>5, DecidingKeepsStore
  <2>4. CASE q = p
    <3>1. pc'[q] = "decided"
      BY <2>2, <2>4 DEF TypeOK
    <3> QED BY <1>0, <2>1, <2>2, <2>3, <2>4, <3>1 DEF Seen
  <2>5. CASE q # p
    <3>1. pc[q] \notin Inside /\ pc'[q] = pc[q]
      BY <2>1, <2>2, <2>5 DEF OneWriter, Inside, TypeOK
    <3> QED BY <1>0, <2>3, <2>5, <3>1 DEF Inside
  <2> QED BY <2>4, <2>5
<1>6. CASE Open(q) \/ Close(q) \/ Refuse(q) \/ Die(q)
  <2>1. pc'[q] \in {"open", "closed"}
    BY <1>6 DEF Open, Close, Refuse, Die, TypeOK
  <2>2. \E file : store'[q] = Loaded(file)
    BY <1>6 DEF Open, Close, Refuse, Die, Unopened, TypeOK
  <2> QED BY <2>1, <2>2, LoadedTruthful
<1>7. CASE BeginWrite(q)
  <2>1. pc'[q] = "waiting" /\ store'[q] = store[q]
    BY <1>7 DEF BeginWrite, TypeOK
  <2> QED BY <1>0, <2>1
<1>8. CASE Acquire(q)
  <2>1. pc'[q] = "locked" /\ UNCHANGED <<store, exemptions>>
    BY <1>8 DEF Acquire, TypeOK, files
  <2>2. shown'.entries = exemptions.entries /\ shown'.torn = exemptions.torn
    BY <1>8 DEF Acquire
  <2> QED BY <1>0, <2>1, <2>2
<1>9. CASE Blocked(q)
  <2>1. UNCHANGED <<shown, exemptions>> /\ pc[q] = "waiting"
    BY <1>9 DEF Blocked, files, ghosts
  <2>2. \/ UNCHANGED <<store, pc>>
        \/ store'[q] = Unopened /\ pc'[q] = "closed"
    BY <1>9 DEF Blocked, TypeOK
  <2> QED BY <1>0, <2>1, <2>2, LoadedTruthful DEF Unopened
<1>10. CASE Refresh(q)
  <2>1. /\ pc[q] = "locked" /\ pc'[q] = "refreshed"
        /\ UNCHANGED <<shown, exemptions>> /\ store'[q] = Refreshed(store[q])
    BY <1>10 DEF Refresh, TypeOK, files, ghosts
  <2>2. store[q] \in StoreState
    BY DEF TypeOK
  <2>3. PICK s : s = store[q]
    OBVIOUS
  <2>4. CASE exemptions = s.raw
    <3>1. store'[q] = [s EXCEPT !.torn = FALSE]
      BY <2>1, <2>3, <2>4 DEF Refreshed
    <3>2. store'[q].entries = s.entries /\ store'[q].raw = s.raw
      BY <2>2, <2>3, <3>1 DEF StoreState
    <3> QED BY <1>0, <2>1, <2>3, <2>4, <3>2 DEF Seen
  <2>5. CASE exemptions # s.raw /\ exemptions.torn
    <3>1. store'[q] = [s EXCEPT !.torn = TRUE]
      BY <2>1, <2>3, <2>5 DEF Refreshed
    <3>2. store'[q].entries = s.entries /\ store'[q].raw = s.raw
      BY <2>2, <2>3, <3>1 DEF StoreState
    <3> QED BY <1>0, <2>1, <2>3, <2>5, <3>2 DEF Seen
  <2>6. CASE exemptions # s.raw /\ ~exemptions.torn
    <3>1. store'[q] = Loaded(exemptions)
      BY <2>1, <2>3, <2>6 DEF Refreshed
    <3> QED BY <1>0, <2>1, <3>1, LoadedTruthful DEF Seen
  <2> QED BY <2>4, <2>5, <2>6
<1>11. CASE Prepare(q)
  <2>1. /\ pc[q] = "decided" /\ pc'[q] = "prepared" /\ plan'[q] = plan[q]
        /\ UNCHANGED shown
    BY <1>11 DEF Prepare, TypeOK, ghosts
  <2>2. plan[q].measured => plan[q].entries = store[q].entries
    BY <2>1 DEF DecidedSound, Sound
  <2>3. Held(q)'
    <3>1. CASE UNCHANGED store
      BY <1>0, <3>1
    <3>2. CASE store' # store
      <4>1. PICK w : w = [entries |-> plan[q].entries, torn |-> FALSE,
                          oldKeys |-> FALSE]
        OBVIOUS
      <4>2. store' = [store EXCEPT ![q] =
                         [Loaded(w) EXCEPT !.judged = store[q].judged]]
        BY <1>11, <3>2, <4>1 DEF Prepare
      <4>3. store'[q].entries = w.entries /\ store'[q].raw = w
        BY <4>2 DEF Loaded, TypeOK
      <4> QED BY <4>3
    <3> QED BY <3>1, <3>2
  <2> QED BY <1>0, <2>1, <2>2, <2>3 DEF Seen
<1>12. ASSUME \/ WriteDocument(q) \/ Return(q)
              \/ \E k \in Keys : RemoveEntry(q, k) \/ InstallEntry(q, k)
       PROVE  Held(q)' /\ Shows(q)'
  <2>1. pc'[q] \in {"written", "open", "closed"}
    BY <1>12 DEF WriteDocument, Return, RemoveEntry, InstallEntry, TypeOK
  <2>2. store'[q] = store[q] \/ store'[q] = Unopened
    BY <1>12 DEF WriteDocument, Return, RemoveEntry, InstallEntry, TypeOK
  <2> QED BY <1>0, <2>1, <2>2, LoadedTruthful DEF Unopened
<1> QED
  BY <1>2, <1>3, <1>4, <1>5, <1>6, <1>7, <1>8, <1>9, <1>10, <1>11, <1>12
  DEF Next, LockStep, Carry, Deciding

\* The step of a verb from "prepared" to "written" is its document's rename.
LEMMA OnlyTheRename ==
    ASSUME TypeOK, [Next]_vars, NEW p \in Verbs, pc[p] = "prepared",
           pc'[p] = "written"
    PROVE  WriteDocument(p)
<1> USE DEF TypeOK
<1>1. ~HandEdit /\ ~UNCHANGED vars
  BY DEF HandEdit, vars
<1>2. PICK q \in Verbs :
          \/ Open(q) \/ Close(q) \/ BeginWrite(q) \/ LockStep(q)
          \/ Refresh(q) \/ Deciding(q) \/ Carry(q) \/ Die(q)
  BY <1>1 DEF Next
<1>3. ~Open(q) /\ ~Close(q) /\ ~BeginWrite(q) /\ ~LockStep(q)
      /\ ~Refresh(q) /\ ~Die(q)
  BY DEF Open, Close, BeginWrite, LockStep, Acquire, Blocked, Refresh, Die
<1>4. ~Deciding(q)
  BY DEF Deciding, DecideCommit, DecideAttest, DecideReconcile,
         DecidePrune, DecideRetarget, DecideUpdate, Decide, Refuse
<1>5. WriteDocument(q)
  BY <1>2, <1>3, <1>4 DEF Carry, Prepare, RemoveEntry, InstallEntry, Return
<1>6. q = p
  BY <1>5 DEF WriteDocument
<1> QED BY <1>5, <1>6

\* A measuring write leaves only rows that pass the portable line under the
\* entries the exemption file itself has held since the write took the lock:
\* neither the entries its store loaded at its open nor a verdict it
\* remembered carries a revoked row over.
THEOREM PortableDocument == Spec => DocumentPortable
<1>1. Init => Witnessed
  BY LoadedTruthful DEF Init, Witnessed, Unopened
<1>2. IInv /\ Witnessed /\ [Next]_vars => Witnessed'
  BY NextWitnessed DEF IInv
<1>3. IInv /\ Witnessed /\ [Next]_vars =>
          [\A p \in Verbs :
              /\ pc[p] = "prepared" /\ pc'[p] = "written"
              /\ plan[p].measured /\ ~shown.torn
              => \A k \in Keys : repo'[k] # NoRecord =>
                     Committable(k, repo'[k], shown.entries)]_vars
  <2> SUFFICES ASSUME IInv, Witnessed, [Next]_vars, NEW p \in Verbs,
                      pc[p] = "prepared", pc'[p] = "written",
                      plan[p].measured, ~shown.torn,
                      NEW k \in Keys, repo'[k] # NoRecord
               PROVE  Committable(k, repo'[k], shown.entries)
    OBVIOUS
  <2>1. Sound(plan[p], store[p].entries)
    BY DEF IInv, DecidedSound
  <2>2. WriteDocument(p)
    BY OnlyTheRename DEF IInv
  <2>3. repo' = plan[p].repo
    BY <2>1, <2>2 DEF WriteDocument, Sound
  <2>4. Committable(k, repo'[k], plan[p].entries)
    BY <2>1, <2>3 DEF Sound
  <2>5. plan[p].entries \subseteq shown.entries
    BY DEF Witnessed, Seen
  <2> QED BY <2>4, <2>5 DEF Committable
<1> QED BY <1>1, <1>2, <1>3, Invariant, PTL DEF Spec, DocumentPortable

------------------------------------------------------------------------------
(* A claim survives the writes of its key and of others.                   *)

\* The document once a decided write has renamed it into place.
AfterWrite(d) == IF d.rewrite THEN d.repo ELSE repo

\* The entry edits still to come leave under each key the record the write
\* decided on: what lands is that record, and below what leaves lies it.
Lands(d, doc) ==
    \A k \in Keys :
        /\ d.installs[k] # NoRecord => d.installs[k] = d.view[k]
        /\ k \in d.removals => doc[k] = d.view[k]
        /\ d.installs[k] = NoRecord /\ k \notin d.removals
               => Merge(doc, overlay)[k] = d.view[k]

\* The write drops a row that lost its exemption, ahead of its install.
Demotes(d, k) ==
    /\ d.measured /\ repo[k] # NoRecord
    /\ ~Committable(k, repo[k], d.entries)

\* The rename shows under a key what was there, or what the write offered.
Switches(d) ==
    \A k \in Keys :
        \/ Merge(AfterWrite(d), overlay)[k] = View[k]
        \/ k \in d.changed /\ Merge(AfterWrite(d), overlay)[k] \in tried[k]
        \/ Demotes(d, k)

\* No local record stands in the document, by whatever verb it came.
NoneLocal(doc) == \A k \in Keys : doc[k] # NoRecord => doc[k].class # "local"

\* No record a reader may find under the key stands by an exemption alone.
Firm(k) == \A rec \in Known(k) : rec = NoRecord \/ rec.class # "unverifiable"

Carrying(d, doc) ==
    /\ Lands(d, doc)
    /\ NoneLocal(doc)
    /\ \A k \in d.changed : d.view[k] \in tried[k]
    /\ \A k \in Keys : Firm(k) => d.view[k] \in Known(k)

Writing ==
    /\ NoneLocal(repo)
    /\ KeysSurvive
    /\ \A p \in Verbs :
           /\ pc[p] \in {"decided", "prepared"}
                  => Carrying(plan[p], AfterWrite(plan[p])) /\ Switches(plan[p])
           /\ pc[p] = "written" => Carrying(plan[p], repo)

\* What a decision owes, whatever it leaves in between.
Fits(d, interim) ==
    /\ Lands(d, AfterWrite(d))
    /\ NoneLocal(AfterWrite(d))
    /\ \A k \in Keys :
           \/ Merge(AfterWrite(d), overlay)[k] = View[k]
           \/ /\ k \in d.changed
              /\ Merge(AfterWrite(d), overlay)[k] \in {d.view[k]} \cup interim[k]
           \/ Demotes(d, k)

\* Store.Update's split fits: a committable record takes the document's row
\* and its overlay entry leaves, another lands in the overlay above a row
\* that stays portable.
LEMMA UpdateFits ==
    ASSUME TypeOK, NoneLocal(repo), NEW next \in Layer,
           NEW entries \in SUBSET Keys, NEW interim
    PROVE  Fits(PlanAfresh(next, entries), interim)
<1> DEFINE M == Merge(repo, overlay)
           R == [k \in Keys |-> SplitRowAfresh(k, next, entries)]
           I == InstallsAfresh(next, entries)
           X == RemovalsAfresh(next, entries)
           d == PlanAfresh(next, entries)
<1>1. /\ d.repo = R /\ d.rewrite = TRUE /\ d.removals = X /\ d.installs = I
      /\ d.entries = entries /\ d.changed = {k \in Keys : next[k] # M[k]}
      /\ d.view = next /\ d.measured = TRUE
  BY DEF PlanAfresh
<1>2. AfterWrite(d) = R
  BY <1>1 DEF AfterWrite
<1>3. ASSUME NEW k \in Keys
      PROVE  /\ next[k] = NoRecord => R[k] = NoRecord
             /\ Committable(k, next[k], entries) => next[k] # NoRecord /\ R[k] = next[k]
             /\ next[k] # NoRecord /\ ~Committable(k, next[k], entries)
                    => R[k] = IncumbentAfresh(k, entries)
             /\ IncumbentAfresh(k, entries) # NoRecord
                    => /\ IncumbentAfresh(k, entries) = repo[k]
                       /\ Committable(k, repo[k], entries)
             /\ repo[k] # NoRecord /\ Committable(k, repo[k], entries)
                    => IncumbentAfresh(k, entries) = repo[k]
             /\ I[k] = IF next[k] = overlay[k] \/ Committable(k, next[k], entries)
                       THEN NoRecord ELSE next[k]
             /\ k \in X <=> /\ overlay[k] # NoRecord
                            /\ next[k] = NoRecord \/ Committable(k, next[k], entries)
             /\ M[k] = IF overlay[k] = NoRecord THEN repo[k] ELSE overlay[k]
             /\ Merge(R, overlay)[k] = IF overlay[k] = NoRecord THEN R[k] ELSE overlay[k]
             /\ View[k] = M[k]
  BY DEF SplitRowAfresh, IncumbentAfresh, Committable, InstallsAfresh,
         RemovalsAfresh, Merge, View
<1> HIDE DEF M, R, I, X, d
<1>4. Lands(d, R)
  <2> SUFFICES ASSUME NEW k \in Keys
               PROVE  /\ I[k] # NoRecord => I[k] = next[k]
                      /\ k \in X => R[k] = next[k]
                      /\ I[k] = NoRecord /\ k \notin X
                             => Merge(R, overlay)[k] = next[k]
    BY <1>1 DEF Lands
  <2> QED BY <1>3
<1>5. NoneLocal(R)
  <2> SUFFICES ASSUME NEW k \in Keys, R[k] # NoRecord
               PROVE  R[k].class # "local"
    BY DEF NoneLocal
  <2>1. Committable(k, R[k], entries)
    BY <1>3
  <2> QED BY <2>1 DEF Committable
<1>6. ASSUME NEW k \in Keys
      PROVE  \/ Merge(R, overlay)[k] = View[k]
             \/ k \in d.changed /\ Merge(R, overlay)[k] \in {d.view[k]} \cup interim[k]
             \/ Demotes(d, k)
  <2>1. CASE overlay[k] # NoRecord
    BY <1>3, <2>1
  <2>2. CASE overlay[k] = NoRecord /\ R[k] = next[k]
    BY <1>1, <1>3, <2>2
  <2>3. CASE overlay[k] = NoRecord /\ R[k] # next[k]
    <3>1. R[k] = IncumbentAfresh(k, entries) /\ next[k] # NoRecord
      BY <1>3, <2>3
    <3>2. CASE IncumbentAfresh(k, entries) # NoRecord
      BY <1>3, <2>3, <3>1, <3>2
    <3>3. CASE IncumbentAfresh(k, entries) = NoRecord /\ repo[k] = NoRecord
      BY <1>3, <2>3, <3>1, <3>3
    <3>4. CASE IncumbentAfresh(k, entries) = NoRecord /\ repo[k] # NoRecord
      BY <1>1, <1>3, <3>4 DEF Demotes
    <3> QED BY <3>2, <3>3, <3>4
  <2> QED BY <2>1, <2>2, <2>3
<1> QED BY <1>2, <1>4, <1>5, <1>6 DEF Fits, d

\* A prune drops a key from both layers.
LEMMA PruneFits ==
    ASSUME TypeOK, NoneLocal(repo), NEW kept \in SUBSET Keys,
           NEW entries \in SUBSET Keys, NEW interim
    PROVE  Fits(PrunePlan(kept, entries), interim)
<1> DEFINE M == Merge(repo, overlay)
           R == [k \in Keys |-> IF k \in kept THEN repo[k] ELSE NoRecord]
           V == [k \in Keys |-> IF k \in kept THEN M[k] ELSE NoRecord]
           d == PrunePlan(kept, entries)
<1>1. /\ d.repo = R /\ d.rewrite = (R # repo)
      /\ d.removals = {k \in Keys \ kept : overlay[k] # NoRecord}
      /\ d.installs = NoLayer /\ d.view = V
      /\ d.changed = {k \in Keys \ kept : M[k] # NoRecord}
  BY DEF PrunePlan
<1> HIDE DEF d
<1>2. AfterWrite(d) = R
  BY <1>1 DEF AfterWrite
<1>3. ASSUME NEW k \in Keys
      PROVE  /\ R[k] = IF k \in kept THEN repo[k] ELSE NoRecord
             /\ V[k] = IF k \in kept THEN M[k] ELSE NoRecord
             /\ NoLayer[k] = NoRecord
             /\ M[k] = IF overlay[k] = NoRecord THEN repo[k] ELSE overlay[k]
             /\ Merge(R, overlay)[k] = IF overlay[k] = NoRecord THEN R[k] ELSE overlay[k]
             /\ View[k] = M[k]
  BY DEF Merge, View, NoLayer
<1> HIDE DEF M, R, V
<1>4. Lands(d, R)
  BY <1>1, <1>3 DEF Lands
<1>5. NoneLocal(R)
  BY <1>3 DEF NoneLocal
<1>6. ASSUME NEW k \in Keys
      PROVE  \/ Merge(R, overlay)[k] = View[k]
             \/ k \in d.changed /\ Merge(R, overlay)[k] \in {d.view[k]} \cup interim[k]
  BY <1>1, <1>3
<1> QED BY <1>2, <1>4, <1>5, <1>6 DEF Fits, d

\* A retarget moves a record in its own layer: before its entry lands, the
\* document's row shows under the new key, which the verb offered.
LEMMA RetargetFits ==
    ASSUME TypeOK, NoneLocal(repo), NEW from \in Keys, NEW to \in Keys \ {from},
           NEW entries \in SUBSET Keys, NEW interim, interim[to] = {repo[from]},
           View[from] # NoRecord, ~Collides(from, to, entries)
    PROVE  Fits(RetargetPlan(from, to, entries), interim)
<1> DEFINE M == Merge(repo, overlay)
           R == Renamed(repo, from, to)
           O == Renamed(overlay, from, to)
           V == Merge(R, O)
           I == [k \in Keys |-> IF k = to /\ overlay[from] # NoRecord
                                THEN overlay[from] ELSE NoRecord]
           d == RetargetPlan(from, to, entries)
<1>1. /\ d.repo = R /\ d.rewrite = (R # repo)
      /\ d.removals = {k \in {from} : overlay[k] # NoRecord}
      /\ d.installs = I /\ d.view = V
      /\ d.changed = {k \in Keys : M[k] # V[k]}
  BY DEF RetargetPlan
<1> HIDE DEF d
<1>2. AfterWrite(d) = R
  BY <1>1 DEF AfterWrite
<1>3. \/ repo[from] = NoRecord \/ repo[to] = NoRecord
  BY DEF Collides
<1>4. \/ overlay[from] = NoRecord \/ overlay[to] = NoRecord
  BY DEF Collides
<1>5. ASSUME NEW k \in Keys
      PROVE  /\ R[k] = IF repo[from] = NoRecord THEN repo[k]
                       ELSE IF k = from THEN NoRecord
                       ELSE IF k = to THEN repo[from] ELSE repo[k]
             /\ O[k] = IF overlay[from] = NoRecord THEN overlay[k]
                       ELSE IF k = from THEN NoRecord
                       ELSE IF k = to THEN overlay[from] ELSE overlay[k]
  BY DEF Renamed, TypeOK, Layer
<1>6. ASSUME NEW k \in Keys
      PROVE  /\ I[k] = IF k = to /\ overlay[from] # NoRecord
                       THEN overlay[from] ELSE NoRecord
             /\ M[k] = IF overlay[k] = NoRecord THEN repo[k] ELSE overlay[k]
             /\ V[k] = IF O[k] = NoRecord THEN R[k] ELSE O[k]
             /\ Merge(R, overlay)[k] = IF overlay[k] = NoRecord THEN R[k] ELSE overlay[k]
             /\ View[k] = M[k]
  BY DEF Merge, View
<1> HIDE DEF M, R, O, V, I
<1>7. Lands(d, R)
  <2> SUFFICES ASSUME NEW k \in Keys
               PROVE  /\ I[k] # NoRecord => I[k] = V[k]
                      /\ k = from /\ overlay[k] # NoRecord => R[k] = V[k]
                      /\ I[k] = NoRecord /\ ~(k = from /\ overlay[k] # NoRecord)
                             => Merge(R, overlay)[k] = V[k]
    BY <1>1 DEF Lands
  <2>1. CASE k = from
    BY <1>5, <1>6, <2>1
  <2>2. CASE k = to
    BY <1>5, <1>6, <2>2
  <2>3. CASE k # from /\ k # to
    BY <1>5, <1>6, <2>3
  <2> QED BY <2>1, <2>2, <2>3
<1>8. NoneLocal(R)
  BY <1>5 DEF NoneLocal
<1>9. ASSUME NEW k \in Keys
      PROVE  \/ Merge(R, overlay)[k] = View[k]
             \/ k \in d.changed /\ Merge(R, overlay)[k] \in {d.view[k]} \cup interim[k]
  <2>1. CASE k = from
    BY <1>1, <1>5, <1>6, <2>1
  <2>2. CASE k = to
    BY <1>1, <1>3, <1>4, <1>5, <1>6, <2>2
  <2>3. CASE k # from /\ k # to
    BY <1>5, <1>6, <2>3
  <2> QED BY <2>1, <2>2, <2>3
<1> QED BY <1>2, <1>7, <1>8, <1>9 DEF Fits, d

\* Every decision fits.
LEMMA DecidingFits ==
    ASSUME TypeOK, NoneLocal(repo), NEW p \in Verbs, Deciding(p), ~Refuse(p),
           Truthful(store[p])
    PROVE  \E d, i : d \in Plan /\ Decide(p, d, i) /\ Fits(d, i)
<1> DEFINE E == store[p].entries
<1>1. View \in [Keys -> Record \cup {NoRecord}] /\ version \in 0 .. MaxVersion
  BY MergeTyped DEF TypeOK, Layer, View
<1>2. E \in SUBSET Keys
  BY DEF TypeOK, StoreState
<1>3. \A next \in Layer : Fits(PlanAfresh(next, E), NoInterim)
  BY <1>2, UpdateFits
<1> HIDE DEF E
<1>4. CASE \E next \in Layer : DecideUpdate(p, next)
  <2>1. PICK next \in Layer : DecideUpdate(p, next)
    BY <1>4
  <2>2. PICK d : d = plan'[p]
    OBVIOUS
  <2>3. Decide(p, UpdatePlan(next, store[p]), NoInterim)
    BY <2>1 DEF DecideUpdate
  <2>4. d = UpdatePlan(next, store[p])
    BY <2>2, <2>3 DEF Decide, TypeOK
  <2>5. d \in Plan
    BY <2>4, UpdatePlanTyped DEF TypeOK
  <2>6. Decide(p, PlanAfresh(next, E), NoInterim)
    BY <2>1, UpdateAfresh DEF E
  <2>7. d = PlanAfresh(next, E)
    BY <2>2, <2>6 DEF Decide, TypeOK
  <2> QED BY <1>3, <2>5, <2>6, <2>7
<1>5. CASE DecidePrune(p)
  <2>1. PICK kept \in SUBSET Keys : Decide(p, PrunePlan(kept, E), NoInterim)
    BY <1>5 DEF DecidePrune, E
  <2> QED BY <1>2, <2>1, PrunePlanTyped, PruneFits
<1>6. CASE DecideRetarget(p)
  <2>1. PICK from \in Keys, to \in Keys :
            /\ to # from /\ View[from] # NoRecord
            /\ ~Collides(from, to, E)
            /\ Decide(p, RetargetPlan(from, to, E), [NoInterim EXCEPT ![to] = {repo[from]}])
    BY <1>6 DEF DecideRetarget, View, E
  <2>2. [NoInterim EXCEPT ![to] = {repo[from]}][to] = {repo[from]}
    BY DEF NoInterim
  <2> QED BY <1>2, <2>1, <2>2, RetargetPlanTyped, RetargetFits
<1>7. \/ \E next \in Layer : DecideUpdate(p, next)
      \/ DecidePrune(p) \/ DecideRetarget(p)
  BY MeasuresOrRevises
<1> QED BY <1>4, <1>5, <1>6, <1>7

\* A decided write carries what it owes.
LEMMA DecideCarries ==
    ASSUME TypeOK, Writing, NEW p \in Verbs, NEW d \in Plan, NEW i,
           Decide(p, d, i), Fits(d, i), \A k \in Keys \ d.changed : d.view[k] = View[k]
    PROVE  /\ NoneLocal(repo)' /\ KeysSurvive'
           /\ Carrying(d, AfterWrite(d))' /\ Switches(d)'
<1>1. UNCHANGED <<repo, overlay, landed>>
  BY DEF Decide, files
<1>2. d.changed \in SUBSET Keys
  BY DEF Plan
<1>3. View' = View /\ AfterWrite(d)' = AfterWrite(d)
  BY <1>1 DEF View, Merge, AfterWrite
<1>4. \A k \in Keys : /\ tried[k] \subseteq tried'[k]
                      /\ k \in d.changed
                             => {d.view[k]} \cup i[k] \subseteq tried'[k]
  BY DEF Decide
<1>5. \A k \in Keys : Known(k) \subseteq Known(k)'
  BY <1>1, <1>4 DEF Known
<1>6. \A k \in Keys : Firm(k)' => Firm(k)
  BY <1>5 DEF Firm
<1>7. \A k \in Keys : Firm(k) => View[k] \in Known(k)
  BY DEF Writing, KeysSurvive, Firm
<1>8. KeysSurvive'
  BY <1>3, <1>5, <1>6, <1>7 DEF KeysSurvive, Firm
<1>9. \A k \in Keys : Firm(k)' => d.view[k] \in Known(k)'
  <2> SUFFICES ASSUME NEW k \in Keys, Firm(k)'
               PROVE  d.view[k] \in Known(k)'
    OBVIOUS
  <2>1. CASE k \in d.changed
    BY <1>4, <2>1 DEF Known
  <2>2. CASE k \notin d.changed
    BY <1>5, <1>6, <1>7, <2>2
  <2> QED BY <2>1, <2>2
<1>10. Lands(d, AfterWrite(d))'
  BY <1>1, <1>3 DEF Fits, Lands, Merge
<1>11. NoneLocal(repo)' /\ NoneLocal(AfterWrite(d))'
  BY <1>1, <1>3 DEF Fits, NoneLocal, Writing
<1>12. Switches(d)'
  <2> SUFFICES ASSUME NEW k \in Keys
               PROVE  (\/ Merge(AfterWrite(d), overlay)[k] = View[k]
                       \/ k \in d.changed /\ Merge(AfterWrite(d), overlay)[k] \in tried[k]
                       \/ Demotes(d, k))'
    BY DEF Switches
  <2>1. Merge(AfterWrite(d), overlay)' = Merge(AfterWrite(d), overlay)
    BY <1>1, <1>3 DEF Merge
  <2>2. Demotes(d, k)' = Demotes(d, k)
    BY <1>1 DEF Demotes, Committable
  <2> QED BY <1>3, <1>4, <2>1, <2>2 DEF Fits
<1> QED BY <1>2, <1>4, <1>8, <1>9, <1>10, <1>11, <1>12 DEF Carrying

\* A step that leaves the layers, the ghosts and the decided writes alone.
Quiet ==
    /\ UNCHANGED <<repo, overlay, landed, tried>>
    /\ \A q \in Verbs :
           /\ pc'[q] \in {"decided", "prepared"}
                  => pc[q] \in {"decided", "prepared"} /\ plan'[q] = plan[q]
           /\ pc'[q] = "written" => pc[q] = "written" /\ plan'[q] = plan[q]

LEMMA QuietWriting == Writing /\ Quiet => Writing'
<1> SUFFICES ASSUME Writing, Quiet
             PROVE  Writing'
  OBVIOUS
<1>1. UNCHANGED <<repo, overlay, landed, tried>>
  BY DEF Quiet
<1>2. View' = View
  BY <1>1 DEF View, Merge
<1>3. \A k : Known(k)' = Known(k)
  BY <1>1 DEF Known
<1>4. NoneLocal(repo)' /\ KeysSurvive'
  BY <1>1, <1>2, <1>3 DEF Writing, NoneLocal, KeysSurvive
<1>5. \A d, doc : Carrying(d, doc) => Carrying(d, doc)'
  BY <1>1, <1>3 DEF Carrying, Lands, NoneLocal, Merge, Firm
<1>6. \A d : Switches(d) => Switches(d)'
  BY <1>1, <1>2 DEF Switches, Demotes, AfterWrite, Merge, Committable
<1>7. \A d : AfterWrite(d)' = AfterWrite(d)
  BY <1>1 DEF AfterWrite
<1>8. ASSUME NEW q \in Verbs, pc'[q] \in {"decided", "prepared"}
      PROVE  (Carrying(plan[q], AfterWrite(plan[q])) /\ Switches(plan[q]))'
  <2>1. pc[q] \in {"decided", "prepared"} /\ plan'[q] = plan[q]
    BY <1>8 DEF Quiet
  <2>2. PICK d : d = plan[q]
    OBVIOUS
  <2>3. Carrying(d, AfterWrite(d)) /\ Switches(d)
    BY <2>1, <2>2 DEF Writing
  <2>4. PICK doc : doc = AfterWrite(d)
    OBVIOUS
  <2>5. Carrying(d, doc)' /\ Switches(d)'
    BY <1>5, <1>6, <2>3, <2>4
  <2>6. AfterWrite(d)' = doc
    BY <1>7, <2>4
  <2> QED BY <2>1, <2>2, <2>5, <2>6
<1>9. ASSUME NEW q \in Verbs, pc'[q] = "written"
      PROVE  Carrying(plan[q], repo)'
  <2>1. pc[q] = "written" /\ plan'[q] = plan[q]
    BY <1>9 DEF Quiet
  <2>2. PICK d, doc : d = plan[q] /\ doc = repo
    OBVIOUS
  <2>3. Carrying(d, doc)'
    BY <1>5, <2>1, <2>2 DEF Writing
  <2> QED BY <1>1, <2>1, <2>2, <2>3
<1> QED BY <1>4, <1>8, <1>9 DEF Writing

\* A verb inside a write shuts the others out of one.
LEMMA Alone ==
    ASSUME OneWriter, NEW p \in Verbs, pc[p] \in Inside, NEW q \in Verbs \ {p}
    PROVE  pc[q] \notin Inside
<1> QED BY DEF OneWriter, Inside

\* One edit of the overlay, seen from the decided write: the key it edits
\* shows the record the write decided on, what is still to come shrinks.
Edited(d, e, k) ==
    /\ e.view = d.view /\ e.changed = d.changed
    /\ View'[k] = d.view[k]
    /\ \A j \in Keys \ {k} : overlay'[j] = overlay[j] /\ View'[j] = View[j]
    /\ \A j \in Keys : /\ j \in e.removals => j \in d.removals
                       /\ e.installs[j] # NoRecord => e.installs[j] = d.installs[j]
                       /\ j # k /\ j \in d.removals => j \in e.removals
                       /\ j # k => e.installs[j] = d.installs[j]

LEMMA EntryEdits ==
    ASSUME TypeOK, NEW p \in Verbs, NEW k \in Keys,
           RemoveEntry(p, k) \/ InstallEntry(p, k),
           NEW d \in Plan, d = plan[p], NEW e, e = plan'[p], Lands(d, repo)
    PROVE  Edited(d, e, k)
<1>1. CASE RemoveEntry(p, k)
  <2>1. e = [d EXCEPT !.removals = @ \ {k}] /\ k \in d.removals
    BY <1>1 DEF RemoveEntry, TypeOK
  <2>2. /\ e.view = d.view /\ e.changed = d.changed /\ e.installs = d.installs
        /\ e.removals = d.removals \ {k}
    BY <2>1 DEF Plan
  <2>3. overlay' = [overlay EXCEPT ![k] = NoRecord] /\ repo' = repo
    BY <1>1 DEF RemoveEntry
  <2>4. repo[k] = d.view[k]
    BY <2>1 DEF Lands
  <2>5. View'[k] = d.view[k] /\ \A j \in Keys \ {k} : View'[j] = View[j]
    BY <2>3, <2>4 DEF View, Merge, TypeOK, Layer
  <2> QED BY <2>2, <2>3, <2>5 DEF TypeOK, Layer, Edited
<1>2. CASE InstallEntry(p, k)
  <2>1. e = [d EXCEPT !.installs[k] = NoRecord] /\ d.installs[k] # NoRecord
    BY <1>2 DEF InstallEntry, TypeOK
  <2>2. /\ e.view = d.view /\ e.changed = d.changed /\ e.removals = d.removals
        /\ e.installs = [d.installs EXCEPT ![k] = NoRecord]
    BY <2>1 DEF Plan
  <2>3. overlay' = [overlay EXCEPT ![k] = d.installs[k]] /\ repo' = repo
    BY <1>2 DEF InstallEntry
  <2>4. d.installs[k] = d.view[k]
    BY <2>1 DEF Lands
  <2>5. d.installs \in [Keys -> Record \cup {NoRecord}]
    BY DEF Plan, Layer
  <2>6. View'[k] = d.view[k] /\ \A j \in Keys \ {k} : View'[j] = View[j]
    BY <2>1, <2>3, <2>4 DEF View, Merge, TypeOK, Layer
  <2> QED BY <2>1, <2>2, <2>3, <2>5, <2>6 DEF TypeOK, Layer, Edited
<1> QED BY <1>1, <1>2

\* Every step keeps what the writes owe.
LEMMA NextWriting ==
    ASSUME TypeOK, OneWriter, TruthfulStores, DecidedSound, Writing, [Next]_vars
    PROVE  Writing'
<1>1. CASE UNCHANGED vars
  <2>1. Quiet
    BY <1>1 DEF vars, Quiet
  <2> QED BY <2>1, QuietWriting
<1>2. CASE HandEdit
  <2>1. Quiet
    BY <1>2 DEF HandEdit, Quiet, claims
  <2> QED BY <2>1, QuietWriting
<1>3. ASSUME NEW p \in Verbs,
             \/ Open(p) \/ Close(p) \/ BeginWrite(p) \/ LockStep(p)
             \/ Refresh(p) \/ Refuse(p) \/ Prepare(p) \/ Die(p)
      PROVE  Writing'
  <2>1. Quiet
    <3>1. UNCHANGED <<repo, overlay, landed, tried>>
      BY <1>3
      DEF Open, Close, BeginWrite, LockStep, Acquire, Blocked, Refresh, Refuse,
          Prepare, Die, files, ghosts, claims
    <3>2. ASSUME NEW q \in Verbs, q # p
          PROVE  pc'[q] = pc[q] /\ plan'[q] = plan[q]
      BY <1>3, <3>2
      DEF Open, Close, BeginWrite, LockStep, Acquire, Blocked, Refresh, Refuse,
          Prepare, Die, TypeOK
    <3>3. \/ pc'[p] \notin {"decided", "prepared", "written"}
          \/ pc[p] = "decided" /\ pc'[p] = "prepared" /\ plan'[p] = plan[p]
      BY <1>3
      DEF Open, Close, BeginWrite, LockStep, Acquire, Blocked, Refresh, Refuse,
          Prepare, Die, TypeOK
    <3> QED BY <3>1, <3>2, <3>3 DEF Quiet
  <2> QED BY <2>1, QuietWriting
<1>4. ASSUME NEW p \in Verbs, Deciding(p), ~Refuse(p)
      PROVE  Writing'
  <2>1. PICK d, i : d \in Plan /\ Decide(p, d, i) /\ Fits(d, i)
    <3>1. Truthful(store[p])
      BY <1>4, DecidingPlace DEF TruthfulStores
    <3> QED BY <1>4, <3>1, DecidingFits DEF Writing
  <2>2. pc[p] = "refreshed"
    BY <1>4, DecidingPlace
  <2>3. plan'[p] = d /\ pc'[p] = "decided"
    BY <2>1 DEF Decide, TypeOK
  <2>4. \A q \in Verbs \ {p} : pc'[q] = pc[q] /\ pc[q] \notin Inside
    BY <2>1, <2>2, Alone DEF Decide, TypeOK, Inside
  <2>5. \A k \in Keys \ d.changed : d.view[k] = View[k]
    <3>1. Sound(plan'[p], store[p].entries)
      BY <1>4, <2>2, <2>3, DecidingSound DEF TruthfulStores
    <3> QED BY <2>3, <3>1 DEF Sound
  <2>6. /\ NoneLocal(repo)' /\ KeysSurvive'
        /\ Carrying(d, AfterWrite(d))' /\ Switches(d)'
    BY <2>1, <2>5, DecideCarries
  <2> QED BY <2>3, <2>4, <2>6 DEF Writing, Inside
<1>5. ASSUME NEW p \in Verbs, WriteDocument(p)
      PROVE  Writing'
  <2>1. pc[p] = "prepared" /\ pc' = [pc EXCEPT ![p] = "written"]
    BY <1>5 DEF WriteDocument
  <2>2. \A q \in Verbs \ {p} : pc'[q] = pc[q] /\ pc[q] \notin Inside
    BY <2>1, Alone DEF TypeOK, Inside
  <2>3. PICK d, doc : d = plan[p] /\ doc = AfterWrite(d)
    OBVIOUS
  <2>4. repo' = doc /\ UNCHANGED <<overlay, plan, landed, tried>>
    BY <1>5, <2>3 DEF WriteDocument, AfterWrite, ghosts
  <2>5. Carrying(d, doc) /\ Switches(d)
    BY <2>1, <2>3 DEF Writing
  <2>6. Carrying(d, doc)'
    BY <2>4, <2>5 DEF Carrying, Lands, NoneLocal, Merge, Firm, Known
  <2>7. NoneLocal(repo)'
    BY <2>4, <2>5 DEF Carrying, NoneLocal
  <2>8. KeysSurvive'
    <3> SUFFICES ASSUME NEW k \in Keys, Firm(k)'
                 PROVE  View'[k] \in Known(k)'
      BY DEF KeysSurvive, Firm
    <3>1. Firm(k) /\ Known(k)' = Known(k)
      BY <2>4 DEF Firm, Known
    <3>2. View'[k] = Merge(doc, overlay)[k]
      BY <2>4 DEF View, Merge
    <3>3. View[k] \in Known(k)
      BY <3>1 DEF Writing, KeysSurvive, Firm
    <3>4. CASE Merge(doc, overlay)[k] = View[k]
      BY <3>1, <3>2, <3>3, <3>4
    <3>5. CASE k \in d.changed /\ Merge(doc, overlay)[k] \in tried[k]
      BY <3>1, <3>2, <3>5 DEF Known
    <3>6. CASE Demotes(d, k) /\ Merge(doc, overlay)[k] # View[k]
      <4>1. overlay[k] = NoRecord /\ View[k] = repo[k]
        BY <3>6 DEF Merge, View
      <4>2. repo[k] # NoRecord /\ repo[k].class # "unverifiable"
        BY <3>1, <3>3, <3>6, <4>1 DEF Demotes, Firm
      <4>3. repo[k].class = "clean"
        BY <4>2 DEF Writing, NoneLocal, TypeOK, Layer, Record, Classes
      <4> QED BY <3>6, <4>2, <4>3 DEF Demotes, Committable
    <3> QED BY <2>3, <2>5, <3>4, <3>5, <3>6 DEF Switches
  <2>9. plan'[p] = d /\ pc'[p] = "written"
    BY <2>1, <2>3, <2>4 DEF TypeOK
  <2> QED BY <2>2, <2>4, <2>6, <2>7, <2>8, <2>9 DEF Writing, Inside
<1>6. ASSUME NEW p \in Verbs, NEW k \in Keys, RemoveEntry(p, k) \/ InstallEntry(p, k)
      PROVE  Writing'
  <2>1. pc[p] = "written" /\ UNCHANGED <<pc, repo, landed, tried>>
    BY <1>6 DEF RemoveEntry, InstallEntry, ghosts
  <2>2. \A q \in Verbs \ {p} : pc'[q] = pc[q] /\ pc[q] \notin Inside
    BY <2>1, Alone DEF Inside
  <2>3. PICK d, e : d = plan[p] /\ e = plan'[p]
    OBVIOUS
  <2>4. Carrying(d, repo) /\ d \in Plan
    BY <2>1, <2>3 DEF Writing, TypeOK
  <2>5. Edited(d, e, k)
    BY <1>6, <2>3, <2>4, EntryEdits DEF Carrying
  <2>6. View'[k] = d.view[k] /\ \A j \in Keys \ {k} : View'[j] = View[j]
    BY <2>1, <2>5 DEF Edited
  <2>7. \A j \in Keys : Known(j)' = Known(j) /\ (Firm(j)' <=> Firm(j))
    BY <2>1 DEF Known, Firm
  <2>8. KeysSurvive'
    BY <2>4, <2>6, <2>7 DEF KeysSurvive, Writing, Carrying, Firm
  <2>9. Lands(e, repo)'
    <3> SUFFICES ASSUME NEW j \in Keys
                 PROVE  (/\ e.installs[j] # NoRecord => e.installs[j] = e.view[j]
                         /\ j \in e.removals => repo[j] = e.view[j]
                         /\ e.installs[j] = NoRecord /\ j \notin e.removals
                                => View[j] = e.view[j])'
      BY DEF Lands, View
    <3>1. /\ d.installs[j] # NoRecord => d.installs[j] = d.view[j]
          /\ j \in d.removals => repo[j] = d.view[j]
          /\ d.installs[j] = NoRecord /\ j \notin d.removals => View[j] = d.view[j]
      BY <2>4 DEF Carrying, Lands, View
    <3>2. CASE j = k
      BY <2>1, <2>5, <2>6, <3>1, <3>2 DEF Edited
    <3>3. CASE j # k
      BY <2>1, <2>5, <2>6, <3>1, <3>3 DEF Edited
    <3> QED BY <3>2, <3>3
  <2>10. d.changed \in SUBSET Keys
    BY <2>4 DEF Plan
  <2>11. Carrying(e, repo)'
    BY <2>1, <2>4, <2>5, <2>7, <2>9, <2>10 DEF Carrying, NoneLocal, Edited
  <2>12. NoneLocal(repo)'
    BY <2>1 DEF Writing, NoneLocal
  <2> QED BY <2>1, <2>2, <2>3, <2>8, <2>11, <2>12 DEF Writing, Inside
<1>7. ASSUME NEW p \in Verbs, Return(p)
      PROVE  Writing'
  <2>1. /\ pc[p] = "written"
        /\ \/ pc' = [pc EXCEPT ![p] = "open"]
           \/ pc' = [pc EXCEPT ![p] = "closed"]
    BY <1>7 DEF Return
  <2>2. \A q \in Verbs \ {p} : pc'[q] = pc[q] /\ pc[q] \notin Inside
    BY <2>1, Alone DEF TypeOK, Inside
  <2>3. UNCHANGED <<repo, overlay>>
    BY <1>7 DEF Return, files
  <2>4. Lands(plan[p], repo) /\ plan[p].removals = {} /\ plan[p].installs = NoLayer
    BY <1>7, <2>1 DEF Writing, Carrying, Return
  <2>5. \A k \in Keys : View[k] = plan[p].view[k]
    BY <2>4 DEF Lands, NoLayer, View
  <2>6. KeysSurvive'
    <3> SUFFICES ASSUME NEW k \in Keys, Firm(k)'
                 PROVE  View'[k] \in Known(k)'
      BY DEF KeysSurvive, Firm
    <3>1. View' = View
      BY <2>3 DEF View, Merge
    <3>2. CASE k \in plan[p].changed
      <4>1. landed'[k] = plan[p].view[k]
        BY <1>7, <3>2 DEF Return
      <4> QED BY <2>5, <3>1, <4>1 DEF Known
    <3>3. CASE k \notin plan[p].changed
      <4>1. landed'[k] = landed[k] /\ tried'[k] = tried[k]
        BY <1>7, <3>3 DEF Return
      <4>2. Known(k)' = Known(k) /\ Firm(k)
        BY <4>1 DEF Known, Firm
      <4> QED BY <3>1, <4>2 DEF Writing, KeysSurvive, Firm
    <3> QED BY <3>2, <3>3
  <2>7. NoneLocal(repo)'
    BY <2>3 DEF Writing, NoneLocal
  <2>8. pc'[p] \in {"open", "closed"}
    BY <2>1 DEF TypeOK
  <2> QED BY <2>2, <2>6, <2>7, <2>8 DEF Writing, Inside
<1> QED BY <1>1, <1>2, <1>3, <1>4, <1>5, <1>6, <1>7 DEF Next, Carry, Deciding

\* The store starts with no write under way and nothing to lose.
LEMMA InitWriting == Init => Writing
<1> SUFFICES ASSUME Init
             PROVE  Writing
  OBVIOUS
<1>1. \A k \in Keys : repo[k] = NoRecord /\ View[k] = NoRecord /\ landed[k] = NoRecord
  BY DEF Init, NoLayer, View, Merge
<1> QED BY <1>1 DEF Init, Writing, NoneLocal, KeysSurvive, Known

------------------------------------------------------------------------------
(* A record verb keeps what is portable in sight.                          *)

\* No portable record is held by an overlay entry.
NoneClean(layer) == \A k \in Keys : layer[k] # NoRecord => layer[k].class # "clean"

\* What a decided write has still to do to the overlay: it installs no
\* portable record, and what a record verb removes it does not keep there.
Spares(d) ==
    /\ NoneClean(d.installs)
    /\ ~d.measured => \A k \in d.removals : d.view[k] = NoRecord

\* A portable record of the decided view is found under some key.
Finds(d) ==
    ~d.measured =>
        \A k \in Keys : d.view[k] # NoRecord /\ d.view[k].class = "clean"
                           => \E j \in Keys : View[j] = d.view[k]

Sighted ==
    /\ NoneClean(overlay)
    /\ \A p \in Verbs :
           pc[p] \in {"decided", "prepared", "written"} => Spares(plan[p]) /\ Finds(plan[p])

\* Every decision spares the portable records and finds them where they are.
LEMMA DecidingSpares ==
    ASSUME TypeOK, NoneClean(overlay), NEW p \in Verbs, Deciding(p), ~Refuse(p),
           Truthful(store[p])
    PROVE  Spares(plan'[p]) /\ Finds(plan'[p])
<1> DEFINE E == store[p].entries
<1>1. \A d, i : Decide(p, d, i) => plan'[p] = d
  BY DEF Decide, TypeOK
<1> HIDE DEF E
<1>2. CASE \E next \in Layer : DecideUpdate(p, next)
  <2>1. PICK next \in Layer : DecideUpdate(p, next)
    BY <1>2
  <2>2. Decide(p, PlanAfresh(next, E), NoInterim)
    BY <2>1, UpdateAfresh DEF E
  <2>3. PICK d : d = PlanAfresh(next, E)
    OBVIOUS
  <2>4. d.installs = InstallsAfresh(next, E) /\ d.measured
    BY <2>3 DEF PlanAfresh
  <2>5. NoneClean(InstallsAfresh(next, E))
    BY DEF InstallsAfresh, NoneClean, Committable
  <2> QED BY <1>1, <2>2, <2>3, <2>4, <2>5 DEF Spares, Finds
<1>3. CASE DecidePrune(p)
  <2>1. PICK kept \in SUBSET Keys : Decide(p, PrunePlan(kept, E), NoInterim)
    BY <1>3 DEF DecidePrune, E
  <2>2. PICK d : d = PrunePlan(kept, E)
    OBVIOUS
  <2>3. /\ d.installs = NoLayer
        /\ d.removals = {k \in Keys \ kept : overlay[k] # NoRecord}
        /\ d.view = [k \in Keys |-> IF k \in kept THEN View[k] ELSE NoRecord]
    BY <2>2 DEF PrunePlan, View
  <2>4. Spares(d)
    BY <2>3 DEF Spares, NoneClean, NoLayer
  <2>5. Finds(d)
    BY <2>3 DEF Finds
  <2> QED BY <1>1, <2>1, <2>2, <2>4, <2>5
<1>4. CASE DecideRetarget(p)
  <2>1. PICK from \in Keys, to \in Keys :
            /\ to # from
            /\ Decide(p, RetargetPlan(from, to, E), [NoInterim EXCEPT ![to] = {repo[from]}])
    BY <1>4 DEF DecideRetarget, E
  <2> DEFINE R == Renamed(repo, from, to)
             O == Renamed(overlay, from, to)
  <2>2. PICK d : d = RetargetPlan(from, to, E)
    OBVIOUS
  <2>3. /\ d.installs = [k \in Keys |-> IF k = to /\ overlay[from] # NoRecord
                                       THEN overlay[from] ELSE NoRecord]
        /\ d.removals = {k \in {from} : overlay[k] # NoRecord}
        /\ d.view = Merge(R, O)
    BY <2>2 DEF RetargetPlan
  <2>4. ASSUME NEW k \in Keys
        PROVE  /\ R[k] = IF repo[from] = NoRecord THEN repo[k]
                         ELSE IF k = from THEN NoRecord
                         ELSE IF k = to THEN repo[from] ELSE repo[k]
               /\ O[k] = IF overlay[from] = NoRecord THEN overlay[k]
                         ELSE IF k = from THEN NoRecord
                         ELSE IF k = to THEN overlay[from] ELSE overlay[k]
               /\ Merge(R, O)[k] = IF O[k] = NoRecord THEN R[k] ELSE O[k]
               /\ View[k] = IF overlay[k] = NoRecord THEN repo[k] ELSE overlay[k]
    <3>1. /\ Merge(R, O)[k] = IF O[k] = NoRecord THEN R[k] ELSE O[k]
          /\ View[k] = IF overlay[k] = NoRecord THEN repo[k] ELSE overlay[k]
      BY DEF Merge, View
    <3> QED BY <3>1 DEF Renamed, TypeOK, Layer
  <2> HIDE DEF R, O
  <2>5. Spares(d)
    <3>1. NoneClean(d.installs)
      BY <2>3 DEF NoneClean
    <3>2. overlay[from] # NoRecord => d.view[from] = NoRecord
      BY <2>3, <2>4
    <3> QED BY <2>3, <3>1, <3>2 DEF Spares
  <2>6. Finds(d)
    <3> SUFFICES ASSUME NEW k \in Keys, d.view[k] # NoRecord,
                        d.view[k].class = "clean"
                 PROVE  \E j \in Keys : View[j] = d.view[k]
      BY DEF Finds
    <3>1. \A j \in Keys : overlay[j] # NoRecord => overlay[j].class # "clean"
      BY DEF NoneClean
    <3>2. O[k] = NoRecord /\ d.view[k] = R[k]
      BY <2>3, <2>4, <3>1
    <3>3. CASE k = from
      BY <2>1, <2>3, <2>4, <3>2, <3>3
    <3>4. CASE k = to
      BY <2>1, <2>3, <2>4, <3>2, <3>4
    <3>5. CASE k # from /\ k # to
      BY <2>3, <2>4, <3>2, <3>5
    <3> QED BY <3>3, <3>4, <3>5
  <2> QED BY <1>1, <2>1, <2>2, <2>5, <2>6
<1> QED BY <1>2, <1>3, <1>4, MeasuresOrRevises

\* What an edit of the overlay leaves to do was to do before it.
LEMMA EditsSpare ==
    ASSUME TypeOK, NEW p \in Verbs, NEW k \in Keys,
           RemoveEntry(p, k) \/ InstallEntry(p, k),
           Lands(plan[p], repo), NoneClean(overlay), Spares(plan[p])
    PROVE  (NoneClean(overlay) /\ Spares(plan[p]) /\ Finds(plan[p]))'
<1>1. PICK d, e : d = plan[p] /\ e = plan'[p]
  OBVIOUS
<1>2. d \in Plan
  BY <1>1 DEF TypeOK
<1>3. /\ e.view = d.view /\ e.measured = d.measured
      /\ \A j \in Keys : /\ j \in e.removals => j \in d.removals
                         /\ e.installs[j] # NoRecord => e.installs[j] = d.installs[j]
      /\ e.removals \subseteq d.removals
  <2>1. CASE RemoveEntry(p, k)
    <3>1. e = [d EXCEPT !.removals = @ \ {k}]
      BY <1>1, <2>1 DEF RemoveEntry, TypeOK
    <3> QED BY <1>2, <3>1 DEF Plan
  <2>2. CASE InstallEntry(p, k)
    <3>1. e = [d EXCEPT !.installs[k] = NoRecord]
      BY <1>1, <2>2 DEF InstallEntry, TypeOK
    <3>2. d.installs \in [Keys -> Record \cup {NoRecord}]
      BY <1>2 DEF Plan, Layer
    <3>3. /\ e.view = d.view /\ e.measured = d.measured /\ e.removals = d.removals
          /\ e.installs = [d.installs EXCEPT ![k] = NoRecord]
      BY <1>2, <3>1 DEF Plan
    <3> QED BY <3>2, <3>3
  <2> QED BY <2>1, <2>2
<1>4. Spares(e)
  BY <1>1, <1>3 DEF Spares, NoneClean
<1>5. \A j \in Keys : overlay'[j] = overlay[j] \/ overlay'[j] = NoRecord
                      \/ overlay'[j] = d.installs[j]
  BY <1>1 DEF RemoveEntry, InstallEntry, TypeOK, Layer
<1>6. NoneClean(overlay)'
  BY <1>1, <1>5 DEF NoneClean, Spares
<1>7. Finds(d)'
  <2> SUFFICES ASSUME ~d.measured, NEW j \in Keys, d.view[j] # NoRecord,
                      d.view[j].class = "clean"
               PROVE  View'[j] = d.view[j]
    BY DEF Finds
  <2>1. d.installs[j] = NoRecord /\ j \notin d.removals
    BY <1>1 DEF Lands, Spares, NoneClean
  <2>2. View[j] = d.view[j]
    BY <1>1, <2>1 DEF Lands, View
  <2>3. j # k
    BY <1>1, <2>1 DEF RemoveEntry, InstallEntry
  <2>4. overlay'[j] = overlay[j] /\ repo' = repo
    BY <2>3 DEF RemoveEntry, InstallEntry, TypeOK, Layer
  <2> QED BY <2>2, <2>4 DEF View, Merge
<1>8. Finds(e)'
  BY <1>3, <1>7 DEF Finds
<1> QED BY <1>1, <1>4, <1>6, <1>8 DEF Spares, Finds

\* The rename shows every portable record that a record verb keeps under the
\* key it moves to: no entry of the overlay lies above it.
LEMMA RenameFinds ==
    ASSUME NEW d, Lands(d, repo'), Spares(d), UNCHANGED overlay
    PROVE  Finds(d)'
<1> SUFFICES ASSUME ~d.measured, NEW j \in Keys, d.view[j] # NoRecord,
                    d.view[j].class = "clean"
             PROVE  View'[j] = d.view[j]
  BY DEF Finds
<1>1. d.installs[j] = NoRecord /\ j \notin d.removals
  BY DEF Lands, Spares, NoneClean
<1>2. Merge(repo', overlay)[j] = d.view[j]
  BY <1>1 DEF Lands
<1> QED BY <1>2 DEF View, Merge

\* Every step keeps the overlay free of portable records and the record verbs'
\* in sight.
LEMMA NextSighted ==
    ASSUME TypeOK, OneWriter, TruthfulStores, Writing, Sighted, [Next]_vars
    PROVE  Sighted'
<1> DEFINE Past == {"decided", "prepared", "written"}
<1>1. ASSUME UNCHANGED <<repo, overlay>>,
             \A q \in Verbs : pc'[q] \in Past
                                 => pc[q] \in Past /\ plan'[q] = plan[q]
      PROVE  Sighted'
  <2>1. View' = View
    BY <1>1 DEF View, Merge
  <2> QED BY <1>1, <2>1 DEF Sighted, NoneClean, Spares, Finds
<1>2. CASE UNCHANGED vars
  BY <1>1, <1>2 DEF vars
<1>3. CASE HandEdit
  BY <1>1, <1>3 DEF HandEdit
<1>4. ASSUME NEW p \in Verbs,
             \/ Open(p) \/ Close(p) \/ BeginWrite(p) \/ LockStep(p)
             \/ Refresh(p) \/ Refuse(p) \/ Prepare(p) \/ Return(p) \/ Die(p)
      PROVE  Sighted'
  <2>1. UNCHANGED <<repo, overlay>>
    BY <1>4
    DEF Open, Close, BeginWrite, LockStep, Acquire, Blocked, Refresh, Refuse,
        Prepare, Return, Die, files
  <2>2. ASSUME NEW q \in Verbs, q # p
        PROVE  pc'[q] = pc[q] /\ plan'[q] = plan[q]
    BY <1>4, <2>2
    DEF Open, Close, BeginWrite, LockStep, Acquire, Blocked, Refresh, Refuse,
        Prepare, Return, Die, TypeOK
  <2>3. \/ pc'[p] \notin Past
        \/ pc[p] = "decided" /\ plan'[p] = plan[p]
    BY <1>4
    DEF Open, Close, BeginWrite, LockStep, Acquire, Blocked, Refresh, Refuse,
        Prepare, Return, Die, TypeOK
  <2> QED BY <1>1, <2>1, <2>2, <2>3
<1>5. ASSUME NEW p \in Verbs, Deciding(p), ~Refuse(p)
      PROVE  Sighted'
  <2>1. pc[p] = "refreshed" /\ Truthful(store[p])
    BY <1>5, DecidingPlace DEF TruthfulStores
  <2>2. /\ UNCHANGED <<repo, overlay>> /\ pc' = [pc EXCEPT ![p] = "decided"]
        /\ \A q \in Verbs \ {p} : plan'[q] = plan[q]
    BY <1>5
    DEF Deciding, DecideCommit, DecideAttest, DecideReconcile, DecidePrune,
        DecideRetarget, DecideUpdate, Decide, files, TypeOK
  <2>3. Spares(plan'[p]) /\ Finds(plan'[p])
    BY <1>5, <2>1, DecidingSpares DEF Sighted
  <2>4. \A q \in Verbs \ {p} : pc'[q] \notin Past
    BY <2>1, <2>2, Alone DEF Inside, TypeOK
  <2>5. View' = View
    BY <2>2 DEF View, Merge
  <2> QED BY <2>2, <2>3, <2>4, <2>5 DEF Sighted, NoneClean, Spares, Finds
<1>6. ASSUME NEW p \in Verbs, WriteDocument(p)
      PROVE  Sighted'
  <2>1. /\ pc[p] = "prepared" /\ pc' = [pc EXCEPT ![p] = "written"]
        /\ UNCHANGED <<overlay, plan>>
    BY <1>6 DEF WriteDocument
  <2>2. PICK d : d = plan[p]
    OBVIOUS
  <2>3. Lands(d, repo') /\ Spares(d)
    <3>1. Carrying(d, AfterWrite(d)) /\ Spares(d)
      BY <2>1, <2>2 DEF Writing, Sighted
    <3>2. repo' = AfterWrite(d)
      BY <1>6, <2>2 DEF WriteDocument, AfterWrite
    <3> QED BY <3>1, <3>2 DEF Carrying
  <2>4. Finds(d)'
    BY <2>1, <2>3, RenameFinds
  <2>5. \A q \in Verbs \ {p} : pc'[q] \notin Past
    BY <2>1, Alone DEF Inside, TypeOK
  <2> QED BY <2>1, <2>2, <2>3, <2>4, <2>5 DEF Sighted, NoneClean, Spares, Finds
<1>7. ASSUME NEW p \in Verbs, NEW k \in Keys, RemoveEntry(p, k) \/ InstallEntry(p, k)
      PROVE  Sighted'
  <2>1. pc[p] = "written" /\ UNCHANGED pc
    BY <1>7 DEF RemoveEntry, InstallEntry
  <2>2. /\ Lands(plan[p], repo) /\ NoneClean(overlay) /\ Spares(plan[p])
    BY <2>1 DEF Writing, Carrying, Sighted
  <2>3. (NoneClean(overlay) /\ Spares(plan[p]) /\ Finds(plan[p]))'
    BY <1>7, <2>2, EditsSpare
  <2>4. \A q \in Verbs \ {p} : pc'[q] \notin Past
    BY <2>1, Alone DEF Inside
  <2> QED BY <2>3, <2>4 DEF Sighted
<1> QED
  BY <1>2, <1>3, <1>4, <1>5, <1>6, <1>7 DEF Next, Carry, Deciding

\* A claim committed under a key survives: whoever dies in whatever write,
\* whatever a reviewer accepts, revokes or tears and wherever records are
\* moved, a reader finds under the key what the last write of it left or a
\* later one offered, as long as none of these stands by an exemption alone;
\* and at every step of a record verb a reader finds each portable record the
\* verb keeps.
THEOREM ClaimsSurvive == Spec => []CommittedSurvives
<1>1. Init => Writing /\ Sighted
  <2>1. Init => Sighted
    BY DEF Init, Sighted, NoneClean, NoLayer
  <2> QED BY <2>1, InitWriting
<1>2. IInv /\ Writing /\ Sighted /\ [Next]_vars => Writing' /\ Sighted'
  BY NextWriting, NextSighted DEF IInv
<1>3. Writing /\ Sighted => CommittedSurvives
  BY DEF Writing, Sighted, CommittedSurvives, PortableInSight, Finds
<1> QED BY <1>1, <1>2, <1>3, Invariant, PTL DEF Spec

------------------------------------------------------------------------------
(* The store implements the registers, while no reviewed exemption is      *)
(* taken back: a row that loses its own is dropped from the document ahead *)
(* of its install in the overlay, and is in neither for a step.            *)

\* A reviewer accepts and takes nothing back, nor does a retarget that dies
\* between the exemption record and the document.
Calm ==
    /\ HandEdits \subseteq {"accept"}
    /\ MayDie => "retarget" \notin VerbKinds

\* Every row of the document passes the portable line under the entries.
Covered(doc, entries) ==
    \A k \in Keys : doc[k] # NoRecord => Committable(k, doc[k], entries)

\* A decided write leaves a covered document, and moves no entry of the
\* exemption record but in a retarget that is carried out.
Covers(d, entries) ==
    /\ Covered(AfterWrite(d), d.entries)
    /\ d.moved \/ d.entries = entries
    /\ d.moved => ~MayDie /\ ~d.measured

\* The entries in force are the ones that were read, of a file that parsed.
EntriesRead == \A p \in Verbs : store[p].entries = store[p].raw.entries /\ ~store[p].torn

Judges(p) ==
    /\ pc[p] \in {"refreshed", "decided"} =>
           /\ Covered(repo, store[p].entries)
           /\ store[p].entries \subseteq exemptions.entries
    /\ pc[p] = "decided" => Covers(plan[p], store[p].entries)
    /\ pc[p] = "prepared" =>
           /\ Covers(plan[p], plan[p].entries)
           /\ plan[p].entries \subseteq exemptions.entries
           /\ ~plan[p].moved => Covered(repo, plan[p].entries)
    /\ pc[p] = "written" =>
           \A k \in Keys \ plan[p].changed : plan[p].view[k] = View[k]

Standing ==
    /\ ~exemptions.torn
    /\ EntriesRead
    /\ (\A p \in Verbs : pc[p] = "prepared" => ~plan[p].moved)
           => Covered(repo, exemptions.entries)
    /\ \A p \in Verbs : Judges(p)

\* Accepting more uncovers no row.
LEMMA CoveredGrows ==
    ASSUME NEW doc, NEW few, NEW many, few \subseteq many, Covered(doc, few)
    PROVE  Covered(doc, many)
<1> QED BY DEF Covered, Committable

\* Every decision leaves the document covered.
LEMMA DecidingCovers ==
    ASSUME TypeOK, Calm, NEW p \in Verbs, Deciding(p), ~Refuse(p),
           Covered(repo, store[p].entries), Truthful(store[p])
    PROVE  \E d, i : Decide(p, d, i) /\ Covers(d, store[p].entries)
<1> DEFINE E == store[p].entries
<1>1. ASSUME NEW next
      PROVE  Covers(PlanAfresh(next, E), E)
  <2> DEFINE d == PlanAfresh(next, E)
  <2>1. /\ d.repo = [k \in Keys |-> SplitRowAfresh(k, next, E)] /\ d.rewrite = TRUE
        /\ d.entries = E /\ d.moved = FALSE
    BY DEF PlanAfresh
  <2> HIDE DEF d, E
  <2>2. Covered(AfterWrite(d), d.entries)
    BY <2>1, SplitRowPortable DEF AfterWrite, Covered
  <2>3. Covers(d, E)
    BY <2>1, <2>2 DEF Covers
  <2> QED BY <2>3 DEF d
<1>2. ASSUME NEW kept \in SUBSET Keys
      PROVE  Covers(PrunePlan(kept, E), E)
  <2> DEFINE d == PrunePlan(kept, E)
             R == [k \in Keys |-> IF k \in kept THEN repo[k] ELSE NoRecord]
  <2>1. d.repo = R /\ d.rewrite = (R # repo) /\ d.entries = E /\ d.moved = FALSE
    BY DEF PrunePlan
  <2> HIDE DEF d
  <2>2. AfterWrite(d) = R
    BY <2>1 DEF AfterWrite
  <2>3. Covered(R, E)
    BY DEF Covered
  <2> HIDE DEF R
  <2>4. Covers(d, E)
    BY <2>1, <2>2, <2>3 DEF Covers
  <2> QED BY <2>4 DEF d
<1>3. ASSUME NEW from \in Keys, NEW to \in Keys, to # from,
             ~Collides(from, to, E), ~MayDie
      PROVE  Covers(RetargetPlan(from, to, E), E)
  <2> DEFINE d == RetargetPlan(from, to, E)
             R == Renamed(repo, from, to)
             F == RenamedEntries(E, from, to)
  <2>1. /\ d.repo = R /\ d.rewrite = (R # repo) /\ d.entries = F
        /\ d.moved = (from \in E) /\ d.measured = FALSE
    BY DEF RetargetPlan
  <2> HIDE DEF d
  <2>2. AfterWrite(d) = R
    BY <2>1 DEF AfterWrite
  <2>3. Covered(R, F)
    <3> SUFFICES ASSUME NEW k \in Keys, R[k] # NoRecord
                 PROVE  Committable(k, R[k], F)
      BY DEF Covered
    <3>1. ~(repo[from] # NoRecord /\ repo[to] # NoRecord) /\ ~(from \in E /\ to \in E)
      BY <1>3 DEF Collides
    <3>2. R[k] = IF repo[from] = NoRecord THEN repo[k]
                 ELSE IF k = from THEN NoRecord
                 ELSE IF k = to THEN repo[from] ELSE repo[k]
      BY DEF Renamed, TypeOK, Layer
    <3>3. F = IF from \in E THEN (E \ {from}) \cup {to} ELSE E
      BY DEF RenamedEntries
    <3>4. \A j \in Keys : repo[j] # NoRecord =>
              repo[j].class = "clean" \/ (repo[j].class = "unverifiable" /\ j \in E)
      BY DEF Covered, Committable
    <3> HIDE DEF R, E, F
    <3>5. CASE k = to
      BY <3>1, <3>2, <3>3, <3>4, <3>5 DEF Committable
    <3>6. CASE k = from
      BY <3>1, <3>2, <3>3, <3>4, <3>6 DEF Committable
    <3>7. CASE k # from /\ k # to
      BY <3>2, <3>3, <3>4, <3>7 DEF Committable
    <3> QED BY <3>5, <3>6, <3>7
  <2>4. F = E \/ from \in E
    BY DEF RenamedEntries
  <2> HIDE DEF R, F
  <2>5. Covers(d, E)
    BY <1>3, <2>1, <2>2, <2>3, <2>4 DEF Covers
  <2> QED BY <2>5 DEF d
<1> HIDE DEF E
<1>4. CASE \E next \in Layer : DecideUpdate(p, next)
  <2>1. PICK next \in Layer : DecideUpdate(p, next)
    BY <1>4
  <2>2. Decide(p, PlanAfresh(next, E), NoInterim)
    BY <2>1, UpdateAfresh DEF E
  <2> QED BY <1>1, <2>2 DEF E
<1>5. CASE DecidePrune(p)
  <2>1. PICK kept \in SUBSET Keys : Decide(p, PrunePlan(kept, E), NoInterim)
    BY <1>5 DEF DecidePrune, E
  <2> QED BY <1>2, <2>1 DEF E
<1>6. CASE DecideRetarget(p)
  <2>1. PICK from \in Keys, to \in Keys :
            /\ to # from /\ ~Collides(from, to, E)
            /\ Decide(p, RetargetPlan(from, to, E), [NoInterim EXCEPT ![to] = {repo[from]}])
    BY <1>6 DEF DecideRetarget, E
  <2>2. ~MayDie
    BY <1>6, StoreAssumption DEF DecideRetarget, Calm
  <2> QED BY <1>3, <2>1, <2>2 DEF E
<1> QED BY <1>4, <1>5, <1>6, MeasuresOrRevises

\* Every step keeps the rows covered and the decided writes fit to leave
\* them so.
LEMMA NextStanding ==
    ASSUME TypeOK, OneWriter, TruthfulStores, DecidedSound, Writing, Calm, Standing,
           [Next]_vars
    PROVE  Standing'
<1>1. ASSUME NEW p \in Verbs, Open(p) \/ Refresh(p)
      PROVE  /\ EntriesRead' /\ UNCHANGED <<repo, overlay, exemptions, plan>>
             /\ store'[p].entries = exemptions.entries
             /\ \A q \in Verbs \ {p} : pc'[q] = pc[q] /\ store'[q] = store[q]
  <2>1. exemptions.torn = FALSE /\ EntriesRead
    BY DEF Standing, TypeOK, ExemptionFile
  <2>2. /\ Loaded(exemptions).entries = exemptions.entries
        /\ Loaded(exemptions).raw = exemptions
        /\ ~Loaded(exemptions).torn
    BY DEF Loaded
  <2>3. ASSUME NEW s \in StoreState, s.entries = s.raw.entries, s.raw = exemptions
        PROVE  LET t == [s EXCEPT !.torn = FALSE]
               IN  t.entries = exemptions.entries /\ t.raw.entries = t.entries /\ ~t.torn
    BY <2>3 DEF StoreState
  <2>4. PICK s : /\ store' = [store EXCEPT ![p] = s]
                 /\ s.entries = exemptions.entries /\ s.raw.entries = s.entries /\ ~s.torn
    <3>1. CASE Open(p)
      BY <2>2, <3>1 DEF Open
    <3>2. CASE Refresh(p) /\ exemptions = store[p].raw
      <4>1. store' = [store EXCEPT ![p] = [store[p] EXCEPT !.torn = FALSE]]
        BY <3>2 DEF Refresh, Refreshed
      <4>2. store[p] \in StoreState /\ store[p].entries = store[p].raw.entries
        BY <2>1 DEF EntriesRead, TypeOK
      <4> QED BY <2>3, <3>2, <4>1, <4>2
    <3>3. CASE Refresh(p) /\ exemptions # store[p].raw
      <4>1. store' = [store EXCEPT ![p] = Loaded(exemptions)]
        BY <2>1, <3>3 DEF Refresh, Refreshed
      <4> QED BY <2>2, <4>1
    <3> QED BY <1>1, <3>1, <3>2, <3>3
  <2>5. \A q \in Verbs \ {p} : pc'[q] = pc[q] /\ store'[q] = store[q]
    BY <1>1, <2>4 DEF Open, Refresh, TypeOK
  <2>6. store'[p] = s
    BY <2>4 DEF TypeOK
  <2>7. EntriesRead'
    BY <2>1, <2>4, <2>5, <2>6 DEF EntriesRead
  <2> QED BY <1>1, <2>4, <2>5, <2>6, <2>7 DEF Open, Refresh, files
<1>2. ASSUME UNCHANGED <<repo, overlay, exemptions, plan>>, EntriesRead',
             \A q \in Verbs : Judges(q)',
             \A q \in Verbs : pc[q] = "prepared" <=> pc'[q] = "prepared"
      PROVE  Standing'
  BY <1>2 DEF Standing, Covered, Committable
<1>3. ASSUME NEW q \in Verbs, UNCHANGED <<repo, overlay, exemptions>>,
             pc'[q] = pc[q], store'[q] = store[q], plan'[q] = plan[q]
      PROVE  Judges(q)'
  <2>1. Judges(q) /\ View' = View
    BY <1>3 DEF Standing, View, Merge
  <2> QED BY <1>3, <2>1 DEF Judges, Covers, Covered, Committable, AfterWrite
<1>4. CASE UNCHANGED vars
  BY <1>2, <1>3, <1>4 DEF vars, Standing, EntriesRead
<1>5. CASE HandEdit
  <2>1. PICK k \in Keys : Accept(k)
    BY <1>5 DEF HandEdit, Calm, Revoke, Tear
  <2>2. /\ exemptions.entries \subseteq exemptions'.entries
        /\ exemptions'.torn = exemptions.torn
    BY <2>1 DEF Accept, TypeOK, ExemptionFile
  <2>3. UNCHANGED <<repo, overlay, store, pc, plan>>
    BY <1>5 DEF HandEdit
  <2>4. View' = View
    BY <2>3 DEF View, Merge
  <2>5. ASSUME NEW q \in Verbs
        PROVE  Judges(q)'
    <3>1. Judges(q)
      BY DEF Standing
    <3> QED BY <2>2, <2>3, <2>4, <3>1 DEF Judges, Covers, Covered, Committable, AfterWrite
  <2>6. Covered(repo, exemptions.entries) => Covered(repo, exemptions.entries)'
    BY <2>2, <2>3 DEF Covered, Committable
  <2> QED BY <2>2, <2>3, <2>5, <2>6 DEF Standing, EntriesRead
<1>6. ASSUME NEW p \in Verbs, Open(p)
      PROVE  Standing'
  <2>1. pc[p] = "closed" /\ pc'[p] = "open"
    BY <1>6 DEF Open, TypeOK
  <2>2. \A q \in Verbs : Judges(q)'
    <3>1. Judges(p)'
      BY <2>1 DEF Judges
    <3> QED BY <1>1, <1>3, <1>6, <3>1
  <2> QED BY <1>1, <1>2, <1>6, <2>1, <2>2
<1>7. ASSUME NEW p \in Verbs, Close(p) \/ BeginWrite(p) \/ LockStep(p) \/ Refuse(p)
      PROVE  Standing'
  <2>1. /\ pc[p] \notin {"decided", "prepared", "written"}
        /\ pc'[p] \notin {"refreshed", "decided", "prepared", "written"}
    BY <1>7 DEF Close, BeginWrite, LockStep, Acquire, Blocked, Refuse, TypeOK
  <2>2. UNCHANGED <<repo, overlay, exemptions, plan>>
    BY <1>7 DEF Close, BeginWrite, LockStep, Acquire, Blocked, Refuse, files
  <2>3. \A q \in Verbs \ {p} : pc'[q] = pc[q] /\ store'[q] = store[q]
    BY <1>7 DEF Close, BeginWrite, LockStep, Acquire, Blocked, Refuse, TypeOK
  <2>4. store'[p] = store[p] \/ store'[p] = Unopened
    BY <1>7 DEF Close, BeginWrite, LockStep, Acquire, Blocked, Refuse, TypeOK
  <2>5. Judges(p)'
    BY <2>1 DEF Judges
  <2>6. EntriesRead'
    BY <2>3, <2>4, LoadedTruthful DEF Standing, EntriesRead, Unopened
  <2> QED BY <1>2, <1>3, <2>1, <2>2, <2>3, <2>5, <2>6
<1>8. ASSUME NEW p \in Verbs, Refresh(p)
      PROVE  Standing'
  <2>1. pc[p] = "locked" /\ pc'[p] = "refreshed"
    BY <1>8 DEF Refresh, TypeOK
  <2>2. \A q \in Verbs : pc[q] # "prepared"
    BY <2>1, Alone DEF Inside
  <2>3. Covered(repo, exemptions.entries)
    BY <2>2 DEF Standing
  <2>4. Judges(p)'
    BY <1>1, <1>8, <2>1, <2>3 DEF Judges, Covered, Committable
  <2> QED BY <1>1, <1>2, <1>3, <1>8, <2>1, <2>4
<1>9. ASSUME NEW p \in Verbs, Deciding(p), ~Refuse(p)
      PROVE  Standing'
  <2>1. pc[p] = "refreshed"
    BY <1>9, DecidingPlace
  <2>2. /\ Covered(repo, store[p].entries)
        /\ store[p].entries \subseteq exemptions.entries
    BY <2>1 DEF Standing, Judges
  <2>3. PICK d, i : Decide(p, d, i) /\ Covers(d, store[p].entries)
    BY <1>9, <2>1, <2>2, DecidingCovers DEF TruthfulStores
  <2>4. /\ UNCHANGED <<repo, overlay, exemptions>>
        /\ plan' = [plan EXCEPT ![p] = d] /\ pc' = [pc EXCEPT ![p] = "decided"]
        /\ store'[p].entries = store[p].entries
        /\ store'[p].raw = store[p].raw /\ store'[p].torn = store[p].torn
        /\ \A q \in Verbs \ {p} : store'[q] = store[q]
    BY <1>9, <2>3, DecidingKeepsStore DEF Decide, files
  <2>5. Covers(d, store[p].entries)'
    BY <2>3, <2>4 DEF Covers, Covered, Committable, AfterWrite
  <2>6. Judges(p)'
    <3>1. pc'[p] = "decided" /\ plan'[p] = d
      BY <2>4 DEF TypeOK
    <3>2. Covered(repo, store[p].entries)'
      BY <2>2, <2>4 DEF Covered, Committable
    <3> QED BY <2>2, <2>4, <2>5, <3>1, <3>2 DEF Judges
  <2>7. \A q \in Verbs \ {p} : pc'[q] = pc[q] /\ plan'[q] = plan[q] /\ store'[q] = store[q]
    BY <2>4 DEF TypeOK
  <2>8. \A q \in Verbs : Judges(q)'
    BY <1>3, <2>4, <2>6, <2>7
  <2>9. \A q \in Verbs : pc'[q] # "prepared" /\ pc[q] # "prepared"
    BY <2>1, <2>4, Alone DEF Inside, TypeOK
  <2>10. Covered(repo, exemptions.entries)'
    BY <2>4, <2>9 DEF Standing, Covered, Committable
  <2> QED BY <2>4, <2>8, <2>10 DEF Standing, EntriesRead
<1>10. ASSUME NEW p \in Verbs, Prepare(p)
       PROVE  Standing'
  <2>1. /\ pc[p] = "decided" /\ pc' = [pc EXCEPT ![p] = "prepared"]
        /\ UNCHANGED <<repo, overlay, plan>>
    BY <1>10 DEF Prepare
  <2>2. PICK d, E : d = plan[p] /\ E = store[p].entries
    OBVIOUS
  <2>3. /\ Covers(d, E) /\ Covered(repo, E) /\ E \subseteq exemptions.entries
        /\ ~store[p].torn
    BY <2>1, <2>2 DEF Standing, Judges, EntriesRead
  <2>4. d \in Plan
    BY <2>2 DEF TypeOK
  <2>5. /\ d.entries \subseteq exemptions'.entries /\ ~exemptions'.torn
        /\ EntriesRead'
        /\ ~d.moved => d.entries = E
        /\ \A q \in Verbs \ {p} : store'[q] = store[q]
    <3>1. ~d.moved => d.entries = E
      BY <2>3 DEF Covers
    <3>2. CASE d.moved \/ store[p].pending
      <4>1. PICK w : w = [entries |-> d.entries, torn |-> FALSE, oldKeys |-> FALSE]
        OBVIOUS
      <4>2. PICK s : s = [Loaded(w) EXCEPT !.judged = store[p].judged]
        OBVIOUS
      <4>3. exemptions' = w /\ store' = [store EXCEPT ![p] = s]
        BY <1>10, <2>2, <2>3, <3>2, <4>1, <4>2 DEF Prepare
      <4>4. /\ s.entries = w.entries /\ s.raw = w /\ ~s.torn
        BY <4>2 DEF Loaded
      <4> QED BY <3>1, <4>1, <4>3, <4>4 DEF EntriesRead, Standing, TypeOK
    <3>3. CASE ~(d.moved \/ store[p].pending)
      <4>1. UNCHANGED <<exemptions, store>>
        BY <1>10, <2>2, <3>3 DEF Prepare
      <4> QED BY <2>3, <3>1, <3>3, <4>1 DEF EntriesRead, Standing
    <3> QED BY <3>2, <3>3
  <2>6. \A q \in Verbs \ {p} : pc'[q] = pc[q] /\ pc[q] \notin Inside
    BY <2>1, Alone DEF TypeOK, Inside
  <2>7. pc'[p] = "prepared" /\ plan'[p] = d
    BY <2>1, <2>2 DEF TypeOK
  <2>8. Covers(d, d.entries)'
    BY <2>1, <2>3 DEF Covers, Covered, Committable, AfterWrite
  <2>9. ~d.moved => Covered(repo, d.entries)'
    BY <2>1, <2>3, <2>5 DEF Covered, Committable
  <2>10. Judges(p)'
    BY <2>5, <2>7, <2>8, <2>9 DEF Judges
  <2>11. \A q \in Verbs : Judges(q)'
    BY <2>6, <2>10 DEF Judges, Inside
  <2>12. ~d.moved => Covered(repo, exemptions.entries)'
    <3>1. ASSUME ~d.moved
          PROVE  Covered(repo', exemptions'.entries)
      <4>1. Covered(repo', d.entries)
        BY <2>1, <2>3, <2>5, <3>1
      <4> QED BY <2>5, <4>1, CoveredGrows
    <3> QED BY <3>1 DEF Covered, Committable
  <2> QED BY <2>5, <2>7, <2>11, <2>12 DEF Standing
<1>11. ASSUME NEW p \in Verbs, WriteDocument(p)
       PROVE  Standing'
  <2>1. /\ pc[p] = "prepared" /\ pc' = [pc EXCEPT ![p] = "written"]
        /\ UNCHANGED <<overlay, plan, exemptions, store>>
    BY <1>11 DEF WriteDocument
  <2>2. PICK d, doc : d = plan[p] /\ doc = AfterWrite(d)
    OBVIOUS
  <2>3. repo' = doc
    BY <1>11, <2>2 DEF WriteDocument, AfterWrite
  <2>4. /\ Covers(d, d.entries) /\ d.entries \subseteq exemptions.entries
        /\ ~d.moved => Covered(repo, d.entries)
    BY <2>1, <2>2 DEF Standing, Judges
  <2>5. Switches(d) /\ \A k \in Keys \ d.changed : d.view[k] = View[k]
    BY <2>1, <2>2 DEF Writing, DecidedSound, Sound
  <2>6. ASSUME NEW k \in Keys \ d.changed
        PROVE  d.view[k] = View'[k]
    <3>1. ~Demotes(d, k)
      BY <2>4 DEF Demotes, Covers, Covered
    <3>2. View'[k] = Merge(AfterWrite(d), overlay)[k]
      BY <2>1, <2>2, <2>3 DEF View, Merge
    <3> QED BY <2>5, <3>1, <3>2 DEF Switches
  <2>7. pc'[p] = "written" /\ plan'[p] = d
    BY <2>1, <2>2 DEF TypeOK
  <2>8. Judges(p)'
    BY <2>6, <2>7 DEF Judges
  <2>9. \A q \in Verbs \ {p} : pc'[q] = pc[q] /\ pc[q] \notin Inside
    BY <2>1, Alone DEF TypeOK, Inside
  <2>10. \A q \in Verbs : Judges(q)'
    BY <2>8, <2>9 DEF Judges, Inside
  <2>11. Covered(doc, exemptions.entries)
    BY <2>2, <2>4, CoveredGrows DEF Covers
  <2>12. Covered(repo, exemptions.entries)'
    BY <2>1, <2>3, <2>11 DEF Covered, Committable
  <2> QED BY <2>1, <2>10, <2>12 DEF Standing, EntriesRead
<1>12. ASSUME NEW p \in Verbs, NEW k \in Keys, RemoveEntry(p, k) \/ InstallEntry(p, k)
       PROVE  Standing'
  <2>1. pc[p] = "written" /\ UNCHANGED <<pc, repo, exemptions, store>>
    BY <1>12 DEF RemoveEntry, InstallEntry
  <2>2. PICK d, e : d = plan[p] /\ e = plan'[p]
    OBVIOUS
  <2>3. d \in Plan /\ Lands(d, repo)
    BY <2>1, <2>2 DEF Writing, Carrying, TypeOK
  <2>4. Edited(d, e, k)
    BY <1>12, <2>2, <2>3, EntryEdits
  <2>5. \A j \in Keys \ d.changed : d.view[j] = View[j]
    BY <2>1, <2>2 DEF Standing, Judges
  <2>6. Judges(p)'
    BY <2>1, <2>2, <2>4, <2>5 DEF Judges, Edited
  <2>7. \A q \in Verbs \ {p} : pc'[q] = pc[q] /\ pc[q] \notin Inside
    BY <2>1, Alone DEF Inside
  <2>8. \A q \in Verbs : Judges(q)'
    BY <2>6, <2>7 DEF Judges, Inside
  <2>9. \A q \in Verbs : pc[q] # "prepared"
    BY <2>1, <2>7 DEF Inside
  <2>10. Covered(repo, exemptions.entries)'
    BY <2>1, <2>9 DEF Standing, Covered, Committable
  <2> QED BY <2>1, <2>8, <2>10 DEF Standing, EntriesRead
<1>13. ASSUME NEW p \in Verbs, Return(p) \/ Die(p)
       PROVE  Standing'
  <2>1. /\ pc'[p] \in {"open", "closed"}
        /\ UNCHANGED <<repo, overlay, exemptions>>
        /\ \A q \in Verbs \ {p} : /\ pc'[q] = pc[q] /\ plan'[q] = plan[q]
                                /\ store'[q] = store[q]
        /\ store'[p] = store[p] \/ store'[p] = Unopened
    BY <1>13 DEF Return, Die, files, TypeOK
  <2>2. \A q \in Verbs : Judges(q)'
    <3>1. Judges(p)'
      BY <2>1 DEF Judges
    <3> QED BY <1>3, <2>1, <3>1
  <2>3. pc[p] = "prepared" => ~plan[p].moved
    BY <1>13 DEF Return, Die, Standing, Judges, Covers
  <2>4. (\A q \in Verbs : pc'[q] = "prepared" => ~plan'[q].moved)
            => Covered(repo, exemptions.entries)
    BY <2>1, <2>3 DEF Standing
  <2>5. Covered(repo, exemptions.entries)' <=> Covered(repo, exemptions.entries)
    BY <2>1 DEF Covered, Committable
  <2>6. EntriesRead'
    BY <2>1, LoadedTruthful DEF Standing, EntriesRead, Unopened
  <2> QED BY <2>1, <2>2, <2>4, <2>5, <2>6 DEF Standing
<1> QED
  BY <1>4, <1>5, <1>6, <1>7, <1>8, <1>9, <1>10, <1>11, <1>12, <1>13
  DEF Next, Carry, Deciding

\* Every step of the store is one of the registers, or none.
LEMMA StepsRegisters ==
    ASSUME TypeOK, TypeOK', OneWriter, TruthfulStores, DecidedSound, Writing, Calm,
           Standing, [Next]_vars
    PROVE  [Registers!Next]_(Registers!vars)
<1> SUFFICES ASSUME NEW k \in Keys, ~UNCHANGED <<View, landed, tried>>
             PROVE  \/ Registers!Offer(k) \/ Registers!Take(k)
                    \/ Registers!Return(k) \/ Registers!Idle(k)
  BY DEF Registers!Next, Registers!vars
<1> DEFINE Step == \/ Registers!Offer(k) \/ Registers!Take(k)
                   \/ Registers!Return(k) \/ Registers!Idle(k)
<1>1. UNCHANGED <<repo, overlay, landed, tried>> => FALSE
  BY DEF View, Merge
<1>2. ASSUME NEW p \in Verbs, Deciding(p), ~Refuse(p)
      PROVE  Step
  <2>1. PICK d, i : Decide(p, d, i) /\ Fits(d, i)
    BY <1>2, DecidingPlace, DecidingFits DEF Writing, TruthfulStores
  <2>2. UNCHANGED <<repo, overlay, landed>> /\ tried[k] \subseteq tried'[k]
    BY <2>1 DEF Decide, files
  <2>3. View' = View
    BY <2>2 DEF View, Merge
  <2>4. tried'[k] \in SUBSET (Record \cup {NoRecord})
    BY DEF TypeOK
  <2>5. tried'[k] = tried[k] \cup tried'[k]
    BY <2>2
  <2>6. Registers!Offer(k)
    BY <2>2, <2>3, <2>4, <2>5 DEF Registers!Offer
  <2> QED BY <2>6
<1>3. ASSUME NEW p \in Verbs, WriteDocument(p)
      PROVE  Step
  <2>1. pc[p] = "prepared" /\ UNCHANGED <<overlay, landed, tried>>
    BY <1>3 DEF WriteDocument, ghosts
  <2>2. PICK d : d = plan[p]
    OBVIOUS
  <2>3. repo' = AfterWrite(d)
    BY <1>3, <2>2 DEF WriteDocument, AfterWrite
  <2>4. View' = Merge(AfterWrite(d), overlay)
    BY <2>1, <2>3 DEF View, Merge
  <2>5. ~Demotes(d, k)
    BY <2>1, <2>2 DEF Standing, Judges, Covers, Demotes, Covered
  <2>6. View'[k] = View[k] \/ View'[k] \in tried[k]
    BY <2>1, <2>2, <2>4, <2>5 DEF Writing, Switches
  <2> QED BY <2>1, <2>6 DEF Registers!Take, Registers!Idle
<1>4. ASSUME NEW p \in Verbs, NEW j \in Keys, RemoveEntry(p, j) \/ InstallEntry(p, j)
      PROVE  Step
  <2>1. pc[p] = "written" /\ UNCHANGED <<landed, tried>>
    BY <1>4 DEF RemoveEntry, InstallEntry, ghosts
  <2>2. PICK d, e : d = plan[p] /\ e = plan'[p]
    OBVIOUS
  <2>3. d \in Plan /\ Carrying(d, repo)
    BY <2>1, <2>2 DEF Writing, TypeOK
  <2>4. Edited(d, e, j)
    BY <1>4, <2>2, <2>3, EntryEdits DEF Carrying
  <2>5. CASE k = j /\ k \in d.changed
    BY <2>1, <2>3, <2>4, <2>5 DEF Edited, Carrying, Registers!Take
  <2>6. CASE k = j /\ k \notin d.changed
    <3>1. d.view[k] = View[k]
      BY <2>1, <2>2, <2>6 DEF Standing, Judges
    <3> QED BY <2>1, <2>4, <2>6, <3>1 DEF Edited, Registers!Idle
  <2>7. CASE k # j
    BY <2>1, <2>4, <2>7 DEF Edited, Registers!Idle
  <2> QED BY <2>5, <2>6, <2>7
<1>5. ASSUME NEW p \in Verbs, Return(p)
      PROVE  Step
  <2>1. pc[p] = "written" /\ UNCHANGED <<repo, overlay>>
    BY <1>5 DEF Return, files
  <2>2. View' = View
    BY <2>1 DEF View, Merge
  <2>3. Lands(plan[p], repo) /\ plan[p].removals = {} /\ plan[p].installs = NoLayer
    BY <1>5, <2>1 DEF Writing, Carrying, Return
  <2>4. View[k] = plan[p].view[k]
    BY <2>3 DEF Lands, NoLayer, View
  <2>5. CASE k \in plan[p].changed
    <3>1. landed'[k] = plan[p].view[k] /\ tried'[k] = {}
      BY <1>5, <2>5 DEF Return
    <3> QED BY <2>2, <2>4, <3>1 DEF Registers!Return
  <2>6. CASE k \notin plan[p].changed
    <3>1. landed'[k] = landed[k] /\ tried'[k] = tried[k]
      BY <1>5, <2>6 DEF Return
    <3> QED BY <2>2, <3>1 DEF Registers!Idle
  <2> QED BY <2>5, <2>6
<1>6. ASSUME NEW p \in Verbs,
             \/ Open(p) \/ Close(p) \/ BeginWrite(p) \/ LockStep(p)
             \/ Refresh(p) \/ Refuse(p) \/ Prepare(p) \/ Die(p)
      PROVE  FALSE
  BY <1>1, <1>6
  DEF Open, Close, BeginWrite, LockStep, Acquire, Blocked, Refresh, Refuse,
      Prepare, Die, files, ghosts, claims
<1>7. ~HandEdit /\ ~UNCHANGED vars
  BY <1>1 DEF HandEdit, vars, claims
<1> QED BY <1>2, <1>3, <1>4, <1>5, <1>6, <1>7 DEF Next, Carry, Deciding

\* The store implements its registers for any number of keys and verbs,
\* wherever verbs die and whatever they write: as long as a reviewer takes
\* no exemption back and no retarget dies, the file system steps of a write,
\* cut short anywhere, are for each key one switch of its visible record,
\* and a write that returned is visible.
THEOREM StoreIsRegisters ==
    ASSUME Calm
    PROVE  Spec => KeysAreRegisters
<1>1. Init => Registers!Init
  <2> SUFFICES ASSUME Init
               PROVE  Registers!Init
    OBVIOUS
  <2>1. View = [k \in Keys |-> NoRecord]
    BY DEF Init, NoLayer, View, Merge
  <2> QED BY <2>1 DEF Init, NoLayer, Registers!Init
<1>2. Init => Writing /\ Standing
  <2> SUFFICES ASSUME Init
               PROVE  Writing /\ Standing
    OBVIOUS
  <2>1. \A k \in Keys : repo[k] = NoRecord
    BY DEF Init, NoLayer
  <2>2. Writing
    BY InitWriting
  <2>3. EntriesRead /\ ~exemptions.torn
    BY LoadedTruthful DEF Init, EntriesRead, Unopened
  <2>4. \A p \in Verbs : Judges(p)
    BY DEF Init, Judges
  <2>5. Covered(repo, exemptions.entries)
    BY <2>1 DEF Covered
  <2> QED BY <2>2, <2>3, <2>4, <2>5 DEF Standing
<1>3. IInv /\ Writing /\ Standing /\ [Next]_vars => Writing' /\ Standing'
  BY NextWriting, NextStanding DEF IInv
<1>4. IInv /\ IInv' /\ Writing /\ Standing /\ [Next]_vars
          => [Registers!Next]_(Registers!vars)
  BY StepsRegisters DEF IInv
<1> QED BY <1>1, <1>2, <1>3, <1>4, Invariant, PTL DEF Spec, KeysAreRegisters, Registers!Spec

------------------------------------------------------------------------------
(* The document never goes back.                                           *)

\* No verb dies in a write, and no record is moved onto another key: either
\* may leave an overlay entry above a newer row, which a later write may
\* promote over it.
Steady == ~MayDie /\ "retarget" \notin VerbKinds

\* What was recorded first comes first.
Older(a, b) == a # NoRecord /\ b # NoRecord => a.v <= b.v
Since(a) == a # NoRecord => a.v <= version

\* A decided write renames nothing older into place, nor anything newer than
\* what it makes visible.
Ages(d) ==
    \A k \in Keys :
        /\ Older(repo[k], AfterWrite(d)[k])
        /\ Older(AfterWrite(d)[k], d.view[k])
        /\ Since(AfterWrite(d)[k]) /\ Since(d.view[k])

Aged ==
    /\ \A k \in Keys : Since(repo[k]) /\ Since(overlay[k])
    /\ (\A p \in Verbs : pc[p] # "written") => \A k \in Keys : Older(repo[k], View[k])
    /\ \A p \in Verbs :
           /\ pc[p] \in {"decided", "prepared"} => Ages(plan[p])
           /\ pc[p] = "written" =>
                  \A k \in Keys : Older(repo[k], plan[p].view[k]) /\ Since(plan[p].view[k])

\* Store.Update ages what it is given well: the row it leaves is the new
\* record, the standing row or none.
LEMMA UpdateAges ==
    ASSUME TypeOK, NEW next \in [Keys -> Record \cup {NoRecord}], NEW entries,
           \A k \in Keys : Older(repo[k], View[k]) /\ Older(View[k], next[k]),
           NEW now \in Nat,
           \A k \in Keys : /\ next[k] # NoRecord => next[k].v <= now
                           /\ repo[k] # NoRecord => repo[k].v <= now
    PROVE  LET d == PlanAfresh(next, entries)
           IN  \A k \in Keys :
                   /\ Older(repo[k], AfterWrite(d)[k])
                   /\ Older(AfterWrite(d)[k], d.view[k])
                   /\ AfterWrite(d)[k] # NoRecord => AfterWrite(d)[k].v <= now
                   /\ d.view[k] # NoRecord => d.view[k].v <= now
<1> DEFINE d == PlanAfresh(next, entries)
           R == [k \in Keys |-> SplitRowAfresh(k, next, entries)]
<1>1. d.repo = R /\ d.rewrite = TRUE /\ d.view = next
  BY DEF PlanAfresh
<1>2. AfterWrite(d) = R
  BY <1>1 DEF AfterWrite
<1>3. \A k \in Keys : R[k] = NoRecord \/ R[k] = next[k] \/ R[k] = repo[k]
  BY DEF SplitRowAfresh, IncumbentAfresh
<1> HIDE DEF d, R
<1>4. ASSUME NEW k \in Keys
      PROVE  Older(repo[k], next[k]) /\ Older(repo[k], repo[k]) /\ Older(next[k], next[k])
  <2>1. /\ repo[k] # NoRecord => repo[k].v \in Nat
        /\ next[k] # NoRecord => next[k].v \in Nat
        /\ View[k] # NoRecord => View[k].v \in Nat
        /\ repo[k] # NoRecord => View[k] # NoRecord
    <3>1. View \in Layer
      BY MergeTyped DEF View, TypeOK
    <3>2. repo[k] # NoRecord => View[k] # NoRecord
      BY DEF View, Merge
    <3> QED BY <3>1, <3>2, StoreAssumption DEF TypeOK, Layer, Record
  <2> QED BY <2>1 DEF Older
<1>5. ASSUME NEW k \in Keys
      PROVE  /\ Older(repo[k], R[k]) /\ Older(R[k], next[k])
             /\ R[k] # NoRecord => R[k].v <= now
  <2>1. CASE R[k] = NoRecord
    BY <2>1 DEF Older
  <2>2. CASE R[k] = next[k]
    BY <1>4, <2>2
  <2>3. CASE R[k] = repo[k]
    BY <1>4, <2>3
  <2> QED BY <1>3, <2>1, <2>2, <2>3
<1> QED BY <1>1, <1>2, <1>5 DEF d

\* Every decision of a steady store ages well.
LEMMA DecidingAges ==
    ASSUME TypeOK, Steady, NEW p \in Verbs, Deciding(p), ~Refuse(p),
           \A k \in Keys : /\ Older(repo[k], View[k])
                           /\ Since(repo[k]) /\ Since(overlay[k]),
           Truthful(store[p])
    PROVE  /\ version \in Nat /\ version' \in Nat /\ version <= version'
           /\ \E d, i : Decide(p, d, i) /\ Ages(d)'
<1> DEFINE E == store[p].entries
<1>1. View \in [Keys -> Record \cup {NoRecord}] /\ version \in 0 .. MaxVersion
  BY MergeTyped DEF TypeOK, Layer, View
<1>2. /\ version \in Nat /\ version' \in {version, version + 1}
      /\ "commit" \in VerbKinds \/ "attest" \in VerbKinds \/ version' = version
  BY <1>1, StoreAssumption
  DEF Deciding, DecideCommit, DecideAttest, DecideReconcile, DecidePrune,
      DecideRetarget, Steady
<1>3. version' \in Nat /\ version <= version'
  BY <1>2
<1>4. \A k \in Keys : /\ View[k] # NoRecord => View[k].v \in Nat /\ View[k].v <= version
                      /\ repo[k] # NoRecord => repo[k].v \in Nat /\ repo[k].v <= version
  <2> TAKE k \in Keys
  <2>1. View[k] = repo[k] \/ View[k] = overlay[k]
    BY DEF View, Merge
  <2>2. /\ View[k] # NoRecord => View[k].v \in Nat
        /\ repo[k] # NoRecord => repo[k].v \in Nat
    BY <1>1, StoreAssumption DEF TypeOK, Layer, Record
  <2> QED BY <2>1, <2>2 DEF Since
<1> HIDE DEF E
<1>5. ASSUME NEW next \in [Keys -> Record \cup {NoRecord}],
             DecideUpdate(p, next),
             \A j \in Keys : /\ Older(View[j], next[j])
                             /\ next[j] # NoRecord => next[j].v <= version'
      PROVE  \E d, i : Decide(p, d, i) /\ Ages(d)'
  <2>0. Decide(p, PlanAfresh(next, E), NoInterim)
    BY <1>5, UpdateAfresh DEF E, Layer
  <2>1. \A k \in Keys : repo[k] # NoRecord => repo[k].v <= version'
    BY <1>2, <1>3, <1>4
  <2>2. PICK d : d = PlanAfresh(next, E)
    OBVIOUS
  <2>3. \A k \in Keys :
            /\ Older(repo[k], AfterWrite(d)[k])
            /\ Older(AfterWrite(d)[k], d.view[k])
            /\ AfterWrite(d)[k] # NoRecord => AfterWrite(d)[k].v <= version'
            /\ d.view[k] # NoRecord => d.view[k].v <= version'
    BY <1>3, <1>5, <2>1, <2>2, UpdateAges
  <2>4. repo' = repo
    BY <2>0 DEF Decide, files
  <2>5. Ages(d)'
    BY <2>3, <2>4 DEF Ages, AfterWrite, Older, Since
  <2> QED BY <2>0, <2>2, <2>5
<1>6. CASE DecideCommit(p)
  <2>1. PICK k \in Keys, c \in Classes :
            DecideUpdate(p, [View EXCEPT ![k] = [v |-> version + 1, class |-> c]])
    BY <1>6 DEF DecideCommit, View
  <2>2. version + 1 \in 1 .. MaxVersion /\ version' = version + 1
    BY <1>1, <1>6, StoreAssumption DEF DecideCommit
  <2>3. PICK next : next = [View EXCEPT ![k] = [v |-> version + 1, class |-> c]]
    OBVIOUS
  <2>4. next \in [Keys -> Record \cup {NoRecord}]
    BY <1>1, <2>2, <2>3 DEF Record
  <2>5. /\ next[k] = [v |-> version + 1, class |-> c]
        /\ \A j \in Keys \ {k} : next[j] = View[j]
    BY <1>1, <2>3
  <2>6. next[k].v = version + 1
    BY <2>5
  <2>7. ASSUME NEW j \in Keys
        PROVE  /\ Older(View[j], next[j])
               /\ next[j] # NoRecord => next[j].v <= version'
    <3>1. CASE j = k
      BY <1>2, <1>4, <2>2, <2>6, <3>1 DEF Older
    <3>2. CASE j # k
      BY <1>2, <1>4, <2>2, <2>5, <3>2 DEF Older
    <3> QED BY <3>1, <3>2
  <2>8. DecideUpdate(p, next)
    BY <2>1, <2>3
  <2>9. \E d, i : Decide(p, d, i) /\ Ages(d)'
    BY <1>5, <2>4, <2>7, <2>8
  <2> QED BY <1>2, <1>3, <2>9
<1>7. CASE DecideAttest(p)
  <2>1. PICK k \in Keys :
            /\ View[k] # NoRecord
            /\ DecideUpdate(p, [View EXCEPT ![k].v = version + 1])
    BY <1>7 DEF DecideAttest, View
  <2>2. version + 1 \in 1 .. MaxVersion /\ version' = version + 1
    BY <1>1, <1>7, StoreAssumption DEF DecideAttest
  <2>3. PICK next : next = [View EXCEPT ![k].v = version + 1]
    OBVIOUS
  <2>4. PICK rec : rec = [View[k] EXCEPT !.v = version + 1]
    OBVIOUS
  <2>5. rec \in Record /\ rec.v = version + 1
    BY <1>1, <2>1, <2>2, <2>4 DEF Record
  <2>6. next = [View EXCEPT ![k] = rec]
    BY <2>3, <2>4
  <2>7. next \in [Keys -> Record \cup {NoRecord}]
    BY <1>1, <2>5, <2>6
  <2>8. next[k] = rec /\ \A j \in Keys \ {k} : next[j] = View[j]
    BY <1>1, <2>6
  <2>9. ASSUME NEW j \in Keys
        PROVE  /\ Older(View[j], next[j])
               /\ next[j] # NoRecord => next[j].v <= version'
    <3>1. CASE j = k
      BY <1>2, <1>4, <2>2, <2>5, <2>8, <3>1 DEF Older
    <3>2. CASE j # k
      BY <1>2, <1>4, <2>2, <2>8, <3>2 DEF Older
    <3> QED BY <3>1, <3>2
  <2>10. DecideUpdate(p, next)
    BY <2>1, <2>3
  <2>11. \E d, i : Decide(p, d, i) /\ Ages(d)'
    BY <1>5, <2>7, <2>9, <2>10
  <2> QED BY <1>2, <1>3, <2>11
<1>8. CASE DecideReconcile(p)
  <2>1. PICK discovered \in SUBSET Keys :
            DecideUpdate(p, [k \in Keys |-> IF k \in discovered THEN View[k]
                                            ELSE NoRecord])
    BY <1>8 DEF DecideReconcile, View
  <2>2. PICK next : next = [k \in Keys |-> IF k \in discovered THEN View[k] ELSE NoRecord]
    OBVIOUS
  <2>3. next \in [Keys -> Record \cup {NoRecord}]
    BY <1>1, <2>2
  <2>4. version' = version
    BY <1>8 DEF DecideReconcile
  <2>5. ASSUME NEW j \in Keys
        PROVE  /\ Older(View[j], next[j])
               /\ next[j] # NoRecord => next[j].v <= version'
    BY <1>4, <2>2, <2>4 DEF Older
  <2>6. DecideUpdate(p, next)
    BY <2>1, <2>2
  <2>7. \E d, i : Decide(p, d, i) /\ Ages(d)'
    BY <1>5, <2>3, <2>5, <2>6
  <2> QED BY <1>2, <1>3, <2>7
<1>9. CASE DecidePrune(p)
  <2>1. PICK kept \in SUBSET Keys : Decide(p, PrunePlan(kept, E), NoInterim)
    BY <1>9 DEF DecidePrune, E
  <2>2. PICK d : d = PrunePlan(kept, E)
    OBVIOUS
  <2>3. /\ d.repo = [k \in Keys |-> IF k \in kept THEN repo[k] ELSE NoRecord]
        /\ d.rewrite = (d.repo # repo)
        /\ d.view = [k \in Keys |-> IF k \in kept THEN View[k] ELSE NoRecord]
    BY <2>2 DEF PrunePlan, View
  <2>4. version' = version /\ repo' = repo
    BY <1>9, <2>1 DEF DecidePrune, Decide, files
  <2>5. AfterWrite(d)' = d.repo
    BY <2>3, <2>4 DEF AfterWrite
  <2>6. ASSUME NEW k \in Keys
        PROVE  /\ Older(repo[k], d.repo[k])
               /\ Older(d.repo[k], d.view[k])
               /\ Since(d.repo[k]) /\ Since(d.view[k])
    BY <1>2, <1>4, <2>3 DEF Older, Since
  <2>7. Ages(d)'
    BY <2>4, <2>5, <2>6 DEF Ages, Older, Since
  <2>8. Decide(p, d, NoInterim)
    BY <2>1, <2>2
  <2> QED BY <1>2, <1>3, <2>7, <2>8
<1>10. ~DecideRetarget(p)
  BY DEF DecideRetarget, Steady
<1> QED BY <1>2, <1>3, <1>6, <1>7, <1>8, <1>9, <1>10 DEF Deciding

\* Every step of a steady store keeps its layers in order of age.
LEMMA NextAged ==
    ASSUME TypeOK, OneWriter, TruthfulStores, Writing, Steady, Aged, [Next]_vars
    PROVE  Aged' /\ \A k \in Keys : Older(repo[k], repo'[k])
<1>1. ASSUME UNCHANGED <<repo, overlay, version>>,
             \A q \in Verbs :
                 /\ pc'[q] \in {"decided", "prepared"}
                        => pc[q] \in {"decided", "prepared"} /\ plan'[q] = plan[q]
                 /\ pc'[q] = "written" <=> pc[q] = "written"
                 /\ pc'[q] = "written" => plan'[q] = plan[q]
      PROVE  Aged'
  BY <1>1 DEF Aged, Ages, Older, Since, AfterWrite, View, Merge
<1>2. UNCHANGED repo => \A k \in Keys : Older(repo[k], repo'[k])
  <2>1. \A k \in Keys : repo[k] # NoRecord => repo[k].v \in Nat
    BY StoreAssumption DEF TypeOK, Layer, Record
  <2> QED BY <2>1 DEF Older
<1>3. CASE UNCHANGED vars
  BY <1>1, <1>2, <1>3 DEF vars
<1>4. CASE HandEdit
  BY <1>1, <1>2, <1>4 DEF HandEdit
<1>5. ASSUME NEW p \in Verbs,
             \/ Open(p) \/ Close(p) \/ BeginWrite(p) \/ LockStep(p)
             \/ Refresh(p) \/ Refuse(p) \/ Prepare(p)
      PROVE  Aged' /\ UNCHANGED repo
  <2>1. UNCHANGED <<repo, overlay, version>>
    BY <1>5
    DEF Open, Close, BeginWrite, LockStep, Acquire, Blocked, Refresh, Refuse,
        Prepare, files, bounds
  <2>2. \A q \in Verbs \ {p} : pc'[q] = pc[q] /\ plan'[q] = plan[q]
    BY <1>5
    DEF Open, Close, BeginWrite, LockStep, Acquire, Blocked, Refresh, Refuse,
        Prepare, TypeOK
  <2>3. /\ pc[p] # "written"
        /\ \/ pc'[p] \notin {"decided", "prepared", "written"}
           \/ pc[p] = "decided" /\ pc'[p] = "prepared" /\ plan'[p] = plan[p]
    BY <1>5
    DEF Open, Close, BeginWrite, LockStep, Acquire, Blocked, Refresh, Refuse,
        Prepare, TypeOK
  <2>4. Aged'
    BY <1>1, <2>1, <2>2, <2>3
  <2> QED BY <2>1, <2>4
<1>6. ASSUME NEW p \in Verbs, Deciding(p), ~Refuse(p)
      PROVE  Aged' /\ UNCHANGED repo
  <2>1. pc[p] = "refreshed"
    BY <1>6, DecidingPlace
  <2>2. \A q \in Verbs : q # p => pc[q] \notin Inside
    BY <2>1, Alone DEF Inside
  <2>3. \A k \in Keys : Older(repo[k], View[k]) /\ Since(repo[k]) /\ Since(overlay[k])
    BY <2>1, <2>2 DEF Aged, Inside
  <2>4. /\ version \in Nat /\ version' \in Nat /\ version <= version'
        /\ \E d, i : Decide(p, d, i) /\ Ages(d)'
    BY <1>6, <2>1, <2>3, DecidingAges DEF TruthfulStores
  <2>5. PICK d, i : Decide(p, d, i) /\ Ages(d)'
    BY <2>4
  <2>6. /\ UNCHANGED <<repo, overlay>>
        /\ plan' = [plan EXCEPT ![p] = d] /\ pc' = [pc EXCEPT ![p] = "decided"]
    BY <2>5 DEF Decide, files
  <2>7. /\ plan'[p] = d /\ pc'[p] = "decided"
        /\ \A q \in Verbs : q # p => pc'[q] \notin Inside
    BY <2>2, <2>6 DEF TypeOK
  <2>8. View' = View
    BY <2>6 DEF View, Merge
  <2>9. \A k \in Keys : Since(repo[k])' /\ Since(overlay[k])'
    <3>1. \A k \in Keys : /\ repo[k] # NoRecord => repo[k].v \in Nat
                          /\ overlay[k] # NoRecord => overlay[k].v \in Nat
      BY StoreAssumption DEF TypeOK, Layer, Record
    <3> QED BY <2>3, <2>4, <2>6, <3>1 DEF Since
  <2>10. \A k \in Keys : Older(repo[k], View[k])'
    BY <2>3, <2>6, <2>8 DEF Older
  <2>11. Aged'
    BY <2>5, <2>7, <2>9, <2>10 DEF Aged, Inside
  <2> QED BY <2>6, <2>11
<1>7. ASSUME NEW p \in Verbs, WriteDocument(p)
      PROVE  Aged' /\ \A k \in Keys : Older(repo[k], repo'[k])
  <2>1. /\ pc[p] = "prepared" /\ pc' = [pc EXCEPT ![p] = "written"]
        /\ UNCHANGED <<overlay, plan, version>>
    BY <1>7 DEF WriteDocument, bounds
  <2>2. PICK d : d = plan[p]
    OBVIOUS
  <2>3. repo' = AfterWrite(d)
    BY <1>7, <2>2 DEF WriteDocument, AfterWrite
  <2>4. Ages(d)
    BY <2>1, <2>2 DEF Aged
  <2>5. /\ plan'[p] = d /\ pc'[p] = "written"
        /\ \A q \in Verbs : q # p => pc'[q] \notin Inside
    BY <2>1, <2>2, Alone DEF TypeOK, Inside
  <2>6. Aged'
    BY <2>1, <2>3, <2>4, <2>5 DEF Aged, Ages, Older, Since, Inside
  <2> QED BY <2>3, <2>4, <2>6 DEF Ages
<1>8. ASSUME NEW p \in Verbs, NEW k \in Keys, RemoveEntry(p, k) \/ InstallEntry(p, k)
      PROVE  Aged' /\ UNCHANGED repo
  <2>1. pc[p] = "written" /\ UNCHANGED <<pc, repo, version>>
    BY <1>8 DEF RemoveEntry, InstallEntry, bounds
  <2>2. PICK d, e : d = plan[p] /\ e = plan'[p]
    OBVIOUS
  <2>3. d \in Plan /\ Lands(d, repo)
    BY <2>1, <2>2 DEF Writing, Carrying, TypeOK
  <2>4. Edited(d, e, k)
    BY <1>8, <2>2, <2>3, EntryEdits
  <2>5. overlay'[k] = NoRecord \/ overlay'[k] = View'[k]
    BY DEF View, Merge
  <2>6. \A j \in Keys : Since(overlay[j])'
    BY <2>1, <2>2, <2>4, <2>5 DEF Aged, Since, Edited
  <2>7. \A q \in Verbs : q # p => pc[q] \notin Inside
    BY <2>1, Alone DEF Inside
  <2> QED BY <2>1, <2>2, <2>4, <2>6, <2>7 DEF Aged, Older, Since, Edited, Inside
<1>9. ASSUME NEW p \in Verbs, Return(p)
      PROVE  Aged' /\ UNCHANGED repo
  <2>1. /\ pc[p] = "written"
        /\ \/ pc' = [pc EXCEPT ![p] = "open"]
           \/ pc' = [pc EXCEPT ![p] = "closed"]
        /\ UNCHANGED <<repo, overlay, version>>
    BY <1>9 DEF Return, files, bounds
  <2>2. Lands(plan[p], repo) /\ plan[p].removals = {} /\ plan[p].installs = NoLayer
    BY <1>9, <2>1 DEF Writing, Carrying, Return
  <2>3. \A k \in Keys : View[k] = plan[p].view[k]
    BY <2>2 DEF Lands, NoLayer, View
  <2>4. \A k \in Keys : Older(repo[k], View[k])
    BY <2>1, <2>3 DEF Aged
  <2>5. View' = View
    BY <2>1 DEF View, Merge
  <2>6. pc'[p] \in {"open", "closed"} /\ \A q \in Verbs : q # p => pc'[q] \notin Inside
    BY <2>1, Alone DEF TypeOK, Inside
  <2> QED BY <2>1, <2>4, <2>5, <2>6 DEF Aged, Older, Since, Inside
<1>10. ASSUME NEW p \in Verbs
       PROVE  ~Die(p)
  BY DEF Die, Steady
<1> QED
  BY <1>2, <1>3, <1>4, <1>5, <1>6, <1>7, <1>8, <1>9, <1>10
  DEF Next, Carry, Deciding

\* Portable truth is never evicted by what was measured before it, whatever a
\* reviewer accepts, revokes or tears: as long as no verb dies in a write and
\* no record is moved, a row of the document gives way to no older one.
THEOREM DocumentAges ==
    ASSUME Steady
    PROVE  Spec => DocumentNeverRegresses
<1>1. Init => Writing /\ Aged
  <2> SUFFICES ASSUME Init
               PROVE  Writing /\ Aged
    OBVIOUS
  <2>1. \A k \in Keys : repo[k] = NoRecord /\ overlay[k] = NoRecord
    BY DEF Init, NoLayer
  <2>2. Writing
    BY InitWriting
  <2>3. Aged
    BY <2>1 DEF Init, Aged, Older, Since
  <2> QED BY <2>2, <2>3
<1>2. IInv /\ Writing /\ Aged /\ [Next]_vars => Writing' /\ Aged'
  BY NextWriting, NextAged DEF IInv
<1>3. IInv /\ Writing /\ Aged /\ [Next]_vars
          => [\A k \in Keys : repo[k] # NoRecord /\ repo'[k] # NoRecord
                  => repo'[k].v >= repo[k].v]_vars
  <2> SUFFICES ASSUME IInv, IInv', Writing, Aged, [Next]_vars, NEW k \in Keys,
                      repo[k] # NoRecord, repo'[k] # NoRecord
               PROVE  repo'[k].v >= repo[k].v
    BY NextTyped, NextOneWriter, NextSound, NextTruthful DEF IInv
  <2>1. Older(repo[k], repo'[k])
    BY NextAged DEF IInv
  <2>2. repo[k].v \in Nat /\ repo'[k].v \in Nat
    BY StoreAssumption DEF IInv, TypeOK, Layer, Record
  <2> QED BY <2>1, <2>2 DEF Older
<1> QED BY <1>1, <1>2, <1>3, Invariant, PTL DEF Spec, DocumentNeverRegresses
==============================================================================
