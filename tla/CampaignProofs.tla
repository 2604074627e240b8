---------------------------- MODULE CampaignProofs ----------------------------
(***************************************************************************)
(* Proofs about the campaign pipeline: for any number of targets, sizes,   *)
(* costs and proof units, a standing target finds its unit's proofs, one   *)
(* executed window at most is unfolded, no target is lost between the walk *)
(* and the result, and the windows are those of the reference partition.   *)
(***************************************************************************)
EXTENDS Campaign, FiniteSetTheorems, WellFoundedInduction, TLAPS

\* Between the walk and a disposition.
Flowing == InPool \cup Held

\* The targets a unit still waits for.
Waiting(u) == {t \in Targets : Unit[t] = u /\ place[t] \notin Terminal}

\* The units count their targets, and the walk's target is not yet disposed
\* of when its proof is built.
Counted ==
    /\ \A t \in done : place[t] \in Terminal
    /\ \A u \in Units : remaining[u] = Cardinality(Waiting(u))
    /\ prep = "proved" => /\ next \in Targets
                          /\ place[next] = "ahead"
                          /\ Unit[next] \in proofs
    /\ \A t \in Targets : place[t] \in Flowing => Unit[t] \in proofs

Typed == TypeOK /\ Counted

\* What the gatherer closed stays empty, and the driver knows it.
Drained ==
    /\ gatherer = "ended" =>
           prep \in {"closed", "done"} /\ At("items") = {} /\ At("gathering") = {}
    /\ ~open => Closed
    /\ driver = "drain" => whole
    /\ driver = "sweep" => ~whole
    /\ driver = "check" /\ whole => Closed

\* Past the loop no window is left to execute.
Past == driver \in {"epilogue", "finish"} \/ (driver = "fold" /\ then = "finish")

Emptied ==
    /\ Past => Closed /\ At("pool") = {}
    /\ At("hand") # {} =>
           \/ driver \in {"execute", "running", "join", "returned"}
           \/ driver = "fold" /\ then = "execute"
    /\ driver \in {"execute", "running", "finish"} => In(Held) = {}

\* The walk passed every target behind it, all of them when it succeeds.
Walked ==
    /\ \A t \in At("ahead") : t >= next
    /\ prep \in {"closed", "done"} /\ prepErr = "none" => next = N + 1
    /\ then = "finish" => prep = "done" /\ prepErr = "none"
    /\ driver = "finish" => then = "finish"
    /\ driver = "returned" => prep = "done"

\* Only an interrupted run cuts or discards.
Uncut ==
    In({"cut", "void", "capped", "discarded"}) # {} =>
        then = "interrupted" /\ driver \in {"fold", "join", "returned"}

Flow == Drained /\ Emptied /\ Walked /\ Uncut /\ MeasuredIsFolded /\ NeverTruncated

------------------------------------------------------------------------------

LEMMA PlaceKinds ==
    /\ InPool \subseteq Places /\ Held \subseteq Places /\ Terminal \subseteq Places
    /\ \A p \in Flowing : p \notin Terminal /\ p # "ahead"
    /\ "ahead" \notin Terminal /\ "ahead" \in Places
    /\ Settled \subseteq Terminal /\ Measured \subseteq Terminal
BY DEF Flowing, InPool, Held, Terminal, Settled, Measured, Places

\* A set of targets is finite, and there are at most N of them.
LEMMA TargetSets ==
    ASSUME NEW S \in SUBSET Targets
    PROVE  IsFiniteSet(S) /\ Cardinality(S) \in 0 .. N
<1>1. IsFiniteSet(Targets) /\ Cardinality(Targets) = N
  <2>1. N \in Nat /\ 1 \in Int /\ N \in Int
    BY CampaignAssumption
  <2>2. Cardinality(1 .. N) = IF 1 > N THEN 0 ELSE N - 1 + 1
    BY <2>1, FS_Interval
  <2> QED BY <2>1, <2>2, FS_Interval DEF Targets
<1>2. IsFiniteSet(S) /\ Cardinality(S) <= N
  BY <1>1, FS_Subset
<1> QED BY <1>2, FS_CardinalityType, CampaignAssumption

\* Moves within the pipeline dispose of nobody.
Shift ==
    /\ place' \in [Targets -> Places]
    /\ \A t \in Targets : \/ place'[t] = place[t]
                          \/ place[t] \in Flowing /\ place'[t] \in Flowing

LEMMA ShiftCounts ==
    ASSUME Typed, Shift, UNCHANGED unit, UNCHANGED proofs,
           prep' = "proved" => prep = "proved" /\ next' = next
    PROVE  Counted'
<1> USE DEF Typed, unit
<1>1. \A t \in Targets : place'[t] \in Terminal <=> place[t] \in Terminal
  BY PlaceKinds DEF Shift
<1>2. \A u \in Units : Waiting(u)' = Waiting(u)
  BY <1>1 DEF Waiting
<1>3. \A t \in done : place'[t] \in Terminal
  BY <1>1 DEF Counted, TypeOK
<1>4. \A u \in Units : remaining'[u] = Cardinality(Waiting(u)')
  BY <1>2 DEF Counted
<1>5. prep' = "proved" => next' \in Targets /\ place'[next'] = "ahead" /\ Unit[next'] \in proofs'
  BY PlaceKinds DEF Counted, Shift
<1>6. \A t \in Targets : place'[t] \in Flowing => Unit[t] \in proofs'
  BY DEF Counted, Shift
<1> QED BY <1>3, <1>4, <1>5, <1>6 DEF Counted, Waiting

\* One target is disposed of, and its unit waits for one target less.
LEMMA DoneCounts ==
    ASSUME Typed, NEW t \in Targets, NEW fate \in Terminal, NEW calls,
           place[t] \notin Terminal, Move({t}, fate), TargetDone(t, calls),
           UNCHANGED proofs,
           prep' = "proved" => prep = "proved" /\ next' = next /\ next # t
    PROVE  /\ Counted'
           /\ place' \in [Targets -> Places]
           /\ remaining' \in [Units -> 0 .. N]
           /\ done' \subseteq Targets
<1> USE DEF Typed
<1>1. place' = [s \in Targets |-> IF s = t THEN fate ELSE place[s]]
  BY DEF Move
<1>2. place' \in [Targets -> Places]
  BY <1>1, PlaceKinds DEF TypeOK
<1>3. t \notin done /\ Unit[t] \in Units
  BY CampaignAssumption DEF Counted
<1>4. remaining' = [remaining EXCEPT ![Unit[t]] = @ - 1] /\ done' = done \cup {t}
  BY <1>3 DEF TargetDone
<1>5. ASSUME NEW u \in Units
      PROVE  remaining'[u] = Cardinality(Waiting(u)')
  <2>1. Waiting(u) \in SUBSET Targets
    BY DEF Waiting
  <2>2. CASE u = Unit[t]
    <3>1. Waiting(u)' = Waiting(u) \ {t} /\ t \in Waiting(u)
      BY <1>1, <2>2 DEF Waiting
    <3>2. Cardinality(Waiting(u) \ {t}) = Cardinality(Waiting(u)) - 1
      BY <2>1, <3>1, TargetSets, FS_RemoveElement
    <3>3. remaining'[u] = remaining[u] - 1
      BY <1>4, <2>2 DEF TypeOK
    <3> QED BY <3>1, <3>2, <3>3 DEF Counted
  <2>3. CASE u # Unit[t]
    <3>1. Waiting(u)' = Waiting(u)
      BY <1>1, <2>3 DEF Waiting
    <3> QED BY <1>4, <2>3, <3>1 DEF Counted, TypeOK
  <2> QED BY <2>2, <2>3
<1>6. \A s \in done' : place'[s] \in Terminal
  BY <1>1, <1>4 DEF Counted, TypeOK
<1>7. prep' = "proved" => next' \in Targets /\ place'[next'] = "ahead" /\ Unit[next'] \in proofs'
  BY <1>1 DEF Counted
<1>8. \A s \in Targets : place'[s] \in Flowing => Unit[s] \in proofs'
  BY <1>1, PlaceKinds DEF Counted
<1>9. remaining' \in [Units -> 0 .. N]
  <2>1. \A u \in Units : Waiting(u)' \in SUBSET Targets
    BY DEF Waiting
  <2>2. \A u \in Units : remaining'[u] \in 0 .. N
    BY <1>5, <2>1, TargetSets
  <2>3. DOMAIN remaining' = Units /\ remaining' = [u \in Units |-> remaining'[u]]
    BY <1>4 DEF TypeOK
  <2> QED BY <2>2, <2>3
<1>10. Counted'
  BY <1>5, <1>6, <1>7, <1>8 DEF Counted, Waiting
<1> QED BY <1>2, <1>4, <1>9, <1>10 DEF TypeOK

------------------------------------------------------------------------------
(* The types and the count of the units.                                   *)

LEMMA InitTyped == Init => Typed
<1> SUFFICES ASSUME Init PROVE Typed
  OBVIOUS
<1> USE DEF Init
<1>1. PICK skipped \in SUBSET Targets :
          place = [t \in Targets |-> IF t \in skipped THEN "skipped" ELSE "ahead"]
  OBVIOUS
<1>2. "skipped" \in Terminal /\ "skipped" \in Places /\ "skipped" \notin Flowing
  BY DEF Terminal, Settled, Measured, Places, Flowing, InPool, Held
<1>3. place \in [Targets -> Places]
  BY <1>1, <1>2, PlaceKinds
<1>4. \A u \in Units : remaining[u] = Cardinality(Waiting(u))
  <2> TAKE u \in Units
  <2>1. Waiting(u) = {t \in Targets : place[t] = "ahead" /\ Unit[t] = u}
    BY <1>1, <1>2, PlaceKinds DEF Waiting
  <2> QED BY <2>1
<1>5. remaining \in [Units -> 0 .. N]
  <2>1. \A u \in Units : {t \in Targets : place[t] = "ahead" /\ Unit[t] = u} \in SUBSET Targets
    OBVIOUS
  <2>2. \A u \in Units :
            Cardinality({t \in Targets : place[t] = "ahead" /\ Unit[t] = u}) \in 0 .. N
    BY <2>1, TargetSets
  <2> QED BY <2>2
<1>6. TypeOK
  <2>1. next \in 1 .. N + 1 /\ win \in [Targets -> Nat]
    BY CampaignAssumption
  <2>2. prep \in PrepPlaces /\ driver \in DriverPlaces /\ verdict \in Verdicts
    BY DEF PrepPlaces, DriverPlaces, Verdicts
  <2> QED BY <1>3, <1>5, <2>1, <2>2 DEF TypeOK
<1>7. \A t \in Targets : place[t] \notin Flowing
  BY <1>1, <1>2, PlaceKinds
<1> QED BY <1>4, <1>6, <1>7 DEF Typed, Counted

\* The walk's target is disposed of.
LEMMA SettleTyped ==
    ASSUME Typed, NEW fate \in Settled, NEW calls, Settle(fate, calls)
    PROVE  Typed'
<1> USE DEF Settle, gathering, driving, outside
<1>1. next \in Targets /\ place[next] \notin Terminal /\ fate \in Terminal
  BY PlaceKinds DEF Walking
<1>2. /\ Counted'
      /\ place' \in [Targets -> Places]
      /\ remaining' \in [Units -> 0 .. N]
      /\ done' \subseteq Targets
  BY <1>1, DoneCounts
<1>3. next' \in 1 .. N + 1
  BY <1>1, CampaignAssumption DEF Targets
<1>4. TypeOK'
  BY <1>2, <1>3 DEF Typed, TypeOK, PrepPlaces
<1> QED BY <1>2, <1>4 DEF Typed

LEMMA PrepareTyped == Typed /\ Prepare => Typed'
<1> SUFFICES ASSUME Typed, Prepare PROVE Typed'
  OBVIOUS
<1> USE DEF gathering, driving, outside
<1>1. CASE PassSettled
  <2>1. Shift /\ next' \in 1 .. N + 1
    BY <1>1, CampaignAssumption DEF PassSettled, Shift, Typed, TypeOK, Targets
  <2>2. Counted'
    BY <1>1, <2>1, ShiftCounts DEF PassSettled
  <2> QED BY <1>1, <2>1, <2>2 DEF PassSettled, Typed, TypeOK, unit
<1>2. CASE PrepareSkips
  BY <1>2, SettleTyped DEF PrepareSkips, Settled
<1>3. CASE PrepareRefuses
  BY <1>3, SettleTyped DEF PrepareRefuses, Settled
<1>4. CASE PrepareServes
  BY <1>4, SettleTyped DEF PrepareServes, Settled
<1>5. CASE PrepareProves
  <2>1. next \in Targets /\ place[next] = "ahead" /\ Unit[next] \in Units
    BY <1>5, CampaignAssumption DEF PrepareProves, Walking
  <2>2. proofs' = proofs \cup {Unit[next]} /\ next' = next /\ place' = place /\ unit' = unit
    BY <1>5 DEF PrepareProves
  <2>3. \A u \in Units : Waiting(u)' = Waiting(u)
    BY <2>2 DEF Waiting
  <2>4. Counted'
    BY <2>1, <2>2, <2>3 DEF Typed, Counted, unit
  <2>5. TypeOK'
    BY <1>5, <2>1, <2>2 DEF PrepareProves, Typed, TypeOK, unit, PrepPlaces
  <2> QED BY <2>4, <2>5 DEF Typed
<1>6. CASE PrepareEmits
  <2>1. /\ next \in Targets /\ place[next] = "ahead" /\ Unit[next] \in proofs
        /\ next' = next + 1 /\ next' \in 1 .. N + 1
        /\ proofs' = proofs /\ unit' = unit /\ prep' = "deciding"
    BY <1>6, CampaignAssumption DEF PrepareEmits, Walking, Typed, Counted, Targets
  <2>2. place' = [t \in Targets |-> IF t = next THEN "items" ELSE place[t]]
    BY <1>6 DEF PrepareEmits, Move
  <2>3. "items" \in Flowing /\ "items" \notin Terminal /\ "items" \in Places
    BY DEF Flowing, InPool, Held, Terminal, Settled, Measured, Places
  <2>4. place' \in [Targets -> Places]
    BY <2>2, <2>3 DEF Typed, TypeOK
  <2>5. \A u \in Units : Waiting(u)' = Waiting(u)
    BY <2>1, <2>2, <2>3, PlaceKinds DEF Waiting
  <2>6. \A t \in done : t # next /\ t \in Targets
    BY <2>1, PlaceKinds DEF Typed, Counted, TypeOK
  <2>7. Counted'
    BY <2>1, <2>2, <2>5, <2>6 DEF Typed, Counted, unit
  <2>8. TypeOK'
    BY <1>6, <2>1, <2>4 DEF PrepareEmits, Typed, TypeOK, unit, PrepPlaces
  <2> QED BY <2>7, <2>8 DEF Typed
<1>7. ASSUME NEW err \in {"none", "failed", "evidence", "cancelled"}, PrepReturns(err)
      PROVE  Typed'
  <2>1. Shift
    BY <1>7 DEF PrepReturns, Shift, Typed, TypeOK
  <2>2. Counted'
    BY <1>7, <2>1, ShiftCounts DEF PrepReturns
  <2> QED BY <1>7, <2>2 DEF PrepReturns, Typed, TypeOK, unit, PrepPlaces
<1>8. CASE WalkEnds \/ PrepareFails \/ ExtensionCheckFails \/ PrepareCancelled
  BY <1>7, <1>8 DEF WalkEnds, PrepareFails, ExtensionCheckFails, PrepareCancelled
<1>9. CASE PrepDone
  <2>1. Shift
    BY <1>9 DEF PrepDone, Shift, Typed, TypeOK
  <2>2. Counted'
    BY <1>9, <2>1, ShiftCounts DEF PrepDone
  <2> QED BY <1>9, <2>2 DEF PrepDone, Typed, TypeOK, unit, PrepPlaces
<1> QED BY <1>1, <1>2, <1>3, <1>4, <1>5, <1>6, <1>8, <1>9 DEF Prepare

LEMMA Kinds ==
    /\ {"items", "gathering", "sent", "pool", "hand"} \subseteq Flowing
    /\ {"measured", "cut", "void"} \subseteq Flowing
    /\ {"committed", "capped", "discarded", "drifted"} \subseteq Terminal
    /\ Flowing \subseteq Places
BY DEF Flowing, InPool, Held, Terminal, Measured, Places

LEMMA MoveShifts ==
    ASSUME Typed, NEW ts, NEW p \in Flowing, Move(ts, p),
           \A t \in ts : t \in Targets => place[t] \in Flowing
    PROVE  Shift
BY Kinds DEF Typed, TypeOK, Move, Shift

LEMMA StayShifts == Typed /\ UNCHANGED place => Shift
BY DEF Typed, TypeOK, Shift

LEMMA GatherTyped == Typed /\ Gather => Typed'
<1> SUFFICES ASSUME Typed, Gather PROVE Typed'
  OBVIOUS
<1> USE DEF preparing, driving, outside, gathering
<1>1. ASSUME NEW t \in Targets, GatherTake(t) PROVE Typed'
  <2>1. place[t] = "items"
    BY <1>1 DEF GatherTake, First, At
  <2>2. Shift
    BY <1>1, <2>1, MoveShifts, Kinds DEF GatherTake
  <2>3. Counted'
    BY <1>1, <2>2, ShiftCounts DEF GatherTake
  <2>4. win' \in [Targets -> Nat]
    BY <1>1 DEF GatherTake, Typed, TypeOK
  <2> QED BY <1>1, <2>2, <2>3, <2>4 DEF GatherTake, Typed, TypeOK, unit, Shift
<1>2. CASE GatherSend
  <2>1. Shift
    BY <1>2, MoveShifts, Kinds DEF GatherSend, At
  <2>2. Counted'
    BY <1>2, <2>1, ShiftCounts DEF GatherSend
  <2> QED BY <1>2, <2>1, <2>2 DEF GatherSend, Typed, TypeOK, unit, Shift
<1>3. CASE GatherEnds
  <2>1. Shift
    BY <1>3, StayShifts DEF GatherEnds
  <2>2. Counted'
    BY <1>3, <2>1, ShiftCounts DEF GatherEnds
  <2> QED BY <1>3, <2>1, <2>2 DEF GatherEnds, Typed, TypeOK, unit, Shift
<1> QED BY <1>1, <1>2, <1>3 DEF Gather

\* What a step of the driver sets beside the places and the units.
Driven ==
    /\ UNCHANGED <<win, preparing, gathering, outside>>
    /\ driver' \in DriverPlaces
    /\ then' \in {"execute", "finish", "prepFailed", "interrupted"}
    /\ open' \in BOOLEAN /\ whole' \in BOOLEAN
    /\ verdict' \in Verdicts

LEMMA DrivenTyped ==
    ASSUME Typed, Driven, Shift, UNCHANGED unit
    PROVE  Typed'
<1>1. Counted'
  BY ShiftCounts DEF Driven, preparing
<1> QED BY <1>1 DEF Driven, Typed, TypeOK, Shift, unit, preparing, gathering, outside

LEMMA FoldTyped ==
    ASSUME Typed, NEW t \in Targets, NEW fate \in Terminal,
           place[t] \in Flowing, Fold(t, fate)
    PROVE  Typed'
<1> USE DEF Fold, preparing, gathering, driving, outside
<1>1. place[t] \notin Terminal
  BY PlaceKinds
<1>2. prep' = "proved" => next # t
  BY PlaceKinds DEF Typed, Counted
<1>3. /\ Counted'
      /\ place' \in [Targets -> Places]
      /\ remaining' \in [Units -> 0 .. N]
      /\ done' \subseteq Targets
  BY <1>1, <1>2, DoneCounts
<1>4. TypeOK'
  BY <1>3 DEF Typed, TypeOK
<1> QED BY <1>3, <1>4 DEF Typed

LEMMA ReceiveShifts == Typed /\ Receive => Shift
<1> SUFFICES ASSUME Typed, NEW w \in Wins("sent"), Move(Window("sent", w), "pool")
             PROVE  Shift
  BY DEF Receive
<1> QED BY MoveShifts, Kinds DEF Window, At

LEMMA LeaveDriven ==
    ASSUME Typed, NEW v \in Verdicts, Leave(v)
    PROVE  Driven
BY DEF Leave, Driven, Typed, TypeOK, DriverPlaces

LEMMA DriveTyped == Typed /\ Drive => Typed'
<1> SUFFICES ASSUME Typed, Drive PROVE Typed'
  OBVIOUS
<1> USE DEF Drives
<1>t. /\ then \in {"execute", "finish", "prepFailed", "interrupted"}
      /\ open \in BOOLEAN /\ whole \in BOOLEAN
      /\ verdict \in Verdicts /\ driver \in DriverPlaces
  BY DEF Typed, TypeOK
<1>1. CASE TopReceive
  <2>1. Driven
    BY <1>1, <1>t DEF TopReceive, Driven, DriverPlaces
  <2> QED BY <1>1, <2>1, ReceiveShifts, DrivenTyped DEF TopReceive
<1>2. CASE TopPasses
  <2>1. Driven
    BY <1>2, <1>t DEF TopPasses, Driven, DriverPlaces
  <2> QED BY <1>2, <2>1, StayShifts, DrivenTyped DEF TopPasses
<1>3. CASE Look
  <2>1. Driven
    BY <1>3, <1>t DEF Look, LookTo, Driven, DriverPlaces
  <2> QED BY <1>3, <2>1, StayShifts, DrivenTyped DEF Look
<1>4. CASE LookReceives
  <2>1. Driven
    BY <1>4, <1>t DEF LookReceives, Driven
  <2> QED BY <1>4, <2>1, ReceiveShifts, DrivenTyped DEF LookReceives
<1>5. CASE LookEnds
  <2>1. Driven
    BY <1>5, <1>t DEF LookEnds, Driven, DriverPlaces
  <2> QED BY <1>5, <2>1, StayShifts, DrivenTyped DEF LookEnds
<1>6. CASE CheckFails
  <2>1. Driven
    BY <1>6, <1>t DEF CheckFails, Driven, DriverPlaces
  <2> QED BY <1>6, <2>1, StayShifts, DrivenTyped DEF CheckFails
<1>7. ASSUME NEW v \in Wins("pool"), CheckPicks(v) PROVE Typed'
  <2>1. Driven
    BY <1>7, <1>t DEF CheckPicks, Driven, DriverPlaces
  <2>2. Shift
    BY <1>7, MoveShifts, Kinds DEF CheckPicks, Window, At
  <2> QED BY <1>7, <2>1, <2>2, DrivenTyped DEF CheckPicks
<1>8. ASSUME NEW t \in Targets,
             FoldCommits(t) \/ FoldDiscards(t) \/ FoldRefuses(t) \/ FoldFails(t)
      PROVE  Typed'
  <2>1. ASSUME Folding(t) PROVE place[t] \in Flowing
    BY <2>1 DEF Folding, First, In, Flowing
  <2>2. CASE FoldFails(t)
    <3>1. Driven
      BY <2>2, LeaveDriven DEF FoldFails, Verdicts
    <3> QED BY <2>2, <3>1, StayShifts, DrivenTyped DEF FoldFails
  <2>3. CASE FoldCommits(t)
    BY <2>1, <2>3, Kinds, FoldTyped DEF FoldCommits
  <2>4. CASE FoldDiscards(t)
    BY <2>1, <2>4, Kinds, FoldTyped DEF FoldDiscards
  <2>5. CASE FoldRefuses(t)
    BY <2>1, <2>5, Kinds, FoldTyped DEF FoldRefuses
  <2> QED BY <1>8, <2>2, <2>3, <2>4, <2>5
<1>9. CASE FoldEnds
  <2>1. Driven
    <3>1. CASE then \in {"execute", "finish"} /\ Drives("fold", then)
               /\ UNCHANGED <<then, open, whole, verdict>>
      BY <3>1, <1>t DEF Driven, DriverPlaces
    <3>2. CASE then \in {"prepFailed", "interrupted"} /\ Leave(then)
      BY <3>2, LeaveDriven DEF Verdicts
    <3> QED BY <1>9, <3>1, <3>2 DEF FoldEnds
  <2> QED BY <1>9, <2>1, StayShifts, DrivenTyped DEF FoldEnds
<1>10. CASE Execute
  <2>1. CASE ExecuteStarts
    <3>1. Driven
      BY <2>1, <1>t DEF ExecuteStarts, Driven, DriverPlaces
    <3>2. Shift
      <4>1. \A t \in Targets : \/ place'[t] = place[t]
                               \/ place[t] = "hand" /\ place'[t] \in {"measured", "void"}
        BY <2>1 DEF ExecuteStarts, Typed, TypeOK
      <4>2. place' = [t \in Targets |-> place'[t]]
        BY <2>1 DEF ExecuteStarts, Typed, TypeOK
      <4> QED BY <4>1, <4>2, Kinds DEF Shift, Typed, TypeOK
    <3> QED BY <2>1, <3>1, <3>2, DrivenTyped DEF ExecuteStarts
  <2>2. CASE ExecuteAll
    <3>1. Driven
      BY <2>2, <1>t DEF ExecuteAll, Driven, DriverPlaces
    <3>2. Shift
      BY <2>2, MoveShifts, Kinds DEF ExecuteAll, At
    <3> QED BY <2>2, <3>1, <3>2, DrivenTyped DEF ExecuteAll
  <2>3. CASE ExecuteFails
    <3>1. Driven
      BY <2>3, LeaveDriven DEF ExecuteFails, Verdicts
    <3> QED BY <2>3, <3>1, StayShifts, DrivenTyped DEF ExecuteFails
  <2>4. ASSUME NEW b \in Targets, NEW kept \in {"cut", "void"}, ExecuteDrains(b, kept)
        PROVE  Typed'
    <3>1. Driven
      BY <2>4, <1>t DEF ExecuteDrains, Driven, DriverPlaces
    <3>2. Shift
      <4>1. place' \in [Targets -> Places]
        BY <2>4, Kinds DEF ExecuteDrains, Typed, TypeOK
      <4> QED BY <2>4, <4>1, Kinds DEF ExecuteDrains, Shift
    <3> QED BY <2>4, <3>1, <3>2, DrivenTyped DEF ExecuteDrains
  <2> QED BY <1>10, <2>1, <2>2, <2>3, <2>4 DEF Execute
<1>11. CASE Epilogue
  <2>1. Driven
    <3>1. CASE driver = "epilogue" /\ Leave("cancelled")
      BY <3>1, LeaveDriven DEF Verdicts
    <3>2. CASE Drives("epilogue", "fold")
               /\ then' = (IF prepErr = "none" THEN "finish" ELSE "prepFailed")
               /\ UNCHANGED <<open, whole, verdict>>
      BY <3>2, <1>t DEF Driven, DriverPlaces
    <3> QED BY <1>11, <3>1, <3>2 DEF Epilogue
  <2> QED BY <1>11, <2>1, StayShifts, DrivenTyped DEF Epilogue
<1>12. CASE Finish
  <2>1. Results \subseteq Verdicts
    BY DEF Results, Verdicts
  <2>2. Driven
    BY <1>12, <2>1, LeaveDriven DEF Finish
  <2> QED BY <1>12, <2>2, StayShifts, DrivenTyped DEF Finish
<1>13. CASE Returns
  <2>1. Driven
    BY <1>13, <1>t DEF Returns, Driven, DriverPlaces
  <2> QED BY <1>13, <2>1, StayShifts, DrivenTyped DEF Returns
<1> QED
  BY <1>1, <1>2, <1>3, <1>4, <1>5, <1>6, <1>7, <1>8, <1>9, <1>10, <1>11, <1>12, <1>13
     DEF Drive

LEMMA NextTyped == Typed /\ [Next]_vars => Typed'
<1> SUFFICES ASSUME Typed, [Next]_vars PROVE Typed'
  OBVIOUS
<1>1. CASE SoftStop \/ Cancel \/ UNCHANGED vars
  <2>1. Shift /\ UNCHANGED <<unit, preparing>>
    BY <1>1, StayShifts DEF SoftStop, Cancel, vars
  <2>2. Counted'
    BY <2>1, ShiftCounts DEF preparing
  <2>3. TypeOK'
    <3>1. CASE SoftStop
      BY <3>1 DEF SoftStop, Typed, TypeOK, preparing, unit, gathering, driving, outside
    <3>2. CASE Cancel
      BY <3>2 DEF Cancel, Typed, TypeOK, preparing, unit, gathering, driving, outside
    <3>3. CASE UNCHANGED vars
      BY <3>3 DEF vars, Typed, TypeOK, preparing, unit, gathering, driving, outside
    <3> QED BY <1>1, <3>1, <3>2, <3>3
  <2> QED BY <2>2, <2>3 DEF Typed
<1> QED BY <1>1, PrepareTyped, GatherTyped, DriveTyped DEF Next

LEMMA AlwaysTyped == Spec => []Typed
BY InitTyped, NextTyped, PTL DEF Spec

\* The types, for any targets, sizes, costs and units: in particular no unit
\* ever counts below zero, however the walk, a refusal and a fold report
\* their targets to targetDone (run.go's init of the units).
THEOREM TypeCorrect == Spec => []TypeOK
<1>1. Typed => TypeOK
  BY DEF Typed
<1> QED BY <1>1, AlwaysTyped, PTL

\* Whoever stands between a proof and a disposition finds the proofs of its
\* unit: buildProofUnit's products outlive every reader.  A unit whose targets
\* are all disposed of releases them: every exit of a target reaches targetDone.
THEOREM ProofsAreCounted == Spec => []ProofsCounted
<1>1. ASSUME Typed, NEW t \in Targets, place[t] \notin Terminal, Unit[t] \in proofs
      PROVE  remaining[Unit[t]] > 0
  <2>1. Unit[t] \in Units /\ t \in Waiting(Unit[t]) /\ Waiting(Unit[t]) \in SUBSET Targets
    BY <1>1, CampaignAssumption DEF Waiting
  <2>2. IsFiniteSet(Waiting(Unit[t])) /\ Cardinality(Waiting(Unit[t])) # 0
    BY <2>1, TargetSets, FS_EmptySet
  <2>3. remaining[Unit[t]] = Cardinality(Waiting(Unit[t])) /\ remaining[Unit[t]] \in 0 .. N
    BY <1>1, <2>1 DEF Typed, Counted, TypeOK
  <2> QED BY <2>2, <2>3, CampaignAssumption
<1>2. ASSUME Typed, NEW t \in Standing
      PROVE  Unit[t] \in proofs /\ remaining[Unit[t]] > 0
  <2>1. t \in Targets /\ place[t] \notin Terminal /\ Unit[t] \in proofs
    BY <1>2, PlaceKinds DEF Standing, In, Flowing, Typed, Counted
  <2> QED BY <1>1, <1>2, <2>1
<1>3. ASSUME Typed, NEW u \in Units,
             \A t \in Targets : Unit[t] = u => place[t] \in Terminal
      PROVE  remaining[u] = 0
  <2>1. Waiting(u) = {}
    BY <1>3 DEF Waiting
  <2> QED BY <1>3, <2>1, FS_EmptySet DEF Typed, Counted
<1>4. Typed => ProofsCounted
  BY <1>2, <1>3 DEF ProofsCounted
<1> QED BY <1>4, AlwaysTyped, PTL

\* The window channel has room for the window under way, whatever the
\* driver is busy with: the gatherer never blocks in a send.
THEOREM GatherHasRoom == Spec => []GatherNeverBlocks
<1>1. Typed => GatherNeverBlocks
  <2> SUFFICES ASSUME Typed, WindowDue
               PROVE  Cardinality(Wins("sent")) < WindowCapacity
    BY DEF GatherNeverBlocks
  <2>1. PICK t \in Targets : place[t] = "gathering"
    BY DEF WindowDue, At
  <2>2. At("sent") \cup {t} \in SUBSET Targets /\ t \notin At("sent") /\ At("sent") \in SUBSET Targets
    BY <2>1 DEF At
  <2>3. IsFiniteSet(At("sent")) /\ Cardinality(At("sent")) \in 0 .. N
    BY <2>2, TargetSets
  <2>4. Cardinality(At("sent") \cup {t}) = Cardinality(At("sent")) + 1
    BY <2>2, <2>3, FS_AddElement
  <2>5. Cardinality(At("sent")) + 1 <= N
    BY <2>2, <2>4, TargetSets, CampaignAssumption
  <2>6. Cardinality(Wins("sent")) <= Cardinality(At("sent")) /\ IsFiniteSet(Wins("sent"))
    <3> DEFINE number == [s \in At("sent") |-> win[s]]
    <3>1. number \in Surjection(At("sent"), Wins("sent"))
      BY DEF Surjection, Wins
    <3> QED BY <2>3, <3>1, FS_Surjection
  <2>7. Cardinality(Wins("sent")) \in Nat
    BY <2>6, FS_CardinalityType
  <2> QED BY <2>3, <2>5, <2>6, <2>7, CampaignAssumption DEF WindowCapacity
<1> QED BY <1>1, AlwaysTyped, PTL

------------------------------------------------------------------------------
(* The flow of the windows.                                                *)

LEMMA InitFlow == Init => Flow
<1> SUFFICES ASSUME Init PROVE Flow
  OBVIOUS
<1>1. \A t \in Targets : place[t] \in {"skipped", "ahead"}
  BY DEF Init
<1>2. At("hand") = {} /\ In(Held) = {} /\ In({"cut", "void", "capped", "discarded"}) = {}
  BY <1>1 DEF At, In, Held
<1>3. \A t \in Targets : t >= 1
  BY DEF Targets
<1> QED
  BY <1>2, <1>3 DEF Init, Flow, Drained, Past, Emptied, Walked, Uncut,
                    MeasuredIsFolded, NeverTruncated, At

\* What the driver holds or has folded does not move.
Aside ==
    /\ UNCHANGED driving
    /\ \A p \in {"hand", "measured", "cut", "void", "capped", "discarded"} : At(p)' = At(p)

LEMMA AsideHolds ==
    ASSUME Aside
    PROVE  /\ In(Held)' = In(Held) /\ At("hand")' = At("hand")
           /\ In({"cut", "void", "capped", "discarded"})'
                = In({"cut", "void", "capped", "discarded"})
<1>1. In(Held) = At("measured") \cup At("cut") \cup At("void")
  BY DEF In, At, Held
<1>2. In({"cut", "void", "capped", "discarded"})
        = At("cut") \cup At("void") \cup At("capped") \cup At("discarded")
  BY DEF In, At
<1>3. In(Held)' = At("measured")' \cup At("cut")' \cup At("void")'
  BY DEF In, At, Held
<1>4. In({"cut", "void", "capped", "discarded"})'
        = At("cut")' \cup At("void")' \cup At("capped")' \cup At("discarded")'
  BY DEF In, At
<1> QED BY <1>1, <1>2, <1>3, <1>4 DEF Aside

LEMMA AsideFlow ==
    ASSUME Flow, Aside
    PROVE  /\ Uncut' /\ MeasuredIsFolded' /\ NeverTruncated'
           /\ (Past => Closed' /\ At("pool")' = {}) => Emptied'
<1> USE AsideHolds DEF Aside, driving
<1>1. Uncut'
  BY DEF Flow, Uncut
<1>2. MeasuredIsFolded' /\ NeverTruncated'
  BY DEF Flow, MeasuredIsFolded, NeverTruncated
<1>3. (Past => Closed' /\ At("pool")' = {}) => Emptied'
  BY DEF Flow, Emptied, Past
<1> QED BY <1>1, <1>2, <1>3

\* A step of the walk.
Walks ==
    /\ UNCHANGED <<gathering, driving, prepErr>>
    /\ prep \in {"deciding", "proved"} /\ prep' \in {"deciding", "proved"}
    /\ \/ next' = next /\ place' = place
       \/ /\ next' = next + 1
          /\ \E q \in {"items"} \cup Settled :
                 \A t \in Targets : place'[t] = IF t = next THEN q ELSE place[t]
    /\ next \in Targets => place[next] \in {"ahead", "skipped"}

LEMMA WalksFlow == Typed /\ Flow /\ Walks => Flow'
<1> SUFFICES ASSUME Typed, Flow, Walks PROVE Flow'
  OBVIOUS
<1>1. Aside
  <2>1. ASSUME NEW p \in {"hand", "measured", "cut", "void", "capped", "discarded"}
        PROVE  At(p)' = At(p)
    <3>1. p \notin {"items", "ahead", "skipped"} \cup Settled
      BY DEF Settled
    <3>2. \A t \in Targets : place'[t] = p <=> place[t] = p
      BY <3>1 DEF Walks
    <3> QED BY <3>2 DEF At
  <2> QED BY <2>1 DEF Walks, Aside
<1>2. gatherer # "ended" /\ ~Closed /\ open /\ gatherer' = gatherer
  BY DEF Walks, Flow, Drained, Closed, gathering, Typed, TypeOK
<1>3. ~Past /\ then # "finish" /\ driver \notin {"finish", "returned"}
  BY <1>2 DEF Walks, Flow, Emptied, Walked, Past
<1>4. Drained'
  <2>1. ~(driver = "check" /\ whole)
    BY <1>2 DEF Flow, Drained
  <2> QED BY <1>2, <2>1 DEF Flow, Drained, Walks, driving
<1>5. Walked'
  <2>1. \A t \in Targets : place'[t] = "ahead" => t >= next'
    <3> TAKE t \in Targets
    <3>1. next \in Int /\ t \in Int /\ (place[t] = "ahead" => t >= next)
      BY CampaignAssumption DEF Typed, TypeOK, Flow, Walked, At, Targets
    <3>2. \A q \in {"items"} \cup Settled : q # "ahead"
      BY DEF Settled
    <3> QED BY <3>1, <3>2 DEF Walks
  <2> QED BY <1>3, <2>1 DEF Walks, Walked, At, driving
<1> QED BY <1>1, <1>3, <1>4, <1>5, AsideFlow DEF Flow

LEMMA PrepareFlow == Typed /\ Flow /\ Prepare => Flow'
<1> SUFFICES ASSUME Typed, Flow, Prepare PROVE Flow'
  OBVIOUS
<1>1. ASSUME NEW fate \in Settled, NEW calls, Settle(fate, calls) PROVE Flow'
  <2>1. Walks
    BY <1>1 DEF Settle, Walking, Walks, Move, Typed, TypeOK, gathering, driving
  <2> QED BY <2>1, WalksFlow
<1>2. CASE PrepareSkips \/ PrepareRefuses \/ PrepareServes
  BY <1>1, <1>2 DEF PrepareSkips, PrepareRefuses, PrepareServes, Settled
<1>3. CASE PassSettled
  <2>1. Walks
    BY <1>3 DEF PassSettled, Walks, Settled, gathering, driving
  <2> QED BY <2>1, WalksFlow
<1>4. CASE PrepareProves
  <2>1. Walks
    BY <1>4 DEF PrepareProves, Walking, Walks, gathering, driving
  <2> QED BY <2>1, WalksFlow
<1>5. CASE PrepareEmits
  <2>1. Walks
    BY <1>5 DEF PrepareEmits, Walking, Walks, Move, Typed, TypeOK, gathering, driving
  <2> QED BY <2>1, WalksFlow
<1>6. ASSUME UNCHANGED <<place, next, gathering, driving>>,
             \/ /\ prep \in {"deciding", "proved"} /\ prep' = "closed"
                /\ prepErr' = "none" => next = N + 1
             \/ prep = "closed" /\ prep' = "done" /\ prepErr' = prepErr
      PROVE  Flow'
  <2>1. \A p : At(p)' = At(p)
    BY <1>6 DEF At
  <2>2. Closed' = Closed
    BY <1>6, <2>1 DEF Closed, gathering
  <2>3. Aside
    BY <1>6, <2>1 DEF Aside
  <2>4. Drained'
    BY <1>6, <2>1, <2>2 DEF Flow, Drained, gathering, driving
  <2>5. Past => Closed' /\ At("pool")' = {}
    BY <2>1, <2>2 DEF Flow, Emptied
  <2>6. Walked'
    BY <1>6, <2>1 DEF Flow, Walked, driving
  <2> QED BY <2>3, <2>4, <2>5, <2>6, AsideFlow DEF Flow
<1>7. CASE WalkEnds \/ PrepareFails \/ ExtensionCheckFails \/ PrepareCancelled
  BY <1>6, <1>7 DEF WalkEnds, PrepareFails, ExtensionCheckFails, PrepareCancelled,
                    PrepReturns, Walking
<1>8. CASE PrepDone
  BY <1>6, <1>8 DEF PrepDone
<1> QED BY <1>2, <1>3, <1>4, <1>5, <1>7, <1>8 DEF Prepare

LEMMA GatherFlow == Typed /\ Flow /\ Gather => Flow'
<1> SUFFICES ASSUME Typed, Flow, Gather PROVE Flow'
  OBVIOUS
<1>0. gatherer = "running"
  BY DEF Gather, GatherTake, GatherSend, GatherEnds
<1>1. UNCHANGED driving /\ UNCHANGED preparing
  BY DEF Gather, GatherTake, GatherSend, GatherEnds
<1>2. ~Closed /\ open /\ ~Past /\ ~(driver = "check" /\ whole)
  BY <1>0 DEF Flow, Drained, Emptied, Closed, Typed, TypeOK
<1>3. \A t \in Targets : \/ place'[t] = place[t]
                         \/ /\ place[t] \in {"items", "gathering"}
                            /\ place'[t] \in {"gathering", "sent"}
  BY DEF Gather, GatherTake, GatherSend, GatherEnds, Move, First, At, Typed, TypeOK
<1>4. Aside
  <2>1. ASSUME NEW p \in {"hand", "measured", "cut", "void", "capped", "discarded"}
        PROVE  At(p)' = At(p)
    BY <1>3 DEF At
  <2> QED BY <1>1, <2>1 DEF Aside
<1>5. At("ahead")' = At("ahead")
  BY <1>3 DEF At
<1>6. Walked'
  BY <1>1, <1>5 DEF Flow, Walked, preparing, driving
<1>7. Drained'
  <2>1. gatherer' = "ended" =>
            prep' \in {"closed", "done"} /\ At("items")' = {} /\ At("gathering")' = {}
    <3>1. CASE GatherEnds
      BY <1>1, <3>1 DEF GatherEnds, Exhausted, At, preparing
    <3>2. CASE ~GatherEnds
      BY <1>0, <3>2 DEF Gather, GatherTake, GatherSend, gathering
    <3> QED BY <3>1, <3>2
  <2> QED BY <1>1, <1>2, <2>1 DEF Flow, Drained, driving
<1> QED BY <1>2, <1>4, <1>6, <1>7, AsideFlow DEF Flow

LEMMA OutsideFlow == Typed /\ Flow /\ (SoftStop \/ Cancel \/ UNCHANGED vars) => Flow'
<1> SUFFICES ASSUME Typed, Flow, SoftStop \/ Cancel \/ UNCHANGED vars PROVE Flow'
  OBVIOUS
<1>1. UNCHANGED <<place, preparing, gathering, driving>>
  BY DEF SoftStop, Cancel, vars
<1>2. \A p : At(p)' = At(p)
  BY <1>1 DEF At
<1>3. Closed' = Closed /\ Aside
  BY <1>1, <1>2 DEF Closed, Aside, gathering
<1>4. Drained' /\ Walked'
  BY <1>1, <1>2, <1>3 DEF Flow, Drained, Walked, preparing, gathering, driving
<1>5. Past => Closed' /\ At("pool")' = {}
  BY <1>2, <1>3 DEF Flow, Emptied
<1> QED BY <1>3, <1>4, <1>5, AsideFlow DEF Flow

\* Where the driver takes a window, and where a window is once it is sent.
Onward == {"pool", "hand"} \cup Held \cup Measured
Beyond == {"sent"} \cup Onward

\* The driver moves windows on: from the channel to the pool, the hand, the
\* fold and their end.
LEMMA DriveMoves ==
    ASSUME Typed, Drive
    PROVE  /\ UNCHANGED <<win, preparing, gathering>>
           /\ \A t \in Targets :
                  \/ place'[t] = place[t]
                  \/ place[t] \in Beyond /\ place'[t] \in Onward
<1> USE DEF Drives, Leave
<1>1. UNCHANGED <<win, preparing, gathering>>
  BY DEF Drive, TopReceive, TopPasses, Look, LookReceives, LookEnds, CheckFails, CheckPicks,
         FoldCommits, FoldDiscards, FoldRefuses, FoldFails, Fold, FoldEnds, Execute,
         ExecuteStarts, ExecuteAll, ExecuteFails, ExecuteDrains, Epilogue, Finish, Returns
<1>2. ASSUME NEW t \in Targets
      PROVE  \/ place'[t] = place[t]
             \/ /\ place[t] \in {"sent", "pool", "hand", "measured", "cut", "void"}
                /\ place'[t] \in {"pool", "hand", "measured", "cut", "void"} \cup Measured
  <2> USE DEF Measured
  <2>1. CASE UNCHANGED place
    BY <2>1
  <2>2. CASE Receive
    BY <2>2 DEF Receive, Move, Window, At, Typed, TypeOK
  <2>3. CASE \E v \in Wins("pool") : CheckPicks(v)
    BY <2>3 DEF CheckPicks, Move, Window, At, Typed, TypeOK
  <2>4. CASE \E s \in Targets : FoldCommits(s) \/ FoldDiscards(s) \/ FoldRefuses(s)
    BY <2>4 DEF FoldCommits, FoldDiscards, FoldRefuses, Folding, First, In, Held, Fold, Move,
                Typed, TypeOK
  <2>5. CASE ExecuteStarts
    BY <2>5 DEF ExecuteStarts, Typed, TypeOK
  <2>6. CASE ExecuteAll \/ \E b \in Targets, kept \in {"cut", "void"} : ExecuteDrains(b, kept)
    BY <2>6 DEF ExecuteAll, ExecuteDrains, Move, At, Typed, TypeOK
  <2> QED
    BY <2>1, <2>2, <2>3, <2>4, <2>5, <2>6
       DEF Drive, TopReceive, TopPasses, Look, LookReceives, LookEnds, CheckFails,
           FoldFails, FoldEnds, Execute, ExecuteFails, Epilogue, Finish, Returns
<1> QED BY <1>1, <1>2 DEF Beyond, Onward, Held

\* The driver touches neither the walk nor the gatherer.
Steady ==
    /\ UNCHANGED <<preparing, gathering>>
    /\ At("items")' = At("items") /\ At("gathering")' = At("gathering")
    /\ At("ahead")' = At("ahead")
    /\ At("sent")' \subseteq At("sent")

LEMMA DriveSteady == Typed /\ Drive => Steady
<1> SUFFICES ASSUME Typed, Drive PROVE Steady
  OBVIOUS
<1>1. \A p \in {"items", "gathering", "ahead"} : p \notin Beyond
  BY DEF Beyond, Onward, Held, Measured
<1>2. "sent" \notin Onward
  BY DEF Onward, Held, Measured
<1>3. \A p \in {"items", "gathering", "ahead"} : At(p)' = At(p)
  BY <1>1, DriveMoves DEF At, Beyond
<1>4. At("sent")' \subseteq At("sent")
  BY <1>2, DriveMoves DEF At
<1> QED BY <1>3, <1>4, DriveMoves DEF Steady

LEMMA SteadyHolds ==
    ASSUME Typed, Flow, Steady
    PROVE  /\ prep' = prep /\ prepErr' = prepErr /\ next' = next /\ gatherer' = gatherer
           /\ Closed => Closed'
           /\ gatherer' = "ended" => prep' \in {"closed", "done"}
                                     /\ At("items")' = {} /\ At("gathering")' = {}
           /\ \A t \in At("ahead")' : t >= next'
           /\ prep' \in {"closed", "done"} /\ prepErr' = "none" => next' = N + 1
BY DEF Steady, Flow, Drained, Walked, Closed, preparing, gathering

\* Receiving and picking: nothing executed moves.
LEMMA PickFlow ==
    ASSUME Typed, Flow, Steady,
           \/ TopReceive \/ TopPasses \/ Look \/ LookReceives \/ LookEnds
           \/ CheckFails \/ \E v \in Wins("pool") : CheckPicks(v)
    PROVE  Flow'
<1> USE SteadyHolds DEF Drives
<1>1. driver \in {"top", "look", "drain", "sweep", "check"} /\ verdict' = verdict
  BY DEF TopReceive, TopPasses, Look, LookReceives, LookEnds, CheckFails, CheckPicks
<1>2. At("hand") = {} /\ ~Past
  BY <1>1 DEF Flow, Emptied, Past
<1>3. In({"cut", "void", "capped", "discarded"}) = {}
  BY <1>1 DEF Flow, Uncut
<1>4. \A t \in Targets : place'[t] = place[t] \/ place'[t] \in {"pool", "hand"}
  BY DEF TopReceive, TopPasses, Look, LookReceives, LookEnds, CheckFails, CheckPicks,
         Receive, Move, Typed, TypeOK
<1>5. In({"cut", "void", "capped", "discarded"})' = {}
  BY <1>3, <1>4 DEF In
<1>6. /\ MeasuredIsFolded' /\ NeverTruncated' /\ Uncut'
      /\ driver' \in {"look", "drain", "sweep", "check", "epilogue", "fold"}
  <2>1. driver' \in {"look", "drain", "sweep", "check", "epilogue", "fold"}
    BY DEF TopReceive, TopPasses, Look, LookTo, LookReceives, LookEnds, CheckFails, CheckPicks
  <2> QED BY <1>1, <1>5, <2>1 DEF Flow, MeasuredIsFolded, NeverTruncated, Uncut
<1>7. CASE TopPasses
  <2>1. place' = place /\ then' = then /\ open' = open /\ whole' = whole
    BY <1>7 DEF TopPasses
  <2>2. then # "finish" \/ driver' # "fold"
    BY <1>7 DEF TopPasses
  <2>3. driver' = "epilogue" => Closed' /\ At("pool")' = {}
    BY <1>7, <2>1 DEF TopPasses, Ended, Flow, Drained, At
  <2>4. driver' = "check" => Closed'
    BY <1>7 DEF TopPasses, Flow, Drained
  <2>5. Drained'
    BY <1>6, <1>7, <2>1, <2>4 DEF TopPasses, Flow, Drained
  <2>6. Emptied'
    BY <1>2, <1>6, <1>7, <2>1, <2>3 DEF TopPasses, Emptied, Past, At
  <2>7. Walked'
    BY <1>6, <2>1 DEF Flow, Walked
  <2> QED BY <1>6, <2>5, <2>6, <2>7 DEF Flow
<1>8. CASE TopReceive \/ Look \/ LookReceives
  <2>1. /\ driver' \in {"look", "drain", "sweep"} /\ then' = then /\ open' = open
        /\ driver' = "drain" => whole'
        /\ driver' = "sweep" => ~whole'
    <3>1. CASE Look
      <4>1. driver' = LookTo /\ then' = then /\ open' = open /\ (whole' <=> prep = "done")
        BY <3>1 DEF Look
      <4> QED BY <4>1 DEF LookTo
    <3>2. CASE TopReceive
      BY <3>2 DEF TopReceive
    <3>3. CASE LookReceives
      <4>1. driver \in {"drain", "sweep"} /\ driver' = driver /\ UNCHANGED <<then, open, whole>>
        BY <3>3 DEF LookReceives
      <4> QED BY <4>1 DEF Flow, Drained
    <3> QED BY <1>8, <3>1, <3>2, <3>3
  <2>2. Drained'
    BY <2>1 DEF Flow, Drained
  <2>3. At("hand")' = {}
    BY <1>2, <1>8 DEF TopReceive, Look, LookReceives, Receive, Move, At, Typed, TypeOK
  <2>4. Emptied'
    BY <2>1, <2>3 DEF Emptied, Past
  <2>5. Walked'
    BY <2>1 DEF Flow, Walked
  <2> QED BY <1>6, <2>2, <2>4, <2>5 DEF Flow
<1>9. CASE LookEnds
  <2>1. place' = place /\ driver' = "check" /\ then' = then /\ whole' = whole
    BY <1>9 DEF LookEnds
  <2>2. (~open' => Closed') /\ (whole' => Closed')
    <3>1. open' <=> ~Closed
      BY <1>9 DEF LookEnds
    <3>2. driver \in {"drain", "sweep"} /\ (driver = "drain" => Closed)
      BY <1>9 DEF LookEnds
    <3>3. driver = "sweep" => ~whole
      BY DEF Flow, Drained
    <3> QED BY <2>1, <3>1, <3>2, <3>3
  <2>3. Drained'
    BY <2>1, <2>2 DEF Drained
  <2>4. Emptied'
    BY <1>2, <2>1 DEF Emptied, Past, At
  <2>5. Walked'
    BY <2>1 DEF Flow, Walked
  <2> QED BY <1>6, <2>3, <2>4, <2>5 DEF Flow
<1>10. CASE CheckFails \/ \E v \in Wins("pool") : CheckPicks(v)
  <2>1. /\ driver' = "fold" /\ open' = open /\ then' \in {"prepFailed", "execute"}
        /\ then' = "prepFailed" => place' = place
    BY <1>10 DEF CheckFails, CheckPicks
  <2>2. Drained'
    BY <2>1 DEF Flow, Drained
  <2>3. At("hand")' # {} => then' = "execute"
    BY <1>2, <2>1 DEF At
  <2>4. Emptied'
    BY <2>1, <2>3 DEF Emptied, Past
  <2>5. Walked'
    BY <2>1 DEF Flow, Walked
  <2> QED BY <1>6, <2>2, <2>4, <2>5 DEF Flow
<1> QED BY <1>7, <1>8, <1>9, <1>10

\* Leaving the loop: what is cut or discarded is an interrupt's, and only a
\* failed or cancelled run leaves something unfolded.
LEMMA LeaveFlow ==
    ASSUME Typed, Flow, Steady, UNCHANGED place, NEW v, Leave(v), v # "truncated",
           v \notin {"cancelled", "failed"} => In(Held) = {},
           In({"cut", "void", "capped", "discarded"}) # {} => then = "interrupted"
    PROVE  Flow'
<1> USE SteadyHolds DEF Leave
<1>1. driver' = "join" /\ UNCHANGED <<then, open, whole>> /\ verdict' = v
  OBVIOUS
<1>2. In(Held)' = In(Held)
      /\ In({"cut", "void", "capped", "discarded"})' = In({"cut", "void", "capped", "discarded"})
  BY DEF In
<1>3. Drained' /\ Emptied'
  BY <1>1 DEF Flow, Drained, Emptied, Past
<1>4. Uncut' /\ MeasuredIsFolded' /\ NeverTruncated'
  BY <1>1, <1>2 DEF Uncut, MeasuredIsFolded, NeverTruncated
<1>5. Walked'
  BY <1>1 DEF Flow, Walked
<1> QED BY <1>3, <1>4, <1>5 DEF Flow

LEMMA FoldFlow ==
    ASSUME Typed, Flow, Steady,
           \/ FoldEnds
           \/ \E t \in Targets : \/ FoldCommits(t) \/ FoldDiscards(t)
                                 \/ FoldRefuses(t) \/ FoldFails(t)
    PROVE  Flow'
<1> USE SteadyHolds
<1>1. driver = "fold"
  BY DEF FoldEnds, Folded, FoldCommits, FoldDiscards, FoldRefuses, FoldFails, Folding
<1>2. In({"cut", "void", "capped", "discarded"}) # {} => then = "interrupted"
  BY DEF Flow, Uncut
<1>3. ASSUME NEW t \in Targets, FoldCommits(t) \/ FoldDiscards(t) \/ FoldRefuses(t)
      PROVE  Flow'
  <2>1. UNCHANGED driving
    BY <1>3 DEF FoldCommits, FoldDiscards, FoldRefuses, Fold
  <2>2. PICK fate \in {"committed", "capped", "discarded", "drifted"} :
            /\ place' = [s \in Targets |-> IF s = t THEN fate ELSE place[s]]
            /\ fate \in {"capped", "discarded"} => place[t] \in {"cut", "void"}
            /\ place[t] \in Held
    BY <1>3 DEF FoldCommits, FoldDiscards, FoldRefuses, Fold, Move, Folding, First, In
  <2>3. At("hand")' = At("hand") /\ At("pool")' = At("pool")
    <3>1. "hand" \notin Held /\ "pool" \notin Held
      BY DEF Held
    <3> QED BY <2>2, <3>1 DEF At, Held
  <2>4. In({"cut", "void", "capped", "discarded"})' # {}
            => In({"cut", "void", "capped", "discarded"}) # {}
    BY <2>2 DEF In
  <2>5. Drained' /\ Walked'
    BY <1>1, <2>1 DEF Flow, Drained, Walked, driving
  <2>6. Emptied'
    BY <1>1, <2>1, <2>3 DEF Flow, Emptied, Past, driving
  <2>7. Uncut' /\ MeasuredIsFolded' /\ NeverTruncated'
    BY <1>1, <2>1, <2>4 DEF Flow, Uncut, MeasuredIsFolded, NeverTruncated, driving
  <2> QED BY <2>5, <2>6, <2>7 DEF Flow
<1>4. ASSUME NEW t \in Targets, FoldFails(t) PROVE Flow'
  <2>1. PICK v \in {"failed", "cancelled"} : Leave(v)
    BY <1>4 DEF FoldFails
  <2>2. UNCHANGED place
    BY <1>4 DEF FoldFails
  <2> QED BY <1>2, <2>1, <2>2, LeaveFlow
<1>5. CASE FoldEnds /\ then \in {"prepFailed", "interrupted"} /\ Leave(then)
  <2>1. UNCHANGED place /\ In(Held) = {}
    BY <1>5 DEF FoldEnds, Folded
  <2> QED BY <1>2, <1>5, <2>1, LeaveFlow
<1>6. CASE FoldEnds /\ then \in {"execute", "finish"} /\ Drives("fold", then)
           /\ UNCHANGED <<then, open, whole, verdict>>
  <2>1. /\ UNCHANGED <<place, then, open, whole, verdict>> /\ driver' = then
        /\ driver' \in {"execute", "finish"} /\ In(Held) = {}
    BY <1>6 DEF FoldEnds, Folded, Drives
  <2>2. /\ \A p : At(p)' = At(p)
        /\ In(Held)' = {}
        /\ In({"cut", "void", "capped", "discarded"})' = {}
    BY <1>2, <2>1 DEF At, In
  <2>3. Drained' /\ Walked'
    BY <2>1 DEF Flow, Drained, Walked
  <2>4. Emptied'
    BY <1>1, <2>1, <2>2 DEF Flow, Emptied, Past
  <2>5. Uncut' /\ MeasuredIsFolded' /\ NeverTruncated'
    BY <2>1, <2>2 DEF Flow, Uncut, MeasuredIsFolded, NeverTruncated
  <2> QED BY <2>3, <2>4, <2>5 DEF Flow
<1> QED BY <1>3, <1>4, <1>5, <1>6 DEF FoldEnds

LEMMA ExecuteFlow ==
    ASSUME Typed, Flow, Steady, Execute
    PROVE  Flow'
<1> USE SteadyHolds DEF Drives
<1>1. driver \in {"execute", "running"}
  BY DEF Execute, ExecuteStarts, ExecuteAll, ExecuteFails, ExecuteDrains, Leave
<1>2. In(Held) = {} /\ In({"cut", "void", "capped", "discarded"}) = {}
  BY <1>1 DEF Flow, Emptied, Uncut
<1>3. CASE ExecuteFails
  <2>1. PICK v \in {"failed", "cancelled"} : Leave(v)
    BY <1>3 DEF ExecuteFails
  <2>2. UNCHANGED place
    BY <1>3 DEF ExecuteFails
  <2> QED BY <1>2, <2>1, <2>2, LeaveFlow
<1>4. CASE ExecuteStarts /\ driver' = "running" /\ UNCHANGED <<place, then>>
  <2>1. driver' = "running" /\ UNCHANGED <<place, then, open, whole, verdict>>
    BY <1>4 DEF ExecuteStarts
  <2>2. /\ \A p : At(p)' = At(p)
        /\ In(Held)' = {} /\ In({"cut", "void", "capped", "discarded"})' = {}
    BY <1>2, <2>1 DEF At, In
  <2>3. Drained' /\ Walked'
    BY <2>1 DEF Flow, Drained, Walked
  <2>4. Emptied' /\ Uncut' /\ MeasuredIsFolded' /\ NeverTruncated'
    BY <1>1, <2>1, <2>2 DEF Flow, Emptied, Past, Uncut, MeasuredIsFolded, NeverTruncated
  <2> QED BY <2>3, <2>4 DEF Flow
<1>5. CASE ExecuteAll
  <2>1. driver' = "top" /\ UNCHANGED <<then, open, whole, verdict>>
    BY <1>5 DEF ExecuteAll
  <2>2. \A t \in Targets : place'[t] = IF place[t] = "hand" THEN "measured" ELSE place[t]
    BY <1>5 DEF ExecuteAll, Move, At
  <2>3. At("hand")' = {} /\ In({"cut", "void", "capped", "discarded"})' = {}
    BY <1>2, <2>2 DEF At, In
  <2>4. Drained' /\ Walked'
    BY <2>1 DEF Flow, Drained, Walked
  <2>5. Emptied' /\ Uncut' /\ MeasuredIsFolded' /\ NeverTruncated'
    BY <2>1, <2>3 DEF Flow, Emptied, Past, Uncut, MeasuredIsFolded, NeverTruncated
  <2> QED BY <2>4, <2>5 DEF Flow
<1>6. ASSUME /\ driver' = "fold" /\ then' = "interrupted" /\ UNCHANGED <<open, whole, verdict>>
             /\ \A t \in Targets : place'[t] # "hand"
      PROVE  Flow'
  <2>1. At("hand")' = {}
    BY <1>6 DEF At
  <2>2. Drained' /\ Walked'
    BY <1>6 DEF Flow, Drained, Walked
  <2>3. Emptied' /\ Uncut' /\ MeasuredIsFolded' /\ NeverTruncated'
    BY <1>6, <2>1 DEF Flow, Emptied, Past, Uncut, MeasuredIsFolded, NeverTruncated
  <2> QED BY <2>2, <2>3 DEF Flow
<1>7. CASE ExecuteStarts /\ ~(driver' = "running" /\ UNCHANGED <<place, then>>)
  <2>1. driver' = "fold" /\ then' = "interrupted" /\ UNCHANGED <<open, whole, verdict>>
    BY <1>7 DEF ExecuteStarts
  <2>2. \A t \in Targets : place'[t] # "hand"
    BY <1>7 DEF ExecuteStarts
  <2> QED BY <1>6, <2>1, <2>2
<1>8. ASSUME NEW b \in Targets, NEW kept \in {"cut", "void"}, ExecuteDrains(b, kept)
      PROVE  Flow'
  <2>1. driver' = "fold" /\ then' = "interrupted" /\ UNCHANGED <<open, whole, verdict>>
    BY <1>8 DEF ExecuteDrains
  <2>2. \A t \in Targets : place'[t] # "hand"
    BY <1>8 DEF ExecuteDrains
  <2> QED BY <1>6, <2>1, <2>2
<1> QED BY <1>3, <1>4, <1>5, <1>7, <1>8 DEF Execute

LEMMA EndFlow ==
    ASSUME Typed, Flow, Steady, Epilogue \/ Finish \/ Returns
    PROVE  Flow'
<1> USE SteadyHolds DEF Drives
<1>0. UNCHANGED place /\ driver \in {"epilogue", "finish", "join"}
  BY DEF Epilogue, Finish, Returns, Joined, Leave
<1>1. /\ \A p : At(p)' = At(p)
      /\ In(Held)' = In(Held)
      /\ In({"cut", "void", "capped", "discarded"})' = In({"cut", "void", "capped", "discarded"})
  BY <1>0 DEF At, In
<1>2. CASE Returns
  <2>1. /\ driver = "join" /\ prep' = "done" /\ driver' = "returned"
        /\ UNCHANGED <<then, open, whole, verdict>>
    BY <1>2 DEF Returns, Joined
  <2>2. Drained' /\ Walked' /\ Emptied' /\ Uncut' /\ MeasuredIsFolded' /\ NeverTruncated'
    BY <1>1, <2>1 DEF Flow, Drained, Walked, Emptied, Past, Uncut, MeasuredIsFolded,
                      NeverTruncated
  <2> QED BY <2>2 DEF Flow
<1>3. CASE Finish
  <2>1. PICK v \in Results : Leave(v)
    BY <1>3 DEF Finish
  <2>2. driver = "finish" /\ In(Held) = {} /\ In({"cut", "void", "capped", "discarded"}) = {}
    BY <1>3 DEF Finish, Flow, Emptied, Uncut
  <2>3. In({"skipped", "cached", "committed", "refused", "drifted"}) = Targets
    <3> SUFFICES ASSUME NEW t \in Targets
                 PROVE  place[t] \in {"skipped", "cached", "committed", "refused", "drifted"}
      BY DEF In
    <3>1. place[t] # "ahead"
      <4>1. next = N + 1
        BY <2>2 DEF Flow, Walked
      <4> QED BY <4>1, CampaignAssumption DEF Flow, Walked, At, Targets
    <3>2. place[t] \notin InPool
      BY <2>2 DEF Flow, Drained, Emptied, Past, Closed, At, InPool
    <3>3. place[t] \notin Held \cup {"capped", "discarded"}
      BY <2>2 DEF In
    <3>4. place[t] \in Places
      BY DEF Typed, TypeOK
    <3> QED BY <3>1, <3>2, <3>3, <3>4 DEF Places, Terminal, Measured, Settled
  <2>4. v # "truncated"
    BY <2>1, <2>3 DEF Results
  <2> QED BY <1>0, <2>1, <2>2, <2>4, LeaveFlow
<1>4. CASE Epilogue /\ Leave("cancelled")
  BY <1>0, <1>4, LeaveFlow DEF Flow, Uncut
<1>5. CASE Epilogue /\ ~Leave("cancelled")
  <2>1. /\ driver = "epilogue" /\ driver' = "fold" /\ prep' = "done"
        /\ then' \in {"finish", "prepFailed"} /\ then' = "finish" => prepErr' = "none"
        /\ UNCHANGED <<open, whole, verdict>>
    BY <1>5 DEF Epilogue
  <2>2. Drained' /\ Walked' /\ Emptied' /\ Uncut' /\ MeasuredIsFolded' /\ NeverTruncated'
    BY <1>1, <2>1 DEF Flow, Drained, Walked, Emptied, Past, Uncut, MeasuredIsFolded,
                      NeverTruncated
  <2> QED BY <2>2 DEF Flow
<1> QED BY <1>2, <1>3, <1>4, <1>5

LEMMA NextFlow == Typed /\ Flow /\ [Next]_vars => Flow'
<1> SUFFICES ASSUME Typed, Flow, [Next]_vars PROVE Flow'
  OBVIOUS
<1>1. CASE Drive
  <2>1. Steady
    BY <1>1, DriveSteady
  <2> QED BY <1>1, <2>1, PickFlow, FoldFlow, ExecuteFlow, EndFlow DEF Drive
<1> QED BY <1>1, PrepareFlow, GatherFlow, OutsideFlow DEF Next

LEMMA AlwaysFlows == Spec => [](Typed /\ Flow)
<1>1. Init => Typed /\ Flow
  BY InitTyped, InitFlow
<1>2. (Typed /\ Flow) /\ [Next]_vars => (Typed /\ Flow)'
  BY NextTyped, NextFlow
<1> QED BY <1>1, <1>2, PTL DEF Spec

\* A window only executes when every window before it is folded, so a crash in
\* the middle of one costs its verdicts and nothing more; and every way out of
\* the run but a cancellation and a failed fold or execution folds the held
\* window first.
THEOREM HeldIsSafe == Spec => []HeldWindowSafe
<1>1. Flow => HeldWindowSafe
  BY DEF Flow, Emptied, HeldWindowSafe, OneWindowAtRisk
<1> QED BY <1>1, AlwaysFlows, PTL

\* The final count of Run never finds a target without a disposition: the
\* walk, the two channels, the pool and the fold lose none.
THEOREM NoneLost == Spec => []NeverTruncated
<1>1. Flow => NeverTruncated
  BY DEF Flow
<1> QED BY <1>1, AlwaysFlows, PTL

\* Once the driver looked with preparation over, its pick is the first in
\* dispatch order among every window still to execute.
THEOREM PicksCheapest == Spec => CheapestFirst
<1>1. Typed /\ Flow /\ [Next]_vars =>
          [\A v \in Wins("pool") : whole /\ CheckPicks(v)
             => \A w \in Wins("pool") \cup Wins("sent") \cup Wins("gathering") :
                    Goes(v, w)]_vars
  <2> SUFFICES ASSUME Flow, NEW v \in Wins("pool"), whole, CheckPicks(v),
                      NEW w \in Wins("pool") \cup Wins("sent") \cup Wins("gathering")
               PROVE  Goes(v, w)
    OBVIOUS
  <2>1. Closed
    BY DEF CheckPicks, Drives, Flow, Drained
  <2>2. Wins("sent") = {} /\ Wins("gathering") = {}
    BY <2>1 DEF Flow, Drained, Closed, Wins
  <2> QED BY <2>2 DEF CheckPicks
<1> QED BY <1>1, AlwaysFlows, PTL DEF Spec, CheapestFirst

\* Run joins its preparation: once it returned, no proof, disposition or
\* callback of the walk follows.
THEOREM QuietOnceReturned == Spec => QuietAfterReturn
<1>1. Typed /\ Flow /\ [Next]_vars
          => [driver = "returned" => UNCHANGED <<preparing, unit>>]_vars
  <2> SUFFICES ASSUME Flow, [Next]_vars, driver = "returned"
               PROVE  UNCHANGED <<preparing, unit>>
    OBVIOUS
  <2>1. prep = "done"
    BY DEF Flow, Walked
  <2>2. ~Prepare
    BY <2>1 DEF Prepare, PassSettled, PrepareSkips, PrepareRefuses, PrepareServes, Settle,
                PrepareProves, PrepareEmits, WalkEnds, PrepareFails, ExtensionCheckFails,
                PrepareCancelled, PrepDone, Walking
  <2>3. ~Drive
    BY DEF Drive, TopReceive, TopPasses, Look, LookReceives, LookEnds, CheckFails, CheckPicks,
           FoldCommits, FoldDiscards, FoldRefuses, FoldFails, Folding, FoldEnds, Folded,
           Execute, ExecuteStarts, ExecuteAll, ExecuteFails, ExecuteDrains, Epilogue, Finish,
           Returns, Joined, Drives
  <2>4. CASE Gather
    BY <2>4 DEF Gather, GatherTake, GatherSend, GatherEnds
  <2>5. CASE SoftStop \/ Cancel \/ UNCHANGED vars
    BY <2>5 DEF SoftStop, Cancel, vars
  <2> QED BY <2>2, <2>3, <2>4, <2>5 DEF Next
<1> QED BY <1>1, AlwaysFlows, PTL DEF Spec, QuietAfterReturn
------------------------------------------------------------------------------
(* The windows against the reference partition.                            *)

\* What a target found in its window.
Before(t) == {u \in Targets : u < t /\ win[u] = win[t]}

\* A target is numbered when it is gathered, by the windows sent so far.
Numbered ==
    \A t \in Targets :
        /\ win[t] # 0 <=> place[t] \in Beyond \cup {"gathering"}
        /\ win[t] <= sends + 1
        /\ win[t] = sends + 1 <=> place[t] = "gathering"

\* Emission and gathering keep to the order of the targets.
Ordered ==
    /\ \A t \in Targets : place[t] \in Beyond \cup {"gathering", "items"} => t < next
    /\ \A t, u \in Targets : win[t] # 0 /\ place[u] = "items" => t < u
    /\ \A t, u \in Targets : win[t] # 0 /\ win[u] # 0 /\ t < u => win[t] <= win[u]

\* No target joined a full window, and every window sent is full but the one
\* the end of preparation closed.
Budgeted ==
    /\ \A t \in Targets : win[t] # 0 => Before(t) = {} \/ ~Full(Before(t))
    /\ \A w \in 1 .. sends :
           /\ Of(w) # {}
           /\ Full(Of(w)) \/ (w = sends /\ At("gathering") = {} /\ Exhausted)

Windowed == Numbered /\ Ordered /\ Budgeted

LEMMA BeyondIs ==
    /\ "items" \notin Beyond /\ "gathering" \notin Beyond /\ "ahead" \notin Beyond
    /\ \A p \in Settled : p \notin Beyond \cup {"gathering", "items"}
    /\ {"pool", "hand", "measured", "cut", "void"} \subseteq Beyond
    /\ Measured \subseteq Beyond /\ Onward \subseteq Beyond
BY DEF Beyond, Onward, Held, Measured, Settled

\* A step that numbers and sends nothing.
LEMMA NumbersStay ==
    ASSUME Typed, Windowed, UNCHANGED <<win, sends>>, Exhausted => Exhausted',
           \A t \in Targets : /\ place'[t] \in Beyond <=> place[t] \in Beyond
                              /\ place'[t] = "gathering" <=> place[t] = "gathering"
    PROVE  Numbered' /\ Budgeted'
<1>1. Numbered'
  BY DEF Windowed, Numbered
<1>2. At("gathering")' = At("gathering")
  BY DEF At
<1>3. /\ \A t : Before(t)' = Before(t)
      /\ \A w : Of(w)' = Of(w)
  BY DEF Before, Of
<1>4. /\ \A t : Full(Before(t))' = Full(Before(t))
      /\ \A w : Full(Of(w))' = Full(Of(w))
  BY <1>3 DEF Full, Total, Executions, MapThenSumSet, MapThenFoldSet
<1>5. Budgeted'
  BY <1>2, <1>3, <1>4 DEF Windowed, Budgeted
<1> QED BY <1>1, <1>5

LEMMA OrderStays ==
    ASSUME Typed, Windowed, UNCHANGED win, next' \in Nat, next' >= next,
           \A t \in Targets : \/ place'[t] \in Beyond /\ place[t] \in Beyond
                              \/ place'[t] = place[t]
                              \/ place'[t] \notin Beyond \cup {"gathering", "items"}
    PROVE  Ordered'
<1>1. \A t \in Targets : t \in Int /\ next \in Int
  BY CampaignAssumption DEF Targets, Typed, TypeOK
<1>2. \A t \in Targets : place'[t] \in Beyond \cup {"gathering", "items"} => t < next'
  BY <1>1 DEF Windowed, Ordered
<1>3. \A u \in Targets : place'[u] = "items" => place[u] = "items"
  BY BeyondIs
<1> QED BY <1>2, <1>3 DEF Windowed, Ordered

LEMMA InitWindowed == Init => Windowed
<1> SUFFICES ASSUME Init PROVE Windowed
  OBVIOUS
<1>1. \A t \in Targets : place[t] \in {"skipped", "ahead"} /\ win[t] = 0
  BY DEF Init
<1>2. \A t \in Targets : place[t] \notin Beyond \cup {"gathering", "items"}
  BY <1>1, BeyondIs DEF Settled
<1>3. sends = 0
  BY DEF Init
<1>4. Numbered
  BY <1>1, <1>2, <1>3 DEF Numbered
<1>5. Ordered
  BY <1>1, <1>2 DEF Ordered
<1>6. Budgeted
  BY <1>1, <1>3 DEF Budgeted
<1> QED BY <1>4, <1>5, <1>6 DEF Windowed

LEMMA PrepareWindowed == Typed /\ Windowed /\ Prepare => Windowed'
<1> SUFFICES ASSUME Typed, Windowed, Prepare PROVE Windowed'
  OBVIOUS
<1>t. next \in Nat /\ place = [t \in Targets |-> place[t]]
  BY CampaignAssumption DEF Typed, TypeOK
<1>1. ASSUME NEW fate \in Settled, NEW calls, Settle(fate, calls) PROVE Windowed'
  <2>1. /\ UNCHANGED <<win, sends>> /\ ~Exhausted /\ next' \in Nat /\ next' >= next
        /\ place[next] = "ahead"
        /\ \A t \in Targets : place'[t] = IF t = next THEN fate ELSE place[t]
    BY <1>1, <1>t DEF Settle, Walking, Move, Exhausted, gathering
  <2>2. Numbered' /\ Budgeted'
    BY <2>1, NumbersStay, BeyondIs
  <2>3. Ordered'
    BY <2>1, OrderStays, BeyondIs
  <2> QED BY <2>2, <2>3 DEF Windowed
<1>2. CASE PrepareSkips \/ PrepareRefuses \/ PrepareServes
  BY <1>1, <1>2 DEF PrepareSkips, PrepareRefuses, PrepareServes, Settled
<1>3. CASE PassSettled \/ PrepareProves
  <2>1. /\ UNCHANGED <<win, sends, place>> /\ ~Exhausted /\ next' \in Nat /\ next' >= next
    BY <1>3, <1>t DEF PassSettled, PrepareProves, Exhausted, gathering
  <2>2. Numbered' /\ Budgeted'
    BY <2>1, NumbersStay
  <2>3. Ordered'
    BY <2>1, OrderStays
  <2> QED BY <2>2, <2>3 DEF Windowed
<1>4. CASE PrepareEmits
  <2>1. /\ UNCHANGED <<win, sends>> /\ ~Exhausted /\ next' = next + 1
        /\ next \in Targets /\ place[next] = "ahead"
        /\ \A t \in Targets : place'[t] = IF t = next THEN "items" ELSE place[t]
    BY <1>4, <1>t DEF PrepareEmits, Walking, Move, Exhausted, gathering
  <2>2. Numbered' /\ Budgeted'
    BY <2>1, NumbersStay, BeyondIs
  <2>3. \A t \in Targets : t \in Int
    BY CampaignAssumption DEF Targets
  <2>4. \A t \in Targets : place'[t] \in Beyond \cup {"gathering", "items"} => t < next'
    BY <2>1, <2>3, <1>t DEF Windowed, Ordered
  <2>5. \A t, u \in Targets : win'[t] # 0 /\ place'[u] = "items" => t < u
    <3>1. \A t \in Targets : win[t] # 0 => t < next
      BY DEF Windowed, Numbered, Ordered
    <3> QED BY <2>1, <3>1 DEF Windowed, Ordered
  <2>6. Ordered'
    BY <2>1, <2>4, <2>5 DEF Windowed, Ordered
  <2> QED BY <2>2, <2>6 DEF Windowed
<1>5. CASE WalkEnds \/ PrepareFails \/ ExtensionCheckFails \/ PrepareCancelled \/ PrepDone
  <2>1. UNCHANGED <<win, sends, place, next>> /\ prep' \in {"closed", "done"}
    BY <1>5 DEF WalkEnds, PrepareFails, ExtensionCheckFails, PrepareCancelled, PrepReturns,
                PrepDone, gathering
  <2>2. Exhausted => Exhausted'
    BY <2>1 DEF Exhausted, At
  <2>3. Numbered' /\ Budgeted'
    BY <2>1, <2>2, NumbersStay
  <2>4. Ordered'
    BY <1>t, <2>1, OrderStays
  <2> QED BY <2>3, <2>4 DEF Windowed
<1> QED BY <1>2, <1>3, <1>4, <1>5 DEF Prepare

\* The next item joins the window under way.
LEMMA TakeWindowed ==
    ASSUME Typed, Windowed, NEW t \in Targets, GatherTake(t)
    PROVE  Windowed'
<1>1. /\ place[t] = "items" /\ win[t] = 0
      /\ \A u \in Targets : place[u] = "items" => t <= u
      /\ UNCHANGED <<sends, next, prep>>
  BY BeyondIs DEF GatherTake, First, At, Windowed, Numbered, preparing, gathering
<1>2. /\ \A u \in Targets : place'[u] = IF u = t THEN "gathering" ELSE place[u]
      /\ \A u \in Targets : win'[u] = IF u = t THEN sends + 1 ELSE win[u]
  BY DEF GatherTake, Move, Typed, TypeOK
<1>3. /\ sends \in Nat /\ \A u \in Targets : u \in Int /\ win[u] \in Nat
  BY CampaignAssumption DEF Typed, TypeOK, Targets
<1>4. Numbered'
  BY <1>1, <1>2, <1>3, BeyondIs DEF Windowed, Numbered
<1>5. \A u \in Targets : win[u] # 0 => u < t
  BY <1>1 DEF Windowed, Ordered
<1>6. Ordered'
  <2>1. \A u \in Targets : place'[u] \in Beyond \cup {"gathering", "items"} => u < next'
    BY <1>1, <1>2 DEF Windowed, Ordered
  <2>2. \A u, s \in Targets : win'[u] # 0 /\ place'[s] = "items" => u < s
    <3>1. \A s \in Targets : s # t /\ place[s] = "items" => t < s
      BY <1>1, <1>3
    <3> QED BY <1>2, <3>1 DEF Windowed, Ordered
  <2>3. \A u, s \in Targets : win'[u] # 0 /\ win'[s] # 0 /\ u < s => win'[u] <= win'[s]
    <3>1. \A u \in Targets : win[u] <= sends + 1
      BY DEF Windowed, Numbered
    <3>2. \A s \in Targets : t < s => win[s] = 0
      BY <1>3, <1>5
    <3> QED BY <1>2, <1>3, <3>1, <3>2 DEF Windowed, Ordered
  <2> QED BY <2>1, <2>2, <2>3 DEF Ordered
<1>7. \A u \in Targets : win'[u] # 0 => Before(u)' = {} \/ ~Full(Before(u)')
  <2>1. Before(t)' = At("gathering")
    BY <1>2, <1>3, <1>5, <1>1 DEF Before, At, Windowed, Numbered
  <2>2. Before(t)' = {} \/ ~Full(Before(t)')
    BY <2>1 DEF GatherTake
  <2>3. ASSUME NEW u \in Targets, u # t, win'[u] # 0
        PROVE  Before(u)' = {} \/ ~Full(Before(u)')
    <3>1. Before(u)' = Before(u) /\ win[u] # 0
      BY <1>2, <1>3, <1>5, <2>3 DEF Before
    <3> QED BY <3>1 DEF Windowed, Budgeted
  <2> QED BY <2>2, <2>3
<1>8. \A w \in 1 .. sends : Of(w)' # {} /\ Full(Of(w)')
  <2> TAKE w \in 1 .. sends
  <2>1. w # sends + 1 /\ w # 0
    BY <1>3
  <2>2. Of(w)' = Of(w)
    BY <1>1, <1>2, <2>1 DEF Of
  <2>3. ~Exhausted
    BY <1>1 DEF Exhausted, At
  <2> QED BY <2>2, <2>3 DEF Windowed, Budgeted
<1>9. Budgeted'
  <2>1. /\ \A u : Full(Before(u)') <=> Full(Before(u))'
        /\ \A w : Full(Of(w)') <=> Full(Of(w))'
    BY DEF Full, Total, Executions, MapThenSumSet, MapThenFoldSet
  <2> QED BY <1>1, <1>7, <1>8, <2>1 DEF Budgeted
<1> QED BY <1>4, <1>6, <1>9 DEF Windowed

\* The window under way is full, or the last.
LEMMA SendWindowed == Typed /\ Windowed /\ GatherSend => Windowed'
<1> SUFFICES ASSUME Typed, Windowed, GatherSend PROVE Windowed'
  OBVIOUS
<1>1. /\ WindowDue /\ UNCHANGED <<win, next, prep>> /\ sends' = sends + 1
  BY DEF GatherSend, preparing
<1>2. \A t \in Targets : place'[t] = IF place[t] = "gathering" THEN "sent" ELSE place[t]
  BY DEF GatherSend, Move, At
<1>3. sends \in Nat /\ next \in Nat /\ \A t \in Targets : t \in Int /\ win[t] \in Nat
  BY CampaignAssumption DEF Typed, TypeOK, Targets
<1>b. "sent" \in Beyond
  BY DEF Beyond
<1>4. Numbered'
  BY <1>1, <1>2, <1>3, <1>b, BeyondIs DEF Windowed, Numbered
<1>5. Ordered'
  <2>1. \A t \in Targets : place'[t] \in Beyond \cup {"gathering", "items"} => t < next'
    BY <1>1, <1>2 DEF Windowed, Ordered
  <2>2. \A t, u \in Targets : win'[t] # 0 /\ place'[u] = "items" => t < u
    BY <1>1, <1>2 DEF Windowed, Ordered
  <2> QED BY <1>1, <2>1, <2>2 DEF Windowed, Ordered
<1>6. /\ \A t : Before(t)' = Before(t) /\ (Full(Before(t))' <=> Full(Before(t)))
      /\ \A w : Of(w)' = Of(w) /\ (Full(Of(w))' <=> Full(Of(w)))
  <2>1. /\ \A t : Before(t)' = Before(t)
        /\ \A w : Of(w)' = Of(w)
    BY <1>1 DEF Before, Of
  <2> QED BY <2>1 DEF Full, Total, Executions, MapThenSumSet, MapThenFoldSet
<1>7. At("gathering")' = {} /\ (Exhausted' <=> Exhausted)
  <2>1. At("gathering")' = {} /\ At("items")' = At("items")
    BY <1>2 DEF At
  <2> QED BY <1>1, <2>1 DEF Exhausted
<1>8. Of(sends + 1) = At("gathering")
  BY <1>3 DEF Of, At, Windowed, Numbered
<1>9. ASSUME NEW w \in 1 .. sends'
      PROVE  Of(w) # {} /\ (Full(Of(w)) \/ (w = sends' /\ Exhausted))
  <2>1. CASE w = sends + 1
    BY <1>1, <1>8, <2>1 DEF WindowDue
  <2>2. CASE w \in 1 .. sends
    BY <1>1, <2>2 DEF WindowDue, Windowed, Budgeted
  <2>3. w = sends + 1 \/ w \in 1 .. sends
    BY <1>1, <1>3
  <2> QED BY <2>1, <2>2, <2>3
<1>10. Budgeted'
  BY <1>1, <1>6, <1>7, <1>9 DEF Windowed, Budgeted
<1> QED BY <1>4, <1>5, <1>10 DEF Windowed

LEMMA GatherWindowed == Typed /\ Windowed /\ Gather => Windowed'
<1> SUFFICES ASSUME Typed, Windowed, Gather PROVE Windowed'
  OBVIOUS
<1>1. CASE GatherEnds
  <2>1. UNCHANGED <<place, win, sends, next, prep>> /\ next \in Nat
    BY <1>1 DEF GatherEnds, preparing, Typed, TypeOK
  <2>2. Exhausted' <=> Exhausted
    BY <2>1 DEF Exhausted, At
  <2>3. Numbered' /\ Budgeted'
    BY <2>1, <2>2, NumbersStay
  <2>4. Ordered'
    BY <2>1, OrderStays
  <2> QED BY <2>3, <2>4 DEF Windowed
<1> QED BY <1>1, TakeWindowed, SendWindowed DEF Gather

LEMMA NextWindowed == Typed /\ Windowed /\ [Next]_vars => Windowed'
<1> SUFFICES ASSUME Typed, Windowed, [Next]_vars PROVE Windowed'
  OBVIOUS
<1>1. CASE Drive \/ SoftStop \/ Cancel \/ UNCHANGED vars
  <2>1. UNCHANGED <<win, sends, next, prep>> /\ next \in Nat
    BY <1>1, DriveMoves DEF SoftStop, Cancel, vars, preparing, gathering, Typed, TypeOK
  <2>2. \A t \in Targets : \/ place'[t] = place[t]
                           \/ place[t] \in Beyond /\ place'[t] \in Beyond
    BY <1>1, DriveMoves, BeyondIs DEF SoftStop, Cancel, vars
  <2>3. At("items")' = At("items")
    BY <2>2, BeyondIs DEF At
  <2>4. Exhausted => Exhausted'
    BY <2>1, <2>3 DEF Exhausted
  <2>5. Numbered' /\ Budgeted'
    BY <2>1, <2>2, <2>4, NumbersStay, BeyondIs
  <2>6. Ordered'
    BY <2>1, <2>2, OrderStays
  <2> QED BY <2>5, <2>6 DEF Windowed
<1> QED BY <1>1, PrepareWindowed, GatherWindowed DEF Next

LEMMA AlwaysWindowed == Spec => [](Typed /\ Windowed)
<1>1. Init => Typed /\ Windowed
  BY InitTyped, InitWindowed
<1>2. (Typed /\ Windowed) /\ [Next]_vars => (Typed /\ Windowed)'
  BY NextTyped, NextWindowed
<1> QED BY <1>1, <1>2, PTL DEF Spec

------------------------------------------------------------------------------
(* The reference partition, computed one target after the other.           *)

Join(p, t) ==
    IF t \notin Emitted THEN p
    ELSE IF p.ts # {} /\ Full(p.ts) THEN [w |-> p.w + 1, ts |-> {t}]
    ELSE [p EXCEPT !.ts = @ \cup {t}]

Parting(f, n) ==
    f = [t \in 0 .. n |-> IF t = 0 THEN [w |-> 1, ts |-> {}] ELSE Join(f[t - 1], t)]

\* A set of numbers below a bound that holds zero, and with each number the
\* next, holds them all: induction without a predicate.
LEMMA AllBelow ==
    ASSUME NEW n \in Nat, NEW S \in SUBSET (0 .. n), 0 \in S,
           \A m \in 0 .. n - 1 : m \in S => m + 1 \in S
    PROVE  S = 0 .. n
<1> SUFFICES ASSUME (0 .. n) \ S # {} PROVE FALSE
  OBVIOUS
<1> DEFINE R == {ss \in Nat \X Nat : ss[1] < ss[2]}
           Missing == (0 .. n) \ S
<1>1. IsWellFoundedOn(R, Nat)
  BY NatLessThanWellFounded, Zenon DEF OpToRel
<1>2. \A m, k \in Nat : m < k => <<m, k>> \in R
  OBVIOUS
<1>3. Missing \in SUBSET Nat /\ Missing # {}
  OBVIOUS
<1> HIDE DEF R, Missing
<1>4. PICK k \in Missing : \A m \in Missing : ~(<<m, k>> \in R)
  BY <1>1, <1>3, WFMin
<1>5. k \in 0 .. n /\ k \notin S
  BY <1>4 DEF Missing
<1>6. k # 0 /\ k - 1 \in 0 .. n - 1 /\ k - 1 \in Nat /\ k \in Nat /\ k - 1 < k
  BY <1>5
<1>7. k - 1 \notin Missing
  BY <1>2, <1>4, <1>6
<1>8. k - 1 \in S
  BY <1>6, <1>7 DEF Missing
<1>9. (k - 1) + 1 = k
  BY <1>6
<1> QED BY <1>5, <1>6, <1>8, <1>9

LEMMA PartingExists == \E f : Parting(f, N)
<1> DEFINE S == {n \in 0 .. N : \E f : Parting(f, n)}
<1>1. N \in Nat
  BY CampaignAssumption
<1>2. 0 \in S
  <2>1. Parting([t \in 0 .. 0 |-> [w |-> 1, ts |-> {}]], 0)
    BY DEF Parting
  <2> QED BY <1>1, <2>1
<1>3. ASSUME NEW m \in 0 .. N - 1, m \in S PROVE m + 1 \in S
  <2>1. PICK f : Parting(f, m)
    BY <1>3
  <2> DEFINE g == [t \in 0 .. m + 1 |-> IF t = m + 1 THEN Join(f[m], m + 1) ELSE f[t]]
  <2>2. DOMAIN f = 0 .. m
    BY <2>1 DEF Parting
  <2>3. ASSUME NEW t \in 0 .. m + 1
        PROVE  g[t] = IF t = 0 THEN [w |-> 1, ts |-> {}] ELSE Join(g[t - 1], t)
    <3>1. CASE t = m + 1
      <4>1. t # 0 /\ t - 1 = m /\ m \in 0 .. m + 1 /\ m # m + 1
        BY <1>1, <3>1
      <4> QED BY <3>1, <4>1
    <3>2. CASE t # m + 1
      <4>1. t \in 0 .. m /\ (t # 0 => t - 1 \in 0 .. m /\ t - 1 # m + 1)
        BY <1>1, <3>2
      <4>2. f[t] = IF t = 0 THEN [w |-> 1, ts |-> {}] ELSE Join(f[t - 1], t)
        BY <2>1, <4>1 DEF Parting
      <4>3. g[t] = f[t] /\ (t # 0 => g[t - 1] = f[t - 1])
        BY <1>1, <3>2, <4>1
      <4> QED BY <4>2, <4>3
    <3> QED BY <3>1, <3>2
  <2>4. g = [t \in 0 .. m + 1 |-> g[t]]
    OBVIOUS
  <2> HIDE DEF g
  <2>5. Parting(g, m + 1)
    BY <2>3, <2>4 DEF Parting
  <2>6. m + 1 \in 0 .. N
    BY <1>1
  <2> QED BY <2>5, <2>6
<1> HIDE DEF S
<1>4. S \in SUBSET (0 .. N)
  BY DEF S
<1>5. S = 0 .. N
  BY <1>1, <1>2, <1>3, <1>4, AllBelow
<1>6. N \in S
  BY <1>1, <1>5
<1> QED BY <1>6 DEF S

LEMMA PartitionIs == \E f : Parting(f, N) /\ Partition = [t \in Targets |-> f[t].w]
<1> DEFINE part == CHOOSE f : Parting(f, N)
<1>1. Parting(part, N)
  BY PartingExists
<1>2. Partition = [t \in Targets |-> part[t].w]
  BY DEF Partition, Parting, Join
<1> QED BY <1>1, <1>2

\* The part the computation has reached at a target, when everything emitted
\* up to it is gathered: the window of the last gathered target, so far.
Reached(p, t) ==
    \/ /\ \A s \in 1 .. t : win[s] = 0
       /\ p = [w |-> 1, ts |-> {}]
    \/ \E m \in 1 .. t :
           /\ win[m] # 0 /\ \A s \in m + 1 .. t : win[s] = 0
           /\ p = [w |-> win[m], ts |-> {u \in 1 .. t : win[u] = win[m]}]

\* Windows are numbered without gaps: the one before a target's is full, and
\* all of it lies before the target.
LEMMA WindowBefore ==
    ASSUME Typed, Windowed, NEW t \in Targets, NEW w \in 1 .. win[t] - 1
    PROVE  /\ \E s \in Of(w) : s < t
           /\ w = win[t] - 1 => Full(Of(w)) /\ \A s \in Of(w) : s < t
<1>1. sends \in Nat /\ \A s \in Targets : s \in Int /\ win[s] \in Nat
  BY CampaignAssumption DEF Typed, TypeOK, Targets
<1>2. win[t] <= sends + 1 /\ w < win[t] /\ w \in 1 .. sends /\ win[t] # 0
  BY <1>1 DEF Windowed, Numbered
<1>3. \A s \in Of(w) : s \in Targets /\ win[s] = w /\ s < t
  <2> SUFFICES ASSUME NEW s \in Of(w) PROVE s \in Targets /\ win[s] = w /\ s < t
    OBVIOUS
  <2>1. s \in Targets /\ win[s] = w /\ w # 0
    BY <1>2 DEF Of
  <2>2. s # t /\ ~(t < s)
    BY <1>1, <1>2, <2>1 DEF Windowed, Ordered
  <2> QED BY <1>1, <2>1, <2>2
<1>4. Of(w) # {}
  BY <1>2 DEF Windowed, Budgeted
<1>5. w = win[t] - 1 => Full(Of(w))
  <2>1. w = win[t] - 1 /\ w = sends => t \in At("gathering")
    BY <1>1, <1>2 DEF Windowed, Numbered, At
  <2> QED BY <1>2, <2>1 DEF Windowed, Budgeted
<1> QED BY <1>3, <1>4, <1>5

LEMMA JoinReaches ==
    ASSUME Typed, Windowed, NEW t \in Targets, NEW p, Reached(p, t - 1),
           t \in Emitted <=> win[t] # 0
    PROVE  Reached(Join(p, t), t)
<1>1. \A s \in Targets : s \in Int /\ win[s] \in Nat
  BY CampaignAssumption DEF Typed, TypeOK, Targets
<1>2. /\ t \in Int /\ t >= 1 /\ t - 1 \in Int
      /\ \A s \in 1 .. t : s \in Targets /\ (s = t \/ s \in 1 .. t - 1)
      /\ \A s \in 1 .. t - 1 : s \in Targets /\ s \in 1 .. t /\ s < t
  <2>1. t \in Int /\ t >= 1 /\ t - 1 \in Int
    BY CampaignAssumption DEF Targets
  <2>2. \A s \in 1 .. t : s \in Targets
    BY CampaignAssumption DEF Targets
  <2>3. \A s \in 1 .. t : s = t \/ s \in 1 .. t - 1
    BY <2>1
  <2>4. \A s \in 1 .. t - 1 : s \in 1 .. t /\ s < t
    BY <2>1
  <2> QED BY <2>1, <2>2, <2>3, <2>4
<1>3. CASE win[t] = 0
  <2>1. Join(p, t) = p
    BY <1>3 DEF Join
  <2>2. CASE (\A s \in 1 .. t - 1 : win[s] = 0) /\ p = [w |-> 1, ts |-> {}]
    BY <1>2, <1>3, <2>1, <2>2 DEF Reached
  <2>3. ASSUME NEW m \in 1 .. t - 1, win[m] # 0, \A s \in m + 1 .. t - 1 : win[s] = 0,
               p = [w |-> win[m], ts |-> {u \in 1 .. t - 1 : win[u] = win[m]}]
        PROVE  Reached(Join(p, t), t)
    <3>1. {u \in 1 .. t - 1 : win[u] = win[m]} = {u \in 1 .. t : win[u] = win[m]}
      BY <1>2, <1>3, <2>3
    <3>2. \A s \in m + 1 .. t : win[s] = 0
      BY <1>2, <1>3, <2>3
    <3>3. m \in 1 .. t
      BY <1>2
    <3> QED BY <2>1, <2>3, <3>1, <3>2, <3>3 DEF Reached
  <2> QED BY <2>2, <2>3 DEF Reached
<1>4. CASE win[t] # 0
  <2> SUFFICES Join(p, t) = [w |-> win[t], ts |-> {u \in 1 .. t : win[u] = win[t]}]
    <3>1. t \in 1 .. t /\ \A s \in t + 1 .. t : win[s] = 0
      BY <1>2
    <3> QED BY <1>4, <3>1 DEF Reached
  <2>1. Join(p, t) = IF p.ts # {} /\ Full(p.ts) THEN [w |-> p.w + 1, ts |-> {t}]
                     ELSE [p EXCEPT !.ts = @ \cup {t}]
    BY <1>4 DEF Join
  <2>2. CASE (\A s \in 1 .. t - 1 : win[s] = 0) /\ p = [w |-> 1, ts |-> {}]
    <3>1. win[t] = 1
      <4> SUFFICES ASSUME win[t] # 1 PROVE FALSE
        OBVIOUS
      <4>1. win[t] - 1 \in 1 .. win[t] - 1
        BY <1>1, <1>4
      <4>2. PICK s \in Of(win[t] - 1) : s < t
        BY <4>1, WindowBefore
      <4>3. s \in 1 .. t - 1 /\ win[s] = win[t] - 1
        BY <1>2, <4>2, CampaignAssumption DEF Of, Targets
      <4> QED BY <2>2, <4>1, <4>3
    <3>2. {u \in 1 .. t : win[u] = win[t]} = {t}
      BY <1>2, <1>4, <2>2
    <3> QED BY <2>1, <2>2, <3>1, <3>2
  <2>3. ASSUME NEW m \in 1 .. t - 1, win[m] # 0, \A s \in m + 1 .. t - 1 : win[s] = 0,
               p = [w |-> win[m], ts |-> {u \in 1 .. t - 1 : win[u] = win[m]}]
        PROVE  Join(p, t) = [w |-> win[t], ts |-> {u \in 1 .. t : win[u] = win[t]}]
    <3>1. m \in Targets /\ m \in Int /\ m < t /\ win[m] \in Nat /\ win[t] \in Nat
      BY <1>1, <1>2
    <3>2. win[m] <= win[t]
      BY <1>4, <2>3, <3>1 DEF Windowed, Ordered
    <3>3. m \in p.ts
      BY <2>3
    <3>4. CASE win[t] = win[m]
      <4>1. p.ts = Before(t)
        <5>1. \A u \in Targets : u < t <=> u \in 1 .. t - 1
          BY <1>2 DEF Targets
        <5> QED BY <1>2, <2>3, <3>4, <5>1 DEF Before
      <4>2. ~Full(p.ts)
        BY <1>4, <3>3, <4>1 DEF Windowed, Budgeted
      <4>3. {u \in 1 .. t : win[u] = win[t]} = p.ts \cup {t}
        BY <1>2, <2>3, <3>4
      <4>4. [p EXCEPT !.ts = @ \cup {t}] = [w |-> win[t], ts |-> p.ts \cup {t}]
        <5>1. PICK S : S = {u \in 1 .. t - 1 : win[u] = win[m]}
          OBVIOUS
        <5>2. p = [w |-> win[m], ts |-> S] /\ p.ts = S
          BY <2>3, <5>1
        <5>3. [[w |-> win[m], ts |-> S] EXCEPT !.ts = @ \cup {t}] = [w |-> win[m], ts |-> S \cup {t}]
          OBVIOUS
        <5> QED BY <3>4, <5>2, <5>3
      <4> QED BY <2>1, <4>2, <4>3, <4>4
    <3>5. CASE win[t] # win[m]
      <4>1. win[t] = win[m] + 1
        <5> SUFFICES ASSUME win[m] + 1 < win[t] PROVE FALSE
          BY <3>1, <3>2, <3>5
        <5>1. win[m] + 1 \in 1 .. win[t] - 1
          BY <3>1
        <5>2. PICK s \in Of(win[m] + 1) : s < t
          BY <5>1, WindowBefore
        <5>3. s \in Targets /\ win[s] = win[m] + 1 /\ s \in 1 .. t - 1
          BY <1>2, <5>2, CampaignAssumption DEF Of, Targets
        <5>4. ~(s < m) /\ s # m
          BY <2>3, <3>1, <5>3, <1>1 DEF Windowed, Ordered
        <5>5. s \in m + 1 .. t - 1
          BY <3>1, <5>3, <5>4
        <5> QED BY <2>3, <3>1, <5>3, <5>5
      <4>2. win[m] \in 1 .. win[t] - 1 /\ win[m] = win[t] - 1
        BY <2>3, <3>1, <4>1
      <4>3. Full(Of(win[m])) /\ \A s \in Of(win[m]) : s < t
        BY <4>2, WindowBefore
      <4>4. Of(win[m]) = p.ts
        <5>1. \A u \in Targets : u < t <=> u \in 1 .. t - 1
          BY <1>2 DEF Targets
        <5> QED BY <1>2, <2>3, <4>3, <5>1 DEF Of
      <4>5. {u \in 1 .. t : win[u] = win[t]} = {t}
        <5>1. ASSUME NEW u \in 1 .. t - 1 PROVE win[u] # win[t]
          <6>1. u \in Targets /\ u \in Int
            BY <1>1, <1>2
          <6>2. CASE u > m
            <7>1. u \in m + 1 .. t - 1
              BY <3>1, <6>1, <6>2
            <7> QED BY <1>4, <2>3, <7>1
          <6>3. CASE u <= m
            <7>1. win[u] # 0 => win[u] <= win[m]
              BY <1>1, <2>3, <3>1, <6>1, <6>3 DEF Windowed, Ordered
            <7> QED BY <1>1, <1>4, <3>1, <4>1, <6>1, <7>1
          <6> QED BY <3>1, <6>1, <6>2, <6>3
        <5> QED BY <1>2, <5>1
      <4> QED BY <2>1, <2>3, <3>3, <4>1, <4>3, <4>4, <4>5
    <3> QED BY <3>4, <3>5
  <2> QED BY <2>2, <2>3 DEF Reached
<1> QED BY <1>3, <1>4

\* Window membership is a function of what was emitted and of the budgets:
\* whatever the interleaving of the walk, the gatherer, the driver and the
\* caller's interrupts, each gathered target is in the window the partition
\* computed from the targets in order gives it.
THEOREM WindowsAreFixed == Spec => []WindowsFixed
<1>1. ASSUME Typed, Windowed, NEW t \in Targets, win[t] # 0
      PROVE  win[t] = Partition[t]
  <2>1. PICK part : Parting(part, N) /\ Partition = [s \in Targets |-> part[s].w]
    BY PartitionIs
  <2>2. t \in Nat /\ t \in 1 .. N /\ N \in Nat /\ win[t] \in Nat
    BY <1>1, CampaignAssumption DEF Targets, Typed, TypeOK
  <2>3. \A s \in 1 .. t : s \in Targets /\ (s \in Emitted <=> win[s] # 0)
    <3> TAKE s \in 1 .. t
    <3>1. s \in Targets /\ s \in Int /\ s <= t
      BY <2>2 DEF Targets
    <3>2. s \in Emitted <=> place[s] \in Beyond \cup {"gathering", "items"}
      BY <3>1 DEF Emitted, In, InPool, Beyond, Onward
    <3>3. place[s] # "items"
      BY <1>1, <2>2, <3>1 DEF Windowed, Ordered
    <3> QED BY <1>1, <3>1, <3>2, <3>3 DEF Windowed, Numbered
  <2> DEFINE S == {n \in 0 .. t : Reached(part[n], n)}
  <2>4. 0 \in S
    BY <2>1, <2>2 DEF Parting, Reached
  <2>5. ASSUME NEW n \in 0 .. t - 1, n \in S PROVE n + 1 \in S
    <3>1. n + 1 \in 1 .. t /\ n + 1 \in 0 .. N /\ (n + 1) - 1 = n /\ n + 1 # 0 /\ n + 1 \in 0 .. t
      BY <2>2
    <3>2. part[n + 1] = Join(part[n], n + 1)
      BY <2>1, <3>1 DEF Parting
    <3>3. Reached(part[n], (n + 1) - 1)
      BY <2>5, <3>1
    <3>4. Reached(Join(part[n], n + 1), n + 1)
      BY <1>1, <2>3, <3>1, <3>3, JoinReaches
    <3> QED BY <3>1, <3>2, <3>4
  <2> HIDE DEF S
  <2>6. S = 0 .. t
    <3>1. S \in SUBSET (0 .. t)
      BY DEF S
    <3> QED BY <2>2, <2>4, <2>5, <3>1, AllBelow
  <2>7. Reached(part[t], t)
    BY <2>2, <2>6 DEF S
  <2>8. part[t].w = win[t]
    <3>1. t \in 1 .. t
      BY <2>2
    <3>2. PICK m \in 1 .. t : /\ win[m] # 0 /\ \A s \in m + 1 .. t : win[s] = 0
                              /\ part[t].w = win[m]
      <4>1. ~\A s \in 1 .. t : win[s] = 0
        BY <1>1, <3>1
      <4>2. PICK m \in 1 .. t :
                /\ win[m] # 0 /\ \A s \in m + 1 .. t : win[s] = 0
                /\ part[t] = [w |-> win[m], ts |-> {u \in 1 .. t : win[u] = win[m]}]
        BY <2>7, <4>1 DEF Reached
      <4>3. part[t].w = win[m]
        BY <4>2
      <4> QED BY <4>2, <4>3
    <3>3. m = t \/ t \in m + 1 .. t
      BY <2>2
    <3> QED BY <1>1, <3>2, <3>3
  <2> QED BY <2>1, <2>8
<1>2. Typed /\ Windowed => WindowsFixed
  BY <1>1 DEF WindowsFixed
<1> QED BY <1>2, AlwaysWindowed, PTL
==============================================================================
