------------------------------- MODULE Campaign -------------------------------
(***************************************************************************)
(* One measuring run, target by target (src/run.go, src/schedule.go): a    *)
(* preparation goroutine walks the targets in order, a gatherer groups     *)
(* what it emits into windows, and the driver executes the cheapest ready  *)
(* window, holds it, and folds it into findings when the next one is in    *)
(* hand.  A soft stop drains the window under execution, a cancelled       *)
(* context ends everything, and every step may fail.                       *)
(*                                                                         *)
(* Both channels are first in, first out and filled in target order, so a  *)
(* channel is the set of targets placed in it, and windows are told apart  *)
(* by number: arrival order is numeric order.  What happens inside a       *)
(* window is module Window's.                                              *)
(***************************************************************************)
EXTENDS Naturals, FiniteSets, FiniteSetsExt

CONSTANTS
    N,                \* targets, in run order
    Size, Tests,      \* candidates of a target, tests of its oracle
    Cost,             \* projected cost of a target, or Unpriced
    Unpriced,
    Units, Unit,      \* proof units; the unit of a target
    Ceiling, Minimum, ExecutionBudget  \* windowcost's membership bounds

Targets == 1 .. N

ASSUME CampaignAssumption ==
    /\ N \in Nat
    /\ Size \in [Targets -> Nat] /\ Tests \in [Targets -> Nat]
    /\ Unpriced \notin Nat /\ Cost \in [Targets -> Nat \cup {Unpriced}]
    /\ Unit \in [Targets -> Units]
    /\ Ceiling \in Nat /\ Minimum \in Nat /\ ExecutionBudget \in Nat

VARIABLES
    place,     \* where each target is
    win,       \* number of the window it was gathered into
    next,      \* the walk's target
    prep,      \* the preparation goroutine
    prepErr,   \* what it returned
    proofs,    \* units whose proofs were built
    remaining, \* targets a unit still waits for
    done,      \* targets that reached a terminal disposition
    gatherer,  \* the gathering goroutine
    sends,     \* windows it sent
    driver,    \* the driver's place in its loop
    then,      \* what it does once the held window is folded
    open,      \* it has not seen the window channel closed
    whole,     \* it last looked after preparation was over
    stop,      \* SoftStop fired
    cancelled, \* the run's context is cancelled
    verdict    \* what Run returns

preparing == <<next, prep, prepErr, proofs>>
unit      == <<remaining, done>>
driving   == <<driver, then, open, whole, verdict>>
outside   == <<stop, cancelled>>
gathering == <<gatherer, sends>>
vars == <<place, win, preparing, unit, gathering, driving, outside>>

InPool   == {"items", "gathering", "sent", "pool", "hand"}
Held     == {"measured", "cut", "void"}
Measured == {"committed", "capped", "discarded", "drifted"}
Settled  == {"skipped", "refused", "cached"}
Terminal == Measured \cup Settled
Places   == {"ahead"} \cup InPool \cup Held \cup Terminal

PrepPlaces   == {"deciding", "proved", "closed", "done"}
DriverPlaces == {"top", "look", "drain", "sweep", "check", "fold", "execute",
                 "running", "epilogue", "finish", "join", "returned"}
Verdicts     == {"none", "ok", "drift", "truncated", "interrupted", "cancelled",
                 "failed", "prepFailed"}

At(p)   == {t \in Targets : place[t] = p}
In(ps)  == {t \in Targets : place[t] \in ps}

\* The windows at a place, and the targets of one.
Wins(p)      == {win[t] : t \in At(p)}
Window(p, w) == {t \in At(p) : win[t] = w}

First(x, xs) == x \in xs /\ \A y \in xs : x <= y

Move(ts, p) == place' = [t \in Targets |-> IF t \in ts THEN p ELSE place[t]]

\* Targets settled at resolution belong to no unit.
Init ==
    /\ \E skipped \in SUBSET Targets :
           place = [t \in Targets |-> IF t \in skipped THEN "skipped" ELSE "ahead"]
    /\ win = [t \in Targets |-> 0]
    /\ next = 1
    /\ prep = "deciding"
    /\ prepErr = "none"
    /\ proofs = {}
    /\ remaining = [u \in Units |->
           Cardinality({t \in Targets : place[t] = "ahead" /\ Unit[t] = u})]
    /\ done = {}
    /\ gatherer = "running"
    /\ sends = 0
    /\ driver = "top"
    /\ then = "execute"
    /\ open = TRUE
    /\ whole = FALSE
    /\ stop = FALSE
    /\ cancelled = FALSE
    /\ verdict = "none"

------------------------------------------------------------------------------
(* The proof units.                                                        *)

\* Mutant of TargetDone: the unit counts calls, not targets.
TargetDoneEachCall(t, calls) ==
    /\ remaining' = [remaining EXCEPT ![Unit[t]] = @ - calls]
    /\ done' = done \cup {t}

\* targetDone, called that many times: once per target, and the unit
\* releases its proofs at its last.
TargetDone(t, calls) ==
    /\ remaining' = [remaining EXCEPT ![Unit[t]] = IF t \in done THEN @ ELSE @ - 1]
    /\ done' = done \cup {t}

------------------------------------------------------------------------------
(* The preparation goroutine (deliverPrepared, prepareTarget).             *)

\* The walk is at a target of its own.
Walking == prep \in {"deciding", "proved"} /\ next \in Targets /\ place[next] = "ahead"

\* The goroutine's context: cancelled from outside, or by the driver's join.
RunCancelled == cancelled \/ driver = "join"

\* A resolve-phase skip only streams its decision.
PassSettled ==
    /\ prep = "deciding" /\ next \in Targets /\ place[next] = "skipped"
    /\ next' = next + 1
    /\ UNCHANGED <<place, win, prep, prepErr, proofs, unit, gathering, driving, outside>>

\* The target ends in preparation.
Settle(fate, calls) ==
    /\ Walking
    /\ Move({next}, fate)
    /\ TargetDone(next, calls)
    /\ next' = next + 1
    /\ prep' = "deciding"
    /\ UNCHANGED <<win, prepErr, proofs, gathering, driving, outside>>

\* skipTarget: an unavailable proof, a failing baseline.
PrepareSkips == Settle("skipped", 1)

\* refuseSkipped: refuseTarget and skipTarget both report the target done.
PrepareRefuses == Settle("refused", 2)

\* A wholesale cached serve, before any proof is paid for; commitFinding
\* asks for the context first.
PrepareServes == prep = "deciding" /\ ~RunCancelled /\ Settle("cached", 1)

\* buildProofUnit at the unit's first measured target.
PrepareProves ==
    /\ Walking /\ prep = "deciding"
    /\ proofs' = proofs \cup {Unit[next]}
    /\ prep' = "proved"
    /\ UNCHANGED <<place, win, next, prepErr, unit, gathering, driving, outside>>

\* The target's work is ready; the channel has room for every target.
PrepareEmits ==
    /\ Walking /\ prep = "proved"
    /\ Move({next}, "items")
    /\ next' = next + 1
    /\ prep' = "deciding"
    /\ UNCHANGED <<win, prepErr, proofs, unit, gathering, driving, outside>>

\* The goroutine returns and closes the item channel.
PrepReturns(err) ==
    /\ prepErr' = err
    /\ prep' = "closed"
    /\ UNCHANGED <<place, win, next, proofs, unit, gathering, driving, outside>>

WalkEnds == prep = "deciding" /\ next = N + 1 /\ PrepReturns("none")

\* An error that is the campaign's: a union, a commit, a re-enumeration.
PrepareFails == Walking /\ PrepReturns("failed")

\* The evidence check of a budget extension fails.
ExtensionCheckFails == Walking /\ prep = "deciding" /\ PrepReturns("evidence")

PrepareCancelled ==
    /\ prep \in {"deciding", "proved"} /\ RunCancelled
    /\ PrepReturns("cancelled")

\* Mutant of PrepDone: an error's return leaves prepDone open.
PrepDoneOnSuccess ==
    /\ prep = "closed" /\ prepErr = "none"
    /\ prep' = "done"
    /\ UNCHANGED <<place, win, next, prepErr, proofs, unit, gathering, driving, outside>>

\* close(prepDone).
PrepDone ==
    /\ prep = "closed"
    /\ prep' = "done"
    /\ UNCHANGED <<place, win, next, prepErr, proofs, unit, gathering, driving, outside>>

Prepare ==
    \/ PassSettled \/ PrepareSkips \/ PrepareRefuses \/ PrepareServes
    \/ PrepareProves \/ PrepareEmits
    \/ WalkEnds \/ PrepareFails \/ ExtensionCheckFails \/ PrepareCancelled
    \/ PrepDone

------------------------------------------------------------------------------
(* The gatherer (gatherWindow).                                            *)

Total(ts)      == MapThenSumSet(LAMBDA t : Size[t], ts)
Executions(ts) == MapThenSumSet(LAMBDA t : Size[t] * Tests[t], ts)

\* The budget rule that closes a window.
Full(ts) ==
    \/ Total(ts) >= Ceiling
    \/ Executions(ts) >= ExecutionBudget /\ Total(ts) >= Minimum

\* Nothing more will come through the item channel.
Exhausted == prep \in {"closed", "done"} /\ At("items") = {}

\* The next item joins the window under way.
GatherTake(t) ==
    /\ gatherer = "running" /\ First(t, At("items"))
    /\ At("gathering") = {} \/ ~Full(At("gathering"))
    /\ Move({t}, "gathering")
    /\ win' = [win EXCEPT ![t] = sends + 1]
    /\ UNCHANGED <<preparing, unit, gathering, driving, outside>>

\* Mutant of WindowDue: what is buffered makes a window.
WindowDueNow == At("gathering") # {} /\ (Full(At("gathering")) \/ At("items") = {})

\* The gather blocks until its budget is met or preparation ends.
WindowDue == At("gathering") # {} /\ (Full(At("gathering")) \/ Exhausted)

WindowCapacity == N

GatherSend ==
    /\ gatherer = "running" /\ WindowDue
    /\ Cardinality(Wins("sent")) < WindowCapacity
    /\ Move(At("gathering"), "sent")
    /\ sends' = sends + 1
    /\ UNCHANGED <<win, preparing, unit, gatherer, driving, outside>>

\* close(windowCh).
GatherEnds ==
    /\ gatherer = "running" /\ At("gathering") = {} /\ Exhausted
    /\ gatherer' = "ended"
    /\ UNCHANGED <<place, win, preparing, unit, sends, driving, outside>>

Gather == (\E t \in Targets : GatherTake(t)) \/ GatherSend \/ GatherEnds

------------------------------------------------------------------------------
(* The driver: receiving and picking.                                      *)

Drives(from, to) ==
    /\ driver = from
    /\ driver' = to
    /\ UNCHANGED <<win, preparing, gathering, outside>>

\* Receive the first window of the channel into the pool.
Receive ==
    \E w \in Wins("sent") : First(w, Wins("sent")) /\ Move(Window("sent", w), "pool")

Closed == gatherer = "ended" /\ At("sent") = {}

\* Mutant of Ended: an empty channel is taken for a closed one.
EndedIfEmpty == ~open \/ At("sent") = {}

\* No window will come any more.
Ended == ~open \/ Closed

\* With an empty pool the driver blocks for a window ...
TopReceive ==
    /\ At("pool") = {} /\ open
    /\ Receive
    /\ Drives("top", "look")
    /\ UNCHANGED <<unit, then, open, whole, verdict>>

\* ... or leaves the loop; with one it goes on.
TopPasses ==
    /\ \/ At("pool") = {} /\ Ended /\ Drives("top", "epilogue")
       \/ At("pool") # {} /\ Drives("top", IF open THEN "look" ELSE "check")
    /\ UNCHANGED <<place, unit, then, open, whole, verdict>>

\* Preparation over, every remaining window is waited for; otherwise what is
\* ready is taken.
LookTo == IF prep = "done" THEN "drain" ELSE "sweep"

Look ==
    /\ Drives("look", LookTo)
    /\ whole' = (prep = "done")
    /\ UNCHANGED <<place, unit, then, open, verdict>>

LookReceives ==
    /\ Receive
    /\ driver \in {"drain", "sweep"} /\ Drives(driver, driver)
    /\ UNCHANGED <<unit, then, open, whole, verdict>>

LookEnds ==
    /\ driver \in {"drain", "sweep"} /\ At("sent") = {}
    /\ driver = "drain" => Closed
    /\ Drives(driver, "check")
    /\ open' = ~Closed
    /\ UNCHANGED <<place, unit, then, whole, verdict>>

\* The pick: priced before unpriced, cheaper before dearer, ties by arrival.
Of(w)     == {t \in Targets : win[t] = w}
Priced(w) == \A t \in Of(w) : Cost[t] # Unpriced
Price(w)  == MapThenSumSet(LAMBDA t : Cost[t], Of(w))

Cheaper(v, w) == Priced(v) /\ (Priced(w) => Price(v) < Price(w))

Goes(v, w) == v = w \/ Cheaper(v, w) \/ (v < w /\ ~Cheaper(w, v))

\* Leave the loop with a verdict; the deferred join cancels and waits.
Leave(v) ==
    /\ driver' = "join"
    /\ verdict' = v
    /\ UNCHANGED <<win, preparing, gathering, then, open, whole, outside>>

\* A failed preparation surfaces before the next window executes.
CheckFails ==
    /\ prep = "done" /\ prepErr # "none"
    /\ Drives("check", "fold")
    /\ then' = "prepFailed"
    /\ UNCHANGED <<place, unit, open, whole, verdict>>

\* nextReadyWindow's pick comes out of the pool.
CheckPicks(v) ==
    /\ ~(prep = "done" /\ prepErr # "none")
    /\ v \in Wins("pool") /\ \A w \in Wins("pool") : Goes(v, w)
    /\ Drives("check", "fold")
    /\ then' = "execute"
    /\ Move(Window("pool", v), "hand")
    /\ UNCHANGED <<unit, open, whole, verdict>>

------------------------------------------------------------------------------
(* The driver: folding the held window into findings (aggregateWindow).    *)

\* Targets of the held window fold in order.
Folding(t) == driver = "fold" /\ First(t, In(Held))

Fold(t, fate) ==
    /\ Move({t}, fate)
    /\ TargetDone(t, 1)
    /\ UNCHANGED <<win, preparing, gathering, driving, outside>>

\* commitAndAttribute: the finding is persisted.
FoldCommits(t) ==
    /\ Folding(t) /\ ~cancelled
    /\ \/ place[t] = "measured" /\ Fold(t, "committed")
       \/ place[t] = "cut" /\ Fold(t, "capped")

\* A work the drain discarded whole.
FoldDiscards(t) == Folding(t) /\ place[t] = "void" /\ Fold(t, "discarded")

\* Its evidence moved since: refused alone, its siblings go on.
FoldRefuses(t) == Folding(t) /\ ~cancelled /\ place[t] # "void" /\ Fold(t, "drifted")

\* A commit fails, or the context is found cancelled.
FoldFails(t) ==
    /\ Folding(t) /\ place[t] # "void"
    /\ Leave("failed") \/ (cancelled /\ Leave("cancelled"))
    /\ UNCHANGED <<place, unit>>

\* Mutant of Folded: the held window is dropped instead of folded.
FoldedDropped == driver = "fold"

Folded == driver = "fold" /\ In(Held) = {}

FoldEnds ==
    /\ Folded
    /\ UNCHANGED <<place, unit>>
    /\ \/ /\ then \in {"execute", "finish"}
          /\ Drives("fold", then)
          /\ UNCHANGED <<then, open, whole, verdict>>
       \/ /\ then \in {"prepFailed", "interrupted"}
          /\ Leave(then)

------------------------------------------------------------------------------
(* The driver: executing a window, and the end of the run.                 *)

\* A stop that fired before the dispatch drains at the first candidate.
ExecuteStarts ==
    LET offered == {t \in At("hand") : Size[t] > 0}
    IN  /\ UNCHANGED <<unit, open, whole, verdict>>
        /\ IF stop /\ ~cancelled /\ offered # {}
           THEN /\ Drives("execute", "fold")
                /\ then' = "interrupted"
                /\ place' = [t \in Targets |->
                       IF place[t] # "hand" THEN place[t]
                       ELSE IF t < Min(offered) THEN "measured" ELSE "void"]
           ELSE /\ Drives("execute", "running")
                /\ UNCHANGED <<place, then>>

ExecuteAll ==
    /\ ~cancelled
    /\ Drives("running", "top")
    /\ Move(At("hand"), "measured")
    /\ UNCHANGED <<unit, then, open, whole, verdict>>

\* The stop fires at work b: works before it are handled whole, b keeps its
\* measured prefix unless that is empty or not committable, the rest goes.
ExecuteDrains(b, kept) ==
    /\ stop /\ ~cancelled /\ b \in At("hand") /\ Size[b] > 0
    /\ kept = "cut" => Size[b] > 1
    /\ Drives("running", "fold")
    /\ then' = "interrupted"
    /\ place' = [t \in Targets |->
           IF place[t] # "hand" THEN place[t]
           ELSE IF t < b THEN "measured" ELSE IF t = b THEN kept ELSE "void"]
    /\ UNCHANGED <<unit, open, whole, verdict>>

\* An execution fails, or the context is cancelled under it.
ExecuteFails ==
    /\ driver = "running"
    /\ Leave("failed") \/ (cancelled /\ Leave("cancelled"))
    /\ UNCHANGED <<place, unit>>

Execute ==
    \/ ExecuteStarts \/ ExecuteAll \/ ExecuteFails
    \/ \E b \in Targets, kept \in {"cut", "void"} : ExecuteDrains(b, kept)

\* Past the loop: preparation is joined, and its error surfaces or every
\* producer is validated against the tree before the last fold.
Epilogue ==
    /\ prep = "done"
    /\ \/ /\ Drives("epilogue", "fold")
          /\ then' = IF prepErr = "none" THEN "finish" ELSE "prepFailed"
          /\ UNCHANGED <<open, whole, verdict>>
       \/ /\ driver = "epilogue" /\ cancelled /\ prepErr = "none"
          /\ Leave("cancelled")
    /\ UNCHANGED <<place, unit>>

\* Run's result: every announced target is measured, served, skipped or
\* named as drifted, and a tree drift no target showed is reported too.
Results ==
    IF cancelled THEN {"cancelled"}
    ELSE IF In({"skipped", "cached", "committed", "refused", "drifted"}) # Targets
    THEN {"truncated"}
    ELSE IF In({"refused", "drifted"}) # {} THEN {"drift"} ELSE {"ok", "drift"}

Finish ==
    /\ driver = "finish"
    /\ \E v \in Results : Leave(v)
    /\ UNCHANGED <<place, unit>>

Joined == driver = "join" /\ prep = "done"

Returns ==
    /\ Joined
    /\ driver' = "returned"
    /\ UNCHANGED <<place, win, preparing, unit, gathering, then, open, whole, verdict, outside>>

Drive ==
    \/ TopReceive \/ TopPasses \/ Look \/ LookReceives \/ LookEnds
    \/ CheckFails \/ (\E v \in Wins("pool") : CheckPicks(v))
    \/ \E t \in Targets : FoldCommits(t) \/ FoldDiscards(t) \/ FoldRefuses(t) \/ FoldFails(t)
    \/ FoldEnds \/ Execute \/ Epilogue \/ Finish \/ Returns

------------------------------------------------------------------------------

\* The caller's two interrupts.  Only a dispatch reads the soft stop, so one
\* that fired earlier is one that fires as the next window starts; past the
\* loop neither changes anything.
SoftStop ==
    /\ ~stop /\ driver \in {"execute", "running"}
    /\ stop' = TRUE
    /\ UNCHANGED <<place, win, preparing, unit, gathering, driving, cancelled>>

Cancel ==
    /\ ~cancelled /\ driver \notin {"join", "returned"}
    /\ cancelled' = TRUE
    /\ UNCHANGED <<place, win, preparing, unit, gathering, driving, stop>>

\* Nothing is left to do.
Over == driver = "returned" /\ gatherer = "ended"

Next == Prepare \/ Gather \/ Drive \/ SoftStop \/ Cancel

Spec == Init /\ [][Next]_vars

\* The scheduler runs some goroutine while one can run; nothing is assumed
\* of which, nor of the caller's interrupts.
FairSpec == Spec /\ WF_vars(Prepare \/ Gather \/ Drive)

------------------------------------------------------------------------------

TypeOK ==
    /\ place \in [Targets -> Places]
    /\ win \in [Targets -> Nat]
    /\ next \in 1 .. N + 1
    /\ prep \in PrepPlaces
    /\ prepErr \in {"none", "failed", "evidence", "cancelled"}
    /\ proofs \subseteq Units
    /\ remaining \in [Units -> 0 .. N]
    /\ done \subseteq Targets
    /\ gatherer \in {"running", "ended"}
    /\ sends \in Nat
    /\ driver \in DriverPlaces
    /\ then \in {"execute", "finish", "prepFailed", "interrupted"}
    /\ open \in BOOLEAN /\ whole \in BOOLEAN
    /\ stop \in BOOLEAN /\ cancelled \in BOOLEAN
    /\ verdict \in Verdicts

\* Targets whose proof is built or whose work is anywhere in the pipeline.
Standing == In(InPool \cup Held) \cup {t \in {next} : prep = "proved"}

\* Whoever stands finds its unit's proofs, and a unit whose targets are all
\* disposed of keeps nothing: a unit releases its proofs at its last target's
\* disposition, whichever goroutine reports it and however often (targetDone).
ProofsCounted ==
    /\ \A t \in Standing : Unit[t] \in proofs /\ remaining[Unit[t]] > 0
    /\ \A u \in Units :
           (\A t \in Targets : Unit[t] = u => place[t] \in Terminal)
               => remaining[u] = 0

\* A crash costs one window's verdicts: while a window executes, every
\* window executed before it is folded (REQ-exec-cancellation's incremental
\* commit).
OneWindowAtRisk == driver \in {"execute", "running"} => In(Held) = {}

\* A later preparation failure, an interrupt, a drift or the end of the run
\* never discards what was measured (REQ-exec-attribution).
MeasuredIsFolded ==
    driver \in {"join", "returned"} /\ verdict \notin {"cancelled", "failed"}
        => In(Held) = {}

\* What was measured and not yet stored: a crash costs one window of it, and
\* no exit but a cancellation or a failed store costs any.
HeldWindowSafe == OneWindowAtRisk /\ MeasuredIsFolded

\* The pipeline never loses a target silently (REQ-exec-completion): the
\* last check of the run has nothing to catch.
NeverTruncated == verdict # "truncated"

\* The reference partition: the targets that reached the gatherer, in order,
\* each opening a window when the one before is full.
Emitted == In(InPool \cup Held \cup Measured)

Partition ==
    LET part[t \in 0 .. N] ==
            IF t = 0 THEN [w |-> 1, ts |-> {}]
            ELSE LET p == part[t - 1]
                 IN  IF t \notin Emitted THEN p
                     ELSE IF p.ts # {} /\ Full(p.ts)
                     THEN [w |-> p.w + 1, ts |-> {t}]
                     ELSE [p EXCEPT !.ts = @ \cup {t}]
    IN  [t \in Targets |-> part[t].w]

\* Window membership is a function of the emitted targets and the budget
\* rule, however the goroutines interleave (REQ-exec-oracle-run).
WindowsFixed ==
    LET partition == Partition
    IN  \A t \in Targets : win[t] # 0 => win[t] = partition[t]

\* Once preparation is over the cheapest remaining window always goes first,
\* wherever in the pipeline it was.
CheapestFirst ==
    [][\A v \in Wins("pool") : whole /\ CheckPicks(v)
         => \A w \in Wins("pool") \cup Wins("sent") \cup Wins("gathering") :
                Goes(v, w)]_vars

\* No callback fires after Run returned.
QuietAfterReturn == [][driver = "returned" => UNCHANGED <<preparing, unit>>]_vars

\* The gatherer never blocks behind execution: there is room for whatever
\* window it has, so the ready pool deepens while a long window runs and no
\* goroutine is left sending after an early return.
GatherNeverBlocks == WindowDue => Cardinality(Wins("sent")) < WindowCapacity

\* The run returns whatever fails, stops or is cancelled, and leaves no
\* goroutine behind.
RunEnds == <>Over
==============================================================================
