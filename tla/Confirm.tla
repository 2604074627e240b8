------------------------------- MODULE Confirm -------------------------------
(***************************************************************************)
(* Serial confirmation of the kills of one execution window                *)
(* (confirmWindowKills and confirmationGate, src/schedule.go).             *)
(*                                                                         *)
(* Workers score the mutants of a window concurrently, so a kill may be an *)
(* artefact of the shared load.  The window's kills are walked in target   *)
(* order, candidates in order within a target, under one stride gate per   *)
(* target: an armed gate re-runs every kill serially, an unarmed one       *)
(* re-runs every ConfirmStride-th and skips the rest.  Evidence of a       *)
(* collision takes the sampling back: a flip un-samples the whole window,  *)
(* unverifiable serial evidence un-samples its own target.                 *)
(*                                                                         *)
(* A kill is its position in the walk.  What a serial run returns is the   *)
(* environment's choice; which kills are re-run is the algorithm's.        *)
(***************************************************************************)
EXTENDS Naturals, Sequences, FiniteSets

CONSTANTS
    NKills,         \* confirmable kills of the window
    NTargets,       \* targets of the window
    ConfirmStreak,  \* reproductions that disarm a gate
    ConfirmStride   \* sampling stride of a disarmed gate

ASSUME ConfirmAssumption ==
    /\ NKills \in Nat
    /\ NTargets \in Nat
    /\ ConfirmStreak \in Nat
    /\ ConfirmStride \in Nat \ {0}

Kills   == 1 .. NKills
Targets == 1 .. NTargets

Outcomes == {"reproduced", "flipped", "inconclusive"}

VARIABLES
    targetOf,       \* the walk: the target of each kill, in target order
    pos,            \* next kill of the walk
    gates,          \* per-target gate; made is FALSE before gateFor built it
    windowFlipped,  \* a demonstrated collision, shared by every gate
    skipped,        \* stride-skipped kills, in walk order
    queue,          \* FIFO of batches; a batch drains in walk order
    confirmed,      \* serial outcome per kill, "none" before its re-run
    pc              \* "walk" until the walk returns: "done" or "failed"

confirmVars == <<targetOf, pos, gates, windowFlipped, skipped, queue, confirmed, pc>>

Gate == [made : BOOLEAN, volatile : BOOLEAN, streak : Nat,
         sinceSample : 0 .. ConfirmStride - 1, flipped : BOOLEAN]

NoGate == [made |-> FALSE, volatile |-> FALSE, streak |-> 0,
           sinceSample |-> 0, flipped |-> FALSE]

\* Kills walk targets in order, candidates in order within each.
InTargetOrder(f) == \A i, j \in Kills : i <= j => f[i] <= f[j]

ConfirmInit ==
    /\ targetOf \in {f \in [Kills -> Targets] : InTargetOrder(f)}
    /\ pos = 1
    /\ gates = [t \in Targets |-> NoGate]
    /\ windowFlipped = FALSE
    /\ skipped = {}
    /\ queue = <<>>
    /\ confirmed = [k \in Kills |-> "none"]
    /\ pc = "walk"

\* Mutant of GateFor: a new gate is not seeded with the window's flip.
GateForUnseeded(t, volatile) ==
    IF gates[t].made
    THEN gates[t]
    ELSE [made |-> TRUE, volatile |-> volatile, streak |-> 0,
          sinceSample |-> 0, flipped |-> FALSE]

\* gateFor: the target's gate, built on first use from the window's
\* evidence (volatile is the evidence's answer) and the flip signal so far.
GateFor(t, volatile) ==
    IF gates[t].made
    THEN gates[t]
    ELSE [made |-> TRUE, volatile |-> volatile, streak |-> 0,
          sinceSample |-> 0, flipped |-> windowFlipped]

\* Mutant of Armed: the opening streak is one reproduction short.
ArmedShort(g) == g.volatile \/ g.flipped \/ g.streak + 1 < ConfirmStreak

\* armed: volatile evidence, a flip, or the opening streak.
Armed(g) == g.volatile \/ g.flipped \/ g.streak < ConfirmStreak

\* confirmNow's stride comparison on a disarmed gate.
SampleDue(g) == g.sinceSample + 1 >= ConfirmStride

\* The loop takes its next kill and confirmNow says yes.
ConfirmKill(volatile) ==
    /\ pc = "walk" /\ queue = <<>> /\ pos \in Kills
    /\ LET g == GateFor(targetOf[pos], volatile)
       IN  /\ Armed(g) \/ SampleDue(g)
           /\ gates' = [gates EXCEPT ![targetOf[pos]] =
                  IF Armed(g) THEN g ELSE [g EXCEPT !.sinceSample = 0]]
    /\ queue' = <<{pos}>>
    /\ pos' = pos + 1
    /\ UNCHANGED <<targetOf, windowFlipped, skipped, confirmed, pc>>

\* The loop takes its next kill and confirmNow strides over it.
SkipKill(volatile) ==
    /\ pc = "walk" /\ queue = <<>> /\ pos \in Kills
    /\ LET g == GateFor(targetOf[pos], volatile)
       IN  /\ ~Armed(g) /\ ~SampleDue(g)
           /\ gates' = [gates EXCEPT ![targetOf[pos]] =
                  [g EXCEPT !.sinceSample = @ + 1]]
    /\ skipped' = skipped \cup {pos}
    /\ pos' = pos + 1
    /\ UNCHANGED <<targetOf, windowFlipped, queue, confirmed, pc>>

\* k is what queue[0] holds: the first kill of the oldest batch.
IsNext(k) ==
    /\ queue # <<>>
    /\ k \in Head(queue)
    /\ \A j \in Head(queue) : k <= j

\* queue = queue[1:].
Popped(k) ==
    IF Head(queue) = {k}
    THEN Tail(queue)
    ELSE <<Head(queue) \ {k}>> \o Tail(queue)

Enqueue(q, batch) == IF batch = {} THEN q ELSE Append(q, batch)

\* takeSkips(target, false): the skips of one target.
SkipsOf(t) == {j \in skipped : targetOf[j] = t}

\* observe: a reproduction extends the streak, a flip marks the gate, an
\* inconclusive run is no evidence either way.
Observe(g, outcome) ==
    [g EXCEPT !.streak  = IF outcome = "reproduced" THEN @ + 1 ELSE @,
              !.flipped = @ \/ outcome = "flipped"]

\* One serial re-run: its outcome, and whether its evidence came back
\* unverifiable.  Unverifiable evidence re-arms the target and drains its
\* skips; the window's first flip drains every skip left.
ConfirmNext(k, outcome, unverifiable) ==
    /\ pc = "walk"
    /\ IsNext(k)
    /\ LET t      == targetOf[k]
           g      == gates[t]
           rearm  == ~g.volatile /\ unverifiable
           own    == IF rearm THEN SkipsOf(t) ELSE {}
           demand == outcome = "flipped" /\ ~g.flipped /\ ~windowFlipped
           rest   == skipped \ own
       IN  /\ gates' = [gates EXCEPT ![t] =
                  Observe([g EXCEPT !.volatile = @ \/ rearm], outcome)]
           /\ windowFlipped' = (windowFlipped \/ demand)
           /\ skipped' = IF demand THEN {} ELSE rest
           /\ queue' = Enqueue(Enqueue(Popped(k), own),
                               IF demand THEN rest ELSE {})
    /\ confirmed' = [confirmed EXCEPT ![k] = outcome]
    /\ UNCHANGED <<targetOf, pos, pc>>

\* The serial re-run itself errors: the walk returns at once.
ConfirmFails ==
    /\ pc = "walk" /\ queue # <<>>
    /\ pc' = "failed"
    /\ UNCHANGED <<targetOf, pos, gates, windowFlipped, skipped, queue, confirmed>>

WalkReturns ==
    /\ pc = "walk" /\ queue = <<>> /\ pos \notin Kills
    /\ pc' = "done"
    /\ UNCHANGED <<targetOf, pos, gates, windowFlipped, skipped, queue, confirmed>>

Walk == (\E v \in BOOLEAN : ConfirmKill(v) \/ SkipKill(v)) \/ WalkReturns

Drain == \E k \in Kills, o \in Outcomes, u \in BOOLEAN : ConfirmNext(k, o, u)

\* The function returned; its caller goes on.
Returned == pc \in {"done", "failed"} /\ UNCHANGED confirmVars

ConfirmStep == Walk \/ Drain \/ ConfirmFails \/ Returned

\* The walk is one goroutine that the runtime keeps scheduling, and every
\* serial re-run ends within its oracle budget.
ConfirmSpec == ConfirmInit /\ [][ConfirmStep]_confirmVars /\ WF_confirmVars(Walk \/ Drain)

------------------------------------------------------------------------------

ConfirmTypeOK ==
    /\ targetOf \in [Kills -> Targets]
    /\ pos \in 1 .. NKills + 1
    /\ gates \in [Targets -> Gate]
    /\ windowFlipped \in BOOLEAN
    /\ skipped \subseteq Kills
    /\ queue \in Seq(SUBSET Kills)
    /\ confirmed \in [Kills -> Outcomes \cup {"none"}]
    /\ pc \in {"walk", "done", "failed"}

\* Sampling's word is taken back where it may not stand: when the walk returns,
\* every kill of a window with a flip in it - walked or met while draining -
\* has its own serial outcome, and so has every kill of a target whose
\* evidence was or became unverifiable (confirmWindowKills' drain of all
\* skips, windowFlipped seeding every later gate, the re-arming arm).
ConfirmsAll ==
    pc = "done" => \A k \in Kills :
        \/ \E j \in Kills : confirmed[j] = "flipped"
        \/ gates[targetOf[k]].volatile
        => confirmed[k] # "none"

\* Sampling is earned: a skipped kill stands behind at least ConfirmStreak
\* reproductions of its own target met earlier in the walk (armed).
SkipsAreEarned ==
    \A k \in skipped :
        Cardinality({j \in 1 .. k : /\ targetOf[j] = targetOf[k]
                                    /\ confirmed[j] = "reproduced"})
            >= ConfirmStreak

\* Sampling is dense: among any ConfirmStride consecutive kills of one target
\* at least one was re-run when the walk returns (confirmNow).
StrideBound ==
    pc = "done" => \A i \in Kills :
        /\ i + ConfirmStride - 1 \in Kills
        /\ targetOf[i + ConfirmStride - 1] = targetOf[i]
        => \E j \in i .. i + ConfirmStride - 1 : confirmed[j] # "none"

\* Sampling is worth its skips: earned by a streak, and dense.
SamplingSound == SkipsAreEarned /\ StrideBound
==============================================================================
