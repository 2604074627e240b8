---------------------------- MODULE ConfirmProofs ----------------------------
(***************************************************************************)
(* Proofs about serial confirmation: whatever the number of kills and      *)
(* targets, the streak and the stride, and whatever the serial runs        *)
(* return, one flip leaves no kill of the window unconfirmed, and no       *)
(* target with unverifiable evidence is sampled.                           *)
(***************************************************************************)
EXTENDS Confirm, FiniteSetTheorems, TLAPS

QueuedIn(q) == UNION {q[i] : i \in 1 .. Len(q)}

\* The walk only met kills before pos, and lost none of them.
Placed ==
    /\ \A k \in QueuedIn(queue) \cup skipped : k < pos
    /\ \A k \in Kills : k < pos =>
           confirmed[k] # "none" \/ k \in QueuedIn(queue) \/ k \in skipped

\* A gate exists exactly for the targets the walk has met.
GatesOfWalked ==
    /\ \A k \in Kills : k < pos => gates[targetOf[k]].made
    /\ \A t \in Targets : gates[t].made =>
           \E k \in Kills : k < pos /\ targetOf[k] = t

\* Until the first flip only kills of the newest target are being drained.
DrainsNewest ==
    ~windowFlipped =>
        \A k \in QueuedIn(queue) : \A j \in Kills :
            j < pos => targetOf[j] <= targetOf[k]

\* A flip of a gate, or of a kill, is known to the window.
FlipsAreKnown ==
    /\ \A t \in Targets : gates[t].flipped => windowFlipped
    /\ (\E k \in Kills : confirmed[k] = "flipped") => windowFlipped

\* Past the first flip nothing is sampled any more, and nothing stays
\* skipped.
FlipArms ==
    windowFlipped =>
        /\ skipped = {}
        /\ \A k \in Kills : k >= pos /\ gates[targetOf[k]].made
               => gates[targetOf[k]].flipped

\* No kill of a volatile target is skipped.
VolatileUnskipped == \A k \in skipped : ~gates[targetOf[k]].volatile

DoneIsDrained == pc = "done" => queue = <<>> /\ pos \notin Kills

IInv ==
    /\ ConfirmTypeOK
    /\ InTargetOrder(targetOf)
    /\ Placed
    /\ GatesOfWalked
    /\ DrainsNewest
    /\ FlipsAreKnown
    /\ FlipArms
    /\ VolatileUnskipped
    /\ DoneIsDrained
------------------------------------------------------------------------------
(* The queue.                                                              *)

\* A batch put at the end of the queue adds exactly its kills (the appends
\* of confirmWindowKills).
LEMMA EnqueueAdds ==
    ASSUME NEW q \in Seq(SUBSET Kills), NEW b \in SUBSET Kills
    PROVE  /\ Enqueue(q, b) \in Seq(SUBSET Kills)
           /\ QueuedIn(Enqueue(q, b)) = QueuedIn(q) \cup b
<1>1. CASE b = {}
  BY <1>1 DEF Enqueue
<1>2. CASE b # {}
  <2>1. Enqueue(q, b) = Append(q, b)
    BY <1>2 DEF Enqueue
  <2>2. /\ Append(q, b) \in Seq(SUBSET Kills)
        /\ Len(Append(q, b)) = Len(q) + 1
        /\ \A i \in 1 .. Len(q) : Append(q, b)[i] = q[i]
        /\ Append(q, b)[Len(q) + 1] = b
        /\ Len(q) \in Nat
    OBVIOUS
  <2>3. QueuedIn(Append(q, b)) = QueuedIn(q) \cup b
    <3>1. ASSUME NEW x \in QueuedIn(Append(q, b))
          PROVE  x \in QueuedIn(q) \cup b
      BY <2>2 DEF QueuedIn
    <3>2. ASSUME NEW x \in QueuedIn(q)
          PROVE  x \in QueuedIn(Append(q, b))
      <4>1. PICK i \in 1 .. Len(q) : x \in q[i]
        BY DEF QueuedIn
      <4>2. i \in 1 .. Len(Append(q, b)) /\ x \in Append(q, b)[i]
        BY <2>2, <4>1
      <4> QED BY <4>2 DEF QueuedIn
    <3>3. ASSUME NEW x \in b
          PROVE  x \in QueuedIn(Append(q, b))
      <4>1. Len(q) + 1 \in 1 .. Len(Append(q, b)) /\ x \in Append(q, b)[Len(q) + 1]
        BY <2>2
      <4> QED BY <4>1 DEF QueuedIn
    <3> QED BY <3>1, <3>2, <3>3
  <2> QED BY <2>1, <2>2, <2>3
<1> QED BY <1>1, <1>2

\* Taking the next kill off the queue loses no other one.
LEMMA PoppedKeeps ==
    ASSUME queue \in Seq(SUBSET Kills), NEW k \in Kills, IsNext(k)
    PROVE  /\ Popped(k) \in Seq(SUBSET Kills)
           /\ QueuedIn(Popped(k)) \subseteq QueuedIn(queue)
           /\ QueuedIn(queue) \ {k} \subseteq QueuedIn(Popped(k))
           /\ k \in QueuedIn(queue)
<1> DEFINE h == Head(queue)
           r == Tail(queue)
<1>1. /\ queue # <<>> /\ k \in h
      /\ h = queue[1] /\ h \in SUBSET Kills
      /\ r \in Seq(SUBSET Kills)
      /\ Len(queue) \in Nat /\ Len(queue) >= 1
      /\ Len(r) = Len(queue) - 1
      /\ \A i \in 1 .. Len(r) : r[i] = queue[i + 1]
  BY DEF IsNext
<1>2. QueuedIn(r) \subseteq QueuedIn(queue)
  <2> SUFFICES ASSUME NEW x \in QueuedIn(r)
               PROVE  x \in QueuedIn(queue)
    OBVIOUS
  <2>1. PICK i \in 1 .. Len(r) : x \in r[i]
    BY DEF QueuedIn
  <2>2. i + 1 \in 1 .. Len(queue) /\ x \in queue[i + 1]
    BY <1>1, <2>1
  <2> QED BY <2>2 DEF QueuedIn
<1>3. QueuedIn(queue) \subseteq QueuedIn(r) \cup h
  <2> SUFFICES ASSUME NEW x \in QueuedIn(queue), x \notin h
               PROVE  x \in QueuedIn(r)
    OBVIOUS
  <2>1. PICK i \in 1 .. Len(queue) : x \in queue[i]
    BY DEF QueuedIn
  <2>2. i - 1 \in 1 .. Len(r) /\ r[i - 1] = queue[i]
    BY <1>1, <2>1
  <2> QED BY <2>1, <2>2 DEF QueuedIn
<1>4. h \subseteq QueuedIn(queue)
  BY <1>1 DEF QueuedIn
<1>5. CASE h = {k}
  <2>1. Popped(k) = r
    BY <1>5 DEF Popped
  <2> QED BY <1>1, <1>2, <1>3, <1>4, <1>5, <2>1
<1>6. CASE h # {k}
  <2> DEFINE p == <<h \ {k}>> \o r
  <2>1. Popped(k) = p
    BY <1>6 DEF Popped
  <2>2. /\ p \in Seq(SUBSET Kills)
        /\ Len(p) = Len(r) + 1
        /\ p[1] = h \ {k}
        /\ \A i \in 1 .. Len(r) : p[i + 1] = r[i]
        /\ Len(r) \in Nat
    BY <1>1
  <2> HIDE DEF p
  <2>3. QueuedIn(p) \subseteq QueuedIn(r) \cup (h \ {k})
    <3> SUFFICES ASSUME NEW x \in QueuedIn(p), x \notin h \ {k}
                 PROVE  x \in QueuedIn(r)
      OBVIOUS
    <3>1. PICK i \in 1 .. Len(p) : x \in p[i]
      BY DEF QueuedIn
    <3>2. i - 1 \in 1 .. Len(r) /\ p[(i - 1) + 1] = r[i - 1] /\ (i - 1) + 1 = i
      BY <2>2, <3>1
    <3> QED BY <3>1, <3>2 DEF QueuedIn
  <2>4. QueuedIn(r) \subseteq QueuedIn(p)
    <3> SUFFICES ASSUME NEW x \in QueuedIn(r)
                 PROVE  x \in QueuedIn(p)
      OBVIOUS
    <3>1. PICK i \in 1 .. Len(r) : x \in r[i]
      BY DEF QueuedIn
    <3>2. i + 1 \in 1 .. Len(p) /\ x \in p[i + 1]
      BY <2>2, <3>1
    <3> QED BY <3>2 DEF QueuedIn
  <2>5. h \ {k} \subseteq QueuedIn(p)
    BY <2>2 DEF QueuedIn
  <2> QED BY <1>1, <1>2, <1>3, <1>4, <2>1, <2>2, <2>3, <2>4, <2>5
<1> QED BY <1>5, <1>6

------------------------------------------------------------------------------
(* Type correctness.                                                       *)

\* gateFor returns a gate.
LEMMA GateForTyped ==
    ASSUME ConfirmTypeOK, NEW t \in Targets, NEW v \in BOOLEAN
    PROVE  GateFor(t, v) \in Gate
<1>1. 0 \in 0 .. ConfirmStride - 1
  BY ConfirmAssumption
<1> QED BY <1>1 DEF GateFor, Gate, ConfirmTypeOK

\* The walk starts well typed.
LEMMA InitTyped == ConfirmInit => ConfirmTypeOK
<1>1. NoGate \in Gate
  BY ConfirmAssumption DEF NoGate, Gate
<1>2. 1 \in 1 .. NKills + 1
  BY ConfirmAssumption
<1>3. <<>> \in Seq(SUBSET Kills)
  OBVIOUS
<1> QED BY <1>1, <1>2, <1>3 DEF ConfirmInit, ConfirmTypeOK

\* Every step of the walk keeps its state well typed.
LEMMA NextTyped ==
    ASSUME ConfirmTypeOK, [ConfirmStep]_confirmVars
    PROVE  ConfirmTypeOK'
<1>1. ASSUME NEW v \in BOOLEAN, ConfirmKill(v)
      PROVE  ConfirmTypeOK'
  <2> DEFINE g == GateFor(targetOf[pos], v)
  <2>1. pos \in Kills /\ targetOf[pos] \in Targets
    BY <1>1 DEF ConfirmKill, ConfirmTypeOK
  <2>2. g \in Gate
    BY <2>1, GateForTyped
  <2> HIDE DEF g
  <2>3. [g EXCEPT !.sinceSample = 0] \in Gate
    BY <2>2, ConfirmAssumption DEF Gate
  <2>4. gates' \in [Targets -> Gate]
    BY <1>1, <2>1, <2>2, <2>3 DEF ConfirmKill, ConfirmTypeOK, g
  <2>5. pos' \in 1 .. NKills + 1 /\ queue' \in Seq(SUBSET Kills)
    BY <1>1, <2>1, ConfirmAssumption DEF ConfirmKill, Kills
  <2> QED BY <1>1, <2>4, <2>5 DEF ConfirmKill, ConfirmTypeOK
<1>2. ASSUME NEW v \in BOOLEAN, SkipKill(v)
      PROVE  ConfirmTypeOK'
  <2> DEFINE g == GateFor(targetOf[pos], v)
  <2>1. pos \in Kills /\ targetOf[pos] \in Targets
    BY <1>2 DEF SkipKill, ConfirmTypeOK
  <2>2. g \in Gate
    BY <2>1, GateForTyped
  <2>3. ~SampleDue(g)
    BY <1>2 DEF SkipKill
  <2> HIDE DEF g
  <2>4. g.sinceSample + 1 \in 0 .. ConfirmStride - 1
    BY <2>2, <2>3, ConfirmAssumption DEF Gate, SampleDue
  <2>5. [g EXCEPT !.sinceSample = @ + 1] \in Gate
    BY <2>2, <2>4 DEF Gate
  <2>6. gates' \in [Targets -> Gate]
    BY <1>2, <2>1, <2>5 DEF SkipKill, ConfirmTypeOK, g
  <2>7. pos' \in 1 .. NKills + 1 /\ skipped' \subseteq Kills
    BY <1>2, <2>1, ConfirmAssumption DEF SkipKill, Kills, ConfirmTypeOK
  <2> QED BY <1>2, <2>6, <2>7 DEF SkipKill, ConfirmTypeOK
<1>3. ASSUME NEW k \in Kills, NEW o \in Outcomes, NEW u \in BOOLEAN,
             ConfirmNext(k, o, u)
      PROVE  ConfirmTypeOK'
  <2> DEFINE t      == targetOf[k]
             g      == gates[t]
             rearm  == ~g.volatile /\ u
             own    == IF rearm THEN SkipsOf(t) ELSE {}
             demand == o = "flipped" /\ ~g.flipped /\ ~windowFlipped
             rest   == skipped \ own
             more   == IF demand THEN rest ELSE {}
  <2>1. t \in Targets /\ g \in Gate
    BY DEF ConfirmTypeOK
  <2>2. /\ own \in SUBSET Kills /\ more \in SUBSET Kills
        /\ rest \in SUBSET Kills
    BY DEF SkipsOf, ConfirmTypeOK
  <2>3. Popped(k) \in Seq(SUBSET Kills)
    BY <1>3, PoppedKeeps DEF ConfirmNext, ConfirmTypeOK
  <2>4. queue' = Enqueue(Enqueue(Popped(k), own), more)
    BY <1>3 DEF ConfirmNext
  <2>5. queue' \in Seq(SUBSET Kills)
    <3> HIDE DEF own, more
    <3>1. Enqueue(Popped(k), own) \in Seq(SUBSET Kills)
      BY <2>2, <2>3, EnqueueAdds
    <3> QED BY <2>2, <2>4, <3>1, EnqueueAdds
  <2>6. skipped' \subseteq Kills
    BY <1>3, <2>2 DEF ConfirmNext
  <2>7. Observe([g EXCEPT !.volatile = @ \/ rearm], o) \in Gate
    <3> HIDE DEF g
    <3> USE <2>1 DEF Gate
    <3>1. (g.volatile \/ rearm) \in BOOLEAN
      OBVIOUS
    <3> DEFINE a == [g EXCEPT !.volatile = @ \/ rearm]
    <3>2. a \in Gate
      BY <3>1
    <3> HIDE DEF a
    <3>3. /\ (IF o = "reproduced" THEN a.streak + 1 ELSE a.streak) \in Nat
          /\ (a.flipped \/ o = "flipped") \in BOOLEAN
      BY <3>2
    <3>4. Observe(a, o) \in Gate
      BY <3>2, <3>3 DEF Observe
    <3> QED BY <3>4 DEF a
  <2>8. gates' \in [Targets -> Gate]
    BY <1>3, <2>1, <2>7 DEF ConfirmNext, ConfirmTypeOK
  <2>9. windowFlipped' \in BOOLEAN
    BY <1>3 DEF ConfirmNext, ConfirmTypeOK
  <2>10. confirmed' \in [Kills -> Outcomes \cup {"none"}]
    BY <1>3 DEF ConfirmNext, ConfirmTypeOK
  <2> QED BY <1>3, <2>5, <2>6, <2>8, <2>9, <2>10 DEF ConfirmNext, ConfirmTypeOK
<1>4. CASE ConfirmFails
  BY <1>4 DEF ConfirmFails, ConfirmTypeOK
<1>5. CASE WalkReturns
  BY <1>5 DEF WalkReturns, ConfirmTypeOK
<1>6. CASE UNCHANGED confirmVars
  BY <1>6 DEF confirmVars, ConfirmTypeOK
<1> QED
  BY <1>1, <1>2, <1>3, <1>4, <1>5, <1>6 DEF ConfirmStep, Walk, Drain, Returned

\* The state of the walk keeps its type: in particular a gate's stride count
\* never leaves 0 .. ConfirmStride - 1 (confirmationGate).
THEOREM TypeCorrect == ConfirmSpec => []ConfirmTypeOK
<1> QED BY InitTyped, NextTyped, PTL DEF ConfirmSpec
------------------------------------------------------------------------------
(* The inductive invariant.                                                *)

\* What one serial re-run does to the places of the kills: the kill itself
\* leaves the queue, the skips that are drained enter it, and they are those
\* of its own target, or every one left at the window's first flip.
LEMMA ConfirmNextMoves ==
    ASSUME ConfirmTypeOK, ConfirmTypeOK',
           NEW k \in Kills, NEW o \in Outcomes, NEW u \in BOOLEAN,
           ConfirmNext(k, o, u)
    PROVE  /\ k \in QueuedIn(queue)
           /\ QueuedIn(queue) \ {k} \subseteq QueuedIn(queue')
           /\ QueuedIn(queue') \subseteq QueuedIn(queue) \cup (skipped \ skipped')
           /\ skipped \ skipped' \subseteq QueuedIn(queue')
           /\ skipped' \subseteq skipped
           /\ \/ skipped' = {} /\ windowFlipped'
              \/ skipped \ skipped' \subseteq SkipsOf(targetOf[k])
           /\ u /\ ~gates[targetOf[k]].volatile
                  => SkipsOf(targetOf[k]) \cap skipped' = {}
<1> DEFINE t      == targetOf[k]
           g      == gates[t]
           rearm  == ~g.volatile /\ u
           own    == IF rearm THEN SkipsOf(t) ELSE {}
           demand == o = "flipped" /\ ~g.flipped /\ ~windowFlipped
           rest   == skipped \ own
           more   == IF demand THEN rest ELSE {}
<1>1. /\ queue' = Enqueue(Enqueue(Popped(k), own), more)
      /\ skipped' = IF demand THEN {} ELSE rest
      /\ demand => windowFlipped'
      /\ IsNext(k)
  BY DEF ConfirmNext
<1>2. /\ own \in SUBSET Kills /\ more \in SUBSET Kills
      /\ own \subseteq skipped /\ own \subseteq SkipsOf(t)
      /\ rearm => own = SkipsOf(t)
  BY DEF SkipsOf, ConfirmTypeOK
<1>3. /\ Popped(k) \in Seq(SUBSET Kills)
      /\ QueuedIn(Popped(k)) \subseteq QueuedIn(queue)
      /\ QueuedIn(queue) \ {k} \subseteq QueuedIn(Popped(k))
      /\ k \in QueuedIn(queue)
  BY <1>1, PoppedKeeps DEF ConfirmTypeOK
<1>4. skipped \ skipped' = own \cup more /\ skipped' \cap own = {}
  BY <1>1, <1>2
<1>5. QueuedIn(queue') = QueuedIn(Popped(k)) \cup own \cup more
  <2> HIDE DEF own, more
  <2>1. /\ Enqueue(Popped(k), own) \in Seq(SUBSET Kills)
        /\ QueuedIn(Enqueue(Popped(k), own)) = QueuedIn(Popped(k)) \cup own
    BY <1>2, <1>3, EnqueueAdds
  <2>2. QueuedIn(queue') = QueuedIn(Enqueue(Popped(k), own)) \cup more
    BY <1>1, <1>2, <2>1, EnqueueAdds
  <2> QED BY <2>1, <2>2
<1>6. \/ skipped' = {} /\ windowFlipped'
      \/ skipped \ skipped' \subseteq SkipsOf(t)
  <2>1. CASE demand
    BY <1>1, <2>1
  <2>2. CASE ~demand
    <3>1. more = {}
      BY <2>2
    <3> QED BY <1>2, <1>4, <3>1
  <2> QED BY <2>1, <2>2
<1>7. u /\ ~g.volatile => SkipsOf(t) \cap skipped' = {}
  <2> SUFFICES ASSUME u, ~g.volatile
               PROVE  SkipsOf(t) \cap skipped' = {}
    OBVIOUS
  <2>1. rearm
    OBVIOUS
  <2> HIDE DEF rearm, own
  <2> QED BY <1>2, <1>4, <2>1
<1>8. skipped' \subseteq skipped
  BY <1>1
<1> HIDE DEF own, more, rearm, demand
<1> QED BY <1>3, <1>4, <1>5, <1>6, <1>7, <1>8

\* What one serial re-run does to the gates: only the kill's own, which
\* stays made and stays flipped; a flip flips it and is known to the window.
LEMMA ConfirmNextGates ==
    ASSUME ConfirmTypeOK, NEW k \in Kills, NEW o \in Outcomes, NEW u \in BOOLEAN,
           ConfirmNext(k, o, u)
    PROVE  /\ \A s \in Targets :
                  /\ gates'[s].made = gates[s].made
                  /\ s # targetOf[k] => gates'[s] = gates[s]
           /\ LET g == gates[targetOf[k]]
                  h == gates'[targetOf[k]]
              IN  /\ h.flipped = (g.flipped \/ o = "flipped")
                  /\ h.volatile = (g.volatile \/ (~g.volatile /\ u))
                  /\ windowFlipped' = (windowFlipped \/
                         (o = "flipped" /\ ~g.flipped /\ ~windowFlipped))
<1> DEFINE t == targetOf[k]
           g == gates[t]
           a == [g EXCEPT !.volatile = @ \/ (~g.volatile /\ u)]
<1>1. t \in Targets /\ g \in Gate
  BY DEF ConfirmTypeOK
<1>2. /\ gates' = [gates EXCEPT ![t] = Observe(a, o)]
      /\ windowFlipped' = (windowFlipped \/
             (o = "flipped" /\ ~g.flipped /\ ~windowFlipped))
  BY DEF ConfirmNext
<1>3. gates'[t] = Observe(a, o)
  BY <1>1, <1>2 DEF ConfirmTypeOK
<1>4. \A s \in Targets : s # t => gates'[s] = gates[s]
  BY <1>2 DEF ConfirmTypeOK
<1>5. /\ a.made = g.made /\ a.flipped = g.flipped
      /\ a.volatile = (g.volatile \/ (~g.volatile /\ u))
      /\ a \in Gate
  <2> HIDE DEF g
  <2> QED BY <1>1 DEF Gate
<1>6. /\ Observe(a, o).made = a.made
      /\ Observe(a, o).volatile = a.volatile
      /\ Observe(a, o).flipped = (a.flipped \/ o = "flipped")
  <2> HIDE DEF a
  <2> QED BY <1>5 DEF Observe, Gate
<1> HIDE DEF a
<1> QED BY <1>2, <1>3, <1>4, <1>5, <1>6

\* The walk starts inside the invariant: nothing walked, nothing flipped.
LEMMA InitInvariant == ConfirmInit => IInv
<1> SUFFICES ASSUME ConfirmInit
             PROVE  IInv
  OBVIOUS
<1>1. ConfirmTypeOK
  BY InitTyped
<1>2. QueuedIn(queue) = {} /\ skipped = {} /\ ~windowFlipped
  BY DEF ConfirmInit, QueuedIn
<1>3. \A k \in Kills : ~(k < pos)
  BY DEF ConfirmInit, Kills
<1>4. \A t \in Targets : ~gates[t].made /\ ~gates[t].flipped
  BY DEF ConfirmInit, NoGate
<1>5. \A k \in Kills : confirmed[k] = "none"
  BY DEF ConfirmInit
<1>6. pc # "done" /\ InTargetOrder(targetOf)
  BY DEF ConfirmInit
<1> QED
  BY <1>1, <1>2, <1>3, <1>4, <1>5, <1>6
  DEF IInv, Placed, GatesOfWalked, DrainsNewest, FlipsAreKnown, FlipArms,
      VolatileUnskipped, DoneIsDrained
\* What meeting a kill does to the gates: its target's gate is made, seeded
\* with the window's flip, or stands as it was; the others are untouched.
LEMMA WalkGates ==
    ASSUME ConfirmTypeOK, NEW v \in BOOLEAN, ConfirmKill(v) \/ SkipKill(v)
    PROVE  /\ pos \in Kills /\ queue = <<>> /\ pos' = pos + 1
           /\ LET t == targetOf[pos]
                  h == gates'[t]
              IN  /\ t \in Targets
                  /\ h.made
                  /\ gates[t].made => /\ h.flipped = gates[t].flipped
                                      /\ h.volatile = gates[t].volatile
                  /\ ~gates[t].made => h.flipped = windowFlipped
                  /\ \A s \in Targets : s # t => gates'[s] = gates[s]
                  /\ SkipKill(v) => ~h.volatile /\ ~h.flipped
<1> DEFINE t == targetOf[pos]
           g == GateFor(t, v)
<1>1. pos \in Kills /\ queue = <<>> /\ pos' = pos + 1
  BY DEF ConfirmKill, SkipKill
<1>2. t \in Targets /\ g \in Gate
  BY <1>1, GateForTyped DEF ConfirmTypeOK
<1>3. /\ g.made
      /\ gates[t].made => g = gates[t]
      /\ ~gates[t].made => g.flipped = windowFlipped
  BY DEF GateFor
<1> HIDE DEF g
<1>4. PICK n \in Nat : gates' = [gates EXCEPT ![t] = [g EXCEPT !.sinceSample = n]]
  <2>1. CASE ConfirmKill(v)
    <3>1. gates' = [gates EXCEPT ![t] =
              IF Armed(g) THEN g ELSE [g EXCEPT !.sinceSample = 0]]
      BY <2>1 DEF ConfirmKill, g
    <3>2. g = [g EXCEPT !.sinceSample = g.sinceSample] /\ g.sinceSample \in Nat
      BY <1>2, ConfirmAssumption DEF Gate
    <3> QED BY <3>1, <3>2
  <2>2. CASE SkipKill(v)
    <3>1. gates' = [gates EXCEPT ![t] =
              [g EXCEPT !.sinceSample = g.sinceSample + 1]]
      BY <2>2 DEF SkipKill, g
    <3>2. g.sinceSample + 1 \in Nat
      BY <1>2, ConfirmAssumption DEF Gate
    <3> QED BY <3>1, <3>2
  <2> QED BY <2>1, <2>2
<1>5. /\ gates'[t] = [g EXCEPT !.sinceSample = n]
      /\ \A s \in Targets : s # t => gates'[s] = gates[s]
  BY <1>2, <1>4 DEF ConfirmTypeOK
<1>6. /\ gates'[t].made = g.made
      /\ gates'[t].flipped = g.flipped
      /\ gates'[t].volatile = g.volatile
  BY <1>2, <1>5 DEF Gate
<1>7. SkipKill(v) => ~g.volatile /\ ~g.flipped
  BY DEF SkipKill, Armed, g
<1> QED BY <1>1, <1>2, <1>3, <1>5, <1>6, <1>7

\* Every step of the walk stays inside the invariant.
LEMMA NextInvariant ==
    ASSUME IInv, [ConfirmStep]_confirmVars
    PROVE  IInv'
<1> USE DEF IInv
<1>0. ConfirmTypeOK /\ ConfirmTypeOK'
  BY NextTyped
<1>p. /\ pos \in Nat
      /\ \A k \in Kills : k \in Nat
      /\ \A t \in Targets : t \in Nat
      /\ skipped \subseteq Kills
  BY <1>0, ConfirmAssumption DEF ConfirmTypeOK, Kills, Targets
<1>1. ASSUME NEW v \in BOOLEAN, ConfirmKill(v)
      PROVE  IInv'
  <2> DEFINE t == targetOf[pos]
  <2>1. /\ queue' = <<{pos}>> /\ targetOf' = targetOf
        /\ UNCHANGED <<windowFlipped, skipped, confirmed, pc>>
        /\ pc = "walk" /\ queue = <<>> /\ pos \in Kills /\ pos' = pos + 1
    BY <1>1 DEF ConfirmKill
  <2>2. QueuedIn(queue') = {pos} /\ QueuedIn(queue) = {}
    BY <2>1 DEF QueuedIn
  <2>3. /\ t \in Targets /\ gates'[t].made
        /\ gates[t].made => /\ gates'[t].flipped = gates[t].flipped
                            /\ gates'[t].volatile = gates[t].volatile
        /\ ~gates[t].made => gates'[t].flipped = windowFlipped
        /\ \A s \in Targets : s # t => gates'[s] = gates[s]
    BY <1>0, <1>1, WalkGates
  <2>p. \A k \in Kills : k < pos' <=> (k < pos \/ k = pos)
    BY <1>p, <2>1
  <2>4. Placed'
    BY <1>p, <2>p, <2>1, <2>2 DEF Placed
  <2>5. GatesOfWalked'
    <3>1. ASSUME NEW k \in Kills, k < pos'
          PROVE  gates'[targetOf[k]].made
      <4>1. targetOf[k] \in Targets
        BY <1>0 DEF ConfirmTypeOK
      <4> QED BY <2>p, <2>1, <2>3, <3>1, <4>1 DEF GatesOfWalked
    <3>2. ASSUME NEW s \in Targets, gates'[s].made
          PROVE  \E k \in Kills : k < pos' /\ targetOf[k] = s
      BY <2>p, <2>1, <2>3, <3>2 DEF GatesOfWalked
    <3> QED BY <2>1, <3>1, <3>2 DEF GatesOfWalked
  <2>6. DrainsNewest'
    BY <1>p, <2>1, <2>2 DEF DrainsNewest, InTargetOrder
  <2>7. FlipsAreKnown'
    BY <2>1, <2>3 DEF FlipsAreKnown
  <2>8. FlipArms'
    <3> SUFFICES ASSUME windowFlipped
                 PROVE  /\ skipped = {}
                        /\ \A k \in Kills : k >= pos' /\ gates'[targetOf[k]].made
                               => gates'[targetOf[k]].flipped
      BY <2>1 DEF FlipArms
    <3>1. ASSUME NEW k \in Kills, k >= pos', gates'[targetOf[k]].made
          PROVE  gates'[targetOf[k]].flipped
      <4>1. k >= pos /\ pos >= pos
        BY <1>p, <2>1, <3>1
      <4>2. targetOf[k] \in Targets
        BY <1>0 DEF ConfirmTypeOK
      <4> QED BY <2>1, <2>3, <3>1, <4>1, <4>2 DEF FlipArms
    <3> QED BY <3>1 DEF FlipArms
  <2>9. VolatileUnskipped'
    BY <1>0, <2>1, <2>3 DEF VolatileUnskipped, Placed, GatesOfWalked, ConfirmTypeOK
  <2>10. DoneIsDrained' /\ InTargetOrder(targetOf)'
    BY <2>1 DEF DoneIsDrained
  <2> QED BY <1>0, <2>4, <2>5, <2>6, <2>7, <2>8, <2>9, <2>10
<1>2. ASSUME NEW v \in BOOLEAN, SkipKill(v)
      PROVE  IInv'
  <2> DEFINE t == targetOf[pos]
  <2>1. /\ skipped' = skipped \cup {pos} /\ targetOf' = targetOf
        /\ UNCHANGED <<windowFlipped, queue, confirmed, pc>>
        /\ pc = "walk" /\ queue = <<>> /\ pos \in Kills /\ pos' = pos + 1
    BY <1>2 DEF SkipKill
  <2>2. QueuedIn(queue) = {} /\ QueuedIn(queue') = {}
    BY <2>1 DEF QueuedIn
  <2>3. /\ t \in Targets /\ gates'[t].made
        /\ gates[t].made => /\ gates'[t].flipped = gates[t].flipped
                            /\ gates'[t].volatile = gates[t].volatile
        /\ ~gates[t].made => gates'[t].flipped = windowFlipped
        /\ \A s \in Targets : s # t => gates'[s] = gates[s]
        /\ ~gates'[t].volatile /\ ~gates'[t].flipped
    BY <1>0, <1>2, WalkGates
  <2>p. \A k \in Kills : k < pos' <=> (k < pos \/ k = pos)
    BY <1>p, <2>1
  <2>4. Placed'
    BY <1>p, <2>p, <2>1, <2>2 DEF Placed
  <2>5. GatesOfWalked'
    <3>1. ASSUME NEW k \in Kills, k < pos'
          PROVE  gates'[targetOf[k]].made
      <4>1. targetOf[k] \in Targets
        BY <1>0 DEF ConfirmTypeOK
      <4> QED BY <2>p, <2>1, <2>3, <3>1, <4>1 DEF GatesOfWalked
    <3>2. ASSUME NEW s \in Targets, gates'[s].made
          PROVE  \E k \in Kills : k < pos' /\ targetOf[k] = s
      BY <2>p, <2>1, <2>3, <3>2 DEF GatesOfWalked
    <3> QED BY <2>1, <3>1, <3>2 DEF GatesOfWalked
  <2>6. DrainsNewest'
    BY <2>2 DEF DrainsNewest
  <2>7. FlipsAreKnown'
    BY <2>1, <2>3 DEF FlipsAreKnown
  <2>8. ~windowFlipped
    BY <1>p, <2>1, <2>3 DEF FlipArms
  <2>9. FlipArms'
    BY <2>1, <2>8 DEF FlipArms
  <2>10. VolatileUnskipped'
    BY <1>0, <2>1, <2>3 DEF VolatileUnskipped, Placed, GatesOfWalked, ConfirmTypeOK
  <2>11. DoneIsDrained' /\ InTargetOrder(targetOf)'
    BY <2>1 DEF DoneIsDrained
  <2> QED BY <1>0, <2>4, <2>5, <2>6, <2>7, <2>9, <2>10, <2>11
<1>3. ASSUME NEW k \in Kills, NEW o \in Outcomes, NEW u \in BOOLEAN,
             ConfirmNext(k, o, u)
      PROVE  IInv'
  <2> DEFINE t == targetOf[k]
  <2>1. /\ UNCHANGED <<targetOf, pos, pc>> /\ pc = "walk"
        /\ confirmed' = [confirmed EXCEPT ![k] = o]
        /\ t \in Targets
    BY <1>0, <1>3 DEF ConfirmNext, ConfirmTypeOK
  <2>2. /\ k \in QueuedIn(queue)
        /\ QueuedIn(queue) \ {k} \subseteq QueuedIn(queue')
        /\ QueuedIn(queue') \subseteq QueuedIn(queue) \cup (skipped \ skipped')
        /\ skipped \ skipped' \subseteq QueuedIn(queue')
        /\ skipped' \subseteq skipped
        /\ \/ skipped' = {} /\ windowFlipped'
           \/ skipped \ skipped' \subseteq SkipsOf(t)
        /\ u /\ ~gates[t].volatile => SkipsOf(t) \cap skipped' = {}
    BY <1>0, <1>3, ConfirmNextMoves
  <2>3. /\ \A s \in Targets : /\ gates'[s].made = gates[s].made
                              /\ s # t => gates'[s] = gates[s]
        /\ gates'[t].flipped = (gates[t].flipped \/ o = "flipped")
        /\ gates'[t].volatile = (gates[t].volatile \/ (~gates[t].volatile /\ u))
        /\ windowFlipped' = (windowFlipped \/
               (o = "flipped" /\ ~gates[t].flipped /\ ~windowFlipped))
    BY <1>0, <1>3, ConfirmNextGates
  <2>4. Placed'
    <3>1. \A j \in QueuedIn(queue') \cup skipped' : j < pos'
      BY <2>1, <2>2 DEF Placed
    <3>2. \A j \in Kills : j < pos' =>
              confirmed'[j] # "none" \/ j \in QueuedIn(queue') \/ j \in skipped'
      BY <1>0, <2>1, <2>2 DEF Placed, Outcomes, ConfirmTypeOK
    <3> QED BY <3>1, <3>2 DEF Placed
  <2>5. GatesOfWalked'
    BY <1>0, <2>1, <2>3 DEF GatesOfWalked, ConfirmTypeOK
  <2>6. DrainsNewest'
    <3> SUFFICES ASSUME ~windowFlipped', NEW i \in QueuedIn(queue'),
                        NEW j \in Kills, j < pos'
                 PROVE  targetOf[j] <= targetOf[i]
      BY <2>1 DEF DrainsNewest
    <3>1. ~windowFlipped
      BY <2>3
    <3>2. i \in QueuedIn(queue) \/ targetOf[i] = t
      BY <2>2 DEF SkipsOf
    <3> QED BY <2>1, <2>2, <3>1, <3>2 DEF DrainsNewest
  <2>7. FlipsAreKnown'
    <3>1. gates[t].flipped => windowFlipped
      BY <2>1 DEF FlipsAreKnown
    <3>2. o = "flipped" => windowFlipped'
      BY <2>3, <3>1
    <3>3. windowFlipped => windowFlipped'
      BY <2>3
    <3>4. \A s \in Targets : gates'[s].flipped => windowFlipped'
      BY <2>3, <3>1, <3>2, <3>3 DEF FlipsAreKnown
    <3>5. (\E j \in Kills : confirmed'[j] = "flipped") => windowFlipped'
      BY <1>0, <2>1, <3>2, <3>3 DEF FlipsAreKnown, ConfirmTypeOK
    <3> QED BY <3>4, <3>5 DEF FlipsAreKnown
  <2>8. FlipArms'
    <3> SUFFICES ASSUME windowFlipped'
                 PROVE  /\ skipped' = {}
                        /\ \A j \in Kills : j >= pos /\ gates'[targetOf[j]].made
                               => gates'[targetOf[j]].flipped
      BY <2>1 DEF FlipArms
    <3>1. CASE windowFlipped
      <4>1. skipped' = {}
        BY <2>2, <3>1 DEF FlipArms
      <4>2. ASSUME NEW j \in Kills, j >= pos, gates'[targetOf[j]].made
            PROVE  gates'[targetOf[j]].flipped
        <5>1. targetOf[j] \in Targets
          BY <1>0 DEF ConfirmTypeOK
        <5>2. gates[targetOf[j]].flipped
          BY <2>3, <3>1, <4>2, <5>1 DEF FlipArms
        <5> QED BY <2>3, <5>1, <5>2
      <4> QED BY <4>1, <4>2
    <3>2. CASE ~windowFlipped
      <4>1. o = "flipped" /\ ~gates[t].flipped
        BY <2>3, <3>2
      <4>2. skipped' = {}
        BY <1>3, <3>2, <4>1 DEF ConfirmNext
      <4>3. ASSUME NEW j \in Kills, j >= pos, gates'[targetOf[j]].made
            PROVE  gates'[targetOf[j]].flipped
        <5>1. targetOf[j] \in Targets /\ gates[targetOf[j]].made
          BY <1>0, <2>3, <4>3 DEF ConfirmTypeOK
        <5>2. PICK i \in Kills : i < pos /\ targetOf[i] = targetOf[j]
          BY <5>1 DEF GatesOfWalked
        <5>3. targetOf[i] <= t
          BY <2>2, <3>2, <5>2 DEF DrainsNewest
        <5>4. k < pos /\ k <= j
          BY <1>p, <2>2, <4>3 DEF Placed
        <5>5. t <= targetOf[j]
          BY <5>4 DEF InTargetOrder
        <5>6. t = targetOf[j]
          <6>1. t \in Nat /\ targetOf[j] \in Nat
            BY <1>p, <2>1, <5>1
          <6> QED BY <5>2, <5>3, <5>5, <6>1
        <5> QED BY <2>3, <4>1, <5>6
      <4> QED BY <4>2, <4>3
    <3> QED BY <3>1, <3>2
  <2>9. VolatileUnskipped'
    <3> SUFFICES ASSUME NEW j \in skipped'
                 PROVE  ~gates'[targetOf[j]].volatile
      BY <2>1 DEF VolatileUnskipped
    <3>1. j \in skipped /\ ~gates[targetOf[j]].volatile
      BY <2>2 DEF VolatileUnskipped
    <3>2. targetOf[j] \in Targets
      BY <1>0, <3>1 DEF ConfirmTypeOK
    <3>3. CASE targetOf[j] # t
      BY <2>3, <3>1, <3>2, <3>3
    <3>4. CASE targetOf[j] = t
      <4>1. j \in SkipsOf(t)
        BY <3>1, <3>4 DEF SkipsOf
      <4>2. ~u
        BY <2>2, <3>1, <3>4, <4>1
      <4> QED BY <2>3, <3>1, <3>4, <4>2
    <3> QED BY <3>3, <3>4
  <2>10. DoneIsDrained' /\ InTargetOrder(targetOf)'
    BY <2>1 DEF DoneIsDrained
  <2> QED BY <1>0, <2>4, <2>5, <2>6, <2>7, <2>8, <2>9, <2>10
<1>4. CASE ConfirmFails
  BY <1>0, <1>4
  DEF ConfirmFails, Placed, GatesOfWalked, DrainsNewest, FlipsAreKnown,
      FlipArms, VolatileUnskipped, DoneIsDrained, QueuedIn
<1>5. CASE WalkReturns
  BY <1>0, <1>5
  DEF WalkReturns, Placed, GatesOfWalked, DrainsNewest, FlipsAreKnown,
      FlipArms, VolatileUnskipped, DoneIsDrained, QueuedIn
<1>6. CASE UNCHANGED confirmVars
  BY <1>0, <1>6
  DEF confirmVars, Placed, GatesOfWalked, DrainsNewest, FlipsAreKnown,
      FlipArms, VolatileUnskipped, DoneIsDrained, QueuedIn
<1> QED
  BY <1>1, <1>2, <1>3, <1>4, <1>5, <1>6 DEF ConfirmStep, Walk, Drain, Returned

\* The invariant holds throughout the walk.
LEMMA Invariant == ConfirmSpec => []IInv
<1> QED BY InitInvariant, NextInvariant, PTL DEF ConfirmSpec

------------------------------------------------------------------------------
(* The theorems.                                                           *)

\* Once the walk returned, every kill was walked and none is queued.
LEMMA DoneConfirmsUnskipped ==
    ASSUME IInv, pc = "done", NEW k \in Kills, k \notin skipped
    PROVE  confirmed[k] # "none"
<1>1. queue = <<>> /\ pos \notin Kills
  BY DEF IInv, DoneIsDrained
<1>2. pos = NKills + 1
  BY <1>1, ConfirmAssumption DEF IInv, ConfirmTypeOK, Kills
<1>3. k < pos
  BY <1>2, ConfirmAssumption DEF Kills
<1>4. k \notin QueuedIn(queue)
  BY <1>1 DEF QueuedIn
<1> QED BY <1>3, <1>4 DEF IInv, Placed

\* One flip anywhere in a window leaves no kill of it unconfirmed when the
\* walk returns, and a target whose evidence is or becomes unverifiable has
\* every kill re-run: for every window, streak, stride and serial evidence.
THEOREM WalkConfirmsAll == ConfirmSpec => []ConfirmsAll
<1>1. IInv => ConfirmsAll
  <2> SUFFICES ASSUME IInv, pc = "done", NEW k \in Kills,
                      \/ \E j \in Kills : confirmed[j] = "flipped"
                      \/ gates[targetOf[k]].volatile
               PROVE  confirmed[k] # "none"
    BY DEF ConfirmsAll
  <2>1. CASE \E j \in Kills : confirmed[j] = "flipped"
    BY <2>1, DoneConfirmsUnskipped DEF IInv, FlipsAreKnown, FlipArms
  <2>2. CASE gates[targetOf[k]].volatile
    BY <2>2, DoneConfirmsUnskipped DEF IInv, VolatileUnskipped
  <2> QED BY <2>1, <2>2
<1> QED BY <1>1, Invariant, PTL

------------------------------------------------------------------------------
(* What sampling stands on.                                                *)

Apart(q) == \A i, j \in 1 .. Len(q) : i # j => q[i] \cap q[j] = {}

\* A kill waits in one place, and what waits was not re-run.
OnceInLine ==
    /\ Apart(queue) /\ QueuedIn(queue) \cap skipped = {}
    /\ \A k \in Kills : k \in QueuedIn(queue) \cup skipped \/ k >= pos => confirmed[k] = "none"

Reproduced(t) == {j \in Kills : j < pos /\ targetOf[j] = t /\ confirmed[j] = "reproduced"}

StreaksReproduced == \A t \in Targets : gates[t].streak <= Cardinality(Reproduced(t))

\* The walk never strode over ConfirmStride kills of a target in a row, and
\* a gate has counted the ones it is in the middle of.
Dense ==
    /\ \A i \in Kills :
           i + ConfirmStride - 1 < pos /\ targetOf[i + ConfirmStride - 1] = targetOf[i]
           => \E j \in i .. i + ConfirmStride - 1 : j \notin skipped
    /\ \A i \in Kills :
           i < pos /\ (\A j \in i .. pos - 1 : j \in skipped /\ targetOf[j] = targetOf[i])
           => pos - i <= gates[targetOf[i]].sinceSample

SampInv == OnceInLine /\ StreaksReproduced /\ SkipsAreEarned /\ Dense

\* A batch of kills that do not wait yet keeps the batches apart.
LEMMA EnqueueApart ==
    ASSUME NEW q \in Seq(SUBSET Kills), NEW b \in SUBSET Kills, Apart(q), QueuedIn(q) \cap b = {}
    PROVE  Apart(Enqueue(q, b))
<1>1. CASE b = {}
  BY <1>1 DEF Enqueue
<1>2. CASE b # {}
  <2>1. /\ Enqueue(q, b) = Append(q, b) /\ Len(q) \in Nat /\ Len(Append(q, b)) = Len(q) + 1
        /\ \A i \in 1 .. Len(q) : Append(q, b)[i] = q[i]
        /\ Append(q, b)[Len(q) + 1] = b
    BY <1>2 DEF Enqueue
  <2>2. \A i \in 1 .. Len(q) : q[i] \cap b = {}
    BY DEF QueuedIn
  <2>3. ASSUME NEW i \in 1 .. Len(q) + 1, NEW j \in 1 .. Len(q) + 1, i # j
        PROVE  Append(q, b)[i] \cap Append(q, b)[j] = {}
    <3>1. (i \in 1 .. Len(q) \/ i = Len(q) + 1) /\ (j \in 1 .. Len(q) \/ j = Len(q) + 1)
      BY <2>1
    <3>2. CASE i \in 1 .. Len(q) /\ j \in 1 .. Len(q)
      BY <2>1, <2>3, <3>2 DEF Apart
    <3>3. CASE i = Len(q) + 1 \/ j = Len(q) + 1
      BY <2>1, <2>2, <2>3, <3>1, <3>3
    <3> QED BY <3>1, <3>2, <3>3
  <2> QED BY <2>1, <2>3 DEF Apart
<1> QED BY <1>1, <1>2

\* The kill that is popped waits no more.
LEMMA PoppedApart ==
    ASSUME queue \in Seq(SUBSET Kills), Apart(queue), NEW k \in Kills, IsNext(k)
    PROVE  Apart(Popped(k)) /\ k \notin QueuedIn(Popped(k))
<1> DEFINE h == Head(queue)
           r == Tail(queue)
<1>1. /\ queue # <<>> /\ k \in h /\ h = queue[1] /\ h \in SUBSET Kills
      /\ r \in Seq(SUBSET Kills) /\ Len(queue) \in Nat /\ Len(queue) >= 1
      /\ Len(r) = Len(queue) - 1
      /\ \A i \in 1 .. Len(r) : r[i] = queue[i + 1]
  BY DEF IsNext
<1>2. \A i \in 1 .. Len(r) : i + 1 \in 1 .. Len(queue) /\ r[i] \cap h = {}
  <2> TAKE i \in 1 .. Len(r)
  <2>1. i + 1 \in 1 .. Len(queue) /\ 1 \in 1 .. Len(queue) /\ i + 1 # 1
    BY <1>1
  <2> QED BY <1>1, <2>1 DEF Apart
<1>3. \A i, j \in 1 .. Len(r) : i # j => r[i] \cap r[j] = {}
  <2> TAKE i, j \in 1 .. Len(r)
  <2>1. i # j => i + 1 # j + 1
    BY <1>1
  <2> QED BY <1>1, <1>2, <2>1 DEF Apart
<1>4. CASE h = {k}
  <2>1. Popped(k) = r
    BY <1>4 DEF Popped
  <2>2. k \notin QueuedIn(r)
    BY <1>1, <1>2 DEF QueuedIn
  <2> QED BY <1>3, <2>1, <2>2 DEF Apart
<1>5. CASE h # {k}
  <2> DEFINE p == <<h \ {k}>> \o r
  <2>1. Popped(k) = p
    BY <1>5 DEF Popped
  <2>2. /\ Len(p) = Len(r) + 1 /\ Len(r) \in Nat /\ p[1] = h \ {k}
        /\ \A i \in 1 .. Len(r) : p[i + 1] = r[i]
    BY <1>1
  <2>3. ASSUME NEW i \in 1 .. Len(p), i # 1
        PROVE  i - 1 \in 1 .. Len(r) /\ p[i] = r[i - 1]
    <3>1. i - 1 \in 1 .. Len(r) /\ (i - 1) + 1 = i
      BY <2>2, <2>3
    <3> QED BY <2>2, <3>1
  <2> HIDE DEF p, r, h
  <2>4. ASSUME NEW i \in 1 .. Len(p)
        PROVE  k \notin p[i]
    BY <1>1, <1>2, <2>2, <2>3
  <2>5. ASSUME NEW i \in 1 .. Len(p), NEW j \in 1 .. Len(p), i # j
        PROVE  p[i] \cap p[j] = {}
    <3>1. CASE i = 1
      BY <1>1, <1>2, <2>2, <2>3, <2>5, <3>1
    <3>2. CASE j = 1
      BY <1>1, <1>2, <2>2, <2>3, <2>5, <3>2
    <3>3. CASE i # 1 /\ j # 1
      <4>1. i - 1 # j - 1
        BY <2>2, <2>5
      <4> QED BY <1>3, <2>3, <3>3, <4>1
    <3> QED BY <3>1, <3>2, <3>3
  <2> QED BY <2>1, <2>4, <2>5 DEF Apart, QueuedIn
<1> QED BY <1>4, <1>5

\* What meeting a kill does to its gate's counts.
LEMMA WalkCounts ==
    ASSUME ConfirmTypeOK, NEW v \in BOOLEAN, ConfirmKill(v) \/ SkipKill(v)
    PROVE  LET t == targetOf[pos]
               h == gates'[t]
           IN  /\ h.streak = IF gates[t].made THEN gates[t].streak ELSE 0
               /\ SkipKill(v) => /\ h.sinceSample = (IF gates[t].made THEN gates[t].sinceSample ELSE 0) + 1
                                 /\ h.sinceSample < ConfirmStride
                                 /\ h.streak >= ConfirmStreak
<1> DEFINE t == targetOf[pos]
           g == GateFor(t, v)
<1>1. pos \in Kills /\ t \in Targets /\ g \in Gate
  BY GateForTyped DEF ConfirmTypeOK, ConfirmKill, SkipKill
<1>2. /\ g.streak = IF gates[t].made THEN gates[t].streak ELSE 0
      /\ g.sinceSample = IF gates[t].made THEN gates[t].sinceSample ELSE 0
  BY DEF GateFor
<1>3. gates \in [Targets -> Gate]
  BY DEF ConfirmTypeOK
<1> HIDE DEF g
<1>4. CASE ConfirmKill(v)
  <2>1. gates'[t] = IF Armed(g) THEN g ELSE [g EXCEPT !.sinceSample = 0]
    BY <1>1, <1>3, <1>4 DEF ConfirmKill, g
  <2>2. gates'[t].streak = g.streak
    BY <1>1, <2>1 DEF Gate
  <2>3. ~SkipKill(v)
    BY <1>4 DEF ConfirmKill, SkipKill
  <2> QED BY <1>2, <2>2, <2>3
<1>5. CASE SkipKill(v)
  <2>1. gates'[t] = [g EXCEPT !.sinceSample = g.sinceSample + 1] /\ ~Armed(g) /\ ~SampleDue(g)
    BY <1>1, <1>3, <1>5 DEF SkipKill, g
  <2>2. gates'[t].streak = g.streak /\ gates'[t].sinceSample = g.sinceSample + 1
    BY <1>1, <2>1 DEF Gate
  <2>3. g.streak >= ConfirmStreak /\ g.sinceSample + 1 < ConfirmStride
    BY <1>1, <2>1, ConfirmAssumption DEF Armed, SampleDue, Gate
  <2> QED BY <1>2, <2>2, <2>3
<1> QED BY <1>4, <1>5

\* A serial re-run counts a reproduction and nothing of the stride.
LEMMA DrainCounts ==
    ASSUME ConfirmTypeOK, NEW k \in Kills, NEW o \in Outcomes, NEW u \in BOOLEAN,
           ConfirmNext(k, o, u)
    PROVE  \A s \in Targets :
               /\ gates'[s].sinceSample = gates[s].sinceSample
               /\ gates'[s].streak = IF s = targetOf[k] /\ o = "reproduced"
                                     THEN gates[s].streak + 1 ELSE gates[s].streak
<1> DEFINE t == targetOf[k]
<1>1. t \in Targets /\ gates \in [Targets -> Gate]
  BY DEF ConfirmTypeOK
<1>2. PICK g \in Gate : g = gates[t]
  BY <1>1
<1>3. PICK a : a = [g EXCEPT !.volatile = @ \/ (~g.volatile /\ u)]
  OBVIOUS
<1>4. a.streak = g.streak /\ a.sinceSample = g.sinceSample /\ DOMAIN a = DOMAIN g
  BY <1>2, <1>3 DEF Gate
<1>5. gates' = [gates EXCEPT ![t] = Observe(a, o)]
  BY <1>2, <1>3 DEF ConfirmNext
<1>6. /\ Observe(a, o).sinceSample = a.sinceSample
      /\ Observe(a, o).streak = IF o = "reproduced" THEN a.streak + 1 ELSE a.streak
  <2>1. a \in Gate
    BY <1>2, <1>3 DEF Gate
  <2> QED BY <2>1 DEF Observe, Gate
<1> QED BY <1>1, <1>2, <1>4, <1>5, <1>6

LEMMA KillsCount ==
    ASSUME NEW T \in SUBSET Kills, NEW S \in SUBSET T
    PROVE  /\ IsFiniteSet(T) /\ IsFiniteSet(S) /\ Cardinality(S) \in Nat /\ Cardinality(T) \in Nat
           /\ Cardinality(S) <= Cardinality(T)
<1>1. IsFiniteSet(Kills)
  BY ConfirmAssumption, FS_Interval DEF Kills
<1>2. IsFiniteSet(T)
  BY <1>1, FS_Subset
<1>3. IsFiniteSet(S) /\ Cardinality(S) <= Cardinality(T)
  BY <1>2, FS_Subset
<1> QED BY <1>2, <1>3, FS_CardinalityType

\* The reproductions before a kill, of its own target.
Behind(k) == {j \in 1 .. k : targetOf[j] = targetOf[k] /\ confirmed[j] = "reproduced"}

\* A skip that was earned stays earned while only kills that were not
\* re-run are.
LEMMA EarnedStays ==
    ASSUME ConfirmTypeOK, UNCHANGED targetOf, NEW k \in skipped, SkipsAreEarned,
           \A j \in Kills : confirmed[j] = "reproduced" => confirmed'[j] = "reproduced"
    PROVE  Cardinality(Behind(k)') >= ConfirmStreak
<1>1. \A j \in 1 .. k : j \in Kills
  BY ConfirmAssumption DEF ConfirmTypeOK, Kills
<1>2. Behind(k) \in SUBSET Behind(k)' /\ Behind(k)' \in SUBSET Kills
  BY <1>1 DEF Behind
<1>3. Cardinality(Behind(k)) >= ConfirmStreak
  BY DEF SkipsAreEarned, Behind
<1> QED BY <1>2, <1>3, KillsCount, ConfirmAssumption

LEMMA SampInitSound == ConfirmInit => SampInv
<1> SUFFICES ASSUME ConfirmInit
             PROVE  SampInv
  OBVIOUS
<1>1. queue = <<>> /\ skipped = {} /\ pos = 1 /\ \A k \in Kills : k >= 1 /\ ~(k < pos) /\ confirmed[k] = "none"
  BY DEF ConfirmInit, Kills
<1>2. OnceInLine
  BY <1>1 DEF OnceInLine, Apart, QueuedIn
<1>3. StreaksReproduced
  <2>1. \A t \in Targets : gates[t].streak = 0
    BY DEF ConfirmInit, NoGate
  <2>2. \A t \in Targets : Cardinality(Reproduced(t)) \in Nat
    BY KillsCount DEF Reproduced
  <2> QED BY <2>1, <2>2 DEF StreaksReproduced
<1>4. SkipsAreEarned
  BY <1>1 DEF SkipsAreEarned
<1>5. Dense
  <2>1. \A i \in Kills : ~(i + ConfirmStride - 1 < pos)
    BY <1>1, ConfirmAssumption DEF Kills
  <2> QED BY <1>1, <2>1 DEF Dense
<1> QED BY <1>2, <1>3, <1>4, <1>5 DEF SampInv

\* A kill met by the walk, re-run at once or strode over.
LEMMA SampWalked ==
    ASSUME IInv, IInv', SampInv, NEW v \in BOOLEAN, ConfirmKill(v) \/ SkipKill(v)
    PROVE  SampInv'
<1> DEFINE t == targetOf[pos]
<1>1. /\ ConfirmTypeOK /\ ConfirmTypeOK' /\ Placed /\ GatesOfWalked
      /\ OnceInLine /\ StreaksReproduced /\ SkipsAreEarned /\ Dense
  BY DEF IInv, SampInv
<1>2. /\ pos \in Kills /\ queue = <<>> /\ pos' = pos + 1 /\ t \in Targets
      /\ UNCHANGED <<targetOf, confirmed>>
      /\ \A s \in Targets : s # t => gates'[s] = gates[s]
  BY <1>1, WalkGates DEF ConfirmKill, SkipKill
<1>3. \/ SkipKill(v) /\ queue' = <<>> /\ skipped' = skipped \cup {pos}
      \/ ConfirmKill(v) /\ queue' = <<{pos}>> /\ skipped' = skipped
  BY <1>2 DEF ConfirmKill, SkipKill
<1>4. /\ gates'[t].streak = IF gates[t].made THEN gates[t].streak ELSE 0
      /\ SkipKill(v) => /\ gates'[t].sinceSample = (IF gates[t].made THEN gates[t].sinceSample ELSE 0) + 1
                        /\ gates'[t].sinceSample < ConfirmStride
                        /\ gates'[t].streak >= ConfirmStreak
  BY <1>1, WalkCounts
<1>5. /\ confirmed[pos] = "none" /\ pos \in Nat /\ pos \notin skipped /\ skipped \subseteq Kills
      /\ \A k \in Kills : k \in Nat /\ 1 .. k \subseteq Kills
      /\ \A k \in skipped : k < pos
  <2>1. \A k \in Kills : k \in Nat /\ 1 .. k \subseteq Kills
    BY ConfirmAssumption DEF Kills
  <2>2. skipped \subseteq Kills /\ \A k \in skipped : k < pos
    BY <1>1 DEF Placed, ConfirmTypeOK
  <2> QED BY <1>1, <1>2, <2>1, <2>2 DEF OnceInLine
<1>6. OnceInLine'
  <2>1. QueuedIn(queue') = (IF queue' = <<>> THEN {} ELSE {pos}) /\ Apart(queue')
    BY <1>3 DEF QueuedIn, Apart
  <2>2. \A k \in Kills : k >= pos' => k >= pos
    BY <1>2, <1>5
  <2> QED BY <1>1, <1>2, <1>3, <1>5, <2>1, <2>2 DEF OnceInLine
<1>7. \A s \in Targets : Cardinality(Reproduced(s)) <= Cardinality(Reproduced(s)')
  <2> TAKE s \in Targets
  <2>1. \A j \in Kills : j < pos => j < pos'
    BY <1>2, <1>5
  <2>2. Reproduced(s) \in SUBSET Reproduced(s)' /\ Reproduced(s)' \in SUBSET Kills
    BY <1>2, <2>1 DEF Reproduced
  <2> QED BY <2>2, KillsCount
<1>8. \A s \in Targets : Cardinality(Reproduced(s)) \in Nat /\ Cardinality(Reproduced(s)') \in Nat
                         /\ gates[s].streak \in Nat /\ gates'[s].streak \in Nat
                         /\ gates[s].sinceSample \in Nat /\ gates'[s].sinceSample \in Nat
  <2> TAKE s \in Targets
  <2>1. gates[s] \in Gate /\ gates'[s] \in Gate
    BY <1>1 DEF ConfirmTypeOK
  <2>2. Reproduced(s) \in SUBSET Kills /\ Reproduced(s)' \in SUBSET Kills
    BY <1>2 DEF Reproduced
  <2> QED BY <2>1, <2>2, KillsCount, ConfirmAssumption DEF Gate
<1>9. StreaksReproduced'
  <2>1. ASSUME NEW s \in Targets
        PROVE  gates'[s].streak <= Cardinality(Reproduced(s)')
    <3>1. gates'[s].streak <= gates[s].streak
      BY <1>2, <1>4, <1>8
    <3>2. gates[s].streak <= Cardinality(Reproduced(s))
      BY <1>1 DEF StreaksReproduced
    <3> QED BY <1>7, <1>8, <3>1, <3>2
  <2> QED BY <2>1 DEF StreaksReproduced
<1>10. SkipsAreEarned'
  <2>1. ASSUME NEW k \in skipped'
        PROVE  Cardinality(Behind(k)') >= ConfirmStreak
    <3>1. CASE k \in skipped
      BY <1>1, <1>2, <3>1, EarnedStays
    <3>2. CASE k \notin skipped
      <4>1. k = pos /\ SkipKill(v)
        BY <1>3, <2>1, <3>2
      <4>2. \A j \in Kills : j < pos => j \in 1 .. pos
        BY <1>5 DEF Kills
      <4>3. Reproduced(t) \in SUBSET Behind(k)' /\ Behind(k)' \in SUBSET Kills
        BY <1>2, <1>5, <4>1, <4>2 DEF Reproduced, Behind
      <4>4. Cardinality(Reproduced(t)) <= Cardinality(Behind(k)') /\ Cardinality(Behind(k)') \in Nat
        BY <4>3, KillsCount
      <4>5. gates'[t].streak >= ConfirmStreak /\ gates'[t].streak <= gates[t].streak
        BY <1>2, <1>4, <1>8, <4>1
      <4>6. gates[t].streak <= Cardinality(Reproduced(t))
        BY <1>1, <1>2 DEF StreaksReproduced
      <4> QED BY <1>2, <1>8, <4>1, <4>4, <4>5, <4>6, ConfirmAssumption
    <3> QED BY <3>1, <3>2
  <2> QED BY <2>1 DEF SkipsAreEarned, Behind
<1>11. ASSUME NEW i \in Kills, i <= pos, \A j \in i .. pos : j \in skipped' /\ targetOf[j] = targetOf[i]
       PROVE  SkipKill(v) /\ targetOf[i] = t /\ pos + 1 - i <= gates'[t].sinceSample
  <2>1. i \in Nat /\ pos \in i .. pos
    BY <1>5, <1>11
  <2>2. SkipKill(v) /\ targetOf[i] = t
    BY <1>3, <1>5, <1>11, <2>1
  <2>3. CASE i = pos
    <3>1. pos + 1 - i = 1
      BY <1>5, <2>3
    <3>2. gates'[t].sinceSample >= 1
      BY <1>2, <1>4, <1>8, <2>2
    <3> QED BY <2>2, <3>1, <3>2
  <2>4. CASE i < pos
    <3>1. \A j \in i .. pos - 1 : j \in i .. pos /\ j # pos
      BY <1>5, <2>1
    <3>2. \A j \in i .. pos - 1 : j \in skipped /\ targetOf[j] = targetOf[i]
      BY <1>3, <1>11, <3>1
    <3>3. pos - i <= gates[t].sinceSample
      BY <1>1, <2>2, <2>4, <3>2 DEF Dense
    <3>4. gates[t].made
      BY <1>1, <2>2, <2>4 DEF GatesOfWalked
    <3> QED BY <1>2, <1>4, <1>5, <1>8, <2>1, <2>2, <3>3, <3>4
  <2>5. i < pos \/ i = pos
    BY <1>5, <1>11, <2>1
  <2> QED BY <2>2, <2>3, <2>4, <2>5
<1>12. Dense'
  <2>1. ASSUME NEW i \in Kills, i + ConfirmStride - 1 < pos',
               targetOf[i + ConfirmStride - 1] = targetOf[i],
               \A j \in i .. i + ConfirmStride - 1 : j \in skipped'
        PROVE  FALSE
    <3>1. i \in Nat /\ ConfirmStride \in Nat \ {0}
      BY <1>5, ConfirmAssumption
    <3>2. CASE i + ConfirmStride - 1 < pos
      <4>1. PICK j \in i .. i + ConfirmStride - 1 : j \notin skipped
        BY <1>1, <2>1, <3>2 DEF Dense
      <4>2. j # pos
        BY <1>5, <3>1, <3>2
      <4> QED BY <1>3, <2>1, <4>1, <4>2
    <3>3. CASE i + ConfirmStride - 1 = pos
      <4>1. ASSUME NEW j \in i .. pos
            PROVE  j \in skipped' /\ targetOf[j] = targetOf[i]
        <5>1. j \in Kills /\ i <= j /\ j <= pos
          BY <1>2, <1>5, <3>1 DEF Kills
        <5>2. targetOf[i] <= targetOf[j] /\ targetOf[j] <= targetOf[pos] /\ targetOf[pos] = targetOf[i]
          BY <1>2, <2>1, <3>3, <5>1 DEF IInv, InTargetOrder
        <5>3. targetOf[i] \in Nat /\ targetOf[j] \in Nat
          BY <1>1, <5>1 DEF ConfirmTypeOK, Targets
        <5> QED BY <2>1, <3>3, <4>1, <5>2, <5>3
      <4>2. i <= pos
        BY <1>5, <3>1, <3>3
      <4>3. SkipKill(v) /\ pos + 1 - i <= gates'[t].sinceSample
        BY <1>11, <4>1, <4>2
      <4>4. pos + 1 - i = ConfirmStride
        BY <1>5, <3>1, <3>3
      <4> QED BY <1>2, <1>4, <1>8, <3>1, <4>3, <4>4
    <3> QED BY <1>2, <1>5, <2>1, <3>1, <3>2, <3>3
  <2>2. ASSUME NEW i \in Kills, i < pos', \A j \in i .. pos' - 1 : j \in skipped' /\ targetOf[j] = targetOf[i]
        PROVE  pos' - i <= gates'[targetOf[i]].sinceSample
    <3>1. i <= pos /\ pos' - 1 = pos
      BY <1>2, <1>5, <2>2
    <3>2. \A j \in i .. pos : j \in skipped' /\ targetOf[j] = targetOf[i]
      BY <2>2, <3>1
    <3>3. targetOf[i] = t /\ pos + 1 - i <= gates'[t].sinceSample
      BY <1>11, <3>1, <3>2
    <3>4. pos' = pos + 1 /\ pos \in Nat /\ i \in Nat
      BY <1>2, <1>5 DEF Kills
    <3> HIDE DEF t
    <3>5. pos' - i = pos + 1 - i
      BY <3>4
    <3> QED BY <3>3, <3>5
  <2>3. targetOf' = targetOf
    BY <1>2
  <2> QED BY <2>1, <2>2, <2>3 DEF Dense
<1> QED BY <1>6, <1>9, <1>10, <1>12 DEF SampInv

\* A serial re-run: the kill waits no more, the drained skips wait in the
\* queue, and only a reproduction lengthens a streak.
LEMMA SampDrained ==
    ASSUME IInv, IInv', SampInv,
           NEW k \in Kills, NEW o \in Outcomes, NEW u \in BOOLEAN, ConfirmNext(k, o, u)
    PROVE  SampInv'
<1> DEFINE t == targetOf[k]
           own == IF ~gates[t].volatile /\ u THEN SkipsOf(t) ELSE {}
           rest == skipped \ own
           demand == o = "flipped" /\ ~gates[t].flipped /\ ~windowFlipped
           more == IF demand THEN rest ELSE {}
<1>1. /\ ConfirmTypeOK /\ ConfirmTypeOK' /\ Placed
      /\ OnceInLine /\ StreaksReproduced /\ SkipsAreEarned /\ Dense
  BY DEF IInv, SampInv
<1>2. /\ queue' = Enqueue(Enqueue(Popped(k), own), more)
      /\ skipped' = IF demand THEN {} ELSE rest
      /\ IsNext(k) /\ confirmed' = [confirmed EXCEPT ![k] = o] /\ UNCHANGED <<targetOf, pos>>
  BY DEF ConfirmNext
<1>3. own \in SUBSET Kills /\ more \in SUBSET Kills /\ own \subseteq skipped
  BY <1>1 DEF SkipsOf, ConfirmTypeOK
<1>4. more \subseteq skipped /\ more \cap own = {} /\ skipped' \cap (own \cup more) = {} /\ skipped' \subseteq skipped
  BY <1>2, <1>3
<1> HIDE DEF own, more, rest, demand
<1>5. /\ Popped(k) \in Seq(SUBSET Kills) /\ QueuedIn(Popped(k)) \subseteq QueuedIn(queue)
      /\ k \in QueuedIn(queue) /\ Apart(Popped(k)) /\ k \notin QueuedIn(Popped(k))
  BY <1>1, <1>2, PoppedKeeps, PoppedApart DEF ConfirmTypeOK, OnceInLine
<1>6. QueuedIn(queue) \cap skipped = {}
  BY <1>1 DEF OnceInLine
<1>7. Apart(queue') /\ QueuedIn(queue') = QueuedIn(Popped(k)) \cup own \cup more
  <2>1. /\ Enqueue(Popped(k), own) \in Seq(SUBSET Kills)
        /\ QueuedIn(Enqueue(Popped(k), own)) = QueuedIn(Popped(k)) \cup own
    BY <1>3, <1>5, EnqueueAdds
  <2>2. QueuedIn(Popped(k)) \cap own = {}
    BY <1>3, <1>5, <1>6
  <2>3. Apart(Enqueue(Popped(k), own))
    BY <1>3, <1>5, <2>2, EnqueueApart
  <2>4. QueuedIn(Enqueue(Popped(k), own)) \cap more = {}
    BY <1>4, <1>5, <1>6, <2>1
  <2> QED BY <1>2, <1>3, <2>1, <2>3, <2>4, EnqueueApart, EnqueueAdds
<1>8. confirmed[k] = "none" /\ k < pos
  BY <1>1, <1>5 DEF OnceInLine, Placed
<1>9. \A j \in Kills : confirmed'[j] = IF j = k THEN o ELSE confirmed[j]
  BY <1>1, <1>2 DEF ConfirmTypeOK
<1>10. OnceInLine'
  <2>1. QueuedIn(queue') \subseteq QueuedIn(queue) \cup skipped /\ k \notin QueuedIn(queue') /\ k \notin skipped'
    BY <1>3, <1>4, <1>5, <1>6, <1>7
  <2>2. QueuedIn(queue') \cap skipped' = {}
    BY <1>4, <1>5, <1>6, <1>7
  <2>3. pos \in Nat /\ k \in Nat
    BY <1>1, ConfirmAssumption DEF ConfirmTypeOK, Kills
  <2>4. ASSUME NEW j \in Kills, j \in QueuedIn(queue') \cup skipped' \/ j >= pos
        PROVE  confirmed'[j] = "none"
    <3>1. j # k
      BY <1>8, <2>1, <2>3, <2>4
    <3>2. j \in QueuedIn(queue) \cup skipped \/ j >= pos
      BY <1>4, <2>1, <2>4
    <3> QED BY <1>1, <1>9, <3>1, <3>2 DEF OnceInLine
  <2> QED BY <1>2, <1>7, <2>2, <2>4 DEF OnceInLine
<1>11. \A s \in Targets :
           /\ gates'[s].sinceSample = gates[s].sinceSample
           /\ gates'[s].streak = IF s = t /\ o = "reproduced" THEN gates[s].streak + 1 ELSE gates[s].streak
           /\ gates[s].streak \in Nat
  <2>1. \A s \in Targets : gates[s].streak \in Nat
    BY <1>1 DEF ConfirmTypeOK, Gate
  <2> QED BY <1>1, <2>1, DrainCounts
<1>12. StreaksReproduced'
  <2>1. ASSUME NEW s \in Targets
        PROVE  gates'[s].streak <= Cardinality(Reproduced(s)')
    <3>1. Reproduced(s) \in SUBSET Reproduced(s)' /\ Reproduced(s)' \in SUBSET Kills
      BY <1>2, <1>8, <1>9 DEF Reproduced
    <3>2. /\ Cardinality(Reproduced(s)) <= Cardinality(Reproduced(s)') /\ Cardinality(Reproduced(s)) \in Nat
          /\ Cardinality(Reproduced(s)') \in Nat /\ IsFiniteSet(Reproduced(s))
      BY <3>1, KillsCount
    <3>3. gates[s].streak <= Cardinality(Reproduced(s))
      BY <1>1 DEF StreaksReproduced
    <3>4. CASE s = t /\ o = "reproduced"
      <4>1. k \notin Reproduced(s)
        BY <1>8 DEF Reproduced
      <4>2. Reproduced(s) \cup {k} \in SUBSET Reproduced(s)'
        BY <1>2, <1>8, <1>9, <3>1, <3>4 DEF Reproduced
      <4>3. Cardinality(Reproduced(s) \cup {k}) = Cardinality(Reproduced(s)) + 1
        BY <3>2, <4>1, FS_AddElement
      <4>4. Cardinality(Reproduced(s) \cup {k}) <= Cardinality(Reproduced(s)')
        BY <3>1, <4>2, KillsCount
      <4> QED BY <1>11, <3>2, <3>3, <3>4, <4>3, <4>4
    <3>5. CASE ~(s = t /\ o = "reproduced")
      BY <1>11, <3>2, <3>3, <3>5
    <3> QED BY <3>4, <3>5
  <2> QED BY <2>1 DEF StreaksReproduced
<1>13. SkipsAreEarned'
  <2>1. \A j \in Kills : confirmed[j] = "reproduced" => confirmed'[j] = "reproduced"
    BY <1>8, <1>9
  <2>2. ASSUME NEW j \in skipped'
        PROVE  Cardinality(Behind(j)') >= ConfirmStreak
    BY <1>1, <1>2, <1>4, <2>1, <2>2, EarnedStays
  <2> QED BY <2>2 DEF SkipsAreEarned, Behind
<1>14. Dense'
  <2>1. \A i \in Kills : targetOf[i] \in Targets
    BY <1>1 DEF ConfirmTypeOK
  <2>2. \A i \in Kills :
            i + ConfirmStride - 1 < pos /\ targetOf[i + ConfirmStride - 1] = targetOf[i]
            => \E j \in i .. i + ConfirmStride - 1 : j \notin skipped'
    BY <1>1, <1>4 DEF Dense
  <2>3. \A i \in Kills :
            i < pos /\ (\A j \in i .. pos - 1 : j \in skipped' /\ targetOf[j] = targetOf[i])
            => pos - i <= gates'[targetOf[i]].sinceSample
    BY <1>1, <1>4, <1>11, <2>1 DEF Dense
  <2> QED BY <1>2, <2>2, <2>3 DEF Dense
<1> QED BY <1>10, <1>12, <1>13, <1>14 DEF SampInv

LEMMA SampKept == IInv /\ IInv' /\ SampInv /\ [ConfirmStep]_confirmVars => SampInv'
<1> SUFFICES ASSUME IInv, IInv', SampInv, [ConfirmStep]_confirmVars
             PROVE  SampInv'
  OBVIOUS
<1>1. CASE \E v \in BOOLEAN : ConfirmKill(v) \/ SkipKill(v)
  BY <1>1, SampWalked
<1>2. CASE Drain
  BY <1>2, SampDrained DEF Drain
<1>3. CASE ConfirmFails \/ WalkReturns \/ UNCHANGED confirmVars
  <2>1. UNCHANGED <<targetOf, pos, gates, skipped, queue, confirmed>>
    BY <1>3 DEF ConfirmFails, WalkReturns, confirmVars
  <2>2. OnceInLine'
    BY <2>1 DEF SampInv, OnceInLine, Apart, QueuedIn
  <2>3. StreaksReproduced'
    BY <2>1 DEF SampInv, StreaksReproduced, Reproduced
  <2>4. SkipsAreEarned' /\ Dense'
    BY <2>1 DEF SampInv, SkipsAreEarned, Dense
  <2> QED BY <2>2, <2>3, <2>4 DEF SampInv
<1> QED BY <1>1, <1>2, <1>3 DEF ConfirmStep, Walk, Returned

\* A skipped kill stands behind ConfirmStreak reproductions of its own
\* target, and of any ConfirmStride consecutive kills of a target one was
\* re-run when the walk returns: for every window, streak, stride and
\* serial evidence (armed and confirmNow, src/schedule.go).
THEOREM SamplingIsSound == ConfirmSpec => []SamplingSound
<1>1. IInv /\ SampInv => SamplingSound
  <2> SUFFICES ASSUME IInv, SampInv, pc = "done", NEW i \in Kills, i + ConfirmStride - 1 \in Kills,
                      targetOf[i + ConfirmStride - 1] = targetOf[i]
               PROVE  \E j \in i .. i + ConfirmStride - 1 : confirmed[j] # "none"
    BY DEF SamplingSound, SampInv, StrideBound
  <2>1. pos = NKills + 1
    BY ConfirmAssumption DEF IInv, DoneIsDrained, ConfirmTypeOK, Kills
  <2>2. i + ConfirmStride - 1 < pos
    BY <2>1, ConfirmAssumption DEF Kills
  <2>3. PICK j \in i .. i + ConfirmStride - 1 : j \notin skipped
    BY <2>2 DEF SampInv, Dense
  <2>4. j \in Kills
    BY <2>3, ConfirmAssumption DEF Kills
  <2> QED BY <2>3, <2>4, DoneConfirmsUnskipped
<1>2. ConfirmSpec => [](IInv /\ SampInv)
  BY InitInvariant, NextInvariant, SampInitSound, SampKept, PTL DEF ConfirmSpec
<1> QED BY <1>1, <1>2, PTL
==============================================================================
