----------------------------- MODULE StagesProofs -----------------------------
(***************************************************************************)
(* Proofs about three of a campaign's stages: an execution window, for any *)
(* candidates, works and workers (what is aggregated is measured, one      *)
(* candidate at most is admitted after a stop, and the completion counts   *)
(* never fall); the preparation of its targets, for any target lists,      *)
(* oracle groups and mishaps; and the bank file campaigns over one tree    *)
(* share.                                                                  *)
(***************************************************************************)
EXTENDS Window, Preparation, Cache, FiniteSetTheorems, TLAPS

------------------------------------------------------------------------------
(* A window: dispatch, pool and ticks.                                     *)

\* A worker that holds a candidate, before and after its verdict.
Owes(w) == phase[w] \in {"taken", "running"}
Has(w)  == phase[w] \in {"taken", "running", "scored"}

\* Every candidate the walk passed has one owner, or its verdict.
Owned ==
    /\ dispatcher = "offering" => at \in Executes
    /\ \A c \in scored : c < at
    /\ \A w \in Workers : Has(w) => job[w] \in Executes /\ job[w] < at
    /\ \A v, w \in Workers : Has(v) /\ Has(w) /\ job[v] = job[w] => v = w
    /\ \A w \in Workers : Owes(w) => job[w] \notin scored
    /\ \A w \in Workers : phase[w] = "scored" => job[w] \in scored
    /\ \A c \in Executes :
           c < at => \/ c \in scored
                     \/ \E w \in Workers : Owes(w) /\ job[w] = c
                     \/ PoolDone

\* The walk ended past its last candidate, at the break, or with the pool.
Walked ==
    /\ dispatcher \in {"looking", "offering"} => broken = 0
    /\ dispatcher \in {"waiting", "settled", "left"} =>
           \/ broken \in Candidates /\ broken = at
           \/ broken = 0 /\ at = Total + 1
           \/ broken = 0 /\ PoolDone
    /\ dispatcher \in {"settled", "left"} => \A w \in Workers : phase[w] = "ended"

\* tickMu is held by the worker whose count is the last, undelivered yet.
Ticking ==
    /\ \A w \in Workers : phase[w] = "counted" => ticking = w /\ tick[w] = count
    /\ shown <= count

\* The count, until the boundary trues it up.
Pending == {job[w] : w \in {v \in Workers : phase[v] = "scored"}}
Tallied == dispatcher \in {"looking", "offering", "waiting"}
               => count = Cardinality(scored \ Pending)

Kept ==
    /\ kept \cap Executes \subseteq scored
    /\ \A c, d \in Candidates :
           Work[c] = Work[d] /\ Work[c] \in Indivisible /\ c \in kept => d \in kept

Admitted ==
    /\ late <= 1
    /\ late > 0 => stop /\ dispatcher # "offering"

Converged ==
    /\ outcome = "executed" => dispatcher = "left"
    /\ broken = 0 /\ (dispatcher = "settled" \/ outcome = "executed") => count = Total

WInv == TypeOK /\ Owned /\ Walked /\ Ticking /\ Kept /\ Admitted
CInv == WInv /\ Tallied /\ Converged

------------------------------------------------------------------------------

LEMMA InitInv == Init => WInv
<1> SUFFICES ASSUME Init PROVE WInv
  OBVIOUS
<1> USE DEF Init
<1>1. PICK started \in SUBSET Workers :
          phase = [w \in Workers |-> IF w \in started THEN "idle" ELSE "ended"]
  OBVIOUS
<1>2. phase \in [Workers -> Phases] /\ \A w \in Workers : phase[w] \in {"idle", "ended"}
  BY <1>1 DEF Phases
<1>3. at \in 1 .. Total + 1 /\ broken \in 0 .. Total
      /\ job \in [Workers -> 0 .. Total] /\ tick \in [Workers -> Nat]
  BY WindowAssumption
<1>4. TypeOK
  BY <1>2, <1>3 DEF TypeOK
<1>5. Owned
  BY <1>2, WindowAssumption DEF Owned, Has, Owes, Candidates
<1>6. Walked /\ Ticking /\ Kept /\ Admitted
  BY <1>2 DEF Walked, Ticking, Kept, Admitted
<1> QED BY <1>4, <1>5, <1>6 DEF WInv

\* The walk moves on or ends: no worker moves.
LEMMA DispatchWalkInv ==
    ASSUME WInv, LookStops \/ LookPasses \/ LookEnds \/ OfferStops \/ OfferQuits
    PROVE  WInv'
<1> USE DEF Leaves, Breaks
<1>1. /\ UNCHANGED <<working, counting, scored, settling, failed, stop, cancelled, late>>
      /\ dispatcher \in {"looking", "offering"}
      /\ dispatcher' \in {"looking", "offering", "waiting"}
  BY DEF LookStops, LookPasses, LookEnds, OfferStops, OfferQuits
<1>2. /\ at' = at \/ (at' = at + 1 /\ at \in Candidates /\ at \notin Executes)
      /\ dispatcher' = "offering" => at' \in Executes /\ ~stop
      /\ broken = 0
      /\ \/ dispatcher' # "waiting" /\ broken' = 0
         \/ dispatcher' = "waiting" /\ at' = at
            /\ \/ broken' = at /\ at \in Candidates
               \/ broken' = 0 /\ at \notin Candidates
               \/ broken' = 0 /\ PoolDone
  <2>1. dispatcher = "offering" => at \in Candidates
    BY WindowAssumption DEF WInv, Owned
  <2> QED
    BY <1>1, <2>1 DEF LookStops, LookPasses, LookEnds, OfferStops, OfferQuits, Offered, SeesStop,
                      WInv, Walked
<1>3. TypeOK'
  <2>1. Total \in Nat /\ at \in 1 .. Total + 1
    BY WindowAssumption DEF WInv, TypeOK
  <2>2. at' \in 1 .. Total + 1 /\ broken' \in 0 .. Total
    BY <1>2, <2>1 DEF Candidates
  <2> QED BY <1>1, <2>2 DEF WInv, TypeOK, working, counting, settling
<1>4. at' >= at /\ at \in Int /\ at' \in Int
  BY <1>2 DEF WInv, TypeOK
<1>5. Owned'
  <2>1. \A c \in Executes : c < at' => c < at
    BY <1>2, <1>4, WindowAssumption DEF Candidates
  <2>2. \A c \in scored : c < at' /\ c \in Int
    BY <1>4, WindowAssumption DEF WInv, Owned, TypeOK, Candidates
  <2>3. \A w \in Workers : Has(w) => job[w] < at'
    BY <1>4 DEF WInv, Owned, TypeOK
  <2> QED BY <1>1, <1>2, <2>1, <2>2, <2>3 DEF WInv, Owned, Has, Owes, PoolDone, working
<1>6. Walked'
  <2>1. at \notin Candidates => at = Total + 1
    BY WindowAssumption DEF WInv, TypeOK, Candidates
  <2> QED BY <1>1, <1>2, <2>1 DEF WInv, Walked, PoolDone
<1>7. Ticking' /\ Kept'
  BY <1>1 DEF WInv, Ticking, Kept, working, counting, settling
<1>8. Admitted'
  BY <1>1, <1>2 DEF WInv, Admitted, TypeOK
<1> QED BY <1>3, <1>5, <1>6, <1>7, <1>8 DEF WInv

LEMMA OfferInv ==
    ASSUME WInv, NEW w \in Workers, Offer(w)
    PROVE  WInv'
<1> USE DEF Offer
<1>1. at \in Executes /\ at \in Candidates /\ at \in Int /\ at \notin scored
  <2>1. at \in Executes
    BY DEF WInv, Owned
  <2>2. at \in Candidates /\ at \in Int
    BY <2>1, WindowAssumption DEF Candidates
  <2>3. at \notin scored
    BY <2>2 DEF WInv, Owned
  <2> QED BY <2>1, <2>2, <2>3
<1>2. phase' = [phase EXCEPT ![w] = "taken"] /\ job' = [job EXCEPT ![w] = at] /\ at' = at + 1
  OBVIOUS
<1>3. TypeOK'
  <2>1. Total \in Nat /\ at \in 1 .. Total
    BY <1>1, WindowAssumption DEF Candidates
  <2>2. at' \in 1 .. Total + 1 /\ job' \in [Workers -> 0 .. Total]
    BY <2>1 DEF WInv, TypeOK
  <2>3. phase' \in [Workers -> Phases] /\ late' \in Nat
    BY DEF WInv, TypeOK, Phases
  <2> QED BY <2>2, <2>3 DEF WInv, TypeOK, counting, settling
<1>4. Owned'
  <2>1. \A c \in scored : c < at' /\ c \in Int
    BY <1>1, WindowAssumption DEF WInv, Owned, TypeOK, Candidates
  <2>2. \A v \in Workers : Has(v)' => job'[v] \in Executes /\ job'[v] < at'
    BY <1>1 DEF WInv, Owned, TypeOK, Has
  <2>3. \A v \in Workers : Has(v) => job[v] # at
    BY <1>1 DEF WInv, Owned, TypeOK
  <2>4. \A u, v \in Workers : Has(u)' /\ Has(v)' /\ job'[u] = job'[v] => u = v
    BY <2>3 DEF WInv, Owned, TypeOK, Has
  <2>5. \A v \in Workers : Owes(v)' => job'[v] \notin scored'
    BY <1>1 DEF WInv, Owned, TypeOK, Owes
  <2>6. \A v \in Workers : phase'[v] = "scored" => job'[v] \in scored'
    BY DEF WInv, Owned, TypeOK
  <2>7. ASSUME NEW c \in Executes, c < at'
        PROVE  c \in scored' \/ (\E v \in Workers : Owes(v)' /\ job'[v] = c) \/ PoolDone'
    <3>1. CASE c = at
      <4>1. Owes(w)' /\ job'[w] = c
        BY <3>1 DEF Owes, WInv, TypeOK
      <4> QED BY <4>1
    <3>2. CASE c # at
      <4>1. c < at
        BY <1>1, <2>7, <3>2, WindowAssumption DEF Candidates
      <4>2. ASSUME NEW v \in Workers, Owes(v), job[v] = c PROVE Owes(v)' /\ job'[v] = c
        BY <4>2 DEF Owes, WInv, TypeOK
      <4> QED BY <4>1, <4>2 DEF WInv, Owned, PoolDone
    <3> QED BY <3>1, <3>2
  <2> QED BY <2>1, <2>2, <2>4, <2>5, <2>6, <2>7 DEF Owned
<1>5. Walked' /\ Kept'
  BY DEF WInv, Walked, Kept, settling
<1>6. Ticking'
  BY DEF WInv, Ticking, TypeOK, counting
<1>7. Admitted'
  BY DEF WInv, Admitted, TypeOK
<1> QED BY <1>3, <1>4, <1>5, <1>6, <1>7 DEF WInv

\* A worker's step, seen from the candidates: it gives nothing up before a
\* verdict unless the pool is done.
LEMMA BecomesInv ==
    ASSUME WInv, NEW w \in Workers, NEW from \in Phases, NEW to \in Phases \ {"taken"},
           Becomes(w, from, to), from # "ended", to = "running" => from = "taken",
           to = "scored" => from = "running" /\ scored' = scored \cup {job[w]},
           to # "scored" => scored' = scored,
           from \in {"taken", "running"} /\ to \notin {"running", "scored"} => PoolDone',
           PoolDone => PoolDone'
    PROVE  /\ Owned' /\ Walked' /\ Kept' /\ Admitted'
           /\ phase' \in [Workers -> Phases] /\ job' \in [Workers -> 0 .. Total]
           /\ scored' \subseteq Executes
<1> USE DEF Becomes, dispatching
<1>1. /\ phase' = [phase EXCEPT ![w] = to] /\ phase[w] = from
      /\ job' = [job EXCEPT ![w] = IF to \in {"idle", "ended"} THEN 0 ELSE @]
      /\ UNCHANGED <<dispatcher, at, broken, late, kept, outcome, stop, cancelled>>
  BY DEF settling
<1>2. phase' \in [Workers -> Phases] /\ phase \in [Workers -> Phases]
      /\ job \in [Workers -> 0 .. Total]
  BY <1>1 DEF WInv, TypeOK
<1>3. job' \in [Workers -> 0 .. Total]
  BY <1>1, <1>2, WindowAssumption
<1>4. \A v \in Workers : v # w => phase'[v] = phase[v] /\ job'[v] = job[v]
  BY <1>1, <1>2
<1>5. phase'[w] = to /\ (to \notin {"idle", "ended"} => job'[w] = job[w])
  BY <1>1, <1>2
<1>6. \A v \in Workers : Has(v)' => Has(v) /\ job'[v] = job[v]
  BY <1>1, <1>4, <1>5 DEF Has, Phases
<1>7. scored' \subseteq Executes /\ \A c \in scored' : c < at
  BY <1>1 DEF WInv, TypeOK, Owned, Has
<1>8. Owned'
  <2>1. \A v \in Workers : Has(v)' => job'[v] \in Executes /\ job'[v] < at'
    BY <1>1, <1>6 DEF WInv, Owned
  <2>2. \A u, v \in Workers : Has(u)' /\ Has(v)' /\ job'[u] = job'[v] => u = v
    BY <1>6 DEF WInv, Owned
  <2>3. \A v \in Workers : Owes(v)' => job'[v] \notin scored'
    <3> TAKE v \in Workers
    <3>1. CASE v = w
      BY <1>1, <1>5, <3>1 DEF WInv, Owned, Owes, Phases
    <3>2. CASE v # w
      <4>1. Owes(v)' => Has(v) /\ Owes(v) /\ job'[v] = job[v]
        BY <1>4, <3>2 DEF Owes, Has
      <4>2. to = "scored" => Has(w)
        BY <1>1 DEF Has
      <4> QED BY <3>2, <4>1, <4>2 DEF WInv, Owned
    <3> QED BY <3>1, <3>2
  <2>4. \A v \in Workers : phase'[v] = "scored" => job'[v] \in scored'
    BY <1>1, <1>4, <1>5 DEF WInv, Owned
  <2>5. ASSUME NEW c \in Executes, c < at'
        PROVE  c \in scored' \/ (\E v \in Workers : Owes(v)' /\ job'[v] = c) \/ PoolDone'
    <3>1. CASE c \in scored \/ PoolDone
      BY <3>1
    <3>2. ASSUME NEW v \in Workers, Owes(v), job[v] = c, v # w
          PROVE  Owes(v)' /\ job'[v] = c
      BY <1>4, <3>2 DEF Owes
    <3>3. ASSUME Owes(w), job[w] = c
          PROVE  c \in scored' \/ (Owes(w)' /\ job'[w] = c) \/ PoolDone'
      BY <1>1, <1>5, <3>3 DEF Owes
    <3> QED BY <1>1, <2>5, <3>1, <3>2, <3>3 DEF WInv, Owned
  <2> QED BY <1>1, <1>7, <2>1, <2>2, <2>3, <2>4, <2>5 DEF WInv, Owned
<1>9. dispatcher \notin {"settled", "left"}
  BY <1>1 DEF WInv, Walked
<1>10. Walked'
  BY <1>1, <1>9 DEF WInv, Walked
<1>11. Kept' /\ Admitted'
  BY <1>1 DEF WInv, Kept, Admitted
<1> QED BY <1>2, <1>3, <1>7, <1>8, <1>10, <1>11

LEMMA ToilInv ==
    ASSUME WInv, NEW w \in Workers, Toil(w)
    PROVE  WInv'
<1> USE DEF counting, dispatching, settling
<1>0. /\ UNCHANGED <<dispatcher, at, broken, late, kept, outcome, stop, cancelled>>
      /\ PoolDone => PoolDone'
  <2>1. /\ UNCHANGED <<dispatcher, at, broken, late, kept, outcome, stop, cancelled>>
        /\ failed' = failed \/ failed' = (failed \/ ~PoolDone)
    BY DEF Toil, WorkerEnds, WorkerBegins, WorkerQuits, WorkerFails, WorkerScores, WorkerCounts,
           WorkerTicks, Becomes
  <2>2. failed => failed'
    BY <2>1 DEF WInv, TypeOK
  <2> QED BY <2>1, <2>2 DEF PoolDone
<1>1. ASSUME NEW from \in Phases, NEW to \in Phases,
             /\ Owned' /\ Walked' /\ Kept' /\ Admitted'
             /\ phase' \in [Workers -> Phases] /\ job' \in [Workers -> 0 .. Total]
             /\ scored' \subseteq Executes,
             Becomes(w, from, to), to # "counted", from # "counted",
             UNCHANGED <<tick, counting>>, failed' \in BOOLEAN
      PROVE  WInv'
  <2>1. Ticking'
    BY <1>1 DEF WInv, Ticking, Becomes, TypeOK
  <2>2. TypeOK'
    BY <1>0, <1>1 DEF WInv, TypeOK
  <2> QED BY <1>1, <2>1, <2>2 DEF WInv
<1>2. CASE WorkerEnds(w)
  <2>1. Becomes(w, "idle", "ended") /\ UNCHANGED <<tick, counting, scored, failed>>
    BY <1>2 DEF WorkerEnds
  <2> QED BY <1>0, <1>1, <2>1, BecomesInv DEF Phases, WInv, TypeOK
<1>3. CASE WorkerBegins(w)
  <2>1. Becomes(w, "taken", "running") /\ UNCHANGED <<tick, counting, scored, failed>>
    BY <1>3 DEF WorkerBegins
  <2> QED BY <1>0, <1>1, <2>1, BecomesInv DEF Phases, WInv, TypeOK
<1>4. CASE WorkerQuits(w)
  <2>1. Becomes(w, "taken", "ended") /\ UNCHANGED <<tick, counting, scored, failed>> /\ PoolDone
    BY <1>4 DEF WorkerQuits
  <2> QED BY <1>0, <1>1, <2>1, BecomesInv DEF Phases, WInv, TypeOK
<1>5. CASE WorkerFails(w)
  <2>1. Becomes(w, "running", "ended") /\ UNCHANGED <<tick, counting, scored>>
    BY <1>5 DEF WorkerFails
  <2>2. PoolDone' /\ failed' \in BOOLEAN
    BY <1>0, <1>5 DEF WorkerFails, PoolDone
  <2> QED BY <1>0, <1>1, <2>1, <2>2, BecomesInv DEF Phases
<1>6. CASE WorkerScores(w)
  <2>1. Becomes(w, "running", "scored") /\ UNCHANGED <<tick, counting, failed>>
        /\ scored' = scored \cup {job[w]}
    BY <1>6 DEF WorkerScores
  <2> QED BY <1>0, <1>1, <2>1, BecomesInv DEF Phases, WInv, TypeOK
<1>7. CASE WorkerCounts(w)
  <2>1. Becomes(w, "scored", "counted") /\ UNCHANGED <<shown, scored, failed>>
        /\ ticking = None /\ ticking' = w /\ count' = count + 1
        /\ tick' = [tick EXCEPT ![w] = count + 1]
    BY <1>7 DEF WorkerCounts, TickFree
  <2>2. /\ Owned' /\ Walked' /\ Kept' /\ Admitted'
        /\ phase' \in [Workers -> Phases] /\ job' \in [Workers -> 0 .. Total]
        /\ scored' \subseteq Executes
    BY <1>0, <2>1, BecomesInv DEF Phases
  <2>3. \A v \in Workers : phase[v] # "counted"
    BY <2>1, WindowAssumption DEF WInv, Ticking
  <2>4. Ticking'
    BY <2>1, <2>3 DEF WInv, Ticking, Becomes, TypeOK
  <2>5. count' \in Nat /\ tick' \in [Workers -> Nat]
    BY <2>1 DEF WInv, TypeOK
  <2>6. TypeOK'
    BY <1>0, <2>1, <2>2, <2>5 DEF WInv, TypeOK
  <2> QED BY <2>2, <2>4, <2>6 DEF WInv
<1>8. CASE WorkerTicks(w)
  <2>1. Becomes(w, "counted", "idle") /\ UNCHANGED <<count, scored, failed>>
        /\ shown' = tick[w] /\ ticking' = None /\ tick' = [tick EXCEPT ![w] = 0]
    BY <1>8 DEF WorkerTicks
  <2>2. /\ Owned' /\ Walked' /\ Kept' /\ Admitted'
        /\ phase' \in [Workers -> Phases] /\ job' \in [Workers -> 0 .. Total]
        /\ scored' \subseteq Executes
    BY <1>0, <2>1, BecomesInv DEF Phases
  <2>3. ticking = w /\ tick[w] = count
    BY <2>1 DEF WInv, Ticking, Becomes
  <2>4. Ticking'
    BY <2>1, <2>3 DEF WInv, Ticking, Becomes, TypeOK
  <2>5. TypeOK'
    BY <1>0, <2>1, <2>2 DEF WInv, TypeOK
  <2> QED BY <2>2, <2>4, <2>5 DEF WInv
<1> QED BY <1>2, <1>3, <1>4, <1>5, <1>6, <1>7, <1>8 DEF Toil

\* What a joined, standing window keeps is scored, its serves whole.
LEMMA KeepsScored ==
    ASSUME WInv, Joined, ~PoolDone
    PROVE  /\ Keeps \subseteq Candidates
           /\ Keeps \cap Executes \subseteq scored
           /\ \A c, d \in Candidates :
                  Work[c] = Work[d] /\ Work[c] \in Indivisible /\ c \in Keeps => d \in Keeps
           /\ broken = 0 => Keeps = Candidates
<1>1. \A c \in Executes : c < at => c \in scored
  BY DEF WInv, Owned, Joined, Owes
<1>2. (broken \in Candidates /\ broken = at) \/ (broken = 0 /\ at = Total + 1)
  BY DEF WInv, Walked, Joined
<1>3. \A c \in Candidates : c \in Int /\ c < Total + 1 /\ Work[c] \in Int
  BY WindowAssumption DEF Candidates, Works
<1>4. ASSUME NEW c \in Candidates, broken \in Candidates, Work[c] < Work[broken]
      PROVE  c < broken
  <2>1. ~(broken <= c)
    <3>1. broken <= c => Work[broken] <= Work[c]
      BY <1>4, WindowAssumption
    <3> QED BY <1>3, <1>4, <3>1
  <2> QED BY <1>3, <1>4, <2>1
<1>5. Keeps \cap Executes \subseteq scored
  <2> SUFFICES ASSUME NEW c \in Keeps, c \in Executes PROVE c \in scored
    OBVIOUS
  <2>1. c \in Candidates
    BY DEF Keeps
  <2>2. broken # 0 => Work[c] < Work[broken] \/ c < broken
    BY DEF Keeps, Drained
  <2>3. c < at
    <3>1. CASE broken = 0
      <4>1. 0 \notin Candidates
        BY DEF Candidates
      <4> QED BY <1>2, <1>3, <2>1, <3>1, <4>1
    <3>2. CASE broken \in Candidates /\ broken = at /\ broken # 0
      BY <1>4, <2>1, <2>2, <3>2
    <3> QED BY <1>2, <3>1, <3>2 DEF Candidates
  <2> QED BY <1>1, <2>3
<1>6. ASSUME NEW c \in Candidates, NEW d \in Candidates,
             Work[c] = Work[d], Work[c] \in Indivisible, c \in Keeps
      PROVE  d \in Keeps
  BY <1>6 DEF Keeps
<1> QED BY <1>2, <1>5, <1>6 DEF Keeps

LEMMA EndInv ==
    ASSUME WInv, Refuse \/ Settle \/ Return
    PROVE  WInv'
<1> USE DEF working, counting
<1>1. /\ UNCHANGED <<at, broken, late, phase, job, tick, ticking, shown, scored, failed, stop, cancelled>>
      /\ dispatcher \in {"waiting", "settled"} /\ dispatcher' \in {"settled", "left"}
      /\ dispatcher = "settled" \/ Joined
  BY DEF Refuse, Settle, Return, Joined
<1>2. \A w \in Workers : phase[w] = "ended"
  BY <1>1 DEF WInv, Walked, Joined
<1>3. count' \in Nat /\ count' >= count /\ kept' \subseteq Candidates
      /\ outcome' \in {"none", "executed", "failed", "cancelled"}
      /\ Kept'
  <2>1. CASE Settle
    <3>1. Cardinality(Keeps) \in Nat
      <4>1. IsFiniteSet(Candidates)
        BY WindowAssumption, FS_Interval DEF Candidates
      <4> QED BY <4>1, FS_Subset, FS_CardinalityType DEF Keeps
    <3>2. Kept'
      BY <2>1, KeepsScored DEF Settle, Kept
    <3> QED BY <2>1, <3>1, <3>2, KeepsScored DEF Settle, AdvanceDone, WInv, TypeOK
  <2>2. CASE Refuse \/ Return
    BY <2>2 DEF Refuse, Return, WInv, TypeOK, Kept
  <2> QED BY <2>1, <2>2
<1>4. TypeOK'
  BY <1>1, <1>3 DEF WInv, TypeOK
<1>5. Owned' /\ Walked' /\ Admitted'
  BY <1>1, <1>2 DEF WInv, Owned, Walked, Admitted, Has, Owes, PoolDone
<1>6. Ticking'
  <2>1. shown \in Int /\ count \in Int /\ count' \in Int
    BY <1>3 DEF WInv, TypeOK
  <2> QED BY <1>1, <1>2, <1>3, <2>1 DEF WInv, Ticking
<1> QED BY <1>3, <1>4, <1>5, <1>6 DEF WInv

LEMMA NextInv == WInv /\ [Next]_vars => WInv'
<1> SUFFICES ASSUME WInv, [Next]_vars PROVE WInv'
  OBVIOUS
<1>1. CASE SoftStop \/ Cancel \/ UNCHANGED vars
  <2>1. /\ UNCHANGED <<dispatching, working, counting, scored, settling, failed>>
        /\ stop' \in BOOLEAN /\ cancelled' \in BOOLEAN
        /\ (stop => stop') /\ (PoolDone => PoolDone')
    BY <1>1 DEF SoftStop, Cancel, vars, WInv, TypeOK, PoolDone
  <2>2. TypeOK'
    BY <2>1 DEF WInv, TypeOK, dispatching, working, counting, settling
  <2>3. Owned'
    <3>1. UNCHANGED <<dispatcher, at, phase, job, scored>> /\ (PoolDone => PoolDone')
      BY <2>1 DEF dispatching, working
    <3> QED BY <3>1 DEF WInv, Owned, Has, Owes
  <2>4. Walked' /\ Ticking' /\ Kept' /\ Admitted'
    <3>1. /\ UNCHANGED <<dispatcher, at, broken, late, phase, tick, ticking, count, shown, kept, scored>>
          /\ (stop => stop') /\ (PoolDone => PoolDone')
      BY <2>1 DEF dispatching, working, counting, settling
    <3>2. Walked'
      BY <3>1 DEF WInv, Walked
    <3> QED BY <3>1, <3>2 DEF WInv, Ticking, Kept, Admitted
  <2> QED BY <2>2, <2>3, <2>4 DEF WInv
<1>2. CASE Dispatch
  BY <1>2, DispatchWalkInv, OfferInv DEF Dispatch
<1>3. CASE \E w \in Workers : Toil(w)
  BY <1>3, ToilInv
<1>4. CASE Refuse \/ Settle \/ Return
  BY <1>4, EndInv
<1> QED BY <1>1, <1>2, <1>3, <1>4 DEF Next, Step

LEMMA AlwaysInv == Spec => []WInv
BY InitInv, NextInv, PTL DEF Spec

\* The types, for any window and pool: in particular only what
\* executesCandidate selects is ever scored.
THEOREM WindowTypeCorrect == Spec => []TypeOK
<1>1. WInv => TypeOK
  BY DEF WInv
<1> QED BY <1>1, AlwaysInv, PTL

\* What executeWindow hands to aggregation is measured to the last
\* candidate that executes, and no serve or extension is cut.
THEOREM NoPartialWindow == Spec => []NothingPartial
<1>1. WInv => NothingPartial
  BY DEF WInv, Kept, NothingPartial
<1> QED BY <1>1, AlwaysInv, PTL

\* Whatever select chooses, one candidate at most is admitted once the soft
\* stop fired.
THEOREM StopAdmitsOne == Spec => []AdmissionStops
<1>1. WInv => AdmissionStops
  BY DEF WInv, Admitted, AdmissionStops
<1> QED BY <1>1, AlwaysInv, PTL

\* The counts a face sees never fall, for any number of workers.
THEOREM TicksNeverFall == Spec => TicksMonotone
<1>1. WInv /\ [Next]_vars => [shown' >= shown /\ count' >= count]_vars
  <2> SUFFICES ASSUME WInv, Next PROVE shown' >= shown /\ count' >= count
    BY DEF vars, counting
  <2>1. shown \in Int /\ count \in Int /\ shown <= count
    BY DEF WInv, TypeOK, Ticking
  <2>2. CASE UNCHANGED <<shown, count>>
    BY <2>1, <2>2
  <2>3. ASSUME NEW w \in Workers, WorkerCounts(w) PROVE shown' >= shown /\ count' >= count
    BY <2>1, <2>3 DEF WorkerCounts
  <2>4. ASSUME NEW w \in Workers, WorkerTicks(w) PROVE shown' >= shown /\ count' >= count
    BY <2>1, <2>4 DEF WorkerTicks, Becomes, WInv, Ticking
  <2>5. CASE Settle
    <3>1. IsFiniteSet(Candidates)
      BY WindowAssumption, FS_Interval DEF Candidates
    <3>2. Cardinality(Keeps) \in Nat
      BY <3>1, FS_Subset, FS_CardinalityType DEF Keeps
    <3> QED BY <2>1, <2>5, <3>2 DEF Settle, AdvanceDone
  <2>6. UNCHANGED <<shown, count>> \/ Settle
        \/ \E w \in Workers : WorkerCounts(w) \/ WorkerTicks(w)
    BY DEF Next, Step, Dispatch, LookStops, LookPasses, LookEnds, Offer, OfferStops, OfferQuits,
           Leaves, Toil, WorkerEnds, WorkerBegins, WorkerQuits, WorkerFails, WorkerScores,
           Refuse, Return, SoftStop, Cancel, counting
  <2> QED BY <2>2, <2>3, <2>4, <2>5, <2>6
<1> QED BY <1>1, AlwaysInv, PTL DEF Spec, TicksMonotone

------------------------------------------------------------------------------
(* The count at the boundary.                                              *)

LEMMA CandidateSets ==
    /\ IsFiniteSet(Candidates) /\ Cardinality(Candidates) = Total
    /\ \A S \in SUBSET Candidates : /\ IsFiniteSet(S)
                                    /\ Cardinality(S) \in Nat /\ Cardinality(S) <= Total
<1>1. IsFiniteSet(Candidates) /\ Cardinality(Candidates) = Total
  <2>1. Cardinality(1 .. Total) = IF 1 > Total THEN 0 ELSE Total - 1 + 1
    BY WindowAssumption, FS_Interval
  <2> QED BY <2>1, WindowAssumption, FS_Interval DEF Candidates
<1> QED BY <1>1, FS_Subset, FS_CardinalityType

\* Steps that neither score nor count leave the tally as it is.
LEMMA TallyStays ==
    ASSUME WInv, Tallied, UNCHANGED scored, UNCHANGED count,
           dispatcher' \in {"looking", "offering", "waiting"}
               => dispatcher \in {"looking", "offering", "waiting"},
           \A w \in Workers : phase'[w] = "scored" <=> phase[w] = "scored",
           \A w \in Workers : phase[w] = "scored" => job'[w] = job[w]
    PROVE  Tallied'
<1>1. Pending' = Pending
  BY DEF Pending
<1> QED BY <1>1 DEF Tallied

LEMMA NextTallied == WInv /\ Tallied /\ [Next]_vars => Tallied'
<1> SUFFICES ASSUME WInv, Tallied, [Next]_vars PROVE Tallied'
  OBVIOUS
<1> USE DEF working, counting, dispatching, settling
<1>p. phase \in [Workers -> Phases] /\ job \in [Workers -> 0 .. Total]
  BY DEF WInv, TypeOK
<1>1. CASE SoftStop \/ Cancel \/ UNCHANGED vars
  BY <1>1, TallyStays DEF SoftStop, Cancel, vars
<1>2. CASE LookStops \/ LookPasses \/ LookEnds \/ OfferStops \/ OfferQuits
  BY <1>2, TallyStays
     DEF LookStops, LookPasses, LookEnds, OfferStops, OfferQuits, Leaves
<1>3. ASSUME NEW w \in Workers, Offer(w) PROVE Tallied'
  BY <1>3, <1>p, TallyStays DEF Offer
<1>4. ASSUME NEW w \in Workers, NEW from, NEW to,
             Becomes(w, from, to), from # "scored", to # "scored",
             UNCHANGED scored, UNCHANGED count
      PROVE  Tallied'
  <2>1. \A v \in Workers : phase'[v] = "scored" <=> phase[v] = "scored"
    BY <1>4, <1>p DEF Becomes
  <2>2. \A v \in Workers : phase[v] = "scored" => job'[v] = job[v]
    BY <1>4, <1>p DEF Becomes
  <2> QED BY <1>4, <2>1, <2>2, TallyStays DEF Becomes
<1>5. ASSUME NEW w \in Workers,
             \/ WorkerEnds(w) \/ WorkerBegins(w) \/ WorkerQuits(w) \/ WorkerFails(w)
             \/ WorkerTicks(w)
      PROVE  Tallied'
  BY <1>4, <1>5 DEF WorkerEnds, WorkerBegins, WorkerQuits, WorkerFails, WorkerTicks
<1>6. ASSUME NEW w \in Workers, WorkerScores(w) PROVE Tallied'
  <2>1. phase' = [phase EXCEPT ![w] = "scored"] /\ phase[w] = "running"
    BY <1>6 DEF WorkerScores, Becomes
  <2>2. \A v \in Workers : job'[v] = job[v]
    BY <1>6, <1>p DEF WorkerScores, Becomes
  <2>3. Pending' = Pending \cup {job[w]}
    <3>1. {v \in Workers : phase'[v] = "scored"} = {v \in Workers : phase[v] = "scored"} \cup {w}
      BY <2>1, <1>p
    <3> QED BY <2>2, <3>1 DEF Pending
  <2>4. job[w] \notin scored /\ scored' = scored \cup {job[w]}
    BY <1>6, <2>1 DEF WorkerScores, WInv, Owned, Owes
  <2>5. scored' \ Pending' = scored \ Pending
    BY <2>3, <2>4
  <2> QED BY <1>6, <2>5 DEF WorkerScores, Becomes, Tallied
<1>7. ASSUME NEW w \in Workers, WorkerCounts(w) PROVE Tallied'
  <2>1. phase' = [phase EXCEPT ![w] = "counted"] /\ phase[w] = "scored"
        /\ scored' = scored /\ count' = count + 1 /\ dispatcher' = dispatcher
    BY <1>7 DEF WorkerCounts, Becomes
  <2>2. \A v \in Workers : job'[v] = job[v]
    BY <1>7, <1>p DEF WorkerCounts, Becomes
  <2>3. Pending' = Pending \ {job[w]} /\ job[w] \in Pending
    <3>1. {v \in Workers : phase'[v] = "scored"} = {v \in Workers : phase[v] = "scored"} \ {w}
      BY <2>1, <1>p
    <3>2. \A v \in Workers : phase[v] = "scored" /\ job[v] = job[w] => v = w
      BY <2>1 DEF WInv, Owned, Has
    <3> QED BY <2>1, <2>2, <3>1, <3>2 DEF Pending
  <2>4. job[w] \in scored /\ scored \subseteq Candidates
    BY <2>1, WindowAssumption DEF WInv, Owned, TypeOK
  <2>5. scored' \ Pending' = (scored \ Pending) \cup {job[w]} /\ job[w] \notin scored \ Pending
    BY <2>1, <2>3, <2>4
  <2>6. scored \ Pending \in SUBSET Candidates
    BY <2>4
  <2>7. Cardinality(scored' \ Pending') = Cardinality(scored \ Pending) + 1
    BY <2>5, <2>6, CandidateSets, FS_AddElement
  <2> QED BY <2>1, <2>7 DEF Tallied
<1>8. CASE Refuse \/ Settle \/ Return
  BY <1>8 DEF Refuse, Settle, Return, Tallied
<1> QED BY <1>1, <1>2, <1>3, <1>5, <1>6, <1>7, <1>8 DEF Next, Step, Dispatch, Toil

LEMMA NextConverged == CInv /\ [Next]_vars => Converged'
<1> SUFFICES ASSUME CInv, [Next]_vars PROVE Converged'
  OBVIOUS
<1> USE DEF CInv
<1>1. CASE Settle
  <2>1. Joined /\ ~PoolDone /\ count = Cardinality(scored \ Pending)
    BY <1>1 DEF Settle, Joined, Tallied
  <2>2. scored \ Pending \in SUBSET Candidates
    BY WindowAssumption DEF WInv, TypeOK
  <2>3. count \in Nat /\ count <= Total
    BY <2>1, <2>2, CandidateSets
  <2>4. broken = 0 => count' = Total
    BY <1>1, <2>1, <2>3, KeepsScored, CandidateSets DEF Settle, AdvanceDone
  <2>5. outcome' # "executed" /\ broken' = broken
    BY <1>1, <2>1 DEF Settle, Joined, Converged
  <2> QED BY <2>4, <2>5 DEF Converged
<1>2. CASE Refuse
  <2>1. dispatcher' = "left" /\ outcome' # "executed"
    BY <1>2 DEF Refuse
  <2> QED BY <2>1 DEF Converged
<1>3. CASE Return
  <2>1. dispatcher = "settled" /\ dispatcher' = "left" /\ broken' = broken /\ count' = count
    BY <1>3 DEF Return, counting
  <2> QED BY <2>1 DEF Converged
<1>4. CASE SoftStop \/ Cancel \/ UNCHANGED vars
  <2>1. UNCHANGED <<dispatcher, broken, count, outcome>>
    BY <1>4 DEF SoftStop, Cancel, vars, dispatching, counting, settling
  <2> QED BY <2>1 DEF Converged
<1>5. CASE Dispatch \/ \E w \in Workers : Toil(w)
  <2>1. outcome' = outcome /\ dispatcher' # "settled"
    BY <1>5 DEF Dispatch, LookStops, LookPasses, LookEnds, Offer, OfferStops, OfferQuits, Leaves,
                Toil, WorkerEnds, WorkerBegins, WorkerQuits, WorkerFails, WorkerScores,
                WorkerCounts, WorkerTicks, Becomes, settling, dispatching, WInv, Walked
  <2>2. dispatcher # "left"
    BY <1>5 DEF Dispatch, LookStops, LookPasses, LookEnds, Offer, OfferStops, OfferQuits, Leaves,
                Toil, WorkerEnds, WorkerBegins, WorkerQuits, WorkerFails, WorkerScores,
                WorkerCounts, WorkerTicks, Becomes, WInv, Walked
  <2> QED BY <2>1, <2>2 DEF Converged
<1> QED BY <1>1, <1>2, <1>3, <1>4, <1>5 DEF Next, Step

\* A window that was not drained leaves the count at its own total, however
\* its ticks interleaved with the boundary.
THEOREM BoundaryConverges == Spec => []CountConverges
<1>1. Init => CInv
  <2>1. Init => Tallied
    <3> SUFFICES ASSUME Init PROVE Tallied
      OBVIOUS
    <3>1. scored \ Pending = {} /\ count = 0
      BY DEF Init
    <3> QED BY <3>1, FS_EmptySet DEF Tallied
  <2>2. Init => Converged
    BY DEF Init, Converged
  <2> QED BY <2>1, <2>2, InitInv DEF CInv
<1>2. CInv /\ [Next]_vars => CInv'
  BY NextInv, NextTallied, NextConverged DEF CInv
<1>3. CInv => CountConverges
  BY DEF CInv, Converged, CountConverges
<1> QED BY <1>1, <1>2, <1>3, PTL DEF Spec

------------------------------------------------------------------------------
(* Preparation: the walk.                                                  *)

Legs   == {"starting", "resolving", "walking", "walked", "returned", "drifted", "aborted"}
Fates  == {"open", "resolved", "skipped", "refused", "cached", "planned", "measuring", "committed"}
Places == {"judging", "served", "proving", "enumerating", "baselines"}
RowSet == [target : Nat, action : {"skipped", "cached", "measure"}]

PrepTyped ==
    /\ asked \in Requests /\ planning \in BOOLEAN
    /\ leg \in Legs /\ cursor \in 1 .. Len(asked) + 1 /\ place \in Places /\ turn \in Nat \ {0}
    /\ fate \in [Asked -> Fates] /\ saved \in SUBSET Asked /\ rows \in Seq(RowSet)

\* One row per target the walk has passed.
Streamed ==
    /\ \A n \in DOMAIN rows : rows[n].target = n
    /\ leg \in {"starting", "resolving"} => rows = <<>>
    /\ leg \in {"walking", "walked", "returned", "drifted"} => Len(rows) = cursor - 1

\* What may have become of the targets, by how far the run is.
Fated ==
    /\ leg = "starting" => cursor = 1
    /\ leg = "resolving" => \A i \in Asked : i < cursor => fate[i] # "open"
    /\ leg \in {"walking", "walked", "returned"} =>
           \A i \in Asked : fate[i] # "open" /\ (i < cursor => fate[i] # "resolved")
    /\ leg \in {"walked", "returned"} => cursor \notin Asked
    /\ leg = "returned" => \A i \in Asked : fate[i] \notin {"measuring", "refused"}

\* A plan measures and saves nothing; only a plan has planned targets.
Planned ==
    /\ \A i \in Asked : IF planning THEN fate[i] \notin {"measuring", "committed"} ELSE fate[i] # "planned"
    /\ planning => saved = {} /\ place # "baselines"

\* A served symbol was saved before it is announced.
Served ==
    /\ \A i \in Asked : fate[i] = "cached" => planning \/ i \in saved \/ asked[i].shaped
    /\ place = "served" /\ cursor \in Asked => planning \/ cursor \in saved \/ asked[cursor].shaped

\* The groups behind the one at hand have passed.
Grouped ==
    /\ leg \in {"starting", "resolving"} => place = "judging"
    /\ place # "baselines" => turn = 1
    /\ place = "baselines" /\ cursor \in Asked =>
           \A n \in DOMAIN asked[cursor].groups : n < turn => base[asked[cursor].groups[n]] = "passed"

\* What is measured or committed has its baselines.
Based ==
    \A i \in Asked :
        fate[i] \in {"measuring", "committed"} => \A g \in OracleGroups(i) : base[g] = "passed"

WalkInv == PrepTyped /\ Streamed /\ Fated /\ Planned /\ Served /\ Grouped /\ Based

\* A group is probed at most once, while nothing is known of it.
Probed ==
    /\ base \in [Groups -> {"none", "passed", "failed"}] /\ probes \in [Groups -> Nat]
    /\ pending \in SUBSET Groups
    /\ \A g \in Groups :
           /\ base[g] = "none" => probes[g] = 0
           /\ probes[g] <= 1
           /\ planning => probes[g] = 0
           /\ g \in pending => base[g] = "passed"

PrepInv == WalkInv /\ Probed

LEMMA AskedIs ==
    ASSUME asked \in Requests
    PROVE  /\ Len(asked) \in Nat /\ Asked = 1 .. Len(asked)
           /\ \A i \in Asked : asked[i].groups \in Seq(Groups)
<1>1. asked \in Seq(PrepTargets)
  BY PreparationAssumption
<1>2. Len(asked) \in Nat /\ Asked = 1 .. Len(asked)
  BY <1>1 DEF Asked
<1>3. ASSUME NEW i \in Asked
      PROVE  asked[i].groups \in Seq(Groups)
  <2>1. asked[i] \in PrepTargets
    BY <1>1, <1>2, <1>3
  <2> QED BY <2>1 DEF PrepTargets
<1> QED BY <1>2, <1>3

LEMMA GroupsStay ==
    ASSUME UNCHANGED asked
    PROVE  Asked' = Asked /\ \A i \in Asked : OracleGroups(i)' = OracleGroups(i)
BY DEF Asked, OracleGroups

LEMMA PrepInitSound == PrepInit => PrepInv
<1> SUFFICES ASSUME PrepInit
             PROVE  PrepInv
  OBVIOUS
<1>1. Len(asked) \in Nat /\ Asked = 1 .. Len(asked)
  BY AskedIs DEF PrepInit
<1>2. PrepTyped
  BY <1>1 DEF PrepInit, PrepTyped, Legs, Places, Fates
<1>3. Streamed /\ Fated /\ Planned /\ Served /\ Grouped
  BY <1>1 DEF PrepInit, Streamed, Fated, Planned, Served, Grouped
<1>4. Based /\ Probed
  BY <1>1 DEF PrepInit, Based, Probed
<1> QED BY <1>2, <1>3, <1>4 DEF PrepInv, WalkInv

LEMMA RowAppends ==
    ASSUME NEW i \in Nat, NEW action \in {"skipped", "cached", "measure"},
           rows \in Seq(RowSet), rows' = Row(i, action)
    PROVE  /\ rows' \in Seq(RowSet) /\ Len(rows') = Len(rows) + 1
           /\ \A n \in DOMAIN rows' : IF n \in DOMAIN rows THEN rows'[n] = rows[n]
                                      ELSE n = Len(rows) + 1 /\ rows'[n].target = i
<1>1. PICK r : r = [target |-> i, action |-> action]
  OBVIOUS
<1>2. r \in RowSet /\ r.target = i
  BY <1>1 DEF RowSet
<1>3. rows' = Append(rows, r)
  BY <1>1 DEF Row
<1> QED BY <1>2, <1>3

\* What is known of the groups only grows.
Grows == \A g \in Groups : base[g] = "passed" => base'[g] = "passed"

LEMMA GroupsAre ==
    ASSUME asked \in Requests, NEW i \in Asked
    PROVE  OracleGroups(i) \subseteq Groups
BY AskedIs DEF OracleGroups

LEMMA BasedStays ==
    ASSUME PrepInv, NEW i \in Asked, NEW fates, Grows, UNCHANGED asked,
           fates \in {"measuring", "committed"} => \A g \in OracleGroups(i) : base[g] = "passed"
    PROVE  fates \in {"measuring", "committed"} => \A g \in OracleGroups(i)' : base'[g] = "passed"
<1>1. OracleGroups(i)' = OracleGroups(i) /\ OracleGroups(i) \subseteq Groups
  BY GroupsStay, GroupsAre DEF PrepInv, WalkInv, PrepTyped
<1> QED BY <1>1 DEF Grows

\* The walk's target ends, its row streaming here.
LEMMA WalksOn ==
    ASSUME PrepInv, NEW i \in Asked, leg = "walking", cursor = i,
           NEW to \in Fates, to \notin {"open", "resolved", "committed"}, fate' = [fate EXCEPT ![i] = to],
           NEW action \in {"skipped", "cached", "measure"}, rows' = Row(i, action),
           Onward(i), UNCHANGED <<given, leg, saved>>, Grows,
           IF planning THEN to # "measuring" ELSE to # "planned",
           to = "measuring" => \A g \in OracleGroups(i) : base[g] = "passed",
           to = "cached" => planning \/ i \in saved \/ asked[i].shaped
    PROVE  WalkInv'
<1>1. /\ PrepTyped /\ Streamed /\ Fated /\ Planned /\ Served /\ Grouped /\ Based
      /\ Len(asked) \in Nat /\ Asked = 1 .. Len(asked) /\ UNCHANGED <<asked, planning, leg, saved>>
  BY AskedIs DEF PrepInv, WalkInv, PrepTyped, given
<1>2. /\ rows' \in Seq(RowSet) /\ Len(rows') = Len(rows) + 1
      /\ \A n \in DOMAIN rows' : IF n \in DOMAIN rows THEN rows'[n] = rows[n]
                                 ELSE n = Len(rows) + 1 /\ rows'[n].target = i
  <2>1. i \in Nat /\ rows \in Seq(RowSet)
    BY <1>1 DEF PrepTyped
  <2> QED BY <2>1, RowAppends
<1>3. Asked' = Asked /\ cursor' = i + 1 /\ place' = "judging" /\ turn' = 1
  BY <1>1, GroupsStay DEF Onward
<1>4. \A j \in Asked : fate'[j] = IF j = i THEN to ELSE fate[j]
  BY <1>1 DEF PrepTyped
<1>5. PrepTyped'
  <2>1. fate' \in [Asked' -> Fates]
    BY <1>1, <1>3 DEF PrepTyped
  <2>2. cursor' \in 1 .. Len(asked') + 1 /\ place' \in Places /\ turn' \in Nat \ {0}
    BY <1>1, <1>3 DEF Places
  <2> QED BY <1>1, <1>2, <1>3, <2>1, <2>2 DEF PrepTyped
<1>6. Streamed'
  <2>1. Len(rows) = i - 1 /\ i \in Nat
    BY <1>1 DEF Streamed
  <2>2. Len(rows') = cursor' - 1
    BY <1>2, <1>3, <2>1
  <2>3. ASSUME NEW n \in DOMAIN rows'
        PROVE  rows'[n].target = n
    BY <1>1, <1>2, <2>1 DEF Streamed
  <2> QED BY <1>1, <2>2, <2>3 DEF Streamed
<1>7. Fated'
  <2>1. ASSUME NEW j \in Asked, j < cursor'
        PROVE  j = i \/ j < cursor
    BY <1>1, <1>3, <2>1
  <2> QED BY <1>1, <1>3, <1>4, <2>1 DEF Fated
<1>8. Planned' /\ Served' /\ Grouped'
  <2>1. Planned'
    BY <1>1, <1>3, <1>4 DEF Planned
  <2>2. Served'
    BY <1>1, <1>3, <1>4 DEF Served
  <2>3. Grouped'
    BY <1>3 DEF Grouped
  <2> QED BY <2>1, <2>2, <2>3
<1>9. Based'
  <2>1. ASSUME NEW j \in Asked
        PROVE  fate'[j] \in {"measuring", "committed"} => \A g \in OracleGroups(j)' : base'[g] = "passed"
    <3>1. fate'[j] \in {"measuring", "committed"} => \A g \in OracleGroups(j) : base[g] = "passed"
      BY <1>1, <1>4 DEF Based
    <3> QED BY <1>1, <3>1, BasedStays
  <2> QED BY <1>3, <2>1 DEF Based
<1> QED BY <1>5, <1>6, <1>7, <1>8, <1>9 DEF WalkInv

\* The walk's target moves within its preparation.
LEMMA WalksWithin ==
    ASSUME PrepInv, NEW i \in Asked, leg = "walking", cursor = i,
           UNCHANGED <<given, leg, cursor, fate, rows>>, Grows,
           place' \in Places, turn' \in Nat \ {0},
           saved' = saved \/ (saved' = saved \cup {i} /\ ~planning),
           planning => place' # "baselines",
           place' = "served" => planning \/ i \in saved' \/ asked[i].shaped,
           place' # "baselines" => turn' = 1,
           place' = "baselines" =>
               \A n \in DOMAIN asked[i].groups : n < turn' => base'[asked[i].groups[n]] = "passed"
    PROVE  WalkInv'
<1>1. /\ PrepTyped /\ Streamed /\ Fated /\ Planned /\ Served /\ Grouped /\ Based
      /\ Len(asked) \in Nat /\ Asked = 1 .. Len(asked) /\ UNCHANGED <<asked, planning, leg, cursor, fate, rows>>
  BY AskedIs DEF PrepInv, WalkInv, PrepTyped, given
<1>2. Asked' = Asked /\ saved \subseteq saved' /\ saved' \subseteq saved \cup {i}
  BY <1>1, GroupsStay
<1>3. PrepTyped'
  BY <1>1, <1>2 DEF PrepTyped
<1>4. Streamed' /\ Fated'
  BY <1>1, <1>2 DEF Streamed, Fated
<1>5. Planned'
  BY <1>1, <1>2 DEF Planned
<1>6. Served'
  BY <1>1, <1>2 DEF Served
<1>7. Grouped'
  BY <1>1, <1>2 DEF Grouped
<1>8. Based'
  <2>1. ASSUME NEW j \in Asked
        PROVE  fate'[j] \in {"measuring", "committed"} => \A g \in OracleGroups(j)' : base'[g] = "passed"
    <3>1. fate'[j] \in {"measuring", "committed"} => \A g \in OracleGroups(j) : base[g] = "passed"
      BY <1>1 DEF Based
    <3> QED BY <1>1, <3>1, BasedStays
  <2> QED BY <1>2, <2>1 DEF Based
<1> QED BY <1>3, <1>4, <1>5, <1>6, <1>7, <1>8 DEF WalkInv

\* A handed-over target completes beside the walk.
LEMMA Completes ==
    ASSUME PrepInv, NEW i \in Asked, Oldest(i),
           NEW to \in {"committed", "refused"}, fate' = [fate EXCEPT ![i] = to],
           UNCHANGED <<given, leg, cursor, place, turn, rows, base>>,
           saved' \in {saved, saved \cup {i}}
    PROVE  WalkInv'
<1>1. /\ PrepTyped /\ Streamed /\ Fated /\ Planned /\ Served /\ Grouped /\ Based
      /\ Len(asked) \in Nat /\ Asked = 1 .. Len(asked)
      /\ UNCHANGED <<asked, planning, leg, cursor, place, turn, rows, base>>
      /\ leg \in {"walking", "walked", "aborted"} /\ fate[i] = "measuring"
  BY AskedIs DEF PrepInv, WalkInv, PrepTyped, given, Oldest
<1>2. Asked' = Asked /\ saved \subseteq saved' /\ saved' \subseteq saved \cup {i}
  BY <1>1, GroupsStay
<1>3. \A j \in Asked : fate'[j] = IF j = i THEN to ELSE fate[j]
  BY <1>1 DEF PrepTyped
<1>4. ~planning
  BY <1>1 DEF Planned
<1>5. PrepTyped'
  <2>1. fate' \in [Asked' -> Fates]
    BY <1>1, <1>2 DEF PrepTyped, Fates
  <2>2. saved' \in SUBSET Asked'
    BY <1>1, <1>2 DEF PrepTyped
  <2> QED BY <1>1, <2>1, <2>2 DEF PrepTyped
<1>6. Streamed'
  BY <1>1 DEF Streamed
<1>7. Fated'
  BY <1>1, <1>2, <1>3 DEF Fated
<1>8. Planned'
  BY <1>1, <1>2, <1>3, <1>4 DEF Planned
<1>9. Served' /\ Grouped'
  <2>1. Served'
    BY <1>1, <1>2, <1>3 DEF Served
  <2>2. Grouped'
    BY <1>1, <1>2 DEF Grouped
  <2> QED BY <2>1, <2>2
<1>10. Based'
  <2>1. ASSUME NEW j \in Asked
        PROVE  fate'[j] \in {"measuring", "committed"} => \A g \in OracleGroups(j) : base[g] = "passed"
    <3>1. CASE j = i
      BY <1>1, <1>3, <3>1 DEF Based
    <3>2. CASE j # i
      BY <1>1, <1>3, <3>2 DEF Based
    <3> QED BY <3>1, <3>2
  <2>2. \A j \in Asked : OracleGroups(j)' = OracleGroups(j)
    BY <1>1, GroupsStay
  <2> QED BY <1>1, <1>2, <2>1, <2>2 DEF Based
<1> QED BY <1>5, <1>6, <1>7, <1>8, <1>9, <1>10 DEF WalkInv

\* How far the run is changes, and nothing of its targets.
LEMMA LegTurns ==
    ASSUME PrepInv, UNCHANGED <<given, cursor, judged, fate, rows, measured, saved>>,
           \/ leg = "starting" /\ leg' = "resolving"
           \/ leg = "walking" /\ cursor \notin Asked /\ leg' = "walked"
           \/ leg = "walked" /\ leg' = "drifted"
           \/ leg = "walked" /\ leg' = "returned" /\ \A j \in Asked : fate[j] \notin {"measuring", "refused"}
           \/ leg' \in {leg, "aborted"}
    PROVE  WalkInv'
<1>1. /\ PrepTyped /\ Streamed /\ Fated /\ Planned /\ Served /\ Grouped /\ Based
      /\ Len(asked) \in Nat /\ Asked = 1 .. Len(asked)
      /\ UNCHANGED <<asked, planning, cursor, place, turn, fate, rows, base, saved>>
  BY AskedIs DEF PrepInv, WalkInv, PrepTyped, given, judged, measured
<1>2. Asked' = Asked /\ \A j \in Asked : OracleGroups(j)' = OracleGroups(j)
  BY <1>1, GroupsStay
<1>3. PrepTyped'
  BY <1>1, <1>2 DEF PrepTyped, Legs
<1>4. Streamed'
  BY <1>1 DEF Streamed
<1>5. Fated'
  BY <1>1, <1>2 DEF Fated
<1>6. Planned'
  BY <1>1, <1>2 DEF Planned
<1>7. Served'
  BY <1>1, <1>2 DEF Served
<1>8. Grouped'
  BY <1>1, <1>2 DEF Grouped
<1>9. Based'
  BY <1>1, <1>2 DEF Based
<1> QED BY <1>3, <1>4, <1>5, <1>6, <1>7, <1>8, <1>9 DEF WalkInv

\* Before the walk a target is resolved or falls out, and no row streams.
LEMMA ResolvesOn ==
    ASSUME PrepInv, leg = "resolving", UNCHANGED <<given, judged, rows, measured, saved>>,
           fate' \in [Asked -> Fates],
           \A j \in Asked : fate'[j] = fate[j] \/ fate'[j] \in {"resolved", "skipped", "refused"},
           \/ cursor \in Asked /\ cursor' = cursor + 1 /\ leg' = leg /\ fate'[cursor] # "open"
           \/ cursor \notin Asked /\ cursor' = 1 /\ leg' = "walking"
    PROVE  WalkInv'
<1>1. /\ PrepTyped /\ Streamed /\ Fated /\ Planned /\ Served /\ Grouped /\ Based
      /\ Len(asked) \in Nat /\ Asked = 1 .. Len(asked)
      /\ UNCHANGED <<asked, planning, place, turn, rows, base, saved>>
      /\ cursor \in 1 .. Len(asked) + 1
  BY AskedIs DEF PrepInv, WalkInv, PrepTyped, given, judged, measured
<1>2. Asked' = Asked /\ \A j \in Asked : OracleGroups(j)' = OracleGroups(j)
  BY <1>1, GroupsStay
<1>3. \A j \in Asked : j < cursor => fate'[j] # "open"
  BY <1>1 DEF Fated
<1>4. PrepTyped'
  <2>1. cursor' \in 1 .. Len(asked) + 1 /\ leg' \in Legs
    BY <1>1 DEF Legs
  <2> QED BY <1>1, <1>2, <2>1 DEF PrepTyped
<1>5. Streamed'
  BY <1>1 DEF Streamed
<1>6. Fated'
  <2>1. CASE cursor \in Asked /\ cursor' = cursor + 1 /\ leg' = leg /\ fate'[cursor] # "open"
    BY <1>1, <1>2, <1>3, <2>1 DEF Fated
  <2>2. CASE cursor \notin Asked /\ cursor' = 1 /\ leg' = "walking"
    <3>1. \A j \in Asked : j < cursor /\ ~(j < cursor')
      BY <1>1, <2>2
    <3> QED BY <1>1, <1>2, <1>3, <2>2, <3>1 DEF Fated
  <2> QED BY <2>1, <2>2
<1>7. Planned'
  BY <1>1, <1>2 DEF Planned, Grouped
<1>8. Served'
  BY <1>1, <1>2 DEF Served, Grouped
<1>9. Grouped'
  BY <1>1, <1>2 DEF Grouped
<1>10. Based'
  BY <1>1, <1>2 DEF Based
<1> QED BY <1>4, <1>5, <1>6, <1>7, <1>8, <1>9, <1>10 DEF WalkInv

------------------------------------------------------------------------------
(* Preparation: its actions.                                               *)

LEMMA MeasuredStay == PrepInv /\ UNCHANGED <<planning, measured>> => Grows /\ Probed'
BY DEF PrepInv, Probed, measured, Grows

LEMMA PhaseOneSound == ASSUME PrepInv, NEW i \in Asked, PhaseOne(i) PROVE PrepInv'
<1>1. \E to \in {"resolved", "skipped", "refused"} : Resolved(i, to)
  BY DEF PhaseOne, ResolveSkips, ValidationSkips, Resolves, ResolutionFails
<1>2. PICK to \in {"resolved", "skipped", "refused"} : Resolved(i, to)
  BY <1>1
<1>3. /\ leg = "resolving" /\ cursor = i /\ fate' = [fate EXCEPT ![i] = to] /\ cursor' = i + 1
      /\ UNCHANGED <<given, leg, judged, rows, measured, saved>>
  BY <1>2 DEF Resolved, Withheld
<1>4. fate \in [Asked -> Fates]
  BY DEF PrepInv, WalkInv, PrepTyped
<1>5. fate' \in [Asked -> Fates] /\ \A j \in Asked : fate'[j] = IF j = i THEN to ELSE fate[j]
  BY <1>3, <1>4 DEF Fates
<1>6. WalkInv'
  BY <1>3, <1>5, ResolvesOn
<1>7. UNCHANGED planning
  BY <1>3 DEF given
<1> QED BY <1>3, <1>6, <1>7, MeasuredStay DEF PrepInv

LEMMA ViewsSound == PrepInv /\ Views => PrepInv'
<1> SUFFICES ASSUME PrepInv, Views
             PROVE  PrepInv'
  OBVIOUS
<1>1. /\ leg = "resolving" /\ cursor \notin Asked /\ leg' = "walking" /\ cursor' = 1
      /\ UNCHANGED <<given, judged, rows, measured, saved>>
  BY DEF Views
<1>2. PICK lost : fate' = [j \in Asked |-> IF j \in lost THEN "skipped" ELSE fate[j]]
  BY DEF Views
<1>3. fate \in [Asked -> Fates]
  BY DEF PrepInv, WalkInv, PrepTyped
<1>4. fate' \in [Asked -> Fates] /\ \A j \in Asked : fate'[j] = fate[j] \/ fate'[j] = "skipped"
  BY <1>2, <1>3 DEF Fates
<1>5. WalkInv'
  BY <1>1, <1>4, ResolvesOn
<1>6. UNCHANGED planning
  BY <1>1 DEF given
<1> QED BY <1>1, <1>5, <1>6, MeasuredStay DEF PrepInv

\* What the walk ends without a probe.
LEMMA EndsSound ==
    ASSUME PrepInv, NEW i \in Asked, leg = "walking", cursor = i,
           NEW to \in {"skipped", "refused", "cached"}, Ends(i, to), UNCHANGED saved, Grows,
           to = "cached" => planning \/ i \in saved \/ asked[i].shaped
    PROVE  WalkInv'
<1>1. /\ fate' = [fate EXCEPT ![i] = to] /\ Onward(i) /\ UNCHANGED <<given, leg, saved>>
      /\ \E action \in {"skipped", "cached", "measure"} : rows' = Row(i, action)
  BY DEF Ends
<1>2. to \in Fates /\ to \notin {"open", "resolved", "committed", "planned", "measuring"}
  BY DEF Fates
<1> QED BY <1>1, <1>2, WalksOn

LEMMA LegSound == PrepInv /\ (Starts \/ WalkedAll \/ PrepReturns \/ PrepAborts \/ PrepCancel) => PrepInv'
<1> SUFFICES ASSUME PrepInv, Starts \/ WalkedAll \/ PrepReturns \/ PrepAborts \/ PrepCancel
             PROVE  PrepInv'
  OBVIOUS
<1>1. UNCHANGED <<given, cursor, judged, fate, rows, measured, saved>>
  BY DEF Starts, WalkedAll, PrepReturns, PrepAborts, PrepCancel
<1>2. \/ leg = "starting" /\ leg' = "resolving"
      \/ leg = "walking" /\ cursor \notin Asked /\ leg' = "walked"
      \/ leg = "walked" /\ leg' = "drifted"
      \/ leg = "walked" /\ leg' = "returned" /\ \A j \in Asked : fate[j] \notin {"measuring", "refused"}
      \/ leg' \in {leg, "aborted"}
  BY DEF Starts, WalkedAll, PrepReturns, PrepAborts, PrepCancel
<1>3. WalkInv'
  BY <1>1, <1>2, LegTurns
<1>4. UNCHANGED planning
  BY <1>1 DEF given
<1> QED BY <1>1, <1>3, <1>4, MeasuredStay DEF PrepInv

LEMMA DeliversSound == ASSUME PrepInv, NEW i \in Asked, DeliversWithheld(i) PROVE PrepInv'
<1>1. /\ leg = "walking" /\ cursor = i /\ fate[i] \in {"skipped", "refused"}
      /\ rows' = Row(i, "skipped") /\ Onward(i) /\ UNCHANGED <<given, leg, fate, measured, saved>>
  BY DEF DeliversWithheld
<1>2. fate \in [Asked -> Fates]
  BY DEF PrepInv, WalkInv, PrepTyped
<1>3. PICK to : to = fate[i]
  OBVIOUS
<1>4. to \in Fates /\ to \in {"skipped", "refused"} /\ fate' = [fate EXCEPT ![i] = to]
  BY <1>1, <1>2, <1>3
<1>5. Grows /\ Probed'
  BY <1>1, MeasuredStay DEF given
<1>6. WalkInv'
  BY <1>1, <1>4, <1>5, WalksOn
<1> QED BY <1>5, <1>6 DEF PrepInv

\* What ends or moves the walk's target and leaves the baselines alone.
LEMMA JudgesSound ==
    ASSUME PrepInv, NEW i \in Asked,
           \/ StagedRefuses(i) \/ DetectionSkips(i) \/ ServeCheckRefuses(i) \/ StampRefuses(i)
           \/ ServeDecides(i) \/ ProofSkips(i) \/ EnumerationRefuses(i)
    PROVE  PrepInv'
<1>1. leg = "walking" /\ cursor = i /\ UNCHANGED <<measured, saved>>
  BY DEF StagedRefuses, DetectionSkips, ServeCheckRefuses, StampRefuses, ServeDecides, ProofSkips, EnumerationRefuses, At
<1>2. Ends(i, "skipped") \/ Ends(i, "refused") \/ (place = "served" /\ Ends(i, "cached"))
  BY DEF StagedRefuses, DetectionSkips, ServeCheckRefuses, StampRefuses, ServeDecides, ProofSkips, EnumerationRefuses, At
<1>3. UNCHANGED planning
  BY <1>2 DEF Ends, given
<1>4. Grows /\ Probed'
  BY <1>1, <1>3, MeasuredStay
<1>5. place = "served" => planning \/ i \in saved \/ asked[i].shaped
  BY <1>1 DEF PrepInv, WalkInv, Served
<1>6. WalkInv'
  <2>1. CASE Ends(i, "skipped")
    BY <1>1, <1>4, <2>1, EndsSound
  <2>2. CASE Ends(i, "refused")
    BY <1>1, <1>4, <2>2, EndsSound
  <2>3. CASE place = "served" /\ Ends(i, "cached")
    BY <1>1, <1>4, <1>5, <2>3, EndsSound
  <2> QED BY <1>2, <2>1, <2>2, <2>3
<1> QED BY <1>4, <1>6 DEF PrepInv

\* What moves it to another place than its baselines.
LEMMA PlacesSound ==
    ASSUME PrepInv, NEW i \in Asked, leg = "walking", cursor = i,
           UNCHANGED <<given, leg, cursor, fate, rows, measured>>, turn' = 1,
           saved' = saved \/ (saved' = saved \cup {i} /\ ~planning),
           \/ place' \in {"proving", "enumerating"}
           \/ place' = "served" /\ (planning \/ i \in saved' \/ asked[i].shaped)
           \/ place' = "baselines" /\ ~planning
    PROVE  PrepInv'
<1>1. Grows /\ Probed'
  BY MeasuredStay DEF given
<1>2. place' \in Places /\ turn' \in Nat \ {0}
  BY DEF Places
<1>3. place' = "baselines" =>
          \A n \in DOMAIN asked[i].groups : n < turn' => base'[asked[i].groups[n]] = "passed"
  <2>1. asked[i].groups \in Seq(Groups)
    BY AskedIs DEF PrepInv, WalkInv, PrepTyped
  <2>2. \A n \in DOMAIN asked[i].groups : ~(n < turn')
    BY <2>1
  <2> QED BY <2>2
<1>4. WalkInv'
  BY <1>1, <1>2, <1>3, WalksWithin
<1> QED BY <1>1, <1>4 DEF PrepInv

LEMMA MovesSound ==
    ASSUME PrepInv, NEW i \in Asked,
           \/ Serves(i) \/ (ServesShape(i) /\ asked[i].shaped) \/ Measures(i)
           \/ BuildsUnit(i) \/ Proves(i)
    PROVE  PrepInv'
<1>1. /\ leg = "walking" /\ cursor = i /\ place # "baselines"
      /\ UNCHANGED <<given, leg, cursor, turn, fate, rows, measured>>
  BY DEF Serves, ServesShape, Measures, BuildsUnit, Proves, At, Moves, judged
<1>2. saved' = saved \/ (saved' = saved \cup {i} /\ ~planning)
  BY DEF Serves, ServesShape, Measures, BuildsUnit, Proves
<1>3. \/ place' \in {"proving", "enumerating"}
      \/ place' = "served" /\ (planning \/ i \in saved' \/ asked[i].shaped)
  BY DEF Serves, ServesShape, Measures, BuildsUnit, Proves, At, Moves, judged
<1>4. turn' = 1
  BY <1>1 DEF PrepInv, WalkInv, Grouped
<1> QED BY <1>1, <1>2, <1>3, <1>4, PlacesSound

LEMMA EnumeratesSound == ASSUME PrepInv, NEW i \in Asked, Enumerates(i) PROVE PrepInv'
<1>1. leg = "walking" /\ cursor = i /\ place = "enumerating" /\ UNCHANGED <<measured, saved>>
  BY DEF Enumerates, At
<1>2. CASE planning
  <2>1. PICK kind : /\ rows' = Row(i, Action(kind)) /\ fate' = [fate EXCEPT ![i] = "planned"]
                    /\ Onward(i) /\ UNCHANGED <<given, leg>>
    BY <1>2 DEF Enumerates
  <2>2. Action(kind) \in {"skipped", "cached", "measure"} /\ "planned" \in Fates
    BY DEF Action, Fates
  <2>3. Grows /\ Probed'
    BY <1>1, <2>1, MeasuredStay DEF given
  <2>4. WalkInv'
    BY <1>1, <1>2, <2>1, <2>2, <2>3, WalksOn
  <2> QED BY <2>3, <2>4 DEF PrepInv
<1>3. CASE ~planning
  <2>1. Moves(i, "baselines") /\ UNCHANGED turn
    BY <1>3 DEF Enumerates
  <2>2. turn' = 1
    BY <1>1, <2>1 DEF PrepInv, WalkInv, Grouped
  <2> QED BY <1>1, <1>3, <2>1, <2>2, PlacesSound DEF Moves
<1> QED BY <1>2, <1>3

LEMMA HandsOverSound == ASSUME PrepInv, NEW i \in Asked, HandsOver(i) PROVE PrepInv'
<1>1. /\ leg = "walking" /\ cursor = i /\ place = "baselines" /\ turn \notin DOMAIN asked[i].groups
      /\ rows' = Row(i, Action(intent)) /\ Onward(i) /\ UNCHANGED <<given, measured, saved>>
  BY DEF HandsOver, At
<1>2. Action(intent) \in {"skipped", "cached", "measure"} /\ "measuring" \in Fates
  BY DEF Action, Fates
<1>3. Grows /\ Probed'
  BY <1>1, MeasuredStay DEF given
<1>4. /\ PrepTyped /\ Streamed /\ Planned /\ Grouped /\ Based /\ Served
      /\ Len(asked) \in Nat /\ Asked = 1 .. Len(asked) /\ asked[i].groups \in Seq(Groups)
  BY AskedIs DEF PrepInv, WalkInv, PrepTyped
<1>5. ~planning
  BY <1>1, <1>4 DEF Planned
<1>6. \A n \in DOMAIN asked[i].groups : base[asked[i].groups[n]] = "passed"
  <2>1. turn \in Nat \ {0}
    BY <1>4 DEF PrepTyped
  <2>2. \A n \in DOMAIN asked[i].groups : n < turn
    BY <1>1, <1>4, <2>1
  <2> QED BY <1>1, <1>4, <2>2 DEF Grouped
<1>7. \A g \in OracleGroups(i) : base[g] = "passed"
  BY <1>6 DEF OracleGroups
<1>8. WalkInv'
  <2>1. CASE fate' = [fate EXCEPT ![i] = "measuring"] /\ UNCHANGED leg
    BY <1>1, <1>2, <1>3, <1>5, <1>7, <2>1, WalksOn
  <2>2. CASE leg' = "aborted" /\ UNCHANGED fate
    <3>1. /\ Asked' = Asked /\ cursor' = i + 1 /\ place' = "judging" /\ turn' = 1
          /\ \A j \in Asked : OracleGroups(j)' = OracleGroups(j)
          /\ UNCHANGED <<asked, planning, fate, base, saved>>
      BY <1>1, <2>2, GroupsStay DEF Onward, given, measured
    <3>2. /\ rows' \in Seq(RowSet) /\ Len(rows') = Len(rows) + 1
          /\ \A n \in DOMAIN rows' : IF n \in DOMAIN rows THEN rows'[n] = rows[n]
                                     ELSE n = Len(rows) + 1 /\ rows'[n].target = i
      <4>1. i \in Nat /\ rows \in Seq(RowSet)
        BY <1>4 DEF PrepTyped
      <4> QED BY <1>1, <1>2, <4>1, RowAppends
    <3>3. PrepTyped'
      BY <1>4, <2>2, <3>1, <3>2 DEF PrepTyped, Legs, Places
    <3>4. Streamed'
      <4>1. Len(rows) = i - 1
        BY <1>1, <1>4 DEF Streamed
      <4>2. ASSUME NEW n \in DOMAIN rows'
            PROVE  rows'[n].target = n
        BY <1>4, <3>2, <4>1 DEF Streamed
      <4> QED BY <2>2, <4>2 DEF Streamed
    <3>5. Fated' /\ Planned' /\ Served' /\ Grouped' /\ Based'
      BY <1>4, <2>2, <3>1 DEF Fated, Planned, Served, Grouped, Based
    <3> QED BY <3>3, <3>4, <3>5 DEF WalkInv
  <2> QED BY <2>1, <2>2 DEF HandsOver
<1> QED BY <1>3, <1>8 DEF PrepInv

\* A group's answer becomes known.
LEMMA Answered ==
    ASSUME PrepInv, ~planning, UNCHANGED planning, NEW g \in Groups, base[g] = "none",
           NEW answer \in {"passed", "failed"}, base' = [base EXCEPT ![g] = answer],
           probes' = [probes EXCEPT ![g] = @ + 1] \/ UNCHANGED probes,
           pending' = pending \/ (pending' = pending \cup {g} /\ answer = "passed")
    PROVE  Grows /\ Probed'
<1>1. Probed
  BY DEF PrepInv
<1>2. \A h \in Groups : base'[h] = IF h = g THEN answer ELSE base[h]
  BY <1>1 DEF Probed
<1>3. probes' \in [Groups -> Nat] /\ \A h \in Groups : probes'[h] = probes[h] \/ (h = g /\ probes'[h] <= 1)
  <2>1. probes[g] = 0 /\ probes \in [Groups -> Nat]
    BY <1>1 DEF Probed
  <2>2. CASE probes' = [probes EXCEPT ![g] = @ + 1]
    BY <2>1, <2>2
  <2> QED BY <2>1, <2>2
<1>4. base' \in [Groups -> {"none", "passed", "failed"}] /\ pending' \in SUBSET Groups
  BY <1>1 DEF Probed
<1>5. Grows
  BY <1>1, <1>2 DEF Grows, Probed
<1>6. ASSUME NEW h \in Groups
      PROVE  /\ base'[h] = "none" => probes'[h] = 0
             /\ probes'[h] <= 1
             /\ h \in pending' => base'[h] = "passed"
  <2>1. probes[h] \in Nat /\ probes[h] <= 1 /\ (base[h] = "none" => probes[h] = 0) /\ (h \in pending => base[h] = "passed")
    BY <1>1 DEF Probed
  <2>2. CASE h = g
    BY <1>2, <1>3, <2>1, <2>2
  <2>3. CASE h # g
    BY <1>2, <1>3, <2>1, <2>3
  <2> QED BY <2>2, <2>3
<1> QED BY <1>3, <1>4, <1>5, <1>6 DEF Probed

\* The group at hand has passed, and the walk's target is at its next.
LEMMA GroupPassed ==
    ASSUME PrepInv, NEW i \in Asked, NEW g, AtGroup(i, g), GroupDone(i), base'[g] = "passed", Grows, Probed'
    PROVE  PrepInv'
<1>1. /\ leg = "walking" /\ cursor = i /\ place = "baselines" /\ place' = "baselines"
      /\ UNCHANGED <<given, leg, cursor, fate, rows, saved>>
      /\ turn \in DOMAIN asked[i].groups /\ g = asked[i].groups[turn] /\ turn' = turn + 1
  BY DEF AtGroup, At, GroupDone, Moves
<1>2. PrepTyped /\ Planned /\ Grouped /\ asked[i].groups \in Seq(Groups)
  BY AskedIs DEF PrepInv, WalkInv, PrepTyped
<1>3. ~planning /\ place' \in Places /\ turn \in Nat /\ turn' \in Nat \ {0}
  BY <1>1, <1>2 DEF Planned, Places, PrepTyped
<1>4. \A n \in DOMAIN asked[i].groups : n < turn' => base'[asked[i].groups[n]] = "passed"
  <2>1. ASSUME NEW n \in DOMAIN asked[i].groups, n < turn', n # turn
        PROVE  base'[asked[i].groups[n]] = "passed"
    <3>1. n < turn /\ asked[i].groups[n] \in Groups
      BY <1>1, <1>2, <1>3, <2>1
    <3> QED BY <1>1, <1>2, <3>1 DEF Grouped, Grows
  <2> QED BY <1>1, <2>1
<1>5. WalkInv'
  BY <1>1, <1>3, <1>4, WalksWithin
<1> QED BY <1>5 DEF PrepInv

LEMMA GroupsSound == ASSUME PrepInv, NEW i \in Asked, ProbesBaselines(i) PROVE PrepInv'
<1>1. PICK g \in Groups : \/ GroupSkips(i, g) \/ GroupKnown(i, g) \/ GroupServed(i, g)
                          \/ GroupPasses(i, g) \/ GroupFails(i, g)
  BY DEF ProbesBaselines
<1>2. leg = "walking" /\ cursor = i /\ place = "baselines" /\ AtGroup(i, g)
  BY <1>1 DEF GroupSkips, GroupKnown, GroupServed, GroupPasses, GroupFails, AtGroup, At
<1>3. ~planning /\ base \in [Groups -> {"none", "passed", "failed"}]
  BY <1>2 DEF PrepInv, WalkInv, Planned, Probed
<1>4. UNCHANGED planning
  BY <1>1 DEF GroupSkips, GroupKnown, GroupServed, GroupPasses, GroupFails, GroupDone, Moves, Ends, given
<1>5. CASE GroupSkips(i, g)
  <2>1. Grows /\ Probed'
    BY <1>4, <1>5, MeasuredStay DEF GroupSkips
  <2>2. WalkInv'
    BY <1>2, <1>5, <2>1, EndsSound DEF GroupSkips
  <2> QED BY <2>1, <2>2 DEF PrepInv
<1>6. CASE GroupKnown(i, g)
  <2>1. Grows /\ Probed'
    BY <1>4, <1>6, MeasuredStay DEF GroupKnown
  <2>2. base'[g] = "passed"
    BY <1>6 DEF GroupKnown, measured
  <2> QED BY <1>2, <1>6, <2>1, <2>2, GroupPassed DEF GroupKnown
<1>7. CASE GroupServed(i, g)
  <2>1. Grows /\ Probed'
    BY <1>3, <1>4, <1>7, Answered DEF GroupServed
  <2>2. base'[g] = "passed"
    BY <1>3, <1>7 DEF GroupServed
  <2> QED BY <1>2, <1>7, <2>1, <2>2, GroupPassed DEF GroupServed
<1>8. CASE GroupPasses(i, g)
  <2>1. Grows /\ Probed'
    BY <1>3, <1>4, <1>8, Answered DEF GroupPasses, Deposits
  <2>2. base'[g] = "passed"
    BY <1>3, <1>8 DEF GroupPasses
  <2> QED BY <1>2, <1>8, <2>1, <2>2, GroupPassed DEF GroupPasses
<1>9. CASE GroupFails(i, g)
  <2>1. Grows /\ Probed'
    BY <1>3, <1>4, <1>9, Answered DEF GroupFails, Failing
  <2>2. WalkInv'
    BY <1>2, <1>9, <2>1, EndsSound DEF GroupFails
  <2> QED BY <2>1, <2>2 DEF PrepInv
<1> QED BY <1>1, <1>5, <1>6, <1>7, <1>8, <1>9

LEMMA CompletesSound == ASSUME PrepInv, NEW i \in Asked, Commits(i) \/ RefusesLate(i) PROVE PrepInv'
<1>1. CASE Commits(i)
  <2>1. /\ Oldest(i) /\ fate' = [fate EXCEPT ![i] = "committed"] /\ saved' = saved \cup {i}
        /\ pending' \subseteq pending
        /\ UNCHANGED <<given, leg, cursor, judged, rows, base, probes>>
    BY <1>1 DEF Commits
  <2>2. WalkInv'
    BY <2>1, Completes DEF judged
  <2>3. Probed'
    BY <2>1 DEF PrepInv, Probed, given
  <2> QED BY <2>2, <2>3 DEF PrepInv
<1>2. CASE RefusesLate(i)
  <2>1. /\ Oldest(i) /\ fate' = [fate EXCEPT ![i] = "refused"]
        /\ UNCHANGED <<given, leg, cursor, judged, rows, measured, saved>>
    BY <1>2 DEF RefusesLate
  <2>2. WalkInv'
    BY <2>1, Completes DEF judged, measured
  <2>3. Probed'
    BY <2>1, MeasuredStay DEF given
  <2> QED BY <2>2, <2>3 DEF PrepInv
<1> QED BY <1>1, <1>2

------------------------------------------------------------------------------
(* Preparation: the theorems.                                              *)

LEMMA PrepKept == PrepInv /\ [PrepNext]_prepVars => PrepInv'
<1> SUFFICES ASSUME PrepInv, [PrepNext]_prepVars
             PROVE  PrepInv'
  OBVIOUS
<1>1. CASE PrepStep
  <2>1. CASE Starts \/ Views \/ WalkedAll \/ PrepReturns
    BY <2>1, LegSound, ViewsSound
  <2>2. ASSUME NEW i \in Asked,
               \/ PhaseOne(i) \/ DeliversWithheld(i)
               \/ PreparesSymbol(i) \/ PreparesShape(i)
               \/ Commits(i) \/ RefusesLate(i)
        PROVE  PrepInv'
    <3>1. CASE PhaseOne(i) \/ DeliversWithheld(i) \/ Commits(i) \/ RefusesLate(i)
      BY <3>1, PhaseOneSound, DeliversSound, CompletesSound
    <3>2. CASE PreparesSymbol(i)
      BY <3>2, JudgesSound, MovesSound, EnumeratesSound, GroupsSound, HandsOverSound DEF PreparesSymbol
    <3>3. CASE PreparesShape(i)
      BY <3>3, JudgesSound, MovesSound, EnumeratesSound, GroupsSound, HandsOverSound DEF PreparesShape
    <3> QED BY <2>2, <3>1, <3>2, <3>3
  <2> QED BY <1>1, <2>1, <2>2 DEF PrepStep
<1>2. CASE PrepAborts \/ PrepCancel
  BY <1>2, LegSound
<1>3. CASE UNCHANGED prepVars
  <2>1. UNCHANGED <<given, cursor, judged, fate, rows, measured, saved, leg>>
    BY <1>3 DEF prepVars
  <2>2. WalkInv'
    BY <2>1, LegTurns
  <2>3. Probed'
    BY <2>1, MeasuredStay DEF given
  <2> QED BY <2>2, <2>3 DEF PrepInv
<1> QED BY <1>1, <1>2, <1>3 DEF PrepNext

LEMMA PrepIsInductive == PrepSpec => []PrepInv
BY PrepInitSound, PrepKept, PTL DEF PrepSpec

\* The decision stream of a run names its targets in their order, one row
\* per target walked, and announces no measure whose baselines are not in
\* and no served symbol that is not saved; a plan saves nothing; a clean
\* return has completed every target and refused none (prepareTarget,
\* deliverPrepared and commitAndAttribute, src/run.go).
THEOREM StreamTrue == PrepSpec => []RowsAreTrue
<1>1. PrepInv => RowsAreTrue
  <2> SUFFICES ASSUME PrepInv
               PROVE  RowsAreTrue
    OBVIOUS
  <2>1. /\ PrepTyped /\ Streamed /\ Fated /\ Planned /\ Served /\ Based
        /\ Len(asked) \in Nat /\ Asked = 1 .. Len(asked)
    BY AskedIs DEF PrepInv, WalkInv, PrepTyped
  <2>2. ASSUME NEW i \in Asked, leg = "returned"
        PROVE  fate[i] \in {"skipped", "cached", IF planning THEN "planned" ELSE "committed"}
    <3>1. i < cursor /\ fate[i] \in Fates
      BY <2>1, <2>2 DEF Fated, PrepTyped
    <3>2. fate[i] \notin {"open", "resolved", "measuring", "refused"}
      BY <2>1, <2>2, <3>1 DEF Fated
    <3>3. IF planning THEN fate[i] # "committed" ELSE fate[i] # "planned"
      BY <2>1 DEF Planned
    <3> QED BY <3>1, <3>2, <3>3 DEF Fates
  <2> QED BY <2>1, <2>2 DEF RowsAreTrue, Streamed, Served, Planned, Based
<1> QED BY <1>1, PrepIsInductive, PTL

\* An oracle group's baseline is measured at most once for all the targets
\* of a run that share it, never by a plan; no target is committed on one that
\* did not pass, and none that did not pass waits to be banked
\* (probeGroupBaselines and commitAndAttribute, src/run.go).
THEOREM BaselinesSpent == PrepSpec => []BaselinesOnce
<1>1. PrepInv => BaselinesOnce
  BY DEF PrepInv, WalkInv, Based, Probed, BaselinesOnce
<1> QED BY <1>1, PrepIsInductive, PTL

------------------------------------------------------------------------------
(* The bank: ageing.                                                       *)

Younger(m, k) == {j \in Banked(m) : Older(m, k, j)}

LEMMA YoungerIs ==
    ASSUME NEW m \in [Baselines -> Nat], NEW k \in Banked(m)
    PROVE  /\ IsFiniteSet(Banked(m)) /\ IsFiniteSet(Younger(m, k))
           /\ Cardinality(Younger(m, k)) \in 0 .. Cardinality(Banked(m)) - 1
<1>1. IsFiniteSet(Baselines) /\ Baselines \subseteq Nat
  BY CacheAssumption
<1>2. IsFiniteSet(Banked(m))
  BY <1>1, FS_Subset DEF Banked
<1>3. k \in Nat /\ m[k] \in Nat
  BY <1>1 DEF Banked
<1>4. Younger(m, k) \in SUBSET Banked(m) /\ k \notin Younger(m, k)
  BY <1>3 DEF Younger, Older
<1>5. /\ IsFiniteSet(Younger(m, k)) /\ Cardinality(Younger(m, k)) <= Cardinality(Banked(m))
      /\ Cardinality(Younger(m, k)) # Cardinality(Banked(m))
  BY <1>2, <1>4, FS_Subset
<1>6. Cardinality(Younger(m, k)) \in Nat /\ Cardinality(Banked(m)) \in Nat
  BY <1>2, <1>5, FS_CardinalityType
<1> QED BY <1>2, <1>5, <1>6

\* The younger of two entries has fewer that are younger than it.
LEMMA YoungerShrinks ==
    ASSUME NEW m \in [Baselines -> Nat], NEW j \in Banked(m), NEW k \in Banked(m), Older(m, j, k)
    PROVE  Cardinality(Younger(m, k)) < Cardinality(Younger(m, j))
<1>1. Baselines \subseteq Nat /\ Banked(m) \subseteq Baselines
  BY CacheAssumption DEF Banked
<1>2. j \in Nat /\ k \in Nat /\ m[j] \in Nat /\ m[k] \in Nat
  BY <1>1
<1>3. ASSUME NEW i \in Younger(m, k)
      PROVE  i \in Younger(m, j)
  <2>1. i \in Nat /\ m[i] \in Nat /\ i \in Banked(m)
    BY <1>1, <1>3 DEF Younger
  <2> QED BY <1>2, <1>3, <2>1 DEF Younger, Older
<1>4. k \in Younger(m, j) /\ k \notin Younger(m, k)
  BY <1>2 DEF Younger, Older
<1>5. IsFiniteSet(Younger(m, j)) /\ Younger(m, k) \in SUBSET Younger(m, j) /\ Younger(m, k) # Younger(m, j)
  BY <1>3, <1>4, YoungerIs
<1>6. Cardinality(Younger(m, k)) <= Cardinality(Younger(m, j)) /\ Cardinality(Younger(m, k)) # Cardinality(Younger(m, j))
  BY <1>5, FS_Subset
<1>7. Cardinality(Younger(m, k)) \in Nat /\ Cardinality(Younger(m, j)) \in Nat
  BY YoungerIs
<1> QED BY <1>6, <1>7

\* Once an entry does not fit, what is kept fills the bound.
LEMMA KeepsTheBound ==
    ASSUME NEW m \in [Baselines -> Nat], NEW n \in Nat,
           NEW k \in Banked(m), k \notin Banked(Bounded(m, n))
    PROVE  /\ Cardinality(Banked(Bounded(m, n))) = n
           /\ \A j \in Banked(Bounded(m, n)) : Bounded(m, n)[j] = m[j] /\ m[j] >= m[k]
<1> DEFINE B == Banked(m)
           N == Cardinality(B)
           K == Banked(Bounded(m, n))
           rank == [j \in B |-> Cardinality(Younger(m, j))]
<1>1. Baselines \subseteq Nat /\ B \subseteq Baselines
  BY CacheAssumption DEF Banked
<1>2. IsFiniteSet(B) /\ N \in Nat
  BY YoungerIs, FS_CardinalityType
<1>3. K = {j \in B : rank[j] < n} /\ \A j \in K : Bounded(m, n)[j] = m[j]
  <2>1. \A j \in Baselines : Bounded(m, n)[j] = IF Cardinality(Younger(m, j)) < n THEN m[j] ELSE 0
    BY DEF Bounded, Younger
  <2> QED BY <1>1, <2>1 DEF Banked
<1>4. rank \in [B -> 0 .. N - 1]
  BY YoungerIs
<1>5. ASSUME NEW i \in B, NEW j \in B, i # j
      PROVE  rank[i] # rank[j]
  <2>1. i \in Nat /\ j \in Nat /\ m[i] \in Nat /\ m[j] \in Nat
    BY <1>1
  <2>2. Older(m, i, j) \/ Older(m, j, i)
    BY <1>5, <2>1 DEF Older
  <2>3. rank[i] \in Nat /\ rank[j] \in Nat /\ (rank[i] < rank[j] \/ rank[j] < rank[i])
    BY <2>2, YoungerShrinks, YoungerIs
  <2> QED BY <2>3
<1> HIDE DEF rank
<1>6. rank \in Injection(B, 0 .. N - 1)
  BY <1>4, <1>5 DEF Injection, IsInjective
<1>7. IsFiniteSet(0 .. N - 1) /\ Cardinality(0 .. N - 1) = N
  <2> HIDE DEF N
  <2>1. N - 1 \in Int /\ 0 \in Int
    BY <1>2
  <2>2. IsFiniteSet(0 .. N - 1) /\ Cardinality(0 .. N - 1) = IF 0 > N - 1 THEN 0 ELSE N - 1 - 0 + 1
    BY <2>1, FS_Interval
  <2> QED BY <1>2, <2>2
<1>8. rank \in Surjection(B, 0 .. N - 1)
  BY <1>6, <1>7, FS_Injection
<1>9. \A p \in 0 .. N - 1 : \E j \in B : rank[j] = p
  BY <1>8 DEF Surjection
<1>10. rank[k] \in 0 .. N - 1 /\ n <= rank[k]
  BY <1>3, <1>4
<1>11. Cardinality(K) = n
  <2> DEFINE low == [j \in K |-> rank[j]]
  <2>1. low \in [K -> 0 .. n - 1]
    BY <1>3, <1>4
  <2>2. \A i, j \in K : low[i] = low[j] => i = j
    BY <1>3, <1>5
  <2>3. ASSUME NEW p \in 0 .. n - 1
        PROVE  \E j \in K : low[j] = p
    <3>1. p \in 0 .. N - 1 /\ p < n
      BY <1>2, <1>10
    <3>2. PICK j \in B : rank[j] = p
      BY <1>9, <3>1
    <3> QED BY <1>3, <3>1, <3>2
  <2> HIDE DEF low
  <2>4. low \in Bijection(K, 0 .. n - 1)
    BY <2>1, <2>2, <2>3 DEF Bijection, Injection, Surjection, IsInjective
  <2>5. IsFiniteSet(K) /\ ExistsBijection(K, 0 .. n - 1)
    <3>1. K \in SUBSET B
      BY <1>3
    <3> QED BY <1>2, <2>4, <3>1, FS_Subset DEF ExistsBijection
  <2>6. Cardinality(0 .. n - 1) = Cardinality(K)
    BY <2>5, FS_Bijection
  <2> QED BY <2>6, FS_Interval
<1>12. ASSUME NEW j \in K
       PROVE  m[j] >= m[k]
  <2>1. j \in B /\ rank[j] < n /\ rank[j] \in Nat /\ rank[k] \in Nat
    BY <1>3, <1>4, <1>12
  <2>2. ~Older(m, j, k)
    BY <1>10, <2>1, YoungerShrinks DEF rank
  <2>3. m[j] \in Nat /\ m[k] \in Nat
    BY <1>1, <2>1
  <2> QED BY <2>2, <2>3 DEF Older
<1> QED BY <1>3, <1>11, <1>12

------------------------------------------------------------------------------
(* The bank: its writers.                                                  *)

Doings == {"closed", "open", "locking", "merging", "writing", "ended"}

BankTyped ==
    /\ disk \in [Baselines -> Nat] /\ copy \in [Baselines -> Nat]
    /\ memory \in [Campaigns -> [Baselines -> Nat]] /\ dirty \in [Campaigns -> SUBSET Baselines]
    /\ doing \in [Campaigns -> Doings] /\ leaving \in [Campaigns -> BOOLEAN] /\ clock \in Nat

\* Who has read the file to replace it holds its lock, and a campaign that is
\* about to write has all of it, its own deposits as it measured them.
MergedSoFar ==
    /\ \A c \in Campaigns : doing[c] \in {"merging", "writing"} => lock = c
    /\ pruner \in {"reading", "cutting"} => lock = "pruner"
    /\ \A c \in Campaigns : doing[c] = "writing" =>
           \A k \in Banked(disk) : memory[c][k] # 0 /\ (memory[c][k] >= disk[k] \/ k \in dirty[c])

BankInv == BankTyped /\ (bare = {} => MergedSoFar)

LEMMA BoundedType ==
    ASSUME NEW m \in [Baselines -> Nat], NEW n
    PROVE  Bounded(m, n) \in [Baselines -> Nat]
BY DEF Bounded

LEMMA MergedType ==
    ASSUME BankTyped, NEW c \in Campaigns
    PROVE  /\ Merged(c) \in [Baselines -> Nat]
           /\ \A k \in Banked(disk) : Merged(c)[k] # 0 /\ (Merged(c)[k] >= disk[k] \/ k \in dirty[c])
BY DEF BankTyped, Merged, Banked

LEMMA BankInitSound == CacheInit => BankInv
<1> SUFFICES ASSUME CacheInit
             PROVE  BankInv
  OBVIOUS
<1>1. Empty \in [Baselines -> Nat] /\ [k \in Baselines |-> 1] \in [Baselines -> Nat]
  BY DEF Empty
<1>2. disk \in [Baselines -> Nat] /\ copy \in [Baselines -> Nat]
  BY <1>1, BoundedType DEF CacheInit
<1>3. BankTyped
  BY <1>1, <1>2 DEF CacheInit, BankTyped, Doings
<1>4. MergedSoFar
  BY DEF CacheInit, MergedSoFar
<1> QED BY <1>3, <1>4 DEF BankInv

LEMMA BankTypeKept == ASSUME BankTyped, [CacheNext]_cacheVars PROVE BankTyped'
<1> USE DEF BankTyped
<1>1. ASSUME NEW c \in Campaigns, Banks(c)
      PROVE  BankTyped'
  <2>1. doing' \in [Campaigns -> Doings] /\ UNCHANGED copy
    BY <1>1 DEF Banks, Opens, Puts, Saves, Locks, GoesBare, Merges, Writes, Dies, Does, Doings, pruneVars
  <2>2. Empty \in [Baselines -> Nat] /\ Merged(c) \in [Baselines -> Nat] /\ Bounded(memory[c], Ceiling) \in [Baselines -> Nat]
    BY MergedType, BoundedType DEF Empty
  <2>3. disk' \in [Baselines -> Nat]
    BY <1>1, <2>2 DEF Banks, Opens, Puts, Saves, Locks, GoesBare, Merges, Writes, Dies
  <2>4. clock' \in Nat /\ leaving' \in [Campaigns -> BOOLEAN] /\ dirty' \in [Campaigns -> SUBSET Baselines]
    <3>1. CASE \E k \in Baselines : Puts(c, k)
      <4>1. PICK k \in Baselines : Puts(c, k)
        BY <3>1
      <4> QED BY <4>1 DEF Puts
    <3>2. CASE Opens(c) \/ Saves(c) \/ Locks(c) \/ GoesBare(c) \/ Merges(c)
      BY <3>2 DEF Opens, Saves, Locks, GoesBare, Merges
    <3>3. CASE Writes(c) \/ Dies(c)
      BY <3>3 DEF Writes, Dies
    <3> QED BY <1>1, <3>1, <3>2, <3>3 DEF Banks
  <2>5. memory' \in [Campaigns -> [Baselines -> Nat]]
    <3>1. CASE Opens(c)
      BY <3>1 DEF Opens
    <3>2. CASE \E k \in Baselines : Puts(c, k)
      BY <2>4, <3>2 DEF Puts
    <3>3. CASE Saves(c) \/ Locks(c) \/ GoesBare(c)
      BY <3>3 DEF Saves, Locks, GoesBare
    <3>4. CASE Merges(c) \/ Writes(c) \/ Dies(c)
      BY <2>2, <3>4 DEF Merges, Writes, Dies
    <3> QED BY <1>1, <3>1, <3>2, <3>3, <3>4 DEF Banks
  <2> QED BY <2>1, <2>3, <2>4, <2>5
<1>2. CASE Prune \/ Installs \/ Attests
  <2>1. Bounded(copy, Keep) \in [Baselines -> Nat] /\ Empty \in [Baselines -> Nat]
    BY BoundedType DEF Empty
  <2>2. disk' \in [Baselines -> Nat] /\ copy' \in [Baselines -> Nat]
    BY <1>2, <2>1 DEF Prune, PruneLocks, PruneReads, PruneCuts, PruneLooks, PruneRemoves, Installs, Attests, pruneVars
  <2>3. UNCHANGED bankVars
    BY <1>2 DEF Prune, PruneLocks, PruneReads, PruneCuts, PruneLooks, PruneRemoves, Installs, Attests, Prunes
  <2> QED BY <2>2, <2>3 DEF bankVars
<1>3. CASE UNCHANGED cacheVars
  BY <1>3 DEF cacheVars, bankVars, pruneVars
<1> QED BY <1>1, <1>2, <1>3 DEF CacheNext

LEMMA BankKept == BankInv /\ [CacheNext]_cacheVars => BankInv'
<1> SUFFICES ASSUME BankInv, [CacheNext]_cacheVars, bare' = {}
             PROVE  MergedSoFar'
  BY BankTypeKept DEF BankInv
<1>1. bare = {}
  BY DEF CacheNext, Banks, Opens, Puts, Saves, Locks, GoesBare, Merges, Writes, Dies, Prune, PruneLocks,
         PruneReads, PruneCuts, PruneLooks, PruneRemoves, Installs, Attests, cacheVars
<1>2. BankTyped /\ MergedSoFar /\ Nobody \notin Campaigns /\ "pruner" \notin Campaigns /\ Nobody # "pruner"
  BY <1>1, CacheAssumption DEF BankInv
<1>3. ASSUME NEW c \in Campaigns, Banks(c)
      PROVE  MergedSoFar'
  <2>1. UNCHANGED pruner /\ \A d \in Campaigns : d # c => doing'[d] = doing[d]
    BY <1>2, <1>3 DEF Banks, Opens, Puts, Saves, Locks, GoesBare, Merges, Writes, Dies, Does, pruneVars, BankTyped
  <2>2. \A d \in Campaigns : d # c => memory'[d] = memory[d] /\ dirty'[d] = dirty[d]
    BY <1>2, <1>3 DEF Banks, Opens, Puts, Saves, Locks, GoesBare, Merges, Writes, Dies, BankTyped
  <2>3. CASE Opens(c) \/ (\E k \in Baselines : Puts(c, k)) \/ Saves(c)
    <3>1. UNCHANGED <<disk, lock>> /\ doing'[c] \in {"open", "locking"}
      BY <1>2, <2>3 DEF Opens, Puts, Saves, Does, BankTyped
    <3> QED BY <1>2, <2>1, <2>2, <3>1 DEF MergedSoFar
  <2>4. CASE Locks(c)
    <3>1. lock = Nobody /\ lock' = c /\ doing'[c] = "merging" /\ UNCHANGED disk
      BY <1>2, <2>4 DEF Locks, Does, BankTyped
    <3> QED BY <1>2, <2>1, <2>2, <3>1 DEF MergedSoFar
  <2>5. CASE GoesBare(c)
    BY <2>5 DEF GoesBare
  <2>6. CASE Merges(c)
    <3>1. /\ doing[c] = "merging" /\ doing'[c] = "writing" /\ memory'[c] = Merged(c)
          /\ UNCHANGED <<disk, lock, dirty>>
      BY <1>2, <2>6 DEF Merges, Does, BankTyped
    <3>2. \A k \in Banked(disk) : memory'[c][k] # 0 /\ (memory'[c][k] >= disk'[k] \/ k \in dirty'[c])
      BY <1>2, <3>1, MergedType
    <3>3. Banked(disk)' = Banked(disk)
      BY <3>1 DEF Banked
    <3> QED BY <1>2, <2>1, <2>2, <3>1, <3>2, <3>3 DEF MergedSoFar
  <2>7. CASE Writes(c) \/ Dies(c)
    <3>1. /\ doing'[c] \in {"open", "ended"} /\ lock' = IF lock = c THEN Nobody ELSE lock
          /\ UNCHANGED disk \/ doing[c] = "writing"
      BY <1>2, <2>7 DEF Writes, Dies, Does, BankTyped
    <3>2. \A d \in Campaigns : d # c /\ doing[d] \in {"merging", "writing"} => lock' = d /\ UNCHANGED disk
      BY <1>2, <3>1 DEF MergedSoFar
    <3>3. pruner \in {"reading", "cutting"} => lock' = "pruner"
      BY <1>2, <3>1 DEF MergedSoFar
    <3> QED BY <1>2, <2>1, <2>2, <3>1, <3>2, <3>3 DEF MergedSoFar
  <2> QED BY <1>3, <2>3, <2>4, <2>5, <2>6, <2>7 DEF Banks
<1>4. CASE Prune
  <2>1. UNCHANGED <<memory, dirty, doing>>
    BY <1>4 DEF Prune, PruneLocks, PruneReads, PruneCuts, PruneLooks, PruneRemoves, Prunes, bankVars
  <2>2. CASE PruneLocks
    <3>1. lock = Nobody /\ lock' = "pruner" /\ UNCHANGED disk
      BY <2>2 DEF PruneLocks
    <3> QED BY <1>2, <2>1, <3>1 DEF MergedSoFar
  <2>3. CASE PruneReads
    BY <1>2, <2>1, <2>3 DEF MergedSoFar, PruneReads, Prunes
  <2>4. CASE PruneCuts
    BY <1>2, <2>1, <2>4 DEF MergedSoFar, PruneCuts, Prunes
  <2>5. CASE PruneLooks
    BY <1>2, <2>1, <2>5 DEF MergedSoFar, PruneLooks, Prunes
  <2>6. CASE PruneRemoves
    BY <1>2, <2>1, <2>6 DEF MergedSoFar, PruneRemoves, Prunes
  <2> QED BY <1>4, <2>2, <2>3, <2>4, <2>5, <2>6 DEF Prune
<1>5. CASE Installs \/ Attests \/ UNCHANGED cacheVars
  <2>1. UNCHANGED <<disk, memory, dirty, doing, lock, pruner>>
    BY <1>5 DEF Installs, Attests, cacheVars, bankVars, pruneVars
  <2> QED BY <1>2, <2>1 DEF MergedSoFar
<1> QED BY <1>3, <1>4, <1>5 DEF CacheNext

\* While every writer gets the bank file's lock, campaigns that each hold a
\* bank of their own never lose each other's deposits: an entry leaves the
\* file only at its ceiling, the youngest staying (persistLocked,
\* src/bank.go).
THEOREM DepositsAge == CacheSpec => BankOnlyAges
<1>1. BankInv /\ [CacheNext]_cacheVars =>
          [\A k \in Banked(disk) : bare' = {} /\ pruner' = pruner =>
              \/ k \in Banked(disk')
              \/ /\ Cardinality(Banked(disk')) = Ceiling
                 /\ \A j \in Banked(disk') :
                        \/ disk'[j] >= disk[k]
                        \/ \E c \in Campaigns : doing[c] = "writing" /\ k \in dirty[c] /\ disk'[j] >= memory[c][k]
          ]_cacheVars
  <2> SUFFICES ASSUME BankInv, CacheNext, NEW k \in Banked(disk), bare' = {}, UNCHANGED pruner, k \notin Banked(disk')
               PROVE  /\ Cardinality(Banked(disk')) = Ceiling
                      /\ \A j \in Banked(disk') :
                             \/ disk'[j] >= disk[k]
                             \/ \E c \in Campaigns : doing[c] = "writing" /\ k \in dirty[c] /\ disk'[j] >= memory[c][k]
    OBVIOUS
  <2>1. disk' # disk
    OBVIOUS
  <2>2. PICK c \in Campaigns : Writes(c)
    BY <2>1 DEF CacheNext, Banks, Opens, Puts, Saves, Locks, GoesBare, Merges, Dies, Prune, Prunes, PruneLocks,
                PruneReads, PruneCuts, PruneLooks, PruneRemoves, Installs, Attests
  <2>3. doing[c] = "writing" /\ disk' = Bounded(memory[c], Ceiling) /\ UNCHANGED bare
    BY <2>1, <2>2 DEF Writes, Does
  <2>4. BankTyped /\ MergedSoFar
    BY <2>3 DEF BankInv
  <2>5. PICK m \in [Baselines -> Nat] : m = memory[c]
    BY <2>4 DEF BankTyped
  <2>6. k \in Banked(m) /\ (m[k] >= disk[k] \/ k \in dirty[c]) /\ disk[k] \in Nat /\ m[k] \in Nat
    BY <2>3, <2>4, <2>5 DEF MergedSoFar, Banked, BankTyped
  <2>7. disk' = Bounded(m, Ceiling) /\ Ceiling \in Nat
    BY <2>3, <2>5, CacheAssumption
  <2>8. /\ Cardinality(Banked(disk')) = Ceiling
        /\ \A j \in Banked(disk') : disk'[j] = m[j] /\ m[j] >= m[k]
    BY <2>6, <2>7, KeepsTheBound
  <2>9. ASSUME NEW j \in Banked(disk')
        PROVE  \/ disk'[j] >= disk[k]
               \/ doing[c] = "writing" /\ k \in dirty[c] /\ disk'[j] >= memory[c][k]
    <3>1. disk'[j] = m[j] /\ m[j] \in Nat /\ m[j] >= m[k]
      BY <2>8 DEF Banked
    <3> QED BY <2>3, <2>5, <2>6, <3>1
  <2> QED BY <2>8, <2>9
<1>2. CacheSpec => []BankInv
  BY BankInitSound, BankKept, PTL DEF CacheSpec
<1> QED BY <1>1, <1>2, PTL DEF CacheSpec, BankOnlyAges
==============================================================================
