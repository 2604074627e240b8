-------------------------------- MODULE Window --------------------------------
(***************************************************************************)
(* One execution window, candidate by candidate (executeWindow in          *)
(* src/run.go): the dispatch loop walks the candidates in order and offers *)
(* each to a pool of workers over an unbuffered channel, the workers       *)
(* execute, score and tick, and a soft stop, a failing execution or a      *)
(* cancelled context ends the walk.  What a drained window keeps is        *)
(* decided once the pool is empty.                                         *)
(*                                                                         *)
(* Serial confirmation, which follows, is module Confirm's; what becomes   *)
(* of the window is module Campaign's.                                     *)
(***************************************************************************)
EXTENDS Naturals, FiniteSets

CONSTANTS
    Total, NWorks,  \* candidates and works of the window
    Work,           \* the work of a candidate
    Executes,       \* candidates that execute; the others are served
    Indivisible,    \* serves and budget extensions
    Workers, None

Candidates == 1 .. Total
Works      == 1 .. NWorks

ASSUME WindowAssumption ==
    /\ Total \in Nat /\ NWorks \in Nat
    /\ Work \in [Candidates -> Works]
    /\ \A c, d \in Candidates : c <= d => Work[c] <= Work[d]
    /\ Executes \subseteq Candidates
    /\ Indivisible \subseteq Works
    /\ IsFiniteSet(Workers) /\ None \notin Workers

VARIABLES
    dispatcher, \* the dispatch loop, and what follows it
    at,         \* the candidate it is at
    broken,     \* the candidate a soft stop broke it at, or 0
    phase, job, \* a worker's place, and its candidate
    tick,       \* the count it delivers
    ticking,    \* who holds tickMu
    count,      \* mutantsDone
    shown,      \* the last count delivered
    scored,     \* candidates with a verdict
    kept,       \* candidates the window aggregates
    failed,     \* poolErr is set
    stop,       \* SoftStop fired
    late,       \* candidates admitted since
    cancelled,  \* the run's context is cancelled
    outcome     \* what executeWindow returns

dispatching == <<dispatcher, at, broken, late>>
working     == <<phase, job, tick>>
counting    == <<ticking, count, shown>>
settling    == <<kept, outcome>>
vars == <<dispatching, working, counting, scored, settling, failed, stop, cancelled>>

\* The pool's context.
PoolDone == failed \/ cancelled

\* The pool stops starting workers once its context is done.
Init ==
    /\ dispatcher = "looking"
    /\ at = 1
    /\ broken = 0
    /\ cancelled \in BOOLEAN
    /\ \E started \in SUBSET Workers :
           /\ started # Workers => cancelled
           /\ phase = [w \in Workers |-> IF w \in started THEN "idle" ELSE "ended"]
    /\ job = [w \in Workers |-> 0]
    /\ tick = [w \in Workers |-> 0]
    /\ ticking = None
    /\ count = 0
    /\ shown = 0
    /\ scored = {}
    /\ kept = {}
    /\ failed = FALSE
    /\ stop \in BOOLEAN
    /\ late = 0
    /\ outcome = "none"

------------------------------------------------------------------------------
(* The dispatch loop.                                                      *)

Leaves(from, to) ==
    /\ dispatcher = from
    /\ dispatcher' = to
    /\ UNCHANGED <<working, counting, scored, settling, failed, stop, cancelled>>

\* Mutant of SeesStop: the loop's head does not look at SoftStop.
SeesStopNot == FALSE

\* The loop's head looks at SoftStop before the candidate.
SeesStop == stop

Breaks == broken' = at /\ UNCHANGED <<at, late>>

LookStops ==
    /\ at \in Candidates /\ SeesStop
    /\ Leaves("looking", "waiting")
    /\ Breaks

\* executesCandidate: a serve's unflagged candidates and an extension's
\* prefix stand on the record.
Offered(c) == c \in Executes

LookPasses ==
    /\ at \in Candidates /\ ~SeesStop
    /\ IF Offered(at)
       THEN Leaves("looking", "offering") /\ UNCHANGED at
       ELSE Leaves("looking", "looking") /\ at' = at + 1
    /\ UNCHANGED <<broken, late>>

LookEnds ==
    /\ at \notin Candidates
    /\ Leaves("looking", "waiting")
    /\ UNCHANGED <<at, broken, late>>

\* select takes any ready case: a waiting worker, the stop, the pool's end.
Offer(w) ==
    /\ dispatcher = "offering" /\ phase[w] = "idle"
    /\ dispatcher' = "looking"
    /\ at' = at + 1
    /\ phase' = [phase EXCEPT ![w] = "taken"]
    /\ job' = [job EXCEPT ![w] = at]
    /\ late' = IF stop THEN late + 1 ELSE late
    /\ UNCHANGED <<broken, tick, counting, scored, settling, failed, stop, cancelled>>

OfferStops ==
    /\ stop
    /\ Leaves("offering", "waiting")
    /\ Breaks

\* Mutant of OfferQuits: the select does not wait for the pool's context.
OfferQuitsNot == FALSE

OfferQuits ==
    /\ PoolDone
    /\ Leaves("offering", "waiting")
    /\ UNCHANGED <<at, broken, late>>

Dispatch ==
    \/ LookStops \/ LookPasses \/ LookEnds
    \/ (\E w \in Workers : Offer(w)) \/ OfferStops \/ OfferQuits

------------------------------------------------------------------------------
(* The workers.                                                            *)

Becomes(w, from, to) ==
    /\ phase[w] = from
    /\ phase' = [phase EXCEPT ![w] = to]
    /\ job' = [job EXCEPT ![w] = IF to \in {"idle", "ended"} THEN 0 ELSE @]
    /\ UNCHANGED <<dispatching, settling, stop, cancelled>>

\* The channel is closed and nothing is offered.
WorkerEnds(w) ==
    /\ dispatcher = "waiting"
    /\ Becomes(w, "idle", "ended")
    /\ UNCHANGED <<tick, counting, scored, failed>>

\* A worker that took a candidate looks at its context first.
WorkerBegins(w) ==
    /\ ~PoolDone
    /\ Becomes(w, "taken", "running")
    /\ UNCHANGED <<tick, counting, scored, failed>>

WorkerQuits(w) ==
    /\ PoolDone
    /\ Becomes(w, "taken", "ended")
    /\ UNCHANGED <<tick, counting, scored, failed>>

\* The execution fails: the first failure is the pool's, and under a done
\* context none is.
WorkerFails(w) ==
    /\ Becomes(w, "running", "ended")
    /\ failed' = (failed \/ ~PoolDone)
    /\ UNCHANGED <<tick, counting, scored>>

WorkerScores(w) ==
    /\ Becomes(w, "running", "scored")
    /\ scored' = scored \cup {job[w]}
    /\ UNCHANGED <<tick, counting, failed>>

TickFree == ticking = None

\* The completion tick counts under tickMu ...
WorkerCounts(w) ==
    /\ TickFree
    /\ Becomes(w, "scored", "counted")
    /\ ticking' = w
    /\ count' = count + 1
    /\ tick' = [tick EXCEPT ![w] = count + 1]
    /\ UNCHANGED <<shown, scored, failed>>

\* ... and delivers what it counted before releasing it.
WorkerTicks(w) ==
    /\ Becomes(w, "counted", "idle")
    /\ shown' = tick[w]
    /\ tick' = [tick EXCEPT ![w] = 0]
    /\ ticking' = None
    /\ UNCHANGED <<count, scored, failed>>

Toil(w) ==
    \/ WorkerEnds(w) \/ WorkerBegins(w) \/ WorkerQuits(w) \/ WorkerFails(w)
    \/ WorkerScores(w) \/ WorkerCounts(w) \/ WorkerTicks(w)

------------------------------------------------------------------------------
(* The drain.                                                              *)

\* Mutant of Drained: the candidate the walk broke at counts as handled.
DrainedPast(c) == c <= broken

\* The walk handled c.
Drained(c) == c < broken

\* What aggregates: everything, or of a drained window the works before the
\* break whole and the handled prefix of the broken work, unless that work
\* commits whole or not at all.
Keeps ==
    IF broken = 0 THEN Candidates
    ELSE {c \in Candidates :
              \/ Work[c] < Work[broken]
              \/ Work[c] = Work[broken] /\ Drained(c) /\ Work[c] \notin Indivisible}

AdvanceDone(total) == IF total > count THEN total ELSE count

\* wg.Wait: every worker returned.
Joined == dispatcher = "waiting" /\ \A w \in Workers : phase[w] = "ended"

\* The pool's error surfaces, then a cancellation.
Refuse ==
    /\ Joined /\ PoolDone
    /\ dispatcher' = "left"
    /\ outcome' = IF failed THEN "failed" ELSE "cancelled"
    /\ UNCHANGED <<at, broken, late, working, counting, scored, kept, failed, stop, cancelled>>

\* The truncation, and the true-up of the count at the window's boundary.
Settle ==
    /\ Joined /\ ~PoolDone
    /\ dispatcher' = "settled"
    /\ kept' = Keeps
    /\ count' = AdvanceDone(Cardinality(Keeps))
    /\ UNCHANGED <<at, broken, late, working, ticking, shown, scored, outcome, failed, stop, cancelled>>

\* Serial confirmation may fail; a cancellation is looked for after it.
Return ==
    /\ dispatcher = "settled"
    /\ dispatcher' = "left"
    /\ outcome' \in {"failed", IF cancelled THEN "cancelled" ELSE "executed"}
    /\ UNCHANGED <<at, broken, late, working, counting, scored, kept, failed, stop, cancelled>>

------------------------------------------------------------------------------

SoftStop ==
    /\ ~stop /\ dispatcher \in {"looking", "offering"}
    /\ stop' = TRUE
    /\ UNCHANGED <<dispatching, working, counting, scored, settling, failed, cancelled>>

Cancel ==
    /\ ~cancelled /\ dispatcher # "left"
    /\ cancelled' = TRUE
    /\ UNCHANGED <<dispatching, working, counting, scored, settling, failed, stop>>

Step == Dispatch \/ (\E w \in Workers : Toil(w)) \/ Refuse \/ Settle \/ Return

Next == Step \/ SoftStop \/ Cancel

Spec == Init /\ [][Next]_vars

\* An execution ends within its budget and a cancelled one is reaped; the
\* scheduler runs some goroutine while one can run.
FairSpec == Spec /\ WF_vars(Step)

------------------------------------------------------------------------------

Phases == {"idle", "taken", "running", "scored", "counted", "ended"}

TypeOK ==
    /\ dispatcher \in {"looking", "offering", "waiting", "settled", "left"}
    /\ at \in 1 .. Total + 1
    /\ broken \in 0 .. Total
    /\ phase \in [Workers -> Phases]
    /\ job \in [Workers -> 0 .. Total]
    /\ tick \in [Workers -> Nat]
    /\ ticking \in Workers \cup {None}
    /\ count \in Nat /\ shown \in Nat
    /\ scored \subseteq Executes
    /\ kept \subseteq Candidates
    /\ failed \in BOOLEAN /\ stop \in BOOLEAN /\ cancelled \in BOOLEAN
    /\ late \in Nat
    /\ outcome \in {"none", "executed", "failed", "cancelled"}

\* What the window aggregates is measured: a drain, a failure or a
\* cancellation never passes an unexecuted candidate for a scored one, and a
\* serve or an extension is kept whole or not at all (REQ-exec-cancellation's
\* graceful interrupt).
NothingPartial ==
    outcome = "executed" =>
        /\ kept \cap Executes \subseteq scored
        /\ \A c, d \in Candidates :
               Work[c] = Work[d] /\ Work[c] \in Indivisible /\ c \in kept => d \in kept

\* No mutant is admitted after a graceful interrupt, but the one the select
\* was already offering.
AdmissionStops == late <= 1

\* The completion counts are delivered in order and never fall, across the
\* window's boundary too (REQ-exec-run-status's ticks).
TicksMonotone == [][shown' >= shown /\ count' >= count]_vars

\* Every candidate of a window that was not drained is accounted for once it
\* is left, the served ones included.
CountConverges == outcome = "executed" /\ broken = 0 => count = Total

==============================================================================
