------------------------------- MODULE Oracle -------------------------------
(***************************************************************************)
(* The engine's oracle.  A seat is a goroutine that asks the engine for one *)
(* thing at a time: a baseline of the unmutated tree or a run against a     *)
(* mutant.  Each is a process under the caller's context and a bound of its *)
(* own, and what it did is classified after it ended, while both may still  *)
(* expire (internal/engine/run.go).  Seats whose mutants carry a schema     *)
(* share one compiled binary (internal/engine/schema_exec.go).              *)
(***************************************************************************)
EXTENDS Naturals, FiniteSets

CONSTANTS
    Seats,       \* goroutines that ask
    Schematic,   \* those whose mutants carry the schema
    Tests,       \* the package's top-level tests
    MaxEntries   \* bound: cache entries made for the schema's key

ASSUME OracleAssumption ==
    /\ Schematic \subseteq Seats /\ MaxEntries \in Nat
    \* An answer's other words are no test's name.
    /\ Tests \cap {"none", "timeout", "package", "nothing", "unclassifiable", "rejected", "compiler",
                   "failing", "clean", "crashed", "garbled", "killed", "late"} = {}

\* The caller's context, and what the process's own context died of first.
VARIABLES ctx, bound
\* Where a seat is; what it asked for; how its process ended and which tests
\* that one passed; the answer.
VARIABLES place, asked, ended, passing, answer
\* A baseline's process measures coverage; the first of its two looks.
VARIABLES covering, look
\* The schema's cache: every entry made, the one the key leads to, the one
\* each seat holds.
VARIABLES entries, slot, holds

ctxVars    == <<ctx, bound>>
seatVars   == <<place, asked, ended, passing, answer>>
probeVars  == <<covering, look>>
cacheVars  == <<entries, slot, holds>>
oracleVars == <<ctxVars, seatVars, probeVars, cacheVars>>

None == "none"

\* What a process can come to: an exit of its own (clean, with a failed test,
\* with none named, with the harness's word that the build failed, with a
\* stream that does not parse), or the end its dead context made.  "late" is
\* an exit on its own, clean, after the kill was sent; a process the machine
\* could not fork is "crashed", an unusable disk "garbled".
OwnEnds == {"clean", "crashed", "rejected", "garbled"} \cup Tests
Ends    == OwnEnds \cup {"killed", "late"}

Answer(is, by) == [is |-> is, by |-> by]
NoAnswer   == Answer(None, None)
Failed     == Answer("error", None)
Survived   == Answer("survived", None)
Killed(by) == Answer("killed", by)
Discarded(why) == Answer("discarded", why)

NoLook == [taken |-> FALSE, tests |-> {}]

OracleInit ==
    /\ ctx = [s \in Seats |-> "live"] /\ bound = [s \in Seats |-> "live"]
    /\ place = [s \in Seats |-> "idle"] /\ asked = [s \in Seats |-> None]
    /\ ended = [s \in Seats |-> None] /\ passing = [s \in Seats |-> {}]
    /\ answer = [s \in Seats |-> NoAnswer]
    /\ covering = [s \in Seats |-> FALSE] /\ look = [s \in Seats |-> NoLook]
    /\ entries = [e \in 1 .. MaxEntries |-> "unmade"] /\ slot = 0
    /\ holds = [s \in Seats |-> 0]

GoesTo(s, there) == place' = [place EXCEPT ![s] = there]

\* A process starts under a fresh bound.  A dead context refuses the start,
\* which is classified as its kill is.
Starts(s, there) ==
    IF ctx[s] = "live"
    THEN /\ GoesTo(s, there)
         /\ bound' = [bound EXCEPT ![s] = "live"]
         /\ ended' = [ended EXCEPT ![s] = None]
    ELSE /\ GoesTo(s, IF there = "running" THEN "exited" ELSE "probed")
         /\ bound' = [bound EXCEPT ![s] = "caller"]
         /\ ended' = [ended EXCEPT ![s] = "killed"]

\* The call returns, its scratch and its timer gone.
Returns(s, with) ==
    /\ GoesTo(s, "returned")
    /\ answer' = [answer EXCEPT ![s] = with]
    /\ bound' = [bound EXCEPT ![s] = "live"]
    /\ covering' = [covering EXCEPT ![s] = FALSE]
    /\ look' = [look EXCEPT ![s] = NoLook]
    /\ UNCHANGED <<ctx, asked, ended, cacheVars>>

\* Every answer but a rejected build's goes through the observation, which
\* looks at the caller's context first.
Observes(s, then) == Returns(s, IF ctx[s] = "dead" THEN Failed ELSE then)

------------------------------------------------------------------------------
(* Asking.                                                                  *)

AsksMutant(s) ==
    /\ place[s] = "idle"
    /\ asked' = [asked EXCEPT ![s] = "mutant"]
    /\ IF ctx[s] = "live" /\ s \in Schematic THEN GoesTo(s, "keyed") /\ UNCHANGED <<bound, ended>>
       ELSE Starts(s, "running")
    /\ UNCHANGED <<ctx, passing, answer, probeVars, cacheVars>>

AsksBaseline(s, covers) ==
    /\ place[s] = "idle"
    /\ asked' = [asked EXCEPT ![s] = "baseline"]
    /\ covering' = [covering EXCEPT ![s] = covers]
    /\ Starts(s, "running")
    /\ UNCHANGED <<ctx, passing, answer, look, cacheVars>>

\* The caller takes the answer and is free to ask again.
Takes(s) ==
    /\ place[s] = "returned"
    /\ GoesTo(s, "idle")
    /\ asked' = [asked EXCEPT ![s] = None]
    /\ ended' = [ended EXCEPT ![s] = None]
    /\ passing' = [passing EXCEPT ![s] = {}] /\ answer' = [answer EXCEPT ![s] = NoAnswer]
    /\ holds' = [holds EXCEPT ![s] = 0]
    /\ UNCHANGED <<ctxVars, probeVars, entries, slot>>

------------------------------------------------------------------------------
(* The schema's binary: compiled once per entry by whoever comes first,     *)
(* waited for by the rest.                                                  *)

Finds(s) ==
    /\ place[s] = "keyed"
    /\ IF slot # 0 THEN slot' = slot /\ UNCHANGED entries
       ELSE \E e \in 1 .. MaxEntries :
                /\ entries[e] = "unmade" /\ \A d \in 1 .. e - 1 : entries[d] # "unmade"
                /\ slot' = e /\ entries' = [entries EXCEPT ![e] = "made"]
    /\ holds' = [holds EXCEPT ![s] = slot']
    /\ GoesTo(s, "waiting")
    /\ UNCHANGED <<ctxVars, asked, ended, passing, answer, probeVars>>

Compiles(s) ==
    /\ place[s] = "waiting" /\ entries[holds[s]] = "made"
    /\ entries' = [entries EXCEPT ![holds[s]] = "compiling"]
    /\ GoesTo(s, "compiling")
    /\ UNCHANGED <<ctxVars, asked, ended, passing, answer, probeVars, slot, holds>>

\* Under the compiling caller's context; nothing else bounds it.
CompileEnds(s) ==
    /\ place[s] = "compiling"
    /\ \E how \in {"built", "broken", "cut"} :
           /\ how = "cut" => ctx[s] = "dead"
           /\ entries' = [entries EXCEPT ![holds[s]] = how]
    /\ GoesTo(s, "served")
    /\ UNCHANGED <<ctxVars, asked, ended, passing, answer, probeVars, slot, holds>>

\* Mutant of Waits: only a built entry wakes those who wait for it.
WaitsForBuilt(s) ==
    /\ place[s] = "waiting" /\ entries[holds[s]] = "built"
    /\ GoesTo(s, "served")
    /\ UNCHANGED <<ctxVars, asked, ended, passing, answer, probeVars, cacheVars>>

Waits(s) ==
    /\ place[s] = "waiting" /\ entries[holds[s]] \in {"built", "broken", "cut"}
    /\ GoesTo(s, "served")
    /\ UNCHANGED <<ctxVars, asked, ended, passing, answer, probeVars, cacheVars>>

\* Mutant of Drops: a reader whose context is dead takes a sound entry away.
DropsBuilt(s) ==
    /\ place[s] = "served"
    /\ slot' = IF ctx[s] = "dead" /\ slot = holds[s] THEN 0 ELSE slot
    /\ GoesTo(s, "bound")
    /\ UNCHANGED <<ctxVars, asked, ended, passing, answer, probeVars, entries, holds>>

\* A failed entry leaves the key if the reader's context is dead, and only if
\* it is still the key's.
Drops(s) ==
    /\ place[s] = "served"
    /\ slot' = IF entries[holds[s]] # "built" /\ ctx[s] = "dead" /\ slot = holds[s] THEN 0 ELSE slot
    /\ GoesTo(s, "bound")
    /\ UNCHANGED <<ctxVars, asked, ended, passing, answer, probeVars, entries, holds>>

\* The binary runs, or the build overlay does in its place.
Binds(s) ==
    /\ place[s] = "bound" /\ ctx[s] = "live"
    /\ Starts(s, "running")
    /\ holds' = [holds EXCEPT ![s] = IF entries[holds[s]] = "built" THEN @ ELSE 0]
    /\ UNCHANGED <<ctx, asked, passing, answer, probeVars, entries, slot>>

BindFails(s) == place[s] = "bound" /\ ctx[s] = "dead" /\ Returns(s, Failed) /\ UNCHANGED passing

------------------------------------------------------------------------------
(* The process.                                                             *)

InProcess == {"running", "exited", "probing", "probed"}

BoundFires(s) ==
    /\ place[s] \in InProcess /\ bound[s] = "live"
    /\ bound' = [bound EXCEPT ![s] = "own"]
    /\ UNCHANGED <<ctx, seatVars, probeVars, cacheVars>>

CallerDies(s) ==
    /\ ctx[s] = "live"
    /\ ctx' = [ctx EXCEPT ![s] = "dead"]
    /\ bound' = [bound EXCEPT ![s] = IF place[s] \in InProcess /\ @ = "live" THEN "caller" ELSE @]
    /\ UNCHANGED <<seatVars, probeVars, cacheVars>>

\* A compiled binary cannot have its build rejected.
Ending(s, how) ==
    CASE how = "killed"   -> bound[s] # "live"
      [] how = "late"     -> bound[s] # "live"
      [] how = "rejected" -> holds[s] = 0
      [] OTHER            -> TRUE

Exits(s) ==
    /\ place[s] = "running"
    /\ \E how \in Ends, passed \in SUBSET Tests :
           /\ Ending(s, how)
           /\ how # "clean" \/ asked[s] = "mutant" => passed = {}
           /\ ended' = [ended EXCEPT ![s] = how]
           /\ passing' = [passing EXCEPT ![s] = passed]
    /\ GoesTo(s, "exited")
    /\ UNCHANGED <<ctxVars, asked, answer, probeVars, cacheVars>>

\* Mutant of BudgetFired: the timer alone.
BudgetFiredAlone(s) == bound[s] = "own"

\* The site's own bound killed it; or it failed and a context is dead.
BudgetFired(s) == bound[s] = "own" /\ ended[s] = "killed"
RunCancelled(s) == ended[s] # "clean" /\ bound[s] # "live"

Scored(s) == place[s] = "exited" /\ ~BudgetFired(s) /\ ~RunCancelled(s)

------------------------------------------------------------------------------
(* A mutant's run, classified.                                              *)

TimesOut(s) ==
    /\ place[s] = "exited" /\ BudgetFired(s) /\ asked[s] = "mutant"
    /\ Observes(s, Killed("timeout")) /\ UNCHANGED passing

\* Answered with the caller's error, which there is none of when it is the
\* bound that expired.
IsCancelled(s) ==
    /\ place[s] = "exited" /\ ~BudgetFired(s) /\ RunCancelled(s) /\ asked[s] = "mutant"
    /\ Observes(s, Discarded("nothing")) /\ UNCHANGED passing

Survives(s) ==
    /\ Scored(s) /\ asked[s] = "mutant" /\ ended[s] = "clean"
    /\ Observes(s, Survived) /\ UNCHANGED passing

FailsATest(s) ==
    /\ Scored(s) /\ asked[s] = "mutant" /\ ended[s] \in Tests
    /\ Observes(s, Killed(ended[s])) /\ UNCHANGED passing

\* No test process started, so nothing is observed; the compiler may have
\* crashed.
IsRejected(s) ==
    /\ Scored(s) /\ asked[s] = "mutant" /\ ended[s] = "rejected"
    /\ \E why \in {"rejected", "compiler"} : Returns(s, Discarded(why))
    /\ UNCHANGED passing

IsGarbled(s) ==
    /\ Scored(s) /\ ended[s] = "garbled" /\ ~covering[s]
    /\ Returns(s, Failed) /\ UNCHANGED passing

\* No test is named: the same invocation without the mutant tells noise from
\* a broken binary.
Differentiates(s) ==
    /\ Scored(s) /\ asked[s] = "mutant" /\ ended[s] = "crashed"
    /\ Starts(s, "probing")
    /\ UNCHANGED <<ctx, asked, passing, answer, probeVars, cacheVars>>

ProbeExits(s) ==
    /\ place[s] = "probing"
    /\ \E how \in {"clean", "crashed", "killed"} :
           /\ Ending(s, how)
           /\ ended' = [ended EXCEPT ![s] = how]
    /\ GoesTo(s, "probed")
    /\ UNCHANGED <<ctxVars, asked, passing, answer, probeVars, cacheVars>>

Differs(s) ==
    /\ place[s] = "probed"
    /\ Observes(s, IF bound[s] = "live" /\ ended[s] = "clean" THEN Killed("package")
                   ELSE Discarded("unclassifiable"))
    /\ UNCHANGED passing

MutantStep(s) ==
    TimesOut(s) \/ IsCancelled(s) \/ Survives(s) \/ FailsATest(s) \/ IsRejected(s)
        \/ Differentiates(s) \/ ProbeExits(s) \/ Differs(s)

------------------------------------------------------------------------------
(* A baseline's process, classified.                                        *)

\* Instrumentation can break a package that is sound without it.
Uncovers(s) ==
    /\ Scored(s) /\ covering[s] /\ ended[s] # "clean"
    /\ covering' = [covering EXCEPT ![s] = FALSE]
    /\ Starts(s, "running")
    /\ UNCHANGED <<ctx, asked, passing, answer, look, cacheVars>>

Refuses(s) ==
    /\ place[s] = "exited" /\ asked[s] = "baseline" /\ (Scored(s) => ~covering[s])
    /\ \/ BudgetFired(s) /\ Observes(s, Answer("refused", "timeout"))
       \/ ~BudgetFired(s) /\ RunCancelled(s) /\ Observes(s, Failed)
       \/ Scored(s) /\ ended[s] = "rejected"
              /\ \E why \in {"rejected", "compiler"} : Returns(s, Answer("refused", why))
       \/ Scored(s) /\ ended[s] \in Tests \cup {"crashed"} 
              /\ Observes(s, IF look[s].taken THEN Failed ELSE Answer("refused", "failing"))
    /\ UNCHANGED passing

\* The first look of an observed baseline that read something is repeated.
Repeats(s) ==
    /\ Scored(s) /\ asked[s] = "baseline" /\ ended[s] = "clean" /\ s \in Schematic
    /\ ~look[s].taken /\ passing[s] # {} /\ ctx[s] = "live"
    /\ look' = [look EXCEPT ![s] = [taken |-> TRUE, tests |-> passing[s]]]
    /\ covering' = [covering EXCEPT ![s] = FALSE]
    /\ Starts(s, "running")
    /\ UNCHANGED <<ctx, asked, passing, answer, cacheVars>>

\* A second look must pass the same tests.
Stands(s) ==
    /\ Scored(s) /\ asked[s] = "baseline" /\ ended[s] = "clean"
    /\ IF look[s].taken /\ passing[s] # look[s].tests THEN Observes(s, Failed)
       ELSE Observes(s, Answer("clean", None))
    /\ UNCHANGED passing

BaselineStep(s) == Uncovers(s) \/ Refuses(s) \/ Repeats(s) \/ Stands(s)

CacheStep(s) ==
    Finds(s) \/ Compiles(s) \/ CompileEnds(s) \/ Waits(s) \/ Drops(s) \/ Binds(s) \/ BindFails(s)

\* What a call does by itself.
Works(s) == CacheStep(s) \/ Exits(s) \/ MutantStep(s) \/ IsGarbled(s) \/ BaselineStep(s)

Asks(s) == AsksMutant(s) \/ \E covers \in BOOLEAN : AsksBaseline(s, covers)
==============================================================================
