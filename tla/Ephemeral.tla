------------------------------ MODULE Ephemeral ------------------------------
(***************************************************************************)
(* Ephemeral probes (ephemeral.go) over the engine's oracle, and the        *)
(* committed record of the mutants their authors judged equivalent          *)
(* (ephemeralattest.go), which other probes, a prune, a retarget and a hand *)
(* edit also change.  Beside them, a campaign's workers.                    *)
(***************************************************************************)
EXTENDS Oracle

CONSTANTS
    Probes,      \* the seats that are probes; the others are workers
    Raws,        \* a mutant's spellings, for one mutation of one file
    Toolchains,  \* whose gofmt renders them
    Canon,       \* the canonical digest, by toolchain and spelling
    Ours,        \* the probes' toolchain
    Records,     \* what the record may hold at first
    MaxRuns,     \* bound on a probe's runs
    MaxAsks,     \* bound on a worker's questions
    MaxActs,     \* bound on what others do to the record
    Casts        \* bound: who takes part, so that the instances add up

ASSUME EphemeralAssumption ==
    /\ Probes \subseteq Seats \ Schematic /\ Ours \in Toolchains
    /\ MaxRuns \in Nat \ {0} /\ MaxAsks \in Nat /\ MaxActs \in Nat

\* A probe: how far it is, what it was asked, the row that stood when it was
\* prepared, the baseline's passing tests, its runs so far, whether the
\* compiler's crash was retried, the coverage probe's word.
VARIABLES phase, request, standing, base, tally, again, reach
\* The record, whether it parses, and a lifecycle verb's held rewrite of it.
VARIABLES record, readable, held
VARIABLES acts, asks, cast

reviewVars    == <<record, readable, held, acts>>
taskVars      == <<phase, request, standing, base, tally, again, reach>>
ephemeralVars == <<oracleVars, taskVars, reviewVars, asks, cast>>

\* A row answers to its canonical digest, unless a version-1 record wrote it,
\* and to its raw one.  "on" is whether a retarget moved its files, "by" who
\* attested it.
NoDigest == "raw form"
NoRow == [canon |-> None]
Row(canon, raw, by) == [canon |-> canon, raw |-> raw, by |-> by, on |-> "here"]

\* The record names no mutant twice to begin with.
ASSUME RecordsAssumption ==
    \A rows \in Records : \A row \in rows :
        /\ row = Row(row.canon, row.raw, row.by)
        /\ \A other \in rows \ {row} :
               row.raw # other.raw /\ (row.canon = other.canon => row.canon = NoDigest)

Matches(row, canon, raw) == row.canon = canon \/ row.raw = raw

\* The row a mutant stands attested by: a canonical match outranks a raw one.
Standing(canon, raw) ==
    LET exact == {row \in record : row.canon = canon}
        spelt == {row \in record : row.raw = raw}
    IN IF exact # {} THEN CHOOSE row \in exact : TRUE
       ELSE IF spelt # {} THEN CHOOSE row \in spelt : TRUE ELSE NoRow

\* Mutant of Superseded: the rows naming it by the canonical digest alone.
SupersededCanonical(row) == {old \in record : old.canon # row.canon} \cup {row}

\* A replacement supersedes every row naming the mutant, by either key.
Superseded(row) == {old \in record : ~Matches(old, row.canon, row.raw)} \cup {row}

NoRequest == [raw |-> None]
NoTally   == [killed |-> 0, done |-> 0]

EphemeralInit ==
    /\ OracleInit
    /\ phase = [p \in Probes |-> "out"] /\ request = [p \in Probes |-> NoRequest]
    /\ standing = [p \in Probes |-> NoRow] /\ base = [p \in Probes |-> {}]
    /\ tally = [p \in Probes |-> NoTally] /\ again = [p \in Probes |-> FALSE]
    /\ reach = [p \in Probes |-> None]
    /\ cast \in Casts /\ record \in (IF "record" \in cast THEN Records ELSE {{}}) /\ readable = TRUE /\ held = [verb |-> None]
    /\ acts = 0 /\ asks = [s \in Seats |-> 0]

Canonical(p) == Canon[Ours][request[p].raw]

Enters(p, there) == phase' = [phase EXCEPT ![p] = there]

\* A refusal answers nothing; so does whatever ends the probe early.
Over == {"refused", "told", "attested"}

------------------------------------------------------------------------------
(* A probe's preparation.                                                   *)

RunsAtMost == IF "record" \in cast THEN 1 ELSE MaxRuns

Requests(p) ==
    /\ phase[p] = "out" /\ p \in cast
    /\ \E raw \in Raws, runs \in 1 .. RunsAtMost, attests, replaces \in BOOLEAN :
           /\ replaces => attests
           /\ request' = [request EXCEPT ![p] =
                  [raw |-> raw, runs |-> runs, attests |-> attests, replaces |-> replaces]]
    /\ Enters(p, "preparing")
    /\ UNCHANGED <<oracleVars, standing, base, tally, again, reach, reviewVars, asks>>

\* The record is read before anything is loaded or measured.
Prepares(p) ==
    /\ phase[p] = "preparing"
    /\ LET row == Standing(Canonical(p), request[p].raw)
           refuses == row # NoRow /\ request[p].attests /\ ~request[p].replaces
       IN IF ctx[p] = "live" /\ readable /\ ~refuses
          THEN standing' = [standing EXCEPT ![p] = row] /\ Enters(p, "resolving")
          ELSE Enters(p, "refused") /\ UNCHANGED standing
    /\ UNCHANGED <<oracleVars, request, base, tally, again, reach, reviewVars, asks>>

\* The package, the files and the pattern against what was loaded.
IsUnfit(p) ==
    /\ phase[p] = "resolving"
    /\ Enters(p, "refused")
    /\ UNCHANGED <<oracleVars, request, standing, base, tally, again, reach, reviewVars, asks>>

------------------------------------------------------------------------------
(* Its baseline, and one retry of a compiler's crash.                       *)

LooksFirst(p) ==
    /\ phase[p] = "resolving"
    /\ AsksBaseline(p, FALSE)
    /\ Enters(p, "baseline")
    /\ UNCHANGED <<request, standing, base, tally, again, reach, reviewVars, asks>>

LooksAgain(p) ==
    /\ phase[p] = "baseline" /\ again[p]
    /\ AsksBaseline(p, FALSE)
    /\ UNCHANGED <<taskVars, reviewVars, asks>>

Crash(p) == answer[p].by = "compiler"

RetriesBaseline(p) ==
    /\ phase[p] = "baseline" /\ ~again[p] /\ Takes(p) /\ Crash(p)
    /\ again' = [again EXCEPT ![p] = TRUE]
    /\ UNCHANGED <<phase, request, standing, base, tally, reach, reviewVars, asks>>

\* A clean process in which no test passed may have run none.
BaselineFails(p) ==
    /\ phase[p] = "baseline" /\ Takes(p) /\ (Crash(p) => again[p])
    /\ answer[p].is # "clean" \/ passing[p] = {}
    /\ Enters(p, "refused")
    /\ UNCHANGED <<request, standing, base, tally, again, reach, reviewVars, asks>>

BaselineStands(p) ==
    /\ phase[p] = "baseline" /\ Takes(p) /\ answer[p].is = "clean"
    /\ base' = [base EXCEPT ![p] = passing[p]]
    /\ again' = [again EXCEPT ![p] = FALSE]
    /\ Enters(p, "measuring")
    /\ UNCHANGED <<request, standing, tally, reach, reviewVars, asks>>

------------------------------------------------------------------------------
(* Its runs.                                                                *)

RunsMutant(p) ==
    /\ phase[p] = "measuring" /\ tally[p].done < request[p].runs
    /\ AsksMutant(p)
    /\ UNCHANGED <<taskVars, reviewVars, asks>>

RetriesRun(p) ==
    /\ phase[p] = "measuring" /\ ~again[p] /\ Takes(p) /\ Crash(p)
    /\ again' = [again EXCEPT ![p] = TRUE]
    /\ UNCHANGED <<phase, request, standing, base, tally, reach, reviewVars, asks>>

\* A kill by a test that did not pass on the unmutated tree is not one.
AllowsKill(p) == answer[p].by \in Tests => answer[p].by \in base[p]

RunFails(p) ==
    /\ phase[p] = "measuring" /\ Takes(p) /\ (Crash(p) => again[p])
    /\ \/ answer[p].is \in {"error", "discarded"}
       \/ answer[p].is = "killed" /\ ~AllowsKill(p)
    /\ Enters(p, "refused")
    /\ UNCHANGED <<request, standing, base, tally, again, reach, reviewVars, asks>>

RunCounts(p) ==
    /\ phase[p] = "measuring" /\ Takes(p)
    /\ \/ answer[p].is = "survived" /\ tally' = [tally EXCEPT ![p].done = @ + 1]
       \/ /\ answer[p].is = "killed" /\ AllowsKill(p)
          /\ tally' = [tally EXCEPT ![p].done = @ + 1, ![p].killed = @ + 1]
    /\ again' = [again EXCEPT ![p] = FALSE]
    /\ UNCHANGED <<phase, request, standing, base, reach, reviewVars, asks>>

\* Killed by every run; or the coverage probe says what it can of the reach,
\* a failed or cancelled one nothing.
Concludes(p) ==
    /\ phase[p] = "measuring" /\ place[p] = "idle" /\ tally[p].done = request[p].runs
    /\ IF tally[p].killed = request[p].runs
       THEN Enters(p, "answered") /\ UNCHANGED reach
       ELSE \E word \in {"unexercised", "unknown"} \cup (IF ctx[p] = "live" THEN {"exercised"} ELSE {}) :
                /\ reach' = [reach EXCEPT ![p] = word]
                /\ Enters(p, IF word = "unexercised" /\ tally[p].killed = 0 THEN "refused" ELSE "answered")
    /\ UNCHANGED <<oracleVars, request, standing, base, tally, again, reviewVars, asks>>

------------------------------------------------------------------------------
(* Its attestation.                                                         *)

Tells(p) ==
    /\ phase[p] = "answered" /\ ~request[p].attests
    /\ Enters(p, "told")
    /\ UNCHANGED <<oracleVars, request, standing, base, tally, again, reach, reviewVars, asks>>

\* Only an exercised survivor of every run is attested.
MayAttest(p) == tally[p].killed = 0 /\ reach[p] = "exercised"

Builds(p) ==
    /\ phase[p] = "answered" /\ request[p].attests
    /\ Enters(p, IF MayAttest(p) /\ ctx[p] = "live" THEN "recording" ELSE "refused")
    /\ UNCHANGED <<oracleVars, request, standing, base, tally, again, reach, reviewVars, asks>>

\* Mutant of Writes: the row read when the probe was prepared is trusted.
WritesUnlooked(row, replaces) == readable /\ record' = Superseded(row)

\* Under the record's lock, which reads it again.
Writes(row, replaces) ==
    /\ readable /\ (Standing(row.canon, row.raw) # NoRow => replaces)
    /\ record' = Superseded(row)

Attests(p) ==
    /\ phase[p] = "recording" /\ ctx[p] = "live"
    /\ Writes(Row(Canonical(p), request[p].raw, p), request[p].replaces)
    /\ Enters(p, "attested")
    /\ UNCHANGED <<oracleVars, request, standing, base, tally, again, reach, readable, held, acts, asks>>

AttestFails(p) ==
    /\ phase[p] = "recording"
    /\ \/ ctx[p] = "dead" \/ ~readable
       \/ Standing(Canonical(p), request[p].raw) # NoRow /\ ~request[p].replaces
    /\ Enters(p, "refused")
    /\ UNCHANGED <<oracleVars, request, standing, base, tally, again, reach, reviewVars, asks>>

ProbeStep(p) ==
    \/ Prepares(p) \/ IsUnfit(p) \/ LooksFirst(p) \/ LooksAgain(p) \/ RetriesBaseline(p)
    \/ BaselineFails(p) \/ BaselineStands(p) \/ RunsMutant(p) \/ RetriesRun(p) \/ RunFails(p)
    \/ RunCounts(p) \/ Concludes(p) \/ Tells(p) \/ Builds(p) \/ Attests(p) \/ AttestFails(p)

------------------------------------------------------------------------------
(* What others do to the record.                                            *)

Acts == "record" \in cast /\ acts < MaxActs /\ acts' = acts + 1

\* Another probe, perhaps of another checkout, attests.
RivalAttests ==
    /\ Acts
    /\ \E k \in Toolchains, raw \in Raws, replaces \in BOOLEAN :
           Writes(Row(Canon[k][raw], raw, "rival"), replaces)
    /\ UNCHANGED <<oracleVars, taskVars, readable, held, asks>>

\* The record is left torn by hand, or repaired.
RecordBreaks ==
    /\ Acts
    /\ readable' = ~readable
    /\ UNCHANGED <<oracleVars, taskVars, record, held, asks>>

\* A lifecycle verb reads the record without its lock and decides every row:
\* a prune drops the detached, a retarget rewrites the renamed.
VerbReads ==
    /\ Acts /\ readable /\ held.verb = None
    /\ \E rows \in (SUBSET record) \ {{}} :
           held' \in {[verb |-> "prune", dropped |-> rows, rows |-> record \ rows],
                      [verb |-> "retarget", dropped |-> rows,
                       rows |-> (record \ rows) \cup {[row EXCEPT !.on = "there"] : row \in rows}]}
    /\ UNCHANGED <<oracleVars, taskVars, record, readable, asks>>

\* It writes what it decided, under the lock.
VerbWrites ==
    /\ held.verb # None
    /\ record' = held.rows /\ readable' = TRUE
    /\ held' = [verb |-> None]
    /\ UNCHANGED <<oracleVars, taskVars, acts, asks>>

------------------------------------------------------------------------------
WorkerAsks(s) ==
    /\ s \in cast \ Probes /\ asks[s] < MaxAsks
    /\ IF "schema" \in cast THEN AsksMutant(s) ELSE Asks(s)
    /\ asks' = [asks EXCEPT ![s] = @ + 1]
    /\ UNCHANGED <<taskVars, reviewVars>>

WorkerTakes(s) == s \notin Probes /\ Takes(s) /\ UNCHANGED <<taskVars, reviewVars, asks>>

\* The engine's own steps.
SeatWorks(s) == Works(s) /\ UNCHANGED <<taskVars, reviewVars, asks>>
SeatExpires(s) ==
    /\ "world" \in cast \/ place[s] \in {"running", "probing"}
    /\ BoundFires(s)
    /\ UNCHANGED <<taskVars, reviewVars, asks>>
SeatReaped(s) == bound[s] # "live" /\ (Exits(s) \/ ProbeExits(s)) /\ UNCHANGED <<taskVars, reviewVars, asks>>

IsCut(s) ==
    /\ s \in cast /\ "record" \notin cast
    /\ CallerDies(s)
    /\ UNCHANGED <<taskVars, reviewVars, asks>>

EphemeralNext ==
    /\ \/ \E p \in Probes : Requests(p) \/ ProbeStep(p)
       \/ \E s \in Seats : SeatWorks(s) \/ SeatExpires(s) \/ IsCut(s) \/ WorkerAsks(s) \/ WorkerTakes(s)
       \/ RivalAttests \/ RecordBreaks \/ VerbReads \/ VerbWrites
    /\ UNCHANGED cast

\* The process, the compiler's and the reaper's included, goes on; timers
\* expire.  A test that hangs is not assumed to end.
EphemeralFairness ==
    /\ \A s \in Seats :
           /\ WF_ephemeralVars(place[s] # "running" /\ place[s] # "probing" /\ SeatWorks(s) /\ UNCHANGED cast)
           /\ WF_ephemeralVars(SeatReaped(s) /\ UNCHANGED cast)
           /\ WF_ephemeralVars(SeatExpires(s) /\ UNCHANGED cast)
    /\ \A p \in Probes : WF_ephemeralVars(ProbeStep(p) /\ UNCHANGED cast)

EphemeralSpec == EphemeralInit /\ [][EphemeralNext]_ephemeralVars /\ EphemeralFairness

------------------------------------------------------------------------------
\* A key is compiled for good at most once, and an entry its compiling
\* caller's cancellation cut short does not outlive the calls that met it:
\* whoever asks later compiles again (getOrCompile's deletion of the failed
\* entry, if it is still the key's).
SchemaCompiledOnce ==
    /\ Cardinality({e \in 1 .. MaxEntries : entries[e] = "built"}) <= 1
    /\ (\A s \in Seats : place[s] \notin {"waiting", "compiling", "served"}) /\ slot # 0
           => entries[slot] # "cut"

\* A mutant's verdict is of the process that was scored: a timeout only of
\* one that the site's own bound ended, a survival only of one that exited
\* clean by itself, a package kill only over a clean differential baseline
\* (runMutantBase's classification, runSchemaBinary's twin).
VerdictsAreEarned ==
    \A s \in Seats : place[s] = "returned" /\ asked[s] = "mutant" =>
        /\ answer[s].by = "timeout" => ended[s] = "killed"
        /\ answer[s].is = "survived" => ended[s] = "clean"
        /\ answer[s].by \in Tests => ended[s] = answer[s].by
        /\ answer[s].by = "package" => ended[s] = "clean"

\* The record never names one mutant twice by the same key, whatever
\* toolchains, versions and verbs wrote it, so which row a face shows never
\* depends on the order of the rows (standingAttestation,
\* RecordEphemeralAttestation).
StandingIsOne ==
    \A row, other \in record :
        row # other => row.raw # other.raw /\ (row.canon = other.canon => row.canon = NoDigest)

\* An attestation that does not ask for the replacement takes no row away,
\* though another was recorded after this probe looked
\* (RecordEphemeralAttestation's second look, under the lock).
NoSilentReplace ==
    [][\A p \in Probes : Attests(p) /\ ~request[p].replaces => record \subseteq record']_ephemeralVars

\* Every call returns and every probe ends, a hung test or a cancelled
\* compile notwithstanding (the oracle bound, the waits of getOrCompile).
ProbesEnd ==
    /\ \A s \in Seats : place[s] \notin {"idle", "returned"} ~> place[s] = "returned"
    /\ \A p \in Probes : phase[p] # "out" ~> phase[p] \in Over

\* A prune or a retarget takes away no row but those it decided on
\* (REQ-result-ephemeral-attest: no row lost to a concurrent attest).
LifecycleKeepsRows ==
    [][VerbWrites => record \ record' \subseteq held.dropped]_ephemeralVars
==============================================================================
