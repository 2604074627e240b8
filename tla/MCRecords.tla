------------------------------ MODULE MCRecords ------------------------------
(***************************************************************************)
(* Records on small instances.  Serving: two candidates, of which the      *)
(* first needs the longer timeout and the second the larger ceiling; each  *)
(* setup is a short script of campaigns with the edits and commits it      *)
(* meets.  Document: between them the documents share and split manifests, *)
(* evidence rows and ledgers, and hold a budgeted, a shaped, an annotated  *)
(* and a withdrawn record, and one symbol under two selections.            *)
(* Inspection: two targets of two packages (1, 2), tests of either and of  *)
(* another module (3, 4, 5), and records that share them under both        *)
(* postures.                                                               *)
(***************************************************************************)
EXTENDS Records, TLC

\* Mutants, reasons and sites are interchangeable in Ledger, and in nothing else
\* here: of the documents that differ in their names alone, one is the start.
Renamings == [m : Permutations(Mutants), r : Permutations(Reasons), s : Permutations(Sites)]

Alike(d, p) ==
    LET Site(s) == IF s \in Sites THEN p.s[s] ELSE s
        Same(a) == IF a = NoAtt THEN a ELSE [reason |-> p.r[a.reason], site |-> Site(a.site)]
    IN [surv |-> [m \in Mutants |-> Site(d.surv[p.m[m]])],
        att  |-> [m \in Mutants |-> Same(d.att[p.m[m]])],
        wd   |-> [m \in Mutants |-> Site(d.wd[p.m[m]])]]

Representative(d) ==
    LET likes == {Alike(d, p) : p \in Renamings}
    IN d = CHOOSE e \in likes : TRUE

MCInit == RecordsInit /\ Representative(doc)
MCSpec == MCInit /\ [][RecordsNext]_recordsVars

MCMemory   == <<1, 2>>
MCDuration == <<2, 1>>

Ask(budget, ceiling, timeout) ==
    [force |-> FALSE, budget |-> budget, ceiling |-> ceiling, timeout |-> timeout]
Forced(r) == [r EXCEPT !.force = TRUE]

Plain(asks, n)     == [shaped |-> FALSE, banked |-> FALSE, git |-> FALSE,
                       asks |-> asks, edits |-> n, commits |-> 0]
Shaped(asks, n)    == [Plain(asks, n) EXCEPT !.shaped = TRUE]
Banked(asks, n)    == [Plain(asks, n) EXCEPT !.banked = TRUE]
InGit(asks, n, m)  == [Plain(asks, n) EXCEPT !.git = TRUE, !.commits = m]

MCSetups ==
    {Plain(<<Ask(2, 2, 2), Ask(2, 2, 2)>>, 1),                  \* flagged candidates again
     Plain(<<Ask(1, 2, 2), Ask(2, 2, 2)>>, 1),                  \* a wider budget
     Plain(<<Ask(1, 1, 0), Ask(2, 2, 0), Ask(2, 1, 0)>>, 0),    \* a ceiling raised and lowered
     Plain(<<Ask(2, 1, 0), Ask(2, 2, 0)>>, 0),
     Plain(<<Ask(2, 2, 1), Ask(2, 2, 0)>>, 0),                  \* timeouts given and derived
     Shaped(<<Ask(2, 2, 0), Ask(2, 2, 0)>>, 1),
     Banked(<<Ask(1, 2, 2), Ask(2, 2, 2)>>, 1),
     Banked(<<Ask(1, 2, 2), Forced(Ask(1, 2, 2))>>, 0),
     InGit(<<Ask(1, 2, 2), Ask(1, 2, 2)>>, 1, 1)}

------------------------------------------------------------------------------
On(n, op) == [at |-> n, op |-> op]
Four == On(1, "a") :> "killed" @@ On(2, "a") :> "killed"
        @@ On(1, "b") :> "survived" @@ On(2, "b") :> "discarded"
Two  == On(1, "a") :> "survived" @@ On(1, "b") :> "killed"

Proved(of, manifest) == Evidence(of, {manifest}, "proved")

About(symbol, selection, inputs, tests, ledger) ==
    [symbol |-> symbol, selection |-> selection, ledger |-> ledger,
     target  |-> Proved(symbol, inputs),
     oracles |-> [i \in DOMAIN tests |-> Proved(tests[i], inputs)],
     explicit |-> FALSE, dirty |-> FALSE]

Wide   == Measured(About("f", "", "m1", <<"t", "u">>, {"l1"}), 0, 0, Four)
Capped == Measured([About("g", "", "m2", <<"t">>, {"l2"}) EXCEPT !.explicit = TRUE], 2, 1, Two)
Roomy  == Measured([About("g", "", "m1", <<"t">>, {"l1"}) EXCEPT !.dirty = TRUE], 5, 0, Two)
Recipe == Measured([About("h", "", "m1", <<"t">>, {}) EXCEPT !.target = Zero], 0, 0, Two)
Noted  == [Measured(About("f", "s", "m1", <<"t">>, {"l1"}), 0, 0, Two) EXCEPT
              !.noted = {[point |-> On(1, "a"), by |-> ""]},
              !.attested = {On(1, "a")}]
Retracted == [Roomy EXCEPT
                 !.withdrawn = {On(1, "a")},
                 !.flagged = {[point |-> On(1, "b"), says |-> "killed"]}]

Doc(findings, unreached) == [findings |-> findings, bounds |-> unreached]

MCDocuments ==
    {Doc(<<>>, {}), Doc(<<>>, {"s"}), Doc(<<Wide, Capped>>, {}), Doc(<<Roomy, Recipe>>, {"s"}),
     Doc(<<Wide, Noted>>, {"s"}), Doc(<<Wide, Retracted>>, {})}
------------------------------------------------------------------------------
Built == [module |-> <<"m", "m", "m", "m", "n">>, pkg |-> <<"p", "q", "p", "q", "r">>,
          declared |-> {1, 2}, tests |-> {3, 4, 5}, broken |-> {4}, bare |-> {}, down |-> {},
          derived |-> <<{3, 4}, {4, 5}, {}, {}, {}>>]

MCTrees ==
    {Built,
     [Built EXCEPT !.broken = {2}, !.bare = {5}, !.declared = {2}, !.tests = {3, 4}],
     [Built EXCEPT !.broken = {3}, !.down = {"n"}]}

Filed(target, oracle) ==
    [shaped |-> FALSE, target |-> target, oracle |-> oracle, explicit |-> TRUE, ours |-> TRUE,
     operators |-> TRUE, timed |-> TRUE, policy |-> TRUE, holds |-> TRUE, ledger |-> FALSE,
     edited |-> {}, fault |-> FALSE, flagged |-> FALSE, rows |-> [s \in 1 .. 5 |-> "current"]]

MCPool ==
    {Filed(1, {3}), Filed(2, {3}),
     [Filed(1, {3, 4}) EXCEPT !.rows[3] = "stale"],
     [Filed(2, {4}) EXCEPT !.flagged = TRUE],
     [Filed(2, {4, 5}) EXCEPT !.explicit = FALSE, !.fault = TRUE],
     [Filed(1, {3, 5}) EXCEPT !.explicit = FALSE, !.ledger = TRUE, !.edited = {3}],
     [Filed(1, {5}) EXCEPT !.rows[1] = "unverifiable", !.timed = FALSE],
     [Filed(2, {4, 5}) EXCEPT !.shaped = TRUE],
     [Filed(2, {3}) EXCEPT !.shaped = TRUE, !.holds = FALSE],
     [Filed(2, {4}) EXCEPT !.operators = FALSE],
     [Filed(1, {3}) EXCEPT !.ours = FALSE, !.policy = FALSE]}
==============================================================================
