------------------------------- MODULE Derive -------------------------------
(***************************************************************************)
(* A package's derived oracle (internal/engine/buildset.go): the tests of   *)
(* every package whose test binary links it, the enumeration checked        *)
(* against the disk and the linked sets asked of the go command.  Campaigns *)
(* that share a loaded tree share three memos, none of whose locks is held  *)
(* over the work; a caller may be cancelled anywhere.                       *)
(***************************************************************************)
EXTENDS Naturals, FiniteSets

CONSTANTS
    Callers,
    NPackages,   \* packages, walked in order
    Bearing,     \* those with tests
    Links,       \* what a test binary links, by its package
    Unbuilt,     \* packages whose closure does not build
    MaxMishaps   \* bound on the go command's failures and on edits

Packages == 1 .. NPackages

ASSUME DeriveAssumption ==
    /\ NPackages \in Nat /\ Bearing \subseteq Packages /\ Unbuilt \subseteq Packages
    /\ Links \in [Packages -> SUBSET Packages] /\ MaxMishaps \in Nat

VARIABLES
    caller,    \* where a caller is, and what it has so far
    live,      \* callers whose context is not cancelled
    verified,  \* verifiedTests: by package, "unseen" or what its check said
    linked,    \* linked: by package, what its binary links, or a mark
    derived,   \* derivedOracles: by package
    lags,      \* packages whose test files are not the loaded ones
    sound,     \* packages some check found sound
    mishaps

memos == <<verified, linked, derived>>
deriveVars == <<caller, live, memos, lags, sound, mishaps>>

Unknown == {0}    \* no linked set yet
StoodDown == {}   \* the closure does not resolve: a binary links itself at least

NoOracle == [is |-> "none"]
Error(why) == [is |-> why]
Cancelled == Error("cancelled")

Out == [at |-> "out"]

DeriveInit ==
    /\ caller = [c \in Callers |-> Out] /\ live = Callers
    /\ verified = [p \in Packages |-> "unseen"] /\ linked = [p \in Packages |-> Unknown]
    /\ derived = [p \in Packages |-> NoOracle]
    /\ lags = {} /\ sound = {} /\ mishaps = 0

Told(c, with) == caller' = [caller EXCEPT ![c] = [at |-> "answered", of |-> caller[c].of, with |-> with]]

Goes(c, there) == caller' = [caller EXCEPT ![c].at = there]

------------------------------------------------------------------------------
(* Entry.                                                                   *)

AsksOracle(c) ==
    /\ caller[c] = Out
    /\ \E p \in Packages :
           caller' = [caller EXCEPT ![c] =
               IF derived[p] = NoOracle
               THEN [at |-> "verifying", of |-> p, next |-> 1, down |-> {}, sets |-> [q \in {} |-> {}]]
               ELSE [at |-> "answered", of |-> p, with |-> IF c \in live THEN derived[p] ELSE Cancelled]]
    /\ UNCHANGED <<live, memos, lags, sound, mishaps>>

------------------------------------------------------------------------------
(* Every package's enumeration, against the disk.                           *)

Verifying(c) == caller[c].at = "verifying" /\ caller[c].next \in Packages

Cut(c) ==
    /\ caller[c].at \in {"verifying", "linking"} /\ c \notin live
    /\ Told(c, Cancelled)
    /\ UNCHANGED <<live, memos, lags, sound, mishaps>>

VerifyRemembers(c) ==
    /\ Verifying(c) /\ c \in live /\ verified[caller[c].next] # "unseen"
    /\ IF verified[caller[c].next] = "sound" THEN caller' = [caller EXCEPT ![c].next = @ + 1]
       ELSE Told(c, Error(verified[caller[c].next]))
    /\ UNCHANGED <<live, memos, lags, sound, mishaps>>

\* The loaded tests against the test files that are there now and that the
\* build selects.  The go command may not say how the build is configured.
VerifyLooks(c) ==
    /\ Verifying(c) /\ c \in live /\ verified[caller[c].next] = "unseen"
    /\ \/ caller' = [caller EXCEPT ![c].at =
              IF caller[c].next \in lags THEN "lagging" ELSE "sound"] /\ UNCHANGED mishaps
       \/ mishaps < MaxMishaps /\ mishaps' = mishaps + 1 /\ Goes(c, "fault")
    /\ sound' = IF caller'[c].at = "sound" THEN sound \cup {caller[c].next} ELSE sound
    /\ UNCHANGED <<live, memos, lags>>

Looked == {"sound", "lagging", "fault"}

\* Mutant of VerifyKeeps: what a cancelled check came to is kept.
VerifyKeepsCancelled(c) ==
    /\ caller[c].at \in Looked
    /\ verified' = [verified EXCEPT ![caller[c].next] = IF c \in live THEN caller[c].at ELSE "cancelled"]
    /\ IF caller[c].at = "sound" /\ c \in live
       THEN caller' = [caller EXCEPT ![c].at = "verifying", ![c].next = @ + 1]
       ELSE Told(c, IF c \in live THEN Error(caller[c].at) ELSE Cancelled)
    /\ UNCHANGED <<live, linked, derived, lags, sound, mishaps>>

\* A failure is kept as a success is; a cancellation never.
VerifyKeeps(c) ==
    /\ caller[c].at \in Looked
    /\ verified' = IF c \in live THEN [verified EXCEPT ![caller[c].next] = caller[c].at] ELSE verified
    /\ IF caller[c].at = "sound" /\ c \in live
       THEN caller' = [caller EXCEPT ![c].at = "verifying", ![c].next = @ + 1]
       ELSE Told(c, IF c \in live THEN Error(caller[c].at) ELSE Cancelled)
    /\ UNCHANGED <<live, linked, derived, lags, sound, mishaps>>

------------------------------------------------------------------------------
(* What the test binaries link: one question for all the unknown, then one  *)
(* by one for what that left.                                               *)

Missing == {p \in Bearing : linked[p] = Unknown}

\* The packages with tests, one after the other.
After(p) == CHOOSE q \in (Bearing \cup {NPackages + 1}) :
                /\ q > p /\ \A r \in Bearing : r > p => q <= r

\* Fewer than two unknown need no batch.
WarmSkips(c) ==
    /\ caller[c].at = "verifying" /\ caller[c].next \notin Packages
    /\ Cardinality(Missing) <= 1
    /\ caller' = [caller EXCEPT ![c].at = "linking", ![c].next = After(0)]
    /\ UNCHANGED <<live, memos, lags, sound, mishaps>>

WarmAsks(c) ==
    /\ caller[c].at = "verifying" /\ caller[c].next \notin Packages
    /\ Cardinality(Missing) > 1
    /\ caller' = [caller EXCEPT ![c] = [at |-> "warming", of |-> @.of, next |-> After(0), down |-> {},
                                        sets |-> @.sets, missing |-> Missing]]
    /\ UNCHANGED <<live, memos, lags, sound, mishaps>>

WarmFails(c) ==
    /\ caller[c].at = "warming"
    /\ \/ c \notin live /\ Told(c, Cancelled) /\ UNCHANGED mishaps
       \/ /\ c \in live /\ mishaps < MaxMishaps /\ mishaps' = mishaps + 1
          /\ Told(c, Error("fault"))
    /\ UNCHANGED <<live, memos, lags, sound>>

\* A batch that one broken closure failed leaves the memo alone.
WarmEnds(c) ==
    /\ caller[c].at = "warming"
    /\ linked' = IF caller[c].missing \cap Unbuilt # {} THEN linked
                 ELSE [p \in Packages |-> IF p \in caller[c].missing THEN Links[p] ELSE linked[p]]
    /\ caller' = [caller EXCEPT ![c] = [at |-> "linking", of |-> @.of, next |-> @.next, down |-> @.down,
                                        sets |-> @.sets]]
    /\ UNCHANGED <<live, verified, derived, lags, sound, mishaps>>

Linking(c) == caller[c].at = "linking" /\ caller[c].next \in Packages /\ c \in live

\* The caller's own note of a package's set.
Keeps(c, p, set) ==
    IF set = StoodDown THEN [caller[c] EXCEPT !.at = "linking", !.next = After(p), !.down = @ \cup {p}]
    ELSE [caller[c] EXCEPT !.at = "linking", !.next = After(p),
                           !.sets = [q \in DOMAIN @ \cup {p} |-> IF q = p THEN set ELSE @[q]]]

LinkRemembers(c) ==
    LET p == caller[c].next
    IN /\ Linking(c) /\ linked[p] # Unknown
       /\ caller' = [caller EXCEPT ![c] = Keeps(c, p, linked[p])]
       /\ UNCHANGED <<live, memos, lags, sound, mishaps>>

LinkAsks(c) ==
    /\ Linking(c) /\ linked[caller[c].next] = Unknown
    /\ Goes(c, "listing")
    /\ UNCHANGED <<live, memos, lags, sound, mishaps>>

\* The go command answers, or says no, which is kept; a broken closure
\* always does, a sound one by mishap.
LinkAnswers(c) ==
    LET p == caller[c].next
    IN /\ caller[c].at = "listing"
       /\ \E set \in {Links[p], StoodDown} :
              /\ p \in Unbuilt => set = StoodDown
              /\ set = StoodDown => c \in live
              /\ IF set = StoodDown /\ p \notin Unbuilt
                 THEN mishaps < MaxMishaps /\ mishaps' = mishaps + 1 ELSE UNCHANGED mishaps
              /\ linked' = [linked EXCEPT ![p] = set]
              /\ caller' = [caller EXCEPT ![c] = Keeps(c, p, set)]
       /\ UNCHANGED <<live, verified, derived, lags, sound>>

\* A command that did not start, or whose answer was cut, says nothing.
LinkFails(c) ==
    /\ caller[c].at = "listing"
    /\ \/ c \notin live /\ Told(c, Cancelled) /\ UNCHANGED mishaps
       \/ /\ c \in live /\ mishaps < MaxMishaps /\ mishaps' = mishaps + 1
          /\ Told(c, Error("fault"))
    /\ UNCHANGED <<live, memos, lags, sound>>

------------------------------------------------------------------------------
(* The oracle, of every package at once.                                    *)

Oracle(c, target) ==
    [is |-> "oracle", of |-> {p \in DOMAIN caller[c].sets : target \in caller[c].sets[p]},
     down |-> caller[c].down]

Stores(c) ==
    /\ caller[c].at = "linking" /\ caller[c].next \notin Packages /\ c \in live
    /\ derived' = [p \in Packages |-> Oracle(c, p)]
    /\ Told(c, Oracle(c, caller[c].of))
    /\ UNCHANGED <<live, verified, linked, lags, sound, mishaps>>

------------------------------------------------------------------------------
(* The world.                                                               *)

CallerCut(c) ==
    /\ c \in live /\ caller[c] # Out
    /\ live' = live \ {c}
    /\ UNCHANGED <<caller, memos, lags, sound, mishaps>>

\* A test file is written, or put back.
Edits ==
    /\ mishaps < MaxMishaps /\ mishaps' = mishaps + 1
    /\ \E p \in Packages : lags' = IF p \in lags THEN lags \ {p} ELSE lags \cup {p}
    /\ UNCHANGED <<caller, live, memos, sound>>

DeriveStep(c) ==
    \/ Cut(c) \/ VerifyRemembers(c) \/ VerifyLooks(c) \/ VerifyKeeps(c)
    \/ WarmSkips(c) \/ WarmAsks(c) \/ WarmFails(c) \/ WarmEnds(c)
    \/ LinkRemembers(c) \/ LinkAsks(c) \/ LinkAnswers(c) \/ LinkFails(c) \/ Stores(c)

DeriveNext == (\E c \in Callers : AsksOracle(c) \/ DeriveStep(c) \/ CallerCut(c)) \/ Edits

------------------------------------------------------------------------------
\* What a caller is answered is its own: an oracle of every package whose
\* binary links the target, the ones that could not be asked named beside it
\* and every package's enumeration once found sound; and no caller is told of
\* a cancellation that was another's (DerivedOracleContext's three memos).
DerivedIsWhole ==
    \A c \in Callers : caller[c].at = "answered" =>
        LET with == caller[c].with
        IN /\ with.is = "oracle" =>
                  /\ with.of \subseteq {p \in Bearing : caller[c].of \in Links[p]}
                  /\ {p \in Bearing : caller[c].of \in Links[p]} \subseteq with.of \cup with.down
                  /\ sound = Packages
           /\ with = Cancelled => c \notin live
==============================================================================
