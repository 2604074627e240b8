----------------------------- MODULE EngineProofs -----------------------------
(***************************************************************************)
(* Proofs about the engine's services over one loaded tree: the derived    *)
(* oracle, the reviewed record, the verdicts, the shared binary; for every *)
(* number of callers, packages, workers, probes and runs.                  *)
(***************************************************************************)
EXTENDS Engine, FiniteSetTheorems, WellFoundedInduction, TLAPS

LEMMA Least ==
    ASSUME NEW S \in SUBSET Nat, S # {}
    PROVE  \E n \in S : \A m \in S : n <= m
<1> DEFINE R == {ss \in Nat \X Nat : ss[1] < ss[2]}
<1>1. IsWellFoundedOn(R, Nat)
  BY NatLessThanWellFounded, Zenon DEF OpToRel
<1>2. \A m, n \in Nat : m < n => <<m, n>> \in R
  OBVIOUS
<1> HIDE DEF R
<1>3. PICK n \in S : \A m \in S : ~(<<m, n>> \in R)
  BY <1>1, WFMin
<1>4. \A m \in S : ~(m < n)
  BY <1>2, <1>3
<1>5. \A m \in S : n <= m
  BY <1>4
<1> QED BY <1>5

------------------------------------------------------------------------------
(* The derived oracle.                                                     *)

Marks == {"unseen"} \cup Looked
Maps  == UNION {[D -> SUBSET Packages] : D \in SUBSET Bearing}
Task  == [at : {"verifying", "linking", "listing"} \cup Looked, of : Packages,
          next : 1 .. NPackages + 1, down : SUBSET Packages, sets : Maps]

Linkers(target) == {p \in Bearing : target \in Links[p]}

WholeFor(with, target) == with.of \subseteq Linkers(target) /\ Linkers(target) \subseteq with.of \cup with.down

\* A memo holds only what was found, whoever found it.
MemosSound ==
    /\ sound \subseteq Packages
    /\ verified \in [Packages -> Marks]
    /\ \A p \in Packages : verified[p] = "sound" => p \in sound
    /\ linked = [p \in Packages |-> linked[p]]
    /\ \A p \in Packages : linked[p] \in {Unknown, StoodDown, Links[p]}
    /\ derived = [p \in Packages |-> derived[p]]
    /\ \A p \in Packages : derived[p] # NoOracle =>
           derived[p].is = "oracle" /\ WholeFor(derived[p], p) /\ sound = Packages

\* How far the walk of the enumerations is.
Verified(e) ==
    e.at \in {"verifying"} \cup Looked =>
        /\ e \in Task /\ DOMAIN e.sets = {}
        /\ \A p \in Packages : p < e.next => p \in sound
        /\ e.at \in Looked => e.next \in Packages
        /\ e.at = "sound" => e.next \in sound

\* How far the walk of the linked sets is.
Linked(e) ==
    e.at \in {"linking", "listing"} =>
        /\ e \in Task /\ e.next \in Bearing \cup {NPackages + 1} /\ sound = Packages
        /\ e.at = "listing" => e.next \in Packages
        /\ \A p \in DOMAIN e.sets : e.sets[p] = Links[p]
        /\ \A p \in Bearing : p < e.next => p \in DOMAIN e.sets \cup e.down

Warming(e) ==
    e.at = "warming" =>
        /\ e \in [at : {"warming"}, of : Packages, next : Bearing \cup {NPackages + 1},
                  down : {{}}, sets : Maps, missing : SUBSET Bearing]
        /\ DOMAIN e.sets = {} /\ e.next = After(0) /\ sound = Packages

Answered(c, e) ==
    e.at = "answered" =>
        /\ e.with.is = "oracle" => WholeFor(e.with, e.of) /\ sound = Packages
        /\ e.with = Cancelled => c \notin live

CallerSound(c, e) == Verified(e) /\ Linked(e) /\ Warming(e) /\ Answered(c, e)

DeriveInv ==
    /\ MemosSound
    /\ caller = [c \in Callers |-> caller[c]]
    /\ \A c \in Callers : CallerSound(c, caller[c])

LEMMA PackagesAre == NPackages \in Nat /\ Bearing \subseteq Packages /\ Packages = 1 .. NPackages
BY DeriveAssumption DEF Packages

\* The next package with tests, or the walk's end.
LEMMA AfterIs ==
    ASSUME NEW p \in 0 .. NPackages
    PROVE  /\ After(p) \in Bearing \cup {NPackages + 1}
           /\ After(p) \in 1 .. NPackages + 1
           /\ After(p) > p
           /\ \A r \in Bearing : r > p => After(p) <= r
<1> DEFINE S == {q \in Bearing \cup {NPackages + 1} : q > p}
<1>1. NPackages \in Nat /\ \A q \in Bearing : q \in 1 .. NPackages
  BY PackagesAre
<1>2. S \in SUBSET Nat /\ NPackages + 1 \in S
  <2>1. \A q \in Bearing \cup {NPackages + 1} : q \in 1 .. NPackages + 1
    BY <1>1
  <2>2. NPackages + 1 > p /\ NPackages + 1 \in Bearing \cup {NPackages + 1}
    BY <1>1
  <2>3. \A q \in 1 .. NPackages + 1 : q \in Nat
    BY <1>1
  <2> QED BY <2>1, <2>2, <2>3
<1>3. PICK n \in S : \A m \in S : n <= m
  BY <1>2, Least
<1>4. n \in Bearing \cup {NPackages + 1} /\ n > p /\ \A r \in Bearing : r > p => n <= r
  BY <1>3
<1>5. /\ After(p) \in Bearing \cup {NPackages + 1}
      /\ After(p) > p /\ \A r \in Bearing : r > p => After(p) <= r
  BY <1>4 DEF After
<1> HIDE DEF S
<1>6. After(p) \in 1 .. NPackages + 1
  BY <1>1, <1>5
<1> QED BY <1>5, <1>6

\* A caller's progress outlasts whatever is found meanwhile and whoever is cut.
LEMMA CallerStays ==
    ASSUME NEW c, NEW e, CallerSound(c, e), sound \subseteq sound', sound' \subseteq Packages, live' \subseteq live
    PROVE  CallerSound(c, e)'
<1>1. Verified(e)'
  BY DEF CallerSound, Verified, Task, Maps, Packages
<1>2. Linked(e)'
  BY DEF CallerSound, Linked
<1>3. Warming(e)'
  BY DEF CallerSound, Warming
<1>4. Answered(c, e)'
  BY DEF CallerSound, Answered, WholeFor
<1> QED BY <1>1, <1>2, <1>3, <1>4 DEF CallerSound

\* Of one caller's step only what it becomes and what it leaves in the memos
\* is left to prove.
LEMMA OneCaller ==
    ASSUME DeriveInv, NEW c \in Callers, NEW e, caller' = [caller EXCEPT ![c] = e],
           sound \subseteq sound', sound' \subseteq Packages, live' = live,
           MemosSound', CallerSound(c, e)'
    PROVE  DeriveInv'
<1>1. caller' = [d \in Callers |-> caller'[d]]
  BY DEF DeriveInv
<1>2. ASSUME NEW d \in Callers
      PROVE  CallerSound(d, caller[d])'
  <2>1. CASE d = c
    <3>1. caller'[d] = e
      BY <2>1 DEF DeriveInv
    <3> QED BY <2>1, <3>1
  <2>2. CASE d # c
    <3>1. PICK x : x = caller[d]
      OBVIOUS
    <3>2. caller'[d] = x
      BY <2>2, <3>1 DEF DeriveInv
    <3>3. CallerSound(d, x)
      BY <3>1 DEF DeriveInv
    <3>4. CallerSound(d, x)'
      BY <3>3, CallerStays
    <3> QED BY <3>2, <3>4
  <2> QED BY <2>1, <2>2
<1> QED BY <1>1, <1>2 DEF DeriveInv

LEMMA MemosRest ==
    ASSUME MemosSound, UNCHANGED <<memos, sound>>
    PROVE  MemosSound'
BY DEF MemosSound, memos

LEMMA DeriveInitSound == DeriveInit => DeriveInv
BY DEF DeriveInit, DeriveInv, MemosSound, CallerSound, Verified, Linked, Warming, Answered, Out,
       Marks, Looked, Unknown

\* An answer that is the caller's own, and no oracle.
LEMMA ErrorAnswers ==
    ASSUME NEW c, NEW e, e.at = "answered", e.with \in {Error("fault"), Error("lagging")}
    PROVE  CallerSound(c, e)
BY DEF CallerSound, Verified, Linked, Warming, Answered, Looked, Error, Cancelled

LEMMA CutAnswers ==
    ASSUME NEW c, NEW e, e.at = "answered", e.with = Cancelled, c \notin live
    PROVE  CallerSound(c, e)
BY DEF CallerSound, Verified, Linked, Warming, Answered, Looked, Error, Cancelled

LEMMA WholeAnswers ==
    ASSUME NEW c, NEW e, e.at = "answered", e.with.is = "oracle", WholeFor(e.with, e.of),
           sound = Packages
    PROVE  CallerSound(c, e)
BY DEF CallerSound, Verified, Linked, Warming, Answered, Looked, Error, Cancelled

LEMMA AsksOracleKeeps == ASSUME DeriveInv, NEW c \in Callers, AsksOracle(c) PROVE DeriveInv'
<1>1. PICK p \in Packages : caller' = [caller EXCEPT ![c] =
               IF derived[p] = NoOracle
               THEN [at |-> "verifying", of |-> p, next |-> 1, down |-> {}, sets |-> [q \in {} |-> {}]]
               ELSE [at |-> "answered", of |-> p, with |-> IF c \in live THEN derived[p] ELSE Cancelled]]
  BY DEF AsksOracle
<1>2. UNCHANGED <<live, memos, lags, sound>> /\ MemosSound /\ sound \subseteq Packages
  BY DEF AsksOracle, DeriveInv, MemosSound
<1>3. CASE derived[p] = NoOracle
  <2>1. PICK e : e = [at |-> "verifying", of |-> p, next |-> 1, down |-> {}, sets |-> [q \in {} |-> {}]]
    OBVIOUS
  <2>2. e.sets \in [{} -> SUBSET Packages] /\ DOMAIN e.sets = {}
    BY <2>1
  <2>3. e.sets \in Maps
    BY <2>2 DEF Maps
  <2>4. e \in Task
    BY <2>1, <2>3, PackagesAre DEF Task
  <2>5. CallerSound(c, e)
    <3>1. \A q \in Packages : ~(q < 1)
      BY PackagesAre
    <3> QED BY <2>1, <2>2, <2>4, <3>1 DEF CallerSound, Verified, Linked, Warming, Answered, Looked
  <2>6. CallerSound(c, e)' /\ MemosSound'
    BY <1>2, <2>5, CallerStays, MemosRest
  <2> QED BY <1>1, <1>2, <1>3, <2>1, <2>6, OneCaller
<1>4. CASE derived[p] # NoOracle
  <2>1. PICK e : e = [at |-> "answered", of |-> p, with |-> IF c \in live THEN derived[p] ELSE Cancelled]
    OBVIOUS
  <2>2. CallerSound(c, e)
    <3>1. CASE c \in live
      BY <1>2, <1>4, <2>1, <3>1, WholeAnswers DEF MemosSound
    <3>2. CASE c \notin live
      BY <2>1, <3>2, CutAnswers
    <3> QED BY <3>1, <3>2
  <2>3. CallerSound(c, e)' /\ MemosSound'
    BY <1>2, <2>2, CallerStays, MemosRest
  <2> QED BY <1>1, <1>2, <1>4, <2>1, <2>3, OneCaller
<1> QED BY <1>3, <1>4

\* A caller leaves with a cancellation of its own, or a mishap.
LEMMA ToldKeeps ==
    ASSUME DeriveInv, NEW c \in Callers, NEW with, Told(c, with),
           UNCHANGED <<live, memos, sound>>,
           (with = Cancelled /\ c \notin live) \/ with \in {Error("fault"), Error("lagging")}
    PROVE  DeriveInv'
<1>1. PICK e : e = [at |-> "answered", of |-> caller[c].of, with |-> with]
  OBVIOUS
<1>2. caller' = [caller EXCEPT ![c] = e]
  BY <1>1 DEF Told
<1>3. CallerSound(c, e)
  BY <1>1, ErrorAnswers, CutAnswers
<1>4. MemosSound /\ sound \subseteq Packages
  BY DEF DeriveInv, MemosSound
<1>5. CallerSound(c, e)' /\ MemosSound'
  BY <1>3, <1>4, CallerStays, MemosRest
<1> QED BY <1>2, <1>4, <1>5, OneCaller

LEMMA VerifyRemembersKeeps == ASSUME DeriveInv, NEW c \in Callers, VerifyRemembers(c) PROVE DeriveInv'
<1>1. /\ Verified(caller[c]) /\ caller[c].at = "verifying" /\ caller[c].next \in Packages
      /\ UNCHANGED <<live, memos, sound>> /\ MemosSound /\ sound \subseteq Packages
  BY DEF DeriveInv, CallerSound, VerifyRemembers, Verifying, MemosSound
<1>2. CASE verified[caller[c].next] = "sound"
  <2>1. PICK e : e = [caller[c] EXCEPT !.next = caller[c].next + 1]
    OBVIOUS
  <2>2. caller' = [caller EXCEPT ![c] = e]
    BY <1>2, <2>1 DEF VerifyRemembers
  <2>3. caller[c] \in Task
    BY <1>1 DEF Verified
  <2>4. /\ e \in Task /\ e.at = "verifying" /\ e.sets = caller[c].sets
        /\ e.next = caller[c].next + 1
    BY <1>1, <2>1, <2>3, PackagesAre DEF Task
  <2>5. \A p \in Packages : p < e.next => p \in sound
    <3>1. caller[c].next \in sound
      BY <1>1, <1>2 DEF MemosSound
    <3>2. ASSUME NEW p \in Packages, p < e.next
          PROVE  p < caller[c].next \/ p = caller[c].next
      BY <1>1, <2>4, <3>2, PackagesAre
    <3> QED BY <1>1, <3>1, <3>2 DEF Verified
  <2>6. CallerSound(c, e)
    BY <1>1, <2>4, <2>5 DEF CallerSound, Verified, Linked, Warming, Answered, Looked
  <2>7. CallerSound(c, e)' /\ MemosSound'
    BY <1>1, <2>6, CallerStays, MemosRest
  <2> QED BY <1>1, <2>2, <2>7, OneCaller
<1>3. CASE verified[caller[c].next] # "sound"
  <2>1. verified[caller[c].next] \in {"lagging", "fault"}
    BY <1>1, <1>3 DEF MemosSound, Marks, Looked, VerifyRemembers
  <2>2. Told(c, Error(verified[caller[c].next]))
    BY <1>3 DEF VerifyRemembers
  <2> QED BY <1>1, <2>1, <2>2, ToldKeeps
<1> QED BY <1>2, <1>3

LEMMA VerifyLooksKeeps == ASSUME DeriveInv, NEW c \in Callers, VerifyLooks(c) PROVE DeriveInv'
<1>1. /\ Verified(caller[c]) /\ caller[c].at = "verifying" /\ caller[c].next \in Packages
      /\ UNCHANGED <<live, memos>> /\ MemosSound /\ sound \subseteq Packages
  BY DEF DeriveInv, CallerSound, VerifyLooks, Verifying, MemosSound
<1>2. PICK a \in Looked : caller' = [caller EXCEPT ![c].at = a]
  BY DEF VerifyLooks, Goes, Looked
<1>3. PICK e : e = [caller[c] EXCEPT !.at = a]
  OBVIOUS
<1>4. caller' = [caller EXCEPT ![c] = e]
  BY <1>2, <1>3
<1>5. caller[c] \in Task
  BY <1>1 DEF Verified
<1>6. e \in Task /\ e.at = a /\ e.sets = caller[c].sets /\ e.next = caller[c].next
  BY <1>3, <1>5 DEF Task
<1>7. sound' = IF a = "sound" THEN sound \cup {caller[c].next} ELSE sound
  <2>1. caller'[c].at = a
    BY <1>4, <1>6 DEF DeriveInv
  <2> QED BY <2>1 DEF VerifyLooks
<1>8. sound \subseteq sound' /\ sound' \subseteq Packages
  BY <1>1, <1>7
<1>9. MemosSound'
  BY <1>1, <1>8 DEF MemosSound, memos, WholeFor
<1>10. CallerSound(c, e)'
  <2>1. Verified(e)'
    BY <1>1, <1>6, <1>7, <1>8 DEF Verified
  <2> QED BY <1>6, <2>1 DEF CallerSound, Linked, Warming, Answered, Looked
<1> QED BY <1>1, <1>4, <1>8, <1>9, <1>10, OneCaller

LEMMA VerifyKeepsKeeps == ASSUME DeriveInv, NEW c \in Callers, VerifyKeeps(c) PROVE DeriveInv'
<1>1. /\ Verified(caller[c]) /\ caller[c].at \in Looked
      /\ UNCHANGED <<live, linked, derived, sound>> /\ MemosSound /\ sound \subseteq Packages
  BY DEF DeriveInv, CallerSound, VerifyKeeps, MemosSound
<1>2. caller[c] \in Task /\ caller[c].next \in Packages
  BY <1>1 DEF Verified
<1>3. MemosSound'
  <2>1. CASE c \in live
    <3>1. verified' = [verified EXCEPT ![caller[c].next] = caller[c].at]
      BY <2>1 DEF VerifyKeeps
    <3>2. verified' \in [Packages -> Marks]
      BY <1>1, <1>2, <3>1 DEF MemosSound, Marks
    <3>3. \A p \in Packages : verified'[p] = "sound" => p \in sound
      BY <1>1, <1>2, <3>1 DEF MemosSound, Verified
    <3> QED BY <1>1, <3>2, <3>3 DEF MemosSound, WholeFor
  <2>2. CASE c \notin live
    <3>1. UNCHANGED verified
      BY <2>2 DEF VerifyKeeps
    <3> QED BY <1>1, <3>1, MemosRest DEF memos
  <2> QED BY <2>1, <2>2
<1>4. CASE caller[c].at = "sound" /\ c \in live
  <2>1. PICK e : e = [caller[c] EXCEPT !.at = "verifying", !.next = caller[c].next + 1]
    OBVIOUS
  <2>2. caller' = [caller EXCEPT ![c] = e]
    BY <1>4, <2>1 DEF VerifyKeeps
  <2>0. caller[c].next + 1 \in 1 .. NPackages + 1
    BY <1>2, PackagesAre
  <2>3. /\ e \in Task /\ e.at = "verifying" /\ e.sets = caller[c].sets
        /\ e.next = caller[c].next + 1
    BY <1>2, <2>1, <2>0 DEF Task
  <2>4. \A p \in Packages : p < e.next => p \in sound
    <3>1. caller[c].next \in sound
      BY <1>1, <1>4 DEF Verified
    <3>2. ASSUME NEW p \in Packages, p < e.next
          PROVE  p < caller[c].next \/ p = caller[c].next
      BY <1>2, <2>3, <3>2, PackagesAre
    <3> QED BY <1>1, <3>1, <3>2 DEF Verified
  <2>5. CallerSound(c, e)
    BY <1>1, <2>3, <2>4 DEF CallerSound, Verified, Linked, Warming, Answered, Looked
  <2>6. CallerSound(c, e)'
    BY <1>1, <2>5, CallerStays
  <2> QED BY <1>1, <1>3, <2>2, <2>6, OneCaller
<1>5. CASE ~(caller[c].at = "sound" /\ c \in live)
  <2>1. PICK with : with = IF c \in live THEN Error(caller[c].at) ELSE Cancelled
    OBVIOUS
  <2>2. PICK e : e = [at |-> "answered", of |-> caller[c].of, with |-> with]
    OBVIOUS
  <2>3. caller' = [caller EXCEPT ![c] = e]
    BY <1>5, <2>1, <2>2 DEF VerifyKeeps, Told
  <2>4. CallerSound(c, e)
    BY <1>1, <1>5, <2>1, <2>2, ErrorAnswers, CutAnswers DEF Looked
  <2>5. CallerSound(c, e)'
    BY <1>1, <2>4, CallerStays
  <2> QED BY <1>1, <1>3, <2>3, <2>5, OneCaller
<1> QED BY <1>4, <1>5

\* Every enumeration is sound when the walk of them is over.
LEMMA AllVerified ==
    ASSUME MemosSound, NEW e, Verified(e), e.at = "verifying", e.next \notin Packages
    PROVE  sound = Packages
<1>1. e.next \in 1 .. NPackages + 1
  BY DEF Verified, Task
<1>2. e.next = NPackages + 1
  BY <1>1, PackagesAre
<1>3. \A p \in Packages : p < e.next
  BY <1>2, PackagesAre
<1> QED BY <1>3 DEF Verified, MemosSound

\* Where the walk of the linked sets begins.
LEMMA LinkingBegins ==
    ASSUME NEW c, NEW e \in Task, e.at = "linking", e.next = After(0), DOMAIN e.sets = {}, sound = Packages
    PROVE  CallerSound(c, e)
<1>1. /\ After(0) \in Bearing \cup {NPackages + 1} /\ After(0) \in 1 .. NPackages + 1
      /\ \A r \in Bearing : r > 0 => After(0) <= r
  BY AfterIs, PackagesAre
<1>2. After(0) \in Nat
  BY <1>1, PackagesAre
<1>3. ASSUME NEW r \in Bearing
      PROVE  ~(r < After(0))
  <2>1. r \in Nat /\ r > 0
    BY PackagesAre
  <2> QED BY <1>1, <1>2, <2>1
<1> QED BY <1>1, <1>3 DEF CallerSound, Verified, Linked, Warming, Answered, Looked

LEMMA WarmSkipsKeeps == ASSUME DeriveInv, NEW c \in Callers, WarmSkips(c) PROVE DeriveInv'
<1>1. /\ Verified(caller[c]) /\ caller[c].at = "verifying" /\ caller[c].next \notin Packages
      /\ UNCHANGED <<live, memos, sound>> /\ MemosSound /\ sound \subseteq Packages
  BY DEF DeriveInv, CallerSound, WarmSkips, MemosSound
<1>2. sound = Packages
  BY <1>1, AllVerified
<1>3. caller[c] \in Task /\ DOMAIN caller[c].sets = {}
  BY <1>1 DEF Verified
<1>4. PICK e : e = [caller[c] EXCEPT !.at = "linking", !.next = After(0)]
  OBVIOUS
<1>5. caller' = [caller EXCEPT ![c] = e]
  BY <1>4 DEF WarmSkips
<1>6. After(0) \in 1 .. NPackages + 1
  BY AfterIs, PackagesAre
<1>7. e \in Task /\ e.at = "linking" /\ e.next = After(0) /\ DOMAIN e.sets = {}
  BY <1>3, <1>4, <1>6 DEF Task
<1>8. CallerSound(c, e)
  BY <1>2, <1>7, LinkingBegins
<1>9. CallerSound(c, e)' /\ MemosSound'
  BY <1>1, <1>8, CallerStays, MemosRest
<1> QED BY <1>1, <1>5, <1>9, OneCaller

LEMMA WarmAsksKeeps == ASSUME DeriveInv, NEW c \in Callers, WarmAsks(c) PROVE DeriveInv'
<1>1. /\ Verified(caller[c]) /\ caller[c].at = "verifying" /\ caller[c].next \notin Packages
      /\ UNCHANGED <<live, memos, sound>> /\ MemosSound /\ sound \subseteq Packages
  BY DEF DeriveInv, CallerSound, WarmAsks, MemosSound
<1>2. sound = Packages
  BY <1>1, AllVerified
<1>3. caller[c] \in Task /\ DOMAIN caller[c].sets = {}
  BY <1>1 DEF Verified
<1>4. PICK e : e = [at |-> "warming", of |-> caller[c].of, next |-> After(0), down |-> {},
                    sets |-> caller[c].sets, missing |-> Missing]
  OBVIOUS
<1>5. caller' = [caller EXCEPT ![c] = e]
  BY <1>4 DEF WarmAsks
<1>6. After(0) \in Bearing \cup {NPackages + 1}
  BY AfterIs, PackagesAre
<1>7. caller[c].of \in Packages /\ caller[c].sets \in Maps /\ Missing \in SUBSET Bearing
  BY <1>3 DEF Task, Missing
<1>8. e \in [at : {"warming"}, of : Packages, next : Bearing \cup {NPackages + 1},
             down : {{}}, sets : Maps, missing : SUBSET Bearing]
  BY <1>4, <1>6, <1>7
<1>9. CallerSound(c, e)
  BY <1>2, <1>3, <1>4, <1>8 DEF CallerSound, Verified, Linked, Warming, Answered, Looked
<1>10. CallerSound(c, e)' /\ MemosSound'
  BY <1>1, <1>9, CallerStays, MemosRest
<1> QED BY <1>1, <1>5, <1>10, OneCaller

LEMMA WarmEndsKeeps == ASSUME DeriveInv, NEW c \in Callers, WarmEnds(c) PROVE DeriveInv'
<1>1. /\ Warming(caller[c]) /\ caller[c].at = "warming"
      /\ UNCHANGED <<live, verified, derived, sound>> /\ MemosSound /\ sound \subseteq Packages
  BY DEF DeriveInv, CallerSound, WarmEnds, MemosSound
<1>2. /\ caller[c] \in [at : {"warming"}, of : Packages, next : Bearing \cup {NPackages + 1},
                        down : {{}}, sets : Maps, missing : SUBSET Bearing]
      /\ DOMAIN caller[c].sets = {} /\ caller[c].next = After(0) /\ sound = Packages
  BY <1>1 DEF Warming
<1>3. MemosSound'
  <2>1. linked' = [p \in Packages |-> linked'[p]]
    BY <1>1 DEF WarmEnds, MemosSound
  <2>2. ASSUME NEW p \in Packages
        PROVE  linked'[p] \in {Unknown, StoodDown, Links[p]}
    <3>1. linked'[p] \in {linked[p], Links[p]}
      BY DEF WarmEnds
    <3> QED BY <1>1, <3>1 DEF MemosSound
  <2> QED BY <1>1, <2>1, <2>2 DEF MemosSound, WholeFor
<1>4. PICK e : e = [at |-> "linking", of |-> caller[c].of, next |-> caller[c].next,
                    down |-> caller[c].down, sets |-> caller[c].sets]
  OBVIOUS
<1>5. caller' = [caller EXCEPT ![c] = e]
  BY <1>4 DEF WarmEnds
<1>6. After(0) \in 1 .. NPackages + 1
  BY AfterIs, PackagesAre
<1>7. e \in Task /\ e.at = "linking" /\ e.next = After(0) /\ DOMAIN e.sets = {}
  BY <1>2, <1>4, <1>6 DEF Task
<1>8. CallerSound(c, e)
  BY <1>2, <1>7, LinkingBegins
<1>9. CallerSound(c, e)'
  BY <1>1, <1>8, CallerStays
<1> QED BY <1>1, <1>3, <1>5, <1>9, OneCaller

LEMMA WarmFailsKeeps == ASSUME DeriveInv, NEW c \in Callers, WarmFails(c) PROVE DeriveInv'
<1>1. UNCHANGED <<live, memos, sound>>
  BY DEF WarmFails
<1>2. (Told(c, Cancelled) /\ c \notin live) \/ Told(c, Error("fault"))
  BY DEF WarmFails
<1> QED BY <1>1, <1>2, ToldKeeps

\* One package's set, noted.
LEMMA KeepsKeeps ==
    ASSUME DeriveInv, NEW c \in Callers, NEW set,
           Linked(caller[c]), caller[c].at \in {"linking", "listing"}, caller[c].next \in Packages,
           set \in {StoodDown, Links[caller[c].next]},
           caller' = [caller EXCEPT ![c] = Keeps(c, caller[c].next, set)],
           UNCHANGED <<live, sound>>, MemosSound'
    PROVE  DeriveInv'
<1> DEFINE p == caller[c].next
<1>1. /\ caller[c] \in Task /\ p \in Bearing \cup {NPackages + 1} /\ sound = Packages
      /\ \A q \in DOMAIN caller[c].sets : caller[c].sets[q] = Links[q]
      /\ \A q \in Bearing : q < p => q \in DOMAIN caller[c].sets \cup caller[c].down
  BY DEF Linked
<1>2. PICK D \in SUBSET Bearing : caller[c].sets \in [D -> SUBSET Packages]
  BY <1>1 DEF Task, Maps
<1>3. p \in Bearing /\ p \in 0 .. NPackages
  BY <1>1, PackagesAre
<1>4. /\ After(p) \in Bearing \cup {NPackages + 1} /\ After(p) \in 1 .. NPackages + 1
      /\ \A r \in Bearing : r > p => After(p) <= r
  BY <1>3, AfterIs
<1>5. PICK e : e = Keeps(c, p, set)
  OBVIOUS
<1>6. /\ e \in Task /\ e.at = "linking" /\ e.next = After(p)
      /\ \A q \in DOMAIN e.sets : e.sets[q] = Links[q]
      /\ DOMAIN caller[c].sets \cup caller[c].down \cup {p} \subseteq DOMAIN e.sets \cup e.down
  <2>1. CASE set = StoodDown
    <3>1. e = [caller[c] EXCEPT !.at = "linking", !.next = After(p), !.down = caller[c].down \cup {p}]
      BY <1>5, <2>1 DEF Keeps
    <3>2. caller[c].down \cup {p} \in SUBSET Packages
      BY <1>1, <1>3, PackagesAre DEF Task
    <3>3. e \in Task /\ e.at = "linking" /\ e.next = After(p) /\ e.sets = caller[c].sets
          /\ e.down = caller[c].down \cup {p}
      BY <1>1, <1>4, <3>1, <3>2 DEF Task
    <3> QED BY <1>1, <3>3
  <2>2. CASE set # StoodDown
    <3>1. PICK sets : sets = [q \in D \cup {p} |-> IF q = p THEN set ELSE caller[c].sets[q]]
      OBVIOUS
    <3>2. e = [caller[c] EXCEPT !.at = "linking", !.next = After(p), !.sets = sets]
      BY <1>2, <1>5, <2>2, <3>1 DEF Keeps
    <3>3. set = Links[p] /\ Links[p] \in SUBSET Packages
      BY <1>3, <2>2, DeriveAssumption, PackagesAre
    <3>4. sets \in [D \cup {p} -> SUBSET Packages]
      BY <1>2, <3>1, <3>3
    <3>5. D \cup {p} \in SUBSET Bearing
      BY <1>3
    <3>6. sets \in Maps
      BY <3>4, <3>5 DEF Maps
    <3>7. e \in Task /\ e.at = "linking" /\ e.next = After(p) /\ e.sets = sets
          /\ e.down = caller[c].down
      BY <1>1, <1>4, <3>2, <3>6 DEF Task
    <3>8. \A q \in D \cup {p} : sets[q] = Links[q]
      BY <1>1, <1>2, <3>1, <3>3
    <3>9. DOMAIN sets = D \cup {p} /\ DOMAIN caller[c].sets = D
      BY <1>2, <3>4
    <3> QED BY <3>7, <3>8, <3>9
  <2> QED BY <2>1, <2>2
<1>7. \A q \in Bearing : q < e.next => q \in DOMAIN e.sets \cup e.down
  <2>1. ASSUME NEW q \in Bearing, q < After(p)
        PROVE  q < p \/ q = p
    <3>1. q \in Nat /\ p \in Nat /\ After(p) \in Nat
      BY <1>3, <1>4, PackagesAre
    <3>2. q > p => After(p) <= q
      BY <1>4
    <3> QED BY <2>1, <3>1, <3>2
  <2> QED BY <1>1, <1>6, <2>1
<1>8. CallerSound(c, e)
  BY <1>1, <1>4, <1>6, <1>7 DEF CallerSound, Verified, Linked, Warming, Answered, Looked
<1>9. sound \subseteq Packages
  BY <1>1
<1>10. CallerSound(c, e)'
  BY <1>8, <1>9, CallerStays
<1>11. caller' = [caller EXCEPT ![c] = e]
  BY <1>5
<1> QED BY <1>9, <1>10, <1>11, OneCaller

LEMMA LinkRemembersKeeps == ASSUME DeriveInv, NEW c \in Callers, LinkRemembers(c) PROVE DeriveInv'
<1>1. /\ Linked(caller[c]) /\ caller[c].at = "linking" /\ caller[c].next \in Packages
      /\ UNCHANGED <<live, memos, sound>> /\ MemosSound
  BY DEF DeriveInv, CallerSound, LinkRemembers, Linking
<1>2. linked[caller[c].next] \in {StoodDown, Links[caller[c].next]}
  BY <1>1 DEF LinkRemembers, MemosSound
<1>3. caller' = [caller EXCEPT ![c] = Keeps(c, caller[c].next, linked[caller[c].next])]
  BY DEF LinkRemembers
<1>4. MemosSound'
  BY <1>1, MemosRest
<1> QED BY <1>1, <1>2, <1>3, <1>4, KeepsKeeps

LEMMA LinkAsksKeeps == ASSUME DeriveInv, NEW c \in Callers, LinkAsks(c) PROVE DeriveInv'
<1>1. /\ Linked(caller[c]) /\ caller[c].at = "linking" /\ caller[c].next \in Packages
      /\ UNCHANGED <<live, memos, sound>> /\ MemosSound /\ sound \subseteq Packages
  BY DEF DeriveInv, CallerSound, LinkAsks, Linking, MemosSound
<1>2. PICK e : e = [caller[c] EXCEPT !.at = "listing"]
  OBVIOUS
<1>3. caller' = [caller EXCEPT ![c] = e]
  BY <1>2 DEF LinkAsks, Goes
<1>4. caller[c] \in Task
  BY <1>1 DEF Linked
<1>5. e \in Task /\ e.at = "listing" /\ e.sets = caller[c].sets /\ e.next = caller[c].next /\ e.down = caller[c].down
  BY <1>2, <1>4 DEF Task
<1>6. CallerSound(c, e)
  BY <1>1, <1>5 DEF CallerSound, Verified, Linked, Warming, Answered, Looked
<1>7. CallerSound(c, e)' /\ MemosSound'
  BY <1>1, <1>6, CallerStays, MemosRest
<1> QED BY <1>1, <1>3, <1>7, OneCaller

LEMMA LinkAnswersKeeps == ASSUME DeriveInv, NEW c \in Callers, LinkAnswers(c) PROVE DeriveInv'
<1>1. /\ Linked(caller[c]) /\ caller[c].at = "listing" /\ caller[c].next \in Packages
      /\ UNCHANGED <<live, verified, derived, sound>> /\ MemosSound
  BY DEF DeriveInv, CallerSound, LinkAnswers, Linked
<1>2. PICK set \in {Links[caller[c].next], StoodDown} :
          /\ linked' = [linked EXCEPT ![caller[c].next] = set]
          /\ caller' = [caller EXCEPT ![c] = Keeps(c, caller[c].next, set)]
  BY DEF LinkAnswers
<1>3. MemosSound'
  <2>1. linked' = [p \in Packages |-> linked'[p]]
    BY <1>1, <1>2 DEF MemosSound
  <2>2. ASSUME NEW p \in Packages
        PROVE  linked'[p] \in {Unknown, StoodDown, Links[p]}
    BY <1>1, <1>2 DEF MemosSound
  <2> QED BY <1>1, <2>1, <2>2 DEF MemosSound, WholeFor
<1> QED BY <1>1, <1>2, <1>3, KeepsKeeps

LEMMA LinkFailsKeeps == ASSUME DeriveInv, NEW c \in Callers, LinkFails(c) PROVE DeriveInv'
<1>1. UNCHANGED <<live, memos, sound>>
  BY DEF LinkFails
<1>2. (Told(c, Cancelled) /\ c \notin live) \/ Told(c, Error("fault"))
  BY DEF LinkFails
<1> QED BY <1>1, <1>2, ToldKeeps

LEMMA CutKeeps == ASSUME DeriveInv, NEW c \in Callers, Cut(c) PROVE DeriveInv'
BY ToldKeeps DEF Cut

LEMMA StoresKeeps == ASSUME DeriveInv, NEW c \in Callers, Stores(c) PROVE DeriveInv'
<1>1. /\ Linked(caller[c]) /\ caller[c].at = "linking" /\ caller[c].next \notin Packages
      /\ UNCHANGED <<live, verified, linked, sound>> /\ MemosSound
  BY DEF DeriveInv, CallerSound, Stores
<1>2. /\ caller[c] \in Task /\ caller[c].next = NPackages + 1 /\ sound = Packages
      /\ \A q \in DOMAIN caller[c].sets : caller[c].sets[q] = Links[q]
      /\ \A q \in Bearing : q < caller[c].next => q \in DOMAIN caller[c].sets \cup caller[c].down
  BY <1>1, PackagesAre DEF Linked
<1>3. \A q \in Bearing : q \in DOMAIN caller[c].sets \cup caller[c].down
  <2>1. \A q \in Bearing : q < NPackages + 1
    BY PackagesAre
  <2> QED BY <1>2, <2>1
<1>4. DOMAIN caller[c].sets \subseteq Bearing
  BY <1>2 DEF Task, Maps
<1>5. ASSUME NEW p \in Packages
      PROVE  Oracle(c, p).is = "oracle" /\ WholeFor(Oracle(c, p), p)
  BY <1>2, <1>3, <1>4 DEF Oracle, WholeFor, Linkers
<1>6. MemosSound'
  <2>1. derived' = [p \in Packages |-> Oracle(c, p)]
    BY DEF Stores
  <2>2. \A p \in Packages : derived'[p].is = "oracle" /\ WholeFor(derived'[p], p)
    BY <1>5, <2>1
  <2>3. derived' = [p \in Packages |-> derived'[p]]
    BY <2>1
  <2> HIDE DEF Oracle
  <2>4. \A p \in Packages : derived'[p] # NoOracle =>
           derived'[p].is = "oracle" /\ WholeFor(derived'[p], p) /\ sound = Packages
    BY <1>2, <2>2
  <2> QED BY <1>1, <2>3, <2>4 DEF MemosSound, WholeFor
<1>7. PICK e : e = [at |-> "answered", of |-> caller[c].of, with |-> Oracle(c, caller[c].of)]
  OBVIOUS
<1>8. caller' = [caller EXCEPT ![c] = e]
  BY <1>7 DEF Stores, Told
<1>9. caller[c].of \in Packages
  BY <1>2 DEF Task
<1>10. CallerSound(c, e)
  BY <1>2, <1>5, <1>7, <1>9, WholeAnswers
<1>11. CallerSound(c, e)'
  BY <1>1, <1>2, <1>10, CallerStays
<1> QED BY <1>1, <1>2, <1>6, <1>8, <1>11, OneCaller

\* What befalls no caller's progress and no memo.
LEMMA OthersKeep ==
    ASSUME DeriveInv, UNCHANGED <<caller, memos, sound>>, live' \subseteq live
    PROVE  DeriveInv'
<1>1. MemosSound /\ sound \subseteq Packages
  BY DEF DeriveInv, MemosSound
<1>2. ASSUME NEW c \in Callers
      PROVE  CallerSound(c, caller[c])'
  <2>1. PICK e : e = caller[c]
    OBVIOUS
  <2>2. CallerSound(c, e)'
    BY <1>1, <2>1, CallerStays DEF DeriveInv
  <2> QED BY <2>1, <2>2
<1> QED BY <1>1, <1>2, MemosRest DEF DeriveInv

LEMMA DeriveStepKeeps == DeriveInv /\ [DeriveNext]_deriveVars => DeriveInv'
<1> SUFFICES ASSUME DeriveInv, [DeriveNext]_deriveVars
             PROVE  DeriveInv'
  OBVIOUS
<1>1. ASSUME NEW c \in Callers, AsksOracle(c) \/ DeriveStep(c)
      PROVE  DeriveInv'
  BY <1>1, AsksOracleKeeps, CutKeeps, VerifyRemembersKeeps, VerifyLooksKeeps, VerifyKeepsKeeps,
     WarmSkipsKeeps, WarmAsksKeeps, WarmFailsKeeps, WarmEndsKeeps, LinkRemembersKeeps, LinkAsksKeeps,
     LinkAnswersKeeps, LinkFailsKeeps, StoresKeeps DEF DeriveStep
<1>2. ASSUME NEW c \in Callers, CallerCut(c)
      PROVE  DeriveInv'
  BY <1>2, OthersKeep DEF CallerCut
<1>3. CASE Edits
  BY <1>3, OthersKeep DEF Edits
<1>4. CASE UNCHANGED deriveVars
  BY <1>4, OthersKeep DEF deriveVars
<1> QED BY <1>1, <1>2, <1>3, <1>4 DEF DeriveNext

LEMMA DeriveInvIsWhole == DeriveInv => DerivedIsWhole
BY DEF DeriveInv, CallerSound, Answered, WholeFor, Linkers, DerivedIsWhole

------------------------------------------------------------------------------
(* The oracle's seats.                                                     *)

Sharing == {"waiting", "compiling", "served"}

SeatsAre ==
    /\ ctx = [s \in Seats |-> ctx[s]] /\ place = [s \in Seats |-> place[s]]
    /\ asked = [s \in Seats |-> asked[s]] /\ ended = [s \in Seats |-> ended[s]]
    /\ answer = [s \in Seats |-> answer[s]] /\ holds = [s \in Seats |-> holds[s]]

\* What an answer says of the process it is about.
Fits(with, end) ==
    /\ with.by = "timeout" => end = "killed"
    /\ with.is = "survived" => end = "clean"
    /\ with.by \in Tests => end = with.by
    /\ with.by = "package" => end = "clean"

Earned(s) == place[s] = "returned" /\ asked[s] = "mutant" => Fits(answer[s], ended[s])

\* One seat's step leaves the others where they are.
Alone(s) ==
    /\ SeatsAre'
    /\ \A r \in Seats \ {s} : /\ place'[r] = place[r] /\ asked'[r] = asked[r] /\ ended'[r] = ended[r]
                             /\ answer'[r] = answer[r] /\ holds'[r] = holds[r]
    /\ \A r \in Seats : ctx[r] = "dead" => ctx'[r] = "dead"

\* It has nothing to do with the schema's cache.
Outside(s) == UNCHANGED <<entries, slot>> /\ place[s] \notin Sharing /\ place'[s] \notin Sharing

LEMMA NotATest ==
    /\ Schematic \subseteq Seats /\ MaxEntries \in Nat
    /\ \A w \in {"none", "timeout", "package", "nothing", "unclassifiable", "rejected", "compiler",
                  "failing", "clean", "crashed", "garbled", "killed", "late"} : w \notin Tests
<1>1. Schematic \subseteq Seats /\ MaxEntries \in Nat
  BY OracleAssumption
<1>2. ASSUME NEW w \in {"none", "timeout", "package", "nothing", "unclassifiable", "rejected", "compiler",
                       "failing", "clean", "crashed", "garbled", "killed", "late"}, w \in Tests
      PROVE  FALSE
  <2>1. w \in Tests \cap {"none", "timeout", "package", "nothing", "unclassifiable", "rejected", "compiler",
                           "failing", "clean", "crashed", "garbled", "killed", "late"}
    BY <1>2
  <2> QED BY <2>1, OracleAssumption
<1> QED BY <1>1, <1>2

LEMMA StartsAlone ==
    ASSUME SeatsAre, NEW s \in Seats, NEW there \in {"running", "probing"}, Starts(s, there),
           UNCHANGED <<ctx, answer>>, place[s] \notin Sharing, UNCHANGED <<entries, slot>>,
           asked' = [asked EXCEPT ![s] = asked'[s]], holds' = [holds EXCEPT ![s] = holds'[s]]
    PROVE  Alone(s) /\ Outside(s) /\ Earned(s)'
<1>1. PICK to \in {"running", "probing", "exited", "probed"} : place' = [place EXCEPT ![s] = to]
  BY DEF Starts, GoesTo
<1>2. ended' = [ended EXCEPT ![s] = ended'[s]]
  BY DEF Starts, SeatsAre
<1>3. place'[s] = to /\ place' = [r \in Seats |-> place'[r]] /\ \A r \in Seats \ {s} : place'[r] = place[r]
  BY <1>1 DEF SeatsAre
<1>4. ended' = [r \in Seats |-> ended'[r]] /\ \A r \in Seats \ {s} : ended'[r] = ended[r]
  BY <1>2 DEF SeatsAre
<1>5. asked' = [r \in Seats |-> asked'[r]] /\ \A r \in Seats \ {s} : asked'[r] = asked[r]
  BY DEF SeatsAre
<1>6. holds' = [r \in Seats |-> holds'[r]] /\ \A r \in Seats \ {s} : holds'[r] = holds[r]
  BY DEF SeatsAre
<1>7. Alone(s)
  BY <1>3, <1>4, <1>5, <1>6 DEF Alone, SeatsAre
<1> QED BY <1>3, <1>7 DEF Outside, Sharing, Earned

LEMMA ReturnsAlone ==
    ASSUME SeatsAre, NEW s \in Seats, NEW with, Returns(s, with), place[s] \notin Sharing,
           asked[s] = "mutant" => Fits(with, ended[s])
    PROVE  Alone(s) /\ Outside(s) /\ Earned(s)'
<1>1. /\ place' = [place EXCEPT ![s] = "returned"] /\ answer' = [answer EXCEPT ![s] = with]
      /\ UNCHANGED <<ctx, asked, ended, entries, slot, holds>>
  BY DEF Returns, GoesTo, cacheVars
<1>2. Alone(s)
  BY <1>1 DEF Alone, SeatsAre
<1>3. Earned(s)'
  BY <1>1 DEF SeatsAre, Earned, Fits
<1> QED BY <1>1, <1>2, <1>3 DEF Outside, Sharing, SeatsAre

LEMMA ObservesAlone ==
    ASSUME SeatsAre, NEW s \in Seats, NEW then, Observes(s, then), place[s] \notin Sharing,
           asked[s] = "mutant" => Fits(then, ended[s])
    PROVE  Alone(s) /\ Outside(s) /\ Earned(s)'
<1>1. Fits(Failed, ended[s])
  BY NotATest DEF Fits, Failed, Answer, None
<1>2. CASE ctx[s] = "dead"
  BY <1>1, <1>2, ReturnsAlone DEF Observes
<1>3. CASE ctx[s] # "dead"
  BY <1>3, ReturnsAlone DEF Observes
<1> QED BY <1>2, <1>3

\* What an engine call does, and what may be done to it.
Outer(s) ==
    \/ AsksMutant(s) \/ Takes(s) \/ BoundFires(s) \/ Exits(s) \/ ProbeExits(s)
    \/ \E covers \in BOOLEAN : AsksBaseline(s, covers)

Classifies(s) ==
    \/ TimesOut(s) \/ IsCancelled(s) \/ Survives(s) \/ FailsATest(s) \/ IsRejected(s) \/ Differs(s)
    \/ IsGarbled(s) \/ BindFails(s) \/ Refuses(s) \/ Stands(s)

Begins(s) == Differentiates(s) \/ Uncovers(s) \/ Repeats(s) \/ Binds(s)

Shares(s) == Finds(s) \/ Compiles(s) \/ CompileEnds(s) \/ Waits(s) \/ Drops(s)

SeatStep(s) == Outer(s) \/ Classifies(s) \/ Begins(s) \/ Shares(s) \/ CallerDies(s)

LEMMA BeginsAlone ==
    ASSUME SeatsAre, NEW s \in Seats, Begins(s)
    PROVE  Alone(s) /\ Outside(s) /\ Earned(s)'
<1>1. PICK there \in {"running", "probing"} : Starts(s, there)
  BY DEF Begins, Differentiates, Uncovers, Repeats, Binds
<1>2. /\ UNCHANGED <<ctx, answer, asked, entries, slot>> /\ place[s] \in {"exited", "bound"}
      /\ holds' = [holds EXCEPT ![s] = holds'[s]]
  BY DEF Begins, Differentiates, Uncovers, Repeats, Binds, Scored, cacheVars, SeatsAre
<1>3. asked' = [asked EXCEPT ![s] = asked'[s]] /\ place[s] \notin Sharing
  BY <1>2 DEF SeatsAre, Sharing
<1> QED BY <1>1, <1>2, <1>3, StartsAlone

LEMMA ClassifiesAlone ==
    ASSUME SeatsAre, NEW s \in Seats, Classifies(s)
    PROVE  Alone(s) /\ Outside(s) /\ Earned(s)'
<1>1. place[s] \in {"exited", "bound", "probed"}
  BY DEF Classifies, TimesOut, IsCancelled, Survives, FailsATest, IsRejected, Differs, IsGarbled,
         BindFails, Refuses, Stands, Scored
<1>2. place[s] \notin Sharing
  BY <1>1 DEF Sharing
<1>3. Fits(Failed, ended[s])
  BY NotATest DEF Fits, Failed, Answer, None
<1>4. CASE TimesOut(s)
  <2>1. Fits(Killed("timeout"), ended[s])
    BY <1>4, NotATest DEF TimesOut, BudgetFired, Fits, Killed, Answer
  <2> QED BY <1>2, <1>4, <2>1, ObservesAlone DEF TimesOut
<1>5. CASE IsCancelled(s)
  <2>1. Fits(Discarded("nothing"), ended[s])
    BY NotATest DEF Fits, Discarded, Answer
  <2> QED BY <1>2, <1>5, <2>1, ObservesAlone DEF IsCancelled
<1>6. CASE Survives(s)
  <2>1. Fits(Survived, ended[s])
    BY <1>6, NotATest DEF Survives, Fits, Survived, Answer, None
  <2> QED BY <1>2, <1>6, <2>1, ObservesAlone DEF Survives
<1>7. CASE FailsATest(s)
  <2>1. Fits(Killed(ended[s]), ended[s])
    BY <1>7, NotATest DEF FailsATest, Fits, Killed, Answer
  <2> QED BY <1>2, <1>7, <2>1, ObservesAlone DEF FailsATest
<1>8. CASE IsRejected(s)
  <2>1. PICK why \in {"rejected", "compiler"} : Returns(s, Discarded(why))
    BY <1>8 DEF IsRejected
  <2>2. Fits(Discarded(why), ended[s])
    BY NotATest DEF Fits, Discarded, Answer
  <2> QED BY <1>2, <2>1, <2>2, ReturnsAlone
<1>9. CASE Differs(s)
  <2>1. CASE bound[s] = "live" /\ ended[s] = "clean"
    <3>1. Fits(Killed("package"), ended[s]) /\ Observes(s, Killed("package"))
      BY <1>9, <2>1, NotATest DEF Differs, Fits, Killed, Answer
    <3> QED BY <1>2, <3>1, ObservesAlone
  <2>2. CASE ~(bound[s] = "live" /\ ended[s] = "clean")
    <3>1. Fits(Discarded("unclassifiable"), ended[s]) /\ Observes(s, Discarded("unclassifiable"))
      BY <1>9, <2>2, NotATest DEF Differs, Fits, Discarded, Answer
    <3> QED BY <1>2, <3>1, ObservesAlone
  <2> QED BY <2>1, <2>2
<1>10. CASE IsGarbled(s)
  BY <1>2, <1>3, <1>10, ReturnsAlone DEF IsGarbled
<1>11. CASE BindFails(s)
  BY <1>2, <1>3, <1>11, ReturnsAlone DEF BindFails
<1>12. CASE Refuses(s)
  <2>1. PICK with : asked[s] = "baseline" /\ (Returns(s, with) \/ Observes(s, with))
    BY <1>12 DEF Refuses
  <2> QED BY <1>2, <2>1, ReturnsAlone, ObservesAlone
<1>13. CASE Stands(s)
  <2>1. PICK with : asked[s] = "baseline" /\ Observes(s, with)
    BY <1>13 DEF Stands
  <2> QED BY <1>2, <2>1, ObservesAlone
<1> QED BY <1>4, <1>5, <1>6, <1>7, <1>8, <1>9, <1>10, <1>11, <1>12, <1>13 DEF Classifies

LEMMA OuterAlone ==
    ASSUME SeatsAre, NEW s \in Seats, Outer(s), Earned(s)
    PROVE  Alone(s) /\ Outside(s) /\ Earned(s)'
<1>1. CASE AsksMutant(s)
  <2>1. /\ UNCHANGED <<ctx, answer, holds, entries, slot>> /\ place[s] = "idle"
        /\ asked' = [asked EXCEPT ![s] = "mutant"]
    BY <1>1 DEF AsksMutant, cacheVars
  <2>2. CASE ctx[s] = "live" /\ s \in Schematic
    <3>1. place' = [place EXCEPT ![s] = "keyed"] /\ UNCHANGED ended
      BY <1>1, <2>2 DEF AsksMutant, GoesTo
    <3> QED BY <2>1, <3>1 DEF Alone, Outside, Sharing, Earned, SeatsAre
  <2>3. CASE ~(ctx[s] = "live" /\ s \in Schematic)
    <3>1. Starts(s, "running")
      BY <1>1, <2>3 DEF AsksMutant
    <3>2. asked' = [asked EXCEPT ![s] = asked'[s]] /\ holds' = [holds EXCEPT ![s] = holds'[s]]
      BY <2>1 DEF SeatsAre
    <3> QED BY <2>1, <3>1, <3>2, StartsAlone DEF Sharing
  <2> QED BY <2>2, <2>3
<1>2. ASSUME NEW covers \in BOOLEAN, AsksBaseline(s, covers)
      PROVE  Alone(s) /\ Outside(s) /\ Earned(s)'
  <2>1. /\ UNCHANGED <<ctx, answer, holds, entries, slot>> /\ place[s] = "idle"
        /\ asked' = [asked EXCEPT ![s] = "baseline"] /\ Starts(s, "running")
    BY <1>2 DEF AsksBaseline, cacheVars
  <2>2. asked' = [asked EXCEPT ![s] = asked'[s]] /\ holds' = [holds EXCEPT ![s] = holds'[s]]
    BY <2>1 DEF SeatsAre
  <2> QED BY <2>1, <2>2, StartsAlone DEF Sharing
<1>3. CASE Takes(s)
  <2>1. /\ place[s] = "returned" /\ place' = [place EXCEPT ![s] = "idle"]
        /\ asked' = [asked EXCEPT ![s] = None] /\ ended' = [ended EXCEPT ![s] = None]
        /\ answer' = [answer EXCEPT ![s] = NoAnswer] /\ holds' = [holds EXCEPT ![s] = 0]
        /\ UNCHANGED <<ctx, entries, slot>>
    BY <1>3 DEF Takes, GoesTo, ctxVars
  <2> QED BY <2>1 DEF Alone, Outside, Sharing, Earned, SeatsAre
<1>4. CASE BoundFires(s)
  <2>1. UNCHANGED <<ctx, place, asked, ended, answer, entries, slot, holds>> /\ place[s] \in InProcess
    BY <1>4 DEF BoundFires, seatVars, cacheVars
  <2> QED BY <2>1 DEF Alone, Outside, Sharing, Earned, SeatsAre, InProcess, Fits
<1>5. CASE Exits(s)
  <2>1. /\ place[s] = "running" /\ place' = [place EXCEPT ![s] = "exited"]
        /\ ended' = [ended EXCEPT ![s] = ended'[s]]
        /\ UNCHANGED <<ctx, asked, answer, entries, slot, holds>>
    BY <1>5 DEF Exits, GoesTo, ctxVars, cacheVars, SeatsAre
  <2> QED BY <2>1 DEF Alone, Outside, Sharing, Earned, SeatsAre
<1>6. CASE ProbeExits(s)
  <2>1. /\ place[s] = "probing" /\ place' = [place EXCEPT ![s] = "probed"]
        /\ ended' = [ended EXCEPT ![s] = ended'[s]]
        /\ UNCHANGED <<ctx, asked, answer, entries, slot, holds>>
    BY <1>6 DEF ProbeExits, GoesTo, ctxVars, cacheVars, SeatsAre
  <2> QED BY <2>1 DEF Alone, Outside, Sharing, Earned, SeatsAre
<1> QED BY <1>1, <1>2, <1>3, <1>4, <1>5, <1>6 DEF Outer

LEMMA CallerDiesAlone ==
    ASSUME SeatsAre, NEW s \in Seats, CallerDies(s), Earned(s)
    PROVE  Alone(s) /\ Earned(s)' /\ UNCHANGED <<place, entries, slot, holds>>
<1>1. /\ ctx' = [ctx EXCEPT ![s] = "dead"]
      /\ UNCHANGED <<place, asked, ended, answer, entries, slot, holds>>
  BY DEF CallerDies, seatVars, cacheVars
<1> QED BY <1>1 DEF Alone, Earned, SeatsAre, Fits

LEMMA SharesAlone ==
    ASSUME SeatsAre, NEW s \in Seats, Shares(s)
    PROVE  Alone(s) /\ Earned(s)' /\ UNCHANGED ctx
<1>1. PICK to \in {"waiting", "compiling", "served", "bound"} : place' = [place EXCEPT ![s] = to]
  BY DEF Shares, Finds, Compiles, CompileEnds, Waits, Drops, GoesTo
<1>2. /\ UNCHANGED <<ctx, asked, ended, answer>> /\ holds' = [holds EXCEPT ![s] = holds'[s]]
  BY DEF Shares, Finds, Compiles, CompileEnds, Waits, Drops, ctxVars, cacheVars, SeatsAre
<1> QED BY <1>1, <1>2 DEF Alone, Earned, SeatsAre

------------------------------------------------------------------------------
(* The schema's cache.                                                     *)

Entries == 1 .. MaxEntries
Compiled == {"built", "broken", "cut"}

\* Only the key's entry is in the making, or made.
CacheIs ==
    /\ slot \in 0 .. MaxEntries
    /\ entries \in [Entries -> {"unmade", "made", "compiling"} \cup Compiled]
    /\ \A e \in Entries \ {slot} : entries[e] \in {"unmade", "broken", "cut"}
    /\ slot # 0 => entries[slot] # "unmade"

Held(s, at, with) ==
    /\ at \in Sharing => with \in Entries /\ entries[with] # "unmade"
    /\ at = "compiling" => entries[with] = "compiling"
    /\ at = "served" => entries[with] \in Compiled

OneCompiles == \A s, t \in Seats : place[s] = "compiling" /\ place[t] = "compiling" => s = t

\* An entry cut short is the key's only while its compiler is there to drop it.
CutIsDropped ==
    slot # 0 /\ entries[slot] = "cut" =>
        \E s \in Seats : place[s] = "served" /\ holds[s] = slot /\ ctx[s] = "dead"

CacheInv ==
    /\ CacheIs /\ OneCompiles /\ CutIsDropped
    /\ \A s \in Seats : Held(s, place[s], holds[s])

LEMMA OutsideKeeps ==
    ASSUME CacheInv, NEW s \in Seats, Alone(s), Outside(s)
    PROVE  CacheInv'
<1>1. UNCHANGED <<entries, slot>> /\ place[s] \notin Sharing /\ place'[s] \notin Sharing
  BY DEF Outside
<1>2. CacheIs'
  BY <1>1 DEF CacheInv, CacheIs
<1>3. OneCompiles'
  BY <1>1 DEF CacheInv, OneCompiles, Alone, Sharing
<1>4. CutIsDropped'
  <2>1. SUFFICES ASSUME slot # 0, entries[slot] = "cut"
                 PROVE  \E r \in Seats : place'[r] = "served" /\ holds'[r] = slot /\ ctx'[r] = "dead"
    BY <1>1 DEF CutIsDropped
  <2>2. PICK r \in Seats : place[r] = "served" /\ holds[r] = slot /\ ctx[r] = "dead"
    BY <2>1 DEF CacheInv, CutIsDropped
  <2>3. r # s
    BY <1>1, <2>2 DEF Sharing
  <2> QED BY <2>2, <2>3 DEF Alone
<1>5. ASSUME NEW r \in Seats
      PROVE  Held(r, place[r], holds[r])'
  <2>1. CASE r = s
    BY <1>1, <2>1 DEF Held, Sharing
  <2>2. CASE r # s
    BY <1>1, <2>2 DEF CacheInv, Held, Alone
  <2> QED BY <2>1, <2>2
<1> QED BY <1>2, <1>3, <1>4, <1>5 DEF CacheInv

LEMMA CallerDiesKeeps ==
    ASSUME CacheInv, NEW s \in Seats, Alone(s), UNCHANGED <<place, entries, slot, holds>>
    PROVE  CacheInv'
<1>1. CacheIs' /\ OneCompiles'
  BY DEF CacheInv, CacheIs, OneCompiles
<1>2. CutIsDropped'
  BY DEF CacheInv, CutIsDropped, Alone
<1> QED BY <1>1, <1>2 DEF CacheInv, Held

\* What an entry goes through, none compiled again.
Onward(was, is) ==
    \/ is = was
    \/ was = "unmade" /\ is = "made"
    \/ was = "made" /\ is = "compiling"
    \/ was = "compiling" /\ is \in Compiled

LEMMA HeldStays ==
    ASSUME NEW s, NEW at, NEW with, Held(s, at, with), \A e \in Entries : Onward(entries[e], entries'[e]),
           at = "compiling" => entries'[with] = entries[with]
    PROVE  Held(s, at, with)'
BY DEF Held, Onward, Compiled, Sharing

\* What is left to prove of a sharing step.
LEMMA OneShares ==
    ASSUME CacheInv, NEW s \in Seats, Alone(s), UNCHANGED ctx, CacheIs', CutIsDropped',
           \A e \in Entries : Onward(entries[e], entries'[e]),
           Held(s, place[s], holds[s])',
           place'[s] = "compiling" => \A r \in Seats : place[r] # "compiling",
           \A r \in Seats \ {s} : place[r] = "compiling" => entries'[holds[r]] = entries[holds[r]]
    PROVE  CacheInv'
<1>1. \A r \in Seats \ {s} : place'[r] = place[r] /\ holds'[r] = holds[r]
  BY DEF Alone
<1>2. OneCompiles'
  BY <1>1 DEF CacheInv, OneCompiles
<1>3. ASSUME NEW r \in Seats
      PROVE  Held(r, place[r], holds[r])'
  <2>1. CASE r # s
    <3>1. Held(r, place[r], holds[r])
      BY DEF CacheInv
    <3>2. PICK at, with : at = place[r] /\ with = holds[r]
      OBVIOUS
    <3>3. Held(r, at, with)'
      BY <2>1, <3>1, <3>2, HeldStays
    <3> QED BY <1>1, <2>1, <3>2, <3>3
  <2> QED BY <2>1
<1> QED BY <1>2, <1>3 DEF CacheInv

LEMMA FindsKeeps == ASSUME CacheInv, SeatsAre, NEW s \in Seats, Alone(s), Finds(s) PROVE CacheInv'
<1>1. /\ MaxEntries \in Nat /\ slot \in 0 .. MaxEntries
      /\ entries \in [Entries -> {"unmade", "made", "compiling"} \cup Compiled]
      /\ \A e \in Entries \ {slot} : entries[e] \in {"unmade", "broken", "cut"}
      /\ slot # 0 => entries[slot] # "unmade"
  BY NotATest DEF CacheInv, CacheIs
<1>2. place[s] = "keyed" /\ place'[s] = "waiting" /\ holds'[s] = slot' /\ UNCHANGED ctx
  BY DEF Finds, GoesTo, SeatsAre, ctxVars
<1>3. CASE slot # 0
  <2>1. UNCHANGED <<slot, entries>> /\ slot \in Entries
    BY <1>1, <1>3 DEF Finds, Entries
  <2>2. CacheIs'
    BY <2>1 DEF CacheInv, CacheIs
  <2>3. CutIsDropped'
    BY <1>2, <2>1 DEF CacheInv, CutIsDropped, Alone
  <2>4. Held(s, place[s], holds[s])'
    <3>1. slot' = slot /\ entries' = entries /\ slot \in Entries /\ entries[slot] # "unmade"
      BY <1>1, <1>3, <2>1
    <3> QED BY <1>2, <3>1 DEF Held
  <2> QED BY <1>2, <2>1, <2>2, <2>3, <2>4, OneShares DEF Onward
<1>4. CASE slot = 0
  <2>1. /\ slot' \in Entries /\ entries[slot'] = "unmade"
        /\ entries' = [entries EXCEPT ![slot'] = "made"]
    BY <1>4 DEF Finds, Entries
  <2>2. \A e \in Entries : entries'[e] = IF e = slot' THEN "made" ELSE entries[e]
    BY <1>1, <2>1
  <2>3. CacheIs'
    <3>1. slot' \in 0 .. MaxEntries
      BY <1>1, <2>1 DEF Entries
    <3>2. entries' \in [Entries -> {"unmade", "made", "compiling"} \cup Compiled]
      BY <1>1, <2>1
    <3>3. \A e \in Entries \ {slot'} : entries'[e] \in {"unmade", "broken", "cut"}
      BY <1>1, <1>4, <2>2 DEF Entries
    <3> QED BY <2>1, <2>2, <3>1, <3>2, <3>3 DEF CacheIs
  <2>4. Held(s, place[s], holds[s])' /\ CutIsDropped'
    BY <1>2, <2>1, <2>2 DEF Held, CutIsDropped
  <2>5. \A e \in Entries : Onward(entries[e], entries'[e])
    BY <2>1, <2>2 DEF Onward
  <2>6. \A r \in Seats \ {s} : place[r] = "compiling" => entries'[holds[r]] = entries[holds[r]]
    BY <2>1, <2>2 DEF CacheInv, Held, Sharing
  <2> QED BY <1>2, <2>3, <2>4, <2>5, <2>6, OneShares
<1> QED BY <1>3, <1>4

\* The entry a seat has in hand, which is the key's while it is in the making.
LEMMA InTheMaking ==
    ASSUME CacheInv, NEW s \in Seats, place[s] \in Sharing, entries[holds[s]] \in {"made", "compiling"}
    PROVE  holds[s] \in Entries /\ holds[s] = slot
BY DEF CacheInv, CacheIs, Held

LEMMA CompilesKeeps == ASSUME CacheInv, SeatsAre, NEW s \in Seats, Alone(s), Compiles(s) PROVE CacheInv'
<1> DEFINE h == holds[s]
<1>1. /\ place[s] = "waiting" /\ place'[s] = "compiling" /\ holds'[s] = h /\ entries[h] = "made"
      /\ entries' = [entries EXCEPT ![h] = "compiling"] /\ UNCHANGED <<ctx, slot>>
  BY DEF Compiles, GoesTo, SeatsAre, ctxVars
<1>2. h \in Entries /\ h = slot
  BY <1>1, InTheMaking DEF Sharing
<1>3. \A e \in Entries : entries'[e] = IF e = h THEN "compiling" ELSE entries[e]
  BY <1>1, <1>2 DEF CacheInv, CacheIs
<1>4. CacheIs'
  <2>1. entries' \in [Entries -> {"unmade", "made", "compiling"} \cup Compiled]
    BY <1>1 DEF CacheInv, CacheIs
  <2> QED BY <1>1, <1>2, <1>3, <2>1 DEF CacheInv, CacheIs
<1>5. Held(s, place[s], holds[s])' /\ CutIsDropped'
  BY <1>1, <1>2, <1>3 DEF Held, CutIsDropped
<1>6. \A e \in Entries : Onward(entries[e], entries'[e])
  BY <1>1, <1>3 DEF Onward
<1>7. ASSUME NEW r \in Seats, place[r] = "compiling"
      PROVE  FALSE
  <2>1. entries[holds[r]] = "compiling"
    BY <1>7 DEF CacheInv, Held
  <2>2. holds[r] = slot
    BY <1>7, <2>1, InTheMaking DEF Sharing
  <2> QED BY <1>1, <1>2, <2>1, <2>2
<1> QED BY <1>1, <1>4, <1>5, <1>6, <1>7, OneShares

LEMMA CompileEndsKeeps == ASSUME CacheInv, SeatsAre, NEW s \in Seats, Alone(s), CompileEnds(s) PROVE CacheInv'
<1> DEFINE h == holds[s]
<1>1. PICK how \in Compiled : (how = "cut" => ctx[s] = "dead") /\ entries' = [entries EXCEPT ![h] = how]
  BY DEF CompileEnds, Compiled
<1>2. /\ place[s] = "compiling" /\ place'[s] = "served" /\ holds'[s] = h /\ UNCHANGED <<ctx, slot>>
  BY DEF CompileEnds, GoesTo, SeatsAre, ctxVars
<1>3. entries[h] = "compiling"
  BY <1>2 DEF CacheInv, Held
<1>4. h \in Entries /\ h = slot
  BY <1>2, <1>3, InTheMaking DEF Sharing
<1>5. \A e \in Entries : entries'[e] = IF e = h THEN how ELSE entries[e]
  BY <1>1, <1>4 DEF CacheInv, CacheIs
<1>6. CacheIs'
  <2>1. entries' \in [Entries -> {"unmade", "made", "compiling"} \cup Compiled]
    BY <1>1 DEF CacheInv, CacheIs
  <2>2. how # "unmade"
    BY <1>1 DEF Compiled
  <2> QED BY <1>2, <1>4, <1>5, <2>1, <2>2 DEF CacheInv, CacheIs
<1>7. Held(s, place[s], holds[s])'
  BY <1>2, <1>4, <1>5 DEF Held, Compiled
<1>8. CutIsDropped'
  BY <1>1, <1>2, <1>4, <1>5 DEF CutIsDropped
<1>9. \A e \in Entries : Onward(entries[e], entries'[e])
  BY <1>3, <1>5 DEF Onward
<1>10. \A r \in Seats \ {s} : place[r] # "compiling"
  BY <1>2 DEF CacheInv, OneCompiles
<1> QED BY <1>2, <1>6, <1>7, <1>8, <1>9, <1>10, OneShares

LEMMA WaitsKeeps == ASSUME CacheInv, SeatsAre, NEW s \in Seats, Alone(s), Waits(s) PROVE CacheInv'
<1>1. /\ place[s] = "waiting" /\ place'[s] = "served" /\ entries[holds[s]] \in Compiled
      /\ UNCHANGED <<ctx, entries, slot, holds>>
  BY DEF Waits, GoesTo, SeatsAre, Compiled, cacheVars, ctxVars
<1>2. CacheIs' /\ Held(s, place[s], holds[s])'
  BY <1>1 DEF CacheInv, CacheIs, Held, Sharing, Compiled
<1>3. CutIsDropped'
  BY <1>1 DEF CacheInv, CutIsDropped, Alone
<1> QED BY <1>1, <1>2, <1>3, OneShares DEF Onward

LEMMA DropsKeeps == ASSUME CacheInv, SeatsAre, NEW s \in Seats, Alone(s), Drops(s) PROVE CacheInv'
<1>1. /\ place[s] = "served" /\ place'[s] = "bound" /\ UNCHANGED <<ctx, entries, holds>>
      /\ slot' = IF entries[holds[s]] # "built" /\ ctx[s] = "dead" /\ slot = holds[s] THEN 0 ELSE slot
  BY DEF Drops, GoesTo, SeatsAre, ctxVars
<1>2. holds[s] \in Entries /\ entries[holds[s]] \in Compiled
  BY <1>1 DEF CacheInv, Held, Sharing
<1>3. CacheIs'
  <2>1. slot' \in 0 .. MaxEntries /\ (slot' # 0 => slot' = slot)
    BY <1>1, NotATest DEF CacheInv, CacheIs
  <2>2. \A e \in Entries \ {slot'} : entries[e] \in {"unmade", "broken", "cut"}
    BY <1>1, <1>2 DEF CacheInv, CacheIs, Compiled
  <2> QED BY <1>1, <2>1, <2>2 DEF CacheInv, CacheIs
<1>4. Held(s, place[s], holds[s])'
  BY <1>1 DEF Held, Sharing
<1>5. CutIsDropped'
  <2>1. SUFFICES ASSUME slot' # 0, entries[slot'] = "cut"
                 PROVE  \E r \in Seats : place'[r] = "served" /\ holds'[r] = slot' /\ ctx'[r] = "dead"
    BY <1>1 DEF CutIsDropped
  <2>2. slot' = slot
    BY <1>1, <2>1
  <2>3. PICK r \in Seats : place[r] = "served" /\ holds[r] = slot /\ ctx[r] = "dead"
    BY <2>1, <2>2 DEF CacheInv, CutIsDropped
  <2>4. r # s
    BY <1>1, <2>1, <2>2, <2>3
  <2> QED BY <1>1, <2>2, <2>3, <2>4 DEF Alone
<1> QED BY <1>1, <1>3, <1>4, <1>5, OneShares DEF Onward

LEMMA SharesKeeps ==
    ASSUME CacheInv, SeatsAre, NEW s \in Seats, Alone(s), Shares(s)
    PROVE  CacheInv'
BY FindsKeeps, CompilesKeeps, CompileEndsKeeps, WaitsKeeps, DropsKeeps DEF Shares

------------------------------------------------------------------------------
(* Verdicts and the cache, whoever asks.                                   *)

OracleInv == SeatsAre /\ CacheInv /\ \A s \in Seats : Earned(s)

LEMMA OracleInitSound == OracleInit => OracleInv
<1> SUFFICES ASSUME OracleInit
             PROVE  OracleInv
  OBVIOUS
<1>1. SeatsAre /\ \A s \in Seats : Earned(s)
  BY DEF OracleInit, SeatsAre, Earned
<1>2. CacheInv
  BY NotATest DEF OracleInit, CacheInv, CacheIs, OneCompiles, CutIsDropped, Held, Sharing, Entries
<1> QED BY <1>1, <1>2 DEF OracleInv

LEMMA SeatStepKeeps == ASSUME OracleInv, NEW s \in Seats, SeatStep(s) PROVE OracleInv'
<1>1. SeatsAre /\ CacheInv /\ Earned(s)
  BY DEF OracleInv
<1>2. Alone(s) /\ Earned(s)'
  BY <1>1, OuterAlone, ClassifiesAlone, BeginsAlone, SharesAlone, CallerDiesAlone DEF SeatStep
<1>3. CacheInv'
  <2>1. CASE Shares(s)
    BY <1>1, <1>2, <2>1, SharesKeeps
  <2>2. CASE CallerDies(s)
    BY <1>1, <1>2, <2>2, CallerDiesAlone, CallerDiesKeeps
  <2>3. CASE Outer(s) \/ Classifies(s) \/ Begins(s)
    <3>1. Outside(s)
      BY <1>1, <2>3, OuterAlone, ClassifiesAlone, BeginsAlone
    <3> QED BY <1>1, <1>2, <3>1, OutsideKeeps
  <2> QED BY <2>1, <2>2, <2>3 DEF SeatStep
<1>4. ASSUME NEW r \in Seats
      PROVE  Earned(r)'
  <2>1. CASE r # s
    BY <1>2, <2>1 DEF OracleInv, Earned, Alone, Fits
  <2> QED BY <1>2, <2>1
<1> QED BY <1>2, <1>3, <1>4 DEF OracleInv, Alone

LEMMA OracleRests == ASSUME OracleInv, UNCHANGED oracleVars PROVE OracleInv'
BY DEF OracleInv, oracleVars, ctxVars, seatVars, probeVars, cacheVars, SeatsAre, CacheInv, CacheIs,
       OneCompiles, CutIsDropped, Held, Earned, Fits

\* Whoever acts, it is one seat's step or none.
LEMMA ProbeStepIsOne ==
    ASSUME NEW p \in Probes, Requests(p) \/ ProbeStep(p)
    PROVE  SeatStep(p) \/ UNCHANGED oracleVars
<1>1. CASE Requests(p) \/ Prepares(p) \/ IsUnfit(p) \/ Concludes(p) \/ Tells(p) \/ Builds(p) \/ Attests(p) \/ AttestFails(p)
  BY <1>1 DEF Requests, Prepares, IsUnfit, Concludes, Tells, Builds, Attests, AttestFails
<1>2. CASE LooksFirst(p) \/ LooksAgain(p) \/ RunsMutant(p)
  BY <1>2 DEF LooksFirst, LooksAgain, RunsMutant, SeatStep, Outer
<1>3. CASE RetriesBaseline(p) \/ BaselineFails(p) \/ BaselineStands(p) \/ RetriesRun(p) \/ RunFails(p) \/ RunCounts(p)
  BY <1>3 DEF RetriesBaseline, BaselineFails, BaselineStands, RetriesRun, RunFails, RunCounts, SeatStep, Outer
<1> QED BY <1>1, <1>2, <1>3 DEF ProbeStep

LEMMA WorksIsOne == ASSUME NEW s \in Seats, Works(s) PROVE SeatStep(s)
BY DEF Works, CacheStep, MutantStep, BaselineStep, SeatStep, Outer, Classifies, Begins, Shares

LEMMA ExecutesIsOne ==
    EphemeralNext => (\E s \in Seats : SeatStep(s)) \/ UNCHANGED oracleVars
<1> SUFFICES ASSUME EphemeralNext
             PROVE  (\E s \in Seats : SeatStep(s)) \/ UNCHANGED oracleVars
  OBVIOUS
<1>1. ASSUME NEW p \in Probes, Requests(p) \/ ProbeStep(p)
      PROVE  (\E s \in Seats : SeatStep(s)) \/ UNCHANGED oracleVars
  BY <1>1, ProbeStepIsOne, EphemeralAssumption
<1>2. ASSUME NEW s \in Seats, SeatWorks(s) \/ SeatExpires(s) \/ IsCut(s) \/ WorkerAsks(s) \/ WorkerTakes(s)
      PROVE  SeatStep(s)
  <2>1. CASE SeatWorks(s)
    BY <2>1, WorksIsOne DEF SeatWorks
  <2>2. CASE SeatExpires(s) \/ IsCut(s) \/ WorkerTakes(s)
    BY <2>2 DEF SeatExpires, IsCut, WorkerTakes, SeatStep, Outer
  <2>3. CASE WorkerAsks(s)
    <3>1. AsksMutant(s) \/ Asks(s)
      BY <2>3 DEF WorkerAsks
    <3> QED BY <3>1 DEF Asks, SeatStep, Outer
  <2> QED BY <1>2, <2>1, <2>2, <2>3
<1>3. CASE RivalAttests \/ RecordBreaks \/ VerbReads \/ VerbWrites
  BY <1>3 DEF RivalAttests, RecordBreaks, VerbReads, VerbWrites
<1> QED BY <1>1, <1>2, <1>3 DEF EphemeralNext

LEMMA ExecutesKeepsOracle ==
    ASSUME OracleInv, EphemeralNext \/ UNCHANGED ephemeralVars
    PROVE  OracleInv'
<1>1. CASE EphemeralNext
  BY <1>1, ExecutesIsOne, SeatStepKeeps, OracleRests
<1>2. CASE UNCHANGED ephemeralVars
  BY <1>2, OracleRests DEF ephemeralVars
<1> QED BY <1>1, <1>2

LEMMA OracleInvIsSound == OracleInv => SchemaCompiledOnce /\ VerdictsAreEarned
<1> SUFFICES ASSUME OracleInv
             PROVE  SchemaCompiledOnce /\ VerdictsAreEarned
  OBVIOUS
<1>1. VerdictsAreEarned
  BY DEF OracleInv, Earned, Fits, VerdictsAreEarned
<1>2. ASSUME \A s \in Seats : place[s] \notin {"waiting", "compiling", "served"}, slot # 0
      PROVE  entries[slot] # "cut"
  BY <1>2 DEF OracleInv, CacheInv, CutIsDropped
<1>3. {e \in Entries : entries[e] = "built"} \subseteq {slot}
  BY DEF OracleInv, CacheInv, CacheIs
<1>4. Cardinality({e \in Entries : entries[e] = "built"}) <= 1
  <2>1. IsFiniteSet({slot}) /\ Cardinality({slot}) = 1
    BY FS_Singleton
  <2>2. /\ IsFiniteSet({e \in Entries : entries[e] = "built"})
        /\ Cardinality({e \in Entries : entries[e] = "built"}) <= Cardinality({slot})
    BY <1>3, <2>1, FS_Subset
  <2> QED BY <2>1, <2>2
<1> QED BY <1>1, <1>2, <1>4 DEF SchemaCompiledOnce, Entries

------------------------------------------------------------------------------
(* The reviewed record.                                                    *)

IsRow(row) == row = [canon |-> row.canon, raw |-> row.raw, by |-> row.by, on |-> row.on]

NamesOnce(rows) ==
    /\ \A row \in rows : IsRow(row)
    /\ \A row, other \in rows :
           row # other => row.raw # other.raw /\ (row.canon = other.canon => row.canon = NoDigest)

ReviewInv == NamesOnce(record) /\ (held.verb # None => NamesOnce(held.rows))

LEMMA ReviewInitSound == EphemeralInit => ReviewInv
<1> SUFFICES ASSUME EphemeralInit
             PROVE  ReviewInv
  OBVIOUS
<1>1. record \in Records \cup {{}} /\ held = [verb |-> None]
  BY DEF EphemeralInit
<1>2. ASSUME record \in Records, NEW row \in record
      PROVE  IsRow(row)
  <2>1. PICK canon, raw, by : row = Row(canon, raw, by)
    BY <1>2, RecordsAssumption
  <2> QED BY <2>1 DEF IsRow, Row
<1>3. NamesOnce(record)
  BY <1>1, <1>2, RecordsAssumption DEF NamesOnce
<1> QED BY <1>1, <1>3 DEF ReviewInv

LEMMA SupersededOnce ==
    ASSUME NamesOnce(record), NEW row, IsRow(row)
    PROVE  NamesOnce(Superseded(row))
BY DEF NamesOnce, Superseded, Matches

LEMMA RowIs == ASSUME NEW canon, NEW raw, NEW by PROVE IsRow(Row(canon, raw, by))
BY DEF IsRow, Row

\* A retarget changes no name.
LEMMA RetargetedOnce ==
    ASSUME NamesOnce(record), NEW rows \in SUBSET record
    PROVE  NamesOnce((record \ rows) \cup {[row EXCEPT !.on = "there"] : row \in rows})
<1> DEFINE Moved(row) == [row EXCEPT !.on = "there"]
           after == (record \ rows) \cup {Moved(row) : row \in rows}
<1>1. ASSUME NEW row \in record
      PROVE  IsRow(Moved(row)) /\ Moved(row).raw = row.raw /\ Moved(row).canon = row.canon
  <2>1. IsRow(row)
    BY DEF NamesOnce
  <2>2. PICK a, b, d, n : row = [canon |-> a, raw |-> b, by |-> d, on |-> n]
    BY <2>1 DEF IsRow
  <2>3. Moved(row) = [canon |-> a, raw |-> b, by |-> d, on |-> "there"]
    BY <2>2
  <2> QED BY <2>2, <2>3 DEF IsRow
<1> HIDE DEF Moved
<1>2. ASSUME NEW x \in after
      PROVE  \E row \in record : /\ x.raw = row.raw /\ x.canon = row.canon /\ IsRow(x)
                                 /\ x = IF row \in rows THEN Moved(row) ELSE row
  BY <1>1 DEF NamesOnce
<1>3. ASSUME NEW x \in after, NEW y \in after, x # y
      PROVE  x.raw # y.raw /\ (x.canon = y.canon => x.canon = NoDigest)
  <2>1. PICK r \in record : x.raw = r.raw /\ x.canon = r.canon /\ x = IF r \in rows THEN Moved(r) ELSE r
    BY <1>2
  <2>2. PICK q \in record : y.raw = q.raw /\ y.canon = q.canon /\ y = IF q \in rows THEN Moved(q) ELSE q
    BY <1>2
  <2>3. r # q
    BY <1>3, <2>1, <2>2
  <2> QED BY <2>1, <2>2, <2>3 DEF NamesOnce
<1>4. NamesOnce(after)
  BY <1>2, <1>3 DEF NamesOnce
<1> QED BY <1>4 DEF Moved

LEMMA WritesKeep ==
    ASSUME ReviewInv, NEW canon, NEW raw, NEW by, NEW replaces,
           Writes(Row(canon, raw, by), replaces), UNCHANGED held
    PROVE  ReviewInv'
<1>1. PICK row : row = Row(canon, raw, by)
  OBVIOUS
<1>2. NamesOnce(Superseded(row))
  BY <1>1, RowIs, SupersededOnce DEF ReviewInv
<1>3. record' = Superseded(row)
  BY <1>1 DEF Writes
<1> QED BY <1>2, <1>3 DEF ReviewInv, NamesOnce, IsRow

LEMMA ReviewRests == ASSUME ReviewInv, UNCHANGED <<record, held>> PROVE ReviewInv'
BY DEF ReviewInv, NamesOnce, IsRow

LEMMA VerbReadsKeeps == ASSUME ReviewInv, VerbReads PROVE ReviewInv'
<1>1. PICK rows \in SUBSET record :
          held' \in {[verb |-> "prune", dropped |-> rows, rows |-> record \ rows],
                    [verb |-> "retarget", dropped |-> rows,
                     rows |-> (record \ rows) \cup {[row EXCEPT !.on = "there"] : row \in rows}]}
  BY DEF VerbReads
<1>2. NamesOnce(record) /\ UNCHANGED record
  BY DEF ReviewInv, VerbReads
<1>3. NamesOnce(record \ rows)
  BY <1>2 DEF NamesOnce
<1>4. NamesOnce((record \ rows) \cup {[row EXCEPT !.on = "there"] : row \in rows})
  BY <1>2, RetargetedOnce
<1>5. NamesOnce(held'.rows)
  <2>1. \/ held'.rows = record \ rows
        \/ held'.rows = (record \ rows) \cup {[row EXCEPT !.on = "there"] : row \in rows}
    BY <1>1
  <2> QED BY <1>3, <1>4, <2>1
<1> QED BY <1>2, <1>5 DEF ReviewInv, NamesOnce, IsRow

LEMMA ExecutesKeepsReview ==
    ASSUME ReviewInv, EphemeralNext \/ UNCHANGED ephemeralVars
    PROVE  ReviewInv'
<1>1. ASSUME NEW p \in Probes, Attests(p)
      PROVE  ReviewInv'
  BY <1>1, WritesKeep DEF Attests
<1>2. ASSUME NEW p \in Probes, Requests(p) \/ ProbeStep(p), ~Attests(p)
      PROVE  UNCHANGED <<record, held>>
  <2>1. CASE \/ Requests(p) \/ Prepares(p) \/ IsUnfit(p) \/ LooksFirst(p) \/ LooksAgain(p) \/ RetriesBaseline(p)
             \/ BaselineFails(p) \/ BaselineStands(p)
    BY <2>1 DEF Requests, Prepares, IsUnfit, LooksFirst, LooksAgain, RetriesBaseline, BaselineFails,
                BaselineStands, reviewVars
  <2>2. CASE \/ RunsMutant(p) \/ RetriesRun(p) \/ RunFails(p) \/ RunCounts(p) \/ Concludes(p) \/ Tells(p)
             \/ Builds(p) \/ AttestFails(p)
    BY <2>2 DEF RunsMutant, RetriesRun, RunFails, RunCounts, Concludes, Tells, Builds, AttestFails, reviewVars
  <2> QED BY <1>2, <2>1, <2>2 DEF ProbeStep
<1>3. ASSUME NEW s \in Seats, SeatWorks(s) \/ SeatExpires(s) \/ IsCut(s) \/ WorkerAsks(s) \/ WorkerTakes(s)
      PROVE  UNCHANGED <<record, held>>
  BY <1>3 DEF SeatWorks, SeatExpires, IsCut, WorkerAsks, WorkerTakes, reviewVars
<1>4. CASE RivalAttests
  BY <1>4, WritesKeep DEF RivalAttests
<1>5. CASE RecordBreaks
  BY <1>5, ReviewRests DEF RecordBreaks
<1>6. CASE VerbReads
  BY <1>6, VerbReadsKeeps
<1>7. CASE VerbWrites
  BY <1>7 DEF VerbWrites, ReviewInv, NamesOnce, IsRow, None
<1>8. CASE UNCHANGED ephemeralVars
  BY <1>8, ReviewRests DEF ephemeralVars, reviewVars
<1> QED BY <1>1, <1>2, <1>3, <1>4, <1>5, <1>6, <1>7, <1>8, ReviewRests DEF EphemeralNext

\* A write that may not replace finds no row to take away.
LEMMA AttestsKeepsRows ==
    ASSUME ReviewInv, NEW p \in Probes, Attests(p), ~request[p].replaces
    PROVE  record \subseteq record'
<1> DEFINE row == Row(Canonical(p), request[p].raw, p)
<1>1. Standing(row.canon, row.raw) = NoRow /\ record' = Superseded(row)
  BY DEF Attests, Writes
<1> HIDE DEF row
<1>2. ASSUME NEW old \in record
      PROVE  old # NoRow
  <2>1. IsRow(old)
    BY DEF ReviewInv, NamesOnce
  <2>2. "raw" \in DOMAIN old
    BY <2>1 DEF IsRow
  <2>3. "raw" \notin DOMAIN NoRow
    BY DEF NoRow
  <2> QED BY <2>2, <2>3
<1>3. ASSUME NEW old \in record, Matches(old, row.canon, row.raw)
      PROVE  FALSE
  <2> DEFINE exact == {r \in record : r.canon = row.canon}
             spelt == {r \in record : r.raw = row.raw}
  <2>1. exact # {} \/ spelt # {}
    BY <1>3 DEF Matches
  <2>2. Standing(row.canon, row.raw) \in record
    BY <2>1 DEF Standing
  <2> QED BY <1>1, <1>2, <2>2
<1> QED BY <1>1, <1>3 DEF Superseded

------------------------------------------------------------------------------
(* The narrowing of an oracle.  The graph is the build's, which stays.     *)

LEMMA CanonicalStays == ASSUME UNCHANGED build PROVE \A o : CanonicalObj(o)' = CanonicalObj(o)
BY DEF CanonicalObj

LEMMA SameStays == ASSUME UNCHANGED build PROVE \A o : Same(o)' = Same(o)
BY CanonicalStays DEF Same

LEMMA AdjacentStays == ASSUME UNCHANGED build PROVE \A n : Adjacent(n)' = Adjacent(n)
BY DEF Adjacent, Object, CollectNodeUses, EdgesTo, ExtInterfaces, PackageAny, AnyProtocol, InTree, Same,
       CanonicalObj

LEMMA NodeTypesStay == ASSUME UNCHANGED build PROVE \A n : NodeTypes(n)' = NodeTypes(n)
<1> TAKE n
<1>1. Same(n[2])' = Same(n[2])
  BY SameStays
<1>2. NodeTypes(n)' = IF n[1] = "any" THEN {} ELSE UNION {build.mentions[c] : c \in Same(n[2])}
  BY <1>1 DEF NodeTypes
<1> QED BY <1>2 DEF NodeTypes

LEMMA PkgInitsStay == ASSUME UNCHANGED build PROVE \A p : PkgInits(p)' = PkgInits(p)
BY AdjacentStays, CanonicalStays DEF PkgInits, Object

LEMMA InitsStay == ASSUME UNCHANGED build PROVE \A n : InitsOf(n)' = InitsOf(n)
BY PkgInitsStay DEF InitsOf

LEMMA MethodsStay ==
    ASSUME UNCHANGED build
    PROVE  /\ \A n, tk : IfaceImpls(n, tk)' = IfaceImpls(n, tk)
           /\ \A tk : AnyByType(tk)' = AnyByType(tk)
           /\ \A n : IsInterface(n)' = IsInterface(n)
<1>1. \A n, tk : IfaceImpls(n, tk)' = IfaceImpls(n, tk)
  BY CanonicalStays DEF IfaceImpls, Object
<1>2. \A tk : AnyByType(tk)' = AnyByType(tk)
  BY CanonicalStays DEF AnyByType, Object
<1>3. \A n : IsInterface(n)' = IsInterface(n)
  BY DEF IsInterface
<1> QED BY <1>1, <1>2, <1>3

LEMMA ClosedStays == ASSUME UNCHANGED build PROVE \A nodes : Closed(nodes)' = Closed(nodes)
<1> TAKE nodes
<1>1. (UNION {NodeTypes(n) : n \in nodes})' = UNION {NodeTypes(n) : n \in nodes}
  BY NodeTypesStay
<1> QED BY AdjacentStays, InitsStay, MethodsStay, <1>1 DEF Closed, AnyProtocol

LEMMA NodesStay == ASSUME UNCHANGED build PROVE Nodes' = Nodes
BY CanonicalStays DEF Nodes, Object, AnyProtocol, PackageAny

\* Where a walk for a package's symbols begins.
RootsFrom(test, pkg) ==
    {Object(CanonicalObj(o)) : o \in Objects(test)} \cup PkgInits(PackageOf(test)) \cup PkgInits(pkg)

LEMMA RootsAre == \A test, target : Roots(test, target) = RootsFrom(test, PackageOf(target))
BY DEF Roots, RootsFrom

LEMMA RootsStay ==
    ASSUME UNCHANGED build
    PROVE  /\ \A test, pkg : RootsFrom(test, pkg)' = RootsFrom(test, pkg)
           /\ \A test, target : Roots(test, target)' = Roots(test, target)
<1>1. \A test : {Object(CanonicalObj(o)) : o \in Objects(test)}' = {Object(CanonicalObj(o)) : o \in Objects(test)}
  BY CanonicalStays DEF Objects, Object
<1>2. \A test, pkg : RootsFrom(test, pkg)' = RootsFrom(test, pkg)
  BY <1>1, PkgInitsStay DEF RootsFrom, PackageOf
<1>3. \A test, target : Roots(test, target)' = Roots(test, target)
  BY <1>1, PkgInitsStay DEF Roots, PackageOf
<1> QED BY <1>2, <1>3

IsReflective(n) == n[1] = "object" /\ n[2] \in build.reflects

Spans(nodes, roots) == roots \subseteq nodes /\ Closed(nodes)

\* A walk's result: the least closed set from its roots.
IsClosure(closure, roots) ==
    /\ closure.visited \in SUBSET Nodes /\ Spans(closure.visited, roots)
    /\ \A nodes \in SUBSET Nodes : Spans(nodes, roots) => closure.visited \subseteq nodes
    /\ closure.reflective <=> \E n \in closure.visited : IsReflective(n)

\* A walk under way: its roots are in what it has met, which is in every
\* closed set of them; what has left the queue has brought in all it leads to.
Met(w, roots) ==
    /\ roots \subseteq w.visited /\ w.queue \subseteq w.visited
    /\ \A nodes \in SUBSET Nodes : Spans(nodes, roots) => w.visited \subseteq nodes

Brought(w) ==
    LET turned == w.visited \ w.queue
    IN /\ w.types = UNION {NodeTypes(n) : n \in turned}
       /\ w.ifaces = {n \in turned : IsInterface(n)}
       /\ w.any <=> AnyProtocol \in turned
       /\ w.reflective <=> \E n \in turned : IsReflective(n)
       /\ \A n \in turned : Adjacent(n) \cup InitsOf(n) \subseteq w.visited
       /\ \A n \in w.ifaces, tk \in w.types : IfaceImpls(n, tk) \subseteq w.visited
       /\ w.any => \A tk \in w.types : AnyByType(tk) \subseteq w.visited

IsWalk(w) == w = [is |-> "walking", test |-> w.test, queue |-> w.queue, visited |-> w.visited,
                  types |-> w.types, ifaces |-> w.ifaces, any |-> w.any, reflective |-> w.reflective]

IsScoping(t) == t = [is |-> "scoping", target |-> t.target, left |-> t.left, reached |-> t.reached]

Walked(w, t) ==
    w.is = "walking" =>
        /\ IsWalk(w) /\ t.is = "scoping" /\ w.test \in t.left /\ ~Unjudged(w.test, t.target)
        /\ Met(w, Roots(w.test, t.target)) /\ Brought(w)

ScopedWell(t) ==
    t.is = "scoping" =>
        /\ IsScoping(t) /\ t.target \in build.targets /\ t.left \subseteq build.tests
        /\ t.reached = {test \in build.tests \ t.left : MayRun(test, t.target)}

NarrowedWell(t) ==
    t.is = "narrowed" => t.oracle = Narrowed({test \in build.tests : MayRun(test, t.target)}, t.target)

ReachInv ==
    /\ build \in LoadedBuilds
    /\ task = [a \in Askers |-> task[a]] /\ walk = [a \in Askers |-> walk[a]]
    /\ \A k \in DOMAIN closures : IsClosure(closures[k], RootsFrom(k[1], k[2]))
    /\ \A a \in Askers : ScopedWell(task[a]) /\ NarrowedWell(task[a]) /\ Walked(walk[a], task[a])

LEMMA BuildIs ==
    ASSUME build \in LoadedBuilds
    PROVE  /\ \A o \in build.objects :
                  /\ build.uses[o] \subseteq build.objects
                  /\ \A tk \in build.mentions[o] : build.methods[tk] \subseteq build.objects
                  /\ build.speaks[o] \subseteq build.objects \cup {"any", "error"}
                  /\ "any" \in build.speaks[o] => build.home[o] \in DOMAIN build.interfaces
           /\ \A p \in DOMAIN build.interfaces : build.interfaces[p] \subseteq build.objects
           /\ \A s \in build.tests \cup build.targets : build.symbols[s].objects \subseteq build.objects
BY ReachAssumption

LEMMA CanonicalIs == ASSUME NEW o \in build.objects PROVE CanonicalObj(o) \in build.objects
BY DEF CanonicalObj

LEMMA ObjectsAreNodes ==
    /\ \A o \in build.objects : Object(CanonicalObj(o)) \in Nodes
    /\ \A p \in DOMAIN build.interfaces : PackageAny(p) \in Nodes
    /\ AnyProtocol \in Nodes
BY DEF Nodes

LEMMA ExtInterfacesAreNodes ==
    ASSUME build \in LoadedBuilds, NEW o \in build.objects
    PROVE  ExtInterfaces(o) \subseteq Nodes
<1>1. \A m \in build.speaks[o] \ {"any", "error"} : Object(CanonicalObj(m)) \in Nodes
  BY BuildIs, ObjectsAreNodes
<1>2. "any" \in build.speaks[o] => PackageAny(build.home[o]) \in Nodes
  BY BuildIs, ObjectsAreNodes
<1> QED BY <1>1, <1>2, ObjectsAreNodes DEF ExtInterfaces

LEMMA UsesAreNodes ==
    ASSUME build \in LoadedBuilds, NEW o \in build.objects
    PROVE  CollectNodeUses(o) \subseteq Nodes
<1>1. ASSUME NEW u \in build.objects
      PROVE  EdgesTo(u) \subseteq Nodes
  BY ExtInterfacesAreNodes, ObjectsAreNodes DEF EdgesTo
<1>2. UNION {build.uses[c] : c \in Same(o)} \subseteq build.objects
  BY BuildIs DEF Same
<1> QED BY <1>1, <1>2 DEF CollectNodeUses

LEMMA NodeIs ==
    ASSUME NEW n \in Nodes
    PROVE  \/ n[1] = "object" /\ n[2] \in build.objects
           \/ n = AnyProtocol /\ n[1] = "any"
           \/ \E p \in DOMAIN build.interfaces : n = PackageAny(p) /\ n[1] = "any" /\ n[2] = p
BY CanonicalIs DEF Nodes, Object, AnyProtocol, PackageAny

LEMMA PkgInitsAreNodes == \A p : PkgInits(p) \subseteq Nodes
BY ObjectsAreNodes DEF PkgInits

LEMMA AdjacentAreNodes ==
    ASSUME build \in LoadedBuilds, NEW n \in Nodes
    PROVE  Adjacent(n) \cup InitsOf(n) \subseteq Nodes
<1>1. InitsOf(n) \subseteq Nodes
  BY PkgInitsAreNodes DEF InitsOf
<1>2. CASE n[1] = "object" /\ n[2] \in build.objects
  <2>1. n # AnyProtocol
    BY <1>2 DEF AnyProtocol
  <2> QED BY <1>1, <1>2, <2>1, UsesAreNodes, ExtInterfacesAreNodes DEF Adjacent
<1>3. CASE n = AnyProtocol
  BY <1>1, <1>3 DEF Adjacent
<1>4. ASSUME NEW p \in DOMAIN build.interfaces, n = PackageAny(p), n[1] = "any", n[2] = p
      PROVE  Adjacent(n) \subseteq Nodes
  <2>1. {Object(CanonicalObj(m)) : m \in build.interfaces[p]} \subseteq Nodes
    BY BuildIs, ObjectsAreNodes
  <2> QED BY <1>4, <2>1 DEF Adjacent
<1> QED BY <1>1, <1>2, <1>3, <1>4, NodeIs

LEMMA NodesAreClosed == ASSUME build \in LoadedBuilds PROVE Closed(Nodes)
<1>1. ASSUME NEW tk \in UNION {NodeTypes(n) : n \in Nodes}
      PROVE  build.methods[tk] \subseteq build.objects
  <2>1. PICK n \in Nodes : tk \in NodeTypes(n)
    BY <1>1
  <2>2. PICK c \in Same(n[2]) : tk \in build.mentions[c]
    BY <2>1 DEF NodeTypes
  <2> QED BY <2>2, BuildIs DEF Same
<1>2. \A n \in Nodes, tk \in UNION {NodeTypes(x) : x \in Nodes} : IfaceImpls(n, tk) \subseteq Nodes
  BY <1>1, ObjectsAreNodes DEF IfaceImpls
<1>3. \A tk \in UNION {NodeTypes(x) : x \in Nodes} : AnyByType(tk) \subseteq Nodes
  BY <1>1, ObjectsAreNodes DEF AnyByType
<1> QED BY <1>2, <1>3, AdjacentAreNodes DEF Closed

LEMMA RootsAreNodes ==
    ASSUME build \in LoadedBuilds, NEW test \in build.tests, NEW pkg
    PROVE  RootsFrom(test, pkg) \subseteq Nodes
<1>1. \A o \in Objects(test) : Object(CanonicalObj(o)) \in Nodes
  BY BuildIs, ObjectsAreNodes DEF Objects
<1> QED BY <1>1, PkgInitsAreNodes DEF RootsFrom

------------------------------------------------------------------------------
(* The walk.                                                               *)

LEMMA DispatchedIs ==
    ASSUME NEW w, NEW ifaces, NEW any, NEW fresh
    PROVE  /\ \A m \in ifaces, tk \in fresh : IfaceImpls(m, tk) \subseteq Dispatched(w, ifaces, any, fresh)
           /\ \A m \in ifaces \ w.ifaces, tk \in w.types : IfaceImpls(m, tk) \subseteq Dispatched(w, ifaces, any, fresh)
           /\ any => \A tk \in fresh : AnyByType(tk) \subseteq Dispatched(w, ifaces, any, fresh)
           /\ any /\ ~w.any => \A tk \in w.types : AnyByType(tk) \subseteq Dispatched(w, ifaces, any, fresh)
           /\ \A x \in Dispatched(w, ifaces, any, fresh) :
                  \/ \E m \in ifaces, tk \in fresh \cup w.types : x \in IfaceImpls(m, tk)
                  \/ any /\ \E tk \in fresh \cup w.types : x \in AnyByType(tk)
<1> DEFINE A == {IfaceImpls(m, tk) : m \in ifaces, tk \in fresh}
           B == {IfaceImpls(m, tk) : m \in ifaces \ w.ifaces, tk \in w.types}
           C == IF any THEN {AnyByType(tk) : tk \in fresh} ELSE {}
           D == IF any /\ ~w.any THEN {AnyByType(tk) : tk \in w.types} ELSE {}
<1>1. Dispatched(w, ifaces, any, fresh) = UNION (A \cup B \cup C \cup D)
  BY DEF Dispatched
<1>2. /\ \A m \in ifaces, tk \in fresh : IfaceImpls(m, tk) \in A
      /\ \A m \in ifaces \ w.ifaces, tk \in w.types : IfaceImpls(m, tk) \in B
      /\ any => \A tk \in fresh : AnyByType(tk) \in C
      /\ any /\ ~w.any => \A tk \in w.types : AnyByType(tk) \in D
  OBVIOUS
<1>3. /\ \A S \in A \cup B : \E m \in ifaces, tk \in fresh \cup w.types : S = IfaceImpls(m, tk)
      /\ \A S \in C \cup D : any /\ \E tk \in fresh \cup w.types : S = AnyByType(tk)
  OBVIOUS
<1> HIDE DEF A, B, C, D
<1>4. \A S \in A \cup B \cup C \cup D : S \subseteq Dispatched(w, ifaces, any, fresh)
  BY <1>1
<1>5. ASSUME NEW x \in Dispatched(w, ifaces, any, fresh)
      PROVE  \/ \E m \in ifaces, tk \in fresh \cup w.types : x \in IfaceImpls(m, tk)
             \/ any /\ \E tk \in fresh \cup w.types : x \in AnyByType(tk)
  <2>1. PICK S \in A \cup B \cup C \cup D : x \in S
    BY <1>1
  <2> QED BY <1>3, <2>1
<1> QED BY <1>2, <1>4, <1>5

\* What a turned node makes of the walk.
Turned(w, n) ==
    LET ifaces == w.ifaces \cup (IF IsInterface(n) THEN {n} ELSE {})
        any    == w.any \/ n = AnyProtocol
        fresh  == NodeTypes(n) \ w.types
        found  == (Dispatched(w, ifaces, any, fresh) \cup InitsOf(n) \cup Adjacent(n)) \ w.visited
    IN [w EXCEPT !.queue = (@ \ {n}) \cup found, !.visited = @ \cup found,
                 !.types = @ \cup fresh, !.ifaces = ifaces, !.any = any,
                 !.reflective = @ \/ (n[1] = "object" /\ n[2] \in build.reflects)]

LEMMA TurnedKeeps ==
    ASSUME NEW w, NEW roots, IsWalk(w), Met(w, roots), Brought(w), NEW n \in w.queue
    PROVE  /\ IsWalk(Turned(w, n)) /\ Turned(w, n).test = w.test
           /\ Met(Turned(w, n), roots) /\ Brought(Turned(w, n))
<1> DEFINE ifaces == w.ifaces \cup (IF IsInterface(n) THEN {n} ELSE {})
           any    == w.any \/ n = AnyProtocol
           fresh  == NodeTypes(n) \ w.types
           news   == Dispatched(w, ifaces, any, fresh) \cup InitsOf(n) \cup Adjacent(n)
           found  == news \ w.visited
           turned == w.visited \ w.queue
<1>1. PICK v : v = Turned(w, n)
  OBVIOUS
<1>2. v = [is |-> "walking", test |-> w.test, queue |-> (w.queue \ {n}) \cup found,
           visited |-> w.visited \cup found, types |-> w.types \cup fresh, ifaces |-> ifaces,
           any |-> any, reflective |-> w.reflective \/ IsReflective(n)]
  <2>1. PICK te, qu, vi, ty, ifs, an, re :
            w = [is |-> "walking", test |-> te, queue |-> qu, visited |-> vi,
                 types |-> ty, ifaces |-> ifs, any |-> an, reflective |-> re]
    BY DEF IsWalk
  <2> HIDE DEF found, fresh, ifaces, any
  <2>2. v = [w EXCEPT !.queue = (w.queue \ {n}) \cup found, !.visited = w.visited \cup found,
                 !.types = w.types \cup fresh, !.ifaces = ifaces, !.any = any,
                 !.reflective = w.reflective \/ (n[1] = "object" /\ n[2] \in build.reflects)]
    BY <1>1 DEF Turned, found, fresh, ifaces, any
  <2> QED BY <2>1, <2>2 DEF IsReflective
<1> HIDE DEF found, fresh, ifaces, any
<1>3. IsWalk(v) /\ v.test = w.test
  BY <1>2 DEF IsWalk
<1>4. /\ w.types = UNION {NodeTypes(x) : x \in turned}
      /\ w.ifaces = {x \in turned : IsInterface(x)}
      /\ w.any <=> AnyProtocol \in turned
      /\ w.reflective <=> \E x \in turned : IsReflective(x)
      /\ \A x \in turned : Adjacent(x) \cup InitsOf(x) \subseteq w.visited
      /\ \A x \in w.ifaces, tk \in w.types : IfaceImpls(x, tk) \subseteq w.visited
      /\ w.any => \A tk \in w.types : AnyByType(tk) \subseteq w.visited
  BY DEF Brought
<1>5. roots \subseteq w.visited /\ w.queue \subseteq w.visited
  BY DEF Met
<1>6. v.visited \ v.queue = turned \cup {n}
  BY <1>2, <1>5 DEF found
<1>7. news \subseteq v.visited
  BY <1>2 DEF found
<1> HIDE DEF turned
<1>8. Met(v, roots)
  <2>1. roots \subseteq v.visited /\ v.queue \subseteq v.visited
    BY <1>2, <1>5
  <2>2. ASSUME NEW nodes \in SUBSET Nodes, Spans(nodes, roots)
        PROVE  news \subseteq nodes
    <3>1. w.visited \subseteq nodes /\ n \in nodes /\ turned \subseteq nodes
      BY <1>5, <2>2 DEF Met, turned
    <3>2. fresh \cup w.types \subseteq UNION {NodeTypes(x) : x \in nodes}
      BY <1>4, <3>1 DEF fresh
    <3>3. \A m \in ifaces : m \in nodes /\ IsInterface(m)
      BY <1>4, <3>1 DEF ifaces
    <3>4. any => AnyProtocol \in nodes
      BY <1>4, <3>1 DEF any
    <3>5. /\ \A x \in nodes : Adjacent(x) \cup InitsOf(x) \subseteq nodes
          /\ \A x \in nodes, tk \in UNION {NodeTypes(y) : y \in nodes} : IsInterface(x) => IfaceImpls(x, tk) \subseteq nodes
          /\ AnyProtocol \in nodes => \A tk \in UNION {NodeTypes(y) : y \in nodes} : AnyByType(tk) \subseteq nodes
      BY <2>2 DEF Spans, Closed
    <3>6. /\ \A m \in ifaces, tk \in fresh \cup w.types : IfaceImpls(m, tk) \subseteq nodes
          /\ any => \A tk \in fresh \cup w.types : AnyByType(tk) \subseteq nodes
      BY <3>2, <3>3, <3>4, <3>5
    <3>7. Dispatched(w, ifaces, any, fresh) \subseteq nodes
      BY <3>6, DispatchedIs
    <3> QED BY <3>1, <3>5, <3>7
  <2>3. \A nodes \in SUBSET Nodes : Spans(nodes, roots) => v.visited \subseteq nodes
    BY <1>2, <2>2 DEF Met, found
  <2> QED BY <2>1, <2>3 DEF Met
<1>9. Brought(v)
  <2>1. v.types = UNION {NodeTypes(x) : x \in turned \cup {n}}
    <3>1. v.types = w.types \cup NodeTypes(n)
      BY <1>2 DEF fresh
    <3> QED BY <1>4, <3>1
  <2>2. v.ifaces = {x \in turned \cup {n} : IsInterface(x)}
    BY <1>2, <1>4 DEF ifaces
  <2>3. v.any <=> AnyProtocol \in turned \cup {n}
    BY <1>2, <1>4 DEF any
  <2>4. v.reflective <=> \E x \in turned \cup {n} : IsReflective(x)
    BY <1>2, <1>4
  <2>5. \A x \in turned \cup {n} : Adjacent(x) \cup InitsOf(x) \subseteq v.visited
    BY <1>2, <1>4, <1>7
  <2>6. ASSUME NEW m \in v.ifaces, NEW tk \in v.types
        PROVE  IfaceImpls(m, tk) \subseteq v.visited
    <3>1. m \in ifaces /\ tk \in w.types \cup fresh
      BY <1>2, <2>6
    <3>2. CASE m \in w.ifaces /\ tk \in w.types
      BY <1>2, <1>4, <3>2
    <3>3. CASE tk \in fresh
      BY <1>7, <3>1, <3>3, DispatchedIs
    <3>4. CASE m \notin w.ifaces /\ tk \in w.types
      BY <1>7, <3>1, <3>4, DispatchedIs
    <3> QED BY <3>1, <3>2, <3>3, <3>4
  <2>7. ASSUME v.any, NEW tk \in v.types
        PROVE  AnyByType(tk) \subseteq v.visited
    <3>1. any /\ tk \in w.types \cup fresh
      BY <1>2, <2>7
    <3>2. CASE w.any /\ tk \in w.types
      BY <1>2, <1>4, <3>2
    <3>3. CASE tk \in fresh
      BY <1>7, <3>1, <3>3, DispatchedIs
    <3>4. CASE ~w.any /\ tk \in w.types
      BY <1>7, <3>1, <3>4, DispatchedIs
    <3> QED BY <3>1, <3>2, <3>3, <3>4
  <2> QED BY <1>6, <2>1, <2>2, <2>3, <2>4, <2>5, <2>6, <2>7 DEF Brought
<1> QED BY <1>1, <1>3, <1>8, <1>9

\* An empty queue leaves the least closed set.
LEMMA EndedIs ==
    ASSUME build \in LoadedBuilds, NEW w, NEW roots, Met(w, roots), Brought(w), w.queue = {}, roots \subseteq Nodes
    PROVE  IsClosure([visited |-> w.visited, reflective |-> w.reflective], roots)
<1>1. w.visited \subseteq Nodes
  BY NodesAreClosed DEF Met, Spans
<1>2. w.visited \ w.queue = w.visited
  OBVIOUS
<1>3. Closed(w.visited)
  BY <1>2 DEF Brought, Closed
<1>4. w.reflective <=> \E n \in w.visited : IsReflective(n)
  BY <1>2 DEF Brought
<1> QED BY <1>1, <1>3, <1>4 DEF IsClosure, Met, Spans

\* What a closure says of a target is what the graph does.
LEMMA ReachesIsMayRun ==
    ASSUME NEW test, NEW target, ~Unjudged(test, target), NEW closure, IsClosure(closure, Roots(test, target))
    PROVE  Reaches(closure, target) <=> MayRun(test, target)
<1>1. ASSUME Reaches(closure, target), NEW nodes \in SUBSET Nodes, Spans(nodes, Roots(test, target))
      PROVE  \/ \E o \in Objects(target) : Object(CanonicalObj(o)) \in nodes
             \/ \E n \in nodes : IsReflective(n)
  <2>1. closure.visited \subseteq nodes
    BY <1>1 DEF IsClosure
  <2> QED BY <1>1, <2>1 DEF Reaches, IsClosure
<1>2. ASSUME MayRun(test, target)
      PROVE  Reaches(closure, target)
  <2>1. \/ \E o \in Objects(target) : Object(CanonicalObj(o)) \in closure.visited
        \/ \E n \in closure.visited : IsReflective(n)
    BY <1>2 DEF MayRun, IsClosure, Spans, IsReflective
  <2> QED BY <2>1 DEF Reaches, IsClosure
<1> QED BY <1>1, <1>2 DEF MayRun, Spans, IsReflective

------------------------------------------------------------------------------
(* The askers.                                                             *)

LEMMA UnjudgedStays == ASSUME UNCHANGED build PROVE \A test, target : Unjudged(test, target)' <=> Unjudged(test, target)
BY DEF Unjudged, Objects

LEMMA SpansStay == ASSUME UNCHANGED build PROVE \A nodes, roots : Spans(nodes, roots)' <=> Spans(nodes, roots)
BY ClosedStays DEF Spans

LEMMA MayRunStays == ASSUME UNCHANGED build PROVE \A test, target : MayRun(test, target)' <=> MayRun(test, target)
<1> TAKE test, target
<1>1. Roots(test, target)' = Roots(test, target)
  BY RootsStay
<1>2. \A o : Object(CanonicalObj(o))' = Object(CanonicalObj(o))
  BY CanonicalStays DEF Object
<1>3. Objects(target)' = Objects(target)
  BY DEF Objects
<1> QED BY <1>1, <1>2, <1>3, UnjudgedStays, ClosedStays, NodesStay DEF MayRun

LEMMA ClosureStays ==
    ASSUME UNCHANGED build
    PROVE  \A closure, roots : IsClosure(closure, roots)' <=> IsClosure(closure, roots)
BY SpansStay, NodesStay DEF IsClosure, IsReflective

LEMMA ClosuresStay ==
    ASSUME UNCHANGED build, NEW closure, NEW test, NEW pkg, IsClosure(closure, RootsFrom(test, pkg))
    PROVE  IsClosure(closure, RootsFrom(test, pkg))'
<1>1. PICK roots : roots = RootsFrom(test, pkg)
  OBVIOUS
<1>2. roots = RootsFrom(test, pkg)'
  BY <1>1, RootsStay
<1>3. IsClosure(closure, roots)'
  BY <1>1, ClosureStays
<1> QED BY <1>2, <1>3

LEMMA MetStays == ASSUME UNCHANGED build PROVE \A w, roots : Met(w, roots)' <=> Met(w, roots)
BY SpansStay, NodesStay DEF Met

LEMMA BroughtStays == ASSUME UNCHANGED build PROVE \A w : Brought(w)' <=> Brought(w)
<1> TAKE w
<1>1. (UNION {NodeTypes(n) : n \in w.visited \ w.queue})' = UNION {NodeTypes(n) : n \in w.visited \ w.queue}
  BY NodeTypesStay
<1>2. {n \in w.visited \ w.queue : IsInterface(n)}' = {n \in w.visited \ w.queue : IsInterface(n)}
  BY MethodsStay
<1> QED BY <1>1, <1>2, MethodsStay, AdjacentStays, InitsStay DEF Brought, IsReflective, AnyProtocol

LEMMA ScopedStays ==
    ASSUME UNCHANGED build, NEW t, ScopedWell(t), NarrowedWell(t)
    PROVE  ScopedWell(t)' /\ NarrowedWell(t)'
<1>1. ScopedWell(t)'
  BY MayRunStays DEF ScopedWell, IsScoping
<1>2. NarrowedWell(t)'
  <2>1. {test \in build.tests : MayRun(test, t.target)}' = {test \in build.tests : MayRun(test, t.target)}
    BY MayRunStays
  <2>2. \A reached : Narrowed(reached, t.target)' = Narrowed(reached, t.target)
    BY DEF Narrowed, OwnTests, PackageOf
  <2> QED BY <2>1, <2>2 DEF NarrowedWell
<1> QED BY <1>1, <1>2

LEMMA WalkedStays ==
    ASSUME UNCHANGED build, NEW w, NEW t, Walked(w, t)
    PROVE  Walked(w, t)'
<1>1. Roots(w.test, t.target)' = Roots(w.test, t.target)
  BY RootsStay
<1> QED BY <1>1, UnjudgedStays, MetStays, BroughtStays DEF Walked, IsWalk

\* Of one asker's step only what it becomes and what it leaves in the memo is
\* left to prove.
LEMMA OneAsker ==
    ASSUME ReachInv, NEW a \in Askers, NEW t, NEW w, UNCHANGED build,
           task' = [task EXCEPT ![a] = t], walk' = [walk EXCEPT ![a] = w],
           ScopedWell(t), NarrowedWell(t), Walked(w, t),
           (\A k \in DOMAIN closures : IsClosure(closures[k], RootsFrom(k[1], k[2])))'
    PROVE  ReachInv'
<1>1. /\ (build \in LoadedBuilds)'
      /\ (task = [b \in Askers |-> task[b]])' /\ (walk = [b \in Askers |-> walk[b]])'
  BY DEF ReachInv
<1>2. ASSUME NEW b \in Askers
      PROVE  (ScopedWell(task[b]) /\ NarrowedWell(task[b]) /\ Walked(walk[b], task[b]))'
  <2>1. PICK u, v : u = task'[b] /\ v = walk'[b]
    OBVIOUS
  <2>2. ScopedWell(u) /\ NarrowedWell(u) /\ Walked(v, u)
    BY <2>1 DEF ReachInv
  <2>3. ScopedWell(u)' /\ NarrowedWell(u)' /\ Walked(v, u)'
    BY <2>2, ScopedStays, WalkedStays
  <2> QED BY <2>1, <2>3
<1> QED BY <1>1, <1>2 DEF ReachInv

LEMMA MemoStays ==
    ASSUME ReachInv, UNCHANGED <<build, closures>>
    PROVE  (\A k \in DOMAIN closures : IsClosure(closures[k], RootsFrom(k[1], k[2])))'
BY ClosuresStay DEF ReachInv

LEMMA ReachInitSound == ReachInit => ReachInv
BY DEF ReachInit, ReachInv, ScopedWell, NarrowedWell, Walked, Idle, NoWalk

LEMMA ScopesKeeps == ASSUME ReachInv, NEW a \in Askers, Scopes(a) PROVE ReachInv'
<1>1. PICK target \in build.targets : task' = [task EXCEPT ![a] =
               [is |-> "scoping", target |-> target, left |-> build.tests, reached |-> {}]]
  BY DEF Scopes
<1>2. PICK t : t = [is |-> "scoping", target |-> target, left |-> build.tests, reached |-> {}]
  OBVIOUS
<1>3. UNCHANGED <<build, closures, walk>> /\ task[a].is = "idle"
  BY DEF Scopes
<1>4. ScopedWell(t) /\ NarrowedWell(t)
  BY <1>2 DEF ScopedWell, NarrowedWell, IsScoping
<1>5. walk[a].is # "walking"
  BY <1>3 DEF ReachInv, Walked
<1>6. Walked(walk[a], t) /\ walk' = [walk EXCEPT ![a] = walk[a]]
  BY <1>3, <1>5 DEF Walked, ReachInv
<1> QED BY <1>1, <1>2, <1>3, <1>4, <1>6, OneAsker, MemoStays

LEMMA Rescoped ==
    ASSUME NEW s, NEW target, NEW left, NEW reached, NEW less, NEW more, NEW v,
           s = [is |-> "scoping", target |-> target, left |-> left, reached |-> reached],
           v = [s EXCEPT !.left = less, !.reached = more]
    PROVE  v = [is |-> "scoping", target |-> target, left |-> less, reached |-> more]
OBVIOUS

\* One test judged as the graph would have it.
LEMMA JudgesKeeps ==
    ASSUME ReachInv, NEW a \in Askers, NEW test, test \in task[a].left, task[a].is = "scoping",
           NEW reaches, reaches <=> MayRun(test, task[a].target),
           Judges(a, test, reaches), UNCHANGED build,
           (\A k \in DOMAIN closures : IsClosure(closures[k], RootsFrom(k[1], k[2])))'
    PROVE  ReachInv'
<1>1. ScopedWell(task[a])
  BY DEF ReachInv
<1>2. PICK tg, lf, rc : task[a] = [is |-> "scoping", target |-> tg, left |-> lf, reached |-> rc]
  BY <1>1 DEF ScopedWell, IsScoping
<1>0. PICK left, reached : left = lf \ {test} /\ reached = IF reaches THEN rc \cup {test} ELSE rc
  OBVIOUS
<1>3. PICK t : t = [is |-> "scoping", target |-> tg, left |-> left, reached |-> reached]
  OBVIOUS
<1>4. task' = [task EXCEPT ![a] = t]
  <2>1. task' = [task EXCEPT ![a].left = task[a].left \ {test},
                             ![a].reached = IF reaches THEN task[a].reached \cup {test} ELSE task[a].reached]
    BY DEF Judges, ReachInv
  <2>2. task' = [task EXCEPT ![a].left = left, ![a].reached = reached]
    BY <1>2, <1>0, <2>1
  <2>3. PICK v : v = [task[a] EXCEPT !.left = left, !.reached = reached]
    OBVIOUS
  <2>4. v = t
    <3>1. PICK s : s = task[a]
      OBVIOUS
    <3>2. s = [is |-> "scoping", target |-> tg, left |-> lf, reached |-> rc]
      BY <1>2, <3>1
    <3>3. v = [s EXCEPT !.left = left, !.reached = reached]
      BY <2>3, <3>1
    <3>4. v = [is |-> "scoping", target |-> tg, left |-> left, reached |-> reached]
      BY ONLY <3>2, <3>3, Rescoped
    <3> QED BY <1>3, <3>4
  <2> QED BY <2>2, <2>3, <2>4 DEF ReachInv
<1>5. walk' = [walk EXCEPT ![a] = NoWalk]
  BY DEF Judges
<1>6. /\ tg \in build.targets /\ lf \subseteq build.tests /\ test \in lf
      /\ rc = {x \in build.tests \ lf : MayRun(x, tg)} /\ (reaches <=> MayRun(test, tg))
  BY <1>1, <1>2 DEF ScopedWell
<1>7. t.reached = {x \in build.tests \ t.left : MayRun(x, t.target)}
  BY <1>0, <1>3, <1>6
<1>8. ScopedWell(t) /\ NarrowedWell(t)
  BY <1>0, <1>3, <1>6, <1>7 DEF ScopedWell, IsScoping, NarrowedWell
<1>9. Walked(NoWalk, t)
  BY DEF Walked, NoWalk
<1> QED BY <1>4, <1>5, <1>8, <1>9, OneAsker

LEMMA AsksUnjudgedKeeps ==
    ASSUME ReachInv, NEW a \in Askers, NEW test \in build.tests, AsksUnjudged(a, test)
    PROVE  ReachInv'
<1>1. MayRun(test, task[a].target)
  BY DEF AsksUnjudged, MayRun
<1>2. UNCHANGED <<build, closures>> /\ test \in task[a].left /\ task[a].is = "scoping" /\ Judges(a, test, TRUE)
  BY DEF AsksUnjudged, Asking
<1> QED BY <1>1, <1>2, JudgesKeeps, MemoStays

LEMMA AsksAgainKeeps ==
    ASSUME ReachInv, NEW a \in Askers, NEW test \in build.tests, AsksAgain(a, test)
    PROVE  ReachInv'
<1> DEFINE key == Key(test, task[a].target)
<1>1. /\ UNCHANGED <<build, closures>> /\ test \in task[a].left /\ task[a].is = "scoping"
      /\ ~Unjudged(test, task[a].target) /\ key \in DOMAIN closures
      /\ Judges(a, test, Reaches(closures[key], task[a].target))
  BY DEF AsksAgain, Asking
<1>2. key[1] = test /\ key[2] = PackageOf(task[a].target)
  BY DEF Key
<1> HIDE DEF key
<1>3. IsClosure(closures[key], Roots(test, task[a].target))
  BY <1>1, <1>2, RootsAre DEF ReachInv
<1>4. Reaches(closures[key], task[a].target) <=> MayRun(test, task[a].target)
  BY <1>1, <1>3, ReachesIsMayRun
<1> QED BY <1>1, <1>4, JudgesKeeps, MemoStays

LEMMA AsksFirstKeeps ==
    ASSUME ReachInv, NEW a \in Askers, NEW test \in build.tests, AsksFirst(a, test)
    PROVE  ReachInv'
<1> DEFINE roots == Roots(test, task[a].target)
<1>1. PICK w : w = [is |-> "walking", test |-> test, queue |-> roots, visited |-> roots,
                    types |-> {}, ifaces |-> {}, any |-> FALSE, reflective |-> FALSE]
  OBVIOUS
<1>2. /\ walk' = [walk EXCEPT ![a] = w] /\ UNCHANGED <<build, closures, task>>
      /\ test \in task[a].left /\ task[a].is = "scoping" /\ ~Unjudged(test, task[a].target)
  BY <1>1 DEF AsksFirst, Asking
<1> HIDE DEF roots
<1>3. Met(w, roots)
  BY <1>1 DEF Met, Spans
<1>4. Brought(w)
  BY <1>1 DEF Brought
<1>5. Walked(w, task[a])
  BY <1>1, <1>2, <1>3, <1>4 DEF Walked, IsWalk, roots
<1>6. task' = [task EXCEPT ![a] = task[a]]
  BY <1>2 DEF ReachInv
<1> QED BY <1>2, <1>5, <1>6, OneAsker, MemoStays DEF ReachInv

LEMMA TurnsKeeps ==
    ASSUME ReachInv, NEW a \in Askers, walk[a].is = "walking", NEW n \in walk[a].queue, Turns(a, n)
    PROVE  ReachInv'
<1>1. PICK w : w = walk[a]
  OBVIOUS
<1>2. PICK v : v = Turned(w, n)
  OBVIOUS
<1>3. walk' = [walk EXCEPT ![a] = v] /\ UNCHANGED <<build, closures, task>>
  BY <1>1, <1>2 DEF Turns, Turned
<1>4. /\ IsWalk(w) /\ task[a].is = "scoping" /\ w.test \in task[a].left /\ ~Unjudged(w.test, task[a].target)
      /\ Met(w, Roots(w.test, task[a].target)) /\ Brought(w)
  BY <1>1 DEF ReachInv, Walked
<1>5. /\ IsWalk(v) /\ v.test = w.test
      /\ Met(v, Roots(w.test, task[a].target)) /\ Brought(v)
  BY <1>1, <1>2, <1>4, TurnedKeeps
<1>6. Walked(v, task[a])
  BY <1>4, <1>5 DEF Walked
<1>7. task' = [task EXCEPT ![a] = task[a]]
  BY <1>3 DEF ReachInv
<1> QED BY <1>3, <1>6, <1>7, OneAsker, MemoStays DEF ReachInv

LEMMA WalkEndsKeeps == ASSUME ReachInv, NEW a \in Askers, WalkEnds(a) PROVE ReachInv'
<1> DEFINE closure == [visited |-> walk[a].visited, reflective |-> walk[a].reflective]
           test    == walk[a].test
           key     == Key(test, task[a].target)
           roots   == Roots(test, task[a].target)
<1>1. /\ walk[a].is = "walking" /\ walk[a].queue = {} /\ UNCHANGED build
      /\ closures' = [k \in DOMAIN closures \cup {key} |-> IF k = key THEN closure ELSE closures[k]]
      /\ Judges(a, test, Reaches(closure, task[a].target))
  BY DEF WalkEnds
<1>2. /\ task[a].is = "scoping" /\ test \in task[a].left /\ ~Unjudged(test, task[a].target)
      /\ Met(walk[a], roots) /\ Brought(walk[a]) /\ build \in LoadedBuilds
  BY <1>1 DEF ReachInv, Walked
<1>3. test \in build.tests
  BY <1>2 DEF ReachInv, ScopedWell
<1>4. key[1] = test /\ key[2] = PackageOf(task[a].target) /\ roots = RootsFrom(key[1], key[2])
  BY RootsAre DEF Key
<1>5. roots \subseteq Nodes
  BY <1>2, <1>3, <1>4, RootsAreNodes
<1>6. IsClosure(closure, roots)
  BY <1>1, <1>2, <1>5, EndedIs
<1> HIDE DEF closure, key, roots, test
<1>7. Reaches(closure, task[a].target) <=> MayRun(test, task[a].target)
  BY <1>2, <1>6, ReachesIsMayRun DEF roots
<1>8. ASSUME NEW k \in DOMAIN closures'
      PROVE  IsClosure(closures[k], RootsFrom(k[1], k[2]))'
  <2>1. PICK c : c = closures'[k]
    OBVIOUS
  <2>2. IsClosure(c, RootsFrom(k[1], k[2]))
    BY <1>1, <1>4, <1>6, <2>1 DEF ReachInv
  <2> QED BY <1>1, <2>1, <2>2, ClosuresStay
<1> QED BY <1>1, <1>2, <1>7, <1>8, JudgesKeeps

LEMMA NarrowsKeeps == ASSUME ReachInv, NEW a \in Askers, Narrows(a) PROVE ReachInv'
<1>1. PICK t : t = [is |-> "narrowed", target |-> task[a].target,
                    oracle |-> Narrowed(task[a].reached, task[a].target)]
  OBVIOUS
<1>2. /\ task' = [task EXCEPT ![a] = t] /\ UNCHANGED <<build, closures, walk>>
      /\ task[a].is = "scoping" /\ task[a].left = {} /\ walk[a] = NoWalk
  BY <1>1 DEF Narrows
<1>3. task[a].reached = {test \in build.tests : MayRun(test, task[a].target)}
  BY <1>2 DEF ReachInv, ScopedWell
<1>4. ScopedWell(t) /\ NarrowedWell(t)
  BY <1>1, <1>3 DEF ScopedWell, NarrowedWell
<1>5. Walked(walk[a], t) /\ walk' = [walk EXCEPT ![a] = walk[a]]
  BY <1>2 DEF Walked, NoWalk, ReachInv
<1> QED BY <1>2, <1>4, <1>5, OneAsker, MemoStays

LEMMA LeavesKeeps == ASSUME ReachInv, NEW a \in Askers, Leaves(a) PROVE ReachInv'
<1>1. /\ task' = [task EXCEPT ![a] = Idle] /\ UNCHANGED <<build, closures, walk>>
      /\ task[a].is = "narrowed"
  BY DEF Leaves
<1>2. ScopedWell(Idle) /\ NarrowedWell(Idle)
  BY DEF ScopedWell, NarrowedWell, Idle
<1>3. walk[a].is # "walking"
  BY <1>1 DEF ReachInv, Walked
<1>4. Walked(walk[a], Idle) /\ walk' = [walk EXCEPT ![a] = walk[a]]
  BY <1>1, <1>3 DEF Walked, ReachInv
<1> QED BY <1>1, <1>2, <1>4, OneAsker, MemoStays

LEMMA ReachRests == ASSUME ReachInv, UNCHANGED reachVars PROVE ReachInv'
<1>1. UNCHANGED <<build, closures, task, walk>>
  BY DEF reachVars
<1>2. ASSUME NEW a \in Askers
      PROVE  (ScopedWell(task[a]) /\ NarrowedWell(task[a]) /\ Walked(walk[a], task[a]))'
  <2>1. PICK t, w : t = task[a] /\ w = walk[a]
    OBVIOUS
  <2>2. ScopedWell(t)' /\ NarrowedWell(t)' /\ Walked(w, t)'
    BY <1>1, <2>1, ScopedStays, WalkedStays DEF ReachInv
  <2> QED BY <1>1, <2>1, <2>2
<1>3. /\ (build \in LoadedBuilds)'
      /\ (task = [b \in Askers |-> task[b]])' /\ (walk = [b \in Askers |-> walk[b]])'
  BY <1>1 DEF ReachInv
<1> QED BY <1>1, <1>2, <1>3, MemoStays DEF ReachInv

LEMMA ReachStepKeeps == ReachInv /\ [ReachNext]_reachVars => ReachInv'
<1> SUFFICES ASSUME ReachInv, [ReachNext]_reachVars
             PROVE  ReachInv'
  OBVIOUS
<1>1. ASSUME NEW a \in Askers, ReachStep(a)
      PROVE  ReachInv'
  <2>1. ASSUME NEW test \in build.tests, AsksUnjudged(a, test) \/ AsksAgain(a, test) \/ AsksFirst(a, test)
        PROVE  ReachInv'
    BY <2>1, AsksUnjudgedKeeps, AsksAgainKeeps, AsksFirstKeeps
  <2>2. ASSUME walk[a].is = "walking", NEW n \in walk[a].queue, Turns(a, n)
        PROVE  ReachInv'
    BY <2>2, TurnsKeeps
  <2> QED BY <1>1, <2>1, <2>2, ScopesKeeps, WalkEndsKeeps, NarrowsKeeps, LeavesKeeps DEF ReachStep
<1>2. CASE UNCHANGED reachVars
  BY <1>2, ReachRests
<1> QED BY <1>1, <1>2 DEF ReachNext

LEMMA ReachInvIsWhole == ReachInv => OracleIsWhatReaches
BY DEF ReachInv, NarrowedWell, OracleIsWhatReaches

------------------------------------------------------------------------------
(* The engine.                                                             *)

\* A package's derived oracle is whole and its caller's own, whatever other
\* callers, cancellations, failures and edits come between
\* (DerivedOracleContext's three memos).
THEOREM DerivedWhole == EngineSpec => []DerivedIsWhole
<1>1. EngineInit => DeriveInv
  BY DeriveInitSound DEF EngineInit
<1>2. DeriveInv /\ [EngineNext]_engineVars => DeriveInv'
  BY DeriveStepKeeps DEF EngineNext, Executes, Derives, Scoped, engineVars
<1> QED BY <1>1, <1>2, DeriveInvIsWhole, PTL DEF EngineSpec

LEMMA EngineKeepsOracle == OracleInv /\ [EngineNext]_engineVars => OracleInv'
BY ExecutesKeepsOracle DEF EngineNext, Executes, Derives, Scoped, engineVars

\* The schema is compiled for good at most once, and an entry its compiling
\* caller's cancellation cut short is dropped by the time the calls that met
\* it have gone on (getOrCompile).
THEOREM CompiledOnce == EngineSpec => []SchemaCompiledOnce
<1>1. EngineInit => OracleInv
  BY OracleInitSound DEF EngineInit, EphemeralInit
<1>2. OracleInv => SchemaCompiledOnce
  BY OracleInvIsSound
<1> QED BY <1>1, <1>2, EngineKeepsOracle, PTL DEF EngineSpec

\* A mutant's verdict is of the process that was scored, whichever of its two
\* contexts dies meanwhile (runMutantBase, runSchemaBinary).
THEOREM VerdictsEarned == EngineSpec => []VerdictsAreEarned
<1>1. EngineInit => OracleInv
  BY OracleInitSound DEF EngineInit, EphemeralInit
<1>2. OracleInv => VerdictsAreEarned
  BY OracleInvIsSound
<1> QED BY <1>1, <1>2, EngineKeepsOracle, PTL DEF EngineSpec

LEMMA EngineKeepsReview == ReviewInv /\ [EngineNext]_engineVars => ReviewInv'
BY ExecutesKeepsReview DEF EngineNext, Executes, Derives, Scoped, engineVars

\* The record never comes to name one mutant twice by the same key
\* (RecordEphemeralAttestation).
THEOREM StandingOne == EngineSpec => []StandingIsOne
<1>1. EngineInit => ReviewInv
  BY ReviewInitSound DEF EngineInit
<1>2. ReviewInv => StandingIsOne
  BY DEF ReviewInv, NamesOnce, StandingIsOne
<1> QED BY <1>1, <1>2, EngineKeepsReview, PTL DEF EngineSpec

\* An attestation that may not replace takes no row away
\* (RecordEphemeralAttestation's second look, under the lock).
THEOREM NoneReplaced == EngineSpec => NoSilentReplace
<1>1. EngineInit => ReviewInv
  BY ReviewInitSound DEF EngineInit
<1>2. ReviewInv => [\A p \in Probes : Attests(p) /\ ~request[p].replaces => record \subseteq record']_ephemeralVars
  BY AttestsKeepsRows
<1> QED BY <1>1, <1>2, EngineKeepsReview, PTL DEF EngineSpec, NoSilentReplace

\* A narrowed oracle is the tests the graph says may run the target, whatever
\* was asked before and in whatever order a walk met its nodes: the worklist
\* ends at the least closed set of its roots, and the memo's key says which
\* roots those were (ReachesSymbol, ScopeDerivedOracle).
THEOREM NarrowedIsReached == EngineSpec => []OracleIsWhatReaches
<1>1. EngineInit => ReachInv
  BY ReachInitSound DEF EngineInit
<1>2. ReachInv /\ [EngineNext]_engineVars => ReachInv'
  BY ReachStepKeeps DEF EngineNext, Executes, Derives, Scoped, engineVars, reachVars
<1> QED BY <1>1, <1>2, ReachInvIsWhole, PTL DEF EngineSpec
==============================================================================
