----------------------------- MODULE FacesProofs -----------------------------
(***************************************************************************)
(* Proofs about the two faces, for every number of calls, files, edits and *)
(* runs: what the cache serves was on the disk, an idle server's heap      *)
(* return is never lost, and nothing of a drain reaches a final merge.     *)
(***************************************************************************)
EXTENDS Faces, FiniteSetTheorems, TLAPS

------------------------------------------------------------------------------
(* Contents: what the files hold, whole or as far as one was read.         *)

Whole   == [Files -> Nat]
Partial == UNION {[S -> Nat] : S \in SUBSET Files}
Ats     == {"out", "keying", "loading", "loose", "served", "failed"}
Loading == {"keying", "loading", "loose"}

\* Two whole contents that agree file by file are one.
LEMMA SameContent ==
    ASSUME NEW a \in Whole, NEW b \in Whole, \A f \in Files : a[f] = b[f]
    PROVE  a = b
BY DEF Whole

LEMMA PartialForm ==
    ASSUME NEW o \in Partial
    PROVE  /\ DOMAIN o \subseteq Files /\ o \in [DOMAIN o -> Nat]
           /\ DOMAIN o = Files => o \in Whole
           /\ \A f \in DOMAIN o : o[f] \in Nat
BY DEF Partial, Whole

LEMMA BlankPartial == Blank \in Partial /\ DOMAIN Blank = {}
<1>1. Blank \in [{} -> Nat] /\ DOMAIN Blank = {}
  BY DEF Blank
<1> QED BY <1>1 DEF Partial

\* One file more is read.
LEMMA SeenForm ==
    ASSUME NEW o \in Partial, NEW f \in Files, disk \in Whole
    PROVE  /\ Seen(o, f) \in Partial
           /\ DOMAIN Seen(o, f) = DOMAIN o \cup {f}
           /\ Seen(o, f)[f] = disk[f]
           /\ \A g \in DOMAIN o \ {f} : Seen(o, f)[g] = o[g]
           /\ Seen(o, f) # Blank
<1>1. DOMAIN Seen(o, f) = DOMAIN o \cup {f}
  BY DEF Seen
<1>2. \A g \in DOMAIN o \cup {f} : Seen(o, f)[g] = IF g = f THEN disk[f] ELSE o[g]
  BY DEF Seen
<1>3. Seen(o, f) \in [DOMAIN o \cup {f} -> Nat]
  BY PartialForm DEF Seen, Whole
<1>4. Seen(o, f) \in Partial
  BY <1>3, PartialForm DEF Partial
<1> QED BY <1>1, <1>2, <1>4, BlankPartial

\* The walk has a next file as long as one is left.
LEMMA NextFileLeft ==
    ASSUME NEW o, ~Read(o)
    PROVE  NextFile(o) \in Files \ DOMAIN o
<1>1. Files \ DOMAIN o # {} /\ Files \ DOMAIN o \in SUBSET Files
  BY DEF Read
<1>2. \E f \in Files \ DOMAIN o : \A g \in Files \ DOMAIN o : f <= g
  BY <1>1, ResidentAssumption
<1> QED BY <1>2 DEF NextFile

------------------------------------------------------------------------------
(* The invariant of the loads.                                             *)

Entry == [at : Ats, sel : Selections \cup {"none"}, since : Nat, key : Partial,
          view : Partial, again : Partial, hit : Selections \cup {"none"}]

Trees == [key : Partial, sel : Selections \cup {"none"}, content : Partial]

\* A version is the moment of the edit that wrote it, so it is older than any
\* moment that shows it.
HistoryKept ==
    /\ history \in Seq(Whole) /\ Len(history) >= 1
    /\ disk \in Whole /\ disk = history[Len(history)]
    /\ \A n \in 1 .. Len(history) : \A f \in Files : history[n][f] < n

CallsTyped == call \in [Calls -> Entry] /\ tree \in Trees

\* The tree kept is one the disk held, under its own fingerprint.
TreeWas ==
    tree # NoTree =>
        /\ tree.content = tree.key
        /\ \E n \in 1 .. Len(history) : history[n] = tree.key

\* A fingerprint half taken: what it read dates from its start, or from an
\* edit after it.
Keyed(e) ==
    e.at = "keying" =>
        /\ e.view = Blank /\ e.again = Blank /\ e.hit = "none"
        /\ e.since \in 0 .. Len(history)
        /\ DOMAIN e.key # {} => e.since >= 1
        /\ e.since >= 1 =>
               /\ \A f \in Files : disk[f] = history[e.since][f] \/ disk[f] >= e.since
               /\ \A f \in DOMAIN e.key : e.key[f] = history[e.since][f] \/ e.key[f] >= e.since
        /\ \A f \in DOMAIN e.key : e.key[f] <= disk[f]

\* A load between its fingerprints: some moment of the tree lies between the
\* two, and so does what was loaded.
Between(e, n) ==
    /\ \A f \in Files : e.key[f] <= history[n][f] /\ history[n][f] <= disk[f]
    /\ \A f \in DOMAIN e.again : history[n][f] <= e.again[f]

Loaded(e) ==
    e.at = "loading" =>
        /\ e.hit = "none" /\ DOMAIN e.key = Files
        /\ \E n \in 1 .. Len(history) : Between(e, n)
        /\ \A f \in DOMAIN e.view : e.key[f] <= e.view[f] /\ e.view[f] <= disk[f]
        /\ DOMAIN e.again # {} => DOMAIN e.view = Files
        /\ \A f \in DOMAIN e.again : e.view[f] <= e.again[f]

\* A call served from the cache; a call that is not has no hit.
Served(e) ==
    e.hit # "none" =>
        /\ e.at = "served" /\ e.hit = e.sel
        /\ \E n \in 1 .. Len(history) : n >= e.since /\ history[n] = e.view

LoadInv ==
    /\ HistoryKept /\ CallsTyped /\ TreeWas
    /\ \A c \in Calls : Keyed(call[c]) /\ Loaded(call[c]) /\ Served(call[c])

LEMMA LoadInit == ResidentInit => LoadInv
<1> SUFFICES ASSUME ResidentInit PROVE LoadInv
  OBVIOUS
<1>1. HistoryKept
  <2>1. disk \in Whole /\ \A f \in Files : disk[f] = 0
    BY DEF ResidentInit, Whole
  <2>2. history = <<disk>> /\ history \in Seq(Whole) /\ Len(history) = 1 /\ history[1] = disk
    BY <2>1 DEF ResidentInit
  <2> QED BY <2>1, <2>2 DEF HistoryKept
<1>2. Waiting \in Entry /\ NoTree \in Trees
  BY BlankPartial DEF Waiting, Entry, Ats, NoTree, Trees
<1>3. CallsTyped
  BY <1>2 DEF ResidentInit, CallsTyped
<1>4. Keyed(Waiting) /\ Loaded(Waiting) /\ Served(Waiting)
  BY DEF Keyed, Loaded, Served, Waiting
<1> QED BY <1>1, <1>3, <1>4 DEF LoadInv, TreeWas, ResidentInit

\* Of one call's step only what it becomes is left to prove, and the tree.
LEMMA OneCallMoves ==
    ASSUME LoadInv, NEW c \in Calls, NEW e \in Entry, call' = [call EXCEPT ![c] = e],
           UNCHANGED <<disk, history>>,
           Keyed(e), Loaded(e), Served(e),
           tree' \in Trees, TreeWas'
    PROVE  LoadInv'
<1>1. HistoryKept'
  BY DEF LoadInv, HistoryKept
<1>2. CallsTyped'
  BY DEF LoadInv, CallsTyped
<1>3. ASSUME NEW d \in Calls
      PROVE  Keyed(call'[d]) /\ Loaded(call'[d]) /\ Served(call'[d])
  BY DEF LoadInv, CallsTyped
<1>4. ASSUME NEW d \in Calls
      PROVE  (Keyed(call[d]) /\ Loaded(call[d]) /\ Served(call[d]))'
  <2>1. PICK x : x = call'[d]
    OBVIOUS
  <2>2. Keyed(x) /\ Loaded(x) /\ Served(x)
    BY <1>3, <2>1
  <2>3. (Keyed(x) /\ Loaded(x) /\ Served(x))'
    BY <2>2 DEF Keyed, Loaded, Between, Served
  <2> QED BY <2>1, <2>3
<1> QED BY <1>1, <1>2, <1>4 DEF LoadInv

\* The tree kept, or none.
LEMMA TreeStays == LoadInv /\ UNCHANGED <<tree, history>> => tree' \in Trees /\ TreeWas'
BY DEF LoadInv, CallsTyped, TreeWas

LEMMA TreeGoes == tree' = NoTree => tree' \in Trees /\ TreeWas'
BY BlankPartial DEF TreeWas, NoTree, Trees

\* A call that neither looks nor loads, and was served nothing from the cache.
LEMMA Unserved ==
    ASSUME NEW e, e.at \in {"out", "loose", "served", "failed"}, e.hit = "none"
    PROVE  Keyed(e) /\ Loaded(e) /\ Served(e)
BY DEF Keyed, Loaded, Served

LEMMA BeganKeeps == ASSUME LoadInv, NEW c \in Calls, Began(c) PROVE LoadInv'
<1>1. PICK s \in Selections : call' = [call EXCEPT ![c] = [Waiting EXCEPT !.at = "keying", !.sel = s]]
  BY DEF Began
<1>2. PICK e : e = [Waiting EXCEPT !.at = "keying", !.sel = s]
  OBVIOUS
<1>3. e \in Entry
  BY <1>2, BlankPartial DEF Entry, Ats, Waiting
<1>4. Len(history) \in Nat
  BY DEF LoadInv, HistoryKept
<1>5. Keyed(e) /\ Loaded(e) /\ Served(e)
  BY <1>2, <1>4, BlankPartial DEF Keyed, Loaded, Served, Waiting
<1> QED BY <1>1, <1>2, <1>3, <1>5, OneCallMoves, TreeStays DEF Began

LEMMA EndedKeeps == ASSUME LoadInv, NEW c \in Calls, Ended(c) PROVE LoadInv'
<1>1. Waiting \in Entry
  BY BlankPartial DEF Entry, Ats, Waiting
<1>2. Keyed(Waiting) /\ Loaded(Waiting) /\ Served(Waiting)
  BY Unserved DEF Waiting
<1> QED BY <1>1, <1>2, OneCallMoves, TreeStays DEF Ended

LEMMA KeysKeeps == ASSUME LoadInv, NEW c \in Calls, Keys(c) PROVE LoadInv'
<1> DEFINE o == call[c].key
           g == NextFile(o)
           s == IF o = Blank THEN Len(history) ELSE call[c].since
<1>1. PICK e : e = [call[c] EXCEPT !.key = Seen(o, g), !.since = s]
  OBVIOUS
<1>2. call[c] \in Entry /\ o \in Partial /\ disk \in Whole /\ Len(history) \in Nat
  BY DEF LoadInv, CallsTyped, Entry, HistoryKept
<1>3. g \in Files
  BY NextFileLeft DEF Keys
<1>4. /\ Seen(o, g) \in Partial /\ DOMAIN Seen(o, g) = DOMAIN o \cup {g}
      /\ Seen(o, g)[g] = disk[g] /\ \A f \in DOMAIN o \ {g} : Seen(o, g)[f] = o[f]
  BY <1>2, <1>3, SeenForm
<1>5. call' = [call EXCEPT ![c] = e]
  BY <1>1 DEF Keys
<1>6. e.key = Seen(o, g) /\ e.since = s /\ e.view = call[c].view /\ e.again = call[c].again
      /\ e.at = "keying" /\ e.hit = call[c].hit
  BY <1>1, <1>2 DEF Entry, Keys
<1>7. e \in Entry
  BY <1>1, <1>2, <1>4 DEF Entry
<1>8. Keyed(call[c]) /\ call[c].at = "keying"
  BY DEF LoadInv, Keys
<1>9. s \in 1 .. Len(history)
  <2>1. CASE o = Blank
    BY <2>1, <1>2 DEF LoadInv, HistoryKept
  <2>2. CASE o # Blank
    <3>1. DOMAIN o # {}
      BY <2>2, <1>2, PartialForm DEF Blank
    <3> QED BY <2>2, <3>1, <1>8, <1>2 DEF Keyed
  <2> QED BY <2>1, <2>2
<1>10. /\ \A f \in Files : disk[f] = history[s][f] \/ disk[f] >= s
       /\ \A f \in DOMAIN o : o[f] = history[s][f] \/ o[f] >= s
  <2>1. CASE o = Blank
    BY <2>1, BlankPartial DEF LoadInv, HistoryKept
  <2>2. CASE o # Blank
    BY <2>2, <1>8, <1>9 DEF Keyed
  <2> QED BY <2>1, <2>2
<1>11. \A f \in DOMAIN o : o[f] <= disk[f]
  BY <1>8 DEF Keyed
<1>12. /\ \A f \in DOMAIN e.key : e.key[f] = history[s][f] \/ e.key[f] >= s
       /\ \A f \in DOMAIN e.key : e.key[f] <= disk[f]
  <2> SUFFICES ASSUME NEW f \in DOMAIN e.key
               PROVE  /\ e.key[f] = history[s][f] \/ e.key[f] >= s
                      /\ e.key[f] <= disk[f]
    OBVIOUS
  <2>1. CASE f = g
    <3>1. e.key[f] = disk[f] /\ disk[f] \in Nat
      BY <2>1, <1>6, <1>4, <1>3, <1>2 DEF Whole
    <3> QED BY <3>1, <2>1, <1>10, <1>3
  <2>2. CASE f # g
    <3>1. f \in DOMAIN o \ {g} /\ e.key[f] = o[f]
      BY <2>2, <1>4, <1>6
    <3> QED BY <3>1, <1>10, <1>11
  <2> QED BY <2>1, <2>2
<1>13. Keyed(e)
  BY <1>6, <1>8, <1>9, <1>10, <1>12, <1>2 DEF Keyed
<1>14. Loaded(e) /\ Served(e)
  BY <1>6, <1>8 DEF Loaded, Served, Keyed
<1> HIDE DEF o, g, s
<1> QED BY <1>5, <1>7, <1>13, <1>14, OneCallMoves, TreeStays DEF Keys

LEMMA IncoherentKeeps == ASSUME LoadInv, NEW c \in Calls, Incoherent(c) PROVE LoadInv'
<1>1. PICK e : e = [call[c] EXCEPT !.at = "loose"]
  OBVIOUS
<1>2. call[c] \in Entry /\ Keyed(call[c]) /\ call[c].at = "keying"
  BY DEF LoadInv, CallsTyped, Incoherent
<1>3. e \in Entry /\ e.at = "loose" /\ e.hit = "none"
  BY <1>1, <1>2 DEF Entry, Ats, Keyed
<1>4. call' = [call EXCEPT ![c] = e]
  BY <1>1 DEF Incoherent
<1>5. Keyed(e) /\ Loaded(e) /\ Served(e)
  BY <1>3, Unserved
<1>6. tree' \in Trees /\ TreeWas'
  BY TreeGoes DEF Incoherent
<1> QED BY <1>3, <1>4, <1>5, <1>6, OneCallMoves DEF Incoherent

\* A fingerprint that some moment of the tree has is that of a moment after it
\* was begun: what an earlier moment shows is older.
LEMMA KeyedSince ==
    ASSUME LoadInv, NEW e \in Entry, Keyed(e), e.at = "keying", Read(e.key),
           NEW n \in 1 .. Len(history), history[n] = e.key
    PROVE  \E m \in 1 .. Len(history) : m >= e.since /\ history[m] = e.key
<1>1. e.key \in Whole /\ DOMAIN e.key = Files
  BY PartialForm DEF Entry, Read
<1>2. Len(history) \in Nat /\ e.since \in 0 .. Len(history)
  BY DEF LoadInv, HistoryKept, Keyed
<1>3. CASE e.since = 0
  BY <1>2, <1>3
<1>4. CASE e.since # 0 /\ \E f \in Files : e.key[f] >= e.since
  <2>1. PICK f \in Files : e.key[f] >= e.since
    BY <1>4
  <2>2. history[n][f] < n /\ history[n][f] = e.key[f] /\ e.key[f] \in Nat
    BY <1>1 DEF LoadInv, HistoryKept, Whole
  <2> QED BY <1>2, <2>1, <2>2
<1>5. CASE e.since # 0 /\ \A f \in Files : ~(e.key[f] >= e.since)
  <2>1. \A f \in Files : e.key[f] = history[e.since][f]
    BY <1>1, <1>2, <1>5 DEF Keyed
  <2>2. history[e.since] \in Whole
    BY <1>2, <1>5 DEF LoadInv, HistoryKept
  <2>3. history[e.since] = e.key
    BY <1>1, <2>1, <2>2, SameContent
  <2> QED BY <1>2, <2>3
<1> QED BY <1>3, <1>4, <1>5

LEMMA HitsKeeps == ASSUME LoadInv, NEW c \in Calls, Hits(c) PROVE LoadInv'
<1>1. PICK e : e = [call[c] EXCEPT !.at = "served", !.view = tree.content, !.hit = tree.sel]
  OBVIOUS
<1>2. call[c] \in Entry /\ Keyed(call[c]) /\ call[c].at = "keying" /\ tree \in Trees
  BY DEF LoadInv, CallsTyped, Hits
<1>3. /\ e \in Entry /\ e.at = "served" /\ e.hit = tree.sel /\ e.sel = call[c].sel
      /\ e.since = call[c].since /\ e.view = tree.content
  BY <1>1, <1>2 DEF Entry, Ats, Trees
<1>4. call' = [call EXCEPT ![c] = e]
  BY <1>1 DEF Hits
<1>5. PICK n \in 1 .. Len(history) : history[n] = call[c].key
  BY DEF LoadInv, TreeWas, Hits
<1>6. tree.content = call[c].key
  BY DEF LoadInv, TreeWas, Hits
<1>7. \E m \in 1 .. Len(history) : m >= call[c].since /\ history[m] = call[c].key
  BY <1>2, <1>5, KeyedSince DEF Hits
<1>8. Keyed(e) /\ Loaded(e) /\ Served(e)
  BY <1>3, <1>6, <1>7 DEF Keyed, Loaded, Served, Hits
<1> QED BY <1>3, <1>4, <1>8, OneCallMoves, TreeStays DEF Hits

LEMMA MissesKeeps == ASSUME LoadInv, NEW c \in Calls, Misses(c) PROVE LoadInv'
<1>1. PICK e : e = [call[c] EXCEPT !.at = "loading"]
  OBVIOUS
<1>2. call[c] \in Entry /\ Keyed(call[c]) /\ call[c].at = "keying" /\ Read(call[c].key)
  BY DEF LoadInv, CallsTyped, Misses
<1>3. /\ e \in Entry /\ e.at = "loading" /\ e.hit = "none" /\ e.key = call[c].key
      /\ e.view = Blank /\ e.again = Blank
  BY <1>1, <1>2 DEF Entry, Ats, Keyed
<1>4. call' = [call EXCEPT ![c] = e]
  BY <1>1 DEF Misses
<1>5. DOMAIN e.key = Files
  BY <1>2, <1>3, PartialForm DEF Entry, Read
<1>6. Between(e, Len(history)) /\ Len(history) \in 1 .. Len(history)
  <2>1. \A f \in Files : e.key[f] <= disk[f]
    BY <1>2, <1>3, <1>5 DEF Keyed
  <2>2. disk = history[Len(history)] /\ disk \in Whole /\ Len(history) \in Nat /\ Len(history) >= 1
    BY DEF LoadInv, HistoryKept
  <2>3. \A f \in Files : disk[f] <= disk[f]
    BY <2>2 DEF Whole
  <2> QED BY <1>3, <2>1, <2>2, <2>3, BlankPartial DEF Between
<1>7. Keyed(e) /\ Loaded(e) /\ Served(e)
  BY <1>3, <1>5, <1>6, BlankPartial DEF Keyed, Loaded, Served
<1> QED BY <1>3, <1>4, <1>7, OneCallMoves, TreeStays DEF Misses

LEMMA LoadsKeeps == ASSUME LoadInv, NEW c \in Calls, Loads(c) PROVE LoadInv'
<1> DEFINE o == call[c].view
<1>1. PICK g \in Files \ DOMAIN o : call' = [call EXCEPT ![c].view = Seen(o, g)]
  BY DEF Loads
<1>2. PICK e : e = [call[c] EXCEPT !.view = Seen(o, g)]
  OBVIOUS
<1>3. call[c] \in Entry /\ o \in Partial /\ disk \in Whole /\ Loaded(call[c]) /\ Served(call[c])
  BY DEF LoadInv, CallsTyped, Entry, HistoryKept
<1>4. /\ Seen(o, g) \in Partial /\ DOMAIN Seen(o, g) = DOMAIN o \cup {g}
      /\ Seen(o, g)[g] = disk[g] /\ \A f \in DOMAIN o \ {g} : Seen(o, g)[f] = o[f]
  BY <1>1, <1>3, SeenForm
<1>5. call' = [call EXCEPT ![c] = e]
  BY <1>1, <1>2
<1>6. /\ e \in Entry /\ e.at = call[c].at /\ e.key = call[c].key /\ e.again = call[c].again
      /\ e.hit = call[c].hit /\ e.view = Seen(o, g)
  BY <1>2, <1>3, <1>4 DEF Entry
<1>7. e.at \in {"loading", "loose"} /\ e.hit = "none"
  BY <1>3, <1>6 DEF Loads, Served
<1>8. CASE e.at = "loose"
  <2>1. Keyed(e) /\ Loaded(e) /\ Served(e)
    BY <1>7, <1>8, Unserved
  <2> QED BY <1>5, <1>6, <2>1, OneCallMoves, TreeStays DEF Loads
<1>9. CASE e.at = "loading"
  <2>1. PICK n \in 1 .. Len(history) : Between(call[c], n)
    BY <1>3, <1>6, <1>9 DEF Loaded
  <2>2. Between(e, n)
    BY <1>6, <2>1 DEF Between
  <2>3. DOMAIN e.again = {}
    <3>1. DOMAIN e.again # {} => DOMAIN o = Files
      BY <1>3, <1>6, <1>9 DEF Loaded
    <3> QED BY <1>1, <3>1
  <2>4. \A f \in DOMAIN e.view : e.key[f] <= e.view[f] /\ e.view[f] <= disk[f]
    <3> SUFFICES ASSUME NEW f \in DOMAIN e.view
                 PROVE  e.key[f] <= e.view[f] /\ e.view[f] <= disk[f]
      OBVIOUS
    <3>1. CASE f = g
      <4>1. e.view[f] = disk[f] /\ disk[f] \in Nat
        BY <1>1, <1>3, <1>4, <1>6, <3>1 DEF Whole
      <4>2. e.key[f] <= history[n][f] /\ history[n][f] <= disk[f]
        BY <1>1, <3>1, <2>2 DEF Between
      <4>3. e.key[f] \in Nat /\ history[n][f] \in Nat
        <5>1. history[n] \in Whole /\ e.key \in Whole
          BY <1>3, <1>6, <1>9, PartialForm DEF LoadInv, HistoryKept, Loaded, Entry
        <5> QED BY <1>1, <3>1, <5>1 DEF Whole
      <4> QED BY <4>1, <4>2, <4>3
    <3>2. CASE f # g
      <4>1. f \in DOMAIN o /\ e.view[f] = o[f]
        BY <3>2, <1>4, <1>6
      <4> QED BY <4>1, <1>3, <1>6, <1>9 DEF Loaded
    <3> QED BY <3>1, <3>2
  <2>5. Loaded(e)
    BY <1>3, <1>6, <1>7, <1>9, <2>2, <2>3, <2>4 DEF Loaded
  <2>6. Keyed(e) /\ Served(e)
    BY <1>7, <1>9 DEF Keyed, Served
  <2> QED BY <1>5, <1>6, <2>5, <2>6, OneCallMoves, TreeStays DEF Loads
<1> QED BY <1>7, <1>8, <1>9

LEMMA LoadFailsKeeps == ASSUME LoadInv, NEW c \in Calls, LoadFails(c) PROVE LoadInv'
<1>1. PICK e : e = [call[c] EXCEPT !.at = "failed"]
  OBVIOUS
<1>2. call[c] \in Entry /\ Served(call[c]) /\ call[c].at \in {"keying", "loading", "loose"}
  BY DEF LoadInv, CallsTyped, LoadFails
<1>3. e \in Entry /\ e.at = "failed" /\ e.hit = "none"
  BY <1>1, <1>2 DEF Entry, Ats, Served
<1>4. call' = [call EXCEPT ![c] = e]
  BY <1>1 DEF LoadFails
<1>5. Keyed(e) /\ Loaded(e) /\ Served(e)
  BY <1>3, Unserved
<1>6. tree' \in Trees /\ TreeWas'
  BY TreeStays, TreeGoes DEF LoadFails
<1> QED BY <1>3, <1>4, <1>5, <1>6, OneCallMoves DEF LoadFails

LEMMA LooseLoadedKeeps == ASSUME LoadInv, NEW c \in Calls, LooseLoaded(c) PROVE LoadInv'
<1>1. PICK e : e = [call[c] EXCEPT !.at = "served"]
  OBVIOUS
<1>2. call[c] \in Entry /\ Served(call[c]) /\ call[c].at = "loose"
  BY DEF LoadInv, CallsTyped, LooseLoaded
<1>3. e \in Entry /\ e.at = "served" /\ e.hit = "none"
  BY <1>1, <1>2 DEF Entry, Ats, Served
<1>4. call' = [call EXCEPT ![c] = e]
  BY <1>1 DEF LooseLoaded
<1>5. Keyed(e) /\ Loaded(e) /\ Served(e)
  BY <1>3, Unserved
<1> QED BY <1>3, <1>4, <1>5, OneCallMoves, TreeStays DEF LooseLoaded

LEMMA KeysAgainKeeps == ASSUME LoadInv, NEW c \in Calls, KeysAgain(c) PROVE LoadInv'
<1> DEFINE o == call[c].again
           g == NextFile(o)
<1>1. PICK e : e = [call[c] EXCEPT !.again = Seen(o, g)]
  OBVIOUS
<1>2. call[c] \in Entry /\ o \in Partial /\ disk \in Whole /\ Loaded(call[c])
  BY DEF LoadInv, CallsTyped, Entry, HistoryKept
<1>3. g \in Files
  BY NextFileLeft DEF KeysAgain
<1>4. /\ Seen(o, g) \in Partial /\ DOMAIN Seen(o, g) = DOMAIN o \cup {g}
      /\ Seen(o, g)[g] = disk[g] /\ \A f \in DOMAIN o \ {g} : Seen(o, g)[f] = o[f]
  BY <1>2, <1>3, SeenForm
<1>5. call' = [call EXCEPT ![c] = e]
  BY <1>1 DEF KeysAgain
<1>6. /\ e \in Entry /\ e.at = "loading" /\ e.key = call[c].key /\ e.view = call[c].view
      /\ e.hit = call[c].hit /\ e.again = Seen(o, g)
  BY <1>1, <1>2, <1>4 DEF Entry, KeysAgain
<1>7. call[c].at = "loading" /\ DOMAIN e.view = Files
  BY <1>2, <1>6, PartialForm DEF Entry, KeysAgain, Read
<1>8. PICK n \in 1 .. Len(history) : Between(call[c], n)
  BY <1>2, <1>7 DEF Loaded
<1>9. \A f \in DOMAIN e.again : history[n][f] <= e.again[f] /\ e.view[f] <= e.again[f]
  <2> SUFFICES ASSUME NEW f \in DOMAIN e.again
               PROVE  history[n][f] <= e.again[f] /\ e.view[f] <= e.again[f]
    OBVIOUS
  <2>1. CASE f = g
    <3>1. e.again[f] = disk[f]
      BY <2>1, <1>4, <1>6
    <3>2. history[n][f] <= disk[f]
      BY <1>3, <1>8, <2>1 DEF Between
    <3>3. e.view[f] <= disk[f]
      BY <1>2, <1>3, <1>6, <1>7, <2>1 DEF Loaded
    <3> QED BY <3>1, <3>2, <3>3
  <2>2. CASE f # g
    <3>1. f \in DOMAIN o /\ e.again[f] = o[f]
      BY <2>2, <1>4, <1>6
    <3> QED BY <3>1, <1>2, <1>6, <1>7, <1>8 DEF Loaded, Between
  <2> QED BY <2>1, <2>2
<1>10. Between(e, n)
  BY <1>6, <1>8, <1>9 DEF Between
<1>11. Loaded(e)
  BY <1>2, <1>6, <1>7, <1>9, <1>10 DEF Loaded
<1>12. Keyed(e) /\ Served(e)
  BY <1>2, <1>6, <1>7 DEF Keyed, Served, Loaded
<1> HIDE DEF o, g
<1> QED BY <1>5, <1>6, <1>11, <1>12, OneCallMoves, TreeStays DEF KeysAgain

\* Two fingerprints that agree agree with every moment between them, and with
\* what was loaded between them.
LEMMA Pinched ==
    ASSUME LoadInv, NEW e \in Entry, Loaded(e), e.at = "loading",
           Read(e.again), e.again = e.key
    PROVE  e.view = e.key /\ \E n \in 1 .. Len(history) : history[n] = e.key
<1>1. e.again \in Whole /\ e.key \in Whole /\ DOMAIN e.again = Files
  BY PartialForm DEF Entry, Read
<1>2. PICK n \in 1 .. Len(history) : Between(e, n)
  BY DEF Loaded
<1>3. history[n] \in Whole
  BY DEF LoadInv, HistoryKept
<1>4. \A f \in Files : e.key[f] \in Nat /\ history[n][f] \in Nat
  BY <1>1, <1>3 DEF Whole
<1>5. \A f \in Files : e.key[f] <= history[n][f] /\ history[n][f] <= e.key[f]
  BY <1>1, <1>2 DEF Between
<1>6. history[n] = e.key
  BY <1>1, <1>3, <1>4, <1>5, SameContent
<1>7. DOMAIN e.view = Files
  <2>1. CASE Files = {}
    BY <2>1, PartialForm DEF Entry
  <2>2. CASE Files # {}
    BY <1>1, <2>2 DEF Loaded
  <2> QED BY <2>1, <2>2
<1>8. e.view \in Whole
  BY <1>7, PartialForm DEF Entry
<1>9. \A f \in Files : e.key[f] <= e.view[f] /\ e.view[f] <= e.key[f]
  BY <1>1, <1>7 DEF Loaded
<1>10. e.view = e.key
  <2>1. \A f \in Files : e.view[f] \in Nat
    BY <1>8 DEF Whole
  <2> QED BY <1>1, <1>4, <1>8, <1>9, <2>1, SameContent
<1> QED BY <1>6, <1>10

LEMMA CachesKeeps == ASSUME LoadInv, NEW c \in Calls, Caches(c) PROVE LoadInv'
<1>1. PICK e : e = [call[c] EXCEPT !.at = "served"]
  OBVIOUS
<1>2. call[c] \in Entry /\ Loaded(call[c]) /\ call[c].at = "loading" /\ Read(call[c].again)
  BY DEF LoadInv, CallsTyped, Caches
<1>3. e \in Entry /\ e.at = "served" /\ e.hit = "none"
  BY <1>1, <1>2 DEF Entry, Ats, Loaded
<1>4. call' = [call EXCEPT ![c] = e]
  BY <1>1 DEF Caches
<1>5. Keyed(e) /\ Loaded(e) /\ Served(e)
  BY <1>3, Unserved
<1>6. tree' \in Trees /\ TreeWas'
  <2>1. CASE call[c].again # call[c].key
    BY <2>1, TreeGoes DEF Caches
  <2>2. CASE call[c].again = call[c].key
    <3>1. tree' = [key |-> call[c].key, sel |-> call[c].sel, content |-> call[c].view]
      BY <2>2 DEF Caches
    <3>2. /\ call[c].view = call[c].key
          /\ \E n \in 1 .. Len(history) : history[n] = call[c].key
      BY <1>2, <2>2, Pinched
    <3>3. tree' \in Trees
      BY <1>2, <3>1 DEF Entry, Trees
    <3>4. history' = history
      BY DEF Caches
    <3> QED BY <3>1, <3>2, <3>3, <3>4 DEF TreeWas
  <2> QED BY <2>1, <2>2
<1> QED BY <1>3, <1>4, <1>5, <1>6, OneCallMoves DEF Caches

\* Nothing of the loads moves, but that the tree may be let go.
LEMMA LoadsRest ==
    ASSUME LoadInv, UNCHANGED <<disk, history, call>>, tree' \in {tree, NoTree}
    PROVE  LoadInv'
<1>1. tree' \in Trees /\ TreeWas'
  BY TreeStays, TreeGoes
<1>2. HistoryKept' /\ CallsTyped'
  BY <1>1 DEF LoadInv, HistoryKept, CallsTyped
<1>3. ASSUME NEW c \in Calls
      PROVE  (Keyed(call[c]) /\ Loaded(call[c]) /\ Served(call[c]))'
  BY DEF LoadInv, Keyed, Loaded, Between, Served
<1> QED BY <1>1, <1>2, <1>3 DEF LoadInv

\* One more content, the last of the history: a version of it is older than
\* the moment it is the content of.
LEMMA HistoryGrows ==
    ASSUME HistoryKept, Edits
    PROVE  /\ HistoryKept'
           /\ Len(history') = Len(history) + 1
           /\ \A n \in 1 .. Len(history) : history'[n] = history[n]
<1>1. history \in Seq(Whole) /\ disk \in Whole /\ Len(history) \in Nat /\ Len(history) >= 1
  BY DEF HistoryKept
<1>2. \A f \in Files : disk[f] < Len(history) /\ disk[f] \in Nat
  BY <1>1 DEF HistoryKept, Whole
<1>3. PICK g \in Files : disk' = [disk EXCEPT ![g] = Len(history)] \/ disk' = [disk EXCEPT ![g] = 0]
  BY DEF Edits
<1>4. disk' \in Whole /\ \A f \in Files : disk'[f] < Len(history) + 1
  <2>1. disk' \in Whole
    <3>1. CASE disk' = [disk EXCEPT ![g] = Len(history)]
      BY <1>1, <3>1 DEF Whole
    <3>2. CASE disk' = [disk EXCEPT ![g] = 0]
      BY <1>1, <3>2 DEF Whole
    <3> QED BY <1>3, <3>1, <3>2
  <2>2. ASSUME NEW f \in Files
        PROVE  disk'[f] < Len(history) + 1
    <3>1. disk'[f] \in {disk[f], Len(history), 0}
      BY <1>1, <1>3 DEF Whole
    <3> QED BY <1>1, <1>2, <3>1
  <2> QED BY <2>1, <2>2
<1>5. PICK d : d = disk'
  OBVIOUS
<1>6. history' = Append(history, d) /\ d \in Whole
  BY <1>4, <1>5 DEF Edits
<1>7. /\ history' \in Seq(Whole) /\ Len(history') = Len(history) + 1
      /\ history'[Len(history) + 1] = d
      /\ \A n \in 1 .. Len(history) : history'[n] = history[n]
  BY <1>1, <1>6
<1>8. ASSUME NEW n \in 1 .. Len(history'), NEW f \in Files
      PROVE  history'[n][f] < n
  <2>1. CASE n = Len(history) + 1
    BY <1>4, <1>5, <1>7, <2>1
  <2>2. CASE n # Len(history) + 1
    BY <1>1, <1>7, <2>2 DEF HistoryKept
  <2> QED BY <2>1, <2>2
<1> QED BY <1>1, <1>4, <1>5, <1>7, <1>8 DEF HistoryKept

LEMMA EditsKeeps ==
    ASSUME Undoing = "between", LoadInv, Edits
    PROVE  LoadInv'
<1>1. HistoryKept
  BY DEF LoadInv
<1>2. /\ HistoryKept' /\ Len(history') = Len(history) + 1 /\ Len(history) \in Nat
      /\ \A n \in 1 .. Len(history) : history'[n] = history[n]
  BY <1>1, HistoryGrows DEF HistoryKept
<1>3. UNCHANGED <<tree, call>>
  BY DEF Edits
<1>4. CallsTyped' /\ TreeWas'
  <2>1. CallsTyped'
    BY <1>3 DEF LoadInv, CallsTyped
  <2>2. TreeWas'
    <3> SUFFICES ASSUME tree # NoTree
                 PROVE  /\ tree.content = tree.key
                        /\ \E n \in 1 .. Len(history') : history'[n] = tree.key
      BY <1>3 DEF TreeWas
    <3>1. PICK n \in 1 .. Len(history) : history[n] = tree.key
      BY DEF LoadInv, TreeWas
    <3>2. n \in 1 .. Len(history') /\ history'[n] = tree.key
      BY <1>2, <3>1
    <3> QED BY <3>2 DEF LoadInv, TreeWas
  <2> QED BY <2>1, <2>2
<1>5. ASSUME NEW c \in Calls
      PROVE  Served(call[c])'
  <2> SUFFICES ASSUME call[c].hit # "none"
               PROVE  /\ call[c].at = "served" /\ call[c].hit = call[c].sel
                      /\ \E n \in 1 .. Len(history') : n >= call[c].since /\ history'[n] = call[c].view
    BY <1>3 DEF Served
  <2>1. Served(call[c])
    BY DEF LoadInv
  <2>2. PICK n \in 1 .. Len(history) : n >= call[c].since /\ history[n] = call[c].view
    BY <2>1 DEF Served
  <2>3. n \in 1 .. Len(history') /\ history'[n] = call[c].view
    BY <1>2, <2>2
  <2> QED BY <2>1, <2>2, <2>3 DEF Served
<1>6. PICK g \in Files :
          \/ disk' = [disk EXCEPT ![g] = Len(history)]
          \/ (disk' = [disk EXCEPT ![g] = 0] /\ NoneLoads)
  BY DEF Edits
<1>7. CASE NoneLoads
  <2>1. ASSUME NEW c \in Calls
        PROVE  Keyed(call[c])' /\ Loaded(call[c])'
    BY <1>3, <1>7 DEF NoneLoads, Keyed, Loaded
  <2> QED BY <1>2, <1>4, <1>5, <2>1 DEF LoadInv
<1>8. CASE disk' = [disk EXCEPT ![g] = Len(history)]
  <2>1. /\ disk \in Whole /\ disk' \in Whole
        /\ \A f \in Files : disk[f] < Len(history)
    BY <1>1, <1>2 DEF HistoryKept
  <2>2. ASSUME NEW f \in Files
        PROVE  /\ disk[f] \in Nat /\ disk'[f] \in Nat
               /\ disk[f] <= disk'[f]
               /\ disk'[f] = disk[f] \/ disk'[f] >= Len(history)
    <3>1. disk[f] \in Nat /\ disk'[f] \in Nat
      BY <2>1 DEF Whole
    <3>2. disk'[f] = IF f = g THEN Len(history) ELSE disk[f]
      BY <1>8, <2>1 DEF Whole
    <3> QED BY <1>2, <2>1, <3>1, <3>2
  <2>3. ASSUME NEW c \in Calls
        PROVE  Keyed(call[c])'
    <3> DEFINE e == call[c]
    <3> SUFFICES ASSUME e.at = "keying"
                 PROVE  Keyed(e)'
      BY <1>3 DEF Keyed
    <3>1. Keyed(e) /\ e \in Entry
      BY DEF LoadInv, CallsTyped
    <3>2. e.since \in 0 .. Len(history')
      BY <1>2, <3>1 DEF Keyed
    <3>3. ASSUME e.since >= 1
          PROVE  /\ \A f \in Files : disk'[f] = history'[e.since][f] \/ disk'[f] >= e.since
                 /\ \A f \in DOMAIN e.key : e.key[f] = history'[e.since][f] \/ e.key[f] >= e.since
      <4>1. e.since \in 1 .. Len(history) /\ history'[e.since] = history[e.since]
        BY <1>2, <3>1, <3>3 DEF Keyed
      <4>2. ASSUME NEW f \in Files
            PROVE  disk'[f] = history'[e.since][f] \/ disk'[f] >= e.since
        <5>1. (disk[f] = history[e.since][f] \/ disk[f] >= e.since) /\ e.since \in Nat
          BY <3>1, <3>3, <4>1 DEF Keyed
        <5> QED BY <1>2, <2>2, <4>1, <5>1
      <4>3. \A f \in DOMAIN e.key : e.key[f] = history'[e.since][f] \/ e.key[f] >= e.since
        BY <3>1, <3>3, <4>1 DEF Keyed
      <4> QED BY <4>2, <4>3
    <3>4. ASSUME NEW f \in DOMAIN e.key
          PROVE  e.key[f] <= disk'[f]
      <4>1. e.key[f] \in Nat /\ f \in Files
        BY <3>1, PartialForm DEF Entry
      <4>2. e.key[f] <= disk[f]
        BY <3>1 DEF Keyed
      <4> QED BY <2>2, <4>1, <4>2
    <3>5. e' = e
      BY <1>3
    <3> HIDE DEF e
    <3> QED BY <3>1, <3>2, <3>3, <3>4, <3>5 DEF Keyed
  <2>4. ASSUME NEW c \in Calls
        PROVE  Loaded(call[c])'
    <3> DEFINE e == call[c]
    <3> SUFFICES ASSUME e.at = "loading"
                 PROVE  Loaded(e)'
      BY <1>3 DEF Loaded
    <3>1. Loaded(e) /\ e \in Entry
      BY DEF LoadInv, CallsTyped
    <3>2. PICK n \in 1 .. Len(history) : Between(e, n)
      BY <3>1 DEF Loaded
    <3>3. n \in 1 .. Len(history') /\ history'[n] = history[n] /\ history[n] \in Whole
      BY <1>1, <1>2, <3>2 DEF HistoryKept
    <3>4. ASSUME NEW f \in Files
          PROVE  e.key[f] <= history'[n][f] /\ history'[n][f] <= disk'[f]
      <4>1. e.key[f] <= history[n][f] /\ history[n][f] <= disk[f]
        BY <3>2 DEF Between
      <4>2. history[n][f] \in Nat
        BY <3>3 DEF Whole
      <4>3. disk[f] \in Nat /\ disk'[f] \in Nat /\ disk[f] <= disk'[f]
        BY <2>2
      <4> QED BY <3>3, <4>1, <4>2, <4>3
    <3>5. \A f \in DOMAIN e.again : history'[n][f] <= e.again[f]
      BY <3>2, <3>3 DEF Between
    <3>6. ASSUME NEW f \in DOMAIN e.view
          PROVE  e.key[f] <= e.view[f] /\ e.view[f] <= disk'[f]
      <4>1. e.view[f] \in Nat /\ f \in Files
        BY <3>1, PartialForm DEF Entry
      <4>2. e.key[f] <= e.view[f] /\ e.view[f] <= disk[f]
        BY <3>1 DEF Loaded
      <4> QED BY <2>2, <4>1, <4>2
    <3>7. e' = e
      BY <1>3
    <3>8. Between(e, n)'
      BY <3>4, <3>5, <3>7 DEF Between
    <3> HIDE DEF e
    <3> QED BY <3>1, <3>3, <3>6, <3>7, <3>8 DEF Loaded
  <2> QED BY <1>2, <1>4, <1>5, <2>3, <2>4 DEF LoadInv
<1> QED BY <1>6, <1>7, <1>8

LEMMA LoadStepKeeps == ASSUME LoadInv, NEW c \in Calls, LoadStep(c) PROVE LoadInv'
<1>1. CASE Keys(c) \/ Hits(c) \/ Misses(c) \/ Incoherent(c)
  BY <1>1, KeysKeeps, HitsKeeps, MissesKeeps, IncoherentKeeps
<1>2. CASE Loads(c) \/ LooseLoaded(c) \/ KeysAgain(c)
  BY <1>2, LoadsKeeps, LooseLoadedKeeps, KeysAgainKeeps
<1>3. CASE Caches(c) \/ LoadFails(c)
  BY <1>3, CachesKeeps, LoadFailsKeeps
<1> QED BY <1>1, <1>2, <1>3 DEF LoadStep, LoadGoes

LEMMA FacesLoadStep ==
    ASSUME Undoing = "between", LoadInv, [FacesNext]_facesVars
    PROVE  LoadInv'
<1>1. ASSUME NEW c \in Calls, CallBegins(c) \/ CallLoads(c) \/ CallLeaves(c) \/ CallEnds(c)
      PROVE  LoadInv'
  BY <1>1, BeganKeeps, LoadStepKeeps, LoadFailsKeeps, EndedKeeps
     DEF CallBegins, CallLoads, CallLeaves, CallEnds
<1>2. ASSUME NEW v \in Verbs, VerbMoves(v) \/ VerbLoses(v) \/ VerbIsDisturbed(v)
      PROVE  LoadInv'
  <2>1. UNCHANGED residentVars
    BY <1>2 DEF VerbMoves, VerbLoses, VerbIsDisturbed
  <2> QED BY <2>1, LoadsRest DEF residentVars
<1>3. CASE ServerIdles
  <2>1. UNCHANGED <<disk, history, call>> /\ tree' \in {tree, NoTree}
    BY <1>3 DEF ServerIdles, IdleStep, Fires, ReleasesIdle, ReturnsHeap, ReturnEnds
  <2> QED BY <2>1, LoadsRest
<1>4. CASE ServerStops
  BY <1>4, LoadsRest DEF ServerStops, StopsIdle
<1>5. CASE TreeMoves
  BY <1>5, EditsKeeps DEF TreeMoves
<1>6. CASE UNCHANGED facesVars
  BY <1>6, LoadsRest DEF facesVars, residentVars
<1> QED BY <1>1, <1>2, <1>3, <1>4, <1>5, <1>6 DEF FacesNext

\* Whatever the calls, the files and the edits between them: a call served
\* from the cache is served a tree of its selection, with a content the disk
\* held after that call began to look (loadTreeContext), as long as no edit is
\* undone within a load.
THEOREM CacheIsTrue ==
    ASSUME Undoing = "between"
    PROVE  FacesSpec => []HitsAreTrue
<1>1. FacesInit => LoadInv
  BY LoadInit DEF FacesInit
<1>2. LoadInv /\ [FacesNext]_facesVars => LoadInv'
  BY FacesLoadStep
<1>3. LoadInv => HitsAreTrue
  <2> SUFFICES ASSUME LoadInv, NEW c \in Calls, call[c].hit # "none"
               PROVE  /\ call[c].hit = call[c].sel
                      /\ \E n \in call[c].since .. Len(history) : history[n] = call[c].view
    BY DEF HitsAreTrue
  <2>1. Served(call[c]) /\ call[c].since \in Nat
    BY DEF LoadInv, CallsTyped, Entry
  <2> QED BY <2>1 DEF Served
<1> QED BY <1>1, <1>2, <1>3, PTL DEF FacesSpec

------------------------------------------------------------------------------
(* The heap returns.                                                       *)

\* What follows holds wherever edits are undone, so the types are kept without
\* the rest of the loads' invariant.
LEMMA OneCallTyped ==
    ASSUME CallsTyped, NEW c \in Calls, call'[c] \in Entry, tree' \in Trees,
           NEW e, call' = [call EXCEPT ![c] = e]
    PROVE  CallsTyped'
BY DEF CallsTyped

LEMMA LoadTyped ==
    ASSUME HistoryKept, CallsTyped, NEW c \in Calls, Began(c) \/ Ended(c) \/ LoadStep(c)
    PROVE  CallsTyped'
<1>1. /\ call \in [Calls -> Entry] /\ call[c] \in Entry /\ tree \in Trees /\ NoTree \in Trees
      /\ disk \in Whole /\ Len(history) \in Nat
      /\ call[c].key \in Partial /\ call[c].view \in Partial /\ call[c].again \in Partial
  BY BlankPartial DEF CallsTyped, Entry, HistoryKept, NoTree, Trees
<1>2. CASE Began(c)
  <2>1. PICK s \in Selections : call' = [call EXCEPT ![c] = [Waiting EXCEPT !.at = "keying", !.sel = s]]
    BY <1>2 DEF Began
  <2>2. [Waiting EXCEPT !.at = "keying", !.sel = s] \in Entry
    BY BlankPartial DEF Entry, Ats, Waiting
  <2> QED BY <1>1, <1>2, <2>1, <2>2 DEF CallsTyped, Began
<1>3. CASE Ended(c)
  <2>1. Waiting \in Entry
    BY BlankPartial DEF Entry, Ats, Waiting
  <2> QED BY <1>1, <1>3, <2>1 DEF CallsTyped, Ended
<1>4. CASE Keys(c)
  <2>1. Seen(call[c].key, NextFile(call[c].key)) \in Partial
    BY <1>1, <1>4, SeenForm, NextFileLeft DEF Keys
  <2> QED BY <1>1, <1>4, <2>1 DEF CallsTyped, Keys, Entry
<1>5. CASE Hits(c)
  BY <1>1, <1>5 DEF CallsTyped, Hits, Entry, Ats, Trees
<1>6. CASE Loads(c)
  <2>1. PICK f \in Files : call' = [call EXCEPT ![c].view = Seen(call[c].view, f)]
    BY <1>6 DEF Loads
  <2>2. Seen(call[c].view, f) \in Partial
    BY <1>1, SeenForm
  <2> QED BY <1>1, <1>6, <2>1, <2>2 DEF CallsTyped, Loads, Entry
<1>7. CASE KeysAgain(c)
  <2>1. Seen(call[c].again, NextFile(call[c].again)) \in Partial
    BY <1>1, <1>7, SeenForm, NextFileLeft DEF KeysAgain
  <2> QED BY <1>1, <1>7, <2>1 DEF CallsTyped, KeysAgain, Entry
<1>8. CASE Misses(c) \/ LooseLoaded(c) \/ Incoherent(c) \/ LoadFails(c) \/ Caches(c)
  <2>1. PICK a \in Ats : call' = [call EXCEPT ![c].at = a]
    BY <1>8 DEF Misses, LooseLoaded, Incoherent, LoadFails, Caches, Ats
  <2>2. tree' \in Trees
    BY <1>1, <1>8 DEF Misses, LooseLoaded, Incoherent, LoadFails, Caches, Trees, Entry
  <2> QED BY <1>1, <2>1, <2>2 DEF CallsTyped, Entry
<1> QED BY <1>2, <1>3, <1>4, <1>5, <1>6, <1>7, <1>8 DEF LoadStep, LoadGoes

LEMMA FacesTyped ==
    ASSUME HistoryKept, CallsTyped, [FacesNext]_facesVars
    PROVE  HistoryKept' /\ CallsTyped'
<1>1. ASSUME NEW c \in Calls, Began(c) \/ Ended(c) \/ LoadStep(c) \/ LoadFails(c)
      PROVE  HistoryKept' /\ CallsTyped'
  <2>1. UNCHANGED <<disk, history>>
    BY <1>1 DEF Began, Ended, LoadStep, LoadGoes, Keys, Hits, Misses, Loads, LooseLoaded,
                KeysAgain, Caches, Incoherent, LoadFails
  <2>2. HistoryKept'
    BY <2>1 DEF HistoryKept
  <2> QED BY <1>1, <2>2, LoadTyped DEF LoadStep
<1>2. CASE TreeMoves
  BY <1>2, HistoryGrows DEF TreeMoves, Edits, CallsTyped
<1>3. CASE UNCHANGED <<disk, history, call>> /\ tree' \in {tree, NoTree}
  BY <1>3, BlankPartial DEF HistoryKept, CallsTyped, NoTree, Trees
<1>4. CASE UNCHANGED residentVars
  BY <1>3, <1>4 DEF residentVars
<1>5. ASSUME NEW v \in Verbs, VerbMoves(v) \/ VerbLoses(v) \/ VerbIsDisturbed(v)
      PROVE  HistoryKept' /\ CallsTyped'
  BY <1>4, <1>5 DEF VerbMoves, VerbLoses, VerbIsDisturbed
<1>6. CASE ServerIdles \/ ServerStops
  <2>1. UNCHANGED <<disk, history, call>> /\ tree' \in {tree, NoTree}
    BY <1>6 DEF ServerIdles, ServerStops, IdleStep, Fires, ReleasesIdle, ReturnsHeap, ReturnEnds, StopsIdle
  <2> QED BY <1>3, <2>1
<1>7. CASE UNCHANGED facesVars
  BY <1>4, <1>7 DEF facesVars
<1> QED BY <1>1, <1>2, <1>5, <1>6, <1>7
        DEF FacesNext, CallBegins, CallLoads, CallLeaves, CallEnds

InCall == {c \in Calls : call[c].at # "out"}

\* The count of the calls in flight is right: without it one more begun might
\* leave it at none.
HeapInv ==
    /\ call \in [Calls -> Entry]
    /\ IsFiniteSet(InCall) /\ inFlight = Cardinality(InCall)
    /\ returning \in {"no", "starting", "judging"}
    /\ HeapReturnStands

\* Calls that go on inside leave the count alone.
LEMMA InCallStays ==
    ASSUME HeapInv, call' \in [Calls -> Entry], UNCHANGED policy,
           \A c \in Calls : call'[c].at = "out" <=> call[c].at = "out"
    PROVE  HeapInv'
<1>1. InCall' = InCall
  BY DEF InCall
<1>2. inFlight' = Cardinality(InCall')
  BY <1>1 DEF HeapInv, policy
<1> QED BY <1>1, <1>2 DEF HeapInv, HeapReturnStands, policy

LEMMA BeganHeap ==
    ASSUME HeapInv, NEW c \in Calls, Began(c), call' \in [Calls -> Entry]
    PROVE  HeapInv'
<1>1. InCall' = InCall \cup {c} /\ c \notin InCall
  BY DEF HeapInv, Began, InCall, Waiting
<1>2. /\ IsFiniteSet(InCall) /\ inFlight = Cardinality(InCall)
  BY DEF HeapInv
<1>3. IsFiniteSet(InCall \cup {c}) /\ Cardinality(InCall \cup {c}) = Cardinality(InCall) + 1
  BY <1>1, <1>2, FS_AddElement
<1>4. Cardinality(InCall) \in Nat
  BY <1>2, FS_CardinalityType
<1>5. inFlight' = Cardinality(InCall') /\ IsFiniteSet(InCall') /\ inFlight' # 0
  <2>1. inFlight' = inFlight + 1
    BY DEF Began
  <2> QED BY <1>1, <1>2, <1>3, <1>4, <2>1
<1> QED BY <1>5 DEF HeapInv, HeapReturnStands, Began

LEMMA EndedHeap ==
    ASSUME HeapInv, NEW c \in Calls, Ended(c), call' \in [Calls -> Entry]
    PROVE  HeapInv'
<1>1. InCall' = InCall \ {c} /\ c \in InCall
  BY DEF HeapInv, Ended, InCall, Waiting
<1>2. /\ IsFiniteSet(InCall) /\ inFlight = Cardinality(InCall)
  BY DEF HeapInv
<1>3. IsFiniteSet(InCall \ {c}) /\ Cardinality(InCall \ {c}) = Cardinality(InCall) - 1
  BY <1>1, <1>2, FS_RemoveElement
<1>4. Cardinality(InCall \ {c}) \in Nat
  BY <1>3, FS_CardinalityType
<1>5. inFlight' = inFlight - 1 /\ stopped' = stopped
  BY DEF Ended, CallEnded
<1>6. inFlight' = Cardinality(InCall') /\ IsFiniteSet(InCall') /\ inFlight' \in Nat
  BY <1>1, <1>2, <1>3, <1>4, <1>5
<1>7. CASE inFlight' > 0 \/ stopped
  <2>1. UNCHANGED <<returning, owed, trailing>>
    BY <1>7 DEF Ended, CallEnded
  <2>2. ~(inFlight' = 0 /\ ~stopped')
    BY <1>5, <1>6, <1>7
  <2> QED BY <1>6, <2>1, <2>2 DEF HeapInv, HeapReturnStands
<1>8. CASE ~(inFlight' > 0 \/ stopped)
  <2>1. \/ returning # "no" /\ trailing' = TRUE /\ returning' = returning
        \/ returning = "no" /\ returning' = "starting"
    BY <1>8 DEF Ended, CallEnded
  <2> QED BY <1>6, <2>1 DEF HeapInv, HeapReturnStands
<1> QED BY <1>7, <1>8

LEMMA FacesHeapStep ==
    ASSUME HeapInv, [FacesNext]_facesVars,
           call' \in [Calls -> Entry]
    PROVE  HeapInv'
<1>1. ASSUME NEW c \in Calls, CallBegins(c) \/ CallEnds(c)
      PROVE  HeapInv'
  BY <1>1, BeganHeap, EndedHeap DEF CallBegins, CallEnds
<1>2. ASSUME NEW c \in Calls, LoadStep(c) \/ LoadFails(c)
      PROVE  HeapInv'
  <2>1. UNCHANGED policy
    BY <1>2 DEF LoadStep, LoadGoes, Keys, Hits, Misses, Loads, LooseLoaded, KeysAgain,
                Caches, Incoherent, LoadFails
  <2>2. call[c].at # "out" /\ call'[c].at # "out" /\ \A d \in Calls \ {c} : call'[d] = call[d]
    <3>1. call \in [Calls -> Entry] /\ call[c] \in Entry
      BY DEF HeapInv
    <3>2. CASE Keys(c)
      BY <3>1, <3>2 DEF Keys, Entry
    <3>3. CASE Hits(c)
      BY <3>1, <3>3 DEF Hits, Entry
    <3>4. CASE Misses(c)
      BY <3>1, <3>4 DEF Misses, Entry
    <3>5. CASE Loads(c)
      BY <3>1, <3>5 DEF Loads, Entry
    <3>6. CASE LooseLoaded(c) \/ KeysAgain(c)
      BY <3>1, <3>6 DEF LooseLoaded, KeysAgain, Entry
    <3>7. CASE Caches(c) \/ Incoherent(c) \/ LoadFails(c)
      BY <3>1, <3>7 DEF Caches, Incoherent, LoadFails, Entry
    <3> QED BY <1>2, <3>2, <3>3, <3>4, <3>5, <3>6, <3>7 DEF LoadStep, LoadGoes
  <2> QED BY <2>1, <2>2, InCallStays
<1>3. ASSUME NEW v \in Verbs, VerbMoves(v) \/ VerbLoses(v) \/ VerbIsDisturbed(v)
      PROVE  HeapInv'
  <2>1. UNCHANGED residentVars
    BY <1>3 DEF VerbMoves, VerbLoses, VerbIsDisturbed
  <2> QED BY <2>1, InCallStays DEF residentVars, HeapInv
<1>4. CASE UNCHANGED <<call, inFlight>> /\ (Fires \/ ReleasesIdle \/ ReturnsHeap \/ ReturnEnds \/ StopsIdle)
  <2>1. InCall' = InCall
    BY <1>4 DEF InCall
  <2>2. inFlight' = Cardinality(InCall')
    BY <1>4, <2>1 DEF HeapInv
  <2>3. returning' \in {"no", "starting", "judging"} /\ HeapReturnStands'
    BY <1>4 DEF HeapInv, HeapReturnStands, Fires, ReleasesIdle, ReturnsHeap, ReturnEnds, StopsIdle
  <2> QED BY <2>1, <2>2, <2>3 DEF HeapInv
<1>5. CASE TreeMoves
  BY <1>5, InCallStays DEF TreeMoves, Edits, HeapInv
<1>6. CASE UNCHANGED facesVars
  BY <1>6, InCallStays DEF facesVars, residentVars, HeapInv
<1>7. ServerIdles \/ ServerStops => HeapInv'
  <2> SUFFICES ASSUME ServerIdles \/ ServerStops
               PROVE  UNCHANGED <<call, inFlight>> /\ (Fires \/ ReleasesIdle \/ ReturnsHeap \/ ReturnEnds \/ StopsIdle)
    BY <1>4
  <2> QED BY DEF ServerIdles, ServerStops, IdleStep, Fires, ReleasesIdle, ReturnsHeap, ReturnEnds, StopsIdle
<1> QED BY <1>1, <1>2, <1>3, <1>5, <1>6, <1>7 DEF FacesNext, CallLoads, CallLeaves

\* However last calls end among the returns in progress, wherever the tree is
\* edited: the heap return a last end asked for is about to start or marked
\* for the one in progress to start (callEnded, returnHeap).
THEOREM HeapReturnIsKept == FacesSpec => []HeapReturnStands
<1> DEFINE Inv == HistoryKept /\ CallsTyped /\ HeapInv
<1>1. FacesInit => Inv
  <2> SUFFICES ASSUME FacesInit PROVE Inv
    OBVIOUS
  <2>1. HistoryKept /\ CallsTyped
    BY LoadInit DEF FacesInit, LoadInv
  <2>2. InCall = {}
    BY DEF FacesInit, ResidentInit, InCall, Waiting
  <2>3. HeapInv
    BY <2>1, <2>2, FS_EmptySet DEF FacesInit, ResidentInit, HeapInv, HeapReturnStands, CallsTyped
  <2> QED BY <2>1, <2>3
<1>2. Inv /\ [FacesNext]_facesVars => Inv'
  <2> SUFFICES ASSUME Inv, [FacesNext]_facesVars PROVE Inv'
    OBVIOUS
  <2>1. HistoryKept' /\ CallsTyped'
    BY FacesTyped
  <2>2. HeapInv'
    BY <2>1, FacesHeapStep DEF CallsTyped
  <2> QED BY <2>1, <2>2
<1>3. Inv => HeapReturnStands
  BY DEF HeapInv
<1> QED BY <1>1, <1>2, <1>3, PTL DEF FacesSpec

------------------------------------------------------------------------------
(* The final merge.                                                        *)

Late      == {"disarmed"} \cup Concluding
Early     == {"start", "prepared", "loading", "returned"} \cup Running \cup Over
Timers    == {"none", "armed", "expired"}
Watchings == {"waits", "drains", "cancels", "retired"}

VerbsTyped ==
    /\ at \in [Verbs -> Early \cup Late] /\ hook \in [Verbs -> BOOLEAN]
    /\ deadline \in [Verbs -> Timers] /\ watcher \in [Verbs -> Watchings]

\* disarm's first half is what keeps its second final: with the hook gone no
\* signal arms the timer again.
MergeInv ==
    /\ VerbsTyped
    /\ \A v \in Verbs :
           /\ at[v] \in Late => hook[v] = FALSE
           /\ at[v] \in Concluding => deadline[v] # "armed"

Untimed(v) ==
    at[v] \in Concluding =>
        /\ deadline'[v] # "armed"
        /\ deadline'[v] = "expired" => deadline[v] = "expired"
        /\ watcher'[v] = "drains" => watcher[v] = "drains"

\* Of one verb's step only what it does to that verb is left to prove.
LEMMA OneVerbMoves ==
    ASSUME MergeInv, NEW v \in Verbs,
           \A w \in Verbs \ {v} :
               /\ at'[w] = at[w] /\ hook'[w] = hook[w]
               /\ deadline'[w] = deadline[w] /\ watcher'[w] = watcher[w],
           VerbsTyped',
           at'[v] \in Late => hook'[v] = FALSE,
           at'[v] \in Concluding => deadline'[v] # "armed",
           Untimed(v)
    PROVE  MergeInv' /\ \A w \in Verbs : Untimed(w)
<1>1. ASSUME NEW w \in Verbs
      PROVE  /\ at'[w] \in Late => hook'[w] = FALSE
             /\ at'[w] \in Concluding => deadline'[w] # "armed"
             /\ Untimed(w)
  <2>1. CASE w = v
    BY <2>1
  <2>2. CASE w # v
    BY <2>2 DEF MergeInv, Untimed
  <2> QED BY <2>1, <2>2
<1>2. Late' = Late /\ Concluding' = Concluding
  BY DEF Late, Concluding
<1> QED BY <1>1, <1>2 DEF MergeInv

LEMMA VerbFrame ==
    ASSUME MergeInv, UNCHANGED <<at, hook, deadline, watcher>>
    PROVE  MergeInv' /\ \A v \in Verbs : Untimed(v)
BY DEF MergeInv, VerbsTyped, Untimed, Late, Early, Timers, Watchings, Concluding

\* The verb goes somewhere else and its interrupt is left alone.
LEMMA VerbGoes ==
    ASSUME MergeInv, NEW v \in Verbs, NEW a \in Early \cup Concluding,
           at' = [at EXCEPT ![v] = a], UNCHANGED <<hook, deadline, watcher>>,
           a \in Concluding => at[v] \in Concluding
    PROVE  MergeInv' /\ \A w \in Verbs : Untimed(w)
<1>1. VerbsTyped
  BY DEF MergeInv
<1>2. VerbsTyped'
  BY <1>1 DEF VerbsTyped, Early, Late, Concluding, Timers, Watchings
<1>3. at'[v] = a /\ \A w \in Verbs \ {v} : at'[w] = at[w]
  BY <1>1 DEF VerbsTyped
<1>4. a \notin {"disarmed"}
  BY DEF Early, Concluding, Running, Over
<1>5. at'[v] \in Late => hook'[v] = FALSE
  BY <1>3, <1>4 DEF MergeInv, Late
<1>6. at'[v] \in Concluding => deadline'[v] # "armed"
  BY <1>3 DEF MergeInv
<1>7. Untimed(v)
  BY DEF Untimed, MergeInv
<1> QED BY <1>2, <1>3, <1>5, <1>6, <1>7, OneVerbMoves

\* The campaign arms the hook before Run, and disarm's two halves follow it.
LEMMA HooksKeep ==
    ASSUME MergeInv, NEW v \in Verbs, Begins(v) \/ BeginsDisarm(v) \/ Turns(v)
    PROVE  MergeInv' /\ \A w \in Verbs : Untimed(w)
<1>1. VerbsTyped /\ at[v] \notin Concluding
  BY DEF MergeInv, Begins, BeginsDisarm, Turns, Concluding
<1>2. Untimed(v)
  BY <1>1 DEF Untimed
<1>3. CASE Begins(v)
  <2>1. /\ at' = [at EXCEPT ![v] = "between"] /\ hook' = [hook EXCEPT ![v] = v \in Cli]
        /\ UNCHANGED <<deadline, watcher>>
    BY <1>3 DEF Begins, Goes
  <2>2. VerbsTyped'
    BY <1>1, <2>1 DEF VerbsTyped, Early, Late, Running, Timers, Watchings
  <2>3. at'[v] \notin Late
    BY <1>1, <2>1 DEF VerbsTyped, Late, Concluding
  <2>4. \A w \in Verbs \ {v} : at'[w] = at[w] /\ hook'[w] = hook[w]
    BY <1>1, <2>1 DEF VerbsTyped
  <2> QED BY <1>2, <2>1, <2>2, <2>3, <2>4, OneVerbMoves DEF Late
<1>4. CASE BeginsDisarm(v)
  <2>1. /\ at' = [at EXCEPT ![v] = "disarmed"] /\ hook' = [hook EXCEPT ![v] = FALSE]
        /\ UNCHANGED <<deadline, watcher>>
    BY <1>4 DEF BeginsDisarm, Goes, Disarms, DropsHook
  <2>2. VerbsTyped'
    BY <1>1, <2>1 DEF VerbsTyped, Early, Late, Timers, Watchings
  <2>3. at'[v] = "disarmed" /\ hook'[v] = FALSE
    BY <1>1, <2>1 DEF VerbsTyped
  <2>4. \A w \in Verbs \ {v} : at'[w] = at[w] /\ hook'[w] = hook[w]
    BY <1>1, <2>1 DEF VerbsTyped
  <2>5. at'[v] \notin Concluding
    BY <2>3 DEF Concluding
  <2> QED BY <1>2, <2>1, <2>2, <2>3, <2>4, <2>5, OneVerbMoves
<1>5. CASE Turns(v)
  <2>1. PICK a \in {"merging", "ended"} : at' = [at EXCEPT ![v] = a]
    BY <1>5 DEF Turns, Goes, EndsAs
  <2>2. /\ UNCHANGED <<hook, watcher>> /\ hook[v] = FALSE
        /\ deadline' = [deadline EXCEPT ![v] = IF deadline[v] = "armed" THEN "none" ELSE deadline[v]]
    <3>1. UNCHANGED <<hook, watcher>> /\ StopsDeadline(v)
      BY <1>5 DEF Turns, Disarms
    <3>2. hook[v] = FALSE
      BY <1>5 DEF Turns, MergeInv, Late
    <3> QED BY <1>1, <3>1, <3>2 DEF StopsDeadline, VerbsTyped
  <2>3. VerbsTyped'
    BY <1>1, <2>1, <2>2 DEF VerbsTyped, Early, Late, Over, Concluding, Timers, Watchings
  <2>4. /\ deadline'[v] # "armed" /\ hook'[v] = FALSE
        /\ \A w \in Verbs \ {v} : at'[w] = at[w] /\ deadline'[w] = deadline[w]
    BY <1>1, <2>1, <2>2 DEF VerbsTyped
  <2> QED BY <1>2, <2>2, <2>3, <2>4, OneVerbMoves
<1> QED BY <1>3, <1>4, <1>5

\* A signal or the timer moves.
LEMMA WatcherKeeps ==
    ASSUME MergeInv, NEW v \in Verbs, Watches(v) \/ Ticks(v)
    PROVE  MergeInv' /\ \A w \in Verbs : Untimed(w)
<1>1. VerbsTyped /\ UNCHANGED <<at, hook>>
  BY DEF MergeInv, Watches, Ticks, FireJudges, FireDrains, FireCancels, Expires, DeadlineCancels
<1>2. PICK f \in Watchings : watcher' = [watcher EXCEPT ![v] = f]
  <2>1. watcher[v] \in Watchings /\ (UNCHANGED watcher => watcher' = [watcher EXCEPT ![v] = watcher[v]])
    BY <1>1 DEF VerbsTyped
  <2> QED BY <2>1 DEF Watches, Ticks, FireJudges, FireDrains, FireCancels, Expires, DeadlineCancels, Watchings
<1>3. PICK t \in Timers : deadline' = [deadline EXCEPT ![v] = t]
  <2>1. deadline[v] \in Timers /\ (UNCHANGED deadline => deadline' = [deadline EXCEPT ![v] = deadline[v]])
    BY <1>1 DEF VerbsTyped
  <2> QED BY <2>1 DEF Watches, Ticks, FireJudges, FireDrains, FireCancels, Expires, DeadlineCancels,
                      StopsDeadline, Timers
<1>4. /\ deadline'[v] = t /\ watcher'[v] = f
      /\ \A w \in Verbs \ {v} : watcher'[w] = watcher[w] /\ deadline'[w] = deadline[w]
  BY <1>1, <1>2, <1>3 DEF VerbsTyped
<1>5. VerbsTyped'
  BY <1>1, <1>2, <1>3 DEF VerbsTyped, Early, Late, Concluding
<1>6. ASSUME at[v] \in Concluding
      PROVE  t \in {"none", deadline[v]} /\ f \in {"waits", "cancels", "retired", watcher[v]}
             /\ (t = "expired" => deadline[v] = "expired") /\ deadline[v] # "armed"
  <2>1. hook[v] = FALSE /\ deadline[v] # "armed"
    BY <1>6 DEF MergeInv, Late
  <2>2. CASE FireJudges(v)
    <3>1. watcher' = [watcher EXCEPT ![v] = "cancels"] /\ UNCHANGED deadline
      BY <2>1, <2>2 DEF FireJudges
    <3> QED BY <1>1, <1>4, <2>1, <3>1 DEF VerbsTyped
  <2>3. CASE FireDrains(v) \/ FireCancels(v)
    <3>1. watcher'[v] \in {"waits", "retired"} /\ (UNCHANGED deadline \/ deadline[v] = "armed")
      BY <1>1, <2>3 DEF FireDrains, FireCancels, StopsDeadline, VerbsTyped
    <3> QED BY <1>4, <2>1, <3>1
  <2>4. CASE Ticks(v)
    <3>1. UNCHANGED watcher /\ deadline'[v] = "none"
      BY <1>1, <2>1, <2>4 DEF Ticks, Expires, DeadlineCancels, VerbsTyped
    <3> QED BY <1>4, <2>1, <3>1
  <2> QED BY <2>2, <2>3, <2>4 DEF Watches
<1>7. Untimed(v)
  BY <1>4, <1>6 DEF Untimed
<1>8. /\ at'[v] \in Late => hook'[v] = FALSE
      /\ at'[v] \in Concluding => deadline'[v] # "armed"
  BY <1>1, <1>4, <1>6 DEF MergeInv
<1> QED BY <1>1, <1>4, <1>5, <1>7, <1>8, OneVerbMoves

LEMMA VerbStepKeeps ==
    ASSUME MergeInv, NEW v \in Verbs, VerbStep(v) \/ Disturbs(v)
    PROVE  MergeInv' /\ \A w \in Verbs : Untimed(w)
<1>1. CASE \/ ReadsPrior(v) \/ Locks(v) \/ Dispatches(v) \/ SeesStop(v) \/ Executes(v)
           \/ Drained(v) \/ RunDone(v) \/ RunCancelled(v) \/ RunFails(v)
  <2>1. PICK a \in {"prepared", "loading", "between", "draining", "executing", "returned"} :
            at' = [at EXCEPT ![v] = a]
    BY <1>1 DEF ReadsPrior, Locks, Dispatches, SeesStop, Executes, Drained, RunDone,
                RunCancelled, RunFails, Returned, Goes
  <2>2. UNCHANGED <<hook, deadline, watcher>>
    BY <1>1 DEF ReadsPrior, Locks, Dispatches, SeesStop, Executes, Drained, RunDone,
                RunCancelled, RunFails, interrupt
  <2>3. a \in Early /\ a \notin Concluding
    BY DEF Early, Running, Concluding
  <2> QED BY <2>1, <2>2, <2>3, VerbGoes
<1>2. CASE Begins(v) \/ BeginsDisarm(v) \/ Turns(v)
  BY <1>2, HooksKeep
<1>3. CASE \/ IsRefused(v) \/ PreparationFails(v) \/ Lands(v) \/ MergeFails(v) \/ Routes(v)
           \/ Renders(v) \/ Killed(v)
  <2>1. PICK a \in {"landed", "merged", "ended", "dead"} : at' = [at EXCEPT ![v] = a]
    BY <1>3 DEF IsRefused, PreparationFails, Lands, MergeFails, Routes, Renders, Killed, EndsAs, Goes
  <2>2. a \in {"landed", "merged"} => at[v] \in Concluding
    <3>1. at[v] \in Concluding \/ at' = [at EXCEPT ![v] = "ended"] \/ at' = [at EXCEPT ![v] = "dead"]
      BY <1>3 DEF IsRefused, PreparationFails, Lands, MergeFails, Routes, Renders, Killed, EndsAs, Goes,
                  Concluding
    <3>2. at'[v] = a
      BY <2>1 DEF MergeInv, VerbsTyped
    <3>3. at' = [at EXCEPT ![v] = "ended"] \/ at' = [at EXCEPT ![v] = "dead"] => at'[v] \in {"ended", "dead"}
      BY DEF MergeInv, VerbsTyped
    <3> QED BY <3>1, <3>2, <3>3
  <2>3. UNCHANGED <<hook, deadline, watcher>>
    BY <1>3 DEF IsRefused, PreparationFails, Lands, MergeFails, Routes, Renders, Killed, interrupt
  <2>4. a \in Early \cup Concluding /\ (a \in Concluding => a \in {"landed", "merged"})
    BY DEF Early, Over, Concluding
  <2> QED BY <2>1, <2>2, <2>3, <2>4, VerbGoes
<1>4. CASE Watches(v) \/ Ticks(v)
  BY <1>4, WatcherKeeps
<1>5. CASE Abandoned(v) \/ \E sig \in {"int", "term"} : Signalled(v, sig)
  <2>1. UNCHANGED <<at, hook, deadline, watcher>>
    BY <1>5 DEF Abandoned, Signalled, interrupt
  <2> QED BY <2>1, VerbFrame
<1> QED BY <1>1, <1>2, <1>3, <1>4, <1>5 DEF VerbStep, Proceeds, Disturbs

LEMMA VerbInitKept == VerbInit => MergeInv
BY DEF VerbInit, MergeInv, VerbsTyped, Early, Late, Timers, Watchings, Concluding

LEMMA FacesMergeStep ==
    ASSUME MergeInv, [FacesNext]_facesVars
    PROVE  MergeInv' /\ \A w \in Verbs : Untimed(w)
<1>1. CASE UNCHANGED verbVars
  BY <1>1, VerbFrame DEF verbVars, interrupt
<1>2. ASSUME NEW c \in Calls, CallBegins(c) \/ CallLoads(c) \/ CallLeaves(c) \/ CallEnds(c)
      PROVE  UNCHANGED verbVars
  BY <1>2 DEF CallBegins, CallLoads, CallLeaves, CallEnds
<1>3. ASSUME NEW v \in Verbs, VerbMoves(v) \/ VerbLoses(v) \/ VerbIsDisturbed(v)
      PROVE  VerbStep(v) \/ Disturbs(v)
  BY <1>3 DEF VerbMoves, VerbLoses, VerbIsDisturbed, VerbStep
<1>4. ServerIdles \/ ServerStops \/ TreeMoves => UNCHANGED verbVars
  BY DEF ServerIdles, ServerStops, TreeMoves
<1>5. UNCHANGED facesVars => UNCHANGED verbVars
  BY DEF facesVars
<1> QED BY <1>1, <1>2, <1>3, <1>4, <1>5, VerbStepKeeps DEF FacesNext

\* Whatever number of runs, windows and signals, and wherever in disarm's two
\* halves they are fired: over a final merge no drain's deadline runs or begins
\* to cancel, and a signal cancels hard (softInterrupt, runCommand).
THEOREM FinalMergeIsUntimed == FacesSpec => MergeUntimed
<1>1. FacesInit => MergeInv
  BY VerbInitKept DEF FacesInit
<1>2. MergeInv /\ [FacesNext]_facesVars => MergeInv'
  BY FacesMergeStep
<1>3. MergeInv /\ [FacesNext]_facesVars
          => [\A v \in Cli :
                 at[v] \in Concluding =>
                     /\ deadline'[v] # "armed"
                     /\ deadline'[v] = "expired" => deadline[v] = "expired"
                     /\ watcher'[v] = "drains" => watcher[v] = "drains"]_verbVars
  BY FacesMergeStep, VerbAssumption DEF Untimed
<1> QED BY <1>1, <1>2, <1>3, PTL DEF FacesSpec, MergeUntimed
=============================================================================
