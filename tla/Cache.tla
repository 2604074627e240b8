--------------------------------- MODULE Cache ---------------------------------
(***************************************************************************)
(* The machine-local cache of a tree (baselineBank in src/bank.go,         *)
(* PruneCacheContext in src/cacheprune.go): the bank file of measured      *)
(* baselines and an entry of the findings overlay.                         *)
(*                                                                         *)
(* Campaigns over the tree (on different documents, or the campaign lock   *)
(* would serialize them) keep the bank in memory and persist it at every   *)
(* deposit under a file lock they can do without: merged with the file,    *)
(* bounded by age, replaced atomically.  A prune bounds or removes the     *)
(* file, and removes overlay entries the way it read them.                 *)
(*                                                                         *)
(* A banked entry is the time it was measured at, and 0 is none.  A file   *)
(* of the former version, whose entries name no tests, is not modelled.    *)
(***************************************************************************)
EXTENDS Naturals, FiniteSets

CONSTANTS
    Campaigns,
    Baselines,  \* keys of the bank: numbers, in the order ties are broken by
    Ceiling,    \* entries that fit in the file
    Keep,       \* entries that fit in what the prune keeps, 0 for none
    MaxClock,   \* times told apart
    MaxDeposits,
    Nobody

ASSUME CacheAssumption ==
    /\ IsFiniteSet(Campaigns) /\ {Nobody, "pruner"} \cap Campaigns = {} /\ Nobody # "pruner"
    /\ IsFiniteSet(Baselines) /\ Baselines \subseteq Nat
    /\ Ceiling \in Nat \ {0} /\ Keep \in Nat /\ MaxClock \in Nat /\ MaxDeposits \in Nat

Times == 0 .. MaxClock

\* What the prune was asked for: by default no record goes.
Scopes == {"default", "local", "attested"}

VARIABLES
    disk,       \* the bank file
    memory,     \* each campaign's bank
    dirty,      \* its deposits that are not on disk
    doing,      \* what it is doing
    leaving,    \* it is at its deferred save
    lock,       \* who holds the bank file's lock
    bare,       \* writers that went on without it
    clock, deposits,
    scope, preview, \* CachePruneOptions
    pruner,     \* how far the prune is
    copy,       \* what it read of the file
    entry,      \* the overlay entry
    seen        \* what the prune read it as

bankVars  == <<memory, dirty, doing, leaving, clock, deposits>>
pruneVars == <<scope, preview, pruner, copy, seen>>
cacheVars == <<disk, bankVars, lock, bare, pruneVars, entry>>

Empty == [k \in Baselines |-> 0]

Banked(m) == {k \in Baselines : m[k] # 0}

Older(m, j, k) == m[j] < m[k] \/ (m[j] = m[k] /\ j < k)

\* The n youngest entries: the oldest go first.
Bounded(m, n) ==
    [k \in Baselines |->
        IF Cardinality({j \in Banked(m) : Older(m, k, j)}) < n THEN m[k] ELSE 0]

\* The file is empty, or full.
CacheInit ==
    /\ disk \in {Empty, Bounded([k \in Baselines |-> 1], Ceiling)}
    /\ memory = [c \in Campaigns |-> Empty]
    /\ dirty = [c \in Campaigns |-> {}]
    /\ leaving = [c \in Campaigns |-> FALSE]
    /\ lock = Nobody
    /\ bare = {}
    /\ clock = 1 /\ deposits = 0
    /\ copy = Empty
    /\ \/ /\ doing = [c \in Campaigns |-> "closed"]
          /\ pruner = "ready" /\ scope = "default"
          /\ preview = FALSE /\ entry = "none"
       \/ /\ doing = [c \in Campaigns |-> "ended"]
          /\ disk = Empty
          /\ pruner = "overlay" /\ scope \in Scopes
          /\ preview \in BOOLEAN
          /\ entry \in {"none", "plain", "attested", "legacy", "corrupt"}
    /\ seen = "none"

------------------------------------------------------------------------------
(* A campaign's bank.                                                      *)

Does(c, from, to) ==
    /\ doing[c] = from
    /\ doing' = [doing EXCEPT ![c] = to]
    /\ UNCHANGED <<pruneVars, entry>>

\* openBaselineBank: any failure to read it is an empty bank.
Opens(c) ==
    /\ Does(c, "closed", "open")
    /\ memory' \in {[memory EXCEPT ![c] = disk], memory}
    /\ UNCHANGED <<disk, dirty, leaving, clock, deposits, lock, bare>>

\* putBaseline: a deposit persists as it lands.
Puts(c, k) ==
    /\ Does(c, "open", "locking")
    /\ deposits < MaxDeposits /\ deposits' = deposits + 1
    /\ clock' \in {clock, clock + 1} \cap Times
    /\ memory' = [memory EXCEPT ![c][k] = clock']
    /\ dirty' = [dirty EXCEPT ![c] = @ \cup {k}]
    /\ UNCHANGED <<disk, leaving, lock, bare>>

\* save: what a failing write left dirty is tried once more.
Saves(c) ==
    /\ Does(c, "open", "locking") /\ dirty[c] # {}
    /\ leaving' = [leaving EXCEPT ![c] = TRUE]
    /\ UNCHANGED <<disk, memory, dirty, clock, deposits, lock, bare>>

Locks(c) ==
    /\ lock = Nobody
    /\ Does(c, "locking", "merging")
    /\ lock' = c
    /\ UNCHANGED <<disk, memory, dirty, leaving, clock, deposits, bare>>

\* The lock stays held past the wait's bound, or cannot be taken at all.
GoesBare(c) ==
    /\ Does(c, "locking", "merging")
    /\ bare' = bare \cup {c}
    /\ UNCHANGED <<disk, memory, dirty, leaving, clock, deposits, lock>>

\* Mutant of Merged: only keys the campaign knows are taken from the file.
MergedKnown(c) ==
    [k \in Baselines |->
        IF memory[c][k] # 0 /\ k \notin dirty[c] /\ disk[k] > memory[c][k]
        THEN disk[k] ELSE memory[c][k]]

\* The file's entries the campaign lacks or holds an older one of, but for
\* its own deposits.
Merged(c) ==
    [k \in Baselines |->
        IF memory[c][k] = 0 \/ (k \notin dirty[c] /\ disk[k] > memory[c][k])
        THEN disk[k] ELSE memory[c][k]]

Merges(c) ==
    /\ Does(c, "merging", "writing")
    /\ memory' = [memory EXCEPT ![c] = Merged(c)]
    /\ UNCHANGED <<disk, dirty, leaving, clock, deposits, lock, bare>>

\* The write replaces the file, or fails and is silent.
Writes(c) ==
    /\ Does(c, "writing", IF leaving[c] THEN "ended" ELSE "open")
    /\ memory' = [memory EXCEPT ![c] =
           IF leaving[c] THEN Empty ELSE Bounded(memory[c], Ceiling)]
    /\ \/ /\ disk' = Bounded(memory[c], Ceiling)
          /\ dirty' = [dirty EXCEPT ![c] = {}]
       \/ /\ dirty' = [dirty EXCEPT ![c] = IF leaving[c] THEN {} ELSE @]
          /\ UNCHANGED disk
    /\ lock' = IF lock = c THEN Nobody ELSE lock
    /\ UNCHANGED <<leaving, clock, deposits, bare>>

\* The process ends, or is killed; the kernel drops its lock.
Dies(c) ==
    /\ doing[c] \notin {"closed", "ended"}
    /\ Does(c, doing[c], "ended")
    /\ memory' = [memory EXCEPT ![c] = Empty]
    /\ dirty' = [dirty EXCEPT ![c] = {}]
    /\ lock' = IF lock = c THEN Nobody ELSE lock
    /\ UNCHANGED <<disk, leaving, clock, deposits, bare>>

------------------------------------------------------------------------------
(* The prune.                                                              *)

Prunes(from, to) ==
    /\ pruner = from
    /\ pruner' = to
    /\ UNCHANGED <<bankVars, scope, preview>>

PruneLocks ==
    /\ Prunes("ready", "reading")
    /\ \/ lock = Nobody /\ lock' = "pruner" /\ UNCHANGED bare
       \/ bare' = bare \cup {"pruner"} /\ UNCHANGED lock
    /\ UNCHANGED <<disk, copy, seen, entry>>

PruneReads ==
    /\ Prunes("reading", "cutting")
    /\ copy' = disk
    /\ UNCHANGED <<disk, lock, bare, seen, entry>>

\* The file is removed, or bounded to what is to be kept.
PruneCuts ==
    /\ Prunes("cutting", "overlay")
    /\ disk' = IF preview THEN disk ELSE Bounded(copy, Keep)
    /\ copy' = Empty
    /\ UNCHANGED <<lock, bare, seen, entry>>

\* An overlay entry is read ...
PruneLooks ==
    /\ Prunes("overlay", "judging")
    /\ seen' = entry
    /\ UNCHANGED <<disk, lock, bare, copy, entry>>

\* What goes: the corrupt always, a record when records are asked for, a
\* disposition or a record of another version when those are.
Goes(e) ==
    \/ e = "corrupt"
    \/ e = "plain" /\ scope # "default"
    \/ e \in {"attested", "legacy"} /\ scope = "attested"

\* ... and removed as it was read.  The bank's lock goes with the end.
PruneRemoves ==
    /\ Prunes("judging", "done")
    /\ entry' = IF Goes(seen) /\ ~preview THEN "none" ELSE entry
    /\ lock' = IF lock = "pruner" THEN Nobody ELSE lock
    /\ seen' = "none"
    /\ UNCHANGED <<disk, bare, copy>>

------------------------------------------------------------------------------

\* A campaign installs a record, or a reviewer attests a survivor of one:
\* both under the findings document's lock, which the prune does not take.
\* (The bank does not matter to them: they are explored with it at rest.)
AtRest == \A c \in Campaigns : doing[c] = "ended"

Installs ==
    /\ AtRest /\ entry = "none" /\ entry' = "plain"
    /\ UNCHANGED <<disk, bankVars, lock, bare, pruneVars>>

Attests ==
    /\ AtRest /\ entry = "plain" /\ entry' = "attested"
    /\ UNCHANGED <<disk, bankVars, lock, bare, pruneVars>>

Banks(c) ==
    \/ Opens(c) \/ (\E k \in Baselines : Puts(c, k)) \/ Saves(c)
    \/ Locks(c) \/ GoesBare(c) \/ Merges(c) \/ Writes(c) \/ Dies(c)

Prune == PruneLocks \/ PruneReads \/ PruneCuts \/ PruneLooks \/ PruneRemoves

CacheNext == (\E c \in Campaigns : Banks(c)) \/ Prune \/ Installs \/ Attests

CacheSpec == CacheInit /\ [][CacheNext]_cacheVars

------------------------------------------------------------------------------

\* While every writer gets the file's lock, a banked group leaves the file only
\* at the ceiling for younger ones, or by a prune: two campaigns that each hold a
\* bank of their own never lose each other's deposits (persistLocked's merge).
\* What the writer deposited itself ages from its own measurement, which a
\* failed write may have left behind the file's.
BankOnlyAges ==
    [][\A k \in Banked(disk) : bare' = {} /\ pruner' = pruner =>
           \/ k \in Banked(disk')
           \/ /\ Cardinality(Banked(disk')) = Ceiling
              /\ \A j \in Banked(disk') :
                     \/ disk'[j] >= disk[k]
                     \/ \E c \in Campaigns : doing[c] = "writing" /\ k \in dirty[c] /\ disk'[j] >= memory[c][k]
      ]_cacheVars

\* A human disposition goes only when dispositions were asked for
\* (CachePruneOptions.IncludeAttested).
DispositionsSurvive ==
    [][entry = "attested" => entry' = "attested" \/ scope = "attested"]_cacheVars
==============================================================================
