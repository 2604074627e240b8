-------------------------------- MODULE Store --------------------------------
(***************************************************************************)
(* The findings store: one document, its machine-local overlay and the     *)
(* reviewed exemption record beside it (src/store.go, src/revise.go,       *)
(* src/findings.go updateDocument, src/documentlock_unix.go).              *)
(*                                                                         *)
(* A verb opens a Store and makes committing writes.  A write holds the    *)
(* document lock throughout and is several file system steps: the          *)
(* exemption record is re-read, the layers are read and the split decided, *)
(* the exemption record is written, the document is renamed into place,    *)
(* the overlay entries leave and land one by one.  A verb may die between  *)
(* any two of them, and a reviewer edits the exemption record by hand at   *)
(* any time, without the lock.                                             *)
(*                                                                         *)
(* A record is abstracted to its version (which write produced it) and the *)
(* class the portable line tells apart.  Every overlay entry is at its     *)
(* record's own path here.                                                 *)
(***************************************************************************)
EXTENDS Naturals, FiniteSets

CONSTANTS
    Keys,          \* (symbol, selection) record keys
    Verbs,         \* processes that open the store
    NoVerb,        \* nobody holds the document lock
    NoRecord,      \* a layer holds nothing under a key
    HandEdits,     \* what a reviewer does to the exemption record
    VerbKinds,     \* the writes the verbs make
    MayDie,        \* whether a verb may crash or fail between two steps
    MaxVersion,    \* bound: writes that produce a record
    MaxHandEdits,  \* bound: hand edits of the exemption record
    LockAttempts   \* bounded wait on the document lock (50 in the code)

ASSUME StoreAssumption ==
    /\ NoVerb \notin Verbs
    /\ HandEdits \subseteq {"accept", "revoke", "tear"}
    /\ VerbKinds \subseteq {"commit", "attest", "reconcile", "prune", "retarget"}
    /\ MayDie \in BOOLEAN
    /\ MaxVersion \in Nat /\ MaxHandEdits \in Nat
    /\ LockAttempts \in Nat \ {0}

VARIABLES
    repo,       \* document rows: Keys -> record or NoRecord
    overlay,    \* overlay entries: Keys -> record or NoRecord
    exemptions, \* the exemption record's file
    lock,       \* holder of the document lock
    store,      \* each verb's open Store: entries in force, bytes loaded,
                \* committability verdicts remembered
    pc,         \* each verb's place in its write
    attempts,   \* failed attempts of each verb that waits for the lock
    plan,       \* each verb's decided write
    version,    \* records produced so far
    handEdits,  \* hand edits so far
    landed,     \* the record of the last write of a key that returned
    tried,      \* what unreturned writes of a key may have left since
    shown       \* what the exemption file has shown the lock's holder

files == <<repo, overlay, exemptions>>
bounds == <<version, handEdits>>
claims == <<landed, tried>>
ghosts == <<landed, tried, shown>>
vars == <<repo, overlay, exemptions, lock, store, pc, attempts, plan,
          version, handEdits, landed, tried, shown>>

\* The portable line tells three kinds of record apart: portable as it is,
\* portable only under a reviewed exemption (runtime-unverifiable evidence),
\* and local whatever is reviewed (dirty, uncommitted, machine-local input).
Classes == {"clean", "unverifiable", "local"}

Record == [v : 1 .. MaxVersion, class : Classes]
Layer  == [Keys -> Record \cup {NoRecord}]

\* The file: entries by the key whose subject they accept; torn when it does
\* not parse; oldKeys when its clauses still carry a spelling the load
\* re-keys.
ExemptionFile == [entries : SUBSET Keys, torn : BOOLEAN, oldKeys : BOOLEAN]

\* What route remembers of a key: the content it last judged under it and
\* the verdict.
Judgement == [rec : Record \cup {NoRecord}, ok : BOOLEAN]

StoreState == [entries : SUBSET Keys, raw : ExemptionFile,
               pending : BOOLEAN, torn : BOOLEAN,
               judged : [Keys -> Judgement]]

\* The entries the exemption file has held, and whether it was ever torn,
\* since the holder of the document lock took it.
Showing == [entries : SUBSET Keys, torn : BOOLEAN]

Plan == [repo : Layer, rewrite : BOOLEAN, removals : SUBSET Keys,
         installs : Layer, entries : SUBSET Keys, moved : BOOLEAN,
         changed : SUBSET Keys, view : Layer, measured : BOOLEAN]

Places == {"closed", "open", "waiting", "locked", "refreshed", "decided",
           "prepared", "written"}

NoLayer == [k \in Keys |-> NoRecord]

NoPlan == [repo |-> NoLayer, rewrite |-> FALSE, removals |-> {},
           installs |-> NoLayer, entries |-> {}, moved |-> FALSE,
           changed |-> {}, view |-> NoLayer, measured |-> FALSE]

NothingJudged == [k \in Keys |-> [rec |-> NoRecord, ok |-> FALSE]]

NothingShown == [entries |-> {}, torn |-> FALSE]

\* loadExemptionsFile on a well-formed file: the entries re-keyed, and
\* whether the re-key still has to be written; nothing is judged under them.
Loaded(file) == [entries |-> file.entries, raw |-> file,
                 pending |-> file.oldKeys, torn |-> FALSE,
                 judged |-> NothingJudged]

\* A store nobody holds.
Unopened == Loaded([entries |-> {}, torn |-> FALSE, oldKeys |-> FALSE])

Init ==
    /\ repo = NoLayer
    /\ overlay = NoLayer
    /\ exemptions \in {e \in ExemptionFile : ~e.torn}
    /\ lock = NoVerb
    /\ store = [p \in Verbs |-> Unopened]
    /\ pc = [p \in Verbs |-> "closed"]
    /\ attempts = [p \in Verbs |-> 0]
    /\ plan = [p \in Verbs |-> NoPlan]
    /\ version = 0
    /\ handEdits = 0
    /\ landed = NoLayer
    /\ tried = [k \in Keys |-> {}]
    /\ shown = NothingShown

------------------------------------------------------------------------------
(* Opening a store and taking the document lock.                           *)

\* NewStore: a malformed record refuses the open.
Open(p) ==
    /\ pc[p] = "closed"
    /\ ~exemptions.torn
    /\ store' = [store EXCEPT ![p] = Loaded(exemptions)]
    /\ pc' = [pc EXCEPT ![p] = "open"]
    /\ UNCHANGED <<files, lock, attempts, plan, bounds, ghosts>>

\* The verb is done with its store.
Close(p) ==
    /\ pc[p] = "open"
    /\ pc' = [pc EXCEPT ![p] = "closed"]
    /\ store' = [store EXCEPT ![p] = Unopened]
    /\ UNCHANGED <<files, lock, attempts, plan, bounds, ghosts>>

\* A committing write enters updateDocument.
BeginWrite(p) ==
    /\ pc[p] = "open"
    /\ pc' = [pc EXCEPT ![p] = "waiting"]
    /\ UNCHANGED <<files, lock, store, attempts, plan, bounds, ghosts>>

\* acquireDocumentLock: a non-blocking try that wins ...
Acquire(p) ==
    /\ pc[p] = "waiting" /\ lock = NoVerb
    /\ lock' = p
    /\ pc' = [pc EXCEPT ![p] = "locked"]
    /\ attempts' = [attempts EXCEPT ![p] = 0]
    /\ shown' = [entries |-> exemptions.entries, torn |-> exemptions.torn]
    /\ UNCHANGED <<files, store, plan, bounds, claims>>

\* One more attempt at the lock.
Tries(n) == n + 1

\* ... or finds a holder, sleeps and tries again, and after its last attempt
\* refuses the write naming the holder.
Blocked(p) ==
    /\ pc[p] = "waiting" /\ lock # NoVerb
    /\ IF Tries(attempts[p]) = LockAttempts
       THEN /\ pc' = [pc EXCEPT ![p] = "closed"]
            /\ store' = [store EXCEPT ![p] = Unopened]
            /\ attempts' = [attempts EXCEPT ![p] = 0]
       ELSE /\ attempts' = [attempts EXCEPT ![p] = Tries(@)]
            /\ UNCHANGED <<pc, store>>
    /\ UNCHANGED <<files, lock, plan, bounds, ghosts>>

------------------------------------------------------------------------------
(* Deciding a write.                                                       *)

\* Mutants of Refreshed: the write judges under the entries of its open; a
\* moved file leaves the verdicts standing.
RefreshedNot(s) == s

RefreshedRemembering(s) ==
    IF exemptions = s.raw THEN [s EXCEPT !.torn = FALSE]
    ELSE IF exemptions.torn THEN [s EXCEPT !.torn = TRUE]
    ELSE [Loaded(exemptions) EXCEPT !.judged = s.judged]

\* refreshExemptions: the file as it now stands, with nothing judged under
\* it yet, unless it is torn, which leaves the entries in force alone.
Refreshed(s) ==
    IF exemptions = s.raw THEN [s EXCEPT !.torn = FALSE]
    ELSE IF exemptions.torn THEN [s EXCEPT !.torn = TRUE]
    ELSE Loaded(exemptions)

Refresh(p) ==
    /\ pc[p] = "locked"
    /\ store' = [store EXCEPT ![p] = Refreshed(@)]
    /\ pc' = [pc EXCEPT ![p] = "refreshed"]
    /\ UNCHANGED <<files, lock, attempts, plan, bounds, ghosts>>

\* mergeLayers: the overlay wins per key.
Merge(r, o) == [k \in Keys |-> IF o[k] = NoRecord THEN r[k] ELSE o[k]]

\* portableLineWalk with no failing clause.
Committable(k, rec, entries) ==
    /\ rec # NoRecord
    /\ \/ rec.class = "clean"
       \/ rec.class = "unverifiable" /\ k \in entries

\* Store.route: the verdict remembered for this very content, or a fresh
\* walk of the portable line.
Routed(k, rec, s) ==
    IF s.judged[k].rec = rec THEN s.judged[k].ok
    ELSE Committable(k, rec, s.entries)

\* The store once it routed every record of a layer, remembering each.
Judging(layer, s) ==
    [s EXCEPT !.judged = [k \in Keys |->
        IF layer[k] = NoRecord THEN s.judged[k]
        ELSE [rec |-> layer[k], ok |-> Routed(k, layer[k], s)]]]

\* Mutant of Incumbent: every standing row is kept as portable truth.
IncumbentKept(k, s) == repo[k]

\* A row the document holds stays only while it is portable.
Incumbent(k, s) == IF Routed(k, repo[k], s) THEN repo[k] ELSE NoRecord

\* Mutant of SplitRow: the newer record always takes the document's row.
SplitRowEvicting(k, next, s) ==
    IF Routed(k, next[k], s) THEN next[k] ELSE NoRecord

\* Store.Update's split: the document row of key k once the update returned
\* the merged set next, whose records are routed ahead of the standing rows.
SplitRow(k, next, s) ==
    IF next[k] = NoRecord THEN NoRecord
    ELSE IF Routed(k, next[k], s) THEN next[k]
    ELSE Incumbent(k, Judging(next, s))

\* Mutants of Removals: an overlay entry outlives its promotion; an entry
\* about to be rewritten is removed first.
RemovalsPrunedOnly(next, s) ==
    {k \in Keys : overlay[k] # NoRecord /\ next[k] = NoRecord}

RemovalsRewritten(next, s) ==
    {k \in Keys : overlay[k] # NoRecord /\ next[k] # overlay[k]}

\* Overlay entries that leave: the pruned and the promoted.
Removals(next, s) ==
    {k \in Keys : /\ overlay[k] # NoRecord
                  /\ next[k] = NoRecord \/ Routed(k, next[k], s)}

\* Overlay entries that land: local records the overlay does not hold yet.
Installs(next, s) ==
    [k \in Keys |->
        IF next[k] = overlay[k] \/ Routed(k, next[k], s)
        THEN NoRecord ELSE next[k]]

\* Store.Update's decision on the set its callback returned.
UpdatePlan(next, s) ==
    [repo     |-> [k \in Keys |-> SplitRow(k, next, s)],
     rewrite  |-> TRUE,
     removals |-> Removals(next, s),
     installs |-> Installs(next, s),
     entries  |-> s.entries,
     moved    |-> FALSE,
     changed  |-> {k \in Keys : next[k] # Merge(repo, overlay)[k]},
     view     |-> next,
     measured |-> TRUE]

\* What the decision may leave visible under key k if the verb dies.
Decide(p, decided, interim) ==
    /\ plan' = [plan EXCEPT ![p] = decided]
    /\ tried' = [k \in Keys |->
           IF k \in decided.changed
           THEN tried[k] \cup {decided.view[k]} \cup interim[k]
           ELSE tried[k]]
    /\ pc' = [pc EXCEPT ![p] = "decided"]
    /\ UNCHANGED <<files, lock, attempts, handEdits, landed, shown>>

NoInterim == [k \in Keys |-> {}]

\* Store.Update under the lock: the callback's set, split by verdicts that
\* the store keeps - the returned records', then the standing rows'.
DecideUpdate(p, next) ==
    /\ Decide(p, UpdatePlan(next, store[p]), NoInterim)
    /\ store' = [store EXCEPT ![p] = Judging(repo, Judging(next, @))]

\* RunLedger.Commit: one freshly measured record replaces its key's.
DecideCommit(p) ==
    /\ pc[p] = "refreshed" /\ "commit" \in VerbKinds
    /\ version < MaxVersion
    /\ version' = version + 1
    /\ \E k \in Keys, c \in Classes :
           DecideUpdate(p, [Merge(repo, overlay) EXCEPT ![k] =
                                [v |-> version + 1, class |-> c]])

\* The attest verb: a standing record gains a disposition, its evidence and
\* so its class unchanged.
DecideAttest(p) ==
    /\ pc[p] = "refreshed" /\ "attest" \in VerbKinds
    /\ version < MaxVersion
    /\ version' = version + 1
    /\ \E k \in Keys :
           /\ Merge(repo, overlay)[k] # NoRecord
           /\ DecideUpdate(p, [Merge(repo, overlay) EXCEPT ![k].v = version + 1])

\* RunLedger.Finish of a whole-tree run: keys the run did not discover leave.
DecideReconcile(p) ==
    /\ pc[p] = "refreshed" /\ "reconcile" \in VerbKinds
    /\ \E discovered \in SUBSET Keys :
           DecideUpdate(p, [k \in Keys |-> IF k \in discovered
                                          THEN Merge(repo, overlay)[k]
                                          ELSE NoRecord])
    /\ UNCHANGED version

------------------------------------------------------------------------------
(* The record verbs: edits in each record's own layer, never re-judged.    *)

\* Store.Revise under prune: records whose symbol no longer resolves leave
\* the layer they are in.
PrunePlan(kept, entries) ==
    LET keep(layer) == [k \in Keys |-> IF k \in kept THEN layer[k] ELSE NoRecord]
    IN  [repo     |-> keep(repo),
         rewrite  |-> keep(repo) # repo,
         removals |-> {k \in Keys \ kept : overlay[k] # NoRecord},
         installs |-> NoLayer,
         entries  |-> entries,
         moved    |-> FALSE,
         changed  |-> {k \in Keys \ kept : Merge(repo, overlay)[k] # NoRecord},
         view     |-> keep(Merge(repo, overlay)),
         measured |-> FALSE]

DecidePrune(p) ==
    /\ pc[p] = "refreshed" /\ "prune" \in VerbKinds
    /\ \E kept \in SUBSET Keys :
           Decide(p, PrunePlan(kept, store[p].entries), NoInterim)
    /\ UNCHANGED <<store, version>>

\* One layer under a rename; a layer without the old key stands.
Renamed(layer, from, to) ==
    IF layer[from] = NoRecord THEN layer
    ELSE [layer EXCEPT ![to] = layer[from], ![from] = NoRecord]

RenamedEntries(entries, from, to) ==
    IF from \in entries THEN (entries \ {from}) \cup {to} ELSE entries

\* Two records of one layer, or two reviewed entries, would share a key.
Collides(from, to, entries) ==
    \/ repo[from] # NoRecord /\ repo[to] # NoRecord
    \/ overlay[from] # NoRecord /\ overlay[to] # NoRecord
    \/ from \in entries /\ to \in entries

\* Store.ReviseExemptions under retarget: the record moves to its new key in
\* its own layer, the reviewed entries move with it.
RetargetPlan(from, to, entries) ==
    LET repoNext    == Renamed(repo, from, to)
        overlayNext == Renamed(overlay, from, to)
        before      == Merge(repo, overlay)
        after       == Merge(repoNext, overlayNext)
    IN  [repo     |-> repoNext,
         rewrite  |-> repoNext # repo,
         removals |-> {k \in {from} : overlay[k] # NoRecord},
         installs |-> [k \in Keys |->
                          IF k = to /\ overlay[from] # NoRecord
                          THEN overlay[from] ELSE NoRecord],
         entries  |-> RenamedEntries(entries, from, to),
         moved    |-> from \in entries,
         changed  |-> {k \in Keys : before[k] # after[k]},
         view     |-> after,
         measured |-> FALSE]

\* Torn since the open refuses the rewrite; so does a collision.
DecideRetarget(p) ==
    /\ pc[p] = "refreshed" /\ "retarget" \in VerbKinds
    /\ ~store[p].torn
    /\ \E from \in Keys : \E to \in Keys \ {from} :
           /\ Merge(repo, overlay)[from] # NoRecord
           /\ ~Collides(from, to, store[p].entries)
           /\ Decide(p, RetargetPlan(from, to, store[p].entries),
                     [NoInterim EXCEPT ![to] = {repo[from]}])
    /\ UNCHANGED <<store, version>>

\* The verb's callback errors - no such record, a collision, a torn record
\* under a subject rewrite - and nothing was written.
Refuse(p) ==
    /\ pc[p] = "refreshed"
    /\ lock' = NoVerb
    /\ pc' = [pc EXCEPT ![p] = "closed"]
    /\ store' = [store EXCEPT ![p] = Unopened]
    /\ shown' = NothingShown
    /\ UNCHANGED <<files, attempts, plan, bounds, claims>>

------------------------------------------------------------------------------
(* Carrying a decided write out.                                           *)

\* prepareExemptions: the one write of the exemption record, ahead of the
\* document's: a retarget's moves and the pending re-key, never when the
\* record was torn at the refresh.  The verdicts stay (rewriteExemptions).
Prepare(p) ==
    /\ pc[p] = "decided"
    /\ LET s       == store[p]
           writes  == ~s.torn /\ (plan[p].moved \/ s.pending)
           written == [entries |-> plan[p].entries, torn |-> FALSE,
                       oldKeys |-> FALSE]
       IN  IF writes
           THEN /\ exemptions' = written
                /\ store' = [store EXCEPT ![p] =
                                [Loaded(written) EXCEPT !.judged = s.judged]]
           ELSE UNCHANGED <<exemptions, store>>
    /\ pc' = [pc EXCEPT ![p] = "prepared"]
    /\ UNCHANGED <<repo, overlay, lock, attempts, plan, bounds, ghosts>>

\* writeRecordFile: the document is renamed into place whole.
WriteDocument(p) ==
    /\ pc[p] = "prepared"
    /\ repo' = IF plan[p].rewrite THEN plan[p].repo ELSE repo
    /\ pc' = [pc EXCEPT ![p] = "written"]
    /\ UNCHANGED <<overlay, exemptions, lock, store, attempts, plan, bounds, ghosts>>

\* applyOverlayEdits: removals first ...
RemoveEntry(p, k) ==
    /\ pc[p] = "written" /\ k \in plan[p].removals
    /\ overlay' = [overlay EXCEPT ![k] = NoRecord]
    /\ plan' = [plan EXCEPT ![p].removals = @ \ {k}]
    /\ UNCHANGED <<repo, exemptions, lock, store, pc, attempts, bounds, ghosts>>

\* ... then each install, by an atomic rename.
InstallEntry(p, k) ==
    /\ pc[p] = "written" /\ plan[p].removals = {}
    /\ plan[p].installs[k] # NoRecord
    /\ overlay' = [overlay EXCEPT ![k] = plan[p].installs[k]]
    /\ plan' = [plan EXCEPT ![p].installs[k] = NoRecord]
    /\ UNCHANGED <<repo, exemptions, lock, store, pc, attempts, bounds, ghosts>>

\* The write returns success and its release drops the lock.  A store may
\* make further measuring writes; a record verb makes its one and is done -
\* no Update follows a retarget on one Store, the premise on which
\* rewriteExemptions lets the verdicts stand.
Return(p) ==
    /\ pc[p] = "written"
    /\ plan[p].removals = {} /\ plan[p].installs = NoLayer
    /\ lock' = NoVerb
    /\ IF plan[p].measured
       THEN /\ pc' = [pc EXCEPT ![p] = "open"]
            /\ UNCHANGED store
       ELSE /\ pc' = [pc EXCEPT ![p] = "closed"]
            /\ store' = [store EXCEPT ![p] = Unopened]
    /\ landed' = [k \in Keys |-> IF k \in plan[p].changed
                                 THEN plan[p].view[k] ELSE landed[k]]
    /\ tried' = [k \in Keys |-> IF k \in plan[p].changed THEN {} ELSE tried[k]]
    /\ plan' = [plan EXCEPT ![p] = NoPlan]
    /\ shown' = NothingShown
    /\ UNCHANGED <<files, attempts, bounds>>

\* The process dies, its context is cancelled or a step fails: what landed
\* stays, and the kernel - or the deferred release - drops the lock.
Die(p) ==
    /\ MayDie
    /\ pc[p] \in Places \ {"closed", "open"}
    /\ lock' = IF lock = p THEN NoVerb ELSE lock
    /\ shown' = IF lock = p THEN NothingShown ELSE shown
    /\ pc' = [pc EXCEPT ![p] = "closed"]
    /\ store' = [store EXCEPT ![p] = Unopened]
    /\ attempts' = [attempts EXCEPT ![p] = 0]
    /\ plan' = [plan EXCEPT ![p] = NoPlan]
    /\ UNCHANGED <<files, bounds, claims>>

------------------------------------------------------------------------------
(* The reviewer's hand.                                                    *)

Accept(k) ==
    /\ "accept" \in HandEdits /\ ~exemptions.torn /\ k \notin exemptions.entries
    /\ exemptions' = [exemptions EXCEPT !.entries = @ \cup {k}]

Revoke(k) ==
    /\ "revoke" \in HandEdits /\ ~exemptions.torn /\ k \in exemptions.entries
    /\ exemptions' = [exemptions EXCEPT !.entries = @ \ {k}]

\* A half-saved edit, and its repair.
Tear ==
    /\ "tear" \in HandEdits
    /\ exemptions' = [exemptions EXCEPT !.torn = ~@]

HandEdit ==
    /\ handEdits < MaxHandEdits
    /\ handEdits' = handEdits + 1
    /\ (\E k \in Keys : Accept(k) \/ Revoke(k)) \/ Tear
    /\ shown' = IF lock = NoVerb THEN shown
                ELSE [entries |-> shown.entries \cup exemptions'.entries,
                      torn    |-> shown.torn \/ exemptions'.torn]
    /\ UNCHANGED <<repo, overlay, lock, store, pc, attempts, plan, version, claims>>

------------------------------------------------------------------------------

Deciding(p) ==
    \/ DecideCommit(p) \/ DecideAttest(p) \/ DecideReconcile(p)
    \/ DecidePrune(p) \/ DecideRetarget(p) \/ Refuse(p)

Carry(p) ==
    \/ Prepare(p) \/ WriteDocument(p)
    \/ (\E k \in Keys : RemoveEntry(p, k) \/ InstallEntry(p, k))
    \/ Return(p)

LockStep(p) == Acquire(p) \/ Blocked(p)

Next ==
    \/ \E p \in Verbs :
           \/ Open(p) \/ Close(p) \/ BeginWrite(p) \/ LockStep(p)
           \/ Refresh(p) \/ Deciding(p) \/ Carry(p) \/ Die(p)
    \/ HandEdit

Spec == Init /\ [][Next]_vars

------------------------------------------------------------------------------

View == Merge(repo, overlay)

TypeOK ==
    /\ repo \in Layer
    /\ overlay \in Layer
    /\ exemptions \in ExemptionFile
    /\ lock \in Verbs \cup {NoVerb}
    /\ store \in [Verbs -> StoreState]
    /\ pc \in [Verbs -> Places]
    /\ attempts \in [Verbs -> 0 .. LockAttempts]
    /\ plan \in [Verbs -> Plan]
    /\ version \in 0 .. MaxVersion
    /\ handEdits \in 0 .. MaxHandEdits
    /\ landed \in Layer
    /\ tried \in [Keys -> SUBSET (Record \cup {NoRecord})]
    /\ shown \in Showing

\* A verb past the lock holds it: two verbs never decide on, or carry out,
\* writes of one document at once (acquireDocumentLock, the release after).
OneWriter ==
    \A p \in Verbs :
        pc[p] \in {"locked", "refreshed", "decided", "prepared", "written"}
            => lock = p

\* What a decided write is about to do was decided on the layers that are
\* still there: the document has not moved under it (the freshest-state
\* claim of Store.Update), so no other session's row is evicted by a stale
\* merge.
DecidedOnFreshState ==
    \A p \in Verbs :
        /\ pc[p] \in {"decided", "prepared"}
        => \A k \in Keys \ plan[p].changed : plan[p].view[k] = View[k]

\* What a reader may find under a key: the record of the last write of it
\* that returned, or one a later unreturned write may have left.
Known(k) == {landed[k]} \cup tried[k]

\* A reader of the merged layers finds under a key what it may find there,
\* never an older record.  Nothing is one of the things it may find when a
\* write cut short offered it: a prune, or a retarget of the key to another.
\* Of a key with a record that stands in the document by a reviewed exemption
\* alone this says nothing: such a row falls with its exemption
\* (NeverALostRecord).
KeysSurvive ==
    \A k \in Keys :
        (\A rec \in Known(k) : rec = NoRecord \/ rec.class # "unverifiable")
            => View[k] \in Known(k)

\* A record verb loses sight of no portable record it keeps: at each of its
\* steps a reader finds the record, under the key it had or under the one it
\* moves to.  Of a record that is not portable this says nothing: a retarget
\* moves an overlay entry by a removal and then an install, and one that dies
\* between them leaves the record in neither layer.
PortableInSight ==
    \A p \in Verbs :
        /\ pc[p] \in {"decided", "prepared", "written"}
        /\ ~plan[p].measured
        => \A k \in Keys :
               /\ plan[p].view[k] # NoRecord
               /\ plan[p].view[k].class = "clean"
               => \E j \in Keys : View[j] = plan[p].view[k]

\* A committed claim survives: whoever dies where, in the middle of every
\* write, and whatever a reviewer revokes, accepts or tears.
CommittedSurvives == KeysSurvive /\ PortableInSight

\* The store implements the registers of module Register: the several file
\* system steps of a write, cut short anywhere, are for each key one switch
\* of its visible record, and a write that returned is visible.
Registers == INSTANCE Register WITH
    Values  <- Record \cup {NoRecord},
    Absent  <- NoRecord,
    value   <- View,
    last    <- landed,
    pending <- tried

KeysAreRegisters == Registers!Spec

\* The same of every record, between writes only: what the comment on
\* Store.Update promises of a crash, "never a lost record".
NeverALostRecord ==
    lock = NoVerb => \A k \in Keys : View[k] \in Known(k)

\* The document carries only portable rows: when a measuring write's rename
\* lands, every row it leaves passes the portable line under the entries the
\* exemption file itself has held since the write took its lock, unless the
\* file was torn then.  A row whose exemption was taken back before the write
\* began is gone after it, however many writes ago the store was opened, the
\* entries loaded and the row judged (refreshExemptions, route).
DocumentPortable ==
    [][\A p \in Verbs :
           /\ pc[p] = "prepared" /\ pc'[p] = "written"
           /\ plan[p].measured /\ ~shown.torn
           => \A k \in Keys : repo'[k] # NoRecord =>
                  Committable(k, repo'[k], shown.entries)]_vars

\* A document row is never replaced by an older one: portable truth is not
\* evicted by a measurement that came before it.
DocumentNeverRegresses ==
    [][\A k \in Keys : repo[k] # NoRecord /\ repo'[k] # NoRecord
           => repo'[k].v >= repo[k].v]_vars
==============================================================================
