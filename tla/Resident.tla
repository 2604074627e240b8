------------------------------ MODULE Resident ------------------------------
(***************************************************************************)
(* What the MCP server keeps between tool calls: the loaded tree, cached    *)
(* under a fingerprint of its inputs, and its heap (loadTreeContext in      *)
(* src/internal/mcpserver/treecache.go; callBegan, callEnded, returnHeap,   *)
(* stopIdle and releaseIdle in src/internal/mcpserver/resident.go).  Calls  *)
(* run concurrently, the tree is edited under them, the idle timer fires    *)
(* at any time.                                                             *)
(*                                                                          *)
(* A fingerprint and a load each read the files one at a time.  A content   *)
(* is a function from the files to their versions.                          *)
(***************************************************************************)
EXTENDS Integers, Sequences, FiniteSets

CONSTANTS
    Calls,          \* tool calls in flight at once
    Files,          \* the loader's inputs
    Selections,     \* build selections a call may name
    MaxCalls,       \* bound: calls begun
    MaxEdits,       \* bound: edits of the tree
    Undoing,        \* when an edit may be undone: "between" loads, or "anywhere"
    NoCall

ASSUME ResidentAssumption ==
    /\ NoCall \notin Calls /\ Undoing \in {"between", "anywhere"}
    /\ MaxCalls \in Nat /\ MaxEdits \in Nat
    \* The walk goes by name.
    /\ \A F \in SUBSET Files : F # {} => \E f \in F : \A g \in F : f <= g

VARIABLES
    disk,           \* what the tree holds
    history,        \* ghost: every content it had, in order
    tree,           \* s.tree, s.treeKey
    mu,             \* who holds s.mu
    call,           \* where each call is
    begun,          \* bound: calls begun so far
    inFlight,       \* s.inFlight
    idle,           \* s.idle is a timer that has not fired
    fired,          \* releaseIdle callbacks started and waiting for idleMu
    returning,      \* the heap return in progress
    trailing,       \* s.trailing
    stopped,        \* s.stopped
    owed            \* ghost: a last call ended, the return it asked for has not begun

policy       == <<inFlight, idle, fired, returning, trailing, stopped, owed>>
residentVars == <<disk, history, tree, mu, call, begun, policy>>

Blank   == [f \in {} |-> 0]
NoTree  == [key |-> Blank, sel |-> "none", content |-> Blank]
Waiting == [at |-> "out", sel |-> "none", since |-> 0, key |-> Blank, view |-> Blank,
            again |-> Blank, hit |-> "none"]

ResidentInit ==
    /\ disk = [f \in Files |-> 0] /\ history = <<disk>>
    /\ tree = NoTree /\ mu = NoCall
    /\ call = [c \in Calls |-> Waiting] /\ begun = 0
    /\ inFlight = 0 /\ idle = FALSE /\ fired = 0
    /\ returning = "no" /\ trailing = FALSE /\ stopped = FALSE /\ owed = FALSE

------------------------------------------------------------------------------
(* A call's start and end.                                                  *)

\* callBegan: counted, the idle timer stopped.
Began(c) ==
    /\ call[c].at = "out" /\ begun < MaxCalls /\ ~stopped
    /\ begun' = begun + 1
    /\ \E s \in Selections :
           call' = [call EXCEPT ![c] = [Waiting EXCEPT !.at = "keying", !.sel = s]]
    /\ inFlight' = inFlight + 1
    /\ idle' = FALSE
    /\ UNCHANGED <<disk, history, tree, mu, fired, returning, trailing, stopped, owed>>

\* Mutant: under a return in progress the idle release is not armed.
CallEndedLate ==
    /\ inFlight' = inFlight - 1
    /\ IF inFlight' > 0 \/ stopped
       THEN UNCHANGED <<idle, returning, trailing, owed>>
       ELSE /\ owed' = TRUE
            /\ IF returning # "no"
               THEN trailing' = TRUE /\ UNCHANGED <<idle, returning>>
               ELSE idle' = TRUE /\ returning' = "starting" /\ UNCHANGED trailing

\* callEnded: the last call in flight arms the idle release and begins a heap
\* return, or marks the one in progress.
CallEnded ==
    /\ inFlight' = inFlight - 1
    /\ IF inFlight' > 0 \/ stopped
       THEN UNCHANGED <<idle, returning, trailing, owed>>
       ELSE /\ owed' = TRUE
            /\ idle' = TRUE
            /\ IF returning # "no"
               THEN trailing' = TRUE /\ UNCHANGED returning
               ELSE returning' = "starting" /\ UNCHANGED trailing

\* A call answered, a panic's error included.
Ended(c) ==
    /\ call[c].at \in {"served", "failed"}
    /\ call' = [call EXCEPT ![c] = Waiting]
    /\ CallEnded
    /\ UNCHANGED <<disk, history, tree, mu, begun, fired, stopped>>

------------------------------------------------------------------------------
(* The tree.                                                                *)

Read(o)  == Files \subseteq DOMAIN o
Seen(o, f) == [g \in DOMAIN o \cup {f} |-> IF g = f THEN disk[f] ELSE o[g]]

\* The walk is in one order, the loader's in none.
NextFile(o) == CHOOSE f \in Files \ DOMAIN o : \A g \in Files \ DOMAIN o : f <= g

\* The fingerprint before the load.
Keys(c) ==
    /\ call[c].at = "keying" /\ ~Read(call[c].key)
    /\ call' = [call EXCEPT ![c].key = Seen(@, NextFile(@)),
                           ![c].since = IF call[c].key = Blank THEN Len(history) ELSE @]
    /\ UNCHANGED <<disk, history, tree, mu, begun, policy>>

\* The tree has no coherent fingerprint (inputs from outside it, a failed
\* walk): nothing is kept and the load is the call's own.
Incoherent(c) ==
    /\ call[c].at = "keying" /\ mu = NoCall
    /\ tree' = NoTree
    /\ call' = [call EXCEPT ![c].at = "loose"]
    /\ UNCHANGED <<disk, history, mu, begun, policy>>

Hits(c) ==
    /\ call[c].at = "keying" /\ Read(call[c].key) /\ mu = NoCall
    /\ tree # NoTree /\ tree.key = call[c].key /\ tree.sel = call[c].sel
    /\ call' = [call EXCEPT ![c].at = "served", ![c].view = tree.content, ![c].hit = tree.sel]
    /\ UNCHANGED <<disk, history, tree, mu, begun, policy>>

Misses(c) ==
    /\ call[c].at = "keying" /\ Read(call[c].key) /\ mu = NoCall
    /\ ~(tree # NoTree /\ tree.key = call[c].key /\ tree.sel = call[c].sel)
    /\ mu' = c
    /\ call' = [call EXCEPT ![c].at = "loading"]
    /\ UNCHANGED <<disk, history, tree, begun, policy>>

Loads(c) ==
    /\ call[c].at \in {"loading", "loose"}
    /\ \E f \in Files \ DOMAIN call[c].view : call' = [call EXCEPT ![c].view = Seen(@, f)]
    /\ UNCHANGED <<disk, history, tree, mu, begun, policy>>

\* Mutant: the failed load keeps s.mu.
LoadFailsHeld(c) ==
    /\ call[c].at \in {"keying", "loading", "loose"}
    /\ call' = [call EXCEPT ![c].at = "failed"]
    /\ tree' = IF mu = c THEN NoTree ELSE tree
    /\ UNCHANGED <<disk, history, mu, begun, policy>>

\* The load fails, or the context is cancelled under the fingerprint.
LoadFails(c) ==
    /\ call[c].at \in {"keying", "loading", "loose"}
    /\ call' = [call EXCEPT ![c].at = "failed"]
    /\ IF mu = c THEN tree' = NoTree /\ mu' = NoCall ELSE UNCHANGED <<tree, mu>>
    /\ UNCHANGED <<disk, history, begun, policy>>

LooseLoaded(c) ==
    /\ call[c].at = "loose" /\ Read(call[c].view)
    /\ call' = [call EXCEPT ![c].at = "served"]
    /\ UNCHANGED <<disk, history, tree, mu, begun, policy>>

\* The fingerprint after the load.
KeysAgain(c) ==
    /\ call[c].at = "loading" /\ Read(call[c].view) /\ ~Read(call[c].again)
    /\ call' = [call EXCEPT ![c].again = Seen(@, NextFile(@))]
    /\ UNCHANGED <<disk, history, tree, mu, begun, policy>>

\* Mutant: the tree is kept under the fingerprint taken before the load.
CachesUnchecked(c) ==
    /\ call[c].at = "loading" /\ Read(call[c].again)
    /\ tree' = [key |-> call[c].key, sel |-> call[c].sel, content |-> call[c].view]
    /\ mu' = NoCall
    /\ call' = [call EXCEPT ![c].at = "served"]
    /\ UNCHANGED <<disk, history, begun, policy>>

\* The tree is kept when the two fingerprints are the same.
Caches(c) ==
    /\ call[c].at = "loading" /\ Read(call[c].again)
    /\ tree' = IF call[c].again = call[c].key
               THEN [key |-> call[c].key, sel |-> call[c].sel, content |-> call[c].view]
               ELSE NoTree
    /\ mu' = NoCall
    /\ call' = [call EXCEPT ![c].at = "served"]
    /\ UNCHANGED <<disk, history, begun, policy>>

------------------------------------------------------------------------------
(* The idle server.                                                         *)

\* The idle window elapsed: the callback runs on a goroutine of its own, and
\* stopping the timer no longer stops it.
Fires ==
    /\ idle
    /\ idle' = FALSE /\ fired' = fired + 1
    /\ UNCHANGED <<disk, history, tree, mu, call, begun, inFlight, returning, trailing, stopped, owed>>

\* releaseIdle: judged and done under idleMu, then the heap is returned.
ReleasesIdle ==
    /\ fired > 0
    /\ fired' = fired - 1
    /\ \/ /\ inFlight > 0 \/ stopped
          /\ UNCHANGED <<tree, owed>>
       \/ /\ inFlight = 0 /\ ~stopped /\ mu = NoCall
          /\ tree' = NoTree
    /\ UNCHANGED <<disk, history, mu, call, begun, inFlight, idle, returning, trailing, stopped, owed>>

ReturnsHeap ==
    /\ returning = "starting"
    /\ returning' = "judging" /\ owed' = FALSE
    /\ UNCHANGED <<disk, history, tree, mu, call, begun, inFlight, idle, fired, trailing, stopped>>

\* Mutant: a return marked meanwhile is forgotten.
ReturnEndsDeaf ==
    /\ returning = "judging"
    /\ returning' = "no" /\ trailing' = FALSE
    /\ UNCHANGED <<disk, history, tree, mu, call, begun, inFlight, idle, fired, stopped, owed>>

\* One more return when a last end was marked meanwhile and no call began.
ReturnEnds ==
    /\ returning = "judging"
    /\ returning' = IF trailing /\ inFlight = 0 /\ ~stopped THEN "starting" ELSE "no"
    /\ trailing' = FALSE
    /\ UNCHANGED <<disk, history, tree, mu, call, begun, inFlight, idle, fired, stopped, owed>>

\* stopIdle: the serve ended.
StopsIdle ==
    /\ ~stopped
    /\ stopped' = TRUE /\ idle' = FALSE
    /\ UNCHANGED <<disk, history, tree, mu, call, begun, inFlight, fired, returning, trailing, owed>>

\* An edit undone before the second fingerprint goes unseen; most are undone
\* later.
NoneLoads == \A c \in Calls : call[c].at \notin {"keying", "loading", "loose"}

\* Someone edits the tree: new bytes, or the former ones back.
Edits ==
    /\ Len(history) <= MaxEdits
    /\ \E f \in Files :
           \/ disk' = [disk EXCEPT ![f] = Len(history)]
           \/ /\ disk[f] # 0 /\ (Undoing = "between" => NoneLoads)
              /\ disk' = [disk EXCEPT ![f] = 0]
    /\ history' = Append(history, disk')
    /\ UNCHANGED <<tree, mu, call, begun, policy>>

------------------------------------------------------------------------------
\* What a load does by itself: failing is not owed.
LoadGoes(c) ==
    \/ Keys(c) \/ Hits(c) \/ Misses(c) \/ Loads(c) \/ LooseLoaded(c) \/ KeysAgain(c) \/ Caches(c)

LoadStep(c) == LoadGoes(c) \/ Incoherent(c) \/ LoadFails(c)

IdleStep == Fires \/ ReleasesIdle \/ ReturnsHeap \/ ReturnEnds

\* The runtime's timers and goroutines run.
IdleFairness ==
    /\ WF_residentVars(Fires) /\ WF_residentVars(ReleasesIdle)
    /\ WF_residentVars(ReturnsHeap) /\ WF_residentVars(ReturnEnds)

\* A call is served from the cache only a tree of its selection whose content
\* the disk held, whole, at some moment after that call began to look, though neither a
\* fingerprint nor a load reads the files at one moment and edits land
\* anywhere (loadTreeContext's "a hit means those bytes are identical"), so
\* long as none is undone within a load.
HitsAreTrue ==
    \A c \in Calls :
        call[c].hit # "none" =>
            /\ call[c].hit = call[c].sel
            /\ \E n \in call[c].since .. Len(history) : history[n] = call[c].view

\* A last call's end is always followed by the heap return it asked for,
\* however ends fall among the returns in progress: until a call begins or
\* the serve ends, that return is about to start or is marked for the one in
\* progress to start (callEnded, returnHeap).
HeapReturnStands ==
    owed /\ inFlight = 0 /\ ~stopped => returning = "starting" \/ (returning = "judging" /\ trailing)

\* A server left idle lets its tree go (REQ-mcp-resident-set).
IdleDropsTree == <>[](inFlight = 0) => <>[](tree = NoTree \/ stopped)
==============================================================================
