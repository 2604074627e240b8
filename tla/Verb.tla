-------------------------------- MODULE Verb --------------------------------
(***************************************************************************)
(* A findings-producing run from its preparation to its outcome: the         *)
(* campaign lock, the interrupt's two stages and their deadline, the drain,  *)
(* the final merge and what is rendered after it (runCommand in              *)
(* src/internal/cmd/run.go, runTool in src/internal/mcpserver/server.go,     *)
(* PrepareCampaign in src/prepare.go, softInterrupt in                       *)
(* src/internal/cmd/interrupt.go, RunLedger.Finish in src/epilogue.go).      *)
(*                                                                           *)
(* The document is the number of campaign writes it took.  What one window's *)
(* execution is made of is Window's and Campaign's.                          *)
(***************************************************************************)
EXTENDS Integers, Sequences, FiniteSets

CONSTANTS
    Verbs,
    Cli,            \* those run from the command line, the others are MCP calls
    Windows,        \* windows a run executes
    MaxSignals,     \* bound: signals sent to a process
    NoVerb

ASSUME VerbAssumption ==
    /\ Cli \subseteq Verbs /\ NoVerb \notin Verbs
    /\ Windows \in Nat /\ MaxSignals \in Nat

VARIABLES
    at,             \* where a verb is
    prior,          \* the document as its preparation read it
    left,           \* windows not yet executed
    result,         \* what Run returned
    outcome,        \* how the verb ended
    campaign,       \* who holds the campaign lock
    book,           \* campaign writes the document took
    ctx,            \* whether the verb's context is cancelled
    inbox, sent,    \* the signal channel of its process; bound: signals sent
    hook, struck,   \* softInterrupt's drain and fired
    deadline,       \* its timer: none, armed, or started and about to cancel
    watcher,        \* the goroutine that reads the channel
    stop            \* whether the drain closed the run's SoftStop

run       == <<prior, left, result, outcome, campaign, book>>
interrupt == <<inbox, sent, hook, struck, deadline, watcher, stop>>
verbVars  == <<at, run, ctx, interrupt>>

Over     == {"ended", "dead"}
Running  == {"between", "executing", "draining"}

VerbInit ==
    /\ at = [v \in Verbs |-> "start"]
    /\ prior = [v \in Verbs |-> 0]
    /\ left = [v \in Verbs |-> Windows]
    /\ result = [v \in Verbs |-> "none"] /\ outcome = [v \in Verbs |-> "none"]
    /\ campaign = NoVerb /\ book = 0
    /\ ctx = [v \in Verbs |-> FALSE]
    /\ inbox = [v \in Verbs |-> <<>>] /\ sent = [v \in Verbs |-> 0]
    /\ hook = [v \in Verbs |-> FALSE] /\ struck = [v \in Verbs |-> FALSE]
    /\ deadline = [v \in Verbs |-> "none"]
    /\ watcher = [v \in Verbs |-> "waits"]
    /\ stop = [v \in Verbs |-> FALSE]

Goes(v, there) == at' = [at EXCEPT ![v] = there]

\* The verb ends and its deferred releases run.
EndsAs(v, how) ==
    /\ Goes(v, "ended")
    /\ outcome' = [outcome EXCEPT ![v] = how]
    /\ campaign' = IF campaign = v THEN NoVerb ELSE campaign

------------------------------------------------------------------------------
(* Preparation.                                                             *)

\* The document is read while the inputs are checked, before the lock.
ReadsPrior(v) ==
    /\ at[v] = "start" /\ ~ctx[v]
    /\ prior' = [prior EXCEPT ![v] = book]
    /\ Goes(v, "prepared")
    /\ UNCHANGED <<left, result, outcome, campaign, book, ctx, interrupt>>

\* The campaign lock, one attempt.
Locks(v) ==
    /\ at[v] = "prepared" /\ campaign = NoVerb
    /\ campaign' = v
    /\ Goes(v, "loading")
    /\ UNCHANGED <<prior, left, result, outcome, book, ctx, interrupt>>

IsRefused(v) ==
    /\ at[v] = "prepared" /\ campaign # NoVerb
    /\ EndsAs(v, "refused")
    /\ UNCHANGED <<prior, left, result, book, ctx, interrupt>>

\* Whatever fails before the run: an input, the load, the selection, the
\* context.
PreparationFails(v) ==
    /\ at[v] \in {"start", "prepared", "loading"}
    /\ EndsAs(v, "failed")
    /\ UNCHANGED <<prior, left, result, book, ctx, interrupt>>

\* The tree is loaded; the command line arms the drain, then Run begins.
Begins(v) ==
    /\ at[v] = "loading" /\ ~ctx[v]
    /\ hook' = [hook EXCEPT ![v] = v \in Cli]
    /\ Goes(v, "between")
    /\ UNCHANGED <<run, ctx, inbox, sent, struck, deadline, watcher, stop>>

------------------------------------------------------------------------------
(* Run.                                                                     *)

Returned(v, how) ==
    /\ Goes(v, "returned")
    /\ result' = [result EXCEPT ![v] = how]

Dispatches(v) ==
    /\ at[v] = "between" /\ left[v] > 0 /\ ~ctx[v]
    /\ Goes(v, IF stop[v] THEN "draining" ELSE "executing")
    /\ UNCHANGED <<run, ctx, interrupt>>

\* The dispatch of a candidate sees the stop.
SeesStop(v) ==
    /\ at[v] = "executing" /\ stop[v]
    /\ Goes(v, "draining")
    /\ UNCHANGED <<run, ctx, interrupt>>

\* A window's oracles are done and its targets committed.
Executes(v) ==
    /\ at[v] = "executing" /\ ~ctx[v]
    /\ left' = [left EXCEPT ![v] = @ - 1]
    /\ book' = book + 1
    /\ Goes(v, "between")
    /\ UNCHANGED <<prior, result, outcome, campaign, ctx, interrupt>>

\* The drained window's prefixes are committed, if it has any.
Drained(v) ==
    /\ at[v] = "draining" /\ ~ctx[v]
    /\ book' \in {book, book + 1}
    /\ Returned(v, "interrupted")
    /\ UNCHANGED <<prior, left, outcome, campaign, ctx, interrupt>>

RunDone(v) ==
    /\ at[v] = "between" /\ left[v] = 0 /\ ~ctx[v]
    /\ \E how \in {"whole", "drift"} : Returned(v, how)
    /\ UNCHANGED <<prior, left, outcome, campaign, book, ctx, interrupt>>

\* Cancellation is seen at every boundary, in-flight oracles are reaped.
RunCancelled(v) ==
    /\ at[v] \in Running /\ ctx[v]
    /\ Returned(v, "cancelled")
    /\ UNCHANGED <<prior, left, outcome, campaign, book, ctx, interrupt>>

RunFails(v) ==
    /\ at[v] \in Running
    /\ Returned(v, "failed")
    /\ UNCHANGED <<prior, left, outcome, campaign, book, ctx, interrupt>>

------------------------------------------------------------------------------
(* The end of the verb.                                                     *)

StopsDeadline(v) ==
    IF deadline[v] = "armed" THEN deadline' = [deadline EXCEPT ![v] = "none"] ELSE UNCHANGED deadline

DropsHook(v) == hook' = [hook EXCEPT ![v] = FALSE]

\* Mutant: disarm stops the timer, then removes the hook.
DisarmsTimerFirst(v, half) ==
    IF half = 1 THEN StopsDeadline(v) /\ UNCHANGED hook ELSE DropsHook(v) /\ UNCHANGED deadline

\* disarm holds the lock twice: the hook first, then the timer.
Disarms(v, half) ==
    IF half = 1 THEN DropsHook(v) /\ UNCHANGED deadline ELSE StopsDeadline(v) /\ UNCHANGED hook

BeginsDisarm(v) ==
    /\ at[v] = "returned"
    /\ Disarms(v, 1)
    /\ Goes(v, "disarmed")
    /\ UNCHANGED <<run, ctx, inbox, sent, struck, watcher, stop>>

\* Whether the final merge is owed: a drift refusal still merges what completed.
Merges(v) == result[v] \in {"whole", "drift"}

\* How a verb ends without a merge: an MCP run that measured answers with
\* what is banked, whatever ended it.
Unmerged(v) == IF v \in Cli THEN {result[v]}
               ELSE IF result[v] = "whole" THEN {"banked"} ELSE {"banked", result[v]}

\* After Run: the merge, or out.  A finished MCP run looks at its context
\* once more.
Turns(v) ==
    /\ at[v] = "disarmed"
    /\ Disarms(v, 2)
    /\ IF Merges(v) /\ ~(v \notin Cli /\ result[v] = "whole" /\ ctx[v])
       THEN Goes(v, "merging") /\ UNCHANGED <<outcome, campaign>>
       ELSE \E how \in Unmerged(v) : EndsAs(v, how)
    /\ UNCHANGED <<prior, left, result, book, ctx, inbox, sent, struck, watcher, stop>>

\* The document half of the final merge.
Lands(v) ==
    /\ at[v] = "merging" /\ ~ctx[v]
    /\ book' = book + 1
    /\ Goes(v, "landed")
    /\ UNCHANGED <<prior, left, result, outcome, campaign, ctx, interrupt>>

MergeFails(v) ==
    /\ at[v] = "merging"
    /\ EndsAs(v, "failed")
    /\ UNCHANGED <<prior, left, result, book, ctx, interrupt>>

\* Its overlay half, under the same context: what remains of it when that is
\* cancelled fails the verb after all.
Routes(v) ==
    /\ at[v] = "landed"
    /\ IF ctx[v] THEN \/ EndsAs(v, "unrouted")
                      \/ Goes(v, "merged") /\ UNCHANGED <<outcome, campaign>>
                 ELSE Goes(v, "merged") /\ UNCHANGED <<outcome, campaign>>
    /\ UNCHANGED <<prior, left, result, book, ctx, interrupt>>

\* Rendering is detached from the command's context, under a bound of its
\* own.  What ends it early is that bound (the row loop, the delta's cut) and,
\* on the command line, a stream that takes no more.
Renders(v) ==
    /\ at[v] = "merged"
    /\ \E how \in {result[v], "overdue"} \cup (IF v \in Cli THEN {"unwritten"} ELSE {}) : EndsAs(v, how)
    /\ UNCHANGED <<prior, left, result, book, ctx, interrupt>>

\* The process is killed: the kernel drops the lock.
Killed(v) ==
    /\ at[v] \notin Over /\ v \in Cli
    /\ Goes(v, "dead")
    /\ campaign' = IF campaign = v THEN NoVerb ELSE campaign
    /\ UNCHANGED <<prior, left, result, outcome, book, ctx, interrupt>>

------------------------------------------------------------------------------
(* The interrupt.                                                           *)

Alive(v) == at[v] \notin Over

\* A signal reaches the process; the channel holds two and drops the rest.
Signalled(v, sig) ==
    /\ v \in Cli /\ Alive(v) /\ sent[v] < MaxSignals
    /\ sent' = [sent EXCEPT ![v] = @ + 1]
    /\ inbox' = IF Len(inbox[v]) < 2 THEN [inbox EXCEPT ![v] = Append(@, sig)] ELSE inbox
    /\ UNCHANGED <<at, run, ctx, hook, struck, deadline, watcher, stop>>

\* fire, under its lock: the first signal with a drain armed drains, a SIGTERM
\* with a deadline; any other cancels.
FireJudges(v) ==
    /\ watcher[v] = "waits" /\ inbox[v] # <<>> /\ Alive(v)
    /\ inbox' = [inbox EXCEPT ![v] = Tail(@)]
    /\ struck' = [struck EXCEPT ![v] = TRUE]
    /\ IF hook[v] /\ ~struck[v]
       THEN /\ watcher' = [watcher EXCEPT ![v] = "drains"]
            /\ deadline' = [deadline EXCEPT ![v] = IF Head(inbox[v]) = "term" THEN "armed" ELSE @]
       ELSE watcher' = [watcher EXCEPT ![v] = "cancels"] /\ UNCHANGED deadline
    /\ UNCHANGED <<at, run, ctx, sent, hook, stop>>

\* fire, past its lock.
FireDrains(v) ==
    /\ watcher[v] = "drains" /\ Alive(v)
    /\ stop' = [stop EXCEPT ![v] = TRUE]
    /\ watcher' = [watcher EXCEPT ![v] = "waits"]
    /\ UNCHANGED <<at, run, ctx, inbox, sent, hook, struck, deadline>>

FireCancels(v) ==
    /\ watcher[v] = "cancels" /\ Alive(v)
    /\ StopsDeadline(v)
    /\ ctx' = [ctx EXCEPT ![v] = TRUE]
    /\ watcher' = [watcher EXCEPT ![v] = "retired"]
    /\ UNCHANGED <<at, run, inbox, sent, hook, struck, stop>>

\* The timer starts its cancellation; stopping it no longer stops that.
Expires(v) ==
    /\ deadline[v] = "armed" /\ Alive(v)
    /\ deadline' = [deadline EXCEPT ![v] = "expired"]
    /\ UNCHANGED <<at, run, ctx, inbox, sent, hook, struck, watcher, stop>>

DeadlineCancels(v) ==
    /\ deadline[v] = "expired" /\ Alive(v)
    /\ deadline' = [deadline EXCEPT ![v] = "none"]
    /\ ctx' = [ctx EXCEPT ![v] = TRUE]
    /\ UNCHANGED <<at, run, inbox, sent, hook, struck, watcher, stop>>

\* The client goes, or a timeout passes: the request's context is cancelled.
Abandoned(v) ==
    /\ Alive(v) /\ ~ctx[v]
    /\ ctx' = [ctx EXCEPT ![v] = TRUE]
    /\ UNCHANGED <<at, run, interrupt>>

------------------------------------------------------------------------------
\* What goes on by itself, an oracle's end excepted: an oracle may take its
\* whole budget.
Proceeds(v) ==
    \/ ReadsPrior(v) \/ Locks(v) \/ IsRefused(v) \/ Begins(v) \/ Dispatches(v)
    \/ SeesStop(v) \/ RunDone(v) \/ RunCancelled(v) \/ BeginsDisarm(v) \/ Turns(v)
    \/ Lands(v) \/ Routes(v) \/ Renders(v)
    \/ ctx[v] /\ PreparationFails(v)
    \/ ctx[v] /\ MergeFails(v)

Watches(v) == FireJudges(v) \/ FireDrains(v) \/ FireCancels(v)
Ticks(v)   == Expires(v) \/ DeadlineCancels(v)

VerbStep(v) ==
    \/ Proceeds(v) \/ PreparationFails(v) \/ Executes(v) \/ Drained(v) \/ RunFails(v)
    \/ MergeFails(v)
    \/ Watches(v) \/ Ticks(v)

Disturbs(v) == Killed(v) \/ Abandoned(v) \/ \E sig \in {"int", "term"} : Signalled(v, sig)

VerbSpec == VerbInit /\ [][\E v \in Verbs : VerbStep(v) \/ Disturbs(v)]_verbVars

Concluding == {"merging", "landed", "merged"}

\* Nothing of a drain reaches the final merge, wherever in disarm's two halves
\* a signal is fired (disarm: the deadline never shoots the final merge): over
\* it no deadline runs or begins to cancel, and a signal that comes then
\* cancels hard, it neither drains nor arms a deadline.  A timer that had
\* begun to cancel when disarm stopped it is past recall.
MergeUntimed ==
    [][\A v \in Cli :
           at[v] \in Concluding =>
               /\ deadline'[v] # "armed"
               /\ deadline'[v] = "expired" => deadline[v] = "expired"
               /\ watcher'[v] = "drains" => watcher[v] = "drains"]_verbVars

\* A SIGTERM that reached the process ends its verb though no oracle ever
\* ends, and so does a second signal of either kind (softInterrupt's two
\* stages and the drain's deadline).
InterruptEnds ==
    \A v \in Cli :
        (inbox[v] # <<>> /\ (struck[v] \/ Head(inbox[v]) = "term")) ~> at[v] \in Over
==============================================================================
