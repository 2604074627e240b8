------------------------------- MODULE Faces -------------------------------
(***************************************************************************)
(* The two faces over one findings document: runs from the command line     *)
(* beside an MCP server whose calls, runs among them, share a loaded tree.  *)
(* An MCP run is a call and a verb: it takes the campaign lock, then loads  *)
(* the tree through the server's cache, then runs (runTool in               *)
(* src/internal/mcpserver/server.go under the middleware of mcpWith).       *)
(***************************************************************************)
EXTENDS Resident, Verb

CONSTANT Casts      \* bound: who takes part, so that the instances add up

ASSUME FacesAssumption == Verbs \ Cli \subseteq Calls

VARIABLE cast       \* the calls and verbs that take part, what disturbs them

facesVars == <<residentVars, verbVars, cast>>

FacesInit ==
    /\ ResidentInit /\ VerbInit
    /\ cast \in Casts

Plain(c) == c \in Calls \ Verbs

\* A call begins; a run's verb begins with it.
CallBegins(c) ==
    /\ c \in cast /\ (c \in Verbs => at[c] = "start")
    /\ Began(c)
    /\ "tags" \notin cast => call'[c].sel = CHOOSE s \in Selections : TRUE
    /\ UNCHANGED <<verbVars, cast>>

\* A call's load: a run's once it holds the campaign lock.  One whose
\* preparation ended before it leaves without.
MayLoad(c) == c \in Verbs => at[c] = "loading"

CallLoads(c) == MayLoad(c) /\ LoadStep(c) /\ UNCHANGED <<verbVars, cast>>

CallLeaves(c) ==
    /\ c \in Verbs /\ at[c] \in Over /\ call[c].at = "keying"
    /\ LoadFails(c)
    /\ UNCHANGED <<verbVars, cast>>

CallEnds(c) ==
    /\ c \in Verbs => at[c] \in Over
    /\ Ended(c)
    /\ UNCHANGED <<verbVars, cast>>

\* A verb's own step: an MCP run's inside its call and outside its load.
InVerb(v) ==
    /\ v \in cast
    /\ v \notin Cli => call[v].at = IF at[v] \in {"start", "prepared"} THEN "keying" ELSE "served"

VerbMoves(v) == InVerb(v) /\ VerbStep(v) /\ UNCHANGED <<residentVars, cast>>

\* The load of a run failed, and with it the preparation.
VerbLoses(v) ==
    /\ v \notin Cli /\ at[v] = "loading" /\ call[v].at = "failed"
    /\ PreparationFails(v)
    /\ UNCHANGED <<residentVars, cast>>

\* A signal, a kill, a client that goes.
VerbIsDisturbed(v) ==
    /\ v \in cast /\ "world" \in cast
    /\ v \notin Cli => call[v].at # "out"
    /\ Disturbs(v)
    /\ UNCHANGED <<residentVars, cast>>

ServerIdles == IdleStep /\ UNCHANGED <<verbVars, cast>>

ServerStops == "world" \in cast /\ StopsIdle /\ UNCHANGED <<verbVars, cast>>

TreeMoves ==
    /\ "editor" \in cast /\ ("tags" \notin cast => Len(history) = 1)
    /\ Edits
    /\ UNCHANGED <<verbVars, cast>>

FacesNext ==
    \/ \E c \in Calls : CallBegins(c) \/ CallLoads(c) \/ CallLeaves(c) \/ CallEnds(c)
    \/ \E v \in Verbs : VerbMoves(v) \/ VerbLoses(v) \/ VerbIsDisturbed(v)
    \/ ServerIdles \/ ServerStops \/ TreeMoves

\* Calls and verbs go on, but for an oracle's end; the process watches its
\* signals, timers expire.
FacesFairness ==
    /\ IdleFairness
    /\ \A c \in Calls :
           /\ WF_facesVars(MayLoad(c) /\ LoadGoes(c) /\ UNCHANGED <<verbVars, cast>>)
           /\ WF_facesVars(CallLeaves(c)) /\ WF_facesVars(CallEnds(c))
    /\ \A v \in Verbs :
           /\ WF_facesVars(InVerb(v) /\ Proceeds(v) /\ UNCHANGED <<residentVars, cast>>)
           /\ WF_facesVars(InVerb(v) /\ Watches(v) /\ UNCHANGED <<residentVars, cast>>)
           /\ WF_facesVars(InVerb(v) /\ Ticks(v) /\ UNCHANGED <<residentVars, cast>>)
           /\ WF_facesVars(VerbLoses(v))

FacesSpec == FacesInit /\ [][FacesNext]_facesVars /\ FacesFairness

\* Every call of another tool ends, and every run whose client went away or
\* whose timeout passed: none waits for good on the lock the loads take turns
\* under, nor on the campaign lock, nor on an oracle (the middleware of
\* mcpWith counts a call out exactly once; loadTreeContext's deferred unlock).
CallsEnd ==
    \A c \in Calls : (call[c].at # "out" /\ (c \in Verbs => ctx[c])) ~> call[c].at = "out"

\* Neither face hangs: calls end, and a SIGTERM or a second signal ends a
\* command line's run.
FacesEnd == CallsEnd /\ InterruptEnds
==============================================================================
