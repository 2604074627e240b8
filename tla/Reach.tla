-------------------------------- MODULE Reach --------------------------------
(***************************************************************************)
(* Which tests statically reach a symbol (internal/engine/buildset.go): a   *)
(* graph of the loaded build's calls and references, an interface method    *)
(* standing for the methods of the types at hand that may answer it, and a  *)
(* worklist over it whose result is kept for whoever asks next.  Campaigns  *)
(* that share a tree ask at once.                                           *)
(***************************************************************************)
EXTENDS Naturals, FiniteSets, Functions

CONSTANTS
    LoadedBuilds,  \* the loaded builds considered
    Askers,     \* campaigns on one tree
    MaxScopes   \* bound on their questions

\* A loaded build names what it loaded.
ASSUME ReachAssumption ==
    \A b \in LoadedBuilds :
        /\ \A o \in b.objects : /\ b.uses[o] \subseteq b.objects
                                /\ \A tk \in b.mentions[o] : b.methods[tk] \subseteq b.objects
                                /\ b.speaks[o] \subseteq b.objects \cup {"any", "error"}
                                /\ "any" \in b.speaks[o] => b.home[o] \in DOMAIN b.interfaces
        /\ \A p \in DOMAIN b.interfaces : b.interfaces[p] \subseteq b.objects
        /\ \A s \in b.tests \cup b.targets : b.symbols[s].objects \subseteq b.objects

VARIABLES
    build,      \* the build: see LoadedBuilds
    closures,   \* what walks found, by the symbol they left and the target's package
    task,       \* an asker's narrowing of a derived oracle
    walk,       \* the walk it is in
    scopes      \* questions asked

reachVars == <<build, closures, task, walk, scopes>>

------------------------------------------------------------------------------
(* The graph.                                                               *)

\* A package and its test variant declare one function twice: the first
\* object met stands for all of its name, a local object for itself.
CanonicalObj(o) ==
    IF build.key[o] = "" THEN o
    ELSE CHOOSE c \in build.objects : build.key[c] = build.key[o]

Same(o) == {c \in build.objects : CanonicalObj(c) = CanonicalObj(o)}

Object(o)   == <<"object", o>>
PackageAny(p) == <<"any", p>>
AnyProtocol   == <<"any", "protocol">>

InTree(o) == build.home[o] \in build.tree

\* What a type from outside the tree may call back: the interface methods it
\* speaks of, those any value is probed for, and for an empty interface
\* those of its package and of that package's imports.
ExtInterfaces(o) ==
    {Object(CanonicalObj(m)) : m \in build.speaks[o] \ {"any", "error"}}
        \cup (IF build.speaks[o] \cap {"any", "error"} # {} THEN {AnyProtocol} ELSE {})
        \cup (IF "any" \in build.speaks[o] THEN {PackageAny(build.home[o])} ELSE {})

\* A foreign variable is no node: what it may call back is its user's.
EdgesTo(o) ==
    IF build.is[o] = "var" /\ ~InTree(o) THEN ExtInterfaces(o) ELSE {Object(CanonicalObj(o))}

CollectNodeUses(o) == UNION {EdgesTo(u) : u \in UNION {build.uses[c] : c \in Same(o)}} \ {Object(o)}

Adjacent(n) ==
    IF n = AnyProtocol THEN {}
    ELSE IF n[1] = "any" THEN {Object(CanonicalObj(m)) : m \in build.interfaces[n[2]]}
    ELSE CollectNodeUses(n[2])
             \cup (IF build.is[n[2]] = "func" /\ ~InTree(n[2]) THEN ExtInterfaces(n[2]) ELSE {})

NodeTypes(n) == IF n[1] = "any" THEN {} ELSE UNION {build.mentions[c] : c \in Same(n[2])}

\* A package's init functions, and its variables whose values call something.
PkgInits(p) ==
    {Object(CanonicalObj(o)) : o \in {i \in build.objects :
        /\ build.home[i] = p /\ p \in build.tree
        /\ \/ i \in build.inits
           \/ build.is[i] = "var" /\ Adjacent(Object(CanonicalObj(i))) # {}}}

InitsOf(n) == IF n[1] = "any" THEN {} ELSE PkgInits(build.home[n[2]])

IsInterface(n) == n[1] = "object" /\ build.is[n[2]] = "method"

\* The type's own and promoted methods of the interface method's name and
\* arity.
IfaceImpls(n, tk) == {Object(CanonicalObj(m)) : m \in {c \in build.methods[tk] : build.sig[c] = build.sig[n[2]]}}
AnyByType(tk) == {Object(CanonicalObj(m)) : m \in {c \in build.methods[tk] : build.sig[c] \in build.protocol}}

------------------------------------------------------------------------------
(* Asking.                                                                  *)

Idle == [is |-> "idle"]
NoWalk == [is |-> "none"]

ReachInit ==
    /\ build \in LoadedBuilds
    /\ closures = [k \in {} |-> {}]
    /\ task = [a \in Askers |-> Idle] /\ walk = [a \in Askers |-> NoWalk]
    /\ scopes = 0

Objects(symbol)   == build.symbols[symbol].objects
PackageOf(symbol) == build.symbols[symbol].pkg

Scopes(a) ==
    /\ task[a].is = "idle" /\ scopes < MaxScopes
    /\ scopes' = scopes + 1
    /\ \E target \in build.targets :
           task' = [task EXCEPT ![a] =
               [is |-> "scoping", target |-> target, left |-> build.tests, reached |-> {}]]
    /\ UNCHANGED <<build, closures, walk>>

Judges(a, test, reaches) ==
    /\ task' = [task EXCEPT ![a].left = @ \ {test},
                            ![a].reached = IF reaches THEN @ \cup {test} ELSE @]
    /\ walk' = [walk EXCEPT ![a] = NoWalk]

\* Mutant of Key: the memo forgets whose initializers the walk began with.
KeyOfTest(test, target) == <<test, "">>

Key(test, target) == <<test, PackageOf(target)>>

\* What cannot be resolved, and an init declaration, is never unreached.
Unjudged(test, target) ==
    \/ test = target \/ build.symbols[target].init
    \/ Objects(test) = {} \/ Objects(target) = {}

Asking(a, test) == task[a].is = "scoping" /\ walk[a] = NoWalk /\ test \in task[a].left

AsksUnjudged(a, test) ==
    /\ Asking(a, test) /\ Unjudged(test, task[a].target)
    /\ Judges(a, test, TRUE)
    /\ UNCHANGED <<build, closures, scopes>>

Reaches(closure, target) ==
    closure.reflective \/ \E o \in Objects(target) : Object(CanonicalObj(o)) \in closure.visited

AsksAgain(a, test) ==
    /\ Asking(a, test) /\ ~Unjudged(test, task[a].target)
    /\ Key(test, task[a].target) \in DOMAIN closures
    /\ Judges(a, test, Reaches(closures[Key(test, task[a].target)], task[a].target))
    /\ UNCHANGED <<build, closures, scopes>>

\* The walk's roots: the test, and the initializers of its package and of
\* the target's.
Roots(test, target) ==
    {Object(CanonicalObj(o)) : o \in Objects(test)}
        \cup PkgInits(PackageOf(test)) \cup PkgInits(PackageOf(target))

AsksFirst(a, test) ==
    /\ Asking(a, test) /\ ~Unjudged(test, task[a].target)
    /\ Key(test, task[a].target) \notin DOMAIN closures
    /\ walk' = [walk EXCEPT ![a] =
           [is |-> "walking", test |-> test,
            queue |-> Roots(test, task[a].target), visited |-> Roots(test, task[a].target),
            types |-> {}, ifaces |-> {}, any |-> FALSE, reflective |-> FALSE]]
    /\ UNCHANGED <<build, closures, task, scopes>>

\* The methods a node brings in: of its new types for the interfaces met so
\* far, and of all types so far for an interface met now.
Dispatched(w, ifaces, any, fresh) ==
    UNION ({IfaceImpls(m, tk) : m \in ifaces, tk \in fresh}
        \cup {IfaceImpls(m, tk) : m \in ifaces \ w.ifaces, tk \in w.types}
        \cup (IF any THEN {AnyByType(tk) : tk \in fresh} ELSE {})
        \cup (IF any /\ ~w.any THEN {AnyByType(tk) : tk \in w.types} ELSE {}))

\* A node leaves the queue.  What a step enqueues arrives in an order that
\* ranges over maps, so the queue is a set.
Turns(a, n) ==
    /\ walk[a].is = "walking" /\ n \in walk[a].queue
    /\ LET w == walk[a]
           ifaces == w.ifaces \cup (IF IsInterface(n) THEN {n} ELSE {})
           any    == w.any \/ n = AnyProtocol
           fresh  == NodeTypes(n) \ w.types
           found  == (Dispatched(w, ifaces, any, fresh) \cup InitsOf(n) \cup Adjacent(n)) \ w.visited
       IN walk' = [walk EXCEPT ![a] =
              [w EXCEPT !.queue = (@ \ {n}) \cup found, !.visited = @ \cup found,
                        !.types = @ \cup fresh, !.ifaces = ifaces, !.any = any,
                        !.reflective = @ \/ (n[1] = "object" /\ n[2] \in build.reflects)]]
    /\ UNCHANGED <<build, closures, task, scopes>>

WalkEnds(a) ==
    /\ walk[a].is = "walking" /\ walk[a].queue = {}
    /\ LET closure == [visited |-> walk[a].visited, reflective |-> walk[a].reflective]
           key     == Key(walk[a].test, task[a].target)
       IN /\ closures' = [k \in DOMAIN closures \cup {key} |->
                              IF k = key THEN closure ELSE closures[k]]
          /\ Judges(a, walk[a].test, Reaches(closure, task[a].target))
    /\ UNCHANGED <<build, scopes>>

OwnTests(target) == {t \in build.tests : PackageOf(t) = PackageOf(target)}

\* The narrowed oracle: the tests that reach, else those of the target's own
\* package, else all.
Narrowed(reached, target) ==
    IF reached # {} THEN reached
    ELSE IF OwnTests(target) # {} THEN OwnTests(target) ELSE build.tests

Narrows(a) ==
    /\ task[a].is = "scoping" /\ walk[a] = NoWalk /\ task[a].left = {}
    /\ task' = [task EXCEPT ![a] = [is |-> "narrowed", target |-> task[a].target,
                                    oracle |-> Narrowed(task[a].reached, task[a].target)]]
    /\ UNCHANGED <<build, closures, walk, scopes>>

Leaves(a) ==
    /\ task[a].is = "narrowed"
    /\ task' = [task EXCEPT ![a] = Idle]
    /\ UNCHANGED <<build, closures, walk, scopes>>

ReachStep(a) ==
    \/ Scopes(a) \/ WalkEnds(a) \/ Narrows(a) \/ Leaves(a)
    \/ \E test \in build.tests : AsksUnjudged(a, test) \/ AsksAgain(a, test) \/ AsksFirst(a, test)
    \/ walk[a].is = "walking" /\ \E n \in walk[a].queue : Turns(a, n)

ReachNext == \E a \in Askers : ReachStep(a)

------------------------------------------------------------------------------
Nodes ==
    {Object(CanonicalObj(o)) : o \in build.objects} \cup {AnyProtocol}
        \cup {PackageAny(p) : p \in DOMAIN build.interfaces}

\* Everything a set of nodes leads to is in it.
Closed(nodes) ==
    LET types == UNION {NodeTypes(n) : n \in nodes}
    IN /\ \A n \in nodes : Adjacent(n) \cup InitsOf(n) \subseteq nodes
       /\ \A n \in nodes, tk \in types : IsInterface(n) => IfaceImpls(n, tk) \subseteq nodes
       /\ AnyProtocol \in nodes => \A tk \in types : AnyByType(tk) \subseteq nodes

\* What the graph says, whatever the order of the walk: a test reaches a
\* target that is in every closed set its walk could begin with, and every
\* target from a reflective call.
MayRun(test, target) ==
    \/ Unjudged(test, target)
    \/ \A nodes \in SUBSET Nodes :
           Roots(test, target) \subseteq nodes /\ Closed(nodes) =>
               \/ \E o \in Objects(target) : Object(CanonicalObj(o)) \in nodes
               \/ \E n \in nodes : n[1] = "object" /\ n[2] \in build.reflects

\* A narrowed oracle is the tests the graph says may run the target, whatever
\* was asked before and in whatever order the maps are walked, and is never
\* empty where there was an oracle (ReachesSymbol's worklist and memo,
\* ScopeDerivedOracle).
OracleIsWhatReaches ==
    \A a \in Askers : task[a].is = "narrowed" =>
        task[a].oracle = Narrowed({t \in build.tests : MayRun(t, task[a].target)}, task[a].target)
==============================================================================
