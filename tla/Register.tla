------------------------------- MODULE Register ------------------------------
(***************************************************************************)
(* What the findings store promises of its record keys: each is a register *)
(* whose writers may die.  A reader sees under a key the value of the last *)
(* write that returned, or one that a write still under way - or cut short *)
(* - offered since; a write that returns is the one a reader then sees.    *)
(* One file system step may move several keys, each by its own rule.       *)
(***************************************************************************)
CONSTANTS Keys, Values, Absent

VARIABLES value, last, pending

vars == <<value, last, pending>>

Init ==
    /\ value = [k \in Keys |-> Absent]
    /\ last = [k \in Keys |-> Absent]
    /\ pending = [k \in Keys |-> {}]

\* A write decides what it may leave under the key.
Offer(k) ==
    /\ \E offered \in SUBSET Values : pending'[k] = pending[k] \cup offered
    /\ value'[k] = value[k]
    /\ last'[k] = last[k]

\* An offered value becomes the visible one, in one switch.
Take(k) ==
    /\ value'[k] \in pending[k]
    /\ pending'[k] = pending[k]
    /\ last'[k] = last[k]

\* The write returns: what is visible is what it wrote.
Return(k) ==
    /\ value'[k] = value[k]
    /\ last'[k] = value[k]
    /\ pending'[k] = {}

Idle(k) ==
    /\ value'[k] = value[k]
    /\ last'[k] = last[k]
    /\ pending'[k] = pending[k]

Next == \A k \in Keys : Offer(k) \/ Take(k) \/ Return(k) \/ Idle(k)

Spec == Init /\ [][Next]_vars
==============================================================================
