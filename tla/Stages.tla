-------------------------------- MODULE Stages --------------------------------
(***************************************************************************)
(* What a campaign does between its windows' order (module Campaign's) and *)
(* its records' fate (module Ledger's): it prepares its targets, executes  *)
(* a window, confirms the window's kills one by one, and keeps what it     *)
(* measured in the tree's cache.  A stage starts from whatever the stages  *)
(* before it may leave, so each is explored on its own.                    *)
(***************************************************************************)
EXTENDS Window, Confirm, Preparation, Cache

CONSTANT Sides

VARIABLE side

stagesVars == <<side, vars, confirmVars, prepVars, cacheVars>>

\* The stages that are not explored sit in one state.
StagesInit ==
    /\ side \in Sides
    /\ Init /\ ConfirmInit /\ PrepInit /\ CacheInit
    /\ side # "window" => ~cancelled /\ ~stop /\ phase = [w \in Workers |-> "idle"]
    /\ side # "confirmation" => targetOf = [k \in Kills |-> 1]
    /\ side # "preparation" =>
           /\ asked = CHOOSE r \in Requests : TRUE
           /\ ~planning /\ ~staged /\ bank = {}
    /\ side # "cache" => pruner = "ready" /\ disk = Empty

OnlyWindow == UNCHANGED <<side, confirmVars, prepVars, cacheVars>>

Executing == side = "window" /\ Step /\ OnlyWindow

Confirming ==
    /\ side = "confirmation"
    /\ Walk \/ Drain
    /\ UNCHANGED <<side, vars, prepVars, cacheVars>>

StagesNext ==
    \/ Executing \/ Confirming
    \/ side = "window" /\ (SoftStop \/ Cancel) /\ OnlyWindow
    \/ /\ side = "confirmation" /\ ConfirmFails
       /\ UNCHANGED <<side, vars, prepVars, cacheVars>>
    \/ /\ side = "preparation" /\ PrepNext
       /\ UNCHANGED <<side, vars, confirmVars, cacheVars>>
    \/ /\ side = "cache" /\ CacheNext
       /\ UNCHANGED <<side, vars, confirmVars, prepVars>>

\* The fairness of modules Window and Confirm.
StagesSpec ==
    /\ StagesInit /\ [][StagesNext]_stagesVars
    /\ WF_stagesVars(Executing) /\ WF_stagesVars(Confirming)

\* A window and its confirmation end: no worker waits for a dispatcher that
\* left nor the dispatcher for workers that did, and a drain that feeds the
\* queue it drains empties it (executeWindow, confirmWindowKills).
StagesEnd ==
    /\ side = "window" ~> dispatcher = "left"
    /\ side = "confirmation" ~> pc \in {"done", "failed"}
==============================================================================
