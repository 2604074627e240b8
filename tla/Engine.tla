-------------------------------- MODULE Engine --------------------------------
(***************************************************************************)
(* The engine's services over one loaded tree: a package's derived oracle,  *)
(* its narrowing to the tests that reach a symbol, and the oracle           *)
(* executions themselves, a campaign's workers' and the probes'.            *)
(***************************************************************************)
EXTENDS Ephemeral, Derive, Reach

engineVars == <<ephemeralVars, deriveVars, reachVars>>

EngineInit ==
    /\ EphemeralInit /\ DeriveInit /\ ReachInit
    /\ "reach" \notin cast => build = CHOOSE b \in LoadedBuilds : TRUE

Executes == EphemeralNext /\ UNCHANGED <<deriveVars, reachVars>>
Derives  == "derive" \in cast /\ DeriveNext /\ UNCHANGED <<ephemeralVars, reachVars>>
Scoped   == "reach" \in cast /\ ReachNext /\ UNCHANGED <<ephemeralVars, deriveVars>>

EngineNext == Executes \/ Derives \/ Scoped

EngineSpec == EngineInit /\ [][EngineNext]_engineVars /\ EphemeralFairness
==============================================================================
