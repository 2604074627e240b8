------------------------------- MODULE Records --------------------------------
(***************************************************************************)
(* What a record meets between the measurement that made it and the reader *)
(* that trusts it: its dispositions ride later runs (module Ledger), its   *)
(* verdicts are served, extended and re-scored (Serving), it stands beside *)
(* the same symbol's records under other build selections (Selections), it *)
(* is laid out in bytes and read back (Document), and inspected beside     *)
(* others (Inspection).  Each is explored on its own, from the states the  *)
(* others may leave.                                                       *)
(***************************************************************************)
EXTENDS Ledger, Serving, Selections, Document, Inspection

CONSTANT Sides

VARIABLE side

recordsVars == <<side, ledgerVars, servingVars, selectionVars, documentVars, inspectionVars>>

\* The parts that are not explored sit in one state.
Resting(part) ==
    CASE part = "ledger"     -> doc = NoFinding
      [] part = "serving"    -> setup = CHOOSE s \in Setups : TRUE
      [] part = "selections" -> /\ rows = [s \in Selections |-> NoneSuch]
                                /\ body = CHOOSE b \in Bodies : TRUE
      [] part = "document"   -> /\ truth = CHOOSE d \in Documents : d.findings = <<>>
                                /\ collides = "none"
      [] part = "inspection" -> /\ loaded = CHOOSE t \in Trees : TRUE
                                /\ batch = <<CHOOSE r \in Pool : TRUE>>
                                /\ tolerant = FALSE

Starting(part, Start) == IF side = part THEN Start ELSE Resting(part) /\ Start

RecordsInit ==
    /\ side \in Sides
    /\ Starting("ledger", LedgerInit)
    /\ Starting("serving", ServingInit)
    /\ Starting("selections", SelectionsInit)
    /\ Starting("document", DocumentInit)
    /\ Starting("inspection", InspectionInit)

Disposing ==
    /\ side = "ledger" /\ LedgerNext
    /\ UNCHANGED <<side, servingVars, selectionVars, documentVars, inspectionVars>>

Serves ==
    /\ side = "serving" /\ ServingNext
    /\ UNCHANGED <<side, ledgerVars, selectionVars, documentVars, inspectionVars>>

Selecting ==
    /\ side = "selections" /\ SelectionsNext
    /\ UNCHANGED <<side, ledgerVars, servingVars, documentVars, inspectionVars>>

Encoding ==
    /\ side = "document" /\ DocumentNext
    /\ UNCHANGED <<side, ledgerVars, servingVars, selectionVars, inspectionVars>>

Inspecting ==
    /\ side = "inspection" /\ InspectionNext
    /\ UNCHANGED <<side, ledgerVars, servingVars, selectionVars, documentVars>>

RecordsNext == Disposing \/ Serves \/ Selecting \/ Encoding \/ Inspecting

RecordsSpec == RecordsInit /\ [][RecordsNext]_recordsVars
==============================================================================
