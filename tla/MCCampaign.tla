------------------------------ MODULE MCCampaign ------------------------------
(***************************************************************************)
(* Campaign on four targets in two proof units.  All emitted, they make    *)
(* three windows: one closed by the candidate ceiling, one by the          *)
(* execution budget and one by the end of preparation, one of them         *)
(* unpriced and the last the cheapest.                                     *)
(***************************************************************************)
EXTENDS Campaign

MCSize  == <<2, 1, 1, 1>>
MCTests == <<1, 1, 3, 1>>
MCCost  == <<3, 1, Unpriced, 2>>
MCUnit  == <<"u", "v", "u", "v">>
==============================================================================
