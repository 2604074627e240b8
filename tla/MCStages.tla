------------------------------- MODULE MCStages -------------------------------
(***************************************************************************)
(* Stages on small instances: a window of five candidates of three works   *)
(* (a measured target, a serve that re-executes all but one of its         *)
(* candidates, a second measured target), and three target lists that      *)
(* between them have every kind of prior record, a shape, a target nothing *)
(* can measure, and shared and split oracles.                              *)
(***************************************************************************)
EXTENDS Stages

MCWork == <<1, 1, 2, 2, 3>>

Target(groups, prior) ==
    [sound |-> TRUE, shaped |-> FALSE, attested |-> FALSE,
     groups |-> groups, prior |-> prior]

Unsound(t) == [t EXCEPT !.sound = FALSE]
Shape(t)   == [t EXCEPT !.shaped = TRUE]
Own(t)     == [t EXCEPT !.attested = TRUE]

MCRequests ==
    {<<Unsound(Target(<<1>>, "none")), Target(<<1, 2>>, "none"), Target(<<1, 2>>, "flagged")>>,
     <<Own(Target(<<1>>, "none")), Unsound(Shape(Target(<<1>>, "none"))),
       Own(Shape(Target(<<1>>, "covering")))>>,
     <<Target(<<1, 2>>, "covering"), Target(<<2>>, "capped"), Target(<<1, 2>>, "cappedFlagged")>>}
==============================================================================
