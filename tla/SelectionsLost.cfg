CONSTANTS
    Selections = {default, tagged}
    Default = default
    Points = {m}
    Bodies = {b1, b2}
    NoneSuch = NoneSuch
    MaxSteps = 4
SPECIFICATION SelectionsSpec
INVARIANTS
    AttestationsLand
CHECK_DEADLOCK FALSE
