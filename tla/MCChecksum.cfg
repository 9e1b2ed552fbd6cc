SPECIFICATION Spec
CONSTANTS
    Base = 2
    Header <- Headers
    Option <- Options
    CheckAt = 3
INVARIANTS NoWrap Congruent Verdict NextHopAccepts
CHECK_DEADLOCK FALSE
