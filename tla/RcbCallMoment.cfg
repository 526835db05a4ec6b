SPECIFICATION Spec
CONSTANTS
    Refreshes = {r1}
    Sets = {s1}
    Masks <- BothFields
    Fields = {"rpt_ena", "buf_tm"}
    Values = {0, 1}
    Initial = 0
    MaxInFlight = 2
INVARIANTS WritesTheCallMoment
SYMMETRY CallSymmetry
