\* Page links, header clicks and out-of-order answers; failing network.
CONSTANTS
    NCols = 2
    MaxPage = 2
    InitClasses <- MCInitClasses
    NetworkFails = TRUE
    MaxInFlight = 1
SPECIFICATION Spec
INVARIANT TypeOK SortMatchesHeader
CHECK_DEADLOCK FALSE
