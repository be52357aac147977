\* remove(item) on arrays holding an item twice in a row.
CONSTANTS
    v1 = v1  v2 = v2  Hole = Hole
    Values <- MCValues
    MaxLen = 3
SPECIFICATION Spec
PROPERTY RemoveDeletesAll
