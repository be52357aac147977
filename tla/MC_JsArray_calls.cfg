\* Any sequence of remove, removeRange, addUnique, clear, indexOf and
\* lastIndexOf calls on arrays of up to three elements, with indexes one
\* past either end.
CONSTANTS
    v1 = v1  v2 = v2  Hole = Hole
    Values <- MCValues
    MaxLen = 3
SPECIFICATION Spec
PROPERTY RemoveKeepsOthers RemoveRangeAsDocumented IndexOfAsStandard LastIndexOfAsStandard
