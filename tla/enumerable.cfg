SPECIFICATION MocksSpec
CONSTANTS
    MaxWord = 5
    MaxAddress = 2
    MaxMapWord = 2
    MaxMapAddress = 1
INVARIANTS
    IndexesInvertValues
    ViewsAgree
    LookupsAgree
PROPERTIES
    ImplementsSet
    ImplementsMap
