SPECIFICATION Spec
CONSTANTS
    c1 = c1
    c2 = c2
    p = p
    v1 = v1
    v2 = v2
    Keys <- MCKeys
    Values <- MCValues
    Ttls <- MCTtls
    Prefixes <- MCPrefixes
    MaxTime = 4
    Nothing = Nothing
SYMMETRY Symmetry
INVARIANTS
    TypeOK
PROPERTIES
    RefinesExpiringMap
