SPECIFICATION Spec
CONSTANTS
    Names <- MCNames
    NameHash <- MCNameHash
    Ids <- MCIds
    Values = {v1, v2}
    NoValue = NoValue
    Cells = {c1, c2, c3, c4}
    NoCell = NoCell
    Primes <- MCPrimes
    Overlaps = {"insert", "enlarge", "remove"}
SYMMETRY MCSymmetry
INVARIANTS
    NoRemovedListed
