SPECIFICATION NamesSpec
CONSTANTS
    s1 = s1
    s2 = s2
    n1 = n1
    o1 = o1
    o2 = o2
    Default = Default
    NoName = NoName
    Servers = {s1, s2}
    Spaces = {n1}
    Names <- MCNames
    Given <- MCPrefixes
    Separators <- MCSeparators
    Catalog <- MCCatalog
    Ops = {o1, o2}
SYMMETRY Interchangeable
INVARIANT ListedNamesResolve
