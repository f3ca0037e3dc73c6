\* Two commands at a time, each failing or killed anywhere, over any earlier table.
CONSTANTS
    p1 = p1 p2 = p2 p3 = p3 c1 = c1 c2 = c2 s1 = s1 k1 = k1 k2 = k2 a = a b = b
    None = None
    Processes = {p1, p2}
    Codes = {c1, c2}
    Sources = {s1}
    Keys = {k1, k2}
    Values = {a, b}
    Files <- SomeFiles
    MaxCommands = 2
SYMMETRY Symmetry
SPECIFICATION RegistrySpec
CHECK_DEADLOCK FALSE
PROPERTIES
    ImportsAreWhole
    RegistrationsAreWhole
