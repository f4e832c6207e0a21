CONSTANTS
    Classes = {"DevImpl", "Bogus"}
    DevClasses = {"DevImpl"}
    Declared = {"DevImpl"}
    Junk = "junk"
    NMaps = 3
    MaxDepth = 2
SPECIFICATION Spec
INVARIANTS ClassIsMergeLookup
