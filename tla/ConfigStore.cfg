SPECIFICATION Spec
CONSTANTS
    Range = {default, auto1, auto2}
    Others = {other1}
    Default = default
    None = None
    MaxRevision = 4
SYMMETRY Symmetric
INVARIANTS ReadyMeansSaved StoreCoherent
PROPERTIES SettledStays AssignmentYields
