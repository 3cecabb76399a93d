SPECIFICATION Spec
CONSTANTS
    Process = {"first", "second"}
    Labs <- MCLabs
INVARIANTS
    FlawsStopTheGate
    ReceiptsAreOfThisGate
    HashesIdentifySources
    NativeEvidenceIsBound
PROPERTIES
    RepairedLabPasses
