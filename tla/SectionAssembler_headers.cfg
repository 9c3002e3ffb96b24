CONSTANTS
    Lengths = {4, 6, 10}
    SectionCount = 3
    MaxBytes = 30
    PayloadSize = 5
    CounterLimit = 2
    MaxLosses = 0
    MaxRepeats = 0
SPECIFICATION AssemblerSpec
INVARIANTS
    AllSectionsFound
CHECK_DEADLOCK FALSE
