SPECIFICATION Spec
CONSTANTS
    Table <- MCTables
    MaxInt <- MCMaxInt
    Variance <- MCVariance
    Tolerance <- MCTolerance
INVARIANTS
    TypeOK
    NeverUnbanded
    BandIsExact
PROPERTY LargerIsNoMilder
CHECK_DEADLOCK FALSE
