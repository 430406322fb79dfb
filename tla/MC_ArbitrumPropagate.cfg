CONSTANTS
    Undef = Undef
    GasPrices <- MCGasPrices
    GasLimits <- MCGasLimits
    SubmissionFees <- MCSubmissionFees
SPECIFICATION Spec
INVARIANTS
    TypeOK
    FeeMatchesEncoding
    AllOrNothing
