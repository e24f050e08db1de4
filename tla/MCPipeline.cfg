CONSTANTS
    N = 3
    Modes <- MCModes
    SubResults <- MCSubResults
    ParentCauses <- MCParentCauses
SPECIFICATION Spec
INVARIANT TypeOK
INVARIANT OrderedSequential
INVARIANT OrderedNoStartAfterFailure
PROPERTY PipeReturns
