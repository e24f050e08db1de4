CONSTANTS
    N = 2
    MaxAttempts <- MCSingle
SPECIFICATION Spec
INVARIANT TypeOK UpstreamTracked
PROPERTIES ClusterReturns UpstreamsRemoved
