CONSTANTS
    Keys = {"status"}
    Values = {"v1", "v2"}
    Children = {"c1", "c2"}
    RootLabel = "main"
    JobId = "job"
    MaxMaps = 4
    NoValue = NoValue
SPECIFICATION Spec
INVARIANT TypeOK PutVisible
