SPECIFICATION Spec
CONSTANTS
    Endpoints <- SomeEndpoints
    Streams <- SomeStreams
    MaxFragments = 3
INVARIANTS CutIndependent
