SPECIFICATION Spec
CONSTANTS
    Digests <- MCDigests
    Hashes <- MCHashes
    Scale = 4
    Difficulties <- MCDifficulties
    SubCounts <- MCSubCounts
    Builds <- MCBuilds
    MaxNonce = 2
    Walls <- MCWalls
    ServerTimes <- MCServerTimes
    MaxSteps = 1
INVARIANTS AnswersHold RefusalsHold
