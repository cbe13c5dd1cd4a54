SPECIFICATION FairSpec
CONSTANT HostnameLens <- MCLens
INVARIANTS TypeOK AllOrNothing BufferHolds SameOverAll NameIfAnswered JumpsHome
PROPERTIES WaitEnds
CHECK_DEADLOCK FALSE
