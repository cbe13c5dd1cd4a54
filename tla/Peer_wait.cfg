SPECIFICATION FairSpec
CONSTANT HostnameLens <- MCLens
PROPERTIES WaitAlwaysEnds
CHECK_DEADLOCK FALSE
