SPECIFICATION FairSpec
CONSTANTS
    Addresses = 2
    MaxWords = 2
INVARIANTS ReleasedOnce NoClearText HeaderFirst ToldWhy
PROPERTIES  CrashEnds
