SPECIFICATION FairSpec
CONSTANTS
    runt = runt  full = full
    Frame = {f1, runt, full}
    SizeOf <- Sizes
    BufLen = 4
    Header = 2
    MaxErrors = 2
INVARIANTS BlockedOnlyByWrite
PROPERTIES ImplementsCable EachTurns SignalEnds
CHECK_DEADLOCK FALSE
