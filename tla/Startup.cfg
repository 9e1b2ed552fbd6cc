SPECIFICATION FairSpec
CONSTANT MaxFrames = 2
INVARIANTS ReadyToRun NothingLeft OwnFrames
PROPERTIES EndsInOrder
CHECK_DEADLOCK FALSE
