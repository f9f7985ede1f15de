SPECIFICATION Spec
CONSTANTS
    Agents = {writer, reviewer}
    Workers = {w1, w2}
    Founder = founder
    MaxSeq = 3
    Threshold = 1
    MaxEvents = 1
SYMMETRY Symmetry
INVARIANTS TypeOK OneWake NothingSwallowed ReleaseKept
PROPERTIES HeldUndisturbed OpenLaunchesNothing ImplementsContract
CHECK_DEADLOCK FALSE
