SPECIFICATION Spec
CONSTANTS
    DirectTokens = {d1, d2}
    AdapterTokens = {a1}
    BinaryTokens = {b1}
    Steps = {s1}
    Identities = {x, y}
    Requests = {r1}
    Threads = {h1, h2}
    MaxMints = 2
    MaxRestarts = 1
SYMMETRY Symmetry
INVARIANTS TypeOK TokenSpentOnce IdentitiesDistinct OneProbePerToken NeverStranded
PROPERTIES CommittedAsBound NewerStaysBound
CHECK_DEADLOCK FALSE
