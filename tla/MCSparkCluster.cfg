\* Two Sparks, one of which answers at two addresses; connects, rebinds,
\* selections, disconnects and a launch, with every step failing, and a restart; and two
\* desktops that read its health over three changes.
CONSTANTS
    s1 = s1
    s2 = s2
    a1 = a1
    a2 = a2
    b1 = b1
    NoOne = NoOne
    Sparks = {s1, s2}
    Addresses = {a1, a2, b1}
    At <- MCAt
    MaxNodes = 4
    MaxRequests = 3
    MaxLaunches = 1
    MaxRestarts = 1
    Readers = {r1, r2}
    MaxChanges = 3
\* The system stops when the bounds are used up and nobody calls.
CHECK_DEADLOCK FALSE
SPECIFICATION MCSpec
INVARIANTS
    EachSparkOnce
    LeftoversAreRecorded
PROPERTIES
    DisconnectIsVerified
    MutationsEnd
    ViewCatchesUp
