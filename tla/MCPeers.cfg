SPECIFICATION PeersFairSpec
CONSTANTS
    Remotes = {a}
    Beacons = {a}
    Slots = {s1, s2, s3}
    None = None
INVARIANTS HandlesAreOwned
PROPERTIES  KeepsDialing
CHECK_DEADLOCK FALSE
