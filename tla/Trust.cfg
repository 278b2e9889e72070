\* Certificates, attestations and relay requests of one device.
SPECIFICATION Spec
CONSTANTS
    Calls = {c1}
    CapsInputs <- ScopeLists
    Overlaps = FALSE
    MaxTime = 1
    MaxKeys = 3
    MaxRotations = 1
    MaxSigs = 2
    None = None
INVARIANTS TypeOK SignedForIt OneRoot OwnCert
CHECK_DEADLOCK FALSE
