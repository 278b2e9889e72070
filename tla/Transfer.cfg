\* Vaults carried between two devices in bundles, old and new.
SPECIFICATION Spec
CONSTANTS
    IdSpace = 256
    Devices = {d1, d2}
    NumDbs = 1
    MaxCalls = 5
    MaxEnrolls = 2
    MaxCodes = 1
    MaxExports = 2
    MaxWrites = 2
    MaxUuids = 2
    MaxCrashes = 1
    ExportsOverJournal = FALSE
SYMMETRY DeviceSymmetry
INVARIANTS TypeOK BundleOpens ImportServes ServesSealed
PROPERTIES NoRollback
CHECK_DEADLOCK FALSE
