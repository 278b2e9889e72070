\* The file table and the block device under power loss.
SPECIFICATION Spec
CONSTANTS
    B = 2
    Db = {a}
    Temp = {t}
    Handle = {h1, h2, h3, h4}
    InitialCapacity = 3
    MaxBlocks = 2
    Byte = {0, 1}
    NoHandle = NoHandle  NoName = NoName  PoolKey = PoolKey  Unknown = Unknown
SYMMETRY HandleSymmetry
INVARIANTS TypeOK HandlesAccounted Readable
PROPERTIES FilesSpec
