SPECIFICATION Spec
CONSTANTS
    BufferSize = 5
    BlockSize = 2
    StreamLength = 8
    MaxBody = 3
INVARIANTS
    TypeOK
    UnreadIsTheStream
    RefusedIsTooLong
PROPERTIES
    BytesSpec
