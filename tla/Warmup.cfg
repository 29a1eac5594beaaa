SPECIFICATION Spec
CONSTANTS
    Clients = {c1, c2}
    Sizes = {0, 3, 4}
    Chunk = 3
    MaxPartial = 2
    MaxExcess = 0
    MsgSize = 3
INVARIANTS CopyIsExact EchoIsOwnMessage
PROPERTIES TransferEnds EchoEnds
