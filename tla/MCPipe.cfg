CONSTANTS
    RING_BUFFER_SIZE = 3
    Byte = {0, 1}
    Zero = 0
    p1 = p1
    p2 = p2
    Proc <- MCProc
    Creator = p1
    None = None
    MaxLen = 4
SPECIFICATION PipeSpec
PROPERTIES
    ImplementsQueue
    ShortReadIsEof
    ReadEnds
    WriteEnds
