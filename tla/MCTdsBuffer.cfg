CONSTANTS
    PacketSizes = {10, 11}
    SeqMod = 3
    MaxWrite = 5
    MaxBytes = 9
    MaxMsgs = 3
SPECIFICATION Spec
INVARIANTS WithinPacket MessagesKept WellFramed
PROPERTY InOrder
CHECK_DEADLOCK FALSE
