\* Any stray bytes between the frames, a preamble among them.
SPECIFICATION Spec
CONSTANTS
    MaxByte = 2
    P1 = 1
    P2 = 2
    HEADER_LENGTH = 3
    ENCRYPTION_OVERHEAD = 1
    MaxData = 1
    Mtu = 5
    MaxStream = 10
INVARIANTS TypeOK PromptDelivery LostOnlyToFalseFrames BufferIsBounded
PROPERTY FifoSpec
