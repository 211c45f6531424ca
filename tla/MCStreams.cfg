SPECIFICATION Spec
CONSTANTS
    a = a
    b = b
    zero = zero
    QueueCapacities = {0, 1, 3}
    Types = {1}
    Payloads <- MCPayloads
    Zeroes <- zero
    MaxPayload = 1
    Lengths = {0, 1, 2}
    b1 = b1
    b2 = b2
    junk = junk
    PipeCapacities = {0, 1, 2}
    PipeBytes <- MCBytes
    PipeGarbage = junk
    DefaultCapacity = 3
    MaxCount = 4
    RingCapacities = {1, 3}
    RingBytes <- MCBytes
    RingGarbage = junk
    MaxLength = 4
    t1 = t1
    t2 = t2
    t3 = t3
    Threads <- MCThreads
    Initials <- MCInitials
    Limits <- MCLimits
    InputCapacity = 3
    ReadCounts = {1, 3}
    Keys = {"letter", "enter", "backspace", "shift"}
    MaxPresses = 4
    LogCapacity = 3
    Chunk = 2
    MaxBytes = 6
    h1 = h1
    h2 = h2
    h3 = h3
    m1 = m1
    m2 = m2
    f1 = f1
    f2 = f2
    Hosts <- MCHosts
    Macs <- MCMacs
    Ports = {0, 1, 2, 3}
    Handlers <- MCHandlers
    Nobody = Nobody
    ARP_TABLE_SIZE = 2
    UDP_MAX_PORTS = 2
    SOCKET_MAX = 2
    ByteBase = 3
    MaxDataLen = 4
    IdMod = 2
SYMMETRY MCSymmetry
INVARIANTS
    MsgQueueSound
    CountInRange
    InputAndLogExact
    StackExact
PROPERTIES
    QueueIsFifo
    BytesAreFifo
    ImplementsCounting
