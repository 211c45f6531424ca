SPECIFICATION Spec
CONSTANTS
    Components = {"interrupts"}
    t1 = t1
    t2 = t2
    t3 = t3
    Nil = Nil
    Threads <- MCOneThread
    Lines = {0, 1}
    Registrable = {0, 1}
    Hz = 100
    Sleeps = {}
    Naps = {0, 5, 20}
    MaxTicks = 4
    Sent = {1, 2}
    SIGKILL = 2
    SIGSTOP = 3
    SIG_MAX = 5
    MaxSends = 1
    Movements <- MCNoMovements
    MaxPackets = 1
    MaxLost = 2
    LockThreads <- MCLockThreads
    RecursionMod = 4
    MaxLocks = 3
PROPERTY NanosleepEnds
