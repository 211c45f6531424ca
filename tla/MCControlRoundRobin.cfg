SPECIFICATION Spec
CONSTANTS
    Components = {"scheduler"}
    t1 = t1
    t2 = t2
    t3 = t3
    Nil = Nil
    Threads <- MCThreads
    Lines = {0}
    Registrable = {0}
    Hz = 100
    Sleeps = {5, 20}
    Naps = {0}
    MaxTicks = 3
    Sent = {1, 2}
    SIGKILL = 2
    SIGSTOP = 3
    SIG_MAX = 5
    MaxSends = 1
    Movements <- MCNoMovements
    MaxPackets = 1
    MaxLost = 2
    LockThreads <- MCLockThreads
    RecursionMod = 4
    MaxLocks = 3
PROPERTY RoundRobin
