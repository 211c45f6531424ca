SPECIFICATION Spec
CONSTANTS
    Components = {"scheduler", "interrupts", "signals", "mouse", "locks"}
    t1 = t1
    t2 = t2
    t3 = t3
    Nil = Nil
    Threads <- MCThreads
    Lines = {0, 2, 11, 12}
    Registrable = {0, 2, 11, 12}
    Hz = 100
    Sleeps = {5, 20}
    Naps = {0}
    MaxTicks = 2
    Sent = {0, 1, 2, 3, 4, 5}
    SIGKILL = 2
    SIGSTOP = 3
    SIG_MAX = 5
    MaxSends = 2
    Movements <- MCMovements
    MaxPackets = 3
    MaxLost = 2
    LockThreads <- MCLockThreads
    RecursionMod = 4
    MaxLocks = 2
INVARIANTS
    QueueSound
    ControlSound
    MouseRecovers
PROPERTIES
    ImplementsRoundRobin
    ControlServes
    LocksServe
