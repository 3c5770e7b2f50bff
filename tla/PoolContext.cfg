\* A goroutine whose context is cancelled, a server that may be slow.
SPECIFICATION ClientSpec
CONSTANTS
    u1 = u1
    u2 = u2
    Users = {u1}
    s1 = s1
    s2 = s2
    Slots = {s1}
    NoSlot = NoSlot
    MaxIdle = 1
    Kinds <- ExecOnly
    MaxLosses = 0
PROPERTY ContextIsHonored
