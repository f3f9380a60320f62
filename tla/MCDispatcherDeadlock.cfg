\* The client sends its signals back to back, one per option; the kernel
\* may run a handler on any thread, the worker included.
CONSTANTS
    Users = {u1, u2}
    Worker = w
    NoThread = NoThread
    NoCmd = NoCmd
    Cmds = {"create", "check"}
    SigThreads = {u1, u2, w}
    MaxSignals = 2
    MaxCalls = 1
SPECIFICATION Spec
INVARIANT NoWaitCycle
CHECK_DEADLOCK FALSE
