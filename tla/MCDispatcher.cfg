\* Two user threads calling malloc and free, the worker, and two threads
\* outside the allocator (the program's threads that are not inside malloc
\* or free, e.g. one blocked in a join) on which the kernel runs the
\* handlers.  The client sends its signals back to back; all carry the same
\* command, so no handler nests in another on one thread.  Handlers on user
\* threads or on the worker are the dispatcher_deadlock run.
CONSTANTS
    Users = {u1, u2}
    Worker = w
    NoThread = NoThread
    NoCmd = NoCmd
    Cmds = {"create"}
    SigThreads = {m1, m2}
    MaxSignals = 3
    MaxCalls = 1
SPECIFICATION Spec
PROPERTIES CommandsRun
