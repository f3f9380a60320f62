----------------------------- MODULE Dispatcher -----------------------------
(***************************************************************************)
(* The signal dispatcher of memchk_signal.c and the locks it meets.        *)
(*                                                                         *)
(* A signal handler, run on whichever thread the kernel picks, calls       *)
(* notify: lock __mtx, store the command in __cmd, signal __cond, unlock.  *)
(* The worker (work_thread) holds __mtx for its whole life except inside   *)
(* pthread_cond_wait, so it runs every command with __mtx held.  A command *)
(* takes the tool's own locks (pointer table, metadata pool, hook,         *)
(* manage), which user threads take inside malloc and free.                *)
(*                                                                         *)
(* Locks are modelled by owner and depth; hook and pointer-table locks are *)
(* recursive.  A call or command is the sequence of lock and unlock steps  *)
(* it takes, in code order, nested as in the code (the pool lock inside    *)
(* the pointer-table lock of a duplicate; the call-stack table and pool    *)
(* locks inside mc_get_callstack's CALLSTACK_LOCK).  Only the lock steps   *)
(* are kept: the data the calls change is modelled by Registry and         *)
(* SnapshotDiff.                                                           *)
(***************************************************************************)
EXTENDS Integers, Sequences, FiniteSets, Relation

CONSTANTS
    Users,       \* user threads calling malloc and free
    Worker,      \* the thread running work_thread
    NoThread,    \* owner of a free lock
    NoCmd,       \* __cmd == 0
    Cmds,        \* commands the handlers may store (a subset of CmdSteps' domain)
    SigThreads,  \* threads the kernel may run a handler on
    MaxSignals,  \* signals delivered in a behaviour
    MaxCalls     \* malloc/free calls per user thread

\* Signal threads that are not user threads run no allocator code.
Threads == Users \cup SigThreads \cup {Worker}

\* __mtx of memchk_signal.c, HOOK_LOCK, __ptr_mtx, ALLOC_LOCK,
\* __callstack_mtx of the hash tables, CALLSTACK_LOCK of memchk_callstack.c,
\* MANAGE_LOCK.
Locks == {"mtx", "hook", "ptr", "alloc", "cstab", "csmtx", "manage"}
Recursive == {"hook", "ptr"}   \* PTHREAD_RECURSIVE_MUTEX_INITIALIZER_NP

\* The lock steps each command of work_thread takes under __mtx.  A table
\* copy (mc_duplicate_all_alloc_memblk) and a table destruction
\* (mc_destroy_all_alloc_memblk) take the pool lock inside the pointer-table
\* lock; the filemap work between them runs under mc_disable_hook; a buffer
\* check reports a corruption under mc_disable_hook inside MANAGE_LOCK.
Section(l) == <<[op |-> "lock", l |-> l], [op |-> "unlock", l |-> l]>>
Nest(l, m) == <<[op |-> "lock", l |-> l], [op |-> "lock", l |-> m],
                [op |-> "unlock", l |-> m], [op |-> "unlock", l |-> l]>>
CopyTable == Nest("ptr", "alloc")

\* mc_get_callstack: backtrace under mc_disable_hook, then under
\* CALLSTACK_LOCK the table lookup, the pool allocation of a new entry and
\* its insertion (a call stack not yet in the table).
GetCallstack ==
    Section("hook") \o <<[op |-> "lock", l |-> "csmtx"]>>
    \o Section("cstab") \o Section("alloc") \o Section("cstab")
    \o <<[op |-> "unlock", l |-> "csmtx"]>>

\* The lock steps of a user call, in code order: the do_not_hook test, then
\* mc_register_memblk (pool, call stack, pointer table, counters), or
\* mc_unregister_memblk (pointer-table removal, pool, call stack of the
\* freer, freed table, pool release, counters and ring, then the evicted
\* buffer's removal from the freed table and its pool release).
UserLocks ==
    [malloc |-> Section("hook") \o Section("alloc") \o GetCallstack
                \o Section("ptr") \o Section("manage"),
     free   |-> Section("hook") \o Section("ptr") \o Section("alloc")
                \o GetCallstack \o Section("ptr") \o Section("alloc")
                \o Section("manage") \o Section("ptr") \o Section("alloc")]

\* The commands' lock steps (see above).
CmdSteps == [list      |-> CopyTable \o Section("hook") \o CopyTable,
             check     |-> Nest("manage", "hook"),
             create    |-> CopyTable \o CopyTable,
             destroy   |-> CopyTable,
             compare   |-> CopyTable \o CopyTable \o Section("hook") \o CopyTable \o CopyTable,
             histogram |-> <<>>]

ASSUME Cmds \subseteq DOMAIN CmdSteps

VARIABLES
    owner, depth,  \* per lock: the owning thread and its recursion depth
    ucall,         \* per user thread: [op, i, calls], i its next lock step (0: none)
    wpc,           \* worker: "start", "test", "wait", "wake", "exec"
    wrun,          \* the command the worker runs (NoCmd: the default case)
    wi,            \* the worker's next step in CmdSteps[wrun]
    cmd,           \* __cmd
    handlers,      \* per thread: stack of running handlers [c, st]
    sent,          \* signals delivered
    notified,      \* notify calls completed
    ran            \* commands run by the worker

vars == <<owner, depth, ucall, wpc, wrun, wi, cmd, handlers, sent, notified, ran>>

Init ==
    /\ owner = [l \in Locks |-> NoThread] /\ depth = [l \in Locks |-> 0]
    /\ ucall = [t \in Users |-> [op |-> "malloc", i |-> 0, calls |-> 0]]
    /\ wpc = "start" /\ wrun = NoCmd /\ wi = 1
    /\ cmd = NoCmd
    /\ handlers = [t \in Threads |-> <<>>]
    /\ sent = 0 /\ notified = 0 /\ ran = 0

-----------------------------------------------------------------------------
\* pthread_mutex_lock succeeds when the lock is free, or held by the same
\* thread and recursive; a thread relocking a normal mutex blocks forever.
CanLock(t, l) == owner[l] = NoThread \/ (owner[l] = t /\ l \in Recursive)
Lock(t, l) ==
    /\ owner' = [owner EXCEPT ![l] = t] /\ depth' = [depth EXCEPT ![l] = @ + 1]
Unlock(l) ==
    /\ depth' = [depth EXCEPT ![l] = @ - 1]
    /\ owner' = [owner EXCEPT ![l] = IF depth[l] = 1 THEN NoThread ELSE @]

\* A thread runs its own code only while no handler interrupts it.
Running(t) == handlers[t] = <<>>

\* One lock step: take a lock (blocking while it cannot be had) or release it.
DoStep(t, st) ==
    IF st.op = "lock" THEN CanLock(t, st.l) /\ Lock(t, st.l) ELSE Unlock(st.l)

\* A user thread between calls starts malloc or free; inside a call it
\* takes its next lock step.
UserStep(t) ==
    LET u == ucall[t] IN
    /\ Running(t)
    /\ \/ /\ u.i = 0 /\ u.calls < MaxCalls
          /\ \E op \in DOMAIN UserLocks :
                ucall' = [ucall EXCEPT ![t] = [op |-> op, i |-> 1, calls |-> u.calls + 1]]
          /\ UNCHANGED <<owner, depth>>
       \/ /\ u.i > 0
          /\ DoStep(t, UserLocks[u.op][u.i])
          /\ ucall' = [ucall EXCEPT ![t].i = IF u.i = Len(UserLocks[u.op]) THEN 0 ELSE u.i + 1]
    /\ UNCHANGED <<wpc, wrun, wi, cmd, handlers, sent, notified, ran>>

\* The lock steps of the command the worker runs; the default case takes none.
Prog(c) == IF c = NoCmd THEN <<>> ELSE CmdSteps[c]

\* work_thread, line 41: the first pthread_mutex_lock(&__mtx).
WorkerStart ==
    /\ wpc = "start" /\ Running(Worker) /\ CanLock(Worker, "mtx")
    /\ Lock(Worker, "mtx")
    /\ wpc' = "test"
    /\ UNCHANGED <<ucall, wrun, wi, cmd, handlers, sent, notified, ran>>

\* Lines 43-45: if __cmd is 0, pthread_cond_wait releases __mtx and parks;
\* otherwise the switch runs __cmd.
WorkerTest ==
    /\ wpc = "test" /\ Running(Worker)
    /\ \/ /\ cmd = NoCmd
          /\ Unlock("mtx")
          /\ wpc' = "wait"
          /\ UNCHANGED <<wrun, wi>>
       \/ /\ cmd # NoCmd
          /\ wpc' = "exec" /\ wrun' = cmd /\ wi' = 1
          /\ UNCHANGED <<owner, depth>>
    /\ UNCHANGED <<ucall, cmd, handlers, sent, notified, ran>>

\* pthread_cond_wait may return without a signal (a spurious wakeup).
SpuriousWakeup ==
    /\ wpc = "wait"
    /\ wpc' = "wake"
    /\ UNCHANGED <<owner, depth, ucall, wrun, wi, cmd, handlers, sent, notified, ran>>

\* pthread_cond_wait returning: it retakes __mtx, and the switch runs
\* whatever __cmd holds then (the test is an if, not a while).
WorkerWake ==
    /\ wpc = "wake" /\ Running(Worker) /\ CanLock(Worker, "mtx")
    /\ Lock(Worker, "mtx")
    /\ wpc' = "exec" /\ wrun' = cmd /\ wi' = 1
    /\ UNCHANGED <<ucall, cmd, handlers, sent, notified, ran>>

\* The command's body under __mtx, then line 85: __cmd = 0.
WorkerExec ==
    /\ wpc = "exec" /\ Running(Worker)
    /\ \/ /\ wi <= Len(Prog(wrun))
          /\ DoStep(Worker, Prog(wrun)[wi])
          /\ wi' = wi + 1
          /\ UNCHANGED <<wpc, cmd, ran>>
       \/ /\ wi > Len(Prog(wrun))
          /\ cmd' = NoCmd
          /\ ran' = IF wrun = NoCmd THEN ran ELSE ran + 1
          /\ wpc' = "test"
          /\ UNCHANGED <<owner, depth, wi>>
    /\ UNCHANGED <<ucall, wrun, handlers, sent, notified>>

-----------------------------------------------------------------------------
\* The kernel runs the handler of signal c on thread t, interrupting
\* whatever t does, even another handler: signal() blocks only the same
\* signal while its handler runs.  The client's kill returns once the
\* signal is sent, and it sends the next option's signal at once, whatever
\* the worker is doing.
Deliver(t, c) ==
    /\ sent < MaxSignals
    /\ \A i \in 1..Len(handlers[t]) : handlers[t][i].c # c
    /\ handlers' = [handlers EXCEPT ![t] = Append(@, [c |-> c, st |-> "lock"])]
    /\ sent' = sent + 1
    /\ UNCHANGED <<owner, depth, ucall, wpc, wrun, wi, cmd, notified, ran>>

Top(t) == handlers[t][Len(handlers[t])]

\* notify, line 93: pthread_mutex_lock(&__mtx).
HandlerLock(t) ==
    /\ handlers[t] # <<>> /\ Top(t).st = "lock" /\ CanLock(t, "mtx")
    /\ Lock(t, "mtx")
    /\ handlers' = [handlers EXCEPT ![t][Len(handlers[t])].st = "body"]
    /\ UNCHANGED <<ucall, wpc, wrun, wi, cmd, sent, notified, ran>>

\* Mutant: notify without pthread_cond_signal.
HandlerNotifyNoSignal(t) ==
    /\ handlers[t] # <<>> /\ Top(t).st = "body"
    /\ cmd' = Top(t).c
    /\ Unlock("mtx")
    /\ handlers' = [handlers EXCEPT ![t] = SubSeq(@, 1, Len(@) - 1)]
    /\ notified' = notified + 1
    /\ UNCHANGED <<ucall, wpc, wrun, wi, sent, ran>>

\* notify, lines 94-96: __cmd = cmd, wake the worker if it waits, unlock;
\* the handler returns.
HandlerNotify(t) ==
    /\ handlers[t] # <<>> /\ Top(t).st = "body"
    /\ cmd' = Top(t).c
    /\ wpc' = IF wpc = "wait" THEN "wake" ELSE wpc
    /\ Unlock("mtx")
    /\ handlers' = [handlers EXCEPT ![t] = SubSeq(@, 1, Len(@) - 1)]
    /\ notified' = notified + 1
    /\ UNCHANGED <<ucall, wrun, wi, sent, ran>>

Next ==
    \/ \E t \in Users : UserStep(t)
    \/ WorkerStart \/ WorkerTest \/ SpuriousWakeup \/ WorkerWake \/ WorkerExec
    \/ \E t \in SigThreads, c \in Cmds : Deliver(t, c)
    \/ \E t \in Threads : HandlerLock(t) \/ HandlerNotify(t)

\* Every thread is scheduled: the kernel runs each runnable thread and
\* handler eventually.  Signals and spurious wakeups come when they come.
Fairness ==
    /\ \A t \in Users : WF_vars(UserStep(t))
    /\ WF_vars(WorkerStart) /\ WF_vars(WorkerTest) /\ WF_vars(WorkerWake) /\ WF_vars(WorkerExec)
    /\ \A t \in Threads : WF_vars(HandlerLock(t)) /\ WF_vars(HandlerNotify(t))

Spec == Init /\ [][Next]_vars /\ Fairness

-----------------------------------------------------------------------------
\* The lock thread t is blocked on, or "none".
Wanted(t) ==
    IF handlers[t] # <<>> THEN IF Top(t).st = "lock" THEN "mtx" ELSE "none"
    ELSE IF t = Worker THEN
        IF wpc \in {"start", "wake"} THEN "mtx"
        ELSE IF wpc = "exec" /\ wi <= Len(Prog(wrun)) /\ Prog(wrun)[wi].op = "lock"
             THEN Prog(wrun)[wi].l
        ELSE "none"
    ELSE IF t \in Users /\ ucall[t].i > 0 /\ UserLocks[ucall[t].op][ucall[t].i].op = "lock"
         THEN UserLocks[ucall[t].op][ucall[t].i].l
    ELSE "none"

\* x waits for y: y owns the lock x is blocked on (x itself, for a normal
\* mutex x already owns).
WaitsFor == [p \in Threads \X Threads |->
                LET l == Wanted(p[1]) IN
                l # "none" /\ ~CanLock(p[1], l) /\ owner[l] = p[2]]

\* No set of threads waits on each other in a cycle: in particular no
\* handler's notify waits for __mtx while the worker, holding __mtx, waits
\* for a lock the interrupted thread holds, and no thread relocks __mtx it
\* already holds.
NoWaitCycle == IsIrreflexive(TransitiveClosure(WaitsFor, Threads), Threads)

\* Every notify is answered by exactly one run of its command: the commands
\* run plus the one pending in __cmd equal the notify calls made, so none
\* is overwritten before the worker takes it and none runs twice.
RunsMatchNotifies == ran + (IF cmd # NoCmd THEN 1 ELSE 0) = notified

\* A command stored in __cmd is eventually run and cleared.
CommandsRun == cmd # NoCmd ~> cmd = NoCmd

=============================================================================
