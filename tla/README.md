# Formal models of the cs544 coursework repository

The repository holds the programs of an operating-systems course: five small
pthread programs (`concur/`), kernel components written or modified for the
projects (`indwriterups/`: an I/O scheduler, a RAM disk, the SLOB allocator and
the real-time scheduler) and a system-call fuzzer (`544final/`).  They are
independent programs; each one is modelled on its own.

## 1. Inventory

| part | source | state | operations | what is hard |
|---|---|---|---|---|
| producer/consumer | `concur/concurrent1/concurrent1.c` | 32 slots, two counting semaphores, two loop counters | produce, consume | the slot is written outside any lock; the semaphores must keep the two scans apart |
| dining philosophers | `concur/concurrent2/concurrent2.c` | fork semaphores, a ticket semaphore and an "ate" flag per philosopher | think, take ticket, take forks, eat, put forks back, end of cycle | who resets the cycle; deadlock over forks |
| dinner list | `concur/concurrent3/3way.c` | linked list, count, one rwlock, two mutexes | search, insert, delete | readers against an insertion, unlinking under a reader, lock order |
| barber shop | `concur/concurrent4/barbershop.c` | a racing chair count, two mutexes used as semaphores | arrive, sit, signal, cut | hand-over between threads, lost updates |
| shared resource | `concur/concurrent5/concurrent5A.c` | a racing count, one mutex | use, block, release | lost updates, blocked customers |
| SSTF I/O scheduler | `indwriterups/project2/sstf-iosched.c` | sorted request queue, head position, direction | add, dispatch, merge | order of service, starvation |
| fuzzer supervisor | `544final/fuzzer_final/Fuzzy_v_0.5/fuzzer.c` | process table per process, pid files, log | start, fork workers, SIGCHLD, SIGHUP, restart | a child that dies before it is registered, signals between steps |
| fuzzer sandbox | `.../sandbox.c`, `sandbox.h`, `syscall_def.c`, `syscall_def.h`, `worker()` of `fuzzer.c` | descriptor pool, argument regions, the last path picked, working directory | fill the pool, make up arguments, call, go through the table | pool limits, state that calls change behind the pool's back |
| SLOB allocator | `indwriterups/project4/slob.c` | pages, free lists, unit counts | alloc, free, fragmentation | best fit, coalescing, sizes at a page |
| RAM disk | `indwriterups/project3/ramdsk.c` | device array, key, request queue | transfer, request loop, init, exit | requests it cannot serve, errors half way |
| RT bandwidth | `indwriterups/project1/sched_rt.c`, `sched.c` | runtime and time per queue, period timer | charge, borrow, throttle, refresh, hotplug, sysctl | borrowing and giving back while CPUs go |
| RT scheduler | `indwriterups/project1/sched_rt.c` | priority lists and their caches, pushable tasks, overload mask | enqueue, dequeue, pick, requeue, tick, push, pull | locks dropped in the middle of a push or pull, several CPUs |
| core scheduler | `indwriterups/project1/sched.c` | run queues, tasks, wake lists, stop requests | schedule, wake up, fork, set policy, priority and affinity, yield, tick | a wake-up against a sleep, an affinity change against a move |

The programs do not call each other.  Inside a program the parts interact
through shared memory (the five `concur/` programs), through calls under a lock
(block layer and I/O scheduler, block layer and RAM disk, page allocator and
SLOB), or through signals, `fork` and pid files (the fuzzer).  The scheduler's
parts interact through run-queue locks, a timer and hotplug notifications.

What makes each part correct, in one line:

* producer/consumer - a thread that got its semaphore finds a slot; items are
  consumed whole and once; `main` returns exactly when the two counts fit.
* philosophers - no deadlock over forks; a ticket leads to a meal however often
  others go first; the table stops only when a flag was lost.
* dinner list - deletion is exclusive, no walk touches freed memory or leaves the
  list (but past its end, for one draw), every operation that got its locks ends.
* barber shop - the barber cuts the hair of the customer in the chair, signals
  are neither lost nor merged, a customer who sits down is served.
* shared resource - how far the racing count can drift, and that nobody blocks
  before all resources were taken.
* SSTF - the queue is sorted, service follows the elevator, nobody starves.
* fuzzer supervisor - one process per worker, deaths are noticed, a worker that
  is flagged is forked again.
* SLOB - pages are tiled by disjoint blocks, free lists are ordered and joined,
  the page lists hold exactly the pages with room.
* RAM disk - what was written is read back, nothing outside the memory of the
  disk is touched, no request is lost.
* fuzzer sandbox - what the pool has as opened stays open; what the repository
  says of descriptors, paths and the life of a worker is stated and refuted.
* RT bandwidth - runtime that is lent comes back; a throttled queue is released.
* RT and core scheduler - every cache agrees with its lists, a task is on one
  queue and runs on one CPU, no wake-up is lost, each CPU runs the highest task
  it has, and tasks that a CPU cannot run are pulled by one that can.

## 2. Modules

| module | extends / instantiates | models |
|---|---|---|
| `ProducerConsumer` | | `concurrent1.c` |
| `Philosophers` | | `concurrent2.c` |
| `DinnerList` | | `3way.c` |
| `BarberShop` | | `barbershop.c` |
| `ResourceShare` | | `concurrent5A.c` |
| `Sstf` | instantiates `Elevator` | `sstf-iosched.c` and the block layer's calls |
| `Elevator` | | abstract: what an elevator scheduler promises on a *set* of requests |
| `FuzzerSupervisor` | | the process side of `fuzzer.c` |
| `Slob` | | `slob.c`, both builds |
| `RamDisk` | | `ramdsk.c` |
| `RtBandwidth` | | runtime accounting of `sched_rt.c` and the code of `sched.c` that drives it |
| `RtRunQueue` | | the data structures of `sched_rt.c`: operators, no variables |
| `RtSched`, `MCRtSched` | extends `RtRunQueue` | the scheduler on several CPUs: `sched.c` with the class of `sched_rt.c` |
| `FuzzSandbox` | | a worker of the fuzzer: `sandbox.c`, `syscall_def.*`, `worker()` |
| `MCQueues` | extends `ProducerConsumer`, `BarberShop`, `Sstf` | the three in one run |
| `MCMemory` | extends `Slob`, `RamDisk` | the two in one run |
| `MCFuzzer` | extends `FuzzerSupervisor`, `FuzzSandbox` | the two sides of the fuzzer in one run |
| `KernelProofs` | `Sstf`, `RamDisk`, `Slob`, `RtBandwidth`, `TLAPS` | theorems about the kernel projects |
| `FuzzerProofs` | `FuzzerSupervisor`, `FuzzSandbox`, `TLAPS` | theorems about the fuzzer |
| other `*Proofs` | the module of the same name, `TLAPS` | theorems |

Definitions carry the names of the source where they can; `PROJECT.json` maps
each to its lines.  Modules that another one extends together have no
definition of the same name; so some call their initial condition, next-state
relation and specification `BufferInit`, `ShopNext`, `DiskInit`, `SlobStep`,
`BandwidthSpec`, `SandboxSpec` and so on.  An `MC` module that extends several
components chooses one in its initial state; the others stand still, and each
component has the fairness of its own specification.

In all models of threads, a variable holds the place of each
thread (`at`, `cust`, `ppc`, ...) and a step is one access to shared memory or
one synchronisation call, together with the local computation next to it.

**Shared plain variables.**  `waiting_chair_count`, `resource_count` and `phi[]`
are plain C variables that several threads write without a lock.  `x--` and
`x++` are a load into a register and a store, two steps; the committed binaries
do just that.  This is the outcome of the data race that the build can produce.

**Mutexes used as semaphores.**  `barbershop.c` and `concurrent5A.c` unlock
mutexes in threads that did not lock them.  POSIX leaves that undefined for a
default mutex; the models use what glibc does (the mutex becomes unlocked; a
second unlock has no effect).

**ProducerConsumer.**  `buff[i]` is `a[i]`, `b[i]`; a slot is free while
`b[i] = 0`.  The consumer and the producer scan one slot a step.  The item's
number stands for the printed random `a`, so that two items can be told apart.

**Philosophers.**  Tickets (`sem_phi`), flags (`phi`) and the walk that ends a
cycle (post the ticket, clear the flag, next philosopher) are separate steps of
whoever found all flags set.  Nothing bounds the meals: the table goes on for
ever, and the only limit is that of the semaphores (`SEM_VALUE_MAX`; a post
beyond it fails and the code does not look).  The printer thread only reads and
is left out.

**DinnerList.**  `next_dinner` and `dinner_time` are the memory of all nodes, and
`heap` is what is allocated: a freed node keeps its contents, and a walk through
it is seen because `WalksStayOnList` compares walks with `Linked`, the nodes that
`turkey_dinners` reaches.  `random()` gives any of `0 .. RandMax`, `RAND_MAX`
included, for which `random_range` is one past its end (`overlong` remembers
which walks have that).  A walk that then follows NULL kills the process: `Crash`
ends all threads.  A write lock excludes readers; glibc prefers readers, so the
write lock has no fairness.

**Sstf.**  Requests are recycled with other sectors.  `Elevator` knows no list;
the refinement mapping takes the queue to the set of its entries.

**FuzzerSupervisor.**  `main`, the `SIGCHLD` handler that may run between any two
steps of `main`, and the life of each child.  `SIGCHLD` is one pending bit.
A worker may die at any moment, because it calls system calls with random
arguments; what it calls is in `FuzzSandbox`, whose run `sandbox_exit` shows that
it does die.

**FuzzSandbox.**  One worker of any of the five kinds.  Each visit of the walk
that fills the pool is a step, and so is each argument and each call.  A call
has the effects that it can have on the worker (a descriptor, another working
directory, another program) or none.  `syscall()` is given the *addresses* of
the regions (435-449), so `DescriptorArg` is a number that no process has open,
while a path is what the region holds.  The index that reads behind the pool
(265) gives any number, an open descriptor among them (`Garbage`).  `fds` is what
the process really has open and `leaked` what calls of `open` and `creat` added.

**Slob.**  A page's memory is an array of units whose free ones hold the block's
size and the offset of the next block, with the negative encoding of a one-unit
block.  A search or a free under `slob_lock` is one step; the lock is dropped
between a failed search and the new page, and so is the model's step.
`best_fit` is chosen in `Init`: both builds are checked by the same run.

**RamDisk.**  Data are pairs of a key and a value written, so that decryption
with another key is a different value.  Sizes are `int`s of `Width` bits (sector
bytes factored out) and overflow as the code's do.  A chunk is transferred page
by page.  Module load is a sequence of steps any of which may fail.

**RtBandwidth.**  A step holds what the code holds under its locks.  Where
`rt_runtime_lock` is dropped and the run queue's lock is kept, `locked` says who
has the queue and what comes next.  `u64` arithmetic is modulo `2^Bits`, and
`s64` differences are taken in the same width.  `upset` records the three known
ways in which the accounting is broken from outside (see section 6), so that the
invariants can say that there is no fourth.

**RtRunQueue, RtSched.**  A function of the source that changes a queue is an
operator from a scheduler state to the state after the call, and an action of
`RtSched` is a critical section.  The configuration is `CONFIG_SMP`,
`CONFIG_PREEMPT` and no groups, in which `double_lock_balance` always drops the
lock it has: push, pull, the callbacks of a class change, `try_to_wake_up` and
the wake list are chains of actions, and `pc[c]` is where CPU `c` is, which
queue's lock it keeps (labels of `Holds`) and whose `pi_lock`.  `Step` is what a
CPU does in such a chain, `Enter` what starts one.  A queue may be throttled
whenever one of its real-time tasks runs, and released at any time after
(`Throttle`, `Unthrottle`; the amounts are in `RtBandwidth`): its real-time tasks
are not picked meanwhile (`sched_rt.c:1132-1133`).  The interrupt of a wake list
is a bit, `ipi`, that `ttwu_queue_remote` sets for the first task only, and
`scheduler_ipi` runs only when it is set.  The fair class is one set of tasks
without order, below every real-time task.  `hist` is history for the properties.

`rt_policy` is not what `sched.c` has.  Lines of that file were erased for the
course (`project1.tex:42`), and at 126-136 they were not put back right:
`rt_policy()` returns 0, and the test for `SCHED_FIFO` and `SCHED_RR` is in
`task_has_rt_policy()`, on a variable that is not declared there, so the file does
not compile.  A program that does not compile has no behaviour to model; the model
has lines 133-134 in `rt_policy()`, where they compile, and uses it where the
source does.

## 3. Runs and bounds

| run | instance | what it shows |
|---|---|---|
| `queues` | buffer: 3 slots, counts up to 5, two delays; barber: 4 customers, 2 chairs; SSTF: 3 requests, 4 sectors | buffer: `ScanFinds`, `EachItemOnce`, `JoinsIffBalanced` for all pairs of counts; barber: the hand-over of chair and signal, chairs for the first customers, service of everybody seated; SSTF: sorted queue, refinement of `Elevator`, no starvation |
| `share` | 4 customers, 2 resources | drift of the count, no early block, release while the count does come back |
| `philosophers` | 3 philosophers, 3 left and 2 right forks, 2 tickets at most | no fork deadlock, ticket to meal on a table that goes on for ever, the only way to a standstill |
| `dinners` | 2 threads of each kind, 3 nodes, `RandMax = 3` | exclusion, walks, progress; deadlock is checked |
| `fuzzer` | 2 workers, 2 deaths, failing forks; one worker with 3 files, a directory, a pool of 3 and 4 descriptors | flags, zombies, replacement; the opened part of the pool stays open |
| `memory` | SLOB: 2 pages of 6 units, 2 threads, blocks of 1 to 3 units and a whole page, 2 lists; RAM disk: 1 disk, 3 geometries, 3 requests, 2 keys and a bad one, 2 key writes, at most 4 of requests and key writes | SLOB: tiling and free list, page lists, in both builds; RAM disk: read-back, memory bounds, no request lost |
| `rt_bandwidth` | 2 CPUs, period 3, runtime 2, one hotplug or sysctl write | conservation with `BUG_ON(want)`, release |
| `rt_sched` | 2 CPUs, 3 tasks, 2 real-time priorities in use, 2 tries of a push; 2 events besides wake-ups | caches, places, pushable tasks, wake-ups, the highest runs, pull after a failed push, affinity |

Four runs expect a violation of what a comment of the repository says (section 6):

| run | property | the claim |
|---|---|---|
| `dinners_draw` | `MustHaveFound` | `3way.c:41`, 169: the draw stays in its range, the walk finds its dinner |
| `sandbox_descriptors` | `DescriptorsAsTyped` | `syscall_def.h:17-18`: descriptors that are open for reading, or for writing |
| `sandbox_paths` | `PathsInSandbox` | `sandbox.c:115`, 139: paths are always inside the sandbox |
| `sandbox_exit` | `NeverExited` | `fuzzer.c:295`, 266: a worker never exits and makes all calls of the table |

Why these are enough: each bound is the smallest at which the case it is for
happens - a full and an empty buffer with a second lap; one customer seated,
two waiting and one turned away; two philosophers that end a cycle together; a
walk that has passed one node when another is appended behind it; a death that
coincides with another death; a block with a free neighbour on both sides; a
transfer that crosses a page and a request of two chunks; one CPU that lends to
another and goes away; a pool with an entry of each part, full before the walk
ends, and one call of `open` that succeeds; two tasks of a CPU of which one can
go to the other CPU and a third that gets there first.  `MaxEvents = 2` of
`rt_sched` allows any two of sleep, tick, throttle, yield, fork, policy, priority
and mask changes, in any order with wake-ups of three tasks, pushes, pulls and
migrations; each mutant of the code is caught within it.  Larger instances than a
run affords have been checked before throttling was added, one kind of initial
state at a time: two CPUs with three events (17 million states) and three CPUs
with two (10 million).  `Symmetry` permutes the tasks, which only `InitParams`
tells apart, as a symmetric set.  What is proved (section 5) does not depend on
bounds.

Values that are bounds of the model and not of the code are named in the
modules: `MaxItems`, `Nodes`, `MaxDeaths`, `Pages`, `MaxRequests`,
`MaxKeyWrites`, `Calls` of `MCMemory`, `MaxTime`, `MaxTasks`, `MaxEvents`.

`CHECK_DEADLOCK FALSE` is set where the program really may stop: a thread that
waits for a partner that has finished, the barber after the last customer, a
blocked customer after a lost update, `main` when its pid file exists, a
scheduler after `exit_queue`, a driver whose load failed, philosophers after a
lost flag.  `dinners`, `rt_bandwidth`, `rt_sched` and the runs that expect a
violation are checked for deadlock; `dinners` and `FuzzSandbox` let a process that
was killed stay as it is.

Type invariants are proved, for every module with variables but the abstract
`Elevator`, and not run.

## 4. Fairness

* Threads (`ProducerConsumer`, `Philosophers`, `BarberShop`, `ResourceShare`,
  `DinnerList`) and processes (`FuzzerSupervisor`): weak fairness per thread.
  Every thread is an ordinary task of the kernel, which runs a runnable task.
* `DinnerList`: strong fairness of taking `inserters_lock`, since its owners
  sleep for a second or more between release and the next lock, and a waiter is
  woken in between.  None for the write lock: readers may starve it, and
  `OperationsFinish` does not claim otherwise.
* `Philosophers`: weak fairness only.  `sem_wait` is not fair between its waiters,
  so one may be overtaken at the forks for as long as others have tickets;
  `TicketLeadsToMeal` holds because they run out of them: no cycle ends without
  the flag of the one who waits.
* `Sstf`: weak fairness of dispatch and of the end of draining: the block layer
  dispatches while requests are queued.
* `RtBandwidth`: weak fairness of the timer interrupt and of the holder of a
  lock; strong fairness of taking the run queue's lock, which is a ticket lock.
* `FuzzSandbox`: weak fairness of the worker's step: it is scheduled, and no call
  blocks for ever (no descriptor argument is an open one, and no path of the tree
  is a pipe).  No property of it needs this.
* `RtSched`: none.  Its invariants are about every moment, and about the moments
  at which nothing is under way (`Quiet`).
* `Slob`, `RamDisk`: none; only safety is stated.  Nothing in the code says
  when a caller frees, and the request loop can hang (section 6).

## 5. Proofs

All theorems hold for every value of the constants under the named assumptions
of the modules (`BufferAssumption`, `ShopAssumption`, `ShareAssumption`,
`PhilosophersAssumption`, `SectorAssumption`, `SupervisorAssumption`,
`ListAssumption`, `RtRunQueueAssumption`, `RtSchedAssumption`,
`RamDiskAssumption`, `SlobAssumption`, `BandwidthAssumption`, `TimeFits`); those
about `FuzzSandbox` have `SandboxConstants` as a hypothesis.  They say that
numbers are numbers, that there is a slot, a philosopher, a fork of each kind, a CPU, a device and a
real-time priority, that `NULL` is no pid, no node and no number and the idle
task no other task, that memory, tasks, list boundaries and shapes of a request
are finite, that no affinity mask is empty, that alignments divide a page, that
the fuzzer's home directory is none of the paths it finds, and (`TimeFits`) that
the runtime of all CPUs in a period, and what a CPU has run, are below half of a
`u64`: nanoseconds of a period of one second are.  `WidthArithmetic` and
`BitsArithmetic` say of powers of two what the provers do not know: that they are
positive, and that `2^w` is twice `2^(w-1)`.

* `ProducerConsumerProofs`.  `IInv = BufferTypeOK /\ ScanFinds /\ SlotsAccounted /\
  Claims /\ InLoop`.  `SlotsAccounted` counts: the value of `sem_c` plus what
  is in the threads' hands is the number of full slots, and the same for the
  free ones.  It alone does not survive a step of a scan: `Claims` adds that a
  scan that has not found its slot yet has one *ahead of its index*, which the
  other thread can only help.  `ScanFinds` follows: no loop runs off the end.
  `ItemsInv` says where the items are: each one made so far is in exactly one
  slot, in the consumer's hands or printed, and `printed` repeats none.
  `EachItemOnce` follows without an induction over `printed`, because a step
  appends one item to it.  `UnbalancedNeverJoins` is the safety half of
  `JoinsIffBalanced`: with unequal counts beyond what the buffer absorbs, `main`
  never gets past its joins.
* `BarberShopProofs`.  `IInv = ShopTypeOK /\ MainInv /\ ChairInv /\ CountInv`.
  `ChairInv` is the hand-over as the chair sees it: free, or taken and not
  signalled, or signalled and then either pending or being cut.  It gives
  `BarberCutsTheSeated` and `SignalNeverMerged`.  `CountInv` bounds the count
  and every register copy of it from below by the number of stored decrements;
  it gives `FirstCustomersFindChairs`.
* `ResourceShareProofs`.  `IInv = TypeOK /\ MainInv /\ DriftInv /\
  NoEarlyBlock`.  `DriftInv` bounds the count *and every copy in a register*:
  the bound on the count alone is not inductive.  Gives `CountDrift`.
* `PhilosophersProofs`.  `IInv = TypeOK /\ ForksConserved`; `NoForkDeadlock`
  follows by counting: if no right fork is left somebody holds one and needs
  no other.  `CycleInv`: unless a flag was lost, every philosopher has a ticket,
  or a flag, or is on the way from the one to the other, or is about to be given
  one by a walk; and if all flags are set somebody is about to see it.
  `StuckOnlyAfterLostFlag` follows: without a lost flag somebody can move.
* `KernelProofs`, `Sstf`.  `IInv = TypeOK /\ QueueSorted`; lemmas on insertion
  into and deletion from a sequence; `Refinement`: `Spec => ImplementsElevator`,
  each step being a step of `Elevator` or a stutter.
* `KernelProofs`, `RamDisk`.  `RInv` ties what the request loop does to what a
  disk promises.  `Known`: a sector whose key the writers know holds what was
  written there.  `Agrees`: a reader's buffer holds what may be expected *of the
  chunks done so far*, so that `ReadsBack`, which speaks of requests that are
  done, survives the transfer of a chunk.  `Served`: what a loop has in hand is an
  unfinished request of its own device that no longer waits; it gives
  `NoRequestLost`.  `Shaped` and lemmas on the lengths of chunks bound every
  access by the memory of the disk: `OnlyOwnMemory`.
* `KernelProofs`, `Slob`.  `SlobInv`: for each SLOB page there is a set of offsets
  which is a chain (each free block ends before the next one begins, and touches
  it only at the end of the page) and whose units, with those of the blocks
  handed out, tile the page (`Chain`, `Tiled`); the page flag that `kfree` looks
  at says whose page it is; a page is on a list exactly while it has something
  free.  The lemmas follow a block taken from its front, from its middle behind
  an alignment gap or as a whole, and a block given back with a free neighbour on
  either side, both or neither.  That the set of offsets *is* what a walk along
  the list visits is again an argument by the least counterexample.  It gives
  `PageIsTiled` and `ListsHoldPartialPages`, for both builds.
* `KernelProofs`, `RtBandwidth`.  `BandwidthInv`.  `Even`: in each domain, what
  the enabled CPUs have beyond their shares adds up to zero.  From it follows that
  nobody has more than the shares of all (`EvenBound`), hence that no `u64` wraps
  and every `s64` difference is the true one (`TimeFits`).  A loan moves what the
  lender loses to the borrower, also when it is cut off at the period
  (`LendEven`, `BalancedEven`).  The loop of `__disable_runtime` has the invariant
  `Asked`: what is still wanted is what the other CPUs together have too much,
  and whoever was asked has nothing left; after the last CPU nothing can be
  wanted, which is why `BUG_ON(want)` does not fire (`ReclaimedEven`).  For
  hotplug the sums are not enough: a CPU that changes its domain must take its
  own share or nothing with it.  `Accounted` (a CPU of the domain that is neither
  online nor active is disabled) and `Listed` (in which order the notifiers' steps
  stand in the list, and which CPUs they name) give that.  A CPU that waits to
  borrow is not disabled meanwhile, because its run queue's lock is held.
  `RuntimeConserved` follows with a lemma that `MapThenSumSet` is a sum.  Sums
  over the CPUs are partial sums by CPU number, and facts about loops are shown
  by going up from CPU to CPU (`UpTo`).
* `FuzzerProofs`, `FuzzerSupervisor`.  `OneProcessPerWorker`,
  `RegisteredDeathFlagged` and `ZombiesNoticed`.  The three are inductive only
  together with what the table holds at each line of `main` (`Progress`,
  `Table`), which processes have been forked (`Forked`, `Watchdog`), that a
  process which is not reaped is either in the table or the one `main` is about
  to register (`UnreapedListed`, `DiedReaped`), and that a death the handler
  cannot have noticed is a recorded early one (`EarlyDeaths`, `NoHandlerYet`).
* `FuzzerProofs`, `FuzzSandbox`.  `SandboxInv` adds to `PoolStaysOpen` what the
  entries hold that the walk has not come to; nothing is assumed of the word
  behind the pool.  `PoolStaysOpen` needs that no descriptor argument is an open
  descriptor, which is the case because addresses are passed.  `BeforeNanosleep`:
  a worker that goes through the table never makes the call of `nanosleep`; this
  is how far the defect of `sandbox_exit` reaches, for pools and trees of any size.
* `DinnerListProofs`.  `LockInv` is who may hold which of the three locks at each
  line; it gives `DeleteIsExclusive`.  `ListInv` adds that the list is a chain of
  distinct allocated nodes as long as its count says (`Chain`, `Counted`), that a
  walk is at a node of the chain at the distance its index says (`Walks`), and
  that an unlinked or new node belongs to one thread (`Mine`); it gives
  `WalksStayOnList` and `TypeCorrect`, for every value of `random()`: with
  `RAND_MAX` a walk has one node too few ahead of it, and may be past the end when
  it is done.  A thread that follows NULL kills them all, so the invariants are
  of the form `AllDead \/ ...`.  That the chain is
  what `head` reaches needs an induction along it, which is done by the least
  counterexample: a set of naturals that is not empty has a least member
  (`LeastNatural`).
* `RtSchedProofs`, the largest.  `SchedInv` is stated of values, because the
  handlers are functions from a scheduler state to a scheduler state and most are
  made of others.  `StateOk(s)` says that the lists hold exactly the queued
  real-time tasks, each once, at its CPU and priority (`Listed`), that every
  cached value is a function of those sets (`Counts`, `Highest`, `Overload`,
  `Pushables`), and that `curr` and `on_cpu` agree (`CurrOk`).  The lemmas show
  it of every operator of `RtRunQueue`, from the insertion into a list up to
  `activate_task`, `do_set_cpus_allowed`, a move between CPUs and the context
  switch; the number of tasks on a CPU is a cardinality, and a queued task adds
  one to it.  `InvOf` adds what ties that state to where the CPUs are when they
  have dropped a lock: `Places` (what a CPU may be doing, and that no two of them
  have the `pi_lock` of one task), `States` and `Wakeups` (a task's state against
  `on_rq`; a waking task is on its way to one CPU, on one list, and a list that is
  not empty has its interrupt pending), `Affinity`, and
  `High`: a CPU runs nothing below what is queued on it and not held back by a
  throttle, or it is in `schedule`, has its flag set or a pull behind it that told
  nobody (`hist.unseen`), or a class change that will compare the task with what
  runs is still under way (`Raised`, `Lowered`).  Without the last two `HighestRuns`
  is not inductive, because `switched_from_rt` and `switched_to_rt` drop the lock
  between the change and the comparison.  One lemma per action, and
  `CachesAgree`, `OnePlace`, `PushableTasksOk`, `NoLostWakeup`, `HighestRuns`,
  `AffinityKept` and `TypeOK` follow.  TLC has checked `SchedInv` on the instance
  of `rt_sched`.

Only model-checked: all liveness (temporal proofs under fairness and `ENABLED`
are beyond the installed provers), the other half of `JoinsIffBalanced` among
it; `GivenUpIsPulled` of `RtSched`, which is about the moments at which nothing
is under way and depends on every failed push since the last one.  Every other
invariant of the runs is stated by a theorem.

## 6. What was found

Observed while modelling.  The models do what the code does.  Where a comment
claims what the code does not do, a run that expects a violation shows it; any
other property that would fail because of one of these names it as its exception,
and then says nothing about that case.

Shown by a run:

* `dinners_draw`.  `3way.c:51`: `random_range` returns one past its end when
  `random()` is `RAND_MAX`; line 41 says "inclusive of the end points".  The walk
  ends behind the last node, where 169 says "must have found the dinner": a
  deleter follows NULL (147), while a searcher does not look at the node and
  goes on.
* `sandbox_descriptors`.  `sandbox.c:260-265`: the cases of the descriptor types
  fall through to the last, and the index may be one past the pool; `FD_ROPEN` and
  `FD_WOPEN` are said to be "already open" (`syscall_def.h:17-18`).
* `sandbox_paths`.  After one successful `chdir` nothing is found under the relative
  `SANDBOX_DIR`, and a path to an existing file is the last one found before, which
  leads elsewhere from there; `sandbox.c:115`: "path will be always inside dir
  specified with SANDBOX_DIR".
* `sandbox_exit`.  `TIMESPEC` and `UTIMBUF` take a char for an address (332, 339)
  and the worker is killed, so `nanosleep` and `utime` are never called;
  `fuzzer.c:295`: "worker function - never exited".

Not shown by a run:

* `sched.c:126-136`: `rt_policy()` and `task_has_rt_policy()` are wrong and do not
  compile (section 2).  Callers: 2088, 4900, 5104, 5111, 5169, 5183.

* the fuzzer's `README:33` promises "worker process recreation after crash".  A
  worker that dies between `fork` and the end of `register_new_process` is not
  in the table when the handler looks for it (216), or its flag is cleared again
  by the registration (102), and stays dead; one that dies together with the
  watchdog can stay a zombie (217).  `RegisteredDeathFlagged` and
  `ZombiesNoticed` say that there is no other way.
* `slob.c:114` announces best fit.  `best_fit()` assigns its own copies of its
  pointer parameters (446-448), so the caller sees no page (559) and in that
  build every allocation takes a new page.
* `concurrent2.c`: "They can only eat once in a cycle" (39-40), but testing and
  resetting the flags is not atomic (66-73); a philosopher can eat twice, and a
  flag that is set between a post and the clearing is lost, after which all may
  stop (`StuckOnlyAfterLostFlag` says that this is the only way).
* `concurrent1.c`: the usage message calls the number of items the "No. of
  producers".
* `sstf-iosched.c` is an elevator (LOOK), not shortest seek first: it keeps its
  direction (46, 61) although a request behind it may be nearer.
* `barbershop.c`, `concurrent5A.c`: lost updates turn customers away from free
  chairs, and block them for ever with resources free.
* `fuzzer.c`: a failed `fork` in the main loop (467, 470) makes `main` run
  `worker()`, after which nothing is supervised: `FlaggedIsReplaced` exempts it, and
  `OneProcessPerWorker` counts `main`'s children only; an unregistration with `PROC_TYPE_DEF` removes the wrong
  pid file;
  a pid file of `main` stays after a kill (359) and prevents the next start; the
  handler formats into the log buffer that `main` may be using.
* `sandbox.c`: the pool has no entry opened for writing (159 tests the larger
  limit first); arguments are passed as addresses, so descriptors, sizes and NULL
  never reach the kernel (435-449); `last_fd_used` is never set and the update of
  the pool (454-478) never runs, nor is `find_fd_in_pool` called; descriptors that
  calls open are never closed.
* `slob.c`: `get_fragmentation` counts only the last page of each list.
* `ramdsk.c`: a request that is not a file-system request keeps the loop going
  on it (205); errors are completed as success; the cipher handle is leaked;
  `ramdsk_major` given as a parameter fails the load and leaves the major
  registered; `nsectors * hardsect_size` can overflow (251).  `RamDisk` states
  its properties around these: a stuck loop is a place of its own, the requests
  behind it count as waiting, and what a failed transfer left is unknown to
  `ReadsBack`.
* `sched.c`, `sched_rt.c`, met by `rt_bandwidth`: a second enable by
  `update_runtime` (7847), a start of the timer lost while its callback ends
  (204), the sysctl handler overwriting disabled queues (8902), a timer that
  stops when the limit is lifted from a throttled queue, and `migrate_tasks`
  looping on a throttled queue (6219).  `upset` and `halt` of `RtBandwidth` name
  the ones that the model reaches: `RuntimeConserved` does not speak of what follows
  the second enable or the sysctl write, nor `ThrottledIsReleased` of a timer
  that has stopped or whose start was lost.
* `sched.c`, `sched_rt.c`, met by `rt_sched`: `switched_from_rt` ignores what
  `pull_rt_task` returns (1648-1659), so a pulled task may wait behind the idle
  task until something else reschedules (`hist.unseen`); `prio_changed_rt` looks
  at `rq->curr == p` after its pull (1723), and if `p` went to sleep while the
  lock was dropped the pulled task waits in the same way (this takes three
  CPUs); lowering the highest
  queued task that does not run starts no pull, and a CPU that has become free
  does not look again when another one's throttle ends, so `GivenUpIsPulled` is
  stated for behaviours without such changes (`hist.changed`); `set_cpus_allowed_ptr` on
  a task on its way to a wake list neither migrates it nor keeps it from running
  outside its mask (`hist.waking`); a woken task of equal priority stays queued
  although another CPU is idle; a child of a `SCHED_RESET_ON_FORK` parent gets
  the policy of the fair class but keeps a real-time `prio` (`sched_fork`).

## 7. Not modelled, and why

* `RtSched` leaves out a queue's going on- and offline (`RtBandwidth` has it for
  the runtime) and what decides on a throttle, `CONFIG_RT_GROUP_SCHED`, in
  `schedule()` the wake-up of a work-queue worker (`sched.c:4282-4288`) and the
  flush of plugged I/O, with the lock dropped for it (4294-4298), the second
  look of `__sched_setscheduler` at a policy that changed between its two locks,
  `set_user_nice` and `normalize_rt_tasks`, the `RLIMIT_RTTIME` watchdog, and the
  caller of `stop_one_cpu`, which waits.
* The rest of `sched.c`: the fair class and load balancing (in other files of
  the kernel), time and load accounting, cgroups, construction of domains,
  completions and wait queues, boot.  The coursework is about the real-time class
  and what drives it.
* `highest_prio.next` is modelled, and no property compares it with the lists; nor
  does one say that a preempted task that may move is on the pushable list.
* `RtBandwidth` leaves out `CONFIG_RT_GROUP_SCHED` (not the configuration of the
  project), more than one cpuset domain, and writes to the period.
* `Slob` leaves out caches' creation and destruction (an allocation and a free),
  objects over a page, NUMA and the functions that only read.
* `getgeo` and `ioctl` of the RAM disk, and the printer of `concurrent2.c`:
  they change no state.
* Shell scripts, reports, committed binaries and logs.

## 8. What is left

Every part with logic of its own has a module, and every invariant that holds has
a theorem, but one: `GivenUpIsPulled` of `RtSched`.  The strengthening has to say,
for a task that a push has given up, which CPU will pull it when it next goes
below it.
