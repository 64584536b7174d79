---------------------------- MODULE RtBandwidth -----------------------------
(***************************************************************************)
(* Real-time bandwidth of indwriterups/project1 (sched_rt.c, sched.c;      *)
(* CONFIG_SMP, no CONFIG_RT_GROUP_SCHED).  In every period the RT tasks of *)
(* a CPU may run for rt_runtime; a CPU that needs more borrows from its    *)
(* neighbours, one that has used all of it is throttled until the period   *)
(* timer has paid off what it ran too long.  CPUs that go away take back   *)
(* what they lent.                                                         *)
(*                                                                         *)
(* A step holds the locks the code holds: do_balance_runtime,              *)
(* __disable_runtime and __enable_runtime run under rt_b->rt_runtime_lock  *)
(* and are one step each; update_curr_rt and the timer drop rt_runtime_lock *)
(* around the first (line 540) but keep the run queue's lock (locked).     *)
(***************************************************************************)
EXTENDS Integers, FiniteSets, FiniteSetsExt, Sequences, SequencesExt

CONSTANTS
    NumCPUs,
    Bits,           \* bits of a u64
    Period,         \* rt_period
    Runtime,        \* rt_runtime at boot
    Settings,       \* limits written to sysctl_sched_rt_runtime; -1 may be, too
    Deltas,         \* times a task runs between two charges
    Overruns,       \* periods that may have passed when the timer runs
    MaxTime, MaxTasks, MaxEvents   \* bounds: rt_time, RT tasks, hotplugs and writes

CPUs == 0 .. NumCPUs - 1
INF  == 2^Bits - 1         \* RUNTIME_INF, ~0ULL

ASSUME BandwidthAssumption ==
    /\ NumCPUs \in Nat \ {0}
    /\ Bits \in Nat \ {0} /\ Period \in Nat \ {0} /\ Runtime \in 1 .. Period
    /\ Settings \subseteq 0 .. Period
    /\ Deltas \subseteq Nat \ {0} /\ Overruns \subseteq Nat \ {0}
    /\ {MaxTime, MaxTasks, MaxEvents} \subseteq Nat

\* Nanoseconds that fit: what all CPUs may run in a period, and what one has run.
ASSUME TimeFits == Period * NumCPUs < 2^(Bits - 1) /\ MaxTime < 2^(Bits - 1)

\* What the provers do not know of powers of two.
ASSUME BitsArithmetic == 2^(Bits - 1) \in Nat \ {0} /\ 2^Bits = 2 * 2^(Bits - 1)

VARIABLES
    sysctl,         \* sysctl_sched_rt_runtime; -1 is no limit
    rt_b,           \* def_rt_bandwidth.rt_runtime
    rt_runtime, rt_time, rt_throttled, rt_nr_running,  \* of a CPU's rt_rq
    resched,        \* throttled CPUs whose RT task has not left the CPU yet
    locked,         \* who has a run queue's lock, and what it does next
    timer,          \* "off", "armed", "run": the period timer
    run,            \* its callback: CPU it runs on, next CPU, overrun, idle
    rd,             \* a run queue's root domain
    online,         \* CPUs with rq->online
    cpu_active, cpu_online,     \* the masks
    plug,           \* what is left to do of a hotplug operation
    events,         \* how many hotplug operations and writes there were
    upset,          \* history: what happened that the accounting does not expect
    halt            \* "no", or where the kernel has come to a stop

rqs     == << rt_runtime, rt_time, rt_throttled, rt_nr_running >>
clock   == << timer, run >>
topo    == << rd, online, cpu_active, cpu_online, plug, events >>
setting == << sysctl, rt_b >>
bandwidth_vars == << rqs, resched, locked, clock, topo, setting, upset, halt >>

Unsigned(n) == n % 2^Bits
Signed(n) == IF Unsigned(n) >= 2^(Bits - 1) THEN Unsigned(n) - 2^Bits ELSE Unsigned(n)

Span(d) == {c \in CPUs : rd[c] = d}
rt_bandwidth_enabled == sysctl >= 0
Global(v) == IF v < 0 THEN INF ELSE v
NoRun == [cpu |-> 0, next |-> 0, overrun |-> 0, idle |-> TRUE]

BandwidthInit ==
    /\ sysctl = Runtime /\ rt_b = Runtime
    /\ rt_runtime = [c \in CPUs |-> Runtime] /\ rt_time = [c \in CPUs |-> 0]
    /\ rt_throttled = [c \in CPUs |-> FALSE] /\ rt_nr_running = [c \in CPUs |-> 0]
    /\ resched = {} /\ locked = [c \in CPUs |-> "no"]
    /\ timer = "off" /\ run = NoRun
    /\ cpu_online \in {s \in SUBSET CPUs : 0 \in s}      \* the boot CPU is up
    /\ cpu_active = cpu_online /\ online = cpu_online
    /\ rd = [c \in CPUs |-> IF c \in cpu_online THEN "dom" ELSE "def"]
    /\ plug = << >> /\ events = 0
    /\ upset = {} /\ halt = "no"

-----------------------------------------------------------------------------
(* Borrowing. *)

\* Mutant: the lender keeps what it lends.
LendKeeps(rt, c, n, weight) ==
    LET part == Signed(rt[n] - rt_time[n]) \div weight
    IN  IF rt[n] = INF \/ part <= 0 \/ rt[c] + part > Period THEN rt
        ELSE [rt EXCEPT ![c] = @ + part]

\* One lender n of the loop: n gives c part of its spare time.
Lend(rt, c, n, weight) ==
    LET spare == Signed(rt[n] - rt_time[n])
        part  == spare \div weight
        diff  == IF Unsigned(rt[c] + part) > Period THEN Period - rt[c] ELSE part
    IN  IF rt[n] = INF \/ spare <= 0 \/ rt[c] = Period THEN rt
        ELSE [rt EXCEPT ![n] = Unsigned(@ - diff), ![c] = Unsigned(@ + diff)]

\* do_balance_runtime for c, over the CPUs of span in their order; the loop
\* ends when c has a whole period.
Balanced(c, span) ==
    LET after[n \in -1 .. NumCPUs - 1] ==
          IF n = -1 THEN rt_runtime
          ELSE IF n = c \/ n \notin span THEN after[n - 1]
          ELSE Lend(after[n - 1], c, n, Cardinality(span))
    IN  after[NumCPUs - 1]

\* The span is that of the CPU the code runs on: the timer's, if it calls.
Borrow(c) ==
    /\ locked[c] \in {"tick borrows", "timer borrows"}
    /\ LET me   == IF locked[c] = "tick borrows" THEN c ELSE run.cpu
           lent == Balanced(c, Span(rd[me]))
       IN  /\ rt_runtime' = lent
           /\ upset' = upset \cup (IF rd[me] # rd[c] /\ lent # rt_runtime
                                   THEN {"across domains"} ELSE {})
    /\ locked' = [locked EXCEPT ![c] = IF @ = "tick borrows" THEN "tick" ELSE "timer"]
    /\ UNCHANGED << resched, rt_time, rt_throttled, rt_nr_running, clock, topo, setting, halt >>

-----------------------------------------------------------------------------
(* Tasks come, run and go. *)

\* start_rt_bandwidth: what becomes of the timer.
Started == IF timer = "off" /\ rt_bandwidth_enabled /\ rt_b # INF THEN "armed" ELSE timer

NrTasks == MapThenSumSet(LAMBDA c : rt_nr_running[c], CPUs)

Enqueue(c) ==
    /\ c \in cpu_online /\ locked[c] = "no" /\ NrTasks < MaxTasks
    /\ rt_nr_running' = [rt_nr_running EXCEPT ![c] = @ + 1]
    /\ timer' = Started
    /\ UNCHANGED << resched, rt_runtime, rt_time, rt_throttled, locked, run, topo, setting,
                    upset, halt >>

Dequeue(c) ==
    /\ rt_nr_running[c] > 0 /\ locked[c] = "no"
    /\ rt_nr_running' = [rt_nr_running EXCEPT ![c] = @ - 1]
    /\ resched' = IF rt_nr_running[c] = 1 THEN resched \ {c} ELSE resched
    /\ UNCHANGED << rt_runtime, rt_time, rt_throttled, locked, clock, topo, setting,
                    upset, halt >>

\* update_curr_rt and sched_rt_runtime_exceeded up to line 540; also once
\* more for the task that is just being throttled, when it leaves the CPU.
Charge(c, delta) ==
    /\ rt_nr_running[c] > 0 /\ locked[c] = "no" /\ (rt_throttled[c] => c \in resched)
    /\ rt_bandwidth_enabled /\ rt_runtime[c] # INF
    /\ rt_time[c] + delta <= MaxTime
    /\ rt_time' = [rt_time EXCEPT ![c] = @ + delta]
    /\ locked' = [locked EXCEPT ![c] =
          IF ~rt_throttled[c] /\ rt_runtime[c] < Period /\ rt_time'[c] > rt_runtime[c]
          THEN "tick borrows" ELSE "no"]
    /\ resched' = resched \ {c}
    /\ UNCHANGED << rt_runtime, rt_throttled, rt_nr_running, clock, topo, setting,
                    upset, halt >>

\* Lines 628-641.
Throttle(c) ==
    /\ locked[c] = "tick"
    /\ rt_throttled' = [rt_throttled EXCEPT ![c] =
          rt_runtime[c] # INF /\ rt_time[c] > rt_runtime[c]]
    /\ resched' = IF rt_throttled'[c] THEN resched \cup {c} ELSE resched
    /\ locked' = [locked EXCEPT ![c] = "no"]
    /\ UNCHANGED << rt_runtime, rt_time, rt_nr_running, clock, topo, setting, upset, halt >>

-----------------------------------------------------------------------------
(* The period timer. *)

Stop == timer' = "off" /\ run' = NoRun

\* The timer runs on the CPU that started it, which is any of them.
TimerFires(c, overrun) ==
    /\ timer = "armed" /\ c \in cpu_online
    /\ IF rt_bandwidth_enabled /\ rt_b # INF
       THEN timer' = "run" /\ run' = [cpu |-> c, next |-> 0, overrun |-> overrun, idle |-> TRUE]
       ELSE Stop
    /\ UNCHANGED << rqs, resched, locked, topo, setting, upset, halt >>

ToVisit == {c \in cpu_online : c >= run.next}

\* The callback takes the lock of the next run queue.
TimerVisits ==
    /\ timer = "run" /\ ToVisit # {}
    /\ LET c == Min(ToVisit)
       IN  /\ locked[c] = "no"
           /\ IF rt_time[c] > 0
              THEN /\ locked' = [locked EXCEPT ![c] =
                         IF rt_throttled[c] /\ rt_time[c] > rt_runtime[c]
                         THEN "timer borrows" ELSE "timer"]
                   /\ UNCHANGED run
              ELSE /\ run' = [run EXCEPT !.next = c + 1,
                                         !.idle = @ /\ rt_nr_running[c] = 0]
                   /\ UNCHANGED locked
    /\ UNCHANGED << rqs, resched, timer, topo, setting, upset, halt >>

\* Mutant: a throttled run queue pays nothing.
RefreshKeepsDebt(c) ==
    /\ locked[c] = "timer"
    /\ LET left == IF rt_throttled[c] THEN rt_time[c] ELSE 0
       IN  /\ rt_time' = [rt_time EXCEPT ![c] = left]
           /\ run' = [run EXCEPT !.next = c + 1,
                                 !.idle = @ /\ left = 0 /\ rt_nr_running[c] = 0]
    /\ locked' = [locked EXCEPT ![c] = "no"]
    /\ UNCHANGED << resched, rt_runtime, rt_throttled, rt_nr_running, timer, topo, setting,
                    upset, halt >>

\* Lines 575-590.
Refresh(c) ==
    /\ locked[c] = "timer"
    /\ LET paid == Unsigned(run.overrun * rt_runtime[c])
           left == IF rt_time[c] < paid THEN 0 ELSE rt_time[c] - paid
       IN  /\ rt_time' = [rt_time EXCEPT ![c] = left]
           /\ rt_throttled' = [rt_throttled EXCEPT ![c] = @ /\ left >= rt_runtime[c]]
           /\ resched' = IF rt_throttled'[c] THEN resched ELSE resched \ {c}
           /\ run' = [run EXCEPT !.next = c + 1,
                                 !.idle = @ /\ left = 0 /\ rt_nr_running[c] = 0]
    /\ locked' = [locked EXCEPT ![c] = "no"]
    /\ UNCHANGED << rt_runtime, rt_nr_running, timer, topo, setting, upset, halt >>

\* An idle timer is not armed again, also when a task came to a CPU that the
\* callback had passed and start_rt_bandwidth found the timer active.
TimerEnds ==
    /\ timer = "run" /\ ToVisit = {} /\ \A c \in CPUs : locked[c] # "timer"
    /\ IF run.idle THEN Stop ELSE timer' = "armed" /\ run' = NoRun
    /\ upset' = upset \cup (IF /\ run.idle
                               /\ \E c \in cpu_online : rt_nr_running[c] + rt_time[c] > 0
                            THEN {"start lost"} ELSE {})
    /\ UNCHANGED << rqs, resched, locked, topo, setting, halt >>

-----------------------------------------------------------------------------
(* __disable_runtime and __enable_runtime. *)

\* The loop of lines 451-474: what c wants back is taken from its domain.
Reclaimed(c) ==
    LET span == Span(rd[c])
        after[n \in -1 .. NumCPUs - 1] ==
          IF n = -1 THEN [want |-> Signed(rt_b - rt_runtime[c]), rt |-> rt_runtime]
          ELSE LET s == after[n - 1]
                   diff == IF s.want > 0 THEN Min({Signed(s.rt[n]), s.want}) ELSE s.want
               IN  IF n = c \/ n \notin span \/ s.rt[n] = INF \/ s.want = 0 THEN s
                   ELSE [want |-> s.want - diff, rt |-> [s.rt EXCEPT ![n] = Unsigned(@ - diff)]]
    IN  after[NumCPUs - 1]

\* What is left wanting, and everybody's runtime with c disabled.
Disabled(c) ==
    IF rt_runtime[c] \in {INF, rt_b}
    THEN [want |-> 0, rt |-> [rt_runtime EXCEPT ![c] = INF]]
    ELSE LET s == Reclaimed(c) IN [s EXCEPT !.rt[c] = INF]

\* c is enabled in the run queues rt; uneven says that this changes what an
\* enabled run queue has.
EnabledIn(rt, c) ==
    /\ rt_runtime' = [rt EXCEPT ![c] = rt_b]
    /\ rt_time' = [rt_time EXCEPT ![c] = 0]
    /\ rt_throttled' = [rt_throttled EXCEPT ![c] = FALSE]
    /\ upset' = upset \cup (IF rt[c] \in {INF, rt_b} THEN {} ELSE {"reset"})

DisableIn(rt, missing) ==
    /\ rt_runtime' = rt
    /\ halt' = IF missing = 0 THEN "no" ELSE "BUG_ON(want)"
    /\ UNCHANGED << rt_time, rt_throttled, upset >>

-----------------------------------------------------------------------------
(* CPU hotplug: the notifiers run one after another, in the order of their *)
(* priorities.  plug is the list of their effects.                         *)

InOrder(op, set) ==
    LET upto[n \in -1 .. NumCPUs - 1] ==
          IF n = -1 THEN << >>
          ELSE IF n \in set THEN Append(upto[n - 1], << op, n >>) ELSE upto[n - 1]
    IN  upto[NumCPUs - 1]

\* partition_sched_domains: all CPUs leave their domain, the active ones join
\* a new one.
Rebuild(active) == InOrder("detach", Span("dom")) \o InOrder("attach", active)

PlugDown(c) ==
    /\ plug = << >> /\ events < MaxEvents
    /\ c \in cpu_online /\ cpu_online # {c}
    /\ plug' = << << "disable", c >>, << "inactive", c >> >>
               \o Rebuild(cpu_active \ {c}) \o << << "die", c >> >>
    /\ events' = events + 1
    /\ UNCHANGED << rqs, resched, locked, clock, rd, online, cpu_active, cpu_online, setting,
                    upset, halt >>

\* CPU_DOWN_FAILED instead of CPU_DYING.
PlugFails ==
    /\ plug # << >> /\ Head(plug)[1] = "die"
    /\ LET c == Head(plug)[2]
       IN  plug' = << << "active", c >> >> \o Rebuild(cpu_active \cup {c})
                   \o << << "enable", c >> >>
    /\ UNCHANGED << rqs, resched, locked, clock, rd, online, cpu_active, cpu_online, events,
                    setting, upset, halt >>

PlugUp(c) ==
    /\ plug = << >> /\ events < MaxEvents /\ c \notin cpu_online
    /\ cpu_online' = cpu_online \cup {c}
    /\ plug' = << << "active", c >> >> \o Rebuild(cpu_active \cup {c})
               \o << << "online", c >>, << "enable", c >> >>
    /\ events' = events + 1
    /\ UNCHANGED << rqs, resched, locked, clock, rd, online, cpu_active, setting, upset, halt >>

\* update_runtime.
PlugDisable(c) ==
    /\ DisableIn(Disabled(c).rt, Disabled(c).want)
    /\ UNCHANGED << rt_nr_running, rd, online, cpu_active, cpu_online >>

PlugEnable(c) ==
    /\ EnabledIn(rt_runtime, c)
    /\ UNCHANGED << rt_nr_running, rd, online, cpu_active, cpu_online, halt >>

\* sched_cpu_active and sched_cpu_inactive.
PlugActive(c, active) ==
    /\ cpu_active' = IF active THEN cpu_active \cup {c} ELSE cpu_active \ {c}
    /\ UNCHANGED << rqs, rd, online, cpu_online, upset, halt >>

\* rq_attach_root: offline in the old domain, online in the new one.
Attach(c, d) ==
    LET off == IF c \in online THEN Disabled(c)
               ELSE [want |-> 0, rt |-> rt_runtime]
    IN  /\ rd' = [rd EXCEPT ![c] = d]
        /\ IF c \in cpu_active /\ off.want = 0
           THEN EnabledIn(off.rt, c) /\ online' = online \cup {c} /\ UNCHANGED halt
           ELSE DisableIn(off.rt, off.want) /\ online' = online \ {c}
        /\ UNCHANGED << rt_nr_running, cpu_active, cpu_online >>

\* migration_call, CPU_ONLINE.
PlugOnline(c) ==
    /\ IF c \in online THEN UNCHANGED << rt_runtime, rt_time, rt_throttled, upset >>
       ELSE EnabledIn(rt_runtime, c)
    /\ online' = online \cup {c}
    /\ UNCHANGED << rt_nr_running, rd, cpu_active, cpu_online, halt >>

\* migration_call, CPU_DYING, while stop_machine keeps the other CPUs quiet.
\* migrate_tasks moves the tasks to another CPU; as it picks them like the
\* scheduler does, it does not come to an end when they are throttled.
PlugDie(c) ==
    LET off   == IF c \in online THEN Disabled(c) ELSE [want |-> 0, rt |-> rt_runtime]
        tasks == rt_nr_running[c]
    IN  /\ \A d \in CPUs : locked[d] = "no"
        /\ timer # "run"
        /\ rt_runtime' = off.rt
        /\ halt' = IF off.want # 0 THEN "BUG_ON(want)"
                   ELSE IF tasks > 0 /\ rt_throttled[c] THEN "migrate_tasks" ELSE "no"
        /\ \E d \in cpu_online \ {c} :
             rt_nr_running' = [rt_nr_running EXCEPT ![c] = 0, ![d] = @ + tasks]
        /\ timer' = IF tasks > 0 THEN Started ELSE timer
        /\ resched' = {}    \* the stopper threads run
        /\ online' = online \ {c} /\ cpu_online' = cpu_online \ {c}
        /\ UNCHANGED << rt_time, rt_throttled, upset, rd, cpu_active >>

PlugStep ==
    /\ plug # << >>
    /\ LET op == Head(plug)[1]
           c  == Head(plug)[2]
       IN  /\ locked[c] = "no"
           /\ \/ op = "die" /\ PlugDie(c)
              \/ /\ \/ op = "disable"  /\ PlugDisable(c)
                    \/ op = "enable"   /\ PlugEnable(c)
                    \/ op = "active"   /\ PlugActive(c, TRUE)
                    \/ op = "inactive" /\ PlugActive(c, FALSE)
                    \/ op = "detach"   /\ Attach(c, "def")
                    \/ op = "attach"   /\ Attach(c, "dom")
                    \/ op = "online"   /\ PlugOnline(c)
                 /\ UNCHANGED << timer, resched >>
    /\ plug' = Tail(plug)
    /\ UNCHANGED << locked, run, events, setting >>

-----------------------------------------------------------------------------
(* sched_rt_handler: every run queue, also a disabled one, is given the    *)
(* new runtime under the locks, def_rt_bandwidth after they were dropped.  *)

Write(v) ==
    /\ events < MaxEvents /\ rt_b = Global(sysctl) /\ v \notin {0, sysctl}
    /\ sysctl' = v
    /\ rt_runtime' = [c \in CPUs |-> Global(v)]
    /\ events' = events + 1
    /\ upset' = upset \cup {"written"} \cup (IF v < 0 THEN {"off"} ELSE {})
    /\ UNCHANGED << resched, rt_time, rt_throttled, rt_nr_running, locked, clock, rd, online,
                    cpu_active, cpu_online, plug, rt_b, halt >>

WriteEnds ==
    /\ rt_b # Global(sysctl)
    /\ rt_b' = Global(sysctl)
    /\ UNCHANGED << rqs, resched, locked, clock, topo, sysctl, upset, halt >>

-----------------------------------------------------------------------------
Alive  == halt = "no"
Halted == ~Alive /\ UNCHANGED bandwidth_vars

BandwidthNext ==
    \/ \E c \in CPUs :
         \/ Alive /\ Borrow(c)
         \/ Alive /\ Enqueue(c)
         \/ Alive /\ Dequeue(c)
         \/ Alive /\ \E delta \in Deltas : Charge(c, delta)
         \/ Alive /\ Throttle(c)
         \/ Alive /\ \E overrun \in Overruns : TimerFires(c, overrun)
         \/ Alive /\ Refresh(c)
         \/ Alive /\ PlugDown(c)
         \/ Alive /\ PlugUp(c)
    \/ Alive /\ TimerVisits
    \/ Alive /\ TimerEnds
    \/ Alive /\ PlugFails
    \/ Alive /\ PlugStep
    \/ Alive /\ \E v \in Settings \cup {-1} : Write(v)
    \/ Alive /\ WriteEnds
    \/ Halted

BandwidthSpec == BandwidthInit /\ [][BandwidthNext]_bandwidth_vars

(* Interrupts and code that holds a lock go on; tasks need not.  Who waits *)
(* for a run queue's lock gets it: ticket locks are first come, first      *)
(* served.                                                                 *)
Fairness ==
    /\ WF_bandwidth_vars(Alive /\ \E c \in CPUs : Borrow(c))
    /\ WF_bandwidth_vars(Alive /\ \E c \in CPUs : Throttle(c))
    /\ WF_bandwidth_vars(Alive /\ \E c \in CPUs : Refresh(c))
    /\ WF_bandwidth_vars(Alive /\ \E c \in CPUs, o \in Overruns : TimerFires(c, o))
    /\ SF_bandwidth_vars(Alive /\ TimerVisits)
    /\ WF_bandwidth_vars(Alive /\ TimerEnds)
    /\ SF_bandwidth_vars(Alive /\ PlugStep)

BandwidthFairSpec == BandwidthSpec /\ Fairness

-----------------------------------------------------------------------------
u64 == 0 .. 2^Bits - 1

BandwidthTypeOK ==
    /\ sysctl \in Settings \cup {Runtime, -1} /\ rt_b \in u64
    /\ rt_runtime \in [CPUs -> u64] /\ rt_time \in [CPUs -> 0 .. MaxTime]
    /\ rt_throttled \in [CPUs -> BOOLEAN] /\ rt_nr_running \in [CPUs -> 0 .. MaxTasks]
    /\ resched \subseteq CPUs
    /\ locked \in [CPUs -> {"no", "tick borrows", "tick", "timer borrows", "timer"}]
    /\ timer \in {"off", "armed", "run"}
    /\ run \in [cpu : CPUs, next : 0 .. NumCPUs, overrun : Overruns \cup {0}, idle : BOOLEAN]
    /\ rd \in [CPUs -> {"dom", "def"}]
    /\ online \subseteq CPUs /\ cpu_active \subseteq cpu_online /\ cpu_online \subseteq CPUs
    /\ events \in 0 .. MaxEvents
    /\ upset \subseteq {"across domains", "start lost", "reset", "written", "off"}
    /\ halt \in {"no", "BUG_ON(want)", "migrate_tasks"}

Uneven == {"across domains", "reset", "written"}

(* Lines 360-523, "that would mean some runtime leaked out of the system": *)
(* whatever is lent, taken back and moved, the CPUs of a domain together   *)
(* have exactly their shares, and BUG_ON(want) of line 481 does not fire,  *)
(* as long as no timer borrowed for another domain, no run queue was       *)
(* enabled twice and nobody wrote the sysctl.                              *)
RuntimeConserved ==
    upset \cap Uneven = {} =>
        /\ halt # "BUG_ON(want)"
        /\ halt = "no" => \A d \in {"dom", "def"} :
              LET with == {c \in Span(d) : rt_runtime[c] # INF}
              IN  MapThenSumSet(LAMBDA c : rt_runtime[c], with) = rt_b * Cardinality(with)

(* Lines 554-603: a throttled run queue is released.                       *)
ThrottledIsReleased ==
    \A c \in CPUs :
        rt_throttled[c] ~> \/ ~rt_throttled[c] \/ c \notin cpu_online \/ halt # "no"
                           \/ upset \cap {"start lost", "off"} # {}
=============================================================================
