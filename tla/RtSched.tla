------------------------------ MODULE RtSched -------------------------------
(***************************************************************************)
(* The real-time scheduler on several CPUs: schedule(), wake-ups (local,   *)
(* remote and through the wake list and its interrupt), the push and pull  *)
(* of real-time tasks between run queues, ticks, yield, fork, changes of   *)
(* policy, priority and affinity, and migration by the stopper             *)
(* (src/indwriterups/project1/sched.c and sched_rt.c).                     *)
(*                                                                         *)
(* A run queue's lock protects its list and caches, and a task's pi_lock   *)
(* its wake-up and parameters.  With CONFIG_PREEMPT double_lock_balance    *)
(* always drops the lock it holds, so a handler is a chain of critical     *)
(* sections: one action each, and pc[c] is where CPU c is between two.     *)
(* In the labels of Holds the lock of pc[c].rq stays held between the      *)
(* actions (the loops of push_rt_tasks and of the wake list), and pc[c].pi *)
(* is the task whose pi_lock CPU c holds.  pc[c].at = "run" is everything  *)
(* outside the scheduler, interrupts enabled.                              *)
(***************************************************************************)
EXTENDS RtRunQueue

Policy == {"FIFO", "RR", "NORMAL"}

CONSTANTS
    InitParams,    \* the initial [policy, rt_priority, reset, born] of the tasks: a set of functions
    Policies,      \* the policies sched_setscheduler is called with
    ResetFlags,    \* whether these calls set SCHED_RESET_ON_FORK
    Masks,         \* the affinity masks sched_setaffinity is called with
    RT_MAX_TRIES,  \* 3: how often a push looks for a run queue
    DEF_TIMESLICE, \* ticks of a round-robin slice
    MaxEvents      \* bound: sleeps, ticks, yields, forks and changes of policy,
                   \* priority and affinity, in all

ASSUME RtSchedAssumption ==
    /\ InitParams \subseteq [Task -> [policy : Policy, rt_priority : RtPrio,
                                     reset : BOOLEAN, born : BOOLEAN]]
    /\ Policies \subseteq Policy /\ ResetFlags \subseteq BOOLEAN
    /\ \A m \in Masks : m # {} /\ m \subseteq Cpu
    /\ RT_MAX_TRIES \in Nat \ {0} /\ DEF_TIMESLICE \in Nat \ {0}
    /\ MaxEvents \in Nat

VARIABLES
    task,      \* the task_struct of each task
    rq,        \* the run queue of each CPU
    cpupri,    \* rd->cpupri: the priority each CPU was last reported at
    rto_mask,  \* rd->rto_mask: the overloaded CPUs
    pc,        \* where each CPU is in the scheduler
    mig,       \* the requests of stop_one_cpu(migration_cpu_stop) not done yet
    hist,      \* history: unseen, the CPUs that have not rescheduled since
               \* switched_from_rt pulled a task to them, or prio_changed_rt did
               \* and the task it was for had stopped running; changed,
               \* whether a policy, priority or affinity has changed, or a run
               \* queue was throttled;
               \* waking, the tasks whose affinity changed between the choice
               \* of a CPU and the wake-up
    events     \* the events so far, up to MaxEvents

vars == <<task, rq, cpupri, rto_mask, pc, mig, hist, events>>

S == [task |-> task, rq |-> rq, cpupri |-> cpupri, rto_mask |-> rto_mask]

Become(s) ==
    /\ task' = s.task /\ rq' = s.rq
    /\ cpupri' = s.cpupri /\ rto_mask' = s.rto_mask

Run == [at |-> "run", rq |-> 0, p |-> NoTask, to |-> 0, tries |-> 0,
        k |-> "", rest |-> <<>>, pi |-> NoTask]

\* The labels at which CPU c keeps the lock of the run queue pc[c].rq.
Holds == {"pick", "prio_changed", "switched_to", "push", "retry", "pending"}

Free(r) == \A c \in Cpu : ~(pc[c].at \in Holds /\ pc[c].rq = r)
PiFree(p) == \A c \in Cpu : pc[c].pi # p
Goto(c, l) == pc' = [pc EXCEPT ![c] = l]
Event == events < MaxEvents /\ events' = events + 1

\* The calls end on CPU c: the locks are released, unless the wake list of
\* sched_ttwu_do_pending holds more tasks.
Return(l) ==
    IF l.rest = <<>> THEN Run
    ELSE [Run EXCEPT !.at = "pending", !.rq = l.rq, !.rest = l.rest]

\* rt_policy, task_has_rt_policy.  As they stand the first returns 0, and the
\* second has the test on a variable that it does not have, so that the file does
\* not compile (sched.c 126-136).  The model has lines 133-134 in rt_policy, where
\* they compile and where their callers need them.
rt_policy(policy) == policy \in {"FIFO", "RR"}

\* normal_prio: rt_priority grows with the importance, prio falls.
normal_prio(policy, rt_priority) ==
    IF rt_policy(policy) THEN MAX_RT_PRIO - 1 - rt_priority ELSE MAX_RT_PRIO

Init ==
    /\ \E f \in InitParams :
          task = [p \in Task |->
                    LET prio == normal_prio(f[p].policy, f[p].rt_priority)
                    IN  [policy |-> f[p].policy, normal_prio |-> prio, prio |-> prio,
                         boost |-> MAX_PRIO, reset_on_fork |-> f[p].reset, cpu |-> 0,
                         state |-> IF f[p].born THEN "sleep" ELSE "unborn",
                         on_rq |-> FALSE, on_cpu |-> FALSE, allowed |-> Cpu,
                         time_slice |-> DEF_TIMESLICE]]
    /\ rq = [c \in Cpu |->
               [queue |-> [i \in RtPrio |-> <<>>], bitmap |-> {}, rt_nr_running |-> 0,
                rt_nr_migratory |-> 0, overloaded |-> FALSE, hp_curr |-> MAX_RT_PRIO,
                hp_next |-> MAX_RT_PRIO, pushable |-> <<>>, curr |-> Idle,
                rt_throttled |-> FALSE, need_resched |-> FALSE, stop |-> FALSE,
                post_schedule |-> FALSE, wake_list |-> <<>>, ipi |-> FALSE]]
    /\ cpupri = [c \in Cpu |-> MAX_RT_PRIO]
    /\ rto_mask = {}
    /\ pc = [c \in Cpu |-> Run]
    /\ mig = {}
    /\ hist = [unseen |-> {}, changed |-> FALSE, waking |-> {}]
    /\ events = 0

-----------------------------------------------------------------------------
(* pull_rt_task.                                                           *)

\* The next run queue from which the loop of pull_rt_task takes a lock.
PullSources(s, r, from) ==
    {c \in s.rto_mask \ {r} : c >= from /\ s.rq[c].hp_next < s.rq[r].hp_curr}

\* Enter, or go on with, the loop for run queue l.rq at CPU number from: drop
\* the lock to take the next one, or leave for the code after the call.
PullLoop(s, l, from) ==
    LET src == PullSources(s, l.rq, from)
    IN  IF src = {} THEN [l EXCEPT !.at = l.k, !.to = 0, !.k = ""]
        ELSE [l EXCEPT !.at = "pull", !.to = MinOf(src)]

\* One turn of the loop with both locks held.
Pull(s, r, src) ==
    LET p == pick_next_highest_task_rt(s, src, r)
    IN  IF /\ s.rq[src].rt_nr_running > 1
           /\ p # NoTask
           /\ s.task[p].prio < s.rq[r].hp_curr
           /\ s.task[p].prio >= PrioOf(s, s.rq[src].curr)
        THEN MoveTask(s, p, src, r) ELSE s

PullTask(c) ==
    /\ pc[c].at = "pull"
    /\ Free(pc[c].rq) /\ Free(pc[c].to)
    /\ LET s == Pull(S, pc[c].rq, pc[c].to)
       IN  /\ Become(s) /\ Goto(c, PullLoop(s, pc[c], pc[c].to + 1))
           /\ hist' = IF s # S /\ pc[c].k = "switched_to"
                      THEN [hist EXCEPT !.unseen = @ \cup {pc[c].rq}] ELSE hist
    /\ UNCHANGED <<mig, events>>

-----------------------------------------------------------------------------
(* push_rt_task(s): called with the lock of l.rq held, in the loop of       *)
(* push_rt_tasks (k = "post" or "woken") or once (k = "switched").         *)

\* push_rt_task returned: its loop calls it again if it returned 1.
PushReturn(l, ret) ==
    LET m == [l EXCEPT !.p = NoTask, !.to = 0, !.tries = 0]
    IN  CASE l.k = "switched" -> [m EXCEPT !.at = "switched_to", !.k = IF ret THEN "pushed" ELSE ""]
          [] l.k # "switched" /\ ret -> [m EXCEPT !.at = "push"]
          [] OTHER -> Return(l)

\* The push of CPU c ends a step in s; post_schedule clears its flag at the end.
PushStep(c, s, l, ret) ==
    LET m == PushReturn(l, ret)
    IN  /\ Become(IF l.k = "post" /\ m.at = "run"
                  THEN [s EXCEPT !.rq[l.rq].post_schedule = FALSE] ELSE s)
        /\ Goto(c, m)

\* No run queue was found for p.  If p is still first it will not be tried
\* again: other CPUs pull it when they are ready.
PushFailed(c, s, l, p) ==
    LET q == s.rq[l.rq].pushable
    IN  CASE q = <<>> -> PushStep(c, s, l, TRUE)
          [] q # <<>> /\ Head(q) = p /\ s.task[p].cpu = l.rq ->
                 PushStep(c, dequeue_pushable_task(s, l.rq, p), l, TRUE)
          [] OTHER -> /\ Become(s)
                      /\ Goto(c, [l EXCEPT !.at = "retry", !.p = NoTask, !.to = 0, !.tries = 0])

\* find_lock_lowest_rq: look for a run queue, and drop the lock to take both.
FindLock(c, s, l, p, tries) ==
    LET cpu == find_lowest_rq(s, p, c)
    IN  IF tries = RT_MAX_TRIES \/ cpu = -1 \/ cpu = l.rq
        THEN PushFailed(c, s, l, p)
        ELSE /\ Become(s)
             /\ Goto(c, [l EXCEPT !.at = "push_lock", !.p = p, !.to = cpu, !.tries = tries + 1])

\* push_rt_task up to the first lock, and again from its label retry.
PushTask(c) ==
    /\ pc[c].at \in {"push", "retry"}
    /\ LET l == pc[c]
           r == rq[l.rq]
           p == Head(r.pushable)
       IN  CASE r.pushable = <<>> \/ (l.at = "push" /\ ~r.overloaded) ->
                    PushStep(c, S, l, FALSE)
             [] OTHER ->
                    IF PrioOf(S, p) < PrioOf(S, r.curr)
                    THEN PushStep(c, resched_task(S, l.rq), l, FALSE)
                    ELSE FindLock(c, S, l, p, 0)
    /\ UNCHANGED <<mig, hist, events>>

\* Mutants: only the CPU and the mask are compared; the mask is not.
StillPushableHere(s, l) == s.task[l.p].cpu = l.rq /\ l.to \in s.task[l.p].allowed
StillPushableAnywhere(s, l) ==
    s.task[l.p].cpu = l.rq /\ ~s.task[l.p].on_cpu /\ s.task[l.p].on_rq

\* Did the task stay where it was while the lock was dropped?
StillPushable(s, l) ==
    /\ s.task[l.p].cpu = l.rq
    /\ l.to \in s.task[l.p].allowed
    /\ ~s.task[l.p].on_cpu
    /\ s.task[l.p].on_rq

\* With both locks held: move the task to its new CPU, which reschedules if
\* resched, look again, or give up.
PushLockedIf(c, resched) ==
    /\ pc[c].at = "push_lock"
    /\ Free(pc[c].rq) /\ Free(pc[c].to)
    /\ LET l == pc[c]
           moved == MoveTask(S, l.p, l.rq, l.to)
       IN  CASE ~StillPushable(S, l) -> PushFailed(c, S, l, l.p)
             [] StillPushable(S, l) /\ rq[l.to].hp_curr > task[l.p].prio ->
                    PushStep(c, IF resched THEN resched_task(moved, l.to) ELSE moved, l, TRUE)
             [] OTHER -> FindLock(c, S, l, l.p, l.tries)
    /\ UNCHANGED <<mig, hist, events>>

\* Mutant: the other CPU is not told.
PushLockedSilently(c) == PushLockedIf(c, FALSE)

PushLocked(c) == PushLockedIf(c, TRUE)

-----------------------------------------------------------------------------
(* schedule().                                                             *)

\* Mutant: a run queue that is lowered does not pull.
pre_schedule_no_pull(c, s) ==
    Become(s) /\ Goto(c, [Run EXCEPT !.at = "pick", !.rq = c])

\* pre_schedule, with the lock held: pull if this lowers the run queue.
pre_schedule(c, s) ==
    LET prev == s.rq[c].curr
        l == [Run EXCEPT !.rq = c, !.k = "pick"]
    IN  /\ Become(s)
        /\ Goto(c, IF prev \in Task /\ IsRtClass(s, prev)
                      /\ s.rq[c].hp_curr > s.task[prev].prio
                   THEN PullLoop(s, l, 0) ELSE [l EXCEPT !.at = "pick", !.k = ""])

\* A task that set its state sleeps, a stopper without work too.  Neither is a
\* worker of a work queue, nor has it I/O plugged.
Sleep(c) ==
    /\ pc[c].at = "run" /\ Free(c)
    /\ LET prev == rq[c].curr
       IN  \/ /\ prev \in Task /\ task[prev].state = "sleep"
              /\ pre_schedule(c, [deactivate_task(S, c, prev) EXCEPT !.task[prev].on_rq = FALSE])
           \/ /\ prev = Stopper /\ \A m \in mig : m.src # c
              /\ pre_schedule(c, [S EXCEPT !.rq[c].stop = FALSE])
    /\ UNCHANGED <<mig, hist, events>>

\* A signal is pending: the task does not sleep.
SleepInterrupted(c) ==
    /\ pc[c].at = "run" /\ Free(c)
    /\ LET prev == rq[c].curr
       IN  /\ prev \in Task /\ task[prev].state = "sleep"
           /\ pre_schedule(c, [S EXCEPT !.task[prev].state = "running"])
    /\ UNCHANGED <<mig, hist, events>>

\* preempt_schedule and preempt_schedule_irq (PREEMPT_ACTIVE: a task that has
\* set its state stays queued), and schedule() of a task that stays runnable.
Preempt(c) ==
    /\ \/ pc[c].at = "run" /\ rq[c].need_resched
       \/ pc[c].at = "schedule"
    /\ Free(c)
    /\ pre_schedule(c, S)
    /\ UNCHANGED <<mig, hist, events>>

\* The switch: next is on the CPU from before it to after the next one; prev
\* is off it, for those who wait to wake it, only once all of it is saved.
prepare_lock_switch(s, next) ==
    IF next \in Task THEN [s EXCEPT !.task[next].on_cpu = TRUE] ELSE s

finish_lock_switch(s, prev) ==
    IF prev \in Task THEN [s EXCEPT !.task[prev].on_cpu = FALSE] ELSE s

context_switch(s, c, prev, next) ==
    IF prev = next THEN s
    ELSE finish_lock_switch(prepare_lock_switch([s EXCEPT !.rq[c].curr = next], next), prev)

\* put_prev_task, pick_next_task and the switch.
PickNext(c) ==
    /\ pc[c].at = "pick"
    /\ LET prev == rq[c].curr
           s1 == put_prev_task(S, c, prev)
       IN  \E next \in pick_next_task(s1, c) :
              LET s2 == [pick_next_task_rt(s1, c, next) EXCEPT !.rq[c].need_resched = FALSE]
              IN  /\ Become(context_switch(s2, c, prev, next))
                  /\ Goto(c, IF s2.rq[c].post_schedule
                             THEN [Run EXCEPT !.at = "post_schedule", !.rq = c] ELSE Run)
    /\ hist' = [hist EXCEPT !.unseen = @ \ {c}]
    /\ UNCHANGED <<mig, events>>

\* post_schedule, of the class of the task that now runs.
PostSchedule(c) ==
    /\ pc[c].at = "post_schedule" /\ Free(c)
    /\ IF rq[c].curr \in Task /\ IsRtClass(S, rq[c].curr)
       THEN Become(S) /\ Goto(c, [pc[c] EXCEPT !.at = "push", !.k = "post"])
       ELSE Become([S EXCEPT !.rq[c].post_schedule = FALSE]) /\ Goto(c, Run)
    /\ UNCHANGED <<mig, hist, events>>

-----------------------------------------------------------------------------
(* Going to sleep and waking up.                                           *)

\* set_current_state by the running task, before it calls schedule(), or when
\* it finds that it need not sleep after all.
SetState(c) ==
    /\ pc[c].at = "run"
    /\ LET p == rq[c].curr
       IN  /\ p \in Task
           /\ \/ /\ task[p].state = "running" /\ Event
                 /\ task' = [task EXCEPT ![p].state = "sleep"]
              \/ /\ task[p].state = "sleep" /\ UNCHANGED events
                 /\ task' = [task EXCEPT ![p].state = "running"]
    /\ UNCHANGED <<rq, cpupri, rto_mask, pc, mig, hist>>

\* task_woken_rt: push now if no reschedule is on its way.
TaskWoken(s, r, p) ==
    LET curr == s.rq[r].curr
    IN  /\ IsRtClass(s, p)
        /\ ~s.task[p].on_cpu
        /\ ~s.rq[r].need_resched
        /\ s.rq[r].pushable # <<>>
        /\ NrAllowed(s, p) > 1
        /\ rt_task(s, curr)
        /\ NrAllowed(s, curr) < 2 \/ PrioOf(s, curr) < s.task[p].prio

\* ttwu_do_wakeup on run queue r, in the middle of l.
Wakeup(c, s, r, p, l) ==
    LET s1 == [check_preempt_curr(s, r, p) EXCEPT !.task[p].state = "running"]
    IN  /\ Become(s1)
        /\ Goto(c, IF TaskWoken(s1, r, p)
                   THEN [l EXCEPT !.at = "push", !.rq = r, !.k = "woken"]
                   ELSE Return([l EXCEPT !.rq = r]))

\* ttwu_do_activate
Activate(c, s, r, p, l) ==
    Wakeup(c, [activate_task(s, r, p, FALSE) EXCEPT !.task[p].on_rq = TRUE], r, p, l)

\* try_to_wake_up: a task still on its run queue only changes its state
\* (ttwu_remote); for another one wait until it is off its CPU.
TryToWakeUp(c, p) ==
    /\ pc[c].at = "run" /\ PiFree(p)
    /\ task[p].state = "sleep"
    /\ \/ /\ task[p].on_rq /\ Free(task[p].cpu)
          /\ Wakeup(c, S, task[p].cpu, p, [Run EXCEPT !.pi = p])
       \/ /\ ~task[p].on_rq
          /\ Goto(c, [Run EXCEPT !.at = "ttwu", !.pi = p])
          /\ UNCHANGED <<task, rq, cpupri, rto_mask>>
    /\ UNCHANGED <<mig, hist, events>>

\* The wait on p->on_cpu is over: TASK_WAKING, select_task_rq, set_task_cpu.
TtwuPlace(c) ==
    /\ pc[c].at = "ttwu"
    /\ LET p == pc[c].pi
           cpu == select_task_rq(S, p, c)
       IN  /\ ~task[p].on_cpu
           /\ task' = [task EXCEPT ![p].state = "waking", ![p].cpu = cpu]
           /\ Goto(c, [pc[c] EXCEPT !.at = "ttwu_queue"])
    /\ UNCHANGED <<rq, cpupri, rto_mask, mig, hist, events>>

\* Mutant: no interrupt for a CPU that is about to reschedule anyway.
SendsIpiUnlessResched(s, cpu) == s.rq[cpu].wake_list = <<>> /\ ~s.rq[cpu].need_resched

\* ttwu_queue_remote: the first task of a wake list sends the interrupt.
SendsIpi(s, cpu) == s.rq[cpu].wake_list = <<>>

\* ttwu_queue: on this CPU under its lock, for another CPU onto its wake list.
TtwuQueue(c) ==
    /\ pc[c].at = "ttwu_queue"
    /\ LET p == pc[c].pi
           cpu == task[p].cpu
       IN  \/ /\ cpu = c /\ Free(c)
              /\ Activate(c, S, c, p, pc[c])
           \/ /\ cpu # c
              /\ Become([S EXCEPT !.rq[cpu].wake_list = <<p>> \o @,
                                  !.rq[cpu].ipi = @ \/ SendsIpi(S, cpu)])
              /\ Goto(c, Run)
    /\ UNCHANGED <<mig, hist, events>>

\* The interrupt of a wake-up, or that of resched_task: the list is taken, then,
\* if it holds a task, the lock.
SchedulerIpi(c) ==
    /\ pc[c].at = "run"
    /\ rq[c].ipi \/ (rq[c].need_resched /\ rq[c].wake_list # <<>>)
    /\ rq[c].wake_list # <<>> => Free(c)
    /\ Become([S EXCEPT !.rq[c].wake_list = <<>>, !.rq[c].ipi = FALSE])
    /\ Goto(c, Return([Run EXCEPT !.rq = c, !.rest = rq[c].wake_list]))
    /\ UNCHANGED <<mig, hist, events>>

\* sched_ttwu_do_pending: one turn of its loop, the lock held.
TtwuPending(c) ==
    /\ pc[c].at = "pending"
    /\ Activate(c, S, c, Head(pc[c].rest), [pc[c] EXCEPT !.rest = Tail(@)])
    /\ UNCHANGED <<mig, hist, events>>

\* sched_fork: the child is a copy of its parent, but for a policy the parent
\* does not leave to its children.  The priority is the parent's all the same.
sched_fork(parent, child) ==
    LET revert == parent.reset_on_fork /\ parent.policy # "NORMAL"
    IN  [child EXCEPT !.policy = IF revert THEN "NORMAL" ELSE parent.policy,
                      !.normal_prio = IF revert THEN MAX_RT_PRIO ELSE parent.normal_prio,
                      !.prio = parent.normal_prio,
                      !.reset_on_fork = FALSE,
                      !.allowed = parent.allowed,
                      !.state = "running"]

\* fork by the running task, with wake_up_new_task.
Fork(c, p) ==
    /\ Event
    /\ pc[c].at = "run" /\ rq[c].curr \in Task
    /\ task[rq[c].curr].state = "running"
    /\ task[p].state = "unborn"
    /\ LET child == sched_fork(task[rq[c].curr], task[p])
           r == IF c \in child.allowed THEN c ELSE MinOf(child.allowed)
           s == [S EXCEPT !.task[p] = [child EXCEPT !.cpu = r]]
       IN  /\ Free(r)
           /\ Wakeup(c, [activate_task(s, r, p, FALSE) EXCEPT !.task[p].on_rq = TRUE],
                     r, p, [Run EXCEPT !.pi = p])
    /\ UNCHANGED <<mig, hist>>

-----------------------------------------------------------------------------
(* Ticks and yield.                                                        *)

\* task_tick_rt: a round-robin task at the end of its slice goes behind the
\* others of its priority.
task_tick_rt(s, c, p) ==
    IF s.task[p].time_slice > 1 THEN [s EXCEPT !.task[p].time_slice = @ - 1]
    ELSE LET s1 == [s EXCEPT !.task[p].time_slice = DEF_TIMESLICE]
         IN  IF Len(s.rq[c].queue[s.task[p].prio]) > 1
             THEN resched_task(requeue_task_rt(s1, c, p, FALSE), c) ELSE s1

\* scheduler_tick; only a round-robin task is counted.
Tick(c) ==
    /\ Event
    /\ pc[c].at = "run" /\ Free(c)
    /\ LET p == rq[c].curr
       IN  /\ p \in Task /\ IsRtClass(S, p) /\ task[p].policy = "RR"
           /\ Become(task_tick_rt(S, c, p))
    /\ UNCHANGED <<pc, mig, hist>>

\* update_curr_rt: the running task is charged, and its run queue has used up its
\* runtime (the amounts are in module RtBandwidth).  A tick charges first of all,
\* and so does what takes the task off its list or the CPU; nothing reads
\* rt_throttled before the next pick.
Throttle(c) ==
    /\ Event
    /\ Free(c) /\ ~rq[c].rt_throttled
    /\ rq[c].curr \in Task /\ IsRtClass(S, rq[c].curr)
    /\ Become([resched_task(S, c) EXCEPT !.rq[c].rt_throttled = TRUE])
    /\ hist' = [hist EXCEPT !.changed = TRUE]
    /\ UNCHANGED <<pc, mig>>

\* do_sched_rt_period_timer: the run queue may run its tasks again, and is told.
Unthrottle(c) ==
    /\ Free(c) /\ rq[c].rt_throttled
    /\ LET s == [S EXCEPT !.rq[c].rt_throttled = FALSE]
       IN  Become(IF rq[c].rt_nr_running > 0 THEN resched_task(s, c) ELSE s)
    /\ UNCHANGED <<pc, mig, hist, events>>

\* sys_sched_yield
Yield(c) ==
    /\ Event
    /\ pc[c].at = "run" /\ Free(c)
    /\ LET p == rq[c].curr
       IN  /\ p \in Task /\ task[p].state = "running"
           /\ Become(IF IsRtClass(S, p) THEN requeue_task_rt(S, c, p, FALSE) ELSE S)
    /\ Goto(c, [Run EXCEPT !.at = "schedule"])
    /\ UNCHANGED <<mig, hist>>

-----------------------------------------------------------------------------
(* Changes of policy, priority and affinity.                               *)

\* prio_changed_rt without its pull: reschedule if p should not, or should, run.
PrioChangedResched(s, r, p) ==
    IF IF s.rq[r].curr = p THEN s.task[p].prio > s.rq[r].hp_curr
       ELSE s.task[p].prio < PrioOf(s, s.rq[r].curr)
    THEN resched_task(s, r) ELSE s

\* The callbacks of check_class_changed, the locks held, up to the pull or push
\* that drops them; PrioChanged and SwitchedTo are the code after it.  l.pi is
\* the task.
switched_from_rt(c, s, l) ==
    /\ Become(s)
    /\ Goto(c, IF s.rq[l.rq].rt_nr_running = 0
               THEN PullLoop(s, [l EXCEPT !.k = "switched_to"], 0)
               ELSE [l EXCEPT !.at = "switched_to"])

switched_to_rt(c, s, l) ==
    /\ Become(s)
    /\ Goto(c, IF s.rq[l.rq].curr = l.pi THEN Run
               ELSE IF s.rq[l.rq].overloaded THEN [l EXCEPT !.at = "push", !.k = "switched"]
               ELSE [l EXCEPT !.at = "switched_to"])

prio_changed_rt(c, s, l, oldprio) ==
    IF s.rq[l.rq].curr = l.pi /\ oldprio < s.task[l.pi].prio
    THEN Become(s) /\ Goto(c, PullLoop(s, [l EXCEPT !.k = "prio_changed"], 0))
    ELSE Become(PrioChangedResched(s, l.rq, l.pi)) /\ Goto(c, Run)

check_class_changed(c, s, r, p, was_rt, oldprio) ==
    LET l == [Run EXCEPT !.rq = r, !.pi = p]
        on_rq == s.task[p].on_rq
        is_rt == IsRtClass(s, p)
    IN  CASE on_rq /\ was_rt /\ ~is_rt -> switched_from_rt(c, s, l)
          [] on_rq /\ ~was_rt /\ is_rt -> switched_to_rt(c, s, l)
          [] on_rq /\ was_rt /\ is_rt /\ oldprio # s.task[p].prio ->
                 prio_changed_rt(c, s, l, oldprio)
          [] OTHER -> Become(s) /\ Goto(c, Run)

\* The common part of __sched_setscheduler and rt_mutex_setprio: take the task
\* off its queue, change it to t, put it back.
ChangePrio(c, p, t, head) ==
    LET r == task[p].cpu
        running == rq[r].curr = p
        s1 == IF task[p].on_rq THEN deactivate_task(S, r, p) ELSE S
        s2 == IF running THEN put_prev_task(s1, r, p) ELSE s1
        s3 == [s2 EXCEPT !.task[p] = t]
        s4 == IF running THEN set_curr_task(s3, r, p) ELSE s3
        s5 == IF t.on_rq THEN activate_task(s4, r, p, head) ELSE s4
    IN  /\ Free(r) /\ PiFree(p)
        /\ check_class_changed(c, s5, r, p, IsRtClass(S, p), task[p].prio)

\* __setscheduler: the task with its new policy; boost is what its mutexes' waiters
\* give it (rt_mutex_getprio).
setscheduler_(t, policy, rt_priority) ==
    LET prio == normal_prio(policy, rt_priority)
    IN  [t EXCEPT !.policy = policy, !.normal_prio = prio,
                  !.prio = IF prio < t.boost THEN prio ELSE t.boost]

\* sched_setscheduler, called on CPU c.
SetScheduler(c, p, policy, rt_priority, reset) ==
    /\ Event
    /\ pc[c].at = "run" /\ task[p].state # "unborn"
    /\ rt_policy(policy) = (rt_priority # 0)
    /\ ~(policy = task[p].policy /\ normal_prio(policy, rt_priority) = task[p].normal_prio)
    /\ ChangePrio(c, p, [setscheduler_(task[p], policy, rt_priority) EXCEPT
                           !.reset_on_fork = reset], FALSE)
    /\ hist' = [hist EXCEPT !.changed = TRUE]
    /\ UNCHANGED mig

\* rt_mutex_setprio: the waiters of the task's mutexes boost it to boost, or
\* no longer do; a task that loses priority goes to the head of its list.
SetPrio(c, p, boost) ==
    /\ Event
    /\ pc[c].at = "run" /\ task[p].state # "unborn"
    /\ LET prio == IF task[p].normal_prio < boost THEN task[p].normal_prio ELSE boost
       IN  /\ prio # task[p].prio
           /\ ChangePrio(c, p, [task[p] EXCEPT !.boost = boost, !.prio = prio],
                         task[p].prio < prio)
    /\ hist' = [hist EXCEPT !.changed = TRUE]
    /\ UNCHANGED mig

\* The end of prio_changed_rt, after its pull.
PrioChanged(c) ==
    /\ pc[c].at = "prio_changed"
    /\ LET p == pc[c].pi
           r == pc[c].rq
           still == rq[r].curr = p
       IN  /\ Become(IF still THEN PrioChangedResched(S, r, p) ELSE S)
           /\ hist' = [hist EXCEPT !.unseen = IF still THEN @ ELSE @ \cup {r}]
    /\ Goto(c, Run)
    /\ UNCHANGED <<mig, events>>

\* The end of switched_to_rt, and switched_to_fair.
SwitchedTo(c) ==
    /\ pc[c].at = "switched_to"
    /\ LET p == pc[c].pi
           r == pc[c].rq
       IN  Become(CASE IsRtClass(S, p) ->
                           IF /\ pc[c].k # "pushed" \/ task[p].cpu = r
                              /\ task[p].prio < PrioOf(S, rq[r].curr)
                           THEN resched_task(S, r) ELSE S
                    [] ~IsRtClass(S, p) /\ task[p].on_rq ->
                           IF rq[r].curr = p THEN resched_task(S, r)
                           ELSE check_preempt_curr(S, r, p)
                    [] OTHER -> S)
    /\ Goto(c, Run)
    /\ UNCHANGED <<mig, hist, events>>

\* set_cpus_allowed_ptr: a queued task whose CPU is no longer allowed needs
\* the help of the stopper.
SetCpusAllowed(c, p, mask) ==
    /\ Event
    /\ pc[c].at = "run" /\ task[p].state # "unborn"
    /\ PiFree(p) /\ Free(task[p].cpu)
    /\ mask # task[p].allowed
    /\ Become(do_set_cpus_allowed(S, task[p].cpu, p, mask))
    /\ mig' = IF task[p].cpu \notin mask /\ task[p].on_rq
              THEN mig \cup {[task |-> p, src |-> task[p].cpu, dest |-> MinOf(mask)]}
              ELSE mig
    /\ hist' = [hist EXCEPT !.changed = TRUE,
                            !.waking = IF task[p].state = "waking" THEN @ \cup {p} ELSE @]
    /\ UNCHANGED pc

\* stop_one_cpu wakes the stopper of the CPU, which preempts everything.
WakeStopper(c) ==
    /\ \E m \in mig : m.src = c
    /\ ~rq[c].stop /\ Free(c)
    /\ Become([resched_task(S, c) EXCEPT !.rq[c].stop = TRUE])
    /\ UNCHANGED <<pc, mig, hist, events>>

\* migration_cpu_stop: the stopper runs, so the task does not.
MigrationCpuStop(c, m) ==
    /\ pc[c].at = "run" /\ rq[c].curr = Stopper /\ m.src = c
    /\ PiFree(m.task) /\ Free(c) /\ Free(m.dest)
    /\ Become(IF /\ task[m.task].cpu = c
                 /\ m.dest \in task[m.task].allowed
                 /\ task[m.task].on_rq
              THEN check_preempt_curr(MoveTask(S, m.task, c, m.dest), m.dest, m.task)
              ELSE S)
    /\ mig' = mig \ {m}
    /\ UNCHANGED <<pc, hist, events>>

-----------------------------------------------------------------------------
\* What CPU c does by itself once it has entered the scheduler.
Step(c) ==
    \/ PullTask(c) \/ PushTask(c) \/ PushLocked(c)
    \/ PickNext(c) \/ PostSchedule(c)
    \/ TtwuPlace(c) \/ TtwuQueue(c) \/ TtwuPending(c)
    \/ PrioChanged(c) \/ SwitchedTo(c)

\* What enters the scheduler on CPU c.
Enter(c) ==
    \/ Preempt(c) \/ Sleep(c) \/ SchedulerIpi(c) \/ WakeStopper(c)
    \/ \E m \in mig : MigrationCpuStop(c, m)
    \/ SleepInterrupted(c) \/ SetState(c) \/ Tick(c) \/ Yield(c)
    \/ Throttle(c) \/ Unthrottle(c)
    \/ \E p \in Task : TryToWakeUp(c, p)
    \/ \E p \in Task, policy \in Policies, rt_priority \in RtPrio, reset \in ResetFlags :
          SetScheduler(c, p, policy, rt_priority, reset)
    \/ \E p \in Task, boost \in {task[q].prio : q \in Task} \cup {MAX_PRIO} : SetPrio(c, p, boost)
    \/ \E p \in Task, mask \in Masks : SetCpusAllowed(c, p, mask)
    \/ \E p \in Task : Fork(c, p)

\* Nothing is under way.
Quiet ==
    /\ \A c \in Cpu : /\ pc[c].at = "run" /\ ~rq[c].need_resched
                      /\ rq[c].wake_list = <<>> /\ ~rq[c].ipi
    /\ mig = {}

\* The bound is used up and every CPU is back outside the scheduler.
Settled == Quiet /\ events = MaxEvents /\ UNCHANGED vars

Next == (\E c \in Cpu : Step(c) \/ Enter(c)) \/ Settled

Spec == Init /\ [][Next]_vars

-----------------------------------------------------------------------------
(* Properties.                                                             *)

TypeOK ==
    /\ task \in [Task -> [policy : Policy, normal_prio : 0 .. MAX_RT_PRIO,
                          prio : 0 .. MAX_RT_PRIO, boost : 0 .. MAX_PRIO,
                          reset_on_fork : BOOLEAN, cpu : Cpu,
                          state : {"unborn", "sleep", "waking", "running"},
                          on_rq : BOOLEAN, on_cpu : BOOLEAN,
                          allowed : (SUBSET Cpu) \ {{}}, time_slice : 1 .. DEF_TIMESLICE]]
    /\ \A c \in Cpu :
          /\ \A i \in RtPrio : Members(rq[c].queue[i]) \subseteq Task
          /\ Members(rq[c].pushable) \cup Members(rq[c].wake_list) \subseteq Task
          /\ rq[c].hp_curr \in 0 .. MAX_RT_PRIO /\ rq[c].hp_next \in 0 .. MAX_RT_PRIO
          /\ rq[c].curr \in Task \cup {Idle, Stopper}
          /\ pc[c].pi \in Task \cup {NoTask} /\ pc[c].p \in Task \cup {NoTask}
    /\ cpupri \in [Cpu -> 0 .. MAX_RT_PRIO] /\ rto_mask \subseteq Cpu
    /\ mig \subseteq [task : Task, src : Cpu, dest : Cpu]
    /\ events \in 0 .. MaxEvents

\* The tasks of run queue c's lists.
Queued(c) == UNION {Members(rq[c].queue[i]) : i \in RtPrio}

\* The values cached beside the lists are what a walk over the lists would find:
\* the bitmap, the counts, the highest priority, the overload flag and, outside
\* the run queue, rto_mask and cpupri (enqueue_rt_entity, dequeue_rt_entity,
\* set_cpus_allowed_rt and all that moves tasks between CPUs).
CachesAgree ==
    \A c \in Cpu :
        LET r == rq[c] IN
        /\ r.bitmap = {i \in RtPrio : r.queue[i] # <<>>}
        /\ r.rt_nr_running = Cardinality(Queued(c))
        /\ r.rt_nr_migratory = Cardinality({p \in Queued(c) : NrAllowed(S, p) > 1})
        /\ r.hp_curr = sched_find_first_bit(r.bitmap)
        /\ r.overloaded = (r.rt_nr_migratory > 0 /\ r.rt_nr_running > 1)
        /\ r.overloaded = (c \in rto_mask)
        /\ cpupri[c] = r.hp_curr

\* A real-time task that is on_rq is on exactly one list, that of its CPU and
\* priority, and no other task is on any list; no task runs on two CPUs, and a
\* CPU runs only tasks that are its own.  The push, the pull, the stopper and
\* the wake-up all move tasks, with locks dropped and taken again in between.
OnePlace ==
    /\ \A p \in Task : \A c \in Cpu, i \in RtPrio :
          Cardinality({n \in DOMAIN rq[c].queue[i] : rq[c].queue[i][n] = p}) =
              IF task[p].on_rq /\ task[p].cpu = c /\ task[p].prio = i THEN 1 ELSE 0
    /\ \A c \in Cpu : LET p == rq[c].curr IN
          p \in Task => /\ task[p].on_cpu /\ task[p].cpu = c
                        /\ \A d \in Cpu \ {c} : rq[d].curr # p

\* The BUG_ONs of pick_next_pushable_task.
PushableTasksOk ==
    \A c \in Cpu : \A p \in Members(rq[c].pushable) :
        /\ task[p].cpu = c /\ rq[c].curr # p
        /\ NrAllowed(S, p) > 1
        /\ task[p].on_rq /\ IsRtClass(S, p)

\* No wake-up is lost: a task that is not asleep is on a run queue, or its
\* wake-up is on the way, and with a wake list so is the interrupt for it
\* (ttwu_queue_remote sends one only for the first task, scheduler_ipi of any
\* other interrupt may have taken the list before).
NoLostWakeup ==
    \A p \in Task :
        /\ task[p].state = "running" => task[p].on_rq
        /\ task[p].state = "waking" =>
              \E c \in Cpu : \/ pc[c].at = "ttwu_queue" /\ pc[c].pi = p
                             \/ p \in Members(rq[c].wake_list) /\ rq[c].ipi
                             \/ p \in Members(pc[c].rest)

\* A pull or push of check_class_changed has dropped the lock of run queue c, and
\* the reschedule is decided after it.
ClassChanging(c) ==
    \E d \in Cpu : pc[d].rq = c /\ pc[d].k \in {"switched", "switched_to", "prio_changed"}

\* A task that CPU c may pick: its real-time tasks wait while it is throttled.
Eligible(c, p) ==
    task[p].on_rq /\ task[p].cpu = c /\ ~(rq[c].rt_throttled /\ IsRtClass(S, p))

\* A CPU outside the scheduler that has not been told to reschedule runs nothing
\* below a task it may pick.  Wake-ups and migrations tell it through
\* check_preempt_curr, push_rt_task, switched_to_rt and prio_changed_rt through
\* resched_task, and the period timer when it ends a throttle.  pull_rt_task tells
\* nobody: schedule() picks after its own pull, but switched_from_rt ignores that
\* it pulled (sched_rt.c lines 1657-1658), and prio_changed_rt reschedules only if
\* its task still runs (1723).  A CPU that these two pulled a task to is exempt,
\* as hist.unseen, until it next picks.
HighestRuns ==
    \A c \in Cpu :
        (/\ pc[c].at = "run" /\ Free(c) /\ ~ClassChanging(c)
         /\ ~rq[c].need_resched /\ c \notin hist.unseen) =>
            \A p \in Task : Eligible(c, p) => PrioOf(S, rq[c].curr) <= task[p].prio

\* A push that fails drops its task from the pushable list: "We will not try
\* again, since the other cpus will pull from us when they are ready."  They do:
\* once nothing is under way, no CPU that a dropped task may use runs less, if no
\* policy, priority or mask has changed and no run queue was throttled (a
\* throttled one is not pulled from, line 1526, and when it is released the CPUs
\* that have become free do not look again).
GivenUpIsPulled ==
    (Quiet /\ ~hist.changed) => \A c, d \in Cpu : \A p \in Queued(c) :
        (/\ p # rq[c].curr /\ d \in task[p].allowed
         /\ p \notin Members(rq[c].pushable) \/ PrioOf(S, rq[c].curr) < task[p].prio)
        => PrioOf(S, rq[d].curr) <= task[p].prio

\* set_cpus_allowed_ptr: "Migrate the thread to a proper CPU and schedule it away
\* if the CPU it's executing on is removed from the allowed bitmask."  While a
\* task runs where it may not, its migration is on the way, whatever pushes,
\* pulls, wake-ups and further changes of the mask come between.  A task whose
\* mask changed when it was already on its way to a wake list is the exception.
AffinityKept ==
    \A c \in Cpu : LET p == rq[c].curr IN
        (p \in Task \ hist.waking /\ task[p].on_rq /\ c \notin task[p].allowed) =>
            \E m \in mig : m.task = p /\ m.src = c
=============================================================================
