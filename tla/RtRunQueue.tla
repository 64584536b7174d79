----------------------------- MODULE RtRunQueue -----------------------------
(***************************************************************************)
(* The data structures of the real-time scheduling class of the kernel     *)
(* (src/indwriterups/project1/sched_rt.c): per CPU an array of lists, one  *)
(* per priority, the values cached beside it (bitmap, counters,            *)
(* highest_prio, overloaded), the plist of pushable tasks, and in the root *)
(* domain the mask of overloaded CPUs and cpupri.                          *)
(*                                                                         *)
(* The module has no variables.  Every function of the source that changes *)
(* these structures is an operator from a scheduler state s to the state   *)
(* after the call; s.task, s.rq, s.cpupri and s.rto_mask are the variables *)
(* of module RtSched.  Configuration: CONFIG_SMP, no CONFIG_RT_GROUP_SCHED *)
(* (so every run-queue entity is a task and rt_nr_total = rt_nr_running);  *)
(* every CPU is online.                                                    *)
(*                                                                         *)
(* A small number is a high priority.  Priorities below MAX_RT_PRIO are    *)
(* real-time; MAX_RT_PRIO stands for every priority of the fair class.     *)
(***************************************************************************)
EXTENDS Integers, Sequences, FiniteSets

CONSTANTS
    Task,         \* the tasks
    NCpu,         \* nr_cpu_ids
    MAX_RT_PRIO,  \* 100 in the kernel
    Idle,         \* the idle task of a CPU
    Stopper,      \* the stop task of a CPU (migration/N)
    NoTask        \* NULL

ASSUME RtRunQueueAssumption ==
    /\ NCpu \in Nat \ {0}
    /\ MAX_RT_PRIO \in Nat \ {0}
    /\ IsFiniteSet(Task)
    /\ Idle \notin Task /\ Stopper \notin Task /\ NoTask \notin Task
    /\ Idle # Stopper /\ NoTask # Idle /\ NoTask # Stopper

Cpu == 0 .. NCpu - 1
RtPrio == 0 .. MAX_RT_PRIO - 1
MAX_PRIO == MAX_RT_PRIO + 1     \* the priority of the idle task

MinOf(S) == CHOOSE x \in S : \A y \in S : x <= y
MaxOf(S) == CHOOSE x \in S : \A y \in S : x >= y
Members(q) == {q[i] : i \in DOMAIN q}

\* list_del and plist_del: q without p, if p is on it.
Without(q, p) ==
    LET n == CHOOSE i \in DOMAIN q : q[i] = p
    IN  IF p \in Members(q)
        THEN [i \in 1 .. Len(q) - 1 |-> IF i < n THEN q[i] ELSE q[i + 1]] ELSE q

-----------------------------------------------------------------------------
(* What is read of a task.                                                 *)

rt_prio(prio) == prio < MAX_RT_PRIO

\* p->prio; the stop task has the highest real-time priority.
PrioOf(s, p) ==
    IF p = Idle THEN MAX_PRIO ELSE IF p = Stopper THEN 0 ELSE s.task[p].prio

\* rt_task(): a test of the priority, which the stop task passes.
rt_task(s, p) == rt_prio(PrioOf(s, p))

\* p->rt.nr_cpus_allowed
NrAllowed(s, p) == IF p \in Task THEN Cardinality(s.task[p].allowed) ELSE 1

\* The position of p->sched_class in the list of for_each_class.
ClassRank(s, p) ==
    CASE p = Stopper -> 1
      [] p = Idle -> 4
      [] OTHER -> IF rt_prio(s.task[p].prio) THEN 2 ELSE 3

IsRtClass(s, p) == ClassRank(s, p) = 2
IsFairClass(s, p) == ClassRank(s, p) = 3

\* on_rt_rq(): the task's list node is on a list of its run queue.
on_rt_rq(s, p) ==
    \E i \in RtPrio : p \in Members(s.rq[s.task[p].cpu].queue[i])

resched_task(s, c) == [s EXCEPT !.rq[c].need_resched = TRUE]

-----------------------------------------------------------------------------
(* Overload and the list of pushable tasks.                                *)

\* rt_set_overload, rt_clear_overload: rto_count is the size of the mask.
update_rt_migration(s, c) ==
    LET over == s.rq[c].rt_nr_migratory > 0 /\ s.rq[c].rt_nr_running > 1
    IN  IF over = s.rq[c].overloaded THEN s
        ELSE [s EXCEPT !.rq[c].overloaded = over,
                       !.rto_mask = IF over THEN @ \cup {c} ELSE @ \ {c}]

dequeue_pushable_task(s, c, p) == [s EXCEPT !.rq[c].pushable = Without(@, p)]

\* plist_add keeps the list sorted, equal priorities in order of arrival.
plist_add(s, q, p) ==
    LET ahead == {i \in DOMAIN q : PrioOf(s, q[i]) <= PrioOf(s, p)}
        n == IF ahead = {} THEN 0 ELSE MaxOf(ahead)
    IN  SubSeq(q, 1, n) \o <<p>> \o SubSeq(q, n + 1, Len(q))

enqueue_pushable_task(s, c, p) ==
    [s EXCEPT !.rq[c].pushable = plist_add(s, Without(@, p), p)]

-----------------------------------------------------------------------------
(* highest_prio and cpupri.                                                *)

\* pick_rt_task(): a queued task another CPU may take.
pick_rt_task(s, p, cpu) ==
    /\ ~s.task[p].on_cpu
    /\ cpu \in s.task[p].allowed
    /\ NrAllowed(s, p) > 1

pick_next_highest_task_rt(s, c, cpu) ==
    LET queue == s.rq[c].queue
        open(i) == {n \in DOMAIN queue[i] : pick_rt_task(s, queue[i][n], cpu)}
        levels == {i \in s.rq[c].bitmap : open(i) # {}}
        high == MinOf(levels)
    IN  IF levels = {} THEN NoTask ELSE queue[high][MinOf(open(high))]

next_prio(s, c) ==
    LET next == pick_next_highest_task_rt(s, c, c)
    IN  IF next # NoTask THEN s.task[next].prio ELSE MAX_RT_PRIO

sched_find_first_bit(bitmap) == IF bitmap = {} THEN MAX_RT_PRIO ELSE MinOf(bitmap)

inc_rt_prio(s, c, prio) ==
    LET r == s.rq[c]
    IN  CASE prio < r.hp_curr ->
                 [s EXCEPT !.rq[c].hp_curr = prio, !.rq[c].hp_next = r.hp_curr,
                           !.cpupri[c] = prio]
          [] prio = r.hp_curr -> [s EXCEPT !.rq[c].hp_next = prio]
          [] prio > r.hp_curr /\ prio < r.hp_next ->
                 [s EXCEPT !.rq[c].hp_next = next_prio(s, c)]
          [] OTHER -> s

\* Called with rt_nr_running already decremented.
dec_rt_prio(s, c, prio) ==
    LET prev == s.rq[c].hp_curr
        high == CASE s.rq[c].rt_nr_running = 0 -> MAX_RT_PRIO
                  [] s.rq[c].rt_nr_running > 0 /\ prio = prev ->
                         sched_find_first_bit(s.rq[c].bitmap)
                  [] OTHER -> prev
        s1 == [s EXCEPT !.rq[c].hp_curr = high]
        s2 == IF s.rq[c].rt_nr_running > 0 /\ prio <= s.rq[c].hp_next
              THEN [s1 EXCEPT !.rq[c].hp_next = next_prio(s1, c)] ELSE s1
    IN  IF high # prev THEN [s2 EXCEPT !.cpupri[c] = high] ELSE s2

-----------------------------------------------------------------------------
(* Adding a task to, and removing it from, the priority array.             *)

\* inc_rt_tasks, with inc_rt_migration.
inc_rt_tasks(s, c, p) ==
    LET s1 == inc_rt_prio([s EXCEPT !.rq[c].rt_nr_running = @ + 1], c, s.task[p].prio)
        n == IF NrAllowed(s, p) > 1 THEN 1 ELSE 0
    IN  update_rt_migration([s1 EXCEPT !.rq[c].rt_nr_migratory = @ + n], c)

\* dec_rt_tasks, with dec_rt_migration.
dec_rt_tasks(s, c, p) ==
    LET s1 == dec_rt_prio([s EXCEPT !.rq[c].rt_nr_running = @ - 1], c, s.task[p].prio)
        n == IF NrAllowed(s, p) > 1 THEN 1 ELSE 0
    IN  update_rt_migration([s1 EXCEPT !.rq[c].rt_nr_migratory = @ - n], c)

enqueue_rt_entity_(s, c, p, head) ==
    LET i == s.task[p].prio
    IN  inc_rt_tasks([s EXCEPT !.rq[c].queue[i] = IF head THEN <<p>> \o @ ELSE Append(@, p),
                               !.rq[c].bitmap = @ \cup {i}], c, p)

dequeue_rt_entity_(s, c, p) ==
    LET i == s.task[p].prio
        left == Without(s.rq[c].queue[i], p)
    IN  dec_rt_tasks([s EXCEPT !.rq[c].queue[i] = left,
                               !.rq[c].bitmap = IF left = <<>> THEN @ \ {i} ELSE @], c, p)

dequeue_rt_stack(s, c, p) == IF on_rt_rq(s, p) THEN dequeue_rt_entity_(s, c, p) ELSE s

enqueue_task_rt(s, c, p, head) ==
    LET s1 == enqueue_rt_entity_(dequeue_rt_stack(s, c, p), c, p, head)
    IN  IF s1.rq[c].curr # p /\ NrAllowed(s, p) > 1
        THEN enqueue_pushable_task(s1, c, p) ELSE s1

dequeue_task_rt(s, c, p) == dequeue_pushable_task(dequeue_rt_stack(s, c, p), c, p)

\* requeue_task_rt: to the head or the tail of the list of its priority.
requeue_task_rt(s, c, p, head) ==
    IF on_rt_rq(s, p)
    THEN [s EXCEPT !.rq[c].queue[s.task[p].prio] =
                       IF head THEN <<p>> \o Without(@, p) ELSE Append(Without(@, p), p)]
    ELSE s

\* activate_task, deactivate_task, enqueue_task, dequeue_task: the fair class
\* keeps its own tree, here the tasks of the class with on_rq set.
activate_task(s, c, p, head) ==
    IF IsRtClass(s, p) THEN enqueue_task_rt(s, c, p, head) ELSE s
deactivate_task(s, c, p) == IF IsRtClass(s, p) THEN dequeue_task_rt(s, c, p) ELSE s

\* deactivate_task, set_task_cpu, activate_task, as the push, the pull and the
\* stopper call them with both run queues locked.
MoveTask(s, p, from, to) ==
    activate_task([deactivate_task(s, from, p) EXCEPT !.task[p].cpu = to], to, p, FALSE)

-----------------------------------------------------------------------------
(* Choosing a CPU and a task.                                              *)

\* cpupri_find: the allowed CPUs at the lowest priority, if below p's.
cpupri_find(s, p) ==
    LET low == MaxOf({s.cpupri[c] : c \in s.task[p].allowed})
    IN  IF low > s.task[p].prio
        THEN {c \in s.task[p].allowed : s.cpupri[c] = low} ELSE {}

\* The CPU to send p to, called on CPU this; -1 when there is none.  One
\* scheduling domain spans all CPUs.
find_lowest_rq(s, p, this) ==
    LET lowest_mask == cpupri_find(s, p)
    IN  CASE NrAllowed(s, p) = 1 \/ lowest_mask = {} -> -1
          [] OTHER -> IF s.task[p].cpu \in lowest_mask THEN s.task[p].cpu
                      ELSE IF this \in lowest_mask THEN this ELSE MinOf(lowest_mask)

\* select_task_rq for a waking task; the fair class leaves it where it is.
select_task_rq_rt(s, p, this) ==
    LET cpu == s.task[p].cpu
        curr == s.rq[cpu].curr
        target == find_lowest_rq(s, p, this)
    IN  IF /\ rt_task(s, curr)
           /\ NrAllowed(s, curr) < 2 \/ PrioOf(s, curr) < s.task[p].prio
           /\ NrAllowed(s, p) > 1
           /\ target # -1
        THEN target ELSE cpu

select_fallback_rq(s, p) == MinOf(s.task[p].allowed)

select_task_rq(s, p, this) ==
    LET cpu == IF IsRtClass(s, p) THEN select_task_rq_rt(s, p, this) ELSE s.task[p].cpu
    IN  IF cpu \in s.task[p].allowed THEN cpu ELSE select_fallback_rq(s, p)

check_preempt_equal_prio(s, c, p) ==
    IF \/ NrAllowed(s, s.rq[c].curr) = 1
       \/ NrAllowed(s, p) # 1 /\ cpupri_find(s, p) # {}
       \/ cpupri_find(s, s.rq[c].curr) = {}
    THEN s
    ELSE resched_task(requeue_task_rt(s, c, p, TRUE), c)

check_preempt_curr_rt(s, c, p) ==
    LET curr == s.rq[c].curr
    IN  CASE s.task[p].prio < PrioOf(s, curr) -> resched_task(s, c)
          [] s.task[p].prio = PrioOf(s, curr) /\ ~s.rq[c].need_resched ->
                 check_preempt_equal_prio(s, c, p)
          [] OTHER -> s

\* Between two fair tasks the fair class decides; it is not modelled.
check_preempt_curr(s, c, p) ==
    LET curr == s.rq[c].curr
    IN  CASE ClassRank(s, p) < ClassRank(s, curr) -> resched_task(s, c)
          [] IsRtClass(s, p) /\ IsRtClass(s, curr) -> check_preempt_curr_rt(s, c, p)
          [] OTHER -> s

\* The head of the first list that is not empty.
pick_next_rt_entity(s, c) == Head(s.rq[c].queue[sched_find_first_bit(s.rq[c].bitmap)])

\* pick_next_task: the stop class, then the real-time class unless the run
\* queue is throttled, then any fair task, then the idle task.
pick_next_task(s, c) ==
    LET fair == {p \in Task : /\ s.task[p].on_rq /\ s.task[p].cpu = c
                              /\ IsFairClass(s, p)}
    IN  CASE s.rq[c].stop -> {Stopper}
          [] ~s.rq[c].stop /\ s.rq[c].rt_nr_running > 0 /\ ~s.rq[c].rt_throttled ->
                 {pick_next_rt_entity(s, c)}
          [] OTHER -> IF fair # {} THEN fair ELSE {Idle}

\* pick_next_task_rt: a task that is to run is not pushable; the class is asked
\* unless the stop class has a task, and wants to push what it leaves.
pick_next_task_rt(s, c, next) ==
    LET s1 == IF next \in Task /\ IsRtClass(s, next)
              THEN dequeue_pushable_task(s, c, next) ELSE s
    IN  IF next = Stopper THEN s1
        ELSE [s1 EXCEPT !.rq[c].post_schedule = s1.rq[c].pushable # <<>>]

\* Mutant: whether the task stays queued is not asked.
put_prev_task_any(s, c, prev) ==
    IF prev \in Task /\ IsRtClass(s, prev) /\ NrAllowed(s, prev) > 1
    THEN enqueue_pushable_task(s, c, prev) ELSE s

\* put_prev_task: a real-time task that stays queued becomes pushable.
put_prev_task(s, c, prev) ==
    IF prev \in Task /\ IsRtClass(s, prev) /\ on_rt_rq(s, prev) /\ NrAllowed(s, prev) > 1
    THEN enqueue_pushable_task(s, c, prev) ELSE s

\* set_curr_task: the running task is never eligible for pushing.
set_curr_task(s, c, p) == IF IsRtClass(s, p) THEN dequeue_pushable_task(s, c, p) ELSE s

\* Mutant: the count of migratory tasks is forgotten.
do_set_cpus_allowed_uncounted(s, c, p, mask) ==
    LET s1 == IF s.rq[c].curr = p \/ ~(IsRtClass(s, p) /\ s.task[p].on_rq) THEN s
              ELSE IF Cardinality(mask) > 1 THEN enqueue_pushable_task(s, c, p)
              ELSE dequeue_pushable_task(s, c, p)
    IN  [s1 EXCEPT !.task[p].allowed = mask]

\* set_cpus_allowed_rt, and the plain assignment for the other classes.
do_set_cpus_allowed(s, c, p, mask) ==
    LET weight == Cardinality(mask)
        old == NrAllowed(s, p)
        s1 == IF s.rq[c].curr = p THEN s
              ELSE IF weight > 1 THEN enqueue_pushable_task(s, c, p)
              ELSE dequeue_pushable_task(s, c, p)
        n == (IF weight > 1 THEN 1 ELSE 0) - (IF old > 1 THEN 1 ELSE 0)
        s2 == IF IsRtClass(s, p) /\ s.task[p].on_rq /\ weight # old
              THEN update_rt_migration([s1 EXCEPT !.rq[c].rt_nr_migratory = @ + n], c)
              ELSE s
    IN  [s2 EXCEPT !.task[p].allowed = mask]
=============================================================================
