------------------------ MODULE RtSchedProofs ------------------------
(***************************************************************************)
(* Proofs about RtSched, for any number of CPUs, tasks, priorities and     *)
(* events.  A handler of the scheduler is a function from a scheduler      *)
(* state to a scheduler state (RtRunQueue), and most of them are made of   *)
(* a few others, so the invariant is stated of values: StateOk(s) is what  *)
(* holds of the run queues and the tasks whoever holds a lock, and the     *)
(* lemmas show operator by operator, from list_add up to                   *)
(* check_class_changed, that it is kept and what else changes.  InvOf adds *)
(* what relates that state to where the CPUs are between two locks:        *)
(*   Places    what each CPU may be doing, with at most one of them in     *)
(*             a critical section of a task's pi_lock;                     *)
(*   States    a task's state against on_rq and against the wake-ups;      *)
(*   Wakeups   a waking task is on its way to one CPU, on one list;        *)
(*   Affinity  a task that is where it may not be is being migrated;       *)
(*   High      a CPU runs nothing that is below what it may pick (while it *)
(*             is throttled, only tasks that are not real-time), or it     *)
(*             will look: it is in schedule(), it has its flag set, or the *)
(*             class change that has to tell it is still under way.        *)
(* There is one lemma for each action, and the properties follow.          *)
(***************************************************************************)
EXTENDS RtSched, WellFoundedInduction, FiniteSetTheorems, SequenceTheorems, TLAPS
-----------------------------------------------------------------------------
(* The scheduler state as a value, for the operators of RtRunQueue.        *)

TaskT == [policy : Policy, normal_prio : 0 .. MAX_RT_PRIO, prio : 0 .. MAX_RT_PRIO,
          boost : 0 .. MAX_PRIO, reset_on_fork : BOOLEAN, cpu : Cpu,
          state : {"unborn", "sleep", "waking", "running"}, on_rq : BOOLEAN,
          on_cpu : BOOLEAN, allowed : (SUBSET Cpu) \ {{}}, time_slice : 1 .. DEF_TIMESLICE]

RqT == [queue : [RtPrio -> Seq(Task)], bitmap : SUBSET RtPrio, rt_nr_running : Int,
        rt_nr_migratory : Int, overloaded : BOOLEAN, hp_curr : 0 .. MAX_RT_PRIO,
        hp_next : 0 .. MAX_RT_PRIO, pushable : Seq(Task),
        curr : Task \cup {Idle, Stopper}, rt_throttled : BOOLEAN, need_resched : BOOLEAN,
        stop : BOOLEAN, post_schedule : BOOLEAN, wake_list : Seq(Task), ipi : BOOLEAN]

StateT == [task : [Task -> TaskT], rq : [Cpu -> RqT], cpupri : [Cpu -> 0 .. MAX_RT_PRIO],
           rto_mask : SUBSET Cpu]

NoDup(q) == \A i, j \in DOMAIN q : q[i] = q[j] => i = j

(* The tasks of Q are on the lists of their CPU and priority, once, and no *)
(* other task is on any list.                                              *)
Listed(s, Q) ==
    \A c \in Cpu, i \in RtPrio :
        /\ NoDup(s.rq[c].queue[i])
        /\ \A p \in Task : p \in Members(s.rq[c].queue[i]) <=>
              p \in Q /\ s.task[p].cpu = c /\ s.task[p].prio = i

On(s, Q, c) == {p \in Q : s.task[p].cpu = c}
Migratory(s, Q, c) == {p \in On(s, Q, c) : NrAllowed(s, p) > 1}

(* What is cached of the tasks of Q that are on CPU c.                     *)
Counts(s, Q, c) ==
    /\ s.rq[c].rt_nr_running = Cardinality(On(s, Q, c))
    /\ s.rq[c].rt_nr_migratory = Cardinality(Migratory(s, Q, c))
    /\ \A i \in RtPrio : i \in s.rq[c].bitmap <=> \E p \in On(s, Q, c) : s.task[p].prio = i

Highest(s, Q, c) ==
    /\ s.rq[c].hp_curr = MAX_RT_PRIO \/ \E p \in On(s, Q, c) : s.task[p].prio = s.rq[c].hp_curr
    /\ \A p \in On(s, Q, c) : s.rq[c].hp_curr <= s.task[p].prio
    /\ s.cpupri[c] = s.rq[c].hp_curr

Overload(s, c) ==
    /\ s.rq[c].overloaded <=> (s.rq[c].rt_nr_migratory > 0 /\ s.rq[c].rt_nr_running > 1)
    /\ s.rq[c].overloaded <=> c \in s.rto_mask

Pushables(s, Q, c) ==
    /\ NoDup(s.rq[c].pushable)
    /\ Members(s.rq[c].pushable) \subseteq Migratory(s, Q, c)

QueuesOk(s, Q) ==
    /\ s \in StateT
    /\ Q \subseteq Task /\ \A p \in Q : s.task[p].prio \in RtPrio
    /\ Listed(s, Q)
    /\ \A c \in Cpu : Counts(s, Q, c) /\ Highest(s, Q, c) /\ Overload(s, c) /\ Pushables(s, Q, c)

(* The tasks that are to be on the lists.                                  *)
RtQueued(s) == {p \in Task : s.task[p].on_rq /\ s.task[p].prio < MAX_RT_PRIO}

(* A CPU runs a task of its own, which is not pushable; a task that is on  *)
(* a CPU is the one that runs there.                                       *)
CurrOk(s) ==
    /\ \A c \in Cpu : s.rq[c].curr \in Task =>
          /\ s.task[s.rq[c].curr].on_cpu /\ s.task[s.rq[c].curr].cpu = c
          /\ s.rq[c].curr \notin Members(s.rq[c].pushable)
    /\ \A p \in Task : s.task[p].on_cpu => s.rq[s.task[p].cpu].curr = p

StateOk(s) == QueuesOk(s, RtQueued(s)) /\ CurrOk(s)

-----------------------------------------------------------------------------
(* Where the CPUs are.                                                     *)

Labels == {"run", "schedule", "pull", "pick", "push", "retry", "push_lock", "post_schedule",
           "ttwu", "ttwu_queue", "pending", "prio_changed", "switched_to"}
Pushing == {"push", "retry", "push_lock"}

PcT == [at : Labels, rq : Cpu, p : Task \cup {NoTask}, to : Cpu, tries : Nat,
        k : {"", "pick", "post", "woken", "switched", "switched_to", "prio_changed", "pushed"},
        rest : Seq(Task), pi : Task \cup {NoTask}]

PlaceOk(c, l) ==
    /\ l \in PcT
    /\ l.at = "run" => l = Run
    /\ l.at \in {"pick", "post_schedule", "pending"} => l.rq = c /\ l.pi = NoTask
    /\ l.rest # <<>> => l.rq = c /\ (l.at = "pending" \/ (l.at \in Pushing /\ l.k = "woken"))
    /\ l.at = "pending" => l.rest # <<>>
    /\ l.at = "pull" => l.k \in {"pick", "switched_to", "prio_changed"}
    /\ l.at = "pull" /\ l.k = "pick" => l.rq = c /\ l.pi = NoTask
    /\ l.at = "pull" /\ l.k # "pick" => l.pi \in Task
    /\ l.at \in Pushing => l.k \in {"post", "woken", "switched"}
    /\ l.at \in Pushing /\ l.k = "switched" => l.pi \in Task
    /\ l.at = "push_lock" => l.p \in Task
    /\ l.at \in {"ttwu", "ttwu_queue", "prio_changed", "switched_to"} => l.pi \in Task

(* CPU c is at l now, and the others are where they were.                  *)
At(P, P2, c, l) == P2 \in [Cpu -> PcT] /\ P2[c] = l /\ \A d \in Cpu \ {c} : P2[d] = P[d]

Unheld(P, p) == \A c \in Cpu : P[c].pi # p

Places(P) ==
    /\ P \in [Cpu -> PcT]
    /\ \A c \in Cpu : PlaceOk(c, P[c])
    /\ \A c, d \in Cpu : P[c].pi = P[d].pi /\ P[c].pi # NoTask => c = d

(* A task that is not born yet is nobody's business.                       *)
Unborn(s, P) == \A p \in Task : s.task[p].state = "unborn" => Unheld(P, p)

(* In schedule(), with curr on its way out.                                *)
PickL(l) == l.at = "pick" \/ (l.at = "pull" /\ l.k = "pick")

(* In prio_changed_rt, and in switched_from_rt or switched_to_rt.          *)
PrioL(l) == l.at = "prio_changed" \/ (l.at = "pull" /\ l.k = "prio_changed")
SwitchL(l) ==
    \/ l.at = "switched_to"
    \/ l.at = "pull" /\ l.k = "switched_to"
    \/ l.at \in Pushing /\ l.k = "switched"

-----------------------------------------------------------------------------
(* The state of a task against its being on a run queue, and where the     *)
(* wake-ups that are under way are.                                        *)
TaskStateOk(s, p) ==
    /\ s.task[p].on_rq => s.task[p].state \in {"running", "sleep"}
    /\ ~s.task[p].on_rq => s.task[p].state # "running"
    /\ s.task[p].state \in {"unborn", "waking"} => ~s.task[p].on_cpu

TtwuOk(s, l) ==
    /\ l.at = "ttwu" => s.task[l.pi].state = "sleep" /\ ~s.task[l.pi].on_rq
    /\ l.at = "ttwu_queue" => s.task[l.pi].state = "waking"

States(s, P) ==
    /\ \A p \in Task : TaskStateOk(s, p)
    /\ \A c \in Cpu : s.rq[c].curr \in Task /\ ~s.task[s.rq[c].curr].on_rq => PickL(P[c])
    /\ \A c \in Cpu : TtwuOk(s, P[c])

(* The wake-up of p waits on CPU c.                                        *)
Waits(s, P, c, p) == p \in Members(s.rq[c].wake_list) \/ p \in Members(P[c].rest)
Queueing(P, c, p) == P[c].at = "ttwu_queue" /\ P[c].pi = p

Wakeups(s, P) ==
    /\ \A c \in Cpu : NoDup(s.rq[c].wake_list) /\ NoDup(P[c].rest)
    /\ \A c \in Cpu : s.rq[c].wake_list # <<>> => s.rq[c].ipi
    /\ \A c \in Cpu, p \in Task : Waits(s, P, c, p) =>
          /\ s.task[p].state = "waking" /\ s.task[p].cpu = c
          /\ \A d \in Cpu : ~Queueing(P, d, p)
    /\ \A c \in Cpu, p \in Task : ~(p \in Members(s.rq[c].wake_list) /\ p \in Members(P[c].rest))
    /\ \A p \in Task : s.task[p].state = "waking" =>
          \E c \in Cpu : Queueing(P, c, p) \/ Waits(s, P, c, p)

(* A task that is queued where it may not run has a migration under way.   *)
Placed(s, M, p) ==
    /\ s.task[p].state = "waking" => s.task[p].cpu \in s.task[p].allowed
    /\ s.task[p].on_rq /\ s.task[p].cpu \notin s.task[p].allowed =>
          \E m \in M : m.task = p /\ m.src = s.task[p].cpu /\ m.dest \in s.task[p].allowed

Affinity(s, M, H) == \A p \in Task \ H.waking : Placed(s, M, p)

-----------------------------------------------------------------------------
(* What runs on CPU d.                                                     *)

(* The task of CPU d whose class has changed, and which the change will    *)
(* still compare with what runs.                                           *)
Raised(P, d, p) == \E e \in Cpu : P[e].rq = d /\ SwitchL(P[e]) /\ P[e].pi = p

(* The task that runs was lowered to the fair class, and is rescheduled.   *)
Lowered(s, P, d) ==
    \E e \in Cpu : /\ P[e].rq = d /\ SwitchL(P[e]) /\ P[e].pi \in Task
                   /\ P[e].pi = s.rq[d].curr /\ s.task[P[e].pi].prio = MAX_RT_PRIO

(* Another task may be due, and CPU d will find out.                       *)
Excused(s, P, H, d) ==
    \/ s.rq[d].need_resched
    \/ d \in H.unseen
    \/ \E e \in Cpu : P[e].rq = d /\ PrioL(P[e])
    \/ Lowered(s, P, d)

(* CPU d is throttled, and p waits for the end of the throttle.            *)
Held(s, d, p) == s.rq[d].rt_throttled /\ s.task[p].prio < MAX_RT_PRIO

Behind(s, d, p) == PrioOf(s, s.rq[d].curr) <= s.task[p].prio \/ Held(s, d, p)
Here(s, d, p) == s.task[p].on_rq /\ s.task[p].cpu = d

High(s, P, H, d) ==
    PickL(P[d]) \/ Excused(s, P, H, d)
    \/ \A p \in Task : Here(s, d, p) => Raised(P, d, p) \/ Behind(s, d, p)

Sane(M, H, e) ==
    /\ M \subseteq [task : Task, src : Cpu, dest : Cpu]
    /\ H \in [unseen : SUBSET Cpu, changed : BOOLEAN, waking : SUBSET Task]
    /\ e \in 0 .. MaxEvents

InvOf(s, P, M, H, e) ==
    /\ StateOk(s) /\ Places(P) /\ Unborn(s, P) /\ States(s, P) /\ Wakeups(s, P)
    /\ Affinity(s, M, H) /\ Sane(M, H, e) /\ \A d \in Cpu : High(s, P, H, d)

(* The inductive invariant.                                                *)
SchedInv == InvOf(S, pc, mig, hist, events)
-----------------------------------------------------------------------------

(* A set of numbers that is not empty has a least one.                     *)
LEMMA LeastNatural ==
    ASSUME NEW T \in SUBSET Nat, T # {} PROVE \E n \in T : \A m \in T : n <= m
<1>. DEFINE R == {ss \in Nat \X Nat : ss[1] < ss[2]}
<1>1. IsWellFoundedOn(R, Nat)
  BY NatLessThanWellFounded, Zenon DEF OpToRel
<1>. HIDE DEF R
<1>2. PICK x \in T : \A y \in T : ~(<<y, x>> \in R)
  BY <1>1, WFMin
<1>3. \A y \in T : y \in Nat
  OBVIOUS
<1>4. \A y \in T : <<y, x>> \in R <=> y < x
  BY <1>3 DEF R
<1>5. ASSUME NEW y \in T PROVE x <= y
  <2>1. ~(y < x)
    BY <1>2, <1>4
  <2>2. x \in Nat /\ y \in Nat
    BY <1>3
  <2>. QED
    BY <2>1, <2>2
<1>. QED
  BY <1>5

(* MinOf picks the least.                                                  *)
LEMMA MinOfLeast ==
    ASSUME NEW T \in SUBSET Nat, T # {} PROVE MinOf(T) \in T /\ \A y \in T : MinOf(T) <= y
BY LeastNatural DEF MinOf

(* MaxOf picks the greatest of a bounded set.                              *)
LEMMA MaxOfGreatest ==
    ASSUME NEW b \in Nat, NEW T \in SUBSET (0 .. b), T # {}
    PROVE  MaxOf(T) \in T /\ \A y \in T : MaxOf(T) >= y
<1>1. PICK U : U = {b - x : x \in T}
  OBVIOUS
<1>2. U \in SUBSET Nat /\ U # {}
  <2>1. \A x \in T : x \in 0 .. b /\ b - x \in Nat
    OBVIOUS
  <2>2. \A v \in U : v \in Nat
    BY <1>1, <2>1
  <2>3. PICK x \in T : TRUE
    OBVIOUS
  <2>4. b - x \in U
    BY <1>1, <2>3
  <2>. QED
    BY <2>2, <2>4
<1>3. PICK u \in U : \A v \in U : u <= v
  BY <1>2, LeastNatural
<1>4. PICK x \in T : u = b - x
  BY <1>1, <1>3
<1>5. \A y \in T : b - y \in U /\ y \in Int
  BY <1>1
<1>6. \A y \in T : x >= y
  BY <1>3, <1>4, <1>5
<1>. QED
  BY <1>6 DEF MaxOf

-----------------------------------------------------------------------------
(* Lists.                                                                  *)

(* A list without p has the other members, once each.                      *)
LEMMA WithoutList ==
    ASSUME NEW q \in Seq(Task), NEW p, NoDup(q)
    PROVE  /\ Without(q, p) \in Seq(Task) /\ NoDup(Without(q, p))
           /\ Members(Without(q, p)) = Members(q) \ {p}
<1>1. CASE p \notin Members(q)
  BY <1>1 DEF Without
<1>2. CASE p \in Members(q)
  <2>1. PICK n \in DOMAIN q : n = (CHOOSE i \in DOMAIN q : q[i] = p) /\ q[n] = p
    BY <1>2 DEF Members
  <2>2. PICK w : w = [i \in 1 .. Len(q) - 1 |-> IF i < n THEN q[i] ELSE q[i + 1]]
    OBVIOUS
  <2>3. Without(q, p) = w
    BY <1>2, <2>1, <2>2 DEF Without
  <2>4. /\ DOMAIN q = 1 .. Len(q) /\ Len(q) \in Nat /\ n \in 1 .. Len(q)
        /\ \A i \in 1 .. Len(q) : q[i] \in Task
    BY <2>1
  <2>5. w \in Seq(Task) /\ DOMAIN w = 1 .. Len(q) - 1 /\ Len(w) = Len(q) - 1
    BY <2>2, <2>4
  <2>6. ASSUME NEW i \in DOMAIN w, NEW j \in DOMAIN w, w[i] = w[j] PROVE i = j
    <3>1. CASE i < n /\ j < n
      BY <2>2, <2>4, <2>5, <2>6, <3>1 DEF NoDup
    <3>2. CASE i < n /\ j >= n
      <4>1. w[j] = q[j + 1] /\ w[i] = q[i] /\ j + 1 \in 1 .. Len(q) /\ i \in 1 .. Len(q) /\ i # j + 1
        BY <2>2, <2>4, <2>5, <3>2
      <4>. QED
        BY <2>4, <2>6, <4>1, ZenonT(30) DEF NoDup
    <3>3. CASE i >= n /\ j < n
      <4>1. w[i] = q[i + 1] /\ w[j] = q[j] /\ i + 1 \in 1 .. Len(q) /\ j \in 1 .. Len(q) /\ i + 1 # j
        BY <2>2, <2>4, <2>5, <3>3
      <4>. QED
        BY <2>4, <2>6, <4>1, ZenonT(30) DEF NoDup
    <3>4. CASE i >= n /\ j >= n
      BY <2>2, <2>4, <2>5, <2>6, <3>4 DEF NoDup
    <3>. QED
      BY <2>4, <2>5, <3>1, <3>2, <3>3, <3>4
  <2>7. ASSUME NEW x \in Members(w) PROVE x \in Members(q) \ {p}
    <3>1. PICK i \in 1 .. Len(q) - 1 : x = w[i]
      BY <2>5 DEF Members
    <3>2. CASE i < n
      BY <2>1, <2>2, <2>4, <3>1, <3>2 DEF Members, NoDup
    <3>3. CASE i >= n
      <4>1. i + 1 \in 1 .. Len(q) /\ x = q[i + 1] /\ i + 1 # n
        BY <2>2, <2>4, <3>1, <3>3
      <4>. QED
        BY <2>1, <2>4, <4>1 DEF Members, NoDup
    <3>. QED
      BY <2>4, <3>2, <3>3
  <2>8. ASSUME NEW x \in Members(q) \ {p} PROVE x \in Members(w)
    <3>1. PICK i \in 1 .. Len(q) : x = q[i] /\ i # n
      BY <2>1, <2>4 DEF Members
    <3>2. CASE i < n
      <4>1. i \in 1 .. Len(q) - 1 /\ w[i] = x
        BY <2>2, <2>4, <3>1, <3>2
      <4>. QED
        BY <2>5, <4>1 DEF Members
    <3>3. CASE i > n
      <4>1. i - 1 \in 1 .. Len(q) - 1 /\ w[i - 1] = x
        BY <2>2, <2>4, <3>1, <3>3
      <4>. QED
        BY <2>5, <4>1 DEF Members
    <3>. QED
      BY <2>4, <3>1, <3>2, <3>3
  <2>. QED
    BY <2>3, <2>5, <2>6, <2>7, <2>8 DEF NoDup
<1>. QED
  BY <1>1, <1>2

(* A new member at the tail or the head of a list.                         *)
LEMMA AppendList ==
    ASSUME NEW q \in Seq(Task), NEW p \in Task, NoDup(q), p \notin Members(q)
    PROVE  /\ Append(q, p) \in Seq(Task) /\ NoDup(Append(q, p))
           /\ Members(Append(q, p)) = Members(q) \cup {p}
<1>1. PICK w : w = Append(q, p)
  OBVIOUS
<1>2. /\ w \in Seq(Task) /\ DOMAIN w = 1 .. Len(q) + 1 /\ DOMAIN q = 1 .. Len(q) /\ Len(q) \in Nat
      /\ \A i \in 1 .. Len(q) : w[i] = q[i] /\ i \in DOMAIN w
      /\ w[Len(q) + 1] = p /\ Len(q) + 1 \in DOMAIN w
      /\ \A i \in DOMAIN w : i # Len(q) + 1 => i \in 1 .. Len(q)
  BY <1>1
<1>3. NoDup(w)
  BY <1>2 DEF NoDup, Members
<1>4. Members(w) = Members(q) \cup {p}
  BY <1>2 DEF Members
<1>. QED
  BY <1>1, <1>2, <1>3, <1>4

(* list_add: a task that is put at the head of a list it is not on.        *)
LEMMA PrependList ==
    ASSUME NEW q \in Seq(Task), NEW p \in Task, NoDup(q), p \notin Members(q)
    PROVE  /\ <<p>> \o q \in Seq(Task) /\ NoDup(<<p>> \o q)
           /\ Members(<<p>> \o q) = Members(q) \cup {p}
<1>1. PICK w : w = <<p>> \o q
  OBVIOUS
<1>2. /\ w \in Seq(Task) /\ DOMAIN w = 1 .. Len(q) + 1 /\ DOMAIN q = 1 .. Len(q) /\ Len(q) \in Nat
      /\ \A i \in 1 .. Len(q) : w[i + 1] = q[i] /\ i + 1 \in DOMAIN w
      /\ w[1] = p /\ 1 \in DOMAIN w
      /\ \A i \in DOMAIN w : i # 1 => i - 1 \in 1 .. Len(q) /\ w[i] = q[i - 1]
  BY <1>1
<1>3. NoDup(w)
  <2>. SUFFICES ASSUME NEW i \in DOMAIN w, NEW j \in DOMAIN w, w[i] = w[j] PROVE i = j
    BY DEF NoDup
  <2>1. CASE i = 1 \/ j = 1
    BY <1>2, <2>1 DEF Members
  <2>2. CASE i # 1 /\ j # 1
    <3>1. i - 1 = j - 1
      BY <1>2, <2>2 DEF NoDup
    <3>. QED
      BY <1>2, <3>1
  <2>. QED
    BY <2>1, <2>2
<1>4. Members(w) = Members(q) \cup {p}
  BY <1>2 DEF Members
<1>. QED
  BY <1>1, <1>2, <1>3, <1>4

(* plist_add puts a new member somewhere.                                  *)
LEMMA PlistAdd ==
    ASSUME NEW s, NEW q \in Seq(Task), NEW p \in Task, NoDup(q), p \notin Members(q)
    PROVE  /\ plist_add(s, q, p) \in Seq(Task) /\ NoDup(plist_add(s, q, p))
           /\ Members(plist_add(s, q, p)) = Members(q) \cup {p}
<1>1. Len(q) \in Nat /\ DOMAIN q = 1 .. Len(q)
  OBVIOUS
<1>2. PICK ahead : ahead = {i \in DOMAIN q : PrioOf(s, q[i]) <= PrioOf(s, p)}
  OBVIOUS
<1>3. PICK n : n = IF ahead = {} THEN 0 ELSE MaxOf(ahead)
  OBVIOUS
<1>4. n \in 0 .. Len(q)
  <2>1. ahead \in SUBSET (0 .. Len(q)) /\ \A i \in ahead : i \in 0 .. Len(q)
    BY <1>1, <1>2
  <2>2. ahead # {} => MaxOf(ahead) \in ahead
    BY <1>1, <2>1, MaxOfGreatest
  <2>. QED
    BY <1>1, <1>3, <2>1, <2>2
<1>5. PICK w : w = SubSeq(q, 1, n) \o <<p>> \o SubSeq(q, n + 1, Len(q))
  OBVIOUS
<1>6. plist_add(s, q, p) = w
  BY <1>2, <1>3, <1>5 DEF plist_add
<1>7. PICK a \in Seq(Task) : a = SubSeq(q, 1, n) /\ Len(a) = n /\ \A i \in 1 .. n : a[i] = q[i]
  <2>1. \A i \in 1 .. n : q[i] \in Task
    BY <1>1, <1>4
  <2>2. n \in Int /\ 1 \in Int
    BY <1>4
  <2>3. /\ SubSeq(q, 1, n) \in Seq(Task)
        /\ Len(SubSeq(q, 1, n)) = IF 1 <= n THEN n - 1 + 1 ELSE 0
        /\ \A i \in 1 .. n - 1 + 1 : SubSeq(q, 1, n)[i] = q[1 + i - 1]
    BY <2>1, <2>2, SubSeqProperties
  <2>4. Len(SubSeq(q, 1, n)) = n
    BY <1>4, <2>3
  <2>5. ASSUME NEW i \in 1 .. n PROVE SubSeq(q, 1, n)[i] = q[i]
    <3>1. i \in 1 .. n - 1 + 1 /\ 1 + i - 1 = i
      BY <1>4
    <3>. QED
      BY <2>3, <3>1
  <2>. QED
    BY <2>3, <2>4, <2>5
<1>8. PICK z \in Seq(Task) : /\ z = SubSeq(q, n + 1, Len(q)) /\ Len(z) = Len(q) - n
                             /\ \A i \in 1 .. Len(q) - n : z[i] = q[n + i]
  <2>1. \A i \in n + 1 .. Len(q) : q[i] \in Task
    BY <1>1, <1>4
  <2>2. n + 1 \in Int /\ Len(q) \in Int
    BY <1>1, <1>4
  <2>3. /\ SubSeq(q, n + 1, Len(q)) \in Seq(Task)
        /\ Len(SubSeq(q, n + 1, Len(q))) = IF n + 1 <= Len(q) THEN Len(q) - (n + 1) + 1 ELSE 0
        /\ \A i \in 1 .. Len(q) - (n + 1) + 1 : SubSeq(q, n + 1, Len(q))[i] = q[(n + 1) + i - 1]
    BY <2>1, <2>2, SubSeqProperties
  <2>4. Len(SubSeq(q, n + 1, Len(q))) = Len(q) - n
    <3>1. PICK b \in Nat : b = Len(q)
      BY <1>1, ZenonT(30)
    <3>2. n \in Nat /\ n <= b
      BY <1>4, <3>1
    <3>3. Len(SubSeq(q, n + 1, Len(q))) = IF n + 1 <= b THEN b - (n + 1) + 1 ELSE 0
      BY <2>3, <3>1
    <3>4. CASE n + 1 <= b
      BY <3>1, <3>2, <3>3, <3>4
    <3>5. CASE ~(n + 1 <= b)
      BY <3>1, <3>2, <3>3, <3>5
    <3>. QED
      BY <3>4, <3>5
  <2>5. ASSUME NEW i \in 1 .. Len(q) - n PROVE SubSeq(q, n + 1, Len(q))[i] = q[n + i]
    <3>1. i \in 1 .. Len(q) - (n + 1) + 1 /\ (n + 1) + i - 1 = n + i
      BY <1>1, <1>4
    <3>. QED
      BY <2>3, <3>1
  <2>. QED
    BY <2>3, <2>4, <2>5
<1>9. /\ Len(a) = n /\ \A i \in 1 .. n : a[i] = q[i]
      /\ Len(z) = Len(q) - n /\ \A i \in 1 .. Len(q) - n : z[i] = q[n + i]
  BY <1>7, <1>8
<1>10. w = (a \o <<p>>) \o z /\ w \in Seq(Task) /\ Len(w) = Len(q) + 1
  <2>1. w = (a \o <<p>>) \o z
    BY <1>5, <1>7, <1>8, Zenon
  <2>. QED
    BY <1>1, <1>4, <1>9, <2>1
<1>11. /\ DOMAIN w = 1 .. Len(q) + 1 /\ w[n + 1] = p
       /\ \A i \in 1 .. n : w[i] = q[i]
       /\ \A i \in n + 2 .. Len(q) + 1 : w[i] = q[i - 1]
  <2>1. DOMAIN w = 1 .. Len(q) + 1 /\ w[n + 1] = p
    BY <1>1, <1>4, <1>9, <1>10
  <2>2. \A i \in 1 .. n : w[i] = q[i]
    BY <1>1, <1>4, <1>9, <1>10
  <2>3. ASSUME NEW i \in n + 2 .. Len(q) + 1 PROVE w[i] = q[i - 1]
    <3>1. i - (n + 1) \in 1 .. Len(q) - n /\ w[i] = z[i - (n + 1)]
      BY <1>1, <1>4, <1>9, <1>10
    <3>2. z[i - (n + 1)] = q[n + (i - (n + 1))] /\ n + (i - (n + 1)) = i - 1
      BY <1>1, <1>4, <1>9, <3>1
    <3>. QED
      BY <3>1, <3>2
  <2>. QED
    BY <2>1, <2>2, <2>3
<1>12. /\ \A i \in DOMAIN w : i = n + 1 \/ i \in 1 .. n \/ i \in n + 2 .. Len(q) + 1
       /\ \A i \in n + 2 .. Len(q) + 1 : i - 1 \in DOMAIN q
       /\ \A i \in 1 .. n : i \in DOMAIN q
  BY <1>1, <1>4, <1>11
<1>13. NoDup(w)
  <2>. SUFFICES ASSUME NEW i \in DOMAIN w, NEW j \in DOMAIN w, w[i] = w[j] PROVE i = j
    BY DEF NoDup
  <2>1. CASE i = n + 1 \/ j = n + 1
    BY <1>11, <1>12, <2>1 DEF Members
  <2>2. CASE i # n + 1 /\ j # n + 1
    <3>1. (IF i <= n THEN i ELSE i - 1) = (IF j <= n THEN j ELSE j - 1)
      BY <1>1, <1>4, <1>11, <1>12, <2>2 DEF NoDup
    <3>. QED
      BY <1>1, <1>4, <1>11, <2>2, <3>1
  <2>. QED
    BY <2>1, <2>2
<1>14. Members(w) = Members(q) \cup {p}
  <2>1. \A x \in Members(w) : x \in Members(q) \cup {p}
    BY <1>11, <1>12 DEF Members
  <2>2. \A i \in DOMAIN q : \E j \in DOMAIN w : w[j] = q[i]
    <3>. SUFFICES ASSUME NEW i \in DOMAIN q PROVE \E j \in DOMAIN w : w[j] = q[i]
      OBVIOUS
    <3>1. CASE i <= n
      BY <1>1, <1>4, <1>11, <3>1
    <3>2. CASE i > n
      <4>1. i + 1 \in n + 2 .. Len(q) + 1 /\ i + 1 \in DOMAIN w /\ (i + 1) - 1 = i
        BY <1>1, <1>4, <1>11, <3>2
      <4>. QED
        BY <1>11, <4>1
    <3>. QED
      BY <1>1, <1>4, <3>1, <3>2
  <2>3. n + 1 \in DOMAIN w
    BY <1>1, <1>4, <1>11
  <2>4. \A x \in Members(q) \cup {p} : x \in Members(w)
    BY <1>11, <2>2, <2>3 DEF Members
  <2>. QED
    BY <2>1, <2>4
<1>. QED
  BY <1>6, <1>10, <1>13, <1>14

-----------------------------------------------------------------------------
(* The operators of RtRunQueue on one run queue.                           *)

(* Only run queue c, its cpupri and its bit of rto_mask differ in s and t, *)
(* and on it only what the real-time class keeps.                          *)
Only(s, t, c) ==
    /\ t \in StateT /\ t.task = s.task
    /\ \A d \in Cpu \ {c} : /\ t.rq[d] = s.rq[d] /\ t.cpupri[d] = s.cpupri[d]
                            /\ d \in t.rto_mask <=> d \in s.rto_mask
    /\ t.rq[c].curr = s.rq[c].curr /\ t.rq[c].need_resched = s.rq[c].need_resched
    /\ t.rq[c].stop = s.rq[c].stop /\ t.rq[c].post_schedule = s.rq[c].post_schedule
    /\ t.rq[c].wake_list = s.rq[c].wake_list
    /\ t.rq[c].ipi = s.rq[c].ipi /\ t.rq[c].rt_throttled = s.rq[c].rt_throttled

SameLists(s, t, c) == t.rq[c].queue = s.rq[c].queue /\ t.rq[c].bitmap = s.rq[c].bitmap

SamePushable(s, t, c) == t.rq[c].pushable = s.rq[c].pushable

SameCounts(s, t, c) ==
    /\ t.rq[c].rt_nr_running = s.rq[c].rt_nr_running
    /\ t.rq[c].rt_nr_migratory = s.rq[c].rt_nr_migratory

SameHighest(s, t, c) == t.rq[c].hp_curr = s.rq[c].hp_curr /\ t.cpupri[c] = s.cpupri[c]

SameOverload(s, t, c) ==
    t.rq[c].overloaded = s.rq[c].overloaded /\ (c \in t.rto_mask <=> c \in s.rto_mask)

(* Components of a scheduler state.                                        *)
LEMMA StateParts ==
    ASSUME NEW s \in StateT
    PROVE  /\ \A p \in Task : s.task[p] \in TaskT
           /\ \A c \in Cpu : s.rq[c] \in RqT /\ s.cpupri[c] \in 0 .. MAX_RT_PRIO
           /\ s.rto_mask \subseteq Cpu
BY DEF StateT

(* The types of the fields of a run queue.                                 *)
LEMMA RqParts ==
    ASSUME NEW r \in RqT
    PROVE  /\ r.queue \in [RtPrio -> Seq(Task)] /\ r.bitmap \subseteq RtPrio
           /\ r.rt_nr_running \in Int /\ r.rt_nr_migratory \in Int /\ r.overloaded \in BOOLEAN
           /\ r.hp_curr \in 0 .. MAX_RT_PRIO /\ r.hp_next \in 0 .. MAX_RT_PRIO
           /\ r.pushable \in Seq(Task) /\ r.curr \in Task \cup {Idle, Stopper}
           /\ r.need_resched \in BOOLEAN /\ r.stop \in BOOLEAN /\ r.post_schedule \in BOOLEAN
           /\ r.wake_list \in Seq(Task) /\ r.ipi \in BOOLEAN /\ r.rt_throttled \in BOOLEAN
BY DEF RqT

(* The types of the fields of a task.                                      *)
LEMMA TaskParts ==
    ASSUME NEW t \in TaskT
    PROVE  /\ t.prio \in 0 .. MAX_RT_PRIO /\ t.normal_prio \in 0 .. MAX_RT_PRIO
           /\ t.boost \in 0 .. MAX_PRIO
           /\ t.cpu \in Cpu /\ t.on_rq \in BOOLEAN /\ t.on_cpu \in BOOLEAN
           /\ t.allowed \subseteq Cpu /\ t.allowed # {}
           /\ t.state \in {"unborn", "sleep", "waking", "running"}
           /\ t.policy \in Policy /\ t.time_slice \in 1 .. DEF_TIMESLICE
BY DEF TaskT

(* Changes of single fields of a run queue.                                *)
PutRunning(s, c, n) == [s EXCEPT !.rq[c].rt_nr_running = n]

(* rt_nr_running alone is set.                                             *)
LEMMA SetRunning ==
    ASSUME NEW s \in StateT, NEW c \in Cpu, NEW n \in Int, NEW t
    PROVE  t = PutRunning(s, c, n) =>
           /\ Only(s, t, c) /\ SameLists(s, t, c) /\ SamePushable(s, t, c) /\ SameHighest(s, t, c) /\ SameOverload(s, t, c)
           /\ t.rq[c].rt_nr_running = n /\ t.rq[c].rt_nr_migratory = s.rq[c].rt_nr_migratory
<1>0. SUFFICES ASSUME t = PutRunning(s, c, n)
      PROVE  /\ Only(s, t, c) /\ SameLists(s, t, c) /\ SamePushable(s, t, c) /\ SameHighest(s, t, c) /\ SameOverload(s, t, c)
           /\ t.rq[c].rt_nr_running = n /\ t.rq[c].rt_nr_migratory = s.rq[c].rt_nr_migratory
  OBVIOUS
<1>1. s.rq[c] \in RqT
  BY StateParts
<1>2. [s.rq[c] EXCEPT !.rt_nr_running = n] \in RqT
  BY <1>1 DEF RqT
<1>3. t \in StateT
  BY <1>0, <1>2 DEF StateT, PutRunning
<1>4. PICK r \in RqT : r = [s.rq[c] EXCEPT !.rt_nr_running = n]
  BY <1>2
<1>5. /\ t.task = s.task /\ t.rq[c] = r /\ \A d \in Cpu \ {c} : t.rq[d] = s.rq[d]
      /\ t.cpupri = s.cpupri /\ t.rto_mask = s.rto_mask
  BY <1>0, <1>4 DEF StateT, PutRunning
<1>6. s.cpupri \in [Cpu -> 0 .. MAX_RT_PRIO] /\ s.rto_mask \subseteq Cpu
  BY DEF StateT
<1>. QED
  BY <1>1, <1>3, <1>4, <1>5, <1>6 DEF Only, SameLists, SamePushable, SameHighest, SameOverload, RqT

PutMigratory(s, c, n) == [s EXCEPT !.rq[c].rt_nr_migratory = n]

(* rt_nr_migratory alone is set.                                           *)
LEMMA SetMigratory ==
    ASSUME NEW s \in StateT, NEW c \in Cpu, NEW n \in Int, NEW t
    PROVE  t = PutMigratory(s, c, n) =>
           /\ Only(s, t, c) /\ SameLists(s, t, c) /\ SamePushable(s, t, c) /\ SameHighest(s, t, c) /\ SameOverload(s, t, c)
           /\ t.rq[c].rt_nr_migratory = n /\ t.rq[c].rt_nr_running = s.rq[c].rt_nr_running
<1>0. SUFFICES ASSUME t = PutMigratory(s, c, n)
      PROVE  /\ Only(s, t, c) /\ SameLists(s, t, c) /\ SamePushable(s, t, c) /\ SameHighest(s, t, c) /\ SameOverload(s, t, c)
           /\ t.rq[c].rt_nr_migratory = n /\ t.rq[c].rt_nr_running = s.rq[c].rt_nr_running
  OBVIOUS
<1>1. s.rq[c] \in RqT
  BY StateParts
<1>2. [s.rq[c] EXCEPT !.rt_nr_migratory = n] \in RqT
  BY <1>1 DEF RqT
<1>3. t \in StateT
  BY <1>0, <1>2 DEF StateT, PutMigratory
<1>4. PICK r \in RqT : r = [s.rq[c] EXCEPT !.rt_nr_migratory = n]
  BY <1>2
<1>5. /\ t.task = s.task /\ t.rq[c] = r /\ \A d \in Cpu \ {c} : t.rq[d] = s.rq[d]
      /\ t.cpupri = s.cpupri /\ t.rto_mask = s.rto_mask
  BY <1>0, <1>4 DEF StateT, PutMigratory
<1>6. s.cpupri \in [Cpu -> 0 .. MAX_RT_PRIO] /\ s.rto_mask \subseteq Cpu
  BY DEF StateT
<1>. QED
  BY <1>1, <1>3, <1>4, <1>5, <1>6 DEF Only, SameLists, SamePushable, SameHighest, SameOverload, RqT

PutBoth(s, c, v, w) == [s EXCEPT !.rq[c].hp_curr = v, !.rq[c].hp_next = w, !.cpupri[c] = v]

(* The highest priority and its copy in cpupri are set.                    *)
LEMMA SetBoth ==
    ASSUME NEW s \in StateT, NEW c \in Cpu, NEW v \in 0 .. MAX_RT_PRIO, NEW w \in 0 .. MAX_RT_PRIO, NEW t
    PROVE  t = PutBoth(s, c, v, w) =>
           /\ Only(s, t, c) /\ SameLists(s, t, c) /\ SamePushable(s, t, c) /\ SameCounts(s, t, c) /\ SameOverload(s, t, c)
           /\ t.rq[c].hp_curr = v /\ t.cpupri[c] = v
<1>0. SUFFICES ASSUME t = PutBoth(s, c, v, w)
      PROVE  /\ Only(s, t, c) /\ SameLists(s, t, c) /\ SamePushable(s, t, c) /\ SameCounts(s, t, c) /\ SameOverload(s, t, c)
           /\ t.rq[c].hp_curr = v /\ t.cpupri[c] = v
  OBVIOUS
<1>1. s.rq[c] \in RqT
  BY StateParts
<1>2. [s.rq[c] EXCEPT !.hp_curr = v, !.hp_next = w] \in RqT
  BY <1>1 DEF RqT
<1>3. t \in StateT
  BY <1>0, <1>2 DEF StateT, PutBoth
<1>4. PICK r \in RqT : r = [s.rq[c] EXCEPT !.hp_curr = v, !.hp_next = w]
  BY <1>2
<1>5. /\ t.task = s.task /\ t.rq[c] = r /\ \A d \in Cpu \ {c} : t.rq[d] = s.rq[d]
      /\ t.cpupri = [s.cpupri EXCEPT ![c] = v] /\ t.rto_mask = s.rto_mask
  BY <1>0, <1>4 DEF StateT, PutBoth
<1>6. s.cpupri \in [Cpu -> 0 .. MAX_RT_PRIO] /\ s.rto_mask \subseteq Cpu
  BY DEF StateT
<1>. QED
  BY <1>1, <1>3, <1>4, <1>5, <1>6 DEF Only, SameLists, SamePushable, SameCounts, SameOverload, RqT

PutNext(s, c, w) == [s EXCEPT !.rq[c].hp_next = w]

(* highest_prio.next alone is set.                                         *)
LEMMA SetNext ==
    ASSUME NEW s \in StateT, NEW c \in Cpu, NEW w \in 0 .. MAX_RT_PRIO, NEW t
    PROVE  t = PutNext(s, c, w) =>
           /\ Only(s, t, c) /\ SameLists(s, t, c) /\ SamePushable(s, t, c)
           /\ SameCounts(s, t, c) /\ SameHighest(s, t, c) /\ SameOverload(s, t, c)
<1>0. SUFFICES ASSUME t = PutNext(s, c, w)
      PROVE  /\ Only(s, t, c) /\ SameLists(s, t, c) /\ SamePushable(s, t, c)
           /\ SameCounts(s, t, c) /\ SameHighest(s, t, c) /\ SameOverload(s, t, c)
  OBVIOUS
<1>1. s.rq[c] \in RqT
  BY StateParts
<1>2. [s.rq[c] EXCEPT !.hp_next = w] \in RqT
  BY <1>1 DEF RqT
<1>3. t \in StateT
  BY <1>0, <1>2 DEF StateT, PutNext
<1>4. PICK r \in RqT : r = [s.rq[c] EXCEPT !.hp_next = w]
  BY <1>2
<1>5. /\ t.task = s.task /\ t.rq[c] = r /\ \A d \in Cpu \ {c} : t.rq[d] = s.rq[d]
      /\ t.cpupri = s.cpupri /\ t.rto_mask = s.rto_mask
  BY <1>0, <1>4 DEF StateT, PutNext
<1>6. s.cpupri \in [Cpu -> 0 .. MAX_RT_PRIO] /\ s.rto_mask \subseteq Cpu
  BY DEF StateT
<1>. QED
  BY <1>1, <1>3, <1>4, <1>5, <1>6 DEF Only, SameLists, SamePushable, SameCounts, SameHighest, SameOverload, RqT

PutCurr(s, c, v) == [s EXCEPT !.rq[c].hp_curr = v]

(* highest_prio.curr alone is set, before cpupri hears of it.              *)
LEMMA SetCurr ==
    ASSUME NEW s \in StateT, NEW c \in Cpu, NEW v \in 0 .. MAX_RT_PRIO, NEW t
    PROVE  t = PutCurr(s, c, v) =>
           /\ Only(s, t, c) /\ SameLists(s, t, c) /\ SamePushable(s, t, c) /\ SameCounts(s, t, c) /\ SameOverload(s, t, c)
           /\ t.rq[c].hp_curr = v /\ t.cpupri = s.cpupri
<1>0. SUFFICES ASSUME t = PutCurr(s, c, v)
      PROVE  /\ Only(s, t, c) /\ SameLists(s, t, c) /\ SamePushable(s, t, c) /\ SameCounts(s, t, c) /\ SameOverload(s, t, c)
           /\ t.rq[c].hp_curr = v /\ t.cpupri = s.cpupri
  OBVIOUS
<1>1. s.rq[c] \in RqT
  BY StateParts
<1>2. [s.rq[c] EXCEPT !.hp_curr = v] \in RqT
  BY <1>1 DEF RqT
<1>3. t \in StateT
  BY <1>0, <1>2 DEF StateT, PutCurr
<1>4. PICK r \in RqT : r = [s.rq[c] EXCEPT !.hp_curr = v]
  BY <1>2
<1>5. /\ t.task = s.task /\ t.rq[c] = r /\ \A d \in Cpu \ {c} : t.rq[d] = s.rq[d]
      /\ t.cpupri = s.cpupri /\ t.rto_mask = s.rto_mask
  BY <1>0, <1>4 DEF StateT, PutCurr
<1>6. s.cpupri \in [Cpu -> 0 .. MAX_RT_PRIO] /\ s.rto_mask \subseteq Cpu
  BY DEF StateT
<1>. QED
  BY <1>1, <1>3, <1>4, <1>5, <1>6 DEF Only, SameLists, SamePushable, SameCounts, SameOverload, RqT

PutOverload(s, c, v, m) == [s EXCEPT !.rq[c].overloaded = v, !.rto_mask = m]

(* rt_set_overload and rt_clear_overload: the flag and the bit of the      *)
(* mask.                                                                   *)
LEMMA SetOverload ==
    ASSUME NEW s \in StateT, NEW c \in Cpu, NEW v \in BOOLEAN, NEW m \in SUBSET Cpu, \A d \in Cpu \ {c} : d \in m <=> d \in s.rto_mask, NEW t
    PROVE  t = PutOverload(s, c, v, m) =>
           /\ Only(s, t, c) /\ SameLists(s, t, c) /\ SamePushable(s, t, c) /\ SameCounts(s, t, c) /\ SameHighest(s, t, c)
           /\ t.rq[c].overloaded = v /\ t.rto_mask = m
<1>0. SUFFICES ASSUME t = PutOverload(s, c, v, m)
      PROVE  /\ Only(s, t, c) /\ SameLists(s, t, c) /\ SamePushable(s, t, c) /\ SameCounts(s, t, c) /\ SameHighest(s, t, c)
           /\ t.rq[c].overloaded = v /\ t.rto_mask = m
  OBVIOUS
<1>1. s.rq[c] \in RqT
  BY StateParts
<1>2. [s.rq[c] EXCEPT !.overloaded = v] \in RqT
  BY <1>1 DEF RqT
<1>3. t \in StateT
  BY <1>0, <1>2 DEF StateT, PutOverload
<1>4. PICK r \in RqT : r = [s.rq[c] EXCEPT !.overloaded = v]
  BY <1>2
<1>5. /\ t.task = s.task /\ t.rq[c] = r /\ \A d \in Cpu \ {c} : t.rq[d] = s.rq[d]
      /\ t.cpupri = s.cpupri /\ t.rto_mask = m
  BY <1>0, <1>4 DEF StateT, PutOverload
<1>6. s.cpupri \in [Cpu -> 0 .. MAX_RT_PRIO] /\ s.rto_mask \subseteq Cpu
  BY DEF StateT
<1>. QED
  BY <1>1, <1>3, <1>4, <1>5, <1>6 DEF Only, SameLists, SamePushable, SameCounts, SameHighest, RqT

PutPushable(s, c, q) == [s EXCEPT !.rq[c].pushable = q]

(* The list of pushable tasks alone is set.                                *)
LEMMA SetPushable ==
    ASSUME NEW s \in StateT, NEW c \in Cpu, NEW q \in Seq(Task), NEW t
    PROVE  t = PutPushable(s, c, q) =>
           /\ Only(s, t, c) /\ SameLists(s, t, c) /\ SameCounts(s, t, c) /\ SameHighest(s, t, c) /\ SameOverload(s, t, c)
           /\ t.rq[c].pushable = q /\ t.cpupri = s.cpupri /\ t.rto_mask = s.rto_mask
<1>0. SUFFICES ASSUME t = PutPushable(s, c, q)
      PROVE  /\ Only(s, t, c) /\ SameLists(s, t, c) /\ SameCounts(s, t, c) /\ SameHighest(s, t, c) /\ SameOverload(s, t, c)
           /\ t.rq[c].pushable = q /\ t.cpupri = s.cpupri /\ t.rto_mask = s.rto_mask
  OBVIOUS
<1>1. s.rq[c] \in RqT
  BY StateParts
<1>2. [s.rq[c] EXCEPT !.pushable = q] \in RqT
  BY <1>1 DEF RqT
<1>3. t \in StateT
  BY <1>0, <1>2 DEF StateT, PutPushable
<1>4. PICK r \in RqT : r = [s.rq[c] EXCEPT !.pushable = q]
  BY <1>2
<1>5. /\ t.task = s.task /\ t.rq[c] = r /\ \A d \in Cpu \ {c} : t.rq[d] = s.rq[d]
      /\ t.cpupri = s.cpupri /\ t.rto_mask = s.rto_mask
  BY <1>0, <1>4 DEF StateT, PutPushable
<1>6. s.cpupri \in [Cpu -> 0 .. MAX_RT_PRIO] /\ s.rto_mask \subseteq Cpu
  BY DEF StateT
<1>. QED
  BY <1>1, <1>3, <1>4, <1>5, <1>6 DEF Only, SameLists, SameCounts, SameHighest, SameOverload, RqT

PutQueue(s, c, i, q, b) == [s EXCEPT !.rq[c].queue[i] = q, !.rq[c].bitmap = b]

(* One list and the bitmap are set.                                        *)
LEMMA SetQueue ==
    ASSUME NEW s \in StateT, NEW c \in Cpu, NEW i \in RtPrio, NEW q \in Seq(Task), NEW b \in SUBSET RtPrio, NEW t
    PROVE  t = PutQueue(s, c, i, q, b) =>
           /\ Only(s, t, c) /\ SamePushable(s, t, c) /\ SameCounts(s, t, c) /\ SameHighest(s, t, c) /\ SameOverload(s, t, c)
           /\ t.rq[c].queue = [s.rq[c].queue EXCEPT ![i] = q] /\ t.rq[c].bitmap = b
<1>0. SUFFICES ASSUME t = PutQueue(s, c, i, q, b)
      PROVE  /\ Only(s, t, c) /\ SamePushable(s, t, c) /\ SameCounts(s, t, c) /\ SameHighest(s, t, c) /\ SameOverload(s, t, c)
           /\ t.rq[c].queue = [s.rq[c].queue EXCEPT ![i] = q] /\ t.rq[c].bitmap = b
  OBVIOUS
<1>1. s.rq[c] \in RqT
  BY StateParts
<1>2. [s.rq[c] EXCEPT !.queue[i] = q, !.bitmap = b] \in RqT
  BY <1>1 DEF RqT
<1>3. t \in StateT
  BY <1>0, <1>2 DEF StateT, PutQueue
<1>4. PICK r \in RqT : r = [s.rq[c] EXCEPT !.queue[i] = q, !.bitmap = b]
  BY <1>2
<1>5. /\ t.task = s.task /\ t.rq[c] = r /\ \A d \in Cpu \ {c} : t.rq[d] = s.rq[d]
      /\ t.cpupri = s.cpupri /\ t.rto_mask = s.rto_mask
  BY <1>0, <1>4 DEF StateT, PutQueue
<1>6. s.cpupri \in [Cpu -> 0 .. MAX_RT_PRIO] /\ s.rto_mask \subseteq Cpu
  BY DEF StateT
<1>. QED
  BY <1>1, <1>3, <1>4, <1>5, <1>6 DEF Only, SamePushable, SameCounts, SameHighest, SameOverload, RqT

PutQueueOnly(s, c, i, q) == [s EXCEPT !.rq[c].queue[i] = q]

(* One list is set, and the bitmap stays.                                  *)
LEMMA SetQueueOnly ==
    ASSUME NEW s \in StateT, NEW c \in Cpu, NEW i \in RtPrio, NEW q \in Seq(Task), NEW t
    PROVE  t = PutQueueOnly(s, c, i, q) =>
           /\ Only(s, t, c) /\ SamePushable(s, t, c) /\ SameCounts(s, t, c) /\ SameHighest(s, t, c) /\ SameOverload(s, t, c)
           /\ t.rq[c].queue = [s.rq[c].queue EXCEPT ![i] = q] /\ t.rq[c].bitmap = s.rq[c].bitmap
<1>0. SUFFICES ASSUME t = PutQueueOnly(s, c, i, q)
      PROVE  /\ Only(s, t, c) /\ SamePushable(s, t, c) /\ SameCounts(s, t, c) /\ SameHighest(s, t, c) /\ SameOverload(s, t, c)
           /\ t.rq[c].queue = [s.rq[c].queue EXCEPT ![i] = q] /\ t.rq[c].bitmap = s.rq[c].bitmap
  OBVIOUS
<1>1. s.rq[c] \in RqT
  BY StateParts
<1>2. [s.rq[c] EXCEPT !.queue[i] = q] \in RqT
  BY <1>1 DEF RqT
<1>3. t \in StateT
  BY <1>0, <1>2 DEF StateT, PutQueueOnly
<1>4. PICK r \in RqT : r = [s.rq[c] EXCEPT !.queue[i] = q]
  BY <1>2
<1>5. /\ t.task = s.task /\ t.rq[c] = r /\ \A d \in Cpu \ {c} : t.rq[d] = s.rq[d]
      /\ t.cpupri = s.cpupri /\ t.rto_mask = s.rto_mask
  BY <1>0, <1>4 DEF StateT, PutQueueOnly
<1>6. s.cpupri \in [Cpu -> 0 .. MAX_RT_PRIO] /\ s.rto_mask \subseteq Cpu
  BY DEF StateT
<1>. QED
  BY <1>1, <1>3, <1>4, <1>5, <1>6 DEF Only, SamePushable, SameCounts, SameHighest, SameOverload, RqT

-----------------------------------------------------------------------------
(* update_rt_migration brings the overload flag and the mask up to date.   *)
LEMMA UpdateMigration ==
    ASSUME NEW s \in StateT, NEW c \in Cpu, s.rq[c].overloaded <=> c \in s.rto_mask,
           NEW t, t = update_rt_migration(s, c)
    PROVE  /\ Only(s, t, c) /\ SameLists(s, t, c) /\ SamePushable(s, t, c) /\ SameCounts(s, t, c)
           /\ SameHighest(s, t, c) /\ Overload(t, c)
<1>1. PICK over \in BOOLEAN : over = (s.rq[c].rt_nr_migratory > 0 /\ s.rq[c].rt_nr_running > 1)
  OBVIOUS
<1>2. s.rq[c].overloaded \in BOOLEAN /\ s.rto_mask \subseteq Cpu
  BY StateParts, RqParts
<1>3. CASE over = s.rq[c].overloaded
  <2>1. t = s
    BY <1>1, <1>3 DEF update_rt_migration
  <2>. QED
    BY <1>1, <1>3, <2>1 DEF Only, SameLists, SamePushable, SameCounts, SameHighest, Overload
<1>4. CASE over # s.rq[c].overloaded
  <2>1. PICK m \in SUBSET Cpu : m = IF over THEN s.rto_mask \cup {c} ELSE s.rto_mask \ {c}
    BY <1>2
  <2>2. t = PutOverload(s, c, over, m)
    BY <1>1, <1>4, <2>1 DEF update_rt_migration, PutOverload
  <2>3. \A d \in Cpu \ {c} : d \in m <=> d \in s.rto_mask
    BY <2>1
  <2>4. /\ Only(s, t, c) /\ SameLists(s, t, c) /\ SamePushable(s, t, c) /\ SameCounts(s, t, c)
        /\ SameHighest(s, t, c) /\ t.rq[c].overloaded = over /\ t.rto_mask = m
    BY <2>2, <2>3, SetOverload
  <2>5. Overload(t, c)
    <3>1. over <=> c \in m
      BY <1>2, <2>1
    <3>2. over <=> (t.rq[c].rt_nr_migratory > 0 /\ t.rq[c].rt_nr_running > 1)
      BY <1>1, <2>4 DEF SameCounts
    <3>. QED
      BY <2>4, <3>1, <3>2 DEF Overload
  <2>. QED
    BY <2>4, <2>5
<1>. QED
  BY <1>3, <1>4

(* What pick_next_highest_task_rt finds is on one of the lists.            *)
LEMMA PickHighest ==
    ASSUME NEW s \in StateT, NEW c \in Cpu, NEW cpu,
           NEW p, p = pick_next_highest_task_rt(s, c, cpu), p # NoTask
    PROVE  /\ p \in Task /\ \E i \in RtPrio : p \in Members(s.rq[c].queue[i])
           /\ pick_rt_task(s, p, cpu)
<1>1. PICK queue : queue = s.rq[c].queue
  OBVIOUS
<1>2. queue \in [RtPrio -> Seq(Task)] /\ s.rq[c].bitmap \subseteq RtPrio
  BY <1>1, StateParts, RqParts
<1>. DEFINE open(i) == {n \in DOMAIN queue[i] : pick_rt_task(s, queue[i][n], cpu)}
            levels == {i \in s.rq[c].bitmap : open(i) # {}}
            high == MinOf(levels)
<1>3. levels # {} /\ p = queue[high][MinOf(open(high))]
  BY <1>1, ZenonT(30) DEF pick_next_highest_task_rt
<1>4. levels \in SUBSET Nat
  BY <1>2, RtRunQueueAssumption DEF RtPrio
<1>. HIDE DEF levels
<1>5. high \in levels
  BY <1>3, <1>4, MinOfLeast
<1>. USE DEF levels
<1>6. high \in RtPrio /\ open(high) # {}
  BY <1>2, <1>5
<1>. HIDE DEF high, levels
<1>7. open(high) \in SUBSET Nat
  <2>1. queue[high] \in Seq(Task)
    BY <1>2, <1>6
  <2>. QED
    BY <2>1
<1>8. PICK n : n = MinOf(open(high))
  OBVIOUS
<1>9. n \in open(high)
  <2>. HIDE DEF open
  <2>. QED
    BY <1>6, <1>7, <1>8, MinOfLeast
<1>10. n \in DOMAIN queue[high] /\ p = queue[high][n] /\ pick_rt_task(s, p, cpu)
  BY <1>3, <1>8, <1>9
<1>11. p \in Task
  <2>1. queue[high] \in Seq(Task)
    BY <1>2, <1>6
  <2>. QED
    BY <1>10, <2>1
<1>. QED
  BY <1>1, <1>6, <1>10, <1>11 DEF Members

(* next_prio is a priority, or MAX_RT_PRIO.                                *)
LEMMA NextPrio ==
    ASSUME NEW s \in StateT, NEW c \in Cpu PROVE next_prio(s, c) \in 0 .. MAX_RT_PRIO
<1>1. PICK p : p = pick_next_highest_task_rt(s, c, c)
  OBVIOUS
<1>2. CASE p = NoTask
  BY <1>1, <1>2, RtRunQueueAssumption DEF next_prio
<1>3. CASE p # NoTask
  <2>1. p \in Task
    BY <1>1, <1>3, PickHighest
  <2>2. s.task[p].prio \in 0 .. MAX_RT_PRIO
    BY <2>1, StateParts, TaskParts
  <2>. QED
    BY <1>1, <1>3, <2>2 DEF next_prio
<1>. QED
  BY <1>2, <1>3

(* inc_rt_prio: the highest priority is the lesser of the old one and the  *)
(* new task's, and cpupri is told.                                         *)
LEMMA IncPrio ==
    ASSUME NEW s \in StateT, NEW c \in Cpu, s.cpupri[c] = s.rq[c].hp_curr, NEW prio \in RtPrio,
           NEW t, t = inc_rt_prio(s, c, prio)
    PROVE  /\ Only(s, t, c) /\ SameLists(s, t, c) /\ SamePushable(s, t, c) /\ SameCounts(s, t, c)
           /\ SameOverload(s, t, c) /\ t.cpupri[c] = t.rq[c].hp_curr
           /\ t.rq[c].hp_curr = IF prio < s.rq[c].hp_curr THEN prio ELSE s.rq[c].hp_curr
<1>1. /\ s.rq[c].hp_curr \in 0 .. MAX_RT_PRIO /\ s.rq[c].hp_next \in 0 .. MAX_RT_PRIO
      /\ prio \in 0 .. MAX_RT_PRIO /\ next_prio(s, c) \in 0 .. MAX_RT_PRIO
  BY StateParts, RqParts, NextPrio, RtRunQueueAssumption DEF RtPrio
<1>2. PICK h, n : h = s.rq[c].hp_curr /\ n = s.rq[c].hp_next /\ h \in 0 .. MAX_RT_PRIO /\ n \in 0 .. MAX_RT_PRIO
  BY <1>1
<1>3. CASE prio < h
  <2>1. t = PutBoth(s, c, prio, h)
    BY <1>1, <1>2, <1>3 DEF inc_rt_prio, PutBoth
  <2>2. /\ Only(s, t, c) /\ SameLists(s, t, c) /\ SamePushable(s, t, c) /\ SameCounts(s, t, c)
        /\ SameOverload(s, t, c) /\ t.rq[c].hp_curr = prio /\ t.cpupri[c] = prio
    BY <1>1, <1>2, <2>1, SetBoth
  <2>. QED
    BY <1>2, <1>3, <2>2
<1>4. CASE ~(prio < h) /\ (prio = h \/ (prio > h /\ prio < n))
  <2>1. PICK w \in 0 .. MAX_RT_PRIO : t = PutNext(s, c, w)
    BY <1>1, <1>2, <1>4 DEF inc_rt_prio, PutNext
  <2>2. /\ Only(s, t, c) /\ SameLists(s, t, c) /\ SamePushable(s, t, c) /\ SameCounts(s, t, c)
        /\ SameHighest(s, t, c) /\ SameOverload(s, t, c)
    BY <2>1, SetNext
  <2>. QED
    BY <1>2, <1>4, <2>2 DEF SameHighest
<1>5. CASE ~(prio < h) /\ prio # h /\ ~(prio > h /\ prio < n)
  <2>1. t = s
    BY <1>1, <1>2, <1>5 DEF inc_rt_prio
  <2>. QED
    BY <1>2, <1>5, <2>1 DEF Only, SameLists, SamePushable, SameCounts, SameOverload
<1>. QED
  BY <1>3, <1>4, <1>5

(* cpupri_set: what is reported of one CPU.                                *)
LEMMA SetCpupri ==
    ASSUME NEW s \in StateT, NEW c \in Cpu, NEW v \in 0 .. MAX_RT_PRIO, NEW t
    PROVE  t = [s EXCEPT !.cpupri[c] = v] =>
           /\ Only(s, t, c) /\ t.rq = s.rq /\ t.cpupri[c] = v /\ t.rto_mask = s.rto_mask
<1>0. SUFFICES ASSUME t = [s EXCEPT !.cpupri[c] = v]
      PROVE /\ Only(s, t, c) /\ t.rq = s.rq /\ t.cpupri[c] = v /\ t.rto_mask = s.rto_mask
  OBVIOUS
<1>1. /\ t \in StateT /\ t.task = s.task /\ t.rq = s.rq /\ t.cpupri[c] = v /\ t.rto_mask = s.rto_mask
      /\ \A d \in Cpu \ {c} : t.cpupri[d] = s.cpupri[d]
  BY <1>0 DEF StateT
<1>. QED
  BY <1>1 DEF Only

(* sched_find_first_bit finds the least priority of the bitmap.            *)
LEMMA FirstBit ==
    ASSUME NEW b \in SUBSET RtPrio
    PROVE  /\ sched_find_first_bit(b) \in 0 .. MAX_RT_PRIO
           /\ b # {} => sched_find_first_bit(b) \in b
           /\ \A i \in b : sched_find_first_bit(b) <= i
<1>1. \A i \in RtPrio : i \in Nat /\ i \in 0 .. MAX_RT_PRIO /\ i < MAX_RT_PRIO
  BY RtRunQueueAssumption DEF RtPrio
<1>2. CASE b = {}
  BY <1>2, RtRunQueueAssumption DEF sched_find_first_bit
<1>3. CASE b # {}
  <2>1. b \in SUBSET Nat
    BY <1>1
  <2>2. MinOf(b) \in b /\ \A i \in b : MinOf(b) <= i
    BY <1>3, <2>1, MinOfLeast
  <2>. QED
    BY <1>1, <1>3, <2>2 DEF sched_find_first_bit
<1>. QED
  BY <1>2, <1>3

(* dec_rt_prio: the highest priority that is left, and cpupri is told.     *)
LEMMA DecPrio ==
    ASSUME NEW s \in StateT, NEW c \in Cpu, s.cpupri[c] = s.rq[c].hp_curr, NEW prio \in RtPrio,
           s.rq[c].rt_nr_running \in Nat, NEW t, t = dec_rt_prio(s, c, prio)
    PROVE  /\ Only(s, t, c) /\ SameLists(s, t, c) /\ SamePushable(s, t, c) /\ SameCounts(s, t, c)
           /\ SameOverload(s, t, c) /\ t.cpupri[c] = t.rq[c].hp_curr
           /\ t.rq[c].hp_curr = IF s.rq[c].rt_nr_running = 0 THEN MAX_RT_PRIO
                                ELSE IF prio = s.rq[c].hp_curr
                                     THEN sched_find_first_bit(s.rq[c].bitmap)
                                     ELSE s.rq[c].hp_curr
<1>1. PICK prev \in 0 .. MAX_RT_PRIO : prev = s.rq[c].hp_curr
  BY StateParts, RqParts
<1>2. sched_find_first_bit(s.rq[c].bitmap) \in 0 .. MAX_RT_PRIO /\ MAX_RT_PRIO \in 0 .. MAX_RT_PRIO
  BY FirstBit, StateParts, RqParts, RtRunQueueAssumption
<1>3. PICK high : high = CASE s.rq[c].rt_nr_running = 0 -> MAX_RT_PRIO
                           [] s.rq[c].rt_nr_running > 0 /\ prio = prev ->
                                 sched_find_first_bit(s.rq[c].bitmap)
                           [] OTHER -> prev
  OBVIOUS
<1>4. /\ high \in 0 .. MAX_RT_PRIO
      /\ high = IF s.rq[c].rt_nr_running = 0 THEN MAX_RT_PRIO
                ELSE IF prio = prev THEN sched_find_first_bit(s.rq[c].bitmap) ELSE prev
  BY <1>2, <1>3
<1>5. PICK s1 : s1 = PutCurr(s, c, high)
  OBVIOUS
<1>6. /\ Only(s, s1, c) /\ SameLists(s, s1, c) /\ SamePushable(s, s1, c) /\ SameCounts(s, s1, c)
      /\ SameOverload(s, s1, c) /\ s1.rq[c].hp_curr = high /\ s1.cpupri = s.cpupri
  <2>1. high \in 0 .. MAX_RT_PRIO
    BY <1>4
  <2>. QED
    BY <1>5, <2>1, SetCurr
<1>7. s1 \in StateT /\ next_prio(s1, c) \in 0 .. MAX_RT_PRIO
  BY <1>6, NextPrio DEF Only
<1>8. PICK s2 : s2 = IF s.rq[c].rt_nr_running > 0 /\ prio <= s.rq[c].hp_next
                     THEN PutNext(s1, c, next_prio(s1, c)) ELSE s1
  OBVIOUS
<1>9. /\ Only(s1, s2, c) /\ SameLists(s1, s2, c) /\ SamePushable(s1, s2, c) /\ SameCounts(s1, s2, c)
      /\ SameHighest(s1, s2, c) /\ SameOverload(s1, s2, c)
  <2>1. CASE s.rq[c].rt_nr_running > 0 /\ prio <= s.rq[c].hp_next
    BY <1>7, <1>8, <2>1, SetNext
  <2>2. CASE ~(s.rq[c].rt_nr_running > 0 /\ prio <= s.rq[c].hp_next)
    BY <1>7, <1>8, <2>2 DEF Only, SameLists, SamePushable, SameCounts, SameHighest, SameOverload
  <2>. QED
    BY <2>1, <2>2
<1>10. s2 \in StateT
  BY <1>9 DEF Only
<1>11. t = IF high # prev THEN [s2 EXCEPT !.cpupri[c] = high] ELSE s2
  BY <1>1, <1>3, <1>5, <1>8 DEF dec_rt_prio, PutCurr, PutNext
<1>12. Only(s2, t, c) /\ t.rq = s2.rq /\ t.cpupri[c] = high /\ t.rto_mask = s2.rto_mask
  <2>1. CASE high # prev
    BY <1>4, <1>10, <1>11, <2>1, SetCpupri
  <2>2. CASE high = prev
    BY <1>1, <1>6, <1>9, <1>10, <1>11, <2>2 DEF Only, SameHighest
  <2>. QED
    BY <2>1, <2>2
<1>. QED
  BY <1>1, <1>4, <1>6, <1>9, <1>12 DEF Only, SameLists, SamePushable, SameCounts, SameHighest, SameOverload

Migrates(s, p) == IF NrAllowed(s, p) > 1 THEN 1 ELSE 0

(* inc_rt_tasks and dec_rt_tasks: all that is cached but the lists.        *)
LEMMA IncTasks ==
    ASSUME NEW s \in StateT, NEW c \in Cpu, NEW p \in Task, s.cpupri[c] = s.rq[c].hp_curr,
           s.rq[c].overloaded <=> c \in s.rto_mask, s.task[p].prio \in RtPrio,
           NEW t, t = inc_rt_tasks(s, c, p)
    PROVE  /\ Only(s, t, c) /\ SameLists(s, t, c) /\ SamePushable(s, t, c)
           /\ t.rq[c].rt_nr_running = s.rq[c].rt_nr_running + 1
           /\ t.rq[c].rt_nr_migratory = s.rq[c].rt_nr_migratory + Migrates(s, p)
           /\ t.cpupri[c] = t.rq[c].hp_curr /\ Overload(t, c)
           /\ t.rq[c].hp_curr = IF s.task[p].prio < s.rq[c].hp_curr THEN s.task[p].prio
                                ELSE s.rq[c].hp_curr
<1>1. PICK a : a = [s EXCEPT !.rq[c].rt_nr_running = @ + 1]
  OBVIOUS
<1>2. PICK n \in Int : n = s.rq[c].rt_nr_running + 1
  BY StateParts, RqParts
<1>3. a = PutRunning(s, c, n)
  BY <1>1, <1>2 DEF PutRunning
<1>4. /\ Only(s, a, c) /\ SameLists(s, a, c) /\ SamePushable(s, a, c)
      /\ SameHighest(s, a, c) /\ SameOverload(s, a, c)
      /\ a.rq[c].rt_nr_running = n /\ a.rq[c].rt_nr_migratory = s.rq[c].rt_nr_migratory
  BY <1>3, SetRunning
<1>5. PICK b : b = inc_rt_prio(a, c, s.task[p].prio)
  OBVIOUS
<1>6. /\ Only(a, b, c) /\ SameLists(a, b, c) /\ SamePushable(a, b, c) /\ SameCounts(a, b, c)
      /\ SameOverload(a, b, c) /\ b.cpupri[c] = b.rq[c].hp_curr
      /\ b.rq[c].hp_curr = IF s.task[p].prio < a.rq[c].hp_curr THEN s.task[p].prio ELSE a.rq[c].hp_curr
  <2>1. a \in StateT /\ a.cpupri[c] = a.rq[c].hp_curr
    BY <1>4 DEF Only, SameHighest
  <2>. QED
    BY <1>5, <2>1, IncPrio
<1>7. PICK m \in Int : m = b.rq[c].rt_nr_migratory + Migrates(s, p)
  <2>1. b.rq[c].rt_nr_migratory \in Int
    BY <1>6, StateParts, RqParts DEF Only
  <2>. QED
    BY <2>1 DEF Migrates
<1>8. PICK e : e = PutMigratory(b, c, m)
  OBVIOUS
<1>9. /\ Only(b, e, c) /\ SameLists(b, e, c) /\ SamePushable(b, e, c)
      /\ SameHighest(b, e, c) /\ SameOverload(b, e, c)
      /\ e.rq[c].rt_nr_migratory = m /\ e.rq[c].rt_nr_running = b.rq[c].rt_nr_running
  <2>1. b \in StateT
    BY <1>6 DEF Only
  <2>. QED
    BY <1>8, <2>1, SetMigratory
<1>10. t = update_rt_migration(e, c)
  BY <1>1, <1>5, <1>7, <1>8, ZenonT(30) DEF inc_rt_tasks, Migrates, PutMigratory
<1>11. /\ Only(e, t, c) /\ SameLists(e, t, c) /\ SamePushable(e, t, c) /\ SameCounts(e, t, c)
       /\ SameHighest(e, t, c) /\ Overload(t, c)
  <2>1. e \in StateT /\ (e.rq[c].overloaded <=> c \in e.rto_mask)
    BY <1>4, <1>6, <1>9 DEF Only, SameOverload
  <2>. QED
    BY <1>10, <2>1, UpdateMigration
<1>12. Only(s, t, c)
  BY <1>4, <1>6, <1>9, <1>11 DEF Only
<1>13. SameLists(s, t, c) /\ SamePushable(s, t, c)
  BY <1>4, <1>6, <1>9, <1>11 DEF SameLists, SamePushable
<1>. QED
  BY <1>2, <1>4, <1>6, <1>7, <1>9, <1>11, <1>12, <1>13 DEF SameCounts, SameHighest

(* dec_rt_tasks: the counts, the highest priority and the overload flag    *)
(* follow.                                                                 *)
LEMMA DecTasks ==
    ASSUME NEW s \in StateT, NEW c \in Cpu, NEW p \in Task, s.cpupri[c] = s.rq[c].hp_curr,
           s.rq[c].overloaded <=> c \in s.rto_mask, s.task[p].prio \in RtPrio,
           s.rq[c].rt_nr_running - 1 \in Nat, NEW t, t = dec_rt_tasks(s, c, p)
    PROVE  /\ Only(s, t, c) /\ SameLists(s, t, c) /\ SamePushable(s, t, c)
           /\ t.rq[c].rt_nr_running = s.rq[c].rt_nr_running - 1
           /\ t.rq[c].rt_nr_migratory = s.rq[c].rt_nr_migratory - Migrates(s, p)
           /\ t.cpupri[c] = t.rq[c].hp_curr /\ Overload(t, c)
           /\ t.rq[c].hp_curr = IF s.rq[c].rt_nr_running - 1 = 0 THEN MAX_RT_PRIO
                                ELSE IF s.task[p].prio = s.rq[c].hp_curr
                                     THEN sched_find_first_bit(s.rq[c].bitmap)
                                     ELSE s.rq[c].hp_curr
<1>1. PICK a : a = [s EXCEPT !.rq[c].rt_nr_running = @ - 1]
  OBVIOUS
<1>2. PICK n \in Nat : n = s.rq[c].rt_nr_running - 1
  OBVIOUS
<1>3. a = PutRunning(s, c, n)
  BY <1>1, <1>2 DEF PutRunning
<1>4. /\ Only(s, a, c) /\ SameLists(s, a, c) /\ SamePushable(s, a, c)
      /\ SameHighest(s, a, c) /\ SameOverload(s, a, c)
      /\ a.rq[c].rt_nr_running = n /\ a.rq[c].rt_nr_migratory = s.rq[c].rt_nr_migratory
  <2>1. n \in Int
    OBVIOUS
  <2>. QED
    BY <1>3, <2>1, SetRunning
<1>5. PICK b : b = dec_rt_prio(a, c, s.task[p].prio)
  OBVIOUS
<1>6. /\ Only(a, b, c) /\ SameLists(a, b, c) /\ SamePushable(a, b, c) /\ SameCounts(a, b, c)
      /\ SameOverload(a, b, c) /\ b.cpupri[c] = b.rq[c].hp_curr
      /\ b.rq[c].hp_curr = IF a.rq[c].rt_nr_running = 0 THEN MAX_RT_PRIO
                           ELSE IF s.task[p].prio = a.rq[c].hp_curr
                                THEN sched_find_first_bit(a.rq[c].bitmap)
                                ELSE a.rq[c].hp_curr
  <2>1. a \in StateT /\ a.cpupri[c] = a.rq[c].hp_curr
    BY <1>4 DEF Only, SameHighest
  <2>2. a.rq[c].rt_nr_running \in Nat
    BY <1>4
  <2>. QED
    BY <1>5, <2>1, <2>2, DecPrio
<1>7. PICK m \in Int : m = b.rq[c].rt_nr_migratory - Migrates(s, p)
  <2>1. b.rq[c].rt_nr_migratory \in Int
    BY <1>6, StateParts, RqParts DEF Only
  <2>. QED
    BY <2>1 DEF Migrates
<1>8. PICK e : e = PutMigratory(b, c, m)
  OBVIOUS
<1>9. /\ Only(b, e, c) /\ SameLists(b, e, c) /\ SamePushable(b, e, c)
      /\ SameHighest(b, e, c) /\ SameOverload(b, e, c)
      /\ e.rq[c].rt_nr_migratory = m /\ e.rq[c].rt_nr_running = b.rq[c].rt_nr_running
  <2>1. b \in StateT
    BY <1>6 DEF Only
  <2>. QED
    BY <1>8, <2>1, SetMigratory
<1>10. t = update_rt_migration(e, c)
  BY <1>1, <1>5, <1>7, <1>8, ZenonT(30) DEF dec_rt_tasks, Migrates, PutMigratory
<1>11. /\ Only(e, t, c) /\ SameLists(e, t, c) /\ SamePushable(e, t, c) /\ SameCounts(e, t, c)
       /\ SameHighest(e, t, c) /\ Overload(t, c)
  <2>1. e \in StateT /\ (e.rq[c].overloaded <=> c \in e.rto_mask)
    BY <1>4, <1>6, <1>9 DEF Only, SameOverload
  <2>. QED
    BY <1>10, <2>1, UpdateMigration
<1>12. Only(s, t, c)
  BY <1>4, <1>6, <1>9, <1>11 DEF Only
<1>13. SameLists(s, t, c) /\ SamePushable(s, t, c)
  BY <1>4, <1>6, <1>9, <1>11 DEF SameLists, SamePushable
<1>. QED
  BY <1>2, <1>4, <1>6, <1>7, <1>9, <1>11, <1>12, <1>13 DEF SameCounts, SameHighest, SameLists

-----------------------------------------------------------------------------
(* The queues with one task more, or one less.                             *)

(* What the real-time class leaves alone of a run queue.                   *)
KeepRq(s, t) ==
    \A d \in Cpu : /\ t.rq[d].curr = s.rq[d].curr /\ t.rq[d].need_resched = s.rq[d].need_resched
                   /\ t.rq[d].wake_list = s.rq[d].wake_list
                   /\ t.rq[d].ipi = s.rq[d].ipi /\ t.rq[d].rt_throttled = s.rq[d].rt_throttled

(* Only p may have become pushable, where it does not run.                 *)
PushFrame(s, t, p) ==
    \A d \in Cpu : \A x \in Members(t.rq[d].pushable) :
        x \in Members(s.rq[d].pushable) \/ (x = p /\ s.rq[d].curr # p)

(* The part of Listed about one run queue.                                 *)
ListedOn(s, Q, c) ==
    \A i \in RtPrio :
        /\ NoDup(s.rq[c].queue[i])
        /\ \A p \in Task : p \in Members(s.rq[c].queue[i]) <=>
              p \in Q /\ s.task[p].cpu = c /\ s.task[p].prio = i

(* The part of QueuesOk about one run queue.                               *)
RqOk(s, Q, c) ==
    ListedOn(s, Q, c) /\ Counts(s, Q, c) /\ Highest(s, Q, c) /\ Overload(s, c) /\ Pushables(s, Q, c)

(* The invariant of the lists, CPU by CPU.                                 *)
LEMMA QueuesParts ==
    ASSUME NEW s, NEW Q
    PROVE  QueuesOk(s, Q) <=> /\ s \in StateT
                              /\ Q \subseteq Task /\ \A p \in Q : s.task[p].prio \in RtPrio
                              /\ \A c \in Cpu : RqOk(s, Q, c)
<1>1. Listed(s, Q) <=> \A c \in Cpu : ListedOn(s, Q, c)
  BY Zenon DEF Listed, ListedOn
<1>. QED
  BY <1>1, Zenon DEF QueuesOk, RqOk

(* Two states, with sets of queued tasks, that agree on run queue d.       *)
LEMMA SameRq ==
    ASSUME NEW s, NEW t, NEW Q \in SUBSET Task, NEW R \in SUBSET Task, NEW d \in Cpu,
           RqOk(s, Q, d),
           \A p \in R : p \in Q \/ t.task[p].cpu # d,
           \A p \in Q : s.task[p].cpu = d => p \in R,
           \A p \in Q \cap R : /\ t.task[p].cpu = d <=> s.task[p].cpu = d
                               /\ s.task[p].cpu = d =>
                                     /\ t.task[p].prio = s.task[p].prio
                                     /\ NrAllowed(t, p) = NrAllowed(s, p),
           t.rq[d].queue = s.rq[d].queue, t.rq[d].bitmap = s.rq[d].bitmap,
           t.rq[d].rt_nr_running = s.rq[d].rt_nr_running,
           t.rq[d].rt_nr_migratory = s.rq[d].rt_nr_migratory,
           t.rq[d].overloaded = s.rq[d].overloaded, t.rq[d].hp_curr = s.rq[d].hp_curr,
           t.rq[d].pushable = s.rq[d].pushable, t.cpupri[d] = s.cpupri[d],
           d \in t.rto_mask <=> d \in s.rto_mask
    PROVE  RqOk(t, R, d)
<1>1. On(t, R, d) = On(s, Q, d)
  BY DEF On
<1>2. \A p \in On(s, Q, d) : t.task[p].prio = s.task[p].prio /\ NrAllowed(t, p) = NrAllowed(s, p)
  BY <1>1 DEF On
<1>3. Migratory(t, R, d) = Migratory(s, Q, d)
  BY <1>1, <1>2 DEF Migratory
<1>4. ListedOn(t, R, d)
  <2>. SUFFICES ASSUME NEW i \in RtPrio
                PROVE  /\ NoDup(t.rq[d].queue[i])
                       /\ \A p \in Task : p \in Members(t.rq[d].queue[i]) <=>
                             p \in R /\ t.task[p].cpu = d /\ t.task[p].prio = i
    BY DEF ListedOn
  <2>1. ASSUME NEW p \in Task
        PROVE  p \in Members(t.rq[d].queue[i]) <=> p \in R /\ t.task[p].cpu = d /\ t.task[p].prio = i
    <3>1. p \in Members(t.rq[d].queue[i]) <=> p \in Q /\ s.task[p].cpu = d /\ s.task[p].prio = i
      BY DEF RqOk, ListedOn
    <3>. QED
      BY <3>1
  <2>. QED
    BY <2>1 DEF RqOk, ListedOn
<1>5. Counts(t, R, d)
  BY <1>1, <1>2, <1>3 DEF RqOk, Counts
<1>6. Highest(t, R, d)
  BY <1>1, <1>2 DEF RqOk, Highest
<1>7. Overload(t, d)
  BY DEF RqOk, Overload
<1>8. Pushables(t, R, d)
  BY <1>3 DEF RqOk, Pushables
<1>. QED
  BY <1>4, <1>5, <1>6, <1>7, <1>8 DEF RqOk

(* A step on run queue c keeps the others as they should be, when it adds  *)
(* or removes only tasks of c.                                             *)
LEMMA OtherRqs ==
    ASSUME NEW s, NEW t, NEW Q, NEW c \in Cpu, NEW R, QueuesOk(s, Q), Only(s, t, c),
           \A p \in R : p \in Q \/ (p \in Task /\ s.task[p].cpu = c /\ s.task[p].prio \in RtPrio),
           \A p \in Q : p \in R \/ s.task[p].cpu = c, RqOk(t, R, c)
    PROVE  QueuesOk(t, R)
<1>1. s \in StateT /\ Q \subseteq Task /\ (\A p \in Q : s.task[p].prio \in RtPrio) /\ \A d \in Cpu : RqOk(s, Q, d)
  BY QueuesParts
<1>2. t \in StateT /\ R \subseteq Task /\ (\A p \in R : t.task[p].prio \in RtPrio)
  BY <1>1 DEF Only
<1>3. ASSUME NEW d \in Cpu \ {c} PROVE RqOk(t, R, d)
  <2>1. t.task = s.task /\ t.rq[d] = s.rq[d] /\ t.cpupri[d] = s.cpupri[d]
        /\ (d \in t.rto_mask <=> d \in s.rto_mask)
    BY DEF Only
  <2>2. RqOk(s, Q, d)
    BY <1>1
  <2>3. /\ Q \in SUBSET Task /\ R \in SUBSET Task
        /\ \A p \in R : p \in Q \/ t.task[p].cpu # d
        /\ \A p \in Q : s.task[p].cpu = d => p \in R
    BY <1>1, <1>2, <2>1
  <2>4. \A p \in Task : NrAllowed(t, p) = NrAllowed(s, p)
    BY <2>1 DEF NrAllowed
  <2>. QED
    BY <2>1, <2>2, <2>3, <2>4, SameRq
<1>. QED
  BY <1>1, <1>2, <1>3, QueuesParts

(* The tasks of a CPU are finitely many.                                   *)
LEMMA OnFinite ==
    ASSUME NEW s, NEW Q \in SUBSET Task, NEW c
    PROVE  /\ IsFiniteSet(On(s, Q, c)) /\ IsFiniteSet(Migratory(s, Q, c))
           /\ Cardinality(On(s, Q, c)) \in Nat /\ Cardinality(Migratory(s, Q, c)) \in Nat
<1>1. On(s, Q, c) \subseteq Task /\ Migratory(s, Q, c) \subseteq Task
  BY DEF On, Migratory
<1>2. IsFiniteSet(On(s, Q, c)) /\ IsFiniteSet(Migratory(s, Q, c))
  BY <1>1, RtRunQueueAssumption, FS_Subset
<1>. QED
  BY <1>2, FS_CardinalityType

(* The counts with one task more and one less.                             *)
OneMore(s, Q, R, p, c) ==
    Q \in SUBSET Task /\ p \in Task /\ p \notin Q /\ s.task[p].cpu = c /\ R = Q \cup {p}

(* One task more on a CPU, and what it adds to the counts.                 *)
LEMMA CountMore ==
    ASSUME NEW s, NEW Q, NEW R, NEW p, NEW c, OneMore(s, Q, R, p, c)
    PROVE  /\ On(s, R, c) = On(s, Q, c) \cup {p}
           /\ Cardinality(On(s, R, c)) = Cardinality(On(s, Q, c)) + 1
           /\ Cardinality(Migratory(s, R, c)) = Cardinality(Migratory(s, Q, c)) + Migrates(s, p)
<1>. Q \in SUBSET Task /\ p \in Task /\ p \notin Q /\ s.task[p].cpu = c /\ R = Q \cup {p}
  BY DEF OneMore
<1>1. On(s, R, c) = On(s, Q, c) \cup {p} /\ p \notin On(s, Q, c)
  BY DEF On
<1>2. /\ IsFiniteSet(On(s, Q, c)) /\ IsFiniteSet(Migratory(s, Q, c))
      /\ Cardinality(On(s, Q, c)) \in Nat /\ Cardinality(Migratory(s, Q, c)) \in Nat
  BY OnFinite
<1>3. Cardinality(On(s, Q, c) \cup {p}) = Cardinality(On(s, Q, c)) + 1
  BY <1>1, <1>2, FS_AddElement
<1>4. CASE NrAllowed(s, p) > 1
  <2>1. Migratory(s, R, c) = Migratory(s, Q, c) \cup {p} /\ p \notin Migratory(s, Q, c)
    BY <1>1, <1>4 DEF Migratory
  <2>2. Cardinality(Migratory(s, Q, c) \cup {p}) = Cardinality(Migratory(s, Q, c)) + 1
    BY <1>2, <2>1, FS_AddElement
  <2>. QED
    BY <1>1, <1>3, <1>4, <2>1, <2>2 DEF Migrates
<1>5. CASE ~(NrAllowed(s, p) > 1)
  <2>1. Migratory(s, R, c) = Migratory(s, Q, c)
    BY <1>1, <1>5 DEF Migratory
  <2>2. Migrates(s, p) = 0
    BY <1>5 DEF Migrates
  <2>3. Cardinality(Migratory(s, Q, c)) = Cardinality(Migratory(s, Q, c)) + Migrates(s, p)
    BY <1>2, <2>2
  <2>. QED
    BY <1>1, <1>3, <2>1, <2>3
<1>. QED
  BY <1>4, <1>5

(* Two changes of run queue c are a change of run queue c.                 *)
LEMMA OnlyTrans ==
    ASSUME NEW s, NEW a, NEW t, NEW c, Only(s, a, c), Only(a, t, c) PROVE Only(s, t, c)
BY DEF Only

(* __enqueue_rt_entity puts p on the list of its CPU and priority, and     *)
(* every cached value follows.                                             *)
LEMMA EnqueueEntity ==
    ASSUME NEW s, NEW Q, NEW p \in Task \ Q, NEW c, NEW head \in BOOLEAN, QueuesOk(s, Q),
           c = s.task[p].cpu, s.task[p].prio \in RtPrio, NEW t, t = enqueue_rt_entity_(s, c, p, head)
    PROVE  /\ QueuesOk(t, Q \cup {p}) /\ Only(s, t, c)
           /\ SamePushable(s, t, c)
<1>1. s \in StateT /\ Q \subseteq Task /\ (\A x \in Q : s.task[x].prio \in RtPrio) /\ \A d \in Cpu : RqOk(s, Q, d)
  BY QueuesParts
<1>2. c \in Cpu
  BY <1>1, StateParts, TaskParts
<1>3. PICK i \in RtPrio : i = s.task[p].prio
  OBVIOUS
<1>4. PICK old \in Seq(Task) : old = s.rq[c].queue[i]
  BY <1>1, <1>2, StateParts, RqParts
<1>5. NoDup(old) /\ p \notin Members(old)
  BY <1>1, <1>2, <1>4 DEF RqOk, ListedOn
<1>6. PICK q \in Seq(Task) : /\ q = IF head THEN <<p>> \o old ELSE Append(old, p)
                             /\ NoDup(q) /\ Members(q) = Members(old) \cup {p}
  BY <1>5, AppendList, PrependList, ZenonT(30)
<1>7. PICK b \in SUBSET RtPrio : b = s.rq[c].bitmap \cup {i}
  BY <1>1, <1>2, StateParts, RqParts
<1>8. PICK a : a = PutQueue(s, c, i, q, b)
  OBVIOUS
<1>9. t = inc_rt_tasks(a, c, p)
  BY <1>3, <1>4, <1>6, <1>7, <1>8, ZenonT(30) DEF enqueue_rt_entity_, PutQueue
<1>10. /\ Only(s, a, c) /\ SamePushable(s, a, c) /\ SameCounts(s, a, c) /\ SameHighest(s, a, c)
       /\ SameOverload(s, a, c) /\ a.rq[c].queue = [s.rq[c].queue EXCEPT ![i] = q] /\ a.rq[c].bitmap = b
  BY <1>1, <1>2, <1>8, SetQueue
<1>11. a \in StateT /\ a.task = s.task
  BY <1>10 DEF Only
<1>12. /\ Only(a, t, c) /\ SameLists(a, t, c) /\ SamePushable(a, t, c)
       /\ t.rq[c].rt_nr_running = a.rq[c].rt_nr_running + 1
       /\ t.rq[c].rt_nr_migratory = a.rq[c].rt_nr_migratory + Migrates(a, p)
       /\ t.cpupri[c] = t.rq[c].hp_curr /\ Overload(t, c)
       /\ t.rq[c].hp_curr = IF a.task[p].prio < a.rq[c].hp_curr THEN a.task[p].prio ELSE a.rq[c].hp_curr
  <2>1. a.cpupri[c] = a.rq[c].hp_curr /\ (a.rq[c].overloaded <=> c \in a.rto_mask) /\ a.task[p].prio \in RtPrio
    BY <1>1, <1>2, <1>3, <1>10, <1>11 DEF SameHighest, SameOverload, RqOk, Highest, Overload
  <2>. QED
    BY <1>2, <1>9, <1>11, <2>1, IncTasks, SMTT(30)
<1>13. Only(s, t, c) /\ SamePushable(s, t, c) /\ t.task = s.task
  <2>1. Only(s, t, c)
    BY <1>10, <1>12, OnlyTrans, ZenonT(60)
  <2>. QED
    BY <1>10, <1>12, <2>1, ZenonT(60) DEF Only, SamePushable
<1>14. PICK R : R = Q \cup {p}
  OBVIOUS
<1>15. ListedOn(t, R, c)
  <2>1. t.rq[c].queue = [s.rq[c].queue EXCEPT ![i] = q] /\ s.rq[c].queue \in [RtPrio -> Seq(Task)]
    BY <1>1, <1>2, <1>10, <1>12, StateParts, RqParts, ZenonT(60) DEF SameLists
  <2>. SUFFICES ASSUME NEW j \in RtPrio
                PROVE  /\ NoDup(t.rq[c].queue[j])
                       /\ \A x \in Task : x \in Members(t.rq[c].queue[j]) <=>
                             x \in R /\ t.task[x].cpu = c /\ t.task[x].prio = j
    BY DEF ListedOn
  <2>2. /\ NoDup(s.rq[c].queue[j])
        /\ \A x \in Task : x \in Members(s.rq[c].queue[j]) <=>
              x \in Q /\ s.task[x].cpu = c /\ s.task[x].prio = j
    BY <1>1, <1>2 DEF RqOk, ListedOn
  <2>3. CASE j = i
    <3>1. t.rq[c].queue[j] = q
      BY <2>1, <2>3
    <3>. QED
      BY <1>3, <1>4, <1>6, <1>13, <1>14, <2>2, <2>3, <3>1, ZenonT(60)
  <2>4. CASE j # i
    <3>1. t.rq[c].queue[j] = s.rq[c].queue[j]
      BY <2>1, <2>4
    <3>. QED
      BY <1>3, <1>13, <1>14, <2>2, <2>4, <3>1, ZenonT(60)
  <2>. QED
    BY <2>3, <2>4
<1>16. /\ On(s, R, c) = On(s, Q, c) \cup {p}
       /\ Cardinality(On(s, R, c)) = Cardinality(On(s, Q, c)) + 1
       /\ Cardinality(Migratory(s, R, c)) = Cardinality(Migratory(s, Q, c)) + Migrates(s, p)
  <2>1. OneMore(s, Q, R, p, c)
    BY <1>1, <1>14 DEF OneMore
  <2>. QED
    BY <2>1, CountMore
<1>17. /\ On(t, R, c) = On(s, R, c) /\ Migratory(t, R, c) = Migratory(s, R, c)
       /\ Migrates(a, p) = Migrates(s, p)
  BY <1>11, <1>13 DEF On, Migratory, NrAllowed, Migrates
<1>18. Counts(t, R, c)
  <2>1. Counts(s, Q, c)
    BY <1>1, <1>2 DEF RqOk
  <2>2. t.rq[c].bitmap = s.rq[c].bitmap \cup {i}
    BY <1>7, <1>10, <1>12, ZenonT(60) DEF SameLists
  <2>3. t.rq[c].rt_nr_running = s.rq[c].rt_nr_running + 1
        /\ t.rq[c].rt_nr_migratory = s.rq[c].rt_nr_migratory + Migrates(s, p)
    BY <1>10, <1>12, <1>17, ZenonT(60) DEF SameCounts
  <2>4. \A j \in RtPrio : j \in t.rq[c].bitmap <=> \E x \in On(t, R, c) : t.task[x].prio = j
    BY <1>3, <1>13, <1>16, <1>17, <2>1, <2>2, SMTT(30) DEF Counts
  <2>. QED
    BY <1>16, <1>17, <2>1, <2>3, <2>4, ZenonT(60) DEF Counts
<1>19. Highest(t, R, c)
  <2>1. Highest(s, Q, c)
    BY <1>1, <1>2 DEF RqOk
  <2>2. PICK h \in 0 .. MAX_RT_PRIO : h = s.rq[c].hp_curr
    BY <1>1, <1>2, StateParts, RqParts
  <2>3. t.rq[c].hp_curr = (IF i < h THEN i ELSE h) /\ i \in Nat /\ h \in Nat
    <3>1. a.task[p].prio = i /\ a.rq[c].hp_curr = h
      BY <1>3, <1>10, <1>11, <2>2 DEF SameHighest
    <3>2. t.rq[c].hp_curr = IF i < h THEN i ELSE h
      BY <1>12, <3>1
    <3>. QED
      BY <3>2, RtRunQueueAssumption DEF RtPrio
  <2>4. \A x \in On(s, Q, c) : h <= s.task[x].prio /\ s.task[x].prio \in Nat
    BY <1>1, <2>1, <2>2, StateParts, TaskParts, SMTT(30) DEF Highest, On
  <2>5. ASSUME NEW x \in On(t, R, c) PROVE t.rq[c].hp_curr <= t.task[x].prio
    <3>1. CASE x = p
      BY <1>3, <1>13, <2>3, <3>1
    <3>2. CASE x \in On(s, Q, c)
      BY <1>13, <2>3, <2>4, <3>2
    <3>. QED
      BY <1>16, <1>17, <3>1, <3>2
  <2>6. t.rq[c].hp_curr = MAX_RT_PRIO \/ \E x \in On(t, R, c) : t.task[x].prio = t.rq[c].hp_curr
    BY <1>3, <1>13, <1>16, <1>17, <2>1, <2>2, <2>3, ZenonT(60) DEF Highest
  <2>. QED
    BY <1>12, <2>5, <2>6, ZenonT(30) DEF Highest
<1>20. Pushables(t, R, c)
  <2>1. Pushables(s, Q, c)
    BY <1>1, <1>2 DEF RqOk
  <2>2. Migratory(s, Q, c) \subseteq Migratory(s, R, c)
    BY <1>14 DEF Migratory, On
  <2>. QED
    BY <1>13, <1>17, <2>1, <2>2 DEF Pushables, SamePushable
<1>21. RqOk(t, R, c)
  BY <1>12, <1>15, <1>18, <1>19, <1>20 DEF RqOk
<1>22. QueuesOk(t, R)
  <2>1. /\ \A x \in R : x \in Q \/ (x \in Task /\ s.task[x].cpu = c /\ s.task[x].prio \in RtPrio)
        /\ \A x \in Q : x \in R \/ s.task[x].cpu = c
    BY <1>14
  <2>. QED
    BY <1>2, <1>13, <1>21, <2>1, OtherRqs
<1>. QED
  BY <1>13, <1>14, <1>22

(* One task less on a CPU, and what it takes from the counts.              *)
LEMMA CountLess ==
    ASSUME NEW s, NEW Q, NEW R, NEW p, NEW c, OneMore(s, R, Q, p, c)
    PROVE  /\ On(s, R, c) = On(s, Q, c) \ {p}
           /\ Cardinality(On(s, Q, c)) = Cardinality(On(s, R, c)) + 1
           /\ Cardinality(Migratory(s, Q, c)) = Cardinality(Migratory(s, R, c)) + Migrates(s, p)
           /\ Cardinality(On(s, R, c)) \in Nat /\ Cardinality(Migratory(s, R, c)) \in Nat
<1>2. /\ Cardinality(On(s, Q, c)) = Cardinality(On(s, R, c)) + 1
      /\ Cardinality(Migratory(s, Q, c)) = Cardinality(Migratory(s, R, c)) + Migrates(s, p)
  BY CountMore
<1>3. Cardinality(On(s, R, c)) \in Nat /\ Cardinality(Migratory(s, R, c)) \in Nat
  BY OnFinite DEF OneMore
<1>4. On(s, R, c) = On(s, Q, c) \ {p}
  BY DEF On, OneMore
<1>. QED
  BY <1>2, <1>3, <1>4

(* A list is empty if nobody is on it.                                     *)
LEMMA MembersEmpty ==
    ASSUME NEW q \in Seq(Task) PROVE q = <<>> <=> Members(q) = {}
<1>1. CASE q = <<>>
  BY <1>1 DEF Members
<1>2. CASE q # <<>>
  <2>1. 1 \in DOMAIN q
    BY <1>2
  <2>. QED
    BY <1>2, <2>1 DEF Members
<1>. QED
  BY <1>1, <1>2

(* dequeue_task_rt takes p off its list, and every cached value follows.   *)
LEMMA DequeueTask ==
    ASSUME NEW s, NEW Q, NEW p \in Q, NEW c, QueuesOk(s, Q), c = s.task[p].cpu,
           NEW t, t = dequeue_task_rt(s, c, p)
    PROVE  QueuesOk(t, Q \ {p}) /\ Only(s, t, c) /\ PushFrame(s, t, p)
<1>1. s \in StateT /\ Q \subseteq Task /\ (\A x \in Q : s.task[x].prio \in RtPrio) /\ \A d \in Cpu : RqOk(s, Q, d)
  BY QueuesParts
<1>2. p \in Task /\ c \in Cpu
  BY <1>1, StateParts, TaskParts
<1>3. PICK i \in RtPrio : i = s.task[p].prio
  BY <1>1
<1>4. PICK old \in Seq(Task) : old = s.rq[c].queue[i]
  BY <1>1, <1>2, StateParts, RqParts
<1>5. NoDup(old) /\ p \in Members(old)
  BY <1>1, <1>2, <1>3, <1>4 DEF RqOk, ListedOn
<1>6. PICK q \in Seq(Task) : q = Without(old, p) /\ NoDup(q) /\ Members(q) = Members(old) \ {p}
  BY <1>5, WithoutList
<1>7. PICK b \in SUBSET RtPrio : b = IF q = <<>> THEN s.rq[c].bitmap \ {i} ELSE s.rq[c].bitmap
  BY <1>1, <1>2, StateParts, RqParts, ZenonT(30)
<1>8. PICK a : a = PutQueue(s, c, i, q, b)
  OBVIOUS
<1>9. PICK e : e = dec_rt_tasks(a, c, p)
  OBVIOUS
<1>10. on_rt_rq(s, p)
  BY <1>3, <1>4, <1>5, ZenonT(30) DEF on_rt_rq
<1>11. t = PutPushable(e, c, Without(e.rq[c].pushable, p))
  <2>1. dequeue_rt_stack(s, c, p) = e
    BY <1>3, <1>4, <1>6, <1>7, <1>8, <1>9, <1>10, ZenonT(60) DEF dequeue_rt_stack, dequeue_rt_entity_, PutQueue
  <2>. QED
    BY <2>1 DEF dequeue_task_rt, dequeue_pushable_task, PutPushable
<1>12. /\ Only(s, a, c) /\ SamePushable(s, a, c) /\ SameCounts(s, a, c) /\ SameHighest(s, a, c)
       /\ SameOverload(s, a, c) /\ a.rq[c].queue = [s.rq[c].queue EXCEPT ![i] = q] /\ a.rq[c].bitmap = b
  BY <1>1, <1>2, <1>8, SetQueue
<1>13. a \in StateT /\ a.task = s.task
  BY <1>12 DEF Only
<1>14. PICK R : R = Q \ {p}
  OBVIOUS
<1>15. OneMore(s, R, Q, p, c)
  BY <1>1, <1>14 DEF OneMore
<1>16. Counts(s, Q, c) /\ Highest(s, Q, c) /\ Overload(s, c) /\ Pushables(s, Q, c) /\ ListedOn(s, Q, c)
  BY <1>1, <1>2 DEF RqOk
<1>17. /\ On(s, R, c) = On(s, Q, c) \ {p}
       /\ Cardinality(On(s, Q, c)) = Cardinality(On(s, R, c)) + 1
       /\ Cardinality(Migratory(s, Q, c)) = Cardinality(Migratory(s, R, c)) + Migrates(s, p)
       /\ Cardinality(On(s, R, c)) \in Nat /\ Cardinality(Migratory(s, R, c)) \in Nat
  BY <1>15, CountLess
<1>18. s.rq[c].rt_nr_running - 1 = Cardinality(On(s, R, c)) /\ s.rq[c].rt_nr_running - 1 \in Nat
  BY <1>16, <1>17, SMTT(30) DEF Counts
<1>19. /\ Only(a, e, c) /\ SameLists(a, e, c) /\ SamePushable(a, e, c)
       /\ e.rq[c].rt_nr_running = a.rq[c].rt_nr_running - 1
       /\ e.rq[c].rt_nr_migratory = a.rq[c].rt_nr_migratory - Migrates(a, p)
       /\ e.cpupri[c] = e.rq[c].hp_curr /\ Overload(e, c)
       /\ e.rq[c].hp_curr = IF a.rq[c].rt_nr_running - 1 = 0 THEN MAX_RT_PRIO
                            ELSE IF a.task[p].prio = a.rq[c].hp_curr
                                 THEN sched_find_first_bit(a.rq[c].bitmap)
                                 ELSE a.rq[c].hp_curr
  <2>1. a.cpupri[c] = a.rq[c].hp_curr /\ (a.rq[c].overloaded <=> c \in a.rto_mask) /\ a.task[p].prio \in RtPrio
    BY <1>3, <1>12, <1>13, <1>16, ZenonT(60) DEF SameHighest, SameOverload, Highest, Overload
  <2>2. a.rq[c].rt_nr_running - 1 \in Nat
    BY <1>12, <1>18 DEF SameCounts
  <2>. QED
    BY <1>2, <1>9, <1>13, <2>1, <2>2, DecTasks, SMTT(40)
<1>20. e \in StateT /\ e.task = s.task /\ e.rq[c].pushable = s.rq[c].pushable
  BY <1>12, <1>13, <1>19, ZenonT(60) DEF Only, SamePushable
<1>21. PICK u \in Seq(Task) : /\ u = Without(s.rq[c].pushable, p) /\ NoDup(u)
                              /\ Members(u) = Members(s.rq[c].pushable) \ {p}
  <2>1. s.rq[c].pushable \in Seq(Task) /\ NoDup(s.rq[c].pushable)
    BY <1>1, <1>2, <1>16, StateParts, RqParts DEF Pushables
  <2>. QED
    BY <2>1, WithoutList
<1>22. /\ Only(e, t, c) /\ SameLists(e, t, c) /\ SameCounts(e, t, c) /\ SameHighest(e, t, c)
       /\ SameOverload(e, t, c) /\ t.rq[c].pushable = u
  <2>1. t = PutPushable(e, c, u) /\ e \in StateT
    BY <1>11, <1>20, <1>21, ZenonT(60)
  <2>. QED
    BY <1>2, <2>1, SetPushable
<1>23. Only(s, t, c) /\ t.task = s.task
  <2>1. Only(s, t, c)
    <3>0. Only(s, a, c) /\ Only(a, e, c)
      BY <1>12, <1>19, ZenonT(60)
    <3>1. Only(s, e, c)
      BY <3>0, OnlyTrans
    <3>. QED
      BY <1>22, <3>1, OnlyTrans
  <2>. QED
    BY <2>1, ZenonT(60) DEF Only
<1>24. ListedOn(t, R, c)
  <2>1. t.rq[c].queue = [s.rq[c].queue EXCEPT ![i] = q] /\ s.rq[c].queue \in [RtPrio -> Seq(Task)]
    BY <1>1, <1>2, <1>12, <1>19, <1>22, StateParts, RqParts, ZenonT(60) DEF SameLists
  <2>. SUFFICES ASSUME NEW j \in RtPrio
                PROVE  /\ NoDup(t.rq[c].queue[j])
                       /\ \A x \in Task : x \in Members(t.rq[c].queue[j]) <=>
                             x \in R /\ t.task[x].cpu = c /\ t.task[x].prio = j
    BY DEF ListedOn
  <2>2. /\ NoDup(s.rq[c].queue[j])
        /\ \A x \in Task : x \in Members(s.rq[c].queue[j]) <=>
              x \in Q /\ s.task[x].cpu = c /\ s.task[x].prio = j
    BY <1>16 DEF ListedOn
  <2>3. CASE j = i
    <3>1. t.rq[c].queue[j] = q
      BY <2>1, <2>3
    <3>. QED
      BY <1>3, <1>4, <1>6, <1>14, <1>23, <2>2, <2>3, <3>1, ZenonT(60)
  <2>4. CASE j # i
    <3>1. t.rq[c].queue[j] = s.rq[c].queue[j]
      BY <2>1, <2>4
    <3>. QED
      BY <1>3, <1>14, <1>23, <2>2, <2>4, <3>1, ZenonT(60)
  <2>. QED
    BY <2>3, <2>4
<1>25. /\ On(t, R, c) = On(s, R, c) /\ Migratory(t, R, c) = Migratory(s, R, c)
       /\ Migrates(a, p) = Migrates(s, p)
  BY <1>13, <1>23 DEF On, Migratory, NrAllowed, Migrates
<1>26. \A j \in RtPrio : j \in b <=> \E x \in On(s, R, c) : s.task[x].prio = j
  <2>1. q = <<>> <=> Members(q) = {}
    BY MembersEmpty
  <2>2. q = <<>> <=> ~\E x \in On(s, R, c) : s.task[x].prio = i
    <3>1. \A x \in Task : x \in Members(q) <=> x \in R /\ s.task[x].cpu = c /\ s.task[x].prio = i
      <4>1. \A x \in Task : x \in Members(old) <=> x \in Q /\ s.task[x].cpu = c /\ s.task[x].prio = i
        BY <1>4, <1>16 DEF ListedOn
      <4>. QED
        BY <1>6, <1>14, <4>1
    <3>2. \A x \in Members(q) : x \in Task
      BY <1>6 DEF Members
    <3>3. \A x \in R : x \in Task
      BY <1>1, <1>14
    <3>. QED
      BY <2>1, <3>1, <3>2, <3>3 DEF On
  <2>3. \A j \in RtPrio : j \in s.rq[c].bitmap <=> \E x \in On(s, Q, c) : s.task[x].prio = j
    BY <1>16 DEF Counts
  <2>. QED
    BY <1>3, <1>7, <1>17, <2>2, <2>3
<1>27. t.rq[c].bitmap = b
  BY <1>12, <1>19, <1>22, ZenonT(60) DEF SameLists
<1>28. Counts(t, R, c)
  <2>1. /\ t.rq[c].rt_nr_running = s.rq[c].rt_nr_running - 1
        /\ t.rq[c].rt_nr_migratory = s.rq[c].rt_nr_migratory - Migrates(s, p)
    BY <1>12, <1>19, <1>22, <1>25, ZenonT(30) DEF SameCounts
  <2>2. Migrates(s, p) \in Int
    BY DEF Migrates
  <2>3. t.rq[c].rt_nr_migratory = Cardinality(Migratory(s, R, c))
    BY <1>16, <1>17, <2>1, <2>2 DEF Counts
  <2>. QED
    BY <1>18, <1>23, <1>25, <1>26, <1>27, <2>1, <2>3 DEF Counts
<1>29. Highest(t, R, c)
  <2>1. PICK h \in 0 .. MAX_RT_PRIO : h = s.rq[c].hp_curr
    BY <1>1, <1>2, StateParts, RqParts
  <2>2. t.rq[c].hp_curr = IF s.rq[c].rt_nr_running - 1 = 0 THEN MAX_RT_PRIO
                          ELSE IF i = h THEN sched_find_first_bit(b) ELSE h
    <3>1. a.rq[c].rt_nr_running = s.rq[c].rt_nr_running /\ a.task[p].prio = i /\ a.rq[c].hp_curr = h
          /\ t.rq[c].hp_curr = e.rq[c].hp_curr
      BY <1>3, <1>12, <1>13, <1>22, <2>1, ZenonT(60) DEF SameCounts, SameHighest
    <3>2. /\ e.rq[c].hp_curr = IF a.rq[c].rt_nr_running - 1 = 0 THEN MAX_RT_PRIO
                               ELSE IF a.task[p].prio = a.rq[c].hp_curr
                                    THEN sched_find_first_bit(a.rq[c].bitmap)
                                    ELSE a.rq[c].hp_curr
          /\ a.rq[c].bitmap = b
      BY <1>12, <1>19, ZenonT(60)
    <3>. QED
      BY <3>1, <3>2
  <2>3. t.cpupri[c] = t.rq[c].hp_curr
    <3>1. e.cpupri[c] = e.rq[c].hp_curr /\ SameHighest(e, t, c)
      BY <1>19, <1>22, ZenonT(60)
    <3>. QED
      BY <3>1 DEF SameHighest
  <2>4. /\ h = MAX_RT_PRIO \/ \E x \in On(s, Q, c) : s.task[x].prio = h
        /\ \A x \in On(s, Q, c) : h <= s.task[x].prio
    BY <1>16, <2>1, ZenonT(60) DEF Highest
  <2>5. CASE s.rq[c].rt_nr_running - 1 = 0
    <3>1. On(s, R, c) = {}
      <4>1. IsFiniteSet(On(s, R, c)) /\ Cardinality(On(s, R, c)) = 0
        BY <1>1, <1>14, <1>18, <2>5, OnFinite
      <4>. QED
        BY <4>1, FS_EmptySet
    <3>. QED
      BY <1>25, <2>2, <2>3, <2>5, <3>1 DEF Highest
  <2>6. CASE s.rq[c].rt_nr_running - 1 # 0 /\ i = h
    <3>1. t.rq[c].hp_curr = sched_find_first_bit(b)
      BY <2>2, <2>6
    <3>2. /\ b # {} => sched_find_first_bit(b) \in b
          /\ \A j \in b : sched_find_first_bit(b) <= j
          /\ b = {} => sched_find_first_bit(b) = MAX_RT_PRIO
      BY FirstBit DEF sched_find_first_bit
    <3>3. \A x \in On(s, R, c) : s.task[x].prio \in RtPrio
      BY <1>1, <1>14 DEF On
    <3>4. \A x \in On(s, R, c) : sched_find_first_bit(b) <= s.task[x].prio
      BY <1>26, <3>2, <3>3
    <3>. QED
      BY <1>23, <1>25, <1>26, <2>3, <3>1, <3>2, <3>4 DEF Highest
  <2>7. CASE s.rq[c].rt_nr_running - 1 # 0 /\ i # h
    <3>1. t.rq[c].hp_curr = h
      BY <2>2, <2>7
    <3>. QED
      BY <1>3, <1>17, <1>23, <1>25, <2>3, <2>4, <2>7, <3>1 DEF Highest
  <2>. QED
    BY <2>5, <2>6, <2>7
<1>30. Pushables(t, R, c)
  <2>1. Migratory(s, Q, c) \ {p} \subseteq Migratory(s, R, c)
    BY <1>14 DEF Migratory, On
  <2>. QED
    BY <1>16, <1>21, <1>22, <1>25, <2>1, ZenonT(60) DEF Pushables
<1>31. Overload(t, c)
  BY <1>19, <1>22, ZenonT(30) DEF Overload, SameOverload, SameCounts
<1>32. RqOk(t, R, c)
  BY <1>24, <1>28, <1>29, <1>30, <1>31 DEF RqOk
<1>33. QueuesOk(t, R)
  <2>1. /\ \A x \in R : x \in Q \/ (x \in Task /\ s.task[x].cpu = c /\ s.task[x].prio \in RtPrio)
        /\ \A x \in Q : x \in R \/ s.task[x].cpu = c
    BY <1>14
  <2>. QED
    BY <1>2, <1>23, <1>32, <2>1, OtherRqs, SMTT(30)
<1>34. PushFrame(s, t, p)
  <2>1. Members(t.rq[c].pushable) \subseteq Members(s.rq[c].pushable)
    BY <1>21, <1>22, ZenonT(60)
  <2>2. \A d \in Cpu \ {c} : t.rq[d] = s.rq[d]
    BY <1>23 DEF Only
  <2>. QED
    BY <2>1, <2>2 DEF PushFrame
<1>. QED
  BY <1>14, <1>23, <1>33, <1>34

-----------------------------------------------------------------------------
(* The calls of the class, as the core scheduler makes them.               *)

(* The class of a task is a test of its priority.                          *)
LEMMA RtClass ==
    ASSUME NEW s, NEW p \in Task
    PROVE  /\ IsRtClass(s, p) <=> s.task[p].prio < MAX_RT_PRIO
           /\ IsFairClass(s, p) <=> ~(s.task[p].prio < MAX_RT_PRIO)
           /\ PrioOf(s, p) = s.task[p].prio
<1>1. p # Idle /\ p # Stopper
  BY RtRunQueueAssumption
<1>. QED
  BY <1>1 DEF IsRtClass, IsFairClass, ClassRank, rt_prio, PrioOf

(* A change of the lists of one run queue keeps what runs, the flags and   *)
(* the tasks.                                                              *)
LEMMA OnlyKeeps ==
    ASSUME NEW s, NEW t, NEW c, Only(s, t, c)
    PROVE  /\ KeepRq(s, t) /\ t \in StateT /\ t.task = s.task
           /\ \A d \in Cpu \ {c} : t.rq[d].pushable = s.rq[d].pushable
BY DEF Only, KeepRq

(* Removing a task from the pushable list.                                 *)
LEMMA DequeuePushable ==
    ASSUME NEW s, NEW Q, NEW p, NEW c \in Cpu, QueuesOk(s, Q), NEW t, t = dequeue_pushable_task(s, c, p)
    PROVE  /\ QueuesOk(t, Q) /\ Only(s, t, c) /\ SameLists(s, t, c) /\ SameCounts(s, t, c)
           /\ SameHighest(s, t, c) /\ SameOverload(s, t, c)
           /\ Members(t.rq[c].pushable) = Members(s.rq[c].pushable) \ {p}
<1>1. s \in StateT /\ Q \subseteq Task /\ (\A x \in Q : s.task[x].prio \in RtPrio) /\ \A d \in Cpu : RqOk(s, Q, d)
  BY QueuesParts
<1>2. PICK u \in Seq(Task) : /\ u = Without(s.rq[c].pushable, p) /\ NoDup(u)
                             /\ Members(u) = Members(s.rq[c].pushable) \ {p}
  <2>1. s.rq[c].pushable \in Seq(Task) /\ NoDup(s.rq[c].pushable)
    BY <1>1, StateParts, RqParts DEF RqOk, Pushables
  <2>. QED
    BY <2>1, WithoutList
<1>3. t = PutPushable(s, c, u)
  BY <1>2 DEF dequeue_pushable_task, PutPushable
<1>4. /\ Only(s, t, c) /\ SameLists(s, t, c) /\ SameCounts(s, t, c) /\ SameHighest(s, t, c)
      /\ SameOverload(s, t, c) /\ t.rq[c].pushable = u
  BY <1>1, <1>3, SetPushable
<1>5. RqOk(t, Q, c)
  <2>1. RqOk(s, Q, c) /\ t.task = s.task
    BY <1>1, <1>4 DEF Only
  <2>2. On(t, Q, c) = On(s, Q, c) /\ Migratory(t, Q, c) = Migratory(s, Q, c)
    BY <2>1 DEF On, Migratory, NrAllowed
  <2>3. ListedOn(t, Q, c)
    BY <1>4, <2>1 DEF RqOk, ListedOn, SameLists
  <2>4. Counts(t, Q, c)
    BY <1>4, <2>1, <2>2 DEF RqOk, Counts, SameLists, SameCounts
  <2>5. Highest(t, Q, c)
    BY <1>4, <2>1, <2>2 DEF RqOk, Highest, SameHighest
  <2>6. Overload(t, c)
    BY <1>4, <2>1 DEF RqOk, Overload, SameOverload, SameCounts
  <2>7. Pushables(t, Q, c)
    BY <1>2, <1>4, <2>1, <2>2 DEF RqOk, Pushables
  <2>. QED
    BY <2>3, <2>4, <2>5, <2>6, <2>7 DEF RqOk
<1>6. QueuesOk(t, Q)
  <2>1. /\ \A x \in Q : x \in Q \/ (x \in Task /\ s.task[x].cpu = c /\ s.task[x].prio \in RtPrio)
        /\ \A x \in Q : x \in Q \/ s.task[x].cpu = c
    OBVIOUS
  <2>. QED
    BY <1>4, <1>5, <2>1, OtherRqs
<1>. QED
  BY <1>2, <1>4, <1>6

(* Adding one that is queued there and may move.                           *)
LEMMA EnqueuePushable ==
    ASSUME NEW s, NEW Q, NEW p, NEW c \in Cpu, QueuesOk(s, Q), p \in Migratory(s, Q, c),
           NEW t, t = enqueue_pushable_task(s, c, p)
    PROVE  /\ QueuesOk(t, Q) /\ Only(s, t, c) /\ SameLists(s, t, c) /\ SameCounts(s, t, c)
           /\ SameHighest(s, t, c) /\ SameOverload(s, t, c)
           /\ Members(t.rq[c].pushable) = Members(s.rq[c].pushable) \cup {p}
<1>1. s \in StateT /\ Q \subseteq Task /\ (\A x \in Q : s.task[x].prio \in RtPrio) /\ \A d \in Cpu : RqOk(s, Q, d)
  BY QueuesParts
<1>p. p \in Task
  BY <1>1 DEF Migratory, On
<1>w. PICK w \in Seq(Task) : /\ w = Without(s.rq[c].pushable, p) /\ NoDup(w)
                             /\ Members(w) = Members(s.rq[c].pushable) \ {p}
  <2>1. s.rq[c].pushable \in Seq(Task) /\ NoDup(s.rq[c].pushable)
    BY <1>1, StateParts, RqParts DEF RqOk, Pushables
  <2>. QED
    BY <2>1, WithoutList
<1>2. PICK u \in Seq(Task) : /\ u = plist_add(s, w, p) /\ NoDup(u)
                             /\ Members(u) = Members(s.rq[c].pushable) \cup {p}
  <2>1. p \notin Members(w)
    BY <1>w
  <2>2. plist_add(s, w, p) \in Seq(Task) /\ NoDup(plist_add(s, w, p))
        /\ Members(plist_add(s, w, p)) = Members(w) \cup {p}
    BY <1>p, <1>w, <2>1, PlistAdd
  <2>. QED
    BY <1>w, <2>2
<1>3. t = PutPushable(s, c, u)
  BY <1>2, <1>w DEF enqueue_pushable_task, PutPushable
<1>4. /\ Only(s, t, c) /\ SameLists(s, t, c) /\ SameCounts(s, t, c) /\ SameHighest(s, t, c)
      /\ SameOverload(s, t, c) /\ t.rq[c].pushable = u
  BY <1>1, <1>3, SetPushable
<1>5. RqOk(t, Q, c)
  <2>1. RqOk(s, Q, c) /\ t.task = s.task
    BY <1>1, <1>4 DEF Only
  <2>2. On(t, Q, c) = On(s, Q, c) /\ Migratory(t, Q, c) = Migratory(s, Q, c)
    BY <2>1 DEF On, Migratory, NrAllowed
  <2>3. ListedOn(t, Q, c)
    BY <1>4, <2>1 DEF RqOk, ListedOn, SameLists
  <2>4. Counts(t, Q, c)
    BY <1>4, <2>1, <2>2 DEF RqOk, Counts, SameLists, SameCounts
  <2>5. Highest(t, Q, c)
    BY <1>4, <2>1, <2>2 DEF RqOk, Highest, SameHighest
  <2>6. Overload(t, c)
    BY <1>4, <2>1 DEF RqOk, Overload, SameOverload, SameCounts
  <2>7. Pushables(t, Q, c)
    BY <1>2, <1>4, <2>1, <2>2 DEF RqOk, Pushables
  <2>. QED
    BY <2>3, <2>4, <2>5, <2>6, <2>7 DEF RqOk
<1>6. QueuesOk(t, Q)
  <2>1. /\ \A x \in Q : x \in Q \/ (x \in Task /\ s.task[x].cpu = c /\ s.task[x].prio \in RtPrio)
        /\ \A x \in Q : x \in Q \/ s.task[x].cpu = c
    OBVIOUS
  <2>. QED
    BY <1>4, <1>5, <2>1, OtherRqs
<1>. QED
  BY <1>2, <1>4, <1>6

(* enqueue_task_rt queues p, and p may become pushable if it does not run. *)
LEMMA EnqueueTask ==
    ASSUME NEW s, NEW Q, NEW p \in Task \ Q, NEW c, NEW head \in BOOLEAN, QueuesOk(s, Q),
           c = s.task[p].cpu, s.task[p].prio \in RtPrio, NEW t, t = enqueue_task_rt(s, c, p, head)
    PROVE  /\ QueuesOk(t, Q \cup {p}) /\ Only(s, t, c)
           /\ PushFrame(s, t, p)
<1>1. s \in StateT /\ Q \subseteq Task /\ \A d \in Cpu : RqOk(s, Q, d)
  BY QueuesParts
<1>2. c \in Cpu
  BY <1>1, StateParts, TaskParts
<1>3. ~on_rt_rq(s, p)
  BY <1>1, <1>2 DEF on_rt_rq, RqOk, ListedOn
<1>4. PICK a : a = enqueue_rt_entity_(s, c, p, head)
  OBVIOUS
<1>5. t = IF a.rq[c].curr # p /\ NrAllowed(s, p) > 1 THEN enqueue_pushable_task(a, c, p) ELSE a
  BY <1>3, <1>4 DEF enqueue_task_rt, dequeue_rt_stack
<1>6. PICK R : R = Q \cup {p}
  OBVIOUS
<1>7. QueuesOk(a, R) /\ Only(s, a, c) /\ SamePushable(s, a, c)
  BY <1>4, <1>6, EnqueueEntity
<1>8. a.task = s.task /\ a.rq[c].curr = s.rq[c].curr /\ a \in StateT
  BY <1>7 DEF Only
<1>9. CASE a.rq[c].curr # p /\ NrAllowed(s, p) > 1
  <2>1. p \in Migratory(a, R, c)
    BY <1>6, <1>8, <1>9 DEF Migratory, On, NrAllowed
  <2>2. t = enqueue_pushable_task(a, c, p)
    BY <1>5, <1>9
  <2>3. QueuesOk(t, R) /\ Only(a, t, c) /\ Members(t.rq[c].pushable) = Members(a.rq[c].pushable) \cup {p}
    BY <1>2, <1>7, <2>1, <2>2, EnqueuePushable
  <2>4. Only(s, t, c)
    BY <1>7, <2>3, OnlyTrans
  <2>5. \A d \in Cpu \ {c} : t.rq[d] = s.rq[d]
    BY <2>4 DEF Only
  <2>6. PushFrame(s, t, p)
    BY <1>7, <1>8, <1>9, <2>3, <2>5 DEF PushFrame, SamePushable
  <2>. QED
    BY <1>6, <2>3, <2>4, <2>6
<1>10. CASE ~(a.rq[c].curr # p /\ NrAllowed(s, p) > 1)
  <2>1. t = a
    BY <1>5, <1>10
  <2>2. \A d \in Cpu \ {c} : t.rq[d] = s.rq[d]
    BY <1>7, <2>1 DEF Only
  <2>3. PushFrame(s, t, p)
    BY <1>7, <2>1, <2>2 DEF PushFrame, SamePushable
  <2>. QED
    BY <1>6, <1>7, <2>1, <2>3
<1>. QED
  BY <1>9, <1>10

(* The same members on every list.                                         *)
LEMMA SameMembers ==
    ASSUME NEW s, NEW t, NEW Q, NEW c \in Cpu, RqOk(s, Q, c), t.task = s.task,
           \A j \in RtPrio : NoDup(t.rq[c].queue[j]) /\ Members(t.rq[c].queue[j]) = Members(s.rq[c].queue[j]),
           t.rq[c].bitmap = s.rq[c].bitmap, SameCounts(s, t, c), SameHighest(s, t, c),
           SameOverload(s, t, c), SamePushable(s, t, c)
    PROVE  RqOk(t, Q, c)
<1>1. On(t, Q, c) = On(s, Q, c) /\ Migratory(t, Q, c) = Migratory(s, Q, c)
  BY DEF On, Migratory, NrAllowed
<1>2. ListedOn(t, Q, c)
  BY DEF RqOk, ListedOn
<1>3. Counts(t, Q, c)
  BY <1>1 DEF RqOk, Counts, SameCounts
<1>4. Highest(t, Q, c)
  BY <1>1 DEF RqOk, Highest, SameHighest
<1>5. Overload(t, c)
  BY DEF RqOk, Overload, SameOverload, SameCounts
<1>6. Pushables(t, Q, c)
  BY <1>1 DEF RqOk, Pushables, SamePushable
<1>. QED
  BY <1>2, <1>3, <1>4, <1>5, <1>6 DEF RqOk

(* requeue_task_rt: the lists hold the same tasks in another order.        *)
LEMMA RequeueTask ==
    ASSUME NEW s, NEW Q, NEW p \in Task, NEW c, NEW head \in BOOLEAN, QueuesOk(s, Q),
           c = s.task[p].cpu, NEW t, t = requeue_task_rt(s, c, p, head)
    PROVE  QueuesOk(t, Q) /\ Only(s, t, c) /\ SamePushable(s, t, c)
<1>1. s \in StateT /\ Q \subseteq Task /\ (\A x \in Q : s.task[x].prio \in RtPrio) /\ \A d \in Cpu : RqOk(s, Q, d)
  BY QueuesParts
<1>2. c \in Cpu
  BY <1>1, StateParts, TaskParts
<1>3. CASE ~on_rt_rq(s, p)
  <2>1. t = s
    BY <1>3 DEF requeue_task_rt
  <2>. QED
    BY <1>1, <2>1 DEF Only, SamePushable
<1>4. CASE on_rt_rq(s, p)
  <2>1. p \in Q
    BY <1>1, <1>2, <1>4 DEF on_rt_rq, RqOk, ListedOn
  <2>2. PICK i \in RtPrio : i = s.task[p].prio
    BY <1>1, <2>1
  <2>3. PICK old \in Seq(Task) : old = s.rq[c].queue[i]
    BY <1>1, <1>2, StateParts, RqParts
  <2>4. NoDup(old) /\ p \in Members(old)
    BY <1>1, <1>2, <2>1, <2>2, <2>3 DEF RqOk, ListedOn
  <2>5. PICK w \in Seq(Task) : w = Without(old, p) /\ NoDup(w) /\ Members(w) = Members(old) \ {p}
    BY <2>4, WithoutList
  <2>6. PICK q \in Seq(Task) : /\ q = IF head THEN <<p>> \o w ELSE Append(w, p)
                               /\ NoDup(q) /\ Members(q) = Members(old)
    <3>1. p \notin Members(w) /\ Members(w) \cup {p} = Members(old)
      BY <2>4, <2>5
    <3>2. Append(w, p) \in Seq(Task) /\ NoDup(Append(w, p)) /\ Members(Append(w, p)) = Members(w) \cup {p}
      BY <2>5, <3>1, AppendList
    <3>3. <<p>> \o w \in Seq(Task) /\ NoDup(<<p>> \o w) /\ Members(<<p>> \o w) = Members(w) \cup {p}
      BY <2>5, <3>1, PrependList
    <3>4. CASE head
      <4>1. PICK q : q = <<p>> \o w
        BY ZenonT(30)
      <4>. QED
        BY <3>1, <3>3, <3>4, <4>1, Zenon
    <3>5. CASE ~head
      <4>1. PICK q : q = Append(w, p)
        BY ZenonT(30)
      <4>. QED
        BY <3>1, <3>2, <3>5, <4>1, Zenon
    <3>. QED
      BY <3>4, <3>5
  <2>7. t = PutQueueOnly(s, c, i, q)
    BY <1>4, <2>2, <2>3, <2>5, <2>6, ZenonT(30) DEF requeue_task_rt, PutQueueOnly
  <2>8. /\ Only(s, t, c) /\ SamePushable(s, t, c) /\ SameCounts(s, t, c) /\ SameHighest(s, t, c)
        /\ SameOverload(s, t, c) /\ t.rq[c].queue = [s.rq[c].queue EXCEPT ![i] = q]
        /\ t.rq[c].bitmap = s.rq[c].bitmap
    BY <1>1, <1>2, <2>7, SetQueueOnly
  <2>9. RqOk(t, Q, c)
    <3>1. RqOk(s, Q, c) /\ t.task = s.task /\ s.rq[c].queue \in [RtPrio -> Seq(Task)]
      BY <1>1, <1>2, <2>8, StateParts, RqParts, ZenonT(60) DEF Only
    <3>3. \A j \in RtPrio : NoDup(t.rq[c].queue[j]) /\ Members(t.rq[c].queue[j]) = Members(s.rq[c].queue[j])
      <4>. SUFFICES ASSUME NEW j \in RtPrio
                    PROVE  NoDup(t.rq[c].queue[j]) /\ Members(t.rq[c].queue[j]) = Members(s.rq[c].queue[j])
        OBVIOUS
      <4>1. NoDup(s.rq[c].queue[j])
        BY <3>1 DEF RqOk, ListedOn
      <4>2. CASE j = i
        <5>1. t.rq[c].queue[j] = q
          BY <2>8, <3>1, <4>2
        <5>. QED
          BY <2>3, <2>6, <4>2, <5>1
      <4>3. CASE j # i
        <5>1. t.rq[c].queue[j] = s.rq[c].queue[j]
          BY <2>8, <3>1, <4>3
        <5>. QED
          BY <4>1, <5>1
      <4>. QED
        BY <4>2, <4>3
    <3>4. t.rq[c].bitmap = s.rq[c].bitmap
      BY <2>8
    <3>. QED
      BY <1>2, <2>8, <3>1, <3>3, <3>4, SameMembers, ZenonT(60)
  <2>10. /\ \A x \in Q : x \in Q \/ (x \in Task /\ s.task[x].cpu = c /\ s.task[x].prio \in RtPrio)
         /\ \A x \in Q : x \in Q \/ s.task[x].cpu = c
    OBVIOUS
  <2>. QED
    BY <1>2, <2>8, <2>9, <2>10, OtherRqs
<1>. QED
  BY <1>3, <1>4

-----------------------------------------------------------------------------
(* Changes of a task, and of what the class does not keep of a run queue.  *)

PutTask(s, p, v) == [s EXCEPT !.task[p] = v]

(* One task is set and nothing else.                                       *)
LEMMA SetTask ==
    ASSUME NEW s \in StateT, NEW p \in Task, NEW v \in TaskT, NEW t
    PROVE  t = PutTask(s, p, v) =>
              /\ t \in StateT /\ t.task[p] = v
              /\ \A x \in Task \ {p} : t.task[x] = s.task[x]
              /\ t.rq = s.rq /\ t.cpupri = s.cpupri /\ t.rto_mask = s.rto_mask
BY DEF StateT, PutTask

(* A queued task whose CPU, priority and number of allowed CPUs stay       *)
(* leaves the lists in order.                                              *)
LEMMA SetTaskQueues ==
    ASSUME NEW s, NEW Q, NEW p \in Task, NEW v \in TaskT, QueuesOk(s, Q),
           p \in Q => /\ v.prio = s.task[p].prio /\ v.cpu = s.task[p].cpu
                      /\ Cardinality(v.allowed) = Cardinality(s.task[p].allowed),
           NEW t, t = PutTask(s, p, v)
    PROVE  QueuesOk(t, Q)
<1>1. s \in StateT /\ Q \subseteq Task /\ (\A x \in Q : s.task[x].prio \in RtPrio) /\ \A d \in Cpu : RqOk(s, Q, d)
  BY QueuesParts
<1>2. /\ t \in StateT /\ t.task[p] = v /\ \A x \in Task \ {p} : t.task[x] = s.task[x]
      /\ t.rq = s.rq /\ t.cpupri = s.cpupri /\ t.rto_mask = s.rto_mask
  BY <1>1, SetTask
<1>3. \A x \in Q : /\ t.task[x].prio = s.task[x].prio /\ t.task[x].cpu = s.task[x].cpu
                   /\ NrAllowed(t, x) = NrAllowed(s, x)
  <2>. SUFFICES ASSUME NEW x \in Q
                PROVE  /\ t.task[x].prio = s.task[x].prio /\ t.task[x].cpu = s.task[x].cpu
                       /\ NrAllowed(t, x) = NrAllowed(s, x)
    OBVIOUS
  <2>1. CASE x = p
    BY <1>2, <2>1 DEF NrAllowed
  <2>2. CASE x # p
    <3>1. t.task[x] = s.task[x]
      BY <1>1, <1>2, <2>2
    <3>. QED
      BY <3>1 DEF NrAllowed
  <2>. QED
    BY <2>1, <2>2
<1>4. ASSUME NEW d \in Cpu PROVE RqOk(t, Q, d)
  <2>1. RqOk(s, Q, d) /\ t.rq[d] = s.rq[d] /\ t.cpupri[d] = s.cpupri[d] /\ t.rto_mask = s.rto_mask
        /\ Q \in SUBSET Task
    BY <1>1, <1>2
  <2>. QED
    BY <1>3, <2>1, SameRq
<1>5. \A x \in Q : t.task[x].prio \in RtPrio
  BY <1>1, <1>3
<1>. QED
  BY <1>1, <1>2, <1>4, <1>5, QueuesParts

(* A run queue whose lists and caches are those of r.                      *)
SameCaches(r, v) ==
    /\ v.queue = r.queue /\ v.bitmap = r.bitmap /\ v.rt_nr_running = r.rt_nr_running
    /\ v.rt_nr_migratory = r.rt_nr_migratory /\ v.overloaded = r.overloaded
    /\ v.hp_curr = r.hp_curr /\ v.pushable = r.pushable

PutRq(s, c, v) == [s EXCEPT !.rq[c] = v]

(* One run queue is set and nothing else.                                  *)
LEMMA SetRq ==
    ASSUME NEW s \in StateT, NEW c \in Cpu, NEW v \in RqT, NEW t
    PROVE  t = PutRq(s, c, v) =>
              /\ t \in StateT /\ t.rq[c] = v
              /\ \A d \in Cpu \ {c} : t.rq[d] = s.rq[d]
              /\ t.task = s.task /\ t.cpupri = s.cpupri /\ t.rto_mask = s.rto_mask
BY DEF StateT, PutRq

(* A run queue whose lists and cached values stay leaves the lists in      *)
(* order.                                                                  *)
LEMMA SetRqQueues ==
    ASSUME NEW s, NEW Q, NEW c \in Cpu, NEW v \in RqT, QueuesOk(s, Q), SameCaches(s.rq[c], v),
           NEW t, t = PutRq(s, c, v)
    PROVE  QueuesOk(t, Q)
<1>1. s \in StateT /\ Q \subseteq Task /\ (\A x \in Q : s.task[x].prio \in RtPrio) /\ \A d \in Cpu : RqOk(s, Q, d)
  BY QueuesParts
<1>2. /\ t \in StateT /\ t.rq[c] = v /\ \A d \in Cpu \ {c} : t.rq[d] = s.rq[d]
      /\ t.task = s.task /\ t.cpupri = s.cpupri /\ t.rto_mask = s.rto_mask
  BY <1>1, SetRq
<1>3. ASSUME NEW d \in Cpu PROVE RqOk(t, Q, d)
  <2>1. RqOk(s, Q, d) /\ t.cpupri[d] = s.cpupri[d] /\ t.rto_mask = s.rto_mask /\ t.task = s.task
        /\ Q \in SUBSET Task
    BY <1>1, <1>2
  <2>2. SameCaches(s.rq[d], t.rq[d])
    <3>1. CASE d = c
      BY <1>2, <3>1
    <3>2. CASE d # c
      BY <1>2, <3>2 DEF SameCaches
    <3>. QED
      BY <3>1, <3>2
  <2>3. \A p \in Task : NrAllowed(t, p) = NrAllowed(s, p)
    BY <2>1 DEF NrAllowed
  <2>. QED
    BY <2>1, <2>2, <2>3, SameRq DEF SameCaches
<1>. QED
  BY <1>1, <1>2, <1>3, QueuesParts

(* resched_task                                                            *)
LEMMA ReschedTask ==
    ASSUME NEW s \in StateT, NEW c \in Cpu, NEW t, t = resched_task(s, c)
    PROVE  /\ t \in StateT /\ t.task = s.task /\ t.rq[c].need_resched
           /\ \A Q : QueuesOk(s, Q) => QueuesOk(t, Q)
           /\ \A d \in Cpu : /\ t.rq[d].curr = s.rq[d].curr /\ t.rq[d].wake_list = s.rq[d].wake_list
                             /\ t.rq[d].ipi = s.rq[d].ipi /\ t.rq[d].rt_throttled = s.rq[d].rt_throttled
                             /\ t.rq[d].pushable = s.rq[d].pushable /\ t.rq[d].hp_curr = s.rq[d].hp_curr
                             /\ d # c => t.rq[d].need_resched = s.rq[d].need_resched
<1>1. s.rq[c] \in RqT
  BY StateParts
<1>2. PICK v : v = [s.rq[c] EXCEPT !.need_resched = TRUE]
  OBVIOUS
<1>3. [s.rq[c] EXCEPT !.need_resched = TRUE] \in RqT
  BY <1>1 DEF RqT
<1>4. v \in RqT /\ SameCaches(s.rq[c], v) /\ v.need_resched = TRUE /\ v.curr = s.rq[c].curr
      /\ v.wake_list = s.rq[c].wake_list /\ v.ipi = s.rq[c].ipi /\ v.rt_throttled = s.rq[c].rt_throttled
  BY <1>1, <1>2, <1>3 DEF RqT, SameCaches
<1>5. t = PutRq(s, c, v)
  BY <1>2 DEF resched_task, PutRq
<1>6. /\ t \in StateT /\ t.rq[c] = v /\ \A d \in Cpu \ {c} : t.rq[d] = s.rq[d]
      /\ t.task = s.task
  BY <1>4, <1>5, SetRq
<1>7. \A Q : QueuesOk(s, Q) => QueuesOk(t, Q)
  BY <1>4, <1>5, SetRqQueues
<1>8. ASSUME NEW d \in Cpu
      PROVE  /\ t.rq[d].curr = s.rq[d].curr /\ t.rq[d].wake_list = s.rq[d].wake_list
             /\ t.rq[d].ipi = s.rq[d].ipi /\ t.rq[d].rt_throttled = s.rq[d].rt_throttled
             /\ t.rq[d].pushable = s.rq[d].pushable /\ t.rq[d].hp_curr = s.rq[d].hp_curr
             /\ d # c => t.rq[d].need_resched = s.rq[d].need_resched
  <2>1. CASE d = c
    BY <1>4, <1>6, <2>1 DEF SameCaches
  <2>2. CASE d # c
    BY <1>6, <2>2
  <2>. QED
    BY <2>1, <2>2
<1>. QED
  BY <1>4, <1>6, <1>7, <1>8

(* activate_task and deactivate_task, for p at home on CPU c: the queued    *)
(* tasks are Q before and R after.                                         *)
Activates(s, Q, R, p, c) ==
    /\ QueuesOk(s, Q) /\ p \in Task \ Q /\ c = s.task[p].cpu
    /\ R = IF s.task[p].prio < MAX_RT_PRIO THEN Q \cup {p} ELSE Q

(* activate_task, for a task of either class.                              *)
LEMMA ActivateTask ==
    ASSUME NEW s, NEW Q, NEW R, NEW p, NEW c, NEW head \in BOOLEAN, Activates(s, Q, R, p, c),
           NEW t, t = activate_task(s, c, p, head)
    PROVE  QueuesOk(t, R) /\ KeepRq(s, t) /\ t.task = s.task /\ PushFrame(s, t, p)
<1>0. QueuesOk(s, Q) /\ p \in Task \ Q /\ c = s.task[p].cpu
  BY DEF Activates
<1>r. R = IF s.task[p].prio < MAX_RT_PRIO THEN Q \cup {p} ELSE Q
  BY DEF Activates
<1>1. s \in StateT /\ s.task[p].prio \in 0 .. MAX_RT_PRIO /\ c \in Cpu
  BY <1>0, StateParts, TaskParts DEF QueuesOk
<1>2. CASE s.task[p].prio < MAX_RT_PRIO
  <2>1. t = enqueue_task_rt(s, c, p, head)
    BY <1>0, <1>2, RtClass DEF activate_task
  <2>2. s.task[p].prio \in RtPrio
    BY <1>1, <1>2, RtRunQueueAssumption DEF RtPrio
  <2>r. R = Q \cup {p}
    BY <1>r, <1>2
  <2>3. QueuesOk(t, R) /\ Only(s, t, c) /\ PushFrame(s, t, p)
    BY <1>0, <2>1, <2>2, <2>r, EnqueueTask
  <2>4. KeepRq(s, t) /\ t.task = s.task
    BY <2>3, OnlyKeeps
  <2>. QED
    BY <1>2, <2>3, <2>4
<1>3. CASE ~(s.task[p].prio < MAX_RT_PRIO)
  <2>1. t = s /\ R = Q
    BY <1>0, <1>r, <1>3, RtClass DEF activate_task
  <2>. QED
    BY <1>0, <1>3, <2>1 DEF KeepRq, PushFrame
<1>. QED
  BY <1>2, <1>3

Deactivates(s, Q, R, p, c) ==
    /\ QueuesOk(s, Q) /\ p \in Task /\ c = s.task[p].cpu /\ R = Q \ {p}
    /\ p \in Q <=> s.task[p].prio < MAX_RT_PRIO

(* deactivate_task, for a task of either class; the task is pushable       *)
(* nowhere after it.                                                       *)
LEMMA DeactivateTask ==
    ASSUME NEW s, NEW Q, NEW R, NEW p, NEW c, Deactivates(s, Q, R, p, c),
           NEW t, t = deactivate_task(s, c, p)
    PROVE  /\ QueuesOk(t, R) /\ KeepRq(s, t) /\ t.task = s.task /\ PushFrame(s, t, p)
           /\ \A d \in Cpu : p \notin Members(t.rq[d].pushable)
<1>0. /\ QueuesOk(s, Q) /\ p \in Task /\ c = s.task[p].cpu /\ R = Q \ {p}
      /\ p \in Q <=> s.task[p].prio < MAX_RT_PRIO
  BY DEF Deactivates
<1>1. s \in StateT /\ c \in Cpu
  BY <1>0, StateParts, TaskParts DEF QueuesOk
<1>2. CASE p \in Q
  <2>1. t = dequeue_task_rt(s, c, p)
    BY <1>0, <1>2, RtClass DEF deactivate_task
  <2>2. QueuesOk(t, R) /\ Only(s, t, c) /\ PushFrame(s, t, p)
    BY <1>0, <1>2, <2>1, DequeueTask
  <2>3. KeepRq(s, t) /\ t.task = s.task
    BY <2>2, OnlyKeeps
  <2>4. p \notin R
    BY <1>0
  <2>5. \A d \in Cpu : p \notin Members(t.rq[d].pushable)
    BY <2>2, <2>4 DEF QueuesOk, Pushables, Migratory, On
  <2>. QED
    BY <2>2, <2>3, <2>5
<1>3. CASE p \notin Q
  <2>1. t = s
    BY <1>0, <1>3, RtClass DEF deactivate_task
  <2>2. R = Q
    BY <1>0, <1>3
  <2>3. \A d \in Cpu : p \notin Members(s.rq[d].pushable)
    BY <1>0, <1>3 DEF QueuesOk, Pushables, Migratory, On
  <2>. QED
    BY <1>0, <1>3, <2>1, <2>2, <2>3 DEF KeepRq, PushFrame
<1>. QED
  BY <1>2, <1>3

-----------------------------------------------------------------------------
(* The same for whole scheduler states.                                    *)

(* Only the task p differs, and is v.                                      *)
Sets(s, t, p, v) == t.task[p] = v /\ \A x \in Task \ {p} : t.task[x] = s.task[x]

(* The parts of StateOk.                                                   *)
LEMMA StateQueues ==
    ASSUME NEW s, StateOk(s)
    PROVE  /\ s \in StateT /\ QueuesOk(s, RtQueued(s)) /\ CurrOk(s)
           /\ \A p \in Task : s.task[p].on_rq => (p \in RtQueued(s) <=> s.task[p].prio < MAX_RT_PRIO)
BY DEF StateOk, QueuesOk, RtQueued

(* What runs is still in order if on_cpu, the CPUs of the running tasks    *)
(* and what runs are the same.                                             *)
LEMMA CurrKept ==
    ASSUME NEW s, NEW t, CurrOk(s), KeepRq(s, t),
           \A x \in Task : /\ t.task[x].on_cpu = s.task[x].on_cpu
                           /\ s.task[x].on_cpu => t.task[x].cpu = s.task[x].cpu,
           \A d \in Cpu : s.rq[d].curr \in Task => s.rq[d].curr \notin Members(t.rq[d].pushable),
           s \in StateT
    PROVE  CurrOk(t)
<1>1. \A x \in Task : s.task[x].cpu \in Cpu
  BY StateParts, TaskParts
<1>2. \A d \in Cpu : t.rq[d].curr = s.rq[d].curr
  BY DEF KeepRq
<1>3. ASSUME NEW d \in Cpu, t.rq[d].curr \in Task
      PROVE  /\ t.task[t.rq[d].curr].on_cpu /\ t.task[t.rq[d].curr].cpu = d
             /\ t.rq[d].curr \notin Members(t.rq[d].pushable)
  <2>1. PICK x \in Task : x = t.rq[d].curr /\ x = s.rq[d].curr
    BY <1>2, <1>3
  <2>2. s.task[x].on_cpu /\ s.task[x].cpu = d
    BY <1>3, <2>1 DEF CurrOk
  <2>3. t.task[x].on_cpu /\ t.task[x].cpu = d
    BY <2>2
  <2>. QED
    BY <1>3, <2>1, <2>3
<1>4. ASSUME NEW x \in Task, t.task[x].on_cpu PROVE t.rq[t.task[x].cpu].curr = x
  <2>1. s.task[x].on_cpu /\ t.task[x].cpu = s.task[x].cpu
    BY <1>4
  <2>2. s.rq[s.task[x].cpu].curr = x
    BY <2>1 DEF CurrOk
  <2>. QED
    BY <1>1, <1>2, <2>1, <2>2
<1>. QED
  BY <1>3, <1>4 DEF CurrOk

(* A task that runs has not become pushable.                               *)
LEMMA FrameCurr ==
    ASSUME NEW s, NEW t, NEW p, CurrOk(s), PushFrame(s, t, p)
    PROVE  \A d \in Cpu : s.rq[d].curr \in Task => s.rq[d].curr \notin Members(t.rq[d].pushable)
BY DEF CurrOk, PushFrame

(* MoveTask moves a queued task that does not run.                         *)
LEMMA MoveOk ==
    ASSUME NEW s, StateOk(s), NEW p \in Task, NEW from, NEW to \in Cpu, s.task[p].on_rq,
           ~s.task[p].on_cpu, s.task[p].cpu = from, NEW t, t = MoveTask(s, p, from, to)
    PROVE  StateOk(t) /\ KeepRq(s, t) /\ Sets(s, t, p, [s.task[p] EXCEPT !.cpu = to])
<1>1. /\ s \in StateT /\ QueuesOk(s, RtQueued(s)) /\ CurrOk(s)
      /\ p \in RtQueued(s) <=> s.task[p].prio < MAX_RT_PRIO
  BY StateQueues
<1>2. PICK Q : Q = RtQueued(s) \ {p}
  OBVIOUS
<1>3. PICK a : a = deactivate_task(s, from, p)
  OBVIOUS
<1>4. QueuesOk(a, Q) /\ KeepRq(s, a) /\ a.task = s.task /\ PushFrame(s, a, p)
  <2>1. Deactivates(s, RtQueued(s), Q, p, from)
    BY <1>1, <1>2 DEF Deactivates
  <2>. QED
    BY <1>3, <2>1, DeactivateTask
<1>5. s.task[p] \in TaskT /\ a \in StateT
  BY <1>1, <1>4, StateParts DEF QueuesOk
<1>6. [s.task[p] EXCEPT !.cpu = to] \in TaskT
  BY <1>5 DEF TaskT
<1>7. PICK v \in TaskT : v = [s.task[p] EXCEPT !.cpu = to]
  BY <1>6
<1>8. v.cpu = to /\ v.prio = s.task[p].prio /\ v.on_rq /\ v.on_cpu = s.task[p].on_cpu
  BY <1>5, <1>7 DEF TaskT
<1>9. PICK b : b = PutTask(a, p, v)
  OBVIOUS
<1>10. /\ b \in StateT /\ b.task[p] = v /\ \A x \in Task \ {p} : b.task[x] = s.task[x]
       /\ b.rq = a.rq
  <2>1. /\ b \in StateT /\ b.task[p] = v /\ \A x \in Task \ {p} : b.task[x] = a.task[x]
        /\ b.rq = a.rq
    BY <1>5, <1>9, SetTask, SMTT(30)
  <2>. QED
    BY <1>4, <2>1
<1>11. p \notin Q
  BY <1>2
<1>12. QueuesOk(b, Q)
  BY <1>4, <1>9, <1>11, SetTaskQueues
<1>13. t = activate_task(b, to, p, FALSE)
  BY <1>3, <1>4, <1>7, <1>9 DEF MoveTask, PutTask
<1>14. PICK R : R = IF v.prio < MAX_RT_PRIO THEN Q \cup {p} ELSE Q
  OBVIOUS
<1>15. QueuesOk(t, R) /\ KeepRq(b, t) /\ t.task = b.task /\ PushFrame(b, t, p)
  <2>1. Activates(b, Q, R, p, to)
    BY <1>8, <1>10, <1>11, <1>12, <1>14 DEF Activates
  <2>. QED
    BY <1>13, <2>1, ActivateTask
<1>16. Sets(s, t, p, v)
  BY <1>10, <1>15 DEF Sets
<1>17. KeepRq(s, t) /\ PushFrame(s, t, p)
  <2>1. KeepRq(s, t)
    BY <1>4, <1>10, <1>15 DEF KeepRq
  <2>2. PushFrame(s, t, p)
    BY <1>4, <1>10, <1>15 DEF PushFrame, KeepRq
  <2>. QED
    BY <2>1, <2>2
<1>18. RtQueued(t) = R
  <2>1. ASSUME NEW x \in Task PROVE x \in RtQueued(t) <=> x \in R
    <3>1. CASE x = p
      BY <1>8, <1>11, <1>14, <1>16, <3>1 DEF RtQueued, Sets
    <3>2. CASE x # p
      <4>1. t.task[x] = s.task[x]
        BY <1>16, <3>2 DEF Sets
      <4>. QED
        BY <1>2, <1>14, <3>2, <4>1 DEF RtQueued
    <3>. QED
      BY <3>1, <3>2
  <2>2. RtQueued(t) \subseteq Task /\ R \subseteq Task
    BY <1>2, <1>14 DEF RtQueued
  <2>. QED
    BY <2>1, <2>2
<1>19. CurrOk(t)
  <2>1. \A x \in Task : /\ t.task[x].on_cpu = s.task[x].on_cpu
                        /\ s.task[x].on_cpu => t.task[x].cpu = s.task[x].cpu
    BY <1>8, <1>16 DEF Sets
  <2>2. \A d \in Cpu : s.rq[d].curr \in Task => s.rq[d].curr \notin Members(t.rq[d].pushable)
    BY <1>1, <1>17, FrameCurr
  <2>. QED
    BY <1>1, <1>17, <2>1, <2>2, CurrKept
<1>. QED
  BY <1>7, <1>15, <1>16, <1>17, <1>18, <1>19 DEF StateOk

(* A change of a task that the queues do not depend on.                    *)
LEMMA SetTaskOk ==
    ASSUME NEW s, StateOk(s), NEW p \in Task, NEW v \in TaskT,
           v.on_cpu = s.task[p].on_cpu, v.on_cpu => v.cpu = s.task[p].cpu,
           v.on_rq = s.task[p].on_rq,
           s.task[p].on_rq => v.prio = s.task[p].prio /\ v.cpu = s.task[p].cpu,
           p \in RtQueued(s) => Cardinality(v.allowed) = Cardinality(s.task[p].allowed),
           NEW t, t = PutTask(s, p, v)
    PROVE  StateOk(t) /\ t.rq = s.rq /\ t.cpupri = s.cpupri /\ t.rto_mask = s.rto_mask /\ Sets(s, t, p, v)
<1>1. s \in StateT /\ QueuesOk(s, RtQueued(s)) /\ CurrOk(s)
  BY StateQueues
<1>2. /\ t \in StateT /\ t.task[p] = v /\ \A x \in Task \ {p} : t.task[x] = s.task[x]
      /\ t.rq = s.rq /\ t.cpupri = s.cpupri /\ t.rto_mask = s.rto_mask
  BY <1>1, SetTask
<1>3. p \in RtQueued(s) => s.task[p].on_rq
  BY DEF RtQueued
<1>4. QueuesOk(t, RtQueued(s))
  BY <1>1, <1>3, SetTaskQueues
<1>5. RtQueued(t) = RtQueued(s)
  BY <1>2 DEF RtQueued
<1>6. CurrOk(t)
  <2>1. KeepRq(s, t)
    BY <1>2 DEF KeepRq
  <2>2. \A x \in Task : /\ t.task[x].on_cpu = s.task[x].on_cpu
                        /\ s.task[x].on_cpu => t.task[x].cpu = s.task[x].cpu
    BY <1>2
  <2>3. \A d \in Cpu : s.rq[d].curr \in Task => s.rq[d].curr \notin Members(t.rq[d].pushable)
    BY <1>1, <1>2 DEF CurrOk
  <2>. QED
    BY <1>1, <2>1, <2>2, <2>3, CurrKept
<1>. QED
  BY <1>2, <1>4, <1>5, <1>6 DEF StateOk, Sets

(* A change of a run queue outside the class, but for curr.                *)
LEMMA SetRqOk ==
    ASSUME NEW s, StateOk(s), NEW c \in Cpu, NEW v \in RqT, SameCaches(s.rq[c], v),
           v.curr = s.rq[c].curr, NEW t, t = PutRq(s, c, v)
    PROVE  /\ StateOk(t) /\ t.task = s.task /\ t.rq[c] = v
           /\ \A d \in Cpu \ {c} : t.rq[d] = s.rq[d]
<1>1. s \in StateT /\ QueuesOk(s, RtQueued(s)) /\ CurrOk(s)
  BY StateQueues
<1>2. /\ t \in StateT /\ t.rq[c] = v /\ (\A d \in Cpu \ {c} : t.rq[d] = s.rq[d]) /\ t.task = s.task
  BY <1>1, SetRq
<1>3. QueuesOk(t, RtQueued(s))
  BY <1>1, SetRqQueues
<1>4. RtQueued(t) = RtQueued(s)
  BY <1>2 DEF RtQueued
<1>5. \A d \in Cpu : t.rq[d].curr = s.rq[d].curr /\ t.rq[d].pushable = s.rq[d].pushable
  BY <1>2 DEF SameCaches
<1>6. \A x \in Task : s.task[x].cpu \in Cpu
  BY <1>1, StateParts, TaskParts
<1>7. CurrOk(t)
  BY <1>1, <1>2, <1>5, <1>6 DEF CurrOk
<1>. QED
  BY <1>2, <1>3, <1>4, <1>7 DEF StateOk

-----------------------------------------------------------------------------
(* Steps that leave every CPU with the task it runs.                       *)

Calm(s, t) ==
    \A d \in Cpu : /\ t.rq[d].curr = s.rq[d].curr /\ t.rq[d].wake_list = s.rq[d].wake_list
                   /\ t.rq[d].ipi = s.rq[d].ipi /\ t.rq[d].rt_throttled = s.rq[d].rt_throttled
                   /\ s.rq[d].need_resched => t.rq[d].need_resched

(* Two calm steps make a calm one.                                         *)
LEMMA CalmTrans ==
    ASSUME NEW s, NEW a, NEW t, Calm(s, a), Calm(a, t) PROVE Calm(s, t)
BY DEF Calm

(* A step that keeps the flags is calm.                                    *)
LEMMA KeepCalm ==
    ASSUME NEW s, NEW t, KeepRq(s, t) PROVE Calm(s, t)
BY DEF KeepRq, Calm

(* A change of the lists that leaves the queued tasks and those that run.  *)
LEMMA OnlyOk ==
    ASSUME NEW s, NEW t, NEW c \in Cpu, StateOk(s), Only(s, t, c), QueuesOk(t, RtQueued(s)),
           \A x \in Members(t.rq[c].pushable) : x \in Members(s.rq[c].pushable) \/ x # s.rq[c].curr
    PROVE  StateOk(t) /\ KeepRq(s, t) /\ t.task = s.task
<1>1. s \in StateT /\ CurrOk(s)
  BY StateQueues
<1>2. /\ KeepRq(s, t) /\ t \in StateT /\ t.task = s.task
      /\ \A d \in Cpu \ {c} : t.rq[d].pushable = s.rq[d].pushable
  BY OnlyKeeps
<1>3. RtQueued(t) = RtQueued(s)
  BY <1>2 DEF RtQueued
<1>4. \A d \in Cpu : s.rq[d].curr \in Task => s.rq[d].curr \notin Members(t.rq[d].pushable)
  BY <1>1, <1>2 DEF CurrOk
<1>5. \A x \in Task : /\ t.task[x].on_cpu = s.task[x].on_cpu
                      /\ s.task[x].on_cpu => t.task[x].cpu = s.task[x].cpu
  BY <1>2
<1>6. CurrOk(t)
  BY <1>1, <1>2, <1>4, <1>5, CurrKept
<1>. QED
  BY <1>2, <1>3, <1>6 DEF StateOk

(* resched_task sets the flag of CPU c and nothing else.                   *)
LEMMA ReschedOk ==
    ASSUME NEW s, StateOk(s), NEW c \in Cpu, NEW t, t = resched_task(s, c)
    PROVE  StateOk(t) /\ Calm(s, t) /\ t.task = s.task /\ t.rq[c].need_resched
<1>1. s \in StateT /\ QueuesOk(s, RtQueued(s)) /\ CurrOk(s)
  BY StateQueues
<1>2. /\ t.task = s.task /\ t.rq[c].need_resched
      /\ \A Q : QueuesOk(s, Q) => QueuesOk(t, Q)
      /\ \A d \in Cpu : /\ t.rq[d].curr = s.rq[d].curr /\ t.rq[d].wake_list = s.rq[d].wake_list
                        /\ t.rq[d].ipi = s.rq[d].ipi /\ t.rq[d].rt_throttled = s.rq[d].rt_throttled
                        /\ t.rq[d].pushable = s.rq[d].pushable
                        /\ d # c => t.rq[d].need_resched = s.rq[d].need_resched
  BY <1>1, ReschedTask
<1>3. QueuesOk(t, RtQueued(s)) /\ RtQueued(t) = RtQueued(s)
  BY <1>1, <1>2 DEF RtQueued
<1>4. \A x \in Task : s.task[x].cpu \in Cpu
  BY <1>1, StateParts, TaskParts
<1>5. CurrOk(t)
  BY <1>1, <1>2, <1>4 DEF CurrOk
<1>6. Calm(s, t)
  BY <1>2 DEF Calm
<1>. QED
  BY <1>2, <1>3, <1>5, <1>6 DEF StateOk

(* requeue_task_rt moves a task within its list.                           *)
LEMMA RequeueOk ==
    ASSUME NEW s, StateOk(s), NEW p \in Task, NEW c, c = s.task[p].cpu, NEW head \in BOOLEAN,
           NEW t, t = requeue_task_rt(s, c, p, head)
    PROVE  StateOk(t) /\ KeepRq(s, t) /\ t.task = s.task
<1>1. s \in StateT /\ QueuesOk(s, RtQueued(s))
  BY StateQueues
<1>2. c \in Cpu
  BY <1>1, StateParts, TaskParts
<1>3. QueuesOk(t, RtQueued(s)) /\ Only(s, t, c) /\ SamePushable(s, t, c)
  BY <1>1, RequeueTask
<1>4. \A x \in Members(t.rq[c].pushable) : x \in Members(s.rq[c].pushable) \/ x # s.rq[c].curr
  BY <1>3 DEF SamePushable
<1>. QED
  BY <1>2, <1>3, <1>4, OnlyOk

(* A task is dropped from the pushable list.                               *)
LEMMA DropOk ==
    ASSUME NEW s, StateOk(s), NEW p, NEW c \in Cpu, NEW t, t = dequeue_pushable_task(s, c, p)
    PROVE  StateOk(t) /\ KeepRq(s, t) /\ t.task = s.task
<1>1. s \in StateT /\ QueuesOk(s, RtQueued(s))
  BY StateQueues
<1>2. QueuesOk(t, RtQueued(s)) /\ Only(s, t, c) /\ Members(t.rq[c].pushable) = Members(s.rq[c].pushable) \ {p}
  BY <1>1, DequeuePushable
<1>3. \A x \in Members(t.rq[c].pushable) : x \in Members(s.rq[c].pushable) \/ x # s.rq[c].curr
  BY <1>2
<1>. QED
  BY <1>2, <1>3, OnlyOk

(* post_schedule, stop and wake_list                                       *)
LEMMA PostOk ==
    ASSUME NEW s, StateOk(s), NEW c \in Cpu, NEW b \in BOOLEAN, NEW t
    PROVE  t = [s EXCEPT !.rq[c].post_schedule = b] =>
              StateOk(t) /\ KeepRq(s, t) /\ t.task = s.task
<1>0. SUFFICES ASSUME t = [s EXCEPT !.rq[c].post_schedule = b]
               PROVE  StateOk(t) /\ KeepRq(s, t) /\ t.task = s.task
  OBVIOUS
<1>1. s.rq[c] \in RqT
  BY StateQueues, StateParts
<1>2. [s.rq[c] EXCEPT !.post_schedule = b] \in RqT
  BY <1>1 DEF RqT
<1>3. PICK v \in RqT : v = [s.rq[c] EXCEPT !.post_schedule = b]
  BY <1>2
<1>4. /\ SameCaches(s.rq[c], v) /\ v.curr = s.rq[c].curr /\ v.need_resched = s.rq[c].need_resched
      /\ v.wake_list = s.rq[c].wake_list /\ v.ipi = s.rq[c].ipi /\ v.rt_throttled = s.rq[c].rt_throttled
  BY <1>1, <1>3 DEF RqT, SameCaches
<1>5. t = PutRq(s, c, v)
  BY <1>0, <1>3 DEF PutRq
<1>6. StateOk(t) /\ t.task = s.task /\ t.rq[c] = v /\ \A d \in Cpu \ {c} : t.rq[d] = s.rq[d]
  BY <1>4, <1>5, SetRqOk
<1>. QED
  BY <1>4, <1>6 DEF KeepRq

(* The stopper of a CPU is woken, or is done.                              *)
LEMMA StopOk ==
    ASSUME NEW s, StateOk(s), NEW c \in Cpu, NEW b \in BOOLEAN, NEW t
    PROVE  t = [s EXCEPT !.rq[c].stop = b] =>
              StateOk(t) /\ KeepRq(s, t) /\ t.task = s.task
<1>0. SUFFICES ASSUME t = [s EXCEPT !.rq[c].stop = b]
               PROVE  StateOk(t) /\ KeepRq(s, t) /\ t.task = s.task
  OBVIOUS
<1>1. s.rq[c] \in RqT
  BY StateQueues, StateParts
<1>2. [s.rq[c] EXCEPT !.stop = b] \in RqT
  BY <1>1 DEF RqT
<1>3. PICK v \in RqT : v = [s.rq[c] EXCEPT !.stop = b]
  BY <1>2
<1>4. /\ SameCaches(s.rq[c], v) /\ v.curr = s.rq[c].curr /\ v.need_resched = s.rq[c].need_resched
      /\ v.wake_list = s.rq[c].wake_list /\ v.ipi = s.rq[c].ipi /\ v.rt_throttled = s.rq[c].rt_throttled
  BY <1>1, <1>3 DEF RqT, SameCaches
<1>5. t = PutRq(s, c, v)
  BY <1>0, <1>3 DEF PutRq
<1>6. StateOk(t) /\ t.task = s.task /\ t.rq[c] = v /\ \A d \in Cpu \ {c} : t.rq[d] = s.rq[d]
  BY <1>4, <1>5, SetRqOk
<1>. QED
  BY <1>4, <1>6 DEF KeepRq

(* CPU c of t is throttled or is not, as b says, and nothing else changed. *)
Throttles(s, t, c, b) ==
    /\ t.task = s.task /\ t.rq[c].rt_throttled = b /\ (\A d \in Cpu \ {c} : t.rq[d] = s.rq[d])
    /\ t.rq[c].curr = s.rq[c].curr /\ t.rq[c].need_resched = s.rq[c].need_resched
    /\ t.rq[c].wake_list = s.rq[c].wake_list /\ t.rq[c].ipi = s.rq[c].ipi

(* A run queue is throttled or released.                                   *)
LEMMA ThrottledOk ==
    ASSUME NEW s, StateOk(s), NEW c \in Cpu, NEW b \in BOOLEAN, NEW t
    PROVE  t = [s EXCEPT !.rq[c].rt_throttled = b] => StateOk(t) /\ Throttles(s, t, c, b)
<1>0. SUFFICES ASSUME t = [s EXCEPT !.rq[c].rt_throttled = b]
               PROVE  StateOk(t) /\ Throttles(s, t, c, b)
  OBVIOUS
<1>1. s.rq[c] \in RqT
  BY StateQueues, StateParts
<1>2. [s.rq[c] EXCEPT !.rt_throttled = b] \in RqT
  BY <1>1 DEF RqT
<1>3. PICK v \in RqT : v = [s.rq[c] EXCEPT !.rt_throttled = b]
  BY <1>2
<1>4. /\ SameCaches(s.rq[c], v) /\ v.curr = s.rq[c].curr /\ v.need_resched = s.rq[c].need_resched
      /\ v.wake_list = s.rq[c].wake_list /\ v.ipi = s.rq[c].ipi /\ v.rt_throttled = b
  BY <1>1, <1>3 DEF RqT, SameCaches
<1>5. t = PutRq(s, c, v)
  BY <1>0, <1>3 DEF PutRq
<1>6. StateOk(t) /\ t.task = s.task /\ t.rq[c] = v /\ \A d \in Cpu \ {c} : t.rq[d] = s.rq[d]
  BY <1>4, <1>5, SetRqOk
<1>. QED
  BY <1>4, <1>6 DEF Throttles

-----------------------------------------------------------------------------
(* check_preempt_curr                                                      *)

(* The priority and the class of what a CPU may run.                       *)
LEMMA ClassFacts ==
    ASSUME NEW s \in StateT, NEW q \in Task \cup {Idle, Stopper}
    PROVE  /\ q \in Task => /\ PrioOf(s, q) = s.task[q].prio
                            /\ ClassRank(s, q) = IF s.task[q].prio < MAX_RT_PRIO THEN 2 ELSE 3
           /\ q = Idle => ClassRank(s, q) = 4 /\ PrioOf(s, q) = MAX_PRIO
           /\ q = Stopper => ClassRank(s, q) = 1 /\ PrioOf(s, q) = 0
           /\ PrioOf(s, q) \in 0 .. MAX_PRIO
<1>1. q \in Task => /\ PrioOf(s, q) = s.task[q].prio /\ s.task[q].prio \in 0 .. MAX_RT_PRIO
                    /\ ClassRank(s, q) = IF s.task[q].prio < MAX_RT_PRIO THEN 2 ELSE 3
  BY RtRunQueueAssumption, StateParts, TaskParts DEF PrioOf, ClassRank, rt_prio
<1>2. q = Idle => ClassRank(s, q) = 4 /\ PrioOf(s, q) = MAX_PRIO
  BY RtRunQueueAssumption DEF PrioOf, ClassRank, rt_prio
<1>3. q = Stopper => ClassRank(s, q) = 1 /\ PrioOf(s, q) = 0
  BY RtRunQueueAssumption DEF PrioOf, ClassRank, rt_prio
<1>. QED
  BY <1>1, <1>2, <1>3, RtRunQueueAssumption DEF MAX_PRIO

(* What runs goes on if it is as important, or a reschedule is on its way. *)
LEMMA PreemptCases ==
    ASSUME NEW s \in StateT, NEW p \in Task, NEW c \in Cpu, NEW t, t = check_preempt_curr(s, c, p)
    PROVE  \/ t = s /\ (s.rq[c].need_resched \/ PrioOf(s, s.rq[c].curr) <= s.task[p].prio)
           \/ t = resched_task(s, c)
           \/ \E h \in BOOLEAN : /\ s.task[p].prio < MAX_RT_PRIO
                                 /\ t = resched_task(requeue_task_rt(s, c, p, h), c)
<1>1. PICK q \in Task \cup {Idle, Stopper} : q = s.rq[c].curr
  BY StateParts, RqParts
<1>2. /\ q \in Task => /\ PrioOf(s, q) = s.task[q].prio /\ s.task[q].prio \in 0 .. MAX_RT_PRIO
                       /\ ClassRank(s, q) = IF s.task[q].prio < MAX_RT_PRIO THEN 2 ELSE 3
      /\ q = Idle => ClassRank(s, q) = 4 /\ PrioOf(s, q) = MAX_PRIO
      /\ q = Stopper => ClassRank(s, q) = 1 /\ PrioOf(s, q) = 0
  BY ClassFacts, StateParts, TaskParts
<1>3. /\ ClassRank(s, p) = IF s.task[p].prio < MAX_RT_PRIO THEN 2 ELSE 3
      /\ s.task[p].prio \in 0 .. MAX_RT_PRIO
  BY ClassFacts, StateParts, TaskParts
<1>4. CASE ClassRank(s, p) < ClassRank(s, q)
  <2>1. t = resched_task(s, c)
    BY <1>1, <1>4 DEF check_preempt_curr, IsRtClass
  <2>. QED
    BY <2>1, Zenon
<1>5. CASE ~(ClassRank(s, p) < ClassRank(s, q)) /\ IsRtClass(s, p) /\ IsRtClass(s, q)
  <2>1. t = check_preempt_curr_rt(s, c, p)
    BY <1>1, <1>5 DEF check_preempt_curr
  <2>2. q \in Task /\ PrioOf(s, q) \in Int /\ s.task[p].prio < MAX_RT_PRIO
    BY <1>2, <1>3, <1>5, RtRunQueueAssumption DEF IsRtClass
  <2>3. CASE s.task[p].prio < PrioOf(s, q)
    <3>1. t = resched_task(s, c)
      BY <1>1, <1>3, <2>1, <2>2, <2>3 DEF check_preempt_curr_rt
    <3>. QED
      BY <3>1, Zenon
  <2>4. CASE s.task[p].prio = PrioOf(s, q) /\ ~s.rq[c].need_resched
    <3>1. t = check_preempt_equal_prio(s, c, p)
      BY <1>1, <1>3, <2>1, <2>2, <2>4 DEF check_preempt_curr_rt
    <3>2. PICK h \in BOOLEAN : h = TRUE
      OBVIOUS
    <3>3. t = s \/ t = resched_task(requeue_task_rt(s, c, p, h), c)
      BY <3>1, <3>2 DEF check_preempt_equal_prio
    <3>4. PrioOf(s, s.rq[c].curr) <= s.task[p].prio
      BY <1>1, <1>3, <2>4
    <3>. QED
      BY <2>2, <3>3, <3>4, Zenon
  <2>5. CASE ~(s.task[p].prio < PrioOf(s, q)) /\ ~(s.task[p].prio = PrioOf(s, q) /\ ~s.rq[c].need_resched)
    <3>1. t = s
      BY <1>1, <2>1, <2>5 DEF check_preempt_curr_rt
    <3>2. s.rq[c].need_resched \/ PrioOf(s, s.rq[c].curr) <= s.task[p].prio
      BY <1>1, <1>3, <2>2, <2>5
    <3>. QED
      BY <3>1, <3>2, Zenon
  <2>. QED
    BY <2>3, <2>4, <2>5
<1>6. CASE ~(ClassRank(s, p) < ClassRank(s, q)) /\ ~(IsRtClass(s, p) /\ IsRtClass(s, q))
  <2>1. t = s
    BY <1>1, <1>6 DEF check_preempt_curr
  <2>2. PrioOf(s, q) <= s.task[p].prio
    <3>1. CASE q = Stopper
      BY <1>2, <1>3, <3>1, RtRunQueueAssumption
    <3>2. CASE q = Idle
      BY <1>2, <1>3, <1>6, <3>2, RtRunQueueAssumption
    <3>3. CASE q \in Task
      BY <1>2, <1>3, <1>6, <3>3, RtRunQueueAssumption DEF IsRtClass
    <3>. QED
      BY <3>1, <3>2, <3>3
  <2>. QED
    BY <1>1, <2>1, <2>2
<1>. QED
  BY <1>4, <1>5, <1>6

(* check_preempt_curr: after it CPU c is rescheduled, or runs a task that  *)
(* is not below p.                                                         *)
LEMMA CheckPreemptOk ==
    ASSUME NEW s, StateOk(s), NEW p \in Task, NEW c \in Cpu,
           s.task[p].prio < MAX_RT_PRIO => c = s.task[p].cpu,
           NEW t, t = check_preempt_curr(s, c, p)
    PROVE  /\ StateOk(t) /\ Calm(s, t) /\ t.task = s.task
           /\ t.rq[c].need_resched \/ PrioOf(t, t.rq[c].curr) <= t.task[p].prio
<1>1. s \in StateT
  BY StateQueues
<1>2. CASE t = s /\ (s.rq[c].need_resched \/ PrioOf(s, s.rq[c].curr) <= s.task[p].prio)
  BY <1>2 DEF Calm
<1>3. CASE t = resched_task(s, c)
  BY <1>3, ReschedOk
<1>4. ASSUME NEW h \in BOOLEAN, s.task[p].prio < MAX_RT_PRIO,
             t = resched_task(requeue_task_rt(s, c, p, h), c)
      PROVE  /\ StateOk(t) /\ Calm(s, t) /\ t.task = s.task
             /\ t.rq[c].need_resched \/ PrioOf(t, t.rq[c].curr) <= t.task[p].prio
  <2>1. PICK a : a = requeue_task_rt(s, c, p, h)
    OBVIOUS
  <2>2. StateOk(a) /\ KeepRq(s, a) /\ a.task = s.task
    <3>1. c = s.task[p].cpu
      BY <1>4, Zenon
    <3>. QED
      BY <2>1, <3>1, RequeueOk
  <2>3. StateOk(t) /\ Calm(a, t) /\ t.task = a.task /\ t.rq[c].need_resched
    <3>1. t = resched_task(a, c)
      BY <1>4, <2>1, Zenon
    <3>. QED
      BY <2>2, <3>1, ReschedOk
  <2>4. Calm(s, t)
    BY <2>2, <2>3, KeepCalm, CalmTrans
  <2>. QED
    BY <2>2, <2>3, <2>4
<1>5. \/ t = s /\ (s.rq[c].need_resched \/ PrioOf(s, s.rq[c].curr) <= s.task[p].prio)
      \/ t = resched_task(s, c)
      \/ \E h \in BOOLEAN : /\ s.task[p].prio < MAX_RT_PRIO
                            /\ t = resched_task(requeue_task_rt(s, c, p, h), c)
  BY <1>1, PreemptCases
<1>. QED
  BY <1>2, <1>3, <1>4, <1>5, Zenon

-----------------------------------------------------------------------------
(* A task that is taken off its queue, changed and put back.               *)

(* One task is changed to v, and the lists hold what they should.          *)
LEMMA Assemble ==
    ASSUME NEW s, NEW t, NEW p \in Task, NEW v \in TaskT, NEW R, StateOk(s), QueuesOk(t, R),
           KeepRq(s, t), PushFrame(s, t, p), Sets(s, t, p, v),
           v.on_cpu = s.task[p].on_cpu, v.on_cpu => v.cpu = s.task[p].cpu,
           \A x \in Task : x \in R <=> IF x = p THEN v.on_rq /\ v.prio < MAX_RT_PRIO ELSE x \in RtQueued(s)
    PROVE  StateOk(t)
<1>1. s \in StateT /\ CurrOk(s)
  BY StateQueues
<1>2. RtQueued(t) = R
  <2>1. ASSUME NEW x \in Task PROVE x \in RtQueued(t) <=> x \in R
    <3>1. CASE x = p
      BY <3>1 DEF RtQueued, Sets
    <3>2. CASE x # p
      <4>1. t.task[x] = s.task[x]
        BY <3>2 DEF Sets
      <4>. QED
        BY <3>2, <4>1 DEF RtQueued
    <3>. QED
      BY <3>1, <3>2
  <2>2. RtQueued(t) \subseteq Task /\ R \subseteq Task
    BY DEF RtQueued, QueuesOk
  <2>. QED
    BY <2>1, <2>2
<1>3. \A x \in Task : /\ t.task[x].on_cpu = s.task[x].on_cpu
                      /\ s.task[x].on_cpu => t.task[x].cpu = s.task[x].cpu
  BY DEF Sets
<1>4. \A d \in Cpu : s.rq[d].curr \in Task => s.rq[d].curr \notin Members(t.rq[d].pushable)
  BY <1>1, FrameCurr
<1>5. CurrOk(t)
  BY <1>1, <1>3, <1>4, CurrKept
<1>. QED
  BY <1>2, <1>5 DEF StateOk

(* A queued task is taken off, with on_rq still set.                       *)
LEMMA OffOk ==
    ASSUME NEW s, StateOk(s), NEW p \in Task, s.task[p].on_rq, NEW c, c = s.task[p].cpu,
           NEW Q, Q = RtQueued(s) \ {p}, NEW t, t = deactivate_task(s, c, p)
    PROVE  QueuesOk(t, Q) /\ KeepRq(s, t) /\ t.task = s.task /\ PushFrame(s, t, p)
<1>1. /\ QueuesOk(s, RtQueued(s))
      /\ p \in RtQueued(s) <=> s.task[p].prio < MAX_RT_PRIO
  BY StateQueues
<1>2. Deactivates(s, RtQueued(s), Q, p, c)
  BY <1>1 DEF Deactivates
<1>. QED
  BY <1>2, DeactivateTask

(* schedule() of a task that sleeps                                        *)
LEMMA SleepOk ==
    ASSUME NEW s, StateOk(s), NEW p \in Task, s.task[p].on_rq, NEW c, c = s.task[p].cpu, NEW t
    PROVE  t = [deactivate_task(s, c, p) EXCEPT !.task[p].on_rq = FALSE] =>
              StateOk(t) /\ KeepRq(s, t) /\ Sets(s, t, p, [s.task[p] EXCEPT !.on_rq = FALSE])
<1>0. SUFFICES ASSUME t = [deactivate_task(s, c, p) EXCEPT !.task[p].on_rq = FALSE]
               PROVE  StateOk(t) /\ KeepRq(s, t) /\ Sets(s, t, p, [s.task[p] EXCEPT !.on_rq = FALSE])
  OBVIOUS
<1>1. PICK Q : Q = RtQueued(s) \ {p}
  OBVIOUS
<1>2. PICK a : a = deactivate_task(s, c, p)
  OBVIOUS
<1>3. QueuesOk(a, Q) /\ KeepRq(s, a) /\ a.task = s.task /\ PushFrame(s, a, p)
  BY <1>1, <1>2, OffOk
<1>4. s.task[p] \in TaskT /\ a \in StateT
  BY <1>3, StateQueues, StateParts DEF QueuesOk
<1>5. [s.task[p] EXCEPT !.on_rq = FALSE] \in TaskT
  BY <1>4 DEF TaskT
<1>6. PICK v \in TaskT : v = [s.task[p] EXCEPT !.on_rq = FALSE]
  BY <1>5
<1>7. v.cpu = s.task[p].cpu /\ v.on_rq = FALSE /\ v.on_cpu = s.task[p].on_cpu
  BY <1>4, <1>6 DEF TaskT
<1>8. t = PutTask(a, p, v)
  BY <1>0, <1>2, <1>3, <1>6 DEF PutTask
<1>9. p \notin Q
  BY <1>1
<1>10. QueuesOk(t, Q)
  BY <1>3, <1>8, <1>9, SetTaskQueues
<1>11. t.rq = a.rq /\ t.task[p] = v /\ \A x \in Task \ {p} : t.task[x] = a.task[x]
  BY <1>4, <1>8, SetTask
<1>12. KeepRq(s, t)
  BY <1>3, <1>11 DEF KeepRq
<1>13. PushFrame(s, t, p)
  BY <1>3, <1>11 DEF PushFrame
<1>14. Sets(s, t, p, v)
  BY <1>3, <1>11 DEF Sets
<1>15. \A x \in Task : x \in Q <=> IF x = p THEN v.on_rq /\ v.prio < MAX_RT_PRIO ELSE x \in RtQueued(s)
  BY <1>1, <1>7
<1>16. StateOk(t)
  BY <1>7, <1>10, <1>12, <1>13, <1>14, <1>15, Assemble
<1>. QED
  BY <1>6, <1>12, <1>14, <1>16

(* ttwu_activate, and the enqueueing of a new task                         *)
LEMMA ActivateOk ==
    ASSUME NEW s, StateOk(s), NEW p \in Task, ~s.task[p].on_rq, NEW c, s.task[p].cpu = c, NEW t
    PROVE  t = [activate_task(s, c, p, FALSE) EXCEPT !.task[p].on_rq = TRUE] =>
              StateOk(t) /\ KeepRq(s, t) /\ Sets(s, t, p, [s.task[p] EXCEPT !.on_rq = TRUE])
<1>0. SUFFICES ASSUME t = [activate_task(s, c, p, FALSE) EXCEPT !.task[p].on_rq = TRUE]
               PROVE  StateOk(t) /\ KeepRq(s, t) /\ Sets(s, t, p, [s.task[p] EXCEPT !.on_rq = TRUE])
  OBVIOUS
<1>1. s \in StateT /\ QueuesOk(s, RtQueued(s)) /\ p \notin RtQueued(s)
  BY StateQueues DEF RtQueued
<1>2. PICK a : a = activate_task(s, c, p, FALSE)
  OBVIOUS
<1>r. PICK R : R = IF s.task[p].prio < MAX_RT_PRIO THEN RtQueued(s) \cup {p} ELSE RtQueued(s)
  OBVIOUS
<1>a. Activates(s, RtQueued(s), R, p, c)
  BY <1>1, <1>r DEF Activates
<1>3. QueuesOk(a, R) /\ KeepRq(s, a) /\ a.task = s.task /\ PushFrame(s, a, p)
  <2>1. PICK head \in BOOLEAN : head = FALSE
    OBVIOUS
  <2>2. a = activate_task(s, c, p, head)
    BY <1>2, <2>1
  <2>. QED
    BY <1>a, <2>2, ActivateTask
<1>4. s.task[p] \in TaskT /\ a \in StateT
  BY <1>1, <1>3, StateParts DEF QueuesOk
<1>5. [s.task[p] EXCEPT !.on_rq = TRUE] \in TaskT
  BY <1>4 DEF TaskT
<1>6. PICK v \in TaskT : v = [s.task[p] EXCEPT !.on_rq = TRUE]
  BY <1>5
<1>7. /\ v.cpu = s.task[p].cpu /\ v.on_rq /\ v.on_cpu = s.task[p].on_cpu /\ v.prio = s.task[p].prio
      /\ v.allowed = s.task[p].allowed
  BY <1>4, <1>6 DEF TaskT
<1>8. t = PutTask(a, p, v)
  BY <1>0, <1>2, <1>3, <1>6 DEF PutTask
<1>10. QueuesOk(t, R)
  <2>1. v.prio = a.task[p].prio /\ v.cpu = a.task[p].cpu /\ Cardinality(v.allowed) = Cardinality(a.task[p].allowed)
    BY <1>3, <1>7
  <2>. QED
    BY <1>3, <1>8, <2>1, SetTaskQueues
<1>11. t.rq = a.rq /\ t.task[p] = v /\ \A x \in Task \ {p} : t.task[x] = a.task[x]
  BY <1>4, <1>8, SetTask
<1>12. KeepRq(s, t)
  BY <1>3, <1>11 DEF KeepRq
<1>13. PushFrame(s, t, p)
  BY <1>3, <1>11 DEF PushFrame
<1>14. Sets(s, t, p, v)
  BY <1>3, <1>11 DEF Sets
<1>15. \A x \in Task : x \in R <=> IF x = p THEN v.on_rq /\ v.prio < MAX_RT_PRIO ELSE x \in RtQueued(s)
  BY <1>1, <1>r, <1>7
<1>16. StateOk(t)
  BY <1>7, <1>10, <1>12, <1>13, <1>14, <1>15, Assemble
<1>. QED
  BY <1>6, <1>12, <1>14, <1>16

-----------------------------------------------------------------------------
(* A change of priority: __sched_setscheduler and rt_mutex_setprio         *)

(* The state that ChangePrio hands to check_class_changed.                 *)
Changed(s, r, p, v, head) ==
    LET running == s.rq[r].curr = p
        s1 == IF s.task[p].on_rq THEN deactivate_task(s, r, p) ELSE s
        s2 == IF running THEN put_prev_task(s1, r, p) ELSE s1
        s3 == [s2 EXCEPT !.task[p] = v]
        s4 == IF running THEN set_curr_task(s3, r, p) ELSE s3
    IN  IF v.on_rq THEN activate_task(s4, r, p, head) ELSE s4

(* A task that is on no list stays so when it is put.                      *)
LEMMA PutOff ==
    ASSUME NEW s, NEW Q, NEW p \in Task \ Q, QueuesOk(s, Q), NEW r, NEW t, t = put_prev_task(s, r, p)
    PROVE  t = s
<1>1. s \in StateT /\ Listed(s, Q) /\ s.task[p].cpu \in Cpu
  BY StateParts, TaskParts DEF QueuesOk
<1>2. ~on_rt_rq(s, p)
  BY <1>1 DEF on_rt_rq, Listed
<1>. QED
  BY <1>2 DEF put_prev_task

(* The part before the task is put back.                                   *)
LEMMA ChangeOff ==
    ASSUME NEW s, StateOk(s), NEW p \in Task, NEW r \in Cpu, r = s.task[p].cpu, NEW v \in TaskT,
           NEW Q, Q = RtQueued(s) \ {p}
    PROVE  \E b : /\ QueuesOk(b, Q) /\ KeepRq(s, b) /\ PushFrame(s, b, p) /\ Sets(s, b, p, v)
                  /\ \A head : Changed(s, r, p, v, head) =
                        IF v.on_rq THEN activate_task(b, r, p, head) ELSE b
<1>1. PICK a : a = IF s.task[p].on_rq THEN deactivate_task(s, r, p) ELSE s
  OBVIOUS
<1>2. QueuesOk(a, Q) /\ KeepRq(s, a) /\ a.task = s.task /\ PushFrame(s, a, p)
  <2>1. CASE s.task[p].on_rq
    <3>1. a = deactivate_task(s, r, p)
      BY <1>1, <2>1
    <3>. QED
      BY <2>1, <3>1, OffOk
  <2>2. CASE ~s.task[p].on_rq
    <3>1. a = s /\ Q = RtQueued(s)
      BY <1>1, <2>2 DEF RtQueued
    <3>. QED
      BY <3>1, StateQueues DEF KeepRq, PushFrame
  <2>. QED
    BY <2>1, <2>2
<1>3. p \in Task \ Q /\ a \in StateT
  BY <1>2 DEF QueuesOk
<1>4. put_prev_task(a, r, p) = a
  BY <1>2, <1>3, PutOff
<1>5. PICK b : b = PutTask(a, p, v)
  OBVIOUS
<1>6. QueuesOk(b, Q)
  BY <1>2, <1>3, <1>5, SetTaskQueues
<1>7. b.rq = a.rq /\ b.task[p] = v /\ \A x \in Task \ {p} : b.task[x] = a.task[x]
  BY <1>3, <1>5, SetTask
<1>8. KeepRq(s, b)
  BY <1>2, <1>7 DEF KeepRq
<1>9. PushFrame(s, b, p)
  BY <1>2, <1>7 DEF PushFrame
<1>10. Sets(s, b, p, v)
  BY <1>2, <1>7 DEF Sets
<1>11. PICK e : e = IF s.rq[r].curr = p THEN set_curr_task(b, r, p) ELSE b
  OBVIOUS
<1>12. \A head : Changed(s, r, p, v, head) = IF v.on_rq THEN activate_task(e, r, p, head) ELSE e
  BY <1>1, <1>4, <1>5, <1>11, ZenonT(30) DEF Changed, PutTask
<1>13. CASE e = b
  BY <1>6, <1>8, <1>9, <1>10, <1>12, <1>13
<1>14. CASE e # b
  <2>1. e = dequeue_pushable_task(b, r, p)
    BY <1>11, <1>14 DEF set_curr_task
  <2>2. /\ QueuesOk(e, Q) /\ Only(b, e, r) /\ Members(e.rq[r].pushable) = Members(b.rq[r].pushable) \ {p}
    BY <1>6, <2>1, DequeuePushable
  <2>3. /\ KeepRq(b, e) /\ e.task = b.task /\ \A d \in Cpu \ {r} : e.rq[d].pushable = b.rq[d].pushable
    BY <2>2, OnlyKeeps
  <2>4. KeepRq(s, e)
    BY <1>8, <2>3 DEF KeepRq
  <2>5. PushFrame(s, e, p)
    BY <1>9, <2>2, <2>3 DEF PushFrame
  <2>6. Sets(s, e, p, v)
    BY <1>10, <2>3 DEF Sets
  <2>. QED
    BY <1>12, <2>2, <2>4, <2>5, <2>6
<1>. QED
  BY <1>13, <1>14

(* The state that ChangePrio hands to check_class_changed is in order, and *)
(* only p has changed.                                                     *)
LEMMA ChangeOk ==
    ASSUME NEW s, StateOk(s), NEW p \in Task, NEW r \in Cpu, r = s.task[p].cpu, NEW v \in TaskT,
           v.cpu = r, v.on_rq = s.task[p].on_rq, v.on_cpu = s.task[p].on_cpu, NEW head \in BOOLEAN,
           NEW t, t = Changed(s, r, p, v, head)
    PROVE  StateOk(t) /\ KeepRq(s, t) /\ Sets(s, t, p, v)
<1>1. PICK Q : Q = RtQueued(s) \ {p}
  OBVIOUS
<1>2. PICK b : /\ QueuesOk(b, Q) /\ KeepRq(s, b) /\ PushFrame(s, b, p) /\ Sets(s, b, p, v)
               /\ \A h : Changed(s, r, p, v, h) = IF v.on_rq THEN activate_task(b, r, p, h) ELSE b
  BY <1>1, ChangeOff
<1>3. b.task[p] = v
  BY <1>2 DEF Sets
<1>4. CASE v.on_rq
  <2>1. t = activate_task(b, r, p, head)
    BY <1>2, <1>4
  <2>2. PICK R : R = IF v.prio < MAX_RT_PRIO THEN Q \cup {p} ELSE Q
    OBVIOUS
  <2>3. Activates(b, Q, R, p, r)
    BY <1>1, <1>2, <1>3, <2>2 DEF Activates
  <2>4. QueuesOk(t, R) /\ KeepRq(b, t) /\ t.task = b.task /\ PushFrame(b, t, p)
    BY <2>1, <2>3, ActivateTask
  <2>5. KeepRq(s, t)
    BY <1>2, <2>4, SMTT(30) DEF KeepRq
  <2>6. PushFrame(s, t, p)
    BY <1>2, <2>4 DEF PushFrame, KeepRq
  <2>7. Sets(s, t, p, v)
    BY <1>2, <2>4 DEF Sets
  <2>8. \A x \in Task : x \in R <=> IF x = p THEN v.on_rq /\ v.prio < MAX_RT_PRIO ELSE x \in RtQueued(s)
    BY <1>1, <1>4, <2>2
  <2>9. StateOk(t)
    BY <2>4, <2>5, <2>6, <2>7, <2>8, Assemble
  <2>. QED
    BY <2>5, <2>7, <2>9
<1>5. CASE ~v.on_rq
  <2>1. t = b
    BY <1>2, <1>5
  <2>2. \A x \in Task : x \in Q <=> IF x = p THEN v.on_rq /\ v.prio < MAX_RT_PRIO ELSE x \in RtQueued(s)
    BY <1>1, <1>5
  <2>3. StateOk(t)
    BY <1>2, <2>1, <2>2, Assemble
  <2>. QED
    BY <1>2, <2>1, <2>3
<1>. QED
  BY <1>4, <1>5

-----------------------------------------------------------------------------
(* A change of affinity: do_set_cpus_allowed                               *)

(* The migratory tasks, when the mask of p becomes wider or narrower.      *)
MaskSet(s, t, Q, p, c, v) ==
    /\ Q \in SUBSET Task /\ p \in Q /\ s.task[p].cpu = c /\ v.cpu = c /\ Sets(s, t, p, v)

(* A changed mask changes the count of the tasks that may migrate by at    *)
(* most one.                                                               *)
LEMMA MaskCount ==
    ASSUME NEW s, NEW t, NEW Q, NEW p, NEW c, NEW v, MaskSet(s, t, Q, p, c, v)
    PROVE  /\ On(t, Q, c) = On(s, Q, c)
           /\ \A x \in Q \ {p} : x \in Migratory(t, Q, c) <=> x \in Migratory(s, Q, c)
           /\ p \in Migratory(t, Q, c) <=> Cardinality(v.allowed) > 1
           /\ Cardinality(Migratory(t, Q, c)) = Cardinality(Migratory(s, Q, c))
                + ((IF Cardinality(v.allowed) > 1 THEN 1 ELSE 0) - (IF NrAllowed(s, p) > 1 THEN 1 ELSE 0))
<1>1. Q \in SUBSET Task /\ p \in Q /\ p \in Task /\ s.task[p].cpu = c /\ t.task[p].cpu = c
      /\ (\A x \in Q \ {p} : t.task[x] = s.task[x])
      /\ NrAllowed(t, p) = Cardinality(v.allowed)
  BY DEF MaskSet, Sets, NrAllowed
<1>2. \A x \in Q \ {p} : NrAllowed(t, x) = NrAllowed(s, x) /\ t.task[x].cpu = s.task[x].cpu
  BY <1>1 DEF NrAllowed
<1>3. \A x \in Q : t.task[x].cpu = s.task[x].cpu
  BY <1>1, <1>2
<1>4. On(t, Q, c) = On(s, Q, c) /\ p \in On(s, Q, c)
  BY <1>1, <1>3 DEF On
<1>5. /\ \A x \in Q \ {p} : x \in Migratory(t, Q, c) <=> x \in Migratory(s, Q, c)
      /\ p \in Migratory(t, Q, c) <=> Cardinality(v.allowed) > 1
      /\ p \in Migratory(s, Q, c) <=> NrAllowed(s, p) > 1
  BY <1>1, <1>2, <1>4 DEF Migratory
<1>6. Migratory(t, Q, c) \subseteq Q /\ Migratory(s, Q, c) \subseteq Q
  BY DEF Migratory, On
<1>7. PICK M : M = Migratory(s, Q, c) \ {p}
  OBVIOUS
<1>8. IsFiniteSet(M) /\ Cardinality(M) \in Nat /\ p \notin M
  <2>1. IsFiniteSet(M)
    BY <1>1, <1>7, OnFinite, FS_Subset
  <2>. QED
    BY <1>7, <2>1, FS_CardinalityType
<1>9. Cardinality(M \cup {p}) = Cardinality(M) + 1
  BY <1>8, FS_AddElement
<1>10. Cardinality(Migratory(s, Q, c)) = Cardinality(M) + IF NrAllowed(s, p) > 1 THEN 1 ELSE 0
  <2>1. CASE NrAllowed(s, p) > 1
    <3>1. Migratory(s, Q, c) = M \cup {p}
      BY <1>5, <1>7, <2>1
    <3>. QED
      BY <1>9, <2>1, <3>1
  <2>2. CASE ~(NrAllowed(s, p) > 1)
    <3>1. Migratory(s, Q, c) = M
      BY <1>5, <1>7, <2>2
    <3>. QED
      BY <1>8, <2>2, <3>1
  <2>. QED
    BY <2>1, <2>2
<1>11. Cardinality(Migratory(t, Q, c)) = Cardinality(M) + IF Cardinality(v.allowed) > 1 THEN 1 ELSE 0
  <2>0. \A x \in Q \ {p} : x \in Migratory(t, Q, c) <=> x \in M
    BY <1>5, <1>7
  <2>m. M \subseteq Q
    BY <1>6, <1>7
  <2>1. CASE Cardinality(v.allowed) > 1
    <3>1. Migratory(t, Q, c) = M \cup {p}
      BY <1>1, <1>5, <1>6, <2>0, <2>m, <2>1
    <3>. QED
      BY <1>9, <2>1, <3>1
  <2>2. CASE ~(Cardinality(v.allowed) > 1)
    <3>1. Migratory(t, Q, c) = M
      BY <1>5, <1>6, <1>8, <2>0, <2>m, <2>2
    <3>. QED
      BY <1>8, <2>2, <3>1
  <2>. QED
    BY <2>1, <2>2
<1>12. ASSUME NEW k \in Nat, NEW i \in {0, 1}, NEW j \in {0, 1} PROVE k + j = (k + i) + (j - i)
  OBVIOUS
<1>13. PICK i \in {0, 1} : i = IF NrAllowed(s, p) > 1 THEN 1 ELSE 0
  OBVIOUS
<1>14. PICK j \in {0, 1} : j = IF Cardinality(v.allowed) > 1 THEN 1 ELSE 0
  OBVIOUS
<1>15. Cardinality(Migratory(t, Q, c)) = Cardinality(Migratory(s, Q, c)) + (j - i)
  BY <1>8, <1>10, <1>11, <1>12, <1>13, <1>14
<1>. QED
  BY <1>4, <1>5, <1>13, <1>14, <1>15

(* The pushable list that do_set_cpus_allowed leaves, and what it adds to   *)
(* the count of migratory tasks.                                           *)
MaskPushed(s, c, p, wide) ==
    IF s.rq[c].curr = p THEN s
    ELSE IF wide THEN enqueue_pushable_task(s, c, p) ELSE dequeue_pushable_task(s, c, p)

MaskDelta(s, p, wide) == (IF wide THEN 1 ELSE 0) - (IF NrAllowed(s, p) > 1 THEN 1 ELSE 0)

(* set_cpus_allowed_rt: the pushable list after the change of a mask.      *)
LEMMA MaskPushable ==
    ASSUME NEW s, StateOk(s), NEW p \in Task, NEW c \in Cpu, NEW wide \in BOOLEAN,
           NEW a, a = MaskPushed(s, c, p, wide)
    PROVE  /\ Only(s, a, c) /\ SameLists(s, a, c) /\ SameCounts(s, a, c) /\ SameHighest(s, a, c)
           /\ SameOverload(s, a, c) /\ NoDup(a.rq[c].pushable)
           /\ \A x \in Members(a.rq[c].pushable) :
                 \/ x # p /\ x \in Members(s.rq[c].pushable)
                 \/ x = p /\ wide /\ s.rq[c].curr # p
<1>1. s \in StateT /\ QueuesOk(s, RtQueued(s)) /\ CurrOk(s)
  BY StateQueues
<1>2. s.rq[c].pushable \in Seq(Task) /\ NoDup(s.rq[c].pushable)
  BY <1>1, StateParts, RqParts DEF QueuesOk, Pushables
<1>3. PICK w \in Seq(Task) : /\ w = Without(s.rq[c].pushable, p) /\ NoDup(w)
                             /\ Members(w) = Members(s.rq[c].pushable) \ {p}
  BY <1>2, WithoutList
<1>4. CASE s.rq[c].curr = p
  <2>1. a = s /\ p \notin Members(s.rq[c].pushable)
    BY <1>1, <1>4 DEF CurrOk, MaskPushed
  <2>2. Only(s, a, c) /\ SameLists(s, a, c) /\ SameCounts(s, a, c) /\ SameHighest(s, a, c) /\ SameOverload(s, a, c)
    BY <1>1, <2>1 DEF Only, SameLists, SameCounts, SameHighest, SameOverload
  <2>. QED
    BY <1>2, <2>1, <2>2
<1>5. CASE s.rq[c].curr # p /\ wide
  <2>1. p \notin Members(w)
    BY <1>3
  <2>2. plist_add(s, w, p) \in Seq(Task) /\ NoDup(plist_add(s, w, p))
        /\ Members(plist_add(s, w, p)) = Members(w) \cup {p}
    BY <1>3, <2>1, PlistAdd
  <2>3. PICK u \in Seq(Task) : u = plist_add(s, w, p) /\ NoDup(u) /\ Members(u) = Members(w) \cup {p}
    BY <2>2
  <2>4. a = PutPushable(s, c, u)
    BY <1>3, <1>5, <2>3 DEF enqueue_pushable_task, PutPushable, MaskPushed
  <2>5. /\ Only(s, a, c) /\ SameLists(s, a, c) /\ SameCounts(s, a, c) /\ SameHighest(s, a, c)
        /\ SameOverload(s, a, c) /\ a.rq[c].pushable = u
    BY <1>1, <2>4, SetPushable
  <2>. QED
    BY <1>3, <1>5, <2>3, <2>5
<1>6. CASE s.rq[c].curr # p /\ ~wide
  <2>1. a = PutPushable(s, c, w)
    BY <1>3, <1>6 DEF dequeue_pushable_task, PutPushable, MaskPushed
  <2>2. /\ Only(s, a, c) /\ SameLists(s, a, c) /\ SameCounts(s, a, c) /\ SameHighest(s, a, c)
        /\ SameOverload(s, a, c) /\ a.rq[c].pushable = w
    BY <1>1, <2>1, SetPushable
  <2>. QED
    BY <1>3, <2>2
<1>. QED
  BY <1>4, <1>5, <1>6

(* The run queue c after the change, from its parts.                       *)
LEMMA MaskRq ==
    ASSUME NEW s, NEW t, NEW Q, NEW p, NEW c \in Cpu, NEW v, MaskSet(s, t, Q, p, c, v),
           v.prio = s.task[p].prio, RqOk(s, Q, c), SameLists(s, t, c), SameHighest(s, t, c),
           t.rq[c].rt_nr_running = s.rq[c].rt_nr_running,
           t.rq[c].rt_nr_migratory = s.rq[c].rt_nr_migratory
             + ((IF Cardinality(v.allowed) > 1 THEN 1 ELSE 0) - (IF NrAllowed(s, p) > 1 THEN 1 ELSE 0)),
           Overload(t, c), NoDup(t.rq[c].pushable),
           \A x \in Members(t.rq[c].pushable) :
              \/ x # p /\ x \in Members(s.rq[c].pushable)
              \/ x = p /\ Cardinality(v.allowed) > 1
    PROVE  RqOk(t, Q, c)
<1>1. /\ On(t, Q, c) = On(s, Q, c)
      /\ \A x \in Q \ {p} : x \in Migratory(t, Q, c) <=> x \in Migratory(s, Q, c)
      /\ p \in Migratory(t, Q, c) <=> Cardinality(v.allowed) > 1
      /\ Cardinality(Migratory(t, Q, c)) = Cardinality(Migratory(s, Q, c))
           + ((IF Cardinality(v.allowed) > 1 THEN 1 ELSE 0) - (IF NrAllowed(s, p) > 1 THEN 1 ELSE 0))
  BY MaskCount
<1>2. \A x \in Task : /\ t.task[x].cpu = s.task[x].cpu /\ t.task[x].prio = s.task[x].prio
  BY DEF MaskSet, Sets
<1>3. Q \subseteq Task /\ Migratory(s, Q, c) \subseteq Q /\ On(s, Q, c) \subseteq Task
  BY DEF MaskSet, Migratory, On
<1>4. ListedOn(t, Q, c)
  BY <1>2 DEF RqOk, ListedOn, SameLists
<1>5. Counts(t, Q, c)
  <2>1. t.rq[c].rt_nr_running = Cardinality(On(t, Q, c))
    BY <1>1 DEF RqOk, Counts
  <2>2. t.rq[c].rt_nr_migratory = Cardinality(Migratory(t, Q, c))
    <3>1. s.rq[c].rt_nr_migratory = Cardinality(Migratory(s, Q, c))
      BY DEF RqOk, Counts
    <3>. QED
      BY <1>1, <3>1
  <2>3. \A i \in RtPrio : i \in t.rq[c].bitmap <=> \E x \in On(t, Q, c) : t.task[x].prio = i
    BY <1>1, <1>2, <1>3 DEF RqOk, Counts, SameLists
  <2>. QED
    BY <2>1, <2>2, <2>3 DEF Counts
<1>6. Highest(t, Q, c)
  BY <1>1, <1>2, <1>3 DEF RqOk, Highest, SameHighest
<1>7. Pushables(t, Q, c)
  <2>1. Members(s.rq[c].pushable) \subseteq Migratory(s, Q, c)
    BY DEF RqOk, Pushables
  <2>2. \A x \in Members(t.rq[c].pushable) : x \in Migratory(t, Q, c)
    BY <1>1, <1>3, <2>1
  <2>. QED
    BY <2>2 DEF Pushables
<1>. QED
  BY <1>4, <1>5, <1>6, <1>7 DEF RqOk

(* The counted change, of a queued real-time task: the run queue.           *)
MaskCounted(s, c, p, wide) ==
    LET a == MaskPushed(s, c, p, wide)
    IN  update_rt_migration(PutMigratory(a, c, a.rq[c].rt_nr_migratory + MaskDelta(s, p, wide)), c)

(* set_cpus_allowed_rt: the counts and the overload flag after the change  *)
(* of a mask.                                                              *)
LEMMA MaskRun ==
    ASSUME NEW s, StateOk(s), NEW p \in Task, NEW c \in Cpu, NEW wide \in BOOLEAN,
           NEW u, u = MaskCounted(s, c, p, wide)
    PROVE  /\ Only(s, u, c) /\ SameLists(s, u, c) /\ SameHighest(s, u, c) /\ Overload(u, c)
           /\ u.rq[c].rt_nr_running = s.rq[c].rt_nr_running
           /\ u.rq[c].rt_nr_migratory = s.rq[c].rt_nr_migratory + MaskDelta(s, p, wide)
           /\ NoDup(u.rq[c].pushable)
           /\ \A x \in Members(u.rq[c].pushable) :
                 \/ x # p /\ x \in Members(s.rq[c].pushable)
                 \/ x = p /\ wide /\ s.rq[c].curr # p
<1>1. s \in StateT /\ Overload(s, c)
  BY StateQueues DEF QueuesOk
<1>2. PICK a : a = MaskPushed(s, c, p, wide)
  OBVIOUS
<1>3. /\ Only(s, a, c) /\ SameLists(s, a, c) /\ SameCounts(s, a, c) /\ SameHighest(s, a, c)
      /\ SameOverload(s, a, c) /\ NoDup(a.rq[c].pushable)
      /\ \A x \in Members(a.rq[c].pushable) :
            \/ x # p /\ x \in Members(s.rq[c].pushable)
            \/ x = p /\ wide /\ s.rq[c].curr # p
  BY <1>1, <1>2, MaskPushable
<1>4. a \in StateT /\ a.rq[c].rt_nr_migratory \in Int /\ MaskDelta(s, p, wide) \in Int
  BY <1>3, StateParts, RqParts DEF Only, MaskDelta
<1>5. PICK m \in Int : m = a.rq[c].rt_nr_migratory + MaskDelta(s, p, wide)
  BY <1>4
<1>b. PICK b : b = PutMigratory(a, c, m)
  OBVIOUS
<1>6. /\ Only(a, b, c) /\ SameLists(a, b, c) /\ SamePushable(a, b, c) /\ SameHighest(a, b, c)
      /\ SameOverload(a, b, c) /\ b.rq[c].rt_nr_migratory = m
      /\ b.rq[c].rt_nr_running = a.rq[c].rt_nr_running
  BY <1>4, <1>b, SetMigratory
<1>7. b \in StateT /\ (b.rq[c].overloaded <=> c \in b.rto_mask)
  BY <1>1, <1>3, <1>6 DEF Only, Overload, SameOverload
<1>u. u = update_rt_migration(b, c)
  BY <1>2, <1>5, <1>b DEF MaskCounted
<1>8. /\ Only(b, u, c) /\ SameLists(b, u, c) /\ SamePushable(b, u, c) /\ SameCounts(b, u, c)
      /\ SameHighest(b, u, c) /\ Overload(u, c)
  BY <1>7, <1>u, UpdateMigration
<1>9. Only(s, b, c)
  BY <1>3, <1>6, OnlyTrans
<1>10. Only(s, u, c)
  BY <1>8, <1>9, OnlyTrans
<1>11. SameLists(s, u, c)
  BY <1>3, <1>6, <1>8 DEF SameLists
<1>12. SameHighest(s, u, c)
  BY <1>3, <1>6, <1>8 DEF SameHighest
<1>13. /\ u.rq[c].rt_nr_running = s.rq[c].rt_nr_running
       /\ u.rq[c].rt_nr_migratory = s.rq[c].rt_nr_migratory + MaskDelta(s, p, wide)
  BY <1>3, <1>5, <1>6, <1>8 DEF SameCounts
<1>14. u.rq[c].pushable = a.rq[c].pushable
  BY <1>6, <1>8 DEF SamePushable
<1>. QED
  BY <1>3, <1>8, <1>10, <1>11, <1>12, <1>13, <1>14

(* A queued real-time task gets a new mask, and the cached values follow.  *)
LEMMA MaskQueues ==
    ASSUME NEW s, StateOk(s), NEW p \in RtQueued(s), NEW c \in Cpu, s.task[p].cpu = c, NEW v \in TaskT,
           v.prio = s.task[p].prio, v.cpu = c, NEW wide \in BOOLEAN, wide <=> Cardinality(v.allowed) > 1,
           NEW u, u = MaskCounted(s, c, p, wide), NEW t, t = PutTask(u, p, v)
    PROVE  QueuesOk(t, RtQueued(s)) /\ KeepRq(s, t) /\ Sets(s, t, p, v) /\ PushFrame(s, t, p)
<1>0. PICK Q : Q = RtQueued(s)
  OBVIOUS
<1>1. s \in StateT /\ QueuesOk(s, Q) /\ p \in Q /\ p \in Task
  BY <1>0, StateQueues DEF RtQueued
<1>2. Q \subseteq Task /\ (\A x \in Q : s.task[x].prio \in RtPrio) /\ \A d \in Cpu : RqOk(s, Q, d)
  BY <1>1, QueuesParts
<1>3. /\ Only(s, u, c) /\ SameLists(s, u, c) /\ SameHighest(s, u, c) /\ Overload(u, c)
      /\ u.rq[c].rt_nr_running = s.rq[c].rt_nr_running
      /\ u.rq[c].rt_nr_migratory = s.rq[c].rt_nr_migratory + MaskDelta(s, p, wide)
      /\ NoDup(u.rq[c].pushable)
      /\ \A x \in Members(u.rq[c].pushable) :
            \/ x # p /\ x \in Members(s.rq[c].pushable)
            \/ x = p /\ wide /\ s.rq[c].curr # p
  BY <1>1, MaskRun
<1>10. Only(s, u, c)
  BY <1>3
<1>11. u \in StateT /\ u.task = s.task /\ KeepRq(s, u)
  BY <1>10, OnlyKeeps
<1>12. /\ t \in StateT /\ t.task[p] = v /\ \A x \in Task \ {p} : t.task[x] = u.task[x]
       /\ t.rq = u.rq /\ t.cpupri = u.cpupri /\ t.rto_mask = u.rto_mask
  BY <1>1, <1>11, SetTask
<1>13. Sets(s, t, p, v)
  BY <1>11, <1>12 DEF Sets
<1>14. KeepRq(s, t)
  BY <1>11, <1>12 DEF KeepRq
<1>16. PushFrame(s, t, p)
  <2>1. \A d \in Cpu \ {c} : t.rq[d] = s.rq[d]
    BY <1>10, <1>12 DEF Only
  <2>. QED
    BY <1>3, <1>12, <2>1 DEF PushFrame
<1>17. RqOk(t, Q, c)
  <2>1. MaskSet(s, t, Q, p, c, v)
    BY <1>1, <1>2, <1>13 DEF MaskSet
  <2>2. SameLists(s, t, c)
    BY <1>3, <1>12 DEF SameLists
  <2>3. SameHighest(s, t, c)
    BY <1>3, <1>12 DEF SameHighest
  <2>4. /\ t.rq[c].rt_nr_running = s.rq[c].rt_nr_running
        /\ t.rq[c].rt_nr_migratory = s.rq[c].rt_nr_migratory + MaskDelta(s, p, wide)
    BY <1>3, <1>12
  <2>5. MaskDelta(s, p, wide) = (IF Cardinality(v.allowed) > 1 THEN 1 ELSE 0) - (IF NrAllowed(s, p) > 1 THEN 1 ELSE 0)
    BY DEF MaskDelta
  <2>6. Overload(t, c)
    BY <1>3, <1>12 DEF Overload
  <2>7. /\ NoDup(t.rq[c].pushable)
        /\ \A x \in Members(t.rq[c].pushable) : \/ x # p /\ x \in Members(s.rq[c].pushable)
                                                \/ x = p /\ Cardinality(v.allowed) > 1
    BY <1>3, <1>12
  <2>8. RqOk(s, Q, c)
    BY <1>2
  <2>. QED
    BY <2>1, <2>2, <2>3, <2>4, <2>5, <2>6, <2>7, <2>8, MaskRq
<1>18. ASSUME NEW d \in Cpu \ {c} PROVE RqOk(t, Q, d)
  <2>1. /\ t.rq[d] = s.rq[d] /\ t.cpupri[d] = s.cpupri[d] /\ (d \in t.rto_mask <=> d \in s.rto_mask)
    BY <1>10, <1>12 DEF Only
  <2>2. \A x \in Q : /\ t.task[x].cpu = d <=> s.task[x].cpu = d
                     /\ s.task[x].cpu = d => t.task[x].prio = s.task[x].prio /\ NrAllowed(t, x) = NrAllowed(s, x)
    BY <1>2, <1>13 DEF Sets, NrAllowed
  <2>3. RqOk(s, Q, d) /\ Q \in SUBSET Task
    BY <1>2
  <2>. QED
    BY <2>1, <2>2, <2>3, SameRq
<1>19. \A x \in Q : t.task[x].prio \in RtPrio
  BY <1>2, <1>13 DEF Sets
<1>20. QueuesOk(t, Q)
  BY <1>2, <1>12, <1>17, <1>18, <1>19, QueuesParts
<1>. QED
  BY <1>0, <1>13, <1>14, <1>16, <1>20

(* do_set_cpus_allowed changes the mask of p and nothing else of the       *)
(* tasks.                                                                  *)
LEMMA AllowedOk ==
    ASSUME NEW s, StateOk(s), NEW p \in Task, NEW c \in Cpu, s.task[p].cpu = c,
           NEW mask \in (SUBSET Cpu) \ {{}}, NEW t, t = do_set_cpus_allowed(s, c, p, mask)
    PROVE  StateOk(t) /\ KeepRq(s, t) /\ Sets(s, t, p, [s.task[p] EXCEPT !.allowed = mask])
<1>1. s \in StateT /\ s.task[p] \in TaskT
  BY StateQueues, StateParts
<1>2. [s.task[p] EXCEPT !.allowed = mask] \in TaskT
  BY <1>1 DEF TaskT
<1>3. PICK v \in TaskT : v = [s.task[p] EXCEPT !.allowed = mask]
  BY <1>2
<1>4. /\ v.cpu = c /\ v.prio = s.task[p].prio /\ v.on_rq = s.task[p].on_rq /\ v.on_cpu = s.task[p].on_cpu
      /\ v.allowed = mask
  BY <1>1, <1>3 DEF TaskT
<1>5. PICK wide \in BOOLEAN : wide <=> Cardinality(mask) > 1
  <2>1. CASE Cardinality(mask) > 1
    BY <2>1
  <2>2. CASE ~(Cardinality(mask) > 1)
    BY <2>2
  <2>. QED
    BY <2>1, <2>2
<1>9. PICK u : u = MaskCounted(s, c, p, wide)
  OBVIOUS
<1>10. CASE IsRtClass(s, p) /\ s.task[p].on_rq /\ Cardinality(mask) # NrAllowed(s, p)
  <2>1. p \in RtQueued(s)
    BY <1>10, RtClass DEF RtQueued
  <2>2. t = PutTask(u, p, v)
    <3>1. t = [u EXCEPT !.task[p].allowed = mask]
      <4>1. PICK a : a = MaskPushed(s, c, p, wide)
        OBVIOUS
      <4>2. a = IF s.rq[c].curr = p THEN s
                ELSE IF Cardinality(mask) > 1 THEN enqueue_pushable_task(s, c, p) ELSE dequeue_pushable_task(s, c, p)
        BY <1>5, <4>1, ZenonT(30) DEF MaskPushed
      <4>3. MaskDelta(s, p, wide) = (IF Cardinality(mask) > 1 THEN 1 ELSE 0) - (IF NrAllowed(s, p) > 1 THEN 1 ELSE 0)
        BY <1>5, ZenonT(30) DEF MaskDelta
      <4>4. u = update_rt_migration([a EXCEPT !.rq[c].rt_nr_migratory = @ + MaskDelta(s, p, wide)], c)
        BY <1>9, <4>1, ZenonT(30) DEF MaskCounted, PutMigratory
      <4>. QED
        BY <1>10, <4>2, <4>3, <4>4, ZenonT(80) DEF do_set_cpus_allowed
    <3>2. u.task = s.task
      BY <1>9, MaskRun DEF Only
    <3>. QED
      BY <1>3, <3>1, <3>2 DEF PutTask
  <2>3. QueuesOk(t, RtQueued(s)) /\ KeepRq(s, t) /\ Sets(s, t, p, v) /\ PushFrame(s, t, p)
    BY <1>4, <1>5, <1>9, <2>1, <2>2, MaskQueues
  <2>4. \A x \in Task : x \in RtQueued(s) <=> IF x = p THEN v.on_rq /\ v.prio < MAX_RT_PRIO ELSE x \in RtQueued(s)
    BY <1>4 DEF RtQueued
  <2>5. StateOk(t)
    BY <1>4, <2>3, <2>4, Assemble
  <2>. QED
    BY <1>3, <2>3, <2>5
<1>11. CASE ~(IsRtClass(s, p) /\ s.task[p].on_rq /\ Cardinality(mask) # NrAllowed(s, p))
  <2>1. t = PutTask(s, p, v)
    BY <1>3, <1>11, ZenonT(30) DEF do_set_cpus_allowed, PutTask
  <2>2. p \in RtQueued(s) => Cardinality(v.allowed) = Cardinality(s.task[p].allowed)
    BY <1>4, <1>11, RtClass DEF RtQueued, NrAllowed
  <2>3. StateOk(t) /\ t.rq = s.rq /\ Sets(s, t, p, v)
    BY <1>4, <2>1, <2>2, SetTaskOk
  <2>. QED
    BY <1>3, <2>3 DEF KeepRq
<1>. QED
  BY <1>10, <1>11

-----------------------------------------------------------------------------
(* schedule(): put_prev_task, pick_next_task and the switch                *)

(* put_prev_task: the task that ran may become pushable.                   *)
LEMMA PutPrevOk ==
    ASSUME NEW s, StateOk(s), NEW c \in Cpu, NEW prev, s.rq[c].curr = prev,
           NEW t, t = put_prev_task(s, c, prev)
    PROVE  /\ QueuesOk(t, RtQueued(s)) /\ Only(s, t, c)
           /\ \A x \in Members(t.rq[c].pushable) : x \in Members(s.rq[c].pushable) \/ x = prev
<1>0. PICK Q : Q = RtQueued(s)
  OBVIOUS
<1>1. s \in StateT /\ QueuesOk(s, Q) /\ CurrOk(s)
  BY <1>0, StateQueues
<1>2. CASE t = s
  BY <1>0, <1>1, <1>2 DEF Only
<1>3. CASE t # s
  <2>1. prev \in Task /\ on_rt_rq(s, prev) /\ NrAllowed(s, prev) > 1 /\ t = enqueue_pushable_task(s, c, prev)
    BY <1>3 DEF put_prev_task
  <2>2. s.task[prev].cpu = c
    BY <1>1, <2>1 DEF CurrOk
  <2>3. prev \in Q
    BY <1>1, <2>1, <2>2 DEF on_rt_rq, QueuesOk, Listed
  <2>4. prev \in Migratory(s, Q, c)
    BY <2>1, <2>2, <2>3 DEF Migratory, On
  <2>5. QueuesOk(t, Q) /\ Only(s, t, c) /\ Members(t.rq[c].pushable) = Members(s.rq[c].pushable) \cup {prev}
    BY <1>1, <2>1, <2>4, EnqueuePushable
  <2>. QED
    BY <1>0, <2>5
<1>. QED
  BY <1>2, <1>3

(* pick_next_rt_entity finds a task of the highest queued priority.        *)
LEMMA PickEntity ==
    ASSUME NEW s, NEW Q, NEW c \in Cpu, QueuesOk(s, Q), s.rq[c].rt_nr_running > 0,
           NEW p, p = pick_next_rt_entity(s, c)
    PROVE  p \in Q /\ s.task[p].cpu = c /\ \A x \in On(s, Q, c) : s.task[p].prio <= s.task[x].prio
<1>1. /\ s \in StateT /\ Q \in SUBSET Task /\ Counts(s, Q, c) /\ Listed(s, Q)
      /\ \A x \in Q : s.task[x].prio \in RtPrio
  BY DEF QueuesOk
<1>2. On(s, Q, c) # {}
  <2>1. Cardinality({}) = 0
    BY FS_EmptySet
  <2>2. Cardinality(On(s, Q, c)) > 0
    BY <1>1 DEF Counts
  <2>. QED
    BY <2>1, <2>2
<1>3. PICK b \in SUBSET RtPrio : b = s.rq[c].bitmap
  BY <1>1, StateParts, RqParts
<1>4. \A i \in RtPrio : i \in b <=> \E x \in On(s, Q, c) : s.task[x].prio = i
  BY <1>1, <1>3 DEF Counts
<1>5. \A x \in On(s, Q, c) : x \in Q /\ s.task[x].cpu = c /\ s.task[x].prio \in b
  BY <1>1, <1>4 DEF On
<1>6. b # {}
  BY <1>2, <1>5
<1>7. PICK i : i = sched_find_first_bit(b)
  OBVIOUS
<1>8. i \in b /\ i \in RtPrio /\ \A j \in b : i <= j
  BY <1>6, <1>7, FirstBit
<1>9. PICK q \in Seq(Task) : q = s.rq[c].queue[i]
  BY <1>1, <1>8, StateParts, RqParts
<1>10. PICK x \in On(s, Q, c) : s.task[x].prio = i
  BY <1>4, <1>8
<1>11. x \in Members(q)
  BY <1>1, <1>5, <1>8, <1>9, <1>10 DEF Listed
<1>12. q # <<>>
  BY <1>11 DEF Members
<1>13. p = q[1] /\ 1 \in DOMAIN q /\ q[1] \in Task
  BY <1>3, <1>7, <1>9, <1>12 DEF pick_next_rt_entity
<1>14. p \in Members(q) /\ p \in Task
  BY <1>13 DEF Members
<1>15. p \in Q /\ s.task[p].cpu = c /\ s.task[p].prio = i
  BY <1>1, <1>8, <1>9, <1>14 DEF Listed
<1>. QED
  BY <1>5, <1>8, <1>15

(* Without a running real-time task there is none.                         *)
LEMMA NoneRunning ==
    ASSUME NEW s, NEW c \in Cpu, Counts(s, RtQueued(s), c), ~(s.rq[c].rt_nr_running > 0)
    PROVE  On(s, RtQueued(s), c) = {}
<1>1. IsFiniteSet(On(s, RtQueued(s), c)) /\ Cardinality(On(s, RtQueued(s), c)) \in Nat
  BY OnFinite DEF RtQueued
<1>2. Cardinality(On(s, RtQueued(s), c)) = 0
  BY <1>1 DEF Counts
<1>. QED
  BY <1>1, <1>2, FS_EmptySet

(* What is picked is queued here, and nothing queued here is more urgent,  *)
(* but for what the throttle holds back.                                   *)
LEMMA PickFacts ==
    ASSUME NEW s, NEW c \in Cpu, QueuesOk(s, RtQueued(s)), NEW next \in pick_next_task(s, c)
    PROVE  /\ next \in Task \cup {Idle, Stopper}
           /\ next \in Task => s.task[next].on_rq /\ s.task[next].cpu = c
           /\ \A p \in Task : s.task[p].on_rq /\ s.task[p].cpu = c =>
                 PrioOf(s, next) <= s.task[p].prio \/ Held(s, c, p)
<1>1. /\ s \in StateT /\ Counts(s, RtQueued(s), c)
      /\ \A x \in RtQueued(s) : s.task[x].prio \in RtPrio
  BY DEF QueuesOk
<1>2. \A p \in Task : s.task[p].prio \in 0 .. MAX_RT_PRIO
  BY <1>1, StateParts, TaskParts
<1>3. CASE s.rq[c].stop
  <2>1. next = Stopper
    BY <1>3 DEF pick_next_task
  <2>2. PrioOf(s, next) = 0 /\ Stopper \notin Task
    BY <1>1, <2>1, ClassFacts, RtRunQueueAssumption
  <2>. QED
    BY <1>2, <2>1, <2>2, RtRunQueueAssumption
<1>4. CASE ~s.rq[c].stop /\ s.rq[c].rt_nr_running > 0 /\ ~s.rq[c].rt_throttled
  <2>1. next = pick_next_rt_entity(s, c)
    BY <1>4 DEF pick_next_task
  <2>2. /\ next \in RtQueued(s) /\ s.task[next].cpu = c
        /\ \A x \in On(s, RtQueued(s), c) : s.task[next].prio <= s.task[x].prio
    BY <1>4, <2>1, PickEntity
  <2>3. next \in Task /\ s.task[next].on_rq /\ s.task[next].prio < MAX_RT_PRIO
    BY <2>2 DEF RtQueued
  <2>4. PrioOf(s, next) = s.task[next].prio
    BY <2>3, RtClass
  <2>5. ASSUME NEW p \in Task, s.task[p].on_rq, s.task[p].cpu = c PROVE s.task[next].prio <= s.task[p].prio
    <3>1. CASE s.task[p].prio < MAX_RT_PRIO
      BY <2>2, <2>5, <3>1 DEF On, RtQueued
    <3>2. CASE ~(s.task[p].prio < MAX_RT_PRIO)
      BY <1>2, <2>3, <3>2, RtRunQueueAssumption
    <3>. QED
      BY <3>1, <3>2
  <2>. QED
    BY <2>2, <2>3, <2>4, <2>5
<1>5. CASE ~s.rq[c].stop /\ ~(s.rq[c].rt_nr_running > 0 /\ ~s.rq[c].rt_throttled)
  <2>1. PICK fair : fair = {p \in Task : s.task[p].on_rq /\ s.task[p].cpu = c /\ IsFairClass(s, p)}
    OBVIOUS
  <2>2. next \in IF fair # {} THEN fair ELSE {Idle}
    BY <1>5, <2>1 DEF pick_next_task
  <2>3. s.rq[c].rt_throttled \/ On(s, RtQueued(s), c) = {}
    <3>1. SUFFICES ASSUME ~s.rq[c].rt_throttled PROVE On(s, RtQueued(s), c) = {}
      OBVIOUS
    <3>. QED
      BY <1>1, <1>5, <3>1, NoneRunning
  <2>4. ASSUME NEW p \in Task, s.task[p].on_rq, s.task[p].cpu = c, ~Held(s, c, p)
        PROVE  p \in fair /\ s.task[p].prio = MAX_RT_PRIO
    <3>1. ~(s.task[p].prio < MAX_RT_PRIO)
      BY <2>3, <2>4 DEF On, RtQueued, Held
    <3>. QED
      BY <1>2, <2>1, <2>4, <3>1, RtClass, RtRunQueueAssumption
  <2>5. CASE fair # {}
    <3>1. next \in Task /\ s.task[next].on_rq /\ s.task[next].cpu = c /\ IsFairClass(s, next)
      BY <2>1, <2>2, <2>5
    <3>2. PrioOf(s, next) = s.task[next].prio
      BY <3>1, RtClass
    <3>. QED
      BY <1>2, <2>4, <3>1, <3>2, RtRunQueueAssumption
  <2>6. CASE fair = {}
    BY <2>2, <2>4, <2>6, RtRunQueueAssumption
  <2>. QED
    BY <2>5, <2>6
<1>. QED
  BY <1>3, <1>4, <1>5

(* pick_next_task_rt: the task that is picked is pushable no more.         *)
LEMMA PickedOk ==
    ASSUME NEW s, NEW Q, QueuesOk(s, Q), NEW c \in Cpu, NEW next, NEW a, a = pick_next_task_rt(s, c, next)
    PROVE  /\ QueuesOk(a, Q) /\ a.task = s.task /\ a.rq[c].curr = s.rq[c].curr
           /\ a.rq[c].wake_list = s.rq[c].wake_list
           /\ a.rq[c].ipi = s.rq[c].ipi /\ a.rq[c].rt_throttled = s.rq[c].rt_throttled
           /\ \A d \in Cpu \ {c} : a.rq[d] = s.rq[d]
           /\ \A x \in Members(a.rq[c].pushable) : x \in Members(s.rq[c].pushable) /\ x # next
<1>1. PICK e : e = IF next \in Task /\ IsRtClass(s, next) THEN dequeue_pushable_task(s, c, next) ELSE s
  OBVIOUS
<1>2. /\ QueuesOk(e, Q) /\ Only(s, e, c)
      /\ \A x \in Members(e.rq[c].pushable) : x \in Members(s.rq[c].pushable) /\ x # next
  <2>1. CASE next \in Task /\ IsRtClass(s, next)
    <3>1. e = dequeue_pushable_task(s, c, next)
      BY <1>1, <2>1
    <3>2. QueuesOk(e, Q) /\ Only(s, e, c) /\ Members(e.rq[c].pushable) = Members(s.rq[c].pushable) \ {next}
      BY <3>1, DequeuePushable
    <3>. QED
      BY <3>2
  <2>2. CASE ~(next \in Task /\ IsRtClass(s, next))
    <3>1. e = s
      BY <1>1, <2>2
    <3>2. Members(s.rq[c].pushable) \subseteq Q /\ Q \subseteq Task /\ s \in StateT
          /\ \A x \in Q : s.task[x].prio \in RtPrio
      BY DEF QueuesOk, Pushables, Migratory, On
    <3>3. \A x \in Q : x \in Task /\ IsRtClass(s, x)
      BY <3>2, RtClass, RtRunQueueAssumption DEF RtPrio
    <3>. QED
      BY <2>2, <3>1, <3>2, <3>3 DEF Only
  <2>. QED
    BY <2>1, <2>2
<1>3. /\ e \in StateT /\ e.task = s.task /\ e.rq[c].curr = s.rq[c].curr
      /\ e.rq[c].wake_list = s.rq[c].wake_list
      /\ e.rq[c].ipi = s.rq[c].ipi /\ e.rq[c].rt_throttled = s.rq[c].rt_throttled
      /\ \A d \in Cpu \ {c} : e.rq[d] = s.rq[d]
  BY <1>2 DEF Only
<1>4. CASE next = Stopper
  <2>1. a = e
    BY <1>1, <1>4 DEF pick_next_task_rt
  <2>. QED
    BY <1>2, <1>3, <2>1
<1>5. CASE next # Stopper
  <2>1. e.rq[c] \in RqT
    BY <1>3, StateParts
  <2>2. PICK b \in BOOLEAN : b = (e.rq[c].pushable # <<>>)
    OBVIOUS
  <2>3. [e.rq[c] EXCEPT !.post_schedule = b] \in RqT
    BY <2>1 DEF RqT
  <2>4. PICK v \in RqT : v = [e.rq[c] EXCEPT !.post_schedule = b]
    BY <2>3
  <2>5. /\ SameCaches(e.rq[c], v) /\ v.curr = e.rq[c].curr /\ v.wake_list = e.rq[c].wake_list
        /\ v.ipi = e.rq[c].ipi /\ v.rt_throttled = e.rq[c].rt_throttled
    BY <2>1, <2>4 DEF RqT, SameCaches
  <2>6. a = PutRq(e, c, v)
    BY <1>1, <1>5, <2>2, <2>4 DEF pick_next_task_rt, PutRq
  <2>7. QueuesOk(a, Q)
    BY <1>2, <2>5, <2>6, SetRqQueues
  <2>8. a.rq[c] = v /\ (\A d \in Cpu \ {c} : a.rq[d] = e.rq[d]) /\ a.task = e.task
    BY <1>3, <2>6, SetRq
  <2>9. a.rq[c].pushable = e.rq[c].pushable
    BY <2>5, <2>8 DEF SameCaches
  <2>. QED
    BY <1>2, <1>3, <2>5, <2>7, <2>8, <2>9
<1>. QED
  BY <1>4, <1>5

(* t is s but for the tasks' being on a CPU.                               *)
OnCpuOnly(s, t) ==
    \A x \in Task : /\ t.task[x].on_rq = s.task[x].on_rq /\ t.task[x].cpu = s.task[x].cpu
                    /\ t.task[x].prio = s.task[x].prio /\ t.task[x].allowed = s.task[x].allowed
                    /\ t.task[x].state = s.task[x].state

PutOnCpu(s, p, b) == [s EXCEPT !.task[p].on_cpu = b]

(* on_cpu of one task is set and nothing else.                             *)
LEMMA SetOnCpu ==
    ASSUME NEW s, NEW Q, QueuesOk(s, Q), NEW p \in Task, NEW b \in BOOLEAN, NEW t, t = PutOnCpu(s, p, b)
    PROVE  /\ QueuesOk(t, Q) /\ t.rq = s.rq /\ OnCpuOnly(s, t)
           /\ t.task[p].on_cpu = b /\ \A x \in Task \ {p} : t.task[x].on_cpu = s.task[x].on_cpu
<1>1. s \in StateT /\ s.task[p] \in TaskT
  BY StateParts DEF QueuesOk
<1>2. [s.task[p] EXCEPT !.on_cpu = b] \in TaskT
  BY <1>1 DEF TaskT
<1>3. PICK v \in TaskT : v = [s.task[p] EXCEPT !.on_cpu = b]
  BY <1>2
<1>4. /\ v.prio = s.task[p].prio /\ v.cpu = s.task[p].cpu /\ v.allowed = s.task[p].allowed
      /\ v.on_rq = s.task[p].on_rq /\ v.state = s.task[p].state /\ v.on_cpu = b
  BY <1>1, <1>3 DEF TaskT
<1>5. t = PutTask(s, p, v)
  BY <1>3 DEF PutTask, PutOnCpu
<1>6. QueuesOk(t, Q)
  BY <1>4, <1>5, SetTaskQueues
<1>7. t.rq = s.rq /\ t.task[p] = v /\ \A x \in Task \ {p} : t.task[x] = s.task[x]
  BY <1>1, <1>5, SetTask
<1>8. OnCpuOnly(s, t)
  BY <1>4, <1>7 DEF OnCpuOnly
<1>. QED
  BY <1>4, <1>6, <1>7, <1>8

(* The marks of the two tasks, without the change of curr.                 *)
Marked(s, t, prev, next) ==
    \A x \in Task :
        /\ x = next /\ next # prev => t.task[x].on_cpu
        /\ x = prev /\ next # prev => ~t.task[x].on_cpu
        /\ (x # prev /\ x # next) \/ prev = next => t.task[x].on_cpu = s.task[x].on_cpu

(* The context switch moves on_cpu from prev to next.                      *)
LEMMA SwitchMarks ==
    ASSUME NEW s, NEW Q, QueuesOk(s, Q), NEW prev, NEW next, prev # next,
           NEW t, t = finish_lock_switch(prepare_lock_switch(s, next), prev)
    PROVE  /\ QueuesOk(t, Q) /\ t.rq = s.rq /\ OnCpuOnly(s, t)
           /\ Marked(s, t, prev, next)
<1>1. PICK a : a = prepare_lock_switch(s, next)
  OBVIOUS
<1>2. /\ QueuesOk(a, Q) /\ a.rq = s.rq /\ OnCpuOnly(s, a)
      /\ \A x \in Task : a.task[x].on_cpu = IF x = next THEN TRUE ELSE s.task[x].on_cpu
  <2>1. CASE next \in Task
    <3>0. PICK b \in BOOLEAN : b = TRUE
      OBVIOUS
    <3>1. a = PutOnCpu(s, next, b)
      BY <1>1, <2>1, <3>0 DEF prepare_lock_switch, PutOnCpu
    <3>2. /\ QueuesOk(a, Q) /\ a.rq = s.rq /\ OnCpuOnly(s, a)
          /\ a.task[next].on_cpu = b /\ \A x \in Task \ {next} : a.task[x].on_cpu = s.task[x].on_cpu
      BY <2>1, <3>1, SetOnCpu
    <3>. QED
      BY <3>0, <3>2
  <2>2. CASE next \notin Task
    BY <1>1, <2>2 DEF prepare_lock_switch, OnCpuOnly
  <2>. QED
    BY <2>1, <2>2
<1>3. CASE prev \in Task
  <2>0. PICK b \in BOOLEAN : b = FALSE
    OBVIOUS
  <2>1. t = PutOnCpu(a, prev, b)
    BY <1>1, <1>3, <2>0 DEF finish_lock_switch, PutOnCpu
  <2>3. /\ QueuesOk(t, Q) /\ t.rq = a.rq /\ OnCpuOnly(a, t)
        /\ t.task[prev].on_cpu = b /\ \A x \in Task \ {prev} : t.task[x].on_cpu = a.task[x].on_cpu
    BY <1>2, <1>3, <2>1, SetOnCpu
  <2>4. OnCpuOnly(s, t)
    BY <1>2, <2>3 DEF OnCpuOnly
  <2>5. Marked(s, t, prev, next)
    BY <1>2, <2>0, <2>3 DEF Marked
  <2>. QED
    BY <1>2, <2>3, <2>4, <2>5
<1>4. CASE prev \notin Task
  <2>1. t = a
    BY <1>1, <1>4 DEF finish_lock_switch
  <2>2. Marked(s, t, prev, next)
    BY <1>2, <1>4, <2>1 DEF Marked
  <2>. QED
    BY <1>2, <2>1, <2>2
<1>. QED
  BY <1>3, <1>4

Unflag(s, c) == [s EXCEPT !.rq[c].need_resched = FALSE]

(* The queues after the switch, and the task that now runs.                *)
LEMMA SwitchQueues ==
    ASSUME NEW a, NEW Q, QueuesOk(a, Q), NEW c \in Cpu, NEW prev, a.rq[c].curr = prev,
           NEW next \in Task \cup {Idle, Stopper}, NEW b, b = Unflag(a, c),
           NEW t, t = context_switch(b, c, prev, next)
    PROVE  /\ QueuesOk(t, Q) /\ OnCpuOnly(a, t)
           /\ t.rq[c].curr = next /\ t.rq[c].wake_list = a.rq[c].wake_list
           /\ t.rq[c].ipi = a.rq[c].ipi /\ t.rq[c].rt_throttled = a.rq[c].rt_throttled
           /\ t.rq[c].pushable = a.rq[c].pushable
           /\ \A d \in Cpu \ {c} : t.rq[d] = a.rq[d]
           /\ Marked(a, t, prev, next)
<1>1. a \in StateT /\ a.rq[c] \in RqT
  BY StateParts DEF QueuesOk
<1>2. [a.rq[c] EXCEPT !.need_resched = FALSE] \in RqT
  BY <1>1 DEF RqT
<1>3. PICK v \in RqT : v = [a.rq[c] EXCEPT !.need_resched = FALSE]
  BY <1>2
<1>4. /\ SameCaches(a.rq[c], v) /\ v.curr = prev /\ v.wake_list = a.rq[c].wake_list
      /\ v.ipi = a.rq[c].ipi /\ v.rt_throttled = a.rq[c].rt_throttled
      /\ v.post_schedule = a.rq[c].post_schedule /\ v.pushable = a.rq[c].pushable
  BY <1>1, <1>3 DEF RqT, SameCaches
<1>5. b = PutRq(a, c, v)
  BY <1>3 DEF PutRq, Unflag
<1>6. QueuesOk(b, Q)
  BY <1>4, <1>5, SetRqQueues
<1>7. /\ b \in StateT /\ b.rq[c] = v /\ (\A d \in Cpu \ {c} : b.rq[d] = a.rq[d]) /\ b.task = a.task
  BY <1>1, <1>5, SetRq
<1>8. CASE prev = next
  <2>1. t = b
    BY <1>8 DEF context_switch
  <2>2. OnCpuOnly(a, t) /\ Marked(a, t, prev, next)
    BY <1>7, <1>8, <2>1 DEF OnCpuOnly, Marked
  <2>. QED
    BY <1>4, <1>6, <1>7, <1>8, <2>1, <2>2
<1>9. CASE prev # next
  <2>1. [v EXCEPT !.curr = next] \in RqT
    BY DEF RqT
  <2>2. PICK w \in RqT : w = [v EXCEPT !.curr = next]
    BY <2>1
  <2>3. /\ SameCaches(v, w) /\ w.curr = next /\ w.wake_list = v.wake_list
        /\ w.ipi = v.ipi /\ w.rt_throttled = v.rt_throttled
        /\ w.pushable = v.pushable
    BY <2>2 DEF RqT, SameCaches
  <2>4. PICK e : e = PutRq(b, c, w)
    OBVIOUS
  <2>5. QueuesOk(e, Q)
    BY <1>6, <1>7, <2>3, <2>4, SetRqQueues
  <2>6. /\ e \in StateT /\ e.rq[c] = w /\ (\A d \in Cpu \ {c} : e.rq[d] = b.rq[d]) /\ e.task = b.task
    BY <1>7, <2>4, SetRq, SMTT(30)
  <2>7. e = [b EXCEPT !.rq[c].curr = next]
    BY <1>7, <2>2, <2>4 DEF PutRq
  <2>8. t = finish_lock_switch(prepare_lock_switch(e, next), prev)
    BY <1>9, <2>7 DEF context_switch
  <2>9. /\ QueuesOk(t, Q) /\ t.rq = e.rq /\ OnCpuOnly(e, t) /\ Marked(e, t, prev, next)
    BY <1>9, <2>5, <2>8, SwitchMarks
  <2>10. OnCpuOnly(a, t) /\ Marked(a, t, prev, next)
    BY <1>7, <2>6, <2>9 DEF OnCpuOnly, Marked
  <2>11. t.rq[c] = w /\ \A d \in Cpu \ {c} : t.rq[d] = a.rq[d]
    BY <1>7, <2>6, <2>9
  <2>. QED
    BY <1>4, <2>3, <2>9, <2>10, <2>11
<1>. QED
  BY <1>8, <1>9

(* What the whole of PickNext does on CPU c, which runs next after it.     *)
Switched(s, t, c, next) ==
    /\ StateOk(t) /\ OnCpuOnly(s, t) /\ t.rq[c].curr = next
    /\ t.rq[c].wake_list = s.rq[c].wake_list
    /\ t.rq[c].ipi = s.rq[c].ipi /\ t.rq[c].rt_throttled = s.rq[c].rt_throttled
    /\ (\A d \in Cpu \ {c} : t.rq[d] = s.rq[d])
    /\ next \in Task \cup {Idle, Stopper} /\ (next \in Task => s.task[next].on_rq)
    /\ (\A p \in Task : s.task[p].on_rq /\ s.task[p].cpu = c =>
          PrioOf(s, next) <= s.task[p].prio \/ Held(s, c, p))
    /\ \A x \in Task : t.task[x].on_cpu => s.task[x].on_cpu \/ s.task[x].on_rq

(* The whole of PickNext.                                                  *)
LEMMA SwitchOk ==
    ASSUME NEW s, StateOk(s), NEW c \in Cpu, NEW prev, s.rq[c].curr = prev,
           NEW s1, s1 = put_prev_task(s, c, prev), NEW next \in pick_next_task(s1, c),
           NEW a, a = pick_next_task_rt(s1, c, next), NEW b, b = Unflag(a, c),
           NEW t, t = context_switch(b, c, prev, next)
    PROVE  Switched(s, t, c, next)
<1>1. PICK Q : Q = RtQueued(s)
  OBVIOUS
<1>2. s \in StateT /\ CurrOk(s)
  BY StateQueues
<1>3. /\ QueuesOk(s1, Q) /\ Only(s, s1, c)
      /\ \A x \in Members(s1.rq[c].pushable) : x \in Members(s.rq[c].pushable) \/ x = prev
  BY <1>1, PutPrevOk
<1>4. /\ s1.task = s.task /\ s1.rq[c].curr = prev /\ s1.rq[c].wake_list = s.rq[c].wake_list
      /\ s1.rq[c].ipi = s.rq[c].ipi /\ s1.rq[c].rt_throttled = s.rq[c].rt_throttled
      /\ \A d \in Cpu \ {c} : s1.rq[d] = s.rq[d]
  BY <1>3 DEF Only
<1>5. RtQueued(s1) = Q
  BY <1>1, <1>4 DEF RtQueued
<1>6. /\ next \in Task \cup {Idle, Stopper}
      /\ next \in Task => s1.task[next].on_rq /\ s1.task[next].cpu = c
      /\ \A p \in Task : s1.task[p].on_rq /\ s1.task[p].cpu = c =>
            PrioOf(s1, next) <= s1.task[p].prio \/ Held(s1, c, p)
  BY <1>3, <1>5, PickFacts
<1>7. PrioOf(s1, next) = PrioOf(s, next)
  BY <1>4 DEF PrioOf
<1>8. /\ QueuesOk(a, Q) /\ a.task = s1.task /\ a.rq[c].curr = s1.rq[c].curr
      /\ a.rq[c].wake_list = s1.rq[c].wake_list
      /\ a.rq[c].ipi = s1.rq[c].ipi /\ a.rq[c].rt_throttled = s1.rq[c].rt_throttled
      /\ (\A d \in Cpu \ {c} : a.rq[d] = s1.rq[d])
      /\ \A x \in Members(a.rq[c].pushable) : x \in Members(s1.rq[c].pushable) /\ x # next
  BY <1>3, PickedOk
<1>9. /\ QueuesOk(t, Q) /\ OnCpuOnly(a, t)
      /\ t.rq[c].curr = next /\ t.rq[c].wake_list = a.rq[c].wake_list
      /\ t.rq[c].ipi = a.rq[c].ipi /\ t.rq[c].rt_throttled = a.rq[c].rt_throttled
      /\ t.rq[c].pushable = a.rq[c].pushable
      /\ \A d \in Cpu \ {c} : t.rq[d] = a.rq[d]
      /\ Marked(a, t, prev, next)
  <2>1. a.rq[c].curr = prev
    BY <1>4, <1>8
  <2>. QED
    BY <1>6, <1>8, <2>1, SwitchQueues
<1>10. OnCpuOnly(s, t)
  BY <1>4, <1>8, <1>9 DEF OnCpuOnly
<1>11. RtQueued(t) = Q
  BY <1>1, <1>10 DEF RtQueued, OnCpuOnly
<1>12. Marked(s, t, prev, next)
  BY <1>4, <1>8, <1>9 DEF Marked
<1>13. \A x \in Task : t.task[x].on_cpu => s.task[x].on_cpu \/ s.task[x].on_rq
  BY <1>2, <1>4, <1>6, <1>12 DEF Marked
<1>14. CurrOk(t)
  <2>1. \A x \in Task : s.task[x].cpu \in Cpu /\ t.task[x].cpu = s.task[x].cpu
    BY <1>2, <1>10, StateParts, TaskParts DEF OnCpuOnly
  <2>2. ASSUME NEW d \in Cpu, t.rq[d].curr \in Task
        PROVE  /\ t.task[t.rq[d].curr].on_cpu /\ t.task[t.rq[d].curr].cpu = d
               /\ t.rq[d].curr \notin Members(t.rq[d].pushable)
    <3>1. CASE d = c
      <4>1. next \in Task /\ t.rq[d].curr = next /\ next \notin Members(t.rq[d].pushable)
        BY <1>8, <1>9, <2>2, <3>1
      <4>2. t.task[next].cpu = d
        BY <1>4, <1>6, <2>1, <3>1, <4>1
      <4>3. t.task[next].on_cpu
        BY <1>2, <1>12, <3>1, <4>1 DEF CurrOk, Marked
      <4>. QED
        BY <4>1, <4>2, <4>3
    <3>2. CASE d # c
      <4>1. t.rq[d] = s.rq[d]
        BY <1>4, <1>8, <1>9, <3>2
      <4>2. PICK x \in Task : x = s.rq[d].curr
        BY <2>2, <4>1
      <4>3. s.task[x].on_cpu /\ s.task[x].cpu = d /\ x \notin Members(s.rq[d].pushable)
        BY <1>2, <4>2 DEF CurrOk
      <4>4. x # prev \/ prev = next
        BY <1>2, <3>2, <4>2, <4>3 DEF CurrOk
      <4>5. t.task[x].on_cpu
        BY <1>12, <4>3, <4>4 DEF Marked
      <4>. QED
        BY <2>1, <4>1, <4>2, <4>3, <4>5
    <3>. QED
      BY <3>1, <3>2
  <2>3. ASSUME NEW x \in Task, t.task[x].on_cpu PROVE t.rq[t.task[x].cpu].curr = x
    <3>1. CASE x = next
      BY <1>4, <1>6, <1>9, <2>1, <3>1
    <3>2. CASE x # next
      <4>1. s.task[x].on_cpu /\ x # prev
        BY <1>2, <1>12, <2>3, <3>2 DEF CurrOk, Marked
      <4>2. s.rq[s.task[x].cpu].curr = x
        BY <1>2, <4>1 DEF CurrOk
      <4>3. s.task[x].cpu # c
        BY <4>1, <4>2
      <4>4. t.rq[s.task[x].cpu] = s.rq[s.task[x].cpu]
        BY <1>4, <1>8, <1>9, <2>1, <4>3
      <4>. QED
        BY <2>1, <4>2, <4>4
    <3>. QED
      BY <3>1, <3>2
  <2>. QED
    BY <2>2, <2>3 DEF CurrOk
<1>15. StateOk(t)
  BY <1>9, <1>11, <1>14 DEF StateOk
<1>16. \A p \in Task : s.task[p].on_rq /\ s.task[p].cpu = c =>
          PrioOf(s, next) <= s.task[p].prio \/ Held(s, c, p)
  BY <1>4, <1>6, <1>7 DEF Held
<1>17. /\ t.rq[c].wake_list = s.rq[c].wake_list
       /\ t.rq[c].ipi = s.rq[c].ipi /\ t.rq[c].rt_throttled = s.rq[c].rt_throttled
       /\ \A d \in Cpu \ {c} : t.rq[d] = s.rq[d]
  BY <1>4, <1>8, <1>9
<1>18. next \in Task => s.task[next].on_rq
  BY <1>4, <1>6
<1>. QED
  BY <1>6, <1>9, <1>10, <1>13, <1>15, <1>16, <1>17, <1>18 DEF Switched

-----------------------------------------------------------------------------
(* Steps of the CPUs.                                                      *)

(* A CPU goes to a place.                                                  *)
LEMMA GotoAt ==
    ASSUME pc \in [Cpu -> PcT], NEW c \in Cpu, NEW l \in PcT, Goto(c, l)
    PROVE  At(pc, pc', c, l)
BY DEF Goto, At

(* A CPU stays where it is.                                                *)
LEMMA StayAt ==
    ASSUME NEW P \in [Cpu -> PcT], NEW c \in Cpu
    PROVE  At(P, P, c, P[c])
BY DEF At

(* The state after a handler is the one it computed.                       *)
LEMMA BecomeIs ==
    ASSUME NEW t \in StateT, Become(t)
    PROVE  S' = t
BY DEF Become, StateT, S

(* The places stay in order when one CPU moves and takes no pi that        *)
(* another CPU has.                                                        *)
LEMMA PlacesKept ==
    ASSUME NEW P, NEW P2, NEW c \in Cpu, NEW l, Places(P), At(P, P2, c, l), PlaceOk(c, l),
           l.pi = NoTask \/ l.pi = P[c].pi \/ Unheld(P, l.pi)
    PROVE  Places(P2)
<1>1. /\ \A d \in Cpu : P2[d] = IF d = c THEN l ELSE P[d]
      /\ P2 \in [Cpu -> PcT]
  BY DEF At
<1>2. \A d \in Cpu : PlaceOk(d, P2[d])
  BY <1>1 DEF Places
<1>3. ASSUME NEW d \in Cpu, NEW e \in Cpu, P2[d].pi = P2[e].pi, P2[d].pi # NoTask
      PROVE  d = e
  <2>1. CASE l.pi = NoTask
    BY <1>1, <1>3, <2>1 DEF Places
  <2>2. CASE l.pi = P[c].pi
    BY <1>1, <1>3, <2>2 DEF Places
  <2>3. CASE Unheld(P, l.pi)
    BY <1>1, <1>3, <2>3 DEF Places, Unheld
  <2>. QED
    BY <2>1, <2>2, <2>3
<1>. QED
  BY <1>1, <1>2, <1>3 DEF Places

(* Nobody holds a task that is not born.                                   *)
LEMMA UnbornKept ==
    ASSUME NEW s, NEW t, NEW P, NEW P2, NEW c \in Cpu, NEW l, Unborn(s, P), At(P, P2, c, l),
           \A p \in Task : t.task[p].state = "unborn" => s.task[p].state = "unborn",
           l.pi = NoTask \/ l.pi = P[c].pi \/ t.task[l.pi].state # "unborn"
    PROVE  Unborn(t, P2)
BY RtRunQueueAssumption DEF Unborn, Unheld, At

(* One task q may have changed, and the CPU c moved on to l.               *)
SameTask(s, t, p) ==
    /\ t.task[p].state = s.task[p].state /\ t.task[p].on_rq = s.task[p].on_rq
    /\ t.task[p].cpu = s.task[p].cpu /\ t.task[p].prio = s.task[p].prio
    /\ t.task[p].allowed = s.task[p].allowed /\ t.task[p].on_cpu = s.task[p].on_cpu

SameBut(s, t, q) == \A p \in Task \ {q} : SameTask(s, t, p)

Accounted(s, t, P, P2, c, q) ==
    /\ q \in Task => TaskStateOk(t, q)
    /\ \A d \in Cpu \ {c} : P[d].at \in {"ttwu", "ttwu_queue"} => P[d].pi # q
    /\ \A d \in Cpu : t.rq[d].curr = s.rq[d].curr
    /\ \A d \in Cpu : s.rq[d].curr = q /\ q \in Task /\ ~t.task[q].on_rq => PickL(P2[d])

(* The states of the tasks stay in order when at most q changes and q is   *)
(* accounted for.                                                          *)
LEMMA StatesKept ==
    ASSUME NEW s, NEW t, NEW P, NEW P2, NEW c \in Cpu, NEW l, NEW q, States(s, P), Places(P),
           At(P, P2, c, l), SameBut(s, t, q), Accounted(s, t, P, P2, c, q), TtwuOk(t, l),
           PickL(P[c]) => PickL(l)
    PROVE  States(t, P2)
<1>1. \A d \in Cpu \ {c} : P2[d] = P[d]
  BY DEF At
<1>2. P2[c] = l
  BY DEF At
<1>0. /\ q \in Task => TaskStateOk(t, q)
      /\ \A d \in Cpu \ {c} : P[d].at \in {"ttwu", "ttwu_queue"} => P[d].pi # q
      /\ \A d \in Cpu : t.rq[d].curr = s.rq[d].curr
      /\ \A d \in Cpu : s.rq[d].curr = q /\ q \in Task /\ ~t.task[q].on_rq => PickL(P2[d])
  BY DEF Accounted
<1>3. \A p \in Task : TaskStateOk(t, p)
  BY <1>0 DEF States, SameBut, SameTask, TaskStateOk
<1>4. ASSUME NEW d \in Cpu, t.rq[d].curr \in Task, ~t.task[t.rq[d].curr].on_rq
      PROVE  PickL(P2[d])
  <2>1. PICK x \in Task : x = s.rq[d].curr /\ ~t.task[x].on_rq
    BY <1>0, <1>4
  <2>2. CASE x = q
    BY <1>0, <2>1, <2>2
  <2>3. CASE x # q
    <3>1. ~s.task[x].on_rq
      BY <2>1, <2>3 DEF SameBut, SameTask
    <3>2. PickL(P[d])
      BY <2>1, <3>1 DEF States
    <3>. QED
      BY <1>1, <1>2, <3>2
  <2>. QED
    BY <2>2, <2>3
<1>5. ASSUME NEW d \in Cpu PROVE TtwuOk(t, P2[d])
  <2>1. CASE d = c
    BY <1>2, <2>1
  <2>2. CASE d # c
    <3>1. P2[d] = P[d] /\ TtwuOk(s, P[d]) /\ PlaceOk(d, P[d])
      BY <1>1, <2>2 DEF States, Places
    <3>2. P[d].at \in {"ttwu", "ttwu_queue"} => P[d].pi \in Task /\ P[d].pi # q
      BY <1>0, <2>2, <3>1 DEF PlaceOk
    <3>3. TtwuOk(t, P[d])
      BY <3>1, <3>2 DEF TtwuOk, SameBut, SameTask
    <3>. QED
      BY <3>1, <3>3
  <2>. QED
    BY <2>1, <2>2
<1>. QED
  BY <1>3, <1>4, <1>5 DEF States

(* No wake-up begins, ends or moves.                                       *)
LEMMA WakeKept ==
    ASSUME NEW s, NEW t, NEW P, NEW P2, NEW c \in Cpu, NEW l, Wakeups(s, P), At(P, P2, c, l),
           \A p \in Task : /\ t.task[p].state = "waking" <=> s.task[p].state = "waking"
                           /\ s.task[p].state = "waking" => t.task[p].cpu = s.task[p].cpu,
           \A d \in Cpu : t.rq[d].wake_list = s.rq[d].wake_list /\ t.rq[d].ipi = s.rq[d].ipi,
           l.rest = P[c].rest, l = P[c] \/ (l.at # "ttwu_queue" /\ P[c].at # "ttwu_queue")
    PROVE  Wakeups(t, P2)
<1>1. /\ \A d \in Cpu : P2[d].rest = P[d].rest
      /\ \A d \in Cpu, p \in Task : Queueing(P2, d, p) <=> Queueing(P, d, p)
  BY DEF At, Queueing
<1>2. \A d \in Cpu, p \in Task : Waits(t, P2, d, p) <=> Waits(s, P, d, p)
  BY <1>1 DEF Waits
<1>3. \A d \in Cpu : NoDup(t.rq[d].wake_list) /\ NoDup(P2[d].rest)
  BY <1>1 DEF Wakeups
<1>7. \A d \in Cpu : t.rq[d].wake_list # <<>> => t.rq[d].ipi
  BY DEF Wakeups
<1>4. \A d \in Cpu, p \in Task : Waits(t, P2, d, p) =>
          /\ t.task[p].state = "waking" /\ t.task[p].cpu = d
          /\ \A e \in Cpu : ~Queueing(P2, e, p)
  BY <1>1, <1>2 DEF Wakeups
<1>5. \A d \in Cpu, p \in Task : ~(p \in Members(t.rq[d].wake_list) /\ p \in Members(P2[d].rest))
  BY <1>1 DEF Wakeups
<1>6. \A p \in Task : t.task[p].state = "waking" =>
          \E d \in Cpu : Queueing(P2, d, p) \/ Waits(t, P2, d, p)
  BY <1>1, <1>2 DEF Wakeups
<1>. QED
  BY <1>3, <1>4, <1>5, <1>6, <1>7 DEF Wakeups

(* A task that is queued where it may not run still has its migration      *)
(* under way.                                                              *)
LEMMA AffKept ==
    ASSUME NEW s, NEW t, NEW M, NEW M2, NEW H, NEW H2, NEW q, Affinity(s, M, H), SameBut(s, t, q),
           H.waking \subseteq H2.waking, q \in Task \ H2.waking => Placed(t, M2, q),
           \A m \in M : m.task = q \/ m \in M2
    PROVE  Affinity(t, M2, H2)
<1>1. SUFFICES ASSUME NEW p \in Task, p \notin H2.waking, p # q PROVE Placed(t, M2, p)
  BY DEF Affinity
<1>2. Placed(s, M, p) /\ SameTask(s, t, p)
  BY <1>1 DEF Affinity, SameBut
<1>. QED
  BY <1>1, <1>2 DEF Placed, SameTask

(* The CPU c goes on with the class change it is in.                       *)
Goes(l, m) ==
    /\ PrioL(l) => PrioL(m) /\ m.rq = l.rq
    /\ SwitchL(l) => SwitchL(m) /\ m.rq = l.rq /\ m.pi = l.pi

(* What runs on CPU d is still not below what is queued, if what arrives   *)
(* is not above it or d is told.                                           *)
LEMMA HighKept ==
    ASSUME NEW s \in StateT, NEW t \in StateT, NEW P, NEW P2, NEW H, NEW H2, NEW c \in Cpu, NEW l, NEW d \in Cpu,
           High(s, P, H, d), At(P, P2, c, l), Goes(P[c], l), PickL(P[c]) => PickL(l),
           t.rq[d].curr = s.rq[d].curr, t.rq[d].rt_throttled = s.rq[d].rt_throttled,
           s.rq[d].need_resched => t.rq[d].need_resched, d \in H.unseen => d \in H2.unseen,
           \A p \in Task : \/ t.task[p].prio = s.task[p].prio
                           \/ Unheld(P, p) /\ s.rq[d].curr # p /\ ~Here(s, d, p),
           \A p \in Task : Here(t, d, p) => \/ Here(s, d, p) \/ Behind(t, d, p)
                                            \/ Excused(t, P2, H2, d) \/ PickL(P2[d])
    PROVE  High(t, P2, H2, d)
<1>0. SUFFICES ASSUME ~PickL(P2[d]), ~Excused(t, P2, H2, d)
               PROVE  \A p \in Task : Here(t, d, p) => Raised(P2, d, p) \/ Behind(t, d, p)
  BY DEF High
<1>1. /\ P2[c] = l /\ \A e \in Cpu \ {c} : P2[e] = P[e]
  BY DEF At
<1>2. ~PickL(P[d])
  BY <1>0, <1>1
<1>3. \A e \in Cpu : Goes(P[e], P2[e])
  BY <1>1 DEF Goes
<1>4. ~Lowered(s, P, d)
  <2>1. SUFFICES ASSUME NEW e \in Cpu, P[e].rq = d, SwitchL(P[e]), P[e].pi \in Task,
                        P[e].pi = s.rq[d].curr, s.task[P[e].pi].prio = MAX_RT_PRIO
                 PROVE  FALSE
    BY DEF Lowered
  <2>2. P2[e].rq = d /\ SwitchL(P2[e]) /\ P2[e].pi = P[e].pi
    BY <1>3, <2>1 DEF Goes
  <2>3. t.task[P[e].pi].prio = MAX_RT_PRIO
    BY <2>1
  <2>4. Lowered(t, P2, d)
    BY <2>1, <2>2, <2>3 DEF Lowered
  <2>. QED
    BY <1>0, <2>4 DEF Excused
<1>5. ~Excused(s, P, H, d)
  <2>1. ASSUME NEW e \in Cpu, P[e].rq = d, PrioL(P[e]) PROVE FALSE
    <3>1. P2[e].rq = d /\ PrioL(P2[e])
      BY <1>3, <2>1 DEF Goes
    <3>. QED
      BY <1>0, <3>1 DEF Excused
  <2>. QED
    BY <1>0, <1>4, <2>1 DEF Excused
<1>6. ASSUME NEW p \in Task, Here(t, d, p), ~Behind(t, d, p) PROVE Raised(P2, d, p)
  <2>1. Here(s, d, p)
    BY <1>0, <1>6
  <2>2. t.task[p].prio = s.task[p].prio
    BY <2>1
  <2>3. PrioOf(t, t.rq[d].curr) = PrioOf(s, s.rq[d].curr)
    <3>1. s.rq[d].curr \in Task \cup {Idle, Stopper}
      BY StateParts, RqParts
    <3>2. s.rq[d].curr \in Task => t.task[s.rq[d].curr].prio = s.task[s.rq[d].curr].prio
      OBVIOUS
    <3>. QED
      BY <3>1, <3>2 DEF PrioOf
  <2>4. ~Behind(s, d, p)
    BY <1>6, <2>2, <2>3 DEF Behind, Held
  <2>5. Raised(P, d, p)
    BY <1>2, <1>5, <2>1, <2>4 DEF High
  <2>6. PICK e \in Cpu : P[e].rq = d /\ SwitchL(P[e]) /\ P[e].pi = p
    BY <2>5 DEF Raised
  <2>7. P2[e].rq = d /\ SwitchL(P2[e]) /\ P2[e].pi = p
    BY <1>3, <2>6 DEF Goes
  <2>. QED
    BY <2>2, <2>5, <2>7 DEF Raised
<1>. QED
  BY <1>6

-----------------------------------------------------------------------------
(* A step that leaves the wake-ups under way where they are: CPU c goes on *)
(* to l, and at most the task q changes.                                   *)

Onward(P, P2, c, l, t) ==
    /\ At(P, P2, c, l) /\ PlaceOk(c, l)
    /\ l.pi = NoTask \/ l.pi = P[c].pi \/ (Unheld(P, l.pi) /\ t.task[l.pi].state # "unborn")
    /\ l.rest = P[c].rest /\ (l = P[c] \/ (l.at # "ttwu_queue" /\ P[c].at # "ttwu_queue"))
    /\ Goes(P[c], l) /\ (PickL(P[c]) => PickL(l)) /\ TtwuOk(t, l)

Change(s, t, P, P2, c, q) ==
    /\ SameBut(s, t, q) /\ q \notin {Idle, Stopper}
    /\ q \in Task =>
          /\ TaskStateOk(t, q) /\ t.task[q].prio = s.task[q].prio
          /\ t.task[q].state = "waking" <=> s.task[q].state = "waking"
          /\ s.task[q].state = "waking" => t.task[q].cpu = s.task[q].cpu
          /\ t.task[q].state = "unborn" => s.task[q].state = "unborn"
    /\ \A d \in Cpu \ {c} : P[d].at \in {"ttwu", "ttwu_queue"} => P[d].pi # q
    /\ \A d \in Cpu : s.rq[d].curr = q /\ q \in Task /\ ~t.task[q].on_rq => PickL(P2[d])

Arrive(s, t, P2, H2, q) ==
    q \in Task => \A d \in Cpu : Here(t, d, q) =>
        Here(s, d, q) \/ Behind(t, d, q) \/ Excused(t, P2, H2, d) \/ PickL(P2[d])

Fixed(t, M, M2, H, H2, q) ==
    /\ H.waking \subseteq H2.waking /\ H.unseen \subseteq H2.unseen
    /\ q \in Task \ H2.waking => Placed(t, M2, q)
    /\ \A m \in M : m.task = q \/ m \in M2

(* A step of CPU c that changes at most the task q keeps the invariant.    *)
LEMMA OneStep ==
    ASSUME NEW s, NEW t, NEW P, NEW P2, NEW M, NEW M2, NEW H, NEW H2, NEW e, NEW e2,
           NEW c \in Cpu, NEW l, NEW q,
           InvOf(s, P, M, H, e), StateOk(t), Calm(s, t), Onward(P, P2, c, l, t),
           Change(s, t, P, P2, c, q), Arrive(s, t, P2, H2, q), Fixed(t, M, M2, H, H2, q),
           Sane(M2, H2, e2)
    PROVE  InvOf(t, P2, M2, H2, e2)
<1>1. /\ StateOk(s) /\ Places(P) /\ Unborn(s, P) /\ States(s, P) /\ Wakeups(s, P)
      /\ Affinity(s, M, H) /\ \A d \in Cpu : High(s, P, H, d)
  BY DEF InvOf
<1>2. s \in StateT /\ t \in StateT
  BY <1>1, StateQueues
<1>3. /\ At(P, P2, c, l) /\ PlaceOk(c, l)
      /\ l.pi = NoTask \/ l.pi = P[c].pi \/ (Unheld(P, l.pi) /\ t.task[l.pi].state # "unborn")
      /\ l.rest = P[c].rest /\ (l = P[c] \/ (l.at # "ttwu_queue" /\ P[c].at # "ttwu_queue"))
      /\ Goes(P[c], l) /\ (PickL(P[c]) => PickL(l)) /\ TtwuOk(t, l)
  BY DEF Onward
<1>4. \A d \in Cpu : /\ t.rq[d].curr = s.rq[d].curr /\ t.rq[d].wake_list = s.rq[d].wake_list
                     /\ t.rq[d].ipi = s.rq[d].ipi /\ t.rq[d].rt_throttled = s.rq[d].rt_throttled
                     /\ s.rq[d].need_resched => t.rq[d].need_resched
  BY DEF Calm
<1>5. SameBut(s, t, q)
  BY DEF Change
<1>6. Places(P2)
  BY <1>1, <1>3, PlacesKept
<1>7. Unborn(t, P2)
  <2>1. \A p \in Task : t.task[p].state = "unborn" => s.task[p].state = "unborn"
    BY DEF Change, SameBut, SameTask
  <2>. QED
    BY <1>1, <1>3, <2>1, UnbornKept
<1>8. States(t, P2)
  <2>1. Accounted(s, t, P, P2, c, q)
    BY <1>4 DEF Change, Accounted
  <2>. QED
    BY <1>1, <1>3, <1>5, <2>1, StatesKept
<1>9. Wakeups(t, P2)
  <2>1. \A p \in Task : /\ t.task[p].state = "waking" <=> s.task[p].state = "waking"
                        /\ s.task[p].state = "waking" => t.task[p].cpu = s.task[p].cpu
    BY DEF Change, SameBut, SameTask
  <2>2. \A d \in Cpu : t.rq[d].wake_list = s.rq[d].wake_list /\ t.rq[d].ipi = s.rq[d].ipi
    BY <1>4
  <2>. QED
    BY <1>1, <1>3, <2>1, <2>2, WakeKept, ZenonT(120)
<1>10. Affinity(t, M2, H2)
  BY <1>1, <1>5, AffKept DEF Fixed
<1>11. ASSUME NEW d \in Cpu PROVE High(t, P2, H2, d)
  <2>1. \A p \in Task : t.task[p].prio = s.task[p].prio
    BY DEF Change, SameBut, SameTask
  <2>2. \A p \in Task : Here(t, d, p) => \/ Here(s, d, p) \/ Behind(t, d, p)
                                         \/ Excused(t, P2, H2, d) \/ PickL(P2[d])
    BY <1>5 DEF Arrive, SameBut, SameTask, Here
  <2>3. d \in H.unseen => d \in H2.unseen
    BY DEF Fixed
  <2>4. /\ t.rq[d].curr = s.rq[d].curr /\ t.rq[d].rt_throttled = s.rq[d].rt_throttled
        /\ s.rq[d].need_resched => t.rq[d].need_resched
    BY <1>4
  <2>5. High(s, P, H, d)
    BY <1>1
  <2>. QED
    BY <1>2, <1>3, <2>1, <2>2, <2>3, <2>4, <2>5, HighKept
<1>. QED
  BY <1>6, <1>7, <1>8, <1>9, <1>10, <1>11 DEF InvOf

(* The same when no task changes.                                          *)
LEMMA KeepStep ==
    ASSUME NEW s, NEW t, NEW P, NEW P2, NEW M, NEW H, NEW e, NEW e2, NEW H2, NEW c \in Cpu, NEW l,
           InvOf(s, P, M, H, e), StateOk(t), Calm(s, t), Onward(P, P2, c, l, t),
           SameBut(s, t, NoTask), H.waking \subseteq H2.waking /\ H.unseen \subseteq H2.unseen,
           Sane(M, H2, e2)
    PROVE  InvOf(t, P2, M, H2, e2)
<1>1. NoTask \notin Task /\ NoTask \notin {Idle, Stopper}
  BY RtRunQueueAssumption
<1>2. PICK q : q = NoTask
  OBVIOUS
<1>3. Arrive(s, t, P2, H2, q)
  BY <1>1, <1>2 DEF Arrive
<1>4. Fixed(t, M, M, H, H2, q)
  BY <1>1, <1>2 DEF Fixed
<1>5. Change(s, t, P, P2, c, q)
  <2>1. Places(P)
    BY DEF InvOf
  <2>2. \A d \in Cpu \ {c} : P[d].at \in {"ttwu", "ttwu_queue"} => P[d].pi # q
    BY <1>1, <1>2, <2>1 DEF Places, PlaceOk
  <2>. QED
    BY <1>1, <1>2, <2>2 DEF Change
<1>. QED
  BY <1>2, <1>3, <1>4, <1>5, OneStep

(* What follows from the same tasks.                                       *)
LEMMA SameTasks ==
    ASSUME NEW s, NEW t, t.task = s.task
    PROVE  SameBut(s, t, NoTask)
BY DEF SameBut, SameTask

-----------------------------------------------------------------------------
(* Where a CPU goes next.                                                  *)

Follows(c, l, m) ==
    /\ PlaceOk(c, m) /\ (m.pi = NoTask \/ m.pi = l.pi)
    /\ m.rest = l.rest /\ m.at \notin {"ttwu", "ttwu_queue"} /\ l.at # "ttwu_queue"
    /\ Goes(l, m) /\ (PickL(l) => PickL(m))

(* A CPU that follows its path goes onward.                                *)
LEMMA FollowOn ==
    ASSUME NEW P, NEW P2, NEW c, NEW m, NEW t, At(P, P2, c, m), Follows(c, P[c], m)
    PROVE  Onward(P, P2, c, m, t)
BY DEF Onward, Follows, TtwuOk, PlaceOk

(* The place outside the scheduler.                                        *)
LEMMA RunOk ==
    ASSUME NEW c \in Cpu
    PROVE  /\ Run \in PcT /\ PlaceOk(c, Run) /\ Run.at = "run" /\ Run.rest = <<>> /\ Run.pi = NoTask
           /\ Run.rq = 0 /\ Run.p = NoTask /\ Run.to = 0 /\ Run.tries = 0 /\ Run.k = ""
           /\ ~PickL(Run) /\ ~PrioL(Run) /\ ~SwitchL(Run)
<1>1. 0 \in Cpu
  BY RtRunQueueAssumption DEF Cpu
<1>2. <<>> \in Seq(Task)
  OBVIOUS
<1>3. Run \in PcT
  BY <1>1, <1>2 DEF Run, PcT, Labels
<1>4. PlaceOk(c, Run)
  BY <1>3, ZenonT(30) DEF Run, PlaceOk, Pushing
<1>. QED
  BY <1>3, <1>4, ZenonT(30) DEF Run, PickL, PrioL, SwitchL, Pushing

(* CPUs outside the scheduler.                                             *)
LEMMA AtRun ==
    ASSUME NEW P, Places(P), NEW c \in Cpu, P[c].at = "run"
    PROVE  P[c] = Run
BY DEF Places, PlaceOk

PullKind == {"pick", "switched_to", "prio_changed"}

Pulled(l, m) ==
    /\ m \in PcT /\ m.rq = l.rq /\ m.pi = l.pi /\ m.rest = l.rest
    /\ (m.at = "pull" /\ m.k = l.k) \/ (m.at = l.k /\ m.k = "")

(* The loop of pull_rt_task ends, or is at the next run queue it locks.    *)
LEMMA PullLoopOk ==
    ASSUME NEW s \in StateT, NEW l \in PcT, NEW from, l.k \in PullKind,
           NEW m, m = PullLoop(s, l, from)
    PROVE  Pulled(l, m)
<1>1. PICK src : src = PullSources(s, l.rq, from)
  OBVIOUS
<1>2. src \subseteq Cpu
  BY <1>1, StateParts DEF PullSources
<1>3. CASE src = {}
  <2>1. m = [l EXCEPT !.at = l.k, !.to = 0, !.k = ""]
    BY <1>1, <1>3 DEF PullLoop
  <2>2. 0 \in Cpu
    BY RtRunQueueAssumption DEF Cpu
  <2>. QED
    BY <2>1, <2>2, ZenonT(30) DEF PcT, Labels, PullKind, Pulled
<1>4. CASE src # {}
  <2>1. m = [l EXCEPT !.at = "pull", !.to = MinOf(src)]
    BY <1>1, <1>4 DEF PullLoop
  <2>2. MinOf(src) \in Cpu
    <3>1. src \in SUBSET Nat
      BY <1>2, RtRunQueueAssumption DEF Cpu
    <3>. QED
      BY <1>2, <1>4, <3>1, MinOfLeast
  <2>. QED
    BY <2>1, <2>2, ZenonT(30) DEF PcT, Labels, PullKind, Pulled
<1>. QED
  BY <1>3, <1>4

(* Where a CPU is in the loop of pull_rt_task or after it.                 *)
LEMMA PullPlace ==
    ASSUME NEW c \in Cpu, NEW s \in StateT, NEW l \in PcT, NEW from,
           l.k \in PullKind, l.rest = <<>>,
           l.k = "pick" => l.rq = c /\ l.pi = NoTask, l.k # "pick" => l.pi \in Task,
           NEW m, m = PullLoop(s, l, from)
    PROVE  /\ PlaceOk(c, m) /\ m.rq = l.rq /\ m.pi = l.pi /\ m.rest = <<>>
           /\ m.at \notin {"run", "ttwu", "ttwu_queue"}
           /\ PickL(m) <=> l.k = "pick"
           /\ PrioL(m) <=> l.k = "prio_changed"
           /\ SwitchL(m) <=> l.k = "switched_to"
<1>0. Pulled(l, m)
  BY PullLoopOk
<1>1. /\ m \in PcT /\ m.rq = l.rq /\ m.pi = l.pi /\ m.rest = l.rest
      /\ (m.at = "pull" /\ m.k = l.k) \/ (m.at = l.k /\ m.k = "")
  BY <1>0, ZenonT(30) DEF Pulled
<1>2. PlaceOk(c, m)
  BY <1>1, ZenonT(30) DEF PlaceOk, Pushing, PullKind
<1>. QED
  BY <1>1, <1>2, ZenonT(30) DEF PickL, PrioL, SwitchL, Pushing, PullKind

(* The turns of pull_rt_task.                                              *)
LEMMA PullFollows ==
    ASSUME NEW c \in Cpu, NEW s \in StateT, NEW l, PlaceOk(c, l), l.at = "pull", NEW from,
           NEW m, m = PullLoop(s, l, from)
    PROVE  Follows(c, l, m) /\ m.rq = l.rq /\ (l.k = "pick" => PickL(m)) /\ (l.k = "prio_changed" => PrioL(m))
<1>1. /\ l \in PcT /\ l.k \in PullKind /\ l.rest = <<>>
      /\ l.k = "pick" => l.rq = c /\ l.pi = NoTask
      /\ l.k # "pick" => l.pi \in Task
  BY DEF PlaceOk, Pushing, PullKind
<1>2. /\ PlaceOk(c, m) /\ m.rq = l.rq /\ m.pi = l.pi /\ m.rest = <<>>
      /\ m.at \notin {"run", "ttwu", "ttwu_queue"}
      /\ PickL(m) <=> l.k = "pick"
      /\ PrioL(m) <=> l.k = "prio_changed"
      /\ SwitchL(m) <=> l.k = "switched_to"
  BY <1>1, PullPlace
<1>3. Goes(l, m)
  BY <1>1, <1>2 DEF Goes, PrioL, SwitchL, Pushing
<1>. QED
  BY <1>1, <1>2, <1>3 DEF Follows, PickL

(* The calls end, and what is left of a wake list comes next.              *)
LEMMA ReturnOk ==
    ASSUME NEW c \in Cpu, NEW l \in PcT, l.rest # <<>> => l.rq = c, NEW m, m = Return(l)
    PROVE  /\ PlaceOk(c, m) /\ m.pi = NoTask /\ m.rest = l.rest /\ m.at \in {"run", "pending"}
           /\ ~PickL(m) /\ ~PrioL(m) /\ ~SwitchL(m)
<1>1. CASE l.rest = <<>>
  <2>1. m = Run
    BY <1>1 DEF Return
  <2>. QED
    BY <1>1, <2>1, RunOk, ZenonT(30)
<1>2. CASE l.rest # <<>>
  <2>1. m = [Run EXCEPT !.at = "pending", !.rq = l.rq, !.rest = l.rest]
    BY <1>2 DEF Return
  <2>2. l.rq \in Cpu /\ l.rest \in Seq(Task)
    BY ZenonT(30) DEF PcT
  <2>3. Run \in PcT /\ Run.pi = NoTask
    BY RunOk, ZenonT(30)
  <2>4. m \in PcT /\ m.at = "pending" /\ m.rq = l.rq /\ m.rest = l.rest /\ m.pi = NoTask
    BY <2>1, <2>2, <2>3, ZenonT(30) DEF PcT, Labels
  <2>. QED
    BY <1>2, <2>4 DEF PlaceOk, Pushing, PickL, PrioL, SwitchL
<1>. QED
  BY <1>1, <1>2

(* push_rt_task returns to its caller, which tries again or goes on.       *)
LEMMA PushReturnOk ==
    ASSUME NEW c \in Cpu, NEW l, PlaceOk(c, l), l.at \in Pushing, NEW ret \in BOOLEAN,
           NEW m, m = PushReturn(l, ret)
    PROVE  Follows(c, l, m)
<1>1. l \in PcT /\ l.k \in {"post", "woken", "switched"} /\ (l.rest # <<>> => l.rq = c)
      /\ (l.k = "switched" => l.pi \in Task /\ l.rest = <<>>)
      /\ (l.k = "post" => l.rest = <<>>)
  BY DEF PlaceOk, Pushing
<1>2. PICK n : n = [l EXCEPT !.p = NoTask, !.to = 0, !.tries = 0]
  OBVIOUS
<1>3. /\ n \in PcT /\ n.at = l.at /\ n.rq = l.rq /\ n.k = l.k /\ n.rest = l.rest /\ n.pi = l.pi
  <2>1. 0 \in Cpu
    BY RtRunQueueAssumption DEF Cpu
  <2>. QED
    BY <1>1, <1>2, <2>1, ZenonT(30) DEF PcT
<1>4. ~PickL(l) /\ ~PrioL(l) /\ (SwitchL(l) <=> l.k = "switched")
  BY DEF PickL, PrioL, SwitchL, Pushing
<1>5. CASE l.k = "switched"
  <2>1. m = [n EXCEPT !.at = "switched_to", !.k = IF ret THEN "pushed" ELSE ""]
    BY <1>2, <1>5 DEF PushReturn
  <2>2. /\ m \in PcT /\ m.at = "switched_to" /\ m.rq = l.rq /\ m.rest = l.rest /\ m.pi = l.pi
    BY <1>3, <2>1, ZenonT(30) DEF PcT, Labels
  <2>. QED
    BY <1>1, <1>4, <1>5, <2>2 DEF Follows, PlaceOk, Pushing, Goes, SwitchL
<1>6. CASE l.k # "switched" /\ ret
  <2>1. m = [n EXCEPT !.at = "push"]
    BY <1>2, <1>6 DEF PushReturn
  <2>2. /\ m \in PcT /\ m.at = "push" /\ m.rq = l.rq /\ m.rest = l.rest /\ m.pi = l.pi /\ m.k = l.k
    BY <1>3, <2>1, ZenonT(30) DEF PcT, Labels
  <2>3. PlaceOk(c, m)
    BY <1>1, <1>6, <2>2 DEF PlaceOk, Pushing
  <2>. QED
    BY <1>4, <1>6, <2>2, <2>3 DEF Follows, Goes, Pushing
<1>7. CASE l.k # "switched" /\ ~ret
  <2>1. m = Return(l)
    BY <1>7 DEF PushReturn
  <2>2. /\ PlaceOk(c, m) /\ m.pi = NoTask /\ m.rest = l.rest /\ m.at \in {"run", "pending"}
    BY <1>1, <2>1, ReturnOk
  <2>. QED
    BY <1>4, <1>7, <2>2 DEF Follows, Goes, Pushing
<1>. QED
  BY <1>5, <1>6, <1>7

(* The push looks again, or drops the lock for another one.                *)
LEMMA PushAgain ==
    ASSUME NEW c \in Cpu, NEW l, PlaceOk(c, l), l.at \in Pushing,
           NEW p, NEW to \in Cpu, NEW n \in Nat, NEW at, at \in {"retry", "push_lock"},
           at = "push_lock" => p \in Task, at = "retry" => p = NoTask,
           NEW m
    PROVE  m = [l EXCEPT !.at = at, !.p = p, !.to = to, !.tries = n] => Follows(c, l, m)
<1>0. SUFFICES ASSUME m = [l EXCEPT !.at = at, !.p = p, !.to = to, !.tries = n] PROVE Follows(c, l, m)
  OBVIOUS
<1>1. l \in PcT
  BY DEF PlaceOk
<1>2. m \in PcT /\ m.at = at /\ m.p = p /\ m.rq = l.rq /\ m.k = l.k /\ m.rest = l.rest /\ m.pi = l.pi
  BY <1>0, <1>1, ZenonT(30) DEF PcT, Labels
<1>3. PlaceOk(c, m)
  BY <1>2 DEF PlaceOk, Pushing
<1>4. Goes(l, m)
  BY <1>2 DEF Goes, PrioL, SwitchL, Pushing
<1>. QED
  BY <1>2, <1>3, <1>4 DEF Follows, PickL, Pushing

-----------------------------------------------------------------------------
(* The actions that change no task.                                        *)

(* pre_schedule in a state s.                                              *)
LEMMA PreSchedule ==
    ASSUME Places(pc), NEW c \in Cpu, pc[c].at \in {"run", "schedule"}, NEW s \in StateT,
           pre_schedule(c, s)
    PROVE  S' = s /\ \E m : At(pc, pc', c, m) /\ Follows(c, pc[c], m) /\ PickL(m)
<1>1. Become(s) /\ pc \in [Cpu -> PcT] /\ PlaceOk(c, pc[c])
  BY DEF pre_schedule, Places
<1>2. S' = s
  BY <1>1, BecomeIs
<1>3. pc[c].rest = <<>> /\ ~PrioL(pc[c]) /\ ~SwitchL(pc[c]) /\ ~PickL(pc[c])
  BY <1>1 DEF PlaceOk, Pushing, PrioL, SwitchL, PickL
<1>4. /\ Run \in PcT /\ Run.at = "run" /\ Run.rest = <<>> /\ Run.pi = NoTask
  BY RunOk, ZenonT(30)
<1>5. PICK l : l = [Run EXCEPT !.rq = c, !.k = "pick"]
  OBVIOUS
<1>6. l \in PcT /\ l.rq = c /\ l.k = "pick" /\ l.rest = <<>> /\ l.pi = NoTask
  BY <1>4, <1>5, ZenonT(30) DEF PcT
<1>7. PICK m : Goto(c, m) /\ (m = PullLoop(s, l, 0) \/ m = [l EXCEPT !.at = "pick", !.k = ""])
  BY <1>5 DEF pre_schedule
<1>8. PlaceOk(c, m) /\ m.rest = <<>> /\ m.pi = NoTask /\ PickL(m)
      /\ m.at \notin {"ttwu", "ttwu_queue"}
  <2>1. CASE m = PullLoop(s, l, 0)
    <3>1. l.k \in PullKind /\ l.k = "pick"
      BY <1>6 DEF PullKind
    <3>. QED
      BY <1>6, <2>1, <3>1, PullPlace
  <2>2. CASE m = [l EXCEPT !.at = "pick", !.k = ""]
    <3>1. m \in PcT /\ m.at = "pick" /\ m.rq = c /\ m.rest = <<>> /\ m.pi = NoTask
      BY <1>6, <2>2, ZenonT(30) DEF PcT, Labels
    <3>. QED
      BY <3>1 DEF PlaceOk, Pushing, PickL
  <2>. QED
    BY <1>7, <2>1, <2>2
<1>9. At(pc, pc', c, m)
  <2>1. m \in PcT
    BY <1>8 DEF PlaceOk
  <2>. QED
    BY <1>1, <1>7, <2>1, GotoAt
<1>10. Follows(c, pc[c], m)
  BY <1>3, <1>8 DEF Follows, Goes
<1>. QED
  BY <1>2, <1>8, <1>9, <1>10

(* The parts of the invariant that the actions start from.                 *)
LEMMA InvParts ==
    ASSUME SchedInv
    PROVE  /\ InvOf(S, pc, mig, hist, events) /\ StateOk(S) /\ S \in StateT /\ CurrOk(S)
           /\ Places(pc) /\ pc \in [Cpu -> PcT] /\ (\A c \in Cpu : PlaceOk(c, pc[c]))
           /\ Unborn(S, pc) /\ States(S, pc) /\ Wakeups(S, pc) /\ Affinity(S, mig, hist)
           /\ Sane(mig, hist, events) /\ \A d \in Cpu : High(S, pc, hist, d)
           /\ S.task = task /\ S.rq = rq
BY StateQueues DEF SchedInv, InvOf, Places, S

(* An event stays within the bound.                                        *)
LEMMA EventSane ==
    ASSUME NEW M, NEW H, Sane(M, H, events), Event PROVE Sane(M, H, events')
BY RtSchedAssumption DEF Sane, Event

(* schedule() of a task that is preempted.                                 *)
LEMMA PreemptInv ==
    ASSUME SchedInv, NEW c \in Cpu, Preempt(c) PROVE SchedInv'
<1>1. InvOf(S, pc, mig, hist, events) /\ StateOk(S) /\ S \in StateT /\ Places(pc) /\ Sane(mig, hist, events)
  BY InvParts
<1>2. pc[c].at \in {"run", "schedule"} /\ pre_schedule(c, S)
      /\ mig' = mig /\ hist' = hist /\ events' = events
  BY DEF Preempt
<1>3. S' = S /\ \E m : At(pc, pc', c, m) /\ Follows(c, pc[c], m) /\ PickL(m)
  BY <1>1, <1>2, PreSchedule
<1>4. PICK m : At(pc, pc', c, m) /\ Follows(c, pc[c], m)
  BY <1>3
<1>5. Onward(pc, pc', c, m, S)
  BY <1>4, FollowOn
<1>6. Calm(S, S) /\ SameBut(S, S, NoTask)
  BY SameTasks DEF Calm
<1>7. InvOf(S, pc', mig, hist, events)
  BY <1>1, <1>5, <1>6, KeepStep
<1>. QED
  BY <1>2, <1>3, <1>7 DEF SchedInv

(* A step that changes no task and follows its path.                       *)
LEMMA KeepInv ==
    ASSUME SchedInv, NEW c \in Cpu, NEW t, StateOk(t), Calm(S, t), SameBut(S, t, NoTask), S' = t,
           NEW m, At(pc, pc', c, m), Follows(c, pc[c], m), mig' = mig, hist' = hist,
           Sane(mig, hist, events')
    PROVE  SchedInv'
<1>1. InvOf(S, pc, mig, hist, events)
  BY InvParts
<1>2. Onward(pc, pc', c, m, t)
  BY FollowOn
<1>3. InvOf(t, pc', mig, hist, events')
  BY <1>1, <1>2, KeepStep
<1>. QED
  BY <1>3 DEF SchedInv

(* CPU c is done with the state s, and goes on.                            *)
Reached(c, s) ==
    \E t, m : /\ S' = t /\ StateOk(t) /\ Calm(s, t) /\ t.task = s.task
              /\ At(pc, pc', c, m) /\ Follows(c, pc[c], m)

(* A push that is over leaves a state in order.                            *)
LEMMA PushStepOk ==
    ASSUME Places(pc), NEW c \in Cpu, NEW s, StateOk(s), NEW l, l = pc[c], l.at \in Pushing,
           NEW ret \in BOOLEAN, PushStep(c, s, l, ret)
    PROVE  Reached(c, s)
<1>1. pc \in [Cpu -> PcT] /\ PlaceOk(c, l) /\ l \in PcT /\ l.rq \in Cpu
  BY ZenonT(30) DEF Places, PlaceOk, PcT
<1>2. PICK m : m = PushReturn(l, ret)
  OBVIOUS
<1>3. Follows(c, l, m)
  BY <1>1, <1>2, PushReturnOk
<1>4. At(pc, pc', c, m)
  <2>1. m \in PcT
    BY <1>3 DEF Follows, PlaceOk
  <2>2. Goto(c, m)
    BY <1>2 DEF PushStep
  <2>. QED
    BY <1>1, <2>1, <2>2, GotoAt
<1>5. PICK t : Become(t) /\ (t = s \/ t = [s EXCEPT !.rq[l.rq].post_schedule = FALSE])
  BY DEF PushStep
<1>6. StateOk(t) /\ Calm(s, t) /\ t.task = s.task
  <2>1. CASE t = s
    BY <2>1 DEF Calm
  <2>2. CASE t = [s EXCEPT !.rq[l.rq].post_schedule = FALSE]
    <3>1. PICK b \in BOOLEAN : b = FALSE
      OBVIOUS
    <3>2. t = [s EXCEPT !.rq[l.rq].post_schedule = b]
      BY <2>2, <3>1
    <3>3. StateOk(t) /\ KeepRq(s, t) /\ t.task = s.task
      BY <1>1, <3>2, PostOk
    <3>. QED
      BY <3>3, KeepCalm
  <2>. QED
    BY <1>5, <2>1, <2>2
<1>7. S' = t
  BY <1>5, <1>6, BecomeIs, StateQueues
<1>. QED
  BY <1>3, <1>4, <1>6, <1>7 DEF Reached

(* What is reached after a calm step is reached.                           *)
LEMMA ReachedMore ==
    ASSUME NEW c, NEW s, NEW a, Calm(s, a), a.task = s.task, Reached(c, a)
    PROVE  Reached(c, s)
<1>1. PICK t, m : /\ S' = t /\ StateOk(t) /\ Calm(a, t) /\ t.task = a.task
                  /\ At(pc, pc', c, m) /\ Follows(c, pc[c], m)
  BY DEF Reached
<1>2. Calm(s, t)
  BY <1>1, CalmTrans
<1>. QED
  BY <1>1, <1>2 DEF Reached

(* A push that fails drops its task, or tries the next.                    *)
LEMMA PushFailedOk ==
    ASSUME Places(pc), NEW c \in Cpu, NEW s, StateOk(s), NEW l, l = pc[c], l.at \in Pushing,
           NEW p, PushFailed(c, s, l, p)
    PROVE  Reached(c, s)
<1>1. pc \in [Cpu -> PcT] /\ PlaceOk(c, l) /\ l \in PcT /\ l.rq \in Cpu
  BY ZenonT(30) DEF Places, PlaceOk, PcT
<1>2. \/ PushStep(c, s, l, TRUE)
      \/ PushStep(c, dequeue_pushable_task(s, l.rq, p), l, TRUE)
      \/ Become(s) /\ Goto(c, [l EXCEPT !.at = "retry", !.p = NoTask, !.to = 0, !.tries = 0])
  BY DEF PushFailed
<1>3. PICK b \in BOOLEAN : b = TRUE
  OBVIOUS
<1>4. CASE PushStep(c, s, l, TRUE)
  <2>1. PushStep(c, s, l, b)
    BY <1>3, <1>4
  <2>. QED
    BY <2>1, PushStepOk
<1>5. CASE PushStep(c, dequeue_pushable_task(s, l.rq, p), l, TRUE)
  <2>1. PICK a : a = dequeue_pushable_task(s, l.rq, p)
    OBVIOUS
  <2>2. StateOk(a) /\ KeepRq(s, a) /\ a.task = s.task
    BY <1>1, <2>1, DropOk
  <2>3. PushStep(c, a, l, b)
    BY <1>3, <1>5, <2>1
  <2>4. Reached(c, a)
    BY <2>2, <2>3, PushStepOk
  <2>5. Calm(s, a)
    BY <2>2, KeepCalm
  <2>. QED
    BY <2>2, <2>4, <2>5, ReachedMore
<1>6. CASE Become(s) /\ Goto(c, [l EXCEPT !.at = "retry", !.p = NoTask, !.to = 0, !.tries = 0])
  <2>1. PICK m : m = [l EXCEPT !.at = "retry", !.p = NoTask, !.to = 0, !.tries = 0]
    OBVIOUS
  <2>2. Follows(c, l, m)
    <3>1. PICK at : at = "retry"
      OBVIOUS
    <3>2. PICK q : q = NoTask
      OBVIOUS
    <3>3. PICK to \in Cpu : to = 0
      BY RtRunQueueAssumption DEF Cpu
    <3>4. PICK n \in Nat : n = 0
      OBVIOUS
    <3>5. m = [l EXCEPT !.at = at, !.p = q, !.to = to, !.tries = n]
      BY <2>1, <3>1, <3>2, <3>3, <3>4
    <3>6. at \in {"retry", "push_lock"} /\ (at = "push_lock" => q \in Task) /\ (at = "retry" => q = NoTask)
      BY <3>1, <3>2
    <3>. QED
      BY <1>1, <3>5, <3>6, PushAgain, ZenonT(30)
  <2>3. At(pc, pc', c, m)
    <3>1. m \in PcT
      BY <2>2 DEF Follows, PlaceOk
    <3>. QED
      BY <1>1, <1>6, <2>1, <3>1, GotoAt
  <2>4. S' = s
    BY <1>6, BecomeIs, StateQueues
  <2>5. Calm(s, s)
    BY DEF Calm
  <2>. QED
    BY <2>2, <2>3, <2>4, <2>5 DEF Reached
<1>. QED
  BY <1>2, <1>4, <1>5, <1>6

(* A run queue that find_lowest_rq finds is one the task may use.          *)
LEMMA FindLowest ==
    ASSUME NEW s \in StateT, NEW p \in Task, NEW this, NEW r, r = find_lowest_rq(s, p, this), r # -1
    PROVE  r \in s.task[p].allowed /\ r \in Cpu
<1>1. s.task[p].allowed \subseteq Cpu
  BY StateParts, TaskParts
<1>2. PICK L : L = cpupri_find(s, p)
  OBVIOUS
<1>3. L \subseteq s.task[p].allowed
  BY <1>2 DEF cpupri_find
<1>4. L # {} /\ (r \in L \/ r = MinOf(L))
  BY <1>2 DEF find_lowest_rq
<1>5. L \in SUBSET Nat
  BY <1>1, <1>3, RtRunQueueAssumption DEF Cpu
<1>6. MinOf(L) \in L
  BY <1>4, <1>5, MinOfLeast
<1>. QED
  BY <1>1, <1>3, <1>4, <1>6

(* find_lock_lowest_rq and its retries, up to the lock of the other run    *)
(* queue.                                                                  *)
LEMMA FindLockOk ==
    ASSUME Places(pc), NEW c \in Cpu, NEW s, StateOk(s), NEW l, l = pc[c], l.at \in Pushing,
           NEW p \in Task, NEW tries \in Nat, FindLock(c, s, l, p, tries)
    PROVE  Reached(c, s)
<1>1. pc \in [Cpu -> PcT] /\ PlaceOk(c, l) /\ s \in StateT
  BY StateQueues DEF Places
<1>2. PICK cpu : cpu = find_lowest_rq(s, p, c)
  OBVIOUS
<1>3. CASE PushFailed(c, s, l, p)
  BY <1>3, PushFailedOk
<1>4. CASE ~PushFailed(c, s, l, p)
  <2>1. PICK m : m = [l EXCEPT !.at = "push_lock", !.p = p, !.to = cpu, !.tries = tries + 1]
    OBVIOUS
  <2>2. cpu # -1 /\ Become(s) /\ Goto(c, m)
    BY <1>2, <1>4, <2>1 DEF FindLock
  <2>3. cpu \in Cpu
    BY <1>1, <1>2, <2>2, FindLowest
  <2>4. Follows(c, l, m)
    <3>1. PICK at : at = "push_lock"
      OBVIOUS
    <3>2. PICK n \in Nat : n = tries + 1
      OBVIOUS
    <3>3. m = [l EXCEPT !.at = at, !.p = p, !.to = cpu, !.tries = n]
      BY <2>1, <3>1, <3>2
    <3>4. at \in {"retry", "push_lock"} /\ (at = "push_lock" => p \in Task) /\ (at = "retry" => p = NoTask)
      BY <3>1
    <3>. QED
      BY <1>1, <2>3, <3>3, <3>4, PushAgain, ZenonT(30)
  <2>5. At(pc, pc', c, m)
    <3>1. m \in PcT
      BY <2>4 DEF Follows, PlaceOk
    <3>. QED
      BY <1>1, <2>2, <3>1, GotoAt
  <2>6. S' = s
    BY <1>1, <2>2, BecomeIs
  <2>7. Calm(s, s)
    BY DEF Calm
  <2>. QED
    BY <2>4, <2>5, <2>6, <2>7 DEF Reached
<1>. QED
  BY <1>3, <1>4

(* A step to such a state keeps the invariant.                             *)
LEMMA ReachedInv ==
    ASSUME SchedInv, NEW c \in Cpu, Reached(c, S), mig' = mig, hist' = hist, events' = events
    PROVE  SchedInv'
<1>1. PICK t, m : /\ S' = t /\ StateOk(t) /\ Calm(S, t) /\ t.task = S.task
                  /\ At(pc, pc', c, m) /\ Follows(c, pc[c], m)
  BY DEF Reached
<1>2. Sane(mig, hist, events')
  BY InvParts
<1>3. SameBut(S, t, NoTask)
  BY <1>1, SameTasks
<1>. QED
  BY <1>1, <1>2, <1>3, KeepInv

(* push_rt_task, before it takes the second lock.                          *)
LEMMA PushTaskInv ==
    ASSUME SchedInv, NEW c \in Cpu, PushTask(c) PROVE SchedInv'
<1>1. StateOk(S) /\ S \in StateT /\ Places(pc) /\ PlaceOk(c, pc[c]) /\ S.task = task /\ S.rq = rq
  BY InvParts
<1>2. PICK l : l = pc[c]
  OBVIOUS
<1>3. l.at \in {"push", "retry"} /\ mig' = mig /\ hist' = hist /\ events' = events
  BY <1>2 DEF PushTask
<1>4. l.at \in Pushing /\ l.rq \in Cpu
  BY <1>1, <1>2, <1>3, ZenonT(30) DEF Pushing, PlaceOk, PcT
<1>5. PICK p : p = Head(rq[l.rq].pushable)
  OBVIOUS
<1>6. \/ PushStep(c, S, l, FALSE)
      \/ rq[l.rq].pushable # <<>> /\ PushStep(c, resched_task(S, l.rq), l, FALSE)
      \/ rq[l.rq].pushable # <<>> /\ FindLock(c, S, l, p, 0)
  BY <1>2, <1>5 DEF PushTask
<1>7. rq[l.rq].pushable # <<>> => p \in Task
  <2>1. rq[l.rq].pushable \in Seq(Task)
    BY <1>1, <1>4, StateParts, RqParts
  <2>. QED
    BY <1>5, <2>1
<1>8. PICK b \in BOOLEAN : b = FALSE
  OBVIOUS
<1>9. CASE PushStep(c, S, l, FALSE)
  <2>1. PushStep(c, S, l, b)
    BY <1>8, <1>9
  <2>2. Reached(c, S)
    BY <1>1, <1>2, <1>4, <2>1, PushStepOk
  <2>. QED
    BY <1>3, <2>2, ReachedInv
<1>10. CASE PushStep(c, resched_task(S, l.rq), l, FALSE)
  <2>1. PICK a : a = resched_task(S, l.rq)
    OBVIOUS
  <2>2. StateOk(a) /\ Calm(S, a) /\ a.task = S.task
    BY <1>1, <1>4, <2>1, ReschedOk
  <2>3. PushStep(c, a, l, b)
    BY <1>8, <1>10, <2>1
  <2>4. Reached(c, a)
    BY <1>1, <1>2, <1>4, <2>2, <2>3, PushStepOk
  <2>5. Reached(c, S)
    BY <2>2, <2>4, ReachedMore
  <2>. QED
    BY <1>3, <2>5, ReachedInv
<1>11. CASE rq[l.rq].pushable # <<>> /\ FindLock(c, S, l, p, 0)
  <2>1. PICK n \in Nat : n = 0
    OBVIOUS
  <2>2. FindLock(c, S, l, p, n)
    BY <1>11, <2>1
  <2>3. Reached(c, S)
    BY <1>1, <1>2, <1>4, <1>7, <1>11, <2>2, FindLockOk
  <2>. QED
    BY <1>3, <2>3, ReachedInv
<1>. QED
  BY <1>6, <1>9, <1>10, <1>11

(* post_schedule_rt.                                                       *)
LEMMA PostScheduleInv ==
    ASSUME SchedInv, NEW c \in Cpu, PostSchedule(c) PROVE SchedInv'
<1>1. StateOk(S) /\ S \in StateT /\ Places(pc) /\ PlaceOk(c, pc[c]) /\ pc \in [Cpu -> PcT]
  BY InvParts
<1>2. pc[c].at = "post_schedule" /\ mig' = mig /\ hist' = hist /\ events' = events
  BY DEF PostSchedule
<1>3. /\ pc[c] \in PcT /\ pc[c].rq = c /\ pc[c].pi = NoTask /\ pc[c].rest = <<>>
      /\ ~PickL(pc[c]) /\ ~PrioL(pc[c]) /\ ~SwitchL(pc[c])
  BY <1>1, <1>2 DEF PlaceOk, Pushing, PickL, PrioL, SwitchL
<1>4. CASE Become(S) /\ Goto(c, [pc[c] EXCEPT !.at = "push", !.k = "post"])
  <2>1. PICK m : m = [pc[c] EXCEPT !.at = "push", !.k = "post"]
    OBVIOUS
  <2>2. m \in PcT /\ m.at = "push" /\ m.k = "post" /\ m.rq = c /\ m.pi = NoTask /\ m.rest = <<>>
    BY <1>3, <2>1, ZenonT(30) DEF PcT, Labels
  <2>3. PlaceOk(c, m)
    BY <2>2 DEF PlaceOk, Pushing
  <2>4. Follows(c, pc[c], m)
    BY <1>2, <1>3, <2>2, <2>3 DEF Follows, Goes
  <2>5. At(pc, pc', c, m)
    BY <1>1, <1>4, <2>1, <2>2, GotoAt
  <2>6. S' = S /\ Calm(S, S)
    BY <1>1, <1>4, BecomeIs DEF Calm
  <2>7. Reached(c, S)
    BY <1>1, <2>4, <2>5, <2>6 DEF Reached
  <2>. QED
    BY <1>2, <2>7, ReachedInv
<1>5. CASE Become([S EXCEPT !.rq[c].post_schedule = FALSE]) /\ Goto(c, Run)
  <2>1. PICK b \in BOOLEAN : b = FALSE
    OBVIOUS
  <2>2. PICK t : t = [S EXCEPT !.rq[c].post_schedule = b]
    OBVIOUS
  <2>3. StateOk(t) /\ KeepRq(S, t) /\ t.task = S.task
    BY <1>1, <2>2, PostOk
  <2>4. Become(t)
    BY <1>5, <2>1, <2>2
  <2>5. S' = t
    BY <2>3, <2>4, BecomeIs, StateQueues
  <2>6. Calm(S, t)
    BY <2>3, KeepCalm
  <2>7. Run \in PcT /\ PlaceOk(c, Run) /\ Run.at = "run" /\ Run.rest = <<>> /\ Run.pi = NoTask
    BY RunOk, ZenonT(30)
  <2>8. Follows(c, pc[c], Run)
    BY <1>2, <1>3, <2>7 DEF Follows, Goes
  <2>9. At(pc, pc', c, Run)
    BY <1>1, <1>5, <2>7, GotoAt
  <2>10. Reached(c, S)
    BY <2>3, <2>5, <2>6, <2>8, <2>9 DEF Reached
  <2>. QED
    BY <1>2, <2>10, ReachedInv
<1>. QED
  BY <1>4, <1>5 DEF PostSchedule

(* A CPU that stays where it is.                                           *)
LEMMA StayOnward ==
    ASSUME NEW P, Places(P), NEW c \in Cpu, NEW t, TtwuOk(t, P[c])
    PROVE  Onward(P, P, c, P[c], t)
<1>1. P \in [Cpu -> PcT] /\ PlaceOk(c, P[c])
  BY DEF Places
<1>2. At(P, P, c, P[c])
  BY <1>1, StayAt
<1>. QED
  BY <1>1, <1>2 DEF Onward, Goes

(* The wake-ups under way are in order when no task has changed.           *)
LEMMA SameTtwu ==
    ASSUME NEW s, NEW t, NEW P, Places(P), NEW c \in Cpu, States(s, P), SameBut(s, t, NoTask)
    PROVE  TtwuOk(t, P[c])
<1>1. TtwuOk(s, P[c]) /\ PlaceOk(c, P[c]) /\ NoTask \notin Task
  BY RtRunQueueAssumption DEF States, Places
<1>2. P[c].at \in {"ttwu", "ttwu_queue"} => P[c].pi \in Task
  BY <1>1 DEF PlaceOk
<1>. QED
  BY <1>1, <1>2 DEF TtwuOk, SameBut, SameTask

(* A step on which the CPUs stay where they are and no task changes.       *)
LEMMA StayInv ==
    ASSUME SchedInv, NEW c \in Cpu, NEW t, StateOk(t), Calm(S, t), SameBut(S, t, NoTask), S' = t,
           pc' = pc, mig' = mig, hist' = hist, Sane(mig, hist, events')
    PROVE  SchedInv'
<1>1. InvOf(S, pc, mig, hist, events) /\ Places(pc) /\ States(S, pc)
  BY InvParts
<1>2. TtwuOk(t, pc[c])
  BY <1>1, SameTtwu
<1>3. Onward(pc, pc, c, pc[c], t)
  BY <1>1, <1>2, StayOnward
<1>4. InvOf(t, pc, mig, hist, events')
  BY <1>1, <1>3, KeepStep
<1>. QED
  BY <1>4 DEF SchedInv

(* stop_one_cpu wakes the stopper.                                         *)
LEMMA WakeStopperInv ==
    ASSUME SchedInv, NEW c \in Cpu, WakeStopper(c) PROVE SchedInv'
<1>1. StateOk(S) /\ S \in StateT /\ Places(pc) /\ InvOf(S, pc, mig, hist, events) /\ Sane(mig, hist, events)
  BY InvParts
<1>2. /\ Become([resched_task(S, c) EXCEPT !.rq[c].stop = TRUE])
      /\ pc' = pc /\ mig' = mig /\ hist' = hist /\ events' = events
  BY DEF WakeStopper
<1>3. PICK a : a = resched_task(S, c)
  OBVIOUS
<1>4. StateOk(a) /\ Calm(S, a) /\ a.task = S.task
  BY <1>1, <1>3, ReschedOk
<1>5. PICK b \in BOOLEAN : b = TRUE
  OBVIOUS
<1>6. PICK t : t = [a EXCEPT !.rq[c].stop = b]
  OBVIOUS
<1>7. StateOk(t) /\ KeepRq(a, t) /\ t.task = a.task
  BY <1>4, <1>6, StopOk
<1>8. Become(t)
  BY <1>2, <1>3, <1>5, <1>6
<1>9. S' = t
  BY <1>7, <1>8, BecomeIs, StateQueues
<1>10. Calm(S, t)
  BY <1>4, <1>7, KeepCalm, CalmTrans
<1>11. SameBut(S, t, NoTask)
  BY <1>4, <1>7, SameTasks
<1>. QED
  BY <1>1, <1>2, <1>7, <1>9, <1>10, <1>11, StayInv

(* task_tick_rt                                                            *)
LEMMA TickOk ==
    ASSUME NEW s, StateOk(s), NEW c \in Cpu, NEW p \in Task, s.task[p].cpu = c,
           NEW t, t = task_tick_rt(s, c, p)
    PROVE  StateOk(t) /\ Calm(s, t) /\ SameBut(s, t, NoTask)
<1>1. s \in StateT /\ s.task[p] \in TaskT
  BY StateQueues, StateParts
<1>2. PICK n \in 1 .. DEF_TIMESLICE :
         n = IF s.task[p].time_slice > 1 THEN s.task[p].time_slice - 1 ELSE DEF_TIMESLICE
  BY <1>1, TaskParts, RtSchedAssumption
<1>3. [s.task[p] EXCEPT !.time_slice = n] \in TaskT
  BY <1>1 DEF TaskT
<1>4. PICK v \in TaskT : v = [s.task[p] EXCEPT !.time_slice = n]
  BY <1>3
<1>5. /\ v.state = s.task[p].state /\ v.on_rq = s.task[p].on_rq /\ v.cpu = s.task[p].cpu
      /\ v.prio = s.task[p].prio /\ v.allowed = s.task[p].allowed /\ v.on_cpu = s.task[p].on_cpu
  BY <1>1, <1>4 DEF TaskT
<1>6. PICK a : a = PutTask(s, p, v)
  OBVIOUS
<1>7. StateOk(a) /\ a.rq = s.rq /\ Sets(s, a, p, v)
  BY <1>5, <1>6, SetTaskOk
<1>8. Calm(s, a) /\ SameBut(s, a, NoTask) /\ a.task[p].cpu = c
  BY <1>5, <1>7 DEF Calm, SameBut, SameTask, Sets
<1>9. t = a \/ t = resched_task(requeue_task_rt(a, c, p, FALSE), c)
  <2>1. a = [s EXCEPT !.task[p].time_slice = n]
    BY <1>1, <1>4, <1>6 DEF PutTask, StateT
  <2>2. CASE s.task[p].time_slice > 1
    <3>1. t = [s EXCEPT !.task[p].time_slice = @ - 1]
      BY <2>2 DEF task_tick_rt
    <3>. QED
      BY <1>1, <1>2, <2>1, <2>2, <3>1 DEF StateT
  <2>3. CASE ~(s.task[p].time_slice > 1)
    <3>1. a = [s EXCEPT !.task[p].time_slice = DEF_TIMESLICE]
      BY <1>2, <2>1, <2>3
    <3>. QED
      BY <2>3, <3>1 DEF task_tick_rt
  <2>. QED
    BY <2>2, <2>3
<1>10. CASE t = a
  BY <1>7, <1>8, <1>10
<1>11. CASE t = resched_task(requeue_task_rt(a, c, p, FALSE), c)
  <2>1. PICK h \in BOOLEAN : h = FALSE
    OBVIOUS
  <2>2. PICK b : b = requeue_task_rt(a, c, p, h)
    OBVIOUS
  <2>3. StateOk(b) /\ KeepRq(a, b) /\ b.task = a.task
    BY <1>7, <1>8, <2>2, RequeueOk
  <2>4. t = resched_task(b, c)
    BY <1>11, <2>1, <2>2
  <2>5. StateOk(t) /\ Calm(b, t) /\ t.task = b.task
    BY <2>3, <2>4, ReschedOk
  <2>6. Calm(s, t)
    BY <1>8, <2>3, <2>5, KeepCalm, CalmTrans
  <2>7. SameBut(s, t, NoTask)
    BY <1>8, <2>3, <2>5 DEF SameBut, SameTask
  <2>. QED
    BY <2>5, <2>6, <2>7
<1>. QED
  BY <1>9, <1>10, <1>11

(* task_tick_rt.                                                           *)
LEMMA TickInv ==
    ASSUME SchedInv, NEW c \in Cpu, Tick(c) PROVE SchedInv'
<1>1. StateOk(S) /\ CurrOk(S) /\ Sane(mig, hist, events) /\ S.task = task /\ S.rq = rq
  BY InvParts
<1>2. PICK p \in Task : p = rq[c].curr /\ Become(task_tick_rt(S, c, p))
  BY DEF Tick
<1>3. Event /\ pc' = pc /\ mig' = mig /\ hist' = hist
  BY DEF Tick
<1>4. S.task[p].cpu = c
  BY <1>1, <1>2 DEF CurrOk
<1>5. PICK t : t = task_tick_rt(S, c, p)
  OBVIOUS
<1>6. StateOk(t) /\ Calm(S, t) /\ SameBut(S, t, NoTask)
  BY <1>1, <1>4, <1>5, TickOk
<1>7. S' = t
  BY <1>2, <1>5, <1>6, BecomeIs, StateQueues
<1>8. Sane(mig, hist, events')
  BY <1>1, <1>3, EventSane
<1>. QED
  BY <1>3, <1>6, <1>7, <1>8, StayInv

(* yield_task_rt and its schedule().                                       *)
LEMMA YieldInv ==
    ASSUME SchedInv, NEW c \in Cpu, Yield(c) PROVE SchedInv'
<1>1. /\ StateOk(S) /\ CurrOk(S) /\ Sane(mig, hist, events) /\ S.task = task /\ S.rq = rq
      /\ Places(pc) /\ pc \in [Cpu -> PcT]
  BY InvParts
<1>2. PICK p \in Task : p = rq[c].curr /\ Become(IF IsRtClass(S, p) THEN requeue_task_rt(S, c, p, FALSE) ELSE S)
  BY DEF Yield
<1>3. Event /\ pc[c].at = "run" /\ Goto(c, [Run EXCEPT !.at = "schedule"]) /\ mig' = mig /\ hist' = hist
  BY DEF Yield
<1>4. S.task[p].cpu = c
  BY <1>1, <1>2 DEF CurrOk
<1>5. PICK t : Become(t) /\ StateOk(t) /\ Calm(S, t) /\ t.task = S.task
  <2>1. CASE Become(S)
    BY <1>1, <2>1 DEF Calm
  <2>2. CASE Become(requeue_task_rt(S, c, p, FALSE))
    <3>1. PICK h \in BOOLEAN : h = FALSE
      OBVIOUS
    <3>2. PICK t : t = requeue_task_rt(S, c, p, h)
      OBVIOUS
    <3>3. StateOk(t) /\ KeepRq(S, t) /\ t.task = S.task
      BY <1>1, <1>4, <3>2, RequeueOk
    <3>4. Become(t)
      BY <2>2, <3>1, <3>2
    <3>. QED
      BY <3>3, <3>4, KeepCalm
  <2>. QED
    BY <1>2, <2>1, <2>2
<1>6. S' = t
  BY <1>5, BecomeIs, StateQueues
<1>7. PICK m : m = [Run EXCEPT !.at = "schedule"]
  OBVIOUS
<1>8. /\ Run \in PcT /\ Run.rest = <<>> /\ Run.pi = NoTask /\ Run.at = "run"
      /\ ~PickL(Run) /\ ~PrioL(Run) /\ ~SwitchL(Run) /\ pc[c] = Run
  BY <1>1, <1>3, RunOk, AtRun, ZenonT(30)
<1>9. m \in PcT /\ m.at = "schedule" /\ m.rest = <<>> /\ m.pi = NoTask
  BY <1>7, <1>8, ZenonT(60) DEF PcT, Labels
<1>10. PlaceOk(c, m)
  BY <1>9 DEF PlaceOk, Pushing
<1>11. Follows(c, pc[c], m)
  BY <1>8, <1>9, <1>10 DEF Follows, Goes
<1>12. At(pc, pc', c, m)
  BY <1>1, <1>3, <1>7, <1>9, GotoAt
<1>13. Sane(mig, hist, events')
  BY <1>1, <1>3, EventSane
<1>14. SameBut(S, t, NoTask)
  BY <1>5, SameTasks
<1>. QED
  BY <1>3, <1>5, <1>6, <1>11, <1>12, <1>13, <1>14, KeepInv

-----------------------------------------------------------------------------
(* The actions that change one task.                                       *)

(* A queued task is not being woken.                                       *)
LEMMA QueuedFacts ==
    ASSUME SchedInv, NEW p \in Task, S.task[p].on_rq
    PROVE  /\ S.task[p].state \in {"running", "sleep"}
           /\ \A d \in Cpu : pc[d].at \in {"ttwu", "ttwu_queue"} => pc[d].pi # p
<1>1. States(S, pc)
  BY InvParts
<1>2. TaskStateOk(S, p) /\ \A d \in Cpu : TtwuOk(S, pc[d])
  BY <1>1 DEF States
<1>. QED
  BY <1>2 DEF TaskStateOk, TtwuOk

(* The task that a CPU runs outside the scheduler is queued there.         *)
LEMMA CurrFacts ==
    ASSUME SchedInv, NEW c \in Cpu, pc[c].at = "run", NEW p \in Task, p = rq[c].curr
    PROVE  S.task[p].on_rq /\ S.task[p].cpu = c /\ S.task[p].on_cpu
<1>1. States(S, pc) /\ CurrOk(S) /\ S.rq = rq
  BY InvParts
<1>2. ~PickL(pc[c])
  BY DEF PickL
<1>. QED
  BY <1>1, <1>2 DEF States, CurrOk

(* A queued task changes its state, or the CPU it is queued on.            *)
Restated(s, t, p) ==
    /\ SameBut(s, t, p) /\ t.task[p].on_rq /\ t.task[p].prio = s.task[p].prio
    /\ t.task[p].state \in {"running", "sleep"}

(* A queued task whose state alone changes is accounted for.               *)
LEMMA QueuedChange ==
    ASSUME SchedInv, NEW c \in Cpu, NEW p \in Task, S.task[p].on_rq, NEW t, Restated(S, t, p)
    PROVE  Change(S, t, pc, pc', c, p)
<1>1. /\ S.task[p].state \in {"running", "sleep"}
      /\ \A d \in Cpu : pc[d].at \in {"ttwu", "ttwu_queue"} => pc[d].pi # p
  BY QueuedFacts
<1>2. TaskStateOk(t, p)
  BY DEF Restated, TaskStateOk
<1>. QED
  BY <1>1, <1>2, RtRunQueueAssumption DEF Change, Restated

(* A step that changes the state of a queued task.                         *)
LEMMA StateStep ==
    ASSUME SchedInv, NEW c \in Cpu, NEW p \in Task, S.task[p].on_rq, NEW t, StateOk(t), Calm(S, t),
           Restated(S, t, p), t.task[p].cpu = S.task[p].cpu, t.task[p].allowed = S.task[p].allowed,
           NEW m, Onward(pc, pc', c, m, t), S' = t, mig' = mig, hist' = hist, Sane(mig, hist, events')
    PROVE  SchedInv'
<1>1. InvOf(S, pc, mig, hist, events) /\ Affinity(S, mig, hist)
  BY InvParts
<1>2. Change(S, t, pc, pc', c, p)
  BY QueuedChange
<1>3. Arrive(S, t, pc', hist, p)
  BY DEF Arrive, Here
<1>4. Fixed(t, mig, mig, hist, hist, p)
  <2>1. p \notin hist.waking => Placed(t, mig, p)
    BY <1>1 DEF Affinity, Placed, Restated
  <2>. QED
    BY <2>1 DEF Fixed
<1>5. InvOf(t, pc', mig, hist, events')
  BY <1>1, <1>2, <1>3, <1>4, OneStep
<1>. QED
  BY <1>5 DEF SchedInv

(* Only the state of the task p is set.                                    *)
LEMMA PutState ==
    ASSUME NEW s, StateOk(s), NEW p \in Task, NEW x \in {"unborn", "sleep", "waking", "running"}, NEW t
    PROVE  t = [s EXCEPT !.task[p].state = x] =>
              /\ StateOk(t) /\ Calm(s, t) /\ SameBut(s, t, p) /\ t.task[p].state = x
              /\ t.task[p].on_rq = s.task[p].on_rq /\ t.task[p].prio = s.task[p].prio
              /\ t.task[p].cpu = s.task[p].cpu /\ t.task[p].allowed = s.task[p].allowed
              /\ t.task[p].on_cpu = s.task[p].on_cpu /\ t.rq = s.rq
<1>0. SUFFICES ASSUME t = [s EXCEPT !.task[p].state = x]
               PROVE  /\ StateOk(t) /\ Calm(s, t) /\ SameBut(s, t, p) /\ t.task[p].state = x
                      /\ t.task[p].on_rq = s.task[p].on_rq /\ t.task[p].prio = s.task[p].prio
                      /\ t.task[p].cpu = s.task[p].cpu /\ t.task[p].allowed = s.task[p].allowed
                      /\ t.task[p].on_cpu = s.task[p].on_cpu /\ t.rq = s.rq
  OBVIOUS
<1>1. s \in StateT /\ s.task[p] \in TaskT
  BY StateQueues, StateParts
<1>2. [s.task[p] EXCEPT !.state = x] \in TaskT
  BY <1>1 DEF TaskT
<1>3. PICK v \in TaskT : v = [s.task[p] EXCEPT !.state = x]
  BY <1>2
<1>4. /\ v.state = x /\ v.on_rq = s.task[p].on_rq /\ v.cpu = s.task[p].cpu
      /\ v.prio = s.task[p].prio /\ v.allowed = s.task[p].allowed /\ v.on_cpu = s.task[p].on_cpu
  BY <1>1, <1>3 DEF TaskT
<1>5. t = PutTask(s, p, v)
  BY <1>0, <1>1, <1>3 DEF PutTask, StateT
<1>6. StateOk(t) /\ t.rq = s.rq /\ Sets(s, t, p, v)
  BY <1>4, <1>5, SetTaskOk
<1>7. t.task[p] = v /\ SameBut(s, t, p) /\ Calm(s, t)
  BY <1>6 DEF Sets, SameBut, SameTask, Calm
<1>. QED
  BY <1>4, <1>6, <1>7

(* schedule() of a sleeping task that has a signal pending.                *)
LEMMA SleepInterruptedInv ==
    ASSUME SchedInv, NEW c \in Cpu, SleepInterrupted(c) PROVE SchedInv'
<1>1. /\ StateOk(S) /\ S \in StateT /\ Sane(mig, hist, events) /\ S.task = task /\ S.rq = rq /\ Places(pc)
  BY InvParts
<1>2. PICK p \in Task : p = rq[c].curr /\ pre_schedule(c, [S EXCEPT !.task[p].state = "running"])
  BY DEF SleepInterrupted
<1>3. pc[c].at = "run" /\ mig' = mig /\ hist' = hist /\ events' = events
  BY DEF SleepInterrupted
<1>4. S.task[p].on_rq
  BY <1>2, <1>3, CurrFacts
<1>5. PICK x \in {"unborn", "sleep", "waking", "running"} : x = "running"
  OBVIOUS
<1>6. PICK t : t = [S EXCEPT !.task[p].state = x]
  OBVIOUS
<1>7. /\ StateOk(t) /\ Calm(S, t) /\ SameBut(S, t, p) /\ t.task[p].state = x
      /\ t.task[p].on_rq = S.task[p].on_rq /\ t.task[p].prio = S.task[p].prio
      /\ t.task[p].cpu = S.task[p].cpu /\ t.task[p].allowed = S.task[p].allowed
  BY <1>1, <1>6, PutState
<1>8. Restated(S, t, p)
  BY <1>4, <1>5, <1>7 DEF Restated
<1>9. t \in StateT
  BY <1>7, StateQueues
<1>10. pre_schedule(c, t)
  BY <1>2, <1>5, <1>6
<1>11. S' = t /\ \E m : At(pc, pc', c, m) /\ Follows(c, pc[c], m) /\ PickL(m)
  BY <1>1, <1>3, <1>9, <1>10, PreSchedule
<1>12. PICK m : Onward(pc, pc', c, m, t)
  BY <1>11, FollowOn
<1>. QED
  BY <1>1, <1>3, <1>4, <1>7, <1>8, <1>11, <1>12, StateStep

(* set_current_state, before the schedule() that follows it.               *)
LEMMA SetStateInv ==
    ASSUME SchedInv, NEW c \in Cpu, SetState(c) PROVE SchedInv'
<1>1. /\ StateOk(S) /\ S \in StateT /\ Sane(mig, hist, events) /\ S.task = task /\ S.rq = rq /\ Places(pc)
  BY InvParts
<1>2. pc[c].at = "run" /\ UNCHANGED <<rq, cpupri, rto_mask, pc, mig, hist>>
  BY DEF SetState
<1>3. PICK p \in Task : p = rq[c].curr /\ \E x \in {"sleep", "running"} :
          task' = [task EXCEPT ![p].state = x] /\ (Event \/ events' = events)
  BY DEF SetState
<1>4. PICK x \in {"unborn", "sleep", "waking", "running"} :
          x \in {"sleep", "running"} /\ task' = [task EXCEPT ![p].state = x] /\ (Event \/ events' = events)
  BY <1>3
<1>5. S.task[p].on_rq
  BY <1>2, <1>3, CurrFacts
<1>6. PICK t : t = [S EXCEPT !.task[p].state = x]
  OBVIOUS
<1>7. S' = t
  BY <1>2, <1>4, <1>6 DEF S
<1>8. /\ StateOk(t) /\ Calm(S, t) /\ SameBut(S, t, p) /\ t.task[p].state = x
      /\ t.task[p].on_rq = S.task[p].on_rq /\ t.task[p].prio = S.task[p].prio
      /\ t.task[p].cpu = S.task[p].cpu /\ t.task[p].allowed = S.task[p].allowed
  BY <1>1, <1>6, PutState
<1>9. Restated(S, t, p)
  BY <1>4, <1>5, <1>8 DEF Restated
<1>10. TtwuOk(t, pc[c])
  BY <1>2 DEF TtwuOk
<1>11. Onward(pc, pc', c, pc[c], t)
  BY <1>1, <1>2, <1>10, StayOnward
<1>12. Sane(mig, hist, events')
  BY <1>1, <1>4, EventSane
<1>. QED
  BY <1>2, <1>5, <1>7, <1>8, <1>9, <1>11, <1>12, StateStep

(* schedule() takes a sleeping task off its queue.                         *)
LEMMA SleepTaskInv ==
    ASSUME SchedInv, NEW c \in Cpu, pc[c].at = "run", NEW p \in Task, p = rq[c].curr,
           task[p].state = "sleep",
           pre_schedule(c, [deactivate_task(S, c, p) EXCEPT !.task[p].on_rq = FALSE]),
           mig' = mig, hist' = hist, events' = events
    PROVE  SchedInv'
<1>1. /\ StateOk(S) /\ S \in StateT /\ CurrOk(S) /\ Sane(mig, hist, events) /\ S.task = task /\ S.rq = rq
      /\ Places(pc) /\ InvOf(S, pc, mig, hist, events)
  BY InvParts
<1>2. S.task[p].on_rq /\ S.task[p].cpu = c
  BY CurrFacts
<1>3. PICK t : t = [deactivate_task(S, c, p) EXCEPT !.task[p].on_rq = FALSE]
  OBVIOUS
<1>4. StateOk(t) /\ KeepRq(S, t) /\ Sets(S, t, p, [S.task[p] EXCEPT !.on_rq = FALSE])
  BY <1>1, <1>2, <1>3, SleepOk
<1>5. Calm(S, t) /\ t \in StateT
  BY <1>4, KeepCalm, StateQueues
<1>6. S' = t /\ \E m : At(pc, pc', c, m) /\ Follows(c, pc[c], m) /\ PickL(m)
  BY <1>1, <1>3, <1>5, PreSchedule
<1>7. PICK m : At(pc, pc', c, m) /\ Follows(c, pc[c], m) /\ PickL(m)
  BY <1>6
<1>8. Onward(pc, pc', c, m, t) /\ pc'[c] = m
  BY <1>7, FollowOn DEF At
<1>9. /\ SameBut(S, t, p) /\ ~t.task[p].on_rq /\ t.task[p].state = "sleep"
      /\ t.task[p].prio = S.task[p].prio
  <2>1. S.task[p] \in TaskT
    BY <1>1, StateParts
  <2>2. t.task[p] = [S.task[p] EXCEPT !.on_rq = FALSE]
    BY <1>4 DEF Sets
  <2>3. SameBut(S, t, p)
    BY <1>4 DEF Sets, SameBut, SameTask
  <2>. QED
    BY <1>1, <2>1, <2>2, <2>3 DEF TaskT
<1>10. Change(S, t, pc, pc', c, p)
  <2>1. \A d \in Cpu : pc[d].at \in {"ttwu", "ttwu_queue"} => pc[d].pi # p
    BY <1>2, QueuedFacts
  <2>2. \A d \in Cpu : S.rq[d].curr = p => d = c
    BY <1>1, <1>2 DEF CurrOk
  <2>3. TaskStateOk(t, p)
    BY <1>9 DEF TaskStateOk
  <2>. QED
    BY <1>1, <1>7, <1>8, <1>9, <2>1, <2>2, <2>3, RtRunQueueAssumption DEF Change
<1>11. Arrive(S, t, pc', hist, p)
  BY <1>9 DEF Arrive, Here
<1>12. Fixed(t, mig, mig, hist, hist, p)
  BY <1>9 DEF Fixed, Placed
<1>13. InvOf(t, pc', mig, hist, events)
  BY <1>1, <1>4, <1>5, <1>8, <1>10, <1>11, <1>12, OneStep
<1>. QED
  BY <1>6, <1>13 DEF SchedInv

(* schedule() of a task that goes to sleep.                                *)
LEMMA SleepInv ==
    ASSUME SchedInv, NEW c \in Cpu, Sleep(c) PROVE SchedInv'
<1>1. /\ StateOk(S) /\ S \in StateT /\ Sane(mig, hist, events) /\ Places(pc)
  BY InvParts
<1>2. pc[c].at = "run" /\ mig' = mig /\ hist' = hist /\ events' = events
  BY DEF Sleep
<1>3. CASE rq[c].curr \in Task /\ task[rq[c].curr].state = "sleep" /\
           pre_schedule(c, [deactivate_task(S, c, rq[c].curr) EXCEPT !.task[rq[c].curr].on_rq = FALSE])
  <2>1. PICK p \in Task : p = rq[c].curr
    BY <1>3
  <2>. QED
    BY <1>2, <1>3, <2>1, SleepTaskInv
<1>4. CASE pre_schedule(c, [S EXCEPT !.rq[c].stop = FALSE])
  <2>1. PICK b \in BOOLEAN : b = FALSE
    OBVIOUS
  <2>2. PICK t : t = [S EXCEPT !.rq[c].stop = b]
    OBVIOUS
  <2>3. StateOk(t) /\ KeepRq(S, t) /\ t.task = S.task
    BY <1>1, <2>2, StopOk
  <2>4. Calm(S, t) /\ t \in StateT /\ SameBut(S, t, NoTask)
    BY <2>3, KeepCalm, StateQueues, SameTasks
  <2>5. pre_schedule(c, t)
    BY <1>4, <2>1, <2>2
  <2>6. S' = t /\ \E m : At(pc, pc', c, m) /\ Follows(c, pc[c], m) /\ PickL(m)
    BY <1>1, <1>2, <2>4, <2>5, PreSchedule
  <2>7. PICK m : At(pc, pc', c, m) /\ Follows(c, pc[c], m)
    BY <2>6
  <2>. QED
    BY <1>1, <1>2, <2>3, <2>4, <2>6, <2>7, KeepInv
<1>. QED
  BY <1>3, <1>4 DEF Sleep

-----------------------------------------------------------------------------
(* Moving a task to another CPU.                                           *)

Moved(s, t, p, to) ==
    /\ SameBut(s, t, p) /\ t.task[p].cpu = to
    /\ t.task[p].on_rq = s.task[p].on_rq /\ t.task[p].prio = s.task[p].prio
    /\ t.task[p].state = s.task[p].state /\ t.task[p].allowed = s.task[p].allowed

(* A queued task that does not run is moved to another CPU.                *)
LEMMA MovedTask ==
    ASSUME NEW s, StateOk(s), NEW p \in Task, NEW from, NEW to \in Cpu, s.task[p].on_rq,
           ~s.task[p].on_cpu, s.task[p].cpu = from, NEW t, t = MoveTask(s, p, from, to)
    PROVE  StateOk(t) /\ Calm(s, t) /\ Moved(s, t, p, to)
<1>1. StateOk(t) /\ KeepRq(s, t) /\ Sets(s, t, p, [s.task[p] EXCEPT !.cpu = to])
  BY MoveOk
<1>2. s.task[p] \in TaskT
  BY StateQueues, StateParts
<1>3. t.task[p] = [s.task[p] EXCEPT !.cpu = to] /\ SameBut(s, t, p)
  BY <1>1 DEF Sets, SameBut, SameTask
<1>4. Moved(s, t, p, to)
  BY <1>2, <1>3 DEF Moved, TaskT
<1>. QED
  BY <1>1, <1>4, KeepCalm

(* A step that moves a queued task to a CPU that it may use and that is    *)
(* told of it keeps the invariant.                                         *)
LEMMA MoveStep ==
    ASSUME SchedInv, NEW c \in Cpu, NEW p \in Task, S.task[p].on_rq, NEW to \in S.task[p].allowed,
           NEW t, StateOk(t), Calm(S, t), Moved(S, t, p, to), NEW m, Onward(pc, pc', c, m, t),
           S.task[p].cpu = to \/ Behind(t, to, p) \/ Excused(t, pc', hist', to) \/ PickL(pc'[to]),
           S' = t, hist.waking \subseteq hist'.waking /\ hist.unseen \subseteq hist'.unseen,
           \A w \in mig : w.task = p \/ w \in mig', Sane(mig', hist', events')
    PROVE  SchedInv'
<1>1. InvOf(S, pc, mig, hist, events)
  BY InvParts
<1>2. S.task[p].state \in {"running", "sleep"}
  BY QueuedFacts
<1>3. Restated(S, t, p)
  BY <1>2 DEF Moved, Restated
<1>4. Change(S, t, pc, pc', c, p)
  BY <1>3, QueuedChange
<1>5. Arrive(S, t, pc', hist', p)
  BY DEF Arrive, Here, Moved
<1>6. Fixed(t, mig, mig', hist, hist', p)
  BY <1>2 DEF Fixed, Placed, Moved
<1>7. InvOf(t, pc', mig', hist', events')
  BY <1>1, <1>4, <1>5, <1>6, OneStep
<1>. QED
  BY <1>7 DEF SchedInv

(* A task that is on a list is queued there.                               *)
LEMMA OnList ==
    ASSUME NEW s, StateOk(s), NEW c \in Cpu, NEW p \in Task, NEW i \in RtPrio,
           p \in Members(s.rq[c].queue[i])
    PROVE  s.task[p].on_rq /\ s.task[p].cpu = c /\ s.task[p].prio < MAX_RT_PRIO
<1>1. QueuesOk(s, RtQueued(s))
  BY StateQueues
<1>2. p \in RtQueued(s) /\ s.task[p].cpu = c
  BY <1>1 DEF QueuesOk, Listed
<1>. QED
  BY <1>2 DEF RtQueued

(* One run queue of the loop of pull_rt_task: nothing, or a task that may  *)
(* run here is moved here.                                                 *)
LEMMA PullOk ==
    ASSUME NEW s, StateOk(s), NEW r \in Cpu, NEW src \in Cpu, NEW t, t = Pull(s, r, src)
    PROVE  \/ t = s
           \/ \E p \in Task : /\ s.task[p].on_rq /\ r \in s.task[p].allowed
                              /\ StateOk(t) /\ Calm(s, t) /\ Moved(s, t, p, r)
<1>1. PICK p : p = pick_next_highest_task_rt(s, src, r)
  OBVIOUS
<1>2. SUFFICES ASSUME t # s
               PROVE  \E q \in Task : /\ s.task[q].on_rq /\ r \in s.task[q].allowed
                                      /\ StateOk(t) /\ Calm(s, t) /\ Moved(s, t, q, r)
  OBVIOUS
<1>3. p # NoTask /\ t = MoveTask(s, p, src, r)
  BY <1>1, <1>2 DEF Pull
<1>4. s \in StateT
  BY StateQueues
<1>5. /\ p \in Task /\ \E i \in RtPrio : p \in Members(s.rq[src].queue[i])
      /\ pick_rt_task(s, p, r)
  BY <1>1, <1>3, <1>4, PickHighest
<1>6. s.task[p].on_rq /\ s.task[p].cpu = src
  BY <1>5, OnList
<1>7. ~s.task[p].on_cpu /\ r \in s.task[p].allowed
  BY <1>5 DEF pick_rt_task
<1>8. StateOk(t) /\ Calm(s, t) /\ Moved(s, t, p, r)
  BY <1>3, <1>5, <1>6, <1>7, MovedTask
<1>. QED
  BY <1>5, <1>6, <1>7, <1>8

(* pull_rt_task, one run queue of its loop.                                *)
LEMMA PullTaskInv ==
    ASSUME SchedInv, NEW c \in Cpu, PullTask(c) PROVE SchedInv'
<1>1. /\ StateOk(S) /\ S \in StateT /\ Sane(mig, hist, events) /\ Places(pc) /\ pc \in [Cpu -> PcT]
      /\ PlaceOk(c, pc[c])
  BY InvParts
<1>2. PICK l : l = pc[c]
  OBVIOUS
<1>3. PICK t : t = Pull(S, l.rq, l.to)
  OBVIOUS
<1>4. PICK m : m = PullLoop(t, l, l.to + 1)
  OBVIOUS
<1>5. /\ l.at = "pull" /\ Become(t) /\ Goto(c, m) /\ mig' = mig /\ events' = events
      /\ hist' = IF t # S /\ l.k = "switched_to" THEN [hist EXCEPT !.unseen = @ \cup {l.rq}] ELSE hist
  BY <1>2, <1>3, <1>4 DEF PullTask
<1>6. l \in PcT /\ l.rq \in Cpu /\ l.to \in Cpu /\ PlaceOk(c, l)
      /\ l.k \in {"pick", "switched_to", "prio_changed"} /\ (l.k = "pick" => l.rq = c)
  BY <1>1, <1>2, <1>5, ZenonT(30) DEF PlaceOk, PcT
<1>7. \/ t = S
      \/ \E p \in Task : /\ S.task[p].on_rq /\ l.rq \in S.task[p].allowed
                         /\ StateOk(t) /\ Calm(S, t) /\ Moved(S, t, p, l.rq)
  BY <1>1, <1>3, <1>6, PullOk
<1>8. t \in StateT /\ StateOk(t)
  BY <1>1, <1>7, StateQueues
<1>9. S' = t
  BY <1>5, <1>8, BecomeIs
<1>10. /\ Follows(c, l, m) /\ m.rq = l.rq
       /\ (l.k = "pick" => PickL(m)) /\ (l.k = "prio_changed" => PrioL(m))
  BY <1>4, <1>5, <1>6, <1>8, PullFollows
<1>11. At(pc, pc', c, m)
  <2>1. m \in PcT
    BY <1>10 DEF Follows, PlaceOk
  <2>. QED
    BY <1>1, <1>5, <2>1, GotoAt
<1>12. CASE t = S
  <2>1. hist' = hist /\ Calm(S, t) /\ SameBut(S, t, NoTask)
    BY <1>5, <1>12, SameTasks DEF Calm
  <2>. QED
    BY <1>1, <1>2, <1>5, <1>8, <1>9, <1>10, <1>11, <2>1, KeepInv
<1>13. CASE t # S
  <2>1. PICK p \in Task : /\ S.task[p].on_rq /\ l.rq \in S.task[p].allowed
                          /\ Calm(S, t) /\ Moved(S, t, p, l.rq)
    BY <1>7, <1>13
  <2>2. Onward(pc, pc', c, m, t)
    BY <1>2, <1>10, <1>11, FollowOn
  <2>3. /\ hist.waking \subseteq hist'.waking /\ hist.unseen \subseteq hist'.unseen
        /\ Sane(mig', hist', events') /\ (l.k = "switched_to" => l.rq \in hist'.unseen)
    <3>1. CASE l.k = "switched_to"
      <4>1. hist' = [hist EXCEPT !.unseen = @ \cup {l.rq}]
        BY <1>5, <1>13, <3>1
      <4>. QED
        BY <1>1, <1>5, <1>6, <4>1 DEF Sane
    <3>2. CASE l.k # "switched_to"
      BY <1>1, <1>5, <3>2
    <3>. QED
      BY <3>1, <3>2
  <2>4. Excused(t, pc', hist', l.rq) \/ PickL(pc'[l.rq])
    <3>1. pc'[c] = m
      BY <1>11 DEF At
    <3>2. CASE l.k = "pick"
      BY <1>6, <1>10, <3>1, <3>2
    <3>3. CASE l.k = "switched_to"
      BY <2>3, <3>3 DEF Excused
    <3>4. CASE l.k = "prio_changed"
      BY <1>10, <3>1, <3>4 DEF Excused
    <3>. QED
      BY <1>6, <3>2, <3>3, <3>4
  <2>5. \A w \in mig : w.task = p \/ w \in mig'
    BY <1>5
  <2>. QED
    BY <1>8, <1>9, <2>1, <2>2, <2>3, <2>4, <2>5, MoveStep
<1>. QED
  BY <1>12, <1>13

(* push_rt_task, with both locks.                                          *)
LEMMA PushLockedInv ==
    ASSUME SchedInv, NEW c \in Cpu, PushLocked(c) PROVE SchedInv'
<1>1. /\ StateOk(S) /\ S \in StateT /\ Sane(mig, hist, events) /\ Places(pc) /\ pc \in [Cpu -> PcT]
      /\ PlaceOk(c, pc[c]) /\ S.task = task
  BY InvParts
<1>2. PICK l : l = pc[c]
  OBVIOUS
<1>3. l.at = "push_lock" /\ mig' = mig /\ hist' = hist /\ events' = events
  BY <1>2 DEF PushLocked, PushLockedIf
<1>4. l \in PcT /\ l.rq \in Cpu /\ l.to \in Cpu /\ l.p \in Task /\ l.tries \in Nat /\ l.at \in Pushing
  BY <1>1, <1>2, <1>3, ZenonT(30) DEF PlaceOk, PcT, Pushing
<1>5. PICK a : a = MoveTask(S, l.p, l.rq, l.to)
  OBVIOUS
<1>6. \/ PushFailed(c, S, l, l.p)
      \/ StillPushable(S, l) /\ PushStep(c, resched_task(a, l.to), l, TRUE)
      \/ FindLock(c, S, l, l.p, l.tries)
  BY <1>2, <1>5 DEF PushLocked, PushLockedIf
<1>7. CASE PushFailed(c, S, l, l.p)
  <2>1. Reached(c, S)
    BY <1>1, <1>2, <1>4, <1>7, PushFailedOk
  <2>. QED
    BY <1>3, <2>1, ReachedInv
<1>8. CASE FindLock(c, S, l, l.p, l.tries)
  <2>1. Reached(c, S)
    BY <1>1, <1>2, <1>4, <1>8, FindLockOk
  <2>. QED
    BY <1>3, <2>1, ReachedInv
<1>9. CASE StillPushable(S, l) /\ PushStep(c, resched_task(a, l.to), l, TRUE)
  <2>1. PICK p \in Task : p = l.p
    BY <1>4
  <2>2. /\ S.task[p].cpu = l.rq /\ l.to \in S.task[p].allowed /\ ~S.task[p].on_cpu /\ S.task[p].on_rq
    BY <1>9, <2>1 DEF StillPushable
  <2>3. StateOk(a) /\ Calm(S, a) /\ Moved(S, a, p, l.to)
    BY <1>1, <1>4, <1>5, <2>1, <2>2, MovedTask
  <2>4. PICK b : b = resched_task(a, l.to)
    OBVIOUS
  <2>5. StateOk(b) /\ Calm(a, b) /\ b.task = a.task /\ b.rq[l.to].need_resched
    BY <1>4, <2>3, <2>4, ReschedOk
  <2>6. PICK ret \in BOOLEAN : ret = TRUE
    OBVIOUS
  <2>7. PushStep(c, b, l, ret)
    BY <1>9, <2>4, <2>6
  <2>8. Reached(c, b)
    BY <1>1, <1>2, <1>4, <2>5, <2>7, PushStepOk
  <2>9. PICK t, m : /\ S' = t /\ StateOk(t) /\ Calm(b, t) /\ t.task = b.task
                    /\ At(pc, pc', c, m) /\ Follows(c, pc[c], m)
    BY <2>8 DEF Reached
  <2>10. Calm(S, t)
    BY <2>3, <2>5, <2>9, CalmTrans
  <2>11. Moved(S, t, p, l.to)
    BY <2>3, <2>5, <2>9 DEF Moved, SameBut, SameTask
  <2>12. Excused(t, pc', hist', l.to)
    BY <1>4, <2>5, <2>9 DEF Calm, Excused
  <2>13. Onward(pc, pc', c, m, t)
    BY <2>9, FollowOn
  <2>14. /\ hist.waking \subseteq hist'.waking /\ hist.unseen \subseteq hist'.unseen
         /\ Sane(mig', hist', events') /\ \A w \in mig : w.task = p \/ w \in mig'
    BY <1>1, <1>3
  <2>. QED
    BY <2>2, <2>9, <2>10, <2>11, <2>12, <2>13, <2>14, MoveStep
<1>. QED
  BY <1>6, <1>7, <1>8, <1>9

(* A task whose lock nobody holds keeps its state and its run queue.       *)
LEMMA FreeChange ==
    ASSUME SchedInv, NEW c \in Cpu, NEW p \in Task, PiFree(p), NEW t, SameBut(S, t, p), pc' = pc,
           t.task[p].state = S.task[p].state, t.task[p].on_rq = S.task[p].on_rq,
           t.task[p].prio = S.task[p].prio, t.task[p].on_cpu = S.task[p].on_cpu,
           t.task[p].cpu = S.task[p].cpu
    PROVE  Change(S, t, pc, pc', c, p)
<1>1. States(S, pc)
  BY InvParts
<1>2. TaskStateOk(t, p)
  BY <1>1 DEF States, TaskStateOk
<1>3. \A d \in Cpu : S.rq[d].curr = p /\ ~t.task[p].on_rq => PickL(pc'[d])
  BY <1>1 DEF States
<1>. QED
  BY <1>2, <1>3, RtRunQueueAssumption DEF Change, PiFree

(* migration_cpu_stop moves a task to a CPU of its mask.                   *)
LEMMA MigrationCpuStopInv ==
    ASSUME SchedInv, NEW c \in Cpu, NEW w \in mig, MigrationCpuStop(c, w) PROVE SchedInv'
<1>1. /\ StateOk(S) /\ S \in StateT /\ Sane(mig, hist, events) /\ Places(pc) /\ CurrOk(S)
      /\ S.task = task /\ S.rq = rq /\ InvOf(S, pc, mig, hist, events) /\ Affinity(S, mig, hist)
  BY InvParts
<1>2. /\ pc[c].at = "run" /\ rq[c].curr = Stopper /\ w.src = c /\ PiFree(w.task)
      /\ pc' = pc /\ hist' = hist /\ events' = events /\ mig' = mig \ {w}
  BY DEF MigrationCpuStop
<1>3. PICK p \in Task : p = w.task
  BY <1>1 DEF Sane
<1>4. PICK to \in Cpu : to = w.dest
  BY <1>1 DEF Sane
<1>5. Sane(mig', hist', events')
  BY <1>1, <1>2 DEF Sane
<1>6. \A x \in mig : x.task = p \/ x \in mig'
  BY <1>2, <1>3
<1>7. CASE task[p].cpu = c /\ to \in task[p].allowed /\ task[p].on_rq
  <2>1. PICK a : a = MoveTask(S, p, c, to)
    OBVIOUS
  <2>2. PICK t : t = check_preempt_curr(a, to, p)
    OBVIOUS
  <2>3. Become(t)
    BY <1>2, <1>3, <1>4, <1>7, <2>1, <2>2 DEF MigrationCpuStop
  <2>4. ~S.task[p].on_cpu
    BY <1>1, <1>2, <1>7, RtRunQueueAssumption DEF CurrOk
  <2>5. StateOk(a) /\ Calm(S, a) /\ Moved(S, a, p, to)
    BY <1>1, <1>7, <2>1, <2>4, MovedTask
  <2>6. a.task[p].cpu = to
    BY <2>5 DEF Moved
  <2>7. /\ StateOk(t) /\ Calm(a, t) /\ t.task = a.task
        /\ t.rq[to].need_resched \/ PrioOf(t, t.rq[to].curr) <= t.task[p].prio
    BY <2>2, <2>5, <2>6, CheckPreemptOk
  <2>8. S' = t
    BY <2>3, <2>7, BecomeIs, StateQueues
  <2>9. Calm(S, t)
    BY <2>5, <2>7, CalmTrans
  <2>10. Moved(S, t, p, to)
    BY <2>5, <2>7 DEF Moved, SameBut, SameTask
  <2>11. Behind(t, to, p) \/ Excused(t, pc', hist', to)
    BY <2>7 DEF Behind, Excused
  <2>12. TtwuOk(t, pc[c])
    BY <1>2 DEF TtwuOk
  <2>13. Onward(pc, pc', c, pc[c], t)
    BY <1>1, <1>2, <2>12, StayOnward
  <2>14. S.task[p].on_rq /\ to \in S.task[p].allowed
    BY <1>1, <1>7
  <2>15. hist.waking \subseteq hist'.waking /\ hist.unseen \subseteq hist'.unseen
    BY <1>2
  <2>. QED
    BY <1>5, <1>6, <2>7, <2>8, <2>9, <2>10, <2>11, <2>13, <2>14, <2>15, MoveStep
<1>8. CASE ~(task[p].cpu = c /\ to \in task[p].allowed /\ task[p].on_rq)
  <2>1. Become(S)
    BY <1>3, <1>4, <1>8 DEF MigrationCpuStop
  <2>2. S' = S /\ Calm(S, S) /\ SameBut(S, S, p)
    BY <1>1, <2>1, BecomeIs DEF Calm, SameBut, SameTask
  <2>3. PiFree(p)
    BY <1>2, <1>3
  <2>4. Change(S, S, pc, pc', c, p)
    BY <1>2, <2>2, <2>3, FreeChange
  <2>5. Arrive(S, S, pc', hist', p)
    BY DEF Arrive
  <2>6. Fixed(S, mig, mig', hist, hist', p)
    <3>1. ASSUME p \notin hist.waking PROVE Placed(S, mig', p)
      <4>1. Placed(S, mig, p)
        BY <1>1, <3>1 DEF Affinity
      <4>2. ASSUME NEW x \in mig, x.task = p, x.src = S.task[p].cpu, x.dest \in S.task[p].allowed,
                   S.task[p].on_rq
            PROVE  x \in mig'
        <5>1. x # w
          BY <1>1, <1>2, <1>4, <1>8, <4>2
        <5>. QED
          BY <1>2, <5>1
      <4>. QED
        BY <4>1, <4>2 DEF Placed
    <3>. QED
      BY <1>2, <1>6, <3>1 DEF Fixed
  <2>7. TtwuOk(S, pc[c])
    BY <1>2 DEF TtwuOk
  <2>8. Onward(pc, pc', c, pc[c], S)
    BY <1>1, <1>2, <2>7, StayOnward
  <2>9. InvOf(S, pc', mig', hist', events')
    BY <1>1, <1>5, <2>2, <2>4, <2>5, <2>6, <2>8, OneStep
  <2>. QED
    BY <2>2, <2>9 DEF SchedInv
<1>. QED
  BY <1>7, <1>8

(* set_cpus_allowed_ptr: the mask changes, and a migration is asked for    *)
(* where it has to be.                                                     *)
LEMMA SetCpusAllowedInv ==
    ASSUME SchedInv, NEW c \in Cpu, NEW p \in Task, NEW mask \in Masks, SetCpusAllowed(c, p, mask)
    PROVE  SchedInv'
<1>1. /\ StateOk(S) /\ S \in StateT /\ Sane(mig, hist, events) /\ Places(pc)
      /\ S.task = task /\ S.rq = rq /\ InvOf(S, pc, mig, hist, events)
  BY InvParts
<1>2. PICK r : r = task[p].cpu
  OBVIOUS
<1>3. r \in Cpu /\ r = S.task[p].cpu /\ mask \in (SUBSET Cpu) \ {{}}
  BY <1>1, <1>2, StateParts, TaskParts, RtSchedAssumption
<1>4. /\ Event /\ pc[c].at = "run" /\ PiFree(p) /\ Become(do_set_cpus_allowed(S, r, p, mask))
      /\ mig' = IF r \notin mask /\ task[p].on_rq
                THEN mig \cup {[task |-> p, src |-> r, dest |-> MinOf(mask)]} ELSE mig
      /\ hist' = [hist EXCEPT !.changed = TRUE,
                              !.waking = IF task[p].state = "waking" THEN @ \cup {p} ELSE @]
      /\ pc' = pc
  BY <1>2 DEF SetCpusAllowed
<1>5. PICK t : t = do_set_cpus_allowed(S, r, p, mask)
  OBVIOUS
<1>6. StateOk(t) /\ KeepRq(S, t) /\ Sets(S, t, p, [S.task[p] EXCEPT !.allowed = mask])
  BY <1>1, <1>3, <1>5, AllowedOk
<1>7. S' = t /\ Calm(S, t)
  BY <1>4, <1>5, <1>6, BecomeIs, StateQueues, KeepCalm
<1>8. /\ SameBut(S, t, p) /\ t.task[p].state = S.task[p].state /\ t.task[p].on_rq = S.task[p].on_rq
      /\ t.task[p].prio = S.task[p].prio /\ t.task[p].on_cpu = S.task[p].on_cpu
      /\ t.task[p].cpu = S.task[p].cpu /\ t.task[p].allowed = mask
  <2>1. S.task[p] \in TaskT
    BY <1>1, StateParts
  <2>2. t.task[p] = [S.task[p] EXCEPT !.allowed = mask] /\ SameBut(S, t, p)
    BY <1>6 DEF Sets, SameBut, SameTask
  <2>. QED
    BY <2>1, <2>2 DEF TaskT
<1>9. Change(S, t, pc, pc', c, p)
  BY <1>4, <1>8, FreeChange
<1>10. Arrive(S, t, pc', hist', p)
  BY <1>8 DEF Arrive, Here
<1>11. MinOf(mask) \in mask
  <2>1. mask \in SUBSET Nat /\ mask # {}
    BY <1>3, RtRunQueueAssumption DEF Cpu
  <2>. QED
    BY <2>1, MinOfLeast
<1>12. /\ hist'.unseen = hist.unseen /\ hist.waking \subseteq hist'.waking
       /\ hist' \in [unseen : SUBSET Cpu, changed : BOOLEAN, waking : SUBSET Task]
       /\ task[p].state = "waking" => p \in hist'.waking
  BY <1>1, <1>4 DEF Sane
<1>13. /\ mig' \subseteq [task : Task, src : Cpu, dest : Cpu] /\ mig \subseteq mig'
       /\ r \notin mask /\ task[p].on_rq => [task |-> p, src |-> r, dest |-> MinOf(mask)] \in mig'
  BY <1>1, <1>3, <1>4, <1>11 DEF Sane
<1>14. Sane(mig', hist', events')
  <2>1. Sane(mig, hist, events')
    BY <1>1, <1>4, EventSane
  <2>. QED
    BY <1>12, <1>13, <2>1 DEF Sane
<1>15. Fixed(t, mig, mig', hist, hist', p)
  <2>1. ASSUME p \notin hist'.waking PROVE Placed(t, mig', p)
    <3>1. t.task[p].state # "waking"
      BY <1>1, <1>8, <1>12, <2>1
    <3>2. ASSUME t.task[p].on_rq, t.task[p].cpu \notin t.task[p].allowed
          PROVE  \E x \in mig' : x.task = p /\ x.src = t.task[p].cpu /\ x.dest \in t.task[p].allowed
      <4>1. r \notin mask /\ task[p].on_rq /\ t.task[p].cpu = r
        BY <1>1, <1>3, <1>8, <3>2
      <4>. QED
        BY <1>8, <1>11, <1>13, <4>1
    <3>. QED
      BY <3>1, <3>2 DEF Placed
  <2>. QED
    BY <1>12, <1>13, <2>1 DEF Fixed
<1>16. TtwuOk(t, pc[c])
  BY <1>4 DEF TtwuOk
<1>17. Onward(pc, pc', c, pc[c], t)
  BY <1>1, <1>4, <1>16, StayOnward
<1>18. InvOf(t, pc', mig', hist', events')
  BY <1>1, <1>6, <1>7, <1>9, <1>10, <1>14, <1>15, <1>17, OneStep
<1>. QED
  BY <1>7, <1>18 DEF SchedInv

-----------------------------------------------------------------------------
(* Throttling.                                                             *)

(* A calm step but for the throttle of CPU c.                              *)
CalmBut(s, t, c) ==
    /\ t.task = s.task
    /\ \A d \in Cpu : /\ t.rq[d].curr = s.rq[d].curr /\ t.rq[d].wake_list = s.rq[d].wake_list
                      /\ t.rq[d].ipi = s.rq[d].ipi /\ (s.rq[d].need_resched => t.rq[d].need_resched)
                      /\ d # c => t.rq[d].rt_throttled = s.rq[d].rt_throttled

(* The throttle of CPU c may change if the CPU is told, or if no real-time *)
(* task waits there.                                                       *)
LEMMA ThrottleStep ==
    ASSUME NEW s, NEW t, NEW P, NEW M, NEW H, NEW H2, NEW e, NEW e2, NEW c \in Cpu,
           InvOf(s, P, M, H, e), StateOk(t), CalmBut(s, t, c),
           \/ t.rq[c].need_resched
           \/ \A p \in Task : Here(s, c, p) => ~(s.task[p].prio < MAX_RT_PRIO),
           H2.unseen = H.unseen, H2.waking = H.waking, Sane(M, H2, e2)
    PROVE  InvOf(t, P, M, H2, e2)
<1>1. /\ StateOk(s) /\ Places(P) /\ Unborn(s, P) /\ States(s, P) /\ Wakeups(s, P)
      /\ Affinity(s, M, H) /\ \A d \in Cpu : High(s, P, H, d)
  BY DEF InvOf
<1>2. /\ t.task = s.task
      /\ \A d \in Cpu : /\ t.rq[d].curr = s.rq[d].curr /\ t.rq[d].wake_list = s.rq[d].wake_list
                        /\ t.rq[d].ipi = s.rq[d].ipi /\ (s.rq[d].need_resched => t.rq[d].need_resched)
                        /\ d # c => t.rq[d].rt_throttled = s.rq[d].rt_throttled
  BY DEF CalmBut
<1>3. Unborn(t, P)
  BY <1>1, <1>2 DEF Unborn
<1>4. States(t, P)
  BY <1>1, <1>2 DEF States, TaskStateOk, TtwuOk
<1>5. Wakeups(t, P)
  BY <1>1, <1>2 DEF Wakeups, Waits
<1>6. Affinity(t, M, H2)
  BY <1>1, <1>2 DEF Affinity, Placed
<1>7. ASSUME NEW d \in Cpu PROVE High(t, P, H2, d)
  <2>1. SUFFICES ASSUME ~PickL(P[d]), ~Excused(t, P, H2, d), NEW p \in Task, Here(t, d, p)
                 PROVE  Raised(P, d, p) \/ Behind(t, d, p)
    BY DEF High
  <2>2. ~Excused(s, P, H, d) /\ Here(s, d, p)
    BY <1>2, <2>1 DEF Excused, Lowered, Here
  <2>3. Raised(P, d, p) \/ Behind(s, d, p)
    BY <1>1, <2>1, <2>2 DEF High
  <2>4. PrioOf(t, t.rq[d].curr) = PrioOf(s, s.rq[d].curr)
    BY <1>2 DEF PrioOf
  <2>5. ~t.rq[d].need_resched
    BY <2>1 DEF Excused
  <2>6. CASE d = c
    BY <1>2, <2>2, <2>3, <2>4, <2>5, <2>6 DEF Behind, Held
  <2>7. CASE d # c
    BY <1>2, <2>3, <2>4, <2>7 DEF Behind, Held
  <2>. QED
    BY <2>6, <2>7
<1>. QED
  BY <1>1, <1>3, <1>4, <1>5, <1>6, <1>7 DEF InvOf

(* update_curr_rt throttles the run queue, and tells the CPU.              *)
LEMMA ThrottleInv ==
    ASSUME SchedInv, NEW c \in Cpu, Throttle(c) PROVE SchedInv'
<1>1. StateOk(S) /\ InvOf(S, pc, mig, hist, events) /\ Sane(mig, hist, events)
  BY InvParts
<1>2. /\ Event /\ Become([resched_task(S, c) EXCEPT !.rq[c].rt_throttled = TRUE])
      /\ hist' = [hist EXCEPT !.changed = TRUE] /\ pc' = pc /\ mig' = mig
  BY DEF Throttle
<1>3. PICK a : a = resched_task(S, c)
  OBVIOUS
<1>4. StateOk(a) /\ Calm(S, a) /\ a.task = S.task /\ a.rq[c].need_resched
  BY <1>1, <1>3, ReschedOk
<1>5. PICK b \in BOOLEAN : b = TRUE
  OBVIOUS
<1>6. PICK t : t = [a EXCEPT !.rq[c].rt_throttled = b]
  OBVIOUS
<1>7. StateOk(t) /\ Throttles(a, t, c, b)
  BY <1>4, <1>6, ThrottledOk
<1>8. S' = t
  BY <1>2, <1>3, <1>5, <1>6, <1>7, BecomeIs, StateQueues
<1>9. CalmBut(S, t, c) /\ t.rq[c].need_resched
  BY <1>4, <1>7 DEF CalmBut, Calm, Throttles
<1>10. hist'.unseen = hist.unseen /\ hist'.waking = hist.waking /\ Sane(mig, hist', events)
  BY <1>1, <1>2 DEF Sane
<1>11. Sane(mig, hist', events')
  BY <1>2, <1>10, EventSane
<1>12. InvOf(t, pc, mig, hist', events')
  BY <1>1, <1>7, <1>9, <1>10, <1>11, ThrottleStep
<1>. QED
  BY <1>2, <1>8, <1>12 DEF SchedInv

(* The period timer releases the run queue, and tells the CPU if a task    *)
(* waits for it.                                                           *)
LEMMA UnthrottleInv ==
    ASSUME SchedInv, NEW c \in Cpu, Unthrottle(c) PROVE SchedInv'
<1>1. StateOk(S) /\ InvOf(S, pc, mig, hist, events) /\ Sane(mig, hist, events) /\ S.rq = rq
  BY InvParts
<1>2. PICK b \in BOOLEAN : b = FALSE
  OBVIOUS
<1>3. PICK a : a = [S EXCEPT !.rq[c].rt_throttled = b]
  OBVIOUS
<1>4. PICK t : t = IF rq[c].rt_nr_running > 0 THEN resched_task(a, c) ELSE a
  OBVIOUS
<1>5. Become(t) /\ pc' = pc /\ mig' = mig /\ hist' = hist /\ events' = events
  BY <1>2, <1>3, <1>4 DEF Unthrottle
<1>6. StateOk(a) /\ Throttles(S, a, c, b)
  BY <1>1, <1>3, ThrottledOk
<1>7. CASE rq[c].rt_nr_running > 0
  <2>1. StateOk(t) /\ Calm(a, t) /\ t.task = a.task /\ t.rq[c].need_resched
    BY <1>4, <1>6, <1>7, ReschedOk
  <2>2. CalmBut(S, t, c)
    BY <1>6, <2>1 DEF CalmBut, Calm, Throttles
  <2>3. S' = t
    BY <1>5, <2>1, BecomeIs, StateQueues
  <2>4. InvOf(t, pc, mig, hist, events)
    BY <1>1, <2>1, <2>2, ThrottleStep
  <2>. QED
    BY <1>5, <2>3, <2>4 DEF SchedInv
<1>8. CASE ~(rq[c].rt_nr_running > 0)
  <2>1. t = a
    BY <1>4, <1>8
  <2>2. CalmBut(S, t, c)
    BY <1>6, <2>1 DEF CalmBut, Throttles
  <2>3. S' = t
    BY <1>5, <1>6, <2>1, BecomeIs, StateQueues
  <2>4. Counts(S, RtQueued(S), c)
    BY <1>1, StateQueues DEF QueuesOk
  <2>5. On(S, RtQueued(S), c) = {}
    BY <1>1, <1>8, <2>4, NoneRunning
  <2>6. \A p \in Task : Here(S, c, p) => ~(S.task[p].prio < MAX_RT_PRIO)
    BY <2>5 DEF On, RtQueued, Here
  <2>7. InvOf(t, pc, mig, hist, events)
    BY <1>1, <1>6, <2>1, <2>2, <2>6, ThrottleStep
  <2>. QED
    BY <1>5, <2>3, <2>7 DEF SchedInv
<1>. QED
  BY <1>7, <1>8

-----------------------------------------------------------------------------
(* The actions of a wake-up.                                               *)

Tame(s, t) ==
    \A d \in Cpu : /\ t.rq[d].curr = s.rq[d].curr /\ t.rq[d].rt_throttled = s.rq[d].rt_throttled
                   /\ s.rq[d].need_resched => t.rq[d].need_resched

(* The priority of q is what it was, or nobody knows q yet.                *)
PrioKept(s, t, P, q) ==
    q \in Task => \/ t.task[q].prio = s.task[q].prio
                  \/ Unheld(P, q) /\ ~s.task[q].on_rq /\ \A d \in Cpu : s.rq[d].curr # q

PiOk(P, c, l, t) ==
    l.pi = NoTask \/ l.pi = P[c].pi \/ (Unheld(P, l.pi) /\ t.task[l.pi].state # "unborn")

(* A step of a wake-up, of the task q, keeps the invariant.                *)
LEMMA WakeStep ==
    ASSUME NEW s, NEW t, NEW P, NEW P2, NEW M, NEW H, NEW e, NEW e2, NEW c \in Cpu, NEW l, NEW q,
           InvOf(s, P, M, H, e), StateOk(t), Tame(s, t), At(P, P2, c, l), PlaceOk(c, l),
           PiOk(P, c, l, t), SameBut(s, t, q), Accounted(s, t, P, P2, c, q), TtwuOk(t, l),
           q \in Task /\ t.task[q].state = "unborn" => s.task[q].state = "unborn",
           Wakeups(t, P2), Goes(P[c], l), ~PickL(P[c]), PrioKept(s, t, P, q), Arrive(s, t, P2, H, q),
           q \in Task \ H.waking => Placed(t, M, q), Sane(M, H, e2)
    PROVE  InvOf(t, P2, M, H, e2)
<1>1. /\ StateOk(s) /\ Places(P) /\ Unborn(s, P) /\ States(s, P)
      /\ Affinity(s, M, H) /\ \A d \in Cpu : High(s, P, H, d)
  BY DEF InvOf
<1>2. s \in StateT /\ t \in StateT
  BY <1>1, StateQueues
<1>3. l.pi = NoTask \/ l.pi = P[c].pi \/ (Unheld(P, l.pi) /\ t.task[l.pi].state # "unborn")
  BY DEF PiOk
<1>6. Places(P2)
  BY <1>1, <1>3, PlacesKept
<1>7. Unborn(t, P2)
  <2>1. \A p \in Task : t.task[p].state = "unborn" => s.task[p].state = "unborn"
    BY DEF SameBut, SameTask
  <2>. QED
    BY <1>1, <1>3, <2>1, UnbornKept
<1>8. States(t, P2)
  BY <1>1, StatesKept
<1>10. Affinity(t, M, H)
  <2>1. \A m \in M : m.task = q \/ m \in M
    OBVIOUS
  <2>2. H.waking \subseteq H.waking
    OBVIOUS
  <2>. QED
    BY <1>1, <2>1, <2>2, AffKept
<1>11. ASSUME NEW d \in Cpu PROVE High(t, P2, H, d)
  <2>1. \A p \in Task : \/ t.task[p].prio = s.task[p].prio
                        \/ Unheld(P, p) /\ s.rq[d].curr # p /\ ~Here(s, d, p)
    BY DEF PrioKept, SameBut, SameTask, Here
  <2>2. \A p \in Task : Here(t, d, p) => \/ Here(s, d, p) \/ Behind(t, d, p)
                                         \/ Excused(t, P2, H, d) \/ PickL(P2[d])
    BY DEF Arrive, SameBut, SameTask, Here
  <2>4. /\ t.rq[d].curr = s.rq[d].curr /\ t.rq[d].rt_throttled = s.rq[d].rt_throttled
        /\ s.rq[d].need_resched => t.rq[d].need_resched
    BY DEF Tame
  <2>5. High(s, P, H, d)
    BY <1>1
  <2>. QED
    BY <1>2, <2>1, <2>2, <2>4, <2>5, HighKept
<1>. QED
  BY <1>6, <1>7, <1>8, <1>10, <1>11 DEF InvOf

(* ttwu_do_wakeup of the task p on CPU r.                                  *)
Woken(s, t, r, p) ==
    /\ StateOk(t) /\ Calm(s, t) /\ SameBut(s, t, p) /\ t.task[p].state = "running"
    /\ t.task[p].on_rq = s.task[p].on_rq /\ t.task[p].prio = s.task[p].prio
    /\ t.task[p].cpu = s.task[p].cpu /\ t.task[p].allowed = s.task[p].allowed
    /\ t.task[p].on_cpu = s.task[p].on_cpu
    /\ t.rq[r].need_resched \/ Behind(t, r, p)

After(c, l, m) ==
    /\ PlaceOk(c, m) /\ m.rest = l.rest /\ (m.pi = NoTask \/ m.pi = l.pi)
    /\ m.at \in {"run", "pending", "push"} /\ ~PickL(m) /\ ~PrioL(m) /\ ~SwitchL(m)

(* ttwu_do_wakeup: the preemption check and the new state.                 *)
LEMMA WokenOk ==
    ASSUME NEW s, StateOk(s), NEW p \in Task, NEW r \in Cpu, s.task[p].cpu = r, NEW t
    PROVE  t = [check_preempt_curr(s, r, p) EXCEPT !.task[p].state = "running"] => Woken(s, t, r, p)
<1>0. SUFFICES ASSUME t = [check_preempt_curr(s, r, p) EXCEPT !.task[p].state = "running"]
               PROVE  Woken(s, t, r, p)
  OBVIOUS
<1>1. PICK a : a = check_preempt_curr(s, r, p)
  OBVIOUS
<1>2. /\ StateOk(a) /\ Calm(s, a) /\ a.task = s.task
      /\ a.rq[r].need_resched \/ PrioOf(a, a.rq[r].curr) <= a.task[p].prio
  BY <1>1, CheckPreemptOk
<1>3. PICK x \in {"unborn", "sleep", "waking", "running"} : x = "running"
  OBVIOUS
<1>4. t = [a EXCEPT !.task[p].state = x]
  BY <1>0, <1>1, <1>3
<1>5. /\ StateOk(t) /\ Calm(a, t) /\ SameBut(a, t, p) /\ t.task[p].state = x
      /\ t.task[p].on_rq = a.task[p].on_rq /\ t.task[p].prio = a.task[p].prio
      /\ t.task[p].cpu = a.task[p].cpu /\ t.task[p].allowed = a.task[p].allowed
      /\ t.task[p].on_cpu = a.task[p].on_cpu /\ t.rq = a.rq
  BY <1>2, <1>4, PutState
<1>6. Calm(s, t) /\ SameBut(s, t, p)
  BY <1>2, <1>5, CalmTrans DEF SameBut, SameTask
<1>7. PrioOf(t, t.rq[r].curr) = PrioOf(a, a.rq[r].curr)
  <2>1. a \in StateT /\ a.rq[r].curr \in Task \cup {Idle, Stopper}
    BY <1>2, StateQueues, StateParts, RqParts
  <2>2. \A y \in Task : t.task[y].prio = a.task[y].prio
    BY <1>5 DEF SameBut, SameTask
  <2>. QED
    BY <1>5, <2>1, <2>2 DEF PrioOf
<1>. QED
  BY <1>2, <1>3, <1>5, <1>6, <1>7 DEF Woken, Behind

(* ttwu_do_wakeup up to its task_woken_rt, whose push may come next.       *)
LEMMA WakeupOk ==
    ASSUME pc \in [Cpu -> PcT], NEW c \in Cpu, NEW s, StateOk(s), NEW p \in Task, NEW r \in Cpu,
           s.task[p].cpu = r, NEW l \in PcT, l.rest # <<>> => r = c, Wakeup(c, s, r, p, l)
    PROVE  \E t, m : S' = t /\ Woken(s, t, r, p) /\ At(pc, pc', c, m) /\ After(c, l, m)
<1>1. PICK t : t = [check_preempt_curr(s, r, p) EXCEPT !.task[p].state = "running"]
  OBVIOUS
<1>2. Woken(s, t, r, p)
  BY <1>1, WokenOk
<1>3. Become(t)
  BY <1>1 DEF Wakeup
<1>4. S' = t
  BY <1>2, <1>3, BecomeIs, StateQueues DEF Woken
<1>5. PICK m : Goto(c, m) /\ (m = [l EXCEPT !.at = "push", !.rq = r, !.k = "woken"]
                              \/ m = Return([l EXCEPT !.rq = r]))
  BY <1>1 DEF Wakeup
<1>6. CASE m = [l EXCEPT !.at = "push", !.rq = r, !.k = "woken"]
  <2>1. m \in PcT /\ m.at = "push" /\ m.rq = r /\ m.k = "woken" /\ m.rest = l.rest /\ m.pi = l.pi
    BY <1>6, ZenonT(30) DEF PcT, Labels
  <2>2. PlaceOk(c, m)
    BY <2>1 DEF PlaceOk, Pushing
  <2>3. After(c, l, m)
    BY <2>1, <2>2 DEF After, PickL, PrioL, SwitchL, Pushing
  <2>. QED
    BY <1>2, <1>4, <1>5, <2>1, <2>3, GotoAt
<1>7. CASE m = Return([l EXCEPT !.rq = r])
  <2>1. PICK k : k = [l EXCEPT !.rq = r]
    OBVIOUS
  <2>2. k \in PcT /\ k.rq = r /\ k.rest = l.rest
    BY <2>1, ZenonT(30) DEF PcT
  <2>3. k.rest # <<>> => k.rq = c
    BY <2>2
  <2>4. m = Return(k)
    BY <1>7, <2>1
  <2>5. /\ PlaceOk(c, m) /\ m.pi = NoTask /\ m.rest = k.rest /\ m.at \in {"run", "pending"}
        /\ ~PickL(m) /\ ~PrioL(m) /\ ~SwitchL(m)
    BY <2>2, <2>3, <2>4, ReturnOk
  <2>6. After(c, l, m) /\ m \in PcT
    BY <2>2, <2>5 DEF After, PlaceOk
  <2>. QED
    BY <1>2, <1>4, <1>5, <2>6, GotoAt
<1>. QED
  BY <1>5, <1>6, <1>7

(* try_to_wake_up, up to the choice of a CPU.                              *)
LEMMA TryToWakeUpInv ==
    ASSUME SchedInv, NEW c \in Cpu, NEW p \in Task, TryToWakeUp(c, p) PROVE SchedInv'
<1>1. /\ StateOk(S) /\ S \in StateT /\ Sane(mig, hist, events) /\ Places(pc) /\ pc \in [Cpu -> PcT]
      /\ S.task = task /\ S.rq = rq /\ InvOf(S, pc, mig, hist, events)
  BY InvParts
<1>2. /\ pc[c].at = "run" /\ PiFree(p) /\ task[p].state = "sleep"
      /\ mig' = mig /\ hist' = hist /\ events' = events
  BY DEF TryToWakeUp
<1>3. /\ Run \in PcT /\ Run.rest = <<>> /\ Run.pi = NoTask /\ Run.at = "run"
      /\ ~PickL(Run) /\ ~PrioL(Run) /\ ~SwitchL(Run) /\ pc[c] = Run
  BY <1>1, <1>2, RunOk, AtRun, ZenonT(30)
<1>4. CASE task[p].on_rq /\ Wakeup(c, S, task[p].cpu, p, [Run EXCEPT !.pi = p])
  <2>1. PICK l : l = [Run EXCEPT !.pi = p]
    OBVIOUS
  <2>2. l \in PcT /\ l.rest = <<>> /\ l.pi = p
    BY <1>3, <2>1, ZenonT(30) DEF PcT
  <2>3. PICK r : r = task[p].cpu
    OBVIOUS
  <2>4. r \in Cpu /\ S.task[p].cpu = r /\ S.task[p].on_rq
    BY <1>1, <1>4, <2>3, StateParts, TaskParts
  <2>5. Wakeup(c, S, r, p, l)
    BY <1>4, <2>1, <2>3
  <2>6. \E t, m : S' = t /\ Woken(S, t, r, p) /\ At(pc, pc', c, m) /\ After(c, l, m)
    BY <1>1, <2>2, <2>4, <2>5, WakeupOk
  <2>7. PICK t, m : S' = t /\ Woken(S, t, r, p) /\ At(pc, pc', c, m) /\ After(c, l, m)
    BY <2>6
  <2>8. /\ StateOk(t) /\ Calm(S, t) /\ Restated(S, t, p) /\ t.task[p].cpu = S.task[p].cpu
        /\ t.task[p].allowed = S.task[p].allowed /\ t.task[p].state = "running"
    BY <2>4, <2>7 DEF Woken, Restated
  <2>9. Onward(pc, pc', c, m, t)
    <3>1. Goes(pc[c], m) /\ TtwuOk(t, m)
      BY <1>3, <2>7 DEF Goes, TtwuOk, After
    <3>2. m.pi = NoTask \/ (Unheld(pc, m.pi) /\ t.task[m.pi].state # "unborn")
      BY <1>2, <2>2, <2>7, <2>8 DEF After, Unheld, PiFree
    <3>. QED
      BY <1>3, <2>2, <2>7, <3>1, <3>2 DEF Onward, After
  <2>. QED
    BY <1>1, <1>2, <2>4, <2>7, <2>8, <2>9, StateStep
<1>5. CASE /\ ~task[p].on_rq /\ Goto(c, [Run EXCEPT !.at = "ttwu", !.pi = p])
           /\ UNCHANGED <<task, rq, cpupri, rto_mask>>
  <2>1. S' = S
    BY <1>5 DEF S
  <2>2. PICK m : m = [Run EXCEPT !.at = "ttwu", !.pi = p]
    OBVIOUS
  <2>3. m \in PcT /\ m.at = "ttwu" /\ m.pi = p /\ m.rest = <<>>
    BY <1>3, <2>2, ZenonT(30) DEF PcT, Labels
  <2>4. PlaceOk(c, m)
    BY <2>3 DEF PlaceOk, Pushing
  <2>5. At(pc, pc', c, m)
    BY <1>1, <1>5, <2>2, <2>3, GotoAt
  <2>6. TtwuOk(S, m) /\ Goes(pc[c], m)
    BY <1>1, <1>2, <1>3, <1>5, <2>3 DEF TtwuOk, Goes
  <2>7. Unheld(pc, m.pi) /\ S.task[m.pi].state # "unborn"
    BY <1>1, <1>2, <2>3 DEF PiFree, Unheld
  <2>8. Onward(pc, pc', c, m, S)
    BY <1>3, <2>3, <2>4, <2>5, <2>6, <2>7 DEF Onward
  <2>9. Calm(S, S) /\ SameBut(S, S, NoTask)
    BY SameTasks DEF Calm
  <2>10. InvOf(S, pc', mig, hist, events)
    BY <1>1, <2>8, <2>9, KeepStep
  <2>. QED
    BY <1>2, <2>1, <2>10 DEF SchedInv
<1>. QED
  BY <1>4, <1>5 DEF TryToWakeUp

(* The CPU that is chosen for a task is one that it may use.               *)
LEMMA SelectOk ==
    ASSUME NEW s \in StateT, NEW p \in Task, NEW this, NEW r, r = select_task_rq(s, p, this)
    PROVE  r \in s.task[p].allowed /\ r \in Cpu
<1>1. s.task[p].allowed \subseteq Cpu /\ s.task[p].allowed # {}
  BY StateParts, TaskParts
<1>2. r \in s.task[p].allowed \/ r = MinOf(s.task[p].allowed)
  BY DEF select_task_rq, select_fallback_rq
<1>3. s.task[p].allowed \in SUBSET Nat
  BY <1>1, RtRunQueueAssumption DEF Cpu
<1>4. MinOf(s.task[p].allowed) \in s.task[p].allowed
  BY <1>1, <1>3, MinOfLeast
<1>. QED
  BY <1>1, <1>2, <1>4

(* select_task_rq and the task that becomes TASK_WAKING.                   *)
LEMMA TtwuPlaceInv ==
    ASSUME SchedInv, NEW c \in Cpu, TtwuPlace(c) PROVE SchedInv'
<1>1. /\ StateOk(S) /\ S \in StateT /\ Sane(mig, hist, events) /\ Places(pc) /\ pc \in [Cpu -> PcT]
      /\ PlaceOk(c, pc[c]) /\ S.task = task /\ S.rq = rq /\ InvOf(S, pc, mig, hist, events)
      /\ States(S, pc) /\ CurrOk(S) /\ Wakeups(S, pc)
  BY InvParts
<1>2. PICK p : p = pc[c].pi
  OBVIOUS
<1>3. PICK r : r = select_task_rq(S, p, c)
  OBVIOUS
<1>4. /\ pc[c].at = "ttwu" /\ ~task[p].on_cpu
      /\ task' = [task EXCEPT ![p].state = "waking", ![p].cpu = r]
      /\ Goto(c, [pc[c] EXCEPT !.at = "ttwu_queue"])
      /\ UNCHANGED <<rq, cpupri, rto_mask, mig, hist, events>>
  BY <1>2, <1>3 DEF TtwuPlace
<1>5. p \in Task /\ S.task[p].state = "sleep" /\ ~S.task[p].on_rq
  BY <1>1, <1>2, <1>4 DEF PlaceOk, States, TtwuOk
<1>6. r \in S.task[p].allowed /\ r \in Cpu
  BY <1>1, <1>3, <1>5, SelectOk
<1>7. S.task[p] \in TaskT
  BY <1>1, <1>5, StateParts
<1>8. [S.task[p] EXCEPT !.state = "waking", !.cpu = r] \in TaskT
  BY <1>6, <1>7 DEF TaskT
<1>9. PICK v \in TaskT : v = [S.task[p] EXCEPT !.state = "waking", !.cpu = r]
  BY <1>8
<1>10. /\ v.state = "waking" /\ v.on_rq = S.task[p].on_rq /\ v.cpu = r
       /\ v.prio = S.task[p].prio /\ v.allowed = S.task[p].allowed /\ v.on_cpu = S.task[p].on_cpu
  BY <1>7, <1>9 DEF TaskT
<1>11. PICK t : t = PutTask(S, p, v)
  OBVIOUS
<1>12. S' = t
  <2>1. task' = [task EXCEPT ![p] = v]
    BY <1>1, <1>4, <1>5, <1>9
  <2>. QED
    BY <1>4, <1>11, <2>1 DEF S, PutTask
<1>13. ~v.on_cpu
  BY <1>1, <1>4, <1>10
<1>14. StateOk(t) /\ t.rq = S.rq /\ Sets(S, t, p, v)
  <2>1. p \notin RtQueued(S)
    BY <1>5 DEF RtQueued
  <2>. QED
    BY <1>1, <1>5, <1>10, <1>11, <1>13, <2>1, SetTaskOk
<1>15. t.task[p] = v /\ SameBut(S, t, p) /\ Tame(S, t)
  BY <1>14 DEF Sets, SameBut, SameTask, Tame
<1>16. PICK m : m = [pc[c] EXCEPT !.at = "ttwu_queue"]
  OBVIOUS
<1>17. /\ m \in PcT /\ m.at = "ttwu_queue" /\ m.pi = p /\ m.rest = pc[c].rest /\ pc[c].rest = <<>>
       /\ ~PickL(pc[c]) /\ ~PrioL(pc[c]) /\ ~SwitchL(pc[c])
  BY <1>1, <1>2, <1>4, <1>16, ZenonT(30) DEF PlaceOk, PcT, Labels, PickL, PrioL, SwitchL, Pushing
<1>18. PlaceOk(c, m)
  BY <1>5, <1>17 DEF PlaceOk, Pushing
<1>19. At(pc, pc', c, m)
  BY <1>1, <1>4, <1>16, <1>17, GotoAt
<1>20. PiOk(pc, c, m, t) /\ TtwuOk(t, m) /\ Goes(pc[c], m)
  BY <1>2, <1>10, <1>15, <1>17 DEF PiOk, TtwuOk, Goes
<1>21. Accounted(S, t, pc, pc', c, p)
  <2>1. TaskStateOk(t, p)
    BY <1>5, <1>10, <1>13, <1>15 DEF TaskStateOk
  <2>2. \A d \in Cpu \ {c} : pc[d].pi # p
    BY <1>1, <1>2, <1>5, RtRunQueueAssumption DEF Places
  <2>3. \A d \in Cpu : S.rq[d].curr # p
    BY <1>1, <1>4, <1>5 DEF CurrOk
  <2>. QED
    BY <1>14, <2>1, <2>2, <2>3 DEF Accounted
<1>22. Wakeups(t, pc')
  <2>1. \A d \in Cpu : pc'[d].rest = pc[d].rest /\ t.rq[d] = S.rq[d]
    BY <1>14, <1>17, <1>19 DEF At
  <2>2. \A d \in Cpu, x \in Task : Waits(t, pc', d, x) <=> Waits(S, pc, d, x)
    BY <2>1 DEF Waits
  <2>3. \A d \in Cpu : ~Waits(S, pc, d, p)
    BY <1>1, <1>5 DEF Wakeups
  <2>4. \A d \in Cpu, x \in Task : x # p => (Queueing(pc', d, x) <=> Queueing(pc, d, x))
    BY <1>2, <1>17, <1>19 DEF At, Queueing
  <2>5. Queueing(pc', c, p)
    BY <1>17, <1>19 DEF At, Queueing
  <2>6. \A x \in Task \ {p} : t.task[x].state = S.task[x].state /\ t.task[x].cpu = S.task[x].cpu
    BY <1>15 DEF SameBut, SameTask
  <2>7. \A d \in Cpu : NoDup(t.rq[d].wake_list) /\ NoDup(pc'[d].rest)
    BY <1>1, <2>1 DEF Wakeups
  <2>11. \A d \in Cpu : t.rq[d].wake_list # <<>> => t.rq[d].ipi
    BY <1>1, <2>1 DEF Wakeups
  <2>8. ASSUME NEW d \in Cpu, NEW x \in Task, Waits(t, pc', d, x)
        PROVE  t.task[x].state = "waking" /\ t.task[x].cpu = d /\ \A e \in Cpu : ~Queueing(pc', e, x)
    <3>1. x # p /\ Waits(S, pc, d, x)
      BY <2>2, <2>3, <2>8
    <3>. QED
      BY <1>1, <2>4, <2>6, <3>1 DEF Wakeups
  <2>9. \A d \in Cpu, x \in Task : ~(x \in Members(t.rq[d].wake_list) /\ x \in Members(pc'[d].rest))
    BY <1>1, <2>1 DEF Wakeups
  <2>10. ASSUME NEW x \in Task, t.task[x].state = "waking"
         PROVE  \E d \in Cpu : Queueing(pc', d, x) \/ Waits(t, pc', d, x)
    <3>1. CASE x = p
      BY <2>5, <3>1
    <3>2. CASE x # p
      BY <1>1, <2>2, <2>4, <2>6, <2>10, <3>2 DEF Wakeups
    <3>. QED
      BY <3>1, <3>2
  <2>. QED
    BY <2>7, <2>8, <2>9, <2>10, <2>11 DEF Wakeups
<1>23. PrioKept(S, t, pc, p) /\ Arrive(S, t, pc', hist, p)
  BY <1>5, <1>10, <1>15 DEF PrioKept, Arrive, Here
<1>24. Placed(t, mig, p)
  BY <1>5, <1>6, <1>10, <1>15 DEF Placed
<1>25. t.task[p].state # "unborn"
  BY <1>10, <1>15
<1>26. InvOf(t, pc', mig, hist, events)
  BY <1>1, <1>14, <1>15, <1>17, <1>18, <1>19, <1>20, <1>21, <1>22, <1>23, <1>24, <1>25, WakeStep
<1>. QED
  BY <1>4, <1>12, <1>26 DEF SchedInv

(* The wake-up of x is where it was.                                       *)
WakeSame(s, t, P, P2, x) ==
    /\ t.task[x].state = s.task[x].state /\ t.task[x].cpu = s.task[x].cpu
    /\ \A d \in Cpu : /\ Waits(t, P2, d, x) <=> Waits(s, P, d, x)
                      /\ Queueing(P2, d, x) <=> Queueing(P, d, x)

(* The wake-up of x is under way in one place.                             *)
WakeFor(s, P, x) ==
    /\ \A c \in Cpu : Waits(s, P, c, x) =>
          /\ s.task[x].state = "waking" /\ s.task[x].cpu = c
          /\ \A d \in Cpu : ~Queueing(P, d, x)
    /\ s.task[x].state = "waking" => \E c \in Cpu : Queueing(P, c, x) \/ Waits(s, P, c, x)

WakeLists(s, P) ==
    \A c \in Cpu : /\ NoDup(s.rq[c].wake_list) /\ NoDup(P[c].rest)
                   /\ s.rq[c].wake_list # <<>> => s.rq[c].ipi
                   /\ \A x \in Task : ~(x \in Members(s.rq[c].wake_list) /\ x \in Members(P[c].rest))

(* The wake-ups are in order when that of p alone has moved.               *)
LEMMA WakeMoved ==
    ASSUME NEW s, NEW t, NEW P, NEW P2, NEW p, Wakeups(s, P), WakeLists(t, P2),
           \A x \in Task \ {p} : WakeSame(s, t, P, P2, x), p \in Task => WakeFor(t, P2, p)
    PROVE  Wakeups(t, P2)
<1>1. ASSUME NEW x \in Task PROVE WakeFor(t, P2, x)
  <2>1. CASE x = p
    BY <2>1
  <2>2. CASE x # p
    <3>1. WakeSame(s, t, P, P2, x)
      BY <2>2
    <3>2. WakeFor(s, P, x)
      BY DEF Wakeups, WakeFor
    <3>. QED
      BY <3>1, <3>2 DEF WakeSame, WakeFor
  <2>. QED
    BY <2>1, <2>2
<1>. QED
  BY <1>1 DEF WakeFor, WakeLists, Wakeups

PutWake(s, c, w, b) == [s EXCEPT !.rq[c].wake_list = w, !.rq[c].ipi = b]

NewWakes(s, t, c, w, b) ==
    /\ StateOk(t) /\ t.task = s.task /\ t.rq[c].wake_list = w /\ t.rq[c].ipi = b
    /\ \A d \in Cpu : /\ t.rq[d].curr = s.rq[d].curr /\ t.rq[d].need_resched = s.rq[d].need_resched
                      /\ t.rq[d].rt_throttled = s.rq[d].rt_throttled
                      /\ d # c => t.rq[d].wake_list = s.rq[d].wake_list /\ t.rq[d].ipi = s.rq[d].ipi

(* A new wake list for CPU c, with or without an interrupt on its way.     *)
LEMMA WakeListSet ==
    ASSUME NEW s, StateOk(s), NEW c \in Cpu, NEW w \in Seq(Task), NEW b \in BOOLEAN,
           NEW t, t = PutWake(s, c, w, b)
    PROVE  NewWakes(s, t, c, w, b)
<1>1. s.rq[c] \in RqT
  BY StateQueues, StateParts
<1>2. [s.rq[c] EXCEPT !.wake_list = w, !.ipi = b] \in RqT
  BY <1>1 DEF RqT
<1>3. PICK v \in RqT : v = [s.rq[c] EXCEPT !.wake_list = w, !.ipi = b]
  BY <1>2
<1>4. /\ SameCaches(s.rq[c], v) /\ v.curr = s.rq[c].curr /\ v.need_resched = s.rq[c].need_resched
      /\ v.rt_throttled = s.rq[c].rt_throttled /\ v.wake_list = w /\ v.ipi = b
  BY <1>1, <1>3 DEF RqT, SameCaches
<1>5. t = PutRq(s, c, v)
  <2>1. s \in StateT
    BY StateQueues
  <2>. QED
    BY <1>3, <2>1 DEF PutRq, PutWake, StateT
<1>6. StateOk(t) /\ t.task = s.task /\ t.rq[c] = v /\ \A d \in Cpu \ {c} : t.rq[d] = s.rq[d]
  BY <1>4, <1>5, SetRqOk
<1>. QED
  BY <1>4, <1>6 DEF NewWakes

(* Taking the wake list leaves every wake-up on its CPU.                   *)
LEMMA SchedulerIpiInv ==
    ASSUME SchedInv, NEW c \in Cpu, SchedulerIpi(c) PROVE SchedInv'
<1>1. /\ StateOk(S) /\ S \in StateT /\ Sane(mig, hist, events) /\ Places(pc) /\ pc \in [Cpu -> PcT]
      /\ S.task = task /\ S.rq = rq /\ InvOf(S, pc, mig, hist, events) /\ Wakeups(S, pc)
  BY InvParts
<1>2. PICK w : w = rq[c].wake_list
  OBVIOUS
<1>3. w \in Seq(Task) /\ NoDup(w) /\ w = S.rq[c].wake_list
  BY <1>1, <1>2, StateParts, RqParts DEF Wakeups
<1>4. /\ pc[c].at = "run" /\ Become([S EXCEPT !.rq[c].wake_list = <<>>, !.rq[c].ipi = FALSE])
      /\ Goto(c, Return([Run EXCEPT !.rq = c, !.rest = w]))
      /\ mig' = mig /\ hist' = hist /\ events' = events
  BY <1>2 DEF SchedulerIpi
<1>5. /\ Run \in PcT /\ Run.rest = <<>> /\ Run.pi = NoTask /\ pc[c] = Run
      /\ ~PickL(Run) /\ ~PrioL(Run) /\ ~SwitchL(Run)
  BY <1>1, <1>4, RunOk, AtRun, ZenonT(30)
<1>6. PICK e \in Seq(Task), b \in BOOLEAN : e = <<>> /\ b = FALSE
  <2>1. <<>> \in Seq(Task)
    OBVIOUS
  <2>. QED
    BY <2>1
<1>7. PICK t : t = PutWake(S, c, e, b)
  OBVIOUS
<1>8. /\ StateOk(t) /\ t.task = S.task /\ t.rq[c].wake_list = e
      /\ \A d \in Cpu : /\ t.rq[d].curr = S.rq[d].curr /\ t.rq[d].need_resched = S.rq[d].need_resched
                        /\ t.rq[d].rt_throttled = S.rq[d].rt_throttled
                        /\ d # c => t.rq[d].wake_list = S.rq[d].wake_list /\ t.rq[d].ipi = S.rq[d].ipi
  BY <1>1, <1>7, WakeListSet DEF NewWakes
<1>9. S' = t
  BY <1>4, <1>6, <1>7, <1>8, BecomeIs, StateQueues DEF PutWake
<1>10. PICK k : k = [Run EXCEPT !.rq = c, !.rest = w]
  OBVIOUS
<1>11. PICK m : m = Return(k)
  OBVIOUS
<1>12. m \in PcT /\ PlaceOk(c, m) /\ m.pi = NoTask /\ m.rest = w /\ m.at \in {"run", "pending"}
  <2>1. k \in PcT /\ k.rq = c /\ k.rest = w
    BY <1>3, <1>5, <1>10, ZenonT(60) DEF PcT
  <2>2. PlaceOk(c, m) /\ m.pi = NoTask /\ m.rest = k.rest /\ m.at \in {"run", "pending"}
    BY <1>11, <2>1, ReturnOk
  <2>. QED
    BY <2>1, <2>2 DEF PlaceOk
<1>13. At(pc, pc', c, m)
  BY <1>1, <1>4, <1>10, <1>11, <1>12, GotoAt
<1>14. PICK q : q = NoTask
  OBVIOUS
<1>15. q \notin Task
  BY <1>14, RtRunQueueAssumption
<1>16. PiOk(pc, c, m, t) /\ TtwuOk(t, m) /\ Goes(pc[c], m) /\ ~PickL(pc[c])
  BY <1>5, <1>12 DEF PiOk, TtwuOk, Goes
<1>17. Tame(S, t) /\ SameBut(S, t, q) /\ PrioKept(S, t, pc, q) /\ Arrive(S, t, pc', hist, q)
  BY <1>8, <1>15 DEF Tame, SameBut, SameTask, PrioKept, Arrive
<1>18. Accounted(S, t, pc, pc', c, q)
  <2>1. \A d \in Cpu : pc[d].at \in {"ttwu", "ttwu_queue"} => pc[d].pi # q
    BY <1>1, <1>15 DEF Places, PlaceOk
  <2>. QED
    BY <1>8, <1>15, <2>1 DEF Accounted
<1>19. Members(e) = {}
  BY <1>6 DEF Members
<1>20. Wakeups(t, pc')
  <2>1. \A d \in Cpu \ {c} : pc'[d] = pc[d]
    BY <1>13 DEF At
  <2>2. pc'[c].rest = w /\ pc'[c].at # "ttwu_queue"
    BY <1>12, <1>13 DEF At
  <2>3. ASSUME NEW x \in Task PROVE WakeSame(S, t, pc, pc', x)
    <3>1. Members(pc[c].rest) = {}
      BY <1>5, <1>6, <1>19
    <3>2. Waits(t, pc', c, x) <=> Waits(S, pc, c, x)
      BY <1>3, <1>8, <1>19, <2>2, <3>1 DEF Waits
    <3>3. \A d \in Cpu \ {c} : Waits(t, pc', d, x) <=> Waits(S, pc, d, x)
      BY <1>8, <2>1 DEF Waits
    <3>4. \A d \in Cpu : Queueing(pc', d, x) <=> Queueing(pc, d, x)
      BY <1>4, <2>1, <2>2 DEF Queueing
    <3>. QED
      BY <1>8, <3>2, <3>3, <3>4 DEF WakeSame
  <2>4. WakeLists(t, pc')
    <3>1. NoDup(e)
      BY <1>6 DEF NoDup
    <3>. QED
      BY <1>1, <1>3, <1>6, <1>8, <1>19, <2>1, <2>2, <3>1 DEF Wakeups, WakeLists
  <2>. QED
    BY <1>1, <1>15, <2>3, <2>4, WakeMoved
<1>21. InvOf(t, pc', mig, hist, events)
  BY <1>1, <1>8, <1>12, <1>13, <1>15, <1>16, <1>17, <1>18, <1>20, WakeStep
<1>. QED
  BY <1>4, <1>9, <1>21 DEF SchedInv

(* ttwu_do_activate of the task p on CPU r.                                *)
Activated(s, r, p) == [activate_task(s, r, p, FALSE) EXCEPT !.task[p].on_rq = TRUE]

Started(s, t, r, p) ==
    /\ StateOk(t) /\ Calm(s, t) /\ SameBut(s, t, p) /\ t.task[p].state = "running" /\ t.task[p].on_rq
    /\ t.task[p].prio = s.task[p].prio /\ t.task[p].cpu = s.task[p].cpu
    /\ t.task[p].allowed = s.task[p].allowed /\ t.task[p].on_cpu = s.task[p].on_cpu
    /\ t.rq[r].need_resched \/ Behind(t, r, p)

(* ttwu_activate: the task is queued.                                      *)
LEMMA ActivatedOk ==
    ASSUME NEW s, StateOk(s), NEW p \in Task, ~s.task[p].on_rq, NEW r, s.task[p].cpu = r,
           NEW t, t = Activated(s, r, p)
    PROVE  /\ StateOk(t) /\ Calm(s, t) /\ SameBut(s, t, p) /\ t.task[p].on_rq
           /\ t.task[p].prio = s.task[p].prio /\ t.task[p].cpu = s.task[p].cpu
           /\ t.task[p].allowed = s.task[p].allowed /\ t.task[p].on_cpu = s.task[p].on_cpu
<1>1. t = [activate_task(s, r, p, FALSE) EXCEPT !.task[p].on_rq = TRUE]
  BY DEF Activated
<1>2. StateOk(t) /\ KeepRq(s, t) /\ Sets(s, t, p, [s.task[p] EXCEPT !.on_rq = TRUE])
  BY <1>1, ActivateOk
<1>3. s.task[p] \in TaskT
  BY StateQueues, StateParts
<1>4. /\ t.task[p] = [s.task[p] EXCEPT !.on_rq = TRUE] /\ SameBut(s, t, p)
  BY <1>2 DEF Sets, SameBut, SameTask
<1>5. /\ t.task[p].on_rq /\ t.task[p].prio = s.task[p].prio /\ t.task[p].cpu = s.task[p].cpu
      /\ t.task[p].allowed = s.task[p].allowed /\ t.task[p].on_cpu = s.task[p].on_cpu
  BY <1>3, <1>4 DEF TaskT
<1>. QED
  BY <1>2, <1>4, <1>5, KeepCalm

(* ttwu_do_activate: the task is queued, compared with what runs, and      *)
(* running.                                                                *)
LEMMA StartOk ==
    ASSUME pc \in [Cpu -> PcT], NEW c \in Cpu, NEW s, StateOk(s), NEW p \in Task, NEW r \in Cpu,
           s.task[p].cpu = r, ~s.task[p].on_rq, NEW l \in PcT, l.rest # <<>> => r = c,
           Wakeup(c, Activated(s, r, p), r, p, l)
    PROVE  \E t, m : S' = t /\ Started(s, t, r, p) /\ At(pc, pc', c, m) /\ After(c, l, m)
<1>1. PICK a : a = Activated(s, r, p)
  OBVIOUS
<1>2. /\ StateOk(a) /\ Calm(s, a) /\ SameBut(s, a, p) /\ a.task[p].on_rq
      /\ a.task[p].prio = s.task[p].prio /\ a.task[p].cpu = s.task[p].cpu
      /\ a.task[p].allowed = s.task[p].allowed /\ a.task[p].on_cpu = s.task[p].on_cpu
  BY <1>1, ActivatedOk
<1>3. Wakeup(c, a, r, p, l)
  BY <1>1
<1>4. PICK t, m : S' = t /\ Woken(a, t, r, p) /\ At(pc, pc', c, m) /\ After(c, l, m)
  BY <1>2, <1>3, WakeupOk
<1>5. /\ StateOk(t) /\ Calm(a, t) /\ SameBut(a, t, p) /\ t.task[p].state = "running"
      /\ t.task[p].on_rq = a.task[p].on_rq /\ t.task[p].prio = a.task[p].prio
      /\ t.task[p].cpu = a.task[p].cpu /\ t.task[p].allowed = a.task[p].allowed
      /\ t.task[p].on_cpu = a.task[p].on_cpu /\ (t.rq[r].need_resched \/ Behind(t, r, p))
  BY <1>4 DEF Woken
<1>6. Calm(s, t)
  BY <1>2, <1>5, CalmTrans
<1>7. SameBut(s, t, p)
  BY <1>2, <1>5 DEF SameBut, SameTask
<1>8. Started(s, t, r, p)
  BY <1>2, <1>5, <1>6, <1>7 DEF Started
<1>. QED
  BY <1>4, <1>8

(* A waking task starts on its CPU.                                        *)
LEMMA StartInv ==
    ASSUME SchedInv, NEW c \in Cpu, NEW p \in Task, S.task[p].state = "waking", S.task[p].cpu = c,
           NEW t, NEW m, NEW l, S' = t, Started(S, t, c, p), At(pc, pc', c, m), After(c, l, m),
           l.pi = pc[c].pi, ~PickL(pc[c]), ~PrioL(pc[c]), ~SwitchL(pc[c]),
           \A d \in Cpu \ {c} : pc[d].at \in {"ttwu", "ttwu_queue"} => pc[d].pi # p,
           Wakeups(t, pc'), mig' = mig, hist' = hist, events' = events
    PROVE  SchedInv'
<1>1. /\ InvOf(S, pc, mig, hist, events) /\ States(S, pc) /\ Affinity(S, mig, hist)
      /\ Sane(mig, hist, events) /\ CurrOk(S)
  BY InvParts
<1>2. ~S.task[p].on_rq /\ ~S.task[p].on_cpu
  BY <1>1 DEF States, TaskStateOk
<1>3. /\ StateOk(t) /\ Calm(S, t) /\ SameBut(S, t, p) /\ t.task[p].state = "running" /\ t.task[p].on_rq
      /\ t.task[p].prio = S.task[p].prio /\ t.task[p].cpu = c
      /\ t.task[p].allowed = S.task[p].allowed /\ t.task[p].on_cpu = S.task[p].on_cpu
      /\ t.rq[c].need_resched \/ Behind(t, c, p)
  BY DEF Started
<1>4. /\ PlaceOk(c, m) /\ (m.pi = NoTask \/ m.pi = pc[c].pi) /\ m.at \in {"run", "pending", "push"}
  BY DEF After
<1>5. PiOk(pc, c, m, t) /\ TtwuOk(t, m) /\ Goes(pc[c], m)
  BY <1>4 DEF PiOk, TtwuOk, Goes
<1>6. Tame(S, t)
  BY <1>3 DEF Calm, Tame
<1>7. Accounted(S, t, pc, pc', c, p)
  <2>1. TaskStateOk(t, p)
    BY <1>3 DEF TaskStateOk
  <2>. QED
    BY <1>3, <1>6, <2>1 DEF Accounted, Tame
<1>8. PrioKept(S, t, pc, p)
  BY <1>3 DEF PrioKept
<1>9. Arrive(S, t, pc', hist, p)
  BY <1>3 DEF Arrive, Here, Excused
<1>10. p \notin hist.waking => Placed(t, mig, p)
  BY <1>1, <1>3 DEF Affinity, Placed
<1>11. t.task[p].state # "unborn"
  BY <1>3
<1>12. InvOf(t, pc', mig, hist, events)
  BY <1>1, <1>3, <1>4, <1>5, <1>6, <1>7, <1>8, <1>9, <1>10, <1>11, WakeStep
<1>. QED
  BY <1>12 DEF SchedInv

(* ttwu_queue on the CPU of the task.                                      *)
LEMMA TtwuQueueLocal ==
    ASSUME SchedInv, NEW c \in Cpu, NEW p, p = pc[c].pi, pc[c].at = "ttwu_queue", task[p].cpu = c,
           Activate(c, S, c, p, pc[c]), mig' = mig, hist' = hist, events' = events
    PROVE  SchedInv'
<1>1. /\ StateOk(S) /\ S \in StateT /\ Places(pc) /\ pc \in [Cpu -> PcT] /\ PlaceOk(c, pc[c])
      /\ S.task = task /\ States(S, pc) /\ Wakeups(S, pc)
  BY InvParts
<1>2. p \in Task /\ S.task[p].state = "waking" /\ S.task[p].cpu = c /\ pc[c].rest = <<>>
  BY <1>1 DEF PlaceOk, States, TtwuOk, Pushing
<1>3. ~S.task[p].on_rq
  BY <1>1, <1>2 DEF States, TaskStateOk
<1>4. PICK l \in PcT : l = pc[c]
  BY <1>1
<1>5. Wakeup(c, Activated(S, c, p), c, p, l)
  BY <1>4 DEF Activate, Activated
<1>6. l.rest # <<>> => c = c
  OBVIOUS
<1>7. PICK t, m : S' = t /\ Started(S, t, c, p) /\ At(pc, pc', c, m) /\ After(c, l, m)
  BY <1>1, <1>2, <1>3, <1>5, <1>6, StartOk
<1>8. \A d \in Cpu \ {c} : pc[d].pi # p
  BY <1>1, <1>2, RtRunQueueAssumption DEF Places
<1>9. Wakeups(t, pc')
  <2>1. /\ pc'[c].rest = pc[c].rest /\ pc'[c].at # "ttwu_queue" /\ \A d \in Cpu \ {c} : pc'[d] = pc[d]
    BY <1>4, <1>7 DEF At, After
  <2>2. \A d \in Cpu : t.rq[d].wake_list = S.rq[d].wake_list /\ t.rq[d].ipi = S.rq[d].ipi /\ pc'[d].rest = pc[d].rest
    BY <1>7, <2>1 DEF Started, Calm
  <2>3. ASSUME NEW x \in Task \ {p} PROVE WakeSame(S, t, pc, pc', x)
    <3>1. \A d \in Cpu : Queueing(pc', d, x) <=> Queueing(pc, d, x)
      BY <2>1, <2>3 DEF Queueing
    <3>2. t.task[x].state = S.task[x].state /\ t.task[x].cpu = S.task[x].cpu
      BY <1>7 DEF Started, SameBut, SameTask
    <3>. QED
      BY <2>2, <3>1, <3>2 DEF WakeSame, Waits
  <2>4. WakeFor(t, pc', p)
    <3>1. Queueing(pc, c, p)
      BY DEF Queueing
    <3>2. \A d \in Cpu : ~Waits(S, pc, d, p)
      BY <1>1, <1>2, <3>1 DEF Wakeups
    <3>3. \A d \in Cpu : ~Waits(t, pc', d, p)
      BY <2>2, <3>2 DEF Waits
    <3>4. t.task[p].state # "waking"
      BY <1>7 DEF Started
    <3>. QED
      BY <3>3, <3>4 DEF WakeFor
  <2>5. WakeLists(t, pc')
    BY <1>1, <2>2 DEF Wakeups, WakeLists
  <2>. QED
    BY <1>1, <2>3, <2>4, <2>5, WakeMoved
<1>10. ~PickL(pc[c]) /\ ~PrioL(pc[c]) /\ ~SwitchL(pc[c])
  BY DEF PickL, PrioL, SwitchL, Pushing
<1>11. l.pi = pc[c].pi
  BY <1>4
<1>. QED
  BY <1>2, <1>7, <1>8, <1>9, <1>10, <1>11, StartInv

(* ttwu_queue_remote: the wake-up of p is first on the list of CPU r.      *)
PutFirst(s, r, p) ==
    [s EXCEPT !.rq[r].wake_list = <<p>> \o @, !.rq[r].ipi = @ \/ SendsIpi(s, r)]

(* ttwu_queue_remote: the task goes to the wake list of another CPU.       *)
LEMMA TtwuQueueRemote ==
    ASSUME SchedInv, NEW c \in Cpu, NEW p, p = pc[c].pi, pc[c].at = "ttwu_queue",
           NEW r, r = task[p].cpu, r # c,
           Become(PutFirst(S, r, p)), Goto(c, Run),
           mig' = mig, hist' = hist, events' = events
    PROVE  SchedInv'
<1>1. /\ StateOk(S) /\ S \in StateT /\ Places(pc) /\ pc \in [Cpu -> PcT] /\ PlaceOk(c, pc[c])
      /\ S.task = task /\ S.rq = rq /\ States(S, pc) /\ Wakeups(S, pc) /\ Sane(mig, hist, events)
      /\ InvOf(S, pc, mig, hist, events)
  BY InvParts
<1>2. p \in Task /\ S.task[p].state = "waking" /\ S.task[p].cpu = r /\ pc[c].rest = <<>>
  BY <1>1 DEF PlaceOk, States, TtwuOk, Pushing
<1>3. r \in Cpu
  BY <1>1, <1>2, StateParts, TaskParts
<1>4. Queueing(pc, c, p) /\ \A d \in Cpu \ {c} : ~Queueing(pc, d, p)
  BY <1>1, <1>2, RtRunQueueAssumption DEF Queueing, Places
<1>5. \A d \in Cpu : ~Waits(S, pc, d, p)
  BY <1>1, <1>2, <1>4 DEF Wakeups
<1>6. PICK w \in Seq(Task) : w = S.rq[r].wake_list
  BY <1>1, <1>3, StateParts, RqParts
<1>7. NoDup(w) /\ p \notin Members(w)
  BY <1>1, <1>3, <1>5, <1>6 DEF Wakeups, Waits
<1>8. <<p>> \o w \in Seq(Task) /\ NoDup(<<p>> \o w) /\ Members(<<p>> \o w) = Members(w) \cup {p}
  BY <1>2, <1>7, PrependList
<1>9. PICK v \in Seq(Task) : v = <<p>> \o w
  BY <1>8
<1>0. PICK b \in BOOLEAN : b = (S.rq[r].ipi \/ SendsIpi(S, r))
  OBVIOUS
<1>24. b = TRUE
  BY <1>0, <1>1, <1>3 DEF Wakeups, SendsIpi
<1>10. PICK t : t = PutWake(S, r, v, b)
  OBVIOUS
<1>11. /\ StateOk(t) /\ t.task = S.task /\ t.rq[r].wake_list = v /\ t.rq[r].ipi = b
       /\ \A d \in Cpu : /\ t.rq[d].curr = S.rq[d].curr /\ t.rq[d].need_resched = S.rq[d].need_resched
                         /\ t.rq[d].rt_throttled = S.rq[d].rt_throttled
                         /\ d # r => t.rq[d].wake_list = S.rq[d].wake_list /\ t.rq[d].ipi = S.rq[d].ipi
  <2>1. NewWakes(S, t, r, v, b)
    BY <1>1, <1>3, <1>10, WakeListSet
  <2>. QED
    BY <2>1 DEF NewWakes
<1>12. S' = t
  <2>2. Become(t)
    BY <1>0, <1>6, <1>9, <1>10, ZenonT(30) DEF PutFirst, PutWake
  <2>. QED
    BY <1>11, <2>2, BecomeIs, StateQueues
<1>13. /\ Run \in PcT /\ PlaceOk(c, Run) /\ Run.rest = <<>> /\ Run.pi = NoTask /\ Run.at = "run"
  BY RunOk, ZenonT(30)
<1>14. PICK m : m = Run
  OBVIOUS
<1>15. m \in PcT /\ PlaceOk(c, m) /\ m.rest = <<>> /\ m.pi = NoTask /\ m.at = "run"
  BY <1>13, <1>14
<1>16. At(pc, pc', c, m)
  BY <1>1, <1>14, <1>15, GotoAt
<1>17. PICK q : q = NoTask
  OBVIOUS
<1>18. q \notin Task
  BY <1>17, RtRunQueueAssumption
<1>19. PiOk(pc, c, m, t) /\ TtwuOk(t, m) /\ Goes(pc[c], m) /\ ~PickL(pc[c])
  BY <1>15 DEF PiOk, TtwuOk, Goes, PickL, PrioL, SwitchL, Pushing
<1>20. Tame(S, t) /\ SameBut(S, t, q) /\ PrioKept(S, t, pc, q) /\ Arrive(S, t, pc', hist, q)
  BY <1>11, <1>18 DEF Tame, SameBut, SameTask, PrioKept, Arrive
<1>21. Accounted(S, t, pc, pc', c, q)
  <2>1. \A d \in Cpu : pc[d].at \in {"ttwu", "ttwu_queue"} => pc[d].pi # q
    BY <1>1, <1>18 DEF Places, PlaceOk
  <2>. QED
    BY <1>11, <1>18, <2>1 DEF Accounted
<1>22. Wakeups(t, pc')
  <2>1. \A d \in Cpu : pc'[d].rest = pc[d].rest
    BY <1>2, <1>15, <1>16 DEF At
  <2>2. pc'[c].at # "ttwu_queue" /\ \A d \in Cpu \ {c} : pc'[d] = pc[d]
    BY <1>15, <1>16 DEF At
  <2>3. \A d \in Cpu \ {r} : Members(t.rq[d].wake_list) = Members(S.rq[d].wake_list)
    BY <1>11
  <2>4. Members(t.rq[r].wake_list) = Members(S.rq[r].wake_list) \cup {p}
    BY <1>6, <1>8, <1>9, <1>11, ZenonT(30)
  <2>5. ASSUME NEW x \in Task \ {p} PROVE WakeSame(S, t, pc, pc', x)
    <3>1. \A d \in Cpu : Queueing(pc', d, x) <=> Queueing(pc, d, x)
      BY <2>2, <2>5 DEF Queueing
    <3>2. \A d \in Cpu : Waits(t, pc', d, x) <=> Waits(S, pc, d, x)
      BY <2>1, <2>3, <2>4, <2>5 DEF Waits
    <3>. QED
      BY <1>11, <3>1, <3>2 DEF WakeSame
  <2>6. WakeFor(t, pc', p)
    <3>1. \A d \in Cpu : ~Queueing(pc', d, p)
      BY <1>4, <2>2 DEF Queueing
    <3>2. Waits(t, pc', r, p)
      BY <2>4 DEF Waits
    <3>3. \A d \in Cpu \ {r} : ~Waits(t, pc', d, p)
      BY <1>5, <2>1, <2>3 DEF Waits
    <3>4. t.task[p].state = "waking" /\ t.task[p].cpu = r
      BY <1>2, <1>11
    <3>. QED
      BY <1>3, <3>1, <3>2, <3>3, <3>4 DEF WakeFor
  <2>7. WakeLists(t, pc')
    <3>1. \A x \in Task : ~(x \in Members(t.rq[r].wake_list) /\ x \in Members(pc'[r].rest))
      BY <1>1, <1>3, <1>5, <2>1, <2>4 DEF Wakeups, Waits
    <3>2. NoDup(t.rq[r].wake_list)
      BY <1>8, <1>9, <1>11, ZenonT(30)
    <3>. QED
      BY <1>1, <1>11, <1>24, <2>1, <3>1, <3>2 DEF Wakeups, WakeLists
  <2>. QED
    BY <1>1, <1>2, <2>5, <2>6, <2>7, WakeMoved
<1>23. InvOf(t, pc', mig, hist, events)
  BY <1>1, <1>11, <1>15, <1>16, <1>18, <1>19, <1>20, <1>21, <1>22, WakeStep
<1>. QED
  BY <1>12, <1>23 DEF SchedInv

(* ttwu_queue.                                                             *)
LEMMA TtwuQueueInv ==
    ASSUME SchedInv, NEW c \in Cpu, TtwuQueue(c) PROVE SchedInv'
<1>1. PICK p : p = pc[c].pi
  OBVIOUS
<1>2. PICK r : r = task[p].cpu
  OBVIOUS
<1>3. /\ pc[c].at = "ttwu_queue" /\ mig' = mig /\ hist' = hist /\ events' = events
      /\ \/ r = c /\ Activate(c, S, c, p, pc[c])
         \/ r # c /\ Become(PutFirst(S, r, p)) /\ Goto(c, Run)
  BY <1>1, <1>2, ZenonT(30) DEF TtwuQueue, PutFirst
<1>4. CASE r = c /\ Activate(c, S, c, p, pc[c])
  BY <1>1, <1>2, <1>3, <1>4, TtwuQueueLocal
<1>5. CASE r # c /\ Become(PutFirst(S, r, p)) /\ Goto(c, Run)
  BY <1>1, <1>2, <1>3, <1>5, TtwuQueueRemote
<1>. QED
  BY <1>3, <1>4, <1>5

(* The rest of a list without repetition.                                  *)
LEMMA TailList ==
    ASSUME NEW q \in Seq(Task), NoDup(q), q # <<>>
    PROVE  /\ Head(q) \in Task /\ Head(q) \in Members(q)
           /\ Tail(q) \in Seq(Task) /\ NoDup(Tail(q)) /\ Members(Tail(q)) = Members(q) \ {Head(q)}
<1>1. /\ Len(q) \in Nat /\ Len(q) >= 1 /\ DOMAIN q = 1 .. Len(q) /\ Head(q) = q[1]
  OBVIOUS
<1>2. PICK w : w = Tail(q)
  OBVIOUS
<1>3. /\ w \in Seq(Task) /\ DOMAIN w = 1 .. Len(q) - 1 /\ \A i \in DOMAIN w : w[i] = q[i + 1] /\ i + 1 \in DOMAIN q
  BY <1>1, <1>2
<1>4. 1 \in DOMAIN q /\ \A i \in DOMAIN q : i # 1 => i - 1 \in DOMAIN w /\ w[i - 1] = q[i]
  BY <1>1, <1>3
<1>5. NoDup(w)
  <2>1. ASSUME NEW i \in DOMAIN w, NEW j \in DOMAIN w, w[i] = w[j] PROVE i = j
    <3>1. i + 1 = j + 1
      BY <1>3, <2>1 DEF NoDup
    <3>. QED
      BY <1>1, <1>3, <3>1
  <2>. QED
    BY <2>1 DEF NoDup
<1>6. \A x : x \in Members(w) => x \in Members(q) /\ x # q[1]
  <2>1. ASSUME NEW i \in DOMAIN w PROVE w[i] \in Members(q) /\ w[i] # q[1]
    <3>1. i + 1 # 1 /\ i + 1 \in DOMAIN q /\ w[i] = q[i + 1]
      BY <1>1, <1>3
    <3>. QED
      BY <1>4, <3>1 DEF NoDup, Members
  <2>. QED
    BY <2>1 DEF Members
<1>7. \A x : x \in Members(q) /\ x # q[1] => x \in Members(w)
  BY <1>4 DEF Members
<1>8. q[1] \in Members(q) /\ q[1] \in Task
  BY <1>1, <1>4 DEF Members
<1>9. Members(w) = Members(q) \ {q[1]}
  BY <1>6, <1>7
<1>. QED
  BY <1>1, <1>2, <1>3, <1>5, <1>8, <1>9

(* sched_ttwu_do_pending, one task of its list.                            *)
LEMMA TtwuPendingInv ==
    ASSUME SchedInv, NEW c \in Cpu, TtwuPending(c) PROVE SchedInv'
<1>1. /\ StateOk(S) /\ S \in StateT /\ Places(pc) /\ pc \in [Cpu -> PcT] /\ PlaceOk(c, pc[c])
      /\ S.task = task /\ States(S, pc) /\ Wakeups(S, pc)
  BY InvParts
<1>2. PICK q : q = pc[c].rest
  OBVIOUS
<1>3. PICK p : p = Head(q)
  OBVIOUS
<1>4. PICK l : l = [pc[c] EXCEPT !.rest = Tail(q)]
  OBVIOUS
<1>5. /\ pc[c].at = "pending" /\ Activate(c, S, c, p, l)
      /\ mig' = mig /\ hist' = hist /\ events' = events
  BY <1>2, <1>3, <1>4 DEF TtwuPending
<1>6. q \in Seq(Task) /\ q # <<>> /\ NoDup(q)
  BY <1>1, <1>2, <1>5, ZenonT(30) DEF PlaceOk, PcT, Wakeups
<1>7. PICK w : w = Tail(q)
  OBVIOUS
<1>8. /\ p \in Task /\ p \in Members(q) /\ w \in Seq(Task) /\ NoDup(w) /\ Members(w) = Members(q) \ {p}
  BY <1>3, <1>6, <1>7, TailList
<1>9. l \in PcT /\ l.rest = w /\ l.pi = pc[c].pi /\ l.at = "pending"
  <2>1. pc[c] \in PcT /\ l = [pc[c] EXCEPT !.rest = w]
    BY <1>1, <1>4, <1>7
  <2>. QED
    BY <1>5, <1>8, <2>1, ZenonT(30) DEF PcT
<1>10. /\ S.task[p].state = "waking" /\ S.task[p].cpu = c /\ \A d \in Cpu : ~Queueing(pc, d, p)
  <2>1. Waits(S, pc, c, p)
    BY <1>2, <1>8 DEF Waits
  <2>. QED
    BY <1>1, <1>8, <2>1 DEF Wakeups
<1>11. ~S.task[p].on_rq
  BY <1>1, <1>8, <1>10 DEF States, TaskStateOk
<1>12. Wakeup(c, Activated(S, c, p), c, p, l)
  BY <1>5 DEF Activate, Activated
<1>13. l.rest # <<>> => c = c
  OBVIOUS
<1>14. PICK t, m : S' = t /\ Started(S, t, c, p) /\ At(pc, pc', c, m) /\ After(c, l, m)
  BY <1>1, <1>8, <1>9, <1>10, <1>11, <1>12, <1>13, StartOk
<1>15. \A d \in Cpu \ {c} : pc[d].at \in {"ttwu", "ttwu_queue"} => pc[d].pi # p
  BY <1>1, <1>10 DEF States, TtwuOk, Queueing
<1>16. Wakeups(t, pc')
  <2>1. pc'[c].rest = w /\ pc'[c].at # "ttwu_queue" /\ \A d \in Cpu \ {c} : pc'[d] = pc[d]
    BY <1>9, <1>14 DEF At, After
  <2>2. \A d \in Cpu : t.rq[d].wake_list = S.rq[d].wake_list /\ t.rq[d].ipi = S.rq[d].ipi
    BY <1>14 DEF Started, Calm
  <2>3. ASSUME NEW x \in Task \ {p} PROVE WakeSame(S, t, pc, pc', x)
    <3>1. \A d \in Cpu : Queueing(pc', d, x) <=> Queueing(pc, d, x)
      BY <1>5, <2>1 DEF Queueing
    <3>2. t.task[x].state = S.task[x].state /\ t.task[x].cpu = S.task[x].cpu
      BY <1>14 DEF Started, SameBut, SameTask
    <3>3. x \in Members(w) <=> x \in Members(q)
      BY <1>8, <2>3
    <3>4. \A d \in Cpu : Waits(t, pc', d, x) <=> Waits(S, pc, d, x)
      BY <1>2, <2>1, <2>2, <3>3 DEF Waits
    <3>. QED
      BY <3>1, <3>2, <3>4 DEF WakeSame
  <2>4. WakeFor(t, pc', p)
    <3>1. \A d \in Cpu \ {c} : ~Waits(S, pc, d, p)
      BY <1>1, <1>8, <1>10 DEF Wakeups
    <3>2. p \notin Members(S.rq[c].wake_list)
      BY <1>1, <1>2, <1>8 DEF Wakeups
    <3>3. \A d \in Cpu : ~Waits(t, pc', d, p)
      BY <1>8, <2>1, <2>2, <3>1, <3>2 DEF Waits
    <3>4. t.task[p].state # "waking"
      BY <1>14 DEF Started
    <3>. QED
      BY <3>3, <3>4 DEF WakeFor
  <2>5. WakeLists(t, pc')
    BY <1>1, <1>2, <1>8, <2>1, <2>2 DEF Wakeups, WakeLists
  <2>. QED
    BY <1>1, <1>8, <2>3, <2>4, <2>5, WakeMoved
<1>17. ~PickL(pc[c]) /\ ~PrioL(pc[c]) /\ ~SwitchL(pc[c])
  BY <1>5 DEF PickL, PrioL, SwitchL, Pushing
<1>18. l.pi = pc[c].pi
  BY <1>9
<1>. QED
  BY <1>5, <1>8, <1>10, <1>14, <1>15, <1>16, <1>17, <1>18, StartInv

(* The child of a task, on CPU r.                                          *)
Child(parent, child, r) == [sched_fork(parent, child) EXCEPT !.cpu = r]

IsChild(f, k, r, v) ==
    /\ v \in TaskT /\ v.cpu = r /\ v.on_rq = k.on_rq /\ v.on_cpu = k.on_cpu
    /\ v.allowed = f.allowed /\ v.state = "running"

(* sched_fork: what a child takes from its parent.                         *)
LEMMA ChildOk ==
    ASSUME NEW f \in TaskT, NEW k \in TaskT, NEW r \in Cpu, NEW v, v = Child(f, k, r)
    PROVE  IsChild(f, k, r, v)
<1>1. PICK n \in 0 .. MAX_RT_PRIO : n = IF f.reset_on_fork /\ f.policy # "NORMAL" THEN MAX_RT_PRIO ELSE f.normal_prio
  BY RtRunQueueAssumption DEF TaskT
<1>2. PICK y \in Policy : y = IF f.reset_on_fork /\ f.policy # "NORMAL" THEN "NORMAL" ELSE f.policy
  BY DEF TaskT, Policy
<1>3. PICK a : a = [k EXCEPT !.policy = y, !.normal_prio = n, !.prio = f.normal_prio,
                             !.reset_on_fork = FALSE, !.allowed = f.allowed, !.state = "running"]
  OBVIOUS
<1>4. /\ a \in TaskT /\ a.on_rq = k.on_rq /\ a.on_cpu = k.on_cpu /\ a.allowed = f.allowed
      /\ a.state = "running"
  BY <1>3 DEF TaskT
<1>5. sched_fork(f, k) = a
  BY <1>1, <1>2, <1>3 DEF sched_fork
<1>6. v = [a EXCEPT !.cpu = r]
  BY <1>5 DEF Child
<1>. QED
  BY <1>4, <1>6 DEF TaskT, IsChild

(* sched_fork and wake_up_new_task.                                        *)
LEMMA ForkInv ==
    ASSUME SchedInv, NEW c \in Cpu, NEW p \in Task, Fork(c, p) PROVE SchedInv'
<1>1. /\ StateOk(S) /\ S \in StateT /\ Places(pc) /\ pc \in [Cpu -> PcT] /\ Unborn(S, pc)
      /\ S.task = task /\ S.rq = rq /\ States(S, pc) /\ Wakeups(S, pc) /\ Sane(mig, hist, events)
      /\ InvOf(S, pc, mig, hist, events) /\ CurrOk(S)
  BY InvParts
<1>2. PICK f : f = rq[c].curr
  OBVIOUS
<1>3. /\ Event /\ pc[c].at = "run" /\ f \in Task /\ task[p].state = "unborn"
      /\ mig' = mig /\ hist' = hist
  BY <1>2, ZenonT(30) DEF Fork
<1>4. PICK b : b = sched_fork(task[f], task[p])
  OBVIOUS
<1>5. PICK r : r = IF c \in b.allowed THEN c ELSE MinOf(b.allowed)
  OBVIOUS
<1>6. task[f] \in TaskT /\ task[p] \in TaskT
  BY <1>1, <1>3, StateParts
<1>7. r \in task[f].allowed /\ r \in Cpu
  <2>2. b.allowed = task[f].allowed
    BY <1>4, <1>6 DEF sched_fork, TaskT
  <2>3. task[f].allowed \subseteq Cpu /\ task[f].allowed # {}
    BY <1>6, TaskParts
  <2>4. task[f].allowed \in SUBSET Nat
    BY <2>3, RtRunQueueAssumption DEF Cpu
  <2>5. MinOf(task[f].allowed) \in task[f].allowed
    BY <2>3, <2>4, MinOfLeast
  <2>. QED
    BY <1>5, <2>2, <2>3, <2>5
<1>8. PICK v : v = Child(task[f], task[p], r)
  OBVIOUS
<1>9. /\ v \in TaskT /\ v.cpu = r /\ v.on_rq = task[p].on_rq /\ v.on_cpu = task[p].on_cpu
      /\ v.allowed = task[f].allowed /\ v.state = "running"
  <2>1. IsChild(task[f], task[p], r, v)
    BY <1>6, <1>7, <1>8, ChildOk
  <2>. QED
    BY <2>1 DEF IsChild
<1>10. PICK s : s = PutTask(S, p, v)
  OBVIOUS
<1>11. PICK l : l = [Run EXCEPT !.pi = p]
  OBVIOUS
<1>12. Wakeup(c, Activated(s, r, p), r, p, l)
  BY <1>2, <1>4, <1>5, <1>8, <1>10, <1>11, ZenonT(30) DEF Fork, Child, PutTask, Activated
<1>13. ~S.task[p].on_rq /\ ~S.task[p].on_cpu /\ Unheld(pc, p) /\ S.task[p].state = "unborn"
  BY <1>1, <1>3 DEF States, TaskStateOk, Unborn
<1>14. StateOk(s) /\ s.rq = S.rq /\ Sets(S, s, p, v)
  <2>1. p \notin RtQueued(S)
    BY <1>13 DEF RtQueued
  <2>2. v.on_cpu = S.task[p].on_cpu /\ v.on_rq = S.task[p].on_rq /\ ~v.on_cpu
    BY <1>1, <1>9, <1>13
  <2>. QED
    BY <1>1, <1>9, <1>10, <1>13, <2>1, <2>2, SetTaskOk
<1>15. s.task[p] = v /\ SameBut(S, s, p)
  BY <1>14 DEF Sets, SameBut, SameTask
<1>16. /\ Run \in PcT /\ Run.rest = <<>> /\ Run.pi = NoTask /\ Run.at = "run"
       /\ ~PickL(Run) /\ ~PrioL(Run) /\ ~SwitchL(Run) /\ pc[c] = Run
  BY <1>1, <1>3, RunOk, AtRun, ZenonT(30)
<1>17. l \in PcT /\ l.rest = <<>> /\ l.pi = p
  BY <1>11, <1>16, ZenonT(30) DEF PcT
<1>18. s.task[p].cpu = r /\ ~s.task[p].on_rq
  BY <1>1, <1>9, <1>13, <1>15
<1>19. PICK t, m : S' = t /\ Started(s, t, r, p) /\ At(pc, pc', c, m) /\ After(c, l, m)
  BY <1>1, <1>7, <1>12, <1>14, <1>17, <1>18, StartOk
<1>20. /\ StateOk(t) /\ Calm(S, t) /\ SameBut(S, t, p) /\ t.task[p].state = "running" /\ t.task[p].on_rq
       /\ t.task[p].cpu = r /\ r \in t.task[p].allowed
       /\ t.rq[r].need_resched \/ Behind(t, r, p)
  <2>1. /\ StateOk(t) /\ Calm(s, t) /\ SameBut(s, t, p) /\ t.task[p].state = "running" /\ t.task[p].on_rq
        /\ t.task[p].cpu = s.task[p].cpu /\ t.task[p].allowed = s.task[p].allowed
        /\ t.rq[r].need_resched \/ Behind(t, r, p)
    BY <1>19 DEF Started
  <2>2. Calm(S, s)
    BY <1>14 DEF Calm
  <2>3. Calm(S, t)
    BY <2>1, <2>2, CalmTrans
  <2>4. SameBut(S, t, p)
    BY <1>15, <2>1 DEF SameBut, SameTask
  <2>. QED
    BY <1>7, <1>9, <1>15, <1>18, <2>1, <2>3, <2>4
<1>21. /\ PlaceOk(c, m) /\ (m.pi = NoTask \/ m.pi = p) /\ m.at \in {"run", "pending", "push"}
       /\ m.rest = <<>>
  BY <1>17, <1>19 DEF After
<1>22. PiOk(pc, c, m, t) /\ TtwuOk(t, m) /\ Goes(pc[c], m) /\ ~PickL(pc[c])
  BY <1>13, <1>16, <1>20, <1>21 DEF PiOk, TtwuOk, Goes
<1>23. Tame(S, t)
  BY <1>20 DEF Calm, Tame
<1>24. \A d \in Cpu : S.rq[d].curr # p
  BY <1>1, <1>13 DEF CurrOk
<1>25. Accounted(S, t, pc, pc', c, p)
  <2>1. TaskStateOk(t, p)
    BY <1>20 DEF TaskStateOk
  <2>. QED
    BY <1>13, <1>20, <1>23, <2>1 DEF Accounted, Tame, Unheld
<1>26. PrioKept(S, t, pc, p)
  BY <1>13, <1>24 DEF PrioKept
<1>27. Arrive(S, t, pc', hist, p)
  BY <1>20 DEF Arrive, Here, Excused
<1>28. Placed(t, mig, p)
  BY <1>20 DEF Placed
<1>29. Wakeups(t, pc')
  <2>1. \A x \in Task : /\ t.task[x].state = "waking" <=> S.task[x].state = "waking"
                        /\ S.task[x].state = "waking" => t.task[x].cpu = S.task[x].cpu
    BY <1>13, <1>20 DEF SameBut, SameTask
  <2>2. \A d \in Cpu : t.rq[d].wake_list = S.rq[d].wake_list /\ t.rq[d].ipi = S.rq[d].ipi
    BY <1>20 DEF Calm
  <2>3. m.rest = pc[c].rest /\ (m = pc[c] \/ (m.at # "ttwu_queue" /\ pc[c].at # "ttwu_queue"))
    BY <1>3, <1>16, <1>21
  <2>. QED
    BY <1>1, <1>19, <2>1, <2>2, <2>3, WakeKept
<1>30. Sane(mig, hist, events') /\ t.task[p].state # "unborn"
  BY <1>1, <1>3, <1>20, EventSane
<1>31. InvOf(t, pc', mig, hist, events')
  BY <1>1, <1>19, <1>20, <1>21, <1>22, <1>23, <1>25, <1>26, <1>27, <1>28, <1>29, <1>30, WakeStep
<1>. QED
  BY <1>3, <1>19, <1>31 DEF SchedInv

(* CPU c leaves a class change of a task of CPU d, if it was in one.       *)
Left(s, t, P, P2, H2, c, d) ==
    P[c].rq = d =>
        /\ ~PrioL(P[c])
        /\ SwitchL(P[c]) =>
              /\ Here(s, d, P[c].pi) =>
                    Behind(s, d, P[c].pi) \/ PickL(P2[d]) \/ Excused(t, P2, H2, d)
              /\ s.rq[d].curr = P[c].pi /\ s.task[P[c].pi].prio = MAX_RT_PRIO =>
                    PickL(P2[d]) \/ Excused(t, P2, H2, d)

(* The priorities that matter on CPU d are what they were.                 *)
PriosKept(s, t, P, d) ==
    \A p \in Task :
        /\ \/ t.task[p].prio = s.task[p].prio
           \/ Unheld(P, p) /\ s.rq[d].curr # p /\ ~Here(s, d, p)
        /\ Here(t, d, p) => Here(s, d, p)

(* CPU c leaves a class change, and what it leaves behind on CPU d has     *)
(* been compared with what runs.                                           *)
LEMMA HighLeft ==
    ASSUME NEW s \in StateT, NEW t \in StateT, NEW P, NEW P2, NEW H, NEW H2, NEW c \in Cpu, NEW l,
           NEW d \in Cpu, High(s, P, H, d), At(P, P2, c, l), Left(s, t, P, P2, H2, c, d),
           d # c \/ ~PickL(P[c]), t.rq[d].curr = s.rq[d].curr,
           t.rq[d].rt_throttled = s.rq[d].rt_throttled,
           s.rq[d].need_resched => t.rq[d].need_resched, PriosKept(s, t, P, d),
           d \in H.unseen => d \in H2.unseen
    PROVE  High(t, P2, H2, d)
<1>0. SUFFICES ASSUME ~PickL(P2[d]), ~Excused(t, P2, H2, d)
               PROVE  \A p \in Task : Here(t, d, p) => Raised(P2, d, p) \/ Behind(t, d, p)
  BY DEF High
<1>1. \A e \in Cpu \ {c} : P2[e] = P[e]
  BY DEF At
<1>2. ~PickL(P[d])
  BY <1>0, <1>1
<1>3. ~Lowered(s, P, d)
  <2>1. SUFFICES ASSUME NEW e \in Cpu, P[e].rq = d, SwitchL(P[e]), P[e].pi \in Task,
                        P[e].pi = s.rq[d].curr, s.task[P[e].pi].prio = MAX_RT_PRIO
                 PROVE  FALSE
    BY DEF Lowered
  <2>2. e # c
    BY <1>0, <2>1 DEF Left
  <2>3. P2[e] = P[e] /\ t.task[P[e].pi].prio = MAX_RT_PRIO
    BY <1>1, <2>1, <2>2 DEF PriosKept
  <2>4. Lowered(t, P2, d)
    BY <2>1, <2>3 DEF Lowered
  <2>. QED
    BY <1>0, <2>4 DEF Excused
<1>4. ~Excused(s, P, H, d)
  <2>1. ASSUME NEW e \in Cpu, P[e].rq = d, PrioL(P[e]) PROVE FALSE
    <3>1. P2[e] = P[e]
      BY <1>1, <2>1 DEF Left
    <3>. QED
      BY <1>0, <2>1, <3>1 DEF Excused
  <2>. QED
    BY <1>0, <1>3, <2>1 DEF Excused
<1>5. ASSUME NEW p \in Task, Here(t, d, p), ~Behind(t, d, p) PROVE Raised(P2, d, p)
  <2>1. Here(s, d, p) /\ t.task[p].prio = s.task[p].prio
    BY <1>5 DEF PriosKept
  <2>2. PrioOf(t, t.rq[d].curr) = PrioOf(s, s.rq[d].curr)
    <3>1. s.rq[d].curr \in Task \cup {Idle, Stopper}
      BY StateParts, RqParts
    <3>2. s.rq[d].curr \in Task => t.task[s.rq[d].curr].prio = s.task[s.rq[d].curr].prio
      BY DEF PriosKept
    <3>. QED
      BY <3>1, <3>2 DEF PrioOf
  <2>3. ~Behind(s, d, p)
    BY <1>5, <2>1, <2>2 DEF Behind, Held
  <2>4. Raised(P, d, p)
    BY <1>2, <1>4, <2>1, <2>3 DEF High
  <2>5. PICK e \in Cpu : P[e].rq = d /\ SwitchL(P[e]) /\ P[e].pi = p
    BY <2>4 DEF Raised
  <2>6. e # c
    BY <1>0, <2>1, <2>3, <2>5 DEF Left
  <2>7. P2[e] = P[e]
    BY <1>1, <2>6
  <2>. QED
    BY <2>1, <2>4, <2>5, <2>7 DEF Raised
<1>. QED
  BY <1>5

(* pick_next_task and the context switch.                                  *)
LEMMA PickNextInv ==
    ASSUME SchedInv, NEW c \in Cpu, PickNext(c) PROVE SchedInv'
<1>1. /\ StateOk(S) /\ S \in StateT /\ Places(pc) /\ pc \in [Cpu -> PcT] /\ Unborn(S, pc)
      /\ S.task = task /\ S.rq = rq /\ States(S, pc) /\ Wakeups(S, pc) /\ Sane(mig, hist, events)
      /\ CurrOk(S) /\ PlaceOk(c, pc[c]) /\ Affinity(S, mig, hist) /\ \A d \in Cpu : High(S, pc, hist, d)
  BY InvParts
<1>2. PICK prev : prev = rq[c].curr
  OBVIOUS
<1>3. PICK s1 : s1 = put_prev_task(S, c, prev)
  OBVIOUS
<1>4. PICK next \in pick_next_task(s1, c) :
         LET s2 == [pick_next_task_rt(s1, c, next) EXCEPT !.rq[c].need_resched = FALSE]
         IN  /\ Become(context_switch(s2, c, prev, next))
             /\ Goto(c, IF s2.rq[c].post_schedule
                        THEN [Run EXCEPT !.at = "post_schedule", !.rq = c] ELSE Run)
  BY <1>2, <1>3 DEF PickNext
<1>5. /\ pc[c].at = "pick" /\ hist' = [hist EXCEPT !.unseen = @ \ {c}] /\ mig' = mig /\ events' = events
  BY DEF PickNext
<1>6. PICK a : a = pick_next_task_rt(s1, c, next)
  OBVIOUS
<1>7. PICK b : b = Unflag(a, c)
  OBVIOUS
<1>8. PICK t : t = context_switch(b, c, prev, next)
  OBVIOUS
<1>9. Become(t)
  BY <1>4, <1>6, <1>7, <1>8 DEF Unflag
<1>10. S.rq[c].curr = prev
  BY <1>1, <1>2
<1>11. /\ StateOk(t) /\ OnCpuOnly(S, t) /\ t.rq[c].curr = next
       /\ t.rq[c].wake_list = S.rq[c].wake_list
       /\ t.rq[c].ipi = S.rq[c].ipi /\ t.rq[c].rt_throttled = S.rq[c].rt_throttled
       /\ (\A d \in Cpu \ {c} : t.rq[d] = S.rq[d])
       /\ next \in Task \cup {Idle, Stopper} /\ (next \in Task => S.task[next].on_rq)
       /\ (\A p \in Task : S.task[p].on_rq /\ S.task[p].cpu = c =>
              PrioOf(S, next) <= S.task[p].prio \/ Held(S, c, p))
       /\ \A x \in Task : t.task[x].on_cpu => S.task[x].on_cpu \/ S.task[x].on_rq
  <2>1. Switched(S, t, c, next)
    BY <1>1, <1>3, <1>6, <1>7, <1>8, <1>10, SwitchOk
  <2>. QED
    BY <2>1 DEF Switched
<1>12. S' = t /\ t \in StateT
  BY <1>9, <1>11, BecomeIs, StateQueues
<1>13. PICK m : Goto(c, m) /\ (m = [Run EXCEPT !.at = "post_schedule", !.rq = c] \/ m = Run)
  BY <1>4
<1>14. /\ PlaceOk(c, m) /\ m \in PcT /\ m.pi = NoTask /\ m.rest = <<>> /\ m.at \in {"run", "post_schedule"}
  <2>1. /\ Run \in PcT /\ PlaceOk(c, Run) /\ Run.at = "run" /\ Run.rest = <<>> /\ Run.pi = NoTask
    BY RunOk, ZenonT(30)
  <2>2. CASE m = Run
    BY <2>1, <2>2
  <2>3. CASE m = [Run EXCEPT !.at = "post_schedule", !.rq = c]
    <3>1. m \in PcT /\ m.at = "post_schedule" /\ m.rq = c /\ m.pi = NoTask /\ m.rest = <<>>
      BY <2>1, <2>3, ZenonT(30) DEF PcT, Labels
    <3>2. PlaceOk(c, m)
      BY <3>1 DEF PlaceOk, Pushing
    <3>. QED
      BY <3>1, <3>2
  <2>. QED
    BY <1>13, <2>2, <2>3
<1>15. At(pc, pc', c, m)
  BY <1>1, <1>13, <1>14, GotoAt
<1>16. pc[c].rest = <<>> /\ ~PrioL(pc[c]) /\ ~SwitchL(pc[c])
  BY <1>1, <1>5 DEF PlaceOk, PrioL, SwitchL, Pushing
<1>17. Places(pc')
  BY <1>1, <1>14, <1>15, PlacesKept
<1>18. Unborn(t, pc')
  <2>1. \A p \in Task : t.task[p].state = "unborn" => S.task[p].state = "unborn"
    BY <1>11 DEF OnCpuOnly
  <2>. QED
    BY <1>1, <1>14, <1>15, <2>1, UnbornKept
<1>19. States(t, pc')
  <2>1. ASSUME NEW p \in Task PROVE TaskStateOk(t, p)
    <3>1. TaskStateOk(S, p)
      BY <1>1 DEF States
    <3>2. /\ t.task[p].on_rq = S.task[p].on_rq /\ t.task[p].state = S.task[p].state
          /\ t.task[p].on_cpu => S.task[p].on_cpu \/ S.task[p].on_rq
      BY <1>11 DEF OnCpuOnly
    <3>. QED
      BY <3>1, <3>2 DEF TaskStateOk
  <2>2. ASSUME NEW d \in Cpu, t.rq[d].curr \in Task, ~t.task[t.rq[d].curr].on_rq PROVE PickL(pc'[d])
    <3>1. d # c
      BY <1>11, <2>2 DEF OnCpuOnly
    <3>2. t.rq[d] = S.rq[d] /\ pc'[d] = pc[d]
      BY <1>11, <1>15, <3>1 DEF At
    <3>3. ~S.task[S.rq[d].curr].on_rq
      BY <1>11, <2>2, <3>2 DEF OnCpuOnly
    <3>. QED
      BY <1>1, <2>2, <3>2, <3>3 DEF States
  <2>3. ASSUME NEW d \in Cpu PROVE TtwuOk(t, pc'[d])
    <3>1. CASE d = c
      BY <1>14, <1>15, <3>1 DEF At, TtwuOk
    <3>2. CASE d # c
      <4>1. pc'[d] = pc[d] /\ TtwuOk(S, pc[d]) /\ PlaceOk(d, pc[d])
        BY <1>1, <1>15, <3>2 DEF At, States, Places
      <4>. QED
        BY <1>11, <4>1 DEF TtwuOk, PlaceOk, OnCpuOnly
    <3>. QED
      BY <3>1, <3>2
  <2>. QED
    BY <2>1, <2>2, <2>3 DEF States
<1>20. Wakeups(t, pc')
  <2>1. \A p \in Task : /\ t.task[p].state = "waking" <=> S.task[p].state = "waking"
                        /\ S.task[p].state = "waking" => t.task[p].cpu = S.task[p].cpu
    BY <1>11 DEF OnCpuOnly
  <2>2. \A d \in Cpu : t.rq[d].wake_list = S.rq[d].wake_list /\ t.rq[d].ipi = S.rq[d].ipi
    BY <1>11
  <2>3. m.rest = pc[c].rest /\ (m = pc[c] \/ (m.at # "ttwu_queue" /\ pc[c].at # "ttwu_queue"))
    BY <1>5, <1>14, <1>16
  <2>. QED
    BY <1>1, <1>15, <2>1, <2>2, <2>3, WakeKept
<1>21. /\ hist'.waking = hist.waking /\ hist'.unseen = hist.unseen \ {c} /\ Sane(mig, hist', events)
  BY <1>1, <1>5 DEF Sane
<1>22. Affinity(t, mig, hist')
  <2>1. ASSUME NEW p \in Task \ hist'.waking PROVE Placed(t, mig, p)
    <3>1. Placed(S, mig, p)
      BY <1>1, <1>21 DEF Affinity
    <3>2. /\ t.task[p].state = S.task[p].state /\ t.task[p].on_rq = S.task[p].on_rq
          /\ t.task[p].cpu = S.task[p].cpu /\ t.task[p].allowed = S.task[p].allowed
      BY <1>11 DEF OnCpuOnly
    <3>. QED
      BY <3>1, <3>2 DEF Placed
  <2>. QED
    BY <2>1 DEF Affinity
<1>23. ASSUME NEW d \in Cpu PROVE High(t, pc', hist', d)
  <2>1. CASE d = c
    <3>1. PrioOf(t, next) = PrioOf(S, next)
      BY <1>11 DEF PrioOf, OnCpuOnly
    <3>2. ASSUME NEW p \in Task, Here(t, d, p) PROVE Behind(t, d, p)
      <4>1. S.task[p].on_rq /\ S.task[p].cpu = c /\ t.task[p].prio = S.task[p].prio
        BY <1>11, <2>1, <3>2 DEF OnCpuOnly, Here
      <4>. QED
        BY <1>11, <2>1, <3>1, <4>1 DEF Behind, Held
    <3>. QED
      BY <3>2 DEF High
  <2>2. CASE d # c
    <3>1. High(S, pc, hist, d) /\ t.rq[d] = S.rq[d] /\ (d \in hist.unseen => d \in hist'.unseen)
      BY <1>1, <1>11, <1>21, <2>2
    <3>2. Left(S, t, pc, pc', hist', c, d)
      BY <1>16 DEF Left
    <3>3. PriosKept(S, t, pc, d)
      BY <1>11 DEF PriosKept, OnCpuOnly, Here
    <3>. QED
      BY <1>1, <1>12, <1>15, <2>2, <3>1, <3>2, <3>3, HighLeft
  <2>. QED
    BY <2>1, <2>2
<1>24. InvOf(t, pc', mig, hist', events)
  BY <1>11, <1>17, <1>18, <1>19, <1>20, <1>21, <1>22, <1>23 DEF InvOf
<1>. QED
  BY <1>5, <1>12, <1>24 DEF SchedInv

(* A step that changes priorities only.                                    *)
PrioOnly(s, t) ==
    \A x \in Task : /\ t.task[x].on_rq = s.task[x].on_rq /\ t.task[x].cpu = s.task[x].cpu
                    /\ t.task[x].state = s.task[x].state /\ t.task[x].allowed = s.task[x].allowed
                    /\ t.task[x].on_cpu = s.task[x].on_cpu

(* A step that changes priorities only keeps the invariant if what runs is *)
(* still high enough.                                                      *)
LEMMA PrioStep ==
    ASSUME NEW s, NEW t, NEW P, NEW P2, NEW M, NEW H, NEW H2, NEW e, NEW e2, NEW c \in Cpu, NEW l,
           InvOf(s, P, M, H, e), StateOk(t), Calm(s, t), PrioOnly(s, t), At(P, P2, c, l), PlaceOk(c, l),
           PiOk(P, c, l, t), l.rest = P[c].rest, l.at \notin {"ttwu", "ttwu_queue"},
           P[c].at \notin {"ttwu", "ttwu_queue"}, ~PickL(P[c]), H2.waking = H.waking,
           Sane(M, H2, e2), \A d \in Cpu : High(t, P2, H2, d)
    PROVE  InvOf(t, P2, M, H2, e2)
<1>1. /\ StateOk(s) /\ Places(P) /\ Unborn(s, P) /\ States(s, P) /\ Wakeups(s, P) /\ Affinity(s, M, H)
  BY DEF InvOf
<1>2. l.pi = NoTask \/ l.pi = P[c].pi \/ (Unheld(P, l.pi) /\ t.task[l.pi].state # "unborn")
  BY DEF PiOk
<1>3. Places(P2)
  BY <1>1, <1>2, PlacesKept
<1>4. Unborn(t, P2)
  <2>1. \A p \in Task : t.task[p].state = "unborn" => s.task[p].state = "unborn"
    BY DEF PrioOnly
  <2>. QED
    BY <1>1, <1>2, <2>1, UnbornKept
<1>5. States(t, P2)
  <2>1. ASSUME NEW p \in Task PROVE TaskStateOk(t, p)
    BY <1>1 DEF States, TaskStateOk, PrioOnly
  <2>2. ASSUME NEW d \in Cpu, t.rq[d].curr \in Task, ~t.task[t.rq[d].curr].on_rq PROVE PickL(P2[d])
    <3>1. t.rq[d].curr = s.rq[d].curr
      BY DEF Calm
    <3>2. PickL(P[d])
      BY <1>1, <2>2, <3>1 DEF States, PrioOnly
    <3>. QED
      BY <3>2 DEF At
  <2>3. ASSUME NEW d \in Cpu PROVE TtwuOk(t, P2[d])
    <3>1. CASE d = c
      BY <3>1 DEF At, TtwuOk
    <3>2. CASE d # c
      <4>1. P2[d] = P[d] /\ TtwuOk(s, P[d]) /\ PlaceOk(d, P[d])
        BY <1>1, <3>2 DEF At, States, Places
      <4>. QED
        BY <4>1 DEF TtwuOk, PlaceOk, PrioOnly
    <3>. QED
      BY <3>1, <3>2
  <2>. QED
    BY <2>1, <2>2, <2>3 DEF States
<1>6. Wakeups(t, P2)
  <2>1. \A p \in Task : /\ t.task[p].state = "waking" <=> s.task[p].state = "waking"
                        /\ s.task[p].state = "waking" => t.task[p].cpu = s.task[p].cpu
    BY DEF PrioOnly
  <2>2. \A d \in Cpu : t.rq[d].wake_list = s.rq[d].wake_list /\ t.rq[d].ipi = s.rq[d].ipi
    BY DEF Calm
  <2>. QED
    BY <1>1, <2>1, <2>2, WakeKept, ZenonT(120)
<1>7. Affinity(t, M, H2)
  <2>1. ASSUME NEW p \in Task \ H2.waking PROVE Placed(t, M, p)
    BY <1>1 DEF Affinity, Placed, PrioOnly
  <2>. QED
    BY <2>1 DEF Affinity
<1>. QED
  BY <1>3, <1>4, <1>5, <1>6, <1>7 DEF InvOf

(* No queued task is above the cached highest priority.                    *)
LEMMA HighestOk ==
    ASSUME NEW s, StateOk(s), NEW c \in Cpu, NEW p \in Task, Here(s, c, p)
    PROVE  s.rq[c].hp_curr <= s.task[p].prio
<1>1. /\ s \in StateT /\ QueuesOk(s, RtQueued(s))
  BY StateQueues
<1>2. s.task[p].prio \in 0 .. MAX_RT_PRIO /\ s.rq[c].hp_curr \in 0 .. MAX_RT_PRIO
  BY <1>1, StateParts, TaskParts, RqParts
<1>3. CASE s.task[p].prio < MAX_RT_PRIO
  <2>1. p \in On(s, RtQueued(s), c)
    BY <1>3 DEF On, RtQueued, Here
  <2>. QED
    BY <1>1, <2>1 DEF QueuesOk, Highest
<1>. QED
  BY <1>2, <1>3, RtRunQueueAssumption

(* The end of prio_changed_rt.                                             *)
LEMMA PrioChangedInv ==
    ASSUME SchedInv, NEW c \in Cpu, PrioChanged(c) PROVE SchedInv'
<1>1. /\ StateOk(S) /\ S \in StateT /\ Places(pc) /\ pc \in [Cpu -> PcT] /\ S.task = task /\ S.rq = rq
      /\ Sane(mig, hist, events) /\ PlaceOk(c, pc[c]) /\ InvOf(S, pc, mig, hist, events)
      /\ \A d \in Cpu : High(S, pc, hist, d)
  BY InvParts
<1>2. PICK p : p = pc[c].pi
  OBVIOUS
<1>3. PICK r : r = pc[c].rq
  OBVIOUS
<1>4. PICK t : t = IF rq[r].curr = p THEN PrioChangedResched(S, r, p) ELSE S
  OBVIOUS
<1>5. /\ pc[c].at = "prio_changed" /\ Become(t) /\ Goto(c, Run) /\ mig' = mig /\ events' = events
      /\ hist' = [hist EXCEPT !.unseen = IF rq[r].curr = p THEN @ ELSE @ \cup {r}]
  BY <1>2, <1>3, <1>4 DEF PrioChanged
<1>6. p \in Task /\ r \in Cpu /\ pc[c].rest = <<>>
  BY <1>1, <1>2, <1>3, <1>5, ZenonT(30) DEF PlaceOk, PcT, Pushing
<1>7. /\ t = resched_task(S, r) \/ t = S
      /\ t = resched_task(S, r) \/ rq[r].curr # p \/ task[p].prio <= rq[r].hp_curr
  <2>1. task[p].prio \in 0 .. MAX_RT_PRIO /\ rq[r].hp_curr \in 0 .. MAX_RT_PRIO
    BY <1>1, <1>6, StateParts, TaskParts, RqParts
  <2>. QED
    BY <1>1, <1>4, <2>1 DEF PrioChangedResched
<1>8. /\ StateOk(t) /\ Calm(S, t) /\ t.task = S.task /\ (t = resched_task(S, r) => t.rq[r].need_resched)
  <2>1. CASE t = S /\ t # resched_task(S, r)
    BY <1>1, <2>1 DEF Calm
  <2>2. CASE t = resched_task(S, r)
    BY <1>1, <1>6, <2>2, ReschedOk
  <2>. QED
    BY <1>7, <2>1, <2>2
<1>9. S' = t /\ t \in StateT
  BY <1>5, <1>8, BecomeIs, StateQueues
<1>10. PICK m : m = Run
  OBVIOUS
<1>11. m \in PcT /\ PlaceOk(c, m) /\ m.rest = <<>> /\ m.pi = NoTask /\ m.at = "run"
  BY <1>10, RunOk, ZenonT(30)
<1>12. At(pc, pc', c, m)
  BY <1>1, <1>5, <1>10, <1>11, GotoAt
<1>13. /\ hist'.waking = hist.waking /\ hist.unseen \subseteq hist'.unseen /\ Sane(mig, hist', events)
       /\ rq[r].curr # p => r \in hist'.unseen
  BY <1>1, <1>5, <1>6 DEF Sane
<1>14. PrioOnly(S, t) /\ PiOk(pc, c, m, t) /\ ~PickL(pc[c]) /\ ~SwitchL(pc[c])
  BY <1>5, <1>8, <1>11 DEF PrioOnly, PiOk, PickL, SwitchL, Pushing
<1>15. ASSUME NEW d \in Cpu PROVE High(t, pc', hist', d)
  <2>1. CASE d # r
    <3>1. Left(S, t, pc, pc', hist', c, d)
      BY <1>3, <2>1 DEF Left
    <3>2. PriosKept(S, t, pc, d)
      BY <1>8 DEF PriosKept, Here
    <3>3. High(S, pc, hist, d)
      BY <1>1
    <3>4. /\ t.rq[d].curr = S.rq[d].curr /\ t.rq[d].rt_throttled = S.rq[d].rt_throttled
          /\ S.rq[d].need_resched => t.rq[d].need_resched
          /\ d \in hist.unseen => d \in hist'.unseen
      BY <1>8, <1>13 DEF Calm
    <3>. QED
      BY <1>1, <1>9, <1>12, <1>14, <3>1, <3>2, <3>3, <3>4, HighLeft
  <2>2. CASE d = r
    <3>1. CASE rq[r].curr # p \/ t = resched_task(S, r)
      <4>1. Excused(t, pc', hist', d)
        BY <1>8, <1>13, <2>2, <3>1 DEF Excused
      <4>. QED
        BY <4>1 DEF High
    <3>2. CASE rq[r].curr = p /\ t # resched_task(S, r)
      <4>1. t.rq[r].curr = p /\ S.task[p].prio <= S.rq[r].hp_curr /\ t = S
        BY <1>1, <1>7, <3>2
      <4>2. ASSUME NEW x \in Task, Here(S, r, x) PROVE Behind(S, r, x)
        <5>1. S.rq[r].hp_curr <= S.task[x].prio
          BY <1>1, <1>6, <4>2, HighestOk
        <5>2. S.task[p].prio \in 0 .. MAX_RT_PRIO /\ S.rq[r].hp_curr \in 0 .. MAX_RT_PRIO
              /\ S.task[x].prio \in 0 .. MAX_RT_PRIO
          BY <1>1, <1>6, StateParts, TaskParts, RqParts
        <5>3. PrioOf(S, S.rq[r].curr) = S.task[p].prio
          BY <1>6, <4>1, RtRunQueueAssumption DEF PrioOf
        <5>. QED
          BY <4>1, <5>1, <5>2, <5>3 DEF Behind
      <4>. QED
        BY <2>2, <4>1, <4>2 DEF High
    <3>. QED
      BY <3>1, <3>2
  <2>. QED
    BY <2>1, <2>2
<1>16. m.rest = pc[c].rest /\ m.at \notin {"ttwu", "ttwu_queue"} /\ pc[c].at \notin {"ttwu", "ttwu_queue"}
  BY <1>5, <1>6, <1>11
<1>17. InvOf(t, pc', mig, hist', events)
  BY <1>1, <1>8, <1>11, <1>12, <1>13, <1>14, <1>15, <1>16, PrioStep
<1>. QED
  BY <1>5, <1>9, <1>17 DEF SchedInv

(* The cases of the end of switched_to_rt and of switched_to_fair.         *)
SwitchEnd(s, t, r, p) ==
    \/ t = resched_task(s, r)
    \/ t = s /\ s.task[p].prio < MAX_RT_PRIO /\ (Here(s, r, p) => Behind(s, r, p))
    \/ t = s /\ s.task[p].prio = MAX_RT_PRIO /\ ~s.task[p].on_rq
    \/ t = check_preempt_curr(s, r, p) /\ s.task[p].prio = MAX_RT_PRIO /\ s.rq[r].curr # p

(* Each of them sets at most a reschedule flag.                            *)
LEMMA SwitchEndOk ==
    ASSUME NEW s, StateOk(s), NEW r \in Cpu, NEW p \in Task, NEW t, SwitchEnd(s, t, r, p)
    PROVE  StateOk(t) /\ Calm(s, t) /\ t.task = s.task
<1>1. CASE t = resched_task(s, r)
  BY <1>1, ReschedOk
<1>2. CASE t = s
  BY <1>2 DEF Calm
<1>3. CASE t = check_preempt_curr(s, r, p) /\ s.task[p].prio = MAX_RT_PRIO
  <2>1. s.task[p].prio < MAX_RT_PRIO => r = s.task[p].cpu
    BY <1>3, RtRunQueueAssumption
  <2>. QED
    BY <1>3, <2>1, CheckPreemptOk
<1>. QED
  BY <1>1, <1>2, <1>3 DEF SwitchEnd

(* The end of switched_to_rt and switched_to_fair.                         *)
LEMMA SwitchedToInv ==
    ASSUME SchedInv, NEW c \in Cpu, SwitchedTo(c) PROVE SchedInv'
<1>1. /\ StateOk(S) /\ S \in StateT /\ Places(pc) /\ pc \in [Cpu -> PcT] /\ S.task = task /\ S.rq = rq
      /\ Sane(mig, hist, events) /\ PlaceOk(c, pc[c]) /\ InvOf(S, pc, mig, hist, events)
      /\ States(S, pc) /\ \A d \in Cpu : High(S, pc, hist, d)
  BY InvParts
<1>2. PICK p : p = pc[c].pi
  OBVIOUS
<1>3. PICK r : r = pc[c].rq
  OBVIOUS
<1>4. PICK t : t = CASE IsRtClass(S, p) ->
                           IF /\ pc[c].k # "pushed" \/ task[p].cpu = r
                              /\ task[p].prio < PrioOf(S, rq[r].curr)
                           THEN resched_task(S, r) ELSE S
                     [] ~IsRtClass(S, p) /\ task[p].on_rq ->
                           IF rq[r].curr = p THEN resched_task(S, r)
                           ELSE check_preempt_curr(S, r, p)
                     [] OTHER -> S
  OBVIOUS
<1>5. /\ pc[c].at = "switched_to" /\ Become(t) /\ Goto(c, Run) /\ mig' = mig /\ hist' = hist
      /\ events' = events
  BY <1>2, <1>3, <1>4 DEF SwitchedTo
<1>6. p \in Task /\ r \in Cpu /\ pc[c].rest = <<>>
  BY <1>1, <1>2, <1>3, <1>5, ZenonT(30) DEF PlaceOk, PcT, Pushing
<1>7. SwitchEnd(S, t, r, p)
  <2>1. S.task[p].prio \in 0 .. MAX_RT_PRIO /\ S.rq[r].curr \in Task \cup {Idle, Stopper}
    BY <1>1, <1>6, StateParts, TaskParts, RqParts
  <2>2. PICK x \in 0 .. MAX_PRIO : x = PrioOf(S, S.rq[r].curr)
    BY <1>1, <2>1, ClassFacts
  <2>3. IsRtClass(S, p) <=> S.task[p].prio < MAX_RT_PRIO
    BY <1>6, RtClass
  <2>4. CASE IsRtClass(S, p)
    <3>1. CASE t = resched_task(S, r)
      BY <3>1 DEF SwitchEnd
    <3>2. CASE t # resched_task(S, r)
      <4>1. t = S
        BY <1>4, <2>4, <3>2
      <4>2. S.task[p].cpu # r \/ ~(S.task[p].prio < x)
        BY <1>1, <1>4, <2>2, <2>4, <3>2
      <4>3. ASSUME Here(S, r, p) PROVE Behind(S, r, p)
        BY <2>1, <2>2, <4>2, <4>3, RtRunQueueAssumption DEF Here, Behind, MAX_PRIO
      <4>. QED
        BY <2>3, <2>4, <4>1, <4>3 DEF SwitchEnd
    <3>. QED
      BY <3>1, <3>2
  <2>5. CASE ~IsRtClass(S, p)
    <3>1. S.task[p].prio = MAX_RT_PRIO
      BY <2>1, <2>3, <2>5, RtRunQueueAssumption
    <3>2. CASE task[p].on_rq /\ rq[r].curr = p
      BY <1>4, <2>5, <3>2 DEF SwitchEnd
    <3>3. CASE task[p].on_rq /\ rq[r].curr # p
      BY <1>1, <1>4, <2>5, <3>1, <3>3 DEF SwitchEnd
    <3>4. CASE ~task[p].on_rq
      BY <1>1, <1>4, <2>5, <3>1, <3>4 DEF SwitchEnd
    <3>. QED
      BY <3>2, <3>3, <3>4
  <2>. QED
    BY <2>4, <2>5
<1>8. StateOk(t) /\ Calm(S, t) /\ t.task = S.task
  BY <1>1, <1>6, <1>7, SwitchEndOk
<1>9. S' = t /\ t \in StateT
  BY <1>5, <1>8, BecomeIs, StateQueues
<1>10. PICK m : m = Run
  OBVIOUS
<1>11. m \in PcT /\ PlaceOk(c, m) /\ m.rest = <<>> /\ m.pi = NoTask /\ m.at = "run"
  BY <1>10, RunOk, ZenonT(30)
<1>12. At(pc, pc', c, m)
  BY <1>1, <1>5, <1>10, <1>11, GotoAt
<1>13. PrioOnly(S, t) /\ PiOk(pc, c, m, t) /\ ~PickL(pc[c]) /\ ~PrioL(pc[c])
  BY <1>5, <1>8, <1>11 DEF PrioOnly, PiOk, PickL, PrioL
<1>14. ASSUME NEW d \in Cpu PROVE High(t, pc', hist, d)
  <2>1. CASE d = r /\ t = resched_task(S, r)
    <3>1. t.rq[r].need_resched
      BY <1>1, <1>6, <2>1, ReschedOk
    <3>. QED
      BY <2>1, <3>1 DEF High, Excused
  <2>2. CASE ~(d = r /\ t = resched_task(S, r))
    <3>1. Left(S, t, pc, pc', hist, c, d)
      <4>1. CASE d # r
        BY <1>3, <4>1 DEF Left
      <4>2. CASE d = r
        <5>1. ASSUME Here(S, d, p) PROVE Behind(S, d, p) \/ Excused(t, pc', hist, d)
          <6>1. CASE t = check_preempt_curr(S, r, p) /\ S.task[p].prio = MAX_RT_PRIO
            <7>1. S.task[p].prio < MAX_RT_PRIO => r = S.task[p].cpu
              BY <6>1, RtRunQueueAssumption
            <7>2. t.rq[r].need_resched \/ PrioOf(t, t.rq[r].curr) <= t.task[p].prio
              BY <1>1, <1>6, <6>1, <7>1, CheckPreemptOk
            <7>3. t.rq[r].curr = S.rq[r].curr
              BY <1>6, <1>8 DEF Calm
            <7>. QED
              BY <1>8, <4>2, <7>2, <7>3 DEF Behind, Excused, PrioOf
          <6>. QED
            BY <1>7, <2>2, <4>2, <5>1, <6>1 DEF SwitchEnd, Here
        <5>2. ASSUME S.rq[d].curr = p, S.task[p].prio = MAX_RT_PRIO PROVE PickL(pc'[d])
          <6>1. ~S.task[p].on_rq
            BY <1>7, <2>2, <4>2, <5>2, RtRunQueueAssumption DEF SwitchEnd
          <6>2. PickL(pc[d])
            BY <1>1, <1>6, <5>2, <6>1 DEF States
          <6>. QED
            BY <1>12, <1>13, <6>2 DEF At
        <5>. QED
          BY <1>2, <1>13, <5>1, <5>2 DEF Left
      <4>. QED
        BY <4>1, <4>2
    <3>2. PriosKept(S, t, pc, d)
      BY <1>8 DEF PriosKept, Here
    <3>3. High(S, pc, hist, d)
      BY <1>1
    <3>4. /\ t.rq[d].curr = S.rq[d].curr /\ t.rq[d].rt_throttled = S.rq[d].rt_throttled
          /\ S.rq[d].need_resched => t.rq[d].need_resched
          /\ d \in hist.unseen => d \in hist.unseen
      BY <1>8 DEF Calm
    <3>. QED
      BY <1>1, <1>9, <1>12, <1>13, <3>1, <3>2, <3>3, <3>4, HighLeft
  <2>. QED
    BY <2>1, <2>2
<1>15. /\ m.rest = pc[c].rest /\ m.at \notin {"ttwu", "ttwu_queue"} /\ pc[c].at \notin {"ttwu", "ttwu_queue"}
       /\ hist.waking = hist.waking
  BY <1>5, <1>6, <1>11
<1>16. InvOf(t, pc', mig, hist, events)
  BY <1>1, <1>8, <1>11, <1>12, <1>13, <1>14, <1>15, PrioStep
<1>. QED
  BY <1>5, <1>9, <1>16 DEF SchedInv

-----------------------------------------------------------------------------
(* Changes of policy and priority.  What check_class_changed leaves to be  *)
(* done by CPU c, at m, when p had the priority old and CPU r ran curr.    *)
Outcome(t, m, r, p, old, curr) ==
    \/ SwitchL(m) /\ m.rq = r /\ m.pi = p /\ t.task[p].prio = MAX_RT_PRIO /\ old < MAX_RT_PRIO
    \/ SwitchL(m) /\ m.rq = r /\ m.pi = p /\ t.task[p].prio < MAX_RT_PRIO /\ old = MAX_RT_PRIO
    \/ PrioL(m) /\ m.rq = r /\ curr = p
    \/ t.rq[r].need_resched
    \/ (curr # p => Behind(t, r, p)) /\ (curr = p => t.task[p].prio <= old)
    \/ t.task[p].on_rq => t.task[p].prio = old

Settles(c, m, p) ==
    /\ PlaceOk(c, m) /\ m.rest = <<>> /\ m.at \notin {"ttwu", "ttwu_queue"} /\ m.pi \in {NoTask, p}

(* CPU c has gone from a to t and to m.                                    *)
Leads(c, a, t, m, p) ==
    S' = t /\ StateOk(t) /\ Calm(a, t) /\ t.task = a.task /\ At(pc, pc', c, m) /\ Settles(c, m, p)

(* Nothing is left to be done.                                             *)
LEMMA RunSettles ==
    ASSUME NEW c \in Cpu, NEW p, NEW m, m = Run
    PROVE  Settles(c, m, p) /\ m \in PcT
BY RunOk, ZenonT(30) DEF Settles

(* Where the callbacks start.                                              *)
StartAt(r, p) == [Run EXCEPT !.rq = r, !.pi = p]

(* The place at which they start.                                          *)
LEMMA StartPlace ==
    ASSUME NEW r \in Cpu, NEW p \in Task, NEW l, l = StartAt(r, p)
    PROVE  l \in PcT /\ l.rq = r /\ l.pi = p /\ l.rest = <<>>
<1>1. Run \in PcT /\ Run.rest = <<>> /\ Run.k = ""
  BY RunOk, ZenonT(30)
<1>. QED
  BY <1>1, ZenonT(30) DEF PcT, StartAt

(* Where the callbacks may go from l: to a pull, or to the end of switched_to. *)
ToPull(s, l, k, m) == m = PullLoop(s, [l EXCEPT !.k = k], 0)
ToEnd(l, m) ==
    \/ m = [l EXCEPT !.at = "switched_to"]
    \/ m = [l EXCEPT !.at = "push", !.k = "switched"]

SwitchPlace(c, m, p, r) == Settles(c, m, p) /\ m \in PcT /\ m.rq = r /\ m.pi = p /\ SwitchL(m)
PrioPlace(c, m, p, r) == Settles(c, m, p) /\ m \in PcT /\ m.rq = r /\ m.pi = p /\ PrioL(m)

(* A pull of a class change goes on to the end of the change.              *)
LEMMA PullSettles ==
    ASSUME NEW c \in Cpu, NEW s \in StateT, NEW p \in Task, NEW l \in PcT, l.pi = p, l.rest = <<>>,
           NEW k \in {"switched_to", "prio_changed"}, NEW m, ToPull(s, l, k, m)
    PROVE  /\ k = "switched_to" => SwitchPlace(c, m, p, l.rq)
           /\ k = "prio_changed" => PrioPlace(c, m, p, l.rq)
<1>1. PICK j : j = [l EXCEPT !.k = k]
  OBVIOUS
<1>2. j \in PcT /\ j.k = k /\ j.pi = p /\ j.rest = <<>> /\ j.rq = l.rq
  BY <1>1, ZenonT(30) DEF PcT
<1>3. PICK n \in Nat : n = 0
  OBVIOUS
<1>4. m = PullLoop(s, j, n)
  BY <1>1, <1>3 DEF ToPull
<1>5. j.k \in PullKind /\ (j.k = "pick" => j.rq = c /\ j.pi = NoTask) /\ (j.k # "pick" => j.pi \in Task)
  BY <1>2 DEF PullKind
<1>6. /\ PlaceOk(c, m) /\ m.rq = j.rq /\ m.pi = j.pi /\ m.rest = <<>>
      /\ m.at \notin {"run", "ttwu", "ttwu_queue"}
      /\ PickL(m) <=> j.k = "pick"
      /\ PrioL(m) <=> j.k = "prio_changed"
      /\ SwitchL(m) <=> j.k = "switched_to"
  BY <1>2, <1>4, <1>5, PullPlace
<1>7. Settles(c, m, p) /\ m \in PcT
  BY <1>2, <1>6 DEF Settles, PlaceOk
<1>. QED
  BY <1>2, <1>6, <1>7 DEF SwitchPlace, PrioPlace

(* A push of a class change goes on to the end of the change.              *)
LEMMA SwitchSettles ==
    ASSUME NEW c \in Cpu, NEW p \in Task, NEW l \in PcT, l.pi = p, l.rest = <<>>, NEW m, ToEnd(l, m)
    PROVE  SwitchPlace(c, m, p, l.rq)
<1>1. CASE m = [l EXCEPT !.at = "switched_to"]
  <2>1. m \in PcT /\ m.at = "switched_to" /\ m.rq = l.rq /\ m.pi = p /\ m.rest = <<>>
    BY <1>1, ZenonT(30) DEF PcT, Labels
  <2>2. PlaceOk(c, m)
    BY <2>1 DEF PlaceOk, Pushing
  <2>. QED
    BY <2>1, <2>2 DEF Settles, SwitchL, SwitchPlace
<1>2. CASE m = [l EXCEPT !.at = "push", !.k = "switched"]
  <2>1. m \in PcT /\ m.at = "push" /\ m.k = "switched" /\ m.rq = l.rq /\ m.pi = p /\ m.rest = <<>>
    BY <1>2, ZenonT(30) DEF PcT, Labels
  <2>2. PlaceOk(c, m)
    BY <2>1 DEF PlaceOk, Pushing
  <2>. QED
    BY <2>1, <2>2 DEF Settles, SwitchL, Pushing, SwitchPlace
<1>. QED
  BY <1>1, <1>2 DEF ToEnd

(* A step to the state a itself and to m.                                  *)
LEMMA LeadsTo ==
    ASSUME pc \in [Cpu -> PcT], NEW c \in Cpu, NEW a, StateOk(a), NEW m \in PcT, NEW p,
           Become(a), Goto(c, m), Settles(c, m, p)
    PROVE  Leads(c, a, a, m, p)
<1>1. S' = a /\ Calm(a, a)
  BY BecomeIs, StateQueues DEF Calm
<1>. QED
  BY <1>1, GotoAt DEF Leads

(* switched_from_rt leaves the comparison to be done.                      *)
LEMMA SwitchedFrom ==
    ASSUME pc \in [Cpu -> PcT], NEW c \in Cpu, NEW a, StateOk(a), NEW p \in Task,
           NEW l \in PcT, l.pi = p, l.rest = <<>>, switched_from_rt(c, a, l)
    PROVE  \E m : Leads(c, a, a, m, p) /\ SwitchPlace(c, m, p, l.rq)
<1>1. PICK k \in {"switched_to", "prio_changed"} : k = "switched_to"
  OBVIOUS
<1>2. PICK m : Become(a) /\ Goto(c, m) /\ (ToPull(a, l, k, m) \/ ToEnd(l, m))
  BY <1>1 DEF switched_from_rt, ToPull, ToEnd
<1>3. SwitchPlace(c, m, p, l.rq)
  <2>1. CASE ToEnd(l, m)
    BY <2>1, SwitchSettles
  <2>2. CASE ToPull(a, l, k, m)
    <3>1. a \in StateT
      BY StateQueues
    <3>. QED
      BY <1>1, <2>2, <3>1, PullSettles
  <2>. QED
    BY <1>2, <2>1, <2>2
<1>4. Settles(c, m, p) /\ m \in PcT
  BY <1>3 DEF SwitchPlace
<1>5. Leads(c, a, a, m, p)
  BY <1>2, <1>4, LeadsTo
<1>. QED
  BY <1>3, <1>5

(* switched_to_rt leaves the comparison to be done, unless the task runs.  *)
LEMMA SwitchedToRt ==
    ASSUME pc \in [Cpu -> PcT], NEW c \in Cpu, NEW a, StateOk(a), NEW p \in Task,
           NEW l \in PcT, l.pi = p, l.rest = <<>>, switched_to_rt(c, a, l)
    PROVE  \E m : Leads(c, a, a, m, p) /\ (a.rq[l.rq].curr = p \/ SwitchPlace(c, m, p, l.rq))
<1>1. PICK m : Become(a) /\ Goto(c, m) /\ ((m = Run /\ a.rq[l.rq].curr = p) \/ ToEnd(l, m))
  BY DEF switched_to_rt, ToEnd
<1>2. Settles(c, m, p) /\ m \in PcT /\ (a.rq[l.rq].curr = p \/ SwitchPlace(c, m, p, l.rq))
  <2>1. CASE m = Run /\ a.rq[l.rq].curr = p
    BY <2>1, RunSettles
  <2>2. CASE ToEnd(l, m)
    <3>1. SwitchPlace(c, m, p, l.rq)
      BY <2>2, SwitchSettles
    <3>. QED
      BY <3>1 DEF SwitchPlace
  <2>. QED
    BY <1>1, <2>1, <2>2
<1>3. Leads(c, a, a, m, p)
  BY <1>1, <1>2, LeadsTo
<1>. QED
  BY <1>2, <1>3

-----------------------------------------------------------------------------
(* What the callbacks of check_class_changed leave to be done.             *)

(* prio_changed_rt: a task that runs and was lowered looks for a better one *)
(* to pull, and any other change is compared with what runs.               *)
LEMMA PrioChangedRt ==
    ASSUME pc \in [Cpu -> PcT], NEW c \in Cpu, NEW a, StateOk(a), NEW p \in Task,
           NEW l \in PcT, l.pi = p, l.rest = <<>>, NEW old \in 0 .. MAX_RT_PRIO, prio_changed_rt(c, a, l, old)
    PROVE  \E t, m : Leads(c, a, t, m, p) /\ Outcome(t, m, l.rq, p, old, a.rq[l.rq].curr)
<1>1. PICK r \in Cpu : r = l.rq
  BY ZenonT(30) DEF PcT
<1>2. a \in StateT /\ a.task[p].prio \in 0 .. MAX_RT_PRIO /\ a.rq[r].curr \in Task \cup {Idle, Stopper}
  BY StateQueues, StateParts, TaskParts, RqParts
<1>3. CASE a.rq[r].curr = p /\ old < a.task[p].prio
  <2>1. PICK k \in {"switched_to", "prio_changed"} : k = "prio_changed"
    OBVIOUS
  <2>2. PICK m : Become(a) /\ Goto(c, m) /\ ToPull(a, l, k, m)
    BY <1>1, <1>3, <2>1 DEF prio_changed_rt, ToPull
  <2>3. PrioPlace(c, m, p, r)
    BY <1>1, <1>2, <2>1, <2>2, PullSettles
  <2>4. Settles(c, m, p) /\ m \in PcT /\ m.rq = r /\ PrioL(m)
    BY <2>3 DEF PrioPlace
  <2>5. Leads(c, a, a, m, p)
    BY <2>2, <2>4, LeadsTo
  <2>6. Outcome(a, m, r, p, old, a.rq[r].curr)
    BY <1>3, <2>4 DEF Outcome
  <2>. QED
    BY <1>1, <2>5, <2>6
<1>4. CASE ~(a.rq[r].curr = p /\ old < a.task[p].prio)
  <2>1. PICK t : t = PrioChangedResched(a, r, p)
    OBVIOUS
  <2>2. PICK m : m = Run
    OBVIOUS
  <2>3. Become(t) /\ Goto(c, m)
    BY <1>1, <1>4, <2>1, <2>2 DEF prio_changed_rt
  <2>4. Settles(c, m, p) /\ m \in PcT
    BY <2>2, RunSettles
  <2>5. t = resched_task(a, r) \/ (t = a /\ (a.rq[r].curr # p => Behind(a, r, p)))
    <3>1. PICK x \in 0 .. MAX_PRIO : x = PrioOf(a, a.rq[r].curr)
      BY <1>2, ClassFacts
    <3>2. CASE a.rq[r].curr = p
      BY <2>1, <3>2 DEF PrioChangedResched
    <3>3. CASE a.rq[r].curr # p
      <4>1. CASE a.task[p].prio < x
        BY <2>1, <3>1, <3>3, <4>1 DEF PrioChangedResched
      <4>2. CASE ~(a.task[p].prio < x)
        <5>1. x <= a.task[p].prio
          BY <1>2, <4>2, RtRunQueueAssumption DEF MAX_PRIO
        <5>. QED
          BY <2>1, <3>1, <3>3, <4>2, <5>1 DEF PrioChangedResched, Behind
      <4>. QED
        BY <4>1, <4>2
    <3>. QED
      BY <3>2, <3>3
  <2>6. StateOk(t) /\ Calm(a, t) /\ t.task = a.task /\ (t = resched_task(a, r) => t.rq[r].need_resched)
    <3>1. CASE t = resched_task(a, r)
      BY <3>1, ReschedOk
    <3>2. CASE t # resched_task(a, r)
      BY <2>5, <3>2 DEF Calm
    <3>. QED
      BY <3>1, <3>2
  <2>7. S' = t
    BY <2>3, <2>6, BecomeIs, StateQueues
  <2>8. Leads(c, a, t, m, p)
    BY <2>3, <2>4, <2>6, <2>7, GotoAt DEF Leads
  <2>9. Outcome(t, m, r, p, old, a.rq[r].curr)
    <3>1. CASE t = resched_task(a, r)
      BY <2>6, <3>1 DEF Outcome
    <3>2. CASE t = a /\ (a.rq[r].curr # p => Behind(a, r, p))
      <4>1. a.rq[r].curr = p => t.task[p].prio <= old
        BY <1>2, <1>4, <3>2, RtRunQueueAssumption
      <4>. QED
        BY <3>2, <4>1 DEF Outcome
    <3>. QED
      BY <2>5, <3>1, <3>2
  <2>. QED
    BY <1>1, <2>8, <2>9
<1>. QED
  BY <1>3, <1>4

(* check_class_changed, for a task that had the priority old.              *)
CheckChanged(c, a, r, p, old) == check_class_changed(c, a, r, p, IsRtClass(S, p), old)

(* Whatever the change was, it has been compared with what runs, or will   *)
(* be.                                                                     *)
LEMMA ClassChanged ==
    ASSUME pc \in [Cpu -> PcT], NEW c \in Cpu, NEW a, StateOk(a), NEW r \in Cpu, NEW p \in Task,
           NEW old \in 0 .. MAX_RT_PRIO, old = S.task[p].prio,
           CheckChanged(c, a, r, p, old)
    PROVE  \E t, m : Leads(c, a, t, m, p) /\ Outcome(t, m, r, p, old, a.rq[r].curr)
<1>1. a \in StateT /\ a.task[p].prio \in 0 .. MAX_RT_PRIO
  BY StateQueues, StateParts, TaskParts
<1>2. PICK l : l = StartAt(r, p)
  OBVIOUS
<1>3. l \in PcT /\ l.rq = r /\ l.pi = p /\ l.rest = <<>>
  BY <1>2, StartPlace
<1>4. /\ IsRtClass(S, p) <=> old < MAX_RT_PRIO
      /\ IsRtClass(a, p) <=> a.task[p].prio < MAX_RT_PRIO
  BY RtClass
<1>5. /\ old < MAX_RT_PRIO \/ old = MAX_RT_PRIO
      /\ a.task[p].prio < MAX_RT_PRIO \/ a.task[p].prio = MAX_RT_PRIO
      /\ ~(MAX_RT_PRIO < MAX_RT_PRIO)
  BY <1>1, RtRunQueueAssumption
<1>6. CASE a.task[p].on_rq /\ IsRtClass(S, p) /\ ~IsRtClass(a, p)
  <2>1. switched_from_rt(c, a, l)
    BY <1>2, <1>6 DEF CheckChanged, check_class_changed, StartAt
  <2>2. PICK m : Leads(c, a, a, m, p) /\ SwitchPlace(c, m, p, r)
    BY <1>3, <2>1, SwitchedFrom
  <2>3. Outcome(a, m, r, p, old, a.rq[r].curr)
    BY <1>4, <1>5, <1>6, <2>2 DEF Outcome, SwitchPlace
  <2>. QED
    BY <2>2, <2>3
<1>7. CASE a.task[p].on_rq /\ ~IsRtClass(S, p) /\ IsRtClass(a, p)
  <2>1. switched_to_rt(c, a, l)
    BY <1>2, <1>7 DEF CheckChanged, check_class_changed, StartAt
  <2>2. PICK m : Leads(c, a, a, m, p) /\ (a.rq[r].curr = p \/ SwitchPlace(c, m, p, r))
    BY <1>3, <2>1, SwitchedToRt
  <2>3. Outcome(a, m, r, p, old, a.rq[r].curr)
    <3>1. a.task[p].prio <= old
      BY <1>1, <1>4, <1>5, <1>7, RtRunQueueAssumption
    <3>. QED
      BY <1>4, <1>5, <1>7, <2>2, <3>1 DEF Outcome, SwitchPlace
  <2>. QED
    BY <2>2, <2>3
<1>8. CASE a.task[p].on_rq /\ IsRtClass(S, p) /\ IsRtClass(a, p) /\ old # a.task[p].prio
  <2>1. prio_changed_rt(c, a, l, old)
    BY <1>2, <1>8 DEF CheckChanged, check_class_changed, StartAt
  <2>. QED
    BY <1>3, <2>1, PrioChangedRt
<1>9. CASE /\ ~(a.task[p].on_rq /\ IsRtClass(S, p) /\ ~IsRtClass(a, p))
           /\ ~(a.task[p].on_rq /\ ~IsRtClass(S, p) /\ IsRtClass(a, p))
           /\ ~(a.task[p].on_rq /\ IsRtClass(S, p) /\ IsRtClass(a, p) /\ old # a.task[p].prio)
  <2>1. PICK m : m = Run
    OBVIOUS
  <2>2. Become(a) /\ Goto(c, m)
    BY <1>9, <2>1 DEF CheckChanged, check_class_changed
  <2>3. Leads(c, a, a, m, p)
    BY <2>1, <2>2, RunSettles, LeadsTo
  <2>4. a.task[p].on_rq => a.task[p].prio = old
    BY <1>4, <1>5, <1>9
  <2>5. Outcome(a, m, r, p, old, a.rq[r].curr)
    BY <2>4 DEF Outcome
  <2>. QED
    BY <2>3, <2>5
<1>. QED
  BY <1>6, <1>7, <1>8, <1>9

(* CPU c has changed the priority of p, and of no other task, on CPU r.    *)
Alters(s, t, P, P2, c, m, r, p) ==
    /\ At(P, P2, c, m) /\ P[c].at = "run" /\ Unheld(P, p)
    /\ r = s.task[p].cpu /\ PrioOnly(s, t) /\ Calm(s, t)
    /\ \A x \in Task \ {p} : t.task[x].prio = s.task[x].prio

(* On the other CPUs nothing that matters has changed.                     *)
LEMMA AltersElsewhere ==
    ASSUME NEW s, NEW t, NEW P, NEW P2, NEW M, NEW H, NEW H2, NEW e, NEW c \in Cpu, NEW m, NEW r \in Cpu,
           NEW p \in Task, InvOf(s, P, M, H, e), StateOk(t), Alters(s, t, P, P2, c, m, r, p),
           H2.unseen = H.unseen, NEW d \in Cpu, d # r
    PROVE  High(t, P2, H2, d)
<1>1. StateOk(s) /\ High(s, P, H, d) /\ CurrOk(s)
  BY DEF InvOf, StateOk
<1>2. s \in StateT /\ t \in StateT
  BY <1>1, StateQueues
<1>3. At(P, P2, c, m) /\ ~PickL(P[c]) /\ ~PrioL(P[c]) /\ ~SwitchL(P[c])
  BY DEF Alters, PickL, PrioL, SwitchL, Pushing
<1>4. Left(s, t, P, P2, H2, c, d)
  BY <1>3 DEF Left
<1>5. PriosKept(s, t, P, d)
  <2>1. ASSUME NEW x \in Task
        PROVE  /\ t.task[x].prio = s.task[x].prio \/ (Unheld(P, x) /\ s.rq[d].curr # x /\ ~Here(s, d, x))
               /\ Here(t, d, x) => Here(s, d, x)
    <3>1. Here(t, d, x) => Here(s, d, x)
      BY DEF Alters, PrioOnly, Here
    <3>2. CASE x # p
      BY <3>1, <3>2 DEF Alters
    <3>3. CASE x = p
      BY <1>1, <3>1, <3>3 DEF Alters, CurrOk, Here
    <3>. QED
      BY <3>2, <3>3
  <2>. QED
    BY <2>1 DEF PriosKept
<1>6. /\ t.rq[d].curr = s.rq[d].curr /\ t.rq[d].rt_throttled = s.rq[d].rt_throttled
      /\ s.rq[d].need_resched => t.rq[d].need_resched
      /\ d \in H.unseen => d \in H2.unseen
  BY DEF Alters, Calm
<1>. QED
  BY <1>1, <1>2, <1>3, <1>4, <1>5, <1>6, HighLeft

(* What excuses CPU r is still there.                                      *)
LEMMA AltersExcused ==
    ASSUME NEW s, NEW t, NEW P, NEW P2, NEW H, NEW H2, NEW c \in Cpu, NEW m, NEW r \in Cpu,
           NEW p \in Task, Alters(s, t, P, P2, c, m, r, p), H2.unseen = H.unseen, Excused(s, P, H, r)
    PROVE  Excused(t, P2, H2, r)
<1>1. /\ ~PrioL(P[c]) /\ ~SwitchL(P[c]) /\ \A e \in Cpu \ {c} : P2[e] = P[e]
      /\ t.rq[r].curr = s.rq[r].curr /\ (s.rq[r].need_resched => t.rq[r].need_resched)
      /\ \A x \in Task \ {p} : t.task[x].prio = s.task[x].prio
  BY DEF Alters, At, Calm, PrioL, SwitchL, Pushing
<1>2. CASE s.rq[r].need_resched \/ r \in H.unseen
  BY <1>1, <1>2 DEF Excused
<1>3. CASE \E e \in Cpu : P[e].rq = r /\ PrioL(P[e])
  BY <1>1, <1>3 DEF Excused
<1>4. CASE Lowered(s, P, r)
  <2>1. PICK e \in Cpu : /\ P[e].rq = r /\ SwitchL(P[e]) /\ P[e].pi \in Task
                         /\ P[e].pi = s.rq[r].curr /\ s.task[P[e].pi].prio = MAX_RT_PRIO
    BY <1>4 DEF Lowered
  <2>2. P2[e] = P[e] /\ P[e].pi # p
    BY <1>1, <2>1 DEF Alters, Unheld
  <2>3. Lowered(t, P2, r)
    BY <1>1, <2>1, <2>2 DEF Lowered
  <2>. QED
    BY <2>3 DEF Excused
<1>. QED
  BY <1>2, <1>3, <1>4 DEF Excused

(* On CPU r the change has been compared with what runs, or will be.       *)
LEMMA AltersHere ==
    ASSUME NEW s, NEW t, NEW P, NEW P2, NEW M, NEW H, NEW H2, NEW e, NEW c \in Cpu, NEW m, NEW r \in Cpu,
           NEW p \in Task, InvOf(s, P, M, H, e), StateOk(t), Alters(s, t, P, P2, c, m, r, p),
           H2.unseen = H.unseen, NEW old, old = s.task[p].prio, Outcome(t, m, r, p, old, s.rq[r].curr)
    PROVE  High(t, P2, H2, r)
<1>0. SUFFICES ASSUME ~PickL(P2[r]), ~Excused(t, P2, H2, r), NEW x \in Task, Here(t, r, x)
               PROVE  Raised(P2, r, x) \/ Behind(t, r, x)
  BY DEF High
<1>1. StateOk(s) /\ High(s, P, H, r) /\ States(s, P) /\ P2[c] = m /\ ~PickL(P[c])
  BY DEF InvOf, Alters, At, PickL
<1>2. s \in StateT /\ t \in StateT
  BY <1>1, StateQueues
<1>3. ~PickL(P[r]) /\ ~Excused(s, P, H, r)
  BY <1>0, <1>1, AltersExcused DEF Alters, At
<1>4. Here(s, r, x)
  BY <1>0 DEF Alters, PrioOnly, Here
<1>5. Raised(P, r, x) \/ Behind(s, r, x)
  BY <1>1, <1>3, <1>4 DEF High
<1>6. PICK u \in Task \cup {Idle, Stopper} : u = s.rq[r].curr /\ u = t.rq[r].curr
  BY <1>2, StateParts, RqParts DEF Alters, Calm
<1>7. /\ PrioOf(s, u) \in 0 .. MAX_PRIO /\ PrioOf(t, u) \in 0 .. MAX_PRIO
      /\ u # p => PrioOf(t, u) = PrioOf(s, u)
      /\ u = p => PrioOf(s, u) = old /\ PrioOf(t, u) = t.task[p].prio
  <2>1. /\ PrioOf(s, u) \in 0 .. MAX_PRIO /\ (u \in Task => PrioOf(s, u) = s.task[u].prio)
        /\ u = Idle => PrioOf(s, u) = MAX_PRIO
        /\ u = Stopper => PrioOf(s, u) = 0
    BY <1>2, <1>6, ClassFacts
  <2>2. /\ PrioOf(t, u) \in 0 .. MAX_PRIO /\ (u \in Task => PrioOf(t, u) = t.task[u].prio)
        /\ u = Idle => PrioOf(t, u) = MAX_PRIO
        /\ u = Stopper => PrioOf(t, u) = 0
    BY <1>2, <1>6, ClassFacts
  <2>. QED
    BY <1>6, <2>1, <2>2, ZenonT(30) DEF Alters
<1>8. /\ t.task[x].prio \in 0 .. MAX_RT_PRIO /\ t.task[p].prio \in 0 .. MAX_RT_PRIO
      /\ s.task[x].prio \in 0 .. MAX_RT_PRIO /\ old \in 0 .. MAX_RT_PRIO
  BY <1>2, StateParts, TaskParts
<1>9. MAX_RT_PRIO \in Nat /\ MAX_PRIO \in Nat
  BY RtRunQueueAssumption DEF MAX_PRIO
<1>10. /\ ~t.rq[r].need_resched
       /\ ~(SwitchL(m) /\ m.rq = r /\ m.pi = p /\ t.task[p].prio = MAX_RT_PRIO /\ u = p)
       /\ ~(PrioL(m) /\ m.rq = r)
  BY <1>0, <1>1, <1>6 DEF Excused, Lowered
<1>11. CASE x # p
  <2>1. t.task[x].prio = s.task[x].prio
    BY <1>11 DEF Alters
  <2>2. CASE Raised(P, r, x)
    <3>1. PICK f \in Cpu : P[f].rq = r /\ SwitchL(P[f]) /\ P[f].pi = x
      BY <2>2 DEF Raised
    <3>2. f # c
      BY <3>1 DEF Alters, SwitchL, Pushing
    <3>3. P2[f] = P[f]
      BY <3>2 DEF Alters, At
    <3>. QED
      BY <2>1, <2>2, <3>1, <3>3 DEF Raised
  <2>3. CASE Behind(s, r, x)
    <3>0. CASE Held(s, r, x)
      BY <2>1, <3>0 DEF Held, Behind, Alters, Calm
    <3>1. SUFFICES ASSUME PrioOf(s, u) <= s.task[x].prio PROVE Behind(t, r, x)
      BY <1>6, <2>3, <3>0 DEF Behind
    <3>2. CASE u # p
      BY <1>6, <1>7, <2>1, <3>1, <3>2 DEF Behind
    <3>3. CASE u = p
      <4>1. s.task[p].on_rq
        BY <1>1, <1>3, <1>6, <3>3 DEF States
      <4>2. t.task[p].on_rq
        BY <4>1 DEF Alters, PrioOnly
      <4>3. t.task[p].prio <= old
        BY <1>6, <1>8, <1>9, <1>10, <3>3, <4>2 DEF Outcome
      <4>4. PrioOf(t, u) <= t.task[x].prio
        BY <1>7, <1>8, <1>9, <2>1, <3>1, <3>3, <4>3
      <4>. QED
        BY <1>6, <4>4 DEF Behind
    <3>. QED
      BY <3>2, <3>3
  <2>. QED
    BY <1>5, <2>2, <2>3
<1>12. CASE x = p
  <2>1. CASE u = p
    BY <1>6, <1>7, <1>8, <1>9, <1>12, <2>1 DEF Behind
  <2>2. CASE u # p
    <3>1. Behind(s, r, p)
      BY <1>5, <1>12 DEF Raised, Alters, Unheld
    <3>2. CASE SwitchL(m) /\ m.rq = r /\ m.pi = p
      BY <1>1, <1>12, <3>2 DEF Raised
    <3>3. CASE Behind(t, r, p)
      BY <1>12, <3>3
    <3>4. CASE t.task[p].prio = old
      <4>1. t.rq[r].rt_throttled = s.rq[r].rt_throttled
        BY DEF Alters, Calm
      <4>. QED
        BY <1>6, <1>7, <1>12, <2>2, <3>1, <3>4, <4>1 DEF Behind, Held
    <3>5. t.task[p].on_rq
      BY <1>0, <1>12 DEF Here
    <3>6. \/ SwitchL(m) /\ m.rq = r /\ m.pi = p
          \/ Behind(t, r, p)
          \/ t.task[p].prio = old
      BY <1>6, <1>10, <2>2, <3>5 DEF Outcome
    <3>. QED
      BY <3>2, <3>3, <3>4, <3>6
  <2>. QED
    BY <2>1, <2>2
<1>. QED
  BY <1>11, <1>12

(* v is the task w but for its policy and its priorities.                  *)
Retuned(w, v) ==
    /\ v.cpu = w.cpu /\ v.on_rq = w.on_rq /\ v.on_cpu = w.on_cpu /\ v.state = w.state
    /\ v.allowed = w.allowed

(* A change of policy or priority is on record.                            *)
MarksChange == hist' = [hist EXCEPT !.changed = TRUE] /\ mig' = mig

(* __sched_setscheduler and rt_mutex_setprio.                              *)
LEMMA ChangeInv ==
    ASSUME SchedInv, NEW c \in Cpu, NEW p \in Task, NEW v \in TaskT, Retuned(task[p], v),
           NEW head \in BOOLEAN, pc[c].at = "run", task[p].state # "unborn", ChangePrio(c, p, v, head),
           MarksChange, Event
    PROVE  SchedInv'
<1>1. /\ StateOk(S) /\ S \in StateT /\ Places(pc) /\ pc \in [Cpu -> PcT] /\ S.task = task /\ S.rq = rq
      /\ Sane(mig, hist, events) /\ PlaceOk(c, pc[c]) /\ InvOf(S, pc, mig, hist, events)
  BY InvParts
<1>2. PICK r \in Cpu : r = S.task[p].cpu
  BY <1>1, StateParts, TaskParts
<1>3. PICK old \in 0 .. MAX_RT_PRIO : old = S.task[p].prio
  BY <1>1, StateParts, TaskParts
<1>4. PICK a : a = Changed(S, r, p, v, head)
  OBVIOUS
<1>5. CheckChanged(c, a, r, p, old)
  BY <1>1, <1>2, <1>3, <1>4 DEF ChangePrio, Changed, CheckChanged
<1>6. Unheld(pc, p)
  BY DEF ChangePrio, PiFree, Unheld
<1>7. v.cpu = r /\ v.on_rq = S.task[p].on_rq /\ v.on_cpu = S.task[p].on_cpu
  BY <1>1, <1>2 DEF Retuned
<1>8. StateOk(a) /\ KeepRq(S, a) /\ Sets(S, a, p, v)
  BY <1>1, <1>2, <1>4, <1>7, ChangeOk
<1>9. PICK t, m : Leads(c, a, t, m, p) /\ Outcome(t, m, r, p, old, a.rq[r].curr)
  BY <1>1, <1>3, <1>5, <1>8, ClassChanged
<1>10. /\ S' = t /\ StateOk(t) /\ Calm(a, t) /\ t.task = a.task /\ At(pc, pc', c, m)
       /\ PlaceOk(c, m) /\ m.rest = <<>> /\ m.at \notin {"ttwu", "ttwu_queue"} /\ m.pi \in {NoTask, p}
  BY <1>9 DEF Leads, Settles
<1>11. Calm(S, t)
  BY <1>8, <1>10 DEF Calm, KeepRq
<1>12. PrioOnly(S, t) /\ \A x \in Task \ {p} : t.task[x].prio = S.task[x].prio
  BY <1>1, <1>8, <1>10 DEF PrioOnly, Sets, Retuned
<1>13. Alters(S, t, pc, pc', c, m, r, p)
  BY <1>2, <1>6, <1>10, <1>11, <1>12 DEF Alters
<1>14. Outcome(t, m, r, p, old, S.rq[r].curr)
  BY <1>8, <1>9 DEF KeepRq
<1>15. /\ hist'.unseen = hist.unseen /\ hist'.waking = hist.waking /\ Sane(mig, hist', events) /\ mig' = mig
  BY <1>1 DEF Sane, MarksChange
<1>16. Sane(mig, hist', events')
  BY <1>15, EventSane
<1>17. ASSUME NEW d \in Cpu PROVE High(t, pc', hist', d)
  <2>1. CASE d # r
    BY <1>1, <1>10, <1>13, <1>15, <2>1, AltersElsewhere
  <2>2. CASE d = r
    BY <1>1, <1>3, <1>10, <1>13, <1>14, <1>15, <2>2, AltersHere
  <2>. QED
    BY <2>1, <2>2
<1>18. PiOk(pc, c, m, t)
  BY <1>1, <1>6, <1>10, <1>12 DEF PiOk, PrioOnly
<1>19. /\ pc[c].rest = <<>> /\ ~PickL(pc[c]) /\ pc[c].at \notin {"ttwu", "ttwu_queue"}
  BY <1>1 DEF PlaceOk, PickL, Pushing
<1>20. InvOf(t, pc', mig, hist', events')
  BY <1>1, <1>10, <1>11, <1>12, <1>15, <1>16, <1>17, <1>18, <1>19, PrioStep
<1>. QED
  BY <1>10, <1>15, <1>20 DEF SchedInv

(* sched_setscheduler.                                                     *)
LEMMA SetSchedulerInv ==
    ASSUME SchedInv, NEW c \in Cpu, NEW p \in Task, NEW policy \in Policy,
           NEW rt_priority \in 0 .. (MAX_RT_PRIO - 1), NEW reset \in BOOLEAN,
           SetScheduler(c, p, policy, rt_priority, reset)
    PROVE  SchedInv'
<1>1. S \in StateT /\ S.task = task
  BY InvParts
<1>2. PICK w \in TaskT : w = task[p]
  BY <1>1, StateParts
<1>3. PICK b \in BOOLEAN : b = FALSE
  OBVIOUS
<1>4. PICK v : v = [setscheduler_(w, policy, rt_priority) EXCEPT !.reset_on_fork = reset]
  OBVIOUS
<1>5. /\ Event /\ pc[c].at = "run" /\ task[p].state # "unborn" /\ ChangePrio(c, p, v, b) /\ MarksChange
  BY <1>2, <1>3, <1>4 DEF SetScheduler, MarksChange
<1>6. PICK n \in 0 .. MAX_RT_PRIO : n = normal_prio(policy, rt_priority)
  <2>1. MAX_RT_PRIO \in 0 .. MAX_RT_PRIO /\ MAX_RT_PRIO - 1 - rt_priority \in 0 .. MAX_RT_PRIO
    BY RtRunQueueAssumption
  <2>2. normal_prio(policy, rt_priority) \in 0 .. MAX_RT_PRIO
    BY <2>1 DEF normal_prio
  <2>. QED
    BY <2>2
<1>7. PICK x \in 0 .. MAX_RT_PRIO : x = IF n < w.boost THEN n ELSE w.boost
  <2>1. w.boost \in 0 .. MAX_PRIO
    BY DEF TaskT
  <2>. QED
    BY <2>1, RtRunQueueAssumption DEF MAX_PRIO
<1>8. v = [w EXCEPT !.policy = policy, !.normal_prio = n, !.prio = x, !.reset_on_fork = reset]
  BY <1>4, <1>6, <1>7 DEF setscheduler_, TaskT
<1>9. v \in TaskT /\ Retuned(w, v)
  BY <1>8 DEF TaskT, Retuned
<1>. QED
  BY <1>2, <1>5, <1>9, ChangeInv

(* rt_mutex_setprio.                                                       *)
LEMMA SetPrioInv ==
    ASSUME SchedInv, NEW c \in Cpu, NEW p \in Task, NEW boost \in 0 .. MAX_PRIO, SetPrio(c, p, boost)
    PROVE  SchedInv'
<1>1. S \in StateT /\ S.task = task
  BY InvParts
<1>2. PICK w \in TaskT : w = task[p]
  BY <1>1, StateParts
<1>3. w.normal_prio \in 0 .. MAX_RT_PRIO
  BY DEF TaskT
<1>4. PICK x \in 0 .. MAX_RT_PRIO : x = IF w.normal_prio < boost THEN w.normal_prio ELSE boost
  BY <1>3, RtRunQueueAssumption DEF MAX_PRIO
<1>5. PICK b \in BOOLEAN : b = (w.prio < x)
  <2>1. PICK y : y = (w.prio < x)
    OBVIOUS
  <2>2. y \in BOOLEAN
    BY <2>1
  <2>. QED
    BY <2>1, <2>2
<1>6. PICK v : v = [w EXCEPT !.boost = boost, !.prio = x]
  OBVIOUS
<1>7. /\ Event /\ pc[c].at = "run" /\ task[p].state # "unborn" /\ ChangePrio(c, p, v, b) /\ MarksChange
  BY <1>2, <1>4, <1>5, <1>6 DEF SetPrio, MarksChange
<1>8. v \in TaskT /\ Retuned(w, v)
  BY <1>6 DEF TaskT, Retuned
<1>. QED
  BY <1>2, <1>7, <1>8, ChangeInv

-----------------------------------------------------------------------------
(* The initial states, and every step.                                     *)

(* The tasks are asleep or not born, and on no CPU.                        *)
LEMMA InitTasks ==
    ASSUME Init
    PROVE  /\ task \in [Task -> TaskT]
           /\ \A p \in Task : /\ ~task[p].on_rq /\ ~task[p].on_cpu
                              /\ task[p].state \in {"sleep", "unborn"}
<1>1. PICK f \in InitParams :
          task = [p \in Task |->
                    LET prio == normal_prio(f[p].policy, f[p].rt_priority)
                    IN  [policy |-> f[p].policy, normal_prio |-> prio, prio |-> prio,
                         boost |-> MAX_PRIO, reset_on_fork |-> f[p].reset, cpu |-> 0,
                         state |-> IF f[p].born THEN "sleep" ELSE "unborn",
                         on_rq |-> FALSE, on_cpu |-> FALSE, allowed |-> Cpu,
                         time_slice |-> DEF_TIMESLICE]]
  BY DEF Init
<1>2. 0 \in Cpu /\ MAX_PRIO \in 0 .. MAX_PRIO /\ DEF_TIMESLICE \in 1 .. DEF_TIMESLICE
  BY RtRunQueueAssumption, RtSchedAssumption DEF Cpu, MAX_PRIO
<1>3. Cpu \in (SUBSET Cpu) \ {{}}
  BY <1>2
<1>4. ASSUME NEW p \in Task
      PROVE  /\ task[p] \in TaskT /\ ~task[p].on_rq /\ ~task[p].on_cpu
             /\ task[p].state \in {"sleep", "unborn"}
  <2>1. f[p].policy \in Policy /\ f[p].rt_priority \in RtPrio /\ f[p].reset \in BOOLEAN
    BY RtSchedAssumption
  <2>2. PICK n \in 0 .. MAX_RT_PRIO : n = normal_prio(f[p].policy, f[p].rt_priority)
    <3>1. MAX_RT_PRIO \in 0 .. MAX_RT_PRIO /\ MAX_RT_PRIO - 1 - f[p].rt_priority \in 0 .. MAX_RT_PRIO
      BY <2>1, RtRunQueueAssumption DEF RtPrio
    <3>2. normal_prio(f[p].policy, f[p].rt_priority) \in 0 .. MAX_RT_PRIO
      BY <3>1 DEF normal_prio
    <3>. QED
      BY <3>2
  <2>3. PICK z \in {"sleep", "unborn"} : z = IF f[p].born THEN "sleep" ELSE "unborn"
    OBVIOUS
  <2>4. task[p] = [policy |-> f[p].policy, normal_prio |-> n, prio |-> n,
                   boost |-> MAX_PRIO, reset_on_fork |-> f[p].reset, cpu |-> 0,
                   state |-> z, on_rq |-> FALSE, on_cpu |-> FALSE, allowed |-> Cpu,
                   time_slice |-> DEF_TIMESLICE]
    BY <1>1, <2>2, <2>3
  <2>. QED
    BY <1>2, <1>3, <2>1, <2>4 DEF TaskT
<1>. QED
  BY <1>1, <1>4

(* The run queues are empty.                                               *)
LEMMA InitQueues ==
    ASSUME Init
    PROVE  /\ rq \in [Cpu -> RqT] /\ rto_mask = {} /\ cpupri \in [Cpu -> 0 .. MAX_RT_PRIO]
           /\ \A c \in Cpu : /\ \A i \in RtPrio : rq[c].queue[i] = <<>>
                             /\ rq[c].bitmap = {} /\ rq[c].rt_nr_running = 0 /\ rq[c].rt_nr_migratory = 0
                             /\ ~rq[c].overloaded /\ rq[c].hp_curr = MAX_RT_PRIO /\ rq[c].pushable = <<>>
                             /\ rq[c].curr = Idle /\ rq[c].wake_list = <<>> /\ cpupri[c] = MAX_RT_PRIO
<1>1. <<>> \in Seq(Task) /\ MAX_RT_PRIO \in 0 .. MAX_RT_PRIO
  BY RtRunQueueAssumption
<1>2. [i \in RtPrio |-> <<>>] \in [RtPrio -> Seq(Task)]
  BY <1>1
<1>3. PICK q : q = [queue |-> [i \in RtPrio |-> <<>>], bitmap |-> {}, rt_nr_running |-> 0,
                    rt_nr_migratory |-> 0, overloaded |-> FALSE, hp_curr |-> MAX_RT_PRIO,
                    hp_next |-> MAX_RT_PRIO, pushable |-> <<>>, curr |-> Idle,
                    rt_throttled |-> FALSE, need_resched |-> FALSE, stop |-> FALSE,
                    post_schedule |-> FALSE, wake_list |-> <<>>, ipi |-> FALSE]
  OBVIOUS
<1>4. q \in RqT
  BY <1>1, <1>2, <1>3 DEF RqT
<1>5. /\ rq = [c \in Cpu |-> q] /\ cpupri = [c \in Cpu |-> MAX_RT_PRIO] /\ rto_mask = {}
  BY <1>3 DEF Init
<1>6. /\ \A i \in RtPrio : q.queue[i] = <<>>
      /\ q.bitmap = {} /\ q.rt_nr_running = 0 /\ q.rt_nr_migratory = 0
      /\ ~q.overloaded /\ q.hp_curr = MAX_RT_PRIO /\ q.pushable = <<>>
      /\ q.curr = Idle /\ q.wake_list = <<>>
  BY <1>3
<1>. QED
  BY <1>1, <1>4, <1>5, <1>6

(* The lists are empty and the CPUs idle.                                  *)
LEMMA InitState ==
    ASSUME Init PROVE StateOk(S)
<1>1. /\ task \in [Task -> TaskT] /\ \A p \in Task : ~task[p].on_rq /\ ~task[p].on_cpu
  BY InitTasks
<1>2. /\ rq \in [Cpu -> RqT] /\ rto_mask = {} /\ cpupri \in [Cpu -> 0 .. MAX_RT_PRIO]
      /\ \A c \in Cpu : /\ \A i \in RtPrio : rq[c].queue[i] = <<>>
                        /\ rq[c].bitmap = {} /\ rq[c].rt_nr_running = 0 /\ rq[c].rt_nr_migratory = 0
                        /\ ~rq[c].overloaded /\ rq[c].hp_curr = MAX_RT_PRIO /\ rq[c].pushable = <<>>
                        /\ rq[c].curr = Idle /\ rq[c].wake_list = <<>> /\ cpupri[c] = MAX_RT_PRIO
  BY InitQueues
<1>3. /\ S \in StateT /\ S.task = task /\ S.rq = rq /\ S.cpupri = cpupri /\ S.rto_mask = {}
  BY <1>1, <1>2 DEF S, StateT
<1>4. RtQueued(S) = {}
  BY <1>1, <1>3 DEF RtQueued
<1>5. NoDup(<<>>) /\ Members(<<>>) = {}
  BY DEF NoDup, Members
<1>6. Listed(S, {})
  BY <1>2, <1>3, <1>5 DEF Listed
<1>7. ASSUME NEW c \in Cpu PROVE Counts(S, {}, c) /\ Highest(S, {}, c) /\ Overload(S, c) /\ Pushables(S, {}, c)
  <2>1. On(S, {}, c) = {} /\ Migratory(S, {}, c) = {}
    BY DEF On, Migratory
  <2>2. Cardinality({}) = 0
    BY FS_EmptySet
  <2>3. Counts(S, {}, c)
    BY <1>2, <1>3, <2>1, <2>2 DEF Counts
  <2>4. Highest(S, {}, c)
    BY <1>2, <1>3, <2>1 DEF Highest
  <2>5. Overload(S, c)
    BY <1>2, <1>3 DEF Overload
  <2>6. Pushables(S, {}, c)
    BY <1>2, <1>3, <1>5 DEF Pushables
  <2>. QED
    BY <2>3, <2>4, <2>5, <2>6
<1>8. QueuesOk(S, RtQueued(S))
  BY <1>3, <1>4, <1>6, <1>7 DEF QueuesOk
<1>9. CurrOk(S)
  BY <1>1, <1>2, <1>3, RtRunQueueAssumption DEF CurrOk
<1>. QED
  BY <1>8, <1>9 DEF StateOk

(* The initial states satisfy the invariant.                               *)
LEMMA InitInv ==
    ASSUME Init PROVE SchedInv
<1>1. StateOk(S) /\ S.task = task /\ S.rq = rq
  BY InitState DEF S
<1>2. \A p \in Task : ~task[p].on_rq /\ ~task[p].on_cpu /\ task[p].state \in {"sleep", "unborn"}
  BY InitTasks
<1>3. \A c \in Cpu : rq[c].curr = Idle /\ rq[c].wake_list = <<>>
  BY InitQueues
<1>4. PICK m : m = Run
  OBVIOUS
<1>5. /\ pc = [c \in Cpu |-> m] /\ mig = {} /\ hist = [unseen |-> {}, changed |-> FALSE, waking |-> {}]
      /\ events = 0
  BY <1>4 DEF Init
<1>6. \A c \in Cpu : m \in PcT /\ PlaceOk(c, m) /\ m.rest = <<>> /\ m.pi = NoTask /\ m.at = "run"
  BY <1>4, RunOk, ZenonT(30)
<1>7. pc \in [Cpu -> PcT] /\ \A c \in Cpu : pc[c] = m
  BY <1>5, <1>6
<1>8. Places(pc)
  BY <1>6, <1>7 DEF Places
<1>9. Unborn(S, pc)
  BY <1>6, <1>7, RtRunQueueAssumption DEF Unborn, Unheld
<1>10. NoDup(<<>>) /\ Members(<<>>) = {}
  BY DEF NoDup, Members
<1>11. States(S, pc)
  <2>1. ASSUME NEW p \in Task PROVE TaskStateOk(S, p)
    BY <1>1, <1>2 DEF TaskStateOk
  <2>2. ASSUME NEW c \in Cpu PROVE S.rq[c].curr \notin Task /\ TtwuOk(S, pc[c])
    BY <1>1, <1>3, <1>6, <1>7, RtRunQueueAssumption DEF TtwuOk
  <2>. QED
    BY <2>1, <2>2 DEF States
<1>12. Wakeups(S, pc)
  BY <1>1, <1>2, <1>3, <1>6, <1>7, <1>10 DEF Wakeups, Waits
<1>13. Affinity(S, mig, hist)
  BY <1>1, <1>2 DEF Affinity, Placed
<1>14. Sane(mig, hist, events)
  BY <1>5, RtSchedAssumption DEF Sane
<1>15. \A d \in Cpu : High(S, pc, hist, d)
  BY <1>1, <1>2 DEF High, Here
<1>. QED
  BY <1>1, <1>8, <1>9, <1>11, <1>12, <1>13, <1>14, <1>15 DEF SchedInv, InvOf

(* The steps that a CPU takes by itself.                                   *)
LEMMA StepInv ==
    ASSUME SchedInv, NEW c \in Cpu, Step(c) PROVE SchedInv'
<1>1. CASE PullTask(c)
  BY <1>1, PullTaskInv
<1>2. CASE PushTask(c)
  BY <1>2, PushTaskInv
<1>3. CASE PushLocked(c)
  BY <1>3, PushLockedInv
<1>4. CASE PickNext(c)
  BY <1>4, PickNextInv
<1>5. CASE PostSchedule(c)
  BY <1>5, PostScheduleInv
<1>6. CASE TtwuPlace(c)
  BY <1>6, TtwuPlaceInv
<1>7. CASE TtwuQueue(c)
  BY <1>7, TtwuQueueInv
<1>8. CASE TtwuPending(c)
  BY <1>8, TtwuPendingInv
<1>9. CASE PrioChanged(c)
  BY <1>9, PrioChangedInv
<1>10. CASE SwitchedTo(c)
  BY <1>10, SwitchedToInv
<1>. QED
  BY <1>1, <1>2, <1>3, <1>4, <1>5, <1>6, <1>7, <1>8, <1>9, <1>10 DEF Step

(* What enters the scheduler.                                              *)
LEMMA EnterInv ==
    ASSUME SchedInv, NEW c \in Cpu, Enter(c) PROVE SchedInv'
<1>1. CASE Preempt(c)
  BY <1>1, PreemptInv
<1>2. CASE Sleep(c)
  BY <1>2, SleepInv
<1>3. CASE SchedulerIpi(c)
  BY <1>3, SchedulerIpiInv
<1>4. CASE WakeStopper(c)
  BY <1>4, WakeStopperInv
<1>5. CASE \E m \in mig : MigrationCpuStop(c, m)
  BY <1>5, MigrationCpuStopInv
<1>6. CASE SleepInterrupted(c)
  BY <1>6, SleepInterruptedInv
<1>7. CASE SetState(c)
  BY <1>7, SetStateInv
<1>8. CASE Tick(c)
  BY <1>8, TickInv
<1>9. CASE Yield(c)
  BY <1>9, YieldInv
<1>10. CASE \E p \in Task : TryToWakeUp(c, p)
  BY <1>10, TryToWakeUpInv
<1>11. CASE \E p \in Task, policy \in Policies, rt_priority \in RtPrio, reset \in ResetFlags :
               SetScheduler(c, p, policy, rt_priority, reset)
  <2>1. PICK p \in Task, policy \in Policies, rt_priority \in RtPrio, reset \in ResetFlags :
            SetScheduler(c, p, policy, rt_priority, reset)
    BY <1>11
  <2>2. policy \in Policy /\ reset \in BOOLEAN /\ rt_priority \in 0 .. (MAX_RT_PRIO - 1)
    BY RtSchedAssumption DEF RtPrio
  <2>. QED
    BY <2>1, <2>2, SetSchedulerInv
<1>12. CASE \E p \in Task, boost \in {task[q].prio : q \in Task} \cup {MAX_PRIO} : SetPrio(c, p, boost)
  <2>1. PICK p \in Task, boost \in {task[q].prio : q \in Task} \cup {MAX_PRIO} : SetPrio(c, p, boost)
    BY <1>12
  <2>2. S \in StateT /\ S.task = task
    BY InvParts
  <2>3. \A q \in Task : task[q].prio \in 0 .. MAX_RT_PRIO
    BY <2>2, StateParts, TaskParts
  <2>4. boost \in 0 .. MAX_PRIO
    BY <2>3, RtRunQueueAssumption DEF MAX_PRIO
  <2>. QED
    BY <2>1, <2>4, SetPrioInv
<1>13. CASE \E p \in Task, mask \in Masks : SetCpusAllowed(c, p, mask)
  BY <1>13, SetCpusAllowedInv
<1>14. CASE \E p \in Task : Fork(c, p)
  BY <1>14, ForkInv
<1>15. CASE Throttle(c)
  BY <1>15, ThrottleInv
<1>16. CASE Unthrottle(c)
  BY <1>16, UnthrottleInv
<1>. QED
  BY <1>1, <1>2, <1>3, <1>4, <1>5, <1>6, <1>7, <1>8, <1>9, <1>10, <1>11, <1>12, <1>13, <1>14,
     <1>15, <1>16 DEF Enter

(* Nothing changes once the bound on the events is used up.                *)
LEMMA StutterInv ==
    ASSUME SchedInv, UNCHANGED vars PROVE SchedInv'
<1>1. S' = S /\ pc' = pc /\ mig' = mig /\ hist' = hist /\ events' = events
  BY DEF vars, S
<1>. QED
  BY <1>1 DEF SchedInv

-----------------------------------------------------------------------------
(* The theorems.                                                           *)

(* The lists, the cached values, the program counters and the wake-ups     *)
(* satisfy the inductive invariant in every reachable state, for every     *)
(* number of CPUs, tasks, priorities and events.                           *)
THEOREM SchedInvariant == Spec => []SchedInv
<1>1. Init => SchedInv
  BY InitInv
<1>2. SchedInv /\ [Next]_vars => SchedInv'
  <2>1. ASSUME SchedInv, NEW c \in Cpu, Step(c) \/ Enter(c) PROVE SchedInv'
    BY <2>1, StepInv, EnterInv
  <2>2. ASSUME SchedInv, Settled PROVE SchedInv'
    BY <2>2, StutterInv DEF Settled
  <2>3. ASSUME SchedInv, UNCHANGED vars PROVE SchedInv'
    BY <2>3, StutterInv
  <2>. QED
    BY <2>1, <2>2, <2>3 DEF Next
<1>. QED
  BY <1>1, <1>2, PTL DEF Spec

(* The parts of the state that TypeOK names.                               *)
LEMMA InvType ==
    ASSUME SchedInv PROVE TypeOK
<1>1. S \in StateT /\ pc \in [Cpu -> PcT] /\ Sane(mig, hist, events) /\ S.task = task /\ S.rq = rq
  BY InvParts
<1>2. S.cpupri = cpupri /\ S.rto_mask = rto_mask
  BY DEF S
<1>3. task \in [Task -> TaskT] /\ cpupri \in [Cpu -> 0 .. MAX_RT_PRIO] /\ rto_mask \subseteq Cpu
  BY <1>1, <1>2 DEF StateT
<1>4. ASSUME NEW c \in Cpu
      PROVE  /\ \A i \in RtPrio : Members(rq[c].queue[i]) \subseteq Task
             /\ Members(rq[c].pushable) \cup Members(rq[c].wake_list) \subseteq Task
             /\ rq[c].hp_curr \in 0 .. MAX_RT_PRIO /\ rq[c].hp_next \in 0 .. MAX_RT_PRIO
             /\ rq[c].curr \in Task \cup {Idle, Stopper}
             /\ pc[c].pi \in Task \cup {NoTask} /\ pc[c].p \in Task \cup {NoTask}
  <2>1. rq[c] \in RqT
    BY <1>1, StateParts
  <2>2. /\ rq[c].queue \in [RtPrio -> Seq(Task)] /\ rq[c].pushable \in Seq(Task)
        /\ rq[c].wake_list \in Seq(Task) /\ rq[c].hp_curr \in 0 .. MAX_RT_PRIO
        /\ rq[c].hp_next \in 0 .. MAX_RT_PRIO /\ rq[c].curr \in Task \cup {Idle, Stopper}
    BY <2>1 DEF RqT
  <2>3. \A q \in Seq(Task) : Members(q) \subseteq Task
    BY DEF Members
  <2>4. pc[c].pi \in Task \cup {NoTask} /\ pc[c].p \in Task \cup {NoTask}
    BY <1>1, ZenonT(30) DEF PcT
  <2>. QED
    BY <2>2, <2>3, <2>4
<1>5. mig \subseteq [task : Task, src : Cpu, dest : Cpu] /\ events \in 0 .. MaxEvents
  BY <1>1 DEF Sane
<1>. QED
  BY <1>3, <1>4, <1>5 DEF TypeOK, TaskT

(* Type correctness of the real-time scheduler's state.                    *)
THEOREM TypeCorrect == Spec => []TypeOK
BY SchedInvariant, InvType, PTL

(* The least bit that is set in a bitmap of priorities.                    *)
LeastBit(b, h) == (h \in b \/ h = MAX_RT_PRIO) /\ \A i \in b : h <= i

(* The least bit is the one sched_find_first_bit finds.                    *)
LEMMA LeastIsFirst ==
    ASSUME NEW b \in SUBSET RtPrio, NEW h \in 0 .. MAX_RT_PRIO, LeastBit(b, h)
    PROVE  h = sched_find_first_bit(b)
<1>1. PICK g : g = sched_find_first_bit(b)
  OBVIOUS
<1>2. g \in 0 .. MAX_RT_PRIO /\ (b # {} => g \in b) /\ \A i \in b : g <= i
  BY <1>1, FirstBit
<1>3. CASE b = {}
  BY <1>3 DEF sched_find_first_bit, LeastBit
<1>4. CASE b # {}
  <2>1. h <= g /\ g < MAX_RT_PRIO
    BY <1>2, <1>4, RtRunQueueAssumption DEF LeastBit, RtPrio
  <2>2. g <= h
    BY <1>2, <2>1, RtRunQueueAssumption DEF LeastBit
  <2>. QED
    BY <1>1, <1>2, <2>1, <2>2, RtRunQueueAssumption
<1>. QED
  BY <1>3, <1>4

(* The cached values of CPU c are what a walk over its lists would find.   *)
LEMMA InvCaches ==
    ASSUME SchedInv, NEW c \in Cpu
    PROVE  LET r == rq[c] IN
           /\ r.bitmap = {i \in RtPrio : r.queue[i] # <<>>}
           /\ r.rt_nr_running = Cardinality(Queued(c))
           /\ r.rt_nr_migratory = Cardinality({p \in Queued(c) : NrAllowed(S, p) > 1})
           /\ r.hp_curr = sched_find_first_bit(r.bitmap)
           /\ r.overloaded = (r.rt_nr_migratory > 0 /\ r.rt_nr_running > 1)
           /\ r.overloaded = (c \in rto_mask)
           /\ cpupri[c] = r.hp_curr
<1>1. StateOk(S) /\ S \in StateT /\ S.task = task /\ S.rq = rq
  BY InvParts
<1>2. S.cpupri = cpupri /\ S.rto_mask = rto_mask
  BY DEF S
<1>3. PICK Q : Q = RtQueued(S)
  OBVIOUS
<1>4. /\ Q \subseteq Task /\ (\A p \in Q : S.task[p].prio \in RtPrio) /\ Listed(S, Q)
      /\ Counts(S, Q, c) /\ Highest(S, Q, c) /\ Overload(S, c)
  BY <1>1, <1>3, StateQueues DEF QueuesOk
<1>5. /\ rq[c].queue \in [RtPrio -> Seq(Task)] /\ rq[c].bitmap \subseteq RtPrio
      /\ rq[c].overloaded \in BOOLEAN /\ rq[c].hp_curr \in 0 .. MAX_RT_PRIO
  BY <1>1, StateParts, RqParts
<1>6. \A i \in RtPrio : Members(rq[c].queue[i]) \subseteq Task
  BY <1>5 DEF Members
<1>7. Queued(c) = On(S, Q, c)
  <2>1. ASSUME NEW p PROVE p \in Queued(c) <=> p \in On(S, Q, c)
    <3>1. ASSUME p \in Queued(c) PROVE p \in On(S, Q, c)
      <4>1. PICK i \in RtPrio : p \in Members(rq[c].queue[i])
        BY <3>1 DEF Queued
      <4>. QED
        BY <1>1, <1>4, <1>6, <4>1 DEF Listed, On
    <3>2. ASSUME p \in On(S, Q, c) PROVE p \in Queued(c)
      <4>1. p \in Task /\ S.task[p].prio \in RtPrio /\ p \in Q /\ S.task[p].cpu = c
        BY <1>4, <3>2 DEF On
      <4>2. p \in Members(S.rq[c].queue[S.task[p].prio])
        BY <1>4, <4>1 DEF Listed
      <4>. QED
        BY <1>1, <4>1, <4>2 DEF Queued
    <3>. QED
      BY <3>1, <3>2
  <2>. QED
    BY <2>1
<1>8. rq[c].bitmap = {i \in RtPrio : rq[c].queue[i] # <<>>}
  <2>1. ASSUME NEW i \in RtPrio PROVE i \in rq[c].bitmap <=> rq[c].queue[i] # <<>>
    <3>1. i \in rq[c].bitmap <=> \E p \in On(S, Q, c) : S.task[p].prio = i
      BY <1>1, <1>4 DEF Counts
    <3>2. (\E p \in On(S, Q, c) : S.task[p].prio = i) <=> \E p \in Task : p \in Members(rq[c].queue[i])
      BY <1>1, <1>4 DEF Listed, On
    <3>3. rq[c].queue[i] \in Seq(Task)
      BY <1>5
    <3>4. rq[c].queue[i] # <<>> <=> \E p \in Task : p \in Members(rq[c].queue[i])
      <4>1. PICK q \in Seq(Task) : q = rq[c].queue[i]
        BY <3>3
      <4>2. q # <<>> => 1 \in DOMAIN q /\ q[1] \in Task
        OBVIOUS
      <4>3. q # <<>> => \E p \in Task : p \in Members(q)
        BY <4>2 DEF Members
      <4>4. q = <<>> => Members(q) = {}
        BY DEF Members
      <4>. QED
        BY <4>1, <4>3, <4>4
    <3>. QED
      BY <3>1, <3>2, <3>4
  <2>. QED
    BY <1>5, <2>1
<1>9. rq[c].rt_nr_running = Cardinality(Queued(c))
  BY <1>1, <1>4, <1>7 DEF Counts
<1>10. rq[c].rt_nr_migratory = Cardinality({p \in Queued(c) : NrAllowed(S, p) > 1})
  BY <1>1, <1>4, <1>7 DEF Counts, Migratory
<1>11. rq[c].hp_curr = sched_find_first_bit(rq[c].bitmap)
  <2>1. rq[c].hp_curr \in rq[c].bitmap \/ rq[c].hp_curr = MAX_RT_PRIO
    BY <1>1, <1>4, <1>5 DEF Highest, Counts, On
  <2>2. \A i \in rq[c].bitmap : rq[c].hp_curr <= i
    BY <1>1, <1>4, <1>5 DEF Highest, Counts
  <2>3. LeastBit(rq[c].bitmap, rq[c].hp_curr)
    BY <2>1, <2>2 DEF LeastBit
  <2>. QED
    BY <1>5, <2>3, LeastIsFirst
<1>12. /\ rq[c].overloaded = (rq[c].rt_nr_migratory > 0 /\ rq[c].rt_nr_running > 1)
       /\ rq[c].overloaded = (c \in rto_mask)
  BY <1>1, <1>2, <1>4, <1>5 DEF Overload
<1>13. cpupri[c] = rq[c].hp_curr
  BY <1>1, <1>2, <1>4 DEF Highest
<1>. QED
  BY <1>8, <1>9, <1>10, <1>11, <1>12, <1>13

(* The bitmap, the counts, the highest priority, the overload flag,        *)
(* rto_mask and cpupri always agree with the lists (enqueue_rt_entity,     *)
(* dequeue_rt_entity, set_cpus_allowed_rt and the moves between CPUs).     *)
THEOREM CachesAgreeThm == Spec => []CachesAgree
<1>1. SchedInv => CachesAgree
  BY InvCaches DEF CachesAgree
<1>. QED
  BY <1>1, SchedInvariant, PTL

(* A list without duplicates holds a task at one place or at none.         *)
LEMMA PlacesOn ==
    ASSUME NEW q, NoDup(q), NEW p, NEW A, A = {n \in DOMAIN q : q[n] = p}
    PROVE  /\ p \in Members(q) => Cardinality(A) = 1
           /\ p \notin Members(q) => Cardinality(A) = 0
<1>1. ASSUME p \in Members(q) PROVE Cardinality(A) = 1
  <2>1. PICK n \in DOMAIN q : q[n] = p
    BY <1>1 DEF Members
  <2>2. A = {n}
    BY <2>1 DEF NoDup
  <2>. QED
    BY <2>2, FS_Singleton
<1>2. ASSUME p \notin Members(q) PROVE Cardinality(A) = 0
  <2>1. A = {}
    BY <1>2 DEF Members
  <2>. QED
    BY <2>1, FS_EmptySet
<1>. QED
  BY <1>1, <1>2

(* A queued real-time task is on exactly one list, that of its CPU and     *)
(* priority, a CPU runs only tasks of its own and no task runs twice,      *)
(* whatever pushes, pulls, migrations and wake-ups have moved it.          *)
THEOREM OnePlaceThm == Spec => []OnePlace
<1>1. SchedInv => OnePlace
  <2>0. SUFFICES ASSUME SchedInv PROVE OnePlace
    OBVIOUS
  <2>1. /\ StateOk(S) /\ S \in StateT /\ CurrOk(S) /\ S.task = task /\ S.rq = rq
    BY <2>0, InvParts
  <2>2. Listed(S, RtQueued(S))
    BY <2>1, StateQueues DEF QueuesOk
  <2>3. ASSUME NEW p \in Task, NEW c \in Cpu, NEW i \in RtPrio
        PROVE  Cardinality({n \in DOMAIN rq[c].queue[i] : rq[c].queue[i][n] = p}) =
                  IF task[p].on_rq /\ task[p].cpu = c /\ task[p].prio = i THEN 1 ELSE 0
    <3>1. PICK q : q = rq[c].queue[i]
      OBVIOUS
    <3>2. PICK A : A = {n \in DOMAIN q : q[n] = p}
      OBVIOUS
    <3>3. NoDup(q) /\ (p \in Members(q) <=> p \in RtQueued(S) /\ task[p].cpu = c /\ task[p].prio = i)
      BY <2>1, <2>2, <3>1 DEF Listed
    <3>4. task[p].prio = i => task[p].prio < MAX_RT_PRIO
      BY RtRunQueueAssumption DEF RtPrio
    <3>5. p \in Members(q) <=> task[p].on_rq /\ task[p].cpu = c /\ task[p].prio = i
      BY <2>1, <3>3, <3>4 DEF RtQueued
    <3>6. /\ p \in Members(q) => Cardinality(A) = 1
          /\ p \notin Members(q) => Cardinality(A) = 0
      BY <3>2, <3>3, PlacesOn
    <3>7. Cardinality(A) = IF task[p].on_rq /\ task[p].cpu = c /\ task[p].prio = i THEN 1 ELSE 0
      BY <3>5, <3>6
    <3>. QED
      BY <3>1, <3>2, <3>7
  <2>4. ASSUME NEW c \in Cpu, rq[c].curr \in Task
        PROVE  /\ task[rq[c].curr].on_cpu /\ task[rq[c].curr].cpu = c
               /\ \A d \in Cpu \ {c} : rq[d].curr # rq[c].curr
    BY <2>1, <2>4 DEF CurrOk
  <2>. QED
    BY <2>3, <2>4 DEF OnePlace
<1>. QED
  BY <1>1, SchedInvariant, PTL

(* The BUG_ONs of pick_next_pushable_task never fire: what is on the       *)
(* pushable list is queued here, does not run and may run elsewhere.       *)
THEOREM PushableTasksOkThm == Spec => []PushableTasksOk
<1>1. SchedInv => PushableTasksOk
  <2>0. SUFFICES ASSUME SchedInv, NEW c \in Cpu, NEW p \in Members(rq[c].pushable)
                 PROVE  /\ task[p].cpu = c /\ rq[c].curr # p
                        /\ NrAllowed(S, p) > 1
                        /\ task[p].on_rq /\ IsRtClass(S, p)
    BY DEF PushableTasksOk
  <2>1. /\ StateOk(S) /\ CurrOk(S) /\ S.task = task /\ S.rq = rq
    BY <2>0, InvParts
  <2>2. p \in Migratory(S, RtQueued(S), c)
    BY <2>0, <2>1, StateQueues DEF QueuesOk, Pushables
  <2>3. p \in Task /\ task[p].on_rq /\ task[p].prio < MAX_RT_PRIO /\ task[p].cpu = c /\ NrAllowed(S, p) > 1
    BY <2>1, <2>2 DEF Migratory, On, RtQueued
  <2>4. rq[c].curr # p
    BY <2>0, <2>1, <2>3 DEF CurrOk
  <2>5. IsRtClass(S, p)
    BY <2>1, <2>3, RtClass
  <2>. QED
    BY <2>3, <2>4, <2>5
<1>. QED
  BY <1>1, SchedInvariant, PTL

(* No wake-up is lost between try_to_wake_up, the wake list and the        *)
(* interrupt that empties it: a task that is not asleep is queued, or its  *)
(* wake-up is on the way, on a CPU that is in it or on a wake list whose   *)
(* interrupt is pending (ttwu_queue_remote sends it only for a list that   *)
(* was empty).                                                             *)
THEOREM NoLostWakeupThm == Spec => []NoLostWakeup
<1>1. SchedInv => NoLostWakeup
  <2>0. SUFFICES ASSUME SchedInv PROVE NoLostWakeup
    OBVIOUS
  <2>1. /\ States(S, pc) /\ Wakeups(S, pc) /\ S.task = task /\ S.rq = rq
    BY <2>0, InvParts
  <2>2. ASSUME NEW p \in Task, task[p].state = "running" PROVE task[p].on_rq
    BY <2>1, <2>2 DEF States, TaskStateOk
  <2>3. ASSUME NEW p \in Task, task[p].state = "waking"
        PROVE  \E c \in Cpu : \/ pc[c].at = "ttwu_queue" /\ pc[c].pi = p
                              \/ p \in Members(rq[c].wake_list) /\ rq[c].ipi
                              \/ p \in Members(pc[c].rest)
    <3>1. \A c \in Cpu : p \in Members(rq[c].wake_list) => rq[c].wake_list # <<>>
      BY DEF Members
    <3>. QED
      BY <2>1, <2>3, <3>1 DEF Wakeups, Queueing, Waits
  <2>. QED
    BY <2>2, <2>3 DEF NoLostWakeup
<1>. QED
  BY <1>1, SchedInvariant, PTL

(* A task that runs where its mask forbids it has a migration under way    *)
(* (set_cpus_allowed_ptr), through every push, pull, wake-up and further   *)
(* change of the mask; but for a mask changed during the wake-up itself.   *)
THEOREM AffinityKeptThm == Spec => []AffinityKept
<1>1. SchedInv => AffinityKept
  <2>0. SUFFICES ASSUME SchedInv, NEW c \in Cpu, NEW p, p = rq[c].curr, p \in Task \ hist.waking,
                        task[p].on_rq, c \notin task[p].allowed
                 PROVE  \E m \in mig : m.task = p /\ m.src = c
    BY DEF AffinityKept
  <2>1. /\ CurrOk(S) /\ Affinity(S, mig, hist) /\ S.task = task /\ S.rq = rq
    BY <2>0, InvParts
  <2>2. task[p].cpu = c
    BY <2>0, <2>1 DEF CurrOk
  <2>3. Placed(S, mig, p)
    BY <2>0, <2>1 DEF Affinity
  <2>. QED
    BY <2>0, <2>1, <2>2, <2>3 DEF Placed
<1>. QED
  BY <1>1, SchedInvariant, PTL

(* A CPU outside the scheduler that has not been told to reschedule runs   *)
(* nothing below a task it may pick (its real-time tasks wait while it is  *)
(* throttled).  The CPUs of hist.unseen are not covered: those are where   *)
(* switched_from_rt, or a prio_changed_rt that does not reschedule, has    *)
(* pulled a task and told nobody, until they call schedule() again.        *)
THEOREM HighestRunsThm == Spec => []HighestRuns
<1>1. SchedInv => HighestRuns
  <2>0. SUFFICES ASSUME SchedInv, NEW c \in Cpu, pc[c].at = "run", Free(c), ~ClassChanging(c),
                        ~rq[c].need_resched, c \notin hist.unseen, NEW p \in Task, Eligible(c, p)
                 PROVE  PrioOf(S, rq[c].curr) <= task[p].prio
    BY DEF HighestRuns
  <2>1. /\ High(S, pc, hist, c) /\ S.task = task /\ S.rq = rq
    BY <2>0, InvParts
  <2>2. \A e \in Cpu : pc[e].rq = c => ~PrioL(pc[e]) /\ ~SwitchL(pc[e])
    BY <2>0 DEF Free, Holds, ClassChanging, PrioL, SwitchL, Pushing
  <2>3. ~PickL(pc[c])
    BY <2>0 DEF PickL
  <2>4. ~Excused(S, pc, hist, c) /\ ~Raised(pc, c, p)
    BY <2>0, <2>1, <2>2 DEF Excused, Lowered, Raised
  <2>5. Here(S, c, p)
    BY <2>0, <2>1 DEF Here, Eligible
  <2>6. Behind(S, c, p)
    BY <2>1, <2>3, <2>4, <2>5 DEF High
  <2>7. IsRtClass(S, p) <=> S.task[p].prio < MAX_RT_PRIO
    BY <2>0, <2>1, RtClass
  <2>8. ~Held(S, c, p)
    BY <2>0, <2>1, <2>7 DEF Eligible, Held
  <2>. QED
    BY <2>1, <2>6, <2>8 DEF Behind
<1>. QED
  BY <1>1, SchedInvariant, PTL
=============================================================================
