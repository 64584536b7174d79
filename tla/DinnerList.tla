----------------------------- MODULE DinnerList -----------------------------
(***************************************************************************)
(* The list of turkey dinners of concur/concurrent3/3way.c.  Searchers     *)
(* walk the list under a read lock while inserters append to it under      *)
(* inserters_lock; deleters take the write lock, inserters_lock and        *)
(* deleters_lock, in this order.  Every read or write of the list, of      *)
(* dinner_count and of a lock is a step of its own, so a searcher may be   *)
(* anywhere in an insertion.                                               *)
(***************************************************************************)
EXTENDS Integers, FiniteSets

CONSTANTS
    Searchers, Inserters, Deleters,     \* the threads
    Nodes,      \* bound: the dinners that fit in memory at once
    NULL,
    RandMax     \* RAND_MAX: random() returns any of 0..RandMax

Threads == Searchers \cup Inserters \cup Deleters

ASSUME ListAssumption ==
    /\ Searchers \cap Inserters = {} /\ Inserters \cap Deleters = {}
    /\ Searchers \cap Deleters = {}
    /\ NULL \notin Nodes \cup Threads /\ IsFiniteSet(Nodes)
    /\ RandMax \in Nat \ {0}

VARIABLES
    turkey_dinners, next_dinner, dinner_count,  \* the list
    heap,               \* allocated nodes
    readers, writer,    \* searchers_lock
    inserters_lock, deleters_lock,              \* the owner, or NULL
    at,                 \* place of each thread
    curr, prev,         \* curr_dinner or my_last; prev_dinner
    todo,               \* dinner_index - count: nodes still to pass
    mine,               \* my_dinner of each inserter
    overlong            \* history: the walks for which random() gave RAND_MAX

list  == << turkey_dinners, next_dinner, dinner_count, heap >>
locks == << readers, writer, inserters_lock, deleters_lock >>
local == << curr, prev, todo, mine, overlong >>
vars  == << list, locks, at, local >>

SearchingAt == {"test", "pick", "start", "walk", "unlock_rw"}
InsertingAt == {"first", "last", "link", "inc", "unlock_ins"}
DeletingAt  == {"lock_del", "pick", "start", "walk", "dec", "free", "unlock_del"}
At == SearchingAt \cup InsertingAt \cup DeletingAt
        \cup {"lock_rw", "malloc", "lock_ins", "test", "crashed"}

TypeOK ==
    /\ turkey_dinners \in Nodes \cup {NULL}
    /\ next_dinner \in [Nodes -> Nodes \cup {NULL}]
    /\ dinner_count \in 0 .. Cardinality(Nodes)
    /\ heap \subseteq Nodes
    /\ readers \subseteq Searchers /\ writer \in Deleters \cup {NULL}
    /\ inserters_lock \in Inserters \cup Deleters \cup {NULL}
    /\ deleters_lock \in Deleters \cup {NULL}
    /\ at \in [Threads -> At]
    /\ curr \in [Threads -> Nodes \cup {NULL}]
    /\ prev \in [Deleters -> Nodes \cup {NULL}]
    /\ todo \in [Threads -> Nat]
    /\ mine \in [Inserters -> Nodes \cup {NULL}]
    /\ overlong \subseteq Threads

Init ==
    /\ turkey_dinners = NULL
    /\ next_dinner = [m \in Nodes |-> NULL]
    /\ dinner_count = 0
    /\ heap = {}
    /\ readers = {} /\ writer = NULL
    /\ inserters_lock = NULL /\ deleters_lock = NULL
    /\ at = [t \in Threads |-> IF t \in Inserters THEN "malloc" ELSE "lock_rw"]
    /\ curr = [t \in Threads |-> NULL]
    /\ prev = [d \in Deleters |-> NULL]
    /\ todo = [t \in Threads |-> 0]
    /\ mine = [i \in Inserters |-> NULL]
    /\ overlong = {}

Goto(t, from, to) ==
    /\ at[t] = from
    /\ at' = [at EXCEPT ![t] = to]

-----------------------------------------------------------------------------
\* random_range: start + (int)((end - start + 1) * (r / RAND_MAX)), which for
\* r = RAND_MAX is end + 1.
RandomRange(start, end, r) == start + (((end - start + 1) * r) \div RandMax)

\* The walk that find_dinner and cancel_dinner share.
Pick(t) ==
    /\ Goto(t, "pick", "start")
    /\ \E r \in 0 .. RandMax :
          /\ todo' = [todo EXCEPT ![t] = RandomRange(1, dinner_count, r) - 1]
          /\ overlong' = IF r = RandMax THEN overlong \cup {t} ELSE overlong
    /\ UNCHANGED << list, locks, curr, prev, mine >>

Start(t) ==
    /\ Goto(t, "start", "walk")
    /\ curr' = [curr EXCEPT ![t] = turkey_dinners]
    /\ UNCHANGED << list, locks, prev, todo, mine, overlong >>

Walk(t) ==
    /\ at[t] = "walk" /\ todo[t] # 0
    /\ curr[t] # NULL
    /\ curr' = [curr EXCEPT ![t] = next_dinner[curr[t]]]
    /\ prev' = IF t \in Deleters THEN [prev EXCEPT ![t] = curr[t]] ELSE prev
    /\ todo' = [todo EXCEPT ![t] = @ - 1]
    /\ UNCHANGED << list, locks, at, mine, overlong >>

\* NULL is followed, by the loop or, in cancel_dinner, behind it: SIGSEGV ends
\* all threads.
Crash(t) ==
    /\ at[t] = "walk" /\ curr[t] = NULL
    /\ todo[t] # 0 \/ t \in Deleters
    /\ at' = [u \in Threads |-> "crashed"]
    /\ UNCHANGED << list, locks, local >>

-----------------------------------------------------------------------------
SLock(s) ==
    /\ writer = NULL
    /\ Goto(s, "lock_rw", "test")
    /\ readers' = readers \cup {s}
    /\ UNCHANGED << list, writer, inserters_lock, deleters_lock, local >>

STest(s) ==
    /\ Goto(s, "test", IF dinner_count > 0 THEN "pick" ELSE "unlock_rw")
    /\ UNCHANGED << list, locks, local >>

\* find_dinner does not look at the node it stops at.
SFound(s) ==
    /\ todo[s] = 0
    /\ Goto(s, "walk", "unlock_rw")
    /\ curr' = [curr EXCEPT ![s] = NULL]
    /\ overlong' = overlong \ {s}
    /\ UNCHANGED << list, locks, prev, todo, mine >>

SUnlock(s) ==
    /\ Goto(s, "unlock_rw", "lock_rw")
    /\ readers' = readers \ {s}
    /\ UNCHANGED << list, writer, inserters_lock, deleters_lock, local >>

Searcher(s) ==
    SLock(s) \/ STest(s) \/ Pick(s) \/ Start(s) \/ Walk(s) \/ SFound(s) \/ SUnlock(s)

-----------------------------------------------------------------------------
LockInserters(t, to) ==
    /\ inserters_lock = NULL
    /\ Goto(t, "lock_ins", to)
    /\ inserters_lock' = t
    /\ UNCHANGED << list, readers, writer, deleters_lock, local >>

IMalloc(i) ==
    /\ Goto(i, "malloc", "lock_ins")
    /\ \E m \in Nodes \ heap :
          /\ heap' = heap \cup {m}
          /\ next_dinner' = [next_dinner EXCEPT ![m] = NULL]
          /\ mine' = [mine EXCEPT ![i] = m]
    /\ UNCHANGED << turkey_dinners, dinner_count, locks, curr, prev, todo, overlong >>

ILock(i) == LockInserters(i, "first")

IFirst(i) ==
    /\ Goto(i, "first", IF turkey_dinners = NULL THEN "link" ELSE "last")
    /\ curr' = [curr EXCEPT ![i] = turkey_dinners]
    /\ UNCHANGED << list, locks, prev, todo, mine, overlong >>

\* find_last_dinner: on to the next node, or out of the loop.
ILast(i) ==
    /\ LET next == next_dinner[curr[i]] IN
       /\ Goto(i, "last", IF next # NULL THEN "last" ELSE "link")
       /\ curr' = [curr EXCEPT ![i] = IF next # NULL THEN next ELSE @]
    /\ UNCHANGED << list, locks, prev, todo, mine, overlong >>

ILink(i) ==
    /\ Goto(i, "link", "inc")
    /\ \/ /\ curr[i] = NULL
          /\ turkey_dinners' = mine[i]
          /\ UNCHANGED next_dinner
       \/ /\ curr[i] # NULL
          /\ next_dinner' = [next_dinner EXCEPT ![curr[i]] = mine[i]]
          /\ UNCHANGED turkey_dinners
    /\ curr' = [curr EXCEPT ![i] = NULL]
    /\ UNCHANGED << dinner_count, heap, locks, prev, todo, mine, overlong >>

IInc(i) ==
    /\ Goto(i, "inc", "unlock_ins")
    /\ dinner_count' = dinner_count + 1
    /\ mine' = [mine EXCEPT ![i] = NULL]
    /\ UNCHANGED << turkey_dinners, next_dinner, heap, locks, curr, prev, todo, overlong >>

IUnlock(i) ==
    /\ Goto(i, "unlock_ins", "malloc")
    /\ inserters_lock' = NULL
    /\ UNCHANGED << list, readers, writer, deleters_lock, local >>

Inserter(i) ==
    IMalloc(i) \/ ILock(i) \/ IFirst(i) \/ ILast(i) \/ ILink(i) \/ IInc(i) \/ IUnlock(i)

-----------------------------------------------------------------------------
DLockAmongReaders(d) ==
    /\ writer = NULL
    /\ Goto(d, "lock_rw", "lock_ins")
    /\ writer' = d
    /\ UNCHANGED << list, readers, inserters_lock, deleters_lock, local >>

DLock(d) ==
    /\ writer = NULL /\ readers = {}
    /\ Goto(d, "lock_rw", "lock_ins")
    /\ writer' = d
    /\ UNCHANGED << list, readers, inserters_lock, deleters_lock, local >>

DLockInsertersNot(d) ==
    /\ Goto(d, "lock_ins", "test")
    /\ UNCHANGED << list, locks, local >>

DLockInserters(d) == LockInserters(d, "test")

DTest(d) ==
    /\ Goto(d, "test", IF dinner_count > 0 THEN "lock_del" ELSE "unlock_ins")
    /\ UNCHANGED << list, locks, local >>

DLockDeleters(d) ==
    /\ deleters_lock = NULL
    /\ Goto(d, "lock_del", "pick")
    /\ deleters_lock' = d
    /\ UNCHANGED << list, readers, writer, inserters_lock, local >>

\* The node is found: take it out of the list.
DSnip(d) ==
    /\ todo[d] = 0 /\ curr[d] # NULL
    /\ Goto(d, "walk", "dec")
    /\ \/ /\ prev[d] = NULL
          /\ turkey_dinners' = next_dinner[curr[d]]
          /\ UNCHANGED next_dinner
       \/ /\ prev[d] # NULL
          /\ next_dinner' = [next_dinner EXCEPT ![prev[d]] = next_dinner[curr[d]]]
          /\ UNCHANGED turkey_dinners
    /\ UNCHANGED << dinner_count, heap, locks, local >>

DDec(d) ==
    /\ Goto(d, "dec", "free")
    /\ dinner_count' = dinner_count - 1
    /\ UNCHANGED << turkey_dinners, next_dinner, heap, locks, local >>

DFree(d) ==
    /\ Goto(d, "free", "unlock_del")
    /\ heap' = heap \ {curr[d]}
    /\ curr' = [curr EXCEPT ![d] = NULL]
    /\ prev' = [prev EXCEPT ![d] = NULL]
    /\ UNCHANGED << turkey_dinners, next_dinner, dinner_count, locks, todo, mine, overlong >>

DUnlockDeleters(d) ==
    /\ Goto(d, "unlock_del", "unlock_ins")
    /\ deleters_lock' = NULL
    /\ UNCHANGED << list, readers, writer, inserters_lock, local >>

DUnlockInsertersNot(d) ==
    /\ Goto(d, "unlock_ins", "unlock_rw")
    /\ UNCHANGED << list, locks, local >>

DUnlockInserters(d) ==
    /\ Goto(d, "unlock_ins", "unlock_rw")
    /\ inserters_lock' = NULL
    /\ UNCHANGED << list, readers, writer, deleters_lock, local >>

DUnlock(d) ==
    /\ Goto(d, "unlock_rw", "lock_rw")
    /\ writer' = NULL
    /\ UNCHANGED << list, readers, inserters_lock, deleters_lock, local >>

Deleter(d) ==
    \/ DLock(d) \/ DLockInserters(d) \/ DTest(d) \/ DLockDeleters(d)
    \/ Pick(d) \/ Start(d) \/ Walk(d) \/ DSnip(d) \/ DDec(d) \/ DFree(d)
    \/ DUnlockDeleters(d) \/ DUnlockInserters(d) \/ DUnlock(d)

Crashed == \E t \in Threads : at[t] = "crashed"

Next ==
    \/ \E s \in Searchers : Searcher(s)
    \/ \E i \in Inserters : Inserter(i)
    \/ \E d \in Deleters : Deleter(d)
    \/ \E t \in Searchers \cup Deleters : Crash(t)
    \/ Crashed /\ UNCHANGED vars

Spec == Init /\ [][Next]_vars

(* A thread that can run is scheduled.  Strong fairness for inserters_lock: *)
(* its owner sleeps for a second or more after it let go (lines 226, 256),  *)
(* so a waiter gets it.  Nothing of the kind is assumed of the write lock:  *)
(* a default rwlock prefers readers.                                        *)
FairSpec ==
    /\ Spec
    /\ \A s \in Searchers : WF_vars(Searcher(s))
    /\ \A i \in Inserters : WF_vars(Inserter(i)) /\ SF_vars(ILock(i))
    /\ \A d \in Deleters : WF_vars(Deleter(d)) /\ SF_vars(DLockInserters(d))
    /\ WF_vars(\E t \in Searchers \cup Deleters : Crash(t))

-----------------------------------------------------------------------------
\* The nodes on the list: those in every set that has the first one, and
\* with a node also the next one.
Linked ==
    {m \in Nodes : \A S \in SUBSET Nodes :
        /\ turkey_dinners \in S \cup {NULL}
        /\ \A k \in S : next_dinner[k] \in S \cup {NULL}
        => m \in S}

Critical(d) == at[d] \in DeletingAt

(* Lines 21-24: a delete shares the list with nobody, and only one insert   *)
(* or delete happens at a time; so deleters_lock is never contended.        *)
DeleteIsExclusive ==
    \A d \in Deleters : Critical(d) =>
        /\ \A s \in Searchers : at[s] \notin SearchingAt
        /\ \A i \in Inserters : at[i] \notin InsertingAt
        /\ \A e \in Deleters \ {d} : ~ Critical(e)
        /\ at[d] = "lock_del" => deleters_lock = NULL

(* No thread follows a pointer to a node that was freed or is no longer on  *)
(* the list, although dinner_count is read before the walk (lines 184-188,  *)
(* 240-247) and inserters change list and count meanwhile: a walk is at a   *)
(* node of the list, whatever random() gives, or it has passed the last one *)
(* and is done, and that only if random() gave RAND_MAX.                    *)
WalksStayOnList ==
    \A t \in Searchers \cup Deleters : at[t] = "walk" =>
        \/ curr[t] \in Linked
        \/ curr[t] = NULL /\ todo[t] = 0 /\ t \in overlong

(* Line 41: "random range generator returns value inclusive of the end      *)
(* points", and so (line 169, of the node where a walk ends) "must have     *)
(* found the dinner".  The code does not keep this: for RAND_MAX line 51    *)
(* gives end + 1.                                                           *)
MustHaveFound ==
    \A t \in Searchers \cup Deleters :
        at[t] = "walk" /\ todo[t] = 0 => curr[t] # NULL

(* No hold-and-wait cycle: a deleter that got the write lock gives it back, *)
(* and a dinner that was prepared is put on the list, as long as the        *)
(* process lives.                                                           *)
OperationsFinish ==
    /\ \A d \in Deleters : writer = d ~> writer # d \/ Crashed
    /\ \A i \in Inserters : at[i] = "lock_ins" ~> at[i] = "unlock_ins" \/ Crashed
=============================================================================
