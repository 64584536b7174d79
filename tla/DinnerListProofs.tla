--------------------------- MODULE DinnerListProofs ---------------------------
(***************************************************************************)
(* Proofs about DinnerList, for any number of threads and nodes: the three *)
(* locks are held exactly where the code says, so a delete is exclusive;   *)
(* the list is a chain of distinct nodes in memory whose length is         *)
(* dinner_count but between the two writes of an insertion or deletion;    *)
(* and every walk is at a node of it with enough nodes ahead, or for the   *)
(* draw RAND_MAX one short.  A deleter that has this draw ends the program *)
(* (after that nothing moves), and the invariants hold until then.         *)
(***************************************************************************)
EXTENDS DinnerList, NaturalsInduction, WellFoundedInduction, FiniteSetTheorems, TLAPS

(* The places of a deleter, and those where it holds the two mutexes.      *)
DeleterAt == DeletingAt \cup {"lock_rw", "lock_ins", "test", "unlock_ins", "unlock_rw"}
HoldsInsertersAt == DeletingAt \cup {"test", "unlock_ins"}
HoldsDeletersAt  == DeletingAt \ {"lock_del"}

(* Where a thread is says which locks it holds.                            *)
LockInv ==
    /\ \A s \in Searchers : at[s] \in SearchingAt \cup {"lock_rw"}
    /\ \A i \in Inserters : at[i] \in InsertingAt \cup {"malloc", "lock_ins"}
    /\ \A d \in Deleters : at[d] \in DeleterAt
    /\ at \in [Threads -> At]
    /\ readers = {s \in Searchers : at[s] \in SearchingAt}
    /\ \A d \in Deleters : at[d] # "lock_rw" <=> writer = d
    /\ writer \in Deleters \cup {NULL} /\ (writer # NULL => readers = {})
    /\ \A i \in Inserters : at[i] \in InsertingAt <=> inserters_lock = i
    /\ \A d \in Deleters : at[d] \in HoldsInsertersAt <=> inserters_lock = d
    /\ inserters_lock \in Inserters \cup Deleters \cup {NULL}
    /\ \A d \in Deleters : at[d] \in HoldsDeletersAt <=> deleters_lock = d
    /\ deleters_lock \in Deleters \cup {NULL}

(* The program has died: a thread followed NULL.                           *)
AllDead == at = [t \in Threads |-> "crashed"]

Crashes == \E t \in Searchers \cup Deleters : Crash(t)

(* Then nothing changes any more.                                          *)
LEMMA DeadStays == ASSUME AllDead, [Next]_vars PROVE UNCHANGED vars
<1>. USE DEF AllDead, Threads, Goto
<1>1. ASSUME NEW s \in Searchers, Searcher(s) PROVE FALSE
  BY <1>1 DEF Searcher, SLock, STest, Pick, Start, Walk, SFound, SUnlock
<1>2. ASSUME NEW i \in Inserters, Inserter(i) PROVE FALSE
  BY <1>2 DEF Inserter, IMalloc, ILock, LockInserters, IFirst, ILast, ILink, IInc, IUnlock
<1>3. ASSUME NEW d \in Deleters, Deleter(d) PROVE FALSE
  BY <1>3 DEF Deleter, DLock, DLockInserters, LockInserters, DTest, DLockDeleters, Pick, Start,
     Walk, DSnip, DDec, DFree, DUnlockDeleters, DUnlockInserters, DUnlock
<1>4. ASSUME NEW t \in Searchers \cup Deleters, Crash(t) PROVE FALSE
  BY <1>4 DEF Crash
<1>. QED
  BY <1>1, <1>2, <1>3, <1>4 DEF Next

(* The step by which it dies touches only the threads' places.             *)
LEMMA CrashKills ==
    ASSUME Crashes PROVE AllDead' /\ UNCHANGED << list, locks, local >>
BY DEF Crashes, Crash, AllDead

(* A searcher's steps keep the correspondence of places and locks.         *)
LEMMA SearcherLocks == ASSUME LockInv, NEW s \in Searchers, Searcher(s) PROVE LockInv'
<1>. USE ListAssumption DEF LockInv, Threads, Goto, At, SearchingAt, InsertingAt, DeletingAt,
         DeleterAt, HoldsInsertersAt, HoldsDeletersAt, locks
<1>1. CASE SLock(s)   BY <1>1 DEF SLock
<1>2. CASE STest(s)   BY <1>2 DEF STest
<1>3. CASE Pick(s)    BY <1>3 DEF Pick
<1>4. CASE Start(s)   BY <1>4 DEF Start
<1>5. CASE Walk(s)    BY <1>5 DEF Walk
<1>6. CASE SFound(s)  BY <1>6 DEF SFound
<1>7. CASE SUnlock(s) BY <1>7 DEF SUnlock
<1>. QED
  BY <1>1, <1>2, <1>3, <1>4, <1>5, <1>6, <1>7 DEF Searcher

(* An inserter's steps do.                                                 *)
LEMMA InserterLocks == ASSUME LockInv, NEW i \in Inserters, Inserter(i) PROVE LockInv'
<1>. USE ListAssumption DEF LockInv, Threads, Goto, At, SearchingAt, InsertingAt, DeletingAt,
         DeleterAt, HoldsInsertersAt, HoldsDeletersAt, locks
<1>1. CASE IMalloc(i) BY <1>1 DEF IMalloc
<1>2. CASE ILock(i)   BY <1>2 DEF ILock, LockInserters
<1>3. CASE IFirst(i)  BY <1>3 DEF IFirst
<1>4. CASE ILast(i)   BY <1>4 DEF ILast
<1>5. CASE ILink(i)   BY <1>5 DEF ILink
<1>6. CASE IInc(i)    BY <1>6 DEF IInc
<1>7. CASE IUnlock(i) BY <1>7 DEF IUnlock
<1>. QED
  BY <1>1, <1>2, <1>3, <1>4, <1>5, <1>6, <1>7 DEF Inserter

(* A deleter's steps do.                                                   *)
LEMMA DeleterLocks == ASSUME LockInv, NEW d \in Deleters, Deleter(d) PROVE LockInv'
<1>. USE ListAssumption DEF LockInv, Threads, Goto, At, SearchingAt, InsertingAt, DeletingAt,
         DeleterAt, HoldsInsertersAt, HoldsDeletersAt, locks
<1>1. CASE DLock(d)            BY <1>1 DEF DLock
<1>2. CASE DLockInserters(d)   BY <1>2 DEF DLockInserters, LockInserters
<1>3. CASE DTest(d)            BY <1>3 DEF DTest
<1>4. CASE DLockDeleters(d)    BY <1>4 DEF DLockDeleters
<1>5. CASE Pick(d)             BY <1>5 DEF Pick
<1>6. CASE Start(d)            BY <1>6 DEF Start
<1>7. CASE Walk(d)             BY <1>7 DEF Walk
<1>8. CASE DSnip(d)            BY <1>8 DEF DSnip
<1>9. CASE DDec(d)             BY <1>9 DEF DDec
<1>10. CASE DFree(d)           BY <1>10 DEF DFree
<1>11. CASE DUnlockDeleters(d) BY <1>11 DEF DUnlockDeleters
<1>12. CASE DUnlockInserters(d) BY <1>12 DEF DUnlockInserters
<1>13. CASE DUnlock(d)         BY <1>13 DEF DUnlock
<1>. QED
  BY <1>1, <1>2, <1>3, <1>4, <1>5, <1>6, <1>7, <1>8, <1>9, <1>10, <1>11, <1>12, <1>13
     DEF Deleter

(* At the start nobody holds a lock.                                       *)
LEMMA InitLocks == Init => LockInv
<1>. SUFFICES ASSUME Init PROVE LockInv
  OBVIOUS
<1>. USE ListAssumption DEF Threads
<1>1. /\ \A t \in Threads : at[t] = IF t \in Inserters THEN "malloc" ELSE "lock_rw"
      /\ at \in [Threads -> At]
  BY DEF Init, At
<1>2. readers = {s \in Searchers : at[s] \in SearchingAt}
  BY <1>1 DEF Init, SearchingAt
<1>3. \A t \in Threads : t # writer /\ t # inserters_lock /\ t # deleters_lock
  BY DEF Init
<1>. QED
  BY <1>1, <1>2, <1>3 DEF Init, LockInv, InsertingAt, DeletingAt, DeleterAt,
     HoldsInsertersAt, HoldsDeletersAt

(* With the write lock and inserters_lock a deleter is alone.              *)
LEMMA Exclusive == LockInv => DeleteIsExclusive
BY ListAssumption DEF LockInv, DeleteIsExclusive, Critical, Threads, SearchingAt, InsertingAt,
   DeletingAt, DeleterAt, HoldsInsertersAt, HoldsDeletersAt

(* Every step but the fatal one keeps the correspondence.                  *)
LEMMA StepLocks == ASSUME LockInv, [Next]_vars, ~Crashes PROVE LockInv'
<1>1. CASE Next
  BY <1>1, SearcherLocks, InserterLocks, DeleterLocks DEF Next, Crashes, vars, locks, LockInv
<1>2. CASE UNCHANGED vars
  BY <1>2 DEF vars, locks, LockInv
<1>. QED
  BY <1>1, <1>2

(* The three locks are held exactly where the code says, while the program *)
(* lives.                                                                  *)
THEOREM LockInvariant == Spec => [](AllDead \/ LockInv)
<1>1. LockInv /\ [Next]_vars => AllDead' \/ LockInv'
  BY StepLocks, CrashKills
<1>2. AllDead /\ [Next]_vars => AllDead'
  BY DeadStays DEF AllDead, vars
<1>. QED
  BY <1>1, <1>2, InitLocks, PTL DEF Spec

(* Lines 21-24: a delete shares the list with nobody, for any number of    *)
(* searchers, inserters and deleters.                                      *)
THEOREM DeleteIsExclusiveThm == Spec => []DeleteIsExclusive
<1>1. AllDead => DeleteIsExclusive
  BY DEF AllDead, DeleteIsExclusive, Critical, DeletingAt, Threads
<1>. QED
  BY <1>1, Exclusive, LockInvariant, PTL

-----------------------------------------------------------------------------
(* L[1], ..., L[n] are the nodes of the list in their order, all in memory. *)
Chain(n, L) ==
    /\ n = 0 <=> turkey_dinners = NULL
    /\ n > 0 => turkey_dinners = L[1] /\ next_dinner[L[n]] = NULL
    /\ \A j \in 1 .. n : L[j] \in heap
    /\ \A j \in 1 .. n - 1 : next_dinner[L[j]] = L[j + 1]
    /\ \A j, k \in 1 .. n : L[j] = L[k] => j = k

(* dinner_count is the length of the list, but for an inserter or deleter  *)
(* that has changed the list and not yet the count.                        *)
Counted(n) ==
    /\ dinner_count \in Nat
    /\ (\E i \in Inserters : at[i] = "inc") => dinner_count = n - 1
    /\ (\E d \in Deleters : at[d] = "dec") => dinner_count = n + 1
    /\ (\A i \in Inserters : at[i] # "inc") /\ (\A d \in Deleters : at[d] # "dec")
          => dinner_count = n
    /\ \A t \in Searchers \cup Deleters : at[t] \in {"pick", "lock_del"} => dinner_count > 0

(* A walk has as many nodes ahead of it as it still has to pass, or for    *)
(* the draw RAND_MAX one less, and then ends behind the last one; a        *)
(* deleter knows the node before the one it is at.                         *)
Extra(t) == IF t \in overlong THEN 1 ELSE 0

OnNode(t, n, L, k) ==
    /\ curr[t] = L[k] /\ k + todo[t] <= n + Extra(t)
    /\ t \in Deleters => prev[t] = (IF k = 1 THEN NULL ELSE L[k - 1])

PastEnd(t) == curr[t] = NULL /\ todo[t] = 0 /\ t \in overlong

WalkAt(t, n, L) == PastEnd(t) \/ \E k \in 1 .. n : OnNode(t, n, L, k)

Walks(n, L) ==
    /\ \A t \in Searchers \cup Deleters :
          /\ at[t] = "start" => n > 0 /\ todo[t] + 1 <= n + Extra(t)
          /\ at[t] = "walk" => WalkAt(t, n, L)
    /\ \A d \in Deleters :
          /\ at[d] \notin {"walk", "dec", "free"} => prev[d] = NULL
          /\ at[d] \in {"dec", "free"} =>
                /\ curr[d] \in heap /\ \A j \in 1 .. n : curr[d] # L[j]
                /\ \A i \in Inserters : curr[d] # mine[i]

(* A dinner that is prepared belongs to one inserter and is not on the     *)
(* list until it is linked; then the inserter has found the list's end.    *)
Prepared(i) == at[i] \in {"lock_ins", "first", "last", "link"}

Mine(n, L) ==
    /\ \A i \in Inserters : Prepared(i) =>
          /\ mine[i] \in heap /\ next_dinner[mine[i]] = NULL
          /\ \A j \in 1 .. n : mine[i] # L[j]
          /\ \A h \in Inserters \ {i} : mine[h] # mine[i]
    /\ \A i \in Inserters :
          /\ at[i] \in {"malloc", "unlock_ins"} => mine[i] = NULL
          /\ at[i] = "inc" => mine[i] \in heap
          /\ at[i] = "last" => \E j \in 1 .. n : curr[i] = L[j]
          /\ at[i] = "link" => curr[i] = (IF n = 0 THEN NULL ELSE L[n])

ListIs(n, L) == Chain(n, L) /\ Counted(n) /\ Walks(n, L) /\ Mine(n, L)

ListInv == \E n \in Nat : \E L \in [1 .. n -> Nodes] : ListIs(n, L)

(* The types of the variables that LockInv says nothing of.                *)
Typed ==
    /\ turkey_dinners \in Nodes \cup {NULL}
    /\ next_dinner \in [Nodes -> Nodes \cup {NULL}]
    /\ heap \subseteq Nodes
    /\ curr \in [Threads -> Nodes \cup {NULL}]
    /\ prev \in [Deleters -> Nodes \cup {NULL}]
    /\ todo \in [Threads -> Nat]
    /\ mine \in [Inserters -> Nodes \cup {NULL}]
    /\ overlong \subseteq Threads

(* Who holds inserters_lock excludes the others from it.                   *)
LEMMA OneChanger ==
    ASSUME LockInv
    PROVE  /\ \A i, h \in Inserters :
                 at[i] \in InsertingAt /\ at[h] \in InsertingAt => i = h
           /\ \A i \in Inserters, d \in Deleters :
                 at[i] \in InsertingAt => at[d] \notin HoldsInsertersAt
           /\ \A d \in Deleters, s \in Searchers :
                 at[s] \in SearchingAt => at[d] = "lock_rw"
           /\ \A d, e \in Deleters : at[d] # "lock_rw" /\ at[e] # "lock_rw" => d = e
BY ListAssumption DEF LockInv, Threads

(* random_range stays below its end for every draw but RAND_MAX, and for   *)
(* that one it is end + 1.                                                 *)
LEMMA RandomRangeBound ==
    ASSUME NEW c \in Nat \ {0}, NEW r \in 0 .. RandMax
    PROVE  /\ RandomRange(1, c, r) - 1 \in 0 .. c
           /\ r # RandMax => RandomRange(1, c, r) - 1 <= c - 1
<1>1. r \in Nat /\ r <= RandMax /\ RandMax \in Nat \ {0}
  BY ListAssumption
<1>2. c * r <= c * RandMax /\ c * r \in Nat /\ (r # RandMax => c * r < c * RandMax)
  BY <1>1
<1>3. (c * r) \div RandMax \in Nat /\ RandMax * ((c * r) \div RandMax) <= c * r
  BY <1>1, <1>2
<1>4. /\ (c * r) \div RandMax <= c
      /\ r # RandMax => (c * r) \div RandMax < c
  BY <1>1, <1>2, <1>3
<1>. QED
  BY <1>3, <1>4 DEF RandomRange

(* It never is below its start.                                            *)
LEMMA RandomRangeNat ==
    ASSUME NEW c \in Nat, NEW r \in 0 .. RandMax PROVE RandomRange(1, c, r) - 1 \in Nat
<1>1. r \in Nat /\ RandMax \in Nat \ {0}
  BY ListAssumption
<1>2. c * r \in Nat
  BY <1>1
<1>3. (c * r) \div RandMax \in Nat
  BY <1>1, <1>2
<1>. QED
  BY <1>3 DEF RandomRange

(* A searcher's steps read the list and move only the searcher.            *)
LEMMA SearcherList ==
    ASSUME Typed, LockInv, NEW n \in Nat, NEW L \in [1 .. n -> Nodes], ListIs(n, L),
           NEW s \in Searchers, Searcher(s)
    PROVE  ListIs(n, L)' /\ Typed'
<1>. USE ListAssumption DEF Typed, Threads, Goto, list, local
<1>0. at \in [Threads -> At] /\ s \in Threads /\ s \notin Inserters /\ s \notin Deleters
      /\ UNCHANGED << turkey_dinners, next_dinner, dinner_count, heap, mine >>
  BY DEF LockInv, Searcher, SLock, STest, Pick, Start, Walk, SFound, SUnlock
<1>1. \A t \in Threads \ {s} :
         /\ at'[t] = at[t] /\ curr'[t] = curr[t] /\ todo'[t] = todo[t]
         /\ t \in overlong' <=> t \in overlong
  BY <1>0 DEF Searcher, SLock, STest, Pick, Start, Walk, SFound, SUnlock
<1>2. prev' = prev /\ at'[s] # "lock_del"
  BY <1>0 DEF Searcher, SLock, STest, Pick, Start, Walk, SFound, SUnlock, LockInv, SearchingAt
<1>3. Chain(n, L)'
  BY <1>0 DEF ListIs, Chain
<1>4. Mine(n, L)'
  <2>1. \A i \in Inserters : at'[i] = at[i] /\ curr'[i] = curr[i]
    BY <1>0, <1>1
  <2>. QED
    BY <1>0, <2>1 DEF ListIs, Mine, Prepared
<1>5. Counted(n)'
  <2>1. at'[s] = "pick" => dinner_count > 0
    BY <1>0 DEF Searcher, SLock, STest, Pick, Start, Walk, SFound, SUnlock
  <2>. QED
    BY <1>0, <1>1, <1>2, <2>1 DEF ListIs, Counted
<1>6. at'[s] = "start" => n > 0 /\ todo'[s] + 1 <= n + Extra(s)'
  <2>1. CASE Pick(s)
    <3>1. dinner_count > 0 /\ dinner_count <= n /\ dinner_count \in Nat
      <4>1. \A d \in Deleters : at[d] # "dec"
        BY <2>1, OneChanger DEF Pick, SearchingAt
      <4>. QED
        BY <2>1, <4>1 DEF Pick, ListIs, Counted
    <3>2. PICK r \in 0 .. RandMax :
             /\ todo' = [todo EXCEPT ![s] = RandomRange(1, dinner_count, r) - 1]
             /\ overlong' = IF r = RandMax THEN overlong \cup {s} ELSE overlong
      BY <2>1 DEF Pick
    <3>3. todo'[s] \in 0 .. dinner_count /\ (r # RandMax => todo'[s] <= dinner_count - 1)
      BY <1>0, <3>1, <3>2, RandomRangeBound
    <3>4. r = RandMax => Extra(s)' = 1
      BY <3>2 DEF Extra
    <3>5. Extra(s)' \in {0, 1}
      BY DEF Extra
    <3>. QED
      BY <3>1, <3>3, <3>4, <3>5
  <2>2. CASE ~Pick(s)
    BY <1>0, <2>2 DEF Searcher, SLock, STest, Start, Walk, SFound, SUnlock
  <2>. QED
    BY <2>1, <2>2
<1>7. at'[s] = "walk" => WalkAt(s, n, L)'
  <2>1. CASE Start(s)
    <3>1. at[s] = "start" /\ curr'[s] = turkey_dinners /\ todo'[s] = todo[s]
      BY <1>0, <2>1 DEF Start
    <3>2. n > 0 /\ todo[s] + 1 <= n + Extra(s) /\ todo[s] \in Nat /\ Extra(s)' = Extra(s)
      BY <1>0, <2>1, <3>1 DEF ListIs, Walks, Extra, Start
    <3>3. 1 \in 1 .. n /\ turkey_dinners = L[1] /\ 1 + todo[s] <= n + Extra(s)
      BY <3>2 DEF ListIs, Chain, Extra
    <3>. QED
      BY <1>0, <3>1, <3>2, <3>3 DEF WalkAt, OnNode
  <2>2. CASE Walk(s)
    <3>0. curr[s] # NULL /\ ~PastEnd(s)
      BY <2>2 DEF Walk, PastEnd
    <3>1. PICK k \in 1 .. n : curr[s] = L[k] /\ k + todo[s] <= n + Extra(s)
      BY <2>2, <3>0 DEF Walk, ListIs, Walks, WalkAt, OnNode
    <3>2. /\ todo[s] \in Nat \ {0} /\ todo'[s] = todo[s] - 1
          /\ curr'[s] = next_dinner[curr[s]] /\ overlong' = overlong
      BY <1>0, <2>2 DEF Walk
    <3>3. Extra(s) \in {0, 1} /\ Extra(s)' = Extra(s)
      BY <3>2 DEF Extra
    <3>4. CASE k # n
      <4>1. k + 1 \in 1 .. n /\ k \in 1 .. n - 1 /\ k + 1 + todo'[s] <= n + Extra(s)
        BY <3>1, <3>2, <3>3, <3>4
      <4>2. curr'[s] = L[k + 1]
        BY <3>1, <3>2, <4>1 DEF ListIs, Chain
      <4>. QED
        BY <1>0, <3>3, <4>1, <4>2 DEF WalkAt, OnNode
    <3>5. CASE k = n
      <4>1. Extra(s) = 1 /\ todo'[s] = 0
        BY <3>1, <3>2, <3>3, <3>5
      <4>2. s \in overlong'
        BY <3>2, <4>1 DEF Extra
      <4>3. curr'[s] = NULL
        BY <3>1, <3>2, <3>5 DEF ListIs, Chain
      <4>. QED
        BY <4>1, <4>2, <4>3 DEF WalkAt, PastEnd
    <3>. QED
      BY <3>4, <3>5
  <2>3. CASE ~Start(s) /\ ~Walk(s)
    BY <1>0, <2>3 DEF Searcher, SLock, STest, Pick, SFound, SUnlock
  <2>. QED
    BY <2>1, <2>2, <2>3
<1>8. Walks(n, L)'
  <2>1. \A t \in (Searchers \cup Deleters) \ {s} : WalkAt(t, n, L) => WalkAt(t, n, L)'
    BY <1>1, <1>2 DEF WalkAt, OnNode, PastEnd, Extra
  <2>2. \A t \in Searchers \cup Deleters :
           /\ at'[t] = "start" => n > 0 /\ todo'[t] + 1 <= n + Extra(t)'
           /\ at'[t] = "walk" => WalkAt(t, n, L)'
    <3>. SUFFICES ASSUME NEW t \in (Searchers \cup Deleters) \ {s}
                 PROVE  /\ at'[t] = "start" => n > 0 /\ todo'[t] + 1 <= n + Extra(t)'
                        /\ at'[t] = "walk" => WalkAt(t, n, L)'
      BY <1>6, <1>7
    <3>1. at'[t] = at[t] /\ todo'[t] = todo[t] /\ Extra(t)' = Extra(t)
      BY <1>1 DEF Extra
    <3>. QED
      BY <2>1, <3>1 DEF ListIs, Walks
  <2>3. \A d \in Deleters : at'[d] = at[d] /\ curr'[d] = curr[d]
    BY <1>0, <1>1
  <2>. QED
    BY <1>0, <1>2, <2>2, <2>3 DEF ListIs, Walks
<1>9. Typed'
  <2>1. \A r \in 0 .. RandMax : RandomRange(1, dinner_count, r) - 1 \in Nat
    BY RandomRangeNat DEF ListIs, Counted
  <2>2. CASE Pick(s)  BY <1>0, <2>1, <2>2 DEF Pick
  <2>3. CASE Start(s) BY <1>0, <2>3 DEF Start
  <2>4. CASE Walk(s)
    <3>1. curr' \in [Threads -> Nodes \cup {NULL}] /\ todo' \in [Threads -> Nat]
      BY <1>0, <2>4 DEF Walk
    <3>. QED
      BY <1>0, <1>2, <2>4, <3>1 DEF Walk
  <2>5. CASE SFound(s) BY <1>0, <2>5 DEF SFound
  <2>6. CASE SLock(s) \/ STest(s) \/ SUnlock(s)
    BY <1>0, <2>6 DEF SLock, STest, SUnlock
  <2>. QED
    BY <2>2, <2>3, <2>4, <2>5, <2>6 DEF Searcher
<1>. QED
  BY <1>3, <1>4, <1>5, <1>8, <1>9 DEF ListIs

(* A step that keeps the head, and the nodes of the list with their links. *)
LEMMA ChainKept ==
    ASSUME NEW n \in Nat, NEW L, Chain(n, L), turkey_dinners' = turkey_dinners,
           \A j \in 1 .. n : next_dinner'[L[j]] = next_dinner[L[j]] /\ L[j] \in heap'
    PROVE  Chain(n, L)'
<1>1. \A j \in 1 .. n - 1 : next_dinner'[L[j]] = L[j + 1]
  <2>1. \A j \in 1 .. n - 1 : j \in 1 .. n
    OBVIOUS
  <2>. QED
    BY <2>1 DEF Chain
<1>2. n > 0 => next_dinner'[L[n]] = next_dinner[L[n]]
  OBVIOUS
<1>. QED
  BY <1>1, <1>2 DEF Chain

(* The steps of an inserter that leave the list alone: taking and giving   *)
(* back the lock, and looking for the end of the list.                     *)
LEMMA InserterLooks ==
    ASSUME Typed, LockInv, NEW n \in Nat, NEW L \in [1 .. n -> Nodes], ListIs(n, L),
           NEW i \in Inserters, ILock(i) \/ IFirst(i) \/ ILast(i) \/ IUnlock(i)
    PROVE  ListIs(n, L)' /\ Typed'
<1>. USE ListAssumption DEF Typed, Threads, Goto, list, local
<1>0. /\ at \in [Threads -> At] /\ i \in Threads /\ i \notin Searchers /\ i \notin Deleters
      /\ UNCHANGED << turkey_dinners, next_dinner, dinner_count, heap, prev, todo, mine, overlong >>
      /\ \A t \in Threads \ {i} : at'[t] = at[t] /\ curr'[t] = curr[t]
  BY DEF LockInv, ILock, LockInserters, IFirst, ILast, IUnlock
<1>1. at[i] # "inc" /\ at'[i] # "inc"
  BY <1>0 DEF ILock, LockInserters, IFirst, ILast, IUnlock
<1>2. Chain(n, L)'
  BY <1>0 DEF ListIs, Chain
<1>3. Counted(n)'
  <2>1. \A t \in Searchers \cup Deleters : at'[t] = at[t]
    BY <1>0
  <2>2. \A h \in Inserters : at'[h] = "inc" <=> at[h] = "inc"
    BY <1>0, <1>1
  <2>. QED
    BY <1>0, <2>1, <2>2 DEF ListIs, Counted
<1>4. Walks(n, L)'
  <2>1. \A t \in Searchers \cup Deleters : at'[t] = at[t] /\ curr'[t] = curr[t]
    BY <1>0
  <2>. QED
    BY <1>0, <2>1 DEF ListIs, Walks, WalkAt, OnNode, PastEnd, Extra
<1>5. Mine(n, L)'
  <2>1. /\ Prepared(i)' => Prepared(i)
        /\ at'[i] \in {"malloc", "unlock_ins"} => at[i] = "unlock_ins"
    BY <1>0 DEF ILock, LockInserters, IFirst, ILast, IUnlock, Prepared
  <2>2. at'[i] = "last" => \E j \in 1 .. n : curr'[i] = L[j]
    <3>1. CASE IFirst(i)
      <4>1. at'[i] = "last" => curr'[i] = turkey_dinners /\ turkey_dinners # NULL
        BY <1>0, <3>1 DEF IFirst
      <4>. QED
        BY <4>1 DEF ListIs, Chain
    <3>2. CASE ILast(i)
      <4>1. PICK j \in 1 .. n : curr[i] = L[j]
        BY <3>2 DEF ILast, ListIs, Mine
      <4>2. at'[i] = "last" => curr'[i] = next_dinner[L[j]] /\ next_dinner[L[j]] # NULL
        BY <1>0, <3>2, <4>1 DEF ILast
      <4>3. next_dinner[L[j]] # NULL => j + 1 \in 1 .. n /\ next_dinner[L[j]] = L[j + 1]
        BY DEF ListIs, Chain
      <4>. QED
        BY <4>2, <4>3
    <3>3. CASE ILock(i) \/ IUnlock(i)
      BY <1>0, <3>3 DEF ILock, LockInserters, IUnlock
    <3>. QED
      BY <3>1, <3>2, <3>3
  <2>3. at'[i] = "link" => curr'[i] = (IF n = 0 THEN NULL ELSE L[n])
    <3>1. CASE IFirst(i)
      BY <1>0, <3>1 DEF IFirst, ListIs, Chain
    <3>2. CASE ILast(i)
      <4>1. PICK j \in 1 .. n : curr[i] = L[j]
        BY <3>2 DEF ILast, ListIs, Mine
      <4>2. at'[i] = "link" => curr'[i] = L[j] /\ next_dinner[L[j]] = NULL
        BY <1>0, <3>2, <4>1 DEF ILast
      <4>3. next_dinner[L[j]] = NULL => j = n
        <5>1. j # n => j \in 1 .. n - 1 /\ j + 1 \in 1 .. n
          OBVIOUS
        <5>2. j # n => next_dinner[L[j]] \in Nodes
          BY <5>1 DEF ListIs, Chain
        <5>. QED
          BY <5>2
      <4>. QED
        BY <4>2, <4>3
    <3>3. CASE ILock(i) \/ IUnlock(i)
      BY <1>0, <3>3 DEF ILock, LockInserters, IUnlock
    <3>. QED
      BY <3>1, <3>2, <3>3
  <2>4. \A h \in Inserters \ {i} : at'[h] = at[h] /\ curr'[h] = curr[h]
    BY <1>0
  <2>5. \A h \in Inserters : Prepared(h)' => Prepared(h)
    BY <2>1, <2>4 DEF Prepared
  <2>. QED
    BY <1>0, <1>1, <2>1, <2>2, <2>3, <2>4, <2>5 DEF ListIs, Mine
<1>6. Typed'
  <2>1. curr' \in [Threads -> Nodes \cup {NULL}]
    <3>1. CASE IFirst(i)
      BY <1>0, <3>1 DEF IFirst
    <3>2. CASE ILast(i)
      <4>1. curr[i] \in Nodes
        BY <3>2 DEF ILast, ListIs, Mine
      <4>. QED
        BY <1>0, <3>2, <4>1 DEF ILast
    <3>3. CASE ILock(i) \/ IUnlock(i)
      BY <3>3 DEF ILock, LockInserters, IUnlock
    <3>. QED
      BY <3>1, <3>2, <3>3
  <2>. QED
    BY <1>0, <2>1
<1>. QED
  BY <1>2, <1>3, <1>4, <1>5, <1>6 DEF ListIs

(* malloc gives an inserter a node that nobody has.                        *)
LEMMA InserterMallocs ==
    ASSUME Typed, LockInv, NEW n \in Nat, NEW L \in [1 .. n -> Nodes], ListIs(n, L),
           NEW i \in Inserters, IMalloc(i)
    PROVE  ListIs(n, L)' /\ Typed'
<1>. USE ListAssumption DEF Typed, Threads, Goto, list, local
<1>0. /\ at \in [Threads -> At] /\ i \in Threads /\ i \notin Searchers /\ i \notin Deleters
      /\ at[i] = "malloc" /\ at'[i] = "lock_ins"
      /\ UNCHANGED << turkey_dinners, dinner_count, curr, prev, todo, overlong >>
      /\ \A t \in Threads \ {i} : at'[t] = at[t]
  BY DEF LockInv, IMalloc
<1>1. PICK m \in Nodes \ heap :
         /\ heap' = heap \cup {m}
         /\ next_dinner' = [next_dinner EXCEPT ![m] = NULL]
         /\ mine' = [mine EXCEPT ![i] = m]
  BY DEF IMalloc
<1>2. \A j \in 1 .. n : L[j] \in heap /\ L[j] # m /\ L[j] \in Nodes
  BY DEF ListIs, Chain
<1>3. Chain(n, L)'
  <2>1. \A j \in 1 .. n : next_dinner'[L[j]] = next_dinner[L[j]] /\ L[j] \in heap'
    BY <1>1, <1>2
  <2>. QED
    BY <1>0, <2>1, ChainKept DEF ListIs
<1>4. Counted(n)'
  <2>1. \A t \in Searchers \cup Deleters : at'[t] = at[t]
    BY <1>0
  <2>2. \A h \in Inserters : at'[h] = "inc" <=> at[h] = "inc"
    BY <1>0
  <2>. QED
    BY <1>0, <2>1, <2>2 DEF ListIs, Counted
<1>5. Walks(n, L)'
  <2>1. \A t \in Searchers \cup Deleters : at'[t] = at[t]
    BY <1>0
  <2>2. \A d \in Deleters : at[d] \in {"dec", "free"} =>
           curr[d] \in heap' /\ \A h \in Inserters : curr[d] # mine'[h]
    BY <1>1 DEF ListIs, Walks
  <2>. QED
    BY <1>0, <2>1, <2>2 DEF ListIs, Walks, WalkAt, OnNode, PastEnd, Extra
<1>6. Mine(n, L)'
  <2>1. \A h \in Inserters \ {i} : mine'[h] = mine[h] /\ mine[h] # m /\ at'[h] = at[h]
    <3>. SUFFICES ASSUME NEW h \in Inserters \ {i} PROVE mine[h] # m
      BY <1>0, <1>1
    <3>1. at[h] \in InsertingAt \cup {"malloc", "lock_ins"}
      BY DEF LockInv
    <3>2. mine[h] = NULL \/ mine[h] \in heap
      BY <3>1 DEF InsertingAt, ListIs, Mine, Prepared
    <3>. QED
      BY <3>2
  <2>2. mine'[i] = m /\ m \in heap' /\ next_dinner'[m] = NULL
    BY <1>1
  <2>3. \A h \in Inserters \ {i} : Prepared(h) => next_dinner'[mine[h]] = NULL
    BY <1>1, <2>1 DEF ListIs, Mine
  <2>4. \A h \in Inserters \ {i} : Prepared(h)' <=> Prepared(h)
    BY <2>1 DEF Prepared
  <2>5. heap \subseteq heap'
    BY <1>1
  <2>6. ASSUME NEW h \in Inserters, Prepared(h)'
        PROVE  /\ mine'[h] \in heap' /\ next_dinner'[mine'[h]] = NULL
               /\ \A j \in 1 .. n : mine'[h] # L[j]
               /\ \A g \in Inserters \ {h} : mine'[g] # mine'[h]
    <3>1. CASE h = i
      BY <1>2, <2>1, <2>2, <3>1
    <3>2. CASE h # i
      <4>1. /\ mine[h] \in heap /\ \A j \in 1 .. n : mine[h] # L[j]
            /\ \A g \in Inserters \ {h} : mine[g] # mine[h]
        BY <2>4, <2>6, <3>2 DEF ListIs, Mine
      <4>. QED
        BY <2>1, <2>2, <2>3, <2>4, <2>5, <2>6, <3>2, <4>1
    <3>. QED
      BY <3>1, <3>2
  <2>7. ASSUME NEW h \in Inserters
        PROVE  /\ at'[h] \in {"malloc", "unlock_ins"} => mine'[h] = NULL
               /\ at'[h] = "inc" => mine'[h] \in heap'
               /\ at'[h] = "last" => \E j \in 1 .. n : curr'[h] = L[j]
               /\ at'[h] = "link" => curr'[h] = (IF n = 0 THEN NULL ELSE L[n])
    BY <1>0, <2>1, <2>5 DEF ListIs, Mine
  <2>. QED
    BY <2>6, <2>7 DEF Mine
<1>7. Typed'
  BY <1>0, <1>1
<1>. QED
  BY <1>3, <1>4, <1>5, <1>6, <1>7 DEF ListIs

(* An inserter appends its dinner: the list gets one longer, and every     *)
(* walk stays where it is.                                                 *)
LEMMA InserterLinks ==
    ASSUME Typed, LockInv, NEW n \in Nat, NEW L \in [1 .. n -> Nodes], ListIs(n, L),
           NEW i \in Inserters, ILink(i)
    PROVE  Typed' /\ \E M \in [1 .. n + 1 -> Nodes] : ListIs(n + 1, M)'
<1>. USE ListAssumption DEF Typed, Threads, Goto, list, local
<1>0. /\ at \in [Threads -> At] /\ i \in Threads /\ i \notin Searchers /\ i \notin Deleters
      /\ at[i] = "link" /\ at'[i] = "inc" /\ at[i] \in InsertingAt
      /\ UNCHANGED << dinner_count, heap, prev, todo, mine, overlong >>
      /\ curr' = [curr EXCEPT ![i] = NULL]
      /\ \A t \in Threads \ {i} : at'[t] = at[t] /\ curr'[t] = curr[t]
  BY DEF LockInv, ILink, InsertingAt
<1>1. /\ mine[i] \in heap /\ mine[i] \in Nodes /\ next_dinner[mine[i]] = NULL
      /\ \A j \in 1 .. n : mine[i] # L[j]
      /\ \A h \in Inserters \ {i} : mine[h] # mine[i]
      /\ curr[i] = (IF n = 0 THEN NULL ELSE L[n])
  BY <1>0 DEF ListIs, Mine, Prepared
<1>2. PICK M \in [1 .. n + 1 -> Nodes] :
         M = [j \in 1 .. n + 1 |-> IF j = n + 1 THEN mine[i] ELSE L[j]]
  <2>1. \A j \in 1 .. n + 1 : (IF j = n + 1 THEN mine[i] ELSE L[j]) \in Nodes
    BY <1>1
  <2>. QED
    BY <2>1
<1>2a. /\ M[n + 1] = mine[i] /\ \A j \in 1 .. n : M[j] = L[j]
       /\ \A j \in 1 .. n + 1 : j # n + 1 => j \in 1 .. n
  BY <1>2
<1>3. Chain(n + 1, M)'
  <2>1. \A j \in 1 .. n + 1 : M[j] \in heap'
    BY <1>0, <1>1, <1>2 DEF ListIs, Chain
  <2>2. \A j, k \in 1 .. n + 1 : M[j] = M[k] => j = k
    BY <1>1, <1>2 DEF ListIs, Chain
  <2>3. CASE n = 0
    <3>1. turkey_dinners' = mine[i] /\ next_dinner' = next_dinner
      BY <1>1, <2>3 DEF ILink
    <3>. QED
      BY <1>1, <1>2a, <2>1, <2>2, <2>3, <3>1 DEF Chain
  <2>4. CASE n # 0
    <3>1. /\ turkey_dinners' = turkey_dinners
          /\ next_dinner' = [next_dinner EXCEPT ![L[n]] = mine[i]]
      BY <1>1, <2>4 DEF ILink
    <3>2. n \in 1 .. n /\ 1 \in 1 .. n /\ n > 0
      BY <2>4
    <3>3. turkey_dinners = M[1] /\ turkey_dinners \in Nodes
      BY <1>2a, <3>2 DEF ListIs, Chain
    <3>4. next_dinner'[M[n + 1]] = NULL
      BY <1>1, <1>2a, <3>1, <3>2
    <3>5. ASSUME NEW j \in 1 .. n PROVE next_dinner'[M[j]] = M[j + 1]
      <4>1. CASE j = n
        BY <1>2a, <3>1, <3>2, <4>1
      <4>2. CASE j # n
        <5>1. j \in 1 .. n - 1 /\ j + 1 \in 1 .. n
          BY <4>2
        <5>2. next_dinner[L[j]] = L[j + 1] /\ L[j] # L[n]
          BY <3>2, <4>2, <5>1 DEF ListIs, Chain
        <5>. QED
          BY <1>2a, <3>1, <5>1, <5>2
      <4>. QED
        BY <4>1, <4>2
    <3>. QED
      BY <2>1, <2>2, <3>1, <3>2, <3>3, <3>4, <3>5 DEF Chain
  <2>. QED
    BY <2>3, <2>4
<1>4. /\ \A h \in Inserters \ {i} : at[h] \notin InsertingAt
      /\ \A d \in Deleters : at[d] \notin HoldsInsertersAt
  BY <1>0, OneChanger
<1>5. Counted(n + 1)'
  <2>1. \A t \in Searchers \cup Deleters : at'[t] = at[t]
    BY <1>0
  <2>2. (\A h \in Inserters : at[h] # "inc") /\ \A d \in Deleters : at[d] # "dec"
    BY <1>0, <1>4 DEF InsertingAt, HoldsInsertersAt, DeletingAt
  <2>3. dinner_count = n
    BY <2>2 DEF ListIs, Counted
  <2>. QED
    BY <1>0, <2>1, <2>2, <2>3 DEF ListIs, Counted
<1>6. Walks(n + 1, M)'
  <2>1. \A t \in Searchers \cup Deleters : at'[t] = at[t] /\ curr'[t] = curr[t]
    BY <1>0
  <2>2. ASSUME NEW t \in Searchers, WalkAt(t, n, L) PROVE WalkAt(t, n + 1, M)'
    <3>0. CASE PastEnd(t)
      BY <1>0, <2>1, <3>0 DEF WalkAt, PastEnd
    <3>1. ASSUME NEW k \in 1 .. n, OnNode(t, n, L, k) PROVE WalkAt(t, n + 1, M)'
      <4>1. Extra(t)' = Extra(t) /\ Extra(t) \in {0, 1} /\ todo[t] \in Nat
        BY <1>0 DEF Extra
      <4>2. /\ k \in 1 .. n + 1 /\ curr'[t] = M[k] /\ k + todo'[t] <= (n + 1) + Extra(t)'
            /\ t \notin Deleters
        BY <1>0, <1>2a, <2>1, <3>1, <4>1 DEF OnNode
      <4>. QED
        BY <4>2 DEF WalkAt, OnNode
    <3>. QED
      BY <2>2, <3>0, <3>1 DEF WalkAt
  <2>3. \A d \in Deleters : at[d] \notin {"start", "walk", "dec", "free"}
    BY <1>4 DEF HoldsInsertersAt, DeletingAt
  <2>4. \A t \in Searchers \cup Deleters : at[t] = "start" =>
           n + 1 > 0 /\ todo'[t] + 1 <= (n + 1) + Extra(t)'
    BY <1>0 DEF ListIs, Walks, Extra
  <2>. QED
    BY <1>0, <2>1, <2>2, <2>3, <2>4 DEF ListIs, Walks
<1>7. Mine(n + 1, M)'
  <2>1. \A h \in Inserters \ {i} : at'[h] = at[h] /\ curr'[h] = curr[h]
    BY <1>0
  <2>2. ~Prepared(i)' /\ \A h \in Inserters \ {i} : Prepared(h)' <=> Prepared(h)
    BY <1>0, <2>1 DEF Prepared
  <2>3. ASSUME NEW h \in Inserters, Prepared(h)'
        PROVE  /\ mine'[h] \in heap' /\ next_dinner'[mine'[h]] = NULL
               /\ \A j \in 1 .. n + 1 : mine'[h] # M[j]
               /\ \A g \in Inserters \ {h} : mine'[g] # mine'[h]
    <3>1. h # i /\ Prepared(h)
      BY <2>2, <2>3
    <3>2. /\ mine[h] \in heap /\ next_dinner[mine[h]] = NULL
          /\ \A j \in 1 .. n : mine[h] # L[j]
          /\ \A g \in Inserters \ {h} : mine[g] # mine[h]
      BY <3>1 DEF ListIs, Mine
    <3>3. next_dinner'[mine[h]] = NULL
      <4>1. n # 0 => mine[h] # L[n] /\ L[n] \in Nodes
        BY <3>2
      <4>2. \/ next_dinner' = next_dinner
            \/ n # 0 /\ next_dinner' = [next_dinner EXCEPT ![L[n]] = mine[i]]
        <5>1. curr[i] # NULL => n # 0 /\ curr[i] = L[n]
          BY <1>1
        <5>. QED
          BY <5>1 DEF ILink
      <4>. QED
        BY <3>2, <4>1, <4>2
    <3>. QED
      BY <1>0, <1>1, <1>2a, <3>1, <3>2, <3>3
  <2>4. \A h \in Inserters \ {i} : at[h] \in {"malloc", "lock_ins"}
    BY <1>4 DEF LockInv
  <2>. QED
    BY <1>0, <1>1, <2>1, <2>3, <2>4 DEF ListIs, Mine
<1>8. Typed'
  <2>1. turkey_dinners' \in Nodes \cup {NULL} /\ next_dinner' \in [Nodes -> Nodes \cup {NULL}]
    BY <1>1 DEF ILink
  <2>. QED
    BY <1>0, <2>1
<1>. QED
  BY <1>3, <1>5, <1>6, <1>7, <1>8 DEF ListIs

(* An inserter counts the dinner it has linked.                            *)
LEMMA InserterCounts ==
    ASSUME Typed, LockInv, NEW n \in Nat, NEW L \in [1 .. n -> Nodes], ListIs(n, L),
           NEW i \in Inserters, IInc(i)
    PROVE  ListIs(n, L)' /\ Typed'
<1>. USE ListAssumption DEF Typed, Threads, Goto, list, local
<1>0. /\ at \in [Threads -> At] /\ i \in Threads /\ i \notin Searchers /\ i \notin Deleters
      /\ at[i] = "inc" /\ at'[i] = "unlock_ins" /\ at[i] \in InsertingAt
      /\ UNCHANGED << turkey_dinners, next_dinner, heap, curr, prev, todo, overlong >>
      /\ dinner_count' = dinner_count + 1
      /\ mine' = [mine EXCEPT ![i] = NULL]
      /\ \A t \in Threads \ {i} : at'[t] = at[t]
  BY DEF LockInv, IInc, InsertingAt
<1>1. /\ \A h \in Inserters \ {i} : at[h] \notin InsertingAt
      /\ \A d \in Deleters : at[d] \notin HoldsInsertersAt
  BY <1>0, OneChanger
<1>2. Chain(n, L)'
  BY <1>0 DEF ListIs, Chain
<1>3. Counted(n)'
  <2>1. \A t \in Searchers \cup Deleters : at'[t] = at[t]
    BY <1>0
  <2>2. (\A h \in Inserters : at'[h] # "inc") /\ \A d \in Deleters : at[d] # "dec"
    BY <1>0, <1>1 DEF InsertingAt, HoldsInsertersAt, DeletingAt
  <2>3. dinner_count = n - 1 /\ dinner_count \in Nat
    BY <1>0 DEF ListIs, Counted
  <2>. QED
    BY <1>0, <2>1, <2>2, <2>3 DEF ListIs, Counted
<1>4. Walks(n, L)'
  <2>1. \A t \in Searchers \cup Deleters : at'[t] = at[t]
    BY <1>0
  <2>2. \A d \in Deleters : at[d] \notin {"dec", "free"}
    BY <1>1 DEF HoldsInsertersAt, DeletingAt
  <2>. QED
    BY <1>0, <2>1, <2>2 DEF ListIs, Walks, WalkAt, OnNode, PastEnd, Extra
<1>5. Mine(n, L)'
  <2>1. \A h \in Inserters \ {i} : at'[h] = at[h] /\ mine'[h] = mine[h]
    BY <1>0
  <2>2. mine'[i] = NULL /\ ~Prepared(i)' /\ \A h \in Inserters \ {i} : Prepared(h)' <=> Prepared(h)
    BY <1>0, <2>1 DEF Prepared
  <2>3. NULL \notin heap
    OBVIOUS
  <2>. QED
    BY <1>0, <2>1, <2>2, <2>3 DEF ListIs, Mine
<1>6. Typed'
  BY <1>0
<1>. QED
  BY <1>2, <1>3, <1>4, <1>5, <1>6 DEF ListIs
(* The steps of a deleter that leave the list alone: the locks, the test   *)
(* and the walk.                                                           *)
DeleterMoves(d) ==
    \/ DLock(d) \/ DLockInserters(d) \/ DTest(d) \/ DLockDeleters(d)
    \/ Pick(d) \/ Start(d) \/ Walk(d)
    \/ DUnlockDeleters(d) \/ DUnlockInserters(d) \/ DUnlock(d)

(* They keep the list, and the deleter's place on it.                      *)
LEMMA DeleterWalks ==
    ASSUME Typed, LockInv, NEW n \in Nat, NEW L \in [1 .. n -> Nodes], ListIs(n, L),
           NEW d \in Deleters, DeleterMoves(d)
    PROVE  ListIs(n, L)' /\ Typed'
<1>. USE ListAssumption DEF Typed, Threads, Goto, list, local
<1>0. /\ at \in [Threads -> At] /\ d \in Threads /\ d \notin Inserters /\ d \notin Searchers
      /\ UNCHANGED << turkey_dinners, next_dinner, dinner_count, heap, mine >>
  BY DEF LockInv, DeleterMoves, DLock, DLockInserters, LockInserters, DTest, DLockDeleters, Pick,
         Start, Walk, DUnlockDeleters, DUnlockInserters, DUnlock
<1>1. /\ \A t \in Threads \ {d} :
            /\ at'[t] = at[t] /\ curr'[t] = curr[t] /\ todo'[t] = todo[t]
            /\ t \in overlong' <=> t \in overlong
      /\ \A e \in Deleters \ {d} : prev'[e] = prev[e]
  BY <1>0 DEF DeleterMoves, DLock, DLockInserters, LockInserters, DTest, DLockDeleters, Pick,
         Start, Walk, DUnlockDeleters, DUnlockInserters, DUnlock
<1>2. at[d] \notin {"dec", "free"} /\ at'[d] \notin {"dec", "free"}
  BY <1>0 DEF DeleterMoves, DLock, DLockInserters, LockInserters, DTest, DLockDeleters, Pick,
         Start, Walk, DUnlockDeleters, DUnlockInserters, DUnlock
<1>3. Chain(n, L)'
  BY <1>0 DEF ListIs, Chain
<1>4. Mine(n, L)'
  <2>1. \A i \in Inserters : at'[i] = at[i] /\ curr'[i] = curr[i]
    BY <1>0, <1>1
  <2>. QED
    BY <1>0, <2>1 DEF ListIs, Mine, Prepared
<1>5. Counted(n)'
  <2>1. at'[d] \in {"pick", "lock_del"} => dinner_count > 0
    <3>1. at'[d] \in {"pick", "lock_del"} => DTest(d) \/ DLockDeleters(d)
      BY <1>0 DEF DeleterMoves, DLock, DLockInserters, LockInserters, DTest, DLockDeleters, Pick,
         Start, Walk, DUnlockDeleters, DUnlockInserters, DUnlock
    <3>2. CASE DTest(d)
      BY <1>0, <3>2 DEF DTest
    <3>3. CASE DLockDeleters(d)
      BY <1>0, <3>3 DEF DLockDeleters, ListIs, Counted
    <3>. QED
      BY <3>1, <3>2, <3>3
  <2>2. \A e \in Deleters : at'[e] = "dec" <=> at[e] = "dec"
    BY <1>1, <1>2
  <2>3. \A i \in Inserters : at'[i] = at[i]
    BY <1>0, <1>1
  <2>4. \A t \in Searchers \cup Deleters : at'[t] \in {"pick", "lock_del"} => dinner_count > 0
    BY <1>0, <1>1, <2>1 DEF ListIs, Counted
  <2>. QED
    BY <1>0, <2>2, <2>3, <2>4 DEF ListIs, Counted
<1>6. at'[d] = "start" => n > 0 /\ todo'[d] + 1 <= n + Extra(d)'
  <2>1. CASE Pick(d)
    <3>1. dinner_count > 0 /\ dinner_count <= n /\ dinner_count \in Nat
      <4>1. \A e \in Deleters : at[e] # "dec"
        BY <2>1, OneChanger DEF Pick
      <4>. QED
        BY <2>1, <4>1 DEF Pick, ListIs, Counted
    <3>2. PICK r \in 0 .. RandMax :
             /\ todo' = [todo EXCEPT ![d] = RandomRange(1, dinner_count, r) - 1]
             /\ overlong' = IF r = RandMax THEN overlong \cup {d} ELSE overlong
      BY <2>1 DEF Pick
    <3>3. todo'[d] \in 0 .. dinner_count /\ (r # RandMax => todo'[d] <= dinner_count - 1)
      BY <1>0, <3>1, <3>2, RandomRangeBound
    <3>4. r = RandMax => Extra(d)' = 1
      BY <3>2 DEF Extra
    <3>5. Extra(d)' \in {0, 1}
      BY DEF Extra
    <3>. QED
      BY <3>1, <3>3, <3>4, <3>5
  <2>2. CASE ~Pick(d)
    BY <1>0, <2>2 DEF DeleterMoves, DLock, DLockInserters, LockInserters, DTest, DLockDeleters,
         Start, Walk, DUnlockDeleters, DUnlockInserters, DUnlock
  <2>. QED
    BY <2>1, <2>2
<1>7. at'[d] = "walk" => WalkAt(d, n, L)'
  <2>1. CASE Start(d)
    <3>1. /\ at[d] = "start" /\ curr'[d] = turkey_dinners /\ todo'[d] = todo[d]
          /\ prev'[d] = prev[d]
      BY <1>0, <2>1 DEF Start
    <3>2. /\ n > 0 /\ todo[d] + 1 <= n + Extra(d) /\ todo[d] \in Nat /\ prev[d] = NULL
          /\ Extra(d)' = Extra(d)
      BY <1>0, <2>1, <3>1 DEF ListIs, Walks, Extra, Start
    <3>3. 1 \in 1 .. n /\ turkey_dinners = L[1] /\ 1 + todo[d] <= n + Extra(d)
      BY <3>2 DEF ListIs, Chain, Extra
    <3>. QED
      BY <1>0, <3>1, <3>2, <3>3 DEF WalkAt, OnNode
  <2>2. CASE Walk(d)
    <3>0. curr[d] # NULL /\ ~PastEnd(d)
      BY <2>2 DEF Walk, PastEnd
    <3>1. PICK k \in 1 .. n : curr[d] = L[k] /\ k + todo[d] <= n + Extra(d)
      BY <2>2, <3>0 DEF Walk, ListIs, Walks, WalkAt, OnNode
    <3>2. /\ todo[d] \in Nat \ {0} /\ todo'[d] = todo[d] - 1
          /\ curr'[d] = next_dinner[curr[d]] /\ prev'[d] = curr[d] /\ overlong' = overlong
      BY <1>0, <2>2 DEF Walk
    <3>3. Extra(d) \in {0, 1} /\ Extra(d)' = Extra(d)
      BY <3>2 DEF Extra
    <3>4. CASE k # n
      <4>1. k + 1 \in 1 .. n /\ k \in 1 .. n - 1 /\ k + 1 + todo'[d] <= n + Extra(d)
        BY <3>1, <3>2, <3>3, <3>4
      <4>2. curr'[d] = L[k + 1] /\ prev'[d] = L[(k + 1) - 1] /\ k + 1 # 1
        BY <3>1, <3>2, <4>1 DEF ListIs, Chain
      <4>. QED
        BY <1>0, <3>3, <4>1, <4>2 DEF WalkAt, OnNode
    <3>5. CASE k = n
      <4>1. Extra(d) = 1 /\ todo'[d] = 0
        BY <3>1, <3>2, <3>3, <3>5
      <4>2. d \in overlong'
        BY <3>2, <4>1 DEF Extra
      <4>3. curr'[d] = NULL
        BY <3>1, <3>2, <3>5 DEF ListIs, Chain
      <4>. QED
        BY <4>1, <4>2, <4>3 DEF WalkAt, PastEnd
    <3>. QED
      BY <3>4, <3>5
  <2>3. CASE ~Start(d) /\ ~Walk(d)
    BY <1>0, <2>3 DEF DeleterMoves, DLock, DLockInserters, LockInserters, DTest, DLockDeleters,
         Pick, DUnlockDeleters, DUnlockInserters, DUnlock
  <2>. QED
    BY <2>1, <2>2, <2>3
<1>8. Walks(n, L)'
  <2>1. \A t \in (Searchers \cup Deleters) \ {d} : WalkAt(t, n, L) => WalkAt(t, n, L)'
    BY <1>0, <1>1 DEF WalkAt, OnNode, PastEnd, Extra
  <2>2. \A t \in Searchers \cup Deleters :
           /\ at'[t] = "start" => n > 0 /\ todo'[t] + 1 <= n + Extra(t)'
           /\ at'[t] = "walk" => WalkAt(t, n, L)'
    <3>. SUFFICES ASSUME NEW t \in (Searchers \cup Deleters) \ {d}
                 PROVE  /\ at'[t] = "start" => n > 0 /\ todo'[t] + 1 <= n + Extra(t)'
                        /\ at'[t] = "walk" => WalkAt(t, n, L)'
      BY <1>6, <1>7
    <3>1. at'[t] = at[t] /\ todo'[t] = todo[t] /\ Extra(t)' = Extra(t)
      BY <1>1 DEF Extra
    <3>. QED
      BY <2>1, <3>1 DEF ListIs, Walks
  <2>3. at'[d] # "walk" => prev'[d] = NULL
    <3>1. at'[d] # "walk" => at[d] # "walk" /\ prev' = prev
      BY <1>0 DEF DeleterMoves, DLock, DLockInserters, LockInserters, DTest, DLockDeleters, Pick,
         Start, Walk, DUnlockDeleters, DUnlockInserters, DUnlock
    <3>. QED
      BY <1>2, <3>1 DEF ListIs, Walks
  <2>4. \A e \in Deleters \ {d} : at'[e] = at[e] /\ curr'[e] = curr[e] /\ prev'[e] = prev[e]
    BY <1>1
  <2>5. \A e \in Deleters :
           /\ at'[e] \notin {"walk", "dec", "free"} => prev'[e] = NULL
           /\ at'[e] \in {"dec", "free"} =>
                 /\ curr'[e] \in heap' /\ \A j \in 1 .. n : curr'[e] # L[j]
                 /\ \A i \in Inserters : curr'[e] # mine'[i]
    BY <1>0, <1>2, <2>3, <2>4 DEF ListIs, Walks
  <2>. QED
    BY <2>2, <2>5 DEF Walks
<1>9. Typed'
  <2>1. \A r \in 0 .. RandMax : RandomRange(1, dinner_count, r) - 1 \in Nat
    BY RandomRangeNat DEF ListIs, Counted
  <2>2. CASE Pick(d)  BY <1>0, <2>1, <2>2 DEF Pick
  <2>3. CASE Start(d) BY <1>0, <2>3 DEF Start
  <2>4. CASE Walk(d)
    <3>1. curr' \in [Threads -> Nodes \cup {NULL}]
      BY <1>0, <2>4 DEF Walk
    <3>2. prev' \in [Deleters -> Nodes \cup {NULL}]
      BY <1>0, <2>4 DEF Walk
    <3>3. todo' \in [Threads -> Nat]
      BY <1>0, <2>4 DEF Walk
    <3>. QED
      BY <1>0, <2>4, <3>1, <3>2, <3>3 DEF Walk
  <2>5. CASE ~Pick(d) /\ ~Start(d) /\ ~Walk(d)
    BY <1>0, <2>5 DEF DeleterMoves, DLock, DLockInserters, LockInserters, DTest, DLockDeleters,
         DUnlockDeleters, DUnlockInserters, DUnlock
  <2>. QED
    BY <2>2, <2>3, <2>4, <2>5
<1>. QED
  BY <1>3, <1>4, <1>5, <1>8, <1>9 DEF ListIs
(* A deleter takes the k-th node out of the list: the list gets one        *)
(* shorter, and nobody else is at a node of it.                            *)
LEMMA DeleterSnips ==
    ASSUME Typed, LockInv, NEW n \in Nat, NEW L \in [1 .. n -> Nodes], ListIs(n, L),
           NEW d \in Deleters, DSnip(d)
    PROVE  Typed' /\ n - 1 \in Nat /\ \E M \in [1 .. n - 1 -> Nodes] : ListIs(n - 1, M)'
<1>. USE ListAssumption DEF Typed, Threads, Goto, list, local
<1>0. /\ at \in [Threads -> At] /\ d \in Threads /\ d \notin Searchers /\ d \notin Inserters
      /\ at[d] = "walk" /\ at'[d] = "dec" /\ at[d] \in HoldsInsertersAt
      /\ UNCHANGED << dinner_count, heap, curr, prev, todo, mine, overlong >>
      /\ \A t \in Threads \ {d} : at'[t] = at[t]
  BY DEF LockInv, DSnip, HoldsInsertersAt, DeletingAt
<1>1. PICK k \in 1 .. n : curr[d] = L[k] /\ prev[d] = (IF k = 1 THEN NULL ELSE L[k - 1])
  BY <1>0 DEF ListIs, Walks, WalkAt, OnNode, PastEnd, DSnip
<1>2. /\ \A i \in Inserters : at[i] \in {"malloc", "lock_ins"}
      /\ \A s \in Searchers : at[s] = "lock_rw"
      /\ \A e \in Deleters \ {d} : at[e] = "lock_rw"
  BY <1>0, OneChanger DEF LockInv
<1>3. PICK M \in [1 .. n - 1 -> Nodes] :
         M = [j \in 1 .. n - 1 |-> IF j < k THEN L[j] ELSE L[j + 1]]
  <2>1. \A j \in 1 .. n - 1 : (IF j < k THEN L[j] ELSE L[j + 1]) \in Nodes
    OBVIOUS
  <2>. QED
    BY <2>1
<1>4. /\ n - 1 \in Nat /\ \A j \in 1 .. n - 1 : j \in 1 .. n /\ j + 1 \in 1 .. n
      /\ \A j \in 1 .. n - 1 : j < k => M[j] = L[j]
      /\ \A j \in 1 .. n - 1 : j >= k => M[j] = L[j + 1]
  BY <1>3
<1>5. \A j, h \in 1 .. n : L[j] = L[h] => j = h
  BY DEF ListIs, Chain
<1>6. ASSUME NEW j \in 1 .. n - 1 PROVE M[j] \in heap /\ M[j] # L[k]
  <2>0. CASE j < k
    BY <1>4, <1>5, <2>0 DEF ListIs, Chain
  <2>1. CASE j >= k
    <3>1. j + 1 \in 1 .. n /\ M[j] = L[j + 1] /\ j + 1 # k
      BY <1>4, <2>1
    <3>. QED
      BY <1>5, <3>1 DEF ListIs, Chain
  <2>. QED
    BY <2>0, <2>1
<1>7. Chain(n - 1, M)'
  <2>1. \A j, h \in 1 .. n - 1 : M[j] = M[h] => j = h
    <3>. SUFFICES ASSUME NEW j \in 1 .. n - 1, NEW h \in 1 .. n - 1, M[j] = M[h] PROVE j = h
      OBVIOUS
    <3>1. CASE j < k /\ h < k
      BY <1>4, <1>5, <3>1
    <3>2. CASE j < k /\ h >= k
      BY <1>4, <1>5, <3>2
    <3>3. CASE j >= k /\ h < k
      BY <1>4, <1>5, <3>3
    <3>4. CASE j >= k /\ h >= k
      BY <1>4, <1>5, <3>4
    <3>. QED
      BY <3>1, <3>2, <3>3, <3>4
  <2>2. /\ \A j \in 1 .. n - 1 : next_dinner[L[j]] = L[j + 1]
        /\ next_dinner[L[n]] = NULL /\ turkey_dinners = L[1] /\ n > 0
    BY DEF ListIs, Chain
  <2>3. CASE k = 1
    <3>1. turkey_dinners' = next_dinner[L[1]] /\ next_dinner' = next_dinner
      BY <1>1, <2>3 DEF DSnip
    <3>2. \A j \in 1 .. n - 1 : M[j] = L[j + 1]
      BY <1>4, <2>3
    <3>3. \A j \in 1 .. (n - 1) - 1 : next_dinner[M[j]] = M[j + 1]
      <4>1. \A j \in 1 .. (n - 1) - 1 : j \in 1 .. n - 1 /\ j + 1 \in 1 .. n - 1
        BY <1>4
      <4>. QED
        BY <2>2, <3>2, <4>1
    <3>4. n - 1 > 0 => /\ turkey_dinners' = M[1] /\ next_dinner[M[n - 1]] = NULL
                      /\ turkey_dinners' # NULL
      <4>1. n - 1 > 0 => 1 \in 1 .. n - 1 /\ n - 1 \in 1 .. n - 1 /\ (n - 1) + 1 = n
        BY <1>4
      <4>. QED
        BY <2>2, <3>1, <3>2, <4>1
    <3>5. n - 1 = 0 => turkey_dinners' = NULL
      BY <2>2, <3>1
    <3>. QED
      BY <1>0, <1>4, <1>6, <2>1, <3>1, <3>3, <3>4, <3>5 DEF Chain
  <2>4. CASE k # 1
    <3>0. k - 1 \in 1 .. n - 1 /\ k - 1 \in 1 .. n /\ L[k - 1] \in Nodes
      BY <1>4, <2>4
    <3>1. /\ turkey_dinners' = turkey_dinners
          /\ next_dinner' = [next_dinner EXCEPT ![L[k - 1]] = next_dinner[L[k]]]
      BY <1>1, <2>4, <3>0 DEF DSnip
    <3>2. turkey_dinners' = M[1] /\ turkey_dinners' # NULL /\ n - 1 > 0
      <4>1. 1 \in 1 .. n - 1 /\ 1 < k /\ n - 1 > 0 /\ 1 \in 1 .. n
        BY <1>4, <2>4, <3>0
      <4>2. M[1] = L[1] /\ L[1] \in Nodes
        BY <1>4, <4>1
      <4>. QED
        BY <2>2, <3>1, <4>1, <4>2
    <3>3. ASSUME NEW j \in 1 .. (n - 1) - 1 PROVE next_dinner'[M[j]] = M[j + 1]
      <4>1. j \in 1 .. n - 1 /\ j + 1 \in 1 .. n - 1 /\ j + 1 \in 1 .. n
        BY <1>4
      <4>2. CASE j < k - 1
        <5>1. M[j] = L[j] /\ M[j + 1] = L[j + 1] /\ L[j] # L[k - 1]
          BY <1>4, <1>5, <3>0, <4>1, <4>2
        <5>. QED
          BY <2>2, <3>1, <4>1, <5>1
      <4>3. CASE j = k - 1
        <5>1. M[j] = L[k - 1] /\ M[j + 1] = L[k + 1] /\ k \in 1 .. n - 1
          BY <1>4, <4>1, <4>3
        <5>. QED
          BY <2>2, <3>0, <3>1, <5>1
      <4>4. CASE j > k - 1
        <5>1. M[j] = L[j + 1] /\ M[j + 1] = L[(j + 1) + 1] /\ L[j + 1] # L[k - 1]
          BY <1>4, <1>5, <3>0, <4>1, <4>4
        <5>. QED
          BY <2>2, <3>1, <4>1, <5>1
      <4>. QED
        BY <4>2, <4>3, <4>4
    <3>4. next_dinner'[M[n - 1]] = NULL
      <4>1. n - 1 \in 1 .. n - 1 /\ (n - 1) + 1 = n /\ n \in 1 .. n
        BY <1>4, <3>2
      <4>2. CASE k = n
        <5>1. M[n - 1] = L[k - 1]
          BY <1>4, <4>1, <4>2
        <5>. QED
          BY <2>2, <3>0, <3>1, <4>2, <5>1
      <4>3. CASE k # n
        <5>1. M[n - 1] = L[n] /\ L[n] # L[k - 1]
          BY <1>4, <1>5, <3>0, <4>1, <4>3
        <5>. QED
          BY <2>2, <3>1, <4>1, <5>1
      <4>. QED
        BY <4>2, <4>3
    <3>. QED
      BY <1>0, <1>4, <1>6, <2>1, <3>2, <3>3, <3>4 DEF Chain
  <2>. QED
    BY <2>3, <2>4
<1>8. Counted(n - 1)'
  <2>1. (\A i \in Inserters : at'[i] # "inc") /\ at'[d] \notin {"pick", "lock_del"}
    BY <1>0, <1>2
  <2>2. \A t \in Searchers \cup Deleters : t # d => at'[t] = "lock_rw"
    BY <1>0, <1>2
  <2>3. dinner_count = n /\ dinner_count \in Nat
    <3>1. (\A i \in Inserters : at[i] # "inc") /\ \A e \in Deleters : at[e] # "dec"
      BY <1>0, <1>2
    <3>. QED
      BY <3>1 DEF ListIs, Counted
  <2>. QED
    BY <1>0, <1>4, <2>1, <2>2, <2>3 DEF Counted
<1>9. \A i \in Inserters : curr[d] # mine[i]
  <2>1. \A i \in Inserters : mine[i] = NULL \/ \A j \in 1 .. n : mine[i] # L[j]
    BY <1>2 DEF ListIs, Mine, Prepared
  <2>2. L[k] # NULL
    OBVIOUS
  <2>. QED
    BY <1>1, <2>1, <2>2
<1>10. Walks(n - 1, M)'
  <2>1. \A t \in Searchers \cup Deleters : t # d => at'[t] = "lock_rw"
    BY <1>0, <1>2
  <2>2. curr[d] \in heap /\ \A j \in 1 .. n - 1 : curr[d] # M[j]
    BY <1>1, <1>6 DEF ListIs, Chain
  <2>3. \A e \in Deleters \ {d} : prev[e] = NULL
    BY <1>2 DEF ListIs, Walks
  <2>. QED
    BY <1>0, <1>9, <2>1, <2>2, <2>3 DEF Walks
<1>11. Mine(n - 1, M)'
  <2>1. \A i \in Inserters : at'[i] = at[i] /\ (Prepared(i)' <=> Prepared(i))
    BY <1>0 DEF Prepared
  <2>2. ASSUME NEW i \in Inserters, Prepared(i)
        PROVE  next_dinner'[mine[i]] = NULL /\ \A j \in 1 .. n - 1 : mine[i] # M[j]
    <3>1. mine[i] \in Nodes /\ next_dinner[mine[i]] = NULL /\ \A j \in 1 .. n : mine[i] # L[j]
      BY <2>2 DEF ListIs, Mine
    <3>2. prev[d] # NULL => prev[d] # mine[i]
      BY <1>1, <3>1
    <3>3. \A j \in 1 .. n - 1 : mine[i] # M[j]
      BY <1>4, <3>1
    <3>. QED
      BY <3>1, <3>2, <3>3 DEF DSnip
  <2>. QED
    BY <1>0, <1>2, <2>1, <2>2 DEF ListIs, Mine
<1>12. Typed'
  <2>1. next_dinner[curr[d]] \in Nodes \cup {NULL}
    BY <1>1
  <2>2. turkey_dinners' \in Nodes \cup {NULL} /\ next_dinner' \in [Nodes -> Nodes \cup {NULL}]
    BY <2>1 DEF DSnip
  <2>. QED
    BY <1>0, <2>2
<1>. QED
  BY <1>4, <1>7, <1>8, <1>10, <1>11, <1>12 DEF ListIs

(* It counts the dinner it took out.                                       *)
LEMMA DeleterCounts ==
    ASSUME Typed, LockInv, NEW n \in Nat, NEW L \in [1 .. n -> Nodes], ListIs(n, L),
           NEW d \in Deleters, DDec(d)
    PROVE  ListIs(n, L)' /\ Typed'
<1>. USE ListAssumption DEF Typed, Threads, Goto, list, local
<1>0. /\ at \in [Threads -> At] /\ d \in Threads /\ d \notin Searchers /\ d \notin Inserters
      /\ at[d] = "dec" /\ at'[d] = "free" /\ at[d] \in HoldsInsertersAt
      /\ UNCHANGED << turkey_dinners, next_dinner, heap, curr, prev, todo, mine, overlong >>
      /\ dinner_count' = dinner_count - 1
      /\ \A t \in Threads \ {d} : at'[t] = at[t]
  BY DEF LockInv, DDec, HoldsInsertersAt, DeletingAt
<1>1. /\ \A i \in Inserters : at[i] \in {"malloc", "lock_ins"}
      /\ \A s \in Searchers : at[s] = "lock_rw"
      /\ \A e \in Deleters \ {d} : at[e] = "lock_rw"
  BY <1>0, OneChanger DEF LockInv
<1>2. /\ \A i \in Inserters : at'[i] = at[i]
      /\ \A t \in Searchers \cup Deleters : t # d => at'[t] = "lock_rw" /\ at[t] = "lock_rw"
  BY <1>0, <1>1
<1>3. Chain(n, L)'
  BY <1>0 DEF ListIs, Chain
<1>4. Counted(n)'
  <2>1. dinner_count = n + 1
    BY <1>0 DEF ListIs, Counted
  <2>2. dinner_count' = n
    BY <1>0, <2>1
  <2>3. \A t \in Searchers \cup Deleters : at'[t] \notin {"pick", "lock_del", "dec"}
    BY <1>0, <1>2
  <2>4. \A i \in Inserters : at'[i] # "inc"
    BY <1>1, <1>2
  <2>. QED
    BY <2>2, <2>3, <2>4 DEF Counted
<1>5. Walks(n, L)'
  <2>1. \A t \in Searchers \cup Deleters : at'[t] \notin {"start", "walk"}
    BY <1>0, <1>2
  <2>2. \A e \in Deleters \ {d} : prev'[e] = NULL /\ at'[e] = "lock_rw"
    BY <1>0, <1>2 DEF ListIs, Walks
  <2>3. /\ curr'[d] \in heap' /\ \A j \in 1 .. n : curr'[d] # L[j]
        /\ \A i \in Inserters : curr'[d] # mine'[i]
    BY <1>0 DEF ListIs, Walks
  <2>. QED
    BY <1>0, <2>1, <2>2, <2>3 DEF Walks
<1>6. Mine(n, L)'
  BY <1>0, <1>2 DEF ListIs, Mine, Prepared
<1>. QED
  BY <1>0, <1>3, <1>4, <1>5, <1>6 DEF ListIs

(* It frees it: a node that is on no list and that nobody else has.        *)
LEMMA DeleterFrees ==
    ASSUME Typed, LockInv, NEW n \in Nat, NEW L \in [1 .. n -> Nodes], ListIs(n, L),
           NEW d \in Deleters, DFree(d)
    PROVE  ListIs(n, L)' /\ Typed'
<1>. USE ListAssumption DEF Typed, Threads, Goto, list, local
<1>0. /\ at \in [Threads -> At] /\ d \in Threads /\ d \notin Searchers /\ d \notin Inserters
      /\ at[d] = "free" /\ at'[d] = "unlock_del" /\ at[d] \in HoldsInsertersAt
      /\ UNCHANGED << turkey_dinners, next_dinner, dinner_count, todo, mine, overlong >>
      /\ heap' = heap \ {curr[d]}
      /\ curr' = [curr EXCEPT ![d] = NULL] /\ prev' = [prev EXCEPT ![d] = NULL]
      /\ \A t \in Threads \ {d} : at'[t] = at[t]
  BY DEF LockInv, DFree, HoldsInsertersAt, DeletingAt
<1>1. /\ \A i \in Inserters : at[i] \in {"malloc", "lock_ins"}
      /\ \A s \in Searchers : at[s] = "lock_rw"
      /\ \A e \in Deleters \ {d} : at[e] = "lock_rw"
  BY <1>0, OneChanger DEF LockInv
<1>2. /\ \A i \in Inserters : at'[i] = at[i]
      /\ \A t \in Searchers \cup Deleters : t # d => at'[t] = "lock_rw" /\ at[t] = "lock_rw"
  BY <1>0, <1>1
<1>3. /\ \A j \in 1 .. n : L[j] \in heap'
      /\ \A i \in Inserters : mine[i] \in heap => mine[i] \in heap'
  BY <1>0 DEF ListIs, Chain, Walks
<1>4. Chain(n, L)'
  BY <1>0, <1>3, ChainKept DEF ListIs
<1>5. Counted(n)'
  BY <1>0, <1>1, <1>2 DEF ListIs, Counted
<1>6. Walks(n, L)'
  BY <1>0, <1>2 DEF ListIs, Walks
<1>7. Mine(n, L)'
  <2>1. \A i \in Inserters : Prepared(i)' <=> Prepared(i)
    BY <1>2 DEF Prepared
  <2>. QED
    BY <1>0, <1>1, <1>2, <1>3, <2>1 DEF ListIs, Mine
<1>8. Typed'
  BY <1>0
<1>. QED
  BY <1>4, <1>5, <1>6, <1>7, <1>8 DEF ListIs
(* The list is empty when the program starts.                              *)
LEMMA InitList == Init => Typed /\ ListInv
<1>. SUFFICES ASSUME Init PROVE Typed /\ ListInv
  OBVIOUS
<1>. USE ListAssumption DEF Threads
<1>1. Typed
  BY DEF Init, Typed
<1>2. PICK L : L \in [1 .. 0 -> Nodes]
  <2>1. [j \in 1 .. 0 |-> NULL] \in [1 .. 0 -> Nodes]
    OBVIOUS
  <2>. QED
    BY <2>1
<1>3. \A t \in Threads : at[t] = IF t \in Inserters THEN "malloc" ELSE "lock_rw"
  BY DEF Init
<1>4. Chain(0, L)
  BY DEF Init, Chain
<1>5. Counted(0)
  BY <1>3 DEF Init, Counted
<1>6. Walks(0, L)
  BY <1>3 DEF Init, Walks
<1>7. Mine(0, L)
  BY <1>3 DEF Init, Mine, Prepared
<1>. QED
  BY <1>1, <1>2, <1>4, <1>5, <1>6, <1>7 DEF ListIs, ListInv

(* Every step but the fatal one keeps the list a chain, its count, and every thread's place  *)
(* on it.                                                                  *)
LEMMA StepList ==
    ASSUME Typed, LockInv, ListInv, [Next]_vars, ~Crashes
    PROVE  Typed' /\ ListInv'
<1>1. PICK n \in Nat : \E L \in [1 .. n -> Nodes] : ListIs(n, L)
  BY DEF ListInv
<1>2. PICK L \in [1 .. n -> Nodes] : ListIs(n, L)
  BY <1>1
<1>3. ASSUME ListIs(n, L)' PROVE ListInv'
  BY <1>3 DEF ListInv
<1>4. CASE \E s \in Searchers : Searcher(s)
  BY <1>2, <1>3, <1>4, SearcherList
<1>5. ASSUME NEW i \in Inserters, Inserter(i) PROVE Typed' /\ ListInv'
  <2>1. CASE ILock(i) \/ IFirst(i) \/ ILast(i) \/ IUnlock(i)
    BY <1>2, <1>3, <2>1, InserterLooks
  <2>2. CASE IMalloc(i)
    BY <1>2, <1>3, <2>2, InserterMallocs
  <2>3. CASE ILink(i)
    BY <1>2, <2>3, InserterLinks DEF ListInv
  <2>4. CASE IInc(i)
    BY <1>2, <1>3, <2>4, InserterCounts
  <2>. QED
    BY <1>5, <2>1, <2>2, <2>3, <2>4 DEF Inserter
<1>6. ASSUME NEW d \in Deleters, Deleter(d) PROVE Typed' /\ ListInv'
  <2>1. CASE DeleterMoves(d)
    BY <1>2, <1>3, <2>1, DeleterWalks
  <2>2. CASE DSnip(d)
    BY <1>2, <2>2, DeleterSnips DEF ListInv
  <2>3. CASE DDec(d)
    BY <1>2, <1>3, <2>3, DeleterCounts
  <2>4. CASE DFree(d)
    BY <1>2, <1>3, <2>4, DeleterFrees
  <2>. QED
    BY <1>6, <2>1, <2>2, <2>3, <2>4 DEF Deleter, DeleterMoves
<1>7. CASE UNCHANGED vars
  <2>1. /\ UNCHANGED << turkey_dinners, next_dinner, dinner_count, heap >>
        /\ UNCHANGED << at, curr, prev, todo, mine, overlong >>
    BY <1>7 DEF vars, list, local
  <2>2. Chain(n, L)' /\ Counted(n)'
    BY <1>2, <2>1 DEF ListIs, Chain, Counted
  <2>3. Walks(n, L)'
    BY <1>2, <2>1 DEF ListIs, Walks, WalkAt, OnNode, PastEnd, Extra
  <2>4. Mine(n, L)'
    BY <1>2, <2>1 DEF ListIs, Mine, Prepared
  <2>. QED
    BY <1>3, <2>1, <2>2, <2>3, <2>4 DEF ListIs, Typed
<1>. QED
  BY <1>4, <1>5, <1>6, <1>7 DEF Next, Crashes

(* While the program lives, the list is a chain of nodes in memory, each   *)
(* once, that ends in NULL; dinner_count is its length but between the two *)
(* writes of one insertion or deletion.                                    *)
THEOREM ListInvariant == Spec => [](Typed /\ (AllDead \/ ListInv))
<1>1. Typed /\ ListInv /\ LockInv /\ [Next]_vars => Typed' /\ (AllDead' \/ ListInv')
  <2>. SUFFICES ASSUME Typed, ListInv, LockInv, [Next]_vars
               PROVE  Typed' /\ (AllDead' \/ ListInv')
    OBVIOUS
  <2>1. CASE Crashes
    BY <2>1, CrashKills DEF Typed, list, local
  <2>. QED
    BY <2>1, StepList
<1>2. Typed /\ AllDead /\ [Next]_vars => Typed' /\ AllDead'
  BY DeadStays DEF Typed, AllDead, vars, list, local
<1>. QED
  BY <1>1, <1>2, InitList, LockInvariant, PTL DEF Spec

(* The least of a set of naturals.                                         *)
LEMMA LeastNatural ==
    ASSUME NEW T \in SUBSET Nat, T # {} PROVE \E n \in T : \A m \in T : n <= m
<1>. DEFINE R == {ss \in Nat \X Nat : ss[1] < ss[2]}
<1>1. IsWellFoundedOn(R, Nat)
  BY NatLessThanWellFounded, Zenon DEF OpToRel
<1>. HIDE DEF R
<1>2. PICK x \in T : \A y \in T : ~(<<y, x>> \in R)
  BY <1>1, WFMin
<1>3. \A y \in T : y \in Nat
  OBVIOUS
<1>4. \A y \in T : <<y, x>> \in R <=> y < x
  BY <1>3 DEF R
<1>5. ASSUME NEW y \in T PROVE x <= y
  <2>1. ~(y < x)
    BY <1>2, <1>4
  <2>2. x \in Nat /\ y \in Nat
    BY <1>3
  <2>. QED
    BY <2>1, <2>2
<1>. QED
  BY <1>5

(* Every node of the chain is reached from the head: a set that has the    *)
(* head and is closed under next_dinner has them all, for the first one    *)
(* it lacked would follow one that it has.                                 *)
LEMMA ChainIsLinked ==
    ASSUME Typed, NEW n \in Nat, NEW L \in [1 .. n -> Nodes], Chain(n, L), NEW k \in 1 .. n
    PROVE  L[k] \in Linked
<1>. SUFFICES ASSUME NEW S \in SUBSET Nodes, turkey_dinners \in S \cup {NULL},
                     \A m \in S : next_dinner[m] \in S \cup {NULL}
             PROVE  L[k] \in S
  BY DEF Linked
<1>1. SUFFICES ASSUME L[k] \notin S PROVE FALSE
  OBVIOUS
<1>2. PICK T : T = {j \in 1 .. n : L[j] \notin S}
  OBVIOUS
<1>2a. T \in SUBSET Nat
  BY <1>2
<1>3. k \in T
  BY <1>1, <1>2
<1>4. PICK l \in T : \A m \in T : l <= m
  BY <1>2a, <1>3, LeastNatural
<1>5. l \in 1 .. n /\ L[l] \notin S /\ NULL \notin Nodes
  BY <1>2, <1>4, ListAssumption
<1>6. l # 1
  BY <1>5 DEF Chain
<1>7. l - 1 \in 1 .. n - 1 /\ l - 1 \in 1 .. n
  BY <1>5, <1>6
<1>8. L[l - 1] \in S
  BY <1>2, <1>4, <1>5, <1>7
<1>9. next_dinner[L[l - 1]] = L[l]
  BY <1>5, <1>7 DEF Chain
<1>. QED
  BY <1>5, <1>8, <1>9

(* Lines 184-188 and 240-247: no walk is at a freed node, for any number   *)
(* of threads and nodes and whatever random() gives; the count read before *)
(* a walk promises no more dinners than there are, and a walk passes the   *)
(* last one only if the draw was RAND_MAX, by one node.                    *)
THEOREM WalksStayOnListThm == Spec => []WalksStayOnList
<1>1. Typed /\ ListInv => WalksStayOnList
  <2>. SUFFICES ASSUME Typed, ListInv, NEW t \in Searchers \cup Deleters, at[t] = "walk"
               PROVE  curr[t] \in Linked \/ PastEnd(t)
    BY DEF WalksStayOnList, PastEnd
  <2>1. PICK n \in Nat : \E L \in [1 .. n -> Nodes] : ListIs(n, L)
    BY DEF ListInv
  <2>2. PICK L \in [1 .. n -> Nodes] : ListIs(n, L)
    BY <2>1
  <2>3. PastEnd(t) \/ \E k \in 1 .. n : curr[t] = L[k]
    BY <2>2 DEF ListIs, Walks, WalkAt, OnNode
  <2>. QED
    BY <2>2, <2>3, ChainIsLinked DEF ListIs
<1>2. AllDead => WalksStayOnList
  BY DEF AllDead, WalksStayOnList, Threads
<1>. QED
  BY <1>1, <1>2, ListInvariant, PTL

(* A list of n different nodes needs n of them.                            *)
LEMMA NodesSuffice ==
    ASSUME NEW n \in Nat, NEW L \in [1 .. n -> Nodes], \A j, k \in 1 .. n : L[j] = L[k] => j = k
    PROVE  n <= Cardinality(Nodes) /\ Cardinality(Nodes) \in Nat
<1>1. L \in Injection(1 .. n, Nodes)
  BY DEF Injection, IsInjective
<1>2. IsFiniteSet(Nodes)
  BY ListAssumption
<1>3. Cardinality(1 .. n) <= Cardinality(Nodes)
  BY <1>1, <1>2, FS_Injection
<1>4. Cardinality(1 .. n) = n
  BY FS_Interval
<1>5. Cardinality(Nodes) \in Nat
  BY <1>2, FS_CardinalityType
<1>. QED
  BY <1>3, <1>4, <1>5

(* dinner_count never exceeds the nodes in memory: it counts those of the  *)
(* list, and the one a deleter has taken out and not yet freed.            *)
LEMMA CountFits ==
    ASSUME Typed, ListInv PROVE dinner_count \in 0 .. Cardinality(Nodes)
<1>1. PICK n \in Nat : \E L \in [1 .. n -> Nodes] : ListIs(n, L)
  BY DEF ListInv
<1>2. PICK L \in [1 .. n -> Nodes] : ListIs(n, L)
  BY <1>1
<1>3. \A j, k \in 1 .. n : L[j] = L[k] => j = k
  BY <1>2 DEF ListIs, Chain
<1>4. dinner_count \in Nat /\ n <= Cardinality(Nodes) /\ Cardinality(Nodes) \in Nat
  BY <1>2, <1>3, NodesSuffice DEF ListIs, Counted
<1>5. CASE \E d \in Deleters : at[d] = "dec"
  <2>1. PICK d \in Deleters : at[d] = "dec"
    BY <1>5
  <2>2. curr[d] \in Nodes /\ (\A j \in 1 .. n : curr[d] # L[j]) /\ dinner_count = n + 1
    BY <1>2, <2>1 DEF ListIs, Walks, Counted, Typed
  <2>3. PICK c \in Nodes : \A j \in 1 .. n : c # L[j]
    BY <2>2
  <2>4. PICK M : M = [j \in 1 .. n + 1 |-> IF j = n + 1 THEN c ELSE L[j]]
    OBVIOUS
  <2>5. M \in [1 .. n + 1 -> Nodes] /\ \A j, k \in 1 .. n + 1 : M[j] = M[k] => j = k
    BY <1>3, <2>3, <2>4
  <2>6. n + 1 <= Cardinality(Nodes)
    BY <2>5, NodesSuffice
  <2>. QED
    BY <1>4, <2>2, <2>6
<1>6. CASE \E i \in Inserters : at[i] = "inc"
  BY <1>2, <1>4, <1>6 DEF ListIs, Counted
<1>7. CASE (\A d \in Deleters : at[d] # "dec") /\ \A i \in Inserters : at[i] # "inc"
  BY <1>2, <1>4, <1>7 DEF ListIs, Counted
<1>. QED
  BY <1>5, <1>6, <1>7

(* Every variable has its type; the count stays within the nodes.          *)
THEOREM TypeCorrect == Spec => []TypeOK
<1>1. Typed /\ ListInv /\ LockInv => TypeOK
  BY CountFits DEF Typed, LockInv, TypeOK
<1>2. TypeOK /\ Typed /\ ListInv /\ LockInv /\ [Next]_vars
         => TypeOK' \/ (Typed /\ ListInv /\ LockInv)'
  <2>. SUFFICES ASSUME TypeOK, Typed, ListInv, LockInv, [Next]_vars, Crashes PROVE TypeOK'
    BY StepList, StepLocks
  <2>1. at' \in [Threads -> At]
    BY CrashKills DEF AllDead, At
  <2>. QED
    BY <2>1, CrashKills DEF TypeOK, list, locks, local
<1>3. TypeOK /\ AllDead /\ [Next]_vars => TypeOK'
  BY DeadStays DEF TypeOK, vars, list, locks, local
<1>4. Init => TypeOK
  BY <1>1, InitList, InitLocks
<1>. QED
  BY <1>1, <1>2, <1>3, <1>4, ListInvariant, LockInvariant, PTL DEF Spec
===============================================================================
