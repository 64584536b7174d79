---------------------------- MODULE KernelProofs ----------------------------
(***************************************************************************)
(* Proofs about the kernel projects.  Sstf, for any set of requests and    *)
(* sectors: its queue is sorted and its list operations implement the      *)
(* abstract Elevator.  RamDisk, for any number of devices, requests and    *)
(* keys: it forgets no request, keeps to its own memory and reads back     *)
(* what was written.  Slob, for any number of pages and any sizes: free    *)
(* blocks and blocks in use tile a page, and the lists hold the pages with *)
(* something free.  RtBandwidth, for any number of CPUs: however they lend *)
(* and take back runtime, the CPUs of a domain have their shares.          *)
(***************************************************************************)
EXTENDS Sstf, RamDisk, Slob, RtBandwidth, WellFoundedInduction, FiniteSetTheorems,
        SequenceTheorems, TLAPS


IInv == TypeOK /\ QueueSorted

-----------------------------------------------------------------------------
(* What list_add does to the entries of the list.                          *)
LEMMA InsertProps ==
    ASSUME NEW s \in Seq(Requests), NEW r \in Requests, NEW i \in 0 .. Len(s)
    PROVE  /\ InsertAfter(s, i, r) \in Seq(Requests)
           /\ Len(InsertAfter(s, i, r)) = Len(s) + 1
           /\ \A j \in 1 .. (Len(s) + 1) : InsertAfter(s, i, r)[j] =
                 IF j <= i THEN s[j] ELSE IF j = i + 1 THEN r ELSE s[j - 1]
<1>1. Len(s) \in Nat
  BY LenProperties
<1>2. \A j \in 1 .. (Len(s) + 1) :
         (IF j <= i THEN s[j] ELSE IF j = i + 1 THEN r ELSE s[j - 1]) \in Requests
  BY <1>1, ElementOfSeq
<1>3. InsertAfter(s, i, r) \in [1 .. (Len(s) + 1) -> Requests]
  BY <1>1, <1>2 DEF InsertAfter
<1>4. InsertAfter(s, i, r) \in Seq(Requests)
  BY <1>1, <1>3, SeqDef
<1>5. Len(InsertAfter(s, i, r)) = Len(s) + 1
  BY <1>1, <1>3, <1>4, LenProperties
<1>. QED
  BY <1>4, <1>5 DEF InsertAfter

(* What list_del_init does to the entries of the list.                     *)
LEMMA DeleteProps ==
    ASSUME NEW s \in Seq(Requests), NEW i \in 1 .. Len(s)
    PROVE  /\ Delete(s, i) \in Seq(Requests)
           /\ Len(Delete(s, i)) = Len(s) - 1
           /\ \A j \in 1 .. (Len(s) - 1) :
                 Delete(s, i)[j] = IF j < i THEN s[j] ELSE s[j + 1]
<1>1. Len(s) \in Nat /\ Len(s) - 1 \in Nat
  BY LenProperties
<1>2. \A j \in 1 .. (Len(s) - 1) : (IF j < i THEN s[j] ELSE s[j + 1]) \in Requests
  BY <1>1, ElementOfSeq
<1>3. Delete(s, i) \in [1 .. (Len(s) - 1) -> Requests]
  BY <1>1, <1>2 DEF Delete
<1>4. Delete(s, i) \in Seq(Requests)
  BY <1>1, <1>3, SeqDef
<1>5. Len(Delete(s, i)) = Len(s) - 1
  BY <1>1, <1>3, <1>4, LenProperties
<1>. QED
  BY <1>4, <1>5 DEF Delete

(* Deleting entry i of a sorted queue leaves a sorted queue without it.    *)
LEMMA DeleteKeepsOrder ==
    ASSUME IInv, NEW i \in 1 .. Len(queue), queue' = Delete(queue, i), UNCHANGED pos
    PROVE  /\ queue' \in Seq(Requests)
           /\ QueueSorted'
           /\ Queued' = Queued \ {queue[i]}
<1>. USE DEF IInv, TypeOK
<1>1. Len(queue) \in Nat
  BY LenProperties
<1>2. /\ queue' \in Seq(Requests)
      /\ Len(queue') = Len(queue) - 1
      /\ \A j \in 1 .. (Len(queue) - 1) : queue'[j] = IF j < i THEN queue[j] ELSE queue[j + 1]
  BY DeleteProps
<1>3. QueueSorted'
  <2>. SUFFICES ASSUME NEW m \in 1 .. Len(queue'), NEW j \in 1 .. Len(queue'), m < j
                PROVE  pos[queue'[m]] <= pos[queue'[j]] /\ queue'[m] # queue'[j]
    BY DEF QueueSorted
  <2>0. /\ m \in 1 .. (Len(queue) - 1) /\ j \in 1 .. (Len(queue) - 1)
        /\ m \in 1 .. Len(queue) /\ m + 1 \in 1 .. Len(queue)
        /\ j \in 1 .. Len(queue) /\ j + 1 \in 1 .. Len(queue)
    BY <1>1, <1>2
  <2>1. PICK x \in 1 .. Len(queue) : queue'[m] = queue[x] /\ x \in {m, m + 1} /\ (x = m <=> m < i)
    <3>1. CASE m < i
      BY <1>2, <2>0, <3>1
    <3>2. CASE ~(m < i)
      BY <1>2, <2>0, <3>2
    <3>. QED
      BY <3>1, <3>2
  <2>2. PICK y \in 1 .. Len(queue) : queue'[j] = queue[y] /\ y \in {j, j + 1} /\ (y = j <=> j < i)
    <3>1. CASE j < i
      BY <1>2, <2>0, <3>1
    <3>2. CASE ~(j < i)
      BY <1>2, <2>0, <3>2
    <3>. QED
      BY <3>1, <3>2
  <2>3. x < y
    BY <1>1, <1>2, <2>1, <2>2
  <2>. QED
    BY <2>1, <2>2, <2>3 DEF QueueSorted
<1>4. Queued' \subseteq Queued \ {queue[i]}
  <2>. SUFFICES ASSUME NEW j \in 1 .. Len(queue') PROVE queue'[j] \in Queued /\ queue'[j] # queue[i]
    BY DEF Queued
  <2>1. /\ j \in 1 .. (Len(queue) - 1) /\ j \in 1 .. Len(queue) /\ j + 1 \in 1 .. Len(queue)
        /\ j \in Int /\ i \in Int
    BY <1>1, <1>2
  <2>2. CASE j < i
    <3>1. queue'[j] = queue[j]
      BY <1>2, <2>1, <2>2
    <3>2. queue[j] # queue[i]
      BY <2>1, <2>2 DEF QueueSorted
    <3>. QED
      BY <2>1, <3>1, <3>2 DEF Queued
  <2>3. CASE ~(j < i)
    <3>1. queue'[j] = queue[j + 1] /\ i < j + 1
      BY <1>2, <2>1, <2>3
    <3>2. queue[i] # queue[j + 1]
      BY <2>1, <3>1 DEF QueueSorted
    <3>. QED
      BY <2>1, <3>1, <3>2 DEF Queued
  <2>. QED
    BY <2>2, <2>3
<1>5. ASSUME NEW x \in Queued \ {queue[i]} PROVE x \in Queued'
  <2>1. PICK j \in 1 .. Len(queue) : x = queue[j] /\ j # i
    BY <1>5 DEF Queued
  <2>2. CASE j < i
    <3>1. j \in 1 .. Len(queue') /\ queue'[j] = x
      BY <1>1, <1>2, <2>1, <2>2
    <3>. QED
      BY <3>1 DEF Queued
  <2>3. CASE j > i
    <3>1. (j - 1) \in 1 .. Len(queue') /\ queue'[j - 1] = x
      BY <1>1, <1>2, <2>1, <2>3
    <3>. QED
      BY <3>1 DEF Queued
  <2>. QED
    BY <2>1, <2>2, <2>3
<1>. QED
  BY <1>2, <1>3, <1>4, <1>5

(* Inserting at the insertion point of sstf_add_request keeps the order.   *)
LEMMA InsertKeepsOrder ==
    ASSUME IInv, NEW r \in Requests, r \notin Queued, NEW s \in Sectors,
           NEW i \in 0 .. Len(queue), IsInsertPoint(i, s),
           queue' = InsertAfter(queue, i, r), pos' = [pos EXCEPT ![r] = s]
    PROVE  /\ queue' \in Seq(Requests)
           /\ QueueSorted'
           /\ Queued' = Queued \cup {r}
<1>. DEFINE q == InsertAfter(queue, i, r)
<1>0. queue \in Seq(Requests) /\ pos \in [Requests -> Sectors] /\ QueueSorted
  BY DEF IInv, TypeOK
<1>. USE SectorAssumption
<1>1. Len(queue) \in Nat
  BY <1>0, LenProperties
<1>2. /\ queue' \in Seq(Requests)
      /\ Len(queue') = Len(queue) + 1
      /\ \A j \in 1 .. (Len(queue) + 1) : queue'[j] =
            IF j <= i THEN queue[j] ELSE IF j = i + 1 THEN r ELSE queue[j - 1]
  <2>1. queue' = q
    OBVIOUS
  <2>2. /\ q \in Seq(Requests)
        /\ Len(q) = Len(queue) + 1
        /\ \A j \in 1 .. (Len(queue) + 1) : q[j] =
              IF j <= i THEN queue[j] ELSE IF j = i + 1 THEN r ELSE queue[j - 1]
    BY <1>0, InsertProps
  <2>. HIDE DEF q
  <2>. QED
    BY <2>1, <2>2
<1>3. \A j \in 1 .. Len(queue) :
         queue[j] \in Requests /\ queue[j] # r /\ pos'[queue[j]] = pos[queue[j]]
  BY <1>0, ElementOfSeq DEF Queued
<1>4. pos'[r] = s /\ s \in Nat /\ \A j \in 1 .. Len(queue) : pos[queue[j]] \in Nat
  BY <1>0, <1>3
<1>5. \A j \in 1 .. Len(queue) : /\ j <= i => pos[queue[j]] <= s
                                 /\ j > i  => s <= pos[queue[j]]
  BY <1>0, <1>1, <1>4 DEF IsInsertPoint, QueueSorted
<1>6. ASSUME NEW a \in 1 .. Len(queue'), NEW b \in 1 .. Len(queue'), a < b
      PROVE  pos'[queue'[a]] <= pos'[queue'[b]] /\ queue'[a] # queue'[b]
  <2>1. CASE b <= i
    <3>1. queue'[a] = queue[a] /\ queue'[b] = queue[b] /\ a \in 1 .. Len(queue) /\ b \in 1 .. Len(queue)
      BY <1>1, <1>2, <1>6, <2>1
    <3>. QED
      BY <1>0, <1>3, <1>6, <3>1 DEF QueueSorted
  <2>2. CASE b = i + 1
    <3>1. queue'[a] = queue[a] /\ queue'[b] = r /\ a \in 1 .. Len(queue) /\ a <= i
      BY <1>1, <1>2, <1>6, <2>2
    <3>. QED
      BY <1>3, <1>4, <1>5, <3>1
  <2>3. CASE b > i + 1 /\ a = i + 1
    <3>1. queue'[a] = r /\ queue'[b] = queue[b - 1] /\ (b - 1) \in 1 .. Len(queue) /\ b - 1 > i
      BY <1>1, <1>2, <1>6, <2>3
    <3>. QED
      BY <1>3, <1>4, <1>5, <3>1
  <2>4. CASE b > i + 1 /\ a <= i
    <3>1. /\ queue'[a] = queue[a] /\ queue'[b] = queue[b - 1]
          /\ a \in 1 .. Len(queue) /\ (b - 1) \in 1 .. Len(queue) /\ a < b - 1
      BY <1>1, <1>2, <1>6, <2>4
    <3>. QED
      BY <1>0, <1>3, <3>1 DEF QueueSorted
  <2>5. CASE b > i + 1 /\ a > i + 1
    <3>1. /\ queue'[a] = queue[a - 1] /\ queue'[b] = queue[b - 1]
          /\ (a - 1) \in 1 .. Len(queue) /\ (b - 1) \in 1 .. Len(queue) /\ a - 1 < b - 1
      BY <1>1, <1>2, <1>6, <2>5
    <3>. QED
      BY <1>0, <1>3, <3>1 DEF QueueSorted
  <2>. QED
    BY <1>1, <1>2, <1>6, <2>1, <2>2, <2>3, <2>4, <2>5
<1>7. Queued' \subseteq Queued \cup {r}
  <2>. SUFFICES ASSUME NEW j \in 1 .. Len(queue') PROVE queue'[j] \in Queued \cup {r}
    BY DEF Queued
  <2>1. \/ queue'[j] = queue[j] /\ j \in 1 .. Len(queue)
        \/ queue'[j] = r
        \/ queue'[j] = queue[j - 1] /\ (j - 1) \in 1 .. Len(queue)
    BY <1>1, <1>2
  <2>. QED
    BY <2>1 DEF Queued
<1>8. r \in Queued'
  <2>1. (i + 1) \in 1 .. Len(queue') /\ queue'[i + 1] = r
    BY <1>1, <1>2
  <2>. QED
    BY <2>1 DEF Queued
<1>9. ASSUME NEW x \in Queued PROVE x \in Queued'
  <2>1. PICK j \in 1 .. Len(queue) : x = queue[j]
    BY <1>9 DEF Queued
  <2>2. CASE j <= i
    <3>1. j \in 1 .. Len(queue') /\ queue'[j] = x
      BY <1>1, <1>2, <2>1, <2>2
    <3>. QED
      BY <3>1 DEF Queued
  <2>3. CASE j > i
    <3>1. (j + 1) \in 1 .. Len(queue') /\ queue'[j + 1] = x
      BY <1>1, <1>2, <2>1, <2>3
    <3>. QED
      BY <3>1 DEF Queued
  <2>. QED
    BY <1>1, <2>2, <2>3
<1>. QED
  BY <1>2, <1>6, <1>7, <1>8, <1>9 DEF QueueSorted

-----------------------------------------------------------------------------
(* The entries of a typed queue.                                           *)
LEMMA Entries ==
    ASSUME IInv
    PROVE  /\ Len(queue) \in Nat
           /\ \A j \in 1 .. Len(queue) : queue[j] \in Queued /\ queue[j] \in Requests
           /\ \A x \in Queued : \E j \in 1 .. Len(queue) : x = queue[j]
           /\ \A x \in Requests : pos[x] \in Nat
           /\ prevsec \in Nat
           /\ queue # << >> => Len(queue) >= 1
<1>1. queue \in Seq(Requests) /\ pos \in [Requests -> Sectors] /\ prevsec \in Sectors
  BY DEF IInv, TypeOK
<1>2. Len(queue) \in Nat
  BY <1>1, LenProperties
<1>3. \A j \in 1 .. Len(queue) : queue[j] \in Requests
  BY <1>1, ElementOfSeq
<1>4. queue # << >> => Len(queue) >= 1
  BY <1>1, EmptySeq
<1>. QED
  BY <1>1, <1>2, <1>3, <1>4, SectorAssumption DEF Queued

(* Taking entry i off keeps the inductive invariant.                       *)
LEMMA DispatchEntryInv ==
    ASSUME IInv, NEW i \in 1 .. Len(queue), DispatchEntry(i),
           direction' \in {"NEXT", "PREV"}
    PROVE  IInv' /\ Queued' = Queued \ {queue[i]}
<1>1. queue' \in Seq(Requests) /\ QueueSorted' /\ Queued' = Queued \ {queue[i]}
  BY DeleteKeepsOrder DEF DispatchEntry
<1>2. prevsec' \in Sectors
  BY Entries DEF DispatchEntry, IInv, TypeOK
<1>. QED
  BY <1>1, <1>2 DEF DispatchEntry, IInv, TypeOK

(* A dispatch keeps the invariant and serves a request as the elevator     *)
(* does: one step per branch of sstf_dispatch.                             *)
LEMMA DispatchServes ==
    ASSUME IInv, Dispatch
    PROVE  IInv' /\ \E r \in Requests : E!Serve(r)
<1>. USE DEF E!Serve, E!Ahead, E!Distance, E!Opposite
<1>1. CASE DispatchNext
  <2>1. PICK i \in 1 .. Len(queue) :
           /\ Above(i)
           /\ \A j \in 1 .. Len(queue) : j < i => ~ Above(j)
           /\ DispatchEntry(i)
    BY <1>1 DEF DispatchNext
  <2>2. IInv' /\ Queued' = Queued \ {queue[i]}
    BY <1>1, <2>1, DispatchEntryInv DEF DispatchNext
  <2>3. queue[i] \in E!Ahead /\ direction = "NEXT"
    BY <1>1, <2>1, Entries DEF Above, DispatchNext
  <2>4. \A x \in E!Ahead : E!Distance(queue[i]) <= E!Distance(x)
    <3>. SUFFICES ASSUME NEW x \in E!Ahead PROVE E!Distance(queue[i]) <= E!Distance(x)
      OBVIOUS
    <3>1. PICK j \in 1 .. Len(queue) : x = queue[j]
      BY Entries
    <3>2. pos[x] > prevsec /\ pos[queue[i]] > prevsec
      BY <2>3
    <3>3. j >= i
      BY <2>1, <3>1, <3>2, Entries DEF Above
    <3>4. pos[queue[i]] <= pos[x]
      BY <3>1, <3>3, Entries DEF IInv, QueueSorted
    <3>. QED
      BY <3>1, <3>2, <3>4, Entries
  <2>5. E!Serve(queue[i])
    BY <1>1, <2>1, <2>2, <2>3, <2>4 DEF DispatchEntry, DispatchNext
  <2>. QED
    BY <2>2, <2>5, Entries
<1>2. CASE DispatchTurnPrev
  <2>0. Len(queue) \in 1 .. Len(queue)
    BY <1>2, Entries DEF DispatchTurnPrev
  <2>1. IInv' /\ Queued' = Queued \ {queue[Len(queue)]}
    BY <1>2, <2>0, DispatchEntryInv DEF DispatchTurnPrev
  <2>2. E!Ahead = {}
    BY <1>2, Entries DEF DispatchTurnPrev, Above
  <2>3. \A x \in Queued : E!Distance(queue[Len(queue)]) <= E!Distance(x)
    <3>. SUFFICES ASSUME NEW x \in Queued
                  PROVE  E!Distance(queue[Len(queue)]) <= E!Distance(x)
      OBVIOUS
    <3>1. PICK j \in 1 .. Len(queue) : x = queue[j]
      BY Entries
    <3>2. pos[x] <= prevsec /\ pos[queue[Len(queue)]] <= prevsec
      BY <1>2, <2>0, <3>1, Entries DEF DispatchTurnPrev, Above
    <3>3. pos[x] <= pos[queue[Len(queue)]]
      BY <2>0, <3>1, Entries DEF IInv, QueueSorted
    <3>. QED
      BY <2>0, <3>1, <3>2, <3>3, Entries
  <2>4. E!Serve(queue[Len(queue)])
    BY <1>2, <2>0, <2>1, <2>2, <2>3, Entries DEF DispatchTurnPrev, DispatchEntry
  <2>. QED
    BY <2>0, <2>1, <2>4, Entries
<1>3. CASE DispatchPrev
  <2>1. PICK i \in 1 .. Len(queue) :
           /\ Below(i)
           /\ \A j \in 1 .. Len(queue) : j > i => ~ Below(j)
           /\ DispatchEntry(i)
    BY <1>3 DEF DispatchPrev
  <2>2. IInv' /\ Queued' = Queued \ {queue[i]}
    BY <1>3, <2>1, DispatchEntryInv DEF DispatchPrev
  <2>3. queue[i] \in E!Ahead /\ direction = "PREV"
    BY <1>3, <2>1, Entries DEF Below, DispatchPrev
  <2>4. \A x \in E!Ahead : E!Distance(queue[i]) <= E!Distance(x)
    <3>. SUFFICES ASSUME NEW x \in E!Ahead PROVE E!Distance(queue[i]) <= E!Distance(x)
      OBVIOUS
    <3>1. PICK j \in 1 .. Len(queue) : x = queue[j]
      BY Entries
    <3>2. pos[x] < prevsec /\ pos[queue[i]] < prevsec
      BY <2>3
    <3>3. j <= i
      BY <2>1, <3>1, <3>2, Entries DEF Below
    <3>4. pos[x] <= pos[queue[i]]
      BY <3>1, <3>3, Entries DEF IInv, QueueSorted
    <3>. QED
      BY <3>1, <3>2, <3>4, Entries
  <2>5. E!Serve(queue[i])
    BY <1>3, <2>1, <2>2, <2>3, <2>4 DEF DispatchEntry, DispatchPrev
  <2>. QED
    BY <2>2, <2>5, Entries
<1>4. CASE DispatchTurnNext
  <2>0. 1 \in 1 .. Len(queue)
    BY <1>4, Entries DEF DispatchTurnNext
  <2>1. IInv' /\ Queued' = Queued \ {queue[1]}
    BY <1>4, <2>0, DispatchEntryInv DEF DispatchTurnNext
  <2>2. E!Ahead = {}
    BY <1>4, Entries DEF DispatchTurnNext, Below
  <2>3. \A x \in Queued : E!Distance(queue[1]) <= E!Distance(x)
    <3>. SUFFICES ASSUME NEW x \in Queued
                  PROVE  E!Distance(queue[1]) <= E!Distance(x)
      OBVIOUS
    <3>1. PICK j \in 1 .. Len(queue) : x = queue[j]
      BY Entries
    <3>2. pos[x] >= prevsec /\ pos[queue[1]] >= prevsec
      BY <1>4, <2>0, <3>1, Entries DEF DispatchTurnNext, Below
    <3>3. pos[queue[1]] <= pos[x]
      BY <2>0, <3>1, Entries DEF IInv, QueueSorted
    <3>. QED
      BY <2>0, <3>1, <3>2, <3>3, Entries
  <2>4. E!Serve(queue[1])
    BY <1>4, <2>0, <2>1, <2>2, <2>3, Entries DEF DispatchTurnNext, DispatchEntry
  <2>. QED
    BY <2>0, <2>1, <2>4, Entries
<1>. QED
  BY <1>1, <1>2, <1>3, <1>4 DEF Dispatch

(* An added request arrives.                                               *)
LEMMA AddArrives ==
    ASSUME IInv, NEW r \in Requests, AddRequest(r)
    PROVE  IInv' /\ E!Arrive(r)
<1>1. PICK s \in Sectors, i \in 0 .. Len(queue) :
         /\ IsInsertPoint(i, s)
         /\ queue' = InsertAfter(queue, i, r)
         /\ pos' = [pos EXCEPT ![r] = s]
  BY DEF AddRequest
<1>2. queue' \in Seq(Requests) /\ QueueSorted' /\ Queued' = Queued \cup {r}
  BY <1>1, InsertKeepsOrder DEF AddRequest
<1>. QED
  BY <1>1, <1>2 DEF AddRequest, IInv, TypeOK, E!Arrive

(* A merged request is absorbed by its neighbour.                          *)
LEMMA MergeAbsorbs ==
    ASSUME IInv, MergedRequests
    PROVE  IInv' /\ \E r \in Requests : E!Absorb(r)
<1>1. PICK i \in 1 .. Len(queue) : i < Len(queue) /\ queue' = Delete(queue, i + 1)
  BY DEF MergedRequests, IsLatter
<1>2. (i + 1) \in 1 .. Len(queue)
  BY <1>1, Entries
<1>3. queue' \in Seq(Requests) /\ QueueSorted' /\ Queued' = Queued \ {queue[i + 1]}
  BY <1>1, <1>2, DeleteKeepsOrder DEF MergedRequests
<1>4. E!Absorb(queue[i + 1])
  BY <1>2, <1>3, Entries DEF MergedRequests, E!Absorb
<1>. QED
  BY <1>2, <1>3, <1>4, Entries DEF MergedRequests, IInv, TypeOK

(* The initial state of the list is an initial state of the elevator.      *)
LEMMA InitIInv == Init => IInv /\ E!Init
<1>. SUFFICES ASSUME Init PROVE IInv /\ E!Init
  OBVIOUS
<1>1. queue \in Seq(Requests) /\ Len(queue) = 0
  BY EmptySeq DEF Init
<1>2. QueueSorted /\ Queued = {}
  BY <1>1 DEF QueueSorted, Queued
<1>. QED
  BY <1>1, <1>2, SectorAssumption DEF Init, IInv, TypeOK, E!Init

(* Every step of the list keeps the invariant and is a step of the         *)
(* elevator or changes nothing it sees.                                    *)
LEMMA NextSimulates ==
    IInv /\ [Next]_vars => IInv' /\ [E!Next]_(E!vars)
<1>. SUFFICES ASSUME IInv, [Next]_vars PROVE IInv' /\ [E!Next]_(E!vars)
  OBVIOUS
<1>1. ASSUME NEW r \in Requests, AddRequest(r) PROVE IInv' /\ [E!Next]_(E!vars)
  BY <1>1, AddArrives DEF E!Next
<1>2. CASE Dispatch
  BY <1>2, DispatchServes DEF E!Next
<1>3. CASE MergedRequests
  BY <1>3, MergeAbsorbs DEF E!Next
<1>4. CASE StartDrain \/ ExitQueue \/ UNCHANGED vars
  <2>1. UNCHANGED << queue, pos, prevsec, direction >>
    BY <1>4 DEF StartDrain, ExitQueue, vars
  <2>2. phase' \in {"running", "draining", "exited"}
    BY <1>4 DEF StartDrain, ExitQueue, vars, IInv, TypeOK
  <2>. QED
    BY <2>1, <2>2 DEF IInv, TypeOK, QueueSorted, Queued, E!vars
<1>. QED
  BY <1>1, <1>2, <1>3, <1>4 DEF Next

-----------------------------------------------------------------------------
(* The queue is always sorted and free of duplicates, for any requests and *)
(* sectors (sstf_add_request, lines 89-99).                                *)
THEOREM QueueSortedThm == Spec => []QueueSorted
<1>1. IInv /\ [Next]_vars => IInv'
  BY NextSimulates
<1>2. Init => IInv
  BY InitIInv
<1>3. IInv => QueueSorted
  BY DEF IInv
<1>. QED
  BY <1>1, <1>2, <1>3, PTL DEF Spec

(* The types hold in every reachable state.                                *)
THEOREM TypeCorrect == Spec => []TypeOK
<1>1. IInv /\ [Next]_vars => IInv'
  BY NextSimulates
<1>2. Init => IInv
  BY InitIInv
<1>3. IInv => TypeOK
  BY DEF IInv
<1>. QED
  BY <1>1, <1>2, <1>3, PTL DEF Spec

(* The scheduler implements the elevator: every dispatch (lines 40-77)     *)
(* serves the nearest request in the direction of travel, or turns.        *)
THEOREM Refinement == Spec => ImplementsElevator
<1>1. IInv /\ [Next]_vars => IInv' /\ [E!Next]_(E!vars)
  BY NextSimulates
<1>2. Init => IInv /\ E!Init
  BY InitIInv
<1>. QED
  BY <1>1, <1>2, PTL DEF Spec, ImplementsElevator, E!Spec


-----------------------------------------------------------------------------
(* Induction over naturals is by the least counterexample.                 *)

(* The least of a set of naturals.                                         *)
LEMMA LeastNatural ==
    ASSUME NEW T \in SUBSET Nat, T # {} PROVE \E n \in T : \A m \in T : n <= m
<1>. DEFINE R == {ss \in Nat \X Nat : ss[1] < ss[2]}
<1>1. IsWellFoundedOn(R, Nat)
  BY NatLessThanWellFounded, Zenon DEF OpToRel
<1>. HIDE DEF R
<1>2. PICK x \in T : \A y \in T : ~(<<y, x>> \in R)
  BY <1>1, WFMin
<1>3. \A y \in T : y \in Nat
  OBVIOUS
<1>4. \A y \in T : <<y, x>> \in R <=> y < x
  BY <1>3 DEF R
<1>5. ASSUME NEW y \in T PROVE x <= y
  <2>1. ~(y < x)
    BY <1>2, <1>4
  <2>2. x \in Nat /\ y \in Nat
    BY <1>3
  <2>. QED
    BY <2>1, <2>2
<1>. QED
  BY <1>5

(* A set with the first number of an interval, and with the successor of   *)
(* each of its members in the interval, has the whole interval.            *)
LEMMA Upward ==
    ASSUME NEW a \in Nat, NEW b \in Nat, NEW P, a \in P,
           \A n \in a .. b : n \in P /\ n < b => n + 1 \in P
    PROVE  \A n \in a .. b : n \in P
<1>. DEFINE Bad == {n \in a .. b : n \notin P}
<1>. SUFFICES ASSUME Bad # {} PROVE FALSE
  OBVIOUS
<1>1. Bad \in SUBSET Nat
  OBVIOUS
<1>2. PICK n \in Bad : \A m \in Bad : n <= m
  BY <1>1, LeastNatural
<1>3. n \in a .. b /\ n # a /\ n - 1 \in a .. b /\ n - 1 \notin Bad
  BY <1>2
<1>4. n - 1 \in P /\ n - 1 < b
  BY <1>3
<1>. QED
  BY <1>2, <1>3, <1>4

-----------------------------------------------------------------------------
(* Sums of chunks.                                                         *)

(* f is a table of the sums of the first chunks, up to n of them.          *)
IsSum(f, c, n) == f = [i \in 0 .. n |-> IF i = 0 THEN 0 ELSE f[i - 1] + c[i]]

(* There is such a table.                                                  *)
LEMMA SumExists ==
    ASSUME NEW c \in Seq(Nat), NEW n \in 0 .. Len(c)
    PROVE  \E f : IsSum(f, c, n)
<1>. DEFINE P == {m \in 0 .. n : \E f : IsSum(f, c, m)}
<1>0. Len(c) \in Nat /\ n \in Nat
  OBVIOUS
<1>1. 0 \in P
  <2>1. IsSum([i \in 0 .. 0 |-> 0], c, 0)
    BY DEF IsSum
  <2>. QED
    BY <1>0, <2>1
<1>2. ASSUME NEW m \in 0 .. n, m \in P, m < n PROVE m + 1 \in P
  <2>1. PICK f : IsSum(f, c, m)
    BY <1>2
  <2>2. PICK g : g = [i \in 0 .. m + 1 |-> IF i = m + 1 THEN f[m] + c[m + 1] ELSE f[i]]
    OBVIOUS
  <2>3. m \in Nat
    BY <1>0
  <2>4. ASSUME NEW i \in 0 .. m + 1 PROVE g[i] = IF i = 0 THEN 0 ELSE g[i - 1] + c[i]
    <3>1. CASE i = m + 1
      BY <2>2, <2>3, <3>1
    <3>2. CASE i \in 0 .. m
      <4>1. f[i] = IF i = 0 THEN 0 ELSE f[i - 1] + c[i]
        BY <2>1, <3>2 DEF IsSum
      <4>. QED
        BY <2>2, <2>3, <3>2, <4>1
    <3>. QED
      BY <2>3, <3>1, <3>2
  <2>5. g = [i \in 0 .. m + 1 |-> IF i = 0 THEN 0 ELSE g[i - 1] + c[i]]
    BY <2>2, <2>4
  <2>6. IsSum(g, c, m + 1) /\ m + 1 \in 0 .. n
    BY <1>0, <1>2, <2>3, <2>5 DEF IsSum
  <2>. QED
    BY <2>6
<1>3. \A m \in 0 .. n : m \in P /\ m < n => m + 1 \in P
  BY <1>2
<1>4. n \in P
  <2>. HIDE DEF P
  <2>1. \A m \in 0 .. n : m \in P
    BY <1>0, <1>1, <1>3, Upward
  <2>. QED
    BY <1>0, <2>1
<1>. QED
  BY <1>4

(* A sum of chunks is a natural number.                                    *)
LEMMA SumNat ==
    ASSUME NEW c \in Seq(Nat), NEW n \in 0 .. Len(c)
    PROVE  Sum(c, n) \in Nat
<1>1. Sum(c, n) = (CHOOSE f : IsSum(f, c, n))[n]
  BY DEF Sum, IsSum
<1>2. PICK f : f = (CHOOSE g : IsSum(g, c, n))
  OBVIOUS
<1>3. IsSum(f, c, n)
  BY <1>2, SumExists
<1>. DEFINE P == {m \in Nat : f[m] \in Nat}
<1>4. n \in Nat /\ Len(c) \in Nat
  OBVIOUS
<1>5. 0 \in P
  BY <1>3, <1>4 DEF IsSum
<1>6. ASSUME NEW m \in 0 .. n, m \in P, m < n PROVE m + 1 \in P
  <2>1. f[m + 1] = f[m] + c[m + 1]
    BY <1>3, <1>4, <1>6 DEF IsSum
  <2>2. c[m + 1] \in Nat
    BY <1>4, <1>6
  <2>. QED
    BY <1>6, <2>1, <2>2
<1>7. n \in P
  <2>1. \A m \in 0 .. n : m \in P /\ m < n => m + 1 \in P
    BY <1>6
  <2>. HIDE DEF P
  <2>2. \A m \in 0 .. n : m \in P
    BY <1>4, <1>5, <2>1, Upward
  <2>. QED
    BY <1>4, <2>2
<1>. QED
  BY <1>1, <1>2, <1>7

-----------------------------------------------------------------------------
(* How far requests reach.                                                 *)

(* A function from a finite set to the naturals has a greatest value.      *)
LEMMA Greatest ==
    ASSUME NEW D, IsFiniteSet(D), D # {}, NEW f \in [D -> Nat]
    PROVE  \E x \in D : \A y \in D : f[y] <= f[x]
<1>1. PICK n \in Nat : ExistsBijection(1 .. n, D)
  BY FS_CardinalityType
<1>2. PICK g : g \in [1 .. n -> D] /\ \A y \in D : \E m \in 1 .. n : g[m] = y
  BY <1>1 DEF ExistsBijection, Bijection, Surjection, Injection
<1>. DEFINE P == {m \in 1 .. n : \E x \in D : \A i \in 1 .. m : f[g[i]] <= f[x]}
<1>3. n \in Nat /\ n >= 1 /\ 1 \in 1 .. n
  BY <1>2
<1>4. 1 \in P
  <2>1. g[1] \in D /\ \A i \in 1 .. 1 : f[g[i]] <= f[g[1]]
    BY <1>2, <1>3
  <2>. QED
    BY <1>3, <2>1
<1>5. ASSUME NEW m \in 1 .. n, m \in P, m < n PROVE m + 1 \in P
  <2>1. PICK x \in D : \A i \in 1 .. m : f[g[i]] <= f[x]
    BY <1>5
  <2>2. m + 1 \in 1 .. n /\ g[m + 1] \in D
    BY <1>2, <1>3, <1>5
  <2>3. CASE f[g[m + 1]] <= f[x]
    <3>1. \A i \in 1 .. m + 1 : f[g[i]] <= f[x]
      BY <1>3, <2>1, <2>3
    <3>. QED
      BY <2>2, <3>1
  <2>4. CASE ~(f[g[m + 1]] <= f[x])
    <3>1. f[x] <= f[g[m + 1]]
      BY <2>2, <2>4
    <3>2. ASSUME NEW i \in 1 .. m + 1 PROVE f[g[i]] <= f[g[m + 1]]
      <4>1. i \in 1 .. n /\ g[i] \in D /\ f[g[i]] \in Nat /\ f[x] \in Nat /\ f[g[m + 1]] \in Nat
        BY <1>2, <1>3, <1>5, <2>2
      <4>2. i = m + 1 \/ i \in 1 .. m
        BY <1>3
      <4>. QED
        BY <2>1, <3>1, <4>1, <4>2
    <3>. QED
      BY <2>2, <3>2
  <2>. QED
    BY <2>3, <2>4
<1>6. n \in P
  <2>1. \A m \in 1 .. n : m \in P /\ m < n => m + 1 \in P
    BY <1>5
  <2>. HIDE DEF P
  <2>2. \A m \in 1 .. n : m \in P
    BY <1>3, <1>4, <2>1, Upward
  <2>. QED
    BY <1>3, <2>2
<1>7. PICK x \in D : \A i \in 1 .. n : f[g[i]] <= f[x]
  BY <1>6
<1>. QED
  BY <1>2, <1>7

(* The total of a shape, and of the first chunks, is a number.             *)
LEMMA ShapeTypes ==
    ASSUME NEW s \in Shapes
    PROVE  /\ s[1] \in Nat /\ s[2] \in Seq(Nat \ {0}) /\ s[2] \in Seq(Nat) /\ Len(s[2]) \in Nat \ {0}
           /\ Total(s[2]) \in Nat
<1>1. s[1] \in Nat /\ s[2] \in Seq(Nat \ {0}) /\ s[2] # << >>
  BY RamDiskAssumption
<1>2. s[2] \in Seq(Nat) /\ Len(s[2]) \in Nat \ {0}
  BY <1>1
<1>3. Total(s[2]) \in Nat
  BY <1>2, SumNat DEF Total
<1>. QED
  BY <1>1, <1>2, <1>3

(* Top is behind every request.                                            *)
LEMMA TopBound ==
    /\ Top \in Nat
    /\ \A s \in Shapes : s[1] + Total(s[2]) <= Top
<1>. DEFINE f == [s \in Shapes |-> s[1] + Total(s[2])]
<1>. DEFINE X == {s[1] + Total(s[2]) : s \in Shapes}
<1>1. \A s \in Shapes : s[1] + Total(s[2]) \in Nat
  BY ShapeTypes
<1>2. PICK x \in Shapes : \A y \in Shapes : f[y] <= f[x]
  <2>1. f \in [Shapes -> Nat]
    BY <1>1
  <2>. HIDE DEF f
  <2>. QED
    BY <2>1, Greatest, RamDiskAssumption
<1>3. f[x] \in X /\ \A v \in X : f[x] >= v
  BY <1>1, <1>2
<1>4. Top = CHOOSE v \in X : \A w \in X : v >= w
  BY DEF Top, Max
<1>5. Top \in X /\ \A w \in X : Top >= w
  <2>. HIDE DEF X, f
  <2>. QED
    BY <1>3, <1>4, Zenon
<1>. QED
  BY <1>1, <1>5

-----------------------------------------------------------------------------
(* Scatterlists.                                                           *)

(* The sectors of the first i pages of a list for n sectors.               *)
Upto(n, i) == IF i * PageSectors > n THEN n ELSE i * PageSectors

(* The number of pages is right: all but the last are full and end before  *)
(* the last sector.                                                        *)
LEMMA PageCount ==
    ASSUME NEW n \in Nat \ {0}
    PROVE  /\ NPages(n) \in Nat \ {0}
           /\ NPages(n) * PageSectors >= n
           /\ (NPages(n) - 1) * PageSectors < n
<1>. DEFINE q == n \div PageSectors
<1>. DEFINE m == n % PageSectors
<1>1. PageSectors \in Nat \ {0}
  BY RamDiskAssumption
<1>2. q \in Nat /\ m \in Nat /\ m < PageSectors /\ n = PageSectors * q + m
  BY <1>1
<1>3. NPages(n) = IF m = 0 THEN q ELSE q + 1
  BY DEF NPages
<1>. HIDE DEF q, m
<1>4. CASE m = 0
  <2>1. n = PageSectors * q /\ NPages(n) = q
    BY <1>1, <1>2, <1>3, <1>4
  <2>2. q # 0
    BY <1>1, <2>1
  <2>3. (q - 1) * PageSectors = PageSectors * q - PageSectors /\ q * PageSectors = PageSectors * q
    BY <1>1, <1>2
  <2>. QED
    BY <1>1, <1>2, <2>1, <2>2, <2>3
<1>5. CASE m # 0
  <2>1. NPages(n) = q + 1
    BY <1>3, <1>5
  <2>2. (q + 1) * PageSectors = PageSectors * q + PageSectors /\ (q + 1) - 1 = q /\ q * PageSectors = PageSectors * q
    BY <1>1, <1>2
  <2>. QED
    BY <1>1, <1>2, <1>5, <2>1, <2>2
<1>. QED
  BY <1>4, <1>5

(* What the first pages hold: nothing, and then up to a page more each.    *)
LEMMA UptoProps ==
    ASSUME NEW n \in Nat \ {0}
    PROVE  /\ Upto(n, 0) = 0 /\ Upto(n, NPages(n)) = n
           /\ \A i \in 1 .. NPages(n) :
                 /\ Upto(n, i) \in Nat /\ Upto(n, i - 1) \in Nat /\ Upto(n, i) >= Upto(n, i - 1)
                 /\ Upto(n, i - 1) = (i - 1) * PageSectors
                 /\ Upto(n, i) - Upto(n, i - 1) =
                       IF (i - 1) * PageSectors + PageSectors > n THEN n - (i - 1) * PageSectors ELSE PageSectors
<1>1. PageSectors \in Nat \ {0} /\ NPages(n) \in Nat \ {0}
  BY PageCount, RamDiskAssumption
<1>2. Upto(n, 0) = 0
  BY <1>1 DEF Upto
<1>3. Upto(n, NPages(n)) = n
  <2>1. NPages(n) * PageSectors \in Nat /\ NPages(n) * PageSectors >= n
    BY <1>1, PageCount
  <2>. QED
    BY <2>1 DEF Upto
<1>4. ASSUME NEW i \in 1 .. NPages(n)
      PROVE  /\ Upto(n, i) \in Nat /\ Upto(n, i - 1) \in Nat /\ Upto(n, i) >= Upto(n, i - 1)
             /\ Upto(n, i - 1) = (i - 1) * PageSectors
             /\ Upto(n, i) - Upto(n, i - 1) =
                   IF (i - 1) * PageSectors + PageSectors > n THEN n - (i - 1) * PageSectors ELSE PageSectors
  <2>1. i \in Nat \ {0} /\ i - 1 \in Nat /\ i - 1 <= NPages(n) - 1 /\ NPages(n) - 1 \in Nat
    BY <1>1
  <2>2. (i - 1) * PageSectors <= (NPages(n) - 1) * PageSectors
    BY <1>1, <2>1
  <2>3. i * PageSectors = (i - 1) * PageSectors + PageSectors
    BY <1>1, <2>1
  <2>4. (i - 1) * PageSectors \in Nat /\ (NPages(n) - 1) * PageSectors \in Nat
    BY <1>1, <2>1
  <2>5. (i - 1) * PageSectors < n
    BY <2>2, <2>4, PageCount
  <2>6. Upto(n, i - 1) = (i - 1) * PageSectors
    BY <2>4, <2>5 DEF Upto
  <2>7. PICK a \in Nat : a = (i - 1) * PageSectors
    BY <2>4
  <2>8. Upto(n, i) = IF a + PageSectors > n THEN n ELSE a + PageSectors
    BY <2>3, <2>7 DEF Upto
  <2>9. a < n /\ Upto(n, i - 1) = a
    BY <2>5, <2>6, <2>7
  <2>. QED
    BY <1>1, <2>7, <2>8, <2>9
<1>. QED
  BY <1>2, <1>3, <1>4

(* A sequence of consecutive numbers and the next ones.                    *)
LEMMA Consecutive ==
    ASSUME NEW a \in Int, NEW m \in Nat, NEW l \in Nat
    PROVE  [j \in 1 .. m |-> a + j - 1] \o [j \in 1 .. l |-> a + m + j - 1] = [j \in 1 .. m + l |-> a + j - 1]
<1>. DEFINE x == [j \in 1 .. m |-> a + j - 1]
            y == [j \in 1 .. l |-> a + m + j - 1]
            z == [j \in 1 .. m + l |-> a + j - 1]
<1>1. x \in Seq(Int) /\ y \in Seq(Int) /\ Len(x) = m /\ Len(y) = l
  OBVIOUS
<1>2. x \o y \in Seq(Int) /\ Len(x \o y) = m + l /\ DOMAIN (x \o y) = 1 .. m + l
  BY <1>1
<1>3. ASSUME NEW j \in 1 .. m + l PROVE (x \o y)[j] = a + j - 1
  <2>1. CASE j <= m
    <3>1. (x \o y)[j] = x[j]
      BY <1>1, <2>1
    <3>. QED
      BY <2>1, <3>1
  <2>2. CASE j > m
    <3>1. (x \o y)[j] = y[j - m] /\ j - m \in 1 .. l
      BY <1>1, <2>2
    <3>2. y[j - m] = a + m + (j - m) - 1
      BY <3>1
    <3>. QED
      BY <3>1, <3>2
  <2>. QED
    BY <2>1, <2>2
<1>4. z = [j \in 1 .. m + l |-> (x \o y)[j]]
  BY <1>3
<1>5. x \o y = [j \in 1 .. m + l |-> (x \o y)[j]]
  BY <1>2
<1>. QED
  BY <1>4, <1>5

(* f is the table of the pages joined one after the other.                 *)
IsFlat(f, s) == f = [i \in 1 .. Len(s) |-> IF i = 1 THEN s[i] ELSE f[i - 1] \o s[i]]

(* A scatterlist for n sectors from a is walked in the order of the        *)
(* sectors, each once, whatever the size of a page.                        *)
LEMMA WalkInOrder ==
    ASSUME NEW a \in Int, NEW n \in Nat \ {0}
    PROVE  Walk(Sgl(a, n)) = [j \in 1 .. n |-> a + j - 1]
<1>1. PageSectors \in Nat \ {0} /\ NPages(n) \in Nat \ {0}
  BY PageCount, RamDiskAssumption
<1>2. PICK L \in Nat \ {0} : L = NPages(n)
  BY <1>1
<1>3. PICK s : s = [i \in 1 .. L |-> [j \in 1 .. Upto(n, i) - Upto(n, i - 1) |-> a + Upto(n, i - 1) + j - 1]]
  OBVIOUS
<1>4. Walk(Sgl(a, n)) = FlattenSeq(s)
  <2>. DEFINE g == Sgl(a, n)
  <2>1. DOMAIN g = 1 .. L
    BY <1>2 DEF Sgl
  <2>2. ASSUME NEW i \in 1 .. L
        PROVE  g[i].len = Upto(n, i) - Upto(n, i - 1) /\ g[i].from = a + Upto(n, i - 1)
    <3>1. g[i] = [from |-> a + (i - 1) * PageSectors,
                  len |-> IF (i - 1) * PageSectors + PageSectors > n THEN n - (i - 1) * PageSectors ELSE PageSectors]
      BY <1>2 DEF Sgl
    <3>. QED
      BY <1>2, <3>1, UptoProps
  <2>3. Walk(g) = FlattenSeq([i \in DOMAIN g |-> [j \in 1 .. g[i].len |-> g[i].from + j - 1]])
    BY DEF Walk
  <2>. HIDE DEF g
  <2>4. [i \in DOMAIN g |-> [j \in 1 .. g[i].len |-> g[i].from + j - 1]] = s
    BY <1>3, <2>1, <2>2
  <2>5. Walk(g) = FlattenSeq(s)
    BY <2>3, <2>4
  <2>. QED
    BY <2>5 DEF g
<1>5. /\ DOMAIN s = 1 .. L /\ Len(s) = L /\ Len(s) # 0
      /\ \A i \in 1 .. L : s[i] = [j \in 1 .. Upto(n, i) - Upto(n, i - 1) |-> a + Upto(n, i - 1) + j - 1]
  BY <1>2, <1>3
<1>6. FlattenSeq(s) = (CHOOSE f : IsFlat(f, s))[L]
  BY <1>5 DEF FlattenSeq, IsFlat
<1>7. PICK t : t = [i \in 1 .. L |-> [j \in 1 .. Upto(n, i) |-> a + j - 1]]
  OBVIOUS
<1>8. s[1] = t[1]
  <2>1. Upto(n, 0) = 0 /\ Upto(n, 1) \in Nat /\ 1 - 1 = 0 /\ 1 \in 1 .. L
    BY <1>2, UptoProps
  <2>2. s[1] = [j \in 1 .. Upto(n, 1) - 0 |-> a + 0 + j - 1]
    BY <1>5, <2>1
  <2>3. t[1] = [j \in 1 .. Upto(n, 1) |-> a + j - 1]
    BY <1>7, <2>1
  <2>. QED
    BY <2>1, <2>2, <2>3
<1>9. ASSUME NEW i \in 1 .. L, i # 1 PROVE t[i] = t[i - 1] \o s[i]
  <2>1. i - 1 \in 1 .. L
    BY <1>9
  <2>2. PICK m \in Nat : m = Upto(n, i - 1)
    BY <1>2, UptoProps
  <2>3. PICK l \in Nat : l = Upto(n, i) - m /\ Upto(n, i) = m + l
    BY <1>2, <2>2, UptoProps
  <2>4. t[i - 1] = [j \in 1 .. m |-> a + j - 1]
    BY <1>7, <2>1, <2>2
  <2>5. s[i] = [j \in 1 .. l |-> a + m + j - 1]
    BY <1>5, <2>2, <2>3
  <2>6. t[i] = [j \in 1 .. m + l |-> a + j - 1]
    BY <1>7, <2>3
  <2>. QED
    BY <2>4, <2>5, <2>6, Consecutive
<1>10. IsFlat(t, s)
  <2>1. \A i \in 1 .. L : t[i] = IF i = 1 THEN s[i] ELSE t[i - 1] \o s[i]
    BY <1>8, <1>9
  <2>2. t = [i \in 1 .. L |-> t[i]]
    BY <1>7
  <2>3. [i \in 1 .. L |-> t[i]] = [i \in 1 .. L |-> IF i = 1 THEN s[i] ELSE t[i - 1] \o s[i]]
    BY <2>1
  <2>. QED
    BY <1>5, <2>2, <2>3, Zenon DEF IsFlat
<1>11. ASSUME NEW f, IsFlat(f, s) PROVE f[L] = t[L]
  <2>. DEFINE P == {i \in 1 .. L : f[i] = t[i]}
  <2>1. f = [i \in 1 .. L |-> IF i = 1 THEN s[i] ELSE f[i - 1] \o s[i]]
    BY <1>5, <1>11 DEF IsFlat
  <2>2. \A i \in 1 .. L : f[i] = IF i = 1 THEN s[i] ELSE f[i - 1] \o s[i]
    BY <2>1, Zenon
  <2>3. 1 \in P
    BY <1>8, <2>2
  <2>4. ASSUME NEW i \in 1 .. L, i \in P, i < L PROVE i + 1 \in P
    <3>1. i + 1 \in 1 .. L /\ i + 1 # 1 /\ (i + 1) - 1 = i
      BY <2>4
    <3>2. f[i + 1] = f[i] \o s[i + 1] /\ t[i + 1] = t[i] \o s[i + 1]
      BY <1>9, <2>2, <3>1
    <3>. QED
      BY <2>4, <3>1, <3>2
  <2>5. \A i \in 1 .. L : i \in P /\ i < L => i + 1 \in P
    BY <2>4
  <2>6. L \in P
    <3>. HIDE DEF P
    <3>1. \A i \in 1 .. L : i \in P
      BY <2>3, <2>5, Upward
    <3>. QED
      BY <3>1
  <2>. QED
    BY <2>6
<1>12. FlattenSeq(s) = t[L]
  BY <1>6, <1>10, <1>11
<1>13. t[L] = [j \in 1 .. n |-> a + j - 1]
  BY <1>2, <1>7, UptoProps
<1>. QED
  BY <1>4, <1>12, <1>13

-----------------------------------------------------------------------------
(* The inductive invariant.                                                *)

Values  == Nat \X Int
Cells   == [val : Values, key : Keys \cup {BadKey}]
Buffers == UNION {[1 .. n -> Values] : n \in Nat}
Kinds   == {"read", "write", "other"}
RequestRecords == [dev : Devices, sector : Nat, chunks : Seq(Nat \ {0}), kind : Kinds]

(* The types that TypeOK leaves out.                                       *)
Typed ==
    /\ geo \in Geometries
    /\ module \in {"new", "array", "loaded", "EBUSY", "ENOMEM", "oops"} /\ registered \in BOOLEAN
    /\ next \in 0 .. NDevices /\ gd \in SUBSET Devices
    /\ key \in Keys \cup {BadKey} /\ writes \in 0 .. MaxKeyWrites /\ freed \in SUBSET Devices
    /\ data \in [Devices -> [Memory -> Cells]] /\ ref \in [Devices -> [Memory -> Cells]]
    /\ req \in Seq(RequestRecords) /\ Len(req) <= MaxRequests
    /\ buffer \in Seq(Buffers) /\ Len(buffer) = Len(req)
    /\ want \in Seq(Buffers) /\ Len(want) = Len(req)
    /\ pc \in [Devices -> {"idle", "chunk", "setkey", "stuck"}]
    /\ cur \in [Devices -> Nat] /\ at \in [Devices -> Nat]
    /\ waiting \in [Devices -> SUBSET Nat] /\ done \in SUBSET (1 .. Len(req))

(* A request has one of the shapes, and the buffers are as long as it.     *)
Shaped ==
    \A r \in 1 .. Len(req) :
        /\ \E s \in Shapes : s[1] = req[r].sector /\ s[2] = req[r].chunks
        /\ DOMAIN buffer[r] = 1 .. Total(req[r].chunks)
        /\ DOMAIN want[r] = 1 .. Total(req[r].chunks)

(* What a loop serves, and what waits for it, are requests to its device.  *)
Served ==
    \A d \in Devices :
        /\ pc[d] # "idle" =>
              /\ cur[d] \in 1 .. Len(req) /\ req[cur[d]].dev = d
              /\ at[d] \in 1 .. Len(req[cur[d]].chunks)
              /\ cur[d] \notin waiting[d] /\ d \in gd
              /\ pc[d] \in {"chunk", "setkey"} => cur[d] \notin done
              /\ pc[d] = "setkey" => req[cur[d]].kind # "other"
        /\ \A r \in waiting[d] : r \in 1 .. Len(req) /\ req[r].dev = d /\ r \notin done /\ d \in gd

(* A disk is initialised once.                                             *)
Fresh == \A d \in gd : d < next

(* A sector whose writers know its key holds what they wrote.              *)
Known ==
    \A d \in Devices : \A s \in Memory :
        /\ ref[d][s].key # BadKey => data[d][s] = ref[d][s]
        /\ d \notin gd => ref[d][s].key = BadKey

(* A reader's buffer holds what may be expected, also before the end.      *)
Agrees ==
    \A r \in 1 .. Len(req) : req[r].kind = "read" =>
        \A b \in DOMAIN want[r] : want[r][b] # Unknown => buffer[r][b] = want[r][b]

RInv == Typed /\ Shaped /\ Served /\ Fresh /\ Known /\ Agrees /\ OnlyOwnMemory /\ NoRequestLost

-----------------------------------------------------------------------------
(* Numbers and cells.                                                      *)

(* The cells that no request wrote, and the end of memory.                 *)
LEMMA Constants ==
    /\ Garbage \in Values /\ Stale \in Values /\ Unknown \in Values
    /\ Junk \in Cells /\ Foreign \in Cells /\ Junk.key = BadKey /\ DefaultKey \in Keys
    /\ Top \in Nat
  BY TopBound, RamDiskAssumption DEF Garbage, Stale, Unknown, Junk, Foreign, Values, Cells

(* The size, whose product an int may not hold, is an integer.             *)
LEMMA SizeInt ==
    ASSUME geo \in Geometries PROVE size \in Int /\ capacity \in Nat
<1>1. nsectors \in Nat /\ hardsect \in Nat
  BY RamDiskAssumption DEF nsectors, hardsect
<1>2. nsectors * hardsect \in Nat
  BY <1>1
<1>3. PICK m \in Nat : m = nsectors * hardsect
  BY <1>2
<1>4. PICK w \in Nat \ {0} : w = 2^Width
  BY WidthArithmetic
<1>5. m % w \in Int
  BY <1>3, <1>4
<1>6. size = IF m % w >= 2^(Width - 1) THEN (m % w) - w ELSE m % w
  BY <1>3, <1>4 DEF size, S
<1>7. size \in Int
  BY <1>4, <1>5, <1>6
<1>. QED
  BY <1>2, <1>7 DEF capacity

(* The chunks of a request.                                                *)
LEMMA ChunkTypes ==
    ASSUME Typed, Shaped, NEW r \in 1 .. Len(req)
    PROVE  /\ req[r] \in RequestRecords /\ req[r].sector \in Nat /\ req[r].chunks \in Seq(Nat \ {0})
           /\ req[r].chunks \in Seq(Nat) /\ Len(req[r].chunks) \in Nat \ {0}
           /\ Total(req[r].chunks) \in Nat /\ req[r].sector + Total(req[r].chunks) <= Top
           /\ \A i \in 1 .. Len(req[r].chunks) : Before(r, i) \in Nat /\ req[r].chunks[i] \in Nat \ {0}
<1>1. req[r] \in RequestRecords
  BY DEF Typed
<1>2. req[r].sector \in Nat /\ req[r].chunks \in Seq(Nat \ {0})
  BY <1>1 DEF RequestRecords
<1>3. PICK s \in Shapes : s[1] = req[r].sector /\ s[2] = req[r].chunks
  BY DEF Shaped
<1>4. /\ req[r].chunks \in Seq(Nat) /\ Len(req[r].chunks) \in Nat \ {0}
      /\ Total(req[r].chunks) \in Nat /\ req[r].sector + Total(req[r].chunks) <= Top
  BY <1>3, ShapeTypes, TopBound
<1>5. ASSUME NEW i \in 1 .. Len(req[r].chunks) PROVE Before(r, i) \in Nat /\ req[r].chunks[i] \in Nat \ {0}
  <2>1. i - 1 \in 0 .. Len(req[r].chunks)
    BY <1>4
  <2>2. Before(r, i) \in Nat
    BY <1>4, <2>1, SumNat DEF Before
  <2>3. req[r].chunks[i] \in Nat \ {0}
    BY <1>2, ElementOfSeq
  <2>. QED
    BY <2>2, <2>3
<1>. QED
  BY <1>1, <1>2, <1>4, <1>5

-----------------------------------------------------------------------------
(* The request loop.                                                       *)

LoopTyped ==
    /\ pc \in [Devices -> {"idle", "chunk", "setkey", "stuck"}]
    /\ cur \in [Devices -> Nat] /\ at \in [Devices -> Nat]
    /\ waiting \in [Devices -> SUBSET Nat] /\ done \in SUBSET (1 .. Len(req))

(* Fetching the next request, when the one before is done or there is none *)
(* (lines 198-200 and 210-212).                                            *)
LEMMA Fetches ==
    ASSUME RInv, NEW d \in Devices, NEW r, After(d, r, FALSE), UNCHANGED << req, gd >>,
           done' \in SUBSET (1 .. Len(req)), done \subseteq done',
           \A x \in done' : x \in done \/ (pc[d] # "idle" /\ x = cur[d]),
           pc[d] # "idle" => cur[d] \in done'
    PROVE  LoopTyped' /\ Served' /\ NoRequestLost'
<1>1. LoopTyped /\ Served /\ NoRequestLost /\ Len(req) \in Nat /\ req \in Seq(RequestRecords)
  BY DEF RInv, Typed, LoopTyped
<1>2. \A x \in 1 .. Len(req) : x \in Nat /\ req[x] \in RequestRecords /\ Len(req[x].chunks) \in Nat \ {0}
  BY ChunkTypes DEF RInv
<1>3. ASSUME NEW e \in Devices, NEW x \in waiting[e], x \in done' PROVE FALSE
  <2>1. x \in 1 .. Len(req) /\ req[x].dev = e /\ x \notin done
    BY <1>1, <1>3 DEF Served
  <2>2. pc[d] # "idle" /\ x = cur[d] /\ req[cur[d]].dev = d /\ cur[d] \notin waiting[d]
    BY <1>1, <1>3, <2>1 DEF Served
  <2>. QED
    BY <1>3, <2>1, <2>2
<1>4. ASSUME NEW e \in Devices, e # d, pc[e] \in {"chunk", "setkey"} PROVE cur[e] \notin done'
  BY <1>1, <1>4 DEF Served
<1>5. CASE waiting[d] = {}
  <2>1. pc' = [pc EXCEPT ![d] = "idle"] /\ UNCHANGED << cur, at, waiting >>
    BY <1>5 DEF After
  <2>2. LoopTyped'
    BY <1>1, <2>1 DEF LoopTyped
  <2>3. Served'
    BY <1>1, <1>3, <1>4, <2>1 DEF Served, LoopTyped
  <2>4. NoRequestLost'
    BY <1>1, <2>1 DEF NoRequestLost, LoopTyped
  <2>. QED
    BY <2>2, <2>3, <2>4
<1>6. CASE waiting[d] # {}
  <2>1. PICK q \in waiting[d] :
           /\ pc' = [pc EXCEPT ![d] = "chunk"]
           /\ cur' = [cur EXCEPT ![d] = q] /\ at' = [at EXCEPT ![d] = 1]
           /\ waiting' = [waiting EXCEPT ![d] = @ \ {q}]
    BY <1>6 DEF After
  <2>2. q \in 1 .. Len(req) /\ req[q].dev = d /\ q \notin done' /\ d \in gd
    BY <1>1, <1>3 DEF Served
  <2>3. LoopTyped'
    BY <1>1, <1>2, <2>1, <2>2 DEF LoopTyped
  <2>4. ASSUME NEW e \in Devices, pc'[e] # "idle"
        PROVE  /\ cur'[e] \in 1 .. Len(req) /\ req[cur'[e]].dev = e
               /\ at'[e] \in 1 .. Len(req[cur'[e]].chunks)
               /\ cur'[e] \notin waiting'[e] /\ e \in gd
               /\ pc'[e] \in {"chunk", "setkey"} => cur'[e] \notin done'
               /\ pc'[e] = "setkey" => req[cur'[e]].kind # "other"
    <3>1. CASE e = d
      BY <1>1, <1>2, <2>1, <2>2, <3>1 DEF LoopTyped
    <3>2. CASE e # d
      BY <1>1, <1>4, <2>1, <2>4, <3>2 DEF LoopTyped, Served
    <3>. QED
      BY <3>1, <3>2
  <2>5. ASSUME NEW e \in Devices, NEW x \in waiting'[e]
        PROVE  x \in 1 .. Len(req) /\ req[x].dev = e /\ x \notin done' /\ e \in gd
    <3>1. x \in waiting[e]
      BY <1>1, <2>1, <2>5 DEF LoopTyped
    <3>. QED
      BY <1>1, <1>3, <3>1 DEF Served
  <2>6. Served'
    BY <2>4, <2>5 DEF Served
  <2>7. NoRequestLost'
    BY <1>1, <2>1 DEF NoRequestLost, LoopTyped
  <2>. QED
    BY <2>3, <2>6, <2>7
<1>. QED
  BY <1>5, <1>6

(* __blk_end_request_cur, and the next chunk or request.                   *)
LEMMA Ends ==
    ASSUME RInv, NEW d \in Devices, pc[d] \in {"chunk", "setkey"}, EndCur(d), UNCHANGED << req, gd >>
    PROVE  LoopTyped' /\ Served' /\ NoRequestLost'
<1>1. LoopTyped /\ Served /\ NoRequestLost /\ Len(req) \in Nat
  BY DEF RInv, Typed, LoopTyped
<1>2. cur[d] \in 1 .. Len(req) /\ Len(req[cur[d]].chunks) \in Nat /\ at[d] \in Nat
  BY <1>1, ChunkTypes DEF RInv, Served, LoopTyped
<1>3. CASE at[d] < Len(req[cur[d]].chunks)
  <2>1. /\ done' = done /\ pc' = [pc EXCEPT ![d] = "chunk"] /\ at' = [at EXCEPT ![d] = @ + 1]
        /\ cur' = cur /\ waiting' = waiting
    BY <1>3 DEF EndCur, After
  <2>2. LoopTyped'
    BY <1>1, <1>2, <2>1 DEF LoopTyped
  <2>3. Served'
    BY <1>1, <1>2, <1>3, <2>1 DEF Served, LoopTyped
  <2>4. NoRequestLost'
    BY <1>1, <2>1 DEF NoRequestLost, LoopTyped
  <2>. QED
    BY <2>2, <2>3, <2>4
<1>4. CASE ~(at[d] < Len(req[cur[d]].chunks))
  <2>1. done' = done \cup {cur[d]} /\ After(d, cur[d], FALSE)
    BY <1>4 DEF EndCur, After
  <2>2. /\ done' \in SUBSET (1 .. Len(req)) /\ done \subseteq done' /\ cur[d] \in done'
        /\ \A x \in done' : x \in done \/ (pc[d] # "idle" /\ x = cur[d])
    BY <1>1, <1>2, <2>1 DEF LoopTyped
  <2>. QED
    BY <2>1, <2>2, Fetches
<1>. QED
  BY <1>3, <1>4

-----------------------------------------------------------------------------
(* The transfer.                                                           *)

(* The sectors of chunk i of request r.                                    *)
ChunkSectors(r, i) == req[r].sector + Before(r, i) .. req[r].sector + Before(r, i) + req[r].chunks[i] - 1

(* What is encrypted is the chunk, sector by sector (lines 140-163).       *)
LEMMA EncryptedChunk ==
    ASSUME Typed, Shaped, NEW d \in Devices, NEW r \in 1 .. Len(req),
           NEW i \in 1 .. Len(req[r].chunks), NEW k
    PROVE  Encrypted(d, r, i, k) =
             [s \in Memory |-> IF s \in ChunkSectors(r, i) THEN [val |-> << r, s - req[r].sector >>, key |-> k]
                               ELSE data[d][s]]
<1>1. PICK n \in Nat \ {0} : n = req[r].chunks[i]
  BY ChunkTypes
<1>2. PICK b \in Nat : b = Before(r, i)
  BY ChunkTypes
<1>3. PICK a \in Nat : a = req[r].sector
  BY ChunkTypes
<1>4. PICK from : from = Walk(Sgl(b, n)) /\ DOMAIN from = 1 .. n /\ \A j \in 1 .. n : from[j] = b + j - 1
  <2>0. b \in Int
    OBVIOUS
  <2>1. Walk(Sgl(b, n)) = [j \in 1 .. n |-> b + j - 1]
    BY <2>0, WalkInOrder
  <2>. QED
    BY <2>1
<1>5. PICK to : to = Walk(Sgl(a + b, n)) /\ DOMAIN to = 1 .. n /\ \A j \in 1 .. n : to[j] = a + b + j - 1
  <2>1. Walk(Sgl(a + b, n)) = [j \in 1 .. n |-> (a + b) + j - 1]
    BY WalkInOrder
  <2>. QED
    BY <2>1
<1>6. Encrypted(d, r, i, k) =
        [s \in Memory |->
           IF \E j \in DOMAIN to : to[j] = s
           THEN [val |-> << r, from[CHOOSE j \in DOMAIN to : to[j] = s] >>, key |-> k]
           ELSE data[d][s]]
  BY <1>1, <1>2, <1>3, <1>4, <1>5 DEF Encrypted
<1>7. ChunkSectors(r, i) = a + b .. a + b + n - 1
  BY <1>1, <1>2, <1>3 DEF ChunkSectors
<1>8. ASSUME NEW s \in Memory
      PROVE  (IF \E j \in DOMAIN to : to[j] = s
              THEN [val |-> << r, from[CHOOSE j \in DOMAIN to : to[j] = s] >>, key |-> k]
              ELSE data[d][s])
             = IF s \in ChunkSectors(r, i) THEN [val |-> << r, s - a >>, key |-> k] ELSE data[d][s]
  <2>0. s \in Int
    BY Constants DEF Memory
  <2>1. CASE s \in ChunkSectors(r, i)
    <3>1. s - (a + b) + 1 \in DOMAIN to /\ to[s - (a + b) + 1] = s
      BY <1>5, <1>7, <2>0, <2>1
    <3>2. PICK j : j = CHOOSE l \in DOMAIN to : to[l] = s
      OBVIOUS
    <3>3. j \in DOMAIN to /\ to[j] = s
      BY <3>1, <3>2, Zenon
    <3>4. j \in 1 .. n /\ from[j] = s - a
      <4>1. j \in 1 .. n
        BY <1>5, <3>3
      <4>2. from[j] = b + j - 1 /\ s = a + b + j - 1
        BY <1>4, <1>5, <3>3, <4>1
      <4>. QED
        BY <4>1, <4>2
    <3>. QED
      BY <2>1, <3>1, <3>2, <3>4
  <2>2. CASE s \notin ChunkSectors(r, i)
    <3>1. ~\E j \in DOMAIN to : to[j] = s
      BY <1>5, <1>7, <2>0, <2>2
    <3>. QED
      BY <2>2, <3>1
  <2>. QED
    BY <2>1, <2>2
<1>. QED
  BY <1>3, <1>6, <1>8

(* What is decrypted is the chunk, sector by sector (lines 164-188).       *)
LEMMA DecryptedChunk ==
    ASSUME Typed, Shaped, NEW d \in Devices, NEW r \in 1 .. Len(req),
           NEW i \in 1 .. Len(req[r].chunks), NEW k
    PROVE  Decrypted(d, r, i, k) =
             [b \in DOMAIN buffer[r] |->
                IF req[r].sector + b - 1 \in ChunkSectors(r, i) THEN Decrypt(data[d][req[r].sector + b - 1], k)
                ELSE buffer[r][b]]
<1>1. PICK n \in Nat \ {0} : n = req[r].chunks[i]
  BY ChunkTypes
<1>2. PICK c \in Nat : c = Before(r, i)
  BY ChunkTypes
<1>3. PICK a \in Nat : a = req[r].sector
  BY ChunkTypes
<1>4. PICK to : to = Walk(Sgl(c, n)) /\ DOMAIN to = 1 .. n /\ \A j \in 1 .. n : to[j] = c + j - 1
  <2>0. c \in Int
    OBVIOUS
  <2>1. Walk(Sgl(c, n)) = [j \in 1 .. n |-> c + j - 1]
    BY <2>0, WalkInOrder
  <2>. QED
    BY <2>1
<1>5. PICK from : from = Walk(Sgl(a + c, n)) /\ DOMAIN from = 1 .. n /\ \A j \in 1 .. n : from[j] = a + c + j - 1
  <2>1. Walk(Sgl(a + c, n)) = [j \in 1 .. n |-> (a + c) + j - 1]
    BY WalkInOrder
  <2>. QED
    BY <2>1
<1>6. Decrypted(d, r, i, k) =
        [b \in DOMAIN buffer[r] |->
           IF \E j \in DOMAIN to : to[j] = b - 1
           THEN Decrypt(data[d][from[CHOOSE j \in DOMAIN to : to[j] = b - 1]], k)
           ELSE buffer[r][b]]
  BY <1>1, <1>2, <1>3, <1>4, <1>5 DEF Decrypted
<1>7. ChunkSectors(r, i) = a + c .. a + c + n - 1
  BY <1>1, <1>2, <1>3 DEF ChunkSectors
<1>8. ASSUME NEW b \in DOMAIN buffer[r]
      PROVE  (IF \E j \in DOMAIN to : to[j] = b - 1
              THEN Decrypt(data[d][from[CHOOSE j \in DOMAIN to : to[j] = b - 1]], k)
              ELSE buffer[r][b])
             = IF a + b - 1 \in ChunkSectors(r, i) THEN Decrypt(data[d][a + b - 1], k) ELSE buffer[r][b]
  <2>0. b \in Int
    <3>1. DOMAIN buffer[r] = 1 .. Total(req[r].chunks) /\ Total(req[r].chunks) \in Nat
      BY ChunkTypes DEF Shaped
    <3>. QED
      BY <3>1
  <2>1. CASE a + b - 1 \in ChunkSectors(r, i)
    <3>1. b - c \in DOMAIN to /\ to[b - c] = b - 1
      BY <1>4, <1>7, <2>0, <2>1
    <3>2. PICK j : j = CHOOSE l \in DOMAIN to : to[l] = b - 1
      OBVIOUS
    <3>3. j \in DOMAIN to /\ to[j] = b - 1
      BY <3>1, <3>2, Zenon
    <3>4. j \in 1 .. n /\ from[j] = a + b - 1
      BY <1>4, <1>5, <2>0, <3>3
    <3>. QED
      BY <2>1, <3>1, <3>2, <3>4
  <2>2. CASE a + b - 1 \notin ChunkSectors(r, i)
    <3>1. ~\E j \in DOMAIN to : to[j] = b - 1
      BY <1>4, <1>7, <2>0, <2>2
    <3>. QED
      BY <2>2, <3>1
  <2>. QED
    BY <2>1, <2>2
<1>. QED
  BY <1>3, <1>6, <1>8

-----------------------------------------------------------------------------
(* Every step keeps the invariant.                                         *)

(* The states in which the module is loaded for the first time.            *)
LEMMA InitInv == DiskInit => RInv
<1>. SUFFICES ASSUME DiskInit PROVE RInv
  OBVIOUS
<1>1. NDevices \in Nat \ {0} /\ MaxRequests \in Nat /\ MaxKeyWrites \in Nat
  BY RamDiskAssumption
<1>2. Typed
  <2>1. data \in [Devices -> [Memory -> Cells]] /\ ref \in [Devices -> [Memory -> Cells]]
    BY Constants DEF DiskInit
  <2>2. /\ req = << >> /\ buffer = << >> /\ want = << >> /\ Len(req) = 0 /\ Len(buffer) = 0 /\ Len(want) = 0
        /\ req \in Seq(RequestRecords) /\ buffer \in Seq(Buffers) /\ want \in Seq(Buffers)
    BY DEF DiskInit
  <2>3. /\ pc \in [Devices -> {"idle", "chunk", "setkey", "stuck"}]
        /\ cur \in [Devices -> Nat] /\ at \in [Devices -> Nat]
        /\ waiting \in [Devices -> SUBSET Nat]
    BY DEF DiskInit
  <2>4. registered \in BOOLEAN
    BY Zenon DEF DiskInit
  <2>5. /\ geo \in Geometries /\ module = "new" /\ next \in 0 .. NDevices
        /\ gd \in SUBSET Devices /\ key \in Keys \cup {BadKey} /\ writes \in 0 .. MaxKeyWrites
        /\ freed \in SUBSET Devices /\ done \in SUBSET (1 .. Len(req))
    <3>1. /\ geo \in Geometries /\ module = "new" /\ next = 0 /\ gd = {} /\ key = DefaultKey
          /\ writes = 0 /\ freed = {} /\ done = {}
      BY DEF DiskInit
    <3>. QED
      BY <1>1, <3>1, Constants
  <2>. QED
    BY <1>1, <2>1, <2>2, <2>3, <2>4, <2>5 DEF Typed
<1>3. Shaped /\ Agrees /\ NoRequestLost
  BY DEF DiskInit, Shaped, Agrees, NoRequestLost
<1>4. Served /\ Fresh
  BY DEF DiskInit, Served, Fresh
<1>5. Known /\ OnlyOwnMemory
  BY Constants DEF DiskInit, Known, OnlyOwnMemory
<1>. QED
  BY <1>2, <1>3, <1>4, <1>5 DEF RInv

(* Loading and unloading, but for the devices (lines 310-348).             *)
LEMMA SetupStep ==
    ASSUME RInv, \/ \E ok \in BOOLEAN : Register(ok)
                 \/ AllocFails \/ Loaded \/ Unload
    PROVE  RInv'
<1>1. /\ module' \in {"new", "array", "loaded", "EBUSY", "ENOMEM", "oops"} /\ registered' \in BOOLEAN
      /\ UNCHANGED << next, gd, geo, pc, cur, at, waiting, done, key, writes, freed, data, req, buffer, ref, want >>
  BY DEF RInv, Typed, Register, AllocFails, Loaded, Unload, params, loop, keys, hist
<1>2. Typed' /\ Shaped' /\ Fresh' /\ Agrees'
  BY <1>1 DEF RInv, Typed, Shaped, Fresh, Agrees
<1>3. Served' /\ NoRequestLost'
  BY <1>1 DEF RInv, Served, NoRequestLost
<1>4. Known' /\ OnlyOwnMemory'
  BY <1>1 DEF RInv, Known, OnlyOwnMemory, size, nsectors, hardsect, S
<1>. QED
  BY <1>2, <1>3, <1>4 DEF RInv

(* ramdsk_device_init.                                                     *)
LEMMA DeviceInitStep ==
    ASSUME RInv, NEW o \in {"memory", "queue", "disk", "live"}, DeviceInit(o)
    PROVE  RInv'
<1>1. /\ module = "array" /\ next \in Devices /\ next' = next + 1
      /\ module' \in {"array", "oops"}
      /\ UNCHANGED << registered, geo, pc, cur, at, waiting, done, key, writes, freed, req, buffer, ref, want >>
  BY DEF DeviceInit, params, loop, keys, hist
<1>2. NDevices \in Nat /\ next' \in 0 .. NDevices /\ next \in Nat
  BY <1>1, RamDiskAssumption DEF Devices
<1>3. next \notin gd
  BY <1>2 DEF RInv, Fresh
<1>4. gd \subseteq gd' /\ gd' \in SUBSET Devices /\ \A d \in gd' : d \in gd \/ d = next
  BY <1>1 DEF RInv, Typed, DeviceInit
<1>5. /\ data' \in [Devices -> [Memory -> Cells]]
      /\ \A d \in Devices : d # next \/ next \notin gd' => data'[d] = data[d]
      /\ next \in gd' => \A s \in Memory : data'[next][s] = IF s < size THEN Junk ELSE Foreign
  <2>1. CASE o = "live"
    <3>1. data' = [data EXCEPT ![next] = [s \in Memory |-> IF s < size THEN Junk ELSE Foreign]]
      BY <2>1 DEF DeviceInit
    <3>2. gd' = gd \cup {next}
      BY <2>1 DEF DeviceInit
    <3>. QED
      BY <1>1, <3>1, <3>2, Constants DEF RInv, Typed
  <2>2. CASE o # "live"
    BY <1>3, <2>2 DEF DeviceInit, RInv, Typed
  <2>. QED
    BY <2>1, <2>2
<1>6. Typed'
  BY <1>1, <1>2, <1>4, <1>5 DEF RInv, Typed
<1>7. Shaped' /\ Agrees' /\ NoRequestLost'
  BY <1>1 DEF RInv, Shaped, Agrees, NoRequestLost
<1>8. Served'
  BY <1>1, <1>4 DEF RInv, Served
<1>9. Fresh'
  <2>1. \A d \in gd : d \in Int
    BY RamDiskAssumption DEF RInv, Typed, Devices
  <2>. QED
    BY <1>1, <1>2, <1>4, <2>1 DEF RInv, Fresh
<1>10. Known'
  <2>. SUFFICES ASSUME NEW d \in Devices, NEW s \in Memory
                PROVE  /\ ref[d][s].key # BadKey => data'[d][s] = ref[d][s]
                       /\ d \notin gd' => ref[d][s].key = BadKey
    BY <1>1 DEF Known
  <2>1. ref[d][s].key # BadKey => data[d][s] = ref[d][s] /\ d \in gd
    BY DEF RInv, Known
  <2>. QED
    BY <1>3, <1>4, <1>5, <2>1
<1>11. OnlyOwnMemory'
  <2>. SUFFICES ASSUME NEW d \in Devices, NEW s \in Memory, d \notin gd' \/ s >= size
                PROVE  data'[d][s] = Foreign
    BY <1>1 DEF OnlyOwnMemory, size, nsectors, hardsect, S
  <2>1. s \in Int /\ size \in Int
    BY Constants, SizeInt DEF Memory, RInv, Typed
  <2>2. d \notin gd \/ s >= size => data[d][s] = Foreign
    BY DEF RInv, OnlyOwnMemory
  <2>3. CASE d # next \/ next \notin gd'
    BY <1>4, <1>5, <2>2, <2>3
  <2>4. CASE d = next /\ next \in gd'
    BY <1>5, <2>1, <2>4
  <2>. QED
    BY <2>3, <2>4
<1>. QED
  BY <1>6, <1>7, <1>8, <1>9, <1>10, <1>11 DEF RInv

(* The key is written.                                                     *)
LEMMA WriteKeyStep ==
    ASSUME RInv, NEW k \in Keys \cup {BadKey}, WriteKey(k)
    PROVE  RInv'
<1>1. /\ key' = k /\ writes' = writes + 1 /\ writes < MaxKeyWrites /\ freed' \in SUBSET Devices
      /\ UNCHANGED << module, registered, next, gd, geo, pc, cur, at, waiting, done, data, req, buffer, ref, want >>
  BY DEF WriteKey, params, setup, loop, hist
<1>2. Typed'
  BY <1>1, RamDiskAssumption DEF RInv, Typed
<1>3. Shaped' /\ Fresh' /\ Agrees' /\ Served' /\ NoRequestLost'
  BY <1>1 DEF RInv, Shaped, Fresh, Agrees, Served, NoRequestLost
<1>4. Known' /\ OnlyOwnMemory'
  BY <1>1 DEF RInv, Known, OnlyOwnMemory, size, nsectors, hardsect, S
<1>. QED
  BY <1>2, <1>3, <1>4 DEF RInv

(* A request is made.                                                      *)
LEMMA SubmitStep ==
    ASSUME RInv, NEW d \in Devices, NEW s \in Shapes, NEW kind \in Kinds, Submit(d, s, kind)
    PROVE  RInv'
<1>1. PICK rq : rq = [dev |-> d, sector |-> s[1], chunks |-> s[2], kind |-> kind]
  OBVIOUS
<1>2. s[1] \in Nat /\ s[2] \in Seq(Nat \ {0}) /\ Len(s[2]) \in Nat \ {0} /\ Total(s[2]) \in Nat
  BY ShapeTypes, RamDiskAssumption
<1>3. PICK n \in Nat : n = Total(s[2])
  BY <1>2
<1>4. PICK bf : bf = [b \in 1 .. n |-> Stale]
  OBVIOUS
<1>5. PICK wt : wt = [b \in 1 .. n |-> Unknown]
  OBVIOUS
<1>6. rq \in RequestRecords /\ bf \in Buffers /\ wt \in Buffers
  <2>1. rq \in RequestRecords
    BY <1>1, <1>2 DEF RequestRecords
  <2>2. bf \in [1 .. n -> Values] /\ wt \in [1 .. n -> Values]
    BY <1>4, <1>5, Constants
  <2>. QED
    BY <2>1, <2>2 DEF Buffers
<1>7. /\ req' = Append(req, rq) /\ buffer' = Append(buffer, bf) /\ want' = Append(want, wt)
      /\ waiting' = [waiting EXCEPT ![d] = @ \cup {Len(req) + 1}]
      /\ d \in gd /\ Len(req) < MaxRequests
      /\ UNCHANGED << module, registered, next, gd, geo, pc, cur, at, done, key, writes, freed, data, ref >>
  BY <1>1, <1>3, <1>4, <1>5 DEF Submit, params, setup, keys
<1>8. PICK l \in Nat : l = Len(req) /\ l = Len(buffer) /\ l = Len(want)
  BY DEF RInv, Typed
<1>9. /\ req' \in Seq(RequestRecords) /\ Len(req') = l + 1 /\ req'[l + 1] = rq
      /\ \A r \in 1 .. l : req'[r] = req[r]
  BY <1>6, <1>7, <1>8 DEF RInv, Typed
<1>10. /\ buffer' \in Seq(Buffers) /\ Len(buffer') = l + 1 /\ buffer'[l + 1] = bf
       /\ \A r \in 1 .. l : buffer'[r] = buffer[r]
  BY <1>6, <1>7, <1>8 DEF RInv, Typed
<1>11. /\ want' \in Seq(Buffers) /\ Len(want') = l + 1 /\ want'[l + 1] = wt
       /\ \A r \in 1 .. l : want'[r] = want[r]
  BY <1>6, <1>7, <1>8 DEF RInv, Typed
<1>12. /\ waiting' \in [Devices -> SUBSET Nat]
       /\ \A e \in Devices : \A x \in waiting'[e] : x \in waiting[e] \/ (e = d /\ x = l + 1)
       /\ l + 1 \in waiting'[d] /\ \A e \in Devices : waiting[e] \subseteq waiting'[e]
  BY <1>7, <1>8 DEF RInv, Typed
<1>13. done' \in SUBSET (1 .. Len(req')) /\ done \in SUBSET (1 .. l)
  BY <1>7, <1>8, <1>9 DEF RInv, Typed
<1>14. Typed'
  BY <1>7, <1>8, <1>9, <1>10, <1>11, <1>12, <1>13, RamDiskAssumption, SMTT(30) DEF RInv, Typed
<1>15. \A r \in 1 .. Len(req') : r \in 1 .. l \/ r = l + 1
  BY <1>9
<1>16. Shaped'
  <2>. SUFFICES ASSUME NEW r \in 1 .. Len(req')
                PROVE  /\ \E t \in Shapes : t[1] = req'[r].sector /\ t[2] = req'[r].chunks
                       /\ DOMAIN buffer'[r] = 1 .. Total(req'[r].chunks)
                       /\ DOMAIN want'[r] = 1 .. Total(req'[r].chunks)
    BY DEF Shaped, Total, Sum
  <2>1. CASE r \in 1 .. l
    BY <1>8, <1>9, <1>10, <1>11, <2>1 DEF RInv, Shaped
  <2>2. CASE r = l + 1
    <3>1. s[1] = req'[r].sector /\ s[2] = req'[r].chunks
      BY <1>1, <1>9, <2>2
    <3>2. DOMAIN buffer'[r] = 1 .. n /\ DOMAIN want'[r] = 1 .. n
      BY <1>4, <1>5, <1>10, <1>11, <2>2
    <3>. QED
      BY <1>3, <3>1, <3>2
  <2>. QED
    BY <1>15, <2>1, <2>2
<1>17. Served'
  <2>1. ASSUME NEW e \in Devices, pc'[e] # "idle"
        PROVE  /\ cur'[e] \in 1 .. Len(req') /\ req'[cur'[e]].dev = e
               /\ at'[e] \in 1 .. Len(req'[cur'[e]].chunks)
               /\ cur'[e] \notin waiting'[e] /\ e \in gd'
               /\ pc'[e] \in {"chunk", "setkey"} => cur'[e] \notin done'
               /\ pc'[e] = "setkey" => req'[cur'[e]].kind # "other"
    <3>1. cur[e] \in 1 .. l /\ cur'[e] = cur[e]
      BY <1>7, <1>8, <2>1 DEF RInv, Served
    <3>2. req'[cur[e]] = req[cur[e]] /\ cur[e] \in 1 .. Len(req') /\ cur[e] # l + 1
      BY <1>8, <1>9, <3>1
    <3>3. cur[e] \notin waiting'[e]
      BY <1>7, <1>12, <2>1, <3>2 DEF RInv, Served
    <3>. QED
      BY <1>7, <2>1, <3>1, <3>2, <3>3 DEF RInv, Served
  <2>2. ASSUME NEW e \in Devices, NEW x \in waiting'[e]
        PROVE  x \in 1 .. Len(req') /\ req'[x].dev = e /\ x \notin done' /\ e \in gd'
    <3>1. CASE x \in waiting[e]
      <4>1. x \in 1 .. l
        BY <1>8, <3>1 DEF RInv, Served
      <4>. QED
        BY <1>7, <1>8, <1>9, <3>1, <4>1 DEF RInv, Served
    <3>2. CASE e = d /\ x = l + 1
      <4>1. l + 1 \notin done /\ l + 1 \in 1 .. Len(req')
        BY <1>8, <1>9, <1>13
      <4>. QED
        BY <1>1, <1>7, <1>9, <3>2, <4>1
    <3>. QED
      BY <1>12, <2>2, <3>1, <3>2
  <2>. QED
    BY <2>1, <2>2 DEF Served
<1>18. Agrees'
  <2>. SUFFICES ASSUME NEW r \in 1 .. Len(req'), req'[r].kind = "read",
                       NEW b \in DOMAIN want'[r], want'[r][b] # Unknown
                PROVE  buffer'[r][b] = want'[r][b]
    BY DEF Agrees, Unknown
  <2>1. CASE r \in 1 .. l
    BY <1>8, <1>9, <1>10, <1>11, <2>1 DEF RInv, Agrees
  <2>2. CASE r = l + 1
    BY <1>5, <1>11, <2>2
  <2>. QED
    BY <1>15, <2>1, <2>2
<1>19. NoRequestLost'
  <2>. SUFFICES ASSUME NEW r \in 1 .. Len(req')
                PROVE  \/ r \in done'
                       \/ r \in waiting'[req'[r].dev]
                       \/ cur'[req'[r].dev] = r /\ pc'[req'[r].dev] # "idle"
    <3>1. DOMAIN req' = 1 .. Len(req')
      BY <1>9
    <3>. QED
      BY <3>1 DEF NoRequestLost
  <2>1. CASE r \in 1 .. l
    <3>1. req \in Seq(RequestRecords) /\ DOMAIN req = 1 .. l
      BY <1>8 DEF RInv, Typed
    <3>2. req'[r] = req[r] /\ r \in DOMAIN req /\ req[r] \in RequestRecords
      BY <1>9, <2>1, <3>1
    <3>3. req[r].dev \in Devices
      BY <3>2 DEF RequestRecords
    <3>. QED
      BY <1>7, <1>12, <3>2, <3>3 DEF RInv, NoRequestLost
  <2>2. CASE r = l + 1
    BY <1>1, <1>9, <1>12, <2>2
  <2>. QED
    BY <1>15, <2>1, <2>2
<1>20. Fresh' /\ Known' /\ OnlyOwnMemory'
  BY <1>7 DEF RInv, Fresh, Known, OnlyOwnMemory, size, nsectors, hardsect, S
<1>. QED
  BY <1>14, <1>16, <1>17, <1>18, <1>19, <1>20 DEF RInv

(* The loop's steps that neither move nor end a chunk: fetching a request  *)
(* when idle, a request of another type, the cipher that was had, and a    *)
(* list that was not (lines 83-131, 198-204).                              *)
LEMMA LoopStep ==
    ASSUME RInv, NEW d \in Devices,
           Run(d) \/ NotFS(d) \/ AllocTfm(d) \/ \E k \in Keys : SglOops(d, k)
    PROVE  RInv'
<1>1. UNCHANGED << module, registered, next, gd, geo, key, writes, data, req, buffer, ref, want >>
  BY DEF Run, NotFS, AllocTfm, SglOops, params, setup, keys, hist
<1>2. freed' \in SUBSET Devices
  BY DEF RInv, Typed, Run, NotFS, AllocTfm, SglOops, keys
<1>3. LoopTyped /\ Served /\ NoRequestLost /\ Len(req) \in Nat
  BY DEF RInv, Typed, LoopTyped
<1>4. LoopTyped' /\ Served' /\ NoRequestLost'
  <2>1. CASE Run(d)
    <3>1. done' = done /\ pc[d] = "idle" /\ After(d, 0, FALSE)
      BY <2>1 DEF Run
    <3>2. done' \in SUBSET (1 .. Len(req))
      BY <1>3, <3>1 DEF LoopTyped
    <3>. QED
      BY <1>1, <3>1, <3>2, Fetches
  <2>2. CASE NotFS(d)
    <3>1. /\ pc[d] = "chunk" /\ done' = done \cup {cur[d]} /\ pc' = [pc EXCEPT ![d] = "stuck"]
          /\ UNCHANGED << cur, at, waiting >> /\ cur[d] \in 1 .. Len(req) /\ req[cur[d]].dev = d
      BY <1>3, <2>2 DEF NotFS, Served
    <3>2. LoopTyped'
      BY <1>1, <1>3, <3>1 DEF LoopTyped
    <3>3. ASSUME NEW e \in Devices, NEW x \in waiting[e] PROVE x # cur[d]
      BY <1>3, <3>1, <3>3 DEF Served
    <3>4. ASSUME NEW e \in Devices, e # d, pc[e] # "idle" PROVE cur[e] # cur[d]
      BY <1>3, <3>1, <3>4 DEF Served
    <3>5. Served'
      BY <1>1, <1>3, <3>1, <3>3, <3>4 DEF Served, LoopTyped
    <3>6. NoRequestLost'
      BY <1>1, <1>3, <3>1 DEF NoRequestLost, LoopTyped
    <3>. QED
      BY <3>2, <3>5, <3>6
  <2>3. CASE AllocTfm(d)
    <3>1. /\ pc[d] = "chunk" /\ req[cur[d]].kind # "other" /\ pc' = [pc EXCEPT ![d] = "setkey"]
          /\ UNCHANGED << cur, at, waiting, done >>
      BY <2>3 DEF AllocTfm
    <3>. QED
      BY <1>1, <1>3, <3>1 DEF LoopTyped, Served, NoRequestLost
  <2>4. CASE \E k \in Keys : SglOops(d, k)
    <3>1. pc[d] = "setkey" /\ pc' = [pc EXCEPT ![d] = "stuck"] /\ UNCHANGED << cur, at, waiting, done >>
      BY <2>4 DEF SglOops
    <3>. QED
      BY <1>1, <1>3, <3>1 DEF LoopTyped, Served, NoRequestLost
  <2>. QED
    BY <2>1, <2>2, <2>3, <2>4
<1>5. Typed'
  BY <1>1, <1>2, <1>4 DEF RInv, Typed, LoopTyped
<1>6. Shaped' /\ Fresh' /\ Agrees'
  BY <1>1 DEF RInv, Shaped, Fresh, Agrees
<1>7. Known' /\ OnlyOwnMemory'
  BY <1>1 DEF RInv, Known, OnlyOwnMemory, size, nsectors, hardsect, S
<1>. QED
  BY <1>4, <1>5, <1>6, <1>7 DEF RInv

(* A chunk is ended that was moved with key k, or not at all if k is       *)
(* BadKey: the rest of ramdsk_transfer (lines 134-190), and line 209.      *)
Moved(d, r, i, k) ==
    /\ k # BadKey /\ req[r].kind = "write" =>
         /\ data' = [data EXCEPT ![d] = Encrypted(d, r, i, k)] /\ buffer' = buffer
         /\ req[r].sector + Before(r, i) + req[r].chunks[i] <= size
    /\ k # BadKey /\ req[r].kind # "write" =>
         buffer' = [buffer EXCEPT ![r] = Decrypted(d, r, i, k)] /\ data' = data
    /\ k = BadKey => data' = data /\ buffer' = buffer

(* Such a step keeps the invariant.                                        *)
LEMMA ChunkStep ==
    ASSUME RInv, NEW d \in Devices, pc[d] \in {"chunk", "setkey"}, NEW k \in Keys \cup {BadKey},
           Moved(d, cur[d], at[d], k), Record(d, k), EndCur(d),
           UNCHANGED << params, setup, keys, req >>
    PROVE  RInv'
<1>1. UNCHANGED << module, registered, next, gd, geo, key, writes, freed, req >>
  BY DEF params, setup, keys
<1>2. LoopTyped' /\ Served' /\ NoRequestLost'
  BY <1>1, Ends
<1>3. PICK r : r = cur[d]
  OBVIOUS
<1>4. PICK i : i = at[d]
  OBVIOUS
<1>5. r \in 1 .. Len(req) /\ req[r].dev = d /\ i \in 1 .. Len(req[r].chunks) /\ d \in gd
  BY <1>3, <1>4 DEF RInv, Served
<1>6. PICK a \in Nat : a = req[r].sector
  BY <1>5, ChunkTypes DEF RInv
<1>7. PICK b0 \in Nat : b0 = Before(r, i)
  BY <1>5, ChunkTypes DEF RInv
<1>8. PICK n \in Nat \ {0} : n = req[r].chunks[i]
  BY <1>5, ChunkTypes DEF RInv
<1>9. PICK T \in Nat : T = Total(req[r].chunks)
  BY <1>5, ChunkTypes DEF RInv
<1>10. a + T <= Top /\ Top \in Nat /\ Memory = 0 .. Top - 1
  BY <1>5, <1>6, <1>9, ChunkTypes, Constants DEF RInv, Memory
<1>11. ChunkSectors(r, i) = a + b0 .. a + b0 + n - 1
  BY <1>6, <1>7, <1>8 DEF ChunkSectors
<1>12. /\ data \in [Devices -> [Memory -> Cells]] /\ ref \in [Devices -> [Memory -> Cells]]
       /\ buffer \in Seq(Buffers) /\ Len(buffer) = Len(req)
       /\ want \in Seq(Buffers) /\ Len(want) = Len(req) /\ Len(req) \in Nat
       /\ DOMAIN buffer[r] = 1 .. T /\ DOMAIN want[r] = 1 .. T
       /\ buffer[r] \in [1 .. T -> Values] /\ want[r] \in [1 .. T -> Values]
  <2>1. /\ data \in [Devices -> [Memory -> Cells]] /\ ref \in [Devices -> [Memory -> Cells]]
        /\ buffer \in Seq(Buffers) /\ Len(buffer) = Len(req)
        /\ want \in Seq(Buffers) /\ Len(want) = Len(req) /\ Len(req) \in Nat
    BY DEF RInv, Typed
  <2>2. DOMAIN buffer[r] = 1 .. T /\ DOMAIN want[r] = 1 .. T
    BY <1>5, <1>9 DEF RInv, Shaped
  <2>3. buffer[r] \in Buffers /\ want[r] \in Buffers
    BY <1>5, <2>1
  <2>4. buffer[r] \in [1 .. T -> Values] /\ want[r] \in [1 .. T -> Values]
    BY <2>2, <2>3 DEF Buffers
  <2>. QED
    BY <2>1, <2>2, <2>4
<1>13. CASE req[r].kind = "write"
  <2>1. /\ ref' = [ref EXCEPT ![d] = [s \in Memory |->
                     IF s \in ChunkSectors(r, i) THEN [val |-> << r, s - a >>, key |-> k] ELSE ref[d][s]]]
        /\ want' = want
    BY <1>3, <1>4, <1>6, <1>12, <1>13 DEF Record, ChunkSectors
  <2>2. PICK new : new = [s \in Memory |->
                     IF s \in ChunkSectors(r, i) THEN [val |-> << r, s - a >>, key |-> k] ELSE data[d][s]]
    OBVIOUS
  <2>3. buffer' = buffer /\ (k = BadKey => data' = data)
        /\ (k # BadKey => data' = [data EXCEPT ![d] = new] /\ a + b0 + n <= size)
    <3>1. Encrypted(d, r, i, k) = new
      BY <1>5, <1>6, <2>2, EncryptedChunk DEF RInv
    <3>. QED
      BY <1>3, <1>4, <1>6, <1>7, <1>8, <1>13, <3>1 DEF Moved
  <2>4. ASSUME NEW s \in Memory PROVE [val |-> << r, s - a >>, key |-> k] \in Cells
    BY <1>5, <1>10, <1>12 DEF Cells, Values
  <2>5. /\ ref' \in [Devices -> [Memory -> Cells]]
        /\ \A e \in Devices : e # d => ref'[e] = ref[e]
        /\ \A s \in Memory : ref'[d][s] = IF s \in ChunkSectors(r, i) THEN [val |-> << r, s - a >>, key |-> k]
                                          ELSE ref[d][s]
    BY <1>12, <2>1, <2>4
  <2>6. new \in [Memory -> Cells]
    BY <1>12, <2>2, <2>4
  <2>7. /\ data' \in [Devices -> [Memory -> Cells]]
        /\ \A e \in Devices : e # d => data'[e] = data[e]
        /\ \A s \in Memory : data'[d][s] = IF s \in ChunkSectors(r, i) /\ k # BadKey
                                           THEN [val |-> << r, s - a >>, key |-> k] ELSE data[d][s]
    BY <1>12, <2>2, <2>3, <2>6, ZenonT(40)
  <2>8. Typed'
    BY <1>1, <1>2, <2>1, <2>3, <2>5, <2>7 DEF RInv, Typed, LoopTyped
  <2>9. Shaped' /\ Agrees' /\ Fresh'
    BY <1>1, <2>1, <2>3 DEF RInv, Shaped, Agrees, Fresh
  <2>10. Known'
    <3>. SUFFICES ASSUME NEW e \in Devices, NEW s \in Memory
                  PROVE  /\ ref'[e][s].key # BadKey => data'[e][s] = ref'[e][s]
                         /\ e \notin gd => ref'[e][s].key = BadKey
      BY <1>1 DEF Known
    <3>1. /\ ref[e][s].key # BadKey => data[e][s] = ref[e][s]
          /\ e \notin gd => ref[e][s].key = BadKey
      BY DEF RInv, Known
    <3>2. CASE e # d
      BY <2>5, <2>7, <3>1, <3>2
    <3>3. CASE e = d /\ s \in ChunkSectors(r, i)
      <4>1. ref'[e][s] = [val |-> << r, s - a >>, key |-> k]
        BY <2>5, <3>3
      <4>2. k # BadKey => data'[e][s] = ref'[e][s]
        BY <2>7, <3>3, <4>1
      <4>. QED
        BY <1>5, <3>3, <4>1, <4>2
    <3>4. CASE e = d /\ s \notin ChunkSectors(r, i)
      BY <1>5, <2>5, <2>7, <3>1, <3>4
    <3>. QED
      BY <3>2, <3>3, <3>4
  <2>11. OnlyOwnMemory'
    <3>. SUFFICES ASSUME NEW e \in Devices, NEW s \in Memory, e \notin gd \/ s >= size
                  PROVE  data'[e][s] = Foreign
      BY <1>1 DEF OnlyOwnMemory, size, nsectors, hardsect, S
    <3>1. data[e][s] = Foreign
      BY DEF RInv, OnlyOwnMemory
    <3>2. CASE e # d
      BY <2>7, <3>1, <3>2
    <3>3. CASE e = d
      <4>1. s >= size /\ s \in Int /\ size \in Int
        BY <1>5, <1>10, <3>3, SizeInt DEF RInv, Typed
      <4>2. s \in ChunkSectors(r, i) => k = BadKey
        BY <1>11, <2>3, <4>1
      <4>. QED
        BY <2>7, <3>1, <3>3, <4>2
    <3>. QED
      BY <3>2, <3>3
  <2>. QED
    BY <1>2, <2>8, <2>9, <2>10, <2>11 DEF RInv
<1>14. CASE req[r].kind # "write"
  <2>1. PICK W : W = [b \in 1 .. T |->
                     IF a + b - 1 \notin ChunkSectors(r, i) THEN want[r][b]
                     ELSE IF k # BadKey /\ ref[d][a + b - 1].key = k THEN ref[d][a + b - 1].val ELSE Unknown]
    OBVIOUS
  <2>2. want' = [want EXCEPT ![r] = W] /\ ref' = ref
    BY <1>3, <1>4, <1>5, <1>6, <1>12, <1>14, <2>1 DEF Record, ChunkSectors
  <2>3. PICK B : B = [b \in 1 .. T |->
                     IF a + b - 1 \in ChunkSectors(r, i) THEN Decrypt(data[d][a + b - 1], k) ELSE buffer[r][b]]
    OBVIOUS
  <2>4. data' = data /\ (k = BadKey => buffer' = buffer) /\ (k # BadKey => buffer' = [buffer EXCEPT ![r] = B])
    <3>1. Decrypted(d, r, i, k) = B
      <4>1. Decrypted(d, r, i, k) =
              [b \in DOMAIN buffer[r] |->
                 IF req[r].sector + b - 1 \in ChunkSectors(r, i) THEN Decrypt(data[d][req[r].sector + b - 1], k)
                 ELSE buffer[r][b]]
        BY <1>5, DecryptedChunk DEF RInv
      <4>. QED
        BY <1>6, <1>12, <2>3, <4>1
    <3>. QED
      BY <1>3, <1>4, <1>14, <3>1 DEF Moved
  <2>5. ASSUME NEW b \in 1 .. T PROVE a + b - 1 \in Memory
    BY <1>10
  <2>6. W \in [1 .. T -> Values]
    <3>1. ASSUME NEW b \in 1 .. T PROVE W[b] \in Values
      <4>1. ref[d][a + b - 1] \in Cells
        BY <1>12, <2>5
      <4>2. ref[d][a + b - 1].val \in Values /\ want[r][b] \in Values
        BY <1>12, <4>1 DEF Cells
      <4>. QED
        BY <2>1, <4>2, Constants
    <3>. QED
      BY <2>1, <3>1
  <2>7. B \in [1 .. T -> Values]
    <3>1. ASSUME NEW b \in 1 .. T PROVE B[b] \in Values
      <4>1. data[d][a + b - 1] \in Cells
        BY <1>12, <2>5
      <4>2. data[d][a + b - 1].val \in Values /\ buffer[r][b] \in Values
        BY <1>12, <4>1 DEF Cells
      <4>3. Decrypt(data[d][a + b - 1], k) \in Values
        BY <4>2, Constants DEF Decrypt
      <4>. QED
        BY <2>3, <4>2, <4>3
    <3>. QED
      BY <2>3, <3>1
  <2>8. W \in Buffers /\ B \in Buffers
    BY <2>6, <2>7 DEF Buffers
  <2>9. /\ want' \in Seq(Buffers) /\ Len(want') = Len(req)
        /\ want'[r] = W /\ \A x \in 1 .. Len(req) : x # r => want'[x] = want[x]
    BY <1>5, <1>12, <2>2, <2>8
  <2>10. /\ buffer' \in Seq(Buffers) /\ Len(buffer') = Len(req)
         /\ buffer'[r] = (IF k = BadKey THEN buffer[r] ELSE B)
         /\ \A x \in 1 .. Len(req) : x # r => buffer'[x] = buffer[x]
    <3>1. CASE k = BadKey
      BY <1>5, <1>12, <2>4, <3>1
    <3>2. CASE k # BadKey
      <4>1. buffer' = [buffer EXCEPT ![r] = B]
        BY <2>4, <3>2
      <4>2. /\ buffer' \in Seq(Buffers) /\ Len(buffer') = Len(req) /\ buffer'[r] = B
            /\ \A x \in 1 .. Len(req) : x # r => buffer'[x] = buffer[x]
        BY <1>5, <1>12, <2>8, <4>1
      <4>. QED
        BY <3>2, <4>2
    <3>. QED
      BY <3>1, <3>2
  <2>11. Typed'
    BY <1>1, <1>2, <1>12, <2>2, <2>4, <2>9, <2>10 DEF RInv, Typed, LoopTyped
  <2>12. Shaped'
    <3>. SUFFICES ASSUME NEW x \in 1 .. Len(req')
                  PROVE  /\ \E s \in Shapes : s[1] = req'[x].sector /\ s[2] = req'[x].chunks
                         /\ DOMAIN buffer'[x] = 1 .. Total(req'[x].chunks)
                         /\ DOMAIN want'[x] = 1 .. Total(req'[x].chunks)
      BY DEF Shaped, Total, Sum
    <3>0. req' = req
      BY <1>1
    <3>1. CASE x # r
      BY <2>9, <2>10, <3>0, <3>1 DEF RInv, Shaped
    <3>2. CASE x = r
      <4>1. DOMAIN buffer'[x] = 1 .. T /\ DOMAIN want'[x] = 1 .. T
        BY <1>12, <2>6, <2>7, <2>9, <2>10, <3>2
      <4>. QED
        BY <1>9, <3>0, <3>2, <4>1 DEF RInv, Shaped
    <3>. QED
      BY <3>1, <3>2
  <2>13. Agrees'
    <3>. SUFFICES ASSUME NEW x \in 1 .. Len(req), req[x].kind = "read",
                         NEW b \in DOMAIN want'[x], want'[x][b] # Unknown
                  PROVE  buffer'[x][b] = want'[x][b]
      BY <1>1 DEF Agrees, Unknown
    <3>1. CASE x # r
      BY <2>9, <2>10, <3>1 DEF RInv, Agrees
    <3>2. CASE x = r
      <4>1. b \in 1 .. T /\ a + b - 1 \in Memory
        BY <2>5, <2>6, <2>9, <3>2
      <4>2. want[r][b] # Unknown => buffer[r][b] = want[r][b]
        BY <1>5, <1>12, <3>2, <4>1 DEF RInv, Agrees
      <4>3. CASE a + b - 1 \notin ChunkSectors(r, i)
        BY <2>1, <2>3, <2>9, <2>10, <3>2, <4>1, <4>2, <4>3
      <4>4. CASE a + b - 1 \in ChunkSectors(r, i)
        <5>1. /\ k # BadKey /\ ref[d][a + b - 1].key = k /\ want'[x][b] = ref[d][a + b - 1].val
          BY <2>1, <2>9, <3>2, <4>1, <4>4
        <5>2. data[d][a + b - 1] = ref[d][a + b - 1]
          BY <4>1, <5>1 DEF RInv, Known
        <5>3. buffer'[x][b] = Decrypt(data[d][a + b - 1], k)
          BY <2>3, <2>10, <3>2, <4>1, <4>4, <5>1
        <5>. QED
          BY <5>1, <5>2, <5>3 DEF Decrypt
      <4>. QED
        BY <4>3, <4>4
    <3>. QED
      BY <3>1, <3>2
  <2>14. Fresh' /\ Known' /\ OnlyOwnMemory'
    BY <1>1, <2>2, <2>4 DEF RInv, Fresh, Known, OnlyOwnMemory, size, nsectors, hardsect, S
  <2>. QED
    BY <1>2, <2>11, <2>12, <2>13, <2>14 DEF RInv
<1>. QED
  BY <1>13, <1>14

(* The two ways a chunk is ended: the cipher could not be had (line 92),   *)
(* or the key was set (line 107).                                          *)
LEMMA TransferStep ==
    ASSUME RInv, NEW d \in Devices,
           AllocTfmFails(d) \/ \E k \in Keys \cup {BadKey} : Transfer(d, k)
    PROVE  RInv'
<1>1. CASE AllocTfmFails(d)
  <2>1. /\ pc[d] = "chunk" /\ EndCur(d) /\ Record(d, BadKey)
        /\ UNCHANGED << params, setup, keys, data, req, buffer >>
    BY <1>1 DEF AllocTfmFails
  <2>2. Moved(d, cur[d], at[d], BadKey)
    BY <2>1 DEF Moved
  <2>. QED
    BY <2>1, <2>2, ChunkStep
<1>2. ASSUME NEW k \in Keys \cup {BadKey}, Transfer(d, k) PROVE RInv'
  <2>1. PICK r : r = cur[d]
    OBVIOUS
  <2>2. PICK i : i = at[d]
    OBVIOUS
  <2>3. PICK m \in BOOLEAN : m = (k # BadKey /\ ~Beyond(req[r].sector + Before(r, i), req[r].chunks[i]))
    BY Zenon
  <2>4. /\ pc[d] = "setkey" /\ EndCur(d) /\ UNCHANGED << params, setup, keys, req >>
        /\ Record(d, IF m THEN k ELSE BadKey)
        /\ m /\ req[r].kind = "write" => data' = [data EXCEPT ![d] = Encrypted(d, r, i, k)] /\ buffer' = buffer
        /\ m /\ req[r].kind # "write" => buffer' = [buffer EXCEPT ![r] = Decrypted(d, r, i, k)] /\ data' = data
        /\ ~m => data' = data /\ buffer' = buffer
    BY <1>2, <2>1, <2>2, <2>3, Zenon DEF Transfer
  <2>5. cur[d] \in 1 .. Len(req) /\ at[d] \in 1 .. Len(req[cur[d]].chunks)
    BY <2>4 DEF RInv, Served
  <2>6. /\ req[r].sector \in Nat /\ Before(r, i) \in Nat /\ req[r].chunks[i] \in Nat /\ size \in Int
    BY <2>1, <2>2, <2>5, ChunkTypes, SizeInt DEF RInv, Typed
  <2>7. CASE m
    <3>1. k # BadKey /\ ~Beyond(req[r].sector + Before(r, i), req[r].chunks[i])
      BY <2>3, <2>7
    <3>2. req[r].sector + Before(r, i) + req[r].chunks[i] <= size
      BY <2>6, <3>1 DEF Beyond
    <3>3. Moved(d, cur[d], at[d], k) /\ Record(d, k)
      BY <2>1, <2>2, <2>4, <2>7, <3>1, <3>2 DEF Moved
    <3>. QED
      BY <2>4, <3>3, ChunkStep
  <2>8. CASE ~m
    <3>1. Moved(d, cur[d], at[d], BadKey) /\ Record(d, BadKey)
      BY <2>1, <2>2, <2>4, <2>8 DEF Moved
    <3>. QED
      BY <2>4, <3>1, ChunkStep
  <2>. QED
    BY <2>7, <2>8
<1>. QED
  BY <1>1, <1>2

-----------------------------------------------------------------------------
(* No request is forgotten, lost between queue and loop or served twice,   *)
(* no sector behind a disk's memory is touched and every buffer agrees     *)
(* with the disk, in each state: the invariant is inductive.               *)
THEOREM RamDiskInvariant == DiskSpec => []RInv
<1>1. RInv /\ [DiskNext]_disk_vars => RInv'
  <2>. SUFFICES ASSUME RInv, [DiskNext]_disk_vars PROVE RInv'
    OBVIOUS
  <2>1. CASE UNCHANGED disk_vars
    <3>1. UNCHANGED << module, registered, next, gd, geo, pc, cur, at, waiting, done, key, writes, freed,
                       data, req, buffer, ref, want >>
      BY <2>1 DEF disk_vars, params, setup, loop, keys, hist
    <3>2. Typed' /\ Shaped' /\ Fresh' /\ Agrees'
      BY <3>1 DEF RInv, Typed, Shaped, Fresh, Agrees
    <3>3. Served' /\ NoRequestLost'
      BY <3>1 DEF RInv, Served, NoRequestLost
    <3>4. Known' /\ OnlyOwnMemory'
      BY <3>1 DEF RInv, Known, OnlyOwnMemory, size, nsectors, hardsect, S
    <3>. QED
      BY <3>2, <3>3, <3>4 DEF RInv
  <2>2. CASE DiskNext
    <3>1. CASE (\E ok \in BOOLEAN : Register(ok)) \/ AllocFails \/ Loaded \/ Unload
      BY <3>1, SetupStep
    <3>2. CASE \E o \in {"memory", "queue", "disk", "live"} : DeviceInit(o)
      BY <3>2, DeviceInitStep
    <3>3. CASE \E k \in Keys \cup {BadKey} : WriteKey(k)
      BY <3>3, WriteKeyStep
    <3>4. ASSUME NEW d \in Devices, NEW s \in Shapes, NEW kind \in {"read", "write", "other"}, Submit(d, s, kind)
          PROVE  RInv'
      BY <3>4, SubmitStep DEF Kinds
    <3>5. ASSUME NEW d \in Devices, Serve(d) PROVE RInv'
      BY <3>5, LoopStep, TransferStep DEF Serve
    <3>. QED
      BY <2>2, <3>1, <3>2, <3>3, <3>4, <3>5 DEF DiskNext
  <2>. QED
    BY <2>1, <2>2
<1>. QED
  BY <1>1, InitInv, PTL DEF DiskSpec

(* The types of the module, and that each loop is at a chunk of a request. *)
THEOREM DiskTypeCorrect == DiskSpec => []DiskTypeOK
<1>1. RInv => DiskTypeOK
  <2>. SUFFICES ASSUME RInv PROVE DiskTypeOK
    OBVIOUS
  <2>1. req \in Seq(RequestRecords) /\ DOMAIN req = 1 .. Len(req)
    BY DEF RInv, Typed
  <2>2. ASSUME NEW d \in Devices
        PROVE  /\ pc[d] \in {"idle", "chunk", "setkey", "stuck"}
               /\ waiting[d] \subseteq DOMAIN req \ done
               /\ pc[d] # "idle" => at[d] \in DOMAIN req[cur[d]].chunks
    <3>1. pc[d] \in {"idle", "chunk", "setkey", "stuck"} /\ waiting[d] \subseteq DOMAIN req \ done
      BY <2>1 DEF RInv, Typed, Served
    <3>2. ASSUME pc[d] # "idle" PROVE at[d] \in DOMAIN req[cur[d]].chunks
      <4>1. cur[d] \in 1 .. Len(req) /\ at[d] \in 1 .. Len(req[cur[d]].chunks)
        BY <3>2 DEF RInv, Served
      <4>2. req[cur[d]].chunks \in Seq(Nat)
        BY <4>1, ChunkTypes DEF RInv
      <4>. QED
        BY <4>1, <4>2
    <3>. QED
      BY <3>1, <3>2
  <2>. QED
    BY <2>1, <2>2 DEF RInv, Typed, DiskTypeOK
<1>. QED
  BY <1>1, RamDiskInvariant, PTL

(* ReadsBack for any geometry, shapes, page size and order of chunks and   *)
(* keys: a completed read holds what was last written (lines 83-214).      *)
THEOREM ReadsBackThm == DiskSpec => []ReadsBack
<1>1. RInv => ReadsBack
  BY DEF RInv, Typed, Agrees, ReadsBack
<1>. QED
  BY <1>1, RamDiskInvariant, PTL

(* OnlyOwnMemory, for every geometry whose size overflows an int: line 134 *)
(* keeps each chunk within the memory that was allocated.                  *)
THEOREM OnlyOwnMemoryThm == DiskSpec => []OnlyOwnMemory
<1>1. RInv => OnlyOwnMemory
  BY DEF RInv
<1>. QED
  BY <1>1, RamDiskInvariant, PTL

(* NoRequestLost for any number of requests, in any order of arrival.      *)
THEOREM NoRequestLostThm == DiskSpec => []NoRequestLost
<1>1. RInv => NoRequestLost
  BY DEF RInv
<1>. QED
  BY <1>1, RamDiskInvariant, PTL

-----------------------------------------------------------------------------
(* Sizes in units.                                                         *)

LEMMA UnitDivision ==
    ASSUME NEW s \in Nat
    PROVE  /\ SLOB_UNIT \in Nat \ {0}
           /\ Units(s) \in Nat /\ SLOB_UNIT * Units(s) >= s
           /\ SLOB_UNIT * Units(s) < s + SLOB_UNIT
<1>1. SLOB_UNIT \in Nat \ {0}
  BY SlobAssumption
<1>. DEFINE a == s + SLOB_UNIT - 1
<1>2. a \in Nat
  BY <1>1
<1>. HIDE DEF a
<1>. DEFINE q == a \div SLOB_UNIT
<1>. DEFINE m == a % SLOB_UNIT
<1>3. q \in Nat /\ m \in Nat /\ m < SLOB_UNIT /\ a = SLOB_UNIT * q + m
  BY <1>1, <1>2
<1>4. Units(s) = q
  BY DEF Units, a
<1>. HIDE DEF q, m
<1>. QED
  BY <1>1, <1>3, <1>4 DEF a

(* A larger block has as many units, and one that is not empty has some.   *)
LEMMA UnitsGrow ==
    ASSUME NEW s \in Nat, NEW t \in Nat, s <= t
    PROVE  Units(s) <= Units(t) /\ (s > 0 => Units(s) >= 1)
<1>1. PICK U \in Nat \ {0} : U = SLOB_UNIT
  BY UnitDivision
<1>2. PICK x \in Nat : x = Units(s)
  BY UnitDivision
<1>3. PICK y \in Nat : y = Units(t)
  BY UnitDivision
<1>4. U * x < s + U /\ U * y >= t /\ U * x >= s
  BY <1>1, <1>2, <1>3, UnitDivision
<1>5. x <= y
  <2>. SUFFICES ASSUME x >= y + 1 PROVE FALSE
    OBVIOUS
  <2>1. PICK z \in Nat : x = y + 1 + z
    <3>1. x - y - 1 \in Nat /\ x = y + 1 + (x - y - 1)
      OBVIOUS
    <3>. QED
      BY <3>1
  <2>2. U * (y + 1 + z) = U * y + U + U * z /\ U * z \in Nat /\ U * y \in Nat
    OBVIOUS
  <2>. QED
    BY <1>4, <2>1, <2>2
<1>6. s > 0 => x >= 1
  <2>1. U * 0 = 0
    OBVIOUS
  <2>. QED
    BY <1>4, <2>1
<1>. QED
  BY <1>2, <1>3, <1>5, <1>6

LEMMA SlobConstants ==
    /\ PageUnits \in Nat \ {0} /\ PAGE_SIZE \in Nat \ {0} /\ KmallocAlign \in Nat \ {0} /\ CacheAlign \in Nat
    /\ NULL \notin Nat
    /\ \A s \in 1 .. PAGE_SIZE - 1 : Units(s) \in 1 .. PageUnits
<1>1. PAGE_SIZE \in Nat \ {0} /\ KmallocAlign \in Nat \ {0} /\ CacheAlign \in Nat /\ NULL \notin Nat
  BY SlobAssumption
<1>2. PageUnits \in Nat \ {0}
  <2>1. PAGE_SIZE \in Nat /\ PAGE_SIZE <= PAGE_SIZE /\ PAGE_SIZE > 0
    BY <1>1
  <2>2. Units(PAGE_SIZE) \in Nat /\ Units(PAGE_SIZE) >= 1
    BY <2>1, UnitDivision, UnitsGrow
  <2>. QED
    BY <2>2 DEF PageUnits
<1>3. ASSUME NEW s \in 1 .. PAGE_SIZE - 1 PROVE Units(s) \in 1 .. PageUnits
  <2>1. s \in Nat /\ s <= PAGE_SIZE /\ s > 0
    BY <1>1
  <2>2. Units(s) \in Nat /\ Units(s) <= PageUnits /\ Units(s) >= 1
    BY <1>1, <2>1, UnitDivision, UnitsGrow DEF PageUnits
  <2>. QED
    BY <1>2, <2>2
<1>. QED
  BY <1>1, <1>2, <1>3

(* A block is moved up by a number of units, the first not at all.         *)
LEMMA DeltaProps ==
    ASSUME NEW o \in Nat, NEW a \in Nat
    PROVE  Delta(o, a) \in Nat /\ Delta(0, a) = 0
<1>1. CASE a = 0
  BY <1>1 DEF Delta
<1>2. CASE a # 0
  <2>1. PICK k \in Nat \ {0} : k = Units(a)
    BY <1>2, UnitDivision, UnitsGrow
  <2>2. (-o) % k \in Nat /\ (-0) % k = 0
    <3>1. -o \in Int
      OBVIOUS
    <3>2. \A x \in Int : x % k \in Nat
      OBVIOUS
    <3>3. \A x \in Int : x = 0 => (-x) % k = 0
      OBVIOUS
    <3>. QED
      BY <3>1, <3>2, <3>3
  <2>. QED
    BY <1>2, <2>1, <2>2 DEF Delta
<1>. QED
  BY <1>1, <1>2

-----------------------------------------------------------------------------
(* The list of free blocks of a page.                                      *)

PageMemory == [0 .. PageUnits - 1 -> -PageUnits .. PageUnits]

(* From first on, the memory m is a list of the free blocks at F, in the   *)
(* order of their addresses, and no two of them touch.                     *)
Chain(m, first, F) ==
    /\ F \subseteq 0 .. PageUnits - 1
    /\ first \in F \cup {PageUnits}
    /\ \A o \in F : first <= o
    /\ \A o \in F :
         /\ m[o] \notin {0, 1}
         /\ SlobNext(m, o) \in F \cup {PageUnits}
         /\ o + SlobUnits(m, o) <= SlobNext(m, o)
         /\ o + SlobUnits(m, o) < SlobNext(m, o) \/ SlobNext(m, o) = PageUnits
         /\ \A q \in F : q <= o \/ SlobNext(m, o) <= q

(* The units of the blocks at F.                                           *)
Covers(m, F) == UNION {o .. o + SlobUnits(m, o) - 1 : o \in F}

(* set_slob writes the block, and nothing outside of it.                   *)
LEMMA SetSlobProps ==
    ASSUME NEW m \in PageMemory, NEW s \in 0 .. PageUnits - 1, NEW n \in Nat \ {0}, s + n <= PageUnits,
           NEW x \in 1 .. PageUnits
    PROVE  /\ SetSlob(m, s, n, x) \in PageMemory
           /\ SetSlob(m, s, n, x)[s] \notin {0, 1}
           /\ SlobUnits(SetSlob(m, s, n, x), s) = n
           /\ SlobNext(SetSlob(m, s, n, x), s) = x
           /\ \A o \in 0 .. PageUnits - 1 : o \notin s .. s + n - 1 => SetSlob(m, s, n, x)[o] = m[o]
<1>0. PageUnits \in Nat \ {0}
  BY SlobConstants
<1>1. CASE n > 1
  <2>1. SetSlob(m, s, n, x) = [m EXCEPT ![s] = n, ![s + 1] = x]
    BY <1>1 DEF SetSlob
  <2>2. s + 1 \in 0 .. PageUnits - 1 /\ n \in -PageUnits .. PageUnits /\ x \in -PageUnits .. PageUnits
    BY <1>0, <1>1
  <2>3. /\ SetSlob(m, s, n, x) \in PageMemory
        /\ SetSlob(m, s, n, x)[s] = n /\ SetSlob(m, s, n, x)[s + 1] = x
        /\ \A o \in 0 .. PageUnits - 1 : o # s /\ o # s + 1 => SetSlob(m, s, n, x)[o] = m[o]
    BY <1>0, <2>1, <2>2 DEF PageMemory
  <2>. HIDE DEF PageMemory
  <2>4. SlobUnits(SetSlob(m, s, n, x), s) = n /\ SlobNext(SetSlob(m, s, n, x), s) = x
    BY <1>1, <2>3 DEF SlobUnits, SlobNext
  <2>. QED
    BY <1>0, <1>1, <2>3, <2>4
<1>2. CASE n = 1
  <2>1. SetSlob(m, s, n, x) = [m EXCEPT ![s] = -x]
    BY <1>2 DEF SetSlob
  <2>2. -x \in -PageUnits .. PageUnits /\ -x < 0 /\ x = -(-x)
    BY <1>0
  <2>3. /\ SetSlob(m, s, n, x) \in PageMemory
        /\ SetSlob(m, s, n, x)[s] = -x
        /\ \A o \in 0 .. PageUnits - 1 : o # s => SetSlob(m, s, n, x)[o] = m[o]
    BY <1>0, <2>1, <2>2 DEF PageMemory
  <2>4. SlobUnits(SetSlob(m, s, n, x), s) = n /\ SlobNext(SetSlob(m, s, n, x), s) = x
    BY <1>2, <2>2, <2>3 DEF SlobUnits, SlobNext
  <2>. QED
    BY <1>0, <1>2, <2>2, <2>3, <2>4
<1>. QED
  BY <1>1, <1>2

(* A block is read from its own units.                                     *)
LEMMA SameBlock ==
    ASSUME NEW m \in PageMemory, NEW M \in PageMemory, NEW o \in 0 .. PageUnits - 1, m[o] \notin {0, 1},
           o + SlobUnits(m, o) <= PageUnits,
           \A q \in 0 .. PageUnits - 1 : q \in o .. o + SlobUnits(m, o) - 1 => M[q] = m[q]
    PROVE  /\ SlobUnits(m, o) \in Nat \ {0}
           /\ M[o] = m[o] /\ SlobUnits(M, o) = SlobUnits(m, o) /\ SlobNext(M, o) = SlobNext(m, o)
<1>0. PageUnits \in Nat \ {0}
  BY SlobConstants
<1>1. m[o] \in -PageUnits .. PageUnits
  BY DEF PageMemory
<1>2. SlobUnits(m, o) \in Nat \ {0}
  BY <1>0, <1>1 DEF SlobUnits
<1>3. M[o] = m[o]
  BY <1>0, <1>2
<1>4. SlobUnits(M, o) = SlobUnits(m, o)
  BY <1>3 DEF SlobUnits
<1>5. CASE m[o] < 0
  BY <1>2, <1>3, <1>4, <1>5 DEF SlobNext
<1>6. CASE m[o] > 1
  <2>1. SlobUnits(m, o) = m[o] /\ o + 1 \in 0 .. PageUnits - 1 /\ o + 1 \in o .. o + SlobUnits(m, o) - 1
    BY <1>0, <1>1, <1>6 DEF SlobUnits
  <2>2. M[o + 1] = m[o + 1]
    BY <2>1
  <2>3. SlobNext(M, o) = M[o + 1] /\ SlobNext(m, o) = m[o + 1]
    BY <1>1, <1>3, <1>6 DEF SlobNext
  <2>. QED
    BY <1>2, <1>3, <1>4, <2>2, <2>3
<1>. QED
  BY <1>0, <1>1, <1>2, <1>3, <1>4, <1>5, <1>6

LEMMA ChainTypes ==
    ASSUME NEW m \in PageMemory, NEW first, NEW F, Chain(m, first, F)
    PROVE  /\ first \in 0 .. PageUnits /\ F \in SUBSET Nat
           /\ \A o \in F : /\ o \in 0 .. PageUnits - 1
                           /\ SlobUnits(m, o) \in Nat \ {0} /\ o + SlobUnits(m, o) <= PageUnits
                           /\ SlobNext(m, o) \in 1 .. PageUnits /\ o < SlobNext(m, o)
<1>0. PageUnits \in Nat \ {0}
  BY SlobConstants
<1>1. F \in SUBSET (0 .. PageUnits - 1) /\ F \in SUBSET Nat /\ first \in 0 .. PageUnits
  BY <1>0 DEF Chain
<1>2. ASSUME NEW o \in F
      PROVE  /\ o \in 0 .. PageUnits - 1
             /\ SlobUnits(m, o) \in Nat \ {0} /\ o + SlobUnits(m, o) <= PageUnits
             /\ SlobNext(m, o) \in 1 .. PageUnits /\ o < SlobNext(m, o)
  <2>1. o \in 0 .. PageUnits - 1 /\ m[o] \in -PageUnits .. PageUnits /\ m[o] # 0
    BY <1>1 DEF PageMemory, Chain
  <2>2. SlobUnits(m, o) \in Nat \ {0}
    BY <1>0, <2>1 DEF SlobUnits
  <2>3. SlobNext(m, o) \in F \cup {PageUnits} /\ o + SlobUnits(m, o) <= SlobNext(m, o)
    BY DEF Chain
  <2>4. PICK x : x = SlobNext(m, o)
    OBVIOUS
  <2>5. x \in 0 .. PageUnits
    <3>1. x \in F \/ x = PageUnits
      BY <2>3, <2>4
    <3>2. x \in F => x \in 0 .. PageUnits - 1
      BY <1>1
    <3>. QED
      BY <1>0, <3>1, <3>2
  <2>6. PICK n \in Nat \ {0} : n = SlobUnits(m, o)
    BY <2>2
  <2>7. o + n <= x
    BY <2>3, <2>4, <2>6
  <2>8. x \in 1 .. PageUnits /\ o < x /\ o + n <= PageUnits
    BY <1>0, <2>1, <2>5, <2>6, <2>7
  <2>. QED
    BY <2>1, <2>2, <2>4, <2>6, <2>8
<1>. QED
  BY <1>1, <1>2

(* The blocks of a list are apart.                                         *)
LEMMA Apart ==
    ASSUME NEW m \in PageMemory, NEW first, NEW F, Chain(m, first, F), NEW o \in F, NEW q \in F, o < q
    PROVE  o + SlobUnits(m, o) < q /\ SlobNext(m, o) <= q
<1>1. /\ o \in Nat /\ q \in Nat /\ q < PageUnits /\ PageUnits \in Nat
      /\ SlobUnits(m, o) \in Nat /\ SlobNext(m, o) \in Nat
  BY ChainTypes, SlobConstants
<1>2. SlobNext(m, o) <= q
  BY <1>1 DEF Chain
<1>3. o + SlobUnits(m, o) < SlobNext(m, o) \/ SlobNext(m, o) = PageUnits
  BY DEF Chain
<1>. QED
  BY <1>1, <1>2, <1>3

-----------------------------------------------------------------------------
(* FreeOffsets finds the blocks of a list.                                 *)

(* f is the walk along the list.                                           *)
IsWalk(f, m, first, n) ==
    f = [i \in 0 .. n |-> IF i = 0 THEN first
                          ELSE IF f[i - 1] = PageUnits THEN PageUnits
                          ELSE SlobNext(m, f[i - 1])]

LEMMA WalkExists ==
    ASSUME NEW m, NEW first, NEW n \in Nat
    PROVE  \E f : IsWalk(f, m, first, n)
<1>. DEFINE P == {k \in 0 .. n : \E f : IsWalk(f, m, first, k)}
<1>1. 0 \in P
  <2>1. IsWalk([i \in 0 .. 0 |-> first], m, first, 0)
    BY DEF IsWalk
  <2>. QED
    BY <2>1
<1>2. ASSUME NEW k \in 0 .. n, k \in P, k < n PROVE k + 1 \in P
  <2>1. PICK f : IsWalk(f, m, first, k)
    BY <1>2
  <2>2. PICK new : new = IF f[k] = PageUnits THEN PageUnits ELSE SlobNext(m, f[k])
    OBVIOUS
  <2>3. PICK g : g = [i \in 0 .. k + 1 |-> IF i = k + 1 THEN new ELSE f[i]]
    OBVIOUS
  <2>4. k \in Nat
    OBVIOUS
  <2>5. ASSUME NEW i \in 0 .. k + 1
        PROVE  g[i] = IF i = 0 THEN first
                      ELSE IF g[i - 1] = PageUnits THEN PageUnits ELSE SlobNext(m, g[i - 1])
    <3>1. CASE i = k + 1
      BY <2>2, <2>3, <2>4, <3>1
    <3>2. CASE i \in 0 .. k
      <4>1. f[i] = IF i = 0 THEN first
                   ELSE IF f[i - 1] = PageUnits THEN PageUnits ELSE SlobNext(m, f[i - 1])
        BY <2>1, <3>2 DEF IsWalk
      <4>. QED
        BY <2>3, <2>4, <3>2, <4>1
    <3>. QED
      BY <2>4, <3>1, <3>2
  <2>6. g = [i \in 0 .. k + 1 |-> IF i = 0 THEN first
                      ELSE IF g[i - 1] = PageUnits THEN PageUnits ELSE SlobNext(m, g[i - 1])]
    BY <2>3, <2>5
  <2>7. IsWalk(g, m, first, k + 1) /\ k + 1 \in 0 .. n
    BY <1>2, <2>4, <2>6 DEF IsWalk
  <2>. QED
    BY <2>7
<1>3. \A k \in 0 .. n : k \in P /\ k < n => k + 1 \in P
  BY <1>2
<1>4. n \in P
  <2>. HIDE DEF P
  <2>1. \A k \in 0 .. n : k \in P
    BY <1>1, <1>3, Upward
  <2>. QED
    BY <2>1
<1>. QED
  BY <1>4

(* The greatest member below a bound.                                      *)
LEMMA GreatestBelow ==
    ASSUME NEW SS \in SUBSET Nat, NEW n \in Nat, SS # {}, \A x \in SS : x <= n
    PROVE  \E x \in SS : \A y \in SS : y <= x
<1>. DEFINE T == {n - x : x \in SS}
<1>1. T \in SUBSET Nat /\ T # {}
  <2>1. ASSUME NEW x \in SS PROVE n - x \in Nat
    <3>1. x \in Nat /\ x <= n
      OBVIOUS
    <3>. QED
      BY <3>1
  <2>. QED
    BY <2>1
<1>2. PICK d \in T : \A e \in T : d <= e
  BY <1>1, LeastNatural
<1>3. PICK x \in SS : d = n - x
  BY <1>2
<1>4. ASSUME NEW y \in SS PROVE y <= x
  <2>1. n - y \in T /\ x \in Nat /\ y \in Nat
    OBVIOUS
  <2>2. d <= n - y
    BY <1>2, <2>1
  <2>. QED
    BY <1>3, <2>1, <2>2
<1>. QED
  BY <1>4

(* The walk comes to all the blocks, and to nothing else.                  *)
LEMMA WalkFinds ==
    ASSUME NEW m \in PageMemory, NEW first, NEW F, Chain(m, first, F), NEW f, IsWalk(f, m, first, PageUnits)
    PROVE  {f[n] : n \in 0 .. PageUnits} \ {PageUnits} = F
<1>0. PageUnits \in Nat \ {0}
  BY SlobConstants
<1>1. /\ f[0] = first
      /\ \A n \in 0 .. PageUnits : n # 0 =>
            f[n] = IF f[n - 1] = PageUnits THEN PageUnits ELSE SlobNext(m, f[n - 1])
  BY <1>0 DEF IsWalk
<1>2. /\ first \in F \cup {PageUnits}
      /\ \A o \in F : /\ o \in Nat /\ o < PageUnits /\ first <= o /\ o < SlobNext(m, o)
                      /\ SlobNext(m, o) \in F \cup {PageUnits} /\ SlobNext(m, o) \in Nat
  <2>1. first \in F \cup {PageUnits} /\ \A o \in F : first <= o /\ SlobNext(m, o) \in F \cup {PageUnits}
    BY DEF Chain
  <2>2. \A o \in F : /\ o \in 0 .. PageUnits - 1
                     /\ SlobNext(m, o) \in 1 .. PageUnits /\ o < SlobNext(m, o)
    BY ChainTypes
  <2>3. \A o \in F : o \in Nat /\ o < PageUnits /\ SlobNext(m, o) \in Nat
    BY <1>0, <2>2
  <2>. QED
    BY <2>1, <2>2, <2>3
<1>. DEFINE P == {n \in Nat : f[n] \in F \cup {PageUnits} /\ (f[n] \in F => n <= f[n])}
<1>3. 0 \in P
  BY <1>1, <1>2
<1>4. ASSUME NEW n \in 0 .. PageUnits, n \in P, n < PageUnits PROVE n + 1 \in P
  <2>1. n + 1 \in 0 .. PageUnits /\ n + 1 # 0 /\ (n + 1) - 1 = n /\ n \in Nat
    BY <1>0, <1>4
  <2>2. f[n + 1] = IF f[n] = PageUnits THEN PageUnits ELSE SlobNext(m, f[n])
    BY <1>1, <2>1
  <2>3. CASE f[n] = PageUnits
    <3>1. f[n + 1] = PageUnits /\ PageUnits \notin F
      BY <1>0, <1>2, <2>2, <2>3
    <3>. QED
      BY <2>1, <3>1
  <2>4. CASE f[n] # PageUnits
    <3>1. f[n] \in F /\ n <= f[n] /\ f[n + 1] = SlobNext(m, f[n])
      BY <1>4, <2>2, <2>4
    <3>2. f[n + 1] \in F \cup {PageUnits} /\ f[n] < f[n + 1] /\ f[n] \in Nat /\ f[n + 1] \in Nat
      BY <1>2, <3>1
    <3>3. n + 1 <= f[n + 1]
      BY <2>1, <3>1, <3>2
    <3>. QED
      BY <2>1, <3>2, <3>3
  <2>. QED
    BY <2>3, <2>4
<1>5. \A n \in 0 .. PageUnits : n \in P
  <2>1. \A n \in 0 .. PageUnits : n \in P /\ n < PageUnits => n + 1 \in P
    BY <1>4
  <2>. HIDE DEF P
  <2>. QED
    BY <1>0, <1>3, <2>1, Upward
<1>6. {f[n] : n \in 0 .. PageUnits} \ {PageUnits} \subseteq F
  BY <1>5
<1>. DEFINE Missed == {o \in F : \A n \in 0 .. PageUnits : f[n] # o}
<1>7. Missed = {}
  <2>. SUFFICES ASSUME Missed # {} PROVE FALSE
    OBVIOUS
  <2>1. Missed \in SUBSET Nat
    BY <1>2
  <2>2. PICK o \in Missed : \A q \in Missed : o <= q
    BY <2>1, LeastNatural
  <2>3. o \in F /\ o # first /\ first \in F /\ first < o /\ o \in Nat
    <3>1. 0 \in 0 .. PageUnits
      BY <1>0
    <3>2. o # first /\ o \in F
      BY <1>1, <2>2, <3>1
    <3>. QED
      BY <1>0, <1>2, <3>2
  <2>. DEFINE L == {q \in F : q < o}
  <2>4. PICK q \in L : \A x \in L : x <= q
    <3>1. L \in SUBSET Nat /\ L # {} /\ \A x \in L : x <= o
      <4>1. first \in L
        BY <2>3
      <4>2. \A x \in F : x \in Nat
        BY <1>2
      <4>3. ASSUME NEW x \in L PROVE x \in Nat /\ x <= o
        <5>1. x \in Nat /\ x < o
          BY <4>2
        <5>. QED
          BY <2>3, <5>1
      <4>. HIDE DEF L
      <4>. QED
        BY <4>1, <4>3
    <3>. HIDE DEF L
    <3>. QED
      BY <2>3, <3>1, GreatestBelow
  <2>5. q \in F /\ q < o /\ q \in Nat /\ q \notin Missed
    BY <1>2, <2>2, <2>4
  <2>6. PICK n \in 0 .. PageUnits : f[n] = q
    BY <2>5
  <2>7. SlobNext(m, q) = o
    <3>1. SlobNext(m, q) <= o /\ q < SlobNext(m, q) /\ SlobNext(m, q) \in Nat
      BY <1>2, <2>3, <2>5 DEF Chain
    <3>2. SlobNext(m, q) \in F
      BY <1>0, <1>2, <2>3, <2>5, <3>1
    <3>3. ~(SlobNext(m, q) < o)
      BY <2>4, <2>5, <3>1, <3>2
    <3>. QED
      BY <2>3, <3>1, <3>3
  <2>8. n <= q /\ n + 1 \in 0 .. PageUnits
    <3>1. n \in P
      BY <1>5
    <3>2. n <= q /\ n \in Nat
      BY <2>5, <2>6, <3>1
    <3>. QED
      BY <1>0, <1>2, <2>3, <2>5, <3>2
  <2>9. f[n + 1] = o
    <3>1. n + 1 # 0 /\ (n + 1) - 1 = n /\ f[n] # PageUnits
      BY <1>0, <1>2, <2>5, <2>6
    <3>. QED
      BY <1>1, <2>6, <2>7, <2>8, <3>1
  <2>. QED
    BY <2>2, <2>8, <2>9
<1>8. F \subseteq {f[n] : n \in 0 .. PageUnits} \ {PageUnits}
  BY <1>0, <1>2, <1>7
<1>. QED
  BY <1>6, <1>8

LEMMA ChainOffsets ==
    ASSUME NEW p, mem[p] \in PageMemory, NEW F, Chain(mem[p], free[p], F)
    PROVE  FreeOffsets(p) = F
<1>1. PICK f : f = CHOOSE g : IsWalk(g, mem[p], free[p], PageUnits)
  OBVIOUS
<1>2. IsWalk(f, mem[p], free[p], PageUnits)
  BY <1>1, WalkExists, SlobConstants
<1>3. FreeOffsets(p) = {f[n] : n \in 0 .. PageUnits} \ {PageUnits}
  BY <1>1 DEF FreeOffsets, IsWalk
<1>. QED
  BY <1>2, <1>3, WalkFinds

-----------------------------------------------------------------------------
(* The part of a list from s up to the block at hi is replaced by the      *)
(* blocks at G: s is a block that stays where it is, or is 0 where all the *)
(* blocks in front of hi are replaced.                                     *)
Replaces(m, first, F, M, new, s, hi, G) ==
    /\ s \in 0 .. PageUnits /\ hi \in F \cup {PageUnits} /\ G \in SUBSET (s .. hi - 1)
    /\ \/ s \in F /\ s \in G /\ new = first
       \/ s = 0 /\ new \in G \cup {hi} /\ \A g \in G : new <= g
    /\ \A q \in 0 .. PageUnits - 1 : q < s \/ q >= hi => M[q] = m[q]
    /\ \A g \in G :
          /\ M[g] \notin {0, 1} /\ SlobNext(M, g) \in G \cup {hi}
          /\ g + SlobUnits(M, g) <= SlobNext(M, g)
          /\ g + SlobUnits(M, g) < SlobNext(M, g) \/ SlobNext(M, g) = PageUnits
          /\ \A q \in G : q <= g \/ SlobNext(M, g) <= q

Kept(F, s, hi) == {o \in F : o < s \/ o >= hi}

Spliced(m, F, M, new, s, hi, G) ==
    /\ Chain(M, new, Kept(F, s, hi) \cup G)
    /\ \A o \in Kept(F, s, hi) : SlobUnits(M, o) = SlobUnits(m, o)

LEMMA Splice ==
    ASSUME NEW m \in PageMemory, NEW first, NEW F, Chain(m, first, F),
           NEW M \in PageMemory, NEW new, NEW s, NEW hi, NEW G, Replaces(m, first, F, M, new, s, hi, G)
    PROVE  Spliced(m, F, M, new, s, hi, G)
<1>. USE DEF Replaces
<1>0. PageUnits \in Nat \ {0} /\ s \in Nat /\ hi \in Nat /\ hi <= PageUnits
  <2>1. PageUnits \in Nat \ {0} /\ \A o \in F : o \in 0 .. PageUnits - 1
    BY SlobConstants, ChainTypes
  <2>. QED
    BY <2>1
<1>1. /\ first \in F \cup {PageUnits} /\ first \in Nat
      /\ \A o \in F : /\ o \in Nat /\ o < PageUnits /\ first <= o /\ m[o] \notin {0, 1}
                      /\ SlobUnits(m, o) \in Nat \ {0} /\ o + SlobUnits(m, o) <= PageUnits
                      /\ SlobNext(m, o) \in Nat /\ o < SlobNext(m, o) /\ SlobNext(m, o) \in F \cup {PageUnits}
                      /\ o + SlobUnits(m, o) <= SlobNext(m, o)
                      /\ o + SlobUnits(m, o) < SlobNext(m, o) \/ SlobNext(m, o) = PageUnits
                      /\ \A q \in F : q <= o \/ SlobNext(m, o) <= q
  <2>1. /\ first \in F \cup {PageUnits} /\ first \in 0 .. PageUnits
        /\ \A o \in F : /\ first <= o /\ m[o] \notin {0, 1}
                        /\ SlobNext(m, o) \in F \cup {PageUnits}
                        /\ o + SlobUnits(m, o) <= SlobNext(m, o)
                        /\ o + SlobUnits(m, o) < SlobNext(m, o) \/ SlobNext(m, o) = PageUnits
                        /\ \A q \in F : q <= o \/ SlobNext(m, o) <= q
    BY ChainTypes DEF Chain
  <2>2. \A o \in F : /\ o \in 0 .. PageUnits - 1
                     /\ SlobUnits(m, o) \in Nat \ {0} /\ o + SlobUnits(m, o) <= PageUnits
                     /\ SlobNext(m, o) \in 1 .. PageUnits /\ o < SlobNext(m, o)
    BY ChainTypes
  <2>3. \A o \in F : o \in Nat /\ o < PageUnits /\ SlobNext(m, o) \in Nat
    BY <1>0, <2>2
  <2>4. first \in Nat
    BY <1>0, <2>1
  <2>. QED
    BY <2>1, <2>2, <2>3, <2>4
<1>. DEFINE K == {o \in F : o < s \/ o >= hi}
<1>2. \A g \in G : g \in Nat /\ s <= g /\ g < hi
  BY <1>0
<1>3. ASSUME NEW o \in K
      PROVE  /\ M[o] = m[o] /\ SlobUnits(M, o) = SlobUnits(m, o) /\ SlobNext(M, o) = SlobNext(m, o)
             /\ o < s => SlobNext(m, o) <= s /\ s \in F /\ s \in G
  <2>1. o < s => s \in F /\ s \in G /\ SlobNext(m, o) <= s /\ o + SlobUnits(m, o) <= s
    <3>. SUFFICES ASSUME o < s PROVE s \in F /\ s \in G /\ SlobNext(m, o) <= s /\ o + SlobUnits(m, o) <= s
      OBVIOUS
    <3>1. o \in F /\ o \in Nat
      BY <1>1
    <3>2. s \in F /\ s \in G
      BY <1>0, <3>1
    <3>3. SlobNext(m, o) <= s
      BY <1>0, <1>1, <3>1, <3>2
    <3>. QED
      BY <1>0, <1>1, <3>1, <3>2, <3>3
  <2>2. \A q \in 0 .. PageUnits - 1 : q \in o .. o + SlobUnits(m, o) - 1 => M[q] = m[q]
    <3>. SUFFICES ASSUME NEW q \in 0 .. PageUnits - 1, q \in o .. o + SlobUnits(m, o) - 1 PROVE q < s \/ q >= hi
      OBVIOUS
    <3>1. o \in Nat /\ SlobUnits(m, o) \in Nat /\ (o < s \/ o >= hi)
      BY <1>1
    <3>2. PICK n \in Nat : n = SlobUnits(m, o)
      BY <3>1
    <3>3. o < s => o + n <= s
      BY <2>1, <3>2
    <3>4. q >= o /\ q < o + n
      BY <3>1, <3>2
    <3>. QED
      BY <1>0, <3>1, <3>3, <3>4
  <2>3. o \in 0 .. PageUnits - 1 /\ m[o] \notin {0, 1} /\ o + SlobUnits(m, o) <= PageUnits
    BY <1>0, <1>1
  <2>. QED
    BY <2>1, <2>2, <2>3, SameBlock
<1>. DEFINE F1 == K \cup G
<1>4. F1 \subseteq 0 .. PageUnits - 1
  <2>1. \A o \in K : o \in Nat /\ o < PageUnits
    BY <1>1
  <2>2. \A o \in G : o \in Nat /\ o < PageUnits
    BY <1>0, <1>2
  <2>3. \A o \in F1 : o \in Nat /\ o < PageUnits
    BY <2>1, <2>2
  <2>. HIDE DEF F1
  <2>. QED
    BY <1>0, <2>3
<1>5. new \in F1 \cup {PageUnits} /\ \A o \in F1 : new <= o
  <2>1. CASE s \in F /\ s \in G /\ new = first
    <3>1. first \in K \cup {s}
      <4>1. first <= s /\ first # PageUnits
        BY <1>0, <1>1, <2>1
      <4>. QED
        BY <1>0, <1>1, <4>1
    <3>2. \A g \in G : first <= g
      BY <1>0, <1>1, <1>2, <2>1
    <3>. QED
      BY <1>1, <2>1, <3>1, <3>2
  <2>2. CASE s = 0 /\ new \in G \cup {hi} /\ \A g \in G : new <= g
    <3>1. hi \in K \cup {PageUnits} /\ \A o \in K : o >= hi
      BY <1>0, <1>1, <2>2
    <3>2. new \in Nat /\ new <= hi
      BY <1>0, <1>2, <2>2
    <3>. QED
      BY <1>0, <1>1, <2>2, <3>1, <3>2
  <2>. QED
    BY <2>1, <2>2
<1>6. ASSUME NEW o \in F1
      PROVE  /\ M[o] \notin {0, 1}
             /\ SlobNext(M, o) \in F1 \cup {PageUnits}
             /\ o + SlobUnits(M, o) <= SlobNext(M, o)
             /\ o + SlobUnits(M, o) < SlobNext(M, o) \/ SlobNext(M, o) = PageUnits
             /\ \A q \in F1 : q <= o \/ SlobNext(M, o) <= q
  <2>1. CASE o \in K
    <3>1. /\ M[o] \notin {0, 1}
          /\ o + SlobUnits(M, o) <= SlobNext(M, o)
          /\ o + SlobUnits(M, o) < SlobNext(M, o) \/ SlobNext(M, o) = PageUnits
      BY <1>1, <1>3, <2>1
    <3>2. SlobNext(M, o) = SlobNext(m, o) /\ o \in F /\ o \in Nat /\ SlobNext(m, o) \in Nat /\ o < SlobNext(m, o)
      BY <1>1, <1>3, <2>1
    <3>3. CASE o < s
      <4>1. SlobNext(m, o) <= s /\ s \in G
        BY <1>3, <2>1, <3>3
      <4>2. SlobNext(m, o) \in F \/ SlobNext(m, o) = PageUnits
        BY <1>1, <3>2
      <4>3. SlobNext(m, o) \in F1 \cup {PageUnits}
        BY <1>0, <3>2, <4>1, <4>2
      <4>4. \A q \in G : SlobNext(m, o) <= q
        BY <1>0, <1>2, <3>2, <4>1
      <4>5. \A q \in K : q <= o \/ SlobNext(m, o) <= q
        BY <1>1, <3>2
      <4>. QED
        BY <3>1, <3>2, <4>3, <4>4, <4>5
    <3>4. CASE o >= hi
      <4>1. SlobNext(m, o) \in F \/ SlobNext(m, o) = PageUnits
        BY <1>1, <3>2
      <4>2. SlobNext(m, o) >= hi
        BY <1>0, <3>2, <3>4
      <4>3. SlobNext(m, o) \in F1 \cup {PageUnits}
        BY <4>1, <4>2
      <4>4. \A q \in G : q <= o
        BY <1>0, <1>2, <3>2, <3>4
      <4>5. \A q \in K : q <= o \/ SlobNext(m, o) <= q
        BY <1>1, <3>2
      <4>. QED
        BY <3>1, <3>2, <4>3, <4>4, <4>5
    <3>. QED
      BY <2>1, <3>3, <3>4
  <2>2. CASE o \in G
    <3>1. /\ M[o] \notin {0, 1} /\ SlobNext(M, o) \in G \cup {hi}
          /\ o + SlobUnits(M, o) <= SlobNext(M, o)
          /\ o + SlobUnits(M, o) < SlobNext(M, o) \/ SlobNext(M, o) = PageUnits
          /\ \A q \in G : q <= o \/ SlobNext(M, o) <= q
      BY <2>2
    <3>2. hi \in K \cup {PageUnits}
      BY <1>0
    <3>3. SlobNext(M, o) \in Nat /\ SlobNext(M, o) <= hi
      <4>1. CASE SlobNext(M, o) = hi
        BY <1>0, <4>1
      <4>2. CASE SlobNext(M, o) \in G
        <5>1. PICK x \in G : x = SlobNext(M, o)
          BY <4>2
        <5>2. x \in Nat /\ x < hi
          BY <1>2
        <5>3. x <= hi
          BY <1>0, <5>2
        <5>. QED
          BY <5>1, <5>2, <5>3
      <4>. QED
        BY <3>1, <4>1, <4>2
    <3>4. ASSUME NEW q \in K PROVE q <= o \/ SlobNext(M, o) <= q
      <4>1. q \in Nat /\ (q < s \/ q >= hi)
        BY <1>1
      <4>2. o \in Nat /\ s <= o
        BY <1>2, <2>2
      <4>. QED
        BY <1>0, <3>3, <4>1, <4>2
    <3>. QED
      BY <3>1, <3>2, <3>4
  <2>. QED
    BY <2>1, <2>2
<1>7. Chain(M, new, F1)
  BY <1>4, <1>5, <1>6 DEF Chain
<1>. QED
  BY <1>3, <1>7 DEF Kept, Spliced

-----------------------------------------------------------------------------
(* slob_page_alloc: what Carve leaves in the memory.                       *)

(* The block at o has n units and is followed by the one at x.             *)
Cell(m, o, n, x) == m[o] \notin {0, 1} /\ SlobUnits(m, o) = n /\ SlobNext(m, o) = x

Rest(c, u, a, x) == IF a = u THEN x ELSE c + u

(* The units c .. c + u - 1 are taken from a block of a units.             *)
LinkRest(m, before, c, u, a, x) ==
    IF before = NULL THEN m ELSE SetSlob(m, before, SlobUnits(m, before), Rest(c, u, a, x))
KeepRest(m, c, u, a, x) == IF a = u THEN m ELSE SetSlob(m, c + u, a - u, x)
TakeUnits(m, c, u) == [o \in 0 .. PageUnits - 1 |-> IF o \in c .. c + u - 1 THEN Data ELSE m[o]]

(* A block is read from its own units.                                     *)
LEMMA SameCell ==
    ASSUME NEW m \in PageMemory, NEW M \in PageMemory, NEW o \in 0 .. PageUnits - 1, NEW n \in Nat, NEW x,
           Cell(m, o, n, x), o + n <= PageUnits,
           \A q \in 0 .. PageUnits - 1 : q >= o /\ q < o + n => M[q] = m[q]
    PROVE  Cell(M, o, n, x)
<1>1. m[o] \notin {0, 1} /\ o + SlobUnits(m, o) <= PageUnits /\ SlobUnits(m, o) = n /\ SlobNext(m, o) = x
  BY DEF Cell
<1>2. \A q \in 0 .. PageUnits - 1 : q \in o .. o + SlobUnits(m, o) - 1 => M[q] = m[q]
  BY <1>1
<1>3. M[o] = m[o] /\ SlobUnits(M, o) = SlobUnits(m, o) /\ SlobNext(M, o) = SlobNext(m, o)
  BY <1>1, <1>2, SameBlock
<1>. QED
  BY <1>1, <1>3 DEF Cell

LEMMA SetCell ==
    ASSUME NEW m \in PageMemory, NEW s \in 0 .. PageUnits - 1, NEW n \in Nat \ {0}, s + n <= PageUnits,
           NEW x \in 1 .. PageUnits
    PROVE  /\ SetSlob(m, s, n, x) \in PageMemory
           /\ Cell(SetSlob(m, s, n, x), s, n, x)
           /\ \A o \in 0 .. PageUnits - 1 : o < s \/ o >= s + n => SetSlob(m, s, n, x)[o] = m[o]
<1>1. /\ SetSlob(m, s, n, x) \in PageMemory
      /\ Cell(SetSlob(m, s, n, x), s, n, x)
      /\ \A o \in 0 .. PageUnits - 1 : o \notin s .. s + n - 1 => SetSlob(m, s, n, x)[o] = m[o]
  BY SetSlobProps DEF Cell
<1>2. \A o \in 0 .. PageUnits - 1 : o < s \/ o >= s + n => o \notin s .. s + n - 1
  OBVIOUS
<1>. QED
  BY <1>1, <1>2

LEMMA TakeTail ==
    ASSUME NEW m \in PageMemory, NEW c \in 0 .. PageUnits - 1, NEW a \in Nat, NEW u \in Nat \ {0}, u <= a,
           NEW x \in 1 .. PageUnits, c + a <= x, NEW before,
           \/ before = NULL
           \/ /\ before # NULL /\ before \in 0 .. PageUnits - 1 /\ SlobUnits(m, before) \in Nat \ {0}
              /\ before + SlobUnits(m, before) <= c
    PROVE  LET M == TakeUnits(KeepRest(LinkRest(m, before, c, u, a, x), c, u, a, x), c, u)
           IN  /\ M \in PageMemory
               /\ before # NULL => Cell(M, before, SlobUnits(m, before), Rest(c, u, a, x))
               /\ a # u => Cell(M, c + u, a - u, x)
               /\ \A q \in 0 .. PageUnits - 1 :
                     /\ q < c \/ q >= c + a
                     /\ before # NULL => q < before \/ q >= before + SlobUnits(m, before)
                     => M[q] = m[q]
<1>. DEFINE M == TakeUnits(KeepRest(LinkRest(m, before, c, u, a, x), c, u, a, x), c, u)
<1>a. PICK nb : nb = IF before = NULL THEN 1 ELSE SlobUnits(m, before)
  OBVIOUS
<1>b. /\ nb \in Nat \ {0}
      /\ \/ before = NULL
         \/ before # NULL /\ before \in 0 .. PageUnits - 1 /\ before + nb <= c /\ SlobUnits(m, before) = nb
  BY <1>a
<1>0. PageUnits \in Nat \ {0}
  BY SlobConstants
<1>1. PICK r \in 1 .. PageUnits : r = Rest(c, u, a, x)
  <2>1. Rest(c, u, a, x) \in 1 .. PageUnits
    BY <1>0 DEF Rest
  <2>. QED
    BY <2>1
<1>2. PICK m2 : m2 = LinkRest(m, before, c, u, a, x)
  OBVIOUS
<1>3. /\ m2 \in PageMemory /\ (before # NULL => Cell(m2, before, nb, r))
      /\ \A q \in 0 .. PageUnits - 1 : (before # NULL => q < before \/ q >= before + nb) => m2[q] = m[q]
  <2>1. CASE before = NULL
    BY <1>2, <2>1 DEF LinkRest
  <2>2. CASE before # NULL
    <3>1. before \in 0 .. PageUnits - 1 /\ before + nb <= PageUnits /\ m2 = SetSlob(m, before, nb, r)
      BY <1>0, <1>1, <1>2, <1>b, <2>2 DEF LinkRest
    <3>. QED
      BY <1>1, <1>b, <2>2, <3>1, SetCell
  <2>. QED
    BY <2>1, <2>2
<1>4. PICK m3 : m3 = KeepRest(m2, c, u, a, x)
  OBVIOUS
<1>5. /\ m3 \in PageMemory /\ (a # u => Cell(m3, c + u, a - u, x))
      /\ \A q \in 0 .. PageUnits - 1 : q < c + u \/ q >= c + a => m3[q] = m2[q]
  <2>1. CASE a = u
    BY <1>3, <1>4, <2>1 DEF KeepRest
  <2>2. CASE a # u
    <3>1. c + u \in 0 .. PageUnits - 1 /\ a - u \in Nat \ {0} /\ (c + u) + (a - u) <= PageUnits
          /\ (c + u) + (a - u) = c + a /\ m3 = SetSlob(m2, c + u, a - u, x)
      BY <1>0, <1>4, <2>2 DEF KeepRest
    <3>. QED
      BY <1>3, <2>2, <3>1, SetCell
  <2>. QED
    BY <2>1, <2>2
<1>6. M = TakeUnits(m3, c, u)
  BY <1>2, <1>4
<1>. HIDE DEF M
<1>7. /\ M \in PageMemory
      /\ \A q \in 0 .. PageUnits - 1 : q < c \/ q >= c + u => M[q] = m3[q]
  <2>1. Data \in -PageUnits .. PageUnits
    BY <1>0 DEF Data
  <2>2. M \in PageMemory
    BY <1>5, <1>6, <2>1 DEF TakeUnits, PageMemory
  <2>3. \A q \in 0 .. PageUnits - 1 : q < c \/ q >= c + u => q \notin c .. c + u - 1
    OBVIOUS
  <2>. QED
    BY <1>6, <2>2, <2>3 DEF TakeUnits
<1>8. before # NULL => Cell(M, before, nb, r)
  <2>. SUFFICES ASSUME before # NULL PROVE Cell(M, before, nb, r)
    OBVIOUS
  <2>1. before \in 0 .. PageUnits - 1 /\ before + nb <= c /\ before + nb <= PageUnits /\ nb \in Nat
    BY <1>0, <1>b
  <2>2. \A q \in 0 .. PageUnits - 1 : q >= before /\ q < before + nb => q < c /\ q < c + u
    BY <2>1
  <2>3. \A q \in 0 .. PageUnits - 1 : q >= before /\ q < before + nb => M[q] = m2[q]
    BY <1>5, <1>7, <2>2
  <2>4. Cell(m2, before, nb, r)
    BY <1>3
  <2>. QED
    BY <1>3, <1>7, <2>1, <2>3, <2>4, SameCell
<1>9. a # u => Cell(M, c + u, a - u, x)
  <2>. SUFFICES ASSUME a # u PROVE Cell(M, c + u, a - u, x)
    OBVIOUS
  <2>1. c + u \in 0 .. PageUnits - 1 /\ a - u \in Nat /\ (c + u) + (a - u) <= PageUnits
    BY <1>0
  <2>2. \A q \in 0 .. PageUnits - 1 : q >= c + u /\ q < (c + u) + (a - u) => M[q] = m3[q]
    BY <1>7
  <2>3. Cell(m3, c + u, a - u, x)
    BY <1>5
  <2>. QED
    BY <1>5, <1>7, <2>1, <2>2, <2>3, SameCell
<1>10. ASSUME NEW q \in 0 .. PageUnits - 1, q < c \/ q >= c + a, before # NULL => q < before \/ q >= before + nb
       PROVE  M[q] = m[q]
  <2>1. M[q] = m3[q]
    BY <1>0, <1>7, <1>10
  <2>2. m3[q] = m2[q]
    BY <1>0, <1>5, <1>10
  <2>3. m2[q] = m[q]
    BY <1>3, <1>10
  <2>. QED
    BY <2>1, <2>2, <2>3
<1>. QED
  BY <1>1, <1>b, <1>7, <1>8, <1>9, <1>10 DEF M

(* The head of the block is split off where the alignment asks for it.     *)
SplitHead(m, blk, d) ==
    IF d = 0 THEN m
    ELSE SetSlob(SetSlob(m, blk + d, SlobUnits(m, blk) - d, SlobNext(m, blk)), blk, d, blk + d)

(* c is what is left of the block at blk, of n units and followed by x,    *)
(* once the u units behind its first d have gone.                          *)
IsCarved(c, m, first, blk, n, x, prev, u, d) ==
    /\ c.off = blk + d /\ c.mem \in PageMemory
    /\ c.free = IF d = 0 /\ prev = NULL THEN Rest(blk + d, u, n - d, x) ELSE first
    /\ d # 0 => Cell(c.mem, blk, d, Rest(blk + d, u, n - d, x))
    /\ d = 0 /\ prev # NULL => Cell(c.mem, prev, SlobUnits(m, prev), Rest(blk + d, u, n - d, x))
    /\ n - d # u => Cell(c.mem, blk + d + u, n - d - u, x)
    /\ \A q \in 0 .. PageUnits - 1 :
          /\ q < blk \/ q >= blk + n
          /\ d = 0 /\ prev # NULL => q < prev \/ q >= prev + SlobUnits(m, prev)
          => c.mem[q] = m[q]

LEMMA CarveCells ==
    ASSUME NEW m \in PageMemory, NEW first, NEW blk \in 0 .. PageUnits - 1, NEW n \in Nat, NEW x \in 1 .. PageUnits,
           Cell(m, blk, n, x), blk + n <= x, NEW u \in Nat \ {0}, NEW d \in Nat, u + d <= n,
           NEW prev,
           \/ prev = NULL
           \/ /\ prev # NULL /\ prev \in 0 .. PageUnits - 1 /\ SlobUnits(m, prev) \in Nat \ {0}
              /\ prev + SlobUnits(m, prev) <= blk
    PROVE  IsCarved(Carve(m, first, blk, prev, u, d), m, first, blk, n, x, prev, u, d)
<1>. DEFINE c == Carve(m, first, blk, prev, u, d)
<1>. HIDE DEF c
<1>a. PICK np : np = IF prev = NULL THEN 1 ELSE SlobUnits(m, prev)
  OBVIOUS
<1>b. /\ np \in Nat \ {0}
      /\ \/ prev = NULL
         \/ prev # NULL /\ prev \in 0 .. PageUnits - 1 /\ prev + np <= blk /\ SlobUnits(m, prev) = np
  BY <1>a
<1>0. PageUnits \in Nat \ {0} /\ NULL \notin Nat
  BY SlobConstants
<1>1. SlobUnits(m, blk) = n /\ SlobNext(m, blk) = x
  BY DEF Cell
<1>2. PICK before : before = IF d = 0 THEN prev ELSE blk
  OBVIOUS
<1>3. PICK nb \in Nat \ {0} : nb = IF d = 0 THEN np ELSE d
  <2>1. (IF d = 0 THEN np ELSE d) \in Nat \ {0}
    BY <1>b
  <2>. QED
    BY <2>1
<1>4. PICK m1 : m1 = SplitHead(m, blk, d)
  OBVIOUS
<1>5. blk + d \in 0 .. PageUnits - 1 /\ n - d \in Nat /\ u <= n - d /\ (blk + d) + (n - d) <= x
      /\ (blk + d) + (n - d) = blk + n /\ n - d \in Nat \ {0}
  BY <1>0
<1>6. /\ m1 \in PageMemory /\ SlobUnits(m1, blk + d) = n - d /\ SlobNext(m1, blk + d) = x
      /\ \A q \in 0 .. PageUnits - 1 : q < blk \/ q >= blk + n => m1[q] = m[q]
      /\ d # 0 => SlobUnits(m1, blk) = d
      /\ d = 0 => m1 = m
  <2>1. CASE d = 0
    BY <1>1, <1>4, <2>1 DEF SplitHead
  <2>2. CASE d # 0
    <3>1. PICK k : k = SetSlob(m, blk + d, n - d, x)
      OBVIOUS
    <3>2. (blk + d) + (n - d) <= PageUnits /\ blk + d <= PageUnits /\ d \in Nat \ {0} /\ blk + d \in 1 .. PageUnits
      BY <1>0, <1>5, <2>2
    <3>3. /\ k \in PageMemory /\ Cell(k, blk + d, n - d, x)
          /\ \A q \in 0 .. PageUnits - 1 : q < blk + d \/ q >= (blk + d) + (n - d) => k[q] = m[q]
      BY <1>5, <3>1, <3>2, SetCell
    <3>4. m1 = SetSlob(k, blk, d, blk + d)
      BY <1>1, <1>4, <2>2, <3>1 DEF SplitHead
    <3>5. /\ m1 \in PageMemory /\ Cell(m1, blk, d, blk + d)
          /\ \A q \in 0 .. PageUnits - 1 : q < blk \/ q >= blk + d => m1[q] = k[q]
      BY <3>2, <3>3, <3>4, SetCell
    <3>6. Cell(m1, blk + d, n - d, x)
      <4>1. \A q \in 0 .. PageUnits - 1 : q >= blk + d /\ q < (blk + d) + (n - d) => m1[q] = k[q]
        BY <3>5
      <4>. QED
        BY <1>5, <3>2, <3>3, <3>5, <4>1, SameCell
    <3>7. ASSUME NEW q \in 0 .. PageUnits - 1, q < blk \/ q >= blk + n PROVE m1[q] = m[q]
      <4>1. (q < blk \/ q >= blk + d) /\ (q < blk + d \/ q >= (blk + d) + (n - d))
        BY <1>5, <3>7
      <4>. QED
        BY <3>3, <3>5, <4>1
    <3>8. SlobUnits(m1, blk + d) = n - d /\ SlobNext(m1, blk + d) = x /\ SlobUnits(m1, blk) = d
      BY <3>5, <3>6 DEF Cell
    <3>. QED
      BY <2>2, <3>5, <3>7, <3>8
  <2>. QED
    BY <2>1, <2>2
<1>7. /\ \/ before = NULL
         \/ /\ before # NULL /\ before \in 0 .. PageUnits - 1 /\ SlobUnits(m1, before) \in Nat \ {0}
            /\ before + SlobUnits(m1, before) <= blk + d
      /\ before # NULL => SlobUnits(m1, before) = nb
  BY <1>0, <1>2, <1>3, <1>6, <1>b
<1>8. PICK M : M = TakeUnits(KeepRest(LinkRest(m1, before, blk + d, u, n - d, x), blk + d, u, n - d, x), blk + d, u)
  OBVIOUS
<1>9. c = [off |-> blk + d, free |-> IF before = NULL THEN Rest(blk + d, u, n - d, x) ELSE first, mem |-> M]
  <2>1. m1 = IF d = 0 THEN m
             ELSE SetSlob(SetSlob(m, blk + d, SlobUnits(m, blk) - d, SlobNext(m, blk)), blk, d, blk + d)
    BY <1>4 DEF SplitHead
  <2>2. DOMAIN m = 0 .. PageUnits - 1
    BY DEF PageMemory
  <2>3. Rest(blk + d, u, n - d, x) = IF SlobUnits(m1, blk + d) = u THEN SlobNext(m1, blk + d) ELSE blk + d + u
    BY <1>6 DEF Rest
  <2>4. LinkRest(m1, before, blk + d, u, n - d, x) =
          IF before = NULL THEN m1 ELSE SetSlob(m1, before, SlobUnits(m1, before), Rest(blk + d, u, n - d, x))
    BY DEF LinkRest
  <2>5. \A k : KeepRest(k, blk + d, u, n - d, x) =
          IF SlobUnits(m1, blk + d) = u THEN k
          ELSE SetSlob(k, blk + d + u, SlobUnits(m1, blk + d) - u, SlobNext(m1, blk + d))
    BY <1>6 DEF KeepRest
  <2>6. M = [o \in DOMAIN m |-> IF o \in blk + d .. blk + d + u - 1 THEN Data
                                ELSE KeepRest(LinkRest(m1, before, blk + d, u, n - d, x), blk + d, u, n - d, x)[o]]
    BY <1>8, <2>2 DEF TakeUnits
  <2>. QED
    BY <1>2, <2>1, <2>3, <2>4, <2>5, <2>6 DEF Carve, c
<1>10. /\ M \in PageMemory
       /\ before # NULL => Cell(M, before, nb, Rest(blk + d, u, n - d, x))
       /\ n - d # u => Cell(M, (blk + d) + u, (n - d) - u, x)
       /\ \A q \in 0 .. PageUnits - 1 :
             /\ q < blk + d \/ q >= (blk + d) + (n - d)
             /\ before # NULL => q < before \/ q >= before + nb
             => M[q] = m1[q]
  <2>1. PICK e \in 0 .. PageUnits - 1 : e = blk + d
    BY <1>5
  <2>2. PICK a \in Nat : a = n - d
    BY <1>5
  <2>3. u <= a /\ e + a <= x
    BY <1>5, <2>1, <2>2
  <2>4. \/ before = NULL
        \/ /\ before # NULL /\ before \in 0 .. PageUnits - 1 /\ SlobUnits(m1, before) \in Nat \ {0}
           /\ before + SlobUnits(m1, before) <= e
    BY <1>7, <2>1
  <2>5. M = TakeUnits(KeepRest(LinkRest(m1, before, e, u, a, x), e, u, a, x), e, u)
    BY <1>8, <2>1, <2>2
  <2>6. /\ M \in PageMemory
        /\ before # NULL => Cell(M, before, SlobUnits(m1, before), Rest(e, u, a, x))
        /\ a # u => Cell(M, e + u, a - u, x)
        /\ \A q \in 0 .. PageUnits - 1 :
              /\ q < e \/ q >= e + a
              /\ before # NULL => q < before \/ q >= before + SlobUnits(m1, before)
              => M[q] = m1[q]
    <3>1. m1 \in PageMemory
      BY <1>6
    <3>. QED
      BY <2>3, <2>4, <2>5, <3>1, TakeTail
  <2>. QED
    BY <1>7, <2>1, <2>2, <2>6
<1>11. ASSUME NEW q \in 0 .. PageUnits - 1, q < blk \/ q >= blk + n,
              d = 0 /\ prev # NULL => q < prev \/ q >= prev + np
       PROVE  M[q] = m[q]
  <2>1. m1[q] = m[q]
    BY <1>6, <1>11
  <2>2. q < blk + d \/ q >= (blk + d) + (n - d)
    BY <1>5, <1>11
  <2>3. before # NULL => q < before \/ q >= before + nb
    BY <1>2, <1>3, <1>5, <1>11
  <2>. QED
    BY <1>10, <2>1, <2>2, <2>3
<1>12. c.off = blk + d /\ c.mem = M /\ c.free = IF before = NULL THEN Rest(blk + d, u, n - d, x) ELSE first
  BY <1>9
<1>13. blk # NULL
  BY <1>0
<1>14. c.free = IF d = 0 /\ prev = NULL THEN Rest(blk + d, u, n - d, x) ELSE first
  BY <1>2, <1>12, <1>13
<1>15. (d # 0 => before = blk /\ nb = d /\ before # NULL) /\ (d = 0 => before = prev /\ nb = np)
  BY <1>2, <1>3, <1>13
<1>. QED
  BY <1>b, <1>10, <1>11, <1>12, <1>14, <1>15 DEF c, IsCarved

LEMMA InCovers ==
    ASSUME NEW m, NEW F \in SUBSET Nat, \A o \in F : SlobUnits(m, o) \in Nat, NEW y
    PROVE  y \in Covers(m, F) <=> y \in Nat /\ \E o \in F : o <= y /\ y < o + SlobUnits(m, o)
<1>1. ASSUME NEW o \in F
      PROVE  y \in o .. o + SlobUnits(m, o) - 1 <=> y \in Nat /\ o <= y /\ y < o + SlobUnits(m, o)
  <2>1. o \in Nat
    OBVIOUS
  <2>2. PICK n \in Nat : n = SlobUnits(m, o)
    OBVIOUS
  <2>3. y \in o .. o + n - 1 <=> y \in Nat /\ o <= y /\ y < o + n
    BY <2>1
  <2>. QED
    BY <2>2, <2>3
<1>2. y \in Covers(m, F) <=> \E o \in F : y \in o .. o + SlobUnits(m, o) - 1
  BY DEF Covers
<1>. QED
  BY <1>1, <1>2

(* prev is the last block of F in front of s, or NULL.                     *)
IsPrev(F, s, prev) ==
    \/ prev = NULL /\ \A o \in F : s <= o
    \/ prev \in F /\ prev < s /\ \A o \in F : o <= prev \/ s <= o

(* The free units in front of s and from hi on, where s and hi are ends of *)
(* blocks.                                                                 *)
LEMMA KeptCovers ==
    ASSUME NEW m \in PageMemory, NEW first, NEW F, Chain(m, first, F), NEW s \in Nat, s = 0 \/ s \in F,
           NEW hi \in F \cup {PageUnits}, NEW y \in Nat
    PROVE  (\E o \in Kept(F, s, hi) : o <= y /\ y < o + SlobUnits(m, o)) <=> y \in Covers(m, F) /\ (y < s \/ y >= hi)
<1>0. PageUnits \in Nat \ {0}
  BY SlobConstants
<1>1. /\ F \in SUBSET Nat
      /\ \A o \in F : o \in Nat /\ SlobUnits(m, o) \in Nat /\ o + SlobUnits(m, o) <= PageUnits
  BY ChainTypes
<1>2. y \in Covers(m, F) <=> \E o \in F : o <= y /\ y < o + SlobUnits(m, o)
  BY <1>1, InCovers
<1>3. hi \in Nat /\ \A o \in F : o < s => o + SlobUnits(m, o) <= s
  <2>1. ASSUME NEW o \in F, o < s PROVE o + SlobUnits(m, o) <= s
    <3>1. s \in F /\ o \in Nat /\ SlobUnits(m, o) \in Nat
      BY <1>1, <2>1
    <3>2. o + SlobUnits(m, o) < s
      BY <2>1, <3>1, Apart
    <3>. QED
      BY <3>1, <3>2
  <2>. QED
    BY <1>0, <1>1, <2>1
<1>4. \A o \in F : o < hi => o + SlobUnits(m, o) <= hi
  <2>. SUFFICES ASSUME NEW o \in F, o < hi PROVE o + SlobUnits(m, o) <= hi
    OBVIOUS
  <2>1. o \in Nat /\ SlobUnits(m, o) \in Nat /\ o + SlobUnits(m, o) <= PageUnits
    BY <1>1
  <2>2. CASE hi \in F
    <3>1. o + SlobUnits(m, o) < hi
      BY <2>2, Apart
    <3>. QED
      BY <1>3, <2>1, <3>1
  <2>. QED
    BY <2>1, <2>2
<1>5. ASSUME NEW o \in Kept(F, s, hi), o <= y, y < o + SlobUnits(m, o) PROVE y \in Covers(m, F) /\ (y < s \/ y >= hi)
  <2>1. o \in F /\ (o < s \/ o >= hi) /\ o \in Nat /\ SlobUnits(m, o) \in Nat
    BY <1>1 DEF Kept
  <2>2. y \in Covers(m, F)
    BY <1>2, <1>5, <2>1
  <2>. QED
    BY <1>3, <1>5, <2>1, <2>2
<1>6. ASSUME y \in Covers(m, F), y < s \/ y >= hi PROVE \E o \in Kept(F, s, hi) : o <= y /\ y < o + SlobUnits(m, o)
  <2>1. PICK o \in F : o <= y /\ y < o + SlobUnits(m, o)
    BY <1>2, <1>6
  <2>2. o \in Nat /\ SlobUnits(m, o) \in Nat
    BY <1>1
  <2>3. o < s \/ o >= hi
    BY <1>3, <1>4, <1>6, <2>1, <2>2
  <2>4. o \in Kept(F, s, hi)
    BY <2>3 DEF Kept
  <2>. QED
    BY <2>1, <2>4
<1>. QED
  BY <1>5, <1>6

(* Between a block and the next one, the block's own units are free; in    *)
(* front of the first block none is.                                       *)
LEMMA BlockCovers ==
    ASSUME NEW m \in PageMemory, NEW first, NEW F, Chain(m, first, F), NEW y \in Nat
    PROVE  /\ \A o \in F : o <= y /\ y < SlobNext(m, o) => (y \in Covers(m, F) <=> y < o + SlobUnits(m, o))
           /\ y < first => y \notin Covers(m, F)
           /\ y >= PageUnits => y \notin Covers(m, F)
<1>0. PageUnits \in Nat \ {0}
  BY SlobConstants
<1>1. /\ F \in SUBSET Nat /\ first \in 0 .. PageUnits
      /\ \A o \in F : o \in Nat /\ SlobUnits(m, o) \in Nat /\ o + SlobUnits(m, o) <= PageUnits
  BY ChainTypes
<1>2. y \in Covers(m, F) <=> \E o \in F : o <= y /\ y < o + SlobUnits(m, o)
  BY <1>1, InCovers
<1>3. \A o \in F : first <= o
  BY DEF Chain
<1>4. ASSUME NEW o \in F, o <= y, y < SlobNext(m, o), y \in Covers(m, F) PROVE y < o + SlobUnits(m, o)
  <2>1. PICK q \in F : q <= y /\ y < q + SlobUnits(m, q)
    BY <1>2, <1>4
  <2>2. o \in Nat /\ q \in Nat /\ SlobUnits(m, q) \in Nat /\ SlobNext(m, o) \in Nat
    BY <1>1, ChainTypes
  <2>3. ~(o < q)
    <3>. SUFFICES ASSUME o < q PROVE FALSE
      OBVIOUS
    <3>1. SlobNext(m, o) <= q
      BY Apart
    <3>. QED
      BY <1>4, <2>1, <2>2, <3>1
  <2>4. ~(q < o)
    <3>. SUFFICES ASSUME q < o PROVE FALSE
      OBVIOUS
    <3>1. q + SlobUnits(m, q) < o
      BY Apart
    <3>. QED
      BY <1>4, <2>1, <2>2, <3>1
  <2>5. o = q
    BY <2>2, <2>3, <2>4
  <2>. QED
    BY <2>1, <2>5
<1>5. y < first => y \notin Covers(m, F)
  <2>1. ASSUME y < first, NEW o \in F, o <= y PROVE FALSE
    <3>1. first <= o /\ o \in Nat /\ first \in Nat
      BY <1>0, <1>1, <1>3
    <3>. QED
      BY <2>1, <3>1
  <2>. QED
    BY <1>2, <2>1
<1>6. y >= PageUnits => y \notin Covers(m, F)
  <2>1. ASSUME y >= PageUnits, NEW o \in F, y < o + SlobUnits(m, o) PROVE FALSE
    <3>1. o + SlobUnits(m, o) <= PageUnits /\ o \in Nat /\ SlobUnits(m, o) \in Nat
      BY <1>1
    <3>. QED
      BY <1>0, <2>1, <3>1
  <2>. QED
    BY <1>2, <2>1
<1>. QED
  BY <1>2, <1>4, <1>5, <1>6

(* From s to hi the list now holds a block of k units at s and one of b    *)
(* units at t; there is none at s if k is 0, and none at t if b is 0.      *)
Patch(m, first, F, M, new, s, k, t, b, hi) ==
    /\ {s, k, t, b} \subseteq Nat /\ hi \in F \cup {PageUnits} /\ s <= hi
    /\ k = 0 => s = 0 /\ new = IF b = 0 THEN hi ELSE t
    /\ k # 0 => s \in F /\ s < hi /\ new = first /\ Cell(M, s, k, IF b = 0 THEN hi ELSE t)
    /\ k # 0 /\ b = 0 => s + k < hi \/ (s + k = hi /\ hi = PageUnits)
    /\ k # 0 /\ b # 0 => s + k < t
    /\ b # 0 => Cell(M, t, b, hi) /\ (t + b < hi \/ (t + b = hi /\ hi = PageUnits))
    /\ \A q \in 0 .. PageUnits - 1 : q < s \/ q >= hi => M[q] = m[q]

(* The list is a list still, of what Patched says.                         *)
Patched(C, U, s, k, t, b, hi) ==
    /\ U \in SUBSET Nat
    /\ \A y \in Nat : y \in U <=> \/ y \in C /\ (y < s \/ y >= hi)
                                  \/ s <= y /\ y < s + k
                                  \/ t <= y /\ y < t + b

LEMMA PatchChain ==
    ASSUME NEW m \in PageMemory, NEW first, NEW F, Chain(m, first, F), NEW M \in PageMemory, NEW new,
           NEW s, NEW k, NEW t, NEW b, NEW hi, Patch(m, first, F, M, new, s, k, t, b, hi)
    PROVE  \E F1 : Chain(M, new, F1) /\ Patched(Covers(m, F), Covers(M, F1), s, k, t, b, hi)
<1>0. PageUnits \in Nat \ {0} /\ \A o \in F : o \in Nat /\ o < PageUnits /\ first <= o
  <2>1. PageUnits \in Nat \ {0}
    BY SlobConstants
  <2>2. \A o \in F : o \in 0 .. PageUnits - 1 /\ first <= o
    BY ChainTypes DEF Chain
  <2>. QED
    BY <2>1, <2>2
<1>1. /\ s \in Nat /\ k \in Nat /\ t \in Nat /\ b \in Nat /\ hi \in Nat /\ hi <= PageUnits
      /\ hi \in F \cup {PageUnits} /\ s <= hi
      /\ \A q \in 0 .. PageUnits - 1 : q < s \/ q >= hi => M[q] = m[q]
  BY <1>0 DEF Patch
<1>2. /\ k = 0 => s = 0 /\ new = IF b = 0 THEN hi ELSE t
      /\ k # 0 => s \in F /\ s < hi /\ new = first /\ Cell(M, s, k, IF b = 0 THEN hi ELSE t)
      /\ k # 0 /\ b = 0 => s + k < hi \/ (s + k = hi /\ hi = PageUnits)
      /\ k # 0 /\ b # 0 => s + k < t
      /\ b # 0 => Cell(M, t, b, hi) /\ (t + b < hi \/ (t + b = hi /\ hi = PageUnits))
  BY DEF Patch
<1>. DEFINE H == IF k = 0 THEN {} ELSE {s}
            T == IF b = 0 THEN {} ELSE {t}
            G == H \cup T
<1>3. PICK x : x = IF b = 0 THEN hi ELSE t
  OBVIOUS
<1>4. x \in T \cup {hi} /\ x \in Nat /\ x <= hi /\ (T # {} => x = t)
  BY <1>1, <1>2, <1>3
<1>5. \A g \in H : /\ g = s /\ k # 0 /\ M[g] \notin {0, 1} /\ SlobUnits(M, g) = k /\ SlobNext(M, g) = x
                   /\ s + k < x \/ (s + k = x /\ x = PageUnits)
  BY <1>2, <1>3 DEF Cell
<1>6. \A g \in T : /\ g = t /\ b # 0 /\ M[g] \notin {0, 1} /\ SlobUnits(M, g) = b /\ SlobNext(M, g) = hi
                   /\ t + b < hi \/ (t + b = hi /\ hi = PageUnits)
  BY <1>2 DEF Cell
<1>7. (s \in H /\ s \in F /\ new = first) \/ (s = 0 /\ H = {} /\ new = x)
  BY <1>2, <1>3
<1>8. (b # 0 => t \in T) /\ (k # 0 => s \in H)
  OBVIOUS
<1>. HIDE DEF H, T
<1>9. Replaces(m, first, F, M, new, s, hi, G)
  <2>1. \A g \in G : g \in Nat /\ g >= s /\ g < hi
    <3>1. \A g \in H : g \in Nat /\ g >= s /\ g < hi
      BY <1>1, <1>2, <1>5
    <3>2. \A g \in T : g \in Nat /\ g >= s /\ g < hi
      BY <1>1, <1>2, <1>6
    <3>. QED
      BY <3>1, <3>2
  <2>2. G \in SUBSET (s .. hi - 1)
    <3>. HIDE DEF G
    <3>. QED
      BY <1>1, <2>1
  <2>3. ASSUME NEW g \in G
        PROVE  /\ M[g] \notin {0, 1} /\ SlobNext(M, g) \in G \cup {hi}
               /\ g + SlobUnits(M, g) <= SlobNext(M, g)
               /\ g + SlobUnits(M, g) < SlobNext(M, g) \/ SlobNext(M, g) = PageUnits
               /\ \A q \in G : q <= g \/ SlobNext(M, g) <= q
    <3>1. CASE g \in H
      <4>1. \A q \in G : q <= s \/ x <= q
        <5>1. \A q \in H : q <= s
          BY <1>1, <1>5
        <5>2. \A q \in T : x <= q
          BY <1>1, <1>4, <1>6
        <5>. QED
          BY <5>1, <5>2
      <4>2. g = s /\ M[g] \notin {0, 1} /\ SlobUnits(M, g) = k /\ SlobNext(M, g) = x /\ (s + k < x \/ (s + k = x /\ x = PageUnits))
        BY <1>5, <3>1
      <4>3. x \in G \cup {hi} /\ s + k <= x /\ (s + k < x \/ x = PageUnits)
        BY <1>1, <1>4, <4>2
      <4>. QED
        BY <4>1, <4>2, <4>3
    <3>2. CASE g \in T
      <4>1. g = t /\ b # 0 /\ M[g] \notin {0, 1} /\ SlobUnits(M, g) = b /\ SlobNext(M, g) = hi /\ (t + b < hi \/ (t + b = hi /\ hi = PageUnits))
        BY <1>6, <3>2
      <4>2. t + b <= hi /\ (t + b < hi \/ hi = PageUnits)
        BY <1>1, <4>1
      <4>3. \A q \in G : q <= t
        <5>1. \A q \in H : q <= t
          BY <1>1, <1>2, <1>5, <4>1
        <5>2. \A q \in T : q <= t
          BY <1>1, <1>6
        <5>. QED
          BY <5>1, <5>2
      <4>. QED
        BY <4>1, <4>2, <4>3
    <3>. QED
      BY <3>1, <3>2
  <2>4. \/ s \in F /\ s \in G /\ new = first
        \/ s = 0 /\ new \in G \cup {hi} /\ \A g \in G : new <= g
    <3>1. CASE s \in H /\ s \in F /\ new = first
      BY <3>1
    <3>2. CASE s = 0 /\ H = {} /\ new = x
      <4>1. \A g \in T : x <= g
        BY <1>1, <1>4, <1>6
      <4>. QED
        BY <1>4, <3>2, <4>1
    <3>. QED
      BY <1>7, <3>1, <3>2
  <2>5. s \in 0 .. PageUnits
    BY <1>0, <1>1
  <2>. HIDE DEF G
  <2>. QED
    BY <1>1, <2>2, <2>3, <2>4, <2>5 DEF Replaces
<1>. HIDE DEF G
<1>10. /\ Chain(M, new, Kept(F, s, hi) \cup G)
       /\ \A o \in Kept(F, s, hi) : SlobUnits(M, o) = SlobUnits(m, o)
  <2>1. Spliced(m, F, M, new, s, hi, G)
    BY <1>9, Splice
  <2>. QED
    BY <2>1 DEF Spliced
<1>11. PICK F1 : F1 = Kept(F, s, hi) \cup G
  OBVIOUS
<1>12. Chain(M, new, F1)
  BY <1>10, <1>11
<1>13. F1 \in SUBSET Nat /\ \A o \in F1 : SlobUnits(M, o) \in Nat
  BY <1>12, ChainTypes
<1>14. \A y : y \in Covers(M, F1) <=> y \in Nat /\ \E o \in F1 : o <= y /\ y < o + SlobUnits(M, o)
  BY <1>13, InCovers
<1>15. s = 0 \/ s \in F
  BY <1>7
<1>16. ASSUME NEW y \in Nat
       PROVE  y \in Covers(M, F1) <=> \/ y \in Covers(m, F) /\ (y < s \/ y >= hi)
                                      \/ s <= y /\ y < s + k
                                      \/ t <= y /\ y < t + b
  <2>1. (\E o \in Kept(F, s, hi) : o <= y /\ y < o + SlobUnits(m, o)) <=> y \in Covers(m, F) /\ (y < s \/ y >= hi)
    BY <1>1, <1>15, KeptCovers
  <2>2. (\E o \in Kept(F, s, hi) : o <= y /\ y < o + SlobUnits(M, o)) <=> y \in Covers(m, F) /\ (y < s \/ y >= hi)
    BY <1>10, <2>1
  <2>3. (\E o \in H : o <= y /\ y < o + SlobUnits(M, o)) <=> s <= y /\ y < s + k
    <3>1. CASE k = 0
      BY <1>1, <1>5, <3>1
    <3>2. CASE k # 0
      BY <1>5, <1>8, <3>2
    <3>. QED
      BY <3>1, <3>2
  <2>4. (\E o \in T : o <= y /\ y < o + SlobUnits(M, o)) <=> t <= y /\ y < t + b
    <3>1. CASE b = 0
      BY <1>1, <1>6, <3>1
    <3>2. CASE b # 0
      BY <1>6, <1>8, <3>2
    <3>. QED
      BY <3>1, <3>2
  <2>5. (\E o \in F1 : o <= y /\ y < o + SlobUnits(M, o))
          <=> \/ \E o \in Kept(F, s, hi) : o <= y /\ y < o + SlobUnits(M, o)
              \/ \E o \in H : o <= y /\ y < o + SlobUnits(M, o)
              \/ \E o \in T : o <= y /\ y < o + SlobUnits(M, o)
    BY <1>11 DEF G
  <2>. QED
    BY <1>14, <2>2, <2>3, <2>4, <2>5
<1>17. Covers(M, F1) \in SUBSET Nat
  BY <1>14
<1>18. Patched(Covers(m, F), Covers(M, F1), s, k, t, b, hi)
  BY <1>16, <1>17 DEF Patched
<1>. QED
  BY <1>12, <1>18

(* From first on, the memory m is a list of blocks that hold the units U.  *)
FreeList(m, first, U) == m \in PageMemory /\ \E F : Chain(m, first, F) /\ Covers(m, F) = U

LEMMA PatchedIs ==
    ASSUME NEW C, NEW U, NEW s, NEW k, NEW t, NEW b, NEW hi, Patched(C, U, s, k, t, b, hi), NEW R \in SUBSET Nat,
           \A y \in Nat : y \in R <=> \/ y \in C /\ (y < s \/ y >= hi)
                                      \/ s <= y /\ y < s + k
                                      \/ t <= y /\ y < t + b
    PROVE  U = R
<1>1. U \in SUBSET Nat /\ \A y \in Nat : y \in U <=> y \in R
  BY DEF Patched
<1>. QED
  BY <1>1

(* The u units at o have gone from the free units U.                       *)
CarvedOut(c, U, o, u) == c.off = o /\ FreeList(c.mem, c.free, U \ (o .. o + u - 1))

LEMMA CarveChain ==
    ASSUME NEW m \in PageMemory, NEW first, NEW F, Chain(m, first, F), NEW blk \in F, NEW prev, IsPrev(F, blk, prev),
           NEW u \in Nat \ {0}, NEW d \in Nat, u + d <= SlobUnits(m, blk)
    PROVE  CarvedOut(Carve(m, first, blk, prev, u, d), Covers(m, F), blk + d, u)
<1>0. PageUnits \in Nat \ {0} /\ NULL \notin Nat
  BY SlobConstants
<1>1. /\ F \in SUBSET Nat
      /\ \A o \in F : /\ o \in 0 .. PageUnits - 1 /\ o \in Nat
                      /\ SlobUnits(m, o) \in Nat \ {0} /\ o + SlobUnits(m, o) <= PageUnits
                      /\ SlobNext(m, o) \in 1 .. PageUnits /\ o < SlobNext(m, o)
  BY ChainTypes
<1>2. PICK n \in Nat \ {0} : n = SlobUnits(m, blk)
  BY <1>1
<1>3. PICK x \in 1 .. PageUnits : x = SlobNext(m, blk)
  BY <1>1
<1>4. /\ Cell(m, blk, n, x) /\ blk + n <= x /\ (blk + n < x \/ x = PageUnits) /\ x \in F \cup {PageUnits}
      /\ \A q \in F : q <= blk \/ x <= q
  BY <1>2, <1>3 DEF Cell, Chain
<1>5. blk \in 0 .. PageUnits - 1 /\ blk \in Nat /\ x \in Nat /\ x <= PageUnits /\ n \in Nat /\ u + d <= n
  BY <1>0, <1>1, <1>2
<1>6. PICK np : np = IF prev = NULL THEN 1 ELSE SlobUnits(m, prev)
  OBVIOUS
<1>7. /\ np \in Nat \ {0}
      /\ prev # NULL => /\ prev \in F /\ prev \in Nat /\ prev + np < blk /\ SlobUnits(m, prev) = np
                        /\ SlobNext(m, prev) = blk
      /\ prev = NULL => first = blk
  <2>1. CASE prev = NULL
    <3>1. \A o \in F : blk <= o /\ o \in Nat /\ first <= o
      BY <1>0, <1>1, <2>1 DEF IsPrev, Chain
    <3>2. first \in F \/ first = PageUnits
      BY DEF Chain
    <3>3. first <= blk /\ blk < PageUnits
      BY <1>0, <1>5, <3>1
    <3>4. first \in F
      BY <1>0, <1>5, <3>2, <3>3
    <3>5. blk <= first /\ first \in Nat
      BY <3>1, <3>4
    <3>6. first = blk
      BY <1>5, <3>3, <3>5
    <3>. QED
      BY <1>6, <2>1, <3>6
  <2>2. CASE prev # NULL
    <3>1. prev \in F /\ prev < blk /\ \A o \in F : o <= prev \/ blk <= o
      BY <2>2 DEF IsPrev
    <3>2. SlobUnits(m, prev) \in Nat \ {0} /\ prev \in Nat /\ SlobNext(m, prev) \in Nat /\ prev < SlobNext(m, prev)
      BY <1>0, <1>1, <3>1
    <3>3. prev + SlobUnits(m, prev) < blk /\ SlobNext(m, prev) <= blk
      BY <3>1, Apart
    <3>4. SlobNext(m, prev) \in F \/ SlobNext(m, prev) = PageUnits
      BY <3>1 DEF Chain
    <3>5. SlobNext(m, prev) = blk
      BY <1>5, <3>1, <3>2, <3>3, <3>4
    <3>. QED
      BY <1>6, <2>2, <3>1, <3>2, <3>3, <3>5
  <2>. QED
    BY <2>1, <2>2
<1>8. \/ prev = NULL
      \/ /\ prev # NULL /\ prev \in 0 .. PageUnits - 1 /\ SlobUnits(m, prev) \in Nat \ {0}
         /\ prev + SlobUnits(m, prev) <= blk
  BY <1>1, <1>5, <1>7
<1>9. PICK c : c = Carve(m, first, blk, prev, u, d)
  OBVIOUS
<1>10. PICK b \in Nat : b = n - d - u
  <2>1. n - d - u \in Nat
    BY <1>5
  <2>. QED
    BY <2>1
<1>11. PICK t \in Nat : t = blk + d + u
  BY <1>5
<1>12. PICK r : r = IF b = 0 THEN x ELSE t
  OBVIOUS
<1>13. /\ c.off = blk + d /\ c.mem \in PageMemory
       /\ c.free = IF d = 0 /\ prev = NULL THEN r ELSE first
       /\ d # 0 => Cell(c.mem, blk, d, r)
       /\ d = 0 /\ prev # NULL => Cell(c.mem, prev, np, r)
       /\ b # 0 => Cell(c.mem, t, b, x)
       /\ \A q \in 0 .. PageUnits - 1 :
             /\ q < blk \/ q >= blk + n
             /\ d = 0 /\ prev # NULL => q < prev \/ q >= prev + np
             => c.mem[q] = m[q]
  <2>0. Cell(m, blk, n, x) /\ blk + n <= x /\ n \in Nat /\ u + d <= n /\ blk \in 0 .. PageUnits - 1
    BY <1>4, <1>5
  <2>1. IsCarved(c, m, first, blk, n, x, prev, u, d)
    BY <2>0, <1>8, <1>9, CarveCells
  <2>2. (n - d # u <=> b # 0) /\ r = Rest(blk + d, u, n - d, x)
    BY <1>5, <1>10, <1>11, <1>12 DEF Rest
  <2>. QED
    BY <1>7, <1>10, <1>11, <2>1, <2>2 DEF IsCarved
<1>14. PICK M \in PageMemory : M = c.mem
  BY <1>13
<1>15. /\ t + b = blk + n /\ t + b <= x /\ (t + b < x \/ (t + b = x /\ x = PageUnits))
       /\ blk + d < t /\ t <= x /\ r \in Nat /\ r >= t
  BY <1>4, <1>5, <1>10, <1>11, <1>12
<1>. DEFINE R == Covers(m, F) \ (blk + d .. blk + d + u - 1)
<1>16. /\ R \in SUBSET Nat
       /\ \A y \in Nat : y \in R <=> y \in Covers(m, F) /\ (y < blk + d \/ y >= t)
  <2>1. \A y : y \in Covers(m, F) <=> y \in Nat /\ \E o \in F : o <= y /\ y < o + SlobUnits(m, o)
    BY <1>1, InCovers
  <2>2. \A y \in Nat : y \notin blk + d .. blk + d + u - 1 <=> y < blk + d \/ y >= t
    BY <1>5, <1>11
  <2>. QED
    BY <2>1, <2>2
<1>. HIDE DEF R
<1>17. ASSUME NEW y \in Nat
       PROVE  /\ blk <= y /\ y < x => (y \in Covers(m, F) <=> y < blk + n)
              /\ prev # NULL /\ prev <= y /\ y < blk => (y \in Covers(m, F) <=> y < prev + np)
              /\ prev = NULL /\ y < blk => y \notin Covers(m, F)
  <2>1. /\ \A o \in F : o <= y /\ y < SlobNext(m, o) => (y \in Covers(m, F) <=> y < o + SlobUnits(m, o))
        /\ y < first => y \notin Covers(m, F)
    BY BlockCovers
  <2>. QED
    BY <1>2, <1>3, <1>7, <2>1
<1>18. \A q \in 0 .. PageUnits - 1 : /\ q < blk \/ q >= blk + n
                                     /\ d = 0 /\ prev # NULL => q < prev \/ q >= prev + np
                                     => M[q] = m[q]
  BY <1>13, <1>14
<1>19. \E F1 : Chain(M, c.free, F1) /\ Covers(M, F1) = R
  <2>1. CASE d # 0
    <3>1. Patch(m, first, F, M, first, blk, d, t, b, x)
      <4>1. Cell(M, blk, d, IF b = 0 THEN x ELSE t) /\ (b # 0 => Cell(M, t, b, x))
        BY <1>12, <1>13, <1>14, <2>1
      <4>2. \A q \in 0 .. PageUnits - 1 : q < blk \/ q >= x => M[q] = m[q]
        BY <1>4, <1>5, <1>18, <2>1
      <4>3. (blk + d < x) /\ blk < x
        BY <1>5, <1>15, <2>1
      <4>. QED
        BY <1>4, <1>5, <1>15, <2>1, <4>1, <4>2, <4>3 DEF Patch
    <3>2. PICK F1 : Chain(M, first, F1) /\ Patched(Covers(m, F), Covers(M, F1), blk, d, t, b, x)
      BY <3>1, PatchChain
    <3>3. ASSUME NEW y \in Nat
          PROVE  y \in R <=> \/ y \in Covers(m, F) /\ (y < blk \/ y >= x)
                             \/ blk <= y /\ y < blk + d
                             \/ t <= y /\ y < t + b
      BY <1>5, <1>15, <1>16, <1>17
    <3>4. Covers(M, F1) = R
      BY <1>16, <3>2, <3>3, PatchedIs
    <3>. QED
      BY <1>13, <2>1, <3>2, <3>4
  <2>2. CASE d = 0 /\ prev # NULL
    <3>0. /\ prev \in F /\ prev \in Nat /\ prev + np < blk /\ prev < blk /\ prev < x
      BY <1>5, <1>7, <1>15, <2>2
    <3>1. Patch(m, first, F, M, first, prev, np, t, b, x)
      <4>1. Cell(M, prev, np, IF b = 0 THEN x ELSE t) /\ (b # 0 => Cell(M, t, b, x))
        BY <1>12, <1>13, <1>14, <2>2
      <4>2. \A q \in 0 .. PageUnits - 1 : q < prev \/ q >= x => M[q] = m[q]
        BY <1>4, <1>5, <1>7, <1>18, <3>0
      <4>3. prev + np < x /\ prev + np < t /\ prev <= x
        BY <1>5, <1>7, <1>15, <2>2, <3>0
      <4>. QED
        BY <1>4, <1>5, <1>7, <1>15, <2>2, <3>0, <4>1, <4>2, <4>3 DEF Patch
    <3>2. PICK F1 : Chain(M, first, F1) /\ Patched(Covers(m, F), Covers(M, F1), prev, np, t, b, x)
      BY <3>1, PatchChain
    <3>3. ASSUME NEW y \in Nat
          PROVE  y \in R <=> \/ y \in Covers(m, F) /\ (y < prev \/ y >= x)
                             \/ prev <= y /\ y < prev + np
                             \/ t <= y /\ y < t + b
      <4>1. y \in R <=> y \in Covers(m, F) /\ (y < blk \/ y >= t)
        BY <1>5, <1>16, <2>2
      <4>. QED
        BY <1>5, <1>7, <1>15, <1>17, <2>2, <3>0, <4>1
    <3>4. Covers(M, F1) = R
      BY <1>16, <3>2, <3>3, PatchedIs
    <3>. QED
      BY <1>13, <2>2, <3>2, <3>4
  <2>3. CASE d = 0 /\ prev = NULL
    <3>0. PICK z \in Nat : z = 0
      OBVIOUS
    <3>1. Patch(m, first, F, M, r, z, z, t, b, x)
      <4>1. b # 0 => Cell(M, t, b, x)
        BY <1>13, <1>14
      <4>2. \A q \in 0 .. PageUnits - 1 : q < z \/ q >= x => M[q] = m[q]
        BY <1>4, <1>5, <1>18, <2>3, <3>0
      <4>. QED
        BY <1>4, <1>5, <1>12, <1>15, <2>3, <3>0, <4>1, <4>2 DEF Patch
    <3>2. PICK F1 : Chain(M, r, F1) /\ Patched(Covers(m, F), Covers(M, F1), z, z, t, b, x)
      BY <3>1, PatchChain
    <3>3. ASSUME NEW y \in Nat
          PROVE  y \in R <=> \/ y \in Covers(m, F) /\ (y < z \/ y >= x)
                             \/ z <= y /\ y < z + z
                             \/ t <= y /\ y < t + b
      <4>1. y \in R <=> y \in Covers(m, F) /\ (y < blk \/ y >= t)
        BY <1>5, <1>16, <2>3
      <4>. QED
        BY <1>5, <1>15, <1>17, <2>3, <3>0, <4>1
    <3>4. Covers(M, F1) = R
      BY <1>16, <3>2, <3>3, PatchedIs
    <3>. QED
      BY <1>13, <2>3, <3>2, <3>4
  <2>. QED
    BY <2>1, <2>2, <2>3
<1>20. FreeList(c.mem, c.free, R)
  BY <1>13, <1>14, <1>19 DEF FreeList
<1>. QED
  BY <1>9, <1>13, <1>20 DEF R, CarvedOut

-----------------------------------------------------------------------------
(* slob_free: what the block put back leaves in the memory.                *)

(* The only block of a page.                                               *)
LEMMA OneBlock ==
    ASSUME NEW m \in PageMemory, NEW b \in Nat, NEW u \in Nat \ {0}, b + u <= PageUnits
    PROVE  FreeList(SetSlob(m, b, u, PageUnits), b, b .. b + u - 1)
<1>0. PageUnits \in Nat \ {0} /\ PageUnits \in 1 .. PageUnits
  BY SlobConstants
<1>1. PICK M : M = SetSlob(m, b, u, PageUnits)
  OBVIOUS
<1>2. b \in 0 .. PageUnits - 1
  BY <1>0
<1>3. M \in PageMemory /\ Cell(M, b, u, PageUnits)
  BY <1>0, <1>1, <1>2, SetCell
<1>4. PICK F : F = {}
  OBVIOUS
<1>5. Chain(m, PageUnits, F)
  BY <1>4 DEF Chain
<1>6. PICK z \in Nat : z = 0
  OBVIOUS
<1>7. Patch(m, PageUnits, F, M, b, z, z, b, u, PageUnits)
  <2>1. \A q \in 0 .. PageUnits - 1 : ~(q < z) /\ ~(q >= PageUnits)
    BY <1>0, <1>6
  <2>2. b + u < PageUnits \/ (b + u = PageUnits /\ PageUnits = PageUnits)
    BY <1>0
  <2>. QED
    BY <1>0, <1>3, <1>6, <2>1, <2>2 DEF Patch
<1>8. PICK F1 : Chain(M, b, F1) /\ Patched(Covers(m, F), Covers(M, F1), z, z, b, u, PageUnits)
  BY <1>3, <1>5, <1>7, PatchChain
<1>9. PICK R \in SUBSET Nat : R = b .. b + u - 1
  BY <1>0
<1>10. ASSUME NEW y \in Nat
       PROVE  y \in R <=> \/ y \in Covers(m, F) /\ (y < z \/ y >= PageUnits)
                          \/ z <= y /\ y < z + z
                          \/ b <= y /\ y < b + u
  <2>1. y \notin Covers(m, F)
    BY <1>4 DEF Covers
  <2>. QED
    BY <1>6, <1>9, <2>1
<1>11. Covers(M, F1) = R
  BY <1>8, <1>10, PatchedIs
<1>. QED
  BY <1>1, <1>3, <1>8, <1>9, <1>11 DEF FreeList

LEMMA PutFirstList ==
    ASSUME NEW m \in PageMemory, NEW first, NEW F, Chain(m, first, F), first \in F,
           NEW b \in Nat, NEW u \in Nat \ {0}, b < first,
           \A y \in Covers(m, F) : ~(b <= y /\ y < b + u)
    PROVE  FreeList(PutFirst(m, first, b, u), b, Covers(m, F) \cup (b .. b + u - 1))
<1>0. PageUnits \in Nat \ {0}
  BY SlobConstants
<1>1. /\ F \in SUBSET Nat
      /\ \A o \in F : /\ o \in 0 .. PageUnits - 1 /\ o \in Nat
                      /\ SlobUnits(m, o) \in Nat \ {0} /\ o + SlobUnits(m, o) <= PageUnits
                      /\ SlobNext(m, o) \in 1 .. PageUnits /\ o < SlobNext(m, o)
  BY ChainTypes
<1>2. PICK n \in Nat \ {0} : n = SlobUnits(m, first)
  BY <1>1
<1>3. PICK x \in 1 .. PageUnits : x = SlobNext(m, first)
  BY <1>1
<1>4. first + n <= x /\ (first + n < x \/ x = PageUnits) /\ x \in F \cup {PageUnits} /\ first \in Nat
  BY <1>1, <1>2, <1>3 DEF Chain
<1>5. ASSUME NEW y \in Nat
      PROVE  (y < first => y \notin Covers(m, F)) /\ (first <= y /\ y < x => (y \in Covers(m, F) <=> y < first + n))
  BY <1>2, <1>3, BlockCovers
<1>6. b + u <= first
  <2>1. first < x /\ first < first + n
    BY <1>0, <1>4
  <2>2. first \in Covers(m, F)
    BY <1>4, <1>5, <2>1
  <2>3. ~(b <= first /\ first < b + u)
    BY <2>2
  <2>. QED
    BY <1>4, <2>3
<1>7. PICK hi : hi = IF b + u = first THEN x ELSE first
  OBVIOUS
<1>8. PICK k : k = IF b + u = first THEN u + n ELSE u
  OBVIOUS
<1>9. /\ k \in Nat \ {0} /\ hi \in 1 .. PageUnits /\ hi \in Nat /\ hi \in F \cup {PageUnits}
      /\ b + k < hi \/ (b + k = hi /\ hi = PageUnits)
      /\ b + k <= PageUnits
  BY <1>0, <1>1, <1>4, <1>6, <1>7, <1>8
<1>10. PICK M : M = SetSlob(m, b, k, hi)
  OBVIOUS
<1>11. PutFirst(m, first, b, u) = M
  BY <1>2, <1>3, <1>7, <1>8, <1>10 DEF PutFirst
<1>12. b \in 0 .. PageUnits - 1
  BY <1>0, <1>9
<1>13. /\ M \in PageMemory /\ Cell(M, b, k, hi)
       /\ \A o \in 0 .. PageUnits - 1 : o < b \/ o >= b + k => M[o] = m[o]
  BY <1>9, <1>10, <1>12, SetCell
<1>14. PICK z \in Nat : z = 0
  OBVIOUS
<1>15. Patch(m, first, F, M, b, z, z, b, k, hi)
  <2>1. \A q \in 0 .. PageUnits - 1 : q < z \/ q >= hi => M[q] = m[q]
    BY <1>0, <1>9, <1>13, <1>14
  <2>. QED
    BY <1>9, <1>13, <1>14, <2>1 DEF Patch
<1>16. PICK F1 : Chain(M, b, F1) /\ Patched(Covers(m, F), Covers(M, F1), z, z, b, k, hi)
  BY <1>13, <1>15, PatchChain
<1>17. \A y : y \in Covers(m, F) => y \in Nat
  BY <1>1, InCovers
<1>18. PICK R \in SUBSET Nat : R = Covers(m, F) \cup (b .. b + u - 1)
  <2>1. \A y : y \in Covers(m, F) \cup (b .. b + u - 1) => y \in Nat
    BY <1>17
  <2>2. Covers(m, F) \cup (b .. b + u - 1) \in SUBSET Nat
    BY <2>1
  <2>. QED
    BY <2>2
<1>19. ASSUME NEW y \in Nat
       PROVE  y \in R <=> \/ y \in Covers(m, F) /\ (y < z \/ y >= hi)
                          \/ z <= y /\ y < z + z
                          \/ b <= y /\ y < b + k
  <2>1. y \in R <=> y \in Covers(m, F) \/ (b <= y /\ y < b + u)
    BY <1>18
  <2>2. CASE b + u = first
    BY <1>4, <1>5, <1>7, <1>8, <1>14, <2>1, <2>2
  <2>3. CASE b + u # first
    BY <1>4, <1>5, <1>7, <1>8, <1>14, <2>1, <2>3
  <2>. QED
    BY <2>2, <2>3
<1>20. Covers(M, F1) = R
  BY <1>16, <1>19, PatchedIs
<1>. QED
  BY <1>11, <1>13, <1>16, <1>18, <1>20 DEF FreeList

LEMMA PutAfterList ==
    ASSUME NEW m \in PageMemory, NEW first, NEW F, Chain(m, first, F),
           NEW b \in Nat, NEW u \in Nat \ {0}, b + u <= PageUnits, NEW prev \in F, IsPrev(F, b, prev),
           \A y \in Covers(m, F) : ~(b <= y /\ y < b + u)
    PROVE  FreeList(PutAfter(m, prev, b, u), first, Covers(m, F) \cup (b .. b + u - 1))
<1>0. PageUnits \in Nat \ {0} /\ NULL \notin Nat
  BY SlobConstants
<1>1. /\ F \in SUBSET Nat
      /\ \A o \in F : /\ o \in 0 .. PageUnits - 1 /\ o \in Nat
                      /\ SlobUnits(m, o) \in Nat \ {0} /\ o + SlobUnits(m, o) <= PageUnits
                      /\ SlobNext(m, o) \in 1 .. PageUnits /\ o < SlobNext(m, o)
  BY ChainTypes
<1>2. PICK np \in Nat \ {0} : np = SlobUnits(m, prev)
  BY <1>1
<1>3. PICK x \in 1 .. PageUnits : x = SlobNext(m, prev)
  BY <1>1
<1>4. /\ prev + np <= x /\ x \in F \cup {PageUnits} /\ prev \in Nat /\ Cell(m, prev, np, x)
      /\ prev < b /\ prev < x /\ \A o \in F : o <= prev \/ b <= o
  BY <1>0, <1>1, <1>2, <1>3 DEF Chain, IsPrev, Cell
<1>5. ASSUME NEW y \in Nat, prev <= y, y < x PROVE y \in Covers(m, F) <=> y < prev + np
  BY <1>2, <1>3, <1>5, BlockCovers
<1>6. b <= x
  BY <1>0, <1>4
<1>7. prev + np <= b
  <2>. SUFFICES ASSUME b < prev + np PROVE FALSE
    BY <1>4
  <2>1. b \in Covers(m, F)
    BY <1>4, <1>5
  <2>. QED
    BY <2>1
<1>8. b + u <= x /\ (x # PageUnits => x \in F)
  <2>1. CASE x = PageUnits
    BY <2>1
  <2>2. CASE x \in F
    <3>1. PICK xn \in Nat \ {0} : xn = SlobUnits(m, x)
      BY <1>1, <2>2
    <3>2. x \in Covers(m, F)
      <4>1. x \in Nat /\ x <= x /\ x < SlobNext(m, x) /\ x < x + SlobUnits(m, x)
        BY <1>1, <2>2, <3>1
      <4>. QED
        BY <2>2, <4>1, BlockCovers
    <3>3. ~(b <= x /\ x < b + u)
      BY <3>2
    <3>. QED
      BY <1>6, <2>2, <3>3
  <2>. QED
    BY <1>4, <2>1, <2>2
<1>. DEFINE joins == x # PageUnits /\ b + u = x
<1>9. PICK xn : xn = SlobUnits(m, x)
  OBVIOUS
<1>10. PICK xx : xx = SlobNext(m, x)
  OBVIOUS
<1>11. joins => /\ xn \in Nat \ {0} /\ xx \in 1 .. PageUnits /\ xx \in F \cup {PageUnits} /\ x + xn <= xx
                /\ x + xn < xx \/ xx = PageUnits
                /\ x \in F
  BY <1>1, <1>8, <1>9, <1>10 DEF Chain
<1>12. PICK hi : hi = IF joins THEN xx ELSE x
  OBVIOUS
<1>13. PICK bn : bn = IF joins THEN u + xn ELSE u
  OBVIOUS
<1>14. /\ bn \in Nat \ {0} /\ hi \in 1 .. PageUnits /\ hi \in Nat /\ hi \in F \cup {PageUnits} /\ x <= hi
       /\ b + bn < hi \/ (b + bn = hi /\ hi = PageUnits)
       /\ b + bn <= hi /\ b + bn <= PageUnits /\ u <= bn
  <2>1. CASE joins
    <3>1. /\ xn \in Nat \ {0} /\ xx \in 1 .. PageUnits /\ xx \in F \cup {PageUnits} /\ x + xn <= xx
          /\ x + xn < xx \/ xx = PageUnits
      BY <1>11, <2>1
    <3>2. hi = xx /\ bn = u + xn /\ b + u = x
      BY <1>12, <1>13, <2>1
    <3>. QED
      BY <1>0, <3>1, <3>2
  <2>2. CASE ~joins
    <3>1. hi = x /\ bn = u
      BY <1>12, <1>13, <2>2
    <3>2. b + u < x \/ (b + u = x /\ x = PageUnits)
      BY <1>8, <2>2
    <3>. QED
      BY <1>0, <1>4, <1>8, <3>1, <3>2
  <2>. QED
    BY <2>1, <2>2
<1>15. \A y \in Nat : prev <= y /\ y < hi =>
          (y \in Covers(m, F) \/ (b <= y /\ y < b + u) <=> y < prev + np \/ (b <= y /\ y < b + bn))
  <2>. SUFFICES ASSUME NEW y \in Nat, prev <= y, y < hi
                PROVE  y \in Covers(m, F) \/ (b <= y /\ y < b + u) <=> y < prev + np \/ (b <= y /\ y < b + bn)
    OBVIOUS
  <2>1. CASE joins
    <3>1. xn \in Nat \ {0} /\ x \in F /\ hi = xx /\ bn = u + xn /\ b + u = x /\ x \in Nat
      BY <1>11, <1>12, <1>13, <2>1
    <3>2. x <= y => (y \in Covers(m, F) <=> y < x + xn)
      BY <1>9, <1>10, <3>1, BlockCovers
    <3>. QED
      BY <1>4, <1>5, <1>7, <3>1, <3>2
  <2>2. CASE ~joins
    <3>1. hi = x /\ bn = u
      BY <1>12, <1>13, <2>2
    <3>. QED
      BY <1>5, <3>1
  <2>. QED
    BY <2>1, <2>2
<1>16. PICK m1 : m1 = SetSlob(m, b, bn, hi)
  OBVIOUS
<1>17. b \in 0 .. PageUnits - 1 /\ prev \in 0 .. PageUnits - 1 /\ prev + np <= PageUnits
  BY <1>0, <1>1, <1>7
<1>18. /\ m1 \in PageMemory /\ Cell(m1, b, bn, hi)
       /\ \A o \in 0 .. PageUnits - 1 : o < b \/ o >= b + bn => m1[o] = m[o]
  BY <1>14, <1>16, <1>17, SetCell
<1>19. Cell(m1, prev, np, x)
  <2>1. \A q \in 0 .. PageUnits - 1 : q >= prev /\ q < prev + np => m1[q] = m[q]
    BY <1>4, <1>7, <1>18
  <2>. QED
    BY <1>4, <1>17, <1>18, <2>1, SameCell
<1>20. PICK M : M = IF prev + np = b THEN SetSlob(m1, prev, bn + np, hi) ELSE SetSlob(m1, prev, np, b)
  OBVIOUS
<1>21. PutAfter(m, prev, b, u) = M
  <2>1. SlobUnits(m1, prev) = np /\ SlobUnits(m1, b) = bn /\ SlobNext(m1, b) = hi
    BY <1>18, <1>19 DEF Cell
  <2>2. SlobLast(m, prev) <=> x = PageUnits
    BY <1>3 DEF SlobLast
  <2>3. m1 = IF ~SlobLast(m, prev) /\ b + u = SlobNext(m, prev)
             THEN SetSlob(m, b, u + SlobUnits(m, SlobNext(m, prev)), SlobNext(m, SlobNext(m, prev)))
             ELSE SetSlob(m, b, u, SlobNext(m, prev))
    BY <1>3, <1>9, <1>10, <1>12, <1>13, <1>16, <2>2
  <2>. QED
    BY <1>20, <2>1, <2>3 DEF PutAfter
<1>22. \A y : y \in Covers(m, F) => y \in Nat
  BY <1>1, InCovers
<1>23. PICK R \in SUBSET Nat : R = Covers(m, F) \cup (b .. b + u - 1)
  <2>1. \A y : y \in Covers(m, F) \cup (b .. b + u - 1) => y \in Nat
    BY <1>22
  <2>2. Covers(m, F) \cup (b .. b + u - 1) \in SUBSET Nat
    BY <2>1
  <2>. QED
    BY <2>2
<1>24. \A y \in Nat : y \in R <=> y \in Covers(m, F) \/ (b <= y /\ y < b + u)
  BY <1>23
<1>. HIDE DEF joins
<1>25. CASE prev + np = b
  <2>1. PICK k \in Nat \ {0} : k = bn + np
    BY <1>14
  <2>2. prev + k <= PageUnits /\ prev + k = b + bn
    BY <1>4, <1>14, <1>25, <2>1
  <2>3. M = SetSlob(m1, prev, k, hi)
    BY <1>20, <1>25, <2>1
  <2>4. /\ M \in PageMemory /\ Cell(M, prev, k, hi)
        /\ \A o \in 0 .. PageUnits - 1 : o < prev \/ o >= prev + k => M[o] = m1[o]
    BY <1>14, <1>17, <1>18, <2>2, <2>3, SetCell
  <2>5. PICK z \in Nat : z = 0
    OBVIOUS
  <2>6. Patch(m, first, F, M, first, prev, k, z, z, hi)
    <3>1. \A q \in 0 .. PageUnits - 1 : q < prev \/ q >= hi => M[q] = m[q]
      BY <1>4, <1>14, <1>18, <2>2, <2>4
    <3>2. prev < hi
      BY <1>4, <1>14
    <3>. QED
      BY <1>4, <1>14, <2>2, <2>4, <2>5, <3>1, <3>2 DEF Patch
  <2>7. PICK F1 : Chain(M, first, F1) /\ Patched(Covers(m, F), Covers(M, F1), prev, k, z, z, hi)
    BY <2>4, <2>6, PatchChain
  <2>8. ASSUME NEW y \in Nat
        PROVE  y \in R <=> \/ y \in Covers(m, F) /\ (y < prev \/ y >= hi)
                           \/ prev <= y /\ y < prev + k
                           \/ z <= y /\ y < z + z
    <3>1. CASE y < prev \/ y >= hi
      BY <1>4, <1>14, <1>24, <2>2, <2>5, <3>1
    <3>2. CASE prev <= y /\ y < hi
      BY <1>4, <1>14, <1>15, <1>24, <1>25, <2>2, <2>5, <3>2
    <3>. QED
      BY <1>4, <1>14, <3>1, <3>2
  <2>9. Covers(M, F1) = R
    BY <2>7, <2>8, PatchedIs
  <2>. QED
    BY <1>21, <1>23, <2>4, <2>7, <2>9 DEF FreeList
<1>26. CASE prev + np # b
  <2>1. b \in 1 .. PageUnits /\ prev + np < b
    BY <1>0, <1>4, <1>7, <1>17, <1>26
  <2>2. M = SetSlob(m1, prev, np, b)
    BY <1>20, <1>26
  <2>3. /\ M \in PageMemory /\ Cell(M, prev, np, b)
        /\ \A o \in 0 .. PageUnits - 1 : o < prev \/ o >= prev + np => M[o] = m1[o]
    BY <1>17, <1>18, <2>1, <2>2, SetCell
  <2>4. Cell(M, b, bn, hi)
    <3>1. \A q \in 0 .. PageUnits - 1 : q >= b /\ q < b + bn => M[q] = m1[q]
      BY <1>4, <2>1, <2>3
    <3>. QED
      BY <1>14, <1>17, <1>18, <2>3, <3>1, SameCell
  <2>5. Patch(m, first, F, M, first, prev, np, b, bn, hi)
    <3>1. \A q \in 0 .. PageUnits - 1 : q < prev \/ q >= hi => M[q] = m[q]
      BY <1>4, <1>14, <1>18, <2>1, <2>3
    <3>2. prev < hi
      BY <1>4, <1>14
    <3>. QED
      BY <1>4, <1>14, <2>1, <2>3, <2>4, <3>1, <3>2 DEF Patch
  <2>6. PICK F1 : Chain(M, first, F1) /\ Patched(Covers(m, F), Covers(M, F1), prev, np, b, bn, hi)
    BY <2>3, <2>5, PatchChain
  <2>7. ASSUME NEW y \in Nat
        PROVE  y \in R <=> \/ y \in Covers(m, F) /\ (y < prev \/ y >= hi)
                           \/ prev <= y /\ y < prev + np
                           \/ b <= y /\ y < b + bn
    <3>1. CASE y < prev \/ y >= hi
      BY <1>4, <1>14, <1>24, <2>1, <3>1
    <3>2. CASE prev <= y /\ y < hi
      BY <1>4, <1>14, <1>15, <1>24, <3>2
    <3>. QED
      BY <1>4, <1>14, <3>1, <3>2
  <2>8. Covers(M, F1) = R
    BY <2>6, <2>7, PatchedIs
  <2>. QED
    BY <1>21, <1>23, <2>3, <2>6, <2>8 DEF FreeList
<1>. QED
  BY <1>25, <1>26

-----------------------------------------------------------------------------
(* The lists of pages.                                                     *)

LEMMA RemovedFrom ==
    ASSUME NEW SS, NEW l \in Seq(SS), IsInjective(l), NEW k \in DOMAIN l
    PROVE  /\ RemoveAt(l, k) \in Seq(SS) /\ IsInjective(RemoveAt(l, k)) /\ Len(RemoveAt(l, k)) = Len(l) - 1
           /\ Range(RemoveAt(l, k)) = Range(l) \ {l[k]}
<1>1. PICK n \in Nat : n = Len(l)
  OBVIOUS
<1>2. DOMAIN l = 1 .. n /\ k \in 1 .. n /\ k \in Nat
  BY <1>1
<1>3. PICK r : r = RemoveAt(l, k)
  OBVIOUS
<1>4. PICK x : x = SubSeq(l, 1, k - 1)
  OBVIOUS
<1>5. PICK y : y = SubSeq(l, k + 1, n)
  OBVIOUS
<1>6. x \in Seq(SS) /\ Len(x) = k - 1 /\ \A i \in 1 .. k - 1 : x[i] = l[i]
  BY <1>1, <1>2, <1>4
<1>7. y \in Seq(SS) /\ Len(y) = n - k /\ \A i \in 1 .. n - k : y[i] = l[i + k]
  BY <1>1, <1>2, <1>5
<1>8. r = x \o y
  BY <1>1, <1>3, <1>4, <1>5 DEF RemoveAt
<1>9. r \in Seq(SS) /\ Len(r) = n - 1
  BY <1>2, <1>6, <1>7, <1>8
<1>10. DOMAIN r = 1 .. n - 1
  BY <1>9
<1>11. \A i \in 1 .. n - 1 : r[i] = IF i < k THEN l[i] ELSE l[i + 1]
  <2>. SUFFICES ASSUME NEW i \in 1 .. n - 1 PROVE r[i] = IF i < k THEN l[i] ELSE l[i + 1]
    OBVIOUS
  <2>1. CASE i < k
    <3>1. r[i] = x[i]
      BY <1>2, <1>6, <1>7, <1>8, <2>1
    <3>. QED
      BY <1>2, <1>6, <2>1, <3>1
  <2>2. CASE i >= k
    <3>1. r[i] = y[i - (k - 1)]
      BY <1>2, <1>6, <1>7, <1>8, <2>2
    <3>2. PICK j \in 1 .. n - k : j = i - (k - 1)
      <4>1. i - (k - 1) \in 1 .. n - k
        BY <1>2, <2>2
      <4>. QED
        BY <4>1
    <3>3. y[j] = l[j + k] /\ j + k = i + 1 /\ ~(i < k)
      BY <1>2, <1>7, <2>2, <3>2
    <3>. QED
      BY <3>1, <3>2, <3>3
  <2>. QED
    BY <1>2, <2>1, <2>2
<1>12. \A a, b \in 1 .. n : l[a] = l[b] => a = b
  BY <1>2 DEF IsInjective
<1>13. IsInjective(r)
  <2>1. ASSUME NEW a \in 1 .. n - 1, NEW b \in 1 .. n - 1, r[a] = r[b] PROVE a = b
    <3>1. PICK a1 \in 1 .. n : a1 = IF a < k THEN a ELSE a + 1
      <4>1. (IF a < k THEN a ELSE a + 1) \in 1 .. n
        BY <1>2
      <4>. QED
        BY <4>1
    <3>2. PICK b1 \in 1 .. n : b1 = IF b < k THEN b ELSE b + 1
      <4>1. (IF b < k THEN b ELSE b + 1) \in 1 .. n
        BY <1>2
      <4>. QED
        BY <4>1
    <3>3. l[a1] = l[b1]
      BY <1>11, <2>1, <3>1, <3>2
    <3>4. a1 = b1
      BY <1>12, <3>3
    <3>. QED
      BY <1>2, <3>1, <3>2, <3>4
  <2>. QED
    BY <1>10, <2>1 DEF IsInjective
<1>14. Range(r) = Range(l) \ {l[k]}
  <2>1. ASSUME NEW i \in 1 .. n - 1 PROVE r[i] \in Range(l) /\ r[i] # l[k]
    <3>1. PICK a \in 1 .. n : a # k /\ r[i] = l[a]
      <4>1. CASE i < k
        BY <1>2, <1>11, <4>1
      <4>2. CASE i >= k
        <5>1. i + 1 \in 1 .. n /\ i + 1 # k /\ r[i] = l[i + 1]
          BY <1>2, <1>11, <4>2
        <5>. QED
          BY <5>1
      <4>. QED
        BY <1>2, <4>1, <4>2
    <3>. QED
      BY <1>2, <1>12, <3>1 DEF Range
  <2>2. ASSUME NEW a \in 1 .. n, a # k PROVE l[a] \in Range(r)
    <3>1. CASE a < k
      <4>1. a \in 1 .. n - 1 /\ r[a] = l[a]
        BY <1>2, <1>11, <3>1
      <4>. QED
        BY <1>10, <4>1 DEF Range
    <3>2. CASE a > k
      <4>1. a - 1 \in 1 .. n - 1 /\ r[a - 1] = l[a]
        <5>1. a - 1 \in 1 .. n - 1 /\ ~(a - 1 < k) /\ (a - 1) + 1 = a
          BY <1>2, <3>2
        <5>. QED
          BY <1>11, <5>1
      <4>. QED
        BY <1>10, <4>1 DEF Range
    <3>. QED
      BY <1>2, <2>2, <3>1, <3>2
  <2>3. Range(r) \subseteq Range(l) \ {l[k]}
    BY <1>10, <2>1 DEF Range
  <2>4. Range(l) \ {l[k]} \subseteq Range(r)
    <3>1. ASSUME NEW v \in Range(l), v # l[k] PROVE v \in Range(r)
      <4>1. PICK a \in 1 .. n : v = l[a]
        BY <1>2 DEF Range
      <4>. QED
        BY <2>2, <3>1, <4>1
    <3>. QED
      BY <3>1
  <2>. QED
    BY <2>3, <2>4
<1>. QED
  BY <1>1, <1>3, <1>9, <1>13, <1>14

LEMMA Turned ==
    ASSUME NEW SS, NEW l \in Seq(SS), IsInjective(l), NEW k \in 2 .. Len(l)
    PROVE  LET r == SubSeq(l, k, Len(l)) \o SubSeq(l, 1, k - 1)
           IN  r \in Seq(SS) /\ IsInjective(r) /\ Range(r) = Range(l)
<1>1. PICK n \in Nat : n = Len(l)
  OBVIOUS
<1>2. DOMAIN l = 1 .. n /\ k \in 2 .. n /\ k \in Nat
  BY <1>1
<1>3. PICK j \in Nat : j = n - k + 1
  <2>1. n - k + 1 \in Nat
    BY <1>2
  <2>. QED
    BY <2>1
<1>4. PICK x : x = SubSeq(l, k, n)
  OBVIOUS
<1>5. PICK y : y = SubSeq(l, 1, k - 1)
  OBVIOUS
<1>6. x \in Seq(SS) /\ Len(x) = j /\ \A i \in 1 .. j : x[i] = l[i + k - 1]
  BY <1>1, <1>2, <1>3, <1>4
<1>7. y \in Seq(SS) /\ Len(y) = k - 1 /\ \A i \in 1 .. k - 1 : y[i] = l[i]
  BY <1>1, <1>2, <1>5
<1>8. PICK r : r = x \o y
  OBVIOUS
<1>9. r \in Seq(SS) /\ Len(r) = n
  <2>1. r \in Seq(SS)
    BY <1>6, <1>7, <1>8
  <2>0. x \in Seq(SS) /\ y \in Seq(SS)
    BY <1>6, <1>7
  <2>2. Len(r) = Len(x) + Len(y)
    BY <1>8, <2>0, ConcatProperties
  <2>. QED
    BY <1>2, <1>3, <1>6, <1>7, <2>1, <2>2
<1>10. DOMAIN r = 1 .. n
  BY <1>9
<1>11. \A i \in 1 .. n : r[i] = IF i <= j THEN l[i + k - 1] ELSE l[i - j]
  <2>. SUFFICES ASSUME NEW i \in 1 .. n PROVE r[i] = IF i <= j THEN l[i + k - 1] ELSE l[i - j]
    OBVIOUS
  <2>1. CASE i <= j
    <3>1. r[i] = x[i]
      BY <1>2, <1>6, <1>7, <1>8, <2>1
    <3>. QED
      BY <1>2, <1>6, <2>1, <3>1
  <2>2. CASE i > j
    <3>1. r[i] = y[i - j]
      BY <1>2, <1>3, <1>6, <1>7, <1>8, <2>2
    <3>2. i - j \in 1 .. k - 1
      BY <1>2, <1>3, <2>2
    <3>. QED
      BY <1>2, <1>7, <2>2, <3>1, <3>2
  <2>. QED
    BY <1>2, <2>1, <2>2
<1>12. \A a, b \in 1 .. n : l[a] = l[b] => a = b
  BY <1>2 DEF IsInjective
<1>13. IsInjective(r)
  <2>1. ASSUME NEW a \in 1 .. n, NEW b \in 1 .. n, r[a] = r[b] PROVE a = b
    <3>1. PICK a1 \in 1 .. n : a1 = IF a <= j THEN a + k - 1 ELSE a - j
      <4>1. (IF a <= j THEN a + k - 1 ELSE a - j) \in 1 .. n
        BY <1>2, <1>3
      <4>. QED
        BY <4>1
    <3>2. PICK b1 \in 1 .. n : b1 = IF b <= j THEN b + k - 1 ELSE b - j
      <4>1. (IF b <= j THEN b + k - 1 ELSE b - j) \in 1 .. n
        BY <1>2, <1>3
      <4>. QED
        BY <4>1
    <3>3. l[a1] = l[b1]
      BY <1>11, <2>1, <3>1, <3>2
    <3>4. a1 = b1
      BY <1>12, <3>3
    <3>. QED
      BY <1>2, <1>3, <3>1, <3>2, <3>4
  <2>. QED
    BY <1>10, <2>1 DEF IsInjective
<1>14. Range(r) = Range(l)
  <2>1. ASSUME NEW i \in 1 .. n PROVE r[i] \in Range(l)
    <3>1. CASE i <= j
      <4>1. i + k - 1 \in 1 .. n /\ r[i] = l[i + k - 1]
        BY <1>2, <1>3, <1>11, <3>1
      <4>. QED
        BY <1>2, <4>1 DEF Range
    <3>2. CASE i > j
      <4>1. i - j \in 1 .. n /\ r[i] = l[i - j]
        BY <1>2, <1>3, <1>11, <3>2
      <4>. QED
        BY <1>2, <4>1 DEF Range
    <3>. QED
      BY <1>3, <3>1, <3>2
  <2>2. ASSUME NEW a \in 1 .. n PROVE l[a] \in Range(r)
    <3>1. CASE a < k
      <4>1. a + j \in 1 .. n /\ ~(a + j <= j) /\ (a + j) - j = a
        BY <1>2, <1>3, <3>1
      <4>2. r[a + j] = l[a]
        BY <1>11, <4>1
      <4>. QED
        BY <1>10, <4>1, <4>2 DEF Range
    <3>2. CASE a >= k
      <4>1. a - k + 1 \in 1 .. n /\ a - k + 1 <= j /\ (a - k + 1) + k - 1 = a
        BY <1>2, <1>3, <3>2
      <4>2. r[a - k + 1] = l[a]
        BY <1>11, <4>1
      <4>. QED
        BY <1>10, <4>1, <4>2 DEF Range
    <3>. QED
      BY <1>2, <3>1, <3>2
  <2>. QED
    BY <1>2, <1>10, <2>1, <2>2 DEF Range
<1>. QED
  BY <1>1, <1>4, <1>5, <1>8, <1>9, <1>13, <1>14

(* The list of the page that was served.                                   *)
LEMMA ListAfterProps ==
    ASSUME NEW SS, NEW l \in Seq(SS), IsInjective(l), NEW k \in DOMAIN l, NEW full \in BOOLEAN
    PROVE  /\ ListAfter(l, k, full) \in Seq(SS) /\ IsInjective(ListAfter(l, k, full))
           /\ Range(ListAfter(l, k, full)) = IF full THEN Range(l) \ {l[k]} ELSE Range(l)
<1>1. PICK l1 : l1 = IF full THEN RemoveAt(l, k) ELSE l
  OBVIOUS
<1>2. l1 \in Seq(SS) /\ IsInjective(l1) /\ Range(l1) = IF full THEN Range(l) \ {l[k]} ELSE Range(l)
  BY <1>1, RemovedFrom
<1>3. ListAfter(l, k, full) = IF k = 1 \/ k > Len(l1) THEN l1 ELSE SubSeq(l1, k, Len(l1)) \o SubSeq(l1, 1, k - 1)
  BY <1>1 DEF ListAfter
<1>4. CASE k = 1 \/ k > Len(l1)
  BY <1>2, <1>3, <1>4
<1>5. CASE ~(k = 1 \/ k > Len(l1))
  <2>1. k \in 2 .. Len(l1)
    BY <1>2, <1>5
  <2>2. ListAfter(l, k, full) = SubSeq(l1, k, Len(l1)) \o SubSeq(l1, 1, k - 1)
    BY <1>3, <1>5
  <2>. QED
    BY <1>2, <2>1, <2>2, Turned
<1>. QED
  BY <1>4, <1>5

LEMMA PushedOnto ==
    ASSUME NEW SS, NEW l \in Seq(SS), IsInjective(l), NEW p \in SS, p \notin Range(l)
    PROVE  /\ << p >> \o l \in Seq(SS) /\ IsInjective(<< p >> \o l)
           /\ Range(<< p >> \o l) = Range(l) \cup {p}
<1>1. PICK n \in Nat : n = Len(l)
  OBVIOUS
<1>2. PICK r : r = << p >> \o l
  OBVIOUS
<1>3. DOMAIN l = 1 .. n
  BY <1>1
<1>4. r \in Seq(SS) /\ DOMAIN r = 1 .. n + 1 /\ r[1] = p
  BY <1>1, <1>2
<1>5. \A i \in 1 .. n : r[i + 1] = l[i] /\ i + 1 \in 1 .. n + 1 /\ l[i] # p
  BY <1>1, <1>2, <1>3 DEF Range
<1>6. ASSUME NEW i \in 1 .. n + 1 PROVE i = 1 \/ \E j \in 1 .. n : i = j + 1 /\ r[i] = l[j]
  <2>1. CASE i # 1
    <3>1. i - 1 \in 1 .. n /\ (i - 1) + 1 = i
      BY <2>1
    <3>. QED
      BY <1>5, <3>1
  <2>. QED
    BY <2>1
<1>7. IsInjective(r)
  <2>1. \A a, b \in 1 .. n : l[a] = l[b] => a = b
    BY <1>3 DEF IsInjective
  <2>2. ASSUME NEW a \in 1 .. n + 1, NEW b \in 1 .. n + 1, r[a] = r[b] PROVE a = b
    <3>1. CASE a = 1 \/ b = 1
      <4>1. \A i \in 1 .. n + 1 : i = 1 \/ r[i] # p
        BY <1>5, <1>6
      <4>. QED
        BY <1>4, <2>2, <3>1, <4>1
    <3>2. CASE a # 1 /\ b # 1
      BY <1>6, <2>1, <2>2, <3>2
    <3>. QED
      BY <3>1, <3>2
  <2>. QED
    BY <1>4, <2>2 DEF IsInjective
<1>8. Range(r) = Range(l) \cup {p}
  <2>1. \A i \in 1 .. n + 1 : r[i] \in Range(l) \cup {p}
    BY <1>3, <1>4, <1>6 DEF Range
  <2>2. \A i \in 1 .. n : l[i] \in Range(r)
    BY <1>4, <1>5 DEF Range
  <2>3. p \in Range(r)
    <3>1. 1 \in 1 .. n + 1
      OBVIOUS
    <3>. QED
      BY <1>4, <3>1 DEF Range
  <2>4. Range(r) \subseteq Range(l) \cup {p}
    BY <1>4, <2>1 DEF Range
  <2>5. Range(l) \subseteq Range(r)
    BY <1>3, <2>2 DEF Range
  <2>. QED
    BY <2>3, <2>4, <2>5
<1>. QED
  BY <1>2, <1>4, <1>7, <1>8

LEMMA UnlinkProps ==
    ASSUME NEW SS, NEW l \in Seq(SS), IsInjective(l), NEW p
    PROVE  Unlink(l, p) \in Seq(SS) /\ IsInjective(Unlink(l, p)) /\ Range(Unlink(l, p)) = Range(l) \ {p}
<1>1. CASE p \in Range(l)
  <2>1. PICK k : k = CHOOSE i \in DOMAIN l : l[i] = p
    OBVIOUS
  <2>2. k \in DOMAIN l /\ l[k] = p
    BY <1>1, <2>1 DEF Range
  <2>3. Unlink(l, p) = RemoveAt(l, k)
    BY <1>1, <2>1 DEF Unlink
  <2>. QED
    BY <2>2, <2>3, RemovedFrom
<1>2. CASE p \notin Range(l)
  BY <1>2 DEF Unlink
<1>. QED
  BY <1>1, <1>2

(* Each request has a list.                                                *)
LEMMA ListOfType == \A sz : ListOf(sz) \in Lists
<1>. TAKE sz
<1>1. IsFiniteSet(Breaks)
  BY SlobAssumption
<1>2. PICK T \in SUBSET Breaks : T = {b \in Breaks : b <= sz}
  OBVIOUS
<1>3. Cardinality(T) \in Nat /\ Cardinality(T) <= Cardinality(Breaks) /\ Cardinality(Breaks) \in Nat
  BY <1>1, FS_Subset, FS_CardinalityType
<1>4. ListOf(sz) = Cardinality(T)
  BY <1>2 DEF ListOf
<1>. QED
  BY <1>3, <1>4 DEF Lists

-----------------------------------------------------------------------------
(* A page in pieces.                                                       *)

(* The free units U and those of the blocks H make up the page, and n      *)
(* units are free.                                                         *)
Tiled(U, H, n) ==
    /\ \A b \in H : UsedUnits(b) \cap U = {}
    /\ \A b, c \in H : b # c => UsedUnits(b) \cap UsedUnits(c) = {}
    /\ U \cup UNION {UsedUnits(b) : b \in H} = 0 .. PageUnits - 1
    /\ n = Cardinality(U)

IsBlock(b) == b.off \in Nat /\ Units(b.size) \in Nat \ {0}

LEMMA BlockUnits ==
    ASSUME NEW b, IsBlock(b)
    PROVE  /\ IsFiniteSet(UsedUnits(b)) /\ Cardinality(UsedUnits(b)) = Units(b.size) /\ b.off \in UsedUnits(b)
           /\ \A y : y \in UsedUnits(b) <=> y \in Nat /\ b.off <= y /\ y < b.off + Units(b.size)
<1>1. PICK o \in Nat : o = b.off
  BY DEF IsBlock
<1>2. PICK u \in Nat \ {0} : u = Units(b.size)
  BY DEF IsBlock
<1>3. UsedUnits(b) = o .. o + u - 1
  BY <1>1, <1>2 DEF UsedUnits
<1>4. IsFiniteSet(o .. o + u - 1) /\ Cardinality(o .. o + u - 1) = u
  <2>1. o \in Int /\ o + u - 1 \in Int /\ ~(o > o + u - 1) /\ (o + u - 1) - o + 1 = u
    OBVIOUS
  <2>. QED
    BY <2>1, FS_Interval
<1>5. o \in o .. o + u - 1 /\ \A y : y \in o .. o + u - 1 <=> y \in Nat /\ o <= y /\ y < o + u
  OBVIOUS
<1>. QED
  BY <1>1, <1>2, <1>3, <1>4, <1>5

LEMMA TiledFinite ==
    ASSUME NEW U, NEW H, NEW n, Tiled(U, H, n)
    PROVE  /\ IsFiniteSet(U) /\ U \in SUBSET (0 .. PageUnits - 1)
           /\ n = Cardinality(U) /\ n \in 0 .. PageUnits /\ (n = 0 <=> U = {})
           /\ \A b \in H : UsedUnits(b) \in SUBSET (0 .. PageUnits - 1)
<1>0. PageUnits \in Nat \ {0}
  BY SlobConstants
<1>1. U \in SUBSET (0 .. PageUnits - 1) /\ \A b \in H : UsedUnits(b) \in SUBSET (0 .. PageUnits - 1)
  BY DEF Tiled
<1>2. IsFiniteSet(0 .. PageUnits - 1) /\ Cardinality(0 .. PageUnits - 1) = PageUnits
  <2>1. 0 \in Int /\ PageUnits - 1 \in Int /\ ~(0 > PageUnits - 1) /\ (PageUnits - 1) - 0 + 1 = PageUnits
    BY <1>0
  <2>. QED
    BY <2>1, FS_Interval
<1>3. IsFiniteSet(U) /\ Cardinality(U) <= PageUnits
  BY <1>1, <1>2, FS_Subset, ZenonT(40)
<1>4. Cardinality(U) \in Nat
  BY <1>3, FS_CardinalityType
<1>5. n = Cardinality(U)
  BY DEF Tiled
<1>6. n = 0 <=> U = {}
  BY <1>3, <1>5, FS_EmptySet
<1>. QED
  BY <1>0, <1>1, <1>3, <1>4, <1>5, <1>6

(* A block is taken out of the free units.                                 *)
LEMMA TileTake ==
    ASSUME NEW U, NEW H, NEW n, Tiled(U, H, n), NEW b, IsBlock(b), UsedUnits(b) \subseteq U
    PROVE  /\ Tiled(U \ UsedUnits(b), H \cup {b}, n - Units(b.size))
           /\ n >= Units(b.size)
<1>1. PICK T : T = UsedUnits(b)
  OBVIOUS
<1>2. PICK u \in Nat \ {0} : u = Units(b.size)
  BY DEF IsBlock
<1>3. IsFiniteSet(T) /\ Cardinality(T) = u
  BY <1>1, <1>2, BlockUnits
<1>4. IsFiniteSet(U) /\ n = Cardinality(U) /\ n \in Nat
  BY TiledFinite
<1>5. T \in SUBSET U /\ U \cap T = T
  BY <1>1
<1>6. Cardinality(U \ T) = n - u
  BY <1>3, <1>4, <1>5, FS_Difference
<1>7. u <= n
  BY <1>3, <1>4, <1>5, FS_Subset
<1>8. /\ \A c \in H : UsedUnits(c) \cap U = {}
      /\ \A c, d \in H : c # d => UsedUnits(c) \cap UsedUnits(d) = {}
      /\ U \cup UNION {UsedUnits(c) : c \in H} = 0 .. PageUnits - 1
  BY DEF Tiled
<1>9. \A c \in H \cup {b} : UsedUnits(c) \cap (U \ T) = {}
  BY <1>1, <1>8
<1>10. \A c, d \in H \cup {b} : c # d => UsedUnits(c) \cap UsedUnits(d) = {}
  BY <1>8
<1>11. (U \ T) \cup UNION {UsedUnits(c) : c \in H \cup {b}} = 0 .. PageUnits - 1
  <2>1. UNION {UsedUnits(c) : c \in H \cup {b}} = (UNION {UsedUnits(c) : c \in H}) \cup T
    BY <1>1
  <2>. QED
    BY <1>5, <1>8, <2>1
<1>12. Tiled(U \ T, H \cup {b}, n - u)
  BY <1>6, <1>9, <1>10, <1>11 DEF Tiled
<1>. QED
  BY <1>1, <1>2, <1>7, <1>12

(* A block goes back to the free units.                                    *)
LEMMA TileFree ==
    ASSUME NEW U, NEW H, NEW n, Tiled(U, H, n), \A c \in H : IsBlock(c), NEW b \in H
    PROVE  /\ Tiled(U \cup UsedUnits(b), H \ {b}, n + Units(b.size))
           /\ n + Units(b.size) = PageUnits <=> H = {b}
           /\ n + Units(b.size) <= PageUnits /\ b.off + Units(b.size) <= PageUnits
<1>0. PageUnits \in Nat \ {0}
  BY SlobConstants
<1>1. PICK T : T = UsedUnits(b)
  OBVIOUS
<1>2. PICK u \in Nat \ {0} : u = Units(b.size)
  BY DEF IsBlock
<1>3. IsFiniteSet(T) /\ Cardinality(T) = u
  BY <1>1, <1>2, BlockUnits
<1>4. IsFiniteSet(U) /\ n = Cardinality(U) /\ n \in Nat
  BY TiledFinite
<1>5. /\ \A c \in H : UsedUnits(c) \cap U = {}
      /\ \A c, d \in H : c # d => UsedUnits(c) \cap UsedUnits(d) = {}
      /\ U \cup UNION {UsedUnits(c) : c \in H} = 0 .. PageUnits - 1
  BY DEF Tiled
<1>6. U \cap T = {}
  BY <1>1, <1>5
<1>7. Cardinality(U \cup T) = n + u /\ IsFiniteSet(U \cup T)
  BY <1>3, <1>4, <1>6, FS_Union, FS_EmptySet
<1>8. U \cup T \in SUBSET (0 .. PageUnits - 1)
  BY <1>1, <1>5
<1>9. IsFiniteSet(0 .. PageUnits - 1) /\ Cardinality(0 .. PageUnits - 1) = PageUnits
  <2>1. 0 \in Int /\ PageUnits - 1 \in Int /\ ~(0 > PageUnits - 1) /\ (PageUnits - 1) - 0 + 1 = PageUnits
    BY <1>0
  <2>. QED
    BY <2>1, FS_Interval
<1>10. n + u <= PageUnits /\ (n + u = PageUnits => U \cup T = 0 .. PageUnits - 1)
  BY <1>7, <1>8, <1>9, FS_Subset
<1>11. n + u = PageUnits <=> H = {b}
  <2>1. ASSUME n + u = PageUnits PROVE H = {b}
    <3>1. ASSUME NEW c \in H, c # b PROVE FALSE
      <4>1. c.off \in UsedUnits(c)
        BY BlockUnits
      <4>2. c.off \in U \cup T
        BY <1>5, <1>10, <2>1, <4>1
      <4>3. UsedUnits(c) \cap U = {} /\ UsedUnits(c) \cap T = {}
        BY <1>1, <1>5, <3>1
      <4>. QED
        BY <4>1, <4>2, <4>3
    <3>. QED
      BY <3>1
  <2>2. ASSUME H = {b} PROVE n + u = PageUnits
    <3>1. U \cup T = 0 .. PageUnits - 1
      BY <1>1, <1>5, <2>2
    <3>. QED
      BY <1>7, <1>9, <3>1
  <2>. QED
    BY <2>1, <2>2
<1>12. \A c \in H \ {b} : UsedUnits(c) \cap (U \cup T) = {}
  BY <1>1, <1>5
<1>13. \A c, d \in H \ {b} : c # d => UsedUnits(c) \cap UsedUnits(d) = {}
  BY <1>5
<1>14. (U \cup T) \cup UNION {UsedUnits(c) : c \in H \ {b}} = 0 .. PageUnits - 1
  <2>1. UNION {UsedUnits(c) : c \in H} = (UNION {UsedUnits(c) : c \in H \ {b}}) \cup T
    BY <1>1
  <2>. QED
    BY <1>5, <2>1
<1>15. Tiled(U \cup T, H \ {b}, n + u)
  BY <1>7, <1>12, <1>13, <1>14 DEF Tiled
<1>16. b.off + u <= PageUnits
  <2>1. PICK o \in Nat : o = b.off
    BY DEF IsBlock
  <2>2. o + u - 1 \in T
    <3>1. o + u - 1 \in Nat /\ o <= o + u - 1 /\ o + u - 1 < o + u
      OBVIOUS
    <3>. QED
      BY <1>1, <1>2, <2>1, <3>1, BlockUnits
  <2>3. o + u - 1 \in 0 .. PageUnits - 1
    BY <1>8, <2>2
  <2>. QED
    BY <1>0, <2>1, <2>3
<1>. QED
  BY <1>1, <1>2, <1>10, <1>11, <1>15, <1>16

-----------------------------------------------------------------------------
(* The pages and their blocks.                                             *)

SlobRequests == [size : 1 .. PAGE_SIZE - 1, align : Nat, kind : {"kmalloc", "cache", "rcu"}]

Held(B, p) == {b \in B : b.page = p}

(* A page with the blocks H: its free list and the blocks make up the page.*)
SlobPage(m, first, n, H) == \E F : m \in PageMemory /\ Chain(m, first, F) /\ Tiled(Covers(m, F), H, n)

PageTypes ==
    /\ best_fit \in BOOLEAN
    /\ owner \in [Pages -> {"none", "slob", "big"}] /\ slab \in [Pages -> BOOLEAN]
    /\ units \in [Pages -> 0 .. PageUnits] /\ free \in [Pages -> 0 .. PageUnits]
    /\ mem \in [Pages -> PageMemory]
    /\ lists \in [Lists -> Seq(Pages)] /\ \A l \in Lists : IsInjective(lists[l])

(* A block is on a page of its kind; a page given out whole has one block. *)
BlocksFit ==
    /\ \A b \in blocks : /\ b.page \in Pages /\ (b.kind # "big" => IsBlock(b))
                         /\ owner[b.page] = IF b.kind = "big" THEN "big" ELSE "slob"
    /\ \A b, c \in blocks : b.page = c.page /\ b.kind = "big" => b = c
    /\ \A b \in rcu : b \in blocks /\ b.kind = "rcu"
    /\ wanted \in [Threads -> SlobRequests \cup {NULL}]

(* The inductive invariant.  The page flag that kfree looks at says that   *)
(* the page is a slob page; every slob page is in pieces, and is on a list *)
(* as long as something of it is free.                                     *)
SlobInv ==
    /\ PageTypes /\ BlocksFit
    /\ \A p \in Pages : slab[p] <=> owner[p] = "slob"
    /\ \A p \in Pages : owner[p] = "slob" => SlobPage(mem[p], free[p], units[p], Held(blocks, p))
    /\ ListsHoldPartialPages

LEMMA LeastOf ==
    ASSUME NEW SS \in SUBSET Nat, SS # {}
    PROVE  Min(SS) \in SS
<1>1. PICK x \in SS : \A y \in SS : x <= y
  BY LeastNatural
<1>. QED
  BY <1>1 DEF Min

LEMMA GreatestOf ==
    ASSUME NEW SS \in SUBSET Nat, NEW n \in Nat, SS # {}, \A x \in SS : x <= n
    PROVE  Max(SS) \in SS /\ \A y \in SS : y <= Max(SS)
<1>1. PICK x \in SS : \A y \in SS : y <= x
  BY GreatestBelow
<1>2. \A y \in SS : x >= y
  BY <1>1
<1>3. Max(SS) \in SS /\ \A y \in SS : Max(SS) >= y
  BY <1>2 DEF Max
<1>. QED
  BY <1>3

(* PrevBlock is the last free block in front of s.                         *)
LEMMA PrevBlockIs ==
    ASSUME NEW p, NEW F, FreeOffsets(p) = F, F \in SUBSET Nat, NEW s \in Nat
    PROVE  IsPrev(F, s, PrevBlock(p, s))
<1>1. PICK L : L = {o \in F : o < s}
  OBVIOUS
<1>2. PrevBlock(p, s) = IF L = {} THEN NULL ELSE Max(L)
  BY <1>1 DEF PrevBlock
<1>3. \A o \in F : o \in Nat /\ (o \in L <=> o < s)
  BY <1>1
<1>4. CASE L = {}
  <2>1. \A o \in F : s <= o
    BY <1>3, <1>4
  <2>. QED
    BY <1>2, <1>4, <2>1 DEF IsPrev
<1>5. CASE L # {}
  <2>1. L \in SUBSET Nat /\ \A o \in L : o <= s /\ o \in F
    <3>1. \A o \in L : o \in F /\ o < s
      BY <1>1
    <3>2. ASSUME NEW o \in L PROVE o \in Nat /\ o <= s
      <4>1. o \in F /\ o < s
        BY <3>1
      <4>2. o \in Nat
        BY <1>3, <4>1
      <4>. QED
        BY <4>1, <4>2
    <3>. QED
      BY <3>1, <3>2
  <2>2. Max(L) \in L /\ \A o \in L : o <= Max(L)
    BY <1>5, <2>1, GreatestOf
  <2>3. PICK x \in L : x = Max(L)
    BY <2>2
  <2>4. x \in F /\ x < s /\ \A o \in F : o <= x \/ s <= o
    BY <1>3, <2>1, <2>2, <2>3
  <2>. QED
    BY <1>2, <1>5, <2>3, <2>4 DEF IsPrev
<1>. QED
  BY <1>4, <1>5

(* Where something is free, the list has a first block.                    *)
LEMMA FirstBlock ==
    ASSUME NEW m \in PageMemory, NEW first, NEW F, Chain(m, first, F), Covers(m, F) # {}
    PROVE  first \in F /\ first \in Covers(m, F)
<1>0. PageUnits \in Nat \ {0}
  BY SlobConstants
<1>1. /\ F \in SUBSET Nat
      /\ \A o \in F : /\ o \in 0 .. PageUnits - 1 /\ o \in Nat
                      /\ SlobUnits(m, o) \in Nat \ {0} /\ o + SlobUnits(m, o) <= PageUnits
                      /\ SlobNext(m, o) \in 1 .. PageUnits /\ o < SlobNext(m, o)
  BY ChainTypes
<1>2. PICK o \in F : TRUE
  BY DEF Covers
<1>3. first \in F
  <2>1. first <= o /\ first \in F \cup {PageUnits}
    BY DEF Chain
  <2>2. o \in Nat /\ o < PageUnits
    BY <1>0, <1>1
  <2>. QED
    BY <1>0, <2>1, <2>2
<1>4. first \in Nat /\ first <= first /\ first < first + SlobUnits(m, first)
  BY <1>1, <1>3
<1>. QED
  BY <1>1, <1>3, <1>4, InCovers

(* One page changes, with its list.                                        *)
ListsChange(p) ==
    /\ lists' \in [Lists -> Seq(Pages)] /\ \A l \in Lists : IsInjective(lists'[l])
    /\ \A l \in Lists, q \in Pages : q # p => (q \in Range(lists'[l]) <=> q \in Range(lists[l]))
    /\ (\E l \in Lists : p \in Range(lists'[l])) <=> owner'[p] = "slob" /\ units'[p] > 0
    /\ \A k, l \in Lists : p \in Range(lists'[k]) /\ p \in Range(lists'[l]) => k = l

PageChange(p) ==
    /\ owner' \in [Pages -> {"none", "slob", "big"}] /\ slab' \in [Pages -> BOOLEAN]
    /\ units' \in [Pages -> 0 .. PageUnits] /\ free' \in [Pages -> 0 .. PageUnits]
    /\ mem' \in [Pages -> PageMemory]
    /\ \A q \in Pages : q # p =>
          /\ owner'[q] = owner[q] /\ slab'[q] = slab[q]
          /\ units'[q] = units[q] /\ free'[q] = free[q] /\ mem'[q] = mem[q]
    /\ slab'[p] <=> owner'[p] = "slob"
    /\ owner'[p] = "slob" => SlobPage(mem'[p], free'[p], units'[p], Held(blocks', p)) /\ Held(blocks', p) # {}

BlocksChange(p) ==
    /\ \A b : b.page # p => (b \in blocks' <=> b \in blocks)
    /\ \A b \in blocks' : b.page = p => /\ b.kind # "big" => IsBlock(b)
                                        /\ owner'[p] = IF b.kind = "big" THEN "big" ELSE "slob"
    /\ \A b, c \in blocks' : b.page = p /\ c.page = p /\ b.kind = "big" => b = c
    /\ \A b \in rcu' : b \in blocks' /\ b.kind = "rcu"
    /\ wanted' \in [Threads -> SlobRequests \cup {NULL}]
    /\ best_fit' = best_fit

LEMMA PageStep ==
    ASSUME SlobInv, NEW p \in Pages, PageChange(p), BlocksChange(p), ListsChange(p)
    PROVE  SlobInv'
<1>1. PageTypes'
  BY DEF SlobInv, PageTypes, PageChange, BlocksChange, ListsChange
<1>2. BlocksFit'
  <2>1. ASSUME NEW b \in blocks'
        PROVE  /\ b.page \in Pages /\ (b.kind # "big" => IsBlock(b))
               /\ owner'[b.page] = IF b.kind = "big" THEN "big" ELSE "slob"
    <3>1. CASE b.page = p
      BY <3>1 DEF BlocksChange
    <3>2. CASE b.page # p
      <4>1. b \in blocks
        BY <3>2 DEF BlocksChange
      <4>. QED
        BY <3>2, <4>1 DEF SlobInv, BlocksFit, PageChange
    <3>. QED
      BY <3>1, <3>2
  <2>2. ASSUME NEW b \in blocks', NEW c \in blocks', b.page = c.page, b.kind = "big" PROVE b = c
    <3>1. CASE b.page = p
      BY <2>2, <3>1 DEF BlocksChange
    <3>2. CASE b.page # p
      <4>1. b \in blocks /\ c \in blocks
        BY <2>2, <3>2 DEF BlocksChange
      <4>. QED
        BY <2>2, <4>1 DEF SlobInv, BlocksFit
    <3>. QED
      BY <3>1, <3>2
  <2>3. (\A b \in rcu' : b \in blocks' /\ b.kind = "rcu") /\ wanted' \in [Threads -> SlobRequests \cup {NULL}]
    BY DEF BlocksChange
  <2>. QED
    BY <2>1, <2>2, <2>3 DEF BlocksFit
<1>3. \A q \in Pages : slab'[q] <=> owner'[q] = "slob"
  <2>1. ASSUME NEW q \in Pages, q # p PROVE slab'[q] <=> owner'[q] = "slob"
    BY <2>1 DEF SlobInv, PageChange
  <2>2. slab'[p] <=> owner'[p] = "slob"
    BY DEF PageChange
  <2>. QED
    BY <2>1, <2>2
<1>4. ASSUME NEW q \in Pages, owner'[q] = "slob"
      PROVE  SlobPage(mem'[q], free'[q], units'[q], Held(blocks', q)) /\ Held(blocks', q) # {}
  <2>1. CASE q = p
    BY <1>4, <2>1 DEF PageChange
  <2>2. CASE q # p
    <3>1. Held(blocks', q) = Held(blocks, q)
      BY <2>2 DEF BlocksChange, Held
    <3>2. owner[q] = "slob" /\ units'[q] = units[q] /\ free'[q] = free[q] /\ mem'[q] = mem[q]
      BY <1>4, <2>2 DEF PageChange
    <3>3. SlobPage(mem[q], free[q], units[q], Held(blocks, q))
      BY <3>2 DEF SlobInv
    <3>4. Held(blocks, q) # {}
      BY <3>2 DEF SlobInv, ListsHoldPartialPages, SlobPages, Held
    <3>. QED
      BY <3>1, <3>2, <3>3, <3>4
  <2>. QED
    BY <2>1, <2>2
<1>5. ListsHoldPartialPages'
  <2>1. ASSUME NEW q \in Pages
        PROVE  (\E l \in Lists : q \in Range(lists'[l])) <=> owner'[q] = "slob" /\ units'[q] > 0
    <3>1. CASE q = p
      BY <3>1 DEF ListsChange
    <3>2. CASE q # p
      <4>1. owner'[q] = owner[q] /\ units'[q] = units[q]
        BY <3>2 DEF PageChange
      <4>2. (\E l \in Lists : q \in Range(lists[l])) <=> owner[q] = "slob" /\ units[q] > 0
        BY DEF SlobInv, ListsHoldPartialPages, OnList
      <4>3. \A l \in Lists : q \in Range(lists'[l]) <=> q \in Range(lists[l])
        BY <3>2 DEF ListsChange
      <4>. QED
        BY <4>1, <4>2, <4>3
    <3>. QED
      BY <3>1, <3>2
  <2>2. ASSUME NEW k \in Lists, NEW l \in Lists, k # l, NEW q \in Range(lists'[k]), q \in Range(lists'[l])
        PROVE  FALSE
    <3>1. q \in Pages
      <4>1. lists'[k] \in Seq(Pages)
        BY DEF ListsChange
      <4>. QED
        BY <4>1 DEF Range
    <3>2. CASE q = p
      BY <2>2, <3>2 DEF ListsChange
    <3>3. CASE q # p
      <4>1. q \in Range(lists[k]) /\ q \in Range(lists[l])
        BY <2>2, <3>1, <3>3 DEF ListsChange
      <4>. QED
        BY <2>2, <4>1 DEF SlobInv, ListsHoldPartialPages
    <3>. QED
      BY <3>2, <3>3
  <2>3. \A k, l \in Lists : k # l => Range(lists'[k]) \cap Range(lists'[l]) = {}
    BY <2>2
  <2>4. \A q \in Pages : owner'[q] = "slob" => \E b \in blocks' : b.page = q
    BY <1>4 DEF Held
  <2>. QED
    BY <2>1, <2>3, <2>4 DEF ListsHoldPartialPages, OnList, SlobPages
<1>. QED
  BY <1>1, <1>2, <1>3, <1>4, <1>5 DEF SlobInv

(* The list at L becomes l, and only page p comes or goes.                 *)
LEMMA OneList ==
    ASSUME SlobInv, NEW p \in Pages, NEW L \in Lists, NEW l \in Seq(Pages), IsInjective(l),
           lists' = [lists EXCEPT ![L] = l],
           \A q : q # p => (q \in Range(l) <=> q \in Range(lists[L])),
           \A k \in Lists : k # L => p \notin Range(lists[k]),
           p \in Range(l) <=> owner'[p] = "slob" /\ units'[p] > 0
    PROVE  ListsChange(p)
<1>1. lists \in [Lists -> Seq(Pages)] /\ \A k \in Lists : IsInjective(lists[k])
  BY DEF SlobInv, PageTypes
<1>2. lists'[L] = l /\ \A k \in Lists : k # L => lists'[k] = lists[k]
  BY <1>1
<1>3. lists' \in [Lists -> Seq(Pages)]
  BY <1>1
<1>4. \A k \in Lists : IsInjective(lists'[k])
  BY <1>1, <1>2
<1>5. \A k \in Lists, q \in Pages : q # p => (q \in Range(lists'[k]) <=> q \in Range(lists[k]))
  BY <1>2
<1>6. \A k \in Lists : p \in Range(lists'[k]) => k = L
  BY <1>2
<1>7. (\E k \in Lists : p \in Range(lists'[k])) <=> owner'[p] = "slob" /\ units'[p] > 0
  BY <1>2, <1>6
<1>. QED
  BY <1>3, <1>4, <1>5, <1>6, <1>7 DEF ListsChange

-----------------------------------------------------------------------------
(* slob_alloc.                                                             *)

(* What Take does to page p: a block is added, and the rest is free.       *)
LEMMA TakeStep ==
    ASSUME SlobInv, NEW r \in SlobRequests, NEW p \in Pages, NEW m \in PageMemory, NEW first, NEW spare, NEW F,
           Chain(m, first, F), Tiled(Covers(m, F), Held(blocks, p), spare),
           NEW blk \in F, NEW prev, IsPrev(F, blk, prev),
           Units(r.size) + Delta(blk, r.align) <= SlobUnits(m, blk), NEW l,
           Take(r, p, m, first, spare, blk, prev, l)
    PROVE  /\ units' \in [Pages -> 0 .. PageUnits] /\ free' \in [Pages -> 0 .. PageUnits]
           /\ mem' \in [Pages -> PageMemory]
           /\ \A q \in Pages : q # p => units'[q] = units[q] /\ free'[q] = free[q] /\ mem'[q] = mem[q]
           /\ units'[p] = spare - Units(r.size) /\ spare \in Nat /\ Units(r.size) \in Nat \ {0}
           /\ SlobPage(mem'[p], free'[p], units'[p], Held(blocks', p))
           /\ \E b \in blocks' : b.page = p /\ b.kind = r.kind /\ IsBlock(b) /\ blocks' = blocks \cup {b}
           /\ lists' = [lists EXCEPT ![ListOf(r.size)] = l]
<1>0. PageUnits \in Nat \ {0}
  BY SlobConstants
<1>1. r.size \in 1 .. PAGE_SIZE - 1 /\ r.align \in Nat
  BY DEF SlobRequests
<1>2. PICK u \in Nat \ {0} : u = Units(r.size)
  <2>1. Units(r.size) \in 1 .. PageUnits
    BY <1>1, SlobConstants
  <2>. QED
    BY <1>0, <2>1
<1>3. blk \in Nat /\ SlobUnits(m, blk) \in Nat \ {0} /\ SlobNext(m, blk) \in Nat /\ blk + SlobUnits(m, blk) <= SlobNext(m, blk)
  <2>1. /\ blk \in 0 .. PageUnits - 1 /\ SlobUnits(m, blk) \in Nat \ {0} /\ SlobNext(m, blk) \in 1 .. PageUnits
    BY ChainTypes
  <2>2. blk + SlobUnits(m, blk) <= SlobNext(m, blk)
    BY DEF Chain
  <2>. QED
    BY <1>0, <2>1, <2>2
<1>4. PICK d \in Nat : d = Delta(blk, r.align)
  BY <1>1, <1>3, DeltaProps
<1>5. u + d <= SlobUnits(m, blk)
  BY <1>2, <1>4
<1>6. PICK c : c = Carve(m, first, blk, prev, u, d)
  OBVIOUS
<1>7. c.off = blk + d /\ FreeList(c.mem, c.free, Covers(m, F) \ (blk + d .. blk + d + u - 1))
  <2>1. CarvedOut(c, Covers(m, F), blk + d, u)
    BY <1>5, <1>6, CarveChain
  <2>. QED
    BY <2>1 DEF CarvedOut
<1>8. PICK b : b = [page |-> p, off |-> c.off, size |-> r.size, kind |-> r.kind]
  OBVIOUS
<1>9. b.page = p /\ b.off = blk + d /\ b.size = r.size /\ b.kind = r.kind
  BY <1>7, <1>8
<1>10. IsBlock(b) /\ UsedUnits(b) = blk + d .. blk + d + u - 1
  BY <1>2, <1>3, <1>9 DEF IsBlock, UsedUnits
<1>11. /\ units' = [units EXCEPT ![p] = spare - u] /\ free' = [free EXCEPT ![p] = c.free]
       /\ mem' = [mem EXCEPT ![p] = c.mem] /\ blocks' = blocks \cup {b}
       /\ lists' = [lists EXCEPT ![ListOf(r.size)] = l]
  BY <1>2, <1>4, <1>6, <1>8 DEF Take
<1>12. UsedUnits(b) \subseteq Covers(m, F)
  <2>. SUFFICES ASSUME NEW y \in UsedUnits(b) PROVE y \in Covers(m, F)
    OBVIOUS
  <2>1. PICK n \in Nat : n = SlobUnits(m, blk)
    BY <1>3
  <2>2. y \in Nat /\ blk <= y /\ y < blk + n
    BY <1>3, <1>5, <1>10, <2>1
  <2>3. y < SlobNext(m, blk)
    BY <1>3, <2>1, <2>2
  <2>. QED
    BY <2>1, <2>2, <2>3, BlockCovers
<1>13. Tiled(Covers(m, F) \ UsedUnits(b), Held(blocks, p) \cup {b}, spare - Units(b.size)) /\ spare >= Units(b.size)
  BY <1>10, <1>12, TileTake
<1>14. Held(blocks', p) = Held(blocks, p) \cup {b}
  BY <1>9, <1>11 DEF Held
<1>15. PICK F1 : /\ c.mem \in PageMemory /\ Chain(c.mem, c.free, F1)
                 /\ Covers(c.mem, F1) = Covers(m, F) \ UsedUnits(b)
  BY <1>7, <1>10 DEF FreeList
<1>16. Tiled(Covers(c.mem, F1), Held(blocks', p), spare - u)
  BY <1>2, <1>9, <1>13, <1>14, <1>15
<1>17. spare - u \in 0 .. PageUnits /\ spare \in Nat
  <2>1. spare - u \in 0 .. PageUnits
    BY <1>16, TiledFinite
  <2>2. spare \in 0 .. PageUnits
    BY TiledFinite
  <2>. QED
    BY <1>0, <2>1, <2>2
<1>18. c.free \in 0 .. PageUnits
  BY <1>15, ChainTypes
<1>19. /\ units \in [Pages -> 0 .. PageUnits] /\ free \in [Pages -> 0 .. PageUnits]
       /\ mem \in [Pages -> PageMemory]
  BY DEF SlobInv, PageTypes
<1>20. /\ units' \in [Pages -> 0 .. PageUnits] /\ free' \in [Pages -> 0 .. PageUnits]
       /\ mem' \in [Pages -> PageMemory]
  BY <1>11, <1>15, <1>17, <1>18, <1>19
<1>21. /\ units'[p] = spare - u /\ free'[p] = c.free /\ mem'[p] = c.mem
       /\ \A q \in Pages : q # p => units'[q] = units[q] /\ free'[q] = free[q] /\ mem'[q] = mem[q]
  BY <1>11, <1>19
<1>22. SlobPage(mem'[p], free'[p], units'[p], Held(blocks', p))
  BY <1>15, <1>16, <1>21 DEF SlobPage
<1>23. b \in blocks'
  BY <1>11
<1>. QED
  BY <1>2, <1>9, <1>10, <1>11, <1>17, <1>20, <1>21, <1>22, <1>23

(* The blocks, where one is added to a slob page.                          *)
LEMMA BlockAdded ==
    ASSUME SlobInv, NEW p \in Pages, owner'[p] = "slob", owner[p] # "big",
           NEW b, b.page = p, b.kind # "big", IsBlock(b), blocks' = blocks \cup {b},
           rcu' = rcu, wanted' \in [Threads -> SlobRequests \cup {NULL}], best_fit' = best_fit
    PROVE  BlocksChange(p)
<1>1. \A c : c.page # p => (c \in blocks' <=> c \in blocks)
  OBVIOUS
<1>2. \A c \in blocks : c.page = p => c.kind # "big" /\ IsBlock(c)
  BY DEF SlobInv, BlocksFit
<1>3. \A c \in blocks' : c.page = p => c.kind # "big" /\ IsBlock(c)
  BY <1>2
<1>4. \A c \in rcu' : c \in blocks' /\ c.kind = "rcu"
  BY DEF SlobInv, BlocksFit
<1>. QED
  BY <1>1, <1>3, <1>4 DEF BlocksChange

LEMMA SearchFoundStep ==
    ASSUME SlobInv, NEW r \in SlobRequests, SearchFound(r)
    PROVE  SlobInv'
<1>0. PageUnits \in Nat \ {0} /\ NULL \notin Nat
  BY SlobConstants
<1>1. PICK L \in Lists : L = ListOf(r.size)
  BY ListOfType
<1>2. PICK l \in Seq(Pages) : l = lists[L] /\ IsInjective(l)
  BY DEF SlobInv, PageTypes
<1>3. PICK hits : hits = {k \in DOMAIN l : units[l[k]] >= Units(r.size) /\ Roomy(l[k], r) # {}}
  OBVIOUS
<1>4. Hit(r) = IF hits = {} THEN NULL ELSE Min(hits)
  BY <1>1, <1>2, <1>3 DEF Hit
<1>5. Hit(r) # NULL /\ UNCHANGED << best_fit, owner, slab, rcu, wanted >>
  BY DEF SearchFound
<1>6. PICK k \in hits : k = Hit(r)
  <2>1. hits # {} /\ Hit(r) = Min(hits)
    BY <1>4, <1>5
  <2>2. hits \in SUBSET Nat
    BY <1>2, <1>3
  <2>3. Min(hits) \in hits
    BY <2>1, <2>2, LeastOf
  <2>. QED
    BY <2>1, <2>3
<1>7. k \in DOMAIN l /\ Roomy(l[k], r) # {}
  BY <1>3, <1>6
<1>8. PICK p \in Pages : p = l[k]
  BY <1>2, <1>7
<1>9. p \in Range(l) /\ OnList(p)
  BY <1>1, <1>2, <1>7, <1>8 DEF Range, OnList
<1>10. owner[p] = "slob" /\ units[p] > 0 /\ \A j \in Lists : j # L => p \notin Range(lists[j])
  BY <1>1, <1>2, <1>9 DEF SlobInv, ListsHoldPartialPages
<1>11. PICK F : mem[p] \in PageMemory /\ Chain(mem[p], free[p], F) /\ Tiled(Covers(mem[p], F), Held(blocks, p), units[p])
  BY <1>10 DEF SlobInv, SlobPage
<1>12. FreeOffsets(p) = F
  BY <1>11, ChainOffsets
<1>13. F \in SUBSET Nat
  BY <1>11, ChainTypes
<1>14. PICK blk \in Roomy(p, r) : blk = Min(Roomy(p, r))
  <2>1. Roomy(p, r) \in SUBSET Nat
    BY <1>12, <1>13 DEF Roomy
  <2>2. Min(Roomy(p, r)) \in Roomy(p, r)
    BY <1>7, <1>8, <2>1, LeastOf
  <2>. QED
    BY <2>2
<1>15. blk \in F /\ SlobUnits(mem[p], blk) >= Units(r.size) + Delta(blk, r.align) /\ blk \in Nat
  BY <1>12, <1>13, <1>14 DEF Roomy
<1>16. PICK prev : prev = PrevBlock(p, blk)
  OBVIOUS
<1>17. IsPrev(F, blk, prev)
  BY <1>12, <1>13, <1>15, <1>16, PrevBlockIs
<1>19. PICK l1 : l1 = ListAfter(l, k, units[p] = Units(r.size))
  OBVIOUS
<1>20. Take(r, p, mem[p], free[p], units[p], blk, prev, l1)
  BY <1>1, <1>2, <1>6, <1>8, <1>14, <1>16, <1>19 DEF SearchFound
<1>21. Units(r.size) + Delta(blk, r.align) <= SlobUnits(mem[p], blk)
  BY <1>15
<1>22. /\ units' \in [Pages -> 0 .. PageUnits] /\ free' \in [Pages -> 0 .. PageUnits]
       /\ mem' \in [Pages -> PageMemory]
       /\ \A q \in Pages : q # p => units'[q] = units[q] /\ free'[q] = free[q] /\ mem'[q] = mem[q]
       /\ units'[p] = units[p] - Units(r.size) /\ units[p] \in Nat /\ Units(r.size) \in Nat \ {0}
       /\ SlobPage(mem'[p], free'[p], units'[p], Held(blocks', p))
       /\ \E b \in blocks' : b.page = p /\ b.kind = r.kind /\ IsBlock(b) /\ blocks' = blocks \cup {b}
       /\ lists' = [lists EXCEPT ![ListOf(r.size)] = l1]
  BY <1>11, <1>15, <1>17, <1>20, <1>21, TakeStep
<1>23. PICK b \in blocks' : b.page = p /\ b.kind = r.kind /\ IsBlock(b) /\ blocks' = blocks \cup {b}
  BY <1>22
<1>24. PageChange(p)
  <2>1. owner' = owner /\ slab' = slab
    BY <1>5
  <2>2. owner \in [Pages -> {"none", "slob", "big"}] /\ slab \in [Pages -> BOOLEAN]
    BY DEF SlobInv, PageTypes
  <2>3. slab[p] <=> owner[p] = "slob"
    BY DEF SlobInv
  <2>4. Held(blocks', p) # {}
    BY <1>23 DEF Held
  <2>. QED
    BY <1>22, <2>1, <2>2, <2>3, <2>4 DEF PageChange
<1>25. BlocksChange(p)
  <2>1. owner'[p] = "slob" /\ owner[p] # "big" /\ rcu' = rcu /\ wanted' = wanted /\ best_fit' = best_fit
    BY <1>5, <1>10
  <2>2. wanted' \in [Threads -> SlobRequests \cup {NULL}]
    BY <2>1 DEF SlobInv, BlocksFit
  <2>3. b.kind # "big"
    BY <1>23 DEF SlobRequests
  <2>. QED
    BY <1>23, <2>1, <2>2, <2>3, BlockAdded
<1>26. ListsChange(p)
  <2>1. /\ l1 \in Seq(Pages) /\ IsInjective(l1)
        /\ Range(l1) = IF units[p] = Units(r.size) THEN Range(l) \ {p} ELSE Range(l)
    <3>1. CASE units[p] = Units(r.size)
      <4>1. l1 = ListAfter(l, k, TRUE)
        BY <1>19, <3>1 DEF ListAfter
      <4>. QED
        BY <1>2, <1>7, <1>8, <3>1, <4>1, ListAfterProps
    <3>2. CASE units[p] # Units(r.size)
      <4>1. l1 = ListAfter(l, k, FALSE)
        BY <1>19, <3>2 DEF ListAfter
      <4>. QED
        BY <1>2, <1>7, <1>8, <3>2, <4>1, ListAfterProps
    <3>. QED
      BY <3>1, <3>2
  <2>2. units[p] = Units(r.size) <=> units'[p] = 0
    BY <1>22
  <2>3. units'[p] \in Nat
    BY <1>0, <1>22
  <2>4. owner'[p] = "slob"
    BY <1>5, <1>10
  <2>5. p \in Range(l1) <=> owner'[p] = "slob" /\ units'[p] > 0
    BY <1>9, <2>1, <2>2, <2>3, <2>4
  <2>6. \A q : q # p => (q \in Range(l1) <=> q \in Range(lists[L]))
    BY <1>2, <2>1
  <2>7. lists' = [lists EXCEPT ![L] = l1]
    BY <1>1, <1>22
  <2>. QED
    BY <1>10, <2>1, <2>5, <2>6, <2>7, OneList
<1>. QED
  BY <1>24, <1>25, <1>26, PageStep

LEMMA NewPageStep ==
    ASSUME SlobInv, NEW t \in Threads, NewPage(t)
    PROVE  SlobInv'
<1>0. PageUnits \in Nat \ {0}
  BY SlobConstants
<1>1. PICK r \in SlobRequests : r = wanted[t]
  BY DEF NewPage, SlobInv, BlocksFit
<1>2. PICK L \in Lists : L = ListOf(r.size)
  BY ListOfType
<1>3. PICK l \in Seq(Pages) : l = lists[L] /\ IsInjective(l)
  BY DEF SlobInv, PageTypes
<1>4. PICK p \in Pages :
         /\ owner[p] = "none"
         /\ owner' = [owner EXCEPT ![p] = "slob"]
         /\ slab' = [slab EXCEPT ![p] = TRUE]
         /\ Take(r, p, SetSlob(mem[p], 0, PageUnits, PageUnits), 0, PageUnits, 0, NULL,
                 IF Units(r.size) = PageUnits THEN l ELSE << p >> \o l)
  BY <1>1, <1>2, <1>3 DEF NewPage
<1>5. wanted' = [wanted EXCEPT ![t] = NULL] /\ best_fit' = best_fit /\ rcu' = rcu
  BY DEF NewPage
<1>6. mem[p] \in PageMemory
  BY DEF SlobInv, PageTypes
<1>7. PICK m : m = SetSlob(mem[p], 0, PageUnits, PageUnits)
  OBVIOUS
<1>8. m \in PageMemory /\ SlobUnits(m, 0) = PageUnits
  <2>1. 0 \in 0 .. PageUnits - 1 /\ 0 + PageUnits <= PageUnits /\ PageUnits \in 1 .. PageUnits
    BY <1>0
  <2>. QED
    BY <1>0, <1>6, <1>7, <2>1, SetSlobProps
<1>9. PICK F : Chain(m, 0, F) /\ Covers(m, F) = 0 .. PageUnits - 1
  <2>1. FreeList(m, 0, 0 .. 0 + PageUnits - 1)
    <3>1. 0 + PageUnits <= PageUnits /\ 0 \in Nat
      BY <1>0
    <3>. QED
      BY <1>0, <1>6, <1>7, <3>1, OneBlock
  <2>2. 0 + PageUnits - 1 = PageUnits - 1
    BY <1>0
  <2>. QED
    BY <2>1, <2>2 DEF FreeList
<1>10. 0 \in F /\ IsPrev(F, 0, NULL)
  <2>1. 0 \in F
    BY <1>0, <1>9 DEF Chain
  <2>2. \A o \in F : 0 <= o
    BY <1>9 DEF Chain
  <2>. QED
    BY <2>1, <2>2 DEF IsPrev
<1>11. Held(blocks, p) = {}
  BY <1>4 DEF SlobInv, BlocksFit, Held
<1>12. Tiled(Covers(m, F), Held(blocks, p), PageUnits)
  <2>1. 0 \in Int /\ PageUnits - 1 \in Int /\ ~(0 > PageUnits - 1) /\ (PageUnits - 1) - 0 + 1 = PageUnits
    BY <1>0
  <2>2. Cardinality(0 .. PageUnits - 1) = PageUnits
    BY <2>1, FS_Interval
  <2>3. UNION {UsedUnits(b) : b \in Held(blocks, p)} = {}
    BY <1>11
  <2>. QED
    BY <1>9, <1>11, <2>2, <2>3 DEF Tiled
<1>13. PICK l1 : l1 = IF Units(r.size) = PageUnits THEN l ELSE << p >> \o l
  OBVIOUS
<1>14. r.size \in 1 .. PAGE_SIZE - 1 /\ r.align \in Nat /\ r.kind # "big"
  BY DEF SlobRequests
<1>15. Units(r.size) \in 1 .. PageUnits
  BY <1>14, SlobConstants
<1>16. Units(r.size) + Delta(0, r.align) <= SlobUnits(m, 0)
  <2>1. Delta(0, r.align) = 0
    BY <1>14, DeltaProps
  <2>. QED
    BY <1>8, <1>15, <2>1
<1>17. Take(r, p, m, 0, PageUnits, 0, NULL, l1)
  BY <1>4, <1>7, <1>13
<1>18. /\ units' \in [Pages -> 0 .. PageUnits] /\ free' \in [Pages -> 0 .. PageUnits]
       /\ mem' \in [Pages -> PageMemory]
       /\ \A q \in Pages : q # p => units'[q] = units[q] /\ free'[q] = free[q] /\ mem'[q] = mem[q]
       /\ units'[p] = PageUnits - Units(r.size)
       /\ SlobPage(mem'[p], free'[p], units'[p], Held(blocks', p))
       /\ \E b \in blocks' : b.page = p /\ b.kind = r.kind /\ IsBlock(b) /\ blocks' = blocks \cup {b}
       /\ lists' = [lists EXCEPT ![ListOf(r.size)] = l1]
  BY <1>8, <1>9, <1>10, <1>12, <1>16, <1>17, TakeStep
<1>19. PICK b \in blocks' : b.page = p /\ b.kind = r.kind /\ IsBlock(b) /\ blocks' = blocks \cup {b}
  BY <1>18
<1>20. owner \in [Pages -> {"none", "slob", "big"}] /\ slab \in [Pages -> BOOLEAN]
  BY DEF SlobInv, PageTypes
<1>21. owner'[p] = "slob" /\ slab'[p] = TRUE /\ \A q \in Pages : q # p => owner'[q] = owner[q] /\ slab'[q] = slab[q]
  BY <1>4, <1>20
<1>22. owner' \in [Pages -> {"none", "slob", "big"}] /\ slab' \in [Pages -> BOOLEAN]
  BY <1>4, <1>20
<1>23. PageChange(p)
  <2>1. Held(blocks', p) # {}
    BY <1>19 DEF Held
  <2>. QED
    BY <1>18, <1>21, <1>22, <2>1 DEF PageChange
<1>24. BlocksChange(p)
  <2>1. wanted' \in [Threads -> SlobRequests \cup {NULL}]
    BY <1>5 DEF SlobInv, BlocksFit
  <2>2. b.kind # "big" /\ owner[p] # "big"
    BY <1>4, <1>14, <1>19
  <2>. QED
    BY <1>5, <1>19, <1>21, <2>1, <2>2, BlockAdded
<1>25. ListsChange(p)
  <2>1. \A k \in Lists : p \notin Range(lists[k])
    BY <1>4 DEF SlobInv, ListsHoldPartialPages, OnList
  <2>2. /\ l1 \in Seq(Pages) /\ IsInjective(l1)
        /\ Range(l1) = IF Units(r.size) = PageUnits THEN Range(l) ELSE Range(l) \cup {p}
    BY <1>3, <1>13, <2>1, PushedOnto, ZenonT(40)
  <2>3. units'[p] > 0 <=> Units(r.size) # PageUnits
    BY <1>0, <1>15, <1>18
  <2>4. p \in Range(l1) <=> owner'[p] = "slob" /\ units'[p] > 0
    BY <1>3, <1>21, <2>1, <2>2, <2>3
  <2>5. \A q : q # p => (q \in Range(l1) <=> q \in Range(lists[L]))
    BY <1>3, <2>2
  <2>6. lists' = [lists EXCEPT ![L] = l1]
    BY <1>2, <1>18
  <2>. QED
    BY <2>1, <2>2, <2>4, <2>5, <2>6, OneList
<1>. QED
  BY <1>23, <1>24, <1>25, PageStep

-----------------------------------------------------------------------------
(* slob_free.                                                              *)

(* A block has left a slob page.                                           *)
LEMMA BlockGone ==
    ASSUME SlobInv, NEW b \in blocks, b.kind # "big", blocks' = blocks \ {b},
           owner'[b.page] = "slob" \/ Held(blocks, b.page) = {b},
           \A c \in rcu' : c \in rcu /\ c # b,
           wanted' = wanted, best_fit' = best_fit
    PROVE  BlocksChange(b.page)
<1>1. \A c : c.page # b.page => (c \in blocks' <=> c \in blocks)
  OBVIOUS
<1>2. owner[b.page] = "slob"
  BY DEF SlobInv, BlocksFit
<1>3. ASSUME NEW c \in blocks', c.page = b.page PROVE c.kind # "big" /\ IsBlock(c) /\ owner'[b.page] = "slob"
  <2>1. c \in blocks /\ c # b
    OBVIOUS
  <2>2. c.kind # "big" /\ IsBlock(c)
    BY <1>2, <1>3, <2>1 DEF SlobInv, BlocksFit
  <2>3. c \in Held(blocks, b.page)
    BY <1>3, <2>1 DEF Held
  <2>. QED
    BY <2>1, <2>2, <2>3
<1>4. \A c \in rcu' : c \in blocks' /\ c.kind = "rcu"
  BY DEF SlobInv, BlocksFit
<1>5. wanted' \in [Threads -> SlobRequests \cup {NULL}]
  BY DEF SlobInv, BlocksFit
<1>6. \A c \in blocks' : c.page = b.page => /\ c.kind # "big" => IsBlock(c)
                                            /\ owner'[b.page] = IF c.kind = "big" THEN "big" ELSE "slob"
  BY <1>3
<1>7. \A c, d \in blocks' : c.page = b.page /\ d.page = b.page /\ c.kind = "big" => c = d
  BY <1>3
<1>. QED
  BY <1>1, <1>4, <1>5, <1>6, <1>7 DEF BlocksChange

(* A page all free goes back.                                              *)
LEMMA FreePageStep ==
    ASSUME SlobInv, NEW b \in blocks, b.kind # "big", FreePage(b), blocks' = blocks \ {b},
           \A c \in rcu' : c \in rcu /\ c # b, wanted' = wanted, best_fit' = best_fit
    PROVE  SlobInv'
<1>0. PageUnits \in Nat \ {0}
  BY SlobConstants
<1>1. PICK p \in Pages : p = b.page
  BY DEF SlobInv, BlocksFit
<1>2. owner[p] = "slob"
  BY <1>1 DEF SlobInv, BlocksFit
<1>3. PICK F : mem[p] \in PageMemory /\ Chain(mem[p], free[p], F) /\ Tiled(Covers(mem[p], F), Held(blocks, p), units[p])
  BY <1>2 DEF SlobInv, SlobPage
<1>4. b \in Held(blocks, p) /\ \A c \in Held(blocks, p) : IsBlock(c)
  <2>1. ASSUME NEW c \in Held(blocks, p) PROVE IsBlock(c)
    BY <1>2 DEF SlobInv, BlocksFit, Held
  <2>. QED
    BY <1>1, <2>1 DEF Held
<1>5. Held(blocks, p) = {b}
  <2>1. units[p] + Units(b.size) = PageUnits
    BY <1>1 DEF FreePage
  <2>. QED
    BY <1>3, <1>4, <2>1, TileFree
<1>6. /\ owner \in [Pages -> {"none", "slob", "big"}] /\ slab \in [Pages -> BOOLEAN]
      /\ units \in [Pages -> 0 .. PageUnits] /\ free \in [Pages -> 0 .. PageUnits]
      /\ mem \in [Pages -> PageMemory]
      /\ lists \in [Lists -> Seq(Pages)] /\ \A l \in Lists : IsInjective(lists[l])
  BY DEF SlobInv, PageTypes
<1>7. /\ lists' = [l \in Lists |-> Unlink(lists[l], p)]
      /\ slab' = [slab EXCEPT ![p] = FALSE] /\ owner' = [owner EXCEPT ![p] = "none"]
      /\ units' = [units EXCEPT ![p] = 0] /\ free' = [free EXCEPT ![p] = PageUnits]
      /\ mem' = [mem EXCEPT ![p] = [o \in DOMAIN mem[p] |-> Data]]
  BY <1>1 DEF FreePage, RemoveFromLists
<1>8. PageChange(p)
  <2>1. [o \in DOMAIN mem[p] |-> Data] \in PageMemory
    BY <1>0, <1>3 DEF PageMemory, Data
  <2>2. 0 \in 0 .. PageUnits /\ PageUnits \in 0 .. PageUnits
    BY <1>0
  <2>3. /\ owner' \in [Pages -> {"none", "slob", "big"}] /\ slab' \in [Pages -> BOOLEAN]
        /\ units' \in [Pages -> 0 .. PageUnits] /\ free' \in [Pages -> 0 .. PageUnits]
    BY <1>6, <1>7, <2>2
  <2>4. mem' \in [Pages -> PageMemory]
    BY <1>6, <1>7, <2>1
  <2>5. owner'[p] = "none" /\ slab'[p] = FALSE
    BY <1>6, <1>7
  <2>6. \A q \in Pages : q # p =>
          /\ owner'[q] = owner[q] /\ slab'[q] = slab[q]
          /\ units'[q] = units[q] /\ free'[q] = free[q] /\ mem'[q] = mem[q]
    BY <1>6, <1>7
  <2>. QED
    BY <2>3, <2>4, <2>5, <2>6 DEF PageChange
<1>9. BlocksChange(p)
  BY <1>1, <1>5, BlockGone
<1>10. ListsChange(p)
  <2>1. ASSUME NEW l \in Lists
        PROVE  lists'[l] \in Seq(Pages) /\ IsInjective(lists'[l]) /\ Range(lists'[l]) = Range(lists[l]) \ {p}
    <3>1. lists'[l] = Unlink(lists[l], p)
      BY <1>7
    <3>2. lists[l] \in Seq(Pages) /\ IsInjective(lists[l])
      BY <1>6
    <3>. QED
      BY <3>1, <3>2, UnlinkProps
  <2>2. lists' \in [Lists -> Seq(Pages)]
    BY <1>7, <2>1
  <2>3. owner'[p] = "none"
    BY <1>6, <1>7
  <2>4. \A l \in Lists : p \notin Range(lists'[l])
    BY <2>1
  <2>5. \A l \in Lists, q \in Pages : q # p => (q \in Range(lists'[l]) <=> q \in Range(lists[l]))
    BY <2>1
  <2>. QED
    BY <2>1, <2>2, <2>3, <2>4, <2>5 DEF ListsChange
<1>. QED
  BY <1>8, <1>9, <1>10, PageStep

(* The block joins the page's list.                                        *)
LEMMA PutBackStep ==
    ASSUME SlobInv, NEW b \in blocks, b.kind # "big", FreeFirst(b) \/ FreeInto(b), blocks' = blocks \ {b},
           \A c \in rcu' : c \in rcu /\ c # b, wanted' = wanted, best_fit' = best_fit
    PROVE  SlobInv'
<1>0. PageUnits \in Nat \ {0}
  BY SlobConstants
<1>1. PICK p \in Pages : p = b.page
  BY DEF SlobInv, BlocksFit
<1>2. owner[p] = "slob"
  BY <1>1 DEF SlobInv, BlocksFit
<1>3. PICK F : mem[p] \in PageMemory /\ Chain(mem[p], free[p], F) /\ Tiled(Covers(mem[p], F), Held(blocks, p), units[p])
  BY <1>2 DEF SlobInv, SlobPage
<1>4. b \in Held(blocks, p) /\ \A c \in Held(blocks, p) : IsBlock(c)
  <2>1. ASSUME NEW c \in Held(blocks, p) PROVE IsBlock(c)
    BY <1>2 DEF SlobInv, BlocksFit, Held
  <2>. QED
    BY <1>1, <2>1 DEF Held
<1>5. PICK u \in Nat \ {0} : u = Units(b.size)
  BY <1>4 DEF IsBlock
<1>6. PICK o \in Nat : o = b.off
  BY <1>4 DEF IsBlock
<1>7. /\ owner \in [Pages -> {"none", "slob", "big"}] /\ slab \in [Pages -> BOOLEAN]
      /\ units \in [Pages -> 0 .. PageUnits] /\ free \in [Pages -> 0 .. PageUnits]
      /\ mem \in [Pages -> PageMemory]
      /\ lists \in [Lists -> Seq(Pages)] /\ \A l \in Lists : IsInjective(lists[l])
  BY DEF SlobInv, PageTypes
<1>8. /\ Tiled(Covers(mem[p], F) \cup UsedUnits(b), Held(blocks, p) \ {b}, units[p] + u)
      /\ units[p] + u = PageUnits <=> Held(blocks, p) = {b}
      /\ units[p] + u <= PageUnits /\ o + u <= PageUnits
  <2>1. PICK U : U = Covers(mem[p], F)
    OBVIOUS
  <2>2. Tiled(U, Held(blocks, p), units[p])
    BY <1>3, <2>1
  <2>3. /\ Tiled(U \cup UsedUnits(b), Held(blocks, p) \ {b}, units[p] + Units(b.size))
        /\ units[p] + Units(b.size) = PageUnits <=> Held(blocks, p) = {b}
        /\ units[p] + Units(b.size) <= PageUnits /\ b.off + Units(b.size) <= PageUnits
    BY <1>4, <2>2, TileFree
  <2>. QED
    BY <1>5, <1>6, <2>1, <2>3
<1>9. units[p] + u # PageUnits /\ owner' = owner /\ slab' = slab
  BY <1>1, <1>5 DEF FreeFirst, FreeInto
<1>10. Held(blocks', p) = Held(blocks, p) \ {b} /\ Held(blocks', p) # {}
  <2>1. Held(blocks', p) = Held(blocks, p) \ {b}
    BY DEF Held
  <2>. QED
    BY <1>4, <1>8, <1>9, <2>1
<1>11. UsedUnits(b) = o .. o + u - 1 /\ \A y \in Covers(mem[p], F) : ~(o <= y /\ y < o + u)
  <2>1. UsedUnits(b) \cap Covers(mem[p], F) = {}
    BY <1>3, <1>4 DEF Tiled
  <2>2. UsedUnits(b) = o .. o + u - 1
    BY <1>5, <1>6 DEF UsedUnits
  <2>3. \A y \in Covers(mem[p], F) : y \in Nat
    BY <1>0, <1>3, TiledFinite
  <2>4. \A y \in Nat : o <= y /\ y < o + u => y \in o .. o + u - 1
    OBVIOUS
  <2>. QED
    BY <2>1, <2>2, <2>3, <2>4
<1>12. units[p] \in Nat /\ units[p] + u \in 0 .. PageUnits /\ o \in 0 .. PageUnits
  <2>1. units[p] \in 0 .. PageUnits
    BY <1>7
  <2>. QED
    BY <1>0, <1>8, <2>1
<1>13. OnList(p) <=> units[p] > 0
  BY <1>2 DEF SlobInv, ListsHoldPartialPages
<1>14. units[p] = 0 <=> Covers(mem[p], F) = {}
  BY <1>3, TiledFinite
<1>. DEFINE New(f, M) == /\ units' = [units EXCEPT ![p] = units[p] + u]
                         /\ free' = [free EXCEPT ![p] = f] /\ mem' = [mem EXCEPT ![p] = M]
                         /\ FreeList(M, f, Covers(mem[p], F) \cup (o .. o + u - 1))
<1>15. (\E f, M : New(f, M)) /\ ListsChange(p)
  <2>1. CASE FreeFirst(b)
    <3>1. /\ units[p] = 0 /\ ~OnList(p)
      <4>1. ~OnList(p)
        BY <1>1, <2>1 DEF FreeFirst
      <4>. QED
        BY <1>12, <1>13, <4>1
    <3>2. /\ units' = [units EXCEPT ![p] = u] /\ free' = [free EXCEPT ![p] = o]
          /\ mem' = [mem EXCEPT ![p] = SetSlob(mem[p], o, u, PageUnits)]
          /\ lists' = [lists EXCEPT ![ListOf(b.size)] = << p >> \o lists[ListOf(b.size)]]
      BY <1>1, <1>5, <1>6, <2>1 DEF FreeFirst
    <3>3. units[p] + u = u /\ Covers(mem[p], F) \cup (o .. o + u - 1) = o .. o + u - 1
      BY <1>14, <3>1
    <3>4. FreeList(SetSlob(mem[p], o, u, PageUnits), o, o .. o + u - 1)
      BY <1>3, <1>8, OneBlock
    <3>5. New(o, SetSlob(mem[p], o, u, PageUnits))
      BY <3>2, <3>3, <3>4
    <3>6. PICK L \in Lists : L = ListOf(b.size)
      BY ListOfType
    <3>7. PICK l : l = << p >> \o lists[L]
      OBVIOUS
    <3>8. lists[L] \in Seq(Pages) /\ IsInjective(lists[L]) /\ \A k \in Lists : p \notin Range(lists[k])
      BY <1>7, <3>1 DEF OnList
    <3>9. l \in Seq(Pages) /\ IsInjective(l) /\ Range(l) = Range(lists[L]) \cup {p}
      BY <3>7, <3>8, PushedOnto
    <3>10. lists' = [lists EXCEPT ![L] = l]
      BY <3>2, <3>6, <3>7
    <3>11. owner'[p] = "slob" /\ units'[p] > 0
      BY <1>2, <1>7, <1>9, <3>2
    <3>12. p \in Range(l) <=> owner'[p] = "slob" /\ units'[p] > 0
      BY <3>9, <3>11
    <3>13. \A q : q # p => (q \in Range(l) <=> q \in Range(lists[L]))
      BY <3>9
    <3>14. ListsChange(p)
      BY <3>8, <3>9, <3>10, <3>12, <3>13, OneList
    <3>. QED
      BY <3>5, <3>14
  <2>2. CASE FreeInto(b)
    <3>1. OnList(p) /\ units[p] > 0 /\ Covers(mem[p], F) # {}
      <4>1. OnList(p)
        BY <1>1, <2>2 DEF FreeInto
      <4>. QED
        BY <1>12, <1>13, <1>14, <4>1
    <3>2. /\ units' = [units EXCEPT ![p] = units[p] + u]
          /\ free' = [free EXCEPT ![p] = IF o < free[p] THEN o ELSE free[p]]
          /\ mem' = [mem EXCEPT ![p] = IF o < free[p] THEN PutFirst(mem[p], free[p], o, u)
                                       ELSE PutAfter(mem[p], PrevBlock(p, o), o, u)]
          /\ lists' = lists
      BY <1>1, <1>5, <1>6, <2>2 DEF FreeInto
    <3>3. free[p] \in F /\ free[p] \in Covers(mem[p], F) /\ free[p] \in Nat
      <4>1. free[p] \in 0 .. PageUnits
        BY <1>7
      <4>. QED
        BY <1>0, <1>3, <3>1, <4>1, FirstBlock
    <3>4. ASSUME o < free[p] PROVE \E f, M : New(f, M)
      <4>1. FreeList(PutFirst(mem[p], free[p], o, u), o, Covers(mem[p], F) \cup (o .. o + u - 1))
        BY <1>3, <1>11, <3>3, <3>4, PutFirstList
      <4>2. New(o, PutFirst(mem[p], free[p], o, u))
        BY <3>2, <3>4, <4>1
      <4>. QED
        BY <4>2
    <3>5. ASSUME ~(o < free[p]) PROVE \E f, M : New(f, M)
      <4>1. free[p] < o
        <5>1. ~(o <= free[p] /\ free[p] < o + u)
          BY <1>11, <3>3
        <5>. QED
          BY <3>3, <3>5, <5>1
      <4>2. PICK prev : prev = PrevBlock(p, o)
        OBVIOUS
      <4>3. F \in SUBSET Nat /\ FreeOffsets(p) = F
        BY <1>3, ChainOffsets, ChainTypes
      <4>4. IsPrev(F, o, prev)
        BY <4>2, <4>3, PrevBlockIs
      <4>5. prev \in F
        <5>1. ~(o <= free[p])
          BY <3>3, <4>1
        <5>. QED
          BY <3>3, <4>4, <5>1 DEF IsPrev
      <4>6. FreeList(PutAfter(mem[p], prev, o, u), free[p], Covers(mem[p], F) \cup (o .. o + u - 1))
        BY <1>3, <1>8, <1>11, <4>4, <4>5, PutAfterList
      <4>7. New(free[p], PutAfter(mem[p], prev, o, u))
        BY <3>2, <3>5, <4>2, <4>6
      <4>. QED
        BY <4>7
    <3>6. ListsChange(p)
      <4>1. owner'[p] = "slob" /\ units'[p] > 0
        BY <1>2, <1>7, <1>9, <1>12, <3>2
      <4>2. \A k, l \in Lists : p \in Range(lists[k]) /\ p \in Range(lists[l]) => k = l
        BY DEF SlobInv, ListsHoldPartialPages
      <4>3. \E l \in Lists : p \in Range(lists[l])
        BY <3>1 DEF OnList
      <4>. QED
        BY <1>7, <3>2, <4>1, <4>2, <4>3 DEF ListsChange
    <3>7. \E f, M : New(f, M)
      BY <3>4, <3>5
    <3>. QED
      BY <3>6, <3>7
  <2>. QED
    BY <2>1, <2>2
<1>16. PICK f, M : New(f, M)
  BY <1>15
<1>17. PICK F1 : M \in PageMemory /\ Chain(M, f, F1) /\ Covers(M, F1) = Covers(mem[p], F) \cup UsedUnits(b)
  BY <1>11, <1>16 DEF FreeList
<1>18. SlobPage(M, f, units[p] + u, Held(blocks', p))
  BY <1>8, <1>10, <1>17 DEF SlobPage
<1>19. f \in 0 .. PageUnits
  BY <1>17, ChainTypes
<1>20. /\ units' \in [Pages -> 0 .. PageUnits] /\ free' \in [Pages -> 0 .. PageUnits]
       /\ mem' \in [Pages -> PageMemory]
  BY <1>7, <1>12, <1>16, <1>17, <1>19
<1>21. /\ units'[p] = units[p] + u /\ free'[p] = f /\ mem'[p] = M
       /\ \A q \in Pages : q # p => units'[q] = units[q] /\ free'[q] = free[q] /\ mem'[q] = mem[q]
  BY <1>7, <1>16
<1>22. PageChange(p)
  <2>1. SlobPage(mem'[p], free'[p], units'[p], Held(blocks', p))
    BY <1>18, <1>21
  <2>2. slab[p] <=> owner[p] = "slob"
    BY DEF SlobInv
  <2>. QED
    BY <1>7, <1>9, <1>10, <1>20, <1>21, <2>1, <2>2 DEF PageChange
<1>23. BlocksChange(p)
  <2>1. owner'[b.page] = "slob"
    BY <1>1, <1>2, <1>9
  <2>. QED
    BY <1>1, <2>1, BlockGone
<1>. QED
  BY <1>15, <1>22, <1>23, PageStep

LEMMA SlobFreeStep ==
    ASSUME SlobInv, NEW b \in blocks, b.kind # "big", SlobFree(b), blocks' = blocks \ {b},
           \A c \in rcu' : c \in rcu /\ c # b, wanted' = wanted, best_fit' = best_fit
    PROVE  SlobInv'
  BY FreePageStep, PutBackStep DEF SlobFree

-----------------------------------------------------------------------------
(* The callers.                                                            *)

LEMMA SlobInitInv == SlobInit => SlobInv
<1>. SUFFICES ASSUME SlobInit PROVE SlobInv
  OBVIOUS
<1>. USE DEF SlobInit
<1>0. PageUnits \in Nat \ {0}
  BY SlobConstants
<1>1. PageTypes
  <2>1. [o \in 0 .. PageUnits - 1 |-> Data] \in PageMemory
    BY <1>0 DEF PageMemory, Data
  <2>2. 0 \in 0 .. PageUnits /\ PageUnits \in 0 .. PageUnits
    BY <1>0
  <2>3. << >> \in Seq(Pages) /\ IsInjective(<< >>)
    BY DEF IsInjective
  <2>4. mem \in [Pages -> PageMemory]
    BY <2>1
  <2>5. lists \in [Lists -> Seq(Pages)] /\ \A l \in Lists : IsInjective(lists[l])
    BY <2>3
  <2>6. units \in [Pages -> 0 .. PageUnits] /\ free \in [Pages -> 0 .. PageUnits]
    BY <2>2
  <2>. QED
    BY <2>4, <2>5, <2>6 DEF PageTypes
<1>2. BlocksFit
  BY DEF BlocksFit
<1>3. \A p \in Pages : ~slab[p] /\ owner[p] = "none"
  OBVIOUS
<1>4. ListsHoldPartialPages
  <2>1. \A l \in Lists : Range(lists[l]) = {}
    BY DEF Range
  <2>. QED
    BY <1>3, <2>1 DEF ListsHoldPartialPages, OnList, SlobPages
<1>. QED
  BY <1>1, <1>2, <1>3, <1>4 DEF SlobInv

(* A page given out whole, and given back.                                 *)
LEMMA WholePageStep ==
    ASSUME SlobInv, NEW p \in Pages, owner[p] # "slob", owner' \in [Pages -> {"none", "slob", "big"}],
           \A q \in Pages : q # p => owner'[q] = owner[q], owner'[p] # "slob",
           \A c : c.page # p => (c \in blocks' <=> c \in blocks),
           \A c \in blocks' : c.page = p => c.kind = "big" /\ owner'[p] = "big",
           \A c, d \in blocks' : c.page = p /\ d.page = p => c = d,
           UNCHANGED << best_fit, slab, units, free, mem, lists, rcu, wanted >>
    PROVE  SlobInv'
<1>1. PageChange(p)
  <2>1. ~slab[p]
    BY DEF SlobInv
  <2>. QED
    BY <2>1 DEF SlobInv, PageTypes, PageChange
<1>2. BlocksChange(p)
  <2>1. ASSUME NEW c \in rcu PROVE c \in blocks' /\ c.kind = "rcu"
    <3>1. c \in blocks /\ c.kind = "rcu"
      BY DEF SlobInv, BlocksFit
    <3>2. owner[c.page] = "slob"
      BY <3>1 DEF SlobInv, BlocksFit
    <3>. QED
      BY <3>1, <3>2
  <2>2. wanted' \in [Threads -> SlobRequests \cup {NULL}] /\ rcu' = rcu /\ best_fit' = best_fit
    BY DEF SlobInv, BlocksFit
  <2>. QED
    BY <2>1, <2>2 DEF BlocksChange
<1>3. ListsChange(p)
  <2>1. \A l \in Lists : p \notin Range(lists[l])
    BY DEF SlobInv, ListsHoldPartialPages, OnList
  <2>. QED
    BY <2>1 DEF SlobInv, PageTypes, ListsChange
<1>. QED
  BY <1>1, <1>2, <1>3, PageStep

(* A step that leaves the pages and the blocks alone.                      *)
LEMMA PagesAlone ==
    ASSUME SlobInv, UNCHANGED << best_fit, pages, blocks >>, \A b \in rcu' : b \in blocks /\ b.kind = "rcu",
           wanted' \in [Threads -> SlobRequests \cup {NULL}]
    PROVE  SlobInv'
<1>. USE DEF pages
<1>1. PageTypes'
  BY DEF SlobInv, PageTypes
<1>2. BlocksFit'
  BY DEF SlobInv, BlocksFit
<1>3. ListsHoldPartialPages'
  BY DEF SlobInv, ListsHoldPartialPages, OnList, SlobPages
<1>4. /\ \A p \in Pages : slab'[p] <=> owner'[p] = "slob"
      /\ \A p \in Pages : owner'[p] = "slob" => SlobPage(mem'[p], free'[p], units'[p], Held(blocks', p))
  BY DEF SlobInv
<1>. QED
  BY <1>1, <1>2, <1>3, <1>4 DEF SlobInv

LEMMA SlobAllocStep ==
    ASSUME SlobInv, NEW t \in Threads, NEW r \in SlobRequests, SlobAlloc(t, r)
    PROVE  SlobInv'
<1>1. CASE SearchFound(r)
  BY <1>1, SearchFoundStep
<1>2. CASE SearchFailed(t, r)
  <2>1. UNCHANGED << best_fit, pages, blocks >> /\ rcu' = rcu /\ wanted' = [wanted EXCEPT ![t] = r]
    BY <1>2 DEF SearchFailed
  <2>2. wanted' \in [Threads -> SlobRequests \cup {NULL}]
    BY <2>1 DEF SlobInv, BlocksFit
  <2>3. \A b \in rcu' : b \in blocks /\ b.kind = "rcu"
    BY <2>1 DEF SlobInv, BlocksFit
  <2>. QED
    BY <2>1, <2>2, <2>3, PagesAlone
<1>. QED
  BY <1>1, <1>2 DEF SlobAlloc

LEMMA KmallocPageStep ==
    ASSUME SlobInv, NEW sz \in KmallocSizes, KmallocPage(sz)
    PROVE  SlobInv'
<1>1. PICK p \in Pages :
         /\ owner[p] = "none"
         /\ owner' = [owner EXCEPT ![p] = "big"]
         /\ blocks' = blocks \cup {[page |-> p, off |-> 0, size |-> sz, kind |-> "big"]}
  BY DEF KmallocPage
<1>2. PICK b : b = [page |-> p, off |-> 0, size |-> sz, kind |-> "big"]
  OBVIOUS
<1>3. b.page = p /\ b.kind = "big" /\ blocks' = blocks \cup {b}
  BY <1>1, <1>2
<1>4. \A c \in blocks : c.page # p
  BY <1>1 DEF SlobInv, BlocksFit
<1>5. owner \in [Pages -> {"none", "slob", "big"}]
  BY DEF SlobInv, PageTypes
<1>6. /\ owner' \in [Pages -> {"none", "slob", "big"}] /\ owner'[p] = "big"
      /\ \A q \in Pages : q # p => owner'[q] = owner[q]
  BY <1>1, <1>5
<1>7. UNCHANGED << best_fit, slab, units, free, mem, lists, rcu, wanted >>
  BY DEF KmallocPage
<1>8. \A c : c.page # p => (c \in blocks' <=> c \in blocks)
  BY <1>3
<1>9. \A c \in blocks' : c.page = p => c = b
  BY <1>3, <1>4
<1>10. /\ \A c \in blocks' : c.page = p => c.kind = "big" /\ owner'[p] = "big"
       /\ \A c, d \in blocks' : c.page = p /\ d.page = p => c = d
  BY <1>3, <1>6, <1>9
<1>11. owner[p] # "slob" /\ owner'[p] # "slob"
  BY <1>1, <1>6
<1>. QED
  BY <1>6, <1>7, <1>8, <1>10, <1>11, WholePageStep

LEMMA KfreeStep ==
    ASSUME SlobInv, NEW b \in blocks, Kfree(b)
    PROVE  SlobInv'
<1>1. PICK p \in Pages : p = b.page
  BY DEF SlobInv, BlocksFit
<1>2. /\ b.kind \in {"kmalloc", "big"} /\ blocks' = blocks \ {b}
      /\ best_fit' = best_fit /\ rcu' = rcu /\ wanted' = wanted
  BY DEF Kfree
<1>3. slab[p] <=> owner[p] = "slob"
  BY DEF SlobInv
<1>4. owner[p] = IF b.kind = "big" THEN "big" ELSE "slob"
  BY <1>1 DEF SlobInv, BlocksFit
<1>5. b \notin rcu
  BY <1>2 DEF SlobInv, BlocksFit
<1>6. CASE slab[p]
  <2>1. SlobFree(b) /\ b.kind # "big"
    BY <1>1, <1>3, <1>4, <1>6 DEF Kfree
  <2>2. \A c \in rcu' : c \in rcu /\ c # b
    BY <1>2, <1>5
  <2>. QED
    BY <1>2, <2>1, <2>2, SlobFreeStep
<1>7. CASE ~slab[p]
  <2>1. b.kind = "big" /\ owner[p] = "big"
    BY <1>2, <1>3, <1>4, <1>7
  <2>2. owner' = [owner EXCEPT ![p] = "none"] /\ UNCHANGED << slab, units, free, mem, lists >>
    BY <1>1, <1>7 DEF Kfree
  <2>3. owner \in [Pages -> {"none", "slob", "big"}]
    BY DEF SlobInv, PageTypes
  <2>4. /\ owner' \in [Pages -> {"none", "slob", "big"}] /\ owner'[p] = "none"
        /\ \A q \in Pages : q # p => owner'[q] = owner[q]
    BY <2>2, <2>3
  <2>5. \A c \in blocks' : c.page # p
    <3>1. ASSUME NEW c \in blocks, c.page = p PROVE c = b
      BY <1>1, <2>1, <3>1 DEF SlobInv, BlocksFit
    <3>. QED
      BY <1>2, <3>1
  <2>6. \A c : c.page # p => (c \in blocks' <=> c \in blocks)
    BY <1>1, <1>2
  <2>7. owner[p] # "slob" /\ owner'[p] # "slob"
    BY <2>1, <2>4
  <2>8. UNCHANGED << best_fit, slab, units, free, mem, lists, rcu, wanted >>
    BY <1>2, <2>2
  <2>9. /\ \A c \in blocks' : c.page = p => c.kind = "big" /\ owner'[p] = "big"
        /\ \A c, d \in blocks' : c.page = p /\ d.page = p => c = d
    BY <2>5
  <2>. QED
    BY <2>4, <2>6, <2>7, <2>8, <2>9, WholePageStep
<1>. QED
  BY <1>6, <1>7

LEMMA SlobStepInv ==
    ASSUME SlobInv, SlobStep
    PROVE  SlobInv'
<1>0. PAGE_SIZE \in Nat \ {0} /\ KmallocAlign \in Nat \ {0} /\ CacheAlign \in Nat
  BY SlobConstants
<1>1. ASSUME NEW t \in Threads, NEW sz \in KmallocSizes, Kmalloc(t, sz) PROVE SlobInv'
  <2>1. PICK r : r = [size |-> sz + KmallocAlign, align |-> KmallocAlign, kind |-> "kmalloc"]
    OBVIOUS
  <2>2. sz > 0 /\ sz < PAGE_SIZE - KmallocAlign /\ SlobAlloc(t, r)
    BY <1>1, <2>1 DEF Kmalloc
  <2>3. sz \in Nat
    BY <1>0, SlobAssumption
  <2>4. sz + KmallocAlign \in 1 .. PAGE_SIZE - 1 /\ KmallocAlign \in Nat
    BY <1>0, <2>2, <2>3
  <2>5. r \in SlobRequests
    BY <2>1, <2>4 DEF SlobRequests
  <2>. QED
    BY <2>2, <2>5, SlobAllocStep
<1>2. ASSUME NEW t \in Threads, NEW sz \in CacheSizes \cup RcuSizes, NEW kind \in {"cache", "rcu"},
             CacheAlloc(t, sz, kind)
      PROVE  SlobInv'
  <2>1. PICK r : r = [size |-> sz, align |-> CacheAlign, kind |-> kind]
    OBVIOUS
  <2>2. sz \in 1 .. PAGE_SIZE - 1
    BY SlobAssumption
  <2>3. r \in SlobRequests
    BY <1>0, <2>1, <2>2 DEF SlobRequests
  <2>4. SlobAlloc(t, r)
    BY <1>2, <2>1 DEF CacheAlloc
  <2>. QED
    BY <2>3, <2>4, SlobAllocStep
<1>3. ASSUME NEW t \in Threads, NoPage(t) PROVE SlobInv'
  <2>1. UNCHANGED << best_fit, pages, blocks >> /\ rcu' = rcu /\ wanted' = [wanted EXCEPT ![t] = NULL]
    BY <1>3 DEF NoPage
  <2>2. wanted' \in [Threads -> SlobRequests \cup {NULL}] /\ \A b \in rcu' : b \in blocks /\ b.kind = "rcu"
    BY <2>1 DEF SlobInv, BlocksFit
  <2>. QED
    BY <2>1, <2>2, PagesAlone
<1>4. ASSUME NEW b \in blocks, CacheFree(b) PROVE SlobInv'
  <2>1. /\ b.kind = "cache" /\ SlobFree(b) /\ blocks' = blocks \ {b}
        /\ best_fit' = best_fit /\ rcu' = rcu /\ wanted' = wanted
    BY <1>4 DEF CacheFree
  <2>2. b.kind # "big" /\ \A c \in rcu' : c \in rcu /\ c # b
    BY <2>1 DEF SlobInv, BlocksFit
  <2>. QED
    BY <2>1, <2>2, SlobFreeStep
<1>5. ASSUME NEW b \in blocks, CacheFreeRcu(b) PROVE SlobInv'
  <2>1. b.kind = "rcu" /\ rcu' = rcu \cup {b} /\ UNCHANGED << best_fit, pages, blocks >> /\ wanted' = wanted
    BY <1>5 DEF CacheFreeRcu
  <2>2. wanted' \in [Threads -> SlobRequests \cup {NULL}] /\ \A c \in rcu' : c \in blocks /\ c.kind = "rcu"
    BY <2>1 DEF SlobInv, BlocksFit
  <2>. QED
    BY <2>1, <2>2, PagesAlone
<1>6. ASSUME NEW b \in blocks, RcuFree(b) PROVE SlobInv'
  <2>1. /\ b \in rcu /\ SlobFree(b) /\ blocks' = blocks \ {b} /\ rcu' = rcu \ {b}
        /\ best_fit' = best_fit /\ wanted' = wanted
    BY <1>6 DEF RcuFree
  <2>2. b.kind # "big" /\ \A c \in rcu' : c \in rcu /\ c # b
    BY <2>1 DEF SlobInv, BlocksFit
  <2>. QED
    BY <2>1, <2>2, SlobFreeStep
<1>7. ASSUME NEW t \in Threads, NEW sz \in CacheSizes, CacheAlloc(t, sz, "cache") PROVE SlobInv'
  BY <1>2, <1>7
<1>8. ASSUME NEW t \in Threads, NEW sz \in RcuSizes, CacheAlloc(t, sz, "rcu") PROVE SlobInv'
  BY <1>2, <1>8
<1>. QED
  BY <1>1, <1>3, <1>4, <1>5, <1>6, <1>7, <1>8, NewPageStep, KmallocPageStep, KfreeStep DEF SlobStep

(* Every state of the allocator has the inductive invariant SlobInv.       *)
THEOREM SlobInvariant == SlobSpec => []SlobInv
<1>1. SlobInv /\ [SlobStep]_slob_vars => SlobInv'
  <2>. SUFFICES ASSUME SlobInv, [SlobStep]_slob_vars PROVE SlobInv'
    OBVIOUS
  <2>1. CASE SlobStep
    BY <2>1, SlobStepInv
  <2>2. CASE UNCHANGED slob_vars
    <3>1. UNCHANGED << best_fit, pages, blocks >> /\ rcu' = rcu /\ wanted' = wanted
      BY <2>2 DEF slob_vars, clients
    <3>2. wanted' \in [Threads -> SlobRequests \cup {NULL}] /\ \A c \in rcu' : c \in blocks /\ c.kind = "rcu"
      BY <3>1 DEF SlobInv, BlocksFit
    <3>. QED
      BY <3>1, <3>2, PagesAlone
  <2>. QED
    BY <2>1, <2>2
<1>. QED
  BY <1>1, SlobInitInv, PTL DEF SlobSpec

(* The variables keep their types, no list has a page twice, and only a    *)
(* block in use waits for RCU (slob.c:197-207, 562-618, 636-724).          *)
THEOREM SlobTypeCorrect == SlobSpec => []SlobTypeOK
<1>1. SlobInv => SlobTypeOK
  <2>. SUFFICES ASSUME SlobInv PROVE SlobTypeOK
    OBVIOUS
  <2>1. \A p \in Pages : mem[p] \in [0 .. PageUnits - 1 -> -PageUnits .. PageUnits]
    BY DEF SlobInv, PageTypes, PageMemory
  <2>2. ASSUME NEW l \in Lists PROVE IsInjective(lists[l]) /\ Range(lists[l]) \subseteq Pages
    <3>1. lists[l] \in Seq(Pages) /\ IsInjective(lists[l])
      BY DEF SlobInv, PageTypes
    <3>. QED
      BY <3>1 DEF Range
  <2>3. rcu \subseteq blocks
    BY DEF SlobInv, BlocksFit
  <2>. QED
    BY <2>1, <2>2, <2>3 DEF SlobInv, PageTypes, SlobTypeOK
<1>. QED
  BY <1>1, SlobInvariant, PTL

(* However blocks are taken and given back, the free blocks and those in   *)
(* use cut a slob page into disjoint pieces, sp->units counts what is      *)
(* free, and the free list is in the order of the addresses with all       *)
(* neighbours joined (slob.c:457-514, 692-720).                            *)
THEOREM PageIsTiledThm == SlobSpec => []PageIsTiled
<1>1. SlobInv => PageIsTiled
  <2>. SUFFICES ASSUME SlobInv, NEW p \in SlobPages
                PROVE  LET held == {b \in blocks : b.page = p}
                       IN  /\ \A b \in held : UsedUnits(b) \cap FreeUnits(p) = {}
                           /\ \A b, c \in held : b # c => UsedUnits(b) \cap UsedUnits(c) = {}
                           /\ FreeUnits(p) \cup UNION {UsedUnits(b) : b \in held} = 0 .. PageUnits - 1
                           /\ units[p] = Cardinality(FreeUnits(p))
                           /\ \A o \in FreeOffsets(p) :
                                 o + SlobUnits(mem[p], o) < SlobNext(mem[p], o) \/ SlobLast(mem[p], o)
    BY DEF PageIsTiled
  <2>1. SlobPage(mem[p], free[p], units[p], Held(blocks, p))
    BY DEF SlobInv, SlobPages
  <2>2. PICK F : mem[p] \in PageMemory /\ Chain(mem[p], free[p], F) /\ Tiled(Covers(mem[p], F), Held(blocks, p), units[p])
    BY <2>1 DEF SlobPage
  <2>3. FreeOffsets(p) = F
    BY <2>2, ChainOffsets
  <2>4. FreeUnits(p) = Covers(mem[p], F)
    BY <2>3 DEF FreeUnits, Covers
  <2>5. \A o \in F : o + SlobUnits(mem[p], o) < SlobNext(mem[p], o) \/ SlobNext(mem[p], o) = PageUnits
    BY <2>2 DEF Chain
  <2>. QED
    BY <2>2, <2>3, <2>4, <2>5 DEF Tiled, Held, SlobLast
<1>. QED
  BY <1>1, SlobInvariant, PTL

(* A page is on one of the lists, and on one only, just as long as it is   *)
(* a slob page with something free, and a page with nothing in use has     *)
(* been given back (slob.c:142, 506-508, 644-686).                         *)
THEOREM ListsHoldPartialPagesThm == SlobSpec => []ListsHoldPartialPages
<1>1. SlobInv => ListsHoldPartialPages
  BY DEF SlobInv
<1>. QED
  BY <1>1, SlobInvariant, PTL
-----------------------------------------------------------------------------
(* RtBandwidth.  A loop over the CPUs computes a value that is there.      *)

LEMMA CpuRange == NumCPUs \in Nat \ {0} /\ CPUs = 0 .. NumCPUs - 1
  BY BandwidthAssumption DEF CPUs

(* Numbers from -1 on, as the loops count them.                            *)
LEMMA UpTo ==
    ASSUME NEW P, -1 \in P, \A i \in CPUs : i - 1 \in P => i \in P
    PROVE  \A i \in -1 .. NumCPUs - 1 : i \in P
<1>. DEFINE Q == {k \in 0 .. NumCPUs : k - 1 \in P}
<1>1. \A k \in 0 .. NumCPUs : k \in Q /\ k < NumCPUs => k + 1 \in Q
  <2>. SUFFICES ASSUME NEW k \in 0 .. NumCPUs, k - 1 \in P, k < NumCPUs
                PROVE  k + 1 \in 0 .. NumCPUs /\ (k + 1) - 1 \in P
    OBVIOUS
  <2>1. k \in CPUs /\ k + 1 \in 0 .. NumCPUs /\ (k + 1) - 1 = k
    BY CpuRange
  <2>. QED
    BY <2>1
<1>2. 0 \in Q
  <2>1. 0 - 1 = -1 /\ 0 \in 0 .. NumCPUs
    BY CpuRange
  <2>. QED
    BY <2>1
<1>. HIDE DEF Q
<1>3. \A k \in 0 .. NumCPUs : k \in Q
  BY <1>1, <1>2, CpuRange, Upward
<1>4. ASSUME NEW i \in -1 .. NumCPUs - 1 PROVE i \in P
  <2>1. i + 1 \in 0 .. NumCPUs /\ (i + 1) - 1 = i
    BY CpuRange
  <2>. QED
    BY <1>3, <2>1 DEF Q
<1>. QED
  BY <1>4

Iterated(g, x0, F) ==
    g = [i \in -1 .. NumCPUs - 1 |-> IF i = -1 THEN x0 ELSE F[i][g[i - 1]]]

(* A loop over the CPUs, each turn a function of the one before, has       *)
(* values.                                                                 *)
LEMMA Iterates ==
    ASSUME NEW x0, NEW F PROVE \E g : Iterated(g, x0, F)
<1>. DEFINE Good(k, g) == g = [i \in -1 .. k |-> IF i = -1 THEN x0 ELSE F[i][g[i - 1]]]
            P == {k \in -1 .. NumCPUs - 1 : \E g : Good(k, g)}
<1>1. -1 \in P
  <2>1. PICK g : g = [i \in -1 .. -1 |-> x0]
    OBVIOUS
  <2>2. Good(-1, g)
    BY <2>1
  <2>3. -1 \in -1 .. NumCPUs - 1
    BY CpuRange
  <2>. HIDE DEF Good
  <2>. QED
    BY <2>2, <2>3
<1>2. ASSUME NEW k \in CPUs, k - 1 \in P PROVE k \in P
  <2>1. PICK g : Good(k - 1, g)
    BY <1>2
  <2>2. k \in Int /\ k >= 0 /\ k \in -1 .. NumCPUs - 1
    BY CpuRange
  <2>3. PICK h : h = [i \in -1 .. k |-> IF i < k THEN g[i] ELSE F[k][g[k - 1]]]
    OBVIOUS
  <2>4. ASSUME NEW i \in -1 .. k PROVE h[i] = IF i = -1 THEN x0 ELSE F[i][h[i - 1]]
    <3>1. CASE i = k
      BY <2>2, <2>3, <3>1
    <3>2. CASE i \in -1 .. k - 1
      <4>1. g[i] = IF i = -1 THEN x0 ELSE F[i][g[i - 1]]
        BY <2>1, <3>2
      <4>. QED
        BY <2>2, <2>3, <3>2, <4>1
    <3>. QED
      BY <2>2, <3>1, <3>2
  <2>5. Good(k, h)
    BY <2>3, <2>4
  <2>. HIDE DEF Good
  <2>. QED
    BY <2>2, <2>5
<1>. HIDE DEF P
<1>3. \A k \in -1 .. NumCPUs - 1 : k \in P
  BY <1>1, <1>2, UpTo
<1>4. NumCPUs - 1 \in P
  BY <1>3, CpuRange
<1>. QED
  BY <1>4 DEF P, Iterated

(* What a loop over the CPUs adds up.                                      *)
Sums(h) == CHOOSE P : P = [i \in -1 .. NumCPUs - 1 |-> IF i = -1 THEN 0 ELSE P[i - 1] + h[i]]
Tot(h)  == Sums(h)[NumCPUs - 1]

(* The partial sums of an integer for each CPU.                            *)
LEMMA SumsAre ==
    ASSUME NEW h \in [CPUs -> Int]
    PROVE  /\ Sums(h) \in [-1 .. NumCPUs - 1 -> Int] /\ Sums(h)[-1] = 0
           /\ \A i \in CPUs : Sums(h)[i] = Sums(h)[i - 1] + h[i]
           /\ Tot(h) \in Int
<1>1. PICK F : F = [i \in CPUs |-> [x \in Int |-> x + h[i]]]
  OBVIOUS
<1>2. PICK g : Iterated(g, 0, F)
  BY Iterates
<1>3. \A i \in CPUs : i \in -1 .. NumCPUs - 1 /\ i - 1 \in -1 .. NumCPUs - 1 /\ i # -1
  BY CpuRange
<1>4. \A i \in -1 .. NumCPUs - 1 : i = -1 \/ i \in CPUs
  BY CpuRange
<1>5. \A i \in -1 .. NumCPUs - 1 : g[i] \in Int
  <2>. DEFINE P == {i \in -1 .. NumCPUs - 1 : g[i] \in Int}
  <2>1. -1 \in P
    BY <1>2, CpuRange DEF Iterated
  <2>2. ASSUME NEW i \in CPUs, i - 1 \in P PROVE i \in P
    <3>1. g[i] = F[i][g[i - 1]] /\ g[i - 1] \in Int
      BY <1>2, <1>3, <2>2 DEF Iterated
    <3>2. F[i][g[i - 1]] = g[i - 1] + h[i]
      BY <1>1, <3>1
    <3>. QED
      BY <1>3, <3>1, <3>2
  <2>. HIDE DEF P
  <2>3. \A i \in -1 .. NumCPUs - 1 : i \in P
    BY <2>1, <2>2, UpTo
  <2>. QED
    BY <2>3 DEF P
<1>6. g = [i \in -1 .. NumCPUs - 1 |-> IF i = -1 THEN 0 ELSE g[i - 1] + h[i]]
  <2>1. ASSUME NEW i \in CPUs PROVE F[i][g[i - 1]] = g[i - 1] + h[i]
    BY <1>1, <1>3, <1>5
  <2>. QED
    BY <1>2, <1>4, <2>1 DEF Iterated
<1>7. Sums(h) = [i \in -1 .. NumCPUs - 1 |-> IF i = -1 THEN 0 ELSE Sums(h)[i - 1] + h[i]]
  BY <1>6 DEF Sums
<1>8. -1 \in -1 .. NumCPUs - 1 /\ NumCPUs - 1 \in -1 .. NumCPUs - 1
  BY CpuRange
<1>9. Sums(h)[-1] = 0 /\ \A i \in CPUs : Sums(h)[i] = Sums(h)[i - 1] + h[i]
  BY <1>3, <1>7, <1>8
<1>10. \A i \in -1 .. NumCPUs - 1 : Sums(h)[i] \in Int
  <2>. DEFINE P == {i \in -1 .. NumCPUs - 1 : Sums(h)[i] \in Int}
  <2>1. -1 \in P
    BY <1>8, <1>9
  <2>2. ASSUME NEW i \in CPUs, i - 1 \in P PROVE i \in P
    <3>1. Sums(h)[i - 1] \in Int /\ Sums(h)[i] = Sums(h)[i - 1] + h[i] /\ h[i] \in Int
      BY <1>9, <2>2
    <3>. QED
      BY <1>3, <3>1
  <2>. HIDE DEF P
  <2>3. \A i \in -1 .. NumCPUs - 1 : i \in P
    BY <2>1, <2>2, UpTo
  <2>. QED
    BY <2>3 DEF P
<1>11. DOMAIN Sums(h) = -1 .. NumCPUs - 1
  BY <1>7
<1>12. Sums(h) \in [-1 .. NumCPUs - 1 -> Int]
  BY <1>7, <1>10, <1>11
<1>. QED
  BY <1>8, <1>9, <1>10, <1>12 DEF Tot

(* A change in one place changes the total by as much.                     *)
LEMMA TotOne ==
    ASSUME NEW h1 \in [CPUs -> Int], NEW h2 \in [CPUs -> Int], NEW x \in CPUs,
           \A c \in CPUs : c # x => h1[c] = h2[c]
    PROVE  Tot(h2) = Tot(h1) + h2[x] - h1[x]
<1>. DEFINE d == h2[x] - h1[x]
            P == {i \in -1 .. NumCPUs - 1 : Sums(h2)[i] = Sums(h1)[i] + (IF i >= x THEN d ELSE 0)}
<1>1. /\ Sums(h1) \in [-1 .. NumCPUs - 1 -> Int] /\ Sums(h1)[-1] = 0
      /\ \A i \in CPUs : Sums(h1)[i] = Sums(h1)[i - 1] + h1[i]
  BY SumsAre
<1>2. /\ Sums(h2) \in [-1 .. NumCPUs - 1 -> Int] /\ Sums(h2)[-1] = 0
      /\ \A i \in CPUs : Sums(h2)[i] = Sums(h2)[i - 1] + h2[i]
  BY SumsAre
<1>3. d \in Int /\ x \in Int /\ x >= 0 /\ x <= NumCPUs - 1 /\ NumCPUs \in Nat
  BY CpuRange
<1>4. -1 \in P
  BY <1>1, <1>2, <1>3
<1>5. ASSUME NEW i \in CPUs, i - 1 \in P PROVE i \in P
  <2>1. i \in Int /\ i \in -1 .. NumCPUs - 1 /\ i - 1 \in -1 .. NumCPUs - 1
    BY CpuRange
  <2>2. Sums(h1)[i] \in Int /\ Sums(h1)[i - 1] \in Int /\ Sums(h2)[i] \in Int /\ Sums(h2)[i - 1] \in Int
    BY <1>1, <1>2, <2>1
  <2>3. Sums(h2)[i - 1] = Sums(h1)[i - 1] + (IF i - 1 >= x THEN d ELSE 0)
    BY <1>5
  <2>4. Sums(h1)[i] = Sums(h1)[i - 1] + h1[i] /\ Sums(h2)[i] = Sums(h2)[i - 1] + h2[i]
    BY <1>1, <1>2
  <2>5. h1[i] \in Int /\ h2[i] \in Int /\ (i # x => h1[i] = h2[i]) /\ (i = x => h2[i] = h1[i] + d)
    BY <1>3
  <2>. HIDE DEF d
  <2>6. Sums(h2)[i] = Sums(h1)[i] + (IF i >= x THEN d ELSE 0)
    BY <1>3, <2>1, <2>2, <2>3, <2>4, <2>5
  <2>. QED
    BY <2>1, <2>6
<1>. HIDE DEF P
<1>6. \A i \in -1 .. NumCPUs - 1 : i \in P
  BY <1>4, <1>5, UpTo
<1>7. NumCPUs - 1 \in P
  BY <1>6, CpuRange
<1>8. Sums(h2)[NumCPUs - 1] = Sums(h1)[NumCPUs - 1] + d
  BY <1>3, <1>7 DEF P
<1>9. Sums(h1)[NumCPUs - 1] \in Int /\ h1[x] \in Int /\ h2[x] \in Int
  BY <1>1, CpuRange
<1>. QED
  BY <1>8, <1>9 DEF Tot

(* Changes in two places that make up for each other change no total.      *)
LEMMA TotTwo ==
    ASSUME NEW h1 \in [CPUs -> Int], NEW h2 \in [CPUs -> Int], NEW x \in CPUs, NEW y \in CPUs,
           x # y, \A c \in CPUs : c # x /\ c # y => h1[c] = h2[c],
           h1[x] + h1[y] = h2[x] + h2[y]
    PROVE  Tot(h2) = Tot(h1)
<1>1. PICK h \in [CPUs -> Int] : h = [h1 EXCEPT ![x] = h2[x]]
  OBVIOUS
<1>2. /\ \A c \in CPUs : c # x => h1[c] = h[c]
      /\ \A c \in CPUs : c # y => h[c] = h2[c]
      /\ h[x] = h2[x] /\ h[y] = h1[y]
  BY <1>1
<1>3. Tot(h) = Tot(h1) + h[x] - h1[x]
  BY <1>2, TotOne
<1>4. Tot(h2) = Tot(h) + h2[y] - h[y]
  BY <1>2, TotOne
<1>5. Tot(h1) \in Int /\ Tot(h) \in Int /\ Tot(h2) \in Int
  BY SumsAre
<1>6. h1[x] \in Int /\ h1[y] \in Int /\ h2[x] \in Int /\ h2[y] \in Int
  OBVIOUS
<1>. QED
  BY <1>2, <1>3, <1>4, <1>5, <1>6

(* No summand is below -K: then none is above what the others leave.       *)
LEMMA TotAbove ==
    ASSUME NEW h \in [CPUs -> Int], NEW K \in Nat, \A c \in CPUs : h[c] >= -K, NEW x \in CPUs
    PROVE  Tot(h) + K * NumCPUs >= h[x] + K
<1>. DEFINE P == {i \in -1 .. NumCPUs - 1 :
                    Sums(h)[i] + K * (i + 1) >= IF i >= x THEN h[x] + K ELSE 0}
<1>1. /\ Sums(h) \in [-1 .. NumCPUs - 1 -> Int] /\ Sums(h)[-1] = 0
      /\ \A i \in CPUs : Sums(h)[i] = Sums(h)[i - 1] + h[i]
  BY SumsAre
<1>2. x \in Int /\ x >= 0 /\ x <= NumCPUs - 1 /\ NumCPUs \in Nat /\ h[x] \in Int /\ h[x] + K >= 0
  BY CpuRange
<1>3. -1 \in P
  <2>1. K * ((-1) + 1) = 0
    OBVIOUS
  <2>. QED
    BY <1>1, <1>2, <2>1
<1>4. ASSUME NEW i \in CPUs, i - 1 \in P PROVE i \in P
  <2>1. i \in Int /\ i \in -1 .. NumCPUs - 1 /\ i - 1 \in -1 .. NumCPUs - 1
    BY CpuRange
  <2>2. Sums(h)[i] \in Int /\ Sums(h)[i - 1] \in Int /\ h[i] \in Int /\ h[i] + K >= 0
    BY <1>1, <2>1
  <2>3. Sums(h)[i - 1] + K * ((i - 1) + 1) >= IF i - 1 >= x THEN h[x] + K ELSE 0
    BY <1>4
  <2>4. K * (i + 1) = K * i + K /\ K * i \in Int /\ (i - 1) + 1 = i
    BY <2>1
  <2>5. Sums(h)[i] = Sums(h)[i - 1] + h[i]
    BY <1>1
  <2>6. PICK m \in Int : m = K * i
    BY <2>4
  <2>7. Sums(h)[i] + (m + K) >= IF i >= x THEN h[x] + K ELSE 0
    <3>1. Sums(h)[i - 1] + m >= IF i - 1 >= x THEN h[x] + K ELSE 0
      BY <2>3, <2>4, <2>6
    <3>2. PICK u \in Int, v \in Int, w \in Int : u = Sums(h)[i - 1] /\ v = h[i] /\ w = h[x]
      BY <1>2, <2>2
    <3>3. Sums(h)[i] = u + v /\ v + K >= 0 /\ w + K >= 0 /\ (i = x => v = w)
      BY <1>2, <2>2, <2>5, <3>2
    <3>4. u + m >= IF i - 1 >= x THEN w + K ELSE 0
      BY <3>1, <3>2
    <3>5. u + v + (m + K) >= IF i >= x THEN w + K ELSE 0
      BY <1>2, <2>1, <2>6, <3>2, <3>3, <3>4
    <3>. QED
      BY <3>2, <3>3, <3>5
  <2>. QED
    BY <2>1, <2>4, <2>6, <2>7
<1>. HIDE DEF P
<1>5. \A i \in -1 .. NumCPUs - 1 : i \in P
  BY <1>3, <1>4, UpTo
<1>6. NumCPUs - 1 \in P
  BY <1>5, CpuRange
<1>7. (NumCPUs - 1) + 1 = NumCPUs /\ NumCPUs - 1 >= x
  BY <1>2
<1>. QED
  BY <1>6, <1>7 DEF P, Tot

(* No positive part, no positive sum.                                      *)
LEMMA TotNegative ==
    ASSUME NEW h \in [CPUs -> Int], \A c \in CPUs : h[c] <= 0
    PROVE  Tot(h) <= 0
<1>. DEFINE P == {i \in -1 .. NumCPUs - 1 : Sums(h)[i] <= 0}
<1>1. /\ Sums(h) \in [-1 .. NumCPUs - 1 -> Int] /\ Sums(h)[-1] = 0
      /\ \A i \in CPUs : Sums(h)[i] = Sums(h)[i - 1] + h[i]
  BY SumsAre
<1>2. -1 \in P
  BY <1>1, CpuRange
<1>3. \A i \in CPUs : i - 1 \in P => i \in P
  BY <1>1, CpuRange
<1>. HIDE DEF P
<1>4. \A i \in -1 .. NumCPUs - 1 : i \in P
  BY <1>2, <1>3, UpTo
<1>5. NumCPUs - 1 \in P
  BY <1>4, CpuRange
<1>. QED
  BY <1>5 DEF P, Tot

(* Nothing but zeros.                                                      *)
LEMMA TotZero ==
    ASSUME NEW h \in [CPUs -> Int], \A c \in CPUs : h[c] = 0
    PROVE  Tot(h) = 0
<1>1. Tot(h) <= 0 /\ Tot(h) \in Int
  BY TotNegative, SumsAre
<1>2. 0 \in CPUs /\ NumCPUs \in Nat
  BY CpuRange
<1>3. Tot(h) + 0 * NumCPUs >= h[0] + 0
  BY <1>2, TotAbove
<1>. QED
  BY <1>1, <1>2, <1>3

-----------------------------------------------------------------------------
(* MapThenSumSet adds in an order of its own, which does not matter.       *)

Added(f, T) == MapThenSumSet(LAMBDA c : f[c], T)

IsIter(k, f, T) ==
    k = [s \in SUBSET T |-> IF s = {} THEN 0
                            ELSE f[CHOOSE x \in s : TRUE] + k[s \ {CHOOSE x \in s : TRUE}]]

\* g has the sums of f over the subsets of T.
SumsOf(g, f, T) == /\ g \in [SUBSET T -> Int] /\ g[{}] = 0
                   /\ \A s \in SUBSET T : \A x \in s : g[s] = f[x] + g[s \ {x}]

(* MapThenSumSet, from sums that are known for every subset.               *)
LEMMA SumIs ==
    ASSUME NEW f, NEW T, IsFiniteSet(T), NEW g, SumsOf(g, f, T)
    PROVE  Added(f, T) = g[T]
<1>. g \in [SUBSET T -> Int] /\ g[{}] = 0 /\ \A s \in SUBSET T : \A x \in s : g[s] = f[x] + g[s \ {x}]
  BY DEF SumsOf
<1>1. Added(f, T) = (CHOOSE k : IsIter(k, f, T))[T]
  BY DEF Added, MapThenSumSet, MapThenFoldSet, IsIter
<1>2. IsIter(g, f, T)
  <2>1. ASSUME NEW s \in SUBSET T, s # {}
        PROVE  g[s] = f[CHOOSE x \in s : TRUE] + g[s \ {CHOOSE x \in s : TRUE}]
    <3>1. (CHOOSE x \in s : TRUE) \in s
      BY <2>1
    <3>. QED
      BY <3>1
  <2>. QED
    BY <2>1 DEF IsIter
<1>3. PICK k : k = CHOOSE j : IsIter(j, f, T)
  OBVIOUS
<1>4. IsIter(k, f, T)
  BY <1>2, <1>3
<1>. DEFINE Bad == {m \in Nat : \E s \in SUBSET T : Cardinality(s) = m /\ k[s] # g[s]}
<1>5. ASSUME Bad # {} PROVE FALSE
  <2>1. PICK m \in Bad : \A m2 \in Bad : m <= m2
    BY <1>5, LeastNatural
  <2>2. PICK s \in SUBSET T : Cardinality(s) = m /\ k[s] # g[s]
    BY <2>1
  <2>3. k[s] = IF s = {} THEN 0 ELSE f[CHOOSE x \in s : TRUE] + k[s \ {CHOOSE x \in s : TRUE}]
    BY <1>4 DEF IsIter
  <2>4. s # {}
    BY <2>2, <2>3
  <2>5. PICK x \in s : x = CHOOSE y \in s : TRUE
    BY <2>4
  <2>6. k[s] = f[x] + k[s \ {x}] /\ g[s] = f[x] + g[s \ {x}]
    BY <2>3, <2>4, <2>5
  <2>7. k[s \ {x}] # g[s \ {x}] /\ s \ {x} \in SUBSET T
    BY <2>2, <2>6
  <2>8. IsFiniteSet(s) /\ IsFiniteSet(s \ {x})
    BY FS_Subset
  <2>9. Cardinality(s \ {x}) = Cardinality(s) - 1
    BY <2>8, FS_RemoveElement
  <2>10. Cardinality(s \ {x}) \in Nat
    BY <2>8, FS_CardinalityType
  <2>11. Cardinality(s \ {x}) \in Bad
    BY <2>7, <2>10
  <2>12. m \in Nat
    BY <2>1
  <2>. HIDE DEF Bad
  <2>. QED
    BY <2>1, <2>2, <2>9, <2>11, <2>12
<1>6. \A s \in SUBSET T : Cardinality(s) \in Nat
  BY FS_Subset, FS_CardinalityType
<1>7. k[T] = g[T]
  <2>1. T \in SUBSET T
    OBVIOUS
  <2>. QED
    BY <1>5, <1>6, <2>1
<1>. QED
  BY <1>1, <1>3, <1>7

(* A sum over a set of CPUs, as a total of what each has beyond K.         *)
LEMMA SumTot ==
    ASSUME NEW f \in [CPUs -> Int], NEW K \in Int, NEW W \in SUBSET CPUs
    PROVE  /\ Added(f, W) =
                Tot([c \in CPUs |-> IF c \in W THEN f[c] - K ELSE 0]) + K * Cardinality(W)
           /\ IsFiniteSet(W) /\ Cardinality(W) \in Nat
<1>. DEFINE H(s) == [c \in CPUs |-> IF c \in s THEN f[c] - K ELSE 0]
            G(s) == Tot(H(s)) + K * Cardinality(s)
<1>0. \A c \in CPUs : f[c] \in Int /\ f[c] - K \in Int
  OBVIOUS
<1>1. IsFiniteSet(CPUs) /\ IsFiniteSet(W)
  <2>1. IsFiniteSet(CPUs)
    BY CpuRange, FS_Interval
  <2>. QED
    BY <2>1, FS_Subset
<1>2. ASSUME NEW s \in SUBSET W
      PROVE  H(s) \in [CPUs -> Int] /\ IsFiniteSet(s) /\ Cardinality(s) \in Nat
  <2>1. H(s) \in [CPUs -> Int]
    BY <1>0
  <2>2. IsFiniteSet(s) /\ Cardinality(s) \in Nat
    BY <1>1, FS_Subset, FS_CardinalityType
  <2>. QED
    BY <2>1, <2>2
<1>3. ASSUME NEW s \in SUBSET W PROVE G(s) \in Int
  <2>1. Tot(H(s)) \in Int
    BY <1>2, SumsAre
  <2>. HIDE DEF H
  <2>. QED
    BY <1>2, <2>1
<1>4. G({}) = 0
  <2>1. Tot(H({})) = 0
    BY <1>2, TotZero
  <2>2. Cardinality({}) = 0
    BY FS_EmptySet
  <2>. HIDE DEF H
  <2>. QED
    BY <2>1, <2>2
<1>5. ASSUME NEW s \in SUBSET W, NEW x \in s PROVE G(s) = f[x] + G(s \ {x})
  <2>1. s \ {x} \in SUBSET W /\ x \in CPUs
    OBVIOUS
  <2>2. H(s) \in [CPUs -> Int] /\ H(s \ {x}) \in [CPUs -> Int]
    BY <1>2, <2>1
  <2>3. \A c \in CPUs : c # x => H(s \ {x})[c] = H(s)[c]
    OBVIOUS
  <2>4. H(s)[x] = f[x] - K /\ H(s \ {x})[x] = 0 /\ f[x] \in Int
    BY <1>0, <2>1
  <2>5. Tot(H(s)) \in Int /\ Tot(H(s \ {x})) \in Int
    BY <2>2, SumsAre
  <2>6. IsFiniteSet(s) /\ Cardinality(s) \in Nat
    BY <1>2
  <2>7. Cardinality(s \ {x}) = Cardinality(s) - 1
    BY <2>6, FS_RemoveElement
  <2>. HIDE DEF H
  <2>8. Tot(H(s)) = Tot(H(s \ {x})) + H(s)[x] - H(s \ {x})[x]
    BY <2>1, <2>2, <2>3, TotOne
  <2>9. K * (Cardinality(s) - 1) = K * Cardinality(s) - K /\ K * Cardinality(s) \in Int
    BY <2>6
  <2>10. PICK m \in Int, t1 \in Int, t2 \in Int :
           m = K * Cardinality(s) /\ t1 = Tot(H(s)) /\ t2 = Tot(H(s \ {x}))
    BY <2>5, <2>9
  <2>11. t1 = t2 + f[x] - K
    BY <2>4, <2>8, <2>10
  <2>12. t1 + m = f[x] + (t2 + (m - K))
    BY <2>4, <2>10, <2>11
  <2>. QED
    BY <2>7, <2>9, <2>10, <2>12
<1>6. PICK g : g = [s \in SUBSET W |-> G(s)]
  OBVIOUS
<1>. HIDE DEF G
<1>7. g \in [SUBSET W -> Int] /\ g[{}] = 0 /\ g[W] = G(W)
  BY <1>3, <1>4, <1>6
<1>8. \A s \in SUBSET W : \A x \in s : g[s] = f[x] + g[s \ {x}]
  <2>. SUFFICES ASSUME NEW s \in SUBSET W, NEW x \in s PROVE g[s] = f[x] + g[s \ {x}]
    OBVIOUS
  <2>1. g[s] = G(s) /\ g[s \ {x}] = G(s \ {x})
    BY <1>6
  <2>. QED
    BY <1>5, <2>1
<1>9. Added(f, W) = g[W]
  <2>1. SumsOf(g, f, W)
    BY <1>7, <1>8 DEF SumsOf
  <2>. QED
    BY <1>1, <2>1, SumIs
<1>. QED
  BY <1>1, <1>2, <1>7, <1>9 DEF G

-----------------------------------------------------------------------------
(* Numbers of Bits bits.                                                   *)

(* The remainder is smaller than the divisor.                              *)
LEMMA ModType ==
    ASSUME NEW M \in Nat \ {0}, NEW n \in Int
    PROVE  n % M \in 0 .. M - 1
  OBVIOUS

(* The remainder is the one there is.                                      *)
LEMMA ModSmall ==
    ASSUME NEW M \in Nat \ {0}, NEW n \in Int, NEW q \in Int, NEW r \in 0 .. M - 1, n = M * q + r
    PROVE  n % M = r
  OBVIOUS

(* What a u64 makes of an integer.                                         *)
LEMMA UnsignedIs ==
    ASSUME NEW n \in Int
    PROVE  /\ Unsigned(n) \in u64
           /\ n \in u64 => Unsigned(n) = n
           /\ n + 2^Bits \in u64 => Unsigned(n) = n + 2^Bits
<1>1. PICK M \in Nat \ {0} : M = 2^Bits
  BY BitsArithmetic
<1>2. n % M \in 0 .. M - 1
  BY ModType
<1>3. n \in 0 .. M - 1 => n % M = n
  <2>1. n = M * 0 + n
    OBVIOUS
  <2>. QED
    BY <2>1, ModSmall
<1>4. n + M \in 0 .. M - 1 => n % M = n + M
  <2>1. n = M * (-1) + (n + M)
    OBVIOUS
  <2>. QED
    BY <2>1, ModSmall
<1>. QED
  BY <1>1, <1>2, <1>3, <1>4 DEF Unsigned, u64

(* What an s64 makes of an integer.                                        *)
LEMMA SignedIs ==
    ASSUME NEW n \in Int
    PROVE  /\ Signed(n) \in Int
           /\ -(2^(Bits - 1)) < n /\ n < 2^(Bits - 1) => Signed(n) = n
<1>1. PICK H \in Nat \ {0} : H = 2^(Bits - 1) /\ 2^Bits = 2 * H
  BY BitsArithmetic
<1>2. u64 = 0 .. 2 * H - 1
  BY <1>1 DEF u64
<1>3. Unsigned(n) \in Int /\ Unsigned(n) \in u64
  BY <1>2, UnsignedIs
<1>4. CASE n < 0
  <2>1. -H < n => n + 2 * H \in u64
    BY <1>2, <1>4
  <2>2. -H < n => Unsigned(n) = n + 2 * H
    BY <1>1, <2>1, UnsignedIs
  <2>. QED
    BY <1>1, <1>3, <1>4, <2>2 DEF Signed
<1>5. CASE n >= 0
  <2>1. n < H => n \in u64
    BY <1>2, <1>5
  <2>2. n < H => Unsigned(n) = n
    BY <2>1, UnsignedIs
  <2>. QED
    BY <1>1, <1>3, <1>5, <2>2 DEF Signed
<1>. QED
  BY <1>4, <1>5

(* do_div of a time.                                                       *)
LEMMA DivIs ==
    ASSUME NEW n \in Int, NEW w \in Nat \ {0}
    PROVE  n \div w \in Int /\ (n >= 0 => n \div w \in 0 .. n)
<1>1. n \div w \in Int
  OBVIOUS
<1>2. PICK q \in Int : q = n \div w
  BY <1>1
<1>3. n = w * q + (n % w) /\ n % w \in 0 .. w - 1
  BY <1>2
<1>4. ASSUME n >= 0 PROVE q \in 0 .. n
  <2>1. q >= 0
    <3>1. CASE q < 0
      <4>1. w * q <= -w
        BY <3>1
      <4>. QED
        BY <1>3, <1>4, <4>1
    <3>. QED
      BY <3>1
  <2>2. q <= w * q /\ w * q \in Int
    BY <2>1
  <2>. QED
    BY <1>3, <2>1, <2>2
<1>. QED
  BY <1>1, <1>2, <1>4

(* A number that fits stays what it is.                                    *)
LEMMA UnsignedFits ==
    ASSUME NEW n \in Nat, n <= INF PROVE Unsigned(n) = n
<1>1. n \in u64
  BY BitsArithmetic DEF u64, INF
<1>. QED
  BY <1>1, UnsignedIs

-----------------------------------------------------------------------------
(* Lending.  What the CPUs of domain d have beyond their shares adds up to *)
(* nothing.                                                                *)

Domains  == {"dom", "def"}
Runtimes == [CPUs -> u64]
Excess(rt, dom, d) ==
    [c \in CPUs |-> IF dom[c] = d /\ rt[c] # INF THEN rt[c] - Runtime ELSE 0]
Even(rt, dom) == rt \in Runtimes /\ \A d \in Domains : Tot(Excess(rt, dom, d)) = 0

(* Runtimes and times are far below RUNTIME_INF.                           *)
LEMMA Sizes ==
    /\ 2^(Bits - 1) \in Nat \ {0} /\ 2^Bits = 2 * 2^(Bits - 1)
    /\ u64 = 0 .. INF /\ INF = 2 * 2^(Bits - 1) - 1 /\ INF \in Nat
    /\ Period \in Nat \ {0} /\ Runtime \in 1 .. Period
    /\ Period < 2^(Bits - 1) /\ Runtime * NumCPUs < 2^(Bits - 1)
    /\ MaxTime \in Nat /\ MaxTime < 2^(Bits - 1)
<1>1. 2^(Bits - 1) \in Nat \ {0} /\ 2^Bits = 2 * 2^(Bits - 1) /\ NumCPUs \in Nat \ {0}
  BY BitsArithmetic, CpuRange
<1>2. Period \in Nat \ {0} /\ Runtime \in 1 .. Period /\ MaxTime \in Nat
  BY BandwidthAssumption
<1>3. Period <= Period * NumCPUs /\ Runtime * NumCPUs <= Period * NumCPUs
  BY <1>1, <1>2
<1>4. Period * NumCPUs < 2^(Bits - 1) /\ MaxTime < 2^(Bits - 1)
  BY TimeFits
<1>5. PICK H \in Nat \ {0}, p \in Int, r \in Int :
        H = 2^(Bits - 1) /\ p = Period * NumCPUs /\ r = Runtime * NumCPUs
  BY <1>1, <1>2
<1>6. Period < H /\ r < H /\ MaxTime < H
  BY <1>2, <1>3, <1>4, <1>5
<1>7. 0 .. 2 * H - 1 = 0 .. INF /\ INF = 2 * H - 1 /\ INF \in Nat
  BY <1>1, <1>5 DEF INF
<1>. QED
  BY <1>1, <1>2, <1>5, <1>6, <1>7 DEF u64

(* What a CPU of the domain has beyond its share.                          *)
LEMMA ExcessIs ==
    ASSUME NEW rt \in Runtimes, NEW dom, NEW d
    PROVE  /\ Excess(rt, dom, d) \in [CPUs -> Int]
           /\ \A c \in CPUs : /\ Excess(rt, dom, d)[c] =
                                   IF dom[c] = d /\ rt[c] # INF THEN rt[c] - Runtime ELSE 0
                              /\ Excess(rt, dom, d)[c] >= -Runtime
                              /\ rt[c] \in Nat /\ rt[c] <= INF
<1>1. Runtime \in Nat /\ INF \in Nat /\ u64 = 0 .. INF
  BY Sizes
<1>2. \A c \in CPUs : rt[c] \in Nat /\ rt[c] <= INF
  BY <1>1 DEF Runtimes
<1>3. \A c \in CPUs : /\ Excess(rt, dom, d)[c] =
                           IF dom[c] = d /\ rt[c] # INF THEN rt[c] - Runtime ELSE 0
                      /\ Excess(rt, dom, d)[c] \in Int /\ Excess(rt, dom, d)[c] >= -Runtime
  BY <1>1, <1>2 DEF Excess
<1>4. Excess(rt, dom, d) \in [CPUs -> Int]
  BY <1>1, <1>2 DEF Excess
<1>. QED
  BY <1>2, <1>3, <1>4

(* A runtime is a number.                                                  *)
LEMMA RuntimeNat ==
    ASSUME NEW rt \in Runtimes, NEW c \in CPUs
    PROVE  rt[c] \in Nat /\ rt[c] <= INF
  BY Sizes DEF Runtimes

(* Nobody has more than the shares of all.                                 *)
LEMMA EvenBound ==
    ASSUME NEW rt, NEW dom \in [CPUs -> Domains], Even(rt, dom), NEW c \in CPUs, rt[c] # INF
    PROVE  rt[c] \in Nat /\ rt[c] < 2^(Bits - 1)
<1>. DEFINE e == Excess(rt, dom, dom[c])
<1>1. rt \in Runtimes /\ Tot(e) = 0
  BY DEF Even
<1>2. e \in [CPUs -> Int] /\ (\A x \in CPUs : e[x] >= -Runtime) /\ e[c] = rt[c] - Runtime /\ rt[c] \in Nat
  BY <1>1, ExcessIs
<1>3. Runtime \in Nat /\ NumCPUs \in Nat /\ Runtime * NumCPUs < 2^(Bits - 1) /\ 2^(Bits - 1) \in Nat
  BY Sizes, CpuRange
<1>. HIDE DEF e
<1>4. Tot(e) + Runtime * NumCPUs >= e[c] + Runtime
  BY <1>2, <1>3, TotAbove
<1>5. PICK m \in Nat : m = Runtime * NumCPUs
  BY <1>3
<1>. QED
  BY <1>1, <1>2, <1>3, <1>4, <1>5

(* A loan leaves u64 values.                                               *)
LEMMA LendType ==
    ASSUME NEW rt \in Runtimes, NEW c \in CPUs, NEW n \in CPUs, n # c,
           NEW w \in Nat \ {0}, rt_time \in [CPUs -> 0 .. MaxTime]
    PROVE  Lend(rt, c, n, w) \in Runtimes
<1>. DEFINE spare == Signed(rt[n] - rt_time[n])
            part == spare \div w
            diff == IF Unsigned(rt[c] + part) > Period THEN Period - rt[c] ELSE part
<1>1. rt[n] \in Int /\ rt[c] \in Int /\ rt_time[n] \in Int /\ Period \in Int
  <2>1. rt[n] \in Int /\ rt[c] \in Int
    BY RuntimeNat
  <2>2. MaxTime \in Nat /\ Period \in Nat
    BY Sizes
  <2>3. rt_time[n] \in 0 .. MaxTime
    OBVIOUS
  <2>. QED
    BY <2>1, <2>2, <2>3
<1>2. spare \in Int
  BY <1>1, SignedIs
<1>3. part \in Int
  <2>. HIDE DEF spare
  <2>. QED
    BY <1>2, DivIs
<1>4. diff \in Int
  <2>. HIDE DEF part
  <2>. QED
    BY <1>1, <1>3
<1>5. Lend(rt, c, n, w) = IF rt[n] = INF \/ spare <= 0 \/ rt[c] = Period THEN rt
                          ELSE [rt EXCEPT ![n] = Unsigned(@ - diff), ![c] = Unsigned(@ + diff)]
  BY DEF Lend
<1>. HIDE DEF spare, part, diff
<1>6. Unsigned(rt[n] - diff) \in u64 /\ Unsigned(rt[c] + diff) \in u64
  BY <1>1, <1>4, UnsignedIs
<1>7. [rt EXCEPT ![n] = Unsigned(@ - diff), ![c] = Unsigned(@ + diff)] \in Runtimes
  BY <1>6 DEF Runtimes
<1>. QED
  BY <1>5, <1>7

(* What the lender loses the borrower has.                                 *)
LEMMA LendEven ==
    ASSUME NEW rt, rd \in [CPUs -> Domains], Even(rt, rd),
           NEW c \in CPUs, NEW n \in CPUs, n # c, rd[n] = rd[c], rt[c] # INF,
           NEW w \in Nat \ {0}, rt_time \in [CPUs -> 0 .. MaxTime]
    PROVE  /\ Even(Lend(rt, c, n, w), rd)
           /\ \A x \in CPUs : Lend(rt, c, n, w)[x] = INF <=> rt[x] = INF
<1>. DEFINE spare == Signed(rt[n] - rt_time[n])
            part == spare \div w
            diff == IF Unsigned(rt[c] + part) > Period THEN Period - rt[c] ELSE part
            lent == Lend(rt, c, n, w)
<1>1. lent = IF rt[n] = INF \/ spare <= 0 \/ rt[c] = Period THEN rt
             ELSE [rt EXCEPT ![n] = Unsigned(@ - diff), ![c] = Unsigned(@ + diff)]
  BY DEF Lend
<1>2. rt \in Runtimes /\ lent \in Runtimes
  BY LendType DEF Even
<1>3. CASE rt[n] = INF \/ spare <= 0 \/ rt[c] = Period
  BY <1>1, <1>3
<1>4. CASE rt[n] # INF /\ ~(spare <= 0)
  <2>1. PICK H \in Nat \ {0} : /\ H = 2^(Bits - 1) /\ INF = 2 * H - 1
                              /\ Period \in Nat /\ Period < H /\ MaxTime \in Nat /\ MaxTime < H
    BY Sizes
  <2>2. PICK vn \in Nat, vc \in Nat : vn = rt[n] /\ vn < H /\ vc = rt[c] /\ vc < H
    BY <1>4, <2>1, EvenBound
  <2>3. PICK tn \in Nat : tn = rt_time[n] /\ tn < H
    BY <2>1
  <2>4. spare = vn - tn
    <3>1. vn - tn \in Int /\ -H < vn - tn /\ vn - tn < H
      BY <2>2, <2>3
    <3>2. Signed(vn - tn) = vn - tn
      BY <2>1, <3>1, SignedIs
    <3>. QED
      BY <2>2, <2>3, <3>2
  <2>5. vn - tn \in Nat /\ vn - tn <= vn
    BY <1>4, <2>2, <2>3, <2>4
  <2>6. PICK p \in Nat : p = part /\ p <= vn
    <3>1. (vn - tn) \div w \in 0 .. vn - tn
      BY <2>5, DivIs
    <3>2. PICK p \in Int : p = (vn - tn) \div w
      BY <3>1
    <3>3. p \in Nat /\ p <= vn
      BY <2>5, <3>1, <3>2
    <3>. QED
      BY <2>4, <3>2, <3>3
  <2>. HIDE DEF spare, part
  <2>7. Unsigned(vc + p) = vc + p
    <3>1. vc + p \in Nat /\ vc + p <= INF
      BY <2>1, <2>2, <2>6
    <3>. QED
      BY <3>1, UnsignedFits
  <2>8. diff = IF vc + p > Period THEN Period - vc ELSE p
    BY <2>2, <2>6, <2>7
  <2>9. PICK q \in Int : q = diff /\ vn - q \in Nat /\ vc + q \in Nat /\ vn - q < INF /\ vc + q < INF
    BY <2>1, <2>2, <2>6, <2>8
  <2>. HIDE DEF diff
  <2>10. PICK r : r = [rt EXCEPT ![n] = Unsigned(@ - diff), ![c] = Unsigned(@ + diff)]
    OBVIOUS
  <2>11. r[n] = vn - q /\ r[c] = vc + q /\ (\A x \in CPUs : x # n /\ x # c => r[x] = rt[x]) /\ r \in Runtimes
    <3>1. Unsigned(vn - q) = vn - q /\ Unsigned(vc + q) = vc + q
      BY <2>1, <2>9, UnsignedFits
    <3>2. vn - q \in u64 /\ vc + q \in u64
      BY <2>9, Sizes
    <3>3. rt \in [CPUs -> u64]
      BY <1>2 DEF Runtimes
    <3>4. Unsigned(rt[n] - diff) = vn - q /\ Unsigned(rt[c] + diff) = vc + q
      BY <2>2, <2>9, <3>1
    <3>. QED
      BY <2>10, <3>2, <3>3, <3>4 DEF Runtimes
  <2>12. r[n] # INF /\ r[c] # INF
    BY <2>1, <2>9, <2>11
  <2>13. \A x \in CPUs : r[x] = INF <=> rt[x] = INF
    BY <1>4, <2>11, <2>12
  <2>14. ASSUME NEW d \in Domains PROVE Tot(Excess(r, rd, d)) = Tot(Excess(rt, rd, d))
    <3>1. PICK e1 \in [CPUs -> Int] : e1 = Excess(rt, rd, d)
      BY <1>2, ExcessIs
    <3>2. PICK e2 \in [CPUs -> Int] : e2 = Excess(r, rd, d)
      BY <2>11, ExcessIs
    <3>3. \A x \in CPUs : /\ e1[x] = IF rd[x] = d /\ rt[x] # INF THEN rt[x] - Runtime ELSE 0
                          /\ e2[x] = IF rd[x] = d /\ r[x] # INF THEN r[x] - Runtime ELSE 0
      <4>1. \A x \in CPUs : e1[x] = IF rd[x] = d /\ rt[x] # INF THEN rt[x] - Runtime ELSE 0
        BY <1>2, <3>1, ExcessIs
      <4>2. \A x \in CPUs : e2[x] = IF rd[x] = d /\ r[x] # INF THEN r[x] - Runtime ELSE 0
        BY <2>11, <3>2, ExcessIs
      <4>. QED
        BY <4>1, <4>2
    <3>4. \A x \in CPUs : x # n /\ x # c => e1[x] = e2[x]
      BY <2>11, <3>3
    <3>5. e1[n] + e1[c] = e2[n] + e2[c]
      <4>1. Runtime \in Int
        BY Sizes
      <4>2. CASE rd[c] = d
        BY <1>4, <2>2, <2>9, <2>11, <2>12, <3>3, <4>1, <4>2
      <4>3. CASE rd[c] # d
        BY <3>3, <4>3
      <4>. QED
        BY <4>2, <4>3
    <3>6. Tot(e2) = Tot(e1)
      BY <3>4, <3>5, TotTwo
    <3>. QED
      BY <3>1, <3>2, <3>6
  <2>15. lent = r \/ lent = rt
    BY <1>1, <2>10
  <2>16. Even(r, rd)
    BY <2>11, <2>14 DEF Even
  <2>. QED
    BY <2>13, <2>15, <2>16
<1>. QED
  BY <1>3, <1>4

(* do_balance_runtime keeps what a domain has together, whoever lends.     *)
LEMMA BalancedIs ==
    ASSUME NEW c \in CPUs, NEW span \in SUBSET CPUs, rt_runtime \in Runtimes,
           rt_time \in [CPUs -> 0 .. MaxTime]
    PROVE  \E g : /\ g[-1] = rt_runtime /\ Balanced(c, span) = g[NumCPUs - 1]
                  /\ \A i \in CPUs : g[i] = IF i = c \/ i \notin span THEN g[i - 1]
                                            ELSE Lend(g[i - 1], c, i, Cardinality(span))
                  /\ \A i \in -1 .. NumCPUs - 1 : g[i] \in Runtimes
<1>. DEFINE w == Cardinality(span)
            Body(i, rt) == IF i = c \/ i \notin span THEN rt ELSE Lend(rt, c, i, w)
            IsLoop(g) == g = [n \in -1 .. NumCPUs - 1 |->
                                IF n = -1 THEN rt_runtime
                                ELSE IF n = c \/ n \notin span THEN g[n - 1]
                                ELSE Lend(g[n - 1], c, n, Cardinality(span))]
<1>1. ASSUME NEW i \in CPUs, NEW rt \in Runtimes PROVE Body(i, rt) \in Runtimes
  <2>1. CASE i \in span /\ i # c
    <3>1. IsFiniteSet(CPUs)
      BY CpuRange, FS_Interval
    <3>2. IsFiniteSet(span)
      BY <3>1, FS_Subset
    <3>3. w \in Nat \ {0}
      BY <2>1, <3>2, FS_CardinalityType, FS_EmptySet
    <3>. HIDE DEF w
    <3>4. Lend(rt, c, i, w) \in Runtimes
      BY <2>1, <3>3, LendType
    <3>. QED
      BY <3>4
  <2>. QED
    BY <2>1
<1>2. PICK F : F = [i \in CPUs |-> [rt \in Runtimes |-> Body(i, rt)]]
  OBVIOUS
<1>3. \A i \in CPUs : i \in -1 .. NumCPUs - 1 /\ i - 1 \in -1 .. NumCPUs - 1 /\ i # -1
  BY CpuRange
<1>4. \A i \in -1 .. NumCPUs - 1 : i = -1 \/ i \in CPUs
  BY CpuRange
<1>5. PICK g : Iterated(g, rt_runtime, F)
  BY Iterates
<1>6. -1 \in -1 .. NumCPUs - 1 /\ NumCPUs - 1 \in -1 .. NumCPUs - 1
  BY CpuRange
<1>. HIDE DEF Body
<1>7. ASSUME NEW k, Iterated(k, rt_runtime, F) PROVE \A i \in -1 .. NumCPUs - 1 : k[i] \in Runtimes
  <2>. DEFINE P == {i \in -1 .. NumCPUs - 1 : k[i] \in Runtimes}
  <2>1. -1 \in P
    BY <1>6, <1>7 DEF Iterated
  <2>2. ASSUME NEW i \in CPUs, i - 1 \in P PROVE i \in P
    <3>1. k[i] = F[i][k[i - 1]] /\ k[i - 1] \in Runtimes
      BY <1>3, <1>7, <2>2 DEF Iterated
    <3>2. F[i][k[i - 1]] = Body(i, k[i - 1])
      BY <1>2, <3>1
    <3>. QED
      BY <1>1, <1>3, <3>1, <3>2
  <2>. HIDE DEF P
  <2>3. \A i \in -1 .. NumCPUs - 1 : i \in P
    BY <2>1, <2>2, UpTo
  <2>. QED
    BY <2>3 DEF P
<1>8. \A i \in -1 .. NumCPUs - 1 : g[i] \in Runtimes
  BY <1>5, <1>7
<1>9. \A i \in CPUs : F[i][g[i - 1]] = Body(i, g[i - 1])
  BY <1>2, <1>3, <1>8
<1>10. IsLoop(g)
  BY <1>4, <1>5, <1>9 DEF Iterated, Body
<1>11. Balanced(c, span) = (CHOOSE k : IsLoop(k))[NumCPUs - 1]
  BY DEF Balanced
<1>12. PICK k : k = CHOOSE j : IsLoop(j)
  OBVIOUS
<1>13. IsLoop(k)
  <2>. HIDE DEF IsLoop
  <2>. QED
    BY <1>10, <1>12
<1>14. k[-1] = rt_runtime /\ \A i \in CPUs : k[i] = Body(i, k[i - 1])
  BY <1>3, <1>6, <1>13 DEF Body
<1>15. \A i \in -1 .. NumCPUs - 1 : k[i] \in Runtimes
  <2>. DEFINE P == {i \in -1 .. NumCPUs - 1 : k[i] \in Runtimes}
  <2>1. -1 \in P
    BY <1>6, <1>14
  <2>2. \A i \in CPUs : i - 1 \in P => i \in P
    BY <1>1, <1>3, <1>14
  <2>. HIDE DEF P
  <2>3. \A i \in -1 .. NumCPUs - 1 : i \in P
    BY <2>1, <2>2, UpTo
  <2>. QED
    BY <2>3 DEF P
<1>16. Balanced(c, span) = k[NumCPUs - 1]
  BY <1>11, <1>12
<1>. HIDE DEF IsLoop
<1>. QED
  BY <1>14, <1>15, <1>16 DEF Body

(* do_balance_runtime leaves u64 values.                                   *)
LEMMA BalancedType ==
    ASSUME NEW c \in CPUs, NEW span \in SUBSET CPUs, rt_runtime \in Runtimes,
           rt_time \in [CPUs -> 0 .. MaxTime]
    PROVE  Balanced(c, span) \in Runtimes
<1>1. NumCPUs - 1 \in -1 .. NumCPUs - 1
  BY CpuRange
<1>. QED
  BY <1>1, BalancedIs

(* do_balance_runtime moves runtime within the domain and creates none.    *)
LEMMA BalancedEven ==
    ASSUME rd \in [CPUs -> Domains], Even(rt_runtime, rd), NEW c \in CPUs, rt_runtime[c] # INF,
           rt_time \in [CPUs -> 0 .. MaxTime]
    PROVE  /\ Even(Balanced(c, Span(rd[c])), rd)
           /\ \A x \in CPUs : Balanced(c, Span(rd[c]))[x] = INF <=> rt_runtime[x] = INF
<1>1. PICK span \in SUBSET CPUs : span = Span(rd[c]) /\ \A i \in CPUs : i \in span <=> rd[i] = rd[c]
  <2>1. Span(rd[c]) \in SUBSET CPUs /\ \A i \in CPUs : i \in Span(rd[c]) <=> rd[i] = rd[c]
    BY DEF Span
  <2>. QED
    BY <2>1
<1>2. rt_runtime \in Runtimes
  BY DEF Even
<1>3. PICK g : /\ g[-1] = rt_runtime /\ Balanced(c, span) = g[NumCPUs - 1]
               /\ \A i \in CPUs : g[i] = IF i = c \/ i \notin span THEN g[i - 1]
                                         ELSE Lend(g[i - 1], c, i, Cardinality(span))
  BY <1>2, BalancedIs
<1>. DEFINE Good(rt) == Even(rt, rd) /\ \A x \in CPUs : rt[x] = INF <=> rt_runtime[x] = INF
            P == {i \in -1 .. NumCPUs - 1 : Good(g[i])}
<1>4. -1 \in -1 .. NumCPUs - 1 /\ NumCPUs - 1 \in -1 .. NumCPUs - 1
  BY CpuRange
<1>5. -1 \in P
  BY <1>3, <1>4
<1>6. ASSUME NEW i \in CPUs, i - 1 \in P PROVE i \in P
  <2>1. i \in -1 .. NumCPUs - 1 /\ Good(g[i - 1])
    BY <1>6, CpuRange
  <2>2. CASE i = c \/ i \notin span
    <3>1. g[i] = g[i - 1]
      BY <1>3, <2>2
    <3>. QED
      BY <2>1, <3>1
  <2>3. CASE i # c /\ i \in span
    <3>1. IsFiniteSet(CPUs)
      BY CpuRange, FS_Interval
    <3>2. IsFiniteSet(span)
      BY <3>1, FS_Subset
    <3>3. Cardinality(span) \in Nat \ {0}
      BY <2>3, <3>2, FS_CardinalityType, FS_EmptySet
    <3>4. PICK rt : \E w \in Nat \ {0} : rt = g[i - 1] /\ w = Cardinality(span)
      BY <3>3
    <3>5. \E w \in Nat \ {0} : g[i] = Lend(rt, c, i, w) /\ rd[i] = rd[c]
      BY <1>1, <1>3, <2>3, <3>4
    <3>6. Even(rt, rd) /\ rt[c] # INF /\ \A x \in CPUs : rt[x] = INF <=> rt_runtime[x] = INF
      BY <2>1, <3>4
    <3>7. Even(g[i], rd) /\ \A x \in CPUs : g[i][x] = INF <=> rt[x] = INF
      BY <2>3, <3>5, <3>6, LendEven
    <3>8. Good(g[i])
      BY <3>6, <3>7
    <3>. QED
      BY <2>1, <3>8
  <2>. QED
    BY <2>2, <2>3
<1>. HIDE DEF P
<1>7. \A i \in -1 .. NumCPUs - 1 : i \in P
  BY <1>5, <1>6, UpTo
<1>8. Good(g[NumCPUs - 1])
  BY <1>4, <1>7 DEF P
<1>. QED
  BY <1>1, <1>3, <1>8

-----------------------------------------------------------------------------
(* Taking back: one round of the loop of __disable_runtime.                *)

TakeBack(s, c, n) ==
    LET diff == IF s.want > 0 THEN Min({Signed(s.rt[n]), s.want}) ELSE s.want
    IN  IF n = c \/ n \notin Span(rd[c]) \/ s.rt[n] = INF \/ s.want = 0 THEN s
        ELSE [want |-> s.want - diff, rt |-> [s.rt EXCEPT ![n] = Unsigned(@ - diff)]]

Wants == [want : Int, rt : Runtimes]

(* min_t.                                                                  *)
LEMMA MinOfTwo ==
    ASSUME NEW m \in Int, NEW k \in Int
    PROVE  Min({m, k}) = IF m <= k THEN m ELSE k
  BY DEF Min

(* One turn of __disable_runtime's loop leaves u64 values.                 *)
LEMMA TakeBackType ==
    ASSUME NEW s \in Wants, NEW c \in CPUs, NEW n \in CPUs
    PROVE  TakeBack(s, c, n) \in Wants
<1>. DEFINE diff == IF s.want > 0 THEN Min({Signed(s.rt[n]), s.want}) ELSE s.want
<1>1. PICK v \in Int, rt \in Runtimes : v = s.want /\ rt = s.rt
  BY DEF Wants
<1>2. rt[n] \in Int
  BY ExcessIs
<1>3. Signed(rt[n]) \in Int
  BY <1>2, SignedIs
<1>4. diff \in Int
  <2>1. Min({Signed(rt[n]), v}) \in Int
    BY <1>3, MinOfTwo
  <2>. QED
    BY <1>1, <2>1
<1>5. TakeBack(s, c, n) = s \/ TakeBack(s, c, n) = [want |-> v - diff, rt |-> [rt EXCEPT ![n] = Unsigned(@ - diff)]]
  BY <1>1 DEF TakeBack
<1>. HIDE DEF diff
<1>6. Unsigned(rt[n] - diff) \in u64
  BY <1>2, <1>4, UnsignedIs
<1>7. [rt EXCEPT ![n] = Unsigned(@ - diff)] \in Runtimes
  BY <1>6 DEF Runtimes
<1>8. v - diff \in Int
  BY <1>4
<1>. QED
  BY <1>5, <1>7, <1>8 DEF Wants

(* The loop of __disable_runtime computes a value that is there.           *)
LEMMA ReclaimedIs ==
    ASSUME NEW c \in CPUs, rt_runtime \in Runtimes, rt_b \in u64
    PROVE  \E g : /\ g[-1] = [want |-> Signed(rt_b - rt_runtime[c]), rt |-> rt_runtime]
                  /\ Reclaimed(c) = g[NumCPUs - 1]
                  /\ \A i \in CPUs : g[i] = TakeBack(g[i - 1], c, i)
                  /\ \A i \in -1 .. NumCPUs - 1 : g[i] \in Wants
<1>. DEFINE first == [want |-> Signed(rt_b - rt_runtime[c]), rt |-> rt_runtime]
            IsLoop(g) == g = [n \in -1 .. NumCPUs - 1 |->
                                IF n = -1 THEN first ELSE TakeBack(g[n - 1], c, n)]
<1>1. first \in Wants
  <2>1. rt_b \in Int /\ rt_runtime[c] \in Int
    <3>1. rt_runtime[c] \in Int
      BY RuntimeNat
    <3>2. rt_b \in Int
      BY Sizes
    <3>. QED
      BY <3>1, <3>2
  <2>2. Signed(rt_b - rt_runtime[c]) \in Int
    BY <2>1, SignedIs
  <2>. QED
    BY <2>2 DEF Wants
<1>2. PICK F : F = [i \in CPUs |-> [s \in Wants |-> TakeBack(s, c, i)]]
  OBVIOUS
<1>3. \A i \in CPUs : i \in -1 .. NumCPUs - 1 /\ i - 1 \in -1 .. NumCPUs - 1 /\ i # -1
  BY CpuRange
<1>4. \A i \in -1 .. NumCPUs - 1 : i = -1 \/ i \in CPUs
  BY CpuRange
<1>5. PICK g : Iterated(g, first, F)
  BY Iterates
<1>6. -1 \in -1 .. NumCPUs - 1 /\ NumCPUs - 1 \in -1 .. NumCPUs - 1
  BY CpuRange
<1>. HIDE DEF first
<1>7. \A i \in -1 .. NumCPUs - 1 : g[i] \in Wants
  <2>. DEFINE P == {i \in -1 .. NumCPUs - 1 : g[i] \in Wants}
  <2>1. -1 \in P
    BY <1>1, <1>5, <1>6 DEF Iterated
  <2>2. ASSUME NEW i \in CPUs, i - 1 \in P PROVE i \in P
    <3>1. g[i] = F[i][g[i - 1]] /\ g[i - 1] \in Wants
      BY <1>3, <1>5, <2>2 DEF Iterated
    <3>2. F[i][g[i - 1]] = TakeBack(g[i - 1], c, i)
      BY <1>2, <3>1
    <3>. QED
      BY <1>3, <3>1, <3>2, TakeBackType
  <2>. HIDE DEF P
  <2>3. \A i \in -1 .. NumCPUs - 1 : i \in P
    BY <2>1, <2>2, UpTo
  <2>. QED
    BY <2>3 DEF P
<1>8. \A i \in CPUs : F[i][g[i - 1]] = TakeBack(g[i - 1], c, i)
  BY <1>2, <1>3, <1>7
<1>9. IsLoop(g)
  BY <1>4, <1>5, <1>8 DEF Iterated
<1>10. Reclaimed(c) = (CHOOSE k : IsLoop(k))[NumCPUs - 1]
  BY DEF Reclaimed, TakeBack, first
<1>11. PICK k : k = CHOOSE j : IsLoop(j)
  OBVIOUS
<1>12. IsLoop(k)
  <2>. HIDE DEF IsLoop
  <2>. QED
    BY <1>9, <1>11
<1>13. k[-1] = first /\ \A i \in CPUs : k[i] = TakeBack(k[i - 1], c, i)
  BY <1>3, <1>6, <1>12
<1>14. \A i \in -1 .. NumCPUs - 1 : k[i] \in Wants
  <2>. DEFINE P == {i \in -1 .. NumCPUs - 1 : k[i] \in Wants}
  <2>1. -1 \in P
    BY <1>1, <1>6, <1>13
  <2>2. \A i \in CPUs : i - 1 \in P => i \in P
    BY <1>3, <1>13, TakeBackType
  <2>. HIDE DEF P
  <2>3. \A i \in -1 .. NumCPUs - 1 : i \in P
    BY <2>1, <2>2, UpTo
  <2>. QED
    BY <2>3 DEF P
<1>15. Reclaimed(c) = k[NumCPUs - 1]
  BY <1>10, <1>11
<1>. HIDE DEF IsLoop
<1>. QED
  BY <1>13, <1>14, <1>15 DEF first

Others(rt, c) == [x \in CPUs |-> IF x # c /\ rd[x] = rd[c] /\ rt[x] # INF THEN rt[x] - Runtime ELSE 0]

(* The loop has seen the CPUs up to i: what is wanted is what the others   *)
(* have too much, and who was asked has nothing left to give.              *)
Asked(i, s, c) ==
    /\ s \in Wants
    /\ -(2^(Bits - 1)) < s.want /\ s.want < 2^(Bits - 1)
    /\ Tot(Others(s.rt, c)) = s.want
    /\ \A x \in CPUs : /\ s.rt[x] = INF <=> rt_runtime[x] = INF
                       /\ x > i \/ x = c \/ rd[x] # rd[c] => s.rt[x] = rt_runtime[x]
                       /\ x <= i /\ x # c /\ rd[x] = rd[c] /\ s.rt[x] # INF /\ s.want # 0
                            => s.want > 0 /\ s.rt[x] = 0

(* What the other CPUs of c's domain have beyond their shares.             *)
LEMMA OthersIs ==
    ASSUME NEW rt \in Runtimes, NEW c \in CPUs
    PROVE  /\ Others(rt, c) \in [CPUs -> Int]
           /\ \A x \in CPUs : Others(rt, c)[x] = IF x # c /\ rd[x] = rd[c] /\ rt[x] # INF
                                                 THEN rt[x] - Runtime ELSE 0
<1>1. Runtime \in Int
  BY Sizes
<1>2. \A x \in CPUs : rt[x] \in Int
  BY RuntimeNat
<1>. QED
  BY <1>1, <1>2 DEF Others

(* One CPU more.                                                           *)
LEMMA AskedNext ==
    ASSUME rd \in [CPUs -> Domains], Even(rt_runtime, rd), NEW c \in CPUs, NEW i \in CPUs,
           NEW s, Asked(i - 1, s, c)
    PROVE  Asked(i, TakeBack(s, c, i), c)
<1>1. PICK v \in Int, rt \in Runtimes : v = s.want /\ rt = s.rt /\ s \in Wants
  BY DEF Asked, Wants
<1>2. PICK H \in Nat \ {0} : H = 2^(Bits - 1) /\ INF = 2 * H - 1 /\ -H < v /\ v < H
  BY <1>1, Sizes DEF Asked
<1>3. /\ Tot(Others(rt, c)) = v
      /\ \A x \in CPUs : rt[x] = INF <=> rt_runtime[x] = INF
      /\ \A x \in CPUs : x > i - 1 \/ x = c \/ rd[x] # rd[c] => rt[x] = rt_runtime[x]
      /\ \A x \in CPUs : x <= i - 1 /\ x # c /\ rd[x] = rd[c] /\ rt[x] # INF /\ v # 0 => v > 0 /\ rt[x] = 0
  BY <1>1 DEF Asked
<1>4. \A x \in CPUs : x \in Int /\ (x <= i => x = i \/ x <= i - 1) /\ (x > i => x > i - 1)
  BY CpuRange
<1>5. CASE i = c \/ i \notin Span(rd[c]) \/ rt[i] = INF \/ v = 0
  <2>1. TakeBack(s, c, i) = s
    BY <1>1, <1>5 DEF TakeBack
  <2>2. i \notin Span(rd[c]) => rd[i] # rd[c]
    BY DEF Span
  <2>3. \A x \in CPUs : x <= i /\ x # c /\ rd[x] = rd[c] /\ rt[x] # INF /\ v # 0 => v > 0 /\ rt[x] = 0
    BY <1>3, <1>4, <1>5, <2>2
  <2>4. \A x \in CPUs : x > i \/ x = c \/ rd[x] # rd[c] => rt[x] = rt_runtime[x]
    BY <1>3, <1>4
  <2>. QED
    BY <1>1, <1>2, <1>3, <2>1, <2>3, <2>4 DEF Asked
<1>6. CASE i # c /\ i \in Span(rd[c]) /\ rt[i] # INF /\ v # 0
  <2>1. PICK m \in Nat : m = rt[i] /\ m < H
    <3>1. i > i - 1 /\ i \in Int
      BY CpuRange
    <3>2. rt[i] = rt_runtime[i]
      BY <1>3, <3>1
    <3>3. rt_runtime[i] \in Nat /\ rt_runtime[i] < H
      BY <1>2, <1>6, <3>2, EvenBound
    <3>. QED
      BY <3>2, <3>3
  <2>2. rd[i] = rd[c]
    BY <1>6 DEF Span
  <2>. DEFINE diff == IF s.want > 0 THEN Min({Signed(s.rt[i]), s.want}) ELSE s.want
  <2>3. Signed(m) = m
    BY <1>2, <2>1, SignedIs
  <2>4. diff = IF v > 0 THEN IF m <= v THEN m ELSE v ELSE v
    BY <1>1, <2>1, <2>3, MinOfTwo
  <2>5. PICK q \in Int : q = diff
    BY <2>1, <2>4
  <2>6. /\ m - q \in Nat /\ m - q < INF /\ -H < v - q /\ v - q < H
        /\ v - q # 0 => v - q > 0 /\ m - q = 0 /\ v > 0
    BY <1>2, <1>6, <2>1, <2>4, <2>5
  <2>7. Unsigned(m - q) = m - q
    BY <1>2, <2>6, UnsignedFits
  <2>8. TakeBack(s, c, i) = [want |-> v - q, rt |-> [rt EXCEPT ![i] = m - q]]
    <3>1. TakeBack(s, c, i) = [want |-> s.want - diff, rt |-> [s.rt EXCEPT ![i] = Unsigned(s.rt[i] - diff)]]
      BY <1>1, <1>6 DEF TakeBack
    <3>. HIDE DEF diff
    <3>. QED
      BY <1>1, <2>1, <2>5, <2>7, <3>1
  <2>. HIDE DEF diff
  <2>9. PICK r : r = [rt EXCEPT ![i] = m - q]
    OBVIOUS
  <2>10. r \in Runtimes /\ r[i] = m - q /\ \A x \in CPUs : x # i => r[x] = rt[x]
    <3>1. m - q \in u64
      BY <1>2, <2>6, Sizes
    <3>2. rt \in [CPUs -> u64]
      BY <1>1 DEF Runtimes
    <3>. QED
      BY <2>9, <3>1, <3>2 DEF Runtimes
  <2>11. Tot(Others(r, c)) = v - q
    <3>1. PICK h1 \in [CPUs -> Int] : h1 = Others(rt, c)
      BY OthersIs
    <3>2. PICK h2 \in [CPUs -> Int] : h2 = Others(r, c)
      BY <2>10, OthersIs
    <3>3. \A x \in CPUs : h1[x] = IF x # c /\ rd[x] = rd[c] /\ rt[x] # INF THEN rt[x] - Runtime ELSE 0
      BY <3>1, OthersIs
    <3>4. \A x \in CPUs : h2[x] = IF x # c /\ rd[x] = rd[c] /\ r[x] # INF THEN r[x] - Runtime ELSE 0
      BY <2>10, <3>2, OthersIs
    <3>5. \A x \in CPUs : x # i => h1[x] = h2[x]
      BY <2>10, <3>3, <3>4
    <3>6. Runtime \in Int /\ INF \in Int
      BY Sizes
    <3>7. r[i] # INF
      BY <2>6, <2>10, <3>6
    <3>8. h1[i] = m - Runtime /\ h2[i] = (m - q) - Runtime
      BY <1>6, <2>1, <2>2, <2>10, <3>3, <3>4, <3>7
    <3>9. Tot(h2) = Tot(h1) + h2[i] - h1[i] /\ Tot(h1) = v
      BY <1>3, <3>1, <3>5, TotOne
    <3>. QED
      BY <3>2, <3>6, <3>8, <3>9
  <2>12. \A x \in CPUs : r[x] = INF <=> rt_runtime[x] = INF
    BY <1>3, <1>6, <2>6, <2>10, Sizes
  <2>13. \A x \in CPUs : x > i \/ x = c \/ rd[x] # rd[c] => r[x] = rt_runtime[x]
    BY <1>3, <1>4, <1>6, <2>2, <2>10
  <2>14. \A x \in CPUs : x <= i /\ x # c /\ rd[x] = rd[c] /\ r[x] # INF /\ v - q # 0 => v - q > 0 /\ r[x] = 0
    <3>. SUFFICES ASSUME NEW x \in CPUs, x <= i, x # c, rd[x] = rd[c], r[x] # INF, v - q # 0
                  PROVE  v - q > 0 /\ r[x] = 0
      OBVIOUS
    <3>1. CASE x = i
      BY <2>6, <2>10, <3>1
    <3>2. CASE x # i
      <4>1. x <= i - 1 /\ r[x] = rt[x]
        BY <1>4, <2>10, <3>2
      <4>. QED
        BY <1>3, <1>6, <2>6, <4>1
    <3>. QED
      BY <3>1, <3>2
  <2>15. PICK t : t = [want |-> v - q, rt |-> r]
    OBVIOUS
  <2>16. t.want = v - q /\ t.rt = r /\ t \in Wants
    BY <2>10, <2>15 DEF Wants
  <2>17. Asked(i, t, c)
    BY <1>2, <2>6, <2>11, <2>12, <2>13, <2>14, <2>16 DEF Asked
  <2>. QED
    BY <2>8, <2>9, <2>15, <2>17
<1>. QED
  BY <1>5, <1>6

(* All is taken back that is missing: BUG_ON(want) has nothing to report.  *)
LEMMA ReclaimedEven ==
    ASSUME rd \in [CPUs -> Domains], Even(rt_runtime, rd), rt_b = Runtime,
           NEW c \in CPUs, rt_runtime[c] # INF
    PROVE  /\ Reclaimed(c) \in Wants /\ Reclaimed(c).want = 0
           /\ Tot(Others(Reclaimed(c).rt, c)) = 0
           /\ \A x \in CPUs : /\ Reclaimed(c).rt[x] = INF <=> rt_runtime[x] = INF
                              /\ rd[x] # rd[c] => Reclaimed(c).rt[x] = rt_runtime[x]
<1>1. rt_runtime \in Runtimes /\ Runtime \in Nat /\ NumCPUs \in Nat \ {0}
  BY Sizes, CpuRange DEF Even
<1>2. rt_b \in u64
  <2>1. Runtime \in Nat /\ Runtime <= INF
    BY Sizes
  <2>. QED
    BY <2>1, Sizes
<1>3. PICK g : /\ g[-1] = [want |-> Signed(rt_b - rt_runtime[c]), rt |-> rt_runtime]
               /\ Reclaimed(c) = g[NumCPUs - 1]
               /\ \A i \in CPUs : g[i] = TakeBack(g[i - 1], c, i)
  BY <1>1, <1>2, ReclaimedIs
<1>. DEFINE P == {i \in -1 .. NumCPUs - 1 : Asked(i, g[i], c)}
<1>4. Asked(-1, g[-1], c)
  <2>1. PICK v \in Nat, H \in Nat \ {0} : v = rt_runtime[c] /\ v < H /\ H = 2^(Bits - 1) /\ Runtime < H
    <3>1. rt_runtime[c] \in Nat /\ rt_runtime[c] < 2^(Bits - 1)
      BY EvenBound
    <3>2. Runtime < 2^(Bits - 1) /\ 2^(Bits - 1) \in Nat \ {0}
      BY Sizes
    <3>. QED
      BY <3>1, <3>2
  <2>2. Signed(Runtime - v) = Runtime - v
    <3>1. Runtime - v \in Int /\ -H < Runtime - v /\ Runtime - v < H
      BY <1>1, <2>1
    <3>. QED
      BY <2>1, <3>1, SignedIs
  <2>3. PICK s : s = [want |-> Runtime - v, rt |-> rt_runtime]
    OBVIOUS
  <2>4. g[-1] = s /\ s.want = Runtime - v /\ s.rt = rt_runtime /\ s \in Wants
    BY <1>1, <1>3, <2>1, <2>2, <2>3 DEF Wants
  <2>5. Tot(Others(rt_runtime, c)) = Runtime - v
    <3>1. PICK e \in [CPUs -> Int] : e = Excess(rt_runtime, rd, rd[c])
      BY <1>1, ExcessIs
    <3>2. PICK h \in [CPUs -> Int] : h = Others(rt_runtime, c)
      BY <1>1, OthersIs
    <3>3. \A x \in CPUs : e[x] = IF rd[x] = rd[c] /\ rt_runtime[x] # INF THEN rt_runtime[x] - Runtime ELSE 0
      BY <1>1, <3>1, ExcessIs
    <3>4. \A x \in CPUs : h[x] = IF x # c /\ rd[x] = rd[c] /\ rt_runtime[x] # INF
                                 THEN rt_runtime[x] - Runtime ELSE 0
      BY <1>1, <3>2, OthersIs
    <3>5. (\A x \in CPUs : x # c => e[x] = h[x]) /\ h[c] = 0 /\ e[c] = v - Runtime
      BY <2>1, <3>3, <3>4
    <3>6. Tot(h) = Tot(e) + h[c] - e[c] /\ Tot(e) = 0
      BY <3>1, <3>5, TotOne DEF Even
    <3>. QED
      BY <1>1, <2>1, <3>2, <3>5, <3>6
  <2>6. \A x \in CPUs : x \in Int /\ ~(x <= -1)
    BY CpuRange
  <2>. QED
    BY <1>1, <2>1, <2>4, <2>5, <2>6 DEF Asked
<1>5. -1 \in P
  BY <1>1, <1>4
<1>6. ASSUME NEW i \in CPUs, i - 1 \in P PROVE i \in P
  <2>1. Asked(i - 1, g[i - 1], c) /\ i \in -1 .. NumCPUs - 1
    BY <1>6, CpuRange
  <2>2. Asked(i, TakeBack(g[i - 1], c, i), c)
    BY <2>1, AskedNext
  <2>. QED
    BY <1>3, <2>1, <2>2
<1>. HIDE DEF P
<1>7. \A i \in -1 .. NumCPUs - 1 : i \in P
  BY <1>5, <1>6, UpTo
<1>8. NumCPUs - 1 \in P
  BY <1>1, <1>7
<1>9. PICK s : s = Reclaimed(c) /\ Asked(NumCPUs - 1, s, c)
  BY <1>3, <1>8 DEF P
<1>10. PICK v \in Int, rt \in Runtimes : v = s.want /\ rt = s.rt /\ s \in Wants
  BY <1>9 DEF Asked, Wants
<1>11. \A x \in CPUs : x <= NumCPUs - 1
  BY CpuRange
<1>12. PICK h \in [CPUs -> Int] : h = Others(rt, c)
  BY OthersIs
<1>13. \A x \in CPUs : h[x] = IF x # c /\ rd[x] = rd[c] /\ rt[x] # INF THEN rt[x] - Runtime ELSE 0
  BY <1>12, OthersIs
<1>14. Tot(h) = v
  BY <1>9, <1>10, <1>12 DEF Asked
<1>15. \A x \in CPUs : x # c /\ rd[x] = rd[c] /\ rt[x] # INF /\ v # 0 => v > 0 /\ rt[x] = 0
  BY <1>9, <1>10, <1>11 DEF Asked
<1>16. CASE v > 0
  <2>1. \A x \in CPUs : h[x] <= 0
    BY <1>1, <1>13, <1>15, <1>16
  <2>2. Tot(h) <= 0
    BY <2>1, TotNegative
  <2>. QED
    BY <1>14, <1>16, <2>2
<1>17. CASE v < 0
  <2>1. \A x \in CPUs : h[x] = 0
    BY <1>13, <1>15, <1>17
  <2>2. Tot(h) = 0
    BY <2>1, TotZero
  <2>. QED
    BY <1>14, <1>17, <2>2
<1>18. CASE v = 0
  BY <1>9, <1>10, <1>18 DEF Asked
<1>. QED
  BY <1>16, <1>17, <1>18

(* __disable_runtime: whatever happened, c has no limit afterwards, and in *)
(* an even state nothing is left wanting.                                  *)
LEMMA DisabledType ==
    ASSUME rt_runtime \in Runtimes, rt_b \in u64, NEW c \in CPUs
    PROVE  /\ Disabled(c).want \in Int /\ Disabled(c).rt \in Runtimes
           /\ Disabled(c).rt[c] = INF
<1>1. INF \in u64
  BY Sizes
<1>2. CASE rt_runtime[c] \in {INF, rt_b}
  <2>1. Disabled(c) = [want |-> 0, rt |-> [rt_runtime EXCEPT ![c] = INF]]
    BY <1>2 DEF Disabled
  <2>. QED
    BY <1>1, <2>1 DEF Runtimes
<1>3. CASE rt_runtime[c] \notin {INF, rt_b}
  <2>1. PICK s : s = Reclaimed(c)
    OBVIOUS
  <2>2. Disabled(c) = [s EXCEPT !.rt[c] = INF]
    BY <1>3, <2>1 DEF Disabled
  <2>3. s \in Wants
    <3>1. NumCPUs - 1 \in -1 .. NumCPUs - 1
      BY CpuRange
    <3>. QED
      BY <2>1, <3>1, ReclaimedIs
  <2>4. PICK v \in Int, rt \in Runtimes : v = s.want /\ rt = s.rt /\ s = [want |-> v, rt |-> rt]
    BY <2>3 DEF Wants
  <2>5. Disabled(c) = [want |-> v, rt |-> [rt EXCEPT ![c] = INF]]
    BY <2>2, <2>4
  <2>. QED
    BY <1>1, <2>5 DEF Runtimes
<1>. QED
  BY <1>2, <1>3

(* __disable_runtime finds all that is wanted, and the rest have their     *)
(* shares.                                                                 *)
LEMMA DisabledEven ==
    ASSUME rd \in [CPUs -> Domains], Even(rt_runtime, rd), rt_b = Runtime, NEW c \in CPUs
    PROVE  /\ Disabled(c).want = 0 /\ Even(Disabled(c).rt, rd) /\ Disabled(c).rt[c] = INF
           /\ \A x \in CPUs : x # c => (Disabled(c).rt[x] = INF <=> rt_runtime[x] = INF)
<1>1. rt_runtime \in Runtimes /\ Runtime \in u64
  <2>1. Runtime \in Nat /\ Runtime <= INF
    BY Sizes
  <2>. QED
    BY <2>1, Sizes DEF Even
<1>2. INF \in u64 /\ Runtime \in Int
  BY Sizes
<1>3. PICK rt \in Runtimes : rt = Disabled(c).rt /\ rt[c] = INF
  BY <1>1, DisabledType
<1>4. CASE rt_runtime[c] \in {INF, Runtime}
  <2>1. Disabled(c) = [want |-> 0, rt |-> [rt_runtime EXCEPT ![c] = INF]]
    BY <1>4 DEF Disabled
  <2>2. Disabled(c).want = 0 /\ \A x \in CPUs : x # c => rt[x] = rt_runtime[x]
    BY <1>1, <1>3, <2>1 DEF Runtimes
  <2>3. ASSUME NEW d \in Domains PROVE Tot(Excess(rt, rd, d)) = 0
    <3>1. \A x \in CPUs : Excess(rt, rd, d)[x] = Excess(rt_runtime, rd, d)[x]
      BY <1>1, <1>2, <1>3, <1>4, <2>2, ExcessIs
    <3>2. Excess(rt, rd, d) \in [CPUs -> Int] /\ Excess(rt_runtime, rd, d) \in [CPUs -> Int]
      BY <1>1, <1>3, ExcessIs
    <3>3. Excess(rt, rd, d) = Excess(rt_runtime, rd, d)
      BY <3>1, <3>2
    <3>. QED
      BY <3>3 DEF Even
  <2>. QED
    BY <1>3, <2>2, <2>3 DEF Even
<1>5. CASE rt_runtime[c] \notin {INF, Runtime}
  <2>1. PICK s : s = Reclaimed(c)
    OBVIOUS
  <2>2. /\ s \in Wants /\ s.want = 0 /\ Tot(Others(s.rt, c)) = 0
        /\ \A x \in CPUs : /\ s.rt[x] = INF <=> rt_runtime[x] = INF
                           /\ rd[x] # rd[c] => s.rt[x] = rt_runtime[x]
    BY <1>5, <2>1, ReclaimedEven
  <2>3. Disabled(c) = [s EXCEPT !.rt[c] = INF]
    BY <1>5, <2>1 DEF Disabled
  <2>4. PICK r \in Runtimes : r = s.rt /\ s = [want |-> 0, rt |-> r]
    BY <2>2 DEF Wants
  <2>5. Disabled(c) = [want |-> 0, rt |-> [r EXCEPT ![c] = INF]]
    BY <2>3, <2>4
  <2>6. Disabled(c).want = 0 /\ \A x \in CPUs : x # c => rt[x] = r[x]
    BY <1>3, <2>5 DEF Runtimes
  <2>7. ASSUME NEW d \in Domains PROVE Tot(Excess(rt, rd, d)) = 0
    <3>1. PICK e \in [CPUs -> Int] : e = Excess(rt, rd, d)
      BY <1>3, ExcessIs
    <3>2. \A x \in CPUs : e[x] = IF rd[x] = d /\ rt[x] # INF THEN rt[x] - Runtime ELSE 0
      BY <1>3, <3>1, ExcessIs
    <3>3. CASE d = rd[c]
      <4>1. PICK h \in [CPUs -> Int] : h = Others(r, c)
        BY OthersIs
      <4>2. \A x \in CPUs : h[x] = IF x # c /\ rd[x] = rd[c] /\ r[x] # INF THEN r[x] - Runtime ELSE 0
        BY <4>1, OthersIs
      <4>3. \A x \in CPUs : e[x] = h[x]
        BY <1>3, <2>6, <3>2, <3>3, <4>2
      <4>4. e = h
        BY <4>3
      <4>. QED
        BY <2>2, <2>4, <3>1, <4>1, <4>4
    <3>4. CASE d # rd[c]
      <4>1. PICK h \in [CPUs -> Int] : h = Excess(rt_runtime, rd, d)
        BY <1>1, ExcessIs
      <4>2. \A x \in CPUs : h[x] = IF rd[x] = d /\ rt_runtime[x] # INF THEN rt_runtime[x] - Runtime ELSE 0
        BY <1>1, <4>1, ExcessIs
      <4>3. \A x \in CPUs : rd[x] = d => x # c /\ rt[x] = rt_runtime[x]
        BY <2>2, <2>4, <2>6, <3>4
      <4>4. \A x \in CPUs : e[x] = h[x]
        BY <3>2, <4>2, <4>3
      <4>5. e = h
        BY <4>4
      <4>. QED
        BY <3>1, <4>1, <4>5 DEF Even
    <3>. QED
      BY <3>3, <3>4
  <2>8. \A x \in CPUs : x # c => (rt[x] = INF <=> rt_runtime[x] = INF)
    BY <2>2, <2>4, <2>6
  <2>. QED
    BY <1>3, <2>6, <2>7, <2>8 DEF Even
<1>. QED
  BY <1>4, <1>5

-----------------------------------------------------------------------------
(* The list of what is left to do of a hotplug operation.                  *)

Ops == {"disable", "enable", "active", "inactive", "detach", "attach", "online", "die"}
Todo == Seq(Ops \X CPUs)

(* An operation for each CPU of a set.                                     *)
LEMMA InOrderIs ==
    ASSUME NEW op \in Ops, NEW T \in SUBSET CPUs
    PROVE  InOrder(op, T) \in Seq({op} \X T)
<1>. DEFINE X == Seq({op} \X T)
            Body(i, s) == IF i \in T THEN Append(s, << op, i >>) ELSE s
            IsLoop(g) == g = [n \in -1 .. NumCPUs - 1 |->
                                IF n = -1 THEN << >>
                                ELSE IF n \in T THEN Append(g[n - 1], << op, n >>) ELSE g[n - 1]]
<1>1. ASSUME NEW i \in CPUs, NEW s \in X PROVE Body(i, s) \in X
  <2>1. CASE i \in T
    <3>1. << op, i >> \in {op} \X T
      BY <2>1
    <3>2. Append(s, << op, i >>) \in X
      BY <3>1
    <3>. QED
      BY <2>1, <3>2
  <2>. QED
    BY <2>1
<1>2. PICK F : F = [i \in CPUs |-> [s \in X |-> Body(i, s)]]
  OBVIOUS
<1>3. \A i \in CPUs : i \in -1 .. NumCPUs - 1 /\ i - 1 \in -1 .. NumCPUs - 1 /\ i # -1
  BY CpuRange
<1>4. \A i \in -1 .. NumCPUs - 1 : i = -1 \/ i \in CPUs
  BY CpuRange
<1>5. PICK g : Iterated(g, << >>, F)
  BY Iterates
<1>6. -1 \in -1 .. NumCPUs - 1 /\ NumCPUs - 1 \in -1 .. NumCPUs - 1
  BY CpuRange
<1>7. << >> \in X
  OBVIOUS
<1>. HIDE DEF Body, X
<1>8. \A i \in -1 .. NumCPUs - 1 : g[i] \in X
  <2>. DEFINE P == {i \in -1 .. NumCPUs - 1 : g[i] \in X}
  <2>1. -1 \in P
    BY <1>5, <1>6, <1>7 DEF Iterated
  <2>2. ASSUME NEW i \in CPUs, i - 1 \in P PROVE i \in P
    <3>1. g[i] = F[i][g[i - 1]] /\ g[i - 1] \in X
      BY <1>3, <1>5, <2>2 DEF Iterated
    <3>2. F[i][g[i - 1]] = Body(i, g[i - 1])
      BY <1>2, <3>1
    <3>. QED
      BY <1>1, <1>3, <3>1, <3>2
  <2>. HIDE DEF P
  <2>3. \A i \in -1 .. NumCPUs - 1 : i \in P
    BY <2>1, <2>2, UpTo
  <2>. QED
    BY <2>3 DEF P
<1>9. \A i \in CPUs : F[i][g[i - 1]] = Body(i, g[i - 1])
  BY <1>2, <1>3, <1>8
<1>10. IsLoop(g)
  BY <1>4, <1>5, <1>9 DEF Iterated, Body
<1>11. InOrder(op, T) = (CHOOSE k : IsLoop(k))[NumCPUs - 1]
  BY DEF InOrder
<1>12. PICK k : k = CHOOSE j : IsLoop(j)
  OBVIOUS
<1>13. IsLoop(k)
  <2>. HIDE DEF IsLoop
  <2>. QED
    BY <1>10, <1>12
<1>14. k[-1] = << >> /\ \A i \in CPUs : k[i] = Body(i, k[i - 1])
  BY <1>3, <1>6, <1>13 DEF Body
<1>15. \A i \in -1 .. NumCPUs - 1 : k[i] \in X
  <2>. DEFINE P == {i \in -1 .. NumCPUs - 1 : k[i] \in X}
  <2>1. -1 \in P
    BY <1>6, <1>7, <1>14
  <2>2. \A i \in CPUs : i - 1 \in P => i \in P
    BY <1>1, <1>3, <1>14
  <2>. HIDE DEF P
  <2>3. \A i \in -1 .. NumCPUs - 1 : i \in P
    BY <2>1, <2>2, UpTo
  <2>. QED
    BY <2>3 DEF P
<1>16. InOrder(op, T) = k[NumCPUs - 1]
  BY <1>11, <1>12
<1>. HIDE DEF IsLoop
<1>. QED
  BY <1>6, <1>15, <1>16 DEF X

(* What partition_sched_domains does, step by step.                        *)
LEMMA RebuildIs ==
    ASSUME NEW T \in SUBSET CPUs
    PROVE  Rebuild(T) \in Seq(({"detach"} \X CPUs) \cup ({"attach"} \X T))
<1>. DEFINE X == ({"detach"} \X CPUs) \cup ({"attach"} \X T)
<1>1. Span("dom") \in SUBSET CPUs
  BY DEF Span
<1>2. "detach" \in Ops /\ "attach" \in Ops
  BY DEF Ops
<1>3. PICK dl \in Seq({"detach"} \X Span("dom")) : dl = InOrder("detach", Span("dom"))
  BY <1>1, <1>2, InOrderIs
<1>4. PICK al \in Seq({"attach"} \X T) : al = InOrder("attach", T)
  BY <1>2, InOrderIs
<1>5. {"detach"} \X Span("dom") \subseteq X /\ {"attach"} \X T \subseteq X
  BY <1>1
<1>. HIDE DEF X
<1>6. dl \in Seq(X) /\ al \in Seq(X)
  BY <1>5, <1>3, <1>4
<1>7. dl \o al \in Seq(X)
  BY <1>6
<1>. QED
  BY <1>3, <1>4, <1>7 DEF Rebuild, X

(* What stands in the list, and where.                                     *)
JoinOk(l, i, act) ==
    l[i][1] \in {"attach", "enable"} => l[i][2] \in act \/ l[1] = << "active", l[i][2] >>
LeaveOk(l, i) ==
    l[i][1] = "inactive" =>
        /\ i = 1 \/ (i = 2 /\ l[1] = << "disable", l[i][2] >>)
        /\ \A j \in 1 .. Len(l) : l[j][1] \in {"attach", "enable"} => l[j][2] # l[i][2]
ActiveOk(l, i, on) == l[i][1] = "active" => i = 1 /\ l[i][2] \in on
DieOk(l, i, act, on) ==
    l[i][1] = "die" =>
        /\ i = Len(l) /\ l[i][2] \in on /\ l[1][1] # "active"
        /\ l[i][2] \notin act \/ \E j \in 1 .. i - 1 : l[j] = << "inactive", l[i][2] >>
Listed(l, act, on) ==
    /\ l \in Todo
    /\ \A i \in 1 .. Len(l) :
         JoinOk(l, i, act) /\ LeaveOk(l, i) /\ ActiveOk(l, i, on) /\ DieOk(l, i, act, on)

ActiveAfter(o, c, act) == IF o = "active" THEN act \cup {c}
                          ELSE IF o = "inactive" THEN act \ {c} ELSE act

(* The next step is taken from the list.                                   *)
LEMMA ListedTail ==
    ASSUME NEW l, NEW act, NEW on, Listed(l, act, on), l # << >>, NEW on2,
           Head(l)[1] # "die" => on2 = on
    PROVE  /\ Listed(Tail(l), ActiveAfter(Head(l)[1], Head(l)[2], act), on2)
           /\ Tail(l) # << >> /\ Tail(l)[1][1] = "inactive" => Head(l) = << "disable", Tail(l)[1][2] >>
<1>1. PICK m \in Nat : m = Len(l) /\ m >= 1 /\ Head(l) = l[1]
  BY DEF Listed, Todo
<1>2. PICK t : t = Tail(l)
  OBVIOUS
<1>3. t \in Todo /\ Len(t) = m - 1 /\ \A i \in 1 .. m - 1 : t[i] = l[i + 1] /\ i + 1 \in 1 .. m
  BY <1>1, <1>2 DEF Listed, Todo
<1>4. PICK o, c : l[1] = << o, c >> /\ o = l[1][1] /\ c = l[1][2]
  <2>1. l[1] \in Ops \X CPUs
    BY <1>1 DEF Listed, Todo
  <2>. QED
    BY <2>1
<1>5. PICK act2 : act2 = ActiveAfter(o, c, act)
  OBVIOUS
<1>6. \A i \in 1 .. m : JoinOk(l, i, act) /\ LeaveOk(l, i) /\ ActiveOk(l, i, on) /\ DieOk(l, i, act, on)
  BY <1>1 DEF Listed
<1>7. 1 \in 1 .. m
  BY <1>1
<1>8. ASSUME NEW i \in 1 .. m - 1
      PROVE  /\ JoinOk(t, i, act2) /\ LeaveOk(t, i) /\ ActiveOk(t, i, on2) /\ DieOk(t, i, act2, on2)
             /\ t[i][1] = "inactive" => l[1] = << "disable", t[i][2] >>
  <2>1. t[i] = l[i + 1] /\ i + 1 \in 1 .. m /\ i \in Int /\ i >= 1 /\ i + 1 # 1
    BY <1>3
  <2>2. JoinOk(l, i + 1, act) /\ LeaveOk(l, i + 1) /\ ActiveOk(l, i + 1, on) /\ DieOk(l, i + 1, act, on)
    BY <1>6, <2>1
  <2>3. PICK p, x : p = t[i][1] /\ x = t[i][2] /\ p = l[i + 1][1] /\ x = l[i + 1][2]
    BY <2>1
  <2>4. ASSUME p \in {"attach", "enable"} PROVE x \in act2
    <3>1. x \in act \/ l[1] = << "active", x >>
      BY <2>2, <2>3, <2>4 DEF JoinOk
    <3>2. ASSUME o = "inactive" PROVE x # c
      <4>1. LeaveOk(l, 1) /\ l[1][1] = "inactive"
        BY <1>4, <1>6, <1>7, <3>2
      <4>2. l[i + 1][2] # l[1][2]
        BY <1>1, <2>1, <2>3, <2>4, <4>1 DEF LeaveOk
      <4>. QED
        BY <1>4, <2>3, <4>2
    <3>3. l[1] = << "active", x >> => o = "active" /\ c = x
      BY <1>4
    <3>. QED
      BY <1>5, <3>1, <3>2, <3>3 DEF ActiveAfter
  <2>5. ASSUME p = "inactive"
        PROVE  i = 1 /\ l[1] = << "disable", x >> /\ LeaveOk(t, i)
    <3>1. /\ i + 1 = 2 /\ l[1] = << "disable", x >>
          /\ \A j \in 1 .. m : l[j][1] \in {"attach", "enable"} => l[j][2] # x
      BY <1>1, <2>1, <2>2, <2>3, <2>5 DEF LeaveOk
    <3>2. i = 1
      BY <2>1, <3>1
    <3>3. \A j \in 1 .. m - 1 : t[j][1] \in {"attach", "enable"} => t[j][2] # x
      BY <1>3, <3>1
    <3>. QED
      BY <1>3, <2>3, <3>1, <3>2, <3>3 DEF LeaveOk
  <2>6. p # "active"
    BY <2>1, <2>2, <2>3 DEF ActiveOk
  <2>7. ASSUME p = "die" PROVE DieOk(t, i, act2, on2)
    <3>1. /\ i + 1 = m /\ x \in on /\ o # "active"
          /\ x \notin act \/ \E j \in 1 .. (i + 1) - 1 : l[j] = << "inactive", x >>
      BY <1>1, <1>4, <2>2, <2>3, <2>7 DEF DieOk
    <3>2. o # "die"
      <4>1. DieOk(l, 1, act, on)
        BY <1>6, <1>7
      <4>2. o = "die" => 1 = m
        BY <1>1, <1>4, <4>1 DEF DieOk
      <4>. QED
        BY <2>1, <3>1, <4>2
    <3>3. on2 = on
      BY <1>1, <1>4, <3>2
    <3>4. t[1][1] # "active"
      <4>1. 1 + 1 \in 1 .. m /\ t[1] = l[1 + 1] /\ 1 + 1 # 1
        BY <1>1, <1>3, <2>1
      <4>2. ActiveOk(l, 1 + 1, on)
        BY <1>6, <4>1
      <4>. QED
        BY <4>1, <4>2 DEF ActiveOk
    <3>5. act2 \subseteq act
      BY <1>5, <3>1 DEF ActiveAfter
    <3>6. x \notin act2 \/ \E j \in 1 .. i - 1 : t[j] = << "inactive", x >>
      <4>1. CASE x \notin act
        BY <3>5, <4>1
      <4>2. ASSUME NEW j \in 1 .. (i + 1) - 1, l[j] = << "inactive", x >>, x \in act2 PROVE \E k \in 1 .. i - 1 : t[k] = << "inactive", x >>
        <5>1. j # 1
          <6>1. CASE j = 1
            <7>1. o = "inactive" /\ c = x
              BY <1>4, <4>2, <6>1
            <7>. QED
              BY <1>5, <4>2, <7>1 DEF ActiveAfter
          <6>. QED
            BY <6>1
        <5>2. j - 1 \in 1 .. i - 1 /\ j - 1 \in 1 .. m - 1 /\ (j - 1) + 1 = j
          BY <1>1, <2>1, <5>1
        <5>3. t[j - 1] = l[j]
          BY <1>3, <5>2
        <5>. QED
          BY <4>2, <5>2, <5>3
      <4>. QED
        BY <3>1, <4>1, <4>2
    <3>. QED
      BY <1>3, <2>1, <2>3, <3>1, <3>3, <3>4, <3>6 DEF DieOk
  <2>. QED
    BY <2>3, <2>4, <2>5, <2>6, <2>7 DEF JoinOk, LeaveOk, ActiveOk, DieOk
<1>9. Listed(t, act2, on2)
  BY <1>3, <1>8 DEF Listed
<1>10. ASSUME t # << >>, t[1][1] = "inactive" PROVE l[1] = << "disable", t[1][2] >>
  <2>1. 1 \in 1 .. m - 1
    BY <1>1, <1>3, <1>10 DEF Todo
  <2>. QED
    BY <1>8, <1>10, <2>1
<1>11. act2 = ActiveAfter(Head(l)[1], Head(l)[2], act)
  BY <1>1, <1>4, <1>5
<1>. QED
  BY <1>1, <1>2, <1>9, <1>10, <1>11

(* The list of a CPU that goes down.                                       *)
LEMMA ListedDown ==
    ASSUME NEW act \in SUBSET CPUs, NEW on, NEW c \in CPUs, c \in on
    PROVE  Listed(<< << "disable", c >>, << "inactive", c >> >> \o Rebuild(act \ {c})
                  \o << << "die", c >> >>, act, on)
<1>1. PICK r \in Seq(({"detach"} \X CPUs) \cup ({"attach"} \X (act \ {c}))) : r = Rebuild(act \ {c})
  BY RebuildIs
<1>2. PICK m \in Nat : m = Len(r)
  BY <1>1
<1>3. PICK l : l = << << "disable", c >>, << "inactive", c >> >> \o r \o << << "die", c >> >>
  OBVIOUS
<1>4. \A i \in 1 .. m : r[i] \in ({"detach"} \X CPUs) \cup ({"attach"} \X (act \ {c}))
  BY <1>1, <1>2
<1>5. r \in Todo
  <2>1. PICK X : X = ({"detach"} \X CPUs) \cup ({"attach"} \X (act \ {c}))
    OBVIOUS
  <2>2. X \subseteq Ops \X CPUs /\ r \in Seq(X)
    BY <2>1 DEF Ops
  <2>. QED
    BY <2>2 DEF Todo
<1>6. << "disable", c >> \in Ops \X CPUs /\ << "inactive", c >> \in Ops \X CPUs /\ << "die", c >> \in Ops \X CPUs
  BY DEF Ops
<1>7. /\ l \in Todo /\ Len(l) = m + 3
      /\ l[1] = << "disable", c >> /\ l[2] = << "inactive", c >> /\ l[m + 3] = << "die", c >>
      /\ \A i \in 3 .. m + 2 : l[i] = r[i - 2]
  <2>2. PICK l1 : l1 = << << "disable", c >>, << "inactive", c >> >> \o r
    OBVIOUS
  <2>3. /\ l1 \in Todo /\ Len(l1) = m + 2 /\ l1[1] = << "disable", c >> /\ l1[2] = << "inactive", c >>
        /\ \A i \in 3 .. m + 2 : l1[i] = r[i - 2]
    <3>1. << << "disable", c >>, << "inactive", c >> >> \in Todo
      BY <1>6 DEF Todo
    <3>. QED
      BY <1>2, <1>5, <2>2, <3>1 DEF Todo
  <2>4. << << "die", c >> >> \in Todo
    BY <1>6 DEF Todo
  <2>5. l = l1 \o << << "die", c >> >>
    BY <1>3, <2>2
  <2>6. l \in Todo /\ Len(l) = m + 3 /\ l[m + 3] = << "die", c >> /\ \A i \in 1 .. m + 2 : l[i] = l1[i]
    BY <2>3, <2>4, <2>5 DEF Todo
  <2>. QED
    BY <2>3, <2>6
<1>8. ASSUME NEW i \in 1 .. m + 3
      PROVE  \/ i = 1 /\ l[i] = << "disable", c >>
             \/ i = 2 /\ l[i] = << "inactive", c >>
             \/ i = m + 3 /\ l[i] = << "die", c >>
             \/ l[i][1] = "detach"
             \/ l[i][1] = "attach" /\ l[i][2] \in act \ {c}
  <2>1. CASE i \in 3 .. m + 2
    <3>1. i - 2 \in 1 .. m /\ l[i] = r[i - 2]
      BY <1>7, <2>1
    <3>. QED
      BY <1>4, <3>1
  <2>. QED
    BY <1>7, <2>1
<1>9. ASSUME NEW i \in 1 .. m + 3
      PROVE  JoinOk(l, i, act) /\ LeaveOk(l, i) /\ ActiveOk(l, i, on) /\ DieOk(l, i, act, on)
  <2>1. JoinOk(l, i, act) /\ ActiveOk(l, i, on)
    BY <1>8 DEF JoinOk, ActiveOk
  <2>2. LeaveOk(l, i)
    <3>1. \A j \in 1 .. m + 3 : l[j][1] \in {"attach", "enable"} => l[j][2] # c
      BY <1>8
    <3>2. l[i][1] = "inactive" => i = 2 /\ l[i][2] = c
      BY <1>8
    <3>. QED
      BY <1>7, <3>1, <3>2 DEF LeaveOk
  <2>3. DieOk(l, i, act, on)
    <3>1. l[i][1] = "die" => i = m + 3 /\ l[i][2] = c
      BY <1>8
    <3>2. 2 \in 1 .. (m + 3) - 1 /\ l[1][1] # "active"
      BY <1>7
    <3>. QED
      BY <1>7, <3>1, <3>2 DEF DieOk
  <2>. QED
    BY <2>1, <2>2, <2>3
<1>. QED
  BY <1>1, <1>3, <1>7, <1>9 DEF Listed

(* The list of a CPU that comes up, or stays after all.                    *)
LEMMA ListedUp ==
    ASSUME NEW act \in SUBSET CPUs, NEW on, NEW c \in CPUs, c \in on,
           NEW ends \in Seq({"online", "enable"} \X {c})
    PROVE  Listed(<< << "active", c >> >> \o Rebuild(act \cup {c}) \o ends, act, on)
<1>1. PICK r \in Seq(({"detach"} \X CPUs) \cup ({"attach"} \X (act \cup {c}))) : r = Rebuild(act \cup {c})
  BY RebuildIs
<1>2. PICK m \in Nat, k \in Nat : m = Len(r) /\ k = Len(ends)
  BY <1>1
<1>3. PICK l : l = << << "active", c >> >> \o r \o ends
  OBVIOUS
<1>4. \A i \in 1 .. m : r[i] \in ({"detach"} \X CPUs) \cup ({"attach"} \X (act \cup {c}))
  BY <1>1, <1>2
<1>5. r \in Todo
  <2>1. PICK X : X = ({"detach"} \X CPUs) \cup ({"attach"} \X (act \cup {c}))
    OBVIOUS
  <2>2. X \subseteq Ops \X CPUs /\ r \in Seq(X)
    BY <2>1 DEF Ops
  <2>. QED
    BY <2>2 DEF Todo
<1>6. << "active", c >> \in Ops \X CPUs /\ {"online", "enable"} \X {c} \subseteq Ops \X CPUs
  BY DEF Ops
<1>7. /\ l \in Todo /\ Len(l) = m + 1 + k /\ l[1] = << "active", c >>
      /\ \A i \in 2 .. m + 1 : l[i] = r[i - 1]
      /\ \A i \in m + 2 .. m + 1 + k : l[i] = ends[i - (m + 1)]
  <2>2. PICK l1 : l1 = << << "active", c >> >> \o r
    OBVIOUS
  <2>3. /\ l1 \in Todo /\ Len(l1) = m + 1 /\ l1[1] = << "active", c >>
        /\ \A i \in 2 .. m + 1 : l1[i] = r[i - 1]
    <3>1. << << "active", c >> >> \in Todo
      BY <1>6 DEF Todo
    <3>. QED
      BY <1>2, <1>5, <2>2, <3>1 DEF Todo
  <2>4. ends \in Todo
    BY <1>6 DEF Todo
  <2>5. l = l1 \o ends
    BY <1>3, <2>2
  <2>6. /\ l \in Todo /\ Len(l) = m + 1 + k /\ \A i \in 1 .. m + 1 : l[i] = l1[i]
        /\ \A i \in m + 2 .. m + 1 + k : l[i] = ends[i - (m + 1)]
    <3>1. l \in Todo /\ Len(l) = (m + 1) + k
      <4>1. l \in Todo
        BY <2>3, <2>4, <2>5 DEF Todo
      <4>2. Len(l) = Len(l1) + Len(ends)
        <5>1. PICK X : X = Ops \X CPUs /\ l1 \in Seq(X) /\ ends \in Seq(X)
          BY <2>3, <2>4 DEF Todo
        <5>. QED
          BY <2>5, <5>1, ConcatProperties
      <4>. QED
        BY <1>2, <2>3, <4>1, <4>2
    <3>2. \A i \in 1 .. (m + 1) + k : l[i] = IF i <= m + 1 THEN l1[i] ELSE ends[i - (m + 1)]
      BY <1>2, <2>3, <2>4, <2>5 DEF Todo
    <3>. QED
      BY <3>1, <3>2
  <2>. QED
    BY <2>3, <2>6
<1>8. ASSUME NEW i \in 1 .. m + 1 + k
      PROVE  \/ i = 1 /\ l[i] = << "active", c >>
             \/ l[i][1] = "detach"
             \/ l[i][1] = "attach" /\ l[i][2] \in act \cup {c}
             \/ l[i][1] \in {"online", "enable"} /\ l[i][2] = c
  <2>1. CASE i \in 2 .. m + 1
    <3>1. i - 1 \in 1 .. m /\ l[i] = r[i - 1]
      BY <1>7, <2>1
    <3>. QED
      BY <1>4, <3>1
  <2>2. CASE i \in m + 2 .. m + 1 + k
    <3>1. i - (m + 1) \in 1 .. k /\ l[i] = ends[i - (m + 1)]
      BY <1>7, <2>2
    <3>2. ends[i - (m + 1)] \in {"online", "enable"} \X {c}
      BY <1>2, <3>1
    <3>. QED
      BY <3>1, <3>2
  <2>. QED
    BY <1>7, <2>1, <2>2
<1>9. ASSUME NEW i \in 1 .. m + 1 + k
      PROVE  JoinOk(l, i, act) /\ LeaveOk(l, i) /\ ActiveOk(l, i, on) /\ DieOk(l, i, act, on)
  <2>1. JoinOk(l, i, act)
    BY <1>7, <1>8 DEF JoinOk
  <2>2. ActiveOk(l, i, on) /\ LeaveOk(l, i) /\ DieOk(l, i, act, on)
    BY <1>8 DEF ActiveOk, LeaveOk, DieOk
  <2>. QED
    BY <2>1, <2>2
<1>. QED
  BY <1>1, <1>3, <1>7, <1>9 DEF Listed

-----------------------------------------------------------------------------
(* A CPU with its own share, or with none, changes its domain or what of   *)
(* the two it has.                                                         *)
LEMMA EvenMove ==
    ASSUME NEW rt1, NEW dom1, Even(rt1, dom1), NEW rt2 \in Runtimes, NEW dom2, NEW c \in CPUs,
           \A x \in CPUs : x # c => rt1[x] = rt2[x] /\ dom1[x] = dom2[x],
           rt1[c] \in {INF, Runtime}, rt2[c] \in {INF, Runtime}
    PROVE  Even(rt2, dom2)
<1>1. rt1 \in Runtimes
  BY DEF Even
<1>2. ASSUME NEW d \in Domains PROVE Tot(Excess(rt2, dom2, d)) = 0
  <2>1. PICK e1 \in [CPUs -> Int] : e1 = Excess(rt1, dom1, d)
    BY <1>1, ExcessIs
  <2>2. PICK e2 \in [CPUs -> Int] : e2 = Excess(rt2, dom2, d)
    BY ExcessIs
  <2>3. \A x \in CPUs : e1[x] = IF dom1[x] = d /\ rt1[x] # INF THEN rt1[x] - Runtime ELSE 0
    BY <1>1, <2>1, ExcessIs
  <2>4. \A x \in CPUs : e2[x] = IF dom2[x] = d /\ rt2[x] # INF THEN rt2[x] - Runtime ELSE 0
    BY <2>2, ExcessIs
  <2>5. e1[c] = 0 /\ e2[c] = 0
    BY <2>3, <2>4, Sizes
  <2>6. \A x \in CPUs : e1[x] = e2[x]
    BY <2>3, <2>4, <2>5
  <2>7. e1 = e2
    BY <2>6
  <2>. QED
    BY <2>1, <2>2, <2>7 DEF Even
<1>. QED
  BY <1>2 DEF Even

-----------------------------------------------------------------------------
(* The invariant.                                                          *)

Undisturbed == upset \cap Uneven = {}
Borrowers   == {"tick borrows", "timer borrows"}

BandTypes ==
    /\ sysctl \in Settings \cup {Runtime, -1} /\ rt_b \in u64
    /\ rt_runtime \in Runtimes /\ rt_time \in [CPUs -> 0 .. MaxTime]
    /\ rt_throttled \in [CPUs -> BOOLEAN]
    /\ resched \subseteq CPUs
    /\ locked \in [CPUs -> {"no", "tick borrows", "tick", "timer borrows", "timer"}]
    /\ timer \in {"off", "armed", "run"}
    /\ run \in [cpu : CPUs, next : 0 .. NumCPUs, overrun : Overruns \cup {0}, idle : BOOLEAN]
    /\ rd \in [CPUs -> Domains]
    /\ online \subseteq CPUs /\ cpu_active \subseteq cpu_online /\ cpu_online \subseteq CPUs
    /\ events \in 0 .. MaxEvents
    /\ upset \subseteq {"across domains", "start lost", "reset", "written", "off"}
    /\ halt \in {"no", "BUG_ON(want)", "migrate_tasks"}

TasksFit == rt_nr_running \in [CPUs -> Nat] /\ Tot(rt_nr_running) <= MaxTasks

(* A CPU of the domain that is neither online nor active has no runtime    *)
(* that could leave the domain with it.                                    *)
Accounted(c) == rd[c] = "dom" => c \in online \/ c \in cpu_active \/ rt_runtime[c] = INF

FairShares ==
    /\ sysctl = Runtime /\ rt_b = Runtime /\ Even(rt_runtime, rd) /\ halt # "BUG_ON(want)"
    /\ \A c \in CPUs : locked[c] \in Borrowers => rt_runtime[c] # INF
    /\ \A c \in CPUs : Accounted(c)
    /\ plug # << >> /\ plug[1][1] = "inactive" => rt_runtime[plug[1][2]] = INF

PlugListed == Listed(plug, cpu_active, cpu_online)

BandwidthInv == BandTypes /\ TasksFit /\ PlugListed /\ (Undisturbed => FairShares)

(* At boot every CPU has its share.                                        *)
LEMMA BandwidthInitially == BandwidthInit => BandwidthInv
<1>. SUFFICES ASSUME BandwidthInit PROVE BandwidthInv
  OBVIOUS
<1>1. /\ Runtime \in u64 /\ MaxTime \in Nat /\ MaxTasks \in Nat /\ MaxEvents \in Nat
      /\ NumCPUs \in Nat \ {0} /\ 0 \in CPUs /\ Runtime # INF /\ Runtime \in Int
  BY Sizes, CpuRange, BandwidthAssumption
<1>2. rt_runtime \in Runtimes /\ \A c \in CPUs : rt_runtime[c] = Runtime
  BY <1>1 DEF BandwidthInit, Runtimes
<1>3. NoRun \in [cpu : CPUs, next : 0 .. NumCPUs, overrun : Overruns \cup {0}, idle : BOOLEAN]
  BY <1>1 DEF NoRun
<1>4. rd \in [CPUs -> Domains]
  BY DEF BandwidthInit, Domains
<1>5. BandTypes
  BY <1>1, <1>2, <1>3, <1>4 DEF BandwidthInit, BandTypes
<1>6. TasksFit
  <2>1. rt_nr_running \in [CPUs -> Nat] /\ rt_nr_running \in [CPUs -> Int]
        /\ \A c \in CPUs : rt_nr_running[c] = 0
    BY DEF BandwidthInit
  <2>2. Tot(rt_nr_running) = 0
    BY <2>1, TotZero
  <2>. QED
    BY <1>1, <2>1, <2>2 DEF TasksFit
<1>7. PlugListed
  BY DEF BandwidthInit, PlugListed, Listed, Todo
<1>8. Even(rt_runtime, rd)
  <2>1. ASSUME NEW d \in Domains PROVE Tot(Excess(rt_runtime, rd, d)) = 0
    <3>1. PICK e \in [CPUs -> Int] : e = Excess(rt_runtime, rd, d)
      BY <1>2, ExcessIs
    <3>2. \A c \in CPUs : e[c] = IF rd[c] = d /\ rt_runtime[c] # INF THEN rt_runtime[c] - Runtime ELSE 0
      BY <1>2, <3>1, ExcessIs
    <3>3. \A c \in CPUs : e[c] = 0
      BY <1>1, <1>2, <3>2
    <3>. QED
      BY <3>1, <3>3, TotZero
  <2>. QED
    BY <1>2, <2>1 DEF Even
<1>9. \A c \in CPUs : Accounted(c)
  BY DEF BandwidthInit, Accounted
<1>10. FairShares
  BY <1>8, <1>9 DEF BandwidthInit, FairShares, Borrowers
<1>. QED
  BY <1>5, <1>6, <1>7, <1>10 DEF BandwidthInv

(* Steps that leave the run queues' runtimes and their domains alone.      *)
LEMMA QuietShares ==
    ASSUME Undisturbed => FairShares,
           UNCHANGED << sysctl, rt_b, rt_runtime, rd, online, cpu_active, halt >>, upset \subseteq upset',
           \A c \in CPUs : locked'[c] \in Borrowers => locked[c] \in Borrowers \/ rt_runtime[c] # INF,
           plug' = plug \/ plug'[1][1] # "inactive"
    PROVE  Undisturbed' => FairShares'
<1>. SUFFICES ASSUME Undisturbed' PROVE FairShares'
  OBVIOUS
<1>1. Undisturbed
  BY DEF Undisturbed
<1>2. FairShares
  BY <1>1
<1>3. Even(rt_runtime, rd)'
  BY <1>2 DEF FairShares
<1>4. \A c \in CPUs : locked'[c] \in Borrowers => rt_runtime'[c] # INF
  BY <1>2 DEF FairShares
<1>5. \A c \in CPUs : Accounted(c)'
  BY <1>2 DEF FairShares, Accounted
<1>6. plug' # << >> /\ plug'[1][1] = "inactive" => rt_runtime'[plug'[1][2]] = INF
  BY <1>2 DEF FairShares
<1>. QED
  BY <1>2, <1>3, <1>4, <1>5, <1>6 DEF FairShares

(* A CPU has no more tasks than there are.                                 *)
LEMMA TasksOf ==
    ASSUME TasksFit, NEW c \in CPUs
    PROVE  /\ rt_nr_running \in [CPUs -> Int] /\ Tot(rt_nr_running) \in Int
           /\ rt_nr_running[c] \in Nat /\ rt_nr_running[c] <= Tot(rt_nr_running)
<1>1. rt_nr_running \in [CPUs -> Int] /\ (\A x \in CPUs : rt_nr_running[x] >= -0) /\ rt_nr_running[c] \in Nat
  BY DEF TasksFit
<1>2. Tot(rt_nr_running) \in Int
  BY <1>1, SumsAre
<1>3. Tot(rt_nr_running) + 0 * NumCPUs >= rt_nr_running[c] + 0
  BY <1>1, TotAbove
<1>4. 0 * NumCPUs = 0
  BY CpuRange
<1>. QED
  BY <1>1, <1>2, <1>3, <1>4

(* A task comes.                                                           *)
LEMMA EnqueueKeeps ==
    ASSUME BandwidthInv, NEW c \in CPUs, Enqueue(c) PROVE BandwidthInv'
<1>1. BandTypes /\ TasksFit /\ PlugListed /\ (Undisturbed => FairShares)
  BY DEF BandwidthInv
<1>2. BandTypes'
  BY <1>1 DEF Enqueue, BandTypes, Started, topo, setting
<1>3. TasksFit'
  <2>1. PICK n \in Int : n = Tot(rt_nr_running) /\ rt_nr_running \in [CPUs -> Int]
    BY <1>1, TasksOf
  <2>2. NrTasks = n
    <3>1. CPUs \in SUBSET CPUs /\ 0 \in Int
      OBVIOUS
    <3>2. /\ Added(rt_nr_running, CPUs) =
             Tot([x \in CPUs |-> IF x \in CPUs THEN rt_nr_running[x] - 0 ELSE 0]) + 0 * Cardinality(CPUs)
          /\ Cardinality(CPUs) \in Nat
      BY <2>1, <3>1, SumTot
    <3>3. [x \in CPUs |-> IF x \in CPUs THEN rt_nr_running[x] - 0 ELSE 0] = rt_nr_running
      BY <2>1
    <3>4. Added(rt_nr_running, CPUs) = n
      BY <2>1, <3>2, <3>3
    <3>. QED
      BY <3>4 DEF Added, NrTasks
  <2>3. PICK h \in [CPUs -> Nat] : /\ h = rt_nr_running' /\ h[c] = rt_nr_running[c] + 1
                                   /\ \A x \in CPUs : x # c => rt_nr_running[x] = h[x]
    <3>1. PICK f \in [CPUs -> Nat] : f = rt_nr_running
      BY <1>1 DEF TasksFit
    <3>2. rt_nr_running' = [f EXCEPT ![c] = f[c] + 1]
      BY <3>1 DEF Enqueue
    <3>3. f[c] \in Nat /\ f[c] + 1 \in Nat
      BY <3>1, <3>2
    <3>. QED
      BY <3>1, <3>2, <3>3
  <2>4. h \in [CPUs -> Int]
    OBVIOUS
  <2>5. Tot(h) = n + h[c] - rt_nr_running[c]
    BY <2>1, <2>3, <2>4, TotOne
  <2>6. n < MaxTasks /\ MaxTasks \in Nat /\ rt_nr_running[c] \in Int
    BY <2>1, <2>2, BandwidthAssumption DEF Enqueue
  <2>7. Tot(h) <= MaxTasks
    BY <2>3, <2>5, <2>6
  <2>. QED
    BY <2>3, <2>7 DEF TasksFit
<1>4. PlugListed'
  BY <1>1 DEF Enqueue, PlugListed, topo
<1>5. Undisturbed' => FairShares'
  <2>1. /\ UNCHANGED << sysctl, rt_b, rt_runtime, rd, online, cpu_active, halt, upset, locked, plug >>
    BY DEF Enqueue, topo, setting
  <2>. QED
    BY <1>1, <2>1, QuietShares
<1>. QED
  BY <1>2, <1>3, <1>4, <1>5 DEF BandwidthInv

(* A task goes.                                                            *)
LEMMA DequeueKeeps ==
    ASSUME BandwidthInv, NEW c \in CPUs, Dequeue(c) PROVE BandwidthInv'
<1>1. BandTypes /\ TasksFit /\ PlugListed /\ (Undisturbed => FairShares)
  BY DEF BandwidthInv
<1>2. BandTypes'
  BY <1>1 DEF Dequeue, BandTypes, topo, setting, clock
<1>3. TasksFit'
  <2>1. PICK n \in Int : n = Tot(rt_nr_running) /\ n <= MaxTasks /\ rt_nr_running \in [CPUs -> Int]
    BY <1>1, TasksOf DEF TasksFit
  <2>3. PICK h \in [CPUs -> Nat] : /\ h = rt_nr_running' /\ h[c] = rt_nr_running[c] - 1
                                   /\ \A x \in CPUs : x # c => rt_nr_running[x] = h[x]
    <3>1. PICK f \in [CPUs -> Nat] : f = rt_nr_running
      BY <1>1 DEF TasksFit
    <3>2. rt_nr_running' = [f EXCEPT ![c] = f[c] - 1] /\ rt_nr_running[c] > 0
      BY <3>1 DEF Dequeue
    <3>3. f[c] \in Nat /\ f[c] - 1 \in Nat
      BY <3>1, <3>2
    <3>. QED
      BY <3>1, <3>2, <3>3
  <2>4. h \in [CPUs -> Int]
    OBVIOUS
  <2>5. Tot(h) = n + h[c] - rt_nr_running[c]
    BY <2>1, <2>3, <2>4, TotOne
  <2>6. MaxTasks \in Nat /\ rt_nr_running[c] \in Int
    BY <2>1, BandwidthAssumption
  <2>7. Tot(h) <= MaxTasks
    BY <2>1, <2>3, <2>5, <2>6
  <2>. QED
    BY <2>3, <2>7 DEF TasksFit
<1>4. PlugListed'
  BY <1>1 DEF Dequeue, PlugListed, topo
<1>5. Undisturbed' => FairShares'
  <2>1. /\ UNCHANGED << sysctl, rt_b, rt_runtime, rd, online, cpu_active, halt, upset, locked, plug >>
    BY DEF Dequeue, topo, setting
  <2>. QED
    BY <1>1, <2>1, QuietShares
<1>. QED
  BY <1>2, <1>3, <1>4, <1>5 DEF BandwidthInv

(* A task is charged for what it ran.                                      *)
LEMMA ChargeKeeps ==
    ASSUME BandwidthInv, NEW c \in CPUs, NEW delta \in Deltas, Charge(c, delta) PROVE BandwidthInv'
<1>1. BandTypes /\ TasksFit /\ PlugListed /\ (Undisturbed => FairShares)
  BY DEF BandwidthInv
<1>2. BandTypes'
  <2>1. delta \in Nat /\ MaxTime \in Nat
    BY BandwidthAssumption
  <2>2. rt_time' \in [CPUs -> 0 .. MaxTime]
    <3>1. PICK f \in [CPUs -> 0 .. MaxTime] : f = rt_time
      BY <1>1 DEF BandTypes
    <3>2. rt_time' = [f EXCEPT ![c] = f[c] + delta] /\ f[c] + delta <= MaxTime
      BY <3>1 DEF Charge
    <3>3. f[c] + delta \in 0 .. MaxTime
      BY <2>1, <3>1, <3>2
    <3>. QED
      BY <3>1, <3>2, <3>3
  <2>3. locked' \in [CPUs -> {"no", "tick borrows", "tick", "timer borrows", "timer"}]
    BY <1>1 DEF Charge, BandTypes
  <2>. QED
    BY <1>1, <2>2, <2>3 DEF Charge, BandTypes, topo, setting, clock
<1>3. TasksFit' /\ PlugListed'
  BY <1>1 DEF Charge, TasksFit, PlugListed, topo
<1>4. Undisturbed' => FairShares'
  <2>1. /\ UNCHANGED << sysctl, rt_b, rt_runtime, rd, online, cpu_active, halt, upset, plug >>
        /\ rt_runtime[c] # INF
    BY DEF Charge, topo, setting
  <2>2. \A x \in CPUs : x # c => locked'[x] = locked[x]
    BY <1>1 DEF Charge, BandTypes
  <2>3. \A x \in CPUs : locked'[x] \in Borrowers => locked[x] \in Borrowers \/ rt_runtime[x] # INF
    BY <2>1, <2>2
  <2>. QED
    BY <1>1, <2>1, <2>3, QuietShares
<1>. QED
  BY <1>2, <1>3, <1>4 DEF BandwidthInv

(* The run queue is throttled, or not.                                     *)
LEMMA ThrottleKeeps ==
    ASSUME BandwidthInv, NEW c \in CPUs, Throttle(c) PROVE BandwidthInv'
<1>1. BandTypes /\ TasksFit /\ PlugListed /\ (Undisturbed => FairShares)
  BY DEF BandwidthInv
<1>2. BandTypes'
  <2>1. rt_throttled' \in [CPUs -> BOOLEAN]
    BY <1>1 DEF Throttle, BandTypes
  <2>2. locked' \in [CPUs -> {"no", "tick borrows", "tick", "timer borrows", "timer"}]
    BY <1>1 DEF Throttle, BandTypes
  <2>3. resched' \subseteq CPUs
    BY <1>1 DEF Throttle, BandTypes
  <2>. QED
    BY <1>1, <2>1, <2>2, <2>3 DEF Throttle, BandTypes, topo, setting, clock
<1>3. TasksFit' /\ PlugListed'
  BY <1>1 DEF Throttle, TasksFit, PlugListed, topo
<1>4. Undisturbed' => FairShares'
  <2>1. UNCHANGED << sysctl, rt_b, rt_runtime, rd, online, cpu_active, halt, upset, plug >>
    BY DEF Throttle, topo, setting
  <2>2. \A x \in CPUs : locked'[x] \in Borrowers => locked[x] \in Borrowers
    BY <1>1 DEF Throttle, BandTypes, Borrowers
  <2>. QED
    BY <1>1, <2>1, <2>2, QuietShares
<1>. QED
  BY <1>2, <1>3, <1>4 DEF BandwidthInv

(* The timer's callback does not run.                                      *)
LEMMA NoRunType ==
    NoRun \in [cpu : CPUs, next : 0 .. NumCPUs, overrun : Overruns \cup {0}, idle : BOOLEAN]
<1>1. 0 \in CPUs /\ NumCPUs \in Nat
  BY CpuRange
<1>. QED
  BY <1>1 DEF NoRun

(* The period is over.                                                     *)
LEMMA TimerFiresKeeps ==
    ASSUME BandwidthInv, NEW c \in CPUs, NEW o \in Overruns, TimerFires(c, o) PROVE BandwidthInv'
<1>1. BandTypes /\ TasksFit /\ PlugListed /\ (Undisturbed => FairShares)
  BY DEF BandwidthInv
<1>2. BandTypes'
  <2>1. run' \in [cpu : CPUs, next : 0 .. NumCPUs, overrun : Overruns \cup {0}, idle : BOOLEAN]
    <3>1. 0 \in 0 .. NumCPUs
      BY CpuRange
    <3>2. run' = NoRun \/ run' = [cpu |-> c, next |-> 0, overrun |-> o, idle |-> TRUE]
      BY DEF TimerFires, Stop
    <3>3. [cpu |-> c, next |-> 0, overrun |-> o, idle |-> TRUE]
          \in [cpu : CPUs, next : 0 .. NumCPUs, overrun : Overruns \cup {0}, idle : BOOLEAN]
      BY <3>1, Zenon
    <3>. QED
      BY <3>2, <3>3, NoRunType, Zenon
  <2>. QED
    BY <1>1, <2>1 DEF TimerFires, Stop, BandTypes, rqs, topo, setting
<1>3. TasksFit' /\ PlugListed'
  BY <1>1 DEF TimerFires, TasksFit, PlugListed, rqs, topo
<1>4. Undisturbed' => FairShares'
  <2>1. UNCHANGED << sysctl, rt_b, rt_runtime, rd, online, cpu_active, halt, upset, locked, plug >>
    BY DEF TimerFires, rqs, topo, setting
  <2>. QED
    BY <1>1, <2>1, QuietShares
<1>. QED
  BY <1>2, <1>3, <1>4 DEF BandwidthInv

(* The callback has seen all CPUs.                                         *)
LEMMA TimerEndsKeeps ==
    ASSUME BandwidthInv, TimerEnds PROVE BandwidthInv'
<1>1. BandTypes /\ TasksFit /\ PlugListed /\ (Undisturbed => FairShares)
  BY DEF BandwidthInv
<1>2. BandTypes'
  <2>1. run' \in [cpu : CPUs, next : 0 .. NumCPUs, overrun : Overruns \cup {0}, idle : BOOLEAN]
    BY NoRunType DEF TimerEnds, Stop
  <2>. QED
    BY <1>1, <2>1 DEF TimerEnds, Stop, BandTypes, rqs, topo, setting
<1>3. TasksFit' /\ PlugListed'
  BY <1>1 DEF TimerEnds, TasksFit, PlugListed, rqs, topo
<1>4. Undisturbed' => FairShares'
  <2>1. /\ UNCHANGED << sysctl, rt_b, rt_runtime, rd, online, cpu_active, halt, locked, plug >>
        /\ upset \subseteq upset'
    BY DEF TimerEnds, rqs, topo, setting
  <2>. QED
    BY <1>1, <2>1, QuietShares
<1>. QED
  BY <1>2, <1>3, <1>4 DEF BandwidthInv

Runs == [cpu : CPUs, next : 0 .. NumCPUs, overrun : Overruns \cup {0}, idle : BOOLEAN]

(* The callback goes on to the next CPU.                                   *)
LEMMA RunNext ==
    ASSUME NEW r \in Runs, NEW c \in CPUs, NEW b \in BOOLEAN
    PROVE  [r EXCEPT !.next = c + 1, !.idle = b] \in Runs
<1>1. c + 1 \in 0 .. NumCPUs
  BY CpuRange
<1>. QED
  BY <1>1 DEF Runs

(* The callback takes a run queue's lock.                                  *)
LEMMA TimerVisitsKeeps ==
    ASSUME BandwidthInv, TimerVisits PROVE BandwidthInv'
<1>1. BandTypes /\ TasksFit /\ PlugListed /\ (Undisturbed => FairShares)
  BY DEF BandwidthInv
<1>2. PICK c \in CPUs : c = Min(ToVisit)
  <2>1. ToVisit \in SUBSET Nat /\ ToVisit # {} /\ ToVisit \subseteq CPUs
    <3>1. cpu_online \subseteq CPUs
      BY <1>1 DEF BandTypes
    <3>2. ToVisit \subseteq CPUs
      BY <3>1 DEF ToVisit
    <3>3. CPUs \subseteq Nat
      BY CpuRange
    <3>4. ToVisit # {}
      BY DEF TimerVisits
    <3>. QED
      BY <3>2, <3>3, <3>4
  <2>2. \E n \in ToVisit : \A m \in ToVisit : n <= m
    BY <2>1, LeastNatural
  <2>3. Min(ToVisit) \in ToVisit
    BY <2>2 DEF Min
  <2>. QED
    BY <2>1, <2>3
<1>3. /\ UNCHANGED << sysctl, rt_b, rt_runtime, rd, online, cpu_active, cpu_online, halt, upset, plug,
                      rt_time, rt_throttled, rt_nr_running, resched, timer, events >>
      /\ \/ /\ locked' = [locked EXCEPT ![c] = IF rt_throttled[c] /\ rt_time[c] > rt_runtime[c]
                                               THEN "timer borrows" ELSE "timer"]
            /\ run' = run
         \/ /\ locked' = locked
            /\ run' = [run EXCEPT !.next = c + 1, !.idle = @ /\ rt_nr_running[c] = 0]
  BY <1>2 DEF TimerVisits, rqs, topo, setting
<1>4. BandTypes'
  <2>1. run' \in Runs
    <3>1. run \in Runs
      BY <1>1 DEF BandTypes, Runs
    <3>2. (run.idle /\ rt_nr_running[c] = 0) \in BOOLEAN
      OBVIOUS
    <3>3. [run EXCEPT !.next = c + 1, !.idle = run.idle /\ rt_nr_running[c] = 0] \in Runs
      BY <3>1, <3>2, RunNext
    <3>. QED
      BY <1>3, <3>1, <3>3
  <2>2. locked' \in [CPUs -> {"no", "tick borrows", "tick", "timer borrows", "timer"}]
    BY <1>1, <1>3 DEF BandTypes
  <2>. QED
    BY <1>1, <1>3, <2>1, <2>2 DEF BandTypes, Runs
<1>5. TasksFit' /\ PlugListed'
  BY <1>1, <1>3 DEF TasksFit, PlugListed
<1>6. Undisturbed' => FairShares'
  <2>1. rt_time[c] > rt_runtime[c] => rt_runtime[c] # INF
    <3>1. PICK H \in Nat \ {0} : INF = 2 * H - 1 /\ MaxTime \in Nat /\ MaxTime < H
      BY Sizes
    <3>2. rt_time[c] \in 0 .. MaxTime
      BY <1>1 DEF BandTypes
    <3>. QED
      BY <3>1, <3>2
  <2>2. \A x \in CPUs : locked'[x] \in Borrowers => locked[x] \in Borrowers \/ rt_runtime[x] # INF
    <3>1. \A x \in CPUs : x # c => locked'[x] = locked[x]
      BY <1>1, <1>3 DEF BandTypes
    <3>2. locked'[c] \in Borrowers => locked[c] \in Borrowers \/ rt_runtime[c] # INF
      BY <1>1, <1>3, <2>1 DEF BandTypes, Borrowers
    <3>. QED
      BY <3>1, <3>2
  <2>. QED
    BY <1>1, <1>3, <2>2, QuietShares
<1>. QED
  BY <1>4, <1>5, <1>6 DEF BandwidthInv

(* The callback pays for the period.                                       *)
LEMMA RefreshKeeps ==
    ASSUME BandwidthInv, NEW c \in CPUs, Refresh(c) PROVE BandwidthInv'
<1>1. BandTypes /\ TasksFit /\ PlugListed /\ (Undisturbed => FairShares)
  BY DEF BandwidthInv
<1>2. PICK left : /\ rt_time' = [rt_time EXCEPT ![c] = left]
                  /\ left = IF rt_time[c] < Unsigned(run.overrun * rt_runtime[c]) THEN 0
                            ELSE rt_time[c] - Unsigned(run.overrun * rt_runtime[c])
                  /\ rt_throttled' = [rt_throttled EXCEPT ![c] = @ /\ left >= rt_runtime[c]]
                  /\ resched' = IF rt_throttled'[c] THEN resched ELSE resched \ {c}
                  /\ run' = [run EXCEPT !.next = c + 1,
                                        !.idle = @ /\ left = 0 /\ rt_nr_running[c] = 0]
  BY DEF Refresh
<1>3. /\ UNCHANGED << sysctl, rt_b, rt_runtime, rd, online, cpu_active, cpu_online, halt, upset, plug,
                      rt_nr_running, timer, events >>
      /\ locked' = [locked EXCEPT ![c] = "no"]
  BY DEF Refresh, topo, setting
<1>4. BandTypes'
  <2>1. left \in 0 .. MaxTime
    <3>1. PICK m \in Int : m = run.overrun * rt_runtime[c]
      <4>1. run.overrun \in Nat
        <5>1. run.overrun \in Overruns \cup {0}
          BY <1>1 DEF BandTypes
        <5>2. \A q \in Overruns : q \in Nat
          BY BandwidthAssumption
        <5>3. PICK o : o = run.overrun /\ (o \in Overruns \/ o = 0)
          BY <5>1
        <5>4. o \in Nat
          <6>1. CASE o = 0
            BY <6>1
          <6>2. CASE o \in Overruns
            BY <5>2, <6>2, Zenon
          <6>. QED
            BY <5>3, <6>1, <6>2, Zenon
        <5>. QED
          BY <5>3, <5>4
      <4>2. rt_runtime[c] \in Nat
        BY <1>1, RuntimeNat DEF BandTypes
      <4>. QED
        BY <4>1, <4>2
    <3>2. PICK p \in Nat : p = Unsigned(m)
      BY UnsignedIs, Sizes
    <3>3. rt_time[c] \in 0 .. MaxTime /\ MaxTime \in Nat
      BY <1>1, Sizes DEF BandTypes
    <3>. QED
      BY <1>2, <3>1, <3>2, <3>3
  <2>2. rt_time' \in [CPUs -> 0 .. MaxTime]
    BY <1>1, <1>2, <2>1 DEF BandTypes
  <2>3. rt_throttled' \in [CPUs -> BOOLEAN]
    BY <1>1, <1>2 DEF BandTypes
  <2>4. resched' \subseteq CPUs
    BY <1>1, <1>2 DEF BandTypes
  <2>5. run' \in Runs
    <3>1. run \in Runs
      BY <1>1 DEF BandTypes, Runs
    <3>2. (run.idle /\ left = 0 /\ rt_nr_running[c] = 0) \in BOOLEAN
      OBVIOUS
    <3>3. [run EXCEPT !.next = c + 1, !.idle = run.idle /\ left = 0 /\ rt_nr_running[c] = 0] \in Runs
      BY <3>1, <3>2, RunNext
    <3>. QED
      BY <1>2, <3>3
  <2>6. locked' \in [CPUs -> {"no", "tick borrows", "tick", "timer borrows", "timer"}]
    BY <1>1, <1>3 DEF BandTypes
  <2>. QED
    BY <1>1, <1>3, <2>2, <2>3, <2>4, <2>5, <2>6 DEF BandTypes, Runs
<1>5. TasksFit' /\ PlugListed'
  BY <1>1, <1>3 DEF TasksFit, PlugListed
<1>6. Undisturbed' => FairShares'
  <2>1. \A x \in CPUs : locked'[x] \in Borrowers => locked[x] \in Borrowers
    BY <1>1, <1>3 DEF BandTypes, Borrowers
  <2>. QED
    BY <1>1, <1>3, <2>1, QuietShares
<1>. QED
  BY <1>4, <1>5, <1>6 DEF BandwidthInv

(* A CPU borrows.                                                          *)
LEMMA BorrowKeeps ==
    ASSUME BandwidthInv, NEW c \in CPUs, Borrow(c) PROVE BandwidthInv'
<1>1. BandTypes /\ TasksFit /\ PlugListed /\ (Undisturbed => FairShares)
  BY DEF BandwidthInv
<1>2. PICK me \in CPUs : /\ rt_runtime' = Balanced(c, Span(rd[me]))
                         /\ upset' = upset \cup (IF rd[me] # rd[c] /\ rt_runtime' # rt_runtime
                                                 THEN {"across domains"} ELSE {})
  <2>1. run.cpu \in CPUs
    BY <1>1 DEF BandTypes
  <2>. QED
    BY <2>1 DEF Borrow
<1>3. /\ UNCHANGED << sysctl, rt_b, rd, online, cpu_active, cpu_online, halt, plug,
                      rt_time, rt_throttled, rt_nr_running, resched, run, timer, events >>
      /\ locked' = [locked EXCEPT ![c] = IF @ = "tick borrows" THEN "tick" ELSE "timer"]
      /\ locked[c] \in Borrowers
  BY DEF Borrow, topo, setting, clock, Borrowers
<1>4. BandTypes'
  <2>1. Span(rd[me]) \in SUBSET CPUs
    BY DEF Span
  <2>2. rt_runtime' \in Runtimes
    BY <1>1, <1>2, <2>1, BalancedType DEF BandTypes
  <2>3. locked' \in [CPUs -> {"no", "tick borrows", "tick", "timer borrows", "timer"}]
    BY <1>1, <1>3 DEF BandTypes
  <2>4. upset' \subseteq {"across domains", "start lost", "reset", "written", "off"}
    BY <1>1, <1>2 DEF BandTypes
  <2>. QED
    BY <1>1, <1>3, <2>2, <2>3, <2>4 DEF BandTypes
<1>5. TasksFit' /\ PlugListed'
  BY <1>1, <1>3 DEF TasksFit, PlugListed
<1>6. ASSUME Undisturbed' PROVE FairShares'
  <2>1. Undisturbed /\ (rd[me] = rd[c] \/ rt_runtime' = rt_runtime)
    BY <1>2, <1>6 DEF Undisturbed, Uneven
  <2>2. FairShares
    BY <1>1, <2>1
  <2>3. rt_runtime[c] # INF /\ Even(rt_runtime, rd)
    BY <1>3, <2>2 DEF FairShares
  <2>4. Even(rt_runtime', rd) /\ \A x \in CPUs : rt_runtime'[x] = INF <=> rt_runtime[x] = INF
    <3>1. CASE rt_runtime' = rt_runtime
      BY <2>3, <3>1
    <3>2. CASE rd[me] = rd[c]
      <4>1. rd \in [CPUs -> Domains] /\ rt_time \in [CPUs -> 0 .. MaxTime]
        BY <1>1 DEF BandTypes
      <4>2. rt_runtime' = Balanced(c, Span(rd[c]))
        BY <1>2, <3>2
      <4>. QED
        BY <2>3, <4>1, <4>2, BalancedEven
    <3>. QED
      BY <2>1, <3>1, <3>2
  <2>5. Even(rt_runtime, rd)'
    BY <1>3, <2>4
  <2>6. \A x \in CPUs : locked'[x] \in Borrowers => rt_runtime'[x] # INF
    <3>1. \A x \in CPUs : locked'[x] \in Borrowers => locked[x] \in Borrowers
      BY <1>1, <1>3 DEF BandTypes, Borrowers
    <3>. QED
      BY <2>2, <2>4, <3>1 DEF FairShares
  <2>7. \A x \in CPUs : Accounted(x)'
    BY <1>3, <2>2, <2>4 DEF FairShares, Accounted
  <2>8. plug' # << >> /\ plug'[1][1] = "inactive" => rt_runtime'[plug'[1][2]] = INF
    <3>1. plug # << >> => plug[1][2] \in CPUs
      BY <1>1 DEF PlugListed, Listed, Todo
    <3>. QED
      BY <1>3, <2>2, <2>4, <3>1 DEF FairShares
  <2>. QED
    BY <1>3, <2>2, <2>5, <2>6, <2>7, <2>8 DEF FairShares
<1>. QED
  BY <1>4, <1>5, <1>6 DEF BandwidthInv

(* A CPU is to go down.                                                    *)
LEMMA PlugDownKeeps ==
    ASSUME BandwidthInv, NEW c \in CPUs, PlugDown(c) PROVE BandwidthInv'
<1>1. BandTypes /\ TasksFit /\ PlugListed /\ (Undisturbed => FairShares)
  BY DEF BandwidthInv
<1>2. /\ UNCHANGED << sysctl, rt_b, rt_runtime, rd, online, cpu_active, cpu_online, halt, upset,
                      rt_time, rt_throttled, rt_nr_running, resched, run, timer, locked >>
      /\ events < MaxEvents /\ events' = events + 1 /\ c \in cpu_online
      /\ plug' = << << "disable", c >>, << "inactive", c >> >> \o Rebuild(cpu_active \ {c})
                 \o << << "die", c >> >>
  BY DEF PlugDown, rqs, clock, setting
<1>3. BandTypes'
  <2>1. events' \in 0 .. MaxEvents
    <3>1. events \in 0 .. MaxEvents /\ MaxEvents \in Nat
      BY <1>1, BandwidthAssumption DEF BandTypes
    <3>. QED
      BY <1>2, <3>1
  <2>. QED
    BY <1>1, <1>2, <2>1 DEF BandTypes
<1>4. TasksFit'
  BY <1>1, <1>2 DEF TasksFit
<1>5. Listed(plug', cpu_active, cpu_online)
  <2>1. cpu_active \in SUBSET CPUs
    BY <1>1 DEF BandTypes
  <2>. QED
    BY <1>2, <2>1, ListedDown
<1>6. PlugListed'
  BY <1>2, <1>5 DEF PlugListed
<1>7. plug'[1][1] # "inactive"
  <2>1. Rebuild(cpu_active \ {c}) \in Seq(({"detach"} \X CPUs) \cup ({"attach"} \X (cpu_active \ {c})))
    <3>1. cpu_active \ {c} \in SUBSET CPUs
      BY <1>1 DEF BandTypes
    <3>. QED
      BY <3>1, RebuildIs
  <2>2. PICK r, X : /\ r = Rebuild(cpu_active \ {c}) /\ X = Ops \X CPUs /\ r \in Seq(X)
                    /\ << "disable", c >> \in X /\ << "inactive", c >> \in X /\ << "die", c >> \in X
    <3>1. PICK Y : Y = ({"detach"} \X CPUs) \cup ({"attach"} \X (cpu_active \ {c}))
      OBVIOUS
    <3>2. Y \subseteq Ops \X CPUs
      BY <1>1, <3>1 DEF BandTypes, Ops
    <3>3. Rebuild(cpu_active \ {c}) \in Seq(Ops \X CPUs)
      BY <2>1, <3>1, <3>2
    <3>. QED
      BY <3>3 DEF Ops
  <2>3. plug' = (<< << "disable", c >>, << "inactive", c >> >> \o r) \o << << "die", c >> >>
    BY <1>2, <2>2
  <2>4. PICK s : s = << << "disable", c >>, << "inactive", c >> >> \o r
    OBVIOUS
  <2>5. s \in Seq(X) /\ Len(s) >= 1 /\ s[1] = << "disable", c >>
    BY <2>2, <2>4
  <2>6. << << "die", c >> >> \in Seq(X)
    BY <2>2
  <2>7. (s \o << << "die", c >> >>)[1] = s[1]
    BY <2>5, <2>6
  <2>. QED
    BY <2>3, <2>4, <2>5, <2>7
<1>8. Undisturbed' => FairShares'
  BY <1>1, <1>2, <1>7, QuietShares
<1>. QED
  BY <1>3, <1>4, <1>6, <1>8 DEF BandwidthInv

(* The list of a CPU that comes, or comes back, begins with "active".      *)
LEMMA UpFirst ==
    ASSUME NEW act \in SUBSET CPUs, NEW c \in CPUs, NEW ends \in Seq({"online", "enable"} \X {c})
    PROVE  (<< << "active", c >> >> \o Rebuild(act \cup {c}) \o ends)[1] = << "active", c >>
<1>1. PICK Y : Y = ({"detach"} \X CPUs) \cup ({"attach"} \X (act \cup {c}))
  OBVIOUS
<1>2. PICK r \in Seq(Y) : r = Rebuild(act \cup {c})
  BY <1>1, RebuildIs
<1>3. PICK X : X = Y \cup ({"online", "enable"} \X {c}) \cup {<< "active", c >>}
  OBVIOUS
<1>4. r \in Seq(X) /\ ends \in Seq(X) /\ << << "active", c >> >> \in Seq(X)
  <2>1. Y \subseteq X /\ {"online", "enable"} \X {c} \subseteq X /\ << "active", c >> \in X
    BY <1>3
  <2>. QED
    BY <1>2, <2>1
<1>5. PICK s : s = << << "active", c >> >> \o r
  OBVIOUS
<1>6. s \in Seq(X) /\ Len(s) >= 1 /\ s[1] = << "active", c >>
  BY <1>4, <1>5
<1>7. (s \o ends)[1] = s[1]
  BY <1>4, <1>6
<1>. QED
  BY <1>2, <1>5, <1>6, <1>7

(* It stays.                                                               *)
LEMMA PlugFailsKeeps ==
    ASSUME BandwidthInv, PlugFails PROVE BandwidthInv'
<1>1. BandTypes /\ TasksFit /\ PlugListed /\ (Undisturbed => FairShares)
  BY DEF BandwidthInv
<1>2. PICK c : c = Head(plug)[2] /\ plug' = << << "active", c >> >> \o Rebuild(cpu_active \cup {c})
                                            \o << << "enable", c >> >>
  BY DEF PlugFails
<1>3. UNCHANGED << sysctl, rt_b, rt_runtime, rd, online, cpu_active, cpu_online, halt, upset, events,
                   rt_time, rt_throttled, rt_nr_running, resched, run, timer, locked >>
  BY DEF PlugFails, rqs, clock, setting
<1>4. c \in cpu_online /\ c \in CPUs
  <2>1. /\ plug \in Seq(Ops \X CPUs) /\ plug # << >>
        /\ \A i \in 1 .. Len(plug) : DieOk(plug, i, cpu_active, cpu_online)
    BY <1>1 DEF PlugListed, Listed, Todo, PlugFails
  <2>2. 1 \in 1 .. Len(plug) /\ Head(plug) = plug[1]
    BY <2>1
  <2>3. plug[1][1] = "die"
    BY <2>2 DEF PlugFails
  <2>4. plug[1][2] \in cpu_online
    BY <2>1, <2>2, <2>3 DEF DieOk
  <2>. QED
    BY <1>1, <1>2, <2>2, <2>4 DEF BandTypes
<1>5. /\ cpu_active \in SUBSET CPUs
      /\ << << "enable", c >> >> \in Seq({"online", "enable"} \X {c})
  <2>1. << "enable", c >> \in {"online", "enable"} \X {c}
    OBVIOUS
  <2>2. PICK X : X = {"online", "enable"} \X {c}
    OBVIOUS
  <2>3. << << "enable", c >> >> \in Seq(X)
    BY <2>1, <2>2
  <2>. QED
    BY <1>1, <2>2, <2>3 DEF BandTypes
<1>6. Listed(plug', cpu_active, cpu_online) /\ plug'[1] = << "active", c >>
  <2>1. PICK ends \in Seq({"online", "enable"} \X {c}) : ends = << << "enable", c >> >>
    BY <1>5
  <2>2. plug' = << << "active", c >> >> \o Rebuild(cpu_active \cup {c}) \o ends
    BY <1>2, <2>1
  <2>. QED
    BY <1>4, <1>5, <2>2, ListedUp, UpFirst
<1>7. BandTypes' /\ TasksFit' /\ PlugListed'
  BY <1>1, <1>3, <1>6 DEF BandTypes, TasksFit, PlugListed
<1>8. Undisturbed' => FairShares'
  BY <1>1, <1>3, <1>6, QuietShares
<1>. QED
  BY <1>7, <1>8 DEF BandwidthInv

(* A CPU is to come up.                                                    *)
LEMMA PlugUpKeeps ==
    ASSUME BandwidthInv, NEW c \in CPUs, PlugUp(c) PROVE BandwidthInv'
<1>1. BandTypes /\ TasksFit /\ PlugListed /\ (Undisturbed => FairShares)
  BY DEF BandwidthInv
<1>2. /\ UNCHANGED << sysctl, rt_b, rt_runtime, rd, online, cpu_active, halt, upset,
                      rt_time, rt_throttled, rt_nr_running, resched, run, timer, locked >>
      /\ cpu_online' = cpu_online \cup {c} /\ events < MaxEvents /\ events' = events + 1
      /\ plug' = << << "active", c >> >> \o Rebuild(cpu_active \cup {c})
                 \o << << "online", c >>, << "enable", c >> >>
  BY DEF PlugUp, rqs, clock, setting
<1>3. BandTypes'
  <2>1. events' \in 0 .. MaxEvents
    <3>1. events \in 0 .. MaxEvents /\ MaxEvents \in Nat
      BY <1>1, BandwidthAssumption DEF BandTypes
    <3>. QED
      BY <1>2, <3>1
  <2>. QED
    BY <1>1, <1>2, <2>1 DEF BandTypes
<1>4. TasksFit'
  BY <1>1, <1>2 DEF TasksFit
<1>5. /\ cpu_active \in SUBSET CPUs /\ c \in cpu_online'
      /\ << << "online", c >>, << "enable", c >> >> \in Seq({"online", "enable"} \X {c})
  <2>1. << "enable", c >> \in {"online", "enable"} \X {c} /\ << "online", c >> \in {"online", "enable"} \X {c}
    OBVIOUS
  <2>2. PICK X : X = {"online", "enable"} \X {c}
    OBVIOUS
  <2>3. << << "online", c >>, << "enable", c >> >> \in Seq(X)
    BY <2>1, <2>2
  <2>4. cpu_active \in SUBSET CPUs
    BY <1>1 DEF BandTypes
  <2>. QED
    BY <1>2, <2>2, <2>3, <2>4
<1>6. Listed(plug', cpu_active, cpu_online') /\ plug'[1] = << "active", c >>
  <2>1. PICK ends \in Seq({"online", "enable"} \X {c}) : ends = << << "online", c >>, << "enable", c >> >>
    BY <1>5
  <2>2. plug' = << << "active", c >> >> \o Rebuild(cpu_active \cup {c}) \o ends
    BY <1>2, <2>1
  <2>. QED
    BY <1>5, <2>2, ListedUp, UpFirst
<1>7. PlugListed'
  BY <1>2, <1>6 DEF PlugListed
<1>8. Undisturbed' => FairShares'
  BY <1>1, <1>2, <1>6, QuietShares
<1>. QED
  BY <1>3, <1>4, <1>7, <1>8 DEF BandwidthInv

(* global_rt_runtime is a u64.                                             *)
LEMMA GlobalType ==
    ASSUME NEW v \in Settings \cup {Runtime, -1} PROVE Global(v) \in u64 /\ Global(Runtime) = Runtime
<1>1. PICK H \in Nat \ {0} : /\ u64 = 0 .. INF /\ INF = 2 * H - 1 /\ Period \in Nat \ {0} /\ Period < H
                             /\ Runtime \in 1 .. Period
  BY Sizes
<1>2. v \in 0 .. Period \/ v = -1
  BY <1>1, BandwidthAssumption
<1>3. PICK w, top \in Int : w = v /\ top = INF /\ (w \in 0 .. Period \/ w = -1) /\ u64 = 0 .. top
                          /\ top >= Period
  BY <1>1, <1>2
<1>4. Global(v) = IF w < 0 THEN top ELSE w
  BY <1>3 DEF Global
<1>5. Global(v) \in 0 .. top
  BY <1>1, <1>3, <1>4
<1>6. Global(Runtime) = Runtime
  BY <1>1 DEF Global
<1>. QED
  BY <1>3, <1>5, <1>6

(* The sysctl is written.                                                  *)
LEMMA WriteKeeps ==
    ASSUME BandwidthInv, NEW v \in Settings \cup {-1}, Write(v) PROVE BandwidthInv'
<1>1. BandTypes /\ TasksFit /\ PlugListed
  BY DEF BandwidthInv
<1>2. /\ UNCHANGED << rt_b, rd, online, cpu_active, cpu_online, halt, plug,
                      rt_time, rt_throttled, rt_nr_running, resched, run, timer, locked >>
      /\ events < MaxEvents /\ events' = events + 1 /\ sysctl' = v
      /\ rt_runtime' = [c \in CPUs |-> Global(v)]
      /\ upset' = upset \cup {"written"} \cup (IF v < 0 THEN {"off"} ELSE {})
  BY DEF Write, clock
<1>3. BandTypes'
  <2>1. events' \in 0 .. MaxEvents
    <3>1. events \in 0 .. MaxEvents /\ MaxEvents \in Nat
      BY <1>1, BandwidthAssumption DEF BandTypes
    <3>. QED
      BY <1>2, <3>1
  <2>2. rt_runtime' \in Runtimes
    BY <1>2, GlobalType DEF Runtimes
  <2>3. sysctl' \in Settings \cup {Runtime, -1}
    BY <1>2
  <2>4. upset' \subseteq {"across domains", "start lost", "reset", "written", "off"}
    BY <1>1, <1>2 DEF BandTypes
  <2>. QED
    BY <1>1, <1>2, <2>1, <2>2, <2>3, <2>4 DEF BandTypes
<1>4. TasksFit' /\ PlugListed'
  BY <1>1, <1>2 DEF TasksFit, PlugListed
<1>5. ~Undisturbed'
  BY <1>2 DEF Undisturbed, Uneven
<1>. QED
  BY <1>3, <1>4, <1>5 DEF BandwidthInv

(* def_rt_bandwidth follows.                                               *)
LEMMA WriteEndsKeeps ==
    ASSUME BandwidthInv, WriteEnds PROVE BandwidthInv'
<1>1. BandTypes /\ TasksFit /\ PlugListed /\ (Undisturbed => FairShares)
  BY DEF BandwidthInv
<1>2. /\ UNCHANGED << sysctl, rt_runtime, rd, online, cpu_active, cpu_online, halt, plug, events, upset,
                      rt_time, rt_throttled, rt_nr_running, resched, run, timer, locked >>
      /\ rt_b' = Global(sysctl) /\ rt_b # Global(sysctl)
  BY DEF WriteEnds, rqs, clock, topo
<1>3. Global(sysctl) \in u64 /\ Global(Runtime) = Runtime
  BY <1>1, GlobalType DEF BandTypes
<1>4. BandTypes'
  BY <1>1, <1>2, <1>3 DEF BandTypes
<1>5. TasksFit' /\ PlugListed'
  BY <1>1, <1>2 DEF TasksFit, PlugListed
<1>6. ~Undisturbed'
  BY <1>1, <1>2, <1>3 DEF Undisturbed, FairShares
<1>. QED
  BY <1>4, <1>5, <1>6 DEF BandwidthInv

-----------------------------------------------------------------------------
(* The hotplug steps.                                                      *)

(* What an effect on CPU c leaves of the shares, if nothing was upset.     *)
Effect(c, op) ==
    /\ Even(rt_runtime, rd)' /\ halt' # "BUG_ON(want)"
    /\ \A x \in CPUs : x # c => /\ rt_runtime'[x] = INF <=> rt_runtime[x] = INF
                                /\ rd'[x] = rd[x]
                                /\ x \in online => x \in online'
                                /\ x \in cpu_active => x \in cpu_active'
    /\ Accounted(c)'
    /\ op = "disable" => rt_runtime'[c] = INF

(* The shares after a hotplug step, from its effect on one CPU.            *)
LEMMA EffectShares ==
    ASSUME PlugListed, plug # << >>, NEW op, NEW c \in CPUs, Head(plug) = << op, c >>,
           locked[c] = "no", UNCHANGED << locked, sysctl, rt_b >>, plug' = Tail(plug),
           Undisturbed => FairShares, upset \subseteq upset',
           Undisturbed' /\ FairShares => Effect(c, op)
    PROVE  Undisturbed' => FairShares'
<1>. SUFFICES ASSUME Undisturbed' PROVE FairShares'
  OBVIOUS
<1>1. Undisturbed
  BY DEF Undisturbed
<1>2. FairShares
  BY <1>1
<1>3. Effect(c, op)
  BY <1>2
<1>4. \A x \in CPUs : locked'[x] \in Borrowers => rt_runtime'[x] # INF
  BY <1>2, <1>3 DEF FairShares, Effect, Borrowers
<1>5. \A x \in CPUs : Accounted(x)'
  BY <1>2, <1>3 DEF FairShares, Effect, Accounted
<1>6. plug' # << >> /\ plug'[1][1] = "inactive" => rt_runtime'[plug'[1][2]] = INF
  <2>1. Tail(plug) # << >> /\ Tail(plug)[1][1] = "inactive" => Head(plug) = << "disable", Tail(plug)[1][2] >>
    <3>1. Listed(plug, cpu_active, cpu_online)
      BY DEF PlugListed
    <3>2. \A l, act, on : Listed(l, act, on) /\ l # << >> =>
             (Tail(l) # << >> /\ Tail(l)[1][1] = "inactive" => Head(l) = << "disable", Tail(l)[1][2] >>)
      BY ListedTail
    <3>. QED
      BY <3>1, <3>2
  <2>2. PICK t : t = Tail(plug)[1][2]
    OBVIOUS
  <2>3. << "disable", t >> = << op, c >> => op = "disable" /\ t = c
    OBVIOUS
  <2>. QED
    BY <1>3, <2>1, <2>2, <2>3 DEF Effect
<1>. QED
  BY <1>2, <1>3, <1>4, <1>5, <1>6 DEF FairShares, Effect

(* The head of the list, and what the list says of it.                     *)
LEMMA HeadOf ==
    ASSUME BandTypes, PlugListed, plug # << >>
    PROVE  \E op \in Ops, c \in CPUs :
             /\ Head(plug) = << op, c >> /\ Head(plug)[1] = op /\ Head(plug)[2] = c
             /\ op \in {"attach", "enable"} => c \in cpu_active
             /\ op = "inactive" => plug[1][1] = "inactive" /\ plug[1][2] = c
             /\ op = "active" => c \in cpu_online
             /\ op = "die" => c \in cpu_online /\ c \notin cpu_active
<1>1. /\ plug \in Seq(Ops \X CPUs)
      /\ \A i \in 1 .. Len(plug) : /\ JoinOk(plug, i, cpu_active) /\ ActiveOk(plug, i, cpu_online)
                                   /\ DieOk(plug, i, cpu_active, cpu_online)
  BY DEF PlugListed, Listed, Todo
<1>2. 1 \in 1 .. Len(plug) /\ Head(plug) = plug[1] /\ plug[1] \in Ops \X CPUs
  BY <1>1
<1>3. PICK op \in Ops, c \in CPUs : plug[1] = << op, c >> /\ plug[1][1] = op /\ plug[1][2] = c
  BY <1>2
<1>4. op \in {"attach", "enable"} => c \in cpu_active
  <2>1. << op, c >> = << "active", c >> => op = "active"
    OBVIOUS
  <2>. QED
    BY <1>1, <1>2, <1>3, <2>1 DEF JoinOk
<1>5. op = "active" => c \in cpu_online
  BY <1>1, <1>2, <1>3 DEF ActiveOk
<1>6. op = "die" => c \in cpu_online /\ c \notin cpu_active
  <2>1. ~ \E j \in 1 .. 1 - 1 : plug[j] = << "inactive", c >>
    OBVIOUS
  <2>. QED
    BY <1>1, <1>2, <1>3, <2>1 DEF DieOk
<1>. QED
  BY <1>2, <1>3, <1>4, <1>5, <1>6

(* __enable_runtime for a run queue that has its share, or is disabled.    *)
LEMMA EnabledEven ==
    ASSUME NEW rt, NEW dom, Even(rt, dom), rt_b = Runtime, NEW c \in CPUs, EnabledIn(rt, c),
           Undisturbed', NEW dom2, \A x \in CPUs : x # c => dom2[x] = dom[x]
    PROVE  Even(rt_runtime', dom2) /\ \A x \in CPUs : x # c => rt_runtime'[x] = rt[x]
<1>1. rt \in Runtimes /\ Runtime \in u64
  BY Sizes DEF Even
<1>2. rt[c] \in {INF, Runtime}
  BY DEF EnabledIn, Undisturbed, Uneven
<1>3. PICK rt2 \in Runtimes : /\ rt2 = rt_runtime' /\ rt2[c] = Runtime
                              /\ \A x \in CPUs : x # c => rt2[x] = rt[x]
  BY <1>1 DEF EnabledIn, Runtimes
<1>4. Even(rt2, dom2)
  BY <1>2, <1>3, EvenMove
<1>. QED
  BY <1>3, <1>4

(* CPU_DOWN_PREPARE.                                                       *)
LEMMA DisableEffect ==
    ASSUME BandTypes, FairShares, NEW c \in CPUs, PlugDisable(c) PROVE Effect(c, "disable")
<1>1. rd \in [CPUs -> Domains] /\ Even(rt_runtime, rd) /\ rt_b = Runtime
  BY DEF BandTypes, FairShares
<1>2. /\ Disabled(c).want = 0 /\ Even(Disabled(c).rt, rd) /\ Disabled(c).rt[c] = INF
      /\ \A x \in CPUs : x # c => (Disabled(c).rt[x] = INF <=> rt_runtime[x] = INF)
  BY <1>1, DisabledEven
<1>3. /\ rt_runtime' = Disabled(c).rt /\ halt' = "no"
      /\ UNCHANGED << rd, online, cpu_active >>
  BY <1>2 DEF PlugDisable, DisableIn
<1>. QED
  BY <1>2, <1>3 DEF Effect, Accounted

(* CPU_ONLINE, CPU_DOWN_FAILED.                                            *)
LEMMA EnableEffect ==
    ASSUME FairShares, NEW c \in CPUs, c \in cpu_active, Undisturbed', PlugEnable(c)
    PROVE  Effect(c, "enable")
<1>1. Even(rt_runtime, rd) /\ rt_b = Runtime /\ halt # "BUG_ON(want)"
  BY DEF FairShares
<1>2. EnabledIn(rt_runtime, c) /\ UNCHANGED << rd, online, cpu_active, halt >>
  BY DEF PlugEnable
<1>3. Even(rt_runtime', rd) /\ \A x \in CPUs : x # c => rt_runtime'[x] = rt_runtime[x]
  BY <1>1, <1>2, EnabledEven
<1>. QED
  BY <1>1, <1>2, <1>3 DEF Effect, Accounted

(* sched_cpu_active and sched_cpu_inactive.                                *)
LEMMA ActiveEffect ==
    ASSUME FairShares, NEW c \in CPUs, NEW op,
           \/ op = "active" /\ PlugActive(c, TRUE)
           \/ op = "inactive" /\ PlugActive(c, FALSE) /\ rt_runtime[c] = INF
    PROVE  Effect(c, op)
<1>1. Even(rt_runtime, rd) /\ halt # "BUG_ON(want)"
  BY DEF FairShares
<1>2. UNCHANGED << rt_runtime, rd, online, halt >>
  BY DEF PlugActive, rqs
<1>3. \A x \in CPUs : x # c /\ x \in cpu_active => x \in cpu_active'
  BY DEF PlugActive
<1>4. c \in cpu_active' \/ rt_runtime'[c] = INF
  BY <1>2 DEF PlugActive
<1>5. op # "disable"
  OBVIOUS
<1>. QED
  BY <1>1, <1>2, <1>3, <1>4, <1>5 DEF Effect, Accounted

(* set_rq_online.                                                          *)
LEMMA OnlineEffect ==
    ASSUME FairShares, NEW c \in CPUs, Undisturbed', PlugOnline(c) PROVE Effect(c, "online")
<1>1. Even(rt_runtime, rd) /\ rt_b = Runtime /\ halt # "BUG_ON(want)"
  BY DEF FairShares
<1>2. UNCHANGED << rd, cpu_active, halt >> /\ online' = online \cup {c}
  BY DEF PlugOnline
<1>3. Even(rt_runtime', rd) /\ \A x \in CPUs : x # c => rt_runtime'[x] = rt_runtime[x]
  <2>1. CASE c \in online
    BY <1>1, <2>1 DEF PlugOnline
  <2>2. CASE c \notin online
    <3>1. EnabledIn(rt_runtime, c)
      BY <2>2 DEF PlugOnline
    <3>. QED
      BY <1>1, <3>1, EnabledEven
  <2>. QED
    BY <2>1, <2>2
<1>. QED
  BY <1>1, <1>2, <1>3 DEF Effect, Accounted

(* rq_attach_root: c takes its share, or nothing, from one domain to the   *)
(* other.                                                                  *)
LEMMA AttachEffect ==
    ASSUME BandTypes, FairShares, NEW c \in CPUs, NEW d \in Domains, Undisturbed', Attach(c, d),
           d = "def" \/ c \in cpu_active, NEW op, op # "disable"
    PROVE  Effect(c, op)
<1>1. rd \in [CPUs -> Domains] /\ Even(rt_runtime, rd) /\ rt_b = Runtime /\ halt # "BUG_ON(want)" /\ Accounted(c)
  BY DEF BandTypes, FairShares
<1>2. PICK off : off = IF c \in online THEN Disabled(c) ELSE [want |-> 0, rt |-> rt_runtime]
  OBVIOUS
<1>3. /\ off.want = 0 /\ Even(off.rt, rd) /\ (c \in online => off.rt[c] = INF)
      /\ (c \notin online => off.rt = rt_runtime)
      /\ \A x \in CPUs : x # c => (off.rt[x] = INF <=> rt_runtime[x] = INF)
  <2>1. CASE c \in online
    BY <1>1, <1>2, <2>1, DisabledEven
  <2>2. CASE c \notin online
    BY <1>1, <1>2, <2>2
  <2>. QED
    BY <2>1, <2>2
<1>4. rd' = [rd EXCEPT ![c] = d] /\ UNCHANGED cpu_active
  BY DEF Attach
<1>5. rd'[c] = d /\ \A x \in CPUs : x # c => rd'[x] = rd[x]
  BY <1>1, <1>4
<1>6. CASE c \in cpu_active
  <2>1. EnabledIn(off.rt, c) /\ online' = online \cup {c} /\ UNCHANGED halt
    BY <1>2, <1>3, <1>6 DEF Attach
  <2>2. PICK rt, dom2 : rt = off.rt /\ dom2 = rd'
    OBVIOUS
  <2>3. Even(rt_runtime', dom2) /\ \A x \in CPUs : x # c => rt_runtime'[x] = rt[x]
    BY <1>1, <1>3, <1>5, <2>1, <2>2, EnabledEven
  <2>4. Even(rt_runtime, rd)'
    BY <2>2, <2>3
  <2>. QED
    BY <1>1, <1>3, <1>4, <1>5, <2>1, <2>2, <2>3, <2>4 DEF Effect, Accounted
<1>7. CASE c \notin cpu_active
  <2>1. rt_runtime' = off.rt /\ halt' = "no" /\ online' = online \ {c} /\ d = "def"
    BY <1>2, <1>3, <1>7 DEF Attach, DisableIn
  <2>2. PICK rt, dom2 : rt = off.rt /\ dom2 = rd' /\ rt \in Runtimes
    BY <1>3 DEF Even
  <2>3. Even(rt, dom2)
    <3>1. CASE rt[c] = INF
      BY <1>3, <1>5, <2>2, <3>1, EvenMove
    <3>2. CASE rt[c] # INF
      <4>1. c \notin online /\ rt = rt_runtime
        BY <1>3, <2>2, <3>2
      <4>2. rd[c] # "dom"
        BY <1>1, <1>7, <3>2, <4>1 DEF Accounted
      <4>3. rd[c] = d
        BY <1>1, <2>1, <4>2 DEF Domains
      <4>4. dom2 = rd
        BY <1>1, <1>4, <2>2, <4>3
      <4>. QED
        BY <1>1, <4>1, <4>4
    <3>. QED
      BY <3>1, <3>2
  <2>4. Even(rt_runtime, rd)'
    BY <2>1, <2>2, <2>3
  <2>. QED
    BY <1>3, <1>4, <1>5, <2>1, <2>4 DEF Effect, Accounted
<1>. QED
  BY <1>6, <1>7

(* CPU_DYING.                                                              *)
LEMMA DieEffect ==
    ASSUME BandTypes, FairShares, NEW c \in CPUs, PlugDie(c) PROVE Effect(c, "die")
<1>1. rd \in [CPUs -> Domains] /\ Even(rt_runtime, rd) /\ rt_b = Runtime /\ Accounted(c)
  BY DEF BandTypes, FairShares
<1>2. PICK off : off = IF c \in online THEN Disabled(c) ELSE [want |-> 0, rt |-> rt_runtime]
  OBVIOUS
<1>3. /\ off.want = 0 /\ Even(off.rt, rd) /\ (c \in online => off.rt[c] = INF)
      /\ (c \notin online => off.rt = rt_runtime)
      /\ \A x \in CPUs : x # c => (off.rt[x] = INF <=> rt_runtime[x] = INF)
  <2>1. CASE c \in online
    BY <1>1, <1>2, <2>1, DisabledEven
  <2>2. CASE c \notin online
    BY <1>1, <1>2, <2>2
  <2>. QED
    BY <2>1, <2>2
<1>4. /\ rt_runtime' = off.rt /\ halt' # "BUG_ON(want)" /\ UNCHANGED << rd, cpu_active >>
      /\ online' = online \ {c}
  BY <1>2, <1>3 DEF PlugDie
<1>. QED
  BY <1>1, <1>3, <1>4 DEF Effect, Accounted

(* What a hotplug step may change keeps its types.                         *)
QueueTypes ==
    /\ rt_runtime \in Runtimes /\ rt_time \in [CPUs -> 0 .. MaxTime]
    /\ rt_throttled \in [CPUs -> BOOLEAN]
    /\ upset \subseteq {"across domains", "start lost", "reset", "written", "off"}
MaskTypes ==
    /\ rd \in [CPUs -> Domains] /\ online \subseteq CPUs
    /\ cpu_active \subseteq cpu_online /\ cpu_online \subseteq CPUs
    /\ halt \in {"no", "BUG_ON(want)", "migrate_tasks"}

(* __enable_runtime keeps the types.                                       *)
LEMMA EnabledTypes ==
    ASSUME BandTypes, NEW rt \in Runtimes, NEW c \in CPUs, EnabledIn(rt, c)
    PROVE  QueueTypes' /\ upset \subseteq upset'
<1>1. rt_b \in u64 /\ MaxTime \in Nat
  BY Sizes DEF BandTypes
<1>2. rt_runtime' \in Runtimes
  BY <1>1 DEF EnabledIn, Runtimes
<1>3. rt_time' \in [CPUs -> 0 .. MaxTime]
  <2>1. PICK f \in [CPUs -> 0 .. MaxTime] : f = rt_time
    BY DEF BandTypes
  <2>2. rt_time' = [f EXCEPT ![c] = 0] /\ 0 \in 0 .. MaxTime
    BY <1>1, <2>1 DEF EnabledIn
  <2>. QED
    BY <2>1, <2>2
<1>4. rt_throttled' \in [CPUs -> BOOLEAN]
  BY DEF EnabledIn, BandTypes
<1>5. upset' \subseteq {"across domains", "start lost", "reset", "written", "off"} /\ upset \subseteq upset'
  BY DEF EnabledIn, BandTypes
<1>. QED
  BY <1>2, <1>3, <1>4, <1>5 DEF QueueTypes

(* __disable_runtime keeps the types.                                      *)
LEMMA DisableTypes ==
    ASSUME BandTypes, NEW rt \in Runtimes, NEW missing, DisableIn(rt, missing)
    PROVE  QueueTypes' /\ upset' = upset /\ halt' \in {"no", "BUG_ON(want)", "migrate_tasks"}
  BY DEF DisableIn, BandTypes, QueueTypes

(* The run queue goes offline first, if it was online.                     *)
LEMMA OffTypes ==
    ASSUME BandTypes, NEW c \in CPUs,
           NEW off, off = IF c \in online THEN Disabled(c) ELSE [want |-> 0, rt |-> rt_runtime]
    PROVE  off.rt \in Runtimes
<1>1. rt_runtime \in Runtimes /\ rt_b \in u64
  BY DEF BandTypes
<1>2. Disabled(c).rt \in Runtimes
  BY <1>1, DisabledType
<1>. QED
  BY <1>1, <1>2

(* rq_attach_root keeps the types.                                         *)
LEMMA AttachTypes ==
    ASSUME BandTypes, NEW c \in CPUs, NEW d \in Domains, Attach(c, d)
    PROVE  QueueTypes' /\ MaskTypes' /\ upset \subseteq upset'
<1>1. PICK off : off = IF c \in online THEN Disabled(c) ELSE [want |-> 0, rt |-> rt_runtime]
  OBVIOUS
<1>2. PICK rt \in Runtimes : rt = off.rt
  BY <1>1, OffTypes
<1>3. \/ EnabledIn(rt, c) /\ online' = online \cup {c} /\ UNCHANGED halt
      \/ DisableIn(rt, off.want) /\ online' = online \ {c}
  BY <1>1, <1>2 DEF Attach
<1>4. QueueTypes' /\ upset \subseteq upset' /\ halt' \in {"no", "BUG_ON(want)", "migrate_tasks"}
  <2>1. CASE EnabledIn(rt, c) /\ UNCHANGED halt
    BY <2>1, EnabledTypes DEF BandTypes
  <2>2. CASE DisableIn(rt, off.want)
    BY <2>2, DisableTypes
  <2>. QED
    BY <1>3, <2>1, <2>2
<1>5. rd' \in [CPUs -> Domains]
  BY DEF Attach, BandTypes
<1>6. online' \subseteq CPUs
  <2>1. online \subseteq CPUs /\ (online' = online \cup {c} \/ online' = online \ {c})
    BY <1>3 DEF BandTypes
  <2>. QED
    BY <2>1
<1>7. UNCHANGED << cpu_active, cpu_online >>
  BY DEF Attach
<1>. QED
  BY <1>4, <1>5, <1>6, <1>7 DEF MaskTypes, BandTypes

(* CPU_DYING keeps the types.                                              *)
LEMMA DieTypes ==
    ASSUME BandTypes, NEW c \in CPUs, c \notin cpu_active, PlugDie(c)
    PROVE  QueueTypes' /\ MaskTypes' /\ upset' = upset
<1>1. PICK off : off = IF c \in online THEN Disabled(c) ELSE [want |-> 0, rt |-> rt_runtime]
  OBVIOUS
<1>2. PICK rt \in Runtimes : rt = off.rt
  BY <1>1, OffTypes
<1>3. /\ rt_runtime' = rt /\ UNCHANGED << rt_time, rt_throttled, upset, rd, cpu_active >>
      /\ halt' \in {"no", "BUG_ON(want)", "migrate_tasks"}
      /\ online' = online \ {c} /\ cpu_online' = cpu_online \ {c}
  BY <1>1, <1>2 DEF PlugDie
<1>. QED
  BY <1>2, <1>3 DEF BandTypes, QueueTypes, MaskTypes

(* migrate_tasks loses no task.                                            *)
LEMMA DieTasks ==
    ASSUME BandTypes, TasksFit, NEW c \in CPUs, PlugDie(c) PROVE TasksFit'
<1>1. PICK d \in CPUs : d # c /\ rt_nr_running' = [rt_nr_running EXCEPT ![c] = 0, ![d] = @ + rt_nr_running[c]]
  BY DEF PlugDie, BandTypes
<1>2. PICK f \in [CPUs -> Nat] : f = rt_nr_running /\ Tot(f) <= MaxTasks
  BY DEF TasksFit
<1>3. PICK n \in Nat, m \in Nat : n = f[c] /\ m = f[d]
  OBVIOUS
<1>4. rt_nr_running' = [f EXCEPT ![c] = 0, ![d] = m + n]
  BY <1>1, <1>2, <1>3
<1>5. PICK h \in [CPUs -> Nat] : /\ h = rt_nr_running' /\ h[c] = 0 /\ h[d] = m + n
                                 /\ \A x \in CPUs : x # c /\ x # d => f[x] = h[x]
  BY <1>1, <1>4
<1>6. f \in [CPUs -> Int] /\ h \in [CPUs -> Int] /\ f[c] + f[d] = h[c] + h[d]
  BY <1>3, <1>5
<1>7. Tot(h) = Tot(f)
  <2>1. c # d /\ \A x \in CPUs : x # c /\ x # d => f[x] = h[x]
    BY <1>1, <1>5
  <2>2. PICK f1 \in [CPUs -> Int], h1 \in [CPUs -> Int] : f1 = f /\ h1 = h
    BY <1>6
  <2>3. f1[c] + f1[d] = h1[c] + h1[d] /\ \A x \in CPUs : x # c /\ x # d => f1[x] = h1[x]
    BY <1>6, <2>1, <2>2
  <2>4. Tot(h1) = Tot(f1)
    BY <2>1, <2>3, TotTwo
  <2>. QED
    BY <2>2, <2>4
<1>. QED
  BY <1>2, <1>5, <1>7 DEF TasksFit

(* The next effect of a hotplug operation.                                 *)
LEMMA PlugStepKeeps ==
    ASSUME BandwidthInv, PlugStep PROVE BandwidthInv'
<1>1. BandTypes /\ TasksFit /\ PlugListed /\ (Undisturbed => FairShares)
  BY DEF BandwidthInv
<1>2. plug # << >> /\ plug' = Tail(plug) /\ UNCHANGED << locked, run, events, sysctl, rt_b >>
  BY DEF PlugStep, setting
<1>3. PICK op \in Ops, c \in CPUs :
             /\ Head(plug) = << op, c >> /\ Head(plug)[1] = op /\ Head(plug)[2] = c
             /\ op \in {"attach", "enable"} => c \in cpu_active
             /\ op = "inactive" => plug[1][1] = "inactive" /\ plug[1][2] = c
             /\ op = "active" => c \in cpu_online
             /\ op = "die" => c \in cpu_online /\ c \notin cpu_active
  BY <1>1, <1>2, HeadOf
<1>4. /\ locked[c] = "no"
      /\ \/ op = "die" /\ PlugDie(c)
         \/ /\ \/ op = "disable"  /\ PlugDisable(c)
               \/ op = "enable"   /\ PlugEnable(c)
               \/ op = "active"   /\ PlugActive(c, TRUE)
               \/ op = "inactive" /\ PlugActive(c, FALSE)
               \/ op = "detach"   /\ Attach(c, "def")
               \/ op = "attach"   /\ Attach(c, "dom")
               \/ op = "online"   /\ PlugOnline(c)
            /\ UNCHANGED << timer, resched >>
  BY <1>3 DEF PlugStep
<1>5. "def" \in Domains /\ "dom" \in Domains
  BY DEF Domains
<1>6. /\ QueueTypes' /\ MaskTypes' /\ upset \subseteq upset'
      /\ timer' \in {"off", "armed", "run"} /\ resched' \subseteq CPUs
      /\ cpu_active' = ActiveAfter(op, c, cpu_active)
      /\ op # "die" => cpu_online' = cpu_online /\ rt_nr_running' = rt_nr_running
      /\ Undisturbed' /\ FairShares => Effect(c, op)
  <2>0. op # "die" => timer' \in {"off", "armed", "run"} /\ resched' \subseteq CPUs
    BY <1>1, <1>4 DEF BandTypes
  <2>1. CASE op = "die" /\ PlugDie(c)
    <3>1. QueueTypes' /\ MaskTypes' /\ upset' = upset
      BY <1>1, <1>3, <2>1, DieTypes
    <3>2. timer' \in {"off", "armed", "run"} /\ resched' \subseteq CPUs /\ cpu_active' = cpu_active
      BY <1>1, <2>1 DEF BandTypes, PlugDie, Started
    <3>3. FairShares => Effect(c, op)
      BY <1>1, <2>1, DieEffect
    <3>. QED
      BY <2>1, <3>1, <3>2, <3>3 DEF ActiveAfter
  <2>2. CASE op = "disable" /\ PlugDisable(c)
    <3>1. Disabled(c).rt \in Runtimes /\ DisableIn(Disabled(c).rt, Disabled(c).want)
      BY <1>1, <2>2, DisabledType DEF BandTypes, PlugDisable
    <3>2. QueueTypes' /\ upset' = upset /\ halt' \in {"no", "BUG_ON(want)", "migrate_tasks"}
      BY <1>1, <3>1, DisableTypes
    <3>3. UNCHANGED << rt_nr_running, rd, online, cpu_active, cpu_online >>
      BY <2>2 DEF PlugDisable
    <3>4. MaskTypes'
      BY <1>1, <3>2, <3>3 DEF BandTypes, MaskTypes
    <3>5. FairShares => Effect(c, op)
      BY <1>1, <2>2, DisableEffect
    <3>. QED
      BY <2>0, <2>2, <3>2, <3>3, <3>4, <3>5 DEF ActiveAfter
  <2>3. CASE op = "enable" /\ PlugEnable(c)
    <3>1. QueueTypes' /\ upset \subseteq upset'
      BY <1>1, <2>3, EnabledTypes DEF PlugEnable, BandTypes
    <3>2. UNCHANGED << rt_nr_running, rd, online, cpu_active, cpu_online, halt >>
      BY <2>3 DEF PlugEnable
    <3>3. MaskTypes'
      BY <1>1, <3>2 DEF BandTypes, MaskTypes
    <3>4. Undisturbed' /\ FairShares => Effect(c, op)
      BY <1>3, <2>3, EnableEffect
    <3>. QED
      BY <2>0, <2>3, <3>1, <3>2, <3>3, <3>4 DEF ActiveAfter
  <2>4. CASE (op = "active" /\ PlugActive(c, TRUE)) \/ (op = "inactive" /\ PlugActive(c, FALSE))
    <3>1. /\ UNCHANGED << rt_runtime, rt_time, rt_throttled, rt_nr_running, rd, online, cpu_online, upset, halt >>
          /\ cpu_active' = ActiveAfter(op, c, cpu_active)
      BY <2>4 DEF PlugActive, rqs, ActiveAfter
    <3>2. cpu_active' \subseteq cpu_online
      BY <1>1, <1>3, <2>4, <3>1 DEF BandTypes, ActiveAfter
    <3>3. QueueTypes' /\ MaskTypes'
      BY <1>1, <3>1, <3>2 DEF BandTypes, QueueTypes, MaskTypes
    <3>4. FairShares => Effect(c, op)
      <4>1. FairShares /\ op = "inactive" => rt_runtime[c] = INF
        BY <1>2, <1>3 DEF FairShares
      <4>. QED
        BY <2>4, <4>1, ActiveEffect
    <3>5. op # "die"
      BY <2>4
    <3>. QED
      BY <2>0, <3>1, <3>3, <3>4, <3>5
  <2>5. CASE (op = "detach" /\ Attach(c, "def")) \/ (op = "attach" /\ Attach(c, "dom"))
    <3>1. PICK d \in Domains : Attach(c, d) /\ (d = "def" \/ c \in cpu_active)
      BY <1>3, <1>5, <2>5
    <3>2. QueueTypes' /\ MaskTypes' /\ upset \subseteq upset'
      BY <1>1, <3>1, AttachTypes
    <3>3. UNCHANGED << rt_nr_running, cpu_active, cpu_online >>
      BY <3>1 DEF Attach
    <3>4. op \notin {"die", "disable", "active", "inactive"}
      BY <2>5
    <3>5. Undisturbed' /\ FairShares => Effect(c, op)
      BY <1>1, <3>1, <3>4, AttachEffect
    <3>. QED
      BY <2>0, <3>2, <3>3, <3>4, <3>5 DEF ActiveAfter
  <2>6. CASE op = "online" /\ PlugOnline(c)
    <3>1. QueueTypes' /\ upset \subseteq upset'
      <4>1. CASE c \in online
        BY <1>1, <2>6, <4>1 DEF PlugOnline, BandTypes, QueueTypes
      <4>2. CASE c \notin online
        BY <1>1, <2>6, <4>2, EnabledTypes DEF PlugOnline, BandTypes
      <4>. QED
        BY <4>1, <4>2
    <3>2. UNCHANGED << rt_nr_running, rd, cpu_active, cpu_online, halt >> /\ online' = online \cup {c}
      BY <2>6 DEF PlugOnline
    <3>3. MaskTypes'
      BY <1>1, <3>2 DEF BandTypes, MaskTypes
    <3>4. Undisturbed' /\ FairShares => Effect(c, op)
      BY <2>6, OnlineEffect
    <3>. QED
      BY <2>0, <2>6, <3>1, <3>2, <3>3, <3>4 DEF ActiveAfter
  <2>. QED
    BY <1>4, <2>1, <2>2, <2>3, <2>4, <2>5, <2>6
<1>7. BandTypes'
  BY <1>1, <1>2, <1>6 DEF BandTypes, QueueTypes, MaskTypes
<1>8. TasksFit'
  <2>1. CASE op = "die"
    <3>1. PlugDie(c)
      BY <1>4, <2>1
    <3>. QED
      BY <1>1, <3>1, DieTasks
  <2>2. CASE op # "die"
    BY <1>1, <1>6, <2>2 DEF TasksFit
  <2>. QED
    BY <2>1, <2>2
<1>9. PlugListed'
  <2>1. PICK on2, act2 : on2 = cpu_online' /\ act2 = ActiveAfter(op, c, cpu_active) /\ act2 = cpu_active'
    BY <1>6
  <2>2. Listed(plug, cpu_active, cpu_online) /\ (Head(plug)[1] # "die" => on2 = cpu_online)
    BY <1>1, <1>3, <1>6, <2>1 DEF PlugListed
  <2>3. Listed(Tail(plug), ActiveAfter(Head(plug)[1], Head(plug)[2], cpu_active), on2)
    BY <1>2, <2>2, ListedTail
  <2>. QED
    BY <1>2, <1>3, <2>1, <2>3 DEF PlugListed
<1>10. Undisturbed' => FairShares'
  <2>1. UNCHANGED << locked, sysctl, rt_b >>
    BY <1>2
  <2>. QED
    BY <1>1, <1>2, <1>3, <1>4, <1>6, <2>1, EffectShares
<1>. QED
  BY <1>7, <1>8, <1>9, <1>10 DEF BandwidthInv

(* Nothing happens.                                                        *)
LEMMA BandwidthStutter == BandwidthInv /\ UNCHANGED bandwidth_vars => BandwidthInv'
<1>. SUFFICES ASSUME BandwidthInv, UNCHANGED bandwidth_vars PROVE BandwidthInv'
  OBVIOUS
<1>1. BandTypes /\ TasksFit /\ PlugListed /\ (Undisturbed => FairShares)
  BY DEF BandwidthInv
<1>2. UNCHANGED << sysctl, rt_b, rt_runtime, rd, online, cpu_active, cpu_online, halt, upset, events, plug,
                   rt_time, rt_throttled, rt_nr_running, resched, run, timer, locked >>
  BY DEF bandwidth_vars, rqs, clock, topo, setting
<1>3. BandTypes' /\ TasksFit' /\ PlugListed'
  BY <1>1, <1>2 DEF BandTypes, TasksFit, PlugListed
<1>4. Undisturbed' => FairShares'
  BY <1>1, <1>2, QuietShares
<1>. QED
  BY <1>3, <1>4 DEF BandwidthInv

(* Each step of sched_rt.c's bandwidth control keeps the invariant.        *)
LEMMA BandwidthSteps == BandwidthInv /\ [BandwidthNext]_bandwidth_vars => BandwidthInv'
<1>. SUFFICES ASSUME BandwidthInv, BandwidthNext PROVE BandwidthInv'
  BY BandwidthStutter
<1>1. ASSUME NEW c \in CPUs,
             \/ Borrow(c) \/ Enqueue(c) \/ Dequeue(c) \/ (\E delta \in Deltas : Charge(c, delta))
             \/ Throttle(c) \/ (\E o \in Overruns : TimerFires(c, o)) \/ Refresh(c)
             \/ PlugDown(c) \/ PlugUp(c)
      PROVE  BandwidthInv'
  BY <1>1, BorrowKeeps, EnqueueKeeps, DequeueKeeps, ChargeKeeps, ThrottleKeeps, TimerFiresKeeps,
     RefreshKeeps, PlugDownKeeps, PlugUpKeeps
<1>2. CASE TimerVisits
  BY <1>2, TimerVisitsKeeps
<1>3. CASE TimerEnds
  BY <1>3, TimerEndsKeeps
<1>4. CASE PlugFails
  BY <1>4, PlugFailsKeeps
<1>5. CASE PlugStep
  BY <1>5, PlugStepKeeps
<1>6. CASE \E v \in Settings \cup {-1} : Write(v)
  BY <1>6, WriteKeeps
<1>7. CASE WriteEnds
  BY <1>7, WriteEndsKeeps
<1>8. CASE Halted
  BY <1>8, BandwidthStutter DEF Halted
<1>. QED
  BY <1>1, <1>2, <1>3, <1>4, <1>5, <1>6, <1>7, <1>8 DEF BandwidthNext

(* Whatever the tasks, the period timer, CPU hotplug and the sysctl do in  *)
(* any order (sched_rt.c lines 343-685): the bandwidth invariant holds.    *)
THEOREM BandwidthInvariant == BandwidthSpec => []BandwidthInv
<1>. QED
  BY BandwidthInitially, BandwidthSteps, PTL DEF BandwidthSpec

(* The run queues' runtimes stay u64 values, a CPU's rt_time stays within  *)
(* its bound, and every other variable keeps its type.                     *)
THEOREM BandwidthTypeCorrect == BandwidthSpec => []BandwidthTypeOK
<1>1. BandwidthInv => BandwidthTypeOK
  <2>. SUFFICES ASSUME BandwidthInv PROVE BandwidthTypeOK
    OBVIOUS
  <2>1. BandTypes /\ TasksFit
    BY DEF BandwidthInv
  <2>2. rt_nr_running \in [CPUs -> 0 .. MaxTasks]
    <3>1. ASSUME NEW c \in CPUs PROVE rt_nr_running[c] \in 0 .. MaxTasks
      <4>1. MaxTasks \in Nat /\ Tot(rt_nr_running) <= MaxTasks
        BY <2>1, BandwidthAssumption DEF TasksFit
      <4>2. PICK n \in Nat, t \in Int : n = rt_nr_running[c] /\ t = Tot(rt_nr_running) /\ n <= t
        BY <2>1, TasksOf
      <4>. QED
        BY <4>1, <4>2
    <3>. QED
      BY <2>1, <3>1 DEF TasksFit
  <2>. QED
    BY <2>1, <2>2 DEF BandTypes, BandwidthTypeOK, Runtimes, Domains
<1>. QED
  BY <1>1, BandwidthInvariant, PTL

(* The CPUs of a domain that are not disabled have exactly their shares.   *)
LEMMA EvenSum ==
    ASSUME NEW rt, NEW dom, Even(rt, dom), NEW d \in Domains, NEW W,
           W = {c \in CPUs : dom[c] = d /\ rt[c] # INF}
    PROVE  Added(rt, W) = Runtime * Cardinality(W)
<1>1. rt \in Runtimes /\ Tot(Excess(rt, dom, d)) = 0 /\ Runtime \in Int
  BY Sizes DEF Even
<1>2. rt \in [CPUs -> Int]
  <2>1. \A c \in CPUs : rt[c] \in Int
    BY <1>1, RuntimeNat
  <2>. QED
    BY <1>1, <2>1 DEF Runtimes
<1>3. W \in SUBSET CPUs
  OBVIOUS
<1>4. /\ Added(rt, W) = Tot([c \in CPUs |-> IF c \in W THEN rt[c] - Runtime ELSE 0]) + Runtime * Cardinality(W)
      /\ Cardinality(W) \in Nat
  BY <1>1, <1>2, <1>3, SumTot
<1>5. [c \in CPUs |-> IF c \in W THEN rt[c] - Runtime ELSE 0] = Excess(rt, dom, d)
  BY DEF Excess
<1>6. PICK m \in Int : m = Runtime * Cardinality(W)
  <2>0. Cardinality(W) \in Nat
    BY <1>4
  <2>1. PICK r \in Int, k \in Nat : r = Runtime /\ k = Cardinality(W)
    BY <1>1, <2>0, Zenon
  <2>2. r * k \in Int
    OBVIOUS
  <2>. QED
    BY <2>1, <2>2
<1>. QED
  BY <1>1, <1>4, <1>5, <1>6

(* sched_rt.c lines 360-523: however many CPUs borrow from each other, are *)
(* throttled, go away in the middle of it and come back, the runtime of a  *)
(* domain is neither created nor lost and BUG_ON(want) does not fire,      *)
(* unless the sysctl was written, a run queue was reset while it had       *)
(* borrowed, or the timer borrowed across domains.                         *)
THEOREM RuntimeConservedThm == BandwidthSpec => []RuntimeConserved
<1>1. BandwidthInv => RuntimeConserved
  <2>. SUFFICES ASSUME BandwidthInv, Undisturbed PROVE RuntimeConserved
    BY DEF RuntimeConserved, Undisturbed
  <2>1. rt_b = Runtime /\ Even(rt_runtime, rd) /\ halt # "BUG_ON(want)"
    BY DEF BandwidthInv, FairShares
  <2>2. ASSUME NEW d \in Domains
        PROVE  Added(rt_runtime, {c \in Span(d) : rt_runtime[c] # INF})
                 = rt_b * Cardinality({c \in Span(d) : rt_runtime[c] # INF})
    <3>1. PICK W : W = {c \in CPUs : rd[c] = d /\ rt_runtime[c] # INF}
      OBVIOUS
    <3>2. {c \in Span(d) : rt_runtime[c] # INF} = W
      BY <3>1 DEF Span
    <3>3. Added(rt_runtime, W) = Runtime * Cardinality(W)
      BY <2>1, <3>1, EvenSum
    <3>. QED
      BY <2>1, <3>2, <3>3
  <2>. QED
    BY <2>1, <2>2 DEF RuntimeConserved, Added, Domains
<1>. QED
  BY <1>1, BandwidthInvariant, PTL
=============================================================================
