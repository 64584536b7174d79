-------------------------------- MODULE Sstf --------------------------------
(***************************************************************************)
(* The I/O scheduler of indwriterups/project2/sstf-iosched.c.  The block   *)
(* layer calls its operations with the queue lock held, so each one is one *)
(* step.  Requests are recycled: one that has left the queue may come back *)
(* with another sector.                                                    *)
(***************************************************************************)
EXTENDS Integers, Sequences

CONSTANTS
    Requests,   \* the request structures of the block layer
    Sectors     \* the values of blk_rq_pos

ASSUME SectorAssumption == Sectors \subseteq Nat /\ 0 \in Sectors

VARIABLES
    queue,      \* nd->queue, head to tail
    pos,        \* blk_rq_pos of each request
    prevsec,    \* nd->prevsec
    direction,  \* nd->direction: "NEXT" or "PREV"
    phase       \* of the elevator: "running", "draining", "exited"

vars == << queue, pos, prevsec, direction, phase >>

Queued == {queue[i] : i \in 1 .. Len(queue)}

TypeOK ==
    /\ queue \in Seq(Requests)
    /\ pos \in [Requests -> Sectors]
    /\ prevsec \in Sectors
    /\ direction \in {"NEXT", "PREV"}
    /\ phase \in {"running", "draining", "exited"}

Init ==
    /\ queue = << >>
    /\ pos \in [Requests -> Sectors]
    /\ prevsec = 0
    /\ direction = "NEXT"
    /\ phase = "running"

-----------------------------------------------------------------------------
\* list_add(rq, lo) with lo the i-th entry (0: the list head).
InsertAfter(s, i, r) ==
    [j \in 1 .. (Len(s) + 1) |->
        IF j <= i THEN s[j] ELSE IF j = i + 1 THEN r ELSE s[j - 1]]

\* list_del_init of the i-th entry.
Delete(s, i) ==
    [j \in 1 .. (Len(s) - 1) |-> IF j < i THEN s[j] ELSE s[j + 1]]

IsFirstEntryBelow(i, s) ==
    /\ i \in 0 .. Len(queue)
    /\ i > 0 => pos[queue[i]] < s
    /\ \A j \in 1 .. Len(queue) : j < i => pos[queue[j]] >= s

\* list_for_each_prev stops at the last entry below sector s, or at the head.
IsInsertPoint(i, s) ==
    /\ i \in 0 .. Len(queue)
    /\ i > 0 => pos[queue[i]] < s
    /\ \A j \in 1 .. Len(queue) : j > i => pos[queue[j]] >= s

AddRequest(r) ==
    /\ phase = "running"
    /\ r \notin Queued
    /\ \E s \in Sectors : \E i \in 0 .. Len(queue) :
          /\ IsInsertPoint(i, s)
          /\ queue' = InsertAfter(queue, i, r)
          /\ pos' = [pos EXCEPT ![r] = s]
    /\ UNCHANGED << prevsec, direction, phase >>

-----------------------------------------------------------------------------
AboveOrAt(i) == pos[queue[i]] >= prevsec
Above(i) == pos[queue[i]] > prevsec
Below(i) == pos[queue[i]] < prevsec

DispatchAndDropNext(i) ==
    /\ prevsec' = pos[queue[i]]
    /\ queue' = Delete(Delete(queue, i), i)
    /\ UNCHANGED << pos, phase >>

\* nd->prevsec, list_del_init and elv_dispatch_add_tail at the label dispatch.
DispatchEntry(i) ==
    /\ prevsec' = pos[queue[i]]
    /\ queue' = Delete(queue, i)
    /\ UNCHANGED << pos, phase >>

\* list_for_each finds the first entry above prevsec.
DispatchNext ==
    /\ direction = "NEXT"
    /\ \E i \in 1 .. Len(queue) :
          /\ Above(i)
          /\ \A j \in 1 .. Len(queue) : j < i => ~ Above(j)
          /\ DispatchEntry(i)
    /\ UNCHANGED direction

\* It ran to the head: next_head->prev is the last entry.
DispatchTurnPrev ==
    /\ direction = "NEXT"
    /\ queue # << >>
    /\ \A j \in 1 .. Len(queue) : ~ Above(j)
    /\ DispatchEntry(Len(queue))
    /\ direction' = "PREV"

\* list_for_each_prev finds the last entry below prevsec.
DispatchPrev ==
    /\ direction = "PREV"
    /\ \E i \in 1 .. Len(queue) :
          /\ Below(i)
          /\ \A j \in 1 .. Len(queue) : j > i => ~ Below(j)
          /\ DispatchEntry(i)
    /\ UNCHANGED direction

\* It ran to the head: next_head->next is the first entry.
DispatchTurnNext ==
    /\ direction = "PREV"
    /\ queue # << >>
    /\ \A j \in 1 .. Len(queue) : ~ Below(j)
    /\ DispatchEntry(1)
    /\ direction' = "NEXT"

Dispatch ==
    /\ phase # "exited"
    /\ DispatchNext \/ DispatchTurnPrev \/ DispatchPrev \/ DispatchTurnNext

-----------------------------------------------------------------------------
\* The block layer merges a request with its neighbour when their blocks are
\* adjacent (it finds the neighbour through latter and former): the later of
\* the two leaves the queue.
IsLatter(i, next) == i < Len(queue) /\ queue[i + 1] = next

MergedRequests ==
    /\ phase # "exited"
    /\ \E i \in 1 .. Len(queue) : \E next \in Requests :
          /\ IsLatter(i, next)
          /\ pos[queue[i]] < pos[next]
          /\ queue' = Delete(queue, i + 1)
    /\ UNCHANGED << pos, prevsec, direction, phase >>

\* Switching elevators: no new requests, dispatch until it returns 0, exit.
StartDrain ==
    /\ phase = "running"
    /\ phase' = "draining"
    /\ UNCHANGED << queue, pos, prevsec, direction >>

ExitQueue ==
    /\ phase = "draining"
    /\ queue = << >>
    /\ phase' = "exited"
    /\ UNCHANGED << queue, pos, prevsec, direction >>

Next ==
    \/ \E r \in Requests : AddRequest(r)
    \/ Dispatch
    \/ MergedRequests
    \/ StartDrain
    \/ ExitQueue

Spec == Init /\ [][Next]_vars

(* The block layer runs the queue as long as it is not empty.  Requests may *)
(* arrive for ever, merges need not happen.                                 *)
FairSpec == Spec /\ WF_vars(Dispatch) /\ WF_vars(ExitQueue)

-----------------------------------------------------------------------------
(* sstf_add_request keeps the queue in ascending order and never enters a   *)
(* request twice; sstf_dispatch relies on it (lines 43-68).                 *)
QueueSorted ==
    \A i, j \in 1 .. Len(queue) :
        i < j => pos[queue[i]] <= pos[queue[j]] /\ queue[i] # queue[j]

(* The list operations implement the elevator on a set: every request that  *)
(* leaves was the nearest one in the direction of travel, or the nearest of *)
(* all when the head turns, and nothing else leaves with it.                *)
E == INSTANCE Elevator WITH pending <- Queued
ImplementsElevator == E!Spec

(* However many requests keep arriving, each one is dispatched (or merged)  *)
(* in the end: the write-up's worry that a far request "would never appear  *)
(* in the dispatch queue" (project2.tex line 43).                           *)
NoStarvation ==
    \A r \in Requests : r \in Queued ~> r \notin Queued
=============================================================================
