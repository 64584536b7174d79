-------------------------- MODULE ProducerConsumer --------------------------
(***************************************************************************)
(* concur/concurrent1/concurrent1.c: one producer thread and one consumer  *)
(* thread share N slots and two counting semaphores and take no lock.  A   *)
(* slot is free while its field b is 0.  Each thread looks for its slot    *)
(* from the start, one slot a step, while the other one may be writing.    *)
(*                                                                         *)
(* An item's number stands for the rand()%10 of its field a, so that items *)
(* can be told apart; b is the time its consumption takes.                 *)
(***************************************************************************)
EXTENDS Integers, Sequences, FiniteSets

CONSTANTS
    N,          \* slots: 32 in the code
    MaxItems,   \* bound: largest count on the command line
    Delays      \* what b may be in a full slot: 2 .. 9 in the code

ASSUME BufferAssumption ==
    /\ N \in Nat \ {0} /\ MaxItems \in Nat
    /\ Delays \subseteq Nat \ {0}

VARIABLES
    no_p, no_c,         \* the command line
    a, b,               \* the fields of buff[i]
    sem_p, sem_c,
    ppc, pi, pcnt,      \* producer: place, i, cnt
    cpc, ci, ccnt,      \* consumer
    printed             \* the a fields the consumer printed

producer == << ppc, pi, pcnt >>
consumer == << cpc, ci, ccnt >>
args     == << no_p, no_c >>
buff     == << a, b >>
buffer_vars == << args, buff, sem_p, sem_c, producer, consumer, printed >>

Slots == 0 .. N - 1
Free(i) == b[i] = 0
Full == {i \in Slots : ~Free(i)}

InitWith(spaces) ==
    /\ no_p \in 0 .. MaxItems /\ no_c \in 0 .. MaxItems
    /\ a = [i \in Slots |-> 0] /\ b = [i \in Slots |-> 0]
    /\ sem_p = spaces /\ sem_c = 0
    /\ ppc = "wait" /\ pi = 0 /\ pcnt = 0
    /\ cpc = "wait" /\ ci = 0 /\ ccnt = 0
    /\ printed = << >>

\* Mutant: one space too many.
InitOffByOne == InitWith(N + 1)

BufferInit == InitWith(N)

-----------------------------------------------------------------------------
(* The producer. *)

PStart(spaces) ==
    /\ ppc = "wait" /\ pcnt < no_p
    /\ sem_p > 0
    /\ sem_p' = spaces
    /\ ppc' = "scan" /\ pi' = 0
    /\ UNCHANGED << args, buff, sem_c, pcnt, consumer, printed >>

PWait == PStart(sem_p - 1)

\* A scan that reaches the end without a hit goes on to the sem_post.
PScan ==
    /\ ppc = "scan"
    /\ IF Free(pi) THEN ppc' = "seta" /\ pi' = pi
       ELSE /\ pi' = pi + 1
            /\ ppc' = IF pi + 1 < N THEN "scan" ELSE "post"
    /\ UNCHANGED << args, buff, sem_p, sem_c, pcnt, consumer, printed >>

SetA(to) ==
    /\ a' = [a EXCEPT ![pi] = pcnt + 1]
    /\ ppc' = to
    /\ UNCHANGED << args, b, sem_p, sem_c, pi, pcnt, consumer, printed >>

SetB(to) ==
    /\ \E d \in Delays : b' = [b EXCEPT ![pi] = d]
    /\ ppc' = to
    /\ UNCHANGED << args, a, sem_p, sem_c, pi, pcnt, consumer, printed >>

\* Mutant: the slot is marked full before the item is in it.
PFillMarksFirst ==
    \/ ppc = "seta" /\ SetB("setb")
    \/ ppc = "setb" /\ SetA("post")

PFill ==
    \/ ppc = "seta" /\ SetA("setb")
    \/ ppc = "setb" /\ SetB("post")

PEnd(items) ==
    /\ ppc = "post"
    /\ sem_c' = items
    /\ ppc' = "wait" /\ pcnt' = pcnt + 1
    /\ UNCHANGED << args, buff, sem_p, pi, consumer, printed >>

\* Mutant: the consumer is not told.
PPostForgotten == PEnd(sem_c)

PPost == PEnd(sem_c + 1)

-----------------------------------------------------------------------------
(* The consumer. *)

CWait ==
    /\ cpc = "wait" /\ ccnt < no_c
    /\ sem_c > 0
    /\ sem_c' = sem_c - 1
    /\ cpc' = "scan" /\ ci' = 0
    /\ UNCHANGED << args, buff, sem_p, ccnt, producer, printed >>

CScan ==
    /\ cpc = "scan"
    /\ IF Free(ci) THEN /\ ci' = ci + 1
                        /\ cpc' = IF ci + 1 < N THEN "scan" ELSE "post"
       ELSE cpc' = "print" /\ ci' = ci
    /\ UNCHANGED << args, buff, sem_p, sem_c, ccnt, producer, printed >>

CPrint ==
    /\ cpc = "print"
    /\ printed' = Append(printed, a[ci])
    /\ cpc' = "cleara"
    /\ UNCHANGED << args, buff, sem_p, sem_c, ci, ccnt, producer >>

CClearA ==
    /\ cpc = "cleara"
    /\ a' = [a EXCEPT ![ci] = 0]
    /\ cpc' = "clearb"
    /\ UNCHANGED << args, b, sem_p, sem_c, ci, ccnt, producer, printed >>

CClearB ==
    /\ cpc = "clearb"
    /\ b' = [b EXCEPT ![ci] = 0]
    /\ cpc' = "post"
    /\ UNCHANGED << args, a, sem_p, sem_c, ci, ccnt, producer, printed >>

CEnd(spaces) ==
    /\ cpc = "post"
    /\ sem_p' = spaces
    /\ cpc' = "wait" /\ ccnt' = ccnt + 1
    /\ UNCHANGED << args, buff, sem_c, ci, producer, printed >>

CPost == CEnd(sem_p + 1)

-----------------------------------------------------------------------------
Producer == PWait \/ PScan \/ PFill \/ PPost
Consumer == CWait \/ CScan \/ CPrint \/ CClearA \/ CClearB \/ CPost
BufferNext == Producer \/ Consumer

\* Each loop is a thread the kernel schedules; sem_wait returns once the
\* semaphore is positive, and nobody else waits on it.
BufferSpec == BufferInit /\ [][BufferNext]_buffer_vars /\ WF_buffer_vars(Producer) /\ WF_buffer_vars(Consumer)

-----------------------------------------------------------------------------
(* The variables have their types; no semaphore exceeds the number of      *)
(* slots. *)
BufferTypeOK ==
    /\ no_p \in 0 .. MaxItems /\ no_c \in 0 .. MaxItems
    /\ a \in [Slots -> Nat] /\ b \in [Slots -> Delays \cup {0}]
    /\ sem_p \in 0 .. N /\ sem_c \in 0 .. N
    /\ ppc \in {"wait", "scan", "seta", "setb", "post"}
    /\ cpc \in {"wait", "scan", "print", "cleara", "clearb", "post"}
    /\ pi \in 0 .. N /\ ci \in 0 .. N
    /\ pcnt \in 0 .. MaxItems /\ ccnt \in 0 .. MaxItems
    /\ printed \in Seq(Nat)

(* A thread that passed its semaphore finds its slot: neither scan         *)
(* (lines 50 and 130) runs off the end, though the other thread fills and  *)
(* frees slots behind it.  A scan that did would post a semaphore for an   *)
(* item that does not exist. *)
ScanFinds == pi < N /\ ci < N

PHolds   == IF ppc \in {"scan", "seta", "setb"} THEN 1 ELSE 0
PFilled  == IF ppc = "post" THEN 1 ELSE 0
CHolds   == IF cpc \in {"scan", "print", "cleara", "clearb"} THEN 1 ELSE 0
CCleared == IF cpc = "post" THEN 1 ELSE 0

(* The comments at lines 29-33 and 105-110: sem_c counts the items and     *)
(* sem_p the spaces.  Exactly, with what the threads have in hand: every   *)
(* full slot is announced, in the consumer's hand or about to be posted,   *)
(* and every free one likewise for the producer. *)
SlotsAccounted ==
    /\ Cardinality(Full) = sem_c + CHolds + PFilled
    /\ N - Cardinality(Full) = sem_p + PHolds + CCleared

(* The consumer prints real items, each once: never the a of a slot the    *)
(* producer is still filling or the consumer has cleared, although the     *)
(* consumer may take a slot before its own sem_post (line 99).  Items may  *)
(* overtake each other. *)
EachItemOnce ==
    /\ \A i, j \in 1 .. Len(printed) : printed[i] = printed[j] => i = j
    /\ \A i \in 1 .. Len(printed) : printed[i] \in 1 .. no_p

Joined == ppc = "wait" /\ pcnt = no_p /\ cpc = "wait" /\ ccnt = no_c
Balanced == no_c <= no_p /\ no_p <= no_c + N

(* main (lines 168-169) joins both threads exactly when the two counts fit *)
(* each other: enough items for the consumer, and no more left over than   *)
(* the buffer holds.  Otherwise one thread waits for ever. *)
JoinsIffBalanced ==
    /\ Balanced => <>Joined
    /\ ~Balanced => []~Joined
=============================================================================
