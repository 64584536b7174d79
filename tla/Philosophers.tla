---------------------------- MODULE Philosophers ----------------------------
(***************************************************************************)
(* The dining philosophers of concur/concurrent2/concurrent2.c.  Forks are *)
(* two counting semaphores; sem_phi gives each philosopher one ticket per  *)
(* cycle and phi records who has had forks in this cycle.  Whoever finds   *)
(* all flags set starts the next cycle: it walks over the philosophers,    *)
(* posts each one's ticket and then clears each one's flag.  The flags are *)
(* plain bools, read and written by all threads without a lock.            *)
(*                                                                         *)
(* phi_forks and phi_status are what the printer thread shows; only their  *)
(* own philosopher writes them, so a write is joined with the semaphore    *)
(* call next to it.                                                        *)
(***************************************************************************)
EXTENDS Integers, FiniteSets

CONSTANTS
    N,              \* philosophers (5)
    LeftForks,      \* sem_left (3)
    RightForks,     \* sem_right (2)
    SEM_VALUE_MAX   \* what a semaphore can hold; bounds the tickets

ASSUME PhilosophersAssumption ==
    /\ N \in Nat \ {0} /\ SEM_VALUE_MAX \in Nat \ {0}
    /\ LeftForks \in Nat \ {0} /\ RightForks \in Nat \ {0}

Phil == 0 .. (N - 1)

VARIABLES
    sem_left, sem_right, phi_forks,
    sem_phi, phi,
    phi_status,     \* 0 blocking, 1 thinking, 2 eating
    at, k,          \* place of each thread; its index into the flags
    lost            \* history: somebody's new flag was cleared with the old ones

forks == << sem_left, sem_right, phi_forks >>
cycle == << sem_phi, phi >>
vars  == << forks, cycle, phi_status, at, k, lost >>

CycleAt      == {"test", "post", "clear"}
HoldsLeftAt  == {"right", "flag", "eat", "eating", "put_left"} \cup CycleAt
HoldsRightAt == {"flag", "eat", "eating", "put_left", "put_right"} \cup CycleAt
At           == {"think", "ticket", "left"} \cup HoldsLeftAt \cup HoldsRightAt

HoldsLeft  == {p \in Phil : at[p] \in HoldsLeftAt}
HoldsRight == {p \in Phil : at[p] \in HoldsRightAt}

TypeOK ==
    /\ sem_left \in Nat /\ sem_right \in Nat
    /\ phi_forks \in [Phil -> 0 .. 2]
    /\ sem_phi \in [Phil -> 0 .. SEM_VALUE_MAX]
    /\ phi \in [Phil -> BOOLEAN]
    /\ phi_status \in [Phil -> 0 .. 2]
    /\ at \in [Phil -> At]
    /\ k \in [Phil -> Phil]
    /\ lost \in BOOLEAN

Init ==
    /\ sem_left = LeftForks /\ sem_right = RightForks
    /\ phi_forks = [p \in Phil |-> 0]
    /\ sem_phi = [p \in Phil |-> 1]
    /\ phi = [p \in Phil |-> FALSE]
    /\ phi_status = [p \in Phil |-> 1]
    /\ at = [p \in Phil |-> "think"]
    /\ k = [p \in Phil |-> 0]
    /\ lost = FALSE

-----------------------------------------------------------------------------
Goto(p, from, to) ==
    /\ at[p] = from
    /\ at' = [at EXCEPT ![p] = to]

SetStatus(p, s) == phi_status' = [phi_status EXCEPT ![p] = s]

Think(p) ==
    /\ Goto(p, "think", "ticket")
    /\ SetStatus(p, 0)
    /\ UNCHANGED << forks, cycle, k, lost >>

TakeTicket(p) ==
    /\ sem_phi[p] > 0
    /\ Goto(p, "ticket", "left")
    /\ sem_phi' = [sem_phi EXCEPT ![p] = @ - 1]
    /\ UNCHANGED << forks, phi, phi_status, k, lost >>

TakeLeft(p) ==
    /\ sem_left > 0
    /\ Goto(p, "left", "right")
    /\ sem_left' = sem_left - 1
    /\ phi_forks' = [phi_forks EXCEPT ![p] = @ + 1]
    /\ UNCHANGED << sem_right, cycle, phi_status, k, lost >>

TakeRight(p) ==
    /\ sem_right > 0
    /\ Goto(p, "right", "flag")
    /\ sem_right' = sem_right - 1
    /\ phi_forks' = [phi_forks EXCEPT ![p] = @ + 1]
    /\ UNCHANGED << sem_left, cycle, phi_status, k, lost >>

SetFlagForgotten(p) ==
    /\ Goto(p, "flag", "test")
    /\ k' = [k EXCEPT ![p] = 0]
    /\ UNCHANGED << forks, cycle, phi_status, lost >>

SetFlag(p) ==
    /\ Goto(p, "flag", "test")
    /\ phi' = [phi EXCEPT ![p] = TRUE]
    /\ k' = [k EXCEPT ![p] = 0]
    /\ UNCHANGED << forks, sem_phi, phi_status, lost >>

\* Mutant: the last flag is left out of the condition.
TestFlagsButLast(p) ==
    /\ LET last == k[p] = N - 2 IN
       /\ Goto(p, "test", CASE ~ phi[k[p]]        -> "eat"
                            [] phi[k[p]] /\ last  -> "post"
                            [] OTHER              -> "test")
       /\ k' = [k EXCEPT ![p] = IF phi[k[p]] /\ ~ last THEN k[p] + 1 ELSE 0]
    /\ UNCHANGED << forks, cycle, phi_status, lost >>

\* phi[0] && phi[1] && ...: one read after the other, up to the first FALSE.
TestFlags(p) ==
    /\ LET last == k[p] = N - 1 IN
       /\ Goto(p, "test", CASE ~ phi[k[p]]        -> "eat"
                            [] phi[k[p]] /\ last  -> "post"
                            [] OTHER              -> "test")
       /\ k' = [k EXCEPT ![p] = IF phi[k[p]] /\ ~ last THEN k[p] + 1 ELSE 0]
    /\ UNCHANGED << forks, cycle, phi_status, lost >>

\* sem_post of a semaphore that is at its limit fails and changes nothing; the
\* code does not look at the result.
PostTicket(p) ==
    /\ Goto(p, "post", "clear")
    /\ sem_phi' = [sem_phi EXCEPT ![k[p]] = IF @ < SEM_VALUE_MAX THEN @ + 1 ELSE @]
    /\ UNCHANGED << forks, phi, phi_status, k, lost >>

\* Philosopher q has taken the ticket just posted and set its flag with it.
FlagIsNew(q) == phi[q] /\ sem_phi[q] = 0 /\ at[q] \notin {"left", "right", "flag"}

ClearFlag(p) ==
    /\ LET last == k[p] = N - 1 IN
       /\ Goto(p, "clear", IF last THEN "eat" ELSE "post")
       /\ k' = [k EXCEPT ![p] = IF last THEN 0 ELSE k[p] + 1]
    /\ lost' = (lost \/ FlagIsNew(k[p]))
    /\ phi' = [phi EXCEPT ![k[p]] = FALSE]
    /\ UNCHANGED << forks, sem_phi, phi_status >>

Eat(p) ==
    /\ Goto(p, "eat", "eating")
    /\ SetStatus(p, 2)
    /\ UNCHANGED << forks, cycle, k, lost >>

EatEnd(p) ==
    /\ Goto(p, "eating", "put_left")
    /\ SetStatus(p, 0)
    /\ UNCHANGED << forks, cycle, k, lost >>

PutLeft(p) ==
    /\ Goto(p, "put_left", "put_right")
    /\ sem_left' = sem_left + 1
    /\ phi_forks' = [phi_forks EXCEPT ![p] = @ - 1]
    /\ UNCHANGED << sem_right, cycle, phi_status, k, lost >>

PutRightForgotten(p) ==
    /\ Goto(p, "put_right", "think")
    /\ phi_forks' = [phi_forks EXCEPT ![p] = @ - 1]
    /\ SetStatus(p, 1)
    /\ UNCHANGED << sem_left, sem_right, cycle, k, lost >>

\* The next turn of the loop starts with phi_status = 1.
PutRight(p) ==
    /\ Goto(p, "put_right", "think")
    /\ sem_right' = sem_right + 1
    /\ phi_forks' = [phi_forks EXCEPT ![p] = @ - 1]
    /\ SetStatus(p, 1)
    /\ UNCHANGED << sem_left, cycle, k, lost >>

Step(p) ==
    \/ Think(p) \/ TakeTicket(p) \/ TakeLeft(p) \/ TakeRight(p)
    \/ SetFlag(p) \/ TestFlags(p) \/ PostTicket(p) \/ ClearFlag(p)
    \/ Eat(p) \/ EatEnd(p) \/ PutLeft(p) \/ PutRight(p)

Next == \E p \in Phil : Step(p)

Spec == Init /\ [][Next]_vars

(* A philosopher that can run is scheduled.  That is all: sem_wait is not   *)
(* fair between its waiters, so a philosopher whose semaphore is taken      *)
(* again and again before it runs may wait for ever as far as this goes.    *)
FairSpec == Spec /\ \A p \in Phil : WF_vars(Step(p))

-----------------------------------------------------------------------------
(* No fork is made or lost (lines 59-63, 84-88): what the semaphores still  *)
(* have and what the philosophers hold is the initial number of each kind,  *)
(* and phi_forks, which the printer shows, is what a philosopher holds.     *)
ForksConserved ==
    /\ sem_left + Cardinality(HoldsLeft) = LeftForks
    /\ sem_right + Cardinality(HoldsRight) = RightForks
    /\ \A p \in Phil :
          phi_forks[p] = (IF p \in HoldsLeft THEN 1 ELSE 0)
                         + (IF p \in HoldsRight THEN 1 ELSE 0)

(* Taking the left fork first and the right one second cannot deadlock over *)
(* forks: if a philosopher waits for one, another that holds forks can run. *)
NoForkDeadlock ==
    \A p \in Phil :
        \/ at[p] = "left" /\ sem_left = 0
        \/ at[p] = "right" /\ sem_right = 0
        => \E q \in HoldsLeft \cup HoldsRight : at[q] = "right" => sem_right > 0

(* The program stops for good (everybody waits for a ticket nobody will     *)
(* post) only if a reset (lines 68-72) cleared a flag that its philosopher  *)
(* had set anew between the post of line 70 and the clear of line 71.       *)
StuckOnlyAfterLostFlag ==
    (\A p \in Phil : at[p] = "ticket" /\ sem_phi[p] = 0) => lost

(* Whoever got a ticket (line 55) eats, although the table goes on for ever *)
(* and the fork semaphores let others pass: until it has eaten no cycle     *)
(* ends without its flag, except one that was under way or counted an old   *)
(* flag of its own, so the others run out of tickets however many extra     *)
(* ones two resets at once have posted.                                     *)
TicketLeadsToMeal ==
    \A p \in Phil : at[p] = "left" ~> phi_status[p] = 2
=============================================================================
