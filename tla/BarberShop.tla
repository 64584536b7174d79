----------------------------- MODULE BarberShop -----------------------------
(***************************************************************************)
(* The sleeping barber of concur/concurrent4/barbershop.c: one barber      *)
(* thread, NumCustomers customer threads and the main thread that creates  *)
(* them.                                                                   *)
(*                                                                         *)
(* waiting_chair_count is a plain int that every customer reads and writes *)
(* without a lock, so "--" and "++" are a load and a store with other      *)
(* threads in between (the committed binary does exactly that).  The two   *)
(* pthread mutexes are used as binary semaphores: a customer locks the     *)
(* barber chair and the barber unlocks it, the barber locks hair_cut_mutex *)
(* and a customer unlocks it.  A default glibc mutex allows this; unlocking*)
(* one that is not locked leaves it unlocked, so a second signal is lost.  *)
(***************************************************************************)
EXTENDS Integers, FiniteSets

CONSTANTS
    NumCustomers,   \* argv[2]
    NumChairs       \* argv[1], the waiting chairs

ASSUME ShopAssumption == NumCustomers \in Nat /\ NumChairs \in Nat

Customers == 0 .. (NumCustomers - 1)
Nobody    == -1
MaxBatch  == 2      \* rand() % 3: at most two new customers a second

VARIABLES
    waiting_chair_count,
    barber_chair_mutex,     \* the customer that locked it, or Nobody
    hair_cut_mutex,         \* TRUE when locked
    barber,                 \* where the barber thread is
    cust,                   \* where each customer thread is
    reg,                    \* the register of a customer's "--" or "++"
    i, batch,               \* main: next thread to create, left in this batch
    shorn                   \* history: the customers whose cut is finished

shop_vars == << waiting_chair_count, barber_chair_mutex, hair_cut_mutex, barber,
           cust, reg, i, batch, shorn >>

\* From locking the barber chair until the signal to the barber.
SeatedAt  == {"inc_load", "inc_store", "signal"}
\* Has stored its "--" (every later place of a served customer).
BegunAt   == {"lock_chair", "done"} \cup SeatedAt
\* Holds, is taking, or is just giving back a waiting chair.
WaitingAt == {"dec_load", "dec_store", "lock_chair", "inc_load", "inc_store"}
CustAt    == {"unborn", "check", "left"} \cup WaitingAt \cup SeatedAt \cup BegunAt

ShopTypeOK ==
    /\ waiting_chair_count \in Int
    /\ barber_chair_mutex \in Customers \cup {Nobody}
    /\ hair_cut_mutex \in BOOLEAN
    /\ barber \in {"wait", "cut"}
    /\ cust \in [Customers -> CustAt]
    /\ reg \in [Customers -> Int]
    /\ i \in 0 .. NumCustomers
    /\ batch \in 0 .. MaxBatch
    /\ shorn \subseteq Customers

ShopInit ==
    /\ waiting_chair_count = NumChairs
    /\ barber_chair_mutex = Nobody
    /\ hair_cut_mutex = TRUE
    /\ barber = "wait"
    /\ cust = [c \in Customers |-> "unborn"]
    /\ reg = [c \in Customers |-> 0]
    /\ i = 0 /\ batch = 0
    /\ shorn = {}

-----------------------------------------------------------------------------
\* main: every second a batch of 0..2 customers, cut off at the last one.
MainBatch ==
    /\ batch = 0
    /\ i < NumCustomers
    /\ \E rd_cus \in 0 .. MaxBatch :
          batch' = IF i + rd_cus >= NumCustomers THEN NumCustomers - i ELSE rd_cus
    /\ UNCHANGED << waiting_chair_count, barber_chair_mutex, hair_cut_mutex,
                    barber, cust, reg, i, shorn >>

MainCreate ==
    /\ batch > 0
    /\ cust' = [cust EXCEPT ![i] = "check"]
    /\ i' = i + 1
    /\ batch' = batch - 1
    /\ UNCHANGED << waiting_chair_count, barber_chair_mutex, hair_cut_mutex,
                    barber, reg, shorn >>

-----------------------------------------------------------------------------
Goto(c, from, to) ==
    /\ cust[c] = from
    /\ cust' = [cust EXCEPT ![c] = to]

CheckTurnsAwayOneEarly(c) ==
    /\ Goto(c, "check", IF waiting_chair_count > 1 THEN "dec_load" ELSE "left")
    /\ UNCHANGED << waiting_chair_count, barber_chair_mutex, hair_cut_mutex,
                    barber, reg, i, batch, shorn >>

\* "if (waiting_chair_count > 0)": a read of its own, before the read of "--".
Check(c) ==
    /\ Goto(c, "check", IF waiting_chair_count > 0 THEN "dec_load" ELSE "left")
    /\ UNCHANGED << waiting_chair_count, barber_chair_mutex, hair_cut_mutex,
                    barber, reg, i, batch, shorn >>

DecLoad(c) ==
    /\ Goto(c, "dec_load", "dec_store")
    /\ reg' = [reg EXCEPT ![c] = waiting_chair_count]
    /\ UNCHANGED << waiting_chair_count, barber_chair_mutex, hair_cut_mutex,
                    barber, i, batch, shorn >>

DecStore(c) ==
    /\ Goto(c, "dec_store", "lock_chair")
    /\ waiting_chair_count' = reg[c] - 1
    /\ UNCHANGED << barber_chair_mutex, hair_cut_mutex, barber, reg, i, batch,
                    shorn >>

LockChairWithoutWaiting(c) ==
    /\ Goto(c, "lock_chair", "inc_load")
    /\ barber_chair_mutex' = c
    /\ UNCHANGED << waiting_chair_count, hair_cut_mutex, barber, reg, i, batch,
                    shorn >>

LockChair(c) ==
    /\ barber_chair_mutex = Nobody
    /\ Goto(c, "lock_chair", "inc_load")
    /\ barber_chair_mutex' = c
    /\ UNCHANGED << waiting_chair_count, hair_cut_mutex, barber, reg, i, batch,
                    shorn >>

IncLoad(c) ==
    /\ Goto(c, "inc_load", "inc_store")
    /\ reg' = [reg EXCEPT ![c] = waiting_chair_count]
    /\ UNCHANGED << waiting_chair_count, barber_chair_mutex, hair_cut_mutex,
                    barber, i, batch, shorn >>

IncStore(c) ==
    /\ Goto(c, "inc_store", "signal")
    /\ waiting_chair_count' = reg[c] + 1
    /\ UNCHANGED << barber_chair_mutex, hair_cut_mutex, barber, reg, i, batch,
                    shorn >>

\* The thread ends here, before, during or after its hair is cut.
SignalAndFreeChair(c) ==
    /\ Goto(c, "signal", "done")
    /\ hair_cut_mutex' = FALSE
    /\ barber_chair_mutex' = Nobody
    /\ UNCHANGED << waiting_chair_count, barber, reg, i, batch, shorn >>

Signal(c) ==
    /\ Goto(c, "signal", "done")
    /\ hair_cut_mutex' = FALSE
    /\ UNCHANGED << waiting_chair_count, barber_chair_mutex, barber, reg, i,
                    batch, shorn >>

-----------------------------------------------------------------------------
BarberWait ==
    /\ barber = "wait"
    /\ hair_cut_mutex = FALSE
    /\ hair_cut_mutex' = TRUE
    /\ barber' = "cut"
    /\ UNCHANGED << waiting_chair_count, barber_chair_mutex, cust, reg, i,
                    batch, shorn >>

BarberForgetsChair ==
    /\ barber = "cut"
    /\ barber' = "wait"
    /\ UNCHANGED << waiting_chair_count, barber_chair_mutex, hair_cut_mutex,
                    cust, reg, i, batch, shorn >>

BarberFinish ==
    /\ barber = "cut"
    /\ barber' = "wait"
    /\ barber_chair_mutex' = Nobody
    /\ shorn' = shorn \cup ({barber_chair_mutex} \ {Nobody})
    /\ UNCHANGED << waiting_chair_count, hair_cut_mutex, cust, reg, i, batch >>

CustomerStep(c) ==
    \/ Check(c) \/ DecLoad(c) \/ DecStore(c) \/ LockChair(c)
    \/ IncLoad(c) \/ IncStore(c) \/ Signal(c)

ShopNext ==
    \/ MainBatch \/ MainCreate
    \/ BarberWait \/ BarberFinish
    \/ \E c \in Customers : CustomerStep(c)

(* Every thread that can run is scheduled.  Weak fairness is enough for the *)
(* chair too: there are finitely many customers, each locks it once, so a   *)
(* waiting customer is overtaken finitely often.                            *)
Fairness ==
    /\ WF_shop_vars(MainCreate)
    /\ WF_shop_vars(BarberWait) /\ WF_shop_vars(BarberFinish)
    /\ \A c \in Customers : WF_shop_vars(CustomerStep(c))

ShopSpec == ShopInit /\ [][ShopNext]_shop_vars
ShopFairSpec == ShopSpec /\ Fairness

-----------------------------------------------------------------------------
(* The barber cuts only somebody's hair (lines 77-78: hair_cut_mutex starts *)
(* locked "otherwise barber will start to haircut some one"): while he cuts *)
(* the chair is taken, by a customer that has sent its signal and has not   *)
(* been served before.                                                      *)
BarberCutsTheSeated ==
    barber = "cut" => /\ barber_chair_mutex # Nobody
                      /\ cust[barber_chair_mutex] = "done"
                      /\ barber_chair_mutex \notin shorn

(* No signal is merged with another: whenever a customer is about to unlock *)
(* hair_cut_mutex (line 59) the mutex is locked and the barber waits on it. *)
SignalNeverMerged ==
    \A c \in Customers :
        cust[c] = "signal" => hair_cut_mutex = TRUE /\ barber = "wait"

(* The races on waiting_chair_count never turn the first NumChairs          *)
(* customers away: whoever leaves at line 64 leaves after at least as many  *)
(* customers as there are chairs have taken one.                            *)
FirstCustomersFindChairs ==
    (\E c \in Customers : cust[c] = "left") =>
        Cardinality({c \in Customers : cust[c] \in BegunAt}) >= NumChairs

(* Whoever took a waiting chair has its hair cut in the end, however the    *)
(* chair and the signal are handed over (lines 55-59, 36-41).               *)
WaitingCustomerIsShorn ==
    \A c \in Customers : cust[c] \in WaitingAt ~> c \in shorn
=============================================================================
