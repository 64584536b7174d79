---------------------------- MODULE ResourceShare ----------------------------
(***************************************************************************)
(* concur/concurrent5/concurrent5A.c: customers share three resources.     *)
(* resource_count is a plain int; "--" and "++" are a load and a store     *)
(* with other threads in between.  A customer that finds no resource locks *)
(* resource_mutex, which nobody but the handler thread ever unlocks: the   *)
(* first such lock succeeds at once (the mutex starts unlocked), later     *)
(* ones wait until the handler has seen all resources back.                *)
(***************************************************************************)
EXTENDS Integers, FiniteSets

CONSTANTS
    NumCustomers,   \* argv[1]
    Resources       \* the literal 3 of lines 36 and 91

ASSUME ShareAssumption == NumCustomers \in Nat /\ Resources \in Nat

Customers == 0 .. (NumCustomers - 1)
MaxBatch  == 4      \* rand() % 5: at most four new customers a second

VARIABLES
    resource_count,
    resource_mutex,     \* TRUE when locked
    handler,            \* "test": reads the count; "unlock": has seen it full
    cust, reg,          \* place and register of each customer thread
    i, batch            \* main: next thread to create, left in this batch

vars == << resource_count, resource_mutex, handler, cust, reg, i, batch >>

\* Between the store of "--" and the store of "++".
UsingAt == {"use", "inc_store"}
\* Has stored its "--".
BegunAt == UsingAt \cup {"done"}
CustAt  == {"unborn", "check", "dec_load", "dec_store", "block"} \cup BegunAt

Begun == {c \in Customers : cust[c] \in BegunAt}
Done  == {c \in Customers : cust[c] = "done"}
Using == {c \in Customers : cust[c] \in UsingAt}

TypeOK ==
    /\ resource_count \in Int
    /\ resource_mutex \in BOOLEAN
    /\ handler \in {"test", "unlock"}
    /\ cust \in [Customers -> CustAt]
    /\ reg \in [Customers -> Int]
    /\ i \in 0 .. NumCustomers
    /\ batch \in 0 .. MaxBatch

Init ==
    /\ resource_count = Resources
    /\ resource_mutex = FALSE
    /\ handler = "test"
    /\ cust = [c \in Customers |-> "unborn"]
    /\ reg = [c \in Customers |-> 0]
    /\ i = 0 /\ batch = 0

-----------------------------------------------------------------------------
\* main: every second a batch of 0..4 customers, cut off at the last one.
MainBatch ==
    /\ batch = 0
    /\ i < NumCustomers
    /\ \E rd_cus \in 0 .. MaxBatch :
          batch' = IF i + rd_cus >= NumCustomers THEN NumCustomers - i ELSE rd_cus
    /\ UNCHANGED << resource_count, resource_mutex, handler, cust, reg, i >>

MainCreate ==
    /\ batch > 0
    /\ cust' = [cust EXCEPT ![i] = "check"]
    /\ i' = i + 1
    /\ batch' = batch - 1
    /\ UNCHANGED << resource_count, resource_mutex, handler, reg >>

-----------------------------------------------------------------------------
\* The handler spins on the count and unlocks on what it has just read.
HandlerTest ==
    /\ handler = "test"
    /\ resource_count = Resources
    /\ handler' = "unlock"
    /\ UNCHANGED << resource_count, resource_mutex, cust, reg, i, batch >>

HandlerUnlockNothing ==
    /\ handler = "unlock"
    /\ handler' = "test"
    /\ UNCHANGED << resource_count, resource_mutex, cust, reg, i, batch >>

HandlerUnlock ==
    /\ handler = "unlock"
    /\ handler' = "test"
    /\ resource_mutex' = FALSE
    /\ UNCHANGED << resource_count, cust, reg, i, batch >>

-----------------------------------------------------------------------------
Goto(c, from, to) ==
    /\ cust[c] = from
    /\ cust' = [cust EXCEPT ![c] = to]

CheckKeepsOneBack(c) ==
    /\ Goto(c, "check", IF resource_count > 1 THEN "dec_load" ELSE "block")
    /\ UNCHANGED << resource_count, resource_mutex, handler, reg, i, batch >>

Check(c) ==
    /\ Goto(c, "check", IF resource_count > 0 THEN "dec_load" ELSE "block")
    /\ UNCHANGED << resource_count, resource_mutex, handler, reg, i, batch >>

DecLoad(c) ==
    /\ Goto(c, "dec_load", "dec_store")
    /\ reg' = [reg EXCEPT ![c] = resource_count]
    /\ UNCHANGED << resource_count, resource_mutex, handler, i, batch >>

DecStore(c) ==
    /\ Goto(c, "dec_store", "use")
    /\ resource_count' = reg[c] - 1
    /\ UNCHANGED << resource_mutex, handler, reg, i, batch >>

\* sleep(rand() % 3) is over; the load of "++".
IncLoad(c) ==
    /\ Goto(c, "use", "inc_store")
    /\ reg' = [reg EXCEPT ![c] = resource_count]
    /\ UNCHANGED << resource_count, resource_mutex, handler, i, batch >>

IncStoreTwice(c) ==
    /\ Goto(c, "inc_store", "done")
    /\ resource_count' = reg[c] + 2
    /\ UNCHANGED << resource_mutex, handler, reg, i, batch >>

IncStore(c) ==
    /\ Goto(c, "inc_store", "done")
    /\ resource_count' = reg[c] + 1
    /\ UNCHANGED << resource_mutex, handler, reg, i, batch >>

\* pthread_mutex_lock, then back to the top of the loop.
Block(c) ==
    /\ resource_mutex = FALSE
    /\ Goto(c, "block", "check")
    /\ resource_mutex' = TRUE
    /\ UNCHANGED << resource_count, handler, reg, i, batch >>

CustomerStep(c) ==
    \/ Check(c) \/ DecLoad(c) \/ DecStore(c)
    \/ IncLoad(c) \/ IncStore(c) \/ Block(c)

Next ==
    \/ MainBatch \/ MainCreate
    \/ HandlerTest \/ HandlerUnlock
    \/ \E c \in Customers : CustomerStep(c)

(* Every thread that can run is scheduled.  Weak fairness is enough for the *)
(* mutex: between two uses of a resource a customer takes it finitely often.*)
Fairness ==
    /\ WF_vars(MainCreate)
    /\ WF_vars(HandlerTest) /\ WF_vars(HandlerUnlock)
    /\ \A c \in Customers : WF_vars(CustomerStep(c))

Spec     == Init /\ [][Next]_vars
FairSpec == Spec /\ Fairness

-----------------------------------------------------------------------------
(* How far the races on resource_count (lines 50, 55) can drive it: never   *)
(* below what it would be if no increment had counted, never above what it  *)
(* would be if no decrement had.                                            *)
CountDrift ==
    /\ resource_count >= Resources - Cardinality(Begun)
    /\ resource_count <= Resources + Cardinality(Done)

(* Nobody is told there is no resource (line 61) before all Resources have  *)
(* been taken at least once, races or not.                                  *)
NoEarlyBlock ==
    (\E c \in Customers : cust[c] = "block") => Cardinality(Begun) >= Resources

(* The handler lets everybody go in the end as long as the count keeps      *)
(* coming back to Resources (line 36): a customer can only stay blocked for *)
(* ever when an update of the count was lost.                               *)
ReleasedWhileCountReturns ==
    ([]<>(resource_count = Resources)) =>
        \A c \in Customers : cust[c] = "block" ~> cust[c] = "done"
=============================================================================
