-------------------------- MODULE BarberShopProofs --------------------------
(***************************************************************************)
(* Proofs, for any number of customers and chairs, of the safety           *)
(* properties of BarberShop.                                               *)
(***************************************************************************)
EXTENDS BarberShop, FiniteSetTheorems, TLAPS

Begun == {c \in Customers : cust[c] \in BegunAt}

(* main has created exactly the threads below i and its batch fits.        *)
MainInv ==
    /\ batch <= NumCustomers - i
    /\ \A c \in Customers : c >= i => cust[c] = "unborn"

(* The hand-over, as the barber chair sees it: free; or taken by a customer *)
(* that has not signalled yet; or by one that has, and then either its      *)
(* signal is pending or the barber is at work, never both.                  *)
ChairInv ==
    /\ barber_chair_mutex = Nobody => hair_cut_mutex = TRUE /\ barber = "wait"
    /\ barber_chair_mutex # Nobody =>
          \/ /\ cust[barber_chair_mutex] \in SeatedAt
             /\ hair_cut_mutex = TRUE /\ barber = "wait"
          \/ /\ cust[barber_chair_mutex] = "done"
             /\ hair_cut_mutex = FALSE /\ barber = "wait"
          \/ /\ cust[barber_chair_mutex] = "done"
             /\ hair_cut_mutex = TRUE /\ barber = "cut"
    /\ \A c \in Customers : cust[c] \in SeatedAt => barber_chair_mutex = c
    /\ barber_chair_mutex \notin shorn
    /\ \A c \in shorn : cust[c] = "done"

(* However the updates of waiting_chair_count race, the count and every    *)
(* value read from it stay above NumChairs less the customers that stored  *)
(* a decrement.                                                            *)
CountInv ==
    /\ waiting_chair_count >= NumChairs - Cardinality(Begun)
    /\ \A c \in Customers : cust[c] \in {"dec_store", "inc_store"} =>
          reg[c] >= NumChairs - Cardinality(Begun)
    /\ FirstCustomersFindChairs

IInv == ShopTypeOK /\ MainInv /\ ChairInv /\ CountInv

-----------------------------------------------------------------------------
(* A finite set of customers: Begun has a cardinality.                     *)
LEMMA BegunFinite ==
    /\ IsFiniteSet(Begun)
    /\ Cardinality(Begun) \in Nat
<1>1. IsFiniteSet(Customers)
  BY ShopAssumption, FS_Interval DEF Customers
<1>2. Begun \subseteq Customers
  BY DEF Begun
<1>. QED
  BY <1>1, <1>2, FS_Subset, FS_CardinalityType

(* A step of a customer that is no decrement leaves Begun alone.           *)
LEMMA BegunSame ==
    ASSUME ShopTypeOK,
           \A c \in Customers : (cust'[c] \in BegunAt) <=> (cust[c] \in BegunAt)
    PROVE  Begun' = Begun
BY DEF Begun

(* What FirstCustomersFindChairs says, in terms of Begun.                  *)
LEMMA FoundChairs ==
    FirstCustomersFindChairs <=>
       ((\E c \in Customers : cust[c] = "left") => Cardinality(Begun) >= NumChairs)
BY DEF FirstCustomersFindChairs, Begun

(* The initial state satisfies the inductive invariant.                    *)
LEMMA InitIInv == ShopInit => IInv
<1>. SUFFICES ASSUME ShopInit PROVE IInv
  OBVIOUS
<1>. USE ShopAssumption DEF ShopInit
<1>1. ShopTypeOK
  BY DEF ShopTypeOK, CustAt, MaxBatch
<1>2. MainInv
  BY DEF MainInv
<1>3. ChairInv
  BY DEF ChairInv, SeatedAt
<1>4. CountInv
  <2>1. Cardinality(Begun) \in Nat
    BY BegunFinite
  <2>. QED
    BY <2>1 DEF CountInv, FirstCustomersFindChairs
<1>. QED
  BY <1>1, <1>2, <1>3, <1>4 DEF IInv

(* Every step keeps the types.                                             *)
LEMMA NextTypeOK == IInv /\ [ShopNext]_shop_vars => ShopTypeOK'
<1>. SUFFICES ASSUME IInv, [ShopNext]_shop_vars PROVE ShopTypeOK'
  OBVIOUS
<1>. USE ShopAssumption DEF IInv, ShopTypeOK, Goto, CustAt, BegunAt, SeatedAt, WaitingAt
<1>1. CASE MainBatch
  BY <1>1 DEF MainBatch, MaxBatch, MainInv
<1>2. CASE MainCreate
  BY <1>2 DEF MainCreate, MaxBatch, MainInv, Customers
<1>3. CASE BarberWait
  BY <1>3 DEF BarberWait
<1>4. CASE BarberFinish
  BY <1>4 DEF BarberFinish
<1>5. ASSUME NEW c \in Customers, CustomerStep(c) PROVE ShopTypeOK'
  <2>1. CASE Check(c)      BY <2>1 DEF Check
  <2>2. CASE DecLoad(c)    BY <2>2 DEF DecLoad
  <2>3. CASE DecStore(c)   BY <2>3 DEF DecStore
  <2>4. CASE LockChair(c)  BY <2>4 DEF LockChair
  <2>5. CASE IncLoad(c)    BY <2>5 DEF IncLoad
  <2>6. CASE IncStore(c)   BY <2>6 DEF IncStore
  <2>7. CASE Signal(c)     BY <2>7 DEF Signal
  <2>. QED
    BY <1>5, <2>1, <2>2, <2>3, <2>4, <2>5, <2>6, <2>7 DEF CustomerStep
<1>6. CASE UNCHANGED shop_vars
  BY <1>6 DEF shop_vars
<1>. QED
  BY <1>1, <1>2, <1>3, <1>4, <1>5, <1>6 DEF ShopNext

(* Every step keeps main's loop and the set of created threads in step.    *)
LEMMA NextMainInv == IInv /\ [ShopNext]_shop_vars => MainInv'
<1>. SUFFICES ASSUME IInv, [ShopNext]_shop_vars PROVE MainInv'
  OBVIOUS
<1>. USE ShopAssumption DEF IInv, ShopTypeOK, MainInv, Goto
<1>1. CASE MainBatch
  BY <1>1 DEF MainBatch, MaxBatch
<1>2. CASE MainCreate
  BY <1>2 DEF MainCreate, MaxBatch, Customers
<1>3. CASE BarberWait
  BY <1>3 DEF BarberWait
<1>4. CASE BarberFinish
  BY <1>4 DEF BarberFinish
<1>5. ASSUME NEW c \in Customers, CustomerStep(c) PROVE MainInv'
  <2>1. /\ UNCHANGED << i, batch >>
        /\ cust[c] # "unborn"
        /\ \E to : cust' = [cust EXCEPT ![c] = to]
    BY <1>5 DEF CustomerStep, Check, DecLoad, DecStore, LockChair, IncLoad,
                IncStore, Signal
  <2>. QED
    BY <2>1
<1>6. CASE UNCHANGED shop_vars
  BY <1>6 DEF shop_vars
<1>. QED
  BY <1>1, <1>2, <1>3, <1>4, <1>5, <1>6 DEF ShopNext

(* Every step keeps the hand-over of the chair and of the signal.          *)
LEMMA NextChairInv == IInv /\ [ShopNext]_shop_vars => ChairInv'
<1>. SUFFICES ASSUME IInv, [ShopNext]_shop_vars PROVE ChairInv'
  OBVIOUS
<1>. USE ShopAssumption DEF IInv, ShopTypeOK, ChairInv, Goto, SeatedAt, Nobody, Customers
<1>1. CASE MainBatch
  BY <1>1 DEF MainBatch
<1>2. CASE MainCreate
  BY <1>2 DEF MainCreate, MainInv, MaxBatch
<1>3. CASE BarberWait
  BY <1>3 DEF BarberWait
<1>4. CASE BarberFinish
  BY <1>4 DEF BarberFinish
<1>5. ASSUME NEW c \in Customers, CustomerStep(c) PROVE ChairInv'
  <2>1. CASE Check(c)      BY <2>1 DEF Check
  <2>2. CASE DecLoad(c)    BY <2>2 DEF DecLoad
  <2>3. CASE DecStore(c)   BY <2>3 DEF DecStore
  <2>4. CASE LockChair(c)  BY <2>4 DEF LockChair
  <2>5. CASE IncLoad(c)    BY <2>5 DEF IncLoad
  <2>6. CASE IncStore(c)   BY <2>6 DEF IncStore
  <2>7. CASE Signal(c)     BY <2>7 DEF Signal
  <2>. QED
    BY <1>5, <2>1, <2>2, <2>3, <2>4, <2>5, <2>6, <2>7 DEF CustomerStep
<1>6. CASE UNCHANGED shop_vars
  BY <1>6 DEF shop_vars
<1>. QED
  BY <1>1, <1>2, <1>3, <1>4, <1>5, <1>6 DEF ShopNext

(* Every step keeps the lower bound on the racing count.                   *)
LEMMA NextCountInv == IInv /\ [ShopNext]_shop_vars => CountInv'
<1>. SUFFICES ASSUME IInv, [ShopNext]_shop_vars PROVE CountInv'
  OBVIOUS
<1>. USE ShopAssumption DEF IInv, ShopTypeOK
<1>a. Cardinality(Begun) \in Nat /\ IsFiniteSet(Begun)
  BY BegunFinite
<1>b. (\E d \in Customers : cust[d] = "left") => Cardinality(Begun) >= NumChairs
  BY FoundChairs DEF CountInv
<1>d. ASSUME (\E d \in Customers : cust'[d] = "left") => Cardinality(Begun') >= NumChairs
      PROVE  FirstCustomersFindChairs'
  BY <1>d DEF FirstCustomersFindChairs, Begun
<1>c. ASSUME Begun' = Begun, UNCHANGED << waiting_chair_count, reg >>,
             \A c \in Customers :
                cust'[c] = cust[c] \/ cust'[c] \notin {"dec_store", "inc_store", "left"}
      PROVE  CountInv'
  BY <1>a, <1>c DEF CountInv, FirstCustomersFindChairs, Begun
<1>1. CASE MainBatch
  BY <1>1, <1>c DEF MainBatch, Begun
<1>2. CASE MainCreate
  <2>1. \A c \in Customers :
           cust'[c] = cust[c] \/ (cust[c] = "unborn" /\ cust'[c] = "check")
    BY <1>2 DEF MainCreate, MainInv
  <2>2. Begun' = Begun
    BY <2>1, BegunSame DEF BegunAt, SeatedAt
  <2>. QED
    BY <1>2, <1>c, <2>1, <2>2 DEF MainCreate
<1>3. CASE BarberWait
  BY <1>3, <1>c DEF BarberWait, Begun
<1>4. CASE BarberFinish
  BY <1>4, <1>c DEF BarberFinish, Begun
<1>5. ASSUME NEW c \in Customers, CustomerStep(c) PROVE CountInv'
  <2>1. CASE Check(c)
    <3>1. Begun' = Begun
      BY <2>1, BegunSame DEF Check, Goto, BegunAt, SeatedAt
    <3>2. waiting_chair_count <= 0 => Cardinality(Begun) >= NumChairs
      BY <1>a DEF CountInv
    <3>3. FirstCustomersFindChairs'
      BY <2>1, <3>1, <3>2, <1>b, <1>d DEF Check, Goto
    <3>. QED
      BY <2>1, <3>1, <3>3, <1>a DEF CountInv, Check, Goto
  <2>2. CASE DecLoad(c)
    <3>1. Begun' = Begun
      BY <2>2, BegunSame DEF DecLoad, Goto, BegunAt, SeatedAt
    <3>2. FirstCustomersFindChairs'
      BY <2>2, <3>1, <1>b, <1>d DEF DecLoad, Goto
    <3>. QED
      BY <2>2, <3>1, <3>2, <1>a DEF CountInv, DecLoad, Goto
  <2>3. CASE DecStore(c)
    <3>1. Begun' = Begun \cup {c} /\ c \notin Begun
      BY <2>3 DEF DecStore, Goto, Begun, BegunAt, SeatedAt
    <3>2. Cardinality(Begun') = Cardinality(Begun) + 1
      BY <3>1, <1>a, FS_AddElement
    <3>3. waiting_chair_count' >= NumChairs - Cardinality(Begun')
      BY <2>3, <3>2, <1>a DEF DecStore, Goto, CountInv
    <3>4. \A d \in Customers : cust'[d] \in {"dec_store", "inc_store"} =>
             reg'[d] >= NumChairs - Cardinality(Begun')
      BY <2>3, <3>2, <1>a DEF DecStore, Goto, CountInv
    <3>5. FirstCustomersFindChairs'
      <4>1. (\E d \in Customers : cust'[d] = "left") => \E d \in Customers : cust[d] = "left"
        BY <2>3 DEF DecStore, Goto
      <4>. QED
        BY <4>1, <3>2, <1>a, <1>b, <1>d
    <3>. QED
      BY <3>3, <3>4, <3>5 DEF CountInv
  <2>4. CASE LockChair(c)
    <3>1. Begun' = Begun
      BY <2>4, BegunSame DEF LockChair, Goto, BegunAt, SeatedAt
    <3>. QED
      BY <2>4, <3>1, <1>c DEF LockChair, Goto
  <2>5. CASE IncLoad(c)
    <3>1. Begun' = Begun
      BY <2>5, BegunSame DEF IncLoad, Goto, BegunAt, SeatedAt
    <3>2. FirstCustomersFindChairs'
      BY <2>5, <3>1, <1>b, <1>d DEF IncLoad, Goto
    <3>. QED
      BY <2>5, <3>1, <3>2, <1>a DEF CountInv, IncLoad, Goto
  <2>6. CASE IncStore(c)
    <3>1. Begun' = Begun
      BY <2>6, BegunSame DEF IncStore, Goto, BegunAt, SeatedAt
    <3>2. FirstCustomersFindChairs'
      BY <2>6, <3>1, <1>b, <1>d DEF IncStore, Goto
    <3>. QED
      BY <2>6, <3>1, <3>2, <1>a DEF CountInv, IncStore, Goto
  <2>7. CASE Signal(c)
    <3>1. Begun' = Begun
      BY <2>7, BegunSame DEF Signal, Goto, BegunAt, SeatedAt
    <3>. QED
      BY <2>7, <3>1, <1>c DEF Signal, Goto
  <2>. QED
    BY <1>5, <2>1, <2>2, <2>3, <2>4, <2>5, <2>6, <2>7 DEF CustomerStep
<1>6. CASE UNCHANGED shop_vars
  BY <1>6, <1>c DEF shop_vars, Begun
<1>. QED
  BY <1>1, <1>2, <1>3, <1>4, <1>5, <1>6 DEF ShopNext

-----------------------------------------------------------------------------
(* The inductive invariant holds in every reachable state.                 *)
THEOREM ShopInvariant == ShopSpec => []IInv
<1>1. IInv /\ [ShopNext]_shop_vars => IInv'
  BY NextTypeOK, NextMainInv, NextChairInv, NextCountInv DEF IInv
<1>. QED
  BY InitIInv, <1>1, PTL DEF ShopSpec

(* The state of every thread and mutex stays in its type: in particular    *)
(* main never creates more threads than thread_customers has room for.     *)
THEOREM TypeCorrect == ShopSpec => []ShopTypeOK
<1>1. IInv => ShopTypeOK
  BY DEF IInv
<1>. QED
  BY <1>1, ShopInvariant, PTL

(* For any number of customers and chairs the barber only cuts the hair of *)
(* the customer in his chair, once (barbershop.c lines 36-41, 55-59).      *)
THEOREM BarberCutsTheSeatedThm == ShopSpec => []BarberCutsTheSeated
<1>1. IInv => BarberCutsTheSeated
  BY DEF IInv, ChairInv, BarberCutsTheSeated, Nobody
<1>. QED
  BY <1>1, ShopInvariant, PTL

(* For any number of customers no signal to the barber is merged (line 59). *)
THEOREM SignalNeverMergedThm == ShopSpec => []SignalNeverMerged
<1>1. IInv => SignalNeverMerged
  BY DEF IInv, ChairInv, SignalNeverMerged, SeatedAt, Nobody, Customers
<1>. QED
  BY <1>1, ShopInvariant, PTL

(* Whatever the races on waiting_chair_count (lines 50-56), nobody is      *)
(* turned away before NumChairs customers have taken a chair.              *)
THEOREM FirstCustomersFindChairsThm == ShopSpec => []FirstCustomersFindChairs
<1>1. IInv => FirstCustomersFindChairs
  BY DEF IInv, CountInv
<1>. QED
  BY <1>1, ShopInvariant, PTL
=============================================================================
