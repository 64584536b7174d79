------------------------- MODULE ResourceShareProofs -------------------------
(***************************************************************************)
(* Proofs, for any number of customers and resources, of how far the races *)
(* of ResourceShare can go.                                                *)
(***************************************************************************)
EXTENDS ResourceShare, FiniteSetTheorems, TLAPS

(* main has created exactly the threads below i and its batch fits.        *)
MainInv ==
    /\ batch <= NumCustomers - i
    /\ \A c \in Customers : c >= i => cust[c] = "unborn"

(* A value the count may have: the bounds of CountDrift.                   *)
InDrift(n) ==
    /\ n >= Resources - Cardinality(Begun)
    /\ n <= Resources + Cardinality(Done)

(* The count and every copy of it that is still to be stored are in the    *)
(* bounds, so whichever store comes last the result is in them too.        *)
DriftInv ==
    /\ InDrift(resource_count)
    /\ \A c \in Customers : cust[c] \in {"dec_store", "inc_store"} => InDrift(reg[c])

IInv == TypeOK /\ MainInv /\ DriftInv /\ NoEarlyBlock

-----------------------------------------------------------------------------
(* Begun and Done are finite sets of threads.                              *)
LEMMA Counts ==
    /\ IsFiniteSet(Begun) /\ Cardinality(Begun) \in Nat
    /\ IsFiniteSet(Done)  /\ Cardinality(Done) \in Nat
<1>1. IsFiniteSet(Customers)
  BY ShareAssumption, FS_Interval DEF Customers
<1>2. Begun \subseteq Customers /\ Done \subseteq Customers
  BY DEF Begun, Done
<1>. QED
  BY <1>1, <1>2, FS_Subset, FS_CardinalityType

(* The initial state satisfies the inductive invariant.                    *)
LEMMA InitIInv == Init => IInv
<1>. SUFFICES ASSUME Init PROVE IInv
  OBVIOUS
<1>. USE ShareAssumption DEF Init
<1>1. TypeOK
  <2>1. "unborn" \in CustAt
    BY DEF CustAt
  <2>2. resource_mutex \in BOOLEAN
    OBVIOUS
  <2>3. resource_count \in Int /\ i \in 0 .. NumCustomers /\ batch \in 0 .. MaxBatch
    BY DEF MaxBatch
  <2>. QED
    BY <2>1, <2>2, <2>3 DEF TypeOK
<1>2. MainInv
  BY DEF MainInv
<1>3. DriftInv
  BY Counts DEF DriftInv, InDrift
<1>4. NoEarlyBlock
  BY DEF NoEarlyBlock
<1>. QED
  BY <1>1, <1>2, <1>3, <1>4 DEF IInv

(* Every step keeps the types and main's loop.                             *)
LEMMA NextTypeOK == IInv /\ [Next]_vars => TypeOK' /\ MainInv'
<1>. SUFFICES ASSUME IInv, [Next]_vars PROVE TypeOK' /\ MainInv'
  OBVIOUS
<1>. USE ShareAssumption DEF IInv, TypeOK, MainInv, Goto, CustAt, BegunAt, UsingAt
<1>1. CASE MainBatch
  BY <1>1 DEF MainBatch, MaxBatch
<1>2. CASE MainCreate
  BY <1>2 DEF MainCreate, MaxBatch, Customers
<1>3. CASE HandlerTest
  BY <1>3 DEF HandlerTest
<1>4. CASE HandlerUnlock
  BY <1>4 DEF HandlerUnlock
<1>5. ASSUME NEW c \in Customers, CustomerStep(c) PROVE TypeOK' /\ MainInv'
  <2>1. CASE Check(c)     BY <2>1 DEF Check
  <2>2. CASE DecLoad(c)   BY <2>2 DEF DecLoad
  <2>3. CASE DecStore(c)  BY <2>3 DEF DecStore
  <2>4. CASE IncLoad(c)   BY <2>4 DEF IncLoad
  <2>5. CASE IncStore(c)  BY <2>5 DEF IncStore
  <2>6. CASE Block(c)     BY <2>6 DEF Block
  <2>. QED
    BY <1>5, <2>1, <2>2, <2>3, <2>4, <2>5, <2>6 DEF CustomerStep
<1>6. CASE UNCHANGED vars
  BY <1>6 DEF vars
<1>. QED
  BY <1>1, <1>2, <1>3, <1>4, <1>5, <1>6 DEF Next

(* Every step keeps the count, and the copies of it, within the drift.     *)
LEMMA NextDrift == IInv /\ [Next]_vars => DriftInv' /\ NoEarlyBlock'
<1>. SUFFICES ASSUME IInv, [Next]_vars PROVE DriftInv' /\ NoEarlyBlock'
  OBVIOUS
<1>. USE ShareAssumption DEF IInv, TypeOK
<1>b. ASSUME Begun' = Begun, Done' = Done,
             UNCHANGED << resource_count, reg >>,
             \A c \in Customers :
                cust'[c] = cust[c] \/ cust'[c] \notin {"dec_store", "inc_store", "block"}
      PROVE  DriftInv' /\ NoEarlyBlock'
  BY <1>b DEF DriftInv, InDrift, NoEarlyBlock
<1>1. CASE MainBatch
  BY <1>1, <1>b DEF MainBatch, Begun, Done
<1>2. CASE MainCreate
  <2>1. \A c \in Customers :
           cust'[c] = cust[c] \/ (cust[c] = "unborn" /\ cust'[c] = "check")
    BY <1>2 DEF MainCreate, MainInv
  <2>2. Begun' = Begun /\ Done' = Done
    BY <2>1 DEF Begun, Done, BegunAt, UsingAt
  <2>. QED
    BY <1>2, <1>b, <2>1, <2>2 DEF MainCreate
<1>3. CASE HandlerTest
  BY <1>3, <1>b DEF HandlerTest, Begun, Done
<1>4. CASE HandlerUnlock
  BY <1>4, <1>b DEF HandlerUnlock, Begun, Done
<1>5. ASSUME NEW c \in Customers, CustomerStep(c) PROVE DriftInv' /\ NoEarlyBlock'
  <2>1. CASE Check(c)
    <3>1. Begun' = Begun /\ Done' = Done
      BY <2>1 DEF Check, Goto, Begun, Done, BegunAt, UsingAt
    <3>2. DriftInv'
      BY <2>1, <3>1 DEF Check, Goto, DriftInv, InDrift
    <3>3. resource_count <= 0 => Cardinality(Begun) >= Resources
      BY Counts DEF DriftInv, InDrift
    <3>. QED
      BY <2>1, <3>1, <3>2, <3>3 DEF Check, Goto, NoEarlyBlock
  <2>2. CASE DecLoad(c)
    <3>1. Begun' = Begun /\ Done' = Done
      BY <2>2 DEF DecLoad, Goto, Begun, Done, BegunAt, UsingAt
    <3>. QED
      BY <2>2, <3>1 DEF DecLoad, Goto, DriftInv, InDrift, NoEarlyBlock
  <2>3. CASE DecStore(c)
    <3>1. Begun' = Begun \cup {c} /\ c \notin Begun /\ Done' = Done
      BY <2>3 DEF DecStore, Goto, Begun, Done, BegunAt, UsingAt
    <3>2. Cardinality(Begun') = Cardinality(Begun) + 1
      BY <3>1, Counts, FS_AddElement
    <3>. QED
      BY <2>3, <3>1, <3>2, Counts DEF DecStore, Goto, DriftInv, InDrift, NoEarlyBlock
  <2>4. CASE IncLoad(c)
    <3>1. Begun' = Begun /\ Done' = Done
      BY <2>4 DEF IncLoad, Goto, Begun, Done, BegunAt, UsingAt
    <3>. QED
      BY <2>4, <3>1 DEF IncLoad, Goto, DriftInv, InDrift, NoEarlyBlock
  <2>5. CASE IncStore(c)
    <3>1. Begun' = Begun /\ Done' = Done \cup {c} /\ c \notin Done
      BY <2>5 DEF IncStore, Goto, Begun, Done, BegunAt, UsingAt
    <3>2. Cardinality(Done') = Cardinality(Done) + 1
      BY <3>1, Counts, FS_AddElement
    <3>3. DriftInv'
      <4>1. InDrift(resource_count)'
        BY <2>5, <3>1, <3>2, Counts DEF IncStore, Goto, DriftInv, InDrift
      <4>2. ASSUME NEW d \in Customers, cust'[d] \in {"dec_store", "inc_store"}
            PROVE  InDrift(reg[d])'
        BY <4>2, <2>5, <3>1, <3>2, Counts DEF IncStore, Goto, DriftInv, InDrift
      <4>. QED
        BY <4>1, <4>2 DEF DriftInv
    <3>4. NoEarlyBlock'
      BY <2>5, <3>1 DEF IncStore, Goto, NoEarlyBlock
    <3>. QED
      BY <3>3, <3>4
  <2>6. CASE Block(c)
    <3>1. Begun' = Begun /\ Done' = Done
      BY <2>6 DEF Block, Goto, Begun, Done, BegunAt, UsingAt
    <3>. QED
      BY <2>6, <3>1, <1>b DEF Block, Goto
  <2>. QED
    BY <1>5, <2>1, <2>2, <2>3, <2>4, <2>5, <2>6 DEF CustomerStep
<1>6. CASE UNCHANGED vars
  BY <1>6, <1>b DEF vars, Begun, Done
<1>. QED
  BY <1>1, <1>2, <1>3, <1>4, <1>5, <1>6 DEF Next

-----------------------------------------------------------------------------
(* The inductive invariant holds in every reachable state.                 *)
THEOREM ShareInvariant == Spec => []IInv
<1>1. IInv /\ [Next]_vars => IInv'
  BY NextTypeOK, NextDrift DEF IInv
<1>. QED
  BY InitIInv, <1>1, PTL DEF Spec

(* The types hold; main never creates more threads than it has room for    *)
(* (concurrent5A.c lines 105-113).                                         *)
THEOREM TypeCorrect == Spec => []TypeOK
<1>1. IInv => TypeOK
  BY DEF IInv
<1>. QED
  BY <1>1, ShareInvariant, PTL

(* For any number of customers the racing count of lines 50 and 55 stays   *)
(* between the two extremes of losing every increment and every decrement. *)
THEOREM CountDriftThm == Spec => []CountDrift
<1>1. IInv => CountDrift
  BY DEF IInv, DriftInv, InDrift, CountDrift
<1>. QED
  BY <1>1, ShareInvariant, PTL

(* Nobody blocks (lines 59-62) before every resource has been taken.       *)
THEOREM NoEarlyBlockThm == Spec => []NoEarlyBlock
<1>1. IInv => NoEarlyBlock
  BY DEF IInv
<1>. QED
  BY <1>1, ShareInvariant, PTL
=============================================================================
