------------------------- MODULE PhilosophersProofs -------------------------
(***************************************************************************)
(* Proofs, for any number of philosophers and forks, that forks are        *)
(* conserved, that the philosophers cannot deadlock over them, and that    *)
(* only a lost flag stops them all.                                        *)
(***************************************************************************)
EXTENDS Philosophers, FiniteSetTheorems, TLAPS

IInv == TypeOK /\ ForksConserved

(* The holders of a kind of fork are finitely many.                        *)
LEMMA HoldersFinite ==
    /\ IsFiniteSet(HoldsLeft)  /\ Cardinality(HoldsLeft) \in Nat
    /\ IsFiniteSet(HoldsRight) /\ Cardinality(HoldsRight) \in Nat
<1>1. IsFiniteSet(Phil)
  BY PhilosophersAssumption, FS_Interval DEF Phil
<1>2. HoldsLeft \subseteq Phil /\ HoldsRight \subseteq Phil
  BY DEF HoldsLeft, HoldsRight
<1>. QED
  BY <1>1, <1>2, FS_Subset, FS_CardinalityType

(* A philosopher that moves without touching a fork changes neither the    *)
(* holders nor what phi_forks should be.                                   *)
LEMMA ForksUntouched ==
    ASSUME IInv, UNCHANGED forks,
           \A p \in Phil : /\ (at'[p] \in HoldsLeftAt)  <=> (at[p] \in HoldsLeftAt)
                           /\ (at'[p] \in HoldsRightAt) <=> (at[p] \in HoldsRightAt)
    PROVE  ForksConserved'
<1>1. HoldsLeft' = HoldsLeft /\ HoldsRight' = HoldsRight
  BY DEF HoldsLeft, HoldsRight
<1>. QED
  BY <1>1 DEF IInv, ForksConserved, forks

(* The initial state satisfies the inductive invariant.                    *)
LEMMA InitIInv == Init => IInv
<1>. SUFFICES ASSUME Init PROVE IInv
  OBVIOUS
<1>. USE PhilosophersAssumption
<1>1. TypeOK
  <2>1. "think" \in At /\ 0 \in Phil
    BY DEF At, Phil
  <2>2. lost \in BOOLEAN /\ phi \in [Phil -> BOOLEAN]
    BY DEF Init
  <2>. QED
    BY <2>1, <2>2 DEF Init, TypeOK
<1>2. HoldsLeft = {} /\ HoldsRight = {}
  BY DEF Init, HoldsLeft, HoldsRight, HoldsLeftAt, HoldsRightAt, CycleAt
<1>3. ForksConserved
  BY <1>2, FS_EmptySet DEF Init, ForksConserved
<1>. QED
  BY <1>1, <1>3 DEF IInv

(* Every step of a philosopher keeps the types.                            *)
LEMMA StepTypeOK == ASSUME IInv, NEW p \in Phil, Step(p) PROVE TypeOK'
<1>. USE PhilosophersAssumption DEF IInv, TypeOK, Goto, SetStatus, forks, cycle,
         At, HoldsLeftAt, HoldsRightAt, CycleAt
<1>0. 0 \in Phil /\ (k[p] # N - 1 => k[p] + 1 \in Phil)
  <2>1. k[p] \in Phil
    OBVIOUS
  <2>2. \A j \in Phil : j # N - 1 => j + 1 \in Phil
    BY DEF Phil
  <2>3. 0 \in Phil
    BY DEF Phil
  <2>. QED
    BY <2>1, <2>2, <2>3
<1>1. CASE Think(p)      BY <1>1 DEF Think
<1>2. CASE TakeTicket(p) BY <1>2 DEF TakeTicket
<1>3. CASE TakeLeft(p)
  <2>1. phi_forks[p] = 0
    BY <1>3 DEF TakeLeft, ForksConserved, HoldsLeft, HoldsRight
  <2>. QED
    BY <1>3, <2>1 DEF TakeLeft
<1>4. CASE TakeRight(p)
  <2>1. phi_forks[p] = 1
    BY <1>4 DEF TakeRight, ForksConserved, HoldsLeft, HoldsRight
  <2>. QED
    BY <1>4, <2>1 DEF TakeRight
<1>5. CASE SetFlag(p)
  <2>1. phi' \in [Phil -> BOOLEAN] /\ k' \in [Phil -> Phil]
    BY <1>5, <1>0 DEF SetFlag
  <2>. QED
    BY <1>5, <2>1 DEF SetFlag
<1>6. CASE TestFlags(p)
  <2>1. k' \in [Phil -> Phil]
    BY <1>6, <1>0 DEF TestFlags
  <2>2. at' \in [Phil -> At]
    BY <1>6 DEF TestFlags
  <2>. QED
    BY <1>6, <2>1, <2>2 DEF TestFlags
<1>7. CASE PostTicket(p) BY <1>7 DEF PostTicket
<1>8. CASE ClearFlag(p)
  <2>1. k' \in [Phil -> Phil]
    BY <1>8, <1>0 DEF ClearFlag
  <2>2. phi' \in [Phil -> BOOLEAN]
    BY <1>8 DEF ClearFlag
  <2>3. lost' \in BOOLEAN
    BY <1>8 DEF ClearFlag, FlagIsNew
  <2>. QED
    BY <1>8, <2>1, <2>2, <2>3 DEF ClearFlag
<1>9. CASE Eat(p)        BY <1>9 DEF Eat
<1>10. CASE EatEnd(p)    BY <1>10 DEF EatEnd
<1>11. CASE PutLeft(p)
  <2>1. phi_forks[p] = 2
    BY <1>11 DEF PutLeft, ForksConserved, HoldsLeft, HoldsRight
  <2>. QED
    BY <1>11, <2>1 DEF PutLeft
<1>12. CASE PutRight(p)
  <2>1. phi_forks[p] = 1
    BY <1>12 DEF PutRight, ForksConserved, HoldsLeft, HoldsRight
  <2>. QED
    BY <1>12, <2>1 DEF PutRight
<1>. QED
  BY <1>1, <1>2, <1>3, <1>4, <1>5, <1>6, <1>7, <1>8, <1>9, <1>10, <1>11, <1>12 DEF Step

(* Every step of a philosopher conserves the forks.                        *)
LEMMA StepForks == ASSUME IInv, NEW p \in Phil, Step(p) PROVE ForksConserved'
<1>. USE PhilosophersAssumption DEF IInv, TypeOK, Goto
<1>1. CASE Think(p) \/ TakeTicket(p) \/ SetFlag(p) \/ TestFlags(p)
           \/ PostTicket(p) \/ ClearFlag(p) \/ Eat(p) \/ EatEnd(p)
  <2>1. UNCHANGED forks
    BY <1>1 DEF Think, TakeTicket, SetFlag, TestFlags, PostTicket, ClearFlag,
                Eat, EatEnd, forks
  <2>2. \A q \in Phil : /\ (at'[q] \in HoldsLeftAt)  <=> (at[q] \in HoldsLeftAt)
                        /\ (at'[q] \in HoldsRightAt) <=> (at[q] \in HoldsRightAt)
    BY <1>1 DEF Think, TakeTicket, SetFlag, TestFlags, PostTicket, ClearFlag,
                Eat, EatEnd, HoldsLeftAt, HoldsRightAt, CycleAt
  <2>. QED
    BY <2>1, <2>2, ForksUntouched
<1>2. CASE TakeLeft(p)
  <2>1. HoldsLeft' = HoldsLeft \cup {p} /\ p \notin HoldsLeft /\ HoldsRight' = HoldsRight
    BY <1>2 DEF TakeLeft, HoldsLeft, HoldsRight, HoldsLeftAt, HoldsRightAt, CycleAt
  <2>2. Cardinality(HoldsLeft') = Cardinality(HoldsLeft) + 1
    BY <2>1, HoldersFinite, FS_AddElement
  <2>3. \A q \in Phil :
           phi_forks'[q] = (IF q \in HoldsLeft' THEN 1 ELSE 0)
                           + (IF q \in HoldsRight' THEN 1 ELSE 0)
    BY <1>2, <2>1 DEF TakeLeft, ForksConserved
  <2>4. /\ sem_left' + Cardinality(HoldsLeft') = LeftForks
        /\ sem_right' + Cardinality(HoldsRight') = RightForks
    BY <1>2, <2>1, <2>2, HoldersFinite DEF TakeLeft, ForksConserved
  <2>. QED
    BY <2>3, <2>4 DEF ForksConserved
<1>3. CASE TakeRight(p)
  <2>1. HoldsRight' = HoldsRight \cup {p} /\ p \notin HoldsRight /\ HoldsLeft' = HoldsLeft
    BY <1>3 DEF TakeRight, HoldsLeft, HoldsRight, HoldsLeftAt, HoldsRightAt, CycleAt
  <2>2. Cardinality(HoldsRight') = Cardinality(HoldsRight) + 1
    BY <2>1, HoldersFinite, FS_AddElement
  <2>3. \A q \in Phil :
           phi_forks'[q] = (IF q \in HoldsLeft' THEN 1 ELSE 0)
                           + (IF q \in HoldsRight' THEN 1 ELSE 0)
    BY <1>3, <2>1 DEF TakeRight, ForksConserved
  <2>4. /\ sem_left' + Cardinality(HoldsLeft') = LeftForks
        /\ sem_right' + Cardinality(HoldsRight') = RightForks
    BY <1>3, <2>1, <2>2, HoldersFinite DEF TakeRight, ForksConserved
  <2>. QED
    BY <2>3, <2>4 DEF ForksConserved
<1>4. CASE PutLeft(p)
  <2>1. HoldsLeft' = HoldsLeft \ {p} /\ p \in HoldsLeft /\ HoldsRight' = HoldsRight
    BY <1>4 DEF PutLeft, HoldsLeft, HoldsRight, HoldsLeftAt, HoldsRightAt, CycleAt
  <2>2. Cardinality(HoldsLeft') = Cardinality(HoldsLeft) - 1
    BY <2>1, HoldersFinite, FS_RemoveElement
  <2>3. \A q \in Phil :
           phi_forks'[q] = (IF q \in HoldsLeft' THEN 1 ELSE 0)
                           + (IF q \in HoldsRight' THEN 1 ELSE 0)
    BY <1>4, <2>1 DEF PutLeft, ForksConserved
  <2>4. /\ sem_left' + Cardinality(HoldsLeft') = LeftForks
        /\ sem_right' + Cardinality(HoldsRight') = RightForks
    BY <1>4, <2>1, <2>2, HoldersFinite DEF PutLeft, ForksConserved
  <2>. QED
    BY <2>3, <2>4 DEF ForksConserved
<1>5. CASE PutRight(p)
  <2>1. HoldsRight' = HoldsRight \ {p} /\ p \in HoldsRight /\ HoldsLeft' = HoldsLeft
    BY <1>5 DEF PutRight, HoldsLeft, HoldsRight, HoldsLeftAt, HoldsRightAt, CycleAt
  <2>2. Cardinality(HoldsRight') = Cardinality(HoldsRight) - 1
    BY <2>1, HoldersFinite, FS_RemoveElement
  <2>3. \A q \in Phil :
           phi_forks'[q] = (IF q \in HoldsLeft' THEN 1 ELSE 0)
                           + (IF q \in HoldsRight' THEN 1 ELSE 0)
    BY <1>5, <2>1 DEF PutRight, ForksConserved
  <2>4. /\ sem_left' + Cardinality(HoldsLeft') = LeftForks
        /\ sem_right' + Cardinality(HoldsRight') = RightForks
    BY <1>5, <2>1, <2>2, HoldersFinite DEF PutRight, ForksConserved
  <2>. QED
    BY <2>3, <2>4 DEF ForksConserved
<1>. QED
  BY <1>1, <1>2, <1>3, <1>4, <1>5 DEF Step

-----------------------------------------------------------------------------
(* The inductive invariant holds in every reachable state.                 *)
THEOREM PhilosophersInvariant == Spec => []IInv
<1>1. IInv /\ [Next]_vars => IInv'
  <2>. SUFFICES ASSUME IInv, [Next]_vars PROVE IInv'
    OBVIOUS
  <2>1. CASE Next
    BY <2>1, StepTypeOK, StepForks DEF Next, IInv
  <2>2. CASE UNCHANGED vars
    BY <2>2 DEF vars, forks, cycle, IInv, TypeOK, ForksConserved, HoldsLeft, HoldsRight
  <2>. QED
    BY <2>1, <2>2
<1>. QED
  BY InitIInv, <1>1, PTL DEF Spec

(* The types hold for any number of philosophers.                          *)
THEOREM TypeCorrect == Spec => []TypeOK
<1>1. IInv => TypeOK
  BY DEF IInv
<1>. QED
  BY <1>1, PhilosophersInvariant, PTL

(* No fork is made or lost, with any number of them (concurrent2.c lines   *)
(* 59-63 and 84-88).                                                       *)
THEOREM ForksConservedThm == Spec => []ForksConserved
<1>1. IInv => ForksConserved
  BY DEF IInv
<1>. QED
  BY <1>1, PhilosophersInvariant, PTL

(* Left first, right second never deadlocks over forks: when no right fork *)
(* is left its holders have both, and when no left one is left but a right *)
(* one is, any holder of a left fork can go on.                            *)
THEOREM NoForkDeadlockThm == Spec => []NoForkDeadlock
<1>1. IInv => NoForkDeadlock
  <2>. SUFFICES ASSUME IInv, NEW p \in Phil,
                       \/ at[p] = "left" /\ sem_left = 0
                       \/ at[p] = "right" /\ sem_right = 0
                PROVE  \E q \in HoldsLeft \cup HoldsRight : at[q] = "right" => sem_right > 0
    BY DEF NoForkDeadlock
  <2>. USE PhilosophersAssumption DEF IInv, TypeOK
  <2>1. CASE sem_right = 0
    <3>1. Cardinality(HoldsRight) # 0
      BY <2>1, HoldersFinite DEF ForksConserved
    <3>2. PICK q \in HoldsRight : TRUE
      BY <3>1, HoldersFinite, FS_EmptySet
    <3>3. at[q] # "right"
      BY <3>2 DEF HoldsRight, HoldsRightAt, CycleAt
    <3>. QED
      BY <3>2, <3>3
  <2>2. CASE sem_right # 0
    <3>1. Cardinality(HoldsLeft) # 0
      BY <2>2, HoldersFinite DEF ForksConserved
    <3>2. PICK q \in HoldsLeft : TRUE
      BY <3>1, HoldersFinite, FS_EmptySet
    <3>. QED
      BY <2>2, <3>2
  <2>. QED
    BY <2>1, <2>2
<1>. QED
  BY <1>1, PhilosophersInvariant, PTL

-----------------------------------------------------------------------------
(* Philosopher q has a ticket, uses one, or has set its flag with it.      *)
Provided(q) == phi[q] \/ sem_phi[q] > 0 \/ at[q] \in {"left", "right", "flag"}

(* Until a flag is lost nobody is without all three; and while all flags   *)
(* are set somebody is still testing them or walks over them, for whoever  *)
(* leaves lines 65-73 has just seen or left a flag that is not set.        *)
CycleInv ==
    /\ lost \/ \A q \in Phil : Provided(q)
    /\ (\A q \in Phil : phi[q]) => \E p \in Phil : at[p] \in CycleAt

(* A philosopher that moves without touching tickets or flags, and neither *)
(* leaves lines 65-73 nor drops the ticket it uses, keeps CycleInv.        *)
LEMMA CycleUntouched ==
    ASSUME CycleInv, UNCHANGED << cycle, lost >>,
           \A q \in Phil : at[q] \in CycleAt => at'[q] \in CycleAt,
           \A q \in Phil : at[q] \in {"left", "right", "flag"}
                            => at'[q] \in {"left", "right", "flag"}
    PROVE  CycleInv'
BY DEF CycleInv, Provided, cycle

(* Every step of a philosopher keeps CycleInv.                             *)
LEMMA StepCycle == ASSUME TypeOK, CycleInv, NEW p \in Phil, Step(p) PROVE CycleInv'
<1>. USE PhilosophersAssumption DEF TypeOK, Goto
<1>1. CASE Think(p) \/ TakeLeft(p) \/ TakeRight(p) \/ Eat(p) \/ EatEnd(p)
           \/ PutLeft(p) \/ PutRight(p)
  <2>1. UNCHANGED << cycle, lost >>
    BY <1>1 DEF Think, TakeLeft, TakeRight, Eat, EatEnd, PutLeft, PutRight
  <2>2. \A q \in Phil : at[q] \in CycleAt => at'[q] \in CycleAt
    BY <1>1 DEF Think, TakeLeft, TakeRight, Eat, EatEnd, PutLeft, PutRight, CycleAt
  <2>3. \A q \in Phil : at[q] \in {"left", "right", "flag"}
                         => at'[q] \in {"left", "right", "flag"}
    BY <1>1 DEF Think, TakeLeft, TakeRight, Eat, EatEnd, PutLeft, PutRight
  <2>. QED
    BY <2>1, <2>2, <2>3, CycleUntouched
<1>2. CASE TakeTicket(p)
  <2>1. at[p] = "ticket" /\ at' = [at EXCEPT ![p] = "left"]
    BY <1>2 DEF TakeTicket
  <2>2. phi' = phi /\ lost' = lost /\ \A q \in Phil \ {p} : sem_phi'[q] = sem_phi[q]
    BY <1>2 DEF TakeTicket
  <2>3. \A q \in Phil : Provided(q) => Provided(q)'
    BY <2>1, <2>2 DEF Provided
  <2>4. \A q \in Phil : at[q] \in CycleAt => at'[q] \in CycleAt
    BY <2>1 DEF CycleAt
  <2>. QED
    BY <2>2, <2>3, <2>4 DEF CycleInv
<1>3. CASE SetFlag(p)
  <2>1. at[p] = "flag" /\ at' = [at EXCEPT ![p] = "test"]
    BY <1>3 DEF SetFlag
  <2>2. sem_phi' = sem_phi /\ lost' = lost /\ phi' = [phi EXCEPT ![p] = TRUE]
    BY <1>3 DEF SetFlag
  <2>3. \A q \in Phil : Provided(q) => Provided(q)'
    BY <2>1, <2>2 DEF Provided
  <2>4. at'[p] \in CycleAt
    BY <2>1 DEF CycleAt
  <2>. QED
    BY <2>2, <2>3, <2>4 DEF CycleInv
<1>4. CASE TestFlags(p)
  <2>1. /\ at[p] = "test" /\ UNCHANGED << sem_phi, phi, lost >>
        /\ \A q \in Phil \ {p} : at'[q] = at[q]
    BY <1>4 DEF TestFlags, cycle
  <2>2. \A q \in Phil : Provided(q) => Provided(q)'
    BY <2>1 DEF Provided
  <2>3. phi[k[p]] => at'[p] \in CycleAt
    BY <1>4 DEF TestFlags, CycleAt
  <2>4. k[p] \in Phil
    OBVIOUS
  <2>5. (\A q \in Phil : phi[q]) => \E q \in Phil : at'[q] \in CycleAt
    BY <2>3, <2>4
  <2>. QED
    BY <2>1, <2>2, <2>5 DEF CycleInv
<1>5. CASE PostTicket(p)
  <2>1. /\ at[p] = "post" /\ at' = [at EXCEPT ![p] = "clear"]
        /\ phi' = phi /\ lost' = lost
    BY <1>5 DEF PostTicket
  <2>2. \A q \in Phil : sem_phi[q] > 0 => sem_phi'[q] > 0
    BY <1>5 DEF PostTicket
  <2>3. \A q \in Phil : Provided(q) => Provided(q)'
    BY <2>1, <2>2 DEF Provided
  <2>4. \A q \in Phil : at[q] \in CycleAt => at'[q] \in CycleAt
    BY <2>1 DEF CycleAt
  <2>. QED
    BY <2>1, <2>3, <2>4 DEF CycleInv
<1>6. CASE ClearFlag(p)
  <2>0. PICK j \in Phil : j = k[p]
    OBVIOUS
  <2>1. /\ at[p] = "clear" /\ sem_phi' = sem_phi
        /\ lost' = (lost \/ FlagIsNew(j))
        /\ phi' = [phi EXCEPT ![j] = FALSE]
    BY <1>6, <2>0 DEF ClearFlag
  <2>2. at'[p] \notin {"left", "right", "flag"} /\ \A q \in Phil \ {p} : at'[q] = at[q]
    BY <1>6 DEF ClearFlag
  <2>3. \A q \in Phil \ {j} : Provided(q) => Provided(q)'
    BY <2>1, <2>2 DEF Provided
  <2>4. Provided(j) /\ ~FlagIsNew(j) => Provided(j)'
    <3>1. sem_phi[j] # 0 => sem_phi[j] > 0
      OBVIOUS
    <3>2. at[j] \in {"left", "right", "flag"} => at'[j] = at[j]
      BY <2>1, <2>2
    <3>. QED
      BY <2>1, <3>1, <3>2 DEF Provided, FlagIsNew
  <2>5. ~ phi'[j]
    BY <2>1
  <2>. QED
    BY <2>1, <2>3, <2>4, <2>5 DEF CycleInv
<1>. QED
  BY <1>1, <1>2, <1>3, <1>4, <1>5, <1>6 DEF Step

(* The tickets and flags stay as CycleInv says.                            *)
THEOREM CycleInvariant == Spec => []CycleInv
<1>1. Init => CycleInv
  <2>. SUFFICES ASSUME Init PROVE CycleInv
    OBVIOUS
  <2>1. \A q \in Phil : sem_phi[q] > 0 /\ ~ phi[q]
    BY DEF Init
  <2>2. 0 \in Phil
    BY PhilosophersAssumption DEF Phil
  <2>. QED
    BY <2>1, <2>2 DEF CycleInv, Provided
<1>2. TypeOK /\ CycleInv /\ [Next]_vars => CycleInv'
  <2>. SUFFICES ASSUME TypeOK, CycleInv, [Next]_vars PROVE CycleInv'
    OBVIOUS
  <2>1. CASE Next
    BY <2>1, StepCycle DEF Next
  <2>2. CASE UNCHANGED vars
    BY <2>2, CycleUntouched DEF vars
  <2>. QED
    BY <2>1, <2>2
<1>. QED
  BY <1>1, <1>2, TypeCorrect, PTL DEF Spec

(* Only a flag cleared anew between lines 70 and 71 stops everybody: with  *)
(* none lost, philosophers without tickets all have their flags set, and   *)
(* then somebody is not waiting for a ticket but about to post them.       *)
THEOREM StuckOnlyAfterLostFlagThm == Spec => []StuckOnlyAfterLostFlag
<1>1. CycleInv => StuckOnlyAfterLostFlag
  <2>. SUFFICES ASSUME CycleInv, \A p \in Phil : at[p] = "ticket" /\ sem_phi[p] = 0
                PROVE  lost
    BY DEF StuckOnlyAfterLostFlag
  <2>1. \A p \in Phil : at[p] \notin CycleAt
    BY DEF CycleAt
  <2>2. \A q \in Phil : Provided(q) => phi[q]
    BY DEF Provided
  <2>. QED
    BY <2>1, <2>2 DEF CycleInv
<1>. QED
  BY <1>1, CycleInvariant, PTL
=============================================================================
