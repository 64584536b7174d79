----------------------- MODULE ProducerConsumerProofs -----------------------
(***************************************************************************)
(* Proofs, for any number of slots and any command line, that the          *)
(* semaphores account for every slot, that no scan fails, that every item  *)
(* is printed at most once, and that unbalanced counts never join.         *)
(***************************************************************************)
EXTENDS ProducerConsumer, FiniteSetTheorems, TLAPS

(* What a thread knows of the slot it is looking for or works on: the      *)
(* other thread can only help it, never take the slot away.                *)
Claims ==
    /\ ppc = "scan" => \E j \in Slots : pi <= j /\ Free(j)
    /\ ppc \in {"seta", "setb"} => Free(pi)
    /\ cpc = "scan" => \E j \in Slots : ci <= j /\ ~Free(j)
    /\ cpc \in {"print", "cleara", "clearb"} => ~Free(ci)

(* A thread inside its loop body has an item left to handle.               *)
InLoop ==
    /\ pcnt <= no_p /\ (ppc # "wait" => pcnt < no_p)
    /\ ccnt <= no_c /\ (cpc # "wait" => ccnt < no_c)

IInv == BufferTypeOK /\ ScanFinds /\ SlotsAccounted /\ Claims /\ InLoop

(* There are finitely many full slots, at most N; when there are fewer,    *)
(* some slot is free, and when there are any, some slot is full.           *)
LEMMA FullFinite ==
    /\ IsFiniteSet(Full) /\ Cardinality(Full) \in 0 .. N
    /\ Cardinality(Full) < N => \E j \in Slots : Free(j)
    /\ Cardinality(Full) > 0 => \E j \in Slots : ~Free(j)
<1>1. IsFiniteSet(Slots) /\ Cardinality(Slots) = N
  BY BufferAssumption, FS_Interval DEF Slots
<1>2. Full \in SUBSET Slots
  BY DEF Full
<1>3. /\ IsFiniteSet(Full) /\ Cardinality(Full) \in 0 .. N
  BY <1>1, <1>2, FS_Subset, FS_CardinalityType, BufferAssumption
<1>4. ASSUME Cardinality(Full) < N PROVE \E j \in Slots : Free(j)
  <2>1. Full # Slots
    BY <1>1, <1>4, <1>3, BufferAssumption
  <2>. QED
    BY <2>1 DEF Full
<1>5. ASSUME Cardinality(Full) > 0 PROVE \E j \in Slots : ~Free(j)
  <2>1. Full # {}
    BY <1>5, FS_EmptySet
  <2>. QED
    BY <2>1 DEF Full
<1>. QED
  BY <1>3, <1>4, <1>5

(* The initial state satisfies the inductive invariant.                    *)
LEMMA InitIInv == BufferInit => IInv
<1>. SUFFICES ASSUME BufferInit PROVE IInv
  OBVIOUS
<1>1. Full = {}
  BY DEF BufferInit, InitWith, Full, Free
<1>2. SlotsAccounted
  BY <1>1, FS_EmptySet, BufferAssumption
     DEF BufferInit, InitWith, SlotsAccounted, PHolds, PFilled, CHolds, CCleared
<1>3. BufferTypeOK
  BY BufferAssumption DEF BufferInit, InitWith, BufferTypeOK
<1>. QED
  BY <1>2, <1>3, BufferAssumption DEF BufferInit, InitWith, IInv, ScanFinds, Claims, InLoop

(* A step that leaves every b alone leaves the full slots alone.           *)
LEMMA SameFull ==
    ASSUME \A i \in Slots : b'[i] = b[i]
    PROVE  Full' = Full /\ \A i \in Slots : Free(i)' <=> Free(i)
BY DEF Full, Free

(* The producer's steps keep the inductive invariant.                      *)
LEMMA ProducerIInv == ASSUME IInv, Producer PROVE IInv'
<1>. USE BufferAssumption DEF IInv, BufferTypeOK, ScanFinds, InLoop
<1>0. 0 \in Slots /\ Cardinality(Full) \in 0 .. N /\ pi \in Slots /\ ci \in Slots
  BY FullFinite DEF Slots
<1>1. CASE PWait
  <2>1. Full' = Full /\ \A i \in Slots : Free(i)' <=> Free(i)
    BY <1>1, SameFull DEF buff, PWait, PStart
  <2>2. SlotsAccounted'
    BY <1>0, <1>1, <2>1
       DEF PWait, PStart, SlotsAccounted, PHolds, PFilled, CHolds, CCleared, consumer
  <2>3. PICK j \in Slots : Free(j)
    BY <1>0, <1>1, FullFinite DEF PWait, PStart, SlotsAccounted, PHolds, CCleared
  <2>4. Claims'
    BY <1>0, <1>1, <2>1, <2>3 DEF PWait, PStart, Claims, consumer, Slots
  <2>. QED
    BY <1>1, <2>2, <2>4 DEF PWait, PStart, args, buff, consumer
<1>2. CASE PScan
  <2>1. Full' = Full /\ \A i \in Slots : Free(i)' <=> Free(i)
    BY <1>2, SameFull DEF buff, PScan
  <2>2. PICK j \in Slots : pi <= j /\ Free(j)
    BY <1>2 DEF PScan, Claims
  <2>3. ~Free(pi) => pi + 1 <= j
    BY <1>0, <2>2 DEF Slots
  <2>4. ~Free(pi) => pi + 1 < N
    BY <2>3 DEF Slots
  <2>5. SlotsAccounted'
    BY <1>0, <1>2, <2>1, <2>4
       DEF PScan, SlotsAccounted, PHolds, PFilled, CHolds, CCleared, consumer
  <2>6. Claims'
    BY <1>0, <1>2, <2>1, <2>2, <2>3, <2>4 DEF PScan, Claims, consumer
  <2>. QED
    BY <1>2, <2>4, <2>5, <2>6 DEF PScan, args, buff, consumer
<1>3. CASE ppc = "seta" /\ SetA("setb")
  <2>1. Full' = Full /\ \A i \in Slots : Free(i)' <=> Free(i)
    BY <1>0, <1>3, SameFull DEF buff, SetA
  <2>2. SlotsAccounted'
    BY <1>0, <1>3, <2>1
       DEF SetA, SlotsAccounted, PHolds, PFilled, CHolds, CCleared, consumer
  <2>3. Claims'
    BY <1>0, <1>3, <2>1 DEF SetA, Claims, consumer
  <2>. QED
    BY <1>0, <1>3, <2>2, <2>3 DEF SetA, args, buff, consumer
<1>4. CASE ppc = "setb" /\ SetB("post")
  <2>1. PICK d \in Delays : b' = [b EXCEPT ![pi] = d]
    BY <1>4 DEF SetB
  <2>2. Free(pi) /\ ~Free(pi)' /\ \A i \in Slots \ {pi} : Free(i)' <=> Free(i)
    BY <1>0, <1>4, <2>1 DEF SetB, Claims, Free
  <2>3. Full' = Full \cup {pi} /\ pi \notin Full
    BY <1>0, <2>2, <1>4 DEF SetB, Full
  <2>4. Cardinality(Full') = Cardinality(Full) + 1
    BY <2>3, FullFinite, FS_AddElement
  <2>5. SlotsAccounted'
    BY <1>0, <1>4, <2>4
       DEF SetB, SlotsAccounted, PHolds, PFilled, CHolds, CCleared, consumer
  <2>6. Claims'
    BY <1>0, <1>4, <2>2 DEF SetB, Claims, consumer
  <2>7. b' \in [Slots -> Delays \cup {0}]
    BY <1>0, <2>1
  <2>. QED
    BY <1>4, <2>5, <2>6, <2>7 DEF SetB, args, buff, consumer
<1>5. CASE PPost
  <2>1. Full' = Full /\ \A i \in Slots : Free(i)' <=> Free(i)
    BY <1>5, SameFull DEF buff, PPost, PEnd
  <2>2. SlotsAccounted'
    BY <1>0, <1>5, <2>1
       DEF PPost, PEnd, SlotsAccounted, PHolds, PFilled, CHolds, CCleared, consumer
  <2>3. Claims'
    BY <1>0, <1>5, <2>1 DEF PPost, PEnd, Claims, consumer
  <2>4. sem_c + 1 \in 0 .. N
    BY <1>0, <1>5 DEF PPost, PEnd, SlotsAccounted, PHolds, PFilled, CHolds, CCleared
  <2>. QED
    BY <1>5, <2>2, <2>3, <2>4 DEF PPost, PEnd, args, buff, consumer
<1>. QED
  BY <1>1, <1>2, <1>3, <1>4, <1>5 DEF Producer, PFill

(* The consumer's steps keep the inductive invariant.                      *)
LEMMA ConsumerIInv == ASSUME IInv, Consumer PROVE IInv'
<1>. USE BufferAssumption DEF IInv, BufferTypeOK, ScanFinds, InLoop
<1>0. 0 \in Slots /\ Cardinality(Full) \in 0 .. N /\ pi \in Slots /\ ci \in Slots
  BY FullFinite DEF Slots
<1>1. CASE CWait
  <2>1. Full' = Full /\ \A i \in Slots : Free(i)' <=> Free(i)
    BY <1>1, SameFull DEF buff, CWait
  <2>2. SlotsAccounted'
    BY <1>0, <1>1, <2>1
       DEF CWait, SlotsAccounted, PHolds, PFilled, CHolds, CCleared, producer
  <2>3. PICK j \in Slots : ~Free(j)
    BY <1>0, <1>1, FullFinite DEF CWait, SlotsAccounted, CHolds, PFilled
  <2>4. Claims'
    BY <1>0, <1>1, <2>1, <2>3 DEF CWait, Claims, producer, Slots
  <2>. QED
    BY <1>1, <2>2, <2>4 DEF CWait, args, buff, producer
<1>2. CASE CScan
  <2>1. Full' = Full /\ \A i \in Slots : Free(i)' <=> Free(i)
    BY <1>2, SameFull DEF buff, CScan
  <2>2. PICK j \in Slots : ci <= j /\ ~Free(j)
    BY <1>2 DEF CScan, Claims
  <2>3. Free(ci) => ci + 1 <= j
    BY <1>0, <2>2 DEF Slots
  <2>4. Free(ci) => ci + 1 < N
    BY <2>3 DEF Slots
  <2>5. SlotsAccounted'
    BY <1>0, <1>2, <2>1, <2>4
       DEF CScan, SlotsAccounted, PHolds, PFilled, CHolds, CCleared, producer
  <2>6. Claims'
    BY <1>0, <1>2, <2>1, <2>2, <2>3, <2>4 DEF CScan, Claims, producer
  <2>. QED
    BY <1>2, <2>4, <2>5, <2>6 DEF CScan, args, buff, producer
<1>3. CASE CPrint
  <2>1. Full' = Full /\ \A i \in Slots : Free(i)' <=> Free(i)
    BY <1>3, SameFull DEF buff, CPrint
  <2>2. SlotsAccounted'
    BY <1>0, <1>3, <2>1
       DEF CPrint, SlotsAccounted, PHolds, PFilled, CHolds, CCleared, producer
  <2>3. Claims'
    BY <1>0, <1>3, <2>1 DEF CPrint, Claims, producer
  <2>4. printed' \in Seq(Nat)
    BY <1>0, <1>3 DEF CPrint
  <2>. QED
    BY <1>3, <2>2, <2>3, <2>4 DEF CPrint, args, buff, producer
<1>4. CASE CClearA
  <2>1. Full' = Full /\ \A i \in Slots : Free(i)' <=> Free(i)
    BY <1>0, <1>4, SameFull DEF buff, CClearA
  <2>2. SlotsAccounted'
    BY <1>0, <1>4, <2>1
       DEF CClearA, SlotsAccounted, PHolds, PFilled, CHolds, CCleared, producer
  <2>3. Claims'
    BY <1>0, <1>4, <2>1 DEF CClearA, Claims, producer
  <2>. QED
    BY <1>0, <1>4, <2>2, <2>3 DEF CClearA, args, buff, producer
<1>5. CASE CClearB
  <2>1. ~Free(ci) /\ Free(ci)' /\ \A i \in Slots \ {ci} : Free(i)' <=> Free(i)
    BY <1>0, <1>5 DEF CClearB, Claims, Free
  <2>2. Full' = Full \ {ci} /\ ci \in Full
    BY <1>0, <2>1, <1>5 DEF CClearB, Full
  <2>3. Cardinality(Full') = Cardinality(Full) - 1
    BY <2>2, FullFinite, FS_RemoveElement
  <2>4. SlotsAccounted'
    BY <1>0, <1>5, <2>3
       DEF CClearB, SlotsAccounted, PHolds, PFilled, CHolds, CCleared, producer
  <2>5. Claims'
    BY <1>0, <1>5, <2>1 DEF CClearB, Claims, producer
  <2>. QED
    BY <1>0, <1>5, <2>4, <2>5 DEF CClearB, args, buff, producer
<1>6. CASE CPost
  <2>1. Full' = Full /\ \A i \in Slots : Free(i)' <=> Free(i)
    BY <1>6, SameFull DEF buff, CPost, CEnd
  <2>2. SlotsAccounted'
    BY <1>0, <1>6, <2>1
       DEF CPost, CEnd, SlotsAccounted, PHolds, PFilled, CHolds, CCleared, producer
  <2>3. Claims'
    BY <1>0, <1>6, <2>1 DEF CPost, CEnd, Claims, producer
  <2>4. sem_p + 1 \in 0 .. N
    BY <1>0, <1>6 DEF CPost, CEnd, SlotsAccounted, PHolds, PFilled, CHolds, CCleared
  <2>. QED
    BY <1>6, <2>2, <2>3, <2>4 DEF CPost, CEnd, args, buff, producer
<1>. QED
  BY <1>1, <1>2, <1>3, <1>4, <1>5, <1>6 DEF Consumer

(* IInv is an invariant of producers() and consumers() run together.       *)
THEOREM BufferInvariant == BufferSpec => []IInv
<1>1. IInv /\ [BufferNext]_buffer_vars => IInv'
  <2>. SUFFICES ASSUME IInv, [BufferNext]_buffer_vars PROVE IInv'
    OBVIOUS
  <2>1. CASE BufferNext
    BY <2>1, ProducerIInv, ConsumerIInv DEF BufferNext
  <2>2. CASE UNCHANGED buffer_vars
    <3>1. Full' = Full /\ \A i \in Slots : Free(i)' <=> Free(i)
      BY <2>2, SameFull DEF buff, buffer_vars
    <3>2. pi \in Slots /\ ci \in Slots
      BY BufferAssumption DEF IInv, BufferTypeOK, ScanFinds, Slots
    <3>3. SlotsAccounted' /\ Claims'
      BY <2>2, <3>1, <3>2 DEF buffer_vars, producer, consumer, IInv, SlotsAccounted, Claims,
         PHolds, PFilled, CHolds, CCleared
    <3>. QED
      BY <2>2, <3>3 DEF buffer_vars, args, buff, producer, consumer, IInv, BufferTypeOK, ScanFinds, InLoop
  <2>. QED
    BY <2>1, <2>2
<1>. QED
  BY <1>1, InitIInv, PTL DEF BufferSpec

(* The variables keep their types; no semaphore ever exceeds N.            *)
THEOREM TypeCorrect == BufferSpec => []BufferTypeOK
BY BufferInvariant, PTL DEF IInv

(* sem_c and sem_p count the items and the spaces, whatever the two        *)
(* threads are in the middle of.                                           *)
THEOREM SlotsAccountedThm == BufferSpec => []SlotsAccounted
BY BufferInvariant, PTL DEF IInv

(* A thread that passed its semaphore finds its slot.                      *)
THEOREM ScanFindsThm == BufferSpec => []ScanFinds
BY BufferInvariant, PTL DEF IInv

-----------------------------------------------------------------------------
(* Items the producer has put into the buffer, and those taken out of it.  *)
Made  == pcnt + PFilled
Taken == ccnt + CCleared

(* What is in a full slot has not been printed yet, except while the       *)
(* consumer clears it.                                                     *)
Unprinted(s) == ~Free(s) /\ ~(cpc \in {"cleara", "clearb"} /\ ci = s)

Fresh(n) == \A i \in 1 .. Len(printed) : printed[i] # n

(* Every number made is in at most one place: printed, or in one slot.     *)
(* The item of a slot still being filled has the next number.              *)
ItemsInv ==
    /\ \A i, j \in 1 .. Len(printed) : printed[i] = printed[j] => i = j
    /\ \A i \in 1 .. Len(printed) : printed[i] \in 1 .. Made
    /\ \A s \in Slots : Unprinted(s) => a[s] \in 1 .. Made /\ Fresh(a[s])
    /\ \A s, t \in Slots : Unprinted(s) /\ Unprinted(t) /\ a[s] = a[t] => s = t
    /\ ppc = "setb" => a[pi] = pcnt + 1
    /\ Cardinality(Full) = Made - Taken

(* The initial state has no item anywhere.                                 *)
LEMMA InitItems == BufferInit => ItemsInv
<1>. SUFFICES ASSUME BufferInit PROVE ItemsInv
  OBVIOUS
<1>1. Full = {} /\ Len(printed) = 0
  BY DEF BufferInit, InitWith, Full, Free
<1>2. Cardinality(Full) = Made - Taken
  BY <1>1, FS_EmptySet DEF BufferInit, InitWith, Made, Taken, PFilled, CCleared
<1>. QED
  BY <1>1, <1>2 DEF BufferInit, InitWith, ItemsInv, Unprinted, Free, Fresh, Full

(* The producer numbers items in order and fills free slots only.          *)
LEMMA ProducerItems == ASSUME IInv, ItemsInv, Producer PROVE ItemsInv'
<1>. USE BufferAssumption DEF IInv, BufferTypeOK, ScanFinds, InLoop
<1>0. Cardinality(Full) \in 0 .. N /\ pi \in Slots /\ ci \in Slots
  BY FullFinite DEF Slots
<1>1. CASE PWait
  <2>1. Full' = Full /\ \A i \in Slots : Free(i)' <=> Free(i)
    BY <1>1, SameFull DEF buff, PWait, PStart
  <2>2. UNCHANGED << Made, Taken, a, printed, cpc, ci >> /\ ppc' # "setb"
    BY <1>1 DEF PWait, PStart, Made, Taken, PFilled, CCleared, buff, consumer
  <2>. QED
    BY <2>1, <2>2 DEF ItemsInv, Unprinted, Fresh
<1>2. CASE PScan
  <2>1. Full' = Full /\ \A i \in Slots : Free(i)' <=> Free(i)
    BY <1>2, SameFull DEF buff, PScan
  <2>2. PICK j \in Slots : pi <= j /\ Free(j)
    BY <1>2 DEF PScan, Claims
  <2>3. ~Free(pi) => pi + 1 < N
    BY <1>0, <2>2 DEF Slots
  <2>4. UNCHANGED << Made, Taken, a, printed, cpc, ci >> /\ ppc' # "setb"
    BY <1>2, <2>3 DEF PScan, Made, Taken, PFilled, CCleared, buff, consumer
  <2>. QED
    BY <2>1, <2>4 DEF ItemsInv, Unprinted, Fresh
<1>3. CASE ppc = "seta" /\ SetA("setb")
  <2>1. Full' = Full /\ \A i \in Slots : Free(i)' <=> Free(i)
    BY <1>0, <1>3, SameFull DEF buff, SetA
  <2>2. UNCHANGED << Made, Taken, printed, cpc, ci, pi, pcnt >>
    BY <1>3 DEF SetA, Made, Taken, PFilled, CCleared, consumer
  <2>3. Free(pi) /\ a'[pi] = pcnt + 1 /\ \A s \in Slots \ {pi} : a'[s] = a[s]
    BY <1>0, <1>3 DEF SetA, Claims
  <2>4. \A s \in Slots : Unprinted(s)' => Unprinted(s) /\ a'[s] = a[s]
    BY <2>1, <2>2, <2>3 DEF Unprinted
  <2>. QED
    BY <2>1, <2>2, <2>3, <2>4 DEF ItemsInv, Fresh
<1>4. CASE ppc = "setb" /\ SetB("post")
  <2>1. PICK d \in Delays : b' = [b EXCEPT ![pi] = d]
    BY <1>4 DEF SetB
  <2>2. Free(pi) /\ ~Free(pi)' /\ \A s \in Slots \ {pi} : Free(s)' <=> Free(s)
    BY <1>0, <1>4, <2>1 DEF SetB, Claims, Free
  <2>3. Full' = Full \cup {pi} /\ pi \notin Full
    BY <1>0, <2>2, <1>4 DEF SetB, Full
  <2>4. Cardinality(Full') = Cardinality(Full) + 1
    BY <2>3, FullFinite, FS_AddElement
  <2>5. UNCHANGED << Taken, a, printed, cpc, ci, pi >> /\ ppc' = "post"
    BY <1>4 DEF SetB, Taken, CCleared, consumer
  <2>6. Made = pcnt /\ Made' = Made + 1 /\ a[pi] = Made + 1 /\ Made \in Nat
    BY <1>4 DEF SetB, Made, PFilled, ItemsInv
  <2>7. \A s \in Slots \ {pi} : Unprinted(s)' <=> Unprinted(s)
    BY <2>2, <2>5 DEF Unprinted
  <2>8. \A s \in Slots : Unprinted(s)' => a[s] \in 1 .. Made' /\ Fresh(a[s])
    <3>1. Fresh(a[pi])
      BY <2>6 DEF ItemsInv, Fresh
    <3>. QED
      BY <3>1, <2>6, <2>7 DEF ItemsInv
  <2>9. \A s, t \in Slots : Unprinted(s)' /\ Unprinted(t)' /\ a[s] = a[t] => s = t
    BY <2>6, <2>7 DEF ItemsInv
  <2>10. Cardinality(Full') = Made' - Taken'
    <3>1. Taken \in Nat
      BY DEF Taken, CCleared
    <3>. QED
      BY <3>1, <2>4, <2>5, <2>6 DEF ItemsInv
  <2>11. \A i \in 1 .. Len(printed) : printed[i] \in 1 .. Made'
    BY <2>6 DEF ItemsInv
  <2>. QED
    BY <2>5, <2>8, <2>9, <2>10, <2>11 DEF ItemsInv, Fresh
<1>5. CASE PPost
  <2>1. Full' = Full /\ \A i \in Slots : Free(i)' <=> Free(i)
    BY <1>5, SameFull DEF buff, PPost, PEnd
  <2>2. UNCHANGED << Made, Taken, a, printed, cpc, ci >> /\ ppc' # "setb"
    BY <1>5 DEF PPost, PEnd, Made, Taken, PFilled, CCleared, buff, consumer
  <2>. QED
    BY <2>1, <2>2 DEF ItemsInv, Unprinted, Fresh
<1>. QED
  BY <1>1, <1>2, <1>3, <1>4, <1>5 DEF Producer, PFill

(* The consumer moves one item from its slot to what is printed.           *)
LEMMA ConsumerItems == ASSUME IInv, ItemsInv, Consumer PROVE ItemsInv'
<1>. USE BufferAssumption DEF IInv, BufferTypeOK, ScanFinds, InLoop
<1>0. Cardinality(Full) \in 0 .. N /\ pi \in Slots /\ ci \in Slots
  BY FullFinite DEF Slots
<1>1. CASE CWait
  <2>1. Full' = Full /\ \A i \in Slots : Free(i)' <=> Free(i)
    BY <1>1, SameFull DEF buff, CWait
  <2>2. /\ UNCHANGED << Made, Taken, a, printed, ppc, pi, pcnt >>
        /\ cpc \notin {"cleara", "clearb"} /\ cpc' \notin {"cleara", "clearb"}
    BY <1>1 DEF CWait, Made, Taken, PFilled, CCleared, buff, producer
  <2>. QED
    BY <2>1, <2>2 DEF ItemsInv, Unprinted, Fresh
<1>2. CASE CScan
  <2>1. Full' = Full /\ \A i \in Slots : Free(i)' <=> Free(i)
    BY <1>2, SameFull DEF buff, CScan
  <2>2. PICK j \in Slots : ci <= j /\ ~Free(j)
    BY <1>2 DEF CScan, Claims
  <2>3. Free(ci) => ci + 1 < N
    BY <1>0, <2>2 DEF Slots
  <2>4. /\ UNCHANGED << Made, Taken, a, printed, ppc, pi, pcnt >>
        /\ cpc \notin {"cleara", "clearb"} /\ cpc' \notin {"cleara", "clearb"}
    BY <1>2, <2>3 DEF CScan, Made, Taken, PFilled, CCleared, buff, producer
  <2>. QED
    BY <2>1, <2>4 DEF ItemsInv, Unprinted, Fresh
<1>3. CASE CPrint
  <2>1. Full' = Full /\ \A i \in Slots : Free(i)' <=> Free(i)
    BY <1>3, SameFull DEF buff, CPrint
  <2>2. /\ UNCHANGED << Made, Taken, a, ppc, pi, pcnt, ci >>
        /\ cpc = "print" /\ cpc' = "cleara" /\ printed' = Append(printed, a[ci])
    BY <1>3 DEF CPrint, Made, Taken, PFilled, CCleared, buff, producer
  <2>3. Unprinted(ci)
    BY <2>2 DEF Claims, Unprinted
  <2>4. \A s \in Slots : Unprinted(s)' => Unprinted(s) /\ s # ci
    BY <2>1, <2>2 DEF Unprinted
  <2>5. /\ Len(printed') = Len(printed) + 1 /\ Len(printed) \in Nat
        /\ printed'[Len(printed) + 1] = a[ci]
        /\ \A i \in 1 .. Len(printed) : printed'[i] = printed[i]
    BY <1>0, <2>2
  <2>6. a[ci] \in 1 .. Made /\ Fresh(a[ci])
    BY <1>0, <2>3 DEF ItemsInv
  <2>7. \A i \in 1 .. Len(printed') : i # Len(printed) + 1 => i \in 1 .. Len(printed)
    BY <2>5
  <2>8. \A i, j \in 1 .. Len(printed') : printed'[i] = printed'[j] => i = j
    BY <2>5, <2>6, <2>7 DEF ItemsInv, Fresh
  <2>9. \A i \in 1 .. Len(printed') : printed'[i] \in 1 .. Made
    BY <2>5, <2>6, <2>7 DEF ItemsInv
  <2>10. ASSUME NEW s \in Slots, Unprinted(s)'
         PROVE  a[s] \in 1 .. Made /\ Fresh(a[s])'
    <3>1. Unprinted(s) /\ s # ci
      BY <2>4, <2>10
    <3>2. a[s] \in 1 .. Made /\ Fresh(a[s]) /\ a[s] # a[ci]
      BY <1>0, <3>1, <2>3 DEF ItemsInv
    <3>. QED
      BY <3>2, <2>2, <2>5, <2>7 DEF Fresh
  <2>11. \A s, t \in Slots : Unprinted(s)' /\ Unprinted(t)' /\ a[s] = a[t] => s = t
    BY <2>4 DEF ItemsInv
  <2>. QED
    BY <2>1, <2>2, <2>8, <2>9, <2>10, <2>11 DEF ItemsInv
<1>4. CASE CClearA
  <2>1. Full' = Full /\ \A i \in Slots : Free(i)' <=> Free(i)
    BY <1>0, <1>4, SameFull DEF buff, CClearA
  <2>2. /\ UNCHANGED << Made, Taken, printed, ppc, pi, pcnt, ci >>
        /\ cpc = "cleara" /\ cpc' = "clearb"
    BY <1>4 DEF CClearA, Made, Taken, PFilled, CCleared, producer
  <2>3. ~Free(ci) /\ \A s \in Slots \ {ci} : a'[s] = a[s]
    BY <1>0, <1>4 DEF CClearA, Claims
  <2>4. \A s \in Slots : Unprinted(s)' => Unprinted(s) /\ a'[s] = a[s]
    BY <2>1, <2>2, <2>3 DEF Unprinted
  <2>5. ppc = "setb" => pi # ci
    BY <2>3 DEF Claims
  <2>. QED
    BY <1>0, <2>1, <2>2, <2>3, <2>4, <2>5 DEF ItemsInv, Fresh
<1>5. CASE CClearB
  <2>1. ~Free(ci) /\ Free(ci)' /\ \A i \in Slots \ {ci} : Free(i)' <=> Free(i)
    BY <1>0, <1>5 DEF CClearB, Claims, Free
  <2>2. Full' = Full \ {ci} /\ ci \in Full
    BY <1>0, <2>1, <1>5 DEF CClearB, Full
  <2>3. Cardinality(Full') = Cardinality(Full) - 1
    BY <2>2, FullFinite, FS_RemoveElement
  <2>4. /\ UNCHANGED << Made, a, printed, ppc, pi, pcnt, ci >>
        /\ cpc = "clearb" /\ cpc' = "post" /\ Taken' = Taken + 1
        /\ Taken \in Nat /\ Made \in Nat
    BY <1>5 DEF CClearB, Made, Taken, PFilled, CCleared, producer
  <2>5. \A s \in Slots : Unprinted(s)' => Unprinted(s)
    BY <2>1, <2>4 DEF Unprinted
  <2>6. Cardinality(Full') = Made' - Taken'
    BY <2>3, <2>4 DEF ItemsInv
  <2>. QED
    BY <2>4, <2>5, <2>6 DEF ItemsInv, Fresh
<1>6. CASE CPost
  <2>1. Full' = Full /\ \A i \in Slots : Free(i)' <=> Free(i)
    BY <1>6, SameFull DEF buff, CPost, CEnd
  <2>2. /\ UNCHANGED << Made, Taken, a, printed, ppc, pi, pcnt >>
        /\ cpc \notin {"cleara", "clearb"} /\ cpc' \notin {"cleara", "clearb"}
    BY <1>6 DEF CPost, CEnd, Made, Taken, PFilled, CCleared, buff, producer
  <2>. QED
    BY <2>1, <2>2 DEF ItemsInv, Unprinted, Fresh
<1>. QED
  BY <1>1, <1>2, <1>3, <1>4, <1>5, <1>6 DEF Consumer

(* ItemsInv holds in every state of the two threads run together.          *)
THEOREM ItemsInvariant == BufferSpec => []ItemsInv
<1>1. IInv /\ ItemsInv /\ [BufferNext]_buffer_vars => ItemsInv'
  <2>. SUFFICES ASSUME IInv, ItemsInv, [BufferNext]_buffer_vars PROVE ItemsInv'
    OBVIOUS
  <2>1. CASE BufferNext
    BY <2>1, ProducerItems, ConsumerItems DEF BufferNext
  <2>2. CASE UNCHANGED buffer_vars
    <3>1. Full' = Full /\ \A i \in Slots : Free(i)' <=> Free(i)
      BY <2>2, SameFull DEF buff, buffer_vars
    <3>2. UNCHANGED << Made, Taken, a, printed, ppc, pi, pcnt, cpc, ci >>
      BY <2>2 DEF buffer_vars, buff, producer, consumer, Made, Taken, PFilled, CCleared
    <3>. QED
      BY <3>1, <3>2 DEF ItemsInv, Unprinted, Fresh
  <2>. QED
    BY <2>1, <2>2
<1>. QED
  BY <1>1, BufferInvariant, InitItems, PTL DEF BufferSpec

(* The consumer prints real items, each at most once, though it may take   *)
(* an item before the producer has posted it.                              *)
THEOREM EachItemOnceThm == BufferSpec => []EachItemOnce
<1>1. IInv /\ ItemsInv => EachItemOnce
  <2>. SUFFICES ASSUME IInv, ItemsInv PROVE EachItemOnce
    OBVIOUS
  <2>1. Made \in 0 .. no_p
    BY DEF IInv, BufferTypeOK, InLoop, Made, PFilled
  <2>. QED
    BY <2>1 DEF IInv, BufferTypeOK, ItemsInv, EachItemOnce
<1>. QED
  BY <1>1, BufferInvariant, ItemsInvariant, PTL

(* The safety half of JoinsIffBalanced: with counts that do not fit each   *)
(* other main (lines 168-169) never has both threads to join, for what is  *)
(* left in the buffer then is exactly the difference of the two counts.    *)
THEOREM UnbalancedNeverJoins == BufferSpec => [](~Balanced => ~Joined)
<1>1. IInv /\ ItemsInv => (~Balanced => ~Joined)
  <2>. SUFFICES ASSUME IInv, ItemsInv, Joined PROVE Balanced
    OBVIOUS
  <2>1. Cardinality(Full) = no_p - no_c
    BY DEF IInv, BufferTypeOK, ItemsInv, Joined, Made, Taken, PFilled, CCleared
  <2>. QED
    BY <2>1, FullFinite, BufferAssumption DEF IInv, BufferTypeOK, Balanced
<1>. QED
  BY <1>1, BufferInvariant, ItemsInvariant, PTL
=============================================================================
