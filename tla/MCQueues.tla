------------------------------ MODULE MCQueues ------------------------------
(***************************************************************************)
(* Model-checking instance of three small components that serve who waits: *)
(* a behaviour is one of the producer and consumer, one of the barber      *)
(* shop, or one of the I/O scheduler, while the others have not started.   *)
(***************************************************************************)
EXTENDS ProducerConsumer, BarberShop, Sstf

VARIABLE component

all_vars == << component, buffer_vars, shop_vars, vars >>

MCInit ==
    /\ component \in {"buffer", "barber", "sstf"}
    /\ BufferInit /\ ShopInit /\ Init
    /\ component # "buffer" => no_p = 0 /\ no_c = 0
    /\ component # "sstf" => \A r \in Requests : pos[r] = 0

Buffer(A) == component = "buffer" /\ A /\ UNCHANGED << component, shop_vars, vars >>
Barber(A) == component = "barber" /\ A /\ UNCHANGED << component, buffer_vars, vars >>
Disk(A)   == component = "sstf" /\ A /\ UNCHANGED << component, buffer_vars, shop_vars >>

\* The fairness of BufferSpec, ShopFairSpec and FairSpec.
MCSpec ==
    /\ MCInit /\ [][Buffer(BufferNext) \/ Barber(ShopNext) \/ Disk(Next)]_all_vars
    /\ WF_all_vars(Buffer(Producer)) /\ WF_all_vars(Buffer(Consumer))
    /\ WF_all_vars(Barber(MainCreate))
    /\ WF_all_vars(Barber(BarberWait)) /\ WF_all_vars(Barber(BarberFinish))
    /\ \A c \in Customers : WF_all_vars(Barber(CustomerStep(c)))
    /\ WF_all_vars(Disk(Dispatch)) /\ WF_all_vars(Disk(ExitQueue))
=============================================================================
