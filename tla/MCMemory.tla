------------------------------ MODULE MCMemory ------------------------------
(***************************************************************************)
(* Model-checking instance of the two kernel modules that keep memory for  *)
(* others: a behaviour is one of the allocator, or one of the RAM disk,    *)
(* while the other has not started.  Page frames and threads are model     *)
(* values that the code never compares.                                    *)
(***************************************************************************)
EXTENDS Slob, RamDisk, TLC

MCGeometries == {<< 3, 1 >>, << 9, 1 >>, << 3, 2 >>}
MCShapes     == {<< 0, << 3 >> >>, << 1, << 1, 1 >> >>}

Symmetry == Permutations(Pages) \cup Permutations(Threads)

VARIABLE module_run

all_vars == << module_run, slob_vars, disk_vars >>

MCInit ==
    /\ module_run \in {"slob", "ramdsk"}
    /\ SlobInit /\ DiskInit
    /\ module_run = "slob" => geo = << 3, 1 >> /\ ~asked
    /\ module_run = "ramdsk" => ~best_fit

\* Bound: requests and key writes together.  Three requests with one key write, or
\* a write and a read with the key changed and changed back between them.
Calls == Len(req') + writes' <= 4

MCNext ==
    \/ module_run = "slob" /\ SlobStep /\ UNCHANGED << module_run, disk_vars >>
    \/ module_run = "ramdsk" /\ DiskNext /\ Calls /\ UNCHANGED << module_run, slob_vars >>

MCSpec == MCInit /\ [][MCNext]_all_vars
=============================================================================
