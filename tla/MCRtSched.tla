----------------------------- MODULE MCRtSched ------------------------------
(* The instance of RtSched that TLC checks.                                *)
EXTENDS RtSched, TLC


\* Round-robin tasks of two priorities, asleep; in two of the cases one task is
\* still to be forked.
MCInitParams ==
    LET Params(f, u) == [p \in Task |-> [policy |-> "RR", rt_priority |-> f[p],
                                         reset |-> f[p] = 2, born |-> p \notin u]]
    IN  {Params(f, {}) : f \in [Task -> 1 .. 2]} \cup
        {Params([p \in Task |-> IF p \in u THEN 1 ELSE 3 - i], u) :
            i \in 1 .. 2, u \in {{p} : p \in Task}}

Symmetry == Permutations(Task)

MCMasks == (SUBSET Cpu) \ {{}}
=============================================================================
