------------------------------ MODULE MCFuzzer ------------------------------
(***************************************************************************)
(* Model-checking instance of the fuzzer's two sides: a behaviour is one   *)
(* of main with its signal handler and the life of its children, or one of *)
(* worker 0 with what it calls, while the other side stands still.         *)
(***************************************************************************)
EXTENDS FuzzerSupervisor, FuzzSandbox

VARIABLE side

all_vars == << side, vars, sandbox_vars >>

MCInit ==
    /\ side \in {"supervisor", "worker"}
    /\ Init /\ SandboxInit
    /\ wid = 0

Supervisor(A) == side = "supervisor" /\ A /\ UNCHANGED << side, sandbox_vars >>
Worker(A)     == side = "worker" /\ A /\ UNCHANGED << side, vars >>

\* The fairness of Spec and of SandboxSpec.
MCSpec ==
    /\ MCInit /\ [][Supervisor(Next) \/ Worker(SandboxNext)]_all_vars
    /\ WF_all_vars(Supervisor(MainStep)) /\ WF_all_vars(Supervisor(Handler))
    /\ \A p \in Pids : WF_all_vars(Supervisor(ChildStep(p)))
    /\ WF_all_vars(Worker(Step))
=============================================================================
