-------------------------- MODULE FuzzerSupervisor --------------------------
(***************************************************************************)
(* The process supervision of 544final/fuzzer_final/Fuzzy_v_0.5/fuzzer.c.  *)
(* The main process forks the workers and a watchdog, keeps a table of the *)
(* workers, and forks again each worker its SIGCHLD handler has flagged.   *)
(* The handler may run between any two steps of main.  A worker may die at *)
(* any moment: it calls system calls with random arguments.                *)
(*                                                                         *)
(* Every process has its own copy of the table; of a child's copy only its *)
(* own entry is ever read, so a child's place says whether it is there.    *)
(***************************************************************************)
EXTENDS Integers, FiniteSets, FiniteSetsExt

CONSTANTS
    WORKER_NUM,
    MaxDeaths,      \* bound: processes that die, or are told to by a signal
    ForkFails,      \* whether fork() may return -1
    NULL

PPD_SIZE == WORKER_NUM + 2
Ids      == 0 .. WORKER_NUM - 1
WD       == WORKER_NUM                  \* the watchdog's job (and its id)
Main     == 1                           \* main's pid
Pids     == 2 .. 2 + WORKER_NUM + MaxDeaths     \* its children's

ASSUME SupervisorAssumption ==
    /\ WORKER_NUM \in Nat \ {0} /\ MaxDeaths \in Nat /\ ForkFails \in BOOLEAN
    /\ NULL \notin Nat

VARIABLES
    at,             \* main's place
    id, i,          \* its loop variables
    fork_res,
    ppd,            \* main's table
    proc_desc_cnt,
    handler,        \* SIGCHLD: "default", "installed", "running"
    pending,        \* a SIGCHLD is pending; further ones are merged
    st,             \* the children: "none", "live", "zombie", "reaped"
    job,            \* the worker id of a child, or WD
    place,          \* where a child is
    files,          \* pid files
    deaths,
    early           \* history: died before main had registered them

main     == << at, id, i, fork_res >>
table    == << ppd, proc_desc_cnt >>
signals  == << handler, pending >>
children == << st, job, place >>
count    == << deaths, early >>
vars     == << main, table, signals, children, files, count >>

Entry == [pid : {0, Main} \cup Pids, ptype : {"main", "worker"},
          id : Ids, died : BOOLEAN]
Index == 0 .. PPD_SIZE - 1

\* get_proc_desc: the first entry with this pid.
Get(pid) ==
    LET found == {k \in Index : ppd[k].pid = pid}
    IN  IF found = {} THEN NULL ELSE Min(found)

\* The prefix of a pid or log file; PROC_TYPE_DEF has none.
Prefix(ptype) == CASE ptype = "main" -> "main_" [] ptype = "wd" -> "wd_"
                   [] ptype = "worker" -> "worker_" [] OTHER -> ""

JobType(p) == IF job[p] = WD THEN "wd" ELSE "worker"

Init ==
    /\ at = "scan" /\ id = 0 /\ i = 0 /\ fork_res = 0
    /\ ppd = [k \in Index |-> [pid |-> 0, ptype |-> "main", id |-> 0, died |-> FALSE]]
    /\ proc_desc_cnt = 0
    /\ handler = "default" /\ pending = FALSE
    /\ st = [p \in Pids |-> "none"]
    /\ job = [p \in Pids |-> 0]
    /\ place = [p \in Pids |-> "born"]
    /\ files \in {{}, {<< Prefix("main"), 0 >>}}    \* 0: an earlier main
    /\ deaths = 0 /\ early = {}

-----------------------------------------------------------------------------
(* Main: start up. *)

\* The handler runs on main's stack: main waits for it.
AtMain(l) == at = l /\ handler # "running"

Scan ==
    /\ AtMain("scan")
    /\ at' = IF files = {} THEN "fork" ELSE "exit"
    /\ UNCHANGED << id, i, fork_res, table, signals, children, files, count >>

\* fork() succeeds with the next pid; the child starts with a copy of main.
Fork(j, next) ==
    /\ \E p \in Pids :
         /\ st[p] = "none" /\ \A q \in Pids : q < p => st[q] # "none"
         /\ fork_res' = p
         /\ st' = [st EXCEPT ![p] = "live"]
         /\ job' = [job EXCEPT ![p] = j]
    /\ at' = next
    /\ UNCHANGED << place, files, count >>

\* Lines 375-391: a failure ends main; the workers it has stay.
ForkWorker ==
    /\ AtMain("fork")
    /\ Fork(id, "install")
    /\ UNCHANGED << id, i, table, signals >>

ForkWorkerFails ==
    /\ AtMain("fork") /\ ForkFails
    /\ at' = "exit" /\ fork_res' = -1
    /\ UNCHANGED << id, i, table, signals, children, files, count >>

\* signal() and main's call of register_new_process, which after the first
\* round returns at line 92.
Install ==
    /\ AtMain("install")
    /\ handler' = "installed"
    /\ IF Get(Main) = NULL
       THEN /\ ppd' = [ppd EXCEPT ![proc_desc_cnt] =
                         [pid |-> Main, ptype |-> "main", id |-> id, died |-> FALSE]]
            /\ proc_desc_cnt' = proc_desc_cnt + 1
            /\ files' = files \cup {<< Prefix("main"), Main >>}
       ELSE UNCHANGED << table, files >>
    /\ at' = "register"
    /\ UNCHANGED << id, i, fork_res, pending, children, count >>

\* register_new_process in three steps, for the handler may come between:
\* lines 85-101, line 102, and the files of lines 104-119.  replace_died_pid
\* is 0 for a new entry.
RegisterPid(replace, wid, next) ==
    /\ LET k == IF replace # 0 THEN Get(replace) ELSE proc_desc_cnt
       IN  ppd' = [ppd EXCEPT ![k] = [pid |-> fork_res, ptype |-> "worker",
                                      id |-> wid, died |-> @.died]]
    /\ proc_desc_cnt' = IF replace # 0 THEN proc_desc_cnt ELSE proc_desc_cnt + 1
    /\ at' = next
    /\ UNCHANGED << id, i, fork_res, signals, children, files, count >>

\* Mutant: the flag of the entry that is filled in again is left set.
ClearDiedForgotten(next) ==
    /\ at' = next
    /\ UNCHANGED << id, i, fork_res, table, signals, children, files, count >>

ClearDied(next) ==
    /\ ppd' = [ppd EXCEPT ![Get(fork_res)].died = FALSE]
    /\ at' = next
    /\ UNCHANGED << id, i, fork_res, proc_desc_cnt, signals, children, files, count >>

\* The log file is opened, and emptied, along with it.
OpenFiles == files' = files \cup {<< Prefix("worker"), fork_res >>}

Register1 == AtMain("register") /\ RegisterPid(0, id, "clear")
Register2 == AtMain("clear") /\ ClearDied("files")
Register3 ==
    /\ AtMain("files")
    /\ OpenFiles
    /\ id' = id + 1
    /\ at' = IF id + 1 < WORKER_NUM THEN "fork" ELSE "fork_wd"
    /\ UNCHANGED << i, fork_res, table, signals, children, count >>

\* The watchdog never gets into main's table.
ForkWd ==
    /\ AtMain("fork_wd")
    /\ Fork(WD, "loop")
    /\ i' = 0
    /\ UNCHANGED << id, table, signals >>

ForkWdFails ==
    /\ AtMain("fork_wd") /\ ForkFails
    /\ at' = "loop" /\ fork_res' = -1 /\ i' = 0
    /\ UNCHANGED << id, table, signals, children, files, count >>

-----------------------------------------------------------------------------
(* Main: the loop. *)

\* Mutant: died is not looked at.
NeedsForkAlways(e) == e.ptype = "worker" /\ e.pid # 0

NeedsFork(e) == e.ptype = "worker" /\ e.pid # 0 /\ e.died

\* Lines 458-461, and line 486 at the end of a pass.
Look ==
    /\ AtMain("loop")
    /\ IF i = proc_desc_cnt THEN i' = 0 /\ at' = "loop"
       ELSE IF NeedsFork(ppd[i]) THEN i' = i /\ at' = "refork"
       ELSE i' = i + 1 /\ at' = "loop"
    /\ UNCHANGED << id, fork_res, table, signals, children, files, count >>

Refork ==
    /\ AtMain("refork")
    /\ Fork(ppd[i].id, "replace")
    /\ UNCHANGED << id, i, table, signals >>

\* Lines 470-481 when fork() returns -1: main goes on as if it were the
\* child, takes the dead worker's entry and never comes back.
ReforkFails ==
    /\ AtMain("refork") /\ ForkFails
    /\ fork_res' = -1
    /\ ppd' = [ppd EXCEPT ![Get(ppd[i].pid)] =
                 [pid |-> Main, ptype |-> "worker", id |-> ppd[i].id, died |-> FALSE]]
    /\ files' = files \cup {<< Prefix("worker"), Main >>}
    /\ at' = "worker"
    /\ UNCHANGED << id, i, proc_desc_cnt, signals, children, count >>

Replace1 == AtMain("replace") /\ RegisterPid(ppd[i].pid, ppd[i].id, "reclear")
Replace2 == AtMain("reclear") /\ ClearDied("refiles")
Replace3 ==
    /\ AtMain("refiles")
    /\ OpenFiles
    /\ i' = i + 1 /\ at' = "loop"
    /\ UNCHANGED << id, fork_res, table, signals, children, count >>

-----------------------------------------------------------------------------
(* Main: SIGCHLD_handler. *)

Zombies == {p \in Pids : st[p] = "zombie"}

Deliver ==
    /\ handler = "installed" /\ pending /\ at # "exit"
    /\ handler' = "running" /\ pending' = FALSE
    /\ UNCHANGED << main, table, children, files, count >>

\* A dead child is reaped.  One that is in the table is flagged; one that is
\* not ends the loop (line 217).
ReapWith(once, flags) ==
    /\ handler = "running"
    /\ \E p \in Zombies :
         /\ st' = [st EXCEPT ![p] = "reaped"]
         /\ handler' = IF once \/ Get(p) = NULL THEN "installed" ELSE "running"
         /\ ppd' = IF flags /\ Get(p) # NULL
                   THEN [ppd EXCEPT ![Get(p)].died = TRUE] ELSE ppd
    /\ UNCHANGED << main, proc_desc_cnt, pending, job, place, files, count >>

\* Mutants: one child a signal; a death that is only logged.
ReapOne == ReapWith(TRUE, TRUE)
ReapUnflagged == ReapWith(FALSE, FALSE)

Reap == ReapWith(FALSE, TRUE)

ReapNone ==
    /\ handler = "running" /\ Zombies = {}
    /\ handler' = "installed"
    /\ UNCHANGED << main, table, pending, children, files, count >>

Handler == Deliver \/ Reap \/ ReapNone

-----------------------------------------------------------------------------
(* The children: workers, and the watchdog. *)

Goto(p, l) == place' = [place EXCEPT ![p] = l]

\* register_new_process in the child's own table, then the signal handlers
\* of lines 304-308 or 422-427: a signal that comes before them is a Crash.
ChildStart(p) ==
    /\ st[p] = "live" /\ place[p] = "born"
    /\ Goto(p, "running")
    /\ files' = files \cup {<< Prefix(JobType(p)), p >>}
    /\ UNCHANGED << main, table, signals, st, job, count >>

\* Main has forked p and is not yet past line 102 for it.
Registering(p) ==
    fork_res = p /\ at \in {"install", "register", "clear", "replace", "reclear"}

\* A child becomes a zombie and main gets a SIGCHLD; with the default
\* disposition the signal is dropped.
Dies(p) ==
    /\ st' = [st EXCEPT ![p] = "zombie"]
    /\ pending' = (handler # "default")
    /\ early' = IF Registering(p) THEN early \cup {p} ELSE early

\* A crash, or a signal it has no handler for yet.
Crash(p) ==
    /\ st[p] = "live" /\ deaths < MaxDeaths
    /\ Dies(p) /\ deaths' = deaths + 1
    /\ UNCHANGED << main, table, handler, job, place, files >>

\* unregister_process(getpid(), PROC_TYPE_DEF): what it removes is a file
\* with no prefix in its name.
Unregister(p) == files' = files \ {<< Prefix("def"), p >>}

\* SIGTERM: lines 241-245.
Term(p) ==
    /\ st[p] = "live" /\ place[p] = "running" /\ deaths < MaxDeaths
    /\ Unregister(p) /\ Goto(p, "unregistered")
    /\ Dies(p) /\ deaths' = deaths + 1
    /\ UNCHANGED << main, table, handler, job >>

\* SIGHUP: lines 236-240.  The process goes on without a log.
Hup(p) ==
    /\ st[p] = "live" /\ place[p] = "running" /\ deaths < MaxDeaths
    /\ Unregister(p) /\ Goto(p, "unregistered")
    /\ deaths' = deaths + 1
    /\ UNCHANGED << main, table, signals, st, job, early >>

\* A worker with no entry writes to a NULL stream.
WorkerLogsNowhere(p) ==
    /\ st[p] = "live" /\ place[p] = "unregistered" /\ job[p] # WD
    /\ Dies(p)
    /\ UNCHANGED << main, table, handler, job, place, files, deaths >>

-----------------------------------------------------------------------------
MainStep == Scan \/ ForkWorker \/ Install \/ Register1 \/ Register2 \/ Register3
            \/ ForkWd \/ Look \/ Refork \/ Replace1 \/ Replace2 \/ Replace3
ForkFailure == ForkWorkerFails \/ ForkWdFails \/ ReforkFails
ChildStep(p) == ChildStart(p) \/ WorkerLogsNowhere(p)
Disturb(p) == Crash(p) \/ Term(p) \/ Hup(p)

Next == MainStep \/ ForkFailure \/ Handler
        \/ \E p \in Pids : ChildStep(p) \/ Disturb(p)

\* Processes are scheduled and a pending signal is delivered; nothing has to
\* crash, to be signalled or to fail.
Spec == /\ Init /\ [][Next]_vars
        /\ WF_vars(MainStep) /\ WF_vars(Handler)
        /\ \A p \in Pids : WF_vars(ChildStep(p))

-----------------------------------------------------------------------------
TypeOK ==
    /\ at \in {"scan", "fork", "install", "register", "clear", "files", "fork_wd",
               "loop", "refork", "replace", "reclear", "refiles", "worker", "exit"}
    /\ id \in 0 .. WORKER_NUM /\ i \in 0 .. PPD_SIZE - 1
    /\ fork_res \in {-1, 0} \cup Pids
    /\ ppd \in [Index -> Entry] /\ proc_desc_cnt \in 0 .. PPD_SIZE - 1
    /\ handler \in {"default", "installed", "running"} /\ pending \in BOOLEAN
    /\ st \in [Pids -> {"none", "live", "zombie", "reaped"}]
    /\ job \in [Pids -> Ids \cup {WD}]
    /\ place \in [Pids -> {"born", "running", "unregistered"}]
    /\ files \subseteq ({"main_", "wd_", "worker_"} \X ({0, Main} \cup Pids))
    /\ early \subseteq Pids
    /\ deaths \in 0 .. MaxDeaths

(* Lines 458-482: a worker is forked again only once its predecessor is    *)
(* gone.  No two live processes do the same worker's job, though deaths    *)
(* are flagged by a handler that runs in the middle of the loop. *)
OneProcessPerWorker ==
    \A p, q \in Pids :
        st[p] = "live" /\ st[q] = "live" /\ job[p] = job[q] => p = q

(* Lines 214-220: a worker that dies once main is past line 102 for it is  *)
(* flagged when it is reaped, or has been forked again.  Only a worker     *)
(* that dies in between can be forgotten. *)
RegisteredDeathFlagged ==
    \A k \in Index, p \in Pids :
        ppd[k].pid = p /\ st[p] = "reaped" /\ p \notin early => ppd[k].died

(* Line 202: SIGCHLDs are merged, so the handler has to reap every child   *)
(* that is dead.  A child stays a zombie with no signal to come only after *)
(* a child outside the table ended the loop at line 217 (the watchdog, or  *)
(* a worker not yet registered), or if it died before line 394. *)
ZombiesNoticed ==
    handler = "installed" /\ ~pending /\ Zombies # {} =>
        \E p \in Pids : /\ st[p] \in {"zombie", "reaped"}
                        /\ job[p] = WD \/ p \in early

(* Lines 457-482: what the handler flags, main forks again, as long as it  *)
(* still supervises. *)
FlaggedIsReplaced ==
    \A k \in Index : ppd[k].died ~> (~ppd[k].died \/ at \in {"worker", "exit"})
=============================================================================
