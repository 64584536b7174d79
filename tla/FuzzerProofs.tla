---------------------------- MODULE FuzzerProofs ----------------------------
(***************************************************************************)
(* Proofs about the fuzzer.  For any number of workers, deaths and failing *)
(* forks: main, its SIGCHLD handler and its children keep one process per  *)
(* worker, only a death in the registration window goes unflagged, and     *)
(* only such a death or the watchdog's leaves a zombie behind.  For a pool,*)
(* a tree and a limit of any size: what a worker's pool says of the        *)
(* descriptors it opened stays true, whatever the read behind the pool     *)
(* gives, and a worker that goes through the table gets no further than    *)
(* nanosleep.                                                              *)
(***************************************************************************)
EXTENDS FuzzerSupervisor, FuzzSandbox, TLAPS

Starting  == {"fork", "install", "register", "clear", "files"}
Looping   == {"loop", "refork", "replace", "reclear", "refiles", "worker"}
Replacing == {"refork", "replace", "reclear", "refiles", "worker"}
Unlisted  == {"install", "register", "replace"}

(* How far main is: it enters itself and then one worker a round.          *)
Progress ==
    /\ at = "scan" => id = 0 /\ proc_desc_cnt = 0
    /\ at \in Starting \cup {"exit"} => id < WORKER_NUM
    /\ at \in {"fork", "install", "exit"} =>
          proc_desc_cnt = (IF id = 0 THEN 0 ELSE id + 1)
    /\ at = "register" => proc_desc_cnt = id + 1
    /\ at \in {"clear", "files"} => proc_desc_cnt = id + 2
    /\ at \in Looping \cup {"fork_wd"} => proc_desc_cnt = WORKER_NUM + 1
    /\ i <= proc_desc_cnt
    /\ at \notin Looping => i = 0
    /\ at \in Replacing => 0 < i /\ i < proc_desc_cnt

(* Entry 0 is main's, entry k worker k - 1's, the others are empty.        *)
Table ==
    \A k \in Index :
        /\ k = 0 /\ proc_desc_cnt > 0 => ppd[k].pid = Main /\ ppd[k].ptype = "main"
        /\ 0 < k /\ k < proc_desc_cnt =>
              /\ ppd[k].ptype = "worker" /\ ppd[k].id = k - 1
              /\ \/ /\ ppd[k].pid \in Pids /\ st[ppd[k].pid] # "none"
                    /\ job[ppd[k].pid] = k - 1
                 \/ at = "worker" /\ k = i /\ ppd[k].pid = Main
        /\ k >= proc_desc_cnt => ppd[k].pid = 0 /\ ~ppd[k].died

(* The child main has just forked, and the entry it forks again for.       *)
Forked ==
    /\ at \in {"install", "register", "clear", "files"} =>
          fork_res \in Pids /\ st[fork_res] # "none" /\ job[fork_res] = id
    /\ at \in {"clear", "files"} => ppd[id + 1].pid = fork_res
    /\ at \in {"replace", "reclear", "refiles"} =>
          fork_res \in Pids /\ st[fork_res] # "none" /\ job[fork_res] = i - 1
    /\ at = "replace" => ppd[i].pid # fork_res
    /\ at \in {"reclear", "refiles"} => ppd[i].pid = fork_res
    /\ at \in {"refork", "replace"} => ppd[i].died

(* There is at most one watchdog, and none before main's loop.             *)
Watchdog ==
    /\ \A p \in Pids : st[p] # "none" /\ job[p] = WD => at \in Looping
    /\ \A p, q \in Pids : st[p] # "none" /\ job[p] = WD /\ st[q] # "none" /\ job[q] = WD
                          => p = q

(* A worker that has not been reaped is in the table, or is the one main   *)
(* is about to enter.                                                      *)
UnreapedListed ==
    \A p \in Pids : st[p] \in {"live", "zombie"} /\ job[p] # WD =>
        \/ job[p] + 1 < proc_desc_cnt /\ ppd[job[p] + 1].pid = p
        \/ at \in Unlisted /\ fork_res = p

(* A flag is never set for a process that is still there; between lines    *)
(* 101 and 102 it is the predecessor's.                                    *)
DiedReaped ==
    \A k \in Index : ppd[k].died /\ ~(at = "reclear" /\ k = i) =>
        ppd[k].pid \in Pids /\ st[ppd[k].pid] = "reaped"

(* early holds every child that died while main was registering it.        *)
EarlyDeaths ==
    at \in {"install", "register", "clear", "replace", "reclear"}
        /\ st[fork_res] # "live" => fork_res \in early

(* Without a handler there is at most one child, the one just forked.      *)
NoHandlerYet ==
    handler = "default" =>
        /\ at \in {"scan", "fork", "install", "exit"} /\ id = 0
        /\ \A p \in Pids : st[p] # "none" => at = "install" /\ fork_res = p

IInv == /\ TypeOK /\ Progress /\ Table /\ Forked /\ Watchdog /\ UnreapedListed
        /\ DiedReaped /\ EarlyDeaths /\ NoHandlerYet
        /\ RegisteredDeathFlagged /\ ZombiesNoticed

(* Pids and table indices are numbers, main's pid is no child's.           *)
LEMMA Numbers ==
    /\ Ids \subseteq Nat /\ WD \notin Ids /\ WD \in Nat
    /\ Main \notin Pids /\ 0 \notin Pids /\ -1 \notin Pids
    /\ Index = 0 .. WORKER_NUM + 1 /\ NULL \notin Index
BY SupervisorAssumption DEF Ids, WD, Main, Pids, Index, PPD_SIZE

(* get_proc_desc finds an entry that is the only one with its pid.         *)
LEMMA GetUnique ==
    ASSUME NEW k \in Index, NEW pid, ppd[k].pid = pid,
           \A j \in Index : ppd[j].pid = pid => j = k
    PROVE  Get(pid) = k
<1>1. {j \in Index : ppd[j].pid = pid} = {k}
  OBVIOUS
<1>2. k \in Int
  BY SupervisorAssumption DEF Index, PPD_SIZE
<1>3. Min({k}) = k
  BY <1>2 DEF Min
<1>. QED
  BY <1>1, <1>3 DEF Get

(* get_proc_desc returns NULL when there is none.                          *)
LEMMA GetNone ==
    ASSUME NEW pid, \A j \in Index : ppd[j].pid # pid
    PROVE  Get(pid) = NULL
BY DEF Get

(* A child's pid is in at most one entry, that of its job.                 *)
LEMMA ListedOnce ==
    ASSUME IInv, NEW k \in Index, ppd[k].pid \in Pids
    PROVE  /\ 0 < k /\ k < proc_desc_cnt /\ k = job[ppd[k].pid] + 1
           /\ st[ppd[k].pid] # "none"
           /\ \A j \in Index : ppd[j].pid = ppd[k].pid => j = k
           /\ Get(ppd[k].pid) = k /\ k # NULL
<1>. USE SupervisorAssumption, Numbers
<1>1. \A j \in Index : ppd[j].pid \in Pids =>
         0 < j /\ j < proc_desc_cnt /\ st[ppd[j].pid] # "none" /\ job[ppd[j].pid] = j - 1
  <2>. SUFFICES ASSUME NEW j \in Index, ppd[j].pid \in Pids
       PROVE  0 < j /\ j < proc_desc_cnt /\ st[ppd[j].pid] # "none" /\ job[ppd[j].pid] = j - 1
    OBVIOUS
  <2>1. j \in Nat /\ proc_desc_cnt \in Nat
    BY DEF IInv, TypeOK, PPD_SIZE
  <2>2. j # 0 /\ j < proc_desc_cnt
    BY <2>1 DEF IInv, Table
  <2>. QED
    BY <2>1, <2>2 DEF IInv, Table
<1>2. \A j \in Index : ppd[j].pid = ppd[k].pid => j = k
  BY <1>1
<1>3. Get(ppd[k].pid) = k
  BY <1>2, GetUnique
<1>4. k = job[ppd[k].pid] + 1
  BY <1>1
<1>. QED
  BY <1>1, <1>2, <1>3, <1>4

(* What the handler learns from get_proc_desc about a child.               *)
LEMMA GetChild ==
    ASSUME IInv, NEW p \in Pids
    PROVE  \/ Get(p) = NULL /\ \A k \in Index : ppd[k].pid # p
           \/ /\ Get(p) \in Index /\ Get(p) # NULL /\ ppd[Get(p)].pid = p
              /\ \A k \in Index : ppd[k].pid = p => k = Get(p)
<1>1. CASE \A k \in Index : ppd[k].pid # p
  BY <1>1, GetNone
<1>2. CASE \E k \in Index : ppd[k].pid = p
  BY <1>2, ListedOnce
<1>. QED
  BY <1>1, <1>2

(* The initial state satisfies the inductive invariant.                    *)
LEMMA InitIInv == Init => IInv
<1>. SUFFICES ASSUME Init PROVE IInv
  OBVIOUS
<1>. USE SupervisorAssumption, Numbers
<1>1. TypeOK
  <2>1. [pid |-> 0, ptype |-> "main", id |-> 0, died |-> FALSE] \in Entry
    BY DEF Entry, Ids
  <2>2. ppd \in [Index -> Entry] /\ job \in [Pids -> Ids \cup {WD}]
    BY <2>1 DEF Init, Ids
  <2>3. files \subseteq ({"main_", "wd_", "worker_"} \X ({0, Main} \cup Pids))
    BY DEF Init, Prefix
  <2>4. pending \in BOOLEAN
    BY DEF Init
  <2>5. id \in 0 .. WORKER_NUM /\ i \in 0 .. PPD_SIZE - 1 /\ proc_desc_cnt \in 0 .. PPD_SIZE - 1
        /\ deaths \in 0 .. MaxDeaths
    BY DEF Init, PPD_SIZE
  <2>. QED
    BY <2>2, <2>3, <2>4, <2>5 DEF Init, TypeOK
<1>2. Progress /\ Table /\ Forked
  BY DEF Init, Progress, Table, Forked, Starting, Looping, Replacing
<1>3. Watchdog /\ UnreapedListed /\ DiedReaped /\ EarlyDeaths /\ NoHandlerYet
  BY DEF Init, Watchdog, UnreapedListed, DiedReaped, EarlyDeaths, NoHandlerYet
<1>4. RegisteredDeathFlagged /\ ZombiesNoticed
  BY DEF Init, RegisteredDeathFlagged, ZombiesNoticed
<1>. QED
  BY <1>1, <1>2, <1>3, <1>4 DEF IInv

(* The part of the invariant that is about main and its children.          *)
TableInv == /\ Progress /\ Table /\ Forked /\ Watchdog /\ UnreapedListed
            /\ DiedReaped /\ EarlyDeaths /\ RegisteredDeathFlagged

(* Steps of the children and of the handler that touch neither the table   *)
(* nor who is alive.                                                       *)
LEMMA QuietStep ==
    ASSUME IInv, UNCHANGED << main, table, st, job, early >>
    PROVE  TableInv'
<1>. USE DEF main, table, IInv
<1>1. Progress' /\ Table' /\ Forked' /\ Watchdog'
  BY DEF Progress, Table, Forked, Watchdog
<1>2. UnreapedListed' /\ DiedReaped' /\ EarlyDeaths' /\ RegisteredDeathFlagged'
  BY DEF UnreapedListed, DiedReaped, EarlyDeaths, RegisteredDeathFlagged
<1>. QED
  BY <1>1, <1>2 DEF TableInv

(* A child dies: it becomes a zombie, early if main is still registering   *)
(* it, and main gets a signal if it has a handler.                         *)
LEMMA DeathStep ==
    ASSUME IInv, NEW p \in Pids, st[p] = "live", Dies(p),
           UNCHANGED << main, table, handler, job >>
    PROVE  TableInv' /\ NoHandlerYet' /\ ZombiesNoticed'
<1>. USE DEF main, table, IInv, TypeOK, Dies
<1>0. /\ st' = [st EXCEPT ![p] = "zombie"] /\ early \subseteq early'
      /\ Registering(p) => p \in early'
  BY DEF Registering
<1>1. Progress'
  BY DEF Progress
<1>2. Table'
  BY <1>0 DEF Table
<1>3. Forked'
  BY <1>0 DEF Forked
<1>4. Watchdog'
  BY <1>0 DEF Watchdog
<1>5. UnreapedListed'
  BY <1>0 DEF UnreapedListed
<1>6. DiedReaped'
  BY <1>0 DEF DiedReaped
<1>7. EarlyDeaths'
  BY <1>0 DEF EarlyDeaths, Registering, Forked
<1>8. RegisteredDeathFlagged'
  BY <1>0 DEF RegisteredDeathFlagged
<1>9. NoHandlerYet'
  BY <1>0 DEF NoHandlerYet
<1>10. ZombiesNoticed'
  BY DEF ZombiesNoticed
<1>. QED
  BY <1>1, <1>2, <1>3, <1>4, <1>5, <1>6, <1>7, <1>8, <1>9, <1>10 DEF TableInv

(* The handler reaps a child: in the table, it is flagged; outside, it is  *)
(* the watchdog or died early.                                             *)
LEMMA ReapStep == ASSUME IInv, Reap PROVE TableInv' /\ NoHandlerYet' /\ ZombiesNoticed'
<1>. USE SupervisorAssumption DEF main, table, IInv, TypeOK
<1>0. PICK p \in Pids :
        /\ st[p] = "zombie" /\ st' = [st EXCEPT ![p] = "reaped"]
        /\ handler' = IF Get(p) = NULL THEN "installed" ELSE "running"
        /\ ppd' = IF Get(p) # NULL THEN [ppd EXCEPT ![Get(p)].died = TRUE] ELSE ppd
  BY DEF Reap, ReapWith, Zombies
<1>1. UNCHANGED << main, proc_desc_cnt, pending, job, early >> /\ handler = "running"
  BY DEF Reap, ReapWith, count
<1>2. /\ \A k \in Index : /\ ppd'[k].pid = ppd[k].pid /\ ppd'[k].ptype = ppd[k].ptype
                          /\ ppd'[k].id = ppd[k].id
                          /\ ppd[k].died => ppd'[k].died
                          /\ ppd'[k].died => ppd[k].died \/ ppd[k].pid = p
                          /\ ppd[k].pid = p => ppd'[k].died
      /\ Get(p) = NULL => \A k \in Index : ppd[k].pid # p
  BY <1>0, GetChild DEF Entry
<1>3. Progress'
  BY <1>1 DEF Progress
<1>4. Table'
  <2>1. \A k \in Index : k >= proc_desc_cnt => ~ppd'[k].died
    BY <1>2, ListedOnce, Numbers DEF Table
  <2>. QED
    BY <1>0, <1>1, <1>2, <2>1 DEF Table
<1>5. Forked'
  <2>1. id + 1 \in Index \/ at \notin {"clear", "files"}
    BY Numbers DEF Progress, Starting
  <2>2. i \in Index
    BY DEF Index
  <2>. QED
    BY <1>0, <1>1, <1>2, <2>1, <2>2 DEF Forked
<1>6. Watchdog'
  BY <1>0, <1>1 DEF Watchdog
<1>7. UnreapedListed'
  <2>1. \A q \in Pids : job[q] # WD => job[q] + 1 \in Index
    BY Numbers DEF Ids
  <2>. QED
    BY <1>0, <1>1, <1>2, <2>1 DEF UnreapedListed
<1>8. DiedReaped'
  BY <1>0, <1>1, <1>2 DEF DiedReaped
<1>9. EarlyDeaths'
  BY <1>0, <1>1 DEF EarlyDeaths, Forked
<1>10. RegisteredDeathFlagged'
  BY <1>0, <1>1, <1>2 DEF RegisteredDeathFlagged
<1>11. NoHandlerYet'
  BY <1>0 DEF NoHandlerYet
<1>12. ZombiesNoticed'
  <2>. SUFFICES ASSUME Get(p) = NULL PROVE job[p] = WD \/ p \in early
    BY <1>0, <1>1 DEF ZombiesNoticed
  <2>1. job[p] # WD => at \in Unlisted /\ fork_res = p
    <3>1. job[p] # WD => job[p] + 1 \in Index
      BY Numbers DEF Ids
    <3>. QED
      BY <1>0, <1>2, <3>1 DEF UnreapedListed
  <2>. QED
    BY <1>0, <2>1 DEF EarlyDeaths, Unlisted
<1>. QED
  BY <1>3, <1>4, <1>5, <1>6, <1>7, <1>8, <1>9, <1>10, <1>11, <1>12 DEF TableInv

(* What main's own steps have to keep besides the types.                   *)
Rest == TableInv /\ NoHandlerYet /\ ZombiesNoticed

(* fork() makes a child that was not there before; nobody else is touched. *)
LEMMA ForkEffect ==
    ASSUME TypeOK, NEW j \in Ids \cup {WD}, NEW next, Fork(j, next)
    PROVE  \E p \in Pids :
             /\ st[p] = "none" /\ fork_res' = p /\ st'[p] = "live" /\ job'[p] = j
             /\ \A q \in Pids \ {p} : st'[q] = st[q] /\ job'[q] = job[q]
             /\ st' = [st EXCEPT ![p] = "live"] /\ job' = [job EXCEPT ![p] = j]
BY DEF Fork, TypeOK

(* fork() leaves no zombie unnoticed.                                      *)
LEMMA ForkZombies ==
    ASSUME IInv, NEW j \in Ids \cup {WD}, NEW next, Fork(j, next), UNCHANGED signals
    PROVE  ZombiesNoticed'
<1>1. PICK p \in Pids :
         /\ st[p] = "none" /\ st'[p] = "live"
         /\ \A q \in Pids \ {p} : st'[q] = st[q] /\ job'[q] = job[q]
  BY ForkEffect DEF IInv
<1>2. early' = early /\ handler' = handler /\ pending' = pending
  BY DEF Fork, count, signals
<1>3. Zombies' = Zombies
  BY <1>1 DEF Zombies
<1>4. ASSUME NEW q \in Pids, st[q] \in {"zombie", "reaped"}
      PROVE  st'[q] = st[q] /\ job'[q] = job[q]
  BY <1>1, <1>4
<1>. QED
  BY <1>2, <1>3, <1>4 DEF IInv, ZombiesNoticed

(* Main forks the workers one after the other.                             *)
LEMMA ForkWorkerStep == ASSUME IInv, ForkWorker PROVE Rest'
<1>. USE SupervisorAssumption, Numbers DEF IInv
<1>a. at = "fork" /\ Fork(id, "install")
  BY DEF ForkWorker, AtMain
<1>b. id \in Ids
  BY <1>a DEF TypeOK, Progress, Starting, Ids
<1>0. /\ at = "fork" /\ at' = "install"
      /\ UNCHANGED << id, i, ppd, proc_desc_cnt, handler, pending, early >>
  BY <1>a DEF ForkWorker, Fork, table, signals, count
<1>1. PICK p \in Pids :
         /\ st[p] = "none" /\ fork_res' = p /\ st'[p] = "live" /\ job'[p] = id
         /\ \A q \in Pids \ {p} : st'[q] = st[q] /\ job'[q] = job[q]
  BY <1>a, <1>b, ForkEffect
<1>2. \A k \in Index : ppd[k].pid # p
  BY <1>1, ListedOnce
<1>3. Progress'
  BY <1>0 DEF Progress, Starting, Looping, Replacing
<1>4. Table'
  BY <1>0, <1>1, <1>2 DEF Table
<1>5. Forked'
  BY <1>0, <1>1 DEF Forked
<1>6. Watchdog'
  BY <1>b, <1>0, <1>1 DEF Watchdog, Looping
<1>7. UnreapedListed'
  BY <1>0, <1>1 DEF UnreapedListed, Unlisted
<1>8. DiedReaped'
  BY <1>0, <1>1, <1>2 DEF DiedReaped
<1>9. EarlyDeaths'
  BY <1>0, <1>1 DEF EarlyDeaths
<1>10. RegisteredDeathFlagged'
  BY <1>0, <1>1, <1>2 DEF RegisteredDeathFlagged
<1>11. NoHandlerYet'
  BY <1>0, <1>1 DEF NoHandlerYet
<1>12. ZombiesNoticed'
  BY <1>a, <1>b, <1>0, ForkZombies DEF signals
<1>. QED
  BY <1>3, <1>4, <1>5, <1>6, <1>7, <1>8, <1>9, <1>10, <1>11, <1>12 DEF Rest, TableInv

(* Main leaves for good, or does not start.                                *)
LEMMA ScanStep == ASSUME IInv, Scan \/ ForkWorkerFails PROVE Rest'
<1>. USE SupervisorAssumption, Numbers DEF IInv, TypeOK
<1>0. /\ at \in {"scan", "fork"} /\ at' \in {"fork", "exit"}
      /\ UNCHANGED << id, i, ppd, proc_desc_cnt, handler, pending, st, job, early >>
  BY DEF Scan, ForkWorkerFails, AtMain, table, signals, children, count
<1>1. Progress' /\ Forked'
  BY <1>0 DEF Progress, Forked, Starting, Looping, Replacing
<1>2. Table' /\ DiedReaped'
  BY <1>0 DEF Table, DiedReaped
<1>3. Watchdog'
  BY <1>0 DEF Watchdog, Looping
<1>4. UnreapedListed'
  BY <1>0 DEF UnreapedListed, Unlisted
<1>5. EarlyDeaths' /\ RegisteredDeathFlagged'
  BY <1>0 DEF EarlyDeaths, RegisteredDeathFlagged
<1>6. NoHandlerYet'
  BY <1>0 DEF NoHandlerYet
<1>7. ZombiesNoticed'
  BY <1>0 DEF ZombiesNoticed, Zombies
<1>. QED
  BY <1>1, <1>2, <1>3, <1>4, <1>5, <1>6, <1>7 DEF Rest, TableInv

(* Main installs its handler; the first time it also enters itself.        *)
LEMMA InstallStep == ASSUME IInv, Install PROVE Rest'
<1>. USE SupervisorAssumption, Numbers DEF IInv
<1>0. /\ at = "install" /\ at' = "register" /\ handler' = "installed"
      /\ UNCHANGED << id, i, fork_res, pending, st, job, early >>
      /\ id \in 0 .. WORKER_NUM - 1
  BY DEF Install, AtMain, children, count, TypeOK, Progress, Starting
<1>1. ASSUME id = 0
      PROVE  Progress' /\ Table' /\ DiedReaped' /\ RegisteredDeathFlagged' /\ UnreapedListed'
  <2>1. proc_desc_cnt = 0 /\ \A k \in Index : ppd[k].pid = 0 /\ ~ppd[k].died
    BY <1>0, <1>1 DEF Progress, Table
  <2>2. Get(Main) = NULL
    BY <2>1, GetNone DEF Main
  <2>3. /\ proc_desc_cnt' = 1
        /\ ppd'[0].pid = Main /\ ppd'[0].ptype = "main" /\ ~ppd'[0].died
        /\ \A k \in Index \ {0} : ppd'[k] = ppd[k]
    <3>1. /\ proc_desc_cnt' = proc_desc_cnt + 1
          /\ ppd' = [ppd EXCEPT ![proc_desc_cnt] =
                       [pid |-> Main, ptype |-> "main", id |-> id, died |-> FALSE]]
      BY <2>2 DEF Install
    <3>2. 0 \in Index /\ ppd \in [Index -> Entry]
      BY DEF TypeOK
    <3>. QED
      BY <2>1, <3>1, <3>2
  <2>4. Progress'
    BY <1>0, <1>1, <2>3 DEF Progress, Starting, Looping, Replacing
  <2>5. Table'
    BY <1>0, <2>1, <2>3 DEF Table
  <2>6. DiedReaped' /\ RegisteredDeathFlagged'
    BY <1>0, <2>1, <2>3 DEF DiedReaped, RegisteredDeathFlagged
  <2>7. UnreapedListed'
    BY <1>0, <2>1 DEF UnreapedListed, Unlisted, TypeOK, Ids, WD
  <2>. QED
    BY <2>4, <2>5, <2>6, <2>7
<1>2. ASSUME id # 0
      PROVE  Progress' /\ Table' /\ DiedReaped' /\ RegisteredDeathFlagged' /\ UnreapedListed'
  <2>1. proc_desc_cnt = id + 1 /\ ppd[0].pid = Main /\ id + 1 > 0
    BY <1>0, <1>2 DEF Progress, Table
  <2>2. \A k \in Index : ppd[k].pid = Main => k = 0
    <3>. SUFFICES ASSUME NEW k \in Index, ppd[k].pid = Main, k # 0 PROVE FALSE
      OBVIOUS
    <3>1. k >= proc_desc_cnt
      BY <1>0, <2>1 DEF Table
    <3>. QED
      BY <3>1 DEF Table, Main
  <2>3. Get(Main) = 0 /\ 0 # NULL
    BY <2>1, <2>2, GetUnique
  <2>4. UNCHANGED << ppd, proc_desc_cnt >>
    BY <2>3 DEF Install, table
  <2>5. Progress'
    BY <1>0, <2>1, <2>4 DEF Progress, Starting, Looping, Replacing
  <2>6. Table'
    BY <1>0, <2>4 DEF Table
  <2>7. DiedReaped' /\ RegisteredDeathFlagged'
    BY <1>0, <2>4 DEF DiedReaped, RegisteredDeathFlagged
  <2>8. UnreapedListed'
    BY <1>0, <2>4 DEF UnreapedListed, Unlisted
  <2>. QED
    BY <2>5, <2>6, <2>7, <2>8
<1>3. Forked'
  BY <1>0 DEF Forked
<1>4. Watchdog'
  BY <1>0 DEF Watchdog, Looping
<1>5. EarlyDeaths'
  BY <1>0 DEF EarlyDeaths
<1>6. NoHandlerYet'
  BY <1>0 DEF NoHandlerYet
<1>7. ZombiesNoticed'
  <2>1. CASE handler = "default"
    <3>1. \A p \in Zombies : p = fork_res /\ st[p] # "live"
      BY <2>1 DEF NoHandlerYet, Zombies
    <3>2. \A p \in Zombies : p \in early /\ st[p] = "zombie" /\ p \in Pids
      BY <1>0, <3>1 DEF EarlyDeaths, Zombies
    <3>. QED
      BY <1>0, <3>2 DEF ZombiesNoticed, Zombies
  <2>2. CASE handler = "installed"
    BY <1>0, <2>2 DEF ZombiesNoticed, Zombies
  <2>. QED
    BY <2>1, <2>2 DEF Install, AtMain, TypeOK
<1>. QED
  BY <1>0, <1>1, <1>2, <1>3, <1>4, <1>5, <1>6, <1>7 DEF Rest, TableInv

(* Steps of main that leave the children, the table's deaths and the       *)
(* signals alone keep NoHandlerYet (the handler is there by then) and      *)
(* ZombiesNoticed.                                                         *)
LEMMA HandlerKept ==
    ASSUME IInv, UNCHANGED << st, job, early, handler, pending >>,
           at \notin {"scan", "fork", "install", "exit"}
    PROVE  NoHandlerYet' /\ ZombiesNoticed'
BY DEF IInv, NoHandlerYet, ZombiesNoticed, Zombies

(* Main enters a new worker, lines 85-101.                                 *)
LEMMA Register1Step == ASSUME IInv, Register1 PROVE Rest'
<1>. USE SupervisorAssumption, Numbers DEF IInv
<1>0. /\ at = "register" /\ at' = "clear" /\ proc_desc_cnt' = proc_desc_cnt + 1
      /\ UNCHANGED << id, i, fork_res, st, job, early, handler, pending >>
      /\ ppd' = [ppd EXCEPT ![proc_desc_cnt] = [pid |-> fork_res, ptype |-> "worker",
                                               id |-> id, died |-> @.died]]
  BY DEF Register1, AtMain, RegisterPid, signals, children, count
<1>1. proc_desc_cnt = id + 1 /\ id \in 0 .. WORKER_NUM - 1 /\ id + 1 \in Index
  BY <1>0 DEF Progress, TypeOK, Starting
<1>2. /\ ppd'[id + 1].pid = fork_res /\ ppd'[id + 1].ptype = "worker"
      /\ ppd'[id + 1].id = id /\ ~ppd[id + 1].died /\ ~ppd'[id + 1].died
      /\ \A k \in Index \ {id + 1} : ppd'[k] = ppd[k]
  BY <1>0, <1>1 DEF Table, TypeOK
<1>3. fork_res \in Pids /\ st[fork_res] # "none" /\ job[fork_res] = id
  BY <1>0 DEF Forked
<1>4. Progress'
  BY <1>0, <1>1 DEF Progress, Starting, Looping, Replacing
<1>5. Table'
  BY <1>0, <1>1, <1>2, <1>3 DEF Table
<1>6. Forked'
  BY <1>0, <1>2, <1>3 DEF Forked
<1>7. Watchdog'
  BY <1>0 DEF Watchdog, Looping
<1>8. UnreapedListed'
  <2>1. \A p \in Pids : job[p] # WD => job[p] \in Nat /\ job[p] + 1 \in Index
    BY DEF TypeOK, Ids
  <2>. QED
    BY <1>0, <1>1, <1>2, <1>3, <2>1 DEF UnreapedListed, Unlisted
<1>9. DiedReaped'
  BY <1>0, <1>2 DEF DiedReaped
<1>10. EarlyDeaths'
  BY <1>0 DEF EarlyDeaths
<1>11. RegisteredDeathFlagged'
  BY <1>0, <1>2 DEF RegisteredDeathFlagged, EarlyDeaths
<1>. QED
  BY <1>0, <1>4, <1>5, <1>6, <1>7, <1>8, <1>9, <1>10, <1>11, HandlerKept DEF Rest, TableInv

(* Line 102 for a new worker and for one forked again: only a death in the *)
(* registration window can be wiped out.                                   *)
LEMMA ClearDiedStep == ASSUME IInv, Register2 \/ Replace2 PROVE Rest'
<1>. USE SupervisorAssumption, Numbers DEF IInv
<1>0. /\ \/ at = "clear" /\ at' = "files"
         \/ at = "reclear" /\ at' = "refiles"
      /\ UNCHANGED << id, i, fork_res, proc_desc_cnt, st, job, early, handler, pending >>
      /\ ppd' = [ppd EXCEPT ![Get(fork_res)].died = FALSE]
  BY DEF Register2, Replace2, AtMain, ClearDied, signals, children, count
<1>1. PICK k \in Index : /\ ppd[k].pid = fork_res /\ fork_res \in Pids
                         /\ at = "reclear" => k = i
                         /\ at = "clear" => k = id + 1
  <2>1. at = "clear" => id + 1 \in Index
    BY DEF Progress, Starting, TypeOK
  <2>2. i \in Index
    BY DEF TypeOK, Index
  <2>. QED
    BY <1>0, <2>1, <2>2 DEF Forked
<1>2. Get(fork_res) = k
  BY <1>1, ListedOnce
<1>3. /\ \A j \in Index : /\ ppd'[j].pid = ppd[j].pid /\ ppd'[j].ptype = ppd[j].ptype
                          /\ ppd'[j].id = ppd[j].id
      /\ ~ppd'[k].died /\ \A j \in Index \ {k} : ppd'[j].died = ppd[j].died
  BY <1>0, <1>1, <1>2 DEF TypeOK, Entry
<1>4. Progress'
  BY <1>0 DEF Progress, Starting, Looping, Replacing
<1>5. Table'
  BY <1>0, <1>3 DEF Table
<1>6. Forked'
  <2>1. at = "clear" => id + 1 \in Index
    BY DEF Progress, Starting, TypeOK
  <2>2. i \in Index
    BY DEF TypeOK, Index
  <2>. QED
    BY <1>0, <1>3, <2>1, <2>2 DEF Forked
<1>7. Watchdog'
  BY <1>0 DEF Watchdog, Looping
<1>8. UnreapedListed'
  <2>1. \A p \in Pids : job[p] # WD => job[p] \in Nat /\ job[p] + 1 \in Index
    BY DEF TypeOK, Ids
  <2>. QED
    BY <1>0, <1>3, <2>1 DEF UnreapedListed, Unlisted
<1>9. DiedReaped'
  BY <1>0, <1>1, <1>3 DEF DiedReaped
<1>10. EarlyDeaths'
  BY <1>0 DEF EarlyDeaths
<1>11. RegisteredDeathFlagged'
  <2>1. st[fork_res] = "reaped" => fork_res \in early
    BY <1>0 DEF EarlyDeaths
  <2>. SUFFICES ASSUME NEW j \in Index, ppd[j].pid \in Pids,
                       st[ppd[j].pid] = "reaped", ppd[j].pid \notin early
                PROVE  ppd'[j].died
    BY <1>0, <1>3 DEF RegisteredDeathFlagged
  <2>2. j # k
    BY <1>1, <2>1
  <2>3. ppd[j].died
    BY DEF RegisteredDeathFlagged
  <2>. QED
    BY <1>3, <2>2, <2>3
<1>. QED
  BY <1>0, <1>4, <1>5, <1>6, <1>7, <1>8, <1>9, <1>10, <1>11, HandlerKept DEF Rest, TableInv

(* Main goes on after the files of a worker are open, or looks at the next *)
(* entry, or has no watchdog.                                              *)
LEMMA MainGoesOn ==
    ASSUME IInv, Register3 \/ Replace3 \/ Look \/ ForkWdFails
    PROVE  Rest'
<1>. USE SupervisorAssumption, Numbers DEF IInv
<1>0. UNCHANGED << ppd, proc_desc_cnt, st, job, early, handler, pending >>
  BY DEF Register3, Replace3, Look, ForkWdFails, table, signals, children, count
<1>1. /\ at \in {"files", "refiles", "loop", "fork_wd"}
      /\ at' \in {"fork", "fork_wd", "loop", "refork"}
      /\ at \in Looping => at' \in Looping
  BY DEF Register3, Replace3, Look, ForkWdFails, AtMain, Looping
<1>2. at' = "refork" => ppd[i].died /\ ppd[i].ptype = "worker" /\ i # proc_desc_cnt /\ i' = i
  <2>1. at' = "refork" => Look /\ i # proc_desc_cnt /\ NeedsFork(ppd[i]) /\ i' = i
    BY DEF Register3, Replace3, Look, ForkWdFails
  <2>. QED
    BY <2>1 DEF NeedsFork
<1>3. Progress'
  <2>0. id \in Nat /\ i \in Nat /\ proc_desc_cnt \in Nat
    BY DEF TypeOK, PPD_SIZE
  <2>1. CASE Register3
    BY <1>0, <2>0, <2>1 DEF Register3, AtMain, Progress, Starting, Looping, Replacing, TypeOK
  <2>2. CASE Replace3
    BY <1>0, <2>0, <2>2 DEF Replace3, AtMain, Progress, Starting, Looping, Replacing
  <2>3. CASE Look
    <3>1. at' = "refork" => i # 0
      <4>1. ppd[0].ptype = "main"
        BY <2>3, <2>0 DEF Look, AtMain, Progress, Looping, Table
      <4>. QED
        BY <4>1, <1>2
    <3>. QED
      BY <1>0, <1>2, <2>0, <2>3, <3>1 DEF Look, AtMain, Progress, Starting, Looping, Replacing
  <2>4. CASE ForkWdFails
    BY <1>0, <2>0, <2>4 DEF ForkWdFails, AtMain, Progress, Starting, Looping, Replacing
  <2>. QED
    BY <2>1, <2>2, <2>3, <2>4
<1>4. Table'
  BY <1>0, <1>1 DEF Table
<1>5. Forked'
  BY <1>0, <1>1, <1>2 DEF Forked
<1>6. Watchdog'
  BY <1>0, <1>1 DEF Watchdog
<1>7. UnreapedListed'
  BY <1>0, <1>1 DEF UnreapedListed, Unlisted
<1>8. DiedReaped' /\ EarlyDeaths'
  BY <1>0, <1>1 DEF DiedReaped, EarlyDeaths
<1>9. RegisteredDeathFlagged'
  BY <1>0 DEF RegisteredDeathFlagged
<1>. QED
  BY <1>0, <1>1, <1>3, <1>4, <1>5, <1>6, <1>7, <1>8, <1>9, HandlerKept DEF Rest, TableInv

(* The watchdog is forked once, after all workers.                         *)
LEMMA ForkWdStep == ASSUME IInv, ForkWd PROVE Rest'
<1>. USE SupervisorAssumption, Numbers DEF IInv
<1>a. at = "fork_wd" /\ Fork(WD, "loop")
  BY DEF ForkWd, AtMain
<1>0. /\ at' = "loop" /\ i' = 0
      /\ UNCHANGED << id, ppd, proc_desc_cnt, handler, pending, early >>
  BY <1>a DEF ForkWd, Fork, table, signals, count
<1>1. PICK p \in Pids :
         /\ st[p] = "none" /\ fork_res' = p /\ st'[p] = "live" /\ job'[p] = WD
         /\ \A q \in Pids \ {p} : st'[q] = st[q] /\ job'[q] = job[q]
  BY <1>a, ForkEffect
<1>2. \A k \in Index : ppd[k].pid # p
  BY <1>1, ListedOnce
<1>3. Progress'
  BY <1>a, <1>0 DEF Progress, Starting, Looping, Replacing
<1>4. Table'
  BY <1>a, <1>0, <1>1, <1>2 DEF Table
<1>5. Forked'
  BY <1>0, <1>1 DEF Forked
<1>6. Watchdog'
  BY <1>a, <1>0, <1>1 DEF Watchdog, Looping
<1>7. UnreapedListed'
  BY <1>a, <1>0, <1>1 DEF UnreapedListed, Unlisted
<1>8. DiedReaped'
  BY <1>a, <1>0, <1>1, <1>2 DEF DiedReaped
<1>9. EarlyDeaths'
  BY <1>0, <1>1 DEF EarlyDeaths
<1>10. RegisteredDeathFlagged'
  BY <1>0, <1>1, <1>2 DEF RegisteredDeathFlagged
<1>11. NoHandlerYet'
  BY <1>a, <1>0, <1>1 DEF NoHandlerYet
<1>12. ZombiesNoticed'
  BY <1>a, <1>0, ForkZombies DEF signals
<1>. QED
  BY <1>3, <1>4, <1>5, <1>6, <1>7, <1>8, <1>9, <1>10, <1>11, <1>12 DEF Rest, TableInv

(* The entry main is forking again for is a dead worker's.                 *)
LEMMA ReplacedEntry ==
    ASSUME IInv, at \in {"refork", "replace"}
    PROVE  /\ i \in Index /\ 0 < i /\ i < proc_desc_cnt /\ proc_desc_cnt = WORKER_NUM + 1
           /\ ppd[i].died /\ ppd[i].id = i - 1 /\ ppd[i].id \in Ids
           /\ ppd[i].pid \in Pids /\ st[ppd[i].pid] = "reaped"
           /\ Get(ppd[i].pid) = i /\ job[ppd[i].pid] = i - 1
<1>. USE SupervisorAssumption, Numbers DEF IInv
<1>1. i \in Index /\ 0 < i /\ i < proc_desc_cnt /\ proc_desc_cnt = WORKER_NUM + 1
  BY DEF Progress, Looping, Replacing, TypeOK, PPD_SIZE
<1>2. ppd[i].id = i - 1
  BY <1>1 DEF Table
<1>3. ppd[i].died
  BY DEF Forked
<1>4. ppd[i].pid \in Pids /\ st[ppd[i].pid] = "reaped"
  BY <1>1, <1>3 DEF DiedReaped
<1>5. Get(ppd[i].pid) = i
  BY <1>1, <1>4, ListedOnce
<1>6. job[ppd[i].pid] = i - 1
  BY <1>1, <1>4 DEF Table
<1>. QED
  BY <1>1, <1>2, <1>3, <1>4, <1>5, <1>6 DEF Ids

(* A flagged worker is forked again.                                       *)
LEMMA ReforkStep == ASSUME IInv, Refork PROVE Rest'
<1>. USE SupervisorAssumption, Numbers DEF IInv
<1>a. at = "refork" /\ Fork(ppd[i].id, "replace")
  BY DEF Refork, AtMain
<1>b. /\ i \in Index /\ 0 < i /\ i < proc_desc_cnt /\ proc_desc_cnt = WORKER_NUM + 1
      /\ ppd[i].died /\ ppd[i].id = i - 1 /\ ppd[i].id \in Ids
  BY <1>a, ReplacedEntry
<1>0. /\ at' = "replace"
      /\ UNCHANGED << id, i, ppd, proc_desc_cnt, handler, pending, early >>
  BY <1>a DEF Refork, Fork, table, signals, count
<1>1. PICK p \in Pids :
         /\ st[p] = "none" /\ fork_res' = p /\ st'[p] = "live" /\ job'[p] = i - 1
         /\ \A q \in Pids \ {p} : st'[q] = st[q] /\ job'[q] = job[q]
  BY <1>a, <1>b, ForkEffect
<1>2. \A k \in Index : ppd[k].pid # p
  BY <1>1, ListedOnce
<1>3. Progress'
  BY <1>a, <1>0 DEF Progress, Starting, Looping, Replacing
<1>4. Table'
  BY <1>a, <1>0, <1>1, <1>2 DEF Table
<1>5. Forked'
  BY <1>b, <1>0, <1>1, <1>2 DEF Forked
<1>6. Watchdog'
  BY <1>a, <1>b, <1>0, <1>1 DEF Watchdog, Looping
<1>7. UnreapedListed'
  BY <1>a, <1>0, <1>1 DEF UnreapedListed, Unlisted
<1>8. DiedReaped'
  BY <1>a, <1>0, <1>1, <1>2 DEF DiedReaped
<1>9. EarlyDeaths'
  BY <1>0, <1>1 DEF EarlyDeaths
<1>10. RegisteredDeathFlagged'
  BY <1>0, <1>1, <1>2 DEF RegisteredDeathFlagged
<1>11. NoHandlerYet'
  BY <1>a, <1>0 DEF NoHandlerYet
<1>12. ZombiesNoticed'
  BY <1>a, <1>b, <1>0, ForkZombies DEF signals
<1>. QED
  BY <1>3, <1>4, <1>5, <1>6, <1>7, <1>8, <1>9, <1>10, <1>11, <1>12 DEF Rest, TableInv

(* A failed fork makes main take the dead worker's entry: nobody alive is  *)
(* in it.                                                                  *)
LEMMA ReforkFailsStep == ASSUME IInv, ReforkFails PROVE Rest'
<1>. USE SupervisorAssumption, Numbers DEF IInv
<1>a. at = "refork"
  BY DEF ReforkFails, AtMain
<1>b. /\ i \in Index /\ 0 < i /\ i < proc_desc_cnt /\ proc_desc_cnt = WORKER_NUM + 1
      /\ ppd[i].pid \in Pids /\ st[ppd[i].pid] = "reaped" /\ Get(ppd[i].pid) = i
      /\ ppd[i].id = i - 1
  BY <1>a, ReplacedEntry
<1>0. /\ at' = "worker"
      /\ UNCHANGED << id, i, proc_desc_cnt, handler, pending, st, job, early >>
  BY DEF ReforkFails, signals, children, count
<1>1. ppd' = [ppd EXCEPT ![i] =
                [pid |-> Main, ptype |-> "worker", id |-> ppd[i].id, died |-> FALSE]]
  BY <1>b DEF ReforkFails
<1>2. /\ ppd'[i].pid = Main /\ ppd'[i].ptype = "worker" /\ ppd'[i].id = i - 1
      /\ ~ppd'[i].died /\ \A k \in Index \ {i} : ppd'[k] = ppd[k]
  BY <1>b, <1>1 DEF TypeOK
<1>3. Progress'
  BY <1>a, <1>0 DEF Progress, Starting, Looping, Replacing
<1>4. Table'
  BY <1>a, <1>b, <1>0, <1>2 DEF Table
<1>5. Forked' /\ EarlyDeaths'
  BY <1>0 DEF Forked, EarlyDeaths
<1>6. Watchdog'
  BY <1>a, <1>0 DEF Watchdog, Looping
<1>7. UnreapedListed'
  <2>. SUFFICES ASSUME NEW p \in Pids, st[p] \in {"live", "zombie"}, job[p] # WD
                PROVE  job[p] + 1 < proc_desc_cnt /\ ppd'[job[p] + 1].pid = p
    BY <1>0 DEF UnreapedListed
  <2>1. job[p] + 1 < proc_desc_cnt /\ ppd[job[p] + 1].pid = p
    BY <1>a DEF UnreapedListed, Unlisted
  <2>2. job[p] + 1 \in Index /\ job[p] + 1 # i
    BY <1>b, <2>1 DEF TypeOK, Ids
  <2>. QED
    BY <1>2, <2>1, <2>2
<1>8. DiedReaped'
  BY <1>a, <1>0, <1>2 DEF DiedReaped
<1>9. RegisteredDeathFlagged'
  BY <1>0, <1>2 DEF RegisteredDeathFlagged
<1>. QED
  BY <1>a, <1>0, <1>3, <1>4, <1>5, <1>6, <1>7, <1>8, <1>9, HandlerKept DEF Rest, TableInv

(* The new worker takes over the entry of the dead one.                    *)
LEMMA Replace1Step == ASSUME IInv, Replace1 PROVE Rest'
<1>. USE SupervisorAssumption, Numbers DEF IInv
<1>a. at = "replace"
  BY DEF Replace1, AtMain
<1>b. /\ i \in Index /\ 0 < i /\ i < proc_desc_cnt /\ proc_desc_cnt = WORKER_NUM + 1
      /\ ppd[i].pid \in Pids /\ st[ppd[i].pid] = "reaped" /\ Get(ppd[i].pid) = i
      /\ ppd[i].id = i - 1 /\ ppd[i].pid # 0
  BY <1>a, ReplacedEntry
<1>0. /\ at' = "reclear"
      /\ UNCHANGED << id, i, fork_res, proc_desc_cnt, handler, pending, st, job, early >>
  BY <1>b DEF Replace1, RegisterPid, signals, children, count
<1>1. ppd' = [ppd EXCEPT ![i] = [pid |-> fork_res, ptype |-> "worker",
                                 id |-> ppd[i].id, died |-> @.died]]
  BY <1>b DEF Replace1, RegisterPid
<1>2. /\ ppd'[i].pid = fork_res /\ ppd'[i].ptype = "worker" /\ ppd'[i].id = i - 1
      /\ \A k \in Index \ {i} : ppd'[k] = ppd[k]
  BY <1>b, <1>1 DEF TypeOK
<1>2a. ppd'[i].died
  BY <1>a, <1>b, <1>1, ReplacedEntry DEF TypeOK
<1>3. fork_res \in Pids /\ st[fork_res] # "none" /\ job[fork_res] = i - 1
  BY <1>a DEF Forked
<1>4. Progress'
  BY <1>a, <1>0 DEF Progress, Starting, Looping, Replacing
<1>5. Table'
  BY <1>a, <1>b, <1>0, <1>2, <1>3 DEF Table
<1>6. Forked'
  BY <1>0, <1>2, <1>3 DEF Forked
<1>7. Watchdog'
  BY <1>a, <1>0 DEF Watchdog, Looping
<1>8. UnreapedListed'
  <2>. SUFFICES ASSUME NEW p \in Pids, st[p] \in {"live", "zombie"}, job[p] # WD
                PROVE  job[p] + 1 < proc_desc_cnt /\ ppd'[job[p] + 1].pid = p
    BY <1>0 DEF UnreapedListed
  <2>1. job[p] + 1 \in Index /\ job[p] \in Nat
    BY DEF TypeOK, Ids
  <2>2. CASE p = fork_res
    BY <1>b, <1>2, <1>3, <2>2
  <2>3. CASE p # fork_res
    <3>1. job[p] + 1 < proc_desc_cnt /\ ppd[job[p] + 1].pid = p
      BY <2>3 DEF UnreapedListed
    <3>2. job[p] + 1 # i
      BY <1>b, <3>1
    <3>. QED
      BY <1>2, <2>1, <3>1, <3>2
  <2>. QED
    BY <2>2, <2>3
<1>9. DiedReaped'
  BY <1>a, <1>0, <1>2 DEF DiedReaped
<1>10. EarlyDeaths'
  BY <1>a, <1>0 DEF EarlyDeaths
<1>11. RegisteredDeathFlagged'
  BY <1>0, <1>2, <1>2a DEF RegisteredDeathFlagged
<1>. QED
  BY <1>a, <1>0, <1>4, <1>5, <1>6, <1>7, <1>8, <1>9, <1>10, <1>11, HandlerKept
     DEF Rest, TableInv

(* Main's own steps keep the types: the table never overflows.             *)
LEMMA MainTypeOK == ASSUME IInv, MainStep \/ ForkFailure PROVE TypeOK'
<1>. USE SupervisorAssumption, Numbers DEF IInv
<1>0. UNCHANGED << early, deaths, place >>
  BY DEF MainStep, ForkFailure, Scan, ForkWorker, Install, Register1, Register2,
     Register3, ForkWd, Look, Refork, Replace1, Replace2, Replace3, ForkWorkerFails,
     ForkWdFails, ReforkFails, Fork, RegisterPid, ClearDied, children, count
<1>1. /\ at' \in {"scan", "fork", "install", "register", "clear", "files", "fork_wd",
                 "loop", "refork", "replace", "reclear", "refiles", "worker", "exit"}
      /\ handler' \in {"default", "installed", "running"} /\ pending' = pending
  BY DEF MainStep, ForkFailure, Scan, ForkWorker, Install, Register1, Register2,
     Register3, ForkWd, Look, Refork, Replace1, Replace2, Replace3, ForkWorkerFails,
     ForkWdFails, ReforkFails, Fork, RegisterPid, ClearDied, signals, TypeOK
<1>2. id' \in 0 .. WORKER_NUM
  <2>1. CASE Register3
    BY <2>1 DEF Register3, AtMain, TypeOK, Progress, Starting
  <2>2. CASE ~Register3
    <3>1. id' = id
      BY <2>2 DEF MainStep, ForkFailure, Scan, ForkWorker, Install, Register1, Register2,
         ForkWd, Look, Refork, Replace1, Replace2, Replace3, ForkWorkerFails,
         ForkWdFails, ReforkFails, RegisterPid, ClearDied
    <3>. QED
      BY <3>1 DEF TypeOK
  <2>. QED
    BY <2>1, <2>2
<1>3. i' \in 0 .. PPD_SIZE - 1
  <2>1. CASE Replace3
    BY <2>1 DEF Replace3, AtMain, TypeOK, Progress, Replacing, Looping, PPD_SIZE
  <2>2. CASE Look
    BY <2>2 DEF Look, AtMain, TypeOK, Progress, Looping, PPD_SIZE
  <2>3. CASE ~Replace3 /\ ~Look
    <3>1. i' = i \/ i' = 0
      BY <2>3 DEF MainStep, ForkFailure, Scan, ForkWorker, Install, Register1, Register2,
         Register3, ForkWd, Refork, Replace1, Replace2, ForkWorkerFails,
         ForkWdFails, ReforkFails, RegisterPid, ClearDied
    <3>. QED
      BY <3>1 DEF TypeOK, PPD_SIZE
  <2>. QED
    BY <2>1, <2>2, <2>3
<1>4. /\ fork_res' \in {-1, 0} \cup Pids
      /\ st' \in [Pids -> {"none", "live", "zombie", "reaped"}]
      /\ job' \in [Pids -> Ids \cup {WD}]
  <2>1. ASSUME NEW j \in Ids \cup {WD}, NEW next, Fork(j, next)
        PROVE  /\ fork_res' \in Pids
               /\ st' \in [Pids -> {"none", "live", "zombie", "reaped"}]
               /\ job' \in [Pids -> Ids \cup {WD}]
    BY <2>1 DEF Fork, TypeOK
  <2>2. CASE ForkWorker
    <3>1. id \in Ids
      BY <2>2 DEF ForkWorker, AtMain, TypeOK, Progress, Starting, Ids
    <3>. QED
      BY <2>1, <2>2, <3>1 DEF ForkWorker
  <2>3. CASE ForkWd
    BY <2>1, <2>3 DEF ForkWd
  <2>4. CASE Refork
    BY <2>1, <2>4, ReplacedEntry DEF Refork, AtMain
  <2>5. CASE ~ForkWorker /\ ~ForkWd /\ ~Refork
    <3>1. UNCHANGED << st, job >> /\ (fork_res' = fork_res \/ fork_res' = -1)
      BY <2>5 DEF MainStep, ForkFailure, Scan, Install, Register1, Register2, Register3,
         Look, Replace1, Replace2, Replace3, ForkWorkerFails, ForkWdFails, ReforkFails,
         RegisterPid, ClearDied, children
    <3>. QED
      BY <3>1 DEF TypeOK
  <2>. QED
    BY <2>2, <2>3, <2>4, <2>5
<1>5. ppd' \in [Index -> Entry] /\ proc_desc_cnt' \in 0 .. PPD_SIZE - 1
  <2>0. ppd \in [Index -> Entry] /\ proc_desc_cnt \in 0 .. PPD_SIZE - 1
    BY DEF TypeOK
  <2>1. CASE Install
    <3>1. [pid |-> Main, ptype |-> "main", id |-> id, died |-> FALSE] \in Entry
      BY <2>1 DEF Install, AtMain, Entry, TypeOK, Progress, Starting, Ids
    <3>2. proc_desc_cnt + 1 \in 0 .. PPD_SIZE - 1
      BY <2>1, <2>0 DEF Install, AtMain, TypeOK, Progress, Starting, PPD_SIZE
    <3>. QED
      BY <2>0, <2>1, <3>1, <3>2 DEF Install, table
  <2>2. CASE Register1
    <3>1. id \in Ids /\ fork_res \in Pids
      BY <2>2 DEF Register1, AtMain, TypeOK, Progress, Starting, Forked, Ids
    <3>2. proc_desc_cnt + 1 \in 0 .. PPD_SIZE - 1
      BY <2>2, <2>0 DEF Register1, AtMain, TypeOK, Progress, Starting, PPD_SIZE
    <3>3. proc_desc_cnt \in Index
      BY <2>0 DEF PPD_SIZE
    <3>4. [pid |-> fork_res, ptype |-> "worker", id |-> id,
           died |-> ppd[proc_desc_cnt].died] \in Entry
      BY <2>0, <3>1, <3>3 DEF Entry
    <3>. QED
      BY <2>0, <2>2, <3>2, <3>4 DEF Register1, RegisterPid
  <2>3. CASE Replace1
    <3>1. /\ i \in Index /\ ppd[i].pid \in Pids /\ ppd[i].pid # 0 /\ Get(ppd[i].pid) = i
          /\ fork_res \in Pids
      BY <2>3, ReplacedEntry DEF Replace1, AtMain, Forked
    <3>2. [pid |-> fork_res, ptype |-> "worker", id |-> ppd[i].id,
           died |-> ppd[i].died] \in Entry
      BY <2>0, <3>1 DEF Entry
    <3>. QED
      BY <2>0, <2>3, <3>1, <3>2 DEF Replace1, RegisterPid
  <2>4. CASE ReforkFails
    <3>1. i \in Index /\ Get(ppd[i].pid) = i
      BY <2>4, ReplacedEntry DEF ReforkFails, AtMain
    <3>2. [pid |-> Main, ptype |-> "worker", id |-> ppd[i].id, died |-> FALSE] \in Entry
      BY <2>0, <3>1 DEF Entry
    <3>. QED
      BY <2>0, <2>4, <3>1, <3>2 DEF ReforkFails
  <2>5. CASE Register2 \/ Replace2
    <3>1. /\ proc_desc_cnt' = proc_desc_cnt
          /\ ppd' = [ppd EXCEPT ![Get(fork_res)].died = FALSE]
      BY <2>5 DEF Register2, Replace2, ClearDied
    <3>2. ASSUME NEW k \in Index, NEW f, f = [ppd[k] EXCEPT !.died = FALSE]
          PROVE  f \in Entry
      BY <2>0, <3>2 DEF Entry
    <3>. QED
      BY <2>0, <3>1, <3>2
  <2>6. CASE ~(Install \/ Register1 \/ Replace1 \/ ReforkFails \/ Register2 \/ Replace2)
    <3>1. UNCHANGED << ppd, proc_desc_cnt >>
      BY <2>6 DEF MainStep, ForkFailure, Scan, ForkWorker, Register3, ForkWd, Look,
         Refork, Replace3, ForkWorkerFails, ForkWdFails, table
    <3>. QED
      BY <2>0, <3>1
  <2>. QED
    BY <2>1, <2>2, <2>3, <2>4, <2>5, <2>6
<1>6. files' \subseteq ({"main_", "wd_", "worker_"} \X ({0, Main} \cup Pids))
  <2>1. CASE Install \/ ReforkFails
    BY <2>1 DEF Install, ReforkFails, TypeOK, Prefix, table
  <2>2. CASE Register3 \/ Replace3
    <3>1. fork_res \in Pids
      BY <2>2 DEF Register3, Replace3, AtMain, Forked
    <3>. QED
      BY <2>2, <3>1 DEF Register3, Replace3, OpenFiles, TypeOK, Prefix
  <2>3. CASE ~(Install \/ ReforkFails \/ Register3 \/ Replace3)
    <3>1. files' = files
      BY <2>3 DEF MainStep, ForkFailure, Scan, ForkWorker, Register1, Register2,
         ForkWd, Look, Refork, Replace1, Replace2, ForkWorkerFails, ForkWdFails,
         Fork, RegisterPid, ClearDied
    <3>. QED
      BY <3>1 DEF TypeOK
  <2>. QED
    BY <2>1, <2>2, <2>3
<1>. QED
  BY <1>0, <1>1, <1>2, <1>3, <1>4, <1>5, <1>6 DEF TypeOK

(* The children's steps and the handler's keep the types.                  *)
LEMMA OtherTypeOK ==
    ASSUME IInv, Handler \/ \E p \in Pids : ChildStep(p) \/ Disturb(p)
    PROVE  TypeOK'
<1>. USE SupervisorAssumption, Numbers DEF IInv
<1>1. CASE Deliver \/ ReapNone
  <2>1. pending' \in BOOLEAN
    BY <1>1 DEF Deliver, ReapNone, TypeOK
  <2>. QED
    BY <1>1, <2>1 DEF Deliver, ReapNone, TypeOK, main, table, children, count
<1>2. CASE Reap
  <2>1. UNCHANGED << main, proc_desc_cnt, pending, job, place, files, count >>
        /\ handler' \in {"default", "installed", "running"}
    BY <1>2 DEF Reap, ReapWith
  <2>2. st' \in [Pids -> {"none", "live", "zombie", "reaped"}]
    BY <1>2 DEF Reap, ReapWith, TypeOK, Zombies
  <2>3. ppd' \in [Index -> Entry]
    <3>0. ppd \in [Index -> Entry]
      BY DEF TypeOK
    <3>1. ppd' = ppd \/ \E p \in Pids : ppd' = [ppd EXCEPT ![Get(p)].died = TRUE]
      BY <1>2 DEF Reap, ReapWith, Zombies
    <3>2. ASSUME NEW k \in Index, NEW f, f = [ppd[k] EXCEPT !.died = TRUE]
          PROVE  f \in Entry
      BY <3>0, <3>2 DEF Entry
    <3>. QED
      BY <3>0, <3>1, <3>2
  <2>. QED
    BY <2>1, <2>2, <2>3 DEF TypeOK, main, count
<1>3. CASE \E p \in Pids : ChildStep(p) \/ Disturb(p)
  <2>1. PICK p \in Pids : ChildStep(p) \/ Disturb(p)
    BY <1>3
  <2>2. UNCHANGED << main, table, handler, job >>
    BY <2>1 DEF ChildStep, Disturb, ChildStart, WorkerLogsNowhere, Crash, Term, Hup, signals
  <2>3. /\ st' \in [Pids -> {"none", "live", "zombie", "reaped"}]
        /\ place' \in [Pids -> {"born", "running", "unregistered"}]
    BY <2>1 DEF ChildStep, Disturb, ChildStart, WorkerLogsNowhere, Crash, Term, Hup,
       Dies, Goto, TypeOK
  <2>4. early' \subseteq Pids /\ pending' \in BOOLEAN
    BY <2>1 DEF ChildStep, Disturb, ChildStart, WorkerLogsNowhere, Crash, Term, Hup,
       Dies, TypeOK, signals, count
  <2>5. deaths' \in 0 .. MaxDeaths
    BY <2>1 DEF ChildStep, Disturb, ChildStart, WorkerLogsNowhere, Crash, Term, Hup,
       TypeOK, count
  <2>6. files' \subseteq ({"main_", "wd_", "worker_"} \X ({0, Main} \cup Pids))
    <3>1. Prefix(JobType(p)) \in {"main_", "wd_", "worker_"}
      BY DEF Prefix, JobType
    <3>2. files' \subseteq files \cup {<< Prefix(JobType(p)), p >>}
      BY <2>1 DEF ChildStep, Disturb, ChildStart, WorkerLogsNowhere, Crash, Term, Hup,
         Unregister
    <3>. QED
      BY <3>1, <3>2 DEF TypeOK
  <2>. QED
    BY <2>2, <2>3, <2>4, <2>5, <2>6 DEF TypeOK, main, table
<1>. QED
  BY <1>1, <1>2, <1>3 DEF Handler

(* IInv is an invariant of main, its handler and its children.             *)
THEOREM SupervisorInvariant == Spec => []IInv
<1>1. IInv /\ [Next]_vars => IInv'
  <2>. SUFFICES ASSUME IInv, [Next]_vars PROVE TypeOK' /\ Rest'
    BY DEF IInv, Rest, TableInv
  <2>1. CASE MainStep \/ ForkFailure
    <3>1. Rest'
      BY <2>1, ForkWorkerStep, ScanStep, InstallStep, Register1Step, ClearDiedStep,
         MainGoesOn, ForkWdStep, ReforkStep, ReforkFailsStep, Replace1Step
         DEF MainStep, ForkFailure
    <3>. QED
      BY <2>1, <3>1, MainTypeOK
  <2>2. CASE Handler
    <3>1. TypeOK'
      BY <2>2, OtherTypeOK
    <3>2. CASE Reap
      BY <3>1, <3>2, ReapStep DEF Rest
    <3>3. CASE Deliver \/ ReapNone
      <4>1. UNCHANGED << main, table, st, job, early >>
        BY <3>3 DEF Deliver, ReapNone, children, count
      <4>2. NoHandlerYet' /\ ZombiesNoticed'
        BY <3>3, <4>1 DEF Deliver, ReapNone, IInv, NoHandlerYet, ZombiesNoticed, Zombies
      <4>. QED
        BY <3>1, <4>1, <4>2, QuietStep DEF Rest
    <3>. QED
      BY <2>2, <3>2, <3>3 DEF Handler
  <2>3. CASE \E p \in Pids : ChildStep(p) \/ Disturb(p)
    <3>0. TypeOK'
      BY <2>3, OtherTypeOK
    <3>1. PICK p \in Pids : ChildStep(p) \/ Disturb(p)
      BY <2>3
    <3>2. CASE Crash(p) \/ Term(p) \/ WorkerLogsNowhere(p)
      <4>1. st[p] = "live" /\ Dies(p) /\ UNCHANGED << main, table, handler, job >>
        BY <3>2 DEF Crash, Term, WorkerLogsNowhere
      <4>. QED
        BY <3>0, <4>1, DeathStep DEF Rest
    <3>3. CASE ChildStart(p) \/ Hup(p)
      <4>1. UNCHANGED << main, table, st, job, early, handler, pending >>
        BY <3>3 DEF ChildStart, Hup, signals, count
      <4>2. NoHandlerYet' /\ ZombiesNoticed'
        BY <4>1 DEF main, IInv, NoHandlerYet, ZombiesNoticed, Zombies
      <4>. QED
        BY <3>0, <4>1, <4>2, QuietStep DEF Rest
    <3>. QED
      BY <3>1, <3>2, <3>3 DEF ChildStep, Disturb
  <2>4. CASE UNCHANGED vars
    <3>1. UNCHANGED << main, table, st, job, early, handler, pending >>
      BY <2>4 DEF vars, signals, children, count
    <3>2. NoHandlerYet' /\ ZombiesNoticed'
      BY <3>1 DEF main, IInv, NoHandlerYet, ZombiesNoticed, Zombies
    <3>3. TypeOK'
      BY <2>4 DEF vars, main, table, signals, children, count, IInv, TypeOK
    <3>. QED
      BY <3>1, <3>2, <3>3, QuietStep DEF Rest
  <2>. QED
    BY <2>1, <2>2, <2>3, <2>4 DEF Next
<1>. QED
  BY <1>1, InitIInv, PTL DEF Spec

(* The variables keep their types: main's table has room for every worker. *)
THEOREM TypeCorrect == Spec => []TypeOK
<1>1. IInv => TypeOK
  BY DEF IInv
<1>. QED
  BY <1>1, SupervisorInvariant, PTL

(* No worker's job is ever done by two live processes: main forks a worker *)
(* again only for an entry whose process has been reaped (lines 458-482).  *)
THEOREM OneProcessPerWorkerThm == Spec => []OneProcessPerWorker
<1>1. IInv => OneProcessPerWorker
  <2>. SUFFICES ASSUME IInv, NEW p \in Pids, NEW q \in Pids,
                       st[p] = "live", st[q] = "live", job[p] = job[q]
                PROVE  p = q
    BY DEF OneProcessPerWorker
  <2>. USE SupervisorAssumption, Numbers DEF IInv
  <2>1. CASE job[p] = WD
    BY <2>1 DEF Watchdog
  <2>2. CASE job[p] # WD
    <3>1. ASSUME NEW r \in Pids, st[r] = "live", job[r] = job[p], at \in Unlisted,
                 fork_res = r, job[p] + 1 < proc_desc_cnt, ppd[job[p] + 1].pid = p
          PROVE  r = p
      <4>1. CASE at \in {"install", "register"}
        BY <3>1, <4>1 DEF Forked, Progress, TypeOK
      <4>2. CASE at = "replace"
        BY <3>1, <4>2, ReplacedEntry DEF Forked, TypeOK
      <4>. QED
        BY <3>1, <4>1, <4>2 DEF Unlisted
    <3>2. ASSUME NEW r \in Pids, st[r] = "live", job[r] = job[p], at \in Unlisted,
                 fork_res = p, job[p] + 1 < proc_desc_cnt, ppd[job[p] + 1].pid = r
          PROVE  r = p
      <4>1. CASE at \in {"install", "register"}
        BY <3>2, <4>1 DEF Forked, Progress, TypeOK
      <4>2. CASE at = "replace"
        BY <3>2, <4>2, ReplacedEntry DEF Forked, TypeOK
      <4>. QED
        BY <3>2, <4>1, <4>2 DEF Unlisted
    <3>. QED
      BY <2>2, <3>1, <3>2 DEF UnreapedListed
  <2>. QED
    BY <2>1, <2>2
<1>. QED
  BY <1>1, SupervisorInvariant, PTL

(* A registered worker that is reaped is flagged, unless it died while     *)
(* main was registering it (lines 214-220 against line 102).               *)
THEOREM RegisteredDeathFlaggedThm == Spec => []RegisteredDeathFlagged
<1>1. IInv => RegisteredDeathFlagged
  BY DEF IInv
<1>. QED
  BY <1>1, SupervisorInvariant, PTL

(* With merged signals a zombie is left behind only by an early death or   *)
(* by the watchdog's (line 217).                                           *)
THEOREM ZombiesNoticedThm == Spec => []ZombiesNoticed
<1>1. IInv => ZombiesNoticed
  BY DEF IInv
<1>. QED
  BY <1>1, SupervisorInvariant, PTL


-----------------------------------------------------------------------------
(* The table of calls.                                                     *)

(* syscall_def.h: fifteen calls of up to three arguments.  The last but    *)
(* one, nanosleep, has nothing but a TIMESPEC for its first.               *)
LEMMA CallTable ==
    /\ SYSCALL_NUM = 15
    /\ \A k \in 1 .. 15 : Len(fuzzer_call_spec_list[k].arg_type) \in {1, 2, 3}
    /\ fuzzer_call_spec_list[14].arg_type[1] = {"TIMESPEC"}
    /\ Len(fuzzer_call_spec_list[14].arg_type) = 2
<1>1. SYSCALL_NUM = 15
  BY DEF SYSCALL_NUM, fuzzer_call_spec_list
<1>2. fuzzer_call_spec_list[14] = [scid |-> "nanosleep", arg_type |-> <<{"TIMESPEC"}, {"TIMESPEC", "NULL"}>>]
  BY DEF fuzzer_call_spec_list
<1>3. ASSUME NEW k \in 1 .. 15 PROVE Len(fuzzer_call_spec_list[k].arg_type) \in {1, 2, 3}
  BY SMTT(60) DEF fuzzer_call_spec_list
<1>. QED
  BY <1>1, <1>2, <1>3

-----------------------------------------------------------------------------
(* The worker's inductive invariant.                                       *)

TypesOf(k) == UNION {fuzzer_call_spec_list[k].arg_type[j] : j \in 1 .. 3}
FuzzTypes == UNION {TypesOf(k) : k \in 1 .. 15}
Regions == [type : FuzzTypes, value : Fd \cup Garbage \cup Entries \cup Absolute \cup {NoPath, "data"}]

(* What the pool holds: entries the callback has not come to are 0; those  *)
(* behind the last open one were not in use when they were entered, and    *)
(* have come into use since by a call of open or creat only.               *)
PoolInv ==
    /\ \A k \in 0 .. PoolSize - 1 : k >= fd_pool_cnt => fd_pool[k].fd = 0
    /\ \A k \in 0 .. fd_pool_cnt - 1 : k > FD_POOL_NUM_WOPEN => fd_pool[k].fd \notin fds \ leaked

(* A worker that goes through the table stops at nanosleep.                *)
BeforeNanosleep == RoundRobbin(wid) => sc <= 14 /\ (sc = 14 => arg = <<>>)

SandboxInv ==
    /\ SandboxConstants
    /\ SandboxTypeOK /\ arg \in Seq(Regions)
    /\ stage = "populate" => arg = <<>>
    /\ PoolInv /\ PoolStaysOpen /\ BeforeNanosleep

-----------------------------------------------------------------------------
(* Sizes, and numbers that are no descriptor.                              *)
LEMMA SandboxNumbers ==
    ASSUME SandboxConstants
    PROVE
    /\ FD_POOL_NUM_ROPEN \in Nat \ {0} /\ FD_POOL_NUM_WOPEN \in Nat \ {0} /\ FD_POOL_NUM_CLOSED \in Nat \ {0}
    /\ PoolSize \in Nat \ {0} /\ MaxFd \in Nat \ {0} /\ Times \in Nat \ {0}
    /\ 0 \in Fd /\ \A k \in Nat : DescriptorArg(k) \notin Fd
  BY DEF SandboxConstants, PoolSize, Fd, DescriptorArg

(* The arguments of the call that is made have a place in the table.       *)
LEMMA DescOfCall ==
    ASSUME NEW s \in 1 .. SYSCALL_NUM
    PROVE  Len(fuzzer_call_spec_list[s].arg_type) \in 1 .. 3
  BY CallTable

(* The batch of a worker (fuzzer.c, worker()).                             *)
LEMMA BatchTypes == ASSUME SandboxConstants PROVE TimesOf(wid) \in 1 .. Times
  BY SandboxNumbers DEF TimesOf

(* A worker as it starts.                                                  *)
LEMMA SandboxInitInv == SandboxConstants /\ SandboxInit => SandboxInv
<1>. SUFFICES ASSUME SandboxConstants, SandboxInit PROVE SandboxInv
  OBVIOUS
<1>1. arg = <<>> /\ Len(arg) = 0 /\ arg \in Seq(Regions)
  BY DEF SandboxInit
<1>2. argnum \in 1 .. 3 /\ sc = 1 /\ sc \in 1 .. SYSCALL_NUM
  BY CallTable DEF SandboxInit, argnum, Desc
<1>3. SandboxTypeOK
  <2>1. fd_pool \in [0 .. PoolSize - 1 -> [fd : Fd, mode : {"RDONLY", "WRONLY", "CLOSED"}]]
    BY SandboxNumbers DEF SandboxInit
  <2>2. fd_pool_cnt \in 0 .. PoolSize /\ fds \subseteq Fd /\ leaked \subseteq fds /\ left \in 1 .. Times
    BY SandboxNumbers, BatchTypes DEF SandboxInit
  <2>. QED
    BY <1>1, <1>2, <2>1, <2>2 DEF SandboxInit, SandboxTypeOK
<1>4. PoolInv /\ PoolStaysOpen
  BY <1>1, SandboxNumbers DEF SandboxInit, PoolInv, PoolStaysOpen
<1>5. BeforeNanosleep
  BY <1>1, <1>2 DEF BeforeNanosleep
<1>. QED
  BY <1>1, <1>3, <1>4, <1>5 DEF SandboxInv

(* fd_pool_populate: one entry of the tree (sandbox.c lines 149-202).      *)
LEMMA VisitStep ==
    ASSUME SandboxInv, NEW e \in Entries, FdPoolVisit(e)
    PROVE  SandboxInv'
<1>1. /\ stage = "populate" /\ arg = <<>> /\ walk' \subseteq Entries
      /\ UNCHANGED <<wid, stage, leaked, callback_path_tmp, cwd, sc, left, arg>>
  BY DEF SandboxInv, SandboxTypeOK, FdPoolVisit
<1>2. arg' = <<>> /\ arg' \in Seq(Regions) /\ Len(arg') = 0 /\ argnum' = argnum
  BY <1>1 DEF argnum, Desc
<1>3. BeforeNanosleep'
  BY <1>1 DEF SandboxInv, BeforeNanosleep, RoundRobbin
<1>4. CASE UNCHANGED <<fd_pool, fd_pool_cnt, fds>>
  <2>1. SandboxTypeOK'
    BY <1>1, <1>2, <1>4 DEF SandboxInv, SandboxTypeOK
  <2>2. PoolInv' /\ PoolStaysOpen'
    BY <1>1, <1>2, <1>4 DEF SandboxInv, PoolInv, PoolStaysOpen
  <2>. QED
    BY <1>1, <1>2, <1>3, <2>1, <2>2 DEF SandboxInv
<1>5. CASE ~UNCHANGED <<fd_pool, fd_pool_cnt, fds>>
  <2>1. PICK f \in Fd \ fds :
           /\ fd_pool' = [fd_pool EXCEPT ![fd_pool_cnt] = [fd |-> f, mode |-> PoolMode(fd_pool_cnt)]]
           /\ fds' = IF PoolMode(fd_pool_cnt) = "CLOSED" THEN fds ELSE fds \cup {f}
           /\ fd_pool_cnt' = fd_pool_cnt + 1 /\ fd_pool_cnt < PoolSize
    BY <1>5 DEF FdPoolVisit
  <2>2. PICK c \in 0 .. PoolSize - 1 : c = fd_pool_cnt
    BY <2>1, SandboxNumbers DEF SandboxInv, SandboxTypeOK
  <2>3. PICK m \in {"RDONLY", "WRONLY", "CLOSED"} : m = PoolMode(c) /\ (c > FD_POOL_NUM_WOPEN => m = "CLOSED")
    <3>1. CASE c > FD_POOL_NUM_WOPEN
      BY <3>1, SandboxNumbers DEF SandboxInv, PoolMode
    <3>2. CASE c <= FD_POOL_NUM_WOPEN /\ c > FD_POOL_NUM_ROPEN
      BY <3>2, SandboxNumbers DEF SandboxInv, PoolMode
    <3>3. CASE c <= FD_POOL_NUM_WOPEN /\ ~(c > FD_POOL_NUM_ROPEN)
      BY <3>3, SandboxNumbers DEF PoolMode
    <3>. QED
      BY <3>1, <3>2, <3>3, SandboxNumbers DEF SandboxInv
  <2>4. /\ fd_pool' = [fd_pool EXCEPT ![c] = [fd |-> f, mode |-> m]] /\ fd_pool_cnt' = c + 1
        /\ fds' = IF m = "CLOSED" THEN fds ELSE fds \cup {f}
    BY <2>1, <2>2, <2>3
  <2>5. /\ fd_pool \in [0 .. PoolSize - 1 -> [fd : Fd, mode : {"RDONLY", "WRONLY", "CLOSED"}]]
        /\ fd_pool' \in [0 .. PoolSize - 1 -> [fd : Fd, mode : {"RDONLY", "WRONLY", "CLOSED"}]]
        /\ fd_pool'[c] = [fd |-> f, mode |-> m]
        /\ \A k \in 0 .. PoolSize - 1 : k # c => fd_pool'[k] = fd_pool[k]
    BY <2>1, <2>2, <2>4 DEF SandboxInv, SandboxTypeOK
  <2>6. fds \subseteq fds' /\ fds' \subseteq Fd /\ leaked' = leaked /\ leaked' \subseteq fds' /\ PoolSize \in Nat
    BY <1>1, <2>1, <2>4, SandboxNumbers DEF SandboxInv, SandboxTypeOK
  <2>7. SandboxTypeOK'
    BY <1>1, <1>2, <2>4, <2>5, <2>6 DEF SandboxInv, SandboxTypeOK
  <2>8. PoolInv'
    <3>1. ASSUME NEW k \in 0 .. PoolSize - 1, k >= c + 1 PROVE fd_pool'[k].fd = 0
      BY <2>2, <2>5, <2>6, <3>1 DEF SandboxInv, PoolInv
    <3>2. ASSUME NEW k \in 0 .. c, k > FD_POOL_NUM_WOPEN PROVE fd_pool'[k].fd \notin fds' \ leaked
      <4>1. m = "CLOSED" /\ fds' = fds
        BY <2>2, <2>3, <2>4, <3>2, SandboxNumbers DEF SandboxInv
      <4>2. CASE k = c
        BY <2>1, <2>5, <4>1, <4>2
      <4>3. CASE k # c
        <5>1. k \in 0 .. PoolSize - 1 /\ k \in 0 .. fd_pool_cnt - 1
          BY <2>2, <2>6, <4>3
        <5>. QED
          BY <2>5, <3>2, <4>1, <4>3, <5>1 DEF SandboxInv, PoolInv
      <4>. QED
        BY <4>2, <4>3
    <3>3. (c + 1) - 1 = c
      OBVIOUS
    <3>. QED
      BY <2>4, <2>6, <3>1, <3>2, <3>3 DEF PoolInv
  <2>9. PoolStaysOpen'
    <3>1. ASSUME NEW k \in 0 .. c, fd_pool'[k].mode # "CLOSED" PROVE fd_pool'[k].fd \in fds'
      <4>1. CASE k = c
        BY <2>4, <2>5, <3>1, <4>1
      <4>2. CASE k # c
        <5>1. k \in 0 .. PoolSize - 1 /\ k \in 0 .. fd_pool_cnt - 1
          BY <2>2, <2>6, <4>2
        <5>. QED
          BY <2>5, <2>6, <3>1, <4>2, <5>1 DEF SandboxInv, PoolStaysOpen
      <4>. QED
        BY <4>1, <4>2
    <3>2. (c + 1) - 1 = c
      OBVIOUS
    <3>. QED
      BY <1>2, <2>4, <3>1, <3>2 DEF PoolStaysOpen
  <2>. QED
    BY <1>1, <1>2, <1>3, <2>7, <2>8, <2>9 DEF SandboxInv
<1>. QED
  BY <1>4, <1>5

(* An argument is made up, of whatever value: it joins the others.         *)
LEMMA MadeStep ==
    ASSUME SandboxInv, stage = "call", Len(arg) < argnum, NEW type \in NextTypes, NEW value,
           value \in Fd \cup Garbage \cup Entries \cup Absolute \cup {NoPath, "data"},
           type \notin TimeTypes, Made(type, value), callback_path_tmp' \in Entries \cup {NoPath},
           UNCHANGED <<wid, stage, pool, fds, leaked, cwd, sc, left>>
    PROVE  SandboxInv'
<1>1. UNCHANGED <<wid, stage, fd_pool, fd_pool_cnt, walk, fds, leaked, cwd, sc, left>>
  BY DEF pool
<1>2. PICK l \in Nat : l = Len(arg)
  BY DEF SandboxInv
<1>3. sc \in 1 .. 15 /\ argnum \in 1 .. 3 /\ argnum' = argnum /\ l + 1 \in 1 .. 3
  <2>1. sc \in 1 .. SYSCALL_NUM
    BY DEF SandboxInv, SandboxTypeOK
  <2>2. argnum \in 1 .. 3
    BY <2>1, DescOfCall DEF argnum, Desc
  <2>3. argnum' = argnum
    BY <1>1 DEF argnum, Desc
  <2>. QED
    BY <1>2, <2>1, <2>2, <2>3, CallTable
<1>4. type \in fuzzer_call_spec_list[sc].arg_type[l + 1]
  BY <1>2 DEF NextTypes, Desc
<1>5. type \in FuzzTypes
  <2>1. type \in TypesOf(sc)
    BY <1>3, <1>4 DEF TypesOf
  <2>. QED
    BY <1>3, <2>1 DEF FuzzTypes
<1>6. PICK e : e = [type |-> type, value |-> value]
  OBVIOUS
<1>7. e \in Regions
  BY <1>5, <1>6 DEF Regions
<1>8. /\ arg' \in Seq(Regions) /\ Len(arg') = l + 1 /\ arg'[l + 1] = e
      /\ \A k \in 1 .. l : arg'[k] = arg[k]
  <2>1. arg' = Append(arg, e)
    BY <1>6 DEF Made
  <2>. QED
    BY <1>2, <1>7, <2>1 DEF SandboxInv
<1>9. SandboxTypeOK'
  BY <1>1, <1>2, <1>3, <1>8 DEF SandboxInv, SandboxTypeOK
<1>10. PoolInv'
  BY <1>1 DEF SandboxInv, PoolInv
<1>11. PoolStaysOpen'
  BY <1>1 DEF SandboxInv, PoolStaysOpen
<1>12. BeforeNanosleep'
  <2>1. ASSUME RoundRobbin(wid) PROVE sc <= 14 /\ sc # 14
    <3>1. sc <= 14 /\ (sc = 14 => l = 0)
      BY <1>2, <2>1 DEF SandboxInv, BeforeNanosleep
    <3>2. sc = 14 => type = "TIMESPEC"
      BY <1>4, <3>1, CallTable
    <3>. QED
      BY <3>1, <3>2 DEF TimeTypes
  <2>. QED
    BY <1>1, <2>1 DEF BeforeNanosleep, RoundRobbin
<1>. QED
  BY <1>1, <1>8, <1>9, <1>10, <1>11, <1>12 DEF SandboxInv

(* sandbox_syscall_fuzargs: one argument (sandbox.c lines 255-350).        *)
LEMMA FuzStep ==
    ASSUME SandboxInv, FuzFd \/ FuzPathExist \/ FuzPathNonexist \/ FuzTime \/ FuzData
    PROVE  SandboxInv'
<1>0. callback_path_tmp \in Entries \cup {NoPath}
  BY DEF SandboxInv, SandboxTypeOK
<1>1. ASSUME NEW type \in NextTypes PROVE stage = "call" /\ Len(arg) < argnum
  BY <1>1 DEF NextTypes
<1>2. CASE FuzFd
  <2>0. PICK type \in NextTypes \cap FdTypes : \E k \in PoolIndexes(type) :
           \E value \in (IF k < PoolSize THEN {fd_pool[k].fd} ELSE Garbage) : Made(type, value)
    BY <1>2 DEF FuzFd
  <2>1. PICK k \in PoolIndexes(type) :
           \E value \in (IF k < PoolSize THEN {fd_pool[k].fd} ELSE Garbage) : Made(type, value)
    BY <2>0
  <2>2. PICK v \in (IF k < PoolSize THEN {fd_pool[k].fd} ELSE Garbage) : Made(type, v)
    BY <2>1
  <2>3. k < PoolSize => k \in 0 .. PoolSize - 1
    BY SandboxNumbers DEF SandboxInv, PoolIndexes
  <2>4. v \in Fd \cup Garbage
    BY <2>2, <2>3 DEF SandboxInv, SandboxTypeOK
  <2>5. Made(type, v) /\ type \in NextTypes /\ type \notin TimeTypes
    BY <2>1, <2>2 DEF FdTypes, TimeTypes
  <2>6. UNCHANGED <<wid, stage, pool, fds, leaked, callback_path_tmp, cwd, sc, left>>
    BY <1>2 DEF FuzFd
  <2>. QED
    BY <1>0, <1>1, <2>4, <2>5, <2>6, MadeStep
<1>3. CASE FuzPathExist
  <2>1. PICK type \in NextTypes \cap {"FILE_EXIST", "DIR_EXIST"} :
           /\ \/ UNCHANGED callback_path_tmp
              \/ callback_path_tmp' \in (IF type = "DIR_EXIST" THEN Dirs ELSE Files)
           /\ Made(type, callback_path_tmp')
    BY <1>3 DEF FuzPathExist
  <2>2. callback_path_tmp' \in Entries \cup {NoPath}
    BY <1>0, <2>1 DEF Entries
  <2>3. type \in NextTypes /\ type \notin TimeTypes /\ type \notin FdTypes
    BY <2>1 DEF FdTypes, TimeTypes
  <2>4. UNCHANGED <<wid, stage, pool, fds, leaked, cwd, sc, left>>
    BY <1>3 DEF FuzPathExist
  <2>5. PICK v : v = callback_path_tmp'
    OBVIOUS
  <2>. QED
    BY <1>1, <2>1, <2>2, <2>3, <2>4, <2>5, MadeStep
<1>4. CASE FuzPathNonexist
  <2>1. PICK path \in Absolute : Made("FILE_NONEXIST", path)
    BY <1>4 DEF FuzPathNonexist
  <2>2. "FILE_NONEXIST" \in NextTypes /\ "FILE_NONEXIST" \notin TimeTypes /\ "FILE_NONEXIST" \notin FdTypes
    BY <1>4 DEF FuzPathNonexist, FdTypes, TimeTypes
  <2>3. UNCHANGED <<wid, stage, pool, fds, leaked, callback_path_tmp, cwd, sc, left>>
    BY <1>4 DEF FuzPathNonexist
  <2>. QED
    BY <1>0, <1>1, <2>1, <2>2, <2>3, MadeStep
<1>5. CASE FuzTime
  <2>1. /\ stage' = "crashed"
        /\ UNCHANGED <<wid, fd_pool, fd_pool_cnt, walk, fds, leaked, callback_path_tmp, cwd, sc, left, arg>>
    BY <1>5 DEF FuzTime, pool
  <2>. QED
    BY <2>1 DEF SandboxInv, SandboxTypeOK, argnum, Desc, PoolInv, PoolStaysOpen, BeforeNanosleep, RoundRobbin
<1>6. CASE FuzData
  <2>1. PICK type \in NextTypes \ (FdTypes \cup PathTypes \cup TimeTypes) :
           Made(type, IF type = "NULL" THEN NoPath ELSE "data")
    BY <1>6 DEF FuzData
  <2>2. PICK v \in {NoPath, "data"} : v = IF type = "NULL" THEN NoPath ELSE "data"
    OBVIOUS
  <2>3. Made(type, v) /\ type \in NextTypes /\ type \notin TimeTypes /\ type \notin FdTypes
    BY <2>1, <2>2
  <2>4. UNCHANGED <<wid, stage, pool, fds, leaked, callback_path_tmp, cwd, sc, left>>
    BY <1>6 DEF FuzData
  <2>. QED
    BY <1>0, <1>1, <2>2, <2>3, <2>4, MadeStep
<1>. QED
  BY <1>2, <1>3, <1>4, <1>5, <1>6

(* The loops around a call: whatever it did, the pool stays as it was and  *)
(* the arguments are forgotten (sandbox_syscall_run, and worker()).        *)
LEMMA NextCallStep ==
    ASSUME SandboxInv, Ready, NextCall, stage' = stage,
           cwd' \in Dirs \cup Absolute \cup {Home},
           fds \subseteq fds', fds' \subseteq Fd, leaked' \subseteq fds', fds' \ leaked' \subseteq fds \ leaked
    PROVE  SandboxInv'
<1>1. arg' = <<>> /\ arg' \in Seq(Regions) /\ Len(arg') = 0
  BY DEF NextCall
<1>2. UNCHANGED <<wid, fd_pool, fd_pool_cnt, walk, callback_path_tmp>>
  BY DEF NextCall, pool
<1>3. PICK s \in 1 .. 15 : s = sc
  BY CallTable DEF SandboxInv, SandboxTypeOK
<1>4. /\ sc' \in 1 .. 15 /\ left' \in 1 .. Times
      /\ RoundRobbin(wid) => sc' \in {s, (s % 15) + 1}
  <2>1. (s % 15) + 1 \in 1 .. 15
    OBVIOUS
  <2>2. left \in 1 .. Times /\ Times \in Nat
    BY SandboxNumbers DEF SandboxInv, SandboxTypeOK
  <2>3. CASE left > 1
    <3>1. left' = left - 1 /\ sc' = s
      BY <1>3, <2>3 DEF NextCall
    <3>. QED
      BY <2>2, <2>3, <3>1
  <2>4. CASE ~(left > 1)
    <3>1. Choose((s % 15) + 1)
      BY <1>3, <2>4, CallTable DEF NextCall
    <3>2. sc' \in (IF RoundRobbin(wid) THEN {(s % 15) + 1} ELSE 1 .. 15) /\ left' \in 1 .. Times
      BY <3>1, BatchTypes, CallTable DEF SandboxInv, Choose
    <3>. QED
      BY <2>1, <3>2
  <2>. QED
    BY <2>3, <2>4
<1>5. argnum' \in 1 .. 3
  <2>1. Len(fuzzer_call_spec_list[sc'].arg_type) \in 1 .. 3
    BY <1>4, CallTable
  <2>. QED
    BY <2>1 DEF argnum, Desc
<1>6. SandboxTypeOK'
  BY <1>1, <1>2, <1>4, <1>5, CallTable DEF SandboxInv, SandboxTypeOK, SYSCALL_NUM, fuzzer_call_spec_list
<1>7. PoolInv'
  BY <1>2 DEF SandboxInv, PoolInv
<1>8. PoolStaysOpen'
  BY <1>1, <1>2 DEF SandboxInv, PoolStaysOpen
<1>9. BeforeNanosleep'
  <2>1. ASSUME RoundRobbin(wid) PROVE sc' <= 14
    <3>1. s <= 14 /\ (s = 14 => arg = <<>>)
      BY <1>3, <2>1 DEF SandboxInv, BeforeNanosleep
    <3>2. s # 14
      <4>1. s = 14 => argnum = 2
        BY <1>3, CallTable DEF argnum, Desc
      <4>2. arg = <<>> => Len(arg) = 0
        OBVIOUS
      <4>. QED
        BY <3>1, <4>1, <4>2 DEF Ready
    <3>. QED
      BY <1>4, <2>1, <3>1, <3>2
  <2>. QED
    BY <1>1, <1>2, <2>1 DEF BeforeNanosleep, RoundRobbin
<1>. QED
  BY <1>1, <1>6, <1>7, <1>8, <1>9 DEF SandboxInv

(* sandbox_syscall_run, and the first call of all (sandbox.c lines         *)
(* 430-470): what the kernel does to the worker.                           *)
LEMMA CallStep ==
    ASSUME SandboxInv, FdPoolDone \/ NoEffect \/ Opens \/ Closes \/ Chdir \/ Execve
    PROVE  SandboxInv'
<1>0. cwd \in Dirs \cup Absolute \cup {Home} /\ fds \subseteq Fd /\ leaked \subseteq fds
  BY DEF SandboxInv, SandboxTypeOK
<1>1. CASE FdPoolDone
  <2>1. /\ stage' = "call" /\ Choose(1) /\ arg = <<>> /\ arg' = arg
        /\ UNCHANGED <<wid, fd_pool, fd_pool_cnt, walk, fds, leaked, callback_path_tmp, cwd>>
    BY <1>1 DEF FdPoolDone, pool, SandboxInv
  <2>2. sc' \in 1 .. 15 /\ left' \in 1 .. Times /\ (RoundRobbin(wid) => sc' = 1)
    BY <2>1, BatchTypes, CallTable DEF SandboxInv, Choose
  <2>3. argnum' \in 1 .. 3
    <3>1. Len(fuzzer_call_spec_list[sc'].arg_type) \in 1 .. 3
      BY <2>2, CallTable
    <3>. QED
      BY <3>1 DEF argnum, Desc
  <2>4. Len(arg') = 0 /\ arg' \in Seq(Regions)
    BY <2>1
  <2>5. SandboxTypeOK'
    BY <2>1, <2>2, <2>3, <2>4, CallTable DEF SandboxInv, SandboxTypeOK, SYSCALL_NUM, fuzzer_call_spec_list
  <2>6. PoolInv' /\ PoolStaysOpen'
    BY <2>1 DEF SandboxInv, PoolInv, PoolStaysOpen
  <2>7. BeforeNanosleep'
    BY <2>1, <2>2 DEF BeforeNanosleep, RoundRobbin
  <2>. QED
    BY <2>1, <2>4, <2>5, <2>6, <2>7 DEF SandboxInv
<1>2. CASE NoEffect
  BY <1>0, <1>2, NextCallStep DEF NoEffect
<1>3. CASE Opens
  <2>1. Ready /\ NextCall /\ stage' = stage /\ cwd' = cwd
    BY <1>3 DEF Opens, Calling
  <2>2. PICK f \in Fd \ fds : fds' = fds \cup {f} /\ leaked' = leaked \cup {f}
    BY <1>3 DEF Opens
  <2>. QED
    BY <1>0, <2>1, <2>2, NextCallStep
<1>4. CASE Closes
  <2>1. Ready /\ NextCall /\ stage' = stage /\ cwd' = cwd
    BY <1>4 DEF Closes, Calling
  <2>2. fds' = fds /\ leaked' = leaked
    BY <1>0, <1>4, SandboxNumbers DEF SandboxInv, Closes
  <2>. QED
    BY <1>0, <2>1, <2>2, NextCallStep
<1>5. CASE Chdir
  <2>1. Ready /\ NextCall /\ stage' = stage /\ fds' = fds /\ leaked' = leaked
    BY <1>5 DEF Chdir, Calling
  <2>2. cwd' \in Dirs \cup Absolute
    BY <1>5 DEF Chdir, Found, Entries
  <2>. QED
    BY <1>0, <2>1, <2>2, NextCallStep
<1>6. CASE Execve
  <2>1. /\ stage' = "replaced"
        /\ UNCHANGED <<wid, fd_pool, fd_pool_cnt, walk, fds, leaked, callback_path_tmp, cwd, sc, left, arg>>
    BY <1>6 DEF Execve, pool
  <2>. QED
    BY <2>1 DEF SandboxInv, SandboxTypeOK, argnum, Desc, PoolInv, PoolStaysOpen, BeforeNanosleep, RoundRobbin
<1>. QED
  BY <1>1, <1>2, <1>3, <1>4, <1>5, <1>6

-----------------------------------------------------------------------------
(* The worker's invariant, for a pool, a table of descriptors and a tree   *)
(* of any size.                                                            *)
THEOREM SandboxInvariant == SandboxConstants /\ SandboxSpec => []SandboxInv
<1>1. SandboxInv /\ [SandboxNext]_sandbox_vars => SandboxInv'
  <2>. SUFFICES ASSUME SandboxInv, [SandboxNext]_sandbox_vars PROVE SandboxInv'
    OBVIOUS
  <2>1. CASE Step
    BY <2>1, VisitStep, FuzStep, CallStep DEF Step
  <2>2. CASE UNCHANGED sandbox_vars
    <3>1. UNCHANGED <<wid, stage, fd_pool, fd_pool_cnt, walk, fds, leaked, callback_path_tmp, cwd, sc, left, arg>>
      BY <2>2 DEF sandbox_vars, pool
    <3>. QED
      BY <3>1 DEF SandboxInv, SandboxTypeOK, argnum, Desc, PoolInv, PoolStaysOpen, BeforeNanosleep, RoundRobbin
  <2>. QED
    BY <2>1, <2>2 DEF SandboxNext
<1>. QED
  BY <1>1, SandboxInitInv, PTL DEF SandboxSpec

(* The types hold: the pool is never overrun.                              *)
THEOREM SandboxTypeCorrect == SandboxConstants /\ SandboxSpec => []SandboxTypeOK
<1>1. SandboxInv => SandboxTypeOK
  BY DEF SandboxInv
<1>. QED
  BY <1>1, SandboxInvariant, PTL

(* What the pool has as opened stays open for the worker's life, whatever  *)
(* it calls and whatever the read behind the pool gives: sandbox.c lines   *)
(* 149-202 and 260-267 with the calls of syscall_def.h.                    *)
THEOREM PoolStaysOpenThm == SandboxConstants /\ SandboxSpec => []PoolStaysOpen
<1>1. SandboxInv => PoolStaysOpen
  BY DEF SandboxInv
<1>. QED
  BY <1>1, SandboxInvariant, PTL

(* A worker that goes through the table makes no call of nanosleep, and    *)
(* comes to nothing behind it: what fuzzer.c line 266 says of the cycle    *)
(* fails for every size of the pool and the tree (sandbox.c lines          *)
(* 331-343).                                                               *)
THEOREM BeforeNanosleepThm == SandboxConstants /\ SandboxSpec => []BeforeNanosleep
<1>1. SandboxInv => BeforeNanosleep
  BY DEF SandboxInv
<1>. QED
  BY <1>1, SandboxInvariant, PTL
====
