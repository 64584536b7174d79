---------------------------- MODULE FuzzSandbox -----------------------------
(***************************************************************************)
(* What a worker of the fuzzer does between its start and its end: fill    *)
(* the pool of descriptors, then for ever choose a system call, make up    *)
(* its arguments in the sandbox regions and call it (sandbox.c,            *)
(* syscall_def.h, syscall_def.c and worker() of fuzzer.c, all under        *)
(* src/544final/fuzzer_final/Fuzzy_v_0.5/).                                *)
(*                                                                         *)
(* The kernel is external: a system call has the effects on the worker     *)
(* that it can have (a new descriptor, a closed one, another working       *)
(* directory, another program), or none.  No call of the table removes or  *)
(* renames an entry of the tree, so the tree is a constant.  Numbers,      *)
(* flags and buffers that decide nothing are "data".                       *)
(***************************************************************************)
EXTENDS Integers, Sequences, Functions

CONSTANTS
    Files, Dirs,    \* the entries of ./sandbox, the directory itself among Dirs
    FD_POOL_NUM_ROPEN, FD_POOL_NUM_WOPEN, FD_POOL_NUM_CLOSED,
    MaxFd,          \* RLIMIT_NOFILE
    Times,          \* 10: the calls of one kind in a row of workers 0 and 2
    Home, NoPath    \* the directory of the fuzzer; the empty path

PoolSize == FD_POOL_NUM_ROPEN + FD_POOL_NUM_WOPEN + FD_POOL_NUM_CLOSED
Fd == 0 .. MaxFd - 1
Entries == Files \cup Dirs

\* What gen_path makes up: slashes only, or names that nobody chose.
Absolute == {"/", "/name"}

\* What the sizes and names are chosen to be.
SandboxConstants ==
    /\ {FD_POOL_NUM_ROPEN, FD_POOL_NUM_WOPEN, FD_POOL_NUM_CLOSED} \subseteq Nat \ {0}
    /\ MaxFd \in Nat \ {0} /\ Times \in Nat \ {0}
    /\ Files \cap Dirs = {} /\ Home # NoPath
    /\ {Home, NoPath} \cap (Entries \cup Absolute) = {}

VARIABLES
    wid,                \* the worker's number: what it calls, and how often
    stage,              \* "populate", "call", "crashed" or "replaced"
    walk,               \* entries fd_pool_populate has still to visit
    fd_pool, fd_pool_cnt,
    fds, leaked,        \* the open descriptors; those that system calls opened
    callback_path_tmp,
    cwd,
    sc, left,           \* the call in the table; how often it is still made
    arg                 \* the regions made up so far for this call

pool == <<fd_pool, fd_pool_cnt, walk>>
sandbox_vars == <<wid, stage, pool, fds, leaked, callback_path_tmp, cwd, sc, left, arg>>

-----------------------------------------------------------------------------
(* syscall_def.h: the calls, and the fuzz types of each argument.          *)

FdTypes == {"FD_ROPEN", "FD_WOPEN", "FD_CLOSED"}
PathTypes == {"FILE_EXIST", "FILE_NONEXIST", "DIR_EXIST"}

fuzzer_call_spec_list == <<
    [scid |-> "read",      arg_type |-> <<FdTypes, {"GENERIC", "NULL"}, {"BUFSIZE"}>>],
    [scid |-> "write",     arg_type |-> <<FdTypes, {"GENERIC", "NULL", "RANDFILL"}, {"BUFSIZE"}>>],
    [scid |-> "open",      arg_type |-> <<PathTypes, {"OPEN_FLAGS"}, {"OPEN_MODE"}>>],
    [scid |-> "close",     arg_type |-> <<FdTypes>>],
    [scid |-> "creat",     arg_type |-> <<PathTypes, {"OPEN_MODE"}>>],
    [scid |-> "link",      arg_type |-> <<PathTypes, PathTypes>>],
    [scid |-> "execve",    arg_type |-> <<PathTypes \cup {"NULL"}, {"ARGV", "NULL"}, {"NULL"}>>],
    [scid |-> "chdir",     arg_type |-> <<PathTypes>>],
    [scid |-> "time",      arg_type |-> <<{"GENERIC", "NULL"}>>],
    [scid |-> "mknod",     arg_type |-> <<PathTypes, {"PERM_MODE"}, {"DEV_TYPE"}>>],
    [scid |-> "chmod",     arg_type |-> <<PathTypes, {"PERM_MODE"}>>],
    [scid |-> "lchown",    arg_type |-> <<PathTypes, {"UID", "GID"}, {"UID", "GID"}>>],
    [scid |-> "lseek",     arg_type |-> <<FdTypes, {"OFFSET"}, {"LSEEK_MODE"}>>],
    [scid |-> "nanosleep", arg_type |-> <<{"TIMESPEC"}, {"TIMESPEC", "NULL"}>>],
    [scid |-> "utime",     arg_type |-> <<PathTypes, {"UTIMBUF"}>>] >>

SYSCALL_NUM == Len(fuzzer_call_spec_list)
Desc == fuzzer_call_spec_list[sc]
argnum == Len(Desc.arg_type)

\* worker(): its batches, by number.
RoundRobbin(w) == w \notin {2, 3}
TimesOf(w) == IF w \in {0, 2} THEN Times ELSE 1

SandboxInit ==
    /\ wid \in 0 .. 4
    /\ stage = "populate"
    /\ walk = Entries
    /\ fd_pool = [i \in 0 .. PoolSize - 1 |-> [fd |-> 0, mode |-> "RDONLY"]]
    /\ fd_pool_cnt = 0
    /\ fds = {0} /\ leaked = {}
    /\ callback_path_tmp = NoPath /\ cwd = Home
    /\ sc = 1 /\ left = TimesOf(wid) /\ arg = <<>>

-----------------------------------------------------------------------------
(* fd_pool_populate.                                                       *)

\* The three branches of the callback, in the order the code tests them.
PoolMode(cnt) ==
    CASE cnt > FD_POOL_NUM_WOPEN -> "CLOSED"
      [] cnt <= FD_POOL_NUM_WOPEN /\ cnt > FD_POOL_NUM_ROPEN -> "WRONLY"
      [] OTHER -> "RDONLY"

FdPoolVisitClosesEarly(e) ==
    /\ stage = "populate" /\ e \in walk
    /\ walk' = IF fd_pool_cnt >= PoolSize THEN {} ELSE walk \ {e}
    /\ fd_pool_cnt < PoolSize /\ e \in Files
    /\ \E fd \in Fd \ fds :
          /\ fd_pool' = [fd_pool EXCEPT ![fd_pool_cnt] =
                            [fd |-> fd, mode |-> PoolMode(fd_pool_cnt)]]
          /\ fds' = IF fd_pool_cnt >= FD_POOL_NUM_WOPEN THEN fds ELSE fds \cup {fd}
    /\ fd_pool_cnt' = fd_pool_cnt + 1
    /\ UNCHANGED <<wid, stage, leaked, callback_path_tmp, cwd, sc, left, arg>>

\* The callback for entry e: open() gives some number that is not in use, or
\* fails (no descriptor is left, or an earlier worker changed e's mode).
FdPoolVisit(e) ==
    /\ stage = "populate" /\ e \in walk
    /\ walk' = IF fd_pool_cnt >= PoolSize THEN {} ELSE walk \ {e}
    /\ \/ UNCHANGED <<fd_pool, fd_pool_cnt, fds>>
       \/ /\ fd_pool_cnt < PoolSize /\ e \in Files
          /\ \E fd \in Fd \ fds :
                /\ fd_pool' = [fd_pool EXCEPT ![fd_pool_cnt] =
                                  [fd |-> fd, mode |-> PoolMode(fd_pool_cnt)]]
                /\ fds' = IF PoolMode(fd_pool_cnt) = "CLOSED" THEN fds ELSE fds \cup {fd}
          /\ fd_pool_cnt' = fd_pool_cnt + 1
    /\ UNCHANGED <<wid, stage, leaked, callback_path_tmp, cwd, sc, left, arg>>

\* The next call of a worker: the next of the table, or any.
Choose(from) ==
    /\ sc' \in (IF RoundRobbin(wid) THEN {from} ELSE 1 .. SYSCALL_NUM)
    /\ left' = TimesOf(wid)

FdPoolDone ==
    /\ stage = "populate" /\ walk = {}
    /\ stage' = "call"
    /\ Choose(1)
    /\ UNCHANGED <<wid, pool, fds, leaked, callback_path_tmp, cwd, arg>>

-----------------------------------------------------------------------------
(* sandbox_syscall_fuzargs: one argument a step.                           *)

\* The fuzz types of the argument that is next.
NextTypes == IF stage = "call" /\ Len(arg) < argnum THEN Desc.arg_type[Len(arg) + 1] ELSE {}

Made(type, value) == arg' = Append(arg, [type |-> type, value |-> value])

\* The cases fall through to the last assignment, and rrand includes its upper
\* end.
PoolIndexes(type) == FD_POOL_NUM_WOPEN + FD_POOL_NUM_ROPEN .. PoolSize

\* The word behind the pool, which the largest index reads: any number; MaxFd
\* is one that is no descriptor.
Garbage == Fd \cup {MaxFd}

FuzFd ==
    /\ \E type \in NextTypes \cap FdTypes : \E i \in PoolIndexes(type) :
       \E value \in (IF i < PoolSize THEN {fd_pool[i].fd} ELSE Garbage) :
          Made(type, value)
    /\ UNCHANGED <<wid, stage, pool, fds, leaked, callback_path_tmp, cwd, sc, left>>

\* nftw finds ./sandbox only where the fuzzer was started.
Walkable == cwd = Home

\* gen_path for an existing entry: the walk picks one of that kind, or none.
FuzPathExist ==
    /\ \E type \in NextTypes \cap {"FILE_EXIST", "DIR_EXIST"} :
          /\ \/ UNCHANGED callback_path_tmp
             \/ Walkable /\ callback_path_tmp' \in (IF type = "DIR_EXIST" THEN Dirs ELSE Files)
          /\ Made(type, callback_path_tmp')
    /\ UNCHANGED <<wid, stage, pool, fds, leaked, cwd, sc, left>>

\* gen_path for a path that does not exist: names of random length after a
\* slash, all of them empty at times.
FuzPathNonexist ==
    /\ "FILE_NONEXIST" \in NextTypes
    /\ \E path \in Absolute : Made("FILE_NONEXIST", path)
    /\ UNCHANGED <<wid, stage, pool, fds, leaked, callback_path_tmp, cwd, sc, left>>

\* The types that write to the address in the region's first byte.
TimeTypes == {"TIMESPEC", "UTIMBUF"}

\* A char is no address: the worker is killed.
FuzTime ==
    /\ NextTypes \cap TimeTypes # {}
    /\ stage' = "crashed"
    /\ UNCHANGED <<wid, pool, fds, leaked, callback_path_tmp, cwd, sc, left, arg>>

\* All the others only put data into their region; where a path was expected
\* NULL is an empty one.
FuzData ==
    /\ \E type \in NextTypes \ (FdTypes \cup PathTypes \cup TimeTypes) :
          Made(type, IF type = "NULL" THEN NoPath ELSE "data")
    /\ UNCHANGED <<wid, stage, pool, fds, leaked, callback_path_tmp, cwd, sc, left>>

-----------------------------------------------------------------------------
(* sandbox_syscall_run: the call.                                          *)

\* syscall() is given the address of region k, not what is in it: for a
\* descriptor, a number far above every limit; for a path, the path.
DescriptorArg(k) == MaxFd + 1 + k
PathArg(k) == arg[k].value

\* A path that the kernel may find.
Found(path) == path \in Absolute \/ (path \in Entries /\ cwd = Home)

Ready == stage = "call" /\ Len(arg) = argnum
Calling(calls) == Ready /\ Desc.scid \in calls

\* The loops of sc_batch_single and of the batch; last_fd_used is NULL, so the
\* pool is not updated.
NextCall ==
    /\ arg' = <<>>
    /\ IF left > 1 THEN left' = left - 1 /\ UNCHANGED sc
       ELSE Choose((sc % SYSCALL_NUM) + 1)
    /\ UNCHANGED <<wid, pool, callback_path_tmp>>

\* The call fails, or has no effect on the worker.
NoEffect ==
    /\ Ready
    /\ NextCall
    /\ UNCHANGED <<stage, fds, leaked, cwd>>

Opens ==
    /\ Calling({"open", "creat"})
    /\ Found(PathArg(1))
    /\ Desc.scid = "creat" => PathArg(1) \notin Dirs \cup {"/"}
    /\ \E fd \in Fd \ fds : fds' = fds \cup {fd} /\ leaked' = leaked \cup {fd}
    /\ NextCall
    /\ UNCHANGED <<stage, cwd>>

Closes ==
    /\ Calling({"close"})
    /\ fds' = fds \ {DescriptorArg(1)} /\ leaked' = leaked \ {DescriptorArg(1)}
    /\ NextCall
    /\ UNCHANGED <<stage, cwd>>

Chdir ==
    /\ Calling({"chdir"})
    /\ Found(PathArg(1)) /\ PathArg(1) \notin Files
    /\ cwd' = PathArg(1)
    /\ NextCall
    /\ UNCHANGED <<stage, fds, leaked>>

\* execve succeeds: the worker runs another program.
Execve ==
    /\ Calling({"execve"})
    /\ Found(PathArg(1)) /\ PathArg(1) \notin Dirs \cup {"/"}
    /\ stage' = "replaced"
    /\ UNCHANGED <<wid, pool, fds, leaked, callback_path_tmp, cwd, sc, left, arg>>

-----------------------------------------------------------------------------
Ended == stage \in {"crashed", "replaced"}

Step ==
    \/ \E e \in Entries : FdPoolVisit(e)
    \/ FdPoolDone
    \/ FuzFd \/ FuzPathExist \/ FuzPathNonexist \/ FuzTime \/ FuzData
    \/ NoEffect \/ Opens \/ Closes \/ Chdir \/ Execve

SandboxNext == Step \/ (Ended /\ UNCHANGED sandbox_vars)

\* The worker is scheduled, and no call blocks for ever.
SandboxSpec == SandboxInit /\ [][SandboxNext]_sandbox_vars /\ WF_sandbox_vars(Step)

-----------------------------------------------------------------------------
SandboxTypeOK ==
    /\ wid \in 0 .. 4 /\ stage \in {"populate", "call", "crashed", "replaced"}
    /\ walk \subseteq Entries
    /\ fd_pool \in [0 .. PoolSize - 1 -> [fd : Fd, mode : {"RDONLY", "WRONLY", "CLOSED"}]]
    /\ fd_pool_cnt \in 0 .. PoolSize
    /\ fds \subseteq Fd /\ leaked \subseteq fds
    /\ callback_path_tmp \in Entries \cup {NoPath}
    /\ cwd \in Dirs \cup Absolute \cup {Home}
    /\ sc \in 1 .. SYSCALL_NUM /\ left \in 1 .. Times /\ Len(arg) <= argnum

(* sandbox.c:149-202 with the calls that open and close: what the pool has  *)
(* as opened is open for the worker's whole life, whatever it calls.        *)
PoolStaysOpen ==
    \A i \in 0 .. fd_pool_cnt - 1 : fd_pool[i].mode # "CLOSED" => fd_pool[i].fd \in fds

-----------------------------------------------------------------------------
(* What the repository says of a worker, and the code does not keep.        *)

(* syscall_def.h:17-18: an argument of type FUZ_ARG_UINT_FD_ROPEN is an     *)
(* "already open file descriptor for reading", one of FUZ_ARG_UINT_FD_WOPEN *)
(* an "already open file descriptor for writing"; here only for a worker    *)
(* that could fill its pool.  In the code all three cases take an index     *)
(* behind the opened ones, or one behind the pool (sandbox.c:260-265).      *)
DescriptorsAsTyped ==
    \A k \in 1 .. Len(arg) : fd_pool_cnt = PoolSize =>
        /\ arg[k].type = "FD_ROPEN" => [fd |-> arg[k].value, mode |-> "RDONLY"] \in Range(fd_pool)
        /\ arg[k].type = "FD_WOPEN" => [fd |-> arg[k].value, mode |-> "WRONLY"] \in Range(fd_pool)

(* sandbox.c:112, 114-115, 139: a path to an existing file or directory,    *)
(* "always inside dir specified with SANDBOX_DIR", "random directory in     *)
(* ./sandbox subtree"; here only for a worker that has found one before.    *)
(* In the code SANDBOX_DIR is relative and chdir is one of the calls.       *)
PathsInSandbox ==
    \A k \in 1 .. Len(arg) :
        arg[k].type \in {"FILE_EXIST", "DIR_EXIST"} /\ arg[k].value # NoPath
            => arg[k].value \in Entries /\ cwd = Home

(* fuzzer.c:295: "worker function - never exited", and 266: "call all       *)
(* defined syscalls one by one - one cycle, regardless of the result of     *)
(* calls".  In the code the worker is killed as it prepares nanosleep or    *)
(* utime (sandbox.c:331-343).                                               *)
NeverExited == stage # "crashed"
=============================================================================
