------------------------------ MODULE RamDisk -------------------------------
(***************************************************************************)
(* The encrypted RAM disk of indwriterups/project3/ramdsk.c: loading the   *)
(* module with its parameters, the request loop of each device, and the    *)
(* transfer that encrypts what is written with the key of that moment.     *)
(* Lengths are counted in kernel sectors of 512 bytes.                     *)
(*                                                                         *)
(* request_fn runs under the queue's lock, so a device serves one chunk    *)
(* after another; the key is a module parameter that root may write at any *)
(* time, which frees the old string.                                       *)
(***************************************************************************)
EXTENDS Integers, FiniteSets, FiniteSetsExt, Sequences, SequencesExt

CONSTANTS
    NDevices,       \* ndevices
    Geometries,     \* values of << nsectors, hardsect_size / 512 >>
    Width,          \* bits of an int, less the 9 of a sector's bytes
    PageSectors,    \* PAGE_SIZE / 512
    Keys,           \* 16-character keys
    DefaultKey,     \* "group_nine_rules"
    BadKey,         \* one that the cipher refuses
    Shapes,         \* << sector, lengths of the chunks >> of requests
    MaxRequests, MaxKeyWrites      \* bounds

Devices == 0 .. NDevices - 1

ASSUME RamDiskAssumption ==
    /\ NDevices \in Nat \ {0} /\ Width \in Nat \ {0} /\ PageSectors \in Nat \ {0}
    /\ Geometries \subseteq Nat \X (Nat \ {0})
    /\ BadKey \notin Keys /\ DefaultKey \in Keys
    /\ Shapes # {} /\ IsFiniteSet(Shapes)
    /\ \A s \in Shapes : s[1] \in Nat /\ s[2] \in Seq(Nat \ {0}) /\ s[2] # << >>
    /\ MaxRequests \in Nat /\ MaxKeyWrites \in Nat

\* What the provers do not know of powers of two.
ASSUME WidthArithmetic == {2^Width, 2^(Width - 1)} \subseteq Nat \ {0}

VARIABLES
    geo, asked,     \* module parameters: geometry, ramdsk_major (asked for or not)
    module,         \* "new", "array", "loaded", "EBUSY", "ENOMEM", "oops"
    registered,     \* the major number is registered
    next,           \* the device that is initialised next
    gd,             \* devices with a disk
    data,           \* a device's memory, and what lies behind it
    key, writes,    \* the key, and how often it was written
    freed,          \* devices that hold a pointer to a key that was freed
    req, waiting,   \* requests that were made; those waiting, by device
    pc, cur, at,    \* the request loop: where it is, request, chunk
    buffer,         \* what the readers' buffers hold
    done,           \* requests completed
    ref, want       \* history: the disk as its writers know it, and what the
                    \* readers may expect of it

params == << geo, asked >>
setup  == << module, registered, next, gd >>
loop   == << pc, cur, at, waiting, done >>
keys   == << key, writes, freed >>
hist   == << ref, want >>
disk_vars == << params, setup, loop, keys, data, req, buffer, hist >>

nsectors == geo[1]
hardsect == geo[2]

\* An int holds size, a sector_t the capacity.
S(n)     == LET u == n % 2^Width IN IF u >= 2^(Width - 1) THEN u - 2^Width ELSE u
size     == S(nsectors * hardsect)
capacity == nsectors * hardsect

\* The sectors of the first n chunks.
Sum(chunks, n) ==
    LET sum[i \in 0 .. n] == IF i = 0 THEN 0 ELSE sum[i - 1] + chunks[i] IN sum[n]
Total(chunks) == Sum(chunks, Len(chunks))
\* Where chunk i of request r starts, in the request.
Before(r, i) == Sum(req[r].chunks, i - 1)
Top == Max({s[1] + Total(s[2]) : s \in Shapes})
Memory  == 0 .. Top - 1     \* as far as a request can reach

\* Sector i of what request r writes is << r, i >>; the rest is not written by
\* a request.
Garbage == << 0, 0 >>       \* what decryption with another key yields
Stale   == << 0, 1 >>       \* in a reader's buffer before
Unknown == << 0, 2 >>       \* expected of a sector nobody knows
Junk    == [val |-> Garbage, key |-> BadKey]    \* vmalloc does not clear memory
Foreign == [val |-> Stale, key |-> BadKey]      \* not the disk's memory

DiskInit ==
    /\ geo \in Geometries /\ asked \in BOOLEAN
    /\ module = "new" /\ registered = FALSE /\ next = 0 /\ gd = {}
    /\ data = [d \in Devices |-> [s \in Memory |-> Foreign]]
    /\ key = DefaultKey /\ writes = 0 /\ freed = {}
    /\ req = << >> /\ waiting = [d \in Devices |-> {}]
    /\ pc = [d \in Devices |-> "idle"]
    /\ cur = [d \in Devices |-> 0] /\ at = [d \in Devices |-> 0]
    /\ buffer = << >> /\ want = << >> /\ done = {}
    /\ ref = [d \in Devices |-> [s \in Memory |-> Junk]]

-----------------------------------------------------------------------------
(* Loading and unloading. *)

\* register_blkdev returns the number it chose, and 0 when it was asked for
\* one and gave it: the latter is taken for a failure.
Register(ok) ==
    /\ module = "new"
    /\ registered' = ok
    /\ module' = IF ok /\ ~asked THEN "array" ELSE "EBUSY"
    /\ UNCHANGED << next, gd, params, loop, keys, data, req, buffer, hist >>

AllocFails ==
    /\ module = "array" /\ next = 0
    /\ module' = "ENOMEM" /\ registered' = FALSE
    /\ UNCHANGED << next, gd, params, loop, keys, data, req, buffer, hist >>

\* ramdsk_device_init for the next device: it may fail for want of memory, a
\* queue or a disk, and the module is loaded all the same.  In the last case
\* it deletes the disk of a device that is not there yet.
DeviceInit(outcome) ==
    /\ module = "array" /\ next \in Devices
    /\ outcome # "memory" => size > 0
    /\ module' = IF outcome = "disk" THEN "oops" ELSE module
    /\ gd' = IF outcome = "live" THEN gd \cup {next} ELSE gd
    /\ data' = IF outcome = "live"
               THEN [data EXCEPT ![next] =
                       [s \in Memory |-> IF s < size THEN Junk ELSE Foreign]]
               ELSE data
    /\ next' = next + 1
    /\ UNCHANGED << registered, params, loop, keys, req, buffer, hist >>

Loaded ==
    /\ module = "array" /\ next = NDevices
    /\ module' = "loaded"
    /\ UNCHANGED << registered, next, gd, params, loop, keys, data, req, buffer, hist >>

\* ramdsk_exit deletes the disk of device 1 whatever device it is at: there
\* is none, or its reference was dropped just before.
Unload ==
    /\ module = "loaded" /\ \A d \in Devices : pc[d] = "idle" /\ waiting[d] = {}
    /\ module' = "oops"
    /\ UNCHANGED << registered, next, gd, params, loop, keys, data, req, buffer, hist >>

-----------------------------------------------------------------------------
(* Around the driver. *)

\* The block layer takes requests within the capacity only.
Submit(d, shape, kind) ==
    /\ d \in gd /\ module \in {"array", "loaded"} /\ pc[d] = "idle"
    /\ Len(req) < MaxRequests
    /\ LET r == [dev |-> d, sector |-> shape[1], chunks |-> shape[2],
                 kind |-> kind]
           n == Total(shape[2])
       IN  /\ shape[1] + n <= capacity
           /\ req' = Append(req, r)
           /\ buffer' = Append(buffer, [b \in 1 .. n |-> Stale])
           /\ want' = Append(want, [b \in 1 .. n |-> Unknown])
    /\ waiting' = [waiting EXCEPT ![d] = @ \cup {Len(req) + 1}]
    /\ UNCHANGED << pc, cur, at, done, params, setup, keys, data, ref >>

\* echo x > /sys/module/ramdsk/parameters/key.
WriteKey(k) ==
    /\ module \in {"array", "loaded"} /\ writes < MaxKeyWrites /\ k # key
    /\ key' = k /\ writes' = writes + 1
    /\ freed' = {d \in Devices : pc[d] = "setkey"}
    /\ UNCHANGED << params, setup, loop, data, req, buffer, hist >>

-----------------------------------------------------------------------------
(* ramdsk_transfer. *)

\* Mutant: the last, partial page has no entry.
NPagesDown(n) == n \div PageSectors

\* Lines 99-103.
NPages(n) == IF n % PageSectors = 0 THEN n \div PageSectors ELSE n \div PageSectors + 1

\* fill_sgl: the list for n sectors from start, in pages.
Sgl(start, n) ==
    [i \in 1 .. NPages(n) |->
        LET off == (i - 1) * PageSectors
        IN  [from |-> start + off,
             len  |-> IF off + PageSectors > n THEN n - off ELSE PageSectors]]

\* The sectors of a list, one after the other, as the cipher walks them.
Walk(sgl) ==
    FlattenSeq([i \in DOMAIN sgl |-> [j \in 1 .. sgl[i].len |-> sgl[i].from + j - 1]])

\* Mutant: the end of the device is not checked.
BeyondNever(sector, n) == FALSE

Beyond(sector, n) == sector + n > size

Decrypt(cell, k) == IF cell.key = k THEN cell.val ELSE Garbage

\* Encrypts chunk i of r into the disk with key k.
Encrypted(d, r, i, k) ==
    LET n    == req[r].chunks[i]
        from == Walk(Sgl(Before(r, i), n))
        to   == Walk(Sgl(req[r].sector + Before(r, i), n))
    IN  [s \in Memory |->
           IF \E j \in DOMAIN to : to[j] = s
           THEN LET j == CHOOSE j \in DOMAIN to : to[j] = s
                IN  [val |-> << r, from[j] >>, key |-> k]
           ELSE data[d][s]]

\* Decrypts chunk i of r from the disk with key k.
Decrypted(d, r, i, k) ==
    LET n    == req[r].chunks[i]
        from == Walk(Sgl(req[r].sector + Before(r, i), n))
        to   == Walk(Sgl(Before(r, i), n))
    IN  [b \in DOMAIN buffer[r] |->
           IF \E j \in DOMAIN to : to[j] = b - 1
           THEN LET j == CHOOSE j \in DOMAIN to : to[j] = b - 1
                IN  Decrypt(data[d][from[j]], k)
           ELSE buffer[r][b]]

\* What the writers and readers know when the chunk is completed: the sectors
\* were written, or are read, with key k, or with BadKey if nothing was moved.
Record(d, k) ==
    LET r == cur[d]
        first == Before(r, at[d])
        sectors == req[r].sector + first .. req[r].sector + first + req[r].chunks[at[d]] - 1
    IN  IF req[r].kind = "write"
        THEN /\ ref' = [ref EXCEPT ![d] = [s \in Memory |->
                  IF s \in sectors THEN [val |-> << r, s - req[r].sector >>, key |-> k]
                  ELSE @[s]]]
             /\ UNCHANGED want
        ELSE /\ want' = [want EXCEPT ![r] = [b \in DOMAIN @ |->
                  LET s == req[r].sector + b - 1
                  IN  IF s \notin sectors THEN @[b]
                      ELSE IF k # BadKey /\ ref[d][s].key = k THEN ref[d][s].val ELSE Unknown]]
             /\ UNCHANGED ref

-----------------------------------------------------------------------------
(* ramdsk_request. *)

\* Mutant: an unfinished request is not gone on with.
AfterFetchesAnew(d, r, more) ==
    IF waiting[d] = {} THEN pc' = [pc EXCEPT ![d] = "idle"] /\ UNCHANGED << cur, at, waiting >>
    ELSE \E q \in waiting[d] :
           /\ pc' = [pc EXCEPT ![d] = "chunk"]
           /\ cur' = [cur EXCEPT ![d] = q] /\ at' = [at EXCEPT ![d] = 1]
           /\ waiting' = [waiting EXCEPT ![d] = @ \ {q}]

\* The next chunk of r, if there is more, or else a request that the block
\* layer's elevator chooses.
After(d, r, more) ==
    IF more THEN /\ pc' = [pc EXCEPT ![d] = "chunk"] /\ at' = [at EXCEPT ![d] = @ + 1]
                 /\ UNCHANGED << cur, waiting >>
    ELSE IF waiting[d] = {} THEN pc' = [pc EXCEPT ![d] = "idle"] /\ UNCHANGED << cur, at, waiting >>
    ELSE \E q \in waiting[d] :
           /\ pc' = [pc EXCEPT ![d] = "chunk"]
           /\ cur' = [cur EXCEPT ![d] = q] /\ at' = [at EXCEPT ![d] = 1]
           /\ waiting' = [waiting EXCEPT ![d] = @ \ {q}]

\* __blk_end_request_cur(rq, 0), whatever the transfer did.
EndCur(d) ==
    LET r    == cur[d]
        more == at[d] < Len(req[r].chunks)
    IN  /\ done' = IF more THEN done ELSE done \cup {r}
        /\ After(d, r, more)

Run(d) ==
    /\ pc[d] = "idle" /\ waiting[d] # {}
    /\ After(d, 0, FALSE)
    /\ UNCHANGED << done, params, setup, keys, data, req, buffer, hist >>

\* A request of another type is ended, and then looked at again, for ever or
\* until the kernel trips over what was freed.
NotFS(d) ==
    /\ pc[d] = "chunk" /\ req[cur[d]].kind = "other"
    /\ done' = done \cup {cur[d]} /\ pc' = [pc EXCEPT ![d] = "stuck"]
    /\ UNCHANGED << cur, at, waiting, params, setup, keys, data, req, buffer, hist >>

\* crypto_alloc_blkcipher succeeds, or fails.
AllocTfm(d) ==
    /\ pc[d] = "chunk" /\ req[cur[d]].kind # "other"
    /\ pc' = [pc EXCEPT ![d] = "setkey"]
    /\ freed' = freed \ {d}
    /\ UNCHANGED << key, writes, cur, at, waiting, done, params, setup, data, req, buffer, hist >>

AllocTfmFails(d) ==
    /\ pc[d] = "chunk" /\ req[cur[d]].kind # "other"
    /\ EndCur(d)
    /\ Record(d, BadKey)
    /\ UNCHANGED << params, setup, keys, data, req, buffer >>

\* The scatterlists' vmalloc is not checked: a list that could not be had is
\* written to in line 131, unless the key was refused before.
SglOops(d, k) ==
    /\ pc[d] = "setkey" /\ (d \notin freed => k = key) /\ k # BadKey
    /\ pc' = [pc EXCEPT ![d] = "stuck"]
    /\ UNCHANGED << cur, at, waiting, done, params, setup, keys, data, req, buffer, hist >>

\* crypto_blkcipher_setkey with key k, and the rest of the transfer.
Transfer(d, k) ==
    LET r == cur[d]
        i == at[d]
        n == req[r].chunks[i]
        moves == k # BadKey /\ ~Beyond(req[r].sector + Before(r, i), n)
    IN  /\ pc[d] = "setkey" /\ (d \notin freed => k = key)
        /\ IF moves /\ req[r].kind = "write"
           THEN data' = [data EXCEPT ![d] = Encrypted(d, r, i, k)] /\ UNCHANGED buffer
           ELSE IF moves
           THEN buffer' = [buffer EXCEPT ![r] = Decrypted(d, r, i, k)] /\ UNCHANGED data
           ELSE UNCHANGED << data, buffer >>
        /\ Record(d, IF moves THEN k ELSE BadKey)
        /\ EndCur(d)
        /\ UNCHANGED << params, setup, keys, req >>

Serve(d) ==
    \/ Run(d)
    \/ NotFS(d)
    \/ AllocTfm(d)
    \/ AllocTfmFails(d)
    \/ \E k \in Keys : SglOops(d, k)
    \/ \E k \in Keys \cup {BadKey} : Transfer(d, k)

-----------------------------------------------------------------------------
DiskNext ==
    \/ \E ok \in BOOLEAN : Register(ok)
    \/ AllocFails
    \/ \E o \in {"memory", "queue", "disk", "live"} : DeviceInit(o)
    \/ Loaded
    \/ Unload
    \/ \E k \in Keys \cup {BadKey} : WriteKey(k)
    \/ \E d \in Devices :
         \/ \E s \in Shapes, kind \in {"read", "write", "other"} : Submit(d, s, kind)
         \/ Serve(d)

DiskSpec == DiskInit /\ [][DiskNext]_disk_vars

-----------------------------------------------------------------------------
DiskTypeOK ==
    /\ module \in {"new", "array", "loaded", "EBUSY", "ENOMEM", "oops"}
    /\ registered \in BOOLEAN /\ next \in 0 .. NDevices /\ gd \subseteq Devices
    /\ key \in Keys \cup {BadKey} /\ writes \in 0 .. MaxKeyWrites
    /\ freed \subseteq Devices
    /\ Len(req) <= MaxRequests /\ Len(buffer) = Len(req) /\ Len(want) = Len(req)
    /\ done \subseteq DOMAIN req
    /\ \A d \in Devices :
         /\ pc[d] \in {"idle", "chunk", "setkey", "stuck"}
         /\ waiting[d] \subseteq DOMAIN req \ done
         /\ pc[d] # "idle" => at[d] \in DOMAIN req[cur[d]].chunks

(* Lines 83-214: a read that was completed holds in every sector what the   *)
(* last completed write put there, however the requests are cut into chunks *)
(* and pages and whatever happens to the key between chunks, if the sector  *)
(* was written and read with the same key and neither transfer gave up.     *)
ReadsBack ==
    \A r \in done : req[r].kind = "read" =>
        \A b \in DOMAIN want[r] : want[r][b] # Unknown => buffer[r][b] = want[r][b]

(* Line 134: a disk whose size overflowed an int is smaller than the        *)
(* capacity the block layer checks; nothing behind its memory is written.   *)
OnlyOwnMemory ==
    \A d \in Devices : \A s \in Memory :
        d \notin gd \/ s >= size => data[d][s] = Foreign

(* Lines 198-213: no request is forgotten.  Each one is completed, or waits *)
(* in a queue, or is the one its loop serves; so all are completed in the   *)
(* end, unless the loop is stuck with one.                                  *)
NoRequestLost ==
    \A r \in DOMAIN req :
        LET d == req[r].dev
        IN  \/ r \in done
            \/ r \in waiting[d]
            \/ cur[d] = r /\ pc[d] # "idle"
=============================================================================
