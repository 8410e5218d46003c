------------------------------ MODULE FileTable ------------------------------
(***************************************************************************)
(* The table of file_t entries (`database'), the queue of the background   *)
(* thread (`comp_database'), the FUSE handlers that look entries up and    *)
(* the thread that compresses and deduplicates files nobody uses.          *)
(*                                                                         *)
(* Locks.  database.lock is dbOwner, file->lock is owner[o].  A stretch of *)
(* code that runs under one file lock from LOCK to UNLOCK is one action;   *)
(* wherever the code gives the lock up (a wait, do_compress, a raw pwrite, *)
(* the two halves of rename) the action ends.  comp_database.lock guards   *)
(* only list operations and is never held across another lock.             *)
(*                                                                         *)
(* Data.  The contents of a file are one value of Data; sizes are classes. *)
(* Offsets, the read cache and file->type are left out: where they decide  *)
(* between two paths, both paths are allowed.                              *)
(***************************************************************************)
EXTENDS Naturals, Sequences, FiniteSets

CONSTANTS
    Name,            \* path names of regular files
    Obj,             \* addresses malloc may return for a file_t
    Desc,            \* descriptor_t's
    Thread,          \* FUSE worker threads
    Data,            \* contents of files
    Time,            \* modification times
    Null,            \* no name, file_t, descriptor or owner; an absent file
    Main,            \* the main thread, as an owner of database.lock
    Garbage,         \* contents no user ever wrote
    Calls,           \* the calls users make (a bound on the model)
    Sizes,           \* size classes a user call may produce (a bound)
    MaxDatabaseLen,  \* MAX_DATABASE_LEN
    Compressible,    \* names for which choose_compressor() finds one
    Excluded,        \* names is_excluded() rejects
    DedupEnabled,    \* dedup_enabled
    DedupRedup,      \* dedup_redup
    MaxCompress,     \* a limit dont_compress_beyond is set
    Failures         \* system calls and codecs that may fail

(* A file is empty, at most min_filesize_background long, longer, or longer *)
(* than dont_compress_beyond.                                               *)
SizeClass == {"empty", "small", "big", "huge"}

(* What file->size may hold: -1, or the length of a compressed image taken  *)
(* for the length of the file.                                              *)
CachedSize == SizeClass \cup {"unknown", "image"}

Rank == [s \in SizeClass |-> CASE s = "empty" -> 0 [] s = "small" -> 1 [] s = "big" -> 2 [] OTHER -> 3]

FailureKind == {"space", "codec", "temp", "rename", "utime", "io", "write", "hash", "dir", "signal"}

(* The handlers, as far as they use the table; rename looks up two names.   *)
Op == {"none", "getattr", "utime", "mknod", "unlink", "truncate", "open",
       "rename1", "rename2", "read", "write", "release"}

ASSUME ConstantsAssumption ==
    /\ Null \notin Name \cup Obj \cup Desc \cup Thread \cup Data \cup Time \cup {Main, Garbage}
    /\ Main \notin Thread
    /\ Garbage \notin Data
    /\ Data # {} /\ Time # {}
    /\ Calls \subseteq Op
    /\ Sizes \subseteq SizeClass /\ "empty" \in Sizes
    /\ MaxDatabaseLen \in Nat
    /\ Compressible \subseteq Name /\ Excluded \subseteq Name
    /\ DedupEnabled \in BOOLEAN /\ DedupRedup \in BOOLEAN /\ MaxCompress \in BOOLEAN
    /\ Failures \subseteq FailureKind

ASSUME FiniteAssumption ==
    IsFiniteSet(Obj) /\ IsFiniteSet(Desc) /\ IsFiniteSet(Thread)

VARIABLES
    database,   \* the file_t's on database.head
    live,       \* the file_t's that are allocated
    file,       \* file[o]: the fields of the file_t at o
    owner,      \* owner[o]: who holds file[o].lock
    dbOwner,    \* who holds database.lock
    queue,      \* comp_database.head, oldest first
    desc,       \* desc[d]: an open descriptor_t
    disk,       \* disk[n]: the backing file
    thr,        \* thr[t]: the handler thread t is in
    bg          \* where thread_compress() is

vars == <<database, live, file, owner, dbOwner, queue, desc, disk, thr, bg>>

Flag == {"COMPRESSING", "DEDUPING", "CANCEL"}

FileRec == [name : Name, deleted : BOOLEAN, accesses : Nat, size : CachedSize,
            compressor : BOOLEAN, dontcompress : BOOLEAN, deduped : BOOLEAN,
            status : SUBSET Flag]

(* fd: "ok" the descriptor's inode is the one the name has, "stale" the     *)
(* name has another inode by now, "closed" fd = -1.                         *)
DescRec == [file : Obj \cup {Null}, fd : {"ok", "stale", "closed"}]

Image == [data : Data \cup {Garbage}, packed : BOOLEAN, size : SizeClass, mtime : Time]

ASSUME ImageAssumption == Null \notin Image /\ Null \notin (Data \cup {Garbage}) \X SizeClass

ThreadRec == [pc : {"idle", "stat", "scan", "purge", "wait", "woken", "locked",
                    "relock1", "relock2", "pwrite", "readfail"},
              op : Op, name : Name \cup {Null}, other : Name \cup {Null},
              file : Obj \cup {Null}, from : Obj \cup {Null},
              desc : Desc \cup {Null}, walk : SUBSET Obj,
              stat : SizeClass \cup {"image", "none"}]

Idle == [pc |-> "idle", op |-> "none", name |-> Null, other |-> Null, file |-> Null,
         from |-> Null, desc |-> Null, walk |-> {}, stat |-> "none"]

BgRec == [pc : {"idle", "popped", "compressing", "hashing"}, file : Obj \cup {Null},
          dedup : BOOLEAN, data : Data \cup {Garbage, Null}, mtime : Time \cup {Null}]

BgIdle == [pc |-> "idle", file |-> Null, dedup |-> FALSE, data |-> Null, mtime |-> Null]

TypeOK ==
    /\ database \in SUBSET Obj
    /\ live \in SUBSET Obj
    /\ file \in [Obj -> FileRec \cup {Null}]
    /\ owner \in [Obj -> Thread \cup {Null}]
    /\ dbOwner \in Thread \cup {Main, Null}
    /\ queue \in Seq([file : Obj, dedup : BOOLEAN])
    /\ desc \in [Desc -> DescRec]
    /\ disk \in [Name -> Image \cup {Null}]
    /\ thr \in [Thread -> ThreadRec]
    /\ bg \in BgRec

Closed == [file |-> Null, fd |-> "closed"]

Init ==
    /\ database = {} /\ live = {}
    /\ file = [o \in Obj |-> Null]
    /\ owner = [o \in Obj |-> Null]
    /\ dbOwner = Null
    /\ queue = <<>>
    /\ desc = [d \in Desc |-> Closed]
    /\ disk \in [Name -> {i \in Image : i.data # Garbage /\ i.size \in Sizes
                                        /\ (i.size = "empty" => ~i.packed)} \cup {Null}]
    /\ thr = [t \in Thread |-> Idle]
    /\ bg = BgIdle

-----------------------------------------------------------------------------
(* Helpers *)

DescOf(o) == {d \in Desc : desc[d].file = o}
QueuedOf(o) == {i \in 1..Len(queue) : queue[i].file = o}

(* status & (COMPRESSING | DECOMPRESSING | DEDUPING); DECOMPRESSING is set  *)
(* and cleared under the lock and nobody ever sees it.                      *)
Busy(f) == f.status \cap {"COMPRESSING", "DEDUPING"} # {}

\* dedup_discard(): the entry's contents are no longer those in the dedup database.
Discard(f) == IF DedupEnabled THEN [f EXCEPT !.deduped = FALSE] ELSE f

\* direct_delete()
Delete(f) == [f EXCEPT !.deleted = TRUE, !.size = "unknown"]

\* The state direct_close() leaves the entry in: the last user resets it.
DirectClose(f) == IF f.accesses = 1 THEN [f EXCEPT !.dontcompress = FALSE] ELSE f

\* pthread_cond_broadcast(&file->cond)
Broadcast(o) ==
    thr' = [t \in Thread |-> IF thr[t].pc = "wait" /\ thr[t].file = o
                             THEN [thr[t] EXCEPT !.pc = "woken"] ELSE thr[t]]

\* The lengths a file may have after a write: a write never makes it shorter.
Grown(i) == {s \in Sizes \ {"empty"} : Rank[s] >= Rank[i.size]}

\* What lstat() tells of the length: for a compressed file, that of its image.
OnDiskSize(n) == IF disk[n].packed THEN "image" ELSE disk[n].size

-----------------------------------------------------------------------------
(* What the kernel and libfuse guarantee to the handlers: unlink and rename *)
(* have their paths to themselves, renames are serialised, one write or     *)
(* truncate of a file runs at a time (the inode lock), and a name that is   *)
(* open is hidden (renamed) instead of being removed or replaced.           *)
Exclusive(op) == op \in {"unlink", "rename1", "rename2"}
Modifying(op) == op \in {"write", "truncate"}

Compatible(op, other) ==
    ~Exclusive(op) /\ ~Exclusive(other) /\ ~(Modifying(op) /\ Modifying(other))

PathFree(t, op, names) ==
    \A u \in Thread \ {t} :
        /\ {thr[u].name, thr[u].other} \cap names # {} => Compatible(op, thr[u].op)
        /\ op = "rename1" => thr[u].op \notin {"rename1", "rename2"}

NotOpen(n) == \A d \in Desc : desc[d].file # Null => file[desc[d].file].name # n

-----------------------------------------------------------------------------
(* direct_open() *)

\* Mutation: a handler that does not ask for a stable entry.
Stabile_NotTruncate(op) == op \notin {"getattr", "utime", "truncate"}

Stabile(op) == op \notin {"getattr", "utime"}

\* Mutation: the table is searched without database.lock.
Call_Unlocked(t, op, n, m) ==
    /\ thr[t].pc = "idle" /\ op \in Calls
    /\ PathFree(t, op, {n, m} \ {Null})
    /\ op = "unlink" => NotOpen(n)
    /\ op = "rename1" => NotOpen(m)
    /\ thr' = [thr EXCEPT ![t] = [Idle EXCEPT !.pc = "scan", !.op = op, !.name = n, !.other = m]]
    /\ UNCHANGED <<database, live, file, owner, dbOwner, queue, desc, disk, bg>>

(* A handler is called and takes database.lock.                             *)
Call(t, op, n, m) ==
    /\ thr[t].pc = "idle" /\ dbOwner = Null /\ op \in Calls
    /\ PathFree(t, op, {n, m} \ {Null})
    /\ op = "unlink" => NotOpen(n)
    /\ op = "rename1" => NotOpen(m)
    /\ dbOwner' = t
    /\ thr' = [thr EXCEPT ![t] = [Idle EXCEPT !.pc = "scan", !.op = op, !.name = n, !.other = m]]
    /\ UNCHANGED <<database, live, file, owner, queue, desc, disk, bg>>

(* getattr stats the backing file before it looks for the entry.            *)
Lstat(t, n) ==
    /\ thr[t].pc = "idle" /\ "getattr" \in Calls
    /\ PathFree(t, "getattr", {n})
    /\ disk[n] # Null
    /\ thr' = [thr EXCEPT ![t] = [Idle EXCEPT !.pc = "stat", !.op = "getattr", !.name = n,
                                              !.stat = OnDiskSize(n)]]
    /\ UNCHANGED <<database, live, file, owner, dbOwner, queue, desc, disk, bg>>

LockDatabase(t) ==
    /\ thr[t].pc = "stat" /\ dbOwner = Null
    /\ dbOwner' = t
    /\ thr' = [thr EXCEPT ![t].pc = "scan"]
    /\ UNCHANGED <<database, live, file, owner, queue, desc, disk, bg>>

(* Return the entry locked, or ask the background thread to stop and wait.  *)
LockOrWait(t, o, f) ==
    IF Stabile(thr[t].op) /\ Busy(f)
    THEN /\ file' = [file EXCEPT ![o] = [f EXCEPT !.status = @ \cup {"CANCEL"}]]
         /\ thr' = [thr EXCEPT ![t].pc = "wait", ![t].file = o]
         /\ UNCHANGED owner
    ELSE /\ file' = [file EXCEPT ![o] = f]
         /\ thr' = [thr EXCEPT ![t].pc = "locked", ![t].file = o]
         /\ owner' = [owner EXCEPT ![o] = t]

DirectOpenHit(t, o) ==
    /\ thr[t].pc = "scan"
    /\ o \in database /\ file[o].name = thr[t].name
    /\ owner[o] = Null
    /\ LockOrWait(t, o, [file[o] EXCEPT !.deleted = FALSE])
    /\ dbOwner' = Null
    /\ UNCHANGED <<database, live, queue, desc, disk, bg>>

Missing(n) == \A o \in database : file[o].name # n

DirectOpenPurge(t) ==
    /\ thr[t].pc = "scan" /\ Missing(thr[t].name)
    /\ Cardinality(database) > MaxDatabaseLen + Len(queue)
    /\ thr' = [thr EXCEPT ![t].pc = "purge", ![t].walk = database]
    /\ UNCHANGED <<database, live, file, owner, dbOwner, queue, desc, disk, bg>>

(* direct_new_file(): a fresh entry, appended to the list and locked.  An   *)
(* address is not handed out again while a waiter still holds it.           *)
DirectNewFile(t, o) ==
    /\ \/ /\ thr[t].pc = "scan" /\ Missing(thr[t].name)
          /\ Cardinality(database) <= MaxDatabaseLen + Len(queue)
       \/ thr[t].pc = "purge" /\ thr[t].walk = {}
    /\ o \notin live /\ \A u \in Thread : thr[u].file # o
    /\ \E deduped \in IF DedupEnabled /\ DedupRedup THEN BOOLEAN ELSE {TRUE} :
          file' = [file EXCEPT ![o] =
                     [name |-> thr[t].name, deleted |-> FALSE, accesses |-> 0,
                      size |-> "unknown", compressor |-> FALSE, dontcompress |-> FALSE,
                      deduped |-> deduped, status |-> {}]]
    /\ live' = live \cup {o}
    /\ database' = database \cup {o}
    /\ owner' = [owner EXCEPT ![o] = t]
    /\ dbOwner' = Null
    /\ thr' = [thr EXCEPT ![t].pc = "locked", ![t].file = o, ![t].walk = {}]
    /\ UNCHANGED <<queue, desc, disk, bg>>

(* A thread that was woken re-examines the entry it waits for.  It holds no *)
(* reference, so its entry may have been freed; what it does then is not    *)
(* defined, and the model follows such a thread no further.                 *)
Rewake(t) ==
    LET o == thr[t].file IN
    /\ thr[t].pc = "woken" /\ o \in live /\ owner[o] = Null
    /\ LockOrWait(t, o, file[o])
    /\ UNCHANGED <<database, live, dbOwner, queue, desc, disk, bg>>

-----------------------------------------------------------------------------
(* _direct_open_purge() *)

(* An uncompressed file long enough to be worth it.  The length -1 of an    *)
(* unread entry passes the first test and fails the next one, where it is   *)
(* compared with the free space as an unsigned number.                      *)
WantsCompression(f) ==
    /\ ~f.deleted /\ ~f.compressor
    /\ f.size \in {"big", "huge", "image"}
    /\ disk[f.name] # Null
    /\ f.name \in Compressible

WantsDedup(f) == DedupEnabled /\ ~f.deleted /\ ~f.deduped /\ f.name \notin Excluded

(* background_compress_dedup()                                              *)
Enqueue(o, dedup) ==
    /\ file' = [file EXCEPT ![o].accesses = @ + 1]
    /\ queue' = Append(queue, [file |-> o, dedup |-> dedup])
    /\ UNCHANGED <<database, live>>

\* Mutation: accesses is not looked at again under the lock.
PurgeUnused_Unchecked(o) ==
    /\ owner[o] = Null
    /\ IF WantsCompression(file[o]) THEN Enqueue(o, FALSE)
       ELSE IF WantsDedup(file[o]) THEN Enqueue(o, TRUE)
       ELSE /\ database' = database \ {o}
            /\ live' = live \ {o}
            /\ file' = [file EXCEPT ![o] = Null]
            /\ UNCHANGED queue

(* One entry nobody uses: queue it, or drop and free it.                    *)
PurgeUnused(o) ==
    /\ file[o].accesses = 0 /\ owner[o] = Null
    /\ \E room \in BOOLEAN :
          IF WantsCompression(file[o]) /\ room THEN Enqueue(o, FALSE)
          ELSE IF WantsDedup(file[o]) THEN Enqueue(o, TRUE)
          ELSE /\ database' = database \ {o}
               /\ live' = live \ {o}
               /\ file' = [file EXCEPT ![o] = Null]
               /\ UNCHANGED queue

PurgeEntry(t, o) ==
    /\ thr[t].pc = "purge" /\ o \in thr[t].walk
    /\ \/ PurgeUnused(o)
       \/ file[o].accesses # 0 /\ UNCHANGED <<database, live, file, queue>>
    /\ thr' = [thr EXCEPT ![t].walk = @ \ {o}]
    /\ UNCHANGED <<owner, dbOwner, desc, disk, bg>>

-----------------------------------------------------------------------------
(* Handlers that hold the entry direct_open() returned *)

Holds(t, op) == thr[t].pc = "locked" /\ thr[t].op = op

\* UNLOCK and return to FUSE.
Return(t) ==
    /\ owner' = [owner EXCEPT ![thr[t].file] = Null]
    /\ thr' = [thr EXCEPT ![t] = Idle]

(* fusecompress_getattr(): if the length is not known, read the header of   *)
(* the file as it is now, but trust the length lstat() saw before.          *)
Getattr(t) ==
    LET o == thr[t].file   f == file[o]   i == disk[f.name] IN
    /\ Holds(t, "getattr")
    /\ \/ /\ f.size = "unknown" /\ thr[t].stat # "empty" /\ i # Null
          /\ file' = [file EXCEPT ![o] =
                IF i.packed THEN [f EXCEPT !.compressor = TRUE, !.size = i.size]
                ELSE IF i.size = "empty" THEN [f EXCEPT !.size = thr[t].stat]
                ELSE [f EXCEPT !.compressor = FALSE, !.size = thr[t].stat]]
       \/ /\ f.size = "unknown" /\ thr[t].stat = "empty"
          /\ file' = [file EXCEPT ![o].size = "empty"]
       \/ /\ f.size # "unknown" \/ (thr[t].stat # "empty" /\ (i = Null \/ "io" \in Failures))
          /\ UNCHANGED file
    /\ Return(t)
    /\ UNCHANGED <<database, live, dbOwner, queue, desc, disk, bg>>

Utime(t) ==
    LET n == thr[t].name IN
    /\ Holds(t, "utime")
    /\ IF disk[n] = Null THEN UNCHANGED disk
       ELSE \E m \in Time : disk' = [disk EXCEPT ![n].mtime = m]
    /\ Return(t)
    /\ UNCHANGED <<database, live, file, dbOwner, queue, desc, bg>>

Mknod(t) ==
    LET n == thr[t].name IN
    /\ Holds(t, "mknod")
    /\ \/ /\ disk[n] = Null
          /\ \E c \in Data, m \in Time :
                disk' = [disk EXCEPT ![n] = [data |-> c, packed |-> FALSE,
                                             size |-> "empty", mtime |-> m]]
       \/ /\ disk[n] # Null \/ "dir" \in Failures
          /\ UNCHANGED disk
    /\ Return(t)
    /\ UNCHANGED <<database, live, file, dbOwner, queue, desc, bg>>

Unlink(t) ==
    LET o == thr[t].file   n == thr[t].name IN
    /\ Holds(t, "unlink")
    /\ \/ /\ disk[n] # Null
          /\ file' = [file EXCEPT ![o] = Delete(Discard(@))]
          /\ disk' = [disk EXCEPT ![n] = Null]
       \/ /\ disk[n] = Null \/ "dir" \in Failures
          /\ file' = [file EXCEPT ![o] = Discard(@)]
          /\ UNCHANGED disk
    /\ Return(t)
    /\ UNCHANGED <<database, live, dbOwner, queue, desc, bg>>

(* do_decompress(o), called with file[o].lock held: the set of its possible *)
(* outcomes.  ok is the result, f and i the entry and the backing file it   *)
(* leaves, fd what becomes of the open descriptors ("same": untouched).     *)
(* CANCEL is never set here: an entry that is busy has no descriptor.       *)
Outcome(ok, f, i, fd) == [ok |-> ok, f |-> f, i |-> i, fd |-> fd]

DoDecompress(o, f) ==
    LET i == disk[f.name]
        closed == IF DescOf(o) = {} THEN f ELSE DirectClose(f)
        done == [i EXCEPT !.packed = FALSE]
        refused == Outcome(FALSE, f, i, "same")
    IN  IF f.size = "unknown" \/ i = Null THEN {refused}
        ELSE {r \in {refused} : Failures \cap {"space", "io"} # {}}
             \cup IF ~i.packed
                  THEN {Outcome(TRUE, [f EXCEPT !.compressor = FALSE, !.size = "unknown"], i, "same")}
                  ELSE {Outcome(TRUE, [closed EXCEPT !.compressor = FALSE, !.size = i.size], done, "ok")}
                       \cup {r \in {Outcome(FALSE, closed, i, "closed")} :
                                Failures \cap {"codec", "temp"} # {} \/ i.data = Garbage}
                       \cup {r \in {Outcome(FALSE, closed, i, "stale")} : "rename" \in Failures}
                       \cup {r \in {Outcome(FALSE, closed, done, "ok")} : "utime" \in Failures}

(* rename() has put a new file in n's place: a descriptor that is open on n *)
(* through another entry than o keeps the old one.                          *)
Replaced(n, o) ==
    [d \in Desc |-> IF /\ desc[d].file \notin {o, Null} /\ desc[d].fd = "ok"
                       /\ file[desc[d].file].name = n
                    THEN [desc[d] EXCEPT !.fd = "stale"] ELSE desc[d]]

\* Mutation: the descriptors of the entry are not reopened.
Reopened_None(o, fd) == IF fd = "ok" THEN Replaced(file[o].name, Null) ELSE desc

Reopened(o, fd) ==
    LET others == IF fd = "ok" THEN Replaced(file[o].name, o) ELSE desc IN
    [d \in Desc |-> IF desc[d].file = o /\ fd # "same" THEN [desc[d] EXCEPT !.fd = fd] ELSE others[d]]

\* ftruncate() of the backing file; an image cut short is no longer anyone's data.
Truncated(i, s) ==
    IF s = "empty"  THEN {[i EXCEPT !.data = c, !.packed = FALSE, !.size = s] : c \in Data}
    ELSE IF i.packed THEN {[i EXCEPT !.data = Garbage]}
    ELSE {[i EXCEPT !.data = c, !.size = s] : c \in Data}

(* fusecompress_truncate() to a length of class s; one outcome of the       *)
(* decompression it may need comes first.                                   *)
TruncateFirst(o, f, s) ==
    IF ~f.compressor THEN {Outcome(TRUE, f, disk[f.name], "same")}
    ELSE IF s # "empty" THEN DoDecompress(o, f)
    ELSE {Outcome(TRUE, [(IF DescOf(o) = {} THEN f ELSE DirectClose(f)) EXCEPT !.compressor = FALSE],
                  disk[f.name], "same")}

Truncate(t, s) ==
    LET o == thr[t].file   n == thr[t].name IN
    /\ Holds(t, "truncate")
    /\ \E r \in TruncateFirst(o, Discard(file[o]), s) :
          /\ desc' = Reopened(o, r.fd)
          /\ \/ /\ ~r.ok \/ r.i = Null \/ "write" \in Failures
                /\ file' = [file EXCEPT ![o] = r.f]
                /\ disk' = [disk EXCEPT ![n] = r.i]
             \/ /\ r.ok /\ r.i # Null
                /\ file' = [file EXCEPT ![o] = [r.f EXCEPT !.size = s]]
                /\ \E i \in Truncated(r.i, s) : disk' = [disk EXCEPT ![n] = i]
    /\ Return(t)
    /\ UNCHANGED <<database, live, dbOwner, queue, bg>>

(* fusecompress_open(): read the header, count the descriptor.  do_undedup  *)
(* may have discarded the entry from the dedup database before, and a file  *)
(* that still has other links is marked dontcompress.                       *)
Open(t, d) ==
    LET o == thr[t].file   i == disk[thr[t].name] IN
    /\ Holds(t, "open")
    /\ desc[d] = Closed /\ i # Null
    /\ \E f \in {file[o], Discard(file[o])}, linked \in {FALSE, DedupEnabled} :
          file' = [file EXCEPT ![o] = [f EXCEPT !.accesses = @ + 1, !.size = i.size,
                                                !.compressor = i.packed,
                                                !.dontcompress = @ \/ linked]]
    /\ desc' = [desc EXCEPT ![d] = [file |-> o, fd |-> "ok"]]
    /\ Return(t)
    /\ UNCHANGED <<database, live, dbOwner, queue, disk, bg>>

\* Mutation: the error path forgets UNLOCK.
OpenFails_Locked(t) ==
    LET o == thr[t].file IN
    /\ Holds(t, "open")
    /\ disk[thr[t].name] = Null \/ \A d \in Desc : desc[d] # Closed
    /\ \E f \in {file[o], Discard(file[o])} : file' = [file EXCEPT ![o] = f]
    /\ thr' = [thr EXCEPT ![t] = Idle]
    /\ UNCHANGED <<database, live, owner, dbOwner, queue, desc, disk, bg>>

(* The file cannot be opened (or un-deduplicated).                          *)
OpenFails(t) ==
    LET o == thr[t].file IN
    /\ Holds(t, "open")
    /\ disk[thr[t].name] = Null \/ \A d \in Desc : desc[d] # Closed
    /\ \E f \in {file[o], Discard(file[o])} : file' = [file EXCEPT ![o] = f]
    /\ Return(t)
    /\ UNCHANGED <<database, live, dbOwner, queue, desc, disk, bg>>

(* fstat() or the read of the header fails: the handler returns and leaves  *)
(* the entry locked.                                                        *)
OpenLeaksLock(t) ==
    LET o == thr[t].file IN
    /\ Holds(t, "open") /\ "io" \in Failures
    /\ disk[thr[t].name] # Null
    /\ \E f \in {file[o], Discard(file[o])}, linked \in {FALSE, DedupEnabled} :
          file' = [file EXCEPT ![o] = [f EXCEPT !.dontcompress = @ \/ linked]]
    /\ thr' = [thr EXCEPT ![t] = Idle]
    /\ UNCHANGED <<database, live, owner, dbOwner, queue, desc, disk, bg>>

-----------------------------------------------------------------------------
(* fusecompress_rename(): both entries are looked up and kept by an access  *)
(* of their own, then both are locked.                                      *)

RenameKeepFrom(t) ==
    LET o == thr[t].file IN
    /\ Holds(t, "rename1")
    /\ file' = [file EXCEPT ![o].accesses = @ + 1]
    /\ owner' = [owner EXCEPT ![o] = Null]
    /\ thr' = [thr EXCEPT ![t] = [Idle EXCEPT !.pc = "stat", !.op = "rename2", !.from = o,
                                              !.name = thr[t].other, !.other = thr[t].name]]
    /\ UNCHANGED <<database, live, dbOwner, queue, desc, disk, bg>>

RenameKeepTo(t) ==
    LET o == thr[t].file IN
    /\ Holds(t, "rename2")
    /\ file' = [file EXCEPT ![o].accesses = @ + 1]
    /\ owner' = [owner EXCEPT ![o] = Null]
    /\ thr' = [thr EXCEPT ![t].pc = "relock1"]
    /\ UNCHANGED <<database, live, dbOwner, queue, desc, disk, bg>>

RenameLockFrom(t) ==
    /\ thr[t].pc = "relock1" /\ owner[thr[t].from] = Null
    /\ owner' = [owner EXCEPT ![thr[t].from] = t]
    /\ thr' = [thr EXCEPT ![t].pc = "relock2"]
    /\ UNCHANGED <<database, live, file, dbOwner, queue, desc, disk, bg>>

(* direct_rename(): what is known of the file, its descriptors and its      *)
(* places in the queue move from entry a to entry b, and a is deleted.      *)
MovedQueue(a, b) ==
    [i \in 1..Len(queue) |-> IF queue[i].file = a THEN [queue[i] EXCEPT !.file = b] ELSE queue[i]]

\* Mutation: the descriptors stay with the old entry.
MovedDesc_Kept(a, b) == desc

MovedDesc(a, b) ==
    [d \in Desc |-> IF desc[d].file = a THEN [desc[d] EXCEPT !.file = b] ELSE desc[d]]

\* Mutation: the accesses of queue entries do not move with them.
DirectRename_Queueless(a, b) ==
    LET moved == Cardinality(DescOf(a)) IN
    /\ file' = [file EXCEPT
          ![a] = Delete([file[a] EXCEPT !.accesses = @ - 1 - moved]),
          ![b] = [file[b] EXCEPT !.accesses = @ - 1 + moved, !.size = file[a].size,
                           !.compressor = file[a].compressor,
                           !.dontcompress = file[a].dontcompress,
                           !.status = file[a].status]]
    /\ desc' = MovedDesc(a, b)
    /\ queue' = MovedQueue(a, b)

\* Mutation: the compressor is not taken over.
DirectRename_Raw(a, b) ==
    LET moved == Cardinality(DescOf(a)) + Cardinality(QueuedOf(a)) IN
    /\ file' = [file EXCEPT
          ![a] = Delete([file[a] EXCEPT !.accesses = @ - 1 - moved]),
          ![b] = [file[b] EXCEPT !.accesses = @ - 1 + moved, !.size = file[a].size,
                           !.dontcompress = file[a].dontcompress,
                           !.status = file[a].status]]
    /\ desc' = MovedDesc(a, b)
    /\ queue' = MovedQueue(a, b)

DirectRename(a, b) ==
    LET moved == Cardinality(DescOf(a)) + Cardinality(QueuedOf(a)) IN
    /\ file' = [file EXCEPT
          ![a] = Delete([file[a] EXCEPT !.accesses = @ - 1 - moved]),
          ![b] = [file[b] EXCEPT !.accesses = @ - 1 + moved, !.size = file[a].size,
                           !.compressor = file[a].compressor,
                           !.dontcompress = file[a].dontcompress,
                           !.status = file[a].status,
                           !.deduped = IF DedupEnabled THEN file[a].deduped ELSE @]]
    /\ desc' = MovedDesc(a, b)
    /\ queue' = MovedQueue(a, b)

RenameCommit(t) ==
    LET a == thr[t].from   b == thr[t].file   n == thr[t].other   m == thr[t].name IN
    /\ thr[t].pc = "relock2" /\ owner[b] = Null
    /\ \/ /\ disk[n] # Null
          /\ disk' = [disk EXCEPT ![n] = Null, ![m] = disk[n]]
          /\ DirectRename(a, b)
       \/ /\ disk[n] = Null \/ "dir" \in Failures
          /\ file' = [file EXCEPT ![a].accesses = @ - 1, ![b].accesses = @ - 1]
          /\ UNCHANGED <<disk, desc, queue>>
    /\ owner' = [owner EXCEPT ![a] = Null]
    /\ thr' = [thr EXCEPT ![t] = Idle]
    /\ UNCHANGED <<database, live, dbOwner, bg>>

-----------------------------------------------------------------------------
(* Handlers that work on an open descriptor *)

Usable(t, d, op) ==
    /\ thr[t].pc = "idle" /\ op \in Calls
    /\ desc[d].file # Null /\ owner[desc[d].file] = Null
    /\ PathFree(t, op, {file[desc[d].file].name})

Later(t, d, pc, op) ==
    thr' = [thr EXCEPT ![t] = [Idle EXCEPT !.pc = pc, !.op = op, !.desc = d, !.file = desc[d].file,
                                           !.name = file[desc[d].file].name]]

(* fusecompress_read().  Reading in place changes nothing here; when        *)
(* direct_decompress() gives up on that, the file is decompressed for good. *)
ReadMayFail(d, f) ==
    \/ desc[d].fd = "closed"
    \/ "io" \in Failures
    \/ /\ f.compressor /\ disk[f.name] # Null
       /\ "codec" \in Failures \/ disk[f.name].data = Garbage

Read(t, d) ==
    LET o == desc[d].file   f == file[o]
        failed == Outcome(FALSE, f, disk[f.name], "same") IN
    /\ Usable(t, d, "read")
    /\ \E r \in {x \in {failed} : ReadMayFail(d, f)}
                \cup IF f.compressor /\ desc[d].fd # "closed" THEN DoDecompress(o, f) ELSE {} :
          /\ disk' = [disk EXCEPT ![f.name] = r.i]
          /\ desc' = Reopened(o, r.fd)
          /\ IF r.ok THEN /\ file' = [file EXCEPT ![o] = [r.f EXCEPT !.size = "unknown"]]
                          /\ UNCHANGED thr
                     ELSE /\ file' = [file EXCEPT ![o] = r.f]
                          /\ Later(t, d, "readfail", "read")
    /\ UNCHANGED <<database, live, owner, dbOwner, queue, bg>>

(* A failed read forgets the length, after UNLOCK.                          *)
ReadFail(t) ==
    /\ thr[t].pc = "readfail"
    /\ file' = [file EXCEPT ![thr[t].file].size = "unknown"]
    /\ thr' = [thr EXCEPT ![t] = Idle]
    /\ UNCHANGED <<database, live, owner, dbOwner, queue, desc, disk, bg>>

(* fusecompress_write(): the first write to an empty file nobody else uses  *)
(* chooses a compressor.                                                    *)
WriteChosen(f) ==
    {[Discard(f) EXCEPT !.dontcompress = TRUE, !.compressor = c] :
        c \in IF ~f.dontcompress /\ f.size = "empty" /\ f.accesses = 1
              THEN {f.compressor, f.name \in Compressible} ELSE {f.compressor}}

(* direct_compress() appends to the compressed image under the lock.  The   *)
(* first write puts a header over whatever the file holds.                  *)
Appended(i, s) ==
    {[data |-> c, packed |-> TRUE, size |-> s, mtime |-> m] :
        c \in IF i.packed \/ i.size = "empty" THEN Data ELSE {Garbage}, m \in Time}

WriteAppend(t, d) ==
    LET o == desc[d].file   n == file[o].name IN
    /\ Usable(t, d, "write")
    /\ file[o].accesses = 1 /\ file[o].size # "unknown"
    /\ \E f \in WriteChosen(file[o]), s \in Sizes \ {"empty"} :
          /\ f.compressor
          /\ \/ /\ desc[d].fd = "ok" /\ disk[n] # Null
                /\ f.size = "empty" \/ disk[n].packed
                /\ s \in Grown(disk[n])
                /\ \E i \in Appended(disk[n], s) : disk' = [disk EXCEPT ![n] = i]
                /\ file' = [file EXCEPT ![o] = [f EXCEPT !.size = s]]
             \/ /\ desc[d].fd = "ok" /\ disk[n] # Null /\ "write" \in Failures
                /\ f.size = "empty" \/ disk[n].packed
                /\ disk' = [disk EXCEPT ![n].data = Garbage, ![n].packed = TRUE]
                /\ file' = [file EXCEPT ![o] = [f EXCEPT !.size = "unknown"]]
             \/ /\ desc[d].fd = "stale"
                /\ UNCHANGED disk
                /\ file' = [file EXCEPT ![o] = [f EXCEPT !.size = s]]
    /\ UNCHANGED <<database, live, owner, dbOwner, queue, desc, thr, bg>>

(* direct_compress() falls back: decompress the file, then write to it      *)
(* without the lock.  A failure forgets the length.                         *)
WriteFallback(t, d) ==
    LET o == desc[d].file IN
    /\ Usable(t, d, "write")
    /\ \E f \in WriteChosen(file[o]) :
          /\ f.compressor
          /\ \E r \in IF desc[d].fd = "closed" THEN {Outcome(FALSE, f, disk[f.name], "same")}
                      ELSE DoDecompress(o, f) :
                /\ disk' = [disk EXCEPT ![f.name] = r.i]
                /\ desc' = Reopened(o, r.fd)
                /\ file' = [file EXCEPT ![o] = [r.f EXCEPT !.size = "unknown"]]
                /\ IF r.ok THEN Later(t, d, "pwrite", "write") ELSE UNCHANGED thr
    /\ UNCHANGED <<database, live, owner, dbOwner, queue, bg>>

(* A file that is not compressed is written to without the lock.            *)
WriteRaw(t, d) ==
    LET o == desc[d].file IN
    /\ Usable(t, d, "write")
    /\ \E f \in WriteChosen(file[o]) : ~f.compressor /\ file' = [file EXCEPT ![o] = f]
    /\ Later(t, d, "pwrite", "write")
    /\ UNCHANGED <<database, live, owner, dbOwner, queue, desc, disk, bg>>

(* The pwrite() itself, then LOCK and UNLOCK.                               *)
Pwrite(t) ==
    LET o == thr[t].file   n == file[o].name   fd == desc[thr[t].desc].fd IN
    /\ thr[t].pc = "pwrite" /\ owner[o] = Null
    /\ \/ /\ fd = "ok" /\ disk[n] # Null
          /\ \E s \in Grown(disk[n]), c \in Data, m \in Time :
                disk' = [disk EXCEPT ![n] =
                   IF @.packed THEN [@ EXCEPT !.data = Garbage, !.mtime = m]
                   ELSE [data |-> c, packed |-> FALSE, size |-> s, mtime |-> m]]
          /\ UNCHANGED file
       \/ /\ fd = "stale"
          /\ UNCHANGED <<disk, file>>
       \/ /\ fd = "closed" \/ "write" \in Failures
          /\ file' = [file EXCEPT ![o].size = "unknown"]
          /\ UNCHANGED disk
    /\ thr' = [thr EXCEPT ![t] = Idle]
    /\ UNCHANGED <<database, live, owner, dbOwner, queue, desc, bg>>

\* Mutation: the descriptor goes, its access stays.
Release_Leaky(t, d) ==
    LET o == desc[d].file
        f == IF file[o].compressor THEN DirectClose(file[o]) ELSE file[o] IN
    /\ Usable(t, d, "release")
    /\ \A u \in Thread : thr[u].desc # d
    /\ file' = [file EXCEPT ![o] = f]
    /\ desc' = [desc EXCEPT ![d] = Closed]
    /\ UNCHANGED <<database, live, owner, dbOwner, queue, disk, thr, bg>>

(* fusecompress_release(); the kernel sends it when no call uses d any more.*)
Release(t, d) ==
    LET o == desc[d].file
        f == IF file[o].compressor THEN DirectClose(file[o]) ELSE file[o] IN
    /\ Usable(t, d, "release")
    /\ \A u \in Thread : thr[u].desc # d
    /\ file' = [file EXCEPT ![o] = [f EXCEPT !.accesses = @ - 1]]
    /\ desc' = [desc EXCEPT ![d] = Closed]
    /\ UNCHANGED <<database, live, owner, dbOwner, queue, disk, thr, bg>>

-----------------------------------------------------------------------------
(* thread_compress() *)

BgPop ==
    /\ bg.pc = "idle" /\ queue # <<>>
    /\ bg' = [BgIdle EXCEPT !.pc = "popped", !.file = Head(queue).file, !.dedup = Head(queue).dedup]
    /\ queue' = Tail(queue)
    /\ UNCHANGED <<database, live, file, owner, dbOwner, desc, disk, thr>>

\* Mutation: the access is given back twice.
Done_Twice(f) == [f EXCEPT !.accesses = @ - 2]

\* The end of the loop body: give the access back.
Done(f) == [f EXCEPT !.accesses = @ - 1]
DoneCompress(f) == Done(Discard(f))

WithinLimit(f) == ~MaxCompress \/ f.size \notin {"huge", "unknown"}

\* Mutation: a file that is open again is compressed all the same.
BgWanted_InUse(f) == ~f.deleted /\ (bg.dedup \/ (~f.compressor /\ WithinLimit(f)))

BgWanted(f) ==
    f.accesses = 1 /\ ~f.deleted /\ (bg.dedup \/ (~f.compressor /\ WithinLimit(f)))

(* The popped file is in use, gone, or already compressed.                  *)
BgSkip ==
    LET o == bg.file IN
    /\ bg.pc = "popped" /\ owner[o] = Null
    /\ ~BgWanted(file[o])
    /\ file' = [file EXCEPT ![o] = IF bg.dedup THEN Done(@) ELSE DoneCompress(@)]
    /\ bg' = BgIdle
    /\ UNCHANGED <<database, live, owner, dbOwner, queue, desc, disk, thr>>

(* do_compress() up to the point where the codec would start: the ways out. *)
BgCompressNot ==
    LET o == bg.file   f == file[o]   i == disk[f.name] IN
    /\ bg.pc = "popped" /\ owner[o] = Null
    /\ ~bg.dedup /\ BgWanted(f)
    /\ \/ /\ i = Null                          \* the file cannot be opened
          /\ file' = [file EXCEPT ![o] = DoneCompress(Delete(f))]
       \/ /\ i # Null /\ i.packed              \* a header: it is compressed already
          /\ file' = [file EXCEPT ![o] = DoneCompress([f EXCEPT !.compressor = TRUE, !.size = i.size])]
       \/ /\ i # Null
          /\ \/ i.packed \/ i.size \in {"empty", "small"}
             \/ f.name \notin Compressible
             \/ "temp" \in Failures
          /\ file' = [file EXCEPT ![o] = DoneCompress(f)]
    /\ bg' = BgIdle
    /\ UNCHANGED <<database, live, owner, dbOwner, queue, desc, disk, thr>>

(* Mark the file and release the lock; the codec reads what is there.       *)
BgCompress ==
    LET o == bg.file   f == file[o]   i == disk[f.name] IN
    /\ bg.pc = "popped" /\ owner[o] = Null
    /\ ~bg.dedup /\ BgWanted(f)
    /\ i # Null /\ ~i.packed /\ i.size \in {"big", "huge"} /\ f.name \in Compressible
    /\ file' = [file EXCEPT ![o].status = @ \cup {"COMPRESSING"}]
    /\ bg' = [bg EXCEPT !.pc = "compressing", !.data = i.data, !.mtime = i.mtime]
    /\ UNCHANGED <<database, live, owner, dbOwner, queue, desc, disk, thr>>

(* compress_testcancel() and the test after the codec: has a caller of      *)
(* direct_open() asked for the file?                                        *)
Cancelled(o) == "CANCEL" \in file[o].status

\* Mutation: nobody is woken.
BgCompressCancelled_Silent ==
    LET o == bg.file IN
    /\ bg.pc = "compressing" /\ owner[o] = Null
    /\ Cancelled(o)
    /\ file' = [file EXCEPT ![o] = DoneCompress([file[o] EXCEPT !.status = @ \ {"COMPRESSING", "CANCEL"}])]
    /\ bg' = BgIdle
    /\ UNCHANGED <<database, live, owner, dbOwner, queue, desc, disk, thr>>

\* Mutation: the file goes back to the queue.
BgCompressCancelled_Requeue ==
    LET o == bg.file IN
    /\ bg.pc = "compressing" /\ owner[o] = Null
    /\ Cancelled(o)
    /\ file' = [file EXCEPT ![o].status = @ \ {"COMPRESSING", "CANCEL"}]
    /\ queue' = Append(queue, [file |-> o, dedup |-> FALSE])
    /\ Broadcast(o)
    /\ bg' = BgIdle
    /\ UNCHANGED <<database, live, owner, dbOwner, desc, disk>>

(* The codec stopped because of a cancellation: acknowledge it.             *)
BgCompressCancelled ==
    LET o == bg.file IN
    /\ bg.pc = "compressing" /\ owner[o] = Null
    /\ Cancelled(o)
    /\ file' = [file EXCEPT ![o] = DoneCompress([file[o] EXCEPT !.status = @ \ {"COMPRESSING", "CANCEL"}])]
    /\ Broadcast(o)
    /\ bg' = BgIdle
    /\ UNCHANGED <<database, live, owner, dbOwner, queue, desc, disk>>

(* The temporary file replaces the original, with the times the original    *)
(* had when the compression began.                                          *)
BgCompressCommit ==
    LET o == bg.file   n == file[o].name IN
    /\ bg.pc = "compressing" /\ owner[o] = Null
    /\ ~Cancelled(o)
    /\ disk' = [disk EXCEPT ![n] = [data |-> bg.data, packed |-> TRUE, mtime |-> bg.mtime,
                                    size |-> IF @ = Null THEN "big" ELSE @.size]]
    /\ file' = [file EXCEPT ![o] =
          DoneCompress([file[o] EXCEPT !.status = @ \ {"COMPRESSING"}, !.compressor = TRUE,
                                 !.size = disk'[n].size])]
    /\ desc' = Replaced(n, Null)
    /\ bg' = BgIdle
    /\ UNCHANGED <<database, live, owner, dbOwner, queue, thr>>

\* Mutation: the error path leaves the loop without giving the access back.
BgCompressFails_Leaky ==
    LET o == bg.file IN
    /\ bg.pc = "compressing" /\ owner[o] = Null
    /\ ~Cancelled(o) /\ Failures \cap {"codec", "rename"} # {}
    /\ file' = [file EXCEPT ![o].status = @ \ {"COMPRESSING"}]
    /\ bg' = BgIdle
    /\ UNCHANGED <<database, live, owner, dbOwner, queue, desc, disk, thr>>

BgCompressFails ==
    LET o == bg.file IN
    /\ bg.pc = "compressing" /\ owner[o] = Null
    /\ ~Cancelled(o) /\ Failures \cap {"codec", "rename"} # {}
    /\ file' = [file EXCEPT ![o] = DoneCompress([file[o] EXCEPT !.status = @ \ {"COMPRESSING"}])]
    /\ bg' = BgIdle
    /\ UNCHANGED <<database, live, owner, dbOwner, queue, desc, disk, thr>>

(* do_dedup(): mark the file and hash it without the lock.                  *)
BgDedup ==
    LET o == bg.file IN
    /\ bg.pc = "popped" /\ owner[o] = Null
    /\ bg.dedup /\ BgWanted(file[o])
    /\ file' = [file EXCEPT ![o].status = @ \cup {"DEDUPING"}]
    /\ bg' = [bg EXCEPT !.pc = "hashing",
                        !.data = IF disk[file[o].name] = Null THEN Null ELSE disk[file[o].name].data]
    /\ UNCHANGED <<database, live, owner, dbOwner, queue, desc, disk, thr>>

\* Mutation: the file is not marked as deduplicated.
BgDedupFails_Again ==
    LET o == bg.file IN
    /\ bg.pc = "hashing" /\ owner[o] = Null
    /\ bg.data = Null \/ "hash" \in Failures
    /\ file' = [file EXCEPT ![o] = Done(@)]
    /\ bg' = BgIdle
    /\ UNCHANGED <<database, live, owner, dbOwner, queue, desc, disk, thr>>

(* The file could not be hashed: DEDUPING stays set, nobody is woken.       *)
BgDedupFails ==
    LET o == bg.file IN
    /\ bg.pc = "hashing" /\ owner[o] = Null
    /\ bg.data = Null \/ "hash" \in Failures
    /\ file' = [file EXCEPT ![o] = Done([file[o] EXCEPT !.deduped = TRUE])]
    /\ bg' = BgIdle
    /\ UNCHANGED <<database, live, owner, dbOwner, queue, desc, disk, thr>>

BgDedupCancelled ==
    LET o == bg.file IN
    /\ bg.pc = "hashing" /\ owner[o] = Null /\ bg.data # Null
    /\ Cancelled(o)
    /\ file' = [file EXCEPT ![o] = Done([file[o] EXCEPT !.status = @ \ {"DEDUPING", "CANCEL"}])]
    /\ Broadcast(o)
    /\ bg' = BgIdle
    /\ UNCHANGED <<database, live, owner, dbOwner, queue, desc, disk>>

(* The name becomes a link to another name with the same contents (known to *)
(* the dedup database, perhaps from an earlier mount), compressed or not;   *)
(* or the file is new to the dedup database.  The times stay, in an         *)
(* attribute file if need be.  That the two names share an inode until      *)
(* do_undedup() is not modelled here.                                       *)
BgDedupCommit ==
    LET o == bg.file   n == file[o].name IN
    /\ bg.pc = "hashing" /\ owner[o] = Null /\ bg.data # Null
    /\ ~Cancelled(o)
    /\ \/ /\ file' = [file EXCEPT ![o] = Done([file[o] EXCEPT !.deduped = TRUE, !.status = @ \ {"DEDUPING"}])]
          /\ UNCHANGED <<disk, desc>>
       \/ \E m \in Name \ {n} :
          /\ disk[n] # Null /\ disk[m] # Null
          /\ disk[m].data = bg.data /\ disk[m].size = disk[n].size
          /\ disk' = [disk EXCEPT ![n].packed = disk[m].packed, ![n].data = bg.data]
          /\ file' = [file EXCEPT ![o] = Done([file[o] EXCEPT !.deduped = TRUE, !.compressor = disk[m].packed,
                                                        !.status = @ \ {"DEDUPING"}])]
          /\ desc' = Replaced(n, Null)
    /\ bg' = BgIdle
    /\ UNCHANGED <<database, live, owner, dbOwner, queue, thr>>

BgStep ==
    \/ BgPop \/ BgSkip \/ BgCompressNot \/ BgCompress \/ BgCompressCancelled
    \/ BgCompressCommit \/ BgCompressFails
    \/ BgDedup \/ BgDedupFails \/ BgDedupCancelled \/ BgDedupCommit

-----------------------------------------------------------------------------
CallStep(t) ==
    \/ \E n \in Name, op \in {"utime", "mknod", "unlink", "truncate", "open"} : Call(t, op, n, Null)
    \/ \E n, m \in Name : n # m /\ Call(t, "rename1", n, m)
    \/ \E n \in Name : Lstat(t, n)
    \/ \E d \in Desc : Read(t, d) \/ WriteAppend(t, d) \/ WriteFallback(t, d)
                       \/ WriteRaw(t, d) \/ Release(t, d)

(* The steps of a handler that is under way.                                *)
HandlerStep(t) ==
    \/ LockDatabase(t) \/ DirectOpenPurge(t) \/ Rewake(t)
    \/ \E o \in Obj : DirectOpenHit(t, o) \/ DirectNewFile(t, o) \/ PurgeEntry(t, o)
    \/ Getattr(t) \/ Utime(t) \/ Mknod(t) \/ Unlink(t)
    \/ \E s \in Sizes : Truncate(t, s)
    \/ \E d \in Desc : Open(t, d)
    \/ OpenFails(t) \/ OpenLeaksLock(t)
    \/ RenameKeepFrom(t) \/ RenameKeepTo(t) \/ RenameLockFrom(t) \/ RenameCommit(t)
    \/ ReadFail(t) \/ Pwrite(t)

Next == BgStep \/ \E t \in Thread : CallStep(t) \/ HandlerStep(t)

Spec == Init /\ [][Next]_vars

-----------------------------------------------------------------------------
(* Properties *)

\* The rename in thread t keeps these entries by an access of its own.
Kept(t) == ({thr[t].from} \cup IF thr[t].pc \in {"relock1", "relock2"} THEN {thr[t].file} ELSE {})
           \ {Null}

KeepersOf(o) == {t \in Thread : o \in Kept(t)}

BgOf(o) == IF bg.file = o THEN 1 ELSE 0

(* file->accesses counts exactly the open descriptors, the queue entries,   *)
(* the entry the background thread has popped and the renames under way     *)
(* (structs.h calls it the number of descriptors in the list).              *)
AccessesExact ==
    \A o \in live : file[o].accesses =
        Cardinality(DescOf(o)) + Cardinality(QueuedOf(o)) + BgOf(o) + Cardinality(KeepersOf(o))

(* No descriptor, queue entry, background step or lock-holding handler ever *)
(* refers to a file_t that _direct_open_purge() has freed.                  *)
ReferencesLive ==
    /\ \A d \in Desc : desc[d].file \in live \cup {Null}
    /\ \A i \in 1..Len(queue) : queue[i].file \in live
    /\ bg.file \in live \cup {Null}
    /\ \A t \in Thread : Kept(t) \subseteq live
    /\ \A o \in Obj : owner[o] # Null => o \in live

(* What keeps the counts true, as an inductive invariant (with TypeOK, the  *)
(* two above): where each thread is decides what it holds, ...              *)
ControlOf(t) ==
    LET r == thr[t] IN
    /\ r.pc = "idle" => r = Idle
    /\ r.pc # "idle" => r.name \in Name
    /\ r.pc \in {"scan", "purge"} <=> dbOwner = t
    /\ r.pc = "purge" => r.walk \subseteq database
    /\ r.pc \in {"locked", "relock1", "relock2"} => r.file \in live /\ file[r.file].name = r.name
    /\ r.pc = "locked" => owner[r.file] = t
    /\ r.pc = "relock2" => owner[r.from] = t
    /\ r.pc \in {"wait", "woken"} => r.file \in Obj /\ (r.file \in live => file[r.file].name = r.name)
    /\ r.pc \in {"relock1", "relock2"} => r.op = "rename2"
    /\ r.pc \in {"pwrite", "readfail"} =>
          /\ r.op \in {"read", "write"} /\ r.desc \in Desc /\ r.file \in Obj
          /\ desc[r.desc].file = r.file /\ file[r.file].name = r.name
    /\ r.op = "getattr" => r.stat # "none"
    /\ r.from # Null <=> r.op = "rename2"
    /\ r.op = "rename2" => r.from \in live /\ file[r.from].name = r.other
    /\ r.op \in {"rename1", "rename2"} => r.other \in Name /\ r.other # r.name

Control == \A t \in Thread : ControlOf(t)

(* ... two calls on one path are compatible, ...                            *)
PathsExclusive ==
    \A t, u \in Thread : t # u =>
        \A n \in Name : n \in {thr[t].name, thr[t].other} /\ n \in {thr[u].name, thr[u].other}
            => Compatible(thr[t].op, thr[u].op)

(* ... and the background thread has a file exactly while it is at work.    *)
BgControl ==
    /\ bg.pc = "idle" <=> bg.file = Null
    /\ bg.pc = "compressing" => bg.data # Null /\ bg.mtime # Null

(* Every entry in the table is allocated, and has its fields.               *)
TableLive == database \subseteq live /\ \A o \in live : file[o] \in FileRec

IInv == TypeOK /\ TableLive /\ ReferencesLive /\ AccessesExact /\ Control /\ PathsExclusive /\ BgControl

(* There is never more than one entry for a name, although lookup and       *)
(* insertion of different threads interleave with purges and renames.       *)
OneEntryPerName ==
    \A o, p \in database : file[o].name = file[p].name => o = p

(* While do_compress() runs without the lock and has not been cancelled,    *)
(* the file it will replace still has the contents the codec started from:  *)
(* replacing it loses no write (the comment at compress.c:390).             *)
InFlightFaithful ==
    /\ bg.pc \in {"compressing", "hashing"}
    /\ "CANCEL" \notin file[bg.file].status
    /\ bg.data # Null
    => /\ disk[file[bg.file].name] # Null
       /\ disk[file[bg.file].name].data = bg.data

(* No descriptor is left open on an inode its name no longer has: writes    *)
(* through it would be lost.                                                *)
NoStaleDescriptor == \A d \in Desc : desc[d].fd # "stale"

(* A raw pwrite() outside the lock never hits a file that has been turned   *)
(* into a compressed image meanwhile.                                       *)
PwriteIsRaw ==
    \A t \in Thread : thr[t].pc = "pwrite" =>
        /\ ~file[thr[t].file].compressor
        /\ disk[file[thr[t].file].name] # Null => ~disk[file[thr[t].file].name].packed

(* Every thread that sleeps in direct_open() has somebody to wake it: the   *)
(* background thread is at work on that very file and will see CANCEL.      *)
SleeperHasWaker ==
    \A t \in Thread : thr[t].pc = "wait" =>
        /\ bg.file = thr[t].file /\ bg.pc \in {"compressing", "hashing"}
        /\ "CANCEL" \in file[bg.file].status

(* The assertion of direct_rename(): once descriptors and queue entries     *)
(* have moved, at most the background thread's access is left.              *)
RenameAssertion ==
    \A t \in Thread : thr[t].pc = "relock2" =>
        LET a == thr[t].from IN
        file[a].accesses <= 2 + Cardinality(DescOf(a)) + Cardinality(QueuedOf(a))

(* The user's view: contents and lengths, descriptors, truncations under    *)
(* way, and that there is a background thread; nothing else of the above.   *)
Flat == INSTANCE FlatFS WITH
    Content <- (Data \cup {Garbage}) \X SizeClass, Absent <- Null,
    content <- [n \in Name |-> IF disk[n] = Null THEN Null ELSE <<disk[n].data, disk[n].size>>],
    opened <- [d \in Desc |-> IF desc[d].file = Null THEN Null ELSE file[desc[d].file].name],
    truncating <- {thr[t].name : t \in {u \in Thread : thr[u].op = "truncate"}},
    worker <- bg

(* Compression is transparent: neither purges nor the background thread nor *)
(* on-the-fly decompression change what a name contains, how long it is or  *)
(* what a descriptor is open on; only the user's own calls do.              *)
Transparent == Flat!Spec

(* A thread back in FUSE holds no lock; the next LOCK by it would fail.     *)
LocksReturned == \A o \in Obj : owner[o] # Null => thr[owner[o]].pc \in {"locked", "relock2"}

(* direct_open() returns an entry of the database: a waiter never wakes up  *)
(* to find its entry freed.                                                 *)
NoUseAfterFree == \A t \in Thread : thr[t].pc \in {"wait", "woken"} => thr[t].file \in live

(* A background step never changes a modification time.                     *)
TimesKept ==
    [][bg' # bg => \A n \in Name : disk[n] # Null => disk'[n].mtime = disk[n].mtime]_vars

(* What a handler writes is the user's data: no compressed image is cut or  *)
(* overwritten as if it were plain data, no plain data as if it were empty. *)
NoTornImage == \A n \in Name : disk[n] # Null => disk[n].data # Garbage

(* Fairness: threads are scheduled, so a handler that can go on does        *)
(* (WF), and the background thread, which has to compete for the lock of    *)
(* its file with every getattr and utime of it, gets it at last (SF).       *)
FairSpec ==
    /\ Spec
    /\ SF_vars(BgStep)
    /\ \A t \in Thread : WF_vars(HandlerStep(t))

(* A thread that sleeps in direct_open() until the background thread lets   *)
(* go of the file is woken.                                                 *)
SleepersWake == \A t \in Thread : thr[t].pc = "wait" ~> thr[t].pc # "wait"

(* Every file handed to the background thread is worked off and given back  *)
(* (thread_compress() restores accesses), so that the table can shrink.     *)
QueueDrains ==
    \A o \in Obj : (QueuedOf(o) # {} \/ bg.file = o) ~> (QueuedOf(o) = {} /\ bg.file # o)

=============================================================================
