-------------------------------- MODULE Dedup --------------------------------
(***************************************************************************)
(* Deduplication: names that share an inode, the database of hashes        *)
(* (`dedup_database'), the background thread that links duplicates, the    *)
(* calls that undo a link, and the database file that survives a mount.    *)
(*                                                                         *)
(* The table of entries, its queue and its locks are the subject of        *)
(* FileTable.  Here an entry is its flag `deduped'; a call on a name the   *)
(* background thread is at work on waits until the thread has let go.  A   *)
(* stretch of code under the lock of one file is one action, except where  *)
(* others can look at what it changes in between: do_undedup() between     *)
(* unlink and rename, fusecompress_rename() between the directory and the  *)
(* database, hardlink_file() between link and rename.                      *)
(*                                                                         *)
(* The MD5 hash of a file is its contents: collisions are left out, and so *)
(* are attribute files.                                                    *)
(***************************************************************************)
EXTENDS Naturals, FiniteSets

CONSTANTS
    Name,       \* path names of regular files
    Ino,        \* inodes of the backing file system
    Desc,       \* descriptor_t's
    Data,       \* contents of files
    Null,       \* no name, inode or contents; an absent file
    Excluded,   \* names is_excluded() rejects
    Calls,      \* the calls users make (a bound on the model)
    Failures    \* system calls that may fail

CallKind == {"read", "write", "truncate", "mknod", "unlink", "rename", "link",
             "redup", "unmount", "crash"}

FailureKind == {"hash", "link", "copy", "call", "save"}

ASSUME DedupConstants ==
    /\ Null \notin Name \cup Ino \cup Data \cup [from : Name, to : Name]
    /\ Excluded \subseteq Name
    /\ Calls \subseteq CallKind /\ Failures \subseteq FailureKind
    /\ IsFiniteSet(Name) /\ IsFiniteSet(Ino)

VARIABLES
    dir,      \* dir[n]: the inode the name n is a link to
    data,     \* data[i]: the (decompressed) contents of an inode
    litter,   \* inodes with a further link under a left-over temporary name
    db,       \* dedup_database
    saved,    \* the entries of DEDUP_DB_FILE; none if there is no such file
    deduped,  \* deduped[n]: file->deduped of the entry of n
    queued,   \* names in the background thread's queue, to be deduplicated
    redup,    \* dedup_redup
    fds,      \* fds[d]: an open descriptor
    copy,     \* copy[n]: the temporary file do_undedup(n) will move to n
    ren,      \* the rename that has changed the directory and not yet db
    bg,       \* where do_dedup() is
    mounted,  \* with deduplication
    spoiled   \* (history) listed names a call on another name changed

vars == <<dir, data, litter, db, saved, deduped, queued, redup, fds, copy, ren, bg, mounted, spoiled>>

Entry == [name : Name, md5 : Data]

Closed == [name |-> Null, ino |-> Null, writes |-> FALSE]
BgIdle == [pc |-> "idle", name |-> Null, md5 |-> Null, ino |-> Null, target |-> Null]

TypeOK ==
    /\ dir \in [Name -> Ino \cup {Null}]
    /\ data \in [Ino -> Data]
    /\ litter \in SUBSET Ino
    /\ db \in SUBSET Entry
    /\ saved \in SUBSET Entry
    /\ deduped \in [Name -> BOOLEAN]
    /\ queued \in SUBSET Name
    /\ redup \in BOOLEAN
    /\ fds \in [Desc -> [name : Name \cup {Null}, ino : Ino \cup {Null}, writes : BOOLEAN]]
    /\ copy \in [Name -> Ino \cup {Null}]
    /\ ren \in [from : Name, to : Name] \cup {Null}
    /\ bg \in [pc : {"idle", "hashing", "linked"}, name : Name \cup {Null}, md5 : Data \cup {Null},
               ino : Ino \cup {Null}, target : Name \cup {Null}]
    /\ mounted \in BOOLEAN
    /\ spoiled \in SUBSET Name

\* Mutation: an entry that is made anew counts as not deduplicated.
NewFile_Unknown(n, d, r) == FALSE

(* direct_new_file(): assume that a file has been deduplicated, unless all  *)
(* files are wanted and the database d does not list it.                    *)
NewFile(n, d, r) == ~r \/ \E e \in d : e.name = n

Init ==
    /\ dir \in {f \in [Name -> Ino \cup {Null}] :
                    \A n, m \in Name : f[n] = f[m] /\ f[n] # Null => n = m}
    /\ data \in [Ino -> Data]
    /\ litter = {} /\ db = {} /\ saved = {}
    /\ deduped = [n \in Name |-> NewFile(n, {}, FALSE)]
    /\ queued = {} /\ redup = FALSE
    /\ fds = [d \in Desc |-> Closed]
    /\ copy = [n \in Name |-> Null]
    /\ ren = Null /\ bg = BgIdle /\ mounted = TRUE /\ spoiled = {}

-----------------------------------------------------------------------------
(* Helpers *)

EntriesOf(n) == {e \in db : e.name = n}
OpenNames == {fds[d].name : d \in Desc} \ {Null}

\* st_nlink
Nlink(i) ==
    Cardinality({n \in Name : dir[n] = i}) + (IF bg.ino = i THEN 1 ELSE 0) + (IF i \in litter THEN 1 ELSE 0)

\* The inode of a new file: one that nobody has.
Free(i) ==
    /\ Nlink(i) = 0
    /\ \A n \in Name : copy[n] # i
    /\ \A d \in Desc : fds[d].ino # i

\* The names of the rename under way.
Renaming == IF ren = Null THEN {} ELSE {ren.from, ren.to}

\* file->lock is held across steps.
Locked(n) ==
    \/ copy[n] # Null
    \/ n \in Renaming
    \/ bg.pc = "linked" /\ bg.name = n

(* What direct_open(n, TRUE) waits for; it has the background thread cancel *)
(* (BgCancelled).                                                           *)
Stable(n) == mounted /\ ~Locked(n) /\ bg.name # n

(* Names that stay or become spoiled: those listed, or about to be.         *)
Spoil(names) ==
    spoiled' = {m \in spoiled \cup names :
                    m = bg.name \/ m \in Renaming \/ \E e \in db' : e.name = m}

\* The other names of an inode n changes in place (Null: none).
Sharers(n, i) == {m \in Name \ {n} : i # Null /\ dir[m] = i}

(* dedup_discard() on the database.                                         *)
DropHash(n) ==
    IF deduped[n] /\ EntriesOf(n) # {} THEN \E e \in EntriesOf(n) : db' = db \ {e}
    ELSE UNCHANGED db

(* dedup_discard(): file->lock is held, dedup_database.lock is not.  The    *)
(* caller goes on to change inode i (Null: none) in place.                  *)
Discard(n, i) ==
    /\ DropHash(n)
    /\ deduped' = [deduped EXCEPT ![n] = FALSE]
    /\ Spoil(Sharers(n, i))

-----------------------------------------------------------------------------
(* Calls *)

(* A descriptor for reading, or for writing on a file that has one link.    *)
Open(d, n, writes) ==
    /\ (IF writes THEN "write" ELSE "read") \in Calls
    /\ Stable(n) /\ dir[n] # Null /\ fds[d] = Closed
    /\ writes => Nlink(dir[n]) < 2
    /\ fds' = [fds EXCEPT ![d] = [name |-> n, ino |-> dir[n], writes |-> writes]]
    /\ UNCHANGED <<dir, data, litter, db, saved, deduped, queued, redup, copy, ren, bg, mounted, spoiled>>

(* do_undedup(): forget the hash, copy the file, unlink the name ...        *)
Undedup(n, i) ==
    /\ "write" \in Calls
    /\ Stable(n) /\ dir[n] # Null /\ Nlink(dir[n]) >= 2 /\ Free(i)
    /\ Discard(n, Null)
    /\ data' = [data EXCEPT ![i] = data[dir[n]]]
    /\ copy' = [copy EXCEPT ![n] = i]
    /\ dir' = [dir EXCEPT ![n] = Null]
    /\ UNCHANGED <<litter, saved, queued, redup, fds, ren, bg, mounted>>

(* ... and move the copy to it; fusecompress_open() goes on.                *)
UndedupRename(n, d) ==
    /\ copy[n] # Null /\ fds[d] = Closed
    /\ dir' = [dir EXCEPT ![n] = copy[n]]
    /\ fds' = [fds EXCEPT ![d] = [name |-> n, ino |-> copy[n], writes |-> TRUE]]
    /\ copy' = [copy EXCEPT ![n] = Null]
    /\ UNCHANGED <<data, litter, db, saved, deduped, queued, redup, ren, bg, mounted, spoiled>>

(* The copy fails; or the last rename does, and the name is gone; or utime  *)
(* does, after it.  The open fails.                                         *)
UndedupFails(n) ==
    /\ "copy" \in Failures
    /\ \/ /\ "write" \in Calls
          /\ Stable(n) /\ dir[n] # Null /\ Nlink(dir[n]) >= 2
          /\ Discard(n, Null)
          /\ UNCHANGED <<dir, copy>>
       \/ /\ copy[n] # Null
          /\ copy' = [copy EXCEPT ![n] = Null]
          /\ dir' \in {dir, [dir EXCEPT ![n] = copy[n]]}
          /\ UNCHANGED <<db, deduped, spoiled>>
    /\ UNCHANGED <<data, litter, saved, queued, redup, fds, ren, bg, mounted>>

(* fusecompress_write() through a descriptor.                               *)
Write(d, c) ==
    /\ fds[d].writes /\ ~Locked(fds[d].name)
    /\ Discard(fds[d].name, fds[d].ino)
    /\ data' = [data EXCEPT ![fds[d].ino] = c]
    /\ UNCHANGED <<dir, litter, saved, queued, redup, fds, copy, ren, bg, mounted>>

Release(d) ==
    /\ fds[d] # Closed /\ ~Locked(fds[d].name)
    /\ fds' = [fds EXCEPT ![d] = Closed]
    /\ UNCHANGED <<dir, data, litter, db, saved, deduped, queued, redup, copy, ren, bg, mounted, spoiled>>

(* do_decompress() or do_compress() has put a new file in n's place; open   *)
(* descriptors of n are reopened.                                           *)
Replace(n, i, c) ==
    /\ Free(i)
    /\ dir' = [dir EXCEPT ![n] = i]
    /\ data' = [data EXCEPT ![i] = c]
    /\ fds' = [d \in Desc |-> IF fds[d].name = n THEN [fds[d] EXCEPT !.ino = i] ELSE fds[d]]

(* fusecompress_truncate(): in place, or in the decompressed copy.          *)
Truncate(n, c) ==
    /\ "truncate" \in Calls
    /\ Stable(n) /\ dir[n] # Null
    /\ \/ /\ Discard(n, dir[n])
          /\ data' = [data EXCEPT ![dir[n]] = c]
          /\ UNCHANGED <<dir, fds>>
       \/ /\ Discard(n, Null)
          /\ \E i \in Ino : Replace(n, i, c)
    /\ UNCHANGED <<litter, saved, queued, redup, copy, ren, bg, mounted>>

(* A read or write that cannot be done in the compressed image.             *)
Decompress(n, i) ==
    /\ mounted /\ ~Locked(n) /\ n \in OpenNames /\ dir[n] # Null
    /\ Replace(n, i, data[dir[n]])
    /\ UNCHANGED <<litter, db, saved, deduped, queued, redup, copy, ren, bg, mounted, spoiled>>

Mknod(n, i, c) ==
    /\ "mknod" \in Calls
    /\ Stable(n) /\ dir[n] = Null /\ Free(i)
    /\ dir' = [dir EXCEPT ![n] = i]
    /\ data' = [data EXCEPT ![i] = c]
    /\ UNCHANGED <<litter, db, saved, deduped, queued, redup, fds, copy, ren, bg, mounted, spoiled>>

(* An open name is hidden by libfuse, not removed.  The entry is marked     *)
(* deleted: a queued one will be skipped, the next call makes a new one.    *)
Unlink(n) ==
    /\ "unlink" \in Calls
    /\ Stable(n) /\ dir[n] # Null /\ n \notin OpenNames
    /\ DropHash(n)
    /\ deduped' = [deduped EXCEPT ![n] = NewFile(n, db', redup)]
    /\ Spoil({})
    /\ dir' = [dir EXCEPT ![n] = Null]
    /\ queued' = queued \ {n}
    /\ UNCHANGED <<data, litter, saved, redup, fds, copy, ren, bg, mounted>>

(* A truncate or an unlink that fails has forgotten the hash all the same.  *)
CallFails(n) ==
    /\ "call" \in Failures /\ Calls \cap {"truncate", "unlink"} # {}
    /\ Stable(n) /\ dir[n] # Null
    /\ Discard(n, Null)
    /\ UNCHANGED <<dir, data, litter, saved, queued, redup, fds, copy, ren, bg, mounted>>

(* dedup_sys_rename(): the source goes, although rename() leaves both names *)
(* if they are links of one file.                                           *)
SysRename(n, m) == IF dir[n] = dir[m] THEN [dir EXCEPT ![n] = Null]
                   ELSE [dir EXCEPT ![m] = dir[n], ![n] = Null]

(* fusecompress_rename(), both entries locked: the directory first ...      *)
Rename(n, m) ==
    /\ "rename" \in Calls
    /\ ren = Null /\ n # m
    /\ Stable(n) /\ Stable(m) /\ dir[n] # Null /\ m \notin OpenNames
    /\ dir' = SysRename(n, m)
    /\ ren' = [from |-> n, to |-> m]
    /\ UNCHANGED <<data, litter, db, saved, deduped, queued, redup, fds, copy, bg, mounted, spoiled>>

(* dedup_rename(): what may become of the database.                         *)
RenamedDb(n, m) ==
    LET left == IF deduped[m] /\ EntriesOf(m) # {} THEN {db \ {e} : e \in EntriesOf(m)} ELSE {db} IN
    IF EntriesOf(n) = {} THEN left
    ELSE {(d \ {e}) \cup {[name |-> m, md5 |-> e.md5]} : d \in left, e \in EntriesOf(n)}

(* ... then the database, under its lock; descriptors and queue entries     *)
(* move to the new name (direct_rename), and the old entry is deleted.      *)
RenameDb ==
    /\ ren # Null /\ bg.pc # "linked"
    /\ db' \in RenamedDb(ren.from, ren.to)
    /\ deduped' = [deduped EXCEPT ![ren.to] = deduped[ren.from], ![ren.from] = NewFile(ren.from, db', redup)]
    /\ fds' = [d \in Desc |-> IF fds[d].name = ren.from THEN [fds[d] EXCEPT !.name = ren.to] ELSE fds[d]]
    /\ queued' = IF ren.from \in queued THEN (queued \ {ren.from}) \cup {ren.to} ELSE queued
    /\ Spoil(IF ren.from \in spoiled THEN {ren.to} ELSE {})
    /\ ren' = Null
    /\ UNCHANGED <<dir, data, litter, saved, redup, copy, bg, mounted>>

(* fusecompress_link(): decompress the file, which parts it from the others *)
(* it shares an inode with ...                                              *)
LinkDecompress(n, i) ==
    /\ "link" \in Calls
    /\ Stable(n) /\ dir[n] # Null
    /\ Replace(n, i, data[dir[n]])
    /\ UNCHANGED <<litter, db, saved, deduped, queued, redup, copy, ren, bg, mounted, spoiled>>

(* ... and, without its lock, make the hard link the user asks for.         *)
Link(n, m) ==
    /\ "link" \in Calls /\ mounted
    /\ dir[n] # Null /\ dir[m] = Null /\ copy[m] = Null
    /\ {n, m} \cap Renaming = {}
    /\ dir' = [dir EXCEPT ![m] = dir[n]]
    /\ UNCHANGED <<data, litter, db, saved, deduped, queued, redup, fds, copy, ren, bg, mounted, spoiled>>

(* A look at the magic files _fcredupon and _fcredupoff.                    *)
SetRedup(r) ==
    /\ "redup" \in Calls /\ mounted
    /\ redup' = r
    /\ UNCHANGED <<dir, data, litter, db, saved, deduped, queued, fds, copy, ren, bg, mounted, spoiled>>

-----------------------------------------------------------------------------
(* The table: entries nobody uses are queued, or dropped and made anew.     *)

Unused(n) == Stable(n) /\ n \notin OpenNames /\ n \notin queued

WantsDedup(n) == ~deduped[n] /\ n \notin Excluded /\ dir[n] # Null

BackgroundDedup(n) ==
    /\ Unused(n) /\ WantsDedup(n)
    /\ queued' = queued \cup {n}
    /\ UNCHANGED <<dir, data, litter, db, saved, deduped, redup, fds, copy, ren, bg, mounted, spoiled>>

Forget(n) ==
    /\ Unused(n) /\ ~WantsDedup(n)
    /\ deduped' = [deduped EXCEPT ![n] = NewFile(n, db, redup)]
    /\ UNCHANGED <<dir, data, litter, db, saved, queued, redup, fds, copy, ren, bg, mounted, spoiled>>

-----------------------------------------------------------------------------
(* The background thread *)

(* do_compress(), in one step: the file is replaced by its image.           *)
Compress(n, i) ==
    /\ bg = BgIdle /\ Stable(n) /\ n \notin OpenNames /\ dir[n] # Null
    /\ Replace(n, i, data[dir[n]])
    /\ Discard(n, Null)
    /\ UNCHANGED <<litter, saved, queued, redup, copy, ren, bg, mounted>>

(* A file queued for compression that is not compressed after all (in use,  *)
(* too long, a failure) loses its hash too.                                 *)
CompressNot(n) ==
    /\ bg = BgIdle /\ mounted /\ ~Locked(n) /\ dir[n] # Null
    /\ Discard(n, Null)
    /\ UNCHANGED <<dir, data, litter, saved, queued, redup, fds, copy, ren, bg, mounted>>

\* Mutation: a file that is in use is hashed all the same.
InUse_Ignored(n) == FALSE

\* thread_compress() finds more accesses than its own.
InUse(n) == n \in OpenNames

(* thread_compress() takes a file that is in use again off the queue.       *)
BgSkip(n) ==
    /\ bg = BgIdle /\ n \in queued /\ ~Locked(n)
    /\ InUse(n)
    /\ queued' = queued \ {n}
    /\ UNCHANGED <<dir, data, litter, db, saved, deduped, redup, fds, copy, ren, bg, mounted, spoiled>>

(* do_dedup() on a name that do_undedup() has lost: it cannot be opened.    *)
BgGone(n) ==
    /\ bg = BgIdle /\ n \in queued /\ ~Locked(n)
    /\ ~InUse(n) /\ dir[n] = Null
    /\ queued' = queued \ {n}
    /\ deduped' = [deduped EXCEPT ![n] = TRUE]
    /\ UNCHANGED <<dir, data, litter, db, saved, redup, fds, copy, ren, bg, mounted, spoiled>>

(* do_dedup(): hash the file, without its lock.                             *)
BgHash(n) ==
    /\ bg = BgIdle /\ n \in queued /\ ~Locked(n)
    /\ ~InUse(n) /\ dir[n] # Null
    /\ queued' = queued \ {n}
    /\ bg' = [BgIdle EXCEPT !.pc = "hashing", !.name = n, !.md5 = data[dir[n]]]
    /\ UNCHANGED <<dir, data, litter, db, saved, deduped, redup, fds, copy, ren, mounted, spoiled>>

(* The hash is dropped: a call wants the file.                              *)
BgCancelled ==
    /\ bg.pc = "hashing"
    /\ bg' = BgIdle
    /\ UNCHANGED <<dir, data, litter, db, saved, deduped, queued, redup, fds, copy, ren, mounted, spoiled>>

\* file->deduped = TRUE, and the thread is through.
BgEnd ==
    /\ deduped' = [deduped EXCEPT ![bg.name] = TRUE]
    /\ bg' = BgIdle

Matches == {e \in db : e.md5 = bg.md5}

\* Mutation: what is remembered is read after the thread is through.
BgAdd_AfterEnd ==
    /\ bg.pc = "hashing" /\ Matches = {}
    /\ BgEnd
    /\ db' = db \cup {[name |-> bg'.name, md5 |-> bg'.md5]}
    /\ UNCHANGED <<dir, data, litter, saved, queued, redup, fds, copy, ren, mounted, spoiled>>

(* hardlink_file(): no file with this hash is known; remember this one.     *)
BgAdd ==
    /\ bg.pc = "hashing" /\ Matches = {}
    /\ db' = db \cup {[name |-> bg.name, md5 |-> bg.md5]}
    /\ BgEnd
    /\ UNCHANGED <<dir, data, litter, saved, queued, redup, fds, copy, ren, mounted, spoiled>>

(* The hash failed, the match is the file itself, or it cannot be linked.   *)
BgNoLink ==
    /\ bg.pc = "hashing"
    /\ \/ "hash" \in Failures
       \/ \E e \in Matches : e.name = bg.name \/ dir[e.name] = Null \/ "link" \in Failures
    /\ BgEnd
    /\ UNCHANGED <<dir, data, litter, db, saved, queued, redup, fds, copy, ren, mounted, spoiled>>

(* A match: make a link to it under a temporary name ...                    *)
BgLink ==
    /\ bg.pc = "hashing"
    /\ \E e \in Matches :
          /\ e.name # bg.name /\ dir[e.name] # Null
          /\ bg' = [bg EXCEPT !.pc = "linked", !.ino = dir[e.name], !.target = e.name]
    /\ UNCHANGED <<dir, data, litter, db, saved, deduped, queued, redup, fds, copy, ren, mounted, spoiled>>

(* ... and move it over the file.                                           *)
BgRename ==
    /\ bg.pc = "linked"
    /\ \/ dir' = [dir EXCEPT ![bg.name] = bg.ino]
       \/ "link" \in Failures /\ UNCHANGED dir
    /\ BgEnd
    /\ UNCHANGED <<data, litter, db, saved, queued, redup, fds, copy, ren, mounted, spoiled>>

-----------------------------------------------------------------------------
(* Mounting *)

(* fusecompress_destroy() has emptied table and queue; dedup_save() writes  *)
(* the database, or as much of it as there is room for.                     *)
Unmount ==
    /\ "unmount" \in Calls /\ mounted
    /\ OpenNames = {} /\ queued = {} /\ bg = BgIdle /\ ren = Null
    /\ \A n \in Name : copy[n] = Null /\ ~WantsDedup(n)
    /\ saved' \in IF "save" \in Failures THEN SUBSET db ELSE {db}
    /\ db' = {} /\ mounted' = FALSE
    /\ UNCHANGED <<dir, data, litter, deduped, queued, redup, fds, copy, ren, bg, spoiled>>

(* The process dies: what it had in memory is gone, a temporary link stays. *)
Crash ==
    /\ "crash" \in Calls /\ mounted
    /\ litter' = litter \cup ({bg.ino} \ {Null})
    /\ db' = {} /\ queued' = {}
    /\ fds' = [d \in Desc |-> Closed]
    /\ copy' = [n \in Name |-> Null]
    /\ ren' = Null /\ bg' = BgIdle /\ mounted' = FALSE /\ spoiled' = {}
    /\ UNCHANGED <<dir, data, saved, deduped, redup>>

\* Mutation: the database file stays while the file system is in use.
Loaded_Kept == saved

\* The database file once it has been loaded.
Loaded == {}

(* dedup_load(): read the database and remove the file.                     *)
Mount ==
    /\ ~mounted
    /\ db' = {e \in saved : e.name \notin Excluded}
    /\ saved' = Loaded
    /\ redup' \in IF "redup" \in Calls THEN BOOLEAN ELSE {FALSE}
    /\ deduped' = [n \in Name |-> NewFile(n, db', redup')]
    /\ mounted' = TRUE
    /\ UNCHANGED <<dir, data, litter, queued, fds, copy, ren, bg, spoiled>>

-----------------------------------------------------------------------------
BgStep ==
    \/ \E n \in Name : BgSkip(n) \/ BgGone(n) \/ BgHash(n) \/ CompressNot(n) \/ \E i \in Ino : Compress(n, i)
    \/ BgCancelled \/ BgAdd \/ BgNoLink \/ BgLink \/ BgRename

OnName(n) ==
    \/ \E d \in Desc, w \in BOOLEAN : Open(d, n, w)
    \/ \E i \in Ino : Undedup(n, i) \/ Decompress(n, i) \/ LinkDecompress(n, i)
    \/ \E d \in Desc : UndedupRename(n, d)
    \/ UndedupFails(n) \/ Unlink(n) \/ CallFails(n)
    \/ \E c \in Data : Truncate(n, c) \/ \E i \in Ino : Mknod(n, i, c)
    \/ \E m \in Name : Rename(n, m) \/ Link(n, m)

Next ==
    \/ BgStep
    \/ \E n \in Name : OnName(n) \/ BackgroundDedup(n) \/ Forget(n)
    \/ \E d \in Desc : Release(d) \/ \E c \in Data : Write(d, c)
    \/ RenameDb
    \/ \E r \in BOOLEAN : SetRedup(r)
    \/ Unmount \/ Crash \/ Mount

Spec == Init /\ [][Next]_vars

-----------------------------------------------------------------------------
(* Properties *)

\* Contents of a name; absent: Null.
Contents(n) == IF dir[n] = Null THEN Null ELSE data[dir[n]]

(* The database never lies: a name in it has the contents it is listed      *)
(* with, but for the two names of a rename under way and for names that     *)
(* were spoiled through a shared inode (see Isolation).  hardlink_file()    *)
(* replaces a file by the one it finds there without comparing them.        *)
DbFaithful == \A e \in db : e.name \in Renaming \cup spoiled \/ Contents(e.name) = e.md5

(* Nor does the database file, across unmounting, crashes and mounting      *)
(* (the comment at dedup.c:609: an out-of-date one would be dangerous).     *)
SavedFaithful == \A e \in saved : e.name \in spoiled \/ Contents(e.name) = e.md5

(* No hash is listed twice, nor a name (but for a spoiled one); and a       *)
(* listed file has deduped set, even while it is renamed: dedup_discard()   *)
(* does nothing for a file that has not, and would leave a stale hash.      *)
DbKeys ==
    /\ \A e, f \in db : e.md5 = f.md5 => e = f
    /\ \A e, f \in db : e.name = f.name => e = f \/ e.name \in spoiled
    /\ \A e \in db : deduped[e.name] \/ e.name \in spoiled

(* Sharing is invisible: what a name contains changes only by a call on     *)
(* that name (do_undedup() copies a file before it is written to).          *)
Isolation ==
    [][\A n \in Name : Contents(n)' # Contents(n) /\ dir[n] # Null /\ dir'[n] # Null =>
          \/ \E d \in Desc, c \in Data : fds[d].name = n /\ Write(d, c)
          \/ \E c \in Data : Truncate(n, c)
          \/ \E m \in Name : Rename(m, n)]_vars

=============================================================================
