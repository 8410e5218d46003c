# FuseCompress: a TLA+ model of the file system, its files and its tools

FuseCompress is a FUSE file system that stores files compressed in a backing
directory. A file is compressed either while it is written (append only) or
later, in the background, when nobody uses it; it is decompressed for good
when somebody writes in the middle of it. The user must not notice any of
this. The difficulty is in keeping a table of files, its reference counts and
locks, and a thread that replaces files on disk, consistent while FUSE calls
run in parallel.

## 1. Inventory

| component | source | state | operations | hard because |
|---|---|---|---|---|
| file table | `direct_compress.c`, `structs.h` | `database` (list of `file_t`), per entry: name, `accesses`, `size`, `compressor`, `dontcompress`, `deduped`, `status`, `deleted`, lock, condition, list of descriptors | `direct_open`, `direct_new_file`, `_direct_open_purge`, `direct_close`, `direct_delete`, `direct_rename` | entries are freed while others look them up, sleep on them or have them queued |
| FUSE handlers | `fusecompress.c` | `descriptor_t` in `fi->fh` | getattr, mknod, unlink, rename, link, chmod, chown, truncate, utime, open, read, write, release; pass-through: readdir, readlink, mkdir, rmdir, symlink, statfs, fsync | run in parallel; give the entry's lock up for raw I/O; error returns |
| background thread | `background_compress.c` | `comp_database` (queue), the file it has popped | `background_compress`, `background_dedup`, `thread_compress` | works without the lock on a file anybody may ask for; cancellation |
| whole-file (de)compression | `compress.c` | temporary file, `status` flags | `do_compress`, `do_decompress`, `choose_compressor`, `compress_testcancel` | replaces a file under open descriptors; many ways to fail half-way |
| direct data path | `direct_compress.c` | codec handle and offset per descriptor, cache of decompressed pages per file | `direct_decompress`, `direct_compress`, `flush_file_cache` | decides between append, fallback and raw I/O from cached state |
| deduplication | `dedup.c` | two hash tables (name, MD5), attribute files, database file | `do_dedup`, `do_undedup`, `dedup_discard`, `dedup_rename`, `dedup_load/save`, `dedup_sys_*` | names share an inode; state outlives a mount |
| mount and unmount | `fusecompress.c` | options, the thread | `fusecompress_init`, `fusecompress_destroy`, `sigterm_handler`, `main` | a loop that must end; a signal handler that works on the table |
| file format | `file.c` | 12-byte header | read/write header, `file_open`, `file_create_temp`, `is_compressible`, `is_excluded` | a header may be looked for in plain data |
| codecs | `compress_*.c`, `minilzo/lzo.c` | stream state | compress, decompress, open, read, write, close | partial writes, truncated input, cancellation |
| tools | `tools/fsck.c`, `tools/offline.c` | counters, the temporary file | check, repair, recompress an unmounted directory | work on damaged files |

How they interact: a handler calls `direct_open`, which searches the table
under `database.lock` and returns the entry with its lock held. An insertion
into a full table purges it: unused entries are freed, or queued for the
background thread with one access of their own. The background thread pops a
file, marks it `COMPRESSING` or `DEDUPING`, gives the lock up and lets the
codec run. A handler that needs a stable entry sets `CANCEL` and sleeps on the
entry's condition until the thread acknowledges. On unmount the table is
purged with force, again and again, until table and queue are empty.

What makes each part correct:

* file table: `accesses` is the exact number of references; an entry with a
  reference is never freed; one entry per name.
* background thread: what it writes back is what the file contains at that
  moment; who waits for it is woken; what it takes it gives back.
* handlers: only the user's own calls change a file; locks are returned.
* unmount: the loop ends, with an empty queue.
* deduplication: names that share an inode do not notice; the database, in
  memory and on disk, lists a name only with the hash of what it contains.
* data path: a read returns what the file contains, wherever the data come
  from; the cache is exactly accounted for; the assertions hold.
* attributes: each name has the owner, mode and times its users gave it,
  whatever inode it shares.
* format, codecs, tools: a file contains what was written to it, or the damage
  can be seen; fsck's exit status is true; temporary files are cleaned up.

The hazards, each at its line, are listed in `PROJECT.json`.

## 2. Modules

* `FlatFS`: what a user may rely on. A flat directory of files, each with one
  content; create, remove, truncate, write, open, close and rename change it,
  and a background worker that changes nothing.
* `FileTable`: the table, the queue, the handlers and the background thread.
* `Unmount`: extends `FileTable` by the main thread: `fusecompress_destroy()`
  and the SIGTERM handler of the option `noterm`.
* `Dedup`: the database of hashes, inodes shared by several names, undoing a
  link, the database file across mounts and crashes.
* `DataPath`: one file's streams, offsets and cache of decompressed pages.
* `Attributes`: owner, mode and times of names that share inodes.
* `Images`: images and temporary files on disk, the codecs down to their
  writes, and the programs that write them, on a disk that may be full and
  with crashes.
* `FileTable_proofs`, `Transparency_proofs`, `Failures_proofs` (each extends
  the one before), `Unmount_proofs`, `Dedup_proofs`, `Attributes_proofs`,
  `Images_proofs`, `DataPath_proofs`: theorems about the modules above (section 4).
* `MCFileTable`, `MCUnmount`, `MCDedup`, `MCDataPath`, `MCAttributes`,
  `MCImages`: instances for TLC (symmetry sets and a sample file only).

Each of the last three looks at what `FileTable` abstracts from, and relies on
what the others show: `DataPath` on the lock, which makes each handler one
step; `Images` on the cancellation, which keeps users away from a file that is
being replaced.

### FileTable: state

| variable | code |
|---|---|
| `database`, `live` | the entries on `database.head`; the `file_t`s that are allocated |
| `file[o]` | the fields of the `file_t` at address `o` |
| `owner[o]`, `dbOwner` | who holds `file->lock`, `database.lock` |
| `queue` | `comp_database.head` |
| `desc[d]` | a `descriptor_t`; `fd` says whether it still is the inode the name has |
| `disk[n]` | the backing file: contents, whether it is a compressed image, length class, time |
| `thr[t]` | the call a FUSE thread is in, the entry and names it works on |
| `bg` | where `thread_compress()` is, the file it has, what the codec has read |

A file's contents are one value; its length is one of four classes (empty; at
most `min_filesize_background`; longer; longer than `maxcompress`). The cached
`file->size` may also be unknown (-1) or the length of a compressed image
mistaken for that of the file. Offsets, the page cache and `file->type` are
left out here (`DataPath` has them), and where they decide between two paths
both are possible.

### FileTable: actions

A stretch of code from LOCK to UNLOCK of one entry is one action. Where the
code gives the lock up, the action ends: the wait in `direct_open`, the codec
in `do_compress` and the hash in `do_dedup`, the raw `pwrite`, the assignment
after UNLOCK in a failed read, the two lookups and the double lock of rename,
and every entry of a purge (the purger holds `database.lock` meanwhile).
`comp_database.lock` guards only list operations and is never held across
another lock.

`Call`, `Lstat`, `LockDatabase`, `DirectOpenHit`, `DirectOpenPurge`,
`PurgeEntry`, `DirectNewFile`, `Rewake` are `direct_open`. `Getattr`, `Utime`,
`Mknod`, `Unlink`, `Truncate`, `Open`, `OpenFails`, `OpenLeaksLock` are the
rest of the handlers that look an entry up; `Rename...` the steps of rename;
`Read`, `ReadFail`, `Write...`, `Pwrite`, `Release` the handlers on a
descriptor. `Bg...` is the background thread. `do_decompress`, always called
under the lock, is the operator `DoDecompress`, the set of its outcomes.
`Failures` says which system calls and codecs may fail; with the empty set
all succeed.

`PathFree` and `NotOpen` are what libfuse and the kernel guarantee: unlink and
rename have their paths to themselves, renames are serialised, one write or
truncate of a file runs at a time, and an open name is hidden by a rename
instead of being removed or replaced. The thread that wakes up to a freed
entry does nothing defined and is not followed further (`Rewake`).

### Unmount

`main` is the main thread: mounted, in the signal handler, or in one of the
steps of the loop in `fusecompress_destroy()` (check, purge, sleep), then
joining the background thread. `Forced` is the branch of the purge that takes
an entry in use out of the table without freeing it.

### Dedup

`FileTable` follows entries, locks and the queue and gives each name its own
file. `Dedup` is about what a link changes: `dir` gives each name an inode,
`data` each inode its contents. An entry of the table is reduced to its flag
`deduped`, the queue to the set `queued` of names that wait to be
deduplicated, and sleeping in `direct_open` to the guard `Stable`.

| variable | code |
|---|---|
| `dir`, `data`, `litter` | the backing directory and its inodes; links left over under temporary names |
| `db`, `saved` | `dedup_database`; the entries in `DEDUP_DB_FILE` |
| `deduped`, `queued`, `redup` | `file->deduped`, deduplication entries of `comp_database`, `dedup_redup` |
| `fds` | open descriptors |
| `copy`, `ren`, `bg` | `do_undedup` between unlink and rename; `fusecompress_rename` between directory and database; `do_dedup` |
| `mounted` | a mount with deduplication |
| `spoiled` | history: listed names whose contents a call on another name has changed |

Opening for writing is `Open` when the file has one link, else `Undedup` and
`UndedupRename`. `BgHash`, `BgCancelled`, `BgAdd`, `BgNoLink`, `BgLink` and
`BgRename` are `do_dedup` and `hardlink_file`. `Forget` stands for an entry
that is purged and made anew, which sets `deduped` afresh. `Unmount` is
`dedup_save`, `Mount` `dedup_load`, and `Crash` ends the process anywhere.

### DataPath

A file is a sequence; a unit of it is a fraction of a page, so that files may
end in the middle of one.

| variable | code |
|---|---|
| `back` | the backing file: image or not, the header's length, the data |
| `file` | the `file_t`: `compressor`, `size` (-1: unknown), `skipped`, `dontcompress`, `type`, `cache`, `cache_size` (`slots`) |
| `desc[d]` | a `descriptor_t`: `offset`, whether `handle` reads or writes, how far its stream has come (`pos`), what the codec has not written yet (`buf`) |
| `used` | `decomp_cache_size` |
| `reply` | what the last read returned, compared with the contents |
| `fault`, `stale`, `failed` | history: an assertion failed or an index was out of bounds; the cache is older than the contents; a call failed for lack of space |

`Reads` is `fusecompress_read`: `ReadRaw`, or `direct_decompress` in its three
ways `ReadCached`, `ReadFallback` (decompress for good), `ReadStream` (rewind
if need be, skip and keep what is skipped, read). `Writes` is
`fusecompress_write`: `WriteRaw`, or `direct_compress` as `WriteAppend` or
`WriteFallback`. `Truncate`, `TruncateZero`, `Open`, `Release`, `Getattr`,
`Forget` (the purge) and `DoCompress` (the background thread, when nobody has
the file open) are the others. The kernel's reads are of whole pages that the
file has (`Request`).

### Attributes

| variable | code |
|---|---|
| `dir`, `iattr` | the inode a name is a link to; an inode's attributes |
| `attr` | attribute files (`fuseattr_name`) |
| `call` | a chmod or chown between its `lstat` and its effect |
| `job` | a copy or link that will replace a name: `do_compress` and `do_decompress` (`replace`), `do_undedup`, `hardlink_file` |
| `user` | history: the attributes users gave |

There are two attributes: `perm`, which chmod and chown set without a lock, and
`mtime`, which utime sets under the lock and writing changes. `Means` is the
decision that `dedup_sys_chown`, `chmod` and `utime` share: drop, update or
create the attribute file, or change the inode. When the code is known to lose
an attribute (section 5), `Settle` takes what the name then shows as its
users' choice, so that the run goes on to look for other losses.

### Images

The unit of length is what a codec's loop reads at a time; the n-th unit is
the number n, so that a lost, doubled or displaced unit shows.

| variable | code |
|---|---|
| `dir`, `temps` | the files of the backing directory: plain, or an image with codec, header length, body and whether it was closed; temporary files |
| `contents` | history: what users wrote |
| `harm` | history: what happened to a file that the code is known not to survive |
| `prog`, `job` | the program that runs; the file it is writing, with the codec's buffer and result |
| `off`, `fsck` | `fusecompress_offline`'s arguments and walk; fsck's counters and exit status |
| `leaks` | history: temporary files left by a crash or by a known error path |

`Put` is a `write()` that succeeds, fails or falls short. `nullWrite`,
`lzowrite`, `lzmaWrite` and `libWrite` (external: `gzwrite`, `BZ2_bzwrite`)
say what a codec keeps and returns then, `CodecClose` what its close does,
`LoopFails` which results its loop takes for a failure, and `Decoded` what it
makes of an image later. `CompressStart`, `CompressStep`, `CompressTail`,
`DecompressStart`, `DecompressRun` are the codecs at work for `do_compress`,
`do_decompress` and `transform`; `Reject`, `Replace`, `RenameFails`,
`CloseFails` their ends; `Direct...` a file that is written straight into an
image; `Offline...` and `Fsck...` the tools. `Crash` ends the program anywhere.

## 3. Runs

| run | bounds | checks |
|---|---|---|
| `lifetime` | 2 names, 3 entries, 1 descriptor, 2 threads, every failure | `TypeOK`, `AccessesExact`, `ReferencesLive`, `OneEntryPerName` |
| `rename` | 2 names, 2 contents, deduplication on | `RenameAssertion`, `AccessesExact`, `NoTornImage`, `NoStaleDescriptor`, `Transparent` |
| `content` | 2 names, 2 contents, with truncate and mknod, which may fail | `SleeperHasWaker`, `LocksReturned`, `InFlightFaithful`, `PwriteIsRaw`, `Transparent` |
| `liveness` | open, release, utime and getattr under fair scheduling | `SleepersWake`, `QueueDrains` |
| `unmount` | 1 name, 3 entries, with getattr and mknod, three lengths, deduplication, a SIGTERM, hashes may fail | `TypeOKMain`, `ReferencesLive`, `QueueEmptied`, `UnmountEnds` |
| `hashes` | 2 names, 3 inodes, 2 contents, every call, failure, crash and remount | `TypeOK`, `DbFaithful`, `SavedFaithful`, `DbKeys` |
| `seeks` | 2 descriptors, a file of up to 5 units, pages of 2, a cache of 2 pages | `TypeOK`, `ReadsFaithful`, `CacheFaithful`, `CacheAccounted`, `NoFault`, `HeaderTruthful`, `OneWriter`, `ContentsKept` |
| `repair` | 2 files of up to 3 units, 1 temporary file, 5 codecs, every failure, crashes | `TypeOK`, `ContentsKept`, `DamageSeen`, `FsckTruthful`, `TempsAccounted` |
| `attributes` | 2 names, 3 inodes, 2 values, 1 thread, 1 job at a time | `TypeOK`, `AttributesKept`, `NoOrphans` |
| `freed_waiter` | 3 names, 4 entries | violates `NoUseAfterFree` |
| `shared_write` | two names opened for writing | violates `Isolation` |
| `stale_cache` | as `seeks` | violates `ReadsWhatWasWritten` |

Bounds. `MAX_DATABASE_LEN` is 0 instead of 30, so that every insertion beside
another entry purges. Two names and two threads are enough for a purge, a
rename and a second lookup to meet; one address more than names lets an entry
be freed and another be made while the first is still referred to. Two
contents are needed where a lost write must differ from what it replaced.
Every run lists in `Calls` the calls users make; together the runs fire every
action. Deadlock is checked, except in `lifetime` (the lock `open` leaks on an
I/O error blocks everybody), `rename` and `unmount` (the file whose hash
failed, see below, blocks its next user).

In `seeks` a file of five units has two and a half pages, so that the last is
partial, and the cache has room for two of them; a file of more than three
units is large in the sense of the 128 kB of `direct_decompress`, so that
seeking in it leads to decompression. Two descriptors are needed for a stream
to be ahead of the other. In `repair` a file of three units fills one block of
two and begins the next; one name may be compressed and one may not; one
temporary file is enough, since one left behind by a crash makes the next job
fail, which is a case of its own (`OfflineNoTemp`). In `attributes` two names
and three inodes allow a file, its duplicate and the copy that parts them, and
two values are enough for an attribute to differ.

What is exempt from a property is named in the model by a history variable
(`spoiled`, `stale`, `failed`, `harm`, `leaks`, `job.raced`), never by leaving
the step out: the runs show that these are the only ways to go wrong. Section
5 says what the code does there.

In `hashes` two names are enough for a file and its duplicate, and a third
inode for the copy that parts them; two descriptors, and three names with
four inodes on fewer calls, were tried as well and showed nothing further. A name that
another name's call has changed through a shared inode is in `spoiled`, and is
exempt from the three properties until its hash is dropped: that such a change
happens at all is the violation of `Isolation`, and the run shows that it is
the only way for the database to go wrong, but for the window of a rename.

Symmetry is over entries, descriptors and threads (in `Dedup` also names,
inodes and contents, in `Attributes` names, inodes and values), and is not used
where liveness is checked, nor in `Images`.

Fairness. Each handler under way goes on if it can (weak fairness): threads
are scheduled, and mutexes are held for bounded stretches only. The background
thread needs the lock of its file, for which getattr and utime compete; that
it gets it eventually is strong fairness of `BgStep`, what a mutex that does
not starve a waiter gives. Nothing is assumed about users: they may make no
further call. For unmounting, the main thread is weakly fair.

The `unmount` run has one name and no length limit, for reasons given in
section 5.

## 4. Proofs

Each theorem holds for every value of the constants that the module's
assumptions allow: any finite sets of names, entries, descriptors, threads,
inodes and temporary files, any limits, any set of calls and of failures
unless it says otherwise. TLC checks the same properties on the instances of
section 3, and each inductive invariant was checked with TLC before it was
proved.

| module | theorems | of the specification |
|---|---|---|
| `FileTable_proofs` | `Invariance`, `TypeCorrect`, `AccessesAreExact`, `ReferencesStayLive` | `FileTable!Spec` |
| `Transparency_proofs` | `ContentInvariance`, `OneEntry`, `RenameAssertionHolds`, `InFlight`, `Transparency` | `FileTable!Spec` |
| `Failures_proofs` | `LocksAreReturned`, `DescriptorsStayFresh`, `SleepersHaveWaker`, `WritesStayRaw`, `ImagesStayWhole`, `ImagesStayWholeUntruncated` | `FileTable!Spec`, without one failure each; the last two without two calls, or without their harmful use, too |
| `Unmount_proofs` | `MainInvariance`, `MainTypeCorrect`, `MainReferencesStayLive`, `QueueIsEmptied` | `Unmount!SpecMain` |
| `Dedup_proofs` | `Invariance`, `TypeCorrect`, `DatabaseTrue`, `DatabaseFileTrue`, `DatabaseKeys` | `Dedup!Spec` |
| `Attributes_proofs` | `Invariance`, `TypeCorrect`, `AttributesStay`, `OrphansByCalls` | `Attributes!Spec` |
| `Images_proofs` | `Invariance`, `TypeCorrect`, `ContentsStay`, `DamageIsSeen`, `FsckTellsTruth`, `TempsAccountedFor` | `Images!Spec` |
| `DataPath_proofs` | `Invariance`, `TypeCorrect`, `NoWrongRead`, `PagesOfTheFile`, `NothingLeaks`, `AssertionsHold`, `HeaderTells`, `WriterAlone`, `OnlyWritesChange`, `ReadsAreAnswered`, `ReadsSucceed` | `DataPath!Spec`, the last without truncation to zero and lack of space |

**The table** (`FileTable_proofs`). None of the three properties is inductive
alone. An entry is freed when its count is zero, so that no reference dangles
only if the count is exact; the count stays exact only if each thread's
control state says what it holds (`Control`), the background thread has a file
exactly while it works (`BgControl`), and a rename, which moves descriptors
between entries, meets no other call on its two paths (`PathsExclusive`, from
`PathFree`). `IInv` is the conjunction of these with `TypeOK` and `TableLive`.
Each action has its lemma (`ThreadStep` and `BackgroundStep` gather them); most
add and remove no reference and follow from `QuietStep`, and
`CountsElsewhere` says that a step on one entry leaves the counts of the others
alone. The others (insertion, purge, open, release, the keeping steps and the
commit of rename, the background thread's pop and its ends) are an equation of
cardinalities each, from lemmas on the queue (`RefsAppend`, `RefsTail`) and on
disjoint sets (`CardDisjoint`).

**Transparency** (`Transparency_proofs`). `CInv` adds to `IInv` what keeps
contents true: a thread that purges will insert a name that is still missing,
and `OneEntryPerName` (an insertion must not make a second entry);
`UsedIsQuiet` (an entry that a descriptor, a rename or a handler that asked for
a stable entry uses is not being worked on, which is what the wait in
`direct_open` is for); `Marked` (an entry is `COMPRESSING` exactly while the
background thread compresses it); and `WorkFaithful` (what it works on still
has the contents it read, cancelled or not, because every handler that changes
them asks for a stable entry). The refinement `Spec => FlatFS!Spec` maps each
step of a handler that changes what a user sees to the step of `FlatFS` of the
same name, and every other step, every purge, compression, decompression and
link by the background thread, to a stutter, with every failure allowed.

**Failures** (`Failures_proofs`). Five properties hold except where the code
is known to break them (section 5), and each theorem has the exception as its
hypothesis. Four depend on a failure or a setting: locks are returned unless
I/O fails in `open` (`"io"`);
descriptors are never stale unless `rename()` fails in `do_decompress`
(`"rename"`), which has closed and reopened them by then; sleepers have
somebody to wake them without deduplication (a failed `do_dedup`, also of a
file that is not there, leaves its mark); raw writes hit plain files unless
a write or `ftruncate` fails (`"write"`) or a name is excluded from
compression (an entry with a length that is out of date lets a write choose a
compressor again, and for an excluded name choose none). The strengthenings
are `LockHeld` (who holds a lock is where it will be given back), `WakerInv`
(an entry is busy only with `do_compress`, which looks for `CANCEL` before it is
done) and `HeadersKnown` (an entry in use knows whether its file is an image).

The fifth, `NoTornImage`, is broken by failed writes and by two things that are
calls: a truncate by name of a compressed file whose header nobody has read, and
a getattr whose `lstat` was overtaken by a write, so that the entry believes a
file empty that is not (section 5). `ImagesStayWhole` shows that there is no
other cause. Its hypothesis besides `"write" \notin Failures` is an action
property, `[][Careful]_vars`: truncate by name cuts to a length other than zero
only while the file is open (so that somebody has read the header), and no
getattr that found an empty file gets the entry when the file is no longer
empty. The theorem concludes `PwriteIsRaw` as well, here without the restriction
on excluded names. `ImagesStayWholeUntruncated` is the case of users who make
neither call (every step is then `Careful`, since a handler only runs for a call
that was made, `OpsCalled`); the run `rename` is an instance of it.

The inductive invariant is `WholeInv`, beside `HeadersKnown`: the entry of an
open file may believe a longer file empty only if it has given up compressing
it (`KnownLength`); the length of a file that is being written to without the
lock does not come as news (`LastingLength`); a file is whole, and not
compressed while it is empty (`GoodImage`); and what the background thread
compresses is not empty. Belief in an empty file matters because
`fusecompress_write` chooses its compressor then, and the first write puts a
header over what is there. Steps that leave all that alone follow from
`QuietWhole`, those on one entry and its file from `EntryWhole` (handlers) and
`BgWorkWhole` (the background thread); rename, which moves descriptors between
entries, stands by itself (`RenameWhole`).

**Unmounting** (`Unmount_proofs`). `MInv` is `IInv` with `MainControl`: the signal
handler has `database.lock`, `fusecompress_destroy()` runs after every handler,
a purge visits entries of the table, and the loop ends with table and queue
empty. A forced purge takes entries off the table that are in use, so
that the proof has to do without "what is in use is in the table"; the table
proof never uses it.

**Deduplication** (`Dedup_proofs`). The database is true because a listed name
is marked (`DbKeys`), a marked name is unmarked by every call that changes it,
a hash is taken from contents that cannot change before it is listed
(`BgFaithful`, `BgAlone`), a rename knows which hash it has yet to move
(`RenFaithful`), and the saved file exists only while nothing changes
(`SavedFaithful`, `Down`). `Control` says who has a name to himself.

**Attributes** (`Attributes_proofs`). `JobsFaithful`: what a copy or link will
give the name when it replaces it is what its users set, unless a chmod or
chown raced with it. `OrphansByCalls` is an action property.

**Images** (`Images_proofs`). `Compressing` says how far a codec has come: what
it has written, what it holds and what it has yet to read make up the file; or
a write was lost and ignored, and then either there is a gap in a stream whose
codec stops there, or less than the whole is left to come, so that the image
will be shorter than its header says. `Decompressing` says that a result of
full length is the data. `Writing` is the same for a file written straight into
an image, up to the first error the user is told of. `Files` says that this is
all that can be wrong with a file on disk (`Holds`), from which `ContentsKept`
and `DamageSeen` follow with `Shown`, which reads no more than the header
says. `Counted` says that what fsck has not found wrong is right or still to be
visited. Lemmas on what each codec's write and close do to a stream
(`CodecWriteTakes`, `CodecCloseCloses`) carry the five codecs; `FoundType` says
that a codec finds nothing beyond the first gap.

**The data path** (`DataPath_proofs`), for any length of a page, of files and of
the cache. That a read is right needs to know, of every descriptor, where its
stream stands (`Streams`, `StreamOK`: where the descriptor says, at the
beginning of a page or at the end of the file), of the header and the entry,
how long the file is (`Header`), and of the cache, that it has a slot for each
page of the file and no page that is not counted (`Cache`). When space runs out
the code forgets the length, and then a stream may stand at the end while its
descriptor does not: `StreamOK` admits that after a failure, and the proof shows
that every further read of such a stream is an error, never wrong data
(`DoneFacts`, `GotFacts`). `PlainInv` gathers the steps that leave a plain file
behind (decompression for good, truncation, raw writes), `StreamedInv` the ways
`direct_decompress` ends when it reads on in a stream, and `ReadStreamInv` goes
through its loop: the pages served from the cache, those skipped and kept
(`KeptFacts`) and the rest are consecutive stretches of the file (`SliceParts`).
Arithmetic on pages, where the length of a page is a parameter, is in lemmas of
its own (`Paged` to `SlotOfPage`). `ReadsAreAnswered` is an action property, and
`ReadsSucceed` says what remains when nothing fails: every read succeeds.

Assumptions: the named `ASSUME`s of the modules (finiteness, that `Null` and
`Main` are nothing else, ranges of limits); TLC evaluates them in every run.

Only model-checked: liveness (`SleepersWake`, `QueueDrains`, `UnmountEnds`),
which is out of the prover's reach.

## 5. Known disagreements

The runs that end in a violation show where the code does not do what a
comment or test of the repository says: a waiter's entry may be freed
(`freed_waiter`), a file that is open for writing may become the target of a
link, so that the next write changes both names (`shared_write`), and pages of
a file's former contents may be served after a truncation to zero
(`stale_cache`). `PROJECT.json` quotes the lines.

The same models show more of the kind; they are not kept as runs.

The table, the queue and the handlers (`FileTable`, `Unmount`):

* A truncate by name of a file whose entry has not read the header cuts the
  compressed image (`fusecompress.c:524`; `compress.c:166` expects the
  opposite): `NoTornImage` fails in the configuration of `content`.
* A failed hash leaves `DEDUPING` set and wakes nobody (`dedup.c:324`): with
  `Calls = {"mknod"}`, deduplication and `dedup_redup` on and the failure
  `dir`, `SleeperHasWaker` fails: the next caller sleeps for ever.
* A SIGTERM takes the entry of an open file out of the table
  (`fusecompress.c:1114`); the file gets a second entry and is compressed
  while it is open. With `SpecMain`, 4 entries, the calls open and getattr,
  `Umount = FALSE` and one signal, `NoStaleDescriptor` fails.
* getattr calls `lstat` before it has the entry (the TODO at
  `fusecompress.c:122`), so with getattr beside open and write `NoTornImage`
  fails; for that reason `rename` and `content` have no getattr.
* A utime during background compression is undone: `do_compress` restores the
  times it read before (`compress.c:472`), although `test/utime2.py` is there
  to "check for race-free setting of timestamps". With utime among the calls
  and two times `TimesKept` fails.
* `open` returns with the lock held on an I/O error (`fusecompress.c:678` and
  `694`), so `LocksReturned` fails with the failure `io`.
* With `MaxCompress` a file beyond the limit is queued and skipped for ever
  when unmounting, and with two names a file may be compressed, linked to an
  uncompressed duplicate and compressed again: `UnmountEnds` fails.
* The unmount loop looks at the queue and not at the file the background
  thread has popped (`fusecompress.c:1006`): the thread may be cancelled in
  the middle of a file.

Deduplication (`Dedup`):

* truncate by name forgets the hash but does not part shared inodes
  (`fusecompress.c:517`): with `truncate` among the calls, `Isolation` fails
  without any open file.
* rename changes the directory before the database (`fusecompress.c:411` and
  `422`): a duplicate that is linked in between gets the wrong file. Hence
  the exemption of `Renaming` in `DbFaithful`.
* `do_undedup` unlinks the name before it moves the copy there
  (`dedup.c:445`): after a crash or a failed rename the name is gone.
* A mount without deduplication, or one that cannot open the database file
  for reading, leaves the file in place and goes on to change what it lists
  (`fusecompress.c:1507`, `dedup.c:546`); the comment at `dedup.c:609` calls
  that dangerous. Neither is in the model.
* fusecompress_link() marks a file `dontcompress` so that links stay links,
  but the purge queues it all the same, and opening it for writing under
  deduplication parts them.

The data path (`DataPath`):

* After a read or write has failed, `file->size` is -1, which `do_decompress`
  compares with the free space as an unsigned number (`compress.c:131`): all
  further fallbacks fail with ENOSPC until an open or a getattr has read the
  length again. A read of the file meanwhile makes a cache of one page for
  it and, when it fails, leaves a page counted that is not there
  (`direct_compress.c:525` and `540`). Hence `failed` in `CacheAccounted`, and
  such a cache counts as `stale`.
* A first write that fails after the header was written leaves an image of
  length 0 (`direct_compress.c:683`).

Attributes (`Attributes`); the tests `dedup_attrs*.py` cover the sequential
cases, which hold:

* chmod and chown take no lock. One that meets a compression, decompression or
  `do_undedup` is undone by it, since these restore what they read before
  (`compress.c:420`, `dedup.c:440`); one that is overtaken by a link or a
  rename goes to the wrong inode, or leaves an attribute file behind which the
  next file of that name takes up.
* A file that is renamed over one with an attribute file inherits it, if it
  has none itself (`dedup.c:982`, `997`).
* An attribute file that is left when the last other link goes hides the new
  time of modification of later writes.
* `hardlink_file` removes the attribute file before it moves the link
  (`dedup.c:171`, `176`); if the move fails the name is left with the
  attributes of its inode.

Images, codecs and tools (`Images`):

* A full disk loses data. `nullCompress` and `lzoCompress` store -1 in an
  unsigned number and test for 0, `gzCompress` tests for -1 where `gzwrite`
  returns 0, `lzmaCompress` notices a short write but not a failed one, and
  only `bz2Compress` looks for the right value; nobody but LZMA looks at what
  close returns. The codecs return the number of units they have read, which
  is what `do_compress` compares, so that the file is replaced by a truncated
  image. `test/diskfull.sh:31` says "umounting; should leave file uncompressed
  and not hang". These files have `harm` "ignored" and are exempt from
  `ContentsKept`, not from `DamageSeen`: reading them ends in an error, as
  `test/corrupt.py` demands ("they count as invalid and must return EIO on
  read()"), and fsck finds them.
* A user who is told of a failed write and tries again may end with units twice
  (LZO keeps the block that it has written in part) or with units missing
  (LZMA), which nothing notices.
* `transform` compares the result with -1 only: decompressing a truncated
  image makes a short plain file of it (`offline.c:175`). When recompressing
  it ignores that the inner call has failed and compresses the image again as
  if it were a plain file (`offline.c:112`).
* `do_decompress` leaves its temporary file when it cannot rename it
  (`compress.c:257`), `do_compress` when it cannot close one (`436`).
* fsck counts a file as repaired whether `unlink` succeeded or not
  (`fsck.c:74`), and goes on with an unassigned compressor when a file begins
  with the magic number and has no valid header (`fsck.c:173`), although
  "everything that is not a FuseCompress-compressed regular file is ignored"
  (`fsck.c:126`). Neither is in the model.

## 6. Not modelled, and the plan

Not modelled: option parsing, logging, statistics; pass-through handlers
(readdir, readlink, mkdir, rmdir, symlink, statfs, fsync), which keep no state;
memory exhaustion; vendored compressors and the inside of zlib, libbz2 and
liblzma; plain files that begin with the header's magic number; a header that
is written in part; power failures (the code never flushes before a rename,
and in `Images` what was written is there after a crash); what a torn LZO
block that was stored uncompressed may return before its error; direct I/O,
which alone brings reads that are not of whole pages; fsck's `-r` and `-l`,
which rebuild the database of hashes, and `ratio.py`.

`DataPath` and `Images` have no step that runs beside a handler, and
`FileTable` no offsets: the composition of the three, a read that skips while
the background thread works on another file and shares `decomp_cache_size`
with it (which is changed under the lock of one file only), is out of TLC's
reach and described nowhere else.

Every invariant and action property that a passing run checks has a theorem,
some of them under the hypotheses that section 4 names.
