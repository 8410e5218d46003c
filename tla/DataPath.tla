------------------------------ MODULE DataPath ------------------------------
(***************************************************************************)
(* Reading and writing one file through FuseCompress: the codec streams of *)
(* its descriptors, the choice between streaming, rewinding, decompressing *)
(* for good and raw access, and the cache of pages that were decompressed  *)
(* only to be skipped (mount option `cache_skipped').                      *)
(*                                                                         *)
(* FileTable follows locks and entries and treats contents as one value;   *)
(* here every handler holds file->lock from beginning to end, and contents *)
(* are sequences.  The unit of length is a fraction of a page.             *)
(*                                                                         *)
(* The kernel asks for whole pages and only for pages the file has.  Reads *)
(* of any offset and length, which only direct I/O would bring, are left   *)
(* out.                                                                    *)
(***************************************************************************)
EXTENDS Integers, Sequences, FiniteSets

CONSTANTS
    Desc,          \* descriptor_t's
    Byte,          \* values of a unit of a file
    Zero,          \* what extends a file
    Page,          \* DC_PAGE_SIZE
    MaxLen,        \* length of the longest file (a bound on the model)
    CacheMax,      \* max_decomp_cache_size, in pages
    BigFile,       \* length beyond which seeking leads to decompression (128 kB)
    MinBackground, \* min_filesize_background
    CacheSkipped,  \* cache_decompressed_data
    Compressible,  \* choose_compressor() has a compressor for this file
    Null,          \* no page
    MaxAppend,     \* length of the longest file that writing extends (a bound on the model)
    Sample,        \* the files there are at first are its prefixes (a bound on the model)
    Lengths,       \* lengths that files are truncated to (a bound on the model)
    Calls,         \* the calls users make (a bound on the model)
    Failures       \* what may fail

CallKind == {"write", "truncate", "zero", "getattr"}

ASSUME DataPathConstants ==
    /\ Zero \in Byte /\ Sample \in Seq(Byte) /\ Len(Sample) <= MaxLen
    /\ Page \in Nat \ {0} /\ MaxLen \in Nat /\ MaxAppend \in 0 .. MaxLen /\ CacheMax \in Nat
    /\ Lengths \subseteq 1 .. MaxLen
    /\ BigFile \in Nat /\ MinBackground \in Nat
    /\ CacheSkipped \in BOOLEAN /\ Compressible \in BOOLEAN
    /\ Calls \subseteq CallKind /\ Failures \subseteq {"space"}
    /\ IsFiniteSet(Desc)

(* Null is not a page.                                                      *)
ASSUME NullAssumption == Null \notin Seq(Byte)

VARIABLES
    back,   \* the backing file: an image or plain, the header's length, the data
    file,   \* the file_t
    desc,   \* desc[d]: a descriptor_t
    used,   \* decomp_cache_size, in pages
    reply,  \* what the last step, if it was a read, returned
    fault,  \* (history) an assertion failed or an index left the cache
    stale,  \* (history) the cache was not made for these contents, or is too small
    failed  \* (history) a call has failed for lack of space

vars == <<back, file, desc, used, reply, fault, stale, failed>>

Slot == 0 .. MaxLen \div Page       \* indices a cache for MaxLen units has
Unknown == -1                       \* file->size

\* n units of s from the offset off on, or what there is of them.
Slice(s, off, n) == SubSeq(s, off + 1, IF off + n < Len(s) THEN off + n ELSE Len(s))

Backing(b, s) == [img |-> b, size |-> Len(s), data |-> s]

EmptyCache == [p \in Slot |-> Null]

(* direct_new_file() *)
NewFile == [compressor |-> FALSE, size |-> Unknown, skipped |-> 0, dontcompress |-> FALSE,
            type |-> "none", cache |-> EmptyCache, slots |-> 0]

Closed == [open |-> FALSE, offset |-> 0, pos |-> 0, handle |-> "none", buf |-> <<>>]

TypeOK ==
    /\ back \in [img : BOOLEAN, size : 0 .. MaxLen, data : Seq(Byte)]
    /\ file.compressor \in BOOLEAN /\ file.dontcompress \in BOOLEAN
    /\ file.size \in -1 .. MaxLen /\ file.skipped \in 0 .. MaxLen + 1
    /\ file.type \in {"none", "read", "write"}
    /\ file.slots \in 0 .. MaxLen \div Page + 1
    /\ \A p \in Slot : file.cache[p] = Null \/ file.cache[p] \in Seq(Byte)
    /\ desc \in [Desc -> [open : BOOLEAN, offset : 0 .. MaxLen, pos : 0 .. MaxLen,
                          handle : {"none", "read", "write"}, buf : Seq(Byte)]]
    /\ used \in 0 .. CacheMax
    /\ reply \in {"none", "right", "wrong", "stale", "error"}
    /\ fault \in BOOLEAN /\ stale \in BOOLEAN /\ failed \in BOOLEAN

Init ==
    /\ \E n \in 0 .. Len(Sample), b \in BOOLEAN :
        /\ b => n > 0
        /\ back = Backing(b, SubSeq(Sample, 1, n))
    /\ file = NewFile
    /\ desc = [d \in Desc |-> Closed]
    /\ used = 0
    /\ reply = "none"
    /\ fault = FALSE /\ stale = FALSE /\ failed = FALSE

-----------------------------------------------------------------------------
(* State *)

OpenDesc == {d \in Desc : desc[d].open}
Accesses == Cardinality(OpenDesc)
Writers == {d \in Desc : desc[d].handle = "write"}

(* What the file contains: what a codec has buffered and not yet written is *)
(* part of it.                                                              *)
Data == IF Writers = {} THEN back.data ELSE back.data \o desc[CHOOSE d \in Writers : TRUE].buf

\* A failed assertion or an index out of bounds is recorded; with a cache that
\* has outlived its file they are known to happen.
Records(bad) == fault' = (fault \/ (bad /\ ~stale))

Cached == {p \in Slot : file.cache[p] # Null}

\* Mutation: the pages are freed and stay counted.
FlushFileCache_Leaky(f, u) == [file |-> [f EXCEPT !.cache = EmptyCache, !.slots = 0], used |-> u]

(* flush_file_cache() on the entry f, with decomp_cache_size u.              *)
FlushFileCache(f, u) ==
    [file |-> [f EXCEPT !.cache = EmptyCache, !.slots = 0],
     used |-> u - Cardinality({p \in Slot : f.cache[p] # Null})]

(* The end of direct_close(): the only user leaves the defaults behind.      *)
Reset(f) == IF Accesses = 1 THEN [f EXCEPT !.type = "none", !.dontcompress = FALSE] ELSE f

(* direct_close() on every descriptor of the entry f; what a codec has       *)
(* buffered goes to disk (see Data).                                         *)
CloseAll(f) ==
    /\ desc' = [d \in Desc |-> [Closed EXCEPT !.open = desc[d].open]]
    /\ file' = Reset(f)

(* do_decompress() finds too little space: a length of -1 is more than any.  *)
NoSpace == file.size = Unknown \/ ("space" \in Failures /\ file.size > 0)

(* do_decompress() on the entry f, with decomp_cache_size u: a file without   *)
(* a header (an empty one) is not touched.                                   *)
Decompress(f, u) ==
    LET g == FlushFileCache(f, u) IN
    /\ file.size # Unknown
    /\ IF back.img THEN CloseAll([g.file EXCEPT !.compressor = FALSE])
       ELSE file' = [g.file EXCEPT !.compressor = FALSE] /\ UNCHANGED desc
    /\ used' = g.used
    /\ stale' = FALSE /\ UNCHANGED failed

-----------------------------------------------------------------------------
(* Open, release, getattr, the purge and the background thread *)

\* The length and the compressor a look at the header gives.
HeaderRead(f) == [f EXCEPT !.compressor = back.img, !.size = back.size]

Open(d) ==
    /\ ~desc[d].open
    /\ desc' = [desc EXCEPT ![d] = [Closed EXCEPT !.open = TRUE]]
    /\ file' = HeaderRead(file)
    /\ UNCHANGED <<back, used, fault, stale, failed>>

\* Mutation: the codec is not closed.
Release_Unclosed(d) ==
    /\ desc[d].open
    /\ desc' = [desc EXCEPT ![d] = Closed]
    /\ UNCHANGED <<back, file, used, fault, stale, failed>>

Release(d) ==
    /\ desc[d].open
    /\ desc' = [desc EXCEPT ![d] = Closed]
    /\ file' = IF file.compressor THEN Reset(file) ELSE file
    /\ back' = [back EXCEPT !.data = IF d \in Writers THEN Data ELSE @]
    /\ UNCHANGED <<used, fault, stale, failed>>

Getattr ==
    /\ "getattr" \in Calls
    /\ file.size = Unknown
    /\ file' = HeaderRead(file)
    /\ UNCHANGED <<back, desc, used, fault, stale, failed>>

(* _direct_open_purge(): an unused file is worth compressing.                *)
WantsCompression == ~file.compressor /\ file.size > MinBackground /\ Compressible

(* ... or its entry is freed; the next lookup makes a new one.               *)
Forget ==
    /\ OpenDesc = {} /\ ~WantsCompression
    /\ file # NewFile
    /\ file' = NewFile
    /\ used' = FlushFileCache(file, used).used
    /\ stale' = FALSE
    /\ UNCHANGED <<back, desc, fault, failed>>

(* do_compress() by the background thread: if the file is long enough and    *)
(* has no header it is replaced by an image.                                 *)
DoCompress ==
    /\ OpenDesc = {} /\ WantsCompression
    /\ back.img \/ Len(back.data) >= MinBackground
    /\ back' = [back EXCEPT !.img = TRUE]
    /\ file' = [file EXCEPT !.compressor = TRUE, !.size = Len(back.data)]
    /\ UNCHANGED <<desc, used, fault, stale, failed>>

-----------------------------------------------------------------------------
(* Read *)

\* The kernel reads whole pages that the file has.
Requests == {<<p * Page, k * Page>> : p \in Slot, k \in Slot \ {0}}
Request(off, n) == off < Len(Data) /\ off + n < Len(Data) + Page

Reply(got, off, n) ==
    reply' = IF got = Null THEN "error"
             ELSE IF got = Slice(Data, off, n) THEN "right"
             ELSE IF stale THEN "stale" ELSE "wrong"

ReadRaw(d, off, n) ==
    /\ Reply(Slice(back.data, off, n), off, n)
    /\ UNCHANGED <<back, file, desc, used, fault, stale, failed>>

(* The number of pages that the cache has for this read.                     *)
Served(off, n) ==
    IF ~CacheSkipped \/ file.type = "write" THEN 0
    ELSE CHOOSE k \in 0 .. n \div Page :
            /\ \A j \in 0 .. k - 1 : off \div Page + j \in Cached
            /\ k * Page = n \/ off \div Page + k \notin Cached

\* The loop looks at the slot after the k it has served, whatever the length.
LooksBeyond(off, n, k) == k > 0 /\ k * Page < n /\ off \div Page + k >= file.slots

\* The units of k pages from the slot p on.
PagesFrom(p, k) ==
    [i \in 1 .. k * Page |-> file.cache[p + ((i - 1) \div Page)][((i - 1) % Page) + 1]]

\* Mutation: a page that was served stays in the cache.
Consumed_Kept(off, k) == [file EXCEPT !.type = IF @ = "none" THEN "read" ELSE @]

(* direct_decompress() up to the end of the loop: the k pages that are       *)
(* served are freed.                                                         *)
Consumed(off, k) ==
    [file EXCEPT !.type = IF @ = "none" THEN "read" ELSE @,
                 !.cache = [q \in Slot |-> IF q \in off \div Page .. off \div Page + k - 1
                                          THEN Null ELSE @[q]]]

ReadCached(d, off, n, k) ==
    /\ k * Page = n
    /\ Reply(PagesFrom(off \div Page, k), off, n)
    /\ file' = Consumed(off, k)
    /\ used' = used - k
    /\ UNCHANGED <<back, desc, fault, stale, failed>>

BytesToSkip(now, req) == IF req >= now THEN req - now ELSE req

(* Reading on in the stream is not wanted: the file was written to, or       *)
(* there has been much skipping already and the cache is of no help.         *)
Fallback(d, off, u) ==
    LET skip == BytesToSkip(desc[d].offset, off) IN
    \/ file.type = "write"
    \/ /\ ~CacheSkipped \/ u >= CacheMax \/ skip > (CacheMax - u) * Page
       /\ file.skipped + skip > file.size
       /\ file.size > BigFile
       /\ off # desc[d].offset

ReadFallback(d, off, n, k) ==
    LET rest == off + k * Page IN
    /\ k * Page < n /\ Fallback(d, rest, used - k)
    /\ Records(LooksBeyond(off, n, k))
    /\ \/ /\ Decompress([Consumed(off, k) EXCEPT !.size = Unknown, !.skipped = 0], used - k)
          /\ back' = Backing(FALSE, Data)
          /\ Reply(PagesFrom(off \div Page, k) \o Slice(Data, rest, n - k * Page), off, n)
       \/ /\ NoSpace
          /\ file' = [Consumed(off, k) EXCEPT !.size = Unknown]
          /\ used' = used - k
          /\ Reply(Null, off, n)
          /\ failed' = TRUE
          /\ UNCHANGED <<back, desc, stale>>

\* Mutation: the descriptor is not set back to the beginning.
Rewound_NoSeek(d, off) ==
    IF off < desc[d].offset \/ desc[d].handle = "none"
    THEN [desc[d] EXCEPT !.offset = 0, !.handle = "read"]
    ELSE desc[d]

(* The stream of d when it is to read at off: closed and opened anew if it   *)
(* is beyond, opened if there is none.                                       *)
Rewound(d, off) ==
    IF off < desc[d].offset \/ desc[d].handle = "none"
    THEN [desc[d] EXCEPT !.offset = 0, !.pos = 0, !.handle = "read"]
    ELSE desc[d]

(* assert(descriptor->handle) before closing it, assert(offset == 0) before  *)
(* opening one.                                                              *)
StreamAssertion(d, off) ==
    /\ off < desc[d].offset => desc[d].handle # "none"
    /\ off >= desc[d].offset /\ desc[d].handle = "none" => desc[d].offset = 0

\* Mutation: pages are put one slot too far.
SlotOf_Next(s, j) == s.offset \div Page + j + 1

\* The slot of the page number j that the stream s skips.
SlotOf(s, j) == s.offset \div Page + j

(* What s skips to reach off is kept if there is room for all of it.         *)
CachesSkip(s, off, u) == CacheSkipped /\ off > s.offset /\ off - s.offset <= (CacheMax - u) * Page

\* The number of slots of the cache of the entry f, made if there is none.
SlotsFor(f) == IF f.slots > 0 THEN f.slots
               ELSE IF f.size = Unknown THEN 1 ELSE f.size \div Page + 1

(* The rest of direct_decompress(): skip to the offset, keeping what is      *)
(* skipped, then read.  A stream that ends too early is an error; the page   *)
(* that was being skipped stays counted.                                     *)
ReadStream(d, off, n, k) ==
    LET rest == off + k * Page
        f == Consumed(off, k)
        s == Rewound(d, rest)
        caches == CachesSkip(s, rest, used - k)
        small == caches /\ f.slots = 0 /\ f.size = Unknown
        skips == 0 .. (rest - s.offset) \div Page - 1
        done == {j \in skips : s.pos + (j + 1) * Page <= Len(back.data)}
        keeps == {j \in skips : caches /\ f.cache[SlotOf(s, j)] = Null}
        kept == done \cap keeps
        pages == [q \in Slot |-> IF \E j \in kept : SlotOf(s, j) = q
                                 THEN Slice(back.data, s.pos + (q - s.offset \div Page) * Page, Page)
                                 ELSE f.cache[q]]
        skipped == f.skipped + Page * Cardinality(done \ kept)
        at == s.pos + Page * Cardinality(done)
        size == IF f.size # Unknown /\ off + n > f.size THEN f.size - rest ELSE off + n - rest
        got == Slice(back.data, at, size)
        g == [f EXCEPT !.cache = pages, !.slots = IF caches THEN SlotsFor(f) ELSE @,
                       !.skipped = IF skipped > MaxLen THEN MaxLen + 1 ELSE skipped]
    IN  /\ k * Page < n /\ ~Fallback(d, rest, used - k)
        /\ Records(\/ LooksBeyond(off, n, k) \/ ~StreamAssertion(d, rest)
                   \/ \E j \in skips : caches /\ ~small /\ SlotOf(s, j) >= g.slots)
        /\ stale' = (stale \/ small)
        /\ IF done = skips /\ Len(got) = size
           THEN /\ desc' = [desc EXCEPT ![d] = [s EXCEPT !.offset = rest + size, !.pos = at + size]]
                /\ file' = g
                /\ used' = used - k + Cardinality(kept)
                /\ Reply(PagesFrom(off \div Page, k) \o got, off, n)
           ELSE /\ desc' = [desc EXCEPT ![d] = [s EXCEPT !.offset = @ + Page * Cardinality(done),
                                                         !.pos = Len(back.data)]]
                /\ file' = [g EXCEPT !.size = Unknown]
                /\ used' = used - k + Cardinality(kept)
                           + Cardinality({Cardinality(done)} \cap keeps)
                /\ Reply(Null, off, n)
        /\ UNCHANGED <<back, failed>>

(* fusecompress_read() *)
Reads(d) ==
    /\ desc[d].open
    /\ \E r \in Requests :
        /\ Request(r[1], r[2])
        /\ \/ ~file.compressor /\ ReadRaw(d, r[1], r[2])
           \/ /\ file.compressor
              /\ \E k \in {Served(r[1], r[2])} : \/ ReadCached(d, r[1], r[2], k)
                                                \/ ReadFallback(d, r[1], r[2], k)
                                                \/ ReadStream(d, r[1], r[2], k)

-----------------------------------------------------------------------------
(* Write and truncate *)

\* A length of n units: `s' is cut, or extended by zeros.
Resized(s, n) == [i \in 1 .. n |-> IF i <= Len(s) THEN s[i] ELSE Zero]

\* What `s' becomes when u is written at off.
Overwritten(s, off, u) ==
    [i \in 1 .. (IF off + Len(u) > Len(s) THEN off + Len(u) ELSE Len(s)) |->
        IF i \in off + 1 .. off + Len(u) THEN u[i - off] ELSE IF i <= Len(s) THEN s[i] ELSE Zero]

(* fusecompress_write() gives an empty file a compressor.                    *)
ChoosesCompressor(off) == ~file.dontcompress /\ file.size = 0 /\ Accesses = 1 /\ off = 0

\* assert(file->compressor == NULL) before it does.
ChooseAssertion(off) == ChoosesCompressor(off) => ~file.compressor

\* The entry when a write goes to work.
Writing(off) ==
    [file EXCEPT !.compressor = IF ChoosesCompressor(off) THEN Compressible ELSE @,
                 !.dontcompress = TRUE]

WriteRaw(d, off, u) ==
    /\ desc[d].open /\ ~Writing(off).compressor
    /\ file' = Writing(off)
    /\ back' = Backing(FALSE, Overwritten(back.data, off, u))
    /\ Records(~ChooseAssertion(off))
    /\ UNCHANGED <<desc, used, stale, failed>>

\* Mutation: a stream that reads is written to.
Appends_AnyType(d, off) == desc[d].offset = file.size /\ desc[d].offset = off

(* direct_compress() appends to the stream.                                  *)
Appends(d, off) ==
    /\ desc[d].offset = file.size /\ desc[d].offset = off
    /\ file.type # "read" /\ Accesses = 1

WriteAppend(d, off, u) ==
    LET g == FlushFileCache(Writing(off), used) IN
    /\ desc[d].open /\ Writing(off).compressor
    /\ Appends(d, off)
    /\ desc' = [desc EXCEPT ![d].handle = "write", ![d].buf = @ \o u, ![d].offset = @ + Len(u)]
    /\ file' = [g.file EXCEPT !.type = "write", !.size = off + Len(u)]
    /\ used' = g.used /\ stale' = FALSE
    /\ back' = [back EXCEPT !.img = TRUE, !.size = off + Len(u)]
    /\ Records(\/ ~ChooseAssertion(off)
               \/ desc[d].handle = "none" /\ file.size # 0
               \/ desc[d].handle = "read")
    /\ UNCHANGED failed

WriteFallback(d, off, u) ==
    LET f == [Writing(off) EXCEPT !.type = IF @ = "none" THEN "write" ELSE @] IN
    /\ desc[d].open /\ Writing(off).compressor
    /\ ~Appends(d, off)
    /\ Records(~ChooseAssertion(off))
    /\ \/ /\ Decompress([f EXCEPT !.size = Unknown], used)
          /\ back' = Backing(FALSE, Overwritten(Data, off, u))
       \/ /\ NoSpace
          /\ file' = FlushFileCache([f EXCEPT !.size = Unknown], used).file
          /\ used' = FlushFileCache(f, used).used
          /\ stale' = FALSE /\ failed' = TRUE
          /\ UNCHANGED <<back, desc>>

Writes(d) ==
    /\ "write" \in Calls
    /\ \E off \in {0, Len(Data)}, b \in Byte \ {Zero} :  \* (a bound on the model)
        /\ off < MaxAppend
        /\ WriteRaw(d, off, <<b>>) \/ WriteAppend(d, off, <<b>>) \/ WriteFallback(d, off, <<b>>)

(* fusecompress_truncate() of an open file (of a file nobody has open: see   *)
(* FileTable), to a length that is not zero ...                              *)
Truncate(n) ==
    /\ "truncate" \in Calls /\ OpenDesc # {}
    /\ \/ /\ ~file.compressor
          /\ file' = [file EXCEPT !.size = n]
          /\ back' = Backing(FALSE, Resized(back.data, n))
          /\ UNCHANGED <<desc, used, stale, failed>>
       \/ /\ file.compressor
          /\ Decompress([file EXCEPT !.size = n], used)
          /\ back' = Backing(FALSE, Resized(Data, n))
    /\ UNCHANGED <<fault>>

\* Mutation: the descriptors keep their streams.
TruncateZero_KeepStreams ==
    /\ "zero" \in Calls /\ OpenDesc # {}
    /\ file' = [file EXCEPT !.compressor = FALSE, !.size = 0]
    /\ back' = Backing(FALSE, <<>>)
    /\ stale' = (file.slots > 0)
    /\ UNCHANGED <<desc, used, fault, failed>>

(* ... and to zero: nothing is decompressed, nothing is flushed.             *)
TruncateZero ==
    /\ "zero" \in Calls /\ OpenDesc # {}
    /\ IF file.compressor THEN CloseAll([file EXCEPT !.compressor = FALSE, !.size = 0])
       ELSE file' = [file EXCEPT !.size = 0] /\ UNCHANGED desc
    /\ back' = Backing(FALSE, <<>>)
    /\ stale' = (file.slots > 0)
    /\ UNCHANGED <<used, fault, failed>>

Next ==
    \/ \E d \in Desc : Reads(d)
    \/ /\ reply' = "none"
       /\ \/ \E d \in Desc : Open(d) \/ Release(d) \/ Writes(d)
          \/ \E n \in Lengths : Truncate(n)
          \/ TruncateZero \/ Getattr \/ Forget \/ DoCompress

Spec == Init /\ [][Next]_vars

-----------------------------------------------------------------------------
(* Properties *)

(* A read returns the contents of the file or fails, whichever of the cache, *)
(* the stream, decompression and the plain file the data come from.  The     *)
(* cache that a truncation to zero leaves behind is exempt.                  *)
ReadsFaithful == reply # "wrong"

(* test/truncorrupt.c: what is read after a truncation to zero and a write   *)
(* is what was written, whatever was in the cache before.                    *)
ReadsWhatWasWritten == reply \notin {"wrong", "stale"}

(* A page in the cache is a whole page of the file that is read through it.  *)
CacheFaithful ==
    ~stale => \A p \in Cached : /\ file.compressor
                                /\ p < file.slots
                                /\ file.cache[p] = Slice(Data, p * Page, Page)
                                /\ Len(file.cache[p]) = Page

(* decomp_cache_size is exactly the size of the pages there are: what is     *)
(* counted without being there is never given back.  A read that fails after *)
(* the length was lost for lack of space is known to leak a page.            *)
CacheAccounted == failed \/ used = Cardinality(Cached)

(* The assertions of direct_decompress(), direct_compress() and              *)
(* fusecompress_write() hold, and the cache is used within its bounds.       *)
NoFault == ~fault

(* The header has the length of the file, and an image that no stream is     *)
(* writing to holds all of it.                                               *)
HeaderTruthful ==
    /\ back.size = Len(Data)
    /\ file.compressor => back.img /\ file.size \in {Unknown, back.size}

(* A stream that writes is the only stream, and the entry knows about it.    *)
OneWriter == \A d \in Writers : file.type = "write" /\ \A e \in Desc \ {d} : desc[e].handle = "none"

(* Only write and truncate change what the file contains: not reading, which *)
(* may decompress it for good, nor closing, nor the background thread.       *)
ContentsKept == [][Data' # Data => \/ \E d \in Desc : Writes(d)
                                   \/ \E n \in Lengths : Truncate(n)
                                   \/ TruncateZero]_vars

=============================================================================
