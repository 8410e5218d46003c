-------------------------- MODULE DataPath_proofs --------------------------
(***************************************************************************)
(* A file reads as it was written: theorems about DataPath, for any length *)
(* of pages, files and cache, any number of descriptors and any contents.  *)
(*                                                                         *)
(* A reader's stream stands where its descriptor says, at the beginning of *)
(* a page or at the end of the file; the header has the file's length; a   *)
(* cache that was made for the file has a slot for each of its pages.  If  *)
(* space has run out, a stream may also stand at the end, out of step with *)
(* its descriptor, but then every further read of it fails.                *)
(***************************************************************************)
EXTENDS DataPath, FiniteSetTheorems, SequenceTheorems, WellFoundedInduction, TLAPS

-----------------------------------------------------------------------------
(* The inductive invariant *)

Length == 0 .. MaxLen

BackRec == [img : BOOLEAN, size : Length, data : Seq(Byte)]
FileRec == [compressor : BOOLEAN, size : -1 .. MaxLen, skipped : 0 .. MaxLen + 1, dontcompress : BOOLEAN,
            type : {"none", "read", "write"}, cache : [Slot -> Seq(Byte) \cup {Null}],
            slots : 0 .. MaxLen \div Page + 1]
DescRec == [open : BOOLEAN, offset : Length, pos : Length, handle : {"none", "read", "write"}, buf : Seq(Byte)]

Types ==
    /\ back \in BackRec /\ file \in FileRec /\ desc \in [Desc -> DescRec]
    /\ used \in 0 .. CacheMax
    /\ reply \in {"none", "right", "wrong", "stale", "error"}
    /\ fault \in BOOLEAN /\ stale \in BOOLEAN /\ failed \in BOOLEAN

\* How a stream stands to a file of length l.
StreamOK(s, l) ==
    /\ s.pos = s.offset \/ (failed /\ s.pos = l)
    /\ s.offset % Page = 0 \/ s.offset = l
    /\ s.offset <= l /\ s.pos <= l

(* Streams belong to open descriptors of a compressed file; one that reads  *)
(* stands where the descriptor says.                                        *)
Streams ==
    \A d \in Desc :
        /\ ~desc[d].open => desc[d] = Closed
        /\ desc[d].handle = "none" => desc[d].offset = 0
        /\ desc[d].handle # "write" => desc[d].buf = <<>>
        /\ desc[d].handle # "none" => file.compressor
        /\ desc[d].handle = "read" => file.type = "read" /\ StreamOK(desc[d], Len(Data))

(* The header and the entry know how long the file is, unless space has run *)
(* out; an image is not empty; a plain file that may yet get a compressor   *)
(* is as long as the entry says.                                            *)
Header ==
    /\ back.size = Len(Data)
    /\ file.compressor => /\ back.img /\ file.size \in {Unknown, Len(Data)}
                          /\ file.size = Unknown => failed
    /\ back.img => Len(Data) > 0
    /\ file = NewFile \/ file.compressor = back.img
    /\ OpenDesc # {} => file.compressor = back.img
    /\ ~file.compressor /\ file.size # Unknown =>
            file.size <= Len(Data) /\ (file.size = Len(Data) \/ file.dontcompress)

\* No page is there without being counted; a cache that is not stale is as large as the file.
Cache ==
    /\ file.slots = 0 => Cached = {}
    /\ Cardinality(Cached) <= used
    /\ ~stale /\ file.slots > 0 => file.compressor /\ file.slots = Len(Data) \div Page + 1

IInv ==
    /\ Types /\ Streams /\ OneWriter /\ Header /\ Cache
    /\ CacheFaithful /\ CacheAccounted /\ NoFault /\ ReadsFaithful

-----------------------------------------------------------------------------
(* Pages *)

LEMMA PageNat == Page \in Nat \ {0} /\ MaxLen \in Nat /\ MaxLen \div Page \in Nat
  BY DataPathConstants

LEMMA Paged ==
    ASSUME NEW x \in Nat
    PROVE  /\ x \div Page \in Nat /\ x % Page \in 0 .. Page - 1
           /\ x = (x \div Page) * Page + (x % Page)
           /\ (x \div Page) * Page <= x /\ x < (x \div Page) * Page + Page
           /\ (x % Page = 0 => (x \div Page) * Page = x)
  BY PageNat

LEMMA PageTimes ==
    ASSUME NEW a \in Nat
    PROVE  /\ a * Page \in Nat /\ (a * Page) \div Page = a /\ (a * Page) % Page = 0
           /\ (a + 1) * Page = a * Page + Page /\ a <= a * Page
  BY PageNat

LEMMA PagePlus ==
    ASSUME NEW a \in Nat, NEW b \in Nat
    PROVE  (a + b) * Page = a * Page + b * Page
  BY PageNat

LEMMA PageLess ==
    ASSUME NEW a \in Nat, NEW b \in Nat
    PROVE  /\ a < b <=> a * Page < b * Page
           /\ a <= b <=> a * Page <= b * Page
           /\ a < b => a * Page + Page <= b * Page
  BY PageNat

LEMMA PageOf ==
    ASSUME NEW a \in Nat, NEW r \in 0 .. Page - 1
    PROVE  (a * Page + r) \div Page = a /\ (a * Page + r) % Page = r
  BY PageNat

LEMMA PageMonotone ==
    ASSUME NEW x \in Nat, NEW y \in Nat, x <= y
    PROVE  x \div Page <= y \div Page
  BY PageNat

(* The pages of a file of at most MaxLen units have slots.                  *)
LEMMA SlotOfPage ==
    ASSUME NEW a \in Nat, NEW l \in Length, a * Page < l \/ a * Page <= l
    PROVE  a \in Slot /\ a <= l \div Page /\ l \div Page \in 0 .. MaxLen \div Page
<1>1. a * Page \in Nat /\ l \in Nat /\ l <= MaxLen /\ a * Page <= l /\ (a * Page) \div Page = a
  BY PageTimes, PageNat DEF Length
<1>2. a <= l \div Page
  BY <1>1, PageMonotone
<1>3. l \div Page <= MaxLen \div Page /\ l \div Page \in Nat
  BY <1>1, PageMonotone, Paged, PageNat
<1> QED
  BY <1>2, <1>3, PageNat DEF Slot

LEMMA SlotsFinite ==
    ASSUME NEW S \in SUBSET Slot
    PROVE  IsFiniteSet(S) /\ Cardinality(S) \in Nat
<1>1. IsFiniteSet(Slot)
  BY PageNat, FS_Interval DEF Slot
<1> QED
  BY <1>1, FS_Subset, FS_CardinalityType

-----------------------------------------------------------------------------
(* Stretches of a file *)

LEMMA SliceType ==
    ASSUME NEW s \in Seq(Byte), NEW off \in Nat, NEW n \in Nat
    PROVE  /\ Slice(s, off, n) \in Seq(Byte) /\ Slice(s, off, n) # Null
           /\ Len(Slice(s, off, n)) = IF off + n < Len(s) THEN n ELSE IF off <= Len(s) THEN Len(s) - off ELSE 0
           /\ \A i \in 1 .. Len(Slice(s, off, n)) : Slice(s, off, n)[i] = s[off + i]
<1> DEFINE e == IF off + n < Len(s) THEN off + n ELSE Len(s)
<1>1. Len(s) \in Nat
  BY LenProperties
<1>2. e \in Nat /\ e <= Len(s)
  BY <1>1
<1>3. \A i \in off + 1 .. e : s[i] \in Byte
  BY <1>1, <1>2, ElementOfSeq
<1>4. Slice(s, off, n) = SubSeq(s, off + 1, e)
  BY DEF Slice
<1>5. /\ SubSeq(s, off + 1, e) \in Seq(Byte)
      /\ Len(SubSeq(s, off + 1, e)) = IF off + 1 <= e THEN e - (off + 1) + 1 ELSE 0
      /\ \A i \in 1 .. e - (off + 1) + 1 : SubSeq(s, off + 1, e)[i] = s[off + 1 + i - 1]
  <2> HIDE DEF e
  <2> QED
    BY <1>2, <1>3, SubSeqProperties
<1>6. Slice(s, off, n) # Null
  BY <1>4, <1>5, NullAssumption
<1> DEFINE t == SubSeq(s, off + 1, e)
<1>7. Len(t) = IF off + n < Len(s) THEN n ELSE IF off <= Len(s) THEN Len(s) - off ELSE 0
  <2> DEFINE l == Len(s)
             k == Len(t)
  <2>1. l \in Nat /\ e = (IF off + n < l THEN off + n ELSE l) /\ k = IF off + 1 <= e THEN e - (off + 1) + 1 ELSE 0
    BY <1>1, <1>5
  <2> HIDE DEF l, k, e
  <2>2. k = IF off + n < l THEN n ELSE IF off <= l THEN l - off ELSE 0
    BY <2>1
  <2> QED
    BY <2>2 DEF l, k
<1>8. \A i \in 1 .. Len(t) : t[i] = s[off + i]
  <2> HIDE DEF e
  <2> QED
    BY <1>2, <1>5
<1> HIDE DEF e, t
<1> QED
  BY <1>4, <1>5, <1>6, <1>7, <1>8 DEF t

(* A sequence in two parts.                                                 *)
LEMMA Joined ==
    ASSUME NEW a \in Seq(Byte), NEW b \in Seq(Byte), NEW c \in Seq(Byte), Len(c) = Len(a) + Len(b),
           \A i \in 1 .. Len(a) : c[i] = a[i],
           \A i \in 1 .. Len(b) : c[Len(a) + i] = b[i]
    PROVE  a \o b = c
<1>1. Len(a) \in Nat /\ Len(b) \in Nat
  BY LenProperties
<1>2. /\ a \o b \in Seq(Byte) /\ Len(a \o b) = Len(a) + Len(b)
      /\ \A i \in 1 .. Len(a) + Len(b) : (a \o b)[i] = IF i <= Len(a) THEN a[i] ELSE b[i - Len(a)]
  BY ConcatProperties
<1>3. \A i \in 1 .. Len(c) : (a \o b)[i] = c[i]
  <2> SUFFICES ASSUME NEW i \in 1 .. Len(c) PROVE (a \o b)[i] = c[i]
    OBVIOUS
  <2>1. CASE i <= Len(a)
    BY <1>1, <1>2, <2>1
  <2>2. CASE ~(i <= Len(a))
    <3>1. i - Len(a) \in 1 .. Len(b) /\ Len(a) + (i - Len(a)) = i
      BY <1>1, <2>2
    <3>2. c[Len(a) + (i - Len(a))] = b[i - Len(a)]
      BY <3>1
    <3> QED
      BY <1>1, <1>2, <2>2, <3>1, <3>2
  <2> QED
    BY <2>1, <2>2
<1> QED
  BY <1>2, <1>3, SeqEqual

(* What is read in two parts.                                               *)
LEMMA SliceParts ==
    ASSUME NEW s \in Seq(Byte), NEW off \in Nat, NEW m \in Nat, NEW n \in Nat, off + m <= Len(s)
    PROVE  Slice(s, off, m) \o Slice(s, off + m, n) = Slice(s, off, m + n)
<1> DEFINE a == Slice(s, off, m)
           b == Slice(s, off + m, n)
           c == Slice(s, off, m + n)
           l == Len(s)
<1>1. l \in Nat
  BY LenProperties
<1>2. /\ a \in Seq(Byte) /\ Len(a) = m /\ \A i \in 1 .. m : a[i] = s[off + i]
  <2>1. /\ a \in Seq(Byte) /\ Len(a) = (IF off + m < Len(s) THEN m ELSE IF off <= Len(s) THEN Len(s) - off ELSE 0)
        /\ \A i \in 1 .. Len(a) : a[i] = s[off + i]
    BY SliceType
  <2> HIDE DEF a
  <2> QED
    BY <1>1, <2>1
<1>3. /\ b \in Seq(Byte) /\ Len(b) = (IF off + m + n < l THEN n ELSE l - off - m)
      /\ \A i \in 1 .. Len(b) : b[i] = s[off + m + i]
  <2>1. off + m \in Nat
    OBVIOUS
  <2>2. /\ b \in Seq(Byte)
        /\ Len(b) = (IF (off + m) + n < Len(s) THEN n ELSE IF off + m <= Len(s) THEN Len(s) - (off + m) ELSE 0)
        /\ \A i \in 1 .. Len(b) : b[i] = s[(off + m) + i]
    BY <2>1, SliceType
  <2> HIDE DEF b
  <2> QED
    BY <1>1, <2>2
<1>4. /\ c \in Seq(Byte) /\ Len(c) = (IF off + m + n < l THEN m + n ELSE l - off)
      /\ \A i \in 1 .. Len(c) : c[i] = s[off + i]
  <2>1. m + n \in Nat
    OBVIOUS
  <2>2. /\ c \in Seq(Byte)
        /\ Len(c) = (IF off + (m + n) < Len(s) THEN m + n ELSE IF off <= Len(s) THEN Len(s) - off ELSE 0)
        /\ \A i \in 1 .. Len(c) : c[i] = s[off + i]
    BY <2>1, SliceType
  <2> HIDE DEF c
  <2> QED
    BY <1>1, <2>2
<1> HIDE DEF a, b, c, l
<1>5. off + m <= l
  BY DEF l
<1>6. a \in Seq(Byte) /\ b \in Seq(Byte) /\ c \in Seq(Byte)
  BY <1>2, <1>3, <1>4
<1>7. /\ Len(a) = m /\ Len(b) \in Nat /\ Len(c) = m + Len(b)
  <2> DEFINE la == Len(a)
             lb == Len(b)
             lc == Len(c)
  <2>1. /\ la = m /\ lb = (IF off + m + n < l THEN n ELSE l - off - m)
        /\ lc = (IF off + m + n < l THEN m + n ELSE l - off)
    BY <1>2, <1>3, <1>4
  <2> HIDE DEF la, lb, lc
  <2>2. la = m /\ lb \in Nat /\ lc = m + lb
    BY <1>1, <1>5, <2>1
  <2> QED
    BY <2>2 DEF la, lb, lc
<1>8. \A i \in 1 .. Len(a) : c[i] = a[i]
  <2> SUFFICES ASSUME NEW i \in 1 .. Len(a) PROVE c[i] = a[i]
    OBVIOUS
  <2>1. i \in 1 .. Len(c)
    BY <1>7
  <2> QED
    BY <1>2, <1>4, <2>1
<1>9. \A i \in 1 .. Len(b) : c[Len(a) + i] = b[i]
  <2> SUFFICES ASSUME NEW i \in 1 .. Len(b) PROVE c[Len(a) + i] = b[i]
    OBVIOUS
  <2>1. m + i \in 1 .. Len(c) /\ off + (m + i) = off + m + i
    BY <1>7
  <2>2. c[m + i] = s[off + (m + i)] /\ b[i] = s[off + m + i]
    BY <1>3, <1>4, <2>1
  <2> QED
    BY <1>7, <2>1, <2>2
<1>10. a \o b = c
  BY <1>6, <1>7, <1>8, <1>9, Joined
<1> QED
  BY <1>10 DEF a, b, c

-----------------------------------------------------------------------------
(* The parts of the state *)

LEMMA TypesFacts ==
    ASSUME Types
    PROVE  /\ back.img \in BOOLEAN /\ back.size \in Length /\ back.data \in Seq(Byte)
           /\ file.compressor \in BOOLEAN /\ file.dontcompress \in BOOLEAN /\ file.size \in -1 .. MaxLen
           /\ \A d \in Desc : /\ desc[d] \in DescRec /\ desc[d].open \in BOOLEAN /\ desc[d].buf \in Seq(Byte)
                              /\ desc[d].offset \in Length /\ desc[d].pos \in Length
                              /\ desc[d].handle \in {"none", "read", "write"}
           /\ \A p \in Slot : file.cache[p] \in Seq(Byte) \cup {Null}
  BY DEF Types, BackRec, FileRec, DescRec

LEMMA ClosedType == Closed \in DescRec /\ Closed.open = FALSE /\ Closed.handle = "none" /\ Closed.offset = 0
                    /\ Closed.buf = <<>> /\ Closed.pos = 0
<1>1. 0 \in Length
  BY PageNat DEF Length
<1> QED
  BY <1>1 DEF Closed, DescRec

(* The codec's buffer of the one stream that writes is part of the file.    *)
LEMMA Contents ==
    ASSUME Types, OneWriter, Streams, Header
    PROVE  /\ Data \in Seq(Byte) /\ Len(Data) \in Length /\ Len(Data) \in Nat /\ Len(Data) <= MaxLen
           /\ Writers = {} => Data = back.data
           /\ \A d \in Writers : /\ d \in Desc /\ Writers = {d} /\ Data = back.data \o desc[d].buf
                                 /\ file.type = "write" /\ file.compressor /\ desc[d].open
<1>1. Len(Data) \in Length /\ Len(Data) \in Nat /\ Len(Data) <= MaxLen
  BY TypesFacts, PageNat DEF Header, Length
<1>2. CASE Writers = {}
  BY <1>1, <1>2, TypesFacts DEF Data
<1>3. CASE Writers # {}
  <2>1. \A d \in Writers : d \in Desc /\ desc[d].handle = "write"
    BY DEF Writers
  <2>2. \A d \in Writers : Writers = {d}
    BY <2>1 DEF OneWriter
  <2>3. PICK d \in Writers : TRUE
    BY <1>3
  <2>4. Data = back.data \o desc[d].buf
    BY <1>3, <2>2, <2>3, Zenon DEF Data
  <2>5. Data \in Seq(Byte)
    BY <2>1, <2>4, TypesFacts, ConcatProperties
  <2>6. file.type = "write" /\ file.compressor /\ desc[d].open
    <3>1. desc[d].handle # "none"
      BY <2>1, Zenon
    <3>2. ~desc[d].open => desc[d].handle = "none"
      BY <2>1, ClosedType DEF Streams
    <3> QED
      BY <2>1, <3>1, <3>2 DEF OneWriter, Streams
  <2> QED
    BY <1>1, <1>3, <2>1, <2>2, <2>4, <2>5, <2>6
<1> QED
  BY <1>2, <1>3

LEMMA NextContents ==
    /\ Writers' = {} => Data' = back'.data
    /\ \A d : Writers' = {d} => Data' = back'.data \o desc'[d].buf
  BY DEF Data

(* Which pages an entry has.                                                *)
CachedOf(f) == {p \in Slot : f.cache[p] # Null}

LEMMA CachedType ==
    ASSUME NEW f
    PROVE  /\ CachedOf(f) \in SUBSET Slot /\ IsFiniteSet(CachedOf(f)) /\ Cardinality(CachedOf(f)) \in Nat
           /\ CachedOf(file) = Cached
<1>1. CachedOf(f) \in SUBSET Slot
  BY DEF CachedOf
<1> QED
  BY <1>1, SlotsFinite DEF CachedOf, Cached

LEMMA EmptyFacts ==
    /\ EmptyCache \in [Slot -> Seq(Byte) \cup {Null}]
    /\ \A f : f.cache = EmptyCache => CachedOf(f) = {}
    /\ Cardinality({}) = 0
  BY FS_EmptySet DEF EmptyCache, CachedOf

(* flush_file_cache()                                                       *)
LEMMA FlushFacts ==
    ASSUME NEW f \in FileRec, NEW u
    PROVE  LET g == FlushFileCache(f, u)
           IN  /\ g.file \in FileRec /\ g.file.cache = EmptyCache /\ g.file.slots = 0
               /\ g.file.compressor = f.compressor /\ g.file.size = f.size /\ g.file.type = f.type
               /\ g.file.dontcompress = f.dontcompress
               /\ g.used = u - Cardinality(CachedOf(f))
<1> DEFINE h == [f EXCEPT !.cache = EmptyCache, !.slots = 0]
           k == u - Cardinality({p \in Slot : f.cache[p] # Null})
<1>1. h \in FileRec /\ h.cache = EmptyCache /\ h.slots = 0
      /\ h.compressor = f.compressor /\ h.size = f.size /\ h.type = f.type /\ h.dontcompress = f.dontcompress
  <2>1. 0 \in 0 .. MaxLen \div Page + 1
    BY PageNat
  <2> DEFINE e == EmptyCache
  <2>2. e \in [Slot -> Seq(Byte) \cup {Null}]
    BY EmptyFacts
  <2> HIDE DEF e
  <2>3. [f EXCEPT !.cache = e, !.slots = 0] \in FileRec /\ [f EXCEPT !.cache = e, !.slots = 0].cache = e
        /\ [f EXCEPT !.cache = e, !.slots = 0].slots = 0
        /\ [f EXCEPT !.cache = e, !.slots = 0].compressor = f.compressor
        /\ [f EXCEPT !.cache = e, !.slots = 0].size = f.size
        /\ [f EXCEPT !.cache = e, !.slots = 0].type = f.type
        /\ [f EXCEPT !.cache = e, !.slots = 0].dontcompress = f.dontcompress
    BY <2>1, <2>2 DEF FileRec
  <2> QED
    BY <2>3 DEF e
<1>2. FlushFileCache(f, u) = [file |-> h, used |-> k]
  BY DEF FlushFileCache
<1>3. k = u - Cardinality(CachedOf(f))
  BY DEF CachedOf
<1> HIDE DEF h, k
<1>4. FlushFileCache(f, u).file = h /\ FlushFileCache(f, u).used = k
  BY <1>2
<1> QED
  BY <1>1, <1>3, <1>4, Zenon

-----------------------------------------------------------------------------
(* What steps leave alone *)

(* The cache is kept, and so is the file.                                   *)
LEMMA CacheStays ==
    ASSUME IInv, Data' = Data, file'.cache = file.cache, file'.slots = file.slots,
           file.compressor => file'.compressor, UNCHANGED <<used, stale>>, failed => failed'
    PROVE  Cache' /\ CacheFaithful' /\ CacheAccounted'
<1>1. Cached' = Cached
  BY DEF Cached
<1> QED
  BY <1>1, Zenon DEF IInv, Cache, CacheFaithful, CacheAccounted

(* A plain file has no cache but a stale one.                               *)
LEMMA PlainCacheStays ==
    ASSUME IInv, ~file.compressor, file'.cache = file.cache, file'.slots = file.slots,
           UNCHANGED <<used, stale, failed>>
    PROVE  Cache' /\ CacheFaithful' /\ CacheAccounted'
<1>1. Cached' = Cached
  BY DEF Cached
<1>2. ~stale => ~(file.slots > 0)
  BY DEF IInv, Cache
<1>3. file.slots \in Nat
  BY PageNat DEF IInv, Types, FileRec
<1>4. ~stale => file.slots = 0 /\ Cached = {}
  BY <1>2, <1>3 DEF IInv, Cache
<1>5. Cache'
  BY <1>1, <1>4 DEF IInv, Cache
<1>6. CacheFaithful'
  BY <1>1, <1>4 DEF CacheFaithful
<1>7. CacheAccounted'
  BY <1>1 DEF IInv, CacheAccounted
<1> QED
  BY <1>5, <1>6, <1>7

\* The cache is given up.
LEMMA CacheGone ==
    ASSUME file'.cache = EmptyCache, file'.slots = 0, used' \in Nat, failed' \/ used' = 0
    PROVE  Cache' /\ CacheFaithful' /\ CacheAccounted'
<1>1. Cached' = {}
  BY DEF Cached, EmptyCache
<1> QED
  BY <1>1, EmptyFacts DEF Cache, CacheFaithful, CacheAccounted

\* No descriptor has a stream.
LEMMA NoStreams ==
    ASSUME \A d \in Desc : desc'[d].handle = "none" /\ desc'[d].offset = 0 /\ desc'[d].buf = <<>>
                           /\ (~desc'[d].open => desc'[d] = Closed)
    PROVE  Streams' /\ OneWriter' /\ Writers' = {}
  BY DEF Streams, OneWriter, Writers

(* Nobody begins to write, and nobody who writes stops.                     *)
LEMMA DataStays ==
    ASSUME IInv, back'.data = back.data,
           \A d \in Desc : desc'[d].handle = "write" <=> desc[d].handle = "write",
           \A d \in Writers : desc'[d].buf = desc[d].buf
    PROVE  Writers' = Writers /\ Data' = Data
<1>1. Writers' = Writers
  BY DEF Writers
<1>2. /\ Writers = {} => Data = back.data
      /\ \A d \in Writers : Writers = {d} /\ Data = back.data \o desc[d].buf
  BY Contents DEF IInv
<1>3. CASE Writers = {}
  BY <1>1, <1>2, <1>3, NextContents
<1>4. ASSUME NEW d \in Writers PROVE Data' = Data
  BY <1>1, <1>2, <1>4, NextContents
<1> QED
  BY <1>1, <1>3, <1>4

\* Who is the only user of the file.
LEMMA Alone ==
    ASSUME Accesses = 1, NEW d \in Desc, desc[d].open
    PROVE  \A e \in Desc \ {d} : ~desc[e].open
<1>1. IsFiniteSet(OpenDesc)
  BY DataPathConstants, FS_Subset DEF OpenDesc
<1>2. PICK x : OpenDesc = {x}
  BY <1>1, FS_Singleton DEF Accesses
<1> QED
  BY <1>2 DEF OpenDesc

LEMMA ResetFacts ==
    ASSUME NEW f \in FileRec
    PROVE  /\ Reset(f) \in FileRec /\ Reset(f).compressor = f.compressor /\ Reset(f).size = f.size
           /\ Reset(f).cache = f.cache /\ Reset(f).slots = f.slots
           /\ Accesses # 1 => Reset(f) = f
           /\ Reset(f).dontcompress = TRUE => f.dontcompress = TRUE
<1>1. CASE Accesses = 1
  <2> DEFINE no == FALSE
             g == [f EXCEPT !.type = "none", !.dontcompress = no]
  <2>1. Reset(f) = g /\ no \in BOOLEAN
    BY <1>1 DEF Reset
  <2> HIDE DEF no
  <2>2. g \in FileRec /\ g.compressor = f.compressor /\ g.size = f.size
        /\ g.cache = f.cache /\ g.slots = f.slots /\ g.dontcompress = no
    BY <2>1 DEF FileRec
  <2> QED
    BY <1>1, <2>1, <2>2 DEF no
<1>2. CASE Accesses # 1
  BY <1>2 DEF Reset
<1> QED
  BY <1>1, <1>2

LEMMA NewFileType ==
    /\ NewFile \in FileRec /\ NewFile.compressor = FALSE /\ NewFile.size = Unknown /\ NewFile.cache = EmptyCache
    /\ NewFile.slots = 0
<1>1. 0 \in 0 .. MaxLen \div Page + 1 /\ -1 \in -1 .. MaxLen /\ 0 \in 0 .. MaxLen + 1
  BY PageNat
<1> QED
  BY <1>1, EmptyFacts DEF NewFile, FileRec, Unknown

-----------------------------------------------------------------------------
(* Open, release, getattr, the purge and the background thread *)

LEMMA HeaderReadFacts ==
    ASSUME IInv
    PROVE  LET g == HeaderRead(file)
           IN  /\ g \in FileRec /\ g.compressor = back.img /\ g.size = Len(Data) /\ g.type = file.type
               /\ g.cache = file.cache /\ g.slots = file.slots /\ g.dontcompress = file.dontcompress
               /\ (file.compressor => g.compressor)
<1> DEFINE b == back.img
           l == back.size
           g == [file EXCEPT !.compressor = b, !.size = l]
<1>1. b \in BOOLEAN /\ l \in -1 .. MaxLen /\ file \in FileRec /\ l = Len(Data) /\ (file.compressor => b)
  <2>1. back.size \in Length /\ b \in BOOLEAN
    BY TypesFacts DEF IInv
  <2> QED
    BY <2>1, PageNat DEF IInv, Types, Header, Length
<1>2. HeaderRead(file) = g
  BY DEF HeaderRead
<1> HIDE DEF b, l
<1>3. g \in FileRec /\ g.compressor = b /\ g.size = l /\ g.type = file.type
      /\ g.cache = file.cache /\ g.slots = file.slots /\ g.dontcompress = file.dontcompress
  BY <1>1 DEF FileRec
<1> HIDE DEF g
<1> QED
  BY <1>1, <1>2, <1>3 DEF b

(* A step that looks at the header, and that may open a descriptor.         *)
LEMMA LooksInv ==
    ASSUME IInv, file' = HeaderRead(file), UNCHANGED <<back, used, fault, stale, failed>>, reply' = "none",
           desc' \in [Desc -> DescRec],
           \A d \in Desc : desc'[d] = desc[d] \/ desc'[d] = [Closed EXCEPT !.open = TRUE],
           \A d \in Desc : desc'[d] # desc[d] => ~desc[d].open
    PROVE  IInv' /\ Data' = Data
<1>1. /\ file' \in FileRec /\ file'.compressor = back.img /\ file'.size = Len(Data) /\ file'.type = file.type
      /\ file'.cache = file.cache /\ file'.slots = file.slots /\ file'.dontcompress = file.dontcompress
      /\ (file.compressor => file'.compressor)
  BY HeaderReadFacts
<1> DEFINE new == [Closed EXCEPT !.open = TRUE]
<1>2. new.open = TRUE /\ new.handle = "none" /\ new.offset = 0 /\ new.buf = <<>>
  BY DEF Closed
<1>3. \A d \in Desc : desc'[d] # desc[d] => desc[d].handle = "none" /\ desc'[d] = new
  BY ClosedType DEF IInv, Streams
<1> HIDE DEF new
<1>4. \A d \in Desc : desc'[d].handle = desc[d].handle
  BY <1>2, <1>3
<1>5. \A d \in Writers : desc'[d] = desc[d]
  BY <1>3 DEF Writers
<1>6. Writers' = Writers /\ Data' = Data
  BY <1>4, <1>5, DataStays
<1>7. Types'
  BY <1>1 DEF IInv, Types
<1>8. Streams'
  <2> SUFFICES ASSUME NEW d \in Desc
               PROVE  /\ ~desc'[d].open => desc'[d] = Closed
                      /\ desc'[d].handle = "none" => desc'[d].offset = 0
                      /\ desc'[d].handle # "write" => desc'[d].buf = <<>>
                      /\ desc'[d].handle # "none" => file'.compressor
                      /\ desc'[d].handle = "read" => file'.type = "read" /\ StreamOK(desc[d], Len(Data))'
    BY DEF Streams
  <2>1. CASE desc'[d] = desc[d]
    BY <1>1, <1>6, <2>1 DEF IInv, Streams, StreamOK
  <2>2. CASE desc'[d] # desc[d]
    BY <1>2, <1>3, <2>2
  <2> QED
    BY <2>1, <2>2
<1>9. OneWriter'
  BY <1>1, <1>4, <1>6 DEF IInv, OneWriter, Writers
<1>10. Header'
  <2>1. Len(Data) \in Nat /\ back.size = Len(Data) /\ (back.img => Len(Data) > 0)
    BY Contents DEF IInv, Header
  <2> QED
    BY <1>1, <1>6, <2>1 DEF Header, Unknown
<1>11. Cache' /\ CacheFaithful' /\ CacheAccounted'
  BY <1>1, <1>6, CacheStays
<1>12. NoFault' /\ ReadsFaithful'
  BY DEF IInv, NoFault, ReadsFaithful
<1> QED
  BY <1>6, <1>7, <1>8, <1>9, <1>10, <1>11, <1>12 DEF IInv

LEMMA OpenInv == ASSUME IInv, reply' = "none", NEW d \in Desc, Open(d) PROVE IInv' /\ Data' = Data
<1> DEFINE new == [Closed EXCEPT !.open = TRUE]
<1>1. new \in DescRec
  BY ClosedType DEF DescRec
<1>2. ~desc[d].open /\ desc' = [desc EXCEPT ![d] = new] /\ desc \in [Desc -> DescRec]
  BY DEF Open, IInv, Types
<1>3. file' = HeaderRead(file) /\ UNCHANGED <<back, used, fault, stale, failed>>
  BY DEF Open
<1>4. /\ desc' \in [Desc -> DescRec]
      /\ \A e \in Desc : desc'[e] = desc[e] \/ desc'[e] = new
      /\ \A e \in Desc : desc'[e] # desc[e] => ~desc[e].open
  <2> HIDE DEF new
  <2> QED
    BY <1>1, <1>2
<1> QED
  BY <1>3, <1>4, LooksInv

LEMMA GetattrInv == ASSUME IInv, reply' = "none", Getattr PROVE IInv' /\ Data' = Data
<1>1. file' = HeaderRead(file) /\ UNCHANGED <<back, desc, used, fault, stale, failed>>
  BY DEF Getattr
<1>2. desc' \in [Desc -> DescRec]
  BY <1>1 DEF IInv, Types
<1> QED
  BY <1>1, <1>2, LooksInv

(* direct_close() writes out what the codec has buffered.                   *)
LEMMA ReleaseInv == ASSUME IInv, reply' = "none", NEW d \in Desc, Release(d) PROVE IInv' /\ Data' = Data
<1> DEFINE b == IF d \in Writers THEN Data ELSE back.data
<1>1. /\ desc[d].open /\ desc' = [desc EXCEPT ![d] = Closed] /\ desc \in [Desc -> DescRec]
      /\ file' = (IF file.compressor THEN Reset(file) ELSE file)
      /\ back' = [back EXCEPT !.data = b] /\ UNCHANGED <<used, fault, stale, failed>>
  <2>1. back' = [back EXCEPT !.data = IF d \in Writers THEN Data ELSE @]
    BY DEF Release
  <2>2. back' = [back EXCEPT !.data = b]
    BY <2>1
  <2> QED
    BY <2>2, Zenon DEF Release, IInv, Types
<1>2. b \in Seq(Byte)
  BY Contents, TypesFacts DEF IInv
<1> HIDE DEF b
<1>3. back' \in BackRec /\ back'.data = b /\ back'.img = back.img /\ back'.size = back.size
  BY <1>1, <1>2 DEF IInv, Types, BackRec
<1>4. /\ file' \in FileRec /\ file'.compressor = file.compressor /\ file'.size = file.size
      /\ file'.cache = file.cache /\ file'.slots = file.slots
      /\ ~file.compressor \/ Accesses # 1 => file' = file
  BY <1>1, ResetFacts, Zenon DEF IInv, Types
<1>5. desc' \in [Desc -> DescRec] /\ desc'[d] = Closed /\ \A e \in Desc \ {d} : desc'[e] = desc[e]
  BY <1>1, ClosedType
<1>6. Writers' = Writers \ {d}
  BY <1>5, ClosedType DEF Writers
<1>7. Data' = Data
  <2>1. CASE d \in Writers
    <3>1. Writers = {d}
      BY <2>1, Contents DEF IInv
    <3>2. Writers' = {}
      BY <1>6, <3>1
    <3> QED
      BY <1>3, <2>1, <3>2, NextContents DEF b
  <2>2. CASE d \notin Writers
    <3>1. back'.data = back.data
      BY <1>3, <2>2 DEF b
    <3>2. \A e \in Desc : desc'[e].handle = "write" <=> desc[e].handle = "write"
      BY <1>5, <2>2, ClosedType DEF Writers
    <3>3. \A e \in Writers : desc'[e].buf = desc[e].buf
      BY <1>5, <2>2 DEF Writers
    <3> QED
      BY <3>1, <3>2, <3>3, DataStays
  <2> QED
    BY <2>1, <2>2
\* If this is the last one, the others have no stream.
<1>8. \A e \in Desc \ {d} : desc'[e].handle # "none" => desc'[e] = desc[e] /\ file' = file
  <2> SUFFICES ASSUME NEW e \in Desc \ {d}, desc'[e].handle # "none" PROVE desc'[e] = desc[e] /\ file' = file
    OBVIOUS
  <2>1. desc[e].open
    BY <1>5, ClosedType DEF IInv, Streams
  <2>2. Accesses # 1
    BY <1>1, <2>1, Alone
  <2> QED
    BY <1>4, <1>5, <2>2
<1>9. Types'
  BY <1>1, <1>3, <1>4, <1>5 DEF IInv, Types
<1>10. Streams'
  <2> SUFFICES ASSUME NEW e \in Desc
               PROVE  /\ ~desc'[e].open => desc'[e] = Closed
                      /\ desc'[e].handle = "none" => desc'[e].offset = 0
                      /\ desc'[e].handle # "write" => desc'[e].buf = <<>>
                      /\ desc'[e].handle # "none" => file'.compressor
                      /\ desc'[e].handle = "read" => file'.type = "read" /\ StreamOK(desc[e], Len(Data))'
    BY DEF Streams
  <2>1. CASE e = d
    BY <1>5, <2>1, ClosedType
  <2>2. CASE e # d
    BY <1>1, <1>4, <1>5, <1>7, <1>8, <2>2 DEF IInv, Streams, StreamOK
  <2> QED
    BY <2>1, <2>2
<1>11. OneWriter'
  <2> SUFFICES ASSUME NEW e \in Writers'
               PROVE  file'.type = "write" /\ \A x \in Desc \ {e} : desc'[x].handle = "none"
    BY DEF OneWriter
  <2>1. e \in Desc /\ e # d /\ e \in Writers /\ desc'[e].handle = "write"
    BY <1>6 DEF Writers
  <2>2. file' = file
    BY <1>8, <2>1
  <2> QED
    BY <1>5, <2>1, <2>2, ClosedType DEF IInv, OneWriter
<1>12. Header'
  <2>1. OpenDesc # {}
    BY <1>1 DEF OpenDesc
  <2> QED
    BY <1>1, <1>3, <1>4, <1>7, <2>1 DEF IInv, Header
<1>13. Cache' /\ CacheFaithful' /\ CacheAccounted'
  BY <1>1, <1>4, <1>7, CacheStays
<1>14. NoFault' /\ ReadsFaithful'
  BY <1>1 DEF IInv, NoFault, ReadsFaithful
<1> QED
  BY <1>7, <1>9, <1>10, <1>11, <1>12, <1>13, <1>14 DEF IInv

\* The file is not open.
LEMMA Unused ==
    ASSUME IInv, OpenDesc = {}
    PROVE  Writers = {} /\ Data = back.data /\ \A d \in Desc : desc[d] = Closed
<1>1. \A d \in Desc : desc[d] = Closed
  BY DEF IInv, Streams, OpenDesc
<1>2. Writers = {}
  BY <1>1, ClosedType DEF Writers
<1> QED
  BY <1>1, <1>2 DEF Data

LEMMA ForgetInv == ASSUME IInv, reply' = "none", Forget PROVE IInv' /\ Data' = Data
<1>1. OpenDesc = {} /\ file' = NewFile /\ stale' = FALSE /\ UNCHANGED <<back, desc, fault, failed>>
  BY DEF Forget
<1>2. used' = used - Cardinality(Cached)
  BY FlushFacts, CachedType DEF Forget, IInv, Types
<1>3. used' \in 0 .. CacheMax /\ (failed \/ used' = 0)
  <2>1. used \in 0 .. CacheMax /\ Cardinality(Cached) \in Nat /\ CacheMax \in Nat
    BY CachedType, DataPathConstants DEF IInv, Types
  <2>2. Cardinality(Cached) <= used /\ (failed \/ used = Cardinality(Cached))
    BY DEF IInv, Cache, CacheAccounted
  <2> QED
    BY <1>2, <2>1, <2>2
<1>4. Writers = {} /\ \A d \in Desc : desc[d] = Closed
  BY <1>1, Unused
<1>5. Data' = Data
  BY <1>1, DataStays
<1>6. Streams' /\ OneWriter'
  BY <1>1, <1>4, ClosedType, NoStreams
<1>7. Header'
  BY <1>1, <1>5, NewFileType DEF IInv, Header, OpenDesc
<1>8. Types'
  BY <1>1, <1>3, NewFileType DEF IInv, Types
<1>9. Cache' /\ CacheFaithful' /\ CacheAccounted'
  BY <1>1, <1>3, NewFileType, CacheGone
<1>10. NoFault' /\ ReadsFaithful'
  BY <1>1 DEF IInv, NoFault, ReadsFaithful
<1> QED
  BY <1>5, <1>6, <1>7, <1>8, <1>9, <1>10 DEF IInv

LEMMA DoCompressInv == ASSUME IInv, reply' = "none", DoCompress PROVE IInv' /\ Data' = Data
<1> DEFINE yes == TRUE
           l == Len(Data)
<1>1. Writers = {} /\ Data = back.data /\ \A d \in Desc : desc[d] = Closed
  BY Unused DEF DoCompress
<1>2. /\ OpenDesc = {} /\ ~file.compressor /\ file.size > MinBackground
      /\ back' = [back EXCEPT !.img = yes] /\ file' = [file EXCEPT !.compressor = yes, !.size = l]
      /\ UNCHANGED <<desc, used, fault, stale, failed>>
  BY <1>1 DEF DoCompress, WantsCompression
<1>3. l \in Nat /\ l \in -1 .. MaxLen /\ l = back.size /\ l > 0
  <2>1. Len(Data) \in Nat /\ Len(Data) <= MaxLen /\ back.size = Len(Data)
    BY Contents DEF IInv, Header
  <2>2. file.size \in -1 .. MaxLen /\ MinBackground \in Nat /\ MaxLen \in Nat
    BY TypesFacts, DataPathConstants DEF IInv
  <2>3. file.size # Unknown /\ file.size <= Len(Data)
    BY <1>2, <2>2 DEF IInv, Header, Unknown
  <2> QED
    BY <1>2, <2>1, <2>2, <2>3
<1>4. yes \in BOOLEAN /\ yes = TRUE
  OBVIOUS
<1> HIDE DEF yes, l
<1>5. back' \in BackRec /\ back'.img = yes /\ back'.size = back.size /\ back'.data = back.data
  BY <1>2, <1>4 DEF IInv, Types, BackRec
<1>6. file' \in FileRec /\ file'.compressor = yes /\ file'.size = l /\ file'.cache = file.cache
      /\ file'.slots = file.slots
  BY <1>2, <1>3, <1>4 DEF IInv, Types, FileRec
<1>7. Data' = Data
  BY <1>2, <1>5, DataStays
<1>8. Streams' /\ OneWriter'
  BY <1>1, <1>2, ClosedType, NoStreams
<1>9. Header'
  BY <1>2, <1>3, <1>4, <1>5, <1>6, <1>7 DEF Header, Unknown, l
<1>10. Types'
  BY <1>2, <1>5, <1>6 DEF IInv, Types
<1>11. Cache' /\ CacheFaithful' /\ CacheAccounted'
  BY <1>2, <1>6, PlainCacheStays
<1>12. NoFault' /\ ReadsFaithful'
  BY <1>2 DEF IInv, NoFault, ReadsFaithful
<1> QED
  BY <1>7, <1>8, <1>9, <1>10, <1>11, <1>12 DEF IInv

-----------------------------------------------------------------------------
(* Writing and truncating a plain file, or one that is made plain *)

LEMMA BackingType ==
    ASSUME NEW b \in BOOLEAN, NEW s \in Seq(Byte), Len(s) \in Length
    PROVE  LET r == Backing(b, s) IN r \in BackRec /\ r.img = b /\ r.size = Len(s) /\ r.data = s
<1> DEFINE l == Len(s)
<1>1. l \in Length
  OBVIOUS
<1> HIDE DEF l
<1>2. LET r == [img |-> b, size |-> l, data |-> s] IN r \in BackRec /\ r.img = b /\ r.size = l /\ r.data = s
  BY <1>1 DEF BackRec
<1> QED
  BY <1>2 DEF Backing, l

(* After a step that leaves a plain file with the contents s.               *)
LEMMA PlainInv ==
    ASSUME NEW s \in Seq(Byte), Len(s) \in Length, back' = Backing(FALSE, s),
           file' \in FileRec, file'.compressor = FALSE,
           file'.size # Unknown => file'.size <= Len(s) /\ (file'.size = Len(s) \/ file'.dontcompress),
           desc' \in [Desc -> DescRec],
           \A d \in Desc : desc'[d].handle = "none" /\ desc'[d].offset = 0 /\ desc'[d].buf = <<>>
                           /\ (~desc'[d].open => desc'[d] = Closed),
           used' \in 0 .. CacheMax, fault' = FALSE, stale' \in BOOLEAN, failed' \in BOOLEAN,
           reply' \in {"none", "right", "stale", "error"},
           Cache', CacheFaithful', CacheAccounted'
    PROVE  IInv'
<1>2. back' \in BackRec /\ back'.img = FALSE /\ back'.size = Len(s) /\ back'.data = s
  BY BackingType
<1>3. Types'
  <2>1. fault' \in BOOLEAN /\ reply' \in {"none", "right", "wrong", "stale", "error"}
    OBVIOUS
  <2> QED
    BY <1>2, <2>1, Zenon DEF Types
<1>4. Streams' /\ OneWriter' /\ Writers' = {}
  BY NoStreams
<1>5. Data' = s
  BY <1>2, <1>4, NextContents
<1>6. Header'
  BY <1>2, <1>5 DEF Header
<1>7. NoFault' /\ ReadsFaithful'
  BY DEF NoFault, ReadsFaithful
<1> QED
  BY <1>3, <1>4, <1>6, <1>7 DEF IInv

\* A plain file has no streams.
LEMMA PlainStreams ==
    ASSUME IInv, ~file.compressor
    PROVE  /\ Writers = {} /\ Data = back.data
           /\ \A d \in Desc : /\ desc[d].handle = "none" /\ desc[d].offset = 0 /\ desc[d].buf = <<>>
                              /\ ~desc[d].open => desc[d] = Closed
<1>1. \A d \in Desc : desc[d].handle = "none"
  BY DEF IInv, Streams
<1>2. Writers = {}
  BY <1>1 DEF Writers
<1> QED
  BY <1>1, <1>2 DEF Data, IInv, Streams

\* close_all(): no descriptor has a stream then.
LEMMA CloseAllFacts ==
    ASSUME IInv, NEW f \in FileRec, CloseAll(f)
    PROVE  /\ file' \in FileRec /\ file'.compressor = f.compressor /\ file'.size = f.size
           /\ file'.cache = f.cache /\ file'.slots = f.slots
           /\ desc' \in [Desc -> DescRec]
           /\ \A d \in Desc : /\ desc'[d].handle = "none" /\ desc'[d].offset = 0 /\ desc'[d].buf = <<>>
                              /\ ~desc'[d].open => desc'[d] = Closed
<1>1. desc' = [d \in Desc |-> [Closed EXCEPT !.open = desc[d].open]] /\ file' = Reset(f)
  BY DEF CloseAll
<1>2. \A o \in BOOLEAN : LET c == [Closed EXCEPT !.open = o]
                         IN  /\ c \in DescRec /\ c.handle = "none" /\ c.offset = 0 /\ c.buf = <<>>
                             /\ c.open = o /\ (~o => c = Closed)
  BY ClosedType DEF Closed, DescRec
<1>3. \A d \in Desc : desc[d].open \in BOOLEAN
  BY TypesFacts DEF IInv
<1>4. \A d \in Desc : /\ desc'[d] \in DescRec /\ desc'[d].handle = "none" /\ desc'[d].offset = 0
                      /\ desc'[d].buf = <<>> /\ (~desc'[d].open => desc'[d] = Closed)
  BY <1>1, <1>2, <1>3
<1>5. desc' \in [Desc -> DescRec]
  BY <1>1, <1>4
<1> QED
  BY <1>1, <1>4, <1>5, ResetFacts

\* do_decompress(), whichever entry it works on.
LEMMA DecompressFacts ==
    ASSUME IInv, NEW f \in FileRec, NEW u \in 0 .. CacheMax, Decompress(f, u),
           Cardinality(CachedOf(f)) <= u, failed \/ u = Cardinality(CachedOf(f))
    PROVE  /\ file' \in FileRec /\ file'.compressor = FALSE /\ file'.size = f.size
           /\ desc' \in [Desc -> DescRec]
           /\ \A d \in Desc : /\ desc'[d].handle = "none" /\ desc'[d].offset = 0 /\ desc'[d].buf = <<>>
                              /\ ~desc'[d].open => desc'[d] = Closed
           /\ used' \in 0 .. CacheMax /\ stale' = FALSE /\ failed' = failed
           /\ Cache' /\ CacheFaithful' /\ CacheAccounted'
<1> DEFINE g == FlushFileCache(f, u).file
           no == FALSE
           h == [g EXCEPT !.compressor = no]
<1>1. /\ (back.img => CloseAll(h))
      /\ (~back.img => file' = h /\ UNCHANGED desc)
      /\ used' = FlushFileCache(f, u).used /\ stale' = FALSE /\ failed' = failed
  BY DEF Decompress
<1>2. /\ g \in FileRec /\ g.cache = EmptyCache /\ g.slots = 0 /\ g.size = f.size
      /\ used' = u - Cardinality(CachedOf(f))
  BY <1>1, FlushFacts
<1>3. no \in BOOLEAN /\ no = FALSE
  OBVIOUS
<1> HIDE DEF g, no
<1>4. h \in FileRec /\ h.cache = EmptyCache /\ h.slots = 0 /\ h.size = f.size /\ h.compressor = no
  BY <1>2, <1>3 DEF FileRec
<1> HIDE DEF h
<1>5. /\ file' \in FileRec /\ file'.compressor = FALSE /\ file'.size = f.size
      /\ file'.cache = EmptyCache /\ file'.slots = 0
      /\ desc' \in [Desc -> DescRec]
      /\ \A d \in Desc : /\ desc'[d].handle = "none" /\ desc'[d].offset = 0 /\ desc'[d].buf = <<>>
                         /\ ~desc'[d].open => desc'[d] = Closed
  <2>1. CASE back.img
    BY <1>1, <1>3, <1>4, <2>1, CloseAllFacts
  <2>2. CASE ~back.img
    <3>1. ~file.compressor
      BY <2>2 DEF IInv, Header
    <3>2. desc \in [Desc -> DescRec]
      BY DEF IInv, Types
    <3> QED
      BY <1>1, <1>3, <1>4, <2>2, <3>1, <3>2, PlainStreams
  <2> QED
    BY <2>1, <2>2
<1>6. used' \in 0 .. CacheMax /\ used' \in Nat /\ (failed \/ used' = 0)
  <2>1. Cardinality(CachedOf(f)) \in Nat /\ CacheMax \in Nat
    BY CachedType, DataPathConstants
  <2> QED
    BY <1>2, <2>1
<1>7. Cache' /\ CacheFaithful' /\ CacheAccounted'
  BY <1>1, <1>5, <1>6, CacheGone
<1> QED
  BY <1>1, <1>5, <1>6, <1>7

(* The data that truncating and writing leave.                              *)
LEMMA ResizedType ==
    ASSUME NEW s \in Seq(Byte), NEW n \in Nat
    PROVE  Resized(s, n) \in Seq(Byte) /\ Len(Resized(s, n)) = n
<1>1. \A i \in 1 .. n : (IF i <= Len(s) THEN s[i] ELSE Zero) \in Byte
  BY ElementOfSeq, LenProperties, DataPathConstants
<1>2. Resized(s, n) \in [1 .. n -> Byte]
  BY <1>1 DEF Resized
<1> QED
  BY <1>2, SeqDef, LenProperties

LEMMA OverwrittenType ==
    ASSUME NEW s \in Seq(Byte), NEW off \in Nat, NEW b \in Byte
    PROVE  /\ Overwritten(s, off, <<b>>) \in Seq(Byte)
           /\ Len(Overwritten(s, off, <<b>>)) = IF off + 1 > Len(s) THEN off + 1 ELSE Len(s)
<1> DEFINE m == IF off + 1 > Len(s) THEN off + 1 ELSE Len(s)
           w == Overwritten(s, off, <<b>>)
<1>1. m \in Nat
  BY LenProperties
<1>2. w = [i \in 1 .. m |-> IF i \in off + 1 .. off + 1 THEN <<b>>[i - off] ELSE IF i <= Len(s) THEN s[i] ELSE Zero]
  BY DEF Overwritten
<1>3. \A i \in 1 .. m :
         (IF i \in off + 1 .. off + 1 THEN <<b>>[i - off] ELSE IF i <= Len(s) THEN s[i] ELSE Zero) \in Byte
  <2> SUFFICES ASSUME NEW i \in 1 .. m
               PROVE (IF i \in off + 1 .. off + 1 THEN <<b>>[i - off] ELSE IF i <= Len(s) THEN s[i] ELSE Zero) \in Byte
    OBVIOUS
  <2>1. i \in Nat /\ i >= 1
    BY <1>1
  <2>2. i \in off + 1 .. off + 1 => i - off = 1
    OBVIOUS
  <2>3. i <= Len(s) => s[i] \in Byte
    BY <2>1, ElementOfSeq, LenProperties
  <2> QED
    BY <2>2, <2>3, DataPathConstants
<1> HIDE DEF m, w
<1>4. w \in [1 .. m -> Byte]
  BY <1>2, <1>3
<1>5. w \in Seq(Byte) /\ Len(w) = m
  BY <1>1, <1>4, SeqDef, LenProperties
<1> QED
  BY <1>5 DEF m, w

\* Only an empty file, which has no compressor yet, is given one.
LEMMA ChooseFacts ==
    ASSUME IInv, NEW off
    PROVE  /\ ChooseAssertion(off)
           /\ ChoosesCompressor(off) => ~file.compressor /\ Data = <<>> /\ off = 0 /\ file.size = 0 /\ Accesses = 1
<1> SUFFICES ASSUME ChoosesCompressor(off)
             PROVE  ~file.compressor /\ Data = <<>> /\ off = 0 /\ file.size = 0 /\ Accesses = 1
  BY DEF ChooseAssertion
<1>1. ~file.dontcompress /\ file.size = 0 /\ Accesses = 1 /\ off = 0 /\ file.size # Unknown
  BY DEF ChoosesCompressor, Unknown
<1>2. Len(Data) \in Nat /\ Data \in Seq(Byte)
  BY Contents DEF IInv
<1>3. ~file.compressor
  BY <1>1, <1>2 DEF IInv, Header
<1>4. Len(Data) = 0
  BY <1>1, <1>2, <1>3 DEF IInv, Header
<1> QED
  BY <1>1, <1>2, <1>3, <1>4, EmptySeq

LEMMA WritingFacts ==
    ASSUME IInv, NEW off
    PROVE  LET g == Writing(off)
           IN  /\ g \in FileRec /\ g.size = file.size /\ g.type = file.type /\ g.cache = file.cache
               /\ g.slots = file.slots /\ g.dontcompress = TRUE
               /\ g.compressor = IF ChoosesCompressor(off) THEN Compressible ELSE file.compressor
<1> DEFINE c == IF ChoosesCompressor(off) THEN Compressible ELSE file.compressor
           yes == TRUE
           g == [file EXCEPT !.compressor = c, !.dontcompress = yes]
<1>1. c \in BOOLEAN /\ yes \in BOOLEAN /\ file \in FileRec
  BY TypesFacts, DataPathConstants DEF IInv, Types
<1>2. Writing(off) = g
  BY DEF Writing
<1> HIDE DEF c, yes
<1>3. /\ g \in FileRec /\ g.size = file.size /\ g.type = file.type /\ g.cache = file.cache
      /\ g.slots = file.slots /\ g.dontcompress = yes /\ g.compressor = c
  BY <1>1 DEF FileRec
<1> HIDE DEF g
<1> QED
  BY <1>2, <1>3 DEF c, yes

\* Where users write.
LEMMA WriteOffset ==
    ASSUME IInv, NEW off \in {0, Len(Data)}, off < MaxAppend, NEW b \in Byte
    PROVE  /\ off \in Nat /\ off <= Len(Data) /\ off + 1 \in Length /\ off + 1 > 0
           /\ \A s \in {back.data, Data} :
                s = Data => LET w == Overwritten(s, off, <<b>>)
                            IN  w \in Seq(Byte) /\ Len(w) \in Length /\ Len(Data) <= Len(w)
<1>1. Data \in Seq(Byte) /\ Len(Data) \in Nat /\ Len(Data) <= MaxLen
  BY Contents DEF IInv
<1>2. off \in Nat /\ off <= Len(Data) /\ off + 1 \in Length /\ off + 1 > 0
  <2>1. MaxAppend \in 0 .. MaxLen /\ MaxLen \in Nat
    BY DataPathConstants
  <2> QED
    BY <1>1, <2>1 DEF Length
<1>3. LET w == Overwritten(Data, off, <<b>>)
      IN  w \in Seq(Byte) /\ Len(w) = IF off + 1 > Len(Data) THEN off + 1 ELSE Len(Data)
  BY <1>1, <1>2, OverwrittenType
<1> DEFINE w == Overwritten(Data, off, <<b>>)
           n == Len(w)
           l == Len(Data)
<1>4. n \in Length /\ l <= n
  <2>1. l \in Length /\ l \in Nat /\ n = (IF off + 1 > l THEN off + 1 ELSE l)
    BY <1>1, <1>3 DEF Length
  <2> HIDE DEF n, l
  <2> QED
    BY <1>2, <2>1
<1> QED
  BY <1>2, <1>3, <1>4

LEMMA WriteRawInv ==
    ASSUME IInv, reply' = "none", NEW d \in Desc, NEW off \in {0, Len(Data)}, off < MaxAppend, NEW b \in Byte,
           WriteRaw(d, off, <<b>>)
    PROVE  IInv'
<1> DEFINE w == Overwritten(back.data, off, <<b>>)
<1>1. /\ ~Writing(off).compressor /\ file' = Writing(off) /\ back' = Backing(FALSE, w)
      /\ Records(~ChooseAssertion(off)) /\ UNCHANGED <<desc, used, stale, failed>>
  BY DEF WriteRaw
<1>2. ~file.compressor
  BY <1>1, ChooseFacts, WritingFacts
<1>3. /\ Data = back.data
      /\ \A e \in Desc : desc[e].handle = "none" /\ desc[e].offset = 0 /\ desc[e].buf = <<>>
                         /\ (~desc[e].open => desc[e] = Closed)
  BY <1>2, PlainStreams
<1>4. w \in Seq(Byte) /\ Len(w) \in Length /\ Len(Data) <= Len(w) /\ Len(Data) \in Nat /\ Len(w) \in Nat
  <2>1. w \in Seq(Byte) /\ Len(w) \in Length /\ Len(Data) <= Len(w)
    BY <1>3, WriteOffset
  <2> QED
    BY <2>1, Contents, LenProperties DEF IInv
<1>5. /\ file' \in FileRec /\ file'.compressor = FALSE /\ file'.size = file.size /\ file'.dontcompress
      /\ file'.cache = file.cache /\ file'.slots = file.slots
  <2> DEFINE x == Writing(off)
  <2>1. x \in FileRec /\ x.size = file.size /\ x.dontcompress = TRUE /\ x.cache = file.cache /\ x.slots = file.slots
    BY WritingFacts
  <2>2. file' = x /\ ~x.compressor
    BY <1>1
  <2> HIDE DEF x
  <2>3. x.compressor = FALSE
    BY <2>1, <2>2 DEF FileRec
  <2> QED
    BY <2>1, <2>2, <2>3
<1>6. file'.size # Unknown => file'.size <= Len(w)
  <2>1. file.size # Unknown => file.size <= Len(Data)
    BY <1>2 DEF IInv, Header
  <2>2. file.size \in -1 .. MaxLen /\ MaxLen \in Nat
    BY TypesFacts, PageNat DEF IInv
  <2> QED
    BY <1>4, <1>5, <2>1, <2>2
<1>7. fault' = FALSE
  BY <1>1, ChooseFacts DEF Records, IInv, NoFault
<1>8. Cache' /\ CacheFaithful' /\ CacheAccounted'
  BY <1>1, <1>2, <1>5, PlainCacheStays
<1>9. /\ desc' \in [Desc -> DescRec] /\ used' \in 0 .. CacheMax /\ stale' \in BOOLEAN /\ failed' \in BOOLEAN
  BY <1>1 DEF IInv, Types
<1> HIDE DEF w
<1> QED
  BY <1>1, <1>3, <1>4, <1>5, <1>6, <1>7, <1>8, <1>9, PlainInv

LEMMA WriteFallbackInv ==
    ASSUME IInv, reply' = "none", NEW d \in Desc, NEW off \in {0, Len(Data)}, off < MaxAppend, NEW b \in Byte,
           WriteFallback(d, off, <<b>>)
    PROVE  IInv'
<1> DEFINE w == Overwritten(Data, off, <<b>>)
           t == IF file.type = "none" THEN "write" ELSE file.type
           f == [Writing(off) EXCEPT !.type = t]
           u == Unknown
           fu == [f EXCEPT !.size = u]
           g == FlushFileCache(fu, used)
<1>1. /\ desc[d].open /\ Writing(off).compressor /\ Records(~ChooseAssertion(off))
      /\ \/ Decompress(fu, used) /\ back' = Backing(FALSE, w)
         \/ /\ NoSpace /\ file' = g.file /\ used' = FlushFileCache(f, used).used
            /\ stale' = FALSE /\ failed' = TRUE /\ UNCHANGED <<back, desc>>
  <2>1. f = [Writing(off) EXCEPT !.type = IF @ = "none" THEN "write" ELSE @]
    BY WritingFacts
  <2> QED
    BY <2>1, Zenon DEF WriteFallback
<1>2. /\ f \in FileRec /\ f.compressor = Writing(off).compressor /\ f.cache = file.cache /\ f.slots = file.slots
      /\ f.type = t /\ fu \in FileRec /\ fu.compressor = f.compressor /\ fu.cache = file.cache
      /\ fu.slots = file.slots /\ fu.type = t /\ fu.size = Unknown
  <2>1. t \in {"none", "read", "write"} /\ u \in -1 .. MaxLen /\ u = Unknown
    BY PageNat DEF IInv, Types, FileRec, Unknown
  <2> DEFINE x == Writing(off)
  <2>2. x \in FileRec /\ x.cache = file.cache /\ x.slots = file.slots
    BY WritingFacts
  <2> HIDE DEF x, t, u
  <2>3. f \in FileRec /\ f.compressor = x.compressor /\ f.cache = file.cache /\ f.slots = file.slots /\ f.type = t
    BY <2>1, <2>2 DEF FileRec, x
  <2> HIDE DEF f
  <2>4. /\ fu \in FileRec /\ fu.compressor = f.compressor /\ fu.cache = file.cache /\ fu.slots = file.slots
        /\ fu.type = t /\ fu.size = Unknown
    BY <2>1, <2>3 DEF FileRec
  <2> QED
    BY <2>3, <2>4 DEF x
<1>3. CachedOf(f) = Cached /\ CachedOf(fu) = Cached
  BY <1>2 DEF CachedOf, Cached
<1>4. /\ used \in 0 .. CacheMax /\ CacheMax \in Nat /\ Cardinality(Cached) \in Nat /\ Cardinality(Cached) <= used
      /\ failed \/ used = Cardinality(Cached)
  BY CachedType, DataPathConstants DEF IInv, Types, Cache, CacheAccounted
<1>5. fault' = FALSE
  BY <1>1, ChooseFacts DEF Records, IInv, NoFault
<1> HIDE DEF f, fu, u, g, w
<1>6. CASE Decompress(fu, used) /\ back' = Backing(FALSE, w)
  <2>1. w \in Seq(Byte) /\ Len(w) \in Length
    BY WriteOffset DEF w
  <2>2. /\ file' \in FileRec /\ file'.compressor = FALSE /\ file'.size = Unknown
        /\ desc' \in [Desc -> DescRec]
        /\ \A e \in Desc : /\ desc'[e].handle = "none" /\ desc'[e].offset = 0 /\ desc'[e].buf = <<>>
                           /\ ~desc'[e].open => desc'[e] = Closed
        /\ used' \in 0 .. CacheMax /\ stale' = FALSE /\ failed' = failed
        /\ Cache' /\ CacheFaithful' /\ CacheAccounted'
    BY <1>2, <1>3, <1>4, <1>6, DecompressFacts
  <2>3. stale' \in BOOLEAN /\ failed' \in BOOLEAN
    BY <2>2 DEF IInv, Types
  <2> QED
    BY <1>5, <1>6, <2>1, <2>2, <2>3, PlainInv
<1>7. CASE /\ NoSpace /\ file' = g.file /\ used' = FlushFileCache(f, used).used
           /\ stale' = FALSE /\ failed' = TRUE /\ UNCHANGED <<back, desc>>
  <2>1. file.compressor
    <3>1. ~ChoosesCompressor(off)
      BY <1>7, ChooseFacts DEF NoSpace, Unknown
    <3> QED
      BY <1>1, <3>1, WritingFacts
  <2>2. /\ file' \in FileRec /\ file'.compressor /\ file'.size = Unknown /\ file'.cache = EmptyCache
        /\ file'.slots = 0 /\ file'.type = t
    BY <1>1, <1>2, <1>7, FlushFacts DEF g
  <2>3. used' = used - Cardinality(Cached)
    BY <1>2, <1>3, <1>7, FlushFacts
  <2>4. used' \in 0 .. CacheMax /\ used' \in Nat
    BY <1>4, <2>3
  <2>5. Data' = Data /\ Writers' = Writers
    BY <1>7, DataStays
  <2>6. Types'
    BY <1>5, <1>7, <2>2, <2>4 DEF IInv, Types
  <2>7. Streams'
    BY <1>7, <2>2, <2>5 DEF IInv, Streams, StreamOK
  <2>8. OneWriter'
    BY <1>7, <2>2, <2>5 DEF IInv, OneWriter
  <2>9. Header'
    <3>1. OpenDesc # {}
      BY <1>1 DEF OpenDesc
    <3> QED
      BY <1>7, <2>1, <2>2, <2>5, <3>1 DEF IInv, Header
  <2>10. Cache' /\ CacheFaithful' /\ CacheAccounted'
    BY <1>7, <2>2, <2>4, CacheGone
  <2>11. NoFault' /\ ReadsFaithful'
    BY <1>5 DEF NoFault, ReadsFaithful
  <2> QED
    BY <2>6, <2>7, <2>8, <2>9, <2>10, <2>11 DEF IInv
<1> QED
  BY <1>1, <1>6, <1>7

LEMMA WriteAppendInv ==
    ASSUME IInv, reply' = "none", NEW d \in Desc, NEW off \in {0, Len(Data)}, off < MaxAppend, NEW b \in Byte,
           WriteAppend(d, off, <<b>>)
    PROVE  IInv'
<1> DEFINE u == <<b>>
           n == off + Len(u)
           f == Writing(off)
           g == FlushFileCache(f, used)
           yes == TRUE
           bu == desc[d].buf \o u
           at == desc[d].offset + Len(u)
<1>1. /\ desc[d].open /\ Writing(off).compressor /\ desc[d].offset = file.size /\ desc[d].offset = off
      /\ file.type # "read" /\ Accesses = 1
      /\ desc' = [desc EXCEPT ![d] = [desc[d] EXCEPT !.handle = "write", !.buf = bu, !.offset = at]]
      /\ file' = [g.file EXCEPT !.type = "write", !.size = n]
      /\ used' = g.used /\ stale' = FALSE /\ back' = [back EXCEPT !.img = yes, !.size = n]
      /\ Records(\/ ~ChooseAssertion(off)
                 \/ desc[d].handle = "none" /\ file.size # 0
                 \/ desc[d].handle = "read")
      /\ failed' = failed
  <2>1. desc' = [desc EXCEPT ![d].handle = "write", ![d].buf = @ \o u, ![d].offset = @ + Len(u)]
    BY DEF WriteAppend
  <2>2. desc \in [Desc -> DescRec]
    BY DEF IInv, Types
  <2>3. desc' = [desc EXCEPT ![d] = [desc[d] EXCEPT !.handle = "write", !.buf = bu, !.offset = at]]
    BY <2>1, <2>2 DEF DescRec
  <2> QED
    BY <2>3, Zenon DEF WriteAppend, Appends
<1>2. u \in Seq(Byte) /\ Len(u) = 1 /\ off \in Nat /\ n = off + 1 /\ at = off + 1 /\ n \in Length /\ n > 0
  BY <1>1, WriteOffset
<1>3. yes \in BOOLEAN /\ yes = TRUE
  OBVIOUS
<1>4. off = Len(Data) /\ Len(Data) \in Nat
  <2>1. Data \in Seq(Byte) /\ Len(Data) \in Nat
    BY Contents DEF IInv
  <2>2. CASE ChoosesCompressor(off)
    BY <2>1, <2>2, ChooseFacts, EmptySeq
  <2>3. CASE ~ChoosesCompressor(off)
    <3>1. file.compressor
      BY <1>1, <2>3, WritingFacts
    <3>2. file.size # Unknown
      BY <1>1, <1>2 DEF Unknown
    <3> QED
      BY <1>1, <2>1, <3>1, <3>2 DEF IInv, Header
  <2> QED
    BY <2>2, <2>3
<1>5. \A e \in Desc \ {d} : desc[e] = Closed
  BY <1>1, Alone DEF IInv, Streams
<1>6. desc[d].handle \in {"none", "write"} /\ desc[d].buf \in Seq(Byte) /\ desc[d] \in DescRec
  BY <1>1, TypesFacts DEF IInv, Streams
<1>7. Data = back.data \o desc[d].buf /\ back.data \in Seq(Byte)
  <2>1. CASE desc[d].handle = "write"
    BY <2>1, Contents, TypesFacts DEF IInv, Writers
  <2>2. CASE desc[d].handle = "none"
    <3>1. desc[d].buf = <<>>
      BY <2>2 DEF IInv, Streams
    <3>2. \A e \in Desc : desc[e].handle # "write"
      BY <1>5, <2>2, ClosedType
    <3>3. Writers = {}
      BY <3>2 DEF Writers
    <3> QED
      BY <3>1, <3>3, Contents, TypesFacts, ConcatEmptySeq DEF IInv
  <2> QED
    BY <1>6, <2>1, <2>2
<1> HIDE DEF u, bu, at, n, g, f, yes
<1>8. bu \in Seq(Byte)
  BY <1>2, <1>6, ConcatProperties DEF bu
<1>9. /\ desc' \in [Desc -> DescRec] /\ desc'[d].handle = "write" /\ desc'[d].buf = bu /\ desc'[d].open
      /\ \A e \in Desc \ {d} : desc'[e] = Closed
  <2> DEFINE r == [desc[d] EXCEPT !.handle = "write", !.buf = bu, !.offset = at]
  <2>1. at \in Length
    BY <1>2
  <2>2. r \in DescRec /\ r.handle = "write" /\ r.buf = bu /\ r.open = desc[d].open
    BY <1>6, <1>8, <2>1 DEF DescRec
  <2>3. desc' = [desc EXCEPT ![d] = r] /\ desc \in [Desc -> DescRec]
    BY <1>1 DEF IInv, Types
  <2> HIDE DEF r
  <2> QED
    BY <1>1, <1>5, <2>2, <2>3
<1>10. Writers' = {d}
  BY <1>9, ClosedType DEF Writers
<1>11. back' \in BackRec /\ back'.img = yes /\ back'.size = n /\ back'.data = back.data
  BY <1>1, <1>2, <1>3 DEF IInv, Types, BackRec
<1>12. Data' \in Seq(Byte) /\ Len(Data') = n
  <2>1. Data' = back.data \o bu
    BY <1>9, <1>10, <1>11, NextContents
  <2>2. /\ Len(Data) = Len(back.data) + Len(desc[d].buf) /\ Len(bu) = Len(desc[d].buf) + 1
        /\ Len(Data') = Len(back.data) + Len(bu) /\ Data' \in Seq(Byte)
    <3> DEFINE bs == desc[d].buf
    <3>1. bs \in Seq(Byte) /\ u \in Seq(Byte) /\ bu = bs \o u /\ Len(u) = 1
      BY <1>2, <1>6 DEF bu
    <3> HIDE DEF bs
    <3>2. Len(bs \o u) = Len(bs) + Len(u)
      BY <3>1, ConcatProperties
    <3>3. Len(back.data \o bs) = Len(back.data) + Len(bs)
      BY <1>7, <3>1, ConcatProperties
    <3>4. Len(back.data \o bu) = Len(back.data) + Len(bu) /\ back.data \o bu \in Seq(Byte)
      BY <1>7, <1>8, ConcatProperties
    <3> QED
      BY <1>7, <2>1, <3>1, <3>2, <3>3, <3>4 DEF bs
  <2> DEFINE l0 == Len(Data)
             l1 == Len(back.data)
             l2 == Len(desc[d].buf)
             l3 == Len(bu)
             l4 == Len(Data')
  <2>3. l0 \in Nat /\ l1 \in Nat /\ l2 \in Nat /\ l0 = l1 + l2 /\ l3 = l2 + 1 /\ l4 = l1 + l3 /\ off = l0 /\ n = off + 1
    BY <1>2, <1>4, <1>6, <1>7, <2>2, LenProperties
  <2> HIDE DEF l0, l1, l2, l3, l4
  <2>4. l4 = n
    BY <2>3
  <2> QED
    BY <2>2, <2>4 DEF l4
<1>13. /\ file' \in FileRec /\ file'.compressor = f.compressor /\ file'.type = "write" /\ file'.size = n
       /\ file'.cache = EmptyCache /\ file'.slots = 0
  <2> DEFINE x == g.file
  <2>1. x \in FileRec /\ x.cache = EmptyCache /\ x.slots = 0 /\ x.compressor = f.compressor
    BY WritingFacts, FlushFacts DEF g, f
  <2>2. n \in -1 .. MaxLen /\ file' = [x EXCEPT !.type = "write", !.size = n]
    BY <1>1, <1>2, PageNat DEF Length
  <2> HIDE DEF x
  <2> QED
    BY <2>1, <2>2 DEF FileRec
<1>14. used' \in 0 .. CacheMax /\ used' \in Nat /\ (failed' \/ used' = 0)
  <2>1. f \in FileRec /\ CachedOf(f) = Cached
    BY WritingFacts DEF f, CachedOf, Cached
  <2>2. used' = used - Cardinality(Cached)
    BY <1>1, <2>1, FlushFacts DEF g
  <2>3. /\ used \in 0 .. CacheMax /\ CacheMax \in Nat /\ Cardinality(Cached) \in Nat /\ Cardinality(Cached) <= used
        /\ failed \/ used = Cardinality(Cached)
    BY CachedType, DataPathConstants DEF IInv, Types, Cache, CacheAccounted
  <2> QED
    BY <1>1, <2>2, <2>3
<1>15. fault' = FALSE
  <2>1. ~(desc[d].handle = "none" /\ file.size # 0)
    BY <1>1 DEF IInv, Streams
  <2>2. ~(desc[d].handle = "read")
    BY <1>6
  <2> QED
    BY <1>1, <2>1, <2>2, ChooseFacts DEF Records, IInv, NoFault
<1>16. f.compressor = TRUE
  <2>1. f \in FileRec /\ f.compressor
    BY <1>1, WritingFacts DEF f
  <2> QED
    BY <2>1 DEF FileRec
<1>17. Types'
  <2>1. reply' \in {"none", "right", "wrong", "stale", "error"} /\ fault' \in BOOLEAN /\ stale' \in BOOLEAN
        /\ failed' \in BOOLEAN
    BY <1>1, <1>15 DEF IInv, Types
  <2> QED
    BY <1>9, <1>11, <1>13, <1>14, <2>1, Zenon DEF Types
<1>18. Streams'
  <2> SUFFICES ASSUME NEW e \in Desc
               PROVE  /\ ~desc'[e].open => desc'[e] = Closed
                      /\ desc'[e].handle = "none" => desc'[e].offset = 0
                      /\ desc'[e].handle # "write" => desc'[e].buf = <<>>
                      /\ desc'[e].handle # "none" => file'.compressor
                      /\ desc'[e].handle = "read" => file'.type = "read" /\ StreamOK(desc[e], Len(Data))'
    BY DEF Streams
  <2>1. CASE e = d
    BY <1>9, <1>13, <1>16, <2>1
  <2>2. CASE e # d
    BY <1>9, <2>2, ClosedType
  <2> QED
    BY <2>1, <2>2
<1>19. OneWriter'
  BY <1>9, <1>10, <1>13, ClosedType DEF OneWriter
<1>20. Header'
  <2>1. file'.compressor = TRUE /\ file'.size = Len(Data') /\ Len(Data') > 0
    BY <1>2, <1>12, <1>13, <1>16
  <2>2. back'.img = TRUE /\ back'.size = Len(Data')
    BY <1>3, <1>11, <1>12
  <2>3. file'.size # Unknown
    BY <1>2, <1>13 DEF Unknown, Length
  <2> QED
    BY <2>1, <2>2, <2>3 DEF Header
<1>21. Cache' /\ CacheFaithful' /\ CacheAccounted'
  BY <1>13, <1>14, CacheGone
<1>22. NoFault' /\ ReadsFaithful'
  BY <1>15 DEF NoFault, ReadsFaithful
<1> QED
  BY <1>17, <1>18, <1>19, <1>20, <1>21, <1>22 DEF IInv

LEMMA WritesInv == ASSUME IInv, reply' = "none", NEW d \in Desc, Writes(d) PROVE IInv'
<1>1. PICK off \in {0, Len(Data)}, b \in Byte \ {Zero} :
         /\ off < MaxAppend
         /\ WriteRaw(d, off, <<b>>) \/ WriteAppend(d, off, <<b>>) \/ WriteFallback(d, off, <<b>>)
  BY Zenon DEF Writes
<1>2. b \in Byte
  OBVIOUS
<1>3. CASE WriteRaw(d, off, <<b>>)
  BY <1>1, <1>2, <1>3, WriteRawInv
<1>4. CASE WriteAppend(d, off, <<b>>)
  BY <1>1, <1>2, <1>4, WriteAppendInv
<1>5. CASE WriteFallback(d, off, <<b>>)
  BY <1>1, <1>2, <1>5, WriteFallbackInv
<1> QED
  BY <1>1, <1>3, <1>4, <1>5

LEMMA TruncateInv == ASSUME IInv, reply' = "none", NEW n \in Lengths, Truncate(n) PROVE IInv'
<1>1. n \in Nat /\ n \in Length /\ n \in -1 .. MaxLen /\ n # Unknown
  BY DataPathConstants DEF Length, Unknown
<1>2. OpenDesc # {} /\ fault' = FALSE
  BY DEF Truncate, IInv, NoFault
<1>3. file \in FileRec /\ [file EXCEPT !.size = n] \in FileRec /\ [file EXCEPT !.size = n].size = n
      /\ [file EXCEPT !.size = n].cache = file.cache /\ [file EXCEPT !.size = n].slots = file.slots
      /\ [file EXCEPT !.size = n].compressor = file.compressor
  BY <1>1 DEF IInv, Types, FileRec
<1>4. CASE ~file.compressor
  <2> DEFINE s == Resized(back.data, n)
  <2>1. /\ file' = [file EXCEPT !.size = n] /\ back' = Backing(FALSE, s) /\ UNCHANGED <<desc, used, stale, failed>>
    BY <1>4 DEF Truncate
  <2>2. s \in Seq(Byte) /\ Len(s) = n
    BY <1>1, ResizedType, TypesFacts DEF IInv
  <2>3. \A d \in Desc : desc[d].handle = "none" /\ desc[d].offset = 0 /\ desc[d].buf = <<>>
                        /\ (~desc[d].open => desc[d] = Closed)
    BY <1>4, PlainStreams
  <2>4. Cache' /\ CacheFaithful' /\ CacheAccounted'
    BY <1>3, <1>4, <2>1, PlainCacheStays
  <2>5. file.compressor = FALSE
    BY <1>4, TypesFacts DEF IInv
  <2>6. file' \in FileRec /\ file'.compressor = FALSE /\ file'.size = Len(s)
    BY <1>3, <2>1, <2>2, <2>5
  <2>7. desc' \in [Desc -> DescRec] /\ used' \in 0 .. CacheMax /\ stale' \in BOOLEAN /\ failed' \in BOOLEAN
    BY <2>1 DEF IInv, Types
  <2>8. Len(s) \in Length /\ Len(s) <= Len(s)
    BY <1>1, <2>2
  <2> HIDE DEF s
  <2> QED
    BY <1>2, <2>1, <2>2, <2>3, <2>4, <2>6, <2>7, <2>8, PlainInv
<1>5. CASE file.compressor
  <2> DEFINE s == Resized(Data, n)
             f == [file EXCEPT !.size = n]
  <2>1. Decompress(f, used) /\ back' = Backing(FALSE, s)
    BY <1>5 DEF Truncate
  <2>2. s \in Seq(Byte) /\ Len(s) = n
    BY <1>1, ResizedType, Contents DEF IInv
  <2>3. CachedOf(f) = Cached
    BY <1>3 DEF CachedOf, Cached
  <2>4. /\ used \in 0 .. CacheMax /\ CacheMax \in Nat /\ Cardinality(Cached) \in Nat /\ Cardinality(Cached) <= used
        /\ failed \/ used = Cardinality(Cached)
    BY CachedType, DataPathConstants DEF IInv, Types, Cache, CacheAccounted
  <2>5. f \in FileRec /\ f.size = n
    BY <1>3
  <2> HIDE DEF f
  <2>6. /\ file' \in FileRec /\ file'.compressor = FALSE /\ file'.size = n
        /\ desc' \in [Desc -> DescRec]
        /\ \A d \in Desc : /\ desc'[d].handle = "none" /\ desc'[d].offset = 0 /\ desc'[d].buf = <<>>
                           /\ ~desc'[d].open => desc'[d] = Closed
        /\ used' \in 0 .. CacheMax /\ stale' = FALSE /\ failed' = failed
        /\ Cache' /\ CacheFaithful' /\ CacheAccounted'
    BY <2>1, <2>3, <2>4, <2>5, DecompressFacts
  <2>7. stale' \in BOOLEAN /\ failed' \in BOOLEAN
    BY <2>6 DEF IInv, Types
  <2>8. Len(s) \in Length /\ Len(s) <= Len(s)
    BY <1>1, <2>2
  <2> HIDE DEF s
  <2> QED
    BY <1>2, <2>1, <2>2, <2>6, <2>7, <2>8, PlainInv
<1> QED
  BY <1>4, <1>5

LEMMA TruncateZeroInv == ASSUME IInv, reply' = "none", TruncateZero PROVE IInv'
<1> DEFINE no == FALSE
           f == [file EXCEPT !.compressor = no, !.size = 0]
           g == [file EXCEPT !.size = 0]
<1>1. /\ IF file.compressor THEN CloseAll(f) ELSE file' = g /\ UNCHANGED desc
      /\ back' = Backing(FALSE, <<>>) /\ stale' = (file.slots > 0) /\ UNCHANGED <<used, fault, failed>>
  BY DEF TruncateZero
<1>2. /\ f \in FileRec /\ f.size = 0 /\ f.compressor = FALSE /\ f.cache = file.cache /\ f.slots = file.slots
      /\ g \in FileRec /\ g.size = 0 /\ g.compressor = file.compressor /\ g.cache = file.cache
      /\ g.slots = file.slots
  <2>1. 0 \in -1 .. MaxLen /\ no \in BOOLEAN /\ no = FALSE /\ file \in FileRec
    BY PageNat DEF IInv, Types
  <2> HIDE DEF no
  <2> QED
    BY <2>1 DEF FileRec
<1> HIDE DEF f, g
<1>3. /\ file' \in FileRec /\ file'.compressor = FALSE /\ file'.size = 0
      /\ file'.cache = file.cache /\ file'.slots = file.slots
      /\ desc' \in [Desc -> DescRec]
      /\ \A d \in Desc : /\ desc'[d].handle = "none" /\ desc'[d].offset = 0 /\ desc'[d].buf = <<>>
                         /\ ~desc'[d].open => desc'[d] = Closed
  <2>1. CASE file.compressor
    BY <1>1, <1>2, <2>1, CloseAllFacts
  <2>2. CASE ~file.compressor
    <3>1. file.compressor = FALSE /\ desc \in [Desc -> DescRec]
      BY <2>2, TypesFacts DEF IInv, Types
    <3> QED
      BY <1>1, <1>2, <2>2, <3>1, PlainStreams
  <2> QED
    BY <2>1, <2>2
<1>4. Cached' = Cached
  BY <1>3 DEF Cached
<1>5. ~stale' => file.slots = 0 /\ Cached = {}
  <2>1. file.slots \in Nat
    BY PageNat DEF IInv, Types, FileRec
  <2>2. ~stale' => ~(file.slots > 0)
    BY <1>1, Zenon
  <2> QED
    BY <2>1, <2>2 DEF IInv, Cache
<1>6. Cache' /\ CacheFaithful' /\ CacheAccounted'
  <2>1. Cache'
    BY <1>1, <1>3, <1>4, <1>5 DEF IInv, Cache
  <2>2. CacheFaithful'
    BY <1>4, <1>5 DEF CacheFaithful
  <2>3. CacheAccounted'
    BY <1>1, <1>4 DEF IInv, CacheAccounted
  <2> QED
    BY <2>1, <2>2, <2>3
<1>7. <<>> \in Seq(Byte) /\ Len(<<>>) = 0 /\ Len(<<>>) \in Length
  BY PageNat, EmptySeq DEF Length
<1>8. used' \in 0 .. CacheMax /\ stale' \in BOOLEAN /\ failed' \in BOOLEAN /\ fault' = FALSE
  BY <1>1 DEF IInv, Types, NoFault
<1>9. file'.size # Unknown => file'.size <= Len(<<>>) /\ (file'.size = Len(<<>>) \/ file'.dontcompress)
  BY <1>3, <1>7
<1> QED
  BY <1>1, <1>3, <1>6, <1>7, <1>8, <1>9, PlainInv

-----------------------------------------------------------------------------
(* Reading from the cache *)

LEMMA Least ==
    ASSUME NEW S \in SUBSET Nat, S # {}
    PROVE  \E n \in S : \A k \in S : n <= k
<1> DEFINE R == OpToRel(<, Nat)
<1>1. IsWellFoundedOn(R, Nat)
  BY NatLessThanWellFounded, Zenon
<1>2. \A x, y \in Nat : x < y => <<x, y>> \in R
  BY DEF OpToRel
<1>3. PICK n \in S : \A y \in S : ~ (<<y, n>> \in R)
  <2> HIDE DEF R
  <2> QED
    BY <1>1, WFMin
<1>4. \A k \in S : ~(k < n)
  <2> HIDE DEF R
  <2> QED
    BY <1>2, <1>3
<1> QED
  BY <1>4

LEMMA RequestFacts ==
    ASSUME IInv, NEW p \in Nat, NEW m \in Nat, Request(p * Page, m * Page)
    PROVE  /\ (p * Page) \div Page = p /\ (m * Page) \div Page = m
           /\ p * Page \in Nat /\ m * Page \in Nat /\ p * Page < Len(Data) /\ p * Page + m * Page < Len(Data) + Page
           /\ \A k \in 0 .. m : /\ k \in Nat /\ k * Page \in Nat
                                /\ k * Page = m * Page <=> k = m
                                /\ k * Page < m * Page <=> k < m
                                /\ p * Page + k * Page = (p + k) * Page
                                /\ k < m => (p + k) * Page < Len(Data)
<1>1. p * Page < Len(Data) /\ p * Page + m * Page < Len(Data) + Page
  BY DEF Request
<1>2. Len(Data) \in Nat /\ Page \in Nat \ {0}
  BY Contents, PageNat DEF IInv
<1>3. /\ (p * Page) \div Page = p /\ (m * Page) \div Page = m /\ p * Page \in Nat /\ m * Page \in Nat
  BY PageTimes
<1>4. ASSUME NEW k \in 0 .. m
      PROVE  /\ k \in Nat /\ k * Page \in Nat
             /\ k * Page = m * Page <=> k = m
             /\ k * Page < m * Page <=> k < m
             /\ p * Page + k * Page = (p + k) * Page
             /\ k < m => (p + k) * Page < Len(Data)
  <2>1. k \in Nat /\ k * Page \in Nat /\ k <= m
    BY PageTimes
  <2>2. (k < m <=> k * Page < m * Page) /\ (k < m => k * Page + Page <= m * Page)
    BY <2>1, PageLess
  <2>3. m <= k <=> m * Page <= k * Page
    BY <2>1, PageLess
  <2>4. p * Page + k * Page = (p + k) * Page
    BY <2>1, PagePlus
  <2> DEFINE x == k * Page
             y == m * Page
             z == p * Page
             l == Len(Data)
  <2>5. /\ x \in Nat /\ y \in Nat /\ z \in Nat /\ l \in Nat /\ z + y < l + Page /\ k <= m
        /\ (k < m <=> x < y) /\ (k < m => x + Page <= y) /\ (m <= k <=> y <= x)
    BY <1>1, <1>2, <1>3, <2>1, <2>2, <2>3
  <2> HIDE DEF x, y, z, l
  <2>6. x = y => k = m
    BY <2>1, <2>5
  <2>7. k = m => x = y
    BY DEF x, y
  <2>8. k < m => z + x < l
    BY <1>2, <2>5
  <2> QED
    BY <2>1, <2>2, <2>4, <2>6, <2>7, <2>8 DEF x, y, z, l
<1> QED
  BY <1>1, <1>3, <1>4

(* The cache serves a first stretch of the pages that are asked for, and    *)
(* none of a file that was written to.                                      *)
LEMMA ServedFacts ==
    ASSUME IInv, NEW p \in Nat, NEW m \in Nat, Request(p * Page, m * Page)
    PROVE  LET k == Served(p * Page, m * Page)
           IN  k \in 0 .. m /\ \A j \in 0 .. k - 1 : p + j \in Cached
<1>1. /\ (p * Page) \div Page = p /\ (m * Page) \div Page = m
      /\ \A k \in 0 .. m : k * Page = m * Page <=> k = m
  BY RequestFacts
<1> DEFINE P(k) == /\ \A j \in 0 .. k - 1 : p + j \in Cached
                   /\ k * Page = m * Page \/ p + k \notin Cached
           S == {k \in 0 .. m : k = m \/ p + k \notin Cached}
<1>2. \E k \in 0 .. m : P(k)
  <2>1. S \in SUBSET Nat /\ m \in S
    OBVIOUS
  <2>2. PICK k \in S : \A i \in S : k <= i
    <3> HIDE DEF S
    <3> QED
      BY <2>1, Least
  <2>3. k \in 0 .. m /\ (k = m \/ p + k \notin Cached)
    BY <2>2
  <2>4. \A j \in 0 .. k - 1 : p + j \in Cached
    <3> SUFFICES ASSUME NEW j \in 0 .. k - 1, p + j \notin Cached PROVE FALSE
      OBVIOUS
    <3>1. j \in 0 .. m /\ j \in Nat /\ j < k /\ k \in Nat
      BY <2>3
    <3>2. j \in S
      BY <3>1
    <3>3. k <= j
      BY <2>2, <3>2
    <3> QED
      BY <3>1, <3>3
  <2> QED
    BY <1>1, <2>3, <2>4
<1>3. CASE ~CacheSkipped \/ file.type = "write"
  <2>1. Served(p * Page, m * Page) = 0
    BY <1>3 DEF Served
  <2> QED
    BY <2>1
<1>4. CASE ~(~CacheSkipped \/ file.type = "write")
  <2>1. Served(p * Page, m * Page) = CHOOSE k \in 0 .. m : P(k)
    BY <1>1, <1>4 DEF Served
  <2> QED
    BY <1>2, <2>1
<1> QED
  BY <1>3, <1>4

(* The loop that serves pages does not leave the cache.                     *)
LEMMA LooksInside ==
    ASSUME IInv, ~stale, NEW p \in Nat, NEW m \in Nat, Request(p * Page, m * Page),
           NEW k \in 0 .. m, \A j \in 0 .. k - 1 : p + j \in Cached
    PROVE  ~LooksBeyond(p * Page, m * Page, k)
<1> SUFFICES ASSUME k > 0, k * Page < m * Page, (p * Page) \div Page + k >= file.slots
             PROVE FALSE
  BY DEF LooksBeyond
<1>1. (p * Page) \div Page = p /\ k < m /\ (p + k) * Page < Len(Data) /\ k \in Nat
  BY RequestFacts
<1>2. Cached # {}
  <2>1. 0 \in 0 .. k - 1
    BY <1>1
  <2> QED
    BY <2>1
<1>3. file.slots = Len(Data) \div Page + 1
  <2>1. file.slots \in Nat
    BY PageNat DEF IInv, Types, FileRec
  <2> QED
    BY <1>2, <2>1 DEF IInv, Cache
<1>4. p + k <= Len(Data) \div Page /\ Len(Data) \div Page \in Nat
  BY <1>1, SlotOfPage, Paged, Contents DEF IInv
<1> QED
  BY <1>1, <1>3, <1>4

LEMMA ConsumedFacts ==
    ASSUME IInv, NEW p \in Nat, NEW k \in Nat, \A j \in 0 .. k - 1 : p + j \in Cached
    PROVE  LET f == Consumed(p * Page, k)
           IN  /\ f \in FileRec /\ f.compressor = file.compressor /\ f.size = file.size /\ f.slots = file.slots
               /\ f.dontcompress = file.dontcompress
               /\ f.type = IF file.type = "none" THEN "read" ELSE file.type
               /\ CachedOf(f) = Cached \ (p .. p + k - 1)
               /\ \A q \in CachedOf(f) : f.cache[q] = file.cache[q]
               /\ Cardinality(CachedOf(f)) = Cardinality(Cached) - k
               /\ k <= used /\ used - k \in 0 .. CacheMax /\ Cardinality(CachedOf(f)) <= used - k
               /\ failed \/ used - k = Cardinality(CachedOf(f))
<1> DEFINE t == IF file.type = "none" THEN "read" ELSE file.type
           c == [q \in Slot |-> IF q \in p .. p + k - 1 THEN Null ELSE file.cache[q]]
           f == [file EXCEPT !.type = t, !.cache = c]
<1>1. Consumed(p * Page, k) = f
  <2>1. (p * Page) \div Page = p
    BY PageTimes
  <2> DEFINE x == (p * Page) \div Page
  <2>2. Consumed(p * Page, k) =
            [file EXCEPT !.type = t, !.cache = [q \in Slot |-> IF q \in x .. x + k - 1 THEN Null ELSE file.cache[q]]]
    BY Zenon DEF Consumed
  <2> HIDE DEF x, t
  <2>3. x = p
    BY <2>1 DEF x
  <2> QED
    BY <2>2, <2>3
<1>2. t \in {"none", "read", "write"} /\ c \in [Slot -> Seq(Byte) \cup {Null}] /\ file \in FileRec
  <2>1. \A q \in Slot : file.cache[q] \in Seq(Byte) \cup {Null}
    BY TypesFacts DEF IInv
  <2> QED
    BY <2>1 DEF IInv, Types, FileRec
<1>3. /\ f \in FileRec /\ f.compressor = file.compressor /\ f.size = file.size /\ f.slots = file.slots
      /\ f.dontcompress = file.dontcompress /\ f.type = t /\ f.cache = c
  <2> HIDE DEF t, c
  <2> QED
    BY <1>2 DEF FileRec
<1>4. CachedOf(f) = Cached \ (p .. p + k - 1) /\ \A q \in CachedOf(f) : f.cache[q] = file.cache[q]
  <2> HIDE DEF f
  <2> QED
    BY <1>3 DEF CachedOf, Cached
<1>5. p .. p + k - 1 \subseteq Cached
  <2> SUFFICES ASSUME NEW q \in p .. p + k - 1 PROVE q \in Cached
    OBVIOUS
  <2>1. q - p \in 0 .. k - 1 /\ p + (q - p) = q
    OBVIOUS
  <2>2. p + (q - p) \in Cached
    BY <2>1
  <2> QED
    BY <2>1, <2>2
<1>6. IsFiniteSet(Cached) /\ Cardinality(Cached) \in Nat
  BY CachedType
<1>7. Cardinality(p .. p + k - 1) = k
  <2>1. p \in Int /\ p + k - 1 \in Int
    OBVIOUS
  <2>2. Cardinality(p .. p + k - 1) = IF p > p + k - 1 THEN 0 ELSE (p + k - 1) - p + 1
    BY <2>1, FS_Interval
  <2> QED
    BY <2>2
<1> HIDE DEF f
<1>8. Cardinality(CachedOf(f)) = Cardinality(Cached) - k /\ k <= Cardinality(Cached)
  <2>1. Cached \cap (p .. p + k - 1) = p .. p + k - 1
    BY <1>5
  <2>2. Cardinality(Cached \ (p .. p + k - 1)) = Cardinality(Cached) - Cardinality(Cached \cap (p .. p + k - 1))
    BY <1>6, FS_Difference
  <2>3. k <= Cardinality(Cached)
    BY <1>5, <1>6, <1>7, FS_Subset
  <2> QED
    BY <1>4, <1>7, <2>1, <2>2, <2>3
<1> DEFINE x == Cardinality(Cached)
<1>9. x \in Nat /\ x <= used /\ used \in 0 .. CacheMax /\ CacheMax \in Nat /\ (failed \/ used = x) /\ k <= x
  BY <1>6, <1>8, DataPathConstants DEF IInv, Types, Cache, CacheAccounted
<1>10. /\ k <= used /\ used - k \in 0 .. CacheMax /\ x - k <= used - k /\ (failed \/ used - k = x - k)
  <2> HIDE DEF x
  <2> QED
    BY <1>9
<1> QED
  BY <1>1, <1>3, <1>4, <1>8, <1>10

(* Pages out of the cache are the file's.                                   *)
LEMMA ServedPages ==
    ASSUME IInv, ~stale, NEW p \in Nat, NEW k \in Nat, \A j \in 0 .. k - 1 : p + j \in Cached,
           p * Page <= Len(Data)
    PROVE  PagesFrom(p, k) = Slice(Data, p * Page, k * Page) /\ p * Page + k * Page <= Len(Data)
<1> DEFINE L == Len(Data)
           s == Slice(Data, p * Page, k * Page)
<1>1. Data \in Seq(Byte) /\ L \in Nat /\ Page \in Nat \ {0}
  BY Contents, PageNat DEF IInv
\* A page of the cache is a whole one.
<1>2. ASSUME NEW j \in 0 .. k - 1
      PROVE  /\ file.cache[p + j] = Slice(Data, (p + j) * Page, Page) /\ (p + j) * Page + Page <= L
             /\ \A r \in 0 .. Page - 1 : file.cache[p + j][r + 1] = Data[(p + j) * Page + (r + 1)]
  <2>1. p + j \in Cached /\ p + j \in Nat
    OBVIOUS
  <2>2. file.cache[p + j] = Slice(Data, (p + j) * Page, Page) /\ Len(file.cache[p + j]) = Page
    BY <2>1 DEF IInv, CacheFaithful
  <2>3. (p + j) * Page \in Nat
    BY <2>1, PageTimes
  <2> DEFINE t == Slice(Data, (p + j) * Page, Page)
             o == (p + j) * Page
  <2>4. /\ Len(t) = IF o + Page < L THEN Page ELSE IF o <= L THEN L - o ELSE 0
        /\ \A i \in 1 .. Len(t) : t[i] = Data[o + i]
    BY <1>1, <2>3, SliceType
  <2>5. Len(t) = Page
    BY <2>2
  <2> HIDE DEF t, o, L
  <2>6. o \in Nat
    BY <2>3 DEF o
  <2>7. o + Page <= L
    BY <1>1, <2>4, <2>5, <2>6
  <2>8. \A r \in 0 .. Page - 1 : r + 1 \in 1 .. Len(t)
    BY <1>1, <2>5
  <2>9. \A r \in 0 .. Page - 1 : t[r + 1] = Data[o + (r + 1)]
    BY <2>4, <2>8
  <2> QED
    BY <2>2, <2>7, <2>9 DEF t, o, L
<1>3. k * Page \in Nat /\ p * Page \in Nat
  BY PageTimes
<1>4. p * Page + k * Page <= L
  <2>1. CASE k = 0
    BY <1>3, <2>1, PageNat
  <2>2. CASE k # 0
    <3>1. k - 1 \in 0 .. k - 1 /\ k - 1 \in Nat /\ p + (k - 1) \in Nat /\ (p + (k - 1)) + 1 = p + k
      BY <2>2
    <3>2. (p + (k - 1)) * Page + Page <= L
      BY <1>2, <3>1
    <3>3. (p + k) * Page = (p + (k - 1)) * Page + Page
      BY <3>1, PageTimes
    <3>4. (p + k) * Page = p * Page + k * Page
      BY PagePlus
    <3> QED
      BY <3>2, <3>3, <3>4
  <2> QED
    BY <2>1, <2>2
<1>5. /\ s \in Seq(Byte) /\ Len(s) = k * Page /\ \A i \in 1 .. k * Page : s[i] = Data[p * Page + i]
  <2>1. /\ s \in Seq(Byte)
        /\ Len(s) = IF p * Page + k * Page < L THEN k * Page ELSE IF p * Page <= L THEN L - p * Page ELSE 0
        /\ \A i \in 1 .. Len(s) : s[i] = Data[p * Page + i]
    BY <1>1, <1>3, SliceType
  <2> DEFINE x == k * Page
             y == p * Page
             n == Len(s)
  <2>2. x \in Nat /\ y \in Nat /\ y + x <= L /\ n = IF y + x < L THEN x ELSE IF y <= L THEN L - y ELSE 0
    BY <1>3, <1>4, <2>1
  <2> HIDE DEF x, y, n, L
  <2>3. n = x
    BY <1>1, <2>2
  <2> QED
    BY <2>1, <2>3 DEF n, x
<1> HIDE DEF s, L
<1>6. ASSUME NEW i \in 1 .. k * Page
      PROVE  file.cache[p + ((i - 1) \div Page)][((i - 1) % Page) + 1] = s[i]
  <2> DEFINE j == (i - 1) \div Page
             r == (i - 1) % Page
  <2>1. i - 1 \in Nat /\ i - 1 < k * Page
    BY <1>3
  <2>2. j \in Nat /\ r \in 0 .. Page - 1 /\ i - 1 = j * Page + r /\ j * Page <= i - 1
    BY <2>1, Paged
  <2>3. j * Page \in Nat /\ (p + j) * Page = p * Page + j * Page
    BY <2>2, PageTimes, PagePlus
  <2>4. j * Page < k * Page
    <3> DEFINE x == j * Page
               y == k * Page
    <3>1. x \in Nat /\ y \in Nat /\ x <= i - 1 /\ i - 1 < y /\ i - 1 \in Nat
      BY <1>3, <2>1, <2>2, <2>3
    <3> HIDE DEF x, y
    <3>2. x < y
      BY <3>1
    <3> QED
      BY <3>2 DEF x, y
  <2>5. j \in 0 .. k - 1
    BY <2>2, <2>4, PageLess
  <2>6. file.cache[p + j][r + 1] = Data[(p + j) * Page + (r + 1)]
    BY <1>2, <2>2, <2>5
  <2> HIDE DEF j, r
  <2>7. (p + j) * Page + (r + 1) = p * Page + i
    BY <1>1, <1>3, <2>2, <2>3
  <2>8. file.cache[p + j][r + 1] = s[i]
    BY <1>5, <2>6, <2>7
  <2> QED
    BY <2>8 DEF j, r
<1>7. PagesFrom(p, k) = [i \in 1 .. k * Page |-> s[i]]
  BY <1>6 DEF PagesFrom
<1>8. s = [i \in 1 .. Len(s) |-> s[i]]
  BY <1>5
<1> QED
  BY <1>4, <1>5, <1>7, <1>8 DEF s, L

\* A read that is not wrong.
LEMMA ReplyFacts ==
    ASSUME IInv, NEW got, NEW off, NEW n, Reply(got, off, n), stale \/ got = Slice(Data, off, n) \/ got = Null
    PROVE  reply' \in {"right", "stale", "error"} /\ ReadsFaithful'
<1>1. CASE got = Null
  BY <1>1 DEF Reply, ReadsFaithful
<1>2. CASE got # Null /\ got = Slice(Data, off, n)
  BY <1>2 DEF Reply, ReadsFaithful
<1>3. CASE got # Null /\ got # Slice(Data, off, n)
  BY <1>3 DEF Reply, ReadsFaithful
<1> QED
  BY <1>1, <1>2, <1>3

\* A read has the data, unless the disk has been full or the cache was stale.
Answered == reply' = "right" \/ stale \/ failed'

LEMMA AnsweredFacts ==
    ASSUME Data \in Seq(Byte), NEW off \in Nat, NEW n \in Nat, NEW got, Reply(got, off, n),
           failed' \/ stale \/ got = Slice(Data, off, n)
    PROVE  Answered
<1> DEFINE t == Data
<1>1. t \in Seq(Byte)
  OBVIOUS
<1> HIDE DEF t
<1>2. Slice(t, off, n) # Null
  BY <1>1, SliceType
<1>3. Slice(Data, off, n) # Null
  BY <1>2 DEF t
<1> QED
  BY <1>3 DEF Reply, Answered

\* Only the answer changes.
LEMMA SameInv ==
    ASSUME IInv, UNCHANGED <<back, file, desc, used, fault, stale, failed>>,
           reply' \in {"none", "right", "wrong", "stale", "error"}, ReadsFaithful'
    PROVE  IInv' /\ Data' = Data
<1>1. Writers' = Writers /\ OpenDesc' = OpenDesc /\ Cached' = Cached
  BY DEF Writers, OpenDesc, Cached
<1>2. Data' = Data
  BY <1>1 DEF Data
<1>3. Types' /\ Streams' /\ OneWriter' /\ Header' /\ Cache'
  <2>1. Types'
    BY DEF IInv, Types
  <2>2. Streams'
    BY <1>2 DEF IInv, Streams, StreamOK
  <2>3. OneWriter'
    BY <1>1 DEF IInv, OneWriter
  <2>4. Header'
    BY <1>1, <1>2 DEF IInv, Header
  <2>5. Cache'
    BY <1>1, <1>2 DEF IInv, Cache
  <2> QED
    BY <2>1, <2>2, <2>3, <2>4, <2>5
<1>4. CacheFaithful' /\ CacheAccounted' /\ NoFault'
  BY <1>1, <1>2 DEF IInv, CacheFaithful, CacheAccounted, NoFault
<1> QED
  BY <1>2, <1>3, <1>4 DEF IInv

LEMMA ReadRawInv ==
    ASSUME IInv, NEW d \in Desc, NEW off \in Nat, NEW n \in Nat, ~file.compressor, ReadRaw(d, off, n)
    PROVE  IInv' /\ Data' = Data /\ Answered
<1>1. Data = back.data
  BY PlainStreams
<1>2. Reply(Slice(back.data, off, n), off, n) /\ UNCHANGED <<back, file, desc, used, fault, stale, failed>>
  BY DEF ReadRaw
<1>3. reply' \in {"right", "stale", "error"} /\ ReadsFaithful'
  BY <1>1, <1>2, ReplyFacts
<1>4. Answered
  <2>1. Data \in Seq(Byte)
    BY Contents DEF IInv
  <2> QED
    BY <1>1, <1>2, <2>1, AnsweredFacts
<1> QED
  BY <1>2, <1>3, <1>4, SameInv

LEMMA ReadCachedInv ==
    ASSUME IInv, NEW d \in Desc, NEW p \in Nat, NEW m \in Nat, Request(p * Page, m * Page), file.compressor,
           NEW k \in 0 .. m, \A j \in 0 .. k - 1 : p + j \in Cached,
           ReadCached(d, p * Page, m * Page, k)
    PROVE  IInv' /\ Data' = Data /\ Answered
<1>1. /\ k * Page = m * Page /\ Reply(PagesFrom((p * Page) \div Page, k), p * Page, m * Page)
      /\ file' = Consumed(p * Page, k) /\ used' = used - k
      /\ UNCHANGED <<back, desc, fault, stale, failed>>
  BY DEF ReadCached
<1> k \in Nat
  OBVIOUS
<1>2. /\ file' \in FileRec /\ file'.compressor = file.compressor /\ file'.size = file.size /\ file'.slots = file.slots
      /\ file'.dontcompress = file.dontcompress
      /\ file'.type = (IF file.type = "none" THEN "read" ELSE file.type)
      /\ CachedOf(file') = Cached \ (p .. p + k - 1)
      /\ \A q \in CachedOf(file') : file'.cache[q] = file.cache[q]
      /\ k <= used /\ used - k \in 0 .. CacheMax /\ Cardinality(CachedOf(file')) <= used - k
      /\ failed \/ used - k = Cardinality(CachedOf(file'))
  BY <1>1, ConsumedFacts
<1>3. Cached' = CachedOf(file') /\ Cached' \subseteq Cached
  BY <1>2 DEF Cached, CachedOf
<1>4. reply' \in {"right", "stale", "error"} /\ ReadsFaithful' /\ Answered
  <2>1. (p * Page) \div Page = p /\ p * Page < Len(Data) /\ p * Page \in Nat /\ Len(Data) \in Nat
        /\ p * Page <= Len(Data)
    BY RequestFacts, Contents DEF IInv
  <2>2. ~stale => PagesFrom(p, k) = Slice(Data, p * Page, m * Page)
    BY <1>1, <2>1, ServedPages
  <2>3. Reply(PagesFrom(p, k), p * Page, m * Page)
    BY <1>1, <2>1
  <2>4. Data \in Seq(Byte) /\ p * Page \in Nat /\ m * Page \in Nat
    BY RequestFacts, Contents DEF IInv
  <2>5. Answered
    BY <2>2, <2>3, <2>4, AnsweredFacts
  <2> QED
    BY <2>2, <2>3, <2>5, ReplyFacts
<1>5. Data' = Data /\ Writers' = Writers
  BY <1>1, DataStays
<1>6. Types'
  BY <1>1, <1>2, <1>4 DEF IInv, Types
<1>7. Streams'
  BY <1>1, <1>2, <1>5 DEF IInv, Streams, StreamOK
<1>8. OneWriter'
  BY <1>1, <1>2, <1>5 DEF IInv, OneWriter
<1>9. Header'
  <2>1. file.compressor = back.img
    BY NewFileType DEF IInv, Header
  <2> QED
    BY <1>1, <1>2, <1>5, <2>1 DEF IInv, Header
<1>10. Cache'
  BY <1>1, <1>2, <1>3, <1>5 DEF IInv, Cache
<1>11. CacheFaithful'
  BY <1>1, <1>2, <1>3, <1>5 DEF IInv, CacheFaithful
<1>12. CacheAccounted'
  BY <1>1, <1>2, <1>3 DEF CacheAccounted
<1>13. NoFault'
  BY <1>1 DEF IInv, NoFault
<1> QED
  BY <1>4, <1>5, <1>6, <1>7, <1>8, <1>9, <1>10, <1>11, <1>12, <1>13 DEF IInv

LEMMA RecordsFacts ==
    ASSUME IInv, NEW bad, Records(bad), ~stale => ~bad
    PROVE  fault' = FALSE /\ NoFault'
<1>1. fault' = (fault \/ (bad /\ ~stale)) /\ ~fault
  BY Zenon DEF Records, IInv, NoFault
<1>2. ~(fault \/ (bad /\ ~stale))
  BY <1>1, Zenon
<1>3. fault' = FALSE
  BY <1>1, <1>2, Zenon
<1> QED
  BY <1>3 DEF NoFault

LEMMA DataParts ==
    ASSUME Data \in Seq(Byte), NEW o \in Nat, NEW a \in Nat, NEW b \in Nat, o + a <= Len(Data)
    PROVE  Slice(Data, o, a) \o Slice(Data, o + a, b) = Slice(Data, o, a + b)
<1> DEFINE s == Data
<1> HIDE DEF s
<1>1. s \in Seq(Byte) /\ o + a <= Len(s)
  BY DEF s
<1>2. Slice(s, o, a) \o Slice(s, o + a, b) = Slice(s, o, a + b)
  BY <1>1, SliceParts
<1> QED
  BY <1>2 DEF s

(* A read may decompress the file for good, or find no space for that.      *)
LEMMA ReadFallbackInv ==
    ASSUME IInv, NEW d \in Desc, desc[d].open, NEW p \in Nat, NEW m \in Nat, Request(p * Page, m * Page),
           file.compressor, NEW k \in 0 .. m, \A j \in 0 .. k - 1 : p + j \in Cached,
           ReadFallback(d, p * Page, m * Page, k)
    PROVE  IInv' /\ Data' = Data /\ Answered
<1> k \in Nat
  OBVIOUS
<1> DEFINE off == p * Page
           n == m * Page
           f == Consumed(off, k)
           u == Unknown
           z == 0
           fu == [f EXCEPT !.size = u]
           fz == [f EXCEPT !.size = u, !.skipped = z]
           got == PagesFrom(p, k) \o Slice(Data, off + k * Page, n - k * Page)
<1>1. off \div Page = p /\ off \in Nat /\ n \in Nat /\ off < Len(Data) /\ off <= Len(Data) /\ k * Page \in Nat
  <2>1. off \div Page = p /\ off \in Nat /\ n \in Nat /\ off < Len(Data) /\ k * Page \in Nat
    BY RequestFacts
  <2> QED
    BY <2>1, Contents DEF IInv
<1>2. /\ k * Page < n /\ Records(LooksBeyond(off, n, k))
      /\ \/ Decompress(fz, used - k) /\ back' = Backing(FALSE, Data) /\ Reply(got, off, n)
         \/ /\ NoSpace /\ file' = fu /\ used' = used - k /\ Reply(Null, off, n) /\ failed' = TRUE
            /\ UNCHANGED <<back, desc, stale>>
  <2>1. off \div Page = p
    BY <1>1
  <2>2. /\ k * Page < n /\ Records(LooksBeyond(off, n, k))
        /\ \/ /\ Decompress(fz, used - k) /\ back' = Backing(FALSE, Data)
              /\ Reply(PagesFrom(off \div Page, k) \o Slice(Data, off + k * Page, n - k * Page), off, n)
           \/ /\ NoSpace /\ file' = fu /\ used' = used - k /\ Reply(Null, off, n) /\ failed' = TRUE
              /\ UNCHANGED <<back, desc, stale>>
    BY Zenon DEF ReadFallback
  <2> QED
    BY <2>1, <2>2, Zenon
<1>3. fault' = FALSE /\ NoFault'
  BY <1>2, LooksInside, RecordsFacts
<1>4. /\ f \in FileRec /\ f.compressor = file.compressor /\ f.size = file.size /\ f.slots = file.slots
      /\ f.dontcompress = file.dontcompress
      /\ f.type = (IF file.type = "none" THEN "read" ELSE file.type)
      /\ CachedOf(f) = Cached \ (p .. p + k - 1)
      /\ \A q \in CachedOf(f) : f.cache[q] = file.cache[q]
      /\ k <= used /\ used - k \in 0 .. CacheMax /\ Cardinality(CachedOf(f)) <= used - k
      /\ failed \/ used - k = Cardinality(CachedOf(f))
  BY ConsumedFacts
<1>5. /\ fu \in FileRec /\ fu.size = Unknown /\ fu.compressor = f.compressor /\ fu.slots = f.slots
      /\ fu.dontcompress = f.dontcompress /\ fu.type = f.type /\ fu.cache = f.cache
      /\ fz \in FileRec /\ fz.size = Unknown /\ fz.cache = f.cache
  <2>1. u \in -1 .. MaxLen /\ u = Unknown /\ z \in 0 .. MaxLen + 1
    BY PageNat DEF Unknown
  <2> HIDE DEF u, z, f
  <2> QED
    BY <1>4, <2>1 DEF FileRec
<1>6. CachedOf(fu) = CachedOf(f) /\ CachedOf(fz) = CachedOf(f)
  <2> HIDE DEF fu, fz, f
  <2> QED
    BY <1>5 DEF CachedOf
<1>7. Data \in Seq(Byte) /\ Len(Data) \in Length
  BY Contents DEF IInv
<1>8. ~stale => got = Slice(Data, off, n)
  <2> SUFFICES ASSUME ~stale PROVE got = Slice(Data, off, n)
    OBVIOUS
  <2>1. PagesFrom(p, k) = Slice(Data, off, k * Page) /\ off + k * Page <= Len(Data)
    BY <1>1, ServedPages
  <2> DEFINE x == k * Page
             y == n - x
  <2>2. y \in Nat /\ x \in Nat /\ x + y = n /\ off \in Nat /\ off + x <= Len(Data)
    <3> HIDE DEF off, n
    <3>1. x < n /\ x \in Nat /\ n \in Nat /\ off \in Nat
      BY <1>1, <1>2
    <3> HIDE DEF x
    <3> QED
      BY <2>1, <3>1 DEF x
  <2>3. Slice(Data, off, x) \o Slice(Data, off + x, y) = Slice(Data, off, x + y)
    BY <1>7, <2>2, DataParts
  <2> QED
    BY <2>1, <2>2, <2>3
<1> HIDE DEF f, fu, fz, got
<1>9. CASE Decompress(fz, used - k) /\ back' = Backing(FALSE, Data) /\ Reply(got, off, n)
  <2>1. /\ file' \in FileRec /\ file'.compressor = FALSE /\ file'.size = Unknown
        /\ desc' \in [Desc -> DescRec]
        /\ \A e \in Desc : /\ desc'[e].handle = "none" /\ desc'[e].offset = 0 /\ desc'[e].buf = <<>>
                           /\ ~desc'[e].open => desc'[e] = Closed
        /\ used' \in 0 .. CacheMax /\ stale' = FALSE /\ failed' = failed
        /\ Cache' /\ CacheFaithful' /\ CacheAccounted'
    <3> DEFINE v == used - k
    <3>1. v \in 0 .. CacheMax /\ Decompress(fz, v) /\ Cardinality(CachedOf(fz)) <= v
          /\ (failed \/ v = Cardinality(CachedOf(fz))) /\ fz \in FileRec
      BY <1>4, <1>5, <1>6, <1>9
    <3> HIDE DEF v
    <3> QED
      BY <1>5, <3>1, DecompressFacts
  <2>2. reply' \in {"right", "stale", "error"}
    <3> HIDE DEF off, n
    <3> QED
      BY <1>8, <1>9, ReplyFacts
  <2>3. stale' \in BOOLEAN /\ failed' \in BOOLEAN
    BY <2>1 DEF IInv, Types
  <2>4. IInv'
    BY <1>3, <1>7, <1>9, <2>1, <2>2, <2>3, PlainInv
  <2>5. Data' = Data
    <3>1. back'.data = Data
      BY <1>9, <1>7, BackingType
    <3>2. Writers' = {}
      BY <2>1, NoStreams
    <3> QED
      BY <3>1, <3>2, NextContents
  <2>6. Answered
    <3>1. off \in Nat /\ n \in Nat
      BY <1>1
    <3> HIDE DEF off, n
    <3> QED
      BY <1>7, <1>8, <1>9, <3>1, AnsweredFacts
  <2> QED
    BY <2>4, <2>5, <2>6
<1>10. CASE /\ NoSpace /\ file' = fu /\ used' = used - k /\ Reply(Null, off, n) /\ failed' = TRUE
            /\ UNCHANGED <<back, desc, stale>>
  <2>1. Data' = Data /\ Writers' = Writers
    BY <1>10, DataStays
  <2>2. Cached' = CachedOf(file') /\ Cached' = Cached \ (p .. p + k - 1)
    BY <1>4, <1>6, <1>10 DEF Cached, CachedOf
  <2>3. reply' \in {"right", "stale", "error"} /\ ReadsFaithful'
    <3> HIDE DEF off, n
    <3> QED
      BY <1>10, ReplyFacts
  <2>4. Types'
    <3>1. stale' \in BOOLEAN /\ failed' \in BOOLEAN /\ fault' \in BOOLEAN /\ back' \in BackRec
          /\ desc' \in [Desc -> DescRec] /\ reply' \in {"none", "right", "wrong", "stale", "error"}
      BY <1>3, <1>10, <2>3 DEF IInv, Types
    <3>2. file' \in FileRec /\ used' \in 0 .. CacheMax
      BY <1>4, <1>5, <1>10
    <3> QED
      BY <3>1, <3>2 DEF Types
  <2>5. Streams'
    <3>1. file'.compressor = file.compressor /\ (file.type = "read" => file'.type = "read")
      BY <1>4, <1>5, <1>10
    <3> QED
      BY <1>10, <2>1, <3>1 DEF IInv, Streams, StreamOK
  <2>6. OneWriter'
    <3>1. file.type = "write" => file'.type = "write"
      BY <1>4, <1>5, <1>10
    <3> QED
      BY <1>10, <2>1, <3>1 DEF IInv, OneWriter
  <2>7. Header'
    <3>1. file.compressor = back.img
      BY NewFileType DEF IInv, Header
    <3>2. file'.compressor = file.compressor /\ file'.size = Unknown
      BY <1>4, <1>5, <1>10
    <3> QED
      BY <1>10, <2>1, <3>1, <3>2 DEF IInv, Header
  <2>8. Cache'
    <3>1. Cardinality(Cached') <= used'
      BY <1>4, <1>6, <1>10, <2>2
    <3>2. file'.slots = file.slots /\ file'.compressor = file.compressor
      BY <1>4, <1>5, <1>10
    <3> QED
      BY <1>10, <2>1, <2>2, <3>1, <3>2 DEF IInv, Cache
  <2>9. CacheFaithful'
    <3>1. /\ \A q \in Cached' : q \in Cached /\ file'.cache[q] = file.cache[q]
          /\ file'.slots = file.slots /\ file'.compressor = file.compressor
      BY <1>4, <1>5, <1>6, <1>10, <2>2
    <3> QED
      BY <1>10, <2>1, <3>1 DEF IInv, CacheFaithful
  <2>10. CacheAccounted'
    BY <1>10 DEF CacheAccounted
  <2>11. IInv'
    BY <1>3, <2>1, <2>3, <2>4, <2>5, <2>6, <2>7, <2>8, <2>9, <2>10 DEF IInv
  <2>12. Answered
    BY <1>10 DEF Answered
  <2> QED
    BY <2>1, <2>11, <2>12
<1> QED
  BY <1>2, <1>9, <1>10

-----------------------------------------------------------------------------
(* Reading from the stream *)

\* After a step that moves the reading stream of d to r and may fill the cache.
LEMMA StreamedInv ==
    ASSUME IInv, file.compressor, Writers = {}, NEW d \in Desc, NEW r \in DescRec,
           r.open, r.handle = "read", r.buf = <<>>, StreamOK(r, Len(Data)), desc' = [desc EXCEPT ![d] = r],
           file' \in FileRec, file'.compressor = file.compressor, file'.type = "read",
           file'.size = file.size \/ (file'.size = Unknown /\ failed),
           used' \in 0 .. CacheMax, Cardinality(Cached') <= used', failed \/ used' = Cardinality(Cached'),
           file'.slots = 0 => Cached' = {},
           ~stale' /\ file'.slots > 0 => file'.slots = Len(Data) \div Page + 1,
           ~stale' => \A q \in Cached' : /\ q < file'.slots /\ file'.cache[q] = Slice(Data, q * Page, Page)
                                         /\ Len(file'.cache[q]) = Page,
           fault' = FALSE, stale' \in BOOLEAN, reply' \in {"right", "stale", "error"},
           UNCHANGED <<back, failed>>, \A e \in Desc : desc[e].handle = "read" => file.type = "read"
    PROVE  IInv' /\ Data' = Data
<1>1. desc' \in [Desc -> DescRec] /\ desc'[d] = r /\ \A e \in Desc \ {d} : desc'[e] = desc[e]
  BY DEF IInv, Types
<1>2. \A e \in Desc : desc[e].handle # "write" /\ desc'[e].handle # "write"
  BY <1>1 DEF Writers
<1>3. Writers' = Writers /\ Data' = Data
  BY <1>2, DataStays DEF Writers
<1>4. Types'
  BY <1>1 DEF IInv, Types
<1>5. Streams'
  <2> SUFFICES ASSUME NEW e \in Desc
               PROVE  /\ ~desc'[e].open => desc'[e] = Closed
                      /\ desc'[e].handle = "none" => desc'[e].offset = 0
                      /\ desc'[e].handle # "write" => desc'[e].buf = <<>>
                      /\ desc'[e].handle # "none" => file'.compressor
                      /\ desc'[e].handle = "read" => file'.type = "read" /\ StreamOK(desc[e], Len(Data))'
    BY DEF Streams
  <2>1. CASE e = d
    BY <1>1, <1>3, <2>1 DEF StreamOK
  <2>2. CASE e # d
    BY <1>1, <1>3, <2>2 DEF IInv, Streams, StreamOK
  <2> QED
    BY <2>1, <2>2
<1>6. OneWriter'
  BY <1>3 DEF OneWriter
<1>7. Header'
  <2>1. file.compressor = back.img
    BY NewFileType DEF IInv, Header
  <2> QED
    BY <1>3, <2>1 DEF IInv, Header
<1>8. Cache'
  BY <1>3 DEF Cache
<1>9. CacheFaithful'
  BY <1>3 DEF CacheFaithful
<1>10. CacheAccounted' /\ NoFault' /\ ReadsFaithful'
  BY DEF CacheAccounted, NoFault, ReadsFaithful
<1> QED
  BY <1>3, <1>4, <1>5, <1>6, <1>7, <1>8, <1>9, <1>10 DEF IInv

(* A stream that is to read at the page a, set back if it is beyond.        *)
LEMMA RewoundFacts ==
    ASSUME IInv, NEW d \in Desc, desc[d].open, file.compressor, file.type # "write",
           NEW a \in Nat, a * Page < Len(Data)
    PROVE  /\ Writers = {} /\ Data = back.data
           /\ StreamAssertion(d, a * Page)
           /\ LET s == Rewound(d, a * Page)
                  q == s.offset \div Page
              IN  /\ s \in DescRec /\ s.open /\ s.handle = "read" /\ s.buf = <<>> /\ StreamOK(s, Len(Data))
                  /\ s.offset = q * Page /\ q \in Nat /\ q <= a /\ a * Page = s.offset + (a - q) * Page
                  /\ (a * Page - s.offset) \div Page = a - q
<1>1. Len(Data) \in Nat /\ a * Page \in Nat
  BY Contents, PageTimes DEF IInv
<1>2. Writers = {} /\ Data = back.data
  <2>1. Writers = {}
    BY DEF IInv, OneWriter
  <2> QED
    BY <2>1, Contents DEF IInv
<1>3. desc[d] \in DescRec /\ desc[d].handle \in {"none", "read"} /\ desc[d].offset \in Nat
  <2>1. desc[d] \in DescRec /\ desc[d].handle \in {"none", "read", "write"} /\ desc[d].offset \in Length
    BY TypesFacts DEF IInv
  <2>2. desc[d].handle # "write"
    BY <1>2 DEF Writers
  <2> QED
    BY <2>1, <2>2, PageNat DEF Length
<1>4. /\ desc[d].handle = "none" => desc[d].offset = 0
      /\ desc[d].buf = <<>>
      /\ desc[d].handle = "read" => StreamOK(desc[d], Len(Data))
  BY <1>3 DEF IInv, Streams
<1>5. StreamAssertion(d, a * Page)
  BY <1>1, <1>3, <1>4 DEF StreamAssertion
<1> DEFINE s == Rewound(d, a * Page)
<1>6. s \in DescRec /\ s.open /\ s.handle = "read" /\ s.buf = <<>> /\ StreamOK(s, Len(Data)) /\ s.offset <= a * Page
  <2>1. CASE a * Page < desc[d].offset \/ desc[d].handle = "none"
    <3>1. s = [desc[d] EXCEPT !.offset = 0, !.pos = 0, !.handle = "read"]
      BY <2>1 DEF Rewound
    <3>2. 0 \in Length /\ 0 % Page = 0
      BY PageNat DEF Length
    <3> HIDE DEF s
    <3>3. s \in DescRec /\ s.offset = 0 /\ s.pos = 0 /\ s.handle = "read" /\ s.open = desc[d].open /\ s.buf = desc[d].buf
      BY <1>3, <3>1, <3>2 DEF DescRec
    <3> QED
      BY <1>1, <1>4, <3>2, <3>3 DEF StreamOK
  <2>2. CASE ~(a * Page < desc[d].offset \/ desc[d].handle = "none")
    <3>1. s = desc[d]
      BY <2>2 DEF Rewound
    <3>2. desc[d].handle = "read" /\ desc[d].offset <= a * Page
      BY <1>1, <1>3, <2>2
    <3> QED
      BY <1>3, <1>4, <3>1, <3>2
  <2> QED
    BY <2>1, <2>2
<1> HIDE DEF s
<1> DEFINE o == s.offset
           q == o \div Page
<1>7. o \in Nat /\ (o % Page = 0 \/ o = Len(Data)) /\ o <= a * Page
  BY <1>6, PageNat DEF DescRec, Length, StreamOK
<1> HIDE DEF o
<1>8. o % Page = 0
  BY <1>1, <1>7
<1>9. q \in Nat /\ o = q * Page
  BY <1>7, <1>8, Paged
<1> HIDE DEF q
<1>10. q <= a
  BY <1>7, <1>9, PageLess
<1>11. a - q \in Nat /\ q + (a - q) = a
  BY <1>9, <1>10
<1>12. a * Page = q * Page + (a - q) * Page
  <2> DEFINE c == a - q
  <2>1. c \in Nat /\ q + c = a
    BY <1>11
  <2> HIDE DEF c
  <2>2. (q + c) * Page = q * Page + c * Page
    BY <1>9, <2>1, PagePlus
  <2> QED
    BY <2>1, <2>2 DEF c
<1>13. (a * Page - o) \div Page = a - q
  <2> DEFINE c == a - q
             x == q * Page
             y == c * Page
  <2>1. y \in Nat /\ y \div Page = c /\ x \in Nat /\ a * Page = x + y /\ o = x
    BY <1>9, <1>11, <1>12, PageTimes
  <2> DEFINE z == a * Page
  <2> HIDE DEF y, x, z
  <2>2. z - o = y
    BY <2>1 DEF z
  <2> QED
    BY <2>1, <2>2 DEF z
<1> QED
  BY <1>2, <1>5, <1>6, <1>9, <1>10, <1>12, <1>13 DEF s, o, q

LEMMA Shifted ==
    ASSUME NEW c \in Nat, NEW T \in SUBSET (0 .. c - 1), NEW q \in Nat
    PROVE  LET S == {q + j : j \in T}
           IN  /\ IsFiniteSet(T) /\ Cardinality(T) \in Nat /\ Cardinality(T) <= c
               /\ IsFiniteSet(S) /\ Cardinality(S) = Cardinality(T)
<1> DEFINE S == {q + j : j \in T}
           h == [j \in T |-> q + j]
<1>1. IsFiniteSet(0 .. c - 1) /\ Cardinality(0 .. c - 1) = c
  <2>1. 0 \in Int /\ c - 1 \in Int
    OBVIOUS
  <2>2. IsFiniteSet(0 .. c - 1) /\ Cardinality(0 .. c - 1) = IF 0 > c - 1 THEN 0 ELSE (c - 1) - 0 + 1
    BY <2>1, FS_Interval
  <2> QED
    BY <2>2
<1>2. IsFiniteSet(T) /\ Cardinality(T) <= c
  BY <1>1, FS_Subset
<1>3. h \in Bijection(T, S)
  <2>1. \A i, j \in T : q + i = q + j => i = j
    OBVIOUS
  <2>2. h \in [T -> S]
    OBVIOUS
  <2>3. h \in Injection(T, S)
    BY <2>1, <2>2 DEF Injection, IsInjective
  <2>4. h \in Surjection(T, S)
    BY <2>2 DEF Surjection
  <2> QED
    BY <2>3, <2>4 DEF Bijection
<1>4. ExistsBijection(T, S)
  BY <1>3 DEF ExistsBijection
<1>5. IsFiniteSet(S) /\ Cardinality(S) = Cardinality(T)
  BY <1>2, <1>4, FS_Bijection
<1> QED
  BY <1>2, <1>5, FS_CardinalityType

(* Skipping works page by page; a stream that stands at the end of the file *)
(* though its descriptor does not say so gets nowhere.                      *)
Done(s, c, l) == {j \in 0 .. c - 1 : s.pos + (j + 1) * Page <= l}

LEMMA DoneFacts ==
    ASSUME NEW s \in DescRec, NEW l \in Length, StreamOK(s, l), NEW q \in Nat, NEW c \in Nat,
           s.offset = q * Page, (q + c) * Page < l
    PROVE  LET done == Done(s, c, l)
           IN  /\ Cardinality(done) \in Nat /\ Cardinality(0 .. c - 1) = c /\ done \subseteq 0 .. c - 1
               /\ s.pos = s.offset => done = 0 .. c - 1 /\ s.pos + Page * Cardinality(done) = (q + c) * Page
               /\ s.pos # s.offset => done = {} /\ Cardinality(done) = 0 /\ s.pos = l /\ failed
<1> DEFINE done == {j \in 0 .. c - 1 : s.pos + (j + 1) * Page <= l}
<1>0. done = Done(s, c, l) /\ done \subseteq 0 .. c - 1
  BY DEF Done
<1>1. Cardinality(done) \in Nat
  BY Shifted
<1>2. Cardinality(0 .. c - 1) = c
  <2>1. 0 \in Int /\ c - 1 \in Int
    OBVIOUS
  <2>2. Cardinality(0 .. c - 1) = IF 0 > c - 1 THEN 0 ELSE (c - 1) - 0 + 1
    BY <2>1, FS_Interval
  <2> QED
    BY <2>2
<1>3. l \in Nat /\ Page \in Nat \ {0}
  BY PageNat DEF Length
<1>4. ASSUME s.pos = s.offset
      PROVE  done = 0 .. c - 1 /\ s.pos + Page * Cardinality(done) = (q + c) * Page
  <2>1. ASSUME NEW j \in 0 .. c - 1 PROVE s.pos + (j + 1) * Page <= l
    <3>1. q * Page + (j + 1) * Page = (q + (j + 1)) * Page
      BY PagePlus
    <3>2. q + (j + 1) \in Nat /\ q + (j + 1) <= q + c /\ q + c \in Nat
      OBVIOUS
    <3>3. (q + (j + 1)) * Page <= (q + c) * Page
      BY <3>2, PageLess
    <3>4. (q + (j + 1)) * Page \in Nat /\ (q + c) * Page \in Nat
      BY <3>2, PageTimes
    <3> DEFINE x == (q + (j + 1)) * Page
               y == (q + c) * Page
    <3>5. x \in Nat /\ y \in Nat /\ x <= y /\ y < l
      BY <3>3, <3>4
    <3> HIDE DEF x, y
    <3>6. x <= l
      BY <1>3, <3>5
    <3> QED
      BY <1>4, <3>1, <3>6 DEF x
  <2>2. done = 0 .. c - 1
    BY <2>1
  <2>3. Cardinality(done) = c
    BY <1>2, <2>2
  <2> HIDE DEF done
  <2>4. Page * c = c * Page
    BY <1>3
  <2>5. (q + c) * Page = q * Page + c * Page
    BY PagePlus
  <2> QED
    BY <1>4, <2>2, <2>3, <2>4, <2>5
<1>5. ASSUME s.pos # s.offset
      PROVE  done = {} /\ Cardinality(done) = 0 /\ s.pos = l /\ failed
  <2>1. s.pos = l /\ failed
    BY <1>5 DEF StreamOK
  <2>2. ASSUME NEW j \in 0 .. c - 1 PROVE ~(s.pos + (j + 1) * Page <= l)
    <3>1. j \in Nat /\ j * Page \in Nat /\ (j + 1) * Page = j * Page + Page
      BY PageTimes
    <3> DEFINE x == j * Page
               y == (j + 1) * Page
    <3>2. x \in Nat /\ y = x + Page
      BY <3>1
    <3> HIDE DEF x, y
    <3>3. ~(l + y <= l)
      BY <1>3, <3>2
    <3> QED
      BY <2>1, <3>3 DEF y
  <2>3. done = {}
    BY <2>2
  <2> QED
    BY <2>1, <2>3, EmptyFacts
<1> HIDE DEF done
<1> QED
  BY <1>0, <1>1, <1>2, <1>4, <1>5

(* The pages that are kept go where there were none.                        *)
Fills(h, f, q, kept) ==
    /\ h.cache = [x \in Slot |-> h.cache[x]]
    /\ \A j \in kept : f.cache[q + j] = Null /\ (q + j \in Slot => h.cache[q + j] \in Seq(Byte))
    /\ \A x \in Slot : (\A j \in kept : q + j # x) => h.cache[x] = f.cache[x]

LEMMA KeptFacts ==
    ASSUME NEW f \in FileRec, NEW q \in Nat, NEW c \in Nat, NEW l \in Length, (q + c) * Page < l,
           NEW kept \in SUBSET (0 .. c - 1), NEW h, Fills(h, f, q, kept)
    PROVE  /\ h.cache \in [Slot -> Seq(Byte) \cup {Null}]
           /\ \A x \in CachedOf(h) : (x \in CachedOf(f) /\ h.cache[x] = f.cache[x]) \/ \E j \in kept : q + j = x
           /\ Cardinality(CachedOf(h)) = Cardinality(CachedOf(f)) + Cardinality(kept)
           /\ Cardinality(kept) \in Nat /\ Cardinality(kept) <= c
           /\ \A j \in 0 .. c - 1 : q + j \in Slot /\ q + j <= l \div Page
<1>0. /\ h.cache = [x \in Slot |-> h.cache[x]]
      /\ \A j \in kept : f.cache[q + j] = Null /\ (q + j \in Slot => h.cache[q + j] \in Seq(Byte))
      /\ \A x \in Slot : (\A j \in kept : q + j # x) => h.cache[x] = f.cache[x]
  BY Zenon DEF Fills
<1> DEFINE P == CachedOf(h)
           S == {q + j : j \in kept}
           pages == h.cache
<1>1. ASSUME NEW j \in 0 .. c - 1 PROVE q + j \in Slot /\ q + j <= l \div Page
  <2>1. q + j \in Nat /\ q + c \in Nat /\ q + j <= q + c
    OBVIOUS
  <2>2. (q + j) * Page <= (q + c) * Page /\ (q + j) * Page \in Nat /\ (q + c) * Page \in Nat
    BY <2>1, PageLess, PageTimes
  <2>3. (q + j) * Page <= l
    <3> DEFINE x == (q + j) * Page
               y == (q + c) * Page
    <3>1. x \in Nat /\ y \in Nat /\ x <= y /\ y < l /\ l \in Nat
      BY <2>2, PageNat DEF Length
    <3> HIDE DEF x, y
    <3>2. x <= l
      BY <3>1
    <3> QED
      BY <3>2 DEF x
  <2> QED
    BY <2>1, <2>3, SlotOfPage
<1>2. /\ IsFiniteSet(kept) /\ Cardinality(kept) \in Nat /\ Cardinality(kept) <= c
      /\ IsFiniteSet(S) /\ Cardinality(S) = Cardinality(kept)
  BY Shifted
<1>3. S \subseteq Slot
  BY <1>1
<1>4. \A x \in Slot : f.cache[x] \in Seq(Byte) \cup {Null}
  BY DEF FileRec
<1>5. \A x \in Slot : x \in S => pages[x] \in Seq(Byte) /\ pages[x] # Null /\ f.cache[x] = Null
  <2> SUFFICES ASSUME NEW x \in Slot, x \in S PROVE pages[x] \in Seq(Byte) /\ pages[x] # Null /\ f.cache[x] = Null
    OBVIOUS
  <2>1. PICK j \in kept : q + j = x
    OBVIOUS
  <2> QED
    BY <1>0, <2>1, NullAssumption
<1>6. \A x \in Slot : x \notin S => pages[x] = f.cache[x]
  BY <1>0
<1>7. \A x \in S : \E j \in kept : q + j = x
  OBVIOUS
<1>8. pages = [x \in Slot |-> pages[x]]
  BY <1>0
<1> HIDE DEF S
<1>9. pages \in [Slot -> Seq(Byte) \cup {Null}]
  <2> HIDE DEF pages
  <2>1. \A x \in Slot : pages[x] \in Seq(Byte) \cup {Null}
    BY <1>4, <1>5, <1>6
  <2> QED
    BY <1>8, <2>1
<1>10. P = CachedOf(f) \cup S /\ CachedOf(f) \cap S = {}
  BY <1>3, <1>5, <1>6 DEF CachedOf
<1>11. \A x \in P : (x \in CachedOf(f) /\ pages[x] = f.cache[x]) \/ \E j \in kept : q + j = x
  <2> SUFFICES ASSUME NEW x \in P
               PROVE  (x \in CachedOf(f) /\ pages[x] = f.cache[x]) \/ \E j \in kept : q + j = x
    OBVIOUS
  <2>1. CASE x \in S
    BY <1>7, <2>1
  <2>2. CASE x \notin S
    BY <1>6, <1>10, <2>2 DEF CachedOf
  <2> QED
    BY <2>1, <2>2
<1>12. Cardinality(P) = Cardinality(CachedOf(f)) + Cardinality(kept)
  <2>1. IsFiniteSet(CachedOf(f)) /\ Cardinality(CachedOf(f)) \in Nat
    BY CachedType
  <2>2. Cardinality(CachedOf(f) \cup S) = Cardinality(CachedOf(f)) + Cardinality(S) - Cardinality(CachedOf(f) \cap S)
    BY <1>2, <2>1, FS_Union
  <2>3. Cardinality(CachedOf(f) \cap S) = 0
    BY <1>10, EmptyFacts
  <2>4. Cardinality(P) = Cardinality(CachedOf(f) \cup S)
    BY <1>10
  <2> DEFINE x == Cardinality(CachedOf(f))
             y == Cardinality(kept)
             z == Cardinality(P)
  <2>5. x \in Nat /\ y \in Nat /\ z = x + y - 0
    BY <1>2, <2>1, <2>2, <2>3, <2>4
  <2> HIDE DEF x, y, z
  <2>6. z = x + y
    BY <2>5
  <2> QED
    BY <2>6 DEF x, y, z
<1> QED
  BY <1>1, <1>2, <1>9, <1>11, <1>12

(* What is read from the stream: all there is, if the length is known.      *)
LEMMA GotFacts ==
    ASSUME IInv, file.compressor, NEW x \in Nat, x < Len(Data), NEW y \in Nat, x < y, NEW size, NEW at,
           size = IF file.size # Unknown /\ y > file.size THEN file.size - x ELSE y - x
    PROVE  /\ size \in Nat /\ size > 0
           /\ at = x => /\ Len(Slice(Data, at, size)) = size =>
                              /\ x + size <= Len(Data)
                              /\ x + size = y \/ (x + size = Len(Data) /\ y >= Len(Data))
                        /\ file.size # Unknown => Len(Slice(Data, at, size)) = size
           /\ at = Len(Data) => Len(Slice(Data, at, size)) # size
           /\ at \in Nat => Slice(Data, at, size) \in Seq(Byte)
<1> DEFINE l == Len(Data)
<1>1. Data \in Seq(Byte) /\ l \in Nat
  BY Contents DEF IInv
<1>2. file.size # Unknown => file.size = l
  BY DEF IInv, Header
<1>3. size \in Nat /\ size > 0 /\ (file.size # Unknown => x + size <= l)
      /\ (x + size = y \/ (x + size = l /\ y >= l))
  <2> HIDE DEF l
  <2>1. x < l
    BY DEF l
  <2>2. CASE file.size # Unknown /\ y > file.size
    BY <1>1, <1>2, <2>1, <2>2
  <2>3. CASE file.size # Unknown /\ ~(y > file.size)
    BY <1>1, <1>2, <2>1, <2>3
  <2>4. CASE ~(file.size # Unknown)
    BY <1>1, <2>1, <2>4
  <2> QED
    BY <2>2, <2>3, <2>4
<1>4. ASSUME at \in Nat
      PROVE  /\ Slice(Data, at, size) \in Seq(Byte)
             /\ Len(Slice(Data, at, size)) = IF at + size < Len(Data) THEN size ELSE IF at <= Len(Data) THEN Len(Data) - at ELSE 0
  <2> DEFINE t == Data
  <2>1. t \in Seq(Byte) /\ size \in Nat
    BY <1>1, <1>3
  <2> HIDE DEF t
  <2>2. /\ Slice(t, at, size) \in Seq(Byte)
        /\ Len(Slice(t, at, size)) = IF at + size < Len(t) THEN size ELSE IF at <= Len(t) THEN Len(t) - at ELSE 0
    BY <1>4, <2>1, SliceType
  <2> QED
    BY <2>2 DEF t
<1> DEFINE n == Len(Slice(Data, at, size))
<1>5. ASSUME at = x PROVE (n = size => x + size <= l) /\ (file.size # Unknown => n = size)
  <2>1. n = IF x + size < l THEN size ELSE IF x <= l THEN l - x ELSE 0
    BY <1>4, <1>5
  <2>2. x < l
    OBVIOUS
  <2> HIDE DEF n, l
  <2> QED
    BY <1>1, <1>3, <2>1, <2>2
<1>6. ASSUME at = l PROVE n # size
  <2>1. n = IF at + size < l THEN size ELSE IF at <= l THEN l - at ELSE 0
    BY <1>1, <1>4, <1>6
  <2> HIDE DEF n, l
  <2> QED
    BY <1>1, <1>3, <1>6, <2>1
<1> HIDE DEF n, l
<1> QED
  BY <1>3, <1>4, <1>5, <1>6 DEF n, l

\* It does not matter how much is asked for beyond the end.
LEMMA SliceEnd ==
    ASSUME NEW s, Len(s) \in Nat, NEW off \in Nat, NEW a \in Nat, NEW b \in Nat, off + a >= Len(s), off + b >= Len(s)
    PROVE  Slice(s, off, a) = Slice(s, off, b)
<1> DEFINE l == Len(s)
<1>1. (IF off + a < l THEN off + a ELSE l) = l /\ (IF off + b < l THEN off + b ELSE l) = l
  <2> l \in Nat /\ off + a >= l /\ off + b >= l
    OBVIOUS
  <2> HIDE DEF l
  <2> QED
    OBVIOUS
<1> QED
  BY <1>1 DEF Slice

(* direct_decompress() serves pages, skips and reads.                       *)
LEMMA ReadStreamInv ==
    ASSUME IInv, NEW d \in Desc, desc[d].open, NEW p \in Nat, NEW m \in Nat, Request(p * Page, m * Page),
           file.compressor, NEW k \in 0 .. m, \A j \in 0 .. k - 1 : p + j \in Cached,
           ReadStream(d, p * Page, m * Page, k)
    PROVE  IInv' /\ Data' = Data /\ Answered
<1> k \in Nat
  OBVIOUS
<1> DEFINE off == p * Page
           n == m * Page
           rest == off + k * Page
           f == Consumed(off, k)
           s == Rewound(d, rest)
           v == used - k
           caches == CachesSkip(s, rest, v)
           small == caches /\ f.slots = 0 /\ f.size = Unknown
           q == s.offset \div Page
           skips == 0 .. (rest - s.offset) \div Page - 1
           done == {j \in skips : s.pos + (j + 1) * Page <= Len(back.data)}
           keeps == {j \in skips : caches /\ f.cache[SlotOf(s, j)] = Null}
           kept == done \cap keeps
           pages == [x \in Slot |-> IF \E j \in kept : SlotOf(s, j) = x
                                    THEN Slice(back.data, s.pos + (x - q) * Page, Page)
                                    ELSE f.cache[x]]
           skipped == f.skipped + Page * Cardinality(done \ kept)
           at == s.pos + Page * Cardinality(done)
           size == IF f.size # Unknown /\ off + n > f.size THEN f.size - rest ELSE off + n - rest
           got == Slice(back.data, at, size)
           sl == IF caches THEN SlotsFor(f) ELSE f.slots
           sk == IF skipped > MaxLen THEN MaxLen + 1 ELSE skipped
           g == [f EXCEPT !.cache = pages, !.slots = sl, !.skipped = sk]
           u == Unknown
           ge == [g EXCEPT !.size = u]
           r1 == [s EXCEPT !.offset = rest + size, !.pos = at + size]
           r2 == [s EXCEPT !.offset = s.offset + Page * Cardinality(done), !.pos = Len(back.data)]
<1>1. /\ f \in FileRec /\ f.compressor = file.compressor /\ f.size = file.size /\ f.slots = file.slots
      /\ f.dontcompress = file.dontcompress
      /\ f.type = (IF file.type = "none" THEN "read" ELSE file.type)
      /\ CachedOf(f) = Cached \ (p .. p + k - 1)
      /\ \A x \in CachedOf(f) : f.cache[x] = file.cache[x]
      /\ k <= used /\ v \in 0 .. CacheMax /\ Cardinality(CachedOf(f)) <= v
      /\ failed \/ v = Cardinality(CachedOf(f))
  BY ConsumedFacts
<1>2. off \div Page = p
  BY RequestFacts
<1>3. g = [f EXCEPT !.cache = pages, !.slots = IF caches THEN SlotsFor(f) ELSE @, !.skipped = sk]
  <2> HIDE DEF f, pages, caches, sk
  <2>1. f \in FileRec
    BY <1>1
  <2> QED
    BY <2>1 DEF FileRec
<1>4. /\ k * Page < n /\ ~Fallback(d, rest, v)
      /\ Records(\/ LooksBeyond(off, n, k) \/ ~StreamAssertion(d, rest)
                 \/ \E j \in skips : caches /\ ~small /\ SlotOf(s, j) >= g.slots)
      /\ stale' = (stale \/ small)
      /\ IF done = skips /\ Len(got) = size
         THEN /\ desc' = [desc EXCEPT ![d] = r1]
              /\ file' = g
              /\ used' = v + Cardinality(kept)
              /\ Reply(PagesFrom(off \div Page, k) \o got, off, n)
         ELSE /\ desc' = [desc EXCEPT ![d] = r2]
              /\ file' = ge
              /\ used' = v + Cardinality(kept) + Cardinality({Cardinality(done)} \cap keeps)
              /\ Reply(Null, off, n)
      /\ UNCHANGED <<back, failed>>
  <2>1. ReadStream(d, off, n, k)
    OBVIOUS
  <2> DEFINE h == [f EXCEPT !.cache = pages, !.slots = IF caches THEN SlotsFor(f) ELSE @, !.skipped = sk]
  <2>2. /\ k * Page < n /\ ~Fallback(d, rest, v)
        /\ Records(\/ LooksBeyond(off, n, k) \/ ~StreamAssertion(d, rest)
                   \/ \E j \in skips : caches /\ ~small /\ SlotOf(s, j) >= h.slots)
        /\ stale' = (stale \/ small)
        /\ IF done = skips /\ Len(got) = size
           THEN /\ desc' = [desc EXCEPT ![d] = r1]
                /\ file' = h
                /\ used' = v + Cardinality(kept)
                /\ Reply(PagesFrom(off \div Page, k) \o got, off, n)
           ELSE /\ desc' = [desc EXCEPT ![d] = r2]
                /\ file' = [h EXCEPT !.size = u]
                /\ used' = v + Cardinality(kept) + Cardinality({Cardinality(done)} \cap keeps)
                /\ Reply(Null, off, n)
        /\ UNCHANGED <<back, failed>>
    BY <2>1, Zenon DEF ReadStream
  <2>3. g = h
    BY <1>3, Zenon
  <2> HIDE DEF g, h, f, s, caches, small, skips, done, keeps, kept, got, size, off, n, rest, v, r1, r2, u
  <2> QED
    BY <2>2, <2>3, Zenon
<1> DEFINE a == p + k
           c == a - q
           l == Len(Data)
           end == off + n
<1>5. /\ off \in Nat /\ n \in Nat /\ off < l /\ off <= l /\ end \in Nat /\ end % Page = 0 /\ l \in Nat /\ l \in Length
      /\ a \in Nat /\ rest \in Nat /\ rest = a * Page /\ rest < l /\ rest < end
  <2>1. /\ off \in Nat /\ n \in Nat /\ off < l /\ k * Page \in Nat /\ (k * Page < n <=> k < m)
        /\ off + k * Page = a * Page /\ (k < m => a * Page < l) /\ l \in Nat /\ l \in Length
    BY RequestFacts, Contents DEF IInv
  <2>2. k * Page < n
    BY <1>4, Zenon
  <2>3. end = (p + m) * Page
    BY PagePlus
  <2>4. end % Page = 0
    <3> DEFINE b == p + m
    <3>1. b \in Nat
      OBVIOUS
    <3> HIDE DEF b
    <3>2. (b * Page) % Page = 0
      BY <3>1, PageTimes
    <3> QED
      BY <2>3, <3>2 DEF b
  <2> DEFINE x == k * Page
  <2> HIDE DEF off, n, l, x
  <2> QED
    BY <2>1, <2>2, <2>4 DEF x
<1>6. file.type # "write" /\ f.type = "read" /\ \A e \in Desc : desc[e].handle = "read" => file.type = "read"
  <2>1. file.type # "write"
    BY <1>4 DEF Fallback
  <2>2. file.type \in {"none", "read", "write"}
    BY DEF IInv, Types, FileRec
  <2> QED
    BY <1>1, <2>1, <2>2 DEF IInv, Streams
<1>7. /\ Writers = {} /\ Data = back.data /\ StreamAssertion(d, rest)
      /\ s \in DescRec /\ s.open /\ s.handle = "read" /\ s.buf = <<>> /\ StreamOK(s, l)
      /\ s.offset = q * Page /\ q \in Nat /\ q <= a /\ rest = s.offset + c * Page
      /\ (rest - s.offset) \div Page = c
  <2> DEFINE t == Rewound(d, a * Page)
             z == t.offset \div Page
  <2>1. /\ Writers = {} /\ Data = back.data /\ StreamAssertion(d, a * Page)
        /\ t \in DescRec /\ t.open /\ t.handle = "read" /\ t.buf = <<>> /\ StreamOK(t, l)
        /\ t.offset = z * Page /\ z \in Nat /\ z <= a /\ a * Page = t.offset + (a - z) * Page
        /\ (a * Page - t.offset) \div Page = a - z
    BY <1>5, <1>6, RewoundFacts
  <2>2. rest = a * Page
    BY <1>5
  <2>3. s = t
    <3> HIDE DEF rest
    <3> QED
      BY <2>2
  <2>4. q = z
    BY <2>3
  <2> HIDE DEF t, s, rest, z
  <2> QED
    BY <2>1, <2>2, <2>3, <2>4
<1>8. c \in Nat /\ q + c = a /\ skips = 0 .. c - 1
  <2>1. c \in Nat /\ q + c = a
    <3> HIDE DEF q, a
    <3>1. q \in Nat /\ a \in Nat /\ q <= a
      BY <1>5, <1>7
    <3> QED
      BY <3>1
  <2> HIDE DEF s, rest, q, c
  <2>2. skips = 0 .. c - 1
    BY <1>7
  <2> QED
    BY <2>1, <2>2
<1>9. /\ Cardinality(done) \in Nat /\ Cardinality(0 .. c - 1) = c /\ done \subseteq 0 .. c - 1
      /\ s.pos = s.offset => done = 0 .. c - 1 /\ at = rest
      /\ s.pos # s.offset => done = {} /\ Cardinality(done) = 0 /\ s.pos = l /\ failed
  <2>1. (q + c) * Page < l /\ (q + c) * Page = rest
    <3> HIDE DEF q, c, a, rest
    <3> QED
      BY <1>5, <1>8
  <2>2. done = Done(s, c, l)
    <3> HIDE DEF s, skips, c
    <3>1. skips = 0 .. c - 1 /\ Len(back.data) = l
      BY <1>7, <1>8
    <3> HIDE DEF l
    <3> QED
      BY <3>1 DEF Done
  <2>3. done \subseteq 0 .. c - 1
    <3> HIDE DEF done
    <3> QED
      BY <2>2 DEF Done
  <2>4. /\ Cardinality(done) \in Nat /\ Cardinality(0 .. c - 1) = c
        /\ s.pos = s.offset => done = 0 .. c - 1 /\ s.pos + Page * Cardinality(done) = (q + c) * Page
        /\ s.pos # s.offset => done = {} /\ Cardinality(done) = 0 /\ s.pos = l /\ failed
    <3> HIDE DEF s, q, c, l, done, rest, a
    <3>1. s \in DescRec /\ l \in Length
      BY <1>5, <1>7
    <3>2. StreamOK(s, l)
      BY <1>7
    <3>3. q \in Nat /\ c \in Nat
      BY <1>7, <1>8
    <3>4. s.offset = q * Page /\ (q + c) * Page < l
      BY <1>7, <2>1
    <3> QED
      BY <2>2, <3>1, <3>2, <3>3, <3>4, DoneFacts
  <2> HIDE DEF done, s, c, q, a, rest
  <2> QED
    BY <2>1, <2>3, <2>4
<1>10. /\ kept \subseteq 0 .. c - 1 /\ kept \subseteq done /\ keeps \subseteq 0 .. c - 1
       /\ \A j \in keeps : caches
       /\ \A j \in kept : j \in keeps /\ f.cache[q + j] = Null
  <2>1. \A j : SlotOf(s, j) = q + j
    BY DEF SlotOf
  <2> HIDE DEF f, s, caches, skips, done, q, c
  <2> QED
    BY <1>8, <1>9, <2>1
<1>11. /\ sl \in 0 .. MaxLen \div Page + 1
       /\ caches => sl > 0
       /\ ~stale /\ ~small /\ sl > 0 => sl = l \div Page + 1
       /\ sl = 0 => ~caches /\ file.slots = 0
  <2>1. /\ file.slots \in Nat /\ file.slots \in 0 .. MaxLen \div Page + 1 /\ file.size \in -1 .. MaxLen
        /\ MaxLen \in Nat /\ MaxLen \div Page \in Nat
    BY PageNat DEF IInv, Types, FileRec
  <2>2. file.size # Unknown => file.size = l
    BY DEF IInv, Header
  <2>3. ~stale /\ file.slots > 0 => file.slots = l \div Page + 1
    BY DEF IInv, Cache
  <2>4. l \div Page \in Nat /\ l \div Page <= MaxLen \div Page
    <3>1. l <= MaxLen
      BY <1>5 DEF Length
    <3> QED
      BY <1>5, <2>1, <3>1, Paged, PageMonotone
  <2> DEFINE x == MaxLen \div Page
             y == l \div Page
             z == file.slots
             t == SlotsFor(f)
  <2>5. /\ x \in Nat /\ y \in Nat /\ y <= x /\ z \in Nat /\ z <= x + 1 /\ (~stale /\ z > 0 => z = y + 1)
    BY <2>1, <2>3, <2>4
  <2>6. t = IF z > 0 THEN z ELSE IF file.size = Unknown THEN 1 ELSE y + 1
    <3> HIDE DEF f, l
    <3> QED
      BY <1>1, <2>2 DEF SlotsFor
  <2>7. sl = IF caches THEN t ELSE z
    <3> HIDE DEF f, caches, t
    <3> QED
      BY <1>1 DEF t
  <2>8. small <=> caches /\ z = 0 /\ file.size = Unknown
    <3> HIDE DEF f, caches
    <3> QED
      BY <1>1
  <2> HIDE DEF x, y, z, t, sl, caches, small
  <2>9. /\ sl \in 0 .. x + 1 /\ (caches => sl > 0) /\ (~stale /\ ~small /\ sl > 0 => sl = y + 1)
        /\ (sl = 0 => ~caches /\ z = 0)
    BY <2>5, <2>6, <2>7, <2>8
  <2> QED
    BY <2>9 DEF x, y, z
<1>12. /\ g.cache = pages /\ g.slots = sl /\ g.compressor = file.compressor /\ g.size = file.size
       /\ g.dontcompress = file.dontcompress /\ g.type = "read"
       /\ pages \in [Slot -> Seq(Byte) \cup {Null}] => g \in FileRec
  <2>1. sk \in 0 .. MaxLen + 1
    <3> DEFINE z == Cardinality(done \ kept)
    <3>1. z \in Nat
      <4>1. done \ kept \in SUBSET (0 .. c - 1)
        <5> HIDE DEF done, kept, c
        <5> QED
          BY <1>9
      <4> HIDE DEF done, kept, c
      <4> QED
        BY <1>8, <4>1, Shifted
    <3>2. f.skipped \in Nat /\ MaxLen \in Nat /\ Page \in Nat
      BY <1>1, PageNat DEF FileRec
    <3> HIDE DEF z
    <3>3. Page * z \in Nat
      BY <3>1, <3>2
    <3>4. skipped = f.skipped + Page * z
      BY DEF z
    <3> HIDE DEF f, skipped
    <3> QED
      BY <3>2, <3>3, <3>4
  <2> HIDE DEF f, sl, sk, pages
  <2> QED
    BY <1>1, <1>6, <1>11, <2>1 DEF FileRec
<1> HIDE DEF f, s, v, caches, small, q, skips, done, keeps, kept, pages, skipped, at, size, got, sl, sk, g, u, ge, r1, r2,
             off, n, rest, a, c, l, end
\* What is kept are pages of the file.
<1>13. /\ \A j \in kept : q + j \in Slot => /\ pages[q + j] = Slice(Data, (q + j) * Page, Page)
                                            /\ pages[q + j] \in Seq(Byte)
                                            /\ Len(pages[q + j]) = Page
       /\ \A x \in Slot : (\A j \in kept : q + j # x) => pages[x] = f.cache[x]
       /\ pages = [x \in Slot |-> pages[x]]
  <2>1. \A j : SlotOf(s, j) = q + j
    BY DEF SlotOf, q
  <2>2. pages = [x \in Slot |-> IF \E j \in kept : q + j = x
                                THEN Slice(back.data, s.pos + (x - q) * Page, Page)
                                ELSE f.cache[x]]
    BY <2>1 DEF pages
  <2>3. \A x \in Slot : (\A j \in kept : q + j # x) => pages[x] = f.cache[x]
    BY <2>2
  <2>4. pages = [x \in Slot |-> pages[x]]
    BY DEF pages
  <2>5. ASSUME NEW j \in kept, q + j \in Slot
        PROVE  /\ pages[q + j] = Slice(Data, (q + j) * Page, Page)
               /\ pages[q + j] \in Seq(Byte) /\ Len(pages[q + j]) = Page
    <3> DEFINE o == (q + j) * Page
    <3>1. pages[q + j] = Slice(back.data, s.pos + ((q + j) - q) * Page, Page)
      BY <2>2, <2>5
    <3>2. j \in 0 .. c - 1 /\ j \in Nat /\ j + 1 <= c /\ j \in done
      <4>1. j \in 0 .. c - 1 /\ j \in done
        BY <1>10
      <4> QED
        BY <1>8, <4>1
    <3>3. s.pos = q * Page
      BY <1>7, <1>9, <3>2
    <3>4. (q + j) - q = j /\ q + j \in Nat /\ o = q * Page + j * Page /\ o \in Nat
      <4>1. q \in Nat
        BY <1>7
      <4>2. (q + j) - q = j /\ q + j \in Nat
        BY <3>2, <4>1
      <4>3. o = q * Page + j * Page
        BY <3>2, <4>1, PagePlus
      <4>4. o \in Nat
        BY <4>2, PageTimes
      <4> QED
        BY <4>2, <4>3, <4>4
    <3> HIDE DEF o
    <3>5. pages[q + j] = Slice(Data, o, Page)
      BY <1>7, <3>1, <3>3, <3>4
    <3>6. o + Page <= l
      <4>1. (q + j) + 1 <= q + c /\ (q + j) + 1 \in Nat /\ q + c \in Nat
        BY <1>7, <1>8, <3>2
      <4>2. ((q + j) + 1) * Page = o + Page
        BY <3>4, PageTimes DEF o
      <4>3. ((q + j) + 1) * Page <= (q + c) * Page
        BY <4>1, PageLess
      <4>4. (q + c) * Page = rest
        BY <1>5, <1>8
      <4>5. o + Page <= rest
        BY <4>2, <4>3, <4>4
      <4> QED
        BY <1>5, <3>4, <4>5, PageNat
    <3> DEFINE t == Data
               x == Len(Slice(t, o, Page))
    <3>7. Slice(t, o, Page) \in Seq(Byte) /\ x = IF o + Page < l THEN Page ELSE IF o <= l THEN l - o ELSE 0
      <4>1. t \in Seq(Byte) /\ Page \in Nat
        BY Contents, PageNat DEF IInv
      <4> HIDE DEF t
      <4>2. /\ Slice(t, o, Page) \in Seq(Byte)
            /\ Len(Slice(t, o, Page)) = IF o + Page < Len(t) THEN Page ELSE IF o <= Len(t) THEN Len(t) - o ELSE 0
        BY <3>4, <4>1, SliceType
      <4> QED
        BY <4>2 DEF t, l
    <3>8. x = Page
      <4> HIDE DEF x
      <4>1. x = IF o + Page < l THEN Page ELSE IF o <= l THEN l - o ELSE 0
        BY <3>7
      <4>2. o \in Nat /\ l \in Nat /\ Page \in Nat
        BY <1>5, <3>4, PageNat
      <4> QED
        BY <3>6, <4>1, <4>2
    <3> QED
      BY <3>5, <3>7, <3>8 DEF t, x, o
  <2> QED
    BY <2>3, <2>4, <2>5
<1>14. /\ pages \in [Slot -> Seq(Byte) \cup {Null}] /\ g \in FileRec
       /\ \A x \in CachedOf(g) : (x \in CachedOf(f) /\ g.cache[x] = f.cache[x]) \/ \E j \in kept : q + j = x
       /\ Cardinality(CachedOf(g)) = Cardinality(CachedOf(f)) + Cardinality(kept)
       /\ Cardinality(kept) \in Nat /\ Cardinality(kept) <= c
       /\ \A j \in 0 .. c - 1 : q + j \in Slot /\ q + j <= l \div Page
  <2>1. f \in FileRec
    BY <1>1
  <2>2. q \in Nat /\ c \in Nat /\ l \in Length
    BY <1>5, <1>7, <1>8
  <2>3. (q + c) * Page < l
    BY <1>5, <1>8
  <2>4. kept \in SUBSET (0 .. c - 1)
    BY <1>10
  <2>5. Fills(g, f, q, kept)
    BY <1>10, <1>12, <1>13 DEF Fills
  <2>8. /\ g.cache \in [Slot -> Seq(Byte) \cup {Null}]
        /\ \A x \in CachedOf(g) : (x \in CachedOf(f) /\ g.cache[x] = f.cache[x]) \/ \E j \in kept : q + j = x
        /\ Cardinality(CachedOf(g)) = Cardinality(CachedOf(f)) + Cardinality(kept)
        /\ Cardinality(kept) \in Nat /\ Cardinality(kept) <= c
        /\ \A j \in 0 .. c - 1 : q + j \in Slot /\ q + j <= l \div Page
    BY <2>1, <2>2, <2>3, <2>4, <2>5, KeptFacts
  <2> QED
    BY <1>12, <2>8
\* What is kept fits in the cache.
<1>15. /\ caches => c <= CacheMax - v
       /\ v \in Nat /\ CacheMax \in Nat
       /\ v + Cardinality(kept) \in 0 .. CacheMax
       /\ Cardinality(CachedOf(g)) <= v + Cardinality(kept)
       /\ failed \/ v + Cardinality(kept) = Cardinality(CachedOf(g))
  <2>1. CacheMax \in Nat /\ v \in 0 .. CacheMax /\ v \in Nat /\ CacheMax - v \in Nat /\ c \in Nat
    BY <1>1, <1>8, DataPathConstants
  <2>2. ASSUME caches PROVE c <= CacheMax - v
    <3>1. rest - s.offset <= (CacheMax - v) * Page
      BY <2>2 DEF caches, CachesSkip
    <3>2. rest = s.offset + c * Page /\ s.offset \in Nat /\ c * Page \in Nat /\ (CacheMax - v) * Page \in Nat
      <4>1. s.offset \in Nat
        BY <1>7, PageNat DEF DescRec, Length
      <4> QED
        BY <1>7, <2>1, <4>1, PageTimes
    <3> DEFINE x == c * Page
               o == s.offset
               y == (CacheMax - v) * Page
    <3>3. rest = o + x /\ o \in Nat /\ x \in Nat /\ y \in Nat /\ rest - o <= y
      BY <3>1, <3>2
    <3> HIDE DEF x, o, y
    <3>4. x <= y
      BY <3>3
    <3>5. c * Page <= (CacheMax - v) * Page
      BY <3>4 DEF x, y
    <3> DEFINE z == CacheMax - v
    <3>6. z \in Nat /\ c * Page <= z * Page
      BY <2>1, <3>5
    <3> HIDE DEF z
    <3>7. c <= z
      BY <2>1, <3>6, PageLess
    <3> QED
      BY <3>7 DEF z
  <2> DEFINE i == Cardinality(kept)
             j == Cardinality(CachedOf(f))
             h == Cardinality(CachedOf(g))
  <2>3. kept = {} => i = 0
    BY EmptyFacts
  <2>4. kept # {} => caches
    BY <1>10
  <2>5. i \in Nat /\ i <= c /\ h = j + i /\ j <= v /\ (failed \/ v = j) /\ j \in Nat
    BY <1>1, <1>14, CachedType
  <2> HIDE DEF i, j, h
  <2>6. v + i <= CacheMax
    <3>1. CASE kept = {}
      BY <2>1, <2>3, <3>1
    <3>2. CASE kept # {}
      <4>1. c <= CacheMax - v
        BY <2>2, <2>4, <3>2
      <4> QED
        BY <2>1, <2>5, <4>1
    <3> QED
      BY <3>1, <3>2
  <2>7. v + i \in 0 .. CacheMax /\ h <= v + i /\ (failed \/ v + i = h)
    BY <2>1, <2>5, <2>6
  <2> QED
    BY <2>1, <2>2, <2>7 DEF i, h
\* Nor does skipping leave the cache.
<1>16. fault' = FALSE /\ stale' \in BOOLEAN /\ (~stale' => ~stale /\ ~small)
  <2> DEFINE bad == \/ LooksBeyond(off, n, k) \/ ~StreamAssertion(d, rest)
                    \/ \E j \in skips : caches /\ ~small /\ SlotOf(s, j) >= g.slots
  <2>1. Records(bad)
    BY <1>4, Zenon
  <2>2. ~stale => ~LooksBeyond(off, n, k)
    BY LooksInside DEF off, n
  <2>3. ASSUME ~stale, NEW j \in skips, caches, ~small PROVE ~(SlotOf(s, j) >= g.slots)
    <3>1. SlotOf(s, j) = q + j
      BY DEF SlotOf, q
    <3>2. g.slots = l \div Page + 1
      <4>1. sl \in Nat
        BY <1>11, PageNat
      <4> QED
        BY <1>11, <1>12, <2>3, <4>1
    <3>3. q + j <= l \div Page /\ q + j \in Nat /\ l \div Page \in Nat
      <4>1. j \in 0 .. c - 1
        BY <1>8
      <4>2. q + j \in Slot
        BY <1>14, <4>1
      <4> QED
        BY <1>5, <1>14, <4>1, <4>2, Paged, PageNat DEF Slot
    <3> QED
      BY <3>1, <3>2, <3>3
  <2>4. ~stale => ~bad
    BY <1>7, <2>2, <2>3
  <2> HIDE DEF bad
  <2>5. fault' = FALSE
    BY <2>1, <2>4, RecordsFacts
  <2>6. stale' = (stale \/ small)
    BY <1>4, Zenon
  <2>7. small \in BOOLEAN /\ stale \in BOOLEAN
    BY DEF small, IInv, Types
  <2> QED
    BY <2>5, <2>6, <2>7
\* The cache has pages of the file.
<1>17. /\ g.slots = 0 => CachedOf(g) = {}
       /\ ~stale' /\ g.slots > 0 => g.slots = l \div Page + 1
       /\ ~stale' => \A x \in CachedOf(g) : /\ x < g.slots /\ g.cache[x] = Slice(Data, x * Page, Page)
                                            /\ Len(g.cache[x]) = Page
  <2>1. ASSUME g.slots = 0 PROVE CachedOf(g) = {}
    <3>1. ~caches /\ file.slots = 0
      BY <1>11, <1>12, <2>1
    <3>2. kept = {}
      BY <1>10, <3>1
    <3>3. CachedOf(f) = {}
      BY <1>1, <3>1 DEF IInv, Cache
    <3> QED
      BY <1>14, <3>2, <3>3
  <2>2. ASSUME ~stale', g.slots > 0 PROVE g.slots = l \div Page + 1
    BY <1>11, <1>12, <1>16, <2>2
  <2>3. ASSUME ~stale', NEW x \in CachedOf(g)
        PROVE  x < g.slots /\ g.cache[x] = Slice(Data, x * Page, Page) /\ Len(g.cache[x]) = Page
    <3>1. g.slots \in Nat /\ g.slots > 0
      <4>1. g.slots \in Nat
        BY <1>14, PageNat DEF FileRec
      <4>2. g.slots # 0
        BY <2>1, <2>3
      <4> QED
        BY <4>1, <4>2
    <3>2. g.slots = l \div Page + 1
      BY <2>2, <2>3, <3>1
    <3>3. CASE x \in CachedOf(f) /\ g.cache[x] = f.cache[x]
      <4>1. x \in Cached /\ f.cache[x] = file.cache[x]
        BY <1>1, <3>3
      <4>2. x < file.slots /\ file.cache[x] = Slice(Data, x * Page, Page) /\ Len(file.cache[x]) = Page
        BY <1>16, <2>3, <4>1 DEF IInv, CacheFaithful
      <4>3. file.slots = l \div Page + 1
        <5>1. file.slots \in Nat /\ file.slots # 0
          BY <4>1, PageNat DEF IInv, Types, FileRec, Cache
        <5> QED
          BY <1>16, <2>3, <5>1 DEF IInv, Cache, l
      <4> QED
        BY <3>2, <3>3, <4>1, <4>2, <4>3
    <3>4. CASE \E j \in kept : q + j = x
      <4>1. PICK j \in kept : q + j = x
        BY <3>4
      <4>2. j \in 0 .. c - 1
        BY <1>10
      <4>3. q + j \in Slot /\ q + j <= l \div Page /\ q + j \in Nat /\ l \div Page \in Nat
        <5>1. q + j \in Slot /\ q + j <= l \div Page
          BY <1>14, <4>2
        <5>2. l \div Page \in Nat
          BY <1>5, Paged
        <5>3. q + j \in Nat
          BY <1>7, <4>2
        <5> QED
          BY <5>1, <5>2, <5>3
      <4>4. /\ pages[q + j] = Slice(Data, (q + j) * Page, Page) /\ Len(pages[q + j]) = Page
        BY <1>13, <4>3
      <4>5. x < g.slots
        BY <3>2, <4>1, <4>3
      <4> QED
        BY <1>12, <4>1, <4>4, <4>5
    <3> QED
      BY <1>14, <3>3, <3>4
  <2> QED
    BY <2>1, <2>2, <2>3
<1>18. /\ size \in Nat /\ size > 0
       /\ at = rest => /\ Len(got) = size => /\ rest + size <= l
                                             /\ rest + size = end \/ (rest + size = l /\ end >= l)
                       /\ file.size # Unknown => Len(got) = size
       /\ at = l => Len(got) # size
       /\ at \in Nat => got \in Seq(Byte)
       /\ got = Slice(Data, at, size)
  <2>1. got = Slice(Data, at, size)
    BY <1>7 DEF got
  <2>2. size = IF file.size # Unknown /\ end > file.size THEN file.size - rest ELSE end - rest
    <3>1. f.size = file.size /\ file.size \in Int /\ off \in Nat /\ n \in Nat /\ rest \in Nat
      BY <1>1, <1>5, TypesFacts, PageNat DEF IInv
    <3> QED
      BY <3>1 DEF size, end
  <2>3. rest \in Nat /\ rest < Len(Data) /\ end \in Nat /\ rest < end
    BY <1>5 DEF l
  <2>4. /\ size \in Nat /\ size > 0
        /\ at = rest => /\ Len(Slice(Data, at, size)) = size =>
                              /\ rest + size <= Len(Data)
                              /\ rest + size = end \/ (rest + size = Len(Data) /\ end >= Len(Data))
                        /\ file.size # Unknown => Len(Slice(Data, at, size)) = size
        /\ at = Len(Data) => Len(Slice(Data, at, size)) # size
        /\ at \in Nat => Slice(Data, at, size) \in Seq(Byte)
    BY <2>2, <2>3, GotFacts
  <2> QED
    BY <2>1, <2>4 DEF l
<1>19. at = IF s.pos = s.offset THEN rest ELSE l
  <2>1. CASE s.pos = s.offset
    BY <1>9, <2>1
  <2>2. CASE s.pos # s.offset
    <3>1. s.pos = l /\ Cardinality(done) = 0 /\ l \in Nat /\ Page \in Nat
      BY <1>5, <1>9, <2>2, PageNat
    <3>2. Page * 0 = 0
      BY <3>1
    <3> QED
      BY <2>2, <3>1, <3>2 DEF at
  <2> QED
    BY <2>1, <2>2
\* All is there.
<1>20. ASSUME done = skips, Len(got) = size PROVE IInv' /\ Data' = Data /\ Answered
  <2>1. /\ desc' = [desc EXCEPT ![d] = r1] /\ file' = g /\ used' = v + Cardinality(kept)
        /\ Reply(PagesFrom(off \div Page, k) \o got, off, n) /\ UNCHANGED <<back, failed>>
    BY <1>4, <1>20, Zenon
  <2>2. s.pos = s.offset /\ at = rest
    BY <1>18, <1>19, <1>20
  <2>3. rest + size <= l /\ (rest + size = end \/ (rest + size = l /\ end >= l))
    BY <1>18, <1>20, <2>2
  <2>4. /\ r1 \in DescRec /\ r1.open /\ r1.handle = "read" /\ r1.buf = <<>>
        /\ r1.offset = rest + size /\ r1.pos = rest + size
    <3>1. rest + size \in Length
      BY <1>5, <1>18, <2>3, PageNat DEF Length
    <3>2. s \in DescRec /\ s.open /\ s.handle = "read" /\ s.buf = <<>>
      BY <1>7
    <3> DEFINE x == rest + size
    <3>3. r1 = [s EXCEPT !.offset = x, !.pos = x]
      BY <2>2 DEF r1
    <3> HIDE DEF x
    <3>4. /\ r1 \in DescRec /\ r1.open /\ r1.handle = "read" /\ r1.buf = <<>>
          /\ r1.offset = x /\ r1.pos = x
      BY <3>1, <3>2, <3>3 DEF DescRec, x
    <3> QED
      BY <3>4 DEF x
  <2>5. StreamOK(r1, l)
    <3>1. r1.offset % Page = 0 \/ r1.offset = l
      BY <1>5, <2>3, <2>4
    <3> QED
      BY <2>3, <2>4, <3>1 DEF StreamOK
  <2>6. ~stale => PagesFrom(off \div Page, k) \o got = Slice(Data, off, n)
    <3> SUFFICES ASSUME ~stale PROVE PagesFrom(off \div Page, k) \o got = Slice(Data, off, n)
      OBVIOUS
    <3>1. p * Page <= Len(Data)
      BY <1>5 DEF off, l
    <3>2. PagesFrom(p, k) = Slice(Data, p * Page, k * Page) /\ p * Page + k * Page <= Len(Data)
      BY <3>1, ServedPages
    <3> DEFINE h == k * Page
               t == Data
    <3>3. PagesFrom(p, k) = Slice(t, off, h) /\ off + h <= Len(Data) /\ h \in Nat /\ rest = off + h
      BY <3>2, PageTimes DEF off, rest
    <3> HIDE DEF h, t
    <3>4. got = Slice(t, off + h, size)
      BY <1>18, <2>2, <3>3 DEF t
    <3>5. Data \in Seq(Byte) /\ off \in Nat /\ size \in Nat /\ n \in Nat
      BY <1>5, <1>18, Contents DEF IInv
    <3>6. Slice(Data, off, h) \o Slice(Data, off + h, size) = Slice(Data, off, h + size)
      BY <3>3, <3>5, DataParts
    <3>7. Slice(t, off, h + size) = Slice(t, off, n)
      <4>1. end = off + n /\ rest + size = off + (h + size)
        BY <1>18, <3>3, <3>5 DEF end
      <4>2. h + size \in Nat
        BY <3>3, <3>5
      <4>3. CASE rest + size = end
        <5>1. h + size = n
          BY <3>3, <3>5, <4>1, <4>2, <4>3
        <5> QED
          BY <5>1
      <4>4. CASE rest + size = l /\ end >= l
        <5>1. Len(t) = l /\ l \in Nat
          BY <1>5 DEF t, l
        <5>2. off + (h + size) >= Len(t) /\ off + n >= Len(t)
          BY <4>1, <4>4, <5>1
        <5> QED
          BY <3>5, <4>2, <5>1, <5>2, SliceEnd
      <4> QED
        BY <2>3, <4>3, <4>4
    <3> QED
      BY <1>2, <3>3, <3>4, <3>6, <3>7 DEF t
  <2>7. reply' \in {"right", "stale", "error"}
    BY <2>1, <2>6, ReplyFacts
  <2>8. Cached' = CachedOf(file')
    BY DEF Cached, CachedOf
  <2>9. StreamOK(r1, Len(Data))
    BY <2>5 DEF l
  <2>10. /\ ~stale' /\ file'.slots > 0 => file'.slots = Len(Data) \div Page + 1
         /\ file'.slots = 0 => Cached' = {}
         /\ ~stale' => \A x \in Cached' : /\ x < file'.slots /\ file'.cache[x] = Slice(Data, x * Page, Page)
                                          /\ Len(file'.cache[x]) = Page
    BY <1>17, <2>1, <2>8 DEF l
  <2>11. used' \in 0 .. CacheMax /\ Cardinality(Cached') <= used' /\ (failed \/ used' = Cardinality(Cached'))
    BY <1>15, <2>1, <2>8
  <2>12. file' \in FileRec /\ file'.compressor = file.compressor /\ file'.type = "read" /\ file'.size = file.size
    BY <1>12, <1>14, <2>1
  <2>13. IInv' /\ Data' = Data
    BY <1>6, <1>7, <1>16, <2>1, <2>4, <2>7, <2>9, <2>10, <2>11, <2>12, StreamedInv
  <2>14. Answered
    <3>1. Data \in Seq(Byte) /\ off \in Nat /\ n \in Nat
      BY <1>5, Contents DEF IInv
    <3> QED
      BY <2>1, <2>6, <3>1, AnsweredFacts
  <2> QED
    BY <2>13, <2>14
\* The stream ends too early, or stands at the end already.
<1>21. ASSUME ~(done = skips /\ Len(got) = size) PROVE IInv' /\ Data' = Data /\ Answered
  <2>1. /\ desc' = [desc EXCEPT ![d] = r2] /\ file' = ge
        /\ used' = v + Cardinality(kept) + Cardinality({Cardinality(done)} \cap keeps)
        /\ Reply(Null, off, n) /\ UNCHANGED <<back, failed>>
    BY <1>4, <1>21, Zenon
  <2>2. failed
    <3>1. CASE s.pos # s.offset
      BY <1>9, <3>1
    <3>2. CASE s.pos = s.offset
      <4>1. at = rest /\ done = skips
        BY <1>8, <1>9, <3>2
      <4>2. file.size = Unknown
        BY <1>18, <1>21, <4>1
      <4> QED
        BY <4>2 DEF IInv, Header
    <3> QED
      BY <3>1, <3>2
  <2>3. ge \in FileRec /\ ge.compressor = file.compressor /\ ge.type = "read" /\ ge.size = Unknown
        /\ ge.slots = g.slots /\ ge.cache = g.cache
    <3>1. Unknown \in -1 .. MaxLen
      BY PageNat DEF Unknown
    <3>2. g \in FileRec /\ g.compressor = file.compressor /\ g.type = "read"
      BY <1>12, <1>14
    <3>3. ge = [g EXCEPT !.size = Unknown]
      BY DEF ge, u
    <3> QED
      BY <3>1, <3>2, <3>3 DEF FileRec
  <2>4. /\ r2 \in DescRec /\ r2.open /\ r2.handle = "read" /\ r2.buf = <<>> /\ StreamOK(r2, l)
    <3> DEFINE x == s.offset + Page * Cardinality(done)
    <3>1. x \in Length /\ (x % Page = 0 \/ x = l) /\ x <= l
      <4>1. CASE s.pos # s.offset
        <5>1. Cardinality(done) = 0 /\ s.offset \in Nat /\ Page \in Nat
          BY <1>7, <1>9, <4>1, PageNat DEF DescRec, Length
        <5>2. x = s.offset
          BY <5>1
        <5>3. s.offset \in Length /\ StreamOK(s, l)
          BY <1>7 DEF DescRec
        <5> QED
          BY <5>2, <5>3 DEF StreamOK
      <4>2. CASE s.pos = s.offset
        <5>1. x = rest
          BY <1>9, <4>2 DEF at
        <5>2. rest \in Length /\ rest % Page = 0 /\ rest <= l
          <6>1. rest \in Length /\ rest <= l
            BY <1>5, PageNat DEF Length
          <6>2. rest % Page = 0
            BY <1>5, PageTimes
          <6> QED
            BY <6>1, <6>2
        <5> QED
          BY <5>1, <5>2
      <4> QED
        BY <4>1, <4>2
    <3>2. s \in DescRec /\ s.open /\ s.handle = "read" /\ s.buf = <<>> /\ l \in Length /\ l \in Nat
      BY <1>5, <1>7
    <3>3. r2 = [s EXCEPT !.offset = x, !.pos = l]
      BY <1>7 DEF r2, l
    <3> HIDE DEF x
    <3>4. /\ r2 \in DescRec /\ r2.open /\ r2.handle = "read" /\ r2.buf = <<>> /\ r2.offset = x /\ r2.pos = l
      BY <3>1, <3>2, <3>3 DEF DescRec
    <3> QED
      BY <2>2, <3>1, <3>2, <3>4 DEF StreamOK
  <2> DEFINE i == Cardinality(kept)
             e == Cardinality({Cardinality(done)} \cap keeps)
  <2>5. e \in {0, 1} /\ (e = 1 => Cardinality(done) \in keeps)
    <3> DEFINE z == Cardinality(done)
    <3>1. CASE z \in keeps
      <4>1. {z} \cap keeps = {z}
        BY <3>1
      <4> QED
        BY <3>1, <4>1, FS_Singleton
    <3>2. CASE z \notin keeps
      <4> DEFINE T == {z} \cap keeps
      <4>1. T = {}
        BY <3>2
      <4> HIDE DEF T, z
      <4>2. Cardinality(T) = 0
        BY <4>1, EmptyFacts
      <4> QED
        BY <4>2 DEF T, z
    <3> QED
      BY <3>1, <3>2
  <2>6. e = 1 => i = 0 /\ 1 <= c /\ c <= CacheMax - v
    <3> SUFFICES ASSUME Cardinality(done) \in keeps PROVE i = 0 /\ 1 <= c /\ c <= CacheMax - v
      BY <2>5
    <3>1. Cardinality(done) \in 0 .. c - 1 /\ caches
      BY <1>10
    <3>2. 1 <= c
      BY <1>8, <3>1
    <3>3. s.pos # s.offset
      <4> SUFFICES ASSUME s.pos = s.offset PROVE FALSE
        OBVIOUS
      <4>1. Cardinality(done) = c
        BY <1>9
      <4> QED
        BY <1>8, <3>1, <4>1
    <3>4. kept = {}
      BY <1>9, <1>10, <3>3
    <3> QED
      BY <1>15, <3>1, <3>2, <3>4, EmptyFacts
  <2>7. v + i + e \in 0 .. CacheMax /\ v + i <= v + i + e
    <3>1. i \in Nat /\ v \in Nat /\ CacheMax \in Nat /\ c \in Nat /\ v + i \in 0 .. CacheMax
      BY <1>8, <1>14, <1>15
    <3> HIDE DEF i, e
    <3>2. CASE e = 0
      BY <3>1, <3>2
    <3>3. CASE e = 1
      <4>1. i = 0 /\ 1 <= c /\ c <= CacheMax - v
        BY <2>6, <3>3
      <4> QED
        BY <3>1, <3>3, <4>1
    <3> QED
      BY <2>5, <3>2, <3>3
  <2>8. Cached' = CachedOf(file') /\ CachedOf(ge) = CachedOf(g)
    BY <2>3 DEF Cached, CachedOf
  <2>9. Cardinality(CachedOf(g)) <= v + i + e
    <3>1. Cardinality(CachedOf(g)) <= v + i /\ Cardinality(CachedOf(g)) \in Nat
      BY <1>14, <1>15, CachedType
    <3> DEFINE h == Cardinality(CachedOf(g))
    <3>2. h \in Nat /\ h <= v + i /\ i \in Nat /\ v \in Nat
      BY <1>14, <1>15, <3>1
    <3> HIDE DEF h, i, e
    <3>3. h <= v + i + e
      BY <2>5, <2>7, <3>2
    <3> QED
      BY <3>3 DEF h
  <2>10. used' \in 0 .. CacheMax /\ Cardinality(Cached') <= used'
    <3>1. used' = v + i + e
      BY <2>1
    <3> QED
      BY <2>1, <2>7, <2>8, <2>9, <3>1
  <2>11. reply' \in {"right", "stale", "error"}
    BY <2>1, ReplyFacts
  <2>12. StreamOK(r2, Len(Data))
    BY <2>4 DEF l
  <2>13. /\ ~stale' /\ file'.slots > 0 => file'.slots = Len(Data) \div Page + 1
         /\ file'.slots = 0 => Cached' = {}
         /\ ~stale' => \A x \in Cached' : /\ x < file'.slots /\ file'.cache[x] = Slice(Data, x * Page, Page)
                                          /\ Len(file'.cache[x]) = Page
    BY <1>17, <2>1, <2>3, <2>8 DEF l
  <2>14. file' \in FileRec /\ file'.compressor = file.compressor /\ file'.type = "read" /\ file'.size = Unknown
    BY <2>1, <2>3
  <2>15. Answered
    BY <2>1, <2>2 DEF Answered
  <2> HIDE DEF i, e
  <2>16. IInv' /\ Data' = Data
    BY <1>6, <1>7, <1>16, <2>1, <2>2, <2>4, <2>10, <2>11, <2>12, <2>13, <2>14, StreamedInv
  <2> QED
    BY <2>15, <2>16
<1> QED
  BY <1>20, <1>21

(* fusecompress_read()                                                      *)
LEMMA ReadsInv == ASSUME IInv, NEW d \in Desc, Reads(d) PROVE IInv' /\ Data' = Data /\ Answered
<1>1. PICK r \in Requests :
        /\ Request(r[1], r[2])
        /\ \/ ~file.compressor /\ ReadRaw(d, r[1], r[2])
           \/ /\ file.compressor
              /\ \E k \in {Served(r[1], r[2])} : \/ ReadCached(d, r[1], r[2], k)
                                                \/ ReadFallback(d, r[1], r[2], k)
                                                \/ ReadStream(d, r[1], r[2], k)
  BY DEF Reads
<1>2. desc[d].open
  BY DEF Reads
<1>3. PICK p \in Slot, m \in Slot \ {0} : r = <<p * Page, m * Page>>
  BY DEF Requests
<1>4. p \in Nat /\ m \in Nat
  BY PageNat DEF Slot
<1>5. r[1] = p * Page /\ r[2] = m * Page
  BY <1>3
<1>6. Request(p * Page, m * Page)
  BY <1>1, <1>5
<1>7. CASE ~file.compressor
  <2>1. p * Page \in Nat /\ m * Page \in Nat
    BY <1>4, PageTimes
  <2>2. ReadRaw(d, p * Page, m * Page)
    BY <1>1, <1>5, <1>7
  <2> QED
    BY <1>7, <2>1, <2>2, ReadRawInv
<1>8. CASE file.compressor
  <2> DEFINE k == Served(p * Page, m * Page)
  <2>1. k \in 0 .. m /\ \A j \in 0 .. k - 1 : p + j \in Cached
    BY <1>4, <1>6, ServedFacts
  <2>2. \/ ReadCached(d, p * Page, m * Page, k)
        \/ ReadFallback(d, p * Page, m * Page, k)
        \/ ReadStream(d, p * Page, m * Page, k)
    BY <1>1, <1>5, <1>8
  <2> HIDE DEF k
  <2>3. CASE ReadCached(d, p * Page, m * Page, k)
    BY <1>4, <1>6, <1>8, <2>1, <2>3, ReadCachedInv
  <2>4. CASE ReadFallback(d, p * Page, m * Page, k)
    BY <1>2, <1>4, <1>6, <1>8, <2>1, <2>4, ReadFallbackInv
  <2>5. CASE ReadStream(d, p * Page, m * Page, k)
    BY <1>2, <1>4, <1>6, <1>8, <2>1, <2>5, ReadStreamInv
  <2> QED
    BY <2>2, <2>3, <2>4, <2>5
<1> QED
  BY <1>7, <1>8

-----------------------------------------------------------------------------
(* Every step *)

LEMMA InitInv == Init => IInv
<1> SUFFICES ASSUME Init PROVE IInv
  OBVIOUS
<1>1. PICK n \in 0 .. Len(Sample), b \in BOOLEAN : (b => n > 0) /\ back = Backing(b, SubSeq(Sample, 1, n))
  BY DEF Init
<1> DEFINE t == SubSeq(Sample, 1, n)
<1>2. Sample \in Seq(Byte) /\ Len(Sample) \in Nat /\ Len(Sample) <= MaxLen /\ MaxLen \in Nat /\ n \in Nat /\ n <= Len(Sample)
  BY DataPathConstants, LenProperties
<1>3. t \in Seq(Byte) /\ Len(t) = n
  <2>1. \A i \in 1 .. n : Sample[i] \in Byte
    BY <1>2, ElementOfSeq
  <2>2. t \in Seq(Byte) /\ Len(t) = IF 1 <= n THEN n - 1 + 1 ELSE 0
    BY <1>2, <2>1, SubSeqProperties
  <2> DEFINE x == Len(t)
  <2>3. x = IF 1 <= n THEN n - 1 + 1 ELSE 0
    BY <2>2
  <2> HIDE DEF x
  <2>4. x = n
    BY <1>2, <2>3
  <2> QED
    BY <2>2, <2>4 DEF x
<1> HIDE DEF t
<1>4. n \in Length
  BY <1>2 DEF Length
<1>5. back \in BackRec /\ back.img = b /\ back.size = n /\ back.data = t
  <2>1. back = Backing(b, t)
    BY <1>1 DEF t
  <2> QED
    BY <1>3, <1>4, <2>1, BackingType
<1>6. /\ file = NewFile /\ desc = [d \in Desc |-> Closed] /\ used = 0 /\ reply = "none"
      /\ fault = FALSE /\ stale = FALSE /\ failed = FALSE
  BY DEF Init
<1>7. \A d \in Desc : desc[d] = Closed
  BY <1>6
<1>8. Writers = {} /\ OpenDesc = {}
  BY <1>7, ClosedType DEF Writers, OpenDesc
<1>9. Data = t
  BY <1>5, <1>8 DEF Data
<1>10. file \in FileRec /\ Cached = {} /\ file.slots = 0 /\ file.compressor = FALSE /\ file.size = Unknown
  BY <1>6, NewFileType, EmptyFacts DEF Cached, CachedOf, NewFile
<1>11. Types
  <2>1. 0 \in 0 .. CacheMax
    BY DataPathConstants
  <2> QED
    BY <1>5, <1>6, <1>10, <2>1, ClosedType DEF Types
<1>12. Streams /\ OneWriter
  BY <1>7, <1>8, ClosedType DEF Streams, OneWriter
<1>13. Header
  <2>1. Len(Data) = n
    BY <1>3, <1>9
  <2>2. back.img => Len(Data) > 0
    BY <1>1, <1>5, <2>1
  <2> QED
    BY <1>5, <1>6, <1>8, <1>10, <2>1, <2>2 DEF Header
<1>14. Cache /\ CacheFaithful /\ CacheAccounted
  <2>1. Cardinality(Cached) = 0
    BY <1>10, EmptyFacts
  <2> QED
    BY <1>6, <1>10, <2>1 DEF Cache, CacheFaithful, CacheAccounted
<1> QED
  BY <1>6, <1>11, <1>12, <1>13, <1>14 DEF IInv, NoFault, ReadsFaithful

LEMMA NextInv == IInv /\ [Next]_vars => IInv'
<1> SUFFICES ASSUME IInv, [Next]_vars PROVE IInv'
  OBVIOUS
<1>1. ASSUME NEW d \in Desc, Reads(d) PROVE IInv'
  BY <1>1, ReadsInv
<1>2. ASSUME NEW d \in Desc, reply' = "none", Open(d) \/ Release(d) \/ Writes(d) PROVE IInv'
  BY <1>2, OpenInv, ReleaseInv, WritesInv
<1>3. ASSUME NEW n \in Lengths, reply' = "none", Truncate(n) PROVE IInv'
  BY <1>3, TruncateInv
<1>4. CASE reply' = "none" /\ (TruncateZero \/ Getattr \/ Forget \/ DoCompress)
  BY <1>4, TruncateZeroInv, GetattrInv, ForgetInv, DoCompressInv
<1>5. CASE UNCHANGED vars
  <2>1. UNCHANGED <<back, file, desc, used, reply, fault, stale, failed>>
    BY <1>5 DEF vars
  <2>2. reply' \in {"none", "right", "wrong", "stale", "error"} /\ ReadsFaithful'
    BY <2>1 DEF IInv, Types, ReadsFaithful
  <2> QED
    BY <2>1, <2>2, SameInv
<1> QED
  BY <1>1, <1>2, <1>3, <1>4, <1>5 DEF Next

\* Steps that do not write leave the contents alone.
LEMMA KeepsData ==
    IInv /\ [Next]_vars =>
        (Data' # Data => \/ \E d \in Desc : Writes(d)
                         \/ \E n \in Lengths : Truncate(n)
                         \/ TruncateZero) \/ vars' = vars
<1> SUFFICES ASSUME IInv, [Next]_vars, vars' # vars, ~\E d \in Desc : Writes(d),
                    ~\E n \in Lengths : Truncate(n), ~TruncateZero
             PROVE  Data' = Data
  OBVIOUS
<1>1. ASSUME NEW d \in Desc, Reads(d) PROVE Data' = Data
  BY <1>1, ReadsInv
<1>2. ASSUME NEW d \in Desc, reply' = "none", Open(d) \/ Release(d) PROVE Data' = Data
  BY <1>2, OpenInv, ReleaseInv
<1>3. CASE reply' = "none" /\ (Getattr \/ Forget \/ DoCompress)
  BY <1>3, GetattrInv, ForgetInv, DoCompressInv
<1> QED
  BY <1>1, <1>2, <1>3 DEF Next

\* While the length is known and there is space, no step fails.
Sound == ~failed /\ ~stale /\ reply \in {"none", "right"}

LEMMA NothingFails ==
    ASSUME IInv, Sound, "zero" \notin Calls, "space" \notin Failures, Next
    PROVE  ~failed' /\ ~stale'
<1>1. ~failed /\ ~stale
  BY DEF Sound
<1>2. file.compressor => file.size # Unknown /\ ~NoSpace
  BY <1>1 DEF IInv, Header, NoSpace
<1>3. \A f, u : Decompress(f, u) => ~failed' /\ ~stale'
  BY <1>1 DEF Decompress
<1>4. \A off, k : Consumed(off, k).size = file.size
  BY DEF IInv, Types, FileRec, Consumed
<1>5. ASSUME NEW d \in Desc, Reads(d) PROVE ~failed' /\ ~stale'
  <2>1. PICK r, k : \/ ReadRaw(d, r[1], r[2])
                    \/ /\ file.compressor
                       /\ \/ ReadCached(d, r[1], r[2], k)
                          \/ ReadFallback(d, r[1], r[2], k)
                          \/ ReadStream(d, r[1], r[2], k)
    BY <1>5, Zenon DEF Reads
  <2>2. CASE ReadRaw(d, r[1], r[2]) \/ ReadCached(d, r[1], r[2], k)
    BY <1>1, <2>2 DEF ReadRaw, ReadCached
  <2>3. CASE file.compressor /\ ReadFallback(d, r[1], r[2], k)
    BY <1>2, <1>3, <2>3 DEF ReadFallback
  <2>4. CASE file.compressor /\ ReadStream(d, r[1], r[2], k)
    <3> DEFINE f == Consumed(r[1], k)
               c == CachesSkip(Rewound(d, r[1] + k * Page), r[1] + k * Page, used - k)
    <3>1. f.size # Unknown
      BY <1>2, <1>4, <2>4
    <3>2. stale' = (stale \/ (c /\ f.slots = 0 /\ f.size = Unknown)) /\ failed' = failed
      BY <2>4, Zenon DEF ReadStream
    <3> HIDE DEF f, c
    <3> QED
      BY <1>1, <3>1, <3>2
  <2> QED
    BY <2>1, <2>2, <2>3, <2>4
<1>6. ASSUME NEW d \in Desc, Writes(d) PROVE ~failed' /\ ~stale'
  <2>1. PICK off, b : WriteRaw(d, off, <<b>>) \/ WriteAppend(d, off, <<b>>) \/ WriteFallback(d, off, <<b>>)
    BY <1>6 DEF Writes
  <2>2. CASE WriteRaw(d, off, <<b>>) \/ WriteAppend(d, off, <<b>>)
    <3>1. CASE WriteRaw(d, off, <<b>>)
      <4>1. UNCHANGED <<desc, used, stale, failed>>
        BY <3>1, Zenon DEF WriteRaw
      <4> QED
        BY <1>1, <4>1
    <3>2. CASE WriteAppend(d, off, <<b>>)
      <4>1. stale' = FALSE /\ UNCHANGED failed
        BY <3>2, Zenon DEF WriteAppend
      <4> QED
        BY <1>1, <4>1
    <3> QED
      BY <2>2, <3>1, <3>2
  <2>3. CASE WriteFallback(d, off, <<b>>)
    <3>1. Writing(off).compressor
      BY <2>3 DEF WriteFallback
    <3>2. ~NoSpace
      <4>1. file.compressor \/ file.size = 0
        BY <3>1 DEF Writing, ChoosesCompressor, IInv, Types, FileRec
      <4> QED
        BY <1>2, <4>1 DEF NoSpace, Unknown
    <3> QED
      BY <1>3, <2>3, <3>2 DEF WriteFallback
  <2> QED
    BY <2>1, <2>2, <2>3
<1>7. ASSUME NEW n \in Lengths, Truncate(n) PROVE ~failed' /\ ~stale'
  <2>1. CASE UNCHANGED <<desc, used, stale, failed>>
    BY <1>1, <2>1
  <2>2. CASE Decompress([file EXCEPT !.size = n], used)
    BY <1>3, <2>2
  <2> QED
    BY <1>7, <2>1, <2>2, Zenon DEF Truncate
<1>8. ASSUME NEW d \in Desc, Open(d) \/ Release(d) PROVE ~failed' /\ ~stale'
  BY <1>1, <1>8 DEF Open, Release
<1>9. CASE Getattr \/ Forget \/ DoCompress
  BY <1>1, <1>9 DEF Getattr, Forget, DoCompress
<1>10. ~TruncateZero
  BY DEF TruncateZero
<1> QED
  BY <1>5, <1>6, <1>7, <1>8, <1>9, <1>10 DEF Next

-----------------------------------------------------------------------------
(* Theorems *)

(* The inductive invariant holds in every state: the streams, the header,   *)
(* the entry and the cache agree on what the file contains, whatever is     *)
(* read, written, truncated, closed or compressed in whatever order.        *)
THEOREM Invariance == Spec => []IInv
<1> QED
  BY InitInv, NextInv, PTL DEF Spec

(* The variables keep their types: the length that file_t has, the offsets  *)
(* of descriptors and decomp_cache_size stay within bounds.                 *)
THEOREM TypeCorrect == Spec => []TypeOK
<1>1. IInv => TypeOK
  BY PageNat DEF IInv, Types, TypeOK, BackRec, FileRec, DescRec, Length
<1> QED
  BY <1>1, Invariance, PTL

(* fusecompress_read() never returns other data than the file's, whether    *)
(* they come from the cache, from a stream that was read on or set back,    *)
(* from a file that was decompressed for good or from a plain one.          *)
THEOREM NoWrongRead == Spec => []ReadsFaithful
<1>1. IInv => ReadsFaithful
  BY DEF IInv
<1> QED
  BY <1>1, Invariance, PTL

(* What direct_decompress() keeps of the data it skips are whole pages of   *)
(* the file in their slots, until a truncation to zero.                     *)
THEOREM PagesOfTheFile == Spec => []CacheFaithful
<1>1. IInv => CacheFaithful
  BY DEF IInv
<1> QED
  BY <1>1, Invariance, PTL

(* decomp_cache_size is what the cached pages take, as long as there is     *)
(* space on the disk.                                                       *)
THEOREM NothingLeaks == Spec => []CacheAccounted
<1>1. IInv => CacheAccounted
  BY DEF IInv
<1> QED
  BY <1>1, Invariance, PTL

(* The assertions of direct_compress(), direct_decompress() and             *)
(* fusecompress_write() hold, and no index leaves the cache.                *)
THEOREM AssertionsHold == Spec => []NoFault
<1>1. IInv => NoFault
  BY DEF IInv
<1> QED
  BY <1>1, Invariance, PTL

(* The header tells the length of the file, and an entry with a compressor  *)
(* is that of an image.                                                     *)
THEOREM HeaderTells == Spec => []HeaderTruthful
<1>1. IInv => HeaderTruthful
  BY DEF IInv, Header, HeaderTruthful
<1> QED
  BY <1>1, Invariance, PTL

(* While direct_compress() appends through one descriptor, no other has a   *)
(* stream.                                                                  *)
THEOREM WriterAlone == Spec => []OneWriter
<1>1. IInv => OneWriter
  BY DEF IInv
<1> QED
  BY <1>1, Invariance, PTL

(* Only writing and truncating change what a file contains; reading, even   *)
(* if it decompresses the file for good, opening, closing and the           *)
(* background thread do not.                                                *)
THEOREM OnlyWritesChange == Spec => ContentsKept
<1>1. IInv /\ [Next]_vars => [Data' # Data => \/ \E d \in Desc : Writes(d)
                                              \/ \E n \in Lengths : Truncate(n)
                                              \/ TruncateZero]_vars
  BY KeepsData
<1> QED
  BY <1>1, Invariance, PTL DEF Spec, ContentsKept

(* Every read returns the file's data, unless space has run out or the      *)
(* cache is one that a truncation to zero has left behind: no assertion of  *)
(* direct_decompress(), no stream that stands elsewhere and no page that is *)
(* missing from the cache makes it fail.                                    *)
ReadsAnswered == [][(\E d \in Desc : Reads(d)) => reply' = "right" \/ stale \/ failed']_vars

THEOREM ReadsAreAnswered == Spec => ReadsAnswered
<1>1. IInv /\ [Next]_vars => [(\E d \in Desc : Reads(d)) => reply' = "right" \/ stale \/ failed']_vars
  BY ReadsInv DEF Answered
<1> QED
  BY <1>1, Invariance, PTL DEF Spec, ReadsAnswered

(* Where nobody truncates to zero and the disk does not fill up, every read *)
(* succeeds, with the data of the file.                                     *)
THEOREM ReadsSucceed ==
    ASSUME "zero" \notin Calls, "space" \notin Failures
    PROVE  Spec => [](reply \in {"none", "right"})
<1>1. Init => Sound
  BY DEF Init, Sound
<1>2. IInv /\ Sound /\ [Next]_vars => Sound'
  <2> SUFFICES ASSUME IInv, Sound, [Next]_vars PROVE Sound'
    OBVIOUS
  <2>1. CASE UNCHANGED vars
    BY <2>1 DEF vars, Sound
  <2>2. CASE Next
    <3>1. ~failed' /\ ~stale' /\ ~stale
      BY <2>2, NothingFails DEF Sound
    <3>2. CASE \E d \in Desc : Reads(d)
      BY <3>1, <3>2, ReadsInv DEF Answered, Sound
    <3>3. CASE reply' = "none"
      BY <3>1, <3>3 DEF Sound
    <3> QED
      BY <2>2, <3>2, <3>3 DEF Next
  <2> QED
    BY <2>1, <2>2
<1>3. Sound => reply \in {"none", "right"}
  BY DEF Sound
<1> QED
  BY <1>1, <1>2, <1>3, Invariance, PTL DEF Spec

=============================================================================
