------------------------------- MODULE Images -------------------------------
(***************************************************************************)
(* What is on the disk: plain files, images, and temporary files, and the  *)
(* four programs that write them: the mounted file system (compressing and *)
(* decompressing whole files in the background, and writing a new file     *)
(* straight into an image), fusecompress_offline, and fsck.fusecompress,   *)
(* any of which may be killed.  The codecs are followed down to the writes *)
(* they make, each of which may fail or fall short (a full disk), and to   *)
(* what each codec and each caller makes of that.                          *)
(*                                                                         *)
(* FileTable and DataPath follow the mounted file system while the disk    *)
(* works; here at most one job runs, and no user opens a file that is      *)
(* being worked on, which is what they show.                               *)
(*                                                                         *)
(* The unit of length is what a codec's loop reads at a time (BUF_SIZE).   *)
(* The n-th unit a user writes is the number n, so that a lost, doubled or *)
(* displaced unit differs from the one that belongs there.                 *)
(***************************************************************************)
EXTENDS Integers, Sequences, FiniteSets

CONSTANTS
    Name,          \* names of users' files
    Temp,          \* names that file_create_temp() makes up
    Codec,         \* the codecs compiled in
    Compressible,  \* names that is_compressible() accepts
    Block,         \* WRITE_BUFFER_SIZE, in units
    MinBackground, \* min_filesize_background
    MaxLen,        \* length of the longest file (a bound on the model)
    Null,
    Programs,      \* the programs that are run (a bound on the model)
    Failures       \* what may fail

CodecName == {"null", "gz", "bz2", "lzo", "lzma"}

(* An image is larger than the two bytes that lzmaCompress() may return in *)
(* place of a length, and so is every file that is compressed.             *)
ASSUME ImagesConstants ==
    /\ Codec \subseteq CodecName /\ Compressible \subseteq Name
    /\ Name \cap Temp = {} /\ IsFiniteSet(Name) /\ IsFiniteSet(Temp)
    /\ Block \in Nat \ {0} /\ MaxLen \in Nat \ {0} /\ MinBackground \in Nat
    /\ Programs \subseteq {"mount", "direct", "cancel", "offline", "fsck"}
    /\ Failures \subseteq {"none", "short", "rename", "close", "crash", "open", "io"}

(* Null is none of the values it stands in for.                            *)
ASSUME NullAssumption ==
    /\ Null \notin Name \cup Temp /\ Null \notin CodecName /\ Null \notin {0, 1, 4}
    /\ Null \notin Seq(1 .. MaxLen)
    /\ Null \notin [img : BOOLEAN, codec : Codec \cup {Null}, size : 0 .. MaxLen, body : Seq(0 .. MaxLen + 1),
                    end : BOOLEAN]

VARIABLES
    dir,      \* dir[f]: the file called f, or Absent
    temps,    \* the temporary files there are; nobody reads one but the job that writes it
    contents, \* contents[f]: what users wrote to f, or Null (no file)
    harm,     \* (history) harm[f]: what happened to f that may have damaged it
    prog,     \* the program that runs
    job,      \* what it is writing
    off,      \* fusecompress_offline's arguments and the files it has yet to visit
    fsck,     \* fsck's counters, the files it has yet to visit, and its exit status
    leaks     \* (history) temporary files that a program left behind

vars == <<dir, temps, contents, harm, prog, job, off, fsck, leaks>>

Unit == 1 .. MaxLen
Gap == 0        \* a write fell short here, or a piece of a compressed stream is missing
Enc == MaxLen + 1   \* an image, read as the plain file it also is

Absent == Null

(* header_t and what follows it.  `end' is whether the stream was closed.   *)
Raw(data) == [img |-> FALSE, codec |-> Null, size |-> Len(data), body |-> data, end |-> TRUE]
NewImage(c, n) == [img |-> TRUE, codec |-> c, size |-> n, body |-> <<>>, end |-> FALSE]

Idle == [op |-> "none", pc |-> "start", name |-> Null, temp |-> Null, codec |-> Null, src |-> <<>>,
         new |-> Absent, size |-> 0, buf |-> <<>>, stuck |-> FALSE, ret |-> 0, ignored |-> FALSE, cancel |-> FALSE]
NoWalk == [comp |-> Null, recomp |-> Null, todo |-> {}, inner |-> FALSE]
NoCheck == [del |-> FALSE, todo |-> {}, found |-> 0, fixed |-> 0, warned |-> FALSE, unread |-> FALSE,
            exit |-> Null]

FAIL == -1
Odd == -2       \* the small number lzmaCompress() returns when its tail cannot be written

Data == Seq(0 .. MaxLen + 1)
Length == 0 .. MaxLen

IsFile(e) ==
    \/ e = Absent
    \/ /\ e.img \in BOOLEAN /\ e.end \in BOOLEAN
       /\ e.codec \in Codec \cup {Null} /\ (e.codec = Null) = ~e.img
       /\ e.size \in Length /\ e.body \in Data /\ Len(e.body) <= MaxLen

TypeOK ==
    /\ \A f \in Name : IsFile(dir[f])
    /\ IsFile(job.new)
    /\ temps \subseteq Temp
    /\ \A f \in Name : contents[f] = Null \/ contents[f] \in Seq(Unit)
    /\ harm \in [Name -> SUBSET {"ignored", "told", "crash", "short", "wrapped"}]
    /\ prog \in {"none", "mount", "offline", "fsck"}
    /\ job.op \in {"none", "compress", "decompress", "direct"}
    /\ job.pc \in {"start", "loop", "tail", "check"}
    /\ job.name \in Name \cup {Null} /\ job.temp \in Temp \cup {Null} /\ job.codec \in Codec \cup {Null}
    /\ job.src \in Data /\ job.size \in Length /\ job.buf \in Data
    /\ job.codec = "lzo" => Len(job.buf) <= Block
    /\ job.stuck \in BOOLEAN /\ job.ret \in Length \cup {FAIL, Odd}
    /\ job.ignored \in BOOLEAN /\ job.cancel \in BOOLEAN
    /\ off.comp \in Codec \cup {Null} /\ off.recomp \in Codec \cup {Null}
    /\ off.todo \subseteq Name /\ off.inner \in BOOLEAN
    /\ fsck.del \in BOOLEAN /\ fsck.todo \subseteq Name \cup Temp
    /\ fsck.found \in 0 .. Cardinality(Name \cup Temp) /\ fsck.fixed \in 0 .. fsck.found
    /\ fsck.warned \in BOOLEAN /\ fsck.unread \in BOOLEAN
    /\ fsck.exit \in {Null, 0, 1, 4}
    /\ leaks \subseteq Temp

\* The first n units a user writes.
Text(n) == [i \in 1 .. n |-> i]

Init ==
    /\ \E len \in [Name -> {-1, MaxLen}] :
        /\ dir = [f \in Name |-> IF len[f] >= 0 THEN Raw(Text(len[f])) ELSE Absent]
        /\ contents = [f \in Name |-> IF len[f] >= 0 THEN Text(len[f]) ELSE Null]
    /\ harm = [f \in Name |-> {}]
    /\ prog = "none" /\ job = Idle /\ off = NoWalk /\ fsck = NoCheck
    /\ temps = {} /\ leaks = {}

-----------------------------------------------------------------------------
(* Codecs.  A stream is the image's body, what the codec has buffered, and *)
(* whether its library has met an error and writes no more.  `ret' is what *)
(* its last call returned: units taken, or FAIL.                           *)

\* What becomes of one write() to the backing file.
Outcome == {"ok"} \cup (Failures \cap {"none", "short"})

Put(body, data, o) == IF o = "ok" THEN body \o data ELSE IF o = "short" THEN Append(body, Gap) ELSE body

\* The unit x goes into the buffer; or what was there is written, to make place for it.
Buffered(s, x) == [s EXCEPT !.buf = Append(@, x), !.ret = 1]
Flushed(s, x) == [s EXCEPT !.body = @ \o s.buf, !.buf = <<x>>, !.ret = 1]

(* write(), the null codec's stream; a piece of a unit is not a unit.       *)
nullWrite(s, x, o) ==
    IF o = "ok" THEN [s EXCEPT !.body = Append(@, x), !.ret = 1]
    ELSE [s EXCEPT !.ret = IF o = "short" THEN 0 ELSE FAIL]

\* Mutation: a full block takes one unit more.
lzowrite_Over(s, x, o) ==
    IF Len(s.buf) <= Block THEN Buffered(s, x)
    ELSE IF o = "ok" THEN Flushed(s, x)
    ELSE [s EXCEPT !.body = Put(@, s.buf, o), !.ret = FAIL]

(* lzowrite() and lzowriteblock(): a block is written when it is full and   *)
(* more comes.  If that fails it stays, and what came is not taken.         *)
lzowrite(s, x, o) ==
    IF Len(s.buf) < Block THEN Buffered(s, x)
    ELSE IF o = "ok" THEN Flushed(s, x)
    ELSE [s EXCEPT !.body = Put(@, s.buf, o), !.ret = FAIL]

(* lzmaWrite(), and the body of lzmaCompress()'s loop: the encoder has taken *)
(* the unit and forgotten its output, whatever becomes of that.             *)
lzmaWrite(s, x, o) ==
    IF o = "ok" THEN Flushed(s, x)
    ELSE [s EXCEPT !.body = Append(@, Gap), !.buf = <<x>>, !.ret = FAIL]

(* gzwrite() and BZ2_bzwrite(): after an error the stream refuses to go on. *)
libWrite(err, s, x, o) ==
    IF s.stuck THEN [s EXCEPT !.ret = err]
    ELSE IF o = "ok" THEN Flushed(s, x)
    ELSE [s EXCEPT !.body = Put(@, s.buf, o), !.stuck = TRUE, !.ret = err]

(* compressor->write of the codec c.  The libraries write when it suits    *)
(* them: `flush'.                                                          *)
CodecWrite(c, s, x, o, flush) ==
    IF c = "null" THEN nullWrite(s, x, o)
    ELSE IF c = "lzo" THEN lzowrite(s, x, o)
    ELSE IF ~s.stuck /\ (s.buf = <<>> \/ ~flush) THEN Buffered(s, x)
    ELSE IF c = "lzma" THEN lzmaWrite(s, x, o)
    ELSE libWrite(IF c = "gz" THEN 0 ELSE FAIL, s, x, o)

(* compressor->close: the rest of the buffer.                              *)
CodecClose(c, s, o) ==
    IF c = "null" THEN [s EXCEPT !.end = TRUE]
    ELSE IF s.stuck THEN s
    ELSE [s EXCEPT !.body = Put(@, s.buf, o), !.end = (o = "ok" \/ c = "lzo")]

(* When the loop of a codec's compress function gives up.  The others take *)
(* a write's -1 for a large number, or test for a value that is not the    *)
(* error value of their library.                                           *)
LoopFails(c, ret, o) ==
    \/ c = "bz2" /\ ret = FAIL
    \/ c = "lzma" /\ ret = FAIL /\ o = "short"

(* What a codec makes of an image: the data it finds, and whether it then  *)
(* reports an error or just the end of the file.                           *)
Decoded(e) ==
    LET gaps == {i \in 1 .. Len(e.body) : e.body[i] = Gap}
        first == CHOOSE i \in gaps : \A j \in gaps : i <= j
    IN  IF ~e.img \/ e.codec = "null" THEN [data |-> e.body, err |-> FALSE]
        ELSE IF gaps = {} THEN [data |-> e.body, err |-> (e.codec = "bz2" /\ ~e.end)]
        ELSE [data |-> SubSeq(e.body, 1, first - 1),
              err |-> e.codec \in {"bz2", "lzo"} \/ (e.codec = "lzma" /\ first < Len(e.body))]

-----------------------------------------------------------------------------
(* Files *)

Exists(x) == dir[x] # Absent

\* What read() finds in the backing file.
Bytes(e) == IF e.img THEN <<Enc>> ELSE e.body

\* What a user finds: no more than the header says.
Shown(e) ==
    LET d == Decoded(e).data
    IN  IF e.img /\ e.size < Len(d) THEN SubSeq(d, 1, e.size) ELSE d

\* While it is written, what the codec has buffered is part of a file.
Pending(f) == IF job.op = "direct" /\ job.name = f THEN job.buf ELSE <<>>

Intact(f) ==
    IF contents[f] = Null THEN ~Exists(f)
    ELSE Exists(f) /\ Shown([dir[f] EXCEPT !.body = @ \o Pending(f)]) = contents[f]

\* The stream of the job that writes e, and e after a call that left it as s.
Stream(e) == [body |-> e.body, end |-> e.end, buf |-> job.buf, stuck |-> job.stuck, ret |-> 0]
Written(e, s) == [e EXCEPT !.body = s.body, !.end = s.end]

Harmed(f, ways) == harm' = [harm EXCEPT ![f] = @ \cup ways]

(* The job is over.  fusecompress_offline gives up after an error.         *)
Ends == job' = Idle /\ UNCHANGED <<prog, off>>
Aborts ==
    IF prog = "offline" /\ ~off.inner
    THEN job' = Idle /\ prog' = "none" /\ off' = NoWalk
    ELSE Ends

-----------------------------------------------------------------------------
(* Compressing a whole file: do_compress(), and transform() with -c.       *)

(* What is known when the temporary file is there and has a header.  (It   *)
(* is the end of transform() that writes its header, which makes no        *)
(* difference: there is no way to the rename around it.)                   *)
Compresses(f, c) ==
    \E t \in Temp \ temps :
        /\ temps' = temps \cup {t}
        /\ job' = [Idle EXCEPT !.op = "compress", !.pc = "loop", !.name = f, !.temp = t, !.codec = c,
                               !.src = Bytes(dir[f]), !.size = Len(Bytes(dir[f])),
                               !.new = NewImage(c, Len(Bytes(dir[f])))]

(* do_compress() up to the codec: neither small nor compressed already.    *)
CompressStart(f, c) ==
    /\ prog = "mount" /\ job.op = "none"
    /\ Exists(f) /\ ~dir[f].img /\ Len(dir[f].body) >= MinBackground /\ f \in Compressible
    /\ Compresses(f, c)
    /\ UNCHANGED <<dir, contents, harm, prog, off, fsck, leaks>>

(* Once around the loop of the codec's compress function.                  *)
CompressStep(o, flush) ==
    /\ job.op = "compress" /\ job.pc = "loop" /\ job.src # <<>>
    /\ LET s == CodecWrite(job.codec, Stream(job.new), Head(job.src), o, flush)
           failed == LoopFails(job.codec, s.ret, o)
       IN  job' = [job EXCEPT !.src = Tail(@), !.new = Written(@, s), !.buf = s.buf, !.stuck = s.stuck,
                                 !.ret = IF failed THEN FAIL ELSE @ + 1,
                                 !.ignored = @ \/ s.ret # 1,
                                 !.pc = IF failed THEN "check" ELSE IF job.cancel THEN "tail" ELSE @]
    /\ UNCHANGED <<dir, temps, contents, harm, prog, off, fsck, leaks>>

(* The source has come to its end, or the job was cancelled: the stream is *)
(* closed, and only lzmaCompress() looks at what came of that.             *)
CompressTail(o) ==
    /\ job.op = "compress" /\ (job.pc = "tail" \/ (job.pc = "loop" /\ job.src = <<>>))
    /\ LET s == CodecClose(job.codec, Stream(job.new), o)
           told == job.codec = "lzma" /\ o = "none"
       IN  job' = [job EXCEPT !.pc = "check", !.new = Written(@, s), !.ret = IF told THEN Odd ELSE @,
                                 !.ignored = @ \/ (o # "ok" /\ job.codec # "null" /\ ~told)]
    /\ UNCHANGED <<dir, temps, contents, harm, prog, off, fsck, leaks>>

(* cancel_compression() by a thread that wants the file.                   *)
Cancel ==
    /\ "cancel" \in Programs /\ prog = "mount"
    /\ job.op = "compress" /\ job.pc = "loop" /\ ~job.cancel
    /\ job' = [job EXCEPT !.cancel = TRUE]
    /\ UNCHANGED <<dir, temps, contents, harm, prog, off, fsck, leaks>>

-----------------------------------------------------------------------------
(* Decompressing a whole file: do_decompress(), and transform() without -c *)

Decompresses(f) ==
    \E t \in Temp \ temps :
        /\ temps' = temps \cup {t}
        /\ job' = [Idle EXCEPT !.op = "decompress", !.pc = "loop", !.name = f, !.temp = t,
                               !.size = dir[f].size, !.new = Raw(<<>>)]

DecompressStart(f) ==
    /\ prog = "mount" /\ job.op = "none"
    /\ Exists(f) /\ dir[f].img
    /\ Decompresses(f)
    /\ UNCHANGED <<dir, contents, harm, prog, off, fsck, leaks>>

\* s without the unit at i.
Omit(s, i) == SubSeq(s, 1, i - 1) \o SubSeq(s, i + 1, Len(s))

(* The loop of the codec's decompress function: a write that fails is      *)
(* noticed, one that falls short is not counted in full.                   *)
DecompressRun(o) ==
    /\ job.op = "decompress" /\ job.pc = "loop"
    /\ LET d == Decoded(dir[job.name])
           n == Len(d.data)
       IN  \/ /\ o = "ok"
              /\ job' = [job EXCEPT !.pc = "check", !.new = Raw(d.data), !.ret = IF d.err THEN FAIL ELSE n]
           \/ /\ o = "none" /\ n > 0
              /\ job' = [job EXCEPT !.pc = "check", !.ret = FAIL]
           \/ /\ o = "short"
              /\ \E k \in 1 .. n :
                    job' = [job EXCEPT !.pc = "check", !.new = Raw(Omit(d.data, k)),
                                       !.ret = IF d.err THEN FAIL ELSE n - 1]
    /\ UNCHANGED <<dir, temps, contents, harm, prog, off, fsck, leaks>>

-----------------------------------------------------------------------------
(* The end of both: is the new file good, and does it take its name?       *)

Checking == job.op \in {"compress", "decompress"} /\ job.pc = "check"

\* Mutation: a length other than the file's is good enough.
Accepts_AnySize == job.ret # FAIL /\ ~job.cancel

(* do_compress() and do_decompress() compare the length with the file's;   *)
(* transform() only asks for an error.                                     *)
Accepts ==
    /\ job.ret # FAIL
    /\ prog = "mount" => job.ret = job.size /\ ~job.cancel

\* Mutation: the temporary file stays.
Reject_Keeps ==
    /\ Checking /\ ~Accepts
    /\ Aborts
    /\ UNCHANGED <<dir, temps, contents, harm, fsck, leaks>>

(* The way out of an unsuccessful job.                                     *)
Reject ==
    /\ Checking /\ ~Accepts
    /\ temps' = temps \ {job.temp}
    /\ Aborts
    /\ UNCHANGED <<dir, contents, harm, fsck, leaks>>

(* What may be wrong with a file that was accepted: its codec or transform() *)
(* ignored a failure, or transform() took the beginning of a file for the   *)
(* file, or compressed what it had failed to decompress.                   *)
Ways ==
    (IF job.ignored \/ job.ret = Odd THEN {"ignored"} ELSE {})
    \cup (IF prog = "offline" /\ job.op = "decompress" /\ job.ret # job.size THEN {"short"} ELSE {})
    \cup (IF prog = "offline" /\ job.op = "compress" /\ dir[job.name].img THEN {"wrapped"} ELSE {})

(* rename(), after which the job is done; transform() still gives up if it *)
(* cannot set the times.                                                   *)
Replace ==
    /\ Checking /\ Accepts
    /\ dir' = [dir EXCEPT ![job.name] = job.new] /\ temps' = temps \ {job.temp}
    /\ Harmed(job.name, Ways)
    /\ Ends \/ ("io" \in Failures /\ Aborts)
    /\ UNCHANGED <<contents, fsck, leaks>>

(* rename() fails: do_compress() and transform() remove the temporary      *)
(* file, do_decompress() leaves it.                                        *)
RenameFails ==
    /\ "rename" \in Failures
    /\ Checking /\ Accepts
    /\ IF prog = "mount" /\ job.op = "decompress"
       THEN leaks' = leaks \cup {job.temp} /\ UNCHANGED temps
       ELSE temps' = temps \ {job.temp} /\ UNCHANGED leaks
    /\ Aborts
    /\ UNCHANGED <<dir, contents, harm, fsck>>

(* do_compress() returns when it cannot close a file.                      *)
CloseFails ==
    /\ "close" \in Failures
    /\ prog = "mount" /\ job.op = "compress" /\ job.pc = "check"
    /\ leaks' = leaks \cup {job.temp}
    /\ Ends
    /\ UNCHANGED <<dir, temps, contents, harm, fsck>>

-----------------------------------------------------------------------------
(* Writing a new file, from the first write to the last release *)

DirectOpen(f, c) ==
    /\ "direct" \in Programs
    /\ prog = "mount" /\ job.op = "none"
    /\ ~Exists(f) /\ f \in Compressible
    /\ dir' = [dir EXCEPT ![f] = Raw(<<>>)]
    /\ contents' = [contents EXCEPT ![f] = <<>>]
    /\ harm' = [harm EXCEPT ![f] = {}]
    /\ job' = [Idle EXCEPT !.op = "direct", !.name = f, !.codec = c]
    /\ UNCHANGED <<temps, prog, off, fsck, leaks>>

(* direct_compress() of the next n units, 1 or 2, at the end of the file,   *)
(* the last of them in one write of the codec's.  The first call writes a  *)
(* header.  A codec that fails has taken units it does not own up to, and  *)
(* they stay where they are when the user tries again (which succeeds once *)
(* a getattr has read the length that the failure made unknown).           *)
Given(e, n, o, flush) ==
    LET x == Len(contents[job.name]) + 1
        s == Stream(e)
        t == CodecWrite(job.codec, s, x, "ok", FALSE)
    IN  IF n = 1 THEN CodecWrite(job.codec, s, x, o, flush)
        ELSE IF t.ret # 1 THEN t
        ELSE LET u == CodecWrite(job.codec, t, x + 1, o, flush)
             IN  [u EXCEPT !.ret = IF @ = 1 THEN 2 ELSE IF job.codec = "null" THEN 1 ELSE @]

(* Each call that succeeds writes the new length into the header.          *)
DirectWrite(n, o, flush) ==
    /\ job.op = "direct" /\ Len(contents[job.name]) + n <= MaxLen
    /\ Len(dir[job.name].body) + Len(job.buf) + n <= MaxLen
    /\ LET f == job.name
           e == IF dir[f].img THEN dir[f] ELSE NewImage(job.codec, 0)
           s == Given(e, n, o, flush)
           taken == IF s.ret = FAIL THEN 0 ELSE s.ret
       IN  /\ dir' = [dir EXCEPT ![f] = [e EXCEPT !.body = s.body, !.size = @ + taken]]
           /\ contents' = [contents EXCEPT ![f] = Text(Len(@) + taken)]
           /\ Harmed(f, IF taken = n THEN {} ELSE {"told"})
           /\ job' = [job EXCEPT !.pc = "loop", !.buf = s.buf, !.stuck = s.stuck]
    /\ UNCHANGED <<temps, prog, off, fsck, leaks>>

(* release(): nobody hears of a codec's close that fails.                  *)
DirectClose(o) ==
    /\ job.op = "direct"
    /\ IF job.pc = "start" THEN o = "ok" /\ UNCHANGED <<dir, harm>>
       ELSE /\ dir' = [dir EXCEPT ![job.name] = Written(dir[job.name], CodecClose(job.codec, Stream(dir[job.name]), o))]
            /\ Harmed(job.name, IF job.codec # "null" /\ (o # "ok" \/ job.stuck) THEN {"ignored"} ELSE {})
    /\ Ends
    /\ UNCHANGED <<temps, contents, fsck, leaks>>

-----------------------------------------------------------------------------
(* fusecompress_offline *)

OfflineStart(c, r) ==
    /\ "offline" \in Programs /\ prog = "none"
    /\ prog' = "offline" /\ fsck' = NoCheck
    /\ off' = [comp |-> c, recomp |-> r, todo |-> {f \in Name : Exists(f)}, inner |-> FALSE]
    /\ UNCHANGED <<dir, temps, contents, harm, job, leaks>>

Visits(f) == prog = "offline" /\ job.op = "none" /\ ~off.inner /\ f \in off.todo
Visited(f) == [off EXCEPT !.todo = @ \ {f}]

(* transform() has to decompress f before it compresses it.                *)
Recompresses(f) == off.comp # Null /\ off.recomp # Null /\ dir[f].codec = off.recomp

(* transform() leaves f alone, or cannot open it.                          *)
OfflineSkip(f) ==
    /\ Visits(f)
    /\ \/ "open" \in Failures
       \/ off.comp # Null /\ f \notin Compressible
       \/ off.comp # Null /\ dir[f].img /\ ~Recompresses(f)
       \/ off.comp = Null /\ ~dir[f].img
    /\ off' = Visited(f)
    /\ UNCHANGED <<dir, temps, contents, harm, prog, job, fsck, leaks>>

OfflineCompress(f) ==
    /\ Visits(f) /\ off.comp # Null /\ f \in Compressible /\ ~dir[f].img
    /\ off' = Visited(f)
    /\ Compresses(f, off.comp)
    /\ UNCHANGED <<dir, contents, harm, prog, fsck, leaks>>

OfflineDecompress(f) ==
    /\ Visits(f)
    /\ \/ off.comp = Null /\ dir[f].img /\ off' = Visited(f)
       \/ f \in Compressible /\ Recompresses(f) /\ off' = [off EXCEPT !.inner = TRUE]
    /\ Decompresses(f)
    /\ UNCHANGED <<dir, contents, harm, prog, fsck, leaks>>

(* Back from the transform() that was to decompress f, whatever it returned. *)
OfflineRecompress(f) ==
    /\ prog = "offline" /\ job.op = "none" /\ off.inner /\ f \in off.todo
    /\ f \in Compressible /\ (Recompresses(f) \/ ~dir[f].img)
    /\ off' = [Visited(f) EXCEPT !.inner = FALSE]
    /\ Compresses(f, off.comp)
    /\ UNCHANGED <<dir, contents, harm, prog, fsck, leaks>>

(* transform() cannot make a temporary file.                               *)
OfflineNoTemp ==
    /\ prog = "offline" /\ job.op = "none" /\ temps = Temp
    /\ \E f \in off.todo :
        \/ off.comp = Null /\ dir[f].img
        \/ off.comp # Null /\ f \in Compressible /\ (Recompresses(f) \/ ~dir[f].img)
    /\ prog' = "none" /\ off' = NoWalk
    /\ UNCHANGED <<dir, temps, contents, harm, job, fsck, leaks>>

(* cleanup_handler(): SIGINT, SIGTERM or SIGHUP.                           *)
OfflineSignal ==
    /\ prog = "offline" /\ job.op # "none"
    /\ temps' = temps \ {job.temp}
    /\ prog' = "none" /\ job' = Idle /\ off' = NoWalk
    /\ UNCHANGED <<dir, contents, harm, fsck, leaks>>

OfflineEnd ==
    /\ prog = "offline" /\ job.op = "none" /\ ~off.inner /\ off.todo = {}
    /\ prog' = "none" /\ off' = NoWalk
    /\ UNCHANGED <<dir, temps, contents, harm, job, fsck, leaks>>

-----------------------------------------------------------------------------
(* fsck.fusecompress *)

FsckStart(d) ==
    /\ "fsck" \in Programs /\ prog = "none"
    /\ prog' = "fsck"
    /\ fsck' = [NoCheck EXCEPT !.del = d, !.todo = {f \in Name : Exists(f)} \cup temps]
    /\ UNCHANGED <<dir, temps, contents, harm, job, off, leaks>>

\* Mutation: the end of the data is not an error.
Flagged_Short(e) == e.img /\ Decoded(e).err /\ Len(Decoded(e).data) < e.size

(* checkfile() cannot read as much of an image as its header says.         *)
Flagged(e) == e.img /\ Len(Decoded(e).data) < e.size

\* Mutation: a file counts as repaired whether it was removed or not.
Unlinked_Always == 1

(* do_unlink() counts what it removes, and removes only when asked to (-d). *)
Unlinked == IF fsck.del THEN 1 ELSE 0

(* fix().  With a damaged file goes the memory of what it contained; with   *)
(* an undamaged one it would not.                                          *)
Fix(x) ==
    /\ fsck' = [fsck EXCEPT !.todo = @ \ {x}, !.found = @ + 1, !.fixed = @ + Unlinked]
    /\ IF ~fsck.del THEN UNCHANGED <<dir, temps, contents, harm, leaks>>
       ELSE IF x \in Temp
       THEN temps' = temps \ {x} /\ leaks' = leaks \ {x} /\ UNCHANGED <<dir, contents, harm>>
       ELSE /\ dir' = [dir EXCEPT ![x] = Absent]
            /\ IF Intact(x) THEN UNCHANGED <<contents, harm>>
               ELSE contents' = [contents EXCEPT ![x] = Null] /\ harm' = [harm EXCEPT ![x] = {}]
            /\ UNCHANGED <<temps, leaks>>

(* checkfile(): a temporary file, a broken image, or neither.              *)
FsckFile(x) ==
    /\ prog = "fsck" /\ x \in fsck.todo
    /\ IF x \in Temp \/ Flagged(dir[x]) THEN Fix(x)
       ELSE fsck' = [fsck EXCEPT !.todo = @ \ {x}] /\ UNCHANGED <<dir, temps, contents, harm, leaks>>
    /\ UNCHANGED <<prog, job, off>>

(* A file that cannot be opened gets a warning; one that cannot be read, or *)
(* whose codec does not open or close, is an error nothing is done about.  *)
FsckCannot(x) ==
    /\ prog = "fsck" /\ x \in fsck.todo
    /\ \/ "open" \in Failures /\ fsck' = [fsck EXCEPT !.todo = @ \ {x}, !.warned = TRUE]
       \/ /\ "io" \in Failures /\ x \in Name
          /\ fsck' = [fsck EXCEPT !.todo = @ \ {x}, !.found = @ + 1, !.unread = TRUE]
    /\ UNCHANGED <<dir, temps, contents, harm, prog, job, off, leaks>>

FsckEnd ==
    /\ prog = "fsck" /\ fsck.todo = {}
    /\ prog' = "none"
    /\ fsck' = [fsck EXCEPT !.exit = IF fsck.found = 0 THEN 0 ELSE IF fsck.found > fsck.fixed THEN 4 ELSE 1]
    /\ UNCHANGED <<dir, temps, contents, harm, job, off, leaks>>

-----------------------------------------------------------------------------
(* Programs come and go *)

Mount ==
    /\ "mount" \in Programs /\ prog = "none"
    /\ prog' = "mount" /\ fsck' = NoCheck
    /\ UNCHANGED <<dir, temps, contents, harm, job, off, leaks>>

Umount ==
    /\ prog = "mount" /\ job.op = "none"
    /\ prog' = "none"
    /\ UNCHANGED <<dir, temps, contents, harm, job, off, fsck, leaks>>

(* The program is killed.  What a codec has buffered is lost; what was     *)
(* written to files is not.                                                *)
Crash ==
    /\ "crash" \in Failures /\ prog \in {"mount", "offline"} /\ job.op # "none"
    /\ leaks' = IF job.op = "direct" THEN leaks ELSE leaks \cup {job.temp}
    /\ IF job.op = "direct" THEN Harmed(job.name, {"crash"}) ELSE UNCHANGED harm
    /\ prog' = "none" /\ job' = Idle /\ off' = NoWalk
    /\ UNCHANGED <<dir, temps, contents, fsck>>

Next ==
    \/ Mount \/ Umount \/ Crash \/ Cancel
    \/ \E f \in Name, c \in Codec : CompressStart(f, c) \/ DirectOpen(f, c)
    \/ \E o \in Outcome, flush \in BOOLEAN : CompressStep(o, flush)
    \/ \E n \in {1, 2}, o \in Outcome, flush \in BOOLEAN : DirectWrite(n, o, flush)
    \/ \E o \in Outcome : CompressTail(o) \/ DecompressRun(o) \/ DirectClose(o)
    \/ \E f \in Name : DecompressStart(f)
    \/ Reject \/ Replace \/ RenameFails \/ CloseFails
    \/ \E c \in Codec \cup {Null}, r \in Codec \cup {Null} : OfflineStart(c, r)
    \/ \E f \in Name : OfflineSkip(f) \/ OfflineCompress(f) \/ OfflineDecompress(f) \/ OfflineRecompress(f)
    \/ OfflineNoTemp \/ OfflineSignal \/ OfflineEnd
    \/ \E d \in BOOLEAN : FsckStart(d)
    \/ \E x \in Name \cup Temp : FsckFile(x) \/ FsckCannot(x)
    \/ FsckEnd

Spec == Init /\ [][Next]_vars

-----------------------------------------------------------------------------
(* Properties *)

(* A file contains what users wrote, whatever was compressed, decompressed, *)
(* recompressed, cancelled, killed, refused by a full disk or removed by    *)
(* fsck since: unless its codec ignored a failed write, its user was told   *)
(* of one, it was being written when the program was killed, or            *)
(* fusecompress_offline ignored a wrong length or a failed decompression.  *)
ContentsKept == \A f \in Name : harm[f] = {} => Intact(f)

(* A damaged image is one that fsck notices, unless a user was told of a    *)
(* failed write and went on, or fusecompress_offline made another file of  *)
(* an image it could not decompress.                                       *)
DamageSeen ==
    \A f \in Name :
        Exists(f) /\ dir[f].img /\ ~Intact(f) /\ harm[f] \cap {"told", "short", "wrapped"} = {}
            => Flagged(dir[f])

(* fsck's exit status is what a caller may rely on: 0 and 1 mean that no    *)
(* broken image and no temporary file is left (among those it could open),  *)
(* 4 that there is one, or a file it could not read.                       *)
FsckTruthful ==
    LET wrong == {f \in Name : Exists(f) /\ Flagged(dir[f])} \cup temps
    IN  /\ fsck.exit \in {0, 1} /\ ~fsck.warned => wrong = {}
        /\ fsck.exit = 4 => wrong # {} \/ fsck.unread

(* A job that ends leaves no temporary file, unless it was killed, could    *)
(* not close it, or was do_decompress() and could not rename it.           *)
TempsAccounted == temps \subseteq leaks \cup {job.temp}

=============================================================================
