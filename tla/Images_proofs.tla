---------------------------- MODULE Images_proofs ----------------------------
(***************************************************************************)
(* What is on the disk stays what users wrote: theorems about Images, for  *)
(* any names, temporary files, codecs, block size and file length, any     *)
(* choice of the programs that run and any choice of what fails.           *)
(*                                                                         *)
(* The invariant says of each kind of job how far it has come: of a codec  *)
(* that compresses, that what it has written, what it holds and what it    *)
(* has yet to read are the file, or that something was lost, was ignored   *)
(* and makes the image shorter than its header says.  The rest of the      *)
(* invariant says that such an image is all that can be wrong with a file. *)
(***************************************************************************)
EXTENDS Images, FiniteSetTheorems, SequenceTheorems, WellFoundedInduction, TLAPS

-----------------------------------------------------------------------------
(* The inductive invariant *)

FileRec == [img : BOOLEAN, codec : Codec \cup {Null}, size : Length, body : Data, end : BOOLEAN]
JobRec == [op : {"none", "compress", "decompress", "direct"}, pc : {"start", "loop", "tail", "check"},
           name : Name \cup {Null}, temp : Temp \cup {Null}, codec : Codec \cup {Null}, src : Data,
           new : FileRec \cup {Absent}, size : Length, buf : Data, stuck : BOOLEAN,
           ret : Length \cup {FAIL, Odd}, ignored : BOOLEAN, cancel : BOOLEAN]
OffRec == [comp : Codec \cup {Null}, recomp : Codec \cup {Null}, todo : SUBSET Name, inner : BOOLEAN]
CheckRec == [del : BOOLEAN, todo : SUBSET (Name \cup Temp), found : Nat, fixed : Nat, warned : BOOLEAN,
             unread : BOOLEAN, exit : {Null, 0, 1, 4}]

\* A file, whether an image or not, of a length that the model allows.
Formed(e) == (e.codec = Null) = ~e.img /\ Len(e.body) <= MaxLen

Types ==
    /\ dir \in [Name -> FileRec \cup {Absent}] /\ \A f \in Name : Exists(f) => Formed(dir[f])
    /\ contents \in [Name -> Seq(Unit) \cup {Null}]
    /\ harm \in [Name -> SUBSET {"ignored", "told", "crash", "short", "wrapped"}]
    /\ prog \in {"none", "mount", "offline", "fsck"}
    /\ job \in JobRec /\ (job.new # Absent => Formed(job.new)) /\ (job.codec = "lzo" => Len(job.buf) <= Block)
    /\ off \in OffRec /\ fsck \in CheckRec
    /\ temps \subseteq Temp /\ leaks \subseteq Temp

\* Who works, on what, and how far it is.
Control ==
    /\ job.op = "none" => job = Idle
    /\ job.op # "none" => prog \in {"mount", "offline"} /\ job.name \in Name /\ Exists(job.name)
    /\ job.op \in {"compress", "direct"} => job.codec \in Codec
    /\ job.op \in {"compress", "decompress"} => job.pc # "start" /\ job.temp \in Temp /\ job.new # Absent
    /\ job.op = "decompress" => job.pc # "tail" /\ dir[job.name].img
    /\ job.op = "direct" => prog = "mount" /\ job.pc \in {"start", "loop"}
    /\ job.op = "compress" /\ prog = "mount" => ~dir[job.name].img
    /\ job.cancel => prog = "mount" /\ job.op = "compress"
    /\ prog = "offline" => (\A f \in off.todo : Exists(f)) /\ (off.inner => off.comp # Null)

\* The one temporary file that is not left behind is the job's.
Temporaries == temps \subseteq leaks \cup (IF job.op \in {"none", "direct"} THEN {} ELSE {job.temp})

Wrong == {f \in Name : Exists(f) /\ Flagged(dir[f])} \cup temps

\* What fsck counts has been there, and what it has not seen is yet to be visited.
Counted ==
    /\ fsck.fixed <= fsck.found /\ fsck.found + Cardinality(fsck.todo) <= Cardinality(Name \cup Temp)
    /\ prog \in {"mount", "offline", "fsck"} => fsck.exit = Null
    /\ prog = "fsck" =>
        /\ fsck.todo \subseteq {f \in Name : Exists(f)} \cup temps
        /\ fsck.found = fsck.fixed /\ ~fsck.warned => Wrong \subseteq fsck.todo
        /\ fsck.found > fsck.fixed => Wrong \ fsck.todo # {} \/ fsck.unread
    /\ FsckTruthful

HasGap(s) == \E i \in 1 .. Len(s) : s[i] = Gap

\* The data of an image, as its codec finds it.
Found(e) == Decoded(e).data

(* What has been written, what the codec holds, and what is yet to be read, *)
(* are the file, unless something was lost and ignored, and then it shows.  *)
Compressing ==
    job.op = "compress" =>
        /\ job.size = Len(Bytes(dir[job.name])) /\ job.new.size = job.size
        /\ job.new.img /\ job.new.codec = job.codec
        /\ job.pc \in {"loop", "tail"} =>
            /\ job.codec = "null" => job.buf = <<>>
            /\ job.stuck => job.buf # <<>>
            /\ job.codec # "null" /\ job.buf = <<>> => job.new.body = <<>>
            /\ job.ret \in Nat /\ job.ret + Len(job.src) = job.size
            /\ Len(job.new.body) + Len(job.buf) + Len(job.src) <= job.size
            /\ \/ (job.new.body \o job.buf) \o job.src = Bytes(dir[job.name]) /\ ~job.stuck
               \/ /\ job.ignored
                  /\ \/ job.codec # "null" /\ HasGap(job.new.body)
                     \/ Len(job.new.body) + Len(job.buf) + Len(job.src) < job.size
        /\ job.pc = "tail" => job.cancel
        /\ job.pc = "check" /\ job.ret # FAIL /\ ~job.cancel =>
            \/ job.new.body = Bytes(dir[job.name])
            \/ /\ job.ignored \/ job.ret = Odd
               /\ Len(Found(job.new)) < job.size \/ Found(job.new) = Bytes(dir[job.name])

\* A result of full length is the data.
Decompressing ==
    job.op = "decompress" =>
        /\ job.size = dir[job.name].size
        /\ job.pc = "check" =>
            LET d == Found(dir[job.name])
            IN  \/ job.ret = FAIL
                \/ job.new = Raw(d) /\ job.ret = Len(d)
                \/ job.ret = Len(d) - 1 /\ job.new.size = Len(job.new.body) /\ ~job.new.img

\* What was written and what the codec holds are what the user wrote, unless the user was told.
Writing ==
    job.op = "direct" =>
        LET f == job.name
        IN  /\ harm[f] \subseteq {"told"}
            /\ contents[f] # Null /\ contents[f] = Text(Len(contents[f])) /\ dir[f].size = Len(contents[f])
            /\ Len(dir[f].body) + Len(job.buf) <= MaxLen
            /\ job.codec = "null" => job.buf = <<>>
            /\ job.stuck => job.buf # <<>>
            /\ job.pc = "start" => dir[f] = Raw(<<>>) /\ contents[f] = <<>> /\ job.buf = <<>>
            /\ job.pc = "loop" =>
                dir[f].img /\ dir[f].codec = job.codec /\ (job.codec # "null" => job.buf # <<>>)
            /\ "told" \notin harm[f] => dir[f].body \o job.buf = contents[f] /\ ~job.stuck

Light(h) == h \cap {"told", "short", "wrapped"} = {}

(* A file contains what was written, or is an image that is shorter than    *)
(* its header says and something is known to have happened to it.           *)
Holds(e, text, h) ==
    /\ e.size = Len(text)
    /\ Found(e) = text \/ (e.img /\ Len(Found(e)) < e.size /\ h # {})

Files ==
    \A f \in Name :
        /\ contents[f] = Null => ~Exists(f)
        /\ ~Exists(f) /\ contents[f] # Null => harm[f] # {}
        /\ Light(harm[f]) /\ Exists(f) /\ ~(job.op = "direct" /\ job.name = f)
            => Holds(dir[f], contents[f], harm[f])

IInv == Types /\ Control /\ Temporaries /\ Counted /\ Compressing /\ Decompressing /\ Writing /\ Files

-----------------------------------------------------------------------------
(* Sequences of units *)

(* A non-empty set of numbers has a least one.                              *)
LEMMA Least ==
    ASSUME NEW S \in SUBSET Nat, S # {}
    PROVE  \E m \in S : \A k \in S : m <= k
<1> DEFINE R == OpToRel(<, Nat)
<1>1. IsWellFoundedOn(R, Nat)
  BY NatLessThanWellFounded, Zenon
<1>2. \A x, y \in Nat : x < y => <<x, y>> \in R
  BY DEF OpToRel
<1>3. PICK m \in S : \A y \in S : ~ (<<y, m>> \in R)
  <2> HIDE DEF R
  <2> QED
    BY <1>1, WFMin
<1>4. \A k \in S : ~(k < m)
  <2> HIDE DEF R
  <2> QED
    BY <1>2, <1>3
<1> QED
  BY <1>4

(* What a user writes is a sequence of units, and data without a gap.       *)
LEMMA TextType ==
    ASSUME NEW n \in Length
    PROVE  /\ Text(n) \in Seq(Unit) /\ Len(Text(n)) = n
           /\ \A i \in 1 .. n : Text(n)[i] = i
<1>1. n \in Nat /\ n <= MaxLen
  BY ImagesConstants DEF Length
<1>2. \A i \in 1 .. n : i \in Unit
  BY <1>1, ImagesConstants DEF Unit
<1>3. Text(n) \in Seq(Unit)
  BY <1>1, <1>2, IsASeq DEF Text
<1>4. DOMAIN Text(n) = 1 .. n
  BY DEF Text
<1> QED
  BY <1>1, <1>3, <1>4, LenProperties DEF Text

LEMMA TextData ==
    ASSUME NEW s \in Seq(Unit), Len(s) <= MaxLen
    PROVE  s \in Data /\ Len(s) \in Length /\ ~HasGap(s)
<1>1. Unit \subseteq 0 .. MaxLen + 1
  BY ImagesConstants DEF Unit
<1>2. s \in Data
  BY <1>1, SeqMonotonic DEF Data
<1>3. \A i \in 1 .. Len(s) : s[i] \in Unit
  BY ElementOfSeq
<1> QED
  BY <1>2, <1>3, LenProperties, ImagesConstants DEF HasGap, Unit, Gap, Length

(* The next unit.                                                           *)
LEMMA TextNext ==
    ASSUME NEW n \in Nat, n + 1 <= MaxLen
    PROVE  Text(n) \o <<n + 1>> = Text(n + 1)
<1>1. n \in Length /\ n + 1 \in Length /\ n + 1 \in Unit
  BY ImagesConstants DEF Length, Unit
<1>2. <<n + 1>> \in Seq(Unit) /\ Len(<<n + 1>>) = 1
  BY <1>1
<1>3. /\ Text(n) \in Seq(Unit) /\ Len(Text(n)) = n /\ \A i \in 1 .. n : Text(n)[i] = i
      /\ Text(n + 1) \in Seq(Unit) /\ Len(Text(n + 1)) = n + 1 /\ \A i \in 1 .. n + 1 : Text(n + 1)[i] = i
  BY <1>1, TextType
<1>4. /\ Text(n) \o <<n + 1>> \in Seq(Unit) /\ Len(Text(n) \o <<n + 1>>) = n + 1
      /\ \A i \in 1 .. n + 1 : (Text(n) \o <<n + 1>>)[i] = IF i <= n THEN Text(n)[i] ELSE <<n + 1>>[i - n]
  BY <1>2, <1>3, ConcatProperties
<1>5. \A i \in 1 .. n + 1 : (Text(n) \o <<n + 1>>)[i] = Text(n + 1)[i]
  BY <1>3, <1>4
<1> QED
  BY <1>3, <1>4, <1>5, SeqEqual

(* A gap stays where it is when more is written.                            *)
LEMMA GapStays ==
    ASSUME NEW s \in Data, NEW t \in Data
    PROVE  /\ s \o t \in Data /\ Len(s \o t) = Len(s) + Len(t)
           /\ HasGap(s) => HasGap(s \o t)
<1>1. /\ s \o t \in Data /\ Len(s \o t) = Len(s) + Len(t)
      /\ \A i \in 1 .. Len(s) + Len(t) : (s \o t)[i] = IF i <= Len(s) THEN s[i] ELSE t[i - Len(s)]
  BY ConcatProperties DEF Data
<1>2. Len(s) \in Nat /\ Len(t) \in Nat
  BY LenProperties DEF Data
<1> QED
  BY <1>1, <1>2 DEF HasGap

LEMMA GapMade ==
    ASSUME NEW s \in Data
    PROVE  /\ Append(s, Gap) \in Data /\ Len(Append(s, Gap)) = Len(s) + 1
           /\ HasGap(Append(s, Gap)) /\ Append(s, Gap)[Len(s) + 1] = Gap
<1>1. Gap \in 0 .. MaxLen + 1
  BY ImagesConstants DEF Gap
<1>2. Len(s) \in Nat
  BY LenProperties DEF Data
<1> QED
  BY <1>1, <1>2, AppendProperties DEF Data, HasGap

LEMMA Kept ==
    ASSUME NEW s \in Data, NEW t \in Data, NEW i \in 1 .. Len(s)
    PROVE  /\ i \in 1 .. Len(s \o t) /\ (s \o t)[i] = s[i]
           /\ i \in 1 .. Len(Append(s, Gap)) /\ Append(s, Gap)[i] = s[i]
<1>1. /\ Len(s \o t) = Len(s) + Len(t)
      /\ \A k \in 1 .. Len(s) + Len(t) : (s \o t)[k] = IF k <= Len(s) THEN s[k] ELSE t[k - Len(s)]
  BY ConcatProperties DEF Data
<1>2. Gap \in 0 .. MaxLen + 1
  BY ImagesConstants DEF Gap
<1>3. /\ Len(Append(s, Gap)) = Len(s) + 1
      /\ \A k \in 1 .. Len(s) : Append(s, Gap)[k] = s[k]
  BY <1>2, AppendProperties DEF Data
<1>4. Len(s) \in Nat /\ Len(t) \in Nat
  BY LenProperties DEF Data
<1> QED
  BY <1>1, <1>3, <1>4

LEMMA Associative ==
    ASSUME NEW s \in Data, NEW t \in Data, NEW w \in Data
    PROVE  (s \o t) \o w = s \o (t \o w)
  BY ConcatAssociative DEF Data

(* What is read next, and what comes after it.                              *)
LEMMA HeadTail ==
    ASSUME NEW s \in Data, s # <<>>
    PROVE  /\ Head(s) \in 0 .. MaxLen + 1 /\ Tail(s) \in Data /\ <<Head(s)>> \in Data
           /\ Len(s) \in Nat \ {0} /\ Len(Tail(s)) = Len(s) - 1
           /\ s = <<Head(s)>> \o Tail(s)
<1> DEFINE U == 0 .. MaxLen + 1
<1>1. s \in Seq(U) /\ Data = Seq(U)
  BY DEF Data
<1> HIDE DEF U
<1>2. /\ Head(s) \in U /\ Tail(s) \in Seq(U) /\ Len(Tail(s)) = Len(s) - 1
      /\ \A i \in 1 .. Len(Tail(s)) : Tail(s)[i] = s[i + 1]
  BY <1>1, HeadTailProperties
<1>3. Len(s) \in Nat \ {0}
  BY <1>1, EmptySeq
<1>4. <<Head(s)>> \in Seq(U) /\ Len(<<Head(s)>>) = 1 /\ <<Head(s)>>[1] = s[1]
  BY <1>1, <1>2
<1>5. /\ <<Head(s)>> \o Tail(s) \in Seq(U) /\ Len(<<Head(s)>> \o Tail(s)) = 1 + Len(Tail(s))
      /\ \A i \in 1 .. 1 + Len(Tail(s)) :
            (<<Head(s)>> \o Tail(s))[i] = IF i <= 1 THEN <<Head(s)>>[i] ELSE Tail(s)[i - 1]
  BY <1>2, <1>4, ConcatProperties
<1>6. \A i \in 1 .. Len(s) : (<<Head(s)>> \o Tail(s))[i] = s[i]
  BY <1>2, <1>3, <1>4, <1>5
<1>7. Len(<<Head(s)>> \o Tail(s)) = Len(s)
  BY <1>2, <1>3, <1>5
<1>8. s = <<Head(s)>> \o Tail(s)
  BY <1>1, <1>5, <1>6, <1>7, SeqEqual
<1> QED
  BY <1>1, <1>2, <1>3, <1>4, <1>8 DEF U

(* What a codec finds in a file is data, at most as much as there is.       *)
LEMMA FoundType ==
    ASSUME NEW e \in FileRec
    PROVE  /\ Found(e) \in Data /\ Len(Found(e)) \in Nat /\ Len(Found(e)) <= Len(e.body)
           /\ (~e.img \/ e.codec = "null" \/ ~HasGap(e.body)) => Found(e) = e.body
           /\ e.img /\ e.codec # "null" =>
                \A i \in 1 .. Len(e.body) : e.body[i] = Gap => Len(Found(e)) < i
<1> DEFINE gaps == {i \in 1 .. Len(e.body) : e.body[i] = Gap}
           first == CHOOSE i \in gaps : \A j \in gaps : i <= j
<1>1. e.body \in Data /\ Len(e.body) \in Nat
  BY LenProperties DEF FileRec, Data
<1>2. HasGap(e.body) <=> gaps # {}
  BY DEF HasGap
<1>3. CASE ~e.img \/ e.codec = "null"
  <2>1. Decoded(e) = [data |-> e.body, err |-> FALSE]
    BY <1>3 DEF Decoded
  <2> QED
    BY <2>1, <1>1, <1>3 DEF Found
<1>4. CASE ~(~e.img \/ e.codec = "null") /\ gaps = {}
  <2>1. Decoded(e) = [data |-> e.body, err |-> (e.codec = "bz2" /\ ~e.end)]
    BY <1>4 DEF Decoded
  <2> QED
    BY <2>1, <1>1, <1>2, <1>4 DEF Found
<1>5. CASE ~(~e.img \/ e.codec = "null") /\ gaps # {}
  <2>1. first \in gaps /\ \A j \in gaps : first <= j
    <3>1. gaps \in SUBSET Nat
      BY <1>1
    <3>2. \E m \in gaps : \A k \in gaps : m <= k
      <4> HIDE DEF gaps
      <4> QED
        BY <3>1, <1>5, Least
    <3> QED
      BY <3>2
  <2>2. Decoded(e) = [data |-> SubSeq(e.body, 1, first - 1),
                      err |-> e.codec \in {"bz2", "lzo"} \/ (e.codec = "lzma" /\ first < Len(e.body))]
    BY <1>5 DEF Decoded
  <2>3. Found(e) = SubSeq(e.body, 1, first - 1)
    <3> HIDE DEF first, gaps
    <3>1. \A d, b : [data |-> d, err |-> b].data = d /\ [data |-> d, err |-> b].err = b
      OBVIOUS
    <3> QED
      BY <2>2, <3>1, Zenon DEF Found
  <2>4. first \in 1 .. Len(e.body)
    BY <2>1
  <2>5. \A i \in 1 .. first - 1 : e.body[i] \in 0 .. MaxLen + 1
    <3> HIDE DEF first, gaps
    <3>1. \A i \in 1 .. Len(e.body) : e.body[i] \in 0 .. MaxLen + 1
      BY <1>1, ElementOfSeq DEF Data
    <3> QED
      BY <2>4, <3>1, <1>1
  <2>6. Found(e) \in Data /\ Len(Found(e)) = first - 1
    <3> HIDE DEF first, gaps
    <3> QED
      BY <2>3, <2>4, <2>5, <1>1, SubSeqProperties DEF Data
  <2>7. \A i \in 1 .. Len(e.body) : e.body[i] = Gap => first <= i
    BY <2>1
  <2> HIDE DEF first
  <2> QED
    BY <2>3, <2>4, <2>6, <2>7, <1>1, <1>2, <1>5
<1> QED
  BY <1>3, <1>4, <1>5

-----------------------------------------------------------------------------
(* Codecs *)

StreamRec == [body : Data, end : BOOLEAN, buf : Data, stuck : BOOLEAN, ret : {0, 1, FAIL}]

\* What a codec's stream is like between two calls.
Usable(c, s) ==
    /\ c = "lzo" => Len(s.buf) <= Block
    /\ c = "null" => s.buf = <<>>
    /\ s.stuck => s.buf # <<>>

Size(s) == Len(s.body) + Len(s.buf)

\* A stream after a call.
After(s, body, buf, stuck, ret) == [body |-> body, end |-> s.end, buf |-> buf, stuck |-> stuck, ret |-> ret]

(* A write takes the unit, or loses it and says so.                         *)
Takes(c, s, x, t) ==
    /\ t \in StreamRec /\ Usable(c, t) /\ t.end = s.end
    /\ Size(t) <= Size(s) + 1
    /\ c # "null" => t.buf # <<>>
    /\ HasGap(s.body) => HasGap(t.body)
    /\ t.ret = 1 => t.body \o t.buf = (s.body \o s.buf) \o <<x>> /\ t.stuck = s.stuck
    /\ t.ret # 1 => (c # "null" /\ HasGap(t.body)) \/ Size(t) <= Size(s)

\* The ways in which a codec's functions change a stream.
SetRet(s, r) == [s EXCEPT !.ret = r]
SetBodyRet(s, b, r) == [s EXCEPT !.body = b, !.ret = r]
SetBodyBufRet(s, b, u, r) == [s EXCEPT !.body = b, !.buf = u, !.ret = r]
SetBodyStuckRet(s, b, k, r) == [s EXCEPT !.body = b, !.stuck = k, !.ret = r]

LEMMA SetsAfter ==
    ASSUME NEW s \in StreamRec, NEW b, NEW u, NEW k, NEW r
    PROVE  /\ SetRet(s, r) = After(s, s.body, s.buf, s.stuck, r)
           /\ SetBodyRet(s, b, r) = After(s, b, s.buf, s.stuck, r)
           /\ SetBodyBufRet(s, b, u, r) = After(s, b, u, s.stuck, r)
           /\ SetBodyStuckRet(s, b, k, r) = After(s, b, s.buf, k, r)
<1> DEFINE s1 == [s EXCEPT !.body = b]
           s2 == [s1 EXCEPT !.buf = u]
           s3 == [s1 EXCEPT !.stuck = k]
<1>1. s1 = After(s, b, s.buf, s.stuck, s.ret)
  BY DEF After, StreamRec
<1>2. s2 = After(s, b, u, s.stuck, s.ret)
  <2> HIDE DEF s1
  <2> QED
    BY <1>1 DEF After
<1>3. s3 = After(s, b, s.buf, k, s.ret)
  <2> HIDE DEF s1
  <2> QED
    BY <1>1 DEF After
<1>4. [s EXCEPT !.ret = r] = After(s, s.body, s.buf, s.stuck, r)
  BY DEF After, StreamRec
<1>5. [s1 EXCEPT !.ret = r] = After(s, b, s.buf, s.stuck, r)
  <2> HIDE DEF s1
  <2> QED
    BY <1>1 DEF After
<1>6. [s2 EXCEPT !.ret = r] = After(s, b, u, s.stuck, r)
  <2> HIDE DEF s2
  <2> QED
    BY <1>2 DEF After
<1>7. [s3 EXCEPT !.ret = r] = After(s, b, s.buf, k, r)
  <2> HIDE DEF s3
  <2> QED
    BY <1>3 DEF After
<1>8. SetRet(s, r) = After(s, s.body, s.buf, s.stuck, r)
  BY <1>4 DEF SetRet
<1>9. SetBodyRet(s, b, r) = After(s, b, s.buf, s.stuck, r)
  BY <1>5 DEF SetBodyRet
<1>10. SetBodyBufRet(s, b, u, r) = After(s, b, u, s.stuck, r)
  BY <1>6 DEF SetBodyBufRet
<1>11. SetBodyStuckRet(s, b, k, r) = After(s, b, s.buf, k, r)
  BY <1>7 DEF SetBodyStuckRet
<1> QED
  BY <1>8, <1>9, <1>10, <1>11

(* Putting a unit into the buffer.                                          *)
LEMMA BufferedTakes ==
    ASSUME NEW c, NEW s \in StreamRec, Usable(c, s), NEW x \in 0 .. MaxLen + 1,
           c = "lzo" => Len(s.buf) < Block, c # "null"
    PROVE  Takes(c, s, x, Buffered(s, x))
<1> DEFINE t == Buffered(s, x)
<1>1. /\ t.body = s.body /\ t.end = s.end /\ t.buf = Append(s.buf, x) /\ t.stuck = s.stuck /\ t.ret = 1
      /\ s.body \in Data /\ s.buf \in Data
  BY DEF Buffered, StreamRec
<1>2. Append(s.buf, x) \in Data /\ Append(s.buf, x) # <<>> /\ Len(Append(s.buf, x)) = Len(s.buf) + 1
  BY <1>1, AppendProperties DEF Data
<1>3. t \in StreamRec
  BY <1>1, <1>2 DEF Buffered, StreamRec
<1> HIDE DEF t
<1>4. <<x>> \in Data
  BY DEF Data
<1>5. t.body \o t.buf = (s.body \o s.buf) \o <<x>>
  <2>1. Append(s.buf, x) = s.buf \o <<x>>
    BY <1>1, AppendIsConcat DEF Data
  <2>2. (s.body \o s.buf) \o <<x>> = s.body \o (s.buf \o <<x>>)
    BY <1>1, <1>4, Associative
  <2> QED
    BY <2>1, <2>2, <1>1
<1>6. Len(s.body) \in Nat /\ Len(s.buf) \in Nat
  BY <1>1, LenProperties DEF Data
<1>7. Size(t) <= Size(s) + 1 /\ t.buf # <<>> /\ (c = "lzo" => Len(t.buf) <= Block)
  BY <1>1, <1>2, <1>6, ImagesConstants DEF Size, StreamRec, Data
<1>8. Usable(c, t)
  BY <1>7, Zenon DEF Usable
<1>9. Takes(c, s, x, t)
  BY <1>1, <1>3, <1>5, <1>7, <1>8 DEF Takes
<1> QED
  BY <1>9 DEF t

(* Writing what is in the buffer, to make place for the unit.               *)
LEMMA FlushTakes ==
    ASSUME NEW c, NEW s \in StreamRec, Usable(c, s), NEW x \in 0 .. MaxLen + 1,
           s.buf # <<>>, c # "null"
    PROVE  Takes(c, s, x, Flushed(s, x))
<1> DEFINE t == After(s, s.body \o s.buf, <<x>>, s.stuck, 1)
<1>0. Flushed(s, x) = t
  <2>1. Flushed(s, x) = SetBodyBufRet(s, s.body \o s.buf, <<x>>, 1)
    BY DEF Flushed, SetBodyBufRet
  <2> QED
    BY <2>1, SetsAfter
<1>1. /\ t.body = s.body \o s.buf /\ t.end = s.end /\ t.buf = <<x>> /\ t.stuck = s.stuck /\ t.ret = 1
      /\ s.body \in Data /\ s.buf \in Data
  BY DEF StreamRec, After
<1>2. <<x>> \in Data /\ Len(<<x>>) = 1 /\ <<x>> # <<>>
  BY DEF Data
<1>3. t.body \in Data /\ Len(t.body) = Len(s.body) + Len(s.buf) /\ (HasGap(s.body) => HasGap(t.body))
  BY <1>1, GapStays
<1>4. t \in StreamRec
  BY <1>1, <1>2, <1>3 DEF StreamRec, After
<1> HIDE DEF t
<1>5. Len(s.body) \in Nat /\ Len(s.buf) \in Nat
  BY <1>1, LenProperties DEF Data
<1>6. Size(t) <= Size(s) + 1 /\ t.buf # <<>> /\ (c = "lzo" => Len(t.buf) <= Block)
  BY <1>1, <1>2, <1>3, <1>5, ImagesConstants DEF Size, StreamRec, Data
<1>7. Usable(c, t)
  BY <1>6, Zenon DEF Usable
<1>8. Takes(c, s, x, t)
  BY <1>1, <1>2, <1>3, <1>4, <1>6, <1>7 DEF Takes
<1> QED
  BY <1>0, <1>8

(* A write of the buffer that fails: the codec keeps the buffer, or (LZMA)  *)
(* replaces it; what was to be taken is lost.                               *)
LEMMA FailedTakes ==
    ASSUME NEW c, NEW s \in StreamRec, Usable(c, s), NEW x \in 0 .. MaxLen + 1,
           s.buf # <<>>, c # "null", NEW b \in {s.body, Append(s.body, Gap)},
           NEW k \in BOOLEAN, NEW r \in {0, FAIL},
           NEW u, u = s.buf \/ (u = <<x>> /\ b = Append(s.body, Gap))
    PROVE  Takes(c, s, x, After(s, b, u, k, r))
<1> DEFINE t == After(s, b, u, k, r)
<1>1. /\ t.body = b /\ t.end = s.end /\ t.buf = u /\ t.ret = r
      /\ s.body \in Data /\ s.buf \in Data /\ r # 1
  BY DEF StreamRec, FAIL, After
<1>2. u \in Data /\ u # <<>> /\ Len(u) \in Nat /\ Len(s.buf) \in Nat /\ Len(s.body) \in Nat /\ Len(s.buf) # 0
      /\ (u = s.buf \/ Len(u) = 1)
  <2>1. <<x>> \in Data /\ Len(<<x>>) = 1 /\ <<x>> # <<>>
    BY DEF Data
  <2> QED
    BY <2>1, <1>1, LenProperties, EmptySeq DEF Data
<1>3. /\ Append(s.body, Gap) \in Data /\ Len(Append(s.body, Gap)) = Len(s.body) + 1 /\ HasGap(Append(s.body, Gap))
  BY <1>1, GapMade
<1>4. t \in StreamRec
  BY <1>1, <1>2, <1>3 DEF StreamRec, After
<1> HIDE DEF t
<1>5. Usable(c, t)
  <2>1. c = "lzo" => Len(t.buf) <= Block
    <3>1. c = "lzo" => Len(s.buf) <= Block
      BY Zenon DEF Usable
    <3>2. Block \in Nat /\ 1 <= Block
      BY ImagesConstants
    <3> QED
      BY <3>1, <3>2, <1>1, <1>2 DEF StreamRec, Data
  <2>2. t.buf # <<>>
    BY <1>1, <1>2
  <2> QED
    BY <2>1, <2>2, Zenon DEF Usable
<1>6. ASSUME b = s.body PROVE Takes(c, s, x, t)
  <2>1. u = s.buf
    BY <1>1, <1>2, <1>3, <1>6
  <2>2. Size(t) = Size(s)
    BY <2>1, <1>1, <1>6 DEF Size, StreamRec, Data
  <2>3. Size(s) \in Nat
    BY <1>1, <1>2 DEF Size, StreamRec, Data
  <2>4. Size(t) <= Size(s) + 1 /\ Size(t) <= Size(s)
    BY <2>2, <2>3
  <2>5. t.body = s.body /\ t.ret # 1 /\ t.buf # <<>>
    BY <1>1, <1>2, <1>6
  <2> QED
    BY <2>4, <2>5, <1>1, <1>4, <1>5, Zenon DEF Takes
<1>7. ASSUME b = Append(s.body, Gap) PROVE Takes(c, s, x, t)
  <2>1. Size(t) <= Size(s) + 1 /\ HasGap(t.body)
    BY <1>1, <1>2, <1>3, <1>7 DEF Size, StreamRec, Data
  <2> QED
    BY <2>1, <1>1, <1>2, <1>4, <1>5 DEF Takes
<1>8. Takes(c, s, x, t)
  BY <1>6, <1>7
<1> QED
  BY <1>8 DEF t

LEMMA OutcomeType == Outcome \subseteq {"ok", "none", "short"}
  BY DEF Outcome

(* The null codec writes through.                                           *)
LEMMA nullWriteTakes ==
    ASSUME NEW s \in StreamRec, Usable("null", s), NEW x \in 0 .. MaxLen + 1, NEW o \in Outcome
    PROVE  Takes("null", s, x, nullWrite(s, x, o))
<1> DEFINE t == nullWrite(s, x, o)
<1>1. s.body \in Data /\ <<>> \in Data /\ <<x>> \in Data
  BY DEF StreamRec, Data
<1>2. s.buf = <<>>
  BY Zenon DEF Usable
<1>3. Len(s.body) \in Nat /\ Len(s.buf) = 0
  BY <1>1, <1>2, LenProperties DEF Data
<1>4. CASE o = "ok"
  <2> DEFINE w == [s EXCEPT !.body = Append(@, x), !.ret = 1]
  <2>1. t = w
    BY <1>4 DEF nullWrite
  <2>2. /\ w.body = Append(s.body, x) /\ w.end = s.end /\ w.buf = s.buf /\ w.stuck = s.stuck /\ w.ret = 1
    BY DEF StreamRec
  <2>3. Append(s.body, x) \in Data /\ Len(Append(s.body, x)) = Len(s.body) + 1 /\ Append(s.body, x) = s.body \o <<x>>
    BY <1>1, AppendProperties, AppendIsConcat DEF Data
  <2>4. w \in StreamRec
    BY <2>3 DEF StreamRec
  <2>5. HasGap(s.body) => HasGap(s.body \o <<x>>)
    BY <1>1, GapStays
  <2>6. s.body \o s.buf = s.body /\ w.body \o w.buf = w.body
    BY <1>1, <1>2, <2>2, <2>3, ConcatEmptySeq DEF Data
  <2> HIDE DEF w
  <2>7. Size(w) <= Size(s) + 1
    BY <1>1, <1>2, <1>3, <2>2, <2>3, <2>4 DEF Size, StreamRec, Data
  <2>8. Usable("null", w)
    BY <1>2, <2>2, Zenon DEF Usable
  <2>9. Takes("null", s, x, w)
    BY <2>2, <2>3, <2>4, <2>5, <2>6, <2>7, <2>8, Zenon DEF Takes
  <2> QED
    BY <2>1, <2>9
<1>5. CASE o # "ok"
  <2> DEFINE r == IF o = "short" THEN 0 ELSE FAIL
             w == [s EXCEPT !.ret = r]
  <2>1. t = w
    BY <1>5 DEF nullWrite
  <2>2. r \in {0, FAIL} /\ r # 1
    BY DEF FAIL
  <2>3. /\ w.body = s.body /\ w.end = s.end /\ w.buf = s.buf /\ w.stuck = s.stuck /\ w.ret = r
    BY DEF StreamRec
  <2>4. w \in StreamRec
    <3> HIDE DEF r
    <3> QED
      BY <2>2 DEF StreamRec
  <2> HIDE DEF w, r
  <2>5. Size(w) <= Size(s) + 1 /\ Size(w) <= Size(s)
    BY <1>1, <1>2, <1>3, <2>3, <2>4 DEF Size, StreamRec, Data
  <2>6. Usable("null", w)
    BY <1>2, <2>3, Zenon DEF Usable
  <2>7. Takes("null", s, x, w)
    BY <2>2, <2>3, <2>4, <2>5, <2>6, Zenon DEF Takes
  <2> QED
    BY <2>1, <2>7
<1> QED
  BY <1>4, <1>5

(* Whatever a codec's write comes to, it takes the unit, or loses it and    *)
(* says so.                                                                 *)
LEMMA CodecWriteTakes ==
    ASSUME NEW c \in Codec, NEW s \in StreamRec, Usable(c, s), NEW x \in 0 .. MaxLen + 1,
           NEW o \in Outcome, NEW flush \in BOOLEAN
    PROVE  Takes(c, s, x, CodecWrite(c, s, x, o, flush))
<1> DEFINE put == Put(s.body, s.buf, o)
<1>1. s.body \in Data /\ s.buf \in Data /\ s.stuck \in BOOLEAN
  BY DEF StreamRec
<1>2. o \in {"ok", "none", "short"}
  BY OutcomeType
<1>3. o # "ok" => put \in {s.body, Append(s.body, Gap)}
  BY DEF Put
<1>4. CASE c = "null"
  <2>1. CodecWrite(c, s, x, o, flush) = nullWrite(s, x, o)
    BY <1>4 DEF CodecWrite
  <2> QED
    BY <2>1, <1>4, nullWriteTakes
<1>5. CASE c = "lzo"
  <2>1. CodecWrite(c, s, x, o, flush) = lzowrite(s, x, o)
    BY <1>5 DEF CodecWrite
  <2>2. ASSUME Len(s.buf) < Block PROVE Takes(c, s, x, lzowrite(s, x, o))
    <3>1. lzowrite(s, x, o) = Buffered(s, x)
      BY <2>2 DEF lzowrite
    <3> QED
      BY <3>1, <2>2, <1>5, BufferedTakes
  <2>3. ASSUME ~(Len(s.buf) < Block) PROVE Takes(c, s, x, lzowrite(s, x, o))
    <3>1. s.buf # <<>>
      BY <2>3, <1>1, ImagesConstants DEF Data
    <3>2. ASSUME o = "ok" PROVE Takes(c, s, x, lzowrite(s, x, o))
      <4>1. lzowrite(s, x, o) = Flushed(s, x)
        BY <2>3, <3>2 DEF lzowrite
      <4> QED
        BY <4>1, <3>1, <1>5, FlushTakes
    <3>3. ASSUME o # "ok" PROVE Takes(c, s, x, lzowrite(s, x, o))
      <4>1. lzowrite(s, x, o) = After(s, put, s.buf, s.stuck, FAIL)
        <5>1. lzowrite(s, x, o) = SetBodyRet(s, put, FAIL)
          BY <2>3, <3>3, Zenon DEF lzowrite, SetBodyRet
        <5> HIDE DEF put
        <5> QED
          BY <5>1, SetsAfter
      <4>2. put \in {s.body, Append(s.body, Gap)}
        BY <1>3, <3>3
      <4> HIDE DEF put
      <4>3. Takes(c, s, x, After(s, put, s.buf, s.stuck, FAIL))
        BY <4>2, <3>1, <1>1, <1>5, FailedTakes
      <4> QED
        BY <4>1, <4>3
    <3> QED
      BY <3>2, <3>3
  <2> QED
    BY <2>1, <2>2, <2>3
<1>6. CASE c # "null" /\ c # "lzo"
  <2>1. ASSUME ~s.stuck /\ (s.buf = <<>> \/ ~flush) PROVE Takes(c, s, x, CodecWrite(c, s, x, o, flush))
    <3>1. CodecWrite(c, s, x, o, flush) = Buffered(s, x)
      BY <2>1, <1>6 DEF CodecWrite
    <3> QED
      BY <3>1, <1>6, BufferedTakes
  <2>2. ASSUME ~(~s.stuck /\ (s.buf = <<>> \/ ~flush)) PROVE Takes(c, s, x, CodecWrite(c, s, x, o, flush))
    <3>1. s.buf # <<>>
      BY <2>2, Zenon DEF Usable
    <3>2. ASSUME c = "lzma" PROVE Takes(c, s, x, CodecWrite(c, s, x, o, flush))
      <4>1. CodecWrite(c, s, x, o, flush) = lzmaWrite(s, x, o)
        BY <3>2, <2>2, <1>6 DEF CodecWrite
      <4>2. ASSUME o = "ok" PROVE Takes(c, s, x, lzmaWrite(s, x, o))
        <5>1. lzmaWrite(s, x, o) = Flushed(s, x)
          BY <4>2 DEF lzmaWrite
        <5> QED
          BY <5>1, <3>1, <1>6, FlushTakes
      <4>3. ASSUME o # "ok" PROVE Takes(c, s, x, lzmaWrite(s, x, o))
        <5>1. lzmaWrite(s, x, o)
              = After(s, Append(s.body, Gap), <<x>>, s.stuck, FAIL)
          <6>1. lzmaWrite(s, x, o) = SetBodyBufRet(s, Append(s.body, Gap), <<x>>, FAIL)
            BY <4>3, Zenon DEF lzmaWrite, SetBodyBufRet
          <6> QED
            BY <6>1, SetsAfter
        <5>2. Takes(c, s, x, After(s, Append(s.body, Gap), <<x>>, s.stuck, FAIL))
          BY <3>1, <1>1, <1>6, FailedTakes
        <5> QED
          BY <5>1, <5>2
      <4> QED
        BY <4>1, <4>2, <4>3
    <3>3. ASSUME c # "lzma" PROVE Takes(c, s, x, CodecWrite(c, s, x, o, flush))
      <4>1. PICK err \in {0, FAIL} : CodecWrite(c, s, x, o, flush) = libWrite(err, s, x, o)
        <5>1. CodecWrite(c, s, x, o, flush) = libWrite(IF c = "gz" THEN 0 ELSE FAIL, s, x, o)
          BY <3>3, <2>2, <1>6 DEF CodecWrite
        <5> QED
          BY <5>1
      <4>2. ASSUME s.stuck PROVE Takes(c, s, x, libWrite(err, s, x, o))
        <5>1. libWrite(err, s, x, o) = After(s, s.body, s.buf, s.stuck, err)
          <6>1. libWrite(err, s, x, o) = SetRet(s, err)
            BY <4>2, Zenon DEF libWrite, SetRet
          <6> QED
            BY <6>1, SetsAfter
        <5>2. Takes(c, s, x, After(s, s.body, s.buf, s.stuck, err))
          BY <3>1, <1>1, <1>6, FailedTakes
        <5> QED
          BY <5>1, <5>2
      <4>3. ASSUME ~s.stuck, o = "ok" PROVE Takes(c, s, x, libWrite(err, s, x, o))
        <5>1. libWrite(err, s, x, o) = Flushed(s, x)
          BY <4>3 DEF libWrite
        <5> QED
          BY <5>1, <3>1, <1>6, FlushTakes
      <4>4. ASSUME ~s.stuck, o # "ok" PROVE Takes(c, s, x, libWrite(err, s, x, o))
        <5>1. libWrite(err, s, x, o) = After(s, put, s.buf, TRUE, err)
          <6> DEFINE yes == TRUE
          <6>1. libWrite(err, s, x, o) = SetBodyStuckRet(s, put, yes, err)
            BY <4>4, Zenon DEF libWrite, SetBodyStuckRet
          <6> HIDE DEF put, yes
          <6>2. SetBodyStuckRet(s, put, yes, err) = After(s, put, s.buf, yes, err)
            BY SetsAfter
          <6>3. libWrite(err, s, x, o) = After(s, put, s.buf, yes, err)
            BY <6>1, <6>2
          <6> QED
            BY <6>3 DEF yes
        <5>2. put \in {s.body, Append(s.body, Gap)}
          BY <1>3, <4>4
        <5> HIDE DEF put
        <5>3. Takes(c, s, x, After(s, put, s.buf, TRUE, err))
          BY <5>2, <3>1, <1>6, FailedTakes
        <5> QED
          BY <5>1, <5>3
      <4> QED
        BY <4>1, <4>2, <4>3, <4>4
    <3> QED
      BY <3>2, <3>3
  <2> QED
    BY <2>1, <2>2
<1> QED
  BY <1>4, <1>5, <1>6

(* What closing a stream does to what has been written.                     *)
Closes(c, s, o, t) ==
    /\ t.body \in Data /\ t.end \in BOOLEAN
    /\ c = "null" \/ (o = "ok" /\ ~s.stuck) => t.body = s.body \o s.buf
    /\ t.body \in {s.body \o s.buf, s.body, Append(s.body, Gap)}
    /\ t.body # s.body /\ t.body # s.body \o s.buf => c # "null"

LEMMA CodecCloseCloses ==
    ASSUME NEW c \in Codec, NEW s \in StreamRec, Usable(c, s), NEW o \in Outcome
    PROVE  Closes(c, s, o, CodecClose(c, s, o))
<1>1. s.body \in Data /\ s.buf \in Data /\ s.stuck \in BOOLEAN /\ s.end \in BOOLEAN
  BY DEF StreamRec
<1>2. s.body \o s.buf \in Data /\ Append(s.body, Gap) \in Data
  BY <1>1, GapStays, GapMade
<1>3. CASE c = "null"
  <2>1. s.buf = <<>>
    BY <1>3, Zenon DEF Usable
  <2>2. s.body \o s.buf = s.body
    BY <2>1, <1>1, ConcatEmptySeq DEF Data
  <2>3. CodecClose(c, s, o) = [s EXCEPT !.end = TRUE]
    BY <1>3 DEF CodecClose
  <2>4. [s EXCEPT !.end = TRUE].body = s.body /\ [s EXCEPT !.end = TRUE].end = TRUE
    BY DEF StreamRec
  <2> QED
    BY <2>2, <2>3, <2>4, <1>1, <1>3 DEF Closes
<1>4. CASE c # "null" /\ s.stuck
  <2>1. CodecClose(c, s, o) = s
    BY <1>4 DEF CodecClose
  <2> QED
    BY <2>1, <1>1, <1>4 DEF Closes
<1>5. CASE c # "null" /\ ~s.stuck
  <2> DEFINE put == Put(s.body, s.buf, o)
             e == (o = "ok" \/ c = "lzo")
  <2>1. CodecClose(c, s, o) = [s EXCEPT !.body = put, !.end = e]
    BY <1>5, Zenon DEF CodecClose
  <2>2. put \in {s.body \o s.buf, s.body, Append(s.body, Gap)} /\ (o = "ok" => put = s.body \o s.buf) /\ e \in BOOLEAN
    BY DEF Put
  <2> HIDE DEF put, e
  <2>3. [s EXCEPT !.body = put, !.end = e].body = put /\ [s EXCEPT !.body = put, !.end = e].end = e
    BY DEF StreamRec
  <2> QED
    BY <2>1, <2>2, <2>3, <1>2, <1>1, <1>5 DEF Closes
<1> QED
  BY <1>3, <1>4, <1>5

-----------------------------------------------------------------------------
(* What a step leaves alone *)

\* The invariant of whatever job there is.
JobInv == Compressing /\ Decompressing /\ Writing

LEMMA NullIsNothing ==
    /\ Absent \notin FileRec /\ Null \notin Name /\ Null \notin Temp /\ Null \notin Codec /\ Null \notin Seq(Unit)
    /\ Null \notin {0, 1, 4}
  BY NullAssumption, ImagesConstants DEF Absent, FileRec, Length, Data, Unit

LEMMA IdleType == Idle \in JobRec /\ NoWalk \in OffRec /\ NoCheck \in CheckRec
<1>1. <<>> \in Data /\ 0 \in Length
  BY ImagesConstants DEF Data, Length
<1> QED
  BY <1>1 DEF Idle, NoWalk, NoCheck, JobRec, OffRec, CheckRec, Absent

\* When there is no job, there is nothing to say about it.
LEMMA NoJob ==
    ASSUME job' = Idle
    PROVE  JobInv' /\ job'.op = "none"
<1>1. job'.op = "none"
  BY DEF Idle
<1> QED
  BY <1>1 DEF JobInv, Compressing, Decompressing, Writing

LEMMA CountedStays ==
    ASSUME Counted, UNCHANGED <<dir, temps, fsck, prog>>
    PROVE  Counted'
  BY DEF Counted, Wrong, FsckTruthful, Exists

LEMMA FilesStay ==
    ASSUME Files, UNCHANGED <<dir, contents, harm>>, job.op # "direct", job'.op # "direct"
    PROVE  Files'
  BY DEF Files, Exists

(* A step of a codec.                                                       *)
LEMMA WorkingStays ==
    ASSUME IInv, UNCHANGED <<dir, temps, contents, harm, prog, off, fsck, leaks>>,
           job.op \in {"compress", "decompress"},
           job' \in JobRec, job'.op = job.op, job'.name = job.name, job'.temp = job.temp, job'.codec = job.codec,
           job'.new # Absent, Formed(job'.new), job'.codec = "lzo" => Len(job'.buf) <= Block,
           job'.pc # "start", job.op = "decompress" => job'.pc # "tail",
           job'.cancel => prog = "mount" /\ job.op = "compress",
           Compressing', Decompressing'
    PROVE  IInv'
<1>1. Types'
  BY DEF IInv, Types, Exists
<1>2. Control'
  BY DEF IInv, Control, Exists
<1>3. Temporaries'
  BY DEF IInv, Temporaries
<1>4. Counted'
  BY CountedStays DEF IInv
<1>5. Files'
  BY FilesStay DEF IInv
<1>6. Writing'
  BY DEF Writing
<1> QED
  BY <1>1, <1>2, <1>3, <1>4, <1>5, <1>6 DEF IInv

(* A job on a file that has one begins.                                     *)
LEMMA StartStays ==
    ASSUME IInv, job.op = "none", UNCHANGED <<dir, contents, harm, prog, fsck, leaks>>,
           prog \in {"mount", "offline"},
           off' \in OffRec, prog = "offline" => (off'.todo \subseteq off.todo /\ (off'.inner => off'.comp # Null)),
           NEW t \in Temp, temps' = temps \cup {t},
           job' \in JobRec, job'.op \in {"compress", "decompress"}, job'.temp = t, job'.pc = "loop",
           job'.name \in Name, Exists(job'.name),
           job'.op = "compress" => job'.codec \in Codec /\ (prog = "mount" => ~dir[job'.name].img),
           job'.op = "decompress" => dir[job'.name].img,
           job'.new # Absent, Formed(job'.new), job'.buf = <<>>, job'.cancel = FALSE,
           Compressing', Decompressing'
    PROVE  IInv'
<1>1. Types'
  <2>1. job'.codec = "lzo" => Len(job'.buf) <= Block
    BY ImagesConstants
  <2> QED
    BY <2>1 DEF IInv, Types, Exists
<1>2. Control'
  BY DEF IInv, Control, Exists
<1>3. Temporaries'
  BY DEF IInv, Temporaries
<1>4. Counted'
  <2>1. prog # "fsck" /\ Counted
    BY DEF IInv
  <2>2. fsck.exit = Null
    BY <2>1 DEF Counted
  <2> QED
    BY <2>1, <2>2, NullIsNothing DEF Counted, FsckTruthful
<1>5. Files'
  BY FilesStay DEF IInv
<1>6. Writing'
  BY DEF Writing
<1> QED
  BY <1>1, <1>2, <1>3, <1>4, <1>5, <1>6 DEF IInv

(* A job that is not a user's ends without having replaced a file.          *)
LEMMA EndStays ==
    ASSUME IInv, job.op \in {"compress", "decompress"}, job' = Idle, UNCHANGED <<dir, contents, harm, fsck>>,
           prog' = "none" \/ (UNCHANGED <<prog, off>>), off' \in OffRec,
           temps' \subseteq Temp, leaks' \subseteq Temp, temps' \subseteq leaks'
    PROVE  IInv'
<1>1. prog \in {"mount", "offline"}
  BY DEF IInv, Control
<1>2. JobInv' /\ job'.op = "none" /\ job' \in JobRec /\ job'.new = Absent /\ ~job'.cancel /\ job'.codec = Null
  BY NoJob, IdleType DEF Idle, Absent
<1>3. Types'
  <2>1. job'.buf = <<>>
    BY DEF Idle
  <2>2. job'.codec = "lzo" => Len(job'.buf) <= Block
    BY <2>1, ImagesConstants
  <2>3. prog' \in {"none", "mount", "offline", "fsck"}
    BY DEF IInv, Types
  <2> QED
    BY <1>2, <2>2, <2>3 DEF IInv, Types, Exists
<1>4. Control'
  BY <1>2 DEF IInv, Control, Exists
<1>5. Temporaries'
  BY <1>2 DEF Temporaries
<1>6. Counted'
  <2>1. fsck.exit = Null
    BY <1>1 DEF IInv, Counted
  <2> QED
    BY <1>1, <2>1, NullIsNothing DEF IInv, Counted, FsckTruthful
<1>7. Files'
  BY <1>2, FilesStay DEF IInv
<1> QED
  BY <1>2, <1>3, <1>4, <1>5, <1>6, <1>7 DEF IInv, JobInv

-----------------------------------------------------------------------------
(* Programs that start and end, and fsck *)

(* A step of a program between two jobs.                                    *)
LEMMA WalkStays ==
    ASSUME IInv, job.op = "none", UNCHANGED <<dir, temps, contents, harm, job, leaks>>,
           prog' \in {"none", "mount", "offline", "fsck"}, off' \in OffRec, fsck' \in CheckRec,
           prog' = "offline" => (\A f \in off'.todo : Exists(f)) /\ (off'.inner => off'.comp # Null),
           Counted'
    PROVE  IInv'
<1>1. job = Idle /\ job' = Idle /\ job'.op = "none"
  BY DEF IInv, Control
<1>2. Types'
  BY DEF IInv, Types, Exists
<1>3. Control'
  <2>1. ~job.cancel
    BY <1>1 DEF IInv, Control, Idle
  <2> QED
    BY <1>1, <2>1 DEF Control, Exists
<1>4. Temporaries'
  BY DEF IInv, Temporaries
<1>5. JobInv'
  BY <1>1, NoJob
<1>6. Files'
  BY <1>1, FilesStay DEF IInv
<1> QED
  BY <1>2, <1>3, <1>4, <1>5, <1>6 DEF IInv, JobInv

(* There is nothing in prog but what Control says.                          *)
LEMMA Resting ==
    ASSUME IInv, prog \in {"none", "fsck"}
    PROVE  job.op = "none" /\ job = Idle
  BY DEF IInv, Control, Types, JobRec

LEMMA SomeFiles ==
    ASSUME NEW S \in SUBSET (Name \cup Temp)
    PROVE  /\ IsFiniteSet(S) /\ Cardinality(S) \in Nat /\ Cardinality(Name \cup Temp) \in Nat
           /\ Cardinality(S) <= Cardinality(Name \cup Temp)
           /\ \A x \in S : Cardinality(S \ {x}) = Cardinality(S) - 1
<1>1. IsFiniteSet(Name \cup Temp)
  BY ImagesConstants, FS_Union
<1>2. IsFiniteSet(S) /\ Cardinality(S) <= Cardinality(Name \cup Temp)
  BY <1>1, FS_Subset
<1> QED
  BY <1>1, <1>2, FS_CardinalityType, FS_RemoveElement

(* A count that begins with nothing is right.                               *)
LEMMA NothingCounted ==
    ASSUME fsck' = NoCheck, prog' \in {"mount", "offline"}
    PROVE  Counted'
<1>1. /\ fsck'.exit = Null /\ fsck'.found = 0 /\ fsck'.fixed = 0 /\ fsck'.todo = {}
  BY DEF NoCheck
<1>2. Cardinality({}) = 0 /\ Cardinality(Name \cup Temp) \in Nat
  BY FS_EmptySet, SomeFiles
<1>3. FsckTruthful'
  BY <1>1, NullIsNothing DEF FsckTruthful
<1> QED
  BY <1>1, <1>2, <1>3 DEF Counted

LEMMA MountInv == ASSUME IInv, Mount PROVE IInv'
<1>1. job.op = "none"
  BY Resting DEF Mount
<1>2. Counted'
  BY NothingCounted DEF Mount
<1> QED
  BY <1>1, <1>2, WalkStays, IdleType DEF Mount, IInv, Types

LEMMA OfflineStartInv ==
    ASSUME IInv, NEW c \in Codec \cup {Null}, NEW r \in Codec \cup {Null}, OfflineStart(c, r)
    PROVE  IInv'
<1>1. job.op = "none"
  BY Resting DEF OfflineStart
<1>2. Counted'
  BY NothingCounted DEF OfflineStart
<1>3. off' \in OffRec /\ off'.todo = {f \in Name : Exists(f)} /\ off'.inner = FALSE
  BY DEF OfflineStart, OffRec
<1> QED
  BY <1>1, <1>2, <1>3, WalkStays, IdleType DEF OfflineStart, IInv, Types

LEMMA UmountInv == ASSUME IInv, Umount PROVE IInv'
<1>1. Counted'
  <2>1. fsck.exit = Null
    BY DEF Umount, IInv, Counted
  <2> QED
    BY <2>1, NullIsNothing DEF Umount, IInv, Counted, FsckTruthful
<1> QED
  BY <1>1, WalkStays DEF Umount, IInv, Types

\* What an offline run changes between two files does not matter to fsck's count.
LEMMA OfflineCounted ==
    ASSUME IInv, prog = "offline", UNCHANGED <<dir, temps, fsck>>, prog' \in {"none", "offline"}
    PROVE  Counted'
<1>1. fsck.exit = Null
  BY DEF IInv, Counted
<1> QED
  BY <1>1, NullIsNothing DEF IInv, Counted, FsckTruthful

LEMMA OfflineSkipInv == ASSUME IInv, NEW f \in Name, OfflineSkip(f) PROVE IInv'
<1>1. /\ job.op = "none" /\ prog = "offline" /\ prog' = prog /\ off' = [off EXCEPT !.todo = @ \ {f}]
      /\ UNCHANGED <<dir, temps, contents, harm, job, leaks, fsck>>
  BY DEF OfflineSkip, Visits, Visited
<1>2. off \in OffRec
  BY DEF IInv, Types
<1>3. off' \in OffRec /\ off'.todo \subseteq off.todo /\ off'.inner = off.inner /\ off'.comp = off.comp
  BY <1>1, <1>2 DEF OffRec
<1>4. Counted'
  BY <1>1, OfflineCounted
<1>5. (\A g \in off.todo : Exists(g)) /\ (off.inner => off.comp # Null)
  BY <1>1 DEF IInv, Control
<1>6. fsck' \in CheckRec
  BY <1>1 DEF IInv, Types
<1> QED
  BY <1>1, <1>3, <1>4, <1>5, <1>6, WalkStays

LEMMA OfflineStopsInv == ASSUME IInv, OfflineNoTemp \/ OfflineEnd PROVE IInv'
<1>1. /\ job.op = "none" /\ prog = "offline" /\ prog' = "none" /\ off' = NoWalk
      /\ UNCHANGED <<dir, temps, contents, harm, job, leaks, fsck>>
  BY DEF OfflineNoTemp, OfflineEnd
<1>2. Counted'
  BY <1>1, OfflineCounted
<1>3. fsck' \in CheckRec
  BY <1>1 DEF IInv, Types
<1> QED
  BY <1>1, <1>2, <1>3, WalkStays, IdleType

(* fsck begins with everything still to be visited.                         *)
LEMMA FsckStartInv == ASSUME IInv, NEW d \in BOOLEAN, FsckStart(d) PROVE IInv'
<1> DEFINE all == {f \in Name : Exists(f)} \cup temps
<1>1. /\ fsck'.todo = all /\ fsck'.del = d /\ fsck'.found = 0 /\ fsck'.fixed = 0
      /\ fsck'.warned = FALSE /\ fsck'.unread = FALSE /\ fsck'.exit = Null
      /\ prog' = "fsck" /\ prog = "none" /\ UNCHANGED <<dir, temps, contents, harm, job, off, leaks>>
  BY DEF FsckStart, NoCheck
<1>2. all \subseteq Name \cup Temp
  BY DEF IInv, Types
<1>3. fsck' \in CheckRec
  <2>1. fsck' = [NoCheck EXCEPT !.del = d, !.todo = all]
    BY DEF FsckStart
  <2> HIDE DEF all
  <2>2. \A S \in SUBSET (Name \cup Temp) : [NoCheck EXCEPT !.del = d, !.todo = S] \in CheckRec
    BY DEF NoCheck, CheckRec
  <2>3. all \in SUBSET (Name \cup Temp)
    BY <1>2
  <2> QED
    BY <2>1, <2>2, <2>3, Zenon
<1>4. Counted'
  <2>1. Cardinality(all) \in Nat /\ Cardinality(all) <= Cardinality(Name \cup Temp)
    BY <1>2, SomeFiles
  <2>2. Wrong' \subseteq all /\ (all = {f \in Name : Exists(f)} \cup temps)'
    BY <1>1 DEF Wrong, Exists
  <2>3. FsckTruthful'
    BY <1>1, NullIsNothing DEF FsckTruthful
  <2>4. all \subseteq {f \in Name : Exists(f)'} \cup temps'
    BY <1>1 DEF Exists
  <2> HIDE DEF all
  <2> QED
    BY <1>1, <2>1, <2>2, <2>3, <2>4 DEF Counted
<1>5. job.op = "none" /\ off' \in OffRec
  BY <1>1, Resting DEF IInv, Types
<1> QED
  BY <1>1, <1>3, <1>4, <1>5, WalkStays

(* A file that is visited is off the list: it was wrong and is counted, or  *)
(* it is not wrong, or a warning was given.                                 *)
LEMMA Visiting ==
    ASSUME IInv, prog = "fsck", NEW x \in fsck.todo, fsck'.todo = fsck.todo \ {x},
           fsck'.found \in {fsck.found, fsck.found + 1}
    PROVE  /\ x \in Name \cup Temp /\ fsck.todo \in SUBSET (Name \cup Temp)
           /\ fsck.found \in Nat /\ fsck.fixed \in Nat /\ fsck.fixed <= fsck.found
           /\ fsck'.found + Cardinality(fsck'.todo) <= Cardinality(Name \cup Temp)
<1>1. fsck \in CheckRec /\ Counted
  BY DEF IInv, Types
<1>2. fsck.todo \in SUBSET (Name \cup Temp) /\ fsck.found \in Nat /\ fsck.fixed \in Nat /\ fsck.fixed <= fsck.found
  BY <1>1 DEF CheckRec, Counted
<1>3. /\ Cardinality(fsck.todo) \in Nat /\ Cardinality(Name \cup Temp) \in Nat
      /\ Cardinality(fsck.todo \ {x}) = Cardinality(fsck.todo) - 1
  BY <1>2, SomeFiles
<1>4. fsck.found + Cardinality(fsck.todo) <= Cardinality(Name \cup Temp)
  BY <1>1 DEF Counted
<1> QED
  BY <1>2, <1>3, <1>4

LEMMA FsckCannotInv == ASSUME IInv, NEW x \in Name \cup Temp, FsckCannot(x) PROVE IInv'
<1>1. /\ prog = "fsck" /\ x \in fsck.todo /\ UNCHANGED <<dir, temps, contents, harm, prog, job, off, leaks>>
      /\ \/ fsck' = [fsck EXCEPT !.todo = @ \ {x}, !.warned = TRUE]
         \/ fsck' = [fsck EXCEPT !.todo = @ \ {x}, !.found = @ + 1, !.unread = TRUE]
  BY DEF FsckCannot
<1>2. job.op = "none" /\ off' \in OffRec /\ fsck \in CheckRec /\ Counted
  BY <1>1, Resting DEF IInv, Types
<1>3. /\ fsck' \in CheckRec /\ fsck'.todo = fsck.todo \ {x} /\ fsck'.fixed = fsck.fixed /\ fsck'.exit = fsck.exit
      /\ \/ fsck'.found = fsck.found /\ fsck'.warned = TRUE /\ fsck'.unread = fsck.unread
         \/ fsck'.found = fsck.found + 1 /\ fsck'.warned = fsck.warned /\ fsck'.unread = TRUE
  <2>1. ASSUME fsck' = [fsck EXCEPT !.todo = @ \ {x}, !.warned = TRUE] PROVE <1>3
    BY <1>2, <2>1 DEF CheckRec
  <2>2. ASSUME fsck' = [fsck EXCEPT !.todo = @ \ {x}, !.found = @ + 1, !.unread = TRUE] PROVE <1>3
    <3> DEFINE yes == TRUE
    <3>1. fsck' = [fsck EXCEPT !.todo = @ \ {x}, !.found = @ + 1, !.unread = yes] /\ yes \in BOOLEAN /\ yes = TRUE
      BY <2>2
    <3>2. fsck.found + 1 \in Nat
      BY <1>2 DEF CheckRec
    <3> HIDE DEF yes
    <3>3. /\ fsck' \in CheckRec /\ fsck'.todo = fsck.todo \ {x} /\ fsck'.fixed = fsck.fixed
          /\ fsck'.exit = fsck.exit /\ fsck'.found = fsck.found + 1 /\ fsck'.warned = fsck.warned
          /\ fsck'.unread = yes
      BY <1>2, <3>1, <3>2 DEF CheckRec
    <3> QED
      BY <3>1, <3>3
  <2> QED
    BY <1>1, <2>1, <2>2
<1>4. /\ fsck.found \in Nat /\ fsck.fixed \in Nat /\ fsck.fixed <= fsck.found
      /\ fsck'.found + Cardinality(fsck'.todo) <= Cardinality(Name \cup Temp)
  BY <1>1, <1>3, Visiting
<1>5. Counted'
  <2>1. Wrong' = Wrong /\ fsck'.exit = Null
    BY <1>1, <1>2, <1>3 DEF Wrong, Exists, Counted
  <2>2. fsck'.todo \subseteq {f \in Name : Exists(f)'} \cup temps'
    BY <1>1, <1>2, <1>3 DEF Counted, Exists
  <2>3. FsckTruthful'
    BY <2>1, NullIsNothing DEF FsckTruthful
  <2>4. fsck'.found = fsck'.fixed /\ ~fsck'.warned => Wrong \subseteq fsck'.todo
    BY <1>3, <1>4
  <2>5. fsck'.found > fsck'.fixed => Wrong \ fsck'.todo # {} \/ fsck'.unread
    BY <1>1, <1>2, <1>3, <1>4 DEF Counted
  <2> QED
    BY <1>1, <1>3, <1>4, <2>1, <2>2, <2>3, <2>4, <2>5 DEF Counted
<1> QED
  BY <1>1, <1>2, <1>3, <1>5, WalkStays

(* The count stays right when x is found good, found and left, or removed.  *)
LEMMA Recount ==
    ASSUME IInv, prog = "fsck", prog' = prog, NEW x \in fsck.todo, fsck'.todo = fsck.todo \ {x},
           fsck'.warned = fsck.warned, fsck'.unread = fsck.unread, fsck'.exit = fsck.exit,
           fsck'.todo \subseteq {f \in Name : Exists(f)'} \cup temps',
           \/ x \notin Wrong /\ Wrong' = Wrong /\ fsck'.found = fsck.found /\ fsck'.fixed = fsck.fixed
           \/ x \in Wrong /\ Wrong' = Wrong /\ fsck'.found = fsck.found + 1 /\ fsck'.fixed = fsck.fixed
           \/ Wrong' = Wrong \ {x} /\ fsck'.found = fsck.found + 1 /\ fsck'.fixed = fsck.fixed + 1
    PROVE  Counted'
<1>1. /\ fsck.found \in Nat /\ fsck.fixed \in Nat /\ fsck.fixed <= fsck.found
      /\ fsck'.found + Cardinality(fsck'.todo) <= Cardinality(Name \cup Temp)
  BY Visiting
<1>2. /\ fsck.exit = Null
      /\ fsck.found = fsck.fixed /\ ~fsck.warned => Wrong \subseteq fsck.todo
      /\ fsck.found > fsck.fixed => Wrong \ fsck.todo # {} \/ fsck.unread
  BY DEF IInv, Counted
<1>3. FsckTruthful'
  BY <1>2, NullIsNothing DEF FsckTruthful
<1>4. fsck'.fixed <= fsck'.found
  BY <1>1
<1>5. fsck'.found = fsck'.fixed /\ ~fsck'.warned => Wrong' \subseteq fsck'.todo
  BY <1>1, <1>2
<1>6. fsck'.found > fsck'.fixed => Wrong' \ fsck'.todo # {} \/ fsck'.unread
  BY <1>1, <1>2
<1> QED
  BY <1>1, <1>2, <1>3, <1>4, <1>5, <1>6 DEF Counted

LEMMA FsckFileInv == ASSUME IInv, NEW x \in Name \cup Temp, FsckFile(x) PROVE IInv'
<1>1. prog = "fsck" /\ x \in fsck.todo /\ UNCHANGED <<prog, job, off>>
  BY DEF FsckFile
<1>2. /\ job.op = "none" /\ job = Idle /\ fsck \in CheckRec /\ off \in OffRec
      /\ fsck.todo \subseteq {f \in Name : Exists(f)} \cup temps
  BY <1>1, Resting DEF IInv, Types, Counted
<1>3. Name \cap Temp = {} /\ temps \subseteq Temp /\ leaks \subseteq Temp
  BY ImagesConstants DEF IInv, Types
<1>4. x \in Temp \/ Flagged(dir[x]) <=> x \in Wrong
  BY <1>1, <1>2, <1>3 DEF Wrong
<1>5. ASSUME x \notin Wrong PROVE IInv'
  <2>1. fsck' = [fsck EXCEPT !.todo = @ \ {x}] /\ UNCHANGED <<dir, temps, contents, harm, leaks>>
    BY <1>4, <1>5 DEF FsckFile
  <2>2. /\ fsck' \in CheckRec /\ fsck'.todo = fsck.todo \ {x} /\ fsck'.found = fsck.found /\ fsck'.fixed = fsck.fixed
        /\ fsck'.warned = fsck.warned /\ fsck'.unread = fsck.unread /\ fsck'.exit = fsck.exit
    BY <1>2, <2>1 DEF CheckRec
  <2>3. Wrong' = Wrong /\ fsck'.todo \subseteq {f \in Name : Exists(f)'} \cup temps'
    BY <1>2, <2>1, <2>2 DEF Wrong, Exists
  <2>4. Counted'
    BY <1>1, <1>5, <2>2, <2>3, Recount
  <2> QED
    BY <1>1, <1>2, <2>1, <2>2, <2>4, WalkStays
<1>6. ASSUME x \in Wrong PROVE IInv'
  <2>1. Fix(x)
    BY <1>4, <1>6 DEF FsckFile
  <2>2. /\ fsck' \in CheckRec /\ fsck'.todo = fsck.todo \ {x} /\ fsck'.found = fsck.found + 1
        /\ fsck'.fixed = fsck.fixed + Unlinked
        /\ fsck'.warned = fsck.warned /\ fsck'.unread = fsck.unread /\ fsck'.exit = fsck.exit
    <3>1. Unlinked \in Nat /\ fsck.found \in Nat /\ fsck.fixed \in Nat
      BY <1>2 DEF Unlinked, CheckRec
    <3>2. fsck.found + 1 \in Nat /\ fsck.fixed + Unlinked \in Nat
      BY <3>1
    <3>3. fsck' = [fsck EXCEPT !.todo = @ \ {x}, !.found = @ + 1, !.fixed = @ + Unlinked]
      BY <2>1 DEF Fix
    <3> DEFINE m == fsck.found + 1
               n == fsck.fixed + Unlinked
    <3>4. fsck' = [fsck EXCEPT !.todo = @ \ {x}, !.found = m, !.fixed = n] /\ m \in Nat /\ n \in Nat
      BY <3>2, <3>3
    <3> HIDE DEF m, n
    <3>5. /\ fsck' \in CheckRec /\ fsck'.todo = fsck.todo \ {x} /\ fsck'.found = m /\ fsck'.fixed = n
          /\ fsck'.warned = fsck.warned /\ fsck'.unread = fsck.unread /\ fsck'.exit = fsck.exit
      BY <1>2, <3>4 DEF CheckRec
    <3> QED
      BY <3>5 DEF m, n
  <2>3. CASE ~fsck.del
    <3>1. Unlinked = 0 /\ UNCHANGED <<dir, temps, contents, harm, leaks>>
      BY <2>1, <2>3 DEF Fix, Unlinked
    <3>2. Wrong' = Wrong /\ fsck'.todo \subseteq {f \in Name : Exists(f)'} \cup temps'
      BY <1>2, <2>2, <3>1 DEF Wrong, Exists
    <3>3. fsck'.fixed = fsck.fixed
      BY <1>2, <2>2, <3>1 DEF CheckRec
    <3>4. Counted'
      BY <1>1, <1>6, <2>2, <3>2, <3>3, Recount
    <3> QED
      BY <1>1, <1>2, <2>2, <3>1, <3>4, WalkStays
  <2>4. CASE fsck.del
    <3>1. Unlinked = 1
      BY <2>4 DEF Unlinked
    <3>2. job' = Idle /\ JobInv' /\ job'.op = "none" /\ job' \in JobRec /\ job'.new = Absent /\ ~job'.cancel /\ job'.codec = Null
      BY <1>1, <1>2, NoJob, IdleType DEF Idle, Absent
    <3>3. Control'
      BY <1>1, <3>2 DEF Control
    <3>4. CASE x \in Temp
      <4>1. temps' = temps \ {x} /\ leaks' = leaks \ {x} /\ UNCHANGED <<dir, contents, harm>>
        BY <2>1, <2>4, <3>4 DEF Fix
      <4>2. Wrong' = Wrong \ {x} /\ fsck'.todo \subseteq {f \in Name : Exists(f)'} \cup temps'
        BY <1>2, <1>3, <2>2, <3>4, <4>1 DEF Wrong, Exists
      <4>3. Counted'
        BY <1>1, <2>2, <3>1, <4>2, Recount
      <4>4. Types'
        BY <1>1, <1>3, <2>2, <3>2, <4>1 DEF IInv, Types, Exists, Idle
      <4>5. Temporaries'
        BY <1>2, <3>2, <4>1 DEF IInv, Temporaries
      <4>6. Files'
        BY <1>2, <3>2, <4>1, FilesStay DEF IInv
      <4> QED
        BY <3>2, <3>3, <4>3, <4>4, <4>5, <4>6 DEF IInv, JobInv
    <3>5. CASE x \notin Temp
      <4>1. /\ dir' = [dir EXCEPT ![x] = Absent] /\ UNCHANGED <<temps, leaks>>
            /\ \/ Intact(x) /\ UNCHANGED <<contents, harm>>
               \/ contents' = [contents EXCEPT ![x] = Null] /\ harm' = [harm EXCEPT ![x] = {}]
        BY <2>1, <2>4, <3>5 DEF Fix
      <4>2. x \in Name /\ Exists(x) /\ Flagged(dir[x]) /\ dir \in [Name -> FileRec \cup {Absent}]
        BY <1>3, <1>6, <3>5 DEF Wrong, IInv, Types
      <4>3. dir'[x] = Absent /\ \A f \in Name \ {x} : dir'[f] = dir[f]
        BY <4>1, <4>2
      <4>4. Wrong' = Wrong \ {x} /\ fsck'.todo \subseteq {f \in Name : Exists(f)'} \cup temps'
        BY <1>2, <1>3, <2>2, <4>1, <4>2, <4>3 DEF Wrong, Exists
      <4>5. Counted'
        BY <1>1, <2>2, <3>1, <4>4, Recount
      <4>6. Types'
        <5>1. dir' \in [Name -> FileRec \cup {Absent}] /\ \A f \in Name : Exists(f)' => Formed(dir'[f])
          BY <4>1, <4>2, <4>3 DEF IInv, Types, Exists
        <5>2. contents' \in [Name -> Seq(Unit) \cup {Null}]
          BY <4>1 DEF IInv, Types
        <5>3. harm' \in [Name -> SUBSET {"ignored", "told", "crash", "short", "wrapped"}]
          BY <4>1 DEF IInv, Types
        <5> QED
          BY <1>1, <1>3, <2>2, <3>2, <4>1, <5>1, <5>2, <5>3 DEF IInv, Types, Idle
      <4>7. Temporaries'
        BY <1>2, <3>2, <4>1 DEF IInv, Temporaries
      <4>8. harm[x] # {}
        <5>1. contents[x] # Null /\ (harm[x] = {} => Holds(dir[x], contents[x], {}))
          BY <1>2, <4>2 DEF IInv, Files, Light
        <5>2. dir[x] \in FileRec
          BY <4>2 DEF Exists
        <5>3. Len(Found(dir[x])) \in Nat /\ dir[x].size \in Nat /\ Len(Found(dir[x])) < dir[x].size
          BY <4>2, <5>2, FoundType, ImagesConstants DEF Flagged, Found, FileRec, Length
        <5> QED
          BY <5>1, <5>3 DEF Holds
      <4>9. Files'
        <5>1. contents \in [Name -> Seq(Unit) \cup {Null}] /\ DOMAIN harm = Name
          BY DEF IInv, Types
        <5>2. \A f \in Name \ {x} : contents'[f] = contents[f] /\ harm'[f] = harm[f]
          BY <4>1, <5>1
        <5>3. contents'[x] # Null => harm'[x] # {}
          BY <4>1, <4>2, <4>8, <5>1
        <5> QED
          BY <1>2, <3>2, <4>3, <5>2, <5>3 DEF IInv, Files, Exists
      <4> QED
        BY <3>2, <3>3, <4>5, <4>6, <4>7, <4>9 DEF IInv, JobInv
    <3> QED
      BY <3>4, <3>5
  <2> QED
    BY <2>3, <2>4
<1> QED
  BY <1>5, <1>6

(* What fsck says at the end is what it counted.                            *)
LEMMA FsckEndInv == ASSUME IInv, FsckEnd PROVE IInv'
<1>1. /\ prog = "fsck" /\ fsck.todo = {} /\ prog' = "none" /\ UNCHANGED <<dir, temps, contents, harm, job, off, leaks>>
      /\ fsck' = [fsck EXCEPT !.exit = IF fsck.found = 0 THEN 0 ELSE IF fsck.found > fsck.fixed THEN 4 ELSE 1]
  BY DEF FsckEnd
<1>2. /\ job.op = "none" /\ fsck \in CheckRec /\ off \in OffRec /\ Counted
  BY <1>1, Resting DEF IInv, Types
<1> DEFINE e == IF fsck.found = 0 THEN 0 ELSE IF fsck.found > fsck.fixed THEN 4 ELSE 1
<1>3. e \in {Null, 0, 1, 4} /\ fsck.found \in Nat /\ fsck.fixed \in Nat
  BY <1>2 DEF CheckRec
<1>4. e \in {0, 1} => fsck.found = fsck.fixed
  BY <1>2, <1>3 DEF Counted
<1>5. e = 4 => fsck.found > fsck.fixed
  BY DEF e
<1>6. fsck' = [fsck EXCEPT !.exit = e]
  BY <1>1
<1> HIDE DEF e
<1>7. /\ fsck' \in CheckRec /\ fsck'.todo = {} /\ fsck'.found = fsck.found /\ fsck'.fixed = fsck.fixed
      /\ fsck'.warned = fsck.warned /\ fsck'.unread = fsck.unread /\ fsck'.exit = e
  BY <1>1, <1>2, <1>3, <1>6 DEF CheckRec
<1>8. Wrong' = Wrong
  BY <1>1 DEF Wrong, Exists
<1>9. FsckTruthful'
  <2>1. e \in {0, 1} /\ ~fsck.warned => Wrong = {}
    BY <1>1, <1>2, <1>4 DEF Counted
  <2>2. e = 4 => Wrong # {} \/ fsck.unread
    BY <1>1, <1>2, <1>5 DEF Counted
  <2> QED
    BY <1>7, <1>8, <2>1, <2>2 DEF FsckTruthful, Wrong
<1>10. Counted'
  BY <1>1, <1>2, <1>7, <1>9 DEF Counted
<1> QED
  BY <1>1, <1>2, <1>7, <1>10, WalkStays

-----------------------------------------------------------------------------
(* Jobs that fail *)

(* What is known of a job's temporary file, and of a program that goes on   *)
(* or gives up.                                                             *)
LEMMA EndFacts ==
    ASSUME IInv, job.op \in {"compress", "decompress"}
    PROVE  /\ job.temp \in Temp /\ temps \subseteq Temp /\ leaks \subseteq Temp /\ off \in OffRec
           /\ temps \subseteq leaks \cup {job.temp}
           /\ Aborts \/ Ends => job' = Idle /\ (prog' = "none" \/ (UNCHANGED <<prog, off>>)) /\ off' \in OffRec
<1>1. off \in OffRec /\ NoWalk \in OffRec
  BY IdleType DEF IInv, Types
<1> QED
  BY <1>1 DEF IInv, Types, Control, Temporaries, Aborts, Ends

LEMMA RejectInv == ASSUME IInv, Reject PROVE IInv'
<1>1. job.op \in {"compress", "decompress"}
  BY DEF Reject, Checking
<1> QED
  BY <1>1, EndFacts, EndStays DEF Reject

LEMMA RenameFailsInv == ASSUME IInv, RenameFails PROVE IInv'
<1>1. job.op \in {"compress", "decompress"}
  BY DEF RenameFails, Checking
<1>2. temps' \subseteq Temp /\ leaks' \subseteq Temp /\ temps' \subseteq leaks'
  BY <1>1, EndFacts DEF RenameFails
<1> QED
  BY <1>1, <1>2, EndFacts, EndStays DEF RenameFails

LEMMA CloseFailsInv == ASSUME IInv, CloseFails PROVE IInv'
<1>1. job.op \in {"compress", "decompress"}
  BY DEF CloseFails
<1> QED
  BY <1>1, EndFacts, EndStays DEF CloseFails

LEMMA OfflineSignalInv == ASSUME IInv, OfflineSignal PROVE IInv'
<1>1. job.op \in {"compress", "decompress"}
  BY DEF OfflineSignal, IInv, Control, Types, JobRec
<1> QED
  BY <1>1, EndFacts, EndStays, IdleType DEF OfflineSignal

(* A job that is killed leaves its temporary file; a user's file loses what *)
(* the codec held.                                                          *)
LEMMA CrashInv == ASSUME IInv, job.op # "direct", Crash PROVE IInv'
<1>1. job.op \in {"compress", "decompress"}
  BY DEF Crash, IInv, Types, JobRec
<1> QED
  BY <1>1, EndFacts, EndStays, IdleType DEF Crash

-----------------------------------------------------------------------------
(* Jobs that begin *)

LEMMA BytesType ==
    ASSUME NEW e \in FileRec, Formed(e)
    PROVE  /\ Bytes(e) \in Data /\ Len(Bytes(e)) \in Length /\ Len(Bytes(e)) \in Nat
           /\ (~e.img => Bytes(e) = e.body)
<1>1. Enc \in 0 .. MaxLen + 1 /\ 1 \in Length
  BY ImagesConstants DEF Enc, Length
<1>2. <<Enc>> \in Data /\ Len(<<Enc>>) = 1
  BY <1>1 DEF Data
<1>3. e.body \in Data /\ Len(e.body) \in Length
  BY LenProperties, ImagesConstants DEF FileRec, Data, Formed, Length
<1> QED
  BY <1>1, <1>2, <1>3, ImagesConstants DEF Bytes, Length

LEMMA NewImageType ==
    ASSUME NEW c \in Codec, NEW n \in Length
    PROVE  /\ NewImage(c, n) \in FileRec /\ NewImage(c, n) # Absent /\ Formed(NewImage(c, n))
           /\ NewImage(c, n).img = TRUE /\ NewImage(c, n).codec = c /\ NewImage(c, n).size = n
           /\ NewImage(c, n).body = <<>>
<1>1. <<>> \in Data /\ Len(<<>>) = 0
  BY DEF Data
<1>2. /\ NewImage(c, n) \in FileRec
      /\ NewImage(c, n).img = TRUE /\ NewImage(c, n).codec = c /\ NewImage(c, n).size = n
      /\ NewImage(c, n).body = <<>>
  BY <1>1 DEF NewImage, FileRec
<1> QED
  BY <1>1, <1>2, NullIsNothing, ImagesConstants DEF Formed

LEMMA RawType ==
    ASSUME NEW s \in Data, Len(s) <= MaxLen
    PROVE  /\ Raw(s) \in FileRec /\ Raw(s) # Absent /\ Formed(Raw(s)) /\ Len(s) \in Length
           /\ Raw(s).img = FALSE /\ Raw(s).codec = Null /\ Raw(s).size = Len(s) /\ Raw(s).body = s
<1>1. Len(s) \in Length
  BY LenProperties, ImagesConstants DEF Data, Length
<1>2. /\ Raw(s) \in FileRec
      /\ Raw(s).img = FALSE /\ Raw(s).codec = Null /\ Raw(s).size = Len(s) /\ Raw(s).body = s
  BY <1>1 DEF Raw, FileRec
<1> QED
  BY <1>1, <1>2, NullIsNothing DEF Formed

LEMMA CompressesInv ==
    ASSUME IInv, job.op = "none", NEW f \in Name, Exists(f), NEW c \in Codec, Compresses(f, c),
           UNCHANGED <<dir, contents, harm, prog, fsck, leaks>>, prog \in {"mount", "offline"},
           prog = "mount" => ~dir[f].img, off' \in OffRec,
           prog = "offline" => (off'.todo \subseteq off.todo /\ (off'.inner => off'.comp # Null))
    PROVE  IInv'
<1> DEFINE b == Bytes(dir[f])
           n == Len(b)
           w == NewImage(c, n)
<1>1. dir[f] \in FileRec /\ Formed(dir[f])
  BY DEF IInv, Types, Exists
<1>2. b \in Data /\ n \in Length /\ n \in Nat
  BY <1>1, BytesType
<1>3. w \in FileRec /\ w # Absent /\ Formed(w) /\ w.img = TRUE /\ w.codec = c /\ w.size = n /\ w.body = <<>>
  BY <1>2, NewImageType
<1>4. PICK t \in Temp \ temps :
        /\ temps' = temps \cup {t}
        /\ job' = [Idle EXCEPT !.op = "compress", !.pc = "loop", !.name = f, !.temp = t, !.codec = c,
                               !.src = b, !.size = n, !.new = w]
  BY Zenon DEF Compresses
<1>5. b = Bytes(dir[f]) /\ n = Len(b)
  OBVIOUS
<1> HIDE DEF w, n, b
<1>6. /\ job' \in JobRec /\ job'.op = "compress" /\ job'.pc = "loop" /\ job'.name = f /\ job'.temp = t
      /\ job'.codec = c /\ job'.src = b /\ job'.size = n /\ job'.new = w
      /\ job'.buf = <<>> /\ job'.stuck = FALSE /\ job'.ret = 0 /\ job'.ignored = FALSE /\ job'.cancel = FALSE
  <2> DEFINE j == [Idle EXCEPT !.op = "compress", !.pc = "loop", !.name = f, !.temp = t, !.codec = c]
  <2>1. /\ j \in JobRec /\ j.op = "compress" /\ j.pc = "loop" /\ j.name = f /\ j.temp = t /\ j.codec = c
        /\ j.buf = <<>> /\ j.stuck = FALSE /\ j.ret = 0 /\ j.ignored = FALSE /\ j.cancel = FALSE
    BY IdleType DEF Idle, JobRec
  <2>2. job' = [j EXCEPT !.src = b, !.size = n, !.new = w]
    BY <1>4
  <2> HIDE DEF j
  <2> QED
    BY <1>2, <1>3, <2>1, <2>2 DEF JobRec
<1>7. Decompressing'
  BY <1>6 DEF Decompressing
<1>8. Compressing'
  <2>1. <<>> \in Data /\ Len(<<>>) = 0 /\ (<<>> \o <<>>) \o b = b
    BY <1>2 DEF Data
  <2>2. Bytes(dir'[f]) = b
    BY <1>5
  <2>3. job'.ret \in Nat /\ job'.ret + Len(job'.src) = job'.size
    BY <1>2, <1>5, <1>6
  <2>4. Len(job'.new.body) + Len(job'.buf) + Len(job'.src) <= job'.size
    <3>1. Len(w.body) = 0 /\ Len(job'.buf) = 0
      BY <1>3, <1>6, <2>1
    <3>2. 0 + 0 + n <= n
      BY <1>2
    <3> QED
      BY <1>5, <1>6, <3>1, <3>2
  <2>5. (job'.new.body \o job'.buf) \o job'.src = Bytes(dir'[job'.name]) /\ ~job'.stuck
    BY <1>3, <1>6, <2>1, <2>2
  <2> QED
    BY <1>3, <1>5, <1>6, <2>2, <2>3, <2>4, <2>5 DEF Compressing
<1> QED
  BY <1>3, <1>4, <1>6, <1>7, <1>8, StartStays DEF Exists

LEMMA DecompressesInv ==
    ASSUME IInv, job.op = "none", NEW f \in Name, Exists(f), dir[f].img, Decompresses(f),
           UNCHANGED <<dir, contents, harm, prog, fsck, leaks>>, prog \in {"mount", "offline"}, off' \in OffRec,
           prog = "offline" => (off'.todo \subseteq off.todo /\ (off'.inner => off'.comp # Null))
    PROVE  IInv'
<1> DEFINE n == dir[f].size
           w == Raw(<<>>)
<1>1. dir[f] \in FileRec
  BY DEF IInv, Types, Exists
<1>2. n \in Length
  BY <1>1 DEF FileRec
<1>3. w \in FileRec /\ w # Absent /\ Formed(w)
  <2>1. <<>> \in Data /\ Len(<<>>) = 0 /\ 0 <= MaxLen
    BY ImagesConstants DEF Data
  <2> QED
    BY <2>1, RawType
<1>4. PICK t \in Temp \ temps :
        /\ temps' = temps \cup {t}
        /\ job' = [Idle EXCEPT !.op = "decompress", !.pc = "loop", !.name = f, !.temp = t, !.size = n, !.new = w]
  BY Zenon DEF Decompresses
<1>5. n = dir[f].size
  OBVIOUS
<1> HIDE DEF w, n
<1>6. /\ job' \in JobRec /\ job'.op = "decompress" /\ job'.pc = "loop" /\ job'.name = f /\ job'.temp = t
      /\ job'.size = n /\ job'.new = w /\ job'.buf = <<>> /\ job'.cancel = FALSE
  BY <1>2, <1>3, <1>4, IdleType DEF Idle, JobRec
<1>7. Compressing'
  BY <1>6 DEF Compressing
<1>8. Decompressing'
  BY <1>5, <1>6 DEF Decompressing
<1> QED
  BY <1>3, <1>4, <1>6, <1>7, <1>8, StartStays DEF Exists

LEMMA CompressStartInv == ASSUME IInv, NEW f \in Name, NEW c \in Codec, CompressStart(f, c) PROVE IInv'
<1>1. off' \in OffRec /\ job.op = "none" /\ prog = "mount"
  BY DEF CompressStart, IInv, Types
<1> QED
  BY <1>1, CompressesInv DEF CompressStart

LEMMA DecompressStartInv == ASSUME IInv, NEW f \in Name, DecompressStart(f) PROVE IInv'
<1>1. off' \in OffRec /\ job.op = "none" /\ prog = "mount"
  BY DEF DecompressStart, IInv, Types
<1> QED
  BY <1>1, DecompressesInv DEF DecompressStart

\* The files that fusecompress_offline has yet to visit.
LEMMA VisitFacts ==
    ASSUME IInv, prog = "offline", NEW f \in off.todo
    PROVE  /\ f \in Name /\ Exists(f) /\ off \in OffRec /\ (off.inner => off.comp # Null)
           /\ off.comp # Null => off.comp \in Codec
           /\ \A d \in BOOLEAN : [Visited(f) EXCEPT !.inner = d] \in OffRec
<1>1. off \in OffRec
  BY DEF IInv, Types
<1>2. Visited(f) \in OffRec
  BY <1>1 DEF Visited, OffRec
<1>3. \A d \in BOOLEAN : [Visited(f) EXCEPT !.inner = d] \in OffRec
  BY <1>2 DEF OffRec
<1> QED
  BY <1>1, <1>3 DEF IInv, Control, OffRec

LEMMA OfflineCompressInv == ASSUME IInv, NEW f \in Name, OfflineCompress(f) PROVE IInv'
<1>1. prog = "offline" /\ job.op = "none" /\ f \in off.todo /\ off.comp # Null /\ off' = [off EXCEPT !.todo = @ \ {f}]
  BY DEF OfflineCompress, Visits, Visited
<1>2. Exists(f) /\ off \in OffRec /\ off.comp \in Codec
  BY <1>1, VisitFacts
<1>3. off' \in OffRec /\ off'.todo \subseteq off.todo /\ off'.comp = off.comp
  BY <1>1, <1>2 DEF OffRec
<1> QED
  BY <1>1, <1>2, <1>3, CompressesInv DEF OfflineCompress

LEMMA OfflineRecompressInv == ASSUME IInv, NEW f \in Name, OfflineRecompress(f) PROVE IInv'
<1>1. prog = "offline" /\ job.op = "none" /\ f \in off.todo /\ off.inner
      /\ off' = [off EXCEPT !.todo = @ \ {f}, !.inner = FALSE]
  BY DEF OfflineRecompress, Visited
<1>2. Exists(f) /\ off \in OffRec /\ off.comp \in Codec
  BY <1>1, VisitFacts
<1>3. off' \in OffRec /\ off'.todo \subseteq off.todo /\ off'.comp = off.comp
  BY <1>1, <1>2 DEF OffRec
<1>4. off'.comp # Null
  BY <1>2, <1>3, NullIsNothing
<1> QED
  BY <1>1, <1>2, <1>3, <1>4, CompressesInv DEF OfflineRecompress

LEMMA OfflineDecompressInv == ASSUME IInv, NEW f \in Name, OfflineDecompress(f) PROVE IInv'
<1>1. prog = "offline" /\ job.op = "none" /\ f \in off.todo /\ ~off.inner
  BY DEF OfflineDecompress, Visits
<1>2. Exists(f) /\ off \in OffRec /\ dir[f] \in FileRec /\ Formed(dir[f])
  BY <1>1, VisitFacts DEF Exists, IInv, Types
<1>3. dir[f].img
  <2>1. Recompresses(f) => dir[f].codec # Null
    BY DEF Recompresses
  <2>2. dir[f].codec # Null => dir[f].img
    BY <1>2, Zenon DEF Formed, FileRec
  <2> QED
    BY <2>1, <2>2 DEF OfflineDecompress
<1>4. off' \in OffRec /\ off'.todo \subseteq off.todo /\ (off'.inner => off'.comp # Null)
  <2>1. ASSUME off' = [off EXCEPT !.todo = @ \ {f}] PROVE <1>4
    BY <1>1, <1>2, <2>1 DEF OffRec
  <2>2. ASSUME off.comp # Null, off' = [off EXCEPT !.inner = TRUE] PROVE <1>4
    BY <1>1, <1>2, <2>2 DEF OffRec
  <2> QED
    BY <2>1, <2>2 DEF OfflineDecompress, Visited, Recompresses
<1> QED
  BY <1>1, <1>2, <1>3, <1>4, DecompressesInv DEF OfflineDecompress

-----------------------------------------------------------------------------
(* Compressing *)

LEMMA StreamType ==
    ASSUME job \in JobRec, NEW e \in FileRec
    PROVE  /\ Stream(e) \in StreamRec
           /\ Stream(e).body = e.body /\ Stream(e).buf = job.buf /\ Stream(e).stuck = job.stuck
           /\ Stream(e).end = e.end
  BY DEF Stream, StreamRec, FileRec, JobRec

LEMMA WrittenType ==
    ASSUME NEW e \in FileRec, NEW s, s.body \in Data, s.end \in BOOLEAN
    PROVE  /\ Written(e, s) \in FileRec /\ Written(e, s) # Absent
           /\ Written(e, s).body = s.body /\ Written(e, s).img = e.img /\ Written(e, s).codec = e.codec
           /\ Written(e, s).size = e.size
<1> DEFINE b == s.body
           d == s.end
<1>1. b \in Data /\ d \in BOOLEAN /\ Written(e, s) = [e EXCEPT !.body = b, !.end = d]
  BY DEF Written
<1>2. b = s.body
  OBVIOUS
<1> HIDE DEF b, d
<1>3. /\ Written(e, s) \in FileRec
      /\ Written(e, s).body = b /\ Written(e, s).img = e.img /\ Written(e, s).codec = e.codec
      /\ Written(e, s).size = e.size
  BY <1>1 DEF FileRec
<1> QED
  BY <1>2, <1>3, NullIsNothing

\* What there is to a codec that compresses a whole file.
LEMMA CompressFacts ==
    ASSUME IInv, job.op = "compress", job.pc \in {"loop", "tail"}
    PROVE  /\ job \in JobRec /\ job.codec \in Codec /\ job.new \in FileRec /\ job.size <= MaxLen
           /\ Stream(job.new) \in StreamRec /\ Usable(job.codec, Stream(job.new))
           /\ Stream(job.new).body = job.new.body /\ Stream(job.new).buf = job.buf
           /\ Stream(job.new).stuck = job.stuck
           /\ dir[job.name] \in FileRec /\ Formed(dir[job.name]) /\ job.name \in Name
<1>1. job \in JobRec /\ job.codec \in Codec /\ job.new \in FileRec
  BY DEF IInv, Types, Control, JobRec
<1>2. /\ Stream(job.new) \in StreamRec
      /\ Stream(job.new).body = job.new.body /\ Stream(job.new).buf = job.buf /\ Stream(job.new).stuck = job.stuck
  BY <1>1, StreamType
<1>3. job.codec = "lzo" => Len(job.buf) <= Block
  BY DEF IInv, Types
<1>4. (job.codec = "null" => job.buf = <<>>) /\ (job.stuck => job.buf # <<>>)
  BY DEF IInv, Compressing
<1>5. Usable(job.codec, Stream(job.new))
  BY <1>2, <1>3, <1>4, Zenon DEF Usable
<1>6. job.size <= MaxLen
  BY <1>1, ImagesConstants DEF JobRec, Length
<1>7. dir[job.name] \in FileRec /\ Formed(dir[job.name]) /\ job.name \in Name
  BY DEF IInv, Types, Control, Exists
<1> QED
  BY <1>1, <1>2, <1>5, <1>6, <1>7

(* A codec that goes round its loop has written, holds or has yet to read   *)
(* the whole file, or has ignored that something was lost.                  *)
LEMMA CompressStepInv ==
    ASSUME IInv, NEW o \in Outcome, NEW flush \in BOOLEAN, CompressStep(o, flush)
    PROVE  IInv'
<1> DEFINE c == job.codec
           s == Stream(job.new)
           x == Head(job.src)
           rest == Tail(job.src)
           t == CodecWrite(c, s, x, o, flush)
           failed == LoopFails(c, t.ret, o)
           w == Written(job.new, t)
           r == IF failed THEN FAIL ELSE job.ret + 1
           g == job.ignored \/ t.ret # 1
           p == IF failed THEN "check" ELSE IF job.cancel THEN "tail" ELSE job.pc
           file == Bytes(dir[job.name])
<1>1. /\ job.op = "compress" /\ job.pc = "loop" /\ job.src # <<>>
      /\ UNCHANGED <<dir, temps, contents, harm, prog, off, fsck, leaks>>
      /\ job' = [job EXCEPT !.src = rest, !.new = w, !.buf = t.buf, !.stuck = t.stuck,
                               !.ret = r, !.ignored = g, !.pc = p]
  BY DEF CompressStep
<1>2. /\ job \in JobRec /\ c \in Codec /\ job.new \in FileRec /\ job.size <= MaxLen
      /\ s \in StreamRec /\ Usable(c, s) /\ s.body = job.new.body /\ s.buf = job.buf /\ s.stuck = job.stuck
      /\ dir[job.name] \in FileRec /\ Formed(dir[job.name]) /\ job.name \in Name
  BY <1>1, CompressFacts
<1>3. /\ x \in 0 .. MaxLen + 1 /\ rest \in Data /\ Len(rest) = Len(job.src) - 1 /\ Len(job.src) \in Nat \ {0}
      /\ job.src = <<x>> \o rest /\ <<x>> \in Data
  <2>1. job.src \in Data
    BY <1>2 DEF JobRec
  <2> QED
    BY <1>1, <2>1, HeadTail
<1>4. Takes(c, s, x, t)
  BY <1>2, <1>3, CodecWriteTakes
<1>5. t \in StreamRec /\ t.body \in Data /\ t.end \in BOOLEAN /\ t.buf \in Data /\ t.stuck \in BOOLEAN /\ Usable(c, t)
  <2> HIDE DEF t
  <2> QED
    BY <1>4 DEF Takes, StreamRec
<1>6. w \in FileRec /\ w # Absent /\ w.body = t.body /\ w.img = job.new.img /\ w.codec = job.new.codec /\ w.size = job.new.size
  BY <1>2, <1>5, WrittenType
<1>7. /\ job.size = Len(file) /\ job.new.size = job.size /\ job.new.img /\ job.new.codec = c
      /\ job.ret \in Nat /\ job.ret + Len(job.src) = job.size
      /\ Len(job.new.body) + Len(job.buf) + Len(job.src) <= job.size
      /\ \/ (job.new.body \o job.buf) \o job.src = file /\ ~job.stuck
         \/ /\ job.ignored
            /\ \/ c # "null" /\ HasGap(job.new.body)
               \/ Len(job.new.body) + Len(job.buf) + Len(job.src) < job.size
  BY <1>1 DEF IInv, Compressing
<1> DEFINE lb == Len(job.new.body)
           lu == Len(job.buf)
           ls == Len(job.src)
           lr == Len(rest)
           tb == Len(t.body)
           tu == Len(t.buf)
           n == job.size
           q == job.ret
<1>8. /\ lb \in Nat /\ lu \in Nat /\ ls \in Nat \ {0} /\ lr = ls - 1 /\ tb \in Nat /\ tu \in Nat /\ n \in Nat /\ q \in Nat
      /\ n <= MaxLen /\ q + ls = n /\ lb + lu + ls <= n /\ tb + tu <= lb + lu + 1
  <2> HIDE DEF s, t, rest, x
  <2>1. Len(job.new.body) \in Nat /\ Len(job.buf) \in Nat /\ Len(t.body) \in Nat /\ Len(t.buf) \in Nat /\ job.size \in Nat
    BY <1>2, <1>5, LenProperties, ImagesConstants DEF FileRec, Data, JobRec, Length
  <2>2. Size(t) <= Size(s) + 1
    BY <1>4 DEF Takes
  <2>3. Len(t.body) + Len(t.buf) <= Len(job.new.body) + Len(job.buf) + 1
    <3>1. Size(s) = Len(job.new.body) + Len(job.buf)
      BY <1>2 DEF Size
    <3> QED
      BY <2>2, <3>1 DEF Size
  <2> QED
    BY <1>2, <1>3, <1>7, <2>1, <2>3
<1>9. Size(s) = lb + lu /\ Size(t) = tb + tu
  <2> HIDE DEF s, t
  <2> QED
    BY <1>2 DEF Size
<1>10. /\ tb + tu + lr <= n /\ tb <= MaxLen
       /\ r \in Length \cup {FAIL, Odd} /\ (~failed => r \in Nat /\ r + lr = n)
       /\ lb + lu + ls < n => tb + tu + lr < n
       /\ tb + tu <= lb + lu => tb + tu + lr < n
  <2>1. r = IF failed THEN FAIL ELSE q + 1
    OBVIOUS
  <2> HIDE DEF failed, r, rest, lb, lu, ls, lr, tb, tu, n, q
  <2>2. tb + tu + lr <= n /\ tb <= MaxLen /\ q + 1 \in Nat /\ q + 1 + lr = n /\ q + 1 <= MaxLen
    BY <1>8, ImagesConstants
  <2>3. r \in Length \cup {FAIL, Odd}
    BY <2>1, <2>2, ImagesConstants DEF Length
  <2> QED
    BY <1>8, <2>1, <2>2, <2>3
<1>11. g \in BOOLEAN /\ p \in {"loop", "tail", "check"} /\ (p \in {"loop", "tail"} => ~failed)
       /\ (p = "tail" => job.cancel) /\ (p = "check" => r = FAIL)
  <2> HIDE DEF failed
  <2> QED
    BY <1>1
<1>12. /\ t.ret = 1 => t.body \o t.buf = (s.body \o s.buf) \o <<x>> /\ t.stuck = s.stuck
       /\ HasGap(s.body) => HasGap(t.body)
       /\ t.ret # 1 => g /\ ((c # "null" /\ HasGap(t.body)) \/ Size(t) <= Size(s))
       /\ c # "null" => t.buf # <<>>
  <2> HIDE DEF s, t
  <2> QED
    BY <1>4, Zenon DEF Takes
<1>13. \/ (t.body \o t.buf) \o rest = file /\ ~t.stuck
       \/ g /\ ((c # "null" /\ HasGap(t.body)) \/ Len(t.body) + Len(t.buf) + Len(rest) < job.size)
  <2> HIDE DEF s, t, rest, file, x, c
  <2>1. CASE t.ret = 1 /\ (job.new.body \o job.buf) \o job.src = file /\ ~job.stuck
    <3>1. s.body \o s.buf \in Data
      <4>1. s.body \in Data /\ s.buf \in Data
        BY <1>2 DEF StreamRec
      <4> QED
        BY <4>1, GapStays
    <3>2. ((s.body \o s.buf) \o <<x>>) \o rest = (s.body \o s.buf) \o (<<x>> \o rest)
      BY <1>3, <3>1, Associative
    <3> QED
      BY <1>2, <1>3, <1>12, <2>1, <3>2
  <2>2. CASE t.ret = 1 /\ job.ignored /\ c # "null" /\ HasGap(job.new.body)
    BY <1>2, <1>12, <2>2, Zenon
  <2>3. CASE t.ret = 1 /\ job.ignored /\ Len(job.new.body) + Len(job.buf) + Len(job.src) < job.size
    BY <1>10, <2>3
  <2>4. CASE t.ret # 1
    <3>1. Size(t) <= Size(s) => Len(t.body) + Len(t.buf) + Len(rest) < job.size
      BY <1>9, <1>10
    <3> QED
      BY <1>12, <2>4, <3>1, Zenon
  <2> QED
    BY <1>7, <2>1, <2>2, <2>3, <2>4, Zenon
<1>14. /\ job' \in JobRec /\ job'.op = "compress" /\ job'.name = job.name /\ job'.temp = job.temp /\ job'.codec = c
       /\ job'.size = job.size /\ job'.cancel = job.cancel /\ job'.src = rest /\ job'.new = w /\ job'.buf = t.buf
       /\ job'.stuck = t.stuck /\ job'.ret = r /\ job'.ignored = g /\ job'.pc = p
  <2> DEFINE u == t.buf
             k == t.stuck
             j == [job EXCEPT !.src = rest, !.new = w, !.buf = u, !.stuck = k]
  <2>1. u \in Data /\ k \in BOOLEAN /\ job' = [j EXCEPT !.ret = r, !.ignored = g, !.pc = p]
    BY <1>1, <1>5
  <2> HIDE DEF c, rest, w, r, g, p, t
  <2>2. u = t.buf /\ k = t.stuck
    OBVIOUS
  <2> HIDE DEF u, k
  <2>3. /\ j \in JobRec /\ j.op = job.op /\ j.name = job.name /\ j.temp = job.temp /\ j.codec = job.codec
        /\ j.size = job.size /\ j.cancel = job.cancel /\ j.src = rest /\ j.new = w /\ j.buf = u /\ j.stuck = k
    BY <1>2, <1>3, <1>6, <2>1 DEF JobRec
  <2> HIDE DEF j
  <2>4. /\ job' \in JobRec /\ job'.op = j.op /\ job'.name = j.name /\ job'.temp = j.temp /\ job'.codec = j.codec
        /\ job'.size = j.size /\ job'.cancel = j.cancel /\ job'.src = j.src /\ job'.new = j.new /\ job'.buf = j.buf
        /\ job'.stuck = j.stuck /\ job'.ret = r /\ job'.ignored = g /\ job'.pc = p
    <3>1. j \in JobRec /\ job' = [j EXCEPT !.ret = r, !.ignored = g, !.pc = p]
      BY <2>1, <2>3
    <3>2. r \in Length \cup {FAIL, Odd} /\ g \in BOOLEAN /\ p \in {"start", "loop", "tail", "check"}
      BY <1>10, <1>11
    <3> DEFINE i1 == [j EXCEPT !.ret = r]
               i2 == [i1 EXCEPT !.ignored = g]
    <3>3. /\ i1 \in JobRec /\ i1.op = j.op /\ i1.name = j.name /\ i1.temp = j.temp /\ i1.codec = j.codec
          /\ i1.size = j.size /\ i1.cancel = j.cancel /\ i1.src = j.src /\ i1.new = j.new /\ i1.buf = j.buf
          /\ i1.stuck = j.stuck /\ i1.ret = r
      BY <3>1, <3>2 DEF JobRec
    <3>4. job' = [i2 EXCEPT !.pc = p]
      BY <3>1
    <3> HIDE DEF i1
    <3>5. /\ i2 \in JobRec /\ i2.op = i1.op /\ i2.name = i1.name /\ i2.temp = i1.temp /\ i2.codec = i1.codec
          /\ i2.size = i1.size /\ i2.cancel = i1.cancel /\ i2.src = i1.src /\ i2.new = i1.new /\ i2.buf = i1.buf
          /\ i2.stuck = i1.stuck /\ i2.ret = i1.ret /\ i2.ignored = g
      BY <3>2, <3>3 DEF JobRec
    <3> HIDE DEF i2
    <3>6. /\ job' \in JobRec /\ job'.op = i2.op /\ job'.name = i2.name /\ job'.temp = i2.temp /\ job'.codec = i2.codec
          /\ job'.size = i2.size /\ job'.cancel = i2.cancel /\ job'.src = i2.src /\ job'.new = i2.new /\ job'.buf = i2.buf
          /\ job'.stuck = i2.stuck /\ job'.ret = i2.ret /\ job'.ignored = i2.ignored /\ job'.pc = p
      BY <3>2, <3>4, <3>5 DEF JobRec
    <3> QED
      BY <3>3, <3>5, <3>6
  <2> QED
    BY <1>1, <2>2, <2>3, <2>4 DEF c
<1> HIDE DEF c, s, x, rest, t, failed, w, r, g, p
<1>15. Formed(w) /\ w.img /\ w.codec = c
  <2>1. Formed(job.new)
    BY <1>2, NullIsNothing DEF IInv, Types
  <2> QED
    BY <1>6, <1>7, <1>10, <2>1 DEF Formed
<1>16. Compressing'
  <2>1. file' = file
    BY <1>1, <1>14 DEF file
  <2>2. job'.pc \in {"loop", "tail"} =>
            /\ job'.codec = "null" => job'.buf = <<>>
            /\ job'.stuck => job'.buf # <<>>
            /\ job'.codec # "null" /\ job'.buf = <<>> => job'.new.body = <<>>
    BY <1>5, <1>12, <1>14, Zenon DEF Usable
  <2>3. job'.pc \in {"loop", "tail"} =>
            /\ job'.ret \in Nat /\ job'.ret + Len(job'.src) = job'.size
            /\ Len(job'.new.body) + Len(job'.buf) + Len(job'.src) <= job'.size
    BY <1>6, <1>10, <1>11, <1>14
  <2>4. \/ (job'.new.body \o job'.buf) \o job'.src = file /\ ~job'.stuck
        \/ job'.ignored /\ ((job'.codec # "null" /\ HasGap(job'.new.body))
                            \/ Len(job'.new.body) + Len(job'.buf) + Len(job'.src) < job'.size)
    BY <1>6, <1>13, <1>14
  <2>5. job'.pc = "tail" => job'.cancel
    BY <1>11, <1>14
  <2>6. job'.pc = "check" => job'.ret = FAIL
    BY <1>11, <1>14
  <2>7. job'.size = Len(file) /\ job'.new.size = job'.size /\ job'.new.img /\ job'.new.codec = job'.codec
    BY <1>6, <1>7, <1>14, <1>15
  <2> QED
    BY <2>1, <2>2, <2>3, <2>4, <2>5, <2>6, <2>7 DEF Compressing
<1>17. Decompressing'
  BY <1>14 DEF Decompressing
<1>18. job'.codec = "lzo" => Len(job'.buf) <= Block
  BY <1>5, <1>14 DEF Usable
<1>19. job'.cancel => prog = "mount"
  BY <1>14 DEF IInv, Control
<1> QED
  BY <1>1, <1>6, <1>11, <1>14, <1>15, <1>16, <1>17, <1>18, <1>19, WorkingStays DEF c

(* A stream that is closed has become the file, or what was lost is ignored *)
(* and makes the image shorter than its header says.                        *)
LEMMA CompressTailInv ==
    ASSUME IInv, NEW o \in Outcome, CompressTail(o)
    PROVE  IInv'
<1> DEFINE c == job.codec
           s == Stream(job.new)
           t == CodecClose(c, s, o)
           told == c = "lzma" /\ o = "none"
           w == Written(job.new, t)
           r == IF told THEN Odd ELSE job.ret
           g == job.ignored \/ (o # "ok" /\ c # "null" /\ ~told)
           file == Bytes(dir[job.name])
           all == job.new.body \o job.buf
           lb == Len(job.new.body)
           lu == Len(job.buf)
           n == job.size
<1>1. /\ job.op = "compress" /\ job.pc \in {"loop", "tail"} /\ (job.pc = "loop" => job.src = <<>>)
      /\ UNCHANGED <<dir, temps, contents, harm, prog, off, fsck, leaks>>
      /\ job' = [job EXCEPT !.pc = "check", !.new = w, !.ret = r, !.ignored = g]
  BY DEF CompressTail
<1>2. /\ job \in JobRec /\ c \in Codec /\ job.new \in FileRec /\ n <= MaxLen
      /\ s \in StreamRec /\ Usable(c, s) /\ s.body = job.new.body /\ s.buf = job.buf /\ s.stuck = job.stuck
      /\ dir[job.name] \in FileRec /\ Formed(dir[job.name]) /\ job.name \in Name
  BY <1>1, CompressFacts
<1>3. Closes(c, s, o, t)
  BY <1>2, CodecCloseCloses
<1>4. /\ t.body \in Data /\ t.end \in BOOLEAN /\ t.body \in {all, job.new.body, Append(job.new.body, Gap)}
      /\ c = "null" \/ (o = "ok" /\ ~job.stuck) => t.body = all
  <2> HIDE DEF s, t
  <2> QED
    BY <1>2, <1>3 DEF Closes
<1>5. w \in FileRec /\ w # Absent /\ w.body = t.body /\ w.img = job.new.img /\ w.codec = job.new.codec /\ w.size = job.new.size
  BY <1>2, <1>4, WrittenType
<1>6. /\ n = Len(file) /\ job.new.size = n /\ job.new.img /\ job.new.codec = c
      /\ job.ret \in Nat /\ job.ret + Len(job.src) = n
      /\ c # "null" /\ job.buf = <<>> => job.new.body = <<>>
      /\ lb + lu + Len(job.src) <= n
      /\ \/ all \o job.src = file /\ ~job.stuck
         \/ job.ignored /\ ((c # "null" /\ HasGap(job.new.body)) \/ lb + lu + Len(job.src) < n)
      /\ job.pc = "tail" => job.cancel
  BY <1>1 DEF IInv, Compressing
<1>7. /\ job.new.body \in Data /\ job.buf \in Data /\ lb \in Nat /\ lu \in Nat /\ Len(job.src) \in Nat /\ n \in Nat
      /\ all \in Data /\ Len(all) = lb + lu /\ (job.buf = <<>> => all = job.new.body)
      /\ Append(job.new.body, Gap) \in Data /\ Len(Append(job.new.body, Gap)) = lb + 1
      /\ Append(job.new.body, Gap)[lb + 1] = Gap /\ (lu = 0 <=> job.buf = <<>>)
      /\ HasGap(job.new.body) => HasGap(all) /\ HasGap(Append(job.new.body, Gap))
  <2>1. job.new.body \in Data /\ job.buf \in Data /\ job.src \in Data /\ n \in Length
    BY <1>2 DEF FileRec, JobRec
  <2>2. lb \in Nat /\ lu \in Nat /\ Len(job.src) \in Nat /\ n \in Nat /\ (lu = 0 <=> job.buf = <<>>)
    <3>1. Len(job.new.body) \in Nat /\ Len(job.src) \in Nat /\ Len(job.buf) \in Nat
      BY <2>1, LenProperties, ImagesConstants DEF Data, Length
    <3>2. Len(job.buf) = 0 <=> job.buf = <<>>
      BY <2>1, EmptySeq DEF Data
    <3>3. job.size \in Nat
      BY <2>1, ImagesConstants DEF Length
    <3> QED
      BY <3>1, <3>2, <3>3
  <2>3. job.buf = <<>> => all = job.new.body
    BY <2>1, ConcatEmptySeq DEF Data
  <2> QED
    BY <2>1, <2>2, <2>3, GapStays, GapMade
<1> HIDE DEF all
<1>8. /\ Len(Found(w)) \in Nat /\ Len(Found(w)) <= Len(t.body) /\ Found(w) \in Data
      /\ c # "null" => \A i \in 1 .. Len(t.body) : t.body[i] = Gap => Len(Found(w)) < i
  <2> HIDE DEF w, c
  <2> QED
    BY <1>5, <1>6, FoundType
<1>9. Len(t.body) <= MaxLen
  <2>1. c # "null" /\ lu = 0 => lb = 0
    BY <1>6, <1>7, EmptySeq
  <2>2. c = "null" => t.body = all
    BY <1>4
  <2>3. Len(t.body) \in {lb + lu, lb, lb + 1}
    BY <1>4, <1>7
  <2>4. c = "null" => Len(t.body) = lb + lu
    BY <2>2, <1>7
  <2> DEFINE l == Len(t.body)
             ls == Len(job.src)
  <2>5. /\ l \in {lb + lu, lb, lb + 1} /\ (c = "null" => l = lb + lu) /\ (c # "null" /\ lu = 0 => lb = 0)
        /\ lb \in Nat /\ lu \in Nat /\ ls \in Nat /\ n \in Nat /\ n <= MaxLen /\ lb + lu + ls <= n
    BY <1>2, <1>6, <1>7, <2>1, <2>3, <2>4
  <2> HIDE DEF lb, lu, n, t, c, l, ls
  <2>6. l <= MaxLen
    BY <2>5, ImagesConstants
  <2> QED
    BY <2>6 DEF l
<1>10. /\ Len(Found(w)) <= lb + lu \/ t.body # all
       /\ t.body # all => c # "null" /\ Len(Found(w)) <= lb
       /\ c # "null" /\ HasGap(job.new.body) => Len(Found(w)) < lb
  <2>1. t.body = all => Len(Found(w)) <= lb + lu
    BY <1>7, <1>8
  <2>2. t.body # all => c # "null"
    BY <1>4
  <2>3. t.body = job.new.body => Len(Found(w)) <= lb
    BY <1>8
  <2>4. c # "null" /\ t.body = Append(job.new.body, Gap) => Len(Found(w)) <= lb
    <3> SUFFICES ASSUME c # "null", t.body = Append(job.new.body, Gap) PROVE Len(Found(w)) <= lb
      OBVIOUS
    <3>1. lb + 1 \in 1 .. Len(t.body) /\ t.body[lb + 1] = Gap
      BY <1>7
    <3>2. Len(Found(w)) < lb + 1
      BY <1>8, <3>1
    <3> HIDE DEF lb, w
    <3> QED
      BY <1>7, <1>8, <3>2
  <2>5. ASSUME c # "null", HasGap(job.new.body) PROVE Len(Found(w)) < lb
    <3>1. PICK i \in 1 .. lb : job.new.body[i] = Gap
      BY <2>5 DEF HasGap
    <3>2. i \in 1 .. Len(t.body) /\ t.body[i] = Gap
      <4>1. CASE t.body = job.new.body
        BY <3>1, <4>1
      <4>2. CASE t.body = all
        <5> HIDE DEF t
        <5>1. job.new.body \in Data /\ job.buf \in Data /\ i \in 1 .. Len(job.new.body)
          BY <1>7
        <5>2. i \in 1 .. Len(job.new.body \o job.buf) /\ (job.new.body \o job.buf)[i] = job.new.body[i]
          BY <5>1, Kept
        <5>3. t.body = job.new.body \o job.buf
          BY <4>2 DEF all
        <5> QED
          BY <3>1, <5>2, <5>3
      <4>3. CASE t.body = Append(job.new.body, Gap)
        BY <1>7, <3>1, <4>3, Kept
      <4> QED
        BY <1>4, <4>1, <4>2, <4>3
    <3>3. Len(Found(w)) < i
      BY <1>8, <2>5, <3>2
    <3> HIDE DEF lb, w
    <3> QED
      BY <1>7, <1>8, <3>1, <3>3
  <2> QED
    BY <1>4, <2>1, <2>2, <2>3, <2>4, <2>5
<1>11. ASSUME r # FAIL, ~job.cancel
       PROVE  \/ t.body = file
              \/ (g \/ r = Odd) /\ (Len(Found(w)) < n \/ Found(w) = file)
  <2>1. job.src = <<>> /\ Len(job.src) = 0 /\ all \o job.src = all
    BY <1>1, <1>6, <1>7, <1>11, ConcatEmptySeq, EmptySeq DEF Data
  <2>2. CASE all \o job.src = file /\ ~job.stuck /\ t.body # all
    <3>1. c # "null" /\ o # "ok"
      BY <1>4, <2>2
    <3>2. g \/ r = Odd
      BY <3>1
    <3>3. n = lb + lu /\ Len(Found(w)) <= lb
      BY <1>6, <1>7, <1>10, <2>1, <2>2
    <3>4. lu = 0 => Found(w) = file
      <4> SUFFICES ASSUME lu = 0 PROVE Found(w) = file
        OBVIOUS
      <4>1. job.buf = <<>> /\ job.new.body = <<>> /\ all = <<>> /\ lb = 0
        BY <1>6, <1>7, <3>1, EmptySeq
      <4>2. Len(Found(w)) = 0
        BY <1>8, <3>3, <4>1
      <4>3. Found(w) = <<>>
        BY <1>8, <4>2, EmptySeq DEF Data
      <4> QED
        BY <2>1, <2>2, <4>1, <4>3
    <3>5. lu # 0 => Len(Found(w)) < n
      <4> HIDE DEF lb, lu, n, w
      <4> QED
        BY <1>7, <1>8, <3>3
    <3> HIDE DEF g, r, n, w, file, lu
    <3> QED
      BY <3>2, <3>4, <3>5
  <2>3. CASE all \o job.src = file /\ t.body = all
    BY <2>1, <2>3
  <2>4. CASE job.ignored
    <3>1. (c # "null" /\ HasGap(job.new.body)) \/ lb + lu < n => Len(Found(w)) < n
      <4>1. lb + lu <= n
        <5> DEFINE ls == Len(job.src)
        <5>1. ls = 0 /\ lb + lu + ls <= n /\ lb \in Nat /\ lu \in Nat
          BY <1>6, <1>7, <2>1
        <5> HIDE DEF ls, lb, lu, n
        <5> QED
          BY <5>1
      <4> HIDE DEF lb, lu, n, w, t, c
      <4> QED
        BY <1>7, <1>8, <1>10, <4>1
    <3>2. CASE all \o job.src = file /\ ~job.stuck
      BY <2>2, <2>3, <3>2
    <3>3. CASE (c # "null" /\ HasGap(job.new.body)) \/ lb + lu + Len(job.src) < n
      <4>1. lb + lu + Len(job.src) = lb + lu
        BY <1>7, <2>1
      <4>2. Len(Found(w)) < n
        BY <3>1, <3>3, <4>1
      <4>3. g
        BY <2>4
      <4> QED
        BY <4>2, <4>3
    <3> QED
      BY <1>6, <3>2, <3>3
  <2> QED
    BY <1>6, <2>2, <2>3, <2>4
<1>12. r \in Length \cup {FAIL, Odd} /\ g \in BOOLEAN
  <2>1. job.ret <= n
    <3> DEFINE ls == Len(job.src)
               q == job.ret
    <3>1. q \in Nat /\ ls \in Nat /\ q + ls = n
      BY <1>6, <1>7
    <3> HIDE DEF n, ls, q
    <3>2. q <= n
      BY <3>1, <1>7
    <3> QED
      BY <3>2 DEF q
  <2> QED
    BY <1>2, <1>6, <1>7, <2>1, ImagesConstants DEF Length
<1>13. /\ job' \in JobRec /\ job'.op = "compress" /\ job'.name = job.name /\ job'.temp = job.temp /\ job'.codec = c
       /\ job'.size = n /\ job'.cancel = job.cancel /\ job'.new = w /\ job'.buf = job.buf
       /\ job'.ret = r /\ job'.ignored = g /\ job'.pc = "check"
  <2> DEFINE j1 == [job EXCEPT !.pc = "check", !.new = w]
             j2 == [j1 EXCEPT !.ret = r]
  <2>1. job' = [j2 EXCEPT !.ignored = g]
    BY <1>1
  <2> HIDE DEF w, r, g
  <2>2. /\ j1 \in JobRec /\ j1.op = job.op /\ j1.name = job.name /\ j1.temp = job.temp /\ j1.codec = job.codec
        /\ j1.size = job.size /\ j1.cancel = job.cancel /\ j1.new = w /\ j1.buf = job.buf /\ j1.pc = "check"
    BY <1>2, <1>5 DEF JobRec
  <2> HIDE DEF j1
  <2>3. /\ j2 \in JobRec /\ j2.op = j1.op /\ j2.name = j1.name /\ j2.temp = j1.temp /\ j2.codec = j1.codec
        /\ j2.size = j1.size /\ j2.cancel = j1.cancel /\ j2.new = j1.new /\ j2.buf = j1.buf /\ j2.pc = j1.pc /\ j2.ret = r
    BY <2>2, <1>12 DEF JobRec
  <2> HIDE DEF j2
  <2>4. /\ job' \in JobRec /\ job'.op = j2.op /\ job'.name = j2.name /\ job'.temp = j2.temp /\ job'.codec = j2.codec
        /\ job'.size = j2.size /\ job'.cancel = j2.cancel /\ job'.new = j2.new /\ job'.buf = j2.buf /\ job'.pc = j2.pc
        /\ job'.ret = j2.ret /\ job'.ignored = g
    BY <2>1, <2>3, <1>12 DEF JobRec
  <2> QED
    BY <1>1, <2>2, <2>3, <2>4
<1> HIDE DEF w, r, g, t
<1>14. Formed(w)
  <2>1. Formed(job.new)
    BY <1>2, NullIsNothing DEF IInv, Types
  <2> QED
    BY <1>5, <1>9, <2>1 DEF Formed
<1>15. Compressing'
  <2>1. file' = file
    BY <1>1, <1>13
  <2>2. job'.ret # FAIL /\ ~job'.cancel =>
            \/ job'.new.body = file
            \/ /\ job'.ignored \/ job'.ret = Odd
               /\ Len(Found(job'.new)) < job'.size \/ Found(job'.new) = file
    BY <1>5, <1>11, <1>13
  <2>3. Found(job.new)' = Found(job'.new)
    BY DEF Found, Decoded
  <2> HIDE DEF file
  <2> QED
    BY <1>5, <1>6, <1>13, <2>1, <2>2, <2>3 DEF Compressing, file
<1>16. Decompressing'
  BY <1>13 DEF Decompressing
<1>17. (job'.codec = "lzo" => Len(job'.buf) <= Block) /\ (job'.cancel => prog = "mount")
  BY <1>13 DEF IInv, Types, Control
<1> QED
  BY <1>1, <1>5, <1>13, <1>14, <1>15, <1>16, <1>17, WorkingStays

LEMMA CancelInv == ASSUME IInv, Cancel PROVE IInv'
<1> DEFINE yes == TRUE
<1>1. /\ job.op = "compress" /\ job.pc = "loop" /\ prog = "mount" /\ job' = [job EXCEPT !.cancel = yes]
      /\ UNCHANGED <<dir, temps, contents, harm, prog, off, fsck, leaks>>
  BY DEF Cancel
<1>2. job \in JobRec /\ yes \in BOOLEAN
  BY DEF IInv, Types
<1> HIDE DEF yes
<1>3. /\ job' \in JobRec /\ job'.op = job.op /\ job'.name = job.name /\ job'.temp = job.temp /\ job'.codec = job.codec
      /\ job'.size = job.size /\ job'.src = job.src /\ job'.new = job.new /\ job'.buf = job.buf
      /\ job'.stuck = job.stuck /\ job'.ret = job.ret /\ job'.ignored = job.ignored /\ job'.pc = job.pc
  BY <1>1, <1>2 DEF JobRec
<1>4. Compressing'
  BY <1>1, <1>3 DEF IInv, Compressing
<1>5. Decompressing'
  BY <1>1, <1>3 DEF Decompressing
<1>6. /\ job'.new # Absent /\ Formed(job'.new) /\ (job'.codec = "lzo" => Len(job'.buf) <= Block) /\ job'.pc # "start"
  BY <1>1, <1>3 DEF IInv, Types, Control
<1> QED
  BY <1>1, <1>3, <1>4, <1>5, <1>6, WorkingStays

-----------------------------------------------------------------------------
(* Decompressing *)

LEMMA OmitType ==
    ASSUME NEW s \in Data, NEW k \in 1 .. Len(s)
    PROVE  Omit(s, k) \in Data /\ Len(Omit(s, k)) = Len(s) - 1 /\ Len(s) \in Nat \ {0}
<1>1. Len(s) \in Nat /\ k \in Nat /\ 1 <= k /\ k <= Len(s)
  BY LenProperties DEF Data
<1>2. \A i \in 1 .. Len(s) : s[i] \in 0 .. MaxLen + 1
  BY ElementOfSeq DEF Data
<1>3. SubSeq(s, 1, k - 1) \in Data /\ Len(SubSeq(s, 1, k - 1)) = k - 1
  BY <1>1, <1>2, SubSeqProperties DEF Data
<1>4. SubSeq(s, k + 1, Len(s)) \in Data /\ Len(SubSeq(s, k + 1, Len(s))) = Len(s) - k
  BY <1>1, <1>2, SubSeqProperties DEF Data
<1>5. /\ Omit(s, k) \in Data
      /\ Len(Omit(s, k)) = Len(SubSeq(s, 1, k - 1)) + Len(SubSeq(s, k + 1, Len(s)))
  BY <1>3, <1>4, GapStays DEF Omit
<1> DEFINE l == Len(s)
<1>6. l \in Nat /\ k \in Nat /\ 1 <= k /\ k <= l /\ Len(Omit(s, k)) = (k - 1) + (l - k)
  BY <1>1, <1>3, <1>4, <1>5
<1>7. Len(Omit(s, k)) = l - 1 /\ l \in Nat \ {0}
  <2> DEFINE m == Len(Omit(s, k))
  <2>1. m = (k - 1) + (l - k)
    BY <1>6
  <2> HIDE DEF l, m
  <2>2. m = l - 1 /\ l \in Nat \ {0}
    BY <1>6, <2>1
  <2> QED
    BY <2>2 DEF m
<1> QED
  BY <1>5, <1>7

(* What a codec's decompress function reports as a full length is the data. *)
LEMMA DecompressRunInv == ASSUME IInv, NEW o \in Outcome, DecompressRun(o) PROVE IInv'
<1> DEFINE e == dir[job.name]
           data == Found(e)
           n == Len(data)
<1>1. /\ job.op = "decompress" /\ job.pc = "loop" /\ UNCHANGED <<dir, temps, contents, harm, prog, off, fsck, leaks>>
  BY Zenon DEF DecompressRun
<1>2. /\ job \in JobRec /\ e \in FileRec /\ Formed(e) /\ job.new \in FileRec /\ job.new # Absent /\ Formed(job.new)
      /\ job.size = e.size
  BY <1>1 DEF IInv, Types, Control, Exists, JobRec, Decompressing
<1>3. /\ data \in Data /\ n \in Nat /\ n <= MaxLen /\ n \in Length
  <2>1. Len(e.body) <= MaxLen /\ Len(e.body) \in Nat
    BY <1>2, LenProperties DEF Formed, FileRec, Data
  <2>2. Found(e) \in Data /\ Len(Found(e)) \in Nat /\ Len(Found(e)) <= Len(e.body)
    BY <1>2, FoundType
  <2>3. Len(Found(e)) <= MaxLen
    BY <2>1, <2>2, ImagesConstants
  <2> QED
    BY <2>2, <2>3, ImagesConstants DEF Length
<1> DEFINE Ran(w, r) == job' = [job EXCEPT !.pc = "check", !.new = w, !.ret = r]
           Right(w, r) ==
                /\ w \in FileRec /\ w # Absent /\ Formed(w) /\ r \in Length \cup {FAIL, Odd}
                /\ \/ r = FAIL
                   \/ w = Raw(data) /\ r = n
                   \/ r = n - 1 /\ w.size = Len(w.body) /\ ~w.img
           err == Decoded(e).err
<1>4. \E w, r : Ran(w, r) /\ Right(w, r)
  <2>1. \/ Ran(Raw(data), IF err THEN FAIL ELSE n)
        \/ job' = [job EXCEPT !.pc = "check", !.ret = FAIL]
        \/ \E k \in 1 .. n : Ran(Raw(Omit(data, k)), IF err THEN FAIL ELSE n - 1)
    BY Zenon DEF DecompressRun, Found
  <2> HIDE DEF Ran, data, err
  <2>2. CASE Ran(Raw(data), IF err THEN FAIL ELSE n)
    <3>1. (IF err THEN FAIL ELSE n) \in {FAIL, n}
      OBVIOUS
    <3>2. Raw(data) \in FileRec /\ Raw(data) # Absent /\ Formed(Raw(data))
      BY <1>3, RawType
    <3>3. Right(Raw(data), IF err THEN FAIL ELSE n)
      <4> HIDE DEF n
      <4> QED
        BY <1>3, <3>1, <3>2
    <3> QED
      BY <2>2, <3>3, Zenon
  <2>3. CASE job' = [job EXCEPT !.pc = "check", !.ret = FAIL]
    <3>1. job' = [job EXCEPT !.pc = "check", !.new = job.new, !.ret = FAIL]
      BY <1>2, <2>3 DEF JobRec
    <3>2. Right(job.new, FAIL)
      BY <1>2
    <3>3. Ran(job.new, FAIL)
      BY <3>1 DEF Ran
    <3> QED
      BY <3>2, <3>3, Zenon
  <2>4. CASE \E k \in 1 .. n : Ran(Raw(Omit(data, k)), IF err THEN FAIL ELSE n - 1)
    <3>1. PICK k \in 1 .. n : Ran(Raw(Omit(data, k)), IF err THEN FAIL ELSE n - 1)
      BY <2>4, Zenon
    <3>2. Omit(data, k) \in Data /\ Len(Omit(data, k)) = n - 1 /\ n \in Nat \ {0}
      BY <1>3, OmitType
    <3> DEFINE m == Omit(data, k)
    <3>3. m \in Data /\ Len(m) <= MaxLen /\ n - 1 \in Length /\ (IF err THEN FAIL ELSE n - 1) \in {FAIL, n - 1}
      <4> HIDE DEF n
      <4> QED
        BY <1>3, <3>2, ImagesConstants DEF Length
    <3>4. /\ Raw(m) \in FileRec /\ Raw(m) # Absent /\ Formed(Raw(m)) /\ Raw(m).img = FALSE
          /\ Raw(m).size = Len(m) /\ Raw(m).body = m
      <4> HIDE DEF m
      <4> QED
        BY <3>3, RawType
    <3>5. Right(Raw(m), IF err THEN FAIL ELSE n - 1)
      <4> HIDE DEF n, m
      <4> QED
        BY <3>3, <3>4
    <3> QED
      BY <3>1, <3>5, Zenon
  <2> QED
    BY <2>1, <2>2, <2>3, <2>4, Zenon
<1>5. PICK w, r : Ran(w, r) /\ Right(w, r)
  BY <1>4, Zenon
<1>6. /\ job' \in JobRec /\ job'.op = job.op /\ job'.name = job.name /\ job'.temp = job.temp /\ job'.codec = job.codec
      /\ job'.size = job.size /\ job'.cancel = job.cancel /\ job'.new = w /\ job'.buf = job.buf
      /\ job'.ret = r /\ job'.pc = "check"
  BY <1>2, <1>5 DEF JobRec
<1>7. Found(dir[job.name])' = data
  BY <1>1, <1>6 DEF Found, Decoded
<1> HIDE DEF data
<1>8. Decompressing'
  <2>1. \/ job'.ret = FAIL
        \/ job'.new = Raw(data) /\ job'.ret = Len(data)
        \/ job'.ret = Len(data) - 1 /\ job'.new.size = Len(job'.new.body) /\ ~job'.new.img
    BY <1>5, <1>6
  <2>2. job'.size = dir'[job'.name].size
    BY <1>1, <1>2, <1>6
  <2> QED
    BY <1>7, <2>1, <2>2 DEF Decompressing
<1>9. Compressing'
  BY <1>1, <1>6 DEF Compressing
<1>10. (job'.codec = "lzo" => Len(job'.buf) <= Block) /\ (job'.cancel => prog = "mount" /\ job.op = "compress")
  BY <1>6 DEF IInv, Types, Control
<1> QED
  BY <1>1, <1>5, <1>6, <1>8, <1>9, <1>10, WorkingStays

-----------------------------------------------------------------------------
(* Replacing a file *)

(* What a compressed or decompressed file contains, if nothing is known to  *)
(* have happened to it, or only what makes it shorter.                      *)
LEMMA ReplacedHolds ==
    ASSUME IInv, Checking, Accepts, Light(harm[job.name] \cup Ways)
    PROVE  Holds(job.new, contents[job.name], harm[job.name] \cup Ways)
<1> DEFINE f == job.name
           e == dir[f]
           text == contents[f]
           n == Len(text)
<1>1. /\ job.op \in {"compress", "decompress"} /\ job.pc = "check" /\ job.ret # FAIL /\ ~job.cancel
      /\ (prog = "mount" => job.ret = job.size) /\ prog \in {"mount", "offline"}
  BY DEF Checking, Accepts, IInv, Control
<1>2. /\ f \in Name /\ Exists(f) /\ e \in FileRec /\ Formed(e) /\ job.new \in FileRec /\ Formed(job.new)
  BY <1>1 DEF IInv, Types, Control, Exists, JobRec
<1>3. Light(harm[f]) /\ "wrapped" \notin Ways /\ "short" \notin Ways
  BY DEF Light
<1>4. Holds(e, text, harm[f]) /\ text \in Seq(Unit) /\ n \in Nat
  <2>1. text # Null /\ text \in Seq(Unit) \cup {Null}
    BY <1>1, <1>2 DEF IInv, Types, Files
  <2>2. Holds(e, text, harm[f])
    BY <1>1, <1>2, <1>3 DEF IInv, Files
  <2> QED
    BY <2>1, <2>2, LenProperties
<1>5. CASE job.op = "compress"
  <2>1. ~e.img
    BY <1>1, <1>3, <1>5 DEF IInv, Control, Ways
  <2>2. /\ Found(e) = e.body /\ Bytes(e) = e.body /\ Len(e.body) <= MaxLen
    BY <1>2, <2>1, FoundType, BytesType DEF Formed
  <2>3. Bytes(e) = text /\ e.size = n
    BY <1>4, <2>1, <2>2 DEF Holds
  <2>4. job.new.size = n /\ job.new.img
    BY <1>5, <2>3 DEF IInv, Compressing
  <2>5. \/ job.new.body = text
        \/ (job.ignored \/ job.ret = Odd) /\ (Len(Found(job.new)) < n \/ Found(job.new) = text)
    BY <1>1, <1>5, <2>3, <2>4 DEF IInv, Compressing
  <2>6. CASE job.new.body = text
    <3>1. ~HasGap(text)
      BY <1>4, <2>2, <2>3, TextData
    <3>2. Found(job.new) = text
      BY <1>2, <2>6, <3>1, FoundType
    <3> QED
      BY <2>4, <3>2 DEF Holds
  <2>7. CASE (job.ignored \/ job.ret = Odd) /\ (Len(Found(job.new)) < n \/ Found(job.new) = text)
    <3>1. "ignored" \in Ways
      BY <2>7 DEF Ways
    <3> QED
      BY <2>4, <2>7, <3>1 DEF Holds
  <2> QED
    BY <2>5, <2>6, <2>7
<1>6. CASE job.op = "decompress"
  <2> DEFINE d == Found(e)
             m == Len(d)
  <2>1. job.ret = job.size /\ job.size = e.size /\ e.size = n
    BY <1>1, <1>3, <1>4, <1>6 DEF Ways, IInv, Decompressing, Holds
  <2>2. m \in Nat /\ d \in Data /\ (d = text \/ m < n)
    BY <1>2, <1>4, FoundType DEF Holds
  <2>3. (job.new = Raw(d) /\ job.ret = m) \/ job.ret = m - 1
    BY <1>1, <1>6 DEF IInv, Decompressing
  <2>4. job.new = Raw(d) /\ d = text
    <3>1. d = text => m = n
      OBVIOUS
    <3> HIDE DEF d, m, n
    <3>2. m = n /\ d = text
      BY <1>4, <2>1, <2>2, <2>3, <3>1
    <3> QED
      BY <1>4, <2>1, <2>3, <3>2
  <2>5. Raw(d).body = d /\ Raw(d).img = FALSE /\ Raw(d).size = Len(d)
    BY DEF Raw
  <2>6. Found(job.new) = d
    BY <1>2, <2>4, <2>5, FoundType
  <2> QED
    BY <2>4, <2>5, <2>6 DEF Holds
<1> QED
  BY <1>1, <1>5, <1>6

LEMMA ReplaceInv == ASSUME IInv, Replace PROVE IInv'
<1> DEFINE f == job.name
<1>1. /\ job.op \in {"compress", "decompress"} /\ Checking /\ Accepts /\ (Aborts \/ Ends)
      /\ dir' = [dir EXCEPT ![f] = job.new] /\ temps' = temps \ {job.temp}
      /\ harm' = [harm EXCEPT ![f] = @ \cup Ways] /\ UNCHANGED <<contents, fsck, leaks>>
  BY DEF Replace, Checking, Harmed
<1>2. /\ f \in Name /\ Exists(f) /\ job.new \in FileRec /\ job.new # Absent /\ Formed(job.new)
      /\ dir \in [Name -> FileRec \cup {Absent}] /\ prog \in {"mount", "offline"}
      /\ harm \in [Name -> SUBSET {"ignored", "told", "crash", "short", "wrapped"}]
  BY <1>1 DEF IInv, Types, Control, JobRec
<1>3. /\ job' = Idle /\ (prog' = "none" \/ (UNCHANGED <<prog, off>>)) /\ off' \in OffRec
      /\ temps' \subseteq Temp /\ temps' \subseteq leaks' /\ leaks' \subseteq Temp
  BY <1>1, EndFacts
<1>4. /\ dir'[f] = job.new /\ harm'[f] = harm[f] \cup Ways
      /\ \A g \in Name \ {f} : dir'[g] = dir[g] /\ harm'[g] = harm[g]
  BY <1>1, <1>2
<1>5. \A g \in Name : Exists(g)' <=> Exists(g)
  BY <1>2, <1>4 DEF Exists
<1>6. JobInv' /\ job'.op = "none" /\ job' \in JobRec /\ job'.new = Absent /\ ~job'.cancel /\ job'.codec = Null
  BY <1>3, NoJob, IdleType DEF Idle, Absent
<1>7. Types'
  <2>1. job'.codec # "lzo"
    BY <1>6, NullAssumption DEF CodecName
  <2>2. prog' \in {"none", "mount", "offline", "fsck"}
    BY <1>2, <1>3
  <2>3. dir' \in [Name -> FileRec \cup {Absent}] /\ \A g \in Name : Exists(g)' => Formed(dir'[g])
    BY <1>1, <1>2, <1>4 DEF IInv, Types, Exists
  <2>4. Ways \in SUBSET {"ignored", "told", "crash", "short", "wrapped"}
    BY DEF Ways
  <2>5. harm' \in [Name -> SUBSET {"ignored", "told", "crash", "short", "wrapped"}]
    BY <1>1, <1>2, <2>4
  <2> QED
    BY <1>1, <1>3, <1>6, <2>1, <2>2, <2>3, <2>5 DEF IInv, Types
<1>8. Control'
  <2>1. prog' = "offline" => (\A g \in off'.todo : Exists(g)') /\ (off'.inner => off'.comp # Null)
    <3> SUFFICES ASSUME prog' = "offline" PROVE (\A g \in off'.todo : Exists(g)') /\ (off'.inner => off'.comp # Null)
      OBVIOUS
    <3>1. prog = "offline" /\ off' = off /\ off.todo \subseteq Name
      BY <1>2, <1>3 DEF IInv, Types, OffRec
    <3>2. (\A g \in off.todo : Exists(g)) /\ (off.inner => off.comp # Null)
      BY <3>1 DEF IInv, Control
    <3> QED
      BY <1>5, <3>1, <3>2
  <2> QED
    BY <1>3, <1>6, <2>1 DEF Control
<1>9. Temporaries'
  BY <1>3, <1>6 DEF Temporaries
<1>10. Counted'
  <2>1. fsck.exit = Null
    BY <1>2 DEF IInv, Counted
  <2> QED
    BY <1>1, <1>2, <1>3, <2>1, NullIsNothing DEF IInv, Counted, FsckTruthful
<1>11. Files'
  <2>1. job.op # "direct"
    BY <1>1
  <2> SUFFICES ASSUME NEW g \in Name
               PROVE  /\ contents'[g] = Null => ~Exists(g)'
                      /\ ~Exists(g)' /\ contents'[g] # Null => harm'[g] # {}
                      /\ Light(harm'[g]) /\ Exists(g)' => Holds(dir'[g], contents'[g], harm'[g])
    BY DEF Files
  <2>2. CASE g # f
    BY <1>1, <1>4, <1>5, <2>1, <2>2 DEF IInv, Files
  <2>3. CASE g = f
    <3>1. contents[f] # Null
      BY <1>2 DEF IInv, Files
    <3>2. Light(harm'[f]) => Holds(dir'[f], contents[f], harm'[f])
      BY <1>1, <1>4, ReplacedHolds
    <3> QED
      BY <1>1, <1>2, <1>5, <2>3, <3>1, <3>2
  <2> QED
    BY <2>2, <2>3
<1> QED
  BY <1>6, <1>7, <1>8, <1>9, <1>10, <1>11 DEF IInv, JobInv

-----------------------------------------------------------------------------
(* Writing a new file *)

(* A user's job begins, goes on or ends, with a change of its file.         *)
LEMMA DirectStays ==
    ASSUME IInv, prog = "mount", job.op \in {"none", "direct"}, UNCHANGED <<temps, fsck, leaks>>,
           prog' \in {"none", "mount"}, off' \in OffRec,
           NEW f \in Name, job.op = "direct" => job.name = f,
           NEW e \in FileRec, Formed(e), dir' = [dir EXCEPT ![f] = e],
           NEW text \in Seq(Unit), contents' = [contents EXCEPT ![f] = text],
           NEW h \in SUBSET {"ignored", "told", "crash", "short", "wrapped"}, harm' = [harm EXCEPT ![f] = h],
           job' \in JobRec, job'.new # Absent => Formed(job'.new), job'.cancel = FALSE,
           job'.codec = "lzo" => Len(job'.buf) <= Block,
           \/ job' = Idle /\ (Light(h) => Holds(e, text, h))
           \/ job'.op = "direct" /\ prog' = "mount" /\ job'.name = f /\ job'.codec \in Codec /\ job'.pc \in {"start", "loop"},
           Writing'
    PROVE  IInv'
<1>1. dir \in [Name -> FileRec \cup {Absent}] /\ contents \in [Name -> Seq(Unit) \cup {Null}] /\ DOMAIN harm = Name
  BY DEF IInv, Types
<1>2. /\ dir'[f] = e /\ contents'[f] = text /\ harm'[f] = h /\ e # Absent /\ text # Null
      /\ \A g \in Name \ {f} : dir'[g] = dir[g] /\ contents'[g] = contents[g] /\ harm'[g] = harm[g]
  BY <1>1, NullIsNothing
<1>3. Types'
  <2>1. dir' \in [Name -> FileRec \cup {Absent}] /\ \A g \in Name : Exists(g)' => Formed(dir'[g])
    BY <1>1, <1>2 DEF IInv, Types, Exists
  <2>2. contents' \in [Name -> Seq(Unit) \cup {Null}]
    BY <1>1
  <2>3. harm' \in [Name -> SUBSET {"ignored", "told", "crash", "short", "wrapped"}]
    BY DEF IInv, Types
  <2>4. prog' \in {"none", "mount", "offline", "fsck"}
    OBVIOUS
  <2> QED
    BY <2>1, <2>2, <2>3, <2>4 DEF IInv, Types
<1>4. Control'
  <2>1. CASE job' = Idle
    <3>1. job'.op = "none"
      BY <2>1 DEF Idle
    <3> QED
      BY <2>1, <3>1 DEF Control
  <2>2. CASE job'.op = "direct" /\ prog' = "mount" /\ job'.name = f /\ job'.codec \in Codec /\ job'.pc \in {"start", "loop"}
    BY <1>2, <2>2 DEF Control, Exists
  <2> QED
    BY <2>1, <2>2
<1>5. job'.op \in {"none", "direct"} /\ (job'.op = "direct" => job'.name = f) /\ (job'.op = "none" => job' = Idle)
  BY DEF Idle
<1>6. Temporaries'
  BY <1>5 DEF IInv, Temporaries
<1>7. Counted'
  <2>1. fsck.exit = Null
    BY DEF IInv, Counted
  <2> QED
    BY <2>1, NullIsNothing DEF IInv, Counted, FsckTruthful
<1>8. Files'
  <2> SUFFICES ASSUME NEW g \in Name
               PROVE  /\ contents'[g] = Null => ~Exists(g)'
                      /\ ~Exists(g)' /\ contents'[g] # Null => harm'[g] # {}
                      /\ Light(harm'[g]) /\ Exists(g)' /\ ~(job'.op = "direct" /\ job'.name = g)
                            => Holds(dir'[g], contents'[g], harm'[g])
    BY DEF Files
  <2>1. CASE g = f
    BY <1>2, <1>5, <2>1 DEF Exists, Idle
  <2>2. CASE g # f
    BY <1>2, <1>5, <2>2 DEF IInv, Files, Exists
  <2> QED
    BY <2>1, <2>2
<1>9. Compressing' /\ Decompressing'
  BY <1>5 DEF Compressing, Decompressing
<1> QED
  BY <1>3, <1>4, <1>6, <1>7, <1>8, <1>9 DEF IInv

LEMMA DirectOpenInv == ASSUME IInv, NEW f \in Name, NEW c \in Codec, DirectOpen(f, c) PROVE IInv'
<1>1. /\ prog = "mount" /\ job.op = "none" /\ dir' = [dir EXCEPT ![f] = Raw(<<>>)]
      /\ contents' = [contents EXCEPT ![f] = <<>>] /\ harm' = [harm EXCEPT ![f] = {}]
      /\ job' = [Idle EXCEPT !.op = "direct", !.name = f, !.codec = c]
      /\ UNCHANGED <<temps, prog, off, fsck, leaks>>
  BY DEF DirectOpen
<1>2. <<>> \in Data /\ <<>> \in Seq(Unit) /\ Len(<<>>) = 0 /\ 0 <= MaxLen /\ 0 \in Length
  BY ImagesConstants DEF Data, Length
<1>3. /\ Raw(<<>>) \in FileRec /\ Formed(Raw(<<>>)) /\ Raw(<<>>).size = 0 /\ Raw(<<>>).body = <<>>
  BY <1>2, RawType
<1>4. /\ job' \in JobRec /\ job'.op = "direct" /\ job'.name = f /\ job'.codec = c /\ job'.pc = "start"
      /\ job'.new = Absent /\ job'.cancel = FALSE /\ job'.buf = <<>> /\ job'.stuck = FALSE
  BY <1>1, IdleType DEF Idle, JobRec
<1>5. dir'[f] = Raw(<<>>) /\ contents'[f] = <<>> /\ harm'[f] = {}
  BY <1>1 DEF IInv, Types
<1>6. Text(0) = <<>>
  <2>1. Text(0) \in Seq(Unit) /\ Len(Text(0)) = 0
    BY <1>2, TextType
  <2> QED
    BY <2>1, EmptySeq
<1>7. Writing'
  <2>1. Null # <<>> /\ <<>> \o <<>> = <<>>
    <3>1. \A z \in Seq(Unit) : z # Null
      BY NullIsNothing
    <3>2. Null # <<>>
      BY <1>2, <3>1, Zenon
    <3> QED
      BY <3>2, <1>2, ConcatEmptySeq DEF Data
  <2>2. Len(Raw(<<>>).body) + Len(<<>>) <= MaxLen
    BY <1>2, <1>3
  <2> QED
    BY <1>2, <1>3, <1>4, <1>5, <1>6, <2>1, <2>2 DEF Writing
<1>8. job'.codec = "lzo" => Len(job'.buf) <= Block
  BY <1>2, <1>4, ImagesConstants
<1>9. off' \in OffRec
  BY <1>1 DEF IInv, Types
<1> QED
  BY <1>1, <1>2, <1>3, <1>4, <1>7, <1>8, <1>9, DirectStays

\* What is known of a file that a user writes.
LEMMA DirectFacts ==
    ASSUME IInv, job.op = "direct"
    PROVE  LET f == job.name
               e == dir[f]
               text == contents[f]
           IN  /\ prog = "mount" /\ f \in Name /\ e \in FileRec /\ Formed(e) /\ text \in Seq(Unit)
               /\ off \in OffRec /\ job \in JobRec /\ job.codec \in Codec /\ job.cancel = FALSE
               /\ job.new # Absent => Formed(job.new)
               /\ harm[f] \subseteq {"told"} /\ harm \in [Name -> SUBSET {"ignored", "told", "crash", "short", "wrapped"}]
               /\ text = Text(Len(text)) /\ e.size = Len(text) /\ Len(text) \in Nat /\ Len(text) <= MaxLen
               /\ e.body \in Data /\ job.buf \in Data /\ Len(e.body) \in Nat /\ Len(job.buf) \in Nat
               /\ Len(e.body) + Len(job.buf) <= MaxLen /\ (Len(job.buf) = 0 <=> job.buf = <<>>)
               /\ job.codec = "null" => job.buf = <<>>
               /\ job.codec = "lzo" => Len(job.buf) <= Block
               /\ job.stuck => job.buf # <<>>
               /\ job.pc \in {"start", "loop"}
               /\ job.pc = "start" => e = Raw(<<>>) /\ text = <<>> /\ job.buf = <<>>
               /\ job.pc = "loop" => e.img /\ e.codec = job.codec /\ (job.codec # "null" => job.buf # <<>>)
               /\ "told" \notin harm[f] => e.body \o job.buf = text /\ ~job.stuck
<1> DEFINE f == job.name
           e == dir[f]
           text == contents[f]
<1>1. /\ prog = "mount" /\ f \in Name /\ e \in FileRec /\ Formed(e) /\ text \in Seq(Unit) \cup {Null}
      /\ off \in OffRec /\ job \in JobRec /\ job.codec \in Codec /\ job.pc \in {"start", "loop"}
      /\ harm \in [Name -> SUBSET {"ignored", "told", "crash", "short", "wrapped"}]
      /\ (job.codec = "lzo" => Len(job.buf) <= Block)
  BY DEF IInv, Types, Control, Exists
<1>2. Writing /\ text # Null /\ text \in Seq(Unit)
  BY <1>1 DEF IInv, Writing
<1>3. job.cancel = FALSE
  BY <1>1 DEF IInv, Control, JobRec
<1>4. e.body \in Data /\ job.buf \in Data /\ e.size \in Length
  BY <1>1 DEF FileRec, JobRec
<1>5. Len(e.body) \in Nat /\ Len(job.buf) \in Nat /\ (Len(job.buf) = 0 <=> job.buf = <<>>) /\ Len(text) \in Nat
  <2>1. Len(job.buf) = 0 <=> job.buf = <<>>
    BY <1>4, EmptySeq DEF Data
  <2>2. Len(e.body) \in Nat /\ Len(job.buf) \in Nat
    BY <1>4, LenProperties DEF Data
  <2>3. Len(text) \in Nat
    BY <1>2, LenProperties
  <2> QED
    BY <2>1, <2>2, <2>3
<1>6. job.new # Absent => Formed(job.new)
  BY DEF IInv, Types
<1>7. Len(text) <= MaxLen
  <2>1. e.size = Len(text)
    BY <1>2 DEF Writing
  <2> QED
    BY <1>4, <2>1, ImagesConstants DEF Length
<1> QED
  BY <1>1, <1>2, <1>3, <1>4, <1>5, <1>6, <1>7 DEF Writing

(* What a codec that ends holds back, or loses, makes the file shorter than *)
(* its header says; and if it holds nothing back, the file is what was      *)
(* written.                                                                 *)
LEMMA DirectHolds ==
    ASSUME IInv, job.op = "direct", NEW e \in FileRec, NEW h, harm[job.name] \subseteq h, Light(h),
           e.size = dir[job.name].size, e.img = dir[job.name].img, e.codec = dir[job.name].codec,
           \/ e.body = dir[job.name].body \o job.buf
           \/ h # {} /\ e.body = dir[job.name].body
           \/ h # {} /\ e.body = Append(dir[job.name].body, Gap) /\ job.codec # "null" /\ job.pc = "loop"
    PROVE  Holds(e, contents[job.name], h)
<1> DEFINE f == job.name
           old == dir[f].body
           text == contents[f]
           lb == Len(old)
           lu == Len(job.buf)
           n == Len(text)
           m == Len(Found(e))
<1>1. /\ old \in Data /\ job.buf \in Data /\ lb \in Nat /\ lu \in Nat /\ n \in Nat /\ n <= MaxLen /\ (lu = 0 <=> job.buf = <<>>)
      /\ text \in Seq(Unit) /\ e.size = n
      /\ job.pc \in {"start", "loop"} /\ (job.pc = "start" => job.buf = <<>>)
      /\ job.pc = "loop" => e.img /\ e.codec = job.codec /\ (job.codec # "null" => job.buf # <<>>)
      /\ "told" \notin harm[f] => old \o job.buf = text
  <2>1. /\ old \in Data /\ job.buf \in Data /\ lb \in Nat /\ lu \in Nat /\ n \in Nat /\ n <= MaxLen
        /\ (lu = 0 <=> job.buf = <<>>) /\ text \in Seq(Unit) /\ dir[f].size = n
        /\ job.pc \in {"start", "loop"} /\ (job.pc = "start" => job.buf = <<>>)
        /\ job.pc = "loop" => dir[f].img /\ dir[f].codec = job.codec /\ (job.codec # "null" => job.buf # <<>>)
        /\ "told" \notin harm[f] => old \o job.buf = text
    BY DirectFacts
  <2> HIDE DEF old, text, lb, lu, n
  <2> QED
    BY <2>1
<1>2. old \o job.buf = text
  BY <1>1 DEF Light
<1>3. n = lb + lu
  <2>1. Len(old \o job.buf) = Len(old) + Len(job.buf)
    <3> HIDE DEF old
    <3> QED
      BY <1>1, GapStays
  <2> QED
    BY <1>2, <2>1
<1>4. /\ m \in Nat /\ m <= Len(e.body) /\ (~HasGap(e.body) => Found(e) = e.body)
      /\ e.img /\ e.codec # "null" => \A i \in 1 .. Len(e.body) : e.body[i] = Gap => m < i
  BY FoundType
<1>5. CASE e.body = old \o job.buf \/ (e.body = old /\ job.buf = <<>>)
  <2>1. job.buf = <<>> => old \o job.buf = old
    BY <1>1, ConcatEmptySeq DEF Data
  <2>2. e.body = text
    BY <1>2, <1>5, <2>1
  <2>3. ~HasGap(e.body)
    BY <1>1, <2>2, TextData
  <2> QED
    BY <1>1, <1>4, <2>2, <2>3 DEF Holds
<1>6. CASE h # {} /\ e.body = old /\ job.buf # <<>>
  <2>1. m < n
    <3>1. m <= lb /\ lu # 0
      BY <1>1, <1>4, <1>6
    <3> HIDE DEF m, lb, lu, n
    <3> QED
      BY <1>1, <1>3, <1>4, <3>1
  <2> QED
    BY <1>1, <1>6, <2>1 DEF Holds
<1>7. CASE h # {} /\ e.body = Append(old, Gap) /\ job.codec # "null" /\ job.pc = "loop"
  <2>1. lu # 0 /\ e.img /\ e.codec # "null"
    BY <1>1, <1>7
  <2>2. lb + 1 \in 1 .. Len(e.body) /\ e.body[lb + 1] = Gap
    BY <1>1, <1>7, GapMade
  <2>3. m < n
    <3>1. m < lb + 1
      BY <1>4, <2>1, <2>2
    <3> HIDE DEF m, lb, lu, n
    <3> QED
      BY <1>1, <1>3, <1>4, <2>1, <3>1
  <2> QED
    BY <1>1, <1>7, <2>1, <2>3 DEF Holds
<1> QED
  BY <1>5, <1>6, <1>7

LEMMA CrashDirectInv == ASSUME IInv, job.op = "direct", Crash PROVE IInv'
<1> DEFINE f == job.name
           e == dir[f]
           text == contents[f]
           h == harm[f] \cup {"crash"}
<1>1. /\ prog = "mount" /\ f \in Name /\ e \in FileRec /\ Formed(e) /\ text \in Seq(Unit) /\ off \in OffRec
      /\ harm \in [Name -> SUBSET {"ignored", "told", "crash", "short", "wrapped"}]
  BY DirectFacts
<1>2. /\ prog' = "none" /\ job' = Idle /\ off' = NoWalk /\ UNCHANGED <<dir, temps, contents, fsck, leaks>>
      /\ harm' = [harm EXCEPT ![f] = h]
  BY DEF Crash, Harmed
<1>3. dir' = [dir EXCEPT ![f] = e] /\ contents' = [contents EXCEPT ![f] = text]
  BY <1>1, <1>2 DEF IInv, Types
<1>4. Light(h) => Holds(e, text, h)
  <2>1. h # {} /\ harm[f] \subseteq h
    OBVIOUS
  <2> HIDE DEF h
  <2> QED
    BY <1>1, <2>1, DirectHolds
<1>5. Writing' /\ job'.new = Absent /\ job'.cancel = FALSE /\ job'.codec = Null /\ job' \in JobRec
  BY <1>2, NoJob, IdleType DEF JobInv, Idle, Absent
<1>6. job'.codec # "lzo"
  BY <1>5, NullAssumption DEF CodecName
<1>7. h \in SUBSET {"ignored", "told", "crash", "short", "wrapped"}
  BY <1>1
<1> HIDE DEF h
<1> QED
  BY <1>1, <1>2, <1>3, <1>4, <1>5, <1>6, <1>7, DirectStays, IdleType

LEMMA DirectCloseInv == ASSUME IInv, NEW o \in Outcome, DirectClose(o) PROVE IInv'
<1> DEFINE f == job.name
           e == dir[f]
           text == contents[f]
           c == job.codec
           s == Stream(e)
           t == CodecClose(c, s, o)
           w == Written(e, t)
           h == harm[f] \cup (IF c # "null" /\ (o # "ok" \/ job.stuck) THEN {"ignored"} ELSE {})
<1>1. /\ job.op = "direct" /\ job' = Idle /\ UNCHANGED <<prog, off, temps, contents, fsck, leaks>>
      /\ \/ job.pc = "start" /\ UNCHANGED <<dir, harm>>
         \/ job.pc # "start" /\ dir' = [dir EXCEPT ![f] = w] /\ harm' = [harm EXCEPT ![f] = h]
  BY DEF DirectClose, Ends, Harmed
<1>2. /\ prog = "mount" /\ f \in Name /\ e \in FileRec /\ Formed(e) /\ text \in Seq(Unit) /\ off \in OffRec
      /\ job \in JobRec /\ c \in Codec /\ harm \in [Name -> SUBSET {"ignored", "told", "crash", "short", "wrapped"}]
      /\ e.body \in Data /\ job.buf \in Data /\ Len(e.body) \in Nat /\ Len(job.buf) \in Nat
      /\ Len(e.body) + Len(job.buf) <= MaxLen /\ (Len(job.buf) = 0 <=> job.buf = <<>>)
      /\ (c = "null" => job.buf = <<>>) /\ (c = "lzo" => Len(job.buf) <= Block) /\ (job.stuck => job.buf # <<>>)
      /\ job.pc \in {"start", "loop"} /\ (job.pc = "start" => job.buf = <<>>)
      /\ (job.pc = "loop" => e.img /\ e.codec = c /\ (c # "null" => job.buf # <<>>))
      /\ ("told" \notin harm[f] => ~job.stuck)
  BY <1>1, DirectFacts
<1>3. contents' = [contents EXCEPT ![f] = text]
  BY <1>1, <1>2 DEF IInv, Types
<1>4. Writing' /\ job'.new = Absent /\ job'.cancel = FALSE /\ job'.codec = Null /\ job' \in JobRec
  BY <1>1, NoJob, IdleType DEF JobInv, Idle, Absent
<1>5. job'.codec # "lzo"
  BY <1>4, NullAssumption DEF CodecName
<1>6. CASE job.pc = "start"
  <2>1. dir' = [dir EXCEPT ![f] = e] /\ harm' = [harm EXCEPT ![f] = harm[f]] /\ harm[f] \in SUBSET {"ignored", "told", "crash", "short", "wrapped"}
    BY <1>1, <1>2, <1>6 DEF IInv, Types
  <2>2. e.body = e.body \o job.buf
    BY <1>2, <1>6, ConcatEmptySeq DEF Data
  <2>3. Light(harm[f]) => Holds(e, text, harm[f])
    BY <1>1, <1>2, <2>2, DirectHolds
  <2> QED
    BY <1>1, <1>2, <1>3, <1>4, <1>5, <2>1, <2>3, DirectStays
<1>7. CASE job.pc = "loop"
  <2>1. dir' = [dir EXCEPT ![f] = w] /\ harm' = [harm EXCEPT ![f] = h]
    BY <1>1, <1>7
  <2>2. s \in StreamRec /\ s.body = e.body /\ s.buf = job.buf /\ s.stuck = job.stuck
    BY <1>2, StreamType
  <2>3. Usable(c, s)
    BY <1>2, <2>2, Zenon DEF Usable
  <2>4. Closes(c, s, o, t)
    BY <1>2, <2>2, <2>3, CodecCloseCloses
  <2>5. /\ t.body \in Data /\ t.end \in BOOLEAN
        /\ t.body \in {e.body \o job.buf, e.body, Append(e.body, Gap)}
        /\ c = "null" \/ (o = "ok" /\ ~job.stuck) => t.body = e.body \o job.buf
    <3> HIDE DEF s, t
    <3> QED
      BY <2>2, <2>4 DEF Closes
  <2>6. w \in FileRec /\ w.body = t.body /\ w.img = e.img /\ w.codec = e.codec /\ w.size = e.size
    BY <1>2, <2>5, WrittenType
  <2>7. Formed(w)
    <3>1. Len(t.body) <= MaxLen
      <4> DEFINE l == Len(t.body)
                 lb == Len(e.body)
                 lu == Len(job.buf)
      <4>1. /\ l \in {lb + lu, lb, lb + 1} /\ (c = "null" => l = lb + lu) /\ (c # "null" => lu # 0)
            /\ lb \in Nat /\ lu \in Nat /\ lb + lu <= MaxLen
        <5> HIDE DEF t
        <5>1. Len(e.body \o job.buf) = Len(e.body) + Len(job.buf) /\ Len(Append(e.body, Gap)) = Len(e.body) + 1
          BY <1>2, GapStays, GapMade
        <5> QED
          BY <1>2, <1>7, <2>5, <5>1
      <4> HIDE DEF l, lb, lu, c
      <4>2. l <= MaxLen
        BY <4>1, ImagesConstants
      <4> QED
        BY <4>2 DEF l
    <3> HIDE DEF w
    <3> QED
      BY <1>2, <2>6, <3>1 DEF Formed
  <2>8. Light(h) => Holds(w, text, h)
    <3> SUFFICES ASSUME Light(h) PROVE Holds(w, text, h)
      OBVIOUS
    <3>1. harm[f] \subseteq h
      OBVIOUS
    <3>2. "told" \notin harm[f] /\ ~job.stuck
      BY <1>2, <3>1 DEF Light
    <3>3. t.body # e.body \o job.buf => c # "null" /\ h # {}
      <4>1. c # "null" /\ o # "ok" => "ignored" \in h
        OBVIOUS
      <4> HIDE DEF h, t, c, e
      <4> QED
        BY <2>5, <3>2, <4>1
    <3> HIDE DEF h, w, t
    <3>4. \/ w.body = e.body \o job.buf
          \/ h # {} /\ w.body = e.body
          \/ h # {} /\ w.body = Append(e.body, Gap) /\ c # "null" /\ job.pc = "loop"
      BY <1>7, <2>5, <2>6, <3>3
    <3> QED
      BY <1>1, <2>6, <3>1, <3>4, DirectHolds
  <2>9. h \in SUBSET {"ignored", "told", "crash", "short", "wrapped"}
    BY <1>2
  <2> HIDE DEF h, w
  <2> QED
    BY <1>1, <1>2, <1>3, <1>4, <1>5, <2>1, <2>6, <2>7, <2>8, <2>9, DirectStays
<1> QED
  BY <1>2, <1>6, <1>7

\* What direct_compress() leaves of a stream: n units were taken, or the codec did not say that they were.
Gives(c, e, buf, stuck, m, n, g) ==
    /\ g.body \in Data /\ g.buf \in Data /\ g.stuck \in BOOLEAN /\ g.ret \in {0, 1, 2, FAIL}
    /\ g.ret \in {1, 2} => g.ret <= n
    /\ Usable(c, g) /\ (c # "null" => g.buf # <<>>)
    /\ Len(g.body) + Len(g.buf) <= Len(e.body) + Len(buf) + n
    /\ g.ret = n => g.stuck = stuck /\ (e.body \o buf = Text(m) => g.body \o g.buf = Text(m + n))

(* One write, and two.                                                      *)
LEMMA TakesGives ==
    ASSUME NEW c \in Codec, NEW e \in FileRec, NEW s \in StreamRec, s.body = e.body,
           NEW m \in Nat, m + 1 <= MaxLen, NEW t, Takes(c, s, m + 1, t)
    PROVE  Gives(c, e, s.buf, s.stuck, m, 1, t)
<1>1. /\ t \in StreamRec /\ Usable(c, t) /\ Size(t) <= Size(s) + 1 /\ (c # "null" => t.buf # <<>>)
      /\ t.ret = 1 => t.body \o t.buf = (s.body \o s.buf) \o <<m + 1>> /\ t.stuck = s.stuck
  BY Zenon DEF Takes
<1>2. t.body \in Data /\ t.buf \in Data /\ t.stuck \in BOOLEAN /\ t.ret \in {0, 1, FAIL}
  BY <1>1 DEF StreamRec
<1>3. Len(t.body) + Len(t.buf) <= Len(e.body) + Len(s.buf) + 1
  BY <1>1 DEF Size
<1>4. t.ret = 1 => t.stuck = s.stuck /\ (e.body \o s.buf = Text(m) => t.body \o t.buf = Text(m + 1))
  BY <1>1, TextNext
<1>5. t.ret \in {1, 2} => t.ret <= 1
  BY <1>2 DEF FAIL
<1> QED
  BY <1>1, <1>2, <1>3, <1>4, <1>5, Zenon DEF Gives

LEMMA GivenGives ==
    ASSUME job \in JobRec, job.codec \in Codec, NEW m \in Nat, m = Len(contents[job.name]),
           NEW n \in {1, 2}, m + n <= MaxLen, NEW e \in FileRec, Usable(job.codec, Stream(e)),
           NEW o \in Outcome, NEW flush \in BOOLEAN
    PROVE  Gives(job.codec, e, job.buf, job.stuck, m, n, Given(e, n, o, flush))
<1> DEFINE c == job.codec
           s == Stream(e)
           t == CodecWrite(c, s, m + 1, "ok", FALSE)
           u == CodecWrite(c, t, m + 2, o, flush)
           r == IF u.ret = 1 THEN 2 ELSE IF c = "null" THEN 1 ELSE u.ret
           g == Given(e, n, o, flush)
<1>1. s \in StreamRec /\ s.body = e.body /\ s.buf = job.buf /\ s.stuck = job.stuck
  BY StreamType
<1>2. m + 1 \in 0 .. MaxLen + 1 /\ m + 1 <= MaxLen /\ (n = 2 => m + 2 \in 0 .. MaxLen + 1 /\ m + 2 <= MaxLen)
  BY ImagesConstants
<1>3. CASE n = 1
  <2>1. g = CodecWrite(c, s, m + 1, o, flush)
    BY <1>3 DEF Given
  <2>2. Takes(c, s, m + 1, CodecWrite(c, s, m + 1, o, flush))
    BY <1>1, <1>2, CodecWriteTakes
  <2> HIDE DEF c, s, g
  <2>3. Takes(c, s, m + 1, g)
    BY <2>1, <2>2
  <2>4. c \in Codec
    BY DEF c
  <2>5. Gives(c, e, s.buf, s.stuck, m, 1, g)
    BY <1>1, <1>2, <2>3, <2>4, TakesGives
  <2> QED
    BY <1>1, <1>3, <2>5 DEF c, g
<1>4. CASE n = 2
  <2>1. g = IF t.ret # 1 THEN t ELSE [u EXCEPT !.ret = r]
    <3> DEFINE x == Len(contents[job.name]) + 1
               x2 == x + 1
               t1 == CodecWrite(c, s, x, "ok", FALSE)
               u1 == CodecWrite(c, t1, x2, o, flush)
    <3>1. x = m + 1 /\ x2 = m + 2
      OBVIOUS
    <3>2. g = IF n = 1 THEN CodecWrite(c, s, x, o, flush)
              ELSE IF t1.ret # 1 THEN t1
              ELSE [u1 EXCEPT !.ret = IF u1.ret = 1 THEN 2 ELSE IF c = "null" THEN 1 ELSE u1.ret]
      BY Zenon DEF Given
    <3>3. t1 = t /\ u1 = u
      <4> HIDE DEF x, x2
      <4> QED
        BY <3>1, Zenon
    <3>4. n # 1
      BY <1>4
    <3> HIDE DEF t1, u1, t, u, g, c
    <3> QED
      BY <3>2, <3>3, <3>4
  <2>2. Takes(c, s, m + 1, t)
    <3>1. "ok" \in Outcome
      BY DEF Outcome
    <3> QED
      BY <1>1, <1>2, <3>1, CodecWriteTakes
  <2>3. Gives(c, e, s.buf, s.stuck, m, 1, t)
    <3> HIDE DEF s, t
    <3> QED
      BY <1>1, <1>2, <2>2, TakesGives
  <2>4. t \in StreamRec /\ Usable(c, t)
    BY <2>2, Zenon DEF Takes
  <2>5. CASE t.ret # 1
    <3> HIDE DEF s, t, c
    <3>1. /\ t.body \in Data /\ t.buf \in Data /\ t.stuck \in BOOLEAN /\ Usable(c, t) /\ (c # "null" => t.buf # <<>>)
          /\ Len(t.body) + Len(t.buf) <= Len(e.body) + Len(s.buf) + 1
      BY <2>3, Zenon DEF Gives
    <3>2. t.ret \in {0, FAIL}
      BY <2>4, <2>5 DEF StreamRec
    <3>3. Len(t.body) + Len(t.buf) <= Len(e.body) + Len(s.buf) + 2
      <4> DEFINE a == Len(t.body) + Len(t.buf)
                 b == Len(e.body) + Len(s.buf)
      <4>1. a \in Nat /\ b \in Nat
        <5>1. Len(t.body) \in Nat /\ Len(t.buf) \in Nat /\ Len(e.body) \in Nat /\ Len(s.buf) \in Nat
          BY <1>1, <2>4, LenProperties DEF StreamRec, FileRec, Data
        <5> QED
          BY <1>1, <2>4, <5>1 DEF StreamRec, FileRec, Data
      <4>2. a <= b + 1
        BY <3>1
      <4> HIDE DEF a, b
      <4>3. a <= b + 2
        BY <4>1, <4>2
      <4> QED
        BY <4>3 DEF a, b
    <3>4. t.ret \notin {1, 2} /\ t.ret # n
      BY <1>4, <3>2 DEF FAIL
    <3>5. t.ret \in {0, 1, 2, FAIL}
      BY <3>2
    <3>6. Gives(c, e, s.buf, s.stuck, m, n, t)
      BY <1>4, <3>1, <3>3, <3>4, <3>5, Zenon DEF Gives
    <3>7. g = t
      BY <2>1, <2>5
    <3> QED
      BY <1>1, <3>6, <3>7 DEF c
  <2>6. CASE t.ret = 1
    <3>1. Takes(c, t, m + 2, u)
      <4> HIDE DEF t
      <4> QED
        BY <1>2, <1>4, <2>4, CodecWriteTakes
    <3>2. g = [u EXCEPT !.ret = r]
      BY <2>1, <2>6
    <3> HIDE DEF s, t, u, c
    <3>3. /\ u \in StreamRec /\ Usable(c, u) /\ Size(u) <= Size(t) + 1 /\ (c # "null" => u.buf # <<>>)
          /\ u.ret = 1 => u.body \o u.buf = (t.body \o t.buf) \o <<m + 2>> /\ u.stuck = t.stuck
      BY <3>1, Zenon DEF Takes
    <3>4. /\ t.stuck = s.stuck /\ (e.body \o s.buf = Text(m) => t.body \o t.buf = Text(m + 1))
          /\ Len(t.body) + Len(t.buf) <= Len(e.body) + Len(s.buf) + 1
      BY <2>3, <2>6 DEF Gives
    <3>5. u.body \in Data /\ u.buf \in Data /\ u.stuck \in BOOLEAN /\ u.ret \in {0, 1, FAIL}
      BY <3>3 DEF StreamRec
    <3>6. r \in {0, 1, 2, FAIL} /\ (r = 2 <=> u.ret = 1)
      BY <3>5 DEF FAIL
    <3> HIDE DEF r
    <3>7. g.body = u.body /\ g.buf = u.buf /\ g.stuck = u.stuck /\ g.ret = r
      BY <3>2, <3>3 DEF StreamRec
    <3>8. Usable(c, g)
      BY <3>3, <3>7, Zenon DEF Usable
    <3>9. Len(g.body) + Len(g.buf) <= Len(e.body) + Len(s.buf) + 2
      <4> DEFINE a == Len(u.body) + Len(u.buf)
                 b == Len(e.body) + Len(s.buf)
                 d == Len(t.body) + Len(t.buf)
      <4>1. a \in Nat /\ b \in Nat /\ d \in Nat
        <5>1. /\ Len(t.body) \in Nat /\ Len(t.buf) \in Nat /\ Len(e.body) \in Nat /\ Len(s.buf) \in Nat
              /\ Len(u.body) \in Nat /\ Len(u.buf) \in Nat
          BY <1>1, <2>4, <3>3, LenProperties DEF StreamRec, FileRec, Data
        <5> QED
          BY <1>1, <2>4, <3>3, <5>1 DEF StreamRec, FileRec, Data
      <4>2. d <= b + 1 /\ a <= d + 1
        BY <3>3, <3>4 DEF Size
      <4> HIDE DEF a, b, d
      <4>3. a <= b + 2
        BY <4>1, <4>2
      <4> QED
        BY <3>7, <4>3 DEF a, b
    <3>10. g.ret = 2 => g.stuck = s.stuck /\ (e.body \o s.buf = Text(m) => g.body \o g.buf = Text(m + 2))
      <4> DEFINE l == m + 1
      <4>1. l \in Nat /\ l + 1 = m + 2 /\ l + 1 <= MaxLen
        BY <1>2, <1>4
      <4> HIDE DEF l
      <4>2. Text(l) \o <<l + 1>> = Text(l + 1)
        BY <4>1, TextNext, Zenon
      <4>3. Text(m + 1) \o <<m + 2>> = Text(m + 2)
        BY <4>1, <4>2, Zenon DEF l
      <4> QED
        BY <3>3, <3>4, <3>6, <3>7, <4>3, Zenon
    <3>11. g.ret \in {1, 2} => g.ret <= 2
      OBVIOUS
    <3> HIDE DEF g
    <3>12. Gives(c, e, s.buf, s.stuck, m, 2, g)
      <4>1. g.body \in Data /\ g.buf \in Data /\ g.stuck \in BOOLEAN /\ g.ret \in {0, 1, 2, FAIL} /\ (c # "null" => g.buf # <<>>)
        BY <3>3, <3>5, <3>6, <3>7
      <4> QED
        BY <3>8, <3>9, <3>10, <3>11, <4>1, Zenon DEF Gives
    <3> QED
      BY <1>1, <1>4, <3>12 DEF c, g
  <2> QED
    BY <2>5, <2>6
<1> QED
  BY <1>3, <1>4

LEMMA DirectWriteInv ==
    ASSUME IInv, NEW n \in {1, 2}, NEW o \in Outcome, NEW flush \in BOOLEAN, DirectWrite(n, o, flush)
    PROVE  IInv'
<1> DEFINE f == job.name
           c == job.codec
           text == contents[f]
           m == Len(text)
           e == IF dir[f].img THEN dir[f] ELSE NewImage(c, 0)
           g == Given(e, n, o, flush)
           taken == IF g.ret = FAIL THEN 0 ELSE g.ret
           w == [e EXCEPT !.body = g.body, !.size = @ + taken]
           h == harm[f] \cup (IF taken = n THEN {} ELSE {"told"})
           new == Text(m + taken)
<1>1. /\ job.op = "direct" /\ m + n <= MaxLen /\ Len(dir[f].body) + Len(job.buf) + n <= MaxLen
      /\ dir' = [dir EXCEPT ![f] = w] /\ contents' = [contents EXCEPT ![f] = new]
      /\ harm' = [harm EXCEPT ![f] = h]
      /\ job' = [job EXCEPT !.pc = "loop", !.buf = g.buf, !.stuck = g.stuck]
      /\ UNCHANGED <<temps, prog, off, fsck, leaks>>
  BY Zenon DEF DirectWrite, Harmed
<1>2. /\ prog = "mount" /\ f \in Name /\ dir[f] \in FileRec /\ text \in Seq(Unit)
      /\ off \in OffRec /\ job \in JobRec /\ c \in Codec /\ job.cancel = FALSE /\ (job.new # Absent => Formed(job.new))
      /\ harm[f] \subseteq {"told"} /\ harm \in [Name -> SUBSET {"ignored", "told", "crash", "short", "wrapped"}]
      /\ text = Text(m) /\ dir[f].size = m /\ m \in Nat
      /\ Len(dir[f].body) \in Nat /\ Len(job.buf) \in Nat
      /\ (c = "null" => job.buf = <<>>) /\ (c = "lzo" => Len(job.buf) <= Block) /\ (job.stuck => job.buf # <<>>)
      /\ job.pc \in {"start", "loop"} /\ (job.pc = "start" => dir[f] = Raw(<<>>) /\ text = <<>>)
      /\ (job.pc = "loop" => dir[f].img /\ dir[f].codec = c)
      /\ ("told" \notin harm[f] => dir[f].body \o job.buf = text /\ ~job.stuck)
  BY <1>1, DirectFacts
<1>3. e \in FileRec /\ e.img = TRUE /\ e.codec = c /\ e.body = dir[f].body /\ e.size = m
  <2>1. CASE dir[f].img
    <3>1. Raw(<<>>).img = FALSE
      BY DEF Raw
    <3>2. job.pc = "loop"
      BY <1>2, <2>1, <3>1
    <3>3. dir[f].img \in BOOLEAN
      BY <1>2 DEF FileRec
    <3> QED
      BY <1>2, <2>1, <3>2, <3>3
  <2>2. CASE ~dir[f].img
    <3>1. dir[f] = Raw(<<>>) /\ text = <<>>
      BY <1>2, <2>2
    <3>2. Raw(<<>>).body = <<>>
      BY DEF Raw
    <3>3. m = 0 /\ 0 \in Length
      BY <3>1, ImagesConstants DEF Length
    <3>4. /\ NewImage(c, 0) \in FileRec /\ NewImage(c, 0).img = TRUE /\ NewImage(c, 0).codec = c /\ NewImage(c, 0).size = 0
          /\ NewImage(c, 0).body = <<>>
      <4>1. c \in Codec /\ 0 \in Length
        BY <1>2, <3>3
      <4> HIDE DEF c, m
      <4> QED
        BY <4>1, NewImageType
    <3> QED
      BY <2>2, <3>1, <3>2, <3>3, <3>4
  <2> QED
    BY <2>1, <2>2
<1> HIDE DEF e
<1>4. Usable(c, Stream(e))
  <2>1. Stream(e).buf = job.buf /\ Stream(e).stuck = job.stuck
    BY <1>2, <1>3, StreamType
  <2> QED
    BY <1>2, <2>1, Zenon DEF Usable
<1>5. Gives(c, e, job.buf, job.stuck, m, n, g)
  BY <1>1, <1>2, <1>3, <1>4, GivenGives
<1> HIDE DEF g
<1>6. /\ g.body \in Data /\ g.buf \in Data /\ g.stuck \in BOOLEAN /\ g.ret \in {0, 1, 2, FAIL}
      /\ g.ret \in {1, 2} => g.ret <= n
      /\ Usable(c, g) /\ (c # "null" => g.buf # <<>>)
      /\ Len(g.body) + Len(g.buf) <= Len(dir[f].body) + Len(job.buf) + n
      /\ g.ret = n => g.stuck = job.stuck /\ (e.body \o job.buf = Text(m) => g.body \o g.buf = Text(m + n))
  BY <1>3, <1>5, Zenon DEF Gives
<1>7. taken \in Nat /\ taken <= n /\ (taken = n => g.ret = n) /\ m + taken \in Length /\ m + taken \in Nat
  <2>1. taken \in Nat /\ taken <= n /\ (taken = n => g.ret = n)
    BY <1>6 DEF FAIL
  <2> HIDE DEF taken, m
  <2> QED
    BY <1>1, <1>2, <2>1, ImagesConstants DEF Length
<1>8. Len(g.body) + Len(g.buf) <= MaxLen /\ Len(g.body) <= MaxLen
  <2> DEFINE a == Len(g.body)
             b == Len(g.buf)
             l == Len(dir[f].body) + Len(job.buf) + n
  <2>1. a \in Nat /\ b \in Nat
    BY <1>6, LenProperties DEF Data
  <2>2. l \in Nat /\ a + b <= l /\ l <= MaxLen
    <3> DEFINE x == Len(dir[f].body)
               y == Len(job.buf)
    <3>1. x \in Nat /\ y \in Nat /\ n \in Nat /\ a + b <= x + y + n /\ x + y + n <= MaxLen
      <4>1. x \in Nat /\ y \in Nat
        BY <1>2, Zenon
      <4>2. a + b <= x + y + n
        BY <1>6, Zenon
      <4>3. x + y + n <= MaxLen
        BY <1>1, Zenon
      <4>4. n \in Nat
        OBVIOUS
      <4> QED
        BY <4>1, <4>2, <4>3, <4>4, Zenon
    <3> HIDE DEF x, y, a, b
    <3>2. x + y + n \in Nat /\ a + b <= x + y + n /\ x + y + n <= MaxLen
      BY <3>1
    <3> QED
      BY <3>2 DEF x, y
  <2> HIDE DEF a, b, l
  <2>3. a + b <= MaxLen /\ a <= MaxLen
    BY <2>1, <2>2, ImagesConstants
  <2> QED
    BY <2>3 DEF a, b
<1>9. /\ w \in FileRec /\ w.img = TRUE /\ w.codec = c /\ w.body = g.body /\ w.size = m + taken /\ Formed(w)
  <2> DEFINE k == m + taken
             b == g.body
  <2>1. w = [e EXCEPT !.body = b, !.size = k] /\ k \in Length /\ b \in Data /\ Len(b) <= MaxLen
    BY <1>3, <1>6, <1>7, <1>8
  <2> HIDE DEF w, k, b
  <2>2. w \in FileRec /\ w.img = TRUE /\ w.codec = c /\ w.body = b /\ w.size = k
    BY <1>3, <2>1 DEF FileRec
  <2> QED
    BY <1>2, <2>1, <2>2, NullIsNothing DEF Formed, k, b
<1>10. new \in Seq(Unit) /\ Len(new) = m + taken
  <2> DEFINE k == m + taken
  <2>1. k \in Length
    BY <1>7
  <2> HIDE DEF k
  <2>2. Text(k) \in Seq(Unit) /\ Len(Text(k)) = k
    BY <2>1, TextType
  <2> QED
    BY <2>2 DEF k
<1>11. h \in SUBSET {"ignored", "told", "crash", "short", "wrapped"} /\ h \subseteq {"told"}
  BY <1>2
<1>12. "told" \notin h => g.body \o g.buf = new /\ ~g.stuck
  <2> SUFFICES ASSUME "told" \notin h PROVE g.body \o g.buf = new /\ ~g.stuck
    OBVIOUS
  <2>1. "told" \notin harm[f] /\ taken = n
    OBVIOUS
  <2> HIDE DEF taken, m, text, h
  <2> QED
    BY <1>2, <1>3, <1>6, <1>7, <2>1
<1>13. /\ job' \in JobRec /\ job'.op = "direct" /\ job'.name = f /\ job'.codec = c /\ job'.pc = "loop"
       /\ job'.new = job.new /\ job'.cancel = FALSE /\ job'.buf = g.buf /\ job'.stuck = g.stuck
  <2> DEFINE u == g.buf
             k == g.stuck
             j == [job EXCEPT !.pc = "loop", !.buf = u]
  <2>1. u \in Data /\ k \in BOOLEAN /\ job' = [j EXCEPT !.stuck = k]
    BY <1>1, <1>6
  <2> HIDE DEF u, k
  <2>2. /\ j \in JobRec /\ j.op = job.op /\ j.name = job.name /\ j.codec = job.codec /\ j.pc = "loop"
        /\ j.new = job.new /\ j.cancel = job.cancel /\ j.buf = u
    BY <1>2, <2>1 DEF JobRec
  <2> HIDE DEF j
  <2>3. /\ job' \in JobRec /\ job'.op = j.op /\ job'.name = j.name /\ job'.codec = j.codec /\ job'.pc = j.pc
        /\ job'.new = j.new /\ job'.cancel = j.cancel /\ job'.buf = j.buf /\ job'.stuck = k
    BY <2>1, <2>2 DEF JobRec
  <2> QED
    BY <1>1, <1>2, <2>2, <2>3 DEF u, k
<1> HIDE DEF w, h, new
<1>14. dir'[f] = w /\ contents'[f] = new /\ harm'[f] = h
  BY <1>1, <1>2 DEF IInv, Types
<1>15. Writing'
  <2>1. new # Null /\ new = Text(Len(new)) /\ w.size = Len(new)
    <3>1. new = Text(m + taken)
      BY DEF new
    <3> HIDE DEF m, taken
    <3> QED
      BY <1>9, <1>10, <3>1, NullIsNothing
  <2>2. (c = "null" => g.buf = <<>>) /\ (g.stuck => g.buf # <<>>)
    BY <1>6, Zenon DEF Usable
  <2>3. Len(w.body) + Len(g.buf) <= MaxLen
    BY <1>8, <1>9
  <2>4. harm'[job'.name] \subseteq {"told"}
    BY <1>11, <1>13, <1>14
  <2>5. contents'[job'.name] # Null /\ contents'[job'.name] = Text(Len(contents'[job'.name]))
        /\ dir'[job'.name].size = Len(contents'[job'.name])
    BY <1>13, <1>14, <2>1
  <2>6. Len(dir'[job'.name].body) + Len(job'.buf) <= MaxLen
    BY <1>13, <1>14, <2>3
  <2>7. (job'.codec = "null" => job'.buf = <<>>) /\ (job'.stuck => job'.buf # <<>>)
    BY <1>13, <2>2
  <2>8. dir'[job'.name].img /\ dir'[job'.name].codec = job'.codec /\ (job'.codec # "null" => job'.buf # <<>>)
    BY <1>6, <1>9, <1>13, <1>14
  <2>9. "told" \notin harm'[job'.name] => dir'[job'.name].body \o job'.buf = contents'[job'.name] /\ ~job'.stuck
    BY <1>9, <1>12, <1>13, <1>14
  <2> QED
    BY <1>13, <2>4, <2>5, <2>6, <2>7, <2>8, <2>9 DEF Writing
<1>16. job'.codec = "lzo" => Len(job'.buf) <= Block
  BY <1>6, <1>13 DEF Usable
<1>17. job'.new # Absent => Formed(job'.new)
  BY <1>2, <1>13
<1> QED
  BY <1>1, <1>2, <1>9, <1>10, <1>11, <1>13, <1>15, <1>16, <1>17, DirectStays

-----------------------------------------------------------------------------
(* The invariant holds *)

LEMMA InitInv == ASSUME Init PROVE IInv
<1>1. PICK len \in [Name -> {-1, MaxLen}] :
        /\ dir = [f \in Name |-> IF len[f] >= 0 THEN Raw(Text(len[f])) ELSE Absent]
        /\ contents = [f \in Name |-> IF len[f] >= 0 THEN Text(len[f]) ELSE Null]
  BY Zenon DEF Init
<1>2. /\ harm = [f \in Name |-> {}]
      /\ prog = "none" /\ job = Idle /\ off = NoWalk /\ fsck = NoCheck
      /\ temps = {} /\ leaks = {}
  BY DEF Init
<1> DEFINE all == Text(MaxLen)
<1>3. all \in Seq(Unit) /\ Len(all) = MaxLen /\ all \in Data /\ Len(all) <= MaxLen
  <2>1. MaxLen \in Length /\ MaxLen <= MaxLen
    BY ImagesConstants DEF Length
  <2>2. all \in Seq(Unit) /\ Len(all) = MaxLen
    BY <2>1, TextType
  <2> HIDE DEF all
  <2> QED
    BY <2>1, <2>2, TextData
<1> HIDE DEF all
<1>4. Raw(all) \in FileRec /\ Raw(all) # Absent /\ Formed(Raw(all)) /\ Raw(all).img = FALSE
      /\ Raw(all).size = Len(all) /\ Raw(all).body = all
  BY <1>3, RawType
<1>5. \A f \in Name : (dir[f] = Raw(all) /\ contents[f] = all) \/ (dir[f] = Absent /\ contents[f] = Null)
  <2> SUFFICES ASSUME NEW f \in Name
               PROVE  (dir[f] = Raw(all) /\ contents[f] = all) \/ (dir[f] = Absent /\ contents[f] = Null)
    OBVIOUS
  <2>1. len[f] = -1 \/ len[f] = MaxLen
    BY <1>1
  <2>2. CASE len[f] = -1
    BY <1>1, <2>2
  <2>3. CASE len[f] = MaxLen
    <3>1. len[f] >= 0
      BY <2>3, ImagesConstants
    <3> QED
      BY <1>1, <2>3, <3>1, Zenon DEF all
  <2> QED
    BY <2>1, <2>2, <2>3
<1>6. dir \in [Name -> FileRec \cup {Absent}] /\ contents \in [Name -> Seq(Unit) \cup {Null}]
  <2>1. /\ \A f \in Name : dir[f] \in FileRec \cup {Absent} /\ contents[f] \in Seq(Unit) \cup {Null}
    BY <1>3, <1>4, <1>5
  <2>2. dir = [f \in Name |-> dir[f]] /\ contents = [f \in Name |-> contents[f]]
    BY <1>1
  <2> QED
    BY <2>1, <2>2
<1>7. Types
  <2>1. \A f \in Name : Exists(f) => Formed(dir[f])
    BY <1>4, <1>5 DEF Exists
  <2>2. job.new = Absent /\ job.codec = Null /\ job.codec # "lzo" /\ job \in JobRec
    <3>1. "lzo" \in CodecName
      BY DEF CodecName
    <3> QED
      BY <1>2, <3>1, IdleType, NullAssumption DEF Idle
  <2> QED
    BY <1>2, <1>6, <2>1, <2>2, IdleType DEF Types
<1>8. job.op = "none" /\ job.cancel = FALSE
  BY <1>2 DEF Idle
<1>9. Control
  BY <1>2, <1>8 DEF Control
<1>10. Temporaries
  BY <1>2 DEF Temporaries
<1>11. Counted
  <2>1. fsck.exit = Null /\ fsck.found = 0 /\ fsck.fixed = 0 /\ fsck.todo = {}
    BY <1>2 DEF NoCheck
  <2>2. Cardinality({}) = 0 /\ Cardinality(Name \cup Temp) \in Nat
    BY FS_EmptySet, SomeFiles
  <2>3. FsckTruthful
    BY <2>1, NullIsNothing DEF FsckTruthful
  <2> QED
    BY <1>2, <2>1, <2>2, <2>3 DEF Counted
<1>12. Compressing /\ Decompressing /\ Writing
  BY <1>8 DEF Compressing, Decompressing, Writing
<1>13. Files
  <2>1. Holds(Raw(all), all, {})
    BY <1>4, FoundType DEF Holds
  <2> SUFFICES ASSUME NEW f \in Name
               PROVE  /\ contents[f] = Null => ~Exists(f)
                      /\ ~Exists(f) /\ contents[f] # Null => harm[f] # {}
                      /\ Light(harm[f]) /\ Exists(f) /\ ~(job.op = "direct" /\ job.name = f)
                          => Holds(dir[f], contents[f], harm[f])
    BY DEF Files
  <2>2. harm[f] = {}
    BY <1>2
  <2>3. CASE dir[f] = Raw(all) /\ contents[f] = all
    BY <1>3, <1>4, <2>1, <2>2, <2>3, NullIsNothing DEF Exists
  <2>4. CASE dir[f] = Absent /\ contents[f] = Null
    BY <2>4 DEF Exists
  <2> QED
    BY <1>5, <2>3, <2>4
<1> QED
  BY <1>7, <1>9, <1>10, <1>11, <1>12, <1>13 DEF IInv

\* Nothing happens.
LEMMA StutterInv == ASSUME IInv, UNCHANGED vars PROVE IInv'
<1>1. UNCHANGED <<dir, temps, contents, harm, prog, job, off, fsck, leaks>>
  BY DEF vars
<1>2. Types' /\ Control'
  BY <1>1 DEF IInv, Types, Control, Exists
<1>3. Temporaries' /\ Counted' /\ Writing'
  BY <1>1, CountedStays DEF IInv, Temporaries, Writing
<1>4. Compressing'
  BY <1>1 DEF IInv, Compressing
<1>5. Decompressing'
  BY <1>1 DEF IInv, Decompressing
<1>6. Files'
  BY <1>1 DEF IInv, Files, Exists
<1> QED
  BY <1>2, <1>3, <1>4, <1>5, <1>6 DEF IInv

LEMMA NextInv == ASSUME IInv, [Next]_vars PROVE IInv'
<1>1. ASSUME Mount PROVE IInv'
  BY <1>1, MountInv
<1>2. ASSUME Umount PROVE IInv'
  BY <1>2, UmountInv
<1>3. ASSUME Crash PROVE IInv'
  BY <1>3, CrashInv, CrashDirectInv
<1>4. ASSUME Cancel PROVE IInv'
  BY <1>4, CancelInv
<1>5. ASSUME NEW f \in Name, NEW c \in Codec, CompressStart(f, c) \/ DirectOpen(f, c) PROVE IInv'
  BY <1>5, CompressStartInv, DirectOpenInv
<1>6. ASSUME NEW o \in Outcome, NEW flush \in BOOLEAN, CompressStep(o, flush) PROVE IInv'
  BY <1>6, CompressStepInv
<1>7. ASSUME NEW n \in {1, 2}, NEW o \in Outcome, NEW flush \in BOOLEAN, DirectWrite(n, o, flush) PROVE IInv'
  BY <1>7, DirectWriteInv
<1>8. ASSUME NEW o \in Outcome, CompressTail(o) \/ DecompressRun(o) \/ DirectClose(o) PROVE IInv'
  BY <1>8, CompressTailInv, DecompressRunInv, DirectCloseInv
<1>9. ASSUME NEW f \in Name, DecompressStart(f) PROVE IInv'
  BY <1>9, DecompressStartInv
<1>10. ASSUME Reject \/ Replace \/ RenameFails \/ CloseFails PROVE IInv'
  BY <1>10, RejectInv, ReplaceInv, RenameFailsInv, CloseFailsInv
<1>11. ASSUME NEW c \in Codec \cup {Null}, NEW r \in Codec \cup {Null}, OfflineStart(c, r) PROVE IInv'
  BY <1>11, OfflineStartInv
<1>12. ASSUME NEW f \in Name,
              OfflineSkip(f) \/ OfflineCompress(f) \/ OfflineDecompress(f) \/ OfflineRecompress(f)
       PROVE  IInv'
  BY <1>12, OfflineSkipInv, OfflineCompressInv, OfflineDecompressInv, OfflineRecompressInv
<1>13. ASSUME OfflineNoTemp \/ OfflineSignal \/ OfflineEnd PROVE IInv'
  BY <1>13, OfflineStopsInv, OfflineSignalInv
<1>14. ASSUME NEW d \in BOOLEAN, FsckStart(d) PROVE IInv'
  BY <1>14, FsckStartInv
<1>15. ASSUME NEW x \in Name \cup Temp, FsckFile(x) \/ FsckCannot(x) PROVE IInv'
  BY <1>15, FsckFileInv, FsckCannotInv
<1>16. ASSUME FsckEnd PROVE IInv'
  BY <1>16, FsckEndInv
<1>17. ASSUME UNCHANGED vars PROVE IInv'
  BY <1>17, StutterInv
<1> QED
  BY <1>1, <1>2, <1>3, <1>4, <1>5, <1>6, <1>7, <1>8, <1>9, <1>10, <1>11, <1>12, <1>13, <1>14, <1>15, <1>16,
     <1>17, Zenon DEF Next

(* Whatever program runs, is killed, or meets a full disk: each file is     *)
(* what was written, or an image that shows what it lost, or one of those   *)
(* that harm says nothing is promised about; and a job has in its hands     *)
(* the rest of what it works on.                                            *)
THEOREM Invariance == Spec => []IInv
<1>1. Init => IInv
  BY InitInv
<1>2. IInv /\ [Next]_vars => IInv'
  BY NextInv
<1> QED
  BY <1>1, <1>2, PTL DEF Spec

-----------------------------------------------------------------------------
(* What it says *)

\* A file as a user reads it, with what the codec still holds.
View(f) == [dir[f] EXCEPT !.body = @ \o Pending(f)]

(* What is found is what is shown, when the length in the header is right.  *)
LEMMA ShownWhole ==
    ASSUME NEW e \in FileRec, NEW text, Found(e) = text, e.size = Len(text)
    PROVE  Shown(e) = text
<1> DEFINE d == Decoded(e).data
<1>1. d = text /\ Len(d) \in Nat /\ e.size = Len(d)
  <2>1. d = Found(e)
    BY DEF Found
  <2> HIDE DEF d
  <2> QED
    BY <2>1, FoundType
<1>2. Shown(e) = IF e.img /\ e.size < Len(d) THEN SubSeq(d, 1, e.size) ELSE d
  BY Zenon DEF Shown
<1>3. ~(e.size < Len(d))
  <2> DEFINE n == Len(d)
  <2>1. e.size = n /\ n \in Nat
    BY <1>1
  <2> HIDE DEF n
  <2>2. ~(e.size < n)
    BY <2>1
  <2> QED
    BY <2>2 DEF n
<1> HIDE DEF d
<1> QED
  BY <1>1, <1>2, <1>3

(* A file that is being written is as whole as one that is not.             *)
LEMMA Views ==
    ASSUME IInv, NEW f \in Name, Exists(f), Light(harm[f])
    PROVE  /\ View(f) \in FileRec /\ View(f).size = Len(contents[f])
           /\ \/ Found(View(f)) = contents[f]
              \/ View(f) = dir[f] /\ dir[f].img /\ Len(Found(dir[f])) < dir[f].size /\ harm[f] # {}
<1>1. dir[f] \in FileRec /\ job.buf \in Data /\ dir[f].body \in Data
  BY DEF IInv, Types, Exists, FileRec, JobRec
<1>2. CASE job.op = "direct" /\ job.name = f
  <2> DEFINE v == View(f)
             b == dir[f].body \o job.buf
  <2>1. b \in Data
    BY <1>1, GapStays
  <2>2. v = [dir[f] EXCEPT !.body = b]
    BY <1>2 DEF View, Pending
  <2>3. v \in FileRec /\ v.body = b /\ v.size = dir[f].size /\ v.img = dir[f].img /\ v.codec = dir[f].codec
    <3> HIDE DEF v, b
    <3> QED
      BY <1>1, <2>1, <2>2 DEF FileRec
  <2>4. harm[f] = {}
    BY <1>2, DirectFacts DEF Light
  <2>5. Holds(v, contents[f], harm[f])
    <3> HIDE DEF v
    <3> QED
      BY <1>2, <2>3, DirectHolds
  <2> HIDE DEF v
  <2>6. Found(v) = contents[f] /\ v.size = Len(contents[f])
    BY <2>4, <2>5 DEF Holds
  <2> QED
    BY <2>3, <2>6 DEF v
<1>3. CASE ~(job.op = "direct" /\ job.name = f)
  <2>1. Pending(f) = <<>>
    BY <1>3 DEF Pending
  <2>2. dir[f].body \o <<>> = dir[f].body
    BY <1>1, ConcatEmptySeq DEF Data
  <2>3. View(f) = dir[f]
    BY <1>1, <2>1, <2>2 DEF View, FileRec
  <2>4. Holds(dir[f], contents[f], harm[f])
    BY <1>3 DEF IInv, Files
  <2> QED
    BY <1>1, <2>3, <2>4 DEF Holds
<1> QED
  BY <1>2, <1>3

LEMMA WholeIsIntact ==
    ASSUME IInv, NEW f \in Name, Exists(f), Light(harm[f]), Found(View(f)) = contents[f]
    PROVE  Intact(f)
<1>1. View(f) \in FileRec /\ View(f).size = Len(contents[f])
  BY Views
<1>2. Shown(View(f)) = contents[f]
  BY <1>1, ShownWhole
<1>3. contents[f] # Null
  BY DEF IInv, Files
<1> QED
  BY <1>2, <1>3 DEF Intact, View

(* Types, and what only an invariant can bound: fsck never counts more      *)
(* errors than there are files, and repairs no more than it counts; and a   *)
(* file has room for what is appended to it.                                *)
THEOREM TypeCorrect == Spec => []TypeOK
<1>1. IInv => TypeOK
  <2> SUFFICES ASSUME IInv PROVE TypeOK
    OBVIOUS
  <2>1. ASSUME NEW e \in FileRec \cup {Absent}, e # Absent => Formed(e) PROVE IsFile(e)
    BY <2>1 DEF IsFile, FileRec, Formed
  <2>2. (\A f \in Name : IsFile(dir[f])) /\ IsFile(job.new)
    BY <2>1 DEF IInv, Types, JobRec, Exists
  <2>3. fsck.found \in 0 .. Cardinality(Name \cup Temp) /\ fsck.fixed \in 0 .. fsck.found
    <3> DEFINE k == Cardinality(fsck.todo)
               all == Cardinality(Name \cup Temp)
    <3>1. k \in Nat /\ all \in Nat /\ fsck.found \in Nat /\ fsck.fixed \in Nat
          /\ fsck.fixed <= fsck.found /\ fsck.found + k <= all
      BY SomeFiles DEF IInv, Types, CheckRec, Counted
    <3> HIDE DEF k, all
    <3>2. fsck.found \in 0 .. all /\ fsck.fixed \in 0 .. fsck.found
      BY <3>1
    <3> QED
      BY <3>2 DEF all
  <2>4. /\ \A f \in Name : contents[f] = Null \/ contents[f] \in Seq(Unit)
        /\ harm \in [Name -> SUBSET {"ignored", "told", "crash", "short", "wrapped"}]
        /\ prog \in {"none", "mount", "offline", "fsck"} /\ temps \subseteq Temp /\ leaks \subseteq Temp
    BY DEF IInv, Types
  <2>5. /\ job.op \in {"none", "compress", "decompress", "direct"}
        /\ job.pc \in {"start", "loop", "tail", "check"}
        /\ job.name \in Name \cup {Null} /\ job.temp \in Temp \cup {Null} /\ job.codec \in Codec \cup {Null}
        /\ job.src \in Data /\ job.size \in Length /\ job.buf \in Data
        /\ job.codec = "lzo" => Len(job.buf) <= Block
        /\ job.stuck \in BOOLEAN /\ job.ret \in Length \cup {FAIL, Odd}
        /\ job.ignored \in BOOLEAN /\ job.cancel \in BOOLEAN
    BY DEF IInv, Types, JobRec
  <2>6. /\ off.comp \in Codec \cup {Null} /\ off.recomp \in Codec \cup {Null}
        /\ off.todo \subseteq Name /\ off.inner \in BOOLEAN
        /\ fsck.del \in BOOLEAN /\ fsck.todo \subseteq Name \cup Temp
        /\ fsck.warned \in BOOLEAN /\ fsck.unread \in BOOLEAN /\ fsck.exit \in {Null, 0, 1, 4}
    BY DEF IInv, Types, OffRec, CheckRec
  <2> QED
    BY <2>2, <2>3, <2>4, <2>5, <2>6 DEF TypeOK
<1> QED
  BY <1>1, Invariance, PTL

(* A file contains what users wrote, through every compression,             *)
(* decompression and recompression, in the background or by                 *)
(* fusecompress_offline, every cancelled job, every kill and every fsck:    *)
(* unless one of the five things harm records happened to it.               *)
THEOREM ContentsStay == Spec => []ContentsKept
<1>1. IInv => ContentsKept
  <2> SUFFICES ASSUME IInv, NEW f \in Name, harm[f] = {} PROVE Intact(f)
    BY DEF ContentsKept
  <2>1. CASE ~Exists(f)
    <3>1. contents[f] = Null
      BY <2>1 DEF IInv, Files
    <3> QED
      BY <2>1, <3>1 DEF Intact
  <2>2. CASE Exists(f)
    <3>1. Light(harm[f])
      BY DEF Light
    <3>2. Found(View(f)) = contents[f]
      BY <2>2, <3>1, Views
    <3> QED
      BY <2>2, <3>1, <3>2, WholeIsIntact
  <2> QED
    BY <2>1, <2>2
<1> QED
  BY <1>1, Invariance, PTL

(* A write that a codec ignored leaves an image that fsck notices: its      *)
(* header promises more than can be read.  However the codecs ignore failed *)
(* writes, none ends up with an image of full length and wrong contents.    *)
THEOREM DamageIsSeen == Spec => []DamageSeen
<1>1. IInv => DamageSeen
  <2> SUFFICES ASSUME IInv, NEW f \in Name, Exists(f), dir[f].img, ~Intact(f), Light(harm[f])
               PROVE  Flagged(dir[f])
    BY DEF DamageSeen, Light
  <2>1. Len(Found(dir[f])) < dir[f].size
    BY Views, WholeIsIntact
  <2> QED
    BY <2>1 DEF Flagged, Found
<1> QED
  BY <1>1, Invariance, PTL

(* What fsck.fusecompress's exit status says of the disk is true when it    *)
(* ends, whatever it was asked to remove and whatever it could not read.    *)
THEOREM FsckTellsTruth == Spec => []FsckTruthful
<1>1. IInv => FsckTruthful
  BY DEF IInv, Counted
<1> QED
  BY <1>1, Invariance, PTL

(* A temporary file that no job is writing was left behind by a kill, a     *)
(* failed close, or do_decompress()'s failed rename.                        *)
THEOREM TempsAccountedFor == Spec => []TempsAccounted
<1>1. IInv => TempsAccounted
  BY DEF IInv, Temporaries, TempsAccounted
<1> QED
  BY <1>1, Invariance, PTL

=============================================================================
