-------------------------- MODULE FileTable_proofs --------------------------
(***************************************************************************)
(* For every number of names, entries, descriptors and threads, for every  *)
(* set of calls and every combination of failures: the table is well typed *)
(* (TypeOK), file->accesses counts the references to an entry exactly      *)
(* (AccessesExact) and nothing refers to a freed entry (ReferencesLive).   *)
(*                                                                         *)
(* None of the three is inductive by itself: an entry is freed when its    *)
(* count is zero, so that no reference dangles only if the count is exact, *)
(* and the count is exact only if each thread is where Control says and no *)
(* rename moves a descriptor some other call is using (PathsExclusive).    *)
(* IInv is the conjunction, and each action is shown to preserve it.       *)
(***************************************************************************)
EXTENDS FileTable, FiniteSetTheorems, SequenceTheorems, TLAPS

-----------------------------------------------------------------------------
(* Counting *)

Refs(q, o) == {i \in 1..Len(q) : q[i].file = o}

QueueEntry == [file : Obj, dedup : BOOLEAN]

LEMMA RefsFinite ==
    ASSUME NEW q \in Seq(QueueEntry), NEW o
    PROVE  IsFiniteSet(Refs(q, o)) /\ Cardinality(Refs(q, o)) \in Nat
<1>1. Len(q) \in Nat
  BY LenProperties
<1>2. IsFiniteSet(1..Len(q))
  BY <1>1, FS_Interval
<1>3. Refs(q, o) \in SUBSET (1..Len(q))
  BY DEF Refs
<1> QED
  BY <1>2, <1>3, FS_Subset, FS_CardinalityType

(* Appending an entry for file o adds one reference to o and none to others. *)
LEMMA RefsAppend ==
    ASSUME NEW q \in Seq(QueueEntry), NEW e \in QueueEntry, NEW o
    PROVE  Cardinality(Refs(Append(q, e), o)) =
              Cardinality(Refs(q, o)) + (IF e.file = o THEN 1 ELSE 0)
<1> DEFINE n == Len(q) + 1
<1>1. Len(q) \in Nat /\ Len(Append(q, e)) = n /\ n \notin Refs(q, o)
  BY DEF Refs
<1>2. \A i \in 1..n : Append(q, e)[i] = IF i = n THEN e ELSE q[i]
  OBVIOUS
<1>3. CASE e.file = o
  <2>1. Refs(Append(q, e), o) = Refs(q, o) \cup {n}
    BY <1>1, <1>2, <1>3 DEF Refs
  <2> DEFINE R == Refs(q, o)
  <2>2. IsFiniteSet(R) /\ n \notin R
    BY <1>1, RefsFinite
  <2> HIDE DEF R, n
  <2>3. Cardinality(R \cup {n}) = Cardinality(R) + 1
    BY <2>2, FS_AddElement
  <2> QED
    BY <2>1, <2>3, <1>3 DEF R
<1>4. CASE e.file # o
  <2>1. Refs(Append(q, e), o) = Refs(q, o)
    BY <1>1, <1>2, <1>4 DEF Refs
  <2> QED
    BY <2>1, <1>4, RefsFinite
<1> QED
  BY <1>3, <1>4

(* Taking the first entry off takes away one reference to its file.         *)
LEMMA RefsTail ==
    ASSUME NEW q \in Seq(QueueEntry), q # <<>>, NEW o
    PROVE  Cardinality(Refs(q, o)) =
              Cardinality(Refs(Tail(q), o)) + (IF Head(q).file = o THEN 1 ELSE 0)
<1> DEFINE S == Refs(Tail(q), o)
           T == Refs(q, o) \ {1}
           shift == [i \in S |-> i + 1]
<1>1. /\ Len(q) \in Nat /\ Len(q) > 0 /\ Len(Tail(q)) = Len(q) - 1
      /\ Tail(q) \in Seq(QueueEntry)
      /\ \A i \in 1..(Len(q) - 1) : Tail(q)[i] = q[i + 1]
  BY HeadTailProperties, LenProperties, EmptySeq
<1>2. IsFiniteSet(S) /\ Cardinality(S) \in Nat
  BY <1>1, RefsFinite
<1>3. /\ S \subseteq Nat /\ T \subseteq Nat
      /\ \A i \in S : i + 1 \in T
      /\ \A j \in T : j - 1 \in S
  BY <1>1 DEF Refs
<1>4. shift \in Bijection(S, T)
  <2>1. \A j \in T : \E i \in S : shift[i] = j
    <3> TAKE j \in T
    <3>1. j - 1 \in S /\ shift[j - 1] = j
      BY <1>3
    <3> QED
      BY <3>1
  <2>2. shift \in [S -> T] /\ \A i, j \in S : shift[i] = shift[j] => i = j
    BY <1>3
  <2> HIDE DEF shift, S, T
  <2> QED
    BY <2>1, <2>2 DEF Bijection, Injection, Surjection, IsInjective
<1>5. Cardinality(T) = Cardinality(S)
  <2> HIDE DEF shift, S, T
  <2> QED
    BY <1>2, <1>4, FS_Bijection DEF ExistsBijection
<1>6. 1 \in Refs(q, o) <=> Head(q).file = o
  BY <1>1 DEF Refs
<1>7. /\ IsFiniteSet(Refs(q, o)) /\ Cardinality(Refs(q, o)) \in Nat
      /\ Cardinality(T) = IF 1 \in Refs(q, o) THEN Cardinality(Refs(q, o)) - 1
                                              ELSE Cardinality(Refs(q, o))
  BY RefsFinite, FS_RemoveElement
<1> QED
  BY <1>2, <1>5, <1>6, <1>7

(* Two finite sets with nothing in common.                                  *)
LEMMA CardDisjoint ==
    ASSUME NEW A, NEW B, IsFiniteSet(A), IsFiniteSet(B), A \cap B = {}
    PROVE  Cardinality(A \cup B) = Cardinality(A) + Cardinality(B)
<1>1. Cardinality(A \cup B) = Cardinality(A) + Cardinality(B) - Cardinality(A \cap B)
  BY FS_Union
<1>2. Cardinality(A \cap B) = 0 /\ Cardinality(A) \in Nat /\ Cardinality(B) \in Nat
  BY FS_EmptySet, FS_CardinalityType
<1> QED
  BY <1>1, <1>2

-----------------------------------------------------------------------------
(* Steps that add and remove no reference *)

LEMMA CountsKept ==
    ASSUME AccessesExact, live \subseteq Obj, live' = live, queue' = queue, bg'.file = bg.file,
           \A d \in Desc : desc'[d].file = desc[d].file,
           \A t \in Thread : Kept(t)' = Kept(t),
           \A o \in live : file'[o].accesses = file[o].accesses
    PROVE  AccessesExact'
<1> SUFFICES ASSUME NEW o \in live
             PROVE  file'[o].accesses = Cardinality(DescOf(o)') + Cardinality(QueuedOf(o)') + BgOf(o)'
                                        + Cardinality(KeepersOf(o)')
  BY DEF AccessesExact
<1>1. DescOf(o)' = DescOf(o) /\ QueuedOf(o)' = QueuedOf(o) /\ BgOf(o)' = BgOf(o)
  BY DEF DescOf, QueuedOf, BgOf
<1>2. KeepersOf(o)' = KeepersOf(o)
  BY DEF KeepersOf
<1> QED
  BY <1>1, <1>2 DEF AccessesExact

(* Paths stay exclusive when thread t keeps its paths or drops them, ...    *)
LEMMA PathsKept ==
    ASSUME PathsExclusive, NEW t \in Thread,
           \A u \in Thread \ {t} : thr'[u] = thr[u],
           \A n \in Name : n \in {thr'[t].name, thr'[t].other} => n \in {thr[t].name, thr[t].other},
           thr'[t].op = thr[t].op \/ (Exclusive(thr[t].op) /\ Exclusive(thr'[t].op))
              \/ (thr'[t].name \notin Name /\ thr'[t].other \notin Name)
    PROVE  PathsExclusive'
BY DEF PathsExclusive, Compatible, Exclusive, Modifying

(* ... and when it begins a call on a path that is free.                    *)
LEMMA PathsTaken ==
    ASSUME PathsExclusive, NEW t \in Thread, NEW op,
           \A u \in Thread \ {t} : thr'[u] = thr[u],
           thr'[t].op = op, PathFree(t, op, {thr'[t].name, thr'[t].other} \ {Null})
    PROVE  PathsExclusive'
BY ConstantsAssumption, SMTT(30) DEF PathsExclusive, PathFree, Compatible

(* A step of thread t that adds and removes no reference.                   *)
LEMMA QuietStep ==
    ASSUME IInv, TypeOK', PathsExclusive', NEW t \in Thread,
           live' = live, database' = database, queue' = queue, bg' = bg,
           \A d \in Desc : desc'[d].file = desc[d].file,
           \A o \in live : /\ file'[o] \in FileRec
                           /\ file'[o].accesses = file[o].accesses
                           /\ file'[o].name = file[o].name,
           \A u \in Thread \ {t} : thr'[u] = thr[u] /\ (dbOwner' = u <=> dbOwner = u),
           \A o \in Obj : /\ owner'[o] = owner[o] \/ owner'[o] = Null \/ (owner'[o] = t /\ o \in live)
                          /\ owner[o] \in Thread \ {t} => owner'[o] = owner[o],
           Kept(t)' = Kept(t), ControlOf(t)'
    PROVE  IInv'
<1>1. \A u \in Thread : Kept(u)' = Kept(u)
  BY DEF Kept
<1>2. AccessesExact'
  BY <1>1, CountsKept DEF IInv, TypeOK
<1>3. TableLive' /\ BgControl'
  BY DEF IInv, TableLive, BgControl
<1>4. ReferencesLive'
  BY <1>1 DEF IInv, ReferencesLive
<1>5. ASSUME NEW u \in Thread \ {t} PROVE ControlOf(u)'
  <2>1. ControlOf(u) /\ thr'[u] = thr[u] /\ (dbOwner' = u <=> dbOwner = u)
    BY DEF IInv, Control
  <2>2. \A d \in Desc : desc[d].file \in Obj => desc[d].file \in live
    BY ConstantsAssumption DEF IInv, ReferencesLive
  <2>3. \A o \in Obj : owner[o] = u => owner'[o] = u
    OBVIOUS
  <2>4. live \subseteq Obj
    BY DEF IInv, TypeOK
  <2> QED
    BY <2>1, <2>2, <2>3, <2>4 DEF ControlOf
<1> QED
  BY <1>2, <1>3, <1>4, <1>5 DEF IInv, Control

-----------------------------------------------------------------------------
(* The handlers and direct_open() *)

Called(op, n, m) ==
    \/ op \in {"utime", "mknod", "unlink", "truncate", "open"} /\ m = Null
    \/ op = "rename1" /\ m \in Name /\ n # m

Scanning(op, n, m) == [Idle EXCEPT !.pc = "scan", !.op = op, !.name = n, !.other = m]

LEMMA CallInv ==
    ASSUME IInv, NEW t \in Thread, NEW op, NEW n \in Name, NEW m, Called(op, n, m), Call(t, op, n, m)
    PROVE  IInv'
<1> DEFINE r == Scanning(op, n, m)
<1>1. thr[t] = Idle
  BY DEF Call, IInv, Control, ControlOf
<1>2. /\ r \in ThreadRec
      /\ r.pc = "scan" /\ r.op = op /\ r.name = n /\ r.other = m /\ r.from = Null
  BY DEF Scanning, Idle, ThreadRec, Op, Called
<1>3. thr' = [thr EXCEPT ![t] = r] /\ dbOwner = Null /\ dbOwner' = t /\ PathFree(t, op, {n, m} \ {Null})
  BY DEF Call, Scanning
<1> HIDE DEF r
<1>4. thr' \in [Thread -> ThreadRec] /\ thr'[t] = r /\ \A u \in Thread \ {t} : thr'[u] = thr[u]
  BY <1>2, <1>3 DEF IInv, TypeOK
<1>5. TypeOK'
  BY <1>3, <1>4 DEF IInv, TypeOK, Call
<1>6. PathsExclusive'
  BY <1>2, <1>3, <1>4, PathsTaken DEF IInv
<1>7. Kept(t)' = Kept(t)
  BY <1>1, <1>2, <1>4 DEF Kept, Idle
<1>8. ControlOf(t)'
  BY <1>2, <1>3, <1>4, ConstantsAssumption DEF ControlOf, Called
<1>9. \A u \in Thread \ {t} : dbOwner' = u <=> dbOwner = u
  BY <1>3, ConstantsAssumption
<1> QED
  BY <1>4, <1>5, <1>6, <1>7, <1>8, <1>9, QuietStep DEF Call, IInv, TableLive

Statting(n) == [Idle EXCEPT !.pc = "stat", !.op = "getattr", !.name = n, !.stat = OnDiskSize(n)]

LEMMA LstatInv ==
    ASSUME IInv, NEW t \in Thread, NEW n \in Name, Lstat(t, n)
    PROVE  IInv'
<1> DEFINE r == Statting(n)
<1>1. thr[t] = Idle
  BY DEF Lstat, IInv, Control, ControlOf
<1>2. OnDiskSize(n) \in SizeClass \cup {"image"}
  <2>1. disk[n] \in Image
    BY DEF IInv, TypeOK, Lstat
  <2> QED
    BY <2>1 DEF OnDiskSize, Image
<1>3. /\ r \in ThreadRec
      /\ r.pc = "stat" /\ r.op = "getattr" /\ r.name = n /\ r.other = Null /\ r.from = Null
      /\ r.stat # "none"
  BY <1>2 DEF Statting, Idle, ThreadRec, Op, SizeClass
<1>4. thr' = [thr EXCEPT ![t] = r] /\ PathFree(t, "getattr", {n})
  BY DEF Lstat, Statting
<1> HIDE DEF r
<1>5. thr' \in [Thread -> ThreadRec] /\ thr'[t] = r /\ \A u \in Thread \ {t} : thr'[u] = thr[u]
  BY <1>3, <1>4 DEF IInv, TypeOK
<1>6. TypeOK'
  BY <1>5 DEF IInv, TypeOK, Lstat
<1>7. PathsExclusive'
  <2>1. {thr'[t].name, thr'[t].other} \ {Null} = {n}
    BY <1>3, <1>5, ConstantsAssumption
  <2> QED
    BY <2>1, <1>3, <1>4, <1>5, PathsTaken DEF IInv
<1>8. Kept(t)' = Kept(t)
  BY <1>1, <1>3, <1>5 DEF Kept, Idle
<1>9. ControlOf(t)'
  BY <1>1, <1>3, <1>5 DEF IInv, Control, ControlOf, Idle, Lstat
<1> QED
  BY <1>5, <1>6, <1>7, <1>8, <1>9, QuietStep DEF Lstat, IInv, TableLive

LEMMA LockDatabaseInv ==
    ASSUME IInv, NEW t \in Thread, LockDatabase(t)
    PROVE  IInv'
<1> DEFINE r == [thr[t] EXCEPT !.pc = "scan"]
<1>1. thr[t] \in ThreadRec /\ thr[t].pc = "stat" /\ ControlOf(t)
  BY DEF IInv, TypeOK, LockDatabase, Control
<1>2. /\ r \in ThreadRec /\ r.pc = "scan"
      /\ r.op = thr[t].op /\ r.name = thr[t].name /\ r.other = thr[t].other
      /\ r.file = thr[t].file /\ r.from = thr[t].from /\ r.stat = thr[t].stat
  BY <1>1 DEF ThreadRec
<1>3. thr' = [thr EXCEPT ![t] = r] /\ dbOwner = Null /\ dbOwner' = t
  BY DEF LockDatabase
<1> HIDE DEF r
<1>4. thr' \in [Thread -> ThreadRec] /\ thr'[t] = r /\ \A u \in Thread \ {t} : thr'[u] = thr[u]
  BY <1>2, <1>3 DEF IInv, TypeOK
<1>5. TypeOK'
  BY <1>3, <1>4 DEF IInv, TypeOK, LockDatabase
<1>6. PathsExclusive'
  BY <1>2, <1>4, PathsKept DEF IInv
<1>7. Kept(t)' = Kept(t)
  BY <1>1, <1>2, <1>4 DEF Kept
<1>8. ControlOf(t)'
  BY <1>1, <1>2, <1>3, <1>4 DEF ControlOf, LockDatabase
<1>9. \A u \in Thread \ {t} : dbOwner' = u <=> dbOwner = u
  BY <1>3, ConstantsAssumption
<1> QED
  BY <1>4, <1>5, <1>6, <1>7, <1>8, <1>9, QuietStep DEF LockDatabase, IInv, TableLive

LEMMA DirectOpenPurgeInv ==
    ASSUME IInv, NEW t \in Thread, DirectOpenPurge(t)
    PROVE  IInv'
<1> DEFINE r == [[thr[t] EXCEPT !.pc = "purge"] EXCEPT !.walk = database]
<1>1. thr[t] \in ThreadRec /\ thr[t].pc = "scan" /\ ControlOf(t) /\ database \in SUBSET Obj
  BY DEF IInv, TypeOK, DirectOpenPurge, Control
<1>2. /\ r \in ThreadRec /\ r.pc = "purge" /\ r.walk = database
      /\ r.op = thr[t].op /\ r.name = thr[t].name /\ r.other = thr[t].other
      /\ r.file = thr[t].file /\ r.from = thr[t].from /\ r.stat = thr[t].stat
  BY <1>1 DEF ThreadRec
<1>3. thr' = [thr EXCEPT ![t] = r]
  BY DEF DirectOpenPurge, IInv, TypeOK
<1> HIDE DEF r
<1>4. thr' \in [Thread -> ThreadRec] /\ thr'[t] = r /\ \A u \in Thread \ {t} : thr'[u] = thr[u]
  BY <1>2, <1>3 DEF IInv, TypeOK
<1>5. TypeOK'
  BY <1>4 DEF IInv, TypeOK, DirectOpenPurge
<1>6. PathsExclusive'
  BY <1>2, <1>4, PathsKept DEF IInv
<1>7. Kept(t)' = Kept(t)
  BY <1>1, <1>2, <1>4 DEF Kept
<1>8. ControlOf(t)'
  BY <1>1, <1>2, <1>4 DEF ControlOf, DirectOpenPurge
<1> QED
  BY <1>4, <1>5, <1>6, <1>7, <1>8, QuietStep DEF DirectOpenPurge, IInv, TableLive

(* An entry is replaced by one with the same name and the same accesses.    *)
LEMMA FileUpdate ==
    ASSUME IInv, NEW o \in Obj, NEW g \in FileRec, file' = [file EXCEPT ![o] = g],
           g.accesses = file[o].accesses, g.name = file[o].name
    PROVE  /\ file' \in [Obj -> FileRec \cup {Null}]
           /\ \A p \in live : /\ file'[p] \in FileRec
                              /\ file'[p].accesses = file[p].accesses
                              /\ file'[p].name = file[p].name
BY DEF IInv, TypeOK, TableLive

(* direct_open() at the end: the entry is locked or waited for.             *)
LEMMA LockOrWaitInv ==
    ASSUME IInv, NEW t \in Thread, NEW o \in live, NEW f \in FileRec,
           thr[t].pc \in {"scan", "woken"}, thr[t].name = file[o].name,
           f.accesses = file[o].accesses, f.name = file[o].name,
           owner[o] = Null, LockOrWait(t, o, f),
           live' = live, database' = database, queue' = queue, bg' = bg, desc' = desc, disk' = disk,
           dbOwner' \in {dbOwner, Null}, dbOwner \in {t, dbOwner'}, dbOwner' # t
    PROVE  IInv'
<1> DEFINE g == IF Stabile(thr[t].op) /\ Busy(f) THEN [f EXCEPT !.status = @ \cup {"CANCEL"}] ELSE f
           pc == IF Stabile(thr[t].op) /\ Busy(f) THEN "wait" ELSE "locked"
           r == [[thr[t] EXCEPT !.pc = pc] EXCEPT !.file = o]
<1>1. thr[t] \in ThreadRec /\ ControlOf(t) /\ o \in Obj /\ live \subseteq Obj
  BY DEF IInv, TypeOK, Control
<1>a. pc \in {"wait", "locked"}
  OBVIOUS
<1>2. /\ r \in ThreadRec /\ r.pc = pc /\ r.file = o /\ r.op = thr[t].op /\ r.name = thr[t].name
      /\ r.other = thr[t].other /\ r.from = thr[t].from /\ r.stat = thr[t].stat
  <2> HIDE DEF pc
  <2> DEFINE r1 == [thr[t] EXCEPT !.pc = pc]
  <2>1. /\ r1 \in ThreadRec /\ r1.pc = pc /\ r1.op = thr[t].op /\ r1.name = thr[t].name
        /\ r1.other = thr[t].other /\ r1.from = thr[t].from /\ r1.stat = thr[t].stat
    BY <1>a, <1>1 DEF ThreadRec
  <2>2. r = [r1 EXCEPT !.file = o]
    OBVIOUS
  <2> HIDE DEF r1, r
  <2> QED
    BY <1>1, <2>1, <2>2 DEF ThreadRec
<1>3. g \in FileRec /\ g.accesses = file[o].accesses /\ g.name = file[o].name
  BY DEF FileRec, Flag
<1>4. /\ thr' = [thr EXCEPT ![t] = r] /\ file' = [file EXCEPT ![o] = g]
      /\ pc = "wait" => owner' = owner
      /\ pc = "locked" => owner' = [owner EXCEPT ![o] = t]
      /\ pc \in {"wait", "locked"}
  BY DEF LockOrWait, IInv, TypeOK
<1> HIDE DEF g, pc, r
<1>5. thr' \in [Thread -> ThreadRec] /\ thr'[t] = r /\ \A u \in Thread \ {t} : thr'[u] = thr[u]
  BY <1>2, <1>4 DEF IInv, TypeOK
<1>6. /\ file' \in [Obj -> FileRec \cup {Null}]
      /\ \A p \in live : /\ file'[p] \in FileRec
                         /\ file'[p].accesses = file[p].accesses
                         /\ file'[p].name = file[p].name
  BY <1>1, <1>3, <1>4, FileUpdate
<1>7. /\ owner' \in [Obj -> Thread \cup {Null}]
      /\ pc = "locked" => owner'[o] = t
      /\ \A p \in Obj : owner'[p] = owner[p] \/ (p = o /\ owner'[p] = t)
  BY <1>1, <1>4 DEF IInv, TypeOK
<1>8. TypeOK'
  BY <1>5, <1>6, <1>7 DEF IInv, TypeOK
<1>9. PathsExclusive'
  BY <1>2, <1>5, PathsKept DEF IInv
<1>10. Kept(t)' = Kept(t)
  BY <1>1, <1>2, <1>4, <1>5 DEF Kept
<1>11. ControlOf(t)'
  BY <1>1, <1>2, <1>4, <1>5, <1>6, <1>7 DEF ControlOf
<1>12. \A u \in Thread \ {t} : dbOwner' = u <=> dbOwner = u
  BY ConstantsAssumption
<1> QED
  BY <1>5, <1>6, <1>7, <1>8, <1>9, <1>10, <1>11, <1>12, QuietStep, ConstantsAssumption

LEMMA DirectOpenHitInv ==
    ASSUME IInv, NEW t \in Thread, NEW o \in Obj, DirectOpenHit(t, o)
    PROVE  IInv'
<1> DEFINE f == [file[o] EXCEPT !.deleted = FALSE]
<1>1. o \in live /\ file[o] \in FileRec /\ thr[t].pc = "scan" /\ thr[t].name = file[o].name
  BY DEF IInv, TableLive, DirectOpenHit
<1>2. f \in FileRec /\ f.accesses = file[o].accesses /\ f.name = file[o].name
  BY <1>1 DEF FileRec
<1>3. dbOwner = t /\ dbOwner' = Null /\ t # Null
  BY <1>1, ConstantsAssumption DEF DirectOpenHit, IInv, Control, ControlOf
<1>4. LockOrWait(t, o, f) /\ owner[o] = Null
  BY DEF DirectOpenHit
<1> HIDE DEF f
<1> QED
  BY <1>1, <1>2, <1>3, <1>4, LockOrWaitInv DEF DirectOpenHit

LEMMA RewakeInv ==
    ASSUME IInv, NEW t \in Thread, Rewake(t)
    PROVE  IInv'
<1> DEFINE o == thr[t].file
<1>1. o \in live /\ file[o] \in FileRec /\ thr[t].pc = "woken"
  BY DEF IInv, TableLive, Rewake
<1>4. file[o].name = thr[t].name
  BY <1>1 DEF IInv, Control, ControlOf
<1>2. dbOwner # t /\ dbOwner' = dbOwner
  BY <1>1 DEF Rewake, IInv, Control, ControlOf
<1>3. LockOrWait(t, o, file[o]) /\ owner[o] = Null
  BY DEF Rewake
<1> QED
  BY <1>1, <1>2, <1>3, <1>4, LockOrWaitInv DEF Rewake

-----------------------------------------------------------------------------
(* Handlers that end *)

(* What a call that returns to FUSE must have left alone.                   *)
LEMMA EndOfCall ==
    ASSUME IInv, NEW t \in Thread, thr[t].pc \in {"locked", "pwrite", "readfail"}, thr[t].from = Null,
           thr' = [thr EXCEPT ![t] = Idle],
           owner' = owner \/ (owner[thr[t].file] = t /\ owner' = [owner EXCEPT ![thr[t].file] = Null]),
           live' = live, database' = database, queue' = queue, bg' = bg, dbOwner' = dbOwner,
           desc' \in [Desc -> DescRec], \A d \in Desc : desc'[d].file = desc[d].file,
           disk' \in [Name -> Image \cup {Null}],
           file' \in [Obj -> FileRec \cup {Null}],
           \A p \in live : /\ file'[p] \in FileRec
                           /\ file'[p].accesses = file[p].accesses
                           /\ file'[p].name = file[p].name
    PROVE  IInv'
<1>1. thr[t] \in ThreadRec /\ ControlOf(t)
  BY DEF IInv, TypeOK, Control
<1>2. Idle \in ThreadRec
  BY DEF Idle, ThreadRec, Op
<1>3. thr' \in [Thread -> ThreadRec] /\ thr'[t] = Idle /\ \A u \in Thread \ {t} : thr'[u] = thr[u]
  BY <1>2 DEF IInv, TypeOK
<1>4. /\ owner' \in [Obj -> Thread \cup {Null}]
      /\ \A o \in Obj : owner'[o] = owner[o] \/ (owner[o] = t /\ owner'[o] = Null)
  BY DEF IInv, TypeOK
<1>5. TypeOK'
  BY <1>3, <1>4 DEF IInv, TypeOK
<1>6. PathsExclusive'
  BY <1>3, PathsKept, ConstantsAssumption DEF IInv, Idle
<1>7. Kept(t)' = Kept(t)
  BY <1>1, <1>3 DEF Kept, Idle
<1>8. ControlOf(t)'
  BY <1>1, <1>3 DEF ControlOf, Idle
<1> QED
  BY <1>3, <1>4, <1>5, <1>6, <1>7, <1>8, QuietStep

(* A handler other than rename that holds an entry.                         *)
LEMMA Holding ==
    ASSUME IInv, NEW t \in Thread, NEW op, Holds(t, op), op # "rename2"
    PROVE  /\ thr[t].pc = "locked" /\ thr[t].from = Null /\ thr[t].file \in live /\ thr[t].file \in Obj
           /\ owner[thr[t].file] = t /\ file[thr[t].file] \in FileRec
           /\ thr[t].name \in Name /\ file[thr[t].file].name = thr[t].name
BY DEF Holds, IInv, Control, ControlOf, TypeOK, TableLive

(* ... and returns, having changed at most the entry's other fields and the *)
(* backing file.                                                            *)
LEMMA ReturnInv ==
    ASSUME IInv, NEW t \in Thread, NEW op, Holds(t, op), op # "rename2",
           NEW g \in FileRec, g.accesses = file[thr[t].file].accesses, g.name = file[thr[t].file].name,
           file' = [file EXCEPT ![thr[t].file] = g],
           thr' = [thr EXCEPT ![t] = Idle],
           owner' = owner \/ owner' = [owner EXCEPT ![thr[t].file] = Null],
           live' = live, database' = database, queue' = queue, bg' = bg, dbOwner' = dbOwner,
           desc' \in [Desc -> DescRec], \A d \in Desc : desc'[d].file = desc[d].file,
           disk' \in [Name -> Image \cup {Null}]
    PROVE  IInv'
<1>1. /\ thr[t].pc = "locked" /\ thr[t].from = Null /\ thr[t].file \in Obj
      /\ owner[thr[t].file] = t
  BY Holding
<1>2. /\ file' \in [Obj -> FileRec \cup {Null}]
      /\ \A p \in live : /\ file'[p] \in FileRec
                         /\ file'[p].accesses = file[p].accesses
                         /\ file'[p].name = file[p].name
  BY <1>1, FileUpdate
<1> QED
  BY <1>1, <1>2, EndOfCall

(* dedup_discard() and direct_delete() touch neither name nor accesses.     *)
LEMMA DiscardKeeps ==
    ASSUME NEW f \in FileRec
    PROVE  /\ Discard(f) \in FileRec /\ Discard(f).accesses = f.accesses /\ Discard(f).name = f.name
           /\ Discard(f).size = f.size
BY DEF Discard, FileRec

LEMMA DeleteKeeps ==
    ASSUME NEW f \in FileRec
    PROVE  Delete(f) \in FileRec /\ Delete(f).accesses = f.accesses /\ Delete(f).name = f.name
BY DEF Delete, FileRec, CachedSize

LEMMA DirectCloseKeeps ==
    ASSUME NEW f \in FileRec
    PROVE  /\ DirectClose(f) \in FileRec /\ DirectClose(f).accesses = f.accesses
           /\ DirectClose(f).name = f.name
BY DEF DirectClose, FileRec

LEMMA GetattrInv ==
    ASSUME IInv, NEW t \in Thread, Getattr(t)
    PROVE  IInv'
<1> DEFINE o == thr[t].file
           f == file[o]
           i == disk[f.name]
<1>1. f \in FileRec /\ o \in Obj /\ Holds(t, "getattr")
  BY Holding DEF Getattr
<1>2. i \in Image \cup {Null} /\ thr[t].stat \in SizeClass \cup {"image"}
  BY <1>1 DEF IInv, TypeOK, FileRec, ThreadRec, Control, ControlOf, Holds
<1> DEFINE Like(g) == g \in FileRec /\ g.accesses = f.accesses /\ g.name = f.name
<1>3. /\ \A s \in CachedSize, c \in BOOLEAN :
            /\ Like([f EXCEPT !.size = s])
            /\ Like([[f EXCEPT !.compressor = c] EXCEPT !.size = s])
      /\ Like(f)
  BY <1>1, ZenonT(40) DEF FileRec
<1>4. \E g : Like(g) /\ file' = [file EXCEPT ![o] = g]
  <2>1. i = Null \/ (i.packed \in BOOLEAN /\ i.size \in CachedSize)
    BY <1>2 DEF Image, CachedSize
  <2>2. thr[t].stat \in CachedSize /\ "empty" \in CachedSize
    BY <1>2 DEF CachedSize, SizeClass
  <2>3. file = [file EXCEPT ![o] = f]
    BY <1>1 DEF IInv, TypeOK
  <2> HIDE DEF Like
  <2>4. CASE UNCHANGED file
    BY <1>3, <2>3, <2>4, Zenon
  <2>5. CASE file' = [file EXCEPT ![o].size = "empty"]
    BY <1>3, <2>2, <2>5, Zenon
  <2>6. CASE /\ i # Null
             /\ file' = [file EXCEPT ![o] =
                   IF i.packed THEN [f EXCEPT !.compressor = TRUE, !.size = i.size]
                   ELSE IF i.size = "empty" THEN [f EXCEPT !.size = thr[t].stat]
                   ELSE [f EXCEPT !.compressor = FALSE, !.size = thr[t].stat]]
    BY <1>3, <2>1, <2>2, <2>6, Zenon
  <2> QED
    BY <2>4, <2>5, <2>6 DEF Getattr
<1>5. PICK g : Like(g) /\ file' = [file EXCEPT ![o] = g]
  BY <1>4
<1>6. g \in FileRec /\ g.accesses = f.accesses /\ g.name = f.name
  BY <1>5
<1>7. Return(t)
  BY DEF Getattr
<1> QED
  BY <1>1, <1>5, <1>6, <1>7, ReturnInv DEF Getattr, Return, IInv, TypeOK

(* A backing file is replaced.                                              *)
LEMMA DiskUpdate ==
    ASSUME IInv, NEW n \in Name, NEW i \in Image \cup {Null}, disk' = [disk EXCEPT ![n] = i]
    PROVE  disk' \in [Name -> Image \cup {Null}]
BY DEF IInv, TypeOK

LEMMA UtimeInv ==
    ASSUME IInv, NEW t \in Thread, Utime(t)
    PROVE  IInv'
<1> DEFINE n == thr[t].name
           f == file[thr[t].file]
<1>1. f \in FileRec /\ thr[t].file \in Obj /\ n \in Name /\ Holds(t, "utime")
  BY Holding DEF Utime
<1>2. disk' \in [Name -> Image \cup {Null}]
  <2>1. CASE disk' = disk
    BY <2>1 DEF IInv, TypeOK
  <2>2. CASE disk[n] # Null /\ \E m \in Time : disk' = [disk EXCEPT ![n].mtime = m]
    <3>1. disk[n] \in Image
      BY <1>1, <2>2 DEF IInv, TypeOK
    <3>2. \A m \in Time : [disk[n] EXCEPT !.mtime = m] \in Image
      BY <3>1 DEF Image
    <3> QED
      BY <1>1, <2>2, <3>2, DiskUpdate
  <2> QED
    BY <2>1, <2>2 DEF Utime
<1>3. file' = [file EXCEPT ![thr[t].file] = f]
  BY <1>1 DEF Utime, IInv, TypeOK
<1>4. Return(t)
  BY DEF Utime
<1> QED
  BY <1>1, <1>2, <1>3, <1>4, ReturnInv DEF Utime, Return, IInv, TypeOK

LEMMA MknodInv ==
    ASSUME IInv, NEW t \in Thread, Mknod(t)
    PROVE  IInv'
<1> DEFINE n == thr[t].name
           f == file[thr[t].file]
<1>1. f \in FileRec /\ thr[t].file \in Obj /\ n \in Name /\ Holds(t, "mknod")
  BY Holding DEF Mknod
<1>2. disk' \in [Name -> Image \cup {Null}]
  <2>1. CASE disk' = disk
    BY <2>1 DEF IInv, TypeOK
  <2>2. ASSUME NEW c \in Data, NEW m \in Time,
               disk' = [disk EXCEPT ![n] = [data |-> c, packed |-> FALSE, size |-> "empty", mtime |-> m]]
        PROVE  disk' \in [Name -> Image \cup {Null}]
    <3>1. [data |-> c, packed |-> FALSE, size |-> "empty", mtime |-> m] \in Image
      BY DEF Image, SizeClass
    <3> QED
      BY <1>1, <2>2, <3>1, DiskUpdate
  <2> QED
    BY <2>1, <2>2 DEF Mknod
<1>3. file' = [file EXCEPT ![thr[t].file] = f]
  BY <1>1 DEF Mknod, IInv, TypeOK
<1>4. Return(t)
  BY DEF Mknod
<1> QED
  BY <1>1, <1>2, <1>3, <1>4, ReturnInv DEF Mknod, Return, IInv, TypeOK

LEMMA UnlinkInv ==
    ASSUME IInv, NEW t \in Thread, Unlink(t)
    PROVE  IInv'
<1> DEFINE o == thr[t].file
           f == file[o]
           Like(g) == g \in FileRec /\ g.accesses = f.accesses /\ g.name = f.name
<1>1. f \in FileRec /\ o \in Obj /\ thr[t].name \in Name /\ Holds(t, "unlink")
  BY Holding DEF Unlink
<1>2. disk' \in [Name -> Image \cup {Null}]
  BY <1>1 DEF Unlink, IInv, TypeOK
<1>3. Like(Discard(f)) /\ Like(Delete(Discard(f)))
  BY <1>1, DiscardKeeps, DeleteKeeps
<1>4. \E g : Like(g) /\ file' = [file EXCEPT ![o] = g]
  <2> HIDE DEF Like
  <2> QED
    BY <1>3 DEF Unlink
<1>5. Return(t)
  BY DEF Unlink
<1> QED
  BY <1>1, <1>2, <1>4, <1>5, ReturnInv DEF Unlink, Return, IInv, TypeOK

LEMMA OpenFailsInv ==
    ASSUME IInv, NEW t \in Thread, OpenFails(t)
    PROVE  IInv'
<1> DEFINE o == thr[t].file
           f == file[o]
           Like(g) == g \in FileRec /\ g.accesses = f.accesses /\ g.name = f.name
<1>1. f \in FileRec /\ o \in Obj /\ Holds(t, "open")
  BY Holding DEF OpenFails
<1>2. Like(Discard(f)) /\ Like(f)
  BY <1>1, DiscardKeeps
<1>3. \E g : Like(g) /\ file' = [file EXCEPT ![o] = g]
  <2> HIDE DEF Like
  <2> QED
    BY <1>2 DEF OpenFails
<1>4. Return(t)
  BY DEF OpenFails
<1> QED
  BY <1>1, <1>3, <1>4, ReturnInv DEF OpenFails, Return, IInv, TypeOK

LEMMA OpenLeaksLockInv ==
    ASSUME IInv, NEW t \in Thread, OpenLeaksLock(t)
    PROVE  IInv'
<1> DEFINE o == thr[t].file
           Like(g) == g \in FileRec /\ g.accesses = file[o].accesses /\ g.name = file[o].name
<1>1. file[o] \in FileRec /\ o \in Obj /\ Holds(t, "open")
  BY Holding DEF OpenLeaksLock
<1>2. \A f \in {file[o], Discard(file[o])}, linked \in BOOLEAN :
         Like([f EXCEPT !.dontcompress = @ \/ linked])
  <2> TAKE f \in {file[o], Discard(file[o])}, linked \in BOOLEAN
  <2>1. Like(f)
    BY <1>1, DiscardKeeps
  <2>2. (f.dontcompress \/ linked) \in BOOLEAN
    OBVIOUS
  <2> QED
    BY <2>1, <2>2 DEF FileRec
<1>3. \E g : Like(g) /\ file' = [file EXCEPT ![o] = g]
  <2> HIDE DEF Like
  <2> QED
    BY <1>2, ConstantsAssumption DEF OpenLeaksLock
<1> QED
  BY <1>1, <1>3, ReturnInv DEF OpenLeaksLock, IInv, TypeOK

-----------------------------------------------------------------------------
(* do_decompress() *)

(* What every outcome of a decompression of entry f has in common.          *)
GoodOutcome(f, r) ==
    /\ r.f \in FileRec /\ r.f.accesses = f.accesses /\ r.f.name = f.name
    /\ r.i \in Image \cup {Null}
    /\ r.fd \in {"same", "ok", "stale", "closed"}

LEMMA OutcomeGood ==
    ASSUME NEW f, NEW ok, NEW g \in FileRec, g.accesses = f.accesses, g.name = f.name,
           NEW i \in Image \cup {Null}, NEW fd \in {"same", "ok", "stale", "closed"}
    PROVE  GoodOutcome(f, Outcome(ok, g, i, fd))
BY DEF GoodOutcome, Outcome

LEMMA DoDecompressGood ==
    ASSUME IInv, NEW o, NEW f \in FileRec, NEW r \in DoDecompress(o, f)
    PROVE  GoodOutcome(f, r)
<1> DEFINE i == disk[f.name]
           closed == IF DescOf(o) = {} THEN f ELSE DirectClose(f)
           done == [i EXCEPT !.packed = FALSE]
           Like(g) == g \in FileRec /\ g.accesses = f.accesses /\ g.name = f.name
<1>1. i \in Image \cup {Null}
  BY DEF IInv, TypeOK, FileRec
<1>2. Like(f) /\ Like(closed)
  BY DirectCloseKeeps
<1>3. \A s \in CachedSize : /\ Like([f EXCEPT !.compressor = FALSE, !.size = s])
                            /\ Like([closed EXCEPT !.compressor = FALSE, !.size = s])
  <2> HIDE DEF closed
  <2> QED
    BY <1>2 DEF FileRec
<1>4. i # Null => i.size \in CachedSize /\ done \in Image
  BY <1>1 DEF Image, CachedSize
<1>5. "unknown" \in CachedSize
  BY DEF CachedSize
<1>6. \/ r = Outcome(FALSE, f, i, "same")
      \/ /\ i # Null
         /\ \/ r = Outcome(TRUE, [f EXCEPT !.compressor = FALSE, !.size = "unknown"], i, "same")
            \/ r = Outcome(TRUE, [closed EXCEPT !.compressor = FALSE, !.size = i.size], done, "ok")
            \/ r = Outcome(FALSE, closed, i, "closed")
            \/ r = Outcome(FALSE, closed, i, "stale")
            \/ r = Outcome(FALSE, closed, done, "ok")
  <2> HIDE DEF closed, done
  <2> QED
    BY DEF DoDecompress, closed, done
<1>7. \A ok, g, j, fd : /\ Like(g) /\ j \in Image \cup {Null} /\ fd \in {"same", "ok", "stale", "closed"}
                        => GoodOutcome(f, Outcome(ok, g, j, fd))
  BY OutcomeGood
<1> HIDE DEF i, closed, done, Like
<1>8. CASE r = Outcome(FALSE, f, i, "same")
  BY <1>1, <1>2, <1>7, <1>8
<1>9. CASE i # Null /\ r = Outcome(TRUE, [f EXCEPT !.compressor = FALSE, !.size = "unknown"], i, "same")
  BY <1>1, <1>3, <1>5, <1>7, <1>9, Zenon
<1>10. CASE i # Null /\ r = Outcome(TRUE, [closed EXCEPT !.compressor = FALSE, !.size = i.size], done, "ok")
  BY <1>3, <1>4, <1>7, <1>10, Zenon
<1>11. CASE /\ i # Null
            /\ \/ r = Outcome(FALSE, closed, i, "closed")
               \/ r = Outcome(FALSE, closed, i, "stale")
               \/ r = Outcome(FALSE, closed, done, "ok")
  BY <1>1, <1>2, <1>4, <1>7, <1>11
<1> QED
  BY <1>6, <1>8, <1>9, <1>10, <1>11

(* Reopening descriptors does not move them to another entry.               *)
LEMMA ReplacedKeeps ==
    ASSUME IInv, NEW n, NEW o
    PROVE  /\ Replaced(n, o) \in [Desc -> DescRec]
           /\ \A d \in Desc : Replaced(n, o)[d].file = desc[d].file
BY DEF Replaced, DescRec, IInv, TypeOK

LEMMA ReopenedKeeps ==
    ASSUME IInv, NEW o, NEW fd \in {"same", "ok", "stale", "closed"}
    PROVE  /\ Reopened(o, fd) \in [Desc -> DescRec]
           /\ \A d \in Desc : Reopened(o, fd)[d].file = desc[d].file
<1> DEFINE others == IF fd = "ok" THEN Replaced(file[o].name, o) ELSE desc
<1>1. others \in [Desc -> DescRec] /\ \A d \in Desc : others[d].file = desc[d].file
  BY ReplacedKeeps DEF IInv, TypeOK
<1>2. Reopened(o, fd) = [d \in Desc |-> IF desc[d].file = o /\ fd # "same"
                                        THEN [desc[d] EXCEPT !.fd = fd] ELSE others[d]]
  BY DEF Reopened
<1> HIDE DEF others
<1>3. \A d \in Desc : fd # "same" => /\ [desc[d] EXCEPT !.fd = fd] \in DescRec
                                     /\ [desc[d] EXCEPT !.fd = fd].file = desc[d].file
  BY DEF IInv, TypeOK, DescRec
<1> QED
  BY <1>1, <1>2, <1>3

LEMMA TruncateInv ==
    ASSUME IInv, NEW t \in Thread, NEW s \in Sizes, Truncate(t, s)
    PROVE  IInv'
<1> DEFINE o == thr[t].file
           n == thr[t].name
           f == Discard(file[o])
<1>1. file[o] \in FileRec /\ o \in Obj /\ n \in Name /\ Holds(t, "truncate")
  BY Holding DEF Truncate
<1>2. f \in FileRec /\ f.accesses = file[o].accesses /\ f.name = file[o].name
  BY <1>1, DiscardKeeps
<1>3. s \in SizeClass /\ s \in CachedSize
  BY ConstantsAssumption DEF CachedSize
<1>4. ASSUME NEW r \in TruncateFirst(o, f, s)
      PROVE  GoodOutcome(f, r)
  <2>1. disk[f.name] \in Image \cup {Null}
    BY <1>2 DEF IInv, TypeOK, FileRec
  <2>2. CASE r = Outcome(TRUE, f, disk[f.name], "same")
    BY <1>2, <2>1, <2>2, OutcomeGood
  <2>3. CASE r \in DoDecompress(o, f)
    BY <1>2, <2>3, DoDecompressGood
  <2>4. CASE r = Outcome(TRUE, [(IF DescOf(o) = {} THEN f ELSE DirectClose(f)) EXCEPT !.compressor = FALSE],
                         disk[f.name], "same")
    <3> DEFINE c == IF DescOf(o) = {} THEN f ELSE DirectClose(f)
    <3>1. c \in FileRec /\ c.accesses = f.accesses /\ c.name = f.name
      BY <1>2, DirectCloseKeeps
    <3> HIDE DEF c
    <3>2. /\ [c EXCEPT !.compressor = FALSE] \in FileRec
          /\ [c EXCEPT !.compressor = FALSE].accesses = f.accesses
          /\ [c EXCEPT !.compressor = FALSE].name = f.name
      BY <3>1 DEF FileRec
    <3> QED
      BY <2>1, <2>4, <3>2, OutcomeGood DEF c
  <2> QED
    BY <2>2, <2>3, <2>4 DEF TruncateFirst
<1>5. PICK r \in TruncateFirst(o, f, s) :
         /\ desc' = Reopened(o, r.fd)
         /\ \/ /\ file' = [file EXCEPT ![o] = r.f]
               /\ disk' = [disk EXCEPT ![n] = r.i]
            \/ /\ r.i # Null
               /\ file' = [file EXCEPT ![o] = [r.f EXCEPT !.size = s]]
               /\ \E i \in Truncated(r.i, s) : disk' = [disk EXCEPT ![n] = i]
  BY DEF Truncate
<1>6. GoodOutcome(f, r)
  BY <1>4
<1> DEFINE Like(g) == g \in FileRec /\ g.accesses = file[o].accesses /\ g.name = file[o].name
<1>7. \E g : Like(g) /\ file' = [file EXCEPT ![o] = g]
  <2>1. Like(r.f) /\ Like([r.f EXCEPT !.size = s])
    BY <1>2, <1>3, <1>6 DEF GoodOutcome, FileRec
  <2> HIDE DEF Like
  <2> QED
    BY <1>5, <2>1
<1>8. disk' \in [Name -> Image \cup {Null}]
  <2>1. ASSUME r.i # Null, NEW i \in Truncated(r.i, s) PROVE i \in Image
    <3>1. r.i \in Image
      BY <1>6, <2>1 DEF GoodOutcome
    <3> QED
      BY <1>3, <2>1, <3>1, ZenonT(40) DEF Truncated, Image
  <2> QED
    BY <1>1, <1>5, <1>6, <2>1, DiskUpdate DEF GoodOutcome
<1>9. desc' \in [Desc -> DescRec] /\ \A d \in Desc : desc'[d].file = desc[d].file
  BY <1>5, <1>6, ReopenedKeeps DEF GoodOutcome
<1>10. Return(t)
  BY DEF Truncate
<1> QED
  BY <1>1, <1>7, <1>8, <1>9, <1>10, ReturnInv DEF Truncate, Return

-----------------------------------------------------------------------------
(* Handlers on a descriptor *)

LEMMA UsableFacts ==
    ASSUME IInv, NEW t \in Thread, NEW d \in Desc, NEW op, Usable(t, d, op)
    PROVE  /\ thr[t] = Idle /\ desc[d].file \in live /\ desc[d].file \in Obj
           /\ file[desc[d].file] \in FileRec /\ file[desc[d].file].name \in Name
           /\ owner[desc[d].file] = Null
           /\ PathFree(t, op, {file[desc[d].file].name})
<1>1. thr[t] = Idle
  BY DEF Usable, IInv, Control, ControlOf
<1>2. desc[d].file \in live /\ desc[d].file \in Obj
  BY DEF Usable, IInv, ReferencesLive, TypeOK
<1>3. file[desc[d].file] \in FileRec
  BY <1>2 DEF IInv, TableLive
<1> QED
  BY <1>1, <1>2, <1>3 DEF Usable, FileRec

Working(d, pc, op) ==
    [Idle EXCEPT !.pc = pc, !.op = op, !.desc = d, !.file = desc[d].file, !.name = file[desc[d].file].name]

(* A read or write that adds no reference, and ends or goes on without the  *)
(* lock.                                                                    *)
LEMMA DescriptorStep ==
    ASSUME IInv, NEW t \in Thread, NEW d \in Desc, NEW op \in {"read", "write"}, Usable(t, d, op),
           NEW pc \in {"pwrite", "readfail"}, thr' = thr \/ Later(t, d, pc, op),
           live' = live, database' = database, queue' = queue, bg' = bg, dbOwner' = dbOwner, owner' = owner,
           desc' \in [Desc -> DescRec], \A x \in Desc : desc'[x].file = desc[x].file,
           disk' \in [Name -> Image \cup {Null}],
           NEW g \in FileRec, file' = [file EXCEPT ![desc[d].file] = g],
           g.accesses = file[desc[d].file].accesses, g.name = file[desc[d].file].name
    PROVE  IInv'
<1> DEFINE o == desc[d].file
           r == Working(d, pc, op)
<1>1. /\ thr[t] = Idle /\ o \in live /\ o \in Obj /\ file[o].name \in Name
      /\ PathFree(t, op, {file[o].name})
  BY UsableFacts
<1>2. /\ file' \in [Obj -> FileRec \cup {Null}]
      /\ \A p \in live : /\ file'[p] \in FileRec
                         /\ file'[p].accesses = file[p].accesses
                         /\ file'[p].name = file[p].name
  BY <1>1, FileUpdate
<1>3. /\ r \in ThreadRec /\ r.pc = pc /\ r.op = op /\ r.desc = d /\ r.file = o /\ r.name = file[o].name
      /\ r.other = Null /\ r.from = Null
  BY <1>1 DEF Working, Idle, ThreadRec, Op
<1>4. thr' = thr \/ thr' = [thr EXCEPT ![t] = r]
  BY DEF Later, Working
<1> HIDE DEF r
<1>5. /\ thr' \in [Thread -> ThreadRec] /\ \A u \in Thread \ {t} : thr'[u] = thr[u]
      /\ thr' = thr \/ thr'[t] = r
  BY <1>3, <1>4 DEF IInv, TypeOK
<1>6. TypeOK'
  BY <1>2, <1>5 DEF IInv, TypeOK
<1>7. PathsExclusive'
  <2>1. CASE thr' = thr
    BY <2>1 DEF IInv, PathsExclusive
  <2>2. CASE thr'[t] = r
    <3>1. {thr'[t].name, thr'[t].other} \ {Null} = {file[o].name}
      BY <1>1, <1>3, <2>2, ConstantsAssumption
    <3>2. PathFree(t, op, {thr'[t].name, thr'[t].other} \ {Null}) /\ thr'[t].op = op
      BY <3>1, <1>1, <1>3, <2>2
    <3>3. PathsExclusive
      BY DEF IInv
    <3> QED
      BY <3>2, <3>3, <1>5, PathsTaken
  <2> QED
    BY <1>5, <2>1, <2>2
<1>8. Kept(t)' = Kept(t)
  BY <1>1, <1>3, <1>5 DEF Kept, Idle
<1>9. ControlOf(t)'
  <2>1. ControlOf(t)
    BY DEF IInv, Control
  <2>2. CASE thr' = thr
    BY <1>1, <2>1, <2>2 DEF ControlOf, Idle
  <2>3. CASE thr'[t] = r
    <3>1. dbOwner # t
      BY <1>1, <2>1 DEF ControlOf, Idle
    <3>2. desc'[d].file = o /\ file'[o].name = file[o].name
      BY <1>1, <1>2
    <3>3. r.pc \in {"pwrite", "readfail"} /\ r.op \in {"read", "write"} /\ r.name \in Name
      BY <1>1, <1>3
    <3>4. thr'[t] = r /\ dbOwner' # t /\ desc'[r.desc].file = r.file /\ file'[r.file].name = r.name
      BY <1>3, <2>3, <3>1, <3>2
    <3>5. r.desc \in Desc /\ r.file \in Obj /\ r.from = Null
      BY <1>1, <1>3
    <3> HIDE DEF o
    <3> QED
      BY <3>3, <3>4, <3>5 DEF ControlOf
  <2> QED
    BY <1>5, <2>2, <2>3
<1> QED
  BY <1>2, <1>5, <1>6, <1>7, <1>8, <1>9, QuietStep

(* The size of an entry is no part of its identity.                         *)
LEMMA SizeKeeps ==
    ASSUME NEW f, NEW g \in FileRec, g.accesses = f.accesses, g.name = f.name, NEW s \in CachedSize
    PROVE  /\ [g EXCEPT !.size = s] \in FileRec /\ [g EXCEPT !.size = s].accesses = f.accesses
           /\ [g EXCEPT !.size = s].name = f.name
BY DEF FileRec

LEMMA ReadInv ==
    ASSUME IInv, NEW t \in Thread, NEW d \in Desc, Read(t, d)
    PROVE  IInv'
<1> DEFINE o == desc[d].file
           f == file[o]
           Like(g) == g \in FileRec /\ g.accesses = f.accesses /\ g.name = f.name
<1>1. Usable(t, d, "read") /\ f \in FileRec /\ f.name \in Name
  BY UsableFacts DEF Read
<1>2. PICK r : /\ r = Outcome(FALSE, f, disk[f.name], "same") \/ r \in DoDecompress(o, f)
               /\ disk' = [disk EXCEPT ![f.name] = r.i]
               /\ desc' = Reopened(o, r.fd)
               /\ IF r.ok THEN /\ file' = [file EXCEPT ![o] = [r.f EXCEPT !.size = "unknown"]]
                               /\ UNCHANGED thr
                          ELSE /\ file' = [file EXCEPT ![o] = r.f]
                               /\ Later(t, d, "readfail", "read")
  BY DEF Read
<1>3. GoodOutcome(f, r)
  <2>1. CASE r = Outcome(FALSE, f, disk[f.name], "same")
    <3>1. disk[f.name] \in Image \cup {Null}
      BY <1>1 DEF IInv, TypeOK
    <3> QED
      BY <1>1, <2>1, <3>1, OutcomeGood
  <2>2. CASE r \in DoDecompress(o, f)
    BY <1>1, <2>2, DoDecompressGood
  <2> QED
    BY <1>2, <2>1, <2>2
<1>4. Like(r.f) /\ Like([r.f EXCEPT !.size = "unknown"])
  BY <1>3, SizeKeeps DEF GoodOutcome, CachedSize
<1>5. \E g : Like(g) /\ file' = [file EXCEPT ![o] = g]
  <2> HIDE DEF Like
  <2> QED
    BY <1>2, <1>4
<1>6. disk' \in [Name -> Image \cup {Null}]
  BY <1>1, <1>2, <1>3, DiskUpdate DEF GoodOutcome
<1>7. desc' \in [Desc -> DescRec] /\ \A x \in Desc : desc'[x].file = desc[x].file
  BY <1>2, <1>3, ReopenedKeeps DEF GoodOutcome
<1>8. thr' = thr \/ Later(t, d, "readfail", "read")
  BY <1>2
<1>9. /\ live' = live /\ database' = database /\ queue' = queue /\ bg' = bg
      /\ dbOwner' = dbOwner /\ owner' = owner
  BY Zenon DEF Read
<1> QED
  BY <1>1, <1>5, <1>6, <1>7, <1>8, <1>9, DescriptorStep

LEMMA ReadFailInv ==
    ASSUME IInv, NEW t \in Thread, ReadFail(t)
    PROVE  IInv'
<1> DEFINE o == thr[t].file
           g == [file[o] EXCEPT !.size = "unknown"]
<1>1. thr[t].pc = "readfail" /\ ControlOf(t)
  BY DEF ReadFail, IInv, Control
<1>2. thr[t].from = Null /\ o \in Obj /\ \E d \in Desc : desc[d].file = o
  BY <1>1 DEF ControlOf
<1>3. o \in live
  BY <1>2, ConstantsAssumption DEF IInv, ReferencesLive
<1>4. file[o] \in FileRec
  BY <1>3 DEF IInv, TableLive
<1>5. g \in FileRec /\ g.accesses = file[o].accesses /\ g.name = file[o].name
  BY <1>4 DEF FileRec, CachedSize
<1>6. file' = [file EXCEPT ![o] = g]
  BY DEF ReadFail
<1>7. /\ file' \in [Obj -> FileRec \cup {Null}]
      /\ \A p \in live : /\ file'[p] \in FileRec
                         /\ file'[p].accesses = file[p].accesses
                         /\ file'[p].name = file[p].name
  <2> HIDE DEF g
  <2> QED
    BY <1>2, <1>5, <1>6, FileUpdate
<1> QED
  BY <1>1, <1>2, <1>7, EndOfCall DEF ReadFail, IInv, TypeOK

(* Choosing a compressor, too, leaves name, accesses and length alone.      *)
LEMMA WriteChosenKeeps ==
    ASSUME NEW f \in FileRec, NEW g \in WriteChosen(f)
    PROVE  g \in FileRec /\ g.accesses = f.accesses /\ g.name = f.name
<1>1. PICK c \in {f.compressor, f.name \in Compressible} :
         g = [Discard(f) EXCEPT !.dontcompress = TRUE, !.compressor = c]
  BY Zenon DEF WriteChosen
<1>2. Discard(f) \in FileRec /\ Discard(f).accesses = f.accesses /\ Discard(f).name = f.name
  BY DiscardKeeps
<1>3. c \in BOOLEAN
  <2>1. f.compressor \in BOOLEAN
    BY DEF FileRec
  <2>2. (f.name \in Compressible) \in BOOLEAN
    OBVIOUS
  <2>3. CASE c = f.compressor
    BY <2>1, <2>3
  <2>4. CASE c = (f.name \in Compressible)
    BY <2>2, <2>4
  <2> QED
    BY <2>3, <2>4
<1> QED
  BY <1>1, <1>2, <1>3 DEF FileRec

LEMMA WriteAppendInv ==
    ASSUME IInv, NEW t \in Thread, NEW d \in Desc, WriteAppend(t, d)
    PROVE  IInv'
<1> DEFINE o == desc[d].file
           n == file[o].name
           Like(g) == g \in FileRec /\ g.accesses = file[o].accesses /\ g.name = file[o].name
<1>1. Usable(t, d, "write") /\ file[o] \in FileRec /\ n \in Name
  BY UsableFacts, Zenon DEF WriteAppend
<1>2. disk[n] # Null => disk[n] \in Image
  BY <1>1 DEF IInv, TypeOK
<1>3. PICK f \in WriteChosen(file[o]), s \in Sizes \ {"empty"} :
         \/ /\ disk[n] # Null
            /\ \E i \in Appended(disk[n], s) : disk' = [disk EXCEPT ![n] = i]
            /\ file' = [file EXCEPT ![o] = [f EXCEPT !.size = s]]
         \/ /\ disk[n] # Null
            /\ disk' = [disk EXCEPT ![n].data = Garbage, ![n].packed = TRUE]
            /\ file' = [file EXCEPT ![o] = [f EXCEPT !.size = "unknown"]]
         \/ /\ UNCHANGED disk
            /\ file' = [file EXCEPT ![o] = [f EXCEPT !.size = s]]
  BY Zenon DEF WriteAppend
<1>4. s \in SizeClass /\ s \in CachedSize /\ "unknown" \in CachedSize
  BY ConstantsAssumption DEF CachedSize
<1>5. Like(f)
  BY <1>1, WriteChosenKeeps
<1>6. Like([f EXCEPT !.size = s]) /\ Like([f EXCEPT !.size = "unknown"])
  BY <1>4, <1>5, SizeKeeps
<1>7. \E g : Like(g) /\ file' = [file EXCEPT ![o] = g]
  <2> HIDE DEF Like
  <2> QED
    BY <1>3, <1>6, Zenon
<1>8. disk' \in [Name -> Image \cup {Null}]
  <2>1. ASSUME disk[n] # Null, NEW i \in Appended(disk[n], s) PROVE i \in Image
    <3>1. PICK c \in Data \cup {Garbage}, m \in Time :
             i = [data |-> c, packed |-> TRUE, size |-> s, mtime |-> m]
      BY <2>1 DEF Appended
    <3> QED
      BY <1>4, <3>1 DEF Image
  <2>2. CASE disk[n] # Null /\ \E i \in Appended(disk[n], s) : disk' = [disk EXCEPT ![n] = i]
    BY <1>1, <2>1, <2>2, DiskUpdate
  <2>3. CASE disk[n] # Null /\ disk' = [disk EXCEPT ![n].data = Garbage, ![n].packed = TRUE]
    <3> DEFINE i == [[disk[n] EXCEPT !.data = Garbage] EXCEPT !.packed = TRUE]
    <3>1. i \in Image
      BY <1>2, <2>3, Zenon DEF Image
    <3>2. disk' = [disk EXCEPT ![n] = i]
      BY <1>1, <2>3, Zenon DEF IInv, TypeOK
    <3> HIDE DEF i
    <3> QED
      BY <1>1, <3>1, <3>2, DiskUpdate, Zenon
  <2>4. CASE UNCHANGED disk
    BY <2>4 DEF IInv, TypeOK
  <2> QED
    BY <1>3, <2>2, <2>3, <2>4, Zenon
<1>9. desc' \in [Desc -> DescRec] /\ \A x \in Desc : desc'[x].file = desc[x].file
  <2>1. desc' = desc
    BY Zenon DEF WriteAppend
  <2> QED
    BY <2>1 DEF IInv, TypeOK
<1>10. /\ live' = live /\ database' = database /\ queue' = queue /\ bg' = bg
       /\ dbOwner' = dbOwner /\ owner' = owner /\ thr' = thr
  BY Zenon DEF WriteAppend
<1> QED
  BY <1>1, <1>7, <1>8, <1>9, <1>10, DescriptorStep

LEMMA WriteFallbackInv ==
    ASSUME IInv, NEW t \in Thread, NEW d \in Desc, WriteFallback(t, d)
    PROVE  IInv'
<1> DEFINE o == desc[d].file
           Like(g) == g \in FileRec /\ g.accesses = file[o].accesses /\ g.name = file[o].name
<1>1. Usable(t, d, "write") /\ file[o] \in FileRec /\ file[o].name \in Name
  BY UsableFacts DEF WriteFallback
<1>2. PICK f \in WriteChosen(file[o]) :
         \E r : /\ r = Outcome(FALSE, f, disk[f.name], "same") \/ r \in DoDecompress(o, f)
                /\ disk' = [disk EXCEPT ![f.name] = r.i]
                /\ desc' = Reopened(o, r.fd)
                /\ file' = [file EXCEPT ![o] = [r.f EXCEPT !.size = "unknown"]]
                /\ thr' = thr \/ Later(t, d, "pwrite", "write")
  BY DEF WriteFallback
<1>3. PICK r : /\ r = Outcome(FALSE, f, disk[f.name], "same") \/ r \in DoDecompress(o, f)
               /\ disk' = [disk EXCEPT ![f.name] = r.i]
               /\ desc' = Reopened(o, r.fd)
               /\ file' = [file EXCEPT ![o] = [r.f EXCEPT !.size = "unknown"]]
               /\ thr' = thr \/ Later(t, d, "pwrite", "write")
  BY <1>2
<1>4. Like(f)
  BY <1>1, WriteChosenKeeps
<1>5. GoodOutcome(f, r)
  <2>1. CASE r = Outcome(FALSE, f, disk[f.name], "same")
    <3>1. disk[f.name] \in Image \cup {Null}
      BY <1>1, <1>4 DEF IInv, TypeOK
    <3> QED
      BY <1>4, <2>1, <3>1, OutcomeGood
  <2>2. CASE r \in DoDecompress(o, f)
    BY <1>4, <2>2, DoDecompressGood
  <2> QED
    BY <1>3, <2>1, <2>2
<1>6. Like([r.f EXCEPT !.size = "unknown"])
  BY <1>4, <1>5, SizeKeeps DEF GoodOutcome, CachedSize
<1>7. \E g : Like(g) /\ file' = [file EXCEPT ![o] = g]
  <2> HIDE DEF Like
  <2> QED
    BY <1>3, <1>6
<1>8. disk' \in [Name -> Image \cup {Null}]
  BY <1>1, <1>3, <1>4, <1>5, DiskUpdate DEF GoodOutcome
<1>9. desc' \in [Desc -> DescRec] /\ \A x \in Desc : desc'[x].file = desc[x].file
  BY <1>3, <1>5, ReopenedKeeps DEF GoodOutcome
<1>10. thr' = thr \/ Later(t, d, "pwrite", "write")
  BY <1>3
<1>11. /\ live' = live /\ database' = database /\ queue' = queue /\ bg' = bg
       /\ dbOwner' = dbOwner /\ owner' = owner
  BY Zenon DEF WriteFallback
<1> QED
  BY <1>1, <1>7, <1>8, <1>9, <1>10, <1>11, DescriptorStep

LEMMA WriteRawInv ==
    ASSUME IInv, NEW t \in Thread, NEW d \in Desc, WriteRaw(t, d)
    PROVE  IInv'
<1> DEFINE o == desc[d].file
<1>1. Usable(t, d, "write") /\ file[o] \in FileRec
  BY UsableFacts DEF WriteRaw
<1>2. PICK f \in WriteChosen(file[o]) : file' = [file EXCEPT ![o] = f]
  BY Zenon DEF WriteRaw
<1>3. f \in FileRec /\ f.accesses = file[o].accesses /\ f.name = file[o].name
  BY <1>1, WriteChosenKeeps
<1> QED
  BY <1>1, <1>2, <1>3, DescriptorStep DEF WriteRaw, IInv, TypeOK

LEMMA PwriteInv ==
    ASSUME IInv, NEW t \in Thread, Pwrite(t)
    PROVE  IInv'
<1> DEFINE o == thr[t].file
           n == file[o].name
<1>1. thr[t].pc = "pwrite" /\ ControlOf(t)
  BY Zenon DEF Pwrite, IInv, Control
<1>2. thr[t].from = Null /\ o \in Obj /\ \E d \in Desc : desc[d].file = o
  BY <1>1 DEF ControlOf
<1>3. o \in live
  BY <1>2, ConstantsAssumption DEF IInv, ReferencesLive
<1>4. file[o] \in FileRec /\ n \in Name
  BY <1>3 DEF IInv, TableLive, FileRec
<1>5. /\ file' \in [Obj -> FileRec \cup {Null}]
      /\ \A p \in live : /\ file'[p] \in FileRec
                         /\ file'[p].accesses = file[p].accesses
                         /\ file'[p].name = file[p].name
  <2>1. CASE UNCHANGED file
    BY <2>1 DEF IInv, TypeOK, TableLive
  <2>2. CASE file' = [file EXCEPT ![o].size = "unknown"]
    <3> DEFINE g == [file[o] EXCEPT !.size = "unknown"]
    <3>1. g \in FileRec /\ g.accesses = file[o].accesses /\ g.name = file[o].name
      BY <1>4, SizeKeeps DEF CachedSize
    <3>2. file' = [file EXCEPT ![o] = g]
      BY <2>2
    <3> HIDE DEF g
    <3> QED
      BY <1>2, <3>1, <3>2, FileUpdate
  <2> QED
    BY <2>1, <2>2, Zenon DEF Pwrite
<1>6. disk' \in [Name -> Image \cup {Null}]
  <2>1. CASE UNCHANGED disk
    BY <2>1 DEF IInv, TypeOK
  <2>2. ASSUME disk[n] # Null, NEW s \in Grown(disk[n]), NEW c \in Data, NEW m \in Time,
               disk' = [disk EXCEPT ![n] =
                   IF @.packed THEN [@ EXCEPT !.data = Garbage, !.mtime = m]
                   ELSE [data |-> c, packed |-> FALSE, size |-> s, mtime |-> m]]
        PROVE  disk' \in [Name -> Image \cup {Null}]
    <3>1. disk[n] \in Image
      BY <1>4, <2>2 DEF IInv, TypeOK
    <3>2. s \in SizeClass
      BY ConstantsAssumption DEF Grown
    <3>3. /\ [disk[n] EXCEPT !.data = Garbage, !.mtime = m] \in Image
          /\ [data |-> c, packed |-> FALSE, size |-> s, mtime |-> m] \in Image
      BY <3>1, <3>2 DEF Image
    <3> DEFINE i == IF disk[n].packed THEN [disk[n] EXCEPT !.data = Garbage, !.mtime = m]
                    ELSE [data |-> c, packed |-> FALSE, size |-> s, mtime |-> m]
    <3>4. i \in Image /\ disk' = [disk EXCEPT ![n] = i]
      BY <2>2, <3>3
    <3> HIDE DEF i
    <3> QED
      BY <1>4, <3>4, DiskUpdate
  <2> QED
    BY <2>1, <2>2, Zenon DEF Pwrite
<1> QED
  BY <1>1, <1>2, <1>5, <1>6, EndOfCall, Zenon DEF Pwrite, IInv, TypeOK

LEMMA RenameLockFromInv ==
    ASSUME IInv, NEW t \in Thread, RenameLockFrom(t)
    PROVE  IInv'
<1> DEFINE r == [thr[t] EXCEPT !.pc = "relock2"]
           a == thr[t].from
<1>1. thr[t] \in ThreadRec /\ thr[t].pc = "relock1" /\ ControlOf(t)
  BY DEF IInv, TypeOK, RenameLockFrom, Control
<1>2. a \in live /\ a \in Obj /\ owner[a] = Null /\ thr[t].file \in live
  BY <1>1 DEF ControlOf, RenameLockFrom, IInv, TypeOK
<1>3. /\ r \in ThreadRec /\ r.pc = "relock2"
      /\ r.op = thr[t].op /\ r.name = thr[t].name /\ r.other = thr[t].other
      /\ r.file = thr[t].file /\ r.from = a /\ r.stat = thr[t].stat
  BY <1>1 DEF ThreadRec
<1>4. thr' = [thr EXCEPT ![t] = r] /\ owner' = [owner EXCEPT ![a] = t]
  BY DEF RenameLockFrom
<1> HIDE DEF r
<1>5. thr' \in [Thread -> ThreadRec] /\ thr'[t] = r /\ \A u \in Thread \ {t} : thr'[u] = thr[u]
  BY <1>3, <1>4 DEF IInv, TypeOK
<1>6. /\ owner' \in [Obj -> Thread \cup {Null}] /\ owner'[a] = t
      /\ \A o \in Obj : owner'[o] = owner[o] \/ (o = a /\ owner'[o] = t)
  BY <1>2, <1>4 DEF IInv, TypeOK
<1>7. TypeOK'
  BY <1>5, <1>6 DEF IInv, TypeOK, RenameLockFrom
<1>8. PathsExclusive'
  BY <1>3, <1>5, PathsKept DEF IInv
<1>9. Kept(t)' = Kept(t)
  BY <1>1, <1>3, <1>5 DEF Kept
<1>10. ControlOf(t)'
  BY <1>1, <1>3, <1>5, <1>6 DEF ControlOf, RenameLockFrom
<1> QED
  BY <1>2, <1>5, <1>6, <1>7, <1>8, <1>9, <1>10, QuietStep, ConstantsAssumption
  DEF RenameLockFrom, IInv, TableLive

-----------------------------------------------------------------------------
(* Steps that add or remove references *)

(* A thread that takes no step, or is woken, stays where Control says.      *)
LEMMA OthersStay ==
    ASSUME IInv, TypeOK', ReferencesLive', NEW u \in Thread,
           thr'[u] = thr[u] \/ (thr[u].pc = "wait" /\ thr'[u] = [thr[u] EXCEPT !.pc = "woken"]),
           dbOwner' = u <=> dbOwner = u,
           dbOwner = u => database \subseteq database',
           \A p \in live \cap live' : file'[p].name = file[p].name,
           thr[u].pc \in {"wait", "woken"} /\ thr[u].file \in live' => thr[u].file \in live,
           thr[u].pc \in {"pwrite", "readfail"} => desc'[thr[u].desc].file = desc[thr[u].desc].file,
           \A o \in Obj : owner[o] = u => owner'[o] = u
    PROVE  Kept(u)' = Kept(u) /\ ControlOf(u)'
<1>1. thr[u] \in ThreadRec /\ ControlOf(u)
  BY DEF IInv, TypeOK, Control
<1>2. CASE thr[u].pc = "wait" /\ thr'[u] = [thr[u] EXCEPT !.pc = "woken"]
  <2> DEFINE r == [thr[u] EXCEPT !.pc = "woken"]
  <2>1. /\ r.pc = "woken"
        /\ r.op = thr[u].op /\ r.name = thr[u].name /\ r.other = thr[u].other
        /\ r.file = thr[u].file /\ r.from = thr[u].from /\ r.stat = thr[u].stat
    BY <1>1 DEF ThreadRec
  <2>2. thr'[u] = r /\ thr[u].pc = "wait"
    BY <1>2
  <2> HIDE DEF r
  <2>3. Kept(u)' = Kept(u)
    BY <2>1, <2>2 DEF Kept
  <2>4. thr[u].from # Null => thr[u].from \in live \cap live'
    BY <2>3 DEF Kept, IInv, ReferencesLive
  <2>5. thr[u].op = "rename2" => thr[u].from \in live' /\ file'[thr[u].from].name = thr[u].other
    BY <1>1, <2>4 DEF ControlOf
  <2>6. thr[u].file \in Obj /\ (thr[u].file \in live' => file'[thr[u].file].name = thr[u].name)
    BY <1>1, <2>2 DEF ControlOf
  <2>7. ControlOf(u)'
    BY <1>1, <2>1, <2>2, <2>5, <2>6 DEF ControlOf
  <2> QED
    BY <2>3, <2>7
<1>3. CASE thr'[u] = thr[u]
  <2>1. Kept(u)' = Kept(u)
    BY <1>3 DEF Kept
  <2>2. thr[u].op = "rename2" => thr[u].from \in live' /\ file'[thr[u].from].name = thr[u].other
    <3>1. thr[u].from # Null => thr[u].from \in live \cap live'
      BY <2>1 DEF Kept, IInv, ReferencesLive
    <3> QED
      BY <1>1, <3>1 DEF ControlOf
  <2>3. thr[u].pc \in {"wait", "woken"} =>
           thr[u].file \in Obj /\ (thr[u].file \in live' => file'[thr[u].file].name = thr[u].name)
    BY <1>1 DEF ControlOf
  <2>4. thr[u].pc = "locked" =>
           /\ thr[u].file \in live' /\ file'[thr[u].file].name = thr[u].name
           /\ owner'[thr[u].file] = u
    <3> HAVE thr[u].pc = "locked"
    <3>1. thr[u].file \in live /\ thr[u].file \in Obj /\ owner'[thr[u].file] = u
      BY <1>1 DEF ControlOf, IInv, TypeOK
    <3>2. thr[u].file \in live'
      BY <3>1, ConstantsAssumption DEF ReferencesLive
    <3> QED
      BY <1>1, <3>1, <3>2 DEF ControlOf
  <2>5. thr[u].pc \in {"relock1", "relock2"} =>
           thr[u].file \in live' /\ file'[thr[u].file].name = thr[u].name
    <3> HAVE thr[u].pc \in {"relock1", "relock2"}
    <3>1. thr[u].file \in live /\ thr[u].file # Null
      BY <1>1, ConstantsAssumption DEF ControlOf, IInv, TypeOK
    <3>2. thr[u].file \in Kept(u)
      BY <3>1 DEF Kept
    <3>3. thr[u].file \in live'
      BY <2>1, <3>2 DEF ReferencesLive
    <3> QED
      BY <1>1, <3>1, <3>3 DEF ControlOf
  <2>6. thr[u].pc = "relock2" => owner'[thr[u].from] = u
    <3>1. thr[u].pc = "relock2" => thr[u].from \in Obj
      BY <1>1 DEF ControlOf, IInv, TypeOK
    <3> QED
      BY <1>1, <3>1 DEF ControlOf
  <2>7. thr[u].pc \in {"pwrite", "readfail"} =>
           desc'[thr[u].desc].file = thr[u].file /\ file'[thr[u].file].name = thr[u].name
    <3> HAVE thr[u].pc \in {"pwrite", "readfail"}
    <3>1. /\ thr[u].desc \in Desc /\ thr[u].file \in Obj
          /\ desc[thr[u].desc].file = thr[u].file /\ file[thr[u].file].name = thr[u].name
      BY <1>1 DEF ControlOf
    <3>2. thr[u].file \in live
      BY <3>1, ConstantsAssumption DEF IInv, ReferencesLive
    <3>3. thr[u].file \in live'
      BY <3>1, ConstantsAssumption DEF ReferencesLive
    <3> QED
      BY <3>1, <3>2, <3>3
  <2>8. thr[u].pc = "purge" => thr[u].walk \subseteq database'
    BY <1>1 DEF ControlOf
  <2>9. ControlOf(u)'
    BY <1>1, <1>3, <2>2, <2>3, <2>4, <2>5, <2>6, <2>7, <2>8 DEF ControlOf
  <2> QED
    BY <2>1, <2>9
<1> QED
  BY <1>2, <1>3

(* The references to an entry are finitely many.                            *)
LEMMA CountsFinite ==
    ASSUME IInv, NEW o
    PROVE  /\ IsFiniteSet(DescOf(o)) /\ Cardinality(DescOf(o)) \in Nat
           /\ IsFiniteSet(QueuedOf(o)) /\ Cardinality(QueuedOf(o)) \in Nat
           /\ IsFiniteSet(KeepersOf(o)) /\ Cardinality(KeepersOf(o)) \in Nat
           /\ BgOf(o) \in {0, 1} /\ QueuedOf(o) = Refs(queue, o)
<1>1. DescOf(o) \in SUBSET Desc /\ KeepersOf(o) \in SUBSET Thread
  BY DEF DescOf, KeepersOf
<1>2. IsFiniteSet(DescOf(o)) /\ IsFiniteSet(KeepersOf(o))
  BY <1>1, FS_Subset, FiniteAssumption
<1>3. QueuedOf(o) = Refs(queue, o)
  BY DEF QueuedOf, Refs
<1>4. queue \in Seq(QueueEntry)
  BY DEF IInv, TypeOK, QueueEntry
<1>5. BgOf(o) \in {0, 1}
  BY DEF BgOf
<1> QED
  BY <1>2, <1>3, <1>4, <1>5, RefsFinite, FS_CardinalityType

(* Nothing refers to an address that is not allocated, ...                  *)
LEMMA NoReference ==
    ASSUME IInv, NEW o \in Obj, o \notin live
    PROVE  DescOf(o) = {} /\ QueuedOf(o) = {} /\ BgOf(o) = 0 /\ KeepersOf(o) = {} /\ owner[o] = Null
BY ConstantsAssumption DEF IInv, ReferencesLive, DescOf, QueuedOf, BgOf, KeepersOf

(* ... nor to an entry whose accesses are zero.                             *)
LEMMA Unused ==
    ASSUME IInv, NEW o \in live, file[o].accesses = 0
    PROVE  DescOf(o) = {} /\ QueuedOf(o) = {} /\ BgOf(o) = 0 /\ KeepersOf(o) = {}
<1>1. 0 = Cardinality(DescOf(o)) + Cardinality(QueuedOf(o)) + BgOf(o) + Cardinality(KeepersOf(o))
  BY DEF IInv, AccessesExact
<1>2. /\ Cardinality(DescOf(o)) = 0 /\ Cardinality(QueuedOf(o)) = 0
      /\ BgOf(o) = 0 /\ Cardinality(KeepersOf(o)) = 0
  BY <1>1, CountsFinite
<1> QED
  BY <1>2, CountsFinite, FS_EmptySet

(* A step of thread t that may add or remove references.                    *)
LEMMA ThreadStep ==
    ASSUME IInv, TypeOK', TableLive', ReferencesLive', AccessesExact', PathsExclusive', bg' = bg,
           NEW t \in Thread, ControlOf(t)',
           database \subseteq database' \/ dbOwner = t,
           \A p \in live \cap live' : file'[p].name = file[p].name,
           \A u \in Thread \ {t} :
              /\ thr'[u] = thr[u] /\ (dbOwner' = u <=> dbOwner = u)
              /\ thr[u].pc \in {"wait", "woken"} /\ thr[u].file \in live' => thr[u].file \in live
              /\ thr[u].pc \in {"pwrite", "readfail"} => desc'[thr[u].desc].file = desc[thr[u].desc].file
              /\ \A o \in Obj : owner[o] = u => owner'[o] = u
    PROVE  IInv'
<1>1. \A u \in Thread \ {t} : ControlOf(u)'
  BY OthersStay
<1>2. BgControl'
  BY DEF IInv, BgControl
<1> QED
  BY <1>1, <1>2 DEF IInv, Control

(* Only the count of entry o changes.                                       *)
LEMMA CountsElsewhere ==
    ASSUME AccessesExact, NEW o, live' \subseteq live \cup {o},
           \A p \in live \ {o} :
              /\ file'[p].accesses = file[p].accesses /\ DescOf(p)' = DescOf(p)
              /\ Cardinality(QueuedOf(p)') = Cardinality(QueuedOf(p))
              /\ BgOf(p)' = BgOf(p) /\ KeepersOf(p)' = KeepersOf(p),
           o \in live' => file'[o].accesses = Cardinality(DescOf(o)') + Cardinality(QueuedOf(o)')
                                              + BgOf(o)' + Cardinality(KeepersOf(o)')
    PROVE  AccessesExact'
BY DEF AccessesExact

LEMMA DirectNewFileInv ==
    ASSUME IInv, NEW t \in Thread, NEW o \in Obj, DirectNewFile(t, o)
    PROVE  IInv'
<1> DEFINE r == [[[thr[t] EXCEPT !.pc = "locked"] EXCEPT !.file = o] EXCEPT !.walk = {}]
<1>1. thr[t] \in ThreadRec /\ thr[t].pc \in {"scan", "purge"} /\ ControlOf(t)
  BY DEF IInv, TypeOK, DirectNewFile, Control
<1>2. /\ dbOwner = t /\ dbOwner' = Null /\ t # Null /\ o \notin live /\ o # Null /\ thr[t].name \in Name
      /\ live' = live \cup {o} /\ database' = database \cup {o}
      /\ queue' = queue /\ desc' = desc /\ disk' = disk /\ bg' = bg
      /\ \A u \in Thread : thr[u].file # o
  BY <1>1, ConstantsAssumption DEF ControlOf, DirectNewFile
<1>3. /\ r \in ThreadRec /\ r.pc = "locked" /\ r.file = o
      /\ r.op = thr[t].op /\ r.name = thr[t].name /\ r.other = thr[t].other
      /\ r.from = thr[t].from /\ r.stat = thr[t].stat
  BY <1>1 DEF ThreadRec
<1>4. thr' = [thr EXCEPT ![t] = r] /\ owner' = [owner EXCEPT ![o] = t]
  BY DEF DirectNewFile, IInv, TypeOK
<1>5. PICK g \in FileRec : /\ file' = [file EXCEPT ![o] = g]
                           /\ g.name = thr[t].name /\ g.accesses = 0
  <2>1. PICK dd \in BOOLEAN : file' = [file EXCEPT ![o] =
                     [name |-> thr[t].name, deleted |-> FALSE, accesses |-> 0,
                      size |-> "unknown", compressor |-> FALSE, dontcompress |-> FALSE,
                      deduped |-> dd, status |-> {}]]
    BY DEF DirectNewFile
  <2> DEFINE g == [name |-> thr[t].name, deleted |-> FALSE, accesses |-> 0,
                   size |-> "unknown", compressor |-> FALSE, dontcompress |-> FALSE,
                   deduped |-> dd, status |-> {}]
  <2>2. g \in FileRec /\ g.name = thr[t].name /\ g.accesses = 0
    BY <1>2 DEF FileRec, CachedSize
  <2> QED
    BY <2>1, <2>2
<1> HIDE DEF r
<1>6. thr' \in [Thread -> ThreadRec] /\ thr'[t] = r /\ \A u \in Thread \ {t} : thr'[u] = thr[u]
  BY <1>3, <1>4 DEF IInv, TypeOK
<1>7. /\ file' \in [Obj -> FileRec \cup {Null}] /\ file'[o] = g
      /\ \A p \in live : file'[p] = file[p]
  BY <1>2, <1>5 DEF IInv, TypeOK
<1>8. /\ owner' \in [Obj -> Thread \cup {Null}] /\ owner'[o] = t
      /\ \A p \in Obj \ {o} : owner'[p] = owner[p]
  BY <1>4 DEF IInv, TypeOK
<1>9. TypeOK'
  BY <1>2, <1>6, <1>7, <1>8 DEF IInv, TypeOK
<1>10. PathsExclusive'
  BY <1>3, <1>6, PathsKept DEF IInv
<1>11. \A u \in Thread : Kept(u)' = Kept(u)
  BY <1>1, <1>3, <1>6 DEF Kept
<1>12. TableLive'
  BY <1>2, <1>5, <1>7 DEF IInv, TableLive
<1>13. ReferencesLive'
  BY <1>2, <1>8, <1>11 DEF IInv, ReferencesLive
<1>14. AccessesExact'
  <2>1. \A p : /\ DescOf(p)' = DescOf(p) /\ QueuedOf(p)' = QueuedOf(p)
               /\ BgOf(p)' = BgOf(p) /\ KeepersOf(p)' = KeepersOf(p)
    BY <1>2, <1>11 DEF DescOf, QueuedOf, BgOf, KeepersOf
  <2>2. file'[o].accesses = Cardinality(DescOf(o)') + Cardinality(QueuedOf(o)')
                            + BgOf(o)' + Cardinality(KeepersOf(o)')
    BY <1>2, <1>5, <1>7, <2>1, NoReference, FS_EmptySet
  <2>3. AccessesExact /\ live' \subseteq live \cup {o}
    BY <1>2 DEF IInv
  <2> QED
    BY <1>7, <2>1, <2>2, <2>3, CountsElsewhere
<1>15. ControlOf(t)'
  <2>1. thr[t].op = "rename2" => thr[t].from \in live' /\ file'[thr[t].from].name = thr[t].other
    BY <1>1, <1>2, <1>7 DEF ControlOf
  <2> QED
    BY <1>1, <1>2, <1>3, <1>5, <1>6, <1>7, <1>8, <2>1 DEF ControlOf
<1>16. \A u \in Thread \ {t} : dbOwner' = u <=> dbOwner = u
  BY <1>2, ConstantsAssumption
<1>17. \A u \in Thread \ {t}, p \in Obj : owner[p] = u => owner'[p] = u
  BY <1>2, <1>8, NoReference, ConstantsAssumption
<1>18. \A p \in live \cap live' : file'[p].name = file[p].name
  BY <1>7
<1>19. \A u \in Thread : thr[u].file \in live' => thr[u].file \in live
  BY <1>2
<1> QED
  BY <1>2, <1>6, <1>9, <1>10, <1>12, <1>13, <1>14, <1>15, <1>16, <1>17, <1>18, <1>19, ThreadStep

LEMMA PurgeEntryInv ==
    ASSUME IInv, NEW t \in Thread, NEW o \in Obj, PurgeEntry(t, o)
    PROVE  IInv'
<1> DEFINE r == [thr[t] EXCEPT !.walk = @ \ {o}]
<1>1. thr[t] \in ThreadRec /\ thr[t].pc = "purge" /\ ControlOf(t) /\ o \in thr[t].walk
  BY DEF IInv, TypeOK, PurgeEntry, Control
<1>2. /\ dbOwner = t /\ o \in database /\ o \in live /\ file[o] \in FileRec /\ thr[t].walk \subseteq database
      /\ dbOwner' = dbOwner /\ owner' = owner /\ desc' = desc /\ disk' = disk /\ bg' = bg
  BY <1>1 DEF ControlOf, PurgeEntry, IInv, TableLive
<1>3. /\ r \in ThreadRec /\ r.pc = "purge" /\ r.file = thr[t].file /\ r.walk = thr[t].walk \ {o}
      /\ r.op = thr[t].op /\ r.name = thr[t].name /\ r.other = thr[t].other
      /\ r.from = thr[t].from /\ r.stat = thr[t].stat
  BY <1>1 DEF ThreadRec
<1>4. thr' = [thr EXCEPT ![t] = r]
  BY DEF PurgeEntry
<1> HIDE DEF r
<1>5. thr' \in [Thread -> ThreadRec] /\ thr'[t] = r /\ \A u \in Thread \ {t} : thr'[u] = thr[u]
  BY <1>3, <1>4 DEF IInv, TypeOK
<1>6. PathsExclusive'
  BY <1>3, <1>5, PathsKept DEF IInv
<1>7. \A u \in Thread : Kept(u)' = Kept(u)
  BY <1>1, <1>3, <1>5 DEF Kept
<1>8. \A p : DescOf(p)' = DescOf(p) /\ BgOf(p)' = BgOf(p) /\ KeepersOf(p)' = KeepersOf(p)
  BY <1>2, <1>7 DEF DescOf, BgOf, KeepersOf
<1>9. CASE UNCHANGED <<database, live, file, queue>>
  <2>1. TypeOK'
    BY <1>2, <1>5, <1>9 DEF IInv, TypeOK
  <2>2. ControlOf(t)'
    BY <1>1, <1>2, <1>3, <1>5, <1>9 DEF ControlOf
  <2> QED
    BY <1>2, <1>5, <1>6, <1>7, <1>9, <2>1, <2>2, QuietStep DEF IInv, TableLive
<1>10. CASE \E dedup \in BOOLEAN : Enqueue(o, dedup)
  <2>1. PICK dedup \in BOOLEAN : Enqueue(o, dedup)
    BY <1>10
  <2> DEFINE e == [file |-> o, dedup |-> dedup]
             g == [file[o] EXCEPT !.accesses = @ + 1]
  <2>2. e \in QueueEntry /\ e.file = o
    BY DEF QueueEntry
  <2>3. g \in FileRec /\ g.accesses = file[o].accesses + 1 /\ g.name = file[o].name
    BY <1>2 DEF FileRec
  <2>4. queue' = Append(queue, e) /\ file' = [file EXCEPT ![o] = g] /\ live' = live /\ database' = database
    BY <2>1 DEF Enqueue
  <2> HIDE DEF e, g
  <2>5. queue \in Seq(QueueEntry) /\ queue' \in Seq(QueueEntry)
    BY <2>2, <2>4 DEF IInv, TypeOK, QueueEntry
  <2>6. /\ file' \in [Obj -> FileRec \cup {Null}] /\ file'[o] = g
        /\ \A p \in live \ {o} : file'[p] = file[p]
    BY <2>3, <2>4 DEF IInv, TypeOK
  <2>7. TypeOK'
    BY <1>2, <1>5, <2>4, <2>5, <2>6 DEF IInv, TypeOK, QueueEntry
  <2>8. TableLive'
    BY <2>3, <2>4, <2>6 DEF IInv, TableLive
  <2>9. ReferencesLive'
    <3>1. \A i \in 1..Len(queue') : queue'[i].file \in live
      BY <1>2, <2>2, <2>4, <2>5 DEF IInv, ReferencesLive
    <3> QED
      BY <1>2, <1>7, <2>4, <3>1 DEF IInv, ReferencesLive
  <2>10. AccessesExact'
    <3>1. \A p : QueuedOf(p)' = Refs(queue', p) /\ QueuedOf(p) = Refs(queue, p)
      BY DEF QueuedOf, Refs
    <3>2. \A p : Cardinality(QueuedOf(p)') = Cardinality(QueuedOf(p)) + (IF o = p THEN 1 ELSE 0)
      BY <2>2, <2>4, <2>5, <3>1, RefsAppend
    <3>3. \A p : Cardinality(QueuedOf(p)) \in Nat
      BY CountsFinite
    <3>4. \A p \in live \ {o} : Cardinality(QueuedOf(p)') = Cardinality(QueuedOf(p))
      BY <3>2, <3>3
    <3>5. file'[o].accesses = Cardinality(DescOf(o)') + Cardinality(QueuedOf(o)')
                              + BgOf(o)' + Cardinality(KeepersOf(o)')
      <4>1. file[o].accesses = Cardinality(DescOf(o)) + Cardinality(QueuedOf(o))
                               + BgOf(o) + Cardinality(KeepersOf(o))
        BY <1>2 DEF IInv, AccessesExact
      <4> QED
        BY <4>1, <1>8, <2>3, <2>6, <3>2, CountsFinite
    <3>6. AccessesExact /\ live' \subseteq live \cup {o}
      BY <2>4 DEF IInv
    <3> QED
      BY <1>8, <2>6, <3>4, <3>5, <3>6, CountsElsewhere
  <2>11. \A p \in live \cap live' : file'[p].name = file[p].name
    BY <2>3, <2>6
  <2>12. ControlOf(t)'
    BY <1>1, <1>2, <1>3, <1>5, <2>4, <2>11 DEF ControlOf
  <2> QED
    BY <1>2, <1>5, <1>6, <2>4, <2>7, <2>8, <2>9, <2>10, <2>11, <2>12, ThreadStep
<1>11. CASE /\ file[o].accesses = 0 /\ owner[o] = Null
            /\ database' = database \ {o} /\ live' = live \ {o}
            /\ file' = [file EXCEPT ![o] = Null] /\ UNCHANGED queue
  <2>1. /\ file' \in [Obj -> FileRec \cup {Null}]
        /\ \A p \in live \ {o} : file'[p] = file[p]
    BY <1>11 DEF IInv, TypeOK
  <2>2. TypeOK'
    BY <1>2, <1>5, <1>11, <2>1 DEF IInv, TypeOK
  <2>3. TableLive'
    BY <1>11, <2>1 DEF IInv, TableLive
  <2>4. DescOf(o) = {} /\ QueuedOf(o) = {} /\ BgOf(o) = 0 /\ KeepersOf(o) = {}
    BY <1>2, <1>11, Unused
  <2>5. ReferencesLive'
    <3>1. \A d \in Desc : desc[d].file # o
      BY <2>4 DEF DescOf
    <3>2. \A i \in 1..Len(queue) : queue[i].file # o
      BY <2>4 DEF QueuedOf
    <3>3. bg.file # o
      BY <2>4 DEF BgOf
    <3>4. \A u \in Thread : o \notin Kept(u)
      BY <2>4 DEF KeepersOf
    <3> QED
      BY <1>2, <1>7, <1>11, <3>1, <3>2, <3>3, <3>4 DEF IInv, ReferencesLive
  <2>6. AccessesExact'
    <3>1. \A p : QueuedOf(p)' = QueuedOf(p)
      BY <1>11 DEF QueuedOf
    <3>2. AccessesExact /\ live' \subseteq live \cup {o} /\ o \notin live'
      BY <1>11 DEF IInv
    <3> QED
      BY <1>8, <2>1, <3>1, <3>2, CountsElsewhere
  <2>7. \A p \in live \cap live' : file'[p].name = file[p].name
    BY <1>11, <2>1
  <2>8. ControlOf(t)'
    <3>1. thr[t].from # Null => thr[t].from \in live'
      BY <1>3, <1>5, <2>5 DEF ReferencesLive, Kept
    <3>2. thr[t].walk \ {o} \subseteq database'
      BY <1>2, <1>11
    <3>3. thr[t].op = "rename2" => thr[t].from \in live' /\ file'[thr[t].from].name = thr[t].other
      BY <1>1, <1>11, <2>7, <3>1 DEF ControlOf
    <3> QED
      BY <1>1, <1>2, <1>3, <1>5, <3>2, <3>3 DEF ControlOf
  <2>9. \A p : p \in live' => p \in live
    BY <1>11
  <2> QED
    BY <1>2, <1>5, <1>6, <2>2, <2>3, <2>5, <2>6, <2>7, <2>8, <2>9, ThreadStep
<1> QED
  BY <1>9, <1>10, <1>11 DEF PurgeEntry, PurgeUnused

LEMMA OpenInv ==
    ASSUME IInv, NEW t \in Thread, NEW d \in Desc, Open(t, d)
    PROVE  IInv'
<1>0. PICK o \in Obj : o = thr[t].file
  BY Holding DEF Open
<1> DEFINE i == disk[thr[t].name]
           e == [file |-> o, fd |-> "ok"]
<1>1. /\ file[o] \in FileRec /\ o \in Obj /\ o \in live /\ thr[t].name \in Name /\ thr[t].from = Null
      /\ thr[t].pc = "locked" /\ owner[o] = t /\ ControlOf(t)
  BY <1>0, Holding DEF Open, IInv, Control
<1>2. /\ i \in Image /\ desc[d].file = Null /\ o # Null /\ t # Null
      /\ desc' = [desc EXCEPT ![d] = e] /\ thr' = [thr EXCEPT ![t] = Idle]
      /\ owner' = [owner EXCEPT ![o] = Null]
      /\ database' = database /\ live' = live /\ dbOwner' = dbOwner /\ queue' = queue
      /\ disk' = disk /\ bg' = bg
  BY <1>0, <1>1, ConstantsAssumption DEF Open, Closed, Return, IInv, TypeOK
<1>3. PICK g \in FileRec : /\ file' = [file EXCEPT ![o] = g]
                           /\ g.name = file[o].name /\ g.accesses = file[o].accesses + 1
  <2>1. PICK f \in {file[thr[t].file], Discard(file[thr[t].file])}, linked \in {FALSE, DedupEnabled} :
          file' = [file EXCEPT ![thr[t].file] =
                     [f EXCEPT !.accesses = @ + 1, !.size = i.size, !.compressor = i.packed,
                               !.dontcompress = @ \/ linked]]
    BY Zenon DEF Open
  <2>2. f \in FileRec /\ f.accesses = file[o].accesses /\ f.name = file[o].name
    BY <1>0, <1>1, DiscardKeeps
  <2>3. f.accesses + 1 \in Nat /\ i.size \in CachedSize /\ i.packed \in BOOLEAN
    BY <1>2, <2>2 DEF FileRec, Image, CachedSize
  <2>4. (f.dontcompress \/ linked) \in BOOLEAN
    OBVIOUS
  <2> DEFINE g == [f EXCEPT !.accesses = @ + 1, !.size = i.size, !.compressor = i.packed,
                            !.dontcompress = @ \/ linked]
  <2>5. g \in FileRec /\ g.name = f.name /\ g.accesses = f.accesses + 1
    BY <2>2, <2>3, <2>4 DEF FileRec
  <2>6. file' = [file EXCEPT ![thr[t].file] = g]
    BY <2>1
  <2> HIDE DEF g
  <2> QED
    BY <1>0, <2>2, <2>5, <2>6
<1>4. e \in DescRec /\ e.file = o
  BY <1>1 DEF DescRec
<1> HIDE DEF e
<1>5. /\ desc' \in [Desc -> DescRec] /\ desc'[d].file = o
      /\ \A x \in Desc \ {d} : desc'[x] = desc[x]
  BY <1>2, <1>4 DEF IInv, TypeOK
<1>6. /\ file' \in [Obj -> FileRec \cup {Null}] /\ file'[o] = g
      /\ \A p \in live \ {o} : file'[p] = file[p]
  BY <1>1, <1>3 DEF IInv, TypeOK
<1>7. Idle \in ThreadRec
  BY DEF Idle, ThreadRec, Op
<1>8. thr' \in [Thread -> ThreadRec] /\ thr'[t] = Idle /\ \A u \in Thread \ {t} : thr'[u] = thr[u]
  BY <1>2, <1>7 DEF IInv, TypeOK
<1>9. /\ owner' \in [Obj -> Thread \cup {Null}]
      /\ \A p \in Obj : owner'[p] = owner[p] \/ (owner[p] = t /\ owner'[p] = Null)
  BY <1>1, <1>2 DEF IInv, TypeOK
<1>10. TypeOK'
  BY <1>2, <1>5, <1>6, <1>8, <1>9 DEF IInv, TypeOK
<1>11. PathsExclusive'
  BY <1>8, PathsKept, ConstantsAssumption DEF IInv, Idle
<1>12. \A u \in Thread : Kept(u)' = Kept(u)
  BY <1>1, <1>8 DEF Kept, Idle
<1>13. TableLive'
  BY <1>2, <1>3, <1>6 DEF IInv, TableLive
<1>14. ReferencesLive'
  BY <1>1, <1>2, <1>5, <1>9, <1>12 DEF IInv, ReferencesLive
<1>15. AccessesExact'
  <2>1. \A p : QueuedOf(p)' = QueuedOf(p) /\ BgOf(p)' = BgOf(p) /\ KeepersOf(p)' = KeepersOf(p)
    BY <1>2, <1>12 DEF QueuedOf, BgOf, KeepersOf
  <2>2. \A p \in live \ {o} : DescOf(p)' = DescOf(p)
    <3> TAKE p \in live \ {o}
    <3>1. p # Null
      BY ConstantsAssumption DEF IInv, TypeOK
    <3> QED
      BY <1>2, <1>5, <3>1 DEF DescOf
  <2>3. DescOf(o)' = DescOf(o) \cup {d} /\ d \notin DescOf(o)
    BY <1>2, <1>5 DEF DescOf
  <2>4. Cardinality(DescOf(o)') = Cardinality(DescOf(o)) + 1
    BY <2>3, CountsFinite, FS_AddElement
  <2>5. file[o].accesses = Cardinality(DescOf(o)) + Cardinality(QueuedOf(o))
                           + BgOf(o) + Cardinality(KeepersOf(o))
    BY <1>1 DEF IInv, AccessesExact
  <2>6. file'[o].accesses = Cardinality(DescOf(o)') + Cardinality(QueuedOf(o)')
                            + BgOf(o)' + Cardinality(KeepersOf(o)')
    BY <1>3, <1>6, <2>1, <2>4, <2>5, CountsFinite
  <2>7. AccessesExact /\ live' \subseteq live \cup {o}
    BY <1>2 DEF IInv
  <2> QED
    BY <1>6, <2>1, <2>2, <2>6, <2>7, CountsElsewhere
<1>16. ControlOf(t)'
  BY <1>1, <1>2, <1>8 DEF ControlOf, Idle
<1>17. \A u \in Thread : thr[u].pc \in {"pwrite", "readfail"} =>
          desc'[thr[u].desc].file = desc[thr[u].desc].file
  <2> TAKE u \in Thread
  <2> HAVE thr[u].pc \in {"pwrite", "readfail"}
  <2>1. thr[u].desc \in Desc /\ desc[thr[u].desc].file \in Obj
    BY DEF IInv, Control, ControlOf
  <2> QED
    BY <1>2, <1>5, <2>1, ConstantsAssumption
<1>18. \A p \in live \cap live' : file'[p].name = file[p].name
  BY <1>3, <1>6
<1>19. \A u \in Thread \ {t}, p \in Obj : owner[p] = u => owner'[p] = u
  BY <1>9
<1> QED
  BY <1>2, <1>8, <1>10, <1>11, <1>13, <1>14, <1>15, <1>16, <1>17, <1>18, <1>19, ThreadStep

LEMMA ReleaseInv ==
    ASSUME IInv, NEW t \in Thread, NEW d \in Desc, Release(t, d)
    PROVE  IInv'
<1>0. PICK o \in Obj : o = desc[d].file
  BY UsableFacts DEF Release
<1> DEFINE f == IF file[desc[d].file].compressor THEN DirectClose(file[desc[d].file])
                ELSE file[desc[d].file]
           g == [f EXCEPT !.accesses = @ - 1]
<1>1. /\ thr[t] = Idle /\ o \in live /\ o \in Obj /\ file[o] \in FileRec
      /\ \A u \in Thread : thr[u].desc # d
  BY <1>0, UsableFacts DEF Release
<1>a. file' = [file EXCEPT ![desc[d].file] = g]
  BY Zenon DEF Release
<1>2. /\ desc' = [desc EXCEPT ![d] = Closed] /\ file' = [file EXCEPT ![o] = g]
      /\ database' = database /\ live' = live /\ owner' = owner /\ dbOwner' = dbOwner /\ queue' = queue
      /\ disk' = disk /\ thr' = thr /\ bg' = bg
  <2> HIDE DEF g
  <2> QED
    BY <1>0, <1>a DEF Release
<1>3. d \in DescOf(o) /\ Cardinality(DescOf(o) \ {d}) = Cardinality(DescOf(o)) - 1
      /\ Cardinality(DescOf(o) \ {d}) \in Nat
  <2>1. d \in DescOf(o)
    BY <1>0 DEF DescOf
  <2> QED
    BY <2>1, CountsFinite, FS_RemoveElement, FS_CardinalityType
<1>4. file[o].accesses = Cardinality(DescOf(o)) + Cardinality(QueuedOf(o))
                         + BgOf(o) + Cardinality(KeepersOf(o))
  BY <1>1 DEF IInv, AccessesExact
<1>5. f \in FileRec /\ f.accesses = file[o].accesses /\ f.name = file[o].name /\ f.accesses - 1 \in Nat
  <2>1. f \in FileRec /\ f.accesses = file[o].accesses /\ f.name = file[o].name
    BY <1>0, <1>1, DirectCloseKeeps
  <2> HIDE DEF f
  <2> QED
    BY <1>3, <1>4, <2>1, CountsFinite
<1>6. g \in FileRec /\ g.accesses = file[o].accesses - 1 /\ g.name = file[o].name
  <2> HIDE DEF f
  <2> QED
    BY <1>5 DEF FileRec
<1> HIDE DEF f, g
<1>7. Closed \in DescRec /\ Closed.file = Null
  BY DEF Closed, DescRec
<1>8. /\ desc' \in [Desc -> DescRec] /\ desc'[d].file = Null
      /\ \A x \in Desc \ {d} : desc'[x] = desc[x]
  BY <1>2, <1>7 DEF IInv, TypeOK
<1>9. /\ file' \in [Obj -> FileRec \cup {Null}] /\ file'[o] = g
      /\ \A p \in live \ {o} : file'[p] = file[p]
  BY <1>1, <1>2, <1>6 DEF IInv, TypeOK
<1>10. TypeOK'
  BY <1>2, <1>8, <1>9 DEF IInv, TypeOK
<1>11. PathsExclusive' /\ \A u \in Thread : Kept(u)' = Kept(u)
  BY <1>2 DEF IInv, PathsExclusive, Kept
<1>12. TableLive'
  BY <1>2, <1>6, <1>9 DEF IInv, TableLive
<1>13. ReferencesLive'
  BY <1>2, <1>8, <1>11 DEF IInv, ReferencesLive
<1>14. AccessesExact'
  <2>1. \A p : QueuedOf(p)' = QueuedOf(p) /\ BgOf(p)' = BgOf(p) /\ KeepersOf(p)' = KeepersOf(p)
    BY <1>2, <1>11 DEF QueuedOf, BgOf, KeepersOf
  <2>2. \A p \in live \ {o} : DescOf(p)' = DescOf(p)
    <3> TAKE p \in live \ {o}
    <3>1. p # Null
      BY ConstantsAssumption DEF IInv, TypeOK
    <3> QED
      BY <1>0, <1>8, <3>1 DEF DescOf
  <2>3. o # Null
    BY <1>1, ConstantsAssumption
  <2>4. DescOf(o)' = DescOf(o) \ {d}
    BY <1>8, <2>3 DEF DescOf
  <2>5. file'[o].accesses = Cardinality(DescOf(o)') + Cardinality(QueuedOf(o)')
                            + BgOf(o)' + Cardinality(KeepersOf(o)')
    BY <1>3, <1>4, <1>6, <1>9, <2>1, <2>4, CountsFinite
  <2>6. AccessesExact /\ live' \subseteq live \cup {o}
    BY <1>2 DEF IInv
  <2> QED
    BY <1>9, <2>1, <2>2, <2>5, <2>6, CountsElsewhere
<1>15. ControlOf(t)'
  <2>1. ControlOf(t)
    BY DEF IInv, Control
  <2> QED
    BY <1>1, <1>2, <2>1 DEF ControlOf, Idle
<1>16. \A u \in Thread : thr[u].pc \in {"pwrite", "readfail"} =>
          desc'[thr[u].desc].file = desc[thr[u].desc].file
  <2> TAKE u \in Thread
  <2> HAVE thr[u].pc \in {"pwrite", "readfail"}
  <2>1. thr[u].desc \in Desc
    BY DEF IInv, Control, ControlOf
  <2> QED
    BY <1>1, <1>8, <2>1
<1>17. \A p \in live \cap live' : file'[p].name = file[p].name
  BY <1>6, <1>9
<1> QED
  BY <1>2, <1>10, <1>11, <1>12, <1>13, <1>14, <1>15, <1>16, <1>17, ThreadStep

(* Thread t, which holds the lock of o, keeps o by an access and unlocks it. *)
LEMMA KeepStep ==
    ASSUME IInv, NEW t \in Thread, NEW o \in live, owner[o] = t, file[o] \in FileRec,
           NEW r \in ThreadRec, thr' = [thr EXCEPT ![t] = r],
           file' = [file EXCEPT ![o].accesses = @ + 1], owner' = [owner EXCEPT ![o] = Null],
           UNCHANGED <<database, live, dbOwner, queue, desc, disk, bg>>,
           o \notin Kept(t), Kept(t)' = Kept(t) \cup {o}, PathsExclusive',
           r.pc \in {"stat", "relock1"}, r.op = "rename2", r.name \in Name,
           r.other \in Name, r.other # r.name,
           r.from \in live, file[r.from].name = r.other,
           r.pc = "relock1" => r.file \in live /\ file[r.file].name = r.name,
           dbOwner # t
    PROVE  IInv'
<1> DEFINE g == [file[o] EXCEPT !.accesses = @ + 1]
<1>1. g \in FileRec /\ g.accesses = file[o].accesses + 1 /\ g.name = file[o].name
  BY DEF FileRec
<1>2. file' = [file EXCEPT ![o] = g]
  OBVIOUS
<1>3. o \in Obj /\ live \subseteq Obj
  BY DEF IInv, TypeOK
<1> HIDE DEF g
<1>4. /\ file' \in [Obj -> FileRec \cup {Null}] /\ file'[o] = g
      /\ \A p \in live \ {o} : file'[p] = file[p]
  BY <1>1, <1>2, <1>3 DEF IInv, TypeOK
<1>5. thr' \in [Thread -> ThreadRec] /\ thr'[t] = r /\ \A u \in Thread \ {t} : thr'[u] = thr[u]
  BY DEF IInv, TypeOK
<1>6. /\ owner' \in [Obj -> Thread \cup {Null}]
      /\ \A p \in Obj : owner'[p] = owner[p] \/ (owner[p] = t /\ owner'[p] = Null)
  BY <1>3 DEF IInv, TypeOK
<1>7. TypeOK'
  BY <1>4, <1>5, <1>6 DEF IInv, TypeOK
<1>8. \A u \in Thread \ {t} : Kept(u)' = Kept(u)
  BY <1>5 DEF Kept
<1>9. TableLive'
  BY <1>1, <1>4 DEF IInv, TableLive
<1>10. ReferencesLive'
  BY <1>6, <1>8 DEF IInv, ReferencesLive
<1>11. AccessesExact'
  <2>1. \A p : QueuedOf(p)' = QueuedOf(p) /\ BgOf(p)' = BgOf(p) /\ DescOf(p)' = DescOf(p)
    BY DEF QueuedOf, BgOf, DescOf
  <2>2. \A p \in live \ {o} : KeepersOf(p)' = KeepersOf(p)
    BY <1>8 DEF KeepersOf
  <2>3. KeepersOf(o)' = KeepersOf(o) \cup {t} /\ t \notin KeepersOf(o)
    BY <1>8 DEF KeepersOf
  <2>4. Cardinality(KeepersOf(o)') = Cardinality(KeepersOf(o)) + 1
    <3> DEFINE K == KeepersOf(o)
    <3>1. IsFiniteSet(K) /\ t \notin K
      BY <2>3, CountsFinite
    <3> HIDE DEF K
    <3>2. Cardinality(K \cup {t}) = Cardinality(K) + 1
      BY <3>1, FS_AddElement
    <3> QED
      BY <2>3, <3>2 DEF K
  <2>5. file[o].accesses = Cardinality(DescOf(o)) + Cardinality(QueuedOf(o))
                           + BgOf(o) + Cardinality(KeepersOf(o))
    BY DEF IInv, AccessesExact
  <2>6. file'[o].accesses = Cardinality(DescOf(o)') + Cardinality(QueuedOf(o)')
                            + BgOf(o)' + Cardinality(KeepersOf(o)')
    BY <1>1, <1>4, <2>1, <2>4, <2>5, CountsFinite
  <2>7. AccessesExact /\ live' \subseteq live \cup {o}
    BY DEF IInv
  <2>8. \A p \in live \ {o} : /\ file'[p].accesses = file[p].accesses /\ DescOf(p)' = DescOf(p)
                              /\ Cardinality(QueuedOf(p)') = Cardinality(QueuedOf(p))
                              /\ BgOf(p)' = BgOf(p) /\ KeepersOf(p)' = KeepersOf(p)
    BY <1>4, <2>1, <2>2
  <2> QED
    BY <2>6, <2>7, <2>8, CountsElsewhere
<1>12. \A p \in live : file'[p].name = file[p].name
  BY <1>1, <1>4
<1>13. ControlOf(t)'
  <2>1. file'[r.from].name = r.other /\ (r.pc = "relock1" => file'[r.file].name = r.name)
    BY <1>12
  <2>2. r.from # Null
    BY <1>3, ConstantsAssumption
  <2> QED
    BY <1>5, <2>1, <2>2 DEF ControlOf
<1>14. \A u \in Thread \ {t}, p \in Obj : owner[p] = u => owner'[p] = u
  BY <1>6
<1> QED
  BY <1>5, <1>7, <1>9, <1>10, <1>11, <1>12, <1>13, <1>14, ThreadStep

Keeping(o, n, m) == [Idle EXCEPT !.pc = "stat", !.op = "rename2", !.from = o, !.name = n, !.other = m]

LEMMA KeepingFields ==
    ASSUME NEW o \in Obj, NEW n \in Name, NEW m \in Name
    PROVE  /\ Keeping(o, n, m) \in ThreadRec
           /\ Keeping(o, n, m).pc = "stat" /\ Keeping(o, n, m).op = "rename2" /\ Keeping(o, n, m).from = o
           /\ Keeping(o, n, m).name = n /\ Keeping(o, n, m).other = m
BY DEF Keeping, Idle, ThreadRec, Op

LEMMA RenameKeepFromInv ==
    ASSUME IInv, NEW t \in Thread, RenameKeepFrom(t)
    PROVE  IInv'
<1>0. PICK o \in live : o = thr[t].file
  BY Holding DEF RenameKeepFrom
<1>1. /\ thr[t] \in ThreadRec /\ ControlOf(t) /\ file[o] \in FileRec /\ owner[o] = t
      /\ thr[t].pc = "locked" /\ thr[t].op = "rename1" /\ thr[t].from = Null
      /\ file[o].name = thr[t].name /\ thr[t].name \in Name /\ o \in Obj
  BY <1>0, Holding DEF RenameKeepFrom, Holds, IInv, Control, TypeOK
<1>2. thr[t].other \in Name /\ thr[t].other # thr[t].name /\ dbOwner # t
  BY <1>1 DEF ControlOf
<1> DEFINE r == Keeping(o, thr[t].other, thr[t].name)
<1>3. /\ r \in ThreadRec /\ r.pc = "stat" /\ r.op = "rename2" /\ r.from = o
      /\ r.name = thr[t].other /\ r.other = thr[t].name
  BY <1>1, <1>2, KeepingFields
<1>4. /\ thr' = [thr EXCEPT ![t] = r]
      /\ file' = [file EXCEPT ![o].accesses = @ + 1] /\ owner' = [owner EXCEPT ![o] = Null]
      /\ UNCHANGED <<database, live, dbOwner, queue, desc, disk, bg>>
  BY <1>0, Zenon DEF RenameKeepFrom, Keeping
<1> HIDE DEF r
<1>5. thr'[t] = r /\ \A u \in Thread \ {t} : thr'[u] = thr[u]
  BY <1>4 DEF IInv, TypeOK
<1>6. PathsExclusive'
  BY <1>1, <1>3, <1>5, PathsKept DEF IInv, Exclusive
<1>7. o \notin Kept(t) /\ Kept(t)' = Kept(t) \cup {o}
  BY <1>1, <1>3, <1>5, ConstantsAssumption DEF Kept
<1> QED
  BY <1>1, <1>2, <1>3, <1>4, <1>6, <1>7, KeepStep

LEMMA RenameKeepToInv ==
    ASSUME IInv, NEW t \in Thread, RenameKeepTo(t)
    PROVE  IInv'
<1>1. thr[t] \in ThreadRec /\ ControlOf(t) /\ thr[t].pc = "locked" /\ thr[t].op = "rename2"
  BY DEF RenameKeepTo, Holds, IInv, Control, TypeOK
<1>0. PICK o \in live : o = thr[t].file
  BY <1>1 DEF ControlOf
<1>2. /\ owner[o] = t /\ file[o].name = thr[t].name /\ thr[t].name \in Name
      /\ thr[t].other \in Name /\ thr[t].other # thr[t].name /\ dbOwner # t
      /\ thr[t].from \in live /\ file[thr[t].from].name = thr[t].other
  BY <1>0, <1>1 DEF ControlOf
<1>3. file[o] \in FileRec /\ o \in Obj /\ o # Null /\ thr[t].from # o
  BY <1>2, ConstantsAssumption DEF IInv, TableLive, TypeOK
<1> DEFINE r == [thr[t] EXCEPT !.pc = "relock1"]
<1>4. /\ r \in ThreadRec /\ r.pc = "relock1" /\ r.op = "rename2" /\ r.from = thr[t].from
      /\ r.file = o /\ r.name = thr[t].name /\ r.other = thr[t].other
  BY <1>0, <1>1 DEF ThreadRec
<1>5. /\ thr' = [thr EXCEPT ![t] = r]
      /\ file' = [file EXCEPT ![o].accesses = @ + 1] /\ owner' = [owner EXCEPT ![o] = Null]
      /\ UNCHANGED <<database, live, dbOwner, queue, desc, disk, bg>>
  BY <1>0 DEF RenameKeepTo
<1> HIDE DEF r
<1>6. thr'[t] = r /\ \A u \in Thread \ {t} : thr'[u] = thr[u]
  BY <1>5 DEF IInv, TypeOK
<1>7. PathsExclusive'
  BY <1>1, <1>4, <1>6, PathsKept DEF IInv
<1>8. o \notin Kept(t) /\ Kept(t)' = Kept(t) \cup {o}
  BY <1>1, <1>3, <1>4, <1>6 DEF Kept
<1> QED
  BY <1>2, <1>3, <1>4, <1>5, <1>7, <1>8, KeepStep

(* The end of a rename, whatever it did to the counts.                      *)
LEMMA RenameEnd ==
    ASSUME IInv, NEW t \in Thread, thr[t].pc = "relock2",
           NEW a \in live, NEW b \in live, thr[t].from = a, thr[t].file = b,
           thr' = [thr EXCEPT ![t] = Idle], owner' = [owner EXCEPT ![a] = Null],
           UNCHANGED <<database, live, dbOwner, bg>>,
           disk' \in [Name -> Image \cup {Null}],
           file' \in [Obj -> FileRec \cup {Null}],
           \A p \in live : file'[p] \in FileRec /\ file'[p].name = file[p].name,
           desc' \in [Desc -> DescRec],
           \A d \in Desc : desc'[d].file = desc[d].file \/ (desc[d].file = a /\ desc'[d].file = b),
           queue' \in Seq(QueueEntry), \A i \in 1..Len(queue') : queue'[i].file \in live,
           AccessesExact'
    PROVE  IInv'
<1>1. thr[t] \in ThreadRec /\ ControlOf(t) /\ a \in Obj
  BY DEF IInv, TypeOK, Control
<1>2. owner[a] = t /\ thr[t].op = "rename2" /\ file[a].name = thr[t].other /\ thr[t].other \in Name
  BY <1>1 DEF ControlOf
<1>3. Idle \in ThreadRec
  BY DEF Idle, ThreadRec, Op
<1>4. thr' \in [Thread -> ThreadRec] /\ thr'[t] = Idle /\ \A u \in Thread \ {t} : thr'[u] = thr[u]
  BY <1>3 DEF IInv, TypeOK
<1>5. /\ owner' \in [Obj -> Thread \cup {Null}]
      /\ \A p \in Obj : owner'[p] = owner[p] \/ (owner[p] = t /\ owner'[p] = Null)
  BY <1>1, <1>2 DEF IInv, TypeOK
<1>6. TypeOK'
  BY <1>4, <1>5 DEF IInv, TypeOK, QueueEntry
<1>7. PathsExclusive'
  BY <1>4, PathsKept, ConstantsAssumption DEF IInv, Idle
<1>8. Kept(t)' = {} /\ \A u \in Thread \ {t} : Kept(u)' = Kept(u)
  BY <1>4 DEF Kept, Idle
<1>9. TableLive'
  BY DEF IInv, TableLive
<1>10. ReferencesLive'
  <2>1. \A d \in Desc : desc'[d].file \in live \cup {Null}
    BY DEF IInv, ReferencesLive
  <2> QED
    BY <1>5, <1>8, <2>1 DEF IInv, ReferencesLive
<1>11. ControlOf(t)'
  BY <1>1, <1>4 DEF ControlOf, Idle
<1>12. ASSUME NEW u \in Thread \ {t}, thr[u].pc \in {"pwrite", "readfail"}
       PROVE  desc'[thr[u].desc].file = desc[thr[u].desc].file
  <2>1. /\ thr[u].desc \in Desc /\ thr[u].op \in {"read", "write"}
        /\ desc[thr[u].desc].file = thr[u].file /\ file[thr[u].file].name = thr[u].name
    BY <1>12 DEF IInv, Control, ControlOf
  <2>2. thr[u].file # a
    <3> SUFFICES ASSUME thr[u].file = a PROVE FALSE
      OBVIOUS
    <3>1. thr[u].name = thr[t].other
      BY <1>2, <2>1
    <3>2. Compatible(thr[t].op, thr[u].op)
      BY <1>2, <3>1 DEF IInv, PathsExclusive
    <3> QED
      BY <1>2, <3>2 DEF Compatible, Exclusive
  <2> QED
    BY <2>1, <2>2
<1>13. \A u \in Thread \ {t}, p \in Obj : owner[p] = u => owner'[p] = u
  BY <1>5
<1> QED
  BY <1>4, <1>6, <1>7, <1>9, <1>10, <1>11, <1>12, <1>13, ThreadStep

LEMMA RenameCommitInv ==
    ASSUME IInv, NEW t \in Thread, RenameCommit(t)
    PROVE  IInv'
<1>1. thr[t] \in ThreadRec /\ thr[t].pc = "relock2" /\ ControlOf(t)
  BY DEF IInv, TypeOK, RenameCommit, Control
<1>2. thr[t].from \in live /\ thr[t].file \in live /\ thr[t].from # thr[t].file
  BY <1>1 DEF ControlOf
<1>3. PICK a \in live, b \in live : a = thr[t].from /\ b = thr[t].file /\ a # b
  BY <1>2
<1>4. PICK n \in Name, m \in Name : n = thr[t].other /\ m = thr[t].name
  BY <1>1 DEF ControlOf
<1>5. /\ thr' = [thr EXCEPT ![t] = Idle] /\ owner' = [owner EXCEPT ![a] = Null]
      /\ UNCHANGED <<database, live, dbOwner, bg>>
      /\ \/ disk' = [disk EXCEPT ![n] = Null, ![m] = disk[n]] /\ DirectRename(a, b)
         \/ /\ file' = [file EXCEPT ![a].accesses = @ - 1, ![b].accesses = @ - 1]
            /\ UNCHANGED <<disk, desc, queue>>
  BY <1>3, <1>4 DEF RenameCommit
<1>6. /\ a \in Obj /\ b \in Obj /\ a # Null /\ b # Null /\ live \subseteq Obj
      /\ file[a] \in FileRec /\ file[b] \in FileRec
  BY ConstantsAssumption DEF IInv, TypeOK, TableLive
<1>7. \A p : BgOf(p)' = BgOf(p)
  BY <1>5 DEF BgOf
<1>8. /\ thr'[t] = Idle /\ \A u \in Thread \ {t} : thr'[u] = thr[u]
      /\ Kept(t) = {a, b} /\ Kept(t)' = {} /\ \A u \in Thread \ {t} : Kept(u)' = Kept(u)
  <2>1. thr'[t] = Idle /\ \A u \in Thread \ {t} : thr'[u] = thr[u]
    BY <1>5 DEF IInv, TypeOK
  <2> QED
    BY <1>1, <1>3, <1>6, <2>1 DEF Kept, Idle
<1>9. /\ \A p \in live \ {a, b} : KeepersOf(p)' = KeepersOf(p)
      /\ \A p \in {a, b} : /\ Cardinality(KeepersOf(p)') = Cardinality(KeepersOf(p)) - 1
                           /\ Cardinality(KeepersOf(p)') \in Nat
  <2>1. \A p \in live \ {a, b} : KeepersOf(p)' = KeepersOf(p)
    BY <1>8 DEF KeepersOf
  <2>2. ASSUME NEW p \in {a, b}
        PROVE  /\ Cardinality(KeepersOf(p)') = Cardinality(KeepersOf(p)) - 1
               /\ Cardinality(KeepersOf(p)') \in Nat
    <3> DEFINE K == KeepersOf(p)
    <3>1. KeepersOf(p)' = K \ {t} /\ t \in K
      BY <1>8 DEF KeepersOf
    <3>2. IsFiniteSet(K)
      BY CountsFinite
    <3> HIDE DEF K
    <3>3. Cardinality(K \ {t}) = Cardinality(K) - 1 /\ Cardinality(K \ {t}) \in Nat
      BY <3>1, <3>2, FS_RemoveElement, FS_CardinalityType
    <3> QED
      BY <3>1, <3>3 DEF K
  <2> QED
    BY <2>1, <2>2
<1>10. /\ \A p \in live : file[p].accesses = Cardinality(DescOf(p)) + Cardinality(QueuedOf(p))
                                            + BgOf(p) + Cardinality(KeepersOf(p))
       /\ \A p \in live : file[p] \in FileRec
  BY DEF IInv, AccessesExact, TableLive
<1>11. CASE /\ file' = [file EXCEPT ![a].accesses = @ - 1, ![b].accesses = @ - 1]
            /\ UNCHANGED <<disk, desc, queue>>
  <2> DEFINE g == [file[a] EXCEPT !.accesses = @ - 1]
             h == [file[b] EXCEPT !.accesses = @ - 1]
  <2>1. file[a].accesses - 1 \in Nat /\ file[b].accesses - 1 \in Nat
    BY <1>9, <1>10, CountsFinite
  <2>2. /\ g \in FileRec /\ g.name = file[a].name /\ g.accesses = file[a].accesses - 1
        /\ h \in FileRec /\ h.name = file[b].name /\ h.accesses = file[b].accesses - 1
    BY <1>6, <2>1 DEF FileRec
  <2>3. file' = [file EXCEPT ![a] = g, ![b] = h]
    BY <1>3, <1>6, <1>11 DEF IInv, TypeOK
  <2> HIDE DEF g, h
  <2>4. /\ file' \in [Obj -> FileRec \cup {Null}] /\ file'[a] = g /\ file'[b] = h
        /\ \A p \in live \ {a, b} : file'[p] = file[p]
    BY <1>3, <1>6, <2>2, <2>3 DEF IInv, TypeOK
  <2>5. \A p \in live : file'[p] \in FileRec /\ file'[p].name = file[p].name
    BY <1>10, <2>2, <2>4
  <2>6. AccessesExact'
    <3>1. \A p : DescOf(p)' = DescOf(p) /\ QueuedOf(p)' = QueuedOf(p)
      BY <1>11 DEF DescOf, QueuedOf
    <3>2. \A p \in live : file'[p].accesses = Cardinality(DescOf(p)') + Cardinality(QueuedOf(p)')
                                            + BgOf(p)' + Cardinality(KeepersOf(p)')
      BY <1>7, <1>9, <1>10, <2>2, <2>4, <3>1, CountsFinite
    <3> QED
      BY <1>5, <3>2 DEF AccessesExact
  <2>7. /\ disk' \in [Name -> Image \cup {Null}] /\ desc' \in [Desc -> DescRec]
        /\ \A d \in Desc : desc'[d].file = desc[d].file
        /\ queue' \in Seq(QueueEntry) /\ \A i \in 1..Len(queue') : queue'[i].file \in live
    BY <1>11 DEF IInv, TypeOK, ReferencesLive, QueueEntry
  <2> QED
    BY <1>1, <1>3, <1>5, <2>4, <2>5, <2>6, <2>7, RenameEnd
<1>12. CASE disk' = [disk EXCEPT ![n] = Null, ![m] = disk[n]] /\ DirectRename(a, b)
  <2> DEFINE moved == Cardinality(DescOf(a)) + Cardinality(QueuedOf(a))
             f == [file[a] EXCEPT !.accesses = @ - 1 - moved]
             h == [file[b] EXCEPT !.accesses = @ - 1 + moved, !.size = file[a].size,
                                  !.compressor = file[a].compressor,
                                  !.dontcompress = file[a].dontcompress,
                                  !.status = file[a].status,
                                  !.deduped = IF DedupEnabled THEN file[a].deduped ELSE @]
  <2>1. /\ file' = [file EXCEPT ![a] = Delete(f), ![b] = h]
        /\ desc' = MovedDesc(a, b) /\ queue' = MovedQueue(a, b)
    BY <1>12, Zenon DEF DirectRename
  <2>2. moved \in Nat /\ file[a].accesses - 1 - moved \in Nat /\ file[b].accesses - 1 + moved \in Nat
    BY <1>9, <1>10, CountsFinite
  <2>3. f \in FileRec /\ f.name = file[a].name /\ f.accesses = file[a].accesses - 1 - moved
    <3> HIDE DEF moved
    <3> QED
      BY <1>6, <2>2 DEF FileRec
  <2>4. h \in FileRec /\ h.name = file[b].name /\ h.accesses = file[b].accesses - 1 + moved
    <3> HIDE DEF moved
    <3>1. (IF DedupEnabled THEN file[a].deduped ELSE file[b].deduped) \in BOOLEAN
      BY <1>6 DEF FileRec
    <3> QED
      BY <1>6, <2>2, <3>1 DEF FileRec
  <2> HIDE DEF f, h
  <2> DEFINE g == Delete(f)
  <2>5. g \in FileRec /\ g.name = file[a].name /\ g.accesses = file[a].accesses - 1 - moved
    <3> HIDE DEF moved
    <3> QED
      BY <2>3, DeleteKeeps
  <2> HIDE DEF g
  <2>6. /\ file' \in [Obj -> FileRec \cup {Null}] /\ file'[a] = g /\ file'[b] = h
        /\ \A p \in live \ {a, b} : file'[p] = file[p]
    <3>1. file' = [file EXCEPT ![a] = g, ![b] = h]
      BY <2>1 DEF g
    <3> QED
      BY <1>3, <1>6, <2>4, <2>5, <3>1 DEF IInv, TypeOK
  <2>7. \A p \in live : file'[p] \in FileRec /\ file'[p].name = file[p].name
    BY <1>10, <2>4, <2>5, <2>6
  <2>8. /\ desc' \in [Desc -> DescRec]
        /\ \A d \in Desc : desc'[d].file = IF desc[d].file = a THEN b ELSE desc[d].file
    <3>1. \A d \in Desc : /\ [desc[d] EXCEPT !.file = b] \in DescRec
                          /\ [desc[d] EXCEPT !.file = b].file = b
      BY <1>6 DEF IInv, TypeOK, DescRec
    <3> QED
      BY <2>1, <3>1 DEF MovedDesc, IInv, TypeOK
  <2>9. /\ queue \in Seq(QueueEntry) /\ queue' \in Seq(QueueEntry) /\ Len(queue') = Len(queue)
        /\ \A i \in 1..Len(queue) : queue'[i].file = IF queue[i].file = a THEN b ELSE queue[i].file
    <3>1. queue \in Seq(QueueEntry) /\ Len(queue) \in Nat
      BY LenProperties DEF IInv, TypeOK, QueueEntry
    <3>2. \A i \in 1..Len(queue) : queue[i] \in QueueEntry
      BY <3>1, ElementOfSeq
    <3>3. \A i \in 1..Len(queue) : /\ [queue[i] EXCEPT !.file = b] \in QueueEntry
                                   /\ [queue[i] EXCEPT !.file = b].file = b
      BY <1>6, <3>2 DEF QueueEntry
    <3>4. queue' \in [1..Len(queue) -> QueueEntry]
      BY <2>1, <3>2, <3>3 DEF MovedQueue
    <3>5. \A i \in 1..Len(queue) : queue'[i].file = IF queue[i].file = a THEN b ELSE queue[i].file
      BY <2>1, <3>3 DEF MovedQueue
    <3>6. queue' \in Seq(QueueEntry) /\ Len(queue') = Len(queue)
      BY <3>1, <3>4, SMT
    <3> QED
      BY <3>1, <3>5, <3>6
  <2>10. /\ DescOf(a)' = {} /\ DescOf(b)' = DescOf(b) \cup DescOf(a) /\ DescOf(b) \cap DescOf(a) = {}
         /\ \A p \in live \ {a, b} : DescOf(p)' = DescOf(p)
    BY <1>3, <2>8 DEF DescOf
  <2>11. /\ QueuedOf(a)' = {} /\ QueuedOf(b)' = QueuedOf(b) \cup QueuedOf(a)
         /\ QueuedOf(b) \cap QueuedOf(a) = {}
         /\ \A p \in live \ {a, b} : QueuedOf(p)' = QueuedOf(p)
    BY <1>3, <2>9 DEF QueuedOf
  <2>12. /\ Cardinality(DescOf(a)') = 0 /\ Cardinality(QueuedOf(a)') = 0
         /\ Cardinality(DescOf(b)') = Cardinality(DescOf(b)) + Cardinality(DescOf(a))
         /\ Cardinality(QueuedOf(b)') = Cardinality(QueuedOf(b)) + Cardinality(QueuedOf(a))
    BY <2>10, <2>11, CountsFinite, CardDisjoint, FS_EmptySet
  <2>13. AccessesExact'
    <3>1. \A p \in live \ {a, b} : file'[p].accesses = Cardinality(DescOf(p)') + Cardinality(QueuedOf(p)')
                                                       + BgOf(p)' + Cardinality(KeepersOf(p)')
      BY <1>7, <1>9, <1>10, <2>6, <2>10, <2>11
    <3>2. file'[a].accesses = Cardinality(DescOf(a)') + Cardinality(QueuedOf(a)')
                              + BgOf(a)' + Cardinality(KeepersOf(a)')
      BY <1>7, <1>9, <1>10, <2>5, <2>6, <2>12, CountsFinite
    <3>3. file'[b].accesses = Cardinality(DescOf(b)') + Cardinality(QueuedOf(b)')
                              + BgOf(b)' + Cardinality(KeepersOf(b)')
      BY <1>7, <1>9, <1>10, <2>4, <2>6, <2>12, CountsFinite
    <3> QED
      BY <1>5, <3>1, <3>2, <3>3 DEF AccessesExact
  <2>14. disk' \in [Name -> Image \cup {Null}]
    BY <1>12 DEF IInv, TypeOK
  <2>15. /\ \A d \in Desc : desc'[d].file = desc[d].file \/ (desc[d].file = a /\ desc'[d].file = b)
         /\ \A i \in 1..Len(queue') : queue'[i].file \in live
    BY <2>8, <2>9 DEF IInv, ReferencesLive
  <2> QED
    BY <1>1, <1>3, <1>5, <2>6, <2>7, <2>8, <2>9, <2>13, <2>14, <2>15, RenameEnd
<1> QED
  BY <1>5, <1>11, <1>12

-----------------------------------------------------------------------------
(* thread_compress() *)

(* What every step of the background thread leaves alone.                   *)
LEMMA BackgroundStep ==
    ASSUME IInv, TypeOK', AccessesExact', BgControl',
           UNCHANGED <<database, live, owner, dbOwner>>,
           \A d \in Desc : desc'[d].file = desc[d].file,
           \A p \in live : file'[p] \in FileRec /\ file'[p].name = file[p].name,
           \A u \in Thread :
              thr'[u] = thr[u] \/ (thr[u].pc = "wait" /\ thr'[u] = [thr[u] EXCEPT !.pc = "woken"]),
           \A i \in 1..Len(queue') : queue'[i].file \in live,
           bg'.file \in live \cup {Null}
    PROVE  IInv'
<1>1. ASSUME NEW u \in Thread
      PROVE  /\ thr'[u].name = thr[u].name /\ thr'[u].other = thr[u].other /\ thr'[u].op = thr[u].op
             /\ Kept(u)' = Kept(u)
  <2>1. thr[u] \in ThreadRec
    BY DEF IInv, TypeOK
  <2>2. CASE thr'[u] = thr[u]
    BY <2>2 DEF Kept
  <2>3. CASE thr[u].pc = "wait" /\ thr'[u] = [thr[u] EXCEPT !.pc = "woken"]
    <3>1. /\ thr'[u].name = thr[u].name /\ thr'[u].other = thr[u].other /\ thr'[u].op = thr[u].op
          /\ thr'[u].from = thr[u].from /\ thr'[u].pc = "woken" /\ thr[u].pc = "wait"
      BY <2>1, <2>3 DEF ThreadRec
    <3> QED
      BY <3>1 DEF Kept
  <2> QED
    BY <2>2, <2>3
<1>2. ReferencesLive'
  BY <1>1 DEF IInv, ReferencesLive
<1>3. PathsExclusive'
  BY <1>1 DEF IInv, PathsExclusive
<1>4. TableLive'
  BY DEF IInv, TableLive
<1>5. ASSUME NEW u \in Thread PROVE ControlOf(u)'
  <2>1. thr[u].pc \in {"pwrite", "readfail"} => desc'[thr[u].desc].file = desc[thr[u].desc].file
    BY DEF IInv, Control, ControlOf
  <2> QED
    BY <1>2, <2>1, OthersStay
<1> QED
  BY <1>2, <1>3, <1>4, <1>5 DEF IInv, Control

(* The file the thread has popped is allocated and its access is counted.   *)
LEMMA Popped ==
    ASSUME IInv, bg.pc # "idle"
    PROVE  /\ bg.file \in live /\ bg.file \in Obj /\ file[bg.file] \in FileRec
           /\ file[bg.file].accesses - 1 \in Nat
<1>1. bg.file \in live /\ bg.file \in Obj /\ file[bg.file] \in FileRec
  BY DEF IInv, BgControl, ReferencesLive, TypeOK, TableLive
<1>2. /\ file[bg.file].accesses = Cardinality(DescOf(bg.file)) + Cardinality(QueuedOf(bg.file))
                                  + BgOf(bg.file) + Cardinality(KeepersOf(bg.file))
      /\ BgOf(bg.file) = 1
  BY <1>1 DEF IInv, AccessesExact, BgOf
<1> QED
  BY <1>1, <1>2, CountsFinite

(* The end of the loop body: the entry may have changed, its access is      *)
(* given back.                                                              *)
LEMMA BackgroundEnd ==
    ASSUME IInv, bg.pc # "idle", NEW f \in FileRec,
           f.accesses = file[bg.file].accesses, f.name = file[bg.file].name,
           file' = [file EXCEPT ![bg.file] = Done(f)],
           bg' = BgIdle, thr' = thr \/ Broadcast(bg.file),
           UNCHANGED <<database, live, owner, dbOwner, queue>>,
           desc' \in [Desc -> DescRec], \A d \in Desc : desc'[d].file = desc[d].file,
           disk' \in [Name -> Image \cup {Null}]
    PROVE  IInv'
<1>1. PICK o \in live : /\ o = bg.file /\ o \in Obj /\ file[o] \in FileRec
                        /\ file[o].accesses - 1 \in Nat
  BY Popped
<1> DEFINE g == Done(f)
<1>2. g \in FileRec /\ g.accesses = file[o].accesses - 1 /\ g.name = file[o].name
  BY <1>1 DEF Done, FileRec
<1> HIDE DEF g
<1>3. /\ file' \in [Obj -> FileRec \cup {Null}] /\ file'[o] = g
      /\ \A p \in live \ {o} : file'[p] = file[p]
  <2>1. file' = [file EXCEPT ![o] = g]
    BY <1>1 DEF g
  <2> QED
    BY <1>1, <1>2, <2>1 DEF IInv, TypeOK
<1>4. \A u \in Thread :
         thr'[u] = thr[u] \/ (thr[u].pc = "wait" /\ thr'[u] = [thr[u] EXCEPT !.pc = "woken"])
  BY DEF Broadcast
<1>5. thr' \in [Thread -> ThreadRec]
  <2>1. \A u \in Thread : thr[u] \in ThreadRec /\ [thr[u] EXCEPT !.pc = "woken"] \in ThreadRec
    <3> TAKE u \in Thread
    <3>1. thr[u] \in ThreadRec
      BY DEF IInv, TypeOK
    <3> QED
      BY <3>1 DEF ThreadRec
  <2>2. CASE thr' = thr
    BY <2>2 DEF IInv, TypeOK
  <2>3. CASE Broadcast(bg.file)
    <3>1. DOMAIN thr' = Thread /\ thr' = [u \in DOMAIN thr' |-> thr'[u]]
      BY <2>3 DEF Broadcast
    <3>2. \A u \in Thread : thr'[u] \in ThreadRec
      BY <1>4, <2>1
    <3> QED
      BY <3>1, <3>2
  <2> QED
    BY <2>2, <2>3
<1>6. BgIdle \in BgRec /\ BgIdle.file = Null /\ BgIdle.pc = "idle"
  BY DEF BgIdle, BgRec
<1>7. TypeOK'
  BY <1>3, <1>5, <1>6 DEF IInv, TypeOK
<1>8. BgControl'
  BY <1>6 DEF BgControl
<1>9. \A u \in Thread : Kept(u)' = Kept(u)
  <2> TAKE u \in Thread
  <2>1. thr[u] \in ThreadRec
    BY DEF IInv, TypeOK
  <2>2. CASE thr'[u] = thr[u]
    BY <2>2 DEF Kept
  <2>3. CASE thr[u].pc = "wait" /\ thr'[u] = [thr[u] EXCEPT !.pc = "woken"]
    <3>1. thr'[u].from = thr[u].from /\ thr'[u].pc = "woken" /\ thr[u].pc = "wait"
      BY <2>1, <2>3 DEF ThreadRec
    <3> QED
      BY <3>1 DEF Kept
  <2> QED
    BY <1>4, <2>2, <2>3
<1>10. AccessesExact'
  <2>1. \A p : DescOf(p)' = DescOf(p) /\ QueuedOf(p)' = QueuedOf(p) /\ KeepersOf(p)' = KeepersOf(p)
    BY <1>9 DEF DescOf, QueuedOf, KeepersOf
  <2>2. BgOf(o) = 1 /\ BgOf(o)' = 0 /\ \A p \in live \ {o} : BgOf(p)' = BgOf(p)
    <3>1. \A p \in live : p # Null
      BY ConstantsAssumption DEF IInv, TypeOK
    <3> QED
      BY <1>1, <1>6, <3>1 DEF BgOf
  <2>3. file[o].accesses = Cardinality(DescOf(o)) + Cardinality(QueuedOf(o))
                           + BgOf(o) + Cardinality(KeepersOf(o))
    BY <1>1 DEF IInv, AccessesExact
  <2>4. file'[o].accesses = Cardinality(DescOf(o)') + Cardinality(QueuedOf(o)')
                            + BgOf(o)' + Cardinality(KeepersOf(o)')
    BY <1>2, <1>3, <2>1, <2>2, <2>3, CountsFinite
  <2>5. AccessesExact /\ live' \subseteq live \cup {o}
    BY DEF IInv
  <2>6. \A p \in live \ {o} : /\ file'[p].accesses = file[p].accesses /\ DescOf(p)' = DescOf(p)
                              /\ Cardinality(QueuedOf(p)') = Cardinality(QueuedOf(p))
                              /\ BgOf(p)' = BgOf(p) /\ KeepersOf(p)' = KeepersOf(p)
    BY <1>3, <2>1, <2>2
  <2> QED
    BY <2>4, <2>5, <2>6, CountsElsewhere
<1>11. \A p \in live : file'[p] \in FileRec /\ file'[p].name = file[p].name
  BY <1>2, <1>3 DEF IInv, TableLive
<1>12. \A i \in 1..Len(queue') : queue'[i].file \in live
  BY DEF IInv, ReferencesLive
<1> QED
  BY <1>4, <1>6, <1>7, <1>8, <1>10, <1>11, <1>12, BackgroundStep

LEMMA BgPopInv ==
    ASSUME IInv, BgPop
    PROVE  IInv'
<1> DEFINE e == Head(queue)
           b == [BgIdle EXCEPT !.pc = "popped", !.file = e.file, !.dedup = e.dedup]
<1>1. /\ bg.pc = "idle" /\ queue # <<>> /\ bg' = b /\ queue' = Tail(queue)
      /\ UNCHANGED <<database, live, file, owner, dbOwner, desc, disk, thr>>
  BY DEF BgPop
<1>2. queue \in Seq(QueueEntry)
  BY DEF IInv, TypeOK, QueueEntry
<1>3. /\ e \in QueueEntry /\ Tail(queue) \in Seq(QueueEntry)
      /\ Len(queue) \in Nat /\ Len(queue) > 0 /\ Len(Tail(queue)) = Len(queue) - 1
      /\ e = queue[1] /\ \A i \in 1..(Len(queue) - 1) : Tail(queue)[i] = queue[i + 1]
  BY <1>1, <1>2, HeadTailProperties, LenProperties, EmptySeq
<1>4. e.file \in Obj /\ e.dedup \in BOOLEAN /\ e.file \in live
  <2>1. 1 \in 1..Len(queue)
    BY <1>3
  <2> QED
    BY <1>3, <2>1 DEF QueueEntry, IInv, ReferencesLive
<1>5. b \in BgRec /\ b.pc = "popped" /\ b.file = e.file
  <2> HIDE DEF e
  <2> QED
    BY <1>4 DEF BgIdle, BgRec
<1> HIDE DEF b
<1>6. TypeOK'
  BY <1>1, <1>3, <1>5 DEF IInv, TypeOK, QueueEntry
<1>7. bg.file = Null /\ e.file # Null
  BY <1>1, <1>4, ConstantsAssumption DEF IInv, BgControl
<1>8. BgControl'
  BY <1>1, <1>5, <1>7 DEF BgControl
<1>9. AccessesExact'
  <2> SUFFICES ASSUME NEW o \in live
               PROVE  file[o].accesses = Cardinality(DescOf(o)') + Cardinality(QueuedOf(o)')
                                         + BgOf(o)' + Cardinality(KeepersOf(o)')
    BY <1>1 DEF AccessesExact
  <2>1. DescOf(o)' = DescOf(o) /\ KeepersOf(o)' = KeepersOf(o)
    BY <1>1 DEF DescOf, KeepersOf, Kept
  <2>2. QueuedOf(o) = Refs(queue, o) /\ QueuedOf(o)' = Refs(Tail(queue), o)
    BY <1>1 DEF QueuedOf, Refs
  <2>3. Cardinality(QueuedOf(o)) = Cardinality(QueuedOf(o)') + (IF e.file = o THEN 1 ELSE 0)
    BY <1>1, <1>2, <2>2, RefsTail
  <2>4. o # Null
    BY ConstantsAssumption DEF IInv, TypeOK
  <2>5. BgOf(o) = 0 /\ BgOf(o)' = IF e.file = o THEN 1 ELSE 0
    BY <1>1, <1>5, <1>7, <2>4 DEF BgOf
  <2>6. file[o].accesses = Cardinality(DescOf(o)) + Cardinality(QueuedOf(o))
                           + BgOf(o) + Cardinality(KeepersOf(o))
    BY DEF IInv, AccessesExact
  <2>7. Cardinality(QueuedOf(o)') \in Nat
    BY <1>3, <2>2, RefsFinite
  <2> HIDE DEF e
  <2> QED
    BY <2>1, <2>3, <2>5, <2>6, <2>7, CountsFinite
<1>10. \A i \in 1..Len(queue') : queue'[i].file \in live
  <2> TAKE i \in 1..Len(queue')
  <2>1. i \in 1..(Len(queue) - 1) /\ i + 1 \in 1..Len(queue) /\ queue'[i] = queue[i + 1]
    BY <1>1, <1>3
  <2> QED
    BY <2>1 DEF IInv, ReferencesLive
<1>11. \A p \in live : file[p] \in FileRec
  BY DEF IInv, TableLive
<1> QED
  BY <1>1, <1>4, <1>5, <1>6, <1>8, <1>9, <1>10, <1>11, BackgroundStep

LEMMA BgSkipInv ==
    ASSUME IInv, BgSkip
    PROVE  IInv'
<1> DEFINE f == IF bg.dedup THEN file[bg.file] ELSE Discard(file[bg.file])
<1>1. bg.pc # "idle" /\ file[bg.file] \in FileRec
  BY Popped DEF BgSkip
<1>2. f \in FileRec /\ f.accesses = file[bg.file].accesses /\ f.name = file[bg.file].name
  BY <1>1, DiscardKeeps
<1>3. file' = [file EXCEPT ![bg.file] = Done(f)]
  <2>1. CASE bg.dedup
    BY <2>1 DEF BgSkip
  <2>2. CASE ~bg.dedup
    BY <2>2 DEF BgSkip, DoneCompress
  <2> QED
    BY <2>1, <2>2
<1> HIDE DEF f
<1> QED
  BY <1>1, <1>2, <1>3, BackgroundEnd DEF BgSkip, IInv, TypeOK

LEMMA BgCompressNotInv ==
    ASSUME IInv, BgCompressNot
    PROVE  IInv'
<1> DEFINE f == file[bg.file]
           i == disk[f.name]
           Like(g) == g \in FileRec /\ g.accesses = f.accesses /\ g.name = f.name
<1>1. bg.pc # "idle" /\ f \in FileRec
  BY Popped DEF BgCompressNot
<1>2. i \in Image \cup {Null}
  BY <1>1 DEF IInv, TypeOK, FileRec
<1>3. Like(Discard(f)) /\ Like(Discard(Delete(f)))
  BY <1>1, DiscardKeeps, DeleteKeeps
<1>4. i # Null => Like(Discard([f EXCEPT !.compressor = TRUE, !.size = i.size]))
  <2> HAVE i # Null
  <2>1. i.size \in CachedSize
    BY <1>2 DEF Image, CachedSize
  <2>2. Like([f EXCEPT !.compressor = TRUE, !.size = i.size])
    BY <1>1, <2>1 DEF FileRec
  <2> QED
    BY <2>2, DiscardKeeps
<1>5. \E g : Like(g) /\ file' = [file EXCEPT ![bg.file] = Done(g)]
  <2> HIDE DEF Like
  <2> QED
    BY <1>3, <1>4 DEF BgCompressNot, DoneCompress
<1> QED
  BY <1>1, <1>5, BackgroundEnd DEF BgCompressNot, IInv, TypeOK

(* Marking the entry.                                                       *)
LEMMA BackgroundMark ==
    ASSUME IInv, bg.pc # "idle", NEW flag \in Flag,
           file' = [file EXCEPT ![bg.file].status = @ \cup {flag}],
           NEW b \in BgRec, bg' = b, b.file = bg.file, b.pc # "idle",
           b.pc = "compressing" => b.data # Null /\ b.mtime # Null,
           UNCHANGED <<database, live, owner, dbOwner, queue, desc, disk, thr>>
    PROVE  IInv'
<1> DEFINE f == file[bg.file]
           g == [f EXCEPT !.status = @ \cup {flag}]
<1>1. f \in FileRec /\ bg.file \in Obj /\ bg.file \in live /\ bg.file # Null
  BY Popped, ConstantsAssumption
<1>2. g \in FileRec /\ g.accesses = f.accesses /\ g.name = f.name
  BY <1>1 DEF FileRec
<1>3. file' = [file EXCEPT ![bg.file] = g]
  OBVIOUS
<1> HIDE DEF g
<1>4. /\ file' \in [Obj -> FileRec \cup {Null}]
      /\ \A p \in live : /\ file'[p] \in FileRec
                         /\ file'[p].accesses = file[p].accesses
                         /\ file'[p].name = file[p].name
  BY <1>1, <1>2, <1>3, FileUpdate
<1>5. TypeOK'
  BY <1>4 DEF IInv, TypeOK
<1>6. AccessesExact'
  <2>1. \A t \in Thread : Kept(t)' = Kept(t)
    BY DEF Kept
  <2>2. AccessesExact /\ live \subseteq Obj
    BY DEF IInv, TypeOK
  <2> QED
    BY <1>4, <2>1, <2>2, CountsKept
<1>7. BgControl'
  BY <1>1 DEF BgControl
<1>8. \A i \in 1..Len(queue') : queue'[i].file \in live
  <2>1. queue' = queue
    OBVIOUS
  <2>2. \A i \in 1..Len(queue) : queue[i].file \in live
    BY DEF IInv, ReferencesLive
  <2> QED
    BY <2>1, <2>2
<1> QED
  BY <1>1, <1>4, <1>5, <1>6, <1>7, <1>8, BackgroundStep

LEMMA BgCompressInv ==
    ASSUME IInv, BgCompress
    PROVE  IInv'
<1> DEFINE i == disk[file[bg.file].name]
           b == [bg EXCEPT !.pc = "compressing", !.data = i.data, !.mtime = i.mtime]
<1>1. bg.pc # "idle" /\ file[bg.file] \in FileRec /\ i # Null
  BY Popped DEF BgCompress
<1>2. i.data \in Data \cup {Garbage} /\ i.mtime \in Time
  BY <1>1 DEF IInv, TypeOK, FileRec, Image
<1>3. i.data # Null /\ i.mtime # Null
  BY <1>2, ConstantsAssumption
<1>4. /\ b \in BgRec /\ b.file = bg.file /\ b.pc = "compressing"
      /\ b.data # Null /\ b.mtime # Null
  <2>1. bg \in BgRec
    BY DEF IInv, TypeOK
  <2> HIDE DEF i
  <2> QED
    BY <1>2, <1>3, <2>1 DEF BgRec
<1>5. bg' = b /\ file' = [file EXCEPT ![bg.file].status = @ \cup {"COMPRESSING"}]
  BY DEF BgCompress
<1> HIDE DEF b
<1> QED
  BY <1>1, <1>4, <1>5, BackgroundMark DEF BgCompress, Flag

LEMMA BgDedupInv ==
    ASSUME IInv, BgDedup
    PROVE  IInv'
<1> DEFINE i == disk[file[bg.file].name]
           data == IF i = Null THEN Null ELSE i.data
           b == [bg EXCEPT !.pc = "hashing", !.data = data]
<1>1. bg.pc # "idle" /\ file[bg.file] \in FileRec
  BY Popped DEF BgDedup
<1>2. data \in Data \cup {Garbage, Null}
  BY <1>1 DEF IInv, TypeOK, FileRec, Image
<1>3. b \in BgRec /\ b.file = bg.file /\ b.pc = "hashing"
  <2>1. bg \in BgRec
    BY DEF IInv, TypeOK
  <2> HIDE DEF data
  <2> QED
    BY <1>2, <2>1 DEF BgRec
<1>4. bg' = b /\ file' = [file EXCEPT ![bg.file].status = @ \cup {"DEDUPING"}]
  BY DEF BgDedup
<1> HIDE DEF b
<1> QED
  BY <1>1, <1>3, <1>4, BackgroundMark DEF BgDedup, Flag

LEMMA BgCompressCancelledInv ==
    ASSUME IInv, BgCompressCancelled
    PROVE  IInv'
<1> DEFINE g == [file[bg.file] EXCEPT !.status = @ \ {"COMPRESSING", "CANCEL"}]
           f == Discard(g)
<1>1. bg.pc # "idle" /\ file[bg.file] \in FileRec
  BY Popped DEF BgCompressCancelled
<1>2. g \in FileRec /\ g.accesses = file[bg.file].accesses /\ g.name = file[bg.file].name
  BY <1>1 DEF FileRec
<1>3. file' = [file EXCEPT ![bg.file] = Done(f)]
  BY DEF BgCompressCancelled, DoneCompress
<1>4. f \in FileRec /\ f.accesses = file[bg.file].accesses /\ f.name = file[bg.file].name
  <2> HIDE DEF g
  <2> QED
    BY <1>2, DiscardKeeps
<1> HIDE DEF f, g
<1> QED
  BY <1>1, <1>3, <1>4, BackgroundEnd DEF BgCompressCancelled, IInv, TypeOK

LEMMA BgCompressFailsInv ==
    ASSUME IInv, BgCompressFails
    PROVE  IInv'
<1> DEFINE g == [file[bg.file] EXCEPT !.status = @ \ {"COMPRESSING"}]
           f == Discard(g)
<1>1. bg.pc # "idle" /\ file[bg.file] \in FileRec
  BY Popped DEF BgCompressFails
<1>2. g \in FileRec /\ g.accesses = file[bg.file].accesses /\ g.name = file[bg.file].name
  BY <1>1 DEF FileRec
<1>3. file' = [file EXCEPT ![bg.file] = Done(f)]
  BY DEF BgCompressFails, DoneCompress
<1>4. f \in FileRec /\ f.accesses = file[bg.file].accesses /\ f.name = file[bg.file].name
  <2> HIDE DEF g
  <2> QED
    BY <1>2, DiscardKeeps
<1> HIDE DEF f, g
<1> QED
  BY <1>1, <1>3, <1>4, BackgroundEnd DEF BgCompressFails, IInv, TypeOK

LEMMA BgCompressCommitInv ==
    ASSUME IInv, BgCompressCommit
    PROVE  IInv'
<1> DEFINE n == file[bg.file].name
           size == IF disk[n] = Null THEN "big" ELSE disk[n].size
           i == [data |-> bg.data, packed |-> TRUE, mtime |-> bg.mtime, size |-> size]
           g == [file[bg.file] EXCEPT !.status = @ \ {"COMPRESSING"}, !.compressor = TRUE, !.size = size]
           f == Discard(g)
<1>1. bg.pc # "idle" /\ file[bg.file] \in FileRec /\ n \in Name
  BY Popped DEF BgCompressCommit, FileRec
<1>2. size \in SizeClass /\ size \in CachedSize
  BY <1>1 DEF IInv, TypeOK, Image, SizeClass, CachedSize
<1>3. bg.data \in Data \cup {Garbage} /\ bg.mtime \in Time
  BY DEF BgCompressCommit, IInv, TypeOK, BgRec, BgControl
<1>4. i \in Image /\ i.size = size
  <2> HIDE DEF size
  <2> QED
    BY <1>2, <1>3 DEF Image
<1>5. g \in FileRec /\ g.accesses = file[bg.file].accesses /\ g.name = file[bg.file].name
  <2> HIDE DEF size
  <2> QED
    BY <1>1, <1>2 DEF FileRec
<1>6. disk' = [disk EXCEPT ![n] = i]
  BY DEF BgCompressCommit
<1>7. disk'[n].size = size
  BY <1>1, <1>4, <1>6 DEF IInv, TypeOK
<1>8. file' = [file EXCEPT ![bg.file] = Done(f)]
  BY <1>7, Zenon DEF BgCompressCommit, DoneCompress
<1>9. f \in FileRec /\ f.accesses = file[bg.file].accesses /\ f.name = file[bg.file].name
  <2> HIDE DEF g
  <2> QED
    BY <1>5, DiscardKeeps
<1>10. disk' \in [Name -> Image \cup {Null}]
  <2> HIDE DEF i
  <2> QED
    BY <1>1, <1>4, <1>6, DiskUpdate
<1>11. desc' \in [Desc -> DescRec] /\ \A d \in Desc : desc'[d].file = desc[d].file
  BY ReplacedKeeps DEF BgCompressCommit
<1> HIDE DEF f, g, i, size
<1> QED
  BY <1>1, <1>8, <1>9, <1>10, <1>11, BackgroundEnd, Zenon DEF BgCompressCommit

LEMMA BgDedupFailsInv ==
    ASSUME IInv, BgDedupFails
    PROVE  IInv'
<1> DEFINE f == [file[bg.file] EXCEPT !.deduped = TRUE]
<1>1. bg.pc # "idle" /\ file[bg.file] \in FileRec
  BY Popped DEF BgDedupFails
<1>2. f \in FileRec /\ f.accesses = file[bg.file].accesses /\ f.name = file[bg.file].name
  BY <1>1 DEF FileRec
<1>3. file' = [file EXCEPT ![bg.file] = Done(f)]
  BY DEF BgDedupFails
<1> HIDE DEF f
<1> QED
  BY <1>1, <1>2, <1>3, BackgroundEnd DEF BgDedupFails, IInv, TypeOK

LEMMA BgDedupCancelledInv ==
    ASSUME IInv, BgDedupCancelled
    PROVE  IInv'
<1> DEFINE f == [file[bg.file] EXCEPT !.status = @ \ {"DEDUPING", "CANCEL"}]
<1>1. bg.pc # "idle" /\ file[bg.file] \in FileRec
  BY Popped DEF BgDedupCancelled
<1>2. f \in FileRec /\ f.accesses = file[bg.file].accesses /\ f.name = file[bg.file].name
  BY <1>1 DEF FileRec
<1>3. file' = [file EXCEPT ![bg.file] = Done(f)]
  BY DEF BgDedupCancelled
<1> HIDE DEF f
<1> QED
  BY <1>1, <1>2, <1>3, BackgroundEnd DEF BgDedupCancelled, IInv, TypeOK

LEMMA BgDedupCommitInv ==
    ASSUME IInv, BgDedupCommit
    PROVE  IInv'
<1> DEFINE n == file[bg.file].name
<1>1. bg.pc # "idle" /\ file[bg.file] \in FileRec /\ n \in Name
  BY Popped, Zenon DEF BgDedupCommit, FileRec
<1>2. CASE /\ file' = [file EXCEPT ![bg.file] = Done([file[bg.file] EXCEPT !.deduped = TRUE,
                                                        !.status = @ \ {"DEDUPING"}])]
           /\ UNCHANGED <<disk, desc>>
  <2> DEFINE f == [file[bg.file] EXCEPT !.deduped = TRUE, !.status = @ \ {"DEDUPING"}]
  <2>1. f \in FileRec /\ f.accesses = file[bg.file].accesses /\ f.name = file[bg.file].name
    BY <1>1 DEF FileRec
  <2>2. file' = [file EXCEPT ![bg.file] = Done(f)]
    BY <1>2
  <2> HIDE DEF f
  <2> QED
    BY <1>1, <1>2, <2>1, <2>2, BackgroundEnd DEF BgDedupCommit, IInv, TypeOK
<1>3. ASSUME NEW m \in Name, disk[n] # Null, disk[m] # Null, disk[m].data = bg.data,
             disk' = [disk EXCEPT ![n].packed = disk[m].packed, ![n].data = bg.data],
             file' = [file EXCEPT ![bg.file] =
                        Done([file[bg.file] EXCEPT !.deduped = TRUE, !.compressor = disk[m].packed,
                                                   !.status = @ \ {"DEDUPING"}])],
             desc' = Replaced(n, Null)
      PROVE  IInv'
  <2> DEFINE f == [file[bg.file] EXCEPT !.deduped = TRUE, !.compressor = disk[m].packed,
                                        !.status = @ \ {"DEDUPING"}]
             i == [[disk[n] EXCEPT !.packed = disk[m].packed] EXCEPT !.data = bg.data]
  <2>1. disk[n] \in Image /\ disk[m].packed \in BOOLEAN /\ bg.data \in Data \cup {Garbage}
    BY <1>1, <1>3 DEF IInv, TypeOK, Image
  <2>2. f \in FileRec /\ f.accesses = file[bg.file].accesses /\ f.name = file[bg.file].name
    BY <1>1, <2>1 DEF FileRec
  <2>3. i \in Image
    BY <2>1 DEF Image
  <2>4. disk' = [disk EXCEPT ![n] = i]
    BY <1>1, <1>3 DEF IInv, TypeOK
  <2>5. file' = [file EXCEPT ![bg.file] = Done(f)]
    BY <1>3
  <2> HIDE DEF f, i
  <2>6. disk' \in [Name -> Image \cup {Null}]
    BY <1>1, <2>3, <2>4, DiskUpdate
  <2>7. desc' \in [Desc -> DescRec] /\ \A d \in Desc : desc'[d].file = desc[d].file
    BY <1>3, ReplacedKeeps
  <2> QED
    BY <1>1, <2>2, <2>5, <2>6, <2>7, BackgroundEnd, Zenon DEF BgDedupCommit
<1> QED
  BY <1>2, <1>3, Zenon DEF BgDedupCommit

-----------------------------------------------------------------------------
(* The invariant *)

LEMMA InitInv == Init => IInv
<1> SUFFICES ASSUME Init PROVE IInv
  OBVIOUS
<1>1. Idle \in ThreadRec /\ Idle.pc = "idle" /\ Idle.from = Null
      /\ Idle.name = Null /\ Idle.other = Null /\ Idle.op = "none"
  BY DEF Idle, ThreadRec, Op
<1>2. BgIdle \in BgRec /\ BgIdle.pc = "idle" /\ BgIdle.file = Null
  BY DEF BgIdle, BgRec
<1>3. Closed \in DescRec /\ Closed.file = Null
  BY DEF Closed, DescRec
<1>4. TypeOK
  <2>1. disk \in [Name -> Image \cup {Null}]
    BY DEF Init
  <2> QED
    BY <1>1, <1>2, <1>3, <2>1 DEF Init, TypeOK
<1>5. TableLive /\ AccessesExact
  BY DEF Init, TableLive, AccessesExact
<1>6. ReferencesLive
  <2>1. \A t \in Thread : Kept(t) = {}
    BY <1>1 DEF Init, Kept
  <2> QED
    BY <1>2, <1>3, <2>1 DEF Init, ReferencesLive
<1>7. Control
  <2> SUFFICES ASSUME NEW t \in Thread PROVE ControlOf(t)
    BY DEF Control
  <2>1. thr[t] = Idle /\ dbOwner = Null /\ t # Null
    BY ConstantsAssumption DEF Init
  <2> QED
    BY <1>1, <2>1 DEF ControlOf
<1>8. PathsExclusive
  BY <1>1, ConstantsAssumption DEF Init, PathsExclusive
<1>9. BgControl
  BY <1>2 DEF Init, BgControl
<1> QED
  BY <1>4, <1>5, <1>6, <1>7, <1>8, <1>9 DEF IInv

LEMMA StutterInv == IInv /\ UNCHANGED vars => IInv'
<1> SUFFICES ASSUME IInv, UNCHANGED vars PROVE IInv'
  OBVIOUS
<1>1. TypeOK' /\ TableLive' /\ BgControl' /\ PathsExclusive'
  BY DEF vars, IInv, TypeOK, TableLive, BgControl, PathsExclusive
<1>2. \A t \in Thread : Kept(t)' = Kept(t)
  BY DEF vars, Kept
<1>3. ReferencesLive'
  BY <1>2 DEF vars, IInv, ReferencesLive
<1>4. AccessesExact'
  BY <1>2, CountsKept DEF vars, IInv, TypeOK
<1>5. Control'
  BY DEF vars, IInv, Control, ControlOf
<1> QED
  BY <1>1, <1>3, <1>4, <1>5 DEF IInv

LEMMA CallStepInv ==
    ASSUME IInv, NEW t \in Thread, CallStep(t)
    PROVE  IInv'
<1>1. ASSUME NEW n \in Name, NEW op \in {"utime", "mknod", "unlink", "truncate", "open"}, Call(t, op, n, Null)
      PROVE  IInv'
  BY <1>1, CallInv DEF Called
<1>2. ASSUME NEW n \in Name, NEW m \in Name, n # m, Call(t, "rename1", n, m)
      PROVE  IInv'
  BY <1>2, CallInv DEF Called
<1>3. ASSUME NEW d \in Desc,
             Read(t, d) \/ WriteAppend(t, d) \/ WriteFallback(t, d) \/ WriteRaw(t, d) \/ Release(t, d)
      PROVE  IInv'
  BY <1>3, ReadInv, WriteAppendInv, WriteFallbackInv, WriteRawInv, ReleaseInv
<1> QED
  BY <1>1, <1>2, <1>3, LstatInv DEF CallStep

LEMMA HandlerStepInv ==
    ASSUME IInv, NEW t \in Thread, HandlerStep(t)
    PROVE  IInv'
<1>1. CASE LockDatabase(t) \/ DirectOpenPurge(t) \/ Rewake(t)
  BY <1>1, LockDatabaseInv, DirectOpenPurgeInv, RewakeInv
<1>2. CASE \E o \in Obj : DirectOpenHit(t, o) \/ DirectNewFile(t, o) \/ PurgeEntry(t, o)
  BY <1>2, DirectOpenHitInv, DirectNewFileInv, PurgeEntryInv
<1>3. CASE Getattr(t) \/ Utime(t) \/ Mknod(t) \/ Unlink(t)
  BY <1>3, GetattrInv, UtimeInv, MknodInv, UnlinkInv
<1>4. CASE \E s \in Sizes : Truncate(t, s)
  BY <1>4, TruncateInv
<1>5. CASE (\E d \in Desc : Open(t, d)) \/ OpenFails(t) \/ OpenLeaksLock(t)
  BY <1>5, OpenInv, OpenFailsInv, OpenLeaksLockInv
<1>6. CASE RenameKeepFrom(t) \/ RenameKeepTo(t) \/ RenameLockFrom(t) \/ RenameCommit(t)
  BY <1>6, RenameKeepFromInv, RenameKeepToInv, RenameLockFromInv, RenameCommitInv
<1>7. CASE ReadFail(t) \/ Pwrite(t)
  BY <1>7, ReadFailInv, PwriteInv
<1> QED
  BY <1>1, <1>2, <1>3, <1>4, <1>5, <1>6, <1>7 DEF HandlerStep

LEMMA BgStepInv ==
    ASSUME IInv, BgStep
    PROVE  IInv'
BY BgPopInv, BgSkipInv, BgCompressNotInv, BgCompressInv, BgCompressCancelledInv, BgCompressCommitInv,
   BgCompressFailsInv, BgDedupInv, BgDedupFailsInv, BgDedupCancelledInv, BgDedupCommitInv DEF BgStep

LEMMA NextInv == IInv /\ [Next]_vars => IInv'
<1> SUFFICES ASSUME IInv, [Next]_vars PROVE IInv'
  OBVIOUS
<1>1. CASE UNCHANGED vars
  BY <1>1, StutterInv
<1>2. CASE BgStep
  BY <1>2, BgStepInv
<1>3. ASSUME NEW t \in Thread, CallStep(t) \/ HandlerStep(t) PROVE IInv'
  BY <1>3, CallStepInv, HandlerStepInv
<1> QED
  BY <1>1, <1>2, <1>3 DEF Next

(* The inductive invariant holds in every reachable state: each thread is   *)
(* where its locks, its paths and its references say, and so the counts of  *)
(* direct_open(), direct_close(), direct_rename() and thread_compress() add *)
(* up.                                                                      *)
THEOREM Invariance == Spec => []IInv
<1>1. Init => IInv
  BY InitInv
<1>2. IInv /\ [Next]_vars => IInv'
  BY NextInv
<1> QED
  BY <1>1, <1>2, PTL DEF Spec

(* Every field of every file_t, descriptor_t and queue entry keeps its type *)
(* (accesses, for one, never goes below zero), whatever the handlers, the   *)
(* purges and the background thread do.                                     *)
THEOREM TypeCorrect == Spec => []TypeOK
<1>1. IInv => TypeOK
  BY DEF IInv
<1> QED
  BY <1>1, Invariance, PTL

(* file->accesses is exactly the number of open descriptors, queue entries, *)
(* the background thread's own entry and renames under way: nothing leaks a *)
(* reference and nothing gives one back twice, for any number of threads    *)
(* and with every system call failing at will.                              *)
THEOREM AccessesAreExact == Spec => []AccessesExact
<1>1. IInv => AccessesExact
  BY DEF IInv
<1> QED
  BY <1>1, Invariance, PTL

(* _direct_open_purge() frees an entry only when no descriptor, no place in *)
(* the queue, no background step, no rename and no lock holder refers to    *)
(* it.  (A thread asleep in direct_open() holds none of these: see          *)
(* NoUseAfterFree.)                                                         *)
THEOREM ReferencesStayLive == Spec => []ReferencesLive
<1>1. IInv => ReferencesLive
  BY DEF IInv
<1> QED
  BY <1>1, Invariance, PTL

=============================================================================
