-------------------------- MODULE Failures_proofs --------------------------
(***************************************************************************)
(* What FileTable keeps except where one particular failure breaks it.     *)
(* Each theorem's hypothesis excludes what is known to break the property  *)
(* (for the sleepers, deduplication, of which any failure leaves a mark;   *)
(* for the images on the disk, two calls besides); everything else may     *)
(* fail.                                                                   *)
(***************************************************************************)
EXTENDS Transparency_proofs

-----------------------------------------------------------------------------
(* Locks.  A handler that holds the lock of an entry is where it gives the  *)
(* lock back: in direct_open()'s caller, or between the two halves of       *)
(* rename().                                                                *)
OwnerHolds(t, o) ==
    \/ thr[t].pc = "locked" /\ thr[t].file = o
    \/ thr[t].pc = "relock2" /\ thr[t].from = o

LockHeld == \A o \in Obj, u \in Thread : owner[o] = u => OwnerHolds(u, o)

(* A step of thread t that leaves the locks alone.                          *)
LEMMA LocksUntouched ==
    ASSUME TypeOK, LockHeld, NEW t \in Thread, owner' = owner,
           thr[t].pc \notin {"locked", "relock2"},
           \A u \in Thread \ {t} : thr'[u] = thr[u]
    PROVE  LockHeld'
<1> SUFFICES ASSUME NEW o \in Obj, NEW u \in Thread, owner[o] = u
             PROVE  OwnerHolds(u, o)'
  BY DEF LockHeld
<1>1. OwnerHolds(u, o)
  BY DEF LockHeld
<1>2. u # t
  BY <1>1 DEF OwnerHolds
<1> QED
  BY <1>1, <1>2 DEF OwnerHolds

(* A step of thread t that locks entry o.                                   *)
LEMMA LockTaken ==
    ASSUME TypeOK, LockHeld, NEW t \in Thread, NEW o \in Obj, owner' = [owner EXCEPT ![o] = t],
           thr[t].pc \notin {"locked", "relock2"},
           \A u \in Thread \ {t} : thr'[u] = thr[u],
           OwnerHolds(t, o)'
    PROVE  LockHeld'
<1> SUFFICES ASSUME NEW p \in Obj, NEW u \in Thread, owner'[p] = u
             PROVE  OwnerHolds(u, p)'
  BY DEF LockHeld
<1>1. CASE p = o
  BY <1>1 DEF TypeOK
<1>2. CASE p # o
  <2>1. OwnerHolds(u, p)
    BY <1>2 DEF TypeOK, LockHeld
  <2>2. u # t
    BY <2>1 DEF OwnerHolds
  <2> QED
    BY <2>1, <2>2 DEF OwnerHolds
<1> QED
  BY <1>1, <1>2

(* A step of thread t that gives back the one lock it holds.                *)
LEMMA LockReturned ==
    ASSUME TypeOK, LockHeld, NEW t \in Thread, NEW o \in Obj, owner' = [owner EXCEPT ![o] = Null],
           thr[t].pc = "locked" => thr[t].file = o,
           thr[t].pc = "relock2" => thr[t].from = o,
           \A u \in Thread \ {t} : thr'[u] = thr[u]
    PROVE  LockHeld'
<1> SUFFICES ASSUME NEW p \in Obj, NEW u \in Thread, owner'[p] = u
             PROVE  OwnerHolds(u, p)'
  BY DEF LockHeld
<1>1. p # o /\ OwnerHolds(u, p)
  BY ConstantsAssumption DEF TypeOK, LockHeld
<1>2. u # t
  BY <1>1 DEF OwnerHolds
<1> QED
  BY <1>1, <1>2 DEF OwnerHolds

LEMMA LockOrWaitLocks ==
    ASSUME TypeOK, LockHeld, NEW t \in Thread, NEW o \in Obj, NEW f, LockOrWait(t, o, f),
           thr[t].pc \notin {"locked", "relock2"}
    PROVE  LockHeld'
<1>1. CASE Stabile(thr[t].op) /\ Busy(f)
  <2>1. owner' = owner /\ \A u \in Thread \ {t} : thr'[u] = thr[u]
    BY <1>1 DEF LockOrWait, TypeOK
  <2> QED
    BY <2>1, LocksUntouched
<1>2. CASE ~(Stabile(thr[t].op) /\ Busy(f))
  <2>1. /\ owner' = [owner EXCEPT ![o] = t] /\ \A u \in Thread \ {t} : thr'[u] = thr[u]
        /\ thr'[t].pc = "locked" /\ thr'[t].file = o
    BY <1>2 DEF LockOrWait, TypeOK, ThreadRec
  <2> QED
    BY <2>1, LockTaken DEF OwnerHolds
<1> QED
  BY <1>1, <1>2

LEMMA CallStepLocks ==
    ASSUME IInv, LockHeld, NEW t \in Thread, CallStep(t)
    PROVE  LockHeld'
<1>1. thr[t].pc = "idle" /\ owner' = owner /\ \A u \in Thread \ {t} : thr'[u] = thr[u]
  <2>1. TypeOK
    BY DEF IInv
  <2>2. ASSUME NEW n, NEW op, NEW m, Call(t, op, n, m) PROVE <1>1!:
    BY <2>1, <2>2 DEF Call, TypeOK
  <2>3. ASSUME NEW n, Lstat(t, n) PROVE <1>1!:
    BY <2>1, <2>3 DEF Lstat, TypeOK
  <2>4. ASSUME NEW d \in Desc, Read(t, d) PROVE <1>1!:
    BY <2>1, <2>4 DEF Read, Usable, Later, TypeOK
  <2>5. ASSUME NEW d \in Desc, WriteAppend(t, d) \/ WriteRaw(t, d) \/ Release(t, d) PROVE <1>1!:
    <3>1. thr[t].pc = "idle" /\ owner' = owner /\ (thr' = thr \/ Later(t, d, "pwrite", "write"))
      BY <2>5, Zenon DEF WriteAppend, WriteRaw, Release, Usable
    <3> QED
      BY <2>1, <3>1 DEF Later, TypeOK
  <2>6. ASSUME NEW d \in Desc, WriteFallback(t, d) PROVE <1>1!:
    BY <2>1, <2>6 DEF WriteFallback, Usable, Later, TypeOK
  <2> QED
    BY <2>2, <2>3, <2>4, <2>5, <2>6 DEF CallStep
<1> QED
  BY <1>1, LocksUntouched DEF IInv

LEMMA HandlerStepLocks ==
    ASSUME IInv, LockHeld, NEW t \in Thread, HandlerStep(t), "io" \notin Failures
    PROVE  LockHeld'
<1> DEFINE others == \A u \in Thread \ {t} : thr'[u] = thr[u]
<1>0. TypeOK /\ thr[t] \in ThreadRec
  BY DEF IInv, TypeOK
<1>1. CASE \/ LockDatabase(t) \/ DirectOpenPurge(t) \/ ReadFail(t) \/ Pwrite(t)
           \/ \E o \in Obj : PurgeEntry(t, o)
  <2>1. thr[t].pc \notin {"locked", "relock2"} /\ owner' = owner /\ others
    <3>1. /\ owner' = owner /\ thr[t].pc \notin {"locked", "relock2"}
          /\ \E r : thr' = [thr EXCEPT ![t] = r]
      <4>1. CASE LockDatabase(t) \/ DirectOpenPurge(t)
        BY <4>1 DEF LockDatabase, DirectOpenPurge
      <4>2. CASE ReadFail(t)
        BY <4>2 DEF ReadFail
      <4>3. CASE Pwrite(t)
        BY <4>3, Zenon DEF Pwrite
      <4>4. CASE \E o \in Obj : PurgeEntry(t, o)
        BY <4>4 DEF PurgeEntry
      <4> QED
        BY <1>1, <4>1, <4>2, <4>3, <4>4
    <3> QED
      BY <1>0, <3>1 DEF TypeOK
  <2> QED
    BY <1>0, <2>1, LocksUntouched
<1>2. CASE Rewake(t)
  <2>1. PICK o, f : /\ thr[t].file = o /\ o \in live
                    /\ thr[t].pc = "woken" /\ LockOrWait(t, o, f)
    BY <1>2 DEF Rewake
  <2> QED
    BY <1>0, <2>1, LockOrWaitLocks DEF TypeOK
<1>3. ASSUME NEW o \in Obj, DirectOpenHit(t, o) PROVE LockHeld'
  <2>1. PICK f : thr[t].pc = "scan" /\ LockOrWait(t, o, f)
    BY <1>3 DEF DirectOpenHit
  <2> QED
    BY <1>0, <2>1, LockOrWaitLocks
<1>4. ASSUME NEW o \in Obj, DirectNewFile(t, o) PROVE LockHeld'
  <2>1. /\ thr[t].pc \notin {"locked", "relock2"} /\ owner' = [owner EXCEPT ![o] = t]
        /\ thr' = [thr EXCEPT ![t].pc = "locked", ![t].file = o, ![t].walk = {}]
    BY <1>4 DEF DirectNewFile
  <2>2. others /\ OwnerHolds(t, o)'
    BY <1>0, <2>1 DEF TypeOK, ThreadRec, OwnerHolds
  <2> QED
    BY <1>0, <2>1, <2>2, LockTaken
<1>5. CASE RenameLockFrom(t)
  <2>1. thr[t].pc = "relock1" /\ thr[t].from \in Obj
    BY <1>0, <1>5 DEF RenameLockFrom, IInv, Control, ControlOf, TypeOK
  <2>2. PICK o \in Obj : o = thr[t].from
    BY <2>1
  <2>3. owner' = [owner EXCEPT ![o] = t] /\ others /\ OwnerHolds(t, o)'
    BY <1>0, <1>5, <2>2 DEF RenameLockFrom, TypeOK, ThreadRec, OwnerHolds
  <2> QED
    BY <1>0, <2>1, <2>3, LockTaken
<1>6. CASE \/ Getattr(t) \/ Utime(t) \/ Mknod(t) \/ Unlink(t) \/ (\E s \in Sizes : Truncate(t, s))
           \/ (\E d \in Desc : Open(t, d)) \/ OpenFails(t)
  <2>1. thr[t].pc = "locked" /\ Return(t)
    BY <1>6, Zenon DEF Getattr, Utime, Mknod, Unlink, Truncate, Open, OpenFails, Holds
  <2>2. PICK o \in Obj : o = thr[t].file
    BY <2>1 DEF IInv, Control, ControlOf, TypeOK
  <2>3. owner' = [owner EXCEPT ![o] = Null] /\ others
    BY <1>0, <2>1, <2>2 DEF Return, TypeOK
  <2> QED
    BY <1>0, <2>1, <2>2, <2>3, LockReturned
<1>7. CASE OpenLeaksLock(t)
  BY <1>7 DEF OpenLeaksLock
<1>8. CASE RenameKeepFrom(t) \/ RenameKeepTo(t)
  <2>1. thr[t].pc = "locked"
    BY <1>8 DEF RenameKeepFrom, RenameKeepTo, Holds
  <2>2. PICK o \in Obj : o = thr[t].file
    BY <2>1 DEF IInv, Control, ControlOf, TypeOK
  <2>3. owner' = [owner EXCEPT ![o] = Null] /\ others
    BY <1>0, <1>8, <2>2 DEF RenameKeepFrom, RenameKeepTo, TypeOK
  <2> QED
    BY <1>0, <2>1, <2>2, <2>3, LockReturned
<1>9. CASE RenameCommit(t)
  <2>1. thr[t].pc = "relock2"
    BY <1>9 DEF RenameCommit
  <2>2. PICK o \in Obj : o = thr[t].from
    BY <2>1 DEF IInv, Control, ControlOf, TypeOK
  <2>3. owner' = [owner EXCEPT ![o] = Null] /\ others
    BY <1>0, <1>9, <2>2 DEF RenameCommit, TypeOK
  <2> QED
    BY <1>0, <2>1, <2>2, <2>3, LockReturned
<1> QED
  BY <1>1, <1>2, <1>3, <1>4, <1>5, <1>6, <1>7, <1>8, <1>9 DEF HandlerStep

(* The background thread only wakes threads that wait.                      *)
LEMMA BgStepWakes ==
    ASSUME TypeOK, BgStep
    PROVE  owner' = owner /\ \A t \in Thread : thr'[t] = thr[t] \/ thr[t].pc = "wait"
<1>1. CASE BgPop \/ BgSkip \/ BgCompressNot \/ BgCompress \/ BgCompressCommit \/ BgCompressFails
           \/ BgDedup \/ BgDedupFails \/ BgDedupCommit
  <2>1. owner' = owner /\ thr' = thr
    BY <1>1, Zenon DEF BgPop, BgSkip, BgCompressNot, BgCompress, BgCompressCommit, BgCompressFails,
           BgDedup, BgDedupFails, BgDedupCommit
  <2> QED
    BY <2>1
<1>2. CASE BgCompressCancelled \/ BgDedupCancelled
  BY <1>2 DEF BgCompressCancelled, BgDedupCancelled, Broadcast
<1> QED
  BY <1>1, <1>2 DEF BgStep

(* A thread that is back in FUSE holds no lock, unless fstat() or the read  *)
(* of a header fails in fusecompress_open().                                *)
THEOREM LocksAreReturned == ASSUME "io" \notin Failures PROVE Spec => []LocksReturned
<1>1. Init => LockHeld
  BY ConstantsAssumption DEF Init, LockHeld
<1>2. IInv /\ LockHeld /\ [Next]_vars => LockHeld'
  <2> SUFFICES ASSUME IInv, LockHeld, [Next]_vars PROVE LockHeld'
    OBVIOUS
  <2>1. CASE UNCHANGED vars
    BY <2>1 DEF vars, LockHeld, OwnerHolds
  <2>2. CASE BgStep
    <3>1. owner' = owner /\ \A t \in Thread : thr'[t] = thr[t] \/ thr[t].pc = "wait"
      BY <2>2, BgStepWakes DEF IInv
    <3> QED
      BY <3>1 DEF LockHeld, OwnerHolds
  <2>3. ASSUME NEW t \in Thread, CallStep(t) \/ HandlerStep(t) PROVE LockHeld'
    BY <2>3, CallStepLocks, HandlerStepLocks
  <2> QED
    BY <2>1, <2>2, <2>3 DEF Next
<1>3. IInv /\ LockHeld => LocksReturned
  BY DEF IInv, TypeOK, LockHeld, OwnerHolds, LocksReturned
<1> QED
  BY <1>1, <1>2, <1>3, Invariance, PTL DEF Spec

-----------------------------------------------------------------------------
(* Descriptors.  There is one entry for a name, and the background thread   *)
(* replaces no file that is open: a descriptor is left on an old inode only *)
(* by a decompression whose rename() fails after the descriptors were       *)
(* closed and opened on the new file.                                       *)
LEMMA ReplacesNone ==
    ASSUME CInv, NEW o \in live, NEW p \in {o, Null}, p = Null => DescOf(o) = {}
    PROVE  Replaced(file[o].name, p) = desc
<1>1. ASSUME NEW d \in Desc, desc[d].file \notin {p, Null} PROVE file[desc[d].file].name # file[o].name
  <2>1. desc[d].file # o
    BY <1>1 DEF DescOf
  <2>2. desc[d].file \in database /\ o \in database
    BY <1>1 DEF CInv, IInv, ReferencesLive, TableWhole
  <2> QED
    BY <2>1, <2>2 DEF CInv, OneEntryPerName
<1>2. \A d \in Desc : Replaced(file[o].name, p)[d] = desc[d]
  BY <1>1 DEF Replaced
<1>3. Replaced(file[o].name, p) = [d \in Desc |-> Replaced(file[o].name, p)[d]]
  BY DEF Replaced
<1>4. desc = [d \in Desc |-> desc[d]]
  BY DEF CInv, IInv, TypeOK
<1> QED
  BY <1>2, <1>3, <1>4

LEMMA ReopenedFresh ==
    ASSUME CInv, NoStaleDescriptor, NEW o \in live, NEW fd \in {"same", "ok", "closed"},
           desc' = Reopened(o, fd)
    PROVE  NoStaleDescriptor'
<1> SUFFICES ASSUME NEW d \in Desc PROVE desc'[d].fd # "stale"
  BY DEF NoStaleDescriptor
<1>1. desc[d].fd # "stale" /\ desc[d] \in DescRec
  BY DEF NoStaleDescriptor, CInv, IInv, TypeOK
<1>2. (IF fd = "ok" THEN Replaced(file[o].name, o) ELSE desc) = desc
  <2>1. o \in {o, Null} /\ (o = Null => DescOf(o) = {})
    BY ConstantsAssumption DEF CInv, IInv, TypeOK
  <2>2. Replaced(file[o].name, o) = desc
    BY <2>1, ReplacesNone
  <2> QED
    BY <2>2
<1>3. desc'[d] = IF desc[d].file = o /\ fd # "same" THEN [desc[d] EXCEPT !.fd = fd] ELSE desc[d]
  BY <1>2 DEF Reopened
<1> QED
  BY <1>1, <1>3 DEF DescRec

LEMMA DecompressedFresh ==
    ASSUME "rename" \notin Failures, NEW o, NEW f, NEW r \in DoDecompress(o, f)
    PROVE  r.fd \in {"same", "ok", "closed"}
<1>1. \E ok, g, i : \E fd \in {"same", "ok", "closed"} : r = Outcome(ok, g, i, fd)
  BY Zenon DEF DoDecompress
<1> QED
  BY <1>1 DEF Outcome

LEMMA TruncateFresh ==
    ASSUME CInv, NoStaleDescriptor, "rename" \notin Failures, NEW t \in Thread, NEW s \in Sizes, Truncate(t, s)
    PROVE  NoStaleDescriptor'
<1>1. PICK o \in live : o = thr[t].file
  BY Holding DEF CInv, Truncate
<1>2. PICK r \in TruncateFirst(o, Discard(file[o]), s) : desc' = Reopened(o, r.fd)
  BY <1>1, Zenon DEF Truncate
<1>3. r.fd \in {"same", "ok", "closed"}
  <2>1. CASE r \in DoDecompress(o, Discard(file[o]))
    BY <2>1, DecompressedFresh
  <2>2. CASE r \notin DoDecompress(o, Discard(file[o]))
    <3>1. \E f, i : r = Outcome(TRUE, f, i, "same")
      BY <1>2, <2>2 DEF TruncateFirst
    <3> QED
      BY <3>1 DEF Outcome
  <2> QED
    BY <2>1, <2>2
<1> QED
  BY <1>2, <1>3, ReopenedFresh

LEMMA OnDescriptorFresh ==
    ASSUME CInv, NoStaleDescriptor, "rename" \notin Failures, NEW t \in Thread, NEW d \in Desc,
           Read(t, d) \/ WriteFallback(t, d)
    PROVE  NoStaleDescriptor'
<1>1. PICK o \in live : o = desc[d].file
  <2>1. \E op : Usable(t, d, op)
    BY Zenon DEF Read, WriteFallback
  <2> QED
    BY <2>1, UsableFacts DEF CInv
<1>2. PICK f, r : /\ desc' = Reopened(o, r.fd)
                  /\ r \in DoDecompress(o, f) \/ \E g, i : r = Outcome(FALSE, g, i, "same")
  <2>1. CASE Read(t, d)
    BY <1>1, <2>1, Zenon DEF Read
  <2>2. CASE WriteFallback(t, d)
    BY <1>1, <2>2, Zenon DEF WriteFallback
  <2> QED
    BY <2>1, <2>2
<1>3. r.fd \in {"same", "ok", "closed"}
  <2>1. CASE r \in DoDecompress(o, f)
    BY <2>1, DecompressedFresh
  <2>2. CASE \E g, i : r = Outcome(FALSE, g, i, "same")
    BY <2>2 DEF Outcome
  <2> QED
    BY <1>2, <2>1, <2>2
<1> QED
  BY <1>2, <1>3, ReopenedFresh

LEMMA RenameFresh ==
    ASSUME CInv, NoStaleDescriptor, NEW t \in Thread, RenameCommit(t)
    PROVE  NoStaleDescriptor'
<1>1. CASE desc' = desc
  BY <1>1 DEF NoStaleDescriptor
<1>2. CASE \E a, b : desc' = MovedDesc(a, b)
  <2>1. PICK a, b : desc' = MovedDesc(a, b)
    BY <1>2
  <2>2. \A d \in Desc : desc[d] \in DescRec
    BY DEF CInv, IInv, TypeOK
  <2>3. \A d \in Desc : desc'[d].fd = desc[d].fd
    BY <2>1, <2>2 DEF MovedDesc, DescRec
  <2> QED
    BY <2>3 DEF NoStaleDescriptor
<1> QED
  BY <1>1, <1>2, Zenon DEF RenameCommit, DirectRename

LEMMA BgStepFresh ==
    ASSUME CInv, NoStaleDescriptor, BgStep
    PROVE  NoStaleDescriptor'
<1>1. CASE desc' = desc
  BY <1>1 DEF NoStaleDescriptor
<1>2. CASE BgCompressCommit \/ BgDedupCommit
  <2>0. (bg.pc = "compressing" \/ bg.pc = "hashing") /\ owner[bg.file] = Null
    BY <1>2, Zenon DEF BgCompressCommit, BgDedupCommit
  <2>1. PICK o \in live : o = bg.file
    BY <2>0, Popped DEF CInv
  <2>2. Busy(file[o])
    BY <2>0, <2>1 DEF CInv, Marked, Busy
  <2>3. DescOf(o) = {}
    BY <2>2 DEF CInv, UsedIsQuiet, InUse, DescOf
  <2>4. Replaced(file[o].name, Null) = desc
    BY <2>3, ReplacesNone
  <2>5. desc' = desc \/ desc' = Replaced(file[o].name, Null)
    BY <1>2, <2>1, Zenon DEF BgCompressCommit, BgDedupCommit
  <2> QED
    BY <1>1, <2>4, <2>5
<1> QED
  BY <1>1, <1>2, Zenon DEF BgStep, BgPop, BgSkip, BgCompressNot, BgCompress, BgCompressCancelled, BgCompressFails,
     BgDedup, BgDedupFails, BgDedupCancelled

LEMMA CallStepFresh ==
    ASSUME CInv, NoStaleDescriptor, "rename" \notin Failures, NEW t \in Thread, CallStep(t)
    PROVE  NoStaleDescriptor'
<1>1. CASE desc' = desc
  BY <1>1 DEF NoStaleDescriptor
<1>2. ASSUME NEW d \in Desc, Release(t, d) PROVE NoStaleDescriptor'
  BY <1>2 DEF Release, Closed, NoStaleDescriptor, CInv, IInv, TypeOK
<1>3. ASSUME NEW d \in Desc, Read(t, d) \/ WriteFallback(t, d) PROVE NoStaleDescriptor'
  BY <1>3, OnDescriptorFresh
<1>4. ASSUME NEW d \in Desc, WriteAppend(t, d) \/ WriteRaw(t, d) PROVE desc' = desc
  BY <1>4, Zenon DEF WriteAppend, WriteRaw
<1>5. ASSUME \/ \E n, op, m : Call(t, op, n, m)
             \/ \E n : Lstat(t, n)
      PROVE  desc' = desc
  BY <1>5, Zenon DEF Call, Lstat
<1> QED
  BY <1>1, <1>2, <1>3, <1>4, <1>5, Zenon DEF CallStep

LEMMA HandlerStepFresh ==
    ASSUME CInv, NoStaleDescriptor, "rename" \notin Failures, NEW t \in Thread, HandlerStep(t)
    PROVE  NoStaleDescriptor'
<1>1. CASE desc' = desc
  BY <1>1 DEF NoStaleDescriptor
<1>2. ASSUME NEW s \in Sizes, Truncate(t, s) PROVE NoStaleDescriptor'
  BY <1>2, TruncateFresh
<1>3. ASSUME NEW d \in Desc, Open(t, d) PROVE NoStaleDescriptor'
  <2>1. \E o : desc' = [desc EXCEPT ![d] = [file |-> o, fd |-> "ok"]]
    BY <1>3, Zenon DEF Open
  <2> QED
    BY <2>1 DEF NoStaleDescriptor, CInv, IInv, TypeOK
<1>4. CASE RenameCommit(t)
  BY <1>4, RenameFresh
<1>5. CASE LockDatabase(t) \/ DirectOpenPurge(t) \/ Rewake(t) \/ Getattr(t) \/ Utime(t) \/ Mknod(t) \/ Unlink(t)
  BY <1>1, <1>5, Zenon DEF LockDatabase, DirectOpenPurge, Rewake, Getattr, Utime, Mknod, Unlink
<1>6. CASE \E o \in Obj : DirectOpenHit(t, o) \/ DirectNewFile(t, o) \/ PurgeEntry(t, o)
  BY <1>1, <1>6, Zenon DEF DirectOpenHit, DirectNewFile, PurgeEntry
<1>7. CASE OpenFails(t) \/ OpenLeaksLock(t) \/ RenameKeepFrom(t) \/ RenameKeepTo(t) \/ RenameLockFrom(t)
           \/ ReadFail(t) \/ Pwrite(t)
  BY <1>1, <1>7, Zenon DEF OpenFails, OpenLeaksLock, RenameKeepFrom, RenameKeepTo, RenameLockFrom, ReadFail, Pwrite
<1> QED
  BY <1>2, <1>3, <1>4, <1>5, <1>6, <1>7, Zenon DEF HandlerStep

(* No descriptor is left open on an inode its name no longer has, where a   *)
(* write would be lost, unless rename() fails in do_decompress().           *)
THEOREM DescriptorsStayFresh == ASSUME "rename" \notin Failures PROVE Spec => []NoStaleDescriptor
<1>1. Init => NoStaleDescriptor
  BY DEF Init, Closed, NoStaleDescriptor
<1>2. CInv /\ NoStaleDescriptor /\ [Next]_vars => NoStaleDescriptor'
  BY BgStepFresh, CallStepFresh, HandlerStepFresh, Zenon DEF Next, NoStaleDescriptor, vars
<1> QED
  BY <1>1, <1>2, ContentInvariance, PTL DEF Spec

-----------------------------------------------------------------------------
(* Sleepers.  While nothing is deduplicated, an entry is busy only while    *)
(* do_compress() runs on it, and do_compress() looks for CANCEL before it   *)
(* is done.  (A do_dedup() that fails leaves its mark on the entry, and     *)
(* whoever then waits for the entry waits for ever.)                        *)
WakerInv ==
    /\ \A i \in 1..Len(queue) : queue[i].dedup = FALSE
    /\ bg.dedup = FALSE
    /\ \A o \in live : "DEDUPING" \notin file[o].status
    /\ SleeperHasWaker

SameStatus(p) == file'[p].status = file[p].status

LEMMA StatusUpdate ==
    ASSUME IInv, NEW o \in Obj, NEW g, file' = [file EXCEPT ![o] = g], g.status = file[o].status
    PROVE  \A p \in live : SameStatus(p)
BY DEF SameStatus, IInv, TypeOK

(* An entry that is busy is the background thread's.                        *)
LEMMA BusyIsWorkedOn ==
    ASSUME CInv, WakerInv, NEW o \in live, Busy(file[o])
    PROVE  bg.pc = "compressing" /\ bg.file = o
BY DEF CInv, Marked, WakerInv, Busy

LEMMA NotHashing ==
    ASSUME CInv, WakerInv
    PROVE  bg.pc # "hashing"
BY Popped DEF CInv, Marked, WakerInv

(* A step of thread t that puts nobody to sleep and touches no mark.        *)
LEMMA WakerStays ==
    ASSUME CInv, WakerInv, NEW t \in Thread, \A u \in Thread \ {t} : thr'[u] = thr[u], thr'[t].pc # "wait",
           live' = live, queue' = queue, bg' = bg, \A p \in live : SameStatus(p)
    PROVE  WakerInv'
<1>1. \A o \in live' : "DEDUPING" \notin file'[o].status
  BY DEF WakerInv, SameStatus
<1>2. SleeperHasWaker'
  <2> SUFFICES ASSUME NEW u \in Thread, thr'[u].pc = "wait"
               PROVE  /\ bg.file = thr'[u].file /\ bg.pc \in {"compressing", "hashing"}
                      /\ "CANCEL" \in file'[bg.file].status
    BY DEF SleeperHasWaker
  <2>1. thr'[u] = thr[u]
    OBVIOUS
  <2>2. /\ bg.file = thr[u].file /\ bg.pc \in {"compressing", "hashing"}
        /\ "CANCEL" \in file[bg.file].status
    BY <2>1 DEF WakerInv, SleeperHasWaker
  <2>3. bg.file \in live
    BY <2>2, Popped DEF CInv
  <2> QED
    BY <2>1, <2>2, <2>3 DEF SameStatus
<1> QED
  BY <1>1, <1>2 DEF WakerInv

(* The end of a handler.                                                    *)
LEMMA EndWakes ==
    ASSUME CInv, WakerInv, NEW t \in Thread, thr' = [thr EXCEPT ![t] = Idle],
           live' = live, queue' = queue, bg' = bg, \A p \in live : SameStatus(p)
    PROVE  WakerInv'
<1>1. \A u \in Thread \ {t} : thr'[u] = thr[u]
  BY DEF CInv, IInv, TypeOK
<1>2. thr'[t].pc # "wait"
  BY DEF CInv, IInv, TypeOK, Idle
<1> QED
  BY <1>1, <1>2, WakerStays

LEMMA GetattrStatus ==
    ASSUME IInv, NEW t \in Thread, Getattr(t)
    PROVE  \A p \in live : SameStatus(p)
<1> DEFINE f == file[thr[t].file]
           i == disk[f.name]
           Like(g) == g.status = f.status
<1>1. f \in FileRec /\ thr[t].file \in Obj
  BY Holding DEF Getattr
<1>2. \A s, c : Like([f EXCEPT !.size = s]) /\ Like([f EXCEPT !.compressor = c, !.size = s])
  BY <1>1 DEF FileRec
<1>3. file' = file \/ \E g : Like(g) /\ file' = [file EXCEPT ![thr[t].file] = g]
  <2> HIDE DEF Like
  <2>1. CASE file' = [file EXCEPT ![thr[t].file] =
                IF i.packed THEN [f EXCEPT !.compressor = TRUE, !.size = i.size]
                ELSE IF i.size = "empty" THEN [f EXCEPT !.size = thr[t].stat]
                ELSE [f EXCEPT !.compressor = FALSE, !.size = thr[t].stat]]
    <3>1. CASE i.packed
      BY <1>2, <2>1, <3>1, Zenon
    <3>2. CASE ~i.packed /\ i.size = "empty"
      BY <1>2, <2>1, <3>2, Zenon
    <3>3. CASE ~i.packed /\ i.size # "empty"
      BY <1>2, <2>1, <3>3, Zenon
    <3> QED
      BY <3>1, <3>2, <3>3
  <2>2. CASE file' = [file EXCEPT ![thr[t].file].size = "empty"]
    BY <1>2, <2>2, Zenon
  <2> QED
    BY <2>1, <2>2, Zenon DEF Getattr
<1> QED
  BY <1>1, <1>3, StatusUpdate DEF SameStatus

LEMMA UnlinkStatus ==
    ASSUME IInv, NEW t \in Thread, Unlink(t) \/ OpenFails(t)
    PROVE  \A p \in live : SameStatus(p)
<1>1. PICK o \in Obj : o = thr[t].file /\ file[o] \in FileRec
  BY Holding DEF Unlink, OpenFails
<1>2. /\ Discard(file[o]).status = file[o].status
      /\ Delete(Discard(file[o])).status = file[o].status
  BY <1>1, SmallKeeps, DiscardKeeps
<1>3. \E g \in {file[o], Discard(file[o]), Delete(Discard(file[o]))} : file' = [file EXCEPT ![o] = g]
  <2>1. CASE Unlink(t)
    BY <1>1, <2>1 DEF Unlink
  <2>2. CASE OpenFails(t)
    BY <1>1, <2>2 DEF OpenFails
  <2> QED
    BY <2>1, <2>2
<1> QED
  BY <1>2, <1>3, StatusUpdate

LEMMA OpenStatus ==
    ASSUME IInv, NEW t \in Thread, OpenLeaksLock(t) \/ \E d \in Desc : Open(t, d)
    PROVE  \A p \in live : SameStatus(p)
<1>1. PICK o \in Obj : o = thr[t].file /\ file[o] \in FileRec
  <2>1. Holds(t, "open")
    BY Zenon DEF Open, OpenLeaksLock
  <2> QED
    BY <2>1, Holding
<1>2. \A f \in {file[o], Discard(file[o])} : f \in FileRec /\ f.status = file[o].status
  BY <1>1, SmallKeeps, DiscardKeeps
<1> DEFINE Like(g) == g.status = file[o].status
<1>3. \A f \in {file[o], Discard(file[o])} : \A linked, s, c :
         /\ Like([f EXCEPT !.dontcompress = @ \/ linked])
         /\ Like([f EXCEPT !.accesses = @ + 1, !.size = s, !.compressor = c, !.dontcompress = @ \/ linked])
  BY <1>2, Zenon DEF FileRec
<1>4. \E g : Like(g) /\ file' = [file EXCEPT ![o] = g]
  <2> HIDE DEF Like
  <2>1. CASE OpenLeaksLock(t)
    BY <1>1, <1>3, <2>1, Zenon DEF OpenLeaksLock
  <2>2. CASE \E d \in Desc : Open(t, d)
    BY <1>1, <1>3, <2>2, Zenon DEF Open
  <2> QED
    BY <2>1, <2>2
<1>5. PICK g : g.status = file[o].status /\ file' = [file EXCEPT ![o] = g]
  BY <1>4
<1> QED
  BY <1>5, StatusUpdate

LEMMA DecompressStatus ==
    ASSUME IInv, NEW o \in live, NEW f \in FileRec, f.status = file[o].status, f.name = file[o].name, NEW r,
           (\E ok, fd : r = Outcome(ok, f, disk[f.name], fd)) \/ r \in DoDecompress(o, f),
           file' = [file EXCEPT ![o] = r.f] \/ \E s : file' = [file EXCEPT ![o] = [r.f EXCEPT !.size = s]]
    PROVE  \A p \in live : SameStatus(p)
<1> DEFINE Like(g) == g.status = file[o].status
<1>1. o \in Obj
  BY DEF IInv, TypeOK
<1>2. r.f \in FileRec /\ Like(r.f)
  <2>1. CASE r \in DoDecompress(o, f)
    <3>1. SameView(f, r) /\ GoodOutcome(f, r)
      BY <2>1, DoDecompressGood, DoDecompressView DEF IInv, TypeOK, FileRec
    <3> QED
      BY <3>1 DEF SameView, GoodOutcome
  <2>2. CASE \E ok, fd : r = Outcome(ok, f, disk[f.name], fd)
    BY <2>2 DEF Outcome
  <2> QED
    BY <2>1, <2>2
<1>3. \A s : Like([r.f EXCEPT !.size = s])
  BY <1>2 DEF FileRec
<1>4. \E g : Like(g) /\ file' = [file EXCEPT ![o] = g]
  <2> HIDE DEF Like
  <2> QED
    BY <1>2, <1>3
<1>5. PICK g : g.status = file[o].status /\ file' = [file EXCEPT ![o] = g]
  BY <1>4
<1> QED
  BY <1>1, <1>5, StatusUpdate

LEMMA TruncateStatus ==
    ASSUME IInv, NEW t \in Thread, NEW s \in Sizes, Truncate(t, s)
    PROVE  \A p \in live : SameStatus(p)
<1>1. PICK o \in live : o = thr[t].file /\ o \in Obj /\ file[o] \in FileRec
  BY Holding DEF Truncate
<1>2. PICK f \in FileRec : f = Discard(file[o])
  BY <1>1, DiscardKeeps
<1>3. f.name = file[o].name /\ f.status = file[o].status
  BY <1>1, <1>2, SmallKeeps, DiscardKeeps
<1>4. PICK r \in TruncateFirst(o, f, s) :
         file' = [file EXCEPT ![o] = r.f] \/ file' = [file EXCEPT ![o] = [r.f EXCEPT !.size = s]]
  BY <1>1, <1>2 DEF Truncate
<1>5. CASE r \in DoDecompress(o, f) \/ r = Outcome(TRUE, f, disk[f.name], "same")
  <2>1. (\E ok, fd : r = Outcome(ok, f, disk[f.name], fd)) \/ r \in DoDecompress(o, f)
    BY <1>5
  <2>2. file' = [file EXCEPT ![o] = r.f] \/ \E x : file' = [file EXCEPT ![o] = [r.f EXCEPT !.size = x]]
    BY <1>4
  <2> QED
    BY <1>3, <2>1, <2>2, DecompressStatus
<1>6. CASE r = Outcome(TRUE, [(IF DescOf(o) = {} THEN f ELSE DirectClose(f)) EXCEPT !.compressor = FALSE],
                       disk[f.name], "same")
  <2> DEFINE c == IF DescOf(o) = {} THEN f ELSE DirectClose(f)
             e == [c EXCEPT !.compressor = FALSE]
             h == [e EXCEPT !.size = s]
  <2>1. c \in FileRec /\ c.status = f.status
    BY DirectCloseKeeps, SmallKeeps
  <2>2. e.status = f.status /\ h.status = f.status
    <3> HIDE DEF c
    <3> QED
      BY <2>1 DEF FileRec
  <2>3. file' = [file EXCEPT ![o] = e] \/ file' = [file EXCEPT ![o] = h]
    BY <1>4, <1>6 DEF Outcome
  <2>4. PICK g : g.status = file[o].status /\ file' = [file EXCEPT ![o] = g]
    <3> HIDE DEF e, h
    <3> QED
      BY <1>3, <2>2, <2>3
  <2> QED
    BY <1>1, <2>4, StatusUpdate
<1> QED
  BY <1>4, <1>5, <1>6 DEF TruncateFirst

LEMMA FallbackStatus ==
    ASSUME IInv, NEW t \in Thread, NEW d \in Desc, Read(t, d) \/ WriteFallback(t, d)
    PROVE  \A p \in live : SameStatus(p)
<1>1. PICK o \in live : o = desc[d].file /\ file[o] \in FileRec
  <2>1. \E op : Usable(t, d, op)
    BY Zenon DEF Read, WriteFallback
  <2> QED
    BY <2>1, UsableFacts
<1>2. CASE Read(t, d)
  <2>1. PICK f \in FileRec : f = file[o]
    BY <1>1
  <2>2. PICK r : /\ r = Outcome(FALSE, f, disk[f.name], "same") \/ r \in DoDecompress(o, f)
                 /\ \/ file' = [file EXCEPT ![o] = r.f]
                    \/ file' = [file EXCEPT ![o] = [r.f EXCEPT !.size = "unknown"]]
    BY <1>1, <1>2, <2>1 DEF Read
  <2>3. (\E ok, fd : r = Outcome(ok, f, disk[f.name], fd)) \/ r \in DoDecompress(o, f)
    BY <2>2
  <2>4. file' = [file EXCEPT ![o] = r.f] \/ \E x : file' = [file EXCEPT ![o] = [r.f EXCEPT !.size = x]]
    BY <2>2
  <2>5. f.status = file[o].status /\ f.name = file[o].name
    BY <2>1
  <2> QED
    BY <2>3, <2>4, <2>5, DecompressStatus
<1>3. CASE WriteFallback(t, d)
  <2>1. PICK f \in WriteChosen(file[o]) :
         \E r : /\ r = Outcome(FALSE, f, disk[f.name], "same") \/ r \in DoDecompress(o, f)
                /\ file' = [file EXCEPT ![o] = [r.f EXCEPT !.size = "unknown"]]
    BY <1>1, <1>3 DEF WriteFallback
  <2>2. f \in FileRec /\ f.name = file[o].name /\ f.status = file[o].status
    BY <1>1, WriteChosenKeeps, WriteChosenStatus
  <2>3. PICK r : /\ r = Outcome(FALSE, f, disk[f.name], "same") \/ r \in DoDecompress(o, f)
                 /\ file' = [file EXCEPT ![o] = [r.f EXCEPT !.size = "unknown"]]
    BY <2>1
  <2> QED
    BY <2>2, <2>3, DecompressStatus
<1> QED
  BY <1>2, <1>3

LEMMA WriteStatus ==
    ASSUME IInv, NEW t \in Thread, NEW d \in Desc, WriteAppend(t, d) \/ WriteRaw(t, d)
    PROVE  \A p \in live : SameStatus(p)
<1>1. PICK o \in Obj : o = desc[d].file /\ file[o] \in FileRec
  <2>1. \E op : Usable(t, d, op)
    BY Zenon DEF WriteAppend, WriteRaw
  <2> QED
    BY <2>1, UsableFacts
<1>2. PICK h \in FileRec : h = file[o]
  BY <1>1
<1>3. PICK f \in WriteChosen(h) :
         file' = [file EXCEPT ![o] = f] \/ \E s : file' = [file EXCEPT ![o] = [f EXCEPT !.size = s]]
  <2>1. CASE WriteAppend(t, d)
    BY <1>1, <1>2, <2>1, Zenon DEF WriteAppend
  <2>2. CASE WriteRaw(t, d)
    BY <1>1, <1>2, <2>2, Zenon DEF WriteRaw
  <2> QED
    BY <2>1, <2>2
<1>4. f \in FileRec /\ f.status = h.status
  BY WriteChosenKeeps, WriteChosenStatus
<1>5. \A s : [f EXCEPT !.size = s].status = h.status
  BY <1>4 DEF FileRec
<1>6. PICK g : g.status = h.status /\ file' = [file EXCEPT ![o] = g]
  BY <1>3, <1>4, <1>5
<1> QED
  BY <1>2, <1>6, StatusUpdate

LEMMA ReleaseStatus ==
    ASSUME IInv, NEW t \in Thread, NEW d \in Desc, Release(t, d)
    PROVE  \A p \in live : SameStatus(p)
<1>1. PICK o \in Obj : o = desc[d].file /\ file[o] \in FileRec
  BY UsableFacts DEF Release
<1> DEFINE f == IF file[o].compressor THEN DirectClose(file[o]) ELSE file[o]
           g == [f EXCEPT !.accesses = @ - 1]
<1>2. f.status = file[o].status /\ f \in FileRec
  BY <1>1, SmallKeeps, DirectCloseKeeps
<1>3. file' = [file EXCEPT ![o] = g]
  BY <1>1 DEF Release
<1>4. g.status = file[o].status
  <2> HIDE DEF f
  <2> QED
    BY <1>2 DEF FileRec
<1> HIDE DEF g
<1> QED
  BY <1>3, <1>4, StatusUpdate

LEMMA UnlockedStatus ==
    ASSUME IInv, NEW t \in Thread, ReadFail(t) \/ Pwrite(t)
    PROVE  \A p \in live : SameStatus(p)
<1>1. thr[t].pc \in {"pwrite", "readfail"}
  BY DEF ReadFail, Pwrite
<1>2. PICK o \in Obj : o = thr[t].file /\ file[o] \in FileRec
  BY <1>1, Unlocked
<1>3. file' = file \/ file' = [file EXCEPT ![o].size = "unknown"]
  BY <1>2, Zenon DEF ReadFail, Pwrite
<1>4. CASE file' = [file EXCEPT ![o].size = "unknown"]
  <2> DEFINE g == [file[o] EXCEPT !.size = "unknown"]
  <2>1. g.status = file[o].status
    BY <1>2 DEF FileRec
  <2>2. file' = [file EXCEPT ![o] = g]
    BY <1>4
  <2> HIDE DEF g
  <2> QED
    BY <2>1, <2>2, StatusUpdate
<1> QED
  BY <1>3, <1>4 DEF SameStatus

LEMMA KeepStatus ==
    ASSUME IInv, NEW t \in Thread, RenameKeepFrom(t) \/ RenameKeepTo(t)
    PROVE  \A p \in live : SameStatus(p)
<1>1. thr[t].pc = "locked"
  BY DEF RenameKeepFrom, RenameKeepTo, Holds
<1>2. PICK o \in live : o = thr[t].file
  BY <1>1 DEF IInv, Control, ControlOf
<1>3. o \in Obj /\ file[o] \in FileRec
  BY DEF IInv, TableLive, TypeOK
<1> DEFINE g == [file[o] EXCEPT !.accesses = @ + 1]
<1>4. file' = [file EXCEPT ![o] = g]
  BY <1>2, Zenon DEF RenameKeepFrom, RenameKeepTo
<1>5. g.status = file[o].status
  BY <1>3 DEF FileRec
<1> HIDE DEF g
<1> QED
  BY <1>3, <1>4, <1>5, StatusUpdate

LEMMA CallStepWakes ==
    ASSUME CInv, WakerInv, NEW t \in Thread, CallStep(t)
    PROVE  WakerInv'
<1> DEFINE quiet == /\ live' = live /\ queue' = queue /\ bg' = bg
                    /\ \E r : r.pc # "wait" /\ thr' = [thr EXCEPT ![t] = r]
<1>0. IInv /\ thr = [thr EXCEPT ![t] = thr[t]]
  BY DEF CInv, IInv, TypeOK
<1>1. ASSUME quiet, \A p \in live : SameStatus(p) PROVE WakerInv'
  <2>1. (\A u \in Thread \ {t} : thr'[u] = thr[u]) /\ thr'[t].pc # "wait"
    BY <1>0, <1>1 DEF IInv, TypeOK
  <2> QED
    BY <1>1, <2>1, WakerStays
<1>2. \A n, op, m, x : /\ [Idle EXCEPT !.pc = "scan", !.op = op, !.name = n, !.other = m].pc = "scan"
                       /\ [Idle EXCEPT !.pc = "stat", !.op = op, !.name = n, !.stat = x].pc = "stat"
  BY DEF Idle
<1>3. ASSUME NEW d \in Desc, thr[t].pc = "idle",
             \/ thr' = thr
             \/ Later(t, d, "readfail", "read")
             \/ Later(t, d, "pwrite", "write"),
             live' = live, queue' = queue, bg' = bg
      PROVE  quiet
  <2>1. Working(d, "readfail", "read").pc = "readfail" /\ Working(d, "pwrite", "write").pc = "pwrite"
    BY DEF Working, Idle
  <2>2. \/ thr' = [thr EXCEPT ![t] = thr[t]]
        \/ thr' = [thr EXCEPT ![t] = Working(d, "readfail", "read")]
        \/ thr' = [thr EXCEPT ![t] = Working(d, "pwrite", "write")]
    BY <1>0, <1>3 DEF Later, Working
  <2> QED
    BY <1>3, <2>1, <2>2
<1>4. ASSUME \/ \E n, op, m : Call(t, op, n, m)
             \/ \E n : Lstat(t, n)
      PROVE  WakerInv'
  <2>1. quiet /\ file' = file
    <3>1. CASE \E n, op, m : Call(t, op, n, m)
      BY <1>2, <3>1, Zenon DEF Call
    <3>2. CASE \E n : Lstat(t, n)
      BY <1>2, <3>2, Zenon DEF Lstat
    <3> QED
      BY <1>4, <3>1, <3>2
  <2> QED
    BY <1>1, <2>1 DEF SameStatus
<1>5. ASSUME NEW d \in Desc, Read(t, d) PROVE WakerInv'
  <2>1. /\ thr[t].pc = "idle"
        /\ thr' = thr \/ Later(t, d, "readfail", "read")
        /\ live' = live /\ queue' = queue /\ bg' = bg
    BY <1>5, Zenon DEF Read, Usable
  <2>2. quiet
    BY <1>3, <2>1
  <2>3. \A p \in live : SameStatus(p)
    BY <1>0, <1>5, FallbackStatus
  <2> QED
    BY <1>1, <2>2, <2>3
<1>6. ASSUME NEW d \in Desc, WriteFallback(t, d) PROVE WakerInv'
  <2>1. /\ thr[t].pc = "idle"
        /\ thr' = thr \/ Later(t, d, "pwrite", "write")
        /\ live' = live /\ queue' = queue /\ bg' = bg
    BY <1>6, Zenon DEF WriteFallback, Usable
  <2>2. quiet
    BY <1>3, <2>1
  <2>3. \A p \in live : SameStatus(p)
    BY <1>0, <1>6, FallbackStatus
  <2> QED
    BY <1>1, <2>2, <2>3
<1>7. ASSUME NEW d \in Desc, WriteAppend(t, d) \/ WriteRaw(t, d) PROVE WakerInv'
  <2>1. /\ thr[t].pc = "idle"
        /\ thr' = thr \/ Later(t, d, "pwrite", "write")
        /\ live' = live /\ queue' = queue /\ bg' = bg
    BY <1>7, Zenon DEF WriteAppend, WriteRaw, Usable
  <2>2. quiet
    BY <1>3, <2>1
  <2>3. \A p \in live : SameStatus(p)
    BY <1>0, <1>7, WriteStatus
  <2> QED
    BY <1>1, <2>2, <2>3
<1>8. ASSUME NEW d \in Desc, Release(t, d) PROVE WakerInv'
  <2>1. /\ thr[t].pc = "idle"
        /\ thr' = thr
        /\ live' = live /\ queue' = queue /\ bg' = bg
    BY <1>8, Zenon DEF Release, Usable
  <2>2. quiet
    BY <1>3, <2>1
  <2>3. \A p \in live : SameStatus(p)
    BY <1>0, <1>8, ReleaseStatus
  <2> QED
    BY <1>1, <2>2, <2>3
<1> QED
  BY <1>4, <1>5, <1>6, <1>7, <1>8, Zenon DEF CallStep

(* A look-up that finds the entry: it is locked, or its thread waits for    *)
(* the background thread and has told it so.                                *)
LEMMA LockOrWaitWakes ==
    ASSUME CInv, WakerInv, NEW t \in Thread, thr[t].pc # "wait", NEW o \in live, NEW f \in FileRec,
           f.status = file[o].status, LockOrWait(t, o, f),
           live' = live, queue' = queue, bg' = bg
    PROVE  WakerInv'
<1>0. IInv /\ o \in Obj /\ thr[t] \in ThreadRec
  BY DEF CInv, IInv, TypeOK
<1>1. CASE ~(Stabile(thr[t].op) /\ Busy(f))
  <2>1. file' = [file EXCEPT ![o] = f]
    BY <1>1 DEF LockOrWait
  <2>2. (\A u \in Thread \ {t} : thr'[u] = thr[u]) /\ thr'[t].pc # "wait"
    BY <1>0, <1>1 DEF LockOrWait, IInv, TypeOK, ThreadRec
  <2> QED
    BY <1>0, <2>1, <2>2, StatusUpdate, WakerStays
<1>2. CASE Stabile(thr[t].op) /\ Busy(f)
  <2>1. bg.pc = "compressing" /\ bg.file = o
    BY <1>2, BusyIsWorkedOn DEF Busy
  <2> DEFINE g == [f EXCEPT !.status = @ \cup {"CANCEL"}]
  <2>2. g.status = file[o].status \cup {"CANCEL"}
    BY DEF FileRec
  <2>3. file' = [file EXCEPT ![o] = g]
    BY <1>2 DEF LockOrWait
  <2> HIDE DEF g
  <2>4. /\ file'[o].status = file[o].status \cup {"CANCEL"}
        /\ \A p \in live \ {o} : file'[p] = file[p]
    BY <1>0, <2>2, <2>3 DEF IInv, TypeOK
  <2>5. (\A u \in Thread \ {t} : thr'[u] = thr[u]) /\ thr'[t].file = o
    BY <1>0, <1>2 DEF LockOrWait, IInv, TypeOK, ThreadRec
  <2>6. SleeperHasWaker'
    <3> SUFFICES ASSUME NEW u \in Thread, thr'[u].pc = "wait"
                 PROVE  bg.file = thr'[u].file /\ "CANCEL" \in file'[bg.file].status
      BY <2>1 DEF SleeperHasWaker
    <3>1. u # t => bg.file = thr[u].file
      BY <2>5 DEF WakerInv, SleeperHasWaker
    <3> QED
      BY <2>1, <2>4, <2>5, <3>1
  <2>7. \A p \in live' : "DEDUPING" \notin file'[p].status
    BY <2>4 DEF WakerInv
  <2> QED
    BY <2>6, <2>7 DEF WakerInv
<1> QED
  BY <1>1, <1>2

LEMMA LookUpWakes ==
    ASSUME CInv, WakerInv, NEW t \in Thread,
           Rewake(t) \/ \E o \in Obj : DirectOpenHit(t, o)
    PROVE  WakerInv'
<1>0. IInv /\ thr[t] \in ThreadRec
  BY DEF CInv, IInv, TypeOK
<1>1. CASE Rewake(t)
  <2>1. /\ thr[t].pc = "woken" /\ thr[t].file \in live /\ LockOrWait(t, thr[t].file, file[thr[t].file])
        /\ live' = live /\ queue' = queue /\ bg' = bg
    BY <1>1 DEF Rewake
  <2>2. PICK o \in live, f \in FileRec : o = thr[t].file /\ f = file[o]
    BY <1>0, <2>1 DEF IInv, TableLive
  <2>3. LockOrWait(t, o, f)
    BY <2>1, <2>2
  <2> QED
    BY <2>1, <2>2, <2>3, LockOrWaitWakes
<1>2. ASSUME NEW o \in Obj, DirectOpenHit(t, o) PROVE WakerInv'
  <2>1. o \in live /\ file[o] \in FileRec
    BY <1>0, <1>2 DEF DirectOpenHit, IInv, TableLive
  <2>2. PICK f : f = [file[o] EXCEPT !.deleted = FALSE]
    OBVIOUS
  <2>3. f \in FileRec /\ f.status = file[o].status
    BY <2>1, <2>2 DEF FileRec
  <2>4. thr[t].pc = "scan" /\ LockOrWait(t, o, f) /\ live' = live /\ queue' = queue /\ bg' = bg
    BY <1>2, <2>2 DEF DirectOpenHit
  <2> QED
    BY <2>1, <2>3, <2>4, LockOrWaitWakes
<1> QED
  BY <1>1, <1>2

LEMMA NewFileWakes ==
    ASSUME CInv, WakerInv, NEW t \in Thread, NEW o \in Obj, DirectNewFile(t, o)
    PROVE  WakerInv'
<1>0. IInv
  BY DEF CInv
<1>1. o \notin live /\ live' = live \cup {o} /\ queue' = queue /\ bg' = bg
  BY DEF DirectNewFile
<1>2. file'[o].status = {} /\ \A p \in live : file'[p] = file[p]
  BY <1>0, <1>1 DEF DirectNewFile, IInv, TypeOK
<1>3. (\A u \in Thread \ {t} : thr'[u] = thr[u]) /\ thr'[t].pc = "locked"
  BY <1>0 DEF DirectNewFile, IInv, TypeOK, ThreadRec
<1>4. SleeperHasWaker'
  <2> SUFFICES ASSUME NEW u \in Thread, thr'[u].pc = "wait"
               PROVE  /\ bg.file = thr'[u].file /\ bg.pc \in {"compressing", "hashing"}
                      /\ "CANCEL" \in file'[bg.file].status
    BY <1>1 DEF SleeperHasWaker
  <2>1. thr'[u] = thr[u]
    BY <1>3
  <2>2. /\ bg.file = thr[u].file /\ bg.pc \in {"compressing", "hashing"}
        /\ "CANCEL" \in file[bg.file].status
    BY <2>1 DEF WakerInv, SleeperHasWaker
  <2>3. bg.file \in live
    BY <1>0, <2>2, Popped
  <2> QED
    BY <1>2, <2>1, <2>2, <2>3
<1>5. \A p \in live' : "DEDUPING" \notin file'[p].status
  BY <1>1, <1>2 DEF WakerInv
<1> QED
  BY <1>1, <1>4, <1>5 DEF WakerInv

LEMMA PurgeEntryWakes ==
    ASSUME CInv, WakerInv, ~DedupEnabled, NEW t \in Thread, NEW o \in Obj, PurgeEntry(t, o)
    PROVE  WakerInv'
<1>0. IInv /\ thr[t] \in ThreadRec
  BY DEF CInv, IInv, TypeOK
<1>1. /\ thr[t].pc = "purge" /\ thr' = [thr EXCEPT ![t].walk = @ \ {o}] /\ bg' = bg
  BY DEF PurgeEntry
<1>2. (\A u \in Thread \ {t} : thr'[u] = thr[u]) /\ thr'[t].pc = "purge"
  BY <1>0, <1>1 DEF IInv, TypeOK, ThreadRec
<1>3. o \in live /\ file[o] \in FileRec
  BY <1>0, <1>1 DEF PurgeEntry, IInv, TableLive, Control, ControlOf
<1>4. \/ live' = live /\ queue' = queue /\ file' = file
      \/ /\ live' = live /\ queue' = Append(queue, [file |-> o, dedup |-> FALSE])
         /\ file' = [file EXCEPT ![o].accesses = @ + 1]
      \/ /\ file[o].accesses = 0 /\ live' = live \ {o} /\ queue' = queue
         /\ file' = [file EXCEPT ![o] = Null]
  BY Zenon DEF PurgeEntry, PurgeUnused, Enqueue, WantsDedup
<1>5. \A p \in live \ {o} : file'[p] = file[p]
  BY <1>0, <1>4 DEF IInv, TypeOK
<1>6. o \in live' => file'[o].status = file[o].status
  <2>1. file' = [file EXCEPT ![o].accesses = @ + 1] => file'[o].status = file[o].status
    BY <1>0, <1>3 DEF IInv, TypeOK, FileRec
  <2> QED
    BY <1>4, <2>1
<1>7. bg.file # Null => bg.file \in live'
  <2>1. bg.file \in live \cup {Null}
    BY <1>0 DEF IInv, ReferencesLive
  <2>2. file[o].accesses = 0 => bg.file # o
    BY <1>0, <1>3, Unused DEF BgOf
  <2> QED
    BY <1>4, <2>1, <2>2
<1>8. SleeperHasWaker'
  <2> SUFFICES ASSUME NEW u \in Thread, thr'[u].pc = "wait"
               PROVE  /\ bg.file = thr'[u].file /\ bg.pc \in {"compressing", "hashing"}
                      /\ "CANCEL" \in file'[bg.file].status
    BY <1>1 DEF SleeperHasWaker
  <2>1. /\ thr'[u] = thr[u] /\ bg.file = thr[u].file /\ bg.pc \in {"compressing", "hashing"}
        /\ "CANCEL" \in file[bg.file].status
    BY <1>2 DEF WakerInv, SleeperHasWaker
  <2>2. bg.file \in live' /\ bg.file \in live
    BY <1>0, <1>7, <2>1, Popped, ConstantsAssumption DEF IInv, TypeOK
  <2> QED
    BY <1>5, <1>6, <2>1, <2>2
<1>9. \A i \in 1..Len(queue') : queue'[i].dedup = FALSE
  <2>1. CASE queue' = queue
    BY <2>1 DEF WakerInv
  <2>2. CASE queue' = Append(queue, [file |-> o, dedup |-> FALSE])
    BY <1>0, <2>2 DEF WakerInv, IInv, TypeOK
  <2> QED
    BY <1>4, <2>1, <2>2
<1>10. \A p \in live' : "DEDUPING" \notin file'[p].status
  BY <1>4, <1>5, <1>6 DEF WakerInv
<1> QED
  BY <1>1, <1>8, <1>9, <1>10 DEF WakerInv

(* rename() onto another name: neither entry is marked, nor will be.        *)
LEMMA RenameStatus ==
    ASSUME CInv, NEW t \in Thread, RenameCommit(t)
    PROVE  /\ thr' = [thr EXCEPT ![t] = Idle] /\ live' = live /\ bg' = bg
           /\ \A p \in live : SameStatus(p)
           /\ queue' = queue \/ \E a, b : queue' = MovedQueue(a, b)
<1>0. IInv
  BY DEF CInv
<1>1. thr[t] \in ThreadRec /\ thr[t].pc = "relock2" /\ thr[t].op = "rename2" /\ ControlOf(t)
  BY <1>0 DEF IInv, TypeOK, RenameCommit, Control, ControlOf
<1>2a. PICK a \in live : a = thr[t].from
  BY <1>1 DEF ControlOf
<1>2b. PICK b \in live : b = thr[t].file
  BY <1>1 DEF ControlOf
<1>3. /\ file[a].name # file[b].name /\ a # b /\ a \in Obj /\ b \in Obj /\ a # Null /\ b # Null
      /\ file[a] \in FileRec /\ file[b] \in FileRec
  BY <1>0, <1>1, <1>2a, <1>2b, ConstantsAssumption DEF ControlOf, IInv, TableLive, TypeOK
<1>4. InUse(a) /\ InUse(b)
  BY <1>0, <1>1, <1>2a, <1>2b, <1>3, KeptInUse
<1>5. file[a].status = {} /\ file[b].status = {}
  <2>1. \A p \in {a, b} : ~Busy(file[p]) /\ "CANCEL" \notin file[p].status
    BY <1>4 DEF CInv, UsedIsQuiet, Marked
  <2>2. file[a].status \subseteq Flag /\ file[b].status \subseteq Flag
    BY <1>3 DEF FileRec
  <2> QED
    BY <2>1, <2>2 DEF Busy, Flag
<1>6. /\ thr' = [thr EXCEPT ![t] = Idle] /\ live' = live /\ bg' = bg
      /\ \/ DirectRename(a, b)
         \/ /\ file' = [file EXCEPT ![a].accesses = @ - 1, ![b].accesses = @ - 1]
            /\ queue' = queue
  BY <1>2a, <1>2b DEF RenameCommit
<1>7. CASE file' = [file EXCEPT ![a].accesses = @ - 1, ![b].accesses = @ - 1] /\ queue' = queue
  <2>1. \A p \in live : SameStatus(p)
    BY <1>0, <1>3, <1>7 DEF SameStatus, IInv, TypeOK, FileRec
  <2> QED
    BY <1>6, <1>7, <2>1
<1>8. CASE DirectRename(a, b)
  <2> DEFINE moved == Cardinality(DescOf(a)) + Cardinality(QueuedOf(a))
             ga == Delete([file[a] EXCEPT !.accesses = @ - 1 - moved])
             gb == [file[b] EXCEPT !.accesses = @ - 1 + moved, !.size = file[a].size,
                         !.compressor = file[a].compressor,
                         !.dontcompress = file[a].dontcompress,
                         !.status = file[a].status,
                         !.deduped = IF DedupEnabled THEN file[a].deduped ELSE @]
  <2>1. file' = [file EXCEPT ![a] = ga, ![b] = gb]
    BY <1>8 DEF DirectRename
  <2>2. ga.status = file[a].status
    <3> HIDE DEF moved
    <3> QED
      BY <1>3 DEF Delete, FileRec
  <2>3. gb.status = file[b].status
    <3> HIDE DEF moved
    <3> QED
      BY <1>3, <1>5 DEF FileRec
  <2>4. \A p \in live : SameStatus(p)
    <3> HIDE DEF ga, gb
    <3> QED
      BY <1>0, <1>3, <2>1, <2>2, <2>3 DEF SameStatus, IInv, TypeOK
  <2>5. queue' = MovedQueue(a, b)
    BY <1>8 DEF DirectRename
  <2> QED
    BY <1>6, <2>4, <2>5
<1> QED
  BY <1>6, <1>7, <1>8

LEMMA RenameWakes ==
    ASSUME CInv, WakerInv, NEW t \in Thread, RenameCommit(t)
    PROVE  WakerInv'
<1>0. IInv
  BY DEF CInv
<1>1. /\ thr' = [thr EXCEPT ![t] = Idle] /\ live' = live /\ bg' = bg
      /\ \A p \in live : SameStatus(p)
      /\ queue' = queue \/ \E a, b : queue' = MovedQueue(a, b)
  BY RenameStatus
<1>2. (\A u \in Thread \ {t} : thr'[u] = thr[u]) /\ thr'[t].pc # "wait"
  BY <1>0, <1>1 DEF IInv, TypeOK, Idle
<1>3. CASE queue' = queue
  BY <1>1, <1>2, <1>3, WakerStays
<1>4. ASSUME NEW a, NEW b, queue' = MovedQueue(a, b) PROVE WakerInv'
  <2>1. \A i \in 1..Len(queue) : queue[i] \in [file : Obj, dedup : BOOLEAN]
    <3> DEFINE Entries == [file : Obj, dedup : BOOLEAN]
    <3>1. queue \in Seq(Entries)
      BY <1>0 DEF IInv, TypeOK
    <3> HIDE DEF Entries
    <3>2. \A i \in 1..Len(queue) : queue[i] \in Entries
      BY <3>1
    <3> QED
      BY <3>2 DEF Entries
  <2>2. Len(queue) \in Nat
    BY <1>0 DEF IInv, TypeOK
  <2>3. Len(queue') = Len(queue) /\ \A i \in 1..Len(queue) : queue'[i] = MovedQueue(a, b)[i]
    BY <1>4, <2>2 DEF MovedQueue
  <2>4. \A i \in 1..Len(queue) : MovedQueue(a, b)[i].dedup = queue[i].dedup
    BY <2>1 DEF MovedQueue
  <2>5. \A i \in 1..Len(queue') : queue'[i].dedup = FALSE
    BY <2>3, <2>4 DEF WakerInv
  <2>6. SleeperHasWaker'
    <3> SUFFICES ASSUME NEW u \in Thread, thr'[u].pc = "wait"
                 PROVE  /\ bg.file = thr'[u].file /\ bg.pc \in {"compressing", "hashing"}
                        /\ "CANCEL" \in file'[bg.file].status
      BY <1>1 DEF SleeperHasWaker
    <3>1. thr'[u] = thr[u]
      BY <1>2
    <3>2. /\ bg.file = thr[u].file /\ bg.pc \in {"compressing", "hashing"}
          /\ "CANCEL" \in file[bg.file].status
      BY <3>1 DEF WakerInv, SleeperHasWaker
    <3>3. bg.file \in live
      BY <1>0, <3>2, Popped
    <3> QED
      BY <1>1, <3>1, <3>2, <3>3 DEF SameStatus
  <2>7. \A p \in live' : "DEDUPING" \notin file'[p].status
    BY <1>1 DEF WakerInv, SameStatus
  <2> QED
    BY <1>1, <2>5, <2>6, <2>7 DEF WakerInv
<1> QED
  BY <1>1, <1>3, <1>4

LEMMA HandlerStepWakes ==
    ASSUME CInv, WakerInv, ~DedupEnabled, NEW t \in Thread, HandlerStep(t)
    PROVE  WakerInv'
<1>0. IInv
  BY DEF CInv
<1> DEFINE kept == live' = live /\ queue' = queue /\ bg' = bg
           status == \A p \in live : SameStatus(p)
<1>1. ASSUME kept, status, thr' = [thr EXCEPT ![t] = Idle] PROVE WakerInv'
  BY <1>1, EndWakes
<1>3. ASSUME file' = file PROVE status
  BY <1>3 DEF SameStatus
<1>4. CASE LockDatabase(t) \/ DirectOpenPurge(t) \/ RenameLockFrom(t)
  <2>1. kept /\ file' = file
    BY <1>4, Zenon DEF LockDatabase, DirectOpenPurge, RenameLockFrom
  <2>2. (\A u \in Thread \ {t} : thr'[u] = thr[u]) /\ thr'[t].pc # "wait"
    BY <1>0, <1>4 DEF LockDatabase, DirectOpenPurge, RenameLockFrom, IInv, TypeOK, ThreadRec
  <2> QED
    BY <1>3, <2>1, <2>2, WakerStays
<1>5. CASE Rewake(t) \/ \E o \in Obj : DirectOpenHit(t, o)
  BY <1>5, LookUpWakes
<1>6. ASSUME NEW o \in Obj, DirectNewFile(t, o) \/ PurgeEntry(t, o) PROVE WakerInv'
  BY <1>6, NewFileWakes, PurgeEntryWakes
<1>7. CASE Getattr(t) \/ Utime(t) \/ Mknod(t) \/ Unlink(t) \/ OpenFails(t) \/ OpenLeaksLock(t)
  <2>1. kept /\ thr' = [thr EXCEPT ![t] = Idle]
    BY <1>7, Zenon DEF Getattr, Utime, Mknod, Unlink, OpenFails, OpenLeaksLock, Return
  <2>2. CASE Utime(t) \/ Mknod(t)
    <3>1. file' = file
      BY <2>2, Zenon DEF Utime, Mknod
    <3> QED
      BY <1>1, <1>3, <2>1, <3>1
  <2>3. CASE Getattr(t)
    BY <1>0, <1>1, <2>1, <2>3, GetattrStatus
  <2>4. CASE Unlink(t) \/ OpenFails(t)
    BY <1>0, <1>1, <2>1, <2>4, UnlinkStatus
  <2>5. CASE OpenLeaksLock(t)
    BY <1>0, <1>1, <2>1, <2>5, OpenStatus
  <2> QED
    BY <1>7, <2>2, <2>3, <2>4, <2>5
<1>8. ASSUME NEW s \in Sizes, Truncate(t, s) PROVE WakerInv'
  <2>1. kept /\ thr' = [thr EXCEPT ![t] = Idle]
    BY <1>8, Zenon DEF Truncate, Return
  <2> QED
    BY <1>0, <1>1, <1>8, <2>1, TruncateStatus
<1>9. ASSUME NEW d \in Desc, Open(t, d) PROVE WakerInv'
  <2>1. kept /\ thr' = [thr EXCEPT ![t] = Idle]
    BY <1>9, Zenon DEF Open, Return
  <2> QED
    BY <1>0, <1>1, <1>9, <2>1, OpenStatus
<1>10. CASE ReadFail(t) \/ Pwrite(t)
  <2>1. kept /\ thr' = [thr EXCEPT ![t] = Idle]
    BY <1>10, Zenon DEF ReadFail, Pwrite
  <2> QED
    BY <1>0, <1>1, <1>10, <2>1, UnlockedStatus
<1>11. CASE RenameKeepFrom(t) \/ RenameKeepTo(t)
  <2>1. kept
    BY <1>11, Zenon DEF RenameKeepFrom, RenameKeepTo
  <2>2. (\A u \in Thread \ {t} : thr'[u] = thr[u]) /\ thr'[t].pc # "wait"
    <3>1. CASE RenameKeepFrom(t)
      <4> DEFINE r == [Idle EXCEPT !.pc = "stat", !.op = "rename2", !.from = thr[t].file,
                                   !.name = thr[t].other, !.other = thr[t].name]
      <4>1. thr' = [thr EXCEPT ![t] = r]
        BY <3>1 DEF RenameKeepFrom
      <4>2. r.pc = "stat"
        BY DEF Idle
      <4> HIDE DEF r
      <4> QED
        BY <1>0, <4>1, <4>2 DEF IInv, TypeOK
    <3>2. CASE RenameKeepTo(t)
      BY <1>0, <3>2 DEF RenameKeepTo, IInv, TypeOK, ThreadRec
    <3> QED
      BY <1>11, <3>1, <3>2
  <2> QED
    BY <1>0, <1>11, <2>1, <2>2, KeepStatus, WakerStays
<1>12. CASE RenameCommit(t)
  BY <1>12, RenameWakes
<1> QED
  BY <1>4, <1>5, <1>6, <1>7, <1>8, <1>9, <1>10, <1>11, <1>12, Zenon DEF HandlerStep

(* thread_compress(): somebody may wait only while the codec runs on his    *)
(* file, and the cancelled codec wakes everybody who waits for it.          *)
LEMMA NobodyWaits ==
    ASSUME CInv, WakerInv, bg.pc # "compressing" \/ ~Cancelled(bg.file)
    PROVE  \A u \in Thread : thr[u].pc # "wait"
BY NotHashing DEF WakerInv, SleeperHasWaker, Cancelled

LEMMA BgMarks ==
    ASSUME CInv, \/ BgSkip \/ BgCompressNot \/ BgCompress
                 \/ BgCompressCancelled \/ BgCompressCommit \/ BgCompressFails
    PROVE  \E g : /\ g.status \subseteq file[bg.file].status \cup {"COMPRESSING"}
                  /\ file' = [file EXCEPT ![bg.file] = g]
<1> DEFINE f == file[bg.file]
           i == disk[f.name]
           Like(g) == g.status \subseteq f.status \cup {"COMPRESSING"}
<1>0. IInv
  BY DEF CInv
<1>1. f \in FileRec /\ f.name \in Name
  <2>1. bg.pc # "idle"
    BY DEF BgSkip, BgCompressNot, BgCompress, BgCompressCancelled, BgCompressCommit, BgCompressFails
  <2> QED
    BY <2>1, MarkedFacts
<1>2. i # Null => i.size \in CachedSize
  BY <1>0, <1>1 DEF IInv, TypeOK, Image, CachedSize
<1>3. \A h \in FileRec : Like(h) => Like(Done(h)) /\ Like(DoneCompress(h))
  BY DoneKeeps
<1>4. Like(f) /\ Like([f EXCEPT !.status = @ \cup {"COMPRESSING"}])
  BY <1>1 DEF FileRec
<1>5. Delete(f) \in FileRec /\ Like(Delete(f))
  BY <1>1, DeleteKeeps, SmallKeeps
<1>6. ASSUME NEW s \in SUBSET Flag, s \subseteq f.status
      PROVE  LET h == [f EXCEPT !.status = s] IN h \in FileRec /\ Like(h)
  BY <1>1, <1>6 DEF FileRec
<1>7. ASSUME NEW c \in CachedSize, NEW s \in SUBSET Flag, s \subseteq f.status
      PROVE  LET h == [f EXCEPT !.status = s, !.compressor = TRUE, !.size = c] IN h \in FileRec /\ Like(h)
  BY <1>1, <1>7 DEF FileRec
<1>8. f.status \subseteq Flag
  BY <1>1 DEF FileRec
<1>9. CASE BgSkip
  <2>1. Like(Done(f)) /\ Like(DoneCompress(f))
    BY <1>1, <1>3, <1>4
  <2> HIDE DEF Like
  <2>2. \E g : Like(g) /\ file' = [file EXCEPT ![bg.file] = g]
    BY <1>9, <2>1 DEF BgSkip
  <2> QED
    BY <2>2 DEF Like
<1>10. CASE BgCompressNot
  <2>1. Like(DoneCompress(f)) /\ Like(DoneCompress(Delete(f)))
    BY <1>1, <1>3, <1>4, <1>5
  <2>2. i # Null => Like(DoneCompress([f EXCEPT !.compressor = TRUE, !.size = i.size]))
    <3> HAVE i # Null
    <3> DEFINE h == [f EXCEPT !.compressor = TRUE, !.size = i.size]
    <3>1. h \in FileRec /\ Like(h)
      BY <1>1, <1>2 DEF FileRec
    <3>2. Like(DoneCompress(h))
      <4> HIDE DEF h, f, Like
      <4> QED
        BY <1>3, <3>1
    <3> QED
      BY <3>2
  <2> HIDE DEF Like
  <2>3. \E g : Like(g) /\ file' = [file EXCEPT ![bg.file] = g]
    BY <1>10, <2>1, <2>2 DEF BgCompressNot
  <2> QED
    BY <2>3 DEF Like
<1>11. CASE BgCompress
  <2> DEFINE g == [f EXCEPT !.status = @ \cup {"COMPRESSING"}]
  <2>1. file' = [file EXCEPT ![bg.file] = g]
    BY <1>11 DEF BgCompress
  <2> QED
    BY <1>4, <2>1
<1>12. CASE BgCompressCancelled \/ BgCompressFails
  <2> DEFINE s1 == f.status \ {"COMPRESSING", "CANCEL"}
             s2 == f.status \ {"COMPRESSING"}
  <2>1. s1 \in SUBSET Flag /\ s2 \in SUBSET Flag /\ s1 \subseteq f.status /\ s2 \subseteq f.status
    BY <1>8
  <2>2. \/ file' = [file EXCEPT ![bg.file] = DoneCompress([f EXCEPT !.status = s1])]
        \/ file' = [file EXCEPT ![bg.file] = DoneCompress([f EXCEPT !.status = s2])]
    BY <1>12 DEF BgCompressCancelled, BgCompressFails
  <2> HIDE DEF s1, s2, f, Like
  <2>3. Like(DoneCompress([f EXCEPT !.status = s1])) /\ Like(DoneCompress([f EXCEPT !.status = s2]))
    BY <1>3, <1>6, <2>1
  <2>4. \E g : Like(g) /\ file' = [file EXCEPT ![bg.file] = g]
    BY <2>2, <2>3
  <2> QED
    BY <2>4 DEF Like, f
<1>13. CASE BgCompressCommit
  <2> DEFINE c == disk'[f.name].size
             s == f.status \ {"COMPRESSING"}
  <2>1. c \in CachedSize
    <3>1. /\ disk' = [disk EXCEPT ![f.name] = [data |-> bg.data, packed |-> TRUE, mtime |-> bg.mtime,
                                              size |-> IF i = Null THEN "big" ELSE i.size]]
      BY <1>13 DEF BgCompressCommit
    <3>2. c = IF i = Null THEN "big" ELSE i.size
      BY <1>0, <1>1, <3>1 DEF IInv, TypeOK
    <3> QED
      BY <1>2, <3>2 DEF CachedSize, SizeClass
  <2>2. file' = [file EXCEPT ![bg.file] = DoneCompress([f EXCEPT !.status = s, !.compressor = TRUE, !.size = c])]
    BY <1>13, Zenon DEF BgCompressCommit
  <2>3. s \in SUBSET Flag /\ s \subseteq f.status
    BY <1>8
  <2> DEFINE h == [f EXCEPT !.status = s, !.compressor = TRUE, !.size = c]
  <2> HIDE DEF c, s, f, Like
  <2>4. Like(DoneCompress(h))
    <3>1. h \in FileRec /\ Like(h)
      BY <1>7, <2>1, <2>3, Zenon
    <3> HIDE DEF h
    <3> QED
      BY <1>3, <3>1
  <2> QED
    BY <2>2, <2>4 DEF Like, f
<1> QED
  BY <1>9, <1>10, <1>11, <1>12, <1>13

LEMMA BgStepWaker ==
    ASSUME CInv, WakerInv, BgStep
    PROVE  WakerInv'
<1>0. IInv
  BY DEF CInv
<1>1. CASE BgPop
  <2>1. /\ queue # <<>> /\ queue' = Tail(queue) /\ bg'.dedup = Head(queue).dedup
        /\ thr' = thr /\ live' = live /\ file' = file /\ bg.pc = "idle"
    BY <1>1 DEF BgPop, BgIdle
  <2>2. bg'.dedup = FALSE /\ \A i \in 1..Len(queue') : queue'[i].dedup = FALSE
    BY <1>0, <2>1 DEF WakerInv, IInv, TypeOK
  <2>3. \A u \in Thread : thr[u].pc # "wait"
    BY <2>1, NobodyWaits
  <2> QED
    BY <2>1, <2>2, <2>3 DEF WakerInv, SleeperHasWaker
<1>2. CASE BgSkip \/ BgCompressNot \/ BgCompress \/ BgCompressCancelled \/ BgCompressCommit \/ BgCompressFails
  <2>1. live' = live /\ queue' = queue
    BY <1>2, Zenon DEF BgSkip, BgCompressNot, BgCompress, BgCompressCancelled, BgCompressCommit, BgCompressFails
  <2>2. bg'.dedup = FALSE
    <3>1. CASE bg' = BgIdle
      BY <3>1 DEF BgIdle
    <3>2. CASE BgCompress
      BY <1>0, <3>2 DEF BgCompress, WakerInv, IInv, TypeOK, BgRec
    <3> QED
      BY <1>2, <3>1, <3>2, Zenon DEF BgSkip, BgCompressNot, BgCompressCancelled, BgCompressCommit, BgCompressFails
  <2>3. bg.pc # "idle"
    BY <1>2 DEF BgSkip, BgCompressNot, BgCompress, BgCompressCancelled, BgCompressCommit, BgCompressFails
  <2>4. PICK o \in live : o = bg.file /\ o \in Obj /\ file[o] \in FileRec
    BY <2>3, MarkedFacts
  <2>5. \E g : g.status \subseteq file[o].status \cup {"COMPRESSING"} /\ file' = [file EXCEPT ![o] = g]
    BY <1>2, <2>4, BgMarks
  <2>6. \A p \in live : "DEDUPING" \notin file'[p].status
    BY <1>0, <2>4, <2>5 DEF WakerInv, IInv, TypeOK
  <2>7. \A u \in Thread : thr'[u].pc # "wait"
    <3>1. CASE BgCompressCancelled
      BY <1>0, <2>4, <3>1 DEF BgCompressCancelled, Broadcast, WakerInv, SleeperHasWaker, IInv, TypeOK, ThreadRec
    <3>2. CASE BgSkip \/ BgCompressNot \/ BgCompress \/ BgCompressCommit \/ BgCompressFails
      <4>1. thr' = thr /\ (bg.pc # "compressing" \/ ~Cancelled(bg.file))
        BY <3>2 DEF BgSkip, BgCompressNot, BgCompress, BgCompressCommit, BgCompressFails
      <4> QED
        BY <4>1, NobodyWaits
    <3> QED
      BY <1>2, <3>1, <3>2
  <2>8. \A k \in 1..Len(queue') : queue'[k].dedup = FALSE
    BY <2>1 DEF WakerInv
  <2>9. \A p \in live' : "DEDUPING" \notin file'[p].status
    BY <2>1, <2>6
  <2>10. SleeperHasWaker'
    BY <2>7 DEF SleeperHasWaker
  <2> QED
    BY <2>2, <2>8, <2>9, <2>10 DEF WakerInv
<1>3. ~(BgDedup \/ BgDedupFails \/ BgDedupCancelled \/ BgDedupCommit)
  BY NotHashing DEF WakerInv, BgDedup, BgDedupFails, BgDedupCancelled, BgDedupCommit
<1> QED
  BY <1>1, <1>2, <1>3 DEF BgStep

(* Without deduplication, every thread that sleeps in direct_open() has the *)
(* background thread at work on its file, with CANCEL set: no wake-up is    *)
(* lost between the LOCK of the sleeper and that of thread_compress().      *)
THEOREM SleepersHaveWaker == ASSUME ~DedupEnabled PROVE Spec => []SleeperHasWaker
<1>1. Init => WakerInv
  BY DEF Init, WakerInv, SleeperHasWaker, Idle, BgIdle
<1>2. CInv /\ WakerInv /\ [Next]_vars => WakerInv'
  <2> SUFFICES ASSUME CInv, WakerInv, [Next]_vars PROVE WakerInv'
    OBVIOUS
  <2>1. CASE UNCHANGED vars
    BY <2>1, Zenon DEF vars, WakerInv, SleeperHasWaker
  <2>2. CASE BgStep
    BY <2>2, BgStepWaker
  <2>3. ASSUME NEW t \in Thread, CallStep(t) \/ HandlerStep(t) PROVE WakerInv'
    BY <2>3, CallStepWakes, HandlerStepWakes
  <2> QED
    BY <2>1, <2>2, <2>3, Zenon DEF Next
<1>3. WakerInv => SleeperHasWaker
  BY DEF WakerInv
<1> QED
  BY <1>1, <1>2, <1>3, ContentInvariance, PTL DEF Spec

-----------------------------------------------------------------------------
(* Raw writes.  A write that finds the file uncompressed gives the lock     *)
(* back and calls pwrite(); what keeps the file as it is meanwhile is that  *)
(* the entry of an open file knows a compressed image when there is one,    *)
(* that the kernel lets nobody else change the file through this mount, and *)
(* that a rename never ends on a name that is open.                         *)
HeaderKnown(o) == disk[file[o].name] # Null /\ disk[file[o].name].packed => file[o].compressor = TRUE

RawFile(o) ==
    /\ file[o].compressor = FALSE
    /\ disk[file[o].name] # Null => disk[file[o].name].packed = FALSE

RenameTarget(t) ==
    IF thr[t].op = "rename1" THEN thr[t].other
    ELSE IF thr[t].op = "rename2" THEN thr[t].name ELSE Null

HeadersKnown ==
    /\ \A d \in Desc : desc[d].file # Null => HeaderKnown(desc[d].file)
    /\ \A t \in Thread : thr[t].pc = "pwrite" => thr[t].op = "write" /\ RawFile(thr[t].file)
    /\ \A t \in Thread : \A d \in Desc :
          RenameTarget(t) # Null /\ desc[d].file # Null => file[desc[d].file].name # RenameTarget(t)

OpenOn(o) == \E d \in Desc : desc[d].file = o

(* What a step leaves alone: an entry's name and kind, the kind of a file   *)
(* on the disk, and what a thread has begun.                                *)
SameHeader(p) == file'[p].name = file[p].name /\ file'[p].compressor = file[p].compressor

PacksNothing(n) == disk'[n] # Null => disk'[n].packed = FALSE \/ (disk[n] # Null /\ disk'[n].packed = disk[n].packed)

BeginsNothing(u) ==
    /\ thr'[u].pc = "pwrite" => thr[u].pc = "pwrite" /\ thr'[u].op = thr[u].op /\ thr'[u].file = thr[u].file
    /\ RenameTarget(u)' \in {RenameTarget(u), Null}

LEMMA OpenFacts ==
    ASSUME IInv, NEW d \in Desc, desc[d].file # Null
    PROVE  /\ desc[d].file \in live /\ desc[d].file \in Obj /\ OpenOn(desc[d].file)
           /\ file[desc[d].file] \in FileRec /\ file[desc[d].file].name \in Name
BY DEF IInv, ReferencesLive, TableLive, TypeOK, OpenOn, FileRec

(* A step that changes the kind of at most the file of entry o.             *)
LEMMA HeadersUpdate ==
    ASSUME CInv, HeadersKnown, NEW o,
           \A d \in Desc :
              \/ desc'[d].file \in {desc[d].file, Null}
              \/ /\ desc'[d].file = o /\ HeaderKnown(o)'
                 /\ \A u \in Thread : RenameTarget(u)' # Null => file'[o].name # RenameTarget(u)',
           \A p \in live : OpenOn(p) /\ p # o => SameHeader(p) /\ PacksNothing(file[p].name),
           OpenOn(o) => HeaderKnown(o)' /\ file'[o].name = file[o].name,
           \A u \in Thread :
              /\ \/ thr'[u].pc # "pwrite"
                 \/ /\ thr[u].pc = "pwrite" /\ thr'[u].op = thr[u].op /\ thr'[u].file = thr[u].file
                    /\ thr[u].file = o => RawFile(o)'
                 \/ thr'[u].op = "write" /\ thr'[u].file = o /\ RawFile(o)'
              /\ RenameTarget(u)' \in {RenameTarget(u), Null}
    PROVE  HeadersKnown'
<1>0. IInv
  BY DEF CInv
<1>1. ASSUME NEW d \in Desc, desc'[d].file # Null PROVE HeaderKnown(desc[d].file)'
  <2> SUFFICES ASSUME desc'[d].file # o PROVE HeaderKnown(desc[d].file)'
    BY <1>1, OpenFacts, <1>0 DEF OpenOn
  <2>1. PICK p \in live : p = desc[d].file /\ desc'[d].file = p /\ OpenOn(p)
    BY <1>0, <1>1, OpenFacts
  <2>2. CASE p = o
    BY <2>1, <2>2
  <2>3. CASE p # o
    <3>1. HeaderKnown(p)
      BY <1>1, <2>1 DEF HeadersKnown
    <3>2. SameHeader(p) /\ PacksNothing(file[p].name)
      BY <2>1, <2>3
    <3> QED
      BY <2>1, <3>1, <3>2 DEF HeaderKnown, SameHeader, PacksNothing
  <2> QED
    BY <2>2, <2>3
<1>2. ASSUME NEW u \in Thread, thr'[u].pc = "pwrite" PROVE thr'[u].op = "write" /\ RawFile(thr[u].file)'
  <2>1. CASE thr'[u].op = "write" /\ thr'[u].file = o /\ RawFile(o)'
    BY <2>1
  <2>2. CASE thr[u].pc = "pwrite" /\ thr'[u].op = thr[u].op /\ thr'[u].file = thr[u].file /\ thr[u].file = o /\ RawFile(o)'
    BY <2>2 DEF HeadersKnown
  <2>3. CASE thr[u].pc = "pwrite" /\ thr'[u].op = thr[u].op /\ thr'[u].file = thr[u].file /\ thr[u].file # o
    <3>1. PICK p \in live : p = thr[u].file /\ OpenOn(p)
      BY <1>0, <2>3, Unlocked DEF OpenOn
    <3>2. SameHeader(p) /\ PacksNothing(file[p].name) /\ RawFile(p)
      BY <2>3, <3>1 DEF HeadersKnown
    <3>3. RawFile(p)'
      BY <3>2 DEF RawFile, SameHeader, PacksNothing
    <3>4. thr[u].op = "write"
      BY <2>3 DEF HeadersKnown
    <3> QED
      BY <2>3, <3>1, <3>3, <3>4
  <2> QED
    BY <1>2, <2>1, <2>2, <2>3
<1>3. ASSUME NEW u \in Thread, NEW d \in Desc, RenameTarget(u)' # Null, desc'[d].file # Null
      PROVE  file'[desc'[d].file].name # RenameTarget(u)'
  <2>0. CASE desc'[d].file \notin {desc[d].file, Null}
    BY <1>3, <2>0
  <2> SUFFICES ASSUME desc'[d].file = desc[d].file PROVE file'[desc'[d].file].name # RenameTarget(u)'
    BY <1>3, <2>0
  <2>1. PICK p \in live : p = desc[d].file /\ desc'[d].file = p /\ OpenOn(p) /\ p # Null
    BY <1>0, <1>3, OpenFacts
  <2>2. file'[p].name = file[p].name
    BY <2>1 DEF SameHeader
  <2>3. RenameTarget(u)' = RenameTarget(u)
    BY <1>3
  <2> QED
    BY <1>3, <2>1, <2>2, <2>3 DEF HeadersKnown
<1> QED
  BY <1>1, <1>2, <1>3 DEF HeadersKnown

LEMMA HeadersStay ==
    ASSUME CInv, HeadersKnown,
           \A d \in Desc : desc'[d].file \in {desc[d].file, Null},
           \A p \in live : OpenOn(p) => SameHeader(p),
           \A n \in Name : PacksNothing(n),
           \A u \in Thread : BeginsNothing(u)
    PROVE  HeadersKnown'
<1>0. IInv
  BY DEF CInv
<1>1. ASSUME NEW d \in Desc, desc'[d].file # Null PROVE HeaderKnown(desc[d].file)'
  <2>1. PICK p \in live : p = desc[d].file /\ desc'[d].file = p /\ OpenOn(p) /\ file[p].name \in Name
    BY <1>0, <1>1, OpenFacts
  <2>2. HeaderKnown(p)
    BY <1>1, <2>1 DEF HeadersKnown
  <2>3. SameHeader(p) /\ PacksNothing(file[p].name)
    BY <2>1
  <2> QED
    BY <2>1, <2>2, <2>3 DEF HeaderKnown, SameHeader, PacksNothing
<1>2. ASSUME NEW u \in Thread, thr'[u].pc = "pwrite" PROVE thr'[u].op = "write" /\ RawFile(thr[u].file)'
  <2>1. thr[u].pc = "pwrite" /\ thr'[u].op = thr[u].op /\ thr'[u].file = thr[u].file
    BY <1>2 DEF BeginsNothing
  <2>2. PICK p \in live : p = thr[u].file /\ OpenOn(p) /\ file[p].name \in Name
    BY <1>0, <2>1, Unlocked DEF OpenOn
  <2>3. SameHeader(p) /\ PacksNothing(file[p].name) /\ RawFile(p) /\ thr[u].op = "write"
    BY <2>1, <2>2 DEF HeadersKnown
  <2>4. RawFile(p)'
    BY <2>3 DEF RawFile, SameHeader, PacksNothing
  <2> QED
    BY <2>1, <2>2, <2>3, <2>4
<1>3. ASSUME NEW u \in Thread, NEW d \in Desc, RenameTarget(u)' # Null, desc'[d].file # Null
      PROVE  file'[desc'[d].file].name # RenameTarget(u)'
  <2>1. PICK p \in live : p = desc[d].file /\ desc'[d].file = p /\ OpenOn(p) /\ p # Null
    BY <1>0, <1>3, OpenFacts
  <2>2. file'[p].name = file[p].name
    BY <2>1 DEF SameHeader
  <2>3. RenameTarget(u)' = RenameTarget(u)
    BY <1>3 DEF BeginsNothing
  <2> QED
    BY <1>3, <2>1, <2>2, <2>3 DEF HeadersKnown
<1> QED
  BY <1>1, <1>2, <1>3 DEF HeadersKnown

LEMMA HeaderUpdate ==
    ASSUME IInv, NEW o \in Obj, NEW g, file' = [file EXCEPT ![o] = g],
           g.name = file[o].name, g.compressor = file[o].compressor
    PROVE  \A p \in live : SameHeader(p)
BY DEF SameHeader, IInv, TypeOK

LEMMA SmallHeaders ==
    ASSUME NEW f \in FileRec
    PROVE  /\ Discard(f).compressor = f.compressor /\ Delete(f).compressor = f.compressor
           /\ DirectClose(f).compressor = f.compressor
           /\ Done(f).compressor = f.compressor /\ DoneCompress(f).compressor = f.compressor
<1>1. /\ Discard(f) \in FileRec /\ Discard(f).compressor = f.compressor /\ Delete(f).compressor = f.compressor
      /\ DirectClose(f).compressor = f.compressor
  BY DEF Discard, Delete, DirectClose, FileRec
<1>2. \A h \in FileRec : Done(h).compressor = h.compressor
  BY DEF Done, FileRec
<1> QED
  BY <1>1, <1>2 DEF DoneCompress

(* What a thread has begun: nothing at the end of a handler, ...            *)
LEMMA EndBegins ==
    ASSUME IInv, NEW t \in Thread, thr' = [thr EXCEPT ![t] = Idle]
    PROVE  \A u \in Thread : BeginsNothing(u)
<1>1. Idle.pc = "idle" /\ Idle.op = "none"
  BY DEF Idle
<1>2. thr'[t] = Idle /\ \A u \in Thread \ {t} : thr'[u] = thr[u]
  BY DEF IInv, TypeOK
<1> QED
  BY <1>1, <1>2 DEF BeginsNothing, RenameTarget

(* ... nothing new in the middle of one, ...                                *)
LEMMA OnBegins ==
    ASSUME NEW t \in Thread, \A u \in Thread \ {t} : thr'[u] = thr[u],
           thr'[t].pc # "pwrite",
           \/ thr'[t].op = thr[t].op /\ thr'[t].name = thr[t].name /\ thr'[t].other = thr[t].other
           \/ thr'[t].op \notin {"rename1", "rename2"}
    PROVE  \A u \in Thread : BeginsNothing(u)
BY DEF BeginsNothing, RenameTarget

(* ... and nothing by the background thread.                                *)
LEMMA BgBegins ==
    ASSUME IInv, NEW o, thr' = thr \/ Broadcast(o)
    PROVE  \A u \in Thread : BeginsNothing(u)
<1>1. \A u \in Thread : thr'[u] = thr[u] \/ (thr[u].pc = "wait" /\ thr'[u] = [thr[u] EXCEPT !.pc = "woken"])
  BY WokenOnly
<1>2. \A u \in Thread : thr[u] \in ThreadRec
  BY DEF IInv, TypeOK
<1> SUFFICES ASSUME NEW u \in Thread PROVE BeginsNothing(u)
  OBVIOUS
<1>3. CASE thr'[u] = thr[u]
  BY <1>3 DEF BeginsNothing, RenameTarget
<1>4. CASE thr'[u] = [thr[u] EXCEPT !.pc = "woken"]
  <2>1. /\ thr'[u].pc = "woken" /\ thr'[u].op = thr[u].op /\ thr'[u].name = thr[u].name
        /\ thr'[u].other = thr[u].other
    BY <1>2, <1>4 DEF ThreadRec
  <2> QED
    BY <2>1 DEF BeginsNothing, RenameTarget
<1> QED
  BY <1>1, <1>3, <1>4

(* Steps that change neither the kind of a file nor what an entry knows.    *)
LEMMA QuietHandlerHeaders ==
    ASSUME CInv, HeadersKnown, NEW t \in Thread,
           \/ LockDatabase(t) \/ DirectOpenPurge(t) \/ RenameLockFrom(t) \/ Utime(t) \/ Mknod(t)
    PROVE  HeadersKnown'
<1>0. IInv /\ thr[t] \in ThreadRec
  BY DEF CInv, IInv, TypeOK
<1>1. file' = file /\ desc' = desc
  BY Zenon DEF LockDatabase, DirectOpenPurge, RenameLockFrom, Utime, Mknod
<1>2. \A u \in Thread : BeginsNothing(u)
  <2>1. CASE LockDatabase(t) \/ DirectOpenPurge(t) \/ RenameLockFrom(t)
    <3>1. /\ \A u \in Thread \ {t} : thr'[u] = thr[u]
          /\ thr'[t].pc # "pwrite"
          /\ thr'[t].op = thr[t].op /\ thr'[t].name = thr[t].name /\ thr'[t].other = thr[t].other
      BY <1>0, <2>1 DEF LockDatabase, DirectOpenPurge, RenameLockFrom, IInv, TypeOK, ThreadRec
    <3> QED
      BY <3>1, OnBegins
  <2>2. CASE Utime(t) \/ Mknod(t)
    <3>1. thr' = [thr EXCEPT ![t] = Idle]
      BY <2>2, Zenon DEF Utime, Mknod, Return
    <3> QED
      BY <1>0, <3>1, EndBegins
  <2> QED
    BY <2>1, <2>2
<1>3. \A n \in Name : PacksNothing(n)
  <2>1. CASE disk' = disk
    BY <2>1 DEF PacksNothing
  <2>2. CASE Utime(t)
    <3>1. PICK k \in Name : k = thr[t].name
      BY <1>0, <2>2, Holding DEF Utime
    <3>2. disk' = disk \/ \E m \in Time : disk[k] # Null /\ disk' = [disk EXCEPT ![k].mtime = m]
      BY <2>2, <3>1 DEF Utime
    <3> QED
      BY <1>0, <3>2 DEF PacksNothing, IInv, TypeOK, Image
  <2>3. CASE Mknod(t)
    <3>1. PICK k \in Name : k = thr[t].name
      BY <1>0, <2>3, Holding DEF Mknod
    <3>2. \/ disk' = disk
          \/ \E c \in Data, m \in Time :
               disk' = [disk EXCEPT ![k] = [data |-> c, packed |-> FALSE, size |-> "empty", mtime |-> m]]
      BY <2>3, <3>1 DEF Mknod
    <3> QED
      BY <1>0, <3>2 DEF PacksNothing, IInv, TypeOK
  <2>4. CASE LockDatabase(t) \/ DirectOpenPurge(t) \/ RenameLockFrom(t)
    BY <2>1, <2>4 DEF LockDatabase, DirectOpenPurge, RenameLockFrom
  <2> QED
    BY <2>2, <2>3, <2>4
<1> QED
  BY <1>1, <1>2, <1>3, HeadersStay DEF SameHeader

LEMMA LockOrWaitHeaders ==
    ASSUME CInv, HeadersKnown, NEW t \in Thread, NEW o \in live, NEW f \in FileRec,
           f.name = file[o].name, f.compressor = file[o].compressor, LockOrWait(t, o, f),
           desc' = desc, disk' = disk
    PROVE  HeadersKnown'
<1>0. IInv /\ o \in Obj /\ thr[t] \in ThreadRec
  BY DEF CInv, IInv, TypeOK
<1> DEFINE w == [f EXCEPT !.status = @ \cup {"CANCEL"}]
<1>1. w.name = f.name /\ w.compressor = f.compressor
  BY DEF FileRec
<1>2. file' = [file EXCEPT ![o] = f] \/ file' = [file EXCEPT ![o] = w]
  BY DEF LockOrWait
<1>3. \A p \in live : SameHeader(p)
  <2> HIDE DEF w
  <2> QED
    BY <1>0, <1>1, <1>2, HeaderUpdate
<1>4. thr' = [thr EXCEPT ![t].pc = "wait", ![t].file = o] \/ thr' = [thr EXCEPT ![t].pc = "locked", ![t].file = o]
  BY DEF LockOrWait
<1>5. /\ \A u \in Thread \ {t} : thr'[u] = thr[u]
      /\ thr'[t].pc # "pwrite"
      /\ thr'[t].op = thr[t].op /\ thr'[t].name = thr[t].name /\ thr'[t].other = thr[t].other
  BY <1>0, <1>4 DEF IInv, TypeOK, ThreadRec
<1>6. \A u \in Thread : BeginsNothing(u)
  BY <1>5, OnBegins
<1>7. \A n \in Name : PacksNothing(n)
  BY DEF PacksNothing
<1> QED
  BY <1>3, <1>6, <1>7, HeadersStay

LEMMA LookUpHeaders ==
    ASSUME CInv, HeadersKnown, NEW t \in Thread,
           Rewake(t) \/ \E o \in Obj : DirectOpenHit(t, o)
    PROVE  HeadersKnown'
<1>0. IInv
  BY DEF CInv
<1>1. CASE Rewake(t)
  <2>1. thr[t].file \in live /\ LockOrWait(t, thr[t].file, file[thr[t].file]) /\ desc' = desc /\ disk' = disk
    BY <1>1 DEF Rewake
  <2>2. PICK o \in live, f \in FileRec : o = thr[t].file /\ f = file[o]
    BY <1>0, <2>1 DEF IInv, TableLive
  <2>3. LockOrWait(t, o, f)
    BY <2>1, <2>2
  <2> QED
    BY <2>1, <2>2, <2>3, LockOrWaitHeaders
<1>2. ASSUME NEW o \in Obj, DirectOpenHit(t, o) PROVE HeadersKnown'
  <2>1. o \in live /\ file[o] \in FileRec
    BY <1>0, <1>2 DEF DirectOpenHit, IInv, TableLive
  <2>2. PICK f : f = [file[o] EXCEPT !.deleted = FALSE]
    OBVIOUS
  <2>3. f \in FileRec /\ f.name = file[o].name /\ f.compressor = file[o].compressor
    BY <2>1, <2>2 DEF FileRec
  <2>4. LockOrWait(t, o, f) /\ desc' = desc /\ disk' = disk
    BY <1>2, <2>2 DEF DirectOpenHit
  <2> QED
    BY <2>1, <2>3, <2>4, LockOrWaitHeaders
<1> QED
  BY <1>1, <1>2

LEMMA NewFileHeaders ==
    ASSUME CInv, HeadersKnown, NEW t \in Thread, NEW o \in Obj, DirectNewFile(t, o)
    PROVE  HeadersKnown'
<1>0. IInv
  BY DEF CInv
<1>1. o \notin live /\ desc' = desc /\ disk' = disk
  BY DEF DirectNewFile
<1>2. \A p \in live : file'[p] = file[p]
  BY <1>0, <1>1 DEF DirectNewFile, IInv, TypeOK
<1>3. /\ \A u \in Thread \ {t} : thr'[u] = thr[u]
      /\ thr'[t].pc # "pwrite"
      /\ thr'[t].op = thr[t].op /\ thr'[t].name = thr[t].name /\ thr'[t].other = thr[t].other
  BY <1>0 DEF DirectNewFile, IInv, TypeOK, ThreadRec
<1>4. \A u \in Thread : BeginsNothing(u)
  BY <1>3, OnBegins
<1> QED
  BY <1>1, <1>2, <1>4, HeadersStay DEF SameHeader, PacksNothing

LEMMA PurgeEntryHeaders ==
    ASSUME CInv, HeadersKnown, NEW t \in Thread, NEW o \in Obj, PurgeEntry(t, o)
    PROVE  HeadersKnown'
<1>0. IInv /\ thr[t] \in ThreadRec
  BY DEF CInv, IInv, TypeOK
<1>1. /\ thr' = [thr EXCEPT ![t].walk = @ \ {o}] /\ desc' = desc /\ disk' = disk /\ thr[t].pc = "purge"
  BY DEF PurgeEntry
<1>2. /\ \A u \in Thread \ {t} : thr'[u] = thr[u]
      /\ thr'[t].pc # "pwrite"
      /\ thr'[t].op = thr[t].op /\ thr'[t].name = thr[t].name /\ thr'[t].other = thr[t].other
  BY <1>0, <1>1 DEF IInv, TypeOK, ThreadRec
<1>3. o \in live /\ file[o] \in FileRec
  BY <1>0, <1>1 DEF PurgeEntry, IInv, TableLive, Control, ControlOf
<1>4. \/ file' = file
      \/ file' = [file EXCEPT ![o].accesses = @ + 1]
      \/ file[o].accesses = 0 /\ file' = [file EXCEPT ![o] = Null]
  BY Zenon DEF PurgeEntry, PurgeUnused, Enqueue, WantsDedup
<1>5. \A p \in live : OpenOn(p) => SameHeader(p)
  <2>1. CASE file' = [file EXCEPT ![o].accesses = @ + 1]
    BY <1>0, <1>3, <2>1 DEF SameHeader, IInv, TypeOK, FileRec
  <2>2. CASE file[o].accesses = 0 /\ file' = [file EXCEPT ![o] = Null]
    <3>1. ~OpenOn(o)
      BY <1>0, <1>3, <2>2, Unused DEF DescOf, OpenOn
    <3> QED
      BY <1>0, <2>2, <3>1 DEF SameHeader, IInv, TypeOK
  <2> QED
    BY <1>4, <2>1, <2>2 DEF SameHeader
<1>6. \A u \in Thread : BeginsNothing(u)
  BY <1>2, OnBegins
<1> QED
  BY <1>1, <1>5, <1>6, HeadersStay DEF PacksNothing

LEMMA UnlinkHeaders ==
    ASSUME CInv, HeadersKnown, NEW t \in Thread, Unlink(t) \/ OpenFails(t) \/ OpenLeaksLock(t)
    PROVE  HeadersKnown'
<1>0. IInv
  BY DEF CInv
<1>1. PICK o \in Obj : o = thr[t].file /\ file[o] \in FileRec /\ thr[t].name \in Name
  <2>1. \E op : op # "rename2" /\ Holds(t, op)
    BY Zenon DEF Unlink, OpenFails, OpenLeaksLock
  <2> QED
    BY <1>0, <2>1, Holding
<1>2. /\ thr' = [thr EXCEPT ![t] = Idle] /\ desc' = desc
      /\ disk' = disk \/ disk' = [disk EXCEPT ![thr[t].name] = Null]
  BY Zenon DEF Unlink, OpenFails, OpenLeaksLock, Return
<1> DEFINE Like(g) == g.name = file[o].name /\ g.compressor = file[o].compressor
<1>3. \A f \in {file[o], Discard(file[o])} : f \in FileRec /\ Like(f)
  BY <1>1, DiscardKeeps, SmallHeaders
<1>4. \A f \in {file[o], Discard(file[o])} : \A linked :
         Like(f) /\ Like(Delete(f)) /\ Like([f EXCEPT !.dontcompress = @ \/ linked])
  <2>1. \A f \in FileRec : \A linked : /\ [f EXCEPT !.dontcompress = @ \/ linked].name = f.name
                                   /\ [f EXCEPT !.dontcompress = @ \/ linked].compressor = f.compressor
    BY DEF FileRec
  <2> QED
    BY <1>3, <2>1, DeleteKeeps, SmallHeaders
<1>5. \E g : Like(g) /\ file' = [file EXCEPT ![o] = g]
  <2> HIDE DEF Like
  <2>1. CASE Unlink(t)
    BY <1>1, <1>4, <2>1 DEF Unlink
  <2>2. CASE OpenFails(t)
    BY <1>1, <1>4, <2>2 DEF OpenFails
  <2>3. CASE OpenLeaksLock(t)
    BY <1>1, <1>4, <2>3, Zenon DEF OpenLeaksLock
  <2> QED
    BY <2>1, <2>2, <2>3
<1>6. \A p \in live : SameHeader(p)
  BY <1>0, <1>5, HeaderUpdate
<1>7. \A n \in Name : PacksNothing(n)
  BY <1>0, <1>1, <1>2 DEF PacksNothing, IInv, TypeOK
<1>8. \A u \in Thread : BeginsNothing(u)
  BY <1>0, <1>2, EndBegins
<1> QED
  BY <1>2, <1>6, <1>7, <1>8, HeadersStay

LEMMA KeepHeaders ==
    ASSUME CInv, HeadersKnown, NEW t \in Thread, RenameKeepFrom(t) \/ RenameKeepTo(t)
    PROVE  HeadersKnown'
<1>0. IInv /\ thr[t] \in ThreadRec
  BY DEF CInv, IInv, TypeOK
<1>1. thr[t].pc = "locked"
  BY DEF RenameKeepFrom, RenameKeepTo, Holds
<1>2. PICK o \in live : o = thr[t].file
  BY <1>0, <1>1 DEF IInv, Control, ControlOf
<1>3. o \in Obj /\ file[o] \in FileRec
  BY <1>0 DEF IInv, TableLive, TypeOK
<1> DEFINE g == [file[o] EXCEPT !.accesses = @ + 1]
<1>4. file' = [file EXCEPT ![o] = g] /\ desc' = desc /\ disk' = disk
  BY <1>2, Zenon DEF RenameKeepFrom, RenameKeepTo
<1>5. g.name = file[o].name /\ g.compressor = file[o].compressor
  BY <1>3 DEF FileRec
<1>6. \A p \in live : SameHeader(p)
  <2> HIDE DEF g
  <2> QED
    BY <1>0, <1>3, <1>4, <1>5, HeaderUpdate
<1>7. \A u \in Thread : BeginsNothing(u)
  <2>1. CASE RenameKeepFrom(t)
    <3> DEFINE r == [Idle EXCEPT !.pc = "stat", !.op = "rename2", !.from = thr[t].file,
                                 !.name = thr[t].other, !.other = thr[t].name]
    <3>1. thr' = [thr EXCEPT ![t] = r] /\ thr[t].op = "rename1"
      BY <2>1 DEF RenameKeepFrom, Holds
    <3>2. r.pc = "stat" /\ r.op = "rename2" /\ r.name = thr[t].other
      BY DEF Idle
    <3> HIDE DEF r
    <3>3. thr'[t] = r /\ \A u \in Thread \ {t} : thr'[u] = thr[u]
      BY <1>0, <3>1 DEF IInv, TypeOK
    <3> QED
      BY <3>1, <3>2, <3>3 DEF BeginsNothing, RenameTarget
  <2>2. CASE RenameKeepTo(t)
    <3>1. /\ \A u \in Thread \ {t} : thr'[u] = thr[u]
          /\ thr'[t].pc # "pwrite"
          /\ thr'[t].op = thr[t].op /\ thr'[t].name = thr[t].name /\ thr'[t].other = thr[t].other
      BY <1>0, <2>2 DEF RenameKeepTo, IInv, TypeOK, ThreadRec
    <3> QED
      BY <3>1, OnBegins
  <2> QED
    BY <2>1, <2>2
<1> QED
  BY <1>4, <1>6, <1>7, HeadersStay DEF PacksNothing

LEMMA UnlockedHeaders ==
    ASSUME CInv, HeadersKnown, NEW t \in Thread, ReadFail(t) \/ Pwrite(t)
    PROVE  HeadersKnown'
<1>0. IInv
  BY DEF CInv
<1>1. thr[t].pc \in {"pwrite", "readfail"}
  BY Zenon DEF ReadFail, Pwrite
<1>2. PICK o \in Obj : o = thr[t].file /\ file[o] \in FileRec /\ file[o].name \in Name
  BY <1>0, <1>1, Unlocked
<1>3. file' = file \/ file' = [file EXCEPT ![o].size = "unknown"]
  BY <1>2, Zenon DEF ReadFail, Pwrite
<1>4. \A p \in live : SameHeader(p)
  <2> DEFINE g == [file[o] EXCEPT !.size = "unknown"]
  <2>1. g.name = file[o].name /\ g.compressor = file[o].compressor
    BY <1>2 DEF FileRec
  <2>2. file' = file \/ file' = [file EXCEPT ![o] = g]
    BY <1>3
  <2> HIDE DEF g
  <2> QED
    BY <1>0, <2>1, <2>2, HeaderUpdate DEF SameHeader
<1>5. desc' = desc /\ thr' = [thr EXCEPT ![t] = Idle]
  BY Zenon DEF ReadFail, Pwrite
<1>6. \A n \in Name : PacksNothing(n)
  <2>1. CASE disk' = disk
    BY <2>1 DEF PacksNothing
  <2>2. PICK k \in Name : k = file[o].name
    BY <1>2
  <2>3. ASSUME disk[k] # Null, NEW s, NEW c, NEW m,
               disk' = [disk EXCEPT ![k] =
                   IF @.packed THEN [@ EXCEPT !.data = Garbage, !.mtime = m]
                   ELSE [data |-> c, packed |-> FALSE, size |-> s, mtime |-> m]]
        PROVE  \A n \in Name : PacksNothing(n)
    <3>1. disk[k] \in Image
      BY <1>0, <2>2, <2>3 DEF IInv, TypeOK
    <3> DEFINE i == IF disk[k].packed THEN [disk[k] EXCEPT !.data = Garbage, !.mtime = m]
                    ELSE [data |-> c, packed |-> FALSE, size |-> s, mtime |-> m]
    <3>2. i.packed = disk[k].packed
      BY <3>1 DEF Image
    <3>3. disk' = [disk EXCEPT ![k] = i]
      BY <2>3
    <3> HIDE DEF i
    <3>4. disk'[k] = i /\ \A n \in Name \ {k} : disk'[n] = disk[n]
      BY <1>0, <2>2, <3>3 DEF IInv, TypeOK
    <3> QED
      BY <2>3, <3>2, <3>4 DEF PacksNothing
  <2>4. CASE ReadFail(t)
    BY <2>1, <2>4, Zenon DEF ReadFail
  <2>5. CASE Pwrite(t)
    BY <1>2, <2>1, <2>2, <2>3, <2>5, Zenon DEF Pwrite
  <2> QED
    BY <2>4, <2>5
<1> QED
  BY <1>0, <1>4, <1>5, <1>6, EndBegins, HeadersStay

LEMMA ReleaseHeaders ==
    ASSUME CInv, HeadersKnown, NEW t \in Thread, NEW d \in Desc, Release(t, d)
    PROVE  HeadersKnown'
<1>0. IInv
  BY DEF CInv
<1>1. PICK o \in Obj : o = desc[d].file /\ file[o] \in FileRec
  BY <1>0, UsableFacts DEF Release
<1> DEFINE f == IF file[o].compressor THEN DirectClose(file[o]) ELSE file[o]
           g == [f EXCEPT !.accesses = @ - 1]
<1>2. f \in FileRec /\ f.name = file[o].name /\ f.compressor = file[o].compressor
  BY <1>1, SmallKeeps, SmallHeaders, DirectCloseKeeps
<1>3. file' = [file EXCEPT ![o] = g] /\ desc' = [desc EXCEPT ![d] = Closed] /\ disk' = disk /\ thr' = thr
  BY <1>1 DEF Release
<1>4. g.name = file[o].name /\ g.compressor = file[o].compressor
  <2> HIDE DEF f
  <2> QED
    BY <1>2 DEF FileRec
<1> HIDE DEF g
<1>5. \A p \in live : SameHeader(p)
  BY <1>0, <1>3, <1>4, HeaderUpdate
<1>6. \A x \in Desc : desc'[x].file \in {desc[x].file, Null}
  BY <1>0, <1>3 DEF Closed, IInv, TypeOK
<1>7. \A u \in Thread : BeginsNothing(u)
  BY <1>3 DEF BeginsNothing, RenameTarget
<1> QED
  BY <1>3, <1>5, <1>6, <1>7, HeadersStay DEF PacksNothing

(* A call begins; a rename only onto a name that is not open.               *)
LEMMA BeginHeaders ==
    ASSUME CInv, HeadersKnown, NEW t \in Thread, NEW r, thr' = [thr EXCEPT ![t] = r],
           r.pc # "pwrite", r.op \notin {"rename1", "rename2"}, file' = file, desc' = desc, disk' = disk
    PROVE  HeadersKnown'
<1>1. (\A u \in Thread \ {t} : thr'[u] = thr[u]) /\ thr'[t] = r
  BY DEF CInv, IInv, TypeOK
<1>2. \A u \in Thread : BeginsNothing(u)
  BY <1>1, OnBegins
<1> QED
  BY <1>2, HeadersStay DEF SameHeader, PacksNothing

LEMMA CallHeaders ==
    ASSUME CInv, HeadersKnown, NEW t \in Thread, NEW n, NEW op, op \notin {"rename1", "rename2"}, Call(t, op, n, Null)
    PROVE  HeadersKnown'
<1> DEFINE r == [Idle EXCEPT !.pc = "scan", !.op = op, !.name = n, !.other = Null]
<1>1. thr' = [thr EXCEPT ![t] = r] /\ file' = file /\ desc' = desc /\ disk' = disk
  BY DEF Call
<1>2. r.pc = "scan" /\ r.op = op
  BY DEF Idle
<1> HIDE DEF r
<1> QED
  BY <1>1, <1>2, BeginHeaders

LEMMA LstatHeaders ==
    ASSUME CInv, HeadersKnown, NEW t \in Thread, NEW n, Lstat(t, n)
    PROVE  HeadersKnown'
<1> DEFINE r == [Idle EXCEPT !.pc = "stat", !.op = "getattr", !.name = n, !.stat = OnDiskSize(n)]
<1>1. thr' = [thr EXCEPT ![t] = r] /\ file' = file /\ desc' = desc /\ disk' = disk
  BY DEF Lstat
<1>2. r.pc = "stat" /\ r.op = "getattr"
  BY DEF Idle
<1> HIDE DEF r
<1> QED
  BY <1>1, <1>2, BeginHeaders

LEMMA RenameBeginHeaders ==
    ASSUME CInv, HeadersKnown, NEW t \in Thread, NEW n, NEW m, Call(t, "rename1", n, m)
    PROVE  HeadersKnown'
<1>0. IInv /\ file' = file /\ desc' = desc /\ disk' = disk
  BY DEF CInv, Call
<1> DEFINE r == [Idle EXCEPT !.pc = "scan", !.op = "rename1", !.name = n, !.other = m]
<1>1. thr' = [thr EXCEPT ![t] = r] /\ NotOpen(m)
  BY DEF Call
<1>2. r.pc = "scan" /\ r.op = "rename1" /\ r.other = m
  BY DEF Idle
<1> HIDE DEF r
<1>3. thr'[t] = r /\ \A u \in Thread \ {t} : thr'[u] = thr[u]
  BY <1>0, <1>1 DEF IInv, TypeOK
<1>4. \A d \in Desc : desc[d].file # Null => HeaderKnown(desc[d].file)'
  BY <1>0 DEF HeadersKnown, HeaderKnown
<1>5. \A u \in Thread : thr'[u].pc = "pwrite" => u # t /\ thr[u].op = "write" /\ RawFile(thr[u].file)'
  BY <1>0, <1>2, <1>3 DEF HeadersKnown, RawFile
<1>6. \A u \in Thread \ {t} : RenameTarget(u)' = RenameTarget(u)
  BY <1>3 DEF RenameTarget
<1>7. RenameTarget(t)' = m
  BY <1>2, <1>3 DEF RenameTarget
<1>8. \A d \in Desc : desc[d].file # Null => file[desc[d].file].name # m
  BY <1>1 DEF NotOpen
<1>9. \A u \in Thread : \A d \in Desc :
         RenameTarget(u)' # Null /\ desc'[d].file # Null => file'[desc'[d].file].name # RenameTarget(u)'
  BY <1>0, <1>6, <1>7, <1>8 DEF HeadersKnown
<1>10. \A u \in Thread : thr'[u].pc = "pwrite" => thr'[u].op = "write" /\ RawFile(thr[u].file)'
  BY <1>3, <1>5
<1> QED
  BY <1>0, <1>4, <1>9, <1>10 DEF HeadersKnown

(* A step on the file of entry o only.                                      *)
LEMMA OthersHeaders ==
    ASSUME CInv, NEW o \in live, NEW g, file' = [file EXCEPT ![o] = g],
           disk' = disk \/ \E j : disk' = [disk EXCEPT ![file[o].name] = j]
    PROVE  /\ \A p \in live : p # o => SameHeader(p) /\ PacksNothing(file[p].name)
           /\ file'[o] = g
<1>1. o \in Obj /\ \A p \in live : p \in Obj /\ p \in database
  BY DEF CInv, TableWhole, IInv, TypeOK
<1>2. \A p \in live : p # o => file'[p] = file[p]
  BY <1>1 DEF CInv, IInv, TypeOK
<1>3. \A p \in live : p # o => file[p].name # file[o].name
  BY <1>1 DEF CInv, OneEntryPerName
<1>4. file[o].name \in Name /\ \A p \in live : file[p].name \in Name
  BY DEF CInv, IInv, TableLive, FileRec
<1>5. \A p \in live : p # o => disk'[file[p].name] = disk[file[p].name]
  BY <1>3, <1>4 DEF CInv, IInv, TypeOK
<1>6. file'[o] = g
  BY <1>1 DEF CInv, IInv, TypeOK
<1> QED
  BY <1>2, <1>5, <1>6 DEF SameHeader, PacksNothing

LEMMA EntryHeaders ==
    ASSUME CInv, HeadersKnown, NEW o \in live, NEW g, file' = [file EXCEPT ![o] = g],
           disk' = disk \/ \E j : disk' = [disk EXCEPT ![file[o].name] = j],
           \A d \in Desc : desc'[d].file \in {desc[d].file, Null},
           OpenOn(o) => HeaderKnown(o)' /\ g.name = file[o].name,
           \A u \in Thread : BeginsNothing(u),
           \A u \in Thread : thr[u].pc = "pwrite" /\ thr[u].file = o => RawFile(o)'
    PROVE  HeadersKnown'
<1>1. /\ \A p \in live : p # o => SameHeader(p) /\ PacksNothing(file[p].name)
      /\ file'[o] = g
  BY OthersHeaders
<1> QED
  BY <1>1, HeadersUpdate DEF BeginsNothing

(* Nobody writes to a file that another call changes.                       *)
LEMMA NoOtherWriter ==
    ASSUME CInv, HeadersKnown, NEW t \in Thread, thr[t].op = "truncate", thr[t].pc # "pwrite"
    PROVE  \A u \in Thread : thr[u].pc = "pwrite" => file[thr[u].file].name # thr[t].name
<1> SUFFICES ASSUME NEW u \in Thread, thr[u].pc = "pwrite", file[thr[u].file].name = thr[t].name PROVE FALSE
  OBVIOUS
<1>1. thr[u].op = "write" /\ u # t
  BY DEF HeadersKnown
<1>2. thr[u].name = thr[t].name /\ thr[u].name \in Name
  BY DEF CInv, IInv, Control, ControlOf
<1>3. ~Compatible(thr[t].op, thr[u].op)
  BY <1>1 DEF Compatible, Modifying
<1> QED
  BY <1>1, <1>2, <1>3 DEF CInv, IInv, PathsExclusive

LEMMA NoWriterBeside ==
    ASSUME CInv, HeadersKnown, NEW t \in Thread, NEW d \in Desc, Usable(t, d, "write")
    PROVE  \A u \in Thread : thr[u].pc = "pwrite" => thr[u].file # desc[d].file
<1> SUFFICES ASSUME NEW u \in Thread, thr[u].pc = "pwrite", thr[u].file = desc[d].file PROVE FALSE
  OBVIOUS
<1>1. thr[u].op = "write"
  BY DEF HeadersKnown
<1>2. thr[u].name = file[desc[d].file].name
  BY DEF CInv, IInv, Control, ControlOf
<1>3. u # t
  BY DEF Usable
<1>4. ~Compatible("write", thr[u].op)
  BY <1>1 DEF Compatible, Modifying
<1> QED
  BY <1>2, <1>3, <1>4 DEF Usable, PathFree

LEMMA GetattrHeaders ==
    ASSUME CInv, HeadersKnown, NEW t \in Thread, Getattr(t)
    PROVE  HeadersKnown'
<1>0. IInv
  BY DEF CInv
<1>1. PICK o \in live : o = thr[t].file /\ file[o] \in FileRec /\ o \in Obj
  BY <1>0, Holding DEF Getattr
<1> DEFINE f == file[o]
           i == disk[f.name]
           Like(g) == g.name = f.name /\ (g.compressor = f.compressor \/ (i # Null /\ g.compressor = i.packed))
<1>2. /\ \A s : Like([f EXCEPT !.size = s])
      /\ \A s : i # Null /\ i.packed = TRUE => Like([f EXCEPT !.compressor = TRUE, !.size = s])
      /\ \A s : i # Null /\ i.packed = FALSE => Like([f EXCEPT !.compressor = FALSE, !.size = s])
  BY <1>1 DEF FileRec
<1>3. i # Null => i.packed \in BOOLEAN
  BY <1>0, <1>1 DEF IInv, TypeOK, Image, FileRec
<1>4. file' = file \/ \E g : Like(g) /\ file' = [file EXCEPT ![o] = g]
  <2> HIDE DEF Like
  <2>1. CASE i # Null /\ file' = [file EXCEPT ![o] =
                IF i.packed THEN [f EXCEPT !.compressor = TRUE, !.size = i.size]
                ELSE IF i.size = "empty" THEN [f EXCEPT !.size = thr[t].stat]
                ELSE [f EXCEPT !.compressor = FALSE, !.size = thr[t].stat]]
    <3>1. CASE i.packed = TRUE
      BY <1>2, <2>1, <3>1, Zenon
    <3>2. CASE i.packed = FALSE /\ i.size = "empty"
      BY <1>2, <2>1, <3>2, Zenon
    <3>3. CASE i.packed = FALSE /\ i.size # "empty"
      BY <1>2, <2>1, <3>3, Zenon
    <3> QED
      BY <1>3, <2>1, <3>1, <3>2, <3>3
  <2>2. CASE file' = [file EXCEPT ![o].size = "empty"]
    BY <1>2, <2>2, Zenon
  <2> QED
    BY <1>1, <2>1, <2>2, Zenon DEF Getattr
<1>5. thr' = [thr EXCEPT ![t] = Idle] /\ desc' = desc /\ disk' = disk
  BY Zenon DEF Getattr, Return
<1>6. \A u \in Thread : BeginsNothing(u)
  BY <1>0, <1>5, EndBegins
<1>7. CASE file' = file
  BY <1>5, <1>6, <1>7, HeadersStay DEF SameHeader, PacksNothing
<1>8. ASSUME NEW g, Like(g), file' = [file EXCEPT ![o] = g] PROVE HeadersKnown'
  <2>1. file'[o] = g
    BY <1>0, <1>1, <1>8 DEF IInv, TypeOK
  <2>2. HeaderKnown(o) => HeaderKnown(o)'
    BY <1>5, <1>8, <2>1 DEF HeaderKnown
  <2>3. OpenOn(o) => HeaderKnown(o)
    BY <1>0, <1>1, ConstantsAssumption DEF OpenOn, HeadersKnown, IInv, TypeOK
  <2>4. RawFile(o) => RawFile(o)'
    BY <1>5, <1>8, <2>1 DEF RawFile
  <2>5. \A u \in Thread : thr[u].pc = "pwrite" /\ thr[u].file = o => RawFile(o)
    BY DEF HeadersKnown
  <2> QED
    BY <1>5, <1>6, <1>8, <2>2, <2>3, <2>4, <2>5, EntryHeaders
<1> QED
  BY <1>4, <1>7, <1>8

LEMMA OpenHeaders ==
    ASSUME CInv, HeadersKnown, NEW t \in Thread, NEW d \in Desc, Open(t, d)
    PROVE  HeadersKnown'
<1>0. IInv
  BY DEF CInv
<1>1. PICK o \in live : o = thr[t].file /\ file[o] \in FileRec /\ o \in Obj /\ thr[t].name \in Name
                        /\ file[o].name = thr[t].name /\ thr[t].op = "open"
  <2>1. Holds(t, "open")
    BY Zenon DEF Open
  <2> QED
    BY <1>0, <2>1, Holding DEF Holds
<1> DEFINE n == thr[t].name
<1>2. disk[n] # Null /\ disk[n].packed \in BOOLEAN
  BY <1>0, <1>1 DEF Open, IInv, TypeOK, Image
<1> DEFINE Like(g) == g.name = n /\ g.compressor = disk[n].packed
<1>3. \A f \in {file[o], Discard(file[o])} : \A linked, s :
         Like([f EXCEPT !.accesses = @ + 1, !.size = s, !.compressor = disk[n].packed, !.dontcompress = @ \/ linked])
  <2>1. \A f \in {file[o], Discard(file[o])} : f \in FileRec /\ f.name = n
    BY <1>1, DiscardKeeps
  <2> QED
    BY <2>1, Zenon DEF FileRec
<1>4. PICK g : Like(g) /\ file' = [file EXCEPT ![o] = g]
  <2> HIDE DEF Like
  <2> QED
    BY <1>1, <1>3, Zenon DEF Open
<1>5. desc' = [desc EXCEPT ![d] = [file |-> o, fd |-> "ok"]] /\ disk' = disk /\ thr' = [thr EXCEPT ![t] = Idle]
  BY <1>1, Zenon DEF Open, Return
<1>6. /\ \A p \in live : p # o => SameHeader(p) /\ PacksNothing(file[p].name)
      /\ file'[o] = g
  BY <1>4, <1>5, OthersHeaders
<1>7. HeaderKnown(o)' /\ file'[o].name = n
  BY <1>1, <1>2, <1>4, <1>5, <1>6 DEF HeaderKnown
<1>8. \A u \in Thread : BeginsNothing(u)
  BY <1>0, <1>5, EndBegins
<1>9. \A u \in Thread : thr[u].pc = "pwrite" /\ thr[u].file = o => RawFile(o)'
  BY <1>1, <1>2, <1>4, <1>5, <1>6 DEF HeadersKnown, RawFile
<1>10. ASSUME NEW u \in Thread, RenameTarget(u)' # Null PROVE n # RenameTarget(u)'
  <2>1. RenameTarget(u)' = RenameTarget(u) /\ RenameTarget(u) # Null
    BY <1>8, <1>10 DEF BeginsNothing
  <2>2. thr[u].op \in {"rename1", "rename2"} /\ RenameTarget(u) \in {thr[u].name, thr[u].other} /\ u # t
    BY <1>1, <2>1 DEF RenameTarget
  <2>3. ~Compatible(thr[u].op, thr[t].op)
    BY <2>2 DEF Compatible, Exclusive
  <2> QED
    BY <1>0, <1>1, <2>1, <2>2, <2>3 DEF IInv, PathsExclusive
<1>11. \A x \in Desc : \/ desc'[x].file \in {desc[x].file, Null}
                       \/ /\ desc'[x].file = o /\ HeaderKnown(o)'
                          /\ \A u \in Thread : RenameTarget(u)' # Null => file'[o].name # RenameTarget(u)'
  BY <1>0, <1>5, <1>7, <1>10 DEF IInv, TypeOK
<1>12. \A u \in Thread :
              /\ \/ thr'[u].pc # "pwrite"
                 \/ /\ thr[u].pc = "pwrite" /\ thr'[u].op = thr[u].op /\ thr'[u].file = thr[u].file
                    /\ thr[u].file = o => RawFile(o)'
                 \/ thr'[u].op = "write" /\ thr'[u].file = o /\ RawFile(o)'
              /\ RenameTarget(u)' \in {RenameTarget(u), Null}
  BY <1>8, <1>9 DEF BeginsNothing
<1>13. OpenOn(o) => HeaderKnown(o)' /\ file'[o].name = file[o].name
  BY <1>1, <1>7
<1>14. \A p \in live : OpenOn(p) /\ p # o => SameHeader(p) /\ PacksNothing(file[p].name)
  BY <1>6
<1> QED
  BY <1>11, <1>12, <1>13, <1>14, HeadersUpdate

(* Decompression of an entry that says compressed: what it leaves says so   *)
(* too if it is, and a success leaves plain data and an entry that says so. *)
LEMMA DecompressHeader ==
    ASSUME IInv, NEW o, NEW f \in FileRec, f.compressor = TRUE, NEW r \in DoDecompress(o, f)
    PROVE  /\ r.f \in FileRec /\ r.f.name = f.name
           /\ r.i # Null /\ r.i.packed => r.f.compressor = TRUE
           /\ r.ok = TRUE => r.f.compressor = FALSE /\ (r.i # Null => r.i.packed = FALSE)
           /\ r.fd \in {"same", "ok", "stale", "closed"}
<1> DEFINE i == disk[f.name]
           closed == IF DescOf(o) = {} THEN f ELSE DirectClose(f)
           done == [i EXCEPT !.packed = FALSE]
           plain == [f EXCEPT !.compressor = FALSE, !.size = "unknown"]
           unpacked == [closed EXCEPT !.compressor = FALSE, !.size = i.size]
<1>1. i # Null => i \in Image
  BY DEF IInv, TypeOK, FileRec
<1>2. closed \in FileRec /\ closed.compressor = TRUE
  BY DirectCloseKeeps, SmallHeaders
<1>3. plain.compressor = FALSE /\ unpacked.compressor = FALSE
  <2> HIDE DEF closed
  <2> QED
    BY <1>2 DEF FileRec
<1>4. i # Null => done.packed = FALSE
  BY <1>1 DEF Image
<1>5. \/ r = Outcome(FALSE, f, i, "same")
      \/ i # Null /\ ~i.packed /\ r = Outcome(TRUE, plain, i, "same")
      \/ i # Null /\ r = Outcome(TRUE, unpacked, done, "ok")
      \/ r = Outcome(FALSE, closed, i, "closed")
      \/ r = Outcome(FALSE, closed, i, "stale")
      \/ i # Null /\ r = Outcome(FALSE, closed, done, "ok")
  <2> HIDE DEF closed, done, plain, unpacked
  <2> QED
    BY DEF DoDecompress, closed, done, plain, unpacked
<1>6. i # Null /\ ~i.packed => i.packed = FALSE
  BY <1>1 DEF Image
<1>8. /\ r.i # Null /\ r.i.packed => r.f.compressor = TRUE
      /\ r.ok = TRUE => r.f.compressor = FALSE /\ (r.i # Null => r.i.packed = FALSE)
  <2> HIDE DEF closed, done, i, plain, unpacked
  <2>1. CASE r = Outcome(FALSE, f, i, "same")
    BY <2>1 DEF Outcome
  <2>2. CASE i # Null /\ ~i.packed /\ r = Outcome(TRUE, plain, i, "same")
    BY <1>3, <1>6, <2>2 DEF Outcome
  <2>3. CASE i # Null /\ r = Outcome(TRUE, unpacked, done, "ok")
    BY <1>3, <1>4, <2>3 DEF Outcome
  <2>4. CASE r = Outcome(FALSE, closed, i, "closed") \/ r = Outcome(FALSE, closed, i, "stale")
    BY <1>2, <2>4 DEF Outcome
  <2>5. CASE i # Null /\ r = Outcome(FALSE, closed, done, "ok")
    BY <1>2, <2>5 DEF Outcome
  <2> QED
    BY <1>5, <2>1, <2>2, <2>3, <2>4, <2>5
<1>9. GoodOutcome(f, r)
  BY DoDecompressGood
<1> QED
  BY <1>8, <1>9 DEF GoodOutcome

LEMMA WriteChosenHeader ==
    ASSUME NEW f \in FileRec, NEW g \in WriteChosen(f), Compressible = Name
    PROVE  g \in FileRec /\ g.name = f.name /\ (f.compressor = TRUE => g.compressor = TRUE)
<1>1. PICK c \in {f.compressor, f.name \in Compressible} :
         g = [Discard(f) EXCEPT !.dontcompress = TRUE, !.compressor = c]
  BY Zenon DEF WriteChosen
<1>2. Discard(f) \in FileRec /\ Discard(f).name = f.name /\ f.name \in Compressible
  BY DiscardKeeps DEF FileRec
<1>3. g.compressor = c
  BY <1>1, <1>2 DEF FileRec
<1>4. f.compressor = TRUE => c = TRUE
  BY <1>1, <1>2
<1> QED
  BY <1>3, <1>4, WriteChosenKeeps

LEMMA TruncateHeaders ==
    ASSUME CInv, HeadersKnown, "write" \notin Failures, NEW t \in Thread, NEW s \in Sizes, Truncate(t, s)
    PROVE  HeadersKnown'
<1>0. IInv /\ Holds(t, "truncate")
  BY Zenon DEF CInv, Truncate
<1>1. PICK o \in live : o = thr[t].file /\ o \in Obj /\ file[o] \in FileRec
  BY <1>0, Holding
<1>2. /\ thr[t].name = file[o].name /\ thr[t].name \in Name /\ thr[t].op = "truncate" /\ thr[t].pc # "pwrite"
  BY <1>0, <1>1, Holding DEF Holds
<1>3. PICK n \in Name : n = thr[t].name
  BY <1>2
<1>4. PICK f \in FileRec : f = Discard(file[o]) /\ f.name = n /\ f.compressor = file[o].compressor
  BY <1>1, <1>2, <1>3, DiscardKeeps, SmallHeaders
<1>5. PICK r \in TruncateFirst(o, f, s) :
         /\ desc' = Reopened(o, r.fd)
         /\ \/ /\ ~r.ok \/ r.i = Null
               /\ file' = [file EXCEPT ![o] = r.f]
               /\ disk' = [disk EXCEPT ![n] = r.i]
            \/ /\ r.ok /\ r.i # Null
               /\ file' = [file EXCEPT ![o] = [r.f EXCEPT !.size = s]]
               /\ \E i \in Truncated(r.i, s) : disk' = [disk EXCEPT ![n] = i]
  BY <1>1, <1>3, <1>4, Zenon DEF Truncate
<1>6. OpenOn(o) => HeaderKnown(o)
  BY <1>0, <1>1, ConstantsAssumption DEF OpenOn, HeadersKnown, IInv, TypeOK
<1>7. disk[n] # Null => disk[n] \in Image
  BY <1>0 DEF IInv, TypeOK
<1>8. /\ r.f \in FileRec /\ r.f.name = n /\ r.fd \in {"same", "ok", "stale", "closed"}
      /\ r.i # Null => r.i \in Image
      /\ OpenOn(o) /\ r.i # Null /\ r.i.packed => r.f.compressor = TRUE \/ (s = "empty" /\ r.ok = TRUE)
  <2>1. CASE r = Outcome(TRUE, f, disk[n], "same") /\ f.compressor = FALSE
    <3>1. r.f = f /\ r.i = disk[n] /\ r.fd = "same"
      BY <2>1 DEF Outcome
    <3>2. OpenOn(o) /\ disk[n] # Null => ~disk[n].packed
      BY <1>2, <1>3, <1>4, <1>6, <2>1 DEF HeaderKnown
    <3> QED
      BY <1>4, <1>7, <3>1, <3>2
  <2>2. CASE r \in DoDecompress(o, f) /\ f.compressor = TRUE
    <3>1. GoodOutcome(f, r)
      BY <1>0, <2>2, DoDecompressGood
    <3> QED
      BY <1>0, <1>4, <2>2, <3>1, DecompressHeader DEF GoodOutcome
  <2>3. CASE s = "empty" /\ r = Outcome(TRUE, [(IF DescOf(o) = {} THEN f ELSE DirectClose(f)) EXCEPT !.compressor = FALSE],
                  disk[n], "same")
    <3> DEFINE c == IF DescOf(o) = {} THEN f ELSE DirectClose(f)
               e == [c EXCEPT !.compressor = FALSE]
    <3>1. c \in FileRec /\ c.name = n
      BY <1>4, DirectCloseKeeps
    <3>2. e \in FileRec /\ e.name = n
      <4> HIDE DEF c
      <4> QED
        BY <3>1 DEF FileRec
    <3> HIDE DEF e
    <3>3. r.f = e /\ r.i = disk[n] /\ r.fd = "same" /\ r.ok = TRUE
      BY <2>3 DEF Outcome, e
    <3> QED
      BY <1>7, <2>3, <3>2, <3>3
  <2>4. f.compressor \in BOOLEAN
    BY DEF FileRec
  <2>5. \/ ~f.compressor /\ r = Outcome(TRUE, f, disk[n], "same")
        \/ f.compressor /\ r \in DoDecompress(o, f)
        \/ s = "empty" /\ r = Outcome(TRUE, [(IF DescOf(o) = {} THEN f ELSE DirectClose(f)) EXCEPT !.compressor = FALSE],
                  disk[n], "same")
    BY <1>4, Zenon DEF TruncateFirst
  <2> QED
    BY <2>1, <2>2, <2>3, <2>4, <2>5
<1>9. PICK g, j : /\ file' = [file EXCEPT ![o] = g] /\ g.name = n /\ disk' = [disk EXCEPT ![n] = j]
                  /\ OpenOn(o) => (j # Null /\ j.packed => g.compressor = TRUE)
  <2>1. CASE (~r.ok \/ r.i = Null) /\ file' = [file EXCEPT ![o] = r.f] /\ disk' = [disk EXCEPT ![n] = r.i]
    BY <1>8, <2>1
  <2>2. CASE /\ r.ok /\ r.i # Null
             /\ file' = [file EXCEPT ![o] = [r.f EXCEPT !.size = s]]
             /\ \E i \in Truncated(r.i, s) : disk' = [disk EXCEPT ![n] = i]
    <3>1. PICK i \in Truncated(r.i, s) : disk' = [disk EXCEPT ![n] = i]
      BY <2>2
    <3>2. i.packed = FALSE \/ (s # "empty" /\ i.packed = r.i.packed)
      <4>1. r.i \in Image
        BY <1>8, <2>2
      <4>2. CASE s = "empty"
        BY <3>1, <4>1, <4>2, Zenon DEF Truncated, Image
      <4>3. CASE s # "empty" /\ r.i.packed
        <5>1. i = [r.i EXCEPT !.data = Garbage]
          BY <3>1, <4>3, Zenon DEF Truncated
        <5> QED
          BY <4>1, <4>3, <5>1 DEF Image
      <4>4. CASE s # "empty" /\ ~r.i.packed
        <5>1. PICK c \in Data : i = [r.i EXCEPT !.data = c, !.size = s]
          BY <3>1, <4>4, Zenon DEF Truncated
        <5> QED
          BY <4>1, <4>4, <5>1 DEF Image
      <4> QED
        BY <4>2, <4>3, <4>4
    <3> DEFINE g == [r.f EXCEPT !.size = s]
    <3>3. g.name = n /\ g.compressor = r.f.compressor
      BY <1>8 DEF FileRec
    <3>4. file' = [file EXCEPT ![o] = g]
      BY <2>2
    <3> HIDE DEF g
    <3> QED
      BY <1>8, <2>2, <3>1, <3>2, <3>3, <3>4
  <2> QED
    BY <1>5, <2>1, <2>2
<1>10. file'[o] = g /\ disk'[n] = j
  BY <1>0, <1>1, <1>9 DEF IInv, TypeOK
<1>11. OpenOn(o) => HeaderKnown(o)'
  BY <1>9, <1>10 DEF HeaderKnown
<1>12. \A u \in Thread : thr[u].pc = "pwrite" => thr[u].file # o
  BY <1>2, NoOtherWriter
<1>13. thr' = [thr EXCEPT ![t] = Idle]
  BY Zenon DEF Truncate, Return
<1>14. \A u \in Thread : BeginsNothing(u)
  BY <1>0, <1>13, EndBegins
<1>15. \A d \in Desc : desc'[d].file = desc[d].file
  BY <1>0, <1>5, <1>8, ReopenedKeeps
<1> QED
  BY <1>2, <1>3, <1>9, <1>11, <1>12, <1>14, <1>15, EntryHeaders

(* A call on an open descriptor.                                            *)
LEMMA OnOpenFile ==
    ASSUME CInv, HeadersKnown, NEW t \in Thread, NEW d \in Desc, NEW op, Usable(t, d, op)
    PROVE  \E o \in live : /\ o = desc[d].file /\ o \in Obj /\ o # Null /\ OpenOn(o) /\ HeaderKnown(o)
                           /\ file[o] \in FileRec /\ thr[t] = Idle
<1>1. desc[d].file # Null /\ IInv
  BY DEF Usable, CInv
<1>2. HeaderKnown(desc[d].file)
  BY <1>1 DEF HeadersKnown
<1>3. /\ desc[d].file \in live /\ desc[d].file \in Obj /\ OpenOn(desc[d].file) /\ file[desc[d].file] \in FileRec
      /\ thr[t] = Idle
  BY <1>1, OpenFacts, UsableFacts
<1> QED
  BY <1>1, <1>2, <1>3

LEMMA LaterIs ==
    ASSUME IInv, NEW t \in Thread, NEW d \in Desc, NEW pc, NEW op, Later(t, d, pc, op)
    PROVE  /\ thr'[t].pc = pc /\ thr'[t].op = op /\ thr'[t].file = desc[d].file
           /\ \A u \in Thread \ {t} : thr'[u] = thr[u]
<1>1. thr' = [thr EXCEPT ![t] = Working(d, pc, op)]
  BY Zenon DEF Later, Working
<1>2. thr'[t] = Working(d, pc, op) /\ \A u \in Thread \ {t} : thr'[u] = thr[u]
  <2> HIDE DEF Working
  <2> QED
    BY <1>1 DEF IInv, TypeOK
<1> QED
  BY <1>2 DEF Working, Idle

LEMMA ReadHeaders ==
    ASSUME CInv, HeadersKnown, NEW t \in Thread, NEW d \in Desc, Read(t, d)
    PROVE  HeadersKnown'
<1>0. IInv /\ Usable(t, d, "read")
  BY Zenon DEF CInv, Read
<1>1. PICK o \in live : /\ o = desc[d].file /\ o \in Obj /\ o # Null /\ OpenOn(o) /\ HeaderKnown(o)
                        /\ file[o] \in FileRec /\ thr[t] = Idle
  BY <1>0, OnOpenFile
<1>2. PICK f \in FileRec : f = file[o]
  BY <1>1
<1>3. PICK n \in Name : n = f.name
  BY DEF FileRec
<1>4. PICK r : /\ r = Outcome(FALSE, f, disk[n], "same") \/ (f.compressor = TRUE /\ r \in DoDecompress(o, f))
               /\ disk' = [disk EXCEPT ![n] = r.i]
               /\ desc' = Reopened(o, r.fd)
               /\ \/ thr' = thr /\ file' = [file EXCEPT ![o] = [r.f EXCEPT !.size = "unknown"]]
                  \/ Later(t, d, "readfail", "read") /\ file' = [file EXCEPT ![o] = r.f]
  <2>1. PICK r \in {x \in {Outcome(FALSE, file[o], disk[file[o].name], "same")} : ReadMayFail(d, file[o])}
                \cup IF file[o].compressor /\ desc[d].fd # "closed" THEN DoDecompress(o, file[o]) ELSE {} :
          /\ disk' = [disk EXCEPT ![file[o].name] = r.i]
          /\ desc' = Reopened(o, r.fd)
          /\ IF r.ok THEN /\ file' = [file EXCEPT ![o] = [r.f EXCEPT !.size = "unknown"]]
                          /\ UNCHANGED thr
                     ELSE /\ file' = [file EXCEPT ![o] = r.f]
                          /\ Later(t, d, "readfail", "read")
    BY <1>1, Zenon DEF Read
  <2>2. r = Outcome(FALSE, f, disk[n], "same") \/ (f.compressor /\ r \in DoDecompress(o, f))
    BY <1>2, <1>3, <2>1, Zenon
  <2>3. f.compressor \in BOOLEAN
    BY DEF FileRec
  <2> QED
    BY <1>2, <1>3, <2>1, <2>2, <2>3, Zenon
<1>5. /\ r.f \in FileRec /\ r.f.name = n /\ r.fd \in {"same", "ok", "stale", "closed"}
      /\ r.i # Null /\ r.i.packed => r.f.compressor = TRUE
      /\ f.compressor = FALSE => r.f.compressor = FALSE /\ r.i = disk[n]
  <2>1. CASE r = Outcome(FALSE, f, disk[n], "same")
    <3>1. r.f = f /\ r.i = disk[n] /\ r.fd = "same"
      BY <2>1 DEF Outcome
    <3> QED
      BY <1>1, <1>2, <1>3, <3>1 DEF HeaderKnown
  <2>2. CASE f.compressor = TRUE /\ r \in DoDecompress(o, f)
    <3>0. f.compressor = TRUE /\ IInv
      BY <1>0, <2>2
    <3>1. PICK x \in DoDecompress(o, f) : x = r
      BY <2>2
    <3>2. /\ x.f \in FileRec /\ x.f.name = f.name
          /\ x.i # Null /\ x.i.packed => x.f.compressor = TRUE
          /\ x.ok = TRUE => x.f.compressor = FALSE /\ (x.i # Null => x.i.packed = FALSE)
          /\ x.fd \in {"same", "ok", "stale", "closed"}
      BY <3>0, DecompressHeader
    <3> QED
      BY <1>3, <2>2, <3>1, <3>2
  <2> QED
    BY <1>4, <2>1, <2>2
<1>6. PICK g : /\ file' = [file EXCEPT ![o] = g] /\ g.name = n /\ g.compressor = r.f.compressor
  <2> DEFINE g == [r.f EXCEPT !.size = "unknown"]
  <2>1. g.name = n /\ g.compressor = r.f.compressor
    BY <1>5 DEF FileRec
  <2> HIDE DEF g
  <2> QED
    BY <1>4, <1>5, <2>1 DEF g
<1>7. file'[o] = g /\ disk'[n] = r.i
  BY <1>0, <1>1, <1>4, <1>6 DEF IInv, TypeOK
<1>8. HeaderKnown(o)'
  BY <1>5, <1>6, <1>7 DEF HeaderKnown
<1>9. \A u \in Thread : thr[u].pc = "pwrite" /\ thr[u].file = o => RawFile(o)'
  BY <1>2, <1>3, <1>5, <1>6, <1>7 DEF HeadersKnown, RawFile
<1>10. \A u \in Thread : BeginsNothing(u)
  <2>1. CASE thr' = thr
    BY <2>1 DEF BeginsNothing, RenameTarget
  <2>2. CASE Later(t, d, "readfail", "read")
    <3>1. /\ thr'[t].pc = "readfail" /\ thr'[t].op = "read"
          /\ \A u \in Thread \ {t} : thr'[u] = thr[u]
      BY <1>0, <2>2, LaterIs
    <3> QED
      BY <3>1, OnBegins
  <2> QED
    BY <1>4, <2>1, <2>2
<1>11. \A x \in Desc : desc'[x].file = desc[x].file
  BY <1>0, <1>4, <1>5, ReopenedKeeps
<1>12. disk' = disk \/ \E j : disk' = [disk EXCEPT ![file[o].name] = j]
  BY <1>2, <1>3, <1>4
<1>13. (OpenOn(o) => HeaderKnown(o)' /\ g.name = file[o].name)
       /\ \A x \in Desc : desc'[x].file \in {desc[x].file, Null}
  BY <1>2, <1>3, <1>6, <1>8, <1>11
<1> QED
  BY <1>6, <1>9, <1>10, <1>12, <1>13, EntryHeaders

LEMMA WriteAppendHeaders ==
    ASSUME CInv, HeadersKnown, NEW t \in Thread, NEW d \in Desc, WriteAppend(t, d)
    PROVE  HeadersKnown'
<1>0. IInv /\ Usable(t, d, "write")
  BY Zenon DEF CInv, WriteAppend
<1>1. PICK o \in live : /\ o = desc[d].file /\ o \in Obj /\ o # Null /\ OpenOn(o) /\ HeaderKnown(o)
                        /\ file[o] \in FileRec /\ thr[t] = Idle
  BY <1>0, OnOpenFile
<1>2. PICK h \in FileRec : h = file[o]
  BY <1>1
<1>3. PICK f \in WriteChosen(h) : f.compressor /\ \E s : file' = [file EXCEPT ![o] = [f EXCEPT !.size = s]]
  BY <1>1, <1>2, Zenon DEF WriteAppend
<1>4. f \in FileRec /\ f.name = h.name /\ f.compressor = TRUE
  <2>1. f \in FileRec /\ f.name = h.name
    BY WriteChosenKeeps
  <2> QED
    BY <1>3, <2>1 DEF FileRec
<1>5. PICK g : file' = [file EXCEPT ![o] = g] /\ g.name = h.name /\ g.compressor = TRUE
  <2>1. PICK s : file' = [file EXCEPT ![o] = [f EXCEPT !.size = s]]
    BY <1>3
  <2> DEFINE g == [f EXCEPT !.size = s]
  <2>2. g.name = h.name /\ g.compressor = TRUE
    BY <1>4 DEF FileRec
  <2> HIDE DEF g
  <2> QED
    BY <2>1, <2>2 DEF g
<1>6. disk' = disk \/ \E j : disk' = [disk EXCEPT ![file[o].name] = j]
  <2>1. PICK n \in Name : n = file[o].name
    BY <1>1 DEF FileRec
  <2>2. \/ disk' = disk
        \/ \E i : disk' = [disk EXCEPT ![n] = i]
        \/ disk' = [disk EXCEPT ![n].data = Garbage, ![n].packed = TRUE]
    BY <1>1, <2>1, Zenon DEF WriteAppend
  <2>3. CASE disk' = [disk EXCEPT ![n].data = Garbage, ![n].packed = TRUE]
    BY <1>0, <2>1, <2>3 DEF IInv, TypeOK
  <2> QED
    BY <2>1, <2>2, <2>3
<1>7. file'[o] = g
  BY <1>0, <1>1, <1>5 DEF IInv, TypeOK
<1>8. OpenOn(o) => HeaderKnown(o)' /\ g.name = file[o].name
  BY <1>2, <1>5, <1>7 DEF HeaderKnown
<1>9. \A u \in Thread : thr[u].pc = "pwrite" /\ thr[u].file = o => RawFile(o)'
  BY <1>0, <1>1, NoWriterBeside
<1>10. thr' = thr /\ desc' = desc
  BY Zenon DEF WriteAppend
<1>11. \A u \in Thread : BeginsNothing(u)
  BY <1>10 DEF BeginsNothing, RenameTarget
<1>12. \A x \in Desc : desc'[x].file \in {desc[x].file, Null}
  BY <1>10
<1> QED
  BY <1>5, <1>6, <1>8, <1>9, <1>11, <1>12, EntryHeaders

(* A write goes on without the lock, on a file that is not compressed.      *)
LEMMA PwriteBegins ==
    ASSUME CInv, HeadersKnown, NEW t \in Thread, NEW d \in Desc, Usable(t, d, "write"),
           NEW o \in live, o = desc[d].file, NEW g, file' = [file EXCEPT ![o] = g],
           disk' = disk \/ \E j : disk' = [disk EXCEPT ![file[o].name] = j],
           \A x \in Desc : desc'[x].file = desc[x].file,
           HeaderKnown(o)', g.name = file[o].name,
           \/ thr' = thr
           \/ Later(t, d, "pwrite", "write") /\ RawFile(o)'
    PROVE  HeadersKnown'
<1>0. IInv
  BY DEF CInv
<1>1. /\ \A p \in live : p # o => SameHeader(p) /\ PacksNothing(file[p].name)
      /\ file'[o] = g
  BY OthersHeaders
<1>2. \A u \in Thread : thr[u].pc = "pwrite" => thr[u].file # o
  BY NoWriterBeside
<1>3. \A u \in Thread :
              /\ \/ thr'[u].pc # "pwrite"
                 \/ /\ thr[u].pc = "pwrite" /\ thr'[u].op = thr[u].op /\ thr'[u].file = thr[u].file
                    /\ thr[u].file = o => RawFile(o)'
                 \/ thr'[u].op = "write" /\ thr'[u].file = o /\ RawFile(o)'
              /\ RenameTarget(u)' \in {RenameTarget(u), Null}
  <2>1. CASE thr' = thr
    BY <1>2, <2>1 DEF RenameTarget
  <2>2. CASE Later(t, d, "pwrite", "write") /\ RawFile(o)'
    <3>1. /\ thr'[t].pc = "pwrite" /\ thr'[t].op = "write" /\ thr'[t].file = o
          /\ \A u \in Thread \ {t} : thr'[u] = thr[u]
      BY <1>0, <2>2, LaterIs
    <3>2. RenameTarget(t)' = Null
      BY <3>1 DEF RenameTarget
    <3>3. \A u \in Thread \ {t} : RenameTarget(u)' = RenameTarget(u)
      BY <3>1 DEF RenameTarget
    <3> QED
      BY <1>2, <2>2, <3>1, <3>2, <3>3
  <2> QED
    BY <2>1, <2>2
<1>4. \A x \in Desc :
              \/ desc'[x].file \in {desc[x].file, Null}
              \/ /\ desc'[x].file = o /\ HeaderKnown(o)'
                 /\ \A u \in Thread : RenameTarget(u)' # Null => file'[o].name # RenameTarget(u)'
  OBVIOUS
<1>5. \A p \in live : OpenOn(p) /\ p # o => SameHeader(p) /\ PacksNothing(file[p].name)
  BY <1>1
<1>6. OpenOn(o) => HeaderKnown(o)' /\ file'[o].name = file[o].name
  BY <1>1
<1> QED
  BY <1>3, <1>4, <1>5, <1>6, HeadersUpdate

(* A write that chooses no compressor has no compressed file before it.     *)
RawUnpacked(d) ==
    LET f == file[desc[d].file] IN
    \A g \in WriteChosen(f) : g.compressor = FALSE /\ disk[f.name] # Null => disk[f.name].packed = FALSE

LEMMA WriteRawHeaders ==
    ASSUME CInv, HeadersKnown, NEW t \in Thread, NEW d \in Desc, WriteRaw(t, d), RawUnpacked(d)
    PROVE  HeadersKnown'
<1>0. IInv /\ Usable(t, d, "write")
  BY Zenon DEF CInv, WriteRaw
<1>1. PICK o \in live : /\ o = desc[d].file /\ o \in Obj /\ o # Null /\ OpenOn(o) /\ HeaderKnown(o)
                        /\ file[o] \in FileRec /\ thr[t] = Idle
  BY <1>0, OnOpenFile
<1>2. PICK h \in FileRec : h = file[o]
  BY <1>1
<1>3. PICK g \in WriteChosen(h) : ~g.compressor /\ file' = [file EXCEPT ![o] = g]
  BY <1>1, <1>2, Zenon DEF WriteRaw
<1>4. g \in FileRec /\ g.name = h.name
  BY WriteChosenKeeps
<1>5. g.compressor = FALSE
  BY <1>3, <1>4 DEF FileRec
<1>6. /\ disk' = disk /\ desc' = desc
      /\ Later(t, d, "pwrite", "write")
  BY Zenon DEF WriteRaw
<1>7. file'[o] = g
  BY <1>0, <1>1, <1>3 DEF IInv, TypeOK
<1>8. disk[h.name] # Null => disk[h.name].packed = FALSE
  BY <1>1, <1>2, <1>3, <1>5 DEF RawUnpacked
<1>9. RawFile(o)' /\ HeaderKnown(o)'
  BY <1>4, <1>5, <1>6, <1>7, <1>8 DEF RawFile, HeaderKnown
<1>10. g.name = file[o].name /\ \A x \in Desc : desc'[x].file = desc[x].file
  BY <1>2, <1>4, <1>6
<1> QED
  BY <1>0, <1>1, <1>3, <1>6, <1>9, <1>10, PwriteBegins

LEMMA WriteFallbackHeaders ==
    ASSUME CInv, HeadersKnown, NEW t \in Thread, NEW d \in Desc, WriteFallback(t, d)
    PROVE  HeadersKnown'
<1>0. IInv /\ Usable(t, d, "write")
  BY Zenon DEF CInv, WriteFallback
<1>1. PICK o \in live : /\ o = desc[d].file /\ o \in Obj /\ o # Null /\ OpenOn(o) /\ HeaderKnown(o)
                        /\ file[o] \in FileRec /\ thr[t] = Idle
  BY <1>0, OnOpenFile
<1>2. PICK h \in FileRec : h = file[o]
  BY <1>1
<1>3. PICK f \in WriteChosen(h) : f.compressor /\
         \E r \in IF desc[d].fd = "closed" THEN {Outcome(FALSE, f, disk[f.name], "same")} ELSE DoDecompress(o, f) :
                /\ disk' = [disk EXCEPT ![f.name] = r.i]
                /\ desc' = Reopened(o, r.fd)
                /\ file' = [file EXCEPT ![o] = [r.f EXCEPT !.size = "unknown"]]
                /\ IF r.ok THEN Later(t, d, "pwrite", "write") ELSE UNCHANGED thr
  BY <1>1, <1>2, Zenon DEF WriteFallback
<1>4. f \in FileRec /\ f.name = h.name /\ f.compressor = TRUE
  <2>1. f \in FileRec /\ f.name = h.name
    BY WriteChosenKeeps
  <2> QED
    BY <1>3, <2>1 DEF FileRec
<1>5. PICK n \in Name : n = f.name
  BY <1>4 DEF FileRec
<1>6. PICK r : /\ r = Outcome(FALSE, f, disk[n], "same") \/ r \in DoDecompress(o, f)
               /\ disk' = [disk EXCEPT ![n] = r.i]
               /\ desc' = Reopened(o, r.fd)
               /\ file' = [file EXCEPT ![o] = [r.f EXCEPT !.size = "unknown"]]
               /\ thr' = thr \/ (r.ok = TRUE /\ Later(t, d, "pwrite", "write"))
  <2>1. PICK r \in IF desc[d].fd = "closed" THEN {Outcome(FALSE, f, disk[f.name], "same")} ELSE DoDecompress(o, f) :
                /\ disk' = [disk EXCEPT ![f.name] = r.i]
                /\ desc' = Reopened(o, r.fd)
                /\ file' = [file EXCEPT ![o] = [r.f EXCEPT !.size = "unknown"]]
                /\ IF r.ok THEN Later(t, d, "pwrite", "write") ELSE UNCHANGED thr
    BY <1>3
  <2>2. r = Outcome(FALSE, f, disk[n], "same") \/ r \in DoDecompress(o, f)
    BY <1>5, <2>1, Zenon
  <2>3. r.ok \in BOOLEAN
    <3>1. CASE r = Outcome(FALSE, f, disk[n], "same")
      BY <3>1 DEF Outcome
    <3>2. CASE r \in DoDecompress(o, f)
      <4>1. r.ok = TRUE \/ r.ok = FALSE
        BY <3>2 DEF DoDecompress, Outcome
      <4> QED
        BY <4>1
    <3> QED
      BY <2>2, <3>1, <3>2
  <2> QED
    BY <1>5, <2>1, <2>2, <2>3, Zenon
<1>7. /\ r.f \in FileRec /\ r.f.name = n /\ r.fd \in {"same", "ok", "stale", "closed"}
      /\ r.i # Null /\ r.i.packed => r.f.compressor = TRUE
      /\ r.ok = TRUE => r.f.compressor = FALSE /\ (r.i # Null => r.i.packed = FALSE)
  <2>1. CASE r = Outcome(FALSE, f, disk[n], "same")
    <3>1. r.f = f /\ r.i = disk[n] /\ r.fd = "same" /\ r.ok = FALSE
      BY <2>1 DEF Outcome
    <3> QED
      BY <1>4, <1>5, <3>1
  <2>2. CASE r \in DoDecompress(o, f)
    <3>1. /\ r.f \in FileRec /\ r.f.name = f.name
          /\ r.i # Null /\ r.i.packed => r.f.compressor = TRUE
          /\ r.ok = TRUE => r.f.compressor = FALSE /\ (r.i # Null => r.i.packed = FALSE)
          /\ r.fd \in {"same", "ok", "stale", "closed"}
      BY <1>0, <1>4, <2>2, DecompressHeader
    <3> QED
      BY <1>5, <3>1
  <2> QED
    BY <1>6, <2>1, <2>2
<1>8. PICK g : file' = [file EXCEPT ![o] = g] /\ g.name = n /\ g.compressor = r.f.compressor
  <2> DEFINE g == [r.f EXCEPT !.size = "unknown"]
  <2>1. g.name = n /\ g.compressor = r.f.compressor
    BY <1>7 DEF FileRec
  <2> HIDE DEF g
  <2> QED
    BY <1>6, <2>1 DEF g
<1>9. file'[o] = g /\ disk'[n] = r.i
  BY <1>0, <1>1, <1>6, <1>8 DEF IInv, TypeOK
<1>10. HeaderKnown(o)' /\ (r.ok = TRUE => RawFile(o)')
  BY <1>7, <1>8, <1>9 DEF HeaderKnown, RawFile
<1>11. \A x \in Desc : desc'[x].file = desc[x].file
  BY <1>0, <1>6, <1>7, ReopenedKeeps
<1>12. disk' = disk \/ \E j : disk' = [disk EXCEPT ![file[o].name] = j]
  BY <1>2, <1>4, <1>5, <1>6
<1>13. g.name = file[o].name /\ (thr' = thr \/ (Later(t, d, "pwrite", "write") /\ RawFile(o)'))
  BY <1>2, <1>4, <1>5, <1>6, <1>8, <1>10
<1> QED
  BY <1>0, <1>1, <1>8, <1>10, <1>11, <1>12, <1>13, PwriteBegins

(* rename(): the descriptors of the old name come with the entry's kind.    *)
LEMMA RenameHeaders ==
    ASSUME CInv, HeadersKnown, NEW t \in Thread, RenameCommit(t)
    PROVE  HeadersKnown'
<1>0. IInv
  BY DEF CInv
<1>1. thr[t] \in ThreadRec /\ thr[t].pc = "relock2" /\ thr[t].op = "rename2" /\ ControlOf(t)
  BY <1>0 DEF IInv, TypeOK, RenameCommit, Control, ControlOf
<1>2a. PICK a \in live : a = thr[t].from
  BY <1>1 DEF ControlOf
<1>2b. PICK b \in live : b = thr[t].file
  BY <1>1 DEF ControlOf
<1>2c. PICK n \in Name : n = thr[t].other /\ n = file[a].name
  BY <1>1, <1>2a DEF ControlOf
<1>2d. PICK m \in Name : m = thr[t].name /\ m = file[b].name /\ m # n
  BY <1>1, <1>2b, <1>2c DEF ControlOf
<1>3. /\ a # b /\ a \in Obj /\ b \in Obj /\ a # Null /\ b # Null
      /\ file[a] \in FileRec /\ file[b] \in FileRec
  BY <1>0, <1>2c, <1>2d, ConstantsAssumption DEF IInv, TableLive, TypeOK
<1>4. thr' = [thr EXCEPT ![t] = Idle]
  BY Zenon DEF RenameCommit
<1>5. \A u \in Thread : BeginsNothing(u)
  BY <1>0, <1>4, EndBegins
<1>6. ~OpenOn(b)
  <2>1. RenameTarget(t) = m /\ m # Null
    BY <1>1, <1>2d, ConstantsAssumption DEF RenameTarget
  <2> QED
    BY <1>2d, <1>3, <2>1 DEF HeadersKnown, OpenOn
<1>7. \A p \in live : p # a /\ p # b => file[p].name # n /\ file[p].name # m /\ file[p].name \in Name
  <2>1. \A p \in live : p \in database
    BY DEF CInv, TableWhole
  <2> QED
    BY <1>0, <1>2c, <1>2d, <2>1 DEF CInv, OneEntryPerName, IInv, TableLive, FileRec
<1>8. CASE /\ file' = [file EXCEPT ![a].accesses = @ - 1, ![b].accesses = @ - 1]
           /\ disk' = disk /\ desc' = desc
  <2>1. \A p \in live : SameHeader(p)
    BY <1>0, <1>3, <1>8 DEF SameHeader, IInv, TypeOK, FileRec
  <2>2. \A k \in Name : PacksNothing(k)
    BY <1>8 DEF PacksNothing
  <2>3. \A d \in Desc : desc'[d].file \in {desc[d].file, Null}
    BY <1>8
  <2> QED
    BY <1>5, <2>1, <2>2, <2>3, HeadersStay
<1>9. CASE disk' = [disk EXCEPT ![n] = Null, ![m] = disk[n]] /\ DirectRename(a, b)
  <2> DEFINE moved == Cardinality(DescOf(a)) + Cardinality(QueuedOf(a))
             ga == Delete([file[a] EXCEPT !.accesses = @ - 1 - moved])
             gb == [file[b] EXCEPT !.accesses = @ - 1 + moved, !.size = file[a].size,
                         !.compressor = file[a].compressor,
                         !.dontcompress = file[a].dontcompress,
                         !.status = file[a].status,
                         !.deduped = IF DedupEnabled THEN file[a].deduped ELSE @]
  <2>1. file' = [file EXCEPT ![a] = ga, ![b] = gb]
    BY <1>9 DEF DirectRename
  <2>2. gb.compressor = file[a].compressor /\ gb.name = m
    <3> HIDE DEF moved
    <3> QED
      BY <1>2d, <1>3 DEF FileRec
  <2>3. file'[b] = gb /\ \A p \in live : p # a /\ p # b => file'[p] = file[p]
    <3> HIDE DEF ga, gb
    <3> QED
      BY <1>0, <1>3, <2>1 DEF IInv, TypeOK
  <2>4. file'[b].name = m /\ file'[b].compressor = file[a].compressor
    BY <2>2, <2>3
  <2> HIDE DEF ga, gb
  <2>5. disk'[m] = disk[n] /\ disk'[n] = Null /\ \A k \in Name : k # n /\ k # m => disk'[k] = disk[k]
    BY <1>0, <1>2d, <1>9 DEF IInv, TypeOK
  <2>6. \A d \in Desc : IF desc[d].file = a THEN desc'[d].file = b ELSE desc'[d].file = desc[d].file
    BY <1>0, <1>9 DEF DirectRename, MovedDesc, IInv, TypeOK, DescRec
  <2>7. OpenOn(a) => HeaderKnown(a)
    BY <1>3 DEF OpenOn, HeadersKnown
  <2>8. OpenOn(a) => HeaderKnown(b)'
    BY <1>2c, <2>4, <2>5, <2>7 DEF HeaderKnown
  <2>9. \A p \in live : p # a /\ p # b => SameHeader(p) /\ PacksNothing(file[p].name)
    BY <1>7, <2>3, <2>5 DEF SameHeader, PacksNothing
  <2>10. \A u \in Thread : RenameTarget(u)' = Null
    <3>1. thr'[t] = Idle /\ \A u \in Thread \ {t} : thr'[u] = thr[u]
      BY <1>0, <1>4 DEF IInv, TypeOK
    <3>2. \A u \in Thread \ {t} : thr[u].op \notin {"rename1", "rename2"}
      BY <1>1 DEF CInv, OneRename, Renames
    <3>3. Idle.op = "none"
      BY DEF Idle
    <3> QED
      BY <3>1, <3>2, <3>3 DEF RenameTarget
  <2>11. ASSUME NEW d \in Desc, desc'[d].file # Null PROVE HeaderKnown(desc[d].file)'
    <3>1. CASE desc[d].file = a
      <4>1. desc'[d].file = b
        BY <2>6, <3>1
      <4> QED
        BY <2>8, <3>1, <4>1 DEF OpenOn
    <3>2. CASE desc[d].file # a
      <4>1. desc'[d].file = desc[d].file
        BY <2>6, <3>2
      <4>2. PICK p \in live : p = desc[d].file /\ p # a /\ p # b
        BY <1>0, <1>6, <2>11, <3>2, <4>1, OpenFacts DEF OpenOn
      <4>3. HeaderKnown(p)
        BY <2>11, <4>1, <4>2 DEF HeadersKnown
      <4>4. HeaderKnown(p)'
        BY <2>9, <4>2, <4>3 DEF HeaderKnown, SameHeader, PacksNothing
      <4> QED
        BY <4>1, <4>2, <4>4
    <3> QED
      BY <3>1, <3>2
  <2>12. ASSUME NEW u \in Thread, thr'[u].pc = "pwrite" PROVE thr'[u].op = "write" /\ RawFile(thr[u].file)'
    <3>1. thr[u].pc = "pwrite" /\ thr'[u].op = thr[u].op /\ thr'[u].file = thr[u].file /\ thr[u].op = "write"
      BY <1>5, <2>12 DEF BeginsNothing, HeadersKnown
    <3>2. PICK p \in live : p = thr[u].file /\ OpenOn(p)
      BY <1>0, <3>1, Unlocked DEF OpenOn
    <3>3. p # a
      <4>1. thr[u].name = file[p].name
        BY <1>0, <3>1, <3>2 DEF IInv, Control, ControlOf
      <4>2. ~Compatible(thr[t].op, thr[u].op) /\ u # t
        BY <1>1, <3>1 DEF Compatible, Exclusive
      <4> QED
        BY <1>0, <1>2c, <4>1, <4>2 DEF IInv, PathsExclusive
    <3>4. p # b
      BY <1>6, <3>2
    <3>5. SameHeader(p) /\ PacksNothing(file[p].name) /\ RawFile(p)
      BY <2>9, <3>1, <3>2, <3>3, <3>4 DEF HeadersKnown
    <3>6. RawFile(p)'
      BY <3>5 DEF RawFile, SameHeader, PacksNothing
    <3> QED
      BY <3>1, <3>2, <3>6
  <2> QED
    BY <2>10, <2>11, <2>12 DEF HeadersKnown
<1> QED
  BY <1>2a, <1>2b, <1>2c, <1>2d, <1>8, <1>9, Zenon DEF RenameCommit

(* thread_compress() works on no file that is open.                         *)
LEMMA WorkedOnIsClosed ==
    ASSUME CInv, NEW o, o = bg.file, owner[o] = Null,
           \/ bg.pc = "popped" /\ BgWanted(file[o])
           \/ bg.pc \in {"compressing", "hashing"}
    PROVE  ~OpenOn(o)
<1>1. o \in live /\ o \in Obj /\ IInv
  BY MarkedFacts DEF CInv
<1>2. CASE bg.pc = "popped" /\ BgWanted(file[o])
  <2>1. ~InUse(o)
    BY <1>1, <1>2, WantedUnused
  <2> QED
    BY <2>1 DEF InUse, OpenOn
<1>3. CASE bg.pc \in {"compressing", "hashing"}
  <2>1. Busy(file[o])
    BY <1>3, MarkedFacts DEF Busy
  <2>2. ~InUse(o)
    BY <1>1, <2>1 DEF CInv, UsedIsQuiet
  <2> QED
    BY <2>2 DEF InUse, OpenOn
<1> QED
  BY <1>2, <1>3

LEMMA BgWorkHeaders ==
    ASSUME CInv, HeadersKnown, NEW o, o = bg.file, bg.pc # "idle", ~OpenOn(o),
           \E g : file' = [file EXCEPT ![o] = g],
           disk' = disk \/ \E j : disk' = [disk EXCEPT ![file[o].name] = j],
           desc' = desc \/ desc' = Replaced(file[o].name, Null),
           thr' = thr \/ Broadcast(o)
    PROVE  HeadersKnown'
<1>0. IInv /\ o \in live
  BY MarkedFacts DEF CInv
<1>1. PICK g : file' = [file EXCEPT ![o] = g]
  OBVIOUS
<1>2. \A d \in Desc : desc'[d].file \in {desc[d].file, Null}
  BY <1>0, ReplacedKeeps
<1>3. \A u \in Thread : BeginsNothing(u)
  BY <1>0, BgBegins
<1>4. \A u \in Thread : thr[u].pc = "pwrite" /\ thr[u].file = o => RawFile(o)'
  BY <1>0, Unlocked DEF OpenOn
<1>5. OpenOn(o) => HeaderKnown(o)' /\ g.name = file[o].name
  OBVIOUS
<1> QED
  BY <1>0, <1>1, <1>2, <1>3, <1>4, <1>5, EntryHeaders

LEMMA BgSkipHeaders ==
    ASSUME CInv, HeadersKnown, BgPop \/ BgSkip
    PROVE  HeadersKnown'
<1>0. IInv
  BY DEF CInv
<1>1. disk' = disk /\ desc' = desc /\ thr' = thr
  BY Zenon DEF BgPop, BgSkip
<1>2. \A p \in live : SameHeader(p)
  <2>1. CASE BgPop
    BY <2>1 DEF BgPop, SameHeader
  <2>2. CASE BgSkip
    <3>1. PICK o \in live : o = bg.file /\ o \in Obj /\ file[o] \in FileRec
      BY <2>2, MarkedFacts DEF BgSkip
    <3>2. PICK f \in FileRec : f = file[o]
      BY <3>1
    <3>3. file' = [file EXCEPT ![o] = Done(f)] \/ file' = [file EXCEPT ![o] = DoneCompress(f)]
      BY <2>2, <3>1, <3>2 DEF BgSkip
    <3>4. /\ Done(f).name = f.name /\ DoneCompress(f).name = f.name
          /\ Done(f).compressor = f.compressor /\ DoneCompress(f).compressor = f.compressor
      BY DoneKeeps, SmallHeaders
    <3>5. PICK g : file' = [file EXCEPT ![o] = g] /\ g.name = f.name /\ g.compressor = f.compressor
      BY <3>3, <3>4
    <3> QED
      BY <1>0, <3>1, <3>2, <3>5, HeaderUpdate
  <2> QED
    BY <2>1, <2>2
<1>3. \A n \in Name : PacksNothing(n)
  BY <1>1 DEF PacksNothing
<1>4. \A u \in Thread : BeginsNothing(u)
  BY <1>1 DEF BeginsNothing, RenameTarget
<1>5. \A d \in Desc : desc'[d].file \in {desc[d].file, Null}
  BY <1>1
<1> QED
  BY <1>2, <1>3, <1>4, <1>5, HeadersStay

LEMMA BgStepHeaders ==
    ASSUME CInv, HeadersKnown, BgStep
    PROVE  HeadersKnown'
<1>1. CASE BgPop \/ BgSkip
  BY <1>1, BgSkipHeaders
<1>2. CASE BgCompressNot \/ BgCompress \/ BgDedup
  <2>1. PICK o : o = bg.file
    OBVIOUS
  <2>2. bg.pc = "popped" /\ owner[o] = Null /\ BgWanted(file[o])
    BY <1>2, <2>1, Zenon DEF BgCompressNot, BgCompress, BgDedup
  <2>3. ~OpenOn(o)
    BY <2>1, <2>2, WorkedOnIsClosed
  <2>4. \E g : file' = [file EXCEPT ![o] = g]
    <3>1. CASE BgCompressNot
      BY <2>1, <3>1, Zenon DEF BgCompressNot
    <3>2. CASE BgCompress \/ BgDedup
      <4>1. \E flag : file' = [file EXCEPT ![o].status = @ \cup {flag}]
        BY <2>1, <3>2, Zenon DEF BgCompress, BgDedup
      <4> QED
        BY <4>1
    <3> QED
      BY <1>2, <3>1, <3>2
  <2>5. disk' = disk /\ desc' = desc /\ thr' = thr
    BY <1>2, Zenon DEF BgCompressNot, BgCompress, BgDedup
  <2> QED
    BY <2>1, <2>2, <2>3, <2>4, <2>5, BgWorkHeaders
<1>3. CASE \/ BgCompressCancelled \/ BgCompressCommit \/ BgCompressFails
           \/ BgDedupFails \/ BgDedupCancelled \/ BgDedupCommit
  <2>1. PICK o : o = bg.file
    OBVIOUS
  <2>2. bg.pc \in {"compressing", "hashing"} /\ owner[o] = Null
    <3>1. (bg.pc = "compressing" \/ bg.pc = "hashing") /\ owner[o] = Null
      BY <1>3, <2>1, Zenon DEF BgCompressCancelled, BgCompressCommit, BgCompressFails,
                               BgDedupFails, BgDedupCancelled, BgDedupCommit
    <3> QED
      BY <3>1
  <2>3. ~OpenOn(o)
    BY <2>1, <2>2, WorkedOnIsClosed
  <2>4. \E g : file' = [file EXCEPT ![o] = g]
    <3>1. BgCompressCancelled => \E g : file' = [file EXCEPT ![o] = g]
      BY <2>1, Zenon DEF BgCompressCancelled
    <3>2. BgCompressCommit => \E g : file' = [file EXCEPT ![o] = g]
      BY <2>1, Zenon DEF BgCompressCommit
    <3>3. BgCompressFails => \E g : file' = [file EXCEPT ![o] = g]
      BY <2>1, Zenon DEF BgCompressFails
    <3>4. BgDedupFails => \E g : file' = [file EXCEPT ![o] = g]
      BY <2>1, Zenon DEF BgDedupFails
    <3>5. BgDedupCancelled => \E g : file' = [file EXCEPT ![o] = g]
      BY <2>1, Zenon DEF BgDedupCancelled
    <3>6. BgDedupCommit => \E g : file' = [file EXCEPT ![o] = g]
      BY <2>1, Zenon DEF BgDedupCommit
    <3> QED
      BY <1>3, <3>1, <3>2, <3>3, <3>4, <3>5, <3>6
  <2>5. disk' = disk \/ \E j : disk' = [disk EXCEPT ![file[o].name] = j]
    <3>1. CASE BgCompressCommit
      BY <2>1, <3>1, Zenon DEF BgCompressCommit
    <3>2. CASE BgDedupCommit
      <4> DEFINE n == file[bg.file].name
      <4>1. n \in Name /\ disk \in [Name -> Image \cup {Null}]
        BY <2>2, MarkedFacts DEF CInv, IInv, TypeOK
      <4>2. ASSUME NEW m \in Name, disk' = [disk EXCEPT ![n].packed = disk[m].packed, ![n].data = bg.data]
            PROVE  \E j : disk' = [disk EXCEPT ![n] = j]
        <5> DEFINE j == [[disk[n] EXCEPT !.packed = disk[m].packed] EXCEPT !.data = bg.data]
        <5>1. disk' = [disk EXCEPT ![n] = j]
          BY <4>1, <4>2
        <5> QED
          BY <5>1
      <4>3. disk' = disk \/ \E j : disk' = [disk EXCEPT ![n] = j]
        BY <3>2, <4>2, Zenon DEF BgDedupCommit
      <4> QED
        BY <2>1, <4>3
    <3>3. CASE BgCompressCancelled \/ BgCompressFails \/ BgDedupFails \/ BgDedupCancelled
      BY <3>3, Zenon DEF BgCompressCancelled, BgCompressFails, BgDedupFails, BgDedupCancelled
    <3> QED
      BY <1>3, <3>1, <3>2, <3>3
  <2>6. desc' = desc \/ desc' = Replaced(file[o].name, Null)
    BY <1>3, <2>1, Zenon DEF BgCompressCancelled, BgCompressCommit, BgCompressFails,
                             BgDedupFails, BgDedupCancelled, BgDedupCommit
  <2>7. thr' = thr \/ Broadcast(o)
    BY <1>3, <2>1, Zenon DEF BgCompressCancelled, BgCompressCommit, BgCompressFails,
                             BgDedupFails, BgDedupCancelled, BgDedupCommit
  <2>8. bg.pc # "idle"
    BY <2>2
  <2> QED
    BY <2>1, <2>3, <2>4, <2>5, <2>6, <2>7, <2>8, BgWorkHeaders
<1> QED
  BY <1>1, <1>2, <1>3, Zenon DEF BgStep

LEMMA CallStepHeaders ==
    ASSUME CInv, HeadersKnown, NEW t \in Thread, CallStep(t), \A d \in Desc : WriteRaw(t, d) => RawUnpacked(d)
    PROVE  HeadersKnown'
<1>1. ASSUME NEW n \in Name, NEW op \in {"utime", "mknod", "unlink", "truncate", "open"}, Call(t, op, n, Null)
      PROVE  HeadersKnown'
  BY <1>1, CallHeaders
<1>2. ASSUME NEW n \in Name, NEW m \in Name, n # m, Call(t, "rename1", n, m) PROVE HeadersKnown'
  BY <1>2, RenameBeginHeaders
<1>3. ASSUME NEW n \in Name, Lstat(t, n) PROVE HeadersKnown'
  BY <1>3, LstatHeaders
<1>4. ASSUME NEW d \in Desc, Read(t, d) PROVE HeadersKnown'
  BY <1>4, ReadHeaders
<1>5. ASSUME NEW d \in Desc, WriteAppend(t, d) PROVE HeadersKnown'
  BY <1>5, WriteAppendHeaders
<1>6. ASSUME NEW d \in Desc, WriteFallback(t, d) PROVE HeadersKnown'
  BY <1>6, WriteFallbackHeaders
<1>7. ASSUME NEW d \in Desc, WriteRaw(t, d) PROVE HeadersKnown'
  BY <1>7, WriteRawHeaders
<1>8. ASSUME NEW d \in Desc, Release(t, d) PROVE HeadersKnown'
  BY <1>8, ReleaseHeaders
<1> QED
  BY <1>1, <1>2, <1>3, <1>4, <1>5, <1>6, <1>7, <1>8, Zenon DEF CallStep

LEMMA HandlerStepHeaders ==
    ASSUME CInv, HeadersKnown, "write" \notin Failures, NEW t \in Thread, HandlerStep(t)
    PROVE  HeadersKnown'
<1>1. CASE LockDatabase(t) \/ DirectOpenPurge(t) \/ RenameLockFrom(t) \/ Utime(t) \/ Mknod(t)
  BY <1>1, QuietHandlerHeaders
<1>2. CASE Rewake(t)
  BY <1>2, LookUpHeaders
<1>3. ASSUME NEW o \in Obj, DirectOpenHit(t, o) PROVE HeadersKnown'
  BY <1>3, LookUpHeaders
<1>4. ASSUME NEW o \in Obj, DirectNewFile(t, o) PROVE HeadersKnown'
  BY <1>4, NewFileHeaders
<1>5. ASSUME NEW o \in Obj, PurgeEntry(t, o) PROVE HeadersKnown'
  BY <1>5, PurgeEntryHeaders
<1>6. CASE Getattr(t)
  BY <1>6, GetattrHeaders
<1>7. CASE Unlink(t) \/ OpenFails(t) \/ OpenLeaksLock(t)
  BY <1>7, UnlinkHeaders
<1>8. ASSUME NEW s \in Sizes, Truncate(t, s) PROVE HeadersKnown'
  BY <1>8, TruncateHeaders
<1>9. ASSUME NEW d \in Desc, Open(t, d) PROVE HeadersKnown'
  BY <1>9, OpenHeaders
<1>10. CASE RenameKeepFrom(t) \/ RenameKeepTo(t)
  BY <1>10, KeepHeaders
<1>11. CASE RenameCommit(t)
  BY <1>11, RenameHeaders
<1>12. CASE ReadFail(t) \/ Pwrite(t)
  BY <1>12, UnlockedHeaders
<1> QED
  BY <1>1, <1>2, <1>3, <1>4, <1>5, <1>6, <1>7, <1>8, <1>9, <1>10, <1>11, <1>12, Zenon DEF HandlerStep

LEMMA RawIsUnpacked ==
    ASSUME CInv, HeadersKnown, Compressible = Name, NEW t \in Thread, NEW d \in Desc, WriteRaw(t, d)
    PROVE  RawUnpacked(d)
<1>0. IInv /\ Usable(t, d, "write")
  BY Zenon DEF CInv, WriteRaw
<1>1. PICK o \in live : o = desc[d].file /\ HeaderKnown(o) /\ file[o] \in FileRec
  BY <1>0, OnOpenFile
<1>2. PICK f \in FileRec : f = file[o]
  BY <1>1
<1>3. \A g \in WriteChosen(f) : g.compressor = FALSE => f.compressor = FALSE
  BY WriteChosenHeader DEF FileRec
<1>4. disk[f.name] # Null => disk[f.name].packed \in BOOLEAN
  BY <1>0 DEF IInv, TypeOK, FileRec, Image
<1> QED
  BY <1>1, <1>2, <1>3, <1>4 DEF RawUnpacked, HeaderKnown

LEMMA InitHeaders == Init => HeadersKnown
<1>1. Idle.pc = "idle" /\ Idle.op = "none" /\ Closed.file = Null
  BY DEF Idle, Closed
<1>2. Init => (\A t \in Thread : thr[t] = Idle) /\ \A d \in Desc : desc[d] = Closed
  BY DEF Init
<1> QED
  BY <1>1, <1>2 DEF HeadersKnown, RenameTarget

LEMMA StutterHeaders ==
    ASSUME HeadersKnown, UNCHANGED vars
    PROVE  HeadersKnown'
BY Zenon DEF vars, HeadersKnown, HeaderKnown, RawFile, RenameTarget

LEMMA HeadersRaw == CInv /\ HeadersKnown => PwriteIsRaw
BY Unlocked DEF CInv, HeadersKnown, RawFile, PwriteIsRaw

(* A pwrite() without the lock never writes raw bytes into a file that has  *)
(* been compressed meanwhile, as long as no write() or ftruncate() fails    *)
(* and no name is excluded from compression.  (After a failed ftruncate()   *)
(* a compressed file has an entry that says it is not; and a write that     *)
(* believes a compressed file empty, because its length is out of date,     *)
(* chooses no compressor for an excluded name.)                             *)
THEOREM WritesStayRaw ==
    ASSUME "write" \notin Failures, Compressible = Name PROVE Spec => []PwriteIsRaw
<1>1. CInv /\ HeadersKnown /\ [Next]_vars => HeadersKnown'
  <2> SUFFICES ASSUME CInv, HeadersKnown, [Next]_vars PROVE HeadersKnown'
    OBVIOUS
  <2>1. CASE UNCHANGED vars
    BY <2>1, StutterHeaders
  <2>2. CASE BgStep
    BY <2>2, BgStepHeaders
  <2>3. ASSUME NEW t \in Thread, CallStep(t) \/ HandlerStep(t) PROVE HeadersKnown'
    <3>1. \A d \in Desc : WriteRaw(t, d) => RawUnpacked(d)
      BY RawIsUnpacked
    <3> QED
      BY <2>3, <3>1, CallStepHeaders, HandlerStepHeaders
  <2> QED
    BY <2>1, <2>2, <2>3, Zenon DEF Next
<1> QED
  BY <1>1, InitHeaders, HeadersRaw, ContentInvariance, PTL DEF Spec

-----------------------------------------------------------------------------
(* Whole images.  What a handler writes depends on what the entry says of   *)
(* the file: that it is compressed (HeadersKnown), and that it is empty.    *)
(* The entry of an open file may believe a longer file empty only if it     *)
(* also says not to compress it; and the length of a file being written to  *)
(* without the lock does not come as news.                                  *)
KnownLength(f, i) ==
    i # Null /\ f.size = "empty" /\ i.size # "empty" => f.compressor = FALSE /\ f.dontcompress = TRUE

LastingLength(f, i) == f.dontcompress = TRUE \/ (f.size # "empty" /\ i # Null /\ i.size # "empty")

GoodImage(i) == i # Null => i.data # Garbage /\ (i.size = "empty" => i.packed = FALSE)

SizesKnown ==
    /\ \A d \in Desc : desc[d].file # Null => KnownLength(file[desc[d].file], disk[file[desc[d].file].name])
    /\ \A t \in Thread : thr[t].pc = "pwrite" => LastingLength(file[thr[t].file], disk[file[thr[t].file].name])

WholeInv ==
    /\ SizesKnown
    /\ \A n \in Name : GoodImage(disk[n])
    /\ bg.data # Garbage
    /\ bg.pc = "compressing" => disk[file[bg.file].name].size # "empty"

SameLength(p) ==
    /\ file'[p].name = file[p].name /\ file'[p].size = file[p].size
    /\ file'[p].compressor = file[p].compressor /\ file'[p].dontcompress = file[p].dontcompress

NoNewWriter(u) == thr'[u].pc = "pwrite" => thr[u].pc = "pwrite" /\ thr'[u].file = thr[u].file

(* A step that changes nothing of the kind, ...                             *)
LEMMA SizesStay ==
    ASSUME CInv, SizesKnown, disk' = disk,
           \A d \in Desc : desc'[d].file \in {desc[d].file, Null},
           \A p \in live : OpenOn(p) => SameLength(p),
           \A u \in Thread : NoNewWriter(u)
    PROVE  SizesKnown'
<1>0. IInv
  BY DEF CInv
<1>1. ASSUME NEW d \in Desc, desc'[d].file # Null
      PROVE  KnownLength(file[desc[d].file], disk[file[desc[d].file].name])'
  <2>1. PICK p \in live : p = desc[d].file /\ desc'[d].file = p /\ OpenOn(p)
    BY <1>0, <1>1, OpenFacts
  <2>2. KnownLength(file[p], disk[file[p].name])
    BY <1>1, <2>1 DEF SizesKnown
  <2>3. SameLength(p)
    BY <2>1
  <2> QED
    BY <2>1, <2>2, <2>3 DEF SameLength, KnownLength
<1>2. ASSUME NEW u \in Thread, thr'[u].pc = "pwrite"
      PROVE  LastingLength(file[thr[u].file], disk[file[thr[u].file].name])'
  <2>1. thr[u].pc = "pwrite" /\ thr'[u].file = thr[u].file
    BY <1>2 DEF NoNewWriter
  <2>2. PICK p \in live : p = thr[u].file /\ OpenOn(p)
    BY <1>0, <2>1, Unlocked DEF OpenOn
  <2>3. LastingLength(file[p], disk[file[p].name])
    BY <2>1, <2>2 DEF SizesKnown
  <2>4. SameLength(p)
    BY <2>2
  <2> QED
    BY <2>1, <2>2, <2>3, <2>4 DEF SameLength, LastingLength
<1> QED
  BY <1>1, <1>2 DEF SizesKnown

LEMMA QuietWhole ==
    ASSUME CInv, WholeInv, disk' = disk, bg' = bg,
           \A d \in Desc : desc'[d].file \in {desc[d].file, Null},
           \A p \in live : OpenOn(p) \/ p = bg.file => SameLength(p),
           \A u \in Thread : NoNewWriter(u)
    PROVE  WholeInv'
<1>1. \A p \in live : OpenOn(p) => SameLength(p)
  OBVIOUS
<1>2. SizesKnown'
  BY <1>1, SizesStay DEF WholeInv
<1>3. bg'.pc = "compressing" => disk'[file'[bg'.file].name].size # "empty"
  <2> SUFFICES ASSUME bg.pc = "compressing" PROVE disk[file'[bg.file].name].size # "empty"
    OBVIOUS
  <2>1. bg.file \in live
    BY MarkedFacts
  <2> QED
    BY <2>1 DEF SameLength, WholeInv
<1>4. bg'.data # Garbage /\ \A n \in Name : GoodImage(disk[n])'
  BY DEF WholeInv, GoodImage
<1> QED
  BY <1>2, <1>3, <1>4 DEF WholeInv

(* ... or something of the entry o and its file only.                       *)
OnlyChanges(o, g, j) ==
    /\ file'[o] = g /\ disk'[file[o].name] = j
    /\ \A p \in live : p # o => file'[p] = file[p] /\ disk'[file[p].name] = disk[file[p].name]
    /\ \A n \in Name : n # file[o].name => disk'[n] = disk[n]

LEMMA OthersSame ==
    ASSUME CInv, NEW o \in live, NEW g, file' = [file EXCEPT ![o] = g],
           NEW j, disk' = [disk EXCEPT ![file[o].name] = j]
    PROVE  OnlyChanges(o, g, j)
<1>1. o \in Obj /\ \A p \in live : p \in Obj /\ p \in database
  BY DEF CInv, TableWhole, IInv, TypeOK
<1>2. \A p \in live : p # o => file'[p] = file[p]
  BY <1>1 DEF CInv, IInv, TypeOK
<1>3. \A p \in live : p # o => file[p].name # file[o].name
  BY <1>1 DEF CInv, OneEntryPerName
<1>4. file[o].name \in Name /\ \A p \in live : file[p].name \in Name
  BY DEF CInv, IInv, TableLive, FileRec
<1>5. disk'[file[o].name] = j /\ \A n \in Name : n # file[o].name => disk'[n] = disk[n]
  BY <1>4 DEF CInv, IInv, TypeOK
<1>6. file'[o] = g
  BY <1>1 DEF CInv, IInv, TypeOK
<1> QED
  BY <1>2, <1>3, <1>4, <1>5, <1>6 DEF OnlyChanges

LEMMA SizesEntry ==
    ASSUME CInv, SizesKnown, NEW o \in live, NEW g, file' = [file EXCEPT ![o] = g], g.name = file[o].name,
           NEW j, disk' = [disk EXCEPT ![file[o].name] = j],
           \A d \in Desc : \/ desc'[d].file \in {desc[d].file, Null}
                           \/ desc'[d].file = o /\ KnownLength(g, j),
           OpenOn(o) => KnownLength(g, j),
           \A u \in Thread : thr'[u].pc = "pwrite" =>
              \/ thr[u].pc = "pwrite" /\ thr'[u].file = thr[u].file /\ (thr[u].file = o => LastingLength(g, j))
              \/ thr'[u].file = o /\ LastingLength(g, j)
    PROVE  SizesKnown'
<1>0. IInv
  BY DEF CInv
<1>0a. OnlyChanges(o, g, j)
  BY OthersSame
<1>1. /\ file'[o] = g /\ disk'[file[o].name] = j
      /\ \A p \in live : p # o => file'[p] = file[p] /\ disk'[file[p].name] = disk[file[p].name]
  BY <1>0a DEF OnlyChanges
<1>2. KnownLength(g, j) => KnownLength(file[o], disk[file[o].name])'
  BY <1>1 DEF KnownLength
<1>3. LastingLength(g, j) => LastingLength(file[o], disk[file[o].name])'
  BY <1>1 DEF LastingLength
<1>4. ASSUME NEW d \in Desc, desc'[d].file # Null
      PROVE  KnownLength(file[desc[d].file], disk[file[desc[d].file].name])'
  <2>1. CASE desc'[d].file = o /\ KnownLength(g, j)
    BY <1>2, <2>1
  <2>2. CASE desc'[d].file = desc[d].file
    <3>1. PICK p \in live : p = desc[d].file /\ OpenOn(p)
      BY <1>0, <1>4, <2>2, OpenFacts
    <3>2. CASE p = o
      BY <1>2, <2>2, <3>1, <3>2
    <3>3. CASE p # o
      <4>1. KnownLength(file[p], disk[file[p].name])
        BY <1>4, <2>2, <3>1 DEF SizesKnown
      <4> QED
        BY <1>1, <2>2, <3>1, <3>3, <4>1 DEF KnownLength
    <3> QED
      BY <3>2, <3>3
  <2> QED
    BY <1>4, <2>1, <2>2
<1>5. ASSUME NEW u \in Thread, thr'[u].pc = "pwrite"
      PROVE  LastingLength(file[thr[u].file], disk[file[thr[u].file].name])'
  <2>1. CASE thr'[u].file = o /\ LastingLength(g, j)
    BY <1>3, <2>1
  <2>2. CASE thr[u].pc = "pwrite" /\ thr'[u].file = thr[u].file /\ thr[u].file # o
    <3>1. PICK p \in live : p = thr[u].file /\ p # o
      BY <1>0, <2>2, Unlocked
    <3>2. LastingLength(file[p], disk[file[p].name])
      BY <2>2, <3>1 DEF SizesKnown
    <3> QED
      BY <1>1, <2>2, <3>1, <3>2 DEF LastingLength
  <2> QED
    BY <1>5, <2>1, <2>2
<1> QED
  BY <1>4, <1>5 DEF SizesKnown

(* A handler's step: the background thread goes on with what it does.       *)
LEMMA EntryWhole ==
    ASSUME CInv, WholeInv, NEW o \in live, NEW g, file' = [file EXCEPT ![o] = g], g.name = file[o].name,
           NEW j, disk' = [disk EXCEPT ![file[o].name] = j],
           \A d \in Desc : \/ desc'[d].file \in {desc[d].file, Null}
                           \/ desc'[d].file = o /\ KnownLength(g, j),
           OpenOn(o) => KnownLength(g, j),
           \A u \in Thread : thr'[u].pc = "pwrite" =>
              \/ thr[u].pc = "pwrite" /\ thr'[u].file = thr[u].file /\ (thr[u].file = o => LastingLength(g, j))
              \/ thr'[u].file = o /\ LastingLength(g, j),
           GoodImage(j), bg' = bg,
           InUse(o) \/ (disk[file[o].name] # Null => j.size = disk[file[o].name].size)
    PROVE  WholeInv'
<1>1. SizesKnown'
  BY SizesEntry DEF WholeInv
<1>1a. OnlyChanges(o, g, j)
  BY OthersSame
<1>2. /\ file'[o] = g /\ disk'[file[o].name] = j
      /\ \A p \in live : p # o => file'[p] = file[p] /\ disk'[file[p].name] = disk[file[p].name]
      /\ \A n \in Name : n # file[o].name => disk'[n] = disk[n]
  BY <1>1a DEF OnlyChanges
<1>3. \A n \in Name : GoodImage(disk'[n])
  BY <1>2 DEF WholeInv
<1>4. ASSUME bg.pc = "compressing" PROVE disk'[file'[bg.file].name].size # "empty"
  <2>1. bg.file \in live /\ disk[file[bg.file].name].size # "empty"
    BY <1>4, MarkedFacts DEF WholeInv
  <2>2. CASE bg.file # o
    BY <1>2, <2>1, <2>2
  <2>3. CASE bg.file = o
    <3>1. ~InUse(o)
      BY <1>4, <2>3, NotWorkedOn
    <3>2. disk[file[o].name] # Null
      BY <1>4, <2>3 DEF CInv, IInv, BgControl, WorkFaithful
    <3> QED
      BY <1>2, <2>1, <2>3, <3>1, <3>2
  <2> QED
    BY <2>2, <2>3
<1> QED
  BY <1>1, <1>3, <1>4 DEF WholeInv, GoodImage

(* The length an entry has now fits the file, ...                           *)
LengthFits(f, i) == i # Null /\ i.size # "empty" => f.size # "empty"

LEMMA FitsKnown ==
    ASSUME NEW f, NEW i, LengthFits(f, i)
    PROVE  KnownLength(f, i)
BY DEF LengthFits, KnownLength

LEMMA FileStays ==
    ASSUME IInv, NEW o \in live
    PROVE  /\ file' = file => file' = [file EXCEPT ![o] = file[o]]
           /\ disk' = disk => disk' = [disk EXCEPT ![file[o].name] = disk[file[o].name]]
BY DEF IInv, TypeOK, TableLive

LEMMA FitsWhole ==
    ASSUME CInv, WholeInv, NEW o \in live, NEW g, file' = [file EXCEPT ![o] = g], g.name = file[o].name,
           NEW j, disk' = [disk EXCEPT ![file[o].name] = j],
           \A d \in Desc : desc'[d].file \in {desc[d].file, Null, o},
           \A u \in Thread : NoNewWriter(u),
           LengthFits(g, j), GoodImage(j), bg' = bg,
           InUse(o) \/ (disk[file[o].name] # Null => j.size = disk[file[o].name].size),
           \A u \in Thread : thr[u].pc = "pwrite" /\ thr[u].file = o =>
              /\ file[o].dontcompress = TRUE => g.dontcompress = TRUE
              /\ disk[file[o].name] # Null /\ disk[file[o].name].size # "empty" => j # Null /\ j.size # "empty"
    PROVE  WholeInv'
<1>1. KnownLength(g, j)
  BY FitsKnown
<1>2. \A u \in Thread : thr[u].pc = "pwrite" /\ thr[u].file = o => LastingLength(g, j)
  BY DEF WholeInv, SizesKnown, LastingLength, LengthFits
<1>3. \A u \in Thread : thr'[u].pc = "pwrite" =>
              \/ thr[u].pc = "pwrite" /\ thr'[u].file = thr[u].file /\ (thr[u].file = o => LastingLength(g, j))
              \/ thr'[u].file = o /\ LastingLength(g, j)
  BY <1>2 DEF NoNewWriter
<1>4. \A d \in Desc : \/ desc'[d].file \in {desc[d].file, Null}
                      \/ desc'[d].file = o /\ KnownLength(g, j)
  BY <1>1
<1> QED
  BY <1>1, <1>3, <1>4, EntryWhole

(* ... or it stays what it was or becomes unknown, and the file is the same *)
(* but for its times.                                                       *)
SameImage(i, j) ==
    IF i = Null THEN j = Null ELSE j # Null /\ j.data = i.data /\ j.packed = i.packed /\ j.size = i.size

LEMMA SameWhole ==
    ASSUME CInv, WholeInv, NEW o \in live, NEW g, file' = [file EXCEPT ![o] = g], g.name = file[o].name,
           NEW j, disk' = [disk EXCEPT ![file[o].name] = j], SameImage(disk[file[o].name], j),
           g.size \in {file[o].size, "unknown"}, g.compressor = file[o].compressor,
           file[o].dontcompress = TRUE => g.dontcompress = TRUE,
           \A d \in Desc : desc'[d].file \in {desc[d].file, Null},
           \A u \in Thread : NoNewWriter(u), bg' = bg
    PROVE  WholeInv'
<1>0. IInv /\ file[o].name \in Name
  BY DEF CInv, IInv, TableLive, FileRec
<1>1. OpenOn(o) => KnownLength(g, j)
  <2>1. OpenOn(o) => KnownLength(file[o], disk[file[o].name])
    BY <1>0, ConstantsAssumption DEF OpenOn, WholeInv, SizesKnown, IInv, TypeOK
  <2> QED
    BY <2>1 DEF KnownLength, SameImage
<1>2. \A u \in Thread : thr[u].pc = "pwrite" /\ thr[u].file = o => LastingLength(g, j)
  BY DEF WholeInv, SizesKnown, LastingLength, SameImage
<1>3. \A u \in Thread : thr'[u].pc = "pwrite" =>
              \/ thr[u].pc = "pwrite" /\ thr'[u].file = thr[u].file /\ (thr[u].file = o => LastingLength(g, j))
              \/ thr'[u].file = o /\ LastingLength(g, j)
  BY <1>2 DEF NoNewWriter
<1>4. GoodImage(j)
  BY <1>0 DEF WholeInv, GoodImage, SameImage
<1>5. disk[file[o].name] # Null => j.size = disk[file[o].name].size
  BY DEF SameImage
<1> QED
  BY <1>1, <1>3, <1>4, <1>5, EntryWhole

(* The same when the step leaves the disk alone.                            *)
LEMMA SameDiskWhole ==
    ASSUME CInv, WholeInv, NEW o \in live, NEW g, file' = [file EXCEPT ![o] = g], g.name = file[o].name,
           disk' = disk, g.size \in {file[o].size, "unknown"}, g.compressor = file[o].compressor,
           file[o].dontcompress = TRUE => g.dontcompress = TRUE,
           \A d \in Desc : desc'[d].file \in {desc[d].file, Null},
           \A u \in Thread : NoNewWriter(u), bg' = bg
    PROVE  WholeInv'
<1>1. PICK j : j = disk[file[o].name]
  OBVIOUS
<1>2. disk' = [disk EXCEPT ![file[o].name] = j]
  BY <1>1, FileStays DEF CInv
<1>3. SameImage(disk[file[o].name], j)
  BY <1>1 DEF SameImage
<1> QED
  BY <1>2, <1>3, SameWhole

(* A handler under way begins no write, and leaves thread_compress() alone. *)
LEMMA HandlerWriters ==
    ASSUME IInv, NEW t \in Thread, HandlerStep(t)
    PROVE  bg' = bg /\ \A u \in Thread : NoNewWriter(u)
<1>1. thr[t] \in ThreadRec /\ Idle.pc = "idle"
  BY DEF IInv, TypeOK, Idle
<1>2. bg' = bg
  BY Zenon DEF HandlerStep, LockDatabase, DirectOpenPurge, Rewake, DirectOpenHit, DirectNewFile, PurgeEntry,
     Getattr, Utime, Mknod, Unlink, Truncate, Open, OpenFails, OpenLeaksLock, RenameKeepFrom, RenameKeepTo,
     RenameLockFrom, RenameCommit, ReadFail, Pwrite
<1>3. ASSUME NEW r, thr' = [thr EXCEPT ![t] = r], r.pc # "pwrite" PROVE \A u \in Thread : NoNewWriter(u)
  BY <1>3 DEF IInv, TypeOK, NoNewWriter
<1>4. CASE thr' = [thr EXCEPT ![t] = Idle]
  BY <1>1, <1>2, <1>3, <1>4
<1>5. CASE LockDatabase(t) \/ DirectOpenPurge(t) \/ RenameKeepTo(t) \/ RenameLockFrom(t)
           \/ \E o \in Obj : PurgeEntry(t, o) \/ DirectNewFile(t, o)
  <2>0. thr \in [Thread -> ThreadRec]
    BY DEF IInv, TypeOK
  <2>1. (\A u \in Thread \ {t} : thr'[u] = thr[u]) /\ thr'[t].pc # "pwrite"
    <3>1. CASE LockDatabase(t) \/ DirectOpenPurge(t) \/ RenameKeepTo(t) \/ RenameLockFrom(t)
      BY <2>0, <3>1 DEF LockDatabase, DirectOpenPurge, RenameKeepTo, RenameLockFrom, ThreadRec
    <3>2. ASSUME NEW o \in Obj, PurgeEntry(t, o)
          PROVE  (\A u \in Thread \ {t} : thr'[u] = thr[u]) /\ thr'[t].pc # "pwrite"
      BY <2>0, <3>2 DEF PurgeEntry, ThreadRec
    <3>3. ASSUME NEW o \in Obj, DirectNewFile(t, o)
          PROVE  (\A u \in Thread \ {t} : thr'[u] = thr[u]) /\ thr'[t].pc # "pwrite"
      BY <2>0, <3>3 DEF DirectNewFile, ThreadRec
    <3> QED
      BY <1>5, <3>1, <3>2, <3>3
  <2> QED
    BY <1>2, <2>1 DEF NoNewWriter
<1>6. CASE Rewake(t) \/ \E o \in Obj : DirectOpenHit(t, o)
  <2>1. \E o, f : LockOrWait(t, o, f)
    BY <1>6, Zenon DEF Rewake, DirectOpenHit
  <2>2. \E o : \/ thr' = [thr EXCEPT ![t].pc = "wait", ![t].file = o]
               \/ thr' = [thr EXCEPT ![t].pc = "locked", ![t].file = o]
    BY <2>1, Zenon DEF LockOrWait
  <2>3. (\A u \in Thread \ {t} : thr'[u] = thr[u]) /\ thr'[t].pc # "pwrite"
    BY <1>1, <2>2 DEF IInv, TypeOK, ThreadRec
  <2> QED
    BY <1>2, <2>3 DEF NoNewWriter
<1>7. CASE RenameKeepFrom(t)
  <2> DEFINE r == [Idle EXCEPT !.pc = "stat", !.op = "rename2", !.from = thr[t].file,
                               !.name = thr[t].other, !.other = thr[t].name]
  <2>1. thr' = [thr EXCEPT ![t] = r]
    BY <1>7 DEF RenameKeepFrom
  <2>2. r.pc # "pwrite"
    BY DEF Idle
  <2> HIDE DEF r
  <2> QED
    BY <1>2, <1>3, <2>1, <2>2
<1>8. CASE \/ Getattr(t) \/ Utime(t) \/ Mknod(t) \/ Unlink(t) \/ (\E s \in Sizes : Truncate(t, s))
           \/ (\E d \in Desc : Open(t, d)) \/ OpenFails(t) \/ OpenLeaksLock(t) \/ RenameCommit(t)
           \/ ReadFail(t) \/ Pwrite(t)
  BY <1>4, <1>8, Zenon DEF Getattr, Utime, Mknod, Unlink, Truncate, Open, OpenFails, OpenLeaksLock,
                           RenameCommit, ReadFail, Pwrite, Return
<1> QED
  BY <1>2, <1>5, <1>6, <1>7, <1>8, Zenon DEF HandlerStep

(* Looking an entry up, and the first half of a rename.                     *)
LEMMA LockOrWaitWhole ==
    ASSUME CInv, WholeInv, NEW t \in Thread, NEW o \in live, NEW f \in FileRec,
           f.name = file[o].name, f.size = file[o].size, f.compressor = file[o].compressor,
           f.dontcompress = file[o].dontcompress, LockOrWait(t, o, f),
           desc' = desc, disk' = disk, bg' = bg, \A u \in Thread : NoNewWriter(u)
    PROVE  WholeInv'
<1> DEFINE w == [f EXCEPT !.status = @ \cup {"CANCEL"}]
<1>1. w.name = f.name /\ w.size = f.size /\ w.compressor = f.compressor /\ w.dontcompress = f.dontcompress
  BY DEF FileRec
<1>2. file' = [file EXCEPT ![o] = f] \/ file' = [file EXCEPT ![o] = w]
  BY DEF LockOrWait
<1> HIDE DEF w
<1>3. PICK g : /\ file' = [file EXCEPT ![o] = g] /\ g.name = file[o].name /\ g.size = file[o].size
               /\ g.compressor = file[o].compressor /\ g.dontcompress = file[o].dontcompress
  BY <1>1, <1>2
<1> QED
  BY <1>3, SameDiskWhole

LEMMA LookUpWhole ==
    ASSUME CInv, WholeInv, NEW t \in Thread, Rewake(t) \/ \E o \in Obj : DirectOpenHit(t, o)
    PROVE  WholeInv'
<1>0. IInv /\ bg' = bg /\ \A u \in Thread : NoNewWriter(u)
  <2>1. HandlerStep(t)
    BY Zenon DEF HandlerStep
  <2> QED
    BY <2>1, HandlerWriters DEF CInv
<1>1. CASE Rewake(t)
  <2>1. thr[t].file \in live /\ LockOrWait(t, thr[t].file, file[thr[t].file]) /\ desc' = desc /\ disk' = disk
    BY <1>1 DEF Rewake
  <2>2. PICK o \in live, f \in FileRec : o = thr[t].file /\ f = file[o]
    BY <1>0, <2>1 DEF IInv, TableLive
  <2>3. LockOrWait(t, o, f)
    BY <2>1, <2>2
  <2> QED
    BY <1>0, <2>1, <2>2, <2>3, LockOrWaitWhole
<1>2. ASSUME NEW o \in Obj, DirectOpenHit(t, o) PROVE WholeInv'
  <2>1. o \in live /\ file[o] \in FileRec
    BY <1>0, <1>2 DEF DirectOpenHit, IInv, TableLive
  <2>2. PICK f : f = [file[o] EXCEPT !.deleted = FALSE]
    OBVIOUS
  <2>3. /\ f \in FileRec /\ f.name = file[o].name /\ f.size = file[o].size
        /\ f.compressor = file[o].compressor /\ f.dontcompress = file[o].dontcompress
    BY <2>1, <2>2 DEF FileRec
  <2>4. LockOrWait(t, o, f) /\ desc' = desc /\ disk' = disk
    BY <1>2, <2>2 DEF DirectOpenHit
  <2> QED
    BY <1>0, <2>1, <2>3, <2>4, LockOrWaitWhole
<1> QED
  BY <1>1, <1>2

LEMMA WalkWhole ==
    ASSUME CInv, WholeInv, NEW t \in Thread,
           \/ LockDatabase(t) \/ DirectOpenPurge(t) \/ RenameLockFrom(t)
           \/ RenameKeepFrom(t) \/ RenameKeepTo(t)
           \/ \E o \in Obj : DirectNewFile(t, o) \/ PurgeEntry(t, o)
    PROVE  WholeInv'
<1>0. IInv /\ bg' = bg /\ \A u \in Thread : NoNewWriter(u)
  <2>1. HandlerStep(t)
    BY Zenon DEF HandlerStep
  <2> QED
    BY <2>1, HandlerWriters DEF CInv
<1>1. disk' = disk /\ desc' = desc
  BY Zenon DEF LockDatabase, DirectOpenPurge, RenameLockFrom, RenameKeepFrom, RenameKeepTo, DirectNewFile, PurgeEntry
<1>2. ASSUME NEW o \in live, file' = [file EXCEPT ![o].accesses = @ + 1]
      PROVE  \A p \in live : SameLength(p)
  <2>1. o \in Obj /\ file[o] \in FileRec
    BY <1>0 DEF IInv, TypeOK, TableLive
  <2> QED
    BY <1>0, <1>2, <2>1 DEF SameLength, IInv, TypeOK, FileRec
<1>3. \A p \in live : OpenOn(p) \/ p = bg.file => SameLength(p)
  <2>1. CASE LockDatabase(t) \/ DirectOpenPurge(t) \/ RenameLockFrom(t)
    <3>1. file' = file
      BY <2>1, Zenon DEF LockDatabase, DirectOpenPurge, RenameLockFrom
    <3> QED
      BY <3>1 DEF SameLength
  <2>2. CASE RenameKeepFrom(t) \/ RenameKeepTo(t)
    <3>1. thr[t].pc = "locked"
      BY <2>2 DEF RenameKeepFrom, RenameKeepTo, Holds
    <3>2. PICK o \in live : o = thr[t].file
      BY <1>0, <3>1 DEF IInv, Control, ControlOf
    <3>3. file' = [file EXCEPT ![o].accesses = @ + 1]
      BY <2>2, <3>2, Zenon DEF RenameKeepFrom, RenameKeepTo
    <3> QED
      BY <1>2, <3>3
  <2>3. ASSUME NEW o \in Obj, DirectNewFile(t, o) PROVE \A p \in live : SameLength(p)
    <3>1. o \notin live
      BY <2>3, Zenon DEF DirectNewFile
    <3>2. \E g : file' = [file EXCEPT ![o] = g]
      BY <2>3, Zenon DEF DirectNewFile
    <3> QED
      BY <1>0, <3>1, <3>2 DEF SameLength, IInv, TypeOK
  <2>4. ASSUME NEW o \in Obj, PurgeEntry(t, o) PROVE \A p \in live : OpenOn(p) \/ p = bg.file => SameLength(p)
    <3>1. o \in live
      BY <1>0, <2>4 DEF PurgeEntry, IInv, TableLive, Control, ControlOf
    <3>2. \/ file' = file
          \/ file' = [file EXCEPT ![o].accesses = @ + 1]
          \/ file[o].accesses = 0 /\ file' = [file EXCEPT ![o] = Null]
      BY <2>4, Zenon DEF PurgeEntry, PurgeUnused, Enqueue, WantsDedup
    <3>3. CASE file[o].accesses = 0 /\ file' = [file EXCEPT ![o] = Null]
      <4>1. ~OpenOn(o) /\ bg.file # o
        BY <1>0, <3>1, <3>3, Unused DEF DescOf, OpenOn, BgOf
      <4> QED
        BY <1>0, <3>3, <4>1 DEF SameLength, IInv, TypeOK
    <3>4. CASE file' = file
      BY <3>4 DEF SameLength
    <3> QED
      BY <1>2, <3>1, <3>2, <3>3, <3>4
  <2> QED
    BY <2>1, <2>2, <2>3, <2>4
<1> QED
  BY <1>0, <1>1, <1>3, QuietWhole

(* Handlers that change the entry at most in ways that do not matter here.  *)
LEMMA SmallSizes ==
    ASSUME NEW f \in FileRec
    PROVE  /\ Discard(f) \in FileRec /\ Discard(f).name = f.name /\ Discard(f).size = f.size
           /\ Discard(f).compressor = f.compressor /\ Discard(f).dontcompress = f.dontcompress
           /\ Delete(f).name = f.name /\ Delete(f).size = "unknown" /\ Delete(f).compressor = f.compressor
           /\ Delete(f).dontcompress = f.dontcompress
           /\ DirectClose(f) \in FileRec /\ DirectClose(f).name = f.name /\ DirectClose(f).size = f.size
           /\ DirectClose(f).compressor = f.compressor
BY DEF Discard, Delete, DirectClose, FileRec

LEMMA OpenFailsWhole ==
    ASSUME CInv, WholeInv, NEW t \in Thread, OpenFails(t) \/ OpenLeaksLock(t) \/ ReadFail(t)
    PROVE  WholeInv'
<1>0. IInv /\ bg' = bg /\ \A u \in Thread : NoNewWriter(u)
  <2>1. HandlerStep(t)
    BY Zenon DEF HandlerStep
  <2> QED
    BY <2>1, HandlerWriters DEF CInv
<1>1. desc' = desc /\ disk' = disk
  BY Zenon DEF OpenFails, OpenLeaksLock, ReadFail
<1>2. PICK o \in live : o = thr[t].file /\ file[o] \in FileRec
  <2>1. CASE OpenFails(t) \/ OpenLeaksLock(t)
    BY <1>0, <2>1, Holding DEF OpenFails, OpenLeaksLock
  <2>2. CASE ReadFail(t)
    BY <1>0, <2>2, Unlocked DEF ReadFail
  <2> QED
    BY <2>1, <2>2
<1> DEFINE Like(g) == /\ g.name = file[o].name /\ g.size \in {file[o].size, "unknown"}
                      /\ g.compressor = file[o].compressor
                      /\ (file[o].dontcompress = TRUE => g.dontcompress = TRUE)
<1>3. \A f \in {file[o], Discard(file[o])} :
         f \in FileRec /\ Like(f) /\ f.dontcompress = file[o].dontcompress
  BY <1>2, SmallSizes
<1>4. \A f \in {file[o], Discard(file[o])} : \A linked \in BOOLEAN : Like([f EXCEPT !.dontcompress = @ \/ linked])
  <2> SUFFICES ASSUME NEW f \in {file[o], Discard(file[o])}, NEW linked \in BOOLEAN
               PROVE  Like([f EXCEPT !.dontcompress = @ \/ linked])
    OBVIOUS
  <2> DEFINE h == [f EXCEPT !.dontcompress = @ \/ linked]
  <2>1. /\ h.name = f.name /\ h.size = f.size /\ h.compressor = f.compressor
        /\ h.dontcompress = (f.dontcompress \/ linked) /\ f.dontcompress \in BOOLEAN
    BY <1>3 DEF FileRec
  <2> HIDE DEF h
  <2>2. Like(f) /\ f.dontcompress = file[o].dontcompress
    BY <1>3
  <2>3. file[o].dontcompress = TRUE => h.dontcompress = TRUE
    BY <2>1, <2>2
  <2>4. Like(h)
    BY <2>1, <2>2, <2>3
  <2> QED
    BY <2>4 DEF h
<1>5. Like([file[o] EXCEPT !.size = "unknown"])
  BY <1>2 DEF FileRec
<1>6. \E g : Like(g) /\ file' = [file EXCEPT ![o] = g]
  <2> HIDE DEF Like
  <2>1. CASE OpenFails(t)
    BY <1>2, <1>3, <2>1, Zenon DEF OpenFails
  <2>2. CASE OpenLeaksLock(t)
    <3>1. PICK f \in {file[thr[t].file], Discard(file[thr[t].file])}, linked \in {FALSE, DedupEnabled} :
             file' = [file EXCEPT ![thr[t].file] = [f EXCEPT !.dontcompress = @ \/ linked]]
      BY <2>2, Zenon DEF OpenLeaksLock
    <3>2. f \in {file[o], Discard(file[o])} /\ linked \in BOOLEAN
      BY <1>2, <3>1, ConstantsAssumption
    <3>3. file' = [file EXCEPT ![o] = [f EXCEPT !.dontcompress = @ \/ linked]]
      BY <1>2, <3>1
    <3> QED
      BY <1>4, <3>2, <3>3
  <2>3. CASE ReadFail(t)
    BY <1>2, <1>5, <2>3, Zenon DEF ReadFail
  <2> QED
    BY <2>1, <2>2, <2>3
<1>7. \A d \in Desc : desc'[d].file \in {desc[d].file, Null}
  BY <1>1
<1>8. PICK g : Like(g) /\ file' = [file EXCEPT ![o] = g]
  BY <1>6
<1> QED
  BY <1>0, <1>1, <1>7, <1>8, SameDiskWhole

LEMMA UtimeWhole ==
    ASSUME CInv, WholeInv, NEW t \in Thread, Utime(t)
    PROVE  WholeInv'
<1>0. IInv /\ bg' = bg /\ \A u \in Thread : NoNewWriter(u)
  <2>1. HandlerStep(t)
    BY Zenon DEF HandlerStep
  <2> QED
    BY <2>1, HandlerWriters DEF CInv
<1>1. PICK o \in live : o = thr[t].file /\ file[o] \in FileRec /\ file[o].name = thr[t].name /\ file[o].name \in Name
  BY <1>0, Holding DEF Utime
<1>2. PICK n \in Name : n = file[o].name /\ n = thr[t].name
  BY <1>1
<1>3. file' = [file EXCEPT ![o] = file[o]] /\ desc' = desc
  BY <1>0, FileStays DEF Utime
<1>4. \E j : SameImage(disk[n], j) /\ disk' = [disk EXCEPT ![n] = j]
  <2>1. CASE disk' = disk
    <3>1. disk' = [disk EXCEPT ![n] = disk[n]] /\ SameImage(disk[n], disk[n])
      BY <1>0, <1>2, <2>1, FileStays DEF SameImage
    <3> QED
      BY <3>1
  <2>2. ASSUME disk[n] # Null, NEW m \in Time, disk' = [disk EXCEPT ![n].mtime = m]
        PROVE  \E j : SameImage(disk[n], j) /\ disk' = [disk EXCEPT ![n] = j]
    <3> DEFINE j == [disk[n] EXCEPT !.mtime = m]
    <3>1. disk[n] \in Image
      BY <1>0, <2>2 DEF IInv, TypeOK
    <3>2. j \in Image /\ j.data = disk[n].data /\ j.packed = disk[n].packed /\ j.size = disk[n].size
      BY <3>1 DEF Image
    <3>3. SameImage(disk[n], j)
      <4> HIDE DEF j
      <4> QED
        BY <2>2, <3>2, ImageAssumption DEF SameImage
    <3>4. disk' = [disk EXCEPT ![n] = j]
      BY <2>2
    <3> QED
      BY <3>3, <3>4
  <2> QED
    BY <1>2, <2>1, <2>2 DEF Utime
<1>5. PICK j : SameImage(disk[n], j) /\ disk' = [disk EXCEPT ![n] = j]
  BY <1>4
<1>6. PICK g : g = file[o]
  OBVIOUS
<1>7. /\ file' = [file EXCEPT ![o] = g] /\ g.name = file[o].name /\ g.size = file[o].size
      /\ g.compressor = file[o].compressor /\ g.dontcompress = file[o].dontcompress
      /\ disk' = [disk EXCEPT ![file[o].name] = j] /\ SameImage(disk[file[o].name], j)
      /\ \A d \in Desc : desc'[d].file \in {desc[d].file, Null}
  BY <1>2, <1>3, <1>5, <1>6
<1> QED
  BY <1>0, <1>7, SameWhole

(* Handlers that read a file's length.                                      *)
LEMMA FitsDiskWhole ==
    ASSUME CInv, WholeInv, NEW o \in live, NEW g, file' = [file EXCEPT ![o] = g], g.name = file[o].name,
           disk' = disk, LengthFits(g, disk[file[o].name]), file[o].dontcompress = TRUE => g.dontcompress = TRUE,
           \A d \in Desc : desc'[d].file \in {desc[d].file, Null, o},
           \A u \in Thread : NoNewWriter(u), bg' = bg
    PROVE  WholeInv'
<1>1. PICK j : j = disk[file[o].name]
  OBVIOUS
<1>2. disk' = [disk EXCEPT ![file[o].name] = j]
  BY <1>1, FileStays DEF CInv
<1>3. GoodImage(j) /\ LengthFits(g, j)
  <2>1. file[o].name \in Name
    BY DEF CInv, IInv, TableLive, FileRec
  <2> QED
    BY <1>1, <2>1 DEF WholeInv
<1>4. disk[file[o].name] # Null => j.size = disk[file[o].name].size
  BY <1>1
<1>5. \A u \in Thread : thr[u].pc = "pwrite" /\ thr[u].file = o =>
         /\ file[o].dontcompress = TRUE => g.dontcompress = TRUE
         /\ disk[file[o].name] # Null /\ disk[file[o].name].size # "empty" => j # Null /\ j.size # "empty"
  BY <1>1
<1> QED
  BY <1>2, <1>3, <1>4, <1>5, FitsWhole

FreshStat(t) == thr[t].stat = "empty" /\ disk[thr[t].name] # Null => disk[thr[t].name].size = "empty"

LEMMA GetattrWhole ==
    ASSUME CInv, WholeInv, NEW t \in Thread, Getattr(t), FreshStat(t)
    PROVE  WholeInv'
<1>0. IInv /\ bg' = bg /\ \A u \in Thread : NoNewWriter(u)
  <2>1. HandlerStep(t)
    BY Zenon DEF HandlerStep
  <2> QED
    BY <2>1, HandlerWriters DEF CInv
<1>1. PICK o \in live : o = thr[t].file /\ file[o] \in FileRec /\ file[o].name = thr[t].name
  BY <1>0, Holding DEF Getattr
<1> DEFINE f == file[o]
           i == disk[f.name]
           Like(g) == g.name = f.name /\ g.dontcompress = f.dontcompress /\ LengthFits(g, i)
<1>2. disk' = disk /\ desc' = desc
  BY Zenon DEF Getattr
<1>3. \A c, s : LET g == [f EXCEPT !.compressor = c, !.size = s]
                IN  g.name = f.name /\ g.dontcompress = f.dontcompress /\ g.size = s
  BY <1>1 DEF FileRec
<1>4. \A s : LET g == [f EXCEPT !.size = s]
             IN  g.name = f.name /\ g.dontcompress = f.dontcompress /\ g.size = s
  BY <1>1 DEF FileRec
<1>5. \/ file' = file
      \/ \E g : Like(g) /\ file' = [file EXCEPT ![o] = g]
  <2>1. CASE /\ f.size = "unknown" /\ thr[t].stat # "empty" /\ i # Null
             /\ file' = [file EXCEPT ![o] =
                IF i.packed THEN [f EXCEPT !.compressor = TRUE, !.size = i.size]
                ELSE IF i.size = "empty" THEN [f EXCEPT !.size = thr[t].stat]
                ELSE [f EXCEPT !.compressor = FALSE, !.size = thr[t].stat]]
    <3> DEFINE x == [f EXCEPT !.compressor = TRUE, !.size = i.size]
               y == [f EXCEPT !.size = thr[t].stat]
               z == [f EXCEPT !.compressor = FALSE, !.size = thr[t].stat]
    <3>1. LengthFits(x, i) /\ LengthFits(y, i) /\ LengthFits(z, i)
      BY <1>3, <1>4, <2>1 DEF LengthFits
    <3>2. Like(x) /\ Like(y) /\ Like(z)
      BY <1>3, <1>4, <3>1
    <3>3. file' = [file EXCEPT ![o] = x] \/ file' = [file EXCEPT ![o] = y] \/ file' = [file EXCEPT ![o] = z]
      <4> HIDE DEF x, y, z
      <4> QED
        BY <2>1 DEF x, y, z
    <3> HIDE DEF x, y, z, Like
    <3> QED
      BY <3>2, <3>3
  <2>2. CASE thr[t].stat = "empty" /\ file' = [file EXCEPT ![o].size = "empty"]
    <3> DEFINE x == [f EXCEPT !.size = "empty"]
    <3>1. LengthFits(x, i)
      BY <1>1, <2>2 DEF LengthFits, FreshStat
    <3>2. Like(x)
      BY <1>4, <3>1
    <3>3. file' = [file EXCEPT ![o] = x]
      BY <2>2
    <3> HIDE DEF x, Like
    <3> QED
      BY <3>2, <3>3
  <2> HIDE DEF Like
  <2> QED
    BY <1>1, <2>1, <2>2, Zenon DEF Getattr
<1>6. CASE file' = file
  <2>1. PICK g : g = file[o] /\ file' = [file EXCEPT ![o] = g]
    BY <1>0, <1>6, FileStays
  <2> QED
    BY <1>0, <1>2, <2>1, SameDiskWhole
<1>7. ASSUME NEW g, Like(g), file' = [file EXCEPT ![o] = g] PROVE WholeInv'
  <2>1. /\ g.name = file[o].name /\ LengthFits(g, disk[file[o].name])
        /\ file[o].dontcompress = TRUE => g.dontcompress = TRUE
    BY <1>7
  <2>2. \A d \in Desc : desc'[d].file \in {desc[d].file, Null, o}
    BY <1>2
  <2> QED
    BY <1>0, <1>2, <1>7, <2>1, <2>2, FitsDiskWhole
<1> QED
  BY <1>5, <1>6, <1>7

LEMMA OpenWhole ==
    ASSUME CInv, WholeInv, NEW t \in Thread, NEW d \in Desc, Open(t, d)
    PROVE  WholeInv'
<1>0. IInv /\ bg' = bg /\ \A u \in Thread : NoNewWriter(u)
  <2>1. HandlerStep(t)
    BY Zenon DEF HandlerStep
  <2> QED
    BY <2>1, HandlerWriters DEF CInv
<1>1. PICK o \in live : o = thr[t].file /\ file[o] \in FileRec /\ file[o].name = thr[t].name
  <2>1. Holds(t, "open")
    BY Zenon DEF Open
  <2> QED
    BY <1>0, <2>1, Holding
<1> DEFINE n == thr[t].name
           Like(g) == g.name = n /\ g.size = disk[n].size /\ (file[o].dontcompress = TRUE => g.dontcompress = TRUE)
<1>2. \A f \in {file[o], Discard(file[o])} : f \in FileRec /\ f.name = n /\ f.dontcompress = file[o].dontcompress
  BY <1>1, SmallSizes
<1>3. \A f \in FileRec : \A linked \in BOOLEAN : \A s, c :
         LET g == [f EXCEPT !.accesses = @ + 1, !.size = s, !.compressor = c, !.dontcompress = @ \/ linked]
         IN  g.name = f.name /\ g.size = s /\ (f.dontcompress = TRUE => g.dontcompress = TRUE)
  BY DEF FileRec
<1>4. PICK f \in {file[thr[t].file], Discard(file[thr[t].file])}, linked \in {FALSE, DedupEnabled} :
         file' = [file EXCEPT ![thr[t].file] = [f EXCEPT !.accesses = @ + 1, !.size = disk[n].size,
                                                !.compressor = disk[n].packed,
                                                !.dontcompress = @ \/ linked]]
  BY Zenon DEF Open
<1>5. f \in {file[o], Discard(file[o])} /\ linked \in BOOLEAN
  BY <1>1, <1>4, ConstantsAssumption
<1> DEFINE g == [f EXCEPT !.accesses = @ + 1, !.size = disk[n].size, !.compressor = disk[n].packed,
                          !.dontcompress = @ \/ linked]
<1>6. g.name = f.name /\ g.size = disk[n].size /\ (f.dontcompress = TRUE => g.dontcompress = TRUE)
  BY <1>2, <1>3, <1>5
<1>7. file' = [file EXCEPT ![o] = g]
  BY <1>1, <1>4
<1> HIDE DEF g
<1>8. desc' = [desc EXCEPT ![d] = [file |-> o, fd |-> "ok"]] /\ disk' = disk
  BY <1>1, Zenon DEF Open
<1>9. \A x \in Desc : desc'[x].file \in {desc[x].file, Null, o}
  BY <1>0, <1>8 DEF IInv, TypeOK
<1>10. LengthFits(g, disk[file[o].name])
  BY <1>1, <1>6 DEF LengthFits
<1>11. g.name = file[o].name /\ (file[o].dontcompress = TRUE => g.dontcompress = TRUE)
  BY <1>1, <1>2, <1>5, <1>6
<1> QED
  BY <1>0, <1>7, <1>8, <1>9, <1>10, <1>11, FitsDiskWhole

(* mknod and unlink.                                                        *)
LEMMA MknodWhole ==
    ASSUME CInv, WholeInv, NEW t \in Thread, Mknod(t)
    PROVE  WholeInv'
<1>0. IInv /\ bg' = bg /\ \A u \in Thread : NoNewWriter(u)
  <2>1. HandlerStep(t)
    BY Zenon DEF HandlerStep
  <2> QED
    BY <2>1, HandlerWriters DEF CInv
<1>1. PICK o \in live : o = thr[t].file /\ file[o] \in FileRec /\ file[o].name = thr[t].name
  BY <1>0, Holding DEF Mknod
<1>2. file' = file /\ desc' = desc
  BY Zenon DEF Mknod
<1>3. PICK g : g = file[o]
  OBVIOUS
<1>4. file' = [file EXCEPT ![o] = g] /\ g.name = file[o].name
  BY <1>0, <1>2, <1>3, FileStays
<1>5. CASE disk' = disk
  BY <1>0, <1>2, <1>3, <1>4, <1>5, SameDiskWhole
<1>6. ASSUME disk[thr[t].name] = Null, NEW c \in Data, NEW m \in Time,
             disk' = [disk EXCEPT ![thr[t].name] = [data |-> c, packed |-> FALSE, size |-> "empty", mtime |-> m]]
      PROVE  WholeInv'
  <2>1. PICK j : j = [data |-> c, packed |-> FALSE, size |-> "empty", mtime |-> m]
    OBVIOUS
  <2>2. disk' = [disk EXCEPT ![file[o].name] = j]
    BY <1>1, <1>6, <2>1
  <2>3. GoodImage(j) /\ KnownLength(g, j)
    BY <2>1, ConstantsAssumption DEF GoodImage, KnownLength
  <2>4. disk[file[o].name] = Null
    BY <1>1, <1>6
  <2>5. \A u \in Thread : thr[u].pc = "pwrite" /\ thr[u].file = o => LastingLength(g, j)
    BY <1>3, <2>4 DEF WholeInv, SizesKnown, LastingLength
  <2>6. \A u \in Thread : thr'[u].pc = "pwrite" =>
              \/ thr[u].pc = "pwrite" /\ thr'[u].file = thr[u].file /\ (thr[u].file = o => LastingLength(g, j))
              \/ thr'[u].file = o /\ LastingLength(g, j)
    BY <1>0, <2>5 DEF NoNewWriter
  <2>7. \A d \in Desc : \/ desc'[d].file \in {desc[d].file, Null}
                        \/ desc'[d].file = o /\ KnownLength(g, j)
    BY <1>2
  <2> QED
    BY <1>0, <1>4, <2>2, <2>3, <2>4, <2>6, <2>7, EntryWhole
<1> QED
  BY <1>5, <1>6, Zenon DEF Mknod

LEMMA UnlinkWhole ==
    ASSUME CInv, HeadersKnown, WholeInv, NEW t \in Thread, Unlink(t)
    PROVE  WholeInv'
<1>0. IInv /\ bg' = bg /\ \A u \in Thread : NoNewWriter(u)
  <2>1. HandlerStep(t)
    BY Zenon DEF HandlerStep
  <2> QED
    BY <2>1, HandlerWriters DEF CInv
<1>h. Holds(t, "unlink")
  BY Zenon DEF Unlink
<1>1. PICK o \in live : o = thr[t].file /\ file[o] \in FileRec /\ file[o].name = thr[t].name /\ InUse(o)
  BY <1>0, <1>h, Holding, HeldInUse
<1>2. desc' = desc
  BY Zenon DEF Unlink
<1>3. /\ Discard(file[o]).name = file[o].name /\ Discard(file[o]).size = file[o].size
      /\ Discard(file[o]).compressor = file[o].compressor /\ Discard(file[o]).dontcompress = file[o].dontcompress
      /\ Delete(Discard(file[o])).name = file[o].name
  BY <1>1, SmallSizes
<1>4. CASE file' = [file EXCEPT ![o] = Discard(@)] /\ disk' = disk
  <2>1. PICK g : g = Discard(file[o])
    OBVIOUS
  <2>2. file' = [file EXCEPT ![o] = g]
    BY <1>4, <2>1
  <2> QED
    BY <1>0, <1>2, <1>3, <1>4, <2>1, <2>2, SameDiskWhole
<1>5. CASE file' = [file EXCEPT ![o] = Delete(Discard(@))] /\ disk' = [disk EXCEPT ![thr[t].name] = Null]
  <2>1. PICK g : g = Delete(Discard(file[o]))
    OBVIOUS
  <2>2. file' = [file EXCEPT ![o] = g] /\ g.name = file[o].name
    BY <1>3, <1>5, <2>1
  <2>3. PICK j : j = Null
    OBVIOUS
  <2>4. disk' = [disk EXCEPT ![file[o].name] = j]
    BY <1>1, <1>5, <2>3
  <2>5. GoodImage(j) /\ LengthFits(g, j)
    BY <2>3 DEF GoodImage, LengthFits
  <2>6. \A u \in Thread : thr[u].pc = "pwrite" => thr[u].file # o
    <3> SUFFICES ASSUME NEW u \in Thread, thr[u].pc = "pwrite", thr[u].file = o PROVE FALSE
      OBVIOUS
    <3>1. thr[u].op = "write"
      BY DEF HeadersKnown
    <3>2. thr[u].name = thr[t].name /\ thr[u].name \in Name
      BY <1>0, <1>1 DEF IInv, Control, ControlOf
    <3>3. u # t /\ ~Compatible(thr[t].op, thr[u].op)
      BY <1>h DEF Holds, Compatible, Exclusive
    <3> QED
      BY <1>0, <3>2, <3>3 DEF IInv, PathsExclusive
  <2>7. \A u \in Thread : thr[u].pc = "pwrite" /\ thr[u].file = o =>
              /\ file[o].dontcompress = TRUE => g.dontcompress = TRUE
              /\ disk[file[o].name] # Null /\ disk[file[o].name].size # "empty" => j # Null /\ j.size # "empty"
    BY <2>6
  <2>8. \A d \in Desc : desc'[d].file \in {desc[d].file, Null, o}
    BY <1>2
  <2>9. InUse(o) \/ (disk[file[o].name] # Null => j.size = disk[file[o].name].size)
    BY <1>1
  <2> QED
    BY <1>0, <2>2, <2>4, <2>5, <2>7, <2>8, <2>9, FitsWhole
<1> QED
  BY <1>1, <1>4, <1>5, Zenon DEF Unlink

(* The raw pwrite().                                                        *)
LEMMA PwriteWhole ==
    ASSUME CInv, HeadersKnown, WholeInv, NEW t \in Thread, Pwrite(t)
    PROVE  WholeInv'
<1>0. IInv /\ bg' = bg /\ \A u \in Thread : NoNewWriter(u)
  <2>1. HandlerStep(t)
    BY Zenon DEF HandlerStep
  <2> QED
    BY <2>1, HandlerWriters DEF CInv
<1>1. thr[t].pc = "pwrite" /\ desc' = desc
  BY Zenon DEF Pwrite
<1>2. PICK o \in live : o = thr[t].file /\ file[o] \in FileRec /\ file[o].name \in Name /\ InUse(o)
  BY <1>0, <1>1, Unlocked
<1>3. PICK n \in Name : n = file[o].name
  BY <1>2
<1>4. RawFile(o) /\ LastingLength(file[o], disk[n])
  BY <1>1, <1>2, <1>3 DEF HeadersKnown, WholeInv, SizesKnown
<1>5. CASE disk' = disk /\ (file' = file \/ file' = [file EXCEPT ![o].size = "unknown"])
  <2>1. PICK g : /\ file' = [file EXCEPT ![o] = g] /\ g.name = file[o].name /\ g.size \in {file[o].size, "unknown"}
                 /\ g.compressor = file[o].compressor /\ g.dontcompress = file[o].dontcompress
    <3>1. CASE file' = file
      <4>1. PICK g : g = file[o] /\ file' = [file EXCEPT ![o] = g]
        BY <1>0, <3>1, FileStays
      <4> QED
        BY <4>1
    <3>2. CASE file' = [file EXCEPT ![o].size = "unknown"]
      <4> DEFINE g == [file[o] EXCEPT !.size = "unknown"]
      <4>1. /\ g.name = file[o].name /\ g.size = "unknown"
            /\ g.compressor = file[o].compressor /\ g.dontcompress = file[o].dontcompress
        BY <1>2 DEF FileRec
      <4>2. file' = [file EXCEPT ![o] = g]
        BY <3>2
      <4> HIDE DEF g
      <4> QED
        BY <4>1, <4>2
    <3> QED
      BY <1>5, <3>1, <3>2
  <2> QED
    BY <1>0, <1>1, <1>5, <2>1, SameDiskWhole
<1>6. ASSUME disk[n] # Null, file' = file, NEW s \in Grown(disk[n]), NEW c \in Data, NEW m \in Time,
             disk' = [disk EXCEPT ![n] =
                   IF @.packed THEN [@ EXCEPT !.data = Garbage, !.mtime = m]
                   ELSE [data |-> c, packed |-> FALSE, size |-> s, mtime |-> m]]
      PROVE  WholeInv'
  <2>1. PICK j : j = [data |-> c, packed |-> FALSE, size |-> s, mtime |-> m]
    OBVIOUS
  <2>2. ~disk[n].packed
    BY <1>3, <1>4, <1>6 DEF RawFile
  <2>3. disk' = [disk EXCEPT ![file[o].name] = j]
    BY <1>3, <1>6, <2>1, <2>2
  <2>4. s # "empty"
    BY <1>6 DEF Grown
  <2>5. PICK g : g = file[o] /\ file' = [file EXCEPT ![o] = g]
    BY <1>0, <1>6, FileStays
  <2>6. KnownLength(g, j) /\ LastingLength(g, j) /\ j # Null
    <3>a. s \in SizeClass
      BY <1>6, ConstantsAssumption DEF Grown
    <3>b. j \in Image /\ j.size = s
      BY <2>1, <3>a DEF Image
    <3>1. j # Null /\ j.size # "empty"
      BY <2>4, <3>b, ImageAssumption
    <3> QED
      BY <1>4, <2>5, <3>1 DEF KnownLength, LastingLength, RawFile
  <2>7. GoodImage(j)
    BY <1>6, <2>1, <2>4, ConstantsAssumption DEF GoodImage
  <2>8. \A u \in Thread : thr'[u].pc = "pwrite" =>
              \/ thr[u].pc = "pwrite" /\ thr'[u].file = thr[u].file /\ (thr[u].file = o => LastingLength(g, j))
              \/ thr'[u].file = o /\ LastingLength(g, j)
    BY <1>0, <2>6 DEF NoNewWriter
  <2>9. \A d \in Desc : \/ desc'[d].file \in {desc[d].file, Null}
                        \/ desc'[d].file = o /\ KnownLength(g, j)
    BY <1>1
  <2>10. g.name = file[o].name
    BY <2>5
  <2>11. InUse(o) \/ (disk[file[o].name] # Null => j.size = disk[file[o].name].size)
    BY <1>2
  <2>12. OpenOn(o) => KnownLength(g, j)
    BY <2>6
  <2>13. file' = [file EXCEPT ![o] = g] /\ bg' = bg
    BY <1>0, <2>5
  <2> QED
    BY <2>3, <2>7, <2>8, <2>9, <2>10, <2>11, <2>12, <2>13, EntryWhole
<1> QED
  BY <1>2, <1>3, <1>5, <1>6, Zenon DEF Pwrite

(* Decompression: the data and the length stay; the entry of a compressed   *)
(* file knows its length before and after.                                  *)
LEMMA DecompressFits ==
    ASSUME IInv, NEW o, NEW f \in FileRec, NEW r \in DoDecompress(o, f), GoodImage(disk[f.name])
    PROVE  /\ GoodImage(r.i)
           /\ LengthFits(f, disk[f.name]) => LengthFits(r.f, r.i)
           /\ r.ok = TRUE /\ f.dontcompress = TRUE =>
                 r.f.dontcompress = TRUE \/ (r.i # Null /\ r.i.size # "empty")
<1> DEFINE i == disk[f.name]
           closed == IF DescOf(o) = {} THEN f ELSE DirectClose(f)
           done == [i EXCEPT !.packed = FALSE]
           plain == [f EXCEPT !.compressor = FALSE, !.size = "unknown"]
           unpacked == [closed EXCEPT !.compressor = FALSE, !.size = i.size]
<1>1. i # Null => i \in Image
  BY DEF IInv, TypeOK, FileRec
<1>2. closed \in FileRec /\ closed.size = f.size
  BY DirectCloseKeeps, SmallSizes
<1>3. plain.size = "unknown" /\ plain.dontcompress = f.dontcompress /\ unpacked.size = i.size
  <2> HIDE DEF closed
  <2> QED
    BY <1>2 DEF FileRec
<1>4. i # Null => done # Null /\ done.packed = FALSE /\ done.size = i.size /\ done.data = i.data
  <2>1. i # Null => done \in Image
    BY <1>1 DEF Image
  <2> QED
    BY <1>1, <2>1, ImageAssumption DEF Image
<1>5. \/ r = Outcome(FALSE, f, i, "same")
      \/ r = Outcome(TRUE, plain, i, "same")
      \/ i # Null /\ i.packed /\ r = Outcome(TRUE, unpacked, done, "ok")
      \/ r = Outcome(FALSE, closed, i, "closed")
      \/ r = Outcome(FALSE, closed, i, "stale")
      \/ i # Null /\ r = Outcome(FALSE, closed, done, "ok")
  <2> HIDE DEF closed, done, plain, unpacked
  <2> QED
    BY DEF DoDecompress, closed, done, plain, unpacked
<1>7. GoodImage(i) /\ (i # Null /\ i.packed => i.size # "empty")
  BY DEF GoodImage
<1>8. i # Null => GoodImage(done)
  BY <1>4, <1>7 DEF GoodImage
<1> HIDE DEF closed, done, plain, unpacked
<1>9. CASE r.ok = FALSE /\ (r.f = f \/ r.f = closed) /\ (r.i = i \/ (i # Null /\ r.i = done))
  BY <1>2, <1>4, <1>7, <1>8, <1>9 DEF LengthFits
<1>10. CASE r.f = plain /\ r.i = i
  BY <1>3, <1>7, <1>10 DEF LengthFits
<1>11. CASE i # Null /\ i.packed /\ r.f = unpacked /\ r.i = done
  BY <1>3, <1>4, <1>7, <1>8, <1>11 DEF LengthFits
<1>12. \/ r.ok = FALSE /\ (r.f = f \/ r.f = closed) /\ (r.i = i \/ (i # Null /\ r.i = done))
       \/ r.f = plain /\ r.i = i
       \/ i # Null /\ i.packed /\ r.f = unpacked /\ r.i = done
  <2>1. CASE r = Outcome(FALSE, f, i, "same")
    BY <2>1 DEF Outcome
  <2>2. CASE r = Outcome(TRUE, plain, i, "same")
    BY <2>2 DEF Outcome
  <2>3. CASE i # Null /\ i.packed /\ r = Outcome(TRUE, unpacked, done, "ok")
    BY <2>3 DEF Outcome
  <2>4. CASE r = Outcome(FALSE, closed, i, "closed") \/ r = Outcome(FALSE, closed, i, "stale")
    BY <2>4 DEF Outcome
  <2>5. CASE i # Null /\ r = Outcome(FALSE, closed, done, "ok")
    BY <2>5 DEF Outcome
  <2> QED
    BY <1>5, <2>1, <2>2, <2>3, <2>4, <2>5
<1> QED
  BY <1>9, <1>10, <1>11, <1>12

LEMMA TruncateWhole ==
    ASSUME CInv, HeadersKnown, WholeInv, "write" \notin Failures,
           NEW t \in Thread, NEW s \in Sizes, Truncate(t, s), s = "empty" \/ OpenOn(thr[t].file)
    PROVE  WholeInv'
<1>0. IInv /\ bg' = bg /\ \A u \in Thread : NoNewWriter(u)
  <2>1. HandlerStep(t)
    BY Zenon DEF HandlerStep
  <2> QED
    BY <2>1, HandlerWriters DEF CInv
<1>h. Holds(t, "truncate")
  BY Zenon DEF Truncate
<1>1. PICK o \in live : o = thr[t].file /\ o \in Obj /\ file[o] \in FileRec /\ InUse(o)
  BY <1>0, <1>h, Holding, HeldInUse
<1>2. /\ thr[t].name = file[o].name /\ thr[t].name \in Name /\ thr[t].op = "truncate" /\ thr[t].pc # "pwrite"
  BY <1>0, <1>1, <1>h, Holding DEF Holds
<1>3. PICK n \in Name : n = thr[t].name
  BY <1>2
<1>4. PICK f \in FileRec : /\ f = Discard(file[o]) /\ f.name = n /\ f.compressor = file[o].compressor
                           /\ f.size = file[o].size
  BY <1>1, <1>2, <1>3, SmallSizes
<1>5. PICK r \in TruncateFirst(o, f, s) :
         /\ desc' = Reopened(o, r.fd)
         /\ \/ /\ ~r.ok \/ r.i = Null
               /\ file' = [file EXCEPT ![o] = r.f]
               /\ disk' = [disk EXCEPT ![n] = r.i]
            \/ /\ r.ok /\ r.i # Null
               /\ file' = [file EXCEPT ![o] = [r.f EXCEPT !.size = s]]
               /\ \E i \in Truncated(r.i, s) : disk' = [disk EXCEPT ![n] = i]
  BY <1>1, <1>3, <1>4, Zenon DEF Truncate
<1>6. OpenOn(o) => HeaderKnown(o) /\ KnownLength(file[o], disk[n])
  BY <1>0, <1>1, <1>2, <1>3, ConstantsAssumption DEF OpenOn, HeadersKnown, WholeInv, SizesKnown, IInv, TypeOK
<1>7. GoodImage(disk[n]) /\ (disk[n] # Null => disk[n] \in Image)
  BY <1>0 DEF WholeInv, IInv, TypeOK
<1>8. /\ r.f \in FileRec /\ r.f.name = n /\ r.fd \in {"same", "ok", "stale", "closed"}
      /\ r.i # Null => r.i \in Image
      /\ GoodImage(r.i) /\ (~r.ok \/ r.i = Null => LengthFits(r.f, r.i))
      /\ r.ok /\ r.i # Null /\ r.i.packed => s = "empty"
  <2>1. CASE r = Outcome(TRUE, f, disk[n], "same") /\ f.compressor = FALSE
    <3>1. r.f = f /\ r.i = disk[n] /\ r.fd = "same" /\ r.ok = TRUE
      BY <2>1 DEF Outcome
    <3>2. OpenOn(o) /\ disk[n] # Null => ~disk[n].packed
      BY <1>2, <1>3, <1>4, <1>6, <2>1 DEF HeaderKnown
    <3>3. ~r.ok \/ r.i = Null => LengthFits(r.f, r.i)
      BY <3>1 DEF LengthFits
    <3> QED
      BY <1>1, <1>4, <1>7, <3>1, <3>2, <3>3
  <2>2. CASE r \in DoDecompress(o, f) /\ f.compressor = TRUE /\ s # "empty"
    <3>0. GoodImage(disk[f.name])
      BY <1>4, <1>7
    <3>1. GoodOutcome(f, r)
      BY <1>0, <2>2, DoDecompressGood
    <3>2. /\ GoodImage(r.i)
          /\ LengthFits(f, disk[f.name]) => LengthFits(r.f, r.i)
      BY <1>0, <2>2, <3>0, DecompressFits
    <3>3. LengthFits(f, disk[f.name])
      BY <1>1, <1>4, <1>6, <2>2 DEF LengthFits, KnownLength
    <3>4. r.ok = TRUE => (r.i # Null => r.i.packed = FALSE)
      BY <1>0, <2>2, DecompressHeader
    <3>5. r.ok => r.ok = TRUE
      <4>1. r.ok = TRUE \/ r.ok = FALSE
        BY <2>2 DEF DoDecompress, Outcome
      <4> QED
        BY <4>1
    <3> QED
      BY <1>4, <3>1, <3>2, <3>3, <3>4, <3>5 DEF GoodOutcome
  <2>3. CASE s = "empty" /\ r = Outcome(TRUE, [(IF DescOf(o) = {} THEN f ELSE DirectClose(f)) EXCEPT !.compressor = FALSE],
                  disk[n], "same")
    <3> DEFINE c == IF DescOf(o) = {} THEN f ELSE DirectClose(f)
               e == [c EXCEPT !.compressor = FALSE]
    <3>1. c \in FileRec /\ c.name = n
      BY <1>4, DirectCloseKeeps
    <3>2. e \in FileRec /\ e.name = n
      <4> HIDE DEF c
      <4> QED
        BY <3>1 DEF FileRec
    <3> HIDE DEF e
    <3>3. r.f = e /\ r.i = disk[n] /\ r.fd = "same" /\ r.ok = TRUE
      BY <2>3 DEF Outcome, e
    <3>4. ~r.ok \/ r.i = Null => LengthFits(r.f, r.i)
      BY <3>3 DEF LengthFits
    <3> QED
      BY <1>7, <2>3, <3>2, <3>3, <3>4
  <2>4. f.compressor \in BOOLEAN
    BY DEF FileRec
  <2>5. \/ ~f.compressor /\ r = Outcome(TRUE, f, disk[n], "same")
        \/ f.compressor /\ s # "empty" /\ r \in DoDecompress(o, f)
        \/ s = "empty" /\ r = Outcome(TRUE, [(IF DescOf(o) = {} THEN f ELSE DirectClose(f)) EXCEPT !.compressor = FALSE],
                  disk[n], "same")
    BY <1>4, Zenon DEF TruncateFirst
  <2> QED
    BY <2>1, <2>2, <2>3, <2>4, <2>5
<1>9. PICK g, j : /\ file' = [file EXCEPT ![o] = g] /\ g.name = n /\ disk' = [disk EXCEPT ![n] = j]
                  /\ LengthFits(g, j) /\ GoodImage(j)
  <2>1. CASE (~r.ok \/ r.i = Null) /\ file' = [file EXCEPT ![o] = r.f] /\ disk' = [disk EXCEPT ![n] = r.i]
    BY <1>8, <2>1
  <2>2. CASE /\ r.ok /\ r.i # Null
             /\ file' = [file EXCEPT ![o] = [r.f EXCEPT !.size = s]]
             /\ \E i \in Truncated(r.i, s) : disk' = [disk EXCEPT ![n] = i]
    <3>1. PICK i \in Truncated(r.i, s) : disk' = [disk EXCEPT ![n] = i]
      BY <2>2
    <3>2. i.data \in Data /\ (s = "empty" => i.packed = FALSE) /\ i.size = s
      <4>1. r.i \in Image /\ s \in SizeClass
        BY <1>8, <2>2, ConstantsAssumption
      <4>2. CASE s = "empty"
        <5>1. PICK c \in Data : i = [r.i EXCEPT !.data = c, !.packed = FALSE, !.size = s]
          BY <3>1, <4>2, Zenon DEF Truncated
        <5> QED
          BY <4>1, <5>1 DEF Image
      <4>3. CASE s # "empty"
        <5>1. ~r.i.packed
          BY <1>8, <2>2, <4>3
        <5>2. PICK c \in Data : i = [r.i EXCEPT !.data = c, !.size = s]
          BY <3>1, <4>3, <5>1, Zenon DEF Truncated
        <5> QED
          BY <4>1, <4>3, <5>2 DEF Image
      <4> QED
        BY <4>2, <4>3
    <3> DEFINE g == [r.f EXCEPT !.size = s]
    <3>3. g.name = n /\ g.size = s
      BY <1>8 DEF FileRec
    <3>4. file' = [file EXCEPT ![o] = g]
      BY <2>2
    <3> HIDE DEF g
    <3>5. LengthFits(g, i) /\ GoodImage(i)
      BY <3>2, <3>3, ConstantsAssumption DEF LengthFits, GoodImage
    <3> QED
      BY <3>1, <3>3, <3>4, <3>5
  <2> QED
    BY <1>5, <2>1, <2>2
<1>10. \A u \in Thread : thr[u].pc = "pwrite" => thr[u].file # o
  BY <1>2, NoOtherWriter
<1>11. \A u \in Thread : thr[u].pc = "pwrite" /\ thr[u].file = o =>
              /\ file[o].dontcompress = TRUE => g.dontcompress = TRUE
              /\ disk[file[o].name] # Null /\ disk[file[o].name].size # "empty" => j # Null /\ j.size # "empty"
  BY <1>10
<1>12. \A d \in Desc : desc'[d].file \in {desc[d].file, Null, o}
  BY <1>0, <1>5, <1>8, ReopenedKeeps
<1>13. InUse(o) \/ (disk[file[o].name] # Null => j.size = disk[file[o].name].size)
  BY <1>1
<1>14. g.name = file[o].name /\ disk' = [disk EXCEPT ![file[o].name] = j]
  BY <1>2, <1>3, <1>9
<1> QED
  BY <1>0, <1>9, <1>11, <1>12, <1>13, <1>14, FitsWhole

(* Calls on an open descriptor.                                             *)
LEMMA OnOpenWhole ==
    ASSUME CInv, HeadersKnown, WholeInv, NEW t \in Thread, NEW d \in Desc, NEW op, Usable(t, d, op)
    PROVE  \E o \in live : /\ o = desc[d].file /\ o \in Obj /\ file[o] \in FileRec /\ InUse(o) /\ HeaderKnown(o)
                           /\ KnownLength(file[o], disk[file[o].name]) /\ GoodImage(disk[file[o].name])
<1>1. PICK o \in live : /\ o = desc[d].file /\ o \in Obj /\ o # Null /\ OpenOn(o) /\ HeaderKnown(o)
                        /\ file[o] \in FileRec /\ thr[t] = Idle
  BY OnOpenFile
<1>2. KnownLength(file[o], disk[file[o].name])
  BY <1>1 DEF WholeInv, SizesKnown
<1>3. file[o].name \in Name
  BY <1>1 DEF FileRec
<1>4. GoodImage(disk[file[o].name])
  BY <1>3 DEF WholeInv
<1>5. InUse(o)
  BY <1>1 DEF InUse
<1> QED
  BY <1>1, <1>2, <1>4, <1>5

LEMMA LaterWriters ==
    ASSUME IInv, NEW t \in Thread, thr' = thr \/ \E d \in Desc : Later(t, d, "readfail", "read")
    PROVE  \A u \in Thread : NoNewWriter(u)
<1>1. CASE thr' = thr
  BY <1>1 DEF NoNewWriter
<1>2. ASSUME NEW d \in Desc, Later(t, d, "readfail", "read") PROVE \A u \in Thread : NoNewWriter(u)
  <2>1. thr'[t].pc = "readfail" /\ \A u \in Thread \ {t} : thr'[u] = thr[u]
    BY <1>2, LaterIs
  <2> QED
    BY <2>1 DEF NoNewWriter
<1> QED
  BY <1>1, <1>2

LEMMA ReadWhole ==
    ASSUME CInv, HeadersKnown, WholeInv, NEW t \in Thread, NEW d \in Desc, Read(t, d)
    PROVE  WholeInv'
<1>0. IInv /\ Usable(t, d, "read") /\ bg' = bg
  BY Zenon DEF CInv, Read
<1>1. PICK o \in live : /\ o = desc[d].file /\ o \in Obj /\ file[o] \in FileRec /\ InUse(o) /\ HeaderKnown(o)
                        /\ KnownLength(file[o], disk[file[o].name]) /\ GoodImage(disk[file[o].name])
  BY <1>0, OnOpenWhole
<1>2. PICK f \in FileRec : f = file[o]
  BY <1>1
<1>3. PICK n \in Name : n = f.name
  BY DEF FileRec
<1>4. PICK r : /\ r = Outcome(FALSE, f, disk[n], "same") \/ (f.compressor = TRUE /\ r \in DoDecompress(o, f))
               /\ disk' = [disk EXCEPT ![n] = r.i]
               /\ desc' = Reopened(o, r.fd)
               /\ \/ r.ok /\ thr' = thr /\ file' = [file EXCEPT ![o] = [r.f EXCEPT !.size = "unknown"]]
                  \/ Later(t, d, "readfail", "read") /\ file' = [file EXCEPT ![o] = r.f]
  <2>1. PICK r \in {x \in {Outcome(FALSE, file[o], disk[file[o].name], "same")} : ReadMayFail(d, file[o])}
                \cup IF file[o].compressor /\ desc[d].fd # "closed" THEN DoDecompress(o, file[o]) ELSE {} :
          /\ disk' = [disk EXCEPT ![file[o].name] = r.i]
          /\ desc' = Reopened(o, r.fd)
          /\ IF r.ok THEN /\ file' = [file EXCEPT ![o] = [r.f EXCEPT !.size = "unknown"]]
                          /\ UNCHANGED thr
                     ELSE /\ file' = [file EXCEPT ![o] = r.f]
                          /\ Later(t, d, "readfail", "read")
    BY <1>1, Zenon DEF Read
  <2>2. r = Outcome(FALSE, f, disk[n], "same") \/ (f.compressor /\ r \in DoDecompress(o, f))
    BY <1>2, <1>3, <2>1, Zenon
  <2>3. f.compressor \in BOOLEAN
    BY DEF FileRec
  <2> QED
    BY <1>2, <1>3, <2>1, <2>2, <2>3, Zenon
<1>5. \A u \in Thread : NoNewWriter(u)
  BY <1>0, <1>4, LaterWriters
<1>6. CASE r = Outcome(FALSE, f, disk[n], "same")
  <2>1. r.f = f /\ r.i = disk[n] /\ r.fd = "same" /\ r.ok = FALSE
    BY <1>6 DEF Outcome
  <2>2. file' = [file EXCEPT ![o] = f] /\ desc' = Reopened(o, "same") /\ disk' = [disk EXCEPT ![n] = disk[n]]
    BY <1>4, <2>1
  <2>3. disk' = disk
    BY <1>0, <2>2 DEF IInv, TypeOK
  <2>4. \A x \in Desc : desc'[x].file \in {desc[x].file, Null}
    BY <1>0, <2>2, ReopenedKeeps
  <2> QED
    BY <1>0, <1>2, <1>5, <2>2, <2>3, <2>4, SameDiskWhole
<1>7. CASE f.compressor = TRUE /\ r \in DoDecompress(o, f)
  <2>1. GoodOutcome(f, r)
    BY <1>0, <1>7, DoDecompressGood
  <2>2. GoodImage(disk[f.name]) /\ LengthFits(f, disk[f.name])
    BY <1>1, <1>2, <1>7 DEF KnownLength, LengthFits
  <2>3. GoodImage(r.i) /\ LengthFits(r.f, r.i)
    BY <1>0, <1>7, <2>2, DecompressFits
  <2>4. PICK g : file' = [file EXCEPT ![o] = g] /\ g.name = n /\ LengthFits(g, r.i)
    <3> DEFINE g == [r.f EXCEPT !.size = "unknown"]
    <3>1. g.name = n /\ LengthFits(g, r.i) /\ r.f.name = n
      BY <1>3, <2>1 DEF GoodOutcome, FileRec, LengthFits
    <3> HIDE DEF g
    <3> QED
      BY <1>4, <2>3, <3>1 DEF g
  <2>5. PICK j : j = r.i
    OBVIOUS
  <2>6. \A u \in Thread : thr[u].pc = "pwrite" => thr[u].file # o
    BY <1>2, <1>7 DEF HeadersKnown, RawFile
  <2>7. \A u \in Thread : thr[u].pc = "pwrite" /\ thr[u].file = o =>
              /\ file[o].dontcompress = TRUE => g.dontcompress = TRUE
              /\ disk[file[o].name] # Null /\ disk[file[o].name].size # "empty" => j # Null /\ j.size # "empty"
    BY <2>6
  <2>8. \A x \in Desc : desc'[x].file \in {desc[x].file, Null, o}
    BY <1>0, <1>4, <2>1, ReopenedKeeps DEF GoodOutcome
  <2>9. InUse(o) \/ (disk[file[o].name] # Null => j.size = disk[file[o].name].size)
    BY <1>1
  <2>10. g.name = file[o].name /\ disk' = [disk EXCEPT ![file[o].name] = j] /\ LengthFits(g, j) /\ GoodImage(j)
    BY <1>2, <1>3, <1>4, <2>3, <2>4, <2>5
  <2> QED
    BY <1>0, <1>5, <2>4, <2>7, <2>8, <2>9, <2>10, FitsWhole
<1> QED
  BY <1>4, <1>6, <1>7

LEMMA ChosenFacts ==
    ASSUME NEW f \in FileRec, NEW g \in WriteChosen(f)
    PROVE  /\ g \in FileRec /\ g.name = f.name /\ g.size = f.size /\ g.dontcompress = TRUE
           /\ f.dontcompress = TRUE => g.compressor = f.compressor
<1>1. PICK c \in (IF ~f.dontcompress /\ f.size = "empty" /\ f.accesses = 1
                  THEN {f.compressor, f.name \in Compressible} ELSE {f.compressor}) :
         g = [Discard(f) EXCEPT !.dontcompress = TRUE, !.compressor = c]
  BY Zenon DEF WriteChosen
<1>2. Discard(f) \in FileRec /\ Discard(f).name = f.name /\ Discard(f).size = f.size
  BY SmallSizes
<1>3. g.compressor = c /\ g.dontcompress = TRUE /\ g.size = f.size
  BY <1>1, <1>2 DEF FileRec
<1>4. f.dontcompress = TRUE => c = f.compressor
  BY <1>1
<1> QED
  BY <1>3, <1>4, WriteChosenKeeps

(* A step of a write on the file of entry o.                                *)
LEMMA WriteWhole ==
    ASSUME CInv, HeadersKnown, WholeInv, NEW t \in Thread, NEW d \in Desc, Usable(t, d, "write"),
           NEW o \in live, o = desc[d].file, NEW g, file' = [file EXCEPT ![o] = g], g.name = file[o].name,
           NEW j, disk' = [disk EXCEPT ![file[o].name] = j],
           \A x \in Desc : desc'[x].file = desc[x].file, bg' = bg,
           KnownLength(g, j), GoodImage(j),
           \/ thr' = thr
           \/ Later(t, d, "pwrite", "write") /\ LastingLength(g, j)
    PROVE  WholeInv'
<1>0. IInv
  BY DEF CInv
<1>1. \A u \in Thread : thr[u].pc = "pwrite" => thr[u].file # o
  BY NoWriterBeside
<1>2. \A u \in Thread : thr'[u].pc = "pwrite" =>
              \/ thr[u].pc = "pwrite" /\ thr'[u].file = thr[u].file /\ (thr[u].file = o => LastingLength(g, j))
              \/ thr'[u].file = o /\ LastingLength(g, j)
  <2>1. CASE thr' = thr
    BY <1>1, <2>1
  <2>2. CASE Later(t, d, "pwrite", "write") /\ LastingLength(g, j)
    <3>1. thr'[t].file = o /\ \A u \in Thread \ {t} : thr'[u] = thr[u]
      BY <1>0, <2>2, LaterIs
    <3> QED
      BY <1>1, <2>2, <3>1
  <2> QED
    BY <2>1, <2>2
<1>3. InUse(o)
  BY DEF InUse
<1>4. InUse(o) \/ (disk[file[o].name] # Null => j.size = disk[file[o].name].size)
  BY <1>3
<1>5. \A x \in Desc : \/ desc'[x].file \in {desc[x].file, Null}
                      \/ desc'[x].file = o /\ KnownLength(g, j)
  OBVIOUS
<1> QED
  BY <1>2, <1>4, <1>5, EntryWhole

LEMMA WriteRawWhole ==
    ASSUME CInv, HeadersKnown, WholeInv, NEW t \in Thread, NEW d \in Desc, WriteRaw(t, d)
    PROVE  WholeInv'
<1>0. IInv /\ Usable(t, d, "write") /\ bg' = bg /\ disk' = disk /\ desc' = desc /\ Later(t, d, "pwrite", "write")
  BY Zenon DEF CInv, WriteRaw
<1>1. PICK o \in live : /\ o = desc[d].file /\ o \in Obj /\ file[o] \in FileRec /\ InUse(o) /\ HeaderKnown(o)
                        /\ KnownLength(file[o], disk[file[o].name]) /\ GoodImage(disk[file[o].name])
  BY <1>0, OnOpenWhole
<1>2. PICK h \in FileRec : h = file[o]
  BY <1>1
<1>3. PICK g \in WriteChosen(h) : ~g.compressor /\ file' = [file EXCEPT ![o] = g]
  BY <1>1, <1>2, Zenon DEF WriteRaw
<1>4. g.name = file[o].name /\ g.compressor = FALSE /\ g.dontcompress = TRUE
  BY <1>2, <1>3, ChosenFacts DEF FileRec
<1>5. PICK j : j = disk[file[o].name]
  OBVIOUS
<1>6. disk' = [disk EXCEPT ![file[o].name] = j]
  BY <1>0, <1>5, FileStays
<1>7. KnownLength(g, j) /\ LastingLength(g, j) /\ GoodImage(j)
  BY <1>1, <1>4, <1>5 DEF KnownLength, LastingLength
<1>8. \A x \in Desc : desc'[x].file = desc[x].file
  BY <1>0
<1> QED
  BY <1>0, <1>1, <1>3, <1>4, <1>6, <1>7, <1>8, WriteWhole

LEMMA WriteFallbackWhole ==
    ASSUME CInv, HeadersKnown, WholeInv, NEW t \in Thread, NEW d \in Desc, WriteFallback(t, d)
    PROVE  WholeInv'
<1>0. IInv /\ Usable(t, d, "write") /\ bg' = bg
  BY Zenon DEF CInv, WriteFallback
<1>1. PICK o \in live : /\ o = desc[d].file /\ o \in Obj /\ file[o] \in FileRec /\ InUse(o) /\ HeaderKnown(o)
                        /\ KnownLength(file[o], disk[file[o].name]) /\ GoodImage(disk[file[o].name])
  BY <1>0, OnOpenWhole
<1>2. PICK h \in FileRec : h = file[o]
  BY <1>1
<1>3. PICK f \in WriteChosen(h) : f.compressor /\
         \E r \in IF desc[d].fd = "closed" THEN {Outcome(FALSE, f, disk[f.name], "same")} ELSE DoDecompress(o, f) :
                /\ disk' = [disk EXCEPT ![f.name] = r.i]
                /\ desc' = Reopened(o, r.fd)
                /\ file' = [file EXCEPT ![o] = [r.f EXCEPT !.size = "unknown"]]
                /\ IF r.ok THEN Later(t, d, "pwrite", "write") ELSE UNCHANGED thr
  BY <1>1, <1>2, Zenon DEF WriteFallback
<1>4. f \in FileRec /\ f.name = h.name /\ f.dontcompress = TRUE
  BY ChosenFacts
<1>5. PICK n \in Name : n = f.name
  BY <1>4 DEF FileRec
<1>6. PICK r : /\ r = Outcome(FALSE, f, disk[n], "same") \/ r \in DoDecompress(o, f)
               /\ disk' = [disk EXCEPT ![n] = r.i]
               /\ desc' = Reopened(o, r.fd)
               /\ file' = [file EXCEPT ![o] = [r.f EXCEPT !.size = "unknown"]]
               /\ thr' = thr \/ (r.ok = TRUE /\ Later(t, d, "pwrite", "write"))
  <2>1. PICK r \in IF desc[d].fd = "closed" THEN {Outcome(FALSE, f, disk[f.name], "same")} ELSE DoDecompress(o, f) :
                /\ disk' = [disk EXCEPT ![f.name] = r.i]
                /\ desc' = Reopened(o, r.fd)
                /\ file' = [file EXCEPT ![o] = [r.f EXCEPT !.size = "unknown"]]
                /\ IF r.ok THEN Later(t, d, "pwrite", "write") ELSE UNCHANGED thr
    BY <1>3
  <2>2. r = Outcome(FALSE, f, disk[n], "same") \/ r \in DoDecompress(o, f)
    BY <1>5, <2>1, Zenon
  <2>3. r.ok \in BOOLEAN
    <3>1. CASE r = Outcome(FALSE, f, disk[n], "same")
      BY <3>1 DEF Outcome
    <3>2. CASE r \in DoDecompress(o, f)
      <4>1. r.ok = TRUE \/ r.ok = FALSE
        BY <3>2 DEF DoDecompress, Outcome
      <4> QED
        BY <4>1
    <3> QED
      BY <2>2, <3>1, <3>2
  <2> QED
    BY <1>5, <2>1, <2>2, <2>3, Zenon
<1>7. /\ r.f \in FileRec /\ r.f.name = n /\ r.fd \in {"same", "ok", "stale", "closed"}
      /\ GoodImage(r.i)
      /\ r.ok = TRUE => r.f.dontcompress = TRUE \/ (r.i # Null /\ r.i.size # "empty")
  <2>0. GoodImage(disk[f.name])
    BY <1>1, <1>2, <1>4
  <2>1. CASE r = Outcome(FALSE, f, disk[n], "same")
    <3>1. r.f = f /\ r.i = disk[n] /\ r.fd = "same" /\ r.ok = FALSE
      BY <2>1 DEF Outcome
    <3> QED
      BY <1>4, <1>5, <2>0, <3>1
  <2>2. CASE r \in DoDecompress(o, f)
    <3>1. GoodOutcome(f, r)
      BY <1>0, <1>4, <2>2, DoDecompressGood
    <3>2. /\ GoodImage(r.i)
          /\ r.ok = TRUE /\ f.dontcompress = TRUE => r.f.dontcompress = TRUE \/ (r.i # Null /\ r.i.size # "empty")
      BY <1>0, <1>4, <2>0, <2>2, DecompressFits
    <3> QED
      BY <1>4, <1>5, <3>1, <3>2 DEF GoodOutcome
  <2> QED
    BY <1>6, <2>1, <2>2
<1>8. PICK g : /\ file' = [file EXCEPT ![o] = g] /\ g.name = n /\ g.size = "unknown"
               /\ g.dontcompress = r.f.dontcompress
  <2> DEFINE g == [r.f EXCEPT !.size = "unknown"]
  <2>1. g.name = n /\ g.size = "unknown" /\ g.dontcompress = r.f.dontcompress
    BY <1>7 DEF FileRec
  <2> HIDE DEF g
  <2> QED
    BY <1>6, <2>1 DEF g
<1>9. PICK j : j = r.i
  OBVIOUS
<1>10. KnownLength(g, j) /\ GoodImage(j) /\ (r.ok = TRUE => LastingLength(g, j))
  BY <1>7, <1>8, <1>9 DEF KnownLength, LastingLength
<1>11. \A x \in Desc : desc'[x].file = desc[x].file
  BY <1>0, <1>6, <1>7, ReopenedKeeps
<1>12. disk' = [disk EXCEPT ![file[o].name] = j]
  BY <1>2, <1>4, <1>5, <1>6, <1>9
<1>13. g.name = file[o].name /\ (thr' = thr \/ (Later(t, d, "pwrite", "write") /\ LastingLength(g, j)))
  BY <1>2, <1>4, <1>5, <1>6, <1>8, <1>10
<1> QED
  BY <1>0, <1>1, <1>8, <1>10, <1>11, <1>12, <1>13, WriteWhole

LEMMA WriteAppendWhole ==
    ASSUME CInv, HeadersKnown, WholeInv, "write" \notin Failures, NEW t \in Thread, NEW d \in Desc, WriteAppend(t, d)
    PROVE  WholeInv'
<1>0. IInv /\ Usable(t, d, "write") /\ bg' = bg /\ desc' = desc /\ thr' = thr
  BY Zenon DEF CInv, WriteAppend
<1>1. PICK o \in live : /\ o = desc[d].file /\ o \in Obj /\ file[o] \in FileRec /\ InUse(o) /\ HeaderKnown(o)
                        /\ KnownLength(file[o], disk[file[o].name]) /\ GoodImage(disk[file[o].name])
  BY <1>0, OnOpenWhole
<1>2. PICK h \in FileRec : h = file[o]
  BY <1>1
<1>3. PICK n \in Name : n = h.name
  BY DEF FileRec
<1>4. PICK f \in WriteChosen(h), s \in Sizes \ {"empty"} :
          /\ f.compressor
          /\ file' = [file EXCEPT ![o] = [f EXCEPT !.size = s]]
          /\ \/ /\ disk[n] # Null
                /\ f.size = "empty" \/ disk[n].packed
                /\ \E i \in Appended(disk[n], s) : disk' = [disk EXCEPT ![n] = i]
             \/ disk' = disk
  BY <1>1, <1>2, <1>3, Zenon DEF WriteAppend
<1>5. f \in FileRec /\ f.name = n /\ f.size = h.size /\ (h.dontcompress = TRUE => f.compressor = h.compressor)
  BY <1>3, ChosenFacts
<1>6. PICK g : file' = [file EXCEPT ![o] = g] /\ g.name = n /\ g.size = s
  <2> DEFINE g == [f EXCEPT !.size = s]
  <2>1. g.name = n /\ g.size = s
    BY <1>5 DEF FileRec
  <2> HIDE DEF g
  <2> QED
    BY <1>4, <2>1 DEF g
<1>7. \E j : disk' = [disk EXCEPT ![n] = j] /\ GoodImage(j)
  <2>1. CASE disk' = disk
    <3>1. disk' = [disk EXCEPT ![n] = disk[n]]
      BY <1>0, <1>1, <1>2, <1>3, <2>1, FileStays
    <3> QED
      BY <1>1, <1>2, <1>3, <3>1
  <2>2. ASSUME disk[n] # Null, f.size = "empty" \/ disk[n].packed,
               NEW i \in Appended(disk[n], s), disk' = [disk EXCEPT ![n] = i]
        PROVE  \E j : disk' = [disk EXCEPT ![n] = j] /\ GoodImage(j)
    <3>1. disk[n].packed \/ disk[n].size = "empty"
      <4> SUFFICES ASSUME f.size = "empty", disk[n].size # "empty" PROVE FALSE
        BY <2>2
      <4>1. h.compressor = FALSE /\ h.dontcompress = TRUE
        BY <1>1, <1>2, <1>3, <1>5, <2>2 DEF KnownLength
      <4> QED
        BY <1>4, <1>5, <4>1
    <3>2. PICK c \in Data, m \in Time : i = [data |-> c, packed |-> TRUE, size |-> s, mtime |-> m]
      <4>1. (IF disk[n].packed \/ disk[n].size = "empty" THEN Data ELSE {Garbage}) = Data
        BY <3>1
      <4>2. i \in {[data |-> c, packed |-> TRUE, size |-> s, mtime |-> m] : c \in Data, m \in Time}
        BY <2>2, <4>1 DEF Appended
      <4> QED
        BY <4>2
    <3>3. GoodImage(i)
      BY <3>2, ConstantsAssumption DEF GoodImage
    <3> QED
      BY <2>2, <3>3
  <2> QED
    BY <1>4, <2>1, <2>2
<1>8. PICK j : disk' = [disk EXCEPT ![n] = j] /\ GoodImage(j)
  BY <1>7
<1>9. KnownLength(g, j)
  BY <1>4, <1>6 DEF KnownLength
<1>10. g.name = file[o].name /\ disk' = [disk EXCEPT ![file[o].name] = j]
  BY <1>2, <1>3, <1>6, <1>8
<1>11. \A x \in Desc : desc'[x].file = desc[x].file
  BY <1>0
<1>12. thr' = thr \/ (Later(t, d, "pwrite", "write") /\ LastingLength(g, j))
  BY <1>0
<1>13. Usable(t, d, "write") /\ o = desc[d].file /\ file' = [file EXCEPT ![o] = g] /\ bg' = bg /\ GoodImage(j)
  BY <1>0, <1>1, <1>6, <1>8
<1> QED
  BY <1>9, <1>10, <1>11, <1>12, <1>13, WriteWhole

LEMMA ReleaseWhole ==
    ASSUME CInv, HeadersKnown, WholeInv, NEW t \in Thread, NEW d \in Desc, Release(t, d)
    PROVE  WholeInv'
<1>0. IInv /\ Usable(t, d, "release") /\ bg' = bg /\ disk' = disk /\ thr' = thr
  BY Zenon DEF CInv, Release
<1>1. PICK o \in live : /\ o = desc[d].file /\ o \in Obj /\ file[o] \in FileRec /\ InUse(o) /\ HeaderKnown(o)
                        /\ KnownLength(file[o], disk[file[o].name]) /\ GoodImage(disk[file[o].name])
  BY <1>0, OnOpenWhole
<1> DEFINE f == IF file[o].compressor THEN DirectClose(file[o]) ELSE file[o]
           g == [f EXCEPT !.accesses = @ - 1]
<1>2. /\ f \in FileRec /\ f.name = file[o].name /\ f.size = file[o].size /\ f.compressor = file[o].compressor
      /\ file[o].compressor = FALSE => f.dontcompress = file[o].dontcompress
  BY <1>1, SmallSizes
<1>3. file' = [file EXCEPT ![o] = g] /\ desc' = [desc EXCEPT ![d] = Closed]
  BY <1>1 DEF Release
<1>4. g.name = file[o].name /\ g.size = file[o].size /\ g.compressor = file[o].compressor
      /\ (file[o].compressor = FALSE => g.dontcompress = file[o].dontcompress)
  <2> HIDE DEF f
  <2> QED
    BY <1>2 DEF FileRec
<1> HIDE DEF g
<1>5. PICK j : j = disk[file[o].name]
  OBVIOUS
<1>6. disk' = [disk EXCEPT ![file[o].name] = j] /\ GoodImage(j)
  BY <1>0, <1>1, <1>5, FileStays
<1>7. KnownLength(g, j)
  BY <1>1, <1>4, <1>5 DEF KnownLength
<1>8. \A u \in Thread : thr[u].pc = "pwrite" /\ thr[u].file = o => LastingLength(g, j)
  <2>1. \A u \in Thread : thr[u].pc = "pwrite" /\ thr[u].file = o =>
           file[o].compressor = FALSE /\ LastingLength(file[o], j)
    BY <1>5 DEF HeadersKnown, RawFile, WholeInv, SizesKnown
  <2> QED
    BY <1>4, <2>1 DEF LastingLength
<1>9. \A u \in Thread : thr'[u].pc = "pwrite" =>
              \/ thr[u].pc = "pwrite" /\ thr'[u].file = thr[u].file /\ (thr[u].file = o => LastingLength(g, j))
              \/ thr'[u].file = o /\ LastingLength(g, j)
  BY <1>0, <1>8
<1>10. \A x \in Desc : \/ desc'[x].file \in {desc[x].file, Null}
                       \/ desc'[x].file = o /\ KnownLength(g, j)
  BY <1>0, <1>3 DEF Closed, IInv, TypeOK
<1>11. disk[file[o].name] # Null => j.size = disk[file[o].name].size
  BY <1>5
<1>12. g.name = file[o].name
  BY <1>4
<1> QED
  BY <1>0, <1>3, <1>6, <1>7, <1>9, <1>10, <1>11, <1>12, EntryWhole

(* A call begins.                                                           *)
LEMMA BeginWhole ==
    ASSUME CInv, WholeInv, NEW t \in Thread, NEW r, thr' = [thr EXCEPT ![t] = r], r.pc # "pwrite",
           file' = file, desc' = desc, disk' = disk, bg' = bg
    PROVE  WholeInv'
<1>1. \A u \in Thread : NoNewWriter(u)
  BY DEF CInv, IInv, TypeOK, NoNewWriter
<1>2. \A d \in Desc : desc'[d].file \in {desc[d].file, Null}
  OBVIOUS
<1>3. \A p \in live : OpenOn(p) \/ p = bg.file => SameLength(p)
  BY DEF SameLength
<1> QED
  BY <1>1, <1>2, <1>3, QuietWhole

LEMMA CallWhole ==
    ASSUME CInv, WholeInv, NEW t \in Thread, NEW n, NEW m, NEW op, Call(t, op, n, m)
    PROVE  WholeInv'
<1> DEFINE r == [Idle EXCEPT !.pc = "scan", !.op = op, !.name = n, !.other = m]
<1>1. thr' = [thr EXCEPT ![t] = r] /\ file' = file /\ desc' = desc /\ disk' = disk /\ bg' = bg
  BY DEF Call
<1>2. r.pc # "pwrite"
  BY DEF Idle
<1> HIDE DEF r
<1> QED
  BY <1>1, <1>2, BeginWhole

LEMMA LstatWhole ==
    ASSUME CInv, WholeInv, NEW t \in Thread, NEW n, Lstat(t, n)
    PROVE  WholeInv'
<1> DEFINE r == [Idle EXCEPT !.pc = "stat", !.op = "getattr", !.name = n, !.stat = OnDiskSize(n)]
<1>1. thr' = [thr EXCEPT ![t] = r] /\ file' = file /\ desc' = desc /\ disk' = disk /\ bg' = bg
  BY DEF Lstat
<1>2. r.pc # "pwrite"
  BY DEF Idle
<1> HIDE DEF r
<1> QED
  BY <1>1, <1>2, BeginWhole

(* rename(): the descriptors of the old name come with what the entry says, *)
(* and neither file is being written to or compressed.                      *)
LEMMA RenameWhole ==
    ASSUME CInv, HeadersKnown, WholeInv, NEW t \in Thread, RenameCommit(t)
    PROVE  WholeInv'
<1>0. IInv
  BY DEF CInv
<1>1. thr[t] \in ThreadRec /\ thr[t].pc = "relock2" /\ thr[t].op = "rename2" /\ ControlOf(t)
  BY <1>0 DEF IInv, TypeOK, RenameCommit, Control, ControlOf
<1>2a. PICK a \in live : a = thr[t].from
  BY <1>1 DEF ControlOf
<1>2b. PICK b \in live : b = thr[t].file
  BY <1>1 DEF ControlOf
<1>2c. PICK n \in Name : n = thr[t].other /\ n = file[a].name
  BY <1>1, <1>2a DEF ControlOf
<1>2d. PICK m \in Name : m = thr[t].name /\ m = file[b].name /\ m # n
  BY <1>1, <1>2b, <1>2c DEF ControlOf
<1>3. /\ a # b /\ a \in Obj /\ b \in Obj /\ a # Null /\ b # Null
      /\ file[a] \in FileRec /\ file[b] \in FileRec
  BY <1>0, <1>2c, <1>2d, ConstantsAssumption DEF IInv, TableLive, TypeOK
<1>4. bg' = bg /\ \A u \in Thread : NoNewWriter(u)
  <2>1. HandlerStep(t)
    BY Zenon DEF HandlerStep
  <2> QED
    BY <1>0, <2>1, HandlerWriters
<1>5. ~OpenOn(b)
  <2>1. RenameTarget(t) = m /\ m # Null
    BY <1>1, <1>2d, ConstantsAssumption DEF RenameTarget
  <2> QED
    BY <1>2d, <1>3, <2>1 DEF HeadersKnown, OpenOn
<1>6. \A p \in live : p # a /\ p # b => file[p].name # n /\ file[p].name # m /\ file[p].name \in Name
  <2>1. \A p \in live : p \in database
    BY DEF CInv, TableWhole
  <2> QED
    BY <1>0, <1>2c, <1>2d, <2>1 DEF CInv, OneEntryPerName, IInv, TableLive, FileRec
<1>7. CASE /\ file' = [file EXCEPT ![a].accesses = @ - 1, ![b].accesses = @ - 1]
           /\ disk' = disk /\ desc' = desc
  <2>1. \A p \in live : SameLength(p)
    BY <1>0, <1>3, <1>7 DEF SameLength, IInv, TypeOK, FileRec
  <2>2. \A d \in Desc : desc'[d].file \in {desc[d].file, Null}
    BY <1>7
  <2> QED
    BY <1>4, <1>7, <2>1, <2>2, QuietWhole
<1>8. CASE disk' = [disk EXCEPT ![n] = Null, ![m] = disk[n]] /\ DirectRename(a, b)
  <2> DEFINE moved == Cardinality(DescOf(a)) + Cardinality(QueuedOf(a))
             ga == Delete([file[a] EXCEPT !.accesses = @ - 1 - moved])
             gb == [file[b] EXCEPT !.accesses = @ - 1 + moved, !.size = file[a].size,
                         !.compressor = file[a].compressor,
                         !.dontcompress = file[a].dontcompress,
                         !.status = file[a].status,
                         !.deduped = IF DedupEnabled THEN file[a].deduped ELSE @]
  <2>1. file' = [file EXCEPT ![a] = ga, ![b] = gb]
    BY <1>8 DEF DirectRename
  <2>2. /\ gb.compressor = file[a].compressor /\ gb.name = m /\ gb.size = file[a].size
        /\ gb.dontcompress = file[a].dontcompress
    <3> HIDE DEF moved
    <3> QED
      BY <1>2d, <1>3 DEF FileRec
  <2>3. file'[b] = gb /\ \A p \in live : p # a /\ p # b => file'[p] = file[p]
    <3> HIDE DEF ga, gb
    <3> QED
      BY <1>0, <1>3, <2>1 DEF IInv, TypeOK
  <2> HIDE DEF ga, gb
  <2>4. disk'[m] = disk[n] /\ disk'[n] = Null /\ \A k \in Name : k # n /\ k # m => disk'[k] = disk[k]
    BY <1>0, <1>2d, <1>8 DEF IInv, TypeOK
  <2>5. \A d \in Desc : IF desc[d].file = a THEN desc'[d].file = b ELSE desc'[d].file = desc[d].file
    BY <1>0, <1>8 DEF DirectRename, MovedDesc, IInv, TypeOK, DescRec
  <2>6. OpenOn(a) => KnownLength(file[a], disk[n])
    BY <1>2c, <1>3 DEF OpenOn, WholeInv, SizesKnown
  <2>7. OpenOn(a) => KnownLength(file'[b], disk'[file'[b].name])
    BY <2>2, <2>3, <2>4, <2>6 DEF KnownLength
  <2>8. ASSUME NEW d \in Desc, desc'[d].file # Null
        PROVE  KnownLength(file[desc[d].file], disk[file[desc[d].file].name])'
    <3>1. CASE desc[d].file = a
      <4>1. desc'[d].file = b
        BY <2>5, <3>1
      <4> QED
        BY <2>7, <3>1, <4>1 DEF OpenOn
    <3>2. CASE desc[d].file # a
      <4>1. desc'[d].file = desc[d].file
        BY <2>5, <3>2
      <4>2. PICK p \in live : p = desc[d].file /\ p # a /\ p # b
        BY <1>0, <1>5, <2>8, <3>2, <4>1, OpenFacts DEF OpenOn
      <4>3. KnownLength(file[p], disk[file[p].name])
        BY <2>8, <4>1, <4>2 DEF WholeInv, SizesKnown
      <4>4. file'[p] = file[p] /\ disk'[file[p].name] = disk[file[p].name]
        BY <1>6, <2>3, <2>4, <4>2
      <4> QED
        BY <4>1, <4>2, <4>3, <4>4
    <3> QED
      BY <3>1, <3>2
  <2>9. ASSUME NEW u \in Thread, thr'[u].pc = "pwrite"
        PROVE  LastingLength(file[thr[u].file], disk[file[thr[u].file].name])'
    <3>1. thr[u].pc = "pwrite" /\ thr'[u].file = thr[u].file /\ thr[u].op = "write"
      BY <1>4, <2>9 DEF NoNewWriter, HeadersKnown
    <3>2. PICK p \in live : p = thr[u].file /\ OpenOn(p)
      BY <1>0, <3>1, Unlocked DEF OpenOn
    <3>3. p # a
      <4>1. thr[u].name = file[p].name
        BY <1>0, <3>1, <3>2 DEF IInv, Control, ControlOf
      <4>2. ~Compatible(thr[t].op, thr[u].op) /\ u # t
        BY <1>1, <3>1 DEF Compatible, Exclusive
      <4> QED
        BY <1>0, <1>2c, <4>1, <4>2 DEF IInv, PathsExclusive
    <3>4. p # b
      BY <1>5, <3>2
    <3>5. LastingLength(file[p], disk[file[p].name])
      BY <3>1, <3>2 DEF WholeInv, SizesKnown
    <3>6. file'[p] = file[p] /\ disk'[file[p].name] = disk[file[p].name]
      BY <1>6, <2>3, <2>4, <3>2, <3>3, <3>4
    <3> QED
      BY <3>1, <3>2, <3>5, <3>6
  <2>10. \A k \in Name : GoodImage(disk'[k])
    <3>1. GoodImage(Null)
      BY DEF GoodImage
    <3> QED
      BY <2>4, <3>1 DEF WholeInv
  <2>11. ASSUME bg.pc = "compressing" PROVE disk'[file'[bg.file].name].size # "empty"
    <3>1. InUse(a) /\ InUse(b)
      BY <1>0, <1>1, <1>2a, <1>2b, <1>3, KeptInUse
    <3>2. PICK p \in live : p = bg.file /\ p # a /\ p # b
      BY <2>11, <3>1, MarkedFacts, NotWorkedOn
    <3>3. disk[file[p].name].size # "empty"
      BY <2>11, <3>2 DEF WholeInv
    <3>4. file'[p] = file[p] /\ disk'[file[p].name] = disk[file[p].name]
      BY <1>6, <2>3, <2>4, <3>2
    <3> QED
      BY <3>2, <3>3, <3>4
  <2>12. SizesKnown'
    BY <2>8, <2>9 DEF SizesKnown
  <2> QED
    BY <1>4, <2>10, <2>11, <2>12 DEF WholeInv
<1> QED
  BY <1>2a, <1>2b, <1>2c, <1>2d, <1>7, <1>8, Zenon DEF RenameCommit

(* A step of the background thread leaves every write where it is.          *)
LEMMA BgWriters ==
    ASSUME IInv, NEW o, thr' = thr \/ Broadcast(o)
    PROVE  \A u \in Thread : NoNewWriter(u)
<1>1. \A u \in Thread : thr'[u] = thr[u] \/ (thr[u].pc = "wait" /\ thr'[u] = [thr[u] EXCEPT !.pc = "woken"])
  BY WokenOnly
<1>2. \A u \in Thread : thr[u] \in ThreadRec
  BY DEF IInv, TypeOK
<1> QED
  BY <1>1, <1>2 DEF NoNewWriter, ThreadRec

(* It works on a file that is not open, and leaves its image whole.         *)
LEMMA BgWorkWhole ==
    ASSUME CInv, WholeInv, NEW o, o = bg.file, bg.pc # "idle", ~OpenOn(o),
           NEW g, file' = [file EXCEPT ![o] = g], g.name = file[o].name,
           NEW j, disk' = [disk EXCEPT ![file[o].name] = j], GoodImage(j),
           \A d \in Desc : desc'[d].file = desc[d].file,
           thr' = thr \/ Broadcast(o),
           bg'.data # Garbage, bg'.pc = "compressing" => bg'.file = o /\ j.size # "empty"
    PROVE  WholeInv'
<1>0. IInv /\ o \in live
  BY MarkedFacts DEF CInv
<1>1. \A u \in Thread : NoNewWriter(u)
  BY <1>0, BgWriters
<1>2. \A u \in Thread : thr[u].pc = "pwrite" => thr[u].file # o
  BY <1>0, Unlocked DEF OpenOn
<1>3. \A u \in Thread : thr'[u].pc = "pwrite" =>
              \/ thr[u].pc = "pwrite" /\ thr'[u].file = thr[u].file /\ (thr[u].file = o => LastingLength(g, j))
              \/ thr'[u].file = o /\ LastingLength(g, j)
  BY <1>1, <1>2 DEF NoNewWriter
<1>4. \A d \in Desc : \/ desc'[d].file \in {desc[d].file, Null}
                      \/ desc'[d].file = o /\ KnownLength(g, j)
  OBVIOUS
<1>5. OpenOn(o) => KnownLength(g, j)
  OBVIOUS
<1>6. SizesKnown'
  BY <1>0, <1>3, <1>4, <1>5, SizesEntry DEF WholeInv
<1>7. OnlyChanges(o, g, j)
  BY <1>0, OthersSame
<1>8. \A n \in Name : GoodImage(disk'[n])
  BY <1>7 DEF OnlyChanges, WholeInv
<1>9. bg'.pc = "compressing" => disk'[file'[bg'.file].name].size # "empty"
  BY <1>7 DEF OnlyChanges
<1> QED
  BY <1>6, <1>8, <1>9 DEF WholeInv, GoodImage

(* The same when it leaves the disk alone.                                  *)
LEMMA BgEntryWhole ==
    ASSUME CInv, WholeInv, NEW o, o = bg.file, bg.pc # "idle", ~OpenOn(o),
           NEW g, file' = [file EXCEPT ![o] = g], g.name = file[o].name,
           disk' = disk, desc' = desc, thr' = thr \/ Broadcast(o),
           bg'.data # Garbage, bg'.pc = "compressing" => bg'.file = o /\ disk[file[o].name].size # "empty"
    PROVE  WholeInv'
<1>0. IInv /\ o \in live /\ file[o].name \in Name
  BY MarkedFacts DEF CInv
<1>1. PICK j : j = disk[file[o].name]
  OBVIOUS
<1>2. disk' = [disk EXCEPT ![file[o].name] = j]
  BY <1>0, <1>1, FileStays
<1>3. GoodImage(j)
  BY <1>0, <1>1 DEF WholeInv
<1>4. bg'.pc = "compressing" => bg'.file = o /\ j.size # "empty"
  BY <1>1
<1>5. \A d \in Desc : desc'[d].file = desc[d].file
  OBVIOUS
<1> QED
  BY <1>2, <1>3, <1>4, <1>5, BgWorkWhole

LEMMA IdleWhole == BgIdle.data # Garbage /\ BgIdle.pc # "compressing"
BY ConstantsAssumption DEF BgIdle

(* Taking a file off the queue, and leaving it at that.                     *)
LEMMA BgPopWhole ==
    ASSUME CInv, WholeInv, BgPop
    PROVE  WholeInv'
<1>1. file' = file /\ desc' = desc /\ disk' = disk /\ thr' = thr
  BY DEF BgPop
<1>2. bg'.data # Garbage /\ bg'.pc # "compressing"
  BY ConstantsAssumption DEF BgPop, BgIdle
<1> QED
  BY <1>1, <1>2 DEF WholeInv, SizesKnown

LEMMA BgSkipWhole ==
    ASSUME CInv, WholeInv, BgSkip
    PROVE  WholeInv'
<1>0. IInv
  BY DEF CInv
<1>1. PICK o \in live : o = bg.file /\ o \in Obj /\ file[o] \in FileRec
  BY MarkedFacts DEF BgSkip
<1>2. PICK f \in FileRec : f = file[o]
  BY <1>1
<1>3. /\ file' = [file EXCEPT ![o] = Done(f)] \/ file' = [file EXCEPT ![o] = DoneCompress(f)]
      /\ disk' = disk /\ desc' = desc /\ thr' = thr /\ bg' = BgIdle
  BY <1>1, <1>2 DEF BgSkip
<1> DEFINE Like(g) == /\ g.name = f.name /\ g.size = f.size /\ g.compressor = f.compressor
                      /\ g.dontcompress = f.dontcompress
<1>4. Like(Done(f)) /\ Like(DoneCompress(f))
  <2>1. \A h \in FileRec : /\ Done(h).name = h.name /\ Done(h).size = h.size
                           /\ Done(h).compressor = h.compressor /\ Done(h).dontcompress = h.dontcompress
    BY DEF Done, FileRec
  <2>2. /\ Discard(f) \in FileRec /\ Discard(f).name = f.name /\ Discard(f).size = f.size
        /\ Discard(f).compressor = f.compressor /\ Discard(f).dontcompress = f.dontcompress
    BY DEF Discard, FileRec
  <2> QED
    BY <2>1, <2>2 DEF DoneCompress
<1>5. PICK g : Like(g) /\ file' = [file EXCEPT ![o] = g]
  BY <1>3, <1>4
<1>6. file'[o] = g /\ \A p \in live : p # o => file'[p] = file[p]
  BY <1>0, <1>1, <1>5 DEF IInv, TypeOK
<1>7. \A p \in live : SameLength(p)
  BY <1>2, <1>5, <1>6 DEF SameLength
<1>8. \A u \in Thread : NoNewWriter(u)
  BY <1>3 DEF NoNewWriter
<1>9. \A d \in Desc : desc'[d].file \in {desc[d].file, Null}
  BY <1>3
<1>10. SizesKnown'
  BY <1>3, <1>7, <1>8, <1>9, SizesStay DEF WholeInv
<1> QED
  BY <1>3, <1>10, IdleWhole DEF WholeInv

(* What the background thread finds when it goes on with its file.          *)
LEMMA BgFacts ==
    ASSUME CInv, WholeInv, bg.pc # "idle", owner[bg.file] = Null,
           bg.pc = "popped" => BgWanted(file[bg.file])
    PROVE  /\ file[bg.file] \in FileRec /\ file[bg.file].name \in Name /\ ~OpenOn(bg.file)
           /\ GoodImage(disk[file[bg.file].name])
           /\ bg.pc \in {"popped", "compressing", "hashing"}
<1>1. bg.pc \in {"popped", "compressing", "hashing"}
  BY DEF CInv, IInv, TypeOK, BgRec
<1>2. ~OpenOn(bg.file)
  BY <1>1, WorkedOnIsClosed
<1> QED
  BY <1>1, <1>2, MarkedFacts DEF WholeInv

LEMMA DoneNames ==
    ASSUME NEW f \in FileRec
    PROVE  Done(f).name = f.name /\ DoneCompress(f).name = f.name
BY DoneKeeps

LEMMA BgCompressNotWhole ==
    ASSUME CInv, WholeInv, BgCompressNot
    PROVE  WholeInv'
<1>1. /\ bg.pc = "popped" /\ bg' = BgIdle /\ owner[bg.file] = Null /\ BgWanted(file[bg.file])
      /\ desc' = desc /\ disk' = disk /\ thr' = thr
  BY Zenon DEF BgCompressNot
<1> DEFINE f == file[bg.file]
           i == disk[f.name]
<1>2. f \in FileRec /\ f.name \in Name /\ ~OpenOn(bg.file)
  BY <1>1, BgFacts
<1>3. DoneCompress(f).name = f.name /\ DoneCompress(Delete(f)).name = f.name
  BY <1>2, DoneKeeps, DeleteKeeps, SmallKeeps
<1>4. i # Null => DoneCompress([f EXCEPT !.compressor = TRUE, !.size = i.size]).name = f.name
  <2> HAVE i # Null
  <2>1. i.size \in CachedSize
    BY <1>2 DEF CInv, IInv, TypeOK, Image, CachedSize
  <2> DEFINE h == [f EXCEPT !.compressor = TRUE, !.size = i.size]
  <2>2. h \in FileRec /\ h.name = f.name
    BY <1>2, <2>1 DEF FileRec
  <2>3. DoneCompress(h).name = f.name
    <3> HIDE DEF h
    <3> QED
      BY <2>2, DoneKeeps
  <2> QED
    BY <2>3
<1>5. PICK g : g.name = f.name /\ file' = [file EXCEPT ![bg.file] = g]
  BY <1>3, <1>4 DEF BgCompressNot
<1>6. bg'.data # Garbage /\ bg'.pc # "compressing"
  BY <1>1, IdleWhole
<1> QED
  BY <1>1, <1>2, <1>5, <1>6, BgEntryWhole

(* A file is marked: compressing begins with one that is not empty.         *)
LEMMA BgMarkWhole ==
    ASSUME CInv, WholeInv, BgCompress \/ BgDedup
    PROVE  WholeInv'
<1>1. /\ bg.pc = "popped" /\ owner[bg.file] = Null /\ BgWanted(file[bg.file])
      /\ desc' = desc /\ disk' = disk /\ thr' = thr
  BY Zenon DEF BgCompress, BgDedup
<1>2. /\ file[bg.file] \in FileRec /\ file[bg.file].name \in Name /\ ~OpenOn(bg.file)
      /\ GoodImage(disk[file[bg.file].name])
  BY <1>1, BgFacts
<1>3. PICK g : g.name = file[bg.file].name /\ file' = [file EXCEPT ![bg.file] = g]
  <2>1. PICK flag : file' = [file EXCEPT ![bg.file].status = @ \cup {flag}]
    BY Zenon DEF BgCompress, BgDedup
  <2> DEFINE g == [file[bg.file] EXCEPT !.status = @ \cup {flag}]
  <2>2. file' = [file EXCEPT ![bg.file] = g] /\ g.name = file[bg.file].name
    BY <1>2, <2>1 DEF FileRec
  <2> QED
    BY <2>2
<1>4. bg \in BgRec
  BY DEF CInv, IInv, TypeOK
<1>5. bg'.data # Garbage
  <2>1. CASE BgCompress
    BY <1>2, <1>4, <2>1 DEF BgCompress, BgRec, GoodImage
  <2>2. CASE BgDedup
    BY <1>2, <1>4, <2>2, ConstantsAssumption DEF BgDedup, BgRec, GoodImage
  <2> QED
    BY <2>1, <2>2
<1>6. bg'.pc = "compressing" => bg'.file = bg.file /\ disk[file[bg.file].name].size # "empty"
  BY <1>4 DEF BgCompress, BgDedup, BgRec
<1> QED
  BY <1>1, <1>2, <1>3, <1>5, <1>6, BgEntryWhole

(* The work is given up.                                                    *)
LEMMA BgGivesUpWhole ==
    ASSUME CInv, WholeInv, BgCompressCancelled \/ BgCompressFails \/ BgDedupFails \/ BgDedupCancelled
    PROVE  WholeInv'
<1>1. /\ bg.pc \in {"compressing", "hashing"} /\ bg' = BgIdle /\ owner[bg.file] = Null
      /\ desc' = desc /\ disk' = disk /\ (thr' = thr \/ Broadcast(bg.file))
  BY Zenon DEF BgCompressCancelled, BgCompressFails, BgDedupFails, BgDedupCancelled
<1>2. file[bg.file] \in FileRec /\ ~OpenOn(bg.file)
  BY <1>1, BgFacts
<1>3. PICK h \in FileRec : /\ h.name = file[bg.file].name
                           /\ \/ file' = [file EXCEPT ![bg.file] = Done(h)]
                              \/ file' = [file EXCEPT ![bg.file] = DoneCompress(h)]
  <2>1. \A s \in SUBSET {"CANCEL", "COMPRESSING", "DEDUPING"} :
           /\ [file[bg.file] EXCEPT !.status = @ \ s] \in FileRec
           /\ [file[bg.file] EXCEPT !.status = @ \ s].name = file[bg.file].name
    BY <1>2 DEF FileRec
  <2>2. /\ [file[bg.file] EXCEPT !.deduped = TRUE] \in FileRec
        /\ [file[bg.file] EXCEPT !.deduped = TRUE].name = file[bg.file].name
    BY <1>2 DEF FileRec
  <2>3. CASE BgCompressCancelled
    BY <2>1, <2>3 DEF BgCompressCancelled
  <2>4. CASE BgCompressFails
    BY <2>1, <2>4 DEF BgCompressFails
  <2>5. CASE BgDedupFails
    BY <2>2, <2>5 DEF BgDedupFails
  <2>6. CASE BgDedupCancelled
    BY <2>1, <2>6 DEF BgDedupCancelled
  <2> QED
    BY <2>3, <2>4, <2>5, <2>6
<1>4. PICK g : g.name = file[bg.file].name /\ file' = [file EXCEPT ![bg.file] = g]
  BY <1>3, DoneNames
<1>5. bg'.data # Garbage /\ bg'.pc # "compressing"
  BY <1>1, IdleWhole
<1>6. bg.pc # "idle" /\ bg'.pc # "compressing"
  BY <1>1, <1>5
<1> QED
  BY <1>1, <1>2, <1>4, <1>5, <1>6, BgEntryWhole

(* A compressed image is of the file the work began with; ...               *)
LEMMA BgCompressCommitWhole ==
    ASSUME CInv, WholeInv, BgCompressCommit
    PROVE  WholeInv'
<1>0. IInv
  BY DEF CInv
<1> DEFINE n == file[bg.file].name
           size == IF disk[n] = Null THEN "big" ELSE disk[n].size
           j == [data |-> bg.data, packed |-> TRUE, mtime |-> bg.mtime, size |-> size]
           h == [file[bg.file] EXCEPT !.status = @ \ {"COMPRESSING"}, !.compressor = TRUE, !.size = size]
           g == DoneCompress(h)
<1>1. /\ bg.pc = "compressing" /\ bg' = BgIdle /\ owner[bg.file] = Null
      /\ thr' = thr /\ desc' = Replaced(n, Null)
      /\ disk' = [disk EXCEPT ![n] = j]
  BY DEF BgCompressCommit
<1>2. file[bg.file] \in FileRec /\ n \in Name /\ ~OpenOn(bg.file)
  BY <1>1, BgFacts
<1>3. disk[n] # Null /\ disk[n] \in Image
  BY <1>0, <1>1, <1>2 DEF CInv, WorkFaithful, IInv, BgControl, TypeOK
<1>4. size = disk[n].size /\ size \in CachedSize /\ size # "empty"
  BY <1>1, <1>3 DEF Image, CachedSize, WholeInv
<1>5. GoodImage(j)
  <2> HIDE DEF size
  <2> QED
    BY <1>4 DEF GoodImage, WholeInv
<1>6. disk'[n].size = size
  BY <1>0, <1>1, <1>2 DEF IInv, TypeOK
<1>7. file' = [file EXCEPT ![bg.file] = g]
  BY <1>6, Zenon DEF BgCompressCommit
<1>8. h \in FileRec /\ h.name = n
  <2> HIDE DEF size
  <2> QED
    BY <1>2, <1>4 DEF FileRec
<1>9. g.name = n
  <2> HIDE DEF h
  <2> QED
    BY <1>8, DoneNames
<1>10. \A d \in Desc : desc'[d].file = desc[d].file
  BY <1>0, <1>1, ReplacedKeeps
<1>11. bg'.data # Garbage /\ bg'.pc # "compressing"
  BY <1>1, IdleWhole
<1> HIDE DEF g, h, j, size
<1> QED
  BY <1>1, <1>2, <1>5, <1>7, <1>9, <1>10, <1>11, BgWorkWhole

(* ... and a link is to an image of the same bytes and length.              *)
LEMMA BgDedupCommitWhole ==
    ASSUME CInv, WholeInv, BgDedupCommit
    PROVE  WholeInv'
<1>0. IInv
  BY DEF CInv
<1> DEFINE n == file[bg.file].name
<1>1. bg.pc = "hashing" /\ bg' = BgIdle /\ owner[bg.file] = Null /\ thr' = thr
  BY Zenon DEF BgDedupCommit
<1>2. file[bg.file] \in FileRec /\ n \in Name /\ ~OpenOn(bg.file)
  BY <1>1, BgFacts
<1>3. bg'.data # Garbage /\ bg'.pc # "compressing"
  BY <1>1, IdleWhole
<1>4. CASE /\ file' = [file EXCEPT ![bg.file] = Done([file[bg.file] EXCEPT !.deduped = TRUE,
                                                        !.status = @ \ {"DEDUPING"}])]
           /\ UNCHANGED <<disk, desc>>
  <2> DEFINE h == [file[bg.file] EXCEPT !.deduped = TRUE, !.status = @ \ {"DEDUPING"}]
             g == Done(h)
  <2>1. h \in FileRec /\ h.name = n
    BY <1>2 DEF FileRec
  <2>2. file' = [file EXCEPT ![bg.file] = g] /\ disk' = disk /\ desc' = desc
    BY <1>4
  <2>3. g.name = n
    <3> HIDE DEF h
    <3> QED
      BY <2>1, DoneNames
  <2> HIDE DEF g, h
  <2> QED
    BY <1>1, <1>2, <1>3, <2>2, <2>3, BgEntryWhole
<1>5. ASSUME NEW m \in Name, disk[n] # Null, disk[m] # Null, disk[m].size = disk[n].size,
             disk' = [disk EXCEPT ![n].packed = disk[m].packed, ![n].data = bg.data],
             file' = [file EXCEPT ![bg.file] =
                        Done([file[bg.file] EXCEPT !.deduped = TRUE, !.compressor = disk[m].packed,
                                                   !.status = @ \ {"DEDUPING"}])],
             desc' = Replaced(n, Null)
      PROVE  WholeInv'
  <2> DEFINE h == [file[bg.file] EXCEPT !.deduped = TRUE, !.compressor = disk[m].packed,
                                        !.status = @ \ {"DEDUPING"}]
             g == Done(h)
             j == [[disk[n] EXCEPT !.packed = disk[m].packed] EXCEPT !.data = bg.data]
  <2>1. disk[n] \in Image /\ disk[m] \in Image /\ disk[m].packed \in BOOLEAN
    BY <1>0, <1>2, <1>5 DEF IInv, TypeOK, Image
  <2>2. h \in FileRec /\ h.name = n
    BY <1>2, <2>1 DEF FileRec
  <2>3. j.data = bg.data /\ j.size = disk[m].size /\ j.packed = disk[m].packed
    BY <1>5, <2>1 DEF Image
  <2>4. disk' = [disk EXCEPT ![n] = j]
    BY <1>0, <1>2, <1>5 DEF IInv, TypeOK
  <2>5. file' = [file EXCEPT ![bg.file] = g]
    BY <1>5
  <2>6. g.name = n
    <3> HIDE DEF h
    <3> QED
      BY <2>2, DoneNames
  <2>7. GoodImage(disk[m]) /\ bg.data # Garbage
    BY DEF WholeInv
  <2>8. GoodImage(j)
    <3> HIDE DEF j
    <3> QED
      BY <1>5, <2>3, <2>7 DEF GoodImage
  <2>9. \A d \in Desc : desc'[d].file = desc[d].file
    BY <1>0, <1>5, ReplacedKeeps
  <2> HIDE DEF g, h, j
  <2>10. PICK e : e = g
    OBVIOUS
  <2> QED
    BY <1>1, <1>2, <1>3, <2>4, <2>5, <2>6, <2>8, <2>9, <2>10, BgWorkWhole
<1> QED
  BY <1>4, <1>5, Zenon DEF BgDedupCommit

LEMMA BgStepWhole ==
    ASSUME CInv, WholeInv, BgStep
    PROVE  WholeInv'
BY BgPopWhole, BgSkipWhole, BgCompressNotWhole, BgMarkWhole, BgGivesUpWhole, BgCompressCommitWhole,
   BgDedupCommitWhole, Zenon DEF BgStep

LEMMA CallStepWhole ==
    ASSUME CInv, HeadersKnown, WholeInv, "write" \notin Failures, NEW t \in Thread, CallStep(t)
    PROVE  WholeInv'
<1>1. ASSUME NEW n \in Name, NEW op \in {"utime", "mknod", "unlink", "truncate", "open"}, Call(t, op, n, Null)
      PROVE  WholeInv'
  BY <1>1, CallWhole
<1>2. ASSUME NEW n \in Name, NEW m \in Name, n # m, Call(t, "rename1", n, m) PROVE WholeInv'
  BY <1>2, CallWhole
<1>3. ASSUME NEW n \in Name, Lstat(t, n) PROVE WholeInv'
  BY <1>3, LstatWhole
<1>4. ASSUME NEW d \in Desc, Read(t, d) PROVE WholeInv'
  BY <1>4, ReadWhole
<1>5. ASSUME NEW d \in Desc, WriteAppend(t, d) PROVE WholeInv'
  BY <1>5, WriteAppendWhole
<1>6. ASSUME NEW d \in Desc, WriteFallback(t, d) PROVE WholeInv'
  BY <1>6, WriteFallbackWhole
<1>7. ASSUME NEW d \in Desc, WriteRaw(t, d) PROVE WholeInv'
  BY <1>7, WriteRawWhole
<1>8. ASSUME NEW d \in Desc, Release(t, d) PROVE WholeInv'
  BY <1>8, ReleaseWhole
<1> QED
  BY <1>1, <1>2, <1>3, <1>4, <1>5, <1>6, <1>7, <1>8, Zenon DEF CallStep

(* What keeps an entry from believing a file empty that is not: truncate()  *)
(* by name cuts a file to another length only while it is open, and the     *)
(* lstat() of a getattr() is not out of date where it found an empty file.  *)
Careful ==
    \A t \in Thread :
       /\ \A s \in Sizes \ {"empty"} : Truncate(t, s) => OpenOn(thr[t].file)
       /\ Getattr(t) => FreshStat(t)

LEMMA HandlerStepWhole ==
    ASSUME CInv, HeadersKnown, WholeInv, "write" \notin Failures, Careful, NEW t \in Thread, HandlerStep(t)
    PROVE  WholeInv'
<1>1. CASE LockDatabase(t) \/ DirectOpenPurge(t) \/ RenameLockFrom(t) \/ RenameKeepFrom(t) \/ RenameKeepTo(t)
  BY <1>1, WalkWhole
<1>2. CASE Rewake(t)
  BY <1>2, LookUpWhole
<1>3. ASSUME NEW o \in Obj, DirectOpenHit(t, o) PROVE WholeInv'
  BY <1>3, LookUpWhole
<1>4. ASSUME NEW o \in Obj, DirectNewFile(t, o) \/ PurgeEntry(t, o) PROVE WholeInv'
  BY <1>4, WalkWhole
<1>5. CASE Utime(t)
  BY <1>5, UtimeWhole
<1>6. CASE Mknod(t)
  BY <1>6, MknodWhole
<1>7. CASE Getattr(t)
  <2>1. FreshStat(t)
    BY <1>7, Zenon DEF Careful
  <2> QED
    BY <1>7, <2>1, GetattrWhole
<1>8. CASE Unlink(t)
  BY <1>8, UnlinkWhole
<1>9. CASE OpenFails(t) \/ OpenLeaksLock(t) \/ ReadFail(t)
  BY <1>9, OpenFailsWhole
<1>10. ASSUME NEW s \in Sizes, Truncate(t, s) PROVE WholeInv'
  <2>1. s # "empty" => s \in Sizes \ {"empty"}
    OBVIOUS
  <2>2. s = "empty" \/ OpenOn(thr[t].file)
    BY <1>10, <2>1, Zenon DEF Careful
  <2> QED
    BY <1>10, <2>2, TruncateWhole
<1>11. ASSUME NEW d \in Desc, Open(t, d) PROVE WholeInv'
  BY <1>11, OpenWhole
<1>12. CASE RenameCommit(t)
  BY <1>12, RenameWhole
<1>13. CASE Pwrite(t)
  BY <1>13, PwriteWhole
<1> QED
  BY <1>1, <1>2, <1>3, <1>4, <1>5, <1>6, <1>7, <1>8, <1>9, <1>10, <1>11, <1>12, <1>13, Zenon DEF HandlerStep

(* A compressed file is not empty, and the entry of one that is open knows  *)
(* that or chooses no compressor any more.                                  *)
LEMMA WholeIsUnpacked ==
    ASSUME CInv, HeadersKnown, WholeInv, NEW t \in Thread, NEW d \in Desc, WriteRaw(t, d)
    PROVE  RawUnpacked(d)
<1>0. IInv /\ Usable(t, d, "write")
  BY Zenon DEF CInv, WriteRaw
<1>1. PICK o \in live : /\ o = desc[d].file /\ file[o] \in FileRec /\ HeaderKnown(o)
                        /\ KnownLength(file[o], disk[file[o].name]) /\ GoodImage(disk[file[o].name])
  BY <1>0, OnOpenWhole
<1>2. PICK f \in FileRec : f = file[o]
  BY <1>1
<1>3. \A g \in WriteChosen(f) :
         g.compressor = f.compressor \/ (f.dontcompress = FALSE /\ f.size = "empty")
  <2> TAKE g \in WriteChosen(f)
  <2>1. PICK c \in (IF ~f.dontcompress /\ f.size = "empty" /\ f.accesses = 1
                    THEN {f.compressor, f.name \in Compressible} ELSE {f.compressor}) :
           g = [Discard(f) EXCEPT !.dontcompress = TRUE, !.compressor = c]
    BY Zenon DEF WriteChosen
  <2>2. Discard(f) \in FileRec
    BY SmallSizes
  <2>3. g.compressor = c
    BY <2>1, <2>2 DEF FileRec
  <2> QED
    BY <2>1, <2>3 DEF FileRec
<1>4. disk[f.name] # Null => disk[f.name].packed \in BOOLEAN
  BY <1>0 DEF IInv, TypeOK, FileRec, Image
<1>5. f.compressor \in BOOLEAN
  BY DEF FileRec
<1> QED
  BY <1>1, <1>2, <1>3, <1>4, <1>5 DEF RawUnpacked, HeaderKnown, KnownLength, GoodImage

(* No handler leaves a file behind that is neither what was written nor a   *)
(* compressed image of it, and no raw write lands in a compressed file, as  *)
(* long as no write() or ftruncate() fails and no entry comes to believe    *)
(* that a file is empty which is not: truncate() by name, which cuts a      *)
(* compressed file nobody has open as it is, and a getattr() that writes    *)
(* down the length its lstat() found before another handler's write, are    *)
(* the only steps that do it.                                               *)
THEOREM ImagesStayWhole ==
    ASSUME "write" \notin Failures
    PROVE  Spec /\ [][Careful]_vars => [](NoTornImage /\ PwriteIsRaw)
<1>1. Init => HeadersKnown /\ WholeInv
  <2>1. Idle.pc = "idle" /\ Closed.file = Null /\ BgIdle.pc = "idle" /\ BgIdle.data # Garbage
    BY ConstantsAssumption DEF Idle, Closed, BgIdle
  <2>2. Init => /\ \A t \in Thread : thr[t] = Idle
                /\ \A d \in Desc : desc[d] = Closed
                /\ bg = BgIdle
                /\ \A n \in Name : GoodImage(disk[n])
    BY ConstantsAssumption DEF Init, GoodImage
  <2> QED
    BY <2>1, <2>2, InitHeaders DEF WholeInv, SizesKnown
<1>2. CInv /\ HeadersKnown /\ WholeInv /\ [Next]_vars /\ [Careful]_vars => HeadersKnown' /\ WholeInv'
  <2> SUFFICES ASSUME CInv, HeadersKnown, WholeInv, [Next]_vars, [Careful]_vars
               PROVE  HeadersKnown' /\ WholeInv'
    OBVIOUS
  <2>1. CASE UNCHANGED vars
    <3>1. WholeInv'
      BY <2>1, Zenon DEF vars, WholeInv, SizesKnown
    <3> QED
      BY <2>1, <3>1, StutterHeaders
  <2>2. CASE BgStep
    BY <2>2, BgStepHeaders, BgStepWhole
  <2>3. ASSUME NEW t \in Thread, CallStep(t), Careful PROVE HeadersKnown' /\ WholeInv'
    <3>1. \A d \in Desc : WriteRaw(t, d) => RawUnpacked(d)
      BY WholeIsUnpacked
    <3>2. HeadersKnown'
      BY <2>3, <3>1, CallStepHeaders
    <3>3. WholeInv'
      BY <2>3, CallStepWhole
    <3> QED
      BY <3>2, <3>3
  <2>4. ASSUME NEW t \in Thread, HandlerStep(t), Careful PROVE HeadersKnown' /\ WholeInv'
    BY <2>4, HandlerStepHeaders, HandlerStepWhole
  <2> QED
    BY <2>1, <2>2, <2>3, <2>4, Zenon DEF Next
<1>3. CInv /\ HeadersKnown /\ WholeInv => NoTornImage /\ PwriteIsRaw
  BY HeadersRaw DEF WholeInv, GoodImage, NoTornImage
<1> QED
  BY <1>1, <1>2, <1>3, ContentInvariance, PTL DEF Spec

(* The calls of the users, and what follows a read, a write and a rename.   *)
OpsCalled == \A t \in Thread : thr[t].op \in Calls \cup {"none", "read", "write", "rename2"}

LEMMA OpsUpdate ==
    ASSUME OpsCalled, IInv, NEW t \in Thread, NEW r, thr' = [thr EXCEPT ![t] = r],
           r.op \in Calls \cup {"none", "read", "write", "rename2", thr[t].op}
    PROVE  OpsCalled'
BY DEF OpsCalled, IInv, TypeOK

LEMMA CallStepOps ==
    ASSUME OpsCalled, IInv, NEW t \in Thread, CallStep(t)
    PROVE  OpsCalled'
<1>0. \A op : Idle.op = "none" /\ [Idle EXCEPT !.op = op].op = op
  BY DEF Idle
<1>1. ASSUME NEW op, NEW n, NEW m, Call(t, op, n, m) PROVE OpsCalled'
  <2> DEFINE r == [Idle EXCEPT !.pc = "scan", !.op = op, !.name = n, !.other = m]
  <2>1. thr' = [thr EXCEPT ![t] = r] /\ op \in Calls
    BY <1>1 DEF Call
  <2>2. r.op = op
    BY DEF Idle
  <2> HIDE DEF r
  <2> QED
    BY <2>1, <2>2, OpsUpdate
<1>2. ASSUME NEW n, Lstat(t, n) PROVE OpsCalled'
  <2> DEFINE r == [Idle EXCEPT !.pc = "stat", !.op = "getattr", !.name = n, !.stat = OnDiskSize(n)]
  <2>1. thr' = [thr EXCEPT ![t] = r] /\ "getattr" \in Calls
    BY <1>2 DEF Lstat
  <2>2. r.op = "getattr"
    BY DEF Idle
  <2> HIDE DEF r
  <2> QED
    BY <2>1, <2>2, OpsUpdate
<1>3. ASSUME thr' = thr PROVE OpsCalled'
  BY <1>3 DEF OpsCalled
<1>4. ASSUME NEW d \in Desc, NEW pc, NEW op \in {"read", "write"}, Later(t, d, pc, op) PROVE OpsCalled'
  BY <1>4, LaterIs DEF OpsCalled
<1>5. ASSUME NEW d \in Desc,
             Read(t, d) \/ WriteAppend(t, d) \/ WriteFallback(t, d) \/ WriteRaw(t, d) \/ Release(t, d)
      PROVE  OpsCalled'
  <2>1. thr' = thr \/ Later(t, d, "readfail", "read") \/ Later(t, d, "pwrite", "write")
    BY <1>5, Zenon DEF Read, WriteAppend, WriteFallback, WriteRaw, Release
  <2> QED
    BY <1>3, <1>4, <2>1
<1> QED
  BY <1>1, <1>2, <1>5, Zenon DEF CallStep

LEMMA HandlerStepOps ==
    ASSUME OpsCalled, IInv, NEW t \in Thread, HandlerStep(t)
    PROVE  OpsCalled'
<1>1. thr[t] \in ThreadRec /\ Idle.op = "none"
  BY DEF IInv, TypeOK, Idle
<1>2. ASSUME (\A u \in Thread \ {t} : thr'[u] = thr[u]) /\ thr'[t].op \in {thr[t].op, "none"}
      PROVE  OpsCalled'
  BY <1>2 DEF OpsCalled
<1>3. CASE thr' = [thr EXCEPT ![t] = Idle]
  BY <1>1, <1>3, OpsUpdate
<1>4. CASE LockDatabase(t) \/ DirectOpenPurge(t) \/ RenameKeepTo(t) \/ RenameLockFrom(t)
           \/ \E o \in Obj : PurgeEntry(t, o) \/ DirectNewFile(t, o)
  <2>0. thr \in [Thread -> ThreadRec]
    BY DEF IInv, TypeOK
  <2>1. (\A u \in Thread \ {t} : thr'[u] = thr[u]) /\ thr'[t].op \in {thr[t].op, "none"}
    <3>1. CASE LockDatabase(t) \/ DirectOpenPurge(t) \/ RenameKeepTo(t) \/ RenameLockFrom(t)
      BY <2>0, <3>1 DEF LockDatabase, DirectOpenPurge, RenameKeepTo, RenameLockFrom, ThreadRec
    <3>2. ASSUME NEW o \in Obj, PurgeEntry(t, o)
          PROVE  (\A u \in Thread \ {t} : thr'[u] = thr[u]) /\ thr'[t].op \in {thr[t].op, "none"}
      BY <2>0, <3>2 DEF PurgeEntry, ThreadRec
    <3>3. ASSUME NEW o \in Obj, DirectNewFile(t, o)
          PROVE  (\A u \in Thread \ {t} : thr'[u] = thr[u]) /\ thr'[t].op \in {thr[t].op, "none"}
      BY <2>0, <3>3 DEF DirectNewFile, ThreadRec
    <3> QED
      BY <1>4, <3>1, <3>2, <3>3
  <2> QED
    BY <1>2, <2>1
<1>5. CASE Rewake(t) \/ \E o \in Obj : DirectOpenHit(t, o)
  <2>1. \E o, f : LockOrWait(t, o, f)
    BY <1>5, Zenon DEF Rewake, DirectOpenHit
  <2>2. \E o : \/ thr' = [thr EXCEPT ![t].pc = "wait", ![t].file = o]
               \/ thr' = [thr EXCEPT ![t].pc = "locked", ![t].file = o]
    BY <2>1, Zenon DEF LockOrWait
  <2>3. (\A u \in Thread \ {t} : thr'[u] = thr[u]) /\ thr'[t].op = thr[t].op
    BY <1>1, <2>2 DEF IInv, TypeOK, ThreadRec
  <2> QED
    BY <1>2, <2>3
<1>6. CASE RenameKeepFrom(t)
  <2> DEFINE r == [Idle EXCEPT !.pc = "stat", !.op = "rename2", !.from = thr[t].file,
                               !.name = thr[t].other, !.other = thr[t].name]
  <2>1. thr' = [thr EXCEPT ![t] = r]
    BY <1>6 DEF RenameKeepFrom
  <2>2. r.op = "rename2"
    BY DEF Idle
  <2> HIDE DEF r
  <2> QED
    BY <2>1, <2>2, OpsUpdate
<1>7. CASE \/ Getattr(t) \/ Utime(t) \/ Mknod(t) \/ Unlink(t) \/ (\E s \in Sizes : Truncate(t, s))
           \/ (\E d \in Desc : Open(t, d)) \/ OpenFails(t) \/ OpenLeaksLock(t) \/ RenameCommit(t)
           \/ ReadFail(t) \/ Pwrite(t)
  BY <1>3, <1>7, Zenon DEF Getattr, Utime, Mknod, Unlink, Truncate, Open, OpenFails, OpenLeaksLock,
                           RenameCommit, ReadFail, Pwrite, Return
<1> QED
  BY <1>4, <1>5, <1>6, <1>7, Zenon DEF HandlerStep

LEMMA BgStepOps ==
    ASSUME OpsCalled, IInv, BgStep
    PROVE  OpsCalled'
<1>1. \E o : thr' = thr \/ Broadcast(o)
  BY Zenon DEF BgStep, BgPop, BgSkip, BgCompressNot, BgCompress, BgCompressCancelled, BgCompressCommit,
     BgCompressFails, BgDedup, BgDedupFails, BgDedupCancelled, BgDedupCommit
<1>2. \A u \in Thread : thr'[u] = thr[u] \/ (thr[u].pc = "wait" /\ thr'[u] = [thr[u] EXCEPT !.pc = "woken"])
  BY <1>1, WokenOnly
<1>3. \A u \in Thread : thr'[u].op = thr[u].op
  BY <1>2 DEF IInv, TypeOK, ThreadRec
<1> QED
  BY <1>3 DEF OpsCalled

(* Users who neither truncate by name nor stat are careful, so that their   *)
(* images stay whole whatever else they do.                                 *)
THEOREM ImagesStayWholeUntruncated ==
    ASSUME "write" \notin Failures, "truncate" \notin Calls, "getattr" \notin Calls
    PROVE  Spec => []NoTornImage
<1>1. Init => OpsCalled
  BY DEF Init, Idle, OpsCalled
<1>2. CInv /\ OpsCalled /\ [Next]_vars => OpsCalled'
  <2> SUFFICES ASSUME CInv, OpsCalled, [Next]_vars PROVE OpsCalled'
    OBVIOUS
  <2>1. CASE UNCHANGED vars
    BY <2>1 DEF vars, OpsCalled
  <2> QED
    BY <2>1, CallStepOps, HandlerStepOps, BgStepOps, Zenon DEF Next, CInv
<1>3. OpsCalled => Careful
  <2> SUFFICES ASSUME OpsCalled, NEW t \in Thread
               PROVE  thr[t].op # "truncate" /\ thr[t].op # "getattr"
    BY Zenon DEF Careful, Truncate, Getattr, Holds
  <2> QED
    BY DEF OpsCalled
<1>4. Spec => []OpsCalled
  BY <1>1, <1>2, ContentInvariance, PTL DEF Spec
<1>5. OpsCalled => [Careful]_vars
  BY <1>3
<1>6. Spec /\ [][Careful]_vars => [](NoTornImage /\ PwriteIsRaw)
  BY ImagesStayWhole
<1> QED
  BY <1>4, <1>5, <1>6, PTL

=============================================================================
