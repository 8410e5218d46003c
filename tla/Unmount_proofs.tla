--------------------------- MODULE Unmount_proofs ---------------------------
(***************************************************************************)
(* Proofs about Unmount: the main thread's forced purges keep what         *)
(* FileTable_proofs shows of the handlers and the background thread, and   *)
(* unmounting leaves nothing in the queue.                                 *)
(***************************************************************************)
EXTENDS Unmount, FileTable_proofs

(* What main adds to the invariant of the table: the SIGTERM handler holds  *)
(* database.lock, fusecompress_destroy() runs after every handler, a purge  *)
(* visits entries of the table, and the loop ends with both lists empty.    *)
Served == main.pc \in {"mounted", "sigterm"}

MainControl ==
    /\ main \in MainRec
    /\ main.pc = "sigterm" <=> dbOwner = Main
    /\ main.pc \in {"sigterm", "purge"} => main.walk \subseteq database
    /\ ~Served => \A t \in Thread : thr[t] = Idle
    /\ main.pc = "join" => queue = <<>> /\ database = {}

MInv == IInv /\ MainControl

-----------------------------------------------------------------------------
(* The threads, seen by main *)

(* A call begins with at most database.lock taken; the table stays.         *)
LEMMA CallTable ==
    ASSUME NEW t \in Thread, CallStep(t)
    PROVE  database' = database /\ (dbOwner' = dbOwner \/ (dbOwner = Null /\ dbOwner' = t))
<1>1. ASSUME NEW d \in Desc,
             Read(t, d) \/ WriteAppend(t, d) \/ WriteFallback(t, d) \/ WriteRaw(t, d) \/ Release(t, d)
      PROVE  database' = database /\ dbOwner' = dbOwner
  BY <1>1, Zenon DEF Read, WriteAppend, WriteFallback, WriteRaw, Release
<1>2. ASSUME NEW n, NEW m, NEW op, Call(t, op, n, m)
      PROVE  database' = database /\ dbOwner = Null /\ dbOwner' = t
  BY <1>2, Zenon DEF Call
<1>3. ASSUME NEW n, Lstat(t, n)
      PROVE  database' = database /\ dbOwner' = dbOwner
  BY <1>3, Zenon DEF Lstat
<1> QED
  BY <1>1, <1>2, <1>3, Zenon DEF CallStep

(* Only the owner of database.lock changes the table, and only it gives the *)
(* lock back.                                                               *)
LEMMA HandlerTable ==
    ASSUME IInv, NEW t \in Thread, HandlerStep(t)
    PROVE  /\ thr[t] # Idle
           /\ dbOwner # t => database' = database /\ (dbOwner' = dbOwner \/ (dbOwner = Null /\ dbOwner' = t))
           /\ dbOwner = t => dbOwner' \in {t, Null}
<1>0. /\ thr[t].pc \in {"scan", "purge"} <=> dbOwner = t
      /\ Idle.pc = "idle"
  BY DEF IInv, Control, ControlOf, Idle
<1>1. CASE LockDatabase(t)
  BY <1>0, <1>1 DEF LockDatabase
<1>2. CASE DirectOpenPurge(t)
  BY <1>0, <1>2 DEF DirectOpenPurge
<1>3. CASE Rewake(t)
  BY <1>0, <1>3 DEF Rewake
<1>4. ASSUME NEW o \in Obj, DirectOpenHit(t, o) \/ DirectNewFile(t, o) \/ PurgeEntry(t, o)
      PROVE  thr[t].pc \in {"scan", "purge"} /\ dbOwner' \in {dbOwner, Null}
  BY <1>4 DEF DirectOpenHit, DirectNewFile, PurgeEntry
<1>5. CASE Getattr(t) \/ Utime(t) \/ Mknod(t) \/ Unlink(t) \/ \E s \in Sizes : Truncate(t, s)
  <2>1. thr[t].pc = "locked" /\ database' = database /\ dbOwner' = dbOwner
    BY <1>5, Zenon DEF Getattr, Utime, Mknod, Unlink, Truncate, Holds
  <2> QED
    BY <1>0, <2>1
<1>6. CASE (\E d \in Desc : Open(t, d)) \/ OpenFails(t) \/ OpenLeaksLock(t)
  <2>1. thr[t].pc = "locked" /\ database' = database /\ dbOwner' = dbOwner
    BY <1>6, Zenon DEF Open, OpenFails, OpenLeaksLock, Holds
  <2> QED
    BY <1>0, <2>1
<1>7. CASE RenameKeepFrom(t) \/ RenameKeepTo(t) \/ RenameLockFrom(t) \/ RenameCommit(t)
  <2>1. thr[t].pc \in {"locked", "relock1", "relock2"} /\ database' = database /\ dbOwner' = dbOwner
    BY <1>7 DEF RenameKeepFrom, RenameKeepTo, RenameLockFrom, RenameCommit, Holds
  <2> QED
    BY <1>0, <2>1
<1>8. CASE ReadFail(t) \/ Pwrite(t)
  <2>1. thr[t].pc \in {"readfail", "pwrite"} /\ database' = database /\ dbOwner' = dbOwner
    BY <1>8, Zenon DEF ReadFail, Pwrite
  <2> QED
    BY <1>0, <2>1
<1>9. CASE \E o \in Obj : DirectOpenHit(t, o) \/ DirectNewFile(t, o) \/ PurgeEntry(t, o)
  BY <1>0, <1>4, <1>9
<1> QED
  BY <1>1, <1>2, <1>3, <1>5, <1>6, <1>7, <1>8, <1>9 DEF HandlerStep

(* The background thread takes from the queue and wakes sleepers; it never  *)
(* touches the table.                                                       *)
LEMMA BgTable ==
    ASSUME BgStep
    PROVE  /\ database' = database /\ dbOwner' = dbOwner
           /\ queue = <<>> => queue' = <<>>
           /\ \A t \in Thread : thr[t] = Idle => thr'[t] = Idle
<1>0. Idle.pc # "wait"
  BY DEF Idle
<1>1. CASE BgPop
  BY <1>1 DEF BgPop
<1>2. CASE BgSkip \/ BgCompressNot \/ BgCompress \/ BgCompressCommit \/ BgCompressFails
           \/ BgDedup \/ BgDedupFails \/ BgDedupCommit
  <2>1. database' = database /\ dbOwner' = dbOwner /\ queue' = queue /\ thr' = thr
    BY <1>2, Zenon DEF BgSkip, BgCompressNot, BgCompress, BgCompressCommit, BgCompressFails,
                BgDedup, BgDedupFails, BgDedupCommit
  <2> QED
    BY <2>1
<1>3. CASE BgCompressCancelled \/ BgDedupCancelled
  <2>1. database' = database /\ dbOwner' = dbOwner /\ queue' = queue /\ Broadcast(bg.file)
    BY <1>3, Zenon DEF BgCompressCancelled, BgDedupCancelled
  <2> QED
    BY <1>0, <2>1 DEF Broadcast
<1> QED
  BY <1>1, <1>2, <1>3 DEF BgStep

-----------------------------------------------------------------------------
(* The forced purge *)

(* An entry leaves the table, freed or not, or goes to the queue, while no  *)
(* thread is searching the table.                                           *)
LEMMA ForcedInv ==
    ASSUME IInv, NEW o \in database, dbOwner \notin Thread,
           PurgeUnused(o) \/ Forced(o),
           UNCHANGED <<owner, dbOwner, desc, disk, thr, bg>>
    PROVE  IInv' /\ database' \in {database, database \ {o}}
<1>1. o \in live /\ o \in Obj /\ file[o] \in FileRec
  BY DEF IInv, TableLive, TypeOK
<1>2. \A u \in Thread : Kept(u)' = Kept(u)
  BY DEF Kept
<1>3. \A p : DescOf(p)' = DescOf(p) /\ BgOf(p)' = BgOf(p) /\ KeepersOf(p)' = KeepersOf(p)
  BY <1>2 DEF DescOf, BgOf, KeepersOf
<1>4. PathsExclusive' /\ BgControl'
  BY DEF IInv, PathsExclusive, BgControl
<1>5. SUFFICES /\ TypeOK' /\ TableLive' /\ ReferencesLive' /\ AccessesExact'
               /\ database' \in {database, database \ {o}} /\ live' \subseteq live
               /\ \A p \in live \cap live' : file'[p].name = file[p].name
  <2>1. \A u \in Thread : ControlOf(u)'
    BY <1>5, OthersStay
  <2> QED
    BY <1>4, <1>5, <2>1 DEF IInv, Control
<1>6. CASE Forced(o)
  <2>1. database' = database \ {o} /\ live' = live /\ file' = file /\ queue' = queue
    BY <1>6 DEF Forced
  <2>2. TypeOK'
    BY <2>1 DEF IInv, TypeOK
  <2>3. TableLive'
    BY <2>1 DEF IInv, TableLive
  <2>4. ReferencesLive'
    BY <1>2, <2>1 DEF IInv, ReferencesLive
  <2>5. AccessesExact'
    BY <1>2, <2>1, CountsKept DEF IInv, TypeOK
  <2> QED
    BY <2>1, <2>2, <2>3, <2>4, <2>5
<1>7. CASE \E dedup \in BOOLEAN : Enqueue(o, dedup)
  <2>1. PICK dedup \in BOOLEAN : Enqueue(o, dedup)
    BY <1>7
  <2> DEFINE e == [file |-> o, dedup |-> dedup]
             g == [file[o] EXCEPT !.accesses = @ + 1]
  <2>2. e \in QueueEntry /\ e.file = o
    BY <1>1 DEF QueueEntry
  <2>3. g \in FileRec /\ g.accesses = file[o].accesses + 1 /\ g.name = file[o].name
    BY <1>1 DEF FileRec
  <2>4. queue' = Append(queue, e) /\ file' = [file EXCEPT ![o] = g] /\ live' = live /\ database' = database
    BY <2>1 DEF Enqueue
  <2> HIDE DEF e, g
  <2>5. queue \in Seq(QueueEntry) /\ queue' \in Seq(QueueEntry)
    BY <2>2, <2>4 DEF IInv, TypeOK, QueueEntry
  <2>6. /\ file' \in [Obj -> FileRec \cup {Null}] /\ file'[o] = g
        /\ \A p \in live \ {o} : file'[p] = file[p]
    BY <1>1, <2>3, <2>4 DEF IInv, TypeOK
  <2>7. TypeOK'
    BY <2>4, <2>5, <2>6 DEF IInv, TypeOK, QueueEntry
  <2>8. TableLive'
    BY <2>3, <2>4, <2>6 DEF IInv, TableLive
  <2>9. ReferencesLive'
    <3>1. \A i \in 1..Len(queue') : queue'[i].file \in live
      BY <1>1, <2>2, <2>4, <2>5 DEF IInv, ReferencesLive
    <3> QED
      BY <1>2, <2>4, <3>1 DEF IInv, ReferencesLive
  <2>10. AccessesExact'
    <3>1. \A p : QueuedOf(p)' = Refs(queue', p) /\ QueuedOf(p) = Refs(queue, p)
      BY DEF QueuedOf, Refs
    <3>2. \A p : Cardinality(QueuedOf(p)') = Cardinality(QueuedOf(p)) + (IF o = p THEN 1 ELSE 0)
      BY <2>2, <2>4, <2>5, <3>1, RefsAppend
    <3>3. \A p : Cardinality(QueuedOf(p)) \in Nat
      BY CountsFinite
    <3>4. \A p \in live \ {o} : Cardinality(QueuedOf(p)') = Cardinality(QueuedOf(p))
      BY <3>2, <3>3
    <3>5. file'[o].accesses = Cardinality(DescOf(o)') + Cardinality(QueuedOf(o)')
                              + BgOf(o)' + Cardinality(KeepersOf(o)')
      <4>1. file[o].accesses = Cardinality(DescOf(o)) + Cardinality(QueuedOf(o))
                               + BgOf(o) + Cardinality(KeepersOf(o))
        BY <1>1 DEF IInv, AccessesExact
      <4> QED
        BY <4>1, <1>3, <2>3, <2>6, <3>2, CountsFinite
    <3>6. AccessesExact /\ live' \subseteq live \cup {o}
      BY <2>4 DEF IInv
    <3> QED
      BY <1>3, <2>6, <3>4, <3>5, <3>6, CountsElsewhere
  <2>11. \A p \in live \cap live' : file'[p].name = file[p].name
    BY <2>3, <2>6
  <2> QED
    BY <2>4, <2>7, <2>8, <2>9, <2>10, <2>11
<1>8. CASE /\ file[o].accesses = 0
           /\ database' = database \ {o} /\ live' = live \ {o}
           /\ file' = [file EXCEPT ![o] = Null] /\ queue' = queue /\ owner[o] = Null
  <2>1. /\ file' \in [Obj -> FileRec \cup {Null}]
        /\ \A p \in live \ {o} : file'[p] = file[p]
    BY <1>8 DEF IInv, TypeOK
  <2>2. TypeOK'
    BY <1>8, <2>1 DEF IInv, TypeOK
  <2>3. TableLive'
    BY <1>8, <2>1 DEF IInv, TableLive
  <2>4. DescOf(o) = {} /\ QueuedOf(o) = {} /\ BgOf(o) = 0 /\ KeepersOf(o) = {}
    BY <1>1, <1>8, Unused
  <2>5. ReferencesLive'
    <3>1. \A d \in Desc : desc[d].file # o
      BY <2>4 DEF DescOf
    <3>2. \A i \in 1..Len(queue) : queue[i].file # o
      BY <2>4 DEF QueuedOf
    <3>3. bg.file # o
      BY <2>4 DEF BgOf
    <3>4. \A u \in Thread : o \notin Kept(u)
      BY <2>4 DEF KeepersOf
    <3> QED
      BY <1>2, <1>8, <3>1, <3>2, <3>3, <3>4 DEF IInv, ReferencesLive
  <2>6. AccessesExact'
    <3>1. \A p : QueuedOf(p)' = QueuedOf(p)
      BY <1>8 DEF QueuedOf
    <3>2. AccessesExact /\ live' \subseteq live \cup {o} /\ o \notin live'
      BY <1>8 DEF IInv
    <3> QED
      BY <1>3, <2>1, <3>1, <3>2, CountsElsewhere
  <2> QED
    BY <1>8, <2>1, <2>2, <2>3, <2>5, <2>6
<1> QED
  BY <1>6, <1>7, <1>8 DEF PurgeUnused

-----------------------------------------------------------------------------
(* The steps *)

LEMMA ForceEntryInv ==
    ASSUME MInv, NEW o \in Obj, ForceEntry(o)
    PROVE  MInv'
<1> DEFINE r == [main EXCEPT !.walk = @ \ {o}]
<1>1. /\ main.pc \in {"sigterm", "purge"} /\ o \in main.walk /\ main \in MainRec
      /\ main' = r /\ (PurgeUnused(o) \/ Forced(o))
      /\ UNCHANGED <<owner, dbOwner, desc, disk, thr, bg>>
  BY DEF ForceEntry, MInv, MainControl
<1>2. r \in MainRec /\ r.pc = main.pc /\ r.walk = main.walk \ {o}
  BY <1>1 DEF MainRec
<1> HIDE DEF r
<1>3. dbOwner \notin Thread /\ o \in database /\ main.walk \subseteq database
  <2>1. CASE main.pc = "sigterm"
    BY <1>1, <2>1, ConstantsAssumption DEF MInv, MainControl
  <2>2. CASE main.pc = "purge"
    <3>1. \A t \in Thread : thr[t] = Idle
      BY <2>2 DEF MInv, MainControl, Served
    <3>2. \A t \in Thread : dbOwner # t
      BY <3>1 DEF MInv, IInv, Control, ControlOf, Idle
    <3> QED
      BY <1>1, <2>2, <3>2 DEF MInv, MainControl
  <2> QED
    BY <1>1, <2>1, <2>2
<1>4. IInv' /\ database' \in {database, database \ {o}}
  BY <1>1, <1>3, ForcedInv DEF MInv
<1> QED
  BY <1>1, <1>2, <1>3, <1>4 DEF MInv, MainControl, Served

LEMMA MainStepInv ==
    ASSUME MInv, SigtermHandler \/ Destroy \/ MainStep
    PROVE  MInv'
<1>1. main \in MainRec /\ IInv
  BY DEF MInv, MainControl
<1>2. \A pc \in {"mounted", "sigterm", "check", "purge", "sleep", "join", "interrupted", "gone"} :
         /\ [main EXCEPT !.pc = pc] \in MainRec
         /\ [main EXCEPT !.pc = pc].pc = pc /\ [main EXCEPT !.pc = pc].walk = main.walk
  BY <1>1 DEF MainRec
<1>3. CASE SigtermHandler
  <2> DEFINE r == [pc |-> "sigterm", walk |-> database, signals |-> main.signals + 1]
  <2>1. r \in MainRec /\ r.pc = "sigterm" /\ r.walk = database
    BY <1>1 DEF IInv, TypeOK, MainRec
  <2>2. /\ main' = r /\ dbOwner = Null /\ dbOwner' = Main
        /\ UNCHANGED <<database, live, file, owner, queue, desc, disk, thr, bg>>
    BY <1>3 DEF SigtermHandler
  <2> HIDE DEF r
  <2>3. IInv'
    <3>1. TypeOK' /\ TableLive' /\ PathsExclusive' /\ BgControl'
      BY <1>1, <2>2 DEF IInv, TypeOK, TableLive, PathsExclusive, BgControl
    <3>2. \A t \in Thread : Kept(t)' = Kept(t)
      BY <2>2 DEF Kept
    <3>3. ReferencesLive' /\ AccessesExact'
      BY <1>1, <2>2, <3>2, CountsKept DEF IInv, TypeOK, ReferencesLive
    <3>4. Control'
      BY <1>1, <2>2, <3>1, <3>3, OthersStay, ConstantsAssumption DEF Control
    <3> QED
      BY <3>1, <3>3, <3>4 DEF IInv
  <2> QED
    BY <2>1, <2>2, <2>3 DEF MInv, MainControl, Served
<1>4. CASE SigtermDone
  <2>1. /\ main.pc = "sigterm" /\ main' = [main EXCEPT !.pc = "mounted"] /\ dbOwner' = Null /\ dbOwner = Main
        /\ UNCHANGED <<database, live, file, owner, queue, desc, disk, thr, bg>>
    BY <1>4 DEF SigtermDone, MInv, MainControl
  <2>3. IInv'
    <3>1. TypeOK' /\ TableLive' /\ PathsExclusive' /\ BgControl'
      BY <1>1, <2>1 DEF IInv, TypeOK, TableLive, PathsExclusive, BgControl
    <3>2. \A t \in Thread : Kept(t)' = Kept(t)
      BY <2>1 DEF Kept
    <3>3. ReferencesLive' /\ AccessesExact'
      BY <1>1, <2>1, <3>2, CountsKept DEF IInv, TypeOK, ReferencesLive
    <3>4. Control'
      BY <1>1, <2>1, <3>1, <3>3, OthersStay, ConstantsAssumption DEF Control
    <3> QED
      BY <3>1, <3>3, <3>4 DEF IInv
  <2> QED
    BY <1>2, <2>1, <2>3, ConstantsAssumption DEF MInv, MainControl, Served
<1>5. CASE Destroy
  <2>1. IInv' /\ UNCHANGED vars
    BY <1>1, <1>5, StutterInv DEF Destroy
  <2>2. main.pc = "mounted" /\ main' = [main EXCEPT !.pc = "check"] /\ \A t \in Thread : thr[t] = Idle
    BY <1>5 DEF Destroy
  <2> QED
    BY <1>2, <2>1, <2>2 DEF MInv, MainControl, Served, vars
<1>6. CASE DestroyCheck
  <2>1. IInv' /\ UNCHANGED vars
    BY <1>1, <1>6, StutterInv DEF DestroyCheck
  <2>2. CASE database # {}
    <3> DEFINE r == [main EXCEPT !.pc = "purge", !.walk = database]
    <3>1. r \in MainRec /\ r.pc = "purge" /\ r.walk = database
      BY <1>1 DEF IInv, TypeOK, MainRec
    <3>2. main' = r /\ main.pc = "check"
      BY <1>6, <2>2 DEF DestroyCheck
    <3> HIDE DEF r
    <3> QED
      BY <2>1, <3>1, <3>2 DEF MInv, MainControl, Served, vars
  <2>3. CASE database = {}
    <3>1. main' = [main EXCEPT !.pc = IF queue = <<>> THEN "join" ELSE "sleep"] /\ main.pc = "check"
      BY <1>6, <2>3 DEF DestroyCheck
    <3>2. CASE queue = <<>>
      BY <1>2, <2>1, <2>3, <3>1, <3>2 DEF MInv, MainControl, Served, vars
    <3>3. CASE queue # <<>>
      BY <1>2, <2>1, <2>3, <3>1, <3>3 DEF MInv, MainControl, Served, vars
    <3> QED
      BY <3>2, <3>3
  <2> QED
    BY <2>2, <2>3
<1>7. CASE DestroyPurged \/ DestroySleep \/ DestroyJoin
  <2>1. IInv' /\ UNCHANGED vars
    BY <1>1, <1>7, StutterInv DEF DestroyPurged, DestroySleep, DestroyJoin
  <2>2. PICK pc \in {"check", "sleep", "interrupted", "gone"} : main' = [main EXCEPT !.pc = pc]
    BY <1>7, Zenon DEF DestroyPurged, DestroySleep, DestroyJoin
  <2>3. ~Served /\ main.pc # "sigterm"
    BY <1>7 DEF DestroyPurged, DestroySleep, DestroyJoin, Served
  <2> QED
    BY <1>2, <2>1, <2>2, <2>3 DEF MInv, MainControl, Served, vars
<1>8. CASE \E o \in Obj : ForceEntry(o)
  BY <1>8, ForceEntryInv
<1> QED
  BY <1>3, <1>4, <1>5, <1>6, <1>7, <1>8 DEF MainStep

LEMMA ThreadMainInv ==
    ASSUME MInv, main' = main,
           \/ main.pc # "gone" /\ BgStep
           \/ \E t \in Thread : (Served /\ CallStep(t)) \/ HandlerStep(t)
    PROVE  MInv'
<1>1. IInv /\ Main \notin Thread /\ Main # Null
  BY ConstantsAssumption DEF MInv
<1>2. CASE BgStep
  BY <1>1, <1>2, BgStepInv, BgTable DEF MInv, MainControl, Served
<1>3. ASSUME NEW t \in Thread, Served, CallStep(t)
      PROVE  MInv'
  <2>1. IInv' /\ database' = database /\ (dbOwner' = dbOwner \/ (dbOwner = Null /\ dbOwner' = t))
    BY <1>1, <1>3, CallStepInv, CallTable
  <2> QED
    BY <1>1, <1>3, <2>1 DEF MInv, MainControl, Served
<1>4. ASSUME NEW t \in Thread, HandlerStep(t)
      PROVE  MInv'
  <2>1. IInv' /\ thr[t] # Idle
    BY <1>1, <1>4, HandlerStepInv, HandlerTable
  <2>2. Served
    BY <2>1 DEF MInv, MainControl
  <2>3. dbOwner = Main => dbOwner' = Main /\ database' = database
    BY <1>1, <1>4, HandlerTable
  <2>4. dbOwner # Main => dbOwner' # Main
    BY <1>1, <1>4, HandlerTable
  <2> QED
    BY <2>1, <2>2, <2>3, <2>4 DEF MInv, MainControl, Served
<1> QED
  BY <1>2, <1>3, <1>4

(* The handlers, the background thread and the main thread with its forced  *)
(* purges keep the invariant of the table and main's own.                   *)
THEOREM MainInvariance == SpecMain => []MInv
<1>1. InitMain => MInv
  <2> SUFFICES ASSUME InitMain PROVE MInv
    OBVIOUS
  <2>1. IInv /\ dbOwner = Null
    BY InitInv DEF InitMain, Init
  <2> QED
    BY <2>1, ConstantsAssumption DEF InitMain, MInv, MainControl, MainRec, Served
<1>2. MInv /\ [NextMain]_allVars => MInv'
  <2> SUFFICES ASSUME MInv, [NextMain]_allVars PROVE MInv'
    OBVIOUS
  <2>1. CASE UNCHANGED allVars
    <3>1. UNCHANGED vars /\ main' = main
      BY <2>1, Zenon DEF allVars
    <3>2. IInv'
      BY <3>1, StutterInv DEF MInv
    <3> QED
      BY <3>1, <3>2 DEF vars, MInv, MainControl, Served
  <2>2. CASE \/ main.pc # "gone" /\ BgStep /\ main' = main
             \/ \E t \in Thread : \/ Served /\ CallStep(t) /\ main' = main
                                  \/ HandlerStep(t) /\ main' = main
    BY <2>2, ThreadMainInv
  <2>3. CASE SigtermHandler \/ Destroy \/ MainStep
    BY <2>3, MainStepInv
  <2> QED
    BY <2>1, <2>2, <2>3, Zenon DEF NextMain, Unmounted, Served
<1> QED
  BY <1>1, <1>2, PTL DEF SpecMain

(* With the main thread purging by force at any time and unmounting at the  *)
(* end, every structure keeps its type.                                     *)
THEOREM MainTypeCorrect == SpecMain => []TypeOKMain
<1>1. MInv => TypeOKMain
  BY DEF MInv, IInv, MainControl, TypeOKMain
<1> QED
  BY <1>1, MainInvariance, PTL

(* _direct_open_purge(TRUE) takes entries that are in use off the table but *)
(* frees none of them: the handlers, descriptors and queue entries that go  *)
(* on using them after a SIGTERM, and the background thread during an       *)
(* unmount, find them allocated.                                            *)
THEOREM MainReferencesStayLive == SpecMain => []ReferencesLive
<1>1. MInv => ReferencesLive
  BY DEF MInv, IInv
<1> QED
  BY <1>1, MainInvariance, PTL

(* When fusecompress_destroy() leaves its loop without having been          *)
(* interrupted, the queue is empty, and stays so until the background       *)
(* thread is cancelled.                                                     *)
THEOREM QueueIsEmptied == SpecMain => []QueueEmptied
<1>1. MInv => QueueEmptied
  BY DEF MInv, MainControl, QueueEmptied
<1> QED
  BY <1>1, MainInvariance, PTL

=============================================================================
