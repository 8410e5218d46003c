------------------------ MODULE Transparency_proofs ------------------------
(***************************************************************************)
(* Proofs about what FileTable keeps of the contents of files: there is    *)
(* one entry for a name, the background thread never works on a file that  *)
(* is in use, and FileTable implements FlatFS, the flat directory a user   *)
(* sees.                                                                   *)
(***************************************************************************)
EXTENDS FileTable_proofs

(* What keeps contents true, as a second inductive invariant on top of      *)
(* IInv.  An entry is freed when it leaves the table, and a thread that     *)
(* purges will insert a name that is still missing; ...                     *)
TableWhole ==
    /\ live \subseteq database
    /\ \A t \in Thread : thr[t].pc = "purge" => Missing(thr[t].name)

(* ... an entry that a descriptor, a rename or a handler that asked for a   *)
(* stable entry uses is not being worked on, ...                            *)
InUse(o) ==
    \/ \E d \in Desc : desc[d].file = o
    \/ \E t \in Thread : o \in Kept(t)
    \/ \E t \in Thread : thr[t].pc = "locked" /\ thr[t].file = o /\ Stabile(thr[t].op)

UsedIsQuiet == \A o \in live : InUse(o) => ~Busy(file[o])

(* ... an entry that is being worked on is marked; ...                      *)
Marked ==
    /\ bg.pc = "compressing" => "COMPRESSING" \in file[bg.file].status
    /\ bg.pc = "hashing" => "DEDUPING" \in file[bg.file].status
    /\ \A o \in live : "COMPRESSING" \in file[o].status => bg.pc = "compressing" /\ bg.file = o
    /\ \A o \in live : "CANCEL" \in file[o].status => Busy(file[o])

(* ... there is one rename at a time, ...                                   *)
Renames(t) == thr[t].op \in {"rename1", "rename2"}

OneRename == \A t, u \in Thread : Renames(t) /\ Renames(u) => t = u

(* ... and what do_compress() or do_dedup() works on keeps its contents,    *)
(* cancelled or not.                                                        *)
WorkFaithful ==
    bg.pc \in {"compressing", "hashing"} /\ bg.data # Null
    => /\ disk[file[bg.file].name] # Null
       /\ disk[file[bg.file].name].data = bg.data

CInv == IInv /\ TableWhole /\ OneEntryPerName /\ UsedIsQuiet /\ Marked /\ OneRename /\ WorkFaithful

-----------------------------------------------------------------------------
(* The user's view, as in FileTable's instance of FlatFS *)

Content == (Data \cup {Garbage}) \X SizeClass

Contents == [n \in Name |-> IF disk[n] = Null THEN Null ELSE <<disk[n].data, disk[n].size>>]

Opened == [d \in Desc |-> IF desc[d].file = Null THEN Null ELSE file[desc[d].file].name]

Truncating == {thr[t].name : t \in {u \in Thread : thr[u].op = "truncate"}}

(* A step no user sees ...                                                  *)
LEMMA FlatWork ==
    ASSUME Contents' = Contents, Opened' = Opened, Truncating' = Truncating
    PROVE  Flat!Next
BY DEF Flat!Next, Flat!Work, Contents, Opened, Truncating

(* ... and the steps that are a user's.                                     *)
LEMMA FlatCreate ==
    ASSUME NEW n \in Name, NEW c \in Content, Contents[n] = Null, Contents' = [Contents EXCEPT ![n] = c],
           Opened' = Opened, Truncating' = Truncating, bg' = bg
    PROVE  Flat!Next
<1>1. Flat!Create(n)
  BY DEF Flat!Create, Content, Contents, Opened, Truncating
<1> QED
  BY <1>1 DEF Flat!Next

LEMMA FlatRemove ==
    ASSUME NEW n \in Name, Contents[n] # Null, Contents' = [Contents EXCEPT ![n] = Null],
           Opened' = Opened, Truncating' = Truncating, bg' = bg
    PROVE  Flat!Next
<1>1. Flat!Remove(n)
  BY DEF Flat!Remove, Contents, Opened, Truncating
<1> QED
  BY <1>1 DEF Flat!Next

LEMMA FlatBeginTruncate ==
    ASSUME NEW n \in Name, n \notin Truncating, Truncating' = Truncating \cup {n},
           Contents' = Contents, Opened' = Opened, bg' = bg
    PROVE  Flat!Next
<1>1. Flat!BeginTruncate(n)
  BY DEF Flat!BeginTruncate, Contents, Opened, Truncating
<1> QED
  BY <1>1 DEF Flat!Next

LEMMA FlatTruncate ==
    ASSUME NEW n \in Name, n \in Truncating, Truncating' = Truncating \ {n},
           \/ Contents' = Contents
           \/ Contents[n] # Null /\ \E c \in Content : Contents' = [Contents EXCEPT ![n] = c],
           Opened' = Opened, bg' = bg
    PROVE  Flat!Next
<1>1. Flat!Truncate(n)
  BY DEF Flat!Truncate, Content, Contents, Opened, Truncating
<1> QED
  BY <1>1 DEF Flat!Next

LEMMA FlatWrite ==
    ASSUME NEW d \in Desc, NEW n, Opened[d] = n, n # Null, Contents[n] # Null,
           NEW c \in Content, Contents' = [Contents EXCEPT ![n] = c],
           Opened' = Opened, Truncating' = Truncating, bg' = bg
    PROVE  Flat!Next
<1>1. Flat!Write(d)
  BY DEF Flat!Write, Content, Contents, Opened, Truncating
<1> QED
  BY <1>1 DEF Flat!Next

LEMMA FlatOpen ==
    ASSUME NEW n \in Name, NEW d \in Desc, Contents[n] # Null, Opened[d] = Null,
           Opened' = [Opened EXCEPT ![d] = n],
           Contents' = Contents, Truncating' = Truncating, bg' = bg
    PROVE  Flat!Next
<1>1. Flat!Open(n, d)
  BY DEF Flat!Open, Contents, Opened, Truncating
<1> QED
  BY <1>1 DEF Flat!Next

LEMMA FlatClose ==
    ASSUME NEW d \in Desc, Opened[d] # Null, Opened' = [Opened EXCEPT ![d] = Null],
           Contents' = Contents, Truncating' = Truncating, bg' = bg
    PROVE  Flat!Next
<1>1. Flat!Close(d)
  BY DEF Flat!Close, Contents, Opened, Truncating
<1> QED
  BY <1>1 DEF Flat!Next

LEMMA FlatRename ==
    ASSUME NEW a \in Name, NEW b \in Name, a # b, Contents[a] # Null,
           Contents' = [Contents EXCEPT ![a] = Null, ![b] = Contents[a]],
           Opened' = [d \in Desc |-> IF Opened[d] = a THEN b ELSE Opened[d]],
           Truncating' = Truncating, bg' = bg
    PROVE  Flat!Next
<1>1. Flat!Rename(a, b)
  BY DEF Flat!Rename, Contents, Opened, Truncating
<1> QED
  BY <1>1 DEF Flat!Next

-----------------------------------------------------------------------------
(* What a step does to the view *)

LEMMA ContentsAt ==
    ASSUME IInv, NEW n \in Name, NEW i \in Image, disk' = [disk EXCEPT ![n] = i]
    PROVE  /\ Contents' = [Contents EXCEPT ![n] = <<i.data, i.size>>]
           /\ <<i.data, i.size>> \in Content
           /\ disk[n] # Null /\ i.data = disk[n].data /\ i.size = disk[n].size => Contents' = Contents
<1>1. i # Null
  BY ImageAssumption
<1>2. i.data \in Data \cup {Garbage} /\ i.size \in SizeClass
  BY DEF Image
<1> QED
  BY <1>1, <1>2 DEF Contents, Content, IInv, TypeOK

LEMMA ContentsKept ==
    ASSUME disk' = disk
    PROVE  Contents' = Contents
BY DEF Contents

(* The entries keep their names, and are marked at most as cancelled.       *)
SameEntry(p) ==
    /\ file'[p].name = file[p].name
    /\ \/ file'[p].status = file[p].status
       \/ Busy(file[p]) /\ file'[p].status = file[p].status \cup {"CANCEL"}

LEMMA EntryUpdate ==
    ASSUME IInv, NEW o \in Obj, NEW g, file' = [file EXCEPT ![o] = g],
           g.name = file[o].name, g.status = file[o].status
    PROVE  \A p \in live : SameEntry(p)
BY DEF SameEntry, IInv, TypeOK

LEMMA OpenedKept ==
    ASSUME IInv, \A d \in Desc : desc'[d].file = desc[d].file,
           \A p \in live : file'[p].name = file[p].name
    PROVE  Opened' = Opened
BY DEF Opened, IInv, ReferencesLive

LEMMA TruncatingKept ==
    ASSUME NEW t \in Thread, \A u \in Thread \ {t} : thr'[u] = thr[u],
           \/ thr'[t].op # "truncate" /\ thr[t].op # "truncate"
           \/ thr'[t].op = thr[t].op /\ thr'[t].name = thr[t].name
    PROVE  Truncating' = Truncating
BY DEF Truncating

-----------------------------------------------------------------------------
(* Steps of a handler that leave the table alone *)

(* A file whose entry is in use is no file the background thread works on.  *)
LEMMA NotWorkedOn ==
    ASSUME CInv, NEW o \in live, InUse(o), bg.pc \in {"compressing", "hashing"}
    PROVE  bg.file # o /\ file[bg.file].name # file[o].name
<1>1. ~Busy(file[o])
  BY DEF CInv, UsedIsQuiet
<1>2. bg.file \in live /\ Busy(file[bg.file])
  BY Popped DEF CInv, Marked, Busy
<1>3. bg.file # o
  BY <1>1, <1>2
<1> QED
  BY <1>2, <1>3 DEF CInv, TableWhole, OneEntryPerName

LEMMA HandlerKeeps ==
    ASSUME CInv, IInv', NEW t \in Thread,
           database' = database, live' = live, bg' = bg,
           \A p \in live : SameEntry(p),
           \A u \in Thread \ {t} : thr'[u] = thr[u],
           \A d \in Desc : desc'[d].file = desc[d].file \/ desc'[d].file = Null \/ InUse(desc'[d].file),
           \A o \in Kept(t)' : InUse(o),
           thr'[t].pc = "locked" /\ Stabile(thr'[t].op) => ~Busy(file[thr'[t].file]),
           thr'[t].pc = "purge" => Missing(thr'[t].name),
           Renames(t)' => Renames(t) \/ \A u \in Thread \ {t} : ~Renames(u),
           \A n \in Name : disk[n] # Null =>
              \/ disk'[n] # Null /\ disk'[n].data = disk[n].data
              \/ \E o \in live : file[o].name = n /\ InUse(o)
    PROVE  CInv'
<1>1. TableWhole'
  <2>1. ASSUME NEW u \in Thread, thr'[u].pc = "purge" PROVE \A p \in database : file[p].name # thr'[u].name
    BY <2>1 DEF CInv, TableWhole, Missing
  <2>2. \A p \in database : file'[p].name = file[p].name
    BY DEF SameEntry, CInv, IInv, TableLive
  <2> QED
    BY <2>1, <2>2 DEF CInv, TableWhole, Missing
<1>2. OneEntryPerName'
  BY DEF CInv, OneEntryPerName, SameEntry, IInv, TableLive
<1>3. \A p \in live : Busy(file'[p]) <=> Busy(file[p])
  BY DEF SameEntry, Busy
<1>4. UsedIsQuiet'
  <2> SUFFICES ASSUME NEW o \in live, InUse(o)' PROVE ~Busy(file[o])
    BY <1>3 DEF UsedIsQuiet, Busy
  <2>1. InUse(o) => ~Busy(file[o])
    BY DEF CInv, UsedIsQuiet
  <2>2. o # Null
    BY ConstantsAssumption DEF CInv, IInv, TypeOK
  <2>3. ASSUME NEW d \in Desc, desc'[d].file = o PROVE ~Busy(file[o])
    BY <2>1, <2>2, <2>3 DEF InUse
  <2>4. ASSUME NEW u \in Thread, o \in Kept(u)' PROVE ~Busy(file[o])
    <3>1. u # t => Kept(u)' = Kept(u)
      BY DEF Kept
    <3> QED
      BY <2>1, <2>4, <3>1 DEF InUse
  <2>5. ASSUME NEW u \in Thread, thr'[u].pc = "locked", thr'[u].file = o, Stabile(thr'[u].op)
        PROVE  ~Busy(file[o])
    BY <2>1, <2>5 DEF InUse
  <2> QED
    BY <2>3, <2>4, <2>5 DEF InUse, Stabile
<1>5. Marked'
  <2>1. bg.pc \in {"compressing", "hashing"} => bg.file \in live
    BY Popped DEF CInv
  <2>2. \A p \in live : "COMPRESSING" \in file'[p].status <=> "COMPRESSING" \in file[p].status
    BY DEF SameEntry
  <2>3. \A p \in live : "DEDUPING" \in file'[p].status <=> "DEDUPING" \in file[p].status
    BY DEF SameEntry
  <2>4. \A p \in live : "CANCEL" \in file'[p].status => "CANCEL" \in file[p].status \/ Busy(file[p])
    BY DEF SameEntry
  <2>5. \A o \in live : "CANCEL" \in file'[o].status => Busy(file'[o])
    BY <1>3, <2>4 DEF CInv, Marked
  <2> QED
    BY <2>1, <2>2, <2>3, <2>5 DEF CInv, Marked, Busy
<1>6. OneRename'
  BY DEF CInv, OneRename, Renames
<1>7. WorkFaithful'
  <2> SUFFICES ASSUME bg.pc \in {"compressing", "hashing"}, bg.data # Null
               PROVE  disk'[file'[bg.file].name] # Null /\ disk'[file'[bg.file].name].data = bg.data
    BY DEF WorkFaithful
  <2> DEFINE n == file[bg.file].name
  <2>1. bg.file \in live /\ file'[bg.file].name = n /\ n \in Name
    BY Popped DEF CInv, SameEntry, FileRec
  <2>2. disk[n] # Null /\ disk[n].data = bg.data
    BY DEF CInv, WorkFaithful
  <2>3. ~\E o \in live : file[o].name = n /\ InUse(o)
    BY NotWorkedOn
  <2> QED
    BY <2>1, <2>2, <2>3
<1> QED
  BY <1>1, <1>2, <1>4, <1>5, <1>6, <1>7 DEF CInv

(* A call ends, having changed at most fields of entries other than name    *)
(* and status, and backing files in use.                                    *)
LEMMA EndKeeps ==
    ASSUME CInv, IInv', NEW t \in Thread, thr[t].pc \in {"locked", "pwrite", "readfail"},
           thr' = [thr EXCEPT ![t] = Idle],
           database' = database, live' = live, bg' = bg,
           \A p \in live : SameEntry(p),
           \A d \in Desc : desc'[d].file = desc[d].file,
           \A n \in Name : disk[n] # Null =>
              \/ disk'[n] # Null /\ disk'[n].data = disk[n].data
              \/ \E o \in live : file[o].name = n /\ InUse(o)
    PROVE  /\ CInv' /\ Opened' = Opened
           /\ thr[t].op # "truncate" => Truncating' = Truncating
<1>1. thr'[t] = Idle /\ \A u \in Thread \ {t} : thr'[u] = thr[u]
  BY DEF CInv, IInv, TypeOK
<1>2. Idle.pc = "idle" /\ Idle.op = "none" /\ Idle.from = Null
  BY DEF Idle
<1>3. Kept(t)' = {}
  BY <1>1, <1>2 DEF Kept
<1>4. CInv'
  BY <1>1, <1>2, <1>3, HandlerKeeps DEF Renames
<1>5. Opened' = Opened
  BY OpenedKept DEF CInv, SameEntry
<1> QED
  BY <1>1, <1>2, <1>4, <1>5, TruncatingKept

(* The entry a handler holds that asked for a stable one is in use.         *)
LEMMA HeldInUse ==
    ASSUME NEW t \in Thread, NEW op, Holds(t, op), op \notin {"getattr", "utime"}
    PROVE  InUse(thr[t].file)
BY DEF Holds, InUse, Stabile

(* One backing file changes, and its entry is in use.                       *)
LEMMA UsedChange ==
    ASSUME IInv, NEW n \in Name, NEW i, disk' = [disk EXCEPT ![n] = i],
           NEW o \in live, file[o].name = n, InUse(o)
    PROVE  \A m \in Name : disk[m] # Null =>
              \/ disk'[m] # Null /\ disk'[m].data = disk[m].data
              \/ \E p \in live : file[p].name = m /\ InUse(p)
BY DEF IInv, TypeOK

(* What discarding, deleting and closing leave of an entry.                 *)
LEMMA SmallKeeps ==
    ASSUME NEW f \in FileRec
    PROVE  /\ Discard(f).name = f.name /\ Discard(f).status = f.status
           /\ Delete(f).name = f.name /\ Delete(f).status = f.status
           /\ DirectClose(f).name = f.name /\ DirectClose(f).status = f.status
BY DEF Discard, Delete, DirectClose, FileRec

LEMMA GetattrKeeps ==
    ASSUME CInv, NEW t \in Thread, Getattr(t)
    PROVE  CInv' /\ Flat!Next
<1>0. IInv' /\ IInv
  BY GetattrInv DEF CInv
<1> DEFINE f == file[thr[t].file]
           i == disk[f.name]
           Like(g) == g.name = f.name /\ g.status = f.status
<1>1. f \in FileRec /\ thr[t].file \in Obj /\ thr[t].pc = "locked" /\ thr[t].op = "getattr"
  BY <1>0, Holding DEF Getattr, Holds
<1>2. \A s, c : Like([f EXCEPT !.size = s]) /\ Like([f EXCEPT !.compressor = c, !.size = s])
  BY <1>1 DEF FileRec
<1>3. file' = file \/ \E g : Like(g) /\ file' = [file EXCEPT ![thr[t].file] = g]
  <2> HIDE DEF Like
  <2>1. CASE /\ i # Null
             /\ file' = [file EXCEPT ![thr[t].file] =
                   IF i.packed THEN [f EXCEPT !.compressor = TRUE, !.size = i.size]
                   ELSE IF i.size = "empty" THEN [f EXCEPT !.size = thr[t].stat]
                   ELSE [f EXCEPT !.compressor = FALSE, !.size = thr[t].stat]]
    <3>1. CASE i.packed
      BY <1>2, <2>1, <3>1, Zenon
    <3>2. CASE ~i.packed /\ i.size = "empty"
      BY <1>2, <2>1, <3>2, Zenon
    <3>3. CASE ~i.packed /\ i.size # "empty"
      BY <1>2, <2>1, <3>3, Zenon
    <3> QED
      BY <3>1, <3>2, <3>3
  <2>2. CASE file' = [file EXCEPT ![thr[t].file].size = "empty"]
    BY <1>2, <2>2, Zenon
  <2> QED
    BY <2>1, <2>2, Zenon DEF Getattr
<1>4. \A p \in live : SameEntry(p)
  <2>1. CASE file' = file
    BY <2>1 DEF SameEntry
  <2> QED
    BY <1>0, <1>1, <1>3, <2>1, EntryUpdate
<1>5. /\ thr' = [thr EXCEPT ![t] = Idle] /\ database' = database /\ live' = live /\ bg' = bg
      /\ desc' = desc /\ disk' = disk
  BY Zenon DEF Getattr, Return
<1>6. CInv' /\ Opened' = Opened /\ Truncating' = Truncating
  BY <1>0, <1>1, <1>4, <1>5, EndKeeps
<1> QED
  BY <1>5, <1>6, ContentsKept, FlatWork

LEMMA UtimeKeeps ==
    ASSUME CInv, NEW t \in Thread, Utime(t)
    PROVE  CInv' /\ Flat!Next
<1>0. IInv' /\ IInv
  BY UtimeInv DEF CInv
<1>0a. PICK n \in Name : n = thr[t].name
  BY <1>0, Holding DEF Utime
<1>1. thr[t].pc = "locked" /\ thr[t].op = "utime"
  BY DEF Utime, Holds
<1>2. /\ thr' = [thr EXCEPT ![t] = Idle] /\ database' = database /\ live' = live /\ bg' = bg
      /\ desc' = desc /\ file' = file
  BY Zenon DEF Utime, Return
<1>3. disk' = disk \/ \E i \in Image : /\ disk[n] # Null /\ disk' = [disk EXCEPT ![n] = i]
                                       /\ i.data = disk[n].data /\ i.size = disk[n].size
  <2>1. CASE disk[n] # Null /\ \E m \in Time : disk' = [disk EXCEPT ![n].mtime = m]
    <3>1. disk[n] \in Image
      BY <1>0, <2>1 DEF IInv, TypeOK
    <3>2. PICK m \in Time : disk' = [disk EXCEPT ![n].mtime = m]
      BY <2>1
    <3> DEFINE i == [disk[n] EXCEPT !.mtime = m]
    <3>3. i \in Image /\ i.data = disk[n].data /\ i.size = disk[n].size
      BY <3>1 DEF Image
    <3>4. disk' = [disk EXCEPT ![n] = i]
      BY <3>2
    <3> HIDE DEF i
    <3> QED
      BY <2>1, <3>3, <3>4
  <2> QED
    BY <1>0a, <2>1 DEF Utime
<1>4. Contents' = Contents
  BY <1>0, <1>3, ContentsKept, ContentsAt
<1>5. \A m \in Name : disk[m] # Null => disk'[m] # Null /\ disk'[m].data = disk[m].data
  BY <1>0, <1>3, ImageAssumption DEF IInv, TypeOK
<1>6. CInv' /\ Opened' = Opened /\ Truncating' = Truncating
  BY <1>0, <1>1, <1>2, <1>5, EndKeeps DEF SameEntry
<1> QED
  BY <1>4, <1>6, FlatWork

LEMMA MknodKeeps ==
    ASSUME CInv, NEW t \in Thread, Mknod(t)
    PROVE  CInv' /\ Flat!Next
<1>0. IInv' /\ IInv
  BY MknodInv DEF CInv
<1>0a. PICK n \in Name : n = thr[t].name
  BY <1>0, Holding DEF Mknod
<1>1. thr[t].pc = "locked" /\ thr[t].op = "mknod"
  BY DEF Mknod, Holds
<1>2. /\ thr' = [thr EXCEPT ![t] = Idle] /\ database' = database /\ live' = live /\ bg' = bg
      /\ desc' = desc /\ file' = file
  BY Zenon DEF Mknod, Return
<1>3. disk' = disk \/ \E i \in Image : disk[n] = Null /\ disk' = [disk EXCEPT ![n] = i]
  <2>1. \A c \in Data, m \in Time : [data |-> c, packed |-> FALSE, size |-> "empty", mtime |-> m] \in Image
    BY DEF Image, SizeClass
  <2> QED
    BY <1>0a, <2>1, Zenon DEF Mknod
<1>5. \A m \in Name : disk[m] # Null => disk'[m] # Null /\ disk'[m].data = disk[m].data
  BY <1>0, <1>3 DEF IInv, TypeOK
<1>6. CInv' /\ Opened' = Opened /\ Truncating' = Truncating
  BY <1>0, <1>1, <1>2, <1>5, EndKeeps DEF SameEntry
<1>7. CASE disk' = disk
  BY <1>6, <1>7, ContentsKept, FlatWork
<1>8. ASSUME NEW i \in Image, disk[n] = Null, disk' = [disk EXCEPT ![n] = i] PROVE Flat!Next
  <2>1. Contents' = [Contents EXCEPT ![n] = <<i.data, i.size>>] /\ <<i.data, i.size>> \in Content
    BY <1>0, <1>8, ContentsAt
  <2>2. Contents[n] = Null
    BY <1>8 DEF Contents
  <2> QED
    BY <1>2, <1>6, <2>1, <2>2, FlatCreate
<1> QED
  BY <1>3, <1>6, <1>7, <1>8

LEMMA UnlinkKeeps ==
    ASSUME CInv, NEW t \in Thread, Unlink(t)
    PROVE  CInv' /\ Flat!Next
<1>0. IInv' /\ IInv
  BY UnlinkInv DEF CInv
<1>0a. PICK n \in Name, o \in live : n = thr[t].name /\ o = thr[t].file
  BY <1>0, Holding DEF Unlink
<1>1. /\ thr[t].pc = "locked" /\ thr[t].op = "unlink" /\ o \in Obj /\ file[o] \in FileRec
      /\ file[o].name = n /\ InUse(o)
  BY <1>0, <1>0a, Holding, HeldInUse DEF Unlink, Holds
<1>2. /\ thr' = [thr EXCEPT ![t] = Idle] /\ database' = database /\ live' = live /\ bg' = bg
      /\ desc' = desc
  BY Zenon DEF Unlink, Return
<1>3. \A p \in live : SameEntry(p)
  <2> DEFINE Like(g) == g.name = file[o].name /\ g.status = file[o].status
  <2>1. Like(Discard(file[o])) /\ Like(Delete(Discard(file[o])))
    BY <1>1, DiscardKeeps, SmallKeeps
  <2>2. \E g : Like(g) /\ file' = [file EXCEPT ![o] = g]
    <3> HIDE DEF Like
    <3> QED
      BY <1>0a, <2>1 DEF Unlink
  <2> QED
    BY <1>0, <1>1, <2>2, EntryUpdate
<1>4. disk' = disk \/ (disk[n] # Null /\ disk' = [disk EXCEPT ![n] = Null])
  BY <1>0a, Zenon DEF Unlink
<1>5. \A m \in Name : disk[m] # Null =>
              \/ disk'[m] # Null /\ disk'[m].data = disk[m].data
              \/ \E p \in live : file[p].name = m /\ InUse(p)
  BY <1>0, <1>1, <1>4, UsedChange
<1>6. CInv' /\ Opened' = Opened /\ Truncating' = Truncating
  BY <1>0, <1>1, <1>2, <1>3, <1>5, EndKeeps
<1>7. CASE disk' = disk
  BY <1>6, <1>7, ContentsKept, FlatWork
<1>8. CASE disk[n] # Null /\ disk' = [disk EXCEPT ![n] = Null]
  <2>1. Contents' = [Contents EXCEPT ![n] = Null]
    BY <1>0, <1>8 DEF Contents, IInv, TypeOK
  <2>2. Contents[n] # Null
    <3>1. disk[n] \in Image
      BY <1>0, <1>8 DEF IInv, TypeOK
    <3> QED
      BY <1>8, <3>1, ImageAssumption DEF Contents, Image
  <2> QED
    BY <1>2, <1>6, <2>1, <2>2, FlatRemove
<1> QED
  BY <1>4, <1>6, <1>7, <1>8

-----------------------------------------------------------------------------
(* do_decompress() changes neither contents nor lengths *)

SameView(f, r) ==
    /\ r.f.name = f.name /\ r.f.status = f.status
    /\ IF disk[f.name] = Null THEN r.i = Null
       ELSE r.i \in Image /\ r.i.data = disk[f.name].data /\ r.i.size = disk[f.name].size

LEMMA OutcomeView ==
    ASSUME NEW f, NEW ok, NEW g, g.name = f.name, g.status = f.status, NEW i, NEW fd,
           IF disk[f.name] = Null THEN i = Null
           ELSE i \in Image /\ i.data = disk[f.name].data /\ i.size = disk[f.name].size
    PROVE  SameView(f, Outcome(ok, g, i, fd))
BY DEF SameView, Outcome

LEMMA DoDecompressView ==
    ASSUME IInv, NEW o, NEW f \in FileRec, NEW r \in DoDecompress(o, f)
    PROVE  SameView(f, r)
<1> DEFINE i == disk[f.name]
           closed == IF DescOf(o) = {} THEN f ELSE DirectClose(f)
           done == [i EXCEPT !.packed = FALSE]
           Like(g) == g.name = f.name /\ g.status = f.status
           Same(j) == IF i = Null THEN j = Null ELSE j \in Image /\ j.data = i.data /\ j.size = i.size
<1>1. i \in Image \cup {Null}
  BY DEF IInv, TypeOK, FileRec
<1>2. Like(f) /\ Like(closed) /\ closed \in FileRec
  BY SmallKeeps, DirectCloseKeeps
<1>3. \A s : /\ Like([f EXCEPT !.compressor = FALSE, !.size = s])
             /\ Like([closed EXCEPT !.compressor = FALSE, !.size = s])
  <2> HIDE DEF closed
  <2> QED
    BY <1>2 DEF FileRec
<1>4. i # Null => Same(done)
  BY <1>1 DEF Image
<1>5. Same(i)
  BY <1>1
<1>6. \/ r = Outcome(FALSE, f, i, "same")
      \/ /\ i # Null
         /\ \/ r = Outcome(TRUE, [f EXCEPT !.compressor = FALSE, !.size = "unknown"], i, "same")
            \/ r = Outcome(TRUE, [closed EXCEPT !.compressor = FALSE, !.size = i.size], done, "ok")
            \/ r = Outcome(FALSE, closed, i, "closed")
            \/ r = Outcome(FALSE, closed, i, "stale")
            \/ r = Outcome(FALSE, closed, done, "ok")
  <2> HIDE DEF closed, done
  <2> QED
    BY DEF DoDecompress, closed, done
<1>7. \A ok, g, j, fd : Like(g) /\ Same(j) => SameView(f, Outcome(ok, g, j, fd))
  BY OutcomeView
<1> HIDE DEF i, closed, done, Like, Same
<1> QED
  BY <1>2, <1>3, <1>4, <1>5, <1>6, <1>7, Zenon

(* A decompression of the file of entry o, in use, whatever comes of it.    *)
LEMMA ViewChange ==
    ASSUME IInv, NEW n \in Name, NEW i, disk' = [disk EXCEPT ![n] = i],
           IF disk[n] = Null THEN i = Null
           ELSE i \in Image /\ i.data = disk[n].data /\ i.size = disk[n].size
    PROVE  /\ Contents' = Contents
           /\ \A m \in Name : disk[m] # Null => disk'[m] # Null /\ disk'[m].data = disk[m].data
<1>1. CASE disk[n] = Null
  <2>1. disk' = disk
    BY <1>1 DEF IInv, TypeOK
  <2> QED
    BY <2>1, ContentsKept
<1>2. CASE disk[n] # Null
  BY <1>2, ContentsAt, ImageAssumption DEF IInv, TypeOK
<1> QED
  BY <1>1, <1>2

(* No other thread truncates the file a truncate holds.                     *)
LEMMA TruncatingEnds ==
    ASSUME IInv, NEW t \in Thread, thr[t].op = "truncate", thr[t].name \in Name, thr' = [thr EXCEPT ![t] = Idle]
    PROVE  thr[t].name \in Truncating /\ Truncating' = Truncating \ {thr[t].name}
<1>1. thr'[t] = Idle /\ Idle.op = "none" /\ \A u \in Thread \ {t} : thr'[u] = thr[u]
  BY DEF IInv, TypeOK, Idle
<1>2. \A u \in Thread \ {t} : thr[u].op = "truncate" => thr[u].name # thr[t].name
  BY DEF IInv, PathsExclusive, Compatible, Modifying
<1> QED
  BY <1>1, <1>2 DEF Truncating

LEMMA TruncateKeeps ==
    ASSUME CInv, NEW t \in Thread, NEW s \in Sizes, Truncate(t, s)
    PROVE  CInv' /\ Flat!Next
<1>0. IInv' /\ IInv
  BY TruncateInv DEF CInv
<1>1. PICK n \in Name, o \in live : n = thr[t].name /\ o = thr[t].file
  BY <1>0, Holding DEF Truncate
<1>2. /\ thr[t].pc = "locked" /\ thr[t].op = "truncate" /\ o \in Obj /\ file[o] \in FileRec
      /\ file[o].name = n /\ InUse(o)
  BY <1>0, <1>1, Holding, HeldInUse DEF Truncate, Holds
<1>3. /\ thr' = [thr EXCEPT ![t] = Idle] /\ database' = database /\ live' = live /\ bg' = bg
  BY Zenon DEF Truncate, Return
<1>4. PICK f : f = Discard(file[o])
  OBVIOUS
<1>5. f \in FileRec /\ f.name = n /\ f.status = file[o].status
  BY <1>2, <1>4, DiscardKeeps, SmallKeeps
<1>6. PICK r \in TruncateFirst(o, f, s) :
         /\ desc' = Reopened(o, r.fd)
         /\ \/ /\ file' = [file EXCEPT ![o] = r.f]
               /\ disk' = [disk EXCEPT ![n] = r.i]
            \/ /\ r.i # Null
               /\ file' = [file EXCEPT ![o] = [r.f EXCEPT !.size = s]]
               /\ \E i \in Truncated(r.i, s) : disk' = [disk EXCEPT ![n] = i]
  BY <1>1, <1>4 DEF Truncate
<1>7. disk[f.name] \in Image \cup {Null}
  BY <1>0, <1>5 DEF IInv, TypeOK
<1>8. SameView(f, r) /\ GoodOutcome(f, r)
  <2>2. CASE r = Outcome(TRUE, f, disk[f.name], "same")
    BY <1>5, <1>7, <2>2, OutcomeGood, OutcomeView
  <2>3. CASE r \in DoDecompress(o, f)
    BY <1>0, <1>5, <2>3, DoDecompressGood, DoDecompressView
  <2>4. CASE r = Outcome(TRUE, [(IF DescOf(o) = {} THEN f ELSE DirectClose(f)) EXCEPT !.compressor = FALSE],
                         disk[f.name], "same")
    <3> DEFINE c == IF DescOf(o) = {} THEN f ELSE DirectClose(f)
               e == [c EXCEPT !.compressor = FALSE]
    <3>1. c \in FileRec /\ c.accesses = f.accesses /\ c.name = f.name /\ c.status = f.status
      BY <1>5, DirectCloseKeeps, SmallKeeps
    <3>2. e \in FileRec /\ e.accesses = f.accesses /\ e.name = f.name /\ e.status = f.status
      <4> HIDE DEF c
      <4> QED
        BY <3>1 DEF FileRec
    <3>3. r = Outcome(TRUE, e, disk[f.name], "same")
      BY <2>4
    <3> HIDE DEF e
    <3> QED
      BY <1>7, <3>2, <3>3, OutcomeGood, OutcomeView
  <2> QED
    BY <2>2, <2>3, <2>4 DEF TruncateFirst
<1>9. \A p \in live : SameEntry(p)
  <2> DEFINE Like(g) == g.name = file[o].name /\ g.status = file[o].status
  <2>1. Like(r.f) /\ Like([r.f EXCEPT !.size = s])
    BY <1>2, <1>5, <1>8 DEF SameView, GoodOutcome, FileRec
  <2>2. \E g : Like(g) /\ file' = [file EXCEPT ![o] = g]
    <3> HIDE DEF Like
    <3> QED
      BY <1>6, <2>1
  <2> QED
    BY <1>0, <1>2, <2>2, EntryUpdate
<1>10. \A d \in Desc : desc'[d].file = desc[d].file
  BY <1>0, <1>6, <1>8, ReopenedKeeps DEF GoodOutcome
<1>11. \A m \in Name : disk[m] # Null =>
              \/ disk'[m] # Null /\ disk'[m].data = disk[m].data
              \/ \E p \in live : file[p].name = m /\ InUse(p)
  BY <1>0, <1>2, <1>6, UsedChange
<1>12. CInv' /\ Opened' = Opened
  BY <1>0, <1>2, <1>3, <1>9, <1>10, <1>11, EndKeeps
<1>13. n \in Truncating /\ Truncating' = Truncating \ {n}
  BY <1>0, <1>1, <1>2, <1>3, TruncatingEnds
<1>14. \/ Contents' = Contents
       \/ Contents[n] # Null /\ \E c \in Content : Contents' = [Contents EXCEPT ![n] = c]
  <2>1. CASE disk' = [disk EXCEPT ![n] = r.i]
    <3>1. IF disk[n] = Null THEN r.i = Null
          ELSE r.i \in Image /\ r.i.data = disk[n].data /\ r.i.size = disk[n].size
      BY <1>5, <1>8 DEF SameView
    <3>2. PICK i : i = r.i
      OBVIOUS
    <3> QED
      BY <1>0, <2>1, <3>1, <3>2, ViewChange
  <2>2. ASSUME r.i # Null, NEW i \in Truncated(r.i, s), disk' = [disk EXCEPT ![n] = i]
        PROVE  Contents[n] # Null /\ \E c \in Content : Contents' = [Contents EXCEPT ![n] = c]
    <3>1. disk[n] # Null /\ r.i \in Image
      BY <1>5, <1>8, <2>2 DEF SameView
    <3>2. i \in Image
      <4>1. s \in SizeClass
        BY ConstantsAssumption
      <4> QED
        BY <2>2, <3>1, <4>1, ZenonT(40) DEF Truncated, Image
    <3>3. Contents[n] # Null
      <4>1. disk[n] \in Image
        BY <1>0, <3>1 DEF IInv, TypeOK
      <4> QED
        BY <3>1, <4>1, ImageAssumption DEF Contents, Image
    <3> QED
      BY <1>0, <2>2, <3>2, <3>3, ContentsAt
  <2> QED
    BY <1>6, <2>1, <2>2
<1> QED
  BY <1>3, <1>12, <1>13, <1>14, FlatTruncate

-----------------------------------------------------------------------------
(* open, and calls that end without changing the entry's identity *)

(* Contents of a file that exists are not Null.                             *)
LEMMA ContentsThere ==
    ASSUME IInv, NEW n \in Name, disk[n] # Null
    PROVE  Contents[n] # Null
<1>1. disk[n] \in Image
  BY DEF IInv, TypeOK
<1> QED
  BY <1>1, ImageAssumption DEF Contents, Image

(* A call ends and changes fields of one entry only.                        *)
LEMMA EntryEnd ==
    ASSUME CInv, IInv', NEW t \in Thread, thr[t].pc \in {"locked", "pwrite", "readfail"},
           thr[t].op # "truncate", thr' = [thr EXCEPT ![t] = Idle],
           database' = database, live' = live, bg' = bg, desc' = desc, disk' = disk,
           NEW o \in Obj, NEW g, file' = [file EXCEPT ![o] = g],
           g.name = file[o].name, g.status = file[o].status
    PROVE  CInv' /\ Flat!Next
<1>1. \A p \in live : SameEntry(p)
  BY EntryUpdate DEF CInv
<1>2. CInv' /\ Opened' = Opened /\ Truncating' = Truncating
  BY <1>1, EndKeeps
<1> QED
  BY <1>2, ContentsKept, FlatWork

LEMMA OpenFailsKeeps ==
    ASSUME CInv, NEW t \in Thread, OpenFails(t)
    PROVE  CInv' /\ Flat!Next
<1>0. IInv' /\ IInv
  BY OpenFailsInv DEF CInv
<1>1. PICK o \in Obj : o = thr[t].file
  BY <1>0, Holding DEF OpenFails
<1>2. thr[t].pc = "locked" /\ thr[t].op = "open" /\ file[o] \in FileRec
  BY <1>0, <1>1, Holding DEF OpenFails, Holds
<1>3. PICK g \in {file[o], Discard(file[o])} : file' = [file EXCEPT ![o] = g]
  BY <1>1 DEF OpenFails
<1>4. g.name = file[o].name /\ g.status = file[o].status
  BY <1>2, SmallKeeps
<1>5. /\ thr' = [thr EXCEPT ![t] = Idle] /\ database' = database /\ live' = live /\ bg' = bg
      /\ desc' = desc /\ disk' = disk
  BY Zenon DEF OpenFails, Return
<1> QED
  BY <1>0, <1>2, <1>3, <1>4, <1>5, EntryEnd

LEMMA OpenLeaksLockKeeps ==
    ASSUME CInv, NEW t \in Thread, OpenLeaksLock(t)
    PROVE  CInv' /\ Flat!Next
<1>0. IInv' /\ IInv
  BY OpenLeaksLockInv DEF CInv
<1>1. PICK o \in Obj : o = thr[t].file
  BY <1>0, Holding DEF OpenLeaksLock
<1>2. thr[t].pc = "locked" /\ thr[t].op = "open" /\ file[o] \in FileRec
  BY <1>0, <1>1, Holding DEF OpenLeaksLock, Holds
<1>3. PICK f \in {file[thr[t].file], Discard(file[thr[t].file])}, linked \in {FALSE, DedupEnabled} :
         file' = [file EXCEPT ![thr[t].file] = [f EXCEPT !.dontcompress = @ \/ linked]]
  BY Zenon DEF OpenLeaksLock
<1> DEFINE g == [f EXCEPT !.dontcompress = @ \/ linked]
<1>4. f \in FileRec /\ f.name = file[o].name /\ f.status = file[o].status
  BY <1>1, <1>2, SmallKeeps, DiscardKeeps
<1>5. g.name = file[o].name /\ g.status = file[o].status
  BY <1>4, Zenon DEF FileRec
<1>6. /\ thr' = [thr EXCEPT ![t] = Idle] /\ database' = database /\ live' = live /\ bg' = bg
      /\ desc' = desc /\ disk' = disk
  BY Zenon DEF OpenLeaksLock
<1>7. file' = [file EXCEPT ![thr[t].file] = g]
  BY <1>3
<1> HIDE DEF g
<1> QED
  BY <1>0, <1>1, <1>2, <1>5, <1>6, <1>7, EntryEnd

LEMMA OpenKeeps ==
    ASSUME CInv, NEW t \in Thread, NEW d \in Desc, Open(t, d)
    PROVE  CInv' /\ Flat!Next
<1>0. IInv' /\ IInv
  BY OpenInv DEF CInv
<1>1. PICK n \in Name, o \in live : n = thr[t].name /\ o = thr[t].file
  BY <1>0, Holding DEF Open
<1>2. /\ thr[t].pc = "locked" /\ thr[t].op = "open" /\ o \in Obj /\ file[o] \in FileRec
      /\ file[o].name = n /\ InUse(o) /\ o # Null
  BY <1>0, <1>1, Holding, HeldInUse, ConstantsAssumption DEF Open, Holds
<1>3. /\ thr' = [thr EXCEPT ![t] = Idle] /\ database' = database /\ live' = live /\ bg' = bg
      /\ disk' = disk /\ disk[n] # Null /\ desc[d] = Closed
      /\ desc' = [desc EXCEPT ![d] = [file |-> o, fd |-> "ok"]]
  BY <1>1, Zenon DEF Open, Return
<1>4. \A p \in live : SameEntry(p)
  <2> DEFINE i == disk[thr[t].name]
  <2>1. PICK f \in {file[thr[t].file], Discard(file[thr[t].file])}, linked \in {FALSE, DedupEnabled} :
          file' = [file EXCEPT ![thr[t].file] =
                     [f EXCEPT !.accesses = @ + 1, !.size = i.size, !.compressor = i.packed,
                               !.dontcompress = @ \/ linked]]
    BY Zenon DEF Open
  <2> DEFINE g == [f EXCEPT !.accesses = @ + 1, !.size = i.size, !.compressor = i.packed,
                            !.dontcompress = @ \/ linked]
  <2>2. f \in FileRec /\ f.name = file[o].name /\ f.status = file[o].status
    BY <1>1, <1>2, SmallKeeps, DiscardKeeps
  <2>3. g.name = file[o].name /\ g.status = file[o].status
    BY <2>2, Zenon DEF FileRec
  <2>4. file' = [file EXCEPT ![thr[t].file] = g]
    BY <2>1
  <2> HIDE DEF g
  <2> QED
    BY <1>0, <1>1, <1>2, <2>3, <2>4, EntryUpdate
<1>5. Closed.file = Null /\ Idle.pc = "idle" /\ Idle.op = "none" /\ Idle.from = Null
  BY DEF Closed, Idle
<1>6. /\ thr'[t] = Idle /\ \A u \in Thread \ {t} : thr'[u] = thr[u]
      /\ desc'[d].file = o /\ \A x \in Desc \ {d} : desc'[x] = desc[x]
  BY <1>0, <1>3 DEF IInv, TypeOK
<1>7. Kept(t)' = {}
  BY <1>5, <1>6 DEF Kept
<1>8. CInv'
  BY <1>0, <1>2, <1>3, <1>4, <1>5, <1>6, <1>7, HandlerKeeps DEF Renames
<1>9. Truncating' = Truncating
  BY <1>2, <1>5, <1>6, TruncatingKept
<1>10. Opened[d] = Null /\ Opened' = [Opened EXCEPT ![d] = n]
  <2>1. \A x \in Desc : desc[x].file \in live \cup {Null}
    BY <1>0 DEF IInv, ReferencesLive
  <2>2. \A x \in Desc \ {d} : /\ desc'[x].file = desc[x].file
                              /\ desc[x].file # Null => file'[desc[x].file].name = file[desc[x].file].name
    BY <1>4, <1>6, <2>1 DEF SameEntry
  <2>3. desc'[d].file # Null /\ file'[desc'[d].file].name = n /\ desc[d].file = Null
    BY <1>2, <1>3, <1>4, <1>5, <1>6 DEF SameEntry
  <2> QED
    BY <2>2, <2>3 DEF Opened
<1> QED
  BY <1>0, <1>3, <1>8, <1>9, <1>10, ContentsThere, ContentsKept, FlatOpen

(* The calls that go on without the lock.                                   *)
LEMMA Unlocked ==
    ASSUME IInv, NEW t \in Thread, thr[t].pc \in {"pwrite", "readfail"}
    PROVE  /\ thr[t].op # "truncate" /\ thr[t].desc \in Desc /\ thr[t].file \in live /\ thr[t].file \in Obj
           /\ desc[thr[t].desc].file = thr[t].file /\ InUse(thr[t].file) /\ thr[t].file # Null
           /\ file[thr[t].file] \in FileRec /\ file[thr[t].file].name \in Name
<1>1. ControlOf(t)
  BY DEF IInv, Control
<1>2. /\ thr[t].op # "truncate" /\ thr[t].desc \in Desc /\ thr[t].file \in Obj
      /\ desc[thr[t].desc].file = thr[t].file
  BY <1>1 DEF ControlOf
<1>3. thr[t].file \in live /\ thr[t].file # Null
  BY <1>2, ConstantsAssumption DEF IInv, ReferencesLive
<1> QED
  BY <1>2, <1>3 DEF InUse, IInv, TableLive, FileRec

LEMMA ReadFailKeeps ==
    ASSUME CInv, NEW t \in Thread, ReadFail(t)
    PROVE  CInv' /\ Flat!Next
<1>0. IInv' /\ IInv
  BY ReadFailInv DEF CInv
<1>1. PICK o \in Obj : o = thr[t].file
  BY <1>0, Unlocked DEF ReadFail
<1>2. thr[t].pc = "readfail" /\ thr[t].op # "truncate" /\ file[o] \in FileRec
  BY <1>0, <1>1, Unlocked DEF ReadFail
<1> DEFINE g == [file[o] EXCEPT !.size = "unknown"]
<1>3. g.name = file[o].name /\ g.status = file[o].status
  BY <1>2 DEF FileRec
<1>4. /\ thr' = [thr EXCEPT ![t] = Idle] /\ database' = database /\ live' = live /\ bg' = bg
      /\ desc' = desc /\ disk' = disk
  BY Zenon DEF ReadFail
<1>5. file' = [file EXCEPT ![o] = g]
  BY <1>1 DEF ReadFail
<1> HIDE DEF g
<1> QED
  BY <1>0, <1>2, <1>3, <1>4, <1>5, EntryEnd

LEMMA PwriteKeeps ==
    ASSUME CInv, NEW t \in Thread, Pwrite(t)
    PROVE  CInv' /\ Flat!Next
<1>0. IInv' /\ IInv
  BY PwriteInv DEF CInv
<1>a. thr[t].pc = "pwrite"
  BY Zenon DEF Pwrite
<1>1. PICK o \in live, n \in Name, d \in Desc : o = thr[t].file /\ n = file[o].name /\ d = thr[t].desc
  BY <1>0, <1>a, Unlocked
<1>2. /\ thr[t].op # "truncate" /\ file[o] \in FileRec /\ o \in Obj /\ InUse(o)
      /\ desc[d].file = o /\ o # Null
  BY <1>0, <1>a, <1>1, Unlocked
<1>3. /\ thr' = [thr EXCEPT ![t] = Idle] /\ database' = database /\ live' = live /\ bg' = bg
      /\ desc' = desc
  BY Zenon DEF Pwrite
<1>4. \A p \in live : SameEntry(p)
  <2>1. CASE file' = file
    BY <2>1 DEF SameEntry
  <2>2. CASE file' = [file EXCEPT ![o].size = "unknown"]
    <3> DEFINE g == [file[o] EXCEPT !.size = "unknown"]
    <3>1. g.name = file[o].name /\ g.status = file[o].status
      BY <1>2 DEF FileRec
    <3>2. file' = [file EXCEPT ![o] = g]
      BY <2>2
    <3> HIDE DEF g
    <3> QED
      BY <1>0, <1>2, <3>1, <3>2, EntryUpdate
  <2> QED
    BY <1>1, <2>1, <2>2, Zenon DEF Pwrite
<1>5. disk' = disk \/ (disk[n] # Null /\ \E i \in Image : disk' = [disk EXCEPT ![n] = i])
  <2>1. ASSUME disk[n] # Null, NEW s \in Grown(disk[n]), NEW c \in Data, NEW m \in Time,
               disk' = [disk EXCEPT ![n] =
                   IF @.packed THEN [@ EXCEPT !.data = Garbage, !.mtime = m]
                   ELSE [data |-> c, packed |-> FALSE, size |-> s, mtime |-> m]]
        PROVE  \E i \in Image : disk' = [disk EXCEPT ![n] = i]
    <3>1. disk[n] \in Image
      BY <1>0, <2>1 DEF IInv, TypeOK
    <3>2. s \in SizeClass
      BY ConstantsAssumption DEF Grown
    <3>3. /\ [disk[n] EXCEPT !.data = Garbage, !.mtime = m] \in Image
          /\ [data |-> c, packed |-> FALSE, size |-> s, mtime |-> m] \in Image
      BY <3>1, <3>2 DEF Image
    <3> DEFINE i == IF disk[n].packed THEN [disk[n] EXCEPT !.data = Garbage, !.mtime = m]
                    ELSE [data |-> c, packed |-> FALSE, size |-> s, mtime |-> m]
    <3>4. i \in Image /\ disk' = [disk EXCEPT ![n] = i]
      BY <2>1, <3>3
    <3> HIDE DEF i
    <3> QED
      BY <3>4
  <2> QED
    BY <1>1, <2>1, Zenon DEF Pwrite
<1>6. \A m \in Name : disk[m] # Null =>
              \/ disk'[m] # Null /\ disk'[m].data = disk[m].data
              \/ \E p \in live : file[p].name = m /\ InUse(p)
  BY <1>0, <1>1, <1>2, <1>5, UsedChange
<1>7. CInv' /\ Opened' = Opened /\ Truncating' = Truncating
  BY <1>0, <1>a, <1>2, <1>3, <1>4, <1>6, EndKeeps
<1>8. CASE disk' = disk
  BY <1>7, <1>8, ContentsKept, FlatWork
<1>9. ASSUME disk[n] # Null, NEW i \in Image, disk' = [disk EXCEPT ![n] = i] PROVE Flat!Next
  <2>1. Contents' = [Contents EXCEPT ![n] = <<i.data, i.size>>] /\ <<i.data, i.size>> \in Content
    BY <1>0, <1>9, ContentsAt
  <2>2. Contents[n] # Null /\ Opened[d] = n /\ n # Null
    BY <1>0, <1>1, <1>2, <1>9, ContentsThere, ConstantsAssumption DEF Opened
  <2> QED
    BY <1>3, <1>7, <2>1, <2>2, FlatWrite
<1> QED
  BY <1>5, <1>7, <1>8, <1>9

-----------------------------------------------------------------------------
(* Handlers on a descriptor *)

LEMMA DescKeeps ==
    ASSUME CInv, IInv', NEW t \in Thread, NEW d \in Desc, NEW op \in {"read", "write"}, Usable(t, d, op),
           NEW pc \in {"pwrite", "readfail"}, thr' = thr \/ Later(t, d, pc, op),
           database' = database, live' = live, bg' = bg,
           \A p \in live : SameEntry(p),
           \A x \in Desc : desc'[x].file = desc[x].file,
           \A n \in Name : disk[n] # Null =>
              \/ disk'[n] # Null /\ disk'[n].data = disk[n].data
              \/ \E o \in live : file[o].name = n /\ InUse(o)
    PROVE  CInv' /\ Opened' = Opened /\ Truncating' = Truncating
<1> DEFINE r == Working(d, pc, op)
<1>1. thr[t] = Idle /\ Idle.pc = "idle" /\ Idle.op = "none" /\ Idle.from = Null
  BY UsableFacts DEF CInv, Idle
<1>2. r.pc = pc /\ r.op = op /\ r.from = Null
  BY DEF Working, Idle
<1>3. thr' = thr \/ thr' = [thr EXCEPT ![t] = r]
  BY DEF Later, Working
<1> HIDE DEF r
<1>4. thr'[t] \in {Idle, r} /\ \A u \in Thread \ {t} : thr'[u] = thr[u]
  BY <1>1, <1>3 DEF CInv, IInv, TypeOK
<1>5. /\ thr'[t].pc \in {"idle", "pwrite", "readfail"} /\ thr'[t].op \in {"none", "read", "write"}
      /\ thr'[t].from = Null
  BY <1>1, <1>2, <1>4
<1>6. Kept(t)' = {}
  BY <1>5 DEF Kept
<1>7. CInv'
  BY <1>4, <1>5, <1>6, HandlerKeeps DEF Renames
<1>8. Opened' = Opened
  BY OpenedKept DEF CInv, SameEntry
<1> QED
  BY <1>1, <1>4, <1>5, <1>7, <1>8, TruncatingKept

LEMMA WriteChosenStatus ==
    ASSUME NEW f \in FileRec, NEW g \in WriteChosen(f)
    PROVE  g.status = f.status
<1>1. PICK c \in {f.compressor, f.name \in Compressible} :
         g = [Discard(f) EXCEPT !.dontcompress = TRUE, !.compressor = c]
  BY Zenon DEF WriteChosen
<1>2. Discard(f) \in FileRec /\ Discard(f).status = f.status
  BY DiscardKeeps, SmallKeeps
<1> QED
  BY <1>1, <1>2 DEF FileRec

(* A read or a write that may decompress the file, and fails or not.        *)
LEMMA DecompressStep ==
    ASSUME CInv, IInv', NEW t \in Thread, NEW d \in Desc, NEW op \in {"read", "write"}, Usable(t, d, op),
           NEW pc \in {"pwrite", "readfail"}, thr' = thr \/ Later(t, d, pc, op),
           database' = database, live' = live, bg' = bg,
           NEW o \in live, o = desc[d].file,
           NEW f \in FileRec, f.name = file[o].name, f.status = file[o].status,
           NEW r, r = Outcome(FALSE, f, disk[f.name], "same") \/ r \in DoDecompress(o, f),
           disk' = [disk EXCEPT ![f.name] = r.i], desc' = Reopened(o, r.fd),
           file' = [file EXCEPT ![o] = r.f] \/ file' = [file EXCEPT ![o] = [r.f EXCEPT !.size = "unknown"]]
    PROVE  CInv' /\ Flat!Next
<1>1. /\ IInv /\ o \in Obj /\ file[o] \in FileRec /\ f.name \in Name
      /\ disk[f.name] \in Image \cup {Null}
  BY DEF CInv, IInv, TypeOK, TableLive, FileRec
<1>2. SameView(f, r) /\ GoodOutcome(f, r)
  <2>1. ASSUME r = Outcome(FALSE, f, disk[f.name], "same") PROVE SameView(f, r) /\ GoodOutcome(f, r)
    <3>1. PICK i : i = disk[f.name]
      OBVIOUS
    <3>2. SameView(f, Outcome(FALSE, f, i, "same"))
      BY <1>1, <3>1, OutcomeView
    <3>3. GoodOutcome(f, Outcome(FALSE, f, i, "same"))
      BY <1>1, <3>1, OutcomeGood
    <3> QED
      BY <2>1, <3>1, <3>2, <3>3, Zenon
  <2>2. ASSUME r \in DoDecompress(o, f) PROVE SameView(f, r) /\ GoodOutcome(f, r)
    BY <1>1, <2>2, DoDecompressGood, DoDecompressView
  <2> QED
    BY <2>1, <2>2, Zenon
<1>3. \A p \in live : SameEntry(p)
  <2> DEFINE Like(g) == g.name = file[o].name /\ g.status = file[o].status
  <2>1. Like(r.f) /\ Like([r.f EXCEPT !.size = "unknown"])
    BY <1>2 DEF SameView, GoodOutcome, FileRec
  <2>2. \E g : Like(g) /\ file' = [file EXCEPT ![o] = g]
    <3> HIDE DEF Like
    <3> QED
      BY <2>1
  <2> QED
    BY <1>1, <2>2, EntryUpdate
<1>4. \A x \in Desc : desc'[x].file = desc[x].file
  BY <1>1, <1>2, ReopenedKeeps DEF GoodOutcome
<1>5. /\ Contents' = Contents
      /\ \A m \in Name : disk[m] # Null => disk'[m] # Null /\ disk'[m].data = disk[m].data
  <2>0. PICK i : i = r.i
    OBVIOUS
  <2>1. PICK n \in Name : n = f.name /\ i = r.i
    BY <1>1, <2>0
  <2>2. disk' = [disk EXCEPT ![n] = i]
    BY <2>1
  <2>3. IF disk[n] = Null THEN i = Null
        ELSE i \in Image /\ i.data = disk[n].data /\ i.size = disk[n].size
    BY <1>2, <2>1 DEF SameView
  <2> QED
    BY <1>1, <2>2, <2>3, ViewChange
<1>6. CInv' /\ Opened' = Opened /\ Truncating' = Truncating
  BY <1>3, <1>4, <1>5, DescKeeps
<1> QED
  BY <1>5, <1>6, FlatWork

LEMMA ReadKeeps ==
    ASSUME CInv, NEW t \in Thread, NEW d \in Desc, Read(t, d)
    PROVE  CInv' /\ Flat!Next
<1>0. IInv' /\ IInv
  BY ReadInv DEF CInv
<1>1. Usable(t, d, "read")
  BY DEF Read
<1>2. PICK o \in live : o = desc[d].file
  BY <1>0, <1>1, UsableFacts
<1>3. file[o] \in FileRec
  BY <1>0, <1>1, <1>2, UsableFacts
<1>4. PICK r : /\ \/ r = Outcome(FALSE, file[desc[d].file], disk[file[desc[d].file].name], "same")
                  \/ r \in DoDecompress(desc[d].file, file[desc[d].file])
               /\ disk' = [disk EXCEPT ![file[desc[d].file].name] = r.i]
               /\ desc' = Reopened(desc[d].file, r.fd)
               /\ IF r.ok THEN /\ file' = [file EXCEPT ![desc[d].file] = [r.f EXCEPT !.size = "unknown"]]
                               /\ UNCHANGED thr
                          ELSE /\ file' = [file EXCEPT ![desc[d].file] = r.f]
                               /\ Later(t, d, "readfail", "read")
  BY DEF Read
<1>5. PICK f \in FileRec : f = file[o]
  BY <1>3
<1>6. /\ r = Outcome(FALSE, f, disk[f.name], "same") \/ r \in DoDecompress(o, f)
      /\ f.name = file[o].name /\ f.status = file[o].status
      /\ disk' = [disk EXCEPT ![f.name] = r.i] /\ desc' = Reopened(o, r.fd)
      /\ file' = [file EXCEPT ![o] = r.f] \/ file' = [file EXCEPT ![o] = [r.f EXCEPT !.size = "unknown"]]
      /\ thr' = thr \/ Later(t, d, "readfail", "read")
  BY <1>2, <1>4, <1>5
<1>7. database' = database /\ live' = live /\ bg' = bg
  BY Zenon DEF Read
<1> QED
  BY <1>0, <1>1, <1>2, <1>5, <1>6, <1>7, DecompressStep

LEMMA WriteFallbackKeeps ==
    ASSUME CInv, NEW t \in Thread, NEW d \in Desc, WriteFallback(t, d)
    PROVE  CInv' /\ Flat!Next
<1>0. IInv' /\ IInv
  BY WriteFallbackInv DEF CInv
<1>1. Usable(t, d, "write")
  BY DEF WriteFallback
<1>2. PICK o \in live : o = desc[d].file
  BY <1>0, <1>1, UsableFacts
<1>3. file[o] \in FileRec
  BY <1>0, <1>1, <1>2, UsableFacts
<1>4. PICK f \in WriteChosen(file[o]) :
         \E r : /\ r = Outcome(FALSE, f, disk[f.name], "same") \/ r \in DoDecompress(o, f)
                /\ disk' = [disk EXCEPT ![f.name] = r.i]
                /\ desc' = Reopened(o, r.fd)
                /\ file' = [file EXCEPT ![o] = [r.f EXCEPT !.size = "unknown"]]
                /\ thr' = thr \/ Later(t, d, "pwrite", "write")
  BY <1>2 DEF WriteFallback
<1>5. f \in FileRec /\ f.name = file[o].name /\ f.status = file[o].status
  BY <1>3, WriteChosenKeeps, WriteChosenStatus
<1>6. database' = database /\ live' = live /\ bg' = bg
  BY Zenon DEF WriteFallback
<1>7. PICK r : /\ r = Outcome(FALSE, f, disk[f.name], "same") \/ r \in DoDecompress(o, f)
               /\ disk' = [disk EXCEPT ![f.name] = r.i]
               /\ desc' = Reopened(o, r.fd)
               /\ file' = [file EXCEPT ![o] = [r.f EXCEPT !.size = "unknown"]]
               /\ thr' = thr \/ Later(t, d, "pwrite", "write")
  BY <1>4
<1> QED
  BY <1>0, <1>1, <1>2, <1>5, <1>6, <1>7, DecompressStep

LEMMA WriteRawKeeps ==
    ASSUME CInv, NEW t \in Thread, NEW d \in Desc, WriteRaw(t, d)
    PROVE  CInv' /\ Flat!Next
<1>0. IInv' /\ IInv
  BY WriteRawInv DEF CInv
<1>1. Usable(t, d, "write")
  BY DEF WriteRaw
<1>2. PICK o \in live : o = desc[d].file /\ o \in Obj /\ file[o] \in FileRec
  BY <1>0, <1>1, UsableFacts
<1>3. PICK f \in WriteChosen(file[o]) : file' = [file EXCEPT ![o] = f]
  BY <1>2, Zenon DEF WriteRaw
<1>4. f.name = file[o].name /\ f.status = file[o].status
  BY <1>2, WriteChosenKeeps, WriteChosenStatus
<1>5. \A p \in live : SameEntry(p)
  BY <1>0, <1>2, <1>3, <1>4, EntryUpdate
<1>6. /\ database' = database /\ live' = live /\ bg' = bg /\ desc' = desc /\ disk' = disk
      /\ Later(t, d, "pwrite", "write")
  BY Zenon DEF WriteRaw
<1>7. CInv' /\ Opened' = Opened /\ Truncating' = Truncating
  BY <1>0, <1>1, <1>5, <1>6, DescKeeps
<1> QED
  BY <1>6, <1>7, ContentsKept, FlatWork

LEMMA WriteAppendKeeps ==
    ASSUME CInv, NEW t \in Thread, NEW d \in Desc, WriteAppend(t, d)
    PROVE  CInv' /\ Flat!Next
<1>0. IInv' /\ IInv
  BY WriteAppendInv DEF CInv
<1>1. Usable(t, d, "write")
  BY Zenon DEF WriteAppend
<1>2a. PICK o \in live : o = desc[d].file /\ o \in Obj /\ file[o] \in FileRec /\ file[o].name \in Name
  BY <1>0, <1>1, UsableFacts
<1>2b. PICK n \in Name : n = file[o].name
  BY <1>2a
<1>2. o = desc[d].file /\ o \in Obj /\ file[o] \in FileRec /\ n = file[o].name
  BY <1>2a, <1>2b
<1>3. InUse(o) /\ o # Null
  BY <1>2, ConstantsAssumption DEF InUse
<1>4a. PICK f \in WriteChosen(file[desc[d].file]), s \in Sizes \ {"empty"} :
         \/ /\ disk[file[desc[d].file].name] # Null
            /\ \E i \in Appended(disk[file[desc[d].file].name], s) :
                   disk' = [disk EXCEPT ![file[desc[d].file].name] = i]
            /\ file' = [file EXCEPT ![desc[d].file] = [f EXCEPT !.size = s]]
         \/ /\ disk[file[desc[d].file].name] # Null
            /\ disk' = [disk EXCEPT ![file[desc[d].file].name].data = Garbage,
                                    ![file[desc[d].file].name].packed = TRUE]
            /\ file' = [file EXCEPT ![desc[d].file] = [f EXCEPT !.size = "unknown"]]
         \/ /\ UNCHANGED disk
            /\ file' = [file EXCEPT ![desc[d].file] = [f EXCEPT !.size = s]]
  BY Zenon DEF WriteAppend
<1>4. /\ f \in WriteChosen(file[o]) /\ s \in Sizes \ {"empty"}
      /\ \/ /\ disk[n] # Null
            /\ \E i \in Appended(disk[n], s) : disk' = [disk EXCEPT ![n] = i]
            /\ file' = [file EXCEPT ![o] = [f EXCEPT !.size = s]]
         \/ /\ disk[n] # Null
            /\ disk' = [disk EXCEPT ![n].data = Garbage, ![n].packed = TRUE]
            /\ file' = [file EXCEPT ![o] = [f EXCEPT !.size = "unknown"]]
         \/ /\ UNCHANGED disk
            /\ file' = [file EXCEPT ![o] = [f EXCEPT !.size = s]]
  BY <1>2, <1>4a, Zenon
<1>5. f \in FileRec /\ f.name = file[o].name /\ f.status = file[o].status
  <2>1. PICK h \in FileRec : h = file[o]
    BY <1>2
  <2>2. f \in WriteChosen(h)
    BY <1>4, <2>1, Zenon
  <2>3. f \in FileRec /\ f.name = h.name /\ f.status = h.status
    BY <2>2, WriteChosenKeeps, WriteChosenStatus
  <2> QED
    BY <2>1, <2>3
<1>6. \A p \in live : SameEntry(p)
  <2> DEFINE Like(g) == g.name = file[o].name /\ g.status = file[o].status
  <2>1. Like([f EXCEPT !.size = s]) /\ Like([f EXCEPT !.size = "unknown"])
    BY <1>5 DEF FileRec
  <2>2. \E g : Like(g) /\ file' = [file EXCEPT ![o] = g]
    <3> HIDE DEF Like
    <3> QED
      BY <1>4, <2>1, Zenon
  <2> QED
    BY <1>0, <1>2, <2>2, EntryUpdate
<1>7. /\ database' = database /\ live' = live /\ bg' = bg /\ desc' = desc /\ thr' = thr
  BY Zenon DEF WriteAppend
<1>8. disk' = disk \/ (disk[n] # Null /\ \E i \in Image : disk' = [disk EXCEPT ![n] = i])
  <2>0. disk[n] # Null => disk[n] \in Image
    BY <1>0 DEF IInv, TypeOK
  <2>1. ASSUME disk[n] # Null, NEW i \in Appended(disk[n], s) PROVE i \in Image
    <3>1. PICK c \in Data \cup {Garbage}, m \in Time :
             i = [data |-> c, packed |-> TRUE, size |-> s, mtime |-> m]
      BY <2>1 DEF Appended
    <3>2. s \in SizeClass
      BY <1>4, ConstantsAssumption
    <3> QED
      BY <3>1, <3>2 DEF Image
  <2>2. CASE disk[n] # Null /\ \E i \in Appended(disk[n], s) : disk' = [disk EXCEPT ![n] = i]
    BY <2>1, <2>2
  <2>3. CASE disk[n] # Null /\ disk' = [disk EXCEPT ![n].data = Garbage, ![n].packed = TRUE]
    <3> DEFINE i == [[disk[n] EXCEPT !.data = Garbage] EXCEPT !.packed = TRUE]
    <3>1. i \in Image
      BY <2>0, <2>3, Zenon DEF Image
    <3>2. disk' = [disk EXCEPT ![n] = i]
      BY <1>0, <2>3, Zenon DEF IInv, TypeOK
    <3> HIDE DEF i
    <3> QED
      BY <2>3, <3>1, <3>2
  <2> QED
    BY <1>4, <2>2, <2>3, Zenon
<1>9. \A m \in Name : disk[m] # Null =>
              \/ disk'[m] # Null /\ disk'[m].data = disk[m].data
              \/ \E p \in live : file[p].name = m /\ InUse(p)
  BY <1>0, <1>2, <1>3, <1>8, UsedChange
<1>10. CInv' /\ Opened' = Opened /\ Truncating' = Truncating
  BY <1>0, <1>1, <1>6, <1>7, <1>9, DescKeeps
<1>11. CASE disk' = disk
  BY <1>10, <1>11, ContentsKept, FlatWork
<1>12. ASSUME disk[n] # Null, NEW i \in Image, disk' = [disk EXCEPT ![n] = i] PROVE Flat!Next
  <2>1. Contents' = [Contents EXCEPT ![n] = <<i.data, i.size>>] /\ <<i.data, i.size>> \in Content
    BY <1>0, <1>12, ContentsAt
  <2>2. Contents[n] # Null /\ Opened[d] = n /\ n # Null
    BY <1>0, <1>2, <1>3, <1>12, ContentsThere, ConstantsAssumption DEF Opened
  <2> QED
    BY <1>7, <1>10, <2>1, <2>2, FlatWrite
<1> QED
  BY <1>8, <1>10, <1>11, <1>12

LEMMA ReleaseKeeps ==
    ASSUME CInv, NEW t \in Thread, NEW d \in Desc, Release(t, d)
    PROVE  CInv' /\ Flat!Next
<1>0. IInv' /\ IInv
  BY ReleaseInv DEF CInv
<1>1. Usable(t, d, "release")
  BY DEF Release
<1>2. PICK o \in live : o = desc[d].file /\ o \in Obj /\ file[o] \in FileRec
  BY <1>0, <1>1, UsableFacts
<1>3. thr[t] = Idle /\ o # Null /\ file[o].name \in Name
  BY <1>0, <1>1, <1>2, UsableFacts, ConstantsAssumption
<1>4. \A p \in live : SameEntry(p)
  <2> DEFINE f == IF file[o].compressor THEN DirectClose(file[o]) ELSE file[o]
             g == [f EXCEPT !.accesses = @ - 1]
  <2>1. f.name = file[o].name /\ f.status = file[o].status /\ f \in FileRec
    BY <1>2, SmallKeeps, DirectCloseKeeps
  <2>2. file' = [file EXCEPT ![o] = g]
    BY <1>2 DEF Release
  <2>3. g.name = file[o].name /\ g.status = file[o].status
    <3> HIDE DEF f
    <3> QED
      BY <2>1 DEF FileRec
  <2> HIDE DEF g
  <2> QED
    BY <1>0, <1>2, <2>2, <2>3, EntryUpdate
<1>5. /\ database' = database /\ live' = live /\ bg' = bg /\ disk' = disk /\ thr' = thr
      /\ desc' = [desc EXCEPT ![d] = Closed]
  BY Zenon DEF Release
<1>6. Closed.file = Null /\ Idle.pc = "idle" /\ Idle.op = "none" /\ Idle.from = Null
  BY DEF Closed, Idle
<1>7. desc'[d].file = Null /\ \A x \in Desc \ {d} : desc'[x] = desc[x]
  BY <1>0, <1>5, <1>6 DEF IInv, TypeOK
<1>8. Kept(t)' = {}
  BY <1>3, <1>5, <1>6 DEF Kept
<1>9. CInv'
  BY <1>0, <1>3, <1>4, <1>5, <1>6, <1>7, <1>8, HandlerKeeps DEF Renames
<1>10. Truncating' = Truncating
  BY <1>5 DEF Truncating
<1>11. Opened[d] # Null /\ Opened' = [Opened EXCEPT ![d] = Null]
  <2>1. \A x \in Desc : desc[x].file \in live \cup {Null}
    BY <1>0 DEF IInv, ReferencesLive
  <2>2. \A x \in Desc \ {d} : /\ desc'[x].file = desc[x].file
                              /\ desc[x].file # Null => file'[desc[x].file].name = file[desc[x].file].name
    BY <1>4, <1>7, <2>1 DEF SameEntry
  <2>3. Opened[d] # Null
    BY <1>2, <1>3, ConstantsAssumption DEF Opened
  <2> QED
    BY <1>7, <2>2, <2>3 DEF Opened
<1> QED
  BY <1>5, <1>9, <1>10, <1>11, ContentsKept, FlatClose

-----------------------------------------------------------------------------
(* The way to the entry: calls, look-ups, waits, and the halves of rename   *)

(* One thread goes on; entries keep name and status, or are cancelled.      *)
LEMMA MoveKeeps ==
    ASSUME CInv, IInv', NEW t \in Thread, NEW r, thr' = [thr EXCEPT ![t] = r],
           database' = database, live' = live, bg' = bg, desc' = desc, disk' = disk,
           \A p \in live : SameEntry(p),
           r.from = Null \/ InUse(r.from),
           r.pc \in {"relock1", "relock2"} => InUse(r.file),
           r.pc = "locked" /\ Stabile(r.op) => ~Busy(file[r.file]),
           r.pc = "purge" => Missing(r.name),
           r.op \in {"rename1", "rename2"} => Renames(t) \/ \A u \in Thread \ {t} : ~Renames(u)
    PROVE  /\ CInv' /\ Opened' = Opened /\ Contents' = Contents
           /\ r.op # "truncate" /\ thr[t].op # "truncate" => Truncating' = Truncating
           /\ r.op = thr[t].op /\ r.name = thr[t].name => Truncating' = Truncating
<1>1. thr'[t] = r /\ \A u \in Thread \ {t} : thr'[u] = thr[u]
  BY DEF CInv, IInv, TypeOK
<1>2. \A o \in Kept(t)' : InUse(o)
  BY <1>1 DEF Kept
<1>3. CInv'
  BY <1>1, <1>2, HandlerKeeps DEF Renames
<1>4. Opened' = Opened
  BY OpenedKept DEF CInv, SameEntry
<1>5. r.op # "truncate" /\ thr[t].op # "truncate" => Truncating' = Truncating
  BY <1>1, TruncatingKept
<1>6. r.op = thr[t].op /\ r.name = thr[t].name => Truncating' = Truncating
  BY <1>1, TruncatingKept
<1> QED
  BY <1>3, <1>4, <1>5, <1>6, ContentsKept

LEMMA CallKeeps ==
    ASSUME CInv, NEW t \in Thread, NEW op, NEW n \in Name, NEW m, Called(op, n, m), Call(t, op, n, m)
    PROVE  CInv' /\ Flat!Next
<1>0. IInv' /\ IInv
  BY CallInv DEF CInv
<1>1. thr[t] = Idle /\ Idle.op = "none"
  BY <1>0 DEF Call, IInv, Control, ControlOf, Idle
<1> DEFINE r == Scanning(op, n, m)
<1>2. r.pc = "scan" /\ r.op = op /\ r.name = n /\ r.other = m /\ r.from = Null
  BY DEF Scanning, Idle
<1>3. /\ thr' = [thr EXCEPT ![t] = r] /\ PathFree(t, op, {n, m} \ {Null})
      /\ database' = database /\ live' = live /\ bg' = bg /\ desc' = desc /\ disk' = disk /\ file' = file
  BY DEF Call, Scanning
<1> HIDE DEF r
<1>4. op # "rename2"
  BY DEF Called
<1>5. r.op \in {"rename1", "rename2"} => \A u \in Thread \ {t} : ~Renames(u)
  BY <1>2, <1>3, <1>4 DEF PathFree, Renames
<1>6. /\ CInv' /\ Opened' = Opened /\ Contents' = Contents
      /\ r.op # "truncate" /\ thr[t].op # "truncate" => Truncating' = Truncating
  BY <1>0, <1>2, <1>3, <1>5, MoveKeeps DEF SameEntry
<1>7. CASE op # "truncate"
  BY <1>1, <1>2, <1>6, <1>7, FlatWork
<1>8. CASE op = "truncate"
  <2>1. n # Null
    BY ConstantsAssumption
  <2>2. \A u \in Thread : thr[u].op = "truncate" => u # t /\ thr[u].name # n
    BY <1>1, <1>3, <1>8, <2>1 DEF PathFree, Compatible, Modifying
  <2>3. thr'[t] = r /\ \A u \in Thread \ {t} : thr'[u] = thr[u]
    BY <1>0, <1>3 DEF IInv, TypeOK
  <2>4. n \notin Truncating /\ Truncating' = Truncating \cup {n}
    BY <1>2, <1>8, <2>2, <2>3 DEF Truncating
  <2> QED
    BY <1>3, <1>6, <2>4, FlatBeginTruncate
<1> QED
  BY <1>6, <1>7, <1>8

LEMMA LstatKeeps ==
    ASSUME CInv, NEW t \in Thread, NEW n \in Name, Lstat(t, n)
    PROVE  CInv' /\ Flat!Next
<1>0. IInv' /\ IInv
  BY LstatInv DEF CInv
<1>1. thr[t] = Idle /\ Idle.op = "none"
  BY <1>0 DEF Lstat, IInv, Control, ControlOf, Idle
<1> DEFINE r == Statting(n)
<1>2. r.pc = "stat" /\ r.op = "getattr" /\ r.from = Null
  BY DEF Statting, Idle
<1>3. /\ thr' = [thr EXCEPT ![t] = r]
      /\ database' = database /\ live' = live /\ bg' = bg /\ desc' = desc /\ disk' = disk /\ file' = file
  BY DEF Lstat, Statting
<1> HIDE DEF r
<1>4. CInv' /\ Opened' = Opened /\ Contents' = Contents /\ Truncating' = Truncating
  BY <1>0, <1>1, <1>2, <1>3, MoveKeeps DEF SameEntry
<1> QED
  BY <1>4, FlatWork

(* A rename that is under way keeps the entries it came by in use.          *)
LEMMA KeptInUse ==
    ASSUME IInv, NEW t \in Thread
    PROVE  /\ thr[t].from = Null \/ InUse(thr[t].from)
           /\ thr[t].pc \in {"relock1", "relock2"} => InUse(thr[t].file)
<1>1. thr[t].pc \in {"relock1", "relock2"} => thr[t].file # Null
  BY ConstantsAssumption DEF IInv, Control, ControlOf, TypeOK
<1> QED
  BY <1>1 DEF InUse, Kept

LEMMA LockDatabaseKeeps ==
    ASSUME CInv, NEW t \in Thread, LockDatabase(t)
    PROVE  CInv' /\ Flat!Next
<1>0. IInv' /\ IInv
  BY LockDatabaseInv DEF CInv
<1> DEFINE r == [thr[t] EXCEPT !.pc = "scan"]
<1>1. r.pc = "scan" /\ r.op = thr[t].op /\ r.name = thr[t].name /\ r.from = thr[t].from
  BY <1>0 DEF IInv, TypeOK, ThreadRec
<1>2. /\ thr' = [thr EXCEPT ![t] = r]
      /\ database' = database /\ live' = live /\ bg' = bg /\ desc' = desc /\ disk' = disk /\ file' = file
  BY DEF LockDatabase
<1> HIDE DEF r
<1>3. r.from = Null \/ InUse(r.from)
  BY <1>0, <1>1, KeptInUse
<1>4. CInv' /\ Opened' = Opened /\ Contents' = Contents /\ Truncating' = Truncating
  BY <1>0, <1>1, <1>2, <1>3, MoveKeeps DEF SameEntry, Renames
<1> QED
  BY <1>4, FlatWork

LEMMA DirectOpenPurgeKeeps ==
    ASSUME CInv, NEW t \in Thread, DirectOpenPurge(t)
    PROVE  CInv' /\ Flat!Next
<1>0. IInv' /\ IInv
  BY DirectOpenPurgeInv DEF CInv
<1> DEFINE r == [[thr[t] EXCEPT !.pc = "purge"] EXCEPT !.walk = database]
<1>1. r.pc = "purge" /\ r.op = thr[t].op /\ r.name = thr[t].name /\ r.from = thr[t].from
  BY <1>0 DEF IInv, TypeOK, ThreadRec
<1>2. /\ thr' = [thr EXCEPT ![t] = r] /\ Missing(thr[t].name)
      /\ database' = database /\ live' = live /\ bg' = bg /\ desc' = desc /\ disk' = disk /\ file' = file
  BY <1>0 DEF DirectOpenPurge, IInv, TypeOK
<1> HIDE DEF r
<1>3. r.from = Null \/ InUse(r.from)
  BY <1>0, <1>1, KeptInUse
<1>4. CInv' /\ Opened' = Opened /\ Contents' = Contents /\ Truncating' = Truncating
  BY <1>0, <1>1, <1>2, <1>3, MoveKeeps DEF SameEntry, Renames
<1> QED
  BY <1>4, FlatWork

LEMMA LockOrWaitKeeps ==
    ASSUME CInv, IInv', NEW t \in Thread, NEW o \in live, NEW f \in FileRec,
           f.name = file[o].name, f.status = file[o].status, LockOrWait(t, o, f),
           live' = live, database' = database, bg' = bg, desc' = desc, disk' = disk
    PROVE  CInv' /\ Flat!Next
<1> DEFINE g == IF Stabile(thr[t].op) /\ Busy(f) THEN [f EXCEPT !.status = @ \cup {"CANCEL"}] ELSE f
           pc == IF Stabile(thr[t].op) /\ Busy(f) THEN "wait" ELSE "locked"
           r == [[thr[t] EXCEPT !.pc = pc] EXCEPT !.file = o]
<1>0. IInv /\ o \in Obj /\ thr[t] \in ThreadRec
  BY DEF CInv, IInv, TypeOK
<1>1. Busy(f) <=> Busy(file[o])
  BY DEF Busy
<1>2. /\ pc \in {"wait", "locked"}
      /\ pc = "locked" /\ Stabile(thr[t].op) => ~Busy(file[o])
  BY <1>1
<1>3. /\ g.name = file[o].name
      /\ g.status = file[o].status \/ (Busy(file[o]) /\ g.status = file[o].status \cup {"CANCEL"})
  BY <1>1 DEF FileRec
<1>4. thr' = [thr EXCEPT ![t] = r] /\ file' = [file EXCEPT ![o] = g]
  BY <1>0 DEF LockOrWait, CInv, IInv, TypeOK
<1>5. r.pc = pc /\ r.file = o /\ r.op = thr[t].op /\ r.name = thr[t].name /\ r.from = thr[t].from
  <2> HIDE DEF pc
  <2> DEFINE r1 == [thr[t] EXCEPT !.pc = pc]
  <2>1. /\ r1 \in [DOMAIN thr[t] -> {r1[x] : x \in DOMAIN thr[t]}]
        /\ r1.pc = pc /\ r1.op = thr[t].op /\ r1.name = thr[t].name /\ r1.from = thr[t].from
    BY <1>0 DEF ThreadRec
  <2> QED
    BY <1>0 DEF ThreadRec
<1> HIDE DEF g, pc, r
<1>6. \A p \in live : SameEntry(p)
  BY <1>0, <1>3, <1>4 DEF SameEntry, IInv, TypeOK
<1>7. r.from = Null \/ InUse(r.from)
  BY <1>0, <1>5, KeptInUse
<1>8. CInv' /\ Opened' = Opened /\ Contents' = Contents /\ Truncating' = Truncating
  BY <1>0, <1>2, <1>4, <1>5, <1>6, <1>7, MoveKeeps DEF Renames
<1> QED
  BY <1>8, FlatWork

LEMMA DirectOpenHitKeeps ==
    ASSUME CInv, NEW t \in Thread, NEW o \in Obj, DirectOpenHit(t, o)
    PROVE  CInv' /\ Flat!Next
<1>0. IInv' /\ IInv
  BY DirectOpenHitInv DEF CInv
<1> DEFINE f == [file[o] EXCEPT !.deleted = FALSE]
<1>1. o \in live /\ file[o] \in FileRec
  BY <1>0 DEF IInv, TableLive, DirectOpenHit
<1>2. f \in FileRec /\ f.status = file[o].status /\ f.name = file[o].name
  BY <1>1 DEF FileRec
<1>3. LockOrWait(t, o, f)
  BY DEF DirectOpenHit
<1> HIDE DEF f
<1> QED
  BY <1>0, <1>1, <1>2, <1>3, LockOrWaitKeeps DEF DirectOpenHit

LEMMA RewakeKeeps ==
    ASSUME CInv, NEW t \in Thread, Rewake(t)
    PROVE  CInv' /\ Flat!Next
<1>0. IInv' /\ IInv
  BY RewakeInv DEF CInv
<1> DEFINE o == thr[t].file
<1>1. o \in live /\ file[o] \in FileRec
  BY <1>0 DEF IInv, TableLive, Rewake
<1>2. LockOrWait(t, o, file[o])
  BY DEF Rewake
<1> QED
  BY <1>0, <1>1, <1>2, LockOrWaitKeeps DEF Rewake

LEMMA RenameKeepFromKeeps ==
    ASSUME CInv, NEW t \in Thread, RenameKeepFrom(t)
    PROVE  CInv' /\ Flat!Next
<1>0. IInv' /\ IInv
  BY RenameKeepFromInv DEF CInv
<1>1. PICK o \in live : o = thr[t].file
  BY <1>0, Holding DEF RenameKeepFrom
<1>2. /\ thr[t].op = "rename1" /\ file[o] \in FileRec /\ o \in Obj /\ InUse(o)
      /\ thr[t].name \in Name /\ thr[t].other \in Name
  BY <1>0, <1>1, Holding, HeldInUse DEF RenameKeepFrom, Holds, IInv, Control, ControlOf
<1> DEFINE r == Keeping(o, thr[t].other, thr[t].name)
           g == [file[o] EXCEPT !.accesses = @ + 1]
<1>3. r.pc = "stat" /\ r.op = "rename2" /\ r.from = o
  BY <1>2, KeepingFields
<1>4. /\ thr' = [thr EXCEPT ![t] = r] /\ file' = [file EXCEPT ![o] = g]
      /\ database' = database /\ live' = live /\ bg' = bg /\ desc' = desc /\ disk' = disk
  BY <1>1, Zenon DEF RenameKeepFrom, Keeping
<1>5. g.name = file[o].name /\ g.status = file[o].status
  BY <1>2 DEF FileRec
<1> HIDE DEF r, g
<1>6. \A p \in live : SameEntry(p)
  BY <1>0, <1>2, <1>4, <1>5, EntryUpdate
<1>7. CInv' /\ Opened' = Opened /\ Contents' = Contents /\ Truncating' = Truncating
  BY <1>0, <1>2, <1>3, <1>4, <1>6, MoveKeeps DEF Renames
<1> QED
  BY <1>7, FlatWork

LEMMA RenameKeepToKeeps ==
    ASSUME CInv, NEW t \in Thread, RenameKeepTo(t)
    PROVE  CInv' /\ Flat!Next
<1>0. IInv' /\ IInv
  BY RenameKeepToInv DEF CInv
<1>1. Holds(t, "rename2") /\ thr[t].pc = "locked" /\ thr[t].op = "rename2" /\ thr[t] \in ThreadRec
  BY <1>0 DEF RenameKeepTo, Holds, IInv, TypeOK
<1>2. PICK o \in live : o = thr[t].file
  BY <1>0, <1>1 DEF IInv, Control, ControlOf
<1>3. file[o] \in FileRec /\ o \in Obj /\ InUse(o)
  BY <1>0, <1>1, <1>2, HeldInUse DEF IInv, TableLive, TypeOK
<1> DEFINE r == [thr[t] EXCEPT !.pc = "relock1"]
           g == [file[o] EXCEPT !.accesses = @ + 1]
<1>4. r.pc = "relock1" /\ r.op = "rename2" /\ r.from = thr[t].from /\ r.file = o
  BY <1>1, <1>2 DEF ThreadRec
<1>5. /\ thr' = [thr EXCEPT ![t] = r] /\ file' = [file EXCEPT ![o] = g]
      /\ database' = database /\ live' = live /\ bg' = bg /\ desc' = desc /\ disk' = disk
  BY <1>2 DEF RenameKeepTo
<1>6. g.name = file[o].name /\ g.status = file[o].status
  BY <1>3 DEF FileRec
<1> HIDE DEF r, g
<1>7. \A p \in live : SameEntry(p)
  BY <1>0, <1>3, <1>5, <1>6, EntryUpdate
<1>8. r.from = Null \/ InUse(r.from)
  BY <1>0, <1>4, KeptInUse
<1>9. CInv' /\ Opened' = Opened /\ Contents' = Contents /\ Truncating' = Truncating
  BY <1>0, <1>1, <1>3, <1>4, <1>5, <1>7, <1>8, MoveKeeps DEF Renames
<1> QED
  BY <1>9, FlatWork

LEMMA RenameLockFromKeeps ==
    ASSUME CInv, NEW t \in Thread, RenameLockFrom(t)
    PROVE  CInv' /\ Flat!Next
<1>0. IInv' /\ IInv
  BY RenameLockFromInv DEF CInv
<1>1. thr[t].pc = "relock1" /\ thr[t] \in ThreadRec
  BY <1>0 DEF RenameLockFrom, IInv, TypeOK
<1> DEFINE r == [thr[t] EXCEPT !.pc = "relock2"]
<1>2. /\ r.pc = "relock2" /\ r.op = thr[t].op /\ r.name = thr[t].name /\ r.from = thr[t].from
      /\ r.file = thr[t].file
  BY <1>1 DEF ThreadRec
<1>3. /\ thr' = [thr EXCEPT ![t] = r]
      /\ database' = database /\ live' = live /\ bg' = bg /\ desc' = desc /\ disk' = disk /\ file' = file
  BY DEF RenameLockFrom
<1> HIDE DEF r
<1>4. (r.from = Null \/ InUse(r.from)) /\ InUse(r.file)
  BY <1>0, <1>1, <1>2, KeptInUse
<1>5. CInv' /\ Opened' = Opened /\ Contents' = Contents /\ Truncating' = Truncating
  BY <1>0, <1>2, <1>3, <1>4, MoveKeeps DEF SameEntry, Renames
<1> QED
  BY <1>5, FlatWork

-----------------------------------------------------------------------------
(* The table grows and shrinks *)

LEMMA DirectNewFileKeeps ==
    ASSUME CInv, NEW t \in Thread, NEW o \in Obj, DirectNewFile(t, o)
    PROVE  CInv' /\ Flat!Next
<1>0. IInv' /\ IInv
  BY DirectNewFileInv DEF CInv
<1>1. /\ thr[t].pc \in {"scan", "purge"} /\ o \notin live
      /\ database' = database \cup {o} /\ live' = live \cup {o}
      /\ bg' = bg /\ desc' = desc /\ disk' = disk
  BY DEF DirectNewFile
<1>2. Missing(thr[t].name) /\ dbOwner = t
  BY <1>0, <1>1 DEF DirectNewFile, CInv, TableWhole, IInv, Control, ControlOf
<1>3. /\ file'[o].name = thr[t].name /\ file'[o].status = {}
      /\ \A p \in live : file'[p] = file[p]
  BY <1>0, <1>1 DEF DirectNewFile, IInv, TypeOK
<1>4. /\ thr'[t].pc = "locked" /\ thr'[t].file = o /\ thr'[t].op = thr[t].op /\ thr'[t].name = thr[t].name
      /\ thr'[t].from = thr[t].from /\ \A u \in Thread \ {t} : thr'[u] = thr[u]
  BY <1>0 DEF DirectNewFile, IInv, TypeOK, ThreadRec
<1>5. TableWhole'
  <2>1. \A u \in Thread \ {t} : thr[u].pc # "purge"
    BY <1>0, <1>2 DEF IInv, Control, ControlOf
  <2> QED
    BY <1>1, <1>4, <2>1 DEF CInv, TableWhole
<1>6. OneEntryPerName'
  BY <1>0, <1>1, <1>2, <1>3 DEF CInv, OneEntryPerName, IInv, TableLive, Missing
<1>7. UsedIsQuiet'
  <2>1. ASSUME NEW p \in live, InUse(p)' PROVE ~Busy(file'[p])
    <3>1. \A u \in Thread : Kept(u)' = Kept(u)
      BY <1>1, <1>4 DEF Kept
    <3>2. InUse(p)
      BY <1>1, <1>4, <2>1, <3>1 DEF InUse, Stabile
    <3> QED
      BY <1>3, <3>2 DEF CInv, UsedIsQuiet
  <2>2. ~Busy(file'[o])
    BY <1>3 DEF Busy
  <2> QED
    BY <1>1, <2>1, <2>2 DEF UsedIsQuiet, Busy
<1>8. bg.pc \in {"compressing", "hashing"} => bg.file \in live
  BY <1>0, Popped
<1>9. Marked'
  BY <1>1, <1>3, <1>8 DEF CInv, Marked, Busy
<1>10. OneRename'
  BY <1>4 DEF CInv, OneRename, Renames
<1>11. WorkFaithful'
  BY <1>1, <1>3, <1>8 DEF CInv, WorkFaithful
<1>12. CInv'
  BY <1>0, <1>5, <1>6, <1>7, <1>9, <1>10, <1>11 DEF CInv
<1>13. Opened' = Opened
  BY <1>0, <1>1, <1>3, OpenedKept
<1>14. Truncating' = Truncating
  BY <1>4, TruncatingKept
<1> QED
  BY <1>1, <1>12, <1>13, <1>14, ContentsKept, FlatWork

(* An entry that is looked at and stays, or is queued.                      *)
LEMMA PurgeStays ==
    ASSUME CInv, IInv', NEW t \in Thread, thr[t].pc = "purge", NEW o \in Obj,
           thr' = [thr EXCEPT ![t].walk = @ \ {o}],
           file' = file \/ file' = [file EXCEPT ![o].accesses = @ + 1], file[o] \in FileRec,
           database' = database, live' = live, bg' = bg, desc' = desc, disk' = disk
    PROVE  CInv' /\ Flat!Next
<1>0. IInv /\ thr[t] \in ThreadRec
  BY DEF CInv, IInv, TypeOK
<1> DEFINE r == [thr[t] EXCEPT !.walk = @ \ {o}]
           g == [file[o] EXCEPT !.accesses = @ + 1]
<1>1. r.pc = "purge" /\ r.op = thr[t].op /\ r.name = thr[t].name /\ r.from = thr[t].from
  BY <1>0 DEF ThreadRec
<1>2. thr' = [thr EXCEPT ![t] = r]
  OBVIOUS
<1>3. g.name = file[o].name /\ g.status = file[o].status
  BY DEF FileRec
<1>4. file' = file \/ file' = [file EXCEPT ![o] = g]
  OBVIOUS
<1> HIDE DEF r, g
<1>5. \A p \in live : SameEntry(p)
  <2>1. CASE file' = file
    BY <2>1 DEF SameEntry
  <2> QED
    BY <1>0, <1>3, <1>4, <2>1, EntryUpdate
<1>6. r.from = Null \/ InUse(r.from)
  BY <1>0, <1>1, KeptInUse
<1>7. Missing(r.name)
  BY <1>1 DEF CInv, TableWhole
<1>8. CInv' /\ Opened' = Opened /\ Contents' = Contents /\ Truncating' = Truncating
  BY <1>0, <1>1, <1>2, <1>5, <1>6, <1>7, MoveKeeps DEF Renames
<1> QED
  BY <1>8, FlatWork

(* An entry that is freed.                                                  *)
LEMMA PurgeFrees ==
    ASSUME CInv, IInv', NEW t \in Thread, thr[t].pc = "purge", NEW o \in live, file[o].accesses = 0,
           thr' = [thr EXCEPT ![t].walk = @ \ {o}], file' = [file EXCEPT ![o] = Null],
           database' = database \ {o}, live' = live \ {o}, bg' = bg, desc' = desc, disk' = disk
    PROVE  CInv' /\ Flat!Next
<1>0. IInv /\ thr[t] \in ThreadRec
  BY DEF CInv, IInv, TypeOK
<1>1. /\ thr'[t].pc = "purge" /\ thr'[t].op = thr[t].op /\ thr'[t].name = thr[t].name
      /\ thr'[t].from = thr[t].from /\ \A u \in Thread \ {t} : thr'[u] = thr[u]
  BY <1>0 DEF IInv, TypeOK, ThreadRec
<1>2. \A p \in live \ {o} : file'[p] = file[p]
  BY <1>0 DEF IInv, TypeOK
<1>3. bg.file # o /\ \A d \in Desc : desc[d].file # o
  BY <1>0, Unused DEF BgOf, DescOf
<1>4. TableWhole'
  <2>1. \A u \in Thread : thr'[u].pc = "purge" => Missing(thr'[u].name)
    BY <1>1 DEF CInv, TableWhole
  <2>2. \A p \in database \ {o} : file'[p] = file[p]
    BY <1>0, <1>2 DEF IInv, TableLive
  <2> QED
    BY <2>1, <2>2 DEF CInv, TableWhole, Missing
<1>5. OneEntryPerName'
  BY <1>0, <1>2 DEF CInv, OneEntryPerName, IInv, TableLive
<1>6. UsedIsQuiet'
  <2> SUFFICES ASSUME NEW p \in live \ {o}, InUse(p)' PROVE ~Busy(file'[p])
    BY DEF UsedIsQuiet, Busy
  <2>1. \A u \in Thread : Kept(u)' = Kept(u)
    BY <1>1 DEF Kept
  <2>2. InUse(p)
    BY <1>1, <2>1 DEF InUse, Stabile
  <2> QED
    BY <1>2, <2>2 DEF CInv, UsedIsQuiet
<1>7. bg.pc \in {"compressing", "hashing"} => bg.file \in live \ {o}
  BY <1>0, <1>3, Popped
<1>8. Marked'
  BY <1>2, <1>7 DEF CInv, Marked, Busy
<1>9. OneRename'
  BY <1>1 DEF CInv, OneRename, Renames
<1>10. WorkFaithful'
  BY <1>2, <1>7 DEF CInv, WorkFaithful
<1>11. CInv'
  BY <1>4, <1>5, <1>6, <1>8, <1>9, <1>10 DEF CInv
<1>12. Opened' = Opened
  <2>1. \A d \in Desc : desc[d].file # Null => file'[desc[d].file] = file[desc[d].file]
    BY <1>0, <1>2, <1>3 DEF IInv, ReferencesLive
  <2> QED
    BY <2>1 DEF Opened
<1>13. Truncating' = Truncating
  BY <1>1, TruncatingKept
<1> QED
  BY <1>11, <1>12, <1>13, ContentsKept, FlatWork

LEMMA PurgeEntryKeeps ==
    ASSUME CInv, NEW t \in Thread, NEW o \in Obj, PurgeEntry(t, o)
    PROVE  CInv' /\ Flat!Next
<1>0. IInv' /\ IInv
  BY PurgeEntryInv DEF CInv
<1>1. /\ thr[t].pc = "purge" /\ thr' = [thr EXCEPT ![t].walk = @ \ {o}]
      /\ bg' = bg /\ desc' = desc /\ disk' = disk
  BY DEF PurgeEntry
<1>2. o \in live /\ file[o] \in FileRec
  BY <1>0 DEF PurgeEntry, IInv, TableLive, Control, ControlOf
<1>3. \/ /\ database' = database /\ live' = live
         /\ file' = file \/ file' = [file EXCEPT ![o].accesses = @ + 1]
      \/ /\ file[o].accesses = 0 /\ file' = [file EXCEPT ![o] = Null]
         /\ database' = database \ {o} /\ live' = live \ {o}
  BY Zenon DEF PurgeEntry, PurgeUnused, Enqueue
<1> QED
  BY <1>0, <1>1, <1>2, <1>3, PurgeStays, PurgeFrees

-----------------------------------------------------------------------------
(* The rename itself *)

LEMMA RenameCommitKeeps ==
    ASSUME CInv, NEW t \in Thread, RenameCommit(t)
    PROVE  CInv' /\ Flat!Next
<1>0. IInv' /\ IInv
  BY RenameCommitInv DEF CInv
<1>1. thr[t] \in ThreadRec /\ thr[t].pc = "relock2" /\ thr[t].op = "rename2" /\ ControlOf(t)
  BY <1>0 DEF IInv, TypeOK, RenameCommit, Control, ControlOf
<1>2a. PICK a \in live : a = thr[t].from
  BY <1>1 DEF ControlOf
<1>2b. PICK b \in live : b = thr[t].file
  BY <1>1 DEF ControlOf
<1>2c. PICK n \in Name : n = thr[t].other
  BY <1>1 DEF ControlOf
<1>2d. PICK m \in Name : m = thr[t].name
  BY <1>1 DEF ControlOf
<1>3. /\ file[a].name = n /\ file[b].name = m /\ n # m /\ a # b
      /\ a \in Obj /\ b \in Obj /\ a # Null /\ b # Null
      /\ file[a] \in FileRec /\ file[b] \in FileRec
  BY <1>0, <1>1, <1>2a, <1>2b, <1>2c, <1>2d, ConstantsAssumption DEF ControlOf, IInv, TableLive, TypeOK
<1>4. InUse(a) /\ InUse(b)
  BY <1>0, <1>1, <1>2a, <1>2b, <1>3, KeptInUse
<1>5. file[a].status = {} /\ file[b].status = {}
  <2>1. \A p \in {a, b} : ~Busy(file[p]) /\ "CANCEL" \notin file[p].status
    BY <1>4 DEF CInv, UsedIsQuiet, Marked
  <2>2. file[a].status \subseteq Flag /\ file[b].status \subseteq Flag
    BY <1>3 DEF FileRec
  <2> QED
    BY <2>1, <2>2 DEF Busy, Flag
<1>6. /\ thr' = [thr EXCEPT ![t] = Idle] /\ database' = database /\ live' = live /\ bg' = bg
      /\ \/ disk[n] # Null /\ disk' = [disk EXCEPT ![n] = Null, ![m] = disk[n]] /\ DirectRename(a, b)
         \/ /\ file' = [file EXCEPT ![a].accesses = @ - 1, ![b].accesses = @ - 1]
            /\ UNCHANGED <<disk, desc, queue>>
  BY <1>2a, <1>2b, <1>2c, <1>2d DEF RenameCommit
<1>7. Idle.pc = "idle" /\ Idle.op = "none" /\ Idle.from = Null
  BY DEF Idle
<1>8. CASE /\ file' = [file EXCEPT ![a].accesses = @ - 1, ![b].accesses = @ - 1]
           /\ UNCHANGED <<disk, desc, queue>>
  <2>1. \A p \in live : SameEntry(p)
    BY <1>0, <1>3, <1>8 DEF SameEntry, IInv, TypeOK, FileRec
  <2>2. CInv' /\ Opened' = Opened /\ Contents' = Contents /\ Truncating' = Truncating
    BY <1>0, <1>1, <1>6, <1>7, <1>8, <2>1, MoveKeeps
  <2> QED
    BY <2>2, FlatWork
<1>9. CASE disk[n] # Null /\ disk' = [disk EXCEPT ![n] = Null, ![m] = disk[n]] /\ DirectRename(a, b)
  <2>1. /\ file'[a].name = n /\ file'[a].status = {} /\ file'[b].name = m /\ file'[b].status = {}
        /\ \A p \in live \ {a, b} : file'[p] = file[p]
    <3> DEFINE moved == Cardinality(DescOf(a)) + Cardinality(QueuedOf(a))
               ga == Delete([file[a] EXCEPT !.accesses = @ - 1 - moved])
               gb == [file[b] EXCEPT !.accesses = @ - 1 + moved, !.size = file[a].size,
                           !.compressor = file[a].compressor,
                           !.dontcompress = file[a].dontcompress,
                           !.status = file[a].status,
                           !.deduped = IF DedupEnabled THEN file[a].deduped ELSE @]
    <3>1. file' = [file EXCEPT ![a] = ga, ![b] = gb]
      BY <1>9 DEF DirectRename
    <3>2. ga.name = n /\ ga.status = {}
      <4> HIDE DEF moved
      <4> QED
        BY <1>3, <1>5 DEF Delete, FileRec
    <3>3. gb.name = m /\ gb.status = {}
      <4> HIDE DEF moved
      <4> QED
        BY <1>3, <1>5 DEF FileRec
    <3> HIDE DEF ga, gb
    <3> QED
      BY <1>0, <1>3, <3>1, <3>2, <3>3 DEF IInv, TypeOK
  <2>2. \A p \in live : SameEntry(p)
    BY <1>3, <1>5, <2>1 DEF SameEntry
  <2>3. \A d \in Desc : desc'[d].file = IF desc[d].file = a THEN b ELSE desc[d].file
    BY <1>0, <1>9 DEF DirectRename, MovedDesc, IInv, TypeOK, DescRec
  <2>4. thr'[t] = Idle /\ \A u \in Thread \ {t} : thr'[u] = thr[u]
    BY <1>0, <1>6 DEF IInv, TypeOK
  <2>5. Kept(t)' = {}
    BY <1>7, <2>4 DEF Kept
  <2>6. \A k \in Name : disk[k] # Null =>
          \/ disk'[k] # Null /\ disk'[k].data = disk[k].data
          \/ \E o \in live : file[o].name = k /\ InUse(o)
    BY <1>0, <1>3, <1>4, <1>9 DEF IInv, TypeOK
  <2>7. \A d \in Desc : desc'[d].file = desc[d].file \/ InUse(desc'[d].file)
    BY <1>4, <2>3
  <2>8. CInv'
    BY <1>0, <1>6, <1>7, <2>2, <2>4, <2>5, <2>6, <2>7, HandlerKeeps DEF Renames
  <2>9. Contents[n] # Null
    BY <1>0, <1>9, ContentsThere
  <2>10. Contents' = [Contents EXCEPT ![n] = Null, ![m] = Contents[n]]
    BY <1>0, <1>3, <1>9 DEF Contents, IInv, TypeOK
  <2>11. Opened' = [d \in Desc |-> IF Opened[d] = n THEN m ELSE Opened[d]]
    <3>1. \A p \in live : file[p].name = n => p = a
      BY <1>3 DEF CInv, OneEntryPerName, TableWhole
    <3>2. \A d \in Desc : desc[d].file \in live \cup {Null}
      BY <1>0 DEF IInv, ReferencesLive
    <3>3. \A p \in live : file'[p].name = file[p].name
      BY <2>2 DEF SameEntry
    <3>4. n # Null
      BY ConstantsAssumption
    <3>5. ASSUME NEW d \in Desc PROVE Opened'[d] = IF Opened[d] = n THEN m ELSE Opened[d]
      <4>1. CASE desc[d].file = a
        BY <1>3, <2>3, <3>3, <4>1 DEF Opened
      <4>2. CASE desc[d].file # a
        BY <2>3, <3>1, <3>2, <3>3, <3>4, <4>2 DEF Opened
      <4> QED
        BY <4>1, <4>2
    <3>6. Opened' = [d \in Desc |-> Opened'[d]]
      BY DEF Opened
    <3> HIDE DEF Opened
    <3> QED
      BY <3>5, <3>6
  <2>12. Truncating' = Truncating
    BY <1>1, <1>7, <2>4, TruncatingKept
  <2> QED
    BY <1>3, <1>6, <2>8, <2>9, <2>10, <2>11, <2>12, FlatRename
<1> QED
  BY <1>6, <1>8, <1>9

-----------------------------------------------------------------------------
(* thread_compress() *)

(* What a background step leaves alone, and what it has to show.            *)
LEMMA WorkKeeps ==
    ASSUME CInv, IInv', database' = database, live' = live,
           \A d \in Desc : desc'[d].file = desc[d].file,
           \A u \in Thread :
              thr'[u] = thr[u] \/ (thr[u].pc = "wait" /\ thr'[u] = [thr[u] EXCEPT !.pc = "woken"]),
           \A p \in live : file'[p].name = file[p].name,
           \A p \in live : InUse(p) => ~Busy(file'[p]),
           Contents' = Contents, Marked', WorkFaithful'
    PROVE  CInv' /\ Flat!Next
<1>1. \A u \in Thread : /\ thr'[u].op = thr[u].op /\ thr'[u].name = thr[u].name
                        /\ thr'[u].from = thr[u].from /\ thr'[u].file = thr[u].file
                        /\ thr'[u].pc # "woken" => thr'[u].pc = thr[u].pc
  <2> SUFFICES ASSUME NEW u \in Thread
               PROVE  /\ thr'[u].op = thr[u].op /\ thr'[u].name = thr[u].name
                      /\ thr'[u].from = thr[u].from /\ thr'[u].file = thr[u].file
                      /\ thr'[u].pc # "woken" => thr'[u].pc = thr[u].pc
    OBVIOUS
  <2>1. thr[u] \in ThreadRec
    BY DEF CInv, IInv, TypeOK
  <2> QED
    BY <2>1 DEF ThreadRec
<1>2. \A u \in Thread : Kept(u)' \subseteq Kept(u)
  BY <1>1 DEF Kept
<1>3. TableWhole'
  <2>1. \A p \in database : file'[p].name = file[p].name
    BY DEF CInv, IInv, TableLive
  <2> QED
    BY <1>1, <2>1 DEF CInv, TableWhole, Missing
<1>4. OneEntryPerName'
  BY DEF CInv, OneEntryPerName, IInv, TableLive
<1>5. UsedIsQuiet'
  <2> SUFFICES ASSUME NEW p \in live, InUse(p)' PROVE ~Busy(file'[p])
    BY DEF UsedIsQuiet, Busy
  <2>1. InUse(p)
    BY <1>1, <1>2 DEF InUse, Stabile
  <2> QED
    BY <2>1
<1>6. OneRename'
  BY <1>1 DEF CInv, OneRename, Renames
<1>7. CInv'
  BY <1>3, <1>4, <1>5, <1>6 DEF CInv
<1>8. Opened' = Opened
  BY OpenedKept DEF CInv
<1>9. Truncating' = Truncating
  BY <1>1 DEF Truncating
<1> QED
  BY <1>7, <1>8, <1>9, FlatWork

(* What wakes up is a thread that waits.                                    *)
LEMMA WokenOnly ==
    ASSUME NEW o, thr' = thr \/ Broadcast(o)
    PROVE  \A u \in Thread :
              thr'[u] = thr[u] \/ (thr[u].pc = "wait" /\ thr'[u] = [thr[u] EXCEPT !.pc = "woken"])
BY DEF Broadcast

LEMMA BgPopKeeps ==
    ASSUME CInv, BgPop
    PROVE  CInv' /\ Flat!Next
<1>0. IInv' /\ IInv
  BY BgPopInv DEF CInv
<1>1. /\ bg.pc = "idle" /\ bg'.pc = "popped"
      /\ database' = database /\ live' = live /\ file' = file /\ desc' = desc /\ disk' = disk /\ thr' = thr
  BY DEF BgPop, BgIdle
<1>2. Marked'
  BY <1>1 DEF CInv, Marked, Busy
<1>3. WorkFaithful'
  BY <1>1 DEF WorkFaithful
<1>4. \A p \in live : InUse(p) => ~Busy(file'[p])
  BY <1>1 DEF CInv, UsedIsQuiet
<1> QED
  BY <1>0, <1>1, <1>2, <1>3, <1>4, ContentsKept, WorkKeeps

(* The end of the loop body.                                                *)
LEMMA WorkEnds ==
    ASSUME CInv, IInv', bg.pc # "idle", bg' = BgIdle, database' = database, live' = live,
           \A d \in Desc : desc'[d].file = desc[d].file,
           thr' = thr \/ Broadcast(bg.file), Contents' = Contents,
           NEW g, file' = [file EXCEPT ![bg.file] = g], g.name = file[bg.file].name,
           g.status \subseteq file[bg.file].status,
           "COMPRESSING" \notin g.status, "CANCEL" \in g.status => Busy(g)
    PROVE  CInv' /\ Flat!Next
<1>1. bg.file \in live /\ bg.file \in Obj
  BY Popped DEF CInv
<1>2. file'[bg.file] = g /\ \A p \in live \ {bg.file} : file'[p] = file[p]
  BY <1>1 DEF CInv, IInv, TypeOK
<1>3. bg'.pc = "idle"
  BY DEF BgIdle
<1>4. \A p \in live : /\ file'[p].name = file[p].name
                      /\ Busy(file'[p]) => Busy(file[p])
                      /\ "COMPRESSING" \notin file'[p].status
                      /\ "CANCEL" \in file'[p].status => Busy(file'[p])
  <2>1. Busy(g) => Busy(file[bg.file])
    BY DEF Busy
  <2>2. \A p \in live \ {bg.file} : /\ "COMPRESSING" \notin file[p].status
                                    /\ "CANCEL" \in file[p].status => Busy(file[p])
    BY DEF CInv, Marked
  <2> QED
    BY <1>2, <2>1, <2>2
<1>5. Marked'
  BY <1>3, <1>4 DEF Marked, Busy
<1>6. WorkFaithful'
  BY <1>3 DEF WorkFaithful
<1>7. \A p \in live : InUse(p) => ~Busy(file'[p])
  BY <1>4 DEF CInv, UsedIsQuiet
<1>8. \A u \in Thread :
         thr'[u] = thr[u] \/ (thr[u].pc = "wait" /\ thr'[u] = [thr[u] EXCEPT !.pc = "woken"])
  BY WokenOnly
<1> QED
  BY <1>4, <1>5, <1>6, <1>7, <1>8, WorkKeeps

(* Giving the access back changes nothing else.                             *)
LEMMA DoneKeeps ==
    ASSUME NEW f \in FileRec
    PROVE  /\ Done(f).name = f.name /\ Done(f).status = f.status
           /\ DoneCompress(f).name = f.name /\ DoneCompress(f).status = f.status
BY SmallKeeps, DiscardKeeps DEF Done, DoneCompress, FileRec

(* What is marked when the background thread is where it is.                *)
LEMMA MarkedFacts ==
    ASSUME CInv, bg.pc # "idle"
    PROVE  /\ bg.pc = "compressing" <=> "COMPRESSING" \in file[bg.file].status
           /\ bg.pc = "hashing" => "DEDUPING" \in file[bg.file].status
           /\ "CANCEL" \in file[bg.file].status => Busy(file[bg.file])
           /\ bg.file \in live /\ bg.file \in Obj /\ file[bg.file] \in FileRec
           /\ file[bg.file].name \in Name
<1>1. bg.file \in live /\ bg.file \in Obj /\ file[bg.file] \in FileRec
  BY Popped DEF CInv
<1> QED
  BY <1>1 DEF CInv, Marked, FileRec

LEMMA BgSkipKeeps ==
    ASSUME CInv, BgSkip
    PROVE  CInv' /\ Flat!Next
<1>0. IInv' /\ IInv
  BY BgSkipInv DEF CInv
<1>1. /\ bg.pc = "popped" /\ bg' = BgIdle
      /\ database' = database /\ live' = live /\ desc' = desc /\ disk' = disk /\ thr' = thr
  BY DEF BgSkip
<1>2. /\ file[bg.file] \in FileRec /\ "COMPRESSING" \notin file[bg.file].status
      /\ "CANCEL" \in file[bg.file].status => Busy(file[bg.file])
  BY <1>1, MarkedFacts
<1>3. PICK g \in {Done(file[bg.file]), DoneCompress(file[bg.file])} : file' = [file EXCEPT ![bg.file] = g]
  BY DEF BgSkip
<1>4. g.name = file[bg.file].name /\ g.status = file[bg.file].status
  BY <1>2, DoneKeeps
<1> QED
  BY <1>0, <1>1, <1>2, <1>3, <1>4, ContentsKept, WorkEnds DEF Busy

LEMMA BgCompressNotKeeps ==
    ASSUME CInv, BgCompressNot
    PROVE  CInv' /\ Flat!Next
<1>0. IInv' /\ IInv
  BY BgCompressNotInv DEF CInv
<1>1. /\ bg.pc = "popped" /\ bg' = BgIdle
      /\ database' = database /\ live' = live /\ desc' = desc /\ disk' = disk /\ thr' = thr
  BY DEF BgCompressNot
<1> DEFINE f == file[bg.file]
           i == disk[f.name]
           Like(g) == g.name = f.name /\ g.status = f.status
<1>2. /\ f \in FileRec /\ "COMPRESSING" \notin f.status /\ f.name \in Name
      /\ "CANCEL" \in f.status => Busy(f)
  BY <1>1, MarkedFacts
<1>3. Like(DoneCompress(f)) /\ Like(DoneCompress(Delete(f)))
  BY <1>2, DoneKeeps, DeleteKeeps, SmallKeeps
<1>4. i # Null => Like(DoneCompress([f EXCEPT !.compressor = TRUE, !.size = i.size]))
  <2> HAVE i # Null
  <2>1. i.size \in CachedSize
    BY <1>0, <1>2 DEF IInv, TypeOK, Image, CachedSize
  <2> DEFINE h == [f EXCEPT !.compressor = TRUE, !.size = i.size]
  <2>2. h \in FileRec /\ Like(h)
    BY <1>2, <2>1 DEF FileRec
  <2>3. Like(DoneCompress(h))
    <3> HIDE DEF h
    <3> QED
      BY <2>2, DoneKeeps
  <2> QED
    BY <2>3
<1>5. \E g : Like(g) /\ file' = [file EXCEPT ![bg.file] = g]
  <2> HIDE DEF Like
  <2> QED
    BY <1>3, <1>4 DEF BgCompressNot
<1>6. PICK g : Like(g) /\ file' = [file EXCEPT ![bg.file] = g]
  BY <1>5
<1> QED
  BY <1>0, <1>1, <1>2, <1>6, ContentsKept, WorkEnds DEF Busy

(* The file is marked: nobody uses its entry.                               *)
LEMMA WantedUnused ==
    ASSUME IInv, bg.pc # "idle", owner[bg.file] = Null, BgWanted(file[bg.file])
    PROVE  ~InUse(bg.file)
<1>1. PICK o \in live : o = bg.file /\ o \in Obj
  BY Popped
<1>2. 1 = Cardinality(DescOf(o)) + Cardinality(QueuedOf(o)) + 1 + Cardinality(KeepersOf(o))
  BY <1>1 DEF IInv, AccessesExact, BgOf, BgWanted
<1>3. DescOf(o) = {} /\ KeepersOf(o) = {}
  BY <1>2, CountsFinite, FS_EmptySet
<1>4. \A t \in Thread : thr[t].pc = "locked" => thr[t].file # o
  BY <1>1, ConstantsAssumption DEF IInv, Control, ControlOf
<1> QED
  BY <1>1, <1>3, <1>4 DEF InUse, DescOf, KeepersOf

LEMMA WorkBegins ==
    ASSUME CInv, IInv', bg.pc = "popped", owner[bg.file] = Null, BgWanted(file[bg.file]),
           NEW flag \in {"COMPRESSING", "DEDUPING"},
           file' = [file EXCEPT ![bg.file].status = @ \cup {flag}],
           database' = database, live' = live, desc' = desc, disk' = disk, thr' = thr,
           bg'.file = bg.file, bg'.pc = IF flag = "COMPRESSING" THEN "compressing" ELSE "hashing",
           LET i == disk[file[bg.file].name] IN bg'.data # Null => i # Null /\ i.data = bg'.data
    PROVE  CInv' /\ Flat!Next
<1>1. PICK o \in live : o = bg.file
  BY MarkedFacts
<1>2. o \in Obj /\ file[o] \in FileRec /\ ~InUse(o)
  BY <1>1, MarkedFacts, WantedUnused DEF CInv
<1> DEFINE g == [file[o] EXCEPT !.status = @ \cup {flag}]
<1>3. g.name = file[o].name /\ g.status = file[o].status \cup {flag} /\ Busy(g)
  BY <1>2 DEF FileRec, Busy
<1>4. file' = [file EXCEPT ![o] = g]
  BY <1>1
<1> HIDE DEF g
<1>5. file'[o] = g /\ \A p \in live \ {o} : file'[p] = file[p]
  BY <1>2, <1>4 DEF CInv, IInv, TypeOK
<1>6. \A p \in live : file'[p].name = file[p].name
  BY <1>3, <1>5
<1>7. \A p \in live : InUse(p) => ~Busy(file'[p])
  BY <1>2, <1>5 DEF CInv, UsedIsQuiet
<1>8. Marked'
  <2>1. \A p \in live : "COMPRESSING" \notin file[p].status
    BY DEF CInv, Marked
  <2>2. \A p \in live : "CANCEL" \in file[p].status => Busy(file[p])
    BY DEF CInv, Marked
  <2>3. \A p \in live : "COMPRESSING" \in file'[p].status => p = o /\ flag = "COMPRESSING"
    BY <1>3, <1>5, <2>1
  <2>4. \A p \in live : "CANCEL" \in file'[p].status => Busy(file'[p])
    BY <1>3, <1>5, <2>2
  <2>5. flag \in file'[bg'.file].status
    BY <1>1, <1>3, <1>5
  <2> QED
    BY <1>1, <2>3, <2>4, <2>5 DEF Marked, Busy
<1>9. WorkFaithful'
  BY <1>1, <1>6 DEF WorkFaithful
<1> QED
  BY <1>6, <1>7, <1>8, <1>9, ContentsKept, WorkKeeps

LEMMA BgCompressKeeps ==
    ASSUME CInv, BgCompress
    PROVE  CInv' /\ Flat!Next
<1>0. IInv' /\ IInv
  BY BgCompressInv DEF CInv
<1>1. /\ bg'.pc = "compressing" /\ bg'.file = bg.file /\ bg'.data = disk[file[bg.file].name].data
      /\ disk[file[bg.file].name] # Null
  BY <1>0 DEF BgCompress, IInv, TypeOK, BgRec
<1> QED
  BY <1>0, <1>1, WorkBegins DEF BgCompress

LEMMA BgDedupKeeps ==
    ASSUME CInv, BgDedup
    PROVE  CInv' /\ Flat!Next
<1>0. IInv' /\ IInv
  BY BgDedupInv DEF CInv
<1>1. /\ bg'.pc = "hashing" /\ bg'.file = bg.file
      /\ bg'.data = IF disk[file[bg.file].name] = Null THEN Null ELSE disk[file[bg.file].name].data
  BY <1>0 DEF BgDedup, IInv, TypeOK, BgRec
<1> QED
  BY <1>0, <1>1, WorkBegins DEF BgDedup

LEMMA BgCompressCancelledKeeps ==
    ASSUME CInv, BgCompressCancelled
    PROVE  CInv' /\ Flat!Next
<1>0. IInv' /\ IInv
  BY BgCompressCancelledInv DEF CInv
<1>1. /\ bg.pc = "compressing" /\ bg' = BgIdle /\ Broadcast(bg.file)
      /\ database' = database /\ live' = live /\ desc' = desc /\ disk' = disk
  BY DEF BgCompressCancelled
<1> DEFINE h == [file[bg.file] EXCEPT !.status = @ \ {"COMPRESSING", "CANCEL"}]
           g == DoneCompress(h)
<1>2. file[bg.file] \in FileRec
  BY <1>1, MarkedFacts
<1>3. h \in FileRec /\ h.name = file[bg.file].name /\ h.status = file[bg.file].status \ {"COMPRESSING", "CANCEL"}
  BY <1>2 DEF FileRec
<1>4. file' = [file EXCEPT ![bg.file] = g]
  BY DEF BgCompressCancelled
<1>5. g.name = file[bg.file].name /\ g.status = file[bg.file].status \ {"COMPRESSING", "CANCEL"}
  <2> HIDE DEF h
  <2> QED
    BY <1>3, DoneKeeps
<1> HIDE DEF g, h
<1> QED
  BY <1>0, <1>1, <1>4, <1>5, ContentsKept, WorkEnds

LEMMA BgCompressFailsKeeps ==
    ASSUME CInv, BgCompressFails
    PROVE  CInv' /\ Flat!Next
<1>0. IInv' /\ IInv
  BY BgCompressFailsInv DEF CInv
<1>1. /\ bg.pc = "compressing" /\ bg' = BgIdle /\ "CANCEL" \notin file[bg.file].status
      /\ database' = database /\ live' = live /\ desc' = desc /\ disk' = disk /\ thr' = thr
  BY DEF BgCompressFails, Cancelled
<1> DEFINE h == [file[bg.file] EXCEPT !.status = @ \ {"COMPRESSING"}]
           g == DoneCompress(h)
<1>2. file[bg.file] \in FileRec
  BY <1>1, MarkedFacts
<1>3. h \in FileRec /\ h.name = file[bg.file].name /\ h.status = file[bg.file].status \ {"COMPRESSING"}
  BY <1>2 DEF FileRec
<1>4. file' = [file EXCEPT ![bg.file] = g]
  BY DEF BgCompressFails
<1>5. g.name = file[bg.file].name /\ g.status = file[bg.file].status \ {"COMPRESSING"}
  <2> HIDE DEF h
  <2> QED
    BY <1>3, DoneKeeps
<1> HIDE DEF g, h
<1> QED
  BY <1>0, <1>1, <1>4, <1>5, ContentsKept, WorkEnds

LEMMA BgCompressCommitKeeps ==
    ASSUME CInv, BgCompressCommit
    PROVE  CInv' /\ Flat!Next
<1>0. IInv' /\ IInv
  BY BgCompressCommitInv DEF CInv
<1> DEFINE n == file[bg.file].name
           size == IF disk[n] = Null THEN "big" ELSE disk[n].size
           i == [data |-> bg.data, packed |-> TRUE, mtime |-> bg.mtime, size |-> size]
           h == [file[bg.file] EXCEPT !.status = @ \ {"COMPRESSING"}, !.compressor = TRUE, !.size = size]
           g == DoneCompress(h)
<1>1. /\ bg.pc = "compressing" /\ bg' = BgIdle /\ "CANCEL" \notin file[bg.file].status
      /\ database' = database /\ live' = live /\ thr' = thr /\ desc' = Replaced(n, Null)
      /\ disk' = [disk EXCEPT ![n] = i]
  BY DEF BgCompressCommit, Cancelled
<1>2. file[bg.file] \in FileRec /\ n \in Name
  BY <1>1, MarkedFacts
<1>3. disk[n] # Null /\ disk[n].data = bg.data /\ disk[n] \in Image /\ bg.mtime \in Time
  BY <1>0, <1>1, <1>2 DEF CInv, WorkFaithful, IInv, BgControl, TypeOK, BgRec
<1>4. size = disk[n].size /\ size \in SizeClass /\ size \in CachedSize
  BY <1>3 DEF Image, CachedSize
<1>5. i \in Image /\ i.data = disk[n].data /\ i.size = disk[n].size
  <2> HIDE DEF size
  <2> QED
    BY <1>3, <1>4 DEF Image
<1>6. Contents' = Contents
  <2> HIDE DEF i, n
  <2> QED
    BY <1>0, <1>1, <1>2, <1>3, <1>5, ContentsAt
<1>7. disk'[n].size = size
  BY <1>0, <1>1, <1>2 DEF IInv, TypeOK
<1>8. file' = [file EXCEPT ![bg.file] = g]
  BY <1>7, Zenon DEF BgCompressCommit
<1>9. h \in FileRec /\ h.name = n /\ h.status = file[bg.file].status \ {"COMPRESSING"}
  <2> HIDE DEF size
  <2> QED
    BY <1>2, <1>4 DEF FileRec
<1>10. g.name = n /\ g.status = file[bg.file].status \ {"COMPRESSING"}
  <2> HIDE DEF h
  <2> QED
    BY <1>9, DoneKeeps
<1>11. \A d \in Desc : desc'[d].file = desc[d].file
  BY <1>0, <1>1, ReplacedKeeps
<1> HIDE DEF g, h, i, size
<1> QED
  BY <1>0, <1>1, <1>6, <1>8, <1>10, <1>11, WorkEnds

LEMMA BgDedupFailsKeeps ==
    ASSUME CInv, BgDedupFails
    PROVE  CInv' /\ Flat!Next
<1>0. IInv' /\ IInv
  BY BgDedupFailsInv DEF CInv
<1>1. /\ bg.pc = "hashing" /\ bg' = BgIdle
      /\ database' = database /\ live' = live /\ desc' = desc /\ disk' = disk /\ thr' = thr
  BY DEF BgDedupFails
<1> DEFINE h == [file[bg.file] EXCEPT !.deduped = TRUE]
           g == Done(h)
<1>2. /\ file[bg.file] \in FileRec /\ "COMPRESSING" \notin file[bg.file].status
      /\ "DEDUPING" \in file[bg.file].status
  BY <1>1, MarkedFacts
<1>3. h \in FileRec /\ h.name = file[bg.file].name /\ h.status = file[bg.file].status
  BY <1>2 DEF FileRec
<1>4. file' = [file EXCEPT ![bg.file] = g]
  BY DEF BgDedupFails
<1>5. g.name = file[bg.file].name /\ g.status = file[bg.file].status
  <2> HIDE DEF h
  <2> QED
    BY <1>3, DoneKeeps
<1> HIDE DEF g, h
<1> QED
  BY <1>0, <1>1, <1>2, <1>4, <1>5, ContentsKept, WorkEnds DEF Busy

LEMMA BgDedupCancelledKeeps ==
    ASSUME CInv, BgDedupCancelled
    PROVE  CInv' /\ Flat!Next
<1>0. IInv' /\ IInv
  BY BgDedupCancelledInv DEF CInv
<1>1. /\ bg.pc = "hashing" /\ bg' = BgIdle /\ Broadcast(bg.file)
      /\ database' = database /\ live' = live /\ desc' = desc /\ disk' = disk
  BY DEF BgDedupCancelled
<1> DEFINE h == [file[bg.file] EXCEPT !.status = @ \ {"DEDUPING", "CANCEL"}]
           g == Done(h)
<1>2. file[bg.file] \in FileRec /\ "COMPRESSING" \notin file[bg.file].status
  BY <1>1, MarkedFacts
<1>3. h \in FileRec /\ h.name = file[bg.file].name /\ h.status = file[bg.file].status \ {"DEDUPING", "CANCEL"}
  BY <1>2 DEF FileRec
<1>4. file' = [file EXCEPT ![bg.file] = g]
  BY DEF BgDedupCancelled
<1>5. g.name = file[bg.file].name /\ g.status = file[bg.file].status \ {"DEDUPING", "CANCEL"}
  <2> HIDE DEF h
  <2> QED
    BY <1>3, DoneKeeps
<1> HIDE DEF g, h
<1> QED
  BY <1>0, <1>1, <1>2, <1>4, <1>5, ContentsKept, WorkEnds

LEMMA BgDedupCommitKeeps ==
    ASSUME CInv, BgDedupCommit
    PROVE  CInv' /\ Flat!Next
<1>0. IInv' /\ IInv
  BY BgDedupCommitInv DEF CInv
<1> DEFINE n == file[bg.file].name
<1>1. /\ bg.pc = "hashing" /\ bg' = BgIdle /\ "CANCEL" \notin file[bg.file].status /\ bg.data # Null
      /\ database' = database /\ live' = live /\ thr' = thr
  BY Zenon DEF BgDedupCommit, Cancelled
<1>2. file[bg.file] \in FileRec /\ "COMPRESSING" \notin file[bg.file].status /\ n \in Name
  BY <1>1, MarkedFacts
<1>3. CASE /\ file' = [file EXCEPT ![bg.file] = Done([file[bg.file] EXCEPT !.deduped = TRUE,
                                                        !.status = @ \ {"DEDUPING"}])]
           /\ UNCHANGED <<disk, desc>>
  <2> DEFINE h == [file[bg.file] EXCEPT !.deduped = TRUE, !.status = @ \ {"DEDUPING"}]
             g == Done(h)
  <2>1. h \in FileRec /\ h.name = n /\ h.status = file[bg.file].status \ {"DEDUPING"}
    BY <1>2 DEF FileRec
  <2>2. file' = [file EXCEPT ![bg.file] = g] /\ disk' = disk /\ desc' = desc
    BY <1>3
  <2>3. g.name = n /\ g.status = file[bg.file].status \ {"DEDUPING"}
    <3> HIDE DEF h
    <3> QED
      BY <2>1, DoneKeeps
  <2> HIDE DEF g, h
  <2> QED
    BY <1>0, <1>1, <1>2, <2>2, <2>3, ContentsKept, WorkEnds
<1>4. ASSUME NEW m \in Name, disk[n] # Null, disk[m] # Null,
             disk' = [disk EXCEPT ![n].packed = disk[m].packed, ![n].data = bg.data],
             file' = [file EXCEPT ![bg.file] =
                        Done([file[bg.file] EXCEPT !.deduped = TRUE, !.compressor = disk[m].packed,
                                                   !.status = @ \ {"DEDUPING"}])],
             desc' = Replaced(n, Null)
      PROVE  CInv' /\ Flat!Next
  <2> DEFINE h == [file[bg.file] EXCEPT !.deduped = TRUE, !.compressor = disk[m].packed,
                                        !.status = @ \ {"DEDUPING"}]
             g == Done(h)
             i == [[disk[n] EXCEPT !.packed = disk[m].packed] EXCEPT !.data = bg.data]
  <2>1. /\ disk[n] \in Image /\ disk[m].packed \in BOOLEAN
        /\ bg.data \in Data \cup {Garbage} /\ bg.data = disk[n].data
    <3>1. bg.data = disk[n].data
      BY <1>1 DEF CInv, WorkFaithful
    <3>2. disk[n] \in Image /\ disk[m] \in Image
      BY <1>0, <1>2, <1>4 DEF IInv, TypeOK
    <3> QED
      BY <3>1, <3>2 DEF Image
  <2>2. h \in FileRec /\ h.name = n /\ h.status = file[bg.file].status \ {"DEDUPING"}
    BY <1>2, <2>1 DEF FileRec
  <2>3. i \in Image /\ i.data = disk[n].data /\ i.size = disk[n].size
    BY <2>1 DEF Image
  <2>4. disk' = [disk EXCEPT ![n] = i]
    BY <1>0, <1>2, <1>4 DEF IInv, TypeOK
  <2>5. file' = [file EXCEPT ![bg.file] = g]
    BY <1>4
  <2>6. g.name = n /\ g.status = file[bg.file].status \ {"DEDUPING"}
    <3> HIDE DEF h
    <3> QED
      BY <2>2, DoneKeeps
  <2>7. Contents' = Contents
    <3> HIDE DEF i, n
    <3> QED
      BY <1>0, <1>2, <1>4, <2>3, <2>4, ContentsAt
  <2>8. \A d \in Desc : desc'[d].file = desc[d].file
    BY <1>0, <1>4, ReplacedKeeps
  <2> HIDE DEF g, h, i
  <2>9. /\ g.status \subseteq file[bg.file].status
        /\ "COMPRESSING" \notin g.status /\ "CANCEL" \notin g.status
    BY <1>1, <1>2, <2>6
  <2>10. PICK e : e = g
    OBVIOUS
  <2> QED
    BY <1>0, <1>1, <2>5, <2>6, <2>7, <2>8, <2>9, <2>10, WorkEnds
<1> QED
  BY <1>3, <1>4, Zenon DEF BgDedupCommit

-----------------------------------------------------------------------------
(* The invariant and the refinement *)

LEMMA InitKeeps == Init => CInv /\ Flat!Init
<1> SUFFICES ASSUME Init PROVE CInv /\ Flat!Init
  OBVIOUS
<1>1. IInv
  BY InitInv
<1>2. /\ Idle.pc = "idle" /\ Idle.op = "none" /\ BgIdle.pc = "idle" /\ Closed.file = Null
      /\ \A t \in Thread : thr[t] = Idle
  BY DEF Init, Idle, BgIdle, Closed
<1>3. TableWhole /\ OneEntryPerName /\ UsedIsQuiet
  BY <1>2 DEF Init, TableWhole, OneEntryPerName, UsedIsQuiet
<1>4. Marked /\ WorkFaithful
  BY <1>2 DEF Init, Marked, WorkFaithful
<1>5. OneRename
  BY <1>2 DEF OneRename, Renames
<1>6. Contents \in [Name -> Content \cup {Null}]
  BY <1>1 DEF IInv, TypeOK, Contents, Content, Image
<1>7. Opened = [d \in Desc |-> Null]
  BY <1>2 DEF Init, Opened
<1>8. Truncating = {}
  BY <1>2 DEF Truncating
<1>9. Flat!Init
  BY <1>6, <1>7, <1>8 DEF Flat!Init, Contents, Content, Opened, Truncating
<1> QED
  BY <1>1, <1>3, <1>4, <1>5, <1>9 DEF CInv

LEMMA StutterKeeps == CInv /\ UNCHANGED vars => CInv' /\ Flat!Next
<1> SUFFICES ASSUME CInv, UNCHANGED vars PROVE CInv' /\ Flat!Next
  OBVIOUS
<1>1. IInv'
  BY StutterInv DEF CInv
<1>2. TableWhole' /\ OneEntryPerName' /\ Marked' /\ OneRename' /\ WorkFaithful'
  BY DEF vars, CInv, TableWhole, Missing, OneEntryPerName, Marked, Busy, OneRename, Renames, WorkFaithful
<1>3. UsedIsQuiet'
  BY DEF vars, CInv, UsedIsQuiet, InUse, Kept, Busy
<1>4. Contents' = Contents /\ Opened' = Opened /\ Truncating' = Truncating
  BY DEF vars, Contents, Opened, Truncating
<1> QED
  BY <1>1, <1>2, <1>3, <1>4, FlatWork DEF CInv

LEMMA CallStepKeeps ==
    ASSUME CInv, NEW t \in Thread, CallStep(t)
    PROVE  CInv' /\ Flat!Next
<1>1. ASSUME NEW n \in Name, NEW op \in {"utime", "mknod", "unlink", "truncate", "open"}, Call(t, op, n, Null)
      PROVE  CInv' /\ Flat!Next
  BY <1>1, CallKeeps DEF Called
<1>2. ASSUME NEW n \in Name, NEW m \in Name, n # m, Call(t, "rename1", n, m)
      PROVE  CInv' /\ Flat!Next
  BY <1>2, CallKeeps DEF Called
<1>3. ASSUME NEW d \in Desc,
             Read(t, d) \/ WriteAppend(t, d) \/ WriteFallback(t, d) \/ WriteRaw(t, d) \/ Release(t, d)
      PROVE  CInv' /\ Flat!Next
  BY <1>3, ReadKeeps, WriteAppendKeeps, WriteFallbackKeeps, WriteRawKeeps, ReleaseKeeps
<1> QED
  BY <1>1, <1>2, <1>3, LstatKeeps DEF CallStep

LEMMA HandlerStepKeeps ==
    ASSUME CInv, NEW t \in Thread, HandlerStep(t)
    PROVE  CInv' /\ Flat!Next
<1>1. CASE LockDatabase(t) \/ DirectOpenPurge(t) \/ Rewake(t)
  BY <1>1, LockDatabaseKeeps, DirectOpenPurgeKeeps, RewakeKeeps
<1>2. CASE \E o \in Obj : DirectOpenHit(t, o) \/ DirectNewFile(t, o) \/ PurgeEntry(t, o)
  BY <1>2, DirectOpenHitKeeps, DirectNewFileKeeps, PurgeEntryKeeps
<1>3. CASE Getattr(t) \/ Utime(t) \/ Mknod(t) \/ Unlink(t)
  BY <1>3, GetattrKeeps, UtimeKeeps, MknodKeeps, UnlinkKeeps
<1>4. CASE \E s \in Sizes : Truncate(t, s)
  BY <1>4, TruncateKeeps
<1>5. CASE (\E d \in Desc : Open(t, d)) \/ OpenFails(t) \/ OpenLeaksLock(t)
  BY <1>5, OpenKeeps, OpenFailsKeeps, OpenLeaksLockKeeps
<1>6. CASE RenameKeepFrom(t) \/ RenameKeepTo(t) \/ RenameLockFrom(t) \/ RenameCommit(t)
  BY <1>6, RenameKeepFromKeeps, RenameKeepToKeeps, RenameLockFromKeeps, RenameCommitKeeps
<1>7. CASE ReadFail(t) \/ Pwrite(t)
  BY <1>7, ReadFailKeeps, PwriteKeeps
<1> QED
  BY <1>1, <1>2, <1>3, <1>4, <1>5, <1>6, <1>7 DEF HandlerStep

LEMMA BgStepKeeps ==
    ASSUME CInv, BgStep
    PROVE  CInv' /\ Flat!Next
BY BgPopKeeps, BgSkipKeeps, BgCompressNotKeeps, BgCompressKeeps, BgCompressCancelledKeeps,
   BgCompressCommitKeeps, BgCompressFailsKeeps, BgDedupKeeps, BgDedupFailsKeeps, BgDedupCancelledKeeps,
   BgDedupCommitKeeps DEF BgStep

LEMMA NextKeeps == CInv /\ [Next]_vars => CInv' /\ Flat!Next
<1> SUFFICES ASSUME CInv, [Next]_vars PROVE CInv' /\ Flat!Next
  OBVIOUS
<1>1. CASE UNCHANGED vars
  BY <1>1, StutterKeeps
<1>2. CASE BgStep
  BY <1>2, BgStepKeeps
<1>3. ASSUME NEW t \in Thread, CallStep(t) \/ HandlerStep(t) PROVE CInv' /\ Flat!Next
  BY <1>3, CallStepKeeps, HandlerStepKeeps
<1> QED
  BY <1>1, <1>2, <1>3 DEF Next

(* In every reachable state the table holds one entry for a name and no     *)
(* freed one, what is in use is not being worked on, and what is being      *)
(* worked on is marked and has the contents the work began with.            *)
THEOREM ContentInvariance == Spec => []CInv
<1>1. Init => CInv
  BY InitKeeps
<1>2. CInv /\ [Next]_vars => CInv'
  BY NextKeeps
<1> QED
  BY <1>1, <1>2, PTL DEF Spec

(* direct_open() never inserts a second file_t for a name, however look-ups,*)
(* purges and renames of different threads interleave.                      *)
THEOREM OneEntry == Spec => []OneEntryPerName
<1>1. CInv => OneEntryPerName
  BY DEF CInv
<1> QED
  BY <1>1, ContentInvariance, PTL

(* The assertion in direct_rename() never fails: apart from its             *)
(* descriptors, its places in the queue and the rename's own access, at     *)
(* most the background thread still counts on the old entry.                *)
THEOREM RenameAssertionHolds == Spec => []RenameAssertion
<1>1. CInv => RenameAssertion
  <2> SUFFICES ASSUME CInv, NEW t \in Thread, thr[t].pc = "relock2", NEW a, a = thr[t].from
               PROVE  file[a].accesses <= 2 + Cardinality(DescOf(a)) + Cardinality(QueuedOf(a))
    BY DEF RenameAssertion
  <2>1. thr[t].op = "rename2" /\ a \in live /\ a # Null
    BY ConstantsAssumption DEF CInv, IInv, Control, ControlOf, TypeOK
  <2>2. file[a].accesses = Cardinality(DescOf(a)) + Cardinality(QueuedOf(a)) + BgOf(a)
                           + Cardinality(KeepersOf(a))
    BY <2>1 DEF CInv, IInv, AccessesExact
  <2>3. KeepersOf(a) = {t}
    <3>1. a \in Kept(t)
      BY <2>1 DEF Kept
    <3>2. ASSUME NEW u \in Thread, a \in Kept(u) PROVE u = t
      <4>1. thr[u].op = "rename2"
        BY <2>1, <3>2 DEF CInv, IInv, Control, ControlOf, Kept
      <4> QED
        BY <2>1, <4>1 DEF CInv, OneRename, Renames
    <3> QED
      BY <3>1, <3>2 DEF KeepersOf
  <2>4. Cardinality(KeepersOf(a)) = 1
    BY <2>3, FS_Singleton
  <2> QED
    BY <2>2, <2>4, CountsFinite DEF CInv
<1> QED
  BY <1>1, ContentInvariance, PTL

(* While do_compress() or do_dedup() runs without the lock and nobody has   *)
(* asked it to stop, the file it will replace has the contents it read: the *)
(* replacement loses no write.                                              *)
THEOREM InFlight == Spec => []InFlightFaithful
<1>1. CInv => InFlightFaithful
  BY DEF CInv, WorkFaithful, InFlightFaithful
<1> QED
  BY <1>1, ContentInvariance, PTL

(* Compression is transparent, for every failure of every system call:      *)
(* FileTable implements FlatFS, whose files change by the user's calls and  *)
(* by nothing else.                                                         *)
THEOREM Transparency == Spec => Transparent
<1>1. Init => Flat!Init
  BY InitKeeps
<1>2. CInv /\ [Next]_vars => [Flat!Next]_Flat!vars
  BY NextKeeps
<1> QED
  BY <1>1, <1>2, ContentInvariance, PTL DEF Spec, Transparent, Flat!Spec

=============================================================================
