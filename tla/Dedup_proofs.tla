---------------------------- MODULE Dedup_proofs ----------------------------
(***************************************************************************)
(* For every number of names, inodes, descriptors and contents, for every  *)
(* set of calls and every combination of failures: the database of hashes  *)
(* lists no name with contents it does not have (DbFaithful), nor does the *)
(* database file (SavedFaithful), and its keys are sound (DbKeys).         *)
(*                                                                         *)
(* A hash is computed without a lock and listed later, and a rename moves  *)
(* the file before it moves the hash.  What keeps the database true across *)
(* these gaps is in BgFaithful and RenFaithful, and in who excludes whom   *)
(* (Control).                                                              *)
(***************************************************************************)
EXTENDS Dedup, FiniteSetTheorems, TLAPS

(* A descriptor is closed, or it is one of a name and an inode.             *)
FdsOK == \A d \in Desc : fds[d] = Closed \/ (fds[d].name \in Name /\ fds[d].ino \in Ino)

Working ==
    \/ bg = BgIdle
    \/ bg.pc \in {"hashing", "linked"} /\ bg.name \in Name /\ bg.md5 \in Data

(* The background thread has its file for itself, ...                       *)
BgAlone == bg.name # Null => bg.name \notin Renaming /\ \A d \in Desc : fds[d].name # bg.name

(* ... so has do_undedup() while the name is gone ...                       *)
CopyAlone == \A n \in Name : copy[n] # Null => dir[n] = Null /\ n \notin Renaming /\ n # bg.name

(* ... and a rename under way.                                              *)
RenAlone == ren # Null => ren.from # ren.to /\ dir[ren.from] = Null

(* The database file is there only while the file system is not mounted; no *)
(* hash is in it twice, nor a name.                                         *)
SavedKeys ==
    /\ \A e, f \in saved : e.md5 = f.md5 => e = f
    /\ \A e, f \in saved : e.name = f.name => e = f \/ e.name \in spoiled

Down ==
    IF mounted THEN saved = {}
    ELSE /\ SavedKeys
         /\ db = {} /\ queued = {} /\ bg = BgIdle /\ ren = Null
         /\ \A d \in Desc : fds[d] = Closed
         /\ \A n \in Name : copy[n] = Null

Control == FdsOK /\ Working /\ BgAlone /\ CopyAlone /\ RenAlone /\ Down

(* The hash that a rename will move is that of the file it has moved.       *)
RenFaithful ==
    ren # Null => \A e \in EntriesOf(ren.from) :
                     {ren.from, ren.to} \cap spoiled # {} \/ Contents(ren.to) = e.md5

(* The hash about to be listed is that of the file as it is; a file that is *)
(* about to be replaced by a link is not listed.                            *)
BgFaithful ==
    bg.name # Null => \/ bg.name \in spoiled
                      \/ bg.pc = "hashing" /\ Contents(bg.name) = bg.md5
                      \/ bg.pc = "linked" /\ EntriesOf(bg.name) = {}

Faithful == DbKeys /\ DbFaithful /\ SavedFaithful /\ RenFaithful /\ BgFaithful

IInv == TypeOK /\ Control /\ Faithful

-----------------------------------------------------------------------------
(* Inodes and contents *)

(* A new inode is nobody's.                                                 *)
LEMMA FreeUnlinked ==
    ASSUME NEW i, Free(i)
    PROVE  \A n \in Name : dir[n] # i
<1> DEFINE A == {n \in Name : dir[n] = i}
<1>1. A \in SUBSET Name
  OBVIOUS
<1>2. IsFiniteSet(A)
  BY <1>1, FS_Subset, DedupConstants
<1>3. Cardinality(A) \in Nat
  BY <1>2, FS_CardinalityType
<1>4. Cardinality(A) = 0
  <2> HIDE DEF A
  <2>1. Cardinality(A) + (IF bg.ino = i THEN 1 ELSE 0) + (IF i \in litter THEN 1 ELSE 0) = 0
    BY DEF Free, Nlink, A
  <2> QED
    BY <1>3, <2>1
<1>5. A = {}
  BY <1>2, <1>4, FS_EmptySet
<1> QED
  BY <1>5

(* A new file in the place of n changes what n contains and nothing else.   *)
LEMMA ReplaceEffect ==
    ASSUME TypeOK, NEW n \in Name, NEW i \in Ino, NEW c \in Data, Replace(n, i, c)
    PROVE  /\ dir' \in [Name -> Ino \cup {Null}] /\ data' \in [Ino -> Data]
           /\ fds' \in [Desc -> [name : Name \cup {Null}, ino : Ino \cup {Null}, writes : BOOLEAN]]
           /\ dir'[n] # Null /\ Contents(n)' = c
           /\ \A m \in Name : m # n => dir'[m] = dir[m] /\ Contents(m)' = Contents(m)
           /\ \A d \in Desc : /\ fds'[d].name = fds[d].name
                              /\ fds'[d] = fds[d] \/ (fds[d].name = n /\ fds'[d].ino \in Ino)
<1>1. /\ dir' = [dir EXCEPT ![n] = i] /\ data' = [data EXCEPT ![i] = c]
      /\ fds' = [d \in Desc |-> IF fds[d].name = n THEN [fds[d] EXCEPT !.ino = i] ELSE fds[d]]
  BY DEF Replace
<1>2. \A m \in Name : dir[m] # i
  BY FreeUnlinked DEF Replace
<1>3. dir' \in [Name -> Ino \cup {Null}] /\ data' \in [Ino -> Data] /\ dir'[n] # Null
  BY <1>1, DedupConstants DEF TypeOK
<1>4. Contents(n)' = c /\ \A m \in Name : m # n => dir'[m] = dir[m] /\ Contents(m)' = Contents(m)
  BY <1>1, <1>2, DedupConstants DEF TypeOK, Contents
<1>5. /\ fds' \in [Desc -> [name : Name \cup {Null}, ino : Ino \cup {Null}, writes : BOOLEAN]]
      /\ \A d \in Desc : /\ fds'[d].name = fds[d].name
                         /\ fds'[d] = fds[d] \/ (fds[d].name = n /\ fds'[d].ino \in Ino)
  BY <1>1 DEF TypeOK
<1> QED
  BY <1>3, <1>4, <1>5

-----------------------------------------------------------------------------
(* The database *)

(* Once the hash of n has been dropped, n is listed only if it is spoiled:  *)
(* dedup_discard() would find no second entry, and it trusts `deduped'.     *)
LEMMA DropHashEffect ==
    ASSUME DbKeys, NEW n \in Name, DropHash(n)
    PROVE  /\ db' \subseteq db
           /\ \A e \in db' : e.name = n => n \in spoiled
<1>1. CASE deduped[n] /\ EntriesOf(n) # {}
  <2>1. PICK e \in EntriesOf(n) : db' = db \ {e}
    BY <1>1 DEF DropHash
  <2> QED
    BY <2>1 DEF DbKeys, EntriesOf
<1>2. CASE ~(deduped[n] /\ EntriesOf(n) # {})
  BY <1>2 DEF DropHash, DbKeys, EntriesOf
<1> QED
  BY <1>1, <1>2

\* A name whose being spoiled is remembered.
Tracked(m) == m = bg.name \/ m \in Renaming \/ \E e \in db' : e.name = m

(* A call on n, which changes the contents of other names only if it spoils *)
(* them, and takes n off the database if it changes the contents of n.      *)
LEMMA CallFaithful ==
    ASSUME IInv, NEW n, n \notin Renaming, mounted, mounted' = mounted, saved' = saved,
           ren' = ren, bg' = bg, db' \subseteq db,
           \A m \in Name : m # n => Contents(m)' = Contents(m) \/ ~Tracked(m) \/ m \in spoiled',
           \A m \in spoiled : Tracked(m) => m \in spoiled',
           \A m \in Name : m # n => deduped'[m] = deduped[m],
           n = bg.name => Contents(n)' = Contents(n) \/ Contents(n) = Null,
           \A e \in db' : e.name = n => n \in spoiled \/ (Contents(n)' = Contents(n) /\ deduped'[n])
    PROVE  Faithful'
<1> USE DEF IInv
<1>1. /\ \A e \in db : e.name \in Name /\ e.md5 \in Data
      /\ \A e \in db' : Tracked(e.name)
      /\ Renaming' = Renaming
      /\ Tracked(bg.name)
  BY DEF TypeOK, Entry, Tracked, Renaming
<1>2. DbKeys'
  BY <1>1 DEF Faithful, DbKeys
<1>3. DbFaithful'
  BY <1>1 DEF Faithful, DbFaithful
<1>4. SavedFaithful'
  BY DEF Control, Down, SavedFaithful
<1>5. RenFaithful'
  <2> SUFFICES ASSUME ren # Null, NEW e \in db', e.name = ren.from,
                      ren.from \notin spoiled', ren.to \notin spoiled'
               PROVE  Contents(ren.to)' = e.md5
    BY DEF RenFaithful, EntriesOf
  <2>1. ren.from \in Renaming /\ ren.to \in Renaming /\ ren.to \in Name /\ ren.to # n
    BY DEF Renaming, TypeOK
  <2>2. Tracked(ren.from) /\ Tracked(ren.to)
    BY <2>1 DEF Tracked
  <2> QED
    BY <2>1, <2>2 DEF Faithful, RenFaithful, EntriesOf
<1>6. BgFaithful'
  <2> SUFFICES ASSUME bg.name # Null, bg.name \notin spoiled'
               PROVE  \/ bg.pc = "hashing" /\ Contents(bg.name)' = bg.md5
                      \/ bg.pc = "linked" /\ EntriesOf(bg.name)' = {}
    BY DEF BgFaithful
  <2>1. bg.name \in Name /\ bg.name \notin spoiled /\ bg.md5 \in Data
    BY <1>1 DEF Control, Working, BgIdle
  <2>2. CASE bg.pc = "hashing" /\ Contents(bg.name) = bg.md5
    <3>1. Contents(bg.name) # Null
      BY <2>1, <2>2, DedupConstants
    <3> QED
      BY <1>1, <2>1, <2>2, <3>1
  <2>3. CASE bg.pc = "linked" /\ EntriesOf(bg.name) = {}
    BY <2>3 DEF EntriesOf
  <2> QED
    BY <2>1, <2>2, <2>3 DEF Faithful, BgFaithful
<1> QED
  BY <1>2, <1>3, <1>4, <1>5, <1>6 DEF Faithful

(* dedup_discard() on n by a caller that goes on to change the inode i.     *)
LEMMA DiscardEffect ==
    ASSUME IInv, NEW n \in Name, NEW i, Discard(n, i)
    PROVE  /\ db' \subseteq db /\ db' \in SUBSET Entry
           /\ deduped' \in [Name -> BOOLEAN] /\ spoiled' \in SUBSET Name
           /\ \A m \in Name : m # n => deduped'[m] = deduped[m]
           /\ \A e \in db' : e.name = n => n \in spoiled
           /\ \A m \in spoiled : Tracked(m) => m \in spoiled'
           /\ \A m \in Sharers(n, i) : Tracked(m) => m \in spoiled'
<1> USE DEF IInv
<1>1. db' \subseteq db /\ \A e \in db' : e.name = n => n \in spoiled
  BY DropHashEffect DEF Faithful, Discard
<1>2. deduped' = [deduped EXCEPT ![n] = FALSE] /\ Spoil(Sharers(n, i))
  BY DEF Discard
<1>3. \A m : m \in spoiled' <=> m \in spoiled \cup Sharers(n, i) /\ Tracked(m)
  BY <1>2 DEF Spoil, Tracked
<1>4. Sharers(n, i) \subseteq Name
  BY DEF Sharers
<1> QED
  BY <1>1, <1>2, <1>3, <1>4 DEF TypeOK

\* What a call on a name does not touch.
Elsewhere == <<litter, saved, queued, redup, ren, bg, mounted>>

(* Calls that open and close descriptors.                                   *)
LEMMA OpenInv ==
    ASSUME IInv, NEW d \in Desc, NEW n \in Name, NEW w \in BOOLEAN, Open(d, n, w)
    PROVE  IInv'
<1> USE DEF IInv
<1>1. /\ n \notin Renaming /\ n # bg.name /\ mounted /\ dir[n] \in Ino
      /\ fds' = [fds EXCEPT ![d] = [name |-> n, ino |-> dir[n], writes |-> w]]
      /\ UNCHANGED <<dir, data, litter, db, saved, deduped, queued, redup, copy, ren, bg, mounted, spoiled>>
  BY DEF Open, Stable, Locked, TypeOK
<1>2. TypeOK'
  BY <1>1 DEF TypeOK
<1>3. Control'
  BY <1>1 DEF Control, FdsOK, Working, BgAlone, CopyAlone, RenAlone, Down, Renaming, TypeOK
<1>4. Faithful'
  BY <1>1 DEF Faithful, DbKeys, DbFaithful, SavedFaithful, RenFaithful, BgFaithful, Contents, Renaming, EntriesOf
<1> QED
  BY <1>2, <1>3, <1>4

(* Closing a descriptor.                                                    *)
LEMMA ReleaseInv ==
    ASSUME IInv, NEW d \in Desc, Release(d)
    PROVE  IInv'
<1> USE DEF IInv
<1>1. /\ fds' = [fds EXCEPT ![d] = Closed] /\ fds[d] # Closed /\ mounted
      /\ UNCHANGED <<dir, data, litter, db, saved, deduped, queued, redup, copy, ren, bg, mounted, spoiled>>
  BY DEF Release, Control, Down
<1>2. TypeOK'
  BY <1>1 DEF TypeOK, Closed
<1>3. Control'
  BY <1>1 DEF Control, FdsOK, Working, BgAlone, CopyAlone, RenAlone, Down, Renaming, TypeOK, Closed
<1>4. Faithful'
  BY <1>1 DEF Faithful, DbKeys, DbFaithful, SavedFaithful, RenFaithful, BgFaithful, Contents, Renaming, EntriesOf
<1> QED
  BY <1>2, <1>3, <1>4

(* Undoing a link: the name is gone, and with it its hash, ...              *)
LEMMA UndedupInv ==
    ASSUME IInv, NEW n \in Name, NEW i \in Ino, Undedup(n, i)
    PROVE  IInv'
<1> USE DEF IInv
<1>1. /\ n \notin Renaming /\ n # bg.name /\ mounted /\ dir[n] \in Ino /\ i # Null
      /\ Discard(n, Null)
      /\ data' = [data EXCEPT ![i] = data[dir[n]]]
      /\ copy' = [copy EXCEPT ![n] = i]
      /\ dir' = [dir EXCEPT ![n] = Null]
      /\ UNCHANGED Elsewhere /\ fds' = fds
  BY DedupConstants DEF Undedup, Stable, Locked, TypeOK, Elsewhere
<1>2. \A m \in Name : dir[m] # i
  BY FreeUnlinked DEF Undedup
<1>3. /\ db' \subseteq db /\ db' \in SUBSET Entry
      /\ deduped' \in [Name -> BOOLEAN] /\ spoiled' \in SUBSET Name
      /\ \A m \in Name : m # n => deduped'[m] = deduped[m]
      /\ \A e \in db' : e.name = n => n \in spoiled
      /\ \A m \in spoiled : Tracked(m) => m \in spoiled'
  BY <1>1, DiscardEffect
<1>4. TypeOK'
  BY <1>1, <1>3 DEF TypeOK, Elsewhere
<1>5. Control'
  BY <1>1 DEF Control, FdsOK, Working, BgAlone, CopyAlone, RenAlone, Down, Renaming, TypeOK, Elsewhere
<1>6. \A m \in Name : m # n => Contents(m)' = Contents(m)
  BY <1>1, <1>2 DEF Contents, TypeOK
<1>7. Faithful'
  BY <1>1, <1>3, <1>6, CallFaithful DEF Elsewhere
<1> QED
  BY <1>4, <1>5, <1>7

(* ... until the copy is there.                                             *)
LEMMA UndedupRenameInv ==
    ASSUME IInv, NEW n \in Name, NEW d \in Desc, UndedupRename(n, d)
    PROVE  IInv'
<1> USE DEF IInv
<1>1. /\ copy[n] \in Ino /\ dir[n] = Null /\ n \notin Renaming /\ n # bg.name /\ mounted
      /\ dir' = [dir EXCEPT ![n] = copy[n]]
      /\ fds' = [fds EXCEPT ![d] = [name |-> n, ino |-> copy[n], writes |-> TRUE]]
      /\ copy' = [copy EXCEPT ![n] = Null]
      /\ UNCHANGED Elsewhere /\ UNCHANGED <<data, db, deduped, spoiled>>
  BY DEF UndedupRename, TypeOK, Control, CopyAlone, Down, Elsewhere
<1>2. TypeOK'
  BY <1>1 DEF TypeOK, Elsewhere
<1>3. Control'
  BY <1>1 DEF Control, FdsOK, Working, BgAlone, CopyAlone, RenAlone, Down, Renaming, TypeOK, Elsewhere
<1>4. \A m \in Name : m # n => Contents(m)' = Contents(m)
  BY <1>1 DEF Contents, TypeOK
<1>5. \A e \in db' : e.name = n => n \in spoiled
  BY <1>1, DedupConstants DEF Contents, TypeOK, Entry, Faithful, DbFaithful
<1>6. Faithful'
  BY <1>1, <1>4, <1>5, CallFaithful DEF Elsewhere
<1> QED
  BY <1>2, <1>3, <1>6

(* A failure on the way: the name may be lost, the hash is in any case.     *)
LEMMA UndedupFailsInv ==
    ASSUME IInv, NEW n \in Name, UndedupFails(n)
    PROVE  IInv'
<1> USE DEF IInv
<1>1. UNCHANGED Elsewhere /\ data' = data /\ fds' = fds
  BY DEF UndedupFails, Elsewhere
<1>2. CASE Stable(n) /\ Discard(n, Null) /\ UNCHANGED <<dir, copy>>
  <2>1. n \notin Renaming /\ n # bg.name /\ mounted
    BY <1>2 DEF Stable, Locked
  <2>2. /\ db' \subseteq db /\ db' \in SUBSET Entry
        /\ deduped' \in [Name -> BOOLEAN] /\ spoiled' \in SUBSET Name
        /\ \A m \in Name : m # n => deduped'[m] = deduped[m]
        /\ \A e \in db' : e.name = n => n \in spoiled
        /\ \A m \in spoiled : Tracked(m) => m \in spoiled'
    BY <1>2, DiscardEffect
  <2>3. TypeOK'
    BY <1>1, <1>2, <2>2 DEF TypeOK, Elsewhere
  <2>4. Control'
    BY <1>1, <1>2, <2>1, <2>2
       DEF Control, FdsOK, Working, BgAlone, CopyAlone, RenAlone, Down, Renaming, TypeOK, Elsewhere
  <2>5. \A m \in Name : Contents(m)' = Contents(m)
    BY <1>1, <1>2 DEF Contents
  <2>6. Faithful'
    BY <1>1, <2>1, <2>2, <2>5, CallFaithful DEF Elsewhere
  <2> QED
    BY <2>3, <2>4, <2>6
<1>3. CASE /\ copy[n] # Null /\ copy' = [copy EXCEPT ![n] = Null]
           /\ dir' \in {dir, [dir EXCEPT ![n] = copy[n]]}
           /\ UNCHANGED <<db, deduped, spoiled>>
  <2>1. copy[n] \in Ino /\ dir[n] = Null /\ n \notin Renaming /\ n # bg.name /\ mounted
    BY <1>3 DEF TypeOK, Control, CopyAlone, Down
  <2>2. TypeOK'
    BY <1>1, <1>3, <2>1 DEF TypeOK, Elsewhere
  <2>3. Control'
    BY <1>1, <1>3, <2>1
       DEF Control, FdsOK, Working, BgAlone, CopyAlone, RenAlone, Down, Renaming, TypeOK, Elsewhere
  <2>4. \A m \in Name : m # n => Contents(m)' = Contents(m)
    BY <1>1, <1>3 DEF Contents, TypeOK
  <2>5. \A e \in db' : e.name = n => n \in spoiled
    BY <1>3, <2>1, DedupConstants DEF Contents, TypeOK, Entry, Faithful, DbFaithful
  <2>6. Faithful'
    BY <1>1, <1>3, <2>1, <2>4, <2>5, CallFaithful DEF Elsewhere
  <2> QED
    BY <2>2, <2>3, <2>6
<1> QED
  BY <1>2, <1>3 DEF UndedupFails

(* A write, and a truncate in place, change an inode that others may have.  *)
LEMMA WriteInv ==
    ASSUME IInv, NEW n \in Name, NEW i \in Ino, NEW c \in Data,
           mounted, n \notin Renaming, n # bg.name,
           Discard(n, i), data' = [data EXCEPT ![i] = c],
           UNCHANGED Elsewhere, UNCHANGED <<dir, fds, copy>>
    PROVE  IInv'
<1> USE DEF IInv
<1>1. /\ db' \subseteq db /\ db' \in SUBSET Entry
      /\ deduped' \in [Name -> BOOLEAN] /\ spoiled' \in SUBSET Name
      /\ \A m \in Name : m # n => deduped'[m] = deduped[m]
      /\ \A e \in db' : e.name = n => n \in spoiled
      /\ \A m \in spoiled : Tracked(m) => m \in spoiled'
      /\ \A m \in Sharers(n, i) : Tracked(m) => m \in spoiled'
  BY DiscardEffect
<1>2. TypeOK'
  BY <1>1 DEF TypeOK, Elsewhere
<1>3. Control'
  BY <1>1 DEF Control, FdsOK, Working, BgAlone, CopyAlone, RenAlone, Down, Renaming, TypeOK, Elsewhere
<1>4. \A m \in Name : m # n => Contents(m)' = Contents(m) \/ m \in Sharers(n, i)
  BY DedupConstants DEF Contents, TypeOK, Sharers
<1>5. Faithful'
  BY <1>1, <1>4, CallFaithful DEF Elsewhere
<1> QED
  BY <1>2, <1>3, <1>5

(* A new file in the place of n, whose hash is dropped.                     *)
LEMMA ReplaceInv ==
    ASSUME IInv, NEW n \in Name, NEW i \in Ino, NEW c \in Data,
           mounted, n \notin Renaming, n # bg.name, copy[n] = Null,
           Discard(n, Null), Replace(n, i, c),
           UNCHANGED Elsewhere, UNCHANGED <<copy>>
    PROVE  IInv'
<1> USE DEF IInv
<1>1. /\ db' \subseteq db /\ db' \in SUBSET Entry
      /\ deduped' \in [Name -> BOOLEAN] /\ spoiled' \in SUBSET Name
      /\ \A m \in Name : m # n => deduped'[m] = deduped[m]
      /\ \A e \in db' : e.name = n => n \in spoiled
      /\ \A m \in spoiled : Tracked(m) => m \in spoiled'
  BY DiscardEffect
<1>2. /\ dir' \in [Name -> Ino \cup {Null}] /\ data' \in [Ino -> Data]
      /\ fds' \in [Desc -> [name : Name \cup {Null}, ino : Ino \cup {Null}, writes : BOOLEAN]]
      /\ \A m \in Name : m # n => dir'[m] = dir[m] /\ Contents(m)' = Contents(m)
      /\ \A d \in Desc : /\ fds'[d].name = fds[d].name
                         /\ fds'[d] = fds[d] \/ (fds[d].name = n /\ fds'[d].ino \in Ino)
  BY ReplaceEffect
<1>3. TypeOK'
  BY <1>1, <1>2 DEF TypeOK, Elsewhere
<1>4. Control'
  BY <1>1, <1>2 DEF Control, FdsOK, Working, BgAlone, CopyAlone, RenAlone, Down, Renaming, TypeOK, Elsewhere
<1>5. Faithful'
  BY <1>1, <1>2, CallFaithful DEF Elsewhere
<1> QED
  BY <1>3, <1>4, <1>5

(* A call that fails after it has dropped the hash.                         *)
LEMMA FruitlessInv ==
    ASSUME IInv, NEW n \in Name, mounted, n \notin Renaming,
           Discard(n, Null), UNCHANGED Elsewhere, UNCHANGED <<dir, data, fds, copy>>
    PROVE  IInv'
<1> USE DEF IInv
<1>1. /\ db' \subseteq db /\ db' \in SUBSET Entry
      /\ deduped' \in [Name -> BOOLEAN] /\ spoiled' \in SUBSET Name
      /\ \A m \in Name : m # n => deduped'[m] = deduped[m]
      /\ \A e \in db' : e.name = n => n \in spoiled
      /\ \A m \in spoiled : Tracked(m) => m \in spoiled'
  BY DiscardEffect
<1>2. TypeOK'
  BY <1>1 DEF TypeOK, Elsewhere
<1>3. Control'
  BY <1>1 DEF Control, FdsOK, Working, BgAlone, CopyAlone, RenAlone, Down, Renaming, TypeOK, Elsewhere
<1>4. \A m : Contents(m)' = Contents(m)
  BY DEF Contents
<1>5. Faithful'
  BY <1>1, <1>4, CallFaithful DEF Elsewhere
<1> QED
  BY <1>2, <1>3, <1>5

(* Changes of the directory at n that keep what n contains, or bring back a *)
(* name that had been gone: no hash is dropped.                             *)
LEMMA DirInv ==
    ASSUME IInv, NEW n \in Name, mounted, n \notin Renaming, copy[n] = Null,
           dir' \in [Name -> Ino \cup {Null}], data' \in [Ino -> Data],
           fds' \in [Desc -> [name : Name \cup {Null}, ino : Ino \cup {Null}, writes : BOOLEAN]],
           \A m \in Name : m # n => dir'[m] = dir[m] /\ Contents(m)' = Contents(m),
           \A d \in Desc : /\ fds'[d].name = fds[d].name
                           /\ fds'[d] = fds[d] \/ (fds[d].name = n /\ fds'[d].ino \in Ino),
           Contents(n)' = Contents(n) \/ dir[n] = Null,
           UNCHANGED Elsewhere, UNCHANGED <<db, deduped, copy, spoiled>>
    PROVE  IInv'
<1> USE DEF IInv
<1>1. TypeOK'
  BY DEF TypeOK, Elsewhere
<1>2. Control'
  BY DEF Control, FdsOK, Working, BgAlone, CopyAlone, RenAlone, Down, Renaming, TypeOK, Elsewhere
<1>3. Contents(n)' = Contents(n) \/ Contents(n) = Null
  BY DEF Contents
<1>4. ASSUME NEW e \in db', e.name = n
      PROVE  n \in spoiled \/ (Contents(n)' = Contents(n) /\ deduped'[n])
  <2>1. e \in db /\ e.md5 # Null
    BY <1>4, DedupConstants DEF TypeOK, Entry
  <2>2. n \in spoiled \/ (deduped[n] /\ Contents(n) = e.md5)
    BY <1>4, <2>1 DEF Faithful, DbKeys, DbFaithful
  <2> QED
    BY <1>3, <1>4, <2>1, <2>2
<1>5. Faithful'
  BY <1>3, <1>4, CallFaithful DEF Elsewhere
<1> QED
  BY <1>1, <1>2, <1>5

(* Changes of flags and queue.                                              *)
LEMMA FlagInv ==
    ASSUME IInv, NEW n \in Name, n \notin Renaming, mounted,
           deduped' \in [Name -> BOOLEAN],
           \A m \in Name : m # n => deduped'[m] = deduped[m],
           \A e \in db : e.name = n => n \in spoiled \/ deduped'[n],
           queued' \in SUBSET Name, redup' \in BOOLEAN,
           UNCHANGED <<dir, data, litter, db, saved, fds, copy, ren, bg, mounted, spoiled>>
    PROVE  IInv'
<1> USE DEF IInv
<1>1. TypeOK'
  BY DEF TypeOK
<1>2. Control'
  BY DEF Control, FdsOK, Working, BgAlone, CopyAlone, RenAlone, Down, Renaming
<1>3. \A m : Contents(m)' = Contents(m)
  BY DEF Contents
<1>4. Faithful'
  BY <1>3, CallFaithful
<1> QED
  BY <1>1, <1>2, <1>4

(* The calls on one name and the steps of the table, one by one.            *)
LEMMA OnNameInv ==
    ASSUME IInv, NEW n \in Name, OnName(n), ~\E m \in Name : Rename(n, m)
    PROVE  IInv'
<1> USE DEF IInv
<1>1. CASE \E d \in Desc, w \in BOOLEAN : Open(d, n, w)
  BY <1>1, OpenInv
<1>2. CASE \E i \in Ino : Undedup(n, i)
  BY <1>2, UndedupInv
<1>3. CASE \E i \in Ino : Decompress(n, i) \/ LinkDecompress(n, i)
  <2>1. PICK i \in Ino : Decompress(n, i) \/ LinkDecompress(n, i)
    BY <1>3
  <2>2. /\ mounted /\ n \notin Renaming /\ copy[n] = Null /\ dir[n] \in Ino
        /\ Replace(n, i, data[dir[n]])
        /\ UNCHANGED Elsewhere /\ UNCHANGED <<db, deduped, copy, spoiled>>
    BY <2>1 DEF Decompress, LinkDecompress, Stable, Locked, TypeOK, Elsewhere
  <2>3. PICK c \in Data : c = data[dir[n]]
    BY <2>2 DEF TypeOK
  <2>4. Replace(n, i, c) /\ Contents(n) = c
    BY <2>2, <2>3, DedupConstants DEF Contents
  <2>5. /\ dir' \in [Name -> Ino \cup {Null}] /\ data' \in [Ino -> Data]
        /\ fds' \in [Desc -> [name : Name \cup {Null}, ino : Ino \cup {Null}, writes : BOOLEAN]]
        /\ Contents(n)' = c
        /\ \A m \in Name : m # n => dir'[m] = dir[m] /\ Contents(m)' = Contents(m)
        /\ \A d \in Desc : /\ fds'[d].name = fds[d].name
                           /\ fds'[d] = fds[d] \/ (fds[d].name = n /\ fds'[d].ino \in Ino)
    BY <2>4, ReplaceEffect
  <2> QED
    BY <2>2, <2>4, <2>5, DirInv
<1>4. CASE \E d \in Desc : UndedupRename(n, d)
  BY <1>4, UndedupRenameInv
<1>5. CASE UndedupFails(n)
  BY <1>5, UndedupFailsInv
<1>6. CASE Unlink(n)
  <2>1. /\ n \notin Renaming /\ n # bg.name /\ mounted /\ DropHash(n) /\ Spoil({})
        /\ dir' = [dir EXCEPT ![n] = Null] /\ queued' = queued \ {n}
        /\ deduped' = [deduped EXCEPT ![n] = NewFile(n, db', redup)]
        /\ UNCHANGED <<data, litter, saved, redup, fds, copy, ren, bg, mounted>>
    BY <1>6 DEF Unlink, Stable, Locked
  <2>2. db' \subseteq db /\ \A e \in db' : e.name = n => n \in spoiled
    BY <2>1, DropHashEffect DEF Faithful
  <2>3. /\ deduped' \in [Name -> BOOLEAN]
        /\ \A m \in Name : m # n => deduped'[m] = deduped[m]
    BY <2>1 DEF TypeOK, NewFile
  <2>4. spoiled' \subseteq spoiled /\ \A m \in spoiled : Tracked(m) => m \in spoiled'
    BY <2>1 DEF Spoil, Tracked
  <2>5. TypeOK'
    BY <2>1, <2>2, <2>3, <2>4 DEF TypeOK
  <2>6. Control'
    BY <2>1, <2>2 DEF Control, FdsOK, Working, BgAlone, CopyAlone, RenAlone, Down, Renaming, TypeOK
  <2>7. \A m \in Name : m # n => Contents(m)' = Contents(m)
    BY <2>1 DEF Contents, TypeOK
  <2>8. Faithful'
    BY <2>1, <2>2, <2>3, <2>4, <2>7, CallFaithful
  <2> QED
    BY <2>5, <2>6, <2>8
<1>7. CASE CallFails(n)
  <2>1. /\ n \notin Renaming /\ n # bg.name /\ mounted /\ Discard(n, Null)
        /\ dir[n] \in Ino /\ data' = data
        /\ UNCHANGED Elsewhere /\ UNCHANGED <<dir, data, fds, copy>>
    BY <1>7 DEF CallFails, Stable, Locked, TypeOK, Elsewhere
  <2> QED
    BY <2>1, FruitlessInv
<1>8. CASE \E c \in Data : Truncate(n, c)
  <2>1. PICK c \in Data : Truncate(n, c)
    BY <1>8
  <2>2. /\ n \notin Renaming /\ n # bg.name /\ mounted /\ copy[n] = Null /\ dir[n] \in Ino
        /\ UNCHANGED Elsewhere /\ UNCHANGED <<copy>>
    BY <2>1 DEF Truncate, Stable, Locked, TypeOK, Elsewhere
  <2>3. CASE Discard(n, dir[n]) /\ data' = [data EXCEPT ![dir[n]] = c] /\ UNCHANGED <<dir, fds>>
    <3>1. PICK i \in Ino : i = dir[n]
      BY <2>2
    <3>2. Discard(n, i) /\ data' = [data EXCEPT ![i] = c]
      BY <2>3, <3>1
    <3> QED
      BY <2>2, <2>3, <3>2, WriteInv
  <2>4. CASE Discard(n, Null) /\ \E i \in Ino : Replace(n, i, c)
    BY <2>2, <2>4, ReplaceInv
  <2> QED
    BY <2>1, <2>3, <2>4 DEF Truncate
<1>9. CASE \E c \in Data, i \in Ino : Mknod(n, i, c)
  <2>1. PICK c \in Data, i \in Ino : Mknod(n, i, c)
    BY <1>9
  <2>2. /\ mounted /\ n \notin Renaming /\ copy[n] = Null /\ dir[n] = Null
        /\ dir' = [dir EXCEPT ![n] = i] /\ data' = [data EXCEPT ![i] = c] /\ fds' = fds
        /\ UNCHANGED Elsewhere /\ UNCHANGED <<db, deduped, copy, spoiled>>
    BY <2>1 DEF Mknod, Stable, Locked, TypeOK, Elsewhere
  <2>3. \A m \in Name : dir[m] # i
    BY <2>1, FreeUnlinked DEF Mknod
  <2>4. \A m \in Name : m # n => dir'[m] = dir[m] /\ Contents(m)' = Contents(m)
    BY <2>2, <2>3 DEF Contents, TypeOK
  <2>5. /\ dir' \in [Name -> Ino \cup {Null}] /\ data' \in [Ino -> Data]
        /\ fds' \in [Desc -> [name : Name \cup {Null}, ino : Ino \cup {Null}, writes : BOOLEAN]]
    BY <2>2 DEF TypeOK
  <2> QED
    BY <2>2, <2>4, <2>5, DirInv
<1>10. CASE \E m \in Name : Link(n, m)
  <2>1. PICK m \in Name : Link(n, m)
    BY <1>10
  <2>2. /\ mounted /\ m \notin Renaming /\ copy[m] = Null /\ dir[m] = Null
        /\ dir' = [dir EXCEPT ![m] = dir[n]] /\ data' = data /\ fds' = fds
        /\ UNCHANGED Elsewhere /\ UNCHANGED <<db, deduped, copy, spoiled>>
    BY <2>1 DEF Link, Elsewhere
  <2>3. \A k \in Name : k # m => dir'[k] = dir[k] /\ Contents(k)' = Contents(k)
    BY <2>2 DEF Contents, TypeOK
  <2>4. /\ dir' \in [Name -> Ino \cup {Null}] /\ data' \in [Ino -> Data]
        /\ fds' \in [Desc -> [name : Name \cup {Null}, ino : Ino \cup {Null}, writes : BOOLEAN]]
    BY <2>2 DEF TypeOK
  <2> QED
    BY <2>2, <2>3, <2>4, DirInv
<1> QED
  BY <1>1, <1>2, <1>3, <1>4, <1>5, <1>6, <1>7, <1>8, <1>9, <1>10 DEF OnName

(* The first half of a rename: the hash is still listed under the old name, *)
(* and the file is at the new one.                                          *)
LEMMA RenameInv ==
    ASSUME IInv, NEW n \in Name, NEW m \in Name, Rename(n, m)
    PROVE  IInv'
<1> USE DEF IInv
<1> DEFINE r == [from |-> n, to |-> m]
<1>1. /\ ren = Null /\ n # m /\ dir[n] \in Ino /\ mounted
      /\ n # bg.name /\ m # bg.name /\ copy[n] = Null /\ copy[m] = Null
      /\ dir' = SysRename(n, m) /\ ren' = r
      /\ UNCHANGED <<data, litter, db, saved, deduped, queued, redup, fds, copy, bg, mounted, spoiled>>
  BY DEF Rename, Stable, Locked, TypeOK
<1>2. r \in [from : Name, to : Name] /\ r.from = n /\ r.to = m
  OBVIOUS
<1>3. r # Null
  <2> HIDE DEF r
  <2> QED
    BY <1>2, DedupConstants
<1> HIDE DEF r
<1>4. /\ dir' \in [Name -> Ino \cup {Null}] /\ dir'[n] = Null /\ dir'[m] = dir[n]
      /\ \A k \in Name \ {n, m} : dir'[k] = dir[k]
  BY <1>1 DEF SysRename, TypeOK
<1>5. Renaming = {} /\ Renaming' = {n, m}
  BY <1>1, <1>2, <1>3 DEF Renaming
<1>6. TypeOK'
  BY <1>1, <1>2, <1>4 DEF TypeOK
<1>7. Control'
  <2>1. FdsOK' /\ Working' /\ Down'
    BY <1>1 DEF Control, FdsOK, Working, Down
  <2>2. BgAlone'
    BY <1>1, <1>5 DEF Control, BgAlone
  <2>3. CopyAlone'
    BY <1>1, <1>4, <1>5 DEF Control, CopyAlone
  <2>4. RenAlone'
    BY <1>1, <1>2, <1>4 DEF RenAlone
  <2> QED
    BY <2>1, <2>2, <2>3, <2>4 DEF Control
<1>8. \A k \in Name \ {n, m} : Contents(k)' = Contents(k)
  BY <1>1, <1>4 DEF Contents
<1>9. Contents(m)' = Contents(n)
  BY <1>1, <1>4 DEF Contents
<1>10. DbKeys' /\ SavedFaithful'
  BY <1>1 DEF Faithful, DbKeys, SavedFaithful, Control, Down
<1>11. DbFaithful'
  <2> SUFFICES ASSUME NEW e \in db, e.name \notin {n, m}, e.name \notin spoiled
               PROVE  Contents(e.name)' = e.md5
    BY <1>1, <1>5 DEF DbFaithful
  <2>1. e.name \in Name \ {n, m}
    BY DEF TypeOK, Entry
  <2> QED
    BY <1>1, <1>5, <1>8, <2>1 DEF Faithful, DbFaithful
<1>12. RenFaithful'
  BY <1>1, <1>2, <1>5, <1>9 DEF RenFaithful, Faithful, DbFaithful, EntriesOf
<1>13. BgFaithful'
  BY <1>1, <1>8 DEF Faithful, BgFaithful, EntriesOf, Control, Working, BgIdle
<1> QED
  BY <1>6, <1>7, <1>10, <1>11, <1>12, <1>13 DEF Faithful

(* The second half: the hash follows.                                       *)
LEMMA RenameDbInv ==
    ASSUME IInv, RenameDb
    PROVE  IInv'
<1> USE DEF IInv
<1>1. PICK n \in Name, m \in Name : ren.from = n /\ ren.to = m
  BY DEF RenameDb, TypeOK
<1>2. /\ ren # Null /\ bg.pc # "linked" /\ n # m /\ dir[n] = Null /\ mounted
      /\ n # bg.name /\ m # bg.name /\ copy[n] = Null /\ copy[m] = Null
      /\ Renaming = {n, m}
  <2>1. Renaming = {n, m} /\ ren # Null /\ bg.pc # "linked" /\ mounted
    BY <1>1 DEF RenameDb, Renaming, Control, Down
  <2>2. n # m /\ dir[n] = Null
    BY <1>1, <2>1 DEF Control, RenAlone
  <2>3. n # bg.name /\ m # bg.name /\ copy[n] = Null /\ copy[m] = Null
    BY <2>1, DedupConstants DEF Control, BgAlone, CopyAlone
  <2> QED
    BY <2>1, <2>2, <2>3
<1>3. /\ db' \in RenamedDb(n, m)
      /\ deduped' = [deduped EXCEPT ![m] = deduped[n], ![n] = NewFile(n, db', redup)]
      /\ fds' = [d \in Desc |-> IF fds[d].name = n THEN [fds[d] EXCEPT !.name = m] ELSE fds[d]]
      /\ queued' = IF n \in queued THEN (queued \ {n}) \cup {m} ELSE queued
      /\ Spoil(IF n \in spoiled THEN {m} ELSE {})
      /\ ren' = Null
      /\ UNCHANGED <<dir, data, litter, saved, redup, copy, bg, mounted>>
  <2>1. Spoil(IF n \in spoiled THEN {m} ELSE {})
    BY <1>1, Zenon DEF RenameDb
  <2>2. db' \in RenamedDb(n, m)
    BY <1>1, Zenon DEF RenameDb
  <2> QED
    BY <1>1, <2>1, <2>2 DEF RenameDb
<1>4. \A k : k \in spoiled' <=> (k \in spoiled \/ (n \in spoiled /\ k = m)) /\ Tracked(k)
  BY <1>3 DEF Spoil, Tracked
<1>5. PICK left \in SUBSET db :
        /\ \A e \in left : e.name = m => m \in spoiled
        /\ \A e \in db : e.name = n => e \in left
        /\ IF EntriesOf(n) = {} THEN db' = left
           ELSE \E e \in EntriesOf(n) : db' = (left \ {e}) \cup {[name |-> m, md5 |-> e.md5]}
  <2>1. CASE deduped[m] /\ EntriesOf(m) # {}
    <3>1. PICK f \in EntriesOf(m) :
            IF EntriesOf(n) = {} THEN db' = db \ {f}
            ELSE \E e \in EntriesOf(n) : db' = ((db \ {f}) \ {e}) \cup {[name |-> m, md5 |-> e.md5]}
      BY <1>3, <2>1 DEF RenamedDb
    <3>2. \A e \in db \ {f} : e.name = m => m \in spoiled
      BY DEF Faithful, DbKeys, EntriesOf
    <3>3. \A e \in db : e.name = n => e \in db \ {f}
      BY <1>2 DEF EntriesOf
    <3> QED
      BY <3>1, <3>2, <3>3
  <2>2. CASE ~(deduped[m] /\ EntriesOf(m) # {})
    <3>1. IF EntriesOf(n) = {} THEN db' = db
          ELSE \E e \in EntriesOf(n) : db' = (db \ {e}) \cup {[name |-> m, md5 |-> e.md5]}
      BY <1>3, <2>2 DEF RenamedDb
    <3>2. \A e \in db : e.name = m => m \in spoiled
      BY <2>2 DEF Faithful, DbKeys, EntriesOf
    <3> QED
      BY <3>1, <3>2
  <2> QED
    BY <2>1, <2>2
(* What is listed now: entries that were, and one for m, which had been one *)
(* for n.                                                                   *)
<1>6. ASSUME NEW e \in db'
      PROVE  /\ e \in Entry
             /\ \/ e \in db /\ (e.name = m => m \in spoiled) /\ (e.name = n => n \in spoiled)
                \/ /\ e.name = m
                   /\ \E f \in db : f.name = n /\ f.md5 = e.md5 /\ f \notin db'
  <2>1. CASE EntriesOf(n) = {}
    BY <1>5, <1>6, <2>1 DEF EntriesOf, TypeOK
  <2>2. CASE EntriesOf(n) # {}
    <3>1. PICK f \in EntriesOf(n) : db' = (left \ {f}) \cup {[name |-> m, md5 |-> f.md5]}
      BY <1>5, <2>2
    <3>2. f \in db /\ f.name = n /\ f \in Entry
      BY DEF EntriesOf, TypeOK
    <3>3. f \notin db'
      BY <1>2, <3>1, <3>2 DEF Entry
    <3>4. CASE e = [name |-> m, md5 |-> f.md5]
      BY <3>2, <3>3, <3>4 DEF Entry
    <3>5. CASE e \in left \ {f}
      BY <1>5, <3>2, <3>5 DEF Faithful, DbKeys, TypeOK
    <3> QED
      BY <1>6, <3>1, <3>4, <3>5
  <2> QED
    BY <2>1, <2>2
<1>7. \A e \in db' : Tracked(e.name)
  BY DEF Tracked
<1>8. \A k \in Name : Contents(k)' = Contents(k)
  BY <1>3 DEF Contents
<1>9. deduped' \in [Name -> BOOLEAN] /\ \A k \in Name \ {n, m} : deduped'[k] = deduped[k]
  BY <1>2, <1>3 DEF TypeOK, NewFile
<1>10. deduped'[m] = deduped[n]
  BY <1>2, <1>3 DEF TypeOK
<1>11. /\ fds' \in [Desc -> [name : Name \cup {Null}, ino : Ino \cup {Null}, writes : BOOLEAN]]
       /\ \A d \in Desc : fds'[d] = fds[d] \/ (fds[d].name = n /\ fds'[d].name = m /\ fds'[d].ino = fds[d].ino)
  BY <1>3 DEF TypeOK
<1>12. TypeOK'
  <2>1. db' \in SUBSET Entry
    BY <1>6
  <2>2. spoiled' \in SUBSET Name
    BY <1>4 DEF TypeOK
  <2> QED
    BY <1>3, <1>9, <1>11, <2>1, <2>2 DEF TypeOK
<1>13. Control'
  <2>1. Renaming' = {}
    BY <1>3 DEF Renaming
  <2>2. FdsOK'
    BY <1>2, <1>11, DedupConstants DEF Control, FdsOK, Closed
  <2>3. Working' /\ CopyAlone' /\ RenAlone' /\ Down'
    BY <1>2, <1>3, <2>1 DEF Control, Working, CopyAlone, RenAlone, Down
  <2>4. BgAlone'
    BY <1>2, <1>3, <1>11, <2>1 DEF Control, BgAlone
  <2> QED
    BY <2>2, <2>3, <2>4 DEF Control
<1>14. DbKeys'
  <2>1. \A e, f \in db' : e.md5 = f.md5 => e = f
    <3> SUFFICES ASSUME NEW e \in db', NEW f \in db', e.md5 = f.md5
                 PROVE  e = f
      OBVIOUS
    <3>1. PICK e1 \in db : e1.md5 = e.md5 /\ (e1 = e \/ (e.name = m /\ e1.name = n /\ e1 \notin db'))
      BY <1>6
    <3>2. PICK f1 \in db : f1.md5 = f.md5 /\ (f1 = f \/ (f.name = m /\ f1.name = n /\ f1 \notin db'))
      BY <1>6
    <3>3. e1 = f1
      BY <3>1, <3>2 DEF Faithful, DbKeys
    <3>4. e \in Entry /\ f \in Entry
      BY <1>6
    <3> QED
      BY <3>1, <3>2, <3>3, <3>4 DEF Entry
  <2>2. \A e, f \in db' : e.name = f.name => e = f \/ e.name \in spoiled'
    <3> SUFFICES ASSUME NEW e \in db', NEW f \in db', e.name = f.name, e.name \notin spoiled'
                 PROVE  e = f
      OBVIOUS
    <3>1. e.name \notin spoiled /\ (e.name = m => n \notin spoiled)
      BY <1>4, <1>7
    <3>2. CASE e.name = m
      <4>1. PICK e1 \in db : e1.name = n /\ e1.md5 = e.md5
        BY <1>6, <3>1, <3>2
      <4>2. PICK f1 \in db : f1.name = n /\ f1.md5 = f.md5
        BY <1>6, <3>1, <3>2
      <4>3. e1 = f1
        BY <3>1, <3>2, <4>1, <4>2 DEF Faithful, DbKeys
      <4>4. e \in Entry /\ f \in Entry
        BY <1>6
      <4> QED
        BY <4>1, <4>2, <4>3, <4>4 DEF Entry
    <3>3. CASE e.name # m
      BY <1>6, <3>1, <3>3 DEF Faithful, DbKeys
    <3> QED
      BY <3>2, <3>3
  <2>3. ASSUME NEW e \in db', e.name \notin spoiled'
        PROVE  deduped'[e.name]
    <3>1. e.name \notin spoiled /\ (e.name = m => n \notin spoiled)
      BY <1>4, <1>7, <2>3
    <3>2. CASE e.name = m
      BY <1>6, <1>10, <3>1, <3>2 DEF Faithful, DbKeys
    <3>3. CASE e.name # m
      <4>1. e \in db /\ e.name # n /\ e.name \in Name
        BY <1>6, <3>1, <3>3 DEF Entry
      <4> QED
        BY <1>9, <3>1, <3>3, <4>1 DEF Faithful, DbKeys
    <3> QED
      BY <3>2, <3>3
  <2> QED
    BY <2>1, <2>2, <2>3 DEF DbKeys
<1>15. DbFaithful'
  <2> SUFFICES ASSUME NEW e \in db', e.name \notin spoiled'
               PROVE  Contents(e.name)' = e.md5
    BY DEF DbFaithful
  <2>1. e.name \notin spoiled /\ (e.name = m => n \notin spoiled) /\ e.name \in Name
    BY <1>4, <1>6, <1>7 DEF Entry
  <2>2. CASE e.name = m
    <3>1. PICK f \in db : f.name = n /\ f.md5 = e.md5
      BY <1>6, <2>1, <2>2
    <3>2. Contents(m) = f.md5
      BY <1>1, <1>2, <2>1, <2>2, <3>1 DEF Faithful, RenFaithful, EntriesOf
    <3> QED
      BY <1>8, <2>2, <3>1, <3>2
  <2>3. CASE e.name # m
    BY <1>2, <1>6, <1>8, <2>1, <2>3 DEF Faithful, DbFaithful
  <2> QED
    BY <2>2, <2>3
<1>16. SavedFaithful' /\ RenFaithful'
  BY <1>2, <1>3 DEF SavedFaithful, RenFaithful, Control, Down
<1>17. BgFaithful'
  <2>1. bg.name # Null => bg.name \in Name /\ bg.pc = "hashing" /\ Tracked(bg.name)
    BY <1>2 DEF Control, Working, BgIdle, Tracked
  <2> QED
    BY <1>3, <1>4, <1>8, <2>1 DEF Faithful, BgFaithful
<1> QED
  BY <1>12, <1>13, <1>14, <1>15, <1>16, <1>17 DEF Faithful

(* Writing through a descriptor.                                            *)
LEMMA FdWriteInv ==
    ASSUME IInv, NEW d \in Desc, NEW c \in Data, Write(d, c)
    PROVE  IInv'
<1> USE DEF IInv
<1>1. fds[d] # Closed
  <2>1. ~Closed.writes
    BY Zenon DEF Closed
  <2>2. fds[d].writes
    BY DEF Write
  <2> QED
    BY <2>1, <2>2
<1>2. PICK n \in Name, i \in Ino : fds[d].name = n /\ fds[d].ino = i
  BY <1>1 DEF Control, FdsOK
<1>3. /\ n \notin Renaming /\ mounted
      /\ data' = [data EXCEPT ![i] = c]
      /\ UNCHANGED Elsewhere /\ UNCHANGED <<dir, fds, copy>>
  BY <1>1, <1>2 DEF Write, Locked, Elsewhere, Control, Down
<1>4. Discard(n, i)
  BY <1>2, Zenon DEF Write
<1>5. n # bg.name
  BY <1>2, DedupConstants DEF Control, BgAlone
<1> QED
  BY <1>3, <1>4, <1>5, WriteInv

(* Queueing an entry, making one anew, the magic files: flags only.         *)
LEMMA TableInv ==
    ASSUME IInv, NEW n \in Name, BackgroundDedup(n) \/ Forget(n) \/ BgSkip(n) \/ BgGone(n)
    PROVE  IInv'
<1> USE DEF IInv
<1>1. /\ n \notin Renaming
      /\ UNCHANGED <<dir, data, litter, db, saved, fds, copy, ren, bg, mounted, spoiled>> /\ redup' = redup
      /\ queued' \in {queued \cup {n}, queued \ {n}, queued}
      /\ deduped' \in {deduped, [deduped EXCEPT ![n] = TRUE], [deduped EXCEPT ![n] = NewFile(n, db, redup)]}
  BY DEF BackgroundDedup, Forget, BgSkip, BgGone, Unused, Stable, Locked
<1>2. /\ deduped' \in [Name -> BOOLEAN]
      /\ \A m \in Name : m # n => deduped'[m] = deduped[m]
      /\ deduped'[n] \in {deduped[n], TRUE, NewFile(n, db, redup)}
  BY <1>1 DEF TypeOK, NewFile
<1>3. \A e \in db : e.name = n => n \in spoiled \/ deduped'[n]
  BY <1>2 DEF Faithful, DbKeys, NewFile
<1>4. queued' \in SUBSET Name /\ redup' \in BOOLEAN
  BY <1>1 DEF TypeOK
<1>5. mounted
  BY DEF BackgroundDedup, Forget, BgSkip, BgGone, Unused, Stable, Control, Down
<1> QED
  BY <1>1, <1>2, <1>3, <1>4, <1>5, FlagInv

(* _fcredupon and _fcredupoff.                                              *)
LEMMA SetRedupInv ==
    ASSUME IInv, NEW r \in BOOLEAN, SetRedup(r)
    PROVE  IInv'
<1> USE DEF IInv
<1>1. /\ redup' = r
      /\ UNCHANGED <<dir, data, litter, db, saved, deduped, queued, fds, copy, ren, bg, mounted, spoiled>>
  BY DEF SetRedup
<1>2. TypeOK'
  BY <1>1 DEF TypeOK
<1>3. Control'
  BY <1>1 DEF Control, FdsOK, Working, BgAlone, CopyAlone, RenAlone, Down, SavedKeys, Renaming
<1>4. Faithful'
  BY <1>1 DEF Faithful, DbKeys, DbFaithful, SavedFaithful, RenFaithful, BgFaithful, Contents, Renaming, EntriesOf
<1> QED
  BY <1>2, <1>3, <1>4

(* Compression replaces a file and drops its hash.                          *)
LEMMA CompressInv ==
    ASSUME IInv, NEW n \in Name, CompressNot(n) \/ \E i \in Ino : Compress(n, i)
    PROVE  IInv'
<1> USE DEF IInv
<1>1. CASE CompressNot(n)
  <2>1. /\ n \notin Renaming /\ mounted /\ Discard(n, Null)
        /\ UNCHANGED Elsewhere /\ UNCHANGED <<dir, data, fds, copy>>
    BY <1>1 DEF CompressNot, Locked, Elsewhere
  <2> QED
    BY <2>1, FruitlessInv
<1>2. CASE \E i \in Ino : Compress(n, i)
  <2>1. PICK i \in Ino : Compress(n, i)
    BY <1>2
  <2>2. /\ n \notin Renaming /\ n # bg.name /\ mounted /\ copy[n] = Null /\ dir[n] \in Ino
        /\ Discard(n, Null) /\ Replace(n, i, data[dir[n]])
        /\ UNCHANGED Elsewhere /\ UNCHANGED <<copy>>
    BY <2>1 DEF Compress, Stable, Locked, TypeOK, Elsewhere
  <2>3. PICK c \in Data : c = data[dir[n]]
    BY <2>2 DEF TypeOK
  <2>4. Replace(n, i, c)
    BY <2>2, <2>3
  <2> QED
    BY <2>2, <2>4, ReplaceInv
<1> QED
  BY <1>1, <1>2

(* Steps of the background thread that leave directory and contents alone.  *)
LEMMA BgControl ==
    ASSUME IInv, mounted,
           bg' = BgIdle \/ (bg'.pc \in {"hashing", "linked"} /\ bg'.name \in Name /\ bg'.md5 \in Data),
           bg' = BgIdle \/ bg'.name = bg.name
              \/ (bg'.name \notin Renaming /\ copy[bg'.name] = Null /\ \A d \in Desc : fds[d].name # bg'.name),
           UNCHANGED <<dir, saved, fds, copy, ren, mounted>>
    PROVE  Control'
<1>1. Renaming' = Renaming
  BY DEF Renaming
<1>2. FdsOK' /\ Working' /\ RenAlone' /\ Down'
  BY DEF IInv, Control, FdsOK, Working, RenAlone, Down
<1>3. BgAlone'
  BY <1>1 DEF IInv, Control, BgAlone, BgIdle
<1>4. CopyAlone'
  BY <1>1, DedupConstants DEF IInv, Control, CopyAlone, BgIdle
<1> QED
  BY <1>2, <1>3, <1>4 DEF Control

(* A file is hashed as it is.                                               *)
LEMMA BgHashInv ==
    ASSUME IInv, NEW n \in Name, BgHash(n)
    PROVE  IInv'
<1> USE DEF IInv
<1>1. /\ n \notin Renaming /\ copy[n] = Null /\ dir[n] \in Ino /\ data[dir[n]] \in Data
      /\ \A d \in Desc : fds[d].name # n
      /\ queued' = queued \ {n}
      /\ bg' = [BgIdle EXCEPT !.pc = "hashing", !.name = n, !.md5 = data[dir[n]]]
      /\ UNCHANGED <<dir, data, litter, db, saved, deduped, redup, fds, copy, ren, mounted, spoiled>>
  BY DedupConstants DEF BgHash, Locked, InUse, OpenNames, TypeOK
<1>2. bg'.pc = "hashing" /\ bg'.name = n /\ bg'.md5 = data[dir[n]] /\ bg'.ino = Null /\ bg'.target = Null
  BY <1>1 DEF BgIdle
<1>3. TypeOK'
  BY <1>1 DEF TypeOK, BgIdle
<1>4. mounted
  BY DEF BgHash, Control, Down
<1>5. Control'
  BY <1>1, <1>2, <1>4, BgControl
<1>6. Contents(n) = data[dir[n]] /\ Renaming' = Renaming
  BY <1>1, DedupConstants DEF Contents, Renaming
<1>7. Faithful'
  BY <1>1, <1>2, <1>6 DEF Faithful, DbKeys, DbFaithful, SavedFaithful, RenFaithful, BgFaithful, Contents, EntriesOf
<1> QED
  BY <1>3, <1>5, <1>7

(* The thread gives up, or finds nothing to link to that it could.          *)
LEMMA BgStopInv ==
    ASSUME IInv, BgCancelled \/ BgNoLink
    PROVE  IInv'
<1> USE DEF IInv
<1>1. /\ bg.name \in Name /\ mounted
      /\ bg' = BgIdle /\ deduped' \in {deduped, [deduped EXCEPT ![bg.name] = TRUE]}
      /\ UNCHANGED <<dir, data, litter, db, saved, queued, redup, fds, copy, ren, mounted, spoiled>>
  BY DEF BgCancelled, BgNoLink, BgEnd, Control, Working, Down, BgIdle
<1>2. TypeOK' /\ \A m \in Name : deduped[m] => deduped'[m]
  BY <1>1 DEF TypeOK, BgIdle
<1>3. Control'
  BY <1>1, BgControl
<1>4. Faithful'
  BY <1>1, <1>2 DEF Faithful, DbKeys, DbFaithful, SavedFaithful, RenFaithful, BgFaithful, Contents, EntriesOf,
                    Renaming, BgIdle, TypeOK, Entry
<1> QED
  BY <1>2, <1>3, <1>4

(* A hash is listed while it is still that of the file.                     *)
LEMMA BgAddInv ==
    ASSUME IInv, BgAdd
    PROVE  IInv'
<1> USE DEF IInv
<1> DEFINE new == [name |-> bg.name, md5 |-> bg.md5]
<1>1. /\ bg.name \in Name /\ bg.md5 \in Data /\ mounted /\ bg.pc = "hashing"
      /\ bg' = BgIdle /\ deduped' = [deduped EXCEPT ![bg.name] = TRUE] /\ db' = db \cup {new}
      /\ UNCHANGED <<dir, data, litter, saved, queued, redup, fds, copy, ren, mounted, spoiled>>
      /\ \A e \in db : e.md5 # bg.md5
  BY DEF BgAdd, BgEnd, Control, Working, Down, BgIdle, Matches
<1>2. new \in Entry /\ new.name = bg.name /\ new.md5 = bg.md5
  BY <1>1 DEF Entry
<1> HIDE DEF new
<1>3. /\ deduped' \in [Name -> BOOLEAN] /\ deduped'[bg.name]
      /\ \A m \in Name : deduped[m] => deduped'[m]
  <2>1. deduped' \in [Name -> BOOLEAN] /\ \A m \in Name : m # bg.name => deduped'[m] = deduped[m]
    BY <1>1 DEF TypeOK
  <2>2. deduped'[bg.name] = TRUE
    BY <1>1 DEF TypeOK
  <2> QED
    BY <2>1, <2>2
<1>4. TypeOK'
  BY <1>1, <1>2, <1>3 DEF TypeOK, BgIdle
<1>5. Control'
  BY <1>1, BgControl
<1>6. bg.name # Null /\ bg.name \notin Renaming
  BY <1>1, DedupConstants DEF Control, BgAlone
<1>7. bg.name \in spoiled \/ Contents(bg.name) = bg.md5
  BY <1>1, <1>6 DEF Faithful, BgFaithful
<1>8. \A e \in db : e.name = bg.name => bg.name \in spoiled
  BY <1>1, <1>6, <1>7 DEF Faithful, DbFaithful
<1>9. \A e \in db : e.name \in Name
  BY DEF TypeOK, Entry
<1>10. DbKeys'
  BY <1>1, <1>2, <1>3, <1>8, <1>9 DEF Faithful, DbKeys
<1>11. Renaming' = Renaming /\ \A m \in Name : Contents(m)' = Contents(m)
  BY <1>1 DEF Renaming, Contents
<1>12. DbFaithful'
  BY <1>1, <1>2, <1>7, <1>9, <1>11 DEF Faithful, DbFaithful
<1>13. SavedFaithful' /\ BgFaithful'
  BY <1>1 DEF SavedFaithful, BgFaithful, BgIdle, Control, Down
<1>14. RenFaithful'
  <2> SUFFICES ASSUME ren # Null, NEW e \in db', e.name = ren.from
               PROVE  {ren.from, ren.to} \cap spoiled # {} \/ Contents(ren.to)' = e.md5
    BY <1>1 DEF RenFaithful, EntriesOf
  <2>1. ren.to \in Name /\ e \in db
    BY <1>1, <1>2, <1>6 DEF TypeOK, Renaming
  <2> QED
    BY <1>1, <1>11, <2>1 DEF Faithful, RenFaithful, EntriesOf
<1> QED
  BY <1>4, <1>5, <1>10, <1>12, <1>13, <1>14 DEF Faithful

(* A file that is to become a link to another is not listed itself.         *)
LEMMA BgLinkInv ==
    ASSUME IInv, BgLink
    PROVE  IInv'
<1> USE DEF IInv
<1>1. PICK e \in db :
        /\ e.md5 = bg.md5 /\ e.name # bg.name /\ dir[e.name] # Null
        /\ bg' = [bg EXCEPT !.pc = "linked", !.ino = dir[e.name], !.target = e.name]
  BY Zenon DEF BgLink, Matches
<1>2. /\ bg.name \in Name /\ bg.md5 \in Data /\ mounted /\ bg.pc = "hashing" /\ e.name \in Name
      /\ UNCHANGED <<dir, data, litter, db, saved, deduped, queued, redup, fds, copy, ren, mounted, spoiled>>
  BY DEF BgLink, Control, Working, Down, BgIdle, TypeOK, Entry
<1>3. bg'.pc = "linked" /\ bg'.name = bg.name /\ bg'.md5 = bg.md5
  BY <1>1 DEF TypeOK
<1>4. TypeOK'
  BY <1>1, <1>2 DEF TypeOK
<1>5. Control'
  BY <1>2, <1>3, BgControl
<1>6. bg.name # Null /\ bg.name \notin Renaming
  BY <1>2, DedupConstants DEF Control, BgAlone
<1>7. bg.name \in spoiled \/ EntriesOf(bg.name) = {}
  <2> SUFFICES ASSUME bg.name \notin spoiled, NEW f \in db, f.name = bg.name
               PROVE  FALSE
    BY DEF EntriesOf
  <2>1. f.md5 = bg.md5
    BY <1>2, <1>6 DEF Faithful, BgFaithful, DbFaithful
  <2> QED
    BY <1>1, <2>1 DEF Faithful, DbKeys
<1>8. Faithful'
  BY <1>2, <1>3, <1>7 DEF Faithful, DbKeys, DbFaithful, SavedFaithful, RenFaithful, BgFaithful, Contents,
                          EntriesOf, Renaming
<1> QED
  BY <1>4, <1>5, <1>8

(* The link is moved over the file.                                         *)
LEMMA BgRenameInv ==
    ASSUME IInv, BgRename
    PROVE  IInv'
<1> USE DEF IInv
<1>1. /\ bg.name \in Name /\ mounted /\ bg.pc = "linked"
      /\ bg' = BgIdle /\ deduped' = [deduped EXCEPT ![bg.name] = TRUE]
      /\ dir' = dir \/ dir' = [dir EXCEPT ![bg.name] = bg.ino]
      /\ UNCHANGED <<data, litter, db, saved, queued, redup, fds, copy, ren, mounted, spoiled>>
  BY DEF BgRename, BgEnd, Control, Working, Down, BgIdle
<1>2. /\ dir' \in [Name -> Ino \cup {Null}] /\ \A m \in Name : m # bg.name => dir'[m] = dir[m]
      /\ deduped' \in [Name -> BOOLEAN] /\ \A m \in Name : deduped[m] => deduped'[m]
  BY <1>1 DEF TypeOK
<1>3. TypeOK'
  BY <1>1, <1>2 DEF TypeOK, BgIdle
<1>4. bg.name # Null /\ bg.name \notin Renaming /\ Renaming' = Renaming
  BY <1>1, DedupConstants DEF Control, BgAlone, Renaming
<1>5. Control'
  <2>1. FdsOK' /\ Working' /\ Down' /\ BgAlone'
    BY <1>1, <1>4 DEF Control, FdsOK, Working, Down, BgAlone, BgIdle
  <2>2. CopyAlone'
    BY <1>1, <1>2, <1>4, DedupConstants DEF Control, CopyAlone, BgIdle
  <2>3. RenAlone'
    BY <1>1, <1>2, <1>4 DEF Control, RenAlone, Renaming, TypeOK
  <2> QED
    BY <2>1, <2>2, <2>3 DEF Control
<1>6. \A m \in Name : m # bg.name => Contents(m)' = Contents(m)
  BY <1>1, <1>2 DEF Contents
<1>7. \A e \in db : e.name \in Name /\ (e.name = bg.name => bg.name \in spoiled)
  BY <1>1, <1>4 DEF Faithful, BgFaithful, EntriesOf, TypeOK, Entry
<1>8. DbKeys' /\ DbFaithful'
  BY <1>1, <1>2, <1>4, <1>6, <1>7 DEF Faithful, DbKeys, DbFaithful
<1>9. SavedFaithful' /\ BgFaithful'
  BY <1>1 DEF SavedFaithful, BgFaithful, BgIdle, Control, Down
<1>10. RenFaithful'
  <2> SUFFICES ASSUME ren # Null, NEW e \in db, e.name = ren.from
               PROVE  {ren.from, ren.to} \cap spoiled # {} \/ Contents(ren.to)' = e.md5
    BY <1>1 DEF RenFaithful, EntriesOf
  <2>1. ren.to \in Name /\ ren.to # bg.name
    BY <1>4 DEF TypeOK, Renaming
  <2> QED
    BY <1>1, <1>6, <2>1 DEF Faithful, RenFaithful, EntriesOf
<1> QED
  BY <1>3, <1>5, <1>8, <1>9, <1>10 DEF Faithful

(* Unmounting writes the database, or a part of it; a crash loses it.       *)
LEMMA UnmountInv ==
    ASSUME IInv, Unmount
    PROVE  IInv'
<1> USE DEF IInv
<1>1. /\ mounted /\ queued = {} /\ bg = BgIdle /\ ren = Null /\ \A n \in Name : copy[n] = Null
      /\ saved' \subseteq db /\ db' = {} /\ mounted' = FALSE
      /\ UNCHANGED <<dir, data, litter, deduped, queued, redup, fds, copy, ren, bg, spoiled>>
  BY DEF Unmount
<1>2. \A d \in Desc : fds[d] = Closed
  <2>1. \A d \in Desc : fds[d].name = Null
    BY DEF Unmount, OpenNames
  <2> QED
    BY <2>1, DedupConstants DEF Control, FdsOK
<1>3. TypeOK'
  BY <1>1 DEF TypeOK
<1>4. Control'
  <2>1. SavedKeys'
    BY <1>1 DEF Faithful, DbKeys, SavedKeys
  <2> QED
    BY <1>1, <1>2, <2>1 DEF Control, FdsOK, Working, BgAlone, CopyAlone, RenAlone, Down, Renaming
<1>5. SavedFaithful'
  BY <1>1 DEF Faithful, DbFaithful, SavedFaithful, Renaming, Contents
<1>6. DbKeys' /\ DbFaithful' /\ RenFaithful' /\ BgFaithful'
  BY <1>1 DEF DbKeys, DbFaithful, RenFaithful, BgFaithful, BgIdle
<1> QED
  BY <1>3, <1>4, <1>5, <1>6 DEF Faithful

(* What a crash leaves: no database file, for it was removed when mounted.  *)
LEMMA CrashInv ==
    ASSUME IInv, Crash
    PROVE  IInv'
<1> USE DEF IInv
<1>1. /\ mounted /\ litter' = litter \cup ({bg.ino} \ {Null})
      /\ db' = {} /\ queued' = {} /\ fds' = [d \in Desc |-> Closed] /\ copy' = [n \in Name |-> Null]
      /\ ren' = Null /\ bg' = BgIdle /\ mounted' = FALSE /\ spoiled' = {}
      /\ UNCHANGED <<dir, data, saved, deduped, redup>>
  BY DEF Crash
<1>2. TypeOK'
  BY <1>1 DEF TypeOK, Closed, BgIdle
<1>3. Control'
  BY <1>1 DEF Control, FdsOK, Working, BgAlone, CopyAlone, RenAlone, Down, SavedKeys, BgIdle
<1>4. Faithful'
  BY <1>1 DEF Control, Down, Faithful, DbKeys, DbFaithful, SavedFaithful, RenFaithful, BgFaithful, BgIdle
<1> QED
  BY <1>2, <1>3, <1>4

(* Mounting loads what is there.                                            *)
LEMMA MountInv ==
    ASSUME IInv, Mount
    PROVE  IInv'
<1> USE DEF IInv
<1>1. /\ ~mounted /\ mounted' = TRUE /\ saved' = {} /\ redup' \in BOOLEAN
      /\ db' \subseteq saved
      /\ deduped' = [n \in Name |-> NewFile(n, db', redup')]
      /\ UNCHANGED <<dir, data, litter, queued, fds, copy, ren, bg, spoiled>>
  BY DEF Mount, Loaded
<1>2. /\ ren = Null /\ bg = BgIdle /\ SavedKeys
      /\ \A d \in Desc : fds[d] = Closed
      /\ \A n \in Name : copy[n] = Null
  BY <1>1 DEF Control, Down
<1>3. /\ deduped' \in [Name -> BOOLEAN] /\ \A e \in db' : e.name \in Name /\ deduped'[e.name]
  BY <1>1 DEF TypeOK, Entry, NewFile
<1>4. TypeOK'
  BY <1>1, <1>3 DEF TypeOK
<1>5. Control'
  BY <1>1, <1>2 DEF Control, FdsOK, Working, BgAlone, CopyAlone, RenAlone, Down, BgIdle
<1>6. DbKeys'
  BY <1>1, <1>2, <1>3 DEF DbKeys, SavedKeys
<1>7. DbFaithful'
  BY <1>1, <1>3 DEF Faithful, SavedFaithful, DbFaithful, Contents
<1>8. SavedFaithful' /\ RenFaithful' /\ BgFaithful'
  BY <1>1, <1>2 DEF SavedFaithful, RenFaithful, BgFaithful, BgIdle
<1> QED
  BY <1>4, <1>5, <1>6, <1>7, <1>8 DEF Faithful

-----------------------------------------------------------------------------
(* The theorems *)

(* A first mount: no file is a link of another, and nothing is listed.      *)
LEMMA InitInv ==
    ASSUME Init
    PROVE  IInv
<1>1. TypeOK
  BY DEF Init, TypeOK, Closed, BgIdle, NewFile
<1>2. Control
  BY <1>1 DEF Init, Control, FdsOK, Working, BgAlone, CopyAlone, RenAlone, Down, BgIdle, Closed
<1>3. Faithful
  BY DEF Init, Faithful, DbKeys, DbFaithful, SavedFaithful, RenFaithful, BgFaithful, BgIdle
<1> QED
  BY <1>1, <1>2, <1>3 DEF IInv

(* Every step keeps the invariant.                                          *)
LEMMA NextInv ==
    ASSUME IInv, [Next]_vars
    PROVE  IInv'
<1>1. CASE UNCHANGED vars
  <2>1. TypeOK'
    BY <1>1 DEF vars, IInv, TypeOK
  <2>2. Control'
    BY <1>1 DEF vars, IInv, Control, FdsOK, Working, BgAlone, CopyAlone, RenAlone, Down, SavedKeys, Renaming
  <2>3. Faithful'
    BY <1>1 DEF vars, IInv, Faithful, DbKeys, DbFaithful, SavedFaithful, RenFaithful, BgFaithful, Contents,
                EntriesOf, Renaming
  <2> QED
    BY <2>1, <2>2, <2>3 DEF IInv
<1>2. CASE BgStep
  BY <1>2, TableInv, BgHashInv, CompressInv, BgStopInv, BgAddInv, BgLinkInv, BgRenameInv DEF BgStep
<1>3. CASE \E n \in Name : OnName(n) \/ BackgroundDedup(n) \/ Forget(n)
  BY <1>3, OnNameInv, RenameInv, TableInv
<1>4. CASE \E d \in Desc : Release(d) \/ \E c \in Data : Write(d, c)
  BY <1>4, ReleaseInv, FdWriteInv
<1>5. CASE RenameDb \/ (\E r \in BOOLEAN : SetRedup(r)) \/ Unmount \/ Crash \/ Mount
  BY <1>5, RenameDbInv, SetRedupInv, UnmountInv, CrashInv, MountInv
<1> QED
  BY <1>1, <1>2, <1>3, <1>4, <1>5 DEF Next

(* The strengthening holds in every state.                                  *)
THEOREM Invariance == Spec => []IInv
<1>1. Init => IInv
  BY InitInv
<1>2. IInv /\ [Next]_vars => IInv'
  BY NextInv
<1> QED
  BY <1>1, <1>2, PTL DEF Spec

(* Every variable has its type, in every instance.                          *)
THEOREM TypeCorrect == Spec => []TypeOK
<1>1. IInv => TypeOK
  BY DEF IInv
<1> QED
  BY <1>1, Invariance, PTL

(* The database never lists a name with contents that it does not have, so  *)
(* that hardlink_file(), which does not compare files, links equal ones.    *)
THEOREM DatabaseTrue == Spec => []DbFaithful
<1>1. IInv => DbFaithful
  BY DEF IInv, Faithful
<1> QED
  BY <1>1, Invariance, PTL

(* What dedup_load() reads is true: dedup_save() wrote a true database, and *)
(* the file is gone as long as the files it lists may change.               *)
THEOREM DatabaseFileTrue == Spec => []SavedFaithful
<1>1. IInv => SavedFaithful
  BY DEF IInv, Faithful
<1> QED
  BY <1>1, Invariance, PTL

(* Hashes and names are keys of the database, and a listed file is marked,  *)
(* which dedup_discard() relies on to find it.                              *)
THEOREM DatabaseKeys == Spec => []DbKeys
<1>1. IInv => DbKeys
  BY DEF IInv, Faithful
<1> QED
  BY <1>1, Invariance, PTL

=============================================================================
