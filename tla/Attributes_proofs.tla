-------------------------- MODULE Attributes_proofs --------------------------
(***************************************************************************)
(* For every number of names, inodes and threads: a name keeps the         *)
(* attributes its users gave it (AttributesKept), and only an overtaken    *)
(* chmod or chown leaves an attribute file without a file (NoOrphans).     *)
(*                                                                         *)
(* AttributesKept is not inductive: when a copy or a link takes the place  *)
(* of a file, what the name shows from then on is what the job has saved   *)
(* or the inode the job holds a link to.  JobsFaithful and LinksHeld say   *)
(* what these are while the job is under way.                              *)
(***************************************************************************)
EXTENDS Attributes, FiniteSetTheorems, TLAPS

(* The inode a link was made to exists until the link is moved.             *)
LinksHeld == \A n \in BeingLinked : job[n].ino \in Ino /\ iattr[job[n].ino] # Null

(* What n shows once the job on it has ended.                               *)
Due(n) ==
    IF attr[n] # Null /\ job[n].kind # "undedup" THEN attr[n]
    ELSE IF job[n].kind = "link" THEN iattr[job[n].ino] ELSE job[n].saved

(* Unless attributes were set meanwhile, it is what users have given to n.  *)
JobsFaithful == \A n \in Name : job[n] # Null /\ ~job[n].raced => Due(n) = user[n]

IInv == TypeOK /\ AttributesKept /\ LinksHeld /\ JobsFaithful

-----------------------------------------------------------------------------
(* Counting links *)

(* Two finite sets with no element at all, and with at most one.            *)
LEMMA FewElements ==
    ASSUME NEW A, NEW B, IsFiniteSet(A), IsFiniteSet(B)
    PROVE  /\ Cardinality(A) + Cardinality(B) \in Nat
           /\ Cardinality(A) + Cardinality(B) = 0 => A = {} /\ B = {}
           /\ \A x \in A : ~(Cardinality(A) + Cardinality(B) > 1) => A = {x} /\ B = {}
<1>1. /\ Cardinality(A) \in Nat /\ Cardinality(B) \in Nat
      /\ Cardinality(A) = 0 => A = {}
      /\ Cardinality(B) = 0 => B = {}
  BY FS_CardinalityType, FS_EmptySet
<1>2. ASSUME NEW x \in A, ~(Cardinality(A) + Cardinality(B) > 1)
      PROVE  A = {x} /\ B = {}
  <2>1. IsFiniteSet(A \ {x}) /\ Cardinality(A \ {x}) = Cardinality(A) - 1
    BY FS_RemoveElement
  <2>2. Cardinality(A \ {x}) \in Nat
    BY <2>1, FS_CardinalityType
  <2>3. Cardinality(A \ {x}) = 0 /\ Cardinality(B) = 0
    BY <1>1, <1>2, <2>1, <2>2
  <2>4. A \ {x} = {}
    BY <2>1, <2>3, FS_EmptySet
  <2> QED
    BY <1>1, <2>3, <2>4
<1> QED
  BY <1>1, <1>2

(* An inode without links is nobody's, and one with a single link is the    *)
(* inode of one name and of no job.                                         *)
LEMMA LinkCount ==
    ASSUME NEW i
    PROVE  /\ Nlink(i) \in Nat
           /\ Nlink(i) = 0 => /\ \A n \in Name : dir[n] # i
                              /\ \A n \in BeingLinked : job[n].ino # i
           /\ \A n \in Name : dir[n] = i /\ ~(Nlink(i) > 1) =>
                /\ \A m \in Name : dir[m] = i => m = n
                /\ \A m \in BeingLinked : job[m].ino # i
<1> DEFINE A == Sharers(i)
           B == {n \in BeingLinked : job[n].ino = i}
<1>1. A \in SUBSET Name /\ B \in SUBSET Name
  BY DEF Sharers, BeingLinked
<1>2. IsFiniteSet(A) /\ IsFiniteSet(B)
  BY <1>1, FS_Subset, AttributesConstants
<1>3. /\ \A n \in Name : n \in A <=> dir[n] = i
      /\ \A n \in BeingLinked : n \in B <=> job[n].ino = i
      /\ Nlink(i) = Cardinality(A) + Cardinality(B)
  BY DEF Sharers, Nlink
<1> HIDE DEF A, B
<1>4. /\ Nlink(i) \in Nat
      /\ Nlink(i) = 0 => A = {} /\ B = {}
      /\ \A x \in A : ~(Nlink(i) > 1) => A = {x} /\ B = {}
  BY <1>2, <1>3, FewElements
<1> QED
  BY <1>3, <1>4

(* The inodes of names and of links that jobs hold are kept.                *)
LEMMA RemainingKeeps ==
    ASSUME NEW ia \in [Ino -> Attrs \cup {Null}], Remaining(ia)
    PROVE  /\ iattr' \in [Ino -> Attrs \cup {Null}]
           /\ \A n \in Name : dir'[n] \in Ino => iattr'[dir'[n]] = ia[dir'[n]]
           /\ \A n \in Name : job'[n] # Null /\ job'[n].kind = "link" /\ job'[n].ino \in Ino
                                 => iattr'[job'[n].ino] = ia[job'[n].ino]
<1>1. \A i \in Ino : iattr'[i] = IF Nlink(i)' = 0 THEN Null ELSE ia[i]
  BY DEF Remaining
<1>2. ASSUME NEW i \in Ino, Nlink(i)' = 0
      PROVE  /\ \A n \in Name : dir'[n] # i
             /\ \A n \in Name : job'[n] # Null /\ job'[n].kind = "link" => job'[n].ino # i
  <2> DEFINE A == {n \in Name : dir'[n] = i}
             B == {n \in Name : job'[n] # Null /\ job'[n].kind = "link" /\ job'[n].ino = i}
  <2>1. A \in SUBSET Name /\ B \in SUBSET Name
    OBVIOUS
  <2>2. IsFiniteSet(A) /\ IsFiniteSet(B)
    BY <2>1, FS_Subset, AttributesConstants
  <2>3. {n \in BeingLinked' : job'[n].ino = i} = B
    BY DEF BeingLinked
  <2>4. Nlink(i)' = Cardinality(A) + Cardinality(B)
    BY <2>3 DEF Nlink, Sharers
  <2>5. A = {} /\ B = {}
    <3> HIDE DEF A, B
    <3> QED
      BY <1>2, <2>2, <2>4, FewElements
  <2> QED
    BY <2>5
<1>3. iattr' \in [Ino -> Attrs \cup {Null}]
  BY DEF Remaining
<1> QED
  BY <1>1, <1>2, <1>3

-----------------------------------------------------------------------------
(* The steps *)

(* The initial state.                                                       *)
LEMMA InitInv ==
    ASSUME Init
    PROVE  IInv
<1>1. TypeOK
  BY AttributesConstants DEF Init, TypeOK
<1> QED
  BY <1>1 DEF Init, IInv, AttributesKept, LinksHeld, JobsFaithful, Exists, BeingLinked

(* A job as it is begun.                                                    *)
LEMMA JobFacts ==
    ASSUME NEW kind \in JobKind, NEW saved \in Attrs, NEW i \in Ino \cup {Null}
    PROVE  LET g == Job(kind, saved, i) IN
           /\ g \in Jobs /\ g # Null
           /\ g.kind = kind /\ g.saved = saved /\ g.ino = i /\ ~g.raced
<1> DEFINE g == Job(kind, saved, i)
<1>1. g \in Jobs
  BY DEF Job, Jobs
<1>2. g.kind = kind /\ g.saved = saved /\ g.ino = i
  BY DEF Job
<1>3. ~g.raced
  BY Zenon DEF Job
<1> HIDE DEF g
<1>4. g # Null
  BY <1>1, AttributesConstants
<1> QED
  BY <1>1, <1>2, <1>3, <1>4 DEF g

(* Looking at a file changes nothing.                                       *)
LEMMA SetStartInv ==
    ASSUME IInv, NEW t \in Thread, NEW n \in Name, NEW v \in Value, SetStart(t, n, v)
    PROVE  IInv'
<1>1. Seen(n) \in Sights
  BY LinkCount DEF IInv, TypeOK, SetStart, Seen, Sights, Exists
<1>2. TypeOK'
  BY <1>1 DEF IInv, TypeOK, SetStart
<1>3. AttributesKept' /\ LinksHeld' /\ JobsFaithful'
  BY DEF IInv, SetStart, AttributesKept, LinksHeld, JobsFaithful, Exists, View, BeingLinked, Due
<1> QED
  BY <1>2, <1>3 DEF IInv

(* A copy is begun with what n shows, or with what its inode has.           *)
LEMMA CopyStartInv ==
    ASSUME IInv, NEW n \in Name, ReplaceStart(n) \/ UndedupStart(n)
    PROVE  IInv'
<1> USE AttributesConstants DEF IInv
<1>1. Exists(n) /\ job[n] = Null /\ n \notin BeingLinked
  BY DEF ReplaceStart, UndedupStart, Ready, Idle, BeingLinked
<1>2. iattr[dir[n]] \in Attrs /\ View(n) \in Attrs /\ View(n) = user[n]
  BY <1>1 DEF TypeOK, View, Exists, AttributesKept
<1>3. UNCHANGED <<dir, iattr, attr, call, user>>
  BY DEF ReplaceStart, UndedupStart
<1>4. PICK kind \in {"replace", "undedup"}, saved \in Attrs :
        /\ job' = [job EXCEPT ![n] = Job(kind, saved, Null)]
        /\ saved = IF kind = "replace" THEN iattr[dir[n]] ELSE View(n)
  BY <1>2 DEF ReplaceStart, UndedupStart
<1> DEFINE g == Job(kind, saved, Null)
<1>5. /\ g \in Jobs /\ g # Null
      /\ g.kind = kind /\ g.saved = saved /\ ~g.raced
  BY JobFacts DEF JobKind
<1> HIDE DEF g
<1>6. \A m \in Name : job'[m] = IF m = n THEN g ELSE job[m]
  BY <1>4 DEF TypeOK, g
<1>7. BeingLinked' = BeingLinked
  BY <1>1, <1>5, <1>6 DEF BeingLinked
<1>8. TypeOK'
  BY <1>1, <1>3, <1>4, <1>5 DEF TypeOK, Exists, g
<1>9. AttributesKept' /\ LinksHeld'
  <2>1. AttributesKept'
    BY <1>3, <1>7 DEF AttributesKept, Exists, View
  <2>2. \A m \in BeingLinked : m \in Name /\ job'[m] = job[m]
    BY <1>1, <1>6 DEF BeingLinked
  <2> QED
    BY <1>3, <1>7, <2>1, <2>2 DEF LinksHeld
<1>10. ASSUME NEW m \in Name, job'[m] # Null, ~job'[m].raced
       PROVE  Due(m)' = user'[m]
  <2>1. CASE m = n
    BY <2>1, <1>2, <1>3, <1>4, <1>5, <1>6 DEF Due, View
  <2>2. CASE m # n
    BY <2>2, <1>3, <1>6, <1>10 DEF Due, JobsFaithful
  <2> QED
    BY <2>1, <2>2
<1> QED
  BY <1>8, <1>9, <1>10 DEF JobsFaithful

(* Setting an attribute touches the attribute file of n and the inode of n, *)
(* and no inode that is known to be shared.  If what was seen of n still    *)
(* holds, n shows the new value.                                            *)
LEMMA ApplyEffect ==
    ASSUME TypeOK, NEW n \in Name, NEW s \in Sights, NEW f \in Field, NEW v \in Value,
           Apply(n, s, f, v), dir' = dir
    PROVE  /\ attr' \in [Name -> Attrs \cup {Null}]
           /\ iattr' \in [Ino -> Attrs \cup {Null}]
           /\ \A m \in Name : m # n => attr'[m] = attr[m]
           /\ \A i \in Ino : i # dir[n] => iattr'[i] = iattr[i]
           /\ \A i \in Ino : iattr[i] # Null => iattr'[i] # Null
           /\ Exists(n) /\ attr[n] = s.attr /\ iattr[dir[n]] = s.file =>
                /\ View(n)' = [View(n) EXCEPT ![f] = v]
                /\ s.shared => iattr' = iattr
<1> USE AttributesConstants
<1> DEFINE by == Means(s, f, v)
           a == attr'[n]
<1>1. /\ s.file \in Attrs /\ s.attr \in Attrs \cup {Null} /\ Null \notin Attrs
      /\ \A x \in Attrs : [x EXCEPT ![f] = v] \in Attrs
      /\ attr[n] \in Attrs \cup {Null}
  BY DEF Sights, Attrs, TypeOK
<1>2. by \in {"drop", "update", "create", "inode"}
  BY DEF Means
<1>3. /\ attr' = [attr EXCEPT ![n] = a]
      /\ \/ by = "drop" /\ a = Null
         \/ by = "create" /\ a = [s.file EXCEPT ![f] = v]
         \/ by = "update" /\ attr[n] # Null /\ a = [attr[n] EXCEPT ![f] = v]
         \/ by = "update" /\ attr[n] = Null /\ a = Null
         \/ by = "inode" /\ a = attr[n]
  BY <1>2 DEF Apply, TypeOK
<1>4. a \in Attrs \cup {Null}
  BY <1>1, <1>3
<1>5. iattr' = IF by = "inode" /\ Exists(n) THEN [iattr EXCEPT ![dir[n]] = [iattr[dir[n]] EXCEPT ![f] = v]]
               ELSE iattr
  BY DEF Apply
<1>6. Exists(n) => dir[n] \in Ino /\ iattr[dir[n]] \in Attrs
  BY DEF TypeOK, Exists
<1>7. /\ by = "drop" => s.attr # Null /\ s.file = [s.attr EXCEPT ![f] = v]
      /\ by = "update" => s.attr # Null
      /\ by = "create" => s.attr = Null
      /\ by = "inode" => s.attr = Null /\ (s.shared => s.file[f] = v)
  BY DEF Means
<1> HIDE DEF by, a
<1>8. /\ attr' \in [Name -> Attrs \cup {Null}]
      /\ \A m \in Name : m # n => attr'[m] = attr[m]
  BY <1>3, <1>4 DEF TypeOK
<1>9. /\ iattr' \in [Ino -> Attrs \cup {Null}]
      /\ \A i \in Ino : i # dir[n] => iattr'[i] = iattr[i]
      /\ \A i \in Ino : iattr[i] # Null => iattr'[i] # Null
      /\ by = "inode" /\ Exists(n) => iattr'[dir[n]] = [iattr[dir[n]] EXCEPT ![f] = v]
  BY <1>1, <1>5, <1>6 DEF TypeOK
<1>10. ASSUME Exists(n), attr[n] = s.attr, iattr[dir[n]] = s.file
       PROVE  View(n)' = [View(n) EXCEPT ![f] = v]
  BY <1>1, <1>3, <1>5, <1>6, <1>7, <1>9, <1>10 DEF View, a
<1>11. ASSUME Exists(n), attr[n] = s.attr, iattr[dir[n]] = s.file, s.shared
       PROVE  iattr' = iattr
  <2>1. CASE by = "inode"
    <3> DEFINE x == iattr[dir[n]]
    <3>1. x \in Attrs /\ x[f] = v
      BY <1>6, <1>7, <1>11, <2>1
    <3>2. [x EXCEPT ![f] = v] = x
      BY <3>1 DEF Attrs
    <3> QED
      BY <1>5, <1>6, <1>11, <2>1, <3>2 DEF TypeOK
  <2>2. CASE by # "inode"
    BY <2>2, <1>5
  <2> QED
    BY <2>1, <2>2
<1> QED
  BY <1>8, <1>9, <1>10, <1>11

(* A disturbed job is the same but for being marked.                        *)
LEMMA DisturbEffect ==
    ASSUME TypeOK, NEW names, Disturb(names)
    PROVE  /\ job' \in [Name -> Jobs \cup {Null}]
           /\ BeingLinked' = BeingLinked
           /\ \A m \in Name : /\ job'[m] = Null <=> job[m] = Null
                              /\ m \notin names => job'[m] = job[m]
                              /\ job[m] # Null =>
                                   /\ job'[m].kind = job[m].kind
                                   /\ job'[m].saved = job[m].saved
                                   /\ job'[m].ino = job[m].ino
                                   /\ m \in names => job'[m].raced
<1>1. ASSUME NEW j \in Jobs
      PROVE  LET g == [j EXCEPT !.raced = TRUE] IN
             /\ g \in Jobs /\ g # Null
             /\ g.kind = j.kind /\ g.saved = j.saved /\ g.ino = j.ino /\ g.raced
  <2> DEFINE g == [j EXCEPT !.raced = TRUE]
  <2>1. g \in Jobs
    BY DEF Jobs
  <2>2. g.kind = j.kind /\ g.saved = j.saved /\ g.ino = j.ino
    BY DEF Jobs
  <2>3. g.raced
    BY Zenon DEF Jobs
  <2> HIDE DEF g
  <2>4. g # Null
    BY <2>1, AttributesConstants
  <2> QED
    BY <2>1, <2>2, <2>3, <2>4 DEF g
<1>2. ASSUME NEW m \in Name
      PROVE  job'[m] = IF m \in names /\ job[m] # Null THEN [job[m] EXCEPT !.raced = TRUE] ELSE job[m]
  BY DEF Disturb
<1>3. \A m \in Name : job[m] \in Jobs \cup {Null}
  BY DEF TypeOK
<1>4. ASSUME NEW m \in Name
      PROVE  /\ job'[m] \in Jobs \cup {Null}
             /\ job'[m] = Null <=> job[m] = Null
             /\ m \notin names => job'[m] = job[m]
             /\ job[m] # Null => /\ job'[m].kind = job[m].kind
                                 /\ job'[m].saved = job[m].saved
                                 /\ job'[m].ino = job[m].ino
                                 /\ m \in names => job'[m].raced
  <2>1. CASE m \in names /\ job[m] # Null
    <3>1. job[m] \in Jobs /\ job'[m] = [job[m] EXCEPT !.raced = TRUE]
      BY <1>2, <1>3, <2>1
    <3> QED
      BY <1>1, <2>1, <3>1
  <2>2. CASE ~(m \in names /\ job[m] # Null)
    BY <1>2, <1>3, <2>2
  <2> QED
    BY <2>1, <2>2
<1>5. job' \in [Name -> Jobs \cup {Null}]
  <2>1. job' = [m \in Name |-> job'[m]]
    BY DEF Disturb
  <2> QED
    BY <1>4, <2>1
<1>6. BeingLinked' = BeingLinked
  BY <1>4 DEF BeingLinked
<1> QED
  BY <1>4, <1>5, <1>6

(* utime sees the file as it is.                                            *)
LEMMA UtimeInv ==
    ASSUME IInv, NEW n \in Name, NEW v \in Value, Utime(n, v)
    PROVE  IInv'
<1> USE DEF IInv
<1>0. PICK s : s = Seen(n)
  OBVIOUS
<1>1. /\ Exists(n) /\ (job[n] # Null => job[n].kind = "replace") /\ Disturb({n})
      /\ dir' = dir /\ call' = call /\ user' = [user EXCEPT ![n]["mtime"] = v]
      /\ Apply(n, s, "mtime", v) /\ "mtime" \in Field
  BY <1>0 DEF Utime, Field
<1>2. s \in Sights /\ s.attr = attr[n] /\ s.file = iattr[dir[n]] /\ (s.shared <=> Nlink(dir[n]) > 1)
  <2>1. s \in Sights /\ s.attr = attr[n] /\ s.file = iattr[dir[n]]
    BY <1>0, <1>1 DEF TypeOK, Seen, Sights, Exists
  <2>2. s.shared <=> Nlink(dir[n]) > 1
    BY <1>0, Zenon DEF Seen
  <2> QED
    BY <2>1, <2>2
<1>3. /\ attr' \in [Name -> Attrs \cup {Null}]
      /\ iattr' \in [Ino -> Attrs \cup {Null}]
      /\ \A m \in Name : m # n => attr'[m] = attr[m]
      /\ \A i \in Ino : i # dir[n] => iattr'[i] = iattr[i]
      /\ \A i \in Ino : iattr[i] # Null => iattr'[i] # Null
      /\ Exists(n) /\ attr[n] = s.attr /\ iattr[dir[n]] = s.file =>
           /\ View(n)' = [View(n) EXCEPT !["mtime"] = v]
           /\ s.shared => iattr' = iattr
  BY <1>1, <1>2, ApplyEffect, Zenon
<1>4. /\ job' \in [Name -> Jobs \cup {Null}]
      /\ BeingLinked' = BeingLinked
      /\ \A m \in Name : /\ job'[m] = Null <=> job[m] = Null
                         /\ m # n => job'[m] = job[m]
                         /\ m = n /\ job[m] # Null => job'[m].raced
  BY <1>1, DisturbEffect
<1>3a. View(n)' = [View(n) EXCEPT !["mtime"] = v] /\ (s.shared => iattr' = iattr)
  BY <1>1, <1>2, <1>3
<1>5. n \notin BeingLinked /\ user[n] = View(n) /\ user[n] \in Attrs
  BY <1>1, AttributesConstants DEF BeingLinked, AttributesKept, TypeOK, Exists
<1>6. /\ user' \in [Name -> Attrs \cup {Null}] /\ user'[n] = [user[n] EXCEPT !["mtime"] = v]
      /\ \A m \in Name : m # n => user'[m] = user[m]
      /\ user'[n] \in Attrs /\ user'[n] # Null
  BY <1>1, <1>5, AttributesConstants DEF TypeOK, Attrs
<1>7. /\ \A m \in Name : m # n /\ dir[m] # Null => iattr'[dir[m]] = iattr[dir[m]]
      /\ \A m \in BeingLinked : iattr'[job[m].ino] = iattr[job[m].ino]
  <2>1. CASE Nlink(dir[n]) > 1
    BY <1>2, <1>3a, <2>1
  <2>2. CASE ~(Nlink(dir[n]) > 1)
    <3>1. \A m \in Name : dir[m] = dir[n] => m = n
      BY <2>2, LinkCount
    <3>2. \A m \in BeingLinked : job[m].ino # dir[n]
      BY <2>2, LinkCount
    <3> QED
      BY <1>3, <3>1, <3>2 DEF TypeOK, LinksHeld
  <2> QED
    BY <2>1, <2>2
<1>8. TypeOK'
  BY <1>1, <1>3, <1>4, <1>6 DEF TypeOK
<1>9. AttributesKept'
  <2> SUFFICES ASSUME NEW m \in Name, Exists(m)', m \notin BeingLinked'
               PROVE  View(m)' = user'[m]
    BY DEF AttributesKept
  <2>1. CASE m = n
    BY <2>1, <1>3a, <1>5, <1>6
  <2>2. CASE m # n
    BY <2>2, <1>1, <1>3, <1>4, <1>6, <1>7 DEF AttributesKept, Exists, View
  <2> QED
    BY <2>1, <2>2
<1>10. \A m \in BeingLinked : m \in Name /\ m # n /\ job'[m] = job[m]
  BY <1>4, <1>5 DEF BeingLinked
<1>11. LinksHeld'
  BY <1>4, <1>7, <1>10 DEF LinksHeld
<1>12. JobsFaithful'
  <2> SUFFICES ASSUME NEW m \in Name, job'[m] # Null, ~job'[m].raced
               PROVE  Due(m)' = user'[m]
    BY DEF JobsFaithful
  <2>1. m # n /\ job'[m] = job[m] /\ job[m] # Null
    BY <1>4
  <2>2. job[m].kind = "link" => m \in BeingLinked
    BY <2>1 DEF BeingLinked
  <2> QED
    BY <2>1, <2>2, <1>3, <1>6, <1>7 DEF JobsFaithful, Due
<1> QED
  BY <1>8, <1>9, <1>11, <1>12

(* chmod and chown may act on what no longer holds: the names that share    *)
(* the inode are then taken as they are, and jobs on them are marked.       *)
LEMMA SetApplyInv ==
    ASSUME IInv, NEW t \in Thread, SetApply(t)
    PROVE  IInv'
<1> USE DEF IInv
<1>1. PICK n \in Name, v \in Value, s \in Sights :
        call[t].name = n /\ call[t].value = v /\ call[t].seen = s
  BY DEF SetApply, TypeOK
<1>0. PICK marked : marked = {n} \cup Sharers(dir[n]) \cup {m \in BeingLinked : job[m].ino = dir[n]}
  OBVIOUS
<1>2. /\ call' = [call EXCEPT ![t] = Null] /\ dir' = dir
      /\ Disturb(marked) /\ Apply(n, s, "perm", v) /\ "perm" \in Field
      /\ IF Outdated(n, s) THEN Settle({n} \cup Sharers(dir[n]), user)
         ELSE user' = [user EXCEPT ![n]["perm"] = v]
  BY <1>0, <1>1 DEF SetApply, Field
<1>3. /\ \A m \in Name : dir[m] = dir[n] => m \in marked
      /\ \A m \in BeingLinked : job[m].ino = dir[n] => m \in marked
      /\ n \in marked
  BY <1>0 DEF Sharers
<1>4. /\ attr' \in [Name -> Attrs \cup {Null}]
      /\ iattr' \in [Ino -> Attrs \cup {Null}]
      /\ \A m \in Name : m # n => attr'[m] = attr[m]
      /\ \A i \in Ino : i # dir[n] => iattr'[i] = iattr[i]
      /\ \A i \in Ino : iattr[i] # Null => iattr'[i] # Null
      /\ Exists(n) /\ attr[n] = s.attr /\ iattr[dir[n]] = s.file =>
           /\ View(n)' = [View(n) EXCEPT !["perm"] = v]
           /\ s.shared => iattr' = iattr
  BY <1>2, ApplyEffect, Zenon
<1>5. /\ job' \in [Name -> Jobs \cup {Null}]
      /\ BeingLinked' = BeingLinked
      /\ \A m \in Name : /\ job'[m] = Null <=> job[m] = Null
                         /\ m \notin marked => job'[m] = job[m]
                         /\ job[m] # Null => /\ job'[m].kind = job[m].kind
                                             /\ job'[m].ino = job[m].ino
                                             /\ m \in marked => job'[m].raced
  BY <1>2, DisturbEffect
<1>6. call' \in [Thread -> [name : Name, value : Value, seen : Sights] \cup {Null}]
  BY <1>2 DEF TypeOK
<1>7. /\ user' \in [Name -> Attrs \cup {Null}]
      /\ \A m \in Name : dir[m] # Null => user'[m] # Null
      /\ \A m \in Name : m \notin marked => user'[m] = user[m]
      /\ \A m \in Name : Exists(m) /\ m \notin BeingLinked => View(m)' = user'[m]
  <2>1. CASE Outdated(n, s)
    <3>1. \A m \in Name : user'[m] = IF m \in {n} \cup Sharers(dir[n]) /\ Exists(m)' THEN View(m)' ELSE user[m]
      BY <1>2, <2>1 DEF Settle
    <3>2. \A m \in Name : Exists(m)' => View(m)' \in Attrs
      BY <1>2, <1>4, AttributesConstants DEF TypeOK, View, Exists
    <3>3. \A m \in Name : m \in {n} \cup Sharers(dir[n]) <=> m = n \/ dir[m] = dir[n]
      BY <1>1 DEF Sharers
    <3>4. user' \in [Name -> Attrs \cup {Null}]
      <4>1. user' = [m \in Name |-> user'[m]]
        BY <1>2, <2>1 DEF Settle
      <4>2. \A m \in Name : user'[m] \in Attrs \cup {Null}
        BY <3>1, <3>2 DEF TypeOK
      <4> QED
        BY <4>1, <4>2
    <3>5. \A m \in Name : dir[m] # Null => user'[m] # Null
      BY <1>2, <3>1, <3>2, AttributesConstants DEF TypeOK, Exists
    <3>6. \A m \in Name : m \notin marked => user'[m] = user[m]
      BY <1>3, <3>1, <3>3
    <3>7. ASSUME NEW m \in Name, Exists(m), m \notin BeingLinked
          PROVE  View(m)' = user'[m]
      <4>1. CASE m = n \/ dir[m] = dir[n]
        BY <4>1, <3>1, <3>3, <3>7, <1>2 DEF Exists
      <4>2. CASE ~(m = n \/ dir[m] = dir[n])
        <5>1. user'[m] = user[m]
          BY <4>2, <3>1, <3>3
        <5>2. View(m)' = View(m)
          BY <4>2, <3>7, <1>2, <1>4 DEF View, Exists, TypeOK
        <5> QED
          BY <5>1, <5>2, <3>7 DEF AttributesKept
      <4> QED
        BY <4>1, <4>2
    <3> QED
      BY <3>4, <3>5, <3>6, <3>7
  <2>2. CASE ~Outdated(n, s)
    <3>1. /\ dir[n] = s.ino /\ attr[n] = s.attr /\ s.ino \in Ino
          /\ Exists(n) /\ iattr[dir[n]] = s.file
          /\ ~s.shared => ~(Nlink(dir[n]) > 1)
      BY <1>1, <2>2, AttributesConstants DEF Outdated, Exists, Sights
    <3>2. /\ View(n)' = [View(n) EXCEPT !["perm"] = v]
          /\ s.shared => iattr' = iattr
      BY <1>4, <3>1
    <3>3. user[n] \in Attrs
      BY <1>1, <3>1, AttributesConstants DEF TypeOK, Exists
    <3>4. /\ user' \in [Name -> Attrs \cup {Null}]
          /\ user'[n] = [user[n] EXCEPT !["perm"] = v] /\ user'[n] \in Attrs
          /\ \A m \in Name : m # n => user'[m] = user[m]
      <4> DEFINE u == [user[n] EXCEPT !["perm"] = v]
      <4>1. u \in Attrs
        BY <3>3 DEF Attrs
      <4>2. user' = [user EXCEPT ![n] = u]
        BY <1>2, <2>2
      <4> HIDE DEF u
      <4>3. user' \in [Name -> Attrs \cup {Null}] /\ user'[n] = u /\ \A m \in Name : m # n => user'[m] = user[m]
        BY <4>1, <4>2 DEF TypeOK
      <4> QED
        BY <4>1, <4>3 DEF u
    <3>5. ASSUME NEW m \in Name, Exists(m), m \notin BeingLinked
          PROVE  View(m)' = user'[m]
      <4>1. CASE m = n
        BY <4>1, <3>2, <3>4, <3>5 DEF AttributesKept
      <4>2. CASE m # n
        <5>1. dir[m] \in Ino /\ iattr'[dir[m]] = iattr[dir[m]]
          BY <1>1, <1>4, <3>1, <3>2, <3>5, <4>2, LinkCount DEF TypeOK, Exists
        <5> QED
          BY <1>2, <1>4, <3>4, <3>5, <4>2, <5>1 DEF AttributesKept, View
      <4> QED
        BY <4>1, <4>2
    <3> QED
      BY <1>3, <3>4, <3>5, AttributesConstants DEF TypeOK
  <2> QED
    BY <2>1, <2>2
<1>8. TypeOK'
  BY <1>2, <1>4, <1>5, <1>6, <1>7 DEF TypeOK
<1>9. AttributesKept'
  BY <1>2, <1>5, <1>7 DEF AttributesKept, Exists
<1>10. LinksHeld'
  <2>1. \A m \in BeingLinked : m \in Name /\ job[m] # Null
    BY DEF BeingLinked
  <2> QED
    BY <2>1, <1>4, <1>5 DEF LinksHeld
<1>11. JobsFaithful'
  <2> SUFFICES ASSUME NEW m \in Name, job'[m] # Null, ~job'[m].raced
               PROVE  Due(m)' = user'[m]
    BY DEF JobsFaithful
  <2>1. m \notin marked /\ m # n /\ job'[m] = job[m] /\ job[m] # Null
    BY <1>3, <1>5
  <2>2. job[m].kind = "link" => m \in BeingLinked /\ job[m].ino \in Ino /\ job[m].ino # dir[n]
    BY <2>1, <1>3 DEF BeingLinked, LinksHeld
  <2> QED
    BY <2>1, <2>2, <1>4, <1>7 DEF JobsFaithful, Due
<1> QED
  BY <1>8, <1>9, <1>10, <1>11

(* Names that are settled show what users are taken to have given them.     *)
LEMMA SettleEffect ==
    ASSUME NEW names, NEW u \in [Name -> Attrs \cup {Null}], Settle(names, u),
           attr' \in [Name -> Attrs \cup {Null}],
           \A m \in Name : dir'[m] # Null => iattr'[dir'[m]] \in Attrs
    PROVE  /\ user' \in [Name -> Attrs \cup {Null}]
           /\ \A m \in Name : m \notin names => user'[m] = u[m]
           /\ \A m \in Name : m \in names /\ Exists(m)' => user'[m] = View(m)'
           /\ \A m \in Name : u[m] # Null => user'[m] # Null
           /\ \A m \in Name : m \in names /\ dir'[m] # Null => user'[m] # Null
<1>1. \A m \in Name : Exists(m)' => View(m)' \in Attrs /\ View(m)' # Null
  BY AttributesConstants DEF Exists, View
<1>2. \A m \in Name : user'[m] = IF m \in names /\ Exists(m)' THEN View(m)' ELSE u[m]
  BY DEF Settle
<1>3. user' = [m \in Name |-> user'[m]]
  BY DEF Settle
<1>4. \A m \in Name : user'[m] \in Attrs \cup {Null}
  BY <1>1, <1>2
<1>5. user' \in [Name -> Attrs \cup {Null}]
  BY <1>3, <1>4
<1> QED
  BY <1>1, <1>2, <1>5 DEF Exists

(* Nobody else has the inode that is written to.                            *)
LEMMA WriteInv ==
    ASSUME IInv, NEW n \in Name, NEW v \in Value, Write(n, v)
    PROVE  IInv'
<1> USE DEF IInv
<1>1. /\ Exists(n) /\ job[n] = Null /\ Nlink(dir[n]) = 1 /\ dir[n] \in Ino
      /\ dir' = dir /\ attr' = attr /\ call' = call /\ job' = job
      /\ iattr' = [iattr EXCEPT ![dir[n]]["mtime"] = v] /\ "mtime" \in Field
      /\ user' = IF attr[n] = Null THEN [user EXCEPT ![n]["mtime"] = v] ELSE user
  BY DEF Write, Idle, Exists, TypeOK, Field
<1>2. /\ \A m \in Name : dir[m] = dir[n] => m = n
      /\ \A m \in BeingLinked : job[m].ino # dir[n]
  BY <1>1, LinkCount
<1>3. /\ iattr[dir[n]] \in Attrs /\ user[n] \in Attrs /\ Null \notin Attrs
      /\ n \notin BeingLinked /\ View(n) = user[n]
  BY <1>1, AttributesConstants DEF TypeOK, Exists, BeingLinked, AttributesKept
<1> DEFINE a == [iattr[dir[n]] EXCEPT !["mtime"] = v]
           u == [user[n] EXCEPT !["mtime"] = v]
<1>4. a \in Attrs /\ u \in Attrs
  BY <1>1, <1>3 DEF Attrs
<1>5. attr[n] = Null => a = u
  BY <1>3 DEF View
<1>6. iattr' = [iattr EXCEPT ![dir[n]] = a] /\ user' = IF attr[n] = Null THEN [user EXCEPT ![n] = u] ELSE user
  BY <1>1
<1> HIDE DEF a, u
<1>7. /\ iattr' \in [Ino -> Attrs \cup {Null}] /\ iattr'[dir[n]] = a
      /\ \A i \in Ino : i # dir[n] => iattr'[i] = iattr[i]
  BY <1>1, <1>4, <1>6 DEF TypeOK
<1>8. /\ user' \in [Name -> Attrs \cup {Null}]
      /\ user'[n] = IF attr[n] = Null THEN u ELSE user[n]
      /\ \A m \in Name : m # n => user'[m] = user[m]
  BY <1>4, <1>6 DEF TypeOK
<1>9. TypeOK'
  BY <1>1, <1>3, <1>4, <1>7, <1>8 DEF TypeOK
<1>10. BeingLinked' = BeingLinked
  BY <1>1 DEF BeingLinked
<1>11. AttributesKept'
  <2> SUFFICES ASSUME NEW m \in Name, Exists(m), m \notin BeingLinked
               PROVE  View(m)' = user'[m]
    BY <1>1, <1>10 DEF AttributesKept, Exists
  <2>1. CASE m = n
    BY <2>1, <1>1, <1>3, <1>5, <1>7, <1>8 DEF View
  <2>2. CASE m # n
    <3>1. dir[m] \in Ino /\ dir[m] # dir[n]
      BY <1>2, <2>2 DEF TypeOK, Exists
    <3> QED
      BY <2>2, <3>1, <1>1, <1>7, <1>8 DEF View, AttributesKept
  <2> QED
    BY <2>1, <2>2
<1>12. LinksHeld'
  BY <1>1, <1>2, <1>7, <1>10 DEF LinksHeld
<1>13. JobsFaithful'
  <2> SUFFICES ASSUME NEW m \in Name, job[m] # Null, ~job[m].raced
               PROVE  Due(m)' = user'[m]
    BY <1>1 DEF JobsFaithful
  <2>1. m # n
    BY <1>1
  <2>2. job[m].kind = "link" => job[m].ino \in Ino /\ job[m].ino # dir[n]
    BY <1>2 DEF LinksHeld, BeingLinked
  <2> QED
    BY <2>1, <2>2, <1>1, <1>7, <1>8 DEF Due, JobsFaithful
<1> QED
  BY <1>9, <1>11, <1>12, <1>13

(* A new file has an inode that nobody had.                                 *)
LEMMA MknodInv ==
    ASSUME IInv, NEW n \in Name, NEW i \in Ino, NEW v \in Value, Mknod(n, i, v)
    PROVE  IInv'
<1> USE DEF IInv
<1> DEFINE a == [f \in Field |-> v]
<1>1. /\ dir[n] = Null /\ dir' = [dir EXCEPT ![n] = i] /\ iattr' = [iattr EXCEPT ![i] = a]
      /\ attr' = attr /\ call' = call /\ job' = job /\ Settle({n}, user) /\ i # Null
  BY AttributesConstants DEF Mknod, Exists
<1>2. /\ \A m \in Name : dir[m] # i
      /\ \A m \in BeingLinked : job[m].ino # i
  BY LinkCount DEF Mknod, Free
<1>3. a \in Attrs /\ Null \notin Attrs
  BY AttributesConstants DEF Attrs
<1> HIDE DEF a
<1>4. /\ dir' \in [Name -> Ino \cup {Null}] /\ dir'[n] = i
      /\ \A m \in Name : m # n => dir'[m] = dir[m]
      /\ iattr' \in [Ino -> Attrs \cup {Null}] /\ iattr'[i] = a
      /\ \A k \in Ino : k # i => iattr'[k] = iattr[k]
  BY <1>1, <1>3 DEF TypeOK
<1>5. \A m \in Name : m # n /\ dir[m] # Null => dir[m] \in Ino /\ iattr'[dir'[m]] = iattr[dir[m]]
  BY <1>2, <1>4 DEF TypeOK
<1>6. \A m \in Name : dir'[m] # Null => iattr'[dir'[m]] \in Attrs
  BY <1>3, <1>4, <1>5 DEF TypeOK
<1>7. /\ user' \in [Name -> Attrs \cup {Null}]
      /\ \A m \in Name : m # n => user'[m] = user[m]
      /\ user'[n] = View(n)' /\ user'[n] # Null
  <2>1. user \in [Name -> Attrs \cup {Null}] /\ attr' \in [Name -> Attrs \cup {Null}] /\ Exists(n)'
    BY <1>1, <1>4 DEF TypeOK, Exists
  <2> QED
    BY <1>1, <1>4, <1>6, <2>1, SettleEffect
<1>8. TypeOK'
  BY <1>1, <1>3, <1>4, <1>5, <1>6, <1>7 DEF TypeOK
<1>9. BeingLinked' = BeingLinked /\ n \notin BeingLinked /\ job[n] = Null
  BY <1>1 DEF BeingLinked, TypeOK
<1>10. AttributesKept'
  <2> SUFFICES ASSUME NEW m \in Name, m # n, dir[m] # Null, m \notin BeingLinked
               PROVE  View(m)' = user'[m]
    BY <1>4, <1>7, <1>9 DEF AttributesKept, Exists
  <2> QED
    BY <1>1, <1>5, <1>7 DEF View, AttributesKept, Exists
<1>11. LinksHeld'
  BY <1>1, <1>2, <1>4, <1>9 DEF LinksHeld
<1>12. JobsFaithful'
  <2> SUFFICES ASSUME NEW m \in Name, job[m] # Null, ~job[m].raced
               PROVE  Due(m)' = user'[m]
    BY <1>1 DEF JobsFaithful
  <2>2. job[m].kind = "link" => job[m].ino \in Ino /\ job[m].ino # i
    BY <1>2 DEF LinksHeld, BeingLinked
  <2> QED
    BY <2>2, <1>1, <1>4, <1>7, <1>9 DEF Due, JobsFaithful
<1> QED
  BY <1>8, <1>10, <1>11, <1>12

(* The attribute file goes with the name.                                   *)
LEMMA UnlinkInv ==
    ASSUME IInv, NEW n \in Name, Unlink(n)
    PROVE  IInv'
<1> USE DEF IInv
<1>1. /\ dir[n] # Null /\ job[n] = Null /\ dir' = [dir EXCEPT ![n] = Null]
      /\ attr' = [attr EXCEPT ![n] = Null] /\ user' = [user EXCEPT ![n] = Null]
      /\ call' = call /\ job' = job /\ Remaining(iattr)
  BY DEF Unlink, Idle, Exists
<1>2. /\ dir' \in [Name -> Ino \cup {Null}] /\ attr' \in [Name -> Attrs \cup {Null}]
      /\ user' \in [Name -> Attrs \cup {Null}] /\ dir'[n] = Null
      /\ \A m \in Name : m # n => dir'[m] = dir[m] /\ attr'[m] = attr[m] /\ user'[m] = user[m]
  BY <1>1 DEF TypeOK
<1>3. /\ iattr' \in [Ino -> Attrs \cup {Null}]
      /\ \A m \in Name : dir'[m] \in Ino => iattr'[dir'[m]] = iattr[dir'[m]]
      /\ \A m \in Name : job[m] # Null /\ job[m].kind = "link" /\ job[m].ino \in Ino
                            => iattr'[job[m].ino] = iattr[job[m].ino]
  <2>1. iattr \in [Ino -> Attrs \cup {Null}]
    BY DEF TypeOK
  <2> QED
    BY <1>1, <2>1, RemainingKeeps
<1>4. TypeOK'
  BY <1>1, <1>2, <1>3 DEF TypeOK
<1>5. BeingLinked' = BeingLinked
  BY <1>1 DEF BeingLinked
<1>6. AttributesKept'
  BY <1>2, <1>3, <1>5 DEF AttributesKept, Exists, View, TypeOK
<1>7. LinksHeld'
  BY <1>1, <1>3, <1>5 DEF LinksHeld, BeingLinked
<1>8. JobsFaithful'
  BY <1>1, <1>2, <1>3 DEF JobsFaithful, Due, LinksHeld, BeingLinked
<1> QED
  BY <1>4, <1>6, <1>7, <1>8

(* The attribute file of the source goes with it; that of the target stays  *)
(* if the source has none.                                                  *)
LEMMA RenameInv ==
    ASSUME IInv, NEW n \in Name, NEW m \in Name, Rename(n, m)
    PROVE  IInv'
<1> USE DEF IInv
<1>0. PICK names, u :
        /\ names = IF attr[n] = Null /\ attr[m] # Null THEN {m} ELSE {}
        /\ u = [user EXCEPT ![m] = user[n], ![n] = Null]
  OBVIOUS
<1>1. /\ n # m /\ dir[n] # Null /\ job[n] = Null /\ job[m] = Null
      /\ dir' = [dir EXCEPT ![m] = dir[n], ![n] = Null]
      /\ attr' = IF attr[n] # Null THEN [attr EXCEPT ![m] = attr[n], ![n] = Null] ELSE attr
      /\ call' = call /\ job' = job /\ Remaining(iattr) /\ Settle(names, u)
  <2>1. Settle(names, u)
    BY <1>0, Zenon DEF Rename
  <2> QED
    BY <2>1 DEF Rename, Idle, Exists
<1>2. /\ dir' \in [Name -> Ino \cup {Null}] /\ attr' \in [Name -> Attrs \cup {Null}]
      /\ u \in [Name -> Attrs \cup {Null}]
      /\ dir'[n] = Null /\ dir'[m] = dir[n] /\ u[m] = user[n]
      /\ attr'[m] = IF attr[n] # Null THEN attr[n] ELSE attr[m]
      /\ \A k \in Name \ {n, m} : dir'[k] = dir[k] /\ attr'[k] = attr[k] /\ u[k] = user[k]
  BY <1>0, <1>1 DEF TypeOK
<1>3. /\ iattr' \in [Ino -> Attrs \cup {Null}]
      /\ \A k \in Name : dir'[k] \in Ino => iattr'[dir'[k]] = iattr[dir'[k]]
      /\ \A k \in Name : job[k] # Null /\ job[k].kind = "link" /\ job[k].ino \in Ino
                            => iattr'[job[k].ino] = iattr[job[k].ino]
  <2>1. iattr \in [Ino -> Attrs \cup {Null}]
    BY DEF TypeOK
  <2> QED
    BY <1>1, <2>1, RemainingKeeps
<1>4. \A k \in Name : dir'[k] # Null => iattr'[dir'[k]] \in Attrs
  BY <1>1, <1>2, <1>3 DEF TypeOK
<1>5. /\ user' \in [Name -> Attrs \cup {Null}]
      /\ \A k \in Name : k \notin names => user'[k] = u[k]
      /\ \A k \in Name : k \in names /\ Exists(k)' => user'[k] = View(k)'
      /\ \A k \in Name : u[k] # Null => user'[k] # Null
      /\ \A k \in Name : k \in names /\ dir'[k] # Null => user'[k] # Null
  BY <1>1, <1>2, <1>4, SettleEffect
<1>6. \A k \in Name : dir'[k] # Null => u[k] # Null
  BY <1>1, <1>2 DEF TypeOK
<1>7. TypeOK'
  BY <1>1, <1>2, <1>3, <1>4, <1>5, <1>6, AttributesConstants DEF TypeOK
<1>8. BeingLinked' = BeingLinked /\ n \notin BeingLinked /\ m \notin BeingLinked
  BY <1>1 DEF BeingLinked
<1>9. AttributesKept'
  <2> SUFFICES ASSUME NEW k \in Name, dir'[k] # Null, k \notin BeingLinked
               PROVE  View(k)' = user'[k]
    BY <1>8 DEF AttributesKept, Exists
  <2>1. CASE k \in names
    BY <2>1, <1>5 DEF Exists
  <2>2. CASE k = m /\ k \notin names
    <3>1. attr'[m] = attr[n] /\ user'[m] = user[n] /\ View(n) = user[n]
      BY <2>2, <1>0, <1>1, <1>2, <1>5, <1>8 DEF AttributesKept, Exists
    <3>2. iattr'[dir'[m]] = iattr[dir[n]]
      BY <1>1, <1>2, <1>3 DEF TypeOK
    <3> QED
      BY <2>2, <3>1, <3>2 DEF View
  <2>3. CASE k # m /\ k \notin names
    <3>1. k # n /\ attr'[k] = attr[k] /\ user'[k] = user[k] /\ View(k) = user[k]
      BY <2>3, <1>2, <1>5 DEF AttributesKept, Exists
    <3>2. iattr'[dir'[k]] = iattr[dir[k]]
      BY <2>3, <3>1, <1>2, <1>3 DEF TypeOK
    <3> QED
      BY <3>1, <3>2 DEF View
  <2> QED
    BY <2>1, <2>2, <2>3
<1>10. LinksHeld'
  BY <1>1, <1>3, <1>8 DEF LinksHeld, BeingLinked
<1>11. JobsFaithful'
  <2> SUFFICES ASSUME NEW k \in Name, job[k] # Null, ~job[k].raced
               PROVE  Due(k)' = user'[k]
    BY <1>1 DEF JobsFaithful
  <2>1. k \in Name \ {n, m} /\ user'[k] = user[k] /\ attr'[k] = attr[k]
    BY <1>0, <1>1, <1>2, <1>5
  <2> QED
    BY <2>1, <1>1, <1>3 DEF Due, JobsFaithful, LinksHeld, BeingLinked
<1> QED
  BY <1>7, <1>9, <1>10, <1>11

(* A link to the inode of m is made, and the attribute file of n is such    *)
(* that n will show what it shows now.                                      *)
LEMMA LinkStartInv ==
    ASSUME IInv, NEW n \in Name, NEW m \in Name, LinkStart(n, m)
    PROVE  IInv'
<1> USE DEF IInv
<1>1. /\ dir[n] # Null /\ job[n] = Null /\ dir[m] # Null /\ BeingLinked = {}
      /\ dir[m] \in Ino /\ iattr[dir[m]] \in Attrs
      /\ job' = [job EXCEPT ![n] = Job("link", View(n), dir[m])]
      /\ attr' = [attr EXCEPT ![n] = IF View(n) # iattr[dir[m]] THEN View(n) ELSE Null]
      /\ dir' = dir /\ iattr' = iattr /\ call' = call /\ user' = user
  BY DEF LinkStart, Ready, Idle, Exists, TypeOK
<1>2. View(n) \in Attrs /\ View(n) = user[n] /\ Null \notin Attrs
  BY <1>1, AttributesConstants DEF TypeOK, View, Exists, AttributesKept
<1> DEFINE g == Job("link", View(n), dir[m])
<1>3. g \in Jobs /\ g # Null /\ g.kind = "link" /\ g.ino = dir[m] /\ ~g.raced
  BY <1>1, <1>2, JobFacts DEF JobKind
<1>4. job' = [job EXCEPT ![n] = g]
  BY <1>1
<1> HIDE DEF g
<1>5. /\ job' \in [Name -> Jobs \cup {Null}] /\ job'[n] = g
      /\ \A k \in Name : k # n => job'[k] = job[k]
      /\ attr' \in [Name -> Attrs \cup {Null}]
      /\ attr'[n] = IF View(n) # iattr[dir[m]] THEN View(n) ELSE Null
      /\ \A k \in Name : k # n => attr'[k] = attr[k]
  BY <1>1, <1>2, <1>3, <1>4 DEF TypeOK
<1>6. TypeOK'
  BY <1>1, <1>5 DEF TypeOK
<1>7. BeingLinked' = {n}
  BY <1>1, <1>3, <1>5 DEF BeingLinked
<1>8. AttributesKept'
  BY <1>1, <1>5, <1>7 DEF AttributesKept, Exists, View
<1>9. LinksHeld'
  BY <1>1, <1>3, <1>5, <1>7, AttributesConstants DEF LinksHeld
<1>10. JobsFaithful'
  <2> SUFFICES ASSUME NEW k \in Name, job'[k] # Null, ~job'[k].raced
               PROVE  Due(k)' = user'[k]
    BY DEF JobsFaithful
  <2>1. CASE k = n
    BY <2>1, <1>1, <1>2, <1>3, <1>5 DEF Due
  <2>2. CASE k # n
    BY <2>2, <1>1, <1>5 DEF Due, JobsFaithful
  <2> QED
    BY <2>1, <2>2
<1> QED
  BY <1>6, <1>8, <1>9, <1>10

(* A job on n that has ended, well or not: dir[n] is d, the attribute file  *)
(* of n is a, and the inodes are those of ia that still have a link.  If    *)
(* attributes were set meanwhile, n is taken as it is.                      *)
LEMMA JobEndInv ==
    ASSUME IInv, NEW n \in Name, job[n] # Null,
           NEW d \in Ino, NEW a \in Attrs \cup {Null}, NEW names \in SUBSET {n},
           NEW ia \in [Ino -> Attrs \cup {Null}],
           dir' = [dir EXCEPT ![n] = d], attr' = [attr EXCEPT ![n] = a],
           job' = [job EXCEPT ![n] = Null], call' = call,
           Remaining(ia), Settle(names, user),
           ia[d] \in Attrs,
           \A k \in Name \ {n} : dir[k] # Null => ia[dir[k]] = iattr[dir[k]],
           \A k \in BeingLinked : ia[job[k].ino] = iattr[job[k].ino],
           n \notin names => (IF a # Null THEN a ELSE ia[d]) = user[n]
    PROVE  IInv'
<1> USE DEF IInv
<1>1. /\ dir' \in [Name -> Ino \cup {Null}] /\ attr' \in [Name -> Attrs \cup {Null}]
      /\ job' \in [Name -> Jobs \cup {Null}]
      /\ dir'[n] = d /\ attr'[n] = a /\ job'[n] = Null /\ d # Null
      /\ \A k \in Name : k # n => dir'[k] = dir[k] /\ attr'[k] = attr[k] /\ job'[k] = job[k]
  BY AttributesConstants DEF TypeOK
<1>2. /\ iattr' \in [Ino -> Attrs \cup {Null}]
      /\ \A k \in Name : dir'[k] \in Ino => iattr'[dir'[k]] = ia[dir'[k]]
      /\ \A k \in Name : job'[k] # Null /\ job'[k].kind = "link" /\ job'[k].ino \in Ino
                            => iattr'[job'[k].ino] = ia[job'[k].ino]
  BY RemainingKeeps
<1>3. iattr'[d] = ia[d] /\ \A k \in Name : k # n /\ dir[k] # Null => iattr'[dir[k]] = iattr[dir[k]]
  BY <1>1, <1>2 DEF TypeOK
<1>4. \A k \in Name : dir'[k] # Null => iattr'[dir'[k]] \in Attrs
  BY <1>1, <1>3 DEF TypeOK
<1>5. user \in [Name -> Attrs \cup {Null}] /\ user[n] # Null
  BY DEF TypeOK
<1>6. /\ user' \in [Name -> Attrs \cup {Null}]
      /\ \A k \in Name : k \notin names => user'[k] = user[k]
      /\ \A k \in Name : k \in names /\ Exists(k)' => user'[k] = View(k)'
      /\ \A k \in Name : user[k] # Null => user'[k] # Null
      /\ \A k \in Name : k \in names /\ dir'[k] # Null => user'[k] # Null
  BY <1>1, <1>4, <1>5, SettleEffect
<1>7. TypeOK'
  <2>1. call' \in [Thread -> [name : Name, value : Value, seen : Sights] \cup {Null}]
    BY DEF TypeOK
  <2>2. \A k \in Name : dir'[k] # Null => iattr'[dir'[k]] # Null /\ user'[k] # Null
    BY <1>1, <1>4, <1>5, <1>6, AttributesConstants DEF TypeOK
  <2>3. \A k \in Name : job'[k] # Null => dir'[k] # Null
    BY <1>1 DEF TypeOK
  <2> QED
    BY <1>1, <1>2, <1>6, <2>1, <2>2, <2>3 DEF TypeOK
<1>8. BeingLinked' = BeingLinked \ {n} /\ BeingLinked \subseteq Name
  BY <1>1 DEF BeingLinked
<1>9. AttributesKept'
  <2> SUFFICES ASSUME NEW k \in Name, dir'[k] # Null, k \notin BeingLinked'
               PROVE  View(k)' = user'[k]
    BY DEF AttributesKept, Exists
  <2>1. CASE k \in names
    BY <2>1, <1>6 DEF Exists
  <2>2. CASE k = n /\ k \notin names
    BY <2>2, <1>1, <1>3, <1>6 DEF View
  <2>3. CASE k # n
    <3>1. user'[k] = user[k] /\ View(k) = user[k]
      BY <2>3, <1>1, <1>6, <1>8 DEF AttributesKept, Exists
    <3> QED
      BY <2>3, <3>1, <1>1, <1>3 DEF View
  <2> QED
    BY <2>1, <2>2, <2>3
<1>10. \A k \in BeingLinked' : /\ k \in Name \ {n} /\ k \in BeingLinked /\ job'[k] = job[k]
                               /\ job[k].ino \in Ino /\ iattr'[job[k].ino] = iattr[job[k].ino]
  BY <1>1, <1>2, <1>8 DEF LinksHeld, BeingLinked
<1>11. LinksHeld'
  BY <1>10 DEF LinksHeld
<1>12. JobsFaithful'
  <2> SUFFICES ASSUME NEW k \in Name, job'[k] # Null, ~job'[k].raced
               PROVE  Due(k)' = user'[k]
    BY DEF JobsFaithful
  <2>1. k # n /\ job'[k] = job[k] /\ user'[k] = user[k] /\ attr'[k] = attr[k]
    BY <1>1, <1>6
  <2>2. job[k].kind = "link" => iattr'[job[k].ino] = iattr[job[k].ino]
    BY <2>1, <1>10 DEF BeingLinked
  <2> QED
    BY <2>1, <2>2 DEF Due, JobsFaithful
<1> QED
  BY <1>7, <1>9, <1>11, <1>12

(* A copy takes the place of the file with what was saved.                  *)
LEMMA CopyEndInv ==
    ASSUME IInv, NEW n \in Name, NEW i \in Ino, CopyEnd(n, i)
    PROVE  IInv'
<1> DEFINE j == job[n]
<1>0. PICK a, names, ia :
        /\ a = IF j.kind = "undedup" THEN Null ELSE attr[n]
        /\ names = IF j.raced THEN {n} ELSE {}
        /\ ia = [iattr EXCEPT ![i] = j.saved]
  OBVIOUS
<1>1. /\ j # Null /\ j \in Jobs /\ j.kind \in {"replace", "undedup"} /\ j.saved \in Attrs
      /\ dir' = [dir EXCEPT ![n] = i] /\ attr' = [attr EXCEPT ![n] = a]
      /\ job' = [job EXCEPT ![n] = Null] /\ call' = call
  BY <1>0 DEF IInv, TypeOK, CopyEnd, Jobs
<1>2. Remaining(ia) /\ Settle(names, user)
  BY <1>0, Zenon DEF CopyEnd
<1>3. /\ \A k \in Name : dir[k] # i
      /\ \A k \in BeingLinked : job[k].ino # i
  BY LinkCount DEF CopyEnd, Free
<1>4. /\ ia \in [Ino -> Attrs \cup {Null}] /\ ia[i] = j.saved
      /\ \A k \in Ino : k # i => ia[k] = iattr[k]
      /\ a \in Attrs \cup {Null} /\ names \in SUBSET {n}
  BY <1>0, <1>1 DEF IInv, TypeOK
<1>5. /\ \A k \in Name \ {n} : dir[k] # Null => ia[dir[k]] = iattr[dir[k]]
      /\ \A k \in BeingLinked : ia[job[k].ino] = iattr[job[k].ino]
  BY <1>3, <1>4 DEF IInv, TypeOK, LinksHeld
<1>6. n \notin names => (IF a # Null THEN a ELSE ia[i]) = user[n]
  BY <1>0, <1>1, <1>4 DEF IInv, JobsFaithful, Due
<1> HIDE DEF j
<1> QED
  BY <1>1, <1>2, <1>4, <1>5, <1>6, JobEndInv DEF j

(* The link takes the place of the file.                                    *)
LEMMA LinkEndInv ==
    ASSUME IInv, NEW n \in Name, LinkEnd(n)
    PROVE  IInv'
<1> DEFINE j == job[n]
<1>0. PICK a, d, names : a = attr[n] /\ d = j.ino /\ names = IF j.raced THEN {n} ELSE {}
  OBVIOUS
<1>1. /\ j # Null /\ j.kind = "link" /\ d \in Ino /\ iattr[d] \in Attrs
      /\ dir' = [dir EXCEPT ![n] = d] /\ job' = [job EXCEPT ![n] = Null] /\ call' = call
      /\ Remaining(iattr) /\ attr' = attr
  BY <1>0 DEF IInv, TypeOK, LinkEnd, BeingLinked, LinksHeld
<1>2. Settle(names, user)
  BY <1>0, Zenon DEF LinkEnd
<1>3. /\ attr' = [attr EXCEPT ![n] = a] /\ a \in Attrs \cup {Null} /\ names \in SUBSET {n}
      /\ iattr \in [Ino -> Attrs \cup {Null}]
  BY <1>0, <1>1 DEF IInv, TypeOK
<1>4. n \notin names => (IF a # Null THEN a ELSE iattr[d]) = user[n]
  BY <1>0, <1>1 DEF IInv, JobsFaithful, Due
<1> HIDE DEF j
<1> QED
  BY <1>1, <1>2, <1>3, <1>4, JobEndInv DEF j

(* Without it, n is what it was; a removed attribute file is missed.        *)
LEMMA JobFailsInv ==
    ASSUME IInv, NEW n \in Name, JobFails(n)
    PROVE  IInv'
<1>0. PICK a, d, names : a = attr[n] /\ d = dir[n] /\ names = {n} \cap BeingLinked
  OBVIOUS
<1>1. /\ job[n] # Null /\ d \in Ino /\ iattr[d] \in Attrs
      /\ dir' = dir /\ job' = [job EXCEPT ![n] = Null] /\ call' = call
      /\ Remaining(iattr) /\ attr' = attr
  BY <1>0 DEF IInv, TypeOK, JobFails
<1>2. Settle(names, user)
  BY <1>0, Zenon DEF JobFails
<1>3. /\ attr' = [attr EXCEPT ![n] = a] /\ a \in Attrs \cup {Null} /\ names \in SUBSET {n}
      /\ dir' = [dir EXCEPT ![n] = d]
      /\ iattr \in [Ino -> Attrs \cup {Null}]
  BY <1>0, <1>1 DEF IInv, TypeOK
<1>4. n \notin names => (IF a # Null THEN a ELSE iattr[d]) = user[n]
  BY <1>0, <1>1, AttributesConstants DEF IInv, AttributesKept, View, Exists
<1> QED
  BY <1>1, <1>2, <1>3, <1>4, JobEndInv

-----------------------------------------------------------------------------
(* The theorems *)

(* Every step keeps the invariant.                                          *)
LEMMA NextInv ==
    ASSUME IInv, [Next]_vars
    PROVE  IInv'
<1>1. CASE UNCHANGED vars
  BY <1>1 DEF vars, IInv, TypeOK, AttributesKept, LinksHeld, JobsFaithful, Exists, View, BeingLinked, Due
<1>2. CASE Next
  BY <1>2, SetStartInv, SetApplyInv, UtimeInv, WriteInv, MknodInv, UnlinkInv, CopyStartInv, LinkEndInv,
     JobFailsInv, CopyEndInv, RenameInv, LinkStartInv DEF Next
<1> QED
  BY <1>1, <1>2

(* The strengthening holds in every state.                                  *)
THEOREM Invariance == Spec => []IInv
<1>1. Init => IInv
  BY InitInv
<1>2. IInv /\ [Next]_vars => IInv'
  BY NextInv
<1> QED
  BY <1>1, <1>2, PTL DEF Spec

(* A name with a job on it exists, and so does the inode of a name: for     *)
(* every instance, no call or copy works on something that is not there.    *)
THEOREM TypeCorrect == Spec => []TypeOK
<1>1. IInv => TypeOK
  BY DEF IInv
<1> QED
  BY <1>1, Invariance, PTL

(* A name has the attributes its users gave it, whichever inode it shares,  *)
(* whatever chmod, chown, utime, copies and links do at the same time: what *)
(* dedup_sys_chmod() and its like decide by the number of links, and what   *)
(* do_compress(), do_decompress(), do_undedup() and hardlink_file() save.   *)
THEOREM AttributesStay == Spec => []AttributesKept
<1>1. IInv => AttributesKept
  BY DEF IInv
<1> QED
  BY <1>1, Invariance, PTL

(* Only a chmod or chown that was overtaken (dedup_sys_chmod() creates the  *)
(* attribute file without a lock) leaves an attribute file without a file.  *)
THEOREM OrphansByCalls == Spec => NoOrphans
<1>1. ASSUME IInv, [Next]_vars
      PROVE  [\A n \in Name : attr'[n] # Null /\ dir'[n] = Null
                => (attr[n] # Null /\ dir[n] = Null) \/ \E t \in Thread : SetApply(t)]_vars
  <2> SUFFICES ASSUME Next, NEW n \in Name, attr'[n] # Null, dir'[n] = Null,
                      ~\E t \in Thread : SetApply(t)
               PROVE  attr[n] # Null /\ dir[n] = Null
    BY <1>1
  <2> USE <1>1, AttributesConstants DEF IInv
  <2>1. CASE \E t \in Thread, m \in Name, v \in Value : SetStart(t, m, v)
    BY <2>1 DEF SetStart
  <2>2. CASE \E m \in Name, v \in Value : Utime(m, v)
    BY <2>2 DEF Utime, Apply, Exists, TypeOK
  <2>3. CASE \E m \in Name, v \in Value : Write(m, v)
    BY <2>3 DEF Write
  <2>4. CASE \E m \in Name, v \in Value, i \in Ino : Mknod(m, i, v)
    BY <2>4 DEF Mknod, TypeOK
  <2>5. CASE \E m \in Name : Unlink(m)
    BY <2>5 DEF Unlink, TypeOK
  <2>6. CASE \E m \in Name : ReplaceStart(m) \/ UndedupStart(m)
    BY <2>6 DEF ReplaceStart, UndedupStart
  <2>7. CASE \E m \in Name : LinkEnd(m) \/ JobFails(m)
    BY <2>7 DEF LinkEnd, JobFails, LinksHeld, TypeOK
  <2>8. CASE \E m \in Name, i \in Ino : CopyEnd(m, i)
    BY <2>8 DEF CopyEnd, TypeOK
  <2>9. CASE \E m, k \in Name : Rename(m, k)
    BY <2>9 DEF Rename, Idle, Exists, TypeOK
  <2>10. CASE \E m, k \in Name : LinkStart(m, k)
    BY <2>10 DEF LinkStart, Ready, Idle, Exists, TypeOK
  <2> QED
    BY <2>1, <2>2, <2>3, <2>4, <2>5, <2>6, <2>7, <2>8, <2>9, <2>10 DEF Next
<1> QED
  BY <1>1, Invariance, PTL DEF Spec, NoOrphans

=============================================================================
