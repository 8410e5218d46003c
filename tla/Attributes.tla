----------------------------- MODULE Attributes -----------------------------
(***************************************************************************)
(* Owner, mode and times of regular files.  Deduplication makes names share *)
(* an inode, and with it its attributes; a name whose attributes differ     *)
(* from those of its inode has an attribute file beside it (._fCat_...).    *)
(* Compression, decompression and undoing a link put a copy in the place of *)
(* the file and give it the attributes that the file had at the start.      *)
(*                                                                          *)
(* chmod and chown take no lock: they look at the file and act on what they *)
(* have seen.  utime takes the lock of the file, which the codec does not   *)
(* hold while it works.  Contents, the database of hashes and hard links    *)
(* that users make are left out: see Dedup.                                 *)
(***************************************************************************)
EXTENDS Naturals, FiniteSets

CONSTANTS
    Name,      \* path names of regular files
    Ino,       \* inodes of the backing file system
    Thread,    \* threads that execute chmod and chown
    Value,     \* values of an attribute
    Null,      \* no inode, no attributes, nothing under way
    MaxJobs,   \* files copied or linked at a time (a bound on the model)
    Failures   \* system calls that may fail

Field == {"perm", "mtime"}      \* owner and mode; the time of modification
Attrs == [Field -> Value]

JobKind == {"replace", "undedup", "link"}
Jobs == [kind : JobKind, saved : Attrs, ino : Ino \cup {Null}, raced : BOOLEAN]

ASSUME AttributesConstants ==
    /\ Null \notin Ino \cup Attrs \cup Jobs
    /\ IsFiniteSet(Name) /\ IsFiniteSet(Ino)
    /\ MaxJobs \in Nat
    /\ Failures \subseteq {"rename"}

VARIABLES
    dir,      \* dir[n]: the inode the name n is a link to
    iattr,    \* iattr[i]: the attributes of an inode that has a link
    attr,     \* attr[n]: the attribute file of n, if it has one
    call,     \* call[t]: what a chmod or chown is about to do
    job,      \* job[n]: a copy of n in the making, or a link that will replace it
    user      \* (history) user[n]: the attributes that n has for its users

vars == <<dir, iattr, attr, call, job, user>>

\* What lstat() shows of a file and of its attribute file.
Sights == [ino : Ino, file : Attrs, attr : Attrs \cup {Null}, shared : BOOLEAN]

TypeOK ==
    /\ dir \in [Name -> Ino \cup {Null}]
    /\ iattr \in [Ino -> Attrs \cup {Null}]
    /\ attr \in [Name -> Attrs \cup {Null}]
    /\ call \in [Thread -> [name : Name, value : Value, seen : Sights] \cup {Null}]
    /\ job \in [Name -> Jobs \cup {Null}]
    /\ user \in [Name -> Attrs \cup {Null}]
    /\ \A n \in Name : dir[n] # Null => iattr[dir[n]] # Null /\ user[n] # Null
    /\ \A n \in Name : job[n] # Null => dir[n] # Null

Init ==
    /\ dir = [n \in Name |-> Null]
    /\ iattr = [i \in Ino |-> Null]
    /\ attr = [n \in Name |-> Null]
    /\ call = [t \in Thread |-> Null]
    /\ job = [n \in Name |-> Null]
    /\ user = [n \in Name |-> Null]

-----------------------------------------------------------------------------
(* What users see *)

Exists(n) == dir[n] # Null
Idle(n) == Exists(n) /\ job[n] = Null

(* dedup_sys_getattr() *)
View(n) == IF attr[n] # Null THEN attr[n] ELSE iattr[dir[n]]

Sharers(i) == {n \in Name : dir[n] = i}
BeingLinked == {n \in Name : job[n] # Null /\ job[n].kind = "link"}

\* Mutation: a link under a temporary name does not count.
Nlink_Names(i) == Cardinality(Sharers(i))

\* A link that hardlink_file() has made and not yet moved counts.
Nlink(i) == Cardinality(Sharers(i)) + Cardinality({n \in BeingLinked : job[n].ino = i})
Free(i) == Nlink(i) = 0

\* An inode without a link is no more.
Remaining(ia) == iattr' = [i \in Ino |-> IF Nlink(i)' = 0 THEN Null ELSE ia[i]]

(* The names that are in a state where the code is known not to keep the     *)
(* attributes are from here on taken as they are.                            *)
Settle(names, u) == user' = [n \in Name |-> IF n \in names /\ Exists(n)' THEN View(n)' ELSE u[n]]

\* Jobs on these names have had attributes set behind their back.
Disturb(names) == job' = [n \in Name |-> IF n \in names /\ job[n] # Null
                                        THEN [job[n] EXCEPT !.raced = TRUE] ELSE job[n]]

-----------------------------------------------------------------------------
(* Calls that set attributes *)

(* lstat() of n and of its attribute file.                                   *)
Seen(n) == [ino |-> dir[n], file |-> iattr[dir[n]], attr |-> attr[n], shared |-> Nlink(dir[n]) > 1]

\* Mutation: the number of links is not looked at.
Means_Unshared(s, f, v) ==
    IF s.attr # Null THEN IF s.file = [s.attr EXCEPT ![f] = v] THEN "drop" ELSE "update" ELSE "inode"

(* What dedup_sys_chown(), dedup_sys_chmod() and dedup_sys_utime() do to set *)
(* the field f of a file they have seen as s to v: without need for it the   *)
(* attribute file is removed.                                                *)
Means(s, f, v) ==
    IF s.attr # Null
    THEN IF s.file = [s.attr EXCEPT ![f] = v] THEN "drop" ELSE "update"
    ELSE IF s.shared /\ s.file[f] # v THEN "create" ELSE "inode"

(* ... and how they do it; what is no longer there cannot be changed.        *)
Apply(n, s, f, v) ==
    LET by == Means(s, f, v) IN
    /\ attr' = [attr EXCEPT ![n] = CASE by = "drop" -> Null
                                     [] by = "create" -> [s.file EXCEPT ![f] = v]
                                     [] by = "update" /\ @ # Null -> [@ EXCEPT ![f] = v]
                                     [] OTHER -> @]
    /\ iattr' = IF by = "inode" /\ Exists(n) THEN [iattr EXCEPT ![dir[n]][f] = v] ELSE iattr

(* What was seen of n has changed since: the file was replaced, linked to,   *)
(* or had its attributes changed.                                            *)
Outdated(n, s) ==
    \/ dir[n] # s.ino \/ attr[n] # s.attr
    \/ Exists(n) /\ iattr[dir[n]] # s.file
    \/ Exists(n) /\ ~s.shared /\ Nlink(dir[n]) > 1

\* fusecompress_chmod(), fusecompress_chown(): no lock is taken ...
SetStart(t, n, v) ==
    /\ call[t] = Null /\ Exists(n)
    /\ call' = [call EXCEPT ![t] = [name |-> n, value |-> v, seen |-> Seen(n)]]
    /\ UNCHANGED <<dir, iattr, attr, job, user>>

\* ... so that anything may have happened when they act.
SetApply(t) ==
    LET c == call[t] IN
    /\ c # Null
    /\ call' = [call EXCEPT ![t] = Null]
    /\ UNCHANGED dir
    /\ Disturb({c.name} \cup Sharers(dir[c.name]) \cup {n \in BeingLinked : job[n].ino = dir[c.name]})
    /\ Apply(c.name, c.seen, "perm", c.value)
    /\ IF Outdated(c.name, c.seen) THEN Settle({c.name} \cup Sharers(dir[c.name]), user)
       ELSE user' = [user EXCEPT ![c.name]["perm"] = c.value]

(* fusecompress_utime() *)
Utime(n, v) ==
    /\ Exists(n) /\ (job[n] # Null => job[n].kind = "replace")
    /\ Apply(n, Seen(n), "mtime", v)
    /\ user' = [user EXCEPT ![n]["mtime"] = v]
    /\ Disturb({n})
    /\ UNCHANGED <<dir, call>>

(* fusecompress_write(), and truncate: a file that shares its inode has been *)
(* copied before.  An attribute file, if there still is one, hides the new   *)
(* time of modification.  (Dedup has the write to a file that was linked to  *)
(* after it had been opened.)                                                *)
Write(n, v) ==
    /\ Idle(n) /\ Nlink(dir[n]) = 1
    /\ iattr' = [iattr EXCEPT ![dir[n]]["mtime"] = v]
    /\ user' = IF attr[n] = Null THEN [user EXCEPT ![n]["mtime"] = v] ELSE user
    /\ UNCHANGED <<dir, attr, call, job>>

-----------------------------------------------------------------------------
(* Names *)

\* An attribute file that an overtaken chmod has left is taken up.
Mknod(n, i, v) ==
    /\ ~Exists(n) /\ Free(i)
    /\ dir' = [dir EXCEPT ![n] = i]
    /\ iattr' = [iattr EXCEPT ![i] = [f \in Field |-> v]]
    /\ UNCHANGED <<attr, call, job>>
    /\ Settle({n}, user)

\* Mutation: the attribute file stays.
Unlink_KeepsAttr(n) ==
    /\ Idle(n)
    /\ dir' = [dir EXCEPT ![n] = Null]
    /\ user' = [user EXCEPT ![n] = Null]
    /\ UNCHANGED <<attr, call, job>>
    /\ Remaining(iattr)

(* dedup_sys_unlink() *)
Unlink(n) ==
    /\ Idle(n)
    /\ dir' = [dir EXCEPT ![n] = Null]
    /\ attr' = [attr EXCEPT ![n] = Null]
    /\ user' = [user EXCEPT ![n] = Null]
    /\ UNCHANGED <<call, job>>
    /\ Remaining(iattr)

(* dedup_sys_rename(), on one inode too: the attribute file of n goes with   *)
(* it.  If n has none, m keeps the one it had.                               *)
Rename(n, m) ==
    /\ n # m /\ Idle(n) /\ job[m] = Null
    /\ dir' = [dir EXCEPT ![m] = dir[n], ![n] = Null]
    /\ attr' = IF attr[n] # Null THEN [attr EXCEPT ![m] = attr[n], ![n] = Null] ELSE attr
    /\ UNCHANGED <<call, job>>
    /\ Remaining(iattr)
    /\ Settle(IF attr[n] = Null /\ attr[m] # Null THEN {m} ELSE {},
              [user EXCEPT ![m] = user[n], ![n] = Null])

-----------------------------------------------------------------------------
(* Copies and links that take the place of a file *)

\* A job on n: the attributes n is to have, and the inode it gets; attributes
\* may be set meanwhile.
Job(kind, saved, i) == [kind |-> kind, saved |-> saved, ino |-> i, raced |-> FALSE]

Ready(n) == Idle(n) /\ Cardinality({m \in Name : job[m] # Null}) < MaxJobs

(* do_compress() and do_decompress() look at the inode, ...                  *)
ReplaceStart(n) ==
    /\ Ready(n)
    /\ job' = [job EXCEPT ![n] = Job("replace", iattr[dir[n]], Null)]
    /\ UNCHANGED <<dir, iattr, attr, call, user>>

(* ... do_undedup() at the attribute file if there is one.                   *)
UndedupStart(n) ==
    /\ Ready(n) /\ Nlink(dir[n]) > 1
    /\ job' = [job EXCEPT ![n] = Job("undedup", View(n), Null)]
    /\ UNCHANGED <<dir, iattr, attr, call, user>>

(* The copy has its attributes and takes the place of the file; do_undedup() *)
(* then removes the attribute file.  What was set in between is lost.        *)
CopyEnd(n, i) ==
    LET j == job[n] IN
    /\ j # Null /\ j.kind \in {"replace", "undedup"}
    /\ Free(i)
    /\ dir' = [dir EXCEPT ![n] = i]
    /\ attr' = [attr EXCEPT ![n] = IF j.kind = "undedup" THEN Null ELSE @]
    /\ job' = [job EXCEPT ![n] = Null]
    /\ UNCHANGED call
    /\ Remaining([iattr EXCEPT ![i] = j.saved])
    /\ Settle(IF j.raced THEN {n} ELSE {}, user)

(* hardlink_file() makes a link to the inode of m and sees to the attribute  *)
(* file of n, ...                                                            *)
LinkStart(n, m) ==
    /\ n # m /\ Ready(n) /\ Exists(m) /\ BeingLinked = {}
    /\ job' = [job EXCEPT ![n] = Job("link", View(n), dir[m])]
    /\ attr' = [attr EXCEPT ![n] = IF View(n) # iattr[dir[m]] THEN View(n) ELSE Null]
    /\ UNCHANGED <<dir, iattr, call, user>>

(* ... and moves the link to n.                                              *)
LinkEnd(n) ==
    LET j == job[n] IN
    /\ n \in BeingLinked
    /\ dir' = [dir EXCEPT ![n] = j.ino]
    /\ job' = [job EXCEPT ![n] = Null]
    /\ UNCHANGED <<attr, call>>
    /\ Remaining(iattr)
    /\ Settle(IF j.raced THEN {n} ELSE {}, user)

(* The job fails, is cancelled or ends with the process.  The attribute file *)
(* that was removed because the link would not need it is missed.            *)
JobFails(n) ==
    /\ job[n] # Null /\ (n \in BeingLinked => "rename" \in Failures)
    /\ job' = [job EXCEPT ![n] = Null]
    /\ UNCHANGED <<dir, attr, call>>
    /\ Remaining(iattr)
    /\ Settle({n} \cap BeingLinked, user)

Next ==
    \/ \E t \in Thread : SetApply(t) \/ \E n \in Name, v \in Value : SetStart(t, n, v)
    \/ \E n \in Name :
        \/ \E v \in Value : Utime(n, v) \/ Write(n, v) \/ \E i \in Ino : Mknod(n, i, v)
        \/ Unlink(n) \/ ReplaceStart(n) \/ UndedupStart(n) \/ LinkEnd(n) \/ JobFails(n)
        \/ \E i \in Ino : CopyEnd(n, i)
        \/ \E m \in Name : Rename(n, m) \/ LinkStart(n, m)

Spec == Init /\ [][Next]_vars

-----------------------------------------------------------------------------
(* Properties *)

(* A name has the attributes that users have given to it, whatever inode it  *)
(* shares and whoever changes the attributes of another name.  Known         *)
(* exceptions: attributes that were set while the file was being replaced,   *)
(* linked or set by others; a file renamed over one with an attribute file;  *)
(* the time of modification of a file that kept its attribute file after the *)
(* last other link was gone; a link that could not be moved to its place;    *)
(* and the moment before it is, when the attribute file is gone already.     *)
AttributesKept == \A n \in Name : Exists(n) /\ n \notin BeingLinked => View(n) = user[n]

(* Only a chmod or chown that an unlink or a rename has overtaken leaves an  *)
(* attribute file without a file, for the next file of that name to take up. *)
NoOrphans ==
    [][\A n \in Name : attr'[n] # Null /\ dir'[n] = Null
                       => (attr[n] # Null /\ dir[n] = Null) \/ \E t \in Thread : SetApply(t)]_vars

=============================================================================
