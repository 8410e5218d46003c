------------------------------- MODULE FlatFS -------------------------------
(***************************************************************************)
(* What a user of a FuseCompress mount may rely on: a flat directory of    *)
(* files, each with one content, changed by the user's calls and by        *)
(* nothing else.  Compression, the background thread and the table of      *)
(* file_t entries do not appear here.  FileTable is shown to implement     *)
(* this specification.                                                     *)
(***************************************************************************)
EXTENDS Naturals

CONSTANTS
    Name,       \* path names of regular files
    Desc,       \* descriptors the kernel may hold open
    Content,    \* file contents, told apart only by equality
    Absent      \* the content of a name that does not exist

VARIABLES
    content,    \* content[n]: what reading the whole of n would return
    opened,     \* opened[d]: the name d is open on, or Absent
    truncating, \* names some truncate call is at work on
    worker      \* the state of whatever works on the files in the background

vars == <<content, opened, truncating, worker>>

Init ==
    /\ content \in [Name -> Content \cup {Absent}]
    /\ opened = [d \in Desc |-> Absent]
    /\ truncating = {}

Create(n) ==
    /\ content[n] = Absent
    /\ \E c \in Content : content' = [content EXCEPT ![n] = c]
    /\ UNCHANGED <<opened, truncating, worker>>

Remove(n) ==
    /\ content[n] # Absent
    /\ content' = [content EXCEPT ![n] = Absent]
    /\ UNCHANGED <<opened, truncating, worker>>

\* A truncate call begins, and ends having changed the file or not.
BeginTruncate(n) ==
    /\ n \notin truncating
    /\ truncating' = truncating \cup {n}
    /\ UNCHANGED <<content, opened, worker>>

Truncate(n) ==
    /\ n \in truncating
    /\ truncating' = truncating \ {n}
    /\ \/ /\ content[n] # Absent
          /\ \E c \in Content : content' = [content EXCEPT ![n] = c]
       \/ UNCHANGED content
    /\ UNCHANGED <<opened, worker>>

\* A file changes through a descriptor only while that descriptor is open on it.
Write(d) ==
    /\ opened[d] # Absent
    /\ content[opened[d]] # Absent
    /\ \E c \in Content : content' = [content EXCEPT ![opened[d]] = c]
    /\ UNCHANGED <<opened, truncating, worker>>

Open(n, d) ==
    /\ content[n] # Absent
    /\ opened[d] = Absent
    /\ opened' = [opened EXCEPT ![d] = n]
    /\ UNCHANGED <<content, truncating, worker>>

Close(d) ==
    /\ opened[d] # Absent
    /\ opened' = [opened EXCEPT ![d] = Absent]
    /\ UNCHANGED <<content, truncating, worker>>

\* The file moves with its content and its open descriptors.
Rename(a, b) ==
    /\ a # b
    /\ content[a] # Absent
    /\ content' = [content EXCEPT ![a] = Absent, ![b] = content[a]]
    /\ opened' = [d \in Desc |-> IF opened[d] = a THEN b ELSE opened[d]]
    /\ UNCHANGED <<truncating, worker>>

\* Whatever the background worker does, no user can tell.
Work == UNCHANGED <<content, opened, truncating>>

Next ==
    \/ \E n \in Name : Create(n) \/ Remove(n) \/ BeginTruncate(n) \/ Truncate(n)
    \/ \E d \in Desc : Write(d) \/ Close(d)
    \/ \E n \in Name, d \in Desc : Open(n, d)
    \/ \E a, b \in Name : Rename(a, b)
    \/ Work

Spec == Init /\ [][Next]_vars

=============================================================================
