------------------------------- MODULE Unmount -------------------------------
(***************************************************************************)
(* The main thread beside the file table: fusecompress_destroy(), which    *)
(* empties the table and the queue when the file system is unmounted, and  *)
(* the SIGTERM handler of the option noterm, which purges the table with   *)
(* force while handlers run.                                               *)
(***************************************************************************)
EXTENDS FileTable

CONSTANTS
    MaxSignals, \* how many SIGTERMs may arrive while mounted with noterm (a bound)
    Umount      \* whether the file system is ever unmounted

ASSUME UnmountAssumption == MaxSignals \in Nat /\ Umount \in BOOLEAN

VARIABLE main   \* where the main thread is

allVars == <<vars, main>>

MainRec == [pc : {"mounted", "sigterm", "check", "purge", "sleep", "join", "interrupted", "gone"},
            walk : SUBSET Obj, signals : Nat]

TypeOKMain == TypeOK /\ main \in MainRec

InitMain == Init /\ main = [pc |-> "mounted", walk |-> {}, signals |-> 0]

-----------------------------------------------------------------------------
\* Mutation: the entry is freed although it is in use.
Forced_Freed(o) ==
    /\ file[o].accesses # 0 /\ owner[o] = Null
    /\ database' = database \ {o}
    /\ live' = live \ {o}
    /\ UNCHANGED <<file, queue>>

(* _direct_open_purge(TRUE): an entry somebody still uses leaves the table  *)
(* too, but is not freed.                                                   *)
Forced(o) ==
    /\ file[o].accesses # 0 /\ owner[o] = Null
    /\ database' = database \ {o}
    /\ UNCHANGED <<live, file, queue>>

ForceEntry(o) ==
    /\ main.pc \in {"sigterm", "purge"} /\ o \in main.walk
    /\ PurgeUnused(o) \/ Forced(o)
    /\ main' = [main EXCEPT !.walk = @ \ {o}]
    /\ UNCHANGED <<owner, dbOwner, desc, disk, thr, bg>>

(* sigterm_handler()                                                        *)
SigtermHandler ==
    /\ main.pc = "mounted" /\ main.signals < MaxSignals
    /\ dbOwner = Null
    /\ dbOwner' = Main
    /\ main' = [pc |-> "sigterm", walk |-> database, signals |-> main.signals + 1]
    /\ UNCHANGED <<database, live, file, owner, queue, desc, disk, thr, bg>>

SigtermDone ==
    /\ main.pc = "sigterm" /\ main.walk = {}
    /\ dbOwner' = Null
    /\ main' = [main EXCEPT !.pc = "mounted"]
    /\ UNCHANGED <<database, live, file, owner, queue, desc, disk, thr, bg>>

(* FUSE has sent every release and waited for its threads.                  *)
Destroy ==
    /\ Umount /\ main.pc = "mounted"
    /\ \A t \in Thread : thr[t] = Idle
    /\ \A d \in Desc : desc[d] = Closed
    /\ main' = [main EXCEPT !.pc = "check"]
    /\ UNCHANGED vars

\* Mutation: the queue is not looked at.
DestroyCheck_TableOnly ==
    /\ main.pc = "check"
    /\ main' = IF database # {} THEN [main EXCEPT !.pc = "purge", !.walk = database]
               ELSE [main EXCEPT !.pc = "join"]
    /\ UNCHANGED vars

(* One round of the loop: leave it when table and queue are empty.          *)
DestroyCheck ==
    /\ main.pc = "check"
    /\ main' = IF database # {} THEN [main EXCEPT !.pc = "purge", !.walk = database]
               ELSE [main EXCEPT !.pc = IF queue = <<>> THEN "join" ELSE "sleep"]
    /\ UNCHANGED vars

DestroyPurged ==
    /\ main.pc = "purge" /\ main.walk = {}
    /\ main' = [main EXCEPT !.pc = "sleep"]
    /\ UNCHANGED vars

(* nanosleep() for a second; a signal ends the loop.                        *)
DestroySleep ==
    /\ main.pc = "sleep"
    /\ \/ main' = [main EXCEPT !.pc = "check"]
       \/ "signal" \in Failures /\ main' = [main EXCEPT !.pc = "interrupted"]
    /\ UNCHANGED vars

(* pthread_cancel() and pthread_join(): the background thread ends at its   *)
(* next cancellation point, wherever it is by then.                         *)
DestroyJoin ==
    /\ main.pc \in {"join", "interrupted"}
    /\ main' = [main EXCEPT !.pc = "gone"]
    /\ UNCHANGED vars

MainStep ==
    \/ SigtermDone \/ DestroyCheck \/ DestroyPurged \/ DestroySleep \/ DestroyJoin
    \/ \E o \in Obj : ForceEntry(o)

Unmounted == main.pc = "gone" /\ UNCHANGED allVars

NextMain ==
    \/ main.pc # "gone" /\ BgStep /\ UNCHANGED main
    \/ \E t \in Thread : \/ main.pc \in {"mounted", "sigterm"} /\ CallStep(t) /\ UNCHANGED main
                         \/ HandlerStep(t) /\ UNCHANGED main
    \/ SigtermHandler \/ Destroy \/ MainStep \/ Unmounted

SpecMain == InitMain /\ [][NextMain]_allVars

(* A thread that can run does; the background thread gets its locks.        *)
FairSpecMain ==
    /\ SpecMain
    /\ WF_allVars(MainStep)
    /\ SF_allVars(main.pc # "gone" /\ BgStep /\ UNCHANGED main)

-----------------------------------------------------------------------------
(* Properties *)

(* Unmounting ends.                                                         *)
UnmountEnds == main.pc = "check" ~> main.pc = "gone"

(* Unless a signal cuts it short, the loop of fusecompress_destroy() leaves *)
(* no file in the queue: the background thread is stopped right after.      *)
QueueEmptied == main.pc = "join" => queue = <<>>

=============================================================================
