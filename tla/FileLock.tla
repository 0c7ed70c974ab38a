------------------------------ MODULE FileLock ------------------------------
(***************************************************************************)
(* The advisory file lock of src/internal/lock.ts (.anvil/lock of an       *)
(* instance, lock of a shared store), one file-system call at a time.      *)
(*                                                                         *)
(* Each process runs acquireLock and the release of its handle over and    *)
(* over.  The lock file is one path; its record names the creator, and     *)
(* `aged` says that its mtime is older than staleMs.                       *)
(***************************************************************************)
CONSTANTS
    Process,  \* contenders: each an acquireLock call of a process of its own
    Host,     \* [Process -> host]: a pid means something on its own host only
    NoFile,   \* nothing is at the lock's path
    Trouble   \* what may happen besides: "crash" (a process dies), "hang" (its
              \* heartbeat pauses past staleMs), "overtake" (the file is
              \* replaced between a contender's check of it and its rename)

ASSUME LockAssumption ==
    /\ DOMAIN Host = Process
    /\ Trouble \subseteq {"crash", "hang", "overtake"}

(* A lock file: the token and pid of its record (the creator), whether the  *)
(* record has been written yet, and whether its mtime has aged.             *)
File == [owner : Process, written : BOOLEAN, aged : BOOLEAN]

ASSUME NoFileAssumption == NoFile \notin File

VARIABLES
    file,    \* what is at the lock's path
    pc,      \* where each process is in acquireLock / releaseLock
    dead,    \* the verdict of pidIsDead that a contender goes by
    judged,  \* contenders whose check was of the file that is there now
    aside,   \* the file a releasing process has renamed aside
    upset    \* a holder's file has aged, or a check has been overtaken

vars == <<file, pc, dead, judged, aside, upset>>

Init ==
    /\ file = NoFile
    /\ pc = [p \in Process |-> "out"]
    /\ dead = [p \in Process |-> FALSE]
    /\ judged = {}
    /\ aside = [p \in Process |-> NoFile]
    /\ upset = FALSE

Goto(p, label) == pc' = [pc EXCEPT ![p] = label]

(* Another file, or none, comes to the lock's path. *)
SetFile(f) == file' = f /\ judged' = {}

-----------------------------------------------------------------------------
(* acquireLock.                                                            *)

Start(p) ==
    /\ pc[p] = "out"
    /\ Goto(p, "trying")
    /\ UNCHANGED <<file, dead, judged, aside, upset>>

(* writeFile with the wx flag opens the file before it writes the record. *)
Create(p) ==
    /\ pc[p] = "trying"
    /\ file = NoFile
    /\ SetFile([owner |-> p, written |-> FALSE, aged |-> FALSE])
    /\ Goto(p, "created")
    /\ UNCHANGED <<dead, aside, upset>>

(* The record goes to the file p opened, wherever it has been renamed to. *)
Write(f, p) == IF f # NoFile /\ f.owner = p THEN [f EXCEPT !.written = TRUE] ELSE f

WriteRecord(p) ==
    /\ pc[p] = "created"
    /\ file' = Write(file, p)
    /\ aside' = [q \in Process |-> Write(aside[q], p)]
    /\ Goto(p, "held")
    /\ UNCHANGED <<dead, judged, upset>>

AlreadyExists(p) ==
    /\ pc[p] = "trying"
    /\ file # NoFile
    /\ Goto(p, "checking")
    /\ UNCHANGED <<file, dead, judged, aside, upset>>

(* Variant: any error of kill(pid, 0), EPERM too, counts as dead. *)
PidIsDeadAnyError(p, q) == BOOLEAN

(* kill(pid, 0) asks this host: a foreign pid may or may not exist here. *)
PidIsDead(p, q) == IF Host[p] = Host[q] THEN {pc[q] = "dead"} ELSE BOOLEAN

ReadRecord(p) ==
    /\ pc[p] = "checking"
    /\ IF file # NoFile /\ file.written
       THEN /\ \E verdict \in PidIsDead(p, file.owner) : dead' = [dead EXCEPT ![p] = verdict]
            /\ judged' = judged \cup {p}
            /\ Goto(p, "read")
       ELSE Goto(p, "waiting") /\ UNCHANGED <<dead, judged>>
    /\ UNCHANGED <<file, aside, upset>>

(* Variant: the age of the lock is not looked at. *)
IsStaleDead(p) == dead[p]

(* A stat that fails leaves ageMs at infinity: a vanished file is stale. *)
IsStale(p) == dead[p] \/ file = NoFile \/ file.aged

StatLock(p) ==
    /\ pc[p] = "read"
    /\ Goto(p, IF IsStale(p) THEN "stealing" ELSE "waiting")
    /\ UNCHANGED <<file, dead, judged, aside, upset>>

(* The rename goes by path as well; it fails when nothing is there. *)
Steal(p) ==
    /\ pc[p] = "stealing"
    /\ "overtake" \in Trouble \/ p \in judged \/ file = NoFile
    /\ SetFile(NoFile)
    /\ Goto(p, "trying")
    /\ upset' = (upset \/ (p \notin judged /\ file # NoFile))
    /\ UNCHANGED <<dead, aside>>

Poll(p) ==
    /\ pc[p] = "waiting"
    /\ Goto(p, "trying")
    /\ UNCHANGED <<file, dead, judged, aside, upset>>

(* The deadline has passed: LockBusy. *)
GiveUp(p) ==
    /\ pc[p] = "waiting"
    /\ Goto(p, "out")
    /\ UNCHANGED <<file, dead, judged, aside, upset>>

-----------------------------------------------------------------------------
(* The holder's heartbeat and releaseLock.                                 *)

(* utimes goes by path: it refreshes whatever file is there. *)
Heartbeat(p) ==
    /\ pc[p] = "held"
    /\ file # NoFile
    /\ file' = [file EXCEPT !.aged = FALSE]
    /\ UNCHANGED <<pc, dead, judged, aside, upset>>

ClaimOwn(p) ==
    /\ pc[p] = "held"
    /\ file # NoFile
    /\ aside' = [aside EXCEPT ![p] = file]
    /\ SetFile(NoFile)
    /\ Goto(p, "claimed")
    /\ UNCHANGED <<dead, upset>>

(* The rename fails: the lock was reclaimed. *)
ClaimNothing(p) ==
    /\ pc[p] = "held"
    /\ file = NoFile
    /\ Goto(p, "out")
    /\ UNCHANGED <<file, dead, judged, aside, upset>>

Ours(p) == ~aside[p].written \/ aside[p].owner = p

(* Variant: the file renamed aside is left there. *)
DiscardNothing(p) ==
    /\ pc[p] = "claimed"
    /\ Ours(p)
    /\ Goto(p, "out")
    /\ UNCHANGED <<file, dead, judged, aside, upset>>

Discard(p) ==
    /\ pc[p] = "claimed"
    /\ Ours(p)
    /\ aside' = [aside EXCEPT ![p] = NoFile]
    /\ Goto(p, "out")
    /\ UNCHANGED <<file, dead, judged, upset>>

(* Someone else's: renamed back, over whatever has been created meanwhile. *)
Restore(p) ==
    /\ pc[p] = "claimed"
    /\ ~Ours(p)
    /\ SetFile(aside[p])
    /\ aside' = [aside EXCEPT ![p] = NoFile]
    /\ Goto(p, "out")
    /\ UNCHANGED <<dead, upset>>

-----------------------------------------------------------------------------
(* Time and failure.                                                       *)

Holding(p) == pc[p] \in {"created", "held"}

(* staleMs pass without a touch; a heartbeating holder's file stays fresh. *)
Age ==
    /\ file # NoFile /\ ~file.aged
    /\ "hang" \in Trouble \/ ~Holding(file.owner)
    /\ file' = [file EXCEPT !.aged = TRUE]
    /\ upset' = (upset \/ Holding(file.owner))
    /\ UNCHANGED <<pc, dead, judged, aside>>

Crash(p) ==
    /\ "crash" \in Trouble
    /\ pc[p] \notin {"out", "dead"}
    /\ Goto(p, "dead")
    /\ aside' = [aside EXCEPT ![p] = NoFile]
    /\ UNCHANGED <<file, dead, judged, upset>>

-----------------------------------------------------------------------------
Acquire(p) ==
    \/ Create(p) \/ WriteRecord(p) \/ AlreadyExists(p) \/ ReadRecord(p)
    \/ StatLock(p) \/ Steal(p) \/ Poll(p) \/ GiveUp(p)

Release(p) == ClaimOwn(p) \/ ClaimNothing(p) \/ Discard(p) \/ Restore(p)

Next ==
    \/ Age
    \/ \E p \in Process : Start(p) \/ Acquire(p) \/ Heartbeat(p) \/ Release(p) \/ Crash(p)

Spec == Init /\ [][Next]_vars

(* Processes that have entered acquireLock or hold the lock go on, somebody *)
(* keeps asking for it, and time passes.                                    *)
FairSpec ==
    /\ Spec
    /\ WF_vars(Age)
    /\ \A p \in Process : WF_vars(Start(p)) /\ WF_vars(Acquire(p)) /\ WF_vars(Release(p))

-----------------------------------------------------------------------------
(* Properties.                                                             *)

(* Types; and a file is aside only while a release decides whose it is. *)
TypeOK ==
    /\ file \in File \cup {NoFile}
    /\ pc \in [Process -> {"out", "trying", "created", "checking", "read", "stealing",
                           "waiting", "held", "claimed", "dead"}]
    /\ dead \in [Process -> BOOLEAN]
    /\ judged \subseteq Process
    /\ aside \in [Process -> File \cup {NoFile}]
    /\ upset \in BOOLEAN
    /\ \A p \in Process : aside[p] # NoFile <=> pc[p] = "claimed"

(* The body of withLock runs in one process at a time. *)
MutualExclusion ==
    \A p, q \in Process : pc[p] = "held" /\ pc[q] = "held" => p = q

(* So it is, whoever crashes, until a holder's heartbeat first pauses past   *)
(* staleMs or a lock is first replaced between its check and its rename.     *)
ExcludesUntilUpset == ~upset => MutualExclusion

(* A lock file that nobody holds, its owner dead, gone or unaware of it, is *)
(* out of the way sooner or later, as long as somebody asks for the lock.   *)
Abandoned(p) == file # NoFile /\ file.owner = p /\ ~Holding(p)

AbandonedReclaimed ==
    \A p \in Process :
        (Abandoned(p) /\ file.written)
            ~> (~Abandoned(p) \/ \A q \in Process : pc[q] = "dead")

(* The same of every lock file, also one whose record was never written. *)
EveryAbandonedReclaimed ==
    \A p \in Process :
        Abandoned(p) ~> (~Abandoned(p) \/ \A q \in Process : pc[q] = "dead")
=============================================================================
