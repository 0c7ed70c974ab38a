--------------------------- MODULE JournaledSwap ---------------------------
(***************************************************************************)
(* The journaled swap of src/build/swap.ts, one file-system call at a time:*)
(* journaledSwap moves old targets aside into swap-backup-<id>, moves the  *)
(* staged ones in, fsyncs the directories and appends the commit line;     *)
(* recoverSwap, which every build runs first, rolls an interrupted swap    *)
(* forward or back.  A process may be killed between any two calls, and    *)
(* the power may fail, which loses directory changes no fsync covered.     *)
(*                                                                         *)
(* A target's directory entries are one record: what the instance, the     *)
(* backup directory and the stage directory hold under its relative path.  *)
(* `seen` and `journalSeen` hold the states the disk may come back in      *)
(* after a power loss: everything since the last fsync.  Targets lie in    *)
(* directories of their own, so nothing orders the writes of two targets.  *)
(***************************************************************************)
CONSTANTS
    Target,    \* relative paths of the swap set
    Content,   \* staged bytes or directories
    None,      \* no directory entry
    Torn,      \* a file whose bytes never reached the disk
    Unsynced   \* writes the code does not fsync that a power loss may lose:
               \* "data" (the staged files' bytes), "rollback" (the renames of
               \* a finished rollback), "killed" (what a killed process wrote)

ASSUME SwapAssumption ==
    /\ None \notin Content
    /\ Torn \notin Content \cup {None}
    /\ Unsynced \subseteq {"data", "rollback", "killed"}

Value == Content \cup {None, Torn}

Entry == [inst : Value, backup : Value, stage : Value]

Plan == {p \in [installs : SUBSET Target,
                removes  : SUBSET Target,
                content  : [Target -> Content \cup {None}]] :
            /\ p.installs \cap p.removes = {}
            /\ \A t \in Target : t \in p.installs <=> p.content[t] # None}

NoPlan == [installs |-> {}, removes |-> {}, content |-> [t \in Target |-> None]]

(* What swap.journal parses to: "none" (no file), "torn" (a begin line that *)
(* does not parse), "begin", or "committed" (a commit line follows begin).  *)
Journal == [st : {"none", "torn", "begin", "committed"},
            installs : SUBSET Target,
            removes  : SUBSET Target,
            hadOld   : SUBSET Target]

NoJournal == [st |-> "none", installs |-> {}, removes |-> {}, hadOld |-> {}]
TornJournal == [NoJournal EXCEPT !.st = "torn"]

VARIABLES
    disk,         \* [Target -> Entry], as a running process sees it
    journal,      \* .anvil/swap.journal, likewise
    seen,         \* per target, the entries a power loss may leave
    journalSeen,  \* the journals a power loss may leave
    dirty,        \* targets whose staged bytes are not on disk yet
    pc,           \* where the build is in journaledSwap / recoverSwap
    plan,         \* the SwapPlan of the running build
    todo,         \* targets the current loop has not reached
    cur           \* {t} in the middle of the loop body for t, else {}

vars == <<disk, journal, seen, journalSeen, dirty, pc, plan, todo, cur>>

considered == journal.installs \cup journal.removes

-----------------------------------------------------------------------------
(* File-system calls.                                                      *)

(* A rename or removal of t's entries: seen by the process at once, on disk *)
(* only when a directory fsync has covered it.                              *)
SetEntry(t, e) ==
    /\ disk' = [disk EXCEPT ![t] = e]
    /\ seen' = [seen EXCEPT ![t] = @ \cup {e}]

FsyncDirs(t) == seen' = [seen EXCEPT ![t] = {disk[t]}]

SetJournal(j) ==
    /\ journal' = j
    /\ journalSeen' = journalSeen \cup {j}

FsyncJournal == journalSeen' = {journal}

(* Whatever the cache still holds reaches the disk before anything that     *)
(* happens later: what the code relies on where it does not fsync.          *)
Settle(weakness) ==
    seen' = IF weakness \in Unsynced THEN seen ELSE [t \in Target |-> {disk[t]}]

(* What t's entries may hold after a power loss that left the names of e: *)
(* staged bytes that were never flushed come back torn.                   *)
Torns(t, e) ==
    {e} \cup IF t \notin dirty THEN {}
             ELSE IF e.stage # None THEN {[e EXCEPT !.stage = Torn]}
             ELSE IF e.inst # None THEN {[e EXCEPT !.inst = Torn]} ELSE {}

AfterLoss(t) == UNION {Torns(t, e) : e \in seen[t]}

MoveAside(e)  == [e EXCEPT !.inst = None, !.backup = e.inst]
MoveIn(e)     == [e EXCEPT !.inst = e.stage, !.stage = None]
MoveBack(e)   == [e EXCEPT !.inst = e.backup, !.backup = None]
Remove(e)     == [e EXCEPT !.inst = None]
DropBackup(e) == [e EXCEPT !.backup = None]
DropStage(e)  == [e EXCEPT !.stage = None]
-----------------------------------------------------------------------------
Init ==
    /\ disk \in [Target -> [inst : Content \cup {None}, backup : {None}, stage : {None}]]
    /\ seen = [t \in Target |-> {disk[t]}]
    /\ dirty = {}
    /\ journal = NoJournal
    /\ journalSeen = {NoJournal}
    /\ pc = "down"
    /\ plan = NoPlan
    /\ todo = {}
    /\ cur = {}

-----------------------------------------------------------------------------
(* recoverSwap, the first thing a build does.                              *)

(* Variant: the error of parsing a torn begin line is not caught. *)
RecoverCleanStrict ==
    /\ pc = "down"
    /\ journal.st = "none"
    /\ pc' = "ready"
    /\ UNCHANGED <<disk, seen, dirty, journal, journalSeen, plan, todo, cur>>

(* No journal, or a begin line that does not parse: nothing was renamed. *)
RecoverClean ==
    /\ pc = "down"
    /\ journal.st \in {"none", "torn"}
    /\ SetJournal(NoJournal)
    /\ pc' = "ready"
    /\ UNCHANGED <<disk, seen, dirty, plan, todo, cur>>

RecoverForward ==
    /\ pc = "down"
    /\ journal.st = "committed"
    /\ pc' = "forward"
    /\ UNCHANGED <<disk, seen, dirty, journal, journalSeen, plan, todo, cur>>

RecoverBack ==
    /\ pc = "down"
    /\ journal.st = "begin"
    /\ pc' = "rollback"
    /\ todo' = considered
    /\ UNCHANGED <<disk, seen, dirty, journal, journalSeen, plan, cur>>

(* The asided old exists and so does something in its place: clear it. *)
RollbackClear(t) ==
    /\ pc = "rollback" /\ t \in todo /\ cur = {}
    /\ disk[t].backup # None /\ disk[t].inst # None
    /\ SetEntry(t, Remove(disk[t]))
    /\ todo' = todo \ {t}
    /\ cur' = {t}
    /\ UNCHANGED <<dirty, journal, journalSeen, pc, plan>>

RollbackRestore(t) ==
    /\ pc = "rollback"
    /\ cur = {t} \/ (cur = {} /\ t \in todo /\ disk[t].inst = None)
    /\ disk[t].backup # None
    /\ SetEntry(t, MoveBack(disk[t]))
    /\ todo' = todo \ {t}
    /\ cur' = {}
    /\ UNCHANGED <<dirty, journal, journalSeen, pc, plan>>

(* No backup: a brand-new entry is undone, an old one was never moved. *)
RollbackUndo(t) ==
    /\ pc = "rollback" /\ t \in todo /\ cur = {}
    /\ disk[t].backup = None
    /\ SetEntry(t, IF t \in journal.hadOld THEN disk[t] ELSE Remove(disk[t]))
    /\ todo' = todo \ {t}
    /\ UNCHANGED <<dirty, journal, journalSeen, pc, plan, cur>>

RollbackDone ==
    /\ pc = "rollback" /\ todo = {} /\ cur = {}
    /\ pc' = "back"
    /\ UNCHANGED <<disk, seen, dirty, journal, journalSeen, plan, todo, cur>>

-----------------------------------------------------------------------------
(* Clearing a finished swap: journaledSwap after its commit ("cleanup"),   *)
(* recoverSwap rolling forward ("forward") or having rolled back ("back"). *)

NoBackup == \A t \in Target : disk[t].backup = None
NoStage  == \A t \in Target : disk[t].stage = None

RemoveBackup(t) ==
    /\ pc \in {"cleanup", "forward"} \/ (pc = "back" /\ NoStage)
    /\ disk[t].backup # None
    /\ SetEntry(t, DropBackup(disk[t]))
    /\ UNCHANGED <<dirty, journal, journalSeen, pc, plan, todo, cur>>

RemoveStage(t) ==
    /\ pc = "back" \/ (pc \in {"cleanup", "forward"} /\ NoBackup)
    /\ disk[t].stage # None
    /\ SetEntry(t, DropStage(disk[t]))
    /\ UNCHANGED <<dirty, journal, journalSeen, pc, plan, todo, cur>>

UnlinkJournal ==
    /\ pc \in {"cleanup", "forward", "back"}
    /\ NoBackup /\ NoStage
    /\ SetJournal(NoJournal)
    /\ pc' = IF pc = "cleanup" THEN "down" ELSE "ready"
    /\ IF pc = "back" THEN Settle("rollback") ELSE UNCHANGED seen
    /\ UNCHANGED <<disk, dirty, plan, todo, cur>>

-----------------------------------------------------------------------------
(* buildInstance stages the changed targets; journaledSwap installs them.  *)

(* The stage and backup directories carry the build's own id: what an      *)
(* earlier build left in its own is out of the way.                        *)
StageEntry(p, t, e) == [inst |-> e.inst, backup |-> None, stage |-> p.content[t]]

Stage(p) ==
    /\ pc = "ready"
    /\ plan' = p
    /\ disk' = [t \in Target |-> StageEntry(p, t, disk[t])]
    /\ seen' = [t \in Target |-> {StageEntry(p, t, e) : e \in seen[t]}]
    /\ dirty' = IF "data" \in Unsynced THEN p.installs ELSE {}
    /\ pc' = "staged"
    /\ UNCHANGED <<journal, journalSeen, todo, cur>>

(* Variant: only the installs are looked up, not the removes. *)
HadOldInstalls(p) == {t \in p.installs : disk[t].inst # None}

HadOld(p) == {t \in p.installs \cup p.removes : disk[t].inst # None}

(* Variant: a begin line without hadOld. *)
BeginRecordBare(p) == [st |-> "begin", installs |-> p.installs, removes |-> p.removes]

BeginRecord(p) == [st |-> "begin", installs |-> p.installs,
                   removes |-> p.removes, hadOld |-> HadOld(p)]

(* open(jPath, "w"): the file exists before its line is complete. *)
OpenJournal ==
    /\ pc = "staged"
    /\ SetJournal(TornJournal)
    /\ pc' = "opened"
    /\ UNCHANGED <<disk, seen, dirty, plan, todo, cur>>

WriteBegin ==
    /\ pc = "opened"
    /\ SetJournal(BeginRecord(plan))
    /\ pc' = "written"
    /\ UNCHANGED <<disk, seen, dirty, plan, todo, cur>>

SyncBegin ==
    /\ pc = "written"
    /\ FsyncJournal
    /\ pc' = "installs"
    /\ todo' = plan.installs
    /\ UNCHANGED <<disk, seen, dirty, journal, plan, cur>>

AsideOld(t) ==
    /\ pc = "installs" /\ t \in todo /\ cur = {}
    /\ disk[t].inst # None
    /\ SetEntry(t, MoveAside(disk[t]))
    /\ todo' = todo \ {t}
    /\ cur' = {t}
    /\ UNCHANGED <<dirty, journal, journalSeen, pc, plan>>

InstallNew(t) ==
    /\ pc = "installs"
    /\ cur = {t} \/ (cur = {} /\ t \in todo /\ disk[t].inst = None)
    /\ SetEntry(t, MoveIn(disk[t]))
    /\ todo' = todo \ {t}
    /\ cur' = {}
    /\ UNCHANGED <<dirty, journal, journalSeen, pc, plan>>

InstallsDone ==
    /\ pc = "installs" /\ todo = {} /\ cur = {}
    /\ pc' = "removes"
    /\ todo' = plan.removes
    /\ UNCHANGED <<disk, seen, dirty, journal, journalSeen, plan, cur>>

RemoveOld(t) ==
    /\ pc = "removes" /\ t \in todo
    /\ SetEntry(t, IF disk[t].inst # None THEN MoveAside(disk[t]) ELSE disk[t])
    /\ todo' = todo \ {t}
    /\ UNCHANGED <<dirty, journal, journalSeen, pc, plan, cur>>

(* Variant: the directories of the removes are not fsynced. *)
AffectedDirsInstalls(p) == p.installs

AffectedDirs(p) == p.installs \cup p.removes

RemovesDone ==
    /\ pc = "removes" /\ todo = {}
    /\ pc' = "sync"
    /\ todo' = AffectedDirs(plan)
    /\ UNCHANGED <<disk, seen, dirty, journal, journalSeen, plan, cur>>

SyncDirs(t) ==
    /\ pc = "sync" /\ t \in todo
    /\ FsyncDirs(t)
    /\ todo' = todo \ {t}
    /\ UNCHANGED <<disk, dirty, journal, journalSeen, pc, plan, cur>>

AppendCommit ==
    /\ pc = "sync" /\ todo = {}
    /\ SetJournal([journal EXCEPT !.st = "committed"])
    /\ pc' = "committing"
    /\ UNCHANGED <<disk, seen, dirty, plan, todo, cur>>

(* The linearization point. *)
SyncCommit ==
    /\ pc = "committing"
    /\ FsyncJournal
    /\ pc' = "cleanup"
    /\ plan' = NoPlan
    /\ UNCHANGED <<disk, seen, dirty, journal, todo, cur>>

-----------------------------------------------------------------------------
(* Interruptions.                                                          *)

Stopped ==
    /\ pc' = "down"
    /\ plan' = NoPlan
    /\ todo' = {}
    /\ cur' = {}

(* The process is killed, or a call throws and the build rejects. *)
Kill ==
    /\ pc # "down"
    /\ Stopped
    /\ UNCHANGED <<disk, journal>>
    /\ Settle("killed")
    /\ dirty' = IF "killed" \in Unsynced THEN dirty ELSE {}
    /\ journalSeen' = IF "killed" \in Unsynced THEN journalSeen ELSE {journal}

PowerLoss ==
    /\ Stopped
    /\ disk' \in {d \in [Target -> UNION {AfterLoss(t) : t \in Target}] :
                    \A t \in Target : d[t] \in AfterLoss(t)}
    /\ seen' = [t \in Target |-> {disk'[t]}]
    /\ dirty' = {}
    /\ journal' \in journalSeen
    /\ journalSeen' = {journal'}

-----------------------------------------------------------------------------
Recovery ==
    \/ RecoverClean \/ RecoverForward \/ RecoverBack \/ RollbackDone
    \/ \E t \in Target : RollbackClear(t) \/ RollbackRestore(t) \/ RollbackUndo(t)

Cleanup ==
    \/ UnlinkJournal
    \/ \E t \in Target : RemoveBackup(t) \/ RemoveStage(t)

Swap ==
    \/ OpenJournal \/ WriteBegin \/ SyncBegin \/ InstallsDone \/ RemovesDone
    \/ AppendCommit \/ SyncCommit
    \/ \E t \in Target : AsideOld(t) \/ InstallNew(t) \/ RemoveOld(t) \/ SyncDirs(t)

Next ==
    \/ Recovery \/ Cleanup \/ Swap
    \/ \E p \in Plan : Stage(p)
    \/ Kill \/ PowerLoss

Spec == Init /\ [][Next]_vars

(* After an interruption the instance is built again, and a recovery that   *)
(* has started is carried on by the process that runs it.                   *)
FairSpec == Spec /\ WF_vars(Recovery) /\ WF_vars(Cleanup)

-----------------------------------------------------------------------------
(* Properties.                                                             *)

TypeOK ==
    /\ disk \in [Target -> Entry]
    /\ seen \in [Target -> SUBSET Entry]
    /\ dirty \subseteq Target
    /\ journal \in Journal
    /\ journalSeen \subseteq Journal
    /\ pc \in {"down", "ready", "staged", "opened", "written", "installs", "removes",
               "sync", "committing", "cleanup", "rollback", "forward", "back"}
    /\ plan \in Plan \cup {NoPlan}
    /\ todo \subseteq Target
    /\ cur \subseteq Target

(* What recoverSwap, reading journal j, would leave in the instance at t.   *)
LogicalEntry(t, e, j) ==
    IF j.st = "begin" /\ t \in j.installs \cup j.removes
    THEN IF e.backup # None THEN e.backup
         ELSE IF t \in j.hadOld THEN e.inst ELSE None
    ELSE e.inst

(* Between writing the commit line and its fsync a running build has not    *)
(* committed: only an interruption decides.                                 *)
InForce == IF pc = "committing" THEN [journal EXCEPT !.st = "begin"] ELSE journal

(* The instance as it stands once any interrupted swap is reconciled. *)
Tree == [t \in Target |-> LogicalEntry(t, disk[t], InForce)]

Atomic == INSTANCE AtomicSwap WITH tree <- Tree, request <- plan

(* journaledSwap and recoverSwap implement AtomicSwap: whatever interrupts  *)
(* the build, the reconciled tree changes in one step to the one asked for. *)
SwapIsAtomic == Atomic!Spec

(* Whatever mix of unsynced renames a power loss keeps, recoverSwap brings  *)
(* back the old tree, or all of the new one when the commit line survived.  *)
Recoverable ==
    \A j \in journalSeen, t \in Target : \A e \in AfterLoss(t) :
        LogicalEntry(t, e, j) =
            IF pc = "committing" /\ j.st = "committed"
            THEN Atomic!Apply(Tree, plan)[t]
            ELSE Tree[t]

(* Kills and power losses come to an end. *)
LetRun == <>[][~(Kill \/ PowerLoss)]_vars

(* However a build was stopped - in the middle of its renames, of writing   *)
(* the begin line, or of an earlier recovery - and whatever a power loss    *)
(* kept, the instance is not wedged: a later build gets through recoverSwap *)
(* and finds in place, at every target, the tree that was owed.             *)
ReconciledOnStart ==
    LetRun => \A tree \in [Target -> Value] :
        (pc = "down" /\ Tree = tree) ~> (pc = "ready" /\ \A t \in Target : disk[t].inst = tree[t])
=============================================================================
