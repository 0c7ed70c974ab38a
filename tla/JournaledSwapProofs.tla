------------------------ MODULE JournaledSwapProofs ------------------------
(***************************************************************************)
(* Proofs about JournaledSwap, for every set of targets and contents, when *)
(* the disk keeps what the code never fsyncs (Unsynced = {}).  Type        *)
(* correctness does not need that.                                         *)
(***************************************************************************)
EXTENDS JournaledSwap, TLAPS

-----------------------------------------------------------------------------
(* The inductive invariant: what each phase of the code relies on.         *)

Running == {"staged", "opened", "written", "installs", "removes", "sync", "committing"}

Considered(j) == j.installs \cup j.removes

(* What the process sees is one of the states the disk may come back in. *)
Current ==
    /\ \A t \in Target : disk[t] \in seen[t]
    /\ journal \in journalSeen
    /\ dirty = {}

(* The plan and the journal that each phase runs with. *)
Phase ==
    /\ pc \notin Running => plan = NoPlan
    /\ pc \in {"ready", "staged"} => journal = NoJournal
    /\ pc = "opened" => journal = TornJournal
    /\ pc \in {"written", "installs", "removes", "sync", "rollback", "back"}
          => journal.st = "begin"
    /\ pc \in {"committing", "cleanup", "forward"} => journal.st = "committed"
    /\ pc \in {"written", "installs", "removes", "sync", "committing"}
          => journal.installs = plan.installs /\ journal.removes = plan.removes

(* The journals that a power loss may bring back. *)
Journals ==
    /\ pc \in {"installs", "removes", "sync"} => journalSeen = {journal}
    /\ pc = "committing" => journalSeen = {journal, InForce}
    /\ pc \in {"cleanup", "forward"} => \A j \in journalSeen : j.st # "begin"
    /\ pc \in {"down", "rollback", "back"} =>
          journalSeen = {journal} \/ \A j \in journalSeen : j.st # "begin"

(* A backup is only ever taken of an entry that hadOld names. *)
BackedUp ==
    \A j \in journalSeen, t \in Target : \A e \in seen[t] :
        j.st = "begin" /\ t \in Considered(j) /\ e.backup # None => t \in j.hadOld

(* Until the journal is on disk no target has been touched, and any journal *)
(* a power loss brings back leaves the instance as it is.                   *)
Untouched ==
    /\ pc \in {"ready", "staged", "opened", "written"} =>
          \A t \in Target : \A e \in seen[t] :
              /\ e.inst = disk[t].inst
              /\ \A j \in journalSeen : LogicalEntry(t, e, j) = e.inst
    /\ pc \in {"staged", "opened", "written"} =>
          \A t \in Target : \A e \in seen[t] : e.backup = None
    /\ pc \in {"staged", "opened", "written"} =>
          \A t \in Target : disk[t].stage = plan.content[t]

(* The targets the loops of journaledSwap have not reached. *)
Undone ==
    CASE pc = "written"  -> plan.installs \cup plan.removes
      [] pc = "installs" -> todo \cup plan.removes
      [] pc = "removes"  -> todo
      [] OTHER           -> {}

Pending ==
    \A t \in Undone : /\ disk[t].backup = None
                      /\ t \in journal.hadOld <=> disk[t].inst # None

(* Where the loops are: the body in progress has moved its old entry aside. *)
Loops ==
    /\ pc \notin {"installs", "removes", "sync", "rollback"} => todo = {}
    /\ pc \notin {"installs", "rollback"} => cur = {}
    /\ pc = "installs" => todo \subseteq plan.installs /\ cur \subseteq plan.installs \ todo
    /\ pc = "removes" => todo \subseteq plan.removes
    /\ pc = "sync" => todo \subseteq plan.installs \cup plan.removes
    /\ pc = "rollback" => todo \subseteq considered /\ cur \subseteq considered \ todo
    /\ \A t \in cur : cur = {t} /\ disk[t].backup # None /\ disk[t].inst = None

(* What the loops have done. *)
Done ==
    /\ pc = "installs" =>
          /\ \A t \in todo \cup cur : disk[t].stage = plan.content[t]
          /\ \A t \in plan.installs \ (todo \cup cur) : disk[t].inst = plan.content[t]
    /\ pc \in {"removes", "sync", "committing"} =>
          \A t \in plan.installs : disk[t].inst = plan.content[t]
    /\ pc = "removes" => \A t \in plan.removes \ todo : disk[t].inst = None
    /\ pc \in {"sync", "committing"} => \A t \in plan.removes : disk[t].inst = None
    /\ pc \in {"sync", "committing"} =>
          \A t \in (plan.installs \cup plan.removes) \ todo : seen[t] = {disk[t]}
    /\ pc \in {"rollback", "back"} =>
          \A t \in considered \ (todo \cup cur) :
              disk[t].backup = None /\ (t \in journal.hadOld \/ disk[t].inst = None)

(* Recoverable, once staged bytes are known to be on disk (dirty = {}). *)
Safe ==
    \A j \in journalSeen, t \in Target : \A e \in seen[t] :
        LogicalEntry(t, e, j) =
            IF pc = "committing" /\ j.st = "committed"
            THEN Atomic!Apply(Tree, plan)[t]
            ELSE Tree[t]

IInv ==
    /\ TypeOK /\ Current /\ Phase /\ Journals /\ BackedUp /\ Untouched
    /\ Pending /\ Loops /\ Done /\ Safe

-----------------------------------------------------------------------------
(* Type correctness.                                                       *)

LEMMA EntryOps ==
    ASSUME NEW e \in Entry
    PROVE  /\ MoveAside(e) \in Entry /\ MoveIn(e) \in Entry /\ MoveBack(e) \in Entry
           /\ Remove(e) \in Entry /\ DropBackup(e) \in Entry /\ DropStage(e) \in Entry
BY DEF Entry, Value, MoveAside, MoveIn, MoveBack, Remove, DropBackup, DropStage

(* A step that changes t's entries to an entry keeps disk and seen typed. *)
LEMMA SetEntryType ==
    ASSUME TypeOK, NEW t \in Target, NEW e \in Entry, SetEntry(t, e)
    PROVE  disk' \in [Target -> Entry] /\ seen' \in [Target -> SUBSET Entry]
BY DEF TypeOK, SetEntry

LEMMA AfterLossType ==
    ASSUME TypeOK, NEW t \in Target
    PROVE  AfterLoss(t) \subseteq Entry
<1>1. ASSUME NEW e \in seen[t]
      PROVE  Torns(t, e) \subseteq Entry
  <2>1. e \in Entry
    BY DEF TypeOK
  <2>2. [e EXCEPT !.stage = Torn] \in Entry /\ [e EXCEPT !.inst = Torn] \in Entry
    BY <2>1 DEF Entry, Value
  <2> QED
    BY <2>1, <2>2 DEF Torns
<1> QED
  BY <1>1 DEF AfterLoss

LEMMA JournalType ==
    /\ NoJournal \in Journal /\ TornJournal \in Journal
    /\ \A p \in Plan \cup {NoPlan} : BeginRecord(p) \in Journal
    /\ \A j \in Journal : [j EXCEPT !.st = "committed"] \in Journal
BY DEF Journal, NoJournal, TornJournal, BeginRecord, Plan, NoPlan, HadOld

LEMMA SettleType ==
    ASSUME TypeOK, NEW w, Settle(w)
    PROVE  seen' \in [Target -> SUBSET Entry]
BY DEF TypeOK, Settle

(* TypeOK is kept by recoverSwap's reconciliation. *)
LEMMA RecoveryType == TypeOK /\ Recovery => TypeOK'
<1> SUFFICES ASSUME TypeOK, Recovery PROVE TypeOK'
  OBVIOUS
<1>1. CASE RecoverClean
  BY <1>1, JournalType DEF TypeOK, RecoverClean, SetJournal
<1>2. CASE RecoverForward
  BY <1>2 DEF TypeOK, RecoverForward
<1>3. CASE RecoverBack
  BY <1>3 DEF TypeOK, RecoverBack, considered, Journal
<1>4. CASE RollbackDone
  BY <1>4 DEF TypeOK, RollbackDone
<1>5. ASSUME NEW t \in Target, RollbackClear(t) \/ RollbackRestore(t) \/ RollbackUndo(t)
      PROVE  TypeOK'
  <2>1. disk[t] \in Entry
    BY DEF TypeOK
  <2>2. \E e \in Entry : SetEntry(t, e)
    BY <1>5, <2>1, EntryOps DEF RollbackClear, RollbackRestore, RollbackUndo
  <2>3. disk' \in [Target -> Entry] /\ seen' \in [Target -> SUBSET Entry]
    BY <2>2, SetEntryType
  <2> QED
    BY <1>5, <2>3 DEF TypeOK, RollbackClear, RollbackRestore, RollbackUndo
<1> QED
  BY <1>1, <1>2, <1>3, <1>4, <1>5 DEF Recovery

(* TypeOK is kept by the clearing of backup, stage and journal. *)
LEMMA CleanupType == TypeOK /\ Cleanup => TypeOK'
<1> SUFFICES ASSUME TypeOK, Cleanup PROVE TypeOK'
  OBVIOUS
<1>1. CASE UnlinkJournal
  <2>1. seen' \in [Target -> SUBSET Entry]
    BY <1>1, SettleType DEF UnlinkJournal, TypeOK
  <2> QED
    BY <1>1, <2>1, JournalType DEF TypeOK, UnlinkJournal, SetJournal
<1>2. ASSUME NEW t \in Target, RemoveBackup(t) \/ RemoveStage(t)
      PROVE  TypeOK'
  <2>1. disk[t] \in Entry
    BY DEF TypeOK
  <2>2. disk' \in [Target -> Entry] /\ seen' \in [Target -> SUBSET Entry]
    BY <1>2, <2>1, EntryOps, SetEntryType DEF RemoveBackup, RemoveStage
  <2> QED
    BY <1>2, <2>2 DEF TypeOK, RemoveBackup, RemoveStage
<1> QED
  BY <1>1, <1>2 DEF Cleanup

(* TypeOK is kept by journaledSwap up to its commit. *)
LEMMA SwapType == TypeOK /\ Swap => TypeOK'
<1> SUFFICES ASSUME TypeOK, Swap PROVE TypeOK'
  OBVIOUS
<1>1. CASE OpenJournal
  BY <1>1, JournalType DEF TypeOK, OpenJournal, SetJournal
<1>2. CASE WriteBegin
  BY <1>2, JournalType DEF TypeOK, WriteBegin, SetJournal
<1>3. CASE SyncBegin
  BY <1>3 DEF TypeOK, SyncBegin, FsyncJournal, Plan, NoPlan
<1>4. CASE InstallsDone
  BY <1>4 DEF TypeOK, InstallsDone, Plan, NoPlan
<1>5. CASE RemovesDone
  BY <1>5 DEF TypeOK, RemovesDone, AffectedDirs, Plan, NoPlan
<1>6. CASE AppendCommit
  BY <1>6, JournalType DEF TypeOK, AppendCommit, SetJournal
<1>7. CASE SyncCommit
  BY <1>7 DEF TypeOK, SyncCommit, FsyncJournal
<1>8. ASSUME NEW t \in Target, AsideOld(t) \/ InstallNew(t) \/ RemoveOld(t)
      PROVE  TypeOK'
  <2>1. disk[t] \in Entry
    BY DEF TypeOK
  <2>2. \E e \in Entry : SetEntry(t, e)
    BY <1>8, <2>1, EntryOps DEF AsideOld, InstallNew, RemoveOld
  <2>3. disk' \in [Target -> Entry] /\ seen' \in [Target -> SUBSET Entry]
    BY <2>2, SetEntryType
  <2> QED
    BY <1>8, <2>3 DEF TypeOK, AsideOld, InstallNew, RemoveOld
<1>9. ASSUME NEW t \in Target, SyncDirs(t)
      PROVE  TypeOK'
  BY <1>9 DEF TypeOK, SyncDirs, FsyncDirs
<1> QED
  BY <1>1, <1>2, <1>3, <1>4, <1>5, <1>6, <1>7, <1>8, <1>9 DEF Swap

LEMMA StageType == ASSUME TypeOK, NEW p \in Plan, Stage(p) PROVE TypeOK'
<1>1. \A t \in Target : \A e \in Entry : StageEntry(p, t, e) \in Entry
  BY DEF Plan, Entry, Value, StageEntry
<1>2. disk' \in [Target -> Entry]
  BY <1>1 DEF Stage, TypeOK
<1>3. seen' \in [Target -> SUBSET Entry]
  <2>1. seen' = [t \in Target |-> {StageEntry(p, t, e) : e \in seen[t]}]
    BY DEF Stage
  <2>2. ASSUME NEW t \in Target
        PROVE  {StageEntry(p, t, e) : e \in seen[t]} \subseteq Entry
    BY <1>1 DEF TypeOK
  <2> QED
    BY <2>1, <2>2
<1> QED
  BY <1>2, <1>3 DEF TypeOK, Stage, Plan

LEMMA InterruptionType == TypeOK /\ (Kill \/ PowerLoss) => TypeOK'
<1> SUFFICES ASSUME TypeOK, Kill \/ PowerLoss PROVE TypeOK'
  OBVIOUS
<1>1. CASE Kill
  <2>1. seen' \in [Target -> SUBSET Entry]
    BY <1>1, SettleType DEF Kill
  <2> QED
    BY <1>1, <2>1 DEF TypeOK, Kill, Stopped
<1>2. CASE PowerLoss
  <2>1. disk' \in [Target -> Entry]
    <3>1. PICK X : disk' \in [Target -> X] /\ \A t \in Target : disk'[t] \in AfterLoss(t)
      BY <1>2 DEF PowerLoss
    <3> QED
      BY <3>1, AfterLossType
  <2>2. seen' \in [Target -> SUBSET Entry]
    BY <1>2, <2>1 DEF PowerLoss
  <2> QED
    BY <1>2, <2>1, <2>2 DEF TypeOK, PowerLoss, Stopped
<1> QED
  BY <1>1, <1>2

LEMMA TypeStep == TypeOK /\ [Next]_vars => TypeOK'
<1> SUFFICES ASSUME TypeOK, [Next]_vars PROVE TypeOK'
  OBVIOUS
<1>1. CASE UNCHANGED vars
  BY <1>1 DEF TypeOK, vars
<1>2. CASE Next
  BY <1>2, RecoveryType, CleanupType, SwapType, StageType, InterruptionType DEF Next
<1> QED
  BY <1>1, <1>2

LEMMA InitType == Init => TypeOK
BY SwapAssumption, JournalType DEF Init, TypeOK, Entry, Value, NoPlan

(* Every variable keeps its type, whatever is never fsynced. *)
THEOREM TypeCorrect == Spec => []TypeOK
BY InitType, TypeStep, PTL DEF Spec
-----------------------------------------------------------------------------
(* One lemma per action: what it keeps of the invariant and does to Tree.  *)

(* A step that changes the entries of one target, and not what recovery     *)
(* would make of them, changes the reconciled tree at no target.            *)
LEMMA EntryStep ==
    ASSUME IInv, NEW t \in Target, NEW e \in Entry, SetEntry(t, e),
           UNCHANGED <<journal, journalSeen, pc>>, pc # "committing",
           \A j \in journalSeen :
               /\ LogicalEntry(t, e, j) = LogicalEntry(t, disk[t], j)
               /\ j.st = "begin" /\ t \in Considered(j) /\ e.backup # None => t \in j.hadOld
    PROVE  Tree' = Tree /\ Safe' /\ BackedUp'
<1>1. /\ InForce = journal /\ InForce' = journal
      /\ journal \in journalSeen /\ disk[t] \in seen[t]
  BY DEF IInv, Current, InForce
<1>2. /\ disk' = [disk EXCEPT ![t] = e]
      /\ \A u \in Target : \A x \in seen'[u] : x \in seen[u] \/ (u = t /\ x = e)
      /\ disk \in [Target -> Entry]
  BY DEF SetEntry, IInv, TypeOK
<1>3. ASSUME NEW u \in Target
      PROVE  LogicalEntry(u, disk'[u], journal) = LogicalEntry(u, disk[u], journal)
  BY <1>1, <1>2
<1>4. Tree' = Tree
  BY <1>1, <1>3 DEF Tree
<1>5. Safe'
  <2> SUFFICES ASSUME NEW j \in journalSeen, NEW u \in Target, NEW x \in seen'[u]
               PROVE  LogicalEntry(u, x, j) = Tree[u]
    BY <1>4 DEF Safe
  <2>1. \A y \in seen[u] : LogicalEntry(u, y, j) = Tree[u]
    BY DEF IInv, Safe
  <2> QED
    BY <1>1, <1>2, <2>1
<1>6. BackedUp'
  BY <1>2 DEF IInv, BackedUp
<1> QED
  BY <1>4, <1>5, <1>6

LEMMA RecoverCleanStep ==
    ASSUME Unsynced = {}, IInv, RecoverClean, TypeOK'
    PROVE  IInv' /\ (Tree' = Tree)
<1>1. Current' /\ Phase' /\ Journals'
  BY DEF IInv, RecoverClean, SetJournal, Current, Phase, Journals, Running
<1>2. BackedUp'
  BY DEF IInv, RecoverClean, SetJournal, BackedUp, NoJournal
<1>3. Untouched'
  BY DEF IInv, RecoverClean, SetJournal, Current, Untouched, Safe,
     LogicalEntry, NoJournal
<1>4. Pending'
  BY DEF RecoverClean, Pending, Undone
<1>5. Loops' /\ Done'
  BY DEF IInv, RecoverClean, Loops, Done
<1>6. Tree' = Tree
  BY DEF RecoverClean, SetJournal, Tree, LogicalEntry, NoJournal, InForce
<1>7. Safe'
  BY <1>6 DEF IInv, RecoverClean, SetJournal, Current, Safe, LogicalEntry,
     NoJournal
<1> QED
  BY <1>1, <1>2, <1>3, <1>4, <1>5, <1>6, <1>7 DEF IInv

LEMMA RecoverForwardStep ==
    ASSUME Unsynced = {}, IInv, RecoverForward, TypeOK'
    PROVE  IInv' /\ (Tree' = Tree)
<1>1. Current' /\ Phase' /\ Journals'
  BY DEF IInv, RecoverForward, Current, Phase, Journals, Running
<1>2. BackedUp'
  BY DEF IInv, RecoverForward, BackedUp
<1>3. Untouched'
  BY DEF RecoverForward, Untouched
<1>4. Pending'
  BY DEF RecoverForward, Pending, Undone
<1>5. Loops' /\ Done'
  BY DEF IInv, RecoverForward, Loops, Done
<1>6. Tree' = Tree
  BY DEF RecoverForward, Tree, InForce
<1>7. Safe'
  BY <1>6 DEF IInv, RecoverForward, Safe
<1> QED
  BY <1>1, <1>2, <1>3, <1>4, <1>5, <1>6, <1>7 DEF IInv

LEMMA RecoverBackStep ==
    ASSUME Unsynced = {}, IInv, RecoverBack, TypeOK'
    PROVE  IInv' /\ (Tree' = Tree)
<1>1. Current' /\ Phase' /\ Journals'
  BY DEF IInv, RecoverBack, Current, Phase, Journals, Running
<1>2. BackedUp'
  BY DEF IInv, RecoverBack, BackedUp
<1>3. Untouched'
  BY DEF RecoverBack, Untouched
<1>4. Pending'
  BY DEF RecoverBack, Pending, Undone
<1>5. Loops' /\ Done'
  BY DEF IInv, RecoverBack, Loops, Done, considered
<1>6. Tree' = Tree
  BY DEF RecoverBack, Tree, InForce
<1>7. Safe'
  BY <1>6 DEF IInv, RecoverBack, Safe
<1> QED
  BY <1>1, <1>2, <1>3, <1>4, <1>5, <1>6, <1>7 DEF IInv

LEMMA RollbackDoneStep ==
    ASSUME Unsynced = {}, IInv, RollbackDone, TypeOK'
    PROVE  IInv' /\ (Tree' = Tree)
<1>1. Current' /\ Phase' /\ Journals'
  BY DEF IInv, RollbackDone, Current, Phase, Journals, Running
<1>2. BackedUp'
  BY DEF IInv, RollbackDone, BackedUp
<1>3. Untouched'
  BY DEF RollbackDone, Untouched
<1>4. Pending'
  BY DEF RollbackDone, Pending, Undone
<1>5. Loops' /\ Done'
  BY DEF IInv, RollbackDone, Loops, Done, considered
<1>6. Tree' = Tree
  BY DEF RollbackDone, Tree, InForce
<1>7. Safe'
  BY <1>6 DEF IInv, RollbackDone, Safe
<1> QED
  BY <1>1, <1>2, <1>3, <1>4, <1>5, <1>6, <1>7 DEF IInv

LEMMA UnlinkJournalStep ==
    ASSUME Unsynced = {}, IInv, UnlinkJournal, TypeOK'
    PROVE  IInv' /\ (Tree' = Tree)
<1>1. Current' /\ Phase' /\ Journals'
  BY DEF IInv, UnlinkJournal, SetJournal, Settle, Current, Phase, Journals,
     Running, NoJournal
<1>2. BackedUp'
  BY DEF IInv, UnlinkJournal, SetJournal, Settle, NoBackup, BackedUp,
     NoJournal
<1>3. Untouched'
  <2>1. CASE pc = "cleanup"
    BY <2>1 DEF UnlinkJournal, Untouched
  <2>2. CASE pc = "forward"
    BY <2>2 DEF IInv, UnlinkJournal, SetJournal, Current, Phase, Journals, Untouched, Safe,
       Tree, LogicalEntry, InForce, NoJournal
  <2>3. CASE pc = "back"
    <3>1. seen' = [t \in Target |-> {disk[t]}]
      BY <2>3 DEF UnlinkJournal, Settle
    <3>2. journalSeen' \subseteq journalSeen \cup {NoJournal}
      BY DEF UnlinkJournal, SetJournal
    <3>3. \A t \in Target : LogicalEntry(t, disk[t], NoJournal) = disk[t].inst
      BY DEF LogicalEntry, NoJournal
    <3>4. \A t \in Target, j \in journalSeen : LogicalEntry(t, disk[t], j) = disk[t].inst
      BY <2>3 DEF IInv, Done, Loops, Journals, LogicalEntry, considered
    <3> QED
      BY <2>3, <3>1, <3>2, <3>3, <3>4 DEF UnlinkJournal, Untouched
  <2> QED
    BY <2>1, <2>2, <2>3 DEF UnlinkJournal
<1>4. Pending'
  BY DEF UnlinkJournal, Pending, Undone
<1>5. Loops' /\ Done'
  BY DEF IInv, UnlinkJournal, Loops, Done
<1>6. Tree' = Tree
  BY DEF IInv, UnlinkJournal, SetJournal, Phase, Loops, Done, Tree,
     LogicalEntry, NoJournal, considered, InForce
<1>7. Safe'
  BY <1>6 DEF IInv, UnlinkJournal, SetJournal, Settle, Current, Phase, Loops,
     Done, Safe, LogicalEntry, Atomic!Apply, NoJournal, considered
<1> QED
  BY <1>1, <1>2, <1>3, <1>4, <1>5, <1>6, <1>7 DEF IInv

LEMMA OpenJournalStep ==
    ASSUME Unsynced = {}, IInv, OpenJournal, TypeOK'
    PROVE  IInv' /\ (Tree' = Tree)
<1>1. Current' /\ Phase' /\ Journals'
  BY DEF IInv, OpenJournal, SetJournal, Current, Phase, Journals, Running
<1>2. BackedUp'
  BY DEF IInv, OpenJournal, BackedUp, Untouched
<1>3. Untouched'
  BY DEF IInv, OpenJournal, SetJournal, Untouched, LogicalEntry, NoJournal,
     TornJournal
<1>4. Pending'
  BY DEF OpenJournal, Pending, Undone
<1>5. Loops' /\ Done'
  BY DEF IInv, OpenJournal, Loops, Done
<1>6. Tree' = Tree
  BY DEF IInv, OpenJournal, SetJournal, Current, Untouched, Tree,
     LogicalEntry, TornJournal, InForce
<1>7. Safe'
  BY <1>6 DEF IInv, OpenJournal, SetJournal, Current, Phase, Safe,
     LogicalEntry, NoJournal, TornJournal
<1> QED
  BY <1>1, <1>2, <1>3, <1>4, <1>5, <1>6, <1>7 DEF IInv

LEMMA WriteBeginStep ==
    ASSUME Unsynced = {}, IInv, WriteBegin, TypeOK'
    PROVE  IInv' /\ (Tree' = Tree)
<1>1. Current' /\ Phase' /\ Journals'
  BY DEF IInv, WriteBegin, SetJournal, BeginRecord, Current, Phase, Journals,
     Running
<1>2. BackedUp'
  BY DEF IInv, WriteBegin, BackedUp, Untouched
<1>3. Untouched'
  BY DEF IInv, WriteBegin, SetJournal, BeginRecord, HadOld, Untouched,
     LogicalEntry
<1>4. Pending'
  BY DEF IInv, WriteBegin, SetJournal, BeginRecord, HadOld, Current, TypeOK,
     Pending, Undone, Untouched, Plan, NoPlan
<1>5. Loops' /\ Done'
  BY DEF IInv, WriteBegin, Loops, Done
<1>6. Tree' = Tree
  BY DEF IInv, WriteBegin, SetJournal, BeginRecord, HadOld, Current,
     Untouched, Tree, LogicalEntry, InForce
<1>7. Safe'
  BY <1>6 DEF IInv, WriteBegin, SetJournal, BeginRecord, HadOld, Current,
     Untouched, Safe, LogicalEntry
<1> QED
  BY <1>1, <1>2, <1>3, <1>4, <1>5, <1>6, <1>7 DEF IInv

LEMMA SyncBeginStep ==
    ASSUME Unsynced = {}, IInv, SyncBegin, TypeOK'
    PROVE  IInv' /\ (Tree' = Tree)
<1>1. Current' /\ Phase' /\ Journals'
  BY DEF IInv, SyncBegin, FsyncJournal, Current, Phase, Journals, Running
<1>2. BackedUp'
  BY DEF IInv, SyncBegin, FsyncJournal, Current, BackedUp
<1>3. Untouched'
  BY DEF SyncBegin, Untouched
<1>4. Pending'
  BY DEF IInv, SyncBegin, Pending, Undone
<1>5. Loops' /\ Done'
  BY DEF IInv, SyncBegin, Loops, TypeOK, Untouched, Done
<1>6. Tree' = Tree
  BY DEF SyncBegin, Tree, InForce
<1>7. Safe'
  BY <1>6 DEF IInv, SyncBegin, FsyncJournal, Current, Safe
<1> QED
  BY <1>1, <1>2, <1>3, <1>4, <1>5, <1>6, <1>7 DEF IInv

LEMMA InstallsDoneStep ==
    ASSUME Unsynced = {}, IInv, InstallsDone, TypeOK'
    PROVE  IInv' /\ (Tree' = Tree)
<1>1. Current' /\ Phase' /\ Journals'
  BY DEF IInv, InstallsDone, Current, Phase, Journals, Running
<1>2. BackedUp'
  BY DEF IInv, InstallsDone, BackedUp
<1>3. Untouched'
  BY DEF InstallsDone, Untouched
<1>4. Pending'
  BY DEF IInv, InstallsDone, Pending, Undone
<1>5. Loops' /\ Done'
  BY DEF IInv, InstallsDone, Loops, Done
<1>6. Tree' = Tree
  BY DEF InstallsDone, Tree, InForce
<1>7. Safe'
  BY <1>6 DEF IInv, InstallsDone, Safe
<1> QED
  BY <1>1, <1>2, <1>3, <1>4, <1>5, <1>6, <1>7 DEF IInv

LEMMA RemovesDoneStep ==
    ASSUME Unsynced = {}, IInv, RemovesDone, TypeOK'
    PROVE  IInv' /\ (Tree' = Tree)
<1>1. Current' /\ Phase' /\ Journals'
  BY DEF IInv, RemovesDone, Current, Phase, Journals, Running
<1>2. BackedUp'
  BY DEF IInv, RemovesDone, BackedUp
<1>3. Untouched'
  BY DEF RemovesDone, Untouched
<1>4. Pending'
  BY DEF RemovesDone, Pending, Undone
<1>5. Loops' /\ Done'
  BY DEF IInv, RemovesDone, AffectedDirs, Loops, Done
<1>6. Tree' = Tree
  BY DEF RemovesDone, Tree, InForce
<1>7. Safe'
  BY <1>6 DEF IInv, RemovesDone, Safe
<1> QED
  BY <1>1, <1>2, <1>3, <1>4, <1>5, <1>6, <1>7 DEF IInv

LEMMA AppendCommitStep ==
    ASSUME Unsynced = {}, IInv, AppendCommit, TypeOK'
    PROVE  IInv' /\ (Tree' = Tree)
<1>0. /\ journal'.st = "committed" /\ journal'.installs = journal.installs
      /\ journal'.removes = journal.removes /\ journal'.hadOld = journal.hadOld
      /\ InForce = journal /\ InForce' = journal
  BY DEF IInv, AppendCommit, SetJournal, InForce, Phase, TypeOK, Journal
<1>a. journalSeen = {journal} /\ journalSeen' = {journal, journal'} /\ seen' = seen /\ pc' = "committing"
  BY DEF IInv, AppendCommit, SetJournal, Journals
<1>1. Current' /\ Phase' /\ Journals'
  BY <1>0 DEF IInv, AppendCommit, SetJournal, Current, Phase, Journals,
     Running
<1>2. BackedUp'
  BY <1>0, <1>a DEF IInv, BackedUp
<1>3. Untouched'
  BY <1>0 DEF AppendCommit, Untouched
<1>4. Pending'
  BY <1>0 DEF AppendCommit, Pending, Undone
<1>5. Loops' /\ Done'
  BY <1>0 DEF IInv, AppendCommit, Loops, Done
<1>6. Tree' = Tree
  BY <1>0 DEF AppendCommit, Tree
<1>7. Safe'
  <2>1. \A t \in Target, e \in Entry : LogicalEntry(t, e, journal') = e.inst
    BY <1>0 DEF LogicalEntry
  <2>2. \A t \in Target : \A e \in seen[t] : e.inst = Atomic!Apply(Tree, plan)[t]
    BY <1>0 DEF IInv, AppendCommit, Done, Loops, Phase, Safe, Journals, Current, LogicalEntry, Tree,
       Atomic!Apply, Plan, NoPlan
  <2>3. plan' = plan
    BY DEF AppendCommit
  <2>4. journal.st # "committed" /\ \A t \in Target : seen[t] \subseteq Entry
    BY DEF IInv, Phase, AppendCommit, TypeOK
  <2>5. \A t \in Target : \A e \in seen[t] : LogicalEntry(t, e, journal) = Tree[t]
    BY <1>a, <2>4 DEF IInv, Safe
  <2> QED
    BY <1>6, <1>0, <1>a, <2>1, <2>2, <2>3, <2>4, <2>5 DEF Safe
<1> QED
  BY <1>1, <1>2, <1>3, <1>4, <1>5, <1>6, <1>7 DEF IInv

LEMMA SyncCommitStep ==
    ASSUME Unsynced = {}, IInv, SyncCommit, TypeOK'
    PROVE  IInv' /\ (Tree' = Tree \/ Tree' = Atomic!Apply(Tree, plan))
<1>1. Current' /\ Phase' /\ Journals'
  BY DEF IInv, SyncCommit, FsyncJournal, Current, Phase, Journals
<1>2. BackedUp'
  BY DEF IInv, SyncCommit, FsyncJournal, Current, BackedUp
<1>3. Untouched'
  BY DEF SyncCommit, Untouched
<1>4. Pending'
  BY DEF SyncCommit, Pending, Undone
<1>5. Loops' /\ Done'
  BY DEF IInv, SyncCommit, Loops, Done
<1>6. Tree' = Tree \/ Tree' = Atomic!Apply(Tree, plan)
  BY DEF IInv, SyncCommit, Current, Safe, Tree, Atomic!Apply, InForce
<1>7. Safe'
  BY <1>6 DEF IInv, SyncCommit, FsyncJournal, Current, Safe, Tree, InForce
<1> QED
  BY <1>1, <1>2, <1>3, <1>4, <1>5, <1>6, <1>7 DEF IInv

LEMMA KillStep ==
    ASSUME Unsynced = {}, IInv, Kill, TypeOK'
    PROVE  IInv' /\ (Tree' = Tree \/ Tree' = Atomic!Apply(Tree, plan))
<1>1. Current' /\ Phase' /\ Journals'
  BY DEF Kill, Stopped, Settle, Current, Phase, Journals
<1>2. BackedUp'
  BY DEF IInv, Kill, Settle, Current, BackedUp
<1>3. Untouched'
  BY DEF Kill, Stopped, Untouched
<1>4. Pending'
  BY DEF Kill, Stopped, Pending, Undone
<1>5. Loops' /\ Done'
  BY DEF Kill, Stopped, Loops, Done
<1>6. Tree' = Tree \/ Tree' = Atomic!Apply(Tree, plan)
  BY DEF IInv, Kill, Stopped, Current, Safe, Tree, Atomic!Apply, InForce
<1>7. Safe'
  BY <1>6 DEF Kill, Stopped, Settle, Safe, Tree, InForce
<1> QED
  BY <1>1, <1>2, <1>3, <1>4, <1>5, <1>6, <1>7 DEF IInv

LEMMA PowerLossStep ==
    ASSUME Unsynced = {}, IInv, PowerLoss, TypeOK'
    PROVE  IInv' /\ (Tree' = Tree \/ Tree' = Atomic!Apply(Tree, plan))
<1>1. Current' /\ Phase' /\ Journals'
  BY DEF PowerLoss, Stopped, Current, Phase, Journals
<1>2. BackedUp'
  BY DEF IInv, PowerLoss, AfterLoss, Torns, Current, BackedUp
<1>3. Untouched'
  BY DEF PowerLoss, Stopped, Untouched
<1>4. Pending'
  BY DEF PowerLoss, Stopped, Pending, Undone
<1>5. Loops' /\ Done'
  BY DEF PowerLoss, Stopped, Loops, Done
<1>6. Tree' = Tree \/ Tree' = Atomic!Apply(Tree, plan)
  BY DEF IInv, PowerLoss, Stopped, AfterLoss, Torns, Current, Safe, Tree,
     LogicalEntry, Atomic!Apply, InForce
<1>7. Safe'
  BY <1>6 DEF PowerLoss, Stopped, Safe, Tree, InForce
<1> QED
  BY <1>1, <1>2, <1>3, <1>4, <1>5, <1>6, <1>7 DEF IInv

LEMMA RollbackClearStep ==
    ASSUME Unsynced = {}, IInv, NEW t \in Target, RollbackClear(t), TypeOK'
    PROVE  IInv' /\ (Tree' = Tree)
<1> DEFINE e == Remove(disk[t])
<1>1. SetEntry(t, e) /\ e \in Entry /\ disk[t] \in seen[t]
  BY EntryOps DEF IInv, TypeOK, Current, RollbackClear
<1>2. \A j \in journalSeen :
        /\ LogicalEntry(t, e, j) = LogicalEntry(t, disk[t], j)
        /\ j.st = "begin" /\ t \in Considered(j) /\ e.backup # None => t \in j.hadOld
  BY <1>1 DEF RollbackClear, Remove, IInv, Current, Phase, Journals, Loops,
     BackedUp, LogicalEntry, considered
<1>3. Tree' = Tree /\ Safe' /\ BackedUp'
  BY <1>1, <1>2, EntryStep DEF RollbackClear
<1>4. Current' /\ Phase' /\ Journals'
  BY DEF IInv, RollbackClear, SetEntry, Current, Phase, Journals, TypeOK
<1>5. Untouched'
  BY DEF RollbackClear, Untouched
<1>6. Pending'
  BY DEF RollbackClear, Pending, Undone
<1>7. Loops' /\ Done'
  BY DEF IInv, RollbackClear, SetEntry, Remove, Loops, TypeOK, Done,
     considered
<1> QED
  BY <1>3, <1>4, <1>5, <1>6, <1>7 DEF IInv

LEMMA RollbackRestoreStep ==
    ASSUME Unsynced = {}, IInv, NEW t \in Target, RollbackRestore(t), TypeOK'
    PROVE  IInv' /\ (Tree' = Tree)
<1> DEFINE e == MoveBack(disk[t])
<1>1. SetEntry(t, e) /\ e \in Entry /\ disk[t] \in seen[t]
  BY EntryOps DEF IInv, TypeOK, Current, RollbackRestore
<1>2. \A j \in journalSeen :
        /\ LogicalEntry(t, e, j) = LogicalEntry(t, disk[t], j)
        /\ j.st = "begin" /\ t \in Considered(j) /\ e.backup # None => t \in j.hadOld
  BY <1>1 DEF RollbackRestore, MoveBack, IInv, Current, Phase, Journals,
     Loops, BackedUp, LogicalEntry, Considered, considered
<1>3. Tree' = Tree /\ Safe' /\ BackedUp'
  BY <1>1, <1>2, EntryStep DEF RollbackRestore
<1>4. Current' /\ Phase' /\ Journals'
  BY DEF IInv, RollbackRestore, SetEntry, Current, Phase, Journals, TypeOK
<1>5. Untouched'
  BY DEF RollbackRestore, Untouched
<1>6. Pending'
  BY DEF RollbackRestore, Pending, Undone
<1>7. Loops' /\ Done'
  BY DEF IInv, RollbackRestore, SetEntry, MoveBack, Current, Phase, Loops,
     TypeOK, BackedUp, Done, Considered, considered
<1> QED
  BY <1>3, <1>4, <1>5, <1>6, <1>7 DEF IInv

LEMMA RollbackUndoStep ==
    ASSUME Unsynced = {}, IInv, NEW t \in Target, RollbackUndo(t), TypeOK'
    PROVE  IInv' /\ (Tree' = Tree)
<1> DEFINE e == IF t \in journal.hadOld THEN disk[t] ELSE Remove(disk[t])
<1>1. SetEntry(t, e) /\ e \in Entry /\ disk[t] \in seen[t]
  BY EntryOps DEF IInv, TypeOK, Current, RollbackUndo
<1>2. \A j \in journalSeen :
        /\ LogicalEntry(t, e, j) = LogicalEntry(t, disk[t], j)
        /\ j.st = "begin" /\ t \in Considered(j) /\ e.backup # None => t \in j.hadOld
  BY <1>1 DEF RollbackUndo, Remove, IInv, Current, Phase, Journals, Loops,
     LogicalEntry, considered
<1>3. Tree' = Tree /\ Safe' /\ BackedUp'
  BY <1>1, <1>2, EntryStep DEF RollbackUndo
<1>4. Current' /\ Phase' /\ Journals'
  BY DEF IInv, RollbackUndo, SetEntry, Current, Phase, Journals, TypeOK
<1>5. Untouched'
  BY DEF RollbackUndo, Untouched
<1>6. Pending'
  BY DEF RollbackUndo, Pending, Undone
<1>7. Loops' /\ Done'
  BY DEF IInv, RollbackUndo, SetEntry, Remove, Loops, TypeOK, Done, considered
<1> QED
  BY <1>3, <1>4, <1>5, <1>6, <1>7 DEF IInv

LEMMA RemoveBackupStep ==
    ASSUME Unsynced = {}, IInv, NEW t \in Target, RemoveBackup(t), TypeOK'
    PROVE  IInv' /\ (Tree' = Tree)
<1> DEFINE e == DropBackup(disk[t])
<1>1. SetEntry(t, e) /\ e \in Entry /\ disk[t] \in seen[t]
  BY EntryOps DEF IInv, TypeOK, Current, RemoveBackup
<1>2. \A j \in journalSeen :
        /\ LogicalEntry(t, e, j) = LogicalEntry(t, disk[t], j)
        /\ j.st = "begin" /\ t \in Considered(j) /\ e.backup # None => t \in j.hadOld
  BY <1>1 DEF RemoveBackup, DropBackup, IInv, Journals, Loops, Done,
     LogicalEntry, considered
<1>3. Tree' = Tree /\ Safe' /\ BackedUp'
  BY <1>1, <1>2, EntryStep DEF RemoveBackup
<1>4. Current' /\ Phase' /\ Journals'
  BY DEF IInv, RemoveBackup, SetEntry, Current, Phase, Journals, TypeOK
<1>5. Untouched'
  BY DEF RemoveBackup, Untouched
<1>6. Pending'
  BY DEF RemoveBackup, Pending, Undone
<1>7. Loops' /\ Done'
  BY DEF IInv, RemoveBackup, SetEntry, Loops, Done, considered
<1> QED
  BY <1>3, <1>4, <1>5, <1>6, <1>7 DEF IInv

LEMMA RemoveStageStep ==
    ASSUME Unsynced = {}, IInv, NEW t \in Target, RemoveStage(t), TypeOK'
    PROVE  IInv' /\ (Tree' = Tree)
<1> DEFINE e == DropStage(disk[t])
<1>1. SetEntry(t, e) /\ e \in Entry /\ disk[t] \in seen[t]
  BY EntryOps DEF IInv, TypeOK, Current, RemoveStage
<1>2. \A j \in journalSeen :
        /\ LogicalEntry(t, e, j) = LogicalEntry(t, disk[t], j)
        /\ j.st = "begin" /\ t \in Considered(j) /\ e.backup # None => t \in j.hadOld
  BY <1>1 DEF DropStage, IInv, BackedUp, LogicalEntry
<1>3. Tree' = Tree /\ Safe' /\ BackedUp'
  BY <1>1, <1>2, EntryStep DEF RemoveStage
<1>4. Current' /\ Phase' /\ Journals'
  BY DEF IInv, RemoveStage, SetEntry, Current, Phase, Journals, TypeOK
<1>5. Untouched'
  BY DEF RemoveStage, Untouched
<1>6. Pending'
  BY DEF RemoveStage, Pending, Undone
<1>7. Loops' /\ Done'
  BY DEF IInv, RemoveStage, SetEntry, DropStage, Loops, Done, considered
<1> QED
  BY <1>3, <1>4, <1>5, <1>6, <1>7 DEF IInv

LEMMA AsideOldStep ==
    ASSUME Unsynced = {}, IInv, NEW t \in Target, AsideOld(t), TypeOK'
    PROVE  IInv' /\ (Tree' = Tree)
<1> DEFINE e == MoveAside(disk[t])
<1>1. SetEntry(t, e) /\ e \in Entry /\ disk[t] \in seen[t]
  BY EntryOps DEF IInv, TypeOK, Current, AsideOld
<1>2. \A j \in journalSeen :
        /\ LogicalEntry(t, e, j) = LogicalEntry(t, disk[t], j)
        /\ j.st = "begin" /\ t \in Considered(j) /\ e.backup # None => t \in j.hadOld
  BY <1>1 DEF AsideOld, MoveAside, IInv, Phase, Journals, Pending, Undone,
     Loops, LogicalEntry
<1>3. Tree' = Tree /\ Safe' /\ BackedUp'
  BY <1>1, <1>2, EntryStep DEF AsideOld
<1>4. Current' /\ Phase' /\ Journals'
  BY DEF IInv, AsideOld, SetEntry, Current, Phase, Journals, TypeOK
<1>5. Untouched'
  BY DEF AsideOld, Untouched
<1>6. Pending'
  BY DEF IInv, AsideOld, SetEntry, Loops, TypeOK, Pending, Undone, Plan,
     NoPlan
<1>7. Loops' /\ Done'
  BY DEF IInv, AsideOld, SetEntry, MoveAside, Loops, TypeOK, Done
<1> QED
  BY <1>3, <1>4, <1>5, <1>6, <1>7 DEF IInv

LEMMA InstallNewStep ==
    ASSUME Unsynced = {}, IInv, NEW t \in Target, InstallNew(t), TypeOK'
    PROVE  IInv' /\ (Tree' = Tree)
<1> DEFINE e == MoveIn(disk[t])
<1>1. SetEntry(t, e) /\ e \in Entry /\ disk[t] \in seen[t]
  BY EntryOps DEF IInv, TypeOK, Current, InstallNew
<1>2. \A j \in journalSeen :
        /\ LogicalEntry(t, e, j) = LogicalEntry(t, disk[t], j)
        /\ j.st = "begin" /\ t \in Considered(j) /\ e.backup # None => t \in j.hadOld
  BY <1>1 DEF InstallNew, MoveIn, IInv, Phase, Journals, Pending, Undone,
     Loops, BackedUp, LogicalEntry
<1>3. Tree' = Tree /\ Safe' /\ BackedUp'
  BY <1>1, <1>2, EntryStep DEF InstallNew
<1>4. Current' /\ Phase' /\ Journals'
  BY DEF IInv, InstallNew, SetEntry, Current, Phase, Journals, TypeOK
<1>5. Untouched'
  BY DEF InstallNew, Untouched
<1>6. Pending'
  BY DEF IInv, InstallNew, SetEntry, Loops, TypeOK, Pending, Undone, Plan,
     NoPlan
<1>7. Loops' /\ Done'
  BY DEF IInv, InstallNew, SetEntry, MoveIn, Loops, TypeOK, Done
<1> QED
  BY <1>3, <1>4, <1>5, <1>6, <1>7 DEF IInv

LEMMA RemoveOldStep ==
    ASSUME Unsynced = {}, IInv, NEW t \in Target, RemoveOld(t), TypeOK'
    PROVE  IInv' /\ (Tree' = Tree)
<1> DEFINE e == IF disk[t].inst # None THEN MoveAside(disk[t]) ELSE disk[t]
<1>1. SetEntry(t, e) /\ e \in Entry /\ disk[t] \in seen[t]
  BY EntryOps DEF IInv, TypeOK, Current, RemoveOld
<1>2. \A j \in journalSeen :
        /\ LogicalEntry(t, e, j) = LogicalEntry(t, disk[t], j)
        /\ j.st = "begin" /\ t \in Considered(j) /\ e.backup # None => t \in j.hadOld
  BY <1>1 DEF RemoveOld, MoveAside, IInv, Phase, Journals, Pending, Undone,
     Loops, LogicalEntry
<1>3. Tree' = Tree /\ Safe' /\ BackedUp'
  BY <1>1, <1>2, EntryStep DEF RemoveOld
<1>4. Current' /\ Phase' /\ Journals'
  BY DEF IInv, RemoveOld, SetEntry, Current, Phase, Journals, TypeOK
<1>5. Untouched'
  BY DEF RemoveOld, Untouched
<1>6. Pending'
  BY DEF IInv, RemoveOld, SetEntry, Pending, Undone
<1>7. Loops' /\ Done'
  BY DEF IInv, RemoveOld, SetEntry, MoveAside, Loops, TypeOK, Done, Plan,
     NoPlan
<1> QED
  BY <1>3, <1>4, <1>5, <1>6, <1>7 DEF IInv

LEMMA SyncDirsStep ==
    ASSUME Unsynced = {}, IInv, NEW t \in Target, SyncDirs(t), TypeOK'
    PROVE  IInv' /\ (Tree' = Tree)
<1>1. Current' /\ Phase' /\ Journals'
  BY DEF IInv, SyncDirs, FsyncDirs, Current, Phase, Journals
<1>2. BackedUp'
  BY DEF IInv, SyncDirs, FsyncDirs, Current, BackedUp
<1>3. Untouched'
  BY DEF SyncDirs, Untouched
<1>4. Pending'
  BY DEF SyncDirs, Pending, Undone
<1>5. Loops' /\ Done'
  BY DEF IInv, SyncDirs, FsyncDirs, Loops, TypeOK, Done
<1>6. Tree' = Tree
  BY DEF SyncDirs, Tree, InForce
<1>7. Safe'
  BY <1>6 DEF IInv, SyncDirs, FsyncDirs, Current, Safe
<1> QED
  BY <1>1, <1>2, <1>3, <1>4, <1>5, <1>6, <1>7 DEF IInv

LEMMA StageStep ==
    ASSUME Unsynced = {}, IInv, NEW p \in Plan, Stage(p), TypeOK'
    PROVE  IInv' /\ (Tree' = Tree)
<1>1. Current' /\ Phase' /\ Journals'
  BY DEF IInv, Stage, Current, Phase, Journals, Running
<1>2. BackedUp'
  BY DEF Stage, StageEntry, BackedUp
<1>3. Untouched'
  BY DEF IInv, Stage, StageEntry, BackedUp, Untouched, LogicalEntry,
     Considered
<1>4. Pending'
  BY DEF Stage, Pending, Undone
<1>5. Loops' /\ Done'
  BY DEF IInv, Stage, Loops, Done
<1>6. Tree' = Tree
  BY DEF IInv, Stage, StageEntry, Phase, Tree, LogicalEntry, NoJournal,
     InForce
<1>7. Safe'
  BY <1>6 DEF IInv, Stage, StageEntry, BackedUp, Untouched, Safe,
     LogicalEntry, Considered
<1> QED
  BY <1>1, <1>2, <1>3, <1>4, <1>5, <1>6, <1>7 DEF IInv

-----------------------------------------------------------------------------
(* Putting the steps together.                                             *)

LEMMA InitIInv == ASSUME Unsynced = {}, Init PROVE IInv
<1>1. TypeOK
  BY InitType
<1>2. Current /\ Phase /\ Journals /\ BackedUp /\ Untouched
  BY DEF Init, Current, Phase, Journals, BackedUp, Untouched, Running, NoJournal
<1>3. Pending /\ Loops /\ Done
  BY DEF Init, Pending, Undone, Loops, Done
<1>4. Safe
  BY DEF Init, Safe, Tree, InForce, LogicalEntry, NoJournal
<1> QED
  BY <1>1, <1>2, <1>3, <1>4 DEF IInv

(* Every step keeps the invariant, and leaves the reconciled tree alone or  *)
(* applies the plan of the build that ends with it.                         *)
LEMMA StepIInv ==
    ASSUME Unsynced = {}, IInv, [Next]_vars
    PROVE  IInv' /\ [Atomic!Next]_<<Tree, plan>>
<1>1. TypeOK'
  BY TypeStep DEF IInv
<1>2. CASE UNCHANGED vars
  <2>1. IInv'
    BY <1>1, <1>2 DEF vars, IInv, Current, Phase, Journals, BackedUp, Untouched, Pending,
       Undone, Loops, Done, Safe, Tree, InForce, considered, Considered
  <2> QED
    BY <1>2, <2>1 DEF vars, Tree, InForce
<1>3. CASE Recovery
  <2>1. IInv' /\ Tree' = Tree
    BY <1>1, <1>3, RecoverCleanStep, RecoverForwardStep, RecoverBackStep, RollbackDoneStep,
       RollbackClearStep, RollbackRestoreStep, RollbackUndoStep DEF Recovery
  <2>2. plan' = plan
    BY <1>3 DEF Recovery, RecoverClean, RecoverForward, RecoverBack, RollbackDone,
       RollbackClear, RollbackRestore, RollbackUndo
  <2> QED
    BY <2>1, <2>2
<1>4. CASE Cleanup
  <2>1. IInv' /\ Tree' = Tree
    BY <1>1, <1>4, UnlinkJournalStep, RemoveBackupStep, RemoveStageStep DEF Cleanup
  <2>2. plan' = plan
    BY <1>4 DEF Cleanup, UnlinkJournal, RemoveBackup, RemoveStage
  <2> QED
    BY <2>1, <2>2
<1>5. CASE Swap /\ ~SyncCommit
  <2>1. IInv' /\ Tree' = Tree
    BY <1>1, <1>5, OpenJournalStep, WriteBeginStep, SyncBeginStep, InstallsDoneStep,
       RemovesDoneStep, AppendCommitStep, AsideOldStep, InstallNewStep, RemoveOldStep,
       SyncDirsStep DEF Swap
  <2>2. plan' = plan
    BY <1>5 DEF Swap, OpenJournal, WriteBegin, SyncBegin, InstallsDone, RemovesDone,
       AppendCommit, AsideOld, InstallNew, RemoveOld, SyncDirs
  <2> QED
    BY <2>1, <2>2
<1>6. ASSUME NEW p \in Plan, Stage(p)
      PROVE  IInv' /\ [Atomic!Next]_<<Tree, plan>>
  <2>1. IInv' /\ Tree' = Tree
    BY <1>1, <1>6, StageStep
  <2>2. plan = Atomic!NoRequest /\ plan' \in Atomic!Request
    BY <1>6 DEF IInv, Phase, Running, Stage, NoPlan, Plan, Atomic!NoRequest, Atomic!Request
  <2> QED
    BY <2>1, <2>2 DEF Atomic!Next, Atomic!Start
<1>7. CASE SyncCommit \/ Kill \/ PowerLoss
  <2>1. IInv' /\ (Tree' = Tree \/ Tree' = Atomic!Apply(Tree, plan))
    BY <1>1, <1>7, SyncCommitStep, KillStep, PowerLossStep
  <2>2. plan' = Atomic!NoRequest
    BY <1>7 DEF SyncCommit, Kill, PowerLoss, Stopped, NoPlan, Atomic!NoRequest
  <2>3. CASE plan # Atomic!NoRequest
    BY <2>1, <2>2, <2>3 DEF Atomic!Next, Atomic!Commit, Atomic!Abandon
  <2>4. CASE plan = Atomic!NoRequest
    <3>1. Atomic!Apply(Tree, plan) = Tree
      BY <2>4 DEF Atomic!Apply, Atomic!NoRequest, Tree
    <3> QED
      BY <2>1, <2>2, <2>4, <3>1
  <2> QED
    BY <2>3, <2>4, <2>1
<1> QED
  BY <1>2, <1>3, <1>4, <1>5, <1>6, <1>7 DEF Next

LEMMA SafeRecoverable == ASSUME Unsynced = {}, IInv PROVE Recoverable
<1>1. \A t \in Target : AfterLoss(t) = seen[t]
  BY DEF AfterLoss, Torns, IInv, Current
<1> QED
  BY <1>1 DEF Recoverable, IInv, Safe

(* Whatever directory changes a power loss keeps, and wherever in the swap  *)
(* or in its recovery it strikes, recoverSwap brings back the tree the      *)
(* journal decides: no target is left behind and none is lost.              *)
THEOREM RecoverableAlways == ASSUME Unsynced = {} PROVE Spec => []Recoverable
<1>1. Init => IInv
  BY InitIInv
<1>2. IInv /\ [Next]_vars => IInv'
  BY StepIInv
<1>3. IInv => Recoverable
  BY SafeRecoverable
<1> QED
  BY <1>1, <1>2, <1>3, PTL DEF Spec

(* journaledSwap and recoverSwap implement the atomic register AtomicSwap.  *)
THEOREM SwapRefinesAtomic == ASSUME Unsynced = {} PROVE Spec => SwapIsAtomic
<1>1. Init => IInv
  BY InitIInv
<1>2. IInv /\ [Next]_vars => IInv' /\ [Atomic!Next]_<<Tree, plan>>
  BY StepIInv
<1>3. Init => Atomic!Init
  BY DEF Init, Atomic!Init, Tree, InForce, LogicalEntry, NoJournal, NoPlan, Atomic!NoRequest
<1>4. [Atomic!Next]_<<Tree, plan>> => [Atomic!Next]_(Atomic!atomicVars)
  BY DEF Atomic!atomicVars
<1> QED
  BY <1>1, <1>2, <1>3, <1>4, PTL DEF Spec, SwapIsAtomic, Atomic!Spec
=============================================================================
