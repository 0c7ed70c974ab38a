--------------------------- MODULE FileLockProofs ---------------------------
(***************************************************************************)
(* Proofs about FileLock for every set of processes: its types, and that   *)
(* the lock excludes contenders of one host until a heartbeat first pauses *)
(* past staleMs or a lock is first replaced between its check and its      *)
(* rename.  Processes may crash anywhere.                                  *)
(***************************************************************************)
EXTENDS FileLock, TLAPS

-----------------------------------------------------------------------------
(* Types.                                                                  *)

LEMMA WriteType ==
    ASSUME NEW f \in File \cup {NoFile}, NEW p \in Process
    PROVE  /\ Write(f, p) \in File \cup {NoFile}
           /\ f = NoFile <=> Write(f, p) = NoFile
           /\ f # NoFile => Write(f, p).owner = f.owner /\ Write(f, p).aged = f.aged
BY NoFileAssumption DEF Write, File

LEMMA TypeStep == TypeOK /\ [Next]_vars => TypeOK'
<1> SUFFICES ASSUME TypeOK, [Next]_vars PROVE TypeOK'
  OBVIOUS
<1> USE DEF TypeOK, Goto, SetFile
<1>1. CASE UNCHANGED vars
  BY <1>1 DEF vars
<1>2. CASE Age
  BY <1>2 DEF Age, File
<1>3. ASSUME NEW p \in Process, Acquire(p) PROVE TypeOK'
  <2>1. CASE WriteRecord(p)
    <3>1. file' \in File \cup {NoFile} /\ aside' \in [Process -> File \cup {NoFile}]
      BY <2>1, WriteType DEF WriteRecord
    <3>2. \A q \in Process : aside'[q] # NoFile <=> aside[q] # NoFile
      BY <2>1, WriteType DEF WriteRecord
    <3>3. \A q \in Process : pc'[q] = "claimed" <=> pc[q] = "claimed"
      BY <2>1 DEF WriteRecord
    <3> QED
      BY <2>1, <3>1, <3>2, <3>3 DEF WriteRecord
  <2>2. CASE ReadRecord(p)
    <3>1. \A q \in Process : PidIsDead(p, q) \subseteq BOOLEAN
      BY DEF PidIsDead
    <3>2. file # NoFile => file.owner \in Process
      BY DEF File
    <3> QED
      BY <2>2, <3>1, <3>2 DEF ReadRecord
  <2>3. CASE StatLock(p)
    BY <2>3 DEF StatLock
  <2>4. CASE Create(p)
    BY <2>4 DEF Create, File
  <2> QED
    BY <1>3, <2>1, <2>2, <2>3, <2>4
    DEF Acquire, AlreadyExists, Steal, Poll, GiveUp
<1>4. ASSUME NEW p \in Process, Start(p) \/ Heartbeat(p) \/ Release(p) \/ Crash(p)
      PROVE  TypeOK'
  <2>1. CASE Heartbeat(p)
    BY <2>1 DEF Heartbeat, File
  <2>2. CASE Restore(p)
    BY <2>2 DEF Restore
  <2>3. CASE Start(p) \/ Crash(p)
    BY <2>3 DEF Start, Crash
  <2>4. CASE ClaimOwn(p) \/ ClaimNothing(p) \/ Discard(p)
    BY <2>4 DEF ClaimOwn, ClaimNothing, Discard
  <2> QED
    BY <1>4, <2>1, <2>2, <2>3, <2>4 DEF Release
<1> QED
  BY <1>1, <1>2, <1>3, <1>4 DEF Next

(* Under any trouble every variable of the lock keeps its type, and nothing *)
(* stays aside once a release is over.                                      *)
THEOREM LockTypeCorrect == Spec => []TypeOK
<1>1. Init => TypeOK
  BY DEF Init, TypeOK
<1> QED
  BY <1>1, TypeStep, PTL DEF Spec

-----------------------------------------------------------------------------
(* Exclusion.                                                              *)

(* Whoever holds the lock, or is about to, owns the file and keeps it fresh. *)
HolderOwns ==
    \A p \in Process :
        Holding(p) => file # NoFile /\ file.owner = p /\ ~file.aged

(* A contender's verdict is about the owner of the file that is there. *)
VerdictHolds ==
    /\ file = NoFile => judged = {}
    /\ \A p \in judged : dead[p] => pc[file.owner] = "dead"

(* A contender about to steal the file it checked steals from nobody. *)
StealsFromNobody ==
    \A p \in judged : pc[p] = "stealing" => ~Holding(file.owner)

(* What a process renames aside on release is its own. *)
ClaimsOwn ==
    \A p \in Process : pc[p] = "claimed" => aside[p] # NoFile /\ aside[p].owner = p

LockInv == TypeOK /\ HolderOwns /\ VerdictHolds /\ StealsFromNobody /\ ClaimsOwn

OneHostOnly == \A p, q \in Process : Host[p] = Host[q]

LEMMA AcquireStep ==
    ASSUME OneHostOnly, LockInv, ~upset', TypeOK', NEW p \in Process, Acquire(p)
    PROVE  LockInv'
<1> USE DEF LockInv, TypeOK, Goto, SetFile, Holding
<1>1. CASE Create(p)
  <2>1. \A q \in Process : pc[q] \notin {"created", "held"}
    BY <1>1 DEF Create, HolderOwns
  <2>2. /\ file' # NoFile /\ file'.owner = p /\ ~file'.aged
        /\ judged' = {} /\ aside' = aside
    <3>1. file' = [owner |-> p, written |-> FALSE, aged |-> FALSE]
      BY <1>1 DEF Create
    <3>2. file' \in File
      BY <3>1 DEF File
    <3>3. file' # NoFile
      BY <3>2, NoFileAssumption
    <3>4. judged' = {} /\ aside' = aside
      BY <1>1 DEF Create
    <3> QED
      BY <3>1, <3>3, <3>4
  <2>3. HolderOwns'
    BY <1>1, <2>1, <2>2 DEF Create, HolderOwns
  <2>4. VerdictHolds' /\ StealsFromNobody' /\ ClaimsOwn'
    BY <1>1, <2>2 DEF Create, VerdictHolds, StealsFromNobody, ClaimsOwn
  <2> QED
    BY <2>3, <2>4
<1>2. CASE WriteRecord(p)
  <2>1. /\ file # NoFile /\ file.owner = p /\ ~file.aged
        /\ file' # NoFile /\ file'.owner = p /\ ~file'.aged
    BY <1>2, WriteType DEF WriteRecord, HolderOwns
  <2>2. \A q \in Process : pc[q] = "claimed" => aside'[q] # NoFile /\ aside'[q].owner = q
    <3>1. ASSUME NEW q \in Process, pc[q] = "claimed"
          PROVE  aside'[q] # NoFile /\ aside'[q].owner = q
      <4>1. aside'[q] = Write(aside[q], p)
        BY <1>2 DEF WriteRecord
      <4>2. aside[q] \in File \cup {NoFile} /\ aside[q] # NoFile /\ aside[q].owner = q
        BY <3>1 DEF ClaimsOwn
      <4> QED
        BY <4>1, <4>2, WriteType
    <3> QED
      BY <3>1
  <2> QED
    BY <1>2, <2>1, <2>2 DEF WriteRecord, HolderOwns, VerdictHolds, StealsFromNobody, ClaimsOwn
<1>3. CASE ReadRecord(p)
  <2>1. ASSUME file # NoFile
        PROVE  \A v \in PidIsDead(p, file.owner) : v => pc[file.owner] = "dead"
    BY <2>1 DEF PidIsDead, OneHostOnly, File
  <2>2. /\ UNCHANGED <<file, aside>>
        /\ pc' = [pc EXCEPT ![p] = "read"] \/ pc' = [pc EXCEPT ![p] = "waiting"]
        /\ pc[p] = "checking" /\ judged' \subseteq judged \cup {p}
    BY <1>3 DEF ReadRecord
  <2>3. \A q \in Process : /\ Holding(q)' => Holding(q)
                           /\ pc'[q] \in {"claimed", "stealing"} => pc'[q] = pc[q] /\ q # p
                           /\ pc[q] = "dead" => pc'[q] = "dead"
    BY <2>2
  <2>4. file # NoFile => file.owner \in Process
    BY DEF File
  <2>5. HolderOwns' /\ ClaimsOwn'
    BY <2>2, <2>3 DEF HolderOwns, ClaimsOwn
  <2>6. StealsFromNobody'
    BY <2>2, <2>3, <2>4 DEF StealsFromNobody, VerdictHolds
  <2>7. VerdictHolds'
    <3>1. CASE file # NoFile /\ file.written
      <4>1. file.owner \in Process
        BY <3>1 DEF File
      <4> QED
        BY <1>3, <2>1, <3>1, <4>1 DEF ReadRecord, VerdictHolds
    <3>2. CASE ~(file # NoFile /\ file.written)
      <4>1. UNCHANGED <<file, dead, judged>>
        BY <1>3, <3>2 DEF ReadRecord
      <4> QED
        BY <2>3, <2>4, <4>1 DEF VerdictHolds
    <3> QED
      BY <3>1, <3>2
  <2> QED
    BY <2>5, <2>6, <2>7
<1>4. CASE StatLock(p)
  <2>1. p \in judged /\ IsStale(p) => pc[file.owner] \notin {"created", "held"}
    BY <1>4 DEF IsStale, VerdictHolds, HolderOwns, File
  <2> QED
    BY <1>4, <2>1 DEF StatLock, HolderOwns, VerdictHolds, StealsFromNobody, ClaimsOwn
<1>5. CASE Steal(p)
  <2>1. \A q \in Process : pc[q] \notin {"created", "held"}
    BY <1>5 DEF Steal, OneHostOnly, HolderOwns, StealsFromNobody
  <2> QED
    BY <1>5, <2>1 DEF Steal, HolderOwns, VerdictHolds, StealsFromNobody, ClaimsOwn
<1>6. CASE AlreadyExists(p) \/ Poll(p) \/ GiveUp(p)
  <2>1. /\ UNCHANGED <<file, dead, judged, aside>>
        /\ pc' \in {[pc EXCEPT ![p] = "checking"], [pc EXCEPT ![p] = "trying"],
                   [pc EXCEPT ![p] = "out"]}
        /\ pc[p] # "dead"
    BY <1>6 DEF AlreadyExists, Poll, GiveUp
  <2>2. \A q \in Process : /\ Holding(q)' => Holding(q)
                           /\ pc'[q] \in {"claimed", "stealing"} => pc'[q] = pc[q]
                           /\ pc[q] = "dead" => pc'[q] = "dead"
    BY <2>1
  <2>3. file # NoFile => file.owner \in Process
    BY DEF File
  <2> QED
    BY <2>1, <2>2, <2>3 DEF HolderOwns, VerdictHolds, StealsFromNobody, ClaimsOwn
<1> QED
  BY <1>1, <1>2, <1>3, <1>4, <1>5, <1>6 DEF Acquire

LEMMA ReleaseStep ==
    ASSUME OneHostOnly, LockInv, ~upset', TypeOK', NEW p \in Process, Release(p)
    PROVE  LockInv'
<1> USE DEF LockInv, TypeOK, Goto, SetFile, Holding
<1>1. CASE ClaimOwn(p)
  <2>1. \A q \in Process : pc[q] \in {"created", "held"} => q = p
    BY <1>1 DEF ClaimOwn, HolderOwns
  <2>2. file.owner = p
    BY <1>1 DEF ClaimOwn, HolderOwns
  <2> QED
    BY <1>1, <2>1, <2>2 DEF ClaimOwn, HolderOwns, VerdictHolds, StealsFromNobody, ClaimsOwn
<1>2. CASE ClaimNothing(p)
  BY <1>2 DEF ClaimNothing, HolderOwns, VerdictHolds, StealsFromNobody, ClaimsOwn
<1>3. CASE Discard(p)
  BY <1>3 DEF Discard, HolderOwns, VerdictHolds, StealsFromNobody, ClaimsOwn
<1>4. CASE Restore(p)
  BY <1>4 DEF Restore, Ours, ClaimsOwn
<1> QED
  BY <1>1, <1>2, <1>3, <1>4 DEF Release

LEMMA OtherStep ==
    ASSUME OneHostOnly, LockInv, ~upset', TypeOK', NEW p \in Process,
           Age \/ Start(p) \/ Heartbeat(p) \/ Crash(p)
    PROVE  LockInv'
<1> USE DEF LockInv, TypeOK, Goto, Holding
<1>1. CASE Age
  <2>1. pc[file.owner] \notin {"created", "held"} /\ file' # NoFile /\ file'.owner = file.owner
    BY <1>1, NoFileAssumption DEF Age, OneHostOnly, File
  <2> QED
    BY <1>1, <2>1 DEF Age, HolderOwns, VerdictHolds, StealsFromNobody, ClaimsOwn
<1>2. CASE Heartbeat(p)
  <2>1. file' # NoFile /\ file'.owner = file.owner /\ ~file'.aged
    BY <1>2, NoFileAssumption DEF Heartbeat, File
  <2> QED
    BY <1>2, <2>1 DEF Heartbeat, HolderOwns, VerdictHolds, StealsFromNobody, ClaimsOwn
<1>3. CASE Start(p) \/ Crash(p)
  <2>1. /\ UNCHANGED <<file, dead, judged>>
        /\ \A q \in Process : pc'[q] = "claimed" => pc[q] = "claimed" /\ aside'[q] = aside[q]
    BY <1>3 DEF Start, Crash
  <2>2. \A q \in Process : /\ Holding(q)' => Holding(q)
                           /\ pc'[q] = "stealing" => pc[q] = "stealing"
                           /\ pc[q] = "dead" => pc'[q] = "dead"
    BY <1>3 DEF Start, Crash
  <2>3. file # NoFile => file.owner \in Process
    BY DEF File
  <2> QED
    BY <2>1, <2>2, <2>3 DEF HolderOwns, VerdictHolds, StealsFromNobody, ClaimsOwn
<1> QED
  BY <1>1, <1>2, <1>3

LEMMA StepLockInv == ASSUME OneHostOnly, LockInv, ~upset', [Next]_vars PROVE LockInv'
<1>1. TypeOK'
  BY TypeStep DEF LockInv
<1>2. CASE UNCHANGED vars
  BY <1>1, <1>2 DEF vars, LockInv, HolderOwns, VerdictHolds, StealsFromNobody, ClaimsOwn,
     Holding
<1>3. CASE Age
  <2>1. PICK p \in Process : TRUE
    BY <1>3 DEF Age, LockInv, TypeOK, File
  <2> QED
    BY <1>1, <1>3, <2>1, OtherStep
<1> QED
  BY <1>1, <1>2, <1>3, AcquireStep, ReleaseStep, OtherStep DEF Next

(* What is upset stays so. *)
LEMMA UpsetStays == upset /\ [Next]_vars => upset'
BY DEF Next, vars, Age, Start, Heartbeat, Crash, Acquire, Release, Create, WriteRecord,
   AlreadyExists, ReadRecord, StatLock, Steal, Poll, GiveUp, ClaimOwn, ClaimNothing,
   Discard, Restore

(* Among processes of one host withLock runs one body at a time, whoever    *)
(* crashes and whoever's lock is stolen for it, until a holder's heartbeat  *)
(* first pauses past staleMs or a check of the lock is first overtaken.     *)
THEOREM LockExcludes == ASSUME OneHostOnly PROVE Spec => []ExcludesUntilUpset
<1> DEFINE Inv == TypeOK /\ (upset \/ LockInv)
<1>1. Init => Inv
  BY DEF Init, LockInv, TypeOK, HolderOwns, VerdictHolds, StealsFromNobody, ClaimsOwn, Holding
<1>2. Inv /\ [Next]_vars => Inv'
  BY StepLockInv, TypeStep, UpsetStays
<1>3. Inv => ExcludesUntilUpset
  BY DEF LockInv, HolderOwns, Holding, MutualExclusion, ExcludesUntilUpset
<1> QED
  BY <1>1, <1>2, <1>3, PTL DEF Spec
=============================================================================
