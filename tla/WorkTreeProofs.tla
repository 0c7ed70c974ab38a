---------------------------- MODULE WorkTreeProofs ----------------------------
(***************************************************************************)
(* Proofs about WorkTree, for every set of paths, contents, rules, versions *)
(* and branches.                                                            *)
(***************************************************************************)
EXTENDS WorkTree, SequenceTheorems, TLAPS

-----------------------------------------------------------------------------
(* Snapshots.                                                               *)

(* A file of the instance, and what it may hold. *)
MayHold(f, x) == IF f \in Slot THEN x \in Version \cup {None} ELSE x \in Content \cup {None}

SnapOK(s) ==
    /\ s = [manifest |-> s.manifest, lock |-> s.lock, carried |-> s.carried,
            tracked |-> s.tracked]
    /\ s.manifest \in Version /\ s.lock \in Version
    /\ \E v \in Version : s.carried = Local[v]
    /\ DOMAIN s.tracked \subseteq Path
    /\ \A p \in DOMAIN s.tracked : s.tracked[p] \in Content

LEMMA LocalFacts ==
    ASSUME NEW v \in Version
    PROVE  /\ DOMAIN Local[v] \subseteq Path \ {Exclude}
           /\ \A p \in DOMAIN Local[v] : Local[v][p] \in Content
<1>1. PICK D \in SUBSET (Path \ {Exclude}) : Local[v] \in [D -> Content]
  BY TreeAssumption
<1>2. QED BY <1>1

LEMMA SnapFacts ==
    ASSUME NEW s, SnapOK(s)
    PROVE  /\ DOMAIN s.carried \subseteq Path \ {Exclude} /\ DOMAIN s.tracked \subseteq Path
           /\ \A p \in DOMAIN s.carried : s.carried[p] \in Content
           /\ \A p \in DOMAIN s.tracked : s.tracked[p] \in Content
           /\ Listed(s) \subseteq Path
  BY LocalFacts DEF SnapOK, Listed

DiskOK(d) ==
    /\ d = [f \in File |-> d[f]]
    /\ \A f \in Slot : d[f] \in Version \cup {None}
    /\ \A p \in Path : d[p] \in Content \cup {None}

LEMMA RestrictFacts ==
    ASSUME NEW f, NEW S
    PROVE  DOMAIN Restrict(f, S) = S /\ \A x \in S : Restrict(f, S)[x] = f[x]
  BY DEF Restrict

(* What is tracked is what is there and no rule or lock excludes. *)
LEMMA TrackFacts ==
    ASSUME NEW d, DiskOK(d), NEW lock
    PROVE  LET t == trackWorktree(d, lock)
           IN  /\ DOMAIN t \subseteq Path
               /\ \A p \in Path :
                    p \in DOMAIN t <=> p \notin snapshotExclusion(d, lock) /\ d[p] # None
               /\ \A p \in DOMAIN t : t[p] = d[p] /\ t[p] \in Content
<1>1. walkWorktree(d, snapshotExclusion(d, lock)) =
        {p \in Path \ snapshotExclusion(d, lock) : d[p] # None}
  BY DEF walkWorktree
<1>2. QED BY <1>1, RestrictFacts DEF trackWorktree, DiskOK

LEMMA BuildSnapshotFacts ==
    ASSUME NEW d, DiskOK(d), Parses(d), NEW lock \in Version
    PROVE  LET s == buildSnapshot(d, lock)
           IN  /\ SnapOK(s)
               /\ s.manifest = d["manifest"] /\ s.lock = d["lock"]
               /\ s.carried = Local[lock] /\ s.tracked = trackWorktree(d, lock)
<1>1. PICK t : t = trackWorktree(d, lock)
  OBVIOUS
<1>2. DOMAIN t \subseteq Path /\ \A p \in DOMAIN t : t[p] \in Content
  BY <1>1, TrackFacts
<1>3. PICK s : s = buildSnapshot(d, lock)
  OBVIOUS
<1>4. s = [manifest |-> d["manifest"], lock |-> d["lock"], carried |-> Local[lock], tracked |-> t]
  BY <1>1, <1>3 DEF buildSnapshot, carryLocals
<1>5. d["manifest"] \in Version /\ d["lock"] \in Version
  BY DEF DiskOK, Parses, Slot
<1>6. SnapOK(s)
  BY <1>2, <1>4, <1>5 DEF SnapOK
<1>7. QED BY <1>1, <1>3, <1>4, <1>6

-----------------------------------------------------------------------------
(* The writes of an operation.                                              *)

TodoOK(T) ==
    /\ T \in Seq(UNION {[D -> Content \cup Version \cup {None}] : D \in SUBSET File})
    /\ \A j \in DOMAIN T : DOMAIN T[j] \subseteq File /\ \A f \in DOMAIN T[j] : MayHold(f, T[j][f])

(* The j-th set of T has the last write of f. *)
Last(T, j, f) == f \in DOMAIN T[j] /\ \A k \in DOMAIN T : k > j => f \notin DOMAIN T[k]
Untouched(T, f) == \A j \in DOMAIN T : f \notin DOMAIN T[j]

(* The writes T, on the files d, leave in each file f what F allows it. *)
Leads(T, d, F) ==
    /\ \A f \in File : Untouched(T, f) => d[f] \in F[f]
    /\ \A f \in File, j \in DOMAIN T : Last(T, j, f) => T[j][f] \in F[f]

(* No write of T puts into a file what F does not allow it. *)
Among(T, F) == \A j \in DOMAIN T : \A f \in DOMAIN T[j] : T[j][f] \in F[f]

LEMMA Prepend ==
    ASSUME NEW A, NEW w \in A, NEW t \in Seq(A)
    PROVE  LET T == <<w>> \o t
           IN  /\ Len(T) = Len(t) + 1 /\ DOMAIN T = 1..(Len(t) + 1) /\ T[1] = w
               /\ \A j \in 1..Len(t) : T[j + 1] = t[j]
<1>1. PICK u : u = <<w>>
  OBVIOUS
<1>2. u \in Seq(A) /\ Len(u) = 1 /\ u[1] = w
  BY <1>1
<1>3. PICK T : T = u \o t
  OBVIOUS
<1>4. /\ T \in Seq(A) /\ Len(T) = Len(u) + Len(t)
      /\ \A i \in 1 .. Len(u) + Len(t) : T[i] = IF i <= Len(u) THEN u[i] ELSE t[i - Len(u)]
  BY <1>2, <1>3, ConcatProperties
<1>5. Len(t) \in Nat /\ Len(T) = Len(t) + 1 /\ DOMAIN T = 1..(Len(t) + 1) /\ T[1] = w
  BY <1>2, <1>4
<1>6. ASSUME NEW j \in 1..Len(t) PROVE T[j + 1] = t[j]
  <2>1. j + 1 \in 1..Len(u) + Len(t) /\ ~(j + 1 <= Len(u)) /\ (j + 1) - Len(u) = j
    BY <1>2, <1>5
  <2>2. QED BY <1>4, <2>1
<1>7. QED BY <1>1, <1>3, <1>5, <1>6

(* One write: the first set is done with, or one of its files is written. *)
Drops(T, T2, d, d2) ==
    /\ d2 = d /\ DOMAIN T[1] = {} /\ T2 = Tail(T)
Writes(T, T2, d, d2, f) ==
    /\ f \in DOMAIN T[1]
    /\ d2 = [d EXCEPT ![f] = T[1][f]]
    /\ DOMAIN T2 = DOMAIN T
    /\ DOMAIN T2[1] = DOMAIN T[1] \ {f} /\ \A g \in DOMAIN T2[1] : T2[1][g] = T[1][g]
    /\ \A j \in DOMAIN T \ {1} : T2[j] = T[j]

LEMMA WriteFacts ==
    ASSUME TodoOK(todo), write
    PROVE  /\ Len(todo) \in Nat \ {0} /\ DOMAIN todo = 1..Len(todo)
           /\ \/ Drops(todo, todo', disk, disk')
              \/ \E f : Writes(todo, todo', disk, disk', f)
<1> DEFINE W == UNION {[D -> Content \cup Version \cup {None}] : D \in SUBSET File}
<1>1. todo \in Seq(W) /\ todo # <<>>
  BY DEF TodoOK, write
<1> HIDE DEF W
<1>2. Len(todo) \in Nat \ {0} /\ DOMAIN todo = 1..Len(todo) /\ Head(todo) = todo[1]
  BY <1>1
<1>3. CASE DOMAIN Head(todo) = {}
  BY <1>2, <1>3 DEF write, Drops
<1>4. CASE DOMAIN Head(todo) # {}
  <2>1. PICK f \in DOMAIN Head(todo) :
          /\ disk' = [disk EXCEPT ![f] = Head(todo)[f]]
          /\ todo' = <<Restrict(Head(todo), DOMAIN Head(todo) \ {f})>> \o Tail(todo)
    BY <1>4 DEF write
  <2>2. PICK w : w = Restrict(Head(todo), DOMAIN Head(todo) \ {f})
    OBVIOUS
  <2>3. DOMAIN w = DOMAIN todo[1] \ {f} /\ \A g \in DOMAIN w : w[g] = todo[1][g]
    BY <1>2, <2>2, RestrictFacts
  <2>4. todo' = <<w>> \o Tail(todo)
    BY <2>1, <2>2
  <2>5. Tail(todo) \in Seq(W) /\ Len(Tail(todo)) = Len(todo) - 1
        /\ \A j \in 1..(Len(todo) - 1) : Tail(todo)[j] = todo[j + 1]
    BY <1>1, <1>2
  <2>6. PICK A : A = W \cup {w}
    OBVIOUS
  <2>7. DOMAIN todo' = DOMAIN todo /\ todo'[1] = w
        /\ \A j \in DOMAIN todo \ {1} : todo'[j] = todo[j]
    <3>1. PICK t : t = Tail(todo)
      OBVIOUS
    <3>2. w \in A /\ t \in Seq(A) /\ Len(t) = Len(todo) - 1 /\ todo' = <<w>> \o t
          /\ \A j \in 1..(Len(todo) - 1) : t[j] = todo[j + 1]
      BY <2>4, <2>5, <2>6, <3>1
    <3>3. /\ DOMAIN todo' = 1..(Len(t) + 1) /\ todo'[1] = w
          /\ \A j \in 1..Len(t) : todo'[j + 1] = t[j]
      BY <3>2, Prepend
    <3>4. ASSUME NEW j \in 2..Len(todo) PROVE todo'[j] = todo[j]
      <4>1. j - 1 \in 1..Len(t) /\ (j - 1) + 1 = j
        BY <1>2, <3>2
      <4>2. QED BY <1>2, <3>2, <3>3, <4>1
    <3>5. (Len(todo) - 1) + 1 = Len(todo) /\ \A j \in 1..Len(todo) : j = 1 \/ j \in 2..Len(todo)
      BY <1>2
    <3>6. DOMAIN todo' = DOMAIN todo
      BY <1>2, <3>2, <3>3, <3>5
    <3>7. QED BY <1>2, <3>3, <3>4, <3>5, <3>6
  <2>8. Writes(todo, todo', disk, disk', f)
    BY <1>2, <2>1, <2>3, <2>7 DEF Writes
  <2>9. QED BY <1>2, <2>8
<1>5. QED BY <1>3, <1>4


LEMMA DropFacts ==
    ASSUME TodoOK(todo), write, Drops(todo, todo', disk, disk')
    PROVE  /\ DOMAIN todo' = 1..(Len(todo) - 1)
           /\ \A j \in DOMAIN todo' : j + 1 \in DOMAIN todo /\ todo'[j] = todo[j + 1]
<1>1. todo \in Seq(UNION {[D -> Content \cup Version \cup {None}] : D \in SUBSET File})
      /\ todo # <<>>
  BY DEF TodoOK, write
<1>2. /\ Len(Tail(todo)) = Len(todo) - 1
      /\ \A j \in 1..Len(Tail(todo)) : Tail(todo)[j] = todo[j + 1]
      /\ DOMAIN Tail(todo) = 1..Len(Tail(todo))
  BY <1>1, HeadTailProperties
<1>3. Len(todo) \in Nat /\ DOMAIN todo = 1..Len(todo)
  BY <1>1
<1>4. QED BY <1>2, <1>3 DEF Drops

(* What is still to write leads where it led, *)
LEMMA LeadsKept ==
    ASSUME TodoOK(todo), DiskOK(disk), write, NEW F, Leads(todo, disk, F)
    PROVE  Leads(todo', disk', F)
<1>0. Len(todo) \in Nat \ {0} /\ DOMAIN todo = 1..Len(todo)
  BY WriteFacts
<1>1. CASE Drops(todo, todo', disk, disk')
  <2>1. DOMAIN todo' = 1..(Len(todo) - 1)
        /\ \A j \in DOMAIN todo' : j + 1 \in DOMAIN todo /\ todo'[j] = todo[j + 1]
    BY <1>1, DropFacts
  <2>2. disk' = disk /\ DOMAIN todo[1] = {}
    BY <1>1 DEF Drops
  <2>3. \A k \in DOMAIN todo : k = 1 \/ (k - 1 \in DOMAIN todo' /\ todo[k] = todo'[k - 1])
    BY <1>0, <2>1
  <2>4. ASSUME NEW f \in File, Untouched(todo', f) PROVE Untouched(todo, f)
    BY <2>2, <2>3, <2>4 DEF Untouched
  <2>5. ASSUME NEW f \in File, NEW j \in DOMAIN todo', Last(todo', j, f)
        PROVE  Last(todo, j + 1, f)
    <3>1. f \in DOMAIN todo[j + 1]
      BY <2>1, <2>5 DEF Last
    <3>2. ASSUME NEW k \in DOMAIN todo, k > j + 1 PROVE f \notin DOMAIN todo[k]
      <4>1. k - 1 \in DOMAIN todo' /\ k - 1 > j /\ todo[k] = todo'[k - 1]
        BY <1>0, <2>1, <2>3, <3>2
      <4>2. QED BY <2>5, <4>1 DEF Last
    <3>3. QED BY <3>1, <3>2 DEF Last
  <2>6. QED BY <2>1, <2>2, <2>4, <2>5 DEF Leads
<1>2. CASE \E f : Writes(todo, todo', disk, disk', f)
  <2>1. PICK f : Writes(todo, todo', disk, disk', f)
    BY <1>2
  <2>2. f \in File /\ disk'[f] = todo[1][f] /\ \A g \in File : g # f => disk'[g] = disk[g]
    BY <1>0, <2>1 DEF Writes, TodoOK, DiskOK
  <2>3. \A j \in DOMAIN todo : \A g \in File :
          g \in DOMAIN todo'[j] <=> g \in DOMAIN todo[j] /\ ~(j = 1 /\ g = f)
    BY <2>1 DEF Writes
  <2>4. \A j \in DOMAIN todo : \A g \in DOMAIN todo'[j] : todo'[j][g] = todo[j][g]
    BY <2>1 DEF Writes
  <2>5. DOMAIN todo' = DOMAIN todo /\ 1 \in DOMAIN todo
    BY <1>0, <2>1 DEF Writes
  <2>6. ASSUME NEW g \in File, Untouched(todo', g) PROVE disk'[g] \in F[g]
    <3>1. CASE g = f
      <4>1. \A k \in DOMAIN todo : k > 1 => f \notin DOMAIN todo[k]
        BY <2>3, <2>5, <2>6, <3>1 DEF Untouched
      <4>2. Last(todo, 1, f)
        BY <2>1, <4>1 DEF Last, Writes
      <4>3. QED BY <2>2, <2>5, <3>1, <4>2 DEF Leads
    <3>2. CASE g # f
      BY <2>2, <2>3, <2>5, <2>6, <3>2 DEF Untouched, Leads
    <3>3. QED BY <3>1, <3>2
  <2>7. ASSUME NEW g \in File, NEW j \in DOMAIN todo', Last(todo', j, g)
        PROVE  todo'[j][g] \in F[g]
    <3>1. g \in DOMAIN todo'[j] /\ g \in DOMAIN todo[j] /\ j \in DOMAIN todo
      BY <2>3, <2>5, <2>7 DEF Last
    <3>2. ASSUME NEW k \in DOMAIN todo, k > j PROVE g \notin DOMAIN todo[k]
      <4>1. k # 1
        BY <1>0, <2>5, <3>2
      <4>2. QED BY <2>3, <2>5, <2>7, <3>2, <4>1 DEF Last
    <3>3. Last(todo, j, g)
      BY <3>1, <3>2 DEF Last
    <3>4. QED BY <2>4, <2>5, <3>1, <3>3 DEF Leads
  <2>8. QED BY <2>6, <2>7 DEF Leads
<1>3. QED BY <1>1, <1>2, WriteFacts

(* and writes nothing else. *)
LEMMA AmongKept ==
    ASSUME TodoOK(todo), DiskOK(disk), write, NEW F, Among(todo, F)
    PROVE  /\ Among(todo', F)
           /\ \A f \in File : disk'[f] = disk[f] \/ disk'[f] \in F[f]
<1>0. Len(todo) \in Nat \ {0} /\ DOMAIN todo = 1..Len(todo)
  BY WriteFacts
<1>1. CASE Drops(todo, todo', disk, disk')
  BY <1>1, DropFacts DEF Drops, Among
<1>2. CASE \E f : Writes(todo, todo', disk, disk', f)
  <2>1. PICK f : Writes(todo, todo', disk, disk', f)
    BY <1>2
  <2>2. f \in File /\ disk'[f] = todo[1][f] /\ \A g \in File : g # f => disk'[g] = disk[g]
    BY <1>0, <2>1 DEF Writes, TodoOK, DiskOK
  <2>3. \A j \in DOMAIN todo : DOMAIN todo'[j] \subseteq DOMAIN todo[j]
                               /\ \A g \in DOMAIN todo'[j] : todo'[j][g] = todo[j][g]
    BY <2>1 DEF Writes
  <2>4. DOMAIN todo' = DOMAIN todo /\ 1 \in DOMAIN todo /\ f \in DOMAIN todo[1]
    BY <1>0, <2>1 DEF Writes
  <2>5. QED BY <2>2, <2>3, <2>4 DEF Among
<1>3. QED BY <1>1, <1>2, WriteFacts

LEMMA TodoKept ==
    ASSUME TodoOK(todo), DiskOK(disk), write
    PROVE  /\ TodoOK(todo') /\ DiskOK(disk')
           /\ \A D : (\A j \in DOMAIN todo : DOMAIN todo[j] \subseteq D) =>
                        /\ \A j \in DOMAIN todo' : DOMAIN todo'[j] \subseteq D
                        /\ \A f \in File \ D : disk'[f] = disk[f]
<1> DEFINE W == UNION {[D -> Content \cup Version \cup {None}] : D \in SUBSET File}
<1>0. /\ Len(todo) \in Nat \ {0} /\ DOMAIN todo = 1..Len(todo)
      /\ todo \in Seq(W) /\ todo # <<>>
  BY WriteFacts DEF TodoOK, write
<1>1. CASE Drops(todo, todo', disk, disk')
  <2>1. Tail(todo) \in Seq(W)
    BY <1>0, HeadTailProperties
  <2>2. todo' \in Seq(W) /\ disk' = disk
    BY <1>1, <2>1 DEF Drops
  <2>3. QED BY <1>1, <2>2, DropFacts DEF TodoOK
<1>2. CASE \E f : Writes(todo, todo', disk, disk', f)
  <2>1. PICK f : Writes(todo, todo', disk, disk', f)
    BY <1>2
  <2>2. f \in File /\ disk' = [disk EXCEPT ![f] = todo[1][f]] /\ MayHold(f, todo[1][f])
    BY <1>0, <2>1 DEF Writes, TodoOK
  <2>3. \A j \in DOMAIN todo : DOMAIN todo'[j] \subseteq DOMAIN todo[j]
                               /\ \A g \in DOMAIN todo'[j] : todo'[j][g] = todo[j][g]
    BY <2>1 DEF Writes
  <2>4. DOMAIN todo' = DOMAIN todo /\ 1 \in DOMAIN todo /\ f \in DOMAIN todo[1]
    BY <1>0, <2>1 DEF Writes
  <2>5. DiskOK(disk')
    <3>1. disk' = [g \in File |-> disk'[g]]
      BY <2>2 DEF DiskOK
    <3>2. \A g \in File : disk'[g] = IF g = f THEN todo[1][f] ELSE disk[g]
      BY <2>2 DEF DiskOK
    <3>3. \A g \in Slot : g \in File
      BY DEF File
    <3>4. \A p \in Path : p \in File /\ p \notin Slot
      BY TreeAssumption DEF File, Slot
    <3>5. QED BY <2>2, <3>1, <3>2, <3>3, <3>4 DEF DiskOK, MayHold
  <2>6. todo' \in Seq(W)
    <3>2. DOMAIN Head(todo) # {}
      BY <1>0, <2>4
    <3>3. PICK g \in DOMAIN Head(todo) :
            todo' = <<Restrict(Head(todo), DOMAIN Head(todo) \ {g})>> \o Tail(todo)
      BY <3>2 DEF write
    <3>4. PICK u : u = Restrict(Head(todo), DOMAIN Head(todo) \ {g})
      OBVIOUS
    <3>5. Head(todo) \in W /\ Tail(todo) \in Seq(W)
      BY <1>0, HeadTailProperties
    <3>6. u \in W
      <4>1. PICK D \in SUBSET File : Head(todo) \in [D -> Content \cup Version \cup {None}]
        BY <3>5
      <4>2. u \in [D \ {g} -> Content \cup Version \cup {None}]
        BY <3>4, <4>1 DEF Restrict
      <4>3. QED BY <4>2
    <3>7. <<u>> \in Seq(W)
      BY <3>6
    <3>8. <<u>> \o Tail(todo) \in Seq(W)
      BY <3>5, <3>7, ConcatProperties
    <3>9. QED BY <3>3, <3>4, <3>8
  <2>7. TodoOK(todo')
    BY <2>3, <2>4, <2>6 DEF TodoOK
  <2>8. ASSUME NEW D, \A j \in DOMAIN todo : DOMAIN todo[j] \subseteq D
        PROVE  /\ \A j \in DOMAIN todo' : DOMAIN todo'[j] \subseteq D
               /\ \A g \in File \ D : disk'[g] = disk[g]
    <3>1. f \in D
      BY <2>4, <2>8
    <3>2. \A g \in File : g # f => disk'[g] = disk[g]
      BY <2>2 DEF DiskOK
    <3>3. QED BY <2>3, <2>4, <2>8, <3>1, <3>2
  <2>9. QED BY <2>5, <2>7, <2>8
<1>3. QED BY <1>1, <1>2, WriteFacts


-----------------------------------------------------------------------------
(* The writes of a checkout.                                                *)

(* The five sets of T bring s where prev was, with the rules onDisk. *)
Plan(T, s, prev, onDisk) ==
    /\ DOMAIN T = 1..5
    /\ DOMAIN T[1] = Deleted(s, prev, onDisk) /\ \A p \in DOMAIN T[1] : T[1][p] = None
    /\ T[2] = s.carried
    /\ DOMAIN T[3] = Written(s, onDisk) /\ \A p \in DOMAIN T[3] : T[3][p] = s.tracked[p]
    /\ DOMAIN T[4] = {"manifest"} /\ T[4]["manifest"] = s.manifest
    /\ DOMAIN T[5] = {"lock"} /\ T[5]["lock"] = s.lock

LEMMA SourceOK ==
    ASSUME NEW m \in Version, NEW l \in Version, NEW S,
           S = SourceFiles([manifest |-> m, lock |-> l])
    PROVE  /\ TodoOK(S) /\ \A j \in DOMAIN S : DOMAIN S[j] \subseteq Slot
           /\ Len(S) = 2
           /\ DOMAIN S[1] = {"manifest"} /\ S[1]["manifest"] = m
           /\ DOMAIN S[2] = {"lock"} /\ S[2]["lock"] = l
<1> DEFINE W == UNION {[D -> Content \cup Version \cup {None}] : D \in SUBSET File}
<1>1. PICK a : a = [f \in {"manifest"} |-> m]
  OBVIOUS
<1>2. PICK b : b = [f \in {"lock"} |-> l]
  OBVIOUS
<1>3. PICK r : r = [manifest |-> m, lock |-> l]
  OBVIOUS
<1>4. a = [f \in {"manifest"} |-> r.manifest] /\ b = [f \in {"lock"} |-> r.lock]
  BY <1>1, <1>2, <1>3
<1>5. S = <<a, b>>
  BY <1>3, <1>4 DEF SourceFiles
<1>6. {"manifest"} \in SUBSET File /\ {"lock"} \in SUBSET File
  BY DEF File, Slot
<1>7. a \in W /\ b \in W
  <2>1. a \in [{"manifest"} -> Content \cup Version \cup {None}]
    BY <1>1
  <2>2. b \in [{"lock"} -> Content \cup Version \cup {None}]
    BY <1>2
  <2>3. QED BY <1>6, <2>1, <2>2
<1> HIDE DEF W
<1>8. <<a, b>> \in Seq(W) /\ Len(<<a, b>>) = 2 /\ <<a, b>>[1] = a /\ <<a, b>>[2] = b
  BY <1>7
<1>9. S \in Seq(W) /\ Len(S) = 2 /\ DOMAIN S = 1..2 /\ S[1] = a /\ S[2] = b
  <2>1. S \in Seq(W) /\ Len(S) = 2 /\ S[1] = a /\ S[2] = b
    BY <1>5, <1>8, Zenon
  <2>2. QED BY <2>1
<1>10. /\ DOMAIN a = {"manifest"} /\ a["manifest"] = m
       /\ DOMAIN b = {"lock"} /\ b["lock"] = l
  BY <1>1, <1>2
<1>11. \A j \in DOMAIN S : j = 1 \/ j = 2
  BY <1>9
<1>12. ASSUME NEW j \in DOMAIN S
       PROVE  DOMAIN S[j] \subseteq Slot /\ \A f \in DOMAIN S[j] : MayHold(f, S[j][f])
  BY <1>9, <1>10, <1>11 DEF Slot, MayHold
<1>13. TodoOK(S)
  BY <1>9, <1>12 DEF TodoOK, File, W
<1>14. QED BY <1>9, <1>10, <1>12, <1>13

LEMMA PlanFacts ==
    ASSUME NEW s, SnapOK(s), NEW prev, SnapOK(prev), DiskOK(disk)
    PROVE  LET T == materializeSnapshot(s, prev)
           IN  TodoOK(T) /\ Plan(T, s, prev, Rules(disk[Exclude]))
<1> DEFINE W == UNION {[D -> Content \cup Version \cup {None}] : D \in SUBSET File}
<1>1. PICK onDisk : onDisk = Rules(disk[Exclude])
  OBVIOUS
<1>2. PICK a : a = [p \in Deleted(s, prev, onDisk) |-> None]
  OBVIOUS
<1>3. PICK c : c = Restrict(s.tracked, Written(s, onDisk))
  OBVIOUS
<1>4. PICK S : S = SourceFiles([manifest |-> s.manifest, lock |-> s.lock])
  OBVIOUS
<1>5. PICK T : T = materializeSnapshot(s, prev)
  OBVIOUS
<1>6. T = <<a, s.carried, c>> \o S
  BY <1>1, <1>2, <1>3, <1>4, <1>5 DEF materializeSnapshot, SourceFiles, SnapOK
<1>7. /\ DOMAIN a = Deleted(s, prev, onDisk) /\ \A p \in DOMAIN a : a[p] = None
      /\ DOMAIN c = Written(s, onDisk) /\ \A p \in DOMAIN c : c[p] = s.tracked[p]
  BY <1>2, <1>3, RestrictFacts
<1>8. DOMAIN a \subseteq Path /\ DOMAIN s.carried \subseteq Path /\ DOMAIN c \subseteq Path
  BY <1>7, SnapFacts DEF Deleted, Written
<1>9. /\ a \in W /\ s.carried \in W /\ c \in W
      /\ \A f \in DOMAIN s.carried : s.carried[f] \in Content
      /\ \A f \in DOMAIN c : c[f] \in Content
  <2>1. PICK v \in Version : s.carried = Local[v]
    BY DEF SnapOK
  <2>2. \A f \in DOMAIN s.carried : s.carried[f] \in Content
    BY SnapFacts
  <2>3. \A f \in DOMAIN c : c[f] \in Content
    BY <1>7, SnapFacts DEF Written
  <2>4. Path \subseteq File
    BY DEF File
  <2>5. a \in [DOMAIN a -> Content \cup Version \cup {None}]
    BY <1>2
  <2>6. s.carried \in [DOMAIN s.carried -> Content \cup Version \cup {None}]
    <3>1. PICK D \in SUBSET (Path \ {Exclude}) : s.carried \in [D -> Content]
      BY <2>1, TreeAssumption
    <3>2. QED BY <3>1
  <2>7. c \in [DOMAIN c -> Content \cup Version \cup {None}]
    BY <1>3, <2>3 DEF Restrict
  <2>8. QED BY <1>8, <2>2, <2>3, <2>4, <2>5, <2>6, <2>7
<1>10. /\ S \in Seq(W) /\ Len(S) = 2 /\ DOMAIN S[1] = {"manifest"} /\ S[1]["manifest"] = s.manifest
       /\ DOMAIN S[2] = {"lock"} /\ S[2]["lock"] = s.lock
  <2>1. s.manifest \in Version /\ s.lock \in Version
    BY DEF SnapOK
  <2>2. /\ TodoOK(S) /\ Len(S) = 2
        /\ DOMAIN S[1] = {"manifest"} /\ S[1]["manifest"] = s.manifest
        /\ DOMAIN S[2] = {"lock"} /\ S[2]["lock"] = s.lock
    BY <1>4, <2>1, SourceOK
  <2>3. S \in Seq(W)
    BY <2>2 DEF TodoOK
  <2>4. QED BY <2>2, <2>3
<1> HIDE DEF W
<1>11. PICK U : U = <<a, s.carried, c>>
  OBVIOUS
<1>12. U \in Seq(W) /\ Len(U) = 3 /\ U[1] = a /\ U[2] = s.carried /\ U[3] = c
  BY <1>9, <1>11
<1>13. /\ T \in Seq(W) /\ Len(T) = Len(U) + Len(S)
       /\ \A i \in 1 .. Len(U) + Len(S) : T[i] = IF i <= Len(U) THEN U[i] ELSE S[i - Len(U)]
  <2>1. T = U \o S
    BY <1>6, <1>11
  <2>2. S \in Seq(W)
    BY <1>10
  <2>3. QED BY <1>12, <2>1, <2>2, ConcatProperties
<1>14. /\ DOMAIN T = 1..5 /\ T[1] = a /\ T[2] = s.carried /\ T[3] = c
       /\ T[4] = S[1] /\ T[5] = S[2]
  BY <1>10, <1>12, <1>13
<1>15. Plan(T, s, prev, onDisk)
  BY <1>7, <1>10, <1>14 DEF Plan
<1>16. TodoOK(T)
  <2>1. \A j \in DOMAIN T : j = 1 \/ j = 2 \/ j = 3 \/ j = 4 \/ j = 5
    BY <1>14
  <2>2. {"manifest"} \subseteq Slot /\ {"lock"} \subseteq Slot /\ Path \cap Slot = {}
    BY TreeAssumption DEF Slot
  <2>3. s.manifest \in Version /\ s.lock \in Version
    BY DEF SnapOK
  <2>4. ASSUME NEW j \in DOMAIN T
        PROVE  DOMAIN T[j] \subseteq File /\ \A f \in DOMAIN T[j] : MayHold(f, T[j][f])
    BY <1>7, <1>8, <1>9, <1>10, <1>14, <2>1, <2>2, <2>3 DEF File, MayHold
  <2>5. QED BY <1>13, <2>4 DEF TodoOK, W
<1>17. QED BY <1>1, <1>5, <1>15, <1>16

(* What a checkout of s over prev may leave in each file. *)
Anything == Content \cup Version \cup {None}
Wanted(s, prev, spared) ==
    [f \in File |->
        IF f = "manifest" THEN {s.manifest} ELSE IF f = "lock" THEN {s.lock}
        ELSE IF f \in Listed(s) \ (DOMAIN s.tracked \cap targetExclusion(s)) THEN {Recorded(s, f)}
        ELSE IF f \in Listed(prev) \ (Listed(s) \cup spared \cup targetExclusion(s)) THEN {None}
        ELSE Anything]

(* What either commit has for a file, or none. *)
Known(a, b) ==
    [f \in File |-> {x \in Anything : x = None \/ Holds(a, f, x) \/ Holds(b, f, x)}]

(* Something, for a file that the rules spare and that is not the build's. *)
Sparing(spared, carried) ==
    [f \in File |-> IF f \in spared \ DOMAIN carried THEN Anything \ {None} ELSE Anything]

LEMMA PlanLeads ==
    ASSUME NEW s, SnapOK(s), NEW prev, SnapOK(prev), NEW d, DiskOK(d), NEW onDisk, NEW T,
           Plan(T, s, prev, onDisk)
    PROVE  Leads(T, d, Wanted(s, prev, onDisk))
<1>1. PICK F : F = Wanted(s, prev, onDisk)
  OBVIOUS
<1>2. /\ F["manifest"] = {s.manifest} /\ F["lock"] = {s.lock}
      /\ \A f \in Path :
           F[f] = IF f \in Listed(s) \ (DOMAIN s.tracked \cap targetExclusion(s)) THEN {Recorded(s, f)}
                  ELSE IF f \in Listed(prev) \ (Listed(s) \cup onDisk \cup targetExclusion(s)) THEN {None}
                  ELSE Anything
  <2>1. "manifest" \in File /\ "lock" \in File /\ Path \subseteq File
        /\ "manifest" \notin Path /\ "lock" \notin Path
    BY TreeAssumption DEF File, Slot
  <2>2. QED BY <1>1, <2>1 DEF Wanted
<1>3. \A f \in File : f \in Path \/ f = "manifest" \/ f = "lock"
  BY DEF File, Slot
<1>4. \A j \in DOMAIN T : j = 1 \/ j = 2 \/ j = 3 \/ j = 4 \/ j = 5
  BY DEF Plan
<1>5. /\ 1 \in DOMAIN T /\ 2 \in DOMAIN T /\ 3 \in DOMAIN T /\ 4 \in DOMAIN T /\ 5 \in DOMAIN T
      /\ DOMAIN T[1] = Deleted(s, prev, onDisk) /\ \A p \in DOMAIN T[1] : T[1][p] = None
      /\ T[2] = s.carried
      /\ DOMAIN T[3] = Written(s, onDisk) /\ \A p \in DOMAIN T[3] : T[3][p] = s.tracked[p]
      /\ DOMAIN T[4] = {"manifest"} /\ T[4]["manifest"] = s.manifest
      /\ DOMAIN T[5] = {"lock"} /\ T[5]["lock"] = s.lock
  BY DEF Plan
<1>6. Deleted(s, prev, onDisk) \subseteq Path \ Listed(s) /\ DOMAIN s.carried \subseteq Path
      /\ Written(s, onDisk) \subseteq Path /\ "manifest" \notin Path /\ "lock" \notin Path
  BY SnapFacts, TreeAssumption DEF Deleted, Written, Listed
<1>7. ASSUME NEW f \in File, Untouched(T, f) PROVE d[f] \in F[f]
  <2>1. f # "manifest" /\ f # "lock"
    BY <1>5, <1>7 DEF Untouched
  <2>2. f \in Path
    BY <1>3, <2>1
  <2>3. f \notin Deleted(s, prev, onDisk) /\ f \notin DOMAIN s.carried /\ f \notin Written(s, onDisk)
    BY <1>5, <1>7 DEF Untouched
  <2>4. f \notin Listed(s) \ (DOMAIN s.tracked \cap targetExclusion(s))
    BY <2>3 DEF Listed, Written
  <2>5. f \notin Listed(prev) \ (Listed(s) \cup onDisk \cup targetExclusion(s))
    BY <2>3 DEF Deleted, Listed
  <2>6. d[f] \in Anything
    BY <2>2 DEF DiskOK, Anything
  <2>7. QED BY <1>2, <2>2, <2>4, <2>5, <2>6
<1>8. ASSUME NEW f \in File, NEW j \in DOMAIN T, Last(T, j, f) PROVE T[j][f] \in F[f]
  <2>1. CASE j = 1
    <3>1. f \in Path /\ f \notin Listed(s) /\ T[1][f] = None
      BY <1>5, <1>6, <1>8, <2>1 DEF Last
    <3>2. QED BY <1>2, <2>1, <3>1 DEF Anything
  <2>2. CASE j = 2
    <3>1. f \in DOMAIN s.carried /\ f \notin Written(s, onDisk) /\ T[2][f] = s.carried[f]
      BY <1>5, <1>8, <2>2 DEF Last
    <3>2. f \in Path /\ f \in Listed(s) /\ s.carried[f] \in Anything
      BY <1>6, <3>1, SnapFacts DEF Listed, Anything
    <3>3. f \in DOMAIN s.tracked => f \in targetExclusion(s)
      BY <3>1 DEF Written
    <3>4. f \notin DOMAIN s.tracked => Recorded(s, f) = s.carried[f]
      BY <3>1 DEF Recorded
    <3>5. CASE f \in DOMAIN s.tracked
      <4>1. f \in DOMAIN s.tracked \cap targetExclusion(s)
        BY <3>3, <3>5
      <4>2. F[f] = Anything
        BY <1>2, <3>2, <4>1
      <4>3. QED BY <2>2, <3>1, <3>2, <4>2
    <3>6. CASE f \notin DOMAIN s.tracked
      <4>1. F[f] = {Recorded(s, f)}
        BY <1>2, <3>2, <3>6
      <4>2. QED BY <2>2, <3>1, <3>4, <3>6, <4>1
    <3>7. QED BY <3>5, <3>6
  <2>3. CASE j = 3
    <3>1. f \in Written(s, onDisk) /\ T[3][f] = s.tracked[f]
      BY <1>5, <1>8, <2>3 DEF Last
    <3>2. f \in Path /\ f \in DOMAIN s.tracked /\ f \notin targetExclusion(s)
      BY <1>6, <3>1 DEF Written
    <3>3. f \in Listed(s) \ (DOMAIN s.tracked \cap targetExclusion(s))
      BY <3>2 DEF Listed
    <3>4. Recorded(s, f) = s.tracked[f]
      BY <3>2 DEF Recorded
    <3>5. F[f] = {s.tracked[f]}
      BY <1>2, <3>2, <3>3, <3>4
    <3>6. QED BY <2>3, <3>1, <3>5
  <2>4. CASE j = 4
    BY <1>2, <1>5, <1>8, <2>4 DEF Last
  <2>5. CASE j = 5
    BY <1>2, <1>5, <1>8, <2>5 DEF Last
  <2>6. QED BY <1>4, <2>1, <2>2, <2>3, <2>4, <2>5
<1>9. QED BY <1>1, <1>7, <1>8 DEF Leads

LEMMA PlanKnown ==
    ASSUME NEW s, SnapOK(s), NEW prev, SnapOK(prev), NEW onDisk, NEW T,
           Plan(T, s, prev, onDisk), TodoOK(T), NEW a
    PROVE  Among(T, Known(a, s))
<1>1. ASSUME NEW j \in DOMAIN T, NEW f \in DOMAIN T[j]
      PROVE  T[j][f] \in Known(a, s)[f]
  <2>1. f \in File /\ T[j][f] \in Anything
    BY DEF TodoOK, MayHold, Anything
  <2>2. j = 1 \/ j = 2 \/ j = 3 \/ j = 4 \/ j = 5
    BY DEF Plan
  <2>3. T[j][f] = None \/ Holds(s, f, T[j][f])
    <3>1. CASE j = 1
      BY <3>1 DEF Plan
    <3>2. CASE j = 2
      BY <3>2 DEF Plan, Holds
    <3>3. CASE j = 3
      BY <3>3 DEF Plan, Holds, Written
    <3>4. CASE j = 4
      BY <3>4 DEF Plan, Holds, Slot
    <3>5. CASE j = 5
      BY <3>5 DEF Plan, Holds, Slot
    <3>6. QED BY <2>2, <3>1, <3>2, <3>3, <3>4, <3>5
  <2>4. QED BY <2>1, <2>3 DEF Known
<1>2. QED BY <1>1 DEF Among

LEMMA PlanLists ==
    ASSUME NEW s, NEW prev, NEW onDisk, NEW T, Plan(T, s, prev, onDisk)
    PROVE  \A j \in DOMAIN T : DOMAIN T[j] \subseteq Lists(prev) \cup Lists(s)
<1>1. ASSUME NEW j \in DOMAIN T PROVE DOMAIN T[j] \subseteq Lists(prev) \cup Lists(s)
  <2>1. j = 1 \/ j = 2 \/ j = 3 \/ j = 4 \/ j = 5
    BY DEF Plan
  <2>2. CASE j = 1
    BY <2>2 DEF Plan, Deleted, Lists, Listed
  <2>3. CASE j = 2 \/ j = 3
    BY <2>3 DEF Plan, Written, Lists, Listed
  <2>4. CASE j = 4 \/ j = 5
    BY <2>4 DEF Plan, Lists, Slot
  <2>5. QED BY <2>1, <2>2, <2>3, <2>4
<1>2. QED BY <1>1

LEMMA PlanSpares ==
    ASSUME NEW s, SnapOK(s), NEW prev, SnapOK(prev), NEW onDisk, NEW T,
           Plan(T, s, prev, onDisk), TodoOK(T)
    PROVE  Among(T, Sparing(onDisk, prev.carried))
<1>1. ASSUME NEW j \in DOMAIN T, NEW f \in DOMAIN T[j]
      PROVE  T[j][f] \in Sparing(onDisk, prev.carried)[f]
  <2>1. f \in File /\ T[j][f] \in Anything
    BY DEF TodoOK, MayHold, Anything
  <2>2. j = 1 \/ j = 2 \/ j = 3 \/ j = 4 \/ j = 5
    BY DEF Plan
  <2>3. T[j][f] = None => f \notin onDisk \/ f \in DOMAIN prev.carried
    <3>0. None \notin Content /\ None \notin Version /\ s.manifest \in Version /\ s.lock \in Version
      BY TreeAssumption DEF SnapOK
    <3>1. CASE j = 1
      BY <3>1 DEF Plan, Deleted
    <3>2. CASE j = 2
      BY <3>0, <3>2, SnapFacts DEF Plan
    <3>3. CASE j = 3
      BY <3>0, <3>3, SnapFacts DEF Plan, Written
    <3>4. CASE j = 4
      BY <3>0, <3>4 DEF Plan
    <3>5. CASE j = 5
      BY <3>0, <3>5 DEF Plan
    <3>6. QED BY <2>2, <3>1, <3>2, <3>3, <3>4, <3>5
  <2>4. QED BY <2>1, <2>3 DEF Sparing
<1>2. QED BY <1>1 DEF Among

-----------------------------------------------------------------------------
(* The inductive invariant.                                                 *)

OpOK ==
    /\ op.name \in {"idle", "commit", "switch", "forward", "merge", "merged"}
    /\ op.name \in {"idle", "commit"} => todo = <<>>
    /\ op.name = "commit" => op.lock \in Version /\ Parses(disk)
    /\ op.name \in {"switch", "forward", "merge", "merged"} =>
          op.to \in Branch /\ op.spared \subseteq Path \ {Exclude}
    /\ op.name = "switch" => op.seen \subseteq File
    /\ op.name = "merged" => SnapOK(op.snapshot)

TypeOK ==
    /\ DiskOK(disk) /\ built \in Version \cup {None} /\ view \in Version \cup {None}
    /\ branch = [b \in Branch |-> branch[b]] /\ \A b \in Branch : SnapOK(branch[b])
    /\ SnapOK(base) /\ head \in Branch /\ ahead \subseteq Branch
    /\ TodoOK(todo) /\ OpOK
    /\ raced \in BOOLEAN /\ changes \in 0..MaxChanges

(* A commit under way records one manifest, *)
Fresh ==
    ~raced => /\ \A b \in Branch : FreshSnapshot(branch[b])
              /\ op.name = "commit" => disk["lock"] = op.lock /\ disk["manifest"] = op.lock
              /\ op.name = "merged" => FreshSnapshot(op.snapshot)

(* the writes still to come lead to the commit, *)
Heading ==
    (Arriving /\ ~raced) => Leads(todo, disk, Wanted(Incoming, branch[head], op.spared))

(* a file that was compared holds what one of the commits has, and gets no other;
   one that neither lists gets none, *)
Saving ==
    (op.name = "switch" /\ ~raced) =>
        /\ Among(todo, Known(branch[head], branch[op.to]))
        /\ \A f \in op.seen : disk[f] \in Known(branch[head], branch[op.to])[f]
        /\ \A j \in DOMAIN todo : DOMAIN todo[j] \subseteq Lists(branch[head]) \cup Lists(branch[op.to])

(* no write removes what the rules spare, *)
Staying ==
    /\ Arriving => Among(todo, Sparing(op.spared, branch[head].carried))
    /\ op.name = "merge" => op.spared = Rules(disk[Exclude])

(* and a merge begun on a clean tree still has ours in it. *)
Free == Path \ UNION {buildOwnedPaths(v) : v \in Version}
Ours(d) ==
    \A p \in Free :
        LET t == branch[head].tracked
        IN  /\ p \in DOMAIN t <=> p \notin Rules(d[Exclude]) /\ d[p] # None
            /\ p \in DOMAIN t => t[p] = d[p]
Kept(s, was, p, mine, other) ==
    (/\ Recorded(mine, p) # Recorded(was, p) /\ Recorded(mine, p) # None
     /\ Recorded(other, p) = Recorded(was, p))
        => Recorded(s, p) = Recorded(mine, p)
Joining ==
    /\ op.name = "merge" =>
          /\ \A j \in DOMAIN todo : DOMAIN todo[j] \subseteq Slot
          /\ op.clean => Ours(disk)
    /\ (op.name = "merged" /\ op.clean) =>
          \A p \in Free : /\ Kept(op.snapshot, base, p, branch[op.to], branch[head])
                          /\ Kept(op.snapshot, base, p, branch[head], branch[op.to])

Inv == TypeOK /\ Fresh /\ Heading /\ Saving /\ Staying /\ Joining

-----------------------------------------------------------------------------
(* Types.                                                                   *)

LEMMA Slots ==
    /\ "manifest" \in Slot /\ "lock" \in Slot /\ Slot \subseteq File /\ Path \subseteq File
    /\ Path \cap Slot = {} /\ Exclude \in Path
    /\ \A f \in File : f \in Path \/ f = "manifest" \/ f = "lock"
  BY TreeAssumption DEF Slot, File

LEMMA RulesFacts ==
    ASSUME NEW d, DiskOK(d)
    PROVE  Rules(d[Exclude]) \subseteq Path \ {Exclude}
<1>1. d[Exclude] \in Content \cup {None}
  BY Slots DEF DiskOK
<1>2. QED BY <1>1, TreeAssumption DEF Rules

LEMMA Put ==
    ASSUME NEW d, DiskOK(d), NEW f \in File, NEW x, MayHold(f, x), NEW e, e = [d EXCEPT ![f] = x]
    PROVE  DiskOK(e) /\ \A g \in File : e[g] = IF g = f THEN x ELSE d[g]
<1>1. d = [g \in File |-> d[g]]
  BY DEF DiskOK
<1>2. \A g \in File : e[g] = IF g = f THEN x ELSE d[g]
  BY <1>1
<1>3. e = [g \in File |-> e[g]]
  BY <1>1
<1>4. QED BY <1>2, <1>3, Slots DEF DiskOK, MayHold

(* What a merge makes of three sets of tracked files. *)
Takes(was, ours, p) == IF p \in DOMAIN ours THEN ~Moved(was, ours, p) ELSE p \notin DOMAIN was

LEMMA MergeFacts ==
    ASSUME NEW was, NEW ours, NEW theirs, NEW m, m = mergeTrackedSets(was, ours, theirs)
    PROVE  /\ \A p : p \in DOMAIN m <=>
                  \/ p \in DOMAIN ours /\ (Moved(was, ours, p) \/ p \in DOMAIN theirs)
                  \/ p \in DOMAIN theirs /\ Takes(was, ours, p)
           /\ \A p \in DOMAIN m :
                  m[p] = IF p \in DOMAIN theirs /\ Takes(was, ours, p) THEN theirs[p] ELSE ours[p]
<1>1. PICK kept : kept = {p \in DOMAIN ours : Moved(was, ours, p) \/ p \in DOMAIN theirs}
  OBVIOUS
<1>2. PICK taken : taken = {p \in DOMAIN theirs : IF p \in DOMAIN ours THEN ~Moved(was, ours, p)
                                                                      ELSE p \notin DOMAIN was}
  OBVIOUS
<1>3. m = [p \in kept \cup taken |-> IF p \in taken THEN theirs[p] ELSE ours[p]]
  BY <1>1, <1>2 DEF mergeTrackedSets
<1>4. \A p : p \in kept <=> p \in DOMAIN ours /\ (Moved(was, ours, p) \/ p \in DOMAIN theirs)
  BY <1>1
<1>5. \A p : p \in taken <=> p \in DOMAIN theirs /\ Takes(was, ours, p)
  BY <1>2 DEF Takes
<1>6. QED BY <1>3, <1>4, <1>5

(* The snapshot of a merge: ours, with the tracked files merged. *)
LEMMA MergedFacts ==
    ASSUME TypeOK, op.name = "merge", Parses(disk),
           NEW s, s = [buildSnapshot(disk, disk["lock"]) EXCEPT !.tracked =
                          mergeTrackedSets(base.tracked,
                                           buildSnapshot(disk, disk["lock"]).tracked,
                                           branch[op.to].tracked)]
    PROVE  /\ SnapOK(s) /\ s.manifest = disk["manifest"] /\ s.lock = disk["lock"]
           /\ s.carried = Local[disk["lock"]]
           /\ s.tracked = mergeTrackedSets(base.tracked, trackWorktree(disk, disk["lock"]),
                                           branch[op.to].tracked)
<1>1. DiskOK(disk) /\ disk["lock"] \in Version /\ SnapOK(branch[op.to]) /\ SnapOK(base)
  BY Slots DEF TypeOK, OpOK, DiskOK, Parses
<1>2. PICK o : o = buildSnapshot(disk, disk["lock"])
  OBVIOUS
<1>3. /\ SnapOK(o) /\ o.manifest = disk["manifest"] /\ o.lock = disk["lock"]
      /\ o.carried = Local[disk["lock"]] /\ o.tracked = trackWorktree(disk, disk["lock"])
  BY <1>1, <1>2, BuildSnapshotFacts
<1>4. PICK m : m = mergeTrackedSets(base.tracked, o.tracked, branch[op.to].tracked)
  OBVIOUS
<1>5. s = [o EXCEPT !.tracked = m]
  BY <1>2, <1>4
<1>6. o = [manifest |-> o.manifest, lock |-> o.lock, carried |-> o.carried, tracked |-> o.tracked]
  BY <1>3 DEF SnapOK
<1>7. s = [manifest |-> o.manifest, lock |-> o.lock, carried |-> o.carried, tracked |-> m]
  BY <1>5, <1>6
<1>8. DOMAIN m \subseteq Path /\ \A p \in DOMAIN m : m[p] \in Content
  <2>1. PICK t : t = branch[op.to].tracked
    OBVIOUS
  <2>2. DOMAIN t \subseteq Path /\ \A p \in DOMAIN t : t[p] \in Content
    BY <1>1, <2>1 DEF SnapOK
  <2>3. DOMAIN o.tracked \subseteq Path /\ \A p \in DOMAIN o.tracked : o.tracked[p] \in Content
    BY <1>3 DEF SnapOK
  <2>4. m = mergeTrackedSets(base.tracked, o.tracked, t)
    BY <1>4, <2>1
  <2>5. /\ \A p : p \in DOMAIN m <=>
              \/ p \in DOMAIN o.tracked /\ (Moved(base.tracked, o.tracked, p) \/ p \in DOMAIN t)
              \/ p \in DOMAIN t /\ Takes(base.tracked, o.tracked, p)
        /\ \A p \in DOMAIN m :
              m[p] = IF p \in DOMAIN t /\ Takes(base.tracked, o.tracked, p) THEN t[p]
                                                                           ELSE o.tracked[p]
    BY <2>4, MergeFacts
  <2>6. QED BY <2>2, <2>3, <2>5
<1>9. SnapOK(s)
  <2>1. s.manifest = o.manifest /\ s.lock = o.lock /\ s.carried = o.carried /\ s.tracked = m
    BY <1>7
  <2>2. QED BY <1>3, <1>7, <1>8, <2>1 DEF SnapOK
<1>10. QED BY <1>3, <1>4, <1>7, <1>9

LEMMA EmptyTodo == TodoOK(<<>>) /\ DOMAIN <<>> = {}
  BY DEF TodoOK

LEMMA InitTypes == Init => TypeOK /\ FreshSnapshot(base) /\ \A b \in Branch : branch[b] = base
<1> SUFFICES ASSUME Init PROVE TypeOK /\ FreshSnapshot(base) /\ \A b \in Branch : branch[b] = base
  OBVIOUS
<1>1. PICK v \in Version, files \in [Path -> Content \cup {None}] :
        disk = [f \in File |-> IF f \in Slot THEN v ELSE files[f]]
  BY DEF Init
<1>2. disk["manifest"] = v /\ disk["lock"] = v /\ \A p \in Path : disk[p] = files[p]
  BY <1>1, Slots
<1>3. DiskOK(disk)
  <2>1. disk = [f \in File |-> disk[f]]
    BY <1>1
  <2>2. \A f \in Slot : disk[f] = v
    BY <1>1, Slots
  <2>3. QED BY <1>2, <2>1, <2>2 DEF DiskOK
<1>4. /\ SnapOK(base) /\ base.manifest = v /\ base.lock = v /\ base.carried = Local[v]
  <2>1. base = buildSnapshot(disk, v)
    BY <1>2 DEF Init
  <2>2. Parses(disk)
    BY <1>2, TreeAssumption DEF Parses, Slot
  <2>3. QED BY <1>2, <1>3, <2>1, <2>2, BuildSnapshotFacts
<1>5. FreshSnapshot(base)
  BY <1>4 DEF FreshSnapshot
<1>6. branch = [b \in Branch |-> base]
  BY DEF Init
<1>7. OpOK
  BY DEF Init, Nothing, OpOK
<1>8. TypeOK
  <2>1. branch = [b \in Branch |-> branch[b]] /\ \A b \in Branch : SnapOK(branch[b])
    BY <1>4, <1>6
  <2>2. /\ built = None /\ view = None /\ head \in Branch /\ ahead = {} /\ todo = <<>>
        /\ changes = 0 /\ raced = FALSE
    BY DEF Init
  <2>3. TodoOK(todo)
    BY <2>2, EmptyTodo
  <2>4. 0 \in 0..MaxChanges
    BY TreeAssumption
  <2>5. QED BY <1>3, <1>4, <1>7, <2>1, <2>2, <2>3, <2>4 DEF TypeOK
<1>9. QED BY <1>5, <1>6, <1>8

(* A checkout of s. *)
LEMMA CheckoutFacts ==
    ASSUME TypeOK, NEW s, SnapOK(s), todo' = materializeSnapshot(s, branch[head])
    PROVE  TodoOK(todo') /\ Plan(todo', s, branch[head], Rules(disk[Exclude]))
<1>1. SnapOK(branch[head]) /\ DiskOK(disk)
  BY DEF TypeOK
<1>2. PICK T : T = materializeSnapshot(s, branch[head])
  OBVIOUS
<1>3. TodoOK(T) /\ Plan(T, s, branch[head], Rules(disk[Exclude]))
  BY <1>1, <1>2, PlanFacts
<1>4. QED BY <1>2, <1>3

LEMMA RecordFacts ==
    ASSUME TypeOK, NEW s, SnapOK(s), branch' = [branch EXCEPT ![head] = s]
    PROVE  /\ branch' = [b \in Branch |-> branch'[b]] /\ \A b \in Branch : SnapOK(branch'[b])
           /\ \A b \in Branch : branch'[b] = IF b = head THEN s ELSE branch[b]
<1>1. branch = [b \in Branch |-> branch[b]]
  BY DEF TypeOK
<1>2. \A b \in Branch : branch'[b] = IF b = head THEN s ELSE branch[b]
  BY <1>1
<1>3. branch' = [b \in Branch |-> branch'[b]]
  BY <1>1
<1>4. QED BY <1>2, <1>3 DEF TypeOK

(* Steps that keep the types, by what they do. *)
LEMMA DiskSteps ==
    ASSUME TypeOK, \/ \E p \in Path, c \in Content \cup {None} : Edit(p, c)
                   \/ \E f \in Slot : spoil(f)
                   \/ \E v \in Version : addItems(v)
                   \/ lockWrites \/ build
    PROVE  TypeOK'
<1>0. None \notin Version
  BY TreeAssumption
<1>1. CASE \E p \in Path, c \in Content \cup {None} : Edit(p, c)
  <2>1. PICK p \in Path, c \in Content \cup {None} : Edit(p, c)
    BY <1>1
  <2>2. MayHold(p, c) /\ p \in File
    BY Slots DEF MayHold
  <2>3. DiskOK(disk')
    BY <2>1, <2>2, Put DEF TypeOK, Edit
  <2>4. changes' \in 0..MaxChanges
    BY <2>1, TreeAssumption DEF TypeOK, Edit, Changed
  <2>5. QED BY <2>1, <2>3, <2>4 DEF TypeOK, OpOK, Edit, repo, Idle
<1>2. CASE \E v \in Version : addItems(v)
  <2>1. PICK v \in Version : addItems(v)
    BY <1>2
  <2>2. MayHold("manifest", v) /\ "manifest" \in File
    BY Slots DEF MayHold
  <2>3. DiskOK(disk')
    BY <2>1, <2>2, Put DEF TypeOK, addItems
  <2>4. changes' \in 0..MaxChanges
    BY <2>1, TreeAssumption DEF TypeOK, addItems, Changed
  <2>5. raced' \in BOOLEAN
    BY <2>1 DEF addItems, Racing
  <2>6. Parses(disk) => Parses(disk')
    <3>1. \A f \in Slot : disk'[f] = IF f = "manifest" THEN v ELSE disk[f]
      BY <2>1, Slots DEF addItems, TypeOK, DiskOK
    <3>2. QED BY <1>0, <3>1 DEF Parses
  <2>7. OpOK'
    BY <2>1, <2>6 DEF TypeOK, OpOK, addItems, repo
  <2>8. QED BY <2>1, <2>3, <2>4, <2>5, <2>7 DEF TypeOK, addItems, repo
<1>3. CASE lockWrites
  <2>1. MayHold("lock", view) /\ "lock" \in File
    BY <1>3, Slots DEF MayHold, lockWrites, TypeOK
  <2>2. DiskOK(disk')
    BY <1>3, <2>1, Put DEF TypeOK, lockWrites
  <2>3. raced' \in BOOLEAN
    BY <1>3 DEF lockWrites, Racing
  <2>4. Parses(disk) => Parses(disk')
    <3>1. \A f \in Slot : disk'[f] = IF f = "lock" THEN view ELSE disk[f]
      BY <1>3, Slots DEF lockWrites, TypeOK, DiskOK
    <3>2. QED BY <1>3, <3>1 DEF Parses, lockWrites
  <2>5. OpOK'
    BY <1>3, <2>4 DEF TypeOK, OpOK, lockWrites, repo
  <2>6. QED BY <1>3, <2>2, <2>3, <2>5 DEF TypeOK, lockWrites, repo
<1>4. CASE build
  <2>1. PICK v : v = disk["lock"]
    OBVIOUS
  <2>2. v \in Version
    BY <1>4, <2>1, Slots DEF TypeOK, DiskOK, build
  <2>3. disk' = [f \in File |-> disk'[f]]
    BY <1>4 DEF build
  <2>4. \A f \in File \ (buildOwnedPaths(v) \cup buildOwnedPaths(built)) : disk'[f] = disk[f]
    BY <1>4, <2>1 DEF build
  <2>5. \A f \in buildOwnedPaths(v) : f \in Path /\ disk'[f] \in {disk[f], Local[v][f]}
    <3>1. buildOwnedPaths(v) = DOMAIN Local[v]
      BY <2>2, TreeAssumption DEF buildOwnedPaths
    <3>2. ASSUME NEW f \in buildOwnedPaths(v)
          PROVE  f \in Path /\ disk'[f] \in {disk[f], Local[v][f]}
      <4>1. f \in Path /\ f \in File
        BY <2>2, <3>1, LocalFacts, Slots
      <4>2. QED BY <1>4, <2>1, <4>1 DEF build
    <3>3. QED BY <3>2
  <2>6. \A f \in buildOwnedPaths(built) \ buildOwnedPaths(v) : f \in Path /\ disk'[f] = None
    <3>1. ASSUME NEW f \in buildOwnedPaths(built) PROVE f \in Path
      BY LocalFacts DEF buildOwnedPaths, TypeOK
    <3>2. \A f \in buildOwnedPaths(built) \ buildOwnedPaths(v) : f \in File
      BY <3>1, Slots
    <3>3. QED BY <1>4, <2>1, <3>1, <3>2 DEF build
  <2>7. DiskOK(disk')
    <3>1. \A f \in buildOwnedPaths(v) : Local[v][f] \in Content
      BY <2>2, LocalFacts DEF buildOwnedPaths
    <3>2. ASSUME NEW f \in Slot PROVE disk'[f] \in Version \cup {None}
      <4>1. f \in File /\ f \notin Path
        BY Slots
      <4>2. QED BY <2>4, <2>5, <2>6, <4>1 DEF TypeOK, DiskOK
    <3>3. ASSUME NEW p \in Path PROVE disk'[p] \in Content \cup {None}
      <4>1. p \in File /\ disk[p] \in Content \cup {None}
        BY Slots DEF TypeOK, DiskOK
      <4>2. QED BY <2>4, <2>5, <2>6, <3>1, <4>1
    <3>4. QED BY <2>3, <3>2, <3>3 DEF DiskOK
  <2>8. built' \in Version
    BY <1>4, <2>1, <2>2 DEF build
  <2>9. QED BY <1>4, <2>7, <2>8 DEF TypeOK, OpOK, build, repo, Idle
<1>5. CASE \E f \in Slot : spoil(f)
  <2>1. PICK f \in Slot : spoil(f)
    BY <1>5
  <2>2. MayHold(f, None) /\ f \in File
    BY Slots DEF MayHold
  <2>3. DiskOK(disk')
    BY <2>1, <2>2, Put DEF TypeOK, spoil
  <2>4. changes' \in 0..MaxChanges
    BY <2>1, TreeAssumption DEF TypeOK, spoil, Changed
  <2>5. QED BY <2>1, <2>3, <2>4 DEF TypeOK, OpOK, spoil, repo, Idle
<1>6. QED BY <1>1, <1>2, <1>3, <1>4, <1>5

(* Steps that begin, end or carry on an operation. *)
LEMMA OpSteps ==
    ASSUME TypeOK, \/ commitParses \/ commitRecords
                   \/ \E b \in Branch : switchTo(b) \/ fastForward(b) \/ merge(b)
                   \/ switched \/ forwarded \/ mergeBuilds \/ merged
    PROVE  TypeOK'
<1>0. DiskOK(disk) /\ Rules(disk[Exclude]) \subseteq Path \ {Exclude}
  BY Slots, RulesFacts DEF TypeOK
<1>1. CASE commitParses
  <2>1. disk["lock"] \in Version
    BY <1>0, <1>1, Slots DEF DiskOK, Parses, commitParses
  <2>2. QED BY <1>1, <2>1 DEF TypeOK, OpOK, commitParses, repo, Idle
<1>2. CASE commitRecords
  <2>1. PICK s : s = buildSnapshot(disk, op.lock)
    OBVIOUS
  <2>2. SnapOK(s)
    BY <1>0, <1>2, <2>1, BuildSnapshotFacts DEF TypeOK, OpOK, commitRecords
  <2>3. branch' = [branch EXCEPT ![head] = s] /\ head' = head
    BY <1>2, <2>1 DEF commitRecords, Record
  <2>4. branch' = [b \in Branch |-> branch'[b]] /\ \A b \in Branch : SnapOK(branch'[b])
    BY <2>2, <2>3, RecordFacts
  <2>5. changes' \in 0..MaxChanges
    BY <1>2, TreeAssumption DEF TypeOK, commitRecords, Changed
  <2>6. OpOK'
    BY <1>2 DEF commitRecords, Nothing, OpOK, TypeOK
  <2>7. QED BY <1>2, <2>3, <2>4, <2>5, <2>6 DEF TypeOK, commitRecords
<1>3. ASSUME NEW b \in Branch, switchTo(b) PROVE TypeOK'
  <2>1. todo' = materializeSnapshot(branch[b], branch[head]) /\ SnapOK(branch[b])
    BY <1>3 DEF switchTo, switchCompared, switchBlind, Checkout, TypeOK
  <2>2. TodoOK(todo')
    BY <2>1, CheckoutFacts
  <2>3. OpOK'
    BY <1>0, <1>3 DEF switchTo, switchCompared, switchBlind, Checkout, Compared, OpOK
  <2>4. QED BY <1>3, <2>2, <2>3 DEF TypeOK, switchTo, switchCompared, switchBlind, Checkout, repo
<1>4. ASSUME NEW b \in Branch, fastForward(b) PROVE TypeOK'
  <2>1. todo' = materializeSnapshot(branch[b], branch[head]) /\ SnapOK(branch[b])
    BY <1>4 DEF fastForward, Checkout, TypeOK
  <2>2. TodoOK(todo')
    BY <2>1, CheckoutFacts
  <2>3. OpOK'
    BY <1>0, <1>4 DEF fastForward, Checkout, OpOK
  <2>4. QED BY <1>4, <2>2, <2>3 DEF TypeOK, fastForward, Checkout, repo
<1>5. ASSUME NEW b \in Branch, merge(b)
      PROVE  TypeOK' /\ \A j \in DOMAIN todo' : DOMAIN todo'[j] \subseteq Slot
  <2>1. PICK v \in MergedManifests(base.manifest, branch[head].manifest, branch[b].manifest) :
          todo' = SourceFiles([manifest |-> v, lock |-> v])
    BY <1>5 DEF merge
  <2>2. v \in Version
    <3>1. branch[head].manifest \in Version /\ branch[b].manifest \in Version
      BY DEF TypeOK, SnapOK
    <3>2. QED BY <2>1, <3>1 DEF MergedManifests
  <2>3. TodoOK(todo') /\ \A j \in DOMAIN todo' : DOMAIN todo'[j] \subseteq Slot
    BY <2>1, <2>2, SourceOK
  <2>4. OpOK'
    BY <1>0, <1>5 DEF merge, OpOK
  <2>5. QED BY <1>5, <2>3, <2>4 DEF TypeOK, merge, repo
<1>6. CASE switched
  BY <1>6 DEF TypeOK, OpOK, switched, Nothing
<1>7. CASE forwarded
  <2>1. op.to \in Branch /\ SnapOK(branch[op.to])
    BY <1>7 DEF TypeOK, OpOK, forwarded
  <2>2. branch' = [branch EXCEPT ![head] = branch[op.to]]
    BY <1>7 DEF forwarded
  <2>3. branch' = [b \in Branch |-> branch'[b]] /\ \A b \in Branch : SnapOK(branch'[b])
    BY <2>1, <2>2, RecordFacts
  <2>4. OpOK'
    BY <1>7 DEF forwarded, Nothing, OpOK
  <2>5. QED BY <1>7, <2>1, <2>3, <2>4 DEF TypeOK, forwarded
<1>8. CASE mergeBuilds
  <2>1. PICK s : s = [buildSnapshot(disk, disk["lock"]) EXCEPT !.tracked =
                        mergeTrackedSets(base.tracked, buildSnapshot(disk, disk["lock"]).tracked,
                                         branch[op.to].tracked)]
    OBVIOUS
  <2>2. op.name = "merge" /\ Parses(disk) /\ todo' = materializeSnapshot(s, branch[head])
        /\ op' = [name |-> "merged", to |-> op.to, clean |-> op.clean,
                  spared |-> op.spared, snapshot |-> s]
    BY <1>8, <2>1 DEF mergeBuilds
  <2>3. SnapOK(s)
    BY <2>1, <2>2, MergedFacts
  <2>4. TodoOK(todo')
    BY <2>2, <2>3, CheckoutFacts
  <2>5. OpOK'
    BY <2>2, <2>3 DEF TypeOK, OpOK
  <2>6. QED BY <1>8, <2>4, <2>5 DEF TypeOK, mergeBuilds, repo
<1>9. CASE merged
  <2>1. op.to \in Branch /\ SnapOK(branch[op.to]) /\ SnapOK(op.snapshot)
    BY <1>9 DEF TypeOK, OpOK, merged
  <2>2. branch' = [branch EXCEPT ![head] = op.snapshot] /\ head' = head
    BY <1>9 DEF merged, Record
  <2>3. branch' = [b \in Branch |-> branch'[b]] /\ \A b \in Branch : SnapOK(branch'[b])
    BY <2>1, <2>2, RecordFacts
  <2>4. OpOK'
    BY <1>9 DEF merged, Nothing, OpOK
  <2>5. QED BY <1>9, <2>1, <2>2, <2>3, <2>4 DEF TypeOK, merged
<1>10. QED BY <1>1, <1>2, <1>3, <1>4, <1>5, <1>6, <1>7, <1>8, <1>9

LEMMA TypeStep == TypeOK /\ [Next]_vars => TypeOK'
<1> SUFFICES ASSUME TypeOK, [Next]_vars PROVE TypeOK'
  OBVIOUS
<1>1. CASE lockReads
  <2>1. view' \in Version /\ changes' \in 0..MaxChanges
    BY <1>1, Slots, TreeAssumption DEF TypeOK, DiskOK, lockReads, Changed
  <2>2. QED BY <1>1, <2>1 DEF TypeOK, OpOK, lockReads, repo
<1>2. CASE write
  <2>1. TodoOK(todo') /\ DiskOK(disk')
    BY <1>2, TodoKept DEF TypeOK
  <2>2. op.name \notin {"idle", "commit"}
    BY <1>2 DEF TypeOK, OpOK, write
  <2>3. QED BY <1>2, <2>1, <2>2 DEF TypeOK, OpOK, write, repo
<1>3. CASE stop
  BY <1>3, EmptyTodo DEF TypeOK, OpOK, stop, repo, Nothing
<1>4. CASE UNCHANGED vars
  BY <1>4 DEF TypeOK, OpOK, vars, repo
<1>5. QED BY <1>1, <1>2, <1>3, <1>4, DiskSteps, OpSteps DEF Next

-----------------------------------------------------------------------------
(* The other parts, by what a step does.                                    *)

(* The operation goes on, and no file of it changes, *)
Rests ==
    /\ op' = op /\ branch' = branch /\ base' = base /\ head' = head
    /\ Idle \/ (disk' = disk /\ todo' = todo)

(* or addItems or lock writes its file within it, *)
Races ==
    /\ op' = op /\ branch' = branch /\ base' = base /\ head' = head /\ todo' = todo /\ raced'
    /\ \A p \in Path : disk'[p] = disk[p]

(* or it makes one of its own writes, *)
Goes ==
    /\ write /\ op' = op /\ branch' = branch /\ base' = base /\ head' = head /\ raced' = raced

(* or it ends, or another begins. *)
Ends == commitRecords \/ switched \/ forwarded \/ merged \/ stop
Begins ==
    \/ commitParses \/ mergeBuilds
    \/ \E b \in Branch : switchTo(b) \/ fastForward(b) \/ merge(b)

LEMMA Kinds ==
    ASSUME TypeOK, [Next]_vars
    PROVE  /\ ~raced' => ~raced
           /\ Rests \/ Races \/ Goes \/ Ends \/ Begins
<1>1. CASE \/ \E p \in Path, c \in Content \cup {None} : Edit(p, c)
           \/ \E f \in Slot : spoil(f)
  BY <1>1 DEF Edit, spoil, Rests, repo
<1>2. CASE \E v \in Version : addItems(v)
  <2>1. PICK v \in Version : addItems(v)
    BY <1>2
  <2>2. \A p \in Path : p # "manifest"
    BY Slots
  <2>3. \A p \in Path : disk'[p] = disk[p]
    BY <2>1, <2>2 DEF TypeOK, DiskOK, addItems
  <2>4. QED BY <2>1, <2>3 DEF addItems, Racing, Rests, Races, repo
<1>3. CASE lockWrites
  <2>1. \A p \in Path : p # "lock"
    BY Slots
  <2>2. \A p \in Path : disk'[p] = disk[p]
    BY <1>3, <2>1 DEF TypeOK, DiskOK, lockWrites
  <2>3. QED BY <1>3, <2>2 DEF lockWrites, Racing, Rests, Races, repo
<1>4. CASE lockReads
  BY <1>4 DEF lockReads, Rests, repo
<1>5. CASE build
  BY <1>5 DEF build, Rests, repo
<1>6. CASE write
  BY <1>6 DEF write, Goes, repo
<1>7. CASE Ends
  BY <1>7 DEF Ends, commitRecords, switched, forwarded, merged, stop
<1>8. CASE Begins
  <2>1. CASE commitParses \/ mergeBuilds
    BY <1>8, <2>1 DEF commitParses, mergeBuilds
  <2>2. CASE \E b \in Branch : switchTo(b) \/ fastForward(b) \/ merge(b)
    <3>1. PICK b \in Branch : switchTo(b) \/ fastForward(b) \/ merge(b)
      BY <2>2
    <3>2. raced' = raced
      BY <3>1 DEF switchTo, switchCompared, switchBlind, Checkout, fastForward, merge
    <3>3. QED BY <1>8, <3>2
  <2>3. QED BY <1>8, <2>1, <2>2 DEF Begins
<1>9. CASE UNCHANGED vars
  BY <1>9 DEF vars, Rests, repo
<1>10. QED
  BY <1>1, <1>2, <1>3, <1>4, <1>5, <1>6, <1>7, <1>8, <1>9 DEF Next, Ends, Begins

LEMMA EndsIdle == Ends => op'.name = "idle"
  BY DEF Ends, commitRecords, switched, forwarded, merged, stop, Nothing

LEMMA WritesAre == TypeOK /\ write => op.name \in {"switch", "forward", "merge", "merged"}
  BY DEF TypeOK, OpOK, write

(* The disk of a commit holds one manifest, and so does the commit. *)
LEMMA FreshStep == TypeOK /\ Fresh /\ [Next]_vars => Fresh'
<1> SUFFICES ASSUME TypeOK, Fresh, [Next]_vars, ~raced' PROVE Fresh'
  BY DEF Fresh
<1>0. /\ ~raced /\ \A b \in Branch : FreshSnapshot(branch[b])
      /\ op.name = "commit" => disk["lock"] = op.lock /\ disk["manifest"] = op.lock
      /\ op.name = "merged" => FreshSnapshot(op.snapshot)
  BY Kinds DEF Fresh
<1>1. CASE Rests
  BY <1>0, <1>1 DEF Rests, Fresh, Idle
<1>2. CASE Races
  BY <1>2 DEF Races
<1>3. CASE Goes
  <2>1. op.name # "commit"
    BY <1>3, WritesAre DEF Goes
  <2>2. QED BY <1>0, <1>3, <2>1 DEF Goes, Fresh
<1>4. CASE Ends
  <2>0. op'.name # "commit" /\ op'.name # "merged"
    BY <1>4, EndsIdle
  <2>1. ASSUME NEW s, SnapOK(s), FreshSnapshot(s), branch' = [branch EXCEPT ![head] = s]
        PROVE  \A b \in Branch : FreshSnapshot(branch'[b])
    <3>1. \A b \in Branch : branch'[b] = IF b = head THEN s ELSE branch[b]
      BY <2>1, RecordFacts
    <3>2. QED BY <1>0, <2>1, <3>1
  <2>2. CASE commitRecords
    <3>1. PICK s : s = buildSnapshot(disk, op.lock)
      OBVIOUS
    <3>2. op.name = "commit" /\ op.lock \in Version /\ DiskOK(disk) /\ Parses(disk)
      BY <2>2 DEF commitRecords, TypeOK, OpOK
    <3>3. /\ SnapOK(s) /\ s.manifest = disk["manifest"] /\ s.lock = disk["lock"]
          /\ s.carried = Local[op.lock]
      BY <3>1, <3>2, BuildSnapshotFacts
    <3>4. FreshSnapshot(s)
      BY <1>0, <3>2, <3>3 DEF FreshSnapshot
    <3>5. branch' = [branch EXCEPT ![head] = s]
      BY <2>2, <3>1 DEF commitRecords, Record
    <3>6. QED BY <2>0, <2>1, <3>3, <3>4, <3>5 DEF Fresh
  <2>3. CASE forwarded
    <3>1. op.to \in Branch /\ SnapOK(branch[op.to]) /\ FreshSnapshot(branch[op.to])
      BY <1>0, <2>3 DEF TypeOK, OpOK, forwarded
    <3>2. branch' = [branch EXCEPT ![head] = branch[op.to]]
      BY <2>3 DEF forwarded
    <3>3. QED BY <2>0, <2>1, <3>1, <3>2 DEF Fresh
  <2>4. CASE merged
    <3>1. SnapOK(op.snapshot) /\ FreshSnapshot(op.snapshot)
      BY <1>0, <2>4 DEF TypeOK, OpOK, merged
    <3>2. branch' = [branch EXCEPT ![head] = op.snapshot]
      BY <2>4 DEF merged, Record
    <3>3. QED BY <2>0, <2>1, <3>1, <3>2 DEF Fresh
  <2>5. CASE switched \/ stop
    BY <1>0, <2>0, <2>5 DEF switched, stop, repo, Fresh
  <2>6. QED BY <1>4, <2>2, <2>3, <2>4, <2>5 DEF Ends
<1>5. CASE Begins
  <2>1. CASE commitParses
    BY <1>0, <2>1 DEF commitParses, LockFresh, repo, Fresh
  <2>2. CASE mergeBuilds
    <3>1. PICK s : s = [buildSnapshot(disk, disk["lock"]) EXCEPT !.tracked =
                          mergeTrackedSets(base.tracked, buildSnapshot(disk, disk["lock"]).tracked,
                                           branch[op.to].tracked)]
      OBVIOUS
    <3>2. op.name = "merge" /\ Parses(disk) /\ op'.snapshot = s /\ op'.name = "merged" /\ branch' = branch
          /\ disk["lock"] = disk["manifest"]
      BY <2>2, <3>1 DEF mergeBuilds, repo, LockFresh
    <3>3. FreshSnapshot(s)
      BY <3>1, <3>2, MergedFacts DEF FreshSnapshot
    <3>4. QED BY <1>0, <3>2, <3>3 DEF Fresh
  <2>3. CASE \E b \in Branch : switchTo(b) \/ fastForward(b) \/ merge(b)
    BY <1>0, <2>3 DEF switchTo, switchCompared, switchBlind, Checkout, fastForward, merge, repo, Fresh
  <2>4. QED BY <1>5, <2>1, <2>2, <2>3 DEF Begins
<1>6. QED BY <1>1, <1>2, <1>3, <1>4, <1>5, Kinds

(* The writes of a checkout lead to its commit. *)
LEMMA HeadingStep == TypeOK /\ Staying /\ Joining /\ Heading /\ [Next]_vars => Heading'
<1> SUFFICES ASSUME TypeOK, Staying, Joining, Heading, [Next]_vars, Arriving', ~raced'
             PROVE  Leads(todo', disk', Wanted(Incoming', branch'[head'], op'.spared))
  BY DEF Heading
<1>0. ~raced /\ DiskOK(disk) /\ SnapOK(branch[head]) /\ TodoOK(todo)
  BY Kinds DEF TypeOK
<1>1. CASE Rests
  <2>1. Arriving /\ ~Idle /\ Incoming' = Incoming
    BY <1>1 DEF Rests, Arriving, Idle, Incoming
  <2>2. QED BY <1>0, <1>1, <2>1 DEF Rests, Heading
<1>2. CASE Races
  BY <1>2 DEF Races
<1>3. CASE Goes
  <2>1. Arriving /\ Incoming' = Incoming
    BY <1>3 DEF Goes, Arriving, Incoming
  <2>2. Leads(todo, disk, Wanted(Incoming, branch[head], op.spared))
    BY <1>0, <2>1 DEF Heading
  <2>3. PICK F : F = Wanted(Incoming, branch[head], op.spared)
    OBVIOUS
  <2>4. Leads(todo', disk', F)
    BY <1>0, <1>3, <2>2, <2>3, LeadsKept DEF Goes
  <2>5. QED BY <1>3, <2>1, <2>3, <2>4 DEF Goes
<1>4. CASE Ends
  BY <1>4, EndsIdle DEF Arriving
<1>5. CASE Begins
  <2>0. ASSUME NEW s, SnapOK(s), todo' = materializeSnapshot(s, branch[head]), disk' = disk,
               branch' = branch, head' = head, Incoming' = s, op'.spared = Rules(disk[Exclude])
        PROVE  Leads(todo', disk', Wanted(Incoming', branch'[head'], op'.spared))
    <3>1. Plan(todo', s, branch[head], Rules(disk[Exclude]))
      BY <2>0, CheckoutFacts
    <3>2. Leads(todo', disk, Wanted(s, branch[head], Rules(disk[Exclude])))
      BY <1>0, <2>0, <3>1, PlanLeads
    <3>3. QED BY <2>0, <3>2
  <2>1. CASE commitParses \/ \E b \in Branch : merge(b)
    BY <2>1 DEF commitParses, merge, Arriving
  <2>2. CASE mergeBuilds
    <3>1. PICK s : s = [buildSnapshot(disk, disk["lock"]) EXCEPT !.tracked =
                          mergeTrackedSets(base.tracked, buildSnapshot(disk, disk["lock"]).tracked,
                                           branch[op.to].tracked)]
      OBVIOUS
    <3>2. op.name = "merge" /\ Parses(disk) /\ op'.snapshot = s /\ op'.name = "merged"
          /\ op'.spared = op.spared
      BY <2>2, <3>1 DEF mergeBuilds
    <3>3. todo' = materializeSnapshot(s, branch[head]) /\ disk' = disk /\ branch' = branch
          /\ head' = head
      BY <2>2, <3>1 DEF mergeBuilds, repo
    <3>4. SnapOK(s)
      BY <3>1, <3>2, MergedFacts
    <3>5. Incoming' = s
      BY <3>2 DEF Incoming
    <3>6. op'.spared = Rules(disk[Exclude])
      BY <3>2 DEF Staying
    <3>7. QED BY <2>0, <3>3, <3>4, <3>5, <3>6
  <2>3. ASSUME NEW b \in Branch, switchTo(b) \/ fastForward(b)
        PROVE  Leads(todo', disk', Wanted(Incoming', branch'[head'], op'.spared))
    <3>1. todo' = materializeSnapshot(branch[b], branch[head]) /\ disk' = disk /\ branch' = branch
          /\ head' = head /\ op'.name # "merged" /\ op'.to = b /\ op'.spared = Rules(disk[Exclude])
      BY <2>3 DEF switchTo, switchCompared, switchBlind, Checkout, fastForward, repo
    <3>2. Incoming' = branch[b] /\ SnapOK(branch[b])
      BY <3>1 DEF Incoming, TypeOK
    <3>3. QED BY <2>0, <3>1, <3>2
  <2>4. QED BY <1>5, <2>1, <2>2, <2>3 DEF Begins
<1>6. QED BY <1>1, <1>2, <1>3, <1>4, <1>5, Kinds

(* What a clean tree holds, its commit has. *)
LEMMA SnapshotHolds ==
    ASSUME TypeOK, Parses(disk), NEW s, AtSnapshot(s), NEW f \in Compared
    PROVE  disk[f] = None \/ Holds(s, f, disk[f])
<1>1. DiskOK(disk) /\ disk["lock"] \in Version
  BY Slots DEF TypeOK, DiskOK, Parses
<1>2. PICK o : o = buildSnapshot(disk, disk["lock"])
  OBVIOUS
<1>3. /\ o.manifest = disk["manifest"] /\ o.lock = disk["lock"]
      /\ o.tracked = trackWorktree(disk, disk["lock"]) /\ s = o
  BY <1>1, <1>2, BuildSnapshotFacts DEF AtSnapshot
<1>4. CASE f \in Slot
  BY <1>3, <1>4 DEF Holds, Slot
<1>5. CASE f \notin Slot
  <2>1. f \in Path /\ f \notin snapshotExclusion(disk, disk["lock"])
    BY <1>5 DEF Compared, File
  <2>2. PICK t : t = trackWorktree(disk, disk["lock"])
    OBVIOUS
  <2>3. disk[f] # None => f \in DOMAIN t /\ t[f] = disk[f]
    BY <1>1, <2>1, <2>2, TrackFacts
  <2>4. QED BY <1>3, <2>2, <2>3 DEF Holds
<1>6. QED BY <1>4, <1>5

LEMMA SavingStep == TypeOK /\ Saving /\ [Next]_vars => Saving'
<1> SUFFICES ASSUME TypeOK, Saving, [Next]_vars, op'.name = "switch", ~raced'
             PROVE  /\ Among(todo', Known(branch'[head'], branch'[op'.to]))
                    /\ \A f \in op'.seen : disk'[f] \in Known(branch'[head'], branch'[op'.to])[f]
                    /\ \A j \in DOMAIN todo' :
                          DOMAIN todo'[j] \subseteq Lists(branch'[head']) \cup Lists(branch'[op'.to])
  BY DEF Saving
<1>0. ~raced /\ DiskOK(disk) /\ SnapOK(branch[head]) /\ TodoOK(todo)
  BY Kinds DEF TypeOK
<1>1. CASE Rests
  BY <1>0, <1>1 DEF Rests, Idle, Saving
<1>2. CASE Races
  BY <1>2 DEF Races
<1>3. CASE Goes
  <2>1. PICK F : F = Known(branch[head], branch[op.to])
    OBVIOUS
  <2>2. Among(todo, F) /\ (\A f \in op.seen : disk[f] \in F[f]) /\ op.seen \subseteq File
    BY <1>0, <1>3, <2>1 DEF Goes, Saving, TypeOK, OpOK
  <2>3. Among(todo', F) /\ \A f \in File : disk'[f] = disk[f] \/ disk'[f] \in F[f]
    BY <1>0, <1>3, <2>2, AmongKept DEF Goes
  <2>4. \A f \in op.seen : disk'[f] \in F[f]
    BY <2>2, <2>3
  <2>5. PICK D : D = Lists(branch[head]) \cup Lists(branch[op.to])
    OBVIOUS
  <2>6. \A j \in DOMAIN todo : DOMAIN todo[j] \subseteq D
    BY <1>0, <1>3, <2>5 DEF Goes, Saving
  <2>7. \A j \in DOMAIN todo' : DOMAIN todo'[j] \subseteq D
    BY <1>0, <1>3, <2>6, TodoKept DEF Goes
  <2>8. QED BY <1>3, <2>1, <2>3, <2>4, <2>5, <2>7 DEF Goes
<1>4. CASE Ends
  BY <1>4, EndsIdle
<1>5. CASE Begins
  <2>1. PICK b \in Branch : switchTo(b)
    BY <1>5 DEF Begins, commitParses, mergeBuilds, fastForward, Checkout, merge
  <2>2. /\ todo' = materializeSnapshot(branch[b], branch[head]) /\ disk' = disk
        /\ branch' = branch /\ head' = head /\ op'.to = b
        /\ \/ op'.seen = {}
           \/ /\ op'.seen = Compared /\ Parses(disk)
              /\ AtSnapshot(branch[head]) \/ AtSnapshot(branch[b])
    BY <2>1 DEF switchTo, switchCompared, switchBlind, Checkout, repo
  <2>3. SnapOK(branch[b])
    BY DEF TypeOK
  <2>4. TodoOK(todo') /\ Plan(todo', branch[b], branch[head], Rules(disk[Exclude]))
    BY <2>2, <2>3, CheckoutFacts
  <2>5. Among(todo', Known(branch[head], branch[b]))
    BY <1>0, <2>3, <2>4, PlanKnown
  <2>6. ASSUME NEW f \in op'.seen PROVE disk[f] \in Known(branch[head], branch[b])[f]
    <3>1. f \in Compared /\ f \in File
      BY <2>2, <2>6 DEF Compared
    <3>2. disk[f] \in Anything
      BY <1>0, <3>1, Slots DEF DiskOK, Anything, File
    <3>3. disk[f] = None \/ Holds(branch[head], f, disk[f]) \/ Holds(branch[b], f, disk[f])
      BY <2>2, <2>6, <3>1, SnapshotHolds
    <3>4. QED BY <3>1, <3>2, <3>3 DEF Known
  <2>7. \A j \in DOMAIN todo' : DOMAIN todo'[j] \subseteq Lists(branch[head]) \cup Lists(branch[b])
    BY <2>4, PlanLists
  <2>8. QED BY <2>2, <2>5, <2>6, <2>7
<1>6. QED BY <1>1, <1>2, <1>3, <1>4, <1>5, Kinds

(* What the rules spare. *)
LEMMA StayingStep == TypeOK /\ Staying /\ Joining /\ [Next]_vars => Staying'
<1> SUFFICES ASSUME TypeOK, Staying, Joining, [Next]_vars
             PROVE  /\ Arriving' => Among(todo', Sparing(op'.spared, branch'[head'].carried))
                    /\ op'.name = "merge" => op'.spared = Rules(disk'[Exclude])
  BY DEF Staying
<1>0. DiskOK(disk) /\ SnapOK(branch[head]) /\ TodoOK(todo) /\ Exclude \in Path /\ Exclude \notin Slot
  BY Slots DEF TypeOK
<1>1. CASE Rests
  BY <1>1 DEF Rests, Idle, Staying, Arriving
<1>2. CASE Races
  BY <1>0, <1>2 DEF Races, Staying, Arriving
<1>3. CASE Goes
  <2>1. CASE Arriving
    <3>1. PICK F : F = Sparing(op.spared, branch[head].carried)
      OBVIOUS
    <3>2. Among(todo, F)
      BY <2>1, <3>1 DEF Staying
    <3>3. Among(todo', F)
      BY <1>0, <1>3, <3>2, AmongKept DEF Goes
    <3>4. op'.name # "merge"
      BY <1>3, <2>1 DEF Goes, Arriving
    <3>5. QED BY <1>3, <3>1, <3>3, <3>4 DEF Goes
  <2>2. CASE op.name = "merge"
    <3>1. \A j \in DOMAIN todo : DOMAIN todo[j] \subseteq Slot
      BY <2>2 DEF Joining
    <3>2. \A f \in File \ Slot : disk'[f] = disk[f]
      BY <1>0, <1>3, <3>1, TodoKept DEF Goes
    <3>3. disk'[Exclude] = disk[Exclude]
      BY <1>0, <3>2, Slots
    <3>4. QED BY <1>3, <2>2, <3>3 DEF Goes, Staying, Arriving
  <2>3. CASE ~Arriving /\ op.name # "merge"
    BY <1>3, <2>3 DEF Goes, Arriving
  <2>4. QED BY <2>1, <2>2, <2>3
<1>4. CASE Ends
  BY <1>4, EndsIdle DEF Arriving
<1>5. CASE Begins
  <2>0. ASSUME NEW s, SnapOK(s), todo' = materializeSnapshot(s, branch[head]),
               branch' = branch, head' = head, op'.spared = Rules(disk[Exclude])
        PROVE  Among(todo', Sparing(op'.spared, branch'[head'].carried))
    <3>1. TodoOK(todo') /\ Plan(todo', s, branch[head], Rules(disk[Exclude]))
      BY <2>0, CheckoutFacts
    <3>2. Among(todo', Sparing(Rules(disk[Exclude]), branch[head].carried))
      BY <1>0, <2>0, <3>1, PlanSpares
    <3>3. QED BY <2>0, <3>2
  <2>1. CASE commitParses \/ \E b \in Branch : merge(b)
    BY <2>1 DEF commitParses, merge, Arriving
  <2>2. CASE mergeBuilds
    <3>1. PICK s : s = [buildSnapshot(disk, disk["lock"]) EXCEPT !.tracked =
                          mergeTrackedSets(base.tracked, buildSnapshot(disk, disk["lock"]).tracked,
                                           branch[op.to].tracked)]
      OBVIOUS
    <3>2. op.name = "merge" /\ Parses(disk) /\ op'.name = "merged" /\ op'.spared = op.spared
      BY <2>2, <3>1 DEF mergeBuilds
    <3>3. todo' = materializeSnapshot(s, branch[head]) /\ branch' = branch /\ head' = head
      BY <2>2, <3>1 DEF mergeBuilds, repo
    <3>4. SnapOK(s)
      BY <3>1, <3>2, MergedFacts
    <3>5. op'.spared = Rules(disk[Exclude])
      BY <3>2 DEF Staying
    <3>6. QED BY <2>0, <3>2, <3>3, <3>4, <3>5
  <2>3. ASSUME NEW b \in Branch, switchTo(b) \/ fastForward(b)
        PROVE  /\ Among(todo', Sparing(op'.spared, branch'[head'].carried))
               /\ op'.name # "merge"
    <3>1. todo' = materializeSnapshot(branch[b], branch[head]) /\ branch' = branch
          /\ head' = head /\ op'.name # "merge" /\ op'.spared = Rules(disk[Exclude])
      BY <2>3 DEF switchTo, switchCompared, switchBlind, Checkout, fastForward, repo
    <3>2. SnapOK(branch[b])
      BY DEF TypeOK
    <3>3. QED BY <2>0, <3>1, <3>2
  <2>4. QED BY <1>5, <2>1, <2>2, <2>3 DEF Begins
<1>6. QED BY <1>1, <1>2, <1>3, <1>4, <1>5, Kinds

(* A path no version owns: a snapshot has its tracked file, or none. *)
LEMMA FreeFacts ==
    ASSUME NEW s, SnapOK(s), NEW p \in Free
    PROVE  /\ p \in Path /\ p \notin Slot /\ p \notin DOMAIN s.carried
           /\ Recorded(s, p) = IF p \in DOMAIN s.tracked THEN s.tracked[p] ELSE None
           /\ p \in DOMAIN s.tracked => s.tracked[p] \in Content
<1>1. PICK v \in Version : s.carried = Local[v]
  BY DEF SnapOK
<1>2. p \notin buildOwnedPaths(v)
  BY DEF Free
<1>3. v # None
  BY TreeAssumption
<1>4. p \notin DOMAIN s.carried
  BY <1>1, <1>2, <1>3 DEF buildOwnedPaths
<1>5. QED BY <1>4, Slots DEF Free, SnapOK, Recorded

LEMMA FreeTracked ==
    ASSUME TypeOK, NEW p \in Free
    PROVE  LET t == trackWorktree(disk, disk["lock"])
           IN  /\ p \in DOMAIN t <=> p \notin Rules(disk[Exclude]) /\ disk[p] # None
               /\ p \in DOMAIN t => t[p] = disk[p]
<1>1. DiskOK(disk) /\ disk["lock"] \in Version \cup {None} /\ built \in Version \cup {None}
  BY Slots DEF TypeOK, DiskOK
<1>2. p \in Path /\ p \notin buildOwnedPaths(disk["lock"])
  BY <1>1 DEF Free, buildOwnedPaths
<1>3. p \notin buildOwnedPaths(built)
  BY <1>1 DEF Free, buildOwnedPaths
<1>4. p \in snapshotExclusion(disk, disk["lock"]) <=> p \in Rules(disk[Exclude])
  BY <1>2, <1>3 DEF snapshotExclusion
<1>5. PICK t : t = trackWorktree(disk, disk["lock"])
  OBVIOUS
<1>6. /\ p \in DOMAIN t <=> p \notin snapshotExclusion(disk, disk["lock"]) /\ disk[p] # None
      /\ p \in DOMAIN t => t[p] = disk[p]
  BY <1>1, <1>2, <1>5, TrackFacts
<1>7. QED BY <1>4, <1>5, <1>6

(* A merge keeps the edits of both sides of a tree that holds ours. *)
LEMMA MergeKeeps ==
    ASSUME NEW was, SnapOK(was), NEW ours, SnapOK(ours), NEW theirs, SnapOK(theirs),
           NEW s, SnapOK(s), NEW w, s.tracked = mergeTrackedSets(was.tracked, w, theirs.tracked),
           NEW p \in Free, p \in DOMAIN w <=> p \in DOMAIN ours.tracked,
           p \in DOMAIN w => w[p] = ours.tracked[p]
    PROVE  Kept(s, was, p, theirs, ours) /\ Kept(s, was, p, ours, theirs)
<1>1. PICK b : b = was.tracked
  OBVIOUS
<1>2. PICK t : t = theirs.tracked
  OBVIOUS
<1>3. PICK o : o = ours.tracked
  OBVIOUS
<1>4. PICK m : m = s.tracked
  OBVIOUS
<1>5. m = mergeTrackedSets(b, w, t)
  BY <1>1, <1>2, <1>4
<1>6. /\ p \in DOMAIN m <=> \/ p \in DOMAIN w /\ (Moved(b, w, p) \/ p \in DOMAIN t)
                            \/ p \in DOMAIN t /\ Takes(b, w, p)
      /\ p \in DOMAIN m =>
            m[p] = IF p \in DOMAIN t /\ Takes(b, w, p) THEN t[p] ELSE w[p]
  BY <1>5, MergeFacts
<1>7. /\ Recorded(was, p) = IF p \in DOMAIN b THEN b[p] ELSE None
      /\ Recorded(ours, p) = IF p \in DOMAIN o THEN o[p] ELSE None
      /\ Recorded(theirs, p) = IF p \in DOMAIN t THEN t[p] ELSE None
      /\ Recorded(s, p) = IF p \in DOMAIN m THEN m[p] ELSE None
      /\ p \in DOMAIN b => b[p] # None
      /\ p \in DOMAIN o => o[p] # None
      /\ p \in DOMAIN t => t[p] # None
  BY <1>1, <1>2, <1>3, <1>4, FreeFacts, TreeAssumption
<1>8. (p \in DOMAIN w <=> p \in DOMAIN o) /\ (p \in DOMAIN w => w[p] = o[p])
  BY <1>3
<1>9. ASSUME Recorded(theirs, p) # Recorded(was, p), Recorded(theirs, p) # None,
             Recorded(ours, p) = Recorded(was, p)
      PROVE  Recorded(s, p) = Recorded(theirs, p)
  <2>1. p \in DOMAIN t
    BY <1>7, <1>9
  <2>2. Takes(b, w, p)
    BY <1>7, <1>8, <1>9 DEF Takes, Moved
  <2>3. QED BY <1>6, <1>7, <2>1, <2>2
<1>10. ASSUME Recorded(ours, p) # Recorded(was, p), Recorded(ours, p) # None,
              Recorded(theirs, p) = Recorded(was, p)
       PROVE  Recorded(s, p) = Recorded(ours, p)
  <2>1. p \in DOMAIN o /\ p \in DOMAIN w
    BY <1>7, <1>8, <1>10
  <2>2. Moved(b, w, p)
    BY <1>7, <1>8, <1>10, <2>1 DEF Moved
  <2>3. ~Takes(b, w, p)
    BY <2>1, <2>2 DEF Takes
  <2>4. QED BY <1>6, <1>7, <1>8, <2>1, <2>2, <2>3
<1>11. QED BY <1>9, <1>10 DEF Kept

LEMMA JoiningStep == TypeOK /\ Joining /\ [Next]_vars => Joining'
<1> SUFFICES ASSUME TypeOK, Joining, [Next]_vars PROVE Joining'
  OBVIOUS
<1>0. DiskOK(disk) /\ TodoOK(todo) /\ Exclude \in Path /\ \A b \in Branch : SnapOK(branch[b])
      /\ head \in Branch /\ SnapOK(base)
  BY Slots DEF TypeOK
<1>1. CASE Rests
  BY <1>1 DEF Rests, Idle, Joining, Ours
<1>2. ASSUME \A p \in Path : disk'[p] = disk[p], Ours(disk), branch' = branch, head' = head
      PROVE  Ours(disk)'
  <2>1. disk'[Exclude] = disk[Exclude] /\ \A p \in Free : disk'[p] = disk[p]
    BY <1>0, <1>2 DEF Free
  <2>2. QED BY <1>2, <2>1 DEF Ours
<1>3. CASE Races
  BY <1>2, <1>3 DEF Races, Joining
<1>4. CASE Goes
  <2>1. CASE op.name = "merge"
    <3>1. \A j \in DOMAIN todo : DOMAIN todo[j] \subseteq Slot
      BY <2>1 DEF Joining
    <3>2. /\ \A j \in DOMAIN todo' : DOMAIN todo'[j] \subseteq Slot
          /\ \A f \in File \ Slot : disk'[f] = disk[f]
      BY <1>0, <1>4, <3>1, TodoKept DEF Goes
    <3>3. \A p \in Path : disk'[p] = disk[p]
      BY <3>2, Slots
    <3>4. QED BY <1>2, <1>4, <2>1, <3>2, <3>3 DEF Goes, Joining
  <2>2. CASE op.name # "merge"
    BY <1>4, <2>2 DEF Goes, Joining
  <2>3. QED BY <2>1, <2>2
<1>5. CASE Ends
  BY <1>5, EndsIdle DEF Joining
<1>6. CASE Begins
  <2>1. CASE commitParses \/ \E b \in Branch : switchTo(b) \/ fastForward(b)
    BY <2>1 DEF commitParses, switchTo, switchCompared, switchBlind, Checkout, fastForward, Joining
  <2>2. ASSUME NEW b \in Branch, merge(b) PROVE Joining'
    <3>1. PICK v \in MergedManifests(base.manifest, branch[head].manifest, branch[b].manifest) :
            todo' = SourceFiles([manifest |-> v, lock |-> v])
      BY <2>2 DEF merge
    <3>2. v \in Version
      <4>1. branch[head].manifest \in Version /\ branch[b].manifest \in Version
        BY <1>0 DEF SnapOK
      <4>2. QED BY <3>1, <4>1 DEF MergedManifests
    <3>3. \A j \in DOMAIN todo' : DOMAIN todo'[j] \subseteq Slot
      BY <3>1, <3>2, SourceOK
    <3>4. ASSUME ~worktreeDirty PROVE Ours(disk)'
      <4>1. branch[head].tracked = trackWorktree(disk, disk["lock"])
        BY <3>4 DEF worktreeDirty
      <4>2. Ours(disk)
        BY <4>1, FreeTracked DEF Ours
      <4>3. QED BY <2>2, <4>2 DEF merge, repo, Ours
    <3>5. op'.name = "merge" /\ (op'.clean <=> ~worktreeDirty)
      BY <2>2 DEF merge
    <3>6. QED BY <3>3, <3>4, <3>5 DEF Joining
  <2>3. CASE mergeBuilds
    <3>1. PICK s : s = [buildSnapshot(disk, disk["lock"]) EXCEPT !.tracked =
                          mergeTrackedSets(base.tracked, buildSnapshot(disk, disk["lock"]).tracked,
                                           branch[op.to].tracked)]
      OBVIOUS
    <3>2. /\ op.name = "merge" /\ Parses(disk)
          /\ op'.snapshot = s /\ op'.name = "merged" /\ op'.clean = op.clean
          /\ op'.to = op.to /\ op.to \in Branch
          /\ branch' = branch /\ head' = head /\ base' = base
      BY <2>3, <3>1 DEF mergeBuilds, repo, TypeOK, OpOK
    <3>3. SnapOK(s) /\ s.tracked = mergeTrackedSets(base.tracked, trackWorktree(disk, disk["lock"]),
                                                    branch[op.to].tracked)
      BY <3>1, <3>2, MergedFacts
    <3>4. ASSUME op.clean, NEW p \in Free
          PROVE  /\ Kept(s, base, p, branch[op.to], branch[head])
                 /\ Kept(s, base, p, branch[head], branch[op.to])
      <4>1. PICK w : w = trackWorktree(disk, disk["lock"])
        OBVIOUS
      <4>2. /\ p \in DOMAIN w <=> p \notin Rules(disk[Exclude]) /\ disk[p] # None
            /\ p \in DOMAIN w => w[p] = disk[p]
        BY <4>1, FreeTracked
      <4>3. Ours(disk)
        BY <3>2, <3>4 DEF Joining
      <4>4. /\ p \in DOMAIN w <=> p \in DOMAIN branch[head].tracked
            /\ p \in DOMAIN w => w[p] = branch[head].tracked[p]
        BY <4>2, <4>3 DEF Ours
      <4>5. SnapOK(branch[op.to]) /\ SnapOK(branch[head]) /\ SnapOK(base)
        BY <1>0, <3>2
      <4>6. s.tracked = mergeTrackedSets(base.tracked, w, branch[op.to].tracked)
        BY <3>3, <4>1
      <4>7. QED BY <3>3, <4>4, <4>5, <4>6, MergeKeeps
    <3>5. QED BY <3>2, <3>4 DEF Joining
  <2>4. QED BY <1>6, <2>1, <2>2, <2>3 DEF Begins
<1>7. QED BY <1>1, <1>3, <1>4, <1>5, <1>6, Kinds

-----------------------------------------------------------------------------
(* The theorems.                                                            *)

LEMMA InitInv == Init => Inv
<1> SUFFICES ASSUME Init PROVE Inv
  OBVIOUS
<1>1. TypeOK /\ \A b \in Branch : FreshSnapshot(branch[b])
  BY InitTypes
<1>2. op.name = "idle"
  BY DEF Init, Nothing
<1>3. QED BY <1>1, <1>2 DEF Inv, Fresh, Heading, Saving, Staying, Joining, Arriving

LEMMA InvStep == Inv /\ [Next]_vars => Inv'
  BY TypeStep, FreshStep, HeadingStep, SavingStep, StayingStep, JoiningStep DEF Inv

(* In every state the files, the snapshots, the operation under way and the
   writes it has left are what the code's types say, and the parts that the
   theorems below rest on hold. *)
THEOREM Invariance == Spec => []Inv
<1>1. Init => Inv
  BY InitInv
<1>2. Inv /\ [Next]_vars => Inv'
  BY InvStep
<1>3. QED BY <1>1, <1>2, PTL DEF Spec

(* A clean tree is HEAD's commit: what status compares (worktreeDirty, repo.ts)
   leaves out no file but those the rules or the last build take out of version
   control. *)
THEOREM CleanIsHead == Spec => []CleanMeansHead
<1>1. Inv => CleanMeansHead
  <2> SUFFICES ASSUME TypeOK, ~worktreeDirty, NEW p \in Path \ snapshotExclusion(disk, built)
               PROVE  \/ disk[p] = Recorded(branch[head], p)
                      \/ disk[p] = None /\ p \in DOMAIN branch[head].carried
                      \/ p \in buildOwnedPaths(disk["lock"]) \ DOMAIN branch[head].carried
    BY DEF Inv, CleanMeansHead
  <2>1. PICK s : s = branch[head]
    OBVIOUS
  <2>2. PICK t : t = trackWorktree(disk, disk["lock"])
    OBVIOUS
  <2>3. s.tracked = t /\ (p \in DOMAIN s.carried => disk[p] \in {None, s.carried[p]})
    BY <2>1, <2>2 DEF worktreeDirty, carriedBytesDiffer
  <2>4. /\ p \in DOMAIN t <=> p \notin snapshotExclusion(disk, disk["lock"]) /\ disk[p] # None
        /\ p \in DOMAIN t => t[p] = disk[p]
    BY <2>2, TrackFacts DEF TypeOK
  <2>5. p \in snapshotExclusion(disk, disk["lock"]) <=> p \in buildOwnedPaths(disk["lock"])
    BY DEF snapshotExclusion
  <2>6. Recorded(s, p) = IF p \in DOMAIN t THEN t[p]
                         ELSE IF p \in DOMAIN s.carried THEN s.carried[p] ELSE None
    BY <2>3 DEF Recorded
  <2>7. QED BY <2>1, <2>3, <2>4, <2>5, <2>6
<1>2. QED BY <1>1, Invariance, PTL

(* A commit records one manifest: the lock it has and the files it carries were
   made from that manifest, unless addItems or lock wrote within an operation
   (commit parses the lock first and reads its bytes again, repo.ts). *)
THEOREM CommitsFresh == Spec => []CommittedFresh
<1>1. Inv => CommittedFresh
  BY DEF Inv, Fresh, CommittedFresh
<1>2. QED BY <1>1, Invariance, PTL

(* What materializeSnapshot has written, when it is done, is the commit: what
   it lists is there and what only the last one listed is gone. *)
THEOREM CheckoutsArrive == Spec => []Arrives
<1>1. Inv => Arrives
  <2> SUFFICES ASSUME TypeOK, Heading, Arriving, todo = <<>>, ~raced
               PROVE  /\ disk["manifest"] = Incoming.manifest /\ disk["lock"] = Incoming.lock
                      /\ \A p \in Listed(Incoming) \ (DOMAIN Incoming.tracked
                                                        \cap targetExclusion(Incoming)) :
                            disk[p] = Recorded(Incoming, p)
                      /\ \A p \in Listed(branch[head]) \ Listed(Incoming) :
                            disk[p] = None \/ p \in op.spared \cup targetExclusion(Incoming)
    BY DEF Inv, Arrives
  <2>1. PICK s : s = Incoming
    OBVIOUS
  <2>2. PICK prev : prev = branch[head]
    OBVIOUS
  <2>3. SnapOK(s) /\ SnapOK(prev)
    BY <2>1, <2>2 DEF TypeOK, OpOK, Incoming, Arriving
  <2>4. PICK F : F = Wanted(s, prev, op.spared)
    OBVIOUS
  <2>5. Leads(todo, disk, F)
    BY <2>1, <2>2, <2>4 DEF Heading
  <2>6. \A f \in File : disk[f] \in F[f]
    BY <2>5, EmptyTodo DEF Leads, Untouched
  <2>7. F["manifest"] = {s.manifest} /\ F["lock"] = {s.lock}
        /\ "manifest" \in File /\ "lock" \in File
    BY <2>4, Slots DEF Wanted
  <2>8. ASSUME NEW p \in Listed(s) \ (DOMAIN s.tracked \cap targetExclusion(s))
        PROVE  disk[p] = Recorded(s, p)
    <3>1. p \in File /\ p # "manifest" /\ p # "lock"
      BY <2>3, SnapFacts, Slots
    <3>2. F[p] = {Recorded(s, p)}
      BY <2>4, <3>1 DEF Wanted
    <3>3. QED BY <2>6, <3>1, <3>2
  <2>9. ASSUME NEW p \in Listed(prev) \ Listed(s), p \notin op.spared \cup targetExclusion(s)
        PROVE  disk[p] = None
    <3>1. p \in File /\ p # "manifest" /\ p # "lock"
      BY <2>3, SnapFacts, Slots
    <3>2. F[p] = {None}
      BY <2>4, <2>9, <3>1 DEF Wanted
    <3>3. QED BY <2>6, <3>1, <3>2
  <2>10. QED BY <2>1, <2>2, <2>6, <2>7, <2>8, <2>9
<1>2. QED BY <1>1, Invariance, PTL

(* mergeTrackedSets takes an edit made on one side only, whichever side merges,
   and what the tree holds when it is asked is still ours. *)
THEOREM MergesKeepEdits == Spec => []MergeKeepsEdits
<1>1. Inv => MergeKeepsEdits
  BY DEF Inv, Joining, Free, Kept, Keeps, MergeKeepsEdits
<1>2. QED BY <1>1, Invariance, PTL

(* What a switch overwrites or removes, one of the two commits has, if the guard
   compared the file: it asks before the first write, and the writes put nothing
   else there.  Where the guard is skipped (switchTo, repo.ts), for no snapshot
   could be made of the tree, or does not look, the switch changes no file but
   the two slots and what one of the two commits lists. *)
THEOREM SwitchesLoseNothing == Spec => NothingUnsavedLost
<1>1. Inv /\ [Next]_vars =>
        [(op.name = "switch" /\ ~raced') =>
            \A f \in File : disk'[f] # disk[f] =>
                \/ disk[f] = None
                \/ Holds(branch[head], f, disk[f]) \/ Holds(branch[op.to], f, disk[f])
                \/ f \notin op.seen /\ f \in Lists(branch[head]) \cup Lists(branch[op.to])]_vars
  <2> SUFFICES ASSUME TypeOK, Saving, [Next]_vars, op.name = "switch", ~raced',
                      NEW f \in File, disk'[f] # disk[f]
               PROVE  \/ disk[f] = None
                      \/ Holds(branch[head], f, disk[f]) \/ Holds(branch[op.to], f, disk[f])
                      \/ f \notin op.seen /\ f \in Lists(branch[head]) \cup Lists(branch[op.to])
    BY DEF Inv
  <2>0. ~raced /\ ~Idle /\ TodoOK(todo) /\ DiskOK(disk)
    BY Kinds DEF TypeOK, Idle
  <2>1. CASE f \in op.seen
    <3>1. disk[f] \in Known(branch[head], branch[op.to])[f]
      BY <2>0, <2>1 DEF Saving
    <3>2. QED BY <3>1 DEF Known
  <2>2. CASE f \notin op.seen
    <3>1. PICK D : D = Lists(branch[head]) \cup Lists(branch[op.to])
      OBVIOUS
    <3>2. \A j \in DOMAIN todo : DOMAIN todo[j] \subseteq D
      BY <2>0, <3>1 DEF Saving
    <3>3. Goes
      <4>1. ~Rests /\ ~Races
        BY <2>0 DEF Rests, Races
      <4>2. ~Ends
        BY DEF Ends, commitRecords, switched, forwarded, merged, stop
      <4>3. ~Begins
        BY <2>0 DEF Begins, Idle, commitParses, mergeBuilds, switchTo, switchCompared,
             switchBlind, fastForward, merge
      <4>4. QED BY <4>1, <4>2, <4>3, Kinds
    <3>4. f \in D
      BY <2>0, <3>2, <3>3, TodoKept DEF Goes
    <3>5. QED BY <2>2, <3>1, <3>4
  <2>3. QED BY <2>1, <2>2
<1>2. QED BY <1>1, Invariance, PTL DEF NothingUnsavedLost, Spec

(* materializeSnapshot removes no file that the rules of the tree exclude: only
   what a build had placed there. *)
THEOREM IgnoredStays == Spec => IgnoredKept
<1>1. Inv /\ [Next]_vars =>
        [(Arriving /\ todo # <<>>) =>
            \A p \in op.spared : disk'[p] = None =>
                disk[p] = None \/ p \in DOMAIN branch[head].carried]_vars
  <2> SUFFICES ASSUME TypeOK, Staying, [Next]_vars, Arriving, todo # <<>>, NEW p \in op.spared,
                      disk'[p] = None
               PROVE  disk[p] = None \/ p \in DOMAIN branch[head].carried
    BY DEF Inv
  <2>0. p \in Path /\ p \in File /\ ~Idle
    BY Slots DEF TypeOK, OpOK, Arriving, Idle
  <2>1. CASE Rests
    BY <2>0, <2>1 DEF Rests
  <2>2. CASE Races
    BY <2>0, <2>2 DEF Races
  <2>3. CASE Goes
    <3>1. PICK F : F = Sparing(op.spared, branch[head].carried)
      OBVIOUS
    <3>2. Among(todo, F)
      BY <3>1 DEF Staying
    <3>3. disk'[p] = disk[p] \/ disk'[p] \in F[p]
      BY <2>0, <2>3, <3>2, AmongKept DEF Goes, TypeOK
    <3>4. p \notin DOMAIN branch[head].carried => None \notin F[p]
      BY <2>0, <3>1 DEF Sparing
    <3>5. QED BY <3>3, <3>4
  <2>4. CASE Ends
    BY <2>4 DEF Ends, Arriving, commitRecords, switched, forwarded, merged, stop
  <2>5. CASE Begins
    BY <2>0, <2>5 DEF Begins, Arriving, Idle, commitParses, mergeBuilds, switchTo, switchCompared,
         switchBlind, fastForward, merge
  <2>6. QED BY <2>1, <2>2, <2>3, <2>4, <2>5, Kinds
<1>2. QED BY <1>1, Invariance, PTL DEF IgnoredKept, Spec
=============================================================================
