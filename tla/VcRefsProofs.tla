---------------------------- MODULE VcRefsProofs ----------------------------
(***************************************************************************)
(* What the refs of an instance keep of its history, for any number of     *)
(* branches, commits, operations, crashes and collections.                 *)
(***************************************************************************)
EXTENDS VcRefs, FiniteSetTheorems, SequenceTheorems, TLAPS

CommitRecord == [gen : Nat, past : SUBSET Nat, line : Seq(Nat), replays : Nat]

WriteRecord ==
    [file : {"object"}, id : Commit, commit : CommitRecord]
    \cup [file : {"import"}, tip : Commit]
    \cup [file : {"ref"}, ref : Ref, value : Commit]
    \cup [file : {"log"}, ids : SUBSET Commit]
    \cup [file : {"HEAD"}, value : Heads \cup Commit]
    \cup [file : {"ORIG_HEAD", "MERGE_HEAD", "upstream"}, value : Commit \cup {None}]
    \cup [file : {"REBASE_STATE"}, value : RebaseState \cup {None}]

TypeOK ==
    /\ commits \in Seq(CommitRecord) /\ Len(commits) <= MaxCommits
    /\ stored \subseteq DOMAIN commits
    /\ HEAD \in Heads \cup Commit
    /\ refs \in [Ref -> Commit \cup {None}]
    /\ ORIG_HEAD \in Commit \cup {None} /\ MERGE_HEAD \in Commit \cup {None}
    /\ logs \subseteq Commit
    /\ REBASE_STATE \in RebaseState \cup {None}
    /\ upstream \in DOMAIN commits \cup {None}
    /\ pending \in Seq(WriteRecord)
    /\ replaying \in BOOLEAN
    /\ result \in Commit \cup {None} /\ reported \subseteq Commit

(* A commit's ancestors are older, lie within its past with all of theirs,  *)
(* and have smaller generations; its first-parent chain ascends in it.      *)
Sound(cs) ==
    \A c \in DOMAIN cs :
        /\ c \in cs[c].past /\ cs[c].past \subseteq 1..c
        /\ \A d \in cs[c].past : cs[d].past \subseteq cs[c].past
        /\ \A d \in cs[c].past \ {c} : cs[d].gen < cs[c].gen
        /\ \A i \in DOMAIN cs[c].line : cs[c].line[i] \in cs[c].past
        /\ \A i, j \in DOMAIN cs[c].line : i < j => cs[c].line[i] < cs[c].line[j]

(* The commits a ref may name: those that are here with all of their past.  *)
Good == {c \in DOMAIN commits : "orphan" \in Trouble \/ commits[c].past \subseteq stored}

Hashes(state) ==
    {state.onto, state.origHead, state.tip} \cup ToSet(state.todo) \cup ToSet(state.done)

(* A write may be made once the commits of `good` are good.                 *)
Allowed(w, good) ==
    /\ w.file = "object" => w.commit.past \ {w.id} \subseteq good
    /\ w.file = "import" => w.tip \in DOMAIN commits
    /\ w.file = "ref" => w.value \in good
    /\ w.file = "log" => w.ids \subseteq good
    /\ w.file = "HEAD" => w.value \in good \cup Heads
    /\ w.file \in {"ORIG_HEAD", "MERGE_HEAD"} => w.value \in good \cup {None}
    /\ w.file = "upstream" => w.value \in good
    /\ w.file = "REBASE_STATE" /\ w.value # None => Hashes(w.value) \subseteq good

(* What the writes before the k-th have made good.                          *)
Brought(q, k) ==
    {q[j].id : j \in {j \in 1..(k - 1) : q[j].file = "object"}}
    \cup {q[j].tip : j \in {j \in 1..(k - 1) : q[j].file = "import"}}

(* The list of writes makes each ref name what is there by then, and at     *)
(* most one commit.                                                         *)
InOrder(q) ==
    /\ \A k \in DOMAIN q : Allowed(q[k], Good \cup Brought(q, k))
    /\ \A k \in DOMAIN q : q[k].file = "object" =>
          /\ q[k].id = Fresh /\ Room /\ Sound(Append(commits, q[k].commit))
          /\ \A j \in DOMAIN q \ {k} : q[j].file # "object"

(* A rebase that runs has its state, or is about to write it.               *)
HasState(q) ==
    /\ REBASE_STATE # None \/ \E k \in DOMAIN q : q[k].file = "REBASE_STATE"
    /\ \A k \in DOMAIN q : q[k].file = "REBASE_STATE" => q[k].value # None

Inv ==
    /\ TypeOK
    /\ Sound(commits)
    /\ Seeds \subseteq Good
    /\ InOrder(pending)
    /\ replaying => HasState(pending)

-----------------------------------------------------------------------------
(* Commits.                                                                *)

(* The commit that is about to be made of some parents.                     *)
LEMMA MakeCommitSound ==
    ASSUME TypeOK, Sound(commits), NEW replays \in Nat, NEW parents,
           \/ parents = <<>>
           \/ \E p \in DOMAIN commits : parents = <<p>>
           \/ \E p, q \in DOMAIN commits : parents = <<p, q>>
    PROVE  /\ MakeCommit(parents, replays) \in CommitRecord
           /\ Sound(Append(commits, MakeCommit(parents, replays)))
           /\ MakeCommit(parents, replays).past \ {Fresh} = UNION {commits[p].past : p \in ToSet(parents)}
<1> DEFINE new == MakeCommit(parents, replays)
           first == IF parents = <<>> THEN <<>> ELSE commits[parents[1]].line
           cs == Append(commits, new)
<1>1. /\ ToSet(parents) \subseteq DOMAIN commits
      /\ parents # <<>> => parents[1] \in ToSet(parents)
      /\ parents = <<>> => ToSet(parents) = {}
  BY DEF ToSet
<1>2. Len(commits) \in Nat /\ Fresh = Len(commits) + 1 /\ DOMAIN commits = 1..Len(commits)
      /\ \A c \in DOMAIN commits : commits[c] \in CommitRecord
  BY DEF TypeOK, Fresh
<1>3. new.gen \in Nat /\ \A p \in ToSet(parents) : commits[p].gen < new.gen
  <2>1. CASE parents = <<>>
    BY <2>1, <1>1 DEF MakeCommit, nextGeneration
  <2>2. CASE parents # <<>>
    <3> DEFINE gens == {commits[p].gen : p \in ToSet(parents)}
    <3>1. \E m \in gens : \A g \in gens : m >= g
      <4>1. CASE \E p \in DOMAIN commits : parents = <<p>>
        <5>1. PICK p \in DOMAIN commits : parents = <<p>>
          BY <4>1
        <5>2. ToSet(parents) = {p}
          BY <5>1 DEF ToSet
        <5> QED
          BY <5>2, <1>2 DEF CommitRecord
      <4>2. CASE \E p, q \in DOMAIN commits : parents = <<p, q>>
        <5>1. PICK p \in DOMAIN commits, q \in DOMAIN commits : parents = <<p, q>>
          BY <4>2
        <5>2. ToSet(parents) = {p, q}
          BY <5>1 DEF ToSet
        <5>3. commits[p].gen \in Nat /\ commits[q].gen \in Nat
          BY <1>2 DEF CommitRecord
        <5>4. CASE commits[p].gen >= commits[q].gen
          BY <5>2, <5>3, <5>4
        <5>5. CASE commits[q].gen >= commits[p].gen
          <6>1. commits[q].gen \in gens /\ \A g \in gens : commits[q].gen >= g
            BY <5>2, <5>3, <5>5
          <6> QED
            BY <6>1
        <5> QED
          BY <5>3, <5>4, <5>5
      <4> QED
        BY <4>1, <4>2, <2>2
    <3>2. Max(gens) \in gens /\ \A g \in gens : Max(gens) >= g
      BY <3>1 DEF Max
    <3>3. gens \subseteq Nat
      BY <1>1, <1>2 DEF CommitRecord
    <3>4. new.gen = 1 + Max(gens)
      BY <2>2 DEF MakeCommit, nextGeneration
    <3>5. \A p \in ToSet(parents) : commits[p].gen \in gens
      OBVIOUS
    <3> DEFINE m == Max(gens)
    <3>6. new.gen = 1 + m /\ m \in Nat /\ \A p \in ToSet(parents) : m >= commits[p].gen
      <4> HIDE DEF new, gens
      <4> QED
        BY <3>2, <3>3, <3>4, <3>5
    <3>7. \A p \in ToSet(parents) : commits[p].gen \in Nat
      BY <3>3, <3>5
    <3> HIDE DEF new, m
    <3> QED
      BY <3>6, <3>7
  <2> QED
    BY <2>1, <2>2
<1>4. new.past = {Fresh} \cup UNION {commits[p].past : p \in ToSet(parents)}
      /\ new.line = first \o <<Fresh>> /\ new.replays = replays
  BY DEF MakeCommit
<1>5. /\ first \in Seq(Nat)
      /\ \A i \in DOMAIN first : \E p \in ToSet(parents) : first[i] \in commits[p].past
      /\ \A i, j \in DOMAIN first : i < j => first[i] < first[j]
  <2>1. CASE parents = <<>>
    BY <2>1
  <2>2. CASE parents # <<>>
    <3>1. parents[1] \in DOMAIN commits /\ first = commits[parents[1]].line
      BY <1>1, <2>2
    <3> HIDE DEF first
    <3>2. first \in Seq(Nat)
      BY <3>1, <1>2 DEF CommitRecord
    <3> QED
      BY <3>1, <3>2, <1>1, <2>2 DEF Sound
  <2> QED
    BY <2>1, <2>2
<1>6. \A p \in ToSet(parents) : commits[p].past \subseteq DOMAIN commits
  BY <1>1, <1>2 DEF Sound
<1>7. new \in CommitRecord
  <2>1. new = [gen |-> new.gen, past |-> new.past, line |-> new.line, replays |-> new.replays]
    BY DEF MakeCommit
  <2>2. new.past \subseteq Nat
    BY <1>4, <1>6, <1>2
  <2>3. new.line \in Seq(Nat)
    BY <1>4, <1>5, <1>2
  <2> HIDE DEF new
  <2> QED
    BY <2>1, <2>2, <2>3, <1>3, <1>4 DEF CommitRecord
<1>8. /\ DOMAIN cs = DOMAIN commits \cup {Fresh}
      /\ cs[Fresh] = new /\ \A c \in DOMAIN commits : cs[c] = commits[c]
      /\ Fresh \notin DOMAIN commits
  BY <1>2, <1>7 DEF TypeOK
<1> HIDE DEF new, cs, first
<1>9. new.past \ {Fresh} = UNION {commits[p].past : p \in ToSet(parents)}
  BY <1>4, <1>6, <1>8
<1>10. /\ DOMAIN new.line = 1..(Len(first) + 1)
       /\ new.line[Len(first) + 1] = Fresh
       /\ \A i \in 1..Len(first) : new.line[i] = first[i]
       /\ DOMAIN first = 1..Len(first) /\ Len(first) \in Nat
  BY <1>4, <1>5, <1>2
<1>11. \A i \in DOMAIN new.line : new.line[i] \in new.past
  BY <1>10, <1>5, <1>4
<1>12. \A i, j \in DOMAIN new.line : i < j => new.line[i] < new.line[j]
  <2> SUFFICES ASSUME NEW i \in 1..(Len(first) + 1), NEW j \in 1..(Len(first) + 1), i < j
               PROVE  new.line[i] < new.line[j]
    BY <1>10
  <2>1. i \in DOMAIN first /\ new.line[i] = first[i]
    BY <1>10
  <2>2. CASE j = Len(first) + 1
    <3>1. first[i] \in DOMAIN commits
      BY <2>1, <1>5, <1>6
    <3> QED
      BY <3>1, <2>1, <2>2, <1>10, <1>2
  <2>3. CASE j \in 1..Len(first)
    BY <2>1, <2>3, <1>5, <1>10
  <2> QED
    BY <2>2, <2>3, <1>10
<1>13. Sound(cs)
  <2>1. ASSUME NEW c \in DOMAIN commits
        PROVE  /\ c \in cs[c].past /\ cs[c].past \subseteq 1..c
               /\ \A d \in cs[c].past : d \in DOMAIN commits /\ cs[d].past \subseteq cs[c].past
               /\ \A d \in cs[c].past \ {c} : cs[d].gen < cs[c].gen
               /\ \A i \in DOMAIN cs[c].line : cs[c].line[i] \in cs[c].past
               /\ \A i, j \in DOMAIN cs[c].line : i < j => cs[c].line[i] < cs[c].line[j]
    <3>1. commits[c].past \subseteq DOMAIN commits
      BY <1>2 DEF Sound
    <3> QED
      BY <3>1, <1>8 DEF Sound
  <2>2. Fresh \in new.past /\ new.past \subseteq 1..Fresh
    BY <1>4, <1>6, <1>2
  <2>3. \A d \in new.past \ {Fresh} : d \in DOMAIN commits /\ cs[d].past \subseteq new.past
    <3> SUFFICES ASSUME NEW d \in new.past \ {Fresh}
                 PROVE  d \in DOMAIN commits /\ cs[d].past \subseteq new.past
      OBVIOUS
    <3>1. PICK p \in ToSet(parents) : d \in commits[p].past
      BY <1>9
    <3> QED
      BY <3>1, <1>1, <1>4, <1>6, <1>8 DEF Sound
  <2>4. \A d \in new.past \ {Fresh} : cs[d].gen < new.gen
    <3> SUFFICES ASSUME NEW d \in new.past \ {Fresh}
                 PROVE  cs[d].gen < new.gen
      OBVIOUS
    <3>1. PICK p \in ToSet(parents) : d \in commits[p].past
      BY <1>9
    <3>2. p \in DOMAIN commits /\ d \in DOMAIN commits /\ commits[p].gen \in Nat
          /\ commits[d].gen \in Nat
      BY <3>1, <1>1, <1>2, <1>6 DEF CommitRecord
    <3>3. d = p \/ commits[d].gen < commits[p].gen
      BY <3>1, <3>2 DEF Sound
    <3> QED
      BY <3>2, <3>3, <1>3, <1>8
  <2> QED
    BY <2>1, <2>2, <2>3, <2>4, <1>8, <1>11, <1>12 DEF Sound
<1> QED
  BY <1>7, <1>9, <1>13 DEF new, cs

-----------------------------------------------------------------------------
(* Lists of writes.                                                        *)

Fits(w, good) == w \in WriteRecord /\ w.file # "object" /\ Allowed(w, good)

LEMMA Forms ==
    ASSUME HEAD \in Heads \cup Commit, NEW good, good \subseteq Commit
    PROVE  /\ \A r \in Ref, v \in good : Fits(SetRef(r, v), good)
           /\ \A v \in good : Fits(Advance(v), good)
           /\ \A old, new \in good \cup {None} : Fits(Log(old, new), good)
           /\ \A v \in good \cup Heads : Fits(Set("HEAD", v), good)
           /\ \A v \in good \cup {None} : Fits(Set("ORIG_HEAD", v), good)
           /\ \A v \in good \cup {None} : Fits(Set("MERGE_HEAD", v), good)
           /\ \A v \in good : Fits(Set("upstream", v), good)
           /\ \A v \in RebaseState : Hashes(v) \subseteq good => Fits(SetState(v), good)
           /\ Fits(SetState(None), good)
<1>1. \A r \in Ref, v \in good : Fits(SetRef(r, v), good)
  BY DEF Fits, WriteRecord, Allowed, SetRef
<1>2. \A v \in good \cup Heads : Fits(Set("HEAD", v), good)
  BY DEF Fits, WriteRecord, Allowed, Set
<1>3. \A v \in good : Fits(Advance(v), good)
  BY <1>1, <1>2 DEF Advance, Ref
<1>4. \A old, new \in good \cup {None} : Fits(Log(old, new), good)
  BY DEF Fits, WriteRecord, Allowed, Log
<1>5. \A v \in good \cup {None} : Fits(Set("ORIG_HEAD", v), good) /\ Fits(Set("MERGE_HEAD", v), good)
  BY DEF Fits, WriteRecord, Allowed, Set
<1>6. \A v \in good : Fits(Set("upstream", v), good)
  BY DEF Fits, WriteRecord, Allowed, Set
<1>7. \A v \in RebaseState : Hashes(v) \subseteq good => Fits(SetState(v), good)
  BY DEF Fits, WriteRecord, Allowed, Set, SetState
<1>8. Fits(SetState(None), good)
  BY DEF Fits, WriteRecord, Allowed, Set, SetState
<1> QED
  BY <1>1, <1>2, <1>3, <1>4, <1>5, <1>6, <1>7, <1>8

LEMMA AllowedMore ==
    ASSUME NEW w, NEW good, NEW more, Allowed(w, good), good \subseteq more
    PROVE  Allowed(w, more)
BY DEF Allowed

LEMMA FitsIsWrite ==
    ASSUME NEW w, NEW good, Fits(w, good)
    PROVE  w \in WriteRecord /\ w.file # "object" /\ Allowed(w, good)
BY DEF Fits

(* Writes that depend on nothing that is not here.                          *)
LEMMA Plain ==
    ASSUME NEW q, \A k \in DOMAIN q : Fits(q[k], Good)
    PROVE  InOrder(q)
BY FitsIsWrite, AllowedMore DEF InOrder

(* Writes after those of a history.                                         *)
LEMMA Imports ==
    ASSUME NEW q, NEW tip \in DOMAIN commits, 1 \in DOMAIN q, DOMAIN q \subseteq Nat,
           q[1] = importHistory(tip),
           \A k \in DOMAIN q \ {1} : k > 1 /\ Fits(q[k], Good \cup {tip})
    PROVE  InOrder(q)
<1>1. Allowed(q[1], Good \cup Brought(q, 1)) /\ q[1].file = "import" /\ q[1].tip = tip
  BY DEF importHistory, Allowed
<1>2. ASSUME NEW k \in DOMAIN q \ {1}
      PROVE  Allowed(q[k], Good \cup Brought(q, k)) /\ q[k].file # "object"
  <2>1. tip \in Brought(q, k)
    BY <1>1 DEF Brought
  <2> QED
    BY <2>1, FitsIsWrite, AllowedMore
<1> QED
  BY <1>1, <1>2 DEF InOrder

(* Writes about a commit that is made by the n-th of them.                  *)
LEMMA Makes ==
    ASSUME NEW q, NEW n \in DOMAIN q, DOMAIN q \subseteq Nat \ {0}, NEW commit,
           q[n] = Put(commit), Room, Sound(Append(commits, commit)),
           commit.past \ {Fresh} \subseteq Good,
           \A k \in DOMAIN q \ {n} :
              Fits(q[k], Good) \/ (k > n /\ Fits(q[k], Good \cup {Fresh}))
    PROVE  InOrder(q)
<1>1. Allowed(q[n], Good) /\ q[n].file = "object" /\ q[n].id = Fresh /\ q[n].commit = commit
  BY DEF Put, Allowed
<1>2. ASSUME NEW k \in DOMAIN q \ {n}
      PROVE  Allowed(q[k], Good \cup Brought(q, k)) /\ q[k].file # "object"
  <2>1. CASE Fits(q[k], Good)
    BY <2>1, FitsIsWrite, AllowedMore
  <2>2. CASE k > n /\ Fits(q[k], Good \cup {Fresh})
    <3>1. Fresh \in Brought(q, k)
      BY <1>1, <2>2 DEF Brought
    <3> QED
      BY <3>1, <2>2, FitsIsWrite, AllowedMore
  <2> QED
    BY <1>2, <2>1, <2>2
<1>3. \A k \in DOMAIN q : Allowed(q[k], Good \cup Brought(q, k))
  BY <1>1, <1>2, AllowedMore
<1>4. \A k \in DOMAIN q : q[k].file = "object" => k = n
  BY <1>2
<1>5. \A j \in DOMAIN q \ {n} : q[j].file # "object"
  BY <1>2
<1> QED
  BY <1>1, <1>3, <1>4, <1>5 DEF InOrder

(* An operation that starts with such a list.                               *)
LEMMA Begins ==
    ASSUME Inv, NEW q \in Seq(WriteRecord), InOrder(q), pending' = q,
           UNCHANGED <<disk, reported>>,
           result' \in Commit \cup {None}, replaying' \in BOOLEAN, replaying' => HasState(q)
    PROVE  Inv'
<1>1. TypeOK'
  BY DEF Inv, TypeOK, disk
<1>2. Sound(commits)' /\ (Seeds \subseteq Good)'
  BY DEF Inv, disk, Sound, Good, Seeds, Value, resolveHead, allReflogHashes, rebaseStateHashes
<1>3. InOrder(pending)'
  <2>1. Good' = Good /\ Fresh' = Fresh /\ Room' = Room /\ commits' = commits
    BY DEF disk, Good, Fresh, Room
  <2>2. \A k \in DOMAIN q : Allowed(q[k], Good \cup Brought(q, k))'
    BY <2>1 DEF InOrder, Allowed, Brought
  <2> QED
    BY <2>1, <2>2 DEF InOrder
<1>4. (replaying => HasState(pending))'
  BY DEF disk, HasState
<1> QED
  BY <1>1, <1>2, <1>3, <1>4 DEF Inv

LEMMA Starts ==
    ASSUME Inv, NEW q \in Seq(WriteRecord), InOrder(q), NEW v \in Commit \cup {None}, Start(q, v)
    PROVE  Inv'
BY Begins DEF Start, Begin, Idle, Inv, TypeOK

LEMMA StartsReplay ==
    ASSUME Inv, NEW q \in Seq(WriteRecord), InOrder(q), HasState(q), StartReplay(q)
    PROVE  Inv'
BY Begins DEF StartReplay, Begin, Idle, Inv, TypeOK

-----------------------------------------------------------------------------
(* One write.                                                              *)

LEMMA FirstWrite ==
    ASSUME TypeOK, InOrder(pending), pending # <<>>
    PROVE  /\ Head(pending) \in WriteRecord /\ Head(pending) = pending[1] /\ 1 \in DOMAIN pending
           /\ Allowed(Head(pending), Good)
           /\ Tail(pending) \in Seq(WriteRecord)
           /\ \A k \in DOMAIN Tail(pending) :
                 /\ k \in Nat \ {0} /\ k + 1 \in DOMAIN pending
                 /\ Tail(pending)[k] = pending[k + 1]
           /\ \A k \in DOMAIN pending \ {1} :
                 /\ k - 1 \in DOMAIN Tail(pending)
                 /\ Tail(pending)[k - 1] = pending[k]
<1>1. /\ Head(pending) \in WriteRecord /\ Head(pending) = pending[1] /\ 1 \in DOMAIN pending
      /\ Tail(pending) \in Seq(WriteRecord)
      /\ \A k \in DOMAIN Tail(pending) :
            k \in Nat \ {0} /\ k + 1 \in DOMAIN pending /\ Tail(pending)[k] = pending[k + 1]
      /\ \A k \in DOMAIN pending \ {1} :
            k - 1 \in DOMAIN Tail(pending) /\ Tail(pending)[k - 1] = pending[k]
  BY DEF TypeOK
<1>2. Brought(pending, 1) = {}
  BY DEF Brought
<1>3. Allowed(pending[1], Good)
  BY <1>1, <1>2, AllowedMore DEF InOrder
<1> QED
  BY <1>1, <1>3

(* What the writes that are left may take for granted after the first.      *)
LEMMA BroughtBy ==
    ASSUME TypeOK, InOrder(pending), pending # <<>>, NEW k \in DOMAIN Tail(pending)
    PROVE  Brought(pending, k + 1) \subseteq
              Brought(Tail(pending), k)
              \cup {x \in {Head(pending).id} : Head(pending).file = "object"}
              \cup {x \in {Head(pending).tip} : Head(pending).file = "import"}
<1>1. ASSUME NEW j \in 1..((k + 1) - 1), j # 1
      PROVE  j - 1 \in 1..(k - 1) /\ Tail(pending)[j - 1] = pending[j]
  <2>1. k \in Nat \ {0} /\ k + 1 \in 1..Len(pending) /\ Len(pending) \in Nat
        /\ DOMAIN pending = 1..Len(pending)
    BY FirstWrite DEF TypeOK
  <2>2. j \in DOMAIN pending \ {1} /\ j - 1 \in 1..(k - 1)
    BY <2>1, <1>1
  <2> QED
    BY <2>2, FirstWrite
<1>2. k \in Nat \ {0} /\ Head(pending) = pending[1]
  BY FirstWrite
<1> SUFFICES ASSUME NEW j \in 1..((k + 1) - 1), NEW x,
                    \/ pending[j].file = "object" /\ x = pending[j].id
                    \/ pending[j].file = "import" /\ x = pending[j].tip
             PROVE  \/ x \in Brought(Tail(pending), k)
                    \/ x = Head(pending).id /\ Head(pending).file = "object"
                    \/ x = Head(pending).tip /\ Head(pending).file = "import"
  BY DEF Brought
<1>3. CASE j = 1
  BY <1>2, <1>3
<1>4. CASE j # 1
  BY <1>1, <1>4 DEF Brought
<1> QED
  BY <1>3, <1>4

(* The objects and the history that a write brings.                         *)
LEMMA WriteBrings ==
    ASSUME Inv, Write
    PROVE  /\ commits' \in Seq(CommitRecord) /\ Len(commits') <= MaxCommits
           /\ stored' \subseteq DOMAIN commits' /\ DOMAIN commits \subseteq DOMAIN commits'
           /\ \A c \in DOMAIN commits : commits'[c] = commits[c]
           /\ Sound(commits') /\ Good \subseteq Good'
           /\ Head(pending).file = "object" => Head(pending).id \in Good'
           /\ Head(pending).file # "object" => commits' = commits /\ stored' = stored
<1>1. /\ TypeOK /\ InOrder(pending) /\ pending # <<>>
      /\ Head(pending) \in WriteRecord /\ Allowed(Head(pending), Good)
      /\ Head(pending) = pending[1] /\ 1 \in DOMAIN pending
  BY FirstWrite DEF Inv, Write
<1>2. CASE Head(pending).file # "object"
  <2>1. commits' = commits /\ stored' = stored
    BY <1>2 DEF Write, Effect
  <2> QED
    BY <2>1, <1>2 DEF Inv, TypeOK, Good
<1>3. CASE Head(pending).file = "object"
  <2> DEFINE w == Head(pending)
  <2>1. /\ w.id = Fresh /\ Room /\ Sound(Append(commits, w.commit))
        /\ w.commit \in CommitRecord /\ w.commit.past \ {Fresh} \subseteq Good
    BY <1>1, <1>3 DEF InOrder, WriteRecord, Allowed
  <2>2. commits' = Append(commits, w.commit) /\ stored' = stored \cup {w.id}
    BY <1>3 DEF Write, Effect
  <2>3. /\ commits' \in Seq(CommitRecord) /\ Len(commits') = Fresh /\ Fresh = Len(commits) + 1
        /\ \A c \in DOMAIN commits : commits'[c] = commits[c]
        /\ commits'[Fresh] = w.commit
        /\ DOMAIN commits' = DOMAIN commits \cup {Fresh}
        /\ Fresh <= MaxCommits
    BY <1>1, <2>1, <2>2, VcAssumption DEF TypeOK, Fresh, Room
  <2>4. Good \subseteq Good'
    BY <2>2, <2>3 DEF Good
  <2>5. w.commit.past \subseteq stored' \/ "orphan" \in Trouble
    <3>1. ASSUME NEW d \in Good, "orphan" \notin Trouble PROVE d \in stored
      BY <3>1 DEF Good, Inv, Sound
    <3> QED
      BY <3>1, <2>1, <2>2
  <2>6. w.id \in Good'
    BY <2>1, <2>3, <2>5 DEF Good
  <2> QED
    BY <1>1, <1>3, <2>1, <2>2, <2>3, <2>4, <2>6 DEF TypeOK
<1> QED
  BY <1>2, <1>3

LEMMA WriteType == ASSUME Inv, Write PROVE TypeOK'
<1> DEFINE w == Head(pending)
<1>1. /\ w \in WriteRecord /\ Tail(pending) \in Seq(WriteRecord) /\ Allowed(w, Good)
  BY FirstWrite DEF Inv, Write
<1>2. /\ commits' \in Seq(CommitRecord) /\ Len(commits') <= MaxCommits
      /\ stored' \subseteq DOMAIN commits' /\ DOMAIN commits \subseteq DOMAIN commits'
  BY WriteBrings
<1>3. w.file = "ref" => w.ref \in Ref /\ w.value \in Commit
  BY <1>1 DEF WriteRecord
<1>4. refs' \in [Ref -> Commit \cup {None}]
  BY <1>3 DEF Write, Effect, Inv, TypeOK
<1>5. w.file = "HEAD" => w.value \in Heads \cup Commit
  BY <1>1 DEF WriteRecord
<1>6. w.file \in {"ORIG_HEAD", "MERGE_HEAD"} => w.value \in Commit \cup {None}
  BY <1>1 DEF WriteRecord
<1>7. w.file = "REBASE_STATE" => w.value \in RebaseState \cup {None}
  BY <1>1 DEF WriteRecord
<1>8. w.file = "log" => w.ids \subseteq Commit
  BY <1>1 DEF WriteRecord
<1>9. w.file = "upstream" => w.value \in DOMAIN commits
  BY <1>1 DEF Allowed, Good
<1>10. /\ HEAD' \in Heads \cup Commit
       /\ ORIG_HEAD' \in Commit \cup {None} /\ MERGE_HEAD' \in Commit \cup {None}
       /\ REBASE_STATE' \in RebaseState \cup {None}
  BY <1>5, <1>6, <1>7 DEF Write, Effect, Register, Inv, TypeOK
<1>11. logs' \subseteq Commit /\ upstream' \in DOMAIN commits' \cup {None}
  BY <1>2, <1>8, <1>9 DEF Write, Effect, Register, Inv, TypeOK
<1> QED
  BY <1>1, <1>2, <1>4, <1>10, <1>11 DEF Write, Inv, TypeOK

(* The seeds, one kind after the other.                                     *)
LEMMA SeedKinds ==
    ASSUME NEW good, Seeds \subseteq good
    PROVE  /\ \A r \in Ref : refs[r] # None => refs[r] \in good
           /\ resolveHead # None => resolveHead \in good
           /\ ORIG_HEAD # None => ORIG_HEAD \in good
           /\ MERGE_HEAD # None => MERGE_HEAD \in good
           /\ logs \subseteq good
           /\ REBASE_STATE # None => Hashes(REBASE_STATE) \subseteq good
<1>1. ASSUME NEW x \in Seeds PROVE x \in good
  OBVIOUS
<1>2. ASSUME NEW r \in Ref, refs[r] # None PROVE refs[r] \in Seeds
  BY <1>2 DEF Seeds, Value
<1>3. REBASE_STATE # None => Hashes(REBASE_STATE) \subseteq Seeds
  BY DEF Seeds, rebaseStateHashes, Hashes
<1>4. /\ resolveHead # None => resolveHead \in Seeds
      /\ ORIG_HEAD # None => ORIG_HEAD \in Seeds
      /\ MERGE_HEAD # None => MERGE_HEAD \in Seeds
      /\ logs \subseteq Seeds
  BY DEF Seeds, allReflogHashes
<1> HIDE DEF Seeds
<1> QED
  BY <1>1, <1>2, <1>3, <1>4

LEMMA WriteSeeds == ASSUME Inv, Write PROVE Seeds' \subseteq Good'
<1> DEFINE w == Head(pending)
<1>1. w \in WriteRecord /\ Allowed(w, Good)
  BY FirstWrite DEF Inv, Write
<1>2. Good \subseteq Good' /\ \A x \in Good : x \in Good'
  BY WriteBrings
<1>3. /\ \A r \in Ref : refs[r] # None => refs[r] \in Good
      /\ resolveHead # None => resolveHead \in Good
      /\ ORIG_HEAD # None => ORIG_HEAD \in Good
      /\ MERGE_HEAD # None => MERGE_HEAD \in Good
      /\ logs \subseteq Good
      /\ REBASE_STATE # None => Hashes(REBASE_STATE) \subseteq Good
  BY SeedKinds DEF Inv
<1>4. ASSUME NEW r \in Ref, refs'[r] # None PROVE refs'[r] \in Good'
  <2>1. refs \in [Ref -> Commit \cup {None}]
    BY DEF Inv, TypeOK
  <2>2. refs' = IF w.file = "ref" THEN [refs EXCEPT ![w.ref] = w.value] ELSE refs
    BY DEF Write, Effect
  <2>3. refs'[r] = refs[r] \/ (w.file = "ref" /\ refs'[r] = w.value)
    <3>1. CASE w.file = "ref" /\ w.ref = r
      BY <2>1, <2>2, <3>1
    <3>2. CASE ~(w.file = "ref" /\ w.ref = r)
      BY <2>1, <2>2, <3>2
    <3> QED
      BY <3>1, <3>2
  <2>4. w.file = "ref" => w.value \in Good
    BY <1>1 DEF Allowed
  <2> QED
    BY <1>2, <1>3, <1>4, <2>3, <2>4
<1>5. HEAD' = HEAD \/ HEAD' \in Good \cup Heads
  BY <1>1 DEF Write, Effect, Register, Allowed
<1>6. ASSUME resolveHead' # None PROVE resolveHead' \in Good'
  <2>1. CASE HEAD' \in Heads
    <3>1. resolveHead' = refs'[HEAD'] /\ HEAD' \in Ref
      BY <2>1 DEF resolveHead, Ref
    <3> QED
      BY <3>1, <1>4, <1>6
  <2>2. CASE HEAD' \notin Heads
    <3>1. resolveHead' = HEAD'
      BY <2>2 DEF resolveHead
    <3>2. HEAD' = HEAD => resolveHead = HEAD
      BY <2>2 DEF resolveHead
    <3> QED
      BY <3>1, <3>2, <2>2, <1>2, <1>3, <1>5, <1>6
  <2> QED
    BY <2>1, <2>2
<1>7. ASSUME ORIG_HEAD' # None PROVE ORIG_HEAD' \in Good'
  <2>1. ORIG_HEAD' = ORIG_HEAD \/ (w.file = "ORIG_HEAD" /\ ORIG_HEAD' = w.value)
    <3>1. ORIG_HEAD' = Register(w, "ORIG_HEAD", ORIG_HEAD)
      BY DEF Write, Effect
    <3> QED
      BY <3>1 DEF Register
  <2>2. w.file = "ORIG_HEAD" => w.value \in Good \cup {None}
    BY <1>1 DEF Allowed
  <2> QED
    BY <2>1, <2>2, <1>2, <1>3, <1>7
<1>8. ASSUME MERGE_HEAD' # None PROVE MERGE_HEAD' \in Good'
  <2>1. MERGE_HEAD' = MERGE_HEAD \/ (w.file = "MERGE_HEAD" /\ MERGE_HEAD' = w.value)
    <3>1. MERGE_HEAD' = Register(w, "MERGE_HEAD", MERGE_HEAD)
      BY DEF Write, Effect
    <3> QED
      BY <3>1 DEF Register
  <2>2. w.file = "MERGE_HEAD" => w.value \in Good \cup {None}
    BY <1>1 DEF Allowed
  <2> QED
    BY <2>1, <2>2, <1>2, <1>3, <1>8
<1>9. ASSUME NEW x \in logs' PROVE x \in Good'
  <2>1. logs' = IF w.file = "log" THEN logs \cup w.ids ELSE logs
    BY DEF Write, Effect
  <2>2. w.file = "log" => w.ids \subseteq Good
    BY <1>1 DEF Allowed
  <2> QED
    BY <2>1, <2>2, <1>2, <1>3
<1>10. ASSUME NEW x \in rebaseStateHashes' PROVE x \in Good'
  <2>1. REBASE_STATE' = REBASE_STATE \/ (w.file = "REBASE_STATE" /\ REBASE_STATE' = w.value)
    <3>1. REBASE_STATE' = Register(w, "REBASE_STATE", REBASE_STATE)
      BY DEF Write, Effect
    <3> QED
      BY <3>1 DEF Register
  <2>2. w.file = "REBASE_STATE" /\ w.value # None => Hashes(w.value) \subseteq Good
    BY <1>1 DEF Allowed
  <2>3. REBASE_STATE' # None /\ x \in Hashes(REBASE_STATE')
    BY DEF rebaseStateHashes, Hashes
  <2> HIDE DEF w
  <2> QED
    BY <2>1, <2>2, <2>3, <1>2, <1>3
<1>11. ASSUME NEW x \in Seeds'
       PROVE  \/ \E r \in Ref : x \in Value(r)'
              \/ x # None /\ (x = resolveHead' \/ x = ORIG_HEAD' \/ x = MERGE_HEAD')
              \/ x \in logs'
              \/ x \in rebaseStateHashes'
  BY DEF Seeds, allReflogHashes
<1>12. ASSUME NEW r \in Ref, NEW x \in Value(r)' PROVE x \in Good'
  BY <1>4 DEF Value
<1> QED
  BY <1>6, <1>7, <1>8, <1>9, <1>10, <1>11, <1>12

LEMMA WriteOrder == ASSUME Inv, Write PROVE InOrder(pending)'
<1> DEFINE w == Head(pending)  rest == Tail(pending)
<1>1. /\ w \in WriteRecord /\ Good \subseteq Good' /\ pending' = rest
      /\ TypeOK /\ InOrder(pending) /\ pending # <<>> /\ w.file # "import"
      /\ \A k \in DOMAIN rest : /\ k \in Nat \ {0} /\ k + 1 \in DOMAIN pending
                                /\ rest[k] = pending[k + 1]
      /\ DOMAIN commits \subseteq DOMAIN commits'
      /\ w = pending[1] /\ 1 \in DOMAIN pending
  BY FirstWrite, WriteBrings DEF Inv, Write
<1>2. ASSUME NEW k \in DOMAIN pending' PROVE Allowed(pending[k], Good \cup Brought(pending, k))'
  <2>1. Allowed(rest[k], Good \cup Brought(pending, k + 1))
    BY <1>1 DEF InOrder
  <2>2. Brought(pending, k + 1) \subseteq Brought(rest, k) \cup Good'
    BY <1>1, BroughtBy, WriteBrings
  <2>3. Allowed(pending'[k], Good' \cup Brought(pending', k))
    BY <1>1, <2>1, <2>2, AllowedMore
  <2> QED
    BY <1>1, <2>3 DEF Allowed
<1>3. ASSUME NEW k \in DOMAIN pending', pending'[k].file = "object"
      PROVE  (/\ pending[k].id = Fresh /\ Room /\ Sound(Append(commits, pending[k].commit))
              /\ \A j \in DOMAIN pending \ {k} : pending[j].file # "object")'
  <2>1. pending[k + 1].file = "object" /\ k + 1 # 1 /\ k + 1 \in DOMAIN pending
    BY <1>1, <1>3
  <2>2. w.file # "object"
    BY <1>1, <2>1 DEF InOrder
  <2>3. commits' = commits
    BY <2>2, WriteBrings
  <2>4. \A j \in DOMAIN pending' \ {k} : j + 1 # k + 1 /\ j + 1 \in DOMAIN pending
                                        /\ pending'[j] = pending[j + 1]
    BY <1>1
  <2> QED
    BY <1>1, <2>1, <2>3, <2>4 DEF InOrder, Fresh, Room
<1> QED
  BY <1>2, <1>3 DEF InOrder

LEMMA WriteKeeps == ASSUME Inv, Write PROVE Inv'
<1>1. replaying' => HasState(pending)'
  <2> SUFFICES ASSUME replaying PROVE HasState(pending)'
    BY DEF Write
  <2>1. /\ Head(pending) = pending[1] /\ 1 \in DOMAIN pending /\ pending' = Tail(pending)
        /\ \A k \in DOMAIN Tail(pending) :
              k + 1 \in DOMAIN pending /\ Tail(pending)[k] = pending[k + 1]
        /\ \A k \in DOMAIN pending \ {1} :
              k - 1 \in DOMAIN Tail(pending) /\ Tail(pending)[k - 1] = pending[k]
    BY FirstWrite DEF Inv, Write
  <2>2. /\ REBASE_STATE # None \/ \E k \in DOMAIN pending : pending[k].file = "REBASE_STATE"
        /\ \A k \in DOMAIN pending : pending[k].file = "REBASE_STATE" => pending[k].value # None
    BY DEF Inv, HasState
  <2>3. REBASE_STATE' = Register(Head(pending), "REBASE_STATE", REBASE_STATE)
    BY DEF Write, Effect
  <2> QED
    BY <2>1, <2>2, <2>3 DEF HasState, Register
<1> QED
  BY <1>1, WriteType, WriteBrings, WriteSeeds, WriteOrder DEF Inv

-----------------------------------------------------------------------------
(* What the operations find.                                               *)

LEMMA GoodCommits ==
    ASSUME Inv
    PROVE  /\ Good \subseteq DOMAIN commits /\ DOMAIN commits \subseteq Commit
           /\ \A c \in Good : commits[c].past \subseteq Good
           /\ None \notin Commit
<1>1. None \notin Commit
  BY VcAssumption
<1>2. DOMAIN commits \subseteq Commit
  BY VcAssumption DEF Inv, TypeOK, Commit
<1>3. ASSUME NEW c \in Good, NEW d \in commits[c].past PROVE d \in Good
  <2>1. c \in DOMAIN commits /\ d \in 1..c /\ commits[d].past \subseteq commits[c].past
    BY <1>3 DEF Good, Inv, Sound
  <2>2. d \in DOMAIN commits
    BY <2>1 DEF Inv, TypeOK
  <2> QED
    BY <1>3, <2>1, <2>2 DEF Good
<1> QED
  BY <1>1, <1>2, <1>3 DEF Good

LEMMA Found ==
    ASSUME Inv
    PROVE  /\ HEAD \in Heads \cup Commit
           /\ \A r \in Ref : refs[r] \in Good \cup {None}
           /\ resolveHead \in Good \cup {None}
           /\ ORIG_HEAD \in Good \cup {None}
           /\ upstream # None => upstream \in DOMAIN commits
           /\ REBASE_STATE # None =>
                 REBASE_STATE \in RebaseState /\ Hashes(REBASE_STATE) \subseteq Good
BY SeedKinds DEF Inv, TypeOK

(* A commit that an operation makes of commits that are here.               *)
LEMMA Recorded ==
    ASSUME Inv, Room, NEW replays \in Nat, NEW parents,
           \/ parents = <<>>
           \/ \E p \in Good : parents = <<p>>
           \/ \E p, q \in Good : parents = <<p, q>>
    PROVE  /\ Put(MakeCommit(parents, replays)) \in WriteRecord
           /\ Sound(Append(commits, MakeCommit(parents, replays)))
           /\ MakeCommit(parents, replays).past \ {Fresh} \subseteq Good
           /\ Fresh \in Commit /\ Fresh \in Nat /\ Good \cup {Fresh} \subseteq Commit
<1> DEFINE new == MakeCommit(parents, replays)
<1>1. /\ new \in CommitRecord /\ Sound(Append(commits, new))
      /\ new.past \ {Fresh} = UNION {commits[p].past : p \in ToSet(parents)}
  BY MakeCommitSound, GoodCommits DEF Inv
<1>2. ToSet(parents) \subseteq Good
  BY DEF ToSet
<1>3. Fresh \in Commit /\ Fresh \in Nat
  BY VcAssumption DEF Inv, TypeOK, Fresh, Room, Commit
<1> HIDE DEF new
<1>4. Put(new) \in WriteRecord
  BY <1>1, <1>3 DEF Put, WriteRecord
<1>5. new.past \ {Fresh} \subseteq Good
  BY <1>1, <1>2, GoodCommits
<1> QED
  BY <1>1, <1>3, <1>4, <1>5, GoodCommits DEF new

-----------------------------------------------------------------------------
(* The operations.                                                         *)

LEMMA RecordCommitKeeps == ASSUME Inv, RecordCommit PROVE Inv'
<1> DEFINE head == resolveHead
           new == MakeCommit(Parents(head), Fresh)
           q == <<Put(new), Advance(Fresh), Log(head, Fresh)>>
<1>1. /\ Put(new) \in WriteRecord /\ Sound(Append(commits, new))
      /\ new.past \ {Fresh} \subseteq Good
      /\ Fresh \in Commit /\ Good \cup {Fresh} \subseteq Commit /\ Room
  <2>1. Fresh \in Nat
    BY DEF Inv, TypeOK, Fresh
  <2>2. Parents(head) = <<>> \/ \E p \in Good : Parents(head) = <<p>>
    BY Found DEF Parents
  <2> QED
    BY <2>1, <2>2, Recorded DEF RecordCommit
<1>2. Start(q, Fresh)
  BY DEF RecordCommit
<1> HIDE DEF new
<1>3. Fits(Advance(Fresh), Good \cup {Fresh}) /\ Fits(Log(head, Fresh), Good \cup {Fresh})
  BY <1>1, Found, Forms
<1>4. q \in Seq(WriteRecord)
  BY <1>1, <1>3, FitsIsWrite
<1>5. InOrder(q)
  <2>1. \A k \in DOMAIN q \ {1} : k > 1 /\ Fits(q[k], Good \cup {Fresh})
    BY <1>3
  <2>2. q[1] = Put(new) /\ 1 \in DOMAIN q /\ DOMAIN q \subseteq Nat \ {0}
    OBVIOUS
  <2> QED
    BY <1>1, <2>1, <2>2, Makes
<1> QED
  BY <1>1, <1>2, <1>4, <1>5, Starts

LEMMA RevertKeeps == ASSUME Inv, Revert PROVE Inv'
<1> DEFINE head == resolveHead
           new == MakeCommit(<<head>>, Fresh)
           q == <<Put(new), Advance(Fresh), Log(head, Fresh), Set("ORIG_HEAD", head)>>
<1>1. /\ Put(new) \in WriteRecord /\ Sound(Append(commits, new))
      /\ new.past \ {Fresh} \subseteq Good
      /\ Fresh \in Commit /\ Good \cup {Fresh} \subseteq Commit /\ Room
  <2>1. Fresh \in Nat
    BY DEF Inv, TypeOK, Fresh
  <2> QED
    BY <2>1, Found, Recorded DEF Revert
<1>2. Start(q, Fresh)
  BY DEF Revert
<1> HIDE DEF new
<1>3. /\ Fits(Advance(Fresh), Good \cup {Fresh}) /\ Fits(Log(head, Fresh), Good \cup {Fresh})
      /\ Fits(Set("ORIG_HEAD", head), Good \cup {Fresh})
  BY <1>1, Found, Forms
<1>4. q \in Seq(WriteRecord)
  BY <1>1, <1>3, FitsIsWrite
<1>5. InOrder(q)
  <2>1. \A k \in DOMAIN q \ {1} : k > 1 /\ Fits(q[k], Good \cup {Fresh})
    BY <1>3
  <2>2. q[1] = Put(new) /\ 1 \in DOMAIN q /\ DOMAIN q \subseteq Nat \ {0}
    OBVIOUS
  <2> QED
    BY <1>1, <2>1, <2>2, Makes
<1> QED
  BY <1>1, <1>2, <1>4, <1>5, Starts

LEMMA MergeFastForwardKeeps ==
    ASSUME Inv, NEW ref \in Ref, MergeFastForward(ref) PROVE Inv'
<1> DEFINE ours == resolveHead  theirs == refs[ref]
           q == <<Set("ORIG_HEAD", ours), Advance(theirs), Log(ours, theirs)>>
<1>1. ours \in Good /\ theirs \in Good /\ theirs \in Commit /\ Start(q, theirs)
  BY Found, GoodCommits DEF MergeFastForward
<1>2. /\ Fits(Set("ORIG_HEAD", ours), Good) /\ Fits(Advance(theirs), Good)
      /\ Fits(Log(ours, theirs), Good)
  BY <1>1, Found, GoodCommits, Forms
<1>3. q \in Seq(WriteRecord)
  BY <1>2, FitsIsWrite
<1>4. InOrder(q)
  BY <1>2, Plain
<1> QED
  BY <1>1, <1>3, <1>4, Starts

LEMMA Merge3WayKeeps == ASSUME Inv, NEW ref \in Ref, Merge3Way(ref) PROVE Inv'
<1> DEFINE ours == resolveHead  theirs == refs[ref]
           new == MakeCommit(<<ours, theirs>>, Fresh)
           conflict == <<Set("MERGE_HEAD", theirs), Set("MERGE_HEAD", None)>>
           clean == <<Set("MERGE_HEAD", theirs), Put(new), Advance(Fresh), Log(ours, Fresh),
                      Set("ORIG_HEAD", ours), Set("MERGE_HEAD", None)>>
<1>1. ours \in Good /\ theirs \in Good
  BY Found DEF Merge3Way
<1>2. Start(conflict, None) \/ (Room /\ Start(clean, Fresh))
  BY DEF Merge3Way
<1>3. Fits(Set("MERGE_HEAD", theirs), Good) /\ Fits(Set("MERGE_HEAD", None), Good)
  BY <1>1, Found, GoodCommits, Forms
<1>4. CASE Start(conflict, None)
  <2>1. conflict \in Seq(WriteRecord)
    BY <1>3, FitsIsWrite
  <2>2. InOrder(conflict)
    BY <1>3, Plain
  <2> QED
    BY <1>4, <2>1, <2>2, Starts
<1>5. CASE Room /\ Start(clean, Fresh)
  <2>1. /\ Put(new) \in WriteRecord /\ Sound(Append(commits, new))
        /\ new.past \ {Fresh} \subseteq Good
        /\ Fresh \in Commit /\ Good \cup {Fresh} \subseteq Commit /\ Room
    <3>1. Fresh \in Nat
      BY DEF Inv, TypeOK, Fresh
    <3> QED
      BY <1>1, <1>5, <3>1, Recorded
  <2> HIDE DEF new
  <2>2. /\ Fits(Advance(Fresh), Good \cup {Fresh}) /\ Fits(Log(ours, Fresh), Good \cup {Fresh})
        /\ Fits(Set("ORIG_HEAD", ours), Good \cup {Fresh})
        /\ Fits(Set("MERGE_HEAD", None), Good \cup {Fresh})
    BY <1>1, <2>1, Found, Forms
  <2>3. clean \in Seq(WriteRecord)
    BY <1>3, <2>1, <2>2, FitsIsWrite
  <2>4. InOrder(clean)
    <3> DEFINE put == Put(new)
    <3>1. \A k \in DOMAIN clean \ {2} :
             Fits(clean[k], Good) \/ (k > 2 /\ Fits(clean[k], Good \cup {Fresh}))
      <4> HIDE DEF put
      <4> QED
        BY <1>3, <2>2
    <3> QED
      BY <2>1, <3>1, Makes
  <2> QED
    BY <1>5, <2>1, <2>3, <2>4, Starts
<1> QED
  BY <1>2, <1>4, <1>5

LEMMA MoveKeeps == ASSUME Inv, Move PROVE Inv'
<1>1. ASSUME NEW b \in Branch, CreateBranch(b) PROVE Inv'
  <2> DEFINE q == <<SetRef(b, resolveHead), Log(None, resolveHead)>>
  <2>1. resolveHead \in Good /\ b \in Ref /\ Start(q, None)
    BY <1>1, Found DEF CreateBranch, Ref, Heads
  <2>2. Fits(SetRef(b, resolveHead), Good) /\ Fits(Log(None, resolveHead), Good)
    BY <2>1, Found, GoodCommits, Forms
  <2>3. q \in Seq(WriteRecord) /\ InOrder(q)
    BY <2>2, FitsIsWrite, Plain
  <2> QED
    BY <2>1, <2>3, Starts
<1>2. ASSUME NEW b \in Heads, SwitchToBranch(b) PROVE Inv'
  <2> DEFINE q == <<Set("HEAD", b), Log(resolveHead, refs[b])>>
  <2>1. refs[b] \in Good /\ Start(q, None)
    BY <1>2, Found DEF SwitchToBranch, Ref
  <2>2. Fits(Set("HEAD", b), Good) /\ Fits(Log(resolveHead, refs[b]), Good)
    BY <2>1, Found, GoodCommits, Forms
  <2>3. q \in Seq(WriteRecord) /\ InOrder(q)
    BY <2>2, FitsIsWrite, Plain
  <2> QED
    BY <2>1, <2>3, Starts
<1>3. ASSUME NEW c \in Commit, SwitchToCommit(c) PROVE Inv'
  <2> DEFINE q == <<Set("HEAD", c), Log(resolveHead, c)>>
  <2>1. c \in stored /\ Start(q, None) /\ (c \in History(Seeds) \/ "orphan" \in Trouble)
    BY <1>3 DEF SwitchToCommit
  <2>2. c \in Good
    <3>1. c \in DOMAIN commits
      BY <2>1 DEF Inv, TypeOK
    <3>2. CASE c \in History(Seeds)
      <4>1. PICK d \in Good : c \in commits[d].past
        BY <3>2 DEF History, Inv
      <4> QED
        BY <4>1, GoodCommits
    <3>3. CASE "orphan" \in Trouble
      BY <3>1, <3>3 DEF Good
    <3> QED
      BY <2>1, <3>2, <3>3
  <2>3. Fits(Set("HEAD", c), Good) /\ Fits(Log(resolveHead, c), Good)
    BY <2>2, Found, GoodCommits, Forms
  <2>4. q \in Seq(WriteRecord) /\ InOrder(q)
    BY <2>3, FitsIsWrite, Plain
  <2> QED
    BY <2>1, <2>4, Starts
<1> QED
  BY <1>1, <1>2, <1>3 DEF Move

-----------------------------------------------------------------------------
(* Rebase.                                                                 *)

LEMMA EndOf ==
    ASSUME NEW S, NEW s \in Seq(S), NEW n \in Nat
    PROVE  /\ SubSeq(s, 1 + n, Len(s)) \in Seq(S)
           /\ \A i \in DOMAIN SubSeq(s, 1 + n, Len(s)) :
                 n + i \in DOMAIN s /\ SubSeq(s, 1 + n, Len(s))[i] = s[n + i]
<1>1. CASE 1 + n \in 1..(Len(s) + 1)
  BY <1>1, SubSeqProperties
<1>2. CASE 1 + n > Len(s)
  BY <1>2
<1> QED
  BY <1>1, <1>2

(* The commits to replay are the end of the first-parent chain.             *)
LEMMA ToReplay ==
    ASSUME Inv, NEW ours \in DOMAIN commits, NEW onto \in DOMAIN commits
    PROVE  /\ commitsToReplay(ours, onto) \in Seq(Nat)
           /\ \E n \in Nat : \A i \in DOMAIN commitsToReplay(ours, onto) :
                 /\ n + i \in DOMAIN commits[ours].line
                 /\ commitsToReplay(ours, onto)[i] = commits[ours].line[n + i]
           /\ ToSet(commitsToReplay(ours, onto)) \subseteq commits[ours].past
<1> DEFINE line == commits[ours].line
           known == {i \in DOMAIN line : line[i] \in commits[onto].past}
           n == Cardinality(known)
           plan == SubSeq(line, 1 + n, Len(line))
<1>1. line \in Seq(Nat) /\ \A i \in DOMAIN line : line[i] \in commits[ours].past
  <2>1. commits[ours] \in CommitRecord
    BY DEF Inv, TypeOK
  <2>2. line \in Seq(Nat)
    BY <2>1 DEF CommitRecord
  <2> QED
    BY <2>2 DEF Inv, Sound
<1> HIDE DEF line
<1>2. Len(line) \in Nat /\ DOMAIN line = 1..Len(line)
  BY <1>1
<1>3. n \in Nat
  <2>1. IsFiniteSet(1..Len(line))
    BY <1>2, FS_Interval
  <2>2. IsFiniteSet(known)
    BY <1>2, <2>1, FS_Subset
  <2> QED
    BY <2>2, FS_CardinalityType
<1>4. commitsToReplay(ours, onto) = plan
  BY DEF commitsToReplay, line
<1> HIDE DEF n
<1>5. plan \in Seq(Nat) /\ \A i \in DOMAIN plan : n + i \in DOMAIN line /\ plan[i] = line[n + i]
  BY <1>1, <1>3, EndOf
<1>6. ToSet(plan) \subseteq commits[ours].past
  BY <1>1, <1>5 DEF ToSet
<1> QED
  BY <1>3, <1>4, <1>5, <1>6 DEF line

LEMMA RestOf ==
    ASSUME NEW S, NEW todo \in Seq(S)
    PROVE  /\ Rest(todo) \in Seq(S) /\ ToSet(Rest(todo)) \subseteq ToSet(todo)
           /\ Len(Rest(todo)) = IF todo = <<>> THEN 0 ELSE Len(todo) - 1
           /\ \A i \in 1..Len(Rest(todo)) : i + 1 \in DOMAIN todo /\ Rest(todo)[i] = todo[i + 1]
<1>1. /\ Rest(todo) \in Seq(S)
      /\ Len(Rest(todo)) = IF todo = <<>> THEN 0 ELSE Len(todo) - 1
      /\ \A i \in 1..Len(Rest(todo)) : i + 1 \in DOMAIN todo /\ Rest(todo)[i] = todo[i + 1]
  <2>1. \A i \in 2..Len(todo) : todo[i] \in S
    OBVIOUS
  <2> QED
    BY <2>1 DEF Rest
<1>2. DOMAIN Rest(todo) = 1..Len(Rest(todo))
  BY <1>1
<1> QED
  BY <1>1, <1>2 DEF ToSet

(* The states that a rebase goes through.                                   *)
LEMMA States ==
    ASSUME NEW state \in RebaseState
    PROVE  /\ \A id \in Commit :
                 /\ Advanced(state, id) \in RebaseState
                 /\ Hashes(Advanced(state, id)) \subseteq Hashes(state) \cup {id}
           /\ Skipped(state) \in RebaseState /\ Hashes(Skipped(state)) \subseteq Hashes(state)
           /\ state.todo # <<>> =>
                 /\ state.todo[1] \in Hashes(state)
                 /\ [state EXCEPT !.current = state.todo[1]] \in RebaseState
                 /\ Hashes([state EXCEPT !.current = state.todo[1]]) = Hashes(state)
<1>1. /\ state.todo \in Seq(Commit) /\ state.done \in Seq(Commit)
      /\ Rest(state.todo) \in Seq(Commit) /\ ToSet(Rest(state.todo)) \subseteq ToSet(state.todo)
  BY RestOf DEF RebaseState
<1>2. ASSUME NEW id \in Commit
      PROVE  /\ Advanced(state, id) \in RebaseState
             /\ Hashes(Advanced(state, id)) \subseteq Hashes(state) \cup {id}
  <2>1. Append(state.done, id) \in Seq(Commit)
        /\ ToSet(Append(state.done, id)) \subseteq ToSet(state.done) \cup {id}
    BY <1>1 DEF ToSet
  <2>2. Advanced(state, id) \in RebaseState
    BY <1>1, <2>1 DEF Advanced, RebaseState
  <2>3. /\ Advanced(state, id).onto = state.onto
        /\ Advanced(state, id).origHead = state.origHead
        /\ Advanced(state, id).tip = id
        /\ Advanced(state, id).todo = Rest(state.todo)
        /\ Advanced(state, id).done = Append(state.done, id)
    BY DEF Advanced, RebaseState
  <2>4. Hashes(Advanced(state, id)) = {state.onto, state.origHead, id}
           \cup ToSet(Rest(state.todo)) \cup ToSet(Append(state.done, id))
    BY <2>3 DEF Hashes
  <2> QED
    BY <1>1, <2>1, <2>2, <2>4 DEF Hashes
<1>3. /\ Skipped(state) \in RebaseState /\ Hashes(Skipped(state)) \subseteq Hashes(state)
  <2>1. Skipped(state) \in RebaseState
    BY <1>1 DEF Skipped, RebaseState
  <2>2. /\ Skipped(state).onto = state.onto /\ Skipped(state).origHead = state.origHead
        /\ Skipped(state).tip = state.tip /\ Skipped(state).todo = Rest(state.todo)
        /\ Skipped(state).done = state.done
    BY DEF Skipped, RebaseState
  <2> QED
    BY <1>1, <2>1, <2>2 DEF Hashes
<1>4. ASSUME state.todo # <<>>
      PROVE  /\ state.todo[1] \in Hashes(state)
             /\ [state EXCEPT !.current = state.todo[1]] \in RebaseState
             /\ Hashes([state EXCEPT !.current = state.todo[1]]) = Hashes(state)
  <2>1. state.todo[1] \in Commit /\ state.todo[1] \in ToSet(state.todo)
    BY <1>1, <1>4 DEF ToSet
  <2>2. [state EXCEPT !.current = state.todo[1]] =
           [onto |-> state.onto, origHead |-> state.origHead, branch |-> state.branch,
            tip |-> state.tip, todo |-> state.todo, done |-> state.done,
            current |-> state.todo[1]]
    BY DEF RebaseState
  <2> QED
    BY <2>1, <2>2 DEF RebaseState, Hashes
<1> QED
  BY <1>2, <1>3, <1>4

LEMMA RebaseStartKeeps ==
    ASSUME Inv, NEW ref \in Ref, RebaseFastForward(ref) \/ Rebase(ref) PROVE Inv'
<1> DEFINE ours == resolveHead  onto == refs[ref]
<1>1. CASE RebaseFastForward(ref)
  <2> DEFINE q == <<Set("ORIG_HEAD", ours), SetRef(HEAD, onto), Log(ours, onto)>>
  <2>1. ours \in Good /\ onto \in Good /\ onto \in Commit /\ HEAD \in Ref /\ Start(q, onto)
    BY <1>1, Found, GoodCommits DEF RebaseFastForward, Ref
  <2>2. /\ Fits(Set("ORIG_HEAD", ours), Good) /\ Fits(SetRef(HEAD, onto), Good)
        /\ Fits(Log(ours, onto), Good)
    BY <2>1, Found, GoodCommits, Forms
  <2>3. q \in Seq(WriteRecord)
    BY <2>2, FitsIsWrite
  <2>4. InOrder(q)
    BY <2>2, Plain
  <2> QED
    BY <2>1, <2>3, <2>4, Starts
<1>2. CASE Rebase(ref)
  <2> DEFINE state == NewRebase(ours, onto)
             q == <<Set("ORIG_HEAD", ours), SetState(state)>>
  <2>1. ours \in Good /\ onto \in Good /\ HEAD \in Heads /\ StartReplay(q)
    BY <1>2, Found DEF Rebase
  <2>2. state \in RebaseState /\ Hashes(state) \subseteq Good
    <3> DEFINE plan == commitsToReplay(ours, onto)
    <3>1. /\ plan \in Seq(Nat) /\ DOMAIN plan = 1..Len(plan)
          /\ ToSet(plan) \subseteq Good /\ ToSet(plan) \subseteq Commit
      BY <2>1, ToReplay, GoodCommits
    <3> HIDE DEF plan
    <3>2. plan \in Seq(Commit)
      BY <3>1 DEF ToSet
    <3>3. state = [onto |-> onto, origHead |-> ours, branch |-> HEAD, tip |-> onto,
                   todo |-> plan, done |-> <<>>, current |-> None]
      BY DEF NewRebase, plan
    <3>4. ours \in Commit /\ onto \in Commit
      BY <2>1, GoodCommits
    <3>5. Hashes(state) = {onto, ours} \cup ToSet(plan)
      BY <3>3 DEF Hashes, ToSet
    <3> QED
      BY <2>1, <3>1, <3>2, <3>3, <3>4, <3>5 DEF RebaseState
  <2> HIDE DEF state
  <2>3. Fits(Set("ORIG_HEAD", ours), Good) /\ Fits(SetState(state), Good)
    BY <2>1, <2>2, Found, GoodCommits, Forms
  <2>4. q \in Seq(WriteRecord) /\ InOrder(q)
    BY <2>3, FitsIsWrite, Plain
  <2>5. HasState(q)
    <3>1. q[2].file = "REBASE_STATE" /\ q[2].value # None /\ q[1].file # "REBASE_STATE"
      BY <2>2, VcAssumption DEF SetState, Set
    <3> QED
      BY <3>1 DEF HasState
  <2> QED
    BY <2>1, <2>4, <2>5, StartsReplay
<1> QED
  BY <1>1, <1>2

(* One more commit is made for a rebase that is under way.                  *)
LEMMA Replays ==
    ASSUME Inv, REBASE_STATE # None, Room, NEW c \in Commit,
           NEW q, q = <<Put(MakeCommit(<<REBASE_STATE.tip>>, c)),
                        SetState(Advanced(REBASE_STATE, Fresh))>>
    PROVE  q \in Seq(WriteRecord) /\ InOrder(q) /\ HasState(q)
<1> DEFINE new == MakeCommit(<<REBASE_STATE.tip>>, c)
           state == Advanced(REBASE_STATE, Fresh)
<1>1. REBASE_STATE \in RebaseState /\ Hashes(REBASE_STATE) \subseteq Good
      /\ REBASE_STATE.tip \in Good
  BY Found DEF Hashes
<1>2. /\ Put(new) \in WriteRecord /\ Sound(Append(commits, new))
      /\ new.past \ {Fresh} \subseteq Good
      /\ Fresh \in Commit /\ Good \cup {Fresh} \subseteq Commit /\ Room
  BY <1>1, Recorded DEF Commit
<1>3. state \in RebaseState /\ Hashes(state) \subseteq Good \cup {Fresh}
  BY <1>1, <1>2, States
<1> HIDE DEF new, state
<1>4. Fits(SetState(state), Good \cup {Fresh})
  BY <1>2, <1>3, Found, Forms
<1>5. q = <<Put(new), SetState(state)>>
  BY DEF new, state
<1>6. q \in Seq(WriteRecord)
  BY <1>2, <1>4, <1>5, FitsIsWrite
<1>7. InOrder(q)
  <2>1. \A k \in DOMAIN q \ {1} : k > 1 /\ Fits(q[k], Good \cup {Fresh})
    BY <1>4, <1>5
  <2> QED
    BY <1>2, <1>5, <2>1, Makes
<1>8. HasState(q)
  <2>1. q[2].file = "REBASE_STATE" /\ q[2].value # None /\ q[1].file # "REBASE_STATE"
    BY <1>3, <1>5, VcAssumption DEF SetState, Set, Put
  <2> QED
    BY <1>5, <2>1 DEF HasState
<1> QED
  BY <1>6, <1>7, <1>8

(* A rebase that is at work has a state, once its writes are made.          *)
LEMMA AtWork == ASSUME Inv, Replaying PROVE REBASE_STATE # None
BY DEF Inv, HasState, Replaying

LEMMA RebaseStepKeeps == ASSUME Inv, RebaseStep PROVE Inv'
<1>1. REBASE_STATE # None
  BY AtWork DEF RebaseStep
<1>2. REBASE_STATE.todo[1] \in Commit
  BY <1>1, Found, States, GoodCommits DEF RebaseStep
<1>3. pending' \in Seq(WriteRecord) /\ InOrder(pending') /\ HasState(pending')
  BY <1>1, <1>2, Replays DEF RebaseStep
<1> QED
  BY <1>3, Begins DEF RebaseStep, Inv, TypeOK

LEMMA RebasePauseKeeps == ASSUME Inv, RebasePause PROVE Inv'
<1> DEFINE state == [REBASE_STATE EXCEPT !.current = REBASE_STATE.todo[1]]
<1>1. REBASE_STATE # None
  BY AtWork DEF RebasePause
<1>2. state \in RebaseState /\ Hashes(state) \subseteq Good
  BY <1>1, Found, States DEF RebasePause
<1>3. pending' = <<SetState(state)>> /\ replaying' = FALSE
  BY DEF RebasePause
<1> HIDE DEF state
<1>4. Fits(SetState(state), Good)
  BY <1>2, Found, GoodCommits, Forms
<1>5. pending' \in Seq(WriteRecord) /\ InOrder(pending')
  BY <1>3, <1>4, FitsIsWrite, Plain
<1> QED
  BY <1>3, <1>5, Begins DEF RebasePause, Inv, TypeOK

(* The branch is moved, and the state removed.                              *)
LEMMA Ends ==
    ASSUME Inv, REBASE_STATE # None, NEW old \in Good, NEW new \in Good, NEW q,
           q = <<SetRef(REBASE_STATE.branch, new), Log(old, new), SetState(None)>>
    PROVE  q \in Seq(WriteRecord) /\ InOrder(q)
<1>1. REBASE_STATE.branch \in Ref
  BY Found DEF RebaseState, Ref
<1>2. /\ Fits(SetRef(REBASE_STATE.branch, new), Good) /\ Fits(Log(old, new), Good)
      /\ Fits(SetState(None), Good)
  BY <1>1, Found, GoodCommits, Forms
<1>3. q \in Seq(WriteRecord)
  BY <1>2, FitsIsWrite
<1>4. InOrder(q)
  BY <1>2, Plain
<1> QED
  BY <1>3, <1>4

LEMMA RebaseFinishKeeps == ASSUME Inv, RebaseFinish PROVE Inv'
<1>1. REBASE_STATE # None
  BY AtWork DEF RebaseFinish
<1>2. REBASE_STATE.tip \in Good /\ REBASE_STATE.origHead \in Good /\ REBASE_STATE.tip \in Commit
  BY <1>1, Found, GoodCommits DEF Hashes
<1>3. pending' \in Seq(WriteRecord) /\ InOrder(pending')
  BY <1>1, <1>2, Ends DEF RebaseFinish
<1> QED
  BY <1>2, <1>3, Begins DEF RebaseFinish

LEMMA RebaseAbortKeeps == ASSUME Inv, RebaseAbort PROVE Inv'
<1> DEFINE q == <<SetRef(REBASE_STATE.branch, REBASE_STATE.origHead),
                  Log(REBASE_STATE.tip, REBASE_STATE.origHead), SetState(None)>>
<1>1. REBASE_STATE # None /\ Start(q, None)
  BY DEF RebaseAbort
<1>2. REBASE_STATE.tip \in Good /\ REBASE_STATE.origHead \in Good
  BY <1>1, Found DEF Hashes
<1>3. q \in Seq(WriteRecord) /\ InOrder(q)
  BY <1>1, <1>2, Ends
<1> QED
  BY <1>1, <1>3, Starts

LEMMA RebaseContinueKeeps == ASSUME Inv, RebaseContinue PROVE Inv'
<1> DEFINE q == <<Put(MakeCommit(<<REBASE_STATE.tip>>, REBASE_STATE.current)),
                  SetState(Advanced(REBASE_STATE, Fresh))>>
<1>1. /\ REBASE_STATE # None
      /\ \/ StartReplay(<<>>)
         \/ REBASE_STATE.current # None /\ Room /\ StartReplay(q)
  BY DEF RebaseContinue
<1>2. CASE StartReplay(<<>>)
  <2>1. <<>> \in Seq(WriteRecord) /\ InOrder(<<>>) /\ HasState(<<>>)
    BY <1>1, Plain DEF HasState
  <2> QED
    BY <1>2, <2>1, StartsReplay
<1>3. CASE REBASE_STATE.current # None /\ Room /\ StartReplay(q)
  <2>1. REBASE_STATE.current \in Commit
    BY <1>1, <1>3, Found DEF RebaseState
  <2>2. q \in Seq(WriteRecord) /\ InOrder(q) /\ HasState(q)
    BY <1>1, <1>3, <2>1, Replays
  <2> QED
    BY <1>3, <2>2, StartsReplay
<1> QED
  BY <1>1, <1>2, <1>3

LEMMA RebaseSkipKeeps == ASSUME Inv, RebaseSkip PROVE Inv'
<1> DEFINE state == Skipped(REBASE_STATE)
           q == <<SetState(state)>>
<1>1. REBASE_STATE # None /\ StartReplay(q)
  BY DEF RebaseSkip
<1>2. state \in RebaseState /\ Hashes(state) \subseteq Good
  BY <1>1, Found, States
<1> HIDE DEF state
<1>3. Fits(SetState(state), Good)
  BY <1>2, Found, GoodCommits, Forms
<1>4. q \in Seq(WriteRecord) /\ InOrder(q)
  BY <1>3, FitsIsWrite, Plain
<1>5. HasState(q)
  BY <1>2, VcAssumption DEF HasState, SetState, Set
<1> QED
  BY <1>1, <1>4, <1>5, StartsReplay

-----------------------------------------------------------------------------
(* Pull and push.                                                          *)

LEMMA PullKeeps ==
    ASSUME Inv, PullUnborn \/ PullUpToDate \/ PullRefused \/ Pull PROVE Inv'
<1> DEFINE ours == resolveHead
           good == Good \cup {upstream}
           tail == <<Set("ORIG_HEAD", ours), SetRef(HEAD, upstream),
                     SetRef(Tracking, upstream), Log(ours, upstream)>>
<1>1. /\ upstream \in DOMAIN commits /\ upstream \in Commit /\ good \subseteq Commit
      /\ HEAD \in Heads \cup Commit /\ Tracking \in Ref /\ ours \in Good \cup {None}
  BY Found, GoodCommits DEF PullUnborn, PullUpToDate, PullRefused, Pull, Ref
<1>2. importHistory(upstream) \in WriteRecord
  BY <1>1 DEF importHistory, WriteRecord
<1>3. /\ Fits(SetRef(Tracking, upstream), good)
      /\ Fits(Set("ORIG_HEAD", ours), good)
      /\ Fits(Log(ours, upstream), good)
      /\ HEAD \in Heads => Fits(SetRef(HEAD, upstream), good) /\ Fits(Set("HEAD", HEAD), good)
  <2>1. HEAD \in Heads => HEAD \in Ref
    BY DEF Ref
  <2> QED
    BY <1>1, <2>1, Forms
<1>4. CASE PullUnborn
  <2> DEFINE q == <<importHistory(upstream), SetRef(HEAD, upstream), Set("HEAD", HEAD),
                    SetRef(Tracking, upstream)>>
  <2>1. HEAD \in Heads /\ Start(q, upstream)
    BY <1>4, GoodCommits, VcAssumption DEF PullUnborn, resolveHead, Inv, TypeOK
  <2>2. q \in Seq(WriteRecord)
    BY <1>2, <1>3, <2>1, FitsIsWrite
  <2>3. \A k \in DOMAIN q \ {1} : k > 1 /\ Fits(q[k], good)
    BY <1>3, <2>1
  <2>4. q[1] = importHistory(upstream) /\ 1 \in DOMAIN q /\ DOMAIN q \subseteq Nat
    OBVIOUS
  <2>5. InOrder(q)
    BY <1>1, <2>3, <2>4, Imports
  <2> QED
    BY <1>1, <2>1, <2>2, <2>5, Starts
<1>5. CASE PullUpToDate
  <2> DEFINE q == <<importHistory(upstream), SetRef(Tracking, upstream)>>
  <2>1. Start(q, None)
    BY <1>5 DEF PullUpToDate
  <2>2. q \in Seq(WriteRecord)
    BY <1>2, <1>3, FitsIsWrite
  <2>3. \A k \in DOMAIN q \ {1} : k > 1 /\ Fits(q[k], good)
    BY <1>3
  <2>4. q[1] = importHistory(upstream) /\ 1 \in DOMAIN q /\ DOMAIN q \subseteq Nat
    OBVIOUS
  <2>5. InOrder(q)
    BY <1>1, <2>3, <2>4, Imports
  <2> QED
    BY <2>1, <2>2, <2>5, Starts
<1>6. CASE PullRefused
  <2> DEFINE q == <<importHistory(upstream)>>
  <2>1. Start(q, None)
    BY <1>6 DEF PullRefused
  <2>2. q \in Seq(WriteRecord)
    BY <1>2
  <2>3. q[1] = importHistory(upstream) /\ DOMAIN q = {1}
    OBVIOUS
  <2>4. InOrder(q)
    <3>1. \A k \in DOMAIN q \ {1} : k > 1 /\ Fits(q[k], good)
      BY <2>3
    <3>2. 1 \in DOMAIN q /\ DOMAIN q \subseteq Nat
      BY <2>3
    <3> QED
      BY <1>1, <2>3, <3>1, <3>2, Imports
  <2> QED
    BY <2>1, <2>2, <2>4, Starts
<1>7. CASE Pull
  <2> DEFINE fast == <<importHistory(upstream),
                       Set("ORIG_HEAD", ours), SetRef(HEAD, upstream),
                       SetRef(Tracking, upstream), Log(ours, upstream)>>
             slow == <<importHistory(upstream), stashLocal(ours), Log(None, ours),
                       Set("ORIG_HEAD", ours), SetRef(HEAD, upstream),
                       SetRef(Tracking, upstream), Log(ours, upstream)>>
  <2>1. /\ HEAD \in Heads /\ ours \in Good
        /\ \/ Start(fast, upstream)
           \/ (\E s \in Stash : refs[s] = None) /\ Start(slow, upstream)
    BY <1>1, <1>7 DEF Pull
  <2>2. CASE Start(fast, upstream)
    <3>1. fast \in Seq(WriteRecord)
      BY <1>2, <1>3, <2>1, FitsIsWrite
    <3>2. \A k \in DOMAIN fast \ {1} : k > 1 /\ Fits(fast[k], good)
      BY <1>3, <2>1
    <3>3. fast[1] = importHistory(upstream) /\ 1 \in DOMAIN fast /\ DOMAIN fast \subseteq Nat
      OBVIOUS
    <3>4. InOrder(fast)
      BY <1>1, <3>2, <3>3, Imports
    <3> QED
      BY <1>1, <2>2, <3>1, <3>4, Starts
  <2>3. CASE (\E s \in Stash : refs[s] = None) /\ Start(slow, upstream)
    <3>1. Fits(stashLocal(ours), good) /\ Fits(Log(None, ours), good)
      <4>1. (CHOOSE s \in Stash : refs[s] = None) \in Ref
        BY <2>3 DEF Ref, Heads
      <4> QED
        BY <1>1, <2>1, <4>1, Forms DEF stashLocal
    <3>2. slow \in Seq(WriteRecord)
      BY <1>2, <1>3, <2>1, <3>1, FitsIsWrite
    <3>3. \A k \in DOMAIN slow \ {1} : k > 1 /\ Fits(slow[k], good)
      BY <1>3, <2>1, <3>1
    <3>4. slow[1] = importHistory(upstream) /\ 1 \in DOMAIN slow /\ DOMAIN slow \subseteq Nat
      OBVIOUS
    <3>5. InOrder(slow)
      BY <1>1, <3>3, <3>4, Imports
    <3> QED
      BY <1>1, <2>3, <3>2, <3>5, Starts
  <2> QED
    BY <2>1, <2>2, <2>3
<1> QED
  BY <1>4, <1>5, <1>6, <1>7

LEMMA PullStaticKeeps == ASSUME Inv, PullStatic PROVE Inv'
<1> DEFINE ours == resolveHead
           new == MakeCommit(Parents(ours), Fresh)
           branch == IF HEAD \in Heads THEN HEAD ELSE Main
           orig == IF ours = None THEN ORIG_HEAD ELSE ours
           q == <<Put(new), Set("ORIG_HEAD", orig), SetRef(branch, Fresh),
                  Set("HEAD", branch), Log(ours, Fresh)>>
<1>1. Start(q, Fresh) /\ Room
  BY DEF PullStatic
<1>2. branch \in Heads /\ branch \in Ref /\ orig \in Good \cup {None} /\ ours \in Good \cup {None}
  BY Found, VcAssumption DEF Heads, Ref
<1>3. /\ Put(new) \in WriteRecord /\ Sound(Append(commits, new))
      /\ new.past \ {Fresh} \subseteq Good
      /\ Fresh \in Commit /\ Good \cup {Fresh} \subseteq Commit
  <2>1. Fresh \in Nat
    BY DEF Inv, TypeOK, Fresh
  <2>2. Parents(ours) = <<>> \/ \E p \in Good : Parents(ours) = <<p>>
    BY <1>2 DEF Parents
  <2> QED
    BY <1>1, <2>1, <2>2, Recorded
<1> HIDE DEF new, branch, orig
<1>4. /\ Fits(Set("ORIG_HEAD", orig), Good \cup {Fresh}) /\ Fits(SetRef(branch, Fresh), Good \cup {Fresh})
      /\ Fits(Set("HEAD", branch), Good \cup {Fresh}) /\ Fits(Log(ours, Fresh), Good \cup {Fresh})
  BY <1>2, <1>3, Found, Forms
<1>5. q \in Seq(WriteRecord)
  BY <1>3, <1>4, FitsIsWrite
<1>6. InOrder(q)
  <2>1. \A k \in DOMAIN q \ {1} : k > 1 /\ Fits(q[k], Good \cup {Fresh})
    BY <1>4
  <2>2. q[1] = Put(new) /\ 1 \in DOMAIN q /\ DOMAIN q \subseteq Nat \ {0}
    OBVIOUS
  <2> QED
    BY <1>1, <1>3, <2>1, <2>2, Makes
<1> QED
  BY <1>1, <1>3, <1>5, <1>6, Starts

LEMMA PushKeeps == ASSUME Inv, Push PROVE Inv'
<1> DEFINE q == <<Set("upstream", resolveHead), SetRef(Tracking, resolveHead)>>
<1>1. Start(q, None) /\ resolveHead \in Good /\ Tracking \in Ref
  BY Found DEF Push, Ref
<1>2. Fits(Set("upstream", resolveHead), Good) /\ Fits(SetRef(Tracking, resolveHead), Good)
  BY <1>1, Found, GoodCommits, Forms
<1>3. q \in Seq(WriteRecord) /\ InOrder(q)
  BY <1>2, FitsIsWrite, Plain
<1> QED
  BY <1>1, <1>3, Starts

LEMMA PeerPushKeeps == ASSUME Inv, PeerPush PROVE Inv'
<1>1. PICK parents \in {<<>>} \cup (IF upstream = None THEN {}
                                    ELSE {<<p>> : p \in commits[upstream].past}) :
         commits' = Append(commits, MakeCommit(parents, Fresh))
  BY DEF PeerPush
<1>2. parents = <<>> \/ \E p \in DOMAIN commits : parents = <<p>>
  <2>1. upstream # None => upstream \in DOMAIN commits
    BY Found
  <2>2. upstream # None => commits[upstream].past \subseteq DOMAIN commits
    BY <2>1 DEF Inv, Sound, TypeOK
  <2> QED
    BY <1>1, <2>2
<1>3. Fresh \in Nat /\ Fresh = Len(commits) + 1 /\ Fresh <= MaxCommits
  BY VcAssumption DEF PeerPush, Room, Fresh, Inv, TypeOK
<1> DEFINE new == MakeCommit(parents, Fresh)
<1>4. new \in CommitRecord /\ Sound(Append(commits, new))
  BY <1>2, <1>3, MakeCommitSound DEF Inv
<1> HIDE DEF new
<1>5. commits' = Append(commits, new)
  BY <1>1 DEF new
<1>6. /\ commits' \in Seq(CommitRecord) /\ Len(commits') = Fresh
      /\ DOMAIN commits' = DOMAIN commits \cup {Fresh}
      /\ \A c \in DOMAIN commits : commits'[c] = commits[c]
  BY <1>3, <1>4, <1>5 DEF Inv, TypeOK
<1>7. pending = <<>> /\ pending' = <<>> /\ ~replaying'
  BY DEF PeerPush, Begin, Idle
<1>8. TypeOK'
  BY <1>3, <1>6, <1>7 DEF PeerPush, Inv, TypeOK
<1>9. Good \subseteq Good' /\ Seeds' = Seeds
  BY <1>6 DEF PeerPush, Good, Seeds, Value, resolveHead, allReflogHashes, rebaseStateHashes
<1>10. InOrder(pending)'
  BY <1>7 DEF InOrder
<1> QED
  BY <1>4, <1>5, <1>7, <1>8, <1>9, <1>10 DEF Inv

-----------------------------------------------------------------------------
(* The rest.                                                               *)

(* The objects of a history arrive; when all are there, the tip is good.    *)
LEMMA ImportObjectKeeps == ASSUME Inv, ImportObject PROVE Inv'
<1> DEFINE tip == Head(pending).tip
           missing == commits[tip].past \ stored
<1>1. /\ pending # <<>> /\ Head(pending).file = "import" /\ tip \in DOMAIN commits
      /\ UNCHANGED <<commits, HEAD, refs, ORIG_HEAD, MERGE_HEAD, logs, REBASE_STATE, upstream,
                     replaying, result, reported>>
      /\ TypeOK /\ InOrder(pending)
  BY FirstWrite DEF ImportObject, Inv, Allowed
<1>2. commits[tip].past \subseteq DOMAIN commits
  BY <1>1 DEF Inv, Sound, TypeOK
<1>3. stored \subseteq stored' /\ stored' \subseteq DOMAIN commits
      /\ \/ missing = {} /\ pending' = Tail(pending) /\ stored' = stored
         \/ pending' = pending
  BY <1>2 DEF ImportObject, Inv, TypeOK
<1>4. Good \subseteq Good' /\ Seeds' = Seeds /\ Fresh' = Fresh /\ Room' = Room
  BY <1>1, <1>3 DEF Good, Seeds, Value, resolveHead, allReflogHashes, rebaseStateHashes, Fresh, Room
<1>5. TypeOK' /\ (Seeds \subseteq Good)' /\ Sound(commits)'
  <2>1. pending' \in Seq(WriteRecord)
    BY <1>1, <1>3, FirstWrite DEF TypeOK
  <2> QED
    BY <1>1, <1>3, <1>4, <2>1 DEF Inv, TypeOK, Sound
<1>6. CASE pending' = pending
  <2>1. ASSUME NEW k \in DOMAIN pending
        PROVE  Allowed(pending[k], Good' \cup Brought(pending, k))
    <3>1. Allowed(pending[k], Good \cup Brought(pending, k))
      BY <1>1 DEF InOrder
    <3> QED
      BY <1>4, <3>1, AllowedMore
  <2>2. InOrder(pending)'
    BY <1>1, <1>4, <1>6, <2>1 DEF InOrder, Allowed, Brought
  <2>3. (replaying => HasState(pending))'
    BY <1>1, <1>6 DEF Inv, HasState
  <2> QED
    BY <1>5, <2>2, <2>3 DEF Inv
<1>7. CASE missing = {} /\ pending' = Tail(pending) /\ stored' = stored
  <2> DEFINE rest == Tail(pending)
  <2>1. /\ \A k \in DOMAIN rest : k \in Nat \ {0} /\ k + 1 \in DOMAIN pending
                                  /\ rest[k] = pending[k + 1]
        /\ \A k \in DOMAIN pending \ {1} : k - 1 \in DOMAIN rest /\ rest[k - 1] = pending[k]
        /\ 1 \in DOMAIN pending /\ pending[1].file = "import"
    BY <1>1, FirstWrite
  <2>2. tip \in Good
    BY <1>1, <1>7 DEF Good
  <2>3. ASSUME NEW k \in DOMAIN rest PROVE Allowed(rest[k], Good' \cup Brought(rest, k))
    <3>1. Allowed(rest[k], Good \cup Brought(pending, k + 1))
      BY <1>1, <2>1 DEF InOrder
    <3>2. Brought(pending, k + 1) \subseteq Brought(rest, k) \cup {tip}
      BY <1>1, BroughtBy
    <3> QED
      BY <1>4, <2>2, <3>1, <3>2, AllowedMore
  <2>4. ASSUME NEW k \in DOMAIN rest, rest[k].file = "object"
        PROVE  /\ rest[k].id = Fresh /\ Room /\ Sound(Append(commits, rest[k].commit))
               /\ \A j \in DOMAIN rest \ {k} : rest[j].file # "object"
    <3>1. pending[k + 1].file = "object" /\ k + 1 \in DOMAIN pending
      BY <2>1, <2>4
    <3>2. \A j \in DOMAIN rest \ {k} : j + 1 # k + 1 /\ j + 1 \in DOMAIN pending
                                       /\ rest[j] = pending[j + 1]
      BY <2>1
    <3> QED
      BY <1>1, <2>1, <3>1, <3>2 DEF InOrder
  <2> HIDE DEF rest
  <2>5. InOrder(pending)'
    <3>1. pending' = rest
      BY <1>7 DEF rest
    <3> QED
      BY <1>1, <1>4, <2>3, <2>4, <3>1 DEF InOrder, Allowed, Brought
  <2>6. (replaying => HasState(pending))'
    <3>1. pending' = rest
      BY <1>7 DEF rest
    <3> QED
      BY <1>1, <2>1, <3>1 DEF Inv, HasState
  <2> QED
    BY <1>5, <2>5, <2>6 DEF Inv
<1> QED
  BY <1>3, <1>6, <1>7

LEMMA ReturnKeeps == ASSUME Inv, Return PROVE Inv'
<1>1. TypeOK'
  BY DEF Return, disk, Inv, TypeOK
<1>2. Sound(commits)' /\ (Seeds \subseteq Good)'
  BY DEF Return, disk, Inv, Sound, Good, Seeds, Value, resolveHead, allReflogHashes, rebaseStateHashes
<1>3. InOrder(pending)' /\ ~replaying'
  BY DEF Return, disk, InOrder
<1> QED
  BY <1>1, <1>2, <1>3 DEF Inv

LEMMA CrashKeeps == ASSUME Inv, Crash PROVE Inv'
<1>1. TypeOK'
  <2>1. pending' = <<>> /\ replaying' = FALSE /\ result' = None
        /\ UNCHANGED <<disk, reported>>
    BY DEF Crash, Forget
  <2>2. pending' \in Seq(WriteRecord)
    BY <2>1
  <2> QED
    BY <2>1, <2>2 DEF disk, Inv, TypeOK
<1>2. Sound(commits)' /\ (Seeds \subseteq Good)'
  BY DEF Crash, disk, Inv, Sound, Good, Seeds, Value, resolveHead, allReflogHashes, rebaseStateHashes
<1>3. InOrder(pending)' /\ ~replaying'
  BY DEF Crash, Forget, InOrder
<1> QED
  BY <1>1, <1>2, <1>3 DEF Inv

(* Seeds are good, so the walk from them that are stored is the walk from   *)
(* all of them.                                                             *)
LEMMA GcKeeps == ASSUME Inv, Gc PROVE Inv'
<1>1. PICK gone \in SUBSET (stored \ History(Seeds \cap stored)) : stored' = stored \ gone
  BY DEF Gc
<1>2. /\ UNCHANGED <<commits, HEAD, refs, ORIG_HEAD, MERGE_HEAD, logs, REBASE_STATE, upstream,
                     pending, replaying, result, reported>>
      /\ pending = <<>> /\ ~replaying
  BY DEF Gc, Begin, Idle
<1>3. Seeds' = Seeds
  BY <1>2 DEF Seeds, Value, resolveHead, allReflogHashes, rebaseStateHashes
<1>4. ASSUME NEW c \in Seeds PROVE c \in Good'
  <2>1. c \in Good /\ c \in DOMAIN commits
    BY GoodCommits DEF Inv
  <2>2. CASE "orphan" \in Trouble
    BY <1>2, <2>1, <2>2 DEF Good
  <2>3. CASE "orphan" \notin Trouble
    <3>1. commits[c].past \subseteq stored /\ c \in commits[c].past
      BY <2>1, <2>3 DEF Good, Inv, Sound
    <3>2. c \in Seeds \cap stored
      BY <3>1
    <3> HIDE DEF Seeds
    <3>3. commits[c].past \subseteq History(Seeds \cap stored)
      BY <3>2 DEF History
    <3>4. commits[c].past \subseteq stored'
      BY <1>1, <3>1, <3>3
    <3> QED
      BY <1>2, <2>1, <3>4 DEF Good
  <2> QED
    BY <2>2, <2>3
<1>5. TypeOK' /\ Sound(commits)'
  BY <1>1, <1>2 DEF Inv, TypeOK, Sound
<1>6. InOrder(pending)'
  BY <1>2 DEF InOrder
<1> QED
  BY <1>2, <1>3, <1>4, <1>5, <1>6 DEF Inv

LEMMA InitInv == Init => Inv
<1> SUFFICES ASSUME Init PROVE Inv
  OBVIOUS
<1>1. TypeOK
  <2>1. commits \in Seq(CommitRecord) /\ pending \in Seq(WriteRecord)
        /\ DOMAIN commits = {} /\ Len(commits) <= MaxCommits
    BY VcAssumption DEF Init
  <2>2. HEAD \in Heads
    BY VcAssumption DEF Init, Heads
  <2> QED
    BY <2>1, <2>2 DEF Init, TypeOK
<1>2. Sound(commits) /\ InOrder(pending)
  BY DEF Init, Sound, InOrder
<1>3. Seeds = {}
  <2>1. resolveHead = None /\ rebaseStateHashes = {} /\ allReflogHashes = {}
    <3>1. Main \in Heads /\ Main \in Ref
      BY VcAssumption DEF Heads, Ref
    <3> QED
      BY <3>1 DEF Init, resolveHead, rebaseStateHashes, allReflogHashes
  <2>2. \A r \in Ref : Value(r) = {}
    BY DEF Init, Value
  <2> QED
    BY <2>1, <2>2 DEF Seeds, Init
<1> QED
  BY <1>1, <1>2, <1>3 DEF Inv, Init

LEMMA InvNext == Inv /\ [Next]_vars => Inv'
<1> SUFFICES ASSUME Inv, [Next]_vars PROVE Inv'
  OBVIOUS
<1>1. CASE Record
  BY <1>1, RecordCommitKeeps, RevertKeeps, MergeFastForwardKeeps, Merge3WayKeeps DEF Record
<1>2. CASE RebaseOp
  BY <1>2, RebaseStartKeeps, RebaseStepKeeps, RebasePauseKeeps, RebaseFinishKeeps,
     RebaseContinueKeeps, RebaseSkipKeeps, RebaseAbortKeeps DEF RebaseOp
<1>3. CASE Remote
  BY <1>3, PullKeeps, PullStaticKeeps, PushKeeps, PeerPushKeeps DEF Remote
<1>4. CASE UNCHANGED vars
  <2>1. TypeOK' /\ Sound(commits)' /\ (replaying => HasState(pending))'
    BY <1>4 DEF vars, disk, Inv, TypeOK, Sound, HasState
  <2>2. Seeds' = Seeds /\ Good' = Good /\ Fresh' = Fresh /\ Room' = Room
    BY <1>4 DEF vars, disk, Good, Seeds, Value, resolveHead, allReflogHashes, rebaseStateHashes,
                Fresh, Room
  <2>3. InOrder(pending)'
    BY <1>4, <2>2 DEF vars, disk, Inv, InOrder, Allowed, Brought
  <2> QED
    BY <2>1, <2>2, <2>3 DEF Inv
<1> QED
  BY <1>1, <1>2, <1>3, <1>4, MoveKeeps, WriteKeeps, ImportObjectKeeps, ReturnKeeps, CrashKeeps,
     GcKeeps DEF Next

THEOREM Invariance == Spec => []Inv
BY InitInv, InvNext, PTL DEF Spec

(* However the commits came, here or from peers, the search for an ancestor *)
(* that stops at the generations misses none (graph.ts, isAncestor).        *)
THEOREM AncestorsFound == Spec => []AncestryByGen
<1>1. Inv => AncestryByGen
  BY DEF Inv, Sound, AncestryByGen, isAncestor
<1> QED
  BY <1>1, Invariance, PTL

(* Unless a switch goes to a commit that nothing leads to, all that the     *)
(* seeds lead to is stored, whatever was interrupted and collected.         *)
THEOREM HistoryStored == ASSUME "orphan" \notin Trouble PROVE Spec => []NothingMissing
<1>1. Inv => NothingMissing
  BY DEF Inv, Good, NothingMissing, History
<1> QED
  BY <1>1, Invariance, PTL

-----------------------------------------------------------------------------
(* What a rebase replays.                                                  *)

Carried(cs, state) == [i \in DOMAIN state.done |-> cs[state.done[i]].replays] \o state.todo

Plan(cs, ours, onto) ==
    LET line  == cs[ours].line
        known == {i \in DOMAIN line : line[i] \in cs[onto].past}
    IN  SubSeq(line, 1 + Cardinality(known), Len(line))

Ascends(s) == \A i, j \in DOMAIN s : i < j => s[i] < s[j]

(* ReplayOrder, of any state among any commits.                             *)
Ordered(cs, state) ==
    /\ cs[state.tip].line = cs[state.onto].line \o state.done
    /\ ToSet(Carried(cs, state)) \subseteq ToSet(Plan(cs, state.origHead, state.onto))
    /\ Ascends(Carried(cs, state))
    /\ state.current # None => state.todo # <<>> /\ state.current = state.todo[1]

(* A state that is about to be written is in order once its commit is made. *)
Follows(q) ==
    \A k \in DOMAIN q : q[k].file = "REBASE_STATE" /\ q[k].value # None =>
        \/ Ordered(commits, q[k].value) /\ \A j \in DOMAIN q : q[j].file # "object"
        \/ \E j \in DOMAIN q : /\ q[j].file = "object"
                               /\ Ordered(Append(commits, q[j].commit), q[k].value)

ReplayInv ==
    /\ REBASE_STATE # None => Ordered(commits, REBASE_STATE)
    /\ Follows(pending)

Quiet(q) == \A k \in DOMAIN q : q[k].file # "REBASE_STATE"

(* The order of a state is a matter of the commits it names.                *)
LEMMA OrderedSame ==
    ASSUME NEW cs, NEW ds, NEW state, Ordered(cs, state),
           \A c \in Hashes(state) : ds[c] = cs[c]
    PROVE  Ordered(ds, state)
<1>1. /\ ds[state.tip] = cs[state.tip] /\ ds[state.onto] = cs[state.onto]
      /\ ds[state.origHead] = cs[state.origHead]
      /\ \A i \in DOMAIN state.done : ds[state.done[i]] = cs[state.done[i]]
  BY DEF Hashes, ToSet
<1>2. Carried(ds, state) = Carried(cs, state)
  BY <1>1 DEF Carried
<1>3. Plan(ds, state.origHead, state.onto) = Plan(cs, state.origHead, state.onto)
  BY <1>1 DEF Plan
<1> QED
  BY <1>1, <1>2, <1>3 DEF Ordered

(* Everything but a rebase leaves REBASE_STATE alone, and but for a pull,   *)
(* stays away while there is one.                                           *)
Others ==
    Record \/ Move \/ (\E ref \in Ref : RebaseFastForward(ref))
    \/ PullUnborn \/ PullUpToDate \/ PullRefused \/ Pull \/ PullStatic \/ Push

LEMMA OthersQuiet ==
    ASSUME Others
    PROVE  Quiet(pending') /\ UNCHANGED disk /\ (REBASE_STATE = None \/ Push \/ "pull" \in Trouble)
<1>1. CASE RecordCommit
  BY <1>1 DEF RecordCommit, Start, Quiet, Put, Advance, Log, SetRef, Set, noRebaseInProgress
<1>2. CASE Revert
  BY <1>2 DEF Revert, Start, Quiet, Put, Advance, Log, SetRef, Set, noRebaseInProgress
<1>3. ASSUME NEW ref \in Ref, MergeFastForward(ref)
      PROVE  Quiet(pending') /\ UNCHANGED disk /\ REBASE_STATE = None
  BY <1>3 DEF MergeFastForward, Start, Quiet, Advance, Log, SetRef, Set, noRebaseInProgress
<1>4. ASSUME NEW ref \in Ref, Merge3Way(ref)
      PROVE  Quiet(pending') /\ UNCHANGED disk /\ REBASE_STATE = None
  BY <1>4 DEF Merge3Way, Start, Quiet, Put, Advance, Log, SetRef, Set, noRebaseInProgress
<1>5. CASE Move
  BY <1>5 DEF Move, CreateBranch, SwitchToBranch, SwitchToCommit, Start, Quiet, Log, SetRef, Set,
              noRebaseInProgress
<1>6. ASSUME NEW ref \in Ref, RebaseFastForward(ref)
      PROVE  Quiet(pending') /\ UNCHANGED disk /\ REBASE_STATE = None
  BY <1>6 DEF RebaseFastForward, Start, Quiet, Log, SetRef, Set, noRebaseInProgress
<1>7. CASE PullUnborn \/ PullUpToDate \/ PullRefused
  BY <1>7 DEF PullUnborn, PullUpToDate, PullRefused, Start, Quiet, importHistory, SetRef, Set,
              mayPull, noRebaseInProgress
<1>8. CASE Pull
  <2>1. stashLocal(resolveHead).file = "ref"
    BY DEF stashLocal, SetRef
  <2> QED
    BY <1>8, <2>1 DEF Pull, Start, Quiet, importHistory, Log, SetRef, Set, mayPull, noRebaseInProgress
<1>9. CASE PullStatic
  BY <1>9 DEF PullStatic, Start, Quiet, Put, Log, SetRef, Set, mayPull, noRebaseInProgress
<1>10. CASE Push
  BY <1>10 DEF Push, Start, Quiet, SetRef, Set
<1> QED
  BY <1>1, <1>2, <1>3, <1>4, <1>5, <1>6, <1>7, <1>8, <1>9, <1>10 DEF Others, Record

LEMMA QuietFollows ==
    ASSUME ReplayInv, Quiet(pending'), UNCHANGED disk
    PROVE  ReplayInv'
BY DEF ReplayInv, Follows, Quiet, disk

LEMMA IsRecord ==
    ASSUME Inv, NEW c \in DOMAIN commits
    PROVE  commits[c].line \in Seq(Nat) /\ commits[c].replays \in Nat
<1>1. commits[c] \in CommitRecord
  BY DEF Inv, TypeOK
<1> QED
  BY <1>1 DEF CommitRecord

(* A rebase begins with all of its plan to do.                              *)
LEMMA NewOrdered ==
    ASSUME Inv, NEW ours \in Good, NEW onto \in Good
    PROVE  Ordered(commits, NewRebase(ours, onto))
<1> DEFINE plan == commitsToReplay(ours, onto)
           state == NewRebase(ours, onto)
<1>1. ours \in DOMAIN commits /\ onto \in DOMAIN commits
  BY GoodCommits
<1>2. plan \in Seq(Nat)
      /\ \E n \in Nat : \A i \in DOMAIN plan :
            n + i \in DOMAIN commits[ours].line /\ plan[i] = commits[ours].line[n + i]
  BY <1>1, ToReplay
<1>3. plan = Plan(commits, ours, onto)
  BY DEF commitsToReplay, Plan
<1> HIDE DEF plan
<1>4. Ascends(plan)
  <2> SUFFICES ASSUME NEW i \in DOMAIN plan, NEW j \in DOMAIN plan, i < j
               PROVE  plan[i] < plan[j]
    BY DEF Ascends
  <2>1. PICK n \in Nat : \A k \in DOMAIN plan :
           n + k \in DOMAIN commits[ours].line /\ plan[k] = commits[ours].line[n + k]
    BY <1>2
  <2>2. n + i < n + j
    BY <1>2
  <2>3. commits[ours].line[n + i] < commits[ours].line[n + j]
    BY <1>1, <2>1, <2>2 DEF Inv, Sound
  <2> QED
    BY <2>1, <2>3
<1>5. /\ state.onto = onto /\ state.origHead = ours /\ state.tip = onto
      /\ state.todo = plan /\ state.done = <<>> /\ state.current = None
  BY DEF NewRebase, plan
<1> HIDE DEF state
<1>6. Carried(commits, state) = plan
  <2> DEFINE none == [i \in DOMAIN state.done |-> commits[state.done[i]].replays]
  <2>1. none \in Seq(Nat) /\ Len(none) = 0
    <3>1. DOMAIN none = 1..0
      BY <1>5
    <3>2. none = <<>>
      BY <3>1
    <3> QED
      BY <3>2
  <2>2. none \o plan = plan
    <3> HIDE DEF none
    <3> QED
      BY <1>2, <2>1
  <2> QED
    BY <1>5, <2>2 DEF Carried
<1>7. commits[onto].line = commits[onto].line \o <<>>
  <2>1. commits[onto].line \in Seq(Nat)
    BY <1>1, IsRecord
  <2> QED
    BY <2>1
<1> QED
  BY <1>3, <1>4, <1>5, <1>6, <1>7 DEF Ordered, state

LEMMA OneAfter ==
    ASSUME NEW a \in Seq(Nat), NEW b \in Seq(Nat), NEW x \in Nat
    PROVE  (a \o b) \o <<x>> = a \o (b \o <<x>>)
<1> DEFINE one == <<x>>
<1>1. one \in Seq(Nat)
  OBVIOUS
<1> HIDE DEF one
<1>2. (a \o b) \o one = a \o (b \o one)
  BY <1>1, ConcatAssociative
<1> QED
  BY <1>2 DEF one

LEMMA OneBetween ==
    ASSUME NEW a \in Seq(Nat), NEW b \in Seq(Nat), NEW x \in Nat
    PROVE  (a \o <<x>>) \o b = a \o (<<x>> \o b)
<1> DEFINE one == <<x>>
<1>1. one \in Seq(Nat)
  OBVIOUS
<1> HIDE DEF one
<1>2. (a \o one) \o b = a \o (one \o b)
  BY <1>1, ConcatAssociative
<1> QED
  BY <1>2 DEF one

(* The first of what is to do moves to the end of what is done, ...         *)
LEMMA Moved ==
    ASSUME NEW a \in Seq(Nat), NEW b \in Seq(Nat), NEW t \in Seq(Nat), t # <<>>,
           Len(b) = Len(a) + 1, \A i \in 1..Len(a) : b[i] = a[i], b[Len(a) + 1] = t[1]
    PROVE  b \o Rest(t) = a \o t
<1> DEFINE x == t[1]
<1>1. x \in Nat /\ <<x>> \in Seq(Nat) /\ Rest(t) \in Seq(Nat)
  BY RestOf
<1>2. b = a \o <<x>>
  <2>1. b = Append(a, x)
    <3>1. /\ Append(a, x) \in Seq(Nat) /\ Len(Append(a, x)) = Len(a) + 1
          /\ \A i \in 1..Len(a) : Append(a, x)[i] = a[i]
          /\ Append(a, x)[Len(a) + 1] = x
      BY <1>1, AppendProperties
    <3>2. \A i \in 1..Len(b) : b[i] = Append(a, x)[i]
      BY <3>1
    <3> QED
      BY <3>1, <3>2, SeqEqual
  <2> QED
    BY <1>1, <2>1, AppendIsConcat
<1>3. <<x>> \o Rest(t) = t
  <2>1. 1 \in 1..Len(t) /\ Len(t) \in 1..Len(t)
    OBVIOUS
  <2>2. SubSeq(t, 1, Len(t)) = <<t[1]>> \o SubSeq(t, 1 + 1, Len(t))
    BY <2>1, SubSeqRecursiveFirst
  <2>3. SubSeq(t, 1, Len(t)) = t
    BY SubSeqFull
  <2> QED
    BY <2>2, <2>3 DEF Rest
<1>4. (a \o <<x>>) \o Rest(t) = a \o (<<x>> \o Rest(t))
  BY <1>1, OneBetween
<1> QED
  BY <1>2, <1>3, <1>4

(* ... or is dropped.                                                       *)
LEMMA Dropped ==
    ASSUME NEW a \in Seq(Nat), NEW t \in Seq(Nat), Ascends(a \o t)
    PROVE  Ascends(a \o Rest(t)) /\ ToSet(a \o Rest(t)) \subseteq ToSet(a \o t)
<1> DEFINE r == Rest(t)
           at(i) == IF i <= Len(a) THEN i ELSE i + 1
<1>1. /\ r \in Seq(Nat) /\ Len(r) = IF t = <<>> THEN 0 ELSE Len(t) - 1
      /\ \A i \in 1..Len(r) : r[i] = t[i + 1]
  BY RestOf
<1> HIDE DEF r
<1> DEFINE u == a \o r  v == a \o t
<1>2. /\ u \in Seq(Nat) /\ v \in Seq(Nat)
      /\ Len(u) = Len(a) + Len(r) /\ Len(v) = Len(a) + Len(t)
      /\ \A i \in 1..(Len(a) + Len(r)) : u[i] = IF i <= Len(a) THEN a[i] ELSE r[i - Len(a)]
      /\ \A i \in 1..(Len(a) + Len(t)) : v[i] = IF i <= Len(a) THEN a[i] ELSE t[i - Len(a)]
  BY <1>1, ConcatProperties
<1>3. Ascends(v)
  OBVIOUS
<1> HIDE DEF u, v
<1>4. /\ DOMAIN u = 1..(Len(a) + Len(r)) /\ DOMAIN v = 1..(Len(a) + Len(t))
      /\ Len(a) \in Nat /\ Len(r) \in Nat /\ Len(t) \in Nat
  BY <1>1, <1>2
<1>5. ASSUME NEW i \in DOMAIN u PROVE at(i) \in DOMAIN v /\ u[i] = v[at(i)]
  <2>1. CASE i <= Len(a)
    <3>1. at(i) = i /\ i \in 1..(Len(a) + Len(t)) /\ i \in 1..(Len(a) + Len(r))
      BY <1>4, <2>1
    <3> QED
      BY <1>2, <1>4, <2>1, <3>1
  <2>2. CASE i > Len(a)
    <3>1. i - Len(a) \in 1..Len(r) /\ u[i] = r[i - Len(a)] /\ Len(r) # 0
      BY <1>2, <1>4, <2>2
    <3>2. t # <<>> /\ Len(r) = Len(t) - 1
      BY <1>1, <3>1
    <3>3. at(i) = i + 1 /\ i + 1 \in 1..(Len(a) + Len(t)) /\ ~(i + 1 <= Len(a))
      BY <1>4, <2>2, <3>2
    <3>4. v[i + 1] = t[(i + 1) - Len(a)]
      BY <1>2, <3>3
    <3>5. r[i - Len(a)] = t[(i - Len(a)) + 1]
      BY <1>1, <3>1
    <3>6. (i - Len(a)) + 1 = (i + 1) - Len(a)
      BY <1>4
    <3> QED
      BY <1>4, <3>1, <3>3, <3>4, <3>5, <3>6
  <2> QED
    BY <1>4, <2>1, <2>2
<1>6. ASSUME NEW i \in DOMAIN u, NEW j \in DOMAIN u, i < j PROVE at(i) < at(j)
  BY <1>4, <1>6
<1> HIDE DEF at
<1>7. Ascends(u)
  BY <1>3, <1>5, <1>6 DEF Ascends
<1>8. ToSet(u) \subseteq ToSet(v)
  BY <1>5 DEF ToSet
<1> QED
  BY <1>7, <1>8 DEF r, u, v

(* What an interrupted rebase finds.                                        *)
LEMMA StateFound ==
    ASSUME Inv, REBASE_STATE # None
    PROVE  /\ REBASE_STATE \in RebaseState /\ Hashes(REBASE_STATE) \subseteq DOMAIN commits
           /\ REBASE_STATE.done \in Seq(Nat) /\ REBASE_STATE.todo \in Seq(Nat)
           /\ [i \in DOMAIN REBASE_STATE.done |-> commits[REBASE_STATE.done[i]].replays] \in Seq(Nat)
<1>1. REBASE_STATE \in RebaseState /\ Hashes(REBASE_STATE) \subseteq DOMAIN commits
  BY Found, GoodCommits
<1>2. REBASE_STATE.done \in Seq(Nat) /\ REBASE_STATE.todo \in Seq(Nat)
  <2>1. REBASE_STATE.done \in Seq(Commit) /\ REBASE_STATE.todo \in Seq(Commit)
    BY <1>1 DEF RebaseState
  <2>2. Commit \subseteq Nat
    BY VcAssumption DEF Commit
  <2> QED
    BY <2>1, <2>2, SeqMonotonic
<1>3. \A i \in DOMAIN REBASE_STATE.done : commits[REBASE_STATE.done[i]].replays \in Nat
  <2>1. \A i \in DOMAIN REBASE_STATE.done : REBASE_STATE.done[i] \in DOMAIN commits
    BY <1>1 DEF Hashes, ToSet
  <2> QED
    BY <2>1, IsRecord
<1> DEFINE done == REBASE_STATE.done
           replayed == [i \in DOMAIN done |-> commits[done[i]].replays]
<1>4. DOMAIN done = 1..Len(done) /\ Len(done) \in Nat
  BY <1>2
<1>5. replayed \in Seq(Nat)
  <2>1. replayed \in [1..Len(done) -> Nat]
    BY <1>3, <1>4
  <2> QED
    BY <1>4, <2>1, SeqDef
<1> QED
  BY <1>1, <1>2, <1>5

LEMMA AdvancedOrdered ==
    ASSUME Inv, ReplayInv, REBASE_STATE # None, REBASE_STATE.todo # <<>>, Room,
           NEW cs, cs = Append(commits, MakeCommit(<<REBASE_STATE.tip>>, REBASE_STATE.todo[1]))
    PROVE  Ordered(cs, Advanced(REBASE_STATE, Fresh))
<1> DEFINE state == REBASE_STATE
           next == Advanced(REBASE_STATE, Fresh)
           new == MakeCommit(<<state.tip>>, state.todo[1])
           a == [i \in DOMAIN state.done |-> commits[state.done[i]].replays]
           b == [i \in DOMAIN next.done |-> cs[next.done[i]].replays]
<1>1. /\ state \in RebaseState /\ Hashes(state) \subseteq DOMAIN commits
      /\ state.done \in Seq(Nat) /\ state.todo \in Seq(Nat) /\ a \in Seq(Nat)
      /\ Ordered(commits, state)
  BY StateFound DEF ReplayInv
<1>2. state.tip \in DOMAIN commits /\ state.onto \in DOMAIN commits
      /\ state.origHead \in DOMAIN commits
      /\ \A i \in DOMAIN state.done : state.done[i] \in DOMAIN commits
  BY <1>1 DEF Hashes, ToSet
<1>3. Fresh \in Nat /\ Fresh \notin DOMAIN commits /\ state.todo[1] \in Nat
  BY <1>1 DEF Fresh, Inv, TypeOK
<1>4. new \in CommitRecord /\ new.replays = state.todo[1]
      /\ new.line = commits[state.tip].line \o <<Fresh>>
  <2>1. new \in CommitRecord
    BY <1>2, <1>3, MakeCommitSound DEF Inv
  <2> QED
    BY <2>1 DEF MakeCommit
<1> HIDE DEF new
<1>5. cs[Fresh] = new /\ \A c \in DOMAIN commits : cs[c] = commits[c]
  <2>1. cs = Append(commits, new)
    BY DEF new
  <2> QED
    BY <1>4, <2>1 DEF Inv, TypeOK, Fresh
<1>6. /\ next.onto = state.onto /\ next.origHead = state.origHead /\ next.tip = Fresh
      /\ next.todo = Rest(state.todo) /\ next.done = Append(state.done, Fresh)
      /\ next.current = None
  BY <1>1 DEF Advanced, RebaseState
<1> HIDE DEF next
<1>7. /\ Len(next.done) = Len(state.done) + 1 /\ next.done \in Seq(Nat)
      /\ \A i \in 1..Len(state.done) : next.done[i] = state.done[i]
      /\ next.done[Len(state.done) + 1] = Fresh
      /\ DOMAIN state.done = 1..Len(state.done) /\ Len(state.done) \in Nat
      /\ DOMAIN next.done = 1..Len(next.done)
  BY <1>1, <1>3, <1>6
<1>8. cs[next.tip].line = cs[next.onto].line \o next.done
  <2> DEFINE base == commits[state.onto].line
  <2>1. base \in Seq(Nat)
    BY <1>2, IsRecord
  <2>2. new.line = (base \o state.done) \o <<Fresh>>
    BY <1>1, <1>4 DEF Ordered
  <2> HIDE DEF base
  <2>3. (base \o state.done) \o <<Fresh>> = base \o Append(state.done, Fresh)
    <3>1. Append(state.done, Fresh) = state.done \o <<Fresh>>
      BY <1>1, <1>3, AppendIsConcat
    <3>2. Fresh \in Nat /\ state.done \in Seq(Nat)
      BY <1>1, <1>3
    <3>3. (base \o state.done) \o <<Fresh>> = base \o (state.done \o <<Fresh>>)
      BY <2>1, <3>2, OneAfter
    <3> QED
      BY <3>1, <3>3
  <2> QED
    BY <1>2, <1>5, <1>6, <2>2, <2>3 DEF base
<1>9. Carried(cs, next) = Carried(commits, state)
  <2>1. Len(a) = Len(state.done)
    <3>1. DOMAIN a = DOMAIN state.done
      OBVIOUS
    <3> HIDE DEF a
    <3> QED
      BY <1>1, <1>7, <3>1
  <2>2. \A i \in 1..Len(state.done) : i \in DOMAIN b /\ b[i] = commits[state.done[i]].replays
    <3>1. \A i \in 1..Len(state.done) :
             i \in DOMAIN next.done /\ i \in DOMAIN state.done /\ next.done[i] = state.done[i]
      BY <1>7
    <3> QED
      BY <1>2, <1>5, <3>1
  <2>3. Len(state.done) + 1 \in DOMAIN b /\ b[Len(state.done) + 1] = state.todo[1]
    <3>1. Len(state.done) + 1 \in DOMAIN next.done
      BY <1>7
    <3> QED
      BY <1>4, <1>5, <1>7, <3>1
  <2>4. \A i \in 1..Len(state.done) :
           a[i] = commits[state.done[i]].replays /\ commits[state.done[i]].replays \in Nat
    BY <1>2, <1>7, IsRecord
  <2>5. DOMAIN b = 1..(Len(state.done) + 1)
    BY <1>7
  <2>6. b = [i \in DOMAIN b |-> b[i]]
    OBVIOUS
  <2> HIDE DEF a, b
  <2>7. b \in [1..(Len(state.done) + 1) -> Nat]
    <3>1. ASSUME NEW i \in 1..(Len(state.done) + 1) PROVE b[i] \in Nat
      <4>1. i \in 1..Len(state.done) \/ i = Len(state.done) + 1
        BY <1>7
      <4> QED
        BY <1>3, <2>2, <2>3, <2>4, <4>1
    <3> QED
      BY <2>5, <2>6, <3>1
  <2>8. b \in Seq(Nat) /\ Len(b) = Len(a) + 1
    <3>1. Len(state.done) + 1 \in Nat
      BY <1>7
    <3>2. b \in Seq(Nat)
      BY <2>7, <3>1, SeqDef
    <3> QED
      BY <2>1, <2>5, <3>1, <3>2, LenProperties
  <2>9. b \o Rest(state.todo) = a \o state.todo
    <3>1. \A i \in 1..Len(a) : b[i] = a[i]
      BY <2>1, <2>2, <2>4
    <3>2. b[Len(a) + 1] = state.todo[1]
      BY <2>1, <2>3
    <3> QED
      BY <1>1, <2>8, <3>1, <3>2, Moved
  <2> QED
    BY <1>6, <2>9 DEF Carried, a, b
<1>10. Plan(cs, next.origHead, next.onto) = Plan(commits, state.origHead, state.onto)
  BY <1>2, <1>5, <1>6 DEF Plan
<1> QED
  BY <1>1, <1>6, <1>8, <1>9, <1>10 DEF Ordered, next

LEMMA SkippedOrdered ==
    ASSUME Inv, ReplayInv, REBASE_STATE # None
    PROVE  Ordered(commits, Skipped(REBASE_STATE))
<1> DEFINE state == REBASE_STATE
           next == Skipped(REBASE_STATE)
           a == [i \in DOMAIN state.done |-> commits[state.done[i]].replays]
<1>1. state \in RebaseState /\ state.todo \in Seq(Nat) /\ a \in Seq(Nat) /\ Ordered(commits, state)
  BY StateFound DEF ReplayInv
<1>2. /\ next.onto = state.onto /\ next.origHead = state.origHead /\ next.tip = state.tip
      /\ next.todo = Rest(state.todo) /\ next.done = state.done /\ next.current = None
  BY <1>1 DEF Skipped, RebaseState
<1> HIDE DEF next, a
<1>3. Carried(commits, state) = a \o state.todo /\ Carried(commits, next) = a \o Rest(state.todo)
  BY <1>2 DEF Carried, a
<1>4. /\ Ascends(Carried(commits, next))
      /\ ToSet(Carried(commits, next)) \subseteq ToSet(Carried(commits, state))
  BY <1>1, <1>3, Dropped DEF Ordered
<1> QED
  BY <1>1, <1>2, <1>4 DEF Ordered, next

LEMMA PausedOrdered ==
    ASSUME Inv, ReplayInv, REBASE_STATE # None, REBASE_STATE.todo # <<>>
    PROVE  Ordered(commits, [REBASE_STATE EXCEPT !.current = REBASE_STATE.todo[1]])
<1> DEFINE state == REBASE_STATE
           next == [REBASE_STATE EXCEPT !.current = REBASE_STATE.todo[1]]
<1>1. state \in RebaseState /\ Ordered(commits, state)
  BY StateFound DEF ReplayInv
<1>2. /\ next.onto = state.onto /\ next.origHead = state.origHead /\ next.tip = state.tip
      /\ next.todo = state.todo /\ next.done = state.done /\ next.current = state.todo[1]
  BY <1>1 DEF RebaseState
<1> HIDE DEF next
<1>3. Carried(commits, next) = Carried(commits, state)
  BY <1>2 DEF Carried
<1> QED
  BY <1>1, <1>2, <1>3 DEF Ordered, next

(* A rebase that begins, goes on, pauses or is skipped writes such states.  *)
LEMMA OneState ==
    ASSUME NEW q, NEW n \in DOMAIN q, NEW state, q[n] = SetState(state),
           Ordered(commits, state), \A k \in DOMAIN q : q[k].file # "object",
           \A k \in DOMAIN q \ {n} : q[k].file # "REBASE_STATE"
    PROVE  Follows(q)
<1>1. q[n].value = state
  BY DEF SetState, Set
<1> QED
  BY <1>1 DEF Follows

LEMMA StepFollows ==
    ASSUME Inv, ReplayInv, REBASE_STATE # None, REBASE_STATE.todo # <<>>, Room, NEW q,
           q = <<Put(MakeCommit(<<REBASE_STATE.tip>>, REBASE_STATE.todo[1])),
                 SetState(Advanced(REBASE_STATE, Fresh))>>
    PROVE  Follows(q)
<1> DEFINE new == MakeCommit(<<REBASE_STATE.tip>>, REBASE_STATE.todo[1])
           next == Advanced(REBASE_STATE, Fresh)
<1>1. Ordered(Append(commits, new), next)
  BY AdvancedOrdered
<1> HIDE DEF new, next
<1>2. q = <<Put(new), SetState(next)>>
  BY DEF new, next
<1>3. /\ DOMAIN q = {1, 2}
      /\ q[1].file = "object" /\ q[1].commit = new /\ q[2].value = next
  BY <1>2 DEF Put, SetState, Set
<1> QED
  BY <1>1, <1>3 DEF Follows

LEMMA RebaseOpReplays == ASSUME Inv, ReplayInv, RebaseOp, ~Others PROVE ReplayInv'
<1>1. UNCHANGED disk
  BY DEF RebaseOp, Others, RebaseFastForward, Rebase, StartReplay, RebaseStep, RebasePause,
         RebaseFinish, RebaseContinue, RebaseSkip, RebaseAbort, Start
<1>2. SUFFICES Follows(pending')
  BY <1>1 DEF ReplayInv, Follows, disk
<1>3. ASSUME NEW ref \in Ref, Rebase(ref) PROVE Follows(pending')
  <2> DEFINE state == NewRebase(resolveHead, refs[ref])
  <2>1. resolveHead \in Good /\ refs[ref] \in Good
        /\ pending' = <<Set("ORIG_HEAD", resolveHead), SetState(state)>>
    BY <1>3, Found DEF Rebase, StartReplay
  <2>2. Ordered(commits, state)
    BY <2>1, NewOrdered
  <2> HIDE DEF state
  <2>3. /\ DOMAIN pending' = {1, 2} /\ pending'[2] = SetState(state)
        /\ pending'[1].file = "ORIG_HEAD" /\ pending'[2].file = "REBASE_STATE"
    BY <2>1 DEF Set, SetState
  <2> QED
    BY <2>2, <2>3, OneState
<1>4. CASE RebaseStep
  BY <1>4, AtWork, StepFollows DEF RebaseStep
<1>5. CASE RebasePause
  <2> DEFINE state == [REBASE_STATE EXCEPT !.current = REBASE_STATE.todo[1]]
  <2>1. Ordered(commits, state) /\ pending' = <<SetState(state)>>
    BY <1>5, AtWork, PausedOrdered DEF RebasePause
  <2> HIDE DEF state
  <2>2. DOMAIN pending' = {1} /\ pending'[1] = SetState(state) /\ pending'[1].file = "REBASE_STATE"
    BY <2>1 DEF SetState, Set
  <2> QED
    BY <2>1, <2>2, OneState
<1>6. CASE RebaseFinish
  BY <1>6 DEF RebaseFinish, Follows, SetRef, Log, SetState, Set
<1>7. CASE RebaseContinue
  <2>1. CASE StartReplay(<<>>)
    BY <2>1 DEF StartReplay, Follows
  <2>2. CASE ~StartReplay(<<>>)
    <3>1. /\ REBASE_STATE # None /\ REBASE_STATE.current # None /\ Room
          /\ pending' = <<Put(MakeCommit(<<REBASE_STATE.tip>>, REBASE_STATE.current)),
                          SetState(Advanced(REBASE_STATE, Fresh))>>
      BY <1>7, <2>2 DEF RebaseContinue, StartReplay
    <3>2. REBASE_STATE.todo # <<>> /\ REBASE_STATE.current = REBASE_STATE.todo[1]
      BY <3>1 DEF ReplayInv, Ordered
    <3> QED
      BY <3>1, <3>2, StepFollows
  <2> QED
    BY <2>1, <2>2
<1>8. CASE RebaseSkip
  <2> DEFINE state == Skipped(REBASE_STATE)
  <2>1. Ordered(commits, state) /\ pending' = <<SetState(state)>>
    BY <1>8, SkippedOrdered DEF RebaseSkip, StartReplay
  <2> HIDE DEF state
  <2>2. DOMAIN pending' = {1} /\ pending'[1] = SetState(state) /\ pending'[1].file = "REBASE_STATE"
    BY <2>1 DEF SetState, Set
  <2> QED
    BY <2>1, <2>2, OneState
<1>9. CASE RebaseAbort
  BY <1>9 DEF RebaseAbort, Start, Follows, SetRef, Log, SetState, Set
<1> QED
  BY <1>3, <1>4, <1>5, <1>6, <1>7, <1>8, <1>9 DEF RebaseOp, Others

LEMMA WriteReplays == ASSUME Inv, ReplayInv, Write PROVE ReplayInv'
<1> DEFINE w == Head(pending)  rest == Tail(pending)
<1>1. /\ w = pending[1] /\ 1 \in DOMAIN pending /\ pending' = rest /\ Allowed(w, Good)
      /\ \A k \in DOMAIN rest : /\ k + 1 \in DOMAIN pending /\ rest[k] = pending[k + 1]
                                /\ k \in Nat \ {0}
      /\ \A k \in DOMAIN pending \ {1} : k - 1 \in DOMAIN rest /\ rest[k - 1] = pending[k]
  BY FirstWrite DEF Inv, Write
<1>2. REBASE_STATE' = IF w.file = "REBASE_STATE" THEN w.value ELSE REBASE_STATE
  BY DEF Write, Effect, Register
<1>3. commits' = IF w.file = "object" THEN Append(commits, w.commit) ELSE commits
  BY DEF Write, Effect
<1>4. \A c \in DOMAIN commits : commits'[c] = commits[c]
  BY WriteBrings
<1> HIDE DEF w, rest
<1>5. ASSUME REBASE_STATE' # None PROVE Ordered(commits', REBASE_STATE')
  <2>1. CASE w.file = "REBASE_STATE"
    <3>1. Hashes(w.value) \subseteq DOMAIN commits /\ commits' = commits
      BY <1>1, <1>2, <1>3, <1>5, <2>1, GoodCommits DEF Allowed
    <3>2. CASE Ordered(commits, w.value)
      BY <1>2, <2>1, <3>1, <3>2
    <3>3. CASE \E j \in DOMAIN pending : /\ pending[j].file = "object"
                                         /\ Ordered(Append(commits, pending[j].commit), w.value)
      <4>1. PICK j \in DOMAIN pending : /\ pending[j].file = "object"
                                        /\ Ordered(Append(commits, pending[j].commit), w.value)
        BY <3>3
      <4>2. pending[j].commit \in CommitRecord
        BY <4>1 DEF Inv, TypeOK, WriteRecord
      <4>3. \A c \in DOMAIN commits : Append(commits, pending[j].commit)[c] = commits[c]
        BY <4>2 DEF Inv, TypeOK
      <4>4. Ordered(commits, w.value)
        BY <3>1, <4>1, <4>3, OrderedSame
      <4> QED
        BY <1>2, <2>1, <3>1, <4>4
    <3> QED
      BY <1>1, <1>2, <1>5, <2>1, <3>2, <3>3 DEF ReplayInv, Follows
  <2>2. CASE w.file # "REBASE_STATE"
    <3>1. REBASE_STATE # None /\ REBASE_STATE' = REBASE_STATE
      BY <1>2, <1>5, <2>2
    <3>2. Hashes(REBASE_STATE) \subseteq DOMAIN commits /\ Ordered(commits, REBASE_STATE)
      BY <3>1, StateFound DEF ReplayInv
    <3>3. Ordered(commits', REBASE_STATE)
      BY <1>4, <3>2, OrderedSame
    <3> QED
      BY <3>1, <3>3
  <2> QED
    BY <2>1, <2>2
<1>6. ASSUME NEW k \in DOMAIN rest, rest[k].file = "REBASE_STATE", rest[k].value # None
      PROVE  \/ Ordered(commits', rest[k].value) /\ \A j \in DOMAIN rest : rest[j].file # "object"
             \/ \E j \in DOMAIN rest : /\ rest[j].file = "object"
                                       /\ Ordered(Append(commits', rest[j].commit), rest[k].value)
  <2>1. k + 1 \in DOMAIN pending /\ pending[k + 1] = rest[k]
    BY <1>1
  <2>2. CASE Ordered(commits, rest[k].value) /\ \A j \in DOMAIN pending : pending[j].file # "object"
    <3>1. commits' = commits
      BY <1>1, <1>3, <2>2
    <3>2. \A j \in DOMAIN rest : rest[j].file # "object"
      BY <1>1, <2>2
    <3> QED
      BY <2>2, <3>1, <3>2
  <2>3. CASE \E j \in DOMAIN pending : /\ pending[j].file = "object"
                                       /\ Ordered(Append(commits, pending[j].commit), rest[k].value)
    <3>1. PICK j \in DOMAIN pending : /\ pending[j].file = "object"
                                      /\ Ordered(Append(commits, pending[j].commit), rest[k].value)
      BY <2>3
    <3>2. CASE j = 1
      <4>1. commits' = Append(commits, pending[j].commit)
        BY <1>1, <1>3, <3>1, <3>2
      <4>2. \A i \in DOMAIN pending \ {j} : pending[i].file # "object"
        BY <3>1 DEF Inv, InOrder
      <4>3. \A i \in DOMAIN rest : i + 1 \in DOMAIN pending \ {j} /\ rest[i] = pending[i + 1]
        BY <1>1, <3>2
      <4> QED
        BY <3>1, <4>1, <4>2, <4>3
    <3>3. CASE j # 1
      <4>1. w.file # "object"
        BY <1>1, <3>1, <3>3 DEF Inv, InOrder
      <4>2. commits' = commits /\ j - 1 \in DOMAIN rest /\ rest[j - 1] = pending[j]
        BY <1>1, <1>3, <3>3, <4>1
      <4> QED
        BY <3>1, <4>2
    <3> QED
      BY <3>2, <3>3
  <2> QED
    BY <1>6, <2>1, <2>2, <2>3 DEF ReplayInv, Follows
<1> QED
  BY <1>1, <1>5, <1>6 DEF ReplayInv, Follows

LEMMA ImportReplays == ASSUME Inv, ReplayInv, ImportObject PROVE ReplayInv'
<1>1. /\ pending # <<>> /\ Head(pending).file = "import"
      /\ UNCHANGED <<commits, REBASE_STATE>>
      /\ pending' = pending \/ pending' = Tail(pending)
  BY DEF ImportObject
<1>2. /\ Head(pending) = pending[1] /\ 1 \in DOMAIN pending
      /\ \A k \in DOMAIN Tail(pending) : k + 1 \in DOMAIN pending /\ Tail(pending)[k] = pending[k + 1]
      /\ \A k \in DOMAIN pending \ {1} : k - 1 \in DOMAIN Tail(pending)
                                         /\ Tail(pending)[k - 1] = pending[k]
  BY <1>1, FirstWrite DEF Inv
<1> DEFINE rest == Tail(pending)
<1> HIDE DEF rest
<1>3. Follows(rest)
  <2> SUFFICES ASSUME NEW k \in DOMAIN rest, rest[k].file = "REBASE_STATE", rest[k].value # None
               PROVE  \/ /\ Ordered(commits, rest[k].value)
                         /\ \A j \in DOMAIN rest : rest[j].file # "object"
                      \/ \E j \in DOMAIN rest :
                            /\ rest[j].file = "object"
                            /\ Ordered(Append(commits, rest[j].commit), rest[k].value)
    BY DEF Follows
  <2>1. k + 1 \in DOMAIN pending /\ pending[k + 1] = rest[k]
    BY <1>2 DEF rest
  <2>2. \A j \in DOMAIN rest : j + 1 \in DOMAIN pending /\ rest[j] = pending[j + 1]
    BY <1>2 DEF rest
  <2>3. \A j \in DOMAIN pending : pending[j].file = "object" =>
           j - 1 \in DOMAIN rest /\ rest[j - 1] = pending[j]
    BY <1>1, <1>2 DEF rest
  <2> QED
    BY <2>1, <2>2, <2>3 DEF ReplayInv, Follows
<1> QED
  BY <1>1, <1>3 DEF ReplayInv, Follows, rest

LEMMA PeerPushReplays == ASSUME Inv, ReplayInv, PeerPush PROVE ReplayInv'
<1>1. /\ UNCHANGED <<REBASE_STATE, pending>> /\ pending = <<>>
      /\ \E parents : commits' = Append(commits, MakeCommit(parents, Fresh))
  BY DEF PeerPush, Begin, Idle
<1>2. \A c \in DOMAIN commits : commits'[c] = commits[c]
  <2>1. PICK new : commits' = Append(commits, new)
    BY <1>1
  <2> QED
    BY <2>1 DEF Inv, TypeOK
<1>3. Follows(pending)'
  BY <1>1 DEF Follows
<1>4. ASSUME REBASE_STATE # None PROVE Ordered(commits', REBASE_STATE)
  BY <1>2, <1>4, StateFound, OrderedSame DEF ReplayInv
<1> QED
  BY <1>1, <1>3, <1>4 DEF ReplayInv

LEMMA ReplayNext == Inv /\ ReplayInv /\ [Next]_vars => ReplayInv'
<1> SUFFICES ASSUME Inv, ReplayInv, [Next]_vars PROVE ReplayInv'
  OBVIOUS
<1>1. CASE Others
  BY <1>1, OthersQuiet, QuietFollows
<1>2. CASE RebaseOp /\ ~Others
  BY <1>2, RebaseOpReplays
<1>3. CASE Return \/ Crash
  <2>1. UNCHANGED disk /\ (pending' = pending \/ pending' = <<>>)
    BY <1>3 DEF Return, Crash, Forget
  <2> QED
    BY <2>1 DEF ReplayInv, Follows, disk
<1>4. CASE Gc
  BY <1>4 DEF Gc, ReplayInv, Follows
<1>5. CASE UNCHANGED vars
  BY <1>5 DEF vars, disk, ReplayInv, Follows
<1> QED
  BY <1>1, <1>2, <1>3, <1>4, <1>5, WriteReplays, ImportReplays, PeerPushReplays
     DEF Next, Others, Remote

(* Through pauses, skips and crashes, of any branch onto any other: nothing *)
(* is replayed twice, out of order, or from outside the branch.             *)
THEOREM ReplaysInOrder == Spec => []ReplayOrder
<1>1. Init => ReplayInv
  BY DEF Init, ReplayInv, Follows
<1>2. ReplayInv => ReplayOrder
  <2> SUFFICES ASSUME ReplayInv, REBASE_STATE # None PROVE ReplayOrder
    BY DEF ReplayOrder
  <2>1. Ordered(commits, REBASE_STATE)
    BY DEF ReplayInv
  <2>2. Plan(commits, REBASE_STATE.origHead, REBASE_STATE.onto) =
           commitsToReplay(REBASE_STATE.origHead, REBASE_STATE.onto)
    BY DEF Plan, commitsToReplay
  <2> QED
    BY <2>1, <2>2 DEF ReplayOrder, Ordered, Carried, Ascends
<1> QED
  BY <1>1, <1>2, Invariance, ReplayNext, PTL DEF Spec

-----------------------------------------------------------------------------
(* The branch of a rebase.                                                 *)

(* RebaseOwnsBranch, of any state.                                          *)
HeldIn(head, rs, state) ==
    /\ head = state.branch
    /\ rs[head] = state.origHead \/ (state.todo = <<>> /\ rs[head] = state.tip)

Held(state) == HeldIn(HEAD, refs, state)

(* A write that moves neither HEAD nor a branch, ...                        *)
Away(w) == w.file # "HEAD" /\ (w.file = "ref" => w.ref = Tracking)

(* ... or that ends the rebase.                                             *)
EndsOrAway(w, state) ==
    \/ Away(w)
    \/ /\ w.file = "ref" /\ w.ref = state.branch
       /\ w.value = state.origHead \/ (state.todo = <<>> /\ w.value = state.tip)

OwnInv ==
    /\ REBASE_STATE # None =>
          Held(REBASE_STATE) /\ \A k \in DOMAIN pending : EndsOrAway(pending[k], REBASE_STATE)
    /\ \A k \in DOMAIN pending : pending[k].file = "REBASE_STATE" /\ pending[k].value # None =>
          Held(pending[k].value) /\ \A j \in DOMAIN pending : Away(pending[j])

(* A step of a rebase that is under way writes a state that still holds the *)
(* branch, and moves nothing.                                               *)
LEMMA HeldOn ==
    ASSUME OwnInv, REBASE_STATE # None, UNCHANGED disk, NEW state, Held(state),
           \A k \in DOMAIN pending' :
              /\ Away(pending'[k])
              /\ pending'[k].file = "REBASE_STATE" => pending'[k].value = state
    PROVE  OwnInv'
<1>1. HEAD' = HEAD /\ refs' = refs /\ REBASE_STATE' = REBASE_STATE
  BY DEF disk
<1> QED
  BY <1>1 DEF OwnInv, Held, HeldIn, Away, EndsOrAway

LEMMA RebaseOpOwns ==
    ASSUME Inv, ReplayInv, OwnInv, RebaseOp, ~Others PROVE OwnInv'
<1>1. UNCHANGED disk
  BY DEF RebaseOp, Others, RebaseFastForward, Rebase, StartReplay, RebaseStep, RebasePause,
         RebaseFinish, RebaseContinue, RebaseSkip, RebaseAbort, Start
<1>2. HEAD' = HEAD /\ refs' = refs /\ REBASE_STATE' = REBASE_STATE
  BY <1>1 DEF disk
<1>3. ASSUME REBASE_STATE # None
      PROVE  /\ Held(REBASE_STATE) /\ REBASE_STATE \in RebaseState
             /\ Held(Skipped(REBASE_STATE))
             /\ REBASE_STATE.todo # <<>> =>
                   /\ Held(Advanced(REBASE_STATE, Fresh))
                   /\ Held([REBASE_STATE EXCEPT !.current = REBASE_STATE.todo[1]])
  <2> DEFINE state == REBASE_STATE
  <2>1. Held(state) /\ state \in RebaseState /\ state.todo \in Seq(Nat)
    BY <1>3, StateFound DEF OwnInv
  <2>2. /\ Skipped(state).branch = state.branch /\ Skipped(state).origHead = state.origHead
        /\ Skipped(state).tip = state.tip /\ Skipped(state).todo = Rest(state.todo)
    BY <2>1 DEF Skipped, RebaseState
  <2>3. state.todo = <<>> => Rest(state.todo) = <<>>
    <3>1. Rest(state.todo) \in Seq(Nat) /\ (state.todo = <<>> => Len(Rest(state.todo)) = 0)
      BY <2>1, RestOf
    <3> QED
      BY <3>1, EmptySeq
  <2>4. Held(Skipped(state))
    BY <2>1, <2>2, <2>3 DEF Held, HeldIn
  <2>5. /\ Advanced(state, Fresh).branch = state.branch
        /\ Advanced(state, Fresh).origHead = state.origHead
    BY <2>1 DEF Advanced, RebaseState
  <2>6. /\ [state EXCEPT !.current = state.todo[1]].branch = state.branch
        /\ [state EXCEPT !.current = state.todo[1]].origHead = state.origHead
    BY <2>1 DEF RebaseState
  <2> QED
    BY <2>1, <2>4, <2>5, <2>6 DEF Held, HeldIn
<1>4. ASSUME NEW ref \in Ref, Rebase(ref) PROVE OwnInv'
  <2> DEFINE state == NewRebase(resolveHead, refs[ref])
  <2>1. /\ REBASE_STATE = None /\ HEAD \in Heads
        /\ pending' = <<Set("ORIG_HEAD", resolveHead), SetState(state)>>
    BY <1>4 DEF Rebase, StartReplay, noRebaseInProgress
  <2>2. Held(state)
    BY <2>1 DEF Held, HeldIn, NewRebase, resolveHead
  <2> HIDE DEF state
  <2>3. /\ DOMAIN pending' = {1, 2} /\ pending'[1].file = "ORIG_HEAD"
        /\ pending'[2].file = "REBASE_STATE" /\ pending'[2].value = state
    BY <2>1 DEF Set, SetState
  <2> QED
    BY <1>2, <2>1, <2>2, <2>3 DEF OwnInv, Held, HeldIn, Away
<1>5. ASSUME REBASE_STATE # None, REBASE_STATE.todo # <<>>, NEW new,
             pending' = <<Put(new), SetState(Advanced(REBASE_STATE, Fresh))>>
      PROVE  OwnInv'
  <2> DEFINE state == Advanced(REBASE_STATE, Fresh)
  <2>1. Held(state)
    BY <1>3, <1>5
  <2> HIDE DEF state
  <2>2. pending' = <<Put(new), SetState(state)>>
    BY <1>5 DEF state
  <2>3. /\ DOMAIN pending' = {1, 2} /\ pending'[1].file = "object"
        /\ pending'[2].file = "REBASE_STATE" /\ pending'[2].value = state
    BY <2>2 DEF Put, Set, SetState
  <2> QED
    BY <1>1, <1>5, <2>1, <2>3, HeldOn DEF Away
<1>6. CASE RebaseStep
  BY <1>5, <1>6, AtWork DEF RebaseStep
<1>7. CASE RebasePause
  <2> DEFINE state == [REBASE_STATE EXCEPT !.current = REBASE_STATE.todo[1]]
  <2>1. REBASE_STATE # None /\ Held(state) /\ pending' = <<SetState(state)>>
    BY <1>3, <1>7, AtWork DEF RebasePause
  <2> HIDE DEF state
  <2>2. DOMAIN pending' = {1} /\ pending'[1].file = "REBASE_STATE" /\ pending'[1].value = state
    BY <2>1 DEF SetState, Set
  <2> QED
    BY <1>1, <2>1, <2>2, HeldOn DEF Away
<1>8. ASSUME REBASE_STATE # None, NEW old, NEW new,
             new = REBASE_STATE.origHead \/ (REBASE_STATE.todo = <<>> /\ new = REBASE_STATE.tip),
             pending' = <<SetRef(REBASE_STATE.branch, new), Log(old, new), SetState(None)>>
      PROVE  OwnInv'
  <2>1. /\ DOMAIN pending' = {1, 2, 3} /\ pending'[1].file = "ref"
        /\ pending'[1].ref = REBASE_STATE.branch /\ pending'[1].value = new
        /\ pending'[2].file = "log"
        /\ pending'[3].file = "REBASE_STATE" /\ pending'[3].value = None
    BY <1>8 DEF SetRef, Log, SetState, Set
  <2>2. \A k \in DOMAIN pending' : EndsOrAway(pending'[k], REBASE_STATE)
    BY <1>8, <2>1 DEF EndsOrAway, Away
  <2>3. Held(REBASE_STATE)
    BY <1>3, <1>8
  <2> QED
    BY <1>2, <2>1, <2>2, <2>3 DEF OwnInv, Held, EndsOrAway, Away
<1>9. CASE RebaseFinish
  BY <1>8, <1>9, AtWork DEF RebaseFinish
<1>10. CASE RebaseContinue
  <2>1. CASE StartReplay(<<>>)
    BY <1>2, <2>1 DEF StartReplay, OwnInv, Held
  <2>2. CASE ~StartReplay(<<>>)
    <3>1. /\ REBASE_STATE # None /\ REBASE_STATE.current # None
          /\ pending' = <<Put(MakeCommit(<<REBASE_STATE.tip>>, REBASE_STATE.current)),
                          SetState(Advanced(REBASE_STATE, Fresh))>>
      BY <1>10, <2>2 DEF RebaseContinue, StartReplay
    <3>2. REBASE_STATE.todo # <<>>
      BY <3>1 DEF ReplayInv, Ordered
    <3> QED
      BY <1>5, <3>1, <3>2
  <2> QED
    BY <2>1, <2>2
<1>11. CASE RebaseSkip
  <2> DEFINE state == Skipped(REBASE_STATE)
  <2>1. REBASE_STATE # None /\ Held(state) /\ pending' = <<SetState(state)>>
    BY <1>3, <1>11 DEF RebaseSkip, StartReplay
  <2> HIDE DEF state
  <2>2. DOMAIN pending' = {1} /\ pending'[1].file = "REBASE_STATE" /\ pending'[1].value = state
    BY <2>1 DEF SetState, Set
  <2> QED
    BY <1>1, <2>1, <2>2, HeldOn DEF Away
<1>12. CASE RebaseAbort
  BY <1>8, <1>12 DEF RebaseAbort, Start
<1> QED
  BY <1>4, <1>6, <1>7, <1>9, <1>10, <1>11, <1>12 DEF RebaseOp, Others

LEMMA WriteOwns == ASSUME Inv, OwnInv, Write PROVE OwnInv'
<1> DEFINE w == Head(pending)  rest == Tail(pending)
<1>1. /\ w = pending[1] /\ 1 \in DOMAIN pending /\ pending' = rest
      /\ \A k \in DOMAIN rest : k + 1 \in DOMAIN pending /\ rest[k] = pending[k + 1]
      /\ \A k \in DOMAIN pending : pending[k] \in WriteRecord
  BY FirstWrite DEF Inv, TypeOK, Write
<1>2. /\ REBASE_STATE' = IF w.file = "REBASE_STATE" THEN w.value ELSE REBASE_STATE
      /\ HEAD' = IF w.file = "HEAD" THEN w.value ELSE HEAD
      /\ refs' = IF w.file = "ref" THEN [refs EXCEPT ![w.ref] = w.value] ELSE refs
  BY DEF Write, Effect, Register
<1>3. refs \in [Ref -> Commit \cup {None}] /\ Heads \subseteq Ref /\ Tracking \notin Heads
  BY VcAssumption DEF Inv, TypeOK, Ref
<1>4. REBASE_STATE # None => REBASE_STATE \in RebaseState
  BY DEF Inv, TypeOK
<1>5. \A k \in DOMAIN pending : pending[k].file = "REBASE_STATE" /\ pending[k].value # None =>
         pending[k].value \in RebaseState
  BY <1>1 DEF WriteRecord
<1> HIDE DEF w, rest
<1>6. ASSUME NEW state \in RebaseState, Held(state), Away(w)
      PROVE  HeldIn(HEAD', refs', state)
  <2>1. HEAD' = HEAD /\ HEAD \in Heads
    BY <1>2, <1>6 DEF Held, HeldIn, Away, RebaseState
  <2>2. refs'[HEAD] = refs[HEAD]
    <3>1. CASE w.file = "ref"
      <4>1. w.ref = Tracking /\ HEAD # Tracking /\ HEAD \in Ref
        BY <1>3, <1>6, <2>1, <3>1 DEF Away
      <4> QED
        BY <1>2, <1>3, <3>1, <4>1
    <3>2. CASE w.file # "ref"
      BY <1>2, <3>2
    <3> QED
      BY <3>1, <3>2
  <2> QED
    BY <1>6, <2>1, <2>2 DEF Held, HeldIn
<1>7. ASSUME NEW k \in DOMAIN rest, rest[k].file = "REBASE_STATE", rest[k].value # None
      PROVE  HeldIn(HEAD', refs', rest[k].value) /\ \A j \in DOMAIN rest : Away(rest[j])
  <2>1. /\ k + 1 \in DOMAIN pending /\ pending[k + 1].file = "REBASE_STATE"
        /\ pending[k + 1].value = rest[k].value
    BY <1>1, <1>7
  <2>2. Held(rest[k].value) /\ \A j \in DOMAIN pending : Away(pending[j])
    BY <1>7, <2>1 DEF OwnInv
  <2>3. rest[k].value \in RebaseState
    BY <1>5, <1>7, <2>1
  <2> QED
    BY <1>1, <1>6, <2>2, <2>3
<1>8. ASSUME REBASE_STATE' # None
      PROVE  /\ HeldIn(HEAD', refs', REBASE_STATE')
             /\ \A k \in DOMAIN rest : EndsOrAway(rest[k], REBASE_STATE')
  <2>1. CASE w.file = "REBASE_STATE"
    <3>1. w.value # None /\ REBASE_STATE' = w.value /\ HEAD' = HEAD /\ refs' = refs
      BY <1>2, <1>8, <2>1
    <3>2. Held(w.value) /\ \A j \in DOMAIN pending : Away(pending[j])
      BY <1>1, <2>1, <3>1 DEF OwnInv
    <3>3. HeldIn(HEAD', refs', REBASE_STATE')
      BY <3>1, <3>2 DEF Held
    <3> QED
      BY <1>1, <3>2, <3>3 DEF EndsOrAway
  <2>2. CASE w.file # "REBASE_STATE"
    <3> DEFINE state == REBASE_STATE
    <3>1. state # None /\ REBASE_STATE' = state /\ state \in RebaseState /\ Held(state)
          /\ \A k \in DOMAIN pending : EndsOrAway(pending[k], state)
      BY <1>2, <1>4, <1>8, <2>2 DEF OwnInv
    <3>2. CASE Away(w)
      BY <1>1, <1>6, <3>1, <3>2
    <3>3. CASE ~Away(w)
      <4>1. /\ w.file = "ref" /\ w.ref = state.branch
            /\ w.value = state.origHead \/ (state.todo = <<>> /\ w.value = state.tip)
        BY <1>1, <3>1, <3>3 DEF EndsOrAway
      <4>2. HEAD = state.branch /\ HEAD \in Ref /\ HEAD' = HEAD
        BY <1>2, <1>3, <3>1, <4>1 DEF Held, HeldIn, RebaseState
      <4>3. refs'[HEAD] = w.value
        BY <1>2, <1>3, <4>1, <4>2
      <4>4. HeldIn(HEAD', refs', state)
        BY <4>1, <4>2, <4>3 DEF HeldIn
      <4> QED
        BY <1>1, <3>1, <4>4
    <3> QED
      BY <3>2, <3>3
  <2> QED
    BY <2>1, <2>2
<1> QED
  BY <1>1, <1>7, <1>8 DEF OwnInv, Held, EndsOrAway, Away

LEMMA ImportOwns == ASSUME Inv, OwnInv, ImportObject PROVE OwnInv'
<1>1. /\ pending # <<>> /\ UNCHANGED <<HEAD, refs, REBASE_STATE>>
      /\ pending' = pending \/ pending' = Tail(pending)
  BY DEF ImportObject
<1>2. \A k \in DOMAIN Tail(pending) : k + 1 \in DOMAIN pending /\ Tail(pending)[k] = pending[k + 1]
  BY <1>1, FirstWrite DEF Inv
<1> DEFINE rest == Tail(pending)
<1> HIDE DEF rest
<1>3. ASSUME pending' = rest PROVE OwnInv'
  <2>1. \A k \in DOMAIN pending' : \E j \in DOMAIN pending : pending'[k] = pending[j]
    BY <1>2, <1>3 DEF rest
  <2> QED
    BY <1>1, <2>1 DEF OwnInv, Held, EndsOrAway, Away
<1>4. ASSUME pending' = pending PROVE OwnInv'
  BY <1>1, <1>4 DEF OwnInv, Held, EndsOrAway, Away
<1> QED
  BY <1>1, <1>3, <1>4 DEF rest

LEMMA OthersOwn ==
    ASSUME "pull" \notin Trouble, OwnInv, Others PROVE OwnInv'
<1>1. Quiet(pending') /\ UNCHANGED disk /\ (REBASE_STATE = None \/ Push)
  BY OthersQuiet
<1>2. HEAD' = HEAD /\ refs' = refs /\ REBASE_STATE' = REBASE_STATE
  BY <1>1 DEF disk
<1>3. CASE REBASE_STATE = None
  BY <1>1, <1>2, <1>3 DEF Quiet, OwnInv
<1>4. CASE Push
  <2>1. pending' = <<Set("upstream", resolveHead), SetRef(Tracking, resolveHead)>>
    BY <1>4 DEF Push, Start
  <2>2. \A k \in DOMAIN pending' : Away(pending'[k])
    BY <2>1 DEF Away, Set, SetRef
  <2> QED
    BY <1>1, <1>2, <2>2 DEF Quiet, OwnInv, Held, EndsOrAway, Away
<1> QED
  BY <1>1, <1>3, <1>4

LEMMA OwnNext ==
    ASSUME "pull" \notin Trouble
    PROVE  Inv /\ ReplayInv /\ OwnInv /\ [Next]_vars => OwnInv'
<1> SUFFICES ASSUME Inv, ReplayInv, OwnInv, [Next]_vars PROVE OwnInv'
  OBVIOUS
<1>1. CASE Others
  BY <1>1, OthersOwn
<1>2. CASE RebaseOp /\ ~Others
  BY <1>2, RebaseOpOwns
<1>3. CASE Return \/ Crash
  <2>1. UNCHANGED <<HEAD, refs, REBASE_STATE>> /\ (pending' = pending \/ pending' = <<>>)
    BY <1>3 DEF Return, Crash, Forget, disk
  <2> QED
    BY <2>1 DEF OwnInv, Held, EndsOrAway, Away
<1>4. CASE Gc \/ PeerPush
  <2>1. UNCHANGED <<HEAD, refs, REBASE_STATE, pending>>
    BY <1>4 DEF Gc, PeerPush
  <2> QED
    BY <2>1 DEF OwnInv, Held, EndsOrAway, Away
<1>5. CASE UNCHANGED vars
  <2>1. UNCHANGED <<HEAD, refs, REBASE_STATE, pending>>
    BY <1>5 DEF vars, disk
  <2> QED
    BY <2>1 DEF OwnInv, Held, EndsOrAway, Away
<1> QED
  BY <1>1, <1>2, <1>3, <1>4, <1>5, WriteOwns, ImportOwns DEF Next, Others, Remote

(* If no pull runs while a rebase is under way, nothing else moves its      *)
(* branch or HEAD, in any order of steps and crashes.                       *)
THEOREM RebaseOwns == ASSUME "pull" \notin Trouble PROVE Spec => []RebaseOwnsBranch
<1>1. Init => ReplayInv /\ OwnInv
  BY DEF Init, ReplayInv, OwnInv, Follows
<1>2. OwnInv => RebaseOwnsBranch
  BY DEF OwnInv, Held, HeldIn, RebaseOwnsBranch
<1> QED
  BY <1>1, <1>2, Invariance, ReplayNext, OwnNext, PTL DEF Spec

-----------------------------------------------------------------------------
(* What a branch leaves.                                                   *)

(* The k-th write may move its branch: the branch is new, or its commit is  *)
(* an ancestor of the new one, here or among the writes; a rebase has the   *)
(* branch; or a stash and a reflog keep the commit, as they are or by an    *)
(* earlier write.                                                           *)
Kept(q, k) ==
    LET b == q[k].ref
    IN  \/ refs[b] = None
        \/ q[k].value \in DOMAIN commits /\ refs[b] \in commits[q[k].value].past
        \/ \E j \in DOMAIN q : /\ q[j].file = "object" /\ q[j].id = q[k].value
                               /\ refs[b] \in q[j].commit.past
        \/ /\ REBASE_STATE # None /\ REBASE_STATE.branch = b
           /\ \A j \in 1..(k - 1) : q[j].file # "REBASE_STATE"
        \/ /\ \/ \E s \in Stash \ {b} :
                    /\ refs[s] # None /\ refs[b] \in commits[refs[s]].past
                    /\ \A j \in DOMAIN q : q[j].file = "ref" => q[j].ref # s
              \/ \E j \in 1..(k - 1) : /\ q[j].file = "ref" /\ q[j].ref \in Stash \ {b}
                                       /\ q[j].value = refs[b]
           /\ \/ refs[b] \in logs
              \/ \E j \in 1..(k - 1) : q[j].file = "log" /\ refs[b] \in q[j].ids

Moves(w) == w.file = "ref" /\ w.ref \in Heads

KeepInv ==
    \A k \in DOMAIN pending : Moves(pending[k]) =>
        /\ Kept(pending, k)
        /\ \A j \in DOMAIN pending \ {k} : pending[j].file = "ref" => pending[j].ref # pending[k].ref

LEMMA NoMove ==
    ASSUME NEW q, pending' = q, \A k \in DOMAIN q : q[k].file = "ref" => q[k].ref = Tracking
    PROVE  KeepInv'
BY VcAssumption DEF KeepInv, Moves

LEMMA OneMove ==
    ASSUME UNCHANGED disk, NEW q, pending' = q, NEW n \in DOMAIN q, Moves(q[n]) => Kept(q, n),
           \A k \in DOMAIN q \ {n} : q[k].file = "ref" => q[k].ref = Tracking
    PROVE  KeepInv'
<1>1. refs' = refs /\ commits' = commits /\ REBASE_STATE' = REBASE_STATE /\ logs' = logs
  BY DEF disk
<1>2. Tracking \notin Heads
  BY VcAssumption
<1>3. Moves(q[n]) => Kept(pending, n)'
  BY <1>1 DEF Kept
<1> QED
  BY <1>2, <1>3 DEF KeepInv, Moves

(* The commit that follows another has it among its ancestors.              *)
LEMMA NewFollows ==
    ASSUME Inv, NEW parents, NEW p \in ToSet(parents), p \in Good, NEW replays
    PROVE  p \in MakeCommit(parents, replays).past
<1>1. p \in commits[p].past
  BY GoodCommits DEF Inv, Sound
<1> QED
  BY <1>1 DEF MakeCommit

LEMMA AncestorInPast ==
    ASSUME Inv, NEW a \in Good, NEW b \in DOMAIN commits, isAncestor(a, b)
    PROVE  a \in commits[b].past
BY DEF isAncestor, Inv, Sound

LEMMA AdvanceMoves ==
    ASSUME NEW v
    PROVE  /\ Moves(Advance(v)) => /\ HEAD \in Heads /\ resolveHead = refs[HEAD]
                                   /\ Advance(v).ref = HEAD /\ Advance(v).value = v
           /\ Advance(v).file \in {"ref", "HEAD"}
BY DEF Moves, Advance, SetRef, Set, resolveHead

LEMMA RecordMoves == ASSUME Inv, Record PROVE KeepInv'
<1>1. ASSUME RecordCommit \/ Revert PROVE KeepInv'
  <2> DEFINE head == resolveHead
             parents == Parents(head)
             new == MakeCommit(parents, Fresh)
  <2>1. /\ UNCHANGED disk
        /\ pending' = <<Put(new), Advance(Fresh), Log(head, Fresh)>>
           \/ pending' = <<Put(new), Advance(Fresh), Log(head, Fresh), Set("ORIG_HEAD", head)>>
    BY <1>1 DEF RecordCommit, Revert, Start, Parents
  <2>2. head # None => head \in new.past
    <3>1. head # None => head \in ToSet(parents)
      BY DEF Parents, ToSet
    <3> QED
      BY <3>1, Found, NewFollows
  <2> HIDE DEF new
  <2>3. /\ DOMAIN pending' = 1..3 \/ DOMAIN pending' = 1..4
        /\ pending'[1].file = "object" /\ pending'[1].id = Fresh /\ pending'[1].commit = new
        /\ pending'[2] = Advance(Fresh)
        /\ \A k \in DOMAIN pending' \ {2} : pending'[k].file # "ref"
    BY <2>1 DEF Put, Log, Set
  <2>4. Moves(pending'[2]) => Kept(pending', 2)
    BY <2>2, <2>3, AdvanceMoves DEF Kept
  <2> QED
    BY <2>1, <2>3, <2>4, OneMove
<1>2. ASSUME NEW ref \in Ref, MergeFastForward(ref) PROVE KeepInv'
  <2> DEFINE ours == resolveHead  theirs == refs[ref]
  <2>1. /\ ours \in Good /\ theirs \in DOMAIN commits /\ isAncestor(ours, theirs)
        /\ UNCHANGED disk
        /\ pending' = <<Set("ORIG_HEAD", ours), Advance(theirs), Log(ours, theirs)>>
    BY <1>2, Found, GoodCommits DEF MergeFastForward, Start
  <2>2. ours \in commits[theirs].past
    BY <2>1, AncestorInPast
  <2>3. /\ 2 \in DOMAIN pending' /\ pending'[2] = Advance(theirs)
        /\ \A k \in DOMAIN pending' \ {2} : pending'[k].file # "ref"
    BY <2>1 DEF Log, Set
  <2>4. Moves(pending'[2]) => Kept(pending', 2)
    BY <2>1, <2>2, <2>3, AdvanceMoves DEF Kept
  <2> QED
    BY <2>1, <2>3, <2>4, OneMove
<1>3. ASSUME NEW ref \in Ref, Merge3Way(ref) PROVE KeepInv'
  <2> DEFINE ours == resolveHead  theirs == refs[ref]
             new == MakeCommit(<<ours, theirs>>, Fresh)
  <2>1. /\ ours \in Good /\ UNCHANGED disk
        /\ \/ pending' = <<Set("MERGE_HEAD", theirs), Set("MERGE_HEAD", None)>>
           \/ pending' = <<Set("MERGE_HEAD", theirs), Put(new), Advance(Fresh), Log(ours, Fresh),
                           Set("ORIG_HEAD", ours), Set("MERGE_HEAD", None)>>
    BY <1>3, Found DEF Merge3Way, Start
  <2>2. ours \in new.past
    <3>1. ours \in ToSet(<<ours, theirs>>)
      BY DEF ToSet
    <3> QED
      BY <2>1, <3>1, NewFollows
  <2> HIDE DEF new
  <2>3. CASE pending' = <<Set("MERGE_HEAD", theirs), Set("MERGE_HEAD", None)>>
    BY <2>3, NoMove DEF Set
  <2>4. CASE pending' = <<Set("MERGE_HEAD", theirs), Put(new), Advance(Fresh), Log(ours, Fresh),
                          Set("ORIG_HEAD", ours), Set("MERGE_HEAD", None)>>
    <3>1. /\ 3 \in DOMAIN pending' /\ pending'[3] = Advance(Fresh)
          /\ 2 \in DOMAIN pending' /\ pending'[2].file = "object" /\ pending'[2].id = Fresh
          /\ pending'[2].commit = new
          /\ \A k \in DOMAIN pending' \ {3} : pending'[k].file # "ref"
      BY <2>4 DEF Put, Log, Set
    <3>2. Moves(pending'[3]) => Kept(pending', 3)
      BY <2>2, <3>1, AdvanceMoves DEF Kept
    <3> QED
      BY <2>1, <3>1, <3>2, OneMove
  <2> QED
    BY <2>1, <2>3, <2>4
<1> QED
  BY <1>1, <1>2, <1>3 DEF Record

LEMMA MoveMoves == ASSUME Inv, Move PROVE KeepInv'
<1>1. ASSUME NEW b \in Branch, CreateBranch(b) PROVE KeepInv'
  <2>1. /\ UNCHANGED disk /\ refs[b] = None
        /\ pending' = <<SetRef(b, resolveHead), Log(None, resolveHead)>>
    BY <1>1 DEF CreateBranch, Start
  <2>2. /\ 1 \in DOMAIN pending' /\ pending'[1].ref = b
        /\ \A k \in DOMAIN pending' \ {1} : pending'[k].file # "ref"
    BY <2>1 DEF SetRef, Log
  <2> QED
    BY <2>1, <2>2, OneMove DEF Kept
<1>2. ASSUME NEW b \in Heads, SwitchToBranch(b) PROVE KeepInv'
  <2>1. pending' = <<Set("HEAD", b), Log(resolveHead, refs[b])>>
    BY <1>2 DEF SwitchToBranch, Start
  <2> QED
    BY <2>1, NoMove DEF Set, Log
<1>3. ASSUME NEW c \in Commit, SwitchToCommit(c) PROVE KeepInv'
  <2>1. pending' = <<Set("HEAD", c), Log(resolveHead, c)>>
    BY <1>3 DEF SwitchToCommit, Start
  <2> QED
    BY <2>1, NoMove DEF Set, Log
<1> QED
  BY <1>1, <1>2, <1>3 DEF Move

LEMMA RebaseOpMoves == ASSUME Inv, RebaseOp PROVE KeepInv'
<1>1. ASSUME NEW ref \in Ref, RebaseFastForward(ref) PROVE KeepInv'
  <2> DEFINE ours == resolveHead  onto == refs[ref]
  <2>1. /\ ours \in Good /\ onto \in DOMAIN commits /\ isAncestor(ours, onto)
        /\ UNCHANGED disk /\ ours = refs[HEAD]
        /\ pending' = <<Set("ORIG_HEAD", ours), SetRef(HEAD, onto), Log(ours, onto)>>
    BY <1>1, Found, GoodCommits DEF RebaseFastForward, Start, resolveHead
  <2>2. ours \in commits[onto].past
    BY <2>1, AncestorInPast
  <2>3. /\ 2 \in DOMAIN pending' /\ pending'[2].ref = HEAD /\ pending'[2].value = onto
        /\ \A k \in DOMAIN pending' \ {2} : pending'[k].file # "ref"
    BY <2>1 DEF Log, Set, SetRef
  <2> QED
    BY <2>1, <2>2, <2>3, OneMove DEF Kept
<1>2. ASSUME NEW ref \in Ref, Rebase(ref) PROVE KeepInv'
  <2>1. pending' = <<Set("ORIG_HEAD", resolveHead), SetState(NewRebase(resolveHead, refs[ref]))>>
    BY <1>2 DEF Rebase, StartReplay
  <2> QED
    BY <2>1, NoMove DEF Set, SetState
<1>3. CASE RebaseStep
  <2>1. PICK new, state : pending' = <<Put(new), SetState(state)>>
    BY <1>3 DEF RebaseStep
  <2> QED
    BY <2>1, NoMove DEF Put, Set, SetState
<1>4. CASE RebasePause \/ RebaseSkip
  <2>1. PICK state : pending' = <<SetState(state)>>
    BY <1>4 DEF RebasePause, RebaseSkip, StartReplay
  <2> QED
    BY <2>1, NoMove DEF Set, SetState
<1>5. CASE RebaseContinue
  <2>1. pending' = <<>> \/ \E new, state : pending' = <<Put(new), SetState(state)>>
    BY <1>5 DEF RebaseContinue, StartReplay
  <2>2. \A k \in DOMAIN pending' : pending'[k].file # "ref"
    BY <2>1 DEF Put, Set, SetState
  <2> QED
    BY <2>2, NoMove
<1>6. CASE RebaseFinish \/ RebaseAbort
  <2>1. PICK old, new : pending' = <<SetRef(REBASE_STATE.branch, new), Log(old, new), SetState(None)>>
    BY <1>6 DEF RebaseFinish, RebaseAbort, Start
  <2>2. REBASE_STATE # None /\ UNCHANGED disk
    BY <1>6, AtWork DEF RebaseFinish, RebaseAbort, Start
  <2>3. /\ 1 \in DOMAIN pending' /\ pending'[1].ref = REBASE_STATE.branch
        /\ \A k \in DOMAIN pending' \ {1} : pending'[k].file # "ref"
    BY <2>1 DEF Log, Set, SetState, SetRef
  <2>4. Kept(pending', 1)
    BY <2>2, <2>3 DEF Kept
  <2> QED
    BY <2>2, <2>3, <2>4, OneMove
<1> QED
  BY <1>1, <1>2, <1>3, <1>4, <1>5, <1>6 DEF RebaseOp

LEMMA PullMoves ==
    ASSUME Inv, PullUnborn \/ PullUpToDate \/ PullRefused \/ Pull PROVE KeepInv'
<1>1. CASE PullUnborn
  <2>1. HEAD \in Heads /\ refs[HEAD] = None
    BY <1>1, GoodCommits DEF PullUnborn, resolveHead, Inv, TypeOK
  <2>2. /\ UNCHANGED disk
        /\ pending' = <<importHistory(upstream), SetRef(HEAD, upstream), Set("HEAD", HEAD),
                        SetRef(Tracking, upstream)>>
    BY <1>1 DEF PullUnborn, Start
  <2>3. /\ 2 \in DOMAIN pending' /\ pending'[2].ref = HEAD
        /\ \A k \in DOMAIN pending' \ {2} : pending'[k].file = "ref" => pending'[k].ref = Tracking
    BY <2>2 DEF importHistory, SetRef, Set
  <2> QED
    BY <2>1, <2>2, <2>3, OneMove DEF Kept
<1>2. CASE PullUpToDate \/ PullRefused
  <2>1. \/ pending' = <<importHistory(upstream), SetRef(Tracking, upstream)>>
        \/ pending' = <<importHistory(upstream)>>
    BY <1>2 DEF PullUpToDate, PullRefused, Start
  <2>2. \A k \in DOMAIN pending' : pending'[k].file = "ref" => pending'[k].ref = Tracking
    BY <2>1 DEF importHistory, SetRef
  <2> QED
    BY <2>2, NoMove
<1>3. CASE Pull
  <2> DEFINE ours == resolveHead
             fast == <<importHistory(upstream),
                       Set("ORIG_HEAD", ours), SetRef(HEAD, upstream),
                       SetRef(Tracking, upstream), Log(ours, upstream)>>
             slow == <<importHistory(upstream), stashLocal(ours), Log(None, ours),
                       Set("ORIG_HEAD", ours), SetRef(HEAD, upstream),
                       SetRef(Tracking, upstream), Log(ours, upstream)>>
  <2>1. /\ HEAD \in Heads /\ ours \in Good /\ ours = refs[HEAD] /\ upstream \in DOMAIN commits
        /\ UNCHANGED disk
        /\ \/ isAncestor(ours, upstream) /\ pending' = fast
           \/ (\E s \in Stash : refs[s] = None) /\ pending' = slow
    BY <1>3, Found DEF Pull, Start, resolveHead
  <2>2. CASE isAncestor(ours, upstream) /\ pending' = fast
    <3>1. ours \in commits[upstream].past
      BY <2>1, <2>2, AncestorInPast
    <3>2. /\ 3 \in DOMAIN pending' /\ pending'[3].ref = HEAD /\ pending'[3].value = upstream
          /\ \A k \in DOMAIN pending' \ {3} : pending'[k].file = "ref" => pending'[k].ref = Tracking
      BY <2>2 DEF importHistory, SetRef, Set, Log
    <3> QED
      BY <2>1, <3>1, <3>2, OneMove DEF Kept
  <2>3. CASE (\E s \in Stash : refs[s] = None) /\ pending' = slow
    <3> DEFINE s == CHOOSE x \in Stash : refs[x] = None
    <3>1. s \in Stash /\ refs[s] = None /\ stashLocal(ours) = SetRef(s, ours)
      BY <2>3 DEF stashLocal
    <3> HIDE DEF s
    <3>2. s # HEAD /\ Tracking \notin Heads /\ s \in Heads
      BY <2>1, <3>1, GoodCommits, VcAssumption DEF Heads
    <3>3. /\ DOMAIN pending' = 1..7
          /\ pending'[2].file = "ref" /\ pending'[2].ref = s /\ pending'[2].value = ours
          /\ pending'[3].file = "log" /\ pending'[3].ids = {None, ours} \ {None}
          /\ pending'[5].file = "ref" /\ pending'[5].ref = HEAD
          /\ \A k \in DOMAIN pending' \ {2, 5} : pending'[k].file = "ref" => pending'[k].ref = Tracking
      BY <2>3, <3>1 DEF importHistory, SetRef, Set, Log
    <3>4. Kept(pending', 2)
      BY <3>1, <3>3 DEF Kept
    <3>5. Kept(pending', 5)
      <4>1. 2 \in 1..(5 - 1) /\ 3 \in 1..(5 - 1)
        OBVIOUS
      <4>2. refs[HEAD] \in pending'[3].ids
        BY <2>1, <3>3, GoodCommits
      <4> QED
        BY <2>1, <3>1, <3>2, <3>3, <4>1, <4>2 DEF Kept
    <3>6. refs' = refs /\ commits' = commits /\ REBASE_STATE' = REBASE_STATE /\ logs' = logs
      BY <2>1 DEF disk
    <3>7. Kept(pending, 2)' /\ Kept(pending, 5)'
      BY <3>4, <3>5, <3>6 DEF Kept
    <3>8. ASSUME NEW k \in DOMAIN pending', Moves(pending'[k])
          PROVE  /\ Kept(pending, k)'
                 /\ \A j \in DOMAIN pending' \ {k} :
                       pending'[j].file = "ref" => pending'[j].ref # pending'[k].ref
      <4>1. k = 2 \/ k = 5
        BY <3>2, <3>3, <3>8 DEF Moves
      <4>2. \A j \in DOMAIN pending' : j = 2 \/ j = 5 \/ j \in DOMAIN pending' \ {2, 5}
        OBVIOUS
      <4> QED
        BY <2>1, <3>2, <3>3, <3>7, <4>1, <4>2
    <3> QED
      BY <3>8 DEF KeepInv, Moves
  <2> QED
    BY <2>1, <2>2, <2>3
<1> QED
  BY <1>1, <1>2, <1>3

LEMMA PullStaticMoves == ASSUME Inv, "static" \notin Trouble, PullStatic PROVE KeepInv'
<1> DEFINE ours == resolveHead
           new == MakeCommit(Parents(ours), Fresh)
           orig == IF ours = None THEN ORIG_HEAD ELSE ours
<1>1. /\ HEAD \in Heads /\ ours = refs[HEAD] /\ UNCHANGED disk
      /\ pending' = <<Put(new), Set("ORIG_HEAD", orig), SetRef(HEAD, Fresh), Set("HEAD", HEAD),
                      Log(ours, Fresh)>>
  BY DEF PullStatic, Start, resolveHead
<1>2. ours # None => ours \in new.past
  <2>1. ours # None => ours \in ToSet(Parents(ours))
    BY DEF Parents, ToSet
  <2> QED
    BY <2>1, Found, NewFollows
<1> HIDE DEF new, orig
<1>3. /\ 3 \in DOMAIN pending' /\ pending'[3].ref = HEAD /\ pending'[3].value = Fresh
      /\ 1 \in DOMAIN pending' /\ pending'[1].file = "object" /\ pending'[1].id = Fresh
      /\ pending'[1].commit = new
      /\ \A k \in DOMAIN pending' \ {3} : pending'[k].file # "ref"
  BY <1>1 DEF Put, SetRef, Set, Log
<1>4. Kept(pending', 3)
  BY <1>1, <1>2, <1>3 DEF Kept
<1> QED
  BY <1>1, <1>3, <1>4, OneMove

LEMMA PushMoves == ASSUME Push PROVE KeepInv'
<1>1. pending' = <<Set("upstream", resolveHead), SetRef(Tracking, resolveHead)>>
  BY DEF Push, Start
<1>2. \A k \in DOMAIN pending' : pending'[k].file = "ref" => pending'[k].ref = Tracking
  BY <1>1 DEF Set, SetRef
<1> QED
  BY <1>2, NoMove

(* A write is made, and those that are left move what they still may.       *)
LEMMA WriteMoves == ASSUME Inv, KeepInv, Write \/ ImportObject PROVE KeepInv'
<1> DEFINE w == Head(pending)  rest == Tail(pending)
<1>1. /\ w = pending[1] /\ 1 \in DOMAIN pending /\ Allowed(w, Good)
      /\ \A k \in DOMAIN rest : /\ k + 1 \in DOMAIN pending /\ rest[k] = pending[k + 1]
                                /\ k \in Nat \ {0}
      /\ \A k \in DOMAIN pending \ {1} : k - 1 \in DOMAIN rest /\ rest[k - 1] = pending[k]
      /\ DOMAIN pending \subseteq Nat
  <2>1. pending # <<>> /\ DOMAIN pending \subseteq Nat
    BY DEF Write, ImportObject, Inv, TypeOK
  <2> QED
    BY <2>1, FirstWrite DEF Inv
<1>2. /\ refs' = IF w.file = "ref" THEN [refs EXCEPT ![w.ref] = w.value] ELSE refs
      /\ REBASE_STATE' = IF w.file = "REBASE_STATE" THEN w.value ELSE REBASE_STATE
      /\ commits' = IF w.file = "object" THEN Append(commits, w.commit) ELSE commits
      /\ logs' = IF w.file = "log" THEN logs \cup w.ids ELSE logs
  BY DEF Write, Effect, Register, ImportObject
<1>3. /\ DOMAIN commits \subseteq DOMAIN commits'
      /\ \A c \in DOMAIN commits : commits'[c] = commits[c]
  BY WriteBrings DEF ImportObject
<1>4. refs \in [Ref -> Commit \cup {None}] /\ Heads \subseteq Ref /\ None \notin Commit
      /\ \A r \in Ref : refs[r] # None => refs[r] \in DOMAIN commits
  BY Found, GoodCommits DEF Inv, TypeOK, Ref
<1>5. w.file = "ref" => w.value \in DOMAIN commits /\ w.ref \in Ref
  BY <1>1, GoodCommits DEF Allowed, Inv, TypeOK, WriteRecord
<1>6. ASSUME w.file = "object"
      PROVE  w.id \in DOMAIN commits' /\ commits'[w.id] = w.commit
  <2>1. w.id = Fresh /\ w.commit \in CommitRecord
    BY <1>1, <1>6 DEF Inv, InOrder, TypeOK, WriteRecord
  <2> QED
    BY <1>2, <1>6, <2>1 DEF Inv, TypeOK, Fresh
<1> HIDE DEF w, rest
<1>7. CASE pending' = pending /\ ImportObject
  <2>1. UNCHANGED <<refs, commits, REBASE_STATE, logs>>
    BY <1>7 DEF ImportObject
  <2> QED
    BY <1>7, <2>1 DEF KeepInv, Kept, Moves
<1>8. CASE pending' = rest
  <2>1. ASSUME NEW r \in Heads, w.file = "ref" => w.ref # r PROVE refs'[r] = refs[r]
    BY <1>2, <1>4, <1>5, <2>1
  <2>2. ASSUME NEW k \in DOMAIN rest, Moves(rest[k])
        PROVE  /\ refs'[rest[k].ref] = refs[rest[k].ref]
               /\ rest[k].ref \in Heads /\ k + 1 \in DOMAIN pending /\ Kept(pending, k + 1)
               /\ pending[k + 1] = rest[k] /\ k \in Nat \ {0}
               /\ \A j \in DOMAIN rest \ {k} : rest[j].file = "ref" => rest[j].ref # rest[k].ref
    <3>1. k + 1 \in DOMAIN pending /\ pending[k + 1] = rest[k] /\ k \in Nat \ {0} /\ k + 1 # 1
      BY <1>1
    <3>2. /\ Kept(pending, k + 1)
          /\ \A j \in DOMAIN pending \ {k + 1} : pending[j].file = "ref" => pending[j].ref # rest[k].ref
      BY <2>2, <3>1 DEF KeepInv
    <3>3. w.file = "ref" => w.ref # rest[k].ref
      BY <1>1, <3>1, <3>2
    <3>4. rest[k].ref \in Heads
      BY <2>2 DEF Moves
    <3>5. \A j \in DOMAIN rest \ {k} : j + 1 \in DOMAIN pending \ {k + 1} /\ rest[j] = pending[j + 1]
      BY <1>1
    <3> QED
      BY <2>1, <3>1, <3>2, <3>3, <3>4, <3>5
  <2>3. ASSUME NEW k \in DOMAIN rest, Moves(rest[k]) PROVE Kept(pending, k)'
    <3> DEFINE b == rest[k].ref
               v == rest[k].value
    <3>1. /\ refs'[b] = refs[b] /\ b \in Heads /\ k + 1 \in DOMAIN pending
          /\ pending[k + 1].ref = b /\ pending[k + 1].value = v /\ Kept(pending, k + 1)
          /\ k \in Nat \ {0} /\ pending'[k].ref = b /\ pending'[k].value = v
      BY <1>8, <2>2, <2>3
    <3> HIDE DEF b, v
    <3>2. CASE refs[b] = None
      BY <3>1, <3>2 DEF Kept
    <3>3. CASE v \in DOMAIN commits /\ refs[b] \in commits[v].past
      BY <1>3, <3>1, <3>3 DEF Kept
    <3>4. CASE \E j \in DOMAIN pending : /\ pending[j].file = "object" /\ pending[j].id = v
                                         /\ refs[b] \in pending[j].commit.past
      <4>1. PICK j \in DOMAIN pending : /\ pending[j].file = "object" /\ pending[j].id = v
                                        /\ refs[b] \in pending[j].commit.past
        BY <3>4
      <4>2. CASE j = 1
        <5>1. v \in DOMAIN commits' /\ refs[b] \in commits'[v].past
          BY <1>1, <1>6, <4>1, <4>2
        <5> QED
          BY <3>1, <5>1 DEF Kept
      <4>3. CASE j # 1
        <5>1. j - 1 \in DOMAIN rest /\ rest[j - 1] = pending[j]
          BY <1>1, <4>3
        <5> QED
          BY <1>8, <3>1, <4>1, <5>1 DEF Kept
      <4> QED
        BY <4>2, <4>3
    <3>5. CASE /\ REBASE_STATE # None /\ REBASE_STATE.branch = b
               /\ \A j \in 1..((k + 1) - 1) : pending[j].file # "REBASE_STATE"
      <4>1. w.file # "REBASE_STATE"
        BY <1>1, <3>1, <3>5
      <4>2. ASSUME NEW j \in 1..(k - 1) PROVE rest[j].file # "REBASE_STATE"
        <5>1. j \in DOMAIN rest
          BY <3>1 DEF rest, Inv, TypeOK
        <5>2. rest[j] = pending[j + 1] /\ j + 1 \in 1..((k + 1) - 1)
          BY <1>1, <3>1, <5>1
        <5> QED
          BY <3>5, <5>2
      <4> QED
        BY <1>2, <1>8, <3>1, <3>5, <4>1, <4>2 DEF Kept
    <3> DEFINE Stashed ==
                  \/ \E s \in Stash \ {b} :
                        /\ refs'[s] # None /\ refs'[b] \in commits'[refs'[s]].past
                        /\ \A j \in DOMAIN rest : rest[j].file = "ref" => rest[j].ref # s
                  \/ \E j \in 1..(k - 1) : /\ rest[j].file = "ref" /\ rest[j].ref \in Stash \ {b}
                                           /\ rest[j].value = refs'[b]
               LoggedBy == \/ refs'[b] \in logs'
                           \/ \E j \in 1..(k - 1) : rest[j].file = "log" /\ refs'[b] \in rest[j].ids
    <3>6. ASSUME \E s \in Stash \ {b} :
                  /\ refs[s] # None /\ refs[b] \in commits[refs[s]].past
                  /\ \A j \in DOMAIN pending : pending[j].file = "ref" => pending[j].ref # s
          PROVE  Stashed
      <4>1. PICK s \in Stash \ {b} :
                  /\ refs[s] # None /\ refs[b] \in commits[refs[s]].past
                  /\ \A j \in DOMAIN pending : pending[j].file = "ref" => pending[j].ref # s
        BY <3>6
      <4>2. refs'[s] = refs[s] /\ commits'[refs[s]] = commits[refs[s]]
        BY <1>1, <1>3, <1>4, <2>1, <4>1 DEF Heads
      <4>3. \A j \in DOMAIN rest : rest[j].file = "ref" => rest[j].ref # s
        BY <1>1, <4>1
      <4> QED
        BY <3>1, <4>1, <4>2, <4>3
    <3>7. ASSUME \E j \in 1..((k + 1) - 1) : /\ pending[j].file = "ref"
                                           /\ pending[j].ref \in Stash \ {b}
                                           /\ pending[j].value = refs[b]
          PROVE  Stashed
      <4>1. PICK j \in 1..((k + 1) - 1) : /\ pending[j].file = "ref"
                                          /\ pending[j].ref \in Stash \ {b}
                                          /\ pending[j].value = refs[b]
        BY <3>7
      <4>2. CASE j = 1
        <5> DEFINE s == w.ref
        <5>1. s \in Stash \ {b} /\ s \in Ref /\ w.file = "ref" /\ w.value = refs[b] /\ s \in Heads
              /\ w.value \in DOMAIN commits
          BY <1>1, <1>4, <1>5, <4>1, <4>2 DEF Heads
        <5>2. refs'[s] = refs[b] /\ refs[b] \in DOMAIN commits /\ commits' = commits
          BY <1>2, <1>4, <5>1
        <5>3. refs[b] \in commits[refs[b]].past
          BY <5>2 DEF Inv, Sound
        <5>4. \A i \in DOMAIN rest : rest[i].file = "ref" => rest[i].ref # s
          <6>1. \A i \in DOMAIN pending \ {1} : pending[i].file = "ref" => pending[i].ref # s
            BY <1>1, <5>1 DEF KeepInv, Moves
          <6>2. ASSUME NEW i \in DOMAIN rest
                PROVE  i + 1 \in DOMAIN pending \ {1} /\ rest[i] = pending[i + 1]
            <7>1. i \in Nat \ {0} /\ i + 1 \in DOMAIN pending /\ rest[i] = pending[i + 1]
              BY <1>1
            <7>2. i + 1 # 1
              BY <7>1
            <7> QED
              BY <7>1, <7>2
          <6> QED
            BY <6>1, <6>2
        <5>5. refs[b] # None
          BY <5>2, GoodCommits
        <5> HIDE DEF s
        <5> QED
          BY <3>1, <5>1, <5>2, <5>3, <5>4, <5>5
      <4>3. CASE j # 1
        <5>1. j \in DOMAIN pending /\ j - 1 \in 1..(k - 1)
          BY <3>1, <4>1, <4>3 DEF Inv, TypeOK
        <5>2. rest[j - 1] = pending[j]
          BY <1>1, <4>3, <5>1
        <5> QED
          BY <3>1, <4>1, <5>1, <5>2
      <4> QED
        BY <4>2, <4>3
    <3>8. ASSUME \/ refs[b] \in logs
                 \/ \E j \in 1..((k + 1) - 1) : pending[j].file = "log" /\ refs[b] \in pending[j].ids
          PROVE  LoggedBy
      <4>1. CASE refs[b] \in logs
        BY <1>2, <3>1, <4>1
      <4>2. ASSUME NEW j \in 1..((k + 1) - 1), pending[j].file = "log", refs[b] \in pending[j].ids
            PROVE  LoggedBy
        <5>1. CASE j = 1
          BY <1>1, <1>2, <3>1, <4>2, <5>1
        <5>2. CASE j # 1
          <6>1. j \in DOMAIN pending /\ j - 1 \in 1..(k - 1)
            BY <3>1, <5>2 DEF Inv, TypeOK
          <6>2. rest[j - 1] = pending[j]
            BY <1>1, <5>2, <6>1
          <6> QED
            BY <3>1, <4>2, <6>1, <6>2
        <5> QED
          BY <5>1, <5>2
      <4> QED
        BY <3>8, <4>1, <4>2
    <3>9. Stashed /\ LoggedBy => Kept(pending, k)'
      BY <1>8, <3>1 DEF Kept
    <3> HIDE DEF Stashed, LoggedBy
    <3> QED
      BY <3>1, <3>2, <3>3, <3>4, <3>5, <3>6, <3>7, <3>8, <3>9 DEF Kept
  <2> QED
    BY <1>8, <2>2, <2>3 DEF KeepInv
<1> QED
  BY <1>7, <1>8 DEF Write, ImportObject, w, rest

LEMMA KeepNext ==
    ASSUME "static" \notin Trouble
    PROVE  Inv /\ KeepInv /\ [Next]_vars => KeepInv'
<1> SUFFICES ASSUME Inv, KeepInv, [Next]_vars PROVE KeepInv'
  OBVIOUS
<1>1. CASE Return \/ Crash
  <2>1. UNCHANGED disk /\ (pending' = pending \/ pending' = <<>>)
    BY <1>1 DEF Return, Crash, Forget
  <2> QED
    BY <2>1 DEF KeepInv, Kept, disk
<1>2. CASE Gc
  BY <1>2 DEF Gc, KeepInv, Kept
<1>3. CASE PeerPush
  BY <1>3 DEF PeerPush, Begin, Idle, KeepInv
<1>4. CASE UNCHANGED vars
  BY <1>4 DEF vars, disk, KeepInv, Kept
<1> QED
  BY <1>1, <1>2, <1>3, <1>4, RecordMoves, MoveMoves, RebaseOpMoves, PullMoves, PullStaticMoves,
     PushMoves, WriteMoves DEF Next, Remote

(* The step that moves a branch.                                            *)
LEMMA StepKeepsWork ==
    ASSUME Inv, KeepInv, [Next]_vars, NEW b \in Heads, refs[b] # None
    PROVE  /\ refs'[b] # None
           /\ \/ refs[b] \in commits'[refs'[b]].past
              \/ REBASE_STATE # None /\ REBASE_STATE.branch = b
              \/ \E s \in Stash \ {b} : refs[s] # None /\ refs[b] \in commits[refs[s]].past
<1>1. b \in Ref /\ refs[b] \in DOMAIN commits /\ refs[b] \in commits[refs[b]].past
      /\ refs \in [Ref -> Commit \cup {None}]
  BY Found, GoodCommits DEF Inv, TypeOK, Sound, Ref
<1>2. CASE refs' = refs /\ (commits' = commits \/ \E new : commits' = Append(commits, new))
  <2>1. commits'[refs[b]] = commits[refs[b]]
    BY <1>1, <1>2 DEF Inv, TypeOK
  <2> QED
    BY <1>1, <1>2, <2>1
<1>3. CASE Write
  <2> DEFINE w == Head(pending)
  <2>1. /\ w = pending[1] /\ 1 \in DOMAIN pending /\ Allowed(w, Good) /\ w \in WriteRecord
    BY <1>3, FirstWrite DEF Inv, Write
  <2>2. /\ refs' = IF w.file = "ref" THEN [refs EXCEPT ![w.ref] = w.value] ELSE refs
        /\ commits' = IF w.file = "object" THEN Append(commits, w.commit) ELSE commits
    BY <1>3 DEF Write, Effect
  <2> HIDE DEF w
  <2>3. CASE w.file # "ref"
    BY <1>2, <2>2, <2>3
  <2>4. CASE w.file = "ref" /\ w.ref # b
    <3>1. refs'[b] = refs[b] /\ commits' = commits
      BY <1>1, <2>2, <2>4
    <3> QED
      BY <1>1, <3>1
  <2>5. CASE w.file = "ref" /\ w.ref = b
    <3>1. refs'[b] = w.value /\ commits' = commits /\ w.value \in DOMAIN commits
          /\ w.value # None
      BY <1>1, <2>1, <2>2, <2>5, GoodCommits DEF Allowed
    <3>2. Kept(pending, 1)
      BY <2>1, <2>5 DEF KeepInv, Moves
    <3>3. ~(\E j \in DOMAIN pending : pending[j].file = "object" /\ pending[j].id = w.value)
      <4>1. Fresh \notin DOMAIN commits
        BY DEF Inv, TypeOK, Fresh
      <4> QED
        BY <3>1, <4>1 DEF Inv, InOrder
    <3>4. ~(\E j \in 1..(1 - 1) : TRUE)
      OBVIOUS
    <3> QED
      BY <2>1, <2>5, <3>1, <3>2, <3>3, <3>4 DEF Kept
  <2> QED
    BY <2>3, <2>4, <2>5
<1>4. CASE Others
  <2>1. UNCHANGED disk
    BY <1>4, OthersQuiet
  <2> QED
    BY <1>2, <2>1 DEF disk
<1>5. CASE RebaseOp /\ ~Others
  <2>1. UNCHANGED disk
    BY <1>5 DEF RebaseOp, Others, RebaseFastForward, Rebase, StartReplay, RebaseStep, RebasePause,
                RebaseFinish, RebaseContinue, RebaseSkip, RebaseAbort, Start
  <2> QED
    BY <1>2, <2>1 DEF disk
<1>6. CASE ImportObject \/ Gc \/ PeerPush
  BY <1>2, <1>6 DEF ImportObject, Gc, PeerPush
<1>7. CASE Return \/ Crash \/ UNCHANGED vars
  <2>1. UNCHANGED disk
    BY <1>7 DEF Return, Crash, vars
  <2> QED
    BY <1>2, <2>1 DEF disk
<1> QED
  BY <1>3, <1>4, <1>5, <1>6, <1>7 DEF Next, Others, Remote

(* If no pull of bare files meets a detached HEAD, a branch never leaves a  *)
(* commit but to a rebase of its own, or for a stash that has it.           *)
THEOREM BranchesKeepWork == ASSUME "static" \notin Trouble PROVE Spec => BranchKeepsWork
<1>1. Init => KeepInv
  BY DEF Init, KeepInv
<1>2. Inv /\ KeepInv /\ [Next]_vars =>
         [\A b \in Heads : refs[b] # None =>
          /\ refs'[b] # None
          /\ \/ refs[b] \in commits'[refs'[b]].past
             \/ REBASE_STATE # None /\ REBASE_STATE.branch = b
             \/ \E s \in Stash \ {b} : refs[s] # None /\ refs[b] \in commits[refs[s]].past]_vars
  BY StepKeepsWork
<1> QED
  BY <1>1, <1>2, Invariance, KeepNext, PTL DEF Spec, BranchKeepsWork

-----------------------------------------------------------------------------
(* What keeps a commit that was reported.                                  *)

Rebased(b) == REBASE_STATE # None /\ REBASE_STATE.branch = b

(* The commits that no operation lets go of before another keeps them: the  *)
(* logged ones, those of the branches no rebase is about to move, and the   *)
(* one that the rebase found.                                               *)
Anchor(a) ==
    \/ a \in logs
    \/ a # None /\ \E b \in Heads : refs[b] = a /\ ~Rebased(b)
    \/ REBASE_STATE # None /\ a = REBASE_STATE.origHead

(* The k-th write is a state: the commit that a rebase found is logged when *)
(* the state goes, and is its branch's when the first state comes.          *)
StateLogged(q, k) ==
    /\ \A j \in DOMAIN q \ {k} : q[j].file # "REBASE_STATE"
    /\ q[k].value = None =>
          \/ REBASE_STATE = None
          \/ REBASE_STATE.origHead \in logs
          \/ \E j \in 1..(k - 1) : q[j].file = "log" /\ REBASE_STATE.origHead \in q[j].ids
    /\ q[k].value # None /\ REBASE_STATE = None =>
          refs[q[k].value.branch] = q[k].value.origHead /\ \A j \in DOMAIN q : ~Moves(q[j])
    /\ q[k].value # None /\ REBASE_STATE # None =>
          /\ q[k].value.branch = REBASE_STATE.branch
          /\ q[k].value.origHead = REBASE_STATE.origHead

(* What will be reported is logged by then, or a branch of its own has it.  *)
Promised(q, res) ==
    \/ res = None
    \/ res \in logs
    \/ \E k \in DOMAIN q : q[k].file = "log" /\ res \in q[k].ids
    \/ /\ Quiet(q)
       /\ \E b \in Heads :
             /\ ~Rebased(b)
             /\ \/ refs[b] = res /\ \A k \in DOMAIN q : q[k].file = "ref" => q[k].ref # b
                \/ \E k \in DOMAIN q : q[k].file = "ref" /\ q[k].ref = b /\ q[k].value = res

LogInv ==
    /\ \A c \in reported : \E a : Anchor(a) /\ a \in DOMAIN commits /\ c \in commits[a].past
    /\ REBASE_STATE # None => refs[REBASE_STATE.branch] # None
    /\ \A k \in DOMAIN pending : pending[k].file = "REBASE_STATE" => StateLogged(pending, k)
    /\ Promised(pending, result)
    /\ replaying => result = None

LEMMA AnchorGood == ASSUME Inv, NEW a, Anchor(a) PROVE a \in Good
<1>1. /\ \A r \in Ref : refs[r] # None => refs[r] \in Good
      /\ logs \subseteq Good
      /\ REBASE_STATE # None => Hashes(REBASE_STATE) \subseteq Good
  BY SeedKinds DEF Inv
<1>2. Heads \subseteq Ref
  BY DEF Ref
<1>3. REBASE_STATE # None => REBASE_STATE.origHead \in Good
  BY <1>1 DEF Hashes
<1> QED
  BY <1>1, <1>2, <1>3 DEF Anchor

(* An operation that decides on such writes and such a result.              *)
LEMMA Decides ==
    ASSUME LogInv, UNCHANGED <<disk, reported>>, NEW q, NEW v, pending' = q, result' = v,
           \A k \in DOMAIN q : q[k].file = "REBASE_STATE" => StateLogged(q, k),
           Promised(q, v), replaying' => v = None
    PROVE  LogInv'
<1>1. /\ commits' = commits /\ refs' = refs /\ REBASE_STATE' = REBASE_STATE /\ logs' = logs
      /\ reported' = reported
  BY DEF disk
<1>2. \A a : Anchor(a)' <=> Anchor(a)
  BY <1>1 DEF Anchor, Rebased
<1>3. \A k \in DOMAIN q : StateLogged(q, k) => StateLogged(pending, k)'
  BY <1>1 DEF StateLogged
<1>4. Promised(q, v) => Promised(pending, result)'
  BY <1>1 DEF Promised, Rebased, Quiet
<1> QED
  BY <1>1, <1>2, <1>3, <1>4 DEF LogInv

(* What the operations other than a rebase's steps report.                  *)
LEMMA OthersPromise == ASSUME Inv, LogInv, Others PROVE Promised(pending', result')
<1>1. CASE RecordCommit \/ Revert
  <2>1. /\ result' = Fresh
        /\ \E new, log : /\ log = Log(resolveHead, Fresh)
                         /\ \/ pending' = <<Put(new), Advance(Fresh), log>>
                            \/ pending' = <<Put(new), Advance(Fresh), log, Set("ORIG_HEAD", resolveHead)>>
    BY <1>1 DEF RecordCommit, Revert, Start
  <2>2. 3 \in DOMAIN pending' /\ pending'[3].file = "log" /\ pending'[3].ids = {resolveHead, Fresh} \ {None}
    BY <2>1 DEF Log
  <2>3. Fresh # None
    BY <1>1, VcAssumption DEF RecordCommit, Revert, Room, Fresh, Commit, Inv, TypeOK
  <2> QED
    BY <2>1, <2>2, <2>3 DEF Promised
<1>2. ASSUME NEW ref \in Ref, MergeFastForward(ref) \/ RebaseFastForward(ref)
      PROVE  Promised(pending', result')
  <2>1. /\ result' = refs[ref] /\ refs[ref] # None
        /\ \E set, move : pending' = <<set, move, Log(resolveHead, refs[ref])>>
    BY <1>2 DEF MergeFastForward, RebaseFastForward, Start
  <2>2. 3 \in DOMAIN pending' /\ pending'[3].file = "log"
        /\ pending'[3].ids = {resolveHead, refs[ref]} \ {None}
    BY <2>1 DEF Log
  <2> QED
    BY <2>1, <2>2 DEF Promised
<1>3. ASSUME NEW ref \in Ref, Merge3Way(ref) PROVE Promised(pending', result')
  <2>1. \/ result' = None
        \/ /\ result' = Fresh /\ Room
           /\ \E a, b, c, d, e : pending' = <<a, b, c, Log(resolveHead, Fresh), d, e>>
    BY <1>3 DEF Merge3Way, Start
  <2>2. CASE result' = None
    BY <2>2 DEF Promised
  <2>3. CASE result' # None
    <3>1. 4 \in DOMAIN pending' /\ pending'[4].file = "log"
          /\ pending'[4].ids = {resolveHead, Fresh} \ {None}
      BY <2>1, <2>3 DEF Log
    <3> QED
      BY <2>1, <2>3, <3>1 DEF Promised
  <2> QED
    BY <2>2, <2>3
<1>4. CASE Move \/ PullUpToDate \/ PullRefused \/ Push
  <2>1. result' = None
    BY <1>4 DEF Move, CreateBranch, SwitchToBranch, SwitchToCommit, PullUpToDate, PullRefused, Push,
                Start
  <2> QED
    BY <2>1 DEF Promised
<1>5. CASE PullUnborn
  <2>1. HEAD \in Heads /\ refs[HEAD] = None
    BY <1>5, GoodCommits DEF PullUnborn, resolveHead, Inv, TypeOK
  <2>2. ~Rebased(HEAD)
    BY <2>1 DEF Rebased, LogInv
  <2>3. /\ result' = upstream
        /\ pending' = <<importHistory(upstream), SetRef(HEAD, upstream), Set("HEAD", HEAD),
                        SetRef(Tracking, upstream)>>
    BY <1>5 DEF PullUnborn, Start
  <2>4. /\ 2 \in DOMAIN pending' /\ pending'[2].file = "ref" /\ pending'[2].ref = HEAD
        /\ pending'[2].value = upstream /\ Quiet(pending')
    BY <2>3 DEF importHistory, SetRef, Set, Quiet
  <2> QED
    BY <2>1, <2>2, <2>3, <2>4 DEF Promised
<1>6. CASE Pull
  <2>1. /\ result' = upstream /\ upstream # None
        /\ \/ \E a, b, c, d : pending' = <<a, b, c, d, Log(resolveHead, upstream)>>
           \/ \E a, b, c, d, e, f : pending' = <<a, b, c, d, e, f, Log(resolveHead, upstream)>>
    BY <1>6 DEF Pull, Start
  <2>2. \E k \in DOMAIN pending' : /\ pending'[k].file = "log"
                                   /\ pending'[k].ids = {resolveHead, upstream} \ {None}
    <3>1. CASE \E a, b, c, d : pending' = <<a, b, c, d, Log(resolveHead, upstream)>>
      <4>1. 5 \in DOMAIN pending' /\ pending'[5] = Log(resolveHead, upstream)
        BY <3>1
      <4> QED
        BY <4>1 DEF Log
    <3>2. CASE \E a, b, c, d, e, f : pending' = <<a, b, c, d, e, f, Log(resolveHead, upstream)>>
      <4>1. 7 \in DOMAIN pending' /\ pending'[7] = Log(resolveHead, upstream)
        BY <3>2
      <4> QED
        BY <4>1 DEF Log
    <3> QED
      BY <2>1, <3>1, <3>2
  <2> QED
    BY <2>1, <2>2 DEF Promised
<1>7. CASE PullStatic
  <2>1. /\ result' = Fresh /\ Room
        /\ \E a, b, c, d : pending' = <<a, b, c, d, Log(resolveHead, Fresh)>>
    BY <1>7 DEF PullStatic, Start
  <2>2. 5 \in DOMAIN pending' /\ pending'[5].file = "log"
        /\ pending'[5].ids = {resolveHead, Fresh} \ {None}
    BY <2>1 DEF Log
  <2>3. Fresh # None
    BY <2>1, VcAssumption DEF Room, Fresh, Commit, Inv, TypeOK
  <2> QED
    BY <2>1, <2>2, <2>3 DEF Promised
<1> QED
  BY <1>1, <1>2, <1>3, <1>4, <1>5, <1>6, <1>7 DEF Others, Record

LEMMA OthersLog == ASSUME Inv, LogInv, Others PROVE LogInv'
<1>1. Quiet(pending') /\ UNCHANGED disk
  BY OthersQuiet
<1>2. \E q, v : Start(q, v)
  BY DEF Others, Record, Move, RecordCommit, Revert, MergeFastForward, Merge3Way, CreateBranch,
         SwitchToBranch, SwitchToCommit, RebaseFastForward, PullUnborn, PullUpToDate, PullRefused,
         Pull, PullStatic, Push
<1>3. reported' = reported /\ ~replaying'
  BY <1>2 DEF Start, Begin, Idle
<1> QED
  BY <1>1, <1>3, OthersPromise, Decides DEF Quiet


LEMMA NewState ==
    ASSUME Inv, NEW ours \in Good, NEW onto \in Good, HEAD \in Heads
    PROVE  NewRebase(ours, onto) \in RebaseState
<1> DEFINE plan == commitsToReplay(ours, onto)
<1>1. /\ plan \in Seq(Nat) /\ DOMAIN plan = 1..Len(plan) /\ ToSet(plan) \subseteq Commit
  BY ToReplay, GoodCommits
<1> HIDE DEF plan
<1>2. plan \in Seq(Commit)
  BY <1>1 DEF ToSet
<1>3. NewRebase(ours, onto) = [onto |-> onto, origHead |-> ours, branch |-> HEAD, tip |-> onto,
                               todo |-> plan, done |-> <<>>, current |-> None]
  BY DEF NewRebase, plan
<1>4. ours \in Commit /\ onto \in Commit
  BY GoodCommits
<1> QED
  BY <1>2, <1>3, <1>4 DEF RebaseState

(* A rebase under way goes on with another state of the same branch.        *)
LEMMA GoesOn ==
    ASSUME LogInv, UNCHANGED <<disk, reported>>, REBASE_STATE # None,
           NEW state \in RebaseState,
           state.branch = REBASE_STATE.branch, state.origHead = REBASE_STATE.origHead,
           \A k \in DOMAIN pending' :
              /\ pending'[k].file = "REBASE_STATE" => pending'[k].value = state
              /\ \A j \in DOMAIN pending' \ {k} : pending'[j].file # "REBASE_STATE" \/ pending'[k].file # "REBASE_STATE",
           result' = None
    PROVE  LogInv'
<1>1. state # None
  BY VcAssumption
<1>2. \A k \in DOMAIN pending' : pending'[k].file = "REBASE_STATE" => StateLogged(pending', k)
  BY <1>1 DEF StateLogged
<1>3. Promised(pending', result')
  BY DEF Promised
<1> QED
  BY <1>2, <1>3, Decides

(* The branch is moved, and the state goes once what was found is logged.   *)
LEMMA EndLogs ==
    ASSUME LogInv, UNCHANGED <<disk, reported>>, NEW old, NEW new, NEW v, REBASE_STATE # None,
           REBASE_STATE.origHead \in {old, new} \ {None}, v \in {None} \cup ({new} \ {None}),
           pending' = <<SetRef(REBASE_STATE.branch, new), Log(old, new), SetState(None)>>,
           result' = v, replaying' = FALSE
    PROVE  LogInv'
<1>1. /\ DOMAIN pending' = {1, 2, 3} /\ pending'[1].file = "ref"
      /\ pending'[2].file = "log" /\ pending'[2].ids = {old, new} \ {None}
      /\ pending'[3].file = "REBASE_STATE" /\ pending'[3].value = None
  BY DEF SetRef, Log, SetState, Set
<1>2. StateLogged(pending', 3)
  BY <1>1 DEF StateLogged
<1>3. Promised(pending', v)
  BY <1>1 DEF Promised
<1> QED
  BY <1>1, <1>2, <1>3, Decides

LEMMA RebaseOpLogs == ASSUME Inv, LogInv, RebaseOp, ~Others PROVE LogInv'
<1>1. UNCHANGED <<disk, reported>>
  BY DEF RebaseOp, Others, RebaseFastForward, Rebase, StartReplay, RebaseStep, RebasePause,
         RebaseFinish, RebaseContinue, RebaseSkip, RebaseAbort, Start
<1>2. ASSUME NEW ref \in Ref, Rebase(ref) PROVE LogInv'
  <2> DEFINE state == NewRebase(resolveHead, refs[ref])
  <2>1. /\ REBASE_STATE = None /\ HEAD \in Heads /\ result' = None
        /\ pending' = <<Set("ORIG_HEAD", resolveHead), SetState(state)>>
    BY <1>2 DEF Rebase, StartReplay, noRebaseInProgress, Begin, Idle
  <2>2. refs[state.branch] = state.origHead
    BY <2>1 DEF NewRebase, resolveHead
  <2>3. state # None
    BY <2>1, <1>2, Found, NewState, VcAssumption DEF Rebase
  <2> HIDE DEF state
  <2>4. /\ DOMAIN pending' = {1, 2} /\ pending'[1].file = "ORIG_HEAD"
        /\ pending'[2].file = "REBASE_STATE" /\ pending'[2].value = state
    BY <2>1 DEF Set, SetState
  <2>5. StateLogged(pending', 2)
    BY <2>1, <2>2, <2>3, <2>4 DEF StateLogged, Moves
  <2>6. Promised(pending', result')
    BY <2>1 DEF Promised
  <2> QED
    BY <1>1, <2>1, <2>4, <2>5, <2>6, Decides
<1>3. ASSUME REBASE_STATE # None
      PROVE  /\ Skipped(REBASE_STATE) \in RebaseState
             /\ Skipped(REBASE_STATE).branch = REBASE_STATE.branch
             /\ Skipped(REBASE_STATE).origHead = REBASE_STATE.origHead
             /\ Advanced(REBASE_STATE, Fresh).branch = REBASE_STATE.branch
             /\ Advanced(REBASE_STATE, Fresh).origHead = REBASE_STATE.origHead
             /\ Room => Advanced(REBASE_STATE, Fresh) \in RebaseState
             /\ REBASE_STATE.origHead \in Commit /\ REBASE_STATE.tip \in Commit
  <2>1. REBASE_STATE \in RebaseState
    BY <1>3, Found
  <2>2. Room => Fresh \in Commit
    BY VcAssumption DEF Room, Fresh, Commit, Inv, TypeOK
  <2>3. /\ Skipped(REBASE_STATE) \in RebaseState
        /\ Room => Advanced(REBASE_STATE, Fresh) \in RebaseState
    BY <2>1, <2>2, States
  <2> QED
    BY <2>1, <2>3 DEF Skipped, Advanced, RebaseState
<1>4. CASE RebaseStep
  <2>1. REBASE_STATE # None /\ Room /\ result' = None
    BY <1>4, AtWork DEF RebaseStep, Replaying, LogInv
  <2>2. PICK new, state : /\ state = Advanced(REBASE_STATE, Fresh)
                          /\ pending' = <<Put(new), SetState(state)>>
    BY <1>4 DEF RebaseStep
  <2>3. /\ DOMAIN pending' = {1, 2} /\ pending'[1].file = "object" /\ pending'[2].value = state
    BY <2>2 DEF Put, Set, SetState
  <2> QED
    BY <1>1, <1>3, <2>1, <2>2, <2>3, GoesOn
<1>5. CASE RebasePause
  <2>1. REBASE_STATE # None /\ REBASE_STATE \in RebaseState /\ REBASE_STATE.todo # <<>>
        /\ result' = None
    BY <1>5, AtWork, Found DEF RebasePause, Replaying, LogInv
  <2>2. PICK state : /\ state = [REBASE_STATE EXCEPT !.current = REBASE_STATE.todo[1]]
                     /\ pending' = <<SetState(state)>>
    BY <1>5 DEF RebasePause
  <2>3. state \in RebaseState
    BY <2>1, <2>2, States
  <2>4. state.branch = REBASE_STATE.branch /\ state.origHead = REBASE_STATE.origHead
    BY <2>1, <2>2 DEF RebaseState
  <2>5. /\ DOMAIN pending' = {1} /\ pending'[1].value = state
    BY <2>2 DEF Set, SetState
  <2> QED
    BY <1>1, <2>1, <2>3, <2>4, <2>5, GoesOn
<1>6. CASE RebaseFinish
  <2>1. REBASE_STATE # None /\ replaying' = FALSE
    BY <1>6, AtWork DEF RebaseFinish
  <2>2. REBASE_STATE.origHead # None /\ REBASE_STATE.tip # None
    BY <1>3, <2>1, VcAssumption
  <2> QED
    BY <1>1, <1>6, <2>1, <2>2, EndLogs DEF RebaseFinish
<1>7. CASE RebaseAbort
  <2>1. REBASE_STATE # None /\ replaying' = FALSE
    BY <1>7 DEF RebaseAbort, Start, Begin, Idle
  <2>2. REBASE_STATE.origHead # None
    BY <1>3, <2>1, VcAssumption
  <2> QED
    BY <1>1, <1>7, <2>1, <2>2, EndLogs DEF RebaseAbort, Start
<1>8. CASE RebaseContinue
  <2>1. REBASE_STATE # None /\ result' = None
    BY <1>8 DEF RebaseContinue, StartReplay, Begin, Idle
  <2>2. CASE pending' = <<>>
    BY <1>1, <2>1, <2>2, Decides DEF Promised
  <2>3. CASE pending' # <<>>
    <3>1. PICK new, state : /\ state = Advanced(REBASE_STATE, Fresh) /\ Room
                            /\ pending' = <<Put(new), SetState(state)>>
      BY <1>8, <2>3 DEF RebaseContinue, StartReplay
    <3>2. /\ DOMAIN pending' = {1, 2} /\ pending'[1].file = "object" /\ pending'[2].value = state
      BY <3>1 DEF Put, Set, SetState
    <3> QED
      BY <1>1, <1>3, <2>1, <3>1, <3>2, GoesOn
  <2> QED
    BY <2>2, <2>3
<1>9. CASE RebaseSkip
  <2>1. REBASE_STATE # None /\ result' = None
    BY <1>9 DEF RebaseSkip, StartReplay, Begin, Idle
  <2>2. PICK state : state = Skipped(REBASE_STATE) /\ pending' = <<SetState(state)>>
    BY <1>9 DEF RebaseSkip, StartReplay
  <2>3. /\ DOMAIN pending' = {1} /\ pending'[1].value = state
    BY <2>2 DEF Set, SetState
  <2> QED
    BY <1>1, <1>3, <2>1, <2>2, <2>3, GoesOn
<1> QED
  BY <1>2, <1>4, <1>5, <1>6, <1>7, <1>8, <1>9 DEF RebaseOp, Others

(* One write.                                                              *)
LEMMA WriteStates ==
    ASSUME Inv, LogInv, Write, NEW k \in DOMAIN pending', pending'[k].file = "REBASE_STATE"
    PROVE  StateLogged(pending, k)'
<1> DEFINE w == Head(pending)  rest == Tail(pending)
<1>1. /\ w = pending[1] /\ 1 \in DOMAIN pending /\ pending' = rest
      /\ \A j \in DOMAIN rest : /\ j + 1 \in DOMAIN pending /\ rest[j] = pending[j + 1]
                                /\ j \in Nat \ {0}
      /\ \A j \in DOMAIN pending \ {1} : j - 1 \in DOMAIN rest /\ rest[j - 1] = pending[j]
  BY FirstWrite DEF Inv, Write
<1>2. /\ refs' = IF w.file = "ref" THEN [refs EXCEPT ![w.ref] = w.value] ELSE refs
      /\ logs' = IF w.file = "log" THEN logs \cup w.ids ELSE logs
      /\ REBASE_STATE' = IF w.file = "REBASE_STATE" THEN w.value ELSE REBASE_STATE
  BY DEF Write, Effect, Register
<1> HIDE DEF w, rest
<1>3. k + 1 \in DOMAIN pending /\ rest[k] = pending[k + 1] /\ k \in Nat \ {0}
  BY <1>1
<1>4. StateLogged(pending, k + 1)
  BY <1>1, <1>3 DEF LogInv
<1>5. w.file # "REBASE_STATE"
  BY <1>1, <1>3, <1>4 DEF StateLogged
<1>6. REBASE_STATE' = REBASE_STATE
  BY <1>2, <1>5
<1>7. \A j \in DOMAIN rest \ {k} : rest[j].file # "REBASE_STATE"
  <2> SUFFICES ASSUME NEW j \in DOMAIN rest \ {k} PROVE rest[j].file # "REBASE_STATE"
    OBVIOUS
  <2>1. j + 1 \in DOMAIN pending \ {k + 1} /\ rest[j] = pending[j + 1]
    BY <1>1, <1>3
  <2> QED
    BY <1>4, <2>1 DEF StateLogged
<1>8. ASSUME rest[k].value = None
      PROVE  \/ REBASE_STATE' = None
             \/ REBASE_STATE'.origHead \in logs'
             \/ \E j \in 1..(k - 1) : rest[j].file = "log" /\ REBASE_STATE'.origHead \in rest[j].ids
  <2>1. \/ REBASE_STATE = None
        \/ REBASE_STATE.origHead \in logs
        \/ \E j \in 1..((k + 1) - 1) : pending[j].file = "log" /\ REBASE_STATE.origHead \in pending[j].ids
    BY <1>3, <1>4, <1>8 DEF StateLogged
  <2>2. ASSUME NEW j \in 1..((k + 1) - 1), pending[j].file = "log",
               REBASE_STATE.origHead \in pending[j].ids
        PROVE  \/ REBASE_STATE.origHead \in logs'
               \/ \E i \in 1..(k - 1) : rest[i].file = "log" /\ REBASE_STATE.origHead \in rest[i].ids
    <3>1. CASE j = 1
      BY <1>1, <1>2, <2>2, <3>1
    <3>2. CASE j # 1
      <4>1. j \in DOMAIN pending /\ j - 1 \in 1..(k - 1)
        BY <1>3, <3>2 DEF Inv, TypeOK
      <4>2. rest[j - 1] = pending[j]
        BY <1>1, <3>2, <4>1
      <4> QED
        BY <2>2, <4>1, <4>2
    <3> QED
      BY <3>1, <3>2
  <2>3. logs \subseteq logs'
    BY <1>2
  <2> QED
    BY <1>6, <2>1, <2>2, <2>3
<1>9. ASSUME rest[k].value # None, REBASE_STATE' = None
      PROVE  /\ refs'[rest[k].value.branch] = rest[k].value.origHead
             /\ \A j \in DOMAIN rest : ~Moves(rest[j])
  <2>1. /\ refs[rest[k].value.branch] = rest[k].value.origHead
        /\ \A j \in DOMAIN pending : ~Moves(pending[j])
    BY <1>3, <1>4, <1>6, <1>9 DEF StateLogged
  <2>2. rest[k].value.branch \in Heads
    <3>1. pending[k + 1] \in WriteRecord
      BY <1>3 DEF Inv, TypeOK
    <3> QED
      BY <1>1, <1>3, <1>9, <3>1 DEF WriteRecord, RebaseState
  <2>3. refs'[rest[k].value.branch] = refs[rest[k].value.branch]
    BY <1>1, <1>2, <2>1, <2>2 DEF Moves
  <2>4. \A j \in DOMAIN rest : ~Moves(rest[j])
    BY <1>1, <2>1
  <2> QED
    BY <2>1, <2>3, <2>4
<1>10. rest[k].value # None /\ REBASE_STATE' # None =>
          /\ rest[k].value.branch = REBASE_STATE'.branch
          /\ rest[k].value.origHead = REBASE_STATE'.origHead
  BY <1>3, <1>4, <1>6 DEF StateLogged
<1> QED
  BY <1>1, <1>7, <1>8, <1>9, <1>10 DEF StateLogged

LEMMA WritePromise == ASSUME Inv, KeepInv, LogInv, Write PROVE Promised(pending, result)'
<1> DEFINE w == Head(pending)  rest == Tail(pending)
<1>1. /\ w = pending[1] /\ 1 \in DOMAIN pending /\ pending' = rest /\ w \in WriteRecord
      /\ \A j \in DOMAIN rest : /\ j + 1 \in DOMAIN pending /\ rest[j] = pending[j + 1]
                                /\ j \in Nat \ {0}
      /\ \A j \in DOMAIN pending \ {1} : j - 1 \in DOMAIN rest /\ rest[j - 1] = pending[j]
  BY FirstWrite DEF Inv, Write
<1>2. /\ refs' = IF w.file = "ref" THEN [refs EXCEPT ![w.ref] = w.value] ELSE refs
      /\ logs' = IF w.file = "log" THEN logs \cup w.ids ELSE logs
      /\ REBASE_STATE' = IF w.file = "REBASE_STATE" THEN w.value ELSE REBASE_STATE
      /\ result' = result
  BY DEF Write, Effect, Register
<1> HIDE DEF w, rest
<1>3. CASE result = None \/ result \in logs
  BY <1>2, <1>3 DEF Promised
<1>4. ASSUME NEW k \in DOMAIN pending, pending[k].file = "log", result \in pending[k].ids
      PROVE  Promised(pending, result)'
  <2>1. CASE k = 1
    BY <1>1, <1>2, <1>4, <2>1 DEF Promised
  <2>2. CASE k # 1
    <3>1. k - 1 \in DOMAIN rest /\ rest[k - 1] = pending[k]
      BY <1>1, <2>2
    <3> QED
      BY <1>1, <1>2, <1>4, <3>1 DEF Promised
  <2> QED
    BY <2>1, <2>2
<1>5. ASSUME Quiet(pending), NEW b \in Heads, ~Rebased(b),
             \/ refs[b] = result /\ \A k \in DOMAIN pending : pending[k].file = "ref" => pending[k].ref # b
             \/ \E k \in DOMAIN pending : /\ pending[k].file = "ref" /\ pending[k].ref = b
                                          /\ pending[k].value = result
      PROVE  Promised(pending, result)'
  <2>1. REBASE_STATE' = REBASE_STATE /\ Quiet(rest)
    BY <1>1, <1>2, <1>5 DEF Quiet
  <2>2. ~Rebased(b)'
    BY <1>5, <2>1 DEF Rebased
  <2>3. refs \in [Ref -> Commit \cup {None}] /\ b \in Ref
    BY DEF Inv, TypeOK, Ref
  <2>4. CASE refs[b] = result /\ \A k \in DOMAIN pending : pending[k].file = "ref" => pending[k].ref # b
    <3>1. refs'[b] = result
      BY <1>1, <1>2, <2>3, <2>4
    <3>2. \A k \in DOMAIN rest : rest[k].file = "ref" => rest[k].ref # b
      BY <1>1, <2>4
    <3> QED
      BY <1>1, <1>2, <2>1, <2>2, <3>1, <3>2 DEF Promised
  <2>5. ASSUME NEW k \in DOMAIN pending, pending[k].file = "ref", pending[k].ref = b,
               pending[k].value = result
        PROVE  Promised(pending, result)'
    <3>1. CASE k = 1
      <4>1. refs'[b] = result
        BY <1>1, <1>2, <2>3, <2>5, <3>1
      <4>2. \A j \in DOMAIN pending \ {1} : pending[j].file = "ref" => pending[j].ref # b
        BY <2>5, <3>1 DEF KeepInv, Moves
      <4>3. \A j \in DOMAIN rest : rest[j].file = "ref" => rest[j].ref # b
        <5> SUFFICES ASSUME NEW j \in DOMAIN rest PROVE rest[j].file = "ref" => rest[j].ref # b
          OBVIOUS
        <5>1. j + 1 \in DOMAIN pending \ {1} /\ rest[j] = pending[j + 1]
          BY <1>1
        <5> QED
          BY <4>2, <5>1
      <4> QED
        BY <1>1, <1>2, <2>1, <2>2, <4>1, <4>3 DEF Promised
    <3>2. CASE k # 1
      <4>1. k - 1 \in DOMAIN rest /\ rest[k - 1] = pending[k]
        BY <1>1, <3>2
      <4> QED
        BY <1>1, <1>2, <2>1, <2>2, <2>5, <4>1 DEF Promised
    <3> QED
      BY <3>1, <3>2
  <2> QED
    BY <1>5, <2>4, <2>5
<1> QED
  BY <1>3, <1>4, <1>5 DEF LogInv, Promised

(* What a write takes from an anchor it gives to another one.               *)
LEMMA WriteAnchors ==
    ASSUME Inv, KeepInv, LogInv, Write, NEW a, Anchor(a)
    PROVE  \E b : Anchor(b)' /\ b \in DOMAIN commits /\ a \in commits[b].past
<1> DEFINE w == Head(pending)
<1>1. w = pending[1] /\ 1 \in DOMAIN pending /\ w \in WriteRecord /\ Allowed(w, Good)
  BY FirstWrite DEF Inv, Write
<1>2. /\ refs' = IF w.file = "ref" THEN [refs EXCEPT ![w.ref] = w.value] ELSE refs
      /\ logs' = IF w.file = "log" THEN logs \cup w.ids ELSE logs
      /\ REBASE_STATE' = IF w.file = "REBASE_STATE" THEN w.value ELSE REBASE_STATE
  BY DEF Write, Effect, Register
<1> HIDE DEF w
<1>3. a \in DOMAIN commits /\ a \in commits[a].past /\ a # None
  BY AnchorGood, GoodCommits DEF Inv, Sound
<1>4. w.file = "REBASE_STATE" => StateLogged(pending, 1)
  BY <1>1 DEF LogInv
<1>5. CASE a \in logs
  BY <1>2, <1>3, <1>5 DEF Anchor
<1>6. ASSUME NEW b \in Heads, refs[b] = a, ~Rebased(b)
      PROVE  \E c : Anchor(c)' /\ c \in DOMAIN commits /\ a \in commits[c].past
  <2>1. refs \in [Ref -> Commit \cup {None}] /\ b \in Ref
    BY DEF Inv, TypeOK, Ref
  <2>2. CASE w.file = "ref" /\ w.ref = b
    <3>1. refs'[b] = w.value /\ REBASE_STATE' = REBASE_STATE /\ logs' = logs
      BY <1>2, <2>1, <2>2
    <3>2. w.value \in DOMAIN commits /\ w.value # None
      BY <1>1, <2>2, GoodCommits DEF Allowed
    <3>3. \E v : v = w.value /\ Anchor(v)'
      BY <1>6, <3>1, <3>2 DEF Anchor, Rebased
    <3>4. Kept(pending, 1)
      BY <1>1, <2>2 DEF KeepInv, Moves
    <3>5. ~(\E j \in DOMAIN pending : pending[j].file = "object" /\ pending[j].id = w.value)
      <4>1. Fresh \notin DOMAIN commits
        BY DEF Inv, TypeOK, Fresh
      <4> QED
        BY <3>2, <4>1 DEF Inv, InOrder
    <3>6. ~(\E j \in 1..(1 - 1) : TRUE)
      OBVIOUS
    <3>7. refs[b] \in commits[w.value].past \/ refs[b] \in logs \/ Rebased(b)
      BY <1>1, <1>3, <1>6, <2>2, <3>4, <3>5, <3>6 DEF Kept, Rebased
    <3> QED
      BY <1>5, <1>6, <3>2, <3>3, <3>7
  <2>3. CASE w.file = "ref" /\ w.ref # b
    <3>1. refs'[b] = a /\ REBASE_STATE' = REBASE_STATE
      BY <1>2, <1>6, <2>1, <2>3
    <3> QED
      BY <1>3, <1>6, <3>1 DEF Anchor, Rebased
  <2>4. CASE w.file = "REBASE_STATE"
    <3>1. refs' = refs /\ REBASE_STATE' = w.value
      BY <1>2, <2>4
    <3>2. CASE Rebased(b)'
      <4>1. w.value # None /\ w.value.branch = b
        BY <3>1, <3>2 DEF Rebased
      <4>2. REBASE_STATE = None
        BY <1>1, <1>4, <1>6, <2>4, <4>1 DEF StateLogged, Rebased
      <4>3. w.value.origHead = a
        BY <1>1, <1>4, <1>6, <2>4, <4>1, <4>2 DEF StateLogged
      <4> QED
        BY <1>3, <3>1, <4>1, <4>3 DEF Anchor
    <3>3. CASE ~Rebased(b)'
      BY <1>3, <1>6, <3>1, <3>3 DEF Anchor
    <3> QED
      BY <3>2, <3>3
  <2>5. CASE w.file \notin {"ref", "REBASE_STATE"}
    BY <1>2, <1>3, <1>6, <2>5 DEF Anchor, Rebased
  <2> QED
    BY <2>2, <2>3, <2>4, <2>5
<1>7. CASE REBASE_STATE # None /\ a = REBASE_STATE.origHead
  <2>1. CASE w.file # "REBASE_STATE"
    BY <1>2, <1>3, <1>7, <2>1 DEF Anchor
  <2>2. CASE w.file = "REBASE_STATE" /\ w.value # None
    <3>1. w.value.origHead = a
      BY <1>1, <1>4, <1>7, <2>2 DEF StateLogged
    <3> QED
      BY <1>2, <1>3, <2>2, <3>1 DEF Anchor
  <2>3. CASE w.file = "REBASE_STATE" /\ w.value = None
    <3>1. ~(\E j \in 1..(1 - 1) : TRUE)
      OBVIOUS
    <3>2. a \in logs
      BY <1>1, <1>4, <1>7, <2>3, <3>1 DEF StateLogged
    <3> QED
      BY <1>5, <3>2
  <2> QED
    BY <2>1, <2>2, <2>3
<1> QED
  BY <1>5, <1>6, <1>7 DEF Anchor

LEMMA WriteLogs == ASSUME Inv, KeepInv, LogInv, Write PROVE LogInv'
<1> DEFINE w == Head(pending)
<1>1. w = pending[1] /\ 1 \in DOMAIN pending /\ w \in WriteRecord /\ Allowed(w, Good)
  BY FirstWrite DEF Inv, Write
<1>2. /\ refs' = IF w.file = "ref" THEN [refs EXCEPT ![w.ref] = w.value] ELSE refs
      /\ REBASE_STATE' = IF w.file = "REBASE_STATE" THEN w.value ELSE REBASE_STATE
      /\ reported' = reported /\ replaying' = replaying /\ result' = result
  BY DEF Write, Effect, Register
<1> HIDE DEF w
<1>3. /\ DOMAIN commits \subseteq DOMAIN commits'
      /\ \A c \in DOMAIN commits : commits'[c] = commits[c]
  BY WriteBrings
<1>4. ASSUME NEW c \in reported
      PROVE  \E a : Anchor(a)' /\ a \in DOMAIN commits' /\ c \in commits'[a].past
  <2>1. PICK a : Anchor(a) /\ a \in DOMAIN commits /\ c \in commits[a].past
    BY DEF LogInv
  <2>2. PICK b : Anchor(b)' /\ b \in DOMAIN commits /\ a \in commits[b].past
    BY <2>1, WriteAnchors
  <2>3. c \in commits[b].past
    BY <2>1, <2>2 DEF Inv, Sound
  <2> QED
    BY <1>3, <2>2, <2>3
<1>5. ASSUME REBASE_STATE' # None PROVE refs'[REBASE_STATE'.branch] # None
  <2>1. CASE w.file # "REBASE_STATE"
    <3>1. REBASE_STATE' = REBASE_STATE /\ REBASE_STATE # None
      BY <1>2, <1>5, <2>1
    <3>2. REBASE_STATE.branch \in Ref /\ refs[REBASE_STATE.branch] # None
      BY <3>1, Found DEF LogInv, RebaseState, Ref
    <3>3. w.file = "ref" => w.value # None
      BY <1>1, GoodCommits DEF Allowed
    <3> QED
      BY <1>2, <3>1, <3>2, <3>3 DEF Inv, TypeOK
  <2>2. CASE w.file = "REBASE_STATE"
    <3>1. StateLogged(pending, 1) /\ w.value \in RebaseState
      BY <1>1, <1>2, <1>5, <2>2 DEF LogInv, WriteRecord
    <3>2. w.value.origHead # None
      BY <3>1, VcAssumption DEF RebaseState
    <3> QED
      BY <1>1, <1>2, <1>5, <2>2, <3>1, <3>2 DEF StateLogged, LogInv
  <2> QED
    BY <2>1, <2>2
<1>6. (replaying => result = None)'
  BY <1>2 DEF LogInv
<1> QED
  BY <1>2, <1>4, <1>5, <1>6, WriteStates, WritePromise DEF LogInv

LEMMA ImportLogs == ASSUME Inv, LogInv, ImportObject PROVE LogInv'
<1> DEFINE w == Head(pending)  rest == Tail(pending)
<1>1. /\ pending # <<>> /\ w.file = "import" /\ pending' \in {pending, rest}
      /\ UNCHANGED <<commits, refs, logs, REBASE_STATE, reported, result, replaying>>
  BY DEF ImportObject
<1>2. /\ w = pending[1] /\ 1 \in DOMAIN pending
      /\ \A j \in DOMAIN rest : /\ j + 1 \in DOMAIN pending /\ rest[j] = pending[j + 1]
                                /\ j \in Nat \ {0}
      /\ \A j \in DOMAIN pending \ {1} : j - 1 \in DOMAIN rest /\ rest[j - 1] = pending[j]
  BY <1>1, FirstWrite DEF Inv
<1> HIDE DEF w, rest
<1>3. ASSUME NEW k \in DOMAIN rest, rest[k].file = "REBASE_STATE" PROVE StateLogged(rest, k)
  <2>1. k + 1 \in DOMAIN pending /\ rest[k] = pending[k + 1] /\ k \in Nat \ {0}
        /\ StateLogged(pending, k + 1)
    BY <1>2, <1>3 DEF LogInv
  <2>2. \A j \in DOMAIN rest \ {k} : rest[j].file # "REBASE_STATE"
    <3> SUFFICES ASSUME NEW j \in DOMAIN rest \ {k} PROVE rest[j].file # "REBASE_STATE"
      OBVIOUS
    <3>1. j + 1 \in DOMAIN pending \ {k + 1} /\ rest[j] = pending[j + 1]
      BY <1>2, <2>1
    <3> QED
      BY <2>1, <3>1 DEF StateLogged
  <2>3. ASSUME NEW j \in 1..((k + 1) - 1), pending[j].file = "log"
        PROVE  j - 1 \in 1..(k - 1) /\ rest[j - 1] = pending[j]
    <3>1. j \in DOMAIN pending /\ j # 1 /\ j - 1 \in 1..(k - 1)
      BY <1>1, <1>2, <2>1, <2>3 DEF Inv, TypeOK
    <3> QED
      BY <1>2, <3>1
  <2>4. \A j \in DOMAIN rest : rest[j] \in {pending[i] : i \in DOMAIN pending}
    BY <1>2
  <2>5. rest[k].value = None =>
           \/ REBASE_STATE = None
           \/ REBASE_STATE.origHead \in logs
           \/ \E j \in 1..(k - 1) : rest[j].file = "log" /\ REBASE_STATE.origHead \in rest[j].ids
    BY <2>1, <2>3 DEF StateLogged
  <2> QED
    BY <2>1, <2>2, <2>4, <2>5 DEF StateLogged
<1>4. Promised(rest, result)
  <2>1. \A k \in DOMAIN pending : pending[k].file # "import" =>
           \E j \in DOMAIN rest : rest[j] = pending[k]
    BY <1>1, <1>2
  <2>2. \A j \in DOMAIN rest : \E k \in DOMAIN pending : rest[j] = pending[k]
    BY <1>2
  <2> QED
    BY <2>1, <2>2 DEF LogInv, Promised, Quiet
<1> QED
  BY <1>1, <1>3, <1>4 DEF LogInv, Anchor, Rebased, StateLogged, Promised, Quiet

LEMMA ReturnLogs == ASSUME Inv, LogInv, Return PROVE LogInv'
<1>1. /\ pending = <<>> /\ result # None /\ pending' = pending /\ replaying' = replaying
      /\ reported' = reported \cup {result} /\ result' = None
      /\ UNCHANGED <<commits, refs, logs, REBASE_STATE>>
  BY DEF Return, disk
<1>2. Anchor(result)
  BY <1>1 DEF LogInv, Promised, Anchor
<1>3. result \in DOMAIN commits /\ result \in commits[result].past
  BY <1>2, AnchorGood, GoodCommits DEF Inv, Sound
<1>4. \A c \in reported' : \E a : Anchor(a) /\ a \in DOMAIN commits /\ c \in commits[a].past
  BY <1>1, <1>2, <1>3 DEF LogInv
<1>5. \A a : Anchor(a) => Anchor(a)'
  BY <1>1 DEF Anchor, Rebased
<1> QED
  BY <1>1, <1>4, <1>5 DEF LogInv, Promised

LEMMA PeerPushLogs == ASSUME Inv, LogInv, PeerPush PROVE LogInv'
<1>1. /\ pending = <<>> /\ result = None
      /\ \E new : commits' = Append(commits, new)
      /\ UNCHANGED <<refs, logs, REBASE_STATE, pending, replaying, result, reported>>
  BY DEF PeerPush, Begin, Idle
<1>2. /\ DOMAIN commits \subseteq DOMAIN commits'
      /\ \A c \in DOMAIN commits : commits'[c] = commits[c]
  BY <1>1 DEF Inv, TypeOK
<1>3. \A a : Anchor(a) => Anchor(a)'
  BY <1>1 DEF Anchor, Rebased
<1>4. \A c \in reported' : \E a : Anchor(a)' /\ a \in DOMAIN commits' /\ c \in commits'[a].past
  BY <1>1, <1>2, <1>3 DEF LogInv
<1> QED
  BY <1>1, <1>4 DEF LogInv, Promised

LEMMA StillLogs ==
    ASSUME LogInv, UNCHANGED <<commits, refs, logs, REBASE_STATE, reported>>,
           \/ UNCHANGED <<pending, result, replaying>>
           \/ pending' = <<>> /\ result' = None
    PROVE  LogInv'
<1>1. \A a : Anchor(a) <=> Anchor(a)'
  BY DEF Anchor, Rebased
<1>2. CASE UNCHANGED <<pending, result, replaying>>
  BY <1>1, <1>2 DEF LogInv, StateLogged, Promised, Rebased, Quiet
<1>3. CASE pending' = <<>> /\ result' = None
  BY <1>1, <1>3 DEF LogInv, Promised
<1> QED
  BY <1>2, <1>3

LEMMA LogNext == Inv /\ KeepInv /\ LogInv /\ [Next]_vars => LogInv'
<1> SUFFICES ASSUME Inv, KeepInv, LogInv, [Next]_vars PROVE LogInv'
  OBVIOUS
<1>1. CASE Crash \/ Gc \/ UNCHANGED vars
  BY <1>1, StillLogs DEF Crash, Forget, Gc, vars, disk
<1>2. CASE RebaseOp /\ ~Others
  BY <1>2, RebaseOpLogs
<1> QED
  BY <1>1, <1>2, OthersLog, WriteLogs, ImportLogs, ReturnLogs, PeerPushLogs DEF Next, Others, Remote

(* What an operation has told the user of stays: when a branch leaves it,   *)
(* a reflog names it, and while a rebase may still move the branch, so does *)
(* the state of the rebase.                                                 *)
THEOREM ReportedStays ==
    ASSUME "orphan" \notin Trouble, "static" \notin Trouble PROVE Spec => []ReportedKept
<1>1. Init => KeepInv /\ LogInv
  BY DEF Init, KeepInv, LogInv, Promised
<1>2. Inv /\ LogInv => ReportedKept
  <2> SUFFICES ASSUME Inv, LogInv, NEW c \in reported PROVE commits[c].past \subseteq stored
    BY DEF ReportedKept, History
  <2>1. PICK a : Anchor(a) /\ a \in DOMAIN commits /\ c \in commits[a].past
    BY DEF LogInv
  <2>2. commits[a].past \subseteq stored
    BY <2>1, AnchorGood DEF Good
  <2> QED
    BY <2>1, <2>2 DEF Inv, Sound
<1> QED
  BY <1>1, <1>2, Invariance, KeepNext, LogNext, PTL DEF Spec
=============================================================================
