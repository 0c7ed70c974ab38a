--------------------------- MODULE RemoteSyncProofs ---------------------------
(***************************************************************************)
(* Proofs about RemoteSync, for every set of peers, paths, locks and replay *)
(* rows and every remote: the types; no pushed commit out of reach and no   *)
(* own file left out; no branch served before what it reaches; the vetted   *)
(* lock is the installed one; replay bytes stay home.                       *)
(***************************************************************************)
EXTENDS RemoteSync, TLAPS

-----------------------------------------------------------------------------
(* Histories and rows.                                                      *)

(* Every commit of the history of c locks a version and tracks known bytes, and
   its own history is part of it. *)
HistoryOK(c) ==
    \A a \in Ancestors(c) :
        a.lock \in Version /\ Range(a.tracked) \subseteq Content /\ Ancestors(a) \subseteq Ancestors(c)

(* The rows of a lock place replay bytes at paths of the instance. *)
LEMMA RowsFacts ==
    ASSUME NEW v \in Version \cup {None}
    PROVE  /\ DOMAIN RowsOf(v) \subseteq Path
           /\ \A p \in DOMAIN RowsOf(v) : RowsOf(v)[p] \in Replay
           /\ Range(RowsOf(v)) \subseteq Replay
<1>1. CASE v = None
  BY <1>1 DEF RowsOf, Range
<1>2. CASE v # None
  <2>1. PICK D \in SUBSET Path : Rows[v] \in [D -> Replay]
    BY <1>2, RemoteAssumption
  <2>2. QED BY <1>2, <2>1 DEF RowsOf, Range
<1>3. QED BY <1>1, <1>2

(* A commit of a lock is a commit, its own first ancestor. *)
LEMMA MakeCommitFacts ==
    ASSUME NEW parent, NEW lock \in Version, NEW tracked
    PROVE  LET c == MakeCommit(parent, lock, tracked)
           IN  /\ c # NoCommit
               /\ c.lock = lock /\ c.tracked = tracked
               /\ Ancestors(c) = {c} \cup Ancestors(parent)
               /\ Blobs(c) = Range(tracked) \cup Blobs(parent)
               /\ replayPinsOf(c) = Range(RowsOf(lock)) \cup replayPinsOf(parent)
<1> DEFINE c == MakeCommit(parent, lock, tracked)
<1>1. c.lock = lock /\ c.tracked = tracked /\ c.past = Ancestors(parent)
  BY DEF MakeCommit
<1>2. c # NoCommit
  BY <1>1, RemoteAssumption DEF NoCommit
<1>3. Ancestors(c) = {c} \cup Ancestors(parent)
  BY <1>1, <1>2 DEF Ancestors
<1> HIDE DEF c
<1>4. Blobs(c) = Range(tracked) \cup Blobs(parent)
  BY <1>1, <1>3 DEF Blobs
<1>5. replayPinsOf(c) = Range(RowsOf(lock)) \cup replayPinsOf(parent)
  BY <1>1, <1>3 DEF replayPinsOf
<1>6. QED BY <1>1, <1>2, <1>3, <1>4, <1>5 DEF c

LEMMA NoCommitFacts ==
    /\ Ancestors(NoCommit) = {} /\ Blobs(NoCommit) = {} /\ replayPinsOf(NoCommit) = {}
    /\ HistoryOK(NoCommit)
  BY DEF Ancestors, Blobs, replayPinsOf, HistoryOK

LEMMA HistoryOKFacts ==
    ASSUME NEW c, HistoryOK(c)
    PROVE  /\ Blobs(c) \subseteq Content
           /\ replayPinsOf(c) \subseteq Replay
           /\ c # NoCommit => c.lock \in Version /\ Range(c.tracked) \subseteq Blobs(c)
<1>1. Blobs(c) \subseteq Content
  BY DEF HistoryOK, Blobs
<1>2. replayPinsOf(c) \subseteq Replay
  BY RowsFacts DEF HistoryOK, replayPinsOf
<1>3. c # NoCommit => c \in Ancestors(c)
  BY DEF Ancestors
<1>4. QED BY <1>1, <1>2, <1>3 DEF HistoryOK, Blobs

LEMMA MakeCommitOK ==
    ASSUME NEW parent, HistoryOK(parent), NEW lock \in Version, NEW tracked,
           Range(tracked) \subseteq Content
    PROVE  HistoryOK(MakeCommit(parent, lock, tracked))
<1> DEFINE c == MakeCommit(parent, lock, tracked)
<1>1. c.lock = lock /\ c.tracked = tracked
  BY MakeCommitFacts
<1>4. Ancestors(c) = {c} \cup Ancestors(parent)
  BY MakeCommitFacts
<1> HIDE DEF c
<1>2. HistoryOK(c)
  BY <1>1, <1>4 DEF HistoryOK
<1>3. QED BY <1>2 DEF c

-----------------------------------------------------------------------------
(* An instance: its fields, and what each operation does to them.          *)

IsInst(s) ==
    s = [tree |-> s.tree, lock |-> s.lock, built |-> s.built, cache |-> s.cache,
         kept |-> s.kept, ledger |-> s.ledger, tip |-> s.tip, stash |-> s.stash,
         commits |-> s.commits, blobs |-> s.blobs]

InstOK(s) ==
    /\ IsInst(s)
    /\ s.tree \in [Path -> Content \cup {None}]
    /\ s.lock \in Version \cup {None} /\ s.built \in Version \cup {None}
    /\ s.cache \subseteq Replay /\ s.kept \in BOOLEAN /\ s.ledger \subseteq Path
    /\ HistoryOK(s.tip) /\ \A c \in s.stash : HistoryOK(c)
    /\ s.blobs \subseteq Content

(* A claim adds the paths of the replay rows to the ledger, and nothing else. *)
LEMMA ClaimFacts ==
    ASSUME NEW s, InstOK(s), NEW locks \in SUBSET (Version \cup {None})
    PROVE  LET r == recordReplayPaths(s, locks)
           IN  /\ InstOK(r)
               /\ r.tree = s.tree /\ r.lock = s.lock /\ r.built = s.built
               /\ r.cache = s.cache /\ r.kept = s.kept /\ r.tip = s.tip
               /\ r.stash = s.stash /\ r.commits = s.commits /\ r.blobs = s.blobs
               /\ s.ledger \subseteq r.ledger
               /\ \A v \in locks : DOMAIN RowsOf(v) \subseteq r.ledger
<1> DEFINE r == recordReplayPaths(s, locks)
           more == s.ledger \cup UNION {DOMAIN RowsOf(v) : v \in locks}
<1>1. more \subseteq Path
  BY RowsFacts DEF InstOK
<1>0. r = [s EXCEPT !.ledger = more]
  BY DEF recordReplayPaths
<1> HIDE DEF more, r
<1>2. r = [tree |-> s.tree, lock |-> s.lock, built |-> s.built, cache |-> s.cache,
           kept |-> s.kept, ledger |-> more, tip |-> s.tip, stash |-> s.stash,
           commits |-> s.commits, blobs |-> s.blobs]
  BY <1>0 DEF InstOK, IsInst
<1>3. /\ r.tree = s.tree /\ r.lock = s.lock /\ r.built = s.built
      /\ r.cache = s.cache /\ r.kept = s.kept /\ r.tip = s.tip
      /\ r.stash = s.stash /\ r.commits = s.commits /\ r.blobs = s.blobs
      /\ r.ledger = more
  BY <1>2
<1>4. IsInst(r)
  BY <1>2, <1>3 DEF IsInst
<1>5. InstOK(r)
  BY <1>1, <1>3, <1>4 DEF InstOK
<1>6. s.ledger \subseteq r.ledger /\ \A v \in locks : DOMAIN RowsOf(v) \subseteq r.ledger
  BY <1>3 DEF more
<1>7. QED BY <1>3, <1>5, <1>6 DEF r

(* What an instance is after a successful build of lock over previousLock. *)
Installs(s, previousLock) ==
    {p \in DOMAIN RowsOf(s.lock) :
        ~(p \in DOMAIN RowsOf(previousLock) /\ RowsOf(previousLock)[p] = RowsOf(s.lock)[p])}
Fetches(s, previousLock) == {RowsOf(s.lock)[p] : p \in Installs(s, previousLock)}

(* A build leaves history alone; either it stops at the claim, or it fills the
   cache with what it installs and each file is an installed row, the file that
   was there, or none. *)
LEMMA BuildFacts ==
    ASSUME NEW s, InstOK(s), NEW previousLock \in Version \cup {None}, NEW q
    PROVE  LET r == buildInstance(s, previousLock, q \in Keyed)
               fetched == Fetches(s, previousLock)
           IN  /\ InstOK(r)
               /\ r.lock = s.lock /\ r.kept = s.kept /\ r.tip = s.tip
               /\ r.stash = s.stash /\ r.commits = s.commits /\ r.blobs = s.blobs
               /\ s.ledger \subseteq r.ledger
               /\ DOMAIN RowsOf(s.lock) \subseteq r.ledger
               /\ \/ r.cache = s.cache /\ r.tree = s.tree
                  \/ /\ ensure(s, fetched, q \in Keyed)
                     /\ r.cache = s.cache \cup fetched
                     /\ \A p \in Path :
                          \/ p \in Installs(s, previousLock) /\ r.tree[p] = RowsOf(s.lock)[p]
                          \/ r.tree[p] = s.tree[p]
                          \/ r.tree[p] = None
<1> DEFINE r == buildInstance(s, previousLock, q \in Keyed)
           claimed == recordReplayPaths(s, {s.lock, previousLock})
           rows == RowsOf(s.lock)
           was == RowsOf(previousLock)
           install == Installs(s, previousLock)
           fetched == Fetches(s, previousLock)
           tree == IF s.kept THEN s.tree
                   ELSE [p \in Path |->
                           CASE p \in install                -> rows[p]
                             [] p \in DOMAIN was \ DOMAIN rows -> None
                             [] OTHER                        -> s.tree[p]]
<1>0. s.lock \in Version \cup {None}
  BY DEF InstOK
<1>1. /\ InstOK(claimed)
      /\ claimed.tree = s.tree /\ claimed.lock = s.lock /\ claimed.built = s.built
      /\ claimed.cache = s.cache /\ claimed.kept = s.kept /\ claimed.tip = s.tip
      /\ claimed.stash = s.stash /\ claimed.commits = s.commits /\ claimed.blobs = s.blobs
      /\ s.ledger \subseteq claimed.ledger
      /\ DOMAIN RowsOf(s.lock) \subseteq claimed.ledger
  BY <1>0, ClaimFacts, {s.lock, previousLock} \in SUBSET (Version \cup {None})
<1>2. install \subseteq DOMAIN rows /\ DOMAIN rows \subseteq Path
      /\ \A p \in install : rows[p] \in Replay
  BY <1>0, RowsFacts DEF Installs
<1>3. fetched \subseteq Replay
  BY <1>2 DEF Fetches
<1>4. r = IF ~ensure(s, fetched, q \in Keyed) THEN claimed
          ELSE [claimed EXCEPT !.cache = @ \cup fetched, !.tree = tree, !.built = s.lock]
  BY <1>1 DEF buildInstance, Installs, Fetches
<1> HIDE DEF claimed, fetched, r
<1>5. CASE ~ensure(s, fetched, q \in Keyed)
  BY <1>1, <1>4, <1>5 DEF r, fetched
<1>6. CASE ensure(s, fetched, q \in Keyed)
  <2>1. tree \in [Path -> Content \cup {None}]
    <3>1. CASE s.kept
      BY <3>1 DEF InstOK
    <3>2. CASE ~s.kept
      BY <1>2, <3>2 DEF InstOK, Content
    <3>3. QED BY <3>1, <3>2
  <2>2. \A p \in Path : \/ p \in install /\ tree[p] = rows[p]
                        \/ tree[p] = s.tree[p] \/ tree[p] = None
    <3>1. CASE s.kept
      BY <3>1
    <3>2. CASE ~s.kept
      BY <1>2, <3>2
    <3>3. QED BY <3>1, <3>2
  <2> HIDE DEF tree
  <2>3. r = [tree |-> tree, lock |-> s.lock, built |-> s.lock, cache |-> s.cache \cup fetched,
             kept |-> s.kept, ledger |-> claimed.ledger, tip |-> s.tip, stash |-> s.stash,
             commits |-> s.commits, blobs |-> s.blobs]
    BY <1>1, <1>4, <1>6 DEF InstOK, IsInst
  <2>4. /\ r.tree = tree /\ r.lock = s.lock /\ r.built = s.lock
        /\ r.cache = s.cache \cup fetched /\ r.kept = s.kept /\ r.ledger = claimed.ledger
        /\ r.tip = s.tip /\ r.stash = s.stash /\ r.commits = s.commits /\ r.blobs = s.blobs
    BY <2>3
  <2>5. IsInst(r)
    BY <2>3, <2>4 DEF IsInst
  <2>6. InstOK(r)
    BY <1>0, <1>1, <1>3, <2>1, <2>4, <2>5 DEF InstOK
  <2>7. QED BY <1>1, <1>6, <2>2, <2>4, <2>6 DEF r, fetched
<1>7. QED BY <1>5, <1>6

(* A commit adds to the history the files no build owns that the rule admits. *)
LEMMA CommitFacts ==
    ASSUME NEW s, InstOK(s), s.lock # None
    PROVE  LET r == commitOf(s)
           IN  /\ InstOK(r)
               /\ r.tree = s.tree /\ r.lock = s.lock /\ r.built = s.built
               /\ r.cache = s.cache /\ r.kept = s.kept /\ r.ledger = s.ledger
               /\ r.stash = s.stash
               /\ r.tip = MakeCommit(s.tip, s.lock, trackWorktree(s))
               /\ r.commits = s.commits \cup {r.tip}
               /\ r.blobs = s.blobs \cup Range(trackWorktree(s))
               /\ Range(trackWorktree(s)) \subseteq Content
<1> DEFINE r == commitOf(s)
           t == trackWorktree(s)
           c == MakeCommit(s.tip, s.lock, t)
<1>1. Range(t) \subseteq Content
  BY DEF trackWorktree, Restrict, Range, InstOK
<1>2. c.tracked = t
  BY DEF MakeCommit
<1>3. HistoryOK(c)
  BY <1>1, MakeCommitOK DEF InstOK
<1> HIDE DEF t
<1>4. r = [s EXCEPT !.tip = c, !.commits = @ \cup {c}, !.blobs = @ \cup Range(t)]
  BY <1>2 DEF commitOf, t
<1> HIDE DEF c, r
<1>5. r = [tree |-> s.tree, lock |-> s.lock, built |-> s.built, cache |-> s.cache,
           kept |-> s.kept, ledger |-> s.ledger, tip |-> c, stash |-> s.stash,
           commits |-> s.commits \cup {c}, blobs |-> s.blobs \cup Range(t)]
  BY <1>4 DEF InstOK, IsInst
<1>6. /\ r.tree = s.tree /\ r.lock = s.lock /\ r.built = s.built
      /\ r.cache = s.cache /\ r.kept = s.kept /\ r.ledger = s.ledger
      /\ r.stash = s.stash /\ r.tip = c /\ r.commits = s.commits \cup {c}
      /\ r.blobs = s.blobs \cup Range(t)
  BY <1>5
<1>7. IsInst(r)
  BY <1>5, <1>6 DEF IsInst
<1>8. InstOK(r)
  BY <1>1, <1>3, <1>6, <1>7 DEF InstOK
<1>9. QED BY <1>1, <1>6, <1>8 DEF r, c, t

(* An import adds the commits of the incoming history and what is not refused. *)
LEMMA ImportFacts ==
    ASSUME NEW s, InstOK(s), NEW tip, HistoryOK(tip)
    PROVE  LET r == importHistory(s, tip)
           IN  /\ InstOK(r)
               /\ r.tree = s.tree /\ r.lock = s.lock /\ r.built = s.built
               /\ r.cache = s.cache /\ r.kept = s.kept /\ r.ledger = s.ledger
               /\ r.tip = s.tip /\ r.stash = s.stash
               /\ r.commits = s.commits \cup Ancestors(tip)
               /\ r.blobs = s.blobs \cup (Blobs(tip) \ Refused(s, tip))
<1> DEFINE r == importHistory(s, tip)
           more == s.blobs \cup (Blobs(tip) \ Refused(s, tip))
           anc == s.commits \cup Ancestors(tip)
<1>1. more \subseteq Content
  BY HistoryOKFacts DEF InstOK
<1>2. r = [s EXCEPT !.commits = anc, !.blobs = more]
  BY DEF importHistory, importRaw
<1> HIDE DEF more, r, anc
<1>3. r = [tree |-> s.tree, lock |-> s.lock, built |-> s.built, cache |-> s.cache,
           kept |-> s.kept, ledger |-> s.ledger, tip |-> s.tip, stash |-> s.stash,
           commits |-> anc, blobs |-> more]
  BY <1>2 DEF InstOK, IsInst
<1>4. /\ r.tree = s.tree /\ r.lock = s.lock /\ r.built = s.built
      /\ r.cache = s.cache /\ r.kept = s.kept /\ r.ledger = s.ledger
      /\ r.stash = s.stash /\ r.tip = s.tip /\ r.commits = anc /\ r.blobs = more
  BY <1>3
<1>5. IsInst(r)
  BY <1>3, <1>4 DEF IsInst
<1>6. InstOK(r)
  BY <1>1, <1>4, <1>5 DEF InstOK
<1>7. QED BY <1>4, <1>6 DEF r, more, anc

(* A checkout takes the lock, and each file is one the commit tracks and the
   pins and the instance admit, the file that was there, or none. *)
LEMMA MaterializeFacts ==
    ASSUME NEW s, InstOK(s), NEW c, HistoryOK(c), c # NoCommit, NEW pins
    PROVE  LET r == materializeSnapshot(s, c, pins)
           IN  /\ InstOK(r)
               /\ r.lock = c.lock /\ r.lock \in Version /\ r.built = s.built
               /\ r.cache = s.cache /\ r.kept = s.kept /\ r.ledger = s.ledger
               /\ r.tip = s.tip /\ r.stash = s.stash
               /\ r.commits = s.commits /\ r.blobs = s.blobs
               /\ \A p \in Path :
                    \/ r.tree[p] \in Blobs(c) \ pins
                    \/ r.tree[p] = s.tree[p]
                    \/ r.tree[p] = None
<1> DEFINE r == materializeSnapshot(s, c, pins)
           before == DOMAIN s.tip.tracked
           written == {p \in DOMAIN c.tracked :
                         c.tracked[p] \notin pins /\ verdict(s, p, c.tracked[p])}
           tree == [p \in Path |->
                      CASE p \in written -> c.tracked[p]
                        [] p \in before \ DOMAIN c.tracked -> None
                        [] OTHER -> s.tree[p]]
<1>1. c.lock \in Version /\ Range(c.tracked) \subseteq Blobs(c) /\ Blobs(c) \subseteq Content
  BY HistoryOKFacts
<1>2. r = [s EXCEPT !.lock = c.lock, !.tree = tree]
  BY DEF materializeSnapshot
<1>3. /\ written \subseteq DOMAIN c.tracked
      /\ \A p \in written : c.tracked[p] \in Range(c.tracked) /\ c.tracked[p] \notin pins
  BY DEF Range
<1> HIDE DEF written, before
<1>4. \A p \in Path : \/ tree[p] \in Blobs(c) \ pins
                      \/ tree[p] = s.tree[p] \/ tree[p] = None
  BY <1>1, <1>3
<1>5. tree \in [Path -> Content \cup {None}]
  BY <1>1, <1>4 DEF InstOK
<1> HIDE DEF tree, r
<1>6. r = [tree |-> tree, lock |-> c.lock, built |-> s.built, cache |-> s.cache,
           kept |-> s.kept, ledger |-> s.ledger, tip |-> s.tip, stash |-> s.stash,
           commits |-> s.commits, blobs |-> s.blobs]
  BY <1>2 DEF InstOK, IsInst
<1>7. /\ r.tree = tree /\ r.lock = c.lock /\ r.built = s.built
      /\ r.cache = s.cache /\ r.kept = s.kept /\ r.ledger = s.ledger
      /\ r.stash = s.stash /\ r.tip = s.tip /\ r.commits = s.commits /\ r.blobs = s.blobs
  BY <1>6
<1>8. IsInst(r)
  BY <1>6, <1>7 DEF IsInst
<1>9. InstOK(r)
  BY <1>1, <1>5, <1>7, <1>8 DEF InstOK
<1>10. QED BY <1>1, <1>4, <1>7, <1>9 DEF r

(* A checkout ends with the branch, and the stash of what it leaves behind. *)
Tipped(s, c, stash) == [s EXCEPT !.tip = c, !.stash = stash]
LEMMA TipFacts ==
    ASSUME NEW s, InstOK(s), NEW c, HistoryOK(c), NEW stash, \A d \in stash : HistoryOK(d)
    PROVE  LET r == Tipped(s, c, stash)
           IN  /\ InstOK(r)
               /\ r.tree = s.tree /\ r.lock = s.lock /\ r.built = s.built
               /\ r.cache = s.cache /\ r.kept = s.kept /\ r.ledger = s.ledger
               /\ r.tip = c /\ r.stash = stash
               /\ r.commits = s.commits /\ r.blobs = s.blobs
<1> DEFINE r == Tipped(s, c, stash)
<1>0. s = [tree |-> s.tree, lock |-> s.lock, built |-> s.built, cache |-> s.cache,
           kept |-> s.kept, ledger |-> s.ledger, tip |-> s.tip, stash |-> s.stash,
           commits |-> s.commits, blobs |-> s.blobs]
  BY DEF InstOK, IsInst
<1>a. r = [s EXCEPT !.tip = c, !.stash = stash]
  BY DEF Tipped
<1> HIDE DEF r
<1>1. r = [tree |-> s.tree, lock |-> s.lock, built |-> s.built, cache |-> s.cache,
           kept |-> s.kept, ledger |-> s.ledger, tip |-> c, stash |-> stash,
           commits |-> s.commits, blobs |-> s.blobs]
  BY <1>0, <1>a
<1>2. /\ r.tree = s.tree /\ r.lock = s.lock /\ r.built = s.built
      /\ r.cache = s.cache /\ r.kept = s.kept /\ r.ledger = s.ledger
      /\ r.stash = stash /\ r.tip = c /\ r.commits = s.commits /\ r.blobs = s.blobs
  BY <1>1
<1>3. IsInst(r)
  BY <1>1, <1>2 DEF IsInst
<1>4. InstOK(r)
  BY <1>2, <1>3 DEF InstOK
<1>5. QED BY <1>2, <1>4 DEF r

-----------------------------------------------------------------------------
(* Types.                                                                   *)

Pub(todo, seen) == [name |-> "publish", todo |-> todo, seen |-> seen]
Objects(commits, blobs) == [file |-> "objects", commits |-> commits, blobs |-> blobs]
LockTo(v) == [file |-> "lock", to |-> v]
BranchTo(c) == [file |-> "branch", to |-> c]

(* A publish that has its three writes, two, or the last one to go. *)
AllToGo(o, oc, ob, v, b, seen) == o = Pub(<<Objects(oc, ob), LockTo(v), BranchTo(b)>>, seen)
FilesToGo(o, v, b, seen) == o = Pub(<<LockTo(v), BranchTo(b)>>, seen)
BranchToGo(o, b, seen) == o = Pub(<<BranchTo(b)>>, seen)

PublishOK(o, g) ==
    \E oc, ob, v, b, seen :
        /\ ob \subseteq Content /\ v \in Version \cup {None} /\ HistoryOK(b)
        /\ \/ AllToGo(o, oc, ob, v, b, seen)
           \/ ~g /\ FilesToGo(o, v, b, seen)
           \/ ~g /\ BranchToGo(o, b, seen)

Fetch(v, t, w) == [name |-> "fetch", lock |-> v, tip |-> t, whole |-> w]
FetchOK(o) ==
    \E v \in Version : \E t : HistoryOK(t) /\ (o = Fetch(v, t, TRUE) \/ o = Fetch(v, t, FALSE))

RemoteOK(r) ==
    /\ r = [commits |-> r.commits, blobs |-> r.blobs, lock |-> r.lock, branch |-> r.branch]
    /\ r.blobs \subseteq Content /\ r.lock \in Version \cup {None} /\ HistoryOK(r.branch)

(* The state is what the declarations say, with histories of known versions and
   bytes, publishes of the three writes in their order, and fetches of a lock. *)
TypeInv ==
    /\ setup \in Setups
    /\ inst = [p \in Peer |-> inst[p]] /\ \A p \in Peer : InstOK(inst[p])
    /\ op = [p \in Peer |-> op[p]]
    /\ \A p \in Peer : op[p] = Nothing \/ PublishOK(op[p], setup.git) \/ FetchOK(op[p])
    /\ RemoteOK(remote)
    /\ changes \in Nat /\ wiped \subseteq Peer /\ moved \subseteq Peer
    /\ refilled \subseteq Peer /\ uneven \in BOOLEAN /\ legacy \subseteq Content

LEMMA OpName ==
    ASSUME NEW o, NEW g, o = Nothing \/ PublishOK(o, g) \/ FetchOK(o)
    PROVE  /\ o.name = "idle" <=> o = Nothing
           /\ o.name = "publish" <=> PublishOK(o, g)
           /\ o.name = "fetch" <=> FetchOK(o)
<1>1. o = Nothing => o.name = "idle"
  BY DEF Nothing
<1>2. PublishOK(o, g) => o.name = "publish"
  BY DEF PublishOK, AllToGo, FilesToGo, BranchToGo, Pub
<1>3. FetchOK(o) => o.name = "fetch"
  BY DEF FetchOK, Fetch
<1>4. QED BY <1>1, <1>2, <1>3

LEMMA Becomes ==
    ASSUME TypeInv, NEW p \in Peer, NEW s, Become(p, s)
    PROVE  /\ inst' = [q \in Peer |-> inst'[q]] /\ inst'[p] = s
           /\ \A q \in Peer \ {p} : inst'[q] = inst[q]
  BY DEF TypeInv, Become

LEMMA OpBecomes ==
    ASSUME TypeInv, NEW p \in Peer, NEW o, op' = [op EXCEPT ![p] = o]
    PROVE  /\ op' = [q \in Peer |-> op'[q]] /\ op'[p] = o
           /\ \A q \in Peer \ {p} : op'[q] = op[q]
  BY DEF TypeInv

-----------------------------------------------------------------------------
(* What a step does to the history of an instance: nothing; a commit of files
   the rule admits; or the arrival at the tip that a pull has fetched. *)
Stays(s, r) ==
    r.tip = s.tip /\ r.stash = s.stash /\ r.commits = s.commits /\ r.blobs = s.blobs
Commits(s, r) ==
    \E u : /\ InstOK(u) /\ u.lock \in Version
           /\ u.tree = s.tree /\ u.cache = s.cache /\ s.ledger \subseteq u.ledger
           /\ Range(trackWorktree(u)) \subseteq Content
           /\ r.tip = MakeCommit(s.tip, u.lock, trackWorktree(u)) /\ r.stash = s.stash
           /\ r.commits = s.commits \cup {r.tip}
           /\ r.blobs = s.blobs \cup Range(trackWorktree(u))
Arrives(s, r, c) ==
    /\ r.tip = c /\ c # NoCommit
    /\ r.stash = s.stash \/ r.stash = s.stash \cup {s.tip}
    /\ s.tip = NoCommit \/ isAncestor(s.tip, c) \/ s.tip \in r.stash
    /\ r.commits = s.commits \cup Ancestors(c)
    /\ r.blobs = s.blobs \cup (Blobs(c) \ Refused(s, c))

(* The checkout that a pull or a clone builds. *)
Checkout(s, v, c, stash) ==
    Tipped(materializeSnapshot(importHistory(recordReplayPaths(s, {v}), c), c, replayPinsOf(c)),
           c, stash)

LEMMA CheckoutFacts ==
    ASSUME NEW s, InstOK(s), NEW v \in Version, NEW c, HistoryOK(c), c # NoCommit,
           NEW stash, \A d \in stash : HistoryOK(d)
    PROVE  LET r == Checkout(s, v, c, stash)
           IN  /\ InstOK(r)
               /\ r.lock = c.lock /\ r.lock \in Version /\ r.built = s.built
               /\ r.cache = s.cache /\ s.ledger \subseteq r.ledger
               /\ r.tip = c /\ r.stash = stash
               /\ r.commits = s.commits \cup Ancestors(c)
               /\ r.blobs = s.blobs \cup (Blobs(c) \ Refused(s, c))
               /\ \A p \in Path :
                    \/ r.tree[p] \in Blobs(c) \ replayPinsOf(c)
                    \/ r.tree[p] = s.tree[p]
                    \/ r.tree[p] = None
<1> DEFINE s1 == recordReplayPaths(s, {v})
           s2 == importHistory(s1, c)
           s3 == materializeSnapshot(s2, c, replayPinsOf(c))
           s4 == Tipped(s3, c, stash)
<1>1. /\ InstOK(s1) /\ s1.tree = s.tree /\ s1.built = s.built /\ s1.cache = s.cache
      /\ s.ledger \subseteq s1.ledger /\ s1.commits = s.commits /\ s1.blobs = s.blobs
  BY ClaimFacts, {v} \in SUBSET (Version \cup {None})
<1> HIDE DEF s1
<1>2. /\ InstOK(s2) /\ s2.tree = s1.tree /\ s2.built = s1.built /\ s2.cache = s1.cache
      /\ s2.ledger = s1.ledger /\ s2.commits = s1.commits \cup Ancestors(c)
      /\ s2.blobs = s1.blobs \cup (Blobs(c) \ Refused(s1, c))
  BY <1>1, ImportFacts
<1> HIDE DEF s2
<1>3. /\ InstOK(s3) /\ s3.lock = c.lock /\ s3.lock \in Version /\ s3.built = s2.built
      /\ s3.cache = s2.cache /\ s3.ledger = s2.ledger
      /\ s3.commits = s2.commits /\ s3.blobs = s2.blobs
      /\ \A p \in Path : \/ s3.tree[p] \in Blobs(c) \ replayPinsOf(c)
                         \/ s3.tree[p] = s2.tree[p] \/ s3.tree[p] = None
  BY <1>2, MaterializeFacts
<1> HIDE DEF s3
<1>4. /\ InstOK(s4) /\ s4.tree = s3.tree /\ s4.lock = s3.lock /\ s4.built = s3.built
      /\ s4.cache = s3.cache /\ s4.ledger = s3.ledger /\ s4.tip = c /\ s4.stash = stash
      /\ s4.commits = s3.commits /\ s4.blobs = s3.blobs
  BY <1>3, TipFacts
<1>5. s4 = Checkout(s, v, c, stash)
  BY DEF Checkout, s1, s2, s3
<1> HIDE DEF s4
<1>6. Refused(s1, c) = Refused(s, c)
  BY <1>1 DEF Refused
<1>7. QED BY <1>1, <1>2, <1>3, <1>4, <1>5, <1>6

(* What a user does to the files, the cache, the ignore file or the lock. *)
LEMMA EditFacts ==
    ASSUME TypeInv, NEW p \in Peer, NEW f \in Path, NEW c \in Own \cup {None}, Edit(p, f, c)
    PROVE  /\ InstOK(inst'[p]) /\ Stays(inst[p], inst'[p])
           /\ inst'[p].cache = inst[p].cache /\ inst'[p].ledger = inst[p].ledger
           /\ \A g \in Path : inst'[p].tree[g] = inst[p].tree[g] \/ inst'[p].tree[g] \notin Replay
<1>1. PICK s : s = inst[p]
  OBVIOUS
<1>2. PICK t : t = [s.tree EXCEPT ![f] = c]
  OBVIOUS
<1>3. InstOK(s) /\ c \in Content \cup {None} /\ c \notin Replay
  BY <1>1, RemoteAssumption DEF TypeInv, Content
<1>4. t \in [Path -> Content \cup {None}] /\ \A g \in Path : t[g] = s.tree[g] \/ t[g] \notin Replay
  BY <1>2, <1>3 DEF InstOK
<1>5. PICK r : r = inst'[p]
  OBVIOUS
<1>6. r = [s EXCEPT !.tree[f] = c]
  BY <1>1, <1>5, Becomes DEF Edit
<1>7. r = [tree |-> t, lock |-> s.lock, built |-> s.built, cache |-> s.cache,
           kept |-> s.kept, ledger |-> s.ledger, tip |-> s.tip, stash |-> s.stash,
           commits |-> s.commits, blobs |-> s.blobs]
  BY <1>2, <1>3, <1>6 DEF InstOK, IsInst
<1>8. InstOK(r) /\ Stays(s, r) /\ r.cache = s.cache /\ r.ledger = s.ledger /\ r.tree = t
  BY <1>3, <1>4, <1>7 DEF InstOK, IsInst, Stays
<1>9. QED BY <1>1, <1>4, <1>5, <1>8

LEMMA MoveFacts ==
    ASSUME TypeInv, NEW p \in Peer, NEW f \in Path, NEW g \in Path, Move(p, f, g)
    PROVE  /\ InstOK(inst'[p]) /\ Stays(inst[p], inst'[p])
           /\ inst'[p].cache = inst[p].cache /\ inst'[p].ledger = inst[p].ledger
           /\ inst[p].tree[f] \in Replay
           /\ \A h \in Path : inst'[p].tree[h] \in {inst[p].tree[h], inst[p].tree[f], None}
<1>1. PICK s : s = inst[p]
  OBVIOUS
<1>2. PICK t : t = [s.tree EXCEPT ![g] = s.tree[f], ![f] = None]
  OBVIOUS
<1>3. InstOK(s) /\ s.tree[f] \in Replay
  BY <1>1 DEF TypeInv, Move
<1>4. t \in [Path -> Content \cup {None}] /\ \A h \in Path : t[h] \in {s.tree[h], s.tree[f], None}
  BY <1>2, <1>3 DEF InstOK, Content
<1>5. PICK r : r = inst'[p]
  OBVIOUS
<1>6. r = [s EXCEPT !.tree[g] = s.tree[f], !.tree[f] = None]
  BY <1>1, <1>5, Becomes DEF Move
<1>7. r = [tree |-> t, lock |-> s.lock, built |-> s.built, cache |-> s.cache,
           kept |-> s.kept, ledger |-> s.ledger, tip |-> s.tip, stash |-> s.stash,
           commits |-> s.commits, blobs |-> s.blobs]
  BY <1>2, <1>3, <1>6 DEF InstOK, IsInst
<1>8. InstOK(r) /\ Stays(s, r) /\ r.cache = s.cache /\ r.ledger = s.ledger /\ r.tree = t
  BY <1>3, <1>4, <1>7 DEF InstOK, IsInst, Stays
<1>9. QED BY <1>1, <1>3, <1>4, <1>5, <1>8

LEMMA WipeFacts ==
    ASSUME TypeInv, NEW p \in Peer, Wipe(p)
    PROVE  /\ InstOK(inst'[p]) /\ Stays(inst[p], inst'[p]) /\ inst'[p].cache = {}
           /\ inst'[p].ledger = inst[p].ledger /\ inst'[p].tree = inst[p].tree
<1>1. PICK s : s = inst[p]
  OBVIOUS
<1>2. PICK r : r = inst'[p]
  OBVIOUS
<1>3. InstOK(s) /\ r = [s EXCEPT !.cache = {}]
  BY <1>1, <1>2, Becomes DEF TypeInv, Wipe
<1>4. r = [tree |-> s.tree, lock |-> s.lock, built |-> s.built, cache |-> {},
           kept |-> s.kept, ledger |-> s.ledger, tip |-> s.tip, stash |-> s.stash,
           commits |-> s.commits, blobs |-> s.blobs]
  BY <1>3 DEF InstOK, IsInst
<1>5. InstOK(r) /\ Stays(s, r) /\ r.cache = {} /\ r.ledger = s.ledger /\ r.tree = s.tree
  BY <1>3, <1>4 DEF InstOK, IsInst, Stays
<1>6. QED BY <1>1, <1>2, <1>5

LEMMA ProtectFacts ==
    ASSUME TypeInv, NEW p \in Peer, Protect(p)
    PROVE  /\ InstOK(inst'[p]) /\ Stays(inst[p], inst'[p]) /\ inst'[p].cache = inst[p].cache
           /\ inst'[p].ledger = inst[p].ledger /\ inst'[p].tree = inst[p].tree
<1>1. PICK s : s = inst[p]
  OBVIOUS
<1>2. PICK r : r = inst'[p]
  OBVIOUS
<1>3. InstOK(s) /\ r = [s EXCEPT !.kept = TRUE]
  BY <1>1, <1>2, Becomes DEF TypeInv, Protect
<1>4. r = [tree |-> s.tree, lock |-> s.lock, built |-> s.built, cache |-> s.cache,
           kept |-> TRUE, ledger |-> s.ledger, tip |-> s.tip, stash |-> s.stash,
           commits |-> s.commits, blobs |-> s.blobs]
  BY <1>3 DEF InstOK, IsInst
<1>5. InstOK(r) /\ Stays(s, r) /\ r.cache = s.cache /\ r.ledger = s.ledger /\ r.tree = s.tree
  BY <1>3, <1>4 DEF InstOK, IsInst, Stays
<1>6. QED BY <1>1, <1>2, <1>5

LEMMA RelockFacts ==
    ASSUME TypeInv, NEW p \in Peer, NEW v \in Version, Relock(p, v)
    PROVE  /\ InstOK(inst'[p]) /\ Stays(inst[p], inst'[p]) /\ inst'[p].cache = inst[p].cache
           /\ inst'[p].ledger = inst[p].ledger /\ inst'[p].tree = inst[p].tree
<1>1. PICK s : s = inst[p]
  OBVIOUS
<1>2. PICK r : r = inst'[p]
  OBVIOUS
<1>3. InstOK(s) /\ r = [s EXCEPT !.lock = v]
  BY <1>1, <1>2, Becomes DEF TypeInv, Relock
<1>4. r = [tree |-> s.tree, lock |-> v, built |-> s.built, cache |-> s.cache,
           kept |-> s.kept, ledger |-> s.ledger, tip |-> s.tip, stash |-> s.stash,
           commits |-> s.commits, blobs |-> s.blobs]
  BY <1>3 DEF InstOK, IsInst
<1>5. InstOK(r) /\ Stays(s, r) /\ r.cache = s.cache /\ r.ledger = s.ledger /\ r.tree = s.tree
  BY <1>3, <1>4 DEF InstOK, IsInst, Stays
<1>6. QED BY <1>1, <1>2, <1>5

-----------------------------------------------------------------------------
(* What the two instruments of the replay rule rest on, for the instance s of a
   peer p when W have deleted their cache and M have renamed a jar: without a key
   there is nothing to keep; the replay bytes of an undeleted cache cover the
   instance; those that nobody renamed lie where the ledger says. *)
FilesOK(s, p, W, M) ==
    /\ p \notin Keyed => s.cache = {} /\ \A f \in Path : s.tree[f] \notin Replay
    /\ p \notin W => \A f \in Path : s.tree[f] \in Replay => s.tree[f] \in s.cache
    /\ p \notin M => \A f \in Path : s.tree[f] \in Replay => f \in s.ledger

(* A cache that answers, answers for every replay jar of the instance. *)
Filled(s) == s.cache # {} => \A f \in Path : s.tree[f] \in Replay => s.tree[f] \in s.cache

(* The replay bytes of a history are among those its own locks pin. *)
Pinned(c) == Blobs(c) \cap Replay \subseteq replayPinsOf(c)

LEMMA SameFiles ==
    ASSUME NEW s, NEW r, r.tree = s.tree, r.cache = s.cache, s.ledger \subseteq r.ledger
    PROVE  /\ \A p, W, M : FilesOK(s, p, W, M) => FilesOK(r, p, W, M)
           /\ Filled(s) => Filled(r)
  BY DEF FilesOK, Filled

(* The rule admits no replay bytes while one of its instruments sees. *)
LEMMA CleanTrack ==
    ASSUME NEW u, InstOK(u), NEW p, NEW W, NEW M, NEW R, FilesOK(u, p, W, M),
           p \notin R => Filled(u), ~(p \in W /\ (p \in M \/ p \in R))
    PROVE  Range(trackWorktree(u)) \cap Replay = {}
<1>1. SUFFICES ASSUME NEW f \in Path, u.tree[f] \in Replay, verdict(u, f, u.tree[f])
               PROVE  FALSE
  BY DEF trackWorktree, Restrict, Range
<1>2. CASE established(u)
  <2>1. u.tree[f] \notin u.cache /\ u.cache # {}
    BY <1>1, <1>2 DEF verdict, established
  <2>2. p \in W /\ p \in R
    BY <1>1, <2>1 DEF FilesOK, Filled
  <2>3. QED BY <2>2
<1>3. CASE ~established(u)
  <2>1. f \notin u.ledger /\ u.cache = {}
    BY <1>1, <1>3 DEF verdict, established
  <2>2. p \in W /\ p \in M
    BY <1>1, <2>1 DEF FilesOK
  <2>3. QED BY <2>2
<1>4. QED BY <1>2, <1>3

(* A build installs replay bytes where it has claimed the path and from what it
   puts into the cache, and none without a key or a cache. *)
LEMMA BuildFiles ==
    ASSUME NEW s, InstOK(s), NEW p \in Peer, NEW previousLock \in Version \cup {None},
           NEW W, NEW M, FilesOK(s, p, W, M)
    PROVE  FilesOK(buildInstance(s, previousLock, p \in Keyed), p, W, M)
<1> DEFINE fetched == Fetches(s, previousLock)
<1>1. PICK r : r = buildInstance(s, previousLock, p \in Keyed)
  OBVIOUS
<1>2. /\ s.ledger \subseteq r.ledger /\ DOMAIN RowsOf(s.lock) \subseteq r.ledger
      /\ \/ r.cache = s.cache /\ r.tree = s.tree
         \/ /\ ensure(s, fetched, p \in Keyed)
            /\ r.cache = s.cache \cup fetched
            /\ \A f \in Path :
                 \/ f \in Installs(s, previousLock) /\ r.tree[f] = RowsOf(s.lock)[f]
                 \/ r.tree[f] = s.tree[f]
                 \/ r.tree[f] = None
  BY <1>1, BuildFacts
<1>3. CASE r.cache = s.cache /\ r.tree = s.tree
  BY <1>1, <1>2, <1>3, SameFiles
<1>4. CASE /\ ensure(s, fetched, p \in Keyed)
           /\ r.cache = s.cache \cup fetched
           /\ \A f \in Path :
                \/ f \in Installs(s, previousLock) /\ r.tree[f] = RowsOf(s.lock)[f]
                \/ r.tree[f] = s.tree[f]
                \/ r.tree[f] = None
  <2>1. None \notin Replay
    BY RemoteAssumption DEF Content
  <2>2. \A f \in Path : f \in Installs(s, previousLock) /\ r.tree[f] = RowsOf(s.lock)[f] =>
                           f \in DOMAIN RowsOf(s.lock) /\ r.tree[f] \in fetched
    BY DEF Installs, Fetches
  <2>3. p \notin Keyed /\ s.cache = {} => fetched = {}
    BY <1>4 DEF ensure
  <2> HIDE DEF fetched
  <2>4. p \notin Keyed => r.cache = {} /\ \A f \in Path : r.tree[f] \notin Replay
    BY <1>4, <2>1, <2>2, <2>3 DEF FilesOK
  <2>5. p \notin W => \A f \in Path : r.tree[f] \in Replay => r.tree[f] \in r.cache
    BY <1>4, <2>1, <2>2 DEF FilesOK
  <2>6. p \notin M => \A f \in Path : r.tree[f] \in Replay => f \in r.ledger
    BY <1>2, <1>4, <2>1, <2>2 DEF FilesOK
  <2>7. QED BY <1>1, <2>4, <2>5, <2>6 DEF FilesOK
<1>5. QED BY <1>2, <1>3, <1>4

(* A checkout of a pinned history writes no replay bytes. *)
LEMMA CheckoutFiles ==
    ASSUME NEW s, InstOK(s), NEW v \in Version, NEW c, HistoryOK(c), c # NoCommit, Pinned(c),
           NEW stash, \A d \in stash : HistoryOK(d),
           NEW p, NEW W, NEW M, FilesOK(s, p, W, M)
    PROVE  FilesOK(Checkout(s, v, c, stash), p, W, M)
<1>1. PICK r : r = Checkout(s, v, c, stash)
  OBVIOUS
<1>2. /\ r.cache = s.cache /\ s.ledger \subseteq r.ledger
      /\ \A f \in Path : \/ r.tree[f] \in Blobs(c) \ replayPinsOf(c)
                         \/ r.tree[f] = s.tree[f] \/ r.tree[f] = None
  BY <1>1, CheckoutFacts
<1>3. \A f \in Path : r.tree[f] \in Replay => r.tree[f] = s.tree[f]
  BY <1>2, RemoteAssumption DEF Pinned, Content
<1>4. QED BY <1>1, <1>2, <1>3 DEF FilesOK

-----------------------------------------------------------------------------
(* The steps of an instance. *)
InstStep(s, r, t) == InstOK(r) /\ (Stays(s, r) \/ Commits(s, r) \/ Arrives(s, r, t))
FilesStep(s, r, p, t) ==
    \A W, M : FilesOK(s, p, W, M) /\ (Arrives(s, r, t) => Pinned(t)) => FilesOK(r, p, W, M)

LEMMA Landed ==
    ASSUME NEW s, InstOK(s), NEW p \in Peer, NEW previousLock \in Version \cup {None},
           NEW r, r = buildInstance(s, previousLock, p \in Keyed)
    PROVE  /\ InstOK(r) /\ Stays(s, r)
           /\ \A W, M : FilesOK(s, p, W, M) => FilesOK(r, p, W, M)
<1>1. InstOK(r) /\ Stays(s, r)
  BY BuildFacts DEF Stays
<1>2. ASSUME NEW W, NEW M, FilesOK(s, p, W, M)
      PROVE  FilesOK(r, p, W, M)
  BY <1>2, BuildFiles
<1>3. QED BY <1>1, <1>2

LEMMA Fetched ==
    ASSUME TypeInv, NEW p \in Peer, Fetching(p)
    PROVE  op[p].lock \in Version /\ HistoryOK(op[p].tip) /\ op[p].whole \in BOOLEAN
<1>1. FetchOK(op[p])
  BY OpName DEF TypeInv, Fetching
<1>2. PICK v \in Version : \E t :
        HistoryOK(t) /\ (op[p] = Fetch(v, t, TRUE) \/ op[p] = Fetch(v, t, FALSE))
  BY <1>1 DEF FetchOK
<1>3. op[p].lock = v /\ HistoryOK(op[p].tip) /\ op[p].whole \in BOOLEAN
  <2>1. PICK t : HistoryOK(t) /\ (op[p] = Fetch(v, t, TRUE) \/ op[p] = Fetch(v, t, FALSE))
    BY <1>2
  <2>2. CASE op[p] = Fetch(v, t, TRUE)
    <3>1. op[p].lock = v /\ op[p].tip = t /\ op[p].whole = TRUE
      BY <2>2 DEF Fetch
    <3>2. QED BY <2>1, <3>1
  <2>3. CASE op[p] = Fetch(v, t, FALSE)
    <3>1. op[p].lock = v /\ op[p].tip = t /\ op[p].whole = FALSE
      BY <2>3 DEF Fetch
    <3>2. QED BY <2>1, <3>1
  <2>4. QED BY <2>1, <2>2, <2>3
<1>4. QED BY <1>2, <1>3

(* What a first commit or a static pull records: the served lock, claimed. *)
LEMMA StaticFacts ==
    ASSUME TypeInv, NEW p \in Peer, Fetching(p)
    PROVE  LET u == [Claimed(p) EXCEPT !.lock = op[p].lock]
           IN  /\ InstOK(u) /\ u.lock = op[p].lock /\ u.built = inst[p].built
               /\ u.tree = inst[p].tree /\ u.cache = inst[p].cache
               /\ inst[p].ledger \subseteq u.ledger /\ Stays(inst[p], u)
<1>1. PICK s : s = inst[p]
  OBVIOUS
<1>2. PICK c : c = Claimed(p)
  OBVIOUS
<1>3. PICK v : v = op[p].lock
  OBVIOUS
<1>4. InstOK(s) /\ v \in Version
  BY <1>1, <1>3, Fetched DEF TypeInv
<1>5. /\ InstOK(c) /\ c.tree = s.tree /\ c.built = s.built /\ c.cache = s.cache
      /\ s.ledger \subseteq c.ledger /\ Stays(s, c)
  BY <1>1, <1>2, <1>3, <1>4, ClaimFacts, {v} \in SUBSET (Version \cup {None}) DEF Claimed, Stays
<1>6. PICK u : u = [c EXCEPT !.lock = v]
  OBVIOUS
<1>7. u = [tree |-> c.tree, lock |-> v, built |-> c.built, cache |-> c.cache,
           kept |-> c.kept, ledger |-> c.ledger, tip |-> c.tip, stash |-> c.stash,
           commits |-> c.commits, blobs |-> c.blobs]
  BY <1>5, <1>6 DEF InstOK, IsInst
<1>8. /\ InstOK(u) /\ u.lock = v /\ u.built = c.built /\ u.tree = c.tree /\ u.cache = c.cache
      /\ u.ledger = c.ledger /\ Stays(c, u)
  BY <1>4, <1>5, <1>7 DEF InstOK, IsInst, Stays
<1>9. /\ InstOK(u) /\ u.lock = v /\ u.built = s.built /\ u.tree = s.tree /\ u.cache = s.cache
      /\ s.ledger \subseteq u.ledger /\ Stays(s, u)
  BY <1>5, <1>8 DEF Stays
<1>10. QED BY <1>1, <1>2, <1>3, <1>6, <1>9

(* A commit of u, which has the history and the files of s. *)
LEMMA CommitStep ==
    ASSUME NEW s, NEW u, InstOK(u), u.lock \in Version, u.tree = s.tree, u.cache = s.cache,
           s.ledger \subseteq u.ledger, Stays(s, u), NEW r, r = commitOf(u)
    PROVE  /\ InstOK(r) /\ Commits(s, r) /\ r.built = u.built
           /\ r.tree = s.tree /\ r.cache = s.cache /\ s.ledger \subseteq r.ledger
           /\ r.tip # NoCommit
<1>1. u.lock # None
  BY RemoteAssumption
<1>2. /\ InstOK(r) /\ r.tree = u.tree /\ r.built = u.built /\ r.cache = u.cache
      /\ r.ledger = u.ledger /\ r.stash = u.stash
      /\ r.tip = MakeCommit(u.tip, u.lock, trackWorktree(u))
      /\ r.commits = u.commits \cup {r.tip}
      /\ r.blobs = u.blobs \cup Range(trackWorktree(u))
      /\ Range(trackWorktree(u)) \subseteq Content
  BY <1>1, CommitFacts
<1>3. Commits(s, r)
  <2>1. /\ r.tip = MakeCommit(s.tip, u.lock, trackWorktree(u)) /\ r.stash = s.stash
        /\ r.commits = s.commits \cup {r.tip}
        /\ r.blobs = s.blobs \cup Range(trackWorktree(u))
    BY <1>2 DEF Stays
  <2>2. QED BY <1>2, <2>1 DEF Commits
<1>4. r.tip # NoCommit
  <2>1. MakeCommit(u.tip, u.lock, trackWorktree(u)) # NoCommit
    BY <1>1 DEF MakeCommit, NoCommit
  <2>2. QED BY <1>2, <2>1
<1>5. QED BY <1>2, <1>3, <1>4

LEMMA BuildStep ==
    ASSUME TypeInv, NEW p \in Peer, NEW t, Build(p)
    PROVE  /\ InstStep(inst[p], inst'[p], t) /\ Stays(inst[p], inst'[p])
           /\ FilesStep(inst[p], inst'[p], p, t)
<1>1. InstOK(inst[p]) /\ inst[p].built \in Version \cup {None}
  BY DEF TypeInv, InstOK
<1>2. inst'[p] = buildInstance(inst[p], inst[p].built, p \in Keyed)
  BY Becomes DEF Build
<1>3. QED BY <1>1, <1>2, Landed DEF InstStep, FilesStep

LEMMA CommitIsStep ==
    ASSUME TypeInv, NEW p \in Peer, NEW t, Commit(p)
    PROVE  /\ InstStep(inst[p], inst'[p], t) /\ FilesStep(inst[p], inst'[p], p, t)
           /\ inst'[p].tree = inst[p].tree /\ inst'[p].cache = inst[p].cache
           /\ Commits(inst[p], inst'[p])
<1>1. InstOK(inst[p]) /\ inst[p].lock \in Version
  BY DEF TypeInv, InstOK, Commit
<1>2. inst'[p] = commitOf(inst[p])
  BY Becomes DEF Commit
<1>3. Stays(inst[p], inst[p])
  BY DEF Stays
<1>4. /\ InstOK(inst'[p]) /\ Commits(inst[p], inst'[p])
      /\ inst'[p].tree = inst[p].tree /\ inst'[p].cache = inst[p].cache
      /\ inst[p].ledger \subseteq inst'[p].ledger
  BY <1>1, <1>2, <1>3, CommitStep
<1>5. QED BY <1>4, SameFiles DEF InstStep, FilesStep

LEMMA UpToDateStep ==
    ASSUME TypeInv, NEW p \in Peer, NEW t, pullUpToDate(p)
    PROVE  /\ InstStep(inst[p], inst'[p], t) /\ FilesStep(inst[p], inst'[p], p, t)
           /\ inst'[p].tree = inst[p].tree /\ inst'[p].cache = inst[p].cache
           /\ Stays(inst[p], inst'[p])
<1>1. InstOK(inst[p]) /\ op[p].lock \in Version
  BY Fetched DEF TypeInv, pullUpToDate, Landing
<1>2. inst'[p] = recordReplayPaths(inst[p], {op[p].lock})
  BY Becomes DEF pullUpToDate, Claimed
<1>3. {op[p].lock} \in SUBSET (Version \cup {None})
  BY <1>1
<1>4. /\ InstOK(inst'[p]) /\ inst'[p].tree = inst[p].tree /\ inst'[p].cache = inst[p].cache
      /\ inst[p].ledger \subseteq inst'[p].ledger /\ Stays(inst[p], inst'[p])
  BY <1>1, <1>2, <1>3, ClaimFacts DEF Stays
<1>5. QED BY <1>4, SameFiles DEF InstStep, FilesStep

LEMMA PullStep ==
    ASSUME TypeInv, NEW p \in Peer, pullInstance(p)
    PROVE  /\ InstStep(inst[p], inst'[p], op[p].tip)
           /\ FilesStep(inst[p], inst'[p], p, op[p].tip)
           /\ Arrives(inst[p], inst'[p], op[p].tip)
<1>1. PICK s : s = inst[p]
  OBVIOUS
<1>2. PICK c : c = op[p].tip
  OBVIOUS
<1>3. PICK v : v = op[p].lock
  OBVIOUS
<1>4. InstOK(s) /\ v \in Version /\ HistoryOK(c) /\ c # NoCommit
  BY <1>1, <1>2, <1>3, Fetched DEF TypeInv, pullInstance, Landing
<1>5. PICK s1 : s1 = importHistory(recordReplayPaths(s, {v}), c)
  OBVIOUS
<1>6. InstOK(s1) /\ s1.tip = s.tip /\ s1.stash = s.stash
  <2>1. PICK u : u = recordReplayPaths(s, {v})
    OBVIOUS
  <2>2. InstOK(u) /\ u.tip = s.tip /\ u.stash = s.stash
    BY <1>4, <2>1, ClaimFacts, {v} \in SUBSET (Version \cup {None})
  <2>3. QED BY <1>4, <1>5, <2>1, <2>2, ImportFacts
<1>7. PICK stash : stash = stashLocal(s1, c)
  OBVIOUS
<1>8. /\ stash = s.stash \/ stash = s.stash \cup {s.tip}
      /\ s.tip = NoCommit \/ isAncestor(s.tip, c) \/ s.tip \in stash
      /\ \A d \in stash : HistoryOK(d)
  BY <1>4, <1>6, <1>7 DEF stashLocal, InstOK
<1>9. PICK r : r = Checkout(s, v, c, stash)
  OBVIOUS
<1>10. /\ InstOK(r) /\ r.built = s.built /\ r.tip = c /\ r.stash = stash
       /\ r.commits = s.commits \cup Ancestors(c)
       /\ r.blobs = s.blobs \cup (Blobs(c) \ Refused(s, c))
  BY <1>4, <1>8, <1>9, CheckoutFacts
<1>11. Arrives(s, r, c)
  BY <1>4, <1>8, <1>10 DEF Arrives
<1>12. PICK prev : prev = IF s.tip = NoCommit THEN None ELSE r.built
  OBVIOUS
<1>13. prev \in Version \cup {None}
  BY <1>10, <1>12 DEF InstOK
<1>14. inst'[p] = buildInstance(r, prev, p \in Keyed)
  <2>1. r = [materializeSnapshot(s1, c, replayPinsOf(c)) EXCEPT !.tip = c, !.stash = stash]
    BY <1>5, <1>9 DEF Checkout, Tipped
  <2>2. Land(p, r)
    BY <1>1, <1>2, <1>3, <1>5, <1>7, <2>1 DEF pullInstance, Claimed
  <2>3. QED BY <1>1, <1>12, <2>2, Becomes DEF Land
<1>15. /\ InstOK(inst'[p]) /\ Stays(r, inst'[p])
       /\ \A W, M : FilesOK(r, p, W, M) => FilesOK(inst'[p], p, W, M)
  BY <1>10, <1>13, <1>14, Landed
<1>16. Arrives(s, inst'[p], c)
  BY <1>11, <1>15 DEF Arrives, Stays
<1>17. ASSUME NEW W, NEW M, FilesOK(s, p, W, M), Pinned(c)
       PROVE  FilesOK(inst'[p], p, W, M)
  <2>1. FilesOK(r, p, W, M)
    BY <1>4, <1>8, <1>9, <1>17, CheckoutFiles
  <2>2. QED BY <1>15, <2>1
<1>18. QED BY <1>1, <1>2, <1>15, <1>16, <1>17 DEF InstStep, FilesStep

LEMMA CloneStep ==
    ASSUME TypeInv, NEW p \in Peer, cloneInstance(p)
    PROVE  /\ InstStep(inst[p], inst'[p], op[p].tip)
           /\ FilesStep(inst[p], inst'[p], p, op[p].tip)
           /\ inst[p].tip = NoCommit
<1>1. PICK s : s = inst[p]
  OBVIOUS
<1>2. PICK c : c = op[p].tip
  OBVIOUS
<1>3. PICK v : v = op[p].lock
  OBVIOUS
<1>4. InstOK(s) /\ v \in Version /\ HistoryOK(c) /\ s = Fresh /\ Fetching(p)
  BY <1>1, <1>2, <1>3, Fetched DEF TypeInv, cloneInstance, Landing
<1>5. s.tip = NoCommit /\ s.stash = {}
  BY <1>4 DEF Fresh
<1>6. CASE c # NoCommit
  <2>1. PICK s1 : s1 = importHistory(recordReplayPaths(s, {v}), c)
    OBVIOUS
  <2>2. InstOK(s1) /\ s1.tip = s.tip /\ s1.stash = s.stash
    <3>1. PICK u : u = recordReplayPaths(s, {v})
      OBVIOUS
    <3>2. InstOK(u) /\ u.tip = s.tip /\ u.stash = s.stash
      BY <1>4, <3>1, ClaimFacts, {v} \in SUBSET (Version \cup {None})
    <3>3. QED BY <1>4, <2>1, <3>1, <3>2, ImportFacts
  <2>3. PICK m : m = materializeSnapshot(s1, c, replayPinsOf(c))
    OBVIOUS
  <2>4. InstOK(m) /\ m.stash = s.stash
    BY <1>4, <1>6, <2>2, <2>3, MaterializeFacts
  <2>5. PICK r : r = Checkout(s, v, c, s.stash)
    OBVIOUS
  <2>6. r = [m EXCEPT !.tip = c]
    <3>1. r = [m EXCEPT !.tip = c, !.stash = m.stash]
      BY <2>1, <2>3, <2>4, <2>5 DEF Checkout, Tipped
    <3>2. QED BY <2>4, <3>1 DEF InstOK, IsInst
  <2>7. /\ InstOK(r) /\ r.built = s.built /\ r.tip = c /\ r.stash = s.stash
        /\ r.commits = s.commits \cup Ancestors(c)
        /\ r.blobs = s.blobs \cup (Blobs(c) \ Refused(s, c))
    BY <1>4, <1>6, <2>5, CheckoutFacts DEF InstOK
  <2>8. Arrives(s, r, c)
    BY <1>5, <1>6, <2>7 DEF Arrives
  <2>9. inst'[p] = buildInstance(r, None, p \in Keyed)
    <3>1. Land(p, r)
      BY <1>1, <1>2, <1>3, <1>6, <2>1, <2>3, <2>6 DEF cloneInstance, Claimed
    <3>2. QED BY <1>1, <1>5, <3>1, Becomes DEF Land
  <2>10. /\ InstOK(inst'[p]) /\ Stays(r, inst'[p])
         /\ \A W, M : FilesOK(r, p, W, M) => FilesOK(inst'[p], p, W, M)
    BY <2>7, <2>9, Landed
  <2>11. Arrives(s, inst'[p], c)
    BY <2>8, <2>10 DEF Arrives, Stays
  <2>12. ASSUME NEW W, NEW M, FilesOK(s, p, W, M), Pinned(c)
         PROVE  FilesOK(inst'[p], p, W, M)
    <3>1. FilesOK(r, p, W, M)
      BY <1>4, <1>5, <1>6, <2>5, <2>12, CheckoutFiles
    <3>2. QED BY <2>10, <3>1
  <2>13. QED BY <1>1, <1>2, <1>5, <2>10, <2>11, <2>12 DEF InstStep, FilesStep
<1>7. CASE c = NoCommit
  <2>1. PICK u : u = [Claimed(p) EXCEPT !.lock = v]
    OBVIOUS
  <2>2. /\ InstOK(u) /\ u.lock = v /\ u.tree = s.tree /\ u.cache = s.cache
        /\ s.ledger \subseteq u.ledger /\ Stays(s, u)
    BY <1>1, <1>3, <1>4, <2>1, StaticFacts
  <2>3. PICK r : r = commitOf(u)
    OBVIOUS
  <2>4. /\ InstOK(r) /\ Commits(s, r)
        /\ r.tree = s.tree /\ r.cache = s.cache /\ s.ledger \subseteq r.ledger
    BY <1>4, <2>2, <2>3, CommitStep
  <2>5. inst'[p] = buildInstance(r, None, p \in Keyed)
    <3>1. Land(p, r)
      BY <1>2, <1>3, <1>7, <2>1, <2>3 DEF cloneInstance
    <3>2. QED BY <1>1, <1>5, <3>1, Becomes DEF Land
  <2>6. /\ InstOK(inst'[p]) /\ Stays(r, inst'[p])
        /\ \A W, M : FilesOK(r, p, W, M) => FilesOK(inst'[p], p, W, M)
    BY <2>4, <2>5, Landed
  <2>7. Commits(s, inst'[p])
    BY <2>4, <2>6 DEF Commits, Stays
  <2>8. QED BY <1>1, <1>5, <2>4, <2>6, <2>7, SameFiles DEF InstStep, FilesStep
<1>8. QED BY <1>6, <1>7

LEMMA StaticStep ==
    ASSUME TypeInv, NEW p \in Peer, NEW t, pullStatic(p)
    PROVE  /\ InstStep(inst[p], inst'[p], t) /\ FilesStep(inst[p], inst'[p], p, t)
           /\ Stays(inst[p], inst'[p]) \/ Commits(inst[p], inst'[p])
<1>1. PICK s : s = inst[p]
  OBVIOUS
<1>2. PICK v : v = op[p].lock
  OBVIOUS
<1>3. v \in Version /\ Fetching(p) /\ InstOK(s)
  BY <1>1, <1>2, Fetched DEF pullStatic, Landing, TypeInv
<1>4. PICK u : u = [Claimed(p) EXCEPT !.lock = v]
  OBVIOUS
<1>5. /\ InstOK(u) /\ u.lock = v /\ u.tree = s.tree /\ u.cache = s.cache
      /\ s.ledger \subseteq u.ledger /\ Stays(s, u)
  BY <1>1, <1>2, <1>3, <1>4, StaticFacts
<1>6. PICK r : r = commitOf(u)
  OBVIOUS
<1>7. /\ InstOK(r) /\ Commits(s, r)
      /\ r.tree = s.tree /\ r.cache = s.cache /\ s.ledger \subseteq r.ledger
  BY <1>3, <1>5, <1>6, CommitStep
<1>8. inst'[p] = u \/ inst'[p] = buildInstance(r, r.built, p \in Keyed)
  <2>1. \/ Become(p, u)
        \/ Become(p, buildInstance(r, r.built, p \in Keyed))
    BY <1>2, <1>4, <1>6 DEF pullStatic
  <2>2. QED BY <2>1, Becomes
<1>9. CASE inst'[p] = u
  BY <1>1, <1>5, <1>9, SameFiles DEF InstStep, FilesStep
<1>10. CASE inst'[p] = buildInstance(r, r.built, p \in Keyed)
  <2>1. /\ InstOK(inst'[p]) /\ Stays(r, inst'[p])
        /\ \A W, M : FilesOK(r, p, W, M) => FilesOK(inst'[p], p, W, M)
    BY <1>7, <1>10, Landed DEF InstOK
  <2>2. Commits(s, inst'[p])
    BY <1>7, <2>1 DEF Commits, Stays
  <2>3. QED BY <1>1, <1>7, <2>1, <2>2, SameFiles DEF InstStep, FilesStep
<1>11. QED BY <1>8, <1>9, <1>10

-----------------------------------------------------------------------------
(* The steps of a transfer. *)
Remote(commits, blobs, lock, branch) ==
    [commits |-> commits, blobs |-> blobs, lock |-> lock, branch |-> branch]

LEMMA PutObjects ==
    ASSUME NEW r, RemoteOK(r), NEW oc, NEW ob
    PROVE  Put(r, Objects(oc, ob)) = Remote(r.commits \cup oc, r.blobs \cup ob, r.lock, r.branch)
<1>1. r = [commits |-> r.commits, blobs |-> r.blobs, lock |-> r.lock, branch |-> r.branch]
  BY DEF RemoteOK
<1>2. QED BY <1>1 DEF Put, Objects, Remote

LEMMA PutLock ==
    ASSUME NEW r, RemoteOK(r), NEW v
    PROVE  Put(r, LockTo(v)) = Remote(r.commits, r.blobs, v, r.branch)
<1>1. r = [commits |-> r.commits, blobs |-> r.blobs, lock |-> r.lock, branch |-> r.branch]
  BY DEF RemoteOK
<1>2. QED BY <1>1 DEF Put, LockTo, Remote

LEMMA PutBranch ==
    ASSUME NEW r, RemoteOK(r), NEW b
    PROVE  Put(r, BranchTo(b)) = Remote(r.commits, r.blobs, r.lock, b)
<1>1. r = [commits |-> r.commits, blobs |-> r.blobs, lock |-> r.lock, branch |-> r.branch]
  BY DEF RemoteOK
<1>2. QED BY <1>1 DEF Put, BranchTo, Remote

(* A step that reads, or ends a transfer, publishes nothing. *)
LEMMA ReadStep ==
    ASSUME NEW p, fetchFiles(p) \/ fetchBranch(p) \/ stop(p)
    PROVE  \E o : op' = [op EXCEPT ![p] = o] /\ o.name # "publish" /\ remote' = remote
<1>1. CASE fetchFiles(p)
  <2>1. PICK o : /\ o = Fetch(remote.lock, IF git THEN remote.branch ELSE NoCommit, git)
                 /\ op' = [op EXCEPT ![p] = o] /\ remote' = remote
    BY <1>1 DEF fetchFiles, Fetch
  <2>2. o.name = "fetch"
    BY <2>1 DEF Fetch
  <2>3. QED BY <2>1, <2>2
<1>2. CASE fetchBranch(p)
  <2>1. PICK o : /\ o = Fetch(op[p].lock, remote.branch, TRUE)
                 /\ op' = [op EXCEPT ![p] = o] /\ remote' = remote
    BY <1>2 DEF fetchBranch, Fetch
  <2>2. o.name = "fetch"
    BY <2>1 DEF Fetch
  <2>3. QED BY <2>1, <2>2
<1>3. CASE stop(p)
  <2>1. Nothing.name = "idle"
    BY DEF Nothing
  <2>2. QED BY <1>3, <2>1 DEF stop
<1>4. QED BY <1>1, <1>2, <1>3

LEMMA RemoteIsOK ==
    ASSUME NEW oc, NEW ob \in SUBSET Content, NEW v \in Version \cup {None}, NEW b, HistoryOK(b)
    PROVE  RemoteOK(Remote(oc, ob, v, b))
  BY DEF RemoteOK, Remote

(* A push has the objects of the branch, the lock and the branch to write. *)
LEMMA PushStep ==
    ASSUME TypeInv, NEW p \in Peer, push(p)
    PROVE  \E seen : AllToGo(op'[p], inst[p].commits \cap Ancestors(inst[p].tip),
                             inst[p].blobs \cap Blobs(inst[p].tip), inst[p].lock, inst[p].tip, seen)
<1>1. PICK seen : op' = [op EXCEPT ![p] = Pub(publish(inst[p]), seen)]
  BY DEF push, Pub
<1>2. op'[p] = Pub(publish(inst[p]), seen)
  BY <1>1, OpBecomes
<1>3. QED BY <1>2 DEF AllToGo, publish, gatherVcObjects, Objects, LockTo, BranchTo

(* A write of a publish: the objects, the lock, or the branch. *)
LEMMA WriteStep ==
    ASSUME TypeInv, NEW p \in Peer, publishWrites(p)
    PROVE  \E oc, ob, v, b, seen :
             /\ ob \subseteq Content /\ v \in Version \cup {None} /\ HistoryOK(b)
             /\ \/ /\ AllToGo(op[p], oc, ob, v, b, seen) /\ FilesToGo(op'[p], v, b, seen)
                   /\ remote' = Remote(remote.commits \cup oc, remote.blobs \cup ob,
                                       remote.lock, remote.branch)
                \/ /\ FilesToGo(op[p], v, b, seen) /\ BranchToGo(op'[p], b, seen)
                   /\ remote' = Remote(remote.commits, remote.blobs, v, remote.branch)
                \/ /\ BranchToGo(op[p], b, seen) /\ op'[p] = Nothing
                   /\ remote' = Remote(remote.commits, remote.blobs, remote.lock, b)
<1>1. PublishOK(op[p], setup.git)
  BY OpName DEF TypeInv, publishWrites, Publishing
<1>2. PICK oc, ob, v, b, seen :
        /\ ob \subseteq Content /\ v \in Version \cup {None} /\ HistoryOK(b)
        /\ \/ AllToGo(op[p], oc, ob, v, b, seen)
           \/ FilesToGo(op[p], v, b, seen)
           \/ BranchToGo(op[p], b, seen)
  BY <1>1 DEF PublishOK
<1>3. /\ remote' = Put(remote, Head(op[p].todo))
      /\ op'[p] = IF Len(op[p].todo) = 1 THEN Nothing ELSE [op[p] EXCEPT !.todo = Tail(op[p].todo)]
  <2>1. op'[p] = Rest(op[p])
    BY OpBecomes DEF publishWrites
  <2>2. QED BY <2>1 DEF publishWrites, Rest
<1>4. RemoteOK(remote)
  BY DEF TypeInv
<1>5. CASE AllToGo(op[p], oc, ob, v, b, seen)
  <2>1. PICK o : o = Objects(oc, ob)
    OBVIOUS
  <2>2. PICK l : l = LockTo(v)
    OBVIOUS
  <2>3. PICK t : t = BranchTo(b)
    OBVIOUS
  <2>4. op[p] = Pub(<<o, l, t>>, seen)
    BY <1>5, <2>1, <2>2, <2>3 DEF AllToGo
  <2>5. Head(op[p].todo) = o /\ op'[p] = Pub(<<l, t>>, seen)
    BY <1>3, <2>4 DEF Pub
  <2>6. FilesToGo(op'[p], v, b, seen)
    BY <2>2, <2>3, <2>5 DEF FilesToGo
  <2>7. remote' = Remote(remote.commits \cup oc, remote.blobs \cup ob, remote.lock, remote.branch)
    BY <1>3, <1>4, <2>1, <2>5, PutObjects
  <2>8. QED BY <1>2, <1>5, <2>6, <2>7
<1>6. CASE FilesToGo(op[p], v, b, seen)
  <2>1. PICK l : l = LockTo(v)
    OBVIOUS
  <2>2. PICK t : t = BranchTo(b)
    OBVIOUS
  <2>3. op[p] = Pub(<<l, t>>, seen)
    BY <1>6, <2>1, <2>2 DEF FilesToGo
  <2>4. Head(op[p].todo) = l /\ op'[p] = Pub(<<t>>, seen)
    BY <1>3, <2>3 DEF Pub
  <2>5. BranchToGo(op'[p], b, seen)
    BY <2>2, <2>4 DEF BranchToGo
  <2>6. remote' = Remote(remote.commits, remote.blobs, v, remote.branch)
    BY <1>3, <1>4, <2>1, <2>4, PutLock
  <2>7. QED BY <1>2, <1>6, <2>5, <2>6
<1>7. CASE BranchToGo(op[p], b, seen)
  <2>1. PICK t : t = BranchTo(b)
    OBVIOUS
  <2>2. op[p] = Pub(<<t>>, seen)
    BY <1>7, <2>1 DEF BranchToGo
  <2>3. Head(op[p].todo) = t /\ op'[p] = Nothing
    BY <1>3, <2>2 DEF Pub
  <2>4. remote' = Remote(remote.commits, remote.blobs, remote.lock, b)
    BY <1>3, <1>4, <2>1, <2>3, PutBranch
  <2>5. QED BY <1>2, <1>7, <2>3, <2>4
<1>8. QED BY <1>2, <1>5, <1>6, <1>7

(* A push to git writes all three at once. *)
LEMMA GitStep ==
    ASSUME TypeInv, NEW p \in Peer, gitPush(p)
    PROVE  \E oc, ob, v, b, seen :
             /\ ob \subseteq Content /\ v \in Version \cup {None} /\ HistoryOK(b)
             /\ AllToGo(op[p], oc, ob, v, b, seen) /\ op'[p] = Nothing
             /\ remote' = Remote(remote.commits \cup oc, remote.blobs \cup ob, v, b)
<1>1. PublishOK(op[p], setup.git)
  BY OpName DEF TypeInv, gitPush, Publishing
<1>2. setup.git
  BY DEF gitPush, git
<1>3. PICK oc, ob, v, b, seen :
        /\ ob \subseteq Content /\ v \in Version \cup {None} /\ HistoryOK(b)
        /\ AllToGo(op[p], oc, ob, v, b, seen)
  BY <1>1, <1>2 DEF PublishOK
<1>4. PICK o : o = Objects(oc, ob)
  OBVIOUS
<1>5. PICK l : l = LockTo(v)
  OBVIOUS
<1>6. PICK t : t = BranchTo(b)
  OBVIOUS
<1>7. op[p].todo[1] = o /\ op[p].todo[2] = l /\ op[p].todo[3] = t
  BY <1>3, <1>4, <1>5, <1>6 DEF AllToGo, Pub
<1>8. remote' = Put(Put(Put(remote, o), l), t) /\ op'[p] = Nothing
  BY <1>7 DEF gitPush, TypeInv
<1>9. PICK r1 : r1 = Put(remote, o)
  OBVIOUS
<1>10. PICK r2 : r2 = Put(r1, l)
  OBVIOUS
<1>11. RemoteOK(remote)
  BY DEF TypeInv
<1>12. r1 = Remote(remote.commits \cup oc, remote.blobs \cup ob, remote.lock, remote.branch)
  BY <1>4, <1>9, <1>11, PutObjects
<1>13. RemoteOK(r1) /\ r1.commits = remote.commits \cup oc /\ r1.blobs = remote.blobs \cup ob
  BY <1>3, <1>11, <1>12 DEF RemoteOK, Remote
<1>14. r2 = Remote(r1.commits, r1.blobs, v, r1.branch)
  BY <1>5, <1>10, <1>13, PutLock
<1>15. RemoteOK(r2) /\ r2.commits = r1.commits /\ r2.blobs = r1.blobs /\ r2.lock = v
  BY <1>3, <1>13, <1>14 DEF RemoteOK, Remote
<1>16. Put(r2, t) = Remote(r2.commits, r2.blobs, v, b)
  BY <1>6, <1>15, PutBranch
<1>17. remote' = Remote(remote.commits \cup oc, remote.blobs \cup ob, v, b)
  BY <1>8, <1>9, <1>10, <1>13, <1>15, <1>16
<1>18. QED BY <1>3, <1>8, <1>17

-----------------------------------------------------------------------------
(* Types are kept. *)
LEMMA Setup ==
    ASSUME TypeInv PROVE setup.git \in BOOLEAN /\ setup.foreign \subseteq Version
  BY RemoteAssumption DEF TypeInv

OpsOK(o, g) ==
    /\ o = [p \in Peer |-> o[p]]
    /\ \A p \in Peer : o[p] = Nothing \/ PublishOK(o[p], g) \/ FetchOK(o[p])
InstsOK(i) == i = [p \in Peer |-> i[p]] /\ \A p \in Peer : InstOK(i[p])

LEMMA InstsKept ==
    ASSUME TypeInv, NEW p \in Peer, NEW s, Become(p, s), InstOK(s)
    PROVE  InstsOK(inst')
<1>1. \A q \in Peer : InstOK(inst[q])
  BY DEF TypeInv
<1>2. QED BY <1>1, Becomes DEF InstsOK

LEMMA OpsKept ==
    ASSUME TypeInv, NEW p \in Peer, NEW o, op' = [op EXCEPT ![p] = o],
           o = Nothing \/ PublishOK(o, setup.git) \/ FetchOK(o)
    PROVE  OpsOK(op', setup.git)
<1>1. \A q \in Peer : op[q] = Nothing \/ PublishOK(op[q], setup.git) \/ FetchOK(op[q])
  BY DEF TypeInv
<1>2. QED BY <1>1, OpBecomes DEF OpsOK

LEMMA TypeInit == Init => TypeInv
<1> SUFFICES ASSUME Init PROVE TypeInv
  OBVIOUS
<1>1. setup \in Setups /\ changes \in Nat /\ wiped \subseteq Peer /\ moved \subseteq Peer
      /\ refilled \subseteq Peer /\ uneven \in BOOLEAN
  BY DEF Init
<1>2. InstsOK(inst)
  <2>1. PICK locks \in [Keyed -> Version] :
          inst = [p \in Peer |-> IF p \in Keyed THEN [Fresh EXCEPT !.lock = locks[p]] ELSE Fresh]
    BY DEF Init
  <2>2. inst = [p \in Peer |-> inst[p]]
    BY <2>1
  <2>3. ASSUME NEW p \in Peer PROVE InstOK(inst[p])
    <3>1. PICK v \in Version \cup {None} :
            inst[p] = [tree |-> [q \in Path |-> None], lock |-> v, built |-> None, cache |-> {},
                       kept |-> FALSE, ledger |-> {}, tip |-> NoCommit, stash |-> {},
                       commits |-> {}, blobs |-> {}]
      <4>1. CASE p \in Keyed
        <5>1. locks[p] \in Version /\ inst[p] = [Fresh EXCEPT !.lock = locks[p]]
          BY <2>1, <4>1
        <5>2. QED BY <5>1 DEF Fresh
      <4>2. CASE p \notin Keyed
        BY <2>1, <4>2 DEF Fresh
      <4>3. QED BY <4>1, <4>2
    <3>2. QED BY <3>1, NoCommitFacts DEF InstOK, IsInst
  <2>4. QED BY <2>2, <2>3 DEF InstsOK
<1>3. OpsOK(op, setup.git)
  BY DEF Init, OpsOK
<1>4. PICK c : /\ remote = Served(c) /\ legacy = Blobs(c)
               /\ c \in LegacyTips \/ c = NoCommit
  BY DEF Init
<1>5. HistoryOK(c) /\ c.lock \in Version \cup {None}
  <2>1. CASE c = NoCommit
    BY <2>1, NoCommitFacts DEF NoCommit
  <2>2. CASE c \in LegacyTips
    <3>0. PICK t : t = [p \in {} |-> None]
      OBVIOUS
    <3>1. PICK v \in Version, w \in Version :
            c = MakeCommit(MakeCommit(NoCommit, v, t), w, RowsOf(v))
      BY <2>2, <3>0 DEF LegacyTips, Apart
    <3>2. Range(t) \subseteq Content
      BY <3>0 DEF Range
    <3>3. PICK d : d = MakeCommit(NoCommit, v, t)
      OBVIOUS
    <3>4. HistoryOK(d)
      BY <3>2, <3>3, NoCommitFacts, MakeCommitOK
    <3>5. Range(RowsOf(v)) \subseteq Content
      BY RowsFacts DEF Content
    <3>6. QED BY <3>1, <3>3, <3>4, <3>5, MakeCommitOK DEF MakeCommit
  <2>3. QED BY <1>4, <2>1, <2>2
<1>6. RemoteOK(remote) /\ legacy \subseteq Content
  BY <1>4, <1>5, HistoryOKFacts DEF Served, RemoteOK
<1>7. QED BY <1>1, <1>2, <1>3, <1>6 DEF TypeInv, InstsOK, OpsOK

(* The actions that work on an instance; the others only transfer. *)
InstAct(p) ==
    \/ \E f \in Path, c \in Own \cup {None} : Edit(p, f, c)
    \/ \E f \in Path, g \in Path : Move(p, f, g)
    \/ \E v \in Version : Relock(p, v)
    \/ Wipe(p) \/ Protect(p) \/ Build(p) \/ Commit(p)
    \/ cloneInstance(p) \/ pullUpToDate(p) \/ pullInstance(p) \/ pullStatic(p)

LEMMA AnyInstStep ==
    ASSUME TypeInv, NEW p \in Peer, InstAct(p)
    PROVE  InstStep(inst[p], inst'[p], op[p].tip)
<1>1. ASSUME NEW f \in Path, NEW c \in Own \cup {None}, Edit(p, f, c)
      PROVE  InstStep(inst[p], inst'[p], op[p].tip)
  BY <1>1, EditFacts DEF InstStep
<1>2. ASSUME NEW f \in Path, NEW g \in Path, Move(p, f, g)
      PROVE  InstStep(inst[p], inst'[p], op[p].tip)
  BY <1>2, MoveFacts DEF InstStep
<1>3. ASSUME NEW v \in Version, Relock(p, v)
      PROVE  InstStep(inst[p], inst'[p], op[p].tip)
  BY <1>3, RelockFacts DEF InstStep
<1>4. CASE Wipe(p)
  BY <1>4, WipeFacts DEF InstStep
<1>5. CASE Protect(p)
  BY <1>5, ProtectFacts DEF InstStep
<1>6. CASE Build(p)
  BY <1>6, BuildStep
<1>7. CASE Commit(p)
  BY <1>7, CommitIsStep
<1>8. CASE cloneInstance(p)
  BY <1>8, CloneStep
<1>9. CASE pullUpToDate(p)
  BY <1>9, UpToDateStep
<1>10. CASE pullInstance(p)
  BY <1>10, PullStep
<1>11. CASE pullStatic(p)
  BY <1>11, StaticStep
<1>12. QED BY <1>1, <1>2, <1>3, <1>4, <1>5, <1>6, <1>7, <1>8, <1>9, <1>10, <1>11 DEF InstAct

(* ... which replaces its instance, and may end a pull. *)
Frame(p) ==
    /\ \E s : Become(p, s)
    /\ op' = op \/ (Fetching(p) /\ op' = [op EXCEPT ![p] = Nothing])
    /\ remote' = remote /\ setup' = setup /\ legacy' = legacy /\ uneven' = uneven
    /\ changes' \in Nat /\ wiped' \subseteq Peer /\ moved' \subseteq Peer
    /\ refilled' \subseteq Peer
    /\ wiped \subseteq wiped' /\ moved \subseteq moved' /\ refilled \subseteq refilled'

LEMMA InstFrame ==
    ASSUME TypeInv, NEW p \in Peer, InstAct(p)
    PROVE  Frame(p)
<1>0. changes \in Nat /\ wiped \subseteq Peer /\ moved \subseteq Peer /\ refilled \subseteq Peer
  BY DEF TypeInv
<1>1. ASSUME NEW f \in Path, NEW c \in Own \cup {None}, Edit(p, f, c) PROVE Frame(p)
  BY <1>0, <1>1 DEF Edit, Changed, Frame, blindness
<1>2. ASSUME NEW f \in Path, NEW g \in Path, Move(p, f, g) PROVE Frame(p)
  BY <1>0, <1>2 DEF Move, Changed, Frame
<1>3. ASSUME NEW v \in Version, Relock(p, v) PROVE Frame(p)
  BY <1>0, <1>3 DEF Relock, Changed, Frame, blindness
<1>4. CASE Wipe(p)
  BY <1>0, <1>4 DEF Wipe, Frame
<1>5. CASE Protect(p)
  BY <1>0, <1>5 DEF Protect, Frame, blindness
<1>6. CASE Build(p)
  BY <1>0, <1>6 DEF Build, Refill, Frame
<1>7. CASE Commit(p)
  BY <1>0, <1>7 DEF Commit, Changed, Frame, blindness
<1>a. ASSUME NEW s, Land(p, s), Fetching(p) PROVE Frame(p)
  BY <1>0, <1>a DEF Land, Refill, Frame
<1>8. CASE cloneInstance(p)
  <2>1. Fetching(p) /\ \E s : Land(p, s)
    BY <1>8 DEF cloneInstance, Landing
  <2>2. QED BY <1>a, <2>1
<1>9. CASE pullUpToDate(p)
  BY <1>0, <1>9 DEF pullUpToDate, Landing, Frame, blindness
<1>10. CASE pullInstance(p)
  <2>1. Fetching(p) /\ \E s : Land(p, s)
    BY <1>10 DEF pullInstance, Landing
  <2>2. QED BY <1>a, <2>1
<1>11. CASE pullStatic(p)
  <2>1. /\ Fetching(p) /\ (\E s : Become(p, s)) /\ op' = [op EXCEPT ![p] = Nothing]
        /\ Refill(p) /\ Changed /\ UNCHANGED <<remote, setup, wiped, moved, uneven, legacy>>
    BY <1>11 DEF pullStatic, Landing
  <2>2. QED BY <1>0, <2>1 DEF Refill, Changed, Frame
<1>12. QED BY <1>1, <1>2, <1>3, <1>4, <1>5, <1>6, <1>7, <1>8, <1>9, <1>10, <1>11 DEF InstAct

LEMMA InstTypes ==
    ASSUME TypeInv, NEW p \in Peer, InstAct(p)
    PROVE  TypeInv'
<1>1. Frame(p) /\ InstOK(inst'[p])
  BY InstFrame, AnyInstStep DEF InstStep
<1>2. PICK s : Become(p, s)
  BY <1>1 DEF Frame
<1>3. InstOK(s)
  BY <1>1, <1>2, Becomes
<1>4. InstsOK(inst')
  BY <1>2, <1>3, InstsKept
<1>5. OpsOK(op', setup.git)
  <2>1. CASE op' = op
    BY <2>1 DEF OpsOK, TypeInv
  <2>2. CASE op' = [op EXCEPT ![p] = Nothing]
    BY <2>2, OpsKept
  <2>3. QED BY <1>1, <2>1, <2>2 DEF Frame
<1>6. remote' = remote /\ setup' = setup /\ legacy' = legacy /\ uneven' = uneven
      /\ changes' \in Nat /\ wiped' \subseteq Peer /\ moved' \subseteq Peer
      /\ refilled' \subseteq Peer
  BY <1>1 DEF Frame
<1>7. RemoteOK(remote) /\ setup \in Setups /\ uneven \in BOOLEAN /\ legacy \subseteq Content
  BY DEF TypeInv
<1>8. QED BY <1>4, <1>5, <1>6, <1>7 DEF TypeInv, InstsOK, OpsOK

LEMMA TransferTypes ==
    ASSUME TypeInv, NEW p \in Peer,
           push(p) \/ publishWrites(p) \/ gitPush(p) \/ fetchFiles(p) \/ fetchBranch(p) \/ stop(p)
    PROVE  TypeInv'
<1>0. /\ inst' = inst /\ setup' = setup /\ legacy' = legacy /\ changes' = changes
      /\ wiped' = wiped /\ moved' = moved /\ refilled' = refilled /\ uneven' \in BOOLEAN
  BY DEF push, publishWrites, gitPush, fetchFiles, fetchBranch, stop, blindness, TypeInv
<1>1. RemoteOK(remote') /\ OpsOK(op', setup.git)
  <2>0. RemoteOK(remote) /\ InstOK(inst[p])
    BY DEF TypeInv
  <2>1. CASE push(p)
    <3>1. PICK o : op' = [op EXCEPT ![p] = o]
      BY <2>1 DEF push
    <3>2. op'[p] = o
      BY <3>1, OpBecomes
    <3>3. PICK seen : AllToGo(o, inst[p].commits \cap Ancestors(inst[p].tip),
                              inst[p].blobs \cap Blobs(inst[p].tip), inst[p].lock, inst[p].tip, seen)
      BY <2>1, <3>2, PushStep
    <3>4. PublishOK(o, setup.git)
      <4>1. /\ inst[p].blobs \cap Blobs(inst[p].tip) \subseteq Content
            /\ inst[p].lock \in Version \cup {None} /\ HistoryOK(inst[p].tip)
        BY <2>0 DEF InstOK
      <4>2. QED BY <3>3, <4>1 DEF PublishOK
    <3>5. QED BY <2>0, <2>1, <3>1, <3>4, OpsKept DEF push
  <2>2. CASE publishWrites(p)
    <3>1. op' = [op EXCEPT ![p] = Rest(op[p])] /\ ~setup.git
      BY <2>2 DEF publishWrites, git
    <3>2. PICK o : o = Rest(op[p])
      OBVIOUS
    <3>3. op' = [op EXCEPT ![p] = o] /\ op'[p] = o
      BY <3>1, <3>2, OpBecomes
    <3>4. PICK oc, ob, v, b, seen :
             /\ ob \subseteq Content /\ v \in Version \cup {None} /\ HistoryOK(b)
             /\ \/ /\ AllToGo(op[p], oc, ob, v, b, seen) /\ FilesToGo(op'[p], v, b, seen)
                   /\ remote' = Remote(remote.commits \cup oc, remote.blobs \cup ob,
                                       remote.lock, remote.branch)
                \/ /\ FilesToGo(op[p], v, b, seen) /\ BranchToGo(op'[p], b, seen)
                   /\ remote' = Remote(remote.commits, remote.blobs, v, remote.branch)
                \/ /\ BranchToGo(op[p], b, seen) /\ op'[p] = Nothing
                   /\ remote' = Remote(remote.commits, remote.blobs, remote.lock, b)
      BY <2>2, WriteStep
    <3>5. o = Nothing \/ PublishOK(o, setup.git)
      BY <3>1, <3>3, <3>4 DEF PublishOK
    <3>6. RemoteOK(remote')
      <4>1. remote.blobs \cup ob \subseteq Content
        BY <2>0, <3>4 DEF RemoteOK
      <4>2. QED BY <2>0, <3>4, <4>1, RemoteIsOK DEF RemoteOK
    <3>7. QED BY <3>3, <3>5, <3>6, OpsKept
  <2>3. CASE gitPush(p)
    <3>1. op' = [op EXCEPT ![p] = Nothing]
      BY <2>3 DEF gitPush
    <3>2. RemoteOK(remote')
      <4>1. PICK oc, ob, v, b :
               /\ ob \subseteq Content /\ v \in Version \cup {None} /\ HistoryOK(b)
               /\ remote' = Remote(remote.commits \cup oc, remote.blobs \cup ob, v, b)
        BY <2>3, GitStep
      <4>2. remote.blobs \cup ob \subseteq Content
        BY <2>0, <4>1 DEF RemoteOK
      <4>3. QED BY <4>1, <4>2, RemoteIsOK
    <3>3. QED BY <3>1, <3>2, OpsKept
  <2>4. CASE fetchFiles(p)
    <3>1. PICK v, t : /\ v = remote.lock /\ t = (IF git THEN remote.branch ELSE NoCommit)
                      /\ op' = [op EXCEPT ![p] = Fetch(v, t, git)]
                      /\ v # None /\ remote' = remote
      BY <2>4 DEF fetchFiles, Fetch
    <3>2. v \in Version /\ HistoryOK(t)
      BY <2>0, <3>1, NoCommitFacts DEF RemoteOK
    <3>3. FetchOK(Fetch(v, t, git))
      <4>1. CASE git
        BY <3>2, <4>1 DEF FetchOK
      <4>2. CASE ~git
        <5>1. git = FALSE
          BY <4>2, Setup DEF git
        <5>2. QED BY <3>2, <5>1 DEF FetchOK
      <4>3. QED BY <4>1, <4>2
    <3>4. QED BY <2>0, <3>1, <3>3, OpsKept
  <2>5. CASE fetchBranch(p)
    <3>1. FetchOK(op[p])
      BY <2>5, OpName DEF TypeInv, fetchBranch, Fetching
    <3>2. PICK v \in Version : \E t : HistoryOK(t) /\ (op[p] = Fetch(v, t, TRUE) \/ op[p] = Fetch(v, t, FALSE))
      BY <3>1 DEF FetchOK
    <3>3. op[p].lock = v
      BY <3>2 DEF Fetch
    <3>4. PICK o : o = Fetch(v, remote.branch, TRUE)
      OBVIOUS
    <3>5. FetchOK(o)
      BY <2>0, <3>2, <3>4 DEF FetchOK, RemoteOK
    <3>6. op' = [op EXCEPT ![p] = o] /\ remote' = remote
      BY <2>5, <3>3, <3>4 DEF fetchBranch, Fetch
    <3>7. QED BY <2>0, <3>5, <3>6, OpsKept
  <2>6. CASE stop(p)
    BY <2>0, <2>6, OpsKept DEF stop
  <2>7. QED BY <2>1, <2>2, <2>3, <2>4, <2>5, <2>6
<1>2. /\ \A q \in Peer : InstOK(inst[q])
      /\ inst = [q \in Peer |-> inst[q]] /\ setup \in Setups /\ legacy \subseteq Content
      /\ changes \in Nat /\ wiped \subseteq Peer /\ moved \subseteq Peer /\ refilled \subseteq Peer
  BY DEF TypeInv
<1>3. QED BY <1>0, <1>1, <1>2 DEF TypeInv, OpsOK

LEMMA NextActs ==
    ASSUME Next
    PROVE  \E p \in Peer :
             \/ InstAct(p)
             \/ push(p) \/ publishWrites(p) \/ gitPush(p) \/ fetchFiles(p) \/ fetchBranch(p) \/ stop(p)
  BY DEF Next, InstAct

LEMMA TypeNext == TypeInv /\ [Next]_vars => TypeInv'
<1> SUFFICES ASSUME TypeInv, [Next]_vars PROVE TypeInv'
  OBVIOUS
<1>1. CASE Next
  BY <1>1, NextActs, InstTypes, TransferTypes
<1>2. CASE UNCHANGED vars
  BY <1>2 DEF vars, TypeInv, blindness
<1>3. QED BY <1>1, <1>2

(* The types hold in every reachable state. *)
THEOREM Types == Spec => []TypeInv
  BY TypeInit, TypeNext, PTL DEF Spec

-----------------------------------------------------------------------------
(* What a step does to the history of an instance; no file of the user's own *)
(* is left out.                                                             *)

LEMMA HistoryStep ==
    ASSUME TypeInv, [Next]_vars, NEW p \in Peer
    PROVE  \/ Stays(inst[p], inst'[p])
           \/ Commits(inst[p], inst'[p])
           \/ Arrives(inst[p], inst'[p], op[p].tip)
<1>1. CASE UNCHANGED vars
  BY <1>1 DEF vars, Stays
<1>2. CASE Next
  <2>1. PICK q \in Peer :
          \/ InstAct(q)
          \/ push(q) \/ publishWrites(q) \/ gitPush(q) \/ fetchFiles(q) \/ fetchBranch(q) \/ stop(q)
    BY <1>2, NextActs
  <2>2. CASE InstAct(q) /\ q = p
    BY <2>2, AnyInstStep DEF InstStep
  <2>3. CASE InstAct(q) /\ q # p
    <3>1. inst'[p] = inst[p]
      BY <2>3, InstFrame, Becomes DEF Frame
    <3>2. QED BY <3>1 DEF Stays
  <2>4. CASE push(q) \/ publishWrites(q) \/ gitPush(q) \/ fetchFiles(q) \/ fetchBranch(q) \/ stop(q)
    BY <2>4 DEF push, publishWrites, gitPush, fetchFiles, fetchBranch, stop, Stays
  <2>5. QED BY <2>1, <2>2, <2>3, <2>4
<1>3. QED BY <1>1, <1>2

LEMMA CommitsFacts ==
    ASSUME NEW s, NEW r, Commits(s, r)
    PROVE  /\ r.tip # NoCommit /\ r.stash = s.stash
           /\ Ancestors(r.tip) = {r.tip} \cup Ancestors(s.tip)
           /\ \E u : /\ InstOK(u) /\ u.lock \in Version
                     /\ u.tree = s.tree /\ u.cache = s.cache /\ s.ledger \subseteq u.ledger
                     /\ Range(trackWorktree(u)) \subseteq Content
                     /\ r.commits = s.commits \cup {r.tip}
                     /\ r.blobs = s.blobs \cup Range(trackWorktree(u))
                     /\ Blobs(r.tip) = Range(trackWorktree(u)) \cup Blobs(s.tip)
                     /\ replayPinsOf(r.tip) = Range(RowsOf(u.lock)) \cup replayPinsOf(s.tip)
<1>1. PICK u : /\ InstOK(u) /\ u.lock \in Version
               /\ u.tree = s.tree /\ u.cache = s.cache /\ s.ledger \subseteq u.ledger
               /\ Range(trackWorktree(u)) \subseteq Content
               /\ r.tip = MakeCommit(s.tip, u.lock, trackWorktree(u)) /\ r.stash = s.stash
               /\ r.commits = s.commits \cup {r.tip}
               /\ r.blobs = s.blobs \cup Range(trackWorktree(u))
  BY DEF Commits
<1>2. PICK t : t = trackWorktree(u)
  OBVIOUS
<1>3. PICK c : c = MakeCommit(s.tip, u.lock, t)
  OBVIOUS
<1>4. /\ c # NoCommit
      /\ Ancestors(c) = {c} \cup Ancestors(s.tip)
      /\ Blobs(c) = Range(t) \cup Blobs(s.tip)
      /\ replayPinsOf(c) = Range(RowsOf(u.lock)) \cup replayPinsOf(s.tip)
  BY <1>1, <1>3, MakeCommitFacts
<1>5. r.tip = c
  BY <1>1, <1>2, <1>3
<1>6. QED BY <1>1, <1>2, <1>4, <1>5

LEMMA OwnFilesStep ==
    ASSUME TypeInv, [Next]_vars, NEW p \in Peer,
           Idle(p), established(inst[p]), inst'[p].tip # inst[p].tip,
           NEW f \in Path \ BuildOwned(inst[p]), inst[p].tree[f] \in Own
    PROVE  f \in DOMAIN inst'[p].tip.tracked
<1>1. ~Fetching(p)
  BY DEF Idle, Fetching
<1>2. Next
  BY DEF vars
<1>3. PICK q \in Peer :
          \/ InstAct(q)
          \/ push(q) \/ publishWrites(q) \/ gitPush(q) \/ fetchFiles(q) \/ fetchBranch(q) \/ stop(q)
  BY <1>2, NextActs
<1>4. InstAct(q)
  BY <1>3 DEF push, publishWrites, gitPush, fetchFiles, fetchBranch, stop
<1>5. q = p
  BY <1>4, InstFrame, Becomes DEF Frame
<1>6. Commit(p)
  <2>1. ~Stays(inst[p], inst'[p])
    BY DEF Stays
  <2>2. \A g \in Path, c \in Own \cup {None} : ~Edit(p, g, c)
    BY <2>1, EditFacts
  <2>3. \A g \in Path, h \in Path : ~Move(p, g, h)
    BY <2>1, MoveFacts
  <2>4. \A v \in Version : ~Relock(p, v)
    BY <2>1, RelockFacts
  <2>5. ~Wipe(p) /\ ~Protect(p)
    BY <2>1, WipeFacts, ProtectFacts
  <2>6. ~Build(p)
    BY <2>1, BuildStep
  <2>7. ~cloneInstance(p) /\ ~pullUpToDate(p) /\ ~pullInstance(p) /\ ~pullStatic(p)
    BY <1>1 DEF cloneInstance, pullUpToDate, pullInstance, pullStatic, Landing
  <2>8. QED BY <1>4, <1>5, <2>2, <2>3, <2>4, <2>5, <2>6, <2>7 DEF InstAct
<1>7. PICK s : s = inst[p]
  OBVIOUS
<1>8. InstOK(s) /\ s.lock # None /\ inst'[p] = commitOf(s)
  BY <1>6, <1>7, Becomes DEF TypeInv, Commit
<1>9. inst'[p].tip = MakeCommit(s.tip, s.lock, trackWorktree(s))
  BY <1>8, CommitFacts
<1>10. inst'[p].tip.tracked = trackWorktree(s)
  BY <1>9 DEF MakeCommit
<1>11. s.tree[f] # None /\ verdict(s, f, s.tree[f])
  BY <1>7, <1>8, RemoteAssumption DEF InstOK, verdict, Content
<1>12. f \in DOMAIN trackWorktree(s)
  BY <1>7, <1>11 DEF trackWorktree, Restrict
<1>13. QED BY <1>10, <1>12

(* A commit of an instance with a replay cache tracks every file of the user's
   own that no build owns. *)
THEOREM OwnFilesAreRecorded == Spec => OwnFilesRecorded
<1>1. TypeInv /\ [Next]_vars =>
        [\A p \in Peer :
            (Idle(p) /\ established(inst[p]) /\ inst'[p].tip # inst[p].tip) =>
                \A f \in Path \ BuildOwned(inst[p]) :
                    inst[p].tree[f] \in Own => f \in DOMAIN inst'[p].tip.tracked]_vars
  BY OwnFilesStep
<1>2. QED BY <1>1, Types, PTL DEF Spec, OwnFilesRecorded

-----------------------------------------------------------------------------
(* No branch is served, and no commit kept, before what it reaches.         *)

(* An operation is in at most one of the three stages of a publish, and its
   writes are what they are. *)
LEMMA Stages ==
    ASSUME NEW o, NEW oc, NEW ob, NEW v, NEW b, NEW seen,
           NEW oc2, NEW ob2, NEW v2, NEW b2, NEW seen2
    PROVE  /\ AllToGo(o, oc, ob, v, b, seen) /\ AllToGo(o, oc2, ob2, v2, b2, seen2) =>
                 oc = oc2 /\ ob = ob2 /\ v = v2 /\ b = b2
           /\ FilesToGo(o, v, b, seen) /\ FilesToGo(o, v2, b2, seen2) => v = v2 /\ b = b2
           /\ BranchToGo(o, b, seen) /\ BranchToGo(o, b2, seen2) => b = b2
           /\ ~(AllToGo(o, oc, ob, v, b, seen) /\ FilesToGo(o, v2, b2, seen2))
           /\ ~(AllToGo(o, oc, ob, v, b, seen) /\ BranchToGo(o, b2, seen2))
           /\ ~(FilesToGo(o, v, b, seen) /\ BranchToGo(o, b2, seen2))
<1>1. ASSUME AllToGo(o, oc, ob, v, b, seen)
      PROVE  /\ o.todo[1].commits = oc /\ o.todo[1].blobs = ob
             /\ o.todo[2].to = v /\ o.todo[3].to = b /\ Len(o.todo) = 3
  BY <1>1 DEF AllToGo, Pub, Objects, LockTo, BranchTo
<1>2. ASSUME AllToGo(o, oc2, ob2, v2, b2, seen2)
      PROVE  /\ o.todo[1].commits = oc2 /\ o.todo[1].blobs = ob2
             /\ o.todo[2].to = v2 /\ o.todo[3].to = b2
  BY <1>2 DEF AllToGo, Pub, Objects, LockTo, BranchTo
<1>3. ASSUME FilesToGo(o, v, b, seen)
      PROVE  o.todo[1].to = v /\ o.todo[2].to = b /\ Len(o.todo) = 2
  BY <1>3 DEF FilesToGo, Pub, LockTo, BranchTo
<1>4. ASSUME FilesToGo(o, v2, b2, seen2)
      PROVE  o.todo[1].to = v2 /\ o.todo[2].to = b2 /\ Len(o.todo) = 2
  BY <1>4 DEF FilesToGo, Pub, LockTo, BranchTo
<1>5. ASSUME BranchToGo(o, b, seen)
      PROVE  o.todo[1].to = b
  BY <1>5 DEF BranchToGo, Pub, BranchTo
<1>6. ASSUME BranchToGo(o, b2, seen2)
      PROVE  o.todo[1].to = b2 /\ Len(o.todo) = 1
  BY <1>6 DEF BranchToGo, Pub, BranchTo
<1>7. QED BY <1>1, <1>2, <1>3, <1>4, <1>5, <1>6

LEMMA NoStage ==
    ASSUME NEW o, o.name # "publish", NEW oc, NEW ob, NEW v, NEW b, NEW seen
    PROVE  ~AllToGo(o, oc, ob, v, b, seen) /\ ~FilesToGo(o, v, b, seen) /\ ~BranchToGo(o, b, seen)
  BY DEF AllToGo, FilesToGo, BranchToGo, Pub

(* What an instance has of the commits that it finds. *)
Whole(s) ==
    \A c \in s.stash \cup {s.tip} :
        Ancestors(c) \subseteq s.commits /\ Blobs(c) \ Replay \subseteq s.blobs

(* What a publish still writes, or has written, of the branch it will set. *)
Carried(b, commits, blobs) == Ancestors(b) \subseteq commits /\ Blobs(b) \subseteq blobs
PubWhole(o, commits, blobs) ==
    \A oc, ob, v, b, seen :
        /\ AllToGo(o, oc, ob, v, b, seen) => Carried(b, oc, ob)
        /\ FilesToGo(o, v, b, seen) => Carried(b, commits, blobs)
        /\ BranchToGo(o, b, seen) => Carried(b, commits, blobs)

WholeInv ==
    /\ Carried(remote.branch, remote.commits, remote.blobs)
    /\ \A p \in Peer : Whole(inst[p]) /\ PubWhole(op[p], remote.commits, remote.blobs)

LEMMA WholeMonotonic ==
    ASSUME NEW o, NEW co, NEW bl, NEW co2, NEW bl2, co \subseteq co2, bl \subseteq bl2,
           PubWhole(o, co, bl)
    PROVE  PubWhole(o, co2, bl2)
  BY DEF PubWhole, Carried

LEMMA WholeIdle ==
    ASSUME NEW o, o.name # "publish", NEW co, NEW bl PROVE PubWhole(o, co, bl)
  BY NoStage DEF PubWhole

LEMMA WholeHistory ==
    ASSUME TypeInv, TypeInv', [Next]_vars, WholeInv, NEW p \in Peer
    PROVE  Whole(inst'[p])
<1>1. PICK s : s = inst[p]
  OBVIOUS
<1>2. PICK r : r = inst'[p]
  OBVIOUS
<1>3. Whole(s) /\ InstOK(r)
  BY <1>1, <1>2 DEF WholeInv, TypeInv
<1>4. CASE Stays(s, r)
  BY <1>2, <1>3, <1>4 DEF Stays, Whole
<1>5. CASE Commits(s, r)
  BY <1>2, <1>3, <1>5, CommitsFacts DEF Whole
<1>6. CASE \E t : Arrives(s, r, t)
  <2>1. PICK c : Arrives(s, r, c)
    BY <1>6
  <2>2. r.tip = c /\ HistoryOK(c)
    BY <1>3, <2>1 DEF Arrives, InstOK
  <2>3. Refused(s, c) \subseteq Replay
    BY <2>2, HistoryOKFacts DEF Refused
  <2>4. QED BY <1>2, <1>3, <2>1, <2>3 DEF Arrives, Whole
<1>7. QED BY <1>1, <1>2, <1>4, <1>5, <1>6, HistoryStep

LEMMA InitInst ==
    ASSUME Init, NEW p \in Peer
    PROVE  /\ inst[p].tip = NoCommit /\ inst[p].stash = {} /\ inst[p].blobs = {}
           /\ inst[p].cache = {} /\ \A f \in Path : inst[p].tree[f] = None
<1>1. PICK locks \in [Keyed -> Version] :
        inst = [q \in Peer |-> IF q \in Keyed THEN [Fresh EXCEPT !.lock = locks[q]] ELSE Fresh]
  BY DEF Init
<1>2. CASE p \in Keyed
  <2>1. inst[p] = [Fresh EXCEPT !.lock = locks[p]]
    BY <1>1, <1>2
  <2>2. QED BY <2>1 DEF Fresh
<1>3. CASE p \notin Keyed
  <2>1. inst[p] = Fresh
    BY <1>1, <1>3
  <2>2. QED BY <2>1 DEF Fresh
<1>4. QED BY <1>2, <1>3

LEMMA WholeInit == Init => WholeInv
<1> SUFFICES ASSUME Init PROVE WholeInv
  OBVIOUS
<1>1. Carried(remote.branch, remote.commits, remote.blobs)
  BY DEF Init, Served, Carried
<1>2. ASSUME NEW p \in Peer PROVE Whole(inst[p])
  <2>1. inst[p].tip = NoCommit /\ inst[p].stash = {}
    BY InitInst
  <2>2. QED BY <2>1, NoCommitFacts DEF Whole
<1>3. ASSUME NEW p \in Peer PROVE PubWhole(op[p], remote.commits, remote.blobs)
  <2>1. op[p].name # "publish"
    BY DEF Init, Nothing
  <2>2. QED BY <2>1, WholeIdle
<1>4. QED BY <1>1, <1>2, <1>3 DEF WholeInv

(* The other peers' transfers do not mind that the remote grows. *)
LEMMA WholeOps ==
    ASSUME TypeInv, WholeInv, NEW p \in Peer, NEW o, op' = [op EXCEPT ![p] = o],
           remote.commits \subseteq remote'.commits, remote.blobs \subseteq remote'.blobs,
           PubWhole(o, remote'.commits, remote'.blobs)
    PROVE  \A q \in Peer : PubWhole(op'[q], remote'.commits, remote'.blobs)
<1>1. ASSUME NEW q \in Peer PROVE PubWhole(op'[q], remote'.commits, remote'.blobs)
  <2>1. CASE q = p
    BY <2>1, OpBecomes
  <2>2. CASE q # p
    <3>1. op'[q] = op[q] /\ PubWhole(op[q], remote.commits, remote.blobs)
      BY <2>2, OpBecomes DEF WholeInv
    <3>2. QED BY <3>1, WholeMonotonic
  <2>3. QED BY <2>1, <2>2
<1>2. QED BY <1>1

LEMMA WholePush ==
    ASSUME TypeInv, WholeInv, NEW p \in Peer, push(p)
    PROVE  PubWhole(op'[p], remote.commits, remote.blobs)
<1>1. PICK s : s = inst[p]
  OBVIOUS
<1>2. PICK seen : AllToGo(op'[p], s.commits \cap Ancestors(s.tip), s.blobs \cap Blobs(s.tip),
                          s.lock, s.tip, seen)
  BY <1>1, PushStep
<1>3. Ancestors(s.tip) \subseteq s.commits
  BY <1>1 DEF WholeInv, Whole
<1>4. Blobs(s.tip) \subseteq s.blobs
  <2>1. \A e \in TrackedEntries(s.tip) : e[2] \in s.blobs
    BY <1>1 DEF push, assertPushableHistory
  <2>2. ASSUME NEW a \in Ancestors(s.tip), NEW f \in DOMAIN a.tracked
        PROVE  a.tracked[f] \in s.blobs
    <3>1. <<f, a.tracked[f]>> \in TrackedEntries(s.tip)
      BY <2>2 DEF TrackedEntries
    <3>2. QED BY <2>1, <3>1
  <2>3. QED BY <2>2 DEF Blobs, Range
<1>5. Carried(s.tip, s.commits \cap Ancestors(s.tip), s.blobs \cap Blobs(s.tip))
  BY <1>3, <1>4 DEF Carried
<1>6. QED BY <1>2, <1>5, Stages DEF PubWhole

LEMMA WholeStep == TypeInv /\ TypeInv' /\ WholeInv /\ [Next]_vars => WholeInv'
<1> SUFFICES ASSUME TypeInv, TypeInv', WholeInv, [Next]_vars PROVE WholeInv'
  OBVIOUS
<1>1. \A p \in Peer : Whole(inst'[p])
  BY WholeHistory
<1> DEFINE RemoteWhole ==
      /\ Carried(remote'.branch, remote'.commits, remote'.blobs)
      /\ \A p \in Peer : PubWhole(op'[p], remote'.commits, remote'.blobs)
<1>2. RemoteWhole
  <2>0. /\ Carried(remote.branch, remote.commits, remote.blobs)
        /\ \A p \in Peer : PubWhole(op[p], remote.commits, remote.blobs)
    BY DEF WholeInv
  <2>1. CASE UNCHANGED vars
    BY <2>0, <2>1 DEF vars
  <2>2. CASE Next
    <3>1. PICK p \in Peer :
            \/ InstAct(p)
            \/ push(p) \/ publishWrites(p) \/ gitPush(p) \/ fetchFiles(p) \/ fetchBranch(p) \/ stop(p)
      BY <2>2, NextActs
    <3>2. PubWhole(Nothing, remote.commits, remote.blobs)
      BY WholeIdle DEF Nothing
    <3>3. CASE InstAct(p)
      <4>1. remote' = remote /\ (op' = op \/ op' = [op EXCEPT ![p] = Nothing])
        BY <3>3, InstFrame DEF Frame
      <4>2. QED BY <2>0, <3>2, <4>1, WholeOps
    <3>4. CASE push(p)
      <4>1. remote' = remote /\ \E o : op' = [op EXCEPT ![p] = o]
        BY <3>4 DEF push
      <4>2. PICK o : op' = [op EXCEPT ![p] = o]
        BY <4>1
      <4>3. PubWhole(o, remote.commits, remote.blobs)
        BY <3>4, <4>2, OpBecomes, WholePush
      <4>4. QED BY <2>0, <4>1, <4>2, <4>3, WholeOps
    <3>5. CASE publishWrites(p)
      <4>1. PICK oc, ob, v, b, seen :
             /\ ob \subseteq Content /\ v \in Version \cup {None} /\ HistoryOK(b)
             /\ \/ /\ AllToGo(op[p], oc, ob, v, b, seen) /\ FilesToGo(op'[p], v, b, seen)
                   /\ remote' = Remote(remote.commits \cup oc, remote.blobs \cup ob,
                                       remote.lock, remote.branch)
                \/ /\ FilesToGo(op[p], v, b, seen) /\ BranchToGo(op'[p], b, seen)
                   /\ remote' = Remote(remote.commits, remote.blobs, v, remote.branch)
                \/ /\ BranchToGo(op[p], b, seen) /\ op'[p] = Nothing
                   /\ remote' = Remote(remote.commits, remote.blobs, remote.lock, b)
        BY <3>5, WriteStep
      <4>2. PICK o : op' = [op EXCEPT ![p] = o]
        BY <3>5 DEF publishWrites
      <4>3. op'[p] = o
        BY <4>2, OpBecomes
      <4>4. CASE /\ AllToGo(op[p], oc, ob, v, b, seen) /\ FilesToGo(op'[p], v, b, seen)
                 /\ remote' = Remote(remote.commits \cup oc, remote.blobs \cup ob,
                                     remote.lock, remote.branch)
        <5>1. /\ remote'.commits = remote.commits \cup oc /\ remote'.blobs = remote.blobs \cup ob
              /\ remote'.branch = remote.branch
          BY <4>4 DEF Remote
        <5>2. Carried(b, oc, ob)
          BY <2>0, <4>4 DEF PubWhole
        <5>3. PubWhole(o, remote'.commits, remote'.blobs)
          <6>1. Carried(b, remote'.commits, remote'.blobs)
            BY <5>1, <5>2 DEF Carried
          <6>2. QED BY <4>3, <4>4, <6>1, Stages DEF PubWhole
        <5>4. Carried(remote'.branch, remote'.commits, remote'.blobs)
          BY <2>0, <5>1 DEF Carried
        <5>5. QED BY <4>2, <5>1, <5>3, <5>4, WholeOps
      <4>5. CASE /\ FilesToGo(op[p], v, b, seen) /\ BranchToGo(op'[p], b, seen)
                 /\ remote' = Remote(remote.commits, remote.blobs, v, remote.branch)
        <5>1. /\ remote'.commits = remote.commits /\ remote'.blobs = remote.blobs
              /\ remote'.branch = remote.branch
          BY <4>5 DEF Remote
        <5>2. Carried(b, remote.commits, remote.blobs)
          BY <2>0, <4>5 DEF PubWhole
        <5>3. PubWhole(o, remote'.commits, remote'.blobs)
          BY <4>3, <4>5, <5>1, <5>2, Stages DEF PubWhole
        <5>4. QED BY <2>0, <4>2, <5>1, <5>3, WholeOps
      <4>6. CASE /\ BranchToGo(op[p], b, seen) /\ op'[p] = Nothing
                 /\ remote' = Remote(remote.commits, remote.blobs, remote.lock, b)
        <5>1. /\ remote'.commits = remote.commits /\ remote'.blobs = remote.blobs
              /\ remote'.branch = b
          BY <4>6 DEF Remote
        <5>2. Carried(b, remote.commits, remote.blobs)
          BY <2>0, <4>6 DEF PubWhole
        <5>3. QED BY <3>2, <4>2, <4>3, <4>6, <5>1, <5>2, WholeOps
      <4>7. QED BY <4>1, <4>4, <4>5, <4>6
    <3>6. CASE gitPush(p)
      <4>1. PICK oc, ob, v, b, seen :
              /\ AllToGo(op[p], oc, ob, v, b, seen)
              /\ remote' = Remote(remote.commits \cup oc, remote.blobs \cup ob, v, b)
        BY <3>6, GitStep
      <4>2. /\ remote'.commits = remote.commits \cup oc /\ remote'.blobs = remote.blobs \cup ob
            /\ remote'.branch = b
        BY <4>1 DEF Remote
      <4>3. Carried(b, oc, ob)
        BY <2>0, <4>1 DEF PubWhole
      <4>4. Carried(b, remote'.commits, remote'.blobs)
        BY <4>2, <4>3 DEF Carried
      <4>5. PubWhole(Nothing, remote'.commits, remote'.blobs)
        BY WholeIdle DEF Nothing
      <4>6. op' = [op EXCEPT ![p] = Nothing]
        BY <3>6 DEF gitPush
      <4>7. QED BY <4>2, <4>4, <4>5, <4>6, WholeOps
    <3>7. CASE fetchFiles(p) \/ fetchBranch(p) \/ stop(p)
      <4>1. PICK o : op' = [op EXCEPT ![p] = o] /\ o.name # "publish" /\ remote' = remote
        BY <3>7, ReadStep
      <4>2. PubWhole(o, remote.commits, remote.blobs)
        BY <4>1, WholeIdle
      <4>3. QED BY <2>0, <4>1, <4>2, WholeOps
    <3>8. QED BY <3>1, <3>3, <3>4, <3>5, <3>6, <3>7
  <2>3. QED BY <2>1, <2>2
<1>3. QED BY <1>1, <1>2 DEF WholeInv

(* Whatever a publish raced with or died of: the served branch, and every tip
   and stash of an instance, is there with all the history that it reaches. *)
THEOREM NothingServedTooEarly == Spec => []HistoryComplete
<1>1. WholeInv => HistoryComplete
  BY DEF WholeInv, HistoryComplete, Carried, Whole
<1>2. QED BY <1>1, WholeInit, WholeStep, Types, PTL DEF Spec

-----------------------------------------------------------------------------
(* What has been pushed stays in reach of an instance.                      *)

(* The commits that one instance can name. *)
Reach(s) == UNION {Ancestors(c) : c \in s.stash \cup {s.tip}}

LEMMA ReachFacts ==
    /\ \A p \in Peer : Reach(inst[p]) \subseteq InReach
    /\ \A a \in InReach : \E p \in Peer : a \in Reach(inst[p])
  BY DEF Reach, InReach

(* What a publish still brings to the remote is in reach. *)
ObjectsWithin(o, reach) ==
    \A oc, ob, v, b, seen : AllToGo(o, oc, ob, v, b, seen) => oc \subseteq reach

ReachInv ==
    /\ remote.commits \ Inherited \subseteq InReach
    /\ \A p \in Peer : ObjectsWithin(op[p], InReach)

LEMMA ReachInit == Init => ReachInv
<1> SUFFICES ASSUME Init PROVE ReachInv
  OBVIOUS
<1>1. PICK c : remote = Served(c) /\ c \in IF setup.old THEN LegacyTips ELSE {NoCommit}
  BY DEF Init
<1>2. remote.commits = Ancestors(c)
  BY <1>1 DEF Served
<1>3. remote.commits \subseteq Inherited
  <2>1. CASE setup.old
    BY <1>1, <1>2, <2>1 DEF Inherited
  <2>2. CASE ~setup.old
    BY <1>1, <1>2, <2>2, NoCommitFacts
  <2>3. QED BY <2>1, <2>2
<1>4. ASSUME NEW p \in Peer PROVE ObjectsWithin(op[p], InReach)
  <2>1. op[p].name # "publish"
    BY DEF Init, Nothing
  <2>2. QED BY <2>1, NoStage DEF ObjectsWithin
<1>5. QED BY <1>3, <1>4 DEF ReachInv

(* No step takes a commit out of reach of its instance: a tip that a pull leaves
   is stashed, or it is an ancestor of the new one, and its history with it. *)
LEMMA ReachGrows ==
    ASSUME TypeInv, TypeInv', [Next]_vars
    PROVE  InReach \subseteq InReach'
<1>1. ASSUME NEW p \in Peer PROVE Reach(inst[p]) \subseteq Reach(inst'[p])
  <2>1. PICK s : s = inst[p]
    OBVIOUS
  <2>2. PICK r : r = inst'[p]
    OBVIOUS
  <2>3. CASE Stays(s, r)
    BY <2>1, <2>2, <2>3 DEF Stays, Reach
  <2>4. CASE Commits(s, r)
    BY <2>1, <2>2, <2>4, CommitsFacts DEF Reach
  <2>5. CASE Arrives(s, r, op[p].tip)
    <3>1. PICK c : c = op[p].tip
      OBVIOUS
    <3>2. r.tip = c /\ s.stash \subseteq r.stash
      BY <2>5, <3>1 DEF Arrives
    <3>3. s.tip = NoCommit \/ isAncestor(s.tip, c) \/ s.tip \in r.stash
      BY <2>5, <3>1 DEF Arrives
    <3>4. HistoryOK(c)
      BY <2>2, <3>2 DEF TypeInv, InstOK
    <3>5. Ancestors(s.tip) \subseteq Reach(r)
      <4>1. CASE s.tip = NoCommit
        BY <4>1, NoCommitFacts
      <4>2. CASE isAncestor(s.tip, c)
        BY <3>2, <3>4, <4>2 DEF isAncestor, HistoryOK, Reach
      <4>3. CASE s.tip \in r.stash
        BY <4>3 DEF Reach
      <4>4. QED BY <3>3, <4>1, <4>2, <4>3
    <3>6. \A d \in s.stash : Ancestors(d) \subseteq Reach(r)
      BY <3>2 DEF Reach
    <3>7. QED BY <2>1, <2>2, <3>5, <3>6 DEF Reach
  <2>6. QED BY <2>1, <2>2, <2>3, <2>4, <2>5, HistoryStep
<1>2. ASSUME NEW p \in Peer PROVE Reach(inst'[p]) \subseteq InReach'
  BY DEF Reach, InReach
<1>3. QED BY <1>1, <1>2, ReachFacts

LEMMA ReachStep == TypeInv /\ TypeInv' /\ ReachInv /\ [Next]_vars => ReachInv'
<1> SUFFICES ASSUME TypeInv, TypeInv', ReachInv, [Next]_vars PROVE ReachInv'
  OBVIOUS
<1>1. InReach \subseteq InReach'
  BY ReachGrows
<1>2. \A p \in Peer : ObjectsWithin(op[p], InReach')
  BY <1>1 DEF ReachInv, ObjectsWithin
<1>3. ObjectsWithin(Nothing, InReach')
  <2>1. Nothing.name # "publish"
    BY DEF Nothing
  <2>2. QED BY <2>1, NoStage DEF ObjectsWithin
<1>4. setup' = setup /\ Inherited' = Inherited
  <2>1. setup' = setup
    <3>1. CASE UNCHANGED vars
      BY <3>1 DEF vars
    <3>2. CASE Next
      BY <3>2, NextActs, InstFrame
         DEF Frame, push, publishWrites, gitPush, fetchFiles, fetchBranch, stop
    <3>3. QED BY <3>1, <3>2
  <2>2. QED BY <2>1 DEF Inherited
<1>5. remote.commits \ Inherited \subseteq InReach'
  BY <1>1 DEF ReachInv
<1> SUFFICES /\ remote'.commits \ Inherited \subseteq InReach'
             /\ \A p \in Peer : ObjectsWithin(op'[p], InReach')
  BY <1>4 DEF ReachInv
<1>6. CASE UNCHANGED vars
  BY <1>2, <1>5, <1>6 DEF vars
<1>7. CASE Next
  <2>1. PICK p \in Peer :
          \/ InstAct(p)
          \/ push(p) \/ publishWrites(p) \/ gitPush(p) \/ fetchFiles(p) \/ fetchBranch(p) \/ stop(p)
    BY <1>7, NextActs
  <2>2. ASSUME NEW o, op' = [op EXCEPT ![p] = o], ObjectsWithin(o, InReach')
        PROVE  \A q \in Peer : ObjectsWithin(op'[q], InReach')
    BY <1>2, <2>2, OpBecomes
  <2>3. CASE InstAct(p)
    <3>1. remote' = remote /\ (op' = op \/ op' = [op EXCEPT ![p] = Nothing])
      BY <2>3, InstFrame DEF Frame
    <3>2. QED BY <1>2, <1>3, <1>5, <2>2, <3>1
  <2>4. CASE push(p)
    <3>1. PICK o : op' = [op EXCEPT ![p] = o] /\ remote' = remote
      BY <2>4 DEF push
    <3>2. PICK s : s = inst[p]
      OBVIOUS
    <3>3. PICK seen : AllToGo(o, s.commits \cap Ancestors(s.tip), s.blobs \cap Blobs(s.tip),
                              s.lock, s.tip, seen)
      BY <2>4, <3>1, <3>2, PushStep, OpBecomes
    <3>4. Ancestors(s.tip) \subseteq InReach'
      BY <1>1, <3>2, ReachFacts DEF Reach
    <3>5. ObjectsWithin(o, InReach')
      BY <3>3, <3>4, Stages DEF ObjectsWithin
    <3>6. QED BY <1>5, <2>2, <3>1, <3>5
  <2>5. CASE publishWrites(p)
    <3>1. PICK oc, ob, v, b, seen :
           \/ /\ AllToGo(op[p], oc, ob, v, b, seen) /\ FilesToGo(op'[p], v, b, seen)
              /\ remote' = Remote(remote.commits \cup oc, remote.blobs \cup ob,
                                  remote.lock, remote.branch)
           \/ /\ FilesToGo(op[p], v, b, seen) /\ BranchToGo(op'[p], b, seen)
              /\ remote' = Remote(remote.commits, remote.blobs, v, remote.branch)
           \/ /\ BranchToGo(op[p], b, seen) /\ op'[p] = Nothing
              /\ remote' = Remote(remote.commits, remote.blobs, remote.lock, b)
      BY <2>5, WriteStep
    <3>2. PICK o : op' = [op EXCEPT ![p] = o]
      BY <2>5 DEF publishWrites
    <3>3. op'[p] = o
      BY <3>2, OpBecomes
    <3>4. remote'.commits \ Inherited \subseteq InReach'
      <4>1. CASE /\ AllToGo(op[p], oc, ob, v, b, seen)
                 /\ remote' = Remote(remote.commits \cup oc, remote.blobs \cup ob,
                                     remote.lock, remote.branch)
        <5>1. oc \subseteq InReach'
          BY <1>2, <4>1 DEF ObjectsWithin
        <5>2. QED BY <1>5, <4>1, <5>1 DEF Remote
      <4>2. CASE \E w, c : remote' = Remote(remote.commits, remote.blobs, w, c)
        BY <1>5, <4>2 DEF Remote
      <4>3. QED BY <3>1, <4>1, <4>2
    <3>5. ObjectsWithin(o, InReach')
      <4>1. FilesToGo(o, v, b, seen) \/ BranchToGo(o, b, seen) \/ o = Nothing
        BY <3>1, <3>3
      <4>2. CASE FilesToGo(o, v, b, seen) \/ BranchToGo(o, b, seen)
        BY <4>2, Stages DEF ObjectsWithin
      <4>3. QED BY <1>3, <4>1, <4>2
    <3>6. QED BY <2>2, <3>2, <3>4, <3>5
  <2>6. CASE gitPush(p)
    <3>1. PICK oc, ob, v, b, seen :
            /\ AllToGo(op[p], oc, ob, v, b, seen)
            /\ remote' = Remote(remote.commits \cup oc, remote.blobs \cup ob, v, b)
      BY <2>6, GitStep
    <3>2. oc \subseteq InReach' /\ remote'.commits = remote.commits \cup oc
      BY <1>2, <3>1 DEF ObjectsWithin, Remote
    <3>3. op' = [op EXCEPT ![p] = Nothing]
      BY <2>6 DEF gitPush
    <3>4. QED BY <1>3, <1>5, <2>2, <3>2, <3>3
  <2>7. CASE fetchFiles(p) \/ fetchBranch(p) \/ stop(p)
    <3>1. PICK o : op' = [op EXCEPT ![p] = o] /\ o.name # "publish" /\ remote' = remote
      BY <2>7, ReadStep
    <3>2. ObjectsWithin(o, InReach')
      BY <3>1, NoStage DEF ObjectsWithin
    <3>3. QED BY <1>5, <2>2, <3>1, <3>2
  <2>8. QED BY <2>1, <2>3, <2>4, <2>5, <2>6, <2>7
<1>8. QED BY <1>6, <1>7

(* Whoever pushes over whom, and wherever a transfer stops: every commit that a
   push has brought to the remote is in the history of a tip or of a stash. *)
THEOREM PushedStaysInReach == Spec => []PushedInReach
<1>1. ReachInv => PushedInReach
  BY DEF ReachInv, PushedInReach
<1>2. QED BY <1>1, ReachInit, ReachStep, Types, PTL DEF Spec

-----------------------------------------------------------------------------
(* What a pull vets is what it installs.                                    *)

(* The lock and the branch that a transfer carries belong together. *)
OpEven(o, r, g) ==
    /\ \A oc, ob, v, b, seen :
         /\ AllToGo(o, oc, ob, v, b, seen) => v = b.lock
         /\ FilesToGo(o, v, b, seen) => v = b.lock
         /\ BranchToGo(o, b, seen) => r.lock = b.lock
    /\ o.name = "fetch" =>
         /\ ~g => o.lock = r.lock
         /\ g => o.whole
         /\ o.whole => o.lock = o.tip.lock

(* So do those of the remote, save while a publish has only its branch to write;
   and who publishes to a served tree is alone with it. *)
EvenOps(o, r, g) ==
    /\ \A p \in Peer : OpEven(o[p], r, g)
    /\ (\A p \in Peer : \A b, seen : ~BranchToGo(o[p], b, seen)) => r.lock = r.branch.lock
    /\ ~g => \A p, q \in Peer : p # q /\ o[p].name = "publish" => o[q].name = "idle"

EvenInv == ~uneven => EvenOps(op, remote, setup.git)

LEMMA EvenIdle ==
    ASSUME NEW o, o.name = "idle", NEW r, NEW g PROVE OpEven(o, r, g)
<1>1. o.name # "publish" /\ o.name # "fetch"
  OBVIOUS
<1>2. QED BY <1>1, NoStage DEF OpEven

LEMMA EvenFetch ==
    ASSUME NEW v, NEW t, NEW w, NEW r, NEW g,
           ~g => v = r.lock, g => w, w => v = t.lock
    PROVE  OpEven(Fetch(v, t, w), r, g)
<1>1. PICK o : o = Fetch(v, t, w)
  OBVIOUS
<1>2. o.name = "fetch" /\ o.lock = v /\ o.tip = t /\ o.whole = w
  BY <1>1 DEF Fetch
<1>3. o.name # "publish"
  BY <1>2
<1>4. OpEven(o, r, g)
  BY <1>2, <1>3, NoStage DEF OpEven
<1>5. QED BY <1>1, <1>4

(* A push to git has all of it to write, or none. *)
LEMMA GitStage ==
    ASSUME TypeInv, setup.git, NEW p \in Peer, NEW b, NEW seen
    PROVE  ~BranchToGo(op[p], b, seen)
<1>1. CASE op[p].name = "publish"
  <2>1. PublishOK(op[p], setup.git)
    BY <1>1, OpName DEF TypeInv
  <2>2. PICK oc, ob, v, b2, seen2 : AllToGo(op[p], oc, ob, v, b2, seen2)
    BY <2>1 DEF PublishOK
  <2>3. QED BY <2>2, Stages
<1>2. CASE op[p].name # "publish"
  BY <1>2, NoStage
<1>3. QED BY <1>1, <1>2

(* A step that reads, or ends a transfer. *)
LEMMA EvenChange ==
    ASSUME TypeInv, EvenOps(op, remote, setup.git), NEW p \in Peer, NEW o,
           op' = [op EXCEPT ![p] = o], OpEven(o, remote, setup.git), o.name # "publish",
           setup.git \/ op[p].name # "publish",
           o.name = "idle" \/ setup.git \/ \A q \in Peer \ {p} : op[q].name # "publish"
    PROVE  EvenOps(op', remote, setup.git)
<1>1. op'[p] = o /\ \A q \in Peer \ {p} : op'[q] = op[q]
  BY OpBecomes
<1>2. \A q \in Peer : OpEven(op'[q], remote, setup.git)
  BY <1>1 DEF EvenOps
<1>3. ASSUME \A q \in Peer : \A b, seen : ~BranchToGo(op'[q], b, seen)
      PROVE  remote.lock = remote.branch.lock
  <2>1. \A b, seen : ~BranchToGo(op[p], b, seen)
    BY GitStage, NoStage
  <2>2. \A q \in Peer : \A b, seen : ~BranchToGo(op[q], b, seen)
    BY <1>1, <1>3, <2>1
  <2>3. QED BY <2>2 DEF EvenOps
<1>4. ASSUME ~setup.git, NEW q \in Peer, NEW r \in Peer, q # r, op'[q].name = "publish"
      PROVE  op'[r].name = "idle"
  <2>1. q # p /\ op[q].name = "publish"
    BY <1>1, <1>4
  <2>2. CASE r = p
    BY <1>1, <1>4, <2>1, <2>2
  <2>3. CASE r # p
    BY <1>1, <1>4, <2>1, <2>3 DEF EvenOps
  <2>4. QED BY <2>2, <2>3
<1>5. QED BY <1>2, <1>3, <1>4 DEF EvenOps

LEMMA EvenInit == Init => EvenInv
<1> SUFFICES ASSUME Init PROVE EvenInv
  OBVIOUS
<1>1. \A p \in Peer : op[p].name = "idle"
  BY DEF Init, Nothing
<1>2. remote.lock = remote.branch.lock
  BY DEF Init, Served
<1>3. QED BY <1>1, <1>2, EvenIdle DEF EvenInv, EvenOps


(* A push starts alone, and with the lock of its tip. *)
LEMMA EvenPush ==
    ASSUME TypeInv, EvenOps(op, remote, setup.git), NEW p \in Peer, push(p), ~uneven'
    PROVE  EvenOps(op', remote', setup.git)
<1>1. inst[p].lock = inst[p].tip.lock /\ (~setup.git => ~Watched(p)) /\ remote' = remote
  BY DEF push, git
<1>2. PICK oc, ob, v, b, seen : AllToGo(op'[p], oc, ob, v, b, seen) /\ v = b.lock
  BY <1>1, PushStep
<1>3. op'[p].name = "publish"
  BY <1>2 DEF AllToGo, Pub
<1>4. OpEven(op'[p], remote, setup.git)
  BY <1>2, <1>3, Stages DEF OpEven
<1>5. op[p].name = "idle" /\ \E o : op' = [op EXCEPT ![p] = o]
  BY DEF push, Idle
<1>6. \A q \in Peer \ {p} : op'[q] = op[q]
  BY <1>5, OpBecomes
<1>7. \A q \in Peer : OpEven(op'[q], remote, setup.git)
  BY <1>4, <1>6 DEF EvenOps
<1>8. ASSUME \A q \in Peer : \A b2, seen2 : ~BranchToGo(op'[q], b2, seen2)
      PROVE  remote.lock = remote.branch.lock
  <2>1. \A b2, seen2 : ~BranchToGo(op[p], b2, seen2)
    BY <1>5, NoStage
  <2>2. \A q \in Peer : \A b2, seen2 : ~BranchToGo(op[q], b2, seen2)
    BY <1>6, <1>8, <2>1
  <2>3. QED BY <2>2 DEF EvenOps
<1>9. ASSUME ~setup.git, NEW q \in Peer, NEW r \in Peer, q # r, op'[q].name = "publish"
      PROVE  op'[r].name = "idle"
  <2>1. \A s \in Peer \ {p} : op[s].name = "idle"
    <3>1. \A s \in Peer \ {p} : op[s].name # "publish" /\ op[s].name # "fetch"
      BY <1>1, <1>9 DEF Watched, Publishing, Fetching
    <3>2. QED BY <3>1, OpName DEF TypeInv
  <2>2. q = p
    BY <1>6, <1>9, <2>1
  <2>3. QED BY <1>6, <1>9, <2>1, <2>2
<1>10. EvenOps(op', remote, setup.git)
  BY <1>7, <1>8, <1>9 DEF EvenOps
<1>11. QED BY <1>1, <1>10

(* A write to a served tree, which nobody else reads or writes. *)
LEMMA EvenWrite ==
    ASSUME TypeInv, EvenOps(op, remote, setup.git), NEW p \in Peer, publishWrites(p)
    PROVE  EvenOps(op', remote', setup.git)
<1>1. op[p].name = "publish" /\ ~setup.git
  BY DEF publishWrites, Publishing, git
<1>2. PICK oc, ob, v, b, seen :
         \/ /\ AllToGo(op[p], oc, ob, v, b, seen) /\ FilesToGo(op'[p], v, b, seen)
            /\ remote' = Remote(remote.commits \cup oc, remote.blobs \cup ob,
                                remote.lock, remote.branch)
         \/ /\ FilesToGo(op[p], v, b, seen) /\ BranchToGo(op'[p], b, seen)
            /\ remote' = Remote(remote.commits, remote.blobs, v, remote.branch)
         \/ /\ BranchToGo(op[p], b, seen) /\ op'[p] = Nothing
            /\ remote' = Remote(remote.commits, remote.blobs, remote.lock, b)
  BY WriteStep
<1>3. \A q \in Peer \ {p} : op'[q] = op[q] /\ op'[q].name = "idle"
  <2>1. \A q \in Peer \ {p} : op'[q] = op[q]
    BY OpBecomes DEF publishWrites
  <2>2. QED BY <1>1, <2>1 DEF EvenOps
<1>4. \A q \in Peer \ {p} : OpEven(op'[q], remote', setup.git)
  BY <1>3, EvenIdle
<1>5. \A q, r \in Peer : q # r /\ op'[q].name = "publish" => op'[r].name = "idle"
  BY <1>3
<1>6. OpEven(op[p], remote, setup.git)
  BY DEF EvenOps
<1>7. CASE /\ AllToGo(op[p], oc, ob, v, b, seen) /\ FilesToGo(op'[p], v, b, seen)
           /\ remote' = Remote(remote.commits \cup oc, remote.blobs \cup ob,
                               remote.lock, remote.branch)
  <2>1. v = b.lock
    BY <1>6, <1>7 DEF OpEven
  <2>2. op'[p].name = "publish"
    BY <1>7 DEF FilesToGo, Pub
  <2>3. OpEven(op'[p], remote', setup.git)
    BY <1>7, <2>1, <2>2, Stages DEF OpEven
  <2>4. remote.lock = remote.branch.lock
    <3>1. \A c, w : ~BranchToGo(op[p], c, w)
      BY <1>7, Stages
    <3>2. \A q \in Peer : \A c, w : ~BranchToGo(op[q], c, w)
      <4>1. ASSUME NEW q \in Peer \ {p} PROVE op[q].name # "publish"
        BY <1>3
      <4>2. QED BY <3>1, <4>1, NoStage
    <3>3. QED BY <3>2 DEF EvenOps
  <2>5. remote'.lock = remote'.branch.lock
    BY <1>7, <2>4 DEF Remote
  <2>6. QED BY <1>4, <1>5, <2>3, <2>5 DEF EvenOps
<1>8. CASE /\ FilesToGo(op[p], v, b, seen) /\ BranchToGo(op'[p], b, seen)
           /\ remote' = Remote(remote.commits, remote.blobs, v, remote.branch)
  <2>1. v = b.lock
    BY <1>6, <1>8 DEF OpEven
  <2>2. op'[p].name = "publish"
    BY <1>8 DEF BranchToGo, Pub
  <2>3. remote'.lock = v
    BY <1>8 DEF Remote
  <2>4. OpEven(op'[p], remote', setup.git)
    BY <1>8, <2>1, <2>2, <2>3, Stages DEF OpEven
  <2>5. QED BY <1>4, <1>5, <1>8, <2>4 DEF EvenOps
<1>9. CASE /\ BranchToGo(op[p], b, seen) /\ op'[p] = Nothing
           /\ remote' = Remote(remote.commits, remote.blobs, remote.lock, b)
  <2>1. remote.lock = b.lock
    BY <1>6, <1>9 DEF OpEven
  <2>2. op'[p].name = "idle"
    BY <1>9 DEF Nothing
  <2>3. OpEven(op'[p], remote', setup.git)
    BY <2>2, EvenIdle
  <2>4. remote'.lock = remote'.branch.lock
    BY <1>9, <2>1 DEF Remote
  <2>5. QED BY <1>4, <1>5, <2>3, <2>4 DEF EvenOps
<1>10. QED BY <1>2, <1>7, <1>8, <1>9

LEMMA EvenGit ==
    ASSUME TypeInv, EvenOps(op, remote, setup.git), NEW p \in Peer, gitPush(p)
    PROVE  EvenOps(op', remote', setup.git)
<1>1. setup.git /\ op' = [op EXCEPT ![p] = Nothing]
  BY DEF gitPush, git
<1>2. PICK oc, ob, v, b, seen :
        /\ AllToGo(op[p], oc, ob, v, b, seen)
        /\ remote' = Remote(remote.commits \cup oc, remote.blobs \cup ob, v, b)
  BY GitStep
<1>3. v = b.lock
  BY <1>2 DEF EvenOps, OpEven
<1>4. remote'.lock = remote'.branch.lock
  BY <1>2, <1>3 DEF Remote
<1>5. \A q \in Peer : OpEven(op'[q], remote', setup.git)
  <2>1. op'[p].name = "idle" /\ \A q \in Peer \ {p} : op'[q] = op[q]
    BY <1>1, OpBecomes DEF Nothing
  <2>2. ASSUME NEW q \in Peer \ {p} PROVE OpEven(op[q], remote', setup.git)
    <3>1. OpEven(op[q], remote, setup.git)
      BY DEF EvenOps
    <3>2. \A c, w : ~BranchToGo(op[q], c, w)
      BY <1>1, GitStage
    <3>3. QED BY <1>1, <3>1, <3>2 DEF OpEven
  <2>3. QED BY <2>1, <2>2, EvenIdle
<1>6. QED BY <1>1, <1>4, <1>5 DEF EvenOps

(* A fetch reads a lock and a branch that belong together. *)
LEMMA EvenRead ==
    ASSUME TypeInv, EvenOps(op, remote, setup.git), NEW p \in Peer,
           fetchFiles(p) \/ fetchBranch(p) \/ stop(p), ~uneven'
    PROVE  EvenOps(op', remote', setup.git)
<1>0. remote' = remote /\ setup.git \in BOOLEAN
  BY Setup DEF fetchFiles, fetchBranch, stop
<1>1. CASE fetchFiles(p)
  <2>1. PICK t : t = IF setup.git THEN remote.branch ELSE NoCommit
    OBVIOUS
  <2>2. op' = [op EXCEPT ![p] = Fetch(remote.lock, t, setup.git)]
    BY <1>1, <2>1 DEF fetchFiles, Fetch, git
  <2>3. op[p].name = "idle"
    BY <1>1 DEF fetchFiles, Idle
  <2>4. setup.git \/ \A q \in Peer \ {p} : op[q].name # "publish"
    BY <1>1 DEF fetchFiles, Overlapped, Publishing, git
  <2>5. setup.git => remote.lock = t.lock
    BY <2>1, GitStage DEF EvenOps
  <2>6. OpEven(Fetch(remote.lock, t, setup.git), remote, setup.git)
    BY <2>5, EvenFetch
  <2>7. PICK o : o = Fetch(remote.lock, t, setup.git)
    OBVIOUS
  <2>8. o.name # "publish"
    BY <2>7 DEF Fetch
  <2>9. EvenOps(op', remote, setup.git)
    BY <2>2, <2>3, <2>4, <2>6, <2>7, <2>8, EvenChange
  <2>10. QED BY <1>0, <2>9
<1>2. CASE fetchBranch(p)
  <2>1. op[p].name = "fetch" /\ ~op[p].whole
    BY <1>2 DEF fetchBranch, Fetching
  <2>2. ~setup.git /\ op[p].lock = remote.lock
    BY <2>1 DEF EvenOps, OpEven
  <2>3. \A q \in Peer : op[q].name # "publish"
    BY <2>1, <2>2 DEF EvenOps
  <2>4. remote.lock = remote.branch.lock
    <3>1. \A q \in Peer : \A b, seen : ~BranchToGo(op[q], b, seen)
      BY <2>3, NoStage
    <3>2. QED BY <3>1 DEF EvenOps
  <2>5. op' = [op EXCEPT ![p] = Fetch(remote.lock, remote.branch, TRUE)]
    BY <1>2, <2>2 DEF fetchBranch, Fetch
  <2>6. OpEven(Fetch(remote.lock, remote.branch, TRUE), remote, setup.git)
    BY <2>4, EvenFetch
  <2>7. PICK o : o = Fetch(remote.lock, remote.branch, TRUE)
    OBVIOUS
  <2>8. o.name # "publish"
    BY <2>7 DEF Fetch
  <2>9. EvenOps(op', remote, setup.git)
    BY <2>3, <2>5, <2>6, <2>7, <2>8, EvenChange
  <2>10. QED BY <1>0, <2>9
<1>3. CASE stop(p)
  <2>1. op' = [op EXCEPT ![p] = Nothing] /\ (setup.git \/ op[p].name # "publish")
    BY <1>3 DEF stop, Publishing, git
  <2>2. Nothing.name = "idle"
    BY DEF Nothing
  <2>3. EvenOps(op', remote, setup.git)
    BY <2>1, <2>2, EvenIdle, EvenChange
  <2>4. QED BY <1>0, <2>3
<1>4. QED BY <1>1, <1>2, <1>3

LEMMA EvenStep == TypeInv /\ EvenInv /\ [Next]_vars => EvenInv'
<1> SUFFICES ASSUME TypeInv, EvenInv, [Next]_vars, ~uneven'
             PROVE  EvenOps(op', remote', setup'.git)
  BY DEF EvenInv
<1>1. CASE UNCHANGED vars
  BY <1>1 DEF vars, EvenInv
<1>2. CASE Next
  <2>1. PICK p \in Peer :
          \/ InstAct(p)
          \/ push(p) \/ publishWrites(p) \/ gitPush(p) \/ fetchFiles(p) \/ fetchBranch(p) \/ stop(p)
    BY <1>2, NextActs
  <2>2. setup' = setup
    BY <2>1, InstFrame DEF Frame, push, publishWrites, gitPush, fetchFiles, fetchBranch, stop
  <2>3. ~uneven
    BY <2>1, InstFrame DEF Frame, push, publishWrites, gitPush, fetchFiles, fetchBranch, stop
  <2>4. EvenOps(op, remote, setup.git)
    BY <2>3 DEF EvenInv
  <2>5. CASE InstAct(p)
    <3>1. remote' = remote /\ (op' = op \/ (Fetching(p) /\ op' = [op EXCEPT ![p] = Nothing]))
      BY <2>5, InstFrame DEF Frame
    <3>2. CASE op' = op
      BY <2>2, <2>4, <3>1, <3>2
    <3>3. CASE Fetching(p) /\ op' = [op EXCEPT ![p] = Nothing]
      <4>1. op[p].name # "publish"
        BY <3>3 DEF Fetching
      <4>2. Nothing.name = "idle"
        BY DEF Nothing
      <4>3. EvenOps(op', remote, setup.git)
        BY <2>4, <3>3, <4>1, <4>2, EvenIdle, EvenChange
      <4>4. QED BY <2>2, <3>1, <4>3
    <3>4. QED BY <3>1, <3>2, <3>3
  <2>6. EvenOps(op', remote', setup.git)
    <3>1. CASE InstAct(p)
      BY <2>2, <2>5, <3>1
    <3>2. CASE push(p)
      BY <2>4, <3>2, EvenPush
    <3>3. CASE publishWrites(p)
      BY <2>4, <3>3, EvenWrite
    <3>4. CASE gitPush(p)
      BY <2>4, <3>4, EvenGit
    <3>5. CASE fetchFiles(p) \/ fetchBranch(p) \/ stop(p)
      BY <2>4, <3>5, EvenRead
    <3>6. QED BY <2>1, <3>1, <3>2, <3>3, <3>4, <3>5
  <2>7. QED BY <2>2, <2>6
<1>3. QED BY <1>1, <1>2

(* Unless a publish was uneven, the lock that a pull has vetted, and whose replay
   paths it claims, is the lock of the commit that it installs. *)
THEOREM VettedLocksAreInstalled == Spec => []VettedIsInstalled
<1>1. EvenInv => VettedIsInstalled
  BY DEF EvenInv, EvenOps, OpEven, VettedIsInstalled, Landing, Fetching
<1>2. QED BY <1>1, EvenInit, EvenStep, Types, PTL DEF Spec


-----------------------------------------------------------------------------
(* Replay bytes stay home.                                                  *)

(* An instance keeps no replay bytes among its objects, and its branch no
   entry for such bytes that its own locks do not pin. *)
InstHome(s, p, W, M, R) ==
    /\ s.blobs \cap Replay = {} /\ Pinned(s.tip)
    /\ FilesOK(s, p, W, M)
    /\ p \notin R => Filled(s)

(* A transfer carries no replay bytes, and only pinned histories. *)
OpHome(o) ==
    /\ \A oc, ob, v, b, seen :
         /\ AllToGo(o, oc, ob, v, b, seen) => ob \cap Replay = {} /\ Pinned(b)
         /\ FilesToGo(o, v, b, seen) => Pinned(b)
         /\ BranchToGo(o, b, seen) => Pinned(b)
    /\ o.name = "fetch" => Pinned(o.tip)

RemoteHome(r) == r.blobs \cap Replay \subseteq legacy /\ Pinned(r.branch)

HomeInv ==
    ~Blind =>
        /\ RemoteHome(remote)
        /\ \A p \in Peer : InstHome(inst[p], p, wiped, moved, refilled) /\ OpHome(op[p])

LEMMA NoCommitPinned == Pinned(NoCommit)
  BY NoCommitFacts DEF Pinned

LEMMA FilesMonotonic ==
    ASSUME NEW s, NEW p, NEW W, NEW M, NEW W2, NEW M2, FilesOK(s, p, W, M),
           W \subseteq W2, M \subseteq M2
    PROVE  FilesOK(s, p, W2, M2)
  BY DEF FilesOK

(* After a build whoever is not marked as refilled has a cache that answers. *)
LEMMA RefillFacts ==
    ASSUME NEW p \in Peer, Refill(p), p \notin refilled', InstOK(inst'[p])
    PROVE  Filled(inst'[p])
<1>1. PICK r : r = inst'[p]
  OBVIOUS
<1>2. ~(r.cache # {} /\ ~(Range(r.tree) \cap Replay \subseteq r.cache))
  BY <1>1 DEF Refill
<1>3. \A f \in Path : r.tree[f] \in Range(r.tree)
  BY <1>1 DEF InstOK, Range
<1>4. QED BY <1>1, <1>2, <1>3 DEF Filled

(* What the actions of an instance do to the two instruments. *)
LEMMA HomeAct ==
    ASSUME TypeInv, NEW p \in Peer, InstAct(p), FilesOK(inst[p], p, wiped, moved),
           p \notin refilled => Filled(inst[p])
    PROVE  \E t : /\ t = NoCommit \/ (Fetching(p) /\ t = op[p].tip)
                  /\ InstStep(inst[p], inst'[p], t)
                  /\ Pinned(t) => /\ FilesOK(inst'[p], p, wiped', moved')
                                  /\ p \notin refilled' => Filled(inst'[p])
<1> DEFINE Seen == /\ FilesOK(inst'[p], p, wiped', moved')
                   /\ p \notin refilled' => Filled(inst'[p])
           Done == InstStep(inst[p], inst'[p], NoCommit) /\ Seen
<1>0. InstOK(inst[p])
  BY DEF TypeInv
<1>1. ASSUME NEW t PROVE Arrives(inst[p], inst'[p], t) => t # NoCommit
  BY DEF Arrives
<1>2. ASSUME FilesStep(inst[p], inst'[p], p, NoCommit)
      PROVE  FilesOK(inst'[p], p, wiped, moved)
  BY <1>1, <1>2 DEF FilesStep
<1>3. ASSUME NEW f \in Path, NEW c \in Own \cup {None}, Edit(p, f, c) PROVE Done
  <2>1. /\ InstOK(inst'[p]) /\ Stays(inst[p], inst'[p])
        /\ inst'[p].cache = inst[p].cache /\ inst'[p].ledger = inst[p].ledger
        /\ \A g \in Path : inst'[p].tree[g] = inst[p].tree[g] \/ inst'[p].tree[g] \notin Replay
    BY <1>3, EditFacts
  <2>2. wiped' = wiped /\ moved' = moved /\ refilled' = refilled
    BY <1>3 DEF Edit, blindness
  <2>3. FilesOK(inst'[p], p, wiped, moved)
    BY <2>1 DEF FilesOK
  <2>4. Filled(inst[p]) => Filled(inst'[p])
    BY <2>1 DEF Filled
  <2>5. QED BY <2>1, <2>2, <2>3, <2>4 DEF InstStep
<1>4. ASSUME NEW f \in Path, NEW g \in Path, Move(p, f, g) PROVE Done
  <2>1. /\ InstOK(inst'[p]) /\ Stays(inst[p], inst'[p])
        /\ inst'[p].cache = inst[p].cache /\ inst[p].tree[f] \in Replay
        /\ \A h \in Path : inst'[p].tree[h] \in {inst[p].tree[h], inst[p].tree[f], None}
    BY <1>4, MoveFacts
  <2>2. wiped' = wiped /\ moved' = moved \cup {p} /\ refilled' = refilled
    BY <1>4 DEF Move
  <2>3. None \notin Replay
    BY RemoteAssumption DEF Content
  <2>4. FilesOK(inst'[p], p, wiped', moved')
    <3>1. p \in Keyed
      BY <2>1 DEF FilesOK
    <3>2. p \notin wiped => \A h \in Path : inst'[p].tree[h] \in Replay => inst'[p].tree[h] \in inst'[p].cache
      BY <2>1, <2>3 DEF FilesOK
    <3>3. QED BY <2>2, <3>1, <3>2 DEF FilesOK
  <2>5. Filled(inst[p]) => Filled(inst'[p])
    BY <2>1, <2>3 DEF Filled
  <2>6. QED BY <2>1, <2>2, <2>4, <2>5 DEF InstStep
<1>5. ASSUME NEW v \in Version, Relock(p, v) PROVE Done
  <2>1. /\ InstOK(inst'[p]) /\ Stays(inst[p], inst'[p]) /\ inst'[p].cache = inst[p].cache
        /\ inst'[p].ledger = inst[p].ledger /\ inst'[p].tree = inst[p].tree
    BY <1>5, RelockFacts
  <2>2. wiped' = wiped /\ moved' = moved /\ refilled' = refilled
    BY <1>5 DEF Relock, blindness
  <2>3. QED BY <2>1, <2>2, SameFiles DEF InstStep
<1>6. CASE Wipe(p)
  <2>1. /\ InstOK(inst'[p]) /\ Stays(inst[p], inst'[p]) /\ inst'[p].cache = {}
        /\ inst'[p].ledger = inst[p].ledger /\ inst'[p].tree = inst[p].tree
    BY <1>6, WipeFacts
  <2>2. wiped' = wiped \cup {p} /\ moved' = moved /\ refilled' = refilled
    BY <1>6 DEF Wipe
  <2>3. FilesOK(inst'[p], p, wiped', moved')
    BY <2>1, <2>2 DEF FilesOK
  <2>4. Filled(inst'[p])
    BY <2>1 DEF Filled
  <2>5. QED BY <2>1, <2>3, <2>4 DEF InstStep
<1>7. CASE Protect(p)
  <2>1. /\ InstOK(inst'[p]) /\ Stays(inst[p], inst'[p]) /\ inst'[p].cache = inst[p].cache
        /\ inst'[p].ledger = inst[p].ledger /\ inst'[p].tree = inst[p].tree
    BY <1>7, ProtectFacts
  <2>2. wiped' = wiped /\ moved' = moved /\ refilled' = refilled
    BY <1>7 DEF Protect, blindness
  <2>3. QED BY <2>1, <2>2, SameFiles DEF InstStep
<1>8. CASE Build(p)
  <2>1. InstStep(inst[p], inst'[p], NoCommit) /\ FilesStep(inst[p], inst'[p], p, NoCommit)
    BY <1>8, BuildStep
  <2>2. Refill(p) /\ wiped' = wiped /\ moved' = moved
    BY <1>8 DEF Build
  <2>3. QED BY <1>2, <2>1, <2>2, RefillFacts DEF InstStep
<1>9. CASE Commit(p)
  <2>1. /\ InstStep(inst[p], inst'[p], NoCommit) /\ FilesStep(inst[p], inst'[p], p, NoCommit)
        /\ inst'[p].tree = inst[p].tree /\ inst'[p].cache = inst[p].cache
    BY <1>9, CommitIsStep
  <2>2. wiped' = wiped /\ moved' = moved /\ refilled' = refilled
    BY <1>9 DEF Commit, blindness
  <2>3. Filled(inst[p]) => Filled(inst'[p])
    BY <2>1 DEF Filled
  <2>4. QED BY <1>2, <2>1, <2>2, <2>3
<1>10. CASE pullUpToDate(p)
  <2>1. /\ InstStep(inst[p], inst'[p], NoCommit) /\ FilesStep(inst[p], inst'[p], p, NoCommit)
        /\ inst'[p].tree = inst[p].tree /\ inst'[p].cache = inst[p].cache
    BY <1>10, UpToDateStep
  <2>2. wiped' = wiped /\ moved' = moved /\ refilled' = refilled
    BY <1>10 DEF pullUpToDate, blindness
  <2>3. Filled(inst[p]) => Filled(inst'[p])
    BY <2>1 DEF Filled
  <2>4. QED BY <1>2, <2>1, <2>2, <2>3
<1>11. CASE pullStatic(p)
  <2>1. InstStep(inst[p], inst'[p], NoCommit) /\ FilesStep(inst[p], inst'[p], p, NoCommit)
    BY <1>11, StaticStep
  <2>2. Refill(p) /\ wiped' = wiped /\ moved' = moved
    BY <1>11 DEF pullStatic
  <2>3. QED BY <1>2, <2>1, <2>2, RefillFacts DEF InstStep
<1>12. ASSUME InstStep(inst[p], inst'[p], op[p].tip), FilesStep(inst[p], inst'[p], p, op[p].tip),
              \E s : Land(p, s), Pinned(op[p].tip)
       PROVE  Seen
  <2>1. Refill(p) /\ wiped' = wiped /\ moved' = moved
    BY <1>12 DEF Land
  <2>2. FilesOK(inst'[p], p, wiped, moved)
    BY <1>12 DEF FilesStep
  <2>3. QED BY <1>12, <2>1, <2>2, RefillFacts DEF InstStep
<1>13. CASE cloneInstance(p)
  <2>1. Fetching(p) /\ \E s : Land(p, s)
    BY <1>13 DEF cloneInstance, Landing
  <2>2. InstStep(inst[p], inst'[p], op[p].tip) /\ FilesStep(inst[p], inst'[p], p, op[p].tip)
    BY <1>13, CloneStep
  <2>3. Pinned(op[p].tip) => Seen
    BY <1>12, <2>1, <2>2
  <2>4. QED BY <2>1, <2>2, <2>3
<1>14. CASE pullInstance(p)
  <2>1. Fetching(p) /\ \E s : Land(p, s)
    BY <1>14 DEF pullInstance, Landing
  <2>2. InstStep(inst[p], inst'[p], op[p].tip) /\ FilesStep(inst[p], inst'[p], p, op[p].tip)
    BY <1>14, PullStep
  <2>3. Pinned(op[p].tip) => Seen
    BY <1>12, <2>1, <2>2
  <2>4. QED BY <2>1, <2>2, <2>3
<1>15. CASE Done
  BY <1>15
<1>16. QED BY <1>3, <1>4, <1>5, <1>6, <1>7, <1>8, <1>9, <1>10, <1>11, <1>13, <1>14, <1>15 DEF InstAct


LEMMA HomeIdle ==
    ASSUME NEW o, o.name = "idle" PROVE OpHome(o)
<1>1. o.name # "publish" /\ o.name # "fetch"
  OBVIOUS
<1>2. QED BY <1>1, NoStage DEF OpHome

LEMMA HomeInit == Init => HomeInv
<1> SUFFICES ASSUME Init PROVE HomeInv
  OBVIOUS
<1>1. PICK c : /\ remote = Served(c) /\ legacy = Blobs(c)
               /\ c \in LegacyTips \/ c = NoCommit
  BY DEF Init
<1>2. Pinned(c)
  <2>1. CASE c \in LegacyTips
    <3>1. PICK t : t = [p \in {} |-> None]
      OBVIOUS
    <3>2. PICK v \in Version, w \in Version :
            c = MakeCommit(MakeCommit(NoCommit, v, t), w, RowsOf(v))
      BY <2>1, <3>1 DEF LegacyTips, Apart
    <3>3. PICK d : d = MakeCommit(NoCommit, v, t)
      OBVIOUS
    <3>4. Blobs(d) = Range(t) \cup Blobs(NoCommit)
          /\ replayPinsOf(d) = Range(RowsOf(v)) \cup replayPinsOf(NoCommit)
      BY <3>3, MakeCommitFacts
    <3>5. Blobs(d) = {} /\ Range(RowsOf(v)) \subseteq replayPinsOf(d)
      BY <3>1, <3>4, NoCommitFacts DEF Range
    <3>6. Blobs(c) = Range(RowsOf(v)) \cup Blobs(d)
          /\ replayPinsOf(c) = Range(RowsOf(w)) \cup replayPinsOf(d)
      BY <3>2, <3>3, MakeCommitFacts
    <3>7. QED BY <3>5, <3>6 DEF Pinned
  <2>2. CASE c = NoCommit
    BY <2>2, NoCommitPinned
  <2>3. QED BY <1>1, <2>1, <2>2
<1>3. RemoteHome(remote)
  BY <1>1, <1>2 DEF RemoteHome, Served
<1>4. ASSUME NEW p \in Peer PROVE InstHome(inst[p], p, wiped, moved, refilled)
  <2>1. /\ inst[p].tip = NoCommit /\ inst[p].blobs = {}
        /\ inst[p].cache = {} /\ \A f \in Path : inst[p].tree[f] = None
    BY InitInst
  <2>2. None \notin Replay
    BY RemoteAssumption DEF Content
  <2>3. FilesOK(inst[p], p, wiped, moved) /\ Filled(inst[p])
    BY <2>1, <2>2 DEF FilesOK, Filled
  <2>4. QED BY <2>1, <2>3, NoCommitPinned DEF InstHome
<1>5. ASSUME NEW p \in Peer PROVE OpHome(op[p])
  <2>1. op[p].name = "idle"
    BY DEF Init, Nothing
  <2>2. QED BY <2>1, HomeIdle
<1>6. QED BY <1>3, <1>4, <1>5 DEF HomeInv

(* An instance keeps the rule in whatever it does to its history. *)
LEMMA HomeInst ==
    ASSUME TypeInv, TypeInv', NEW p \in Peer, InstAct(p), ~Blind,
           InstHome(inst[p], p, wiped, moved, refilled), OpHome(op[p])
    PROVE  InstHome(inst'[p], p, wiped', moved', refilled')
<1>1. PICK s : s = inst[p]
  OBVIOUS
<1>2. PICK r : r = inst'[p]
  OBVIOUS
<1>3. PICK t : /\ t = NoCommit \/ (Fetching(p) /\ t = op[p].tip)
               /\ InstStep(s, r, t)
               /\ Pinned(t) => /\ FilesOK(r, p, wiped', moved')
                               /\ p \notin refilled' => Filled(r)
  BY <1>1, <1>2, HomeAct DEF InstHome
<1>4. Pinned(t)
  BY <1>3, NoCommitPinned DEF OpHome, Fetching
<1>5. ~(p \in wiped /\ (p \in moved \/ p \in refilled))
  BY DEF Blind
<1>6. /\ s.blobs \cap Replay = {} /\ Pinned(s.tip) /\ FilesOK(s, p, wiped, moved)
      /\ p \notin refilled => Filled(s)
  BY <1>1 DEF InstHome
<1>7. r.blobs \cap Replay = {} /\ Pinned(r.tip)
  <2>1. CASE Stays(s, r)
    BY <1>6, <2>1 DEF Stays
  <2>2. CASE Commits(s, r)
    <3>1. PICK u : /\ InstOK(u) /\ u.tree = s.tree /\ u.cache = s.cache /\ s.ledger \subseteq u.ledger
                   /\ r.blobs = s.blobs \cup Range(trackWorktree(u))
                   /\ Blobs(r.tip) = Range(trackWorktree(u)) \cup Blobs(s.tip)
                   /\ replayPinsOf(r.tip) = Range(RowsOf(u.lock)) \cup replayPinsOf(s.tip)
      BY <2>2, CommitsFacts
    <3>2. FilesOK(u, p, wiped, moved) /\ (p \notin refilled => Filled(u))
      BY <1>6, <3>1, SameFiles
    <3>3. Range(trackWorktree(u)) \cap Replay = {}
      BY <1>5, <3>1, <3>2, CleanTrack
    <3>4. QED BY <1>6, <3>1, <3>3 DEF Pinned
  <2>3. CASE Arrives(s, r, t)
    BY <1>4, <1>6, <2>3 DEF Arrives, Refused, Pinned
  <2>4. QED BY <1>3, <2>1, <2>2, <2>3 DEF InstStep
<1>8. QED BY <1>2, <1>3, <1>4, <1>7 DEF InstHome

(* One stage of a publish decides about all three. *)
LEMMA HomeStage ==
    ASSUME NEW o, NEW oc, NEW ob, NEW v, NEW b, NEW seen, Pinned(b), o.name = "publish",
           \/ AllToGo(o, oc, ob, v, b, seen) /\ ob \cap Replay = {}
           \/ FilesToGo(o, v, b, seen)
           \/ BranchToGo(o, b, seen)
    PROVE  OpHome(o)
<1>1. ASSUME NEW oc2, NEW ob2, NEW v2, NEW b2, NEW seen2, AllToGo(o, oc2, ob2, v2, b2, seen2)
      PROVE  ob2 \cap Replay = {} /\ Pinned(b2)
  <2>1. AllToGo(o, oc, ob, v, b, seen) /\ ob \cap Replay = {}
    BY <1>1, Stages
  <2>2. ob2 = ob /\ b2 = b
    BY <1>1, <2>1, Stages
  <2>3. QED BY <2>1, <2>2
<1>2. ASSUME NEW v2, NEW b2, NEW seen2, FilesToGo(o, v2, b2, seen2) PROVE Pinned(b2)
  <2>1. FilesToGo(o, v, b, seen)
    BY <1>2, Stages
  <2>2. b2 = b
    BY <1>2, <2>1, Stages
  <2>3. QED BY <2>2
<1>3. ASSUME NEW b2, NEW seen2, BranchToGo(o, b2, seen2) PROVE Pinned(b2)
  <2>1. BranchToGo(o, b, seen)
    BY <1>3, Stages
  <2>2. b2 = b
    BY <1>3, <2>1, Stages
  <2>3. QED BY <2>2
<1>4. o.name # "fetch"
  OBVIOUS
<1>5. QED BY <1>1, <1>2, <1>3, <1>4 DEF OpHome

(* A transfer takes its history from an instance or from the remote. *)
LEMMA HomeOp ==
    ASSUME TypeInv, NEW p \in Peer, RemoteHome(remote), OpHome(op[p]),
           InstHome(inst[p], p, wiped, moved, refilled),
           push(p) \/ publishWrites(p) \/ gitPush(p) \/ fetchFiles(p) \/ fetchBranch(p) \/ stop(p)
    PROVE  OpHome(op'[p]) /\ RemoteHome(remote')
<1>1. OpHome(Nothing)
  BY HomeIdle DEF Nothing
<1>2. CASE push(p)
  <2>1. PICK s : s = inst[p]
    OBVIOUS
  <2>2. PICK seen : AllToGo(op'[p], s.commits \cap Ancestors(s.tip), s.blobs \cap Blobs(s.tip),
                            s.lock, s.tip, seen)
    BY <1>2, <2>1, PushStep
  <2>3. (s.blobs \cap Blobs(s.tip)) \cap Replay = {} /\ Pinned(s.tip)
    BY <2>1 DEF InstHome
  <2>4. op'[p].name = "publish"
    BY <2>2 DEF AllToGo, Pub
  <2>5. OpHome(op'[p])
    BY <2>2, <2>3, <2>4, HomeStage
  <2>6. QED BY <1>2, <2>5 DEF push
<1>3. CASE publishWrites(p)
  <2>1. PICK oc, ob, v, b, seen :
         \/ /\ AllToGo(op[p], oc, ob, v, b, seen) /\ FilesToGo(op'[p], v, b, seen)
            /\ remote' = Remote(remote.commits \cup oc, remote.blobs \cup ob,
                                remote.lock, remote.branch)
         \/ /\ FilesToGo(op[p], v, b, seen) /\ BranchToGo(op'[p], b, seen)
            /\ remote' = Remote(remote.commits, remote.blobs, v, remote.branch)
         \/ /\ BranchToGo(op[p], b, seen) /\ op'[p] = Nothing
            /\ remote' = Remote(remote.commits, remote.blobs, remote.lock, b)
    BY <1>3, WriteStep
  <2>2. legacy' = legacy
    BY <1>3 DEF publishWrites
  <2>3. CASE /\ AllToGo(op[p], oc, ob, v, b, seen) /\ FilesToGo(op'[p], v, b, seen)
             /\ remote' = Remote(remote.commits \cup oc, remote.blobs \cup ob,
                                 remote.lock, remote.branch)
    <3>1. ob \cap Replay = {} /\ Pinned(b)
      BY <2>3 DEF OpHome
    <3>2. op'[p].name = "publish"
      BY <2>3 DEF FilesToGo, Pub
    <3>3. OpHome(op'[p])
      BY <2>3, <3>1, <3>2, HomeStage
    <3>4. remote'.blobs = remote.blobs \cup ob /\ remote'.branch = remote.branch
      BY <2>3 DEF Remote
    <3>5. QED BY <2>2, <3>1, <3>3, <3>4 DEF RemoteHome
  <2>4. CASE /\ FilesToGo(op[p], v, b, seen) /\ BranchToGo(op'[p], b, seen)
             /\ remote' = Remote(remote.commits, remote.blobs, v, remote.branch)
    <3>1. Pinned(b)
      BY <2>4 DEF OpHome
    <3>2. op'[p].name = "publish"
      BY <2>4 DEF BranchToGo, Pub
    <3>3. OpHome(op'[p])
      BY <2>4, <3>1, <3>2, HomeStage
    <3>4. remote'.blobs = remote.blobs /\ remote'.branch = remote.branch
      BY <2>4 DEF Remote
    <3>5. QED BY <2>2, <3>3, <3>4 DEF RemoteHome
  <2>5. CASE /\ BranchToGo(op[p], b, seen) /\ op'[p] = Nothing
             /\ remote' = Remote(remote.commits, remote.blobs, remote.lock, b)
    <3>1. Pinned(b)
      BY <2>5 DEF OpHome
    <3>2. remote'.blobs = remote.blobs /\ remote'.branch = b
      BY <2>5 DEF Remote
    <3>3. QED BY <1>1, <2>2, <2>5, <3>1, <3>2 DEF RemoteHome
  <2>6. QED BY <2>1, <2>3, <2>4, <2>5
<1>4. CASE gitPush(p)
  <2>1. PICK oc, ob, v, b, seen :
          /\ AllToGo(op[p], oc, ob, v, b, seen) /\ op'[p] = Nothing
          /\ remote' = Remote(remote.commits \cup oc, remote.blobs \cup ob, v, b)
    BY <1>4, GitStep
  <2>2. ob \cap Replay = {} /\ Pinned(b)
    BY <2>1 DEF OpHome
  <2>3. remote'.blobs = remote.blobs \cup ob /\ remote'.branch = b
    BY <2>1 DEF Remote
  <2>4. legacy' = legacy
    BY <1>4 DEF gitPush
  <2>5. QED BY <1>1, <2>1, <2>2, <2>3, <2>4 DEF RemoteHome
<1>5. CASE fetchFiles(p) \/ fetchBranch(p) \/ stop(p)
  <2>1. PICK o : op' = [op EXCEPT ![p] = o] /\ o.name # "publish" /\ remote' = remote
    BY <1>5, ReadStep
  <2>2. op'[p] = o
    BY <2>1, OpBecomes
  <2>3. legacy' = legacy
    BY <1>5 DEF fetchFiles, fetchBranch, stop
  <2>4. o.name = "fetch" => Pinned(o.tip)
    <3>1. CASE fetchFiles(p)
      <4>1. PICK t : t = IF git THEN remote.branch ELSE NoCommit
        OBVIOUS
      <4>2. op'[p] = Fetch(remote.lock, t, git)
        BY <3>1, <4>1, OpBecomes DEF fetchFiles, Fetch
      <4>3. Pinned(t)
        BY <4>1, NoCommitPinned DEF RemoteHome
      <4>4. QED BY <2>2, <4>2, <4>3 DEF Fetch
    <3>2. CASE fetchBranch(p)
      <4>1. op'[p] = Fetch(op[p].lock, remote.branch, TRUE)
        BY <3>2, OpBecomes DEF fetchBranch, Fetch
      <4>2. QED BY <2>2, <4>1 DEF Fetch, RemoteHome
    <3>3. CASE stop(p)
      <4>1. op'[p] = Nothing
        BY <3>3, OpBecomes DEF stop
      <4>2. QED BY <2>2, <4>1 DEF Nothing
    <3>4. QED BY <1>5, <3>1, <3>2, <3>3
  <2>5. OpHome(o)
    BY <2>1, <2>4, NoStage DEF OpHome
  <2>6. QED BY <2>1, <2>2, <2>3, <2>5 DEF RemoteHome
<1>6. QED BY <1>2, <1>3, <1>4, <1>5

LEMMA HomeStep == TypeInv /\ TypeInv' /\ HomeInv /\ [Next]_vars => HomeInv'
<1> SUFFICES ASSUME TypeInv, TypeInv', HomeInv, [Next]_vars PROVE HomeInv'
  OBVIOUS
<1>1. CASE UNCHANGED vars
  BY <1>1 DEF vars, blindness, HomeInv, Blind, RemoteHome
<1>2. CASE Next
  <2>1. SUFFICES ASSUME ~Blind'
                 PROVE  /\ RemoteHome(remote)'
                        /\ \A q \in Peer : /\ InstHome(inst'[q], q, wiped', moved', refilled')
                                           /\ OpHome(op'[q])
    BY DEF HomeInv
  <2>2. PICK p \in Peer :
          \/ InstAct(p)
          \/ push(p) \/ publishWrites(p) \/ gitPush(p) \/ fetchFiles(p) \/ fetchBranch(p) \/ stop(p)
    BY <1>2, NextActs
  <2>3. wiped \subseteq wiped' /\ moved \subseteq moved' /\ refilled \subseteq refilled'
    <3>1. CASE InstAct(p)
      BY <3>1, InstFrame DEF Frame
    <3>2. CASE push(p) \/ publishWrites(p) \/ gitPush(p) \/ fetchFiles(p) \/ fetchBranch(p) \/ stop(p)
      BY <3>2 DEF push, publishWrites, gitPush, fetchFiles, fetchBranch, stop, blindness
    <3>3. QED BY <2>2, <3>1, <3>2
  <2>4. ~Blind
    BY <2>1, <2>3 DEF Blind
  <2>5. /\ RemoteHome(remote)
        /\ \A q \in Peer : InstHome(inst[q], q, wiped, moved, refilled) /\ OpHome(op[q])
    BY <2>4 DEF HomeInv
  <2>6. CASE InstAct(p)
    <3>1. Frame(p) /\ InstHome(inst'[p], p, wiped', moved', refilled')
      BY <2>4, <2>5, <2>6, InstFrame, HomeInst
    <3>2. \A q \in Peer \ {p} : inst'[q] = inst[q]
      BY <3>1, Becomes DEF Frame
    <3>3. ASSUME NEW q \in Peer \ {p} PROVE InstHome(inst[q], q, wiped', moved', refilled')
      BY <2>3, <2>5, FilesMonotonic DEF InstHome
    <3>4. \A q \in Peer : OpHome(op'[q])
      <4>1. CASE op' = op
        BY <2>5, <4>1
      <4>2. CASE op' = [op EXCEPT ![p] = Nothing]
        <5>1. op'[p].name = "idle" /\ \A q \in Peer \ {p} : op'[q] = op[q]
          BY <4>2, OpBecomes DEF Nothing
        <5>2. QED BY <2>5, <5>1, HomeIdle
      <4>3. QED BY <3>1, <4>1, <4>2 DEF Frame
    <3>5. RemoteHome(remote)'
      BY <2>5, <3>1 DEF Frame, RemoteHome
    <3>6. QED BY <3>1, <3>2, <3>3, <3>4, <3>5
  <2>7. CASE push(p) \/ publishWrites(p) \/ gitPush(p) \/ fetchFiles(p) \/ fetchBranch(p) \/ stop(p)
    <3>1. OpHome(op'[p]) /\ RemoteHome(remote')
      BY <2>5, <2>7, HomeOp
    <3>2. inst' = inst /\ wiped' = wiped /\ moved' = moved /\ refilled' = refilled /\ legacy' = legacy
      BY <2>7 DEF push, publishWrites, gitPush, fetchFiles, fetchBranch, stop, blindness
    <3>3. \E o : op' = [op EXCEPT ![p] = o]
      BY <2>7 DEF push, publishWrites, gitPush, fetchFiles, fetchBranch, stop
    <3>4. \A q \in Peer \ {p} : op'[q] = op[q]
      BY <3>3, OpBecomes
    <3>5. QED BY <2>5, <3>1, <3>2, <3>4 DEF RemoteHome
  <2>8. QED BY <2>2, <2>6, <2>7
<1>3. QED BY <1>1, <1>2

(* While the rule is not blind, whatever is built, renamed, protected, committed,
   pushed and pulled by whom: no replay bytes among the objects of an instance,
   none on the remote that it did not have before, none where no key is. *)
THEOREM ReplayBytesStayHome == Spec => []ReplayStaysHome
<1>1. TypeInv /\ HomeInv => ReplayStaysHome
  <2> SUFFICES ASSUME TypeInv, HomeInv, ~Blind
               PROVE  /\ remote.blobs \cap Replay \subseteq legacy
                      /\ \A p \in Peer : inst[p].blobs \cap Replay = {}
                      /\ \A p \in Peer \ Keyed : Range(inst[p].tree) \cap Replay = {}
    BY DEF ReplayStaysHome
  <2>1. remote.blobs \cap Replay \subseteq legacy /\ \A p \in Peer : inst[p].blobs \cap Replay = {}
    BY DEF HomeInv, RemoteHome, InstHome
  <2>2. ASSUME NEW p \in Peer \ Keyed PROVE Range(inst[p].tree) \cap Replay = {}
    <3>1. \A f \in Path : inst[p].tree[f] \notin Replay
      BY DEF HomeInv, InstHome, FilesOK
    <3>2. inst[p].tree \in [Path -> Content \cup {None}]
      BY DEF TypeInv, InstOK
    <3>3. QED BY <3>1, <3>2 DEF Range
  <2>3. QED BY <2>1, <2>2
<1>2. QED BY <1>1, HomeInit, HomeStep, Types, PTL DEF Spec
=============================================================================
