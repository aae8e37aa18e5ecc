------------------------------ MODULE Database ------------------------------
(***************************************************************************)
(* The metadata database (database/ffldb: db.go, dbcache.go,               *)
(* ldbtreapiter.go): transactions with their buckets and cursors over a    *)
(* snapshot, the cache of committed keys above leveldb, and the treaps     *)
(* (database/internal/treap) that hold the keys of both.                   *)
(*                                                                         *)
(* A raw key is a number whose order is that of the bytes: the bucket's    *)
(* id and a name for a pair, larger ones for the entries of the bucket     *)
(* index, and the largest for the counter of the ids.  A map of keys is a  *)
(* function.  leveldb is external: its transactions are atomic, its        *)
(* snapshots do not change and its iterators walk the keys in order.       *)
(*                                                                         *)
(* A plan has the part that runs: "tree" for a treap of its own, "tx" for  *)
(* the database, with a program for every caller.                          *)
(***************************************************************************)
EXTENDS Integers, Sequences, FiniteSets, SequencesExt, FiniteSetsExt

CONSTANTS Callers,       \* the goroutines that use the database
          Plans,         \* [part, race, calls, faults]
          MaxCached,     \* the size of the cache that makes it flush
          TreeKeys, Priorities, MaxTreeOps

VARIABLES plan,          \* the plan, with the calls and failures left
          tree,          \* [now, snap, made, free, kv, past]: a treap and its history
          disk,          \* leveldb
          cache,         \* [keys, remove]: cachedKeys and cachedRemove
          tx,            \* by caller: its transaction and where its call is
          writeLock,     \* the caller that has it, or "free"
          closed,
          commits        \* [maps, flushed]: what was committed, and how much of it is on disk

treeVars == <<tree>>
txVars == <<disk, cache, tx, writeLock, closed, commits>>
dbVars == <<plan, tree, disk, cache, tx, writeLock, closed, commits>>

-----------------------------------------------------------------------------
(* Treaps.  A node knows which operation made it, so that two nodes of a   *)
(* key can be told apart.  The size of a pair is that of its value.        *)

Nil == <<>>
NodeOf(k, v, p, made) == [key |-> k, val |-> v, prio |-> p, made |-> made, left |-> Nil, right |-> Nil]
Treap(root, count, size) == [root |-> root, count |-> count, size |-> size]
nodeSize(v) == 1 + v

RECURSIVE Nodes(_), get(_, _)
Nodes(n) == IF n = Nil THEN {} ELSE {n} \cup Nodes(n.left) \cup Nodes(n.right)

get(n, k) ==
    IF n = Nil \/ n.key = k THEN n
    ELSE get(IF k < n.key THEN n.left ELSE n.right, k)

(* cloneTreapNode: the copy belongs to the operation that makes it.        *)
Clone(n, made) == [n EXCEPT !.made = made]

(* The value of a key that is there.                                       *)
RECURSIVE Replace(_, _, _, _)
Replace(n, k, v, made) ==
    IF n.key = k THEN [Clone(n, made) EXCEPT !.val = v]
    ELSE IF k < n.key THEN [Clone(n, made) EXCEPT !.left = Replace(n.left, k, v, made)]
    ELSE [Clone(n, made) EXCEPT !.right = Replace(n.right, k, v, made)]

(* A key that is not: a leaf, rotated up while its priority is the lower.  *)
RECURSIVE Insert(_, _, _, _, _)
Insert(n, k, v, p, made) ==
    LET left == Insert(n.left, k, v, p, made)
        right == Insert(n.right, k, v, p, made)
        c == Clone(n, made)
    IN IF n = Nil THEN NodeOf(k, v, p, made)
       ELSE IF k < n.key
            THEN IF left.key = k /\ p < n.prio
                 THEN [left EXCEPT !.right = [c EXCEPT !.left = left.right]]
                 ELSE [c EXCEPT !.left = left]
       ELSE IF right.key = k /\ p < n.prio
            THEN [right EXCEPT !.left = [c EXCEPT !.right = right.left]]
            ELSE [c EXCEPT !.right = right]

(* Immutable.put, and Mutable.Put but for the copies.                      *)
put(t, k, v, p, made) ==
    LET old == get(t.root, k) IN
    IF old = Nil
    THEN Treap(Insert(t.root, k, v, p, made), t.count + 1, t.size + nodeSize(v))
    ELSE Treap(Replace(t.root, k, v, made), t.count, t.size - old.val + v)

(* The nodes that an operation made; a node is its key and that operation. *)
Ids(nodes) == {<<n.key, n.made>> : n \in nodes}
MadeBy(t, made) == {n \in Nodes(t.root) : n.made = made}

(* The nodes that the put before this one made and this one replaced.      *)
Recycles(t, new, made) ==
    Ids({n \in MadeBy(t, made - 1) : get(new.root, n.key).made # n.made})

(* Immutable.Put, from the i-th pair on.                                   *)
RECURSIVE Put(_, _, _, _, _)
Put(t, pairs, i, made, free) ==
    IF i > Len(pairs) THEN [now |-> t, free |-> free]
    ELSE LET new == put(t, pairs[i].key, pairs[i].val, pairs[i].prio, made)
         IN Put(new, pairs, i + 1, made + 1, free \cup (IF i = 1 THEN {} ELSE Recycles(t, new, made)))

(* The node is rotated down to a leaf below the child that is preferred,   *)
(* and dropped.                                                            *)
RECURSIVE Sink(_, _)
Sink(n, made) ==
    LET leftUp == n.right = Nil \/ (n.left # Nil /\ n.left.prio >= n.right.prio) IN
    IF n.left = Nil /\ n.right = Nil THEN Nil
    ELSE IF leftUp
         THEN [Clone(n.left, made) EXCEPT !.right = Sink([n EXCEPT !.left = n.left.right], made)]
    ELSE [Clone(n.right, made) EXCEPT !.left = Sink([n EXCEPT !.right = n.right.left], made)]

RECURSIVE Cut(_, _, _)
Cut(n, k, made) ==
    IF n.key = k THEN Sink(n, made)
    ELSE IF k < n.key THEN [Clone(n, made) EXCEPT !.left = Cut(n.left, k, made)]
    ELSE [Clone(n, made) EXCEPT !.right = Cut(n.right, k, made)]

(* Immutable.Delete, and Mutable.Delete but for the copies.                *)
Delete(t, k, made) ==
    LET old == get(t.root, k) IN
    IF old = Nil THEN t
    ELSE IF t.root.key = k /\ old.left = Nil /\ old.right = Nil THEN Treap(Nil, 0, 0)
    ELSE Treap(Cut(t.root, k, made), t.count - 1, t.size - nodeSize(old.val))

(* ForEach: the way down to the left is kept, and extended by that of each *)
(* right child.                                                            *)
RECURSIVE LeftPath(_), Traverse(_)
LeftPath(n) == IF n = Nil THEN <<>> ELSE <<n>> \o LeftPath(n.left)
Traverse(parents) ==
    IF parents = <<>> THEN <<>>
    ELSE <<Last(parents).key>> \o Traverse(Front(parents) \o LeftPath(Last(parents).right))
ForEach(t) == Traverse(LeftPath(t.root))

-----------------------------------------------------------------------------
(* The iterator of a treap: the node it is at, with the nodes above it, in *)
(* the keys from start up to, not including, limit.                        *)

Iterator(root, start, limit) ==
    [root |-> root, node |-> Nil, parents |-> <<>>, isNew |-> TRUE, start |-> start, limit |-> limit]

limitIterator(it) ==
    IF it.node = Nil \/ (it.node.key >= it.start /\ it.node.key < it.limit) THEN it
    ELSE [it EXCEPT !.node = Nil]

RECURSIVE Search(_, _, _, _, _, _)
Search(it, n, k, exact, greater, depth) ==
    LET parents == Append(it.parents, n)
        Go(child, chosen) ==
            Search([it EXCEPT !.parents = parents, !.node = IF chosen THEN n ELSE @], child, k, exact, greater,
                   IF chosen THEN Len(it.parents) ELSE depth)
    IN IF n = Nil THEN limitIterator([it EXCEPT !.parents = SubSeq(@, 1, depth)])
       ELSE IF k < n.key THEN Go(n.left, greater)
       ELSE IF k > n.key THEN Go(n.right, ~greater)
       ELSE IF exact THEN limitIterator([it EXCEPT !.node = n])
       ELSE Go(IF greater THEN n.right ELSE n.left, FALSE)

seek(it, k, exact, greater) ==
    Search([it EXCEPT !.node = Nil, !.parents = <<>>, !.isNew = FALSE], it.root, k, exact, greater, 0)

IterFirst(it) == seek(it, it.start, TRUE, TRUE)
IterLast(it) == seek(it, it.limit, FALSE, FALSE)
IterSeek(it, k) == seek(it, k, TRUE, TRUE)

(* Up to the first node that the walk is in the left (right) tree of.      *)
RECURSIVE Up(_, _, _), Down(_, _, _)
Up(n, parents, forwards) ==
    LET p == Last(parents) IN
    IF parents = <<>> THEN [node |-> Nil, parents |-> <<>>]
    ELSE IF (IF forwards THEN p.right ELSE p.left) = n THEN Up(p, Front(parents), forwards)
    ELSE [node |-> p, parents |-> Front(parents)]

(* Down to the leftmost (rightmost) node below.                            *)
Down(n, parents, forwards) ==
    LET child == IF forwards THEN n.left ELSE n.right IN
    IF child = Nil THEN [node |-> n, parents |-> parents]
    ELSE Down(child, Append(parents, n), forwards)

Walk(it, forwards) ==
    LET child == IF forwards THEN it.node.right ELSE it.node.left
        to == IF child = Nil THEN Up(it.node, it.parents, forwards)
              ELSE Down(child, Append(it.parents, it.node), forwards)
    IN limitIterator([it EXCEPT !.node = to.node, !.parents = to.parents])

(* The key that ForceReseek left, when the treap changed, is sought again. *)
IterNext(it, reseek) ==
    IF it.isNew THEN IterFirst(it)
    ELSE IF it.node = Nil THEN it
    ELSE IF reseek THEN seek(it, it.node.key, FALSE, TRUE)
    ELSE Walk(it, TRUE)

IterPrev(it, reseek) ==
    IF it.isNew THEN IterLast(it)
    ELSE IF it.node = Nil THEN it
    ELSE IF reseek THEN seek(it, it.node.key, FALSE, FALSE)
    ELSE Walk(it, FALSE)

-----------------------------------------------------------------------------
(* A treap and the snapshots of it.                                        *)

(* The values that operations write alternate.                             *)
Pair(made) == [key : TreeKeys, val : {made % 2}, prio : Priorities]

TreePut(pairs) ==
    /\ plan.part = "tree" /\ tree.made < MaxTreeOps
    /\ LET after == Put(tree.now, pairs, 1, tree.made + 1, tree.free) IN
       tree' = [tree EXCEPT !.now = after.now, !.free = after.free, !.made = @ + Len(pairs),
                  !.kv = [k \in DOMAIN @ \cup {pairs[i].key : i \in DOMAIN pairs} |->
                            IF \E i \in DOMAIN pairs : pairs[i].key = k
                            THEN pairs[Max({i \in DOMAIN pairs : pairs[i].key = k})].val ELSE @[k]]]
    /\ UNCHANGED <<plan, txVars>>

TreeDelete(k) ==
    /\ plan.part = "tree" /\ tree.made < MaxTreeOps
    /\ tree' = [tree EXCEPT !.now = Delete(@, k, tree.made + 1), !.made = @ + 1,
                            !.kv = [x \in DOMAIN @ \ {k} |-> @[x]]]
    /\ UNCHANGED <<plan, txVars>>

(* A reader keeps the treap as it is.                                      *)
TreeSnapshot ==
    /\ plan.part = "tree" /\ tree.snap.root = Nil
    /\ tree' = [tree EXCEPT !.snap = tree.now, !.past = tree.kv]
    /\ UNCHANGED <<plan, txVars>>
-----------------------------------------------------------------------------
(* Raw keys: those of a bucket, of the bucket index, and curBucketIDKeyName. *)

None == -1
metadataBucketID == 0
curBucketIDKeyName == 2000
bucketizedKey(id, name) == 10 * id + name
bucketIndexKey(id, name) == 1000 + 10 * id + name
KeyRange(id) == bucketizedKey(id, 0) .. bucketizedKey(id, 9)
BucketRange(id) == bucketIndexKey(id, 0) .. bucketIndexKey(id, 9)

With(f, k, v) == [x \in DOMAIN f \cup {k} |-> IF x = k THEN v ELSE f[x]]
Without(f, S) == [x \in DOMAIN f \ S |-> f[x]]

(* commitTreaps: what is to be put, then what is to be deleted.            *)
commitTreaps(m, keys, remove) ==
    [k \in (DOMAIN m \cup DOMAIN keys) \ remove |-> IF k \in DOMAIN keys THEN keys[k] ELSE m[k]]

NoCache == [keys |-> <<>>, remove |-> {}]
Base(snap) == commitTreaps(snap.disk, snap.cache.keys, snap.cache.remove)

(* dbCacheSnapshot.Get: the cache, then leveldb.                           *)
SnapshotGet(snap, k) ==
    IF k \in snap.cache.remove THEN None
    ELSE IF k \in DOMAIN snap.cache.keys THEN snap.cache.keys[k]
    ELSE IF k \in DOMAIN snap.disk THEN snap.disk[k]
    ELSE None

(* What the transaction has pending, then its snapshot.                    *)
fetchKey(t, k) ==
    IF t.writable /\ k \in t.remove THEN None
    ELSE IF t.writable /\ k \in DOMAIN t.keys THEN t.keys[k]
    ELSE SnapshotGet(t.snap, k)

hasKey(t, k) == fetchKey(t, k) # None
putKey(t, k, v) == [t EXCEPT !.remove = @ \ {k}, !.keys = With(@, k, v)]
deleteKey(t, k) == [t EXCEPT !.keys = Without(@, {k}), !.remove = @ \cup {k}]

(* Bucket, along a path of names.                                          *)
RECURSIVE BucketAt(_, _, _)
BucketAt(t, id, path) ==
    IF path = <<>> \/ id = None THEN id
    ELSE BucketAt(t, fetchKey(t, bucketIndexKey(id, Head(path))), Tail(path))

nextBucketID(t) == fetchKey(t, curBucketIDKeyName) + 1

CreateBucket(t, id, name) ==
    IF hasKey(t, bucketIndexKey(id, name)) THEN t
    ELSE putKey(putKey(t, curBucketIDKeyName, nextBucketID(t)), bucketIndexKey(id, name), nextBucketID(t))

(* The keys that a loop over a range deletes while its cursor goes on: all *)
(* that only the snapshot has.  The cursor is not told of the deletions    *)
(* and the treap of the pending keys turns under it: from the first of     *)
(* them it goes to the nodes that were above it, so it sees the first and  *)
(* some of the others, which ones is up to the random priorities.          *)
Visits(t, range) ==
    LET pending == DOMAIN t.keys \cap range
        stored == ((DOMAIN Base(t.snap)) \cap range) \ (DOMAIN t.keys \cup t.remove)
    IN {stored \cup seen : seen \in {v \in SUBSET pending : pending # {} => Min(pending) \in v}}

DeleteAll(t, gone) == [t EXCEPT !.keys = Without(@, gone), !.remove = @ \cup gone]

(* DeleteBucket below the buckets on the stack.                            *)
RECURSIVE Empty(_, _)
Empty(t, childIDs) ==
    IF childIDs = {} THEN {t}
    ELSE LET id == Min(childIDs) IN
         UNION {UNION {Empty(DeleteAll(t, pairs \cup entries),
                             (childIDs \ {id}) \cup {fetchKey(t, e) : e \in entries})
                        : entries \in Visits(t, BucketRange(id))} : pairs \in Visits(t, KeyRange(id))}

DeleteBucket(t, id, name) ==
    LET child == fetchKey(t, bucketIndexKey(id, name)) IN
    IF child = None THEN {t}
    ELSE {deleteKey(e, bucketIndexKey(id, name)) : e \in Empty(t, {child})}

-----------------------------------------------------------------------------
(* Iterators that only move one way.  leveldb's goes on from its ends, a   *)
(* treap's stays exhausted.                                                *)

Start == -2
End == 3000
Valid(pos) == pos \notin {Start, End, None}

NextIn(S, pos) == LET after == {k \in S : k > pos} IN IF after = {} THEN End ELSE Min(after)
PrevIn(S, pos) == LET before == {k \in S : k < pos} IN IF before = {} THEN Start ELSE Max(before)
TreapMove(S, pos, forwards) ==
    LET to == IF forwards THEN NextIn(S, pos) ELSE PrevIn(S, pos)
    IN IF pos # None /\ Valid(to) THEN to ELSE None
Move(S, pos, forwards) == IF forwards THEN NextIn(S, pos) ELSE PrevIn(S, pos)

(* Which of the iterator below and the one above it is the current one.    *)
Chooses(a, b, forwards) ==
    IF ~Valid(a) /\ ~Valid(b) THEN "none"
    ELSE IF ~Valid(b) THEN "below"
    ELSE IF ~Valid(a) THEN "above"
    ELSE IF (forwards /\ a > b) \/ (~forwards /\ a < b) THEN "above" ELSE "below"

(* dbCacheIterator over the keys of leveldb and of the cache in a range.   *)
CacheChoose(snap, range, it, forwards) ==
    LET hidden == DOMAIN snap.cache.keys \cup snap.cache.remove
        below == IF it.below \in hidden
                 THEN Move((DOMAIN snap.disk \cap range) \ hidden, it.below, forwards) ELSE it.below
    IN [below |-> below, above |-> it.above, current |-> Chooses(below, it.above, forwards)]

CacheSeek(snap, range, k, forwards) ==
    CacheChoose(snap, range,
                [below |-> Move(DOMAIN snap.disk \cap range, k, forwards),
                 above |-> TreapMove(DOMAIN snap.cache.keys \cap range, k, forwards)], forwards)

CacheMove(snap, range, it, forwards) ==
    IF it.current = "none" THEN it
    ELSE CacheChoose(snap, range,
             IF it.current = "below"
             THEN [it EXCEPT !.below = Move(DOMAIN snap.disk \cap range, @, forwards)]
             ELSE [it EXCEPT !.above = TreapMove(DOMAIN snap.cache.keys \cap range, @, forwards)], forwards)

CurrentKey(it) ==
    CASE it.current = "none" -> None [] it.current = "below" -> it.below [] OTHER -> it.above

-----------------------------------------------------------------------------
(* The cursor over the snapshot and the pending keys of a transaction.     *)

(* Mutant: only the keys to be removed are skipped.                        *)
SkipsRemoved(t, k) == k \in t.remove

Pends(t, k) == k \in t.remove \/ k \in DOMAIN t.keys

RECURSIVE skipPendingUpdates(_, _, _)
skipPendingUpdates(t, it, forwards) ==
    IF CurrentKey(it) # None /\ Pends(t, CurrentKey(it))
    THEN skipPendingUpdates(t, CacheMove(t.snap, t.cursor.range, it, forwards), forwards)
    ELSE it

chooseIterator(t, it, pending, forwards) ==
    LET db == skipPendingUpdates(t, it, forwards)
    IN [t EXCEPT !.cursor.db = db, !.cursor.pending = pending,
                 !.cursor.current = Chooses(CurrentKey(db), pending, forwards)]

PendingKeys(t) == DOMAIN t.keys \cap t.cursor.range

(* First, Seek and Last: both iterators are sought.                        *)
CursorSeek(t, k, forwards) ==
    chooseIterator(t, CacheSeek(t.snap, t.cursor.range, k, forwards),
                   TreapMove(PendingKeys(t), k, forwards), forwards)

(* Next and Prev: the current one moves.                                   *)
CursorMove(t, forwards) ==
    IF t.cursor.current = "none" THEN t
    ELSE IF t.cursor.current = "below"
         THEN chooseIterator(t, CacheMove(t.snap, t.cursor.range, t.cursor.db, forwards), t.cursor.pending, forwards)
    ELSE chooseIterator(t, t.cursor.db, TreapMove(PendingKeys(t), t.cursor.pending, forwards), forwards)

rawKey(t) ==
    CASE t.cursor.current = "none" -> None
      [] t.cursor.current = "below" -> CurrentKey(t.cursor.db)
      [] OTHER -> t.cursor.pending

(* Value of the iterator that is the current one.                          *)
rawValue(t) ==
    CASE t.cursor.current = "none" -> None
      [] t.cursor.current = "above" -> t.keys[t.cursor.pending]
      [] t.cursor.db.current = "above" -> t.snap.cache.keys[t.cursor.db.above]
      [] OTHER -> t.snap.disk[t.cursor.db.below]

newCursor(t, range) ==
    [t EXCEPT !.cursor = [range |-> range, db |-> [below |-> Start, above |-> None, current |-> "none"],
                          pending |-> None, current |-> "none"]]

(* ForEach and ForEachBucket: the keys that the callback is given.         *)
RECURSIVE Collect(_)
Collect(t) ==
    IF rawKey(t) = None THEN <<>> ELSE <<<<rawKey(t), rawValue(t)>>>> \o Collect(CursorMove(t, TRUE))
Each(t, range) == Collect(CursorSeek(newCursor(t, range), Start, TRUE))
-----------------------------------------------------------------------------
(* What the callers do.  "view" is the map that the transaction should     *)
(* see: the one it began with and its own changes, in the buckets that     *)
(* exist.  "got" is the last answer and "want" what the view says.         *)

RECURSIVE Below(_, _)
Below(m, id) ==
    {id} \cup UNION {Below(m, m[k]) : k \in DOMAIN m \cap BucketRange(id)}
InBuckets(ids) == UNION {KeyRange(id) \cup BucketRange(id) : id \in ids}

(* The part of a map that can be reached from the metadata bucket.         *)
Reached(m) ==
    LET keys == InBuckets(Below(m, metadataBucketID)) \cup {curBucketIDKeyName}
    IN [k \in DOMAIN m \cap keys |-> m[k]]

RECURSIVE ViewAt(_, _, _)
ViewAt(m, id, path) ==
    IF path = <<>> THEN id ELSE ViewAt(m, m[bucketIndexKey(id, Head(path))], Tail(path))

Lookup(m, k) == IF k \in DOMAIN m THEN m[k] ELSE None
Pairs(m, range) ==
    LET keys == SetToSortSeq(DOMAIN m \cap range, <) IN [i \in DOMAIN keys |-> <<keys[i], m[keys[i]]>>]
PairAt(m, k) == <<k, Lookup(m, k)>>

NoCursor == [range |-> {}, db |-> [below |-> Start, above |-> None, current |-> "none"],
             pending |-> None, current |-> "none"]
NoTx == [at |-> "idle", writable |-> FALSE, snap |-> [disk |-> <<>>, cache |-> NoCache], keys |-> <<>>,
         remove |-> {}, cursor |-> NoCursor, view |-> <<>>, since |-> 0, upto |-> 0, got |-> None, want |-> None]

Call(p) == Head(plan.calls[p])
Ops(p) == Call(p).ops
Calling(p) == plan.part = "tx" /\ plan.calls[p] # <<>>
Writes(p) == Call(p).kind \in {"update", "beginw"}

HasRLock(p) == tx[p].at \in {"snapshot", "open", "commit", "clear", "direct"}
Waits(p) == tx[p].at = "closing"

(* The call returns.                                                       *)
Returned(p) == plan' = [plan EXCEPT !.calls[p] = Tail(@)]
Fails(p) == plan' = [plan EXCEPT !.calls[p] = Tail(@), !.faults = @ - 1]

(* begin of a writable transaction: the write lock first.                  *)
Lock(p) ==
    /\ Calling(p) /\ tx[p].at = "idle" /\ Writes(p)
    /\ writeLock = "free"
    /\ writeLock' = p
    /\ tx' = [tx EXCEPT ![p].at = "locked"]
    /\ UNCHANGED <<plan, tree, disk, cache, closed, commits>>

(* The read lock, which a caller that waits to close keeps new ones from;  *)
(* then GetSnapshot of leveldb.                                            *)
RLock(p) ==
    /\ Calling(p)
    /\ IF Call(p).kind \in {"view", "begin"} THEN tx[p].at = "idle" ELSE tx[p].at = "locked"
    /\ \A q \in Callers : ~Waits(q)
    /\ IF closed
       THEN /\ tx' = [tx EXCEPT ![p] = NoTx]
            /\ writeLock' = IF Writes(p) THEN "free" ELSE writeLock
            /\ Returned(p)
       ELSE /\ tx' = [tx EXCEPT ![p] = [NoTx EXCEPT !.at = "snapshot", !.writable = Writes(p), !.snap.disk = disk,
                                                    !.since = Len(commits.maps)]]
            /\ UNCHANGED <<writeLock, plan>>
    /\ UNCHANGED <<tree, disk, cache, closed, commits>>

(* The roots of the cache, read under its own lock.                        *)
Snapshot(p) ==
    /\ tx[p].at = "snapshot"
    /\ tx' = [tx EXCEPT ![p].at = "open", ![p].snap.cache = cache, ![p].upto = Len(commits.maps),
                        ![p].view = Reached(Base([disk |-> tx[p].snap.disk, cache |-> cache]))]
    /\ UNCHANGED <<plan, tree, disk, cache, writeLock, closed, commits>>

(* One operation on the transaction t: the transactions it may leave.      *)
Apply(t, op) ==
    LET id == BucketAt(t, metadataBucketID, op.path)
        vid == ViewAt(t.view, metadataBucketID, op.path)
        k == bucketizedKey(id, op.name)
        m == t.view
        Answer(u, got, want) == {[u EXCEPT !.got = got, !.want = want]}
        At(u, pos) == Answer(u, <<rawKey(u), rawValue(u)>>, PairAt(m, IF Valid(pos) THEN pos ELSE None))
        full == KeyRange(vid) \cup BucketRange(vid)
    IN CASE op.do = "put" -> {[putKey(t, k, op.val) EXCEPT !.view = With(@, bucketizedKey(vid, op.name), op.val)]}
         [] op.do = "get" -> Answer(t, fetchKey(t, k), Lookup(m, bucketizedKey(vid, op.name)))
         [] op.do = "delete" -> {[deleteKey(t, k) EXCEPT !.view = Without(@, {bucketizedKey(vid, op.name)})]}
         [] op.do = "create" ->
              {[CreateBucket(t, id, op.name) EXCEPT
                  !.view = IF bucketIndexKey(vid, op.name) \in DOMAIN m THEN m
                           ELSE With(With(m, curBucketIDKeyName, m[curBucketIDKeyName] + 1),
                                     bucketIndexKey(vid, op.name), m[curBucketIDKeyName] + 1)]}
         [] op.do = "drop" ->
              LET child == Lookup(m, bucketIndexKey(vid, op.name)) IN
              {[u EXCEPT !.view = IF child = None THEN m
                                  ELSE Without(m, InBuckets(Below(m, child)) \cup {bucketIndexKey(vid, op.name)})]
                 : u \in DeleteBucket(t, id, op.name)}
         [] op.do = "foreach" -> Answer(t, Each(t, KeyRange(id)), Pairs(m, KeyRange(vid)))
         [] op.do = "buckets" -> Answer(t, Each(t, BucketRange(id)), Pairs(m, BucketRange(vid)))
         [] op.do = "first" -> At(CursorSeek(newCursor(t, KeyRange(id) \cup BucketRange(id)), Start, TRUE),
                                  NextIn(DOMAIN m \cap full, Start))
         [] op.do = "last" -> At(CursorSeek(newCursor(t, KeyRange(id) \cup BucketRange(id)), End, FALSE),
                                 PrevIn(DOMAIN m \cap full, End))
         [] op.do = "seek" -> At(CursorSeek(newCursor(t, KeyRange(id) \cup BucketRange(id)), k - 1, TRUE),
                                 NextIn(DOMAIN m \cap full, bucketizedKey(vid, op.name) - 1))
         [] op.do = "next" -> At(CursorMove(t, TRUE), IF rawKey(t) = None THEN None
                                                      ELSE NextIn(DOMAIN m \cap full, rawKey(t)))
         [] op.do = "prev" -> At(CursorMove(t, FALSE), IF rawKey(t) = None THEN None
                                                       ELSE PrevIn(DOMAIN m \cap full, rawKey(t)))
         [] op.do = "remove" -> {[deleteKey(t, rawKey(t)) EXCEPT !.view = Without(@, {rawKey(t)})]}

Operate(p) ==
    /\ tx[p].at = "open" /\ Ops(p) # <<>>
    /\ \E t \in Apply(tx[p], Head(Ops(p))) : tx' = [tx EXCEPT ![p] = t]
    /\ plan' = [plan EXCEPT !.calls[p][1].ops = Tail(@)]
    /\ UNCHANGED <<tree, disk, cache, writeLock, closed, commits>>

(* transaction.close: the locks are released.                              *)
close(p) ==
    /\ tx' = [tx EXCEPT ![p] = NoTx]
    /\ writeLock' = IF tx[p].writable THEN "free" ELSE writeLock
(* View, Update and the callers of Begin roll back: the function failed or *)
(* panicked, the transaction only reads, or the caller says so.            *)
Rollback(p) ==
    /\ tx[p].at = "open" /\ Ops(p) = <<>>
    /\ \/ Call(p).end \in {"err", "panic", "rollback"}
       \/ Call(p).kind \in {"view", "begin"} /\ Call(p).end # "inside"
    /\ close(p) /\ Returned(p)
    /\ UNCHANGED <<tree, disk, cache, closed, commits>>

(* Commit of a managed transaction closes it and panics.                   *)
CommitInside(p) ==
    /\ tx[p].at = "open" /\ Ops(p) = <<>> /\ Call(p).end = "inside"
    /\ tx' = [tx EXCEPT ![p] = [NoTx EXCEPT !.at = "panicking", !.writable = tx[p].writable]]
    /\ writeLock' = IF tx[p].writable THEN "free" ELSE writeLock
    /\ UNCHANGED <<plan, tree, disk, cache, closed, commits>>

(* rollbackOnPanic: Rollback finds the transaction closed.                 *)
rollbackOnPanic(p) ==
    /\ tx[p].at = "panicking"
    /\ tx' = [tx EXCEPT ![p] = NoTx] /\ Returned(p)
    /\ UNCHANGED <<tree, disk, cache, writeLock, closed, commits>>

Commit(p) ==
    /\ tx[p].at = "open" /\ Ops(p) = <<>>
    /\ Writes(p) /\ Call(p).end \in {"ok", "commit"}
    /\ tx' = [tx EXCEPT ![p].at = "commit"]
    /\ UNCHANGED <<plan, tree, disk, cache, writeLock, closed, commits>>

(* Half as much again as the entries of the cache that the transaction     *)
(* began with; or the interval has passed, at any time.                    *)
TooLarge(t) ==
    3 * (Cardinality(DOMAIN t.snap.cache.keys) + Cardinality(t.snap.cache.remove)) > 2 * MaxCached

Committed(p) == commits' = [commits EXCEPT !.maps = Append(@, tx[p].view)]

(* commitTx without a flush: new roots of the cache.                       *)
CommitToCache(p) ==
    /\ tx[p].at = "commit" /\ ~TooLarge(tx[p])
    /\ cache' = [keys |-> Without(commitTreaps(cache.keys, tx[p].keys, {}), tx[p].remove),
                 remove |-> (cache.remove \ DOMAIN tx[p].keys) \cup tx[p].remove]
    /\ Committed(p) /\ close(p) /\ Returned(p)
    /\ UNCHANGED <<tree, disk, closed>>

(* Only when plan.race holds is the database written while a transaction   *)
(* is between the two halves of its snapshot.                              *)
WritesNow == plan.race \/ \A q \in Callers : tx[q].at # "snapshot"

(* commitTx with one: flush writes what is cached, if anything is.         *)
FlushFirst(p) ==
    /\ tx[p].at = "commit" /\ WritesNow
    /\ disk' = commitTreaps(disk, cache.keys, cache.remove)
    /\ tx' = [tx EXCEPT ![p].at = IF cache = NoCache THEN "direct" ELSE "clear"]
    /\ commits' = [commits EXCEPT !.flushed = Len(commits.maps)]
    /\ UNCHANGED <<plan, tree, cache, writeLock, closed>>

ClearCache(p) ==
    /\ tx[p].at = "clear"
    /\ cache' = NoCache
    /\ tx' = [tx EXCEPT ![p].at = "direct"]
    /\ UNCHANGED <<plan, tree, disk, writeLock, closed, commits>>

(* Then the transaction itself.                                            *)
CommitToDisk(p) ==
    /\ tx[p].at = "direct" /\ WritesNow
    /\ disk' = commitTreaps(disk, tx[p].keys, tx[p].remove)
    /\ commits' = [maps |-> Append(commits.maps, tx[p].view), flushed |-> Len(commits.maps) + 1]
    /\ close(p) /\ Returned(p)
    /\ UNCHANGED <<tree, cache, closed>>

(* leveldb fails in one of the two: the commit fails.                      *)
CommitFails(p) ==
    /\ tx[p].at \in {"commit", "direct"}
    /\ plan.faults > 0
    /\ close(p) /\ Fails(p)
    /\ UNCHANGED <<tree, disk, cache, closed, commits>>

(* Flush and Close wait for the transactions.                              *)
LockClose(p) ==
    /\ Calling(p) /\ tx[p].at = "idle" /\ Call(p).kind \in {"flush", "close"}
    /\ \A q \in Callers : ~Waits(q)
    /\ tx' = [tx EXCEPT ![p].at = "closing"]
    /\ UNCHANGED <<plan, tree, disk, cache, writeLock, closed, commits>>

(* With the lock, the cache is flushed.                                    *)
FlushOrClose(p) ==
    /\ Waits(p) /\ \A q \in Callers : ~HasRLock(q)
    /\ IF closed THEN UNCHANGED <<disk, cache, commits>>
       ELSE /\ disk' = commitTreaps(disk, cache.keys, cache.remove)
            /\ cache' = NoCache
            /\ commits' = [commits EXCEPT !.flushed = Len(commits.maps)]
    /\ closed' = (closed \/ Call(p).kind = "close")
    /\ tx' = [tx EXCEPT ![p] = NoTx] /\ Returned(p)
    /\ UNCHANGED <<tree, writeLock>>

FlushFails(p) ==
    /\ Waits(p) /\ \A q \in Callers : ~HasRLock(q)
    /\ ~closed /\ plan.faults > 0
    /\ closed' = (Call(p).kind = "close")
    /\ tx' = [tx EXCEPT ![p] = NoTx] /\ Fails(p)
    /\ UNCHANGED <<tree, disk, cache, writeLock, commits>>

-----------------------------------------------------------------------------
(* initDB, and a bucket with two pairs that was flushed before.            *)
FirstMap ==
    [k \in {curBucketIDKeyName, bucketIndexKey(0, 1), bucketizedKey(1, 2), bucketizedKey(1, 5)} |->
        CASE k \in {curBucketIDKeyName, bucketIndexKey(0, 1)} -> 1 [] OTHER -> 7]

DbInit ==
    /\ plan \in Plans
    /\ tree = [now |-> Treap(Nil, 0, 0), snap |-> Treap(Nil, 0, 0), made |-> 0, free |-> {}, kv |-> <<>>, past |-> <<>>]
    /\ disk = FirstMap /\ cache = NoCache
    /\ tx = [p \in Callers |-> NoTx]
    /\ writeLock = "free" /\ closed = FALSE
    /\ commits = [maps |-> <<FirstMap>>, flushed |-> 1]

TxStep(p) ==
    \/ Lock(p) \/ RLock(p) \/ Snapshot(p) \/ Operate(p)
    \/ Rollback(p) \/ CommitInside(p) \/ rollbackOnPanic(p)
    \/ Commit(p) \/ CommitToCache(p) \/ FlushFirst(p) \/ ClearCache(p) \/ CommitToDisk(p) \/ CommitFails(p)
    \/ LockClose(p) \/ FlushOrClose(p) \/ FlushFails(p)

DbNext ==
    \/ \E pair \in Pair(tree.made) : TreePut(<<pair>>)
    \/ \E pair \in Pair(tree.made), second \in Pair(tree.made + 1) : TreePut(<<pair, second>>)
    \/ \E k \in TreeKeys : TreeDelete(k)
    \/ TreeSnapshot
    \/ \E p \in Callers : TxStep(p)

DbSpec == DbInit /\ [][DbNext]_dbVars

-----------------------------------------------------------------------------
Content(t) == [k \in {n.key : n \in Nodes(t.root)} |-> get(t.root, k).val]
TreapHolds(t, kv) ==
    /\ Content(t) = kv
    /\ ForEach(t) = SetToSortSeq(DOMAIN kv, <)
    /\ t.count = Cardinality(DOMAIN kv)
    /\ t.size = MapThenSumSet(LAMBDA k : nodeSize(kv[k]), DOMAIN kv)

(* A treap holds the pairs that were put into it and counts them, and a    *)
(* snapshot of it stays what it was: no node of it is recycled however     *)
(* many pairs are put at once (immutable.go:116, :180).                    *)
TreapsExact ==
    plan.part = "tree" =>
    /\ TreapHolds(tree.now, tree.kv) /\ TreapHolds(tree.snap, tree.past)
    /\ (Ids(Nodes(tree.now.root)) \cup Ids(Nodes(tree.snap.root))) \cap tree.free = {}

Reaches(it, pos) == (it.node = Nil /\ ~Valid(pos)) \/ (it.node # Nil /\ it.node.key = pos)

(* From every key of the snapshot, an iterator reaches the next and the    *)
(* previous key in its range, of the snapshot as it is and of the treap    *)
(* as it has become after a reseek; first, last and sought keys are those  *)
(* of the range (treapiter.go:55, :160, :205).                             *)
IteratorsExact ==
    plan.part = "tree" =>
    \A start \in {0, Min(TreeKeys) + 1}, limit \in {Max(TreeKeys), Max(TreeKeys) + 1} :
        LET range == start .. limit - 1
            now == {k \in DOMAIN tree.kv : k \in range}
            past == {k \in DOMAIN tree.past : k \in range}
            it == Iterator(tree.snap.root, start, limit)
        IN /\ Reaches(IterFirst(it), NextIn(past, Start)) /\ Reaches(IterLast(it), PrevIn(past, End))
           /\ \A k \in past :
                \E at \in {IterSeek(it, k)} :
                   /\ Reaches(at, k)
                   /\ Reaches(IterNext(at, FALSE), NextIn(past, k))
                   /\ Reaches(IterPrev(at, FALSE), PrevIn(past, k))
                   /\ Reaches(IterNext([at EXCEPT !.root = tree.now.root], TRUE), NextIn(now, k))
                   /\ Reaches(IterPrev([at EXCEPT !.root = tree.now.root], TRUE), PrevIn(now, k))

(* A transaction reads a state that was committed when it began.           *)
SnapshotsWhole ==
    \A p \in Callers : tx[p].at = "open" =>
        \E i \in tx[p].since .. tx[p].upto : Reached(Base(tx[p].snap)) = commits.maps[i]

(* Transactions are isolated: each reads one committed state and its own   *)
(* changes, through every read and every walk of a cursor, whatever is     *)
(* committed or flushed meanwhile (db.go:204, :1085, dbcache.go:287).      *)
TransactionsIsolated ==
    /\ ~plan.race => SnapshotsWhole
    /\ \A p \in Callers : tx[p].got = tx[p].want

(* Disk and cache together are the last commit, and the disk alone, which  *)
(* is what a crash leaves, is one of the commits since the last flush      *)
(* (dbcache.go:497, :583).                                                 *)
CommitsKept ==
    /\ Reached(Base([disk |-> disk, cache |-> cache])) = Last(commits.maps) \/ (closed /\ plan.faults = 0)
    /\ \E i \in commits.flushed .. Len(commits.maps) : Reached(disk) = commits.maps[i]

(* The locks are held by the transactions that are open and by no other,   *)
(* and one transaction writes at a time (db.go:1666, :2357).               *)
LocksExact ==
    \A p \in Callers : (writeLock = p) <=> (tx[p].at = "locked" \/ (tx[p].writable /\ HasRLock(p)))

\* The metadata database keeps its promises: treaps and their iterators are
\* exact, transactions isolated, commits kept and locks released once.
DatabaseSound ==
    TreapsExact /\ IteratorsExact /\ TransactionsIsolated /\ CommitsKept /\ LocksExact

=============================================================================
