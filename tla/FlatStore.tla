----------------------------- MODULE FlatStore -----------------------------
(***************************************************************************)
(* The block database (database/ffldb): blocks, spend journals and utreexo *)
(* proofs are appended to numbered flat files, one series of files for     *)
(* each kind, and leveldb holds the location of every record, the write    *)
(* position of every series and the highest block of every block file.     *)
(*                                                                         *)
(* A transaction writes to the files at once, but its metadata goes to a   *)
(* cache (dbcache.go) that reaches leveldb later.  A restart finds files   *)
(* that are ahead of the metadata, and reconcileDB takes them back.        *)
(* Journals and proofs go to the file that has the number of their block's *)
(* file, so that pruning can remove file n of every kind at once; this is  *)
(* why the write position of the journals can move backward.               *)
(*                                                                         *)
(* Every record has size one.  The files hold no unsynced data: a restart  *)
(* follows a crash of the process, not of the machine.                     *)
(***************************************************************************)
EXTENDS BlockTree, Sequences

CONSTANTS
    MaxBlockFileSize,   \* [Kinds -> Nat], maxBlockFileSize in records of the kind
    PruneTarget,        \* BlockChain.pruneTarget, 0 when nothing is pruned
    KeepBlocks,         \* blocks below the tip that pruning keeps (288 in the code)
    NoFile,             \* a file that does not exist
    NoLoc,              \* no location: a row that does not exist, a nil pointer
    NoBlock,            \* no block
    Utreexo,            \* whether the node is a utreexo node, which stores proofs
    Zeros,              \* what a file holds where nothing was written
    MaxFile,            \* bound on the file numbers
    MaxJournals,        \* bound on the number of connected blocks
    MaxRestarts         \* bound on the number of restarts

Kinds == {"blk", "sj", "proof"}

ASSUME StoreAssumption ==
    /\ MaxBlockFileSize \in [Kinds -> Nat \ {0}]
    /\ PruneTarget = 0 \/ PruneTarget >= MaxBlockFileSize["blk"]
    /\ PruneTarget \in Nat
    /\ KeepBlocks \in Nat \ {0}
    /\ Utreexo \in BOOLEAN
    /\ NoBlock \notin Blocks
    /\ {MaxFile, MaxJournals, MaxRestarts} \subseteq Nat

VARIABLES
    files,      \* [Kinds -> [FileNums -> the records of the file, or NoFile]]
    cursor,     \* [Kinds -> the write cursor of the store]
    meta,       \* the metadata, as the transactions see it
    saved,      \* the metadata in leveldb
    fresh,      \* the block of a ProcessBlock call that is between its transactions
    mode,       \* "open", or "failed" when the database cannot be opened
    kept,       \* the greatest height that a pruning has been told to keep
    journals,   \* the number of blocks connected so far
    restarts    \* the number of restarts so far

vars == <<files, cursor, meta, saved, fresh, mode, kept, journals, restarts>>

FileNums == 0..MaxFile

Pos(f, o) == [file |-> f, off |-> o]

Greater(m, n) == IF m > n THEN m ELSE n

Last(S) == CHOOSE f \in S : \A g \in S : g <= f

First(S) == CHOOSE f \in S : \A g \in S : f <= g

\* blockStore.fileSize, 0 where the code has just created the file
FileSize(file) == IF file = NoFile THEN 0 ELSE Len(file)

-----------------------------------------------------------------------------
(***************************************************************************)
(* Writing (blockio.go)                                                    *)
(***************************************************************************)

\* blockStore.writeBlock: where the record goes.  A full file is left for the
\* next one even when the caller asks for a particular file.
WritePos(k, fs, loc) ==
    LET cur == cursor[k]
        full == cur.off + 1 > MaxBlockFileSize[k]
        num == IF full THEN cur.file + 1
               ELSE IF loc # NoLoc THEN loc.file
               ELSE cur.file
    IN  Pos(num, IF loc # NoLoc THEN FileSize(fs[num])
                 ELSE IF full THEN 0
                 ELSE cur.off)

\* WriteAt of the record r at offset o.  The handle of a file that was removed
\* still writes, to a file that nobody can open any more.
WriteRecord(file, o, r) ==
    IF file = NoFile THEN IF o = 0 THEN <<r>> ELSE NoFile
    ELSE SubSeq(file, 1, o) \o <<r>> \o SubSeq(file, o + 2, Len(file))

\* The write position after the record at position p
After(p) == Pos(p.file, p.off + 1)

\* The transaction of maybeAcceptBlock: StoreBlock and its commit.  The block
\* index accepts a block once, after its parent.  The call goes on to store the
\* block's proof, and to connect the block if it extends the best chain.
StoreBlock(b) ==
    LET p == WritePos("blk", files["blk"], NoLoc)
    IN  /\ mode = "open"
        /\ b \notin meta.known
        /\ Parent[b] \in meta.known
        /\ fresh = NoBlock
        /\ p.file <= MaxFile
        /\ files' = [files EXCEPT !["blk"][p.file] = WriteRecord(@, p.off, b)]
        /\ cursor' = [cursor EXCEPT !["blk"] = After(p)]
        /\ meta' = [meta EXCEPT !.row["blk"][b] = p,
                                !.lastHeight[p.file] = Greater(@, Height[b]),
                                !.known = @ \cup {b},
                                !.cursor = cursor']
        /\ fresh' = IF Utreexo \/ Parent[b] = meta.best THEN b ELSE NoBlock
        /\ UNCHANGED <<saved, mode, kept, journals, restarts>>

\* blockStore.appendProof: a proof for an older file leaves the cursor alone.
AppendedCursor(p) ==
    IF p.file < cursor["proof"].file THEN cursor["proof"] ELSE After(p)

\* storeUtreexoProof: StoreUtreexoProof and its commit, before the block is
\* connected, and for a block of a side branch as well
StoreProof(b) ==
    LET num == meta.row["blk"][b].file
        p == Pos(num, FileSize(files["proof"][num]))
    IN  /\ mode = "open"
        /\ Utreexo
        /\ fresh = b
        /\ meta.row["proof"][b] = NoLoc
        /\ files' = [files EXCEPT !["proof"][num] = WriteRecord(@, p.off, b)]
        /\ cursor' = [cursor EXCEPT !["proof"] = AppendedCursor(p)]
        /\ meta' = [meta EXCEPT !.row["proof"][b] = p, !.cursor = cursor']
        /\ fresh' = IF Parent[b] = meta.best THEN b ELSE NoBlock
        /\ UNCHANGED <<saved, mode, kept, journals, restarts>>

-----------------------------------------------------------------------------
(***************************************************************************)
(* Pruning (db.go)                                                         *)
(***************************************************************************)
Exists(k, f) == files[k][f] # NoFile

\* scanBlockFiles lists the spend journal files, for the block store as well.
SjFiles == {f \in FileNums : Exists("sj", f)}

\* blockStore.calcBlockFilesSize; its callers ignore the error, and take the
\* zeros that come with it.
CalcBlockFilesSize(k) ==
    LET first == First(SjFiles)
        last == Last(SjFiles)
        size[f \in first - 1 .. last - 1] ==
            IF f < first THEN 0 ELSE size[f - 1] + Len(files[k][f])
    IN  IF SjFiles # {} /\ Exists(k, last) /\ \A f \in first .. last - 1 : Exists(k, f)
        THEN [first |-> first, last |-> last, size |-> size[last - 1]]
        ELSE [first |-> 0, last |-> 0, size |-> 0]

\* Mutant of PruneFiles: the height to keep may go.
PruneFilesUpTo(total, first, last, keep) ==
    LET step[f \in first - 1 .. last] ==
            IF f < first THEN [total |-> total, del |-> {}, end |-> "no"]
            ELSE LET s == step[f - 1]
                 IN  IF s.end # "no" THEN s
                     ELSE IF ~(Exists("blk", f) /\ Exists("sj", f))
                     THEN [s EXCEPT !.end = "failed"]
                     ELSE IF s.total <= PruneTarget THEN [s EXCEPT !.end = "fits"]
                     ELSE IF meta.lastHeight[f] > keep /\ keep > 0 THEN s
                     ELSE [s EXCEPT !.del = @ \cup {f},
                                    !.total = @ - (Len(files["blk"][f])
                                                   + Len(files["sj"][f]))]
    IN  step[last]

\* The files that PruneBlocks decides to delete, in order, while the total is
\* above the target; "failed" when a file that it must look at is missing.
PruneFiles(total, first, last, keep) ==
    LET step[f \in first - 1 .. last] ==
            IF f < first THEN [total |-> total, del |-> {}, end |-> "no"]
            ELSE LET s == step[f - 1]
                 IN  IF s.end # "no" THEN s
                     ELSE IF ~(Exists("blk", f) /\ Exists("sj", f))
                     THEN [s EXCEPT !.end = "failed"]
                     ELSE IF s.total <= PruneTarget THEN [s EXCEPT !.end = "fits"]
                     ELSE IF meta.lastHeight[f] >= keep /\ keep > 0 THEN s
                     ELSE [s EXCEPT !.del = @ \cup {f},
                                    !.total = @ - (Len(files["blk"][f])
                                                   + Len(files["sj"][f]))]
    IN  step[last]

\* transaction.PruneBlocks: the files to delete, and whether it got as far as
\* deleting the rows of their blocks.
PruneBlocks(keep) ==
    LET blk == CalcBlockFilesSize("blk")
        sj == CalcBlockFilesSize("sj")
        total == blk.size + sj.size
        s == PruneFiles(total, blk.first, blk.last, keep)
    IN  IF PruneTarget = 0 \/ total <= PruneTarget
        THEN [del |-> {}, rows |-> FALSE]
        ELSE [del |-> s.del, rows |-> s.end # "failed"]

\* The blocks whose records are in the files of the set.
BlocksIn(del) == {b \in Blocks : /\ meta.row["blk"][b] # NoLoc
                                 /\ meta.row["blk"][b].file \in del}

\* The metadata after PruneBlocks.  The rows of the spend journals stay.
PrunedMeta(d) ==
    LET gone == IF d.rows THEN BlocksIn(d.del) ELSE {}
        prune(rows) == [b \in Blocks |-> IF b \in gone THEN NoLoc ELSE rows[b]]
    IN  [meta EXCEPT !.row["blk"] = prune(@),
                     !.row["proof"] = prune(@),
                     !.lastHeight = [f \in FileNums |-> IF f \in d.del THEN -1 ELSE @[f]]]

-----------------------------------------------------------------------------
(***************************************************************************)
(* The transactions of the chain (db.go, chain.go)                         *)
(***************************************************************************)

\* The transaction of connectBlock: PruneBlocks, StoreSpendJournal and the
\* commit, which deletes the files first.  It fails when the row of the block
\* itself was pruned: the files are gone then, and the metadata stays.
ConnectBlock(b) ==
    LET keep == Height[b] - (KeepBlocks - 1)
        d == PruneBlocks(keep)
        m == PrunedMeta(d)
        fs == [k \in Kinds |-> [f \in FileNums |->
                 IF f \in d.del THEN NoFile ELSE files[k][f]]]
        loc == m.row["blk"][b]
        p == WritePos("sj", fs["sj"],
                      IF loc.file # cursor["sj"].file THEN loc ELSE NoLoc)
    IN  /\ mode = "open"
        /\ journals < MaxJournals
        /\ b \in meta.known
        /\ Parent[b] = meta.best
        /\ fresh \in {b, NoBlock}
        /\ meta.row["blk"][b] # NoLoc
        /\ Utreexo => meta.row["proof"][b] # NoLoc
        /\ IF loc = NoLoc
           THEN files' = fs /\ UNCHANGED <<cursor, meta>>
           ELSE /\ p.file <= MaxFile
                /\ files' = [fs EXCEPT !["sj"][p.file] = WriteRecord(@, p.off, b)]
                /\ cursor' = [cursor EXCEPT !["sj"] = After(p)]
                /\ meta' = [m EXCEPT !.row["sj"][b] = p,
                                     !.best = b,
                                     !.cursor = cursor']
        /\ kept' = IF d.del = {} THEN kept ELSE Greater(kept, keep)
        /\ fresh' = NoBlock
        /\ journals' = journals + 1
        /\ UNCHANGED <<saved, mode, restarts>>

\* The transaction of disconnectBlock.  The journal of the block is read, and
\* its row stays.
DisconnectBlock ==
    /\ mode = "open"
    /\ fresh = NoBlock
    /\ meta.best # Genesis
    /\ meta' = [meta EXCEPT !.best = Parent[@]]
    /\ UNCHANGED <<files, cursor, saved, fresh, mode, kept, journals, restarts>>

\* dbCache.flush.  Only a later restart can tell whether it happened.
FlushCache ==
    /\ mode = "open"
    /\ restarts < MaxRestarts
    /\ saved # meta
    /\ saved' = meta
    /\ UNCHANGED <<files, cursor, meta, fresh, mode, kept, journals, restarts>>

-----------------------------------------------------------------------------
(***************************************************************************)
(* Opening the database (blockio.go, reconcile.go)                         *)
(***************************************************************************)

\* scanBlockFiles and scanProofFiles: the position at the end of the last file
Scan(k) ==
    LET S == IF k = "proof" THEN {f \in FileNums : Exists("proof", f)} ELSE SjFiles
    IN  IF S = {} THEN Pos(0, 0) ELSE Pos(Last(S), FileSize(files[k][Last(S)]))

Before(p, q) == p.file < q.file \/ (p.file = q.file /\ p.off < q.off)

\* Truncate creates the file if it was missing, and fills it up to the size.
Truncate(file, n) ==
    [i \in 1..n |-> IF i <= FileSize(file) THEN file[i] ELSE Zeros]

\* blockStore.handleRollback of a store that was just opened at the position
\* p, back to q: the newer files are deleted from the last one down, up to one
\* that is missing; if none is, the file of q is truncated.
HandleRollback(k, p, q) ==
    LET missing == {f \in q.file + 1 .. p.file : ~Exists(k, f)}
        stop == IF missing = {} THEN q.file ELSE Last(missing)
    IN  [f \in FileNums |->
           IF f > stop /\ f <= p.file THEN NoFile
           ELSE IF f = q.file /\ missing = {} /\ p # q
           THEN Truncate(files[k][f], q.off)
           ELSE files[k][f]]

\* The process stops, after a last flush or not, and is started again.
\* newBlockStore fails when the block file that it looks for is not there;
\* reconcileDB fails when the files are behind the metadata.
Restart ==
    /\ mode = "open"
    /\ restarts < MaxRestarts
    /\ restarts' = restarts + 1
    /\ meta' = saved
    /\ fresh' = NoBlock
    /\ IF \/ SjFiles # {} /\ ~Exists("blk", Last(SjFiles))
          \/ \E k \in Kinds : Before(Scan(k), saved.cursor[k])
       THEN mode' = "failed" /\ UNCHANGED <<files, cursor>>
       ELSE /\ files' = [k \in Kinds |-> HandleRollback(k, Scan(k), saved.cursor[k])]
            /\ cursor' = saved.cursor
            /\ UNCHANGED mode
    /\ UNCHANGED <<saved, kept, journals>>

-----------------------------------------------------------------------------
\* The metadata after createChainState has stored the genesis block.
InitMeta ==
    [row |-> [k \in Kinds |-> [b \in Blocks |->
                IF b = Genesis /\ k # "proof" THEN Pos(0, 0) ELSE NoLoc]],
     lastHeight |-> [f \in FileNums |-> IF f = 0 THEN 0 ELSE -1],
     cursor |-> [k \in Kinds |-> Pos(0, IF k = "proof" THEN 0 ELSE 1)],
     best |-> Genesis,
     known |-> {Genesis}]

Init ==
    /\ files = [k \in Kinds |-> [f \in FileNums |->
                  IF f = 0 /\ k # "proof" THEN <<Genesis>> ELSE NoFile]]
    /\ meta = InitMeta
    /\ saved = InitMeta
    /\ cursor = InitMeta.cursor
    /\ fresh = NoBlock
    /\ mode = "open"
    /\ kept = 0
    /\ journals = 0
    /\ restarts = 0

Next ==
    \/ \E b \in NonGenesis : StoreBlock(b)
    \/ \E b \in NonGenesis : StoreProof(b)
    \/ \E b \in NonGenesis : ConnectBlock(b)
    \/ DisconnectBlock
    \/ FlushCache
    \/ Restart

Spec == Init /\ [][Next]_vars

-----------------------------------------------------------------------------
(***************************************************************************)
(* Properties                                                              *)
(***************************************************************************)
Positions == [file : FileNums, off : Nat]

Metadata == [row : [Kinds -> [Blocks -> Positions \cup {NoLoc}]],
             lastHeight : [FileNums -> Int],
             cursor : [Kinds -> Positions],
             best : Blocks,
             known : SUBSET Blocks]

\* Type correctness, with the limit that writeBlock keeps: no block file is
\* larger than maxBlockFileSize.
TypeOK ==
    /\ \A k \in Kinds : \A f \in FileNums :
          Exists(k, f) => /\ files[k][f] \in Seq(Blocks \cup {Zeros})
                          /\ k = "blk" => Len(files[k][f]) <= MaxBlockFileSize[k]
    /\ cursor \in [Kinds -> Positions]
    /\ meta \in Metadata
    /\ saved \in Metadata
    /\ fresh \in Blocks \cup {NoBlock}
    /\ mode \in {"open", "failed"}
    /\ {kept, journals, restarts} \subseteq Nat

\* The row of block b in the metadata m leads to b's own record.
Readable(m, k, b) ==
    LET loc == m.row[k][b]
    IN  /\ loc # NoLoc
        /\ Exists(k, loc.file)
        /\ loc.off < Len(files[k][loc.file])
        /\ files[k][loc.file][loc.off + 1] = b

\* Every block that was stored can be read back, now and after a crash, if it is
\* at or above the heights that prunings were told to keep: whatever was written,
\* overwritten, rolled back and pruned before (writeBlock, handleRollback,
\* PruneBlocks).
BlocksReadable ==
    \A m \in {meta, saved} : \A b \in m.known :
        Height[b] >= kept => Readable(m, "blk", b)

\* The best chain can be disconnected block by block: the spend journal of each
\* of its kept blocks can be read back, now and after a crash, although a
\* restart deletes journal files when the write position had moved backward.
JournalsReadable ==
    \A m \in {meta, saved} : \A b \in Anc[m.best] :
        Height[b] >= kept => Readable(m, "sj", b)

\* Every proof that the database says it has can be read back, if its block is
\* kept, although proofs are also appended to files that are not the current one
\* (appendProof).
ProofsReadable ==
    \A m \in {meta, saved} : \A b \in Blocks :
        Height[b] >= kept /\ m.row["proof"][b] # NoLoc => Readable(m, "proof", b)

\* The comment of reconcileDB: the files are behind the metadata only if files
\* are missing, deleted or truncated.  Here nobody touches the files but the
\* database itself, so it can always be opened again.
Reopens == mode = "open"

\* Every row of the metadata leads to its own record, for blocks, spend
\* journals and proofs, now and after a restart.
RecordsReadable ==
    /\ TypeOK /\ BlocksReadable /\ JournalsReadable /\ ProofsReadable

=============================================================================
