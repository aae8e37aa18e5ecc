----------------------------- MODULE ProofIndex -----------------------------
(***************************************************************************)
(* The index manager with the flat-file utreexo proof index and one index  *)
(* that lives in the database alone (blockchain/indexers: manager.go,      *)
(* flatutreexoproofindex.go, utreexobackend.go).  What an index knows is   *)
(* spread over three stores that become durable at different times:        *)
(*   - the database (chain, index tips): through a cache that is flushed   *)
(*     now and then;                                                       *)
(*   - the flat files (undo data, roots, proofs, targets, leaves, TTLs):   *)
(*     at once, one file after the other;                                  *)
(*   - the forest (the accumulator): in memory until a flush, which labels *)
(*     what it saves with a block hash.                                    *)
(* The process may be killed between any two steps; Init rebuilds a        *)
(* consistent index from what it finds.                                    *)
(*                                                                         *)
(* A chain is a path, the sequence of its blocks from height 1; a block    *)
(* creates one leaf and spends the leaves of earlier blocks.  An entry of  *)
(* a flat file, a set of roots and a state of the forest are the path they *)
(* were computed for; an entry of the TTL file is the height at which the  *)
(* block's leaf was spent, or 0.                                           *)
(***************************************************************************)
EXTENDS Integers, Sequences, FiniteSets, SequencesExt, TLC

CONSTANTS Blocks, Parent, Spends,  \* the block tree; the blocks whose leaf a block spends
          Root,                    \* the genesis block
          IndexScripts,            \* what may happen: blocks, restarts, kills, branches
          BatchSize,               \* blocks per batch of the catch-up
          PipelineBuffer           \* capacity of the channels between the stages

VARIABLES plan,     \* the script, with the faults left
          db,       \* the database as its users see it: [chain, tip, plain]
          disk,     \* the database as a restart finds it
          kept,     \* the lowest height whose block is still stored
          files,    \* the flat files
          forest,   \* the accumulator in memory
          saved,    \* the accumulator on disk: [at, label, labelled]
          acc,      \* utreexoRootsState: the sequence of roots
          phase,    \* what the process is doing
          job,      \* the steps the running call has yet to make
          refused,  \* whether a step was refused
          manager,  \* the catch-up: next height, open batch, what it waits for
          pipe      \* the proof pipeline

indexVars == <<plan, db, disk, kept, files, forest, saved, acc, phase, job, refused, manager, pipe>>

Prefix(path, n) == SubSeq(path, 1, n)
Top(path) == IF path = <<>> THEN Root ELSE Last(path)

(* The heights of the leaves that the last block of a path spends.         *)
SpentHeights(path) == {i \in 1 .. Len(path) - 1 : path[i] \in Spends[Last(path)]}

(* The height at which the leaf created at height i is spent on a path.    *)
DeathHeight(path, i) ==
    LET spenders == {h \in i + 1 .. Len(path) : path[i] \in Spends[path[h]]}
    IN IF spenders = {} THEN 0 ELSE CHOOSE h \in spenders : TRUE

Step(op, path) == [op |-> op, file |-> "", path |-> path]
Store(file, path) == [op |-> "store", file |-> file, path |-> path]
Cut(file, path) == [op |-> "remove", file |-> file, path |-> path]
Trim(file) == [op |-> "trim", file |-> file, path |-> <<>>]

-----------------------------------------------------------------------------
(* The steps of the calls.                                                 *)

(* A file takes the entry of the next height and gives up the entry of the *)
(* last; the TTL file is overwritten only where it has an entry.           *)
Refused(step) ==
    \/ step.op = "store" /\ Len(files[step.file]) # Len(step.path) - 1
    \/ step.op = "remove" /\ Len(files[step.file]) # Len(step.path)
    \/ step.op \in {"writeTTLs", "resetTTLs"} /\ \E i \in SpentHeights(step.path) : i > Len(files.ttl)

SetDeaths(path, height) ==
    [files EXCEPT !.ttl = [i \in DOMAIN @ |-> IF i \in SpentHeights(path) THEN height ELSE @[i]]]


resetTTLs(path) == SetDeaths(path, 0)

(* consistentFlatFileState: a file that is ahead of the index tip is rolled *)
(* back to it.                                                             *)
consistentFlatFileState(file) ==
    [files EXCEPT ![file] = IF Len(@) > Len(db.tip) THEN Prefix(@, Len(db.tip)) ELSE @]

FilesAfter(step) ==
    CASE step.op = "store" ->
            [files EXCEPT ![step.file] = Append(@, IF step.file = "ttl" THEN 0 ELSE step.path)]
      [] step.op = "remove" -> [files EXCEPT ![step.file] = Front(@)]
      [] step.op = "trim" -> consistentFlatFileState(step.file)
      [] step.op = "writeTTLs" -> SetDeaths(step.path, Len(step.path))
      [] step.op = "resetTTLs" -> resetTTLs(step.path)
      [] OTHER -> files

ForestAfter(step) ==
    CASE step.op = "modify" -> Append(forest, Top(step.path))
      [] step.op = "undo" -> Front(forest)
      [] OTHER -> forest

AccAfter(step) ==
    CASE step.op = "updateRootsState" -> Append(acc, forest)
      [] step.op = "initUtreexoRootsState" -> << <<>> >> \o files.roots
      [] OTHER -> acc

(* The forest is saved under the hash of a block.                          *)
SavedAfter(step) ==
    LET flushed == [at |-> forest, label |-> step.path, labelled |-> TRUE]
    IN CASE step.op = "flushForest" -> {flushed}
         [] step.op = "flushIfNeeded" -> {saved, flushed}
         [] OTHER -> {saved}

(* A commit may find that the cache of the database is due for a flush.    *)
Committed(chain, tip, plain) ==
    /\ db' = [chain |-> chain, tip |-> tip, plain |-> plain]
    /\ \/ UNCHANGED disk
       \/ phase \in plan.dbFlushes /\ disk' = db'

DatabaseAfter(step) ==
    CASE step.op = "commit" -> Committed(step.path, step.path, step.path)
      [] step.op = "rollback" -> Committed(db.chain, db.tip, Front(db.plain))
      [] step.op = "flushMainDB" -> disk' = db /\ UNCHANGED db
      [] OTHER -> UNCHANGED <<db, disk>>

KeptAfter(step) == IF step.op = "delete" THEN Len(step.path) ELSE kept

(* FlatUtreexoProofIndex.ConnectBlock.                                     *)
ConnectBlock(path) ==
    <<Store("undo", path), Step("modify", path), Store("roots", path), Step("updateRootsState", path)>>
    \o IF plan.pruned THEN <<>>
       ELSE <<Store("proof", path), Store("target", path), Store("leaf", path),
              Store("ttl", path), Step("writeTTLs", path)>>

(* FlatUtreexoProofIndex.DisconnectBlock.                                  *)
DisconnectBlock(path) ==
    (IF plan.pruned THEN <<>> ELSE <<Step("resetTTLs", path)>>)
    \o <<Step("undo", path), Step("flushForest", Front(path))>>
    \o (IF plan.pruned THEN <<>>
        ELSE <<Cut("target", path), Cut("proof", path), Cut("ttl", path), Cut("leaf", path)>>)
    \o <<Cut("undo", path), Cut("roots", path), Step("initUtreexoRootsState", path)>>

(* Flush: the database first, so that the forest on disk is never ahead of *)
(* it.                                                                     *)
Flush(path) == <<Step("flushMainDB", path), Step("flushForest", path)>>

(* PruneBlock saves the forest when blocks that it would need to catch up  *)
(* are about to be deleted.                                                *)
PruneBlock(lowest) ==
    IF saved.labelled /\ lowest <= Len(saved.label) THEN <<>> ELSE Flush(db.chain)

-----------------------------------------------------------------------------
(* The node when it runs.                                                  *)

Running == phase = "running" /\ job = <<>>

Elsewhere == <<manager, pipe>>

(* connectBlock: prune, then every index, the commit, and the flush if one *)
(* is due.                                                                 *)
Connect(b) ==
    /\ Running
    /\ b \in plan.blocks /\ Parent[b] = Top(db.chain)
    /\ LET path == Append(db.chain, b) IN
       \E due \in BOOLEAN, lowest \in {kept} \cup (IF plan.pruned THEN kept .. Len(db.chain) ELSE {}) :
           job' = (IF lowest > kept THEN PruneBlock(lowest) ELSE <<>>)
                  \o ConnectBlock(path)
                  \o (IF lowest > kept THEN <<Step("delete", Prefix(path, lowest))>> ELSE <<>>)
                  \o <<Step("commit", path)>>
                  \o (IF due THEN Flush(path) ELSE <<>>)
    /\ UNCHANGED <<plan, db, disk, kept, files, forest, saved, acc, phase, refused, Elsewhere>>

(* disconnectBlock, in a reorganization.                                   *)
Disconnect ==
    /\ Running
    /\ plan.forks > 0
    /\ Len(db.chain) >= kept /\ db.chain # <<>>
    /\ plan' = [plan EXCEPT !.forks = @ - 1]
    /\ job' = DisconnectBlock(db.chain) \o <<Step("commit", Front(db.chain))>>
    /\ UNCHANGED <<db, disk, kept, files, forest, saved, acc, phase, refused, Elsewhere>>

(* FlushIndexes, called now and then by the sync manager.                  *)
PeriodicFlush ==
    /\ Running
    /\ plan.periodic
    /\ job' = Flush(db.chain)
    /\ UNCHANGED <<plan, db, disk, kept, files, forest, saved, acc, phase, refused, Elsewhere>>

(* The running call makes its next step, or returns the error.             *)
StepOn ==
    /\ job # <<>>
    /\ LET step == Head(job) IN
       IF Refused(step)
       THEN /\ job' = <<>>
            /\ refused' = TRUE
            /\ phase' = IF phase = "running" THEN phase ELSE "failed"
            /\ UNCHANGED <<db, disk, kept, files, forest, saved, acc>>
       ELSE /\ job' = Tail(job)
            /\ files' = FilesAfter(step)
            /\ forest' = ForestAfter(step)
            /\ acc' = AccAfter(step)
            /\ saved' \in SavedAfter(step)
            /\ kept' = KeptAfter(step)
            /\ DatabaseAfter(step)
            /\ UNCHANGED <<phase, refused>>
    /\ UNCHANGED <<plan, Elsewhere>>

(* A write to a flat file fails; the call returns the error, the database  *)
(* transaction is rolled back, and the node goes on.                       *)
StepFails ==
    /\ phase = "running" /\ job # <<>>
    /\ plan.fails > 0
    /\ Head(job).op \in {"store", "remove"}
    /\ plan' = [plan EXCEPT !.fails = @ - 1, !.broken = "call"]
    /\ job' = <<>>
    /\ UNCHANGED <<db, disk, kept, files, forest, saved, acc, phase, refused, Elsewhere>>

NoPipe == [raw |-> <<>>, rec |-> <<>>, gen |-> <<>>, sto |-> <<>>, storing |-> <<>>,
           on |-> FALSE, closed |-> FALSE, pre |-> "done", bad |-> {}, err |-> FALSE]

NewPipe == [NoPipe EXCEPT !.on = TRUE, !.pre = "run"]

NoManager == [at |-> "", why |-> "", next |-> 0, tip |-> <<>>, plain |-> <<>>, count |-> 0]

(* What a process loses when it ends.                                      *)
Gone == /\ job' = <<>>
        /\ forest' = <<>> /\ acc' = <<>>
        /\ manager' = NoManager /\ pipe' = NoPipe
        /\ refused' = FALSE

(* The process is killed: the cache of the database is lost.               *)
Kill ==
    /\ phase \notin {"down", "failed"}
    /\ plan.kills > 0
    /\ phase = "closing" => plan.killsClosing
    /\ plan' = [plan EXCEPT !.kills = @ - 1, !.broken = IF @ = "call" THEN "" ELSE @]
    /\ phase' = "down"
    /\ db' = disk
    /\ Gone
    /\ UNCHANGED <<disk, kept, files, saved>>

(* An orderly stop: the peer handler closes the forest, and the database   *)
(* is closed last.                                                         *)
CloseUtreexoState ==
    /\ Running
    /\ plan.stops > 0
    /\ plan' = [plan EXCEPT !.stops = @ - 1]
    /\ saved' = [at |-> forest, label |-> db.chain, labelled |-> TRUE]
    /\ phase' = "closing"
    /\ UNCHANGED <<db, disk, kept, files, forest, acc, job, refused, Elsewhere>>

CloseDatabase ==
    /\ phase = "closing"
    /\ disk' = db
    /\ phase' = "down"
    /\ Gone
    /\ UNCHANGED <<plan, db, kept, files, saved>>

-----------------------------------------------------------------------------
(* Init.                                                                   *)

(* initConsistentUtreexoState connects a block that the index has and the  *)
(* forest on disk does not.                                                *)
Replay(path) ==
    <<Step("modify", path)>>
    \o (IF plan.pruned THEN <<>> ELSE <<Step("writeTTLs", path)>>)
    \o <<Step("flushIfNeeded", path)>>

(* The forest without a label is replayed from the genesis block on.       *)
ReplayFrom(label) ==
    FlattenSeq([i \in 1 .. Len(db.tip) - Len(label) |-> Replay(Prefix(db.chain, Len(label) + i))])

Replays ==
    IF db.tip = <<>> \/ (saved.labelled /\ saved.label = db.tip) THEN <<>>
    ELSE (IF saved.labelled THEN <<>> ELSE <<Step("modify", <<>>)>>) \o ReplayFrom(saved.label)

(* The forest that was saved cannot be brought to the index tip: its label *)
(* is not on the chain or above the tip, or a block is no longer stored.   *)
Unrecoverable ==
    /\ db.tip # <<>>
    /\ saved.labelled => saved.label # db.tip
    /\ \/ ~IsPrefix(saved.label, db.chain)
       \/ Len(saved.label) > Len(db.tip)
       \/ Len(saved.label) + 1 < kept

(* How many blocks of the plain index are not on the main chain.           *)
Orphaned ==
    CHOOSE n \in 0 .. Len(db.plain) :
        /\ IsPrefix(Prefix(db.plain, Len(db.plain) - n), db.chain)
        /\ n > 0 => ~IsPrefix(Prefix(db.plain, Len(db.plain) - n + 1), db.chain)

(* Init of the forest and of the flat files, then the rollback of the      *)
(* orphaned blocks of the other index.                                     *)
Open ==
    /\ phase = "down"
    /\ forest' = saved.at
    /\ IF Unrecoverable
       THEN phase' = "failed" /\ job' = <<>>
       ELSE /\ phase' = "starting"
            /\ job' = Replays
                      \o (IF plan.pruned THEN <<>>
                          ELSE <<Trim("target"), Trim("proof"), Trim("leaf"), Trim("ttl")>>)
                      \o <<Trim("undo"), Trim("roots"), Step("initUtreexoRootsState", <<>>)>>
                      \o [i \in 1 .. Orphaned |-> Step("rollback", <<>>)]
    /\ UNCHANGED <<plan, db, disk, kept, files, saved, acc, refused, Elsewhere>>

Shorter(p, q) == IF Len(p) < Len(q) THEN p ELSE q

(* The catch-up starts at the block after the lower of the two tips, with  *)
(* the proof pipeline on.                                                  *)
StartCatchUp ==
    /\ phase = "starting" /\ job = <<>>
    /\ LET lowest == Len(Shorter(db.tip, db.plain)) IN
       IF lowest = Len(db.chain)
       THEN phase' = "running" /\ UNCHANGED <<manager, pipe>>
       ELSE /\ phase' = "catchup"
            /\ manager' = [at |-> "connect", why |-> "", next |-> lowest + 1,
                           tip |-> db.tip, plain |-> db.plain, count |-> 0]
            /\ pipe' = NewPipe
    /\ UNCHANGED <<plan, db, disk, kept, files, forest, saved, acc, job, refused>>

CatchingUp(at) == phase = "catchup" /\ job = <<>> /\ manager.at = at

Full(queue) == Len(queue) >= PipelineBuffer

(* The indexes that do not have the next block yet connect it: the plain   *)
(* one within the open batch, the proof index by handing the block to the  *)
(* pipeline, which may be full, or by returning the pipeline's error.      *)
CatchUpBlock ==
    /\ CatchingUp("connect")
    /\ LET path == Prefix(db.chain, manager.next)
           behind == Len(manager.tip) < manager.next
       IN /\ behind => ~pipe.err /\ ~Full(pipe.raw)
          /\ pipe' = IF behind THEN [pipe EXCEPT !.raw = Append(@, path)] ELSE pipe
          /\ manager' = [manager EXCEPT
                !.tip = IF behind THEN path ELSE @,
                !.plain = IF Len(@) < manager.next THEN path ELSE @,
                !.next = @ + 1,
                !.count = @ + 1,
                !.at = IF manager.count + 1 >= BatchSize THEN "commit" ELSE "check",
                !.why = "batch"]
    /\ UNCHANGED <<plan, db, disk, kept, files, forest, saved, acc, phase, job, refused>>

(* The process ends with an error of the pipeline; the open batch is not   *)
(* committed, the database is closed.                                      *)
EndProcess == phase' = "down" /\ disk' = db /\ Gone /\ UNCHANGED <<plan, db, kept, files, saved>>

PipeDone ==
    /\ pipe.pre = "done"
    /\ pipe.rec = <<>> /\ pipe.gen = <<>> /\ pipe.sto = <<>> /\ pipe.storing = <<>>

CatchUpFails ==
    /\ CatchingUp("connect")
    /\ Len(manager.tip) < manager.next
    /\ pipe.err \/ (Full(pipe.raw) /\ PipeDone)
    /\ EndProcess

(* A batch that is full, or the last one, is committed.  A full one is     *)
(* followed by a flush, if one is due, of the indexes whose tip is the     *)
(* block just connected.                                                   *)
CatchUpCommit ==
    /\ CatchingUp("commit")
    /\ Committed(db.chain, manager.tip, manager.plain)
    /\ \E due \in BOOLEAN :
        /\ due => manager.why = "batch" /\ Len(manager.tip) = manager.next - 1
        /\ manager' = [manager EXCEPT !.count = 0,
                        !.at = IF due \/ manager.why # "batch" THEN "drain" ELSE "check"]
        /\ pipe' = [pipe EXCEPT !.closed = due \/ manager.why # "batch"]
    /\ UNCHANGED <<plan, kept, files, forest, saved, acc, phase, job, refused>>

(* After a block: an interrupt, the end of the chain, or the next block.   *)
CatchUpCheck ==
    /\ CatchingUp("check")
    /\ \/ /\ plan.interrupts > 0
          /\ plan' = [plan EXCEPT !.interrupts = @ - 1]
          /\ manager' = [manager EXCEPT !.at = "commit", !.why = "interrupt"]
       \/ /\ manager' = IF manager.next > Len(db.chain)
                        THEN [manager EXCEPT !.at = "commit", !.why = "end"]
                        ELSE [manager EXCEPT !.at = "connect"]
          /\ UNCHANGED plan
    /\ UNCHANGED <<db, disk, kept, files, forest, saved, acc, phase, job, refused, pipe>>

Drained == PipeDone

(* The pipeline has drained, before a flush or because it is stopped.  An  *)
(* error ends the process without a flush.  A pipeline that was drained    *)
(* for a flush starts anew.                                                *)
CatchUpFlush ==
    /\ CatchingUp("drain")
    /\ Drained
    /\ IF pipe.err THEN EndProcess
       ELSE /\ pipe' = IF manager.why = "batch" THEN NewPipe ELSE NoPipe
            /\ job' = IF Len(manager.tip) = manager.next - 1 THEN Flush(manager.tip) ELSE <<>>
            /\ manager' = [manager EXCEPT !.at = IF manager.why = "batch" THEN "check" ELSE "finish"]
            /\ UNCHANGED <<plan, db, disk, kept, files, forest, saved, acc, phase, refused>>

(* The catch-up is over, or the process ends because it was interrupted.   *)
CatchUpEnd ==
    /\ CatchingUp("finish")
    /\ IF manager.why = "interrupt" THEN EndProcess
       ELSE /\ phase' = "running"
            /\ manager' = NoManager
            /\ UNCHANGED <<plan, db, disk, kept, files, forest, saved, acc, job, refused, pipe>>

-----------------------------------------------------------------------------
(* The proof pipeline: four goroutines and the channels between them.      *)

PipeOnly == <<plan, db, disk, kept, saved, acc, phase, job, refused, manager>>

(* preprocess hands blocks on until the channel is closed and empty, or a  *)
(* stage has reported an error.                                            *)
Preprocess ==
    /\ pipe.on /\ pipe.pre = "run"
    /\ IF pipe.raw = <<>> THEN pipe.closed /\ pipe' = [pipe EXCEPT !.pre = "done"]
       ELSE IF pipe.err THEN pipe' = [pipe EXCEPT !.pre = "done", !.raw = Tail(@)]
       ELSE /\ ~Full(pipe.rec)
            /\ pipe' = [pipe EXCEPT !.raw = Tail(@), !.rec = Append(@, Head(pipe.raw))]
    /\ UNCHANGED <<files, forest, PipeOnly>>

Skips(stage) == stage \in pipe.bad

(* A stage that has failed throws away what it is given.                   *)
Discarded(queue) == Tail(queue)

Record ==
    /\ pipe.rec # <<>>
    /\ IF Skips("record") THEN pipe' = [pipe EXCEPT !.rec = Discarded(@)] /\ UNCHANGED forest
       ELSE /\ ~Full(pipe.gen)
            /\ forest' = Append(forest, Top(Head(pipe.rec)))
            /\ pipe' = [pipe EXCEPT !.rec = Tail(@), !.gen = Append(@, Head(pipe.rec))]
    /\ UNCHANGED <<files, PipeOnly>>

Generate ==
    /\ pipe.gen # <<>>
    /\ IF Skips("generate") THEN pipe' = [pipe EXCEPT !.gen = Discarded(@)]
       ELSE /\ ~Full(pipe.sto)
            /\ pipe' = [pipe EXCEPT !.gen = Tail(@), !.sto = Append(@, Head(pipe.gen))]
    /\ UNCHANGED <<files, forest, PipeOnly>>

StoreSteps(path) ==
    <<Store("undo", path), Store("ttl", path), Step("writeTTLs", path), Store("roots", path),
      Store("proof", path), Store("target", path), Store("leaf", path)>>

TakeStore ==
    /\ pipe.sto # <<>> /\ pipe.storing = <<>>
    /\ pipe' = [pipe EXCEPT !.sto = Tail(@),
                  !.storing = IF Skips("store") THEN <<>> ELSE StoreSteps(Head(pipe.sto))]
    /\ UNCHANGED <<files, forest, PipeOnly>>

Reports(stage) == [pipe EXCEPT !.bad = @ \cup {stage}, !.err = TRUE]

StoreNext ==
    /\ pipe.storing # <<>>
    /\ IF Refused(Head(pipe.storing))
       THEN /\ pipe' = [Reports("store") EXCEPT !.storing = <<>>]
            /\ refused' = TRUE
            /\ UNCHANGED files
       ELSE /\ pipe' = [pipe EXCEPT !.storing = Tail(@)]
            /\ files' = FilesAfter(Head(pipe.storing))
            /\ UNCHANGED refused
    /\ UNCHANGED <<plan, db, disk, kept, saved, acc, phase, job, manager, forest>>

(* A stage fails: it reports the error, unless one is already reported.    *)
StageFails ==
    /\ plan.fails > 0 /\ pipe.on
    /\ \/ pipe.rec # <<>> /\ ~Skips("record") /\ pipe' = [Reports("record") EXCEPT !.rec = Tail(@)]
       \/ pipe.gen # <<>> /\ ~Skips("generate") /\ pipe' = [Reports("generate") EXCEPT !.gen = Tail(@)]
       \/ pipe.storing # <<>> /\ pipe' = [Reports("store") EXCEPT !.storing = <<>>]
    /\ plan' = [plan EXCEPT !.fails = @ - 1, !.broken = "pipe"]
    /\ UNCHANGED <<files, forest, db, disk, kept, saved, acc, phase, job, refused, manager>>

-----------------------------------------------------------------------------
PathFiles(path) ==
    [f \in {"undo", "roots", "proof", "target", "leaf"} |-> [i \in 1 .. Len(path) |-> Prefix(path, i)]]
    @@ [ttl |-> [i \in 1 .. Len(path) |-> DeathHeight(path, i)]]

(* The node is stopped; each index was enabled when the script says.       *)
IndexInit ==
    /\ plan \in IndexScripts
    /\ db = [chain |-> plan.chain, tip |-> plan.tip, plain |-> plan.plain]
    /\ disk = db
    /\ kept = 1
    /\ files = PathFiles(plan.tip)
    /\ saved = [at |-> plan.tip, label |-> plan.tip, labelled |-> plan.labelled]
    /\ forest = <<>> /\ acc = <<>>
    /\ phase = "down" /\ job = <<>> /\ refused = FALSE
    /\ manager = NoManager /\ pipe = NoPipe

CatchUpStep ==
    \/ CatchUpBlock \/ CatchUpFails \/ CatchUpCommit \/ CatchUpCheck \/ CatchUpFlush \/ CatchUpEnd
    \/ Preprocess \/ Record \/ Generate \/ TakeStore \/ StoreNext

ProcessStep == StepOn \/ StartCatchUp \/ CatchUpStep

IndexNext ==
    \/ \E b \in Blocks : Connect(b)
    \/ Disconnect
    \/ PeriodicFlush
    \/ StepOn
    \/ StepFails
    \/ Kill
    \/ CloseUtreexoState
    \/ CloseDatabase
    \/ Open
    \/ StartCatchUp
    \/ CatchUpStep
    \/ StageFails

IndexSpec == IndexInit /\ [][IndexNext]_indexVars /\ WF_indexVars(ProcessStep)

-----------------------------------------------------------------------------
(* The forest on disk is exactly the state after the block that labels it, *)
(* so that a restart may replay the blocks after it (utreexobackend.go:198, *)
(* manager.go:836).                                                        *)
LabelExact == saved.labelled => saved.at = saved.label

(* What a running index serves at a height: the TTLs of leaves that die    *)
(* above it are hidden (flatutreexoproofindex.go:1472).                    *)
ServedTTL(i) == IF files.ttl[i] > Len(db.tip) THEN 0 ELSE files.ttl[i]

(* Between calls the proof index is at the tip of the chain, its forest    *)
(* and every one of its files have one entry per block, computed on the    *)
(* chain that is now the best one, whatever was killed, reorganized or     *)
(* caught up before (flatutreexoproofindex.go:159, manager.go:277).        *)
IndexComplete ==
    Running /\ plan.broken = "" =>
        /\ db.tip = db.chain /\ db.plain = db.chain
        /\ forest = db.chain
        /\ \A f \in IF plan.pruned THEN {"undo", "roots"} ELSE {"undo", "roots", "proof", "target", "leaf"} :
              files[f] = [i \in 1 .. Len(db.chain) |-> Prefix(db.chain, i)]
        /\ ~plan.pruned => /\ Len(files.ttl) = Len(db.chain)
                           /\ \A i \in 1 .. Len(db.chain) : ServedTTL(i) = DeathHeight(db.chain, i)

(* No restart fails and no block is refused because the stores disagree    *)
(* (utreexobackend.go:340, flatfile.go:236).                               *)
NeverStuck == plan.broken = "" => ~refused /\ phase # "failed"


=============================================================================
