----------------------------- MODULE BlockChain -----------------------------
(***************************************************************************)
(* Which branch of the block tree a node is on: the block index with its   *)
(* status flags (blockchain/blockindex.go), the orphan pool, the two chain *)
(* views bestChain and bestHeader, and the calls that change them:         *)
(* ProcessBlock and ProcessBlockHeader (process.go, accept.go),            *)
(* InvalidateBlock and ReconsiderBlock (chain.go).                         *)
(*                                                                         *)
(* A call holds chainLock, but releases it while it sends a notification:  *)
(* after every block connected or disconnected, and once per accepted      *)
(* block.  A step is what a call does between two releases, or up to the   *)
(* next database transaction that a crash can separate from it.  Blocks    *)
(* that fail the checks that need no context never get this far.           *)
(***************************************************************************)
EXTENDS BlockTree, Sequences, Functions

CONSTANTS
    Work,       \* [Blocks -> Nat], blockNode.workSum
    Bad,        \* the blocks that checkConnectBlock rejects
    Ops,        \* the calls made: "block", "header", "invalidate", "reconsider"
    Procs,      \* goroutines that call into the chain, of the RPC server and
    NetSync,    \* the one that runs the sync manager's block handler
    NoProc,     \* chainLock is free
    NoBlock,    \* a nil pointer
    MaxOrphans, \* maxOrphanBlocks (100 in the code)
    MaxBusy,    \* bound on the number of calls in progress at a time
    MaxCrashes  \* bound on the number of crashes

ASSUME ChainAssumption ==
    /\ Work \in [Blocks -> Nat]
    /\ \A b \in NonGenesis : Work[b] > Work[Parent[b]]
    /\ Bad \subseteq NonGenesis
    /\ Ops \subseteq {"block", "header", "invalidate", "reconsider"}
    /\ NetSync \in Procs
    /\ NoProc \notin Procs
    /\ NoBlock \notin Blocks
    /\ MaxOrphans \in Nat \ {0}
    /\ MaxBusy \in Nat
    /\ MaxCrashes \in Nat

VARIABLES
    index,      \* the blocks that have a node in the block index
    status,     \* blockNode.status, as a set of flags
    best,       \* tip of bestChain
    header,     \* tip of bestHeader
    orphans,    \* the orphan pool, in order of arrival and so of expiration
    oldest,     \* oldestOrphan
    disk,       \* the index, the flags and the best block in the database
    lock,       \* the holder of chainLock
    job,        \* what each goroutine is in the middle of
    result,     \* what a call returned, if the last step ended one
    crashes     \* the number of crashes so far

indexVars == <<index, status>>
viewVars == <<best, header>>
orphanVars == <<orphans, oldest>>
vars == <<indexVars, viewVars, orphanVars, disk, lock, job, result, crashes>>

-----------------------------------------------------------------------------
(***************************************************************************)
(* Block status                                                            *)
(***************************************************************************)
Flags == {"dataStored", "valid", "validateFailed", "invalidAncestor"}
InvalidFlags == {"validateFailed", "invalidAncestor"}

HaveData(s) == "dataStored" \in s
KnownValid(s) == "valid" \in s
KnownInvalid(s) == s \cap InvalidFlags # {}

SetStatusFlags(st, S, f) == [b \in Blocks |-> IF b \in S THEN st[b] \cup f ELSE st[b]]
UnsetStatusFlags(st, S, f) == [b \in Blocks |-> IF b \in S THEN st[b] \ f ELSE st[b]]

\* blockIndex.HaveBlock: a node that is known by its header only does not count.
HaveBlock(b) == b \in index /\ HaveData(status[b])

\* blockNode.IsAncestor for the nodes of the index: those above n
Descendants(n) == {b \in index \ {n} : n \in Anc[b]}

\* blockIndex.InactiveTips: nodes off the best chain without a child there
InactiveTips ==
    LET off == index \ Anc[best]
    IN  {b \in off : \A c \in off : Parent[c] # b}

\* blockIndex.flushToDB, for an index idx with the flags st
Flushed(idx, st) == [disk EXCEPT !.index = idx, !.status = st]

Dirty == disk # Flushed(index, status)

-----------------------------------------------------------------------------
(***************************************************************************)
(* Reorganisations                                                         *)
(***************************************************************************)

\* Mutant of GetReorganizeNodes: only the parent is checked.
ReorganizeUnchecked(st, node) ==
    IF KnownInvalid(st[Parent[node]])
    THEN [detach |-> {}, attach |-> {},
          status |-> SetStatusFlags(st, {node}, {"invalidAncestor"})]
    ELSE [detach |-> Anc[best] \ Anc[node], attach |-> Anc[node] \ Anc[best],
          status |-> st]

\* getReorganizeNodes: the blocks to detach and to attach, both empty when the
\* branch is known to be invalid; its blocks above the invalid one are marked.
GetReorganizeNodes(st, node) ==
    LET branch == Anc[node] \ Anc[FindFork(best, node)]
        invalid == {n \in branch : KnownInvalid(st[n])}
        above == {n \in branch : \A i \in invalid : Height[n] > Height[i]}
        refuse(S) == [detach |-> {}, attach |-> {},
                      status |-> SetStatusFlags(st, S, {"invalidAncestor"})]
    IN  IF KnownInvalid(st[Parent[node]]) THEN refuse({node})
        ELSE IF invalid # {} THEN refuse(above)
        ELSE [detach |-> Anc[best] \ Anc[node], attach |-> branch, status |-> st]

\* Mutant of VerifyReorganization: the blocks are marked before they are checked.
VerifyMarksFirst(st, a) ==
    LET failing == {n \in a : ~HaveData(st[n]) \/ (n \in Bad /\ ~KnownValid(st[n]))}
    IN  [ok |-> failing = {}, status |-> SetStatusFlags(st, a, {"valid"})]

\* Mutant of VerifyReorganization: a branch that passes is not marked.
VerifyUnmarked(st, a) ==
    [ok |-> \A n \in a : HaveData(st[n]) /\ (n \notin Bad \/ KnownValid(st[n])),
     status |-> st]

\* verifyReorganizationValidity: the blocks to attach are checked upwards.  One
\* without data stops it; one that breaks a rule is marked with those above it.
VerifyReorganization(st, a) ==
    LET failing == {n \in a : ~HaveData(st[n]) \/ (n \in Bad /\ ~KnownValid(st[n]))}
        stop == Lowest(failing)
        below == {n \in a : Height[n] < Height[stop]}
        above == {n \in a : Height[n] > Height[stop]}
        checked == SetStatusFlags(st, below, {"valid"})
    IN  IF failing = {} THEN [ok |-> TRUE, status |-> SetStatusFlags(st, a, {"valid"})]
        ELSE IF ~HaveData(st[stop]) THEN [ok |-> FALSE, status |-> checked]
        ELSE [ok |-> FALSE,
              status |-> SetStatusFlags(SetStatusFlags(checked, {stop}, {"validateFailed"}),
                                        above, {"invalidAncestor"})]

-----------------------------------------------------------------------------
(***************************************************************************)
(* A goroutine inside a call.  pc says what comes next:                    *)
(*   "connect"   connectBestChain for node, which is stored                *)
(*   "connected" the rest of connectBestChain after node extended the tip  *)
(*   "accepted"  the rest of maybeAcceptBlock for node                     *)
(*   "orphans"   processOrphans, with the hashes in queue                  *)
(*   "reorg"     the next block of detach, then of attach, then pc next    *)
(*   "pick"      InvalidateBlock chooses the new tip                       *)
(*   "return"    the end of the call                                       *)
(***************************************************************************)
PCs == {"idle", "connect", "connected", "accepted", "orphans", "reorg", "pick", "return"}

Idle == [pc |-> "idle", next |-> "idle", call |-> "none", arg |-> Genesis,
         node |-> Genesis, main |-> FALSE, onMain |-> FALSE, queue |-> <<>>,
         detach |-> {}, attach |-> {}]

Begin(call, b, pc) == [Idle EXCEPT !.pc = pc, !.call = call, !.arg = b, !.node = b]

\* A job that goes on with reorganizeChain, or after it when there is nothing
\* to do.
Reorganize(j, d, a, next) ==
    [j EXCEPT !.pc = IF d = {} /\ a = {} THEN next ELSE "reorg",
              !.next = next, !.detach = d, !.attach = a]

NoResult == [call |-> "none", arg |-> Genesis, ok |-> FALSE, main |-> FALSE]

MayLock(p) == lock \in {NoProc, p}

\* p may start a call.
MayCall(p, call) ==
    /\ call \in Ops
    /\ lock = NoProc
    /\ job[p] = Idle
    /\ Cardinality({q \in Procs : job[q] # Idle}) < MaxBusy

\* The call j of p returns, with or without an error.
Return(p, j, ok) ==
    /\ job' = [job EXCEPT ![p] = Idle]
    /\ lock' = NoProc
    /\ result' = [call |-> j.call, arg |-> j.arg, ok |-> ok, main |-> j.main]

\* p goes on with j, still holding the lock or having released it on the way.
Continue(p, j, holder) ==
    /\ job' = [job EXCEPT ![p] = j]
    /\ lock' = holder
    /\ result' = NoResult

Init ==
    /\ index = {Genesis}
    /\ status = [b \in Blocks |-> IF b = Genesis THEN {"dataStored", "valid"} ELSE {}]
    /\ best = Genesis
    /\ header = Genesis
    /\ orphans = <<>>
    /\ oldest = NoBlock
    /\ disk = [index |-> index, status |-> status, best |-> Genesis]
    /\ lock = NoProc
    /\ job = [p \in Procs |-> Idle]
    /\ result = NoResult
    /\ crashes = 0

-----------------------------------------------------------------------------
(***************************************************************************)
(* The orphan pool                                                         *)
(***************************************************************************)

\* Mutant of Without: the orphan stays in the pool.
WithoutNone(s, b) == s

\* removeOrphanBlock
Without(s, b) ==
    LET i == CHOOSE i \in DOMAIN s : s[i] = b
    IN  IF b \in Range(s)
        THEN [k \in 1 .. Len(s) - 1 |-> IF k < i THEN s[k] ELSE s[k + 1]]
        ELSE s

\* addOrphanBlock: the expired orphans, a prefix of the pool, are dropped.
\* oldestOrphan is only looked for when it is nil, since no orphan of the pool
\* can be older than one it ever pointed to.
AddOrphanBlock(b) ==
    \E e \in 0 .. Len(orphans) :
        LET rest == SubSeq(orphans, e + 1, Len(orphans))
            old == IF oldest = NoBlock /\ rest # <<>> THEN rest[1] ELSE oldest
            full == Len(rest) + 1 > MaxOrphans
        IN  /\ orphans' = Append(IF full THEN Without(rest, old) ELSE rest, b)
            /\ oldest' = IF full THEN NoBlock ELSE old

-----------------------------------------------------------------------------
(***************************************************************************)
(* Blocks and headers from the network.  A block that is known already is  *)
(* refused without a change.                                               *)
(***************************************************************************)

\* ProcessBlock, for a block whose parent is missing
ProcessOrphanBlock(b) ==
    /\ MayCall(NetSync, "block")
    /\ ~HaveBlock(b)
    /\ b \notin Range(orphans)
    /\ ~HaveBlock(Parent[b])
    /\ AddOrphanBlock(b)
    /\ Return(NetSync, Begin("block", b, "return"), TRUE)
    /\ UNCHANGED <<indexVars, viewVars, disk, crashes>>

\* maybeAcceptBlock up to connectBestChain: the block and its node are stored.
StoreBlock(b) ==
    /\ ~KnownInvalid(status[Parent[b]])
    /\ index' = index \cup {b}
    /\ status' = SetStatusFlags(status, {b}, {"dataStored"})
    /\ disk' = Flushed(index', status')

\* ProcessBlock, for a block whose parent is there
ProcessBlock(b) ==
    /\ MayCall(NetSync, "block")
    /\ ~HaveBlock(b)
    /\ b \notin Range(orphans)
    /\ HaveBlock(Parent[b])
    /\ StoreBlock(b)
    /\ Continue(NetSync, Begin("block", b, "connect"), NetSync)
    /\ UNCHANGED <<viewVars, orphanVars, crashes>>

\* Mutant of MoreWork: branches are compared by their length.
LongerBranch(b) == Height[b] > Height[best]

\* The comparison that decides whether a side chain becomes the main chain
MoreWork(b) == Work[b] > Work[best]

\* connectBestChain up to the first block connected or disconnected.  A block
\* on top of the tip is a branch of one block, whose own status is not looked
\* at.  Status changes are flushed before the best state changes.
ConnectBestChain(p) ==
    LET j == job[p]
        b == j.node
        extends == Parent[b] = best
        r == IF extends THEN [detach |-> {}, attach |-> {b}, status |-> status]
             ELSE GetReorganizeNodes(status, b)
        v == VerifyReorganization(r.status, r.attach)
    IN  /\ j.pc = "connect"
        /\ \/ /\ ~extends /\ ~MoreWork(b)
              /\ Continue(p, [j EXCEPT !.pc = "accepted", !.onMain = FALSE], p)
              /\ UNCHANGED <<status, disk>>
           \/ /\ extends \/ MoreWork(b)
              /\ IF v.ok
                 THEN Continue(p, Reorganize([j EXCEPT !.onMain = TRUE], r.detach, r.attach,
                                      IF extends THEN "connected" ELSE "accepted"), p)
                 ELSE Return(p, j, FALSE)
              /\ status' = v.status
              /\ disk' = Flushed(index, status')
        /\ UNCHANGED <<index, viewVars, orphanVars, crashes>>

\* Mutant of BestHeader: the best header does not follow.
HeaderKept(j) == header

\* The best header after a block was accepted
BestHeader(j) == IF j.onMain /\ Work[j.node] > Work[header] THEN j.node ELSE header

\* The rest of connectBestChain, which makes sure that a block connected on top
\* of the tip is marked valid, and of maybeAcceptBlock, up to its notification.
BlockAccepted(p) ==
    LET j == job[p] IN
    /\ j.pc \in {"connected", "accepted"}
    /\ MayLock(p)
    /\ status' = IF j.pc = "connected" THEN SetStatusFlags(status, {j.node}, {"valid"})
                 ELSE status
    /\ disk' = IF j.pc = "connected" /\ KnownValid(status[j.node]) THEN disk
               ELSE Flushed(index, status')
    /\ header' = BestHeader(j)
    /\ Continue(p, [j EXCEPT !.pc = "orphans", !.queue = Append(@, j.node),
                             !.main = IF j.node = j.arg THEN j.onMain ELSE @], NoProc)
    /\ UNCHANGED <<index, best, orphanVars, crashes>>

\* processOrphans up to the next orphan it hands to maybeAcceptBlock: the first
\* one whose parent comes first in the queue.  The first error ends the call.
ProcessOrphans(p) ==
    LET j == job[p]
        child(i, k) == Parent[orphans[k]] = j.queue[i]
        ready == {i \in DOMAIN j.queue : \E k \in DOMAIN orphans : child(i, k)}
    IN  /\ j.pc = "orphans"
        /\ MayLock(p)
        /\ UNCHANGED <<viewVars, oldest, crashes>>
        /\ \/ /\ ready = {}
              /\ Return(p, j, TRUE)
              /\ UNCHANGED <<indexVars, orphans, disk>>
           \/ \E i \in ready, k \in DOMAIN orphans :
                /\ \A m \in ready : i <= m
                /\ child(i, k) /\ \A m \in 1 .. k - 1 : ~child(i, m)
                /\ orphans' = Without(orphans, orphans[k])
                /\ \/ /\ StoreBlock(orphans[k])
                      /\ Continue(p, [j EXCEPT !.pc = "connect", !.node = orphans[k],
                                        !.queue = SubSeq(@, i, Len(@))], p)
                   \/ /\ KnownInvalid(status[j.queue[i]])
                      /\ Return(p, j, FALSE)
                      /\ UNCHANGED <<indexVars, disk>>

\* ProcessBlockHeader
ProcessBlockHeader(b) ==
    /\ MayCall(NetSync, "header")
    /\ Parent[b] \in index
    /\ ~KnownInvalid(status[b]) /\ ~KnownInvalid(status[Parent[b]])
    /\ ~Contains(header, b)
    /\ index' = index \cup {b}
    /\ disk' = Flushed(index', status)
    /\ header' = IF Parent[b] = header \/ Work[b] > Work[header] THEN b ELSE header
    /\ Return(NetSync, Begin("header", b, "return"), TRUE)
    /\ UNCHANGED <<status, best, orphanVars, crashes>>

-----------------------------------------------------------------------------
(***************************************************************************)
(* reorganizeChain, one block at a time                                    *)
(***************************************************************************)

\* What reorganizeChain does next to which block
NextBlock(j) == IF j.detach # {} THEN Highest(j.detach) ELSE Lowest(j.attach)

\* The first check of disconnectBlock and of connectBlock
AtTip(j) == IF j.detach # {} THEN NextBlock(j) = best ELSE Parent[NextBlock(j)] = best

\* disconnectBlock and connectBlock write status changes in a transaction of
\* their own, ahead of the one with the best state.
FlushIndex(p) ==
    /\ job[p].pc = "reorg"
    /\ MayLock(p)
    /\ AtTip(job[p])
    /\ Dirty
    /\ disk' = Flushed(index, status)
    /\ Continue(p, job[p], p)
    /\ UNCHANGED <<indexVars, viewVars, orphanVars, crashes>>

\* Mutant of MoveTip: the best state is written when a block is connected only.
MoveTipUnsaved(p) ==
    LET j == job[p]
        n == NextBlock(j)
        tip == IF j.detach # {} THEN Parent[n] ELSE n
    IN  /\ j.pc = "reorg"
        /\ MayLock(p)
        /\ AtTip(j)
        /\ ~Dirty
        /\ best' = tip
        /\ disk' = [disk EXCEPT !.best = IF j.detach # {} THEN @ ELSE tip]
        /\ Continue(p, Reorganize(j, j.detach \ {n}, j.attach \ {n}, j.next), NoProc)
        /\ UNCHANGED <<indexVars, header, orphanVars, crashes>>

\* disconnectBlock or connectBlock: the best state is written, the view follows,
\* and the lock is released for the notification.
MoveTip(p) ==
    LET j == job[p]
        n == NextBlock(j)
        tip == IF j.detach # {} THEN Parent[n] ELSE n
    IN  /\ j.pc = "reorg"
        /\ MayLock(p)
        /\ AtTip(j)
        /\ ~Dirty
        /\ best' = tip
        /\ disk' = [disk EXCEPT !.best = tip]
        /\ Continue(p, Reorganize(j, j.detach \ {n}, j.attach \ {n}, j.next), NoProc)
        /\ UNCHANGED <<indexVars, header, orphanVars, crashes>>

\* Mutant of AbortReorganize: the assertion is retried instead of failing.
AbortRetries(p) ==
    /\ job[p].pc = "reorg"
    /\ MayLock(p)
    /\ ~AtTip(job[p])
    /\ Continue(p, job[p], NoProc)
    /\ UNCHANGED <<indexVars, viewVars, orphanVars, disk, crashes>>

\* Another goroutine moved the tip while the lock was released: the assertion
\* fails and the call returns an error.  All but two callers flush the index.
AbortReorganize(p) ==
    LET j == job[p] IN
    /\ j.pc = "reorg"
    /\ MayLock(p)
    /\ ~AtTip(j)
    /\ Return(p, j, FALSE)
    /\ disk' = IF j.next = "pick" \/ j.call = "reconsider" THEN disk
               ELSE Flushed(index, status)
    /\ UNCHANGED <<indexVars, viewVars, orphanVars, crashes>>

\* A call that has nothing left to do but to flush the index, if it does that
EndCall(p) ==
    LET j == job[p] IN
    /\ j.pc = "return"
    /\ MayLock(p)
    /\ Return(p, j, TRUE)
    /\ disk' = IF j.call = "reconsider" THEN disk ELSE Flushed(index, status)
    /\ UNCHANGED <<indexVars, viewVars, orphanVars, crashes>>

-----------------------------------------------------------------------------
(***************************************************************************)
(* InvalidateBlock and ReconsiderBlock, from the RPC server.  On a block    *)
(* that is invalid, or valid, already they return without a change.        *)
(***************************************************************************)

MarkInvalid(st, n, above) ==
    LET marked == {b \in above : ~KnownInvalid(st[b])}
    IN  UnsetStatusFlags(
            SetStatusFlags(SetStatusFlags(st, {n}, {"validateFailed"}),
                           marked, {"invalidAncestor"}),
            marked \cup {n}, {"valid"})

\* InvalidateBlock, for a block that is not on the best chain: the branches from
\* it to the inactive tips hold all its descendants.
InvalidateSideBlock(p, n) ==
    /\ MayCall(p, "invalidate")
    /\ n \in index /\ ~KnownInvalid(status[n])
    /\ ~Contains(best, n)
    /\ status' = MarkInvalid(status, n, Descendants(n))
    /\ disk' = Flushed(index, status')
    /\ Return(p, Begin("invalidate", n, "return"), TRUE)
    /\ UNCHANGED <<index, viewVars, orphanVars, crashes>>

\* InvalidateBlock, for a block of the best chain: the blocks from the tip down
\* to it are marked and will be detached.
InvalidateMainBlock(p, n) ==
    LET above == {b \in Anc[best] \ Anc[n] : ~KnownInvalid(status[b])}
    IN  /\ MayCall(p, "invalidate")
        /\ ~KnownInvalid(status[n])
        /\ Contains(best, n)
        /\ status' = MarkInvalid(status, n, above)
        /\ IF Highest(above \cup {n}) = best
           THEN Continue(p, Reorganize(Begin("invalidate", n, "pick"),
                                       above \cup {n}, {}, "pick"), p)
           ELSE Return(p, Begin("invalidate", n, "return"), FALSE)
        /\ UNCHANGED <<index, viewVars, orphanVars, disk, crashes>>

ValidTips == {t \in InactiveTips \cup {best} : ~KnownInvalid(status[t])}

\* The rest of InvalidateBlock: the tip with the most work that is not known to
\* be invalid is chosen, the active one only if it beats all the others.
PickBestTip(p) ==
    LET j == job[p]
        heaviest == {t \in ValidTips : \A u \in ValidTips : Work[u] <= Work[t]}
    IN  /\ j.pc = "pick"
        /\ MayLock(p)
        /\ UNCHANGED <<index, viewVars, orphanVars, crashes>>
        /\ \/ /\ heaviest = {best}
              /\ Return(p, j, TRUE)
              /\ disk' = Flushed(index, status)
              /\ UNCHANGED status
           \/ \E t \in heaviest \ {best} :
                LET r == GetReorganizeNodes(status, t)
                    v == VerifyReorganization(r.status, r.attach)
                IN  /\ status' = v.status
                    /\ IF v.ok /\ r.attach # {}
                       THEN /\ Continue(p, Reorganize(j, r.detach, r.attach, "return"), p)
                            /\ disk' = Flushed(index, status)
                       ELSE /\ Return(p, j, v.ok)
                            /\ disk' = Flushed(index, status')

\* ReconsiderBlock: the marks are taken off the block and its descendants, and
\* one of the tips above it is tried, the active one if it is among them.
ReconsiderBlock(p, n) ==
    LET above == {t \in InactiveTips \cup {best} : n \in Anc[t]}
        cleared == UnsetStatusFlags(UnsetStatusFlags(status, {n}, InvalidFlags),
                                    Descendants(n), {"invalidAncestor"})
        j == Begin("reconsider", n, "return")
    IN  /\ MayCall(p, "reconsider")
        /\ n \in index /\ ~KnownValid(status[n])
        /\ UNCHANGED <<index, viewVars, orphanVars, crashes>>
        /\ \E t \in IF best \in above THEN {best} ELSE above :
              LET r == GetReorganizeNodes(cleared, t)
                  v == VerifyReorganization(r.status, r.attach)
              IN  IF ~MoreWork(t)
                  THEN status' = cleared /\ Return(p, j, TRUE) /\ UNCHANGED disk
                  ELSE /\ status' = v.status
                       /\ disk' = Flushed(index, status')
                       /\ IF v.ok /\ r.attach # {}
                          THEN Continue(p, Reorganize(j, r.detach, r.attach, "return"), p)
                          ELSE Return(p, j, TRUE)

-----------------------------------------------------------------------------
(***************************************************************************)
(* A crash and the restart after it: initChainState reads the index and    *)
(* the best block back, takes the last node in the order of heights for    *)
(* the best header, and marks the best chain valid.                        *)
(***************************************************************************)
Restart ==
    /\ index' = disk.index
    /\ best' = disk.best
    /\ status' = SetStatusFlags(disk.status, Anc[disk.best], {"valid"})
    /\ disk' = Flushed(index', status')
    /\ header' \in {b \in index' : \A c \in index' : Height[c] <= Height[b]}
    /\ orphans' = <<>>
    /\ oldest' = NoBlock
    /\ lock' = NoProc
    /\ job' = [p \in Procs |-> Idle]
    /\ result' = NoResult

Crash ==
    /\ crashes < MaxCrashes
    /\ crashes' = crashes + 1
    /\ Restart

\* InvalidateBlock finds all tips invalid, hands a nil node to
\* getReorganizeNodes, and the process dies.
NilBestTip(p) ==
    /\ job[p].pc = "pick"
    /\ MayLock(p)
    /\ ValidTips = {}
    /\ Restart
    /\ UNCHANGED crashes

Call ==
    \E b \in NonGenesis :
        \/ ProcessOrphanBlock(b)
        \/ ProcessBlock(b)
        \/ ProcessBlockHeader(b)
        \/ \E p \in Procs \ {NetSync} : \/ InvalidateSideBlock(p, b)
                                       \/ InvalidateMainBlock(p, b)
                                       \/ ReconsiderBlock(p, b)

Step(p) ==
    \/ ConnectBestChain(p)
    \/ BlockAccepted(p)
    \/ ProcessOrphans(p)
    \/ FlushIndex(p)
    \/ MoveTip(p)
    \/ AbortReorganize(p)
    \/ EndCall(p)
    \/ PickBestTip(p)
    \/ NilBestTip(p)

Next ==
    \/ Call
    \/ \E p \in Procs : Step(p)
    \/ Crash

Spec == Init /\ [][Next]_vars

\* A goroutine inside a call keeps running, and sync.RWMutex lets every waiting
\* goroutine in after a while.
FairSpec == Spec /\ \A p \in Procs : SF_vars(Step(p))

-----------------------------------------------------------------------------
(***************************************************************************)
(* Properties                                                              *)
(***************************************************************************)

\* Every variable has its type; the tips of both chain views and all that the
\* block index holds on disk are blocks of the index in memory.
TypeOK ==
    /\ index \subseteq Blocks
    /\ status \in [Blocks -> SUBSET Flags]
    /\ {best, header} \subseteq index
    /\ Range(orphans) \subseteq NonGenesis
    /\ oldest \in NonGenesis \cup {NoBlock}
    /\ disk.index \subseteq index /\ disk.best \in disk.index
    /\ disk.status \in [Blocks -> SUBSET Flags]
    /\ lock \in Procs \cup {NoProc}
    /\ \A p \in Procs : job[p].pc \in PCs /\ job[p].detach \cup job[p].attach \subseteq index
    /\ crashes \in 0 .. MaxCrashes

Quiet == \A p \in Procs : job[p] = Idle

\* No call in progress: every block of the best chain is stored, is marked valid
\* and carries neither of the invalid marks, whatever mix of connects,
\* reorganisations and refused branches led there (connectBestChain,
\* reorganizeChain, InvalidateBlock, ReconsiderBlock).
BestChainClean ==
    Quiet => \A b \in Anc[best] : /\ {"dataStored", "valid"} \subseteq status[b]
                                  /\ ~KnownInvalid(status[b])

\* A mark "valid" can be relied on to skip checkConnectBlock: a block that has it
\* descends from no block that breaks a rule, and the best chain holds none
\* (connectBestChain and verifyReorganizationValidity skip checks on it).
ValidMarkSound ==
    /\ \A b \in index : "valid" \in status[b] => Anc[b] \cap Bad = {}
    /\ Anc[best] \cap Bad = {}

\* No call in progress and no crash so far: no block whose branch is complete,
\* breaks no rule and is not marked invalid has more work than the tip (the work
\* comparison of connectBestChain and InvalidateBlock's choice of a tip).  After
\* a crash a stored block that was not connected waits for a child.
MostWork ==
    Quiet /\ crashes = 0 =>
             \A b \in index :
                (\A a \in Anc[b] \ {Genesis} : /\ a \notin Bad
                                                 /\ HaveData(status[a])
                                                 /\ ~KnownInvalid(status[a]))
                => Work[b] <= Work[best]

\* No call in progress and no crash so far: the best header has at least the work
\* of the best block, which maybeAcceptBlock takes care of for blocks that came
\* without a header.  A restart picks the best header by height.
HeaderLeads == Quiet /\ crashes = 0 => Work[header] >= Work[best]

\* A block waits in the orphan pool at most once, and never once it is stored:
\* ProcessBlock's duplicate check and removeOrphanBlock keep pool and index apart.
OrphanOrStored ==
    /\ IsInjective(orphans)
    /\ \A o \in Range(orphans) : ~HaveBlock(o)

\* The best block on disk is the tip of the best chain, and its whole branch has
\* its nodes on disk, at every moment at which a crash can hit (flushToDB runs
\* ahead of dbPutBestState).
DiskFollows ==
    /\ disk.best = best
    /\ \A b \in Anc[disk.best] : b \in disk.index /\ HaveData(disk.status[b])

\* A call that started ends: a reorganisation whose lock was taken over by
\* another goroutine returns, with an error, unless the process dies.
CallsReturn == \A p \in Procs : job[p] # Idle ~> job[p] = Idle

-----------------------------------------------------------------------------
(***************************************************************************)
(* What comments of the code say, and it does not do                       *)
(***************************************************************************)

\* InvalidateBlock: "If a side branch now has more worksum, it becomes the active
\* chain tip."
SideBranchTakesOver ==
    result.call = "invalidate" /\ result.ok => MostWork

-----------------------------------------------------------------------------
(***************************************************************************)
(* The inductive invariant                                                 *)
(***************************************************************************)

FlagMaps == [Blocks -> SUBSET Flags]

\* A mark "valid" can be relied on.
SoundMarks(st) == \A b \in Blocks : KnownValid(st[b]) => Anc[b] \cap Bad = {}

\* An index idx with the flags st, in memory or on disk: it holds the ancestors
\* of its blocks and every stored block, and its marks are sound.
GoodIndex(idx, st) ==
    /\ idx \subseteq Blocks
    /\ st \in FlagMaps
    /\ SoundMarks(st)
    /\ \A b \in idx : Anc[b] \subseteq idx
    /\ \A b \in Blocks : HaveData(st[b]) => b \in idx

\* Nothing that (idx, st) stores is lost in (idx2, st2).
Grows(idx, st, idx2, st2) ==
    /\ idx \subseteq idx2
    /\ \A b \in Blocks : HaveData(st[b]) => HaveData(st2[b])

\* The index on disk is an earlier one, and the whole best chain is in it.
ChainInv ==
    /\ GoodIndex(index, status)
    /\ disk \in [index : SUBSET Blocks, status : FlagMaps, best : Blocks]
    /\ GoodIndex(disk.index, disk.status)
    /\ Grows(disk.index, disk.status, index, status)
    /\ disk.best = best
    /\ \A b \in Anc[best] : HaveData(disk.status[b]) /\ b \notin Bad
    /\ header \in index

Calls == {"none", "block", "header", "invalidate", "reconsider"}

Jobs == [pc : PCs, next : PCs, call : Calls, arg : Blocks, node : Blocks,
         main : BOOLEAN, onMain : BOOLEAN, queue : Seq(Blocks),
         detach : SUBSET NonGenesis, attach : SUBSET NonGenesis]

\* What a call in progress holds on to while the lock is released: its blocks are
\* in the index, those it will attach are stored and break no rule, and so does
\* the branch of the block it will mark valid.
JobOK(j, idx, st) ==
    /\ j \in Jobs
    /\ j.node \in idx
    /\ j.pc = "connect" => j.node # Genesis
    /\ j.pc = "reorg" => j.next \notin {"connect", "reorg"} /\ j.detach \cup j.attach # {}
    /\ \A i \in DOMAIN j.queue : j.queue[i] \in idx
    /\ j.detach \cup j.attach \subseteq idx
    /\ \E t \in Blocks : j.detach \subseteq Anc[t]
    /\ \E t \in Blocks : j.attach \subseteq Anc[t]
    /\ \A n \in j.attach : HaveData(st[n]) /\ n \notin Bad
    /\ j.pc = "connected" \/ (j.pc = "reorg" /\ j.next = "connected")
          => Anc[j.node] \cap Bad = {}

JobInv ==
    /\ job \in [Procs -> Jobs]
    /\ \A p \in Procs : JobOK(job[p], index, status)

OrphanInv ==
    /\ orphans \in Seq(NonGenesis)
    /\ oldest \in NonGenesis \cup {NoBlock}
    /\ IsInjective(orphans)
    /\ \A i \in DOMAIN orphans : ~HaveData(status[orphans[i]])

\* What every step keeps, whichever calls overlap and wherever a crash falls.
InductiveInv ==
    /\ ChainInv
    /\ JobInv
    /\ OrphanInv
    /\ lock \in Procs \cup {NoProc}
    /\ crashes \in 0 .. MaxCrashes

\* A branch that could be the best chain: its blocks are stored, break no rule and
\* are not marked invalid.
Candidate(st, b) ==
    \A a \in Anc[b] \ {Genesis} : a \notin Bad /\ HaveData(st[a]) /\ ~KnownInvalid(st[a])

\* A node that is only sent blocks and headers: the flags on disk are those in
\* memory, a stored block has its branch stored, header-only blocks are unmarked,
\* and the best chain is valid.
SyncFlags ==
    /\ disk.index = index /\ disk.status = status
    /\ \A b \in Blocks : HaveData(status[b]) => \A a \in Anc[b] : HaveData(status[a])
    /\ \A b \in Blocks : KnownInvalid(status[b]) => HaveData(status[b])
    /\ \A b \in Anc[best] : KnownValid(status[b]) /\ ~KnownInvalid(status[b])

\* Its only call in progress works on stored blocks.  A block to connect is new
\* and unmarked; a reorganisation leads from the tip to the block's branch.
SyncJob ==
    LET j == job[NetSync] IN
    /\ \A p \in Procs \ {NetSync} : job[p] = Idle
    /\ j.pc \in {"idle", "connect", "connected", "accepted", "orphans", "reorg"}
    /\ HaveData(status[j.node])
    /\ \A i \in DOMAIN j.queue : HaveData(status[j.queue[i]])
    /\ j.pc = "connect" => /\ j.node \notin Anc[best]
                           /\ ~KnownInvalid(status[j.node])
                           /\ ~KnownInvalid(status[Parent[j.node]])
    /\ j.pc = "reorg" =>
          /\ j.next \in {"connected", "accepted"} /\ j.onMain
          /\ j.detach = Anc[best] \ Anc[j.node]
          /\ j.attach = Anc[j.node] \ Anc[best]
          /\ \A n \in j.attach : KnownValid(status[n]) /\ ~KnownInvalid(status[n])

\* Until a crash: the best header is behind the tip only while the call that moved
\* the tip goes on, and a branch with more work only while it is being connected.
SyncWork ==
    LET j == job[NetSync] IN
    crashes = 0 =>
       /\ \/ Work[best] <= Work[header]
          \/ j.pc = "reorg"
          \/ j.pc \in {"connected", "accepted"} /\ j.onMain /\ Work[best] <= Work[j.node]
       /\ \A b \in Blocks : Candidate(status, b) =>
             IF j.pc = "reorg" THEN Work[b] <= Work[j.node]
             ELSE Work[b] <= Work[best] \/ (j.pc = "connect" /\ b = j.node)

SyncInv == SyncFlags /\ SyncJob /\ SyncWork
=============================================================================
