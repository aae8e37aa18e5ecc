--------------------------- MODULE UtxoCacheSteps ---------------------------
(***************************************************************************)
(* The steps of UtxoCache keep its inductive invariant: flushes, fetches,  *)
(* the connection of a block, and those of a reorganisation up to the      *)
(* blocks that it attaches.                                                *)
(***************************************************************************)
EXTENDS UtxoCacheLemmas

\* Flushing the cache at the best block.
LEMMA FlushAtBest ==
    ASSUME InductiveInv, Running, disk' = WriteCache(disk, cache, disk.best),
           cache' = NoSlots
    PROVE  /\ disk' \in DiskStates
           /\ disk'.blocks = disk.blocks /\ disk'.best = disk.best
           /\ StoreOK(disk)'
           /\ SlotsOK(cache, disk.utxo)'
           /\ Lookup(cache, disk.utxo)' = UtxoAt[disk'.best]
<1>0. WrittenUtxos(cache, disk.utxo) = UtxoAt[disk.best]
  BY WrittenIsLookup, StateTypes DEF InductiveInv, Consistent
<1>1. UtxoAt[disk.best] \in Utxos
  BY StateTypes, LedgerTypes
<1>2. /\ disk'.utxo = UtxoAt[disk.best] /\ disk'.status = disk.best
      /\ disk'.best = disk.best /\ disk'.blocks = disk.blocks
      /\ disk'.journal = disk.journal /\ disk' \in DiskStates
  BY <1>0, <1>1, StateTypes, Zenon DEF WriteCache, DiskStates, Utxos
<1>3. FindFork(disk.best, disk.best) = disk.best
  BY ForkOfAncestor, StateTypes, TreeTypes
<1>4. StoreOK(disk)'
  BY <1>2, <1>3 DEF InductiveInv, StoreOK, ConsistentAtStatus
<1> QED
  BY <1>1, <1>2, <1>4, EmptyCache

\* The job that a goroutine goes on with after a block keeps its branches.
LEMMA RemainingOK ==
    ASSUME NEW p \in Procs, NEW base \in Blocks, NEW fork \in Blocks,
           NEW target \in disk'.blocks, NEW d, NEW a,
           OnBranches(Job("reorg", d, a), view'[p], base, fork, target),
           job'[p] = Remaining(d, a)
    PROVE  JobOK(p)'
<1>1. CASE d = {} /\ a = {}
  BY <1>1, IdleOK DEF Remaining
<1>2. CASE ~(d = {} /\ a = {})
  <2>1. job'[p] = Job("reorg", d, a)
    BY <1>2 DEF Remaining
  <2>2. /\ job'[p].op = "reorg" /\ job'[p].detach \cup job'[p].attach # {}
    BY <1>2, <2>1 DEF Job
  <2>3. ReorgOK(p)'
    BY <2>1 DEF ReorgOK
  <2> QED
    BY <2>2, <2>3 DEF JobOK, AcceptOK, AttachOK
<1> QED
  BY <1>1, <1>2

\* Jobs stay jobs.
LEMMA RemainingType ==
    ASSUME NEW d \in SUBSET Blocks, NEW a \in SUBSET Blocks
    PROVE  Remaining(d, a) \in Jobs
BY DEF Remaining, Idle, Job, Jobs

\* The flush at the end of connectBlock.
LEMMA FlushIfNeededInv ==
    ASSUME InductiveInv, NEW p \in Procs, FlushIfNeeded(p)
    PROVE  InductiveInv'
<1> USE DEF FlushIfNeeded
<1>r. Running
  BY BusyRuns
<1>j. job[p] \in Jobs /\ job[p].detach \in SUBSET Blocks /\ job[p].attach \in SUBSET Blocks
  BY StateTypes DEF Jobs
<1>d. /\ disk' \in DiskStates /\ disk'.blocks = disk.blocks
      /\ StoreOK(disk)' /\ SlotsOK(cache, disk.utxo)' /\ Consistent'
      /\ cache' \in [Outpoints -> Slots] /\ lastFlush' \in Blocks \cup {NoBlock}
  <2>1. CASE UNCHANGED <<disk, cache, lastFlush>>
    BY <2>1 DEF InductiveInv, TypeOK, StoreOK, ConsistentAtStatus, Consistent, Running
  <2>2. CASE ~UNCHANGED <<disk, cache, lastFlush>>
    <3>1. /\ disk' = WriteCache(disk, cache, disk.best) /\ cache' = NoSlots
          /\ lastFlush' = disk.best
      BY <2>2
    <3>2. cache' \in [Outpoints -> Slots]
      BY <3>1, EmptyCache, StateTypes
    <3> QED
      BY <1>r, <3>1, <3>2, FlushAtBest, StateTypes DEF Consistent
  <2> QED
    BY <2>1, <2>2
<1>1. TypeOK'
  <2>1. job' \in [Procs -> Jobs]
    BY <1>j, StateTypes, RemainingType
  <2>2. lock' \in Procs \cup {NoProc}
    OBVIOUS
  <2> QED
    BY <1>d, <2>1, <2>2 DEF InductiveInv, TypeOK
<1>2. StoreOK(durable)' /\ ReplayOK' /\ StoppedOK'
  BY <1>r DEF InductiveInv, StoreOK, ConsistentAtStatus, ReplayOK, StoppedOK, Running
<1>3. ASSUME NEW q \in Procs
      PROVE  JobOK(q)'
  <2>1. CASE q # p
    <3>1. job[q].op \notin {"accept", "attach"}
      BY <2>1, LockExcludes, ZenonT(30) DEF MayLock
    <3> QED
      BY <3>1, <2>1, <1>d, StateTypes, OthersKeep DEF InductiveInv
  <2>2. CASE q = p
    <3>0. job'[p] = Remaining(job[p].detach, job[p].attach) /\ job[p].detach = {}
      BY StateTypes DEF InductiveInv, JobOK
    <3>1. CASE job[p].attach = {}
      BY <3>0, <3>1, <2>2, IdleOK DEF Remaining
    <3>2. CASE job[p].attach # {}
      <4>1. PICK base \in Blocks, fork \in Blocks, target \in disk.blocks :
              OnBranches(job[p], view[p], base, fork, target)
        BY <3>2 DEF InductiveInv, JobOK, ReorgOK
      <4>2. OnBranches(Job("reorg", job[p].detach, job[p].attach), view'[p], base, fork, target)
        BY <4>1 DEF OnBranches, Job
      <4> QED
        BY <4>2, <3>0, <2>2, <1>d, RemainingOK
    <3> QED
      BY <3>1, <3>2
  <2> QED
    BY <2>1, <2>2
<1> QED
  BY <1>1, <1>2, <1>3, <1>d DEF InductiveInv

\* FlushUtxoCache
LEMMA FlushUtxoCacheInv ==
    ASSUME InductiveInv, FlushUtxoCache
    PROVE  InductiveInv'
<1> USE DEF FlushUtxoCache
<1>d. /\ disk' \in DiskStates /\ disk'.blocks = disk.blocks
      /\ StoreOK(disk)' /\ SlotsOK(cache, disk.utxo)' /\ Consistent'
  BY FlushAtBest DEF Consistent
<1>1. TypeOK'
  BY <1>d, EmptyCache, StateTypes DEF InductiveInv, TypeOK
<1>2. StoreOK(durable)' /\ ReplayOK' /\ StoppedOK'
  BY DEF InductiveInv, StoreOK, ConsistentAtStatus, ReplayOK, StoppedOK, Running
<1>3. ASSUME NEW q \in Procs
      PROVE  JobOK(q)'
  <2>1. job[q].op \notin {"accept", "attach"} /\ JobOK(q)
    BY ProcAssumption DEF InductiveInv, JobOK
  <2> QED
    BY <2>1, <1>d, OthersKeep
<1> QED
  BY <1>1, <1>2, <1>3, <1>d DEF InductiveInv

\* A lookup may load an entry.
LEMMA FetchUtxoInv ==
    ASSUME InductiveInv, NEW o \in Outpoints, FetchUtxo(o)
    PROVE  InductiveInv'
<1> USE DEF FetchUtxo
<1>c. /\ cache' \in [Outpoints -> Slots]
      /\ SlotsOK(cache, disk.utxo)'
      /\ Lookup(cache, disk.utxo)' = Lookup(cache, disk.utxo)
  BY FetchKeeps, StateTypes DEF InductiveInv
<1>1. TypeOK'
  BY <1>c, Zenon DEF InductiveInv, TypeOK
<1>2. /\ StoreOK(disk)' /\ StoreOK(durable)' /\ Consistent' /\ ReplayOK' /\ StoppedOK'
  BY <1>c DEF InductiveInv, StoreOK, ConsistentAtStatus, Consistent, ReplayOK, StoppedOK,
              Running
<1>3. ASSUME NEW q \in Procs
      PROVE  JobOK(q)'
  <2>1. job[q].op \notin {"accept", "attach"} /\ JobOK(q)
    BY ProcAssumption DEF InductiveInv, JobOK
  <2> QED
    BY <2>1, OthersKeep
<1> QED
  BY <1>1, <1>2, <1>3, <1>c DEF InductiveInv

\* Pruning only removes files.
LEMMA PruneKeepsBlocks ==
    ASSUME NEW b \in Blocks, NEW pruned \in PruneBlocks(b), files \subseteq Blocks
    PROVE  pruned.kept \subseteq Blocks
BY DEF PruneBlocks

\* Connecting a block that extends the best chain.
LEMMA ConnectExtendingInv ==
    ASSUME InductiveInv, NEW p \in Procs, ConnectExtending(p)
    PROVE  InductiveInv'
<1> USE DEF ConnectExtending
<1>r. Running
  BY BusyRuns
<1>b. PICK b \in disk.blocks \ {Genesis} : /\ job[p] = Job("accept", {}, {b})
                                          /\ Parent[b] = disk.best
                                          /\ b \notin Anc[disk.status]
  BY DEF InductiveInv, JobOK, AcceptOK
<1>n. b \in NonGenesis /\ b \in Blocks /\ UtxoAt[b] \in Utxos
  BY <1>b, StateTypes, LedgerTypes DEF NonGenesis
<1> DEFINE loaded == FetchEntries(cache, disk.utxo, Spends[b])
           c == ConnectTransactions(cache, disk.utxo, b)
           stxos == SpentTxOuts(loaded, b)
           d == [disk EXCEPT !.best = b, !.journal[b] = stxos]
<1>a. PICK pruned \in PruneBlocks(b) :
         /\ files' = pruned.kept
         /\ IF FlushNeededAfterPrune(pruned.earliest)
            THEN /\ disk' = WriteCache(d, c, b) /\ cache' = NoSlots /\ lastFlush' = b
            ELSE /\ disk' = d /\ cache' = c /\ UNCHANGED lastFlush
  BY <1>b DEF Job
<1>u. /\ Lookup(cache, disk.utxo) = UtxoAt[Parent[b]]
      /\ SlotsOK(cache, disk.utxo)
      /\ cache \in [Outpoints -> Slots] /\ disk.utxo \in Utxos
  BY <1>r, <1>b, StateTypes DEF InductiveInv, Consistent
<1>f. /\ FindFork(disk.best, disk.status) \in Anc[Parent[b]]
      /\ disk.utxo = UtxoAt[FindFork(disk.best, disk.status)]
  BY <1>b, ForkOnBoth, StateTypes DEF InductiveInv, StoreOK, ConsistentAtStatus
<1>c. /\ c \in [Outpoints -> Slots]
      /\ SlotsOK(c, disk.utxo)
      /\ Lookup(c, disk.utxo) = UtxoAt[b]
  BY <1>u, <1>f, <1>n, ConnectLookup
<1>s. /\ stxos \in Utxos
      /\ \A o \in Spends[b] : stxos[o] = UtxoAt[Parent[b]][o]
  <2>1. \A o \in Spends[b] : /\ loaded[o] \in Slots
                             /\ loaded[o].height = UtxoAt[Parent[b]][o]
    BY <1>u, <1>n, InputsFound
  <2>2. Spends[b] \subseteq Outpoints
    BY <1>n, LedgerTypes
  <2> QED
    BY <2>1, <2>2 DEF SpentTxOuts, Utxos, Slots, Absent
<1>d. /\ d \in DiskStates /\ d.best = b /\ d.status = disk.status
      /\ d.utxo = disk.utxo /\ d.blocks = disk.blocks
      /\ d.journal = [disk.journal EXCEPT ![b] = stxos]
  BY <1>n, <1>s, StateTypes, Zenon DEF DiskStates, Utxos
<1>j. \A x \in Anc[b] \ {Genesis} :
         \A o \in Spends[x] : d.journal[x][o] = UtxoAt[Parent[x]][o]
  <2>1. Anc[b] = Anc[disk.best] \cup {b} /\ Anc[b] \subseteq Blocks
    BY <1>b, <1>n, ChildFacts, TreeTypes
  <2>2. \A x \in Anc[disk.best] \ {Genesis} :
          \A o \in Spends[x] : disk.journal[x][o] = UtxoAt[Parent[x]][o]
    BY DEF InductiveInv, StoreOK
  <2>3. \A x \in Blocks : d.journal[x] = IF x = b THEN stxos ELSE disk.journal[x]
    BY <1>d, StateTypes DEF DiskStates
  <2> HIDE DEF stxos, d
  <2> QED
    BY <2>1, <2>2, <2>3, <1>s
<1>m. /\ disk' \in DiskStates /\ disk'.blocks = disk.blocks
      /\ disk'.best = b
      /\ StoreOK(disk)' /\ SlotsOK(cache, disk.utxo)'
      /\ Lookup(cache, disk.utxo)' = UtxoAt[b]
      /\ cache' \in [Outpoints -> Slots] /\ lastFlush' \in Blocks \cup {NoBlock}
  <2>1. CASE FlushNeededAfterPrune(pruned.earliest)
    <3>0. disk' = WriteCache(d, c, b) /\ cache' = NoSlots /\ lastFlush' = b
      BY <1>a, <2>1
    <3>1. WrittenUtxos(c, disk.utxo) = UtxoAt[b]
      BY <1>c, <1>u, WrittenIsLookup
    <3>2. /\ disk' \in DiskStates /\ disk'.utxo = UtxoAt[b] /\ disk'.status = b
          /\ disk'.best = b /\ disk'.blocks = disk.blocks /\ disk'.journal = d.journal
      BY <3>0, <3>1, <1>d, <1>n, Zenon DEF WriteCache, DiskStates, Utxos
    <3>3. FindFork(b, b) = b
      BY <1>n, ForkOfAncestor, TreeTypes
    <3>4. StoreOK(disk)'
      <4>1. b \in disk.blocks /\ \A x \in disk.blocks : Anc[x] \subseteq disk.blocks
        BY <1>b DEF InductiveInv, StoreOK
      <4> HIDE DEF d, c
      <4>2. /\ {disk'.best, disk'.status} \subseteq disk'.blocks
            /\ \A x \in disk'.blocks : Anc[x] \subseteq disk'.blocks
        BY <3>2, <4>1
      <4>3. \A x \in Anc[disk'.best] \ {Genesis} :
               \A o \in Spends[x] : disk'.journal[x][o] = UtxoAt[Parent[x]][o]
        BY <3>2, <1>j
      <4>4. ConsistentAtStatus(disk)'
        BY <3>2, <3>3 DEF ConsistentAtStatus
      <4> QED
        BY <4>2, <4>3, <4>4 DEF StoreOK
    <3> QED
      BY <3>0, <3>2, <3>4, <1>n, EmptyCache
  <2>2. CASE ~FlushNeededAfterPrune(pruned.earliest)
    <3>0. disk' = d /\ cache' = c /\ lastFlush' = lastFlush
      BY <1>a, <2>2
    <3>1. FindFork(b, disk.status) = FindFork(disk.best, disk.status)
      BY <1>b, <1>n, ForkOfExtended, StateTypes
    <3>2. StoreOK(disk)'
      <4>1. StoreOK(disk)
        BY DEF InductiveInv
      <4>2. /\ disk'.best = b /\ disk'.status = disk.status /\ disk'.utxo = disk.utxo
            /\ disk'.blocks = disk.blocks /\ disk'.journal = d.journal
        BY <3>0, <1>d
      <4> HIDE DEF d
      <4> QED
        BY <4>1, <4>2, <3>1, <1>b, <1>j DEF StoreOK, ConsistentAtStatus
    <3> QED
      BY <3>0, <3>2, <1>c, <1>d DEF InductiveInv, TypeOK
  <2> QED
    BY <2>1, <2>2
<1>1. TypeOK'
  <2>1. job' \in [Procs -> Jobs]
    BY StateTypes DEF Job, Jobs
  <2>2. files' \subseteq Blocks
    BY <1>a, <1>n, StateTypes, PruneKeepsBlocks
  <2> QED
    BY <1>m, <2>1, <2>2 DEF InductiveInv, TypeOK
<1>2. StoreOK(durable)' /\ Consistent' /\ ReplayOK' /\ StoppedOK'
  BY <1>r, <1>m DEF InductiveInv, StoreOK, ConsistentAtStatus, Consistent, ReplayOK,
                    StoppedOK, Running
<1>3. ASSUME NEW q \in Procs
      PROVE  JobOK(q)'
  <2>1. CASE q # p
    <3>1. job[q].op \notin {"accept", "attach"}
      BY <2>1, LockExcludes DEF MayLock
    <3> QED
      BY <3>1, <2>1, <1>m, StateTypes, OthersKeep DEF InductiveInv
  <2>2. CASE q = p
    <3>1. job'[p] = Job("notify", {}, {})
      BY StateTypes
    <3> QED
      BY <3>1, <2>2 DEF JobOK, AcceptOK, ReorgOK, AttachOK, Job
  <2> QED
    BY <2>1, <2>2
<1> QED
  BY <1>1, <1>2, <1>3, <1>m DEF InductiveInv

\* A reorganisation starts with an empty view of the best block.
LEMMA StartReorganizeInv ==
    ASSUME InductiveInv, NEW p \in Procs, NEW target \in Blocks,
           StartReorganize(p, target)
    PROVE  InductiveInv'
<1> USE DEF StartReorganize
<1> DEFINE d == Anc[disk.best] \ Anc[target]
           a == Anc[target] \ Anc[disk.best]
           fork == FindFork(disk.best, target)
<1>c. /\ cache' \in [Outpoints -> Slots]
      /\ SlotsOK(cache, disk.utxo)'
      /\ Lookup(cache, disk.utxo)' = Lookup(cache, disk.utxo)
  BY FetchKeeps, StateTypes DEF InductiveInv
<1>0. /\ d \subseteq Blocks /\ a \subseteq Blocks
      /\ job' = [job EXCEPT ![p] = Job("reorg", d, a)]
      /\ view' = [view EXCEPT ![p] = NoSlots]
      /\ NoSlots \in [Outpoints -> Slots]
  BY StateTypes, TreeTypes, EmptyCache
<1>1. TypeOK'
  <2>1. job' \in [Procs -> Jobs] /\ view' \in [Procs -> [Outpoints -> Slots]]
    <3> HIDE DEF StartReorganize, d, a
    <3>1. Job("reorg", d, a) \in Jobs
      BY <1>0 DEF Job, Jobs
    <3> QED
      BY <1>0, <3>1, StateTypes
  <2> QED
    BY <1>c, <2>1, Zenon DEF InductiveInv, TypeOK
<1>2. /\ StoreOK(disk)' /\ StoreOK(durable)' /\ Consistent' /\ ReplayOK' /\ StoppedOK'
  BY <1>c, ZenonT(30) DEF InductiveInv, StoreOK, ConsistentAtStatus, Consistent, ReplayOK, StoppedOK,
              Running
<1>3. ASSUME NEW q \in Procs
      PROVE  JobOK(q)'
  <2>1. CASE q # p
    <3>1. job[q].op \notin {"accept", "attach"} /\ JobOK(q)
      BY ProcAssumption DEF InductiveInv, JobOK
    <3>2. job'[q] = job[q] /\ view'[q] = view[q]
      BY <2>1, <1>0, StateTypes
    <3> QED
      BY <3>1, <3>2, OthersKeep, Zenon
  <2>2. CASE q = p
    <3>1. job'[p] = Job("reorg", d, a) /\ view'[p] = NoSlots
      BY <1>0, StateTypes
    <3>2. fork \in Anc[disk.best] \cap Anc[target] /\ fork \in Blocks
      BY ForkOnBoth, StateTypes, TreeTypes
    <3>3. d = Anc[disk.best] \ Anc[fork] /\ a = Anc[target] \ Anc[fork]
      BY ForkIsMeet, StateTypes
    <3>4. ViewOK(NoSlots, disk.best)
      BY DEF ViewOK, NoSlots, Missing
    <3>5. d \cup a # {}
      <4>1. disk.best \in Anc[disk.best] /\ target \in Anc[target] /\ target # disk.best
        BY StateTypes, TreeTypes
      <4>2. target \in Anc[disk.best] => disk.best \notin Anc[target]
        BY <4>1, AncestorFacts, StateTypes
      <4> QED
        BY <4>1, <4>2
    <3>6. OnBranches(job'[p], view'[p], disk.best, fork, target)
      <4> HIDE DEF StartReorganize, d, a, fork
      <4>1. job'[p].detach = d /\ job'[p].attach = a
        BY <3>1 DEF Job
      <4> QED
        BY <3>1, <3>2, <3>3, <3>4, <4>1 DEF OnBranches
    <3>7. ReorgOK(p)'
      BY <3>2, <3>6, StateTypes DEF ReorgOK
    <3> HIDE DEF StartReorganize, d, a, fork
    <3>8. job'[p].op = "reorg" /\ job'[p].detach = d /\ job'[p].attach = a
      BY <3>1 DEF Job
    <3>9. AcceptOK(p)' /\ AttachOK(p)'
      BY <3>8 DEF AcceptOK, AttachOK
    <3> QED
      BY <3>5, <3>7, <3>8, <3>9, <2>2 DEF JobOK
  <2> QED
    BY <2>1, <2>2
<1> QED
  BY <1>1, <1>2, <1>3, <1>c DEF InductiveInv

\* Detaching the best block.
LEMMA DisconnectBlockInv ==
    ASSUME InductiveInv, NEW p \in Procs, DisconnectBlock(p)
    PROVE  InductiveInv'
<1> USE DEF DisconnectBlock
<1>r. Running
  BY BusyRuns
<1>b. PICK base \in Blocks, fork \in Blocks, target \in disk.blocks :
         OnBranches(job[p], view[p], base, fork, target)
  BY DEF InductiveInv, JobOK, ReorgOK
<1>n. /\ fork # base /\ fork \in Anc[base] /\ Highest(job[p].detach) = base
      /\ base = disk.best /\ base \in NonGenesis /\ ViewOK(view[p], base)
  BY <1>b, HighestOfBranch DEF OnBranches, TipIs
<1> DEFINE prev == Parent[base]
           u == disk.utxo
           c == FetchEntries(cache, u, InputsToFetch(view[p], base))
           fetched == FetchInputUtxos(view[p], cache, u, base)
           v == ViewDisconnect(fetched, base, disk.journal[base])
<1>a. /\ disk' = [WriteCache(disk, c, prev) EXCEPT !.utxo = PutUtxoView(v, @), !.best = prev]
      /\ lastFlush' = prev
      /\ view' = [view EXCEPT ![p] = Commit(v)]
      /\ job' = [job EXCEPT ![p] = Remaining(job[p].detach \ {base}, job[p].attach)]
      /\ cache' = NoSlots
      /\ UNCHANGED <<durable, files, mode, replayed, crashes>>
      /\ lock' = NoProc /\ MayLock(p)
  BY <1>n
<1> HIDE DEF DisconnectBlock
<1>p. /\ prev \in Blocks /\ prev \in Anc[base] /\ UtxoAt[prev] \in Utxos
      /\ view[p] \in [Outpoints -> Slots]
  BY <1>n, ChildFacts, LedgerTypes, StateTypes
<1>w. WrittenUtxos(c, u) = UtxoAt[base]
  <2>1. /\ c \in [Outpoints -> Slots] /\ SlotsOK(c, u) /\ u \in Utxos
        /\ Lookup(c, u) = UtxoAt[base]
    BY <1>r, <1>n, FetchKeeps, StateTypes DEF InductiveInv, Consistent
  <2> QED
    BY <2>1, WrittenIsLookup
<1>v. /\ PutUtxoView(v, UtxoAt[base]) = UtxoAt[prev]
      /\ Commit(v) \in [Outpoints -> Slots]
      /\ ViewOK(Commit(v), prev)
  <2>1. fetched \in [Outpoints -> Slots]
    <3>1. FetchEntries(cache, u, Spends[base]) \in [Outpoints -> Slots]
      BY FetchKeeps, StateTypes DEF InductiveInv
    <3> QED
      BY <3>1, <1>p DEF FetchInputUtxos
  <2>2. \A o \in Outpoints \ Spends[base] : fetched[o] = view[p][o]
    BY DEF FetchInputUtxos, InputsToFetch
  <2>3. \A o \in Outpoints \ Spends[base] :
           IF fetched[o].kind = "entry"
           THEN ~IsSpent(fetched[o]) /\ fetched[o].height = UtxoAt[base][o]
           ELSE fetched[o].kind = "missing" /\ fetched[o].flags = {}
    BY <2>2, <1>n DEF ViewOK
  <2>4. /\ disk.journal[base] \in Utxos
        /\ \A o \in Spends[base] : disk.journal[base][o] = UtxoAt[prev][o]
    <3>1. base \in Anc[disk.best] \ {Genesis}
      BY <1>n, TreeTypes DEF NonGenesis
    <3> QED
      BY <3>1, StateTypes DEF InductiveInv, StoreOK
  <2> QED
    BY <2>1, <2>3, <2>4, <1>n, DisconnectView
<1>d. /\ disk' \in DiskStates /\ disk'.utxo = UtxoAt[prev] /\ disk'.status = prev
      /\ disk'.best = prev /\ disk'.blocks = disk.blocks /\ disk'.journal = disk.journal
  <2> DEFINE e == WriteCache(disk, c, prev)
  <2>1. /\ e.utxo = UtxoAt[base] /\ e.status = prev /\ e.best = disk.best
        /\ e.blocks = disk.blocks /\ e.journal = disk.journal /\ e \in DiskStates
    <3>1. UtxoAt[base] \in Utxos
      BY LedgerTypes
    <3> QED
      BY <3>1, <1>w, <1>p, StateTypes, Zenon DEF WriteCache, DiskStates, Utxos
  <2>2. disk' = [e EXCEPT !.utxo = UtxoAt[prev], !.best = prev]
    BY <2>1, <1>a, <1>v
  <2> HIDE DEF e
  <2> QED
    BY <2>1, <2>2, <1>p, Zenon DEF DiskStates, Utxos
<1>s. StoreOK(disk)'
  <2>1. FindFork(prev, prev) = prev
    BY <1>p, ForkOfAncestor, TreeTypes
  <2>2. prev \in disk.blocks /\ Anc[prev] \subseteq Anc[base]
    BY <1>p, <1>n, AncestorFacts DEF InductiveInv, StoreOK
  <2> QED
    <3>1. /\ \A b \in disk.blocks : Anc[b] \subseteq disk.blocks
          /\ \A b \in Anc[base] \ {Genesis} :
                \A o \in Spends[b] : disk.journal[b][o] = UtxoAt[Parent[b]][o]
      BY <1>n DEF InductiveInv, StoreOK
    <3> QED
      BY <1>d, <2>1, <2>2, <3>1 DEF StoreOK, ConsistentAtStatus
<1>c. SlotsOK(cache, disk.utxo)' /\ Consistent' /\ cache' \in [Outpoints -> Slots]
  BY <1>a, <1>d, <1>p, EmptyCache DEF Consistent
<1>1. TypeOK'
  <2>1. job[p].detach \ {base} \in SUBSET Blocks /\ job[p].attach \in SUBSET Blocks
    BY StateTypes DEF Jobs
  <2>2. job' \in [Procs -> Jobs] /\ view' \in [Procs -> [Outpoints -> Slots]]
    BY <2>1, <1>a, <1>v, StateTypes, RemainingType
  <2> QED
    BY <1>a, <1>c, <1>d, <1>p, <2>2 DEF InductiveInv, TypeOK
<1>2. StoreOK(durable)' /\ ReplayOK' /\ StoppedOK'
  BY <1>r, <1>a DEF InductiveInv, StoreOK, ConsistentAtStatus, ReplayOK, StoppedOK, Running
<1>3. ASSUME NEW q \in Procs
      PROVE  JobOK(q)'
  <2>1. CASE q # p
    <3>1. job[q].op \notin {"accept", "attach"}
      BY <2>1, <1>a, LockExcludes
    <3>2. job'[q] = job[q] /\ view'[q] = view[q]
      BY <2>1, <1>a, StateTypes
    <3> QED
      BY <3>1, <3>2, <1>d, OthersKeep DEF InductiveInv
  <2>2. CASE q = p
    <3>1. /\ job'[p] = Remaining(job[p].detach \ {base}, job[p].attach)
          /\ view'[p] = Commit(v)
      BY <1>a, StateTypes
    <3>2. /\ fork \in Anc[prev]
          /\ job[p].detach \ {base} = Anc[prev] \ Anc[fork]
      <4>1. fork \in Anc[base] /\ job[p].detach = Anc[base] \ Anc[fork] /\ fork # base
        BY <1>b, <1>n DEF OnBranches
      <4>2. /\ fork \in Anc[Parent[base]]
            /\ (Anc[base] \ Anc[fork]) \ {base} = Anc[Parent[base]] \ Anc[fork]
        BY <4>1, BranchSteps
      <4> QED
        BY <4>1, <4>2
    <3>3. OnBranches(Job("reorg", job[p].detach \ {base}, job[p].attach), view'[p],
                     prev, fork, target)
      BY <1>b, <1>v, <3>1, <3>2 DEF OnBranches, Job
    <3> QED
      BY <2>2, <3>1, <3>3, <1>p, <1>d, RemainingOK
  <2> QED
    BY <2>1, <2>2
<1> QED
  BY <1>1, <1>2, <1>3, <1>c, <1>s DEF InductiveInv

\* Without a block to detach, a reorganisation is at its fork point, and the
\* next block to attach is a child of it.
LEMMA NextAttached ==
    ASSUME NEW j \in Jobs, NEW v \in [Outpoints -> Slots],
           NEW base \in Blocks, NEW fork \in Blocks, NEW target \in Blocks,
           OnBranches(j, v, base, fork, target), j.detach = {}, j.attach # {}
    PROVE  LET n == Lowest(j.attach)
           IN  /\ base = fork
               /\ Parent[n] = base
               /\ n \in NonGenesis
               /\ n \in Anc[target]
               /\ j.attach \ {n} = Anc[target] \ Anc[n]
<1>1. base = fork
  BY HighestOfBranch DEF OnBranches
<1>2. fork \in Anc[target] /\ fork # target
  BY DEF OnBranches
<1> QED
  BY <1>1, <1>2, LowestOfBranch, BranchSteps DEF OnBranches

\* The flush before a block is attached.
LEMMA FlushBeforeAttachInv ==
    ASSUME InductiveInv, NEW p \in Procs, FlushBeforeAttach(p)
    PROVE  InductiveInv'
<1> USE DEF FlushBeforeAttach
<1>r. Running
  BY BusyRuns
<1>b. PICK base \in Blocks, fork \in Blocks, target \in disk.blocks :
         OnBranches(job[p], view[p], base, fork, target)
  BY DEF InductiveInv, JobOK, ReorgOK
<1> DEFINE n == Lowest(job[p].attach)
           u == disk.utxo
           c == FetchEntries(cache, u, InputsToFetch(view[p], n))
           v == FetchInputUtxos(view[p], cache, u, n)
<1>a. /\ disk' = WriteCache(disk, c, n) /\ lastFlush' = n
      /\ view' = [view EXCEPT ![p] = v]
      /\ job' = [job EXCEPT ![p].op = "attach"]
      /\ cache' = NoSlots
      /\ UNCHANGED <<durable, files, mode, replayed, crashes>>
      /\ lock' = p /\ MayLock(p)
      /\ job[p].detach = {} /\ job[p].attach # {} /\ Parent[n] = disk.best
  BY DEF TipIs
<1> HIDE DEF FlushBeforeAttach
<1>n. /\ Parent[n] = base /\ base = disk.best /\ n \in NonGenesis /\ n \in Blocks
      /\ n \in disk.blocks /\ ViewOK(view[p], base)
  <2>1. target \in Blocks /\ Anc[target] \subseteq disk.blocks
    BY StateTypes DEF InductiveInv, StoreOK
  <2>j. /\ job[p] \in Jobs /\ view[p] \in [Outpoints -> Slots]
        /\ job[p].detach = {} /\ job[p].attach # {}
    BY <1>a, StateTypes
  <2>2. /\ base = fork /\ Parent[n] = base /\ n \in NonGenesis /\ n \in Anc[target]
    <3> DEFINE j == job[p]
               w == view[p]
               m == Lowest(j.attach)
    <3>1. /\ j \in Jobs /\ j.detach = {} /\ j.attach # {} /\ w \in [Outpoints -> Slots]
          /\ OnBranches(j, w, base, fork, target) /\ target \in Blocks
      BY <1>b, <2>1, <2>j
    <3> HIDE DEF j, w
    <3>2. base = fork /\ Parent[m] = base /\ m \in NonGenesis /\ m \in Anc[target]
      BY <3>1, NextAttached
    <3>3. n = m
      BY DEF j
    <3> HIDE DEF n, m
    <3> QED
      BY <3>2, <3>3
  <2> QED
    BY <1>a, <1>b, <2>1, <2>2, TreeTypes DEF OnBranches
<1>u. /\ Lookup(cache, u) = UtxoAt[base] /\ SlotsOK(cache, u)
      /\ cache \in [Outpoints -> Slots] /\ u \in Utxos
      /\ UtxoAt[base] \in Utxos
  BY <1>r, <1>n, StateTypes, LedgerTypes DEF InductiveInv, Consistent
<1>w. WrittenUtxos(c, u) = UtxoAt[base]
  <2>1. c \in [Outpoints -> Slots] /\ SlotsOK(c, u) /\ Lookup(c, u) = UtxoAt[base]
    BY <1>u, FetchKeeps
  <2> QED
    BY <1>u, <2>1, WrittenIsLookup
<1>v. /\ v \in [Outpoints -> Slots] /\ ViewOK(v, base)
      /\ \A o \in Spends[n] : v[o].kind = "entry"
  <2> HIDE DEF n
  <2>1. /\ view[p] \in [Outpoints -> Slots]
        /\ ViewOK(view[p], Parent[n])
        /\ Lookup(cache, u) = UtxoAt[Parent[n]]
    BY <1>u, <1>n, StateTypes
  <2>2. /\ v \in [Outpoints -> Slots] /\ ViewOK(v, Parent[n])
        /\ \A o \in Spends[n] : v[o].kind = "entry"
    BY <1>u, <1>n, <2>1, FetchedView
  <2> QED
    BY <1>n, <2>2
<1>d. /\ disk' \in DiskStates /\ disk'.utxo = UtxoAt[base] /\ disk'.status = n
      /\ disk'.best = disk.best /\ disk'.blocks = disk.blocks
      /\ disk'.journal = disk.journal
  BY <1>a, <1>w, <1>u, <1>n, StateTypes, Zenon DEF WriteCache, DiskStates, Utxos
<1>s. StoreOK(disk)'
  <2>1. FindFork(base, n) = base
    BY <1>n, ForkOfChild
  <2>2. StoreOK(disk)
    BY DEF InductiveInv
  <2> HIDE DEF n
  <2>3. {disk'.best, disk'.status} \subseteq disk'.blocks
    BY <1>d, <1>n, <2>2 DEF StoreOK
  <2>4. disk'.utxo = UtxoAt[FindFork(disk'.best, disk'.status)]
    BY <1>d, <1>n, <2>1
  <2>5. /\ \A b \in disk.blocks : Anc[b] \subseteq disk.blocks
        /\ \A b \in Anc[disk.best] \ {Genesis} :
              \A o \in Spends[b] : disk.journal[b][o] = UtxoAt[Parent[b]][o]
    BY <2>2 DEF StoreOK
  <2>6. /\ \A b \in disk'.blocks : Anc[b] \subseteq disk'.blocks
        /\ \A b \in Anc[disk'.best] \ {Genesis} :
              \A o \in Spends[b] : disk'.journal[b][o] = UtxoAt[Parent[b]][o]
    BY <1>d, <2>5
  <2>7. ConsistentAtStatus(disk)'
    BY <2>4 DEF ConsistentAtStatus
  <2> QED
    BY <2>3, <2>6, <2>7 DEF StoreOK
<1>c. SlotsOK(cache, disk.utxo)' /\ Consistent' /\ cache' \in [Outpoints -> Slots]
  BY <1>a, <1>d, <1>u, <1>n, EmptyCache DEF Consistent
<1>j. job'[p] = [job[p] EXCEPT !.op = "attach"] /\ view'[p] = v
  BY <1>a, StateTypes
<1>k. /\ job'[p].op = "attach" /\ job'[p].detach = {} /\ job'[p].attach = job[p].attach
      /\ job'[p] \in Jobs
  BY <1>a, <1>j, StateTypes DEF Jobs
<1>1. TypeOK'
  <2>1. job' \in [Procs -> Jobs] /\ view' \in [Procs -> [Outpoints -> Slots]]
    BY <1>a, <1>j, <1>k, <1>v, StateTypes
  <2> QED
    BY <1>a, <1>c, <1>d, <1>n, <2>1 DEF InductiveInv, TypeOK
<1>2. StoreOK(durable)' /\ ReplayOK' /\ StoppedOK'
  BY <1>r, <1>a DEF InductiveInv, StoreOK, ConsistentAtStatus, ReplayOK, StoppedOK, Running
<1>3. ASSUME NEW q \in Procs
      PROVE  JobOK(q)'
  <2>1. CASE q # p
    <3>1. job[q].op \notin {"accept", "attach"}
      BY <2>1, <1>a, LockExcludes
    <3>2. job'[q] = job[q] /\ view'[q] = view[q]
      BY <2>1, <1>a, StateTypes
    <3> QED
      BY <3>1, <3>2, <1>d, OthersKeep DEF InductiveInv
  <2>2. CASE q = p
    <3>1. OnBranches(job'[p], view'[p], base, fork, target)
      BY <1>a, <1>b, <1>j, <1>k, <1>v DEF OnBranches
    <3>2. ReorgOK(p)'
      BY <3>1, <1>d DEF ReorgOK
    <3>3. AttachOK(p)'
      BY <1>a, <1>d, <1>j, <1>k, <1>n, <1>v DEF AttachOK
    <3> QED
      BY <2>2, <3>2, <3>3, <1>a, <1>k DEF JobOK, AcceptOK
  <2> QED
    BY <2>1, <2>2
<1> QED
  BY <1>1, <1>2, <1>3, <1>c, <1>s DEF InductiveInv

=============================================================================
