-------------------------- MODULE BlockChainProofs --------------------------
(***************************************************************************)
(* The block index, the chain views and the orphan pool keep their         *)
(* invariants for every tree of blocks, any number of goroutines inside    *)
(* calls at once and any number of crashes.                                *)
(***************************************************************************)
EXTENDS BlockChainSteps

\* disconnectBlock or connectBlock: the next block lies on the tip or is the tip,
\* and after the flush it is stored on disk too.
LEMMA MoveTipStep ==
    ASSUME InductiveInv, NEW p \in Procs, MoveTip(p)
    PROVE  InductiveInv'
<1> DEFINE j == job[p]
           n == NextBlock(j)
           tip == IF j.detach # {} THEN Parent[n] ELSE n
           k == Reorganize(j, j.detach \ {n}, j.attach \ {n}, j.next)
<1>1. /\ JobOK(j, index, status) /\ j \in Jobs /\ j.next \in PCs
      /\ j.detach \in SUBSET NonGenesis /\ j.attach \in SUBSET NonGenesis
  BY Reached DEF JobOK, Jobs
<1>2. /\ j.pc = "reorg" /\ AtTip(j) /\ ~Dirty
      /\ best' = tip /\ disk' = [disk EXCEPT !.best = tip]
      /\ job' = [job EXCEPT ![p] = k] /\ lock' = NoProc
      /\ UNCHANGED <<index, status, header, orphans, oldest, crashes>>
  BY DEF MoveTip, Continue, indexVars, orphanVars
<1>3. disk.index = index /\ disk.status = status
  BY <1>2 DEF Dirty, Flushed, InductiveInv, ChainInv
<1>4. PICK t \in Blocks, u \in Blocks : j.detach \subseteq Anc[t] /\ j.attach \subseteq Anc[u]
  BY <1>1 DEF JobOK
<1>5. tip \in Blocks /\ \A b \in Anc[tip] : HaveData(status[b]) /\ b \notin Bad
  <2>1. CASE j.detach # {}
    <3>1. n = Highest(j.detach) /\ n = best /\ tip = Parent[best]
      BY <1>2, <2>1 DEF AtTip, NextBlock
    <3>2. best \in NonGenesis
      BY <1>1, <1>4, <2>1, <3>1, HighestExists
    <3>3. tip \in Blocks /\ Anc[tip] \subseteq Anc[best]
      BY <3>1, <3>2, ChildFacts
    <3> QED
      BY <1>3, <3>3 DEF InductiveInv, ChainInv
  <2>2. CASE j.detach = {} /\ j.attach # {}
    <3>1. n = Lowest(j.attach) /\ Parent[n] = best /\ tip = n
      BY <1>2, <2>2 DEF AtTip, NextBlock
    <3>2. n \in j.attach /\ n \in NonGenesis
      BY <1>1, <1>4, <2>2, <3>1, LowestExists DEF NonGenesis
    <3>3. tip \in Blocks /\ Anc[tip] = Anc[best] \cup {n}
      BY <3>1, <3>2, ChildFacts
    <3>4. HaveData(status[n]) /\ n \notin Bad
      BY <1>1, <3>2 DEF JobOK
    <3> QED
      BY <1>3, <3>3, <3>4 DEF InductiveInv, ChainInv
  <2> QED
    BY <1>1, <1>2, <2>1, <2>2 DEF JobOK
<1>6. ChainInv'
  <2>1. /\ disk' \in [index : SUBSET Blocks, status : FlagMaps, best : Blocks]
        /\ disk'.index = disk.index /\ disk'.status = disk.status /\ disk'.best = tip
    BY <1>2, <1>5 DEF InductiveInv, ChainInv
  <2> HIDE DEF tip
  <2> QED
    BY <1>2, <1>3, <1>5, <2>1 DEF InductiveInv, ChainInv
<1>7. JobOK(k, index, status)
  <2>1. j.next \notin {"connect", "reorg"} /\ (j.next = "connected" => Anc[j.node] \cap Bad = {})
    BY <1>1, <1>2 DEF JobOK
  <2>2. /\ j.detach \ {n} \in SUBSET NonGenesis /\ j.attach \ {n} \in SUBSET NonGenesis
        /\ (j.detach \ {n}) \cup (j.attach \ {n}) \subseteq index
        /\ j.detach \ {n} \subseteq Anc[t] /\ j.attach \ {n} \subseteq Anc[u]
        /\ \A a \in j.attach \ {n} : HaveData(status[a]) /\ a \notin Bad
    BY <1>1, <1>4 DEF JobOK
  <2> HIDE DEF j, n
  <2> QED
    BY <1>1, <1>4, <2>1, <2>2, ReorganizeOK
<1>8. Grows(index, status, index', status')
  BY <1>2 DEF Grows
<1> HIDE DEF k
<1>9. JobInv'
  BY <1>2, <1>7, <1>8, JobsKept DEF InductiveInv
<1>10. OrphanInv'
  BY <1>2, PoolKept DEF InductiveInv
<1> QED
  BY <1>2, <1>6, <1>9, <1>10 DEF InductiveInv

\* maybeAcceptBlock stores a block on top of one of the index.
LEMMA BlockStored ==
    ASSUME InductiveInv, NEW b \in NonGenesis, Parent[b] \in index, StoreBlock(b)
    PROVE  /\ GoodIndex(index', status') /\ Grows(index, status, index', status')
           /\ b \in index' /\ header \in index'
           /\ disk' = [disk EXCEPT !.index = index', !.status = status']
           /\ \A c \in Blocks \ {b} : HaveData(status'[c]) => HaveData(status[c])
<1>1. /\ index' = index \cup {b} /\ status' = SetStatusFlags(status, {b}, {"dataStored"})
      /\ disk' = [disk EXCEPT !.index = index', !.status = status']
  BY DEF StoreBlock, Flushed
<1>2. /\ status \in FlagMaps /\ SoundMarks(status) /\ index \subseteq Blocks /\ header \in index
      /\ \A c \in index : Anc[c] \subseteq index
      /\ \A c \in Blocks : HaveData(status[c]) => c \in index
  BY DEF InductiveInv, ChainInv, GoodIndex
<1>3. b \in Blocks /\ Anc[b] = Anc[Parent[b]] \cup {b}
  BY ChildFacts
<1>4. {"dataStored"} \in SUBSET Flags /\ "valid" \notin {"dataStored"}
  BY DEF Flags
<1>5. status' \in FlagMaps
  BY <1>1, <1>2, <1>4, FlagsTyped
<1>6. \A c \in Blocks : status'[c] = IF c \in {b} THEN status[c] \cup {"dataStored"} ELSE status[c]
  BY <1>1 DEF SetStatusFlags
<1>7. SoundMarks(status')
  BY <1>2, <1>4, <1>6 DEF SoundMarks, KnownValid
<1>8. GoodIndex(index', status')
  BY <1>1, <1>2, <1>3, <1>5, <1>6, <1>7 DEF GoodIndex
<1> QED
  BY <1>1, <1>2, <1>6, <1>8 DEF Grows, HaveData

LEMMA ProcessBlockStep ==
    ASSUME InductiveInv, NEW b \in NonGenesis, ProcessBlock(b)
    PROVE  InductiveInv'
<1>1. /\ Parent[b] \in index /\ StoreBlock(b) /\ b \notin Range(orphans)
      /\ job' = [job EXCEPT ![NetSync] = Begin("block", b, "connect")] /\ lock' = NetSync
      /\ UNCHANGED <<best, header, orphans, oldest, crashes>>
  BY DEF ProcessBlock, HaveBlock, Continue, viewVars, orphanVars
<1>2. NetSync \in Procs
  BY ChainAssumption
<1>3. ChainInv'
  BY <1>1, BlockStored, ChainKept DEF InductiveInv
<1>4. JobOK(Begin("block", b, "connect"), index', status')
  BY <1>1, BlockStored, BeginOK DEF Calls, PCs
<1>5. JobInv'
  BY <1>1, <1>2, <1>4, BlockStored, JobsKept DEF InductiveInv
<1>6. OrphanInv'
  <2>1. \A i \in DOMAIN orphans : orphans[i] \in Blocks \ {b}
    BY <1>1 DEF InductiveInv, OrphanInv, NonGenesis, Range
  <2> QED
    BY <1>1, <2>1, BlockStored DEF InductiveInv, OrphanInv
<1> QED
  BY <1>1, <1>2, <1>3, <1>5, <1>6 DEF InductiveInv

\* The orphan that processOrphans stores leaves the pool for good.
LEMMA ProcessOrphansStep ==
    ASSUME InductiveInv, NEW p \in Procs, ProcessOrphans(p)
    PROVE  InductiveInv'
<1> DEFINE j == job[p]
<1>1. CASE Return(p, j, TRUE) /\ UNCHANGED <<indexVars, orphans, disk>>
  BY <1>1, Reached, StepKept DEF ProcessOrphans, Return, indexVars, viewVars, orphanVars
<1>2. ASSUME NEW i \in DOMAIN j.queue, NEW k \in DOMAIN orphans,
             Parent[orphans[k]] = j.queue[i],
             orphans' = Without(orphans, orphans[k]),
             \/ /\ StoreBlock(orphans[k])
                /\ Continue(p, [j EXCEPT !.pc = "connect", !.node = orphans[k],
                                         !.queue = SubSeq(@, i, Len(@))], p)
             \/ /\ Return(p, j, FALSE)
                /\ UNCHANGED <<indexVars, disk>>
      PROVE  InductiveInv'
  <2> DEFINE o == orphans[k]
             q == SubSeq(j.queue, i, Len(j.queue))
             l == [j EXCEPT !.pc = "connect", !.node = o, !.queue = SubSeq(@, i, Len(@))]
  <2>1. UNCHANGED <<best, header, oldest, crashes>>
    BY DEF ProcessOrphans, viewVars
  <2>2. /\ JobOK(j, index, status) /\ j \in Jobs /\ j.queue \in Seq(Blocks)
        /\ j.queue[i] \in index /\ o \in NonGenesis
    BY Reached DEF JobOK, Jobs, InductiveInv, OrphanInv
  <2>3. /\ orphans' \in Seq(NonGenesis) /\ IsInjective(orphans')
        /\ \A m \in DOMAIN orphans' :
              /\ orphans'[m] \in Blocks \ {o}
              /\ ~HaveData(status[orphans'[m]])
    <3>1. /\ orphans' \in Seq(NonGenesis) /\ IsInjective(orphans')
          /\ Range(orphans') = Range(orphans) \ {o}
      BY <1>2, WithoutOne DEF InductiveInv, OrphanInv
    <3>2. \A c \in Range(orphans) : c \in Blocks /\ ~HaveData(status[c])
      BY DEF InductiveInv, OrphanInv, NonGenesis, Range
    <3> QED
      BY <3>1, <3>2 DEF Range
  <2>4. CASE /\ Return(p, j, FALSE)
             /\ UNCHANGED <<indexVars, disk>>
    <3>1. Grows(index, status, index', status') /\ GoodIndex(index', status')
      BY <2>4 DEF Grows, indexVars, InductiveInv, ChainInv
    <3>2. ChainInv'
      BY <2>1, <2>4, <3>1, ChainKept DEF InductiveInv, ChainInv, indexVars
    <3>3. JobInv'
      BY <2>4, <3>1, Reached, JobsKept DEF InductiveInv, Return, indexVars
    <3>4. OrphanInv'
      BY <2>1, <2>3, <2>4 DEF OrphanInv, InductiveInv, indexVars
    <3> QED
      BY <2>1, <2>4, <3>2, <3>3, <3>4 DEF InductiveInv, Return
  <2>5. CASE /\ StoreBlock(o)
             /\ Continue(p, l, p)
    <3>1. /\ GoodIndex(index', status') /\ Grows(index, status, index', status')
          /\ o \in index' /\ header \in index'
          /\ disk' = [disk EXCEPT !.index = index', !.status = status']
          /\ \A c \in Blocks \ {o} : HaveData(status'[c]) => HaveData(status[c])
      BY <1>2, <2>2, <2>5, BlockStored
    <3>2. ChainInv'
      BY <2>1, <3>1, ChainKept DEF InductiveInv
    <3>3. q \in Seq(Blocks) /\ \A m \in DOMAIN q : q[m] \in index
      <4>1. i \in 1 .. Len(j.queue) /\ Len(j.queue) \in Nat /\ DOMAIN j.queue = 1 .. Len(j.queue)
        BY <2>2
      <4>2. \A m \in i .. Len(j.queue) : j.queue[m] \in index \cap Blocks
        BY <2>2, <4>1, Reached DEF JobOK
      <4>3. q \in Seq(index \cap Blocks)
        BY <4>1, <4>2
      <4> HIDE DEF q
      <4>4. q \in Seq(Blocks)
        BY <4>3
      <4>5. \A m \in DOMAIN q : q[m] \in index
        BY <4>3
      <4> QED
        BY <4>4, <4>5
    <3>4. l \in Jobs /\ l.node = o /\ l.queue = q /\ l.attach = j.attach /\ l.detach = j.detach /\ l.pc = "connect"
      BY <2>2, <3>3 DEF Jobs, PCs, NonGenesis
    <3> HIDE DEF l, q
    <3>5. JobOK(l, index', status')
      <4>1. \A n \in j.attach : n \in Blocks
        BY <2>2 DEF Jobs, NonGenesis
      <4> QED
        BY <2>2, <3>1, <3>3, <3>4, <4>1 DEF JobOK, Grows, NonGenesis
    <3>6. JobInv'
      BY <2>5, <3>1, <3>5, JobsKept DEF InductiveInv, Continue
    <3>7. OrphanInv'
      BY <2>1, <2>3, <3>1 DEF OrphanInv, InductiveInv
    <3> QED
      BY <2>1, <2>5, <3>2, <3>6, <3>7 DEF InductiveInv, Continue
  <2> QED
    BY <1>2, <2>4, <2>5
<1> QED
  BY <1>1, <1>2 DEF ProcessOrphans

LEMMA ProcessOrphanBlockStep ==
    ASSUME InductiveInv, NEW b \in NonGenesis, ProcessOrphanBlock(b)
    PROVE  InductiveInv'
<1>1. /\ ~HaveBlock(b) /\ b \notin Range(orphans) /\ AddOrphanBlock(b)
      /\ job' = [job EXCEPT ![NetSync] = Idle] /\ lock' = NoProc
      /\ UNCHANGED <<index, status, best, header, disk, crashes>>
  BY DEF ProcessOrphanBlock, Return, indexVars, viewVars
<1>2. /\ orphans \in Seq(NonGenesis) /\ IsInjective(orphans) /\ oldest \in NonGenesis \cup {NoBlock}
      /\ \A o \in Range(orphans) : ~HaveData(status[o])
      /\ ~HaveData(status[b])
  BY <1>1 DEF InductiveInv, OrphanInv, Range, HaveBlock, ChainInv, GoodIndex, NonGenesis
<1>3. PICK e \in 0 .. Len(orphans) :
        LET rest == SubSeq(orphans, e + 1, Len(orphans))
            old == IF oldest = NoBlock /\ rest # <<>> THEN rest[1] ELSE oldest
            full == Len(rest) + 1 > MaxOrphans
        IN  /\ orphans' = Append(IF full THEN Without(rest, old) ELSE rest, b)
            /\ oldest' = IF full THEN NoBlock ELSE old
  BY <1>1 DEF AddOrphanBlock
<1> DEFINE rest == SubSeq(orphans, e + 1, Len(orphans))
           old == IF oldest = NoBlock /\ rest # <<>> THEN rest[1] ELSE oldest
           full == Len(rest) + 1 > MaxOrphans
           kept == IF full THEN Without(rest, old) ELSE rest
<1>4. rest \in Seq(NonGenesis) /\ IsInjective(rest) /\ Range(rest) \subseteq Range(orphans)
  BY <1>2, PartOfPool
<1>5. orphans' = Append(kept, b) /\ oldest' = IF full THEN NoBlock ELSE old
  BY <1>3
<1> HIDE DEF rest
<1>6. kept \in Seq(NonGenesis) /\ IsInjective(kept) /\ Range(kept) \subseteq Range(orphans)
  BY <1>4, WithoutOne
<1>7. old \in NonGenesis \cup {NoBlock}
  <2>1. rest # <<>> => rest[1] \in NonGenesis
    BY <1>4
  <2> QED
    BY <1>2, <2>1
<1> HIDE DEF kept, old, full
<1>8. orphans' \in Seq(NonGenesis) /\ oldest' \in NonGenesis \cup {NoBlock}
  BY <1>5, <1>6, <1>7
<1>9. /\ Len(kept) \in Nat /\ DOMAIN kept = 1 .. Len(kept) /\ DOMAIN orphans' = 1 .. Len(kept) + 1
      /\ \A i \in 1 .. Len(kept) : orphans'[i] = kept[i]
      /\ orphans'[Len(kept) + 1] = b
  BY <1>5, <1>6
<1>10. \A i \in 1 .. Len(kept) : kept[i] \in Range(orphans)
  BY <1>6, <1>9 DEF Range
<1>11. IsInjective(orphans')
  <2> SUFFICES ASSUME NEW i \in DOMAIN orphans', NEW k \in DOMAIN orphans', orphans'[i] = orphans'[k]
               PROVE  i = k
    BY DEF IsInjective
  <2>1. CASE i \in 1 .. Len(kept) /\ k \in 1 .. Len(kept)
    BY <2>1, <1>6, <1>9 DEF IsInjective
  <2>2. CASE i = Len(kept) + 1 /\ k = Len(kept) + 1
    BY <2>2
  <2>3. CASE \/ i \in 1 .. Len(kept) /\ k = Len(kept) + 1
             \/ k \in 1 .. Len(kept) /\ i = Len(kept) + 1
    BY <2>3, <1>1, <1>9, <1>10
  <2> QED
    BY <2>1, <2>2, <2>3, <1>9
<1>12. \A i \in DOMAIN orphans' : ~HaveData(status[orphans'[i]])
  BY <1>2, <1>9, <1>10
<1>13. OrphanInv'
  BY <1>1, <1>8, <1>11, <1>12 DEF OrphanInv
<1>14. NetSync \in Procs
  BY ChainAssumption
<1>15. JobInv'
  BY <1>1, <1>14, Reached, JobsKept DEF InductiveInv, Grows
<1>16. ChainInv'
  BY <1>1 DEF InductiveInv, ChainInv
<1> QED
  BY <1>1, <1>13, <1>15, <1>16 DEF InductiveInv

LEMMA ProcessBlockHeaderStep ==
    ASSUME InductiveInv, NEW b \in NonGenesis, ProcessBlockHeader(b)
    PROVE  InductiveInv'
<1>1. /\ Parent[b] \in index /\ index' = index \cup {b} /\ header' \in {b, header}
      /\ disk' = [disk EXCEPT !.index = index', !.status = status']
      /\ job' = [job EXCEPT ![NetSync] = Idle] /\ lock' = NoProc
      /\ UNCHANGED <<status, best, orphans, oldest, crashes>>
  BY DEF ProcessBlockHeader, Return, orphanVars, Flushed
<1>2. b \in Blocks /\ Anc[b] = Anc[Parent[b]] \cup {b}
  BY ChildFacts
<1>3. GoodIndex(index', status') /\ Grows(index, status, index', status') /\ header' \in index'
  BY <1>1, <1>2 DEF InductiveInv, ChainInv, GoodIndex, Grows
<1>4. ChainInv'
  BY <1>1, <1>3, ChainKept DEF InductiveInv
<1>5. NetSync \in Procs
  BY ChainAssumption
<1>6. JobOK(Idle, index', status')
  BY <1>1, <1>5, IdleOK, Reached
<1>7. JobInv'
  BY <1>1, <1>3, <1>5, <1>6, JobsKept DEF InductiveInv
<1>8. OrphanInv'
  BY <1>1, PoolKept DEF InductiveInv
<1> QED
  BY <1>1, <1>4, <1>7, <1>8 DEF InductiveInv

\* A restart finds a whole branch below the best block on disk, without a block
\* that breaks a rule, so that it may mark all of it valid.
LEMMA RestartStep ==
    ASSUME InductiveInv, Restart, crashes' \in 0 .. MaxCrashes
    PROVE  InductiveInv'
<1> DEFINE st == SetStatusFlags(disk.status, Anc[disk.best], {"valid"})
<1>1. /\ index' = disk.index /\ best' = disk.best /\ status' = st
      /\ disk' = [disk EXCEPT !.index = index', !.status = status']
      /\ header' \in index' /\ orphans' = <<>> /\ oldest' = NoBlock
      /\ lock' = NoProc /\ job' = [p \in Procs |-> Idle]
  BY DEF Restart, Flushed
<1>2. /\ GoodIndex(disk.index, disk.status) /\ disk.best = best
      /\ \A b \in Anc[best] : HaveData(disk.status[b]) /\ b \notin Bad
      /\ best \in Blocks
  BY TipIndexed DEF InductiveInv, ChainInv
<1>3. st \in FlagMaps /\ SameData(disk.status, st) /\ SoundMarks(st)
  <2>1. \A b \in Anc[disk.best] : Anc[b] \cap Bad = {}
    BY <1>2, AncestorFacts
  <2> QED
    BY <1>2, <2>1, MarksValid DEF GoodIndex
<1> HIDE DEF st
<1>4. GoodIndex(index', status')
  BY <1>1, <1>2, <1>3 DEF GoodIndex, SameData
<1>5. \A b \in Anc[best'] : HaveData(status'[b]) /\ b \notin Bad
  BY <1>1, <1>2, <1>3, TreeTypes DEF SameData
<1>6. ChainInv'
  <2>1. /\ disk' \in [index : SUBSET Blocks, status : FlagMaps, best : Blocks]
        /\ disk'.index = index' /\ disk'.status = status' /\ disk'.best = best'
    BY <1>1, <1>4 DEF InductiveInv, ChainInv, GoodIndex
  <2>2. Grows(index', status', index', status')
    BY DEF Grows
  <2> QED
    BY <1>1, <1>4, <1>5, <2>1, <2>2 DEF ChainInv
<1>7. JobInv'
  <2>1. Genesis \in index'
    BY <1>1, <1>2, TreeTypes, TreeAssumption DEF GoodIndex, TreeOrder
  <2> QED
    BY <1>1, <2>1, IdleOK DEF JobInv, JobOK
<1>8. OrphanInv'
  BY <1>1 DEF OrphanInv, IsInjective
<1> QED
  BY <1>1, <1>6, <1>7, <1>8 DEF InductiveInv

-----------------------------------------------------------------------------
(***************************************************************************)
(* The theorems                                                            *)
(***************************************************************************)

LEMMA InitInv ==
    ASSUME Init
    PROVE  InductiveInv
<1>1. /\ index = {Genesis} /\ best = Genesis /\ header = Genesis
      /\ status = [b \in Blocks |-> IF b = Genesis THEN {"dataStored", "valid"} ELSE {}]
      /\ disk = [index |-> index, status |-> status, best |-> Genesis]
      /\ orphans = <<>> /\ oldest = NoBlock /\ lock = NoProc
      /\ job = [p \in Procs |-> Idle] /\ crashes = 0
  BY DEF Init
<1>2. Genesis \in Blocks /\ Anc[Genesis] = {Genesis} /\ Genesis \notin Bad
  BY TreeAssumption, ChainAssumption DEF TreeShape, NonGenesis
<1>3. status \in FlagMaps
  BY <1>1 DEF FlagMaps, Flags
<1>4. \A b \in Blocks : /\ b = Genesis => HaveData(status[b])
                        /\ b # Genesis => ~HaveData(status[b]) /\ ~KnownValid(status[b])
  BY <1>1 DEF HaveData, KnownValid
<1>5. SoundMarks(status)
  BY <1>2, <1>4 DEF SoundMarks
<1>6. GoodIndex(index, status)
  BY <1>1, <1>2, <1>3, <1>4, <1>5 DEF GoodIndex
<1>7. ChainInv
  <2>1. /\ disk.index = index /\ disk.status = status /\ disk.best = best
        /\ disk \in [index : SUBSET Blocks, status : FlagMaps, best : Blocks]
    BY <1>1, <1>2, <1>3
  <2>2. Grows(index, status, index, status)
    BY DEF Grows
  <2> QED
    BY <1>1, <1>2, <1>4, <1>6, <2>1, <2>2 DEF ChainInv
<1>8. JobInv
  <2>1. Genesis \in index
    BY <1>1
  <2>2. JobOK(Idle, index, status)
    BY <2>1, IdleOK
  <2>3. Idle \in Jobs
    BY <2>2 DEF JobOK
  <2> QED
    BY <1>1, <2>2, <2>3 DEF JobInv
<1>9. OrphanInv
  BY <1>1 DEF OrphanInv, IsInjective
<1> QED
  BY <1>1, <1>7, <1>8, <1>9, ChainAssumption DEF InductiveInv

LEMMA NextInv ==
    ASSUME InductiveInv, [Next]_vars
    PROVE  InductiveInv'
<1>1. ASSUME NEW b \in NonGenesis, ProcessOrphanBlock(b) \/ ProcessBlock(b) \/ ProcessBlockHeader(b)
      PROVE  InductiveInv'
  BY <1>1, ProcessOrphanBlockStep, ProcessBlockStep, ProcessBlockHeaderStep
<1>2. ASSUME NEW b \in NonGenesis, NEW p \in Procs,
             InvalidateSideBlock(p, b) \/ InvalidateMainBlock(p, b) \/ ReconsiderBlock(p, b)
      PROVE  InductiveInv'
  BY <1>2, InvalidateSideBlockStep, InvalidateMainBlockStep, ReconsiderBlockStep
<1>3. ASSUME NEW p \in Procs, Step(p)
      PROVE  InductiveInv'
  <2>1. CASE NilBestTip(p)
    BY <2>1, RestartStep DEF NilBestTip, InductiveInv
  <2> QED
    BY <1>3, <2>1, ConnectBestChainStep, BlockAcceptedStep, ProcessOrphansStep, FlushIndexStep,
       MoveTipStep, AbortReorganizeStep, EndCallStep, PickBestTipStep DEF Step
<1>4. CASE Crash
  <2>1. crashes' \in 0 .. MaxCrashes
    BY <1>4, ChainAssumption DEF Crash, InductiveInv
  <2> QED
    BY <1>4, <2>1, RestartStep DEF Crash
<1>5. CASE UNCHANGED vars
  BY <1>5 DEF vars, indexVars, viewVars, orphanVars, InductiveInv, ChainInv, JobInv, OrphanInv
<1> QED
  BY <1>1, <1>2, <1>3, <1>4, <1>5 DEF Next, Call

\* Whatever calls overlap and wherever crashes hit, the block index, the jobs and
\* the orphan pool satisfy the inductive invariant.
THEOREM ChainInductive == Spec => []InductiveInv
<1>1. Init => InductiveInv
  BY InitInv
<1>2. InductiveInv /\ [Next]_vars => InductiveInv'
  BY NextInv
<1> QED
  BY <1>1, <1>2, PTL DEF Spec

\* The tips of the chain views and all that is on disk are in the block index,
\* and every variable has its type.
THEOREM ChainTypes == Spec => []TypeOK
<1>1. InductiveInv => TypeOK
  <2> SUFFICES ASSUME InductiveInv PROVE TypeOK
    OBVIOUS
  <2>1. /\ index \subseteq Blocks /\ status \in [Blocks -> SUBSET Flags]
        /\ disk.status \in [Blocks -> SUBSET Flags]
        /\ disk.index \subseteq index /\ disk.best = best /\ header \in index
    BY DEF InductiveInv, ChainInv, GoodIndex, Grows, FlagMaps
  <2>2. Range(orphans) \subseteq NonGenesis
    <3>1. orphans \in Seq(NonGenesis)
      BY DEF InductiveInv, OrphanInv
    <3>2. \A i \in DOMAIN orphans : orphans[i] \in NonGenesis
      BY <3>1
    <3> QED
      BY <3>2 DEF Range
  <2>3. \A p \in Procs : job[p].pc \in PCs /\ job[p].detach \cup job[p].attach \subseteq index
    BY Reached DEF JobOK, Jobs
  <2> QED
    BY <2>1, <2>2, <2>3, TipIndexed DEF TypeOK, InductiveInv, OrphanInv
<1> QED
  BY <1>1, ChainInductive, PTL

\* A mark "valid" is never wrong, and the best chain holds no block that breaks a
\* rule: skipping checkConnectBlock on the mark is safe.
THEOREM ValidMarksAreSound == Spec => []ValidMarkSound
<1>1. InductiveInv => ValidMarkSound
  BY TipIndexed DEF InductiveInv, ChainInv, GoodIndex, SoundMarks, KnownValid, ValidMarkSound
<1> QED
  BY <1>1, ChainInductive, PTL

\* No block is in the orphan pool twice, or there and in the block store.
THEOREM OrphansStayApart == Spec => []OrphanOrStored
<1>1. InductiveInv => OrphanOrStored
  BY DEF InductiveInv, OrphanInv, OrphanOrStored, HaveBlock, Range
<1> QED
  BY <1>1, ChainInductive, PTL

\* Wherever a crash hits, the best block on disk is the tip, and its whole branch
\* is there with it.
THEOREM DiskHoldsBestChain == Spec => []DiskFollows
<1>1. InductiveInv => DiskFollows
  BY TipIndexed DEF InductiveInv, ChainInv, DiskFollows
<1> QED
  BY <1>1, ChainInductive, PTL

=============================================================================
