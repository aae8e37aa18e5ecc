-------------------------- MODULE BlockChainSteps ---------------------------
(***************************************************************************)
(* What the operators of BlockChain do to its inductive invariant (the     *)
(* orphan pool, the status flags and the checks of a reorganisation), and  *)
(* the steps that keep the tip and the orphan pool: they keep it.          *)
(***************************************************************************)
EXTENDS BlockChain

\* The two flag maps agree on which blocks are stored.
SameData(st, st2) == \A b \in Blocks : HaveData(st2[b]) <=> HaveData(st[b])

-----------------------------------------------------------------------------
(***************************************************************************)
(* The orphan pool                                                         *)
(***************************************************************************)

\* A part of a pool without repetition has none, and its orphans are of the pool.
LEMMA PartOfPool ==
    ASSUME NEW s \in Seq(NonGenesis), IsInjective(s), NEW e \in 0 .. Len(s)
    PROVE  /\ SubSeq(s, e + 1, Len(s)) \in Seq(NonGenesis)
           /\ IsInjective(SubSeq(s, e + 1, Len(s)))
           /\ Range(SubSeq(s, e + 1, Len(s))) \subseteq Range(s)
<1> DEFINE r == SubSeq(s, e + 1, Len(s))
<1>1. /\ r \in Seq(NonGenesis)
      /\ Len(r) = Len(s) - e
      /\ \A i \in 1 .. Len(s) - e : r[i] = s[e + i]
  OBVIOUS
<1>2. Len(s) \in Nat /\ DOMAIN r = 1 .. Len(s) - e /\ DOMAIN s = 1 .. Len(s)
  BY <1>1
<1> HIDE DEF r
<1>3. ASSUME NEW i \in DOMAIN r
      PROVE  e + i \in DOMAIN s /\ r[i] = s[e + i]
  BY <1>1, <1>2
<1>4. IsInjective(r)
  <2> SUFFICES ASSUME NEW i \in DOMAIN r, NEW k \in DOMAIN r, r[i] = r[k]
               PROVE  i = k
    BY DEF IsInjective
  <2>1. e + i = e + k
    BY <1>3 DEF IsInjective
  <2> QED
    BY <2>1, <1>2
<1>5. Range(r) \subseteq Range(s)
  BY <1>3 DEF Range
<1> QED
  BY <1>1, <1>4, <1>5 DEF r

\* removeOrphanBlock takes one orphan out of the pool and leaves the others.
LEMMA WithoutOne ==
    ASSUME NEW s \in Seq(NonGenesis), IsInjective(s), NEW b
    PROVE  /\ Without(s, b) \in Seq(NonGenesis)
           /\ IsInjective(Without(s, b))
           /\ Range(Without(s, b)) = Range(s) \ {b}
<1>1. CASE b \notin Range(s)
  BY <1>1 DEF Without
<1>2. CASE b \in Range(s)
  <2> DEFINE i == CHOOSE i \in DOMAIN s : s[i] = b
             r == [k \in 1 .. Len(s) - 1 |-> IF k < i THEN s[k] ELSE s[k + 1]]
  <2>1. i \in DOMAIN s /\ s[i] = b
    BY <1>2 DEF Range
  <2>2. Len(s) \in Nat /\ DOMAIN s = 1 .. Len(s) /\ i \in 1 .. Len(s)
    BY <2>1
  <2> HIDE DEF i
  <2>5. /\ DOMAIN r = 1 .. Len(s) - 1
        /\ \A k \in 1 .. Len(s) - 1 : r[k] = IF k < i THEN s[k] ELSE s[k + 1]
    OBVIOUS
  <2>6. r \in Seq(NonGenesis)
    <3>1. \A k \in 1 .. Len(s) - 1 : r[k] \in NonGenesis
      BY <2>2
    <3> QED
      BY <2>2, <3>1
  <2> HIDE DEF r
  <2>7. IsInjective(r)
    <3> SUFFICES ASSUME NEW k \in DOMAIN r, NEW l \in DOMAIN r, r[k] = r[l]
                 PROVE  k = l
      BY DEF IsInjective
    <3>1. ASSUME NEW m \in DOMAIN r
          PROVE  \/ m < i /\ m \in DOMAIN s /\ r[m] = s[m]
                 \/ m >= i /\ m + 1 \in DOMAIN s /\ r[m] = s[m + 1]
      BY <2>2, <2>5
    <3>2. k \in Nat /\ l \in Nat
      BY <2>2, <2>5
    <3> QED
      BY <3>1, <3>2, <2>2 DEF IsInjective
  <2>8. Range(r) \subseteq Range(s) \ {b}
    <3> SUFFICES ASSUME NEW k \in DOMAIN r
                 PROVE  r[k] \in Range(s) /\ r[k] # b
      BY DEF Range
    <3>1. \/ k \in DOMAIN s /\ k # i /\ r[k] = s[k]
          \/ k + 1 \in DOMAIN s /\ k + 1 # i /\ r[k] = s[k + 1]
      BY <2>2, <2>5
    <3> QED
      BY <3>1, <2>1 DEF Range, IsInjective
  <2>9. Range(s) \ {b} \subseteq Range(r)
    <3> SUFFICES ASSUME NEW k \in DOMAIN s, s[k] # b
                 PROVE  \E l \in DOMAIN r : r[l] = s[k]
      BY DEF Range
    <3>1. k # i /\ k \in 1 .. Len(s)
      BY <2>1, <2>2
    <3>2. CASE k < i
      BY <3>1, <3>2, <2>2, <2>5
    <3>3. CASE k > i
      <4>1. k - 1 \in DOMAIN r /\ r[k - 1] = s[k]
        BY <3>1, <3>3, <2>2, <2>5
      <4> QED
        BY <4>1
    <3> QED
      BY <3>1, <3>2, <3>3, <2>2
  <2>10. Without(s, b) = r
    BY <1>2 DEF Without, r, i
  <2> QED
    BY <2>6, <2>7, <2>8, <2>9, <2>10
<1> QED
  BY <1>1, <1>2

-----------------------------------------------------------------------------
(***************************************************************************)
(* Flags and reorganisations                                               *)
(***************************************************************************)

\* Setting or clearing flags gives a flag map again.
LEMMA FlagsTyped ==
    ASSUME NEW st \in FlagMaps, NEW S, NEW f \in SUBSET Flags
    PROVE  /\ SetStatusFlags(st, S, f) \in FlagMaps
           /\ UnsetStatusFlags(st, S, f) \in FlagMaps
BY DEF FlagMaps, SetStatusFlags, UnsetStatusFlags

\* Marking blocks invalid stores and validates none.
LEMMA MarksInvalid ==
    ASSUME NEW st \in FlagMaps, NEW S, NEW f \in SUBSET InvalidFlags
    PROVE  /\ SetStatusFlags(st, S, f) \in FlagMaps
           /\ SameData(st, SetStatusFlags(st, S, f))
           /\ SoundMarks(st) => SoundMarks(SetStatusFlags(st, S, f))
<1>1. f \in SUBSET Flags /\ "dataStored" \notin f /\ "valid" \notin f
  BY DEF Flags, InvalidFlags
<1>2. \A b \in Blocks : SetStatusFlags(st, S, f)[b] = IF b \in S THEN st[b] \cup f ELSE st[b]
  BY DEF SetStatusFlags
<1> QED
  BY <1>1, <1>2, FlagsTyped DEF SameData, SoundMarks, HaveData, KnownValid

\* Clearing flags other than "dataStored" loses no block and marks none valid.
LEMMA ClearsMarks ==
    ASSUME NEW st \in FlagMaps, NEW S, NEW f \in SUBSET Flags, "dataStored" \notin f
    PROVE  /\ UnsetStatusFlags(st, S, f) \in FlagMaps
           /\ SameData(st, UnsetStatusFlags(st, S, f))
           /\ SoundMarks(st) => SoundMarks(UnsetStatusFlags(st, S, f))
<1>1. \A b \in Blocks : UnsetStatusFlags(st, S, f)[b] = IF b \in S THEN st[b] \ f ELSE st[b]
  BY DEF UnsetStatusFlags
<1> QED
  BY <1>1, FlagsTyped DEF SameData, SoundMarks, HaveData, KnownValid

\* Marking blocks valid is sound where their branches break no rule.
LEMMA MarksValid ==
    ASSUME NEW st \in FlagMaps, NEW S, SoundMarks(st),
           \A b \in S : Anc[b] \cap Bad = {}
    PROVE  /\ SetStatusFlags(st, S, {"valid"}) \in FlagMaps
           /\ SameData(st, SetStatusFlags(st, S, {"valid"}))
           /\ SoundMarks(SetStatusFlags(st, S, {"valid"}))
<1> DEFINE f == {"valid"}
           st2 == SetStatusFlags(st, S, f)
<1>1. f \in SUBSET Flags /\ "dataStored" \notin f
  BY DEF Flags
<1> HIDE DEF f
<1>2. \A b \in Blocks : st2[b] = IF b \in S THEN st[b] \cup f ELSE st[b]
  BY DEF SetStatusFlags
<1>3. st2 \in FlagMaps
  BY <1>1, FlagsTyped
<1> HIDE DEF st2
<1>4. SameData(st, st2)
  BY <1>1, <1>2 DEF SameData, HaveData
<1>5. SoundMarks(st2)
  BY <1>2 DEF SoundMarks, KnownValid
<1> QED
  BY <1>3, <1>4, <1>5 DEF st2, f

\* InvalidateBlock's marks store no block and mark none valid.
LEMMA InvalidMarks ==
    ASSUME NEW st \in FlagMaps, SoundMarks(st), NEW n, NEW above
    PROVE  /\ MarkInvalid(st, n, above) \in FlagMaps
           /\ SameData(st, MarkInvalid(st, n, above))
           /\ SoundMarks(MarkInvalid(st, n, above))
<1> DEFINE marked == {b \in above : ~KnownInvalid(st[b])}
           st1 == SetStatusFlags(st, {n}, {"validateFailed"})
           st2 == SetStatusFlags(st1, marked, {"invalidAncestor"})
           st3 == UnsetStatusFlags(st2, marked \cup {n}, {"valid"})
<1>1. /\ {"validateFailed"} \in SUBSET InvalidFlags /\ {"invalidAncestor"} \in SUBSET InvalidFlags
      /\ {"valid"} \in SUBSET Flags /\ "dataStored" \notin {"valid"}
  BY DEF InvalidFlags, Flags
<1>2. MarkInvalid(st, n, above) = st3
  BY DEF MarkInvalid
<1> HIDE DEF marked
<1>3. st1 \in FlagMaps /\ SoundMarks(st1) /\ SameData(st, st1)
  BY <1>1, MarksInvalid
<1> HIDE DEF st1
<1>4. st2 \in FlagMaps /\ SoundMarks(st2) /\ SameData(st1, st2)
  BY <1>1, <1>3, MarksInvalid
<1> HIDE DEF st2
<1>5. st3 \in FlagMaps /\ SoundMarks(st3) /\ SameData(st2, st3)
  BY <1>1, <1>4, ClearsMarks
<1> HIDE DEF st3
<1>6. SameData(st, st3)
  BY <1>3, <1>4, <1>5 DEF SameData
<1> QED
  BY <1>2, <1>5, <1>6

\* getReorganizeNodes: only marks are added; the blocks to attach lie on top of
\* the best chain, those to detach are part of it.
LEMMA ReorganizeNodes ==
    ASSUME NEW st \in FlagMaps, NEW node \in Blocks, best \in Blocks
    PROVE  LET r == GetReorganizeNodes(st, node)
           IN  /\ r.status \in FlagMaps
               /\ SameData(st, r.status)
               /\ SoundMarks(st) => SoundMarks(r.status)
               /\ r.attach \subseteq Anc[node] \cap NonGenesis
               /\ r.detach \subseteq Anc[best] \cap NonGenesis
               /\ \A n \in r.attach : Anc[n] \subseteq Anc[best] \cup r.attach
<1> DEFINE r == GetReorganizeNodes(st, node)
           branch == Anc[node] \ Anc[FindFork(best, node)]
<1>1. /\ Genesis \in Anc[node] /\ Genesis \in Anc[FindFork(best, node)]
      /\ Anc[node] \subseteq Blocks /\ Anc[best] \subseteq Blocks
  BY ForkOnBoth, TreeTypes, AncestorFacts, TreeAssumption DEF TreeOrder
<1>2. branch = Anc[node] \ Anc[best]
  BY ForkIsMeet
<1>3. \A n \in branch : Anc[n] \subseteq Anc[best] \cup branch
  BY <1>2, AncestorFacts
<1>4. ASSUME NEW S, r = [detach |-> {}, attach |-> {},
                         status |-> SetStatusFlags(st, S, {"invalidAncestor"})]
      PROVE  /\ r.status \in FlagMaps
             /\ SameData(st, r.status)
             /\ SoundMarks(st) => SoundMarks(r.status)
             /\ r.attach = {} /\ r.detach = {}
  <2>1. r.status = SetStatusFlags(st, S, {"invalidAncestor"}) /\ r.attach = {} /\ r.detach = {}
    BY <1>4
  <2>2. {"invalidAncestor"} \in SUBSET InvalidFlags
    BY DEF InvalidFlags
  <2> HIDE DEF r
  <2> QED
    BY <2>1, <2>2, MarksInvalid
<1>5. \/ \E S : r = [detach |-> {}, attach |-> {},
                     status |-> SetStatusFlags(st, S, {"invalidAncestor"})]
      \/ r = [detach |-> Anc[best] \ Anc[node], attach |-> branch, status |-> st]
  BY DEF GetReorganizeNodes
<1> HIDE DEF r
<1>6. CASE r = [detach |-> Anc[best] \ Anc[node], attach |-> branch, status |-> st]
  <2>1. r.status = st /\ r.attach = branch /\ r.detach = Anc[best] \ Anc[node]
    BY <1>6
  <2>2. SameData(st, st)
    BY DEF SameData
  <2>3. r.attach \subseteq Anc[node] \cap NonGenesis /\ r.detach \subseteq Anc[best] \cap NonGenesis
    BY <2>1, <1>1 DEF NonGenesis
  <2> QED
    BY <2>1, <2>2, <2>3, <1>3 DEF r
<1> QED
  BY <1>4, <1>5, <1>6 DEF r

\* verifyReorganizationValidity: no block is stored or lost, the marks stay sound,
\* and where it succeeds the blocks to attach are stored and break no rule.
LEMMA VerifiedBranch ==
    ASSUME NEW st \in FlagMaps, SoundMarks(st), NEW t,
           NEW node \in Blocks, NEW a \in SUBSET Anc[node],
           \A b \in Anc[t] : b \notin Bad,
           \A n \in a : Anc[n] \subseteq Anc[t] \cup a
    PROVE  LET v == VerifyReorganization(st, a)
           IN  /\ v.status \in FlagMaps
               /\ SameData(st, v.status)
               /\ SoundMarks(v.status)
               /\ v.ok => \A n \in a : HaveData(v.status[n]) /\ Anc[n] \cap Bad = {}
<1> DEFINE v == VerifyReorganization(st, a)
           failing == {n \in a : ~HaveData(st[n]) \/ (n \in Bad /\ ~KnownValid(st[n]))}
           stop == Lowest(failing)
           below == {n \in a : Height[n] < Height[stop]}
           above == {n \in a : Height[n] > Height[stop]}
           checked == SetStatusFlags(st, below, {"valid"})
           failed == SetStatusFlags(checked, {stop}, {"validateFailed"})
<1>0. a \subseteq Blocks
  BY TreeTypes
<1>1. ASSUME NEW n \in a \ failing
      PROVE  n \notin Bad /\ HaveData(st[n])
  BY <1>0, TreeTypes DEF SoundMarks
<1>2. CASE failing = {}
  <2>1. \A n \in a : Anc[n] \cap Bad = {}
    BY <1>1, <1>2
  <2>2. v.ok = TRUE /\ v.status = SetStatusFlags(st, a, {"valid"})
    BY <1>2 DEF VerifyReorganization
  <2> HIDE DEF v
  <2>3. /\ v.status \in FlagMaps
        /\ SameData(st, v.status)
        /\ SoundMarks(v.status)
    BY <2>1, <2>2, MarksValid
  <2>4. \A n \in a : HaveData(v.status[n])
    BY <1>0, <1>1, <1>2, <2>3 DEF SameData
  <2> QED
    BY <2>1, <2>3, <2>4 DEF v
<1>3. CASE failing # {}
  <2>1. stop \in failing /\ \A c \in failing : Height[stop] <= Height[c]
    BY <1>3, LowestExists
  <2>2. ASSUME NEW n \in below, NEW x \in Anc[n]
        PROVE  x \notin Bad
    <3>1. CASE x \in Anc[t]
      BY <3>1
    <3>2. CASE x \in a
      <4>1. Height[x] <= Height[n] /\ Height[n] < Height[stop] /\ x \in Blocks /\ n \in Blocks
        BY <1>0, AncestorFacts
      <4>2. stop \in Blocks
        BY <1>0, <2>1
      <4>3. Height[x] \in Nat /\ Height[n] \in Nat /\ Height[stop] \in Nat
        BY <4>1, <4>2, TreeTypes
      <4>4. x \notin failing
        <5> HIDE DEF failing, stop
        <5> QED
          BY <4>1, <4>3, <2>1
      <4> QED
        BY <3>2, <4>4, <1>1
    <3> QED
      BY <3>1, <3>2
  <2> HIDE DEF stop, below
  <2>3. /\ checked \in FlagMaps
        /\ SameData(st, checked)
        /\ SoundMarks(checked)
    BY <2>2, MarksValid
  <2> HIDE DEF checked
  <2>4. {"validateFailed"} \in SUBSET InvalidFlags /\ {"invalidAncestor"} \in SUBSET InvalidFlags
    BY DEF InvalidFlags
  <2>5. /\ failed \in FlagMaps
        /\ SameData(checked, failed)
        /\ SoundMarks(failed)
    BY <2>3, <2>4, MarksInvalid
  <2> HIDE DEF failed
  <2> DEFINE marked == SetStatusFlags(failed, above, {"invalidAncestor"})
  <2>6. /\ marked \in FlagMaps
        /\ SameData(failed, marked)
        /\ SoundMarks(marked)
    BY <2>4, <2>5, MarksInvalid
  <2>7. SameData(st, marked)
    BY <2>3, <2>5, <2>6 DEF SameData
  <2>8. v.ok = FALSE /\ v.status \in {checked, marked}
    BY <1>3 DEF VerifyReorganization, checked, failed, stop, below
  <2> HIDE DEF v, marked
  <2> QED
    BY <2>3, <2>6, <2>7, <2>8 DEF v
<1> QED
  BY <1>2, <1>3

\* verifyReorganizationValidity on stored blocks: flags are added to those blocks
\* only, all of them are marked valid when it succeeds, and one of them breaks a
\* rule when it fails.
LEMMA VerifyAdds ==
    ASSUME NEW st \in FlagMaps, NEW node \in Blocks, NEW a \in SUBSET Anc[node],
           \A n \in a : HaveData(st[n])
    PROVE  LET v == VerifyReorganization(st, a)
           IN  /\ \A b \in Blocks : st[b] \subseteq v.status[b]
               /\ \A b \in Blocks \ a : v.status[b] = st[b]
               /\ v.ok => \A b \in a : v.status[b] = st[b] \cup {"valid"}
               /\ ~v.ok => \E n \in a : n \in Bad
<1> DEFINE v == VerifyReorganization(st, a)
           failing == {n \in a : ~HaveData(st[n]) \/ (n \in Bad /\ ~KnownValid(st[n]))}
           stop == Lowest(failing)
           below == {n \in a : Height[n] < Height[stop]}
           above == {n \in a : Height[n] > Height[stop]}
           checked == SetStatusFlags(st, below, {"valid"})
           failed == SetStatusFlags(checked, {stop}, {"validateFailed"})
           marked == SetStatusFlags(failed, above, {"invalidAncestor"})
<1>0. a \subseteq Blocks
  BY TreeTypes
<1>1. CASE failing = {}
  <2>1. v.ok = TRUE /\ v.status = SetStatusFlags(st, a, {"valid"})
    BY <1>1 DEF VerifyReorganization
  <2>2. \A b \in Blocks : v.status[b] = IF b \in a THEN st[b] \cup {"valid"} ELSE st[b]
    BY <2>1 DEF SetStatusFlags
  <2> HIDE DEF v
  <2> QED
    BY <1>0, <2>1, <2>2 DEF v
<1>2. CASE failing # {}
  <2>1. stop \in failing
    BY <1>2, LowestExists
  <2>2. stop \in a /\ HaveData(st[stop]) /\ stop \in Bad
    BY <2>1
  <2>3. v.ok = FALSE /\ v.status = marked
    BY <1>2, <2>2 DEF VerifyReorganization
  <2> HIDE DEF v, failing, stop
  <2>4. \A b \in Blocks : checked[b] = IF b \in below THEN st[b] \cup {"valid"} ELSE st[b]
    BY DEF SetStatusFlags
  <2> HIDE DEF checked
  <2>5. \A b \in Blocks :
           failed[b] = IF b \in {stop} THEN checked[b] \cup {"validateFailed"} ELSE checked[b]
    BY DEF SetStatusFlags
  <2> HIDE DEF failed
  <2>6. \A b \in Blocks :
           marked[b] = IF b \in above THEN failed[b] \cup {"invalidAncestor"} ELSE failed[b]
    BY DEF SetStatusFlags
  <2> HIDE DEF marked
  <2>7. \A b \in Blocks : st[b] \subseteq marked[b]
    BY <2>4, <2>5, <2>6
  <2>8. \A b \in Blocks \ a : b \notin below /\ b \notin above /\ b \notin {stop}
    BY <2>2
  <2> HIDE DEF below, above
  <2>9. \A b \in Blocks \ a : marked[b] = st[b]
    BY <2>4, <2>5, <2>6, <2>8
  <2> QED
    BY <2>2, <2>3, <2>7, <2>9 DEF v
<1> QED
  BY <1>1, <1>2

\* getReorganizeNodes, for a block whose parent is not marked: either nothing is
\* marked on the blocks to attach, or a mark on the branch is passed on upwards.
LEMMA NodesFound ==
    ASSUME best \in Blocks, NEW st \in FlagMaps, NEW node \in Blocks,
           ~KnownInvalid(st[Parent[node]])
    PROVE  LET r == GetReorganizeNodes(st, node)
               branch == Anc[node] \ Anc[best]
           IN  \/ /\ r.detach = {} /\ r.attach = {}
                  /\ \E n \in branch : KnownInvalid(st[n])
                  /\ \E S \in SUBSET branch : r.status = SetStatusFlags(st, S, {"invalidAncestor"})
               \/ /\ r.detach = Anc[best] \ Anc[node] /\ r.attach = branch /\ r.status = st
                  /\ \A n \in branch : ~KnownInvalid(st[n])
<1> DEFINE r == GetReorganizeNodes(st, node)
           branch == Anc[node] \ Anc[FindFork(best, node)]
           invalid == {n \in branch : KnownInvalid(st[n])}
           above == {n \in branch : \A i \in invalid : Height[n] > Height[i]}
<1>1. branch = Anc[node] \ Anc[best]
  BY ForkIsMeet
<1>2. CASE invalid # {}
  <2>1. r = [detach |-> {}, attach |-> {},
             status |-> SetStatusFlags(st, above, {"invalidAncestor"})]
    BY <1>2 DEF GetReorganizeNodes
  <2>2. /\ r.detach = {} /\ r.attach = {}
        /\ r.status = SetStatusFlags(st, above, {"invalidAncestor"})
    BY <2>1
  <2>3. above \in SUBSET branch /\ \E n \in branch : KnownInvalid(st[n])
    BY <1>2
  <2> HIDE DEF r, branch, above
  <2> QED
    BY <1>1, <2>2, <2>3 DEF r
<1>3. CASE invalid = {}
  <2>1. r = [detach |-> Anc[best] \ Anc[node], attach |-> branch, status |-> st]
    BY <1>3 DEF GetReorganizeNodes
  <2>2. r.detach = Anc[best] \ Anc[node] /\ r.attach = branch /\ r.status = st
    BY <2>1
  <2>3. \A n \in branch : ~KnownInvalid(st[n])
    BY <1>3
  <2> HIDE DEF r, branch
  <2> QED
    BY <1>1, <2>2, <2>3 DEF r
<1> QED
  BY <1>2, <1>3

-----------------------------------------------------------------------------
(***************************************************************************)
(* What a step has to show                                                 *)
(***************************************************************************)

\* A step that keeps the tip and loses no block, and leaves the index on disk or
\* writes it, before or after it changes flags, keeps ChainInv.
LEMMA ChainKept ==
    ASSUME ChainInv, GoodIndex(index', status'), Grows(index, status, index', status'),
           best' = best, header' \in index',
           disk' \in {disk, Flushed(index, status), [disk EXCEPT !.index = index', !.status = status']}
    PROVE  ChainInv'
<1>1. Grows(disk.index, disk.status, index', status')
  BY DEF ChainInv, Grows
<1>2. CASE disk' = disk
  BY <1>1, <1>2 DEF ChainInv
<1>3. ASSUME NEW idx, NEW st, GoodIndex(idx, st), Grows(disk.index, disk.status, idx, st),
             Grows(idx, st, index', status'), disk' = [disk EXCEPT !.index = idx, !.status = st]
      PROVE  ChainInv'
  <2>1. /\ disk'.index = idx /\ disk'.status = st /\ disk'.best = disk.best
        /\ disk' \in [index : SUBSET Blocks, status : FlagMaps, best : Blocks]
    BY <1>3 DEF ChainInv, GoodIndex
  <2>2. \A b \in Anc[best] : HaveData(st[b]) /\ b \notin Bad
    BY <1>3, TreeTypes DEF ChainInv, Grows
  <2> QED
    BY <1>3, <2>1, <2>2 DEF ChainInv
<1>4. Grows(index', status', index', status')
  BY DEF Grows
<1> QED
  BY <1>1, <1>2, <1>3, <1>4 DEF ChainInv, Flushed

\* A call that goes on holds on to blocks that are never lost.
LEMMA JobsKept ==
    ASSUME JobInv, Grows(index, status, index', status'), NEW p \in Procs, NEW j,
           JobOK(j, index', status'), job' = [job EXCEPT ![p] = j]
    PROVE  JobInv'
<1>1. job' \in [Procs -> Jobs]
  BY DEF JobInv, JobOK
<1>2. ASSUME NEW q \in Procs, q # p
      PROVE  JobOK(job'[q], index', status')
  <2>1. job'[q] = job[q] /\ JobOK(job[q], index, status)
    BY <1>2 DEF JobInv
  <2> DEFINE k == job[q]
  <2>2. \A n \in k.attach : n \in Blocks
    BY <2>1 DEF JobOK, Jobs, NonGenesis
  <2> HIDE DEF k
  <2> QED
    BY <2>1, <2>2 DEF JobOK, Grows, k
<1>3. job'[p] = j
  BY DEF JobInv
<1> QED
  BY <1>1, <1>2, <1>3 DEF JobInv

\* Idle goroutines hold on to nothing.
LEMMA IdleOK ==
    ASSUME NEW idx, NEW st, Genesis \in idx
    PROVE  JobOK(Idle, idx, st)
<1>1. <<>> \in Seq(Blocks) /\ {} \in SUBSET NonGenesis /\ Genesis \in Blocks
  BY TreeTypes
<1>2. "idle" \in PCs /\ "none" \in Calls
  BY DEF PCs, Calls
<1>3. Idle \in Jobs
  BY <1>1, <1>2 DEF Idle, Jobs
<1> QED
  <2>1. /\ Idle.pc = "idle" /\ Idle.node = Genesis /\ Idle.queue = <<>>
        /\ Idle.detach = {} /\ Idle.attach = {}
    BY DEF Idle
  <2>2. DOMAIN Idle.queue = {}
    BY <2>1
  <2> QED
    BY <1>1, <1>3, <2>1, <2>2 DEF JobOK

\* A call that begins holds on to its block.
LEMMA BeginOK ==
    ASSUME NEW idx, NEW st, NEW call \in Calls, NEW b \in idx, b \in NonGenesis,
           NEW pc \in PCs \ {"connected", "reorg"}
    PROVE  JobOK(Begin(call, b, pc), idx, st)
<1> DEFINE j == Begin(call, b, pc)
<1>0. b \in Blocks /\ b # Genesis
  BY DEF NonGenesis
<1>1. /\ j \in Jobs /\ j.node = b /\ j.queue = <<>> /\ j.detach = {} /\ j.attach = {}
      /\ j.pc = pc /\ j.next = "idle"
  <2>1. Idle \in Jobs
    BY IdleOK DEF JobOK
  <2>2. j = [Idle EXCEPT !.pc = pc, !.call = call, !.arg = b, !.node = b]
    BY DEF Begin
  <2>3. j \in Jobs
    BY <1>0, <2>1, <2>2 DEF Jobs
  <2> QED
    BY <2>3, <2>2 DEF Idle
<1> HIDE DEF j
<1> QED
  BY <1>0, <1>1, TreeTypes DEF JobOK, j

\* The orphan pool stays apart from the stored blocks where no block is stored.
LEMMA PoolKept ==
    ASSUME OrphanInv, orphans' = orphans, oldest' = oldest,
           \A b \in Blocks : HaveData(status'[b]) => HaveData(status[b])
    PROVE  OrphanInv'
<1>1. \A i \in DOMAIN orphans : orphans[i] \in Blocks
  BY DEF OrphanInv, NonGenesis
<1> QED
  BY <1>1 DEF OrphanInv

\* A call that goes on with reorganizeChain
LEMMA ReorganizeOK ==
    ASSUME NEW idx, NEW st, NEW j, JobOK(j, idx, st), NEW next \in PCs,
           NEW d \in SUBSET NonGenesis, NEW a \in SUBSET NonGenesis, d \cup a \subseteq idx,
           NEW t \in Blocks, d \subseteq Anc[t], NEW u \in Blocks, a \subseteq Anc[u],
           \A n \in a : HaveData(st[n]) /\ n \notin Bad,
           next = "connected" => Anc[j.node] \cap Bad = {}, next \notin {"connect", "reorg"}
    PROVE  JobOK(Reorganize(j, d, a, next), idx, st)
<1> DEFINE k == Reorganize(j, d, a, next)
           pc == IF d = {} /\ a = {} THEN next ELSE "reorg"
<1>1. pc \in PCs /\ (pc = next \/ (pc = "reorg" /\ d \cup a # {}))
  BY DEF PCs
<1>2. k = [j EXCEPT !.pc = pc, !.next = next, !.detach = d, !.attach = a]
  BY DEF Reorganize
<1> HIDE DEF k, pc
<1>3. /\ k \in Jobs /\ k.node = j.node /\ k.queue = j.queue /\ k.detach = d /\ k.attach = a
      /\ k.pc = pc /\ k.next = next
  BY <1>1, <1>2 DEF JobOK, Jobs
<1> QED
  BY <1>1, <1>3 DEF JobOK, k

\* The tip is in the index, and so are all blocks of its branch.
LEMMA TipIndexed ==
    ASSUME ChainInv
    PROVE  /\ best \in Blocks /\ best \in disk.index /\ best \in index
           /\ Anc[best] \subseteq disk.index /\ Anc[best] \subseteq index
           /\ Genesis \in index
           /\ \A b \in Anc[best] : b \notin Bad
<1>1. best \in Blocks
  BY DEF ChainInv
<1>2. best \in Anc[best] /\ Genesis \in Anc[best] /\ Anc[best] \subseteq Blocks
  BY <1>1, TreeTypes, TreeAssumption DEF TreeOrder
<1>3. Anc[best] \subseteq disk.index /\ disk.index \subseteq index
  BY <1>2 DEF ChainInv, GoodIndex, Grows
<1> QED
  BY <1>1, <1>2, <1>3 DEF ChainInv

\* The part of a call that looks at a branch and checks it
LEMMA BranchChecked ==
    ASSUME ChainInv, NEW st \in FlagMaps, SoundMarks(st), SameData(status, st),
           NEW node \in index
    PROVE  LET r == GetReorganizeNodes(st, node)
               v == VerifyReorganization(r.status, r.attach)
           IN  /\ v.status \in FlagMaps /\ SoundMarks(v.status) /\ SameData(status, v.status)
               /\ r.detach \in SUBSET NonGenesis /\ r.attach \in SUBSET NonGenesis
               /\ r.detach \cup r.attach \subseteq index
               /\ r.detach \subseteq Anc[best] /\ r.attach \subseteq Anc[node]
               /\ v.ok => \A n \in r.attach : HaveData(v.status[n]) /\ n \notin Bad
<1> DEFINE r == GetReorganizeNodes(st, node)
           v == VerifyReorganization(r.status, r.attach)
<1>1. node \in Blocks /\ Anc[node] \subseteq index /\ index \subseteq Blocks
  BY DEF ChainInv, GoodIndex
<1>2. /\ r.status \in FlagMaps /\ SameData(st, r.status) /\ SoundMarks(r.status)
      /\ r.attach \subseteq Anc[node] \cap NonGenesis
      /\ r.detach \subseteq Anc[best] \cap NonGenesis
      /\ \A n \in r.attach : Anc[n] \subseteq Anc[best] \cup r.attach
  BY <1>1, TipIndexed, ReorganizeNodes
<1> HIDE DEF r
<1>3. r.attach \in SUBSET Anc[node]
  BY <1>2
<1>4. /\ v.status \in FlagMaps /\ SameData(r.status, v.status) /\ SoundMarks(v.status)
      /\ v.ok => \A n \in r.attach : HaveData(v.status[n]) /\ Anc[n] \cap Bad = {}
  BY <1>1, <1>2, <1>3, TipIndexed, VerifiedBranch
<1> HIDE DEF v
<1>5. SameData(status, v.status)
  BY <1>2, <1>4 DEF SameData
<1>6. r.detach \cup r.attach \subseteq index
  BY <1>1, <1>2, TipIndexed
<1> QED
  <2>1. \A n \in r.attach : n \in Anc[n]
    BY <1>1, <1>2, TreeTypes
  <2> QED
    BY <1>2, <1>3, <1>4, <1>5, <1>6, <2>1 DEF r, v

\* A step of p that keeps the index, the tip and the orphan pool keeps the
\* invariant when it stores and loses no block and marks none wrongly.
LEMMA StepKept ==
    ASSUME InductiveInv, NEW p \in Procs, NEW j, job' = [job EXCEPT ![p] = j],
           lock' \in Procs \cup {NoProc},
           UNCHANGED <<index, best, orphanVars, crashes>>,
           status' \in FlagMaps, SoundMarks(status'), SameData(status, status'),
           JobOK(j, index, status'), header' \in index,
           disk' \in {disk, Flushed(index, status), Flushed(index, status')}
    PROVE  InductiveInv'
<1>1. GoodIndex(index', status') /\ Grows(index, status, index', status')
  BY DEF InductiveInv, ChainInv, GoodIndex, Grows, SameData
<1>2. ChainInv'
  BY <1>1, ChainKept DEF InductiveInv, Flushed
<1>3. JobInv'
  BY <1>1, JobsKept DEF InductiveInv
<1>4. OrphanInv'
  BY PoolKept DEF InductiveInv, SameData, orphanVars
<1> QED
  BY <1>2, <1>3, <1>4 DEF InductiveInv

-----------------------------------------------------------------------------
(***************************************************************************)
(* One step per action                                                     *)
(***************************************************************************)

\* What every step can rely on
LEMMA Reached ==
    ASSUME InductiveInv, NEW p \in Procs
    PROVE  /\ status \in FlagMaps /\ SoundMarks(status) /\ SameData(status, status)
           /\ JobOK(job[p], index, status) /\ JobOK(Idle, index, status)
           /\ index \subseteq Blocks /\ header \in index /\ Genesis \in index
           /\ p \in Procs \cup {NoProc} /\ NoProc \in Procs \cup {NoProc}
BY TipIndexed, IdleOK DEF InductiveInv, ChainInv, GoodIndex, JobInv, SameData

LEMMA ConnectBestChainStep ==
    ASSUME InductiveInv, NEW p \in Procs, ConnectBestChain(p)
    PROVE  InductiveInv'
<1> DEFINE j == job[p]
           b == j.node
           extends == Parent[b] = best
           r == IF extends THEN [detach |-> {}, attach |-> {b}, status |-> status]
                ELSE GetReorganizeNodes(status, b)
           v == VerifyReorganization(r.status, r.attach)
           next == IF extends THEN "connected" ELSE "accepted"
<1>1. /\ JobOK(j, index, status) /\ b \in index /\ b \in Blocks /\ index \subseteq Blocks
      /\ Anc[b] \subseteq index
  BY Reached DEF JobOK, InductiveInv, ChainInv, GoodIndex
<1>2. j.pc = "connect"
  BY DEF ConnectBestChain
<1>3. CASE /\ ~extends /\ ~MoreWork(b)
           /\ Continue(p, [j EXCEPT !.pc = "accepted", !.onMain = FALSE], p)
           /\ UNCHANGED <<status, disk, index, viewVars, orphanVars, crashes>>
  <2> DEFINE k == [j EXCEPT !.pc = "accepted", !.onMain = FALSE]
  <2>1. JobOK(k, index, status)
    BY <1>1 DEF JobOK, Jobs, PCs
  <2> QED
    BY <1>3, <2>1, Reached, StepKept DEF Continue, viewVars
<1>4. CASE /\ extends \/ MoreWork(b)
           /\ IF v.ok THEN Continue(p, Reorganize([j EXCEPT !.onMain = TRUE],
                                                   r.detach, r.attach, next), p)
              ELSE Return(p, j, FALSE)
           /\ status' = v.status
           /\ disk' = Flushed(index, status')
           /\ UNCHANGED <<index, viewVars, orphanVars, crashes>>
  <2>1. /\ v.status \in FlagMaps /\ SoundMarks(v.status) /\ SameData(status, v.status)
        /\ r.detach \in SUBSET NonGenesis /\ r.attach \in SUBSET NonGenesis
        /\ r.detach \cup r.attach \subseteq index
        /\ r.detach \subseteq Anc[best] /\ r.attach \subseteq Anc[b]
        /\ v.ok => \A n \in r.attach : HaveData(v.status[n]) /\ n \notin Bad
        /\ v.ok /\ extends => Anc[b] \cap Bad = {}
    <3>1. CASE ~extends
      BY <3>1, <1>1, Reached, BranchChecked DEF InductiveInv
    <3>2. CASE extends
      <4>1. r.detach = {} /\ r.attach = {b} /\ r.status = status
        BY <3>2
      <4>2. b \in NonGenesis
        BY <1>1, <1>2 DEF JobOK, NonGenesis
      <4>3. Anc[b] = Anc[best] \cup {b}
        BY <4>2, <3>2, ChildFacts
      <4>4. /\ v.status \in FlagMaps /\ SameData(status, v.status) /\ SoundMarks(v.status)
            /\ v.ok => HaveData(v.status[b]) /\ Anc[b] \cap Bad = {}
        <5>1. v = VerifyReorganization(status, {b})
          BY <4>1
        <5>2. {b} \in SUBSET Anc[b] /\ \A n \in {b} : Anc[n] \subseteq Anc[best] \cup {b}
          BY <1>1, <4>3
        <5>3. status \in FlagMaps /\ SoundMarks(status) /\ \A c \in Anc[best] : c \notin Bad
          BY TipIndexed, Reached DEF InductiveInv
        <5>4. b \in Blocks /\ b \in {b}
          BY <1>1
        <5> HIDE DEF v, b
        <5> QED
          BY <5>1, <5>2, <5>3, <5>4, VerifiedBranch
      <4> HIDE DEF v, r
      <4> QED
        BY <4>1, <4>2, <4>4, <1>1, TreeTypes
    <3> QED
      BY <3>1, <3>2
  <2> HIDE DEF r, v
  <2>2. CASE v.ok
    <3> DEFINE j2 == [j EXCEPT !.onMain = TRUE]
               k == Reorganize(j2, r.detach, r.attach, next)
    <3>1. j2.node = b /\ JobOK(j2, index, v.status)
      <4>1. JobOK(j, index, v.status)
        BY <1>1, <2>1 DEF JobOK, SameData, Jobs, NonGenesis
      <4> QED
        BY <4>1 DEF JobOK, Jobs
    <3> HIDE DEF j2
    <3>2. next \in PCs /\ next \notin {"connect", "reorg"} /\ (next = "connected" => extends)
      BY DEF PCs
    <3>3. JobOK(k, index, v.status)
      BY <1>1, <3>1, <3>2, <2>1, <2>2, TipIndexed, ReorganizeOK DEF InductiveInv
    <3> HIDE DEF k
    <3> QED
      BY <1>4, <2>1, <2>2, <3>3, Reached, StepKept DEF Continue, viewVars, j2, k
  <2>3. CASE ~v.ok
    <3>1. JobOK(Idle, index, v.status)
      BY IdleOK, Reached
    <3> QED
      BY <1>4, <2>1, <2>3, <3>1, Reached, StepKept DEF Return, viewVars
  <2> QED
    BY <2>2, <2>3
<1> QED
  BY <1>3, <1>4 DEF ConnectBestChain, InductiveInv

LEMMA BlockAcceptedStep ==
    ASSUME InductiveInv, NEW p \in Procs, BlockAccepted(p)
    PROVE  InductiveInv'
<1> DEFINE j == job[p]
           k == [j EXCEPT !.pc = "orphans", !.queue = Append(@, j.node),
                          !.main = IF j.node = j.arg THEN j.onMain ELSE @]
<1>1. /\ JobOK(j, index, status) /\ j \in Jobs /\ j.node \in index /\ j.node \in Blocks
      /\ j.queue \in Seq(Blocks) /\ status \in FlagMaps
  BY Reached DEF JobOK, Jobs
<1>2. /\ status' \in FlagMaps /\ SoundMarks(status') /\ SameData(status, status')
      /\ disk' \in {disk, Flushed(index, status')}
  <2>1. CASE j.pc = "connected"
    <3>1. status' = SetStatusFlags(status, {j.node}, {"valid"})
      BY <2>1 DEF BlockAccepted
    <3>2. \A b \in {j.node} : Anc[b] \cap Bad = {}
      BY <1>1, <2>1 DEF JobOK
    <3>3. disk' \in {disk, Flushed(index, status')}
      BY DEF BlockAccepted
    <3> QED
      BY <3>1, <3>2, <3>3, Reached, MarksValid
  <2>2. CASE j.pc # "connected"
    BY <2>2, Reached DEF BlockAccepted
  <2> QED
    BY <2>1, <2>2
<1>3. /\ k \in Jobs /\ k.queue = Append(j.queue, j.node) /\ k.node = j.node
      /\ k.detach = j.detach /\ k.attach = j.attach /\ k.pc = "orphans"
  <2>1. Append(j.queue, j.node) \in Seq(Blocks) /\ "orphans" \in PCs
    BY <1>1 DEF PCs
  <2> QED
    BY <1>1, <2>1 DEF Jobs
<1>4. \A i \in DOMAIN k.queue : k.queue[i] \in index
  <2>1. \A i \in DOMAIN j.queue : j.queue[i] \in index
    BY <1>1 DEF JobOK
  <2>2. /\ DOMAIN k.queue = 1 .. Len(j.queue) + 1 /\ Len(j.queue) \in Nat
        /\ DOMAIN j.queue = 1 .. Len(j.queue)
        /\ \A i \in 1 .. Len(j.queue) : k.queue[i] = j.queue[i]
        /\ k.queue[Len(j.queue) + 1] = j.node
    BY <1>1, <1>3
  <2> HIDE DEF k, j
  <2> QED
    BY <1>1, <2>1, <2>2
<1>5. JobOK(k, index, status')
  <2>1. \A n \in j.attach : n \in Blocks
    BY <1>1 DEF Jobs, NonGenesis
  <2> HIDE DEF k
  <2> QED
    BY <1>1, <1>2, <1>3, <1>4, <2>1 DEF JobOK, SameData
<1>6. header' \in index
  BY <1>1, Reached DEF BlockAccepted, BestHeader
<1>7. job' = [job EXCEPT ![p] = k] /\ lock' = NoProc /\ UNCHANGED <<index, best, orphanVars, crashes>>
  BY DEF BlockAccepted, Continue
<1> HIDE DEF k
<1> QED
  BY <1>2, <1>5, <1>6, <1>7, StepKept

LEMMA FlushIndexStep ==
    ASSUME InductiveInv, NEW p \in Procs, FlushIndex(p)
    PROVE  InductiveInv'
BY Reached, StepKept DEF FlushIndex, Continue, indexVars, viewVars

LEMMA AbortReorganizeStep ==
    ASSUME InductiveInv, NEW p \in Procs, AbortReorganize(p)
    PROVE  InductiveInv'
BY Reached, StepKept DEF AbortReorganize, Return, indexVars, viewVars

LEMMA EndCallStep ==
    ASSUME InductiveInv, NEW p \in Procs, EndCall(p)
    PROVE  InductiveInv'
BY Reached, StepKept DEF EndCall, Return, indexVars, viewVars

LEMMA PickBestTipStep ==
    ASSUME InductiveInv, NEW p \in Procs, PickBestTip(p)
    PROVE  InductiveInv'
<1> DEFINE j == job[p]
           heaviest == {t \in ValidTips : \A u \in ValidTips : Work[u] <= Work[t]}
<1>1. CASE Return(p, j, TRUE) /\ disk' = Flushed(index, status) /\ UNCHANGED status
  BY <1>1, Reached, StepKept DEF PickBestTip, Return, viewVars
<1>2. ASSUME NEW t \in heaviest \ {best},
             LET r == GetReorganizeNodes(status, t)
                 v == VerifyReorganization(r.status, r.attach)
             IN  /\ status' = v.status
                 /\ IF v.ok /\ r.attach # {}
                    THEN /\ Continue(p, Reorganize(j, r.detach, r.attach, "return"), p)
                         /\ disk' = Flushed(index, status)
                    ELSE /\ Return(p, j, v.ok)
                         /\ disk' = Flushed(index, status')
      PROVE  InductiveInv'
  <2> DEFINE r == GetReorganizeNodes(status, t)
             v == VerifyReorganization(r.status, r.attach)
  <2>1. t \in index
    BY TipIndexed DEF ValidTips, InactiveTips, InductiveInv
  <2>2. /\ v.status \in FlagMaps /\ SoundMarks(v.status) /\ SameData(status, v.status)
        /\ r.detach \in SUBSET NonGenesis /\ r.attach \in SUBSET NonGenesis
        /\ r.detach \cup r.attach \subseteq index
        /\ r.detach \subseteq Anc[best] /\ r.attach \subseteq Anc[t] /\ t \in Blocks
        /\ v.ok => \A n \in r.attach : HaveData(v.status[n]) /\ n \notin Bad
    BY <2>1, Reached, BranchChecked DEF InductiveInv
  <2> HIDE DEF r, v
  <2> DEFINE k == Reorganize(j, r.detach, r.attach, "return")
  <2>3. v.ok => JobOK(k, index, v.status)
    <3>1. JobOK(j, index, v.status)
      BY Reached, <2>2 DEF JobOK, SameData, Jobs, NonGenesis
    <3>2. "return" \in PCs
      BY DEF PCs
    <3> QED
      BY <3>1, <3>2, <2>2, TipIndexed, ReorganizeOK DEF InductiveInv
  <2> HIDE DEF k
  <2>4. CASE v.ok /\ r.attach # {}
    <3>1. /\ status' = v.status /\ disk' = Flushed(index, status)
          /\ Continue(p, k, p)
      BY <1>2, <2>4 DEF r, v, k
    <3>2. UNCHANGED <<index, viewVars, orphanVars, crashes>>
      BY DEF PickBestTip
    <3> QED
      BY <2>2, <2>3, <2>4, <3>1, <3>2, Reached, StepKept DEF Continue, viewVars
  <2>5. CASE ~(v.ok /\ r.attach # {})
    <3>1. JobOK(Idle, index, v.status)
      BY IdleOK, Reached
    <3> QED
      BY <1>2, <2>2, <2>5, <3>1, Reached, StepKept DEF Return, PickBestTip, viewVars, r, v
  <2> QED
    BY <2>4, <2>5
<1> QED
  BY <1>1, <1>2 DEF PickBestTip

LEMMA InvalidateSideBlockStep ==
    ASSUME InductiveInv, NEW p \in Procs, NEW n \in NonGenesis, InvalidateSideBlock(p, n)
    PROVE  InductiveInv'
<1>1. status' \in FlagMaps /\ SoundMarks(status') /\ SameData(status, status')
  BY Reached, InvalidMarks DEF InvalidateSideBlock
<1>2. JobOK(Idle, index, status')
  BY IdleOK, Reached
<1> QED
  BY <1>1, <1>2, Reached, StepKept DEF InvalidateSideBlock, Return, viewVars

LEMMA InvalidateMainBlockStep ==
    ASSUME InductiveInv, NEW p \in Procs, NEW n \in NonGenesis, InvalidateMainBlock(p, n)
    PROVE  InductiveInv'
<1> DEFINE above == {b \in Anc[best] \ Anc[n] : ~KnownInvalid(status[b])}
           j == Begin("invalidate", n, "pick")
           k == Reorganize(j, above \cup {n}, {}, "pick")
<1>1. status' \in FlagMaps /\ SoundMarks(status') /\ SameData(status, status')
  BY Reached, InvalidMarks DEF InvalidateMainBlock
<1>2. n \in Anc[best] /\ n \in Blocks /\ n # Genesis /\ Genesis \in Anc[n]
  BY TreeAssumption DEF InvalidateMainBlock, Contains, NonGenesis, TreeOrder
<1>3. above \cup {n} \subseteq Anc[best] \cap NonGenesis /\ Anc[best] \subseteq index /\ best \in Blocks
  BY <1>2, TipIndexed, TreeTypes DEF InductiveInv, NonGenesis
<1>4. JobOK(k, index, status')
  <2>1. "invalidate" \in Calls /\ "pick" \in PCs \ {"connected", "reorg"}
    BY DEF Calls, PCs
  <2>2. JobOK(j, index, status')
    BY <1>2, <1>3, <2>1, BeginOK
  <2> HIDE DEF j, above
  <2>3. /\ above \cup {n} \in SUBSET NonGenesis /\ (above \cup {n}) \cup {} \subseteq index
        /\ {} \in SUBSET NonGenesis /\ {} \subseteq Anc[best]
    BY <1>3
  <2> QED
    BY <1>3, <2>1, <2>2, <2>3, ReorganizeOK
<1>5. JobOK(Idle, index, status')
  BY IdleOK, Reached
<1>6. /\ \/ job' = [job EXCEPT ![p] = k] /\ lock' = p
         \/ job' = [job EXCEPT ![p] = Idle] /\ lock' = NoProc
      /\ UNCHANGED <<index, viewVars, orphanVars, disk, crashes>>
  BY DEF InvalidateMainBlock, Continue, Return
<1> HIDE DEF k
<1> QED
  BY <1>1, <1>4, <1>5, <1>6, Reached, StepKept DEF viewVars

LEMMA ReconsiderBlockStep ==
    ASSUME InductiveInv, NEW p \in Procs, NEW n \in NonGenesis, ReconsiderBlock(p, n)
    PROVE  InductiveInv'
<1> DEFINE above == {t \in InactiveTips \cup {best} : n \in Anc[t]}
           once == UnsetStatusFlags(status, {n}, InvalidFlags)
           cleared == UnsetStatusFlags(once, Descendants(n), {"invalidAncestor"})
           j == Begin("reconsider", n, "return")
           r(t) == GetReorganizeNodes(cleared, t)
           v(t) == VerifyReorganization(r(t).status, r(t).attach)
           k(t) == Reorganize(j, r(t).detach, r(t).attach, "return")
<1>1. cleared \in FlagMaps /\ SoundMarks(cleared) /\ SameData(status, cleared)
  <2>1. /\ InvalidFlags \in SUBSET Flags /\ "dataStored" \notin InvalidFlags
        /\ {"invalidAncestor"} \in SUBSET Flags /\ "dataStored" \notin {"invalidAncestor"}
    BY DEF InvalidFlags, Flags
  <2>2. once \in FlagMaps /\ SoundMarks(once) /\ SameData(status, once)
    BY <2>1, Reached, ClearsMarks
  <2> HIDE DEF once
  <2>3. cleared \in FlagMaps /\ SoundMarks(cleared) /\ SameData(once, cleared)
    BY <2>1, <2>2, ClearsMarks
  <2> HIDE DEF cleared
  <2> QED
    BY <2>2, <2>3 DEF SameData
<1>2. PICK t \in IF best \in above THEN {best} ELSE above :
         IF ~MoreWork(t)
         THEN status' = cleared /\ Return(p, j, TRUE) /\ UNCHANGED disk
         ELSE /\ status' = v(t).status
              /\ disk' = Flushed(index, status')
              /\ IF v(t).ok /\ r(t).attach # {} THEN Continue(p, k(t), p)
                 ELSE Return(p, j, TRUE)
  BY DEF ReconsiderBlock
<1>3. t \in index /\ n \in index
  BY TipIndexed DEF InactiveTips, InductiveInv, ReconsiderBlock
<1>4. UNCHANGED <<index, viewVars, orphanVars, crashes>>
  BY DEF ReconsiderBlock
<1> HIDE DEF cleared, above
<1>5. /\ v(t).status \in FlagMaps /\ SoundMarks(v(t).status) /\ SameData(status, v(t).status)
      /\ r(t).detach \in SUBSET NonGenesis /\ r(t).attach \in SUBSET NonGenesis
      /\ r(t).detach \cup r(t).attach \subseteq index
      /\ r(t).detach \subseteq Anc[best] /\ r(t).attach \subseteq Anc[t] /\ t \in Blocks
      /\ v(t).ok => \A b \in r(t).attach : HaveData(v(t).status[b]) /\ b \notin Bad
  BY <1>1, <1>3, Reached, BranchChecked DEF InductiveInv
<1> HIDE DEF r, v
<1>6. v(t).ok => JobOK(k(t), index, v(t).status)
  <2>1. "reconsider" \in Calls /\ "return" \in PCs \ {"connected", "reorg"}
    BY DEF Calls, PCs
  <2>2. JobOK(j, index, v(t).status)
    BY <1>3, <2>1, BeginOK
  <2> HIDE DEF j
  <2> QED
    BY <1>5, <2>1, <2>2, TipIndexed, ReorganizeOK DEF InductiveInv
<1>7. JobOK(Idle, index, status')
  BY IdleOK, Reached
<1> HIDE DEF k, j
<1>8. CASE ~MoreWork(t)
  BY <1>1, <1>2, <1>4, <1>7, <1>8, Reached, StepKept DEF Return, viewVars
<1>9. CASE MoreWork(t) /\ v(t).ok /\ r(t).attach # {}
  <2>1. /\ job' = [job EXCEPT ![p] = k(t)] /\ lock' = p
        /\ status' = v(t).status /\ disk' = Flushed(index, status')
    BY <1>2, <1>9 DEF Continue
  <2>2. header' \in index /\ UNCHANGED <<index, best, orphanVars, crashes>>
    BY <1>4, Reached DEF viewVars
  <2>3. JobOK(k(t), index, status')
    BY <1>6, <1>9, <2>1
  <2> HIDE DEF Flushed
  <2> QED
    BY <1>5, <2>1, <2>2, <2>3, StepKept
<1>10. CASE MoreWork(t) /\ ~(v(t).ok /\ r(t).attach # {})
  BY <1>2, <1>4, <1>5, <1>7, <1>10, Reached, StepKept DEF Return, viewVars
<1> QED
  BY <1>8, <1>9, <1>10

=============================================================================
