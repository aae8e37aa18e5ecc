--------------------------- MODULE BlockChainSync ---------------------------
(***************************************************************************)
(* A node that is only sent blocks and headers, and whose operator         *)
(* invalidates and reconsiders none: its best chain is stored, valid and   *)
(* unmarked, and until a crash it is the branch with the most work and no  *)
(* longer than the best header, for every tree of blocks.                  *)
(***************************************************************************)
EXTENDS BlockChainProofs

-----------------------------------------------------------------------------
(***************************************************************************)
(* Flags                                                                   *)
(***************************************************************************)

\* What the steps below start from
LEMMA SyncStart ==
    ASSUME InductiveInv, SyncInv
    PROVE  /\ NetSync \in Procs /\ best \in Blocks /\ status \in FlagMaps /\ index \subseteq Blocks
           /\ job[NetSync] \in Jobs /\ job[NetSync].node \in Blocks
           /\ JobOK(job[NetSync], index, status)
           /\ Anc[best] \subseteq Blocks
           /\ \A b \in Anc[best] : HaveData(status[b])
           /\ crashes \in Nat
<1>1. NetSync \in Procs
  BY ChainAssumption
<1>2. JobOK(job[NetSync], index, status) /\ status \in FlagMaps /\ index \subseteq Blocks
  BY <1>1, Reached
<1>3. job[NetSync] \in Jobs /\ job[NetSync].node \in Blocks
  BY <1>2 DEF JobOK, Jobs
<1>4. best \in Blocks /\ Anc[best] \subseteq Blocks
  BY TipIndexed, TreeTypes DEF InductiveInv
<1>5. \A b \in Anc[best] : HaveData(status[b])
  BY DEF InductiveInv, ChainInv, SyncInv, SyncFlags
<1> QED
  BY <1>1, <1>2, <1>3, <1>4, <1>5 DEF InductiveInv

\* Adding flags other than "dataStored", and invalid marks to stored blocks off the
\* best chain only, keeps the flags in order and brings no candidate.
LEMMA FlagsAdded ==
    ASSUME InductiveInv, SyncInv, UNCHANGED <<index, best>>,
           disk' = Flushed(index, status'), SameData(status, status'), status' \in FlagMaps,
           \A b \in Blocks : status[b] \subseteq status'[b],
           NEW S \in SUBSET (Blocks \ Anc[best]), \A b \in S : HaveData(status[b]),
           \A b \in Blocks \ S : KnownInvalid(status'[b]) => KnownInvalid(status[b])
    PROVE  SyncFlags' /\ \A b \in Blocks : Candidate(status', b) => Candidate(status, b)
<1>1. disk'.index = index' /\ disk'.status = status'
  BY DEF Flushed, InductiveInv, ChainInv
<1>2. \A b \in Blocks : Anc[b] \subseteq Blocks
  BY TreeTypes
<1>3. \A b \in Blocks : KnownInvalid(status[b]) => KnownInvalid(status'[b])
  BY DEF KnownInvalid
<1>4. \A b \in Blocks : KnownValid(status[b]) => KnownValid(status'[b])
  BY DEF KnownValid
<1>5. \A b \in Blocks : HaveData(status'[b]) => \A a \in Anc[b] : HaveData(status'[a])
  BY <1>2 DEF SyncInv, SyncFlags, SameData
<1>6. \A b \in Blocks : KnownInvalid(status'[b]) => HaveData(status'[b])
  BY DEF SyncInv, SyncFlags, SameData
<1>7. \A b \in Anc[best] : KnownValid(status'[b]) /\ ~KnownInvalid(status'[b])
  BY <1>4, SyncStart DEF SyncInv, SyncFlags
<1>8. SyncFlags'
  BY <1>1, <1>5, <1>6, <1>7 DEF SyncFlags
<1>9. \A b \in Blocks : Candidate(status', b) => Candidate(status, b)
  BY <1>2, <1>3 DEF Candidate, SameData
<1> QED
  BY <1>8, <1>9

-----------------------------------------------------------------------------
(***************************************************************************)
(* One step per action                                                     *)
(***************************************************************************)

\* The jobs after a step of the sync manager
LEMMA JobAfter ==
    ASSUME InductiveInv, SyncInv, NEW k, job' = [job EXCEPT ![NetSync] = k]
    PROVE  job'[NetSync] = k /\ \A p \in Procs \ {NetSync} : job'[p] = Idle
BY SyncStart DEF InductiveInv, JobInv, SyncInv, SyncJob

\* No call in progress is a job too.
LEMMA IdleJob ==
    /\ Idle.pc = "idle" /\ Idle.node = Genesis /\ Idle.queue = <<>>
    /\ Idle.onMain = FALSE /\ DOMAIN Idle.queue = {}
BY DEF Idle

\* A call that returns, or is lost in a crash, leaves a node in order behind.
LEMMA SyncIdle ==
    ASSUME SyncFlags', \A p \in Procs : job'[p] = Idle, best' \in Blocks,
           \A b \in Anc[best'] : HaveData(status'[b]), NetSync \in Procs,
           crashes' = 0 => /\ Work[best'] <= Work[header']
                           /\ \A b \in Blocks : Candidate(status', b) => Work[b] <= Work[best']
    PROVE  SyncInv'
<1>1. HaveData(status'[Genesis])
  BY TreeAssumption DEF TreeOrder
<1>2. SyncJob'
  BY <1>1, IdleJob DEF SyncJob
<1>3. SyncWork'
  BY IdleJob DEF SyncWork
<1> QED
  BY <1>2, <1>3 DEF SyncInv

\* The work of blocks, and the genesis block on every branch
LEMMA WorkTypes ==
    /\ \A b \in Blocks : Work[b] \in Nat /\ Genesis \in Anc[b]
    /\ \A b \in NonGenesis : Work[b] > Work[Parent[b]]
BY ChainAssumption, TreeAssumption DEF TreeOrder

LEMMA SyncConnect ==
    ASSUME InductiveInv, SyncInv, ConnectBestChain(NetSync)
    PROVE  SyncInv'
<1> DEFINE j == job[NetSync]
           b == j.node
           extends == Parent[b] = best
           path == [detach |-> {}, attach |-> {b}, status |-> status]
           r == IF extends THEN path ELSE GetReorganizeNodes(status, b)
           v == VerifyReorganization(r.status, r.attach)
           next == IF extends THEN "connected" ELSE "accepted"
           branch == Anc[b] \ Anc[best]
<1>1. /\ j \in Jobs /\ b \in Blocks /\ b \in NonGenesis /\ j.pc = "connect"
      /\ b \notin Anc[best] /\ ~KnownInvalid(status[b]) /\ ~KnownInvalid(status[Parent[b]])
      /\ HaveData(status[b]) /\ \A i \in DOMAIN j.queue : HaveData(status[j.queue[i]])
      /\ best \in Blocks /\ status \in FlagMaps /\ index \subseteq Blocks
      /\ \A i \in DOMAIN j.queue : j.queue[i] \in Blocks
  BY SyncStart DEF ConnectBestChain, SyncInv, SyncJob, JobOK, NonGenesis, Jobs
<1>2. UNCHANGED <<index, best, header, crashes>>
  BY DEF ConnectBestChain, viewVars
<1>3. crashes = 0 => /\ Work[best] <= Work[header]
                     /\ \A c \in Blocks : Candidate(status, c) => Work[c] <= Work[best] \/ c = b
  BY <1>1 DEF SyncInv, SyncWork
<1>4. /\ branch \subseteq Blocks \ Anc[best] /\ b \in branch /\ Genesis \notin branch
      /\ \A n \in branch : HaveData(status[n])
  BY <1>1, TreeTypes, WorkTypes DEF SyncInv, SyncFlags
<1>5. CASE /\ ~extends /\ ~MoreWork(b)
           /\ Continue(NetSync, [j EXCEPT !.pc = "accepted", !.onMain = FALSE], NetSync)
           /\ UNCHANGED <<status, disk>>
  <2> DEFINE k == [j EXCEPT !.pc = "accepted", !.onMain = FALSE]
  <2>1. k.pc = "accepted" /\ k.node = b /\ k.queue = j.queue
    BY <1>1 DEF Jobs
  <2> HIDE DEF k
  <2>2. job'[NetSync] = k /\ \A p \in Procs \ {NetSync} : job'[p] = Idle
    BY <1>5, JobAfter DEF Continue, k
  <2>3. Work[b] <= Work[best]
    BY <1>1, <1>5, WorkTypes DEF MoreWork
  <2>4. SyncFlags'
    BY <1>2, <1>5 DEF SyncInv, SyncFlags
  <2>5. SyncJob'
    BY <1>1, <1>2, <1>5, <2>1, <2>2 DEF SyncJob
  <2>6. SyncWork'
    BY <1>2, <1>3, <1>5, <2>1, <2>2, <2>3 DEF SyncWork
  <2> QED
    BY <2>4, <2>5, <2>6 DEF SyncInv
<1>6. CASE /\ extends \/ MoreWork(b)
           /\ IF v.ok THEN Continue(NetSync, Reorganize([j EXCEPT !.onMain = TRUE],
                                                   r.detach, r.attach, next), NetSync)
              ELSE Return(NetSync, j, FALSE)
           /\ status' = v.status
           /\ disk' = Flushed(index, status')
  <2> DEFINE k == Reorganize([j EXCEPT !.onMain = TRUE], r.detach, r.attach, next)
  <2>k. /\ k.pc = (IF r.detach = {} /\ r.attach = {} THEN next ELSE "reorg") /\ k.next = next
        /\ k.detach = r.detach /\ k.attach = r.attach /\ k.node = b /\ k.queue = j.queue /\ k.onMain
    <3> HIDE DEF r, next
    <3> QED
      BY <1>1 DEF Reorganize, Jobs
  <2>0. status' \in FlagMaps /\ SameData(status, status')
    <3>1. status' \in FlagMaps
      BY ConnectBestChainStep, SyncStart DEF InductiveInv, ChainInv, GoodIndex
    <3>2. CASE extends
      <4>1. Anc[b] = Anc[best] \cup {b} /\ \A c \in Anc[best] : c \notin Bad
        BY <1>1, <3>2, ChildFacts, TipIndexed DEF InductiveInv
      <4>2. {b} \in SUBSET Anc[b] /\ \A n \in {b} : Anc[n] \subseteq Anc[best] \cup {b}
        BY <1>1, <4>1, TreeTypes
      <4>3. SoundMarks(status)
        BY DEF InductiveInv, ChainInv, GoodIndex
      <4>4. v = VerifyReorganization(status, {b})
        BY <3>2
      <4> HIDE DEF v, b
      <4> QED
        BY <1>1, <1>6, <3>1, <4>1, <4>2, <4>3, <4>4, VerifiedBranch
    <3>3. CASE ~extends
      <4>1. b \in index
        BY SyncStart DEF JobOK
      <4> QED
        BY <1>6, <3>1, <3>3, <4>1, Reached, SyncStart, BranchChecked DEF InductiveInv
    <3> QED
      BY <3>1, <3>2, <3>3
  <2>1. \/ /\ r.detach = {} /\ r.attach = {} /\ ~extends
           /\ \E n \in branch : KnownInvalid(status[n])
           /\ \E S \in SUBSET branch : r.status = SetStatusFlags(status, S, {"invalidAncestor"})
        \/ /\ r.detach = Anc[best] \ Anc[b] /\ r.attach = branch /\ r.status = status
           /\ \A n \in branch : ~KnownInvalid(status[n])
    <3>1. CASE extends
      <4>1. Anc[b] = Anc[best] \cup {b}
        BY <1>1, <3>1, ChildFacts
      <4>2. branch = {b} /\ Anc[best] \ Anc[b] = {}
        BY <1>1, <4>1
      <4> QED
        BY <1>1, <3>1, <4>2
    <3>2. CASE ~extends
      <4>1. r = GetReorganizeNodes(status, b)
        BY <3>2
      <4> DEFINE g == GetReorganizeNodes(status, b)
      <4>2. /\ best \in Blocks /\ status \in FlagMaps /\ b \in Blocks
            /\ ~KnownInvalid(status[Parent[b]])
        BY <1>1
      <4> HIDE DEF r, extends, b, j
      <4>3. \/ /\ g.detach = {} /\ g.attach = {}
               /\ \E n \in branch : KnownInvalid(status[n])
               /\ \E S \in SUBSET branch : g.status = SetStatusFlags(status, S, {"invalidAncestor"})
            \/ /\ g.detach = Anc[best] \ Anc[b] /\ g.attach = branch /\ g.status = status
               /\ \A n \in branch : ~KnownInvalid(status[n])
        BY <4>2, NodesFound
      <4> HIDE DEF g, branch
      <4>4. r = g
        BY <4>1 DEF g
      <4> QED
        BY <3>2, <4>3, <4>4
    <3> QED
      BY <3>1, <3>2
  <2>2. Work[b] > Work[best]
    BY <1>1, <1>6, WorkTypes DEF MoreWork
  <2>n. next \in {"connected", "accepted"} /\ (~extends => next = "accepted")
    OBVIOUS
  <2> HIDE DEF r, k, next, extends
  <2>3. CASE /\ r.detach = {} /\ r.attach = {} /\ ~extends
             /\ \E n \in branch : KnownInvalid(status[n])
             /\ \E S \in SUBSET branch : r.status = SetStatusFlags(status, S, {"invalidAncestor"})
    <3>1. PICK S \in SUBSET branch : r.status = SetStatusFlags(status, S, {"invalidAncestor"})
      BY <2>3
    <3>2. PICK n \in branch : KnownInvalid(status[n])
      BY <2>3
    <3>3. /\ r.status \in FlagMaps
          /\ \A c \in Blocks : r.status[c] = IF c \in S THEN status[c] \cup {"invalidAncestor"}
                                             ELSE status[c]
      <4>1. {"invalidAncestor"} \in SUBSET Flags /\ status \in FlagMaps
        BY <1>1 DEF Flags
      <4>2. r.status \in FlagMaps
        BY <3>1, <4>1, FlagsTyped
      <4> QED
        BY <3>1, <4>2 DEF SetStatusFlags
    <3>4. v = VerifyReorganization(r.status, {}) /\ {} \in SUBSET Anc[b]
      BY <2>3
    <3>5. v.ok /\ \A c \in Blocks : v.status[c] = r.status[c]
      <4> DEFINE st == r.status
                 w == VerifyReorganization(st, {})
      <4>1. st \in FlagMaps /\ b \in Blocks /\ {} \in SUBSET Anc[b] /\ v = w
        BY <1>1, <3>3, <3>4
      <4> HIDE DEF v, st, b
      <4>2. /\ \A c \in Blocks \ {} : w.status[c] = st[c]
            /\ ~w.ok => \E x \in {} : x \in Bad
        BY <4>1, VerifyAdds
      <4> HIDE DEF w
      <4> QED
        BY <4>1, <4>2 DEF st
    <3> HIDE DEF v, branch
    <3>6. /\ \A c \in Blocks : status[c] \subseteq status'[c]
          /\ \A c \in Blocks \ S : status'[c] = status[c]
      BY <1>6, <3>3, <3>5
    <3>7. S \in SUBSET (Blocks \ Anc[best]) /\ \A c \in S : HaveData(status[c])
      BY <1>4
    <3>8. SyncFlags' /\ \A c \in Blocks : Candidate(status', c) => Candidate(status, c)
      BY <1>2, <1>6, <2>0, <3>6, <3>7, FlagsAdded
    <3>9. job'[NetSync] = k /\ \A p \in Procs \ {NetSync} : job'[p] = Idle
      BY <1>6, <3>5, JobAfter DEF Continue, k
    <3>10. k.pc = "accepted"
      BY <2>3, <2>k, <2>n
    <3>11. ~Candidate(status, b)
      BY <3>2, <1>4 DEF Candidate, branch
    <3>12. SyncJob'
      BY <1>1, <1>2, <2>0, <2>k, <3>9, <3>10 DEF SyncJob, SameData
    <3>13. SyncWork'
      BY <1>2, <1>3, <3>8, <3>9, <3>10, <3>11 DEF SyncWork
    <3> QED
      BY <3>8, <3>12, <3>13 DEF SyncInv
  <2>4. CASE /\ r.detach = Anc[best] \ Anc[b] /\ r.attach = branch /\ r.status = status
             /\ \A n \in branch : ~KnownInvalid(status[n])
    <3>1. v = VerifyReorganization(status, branch) /\ branch \in SUBSET Anc[b]
      BY <2>4
    <3>2. /\ \A c \in Blocks : status[c] \subseteq v.status[c]
          /\ \A c \in Blocks \ branch : v.status[c] = status[c]
          /\ v.ok => \A c \in branch : v.status[c] = status[c] \cup {"valid"}
          /\ ~v.ok => \E n \in branch : n \in Bad
      <4> DEFINE w == VerifyReorganization(status, branch)
      <4>1. /\ status \in FlagMaps /\ b \in Blocks /\ branch \in SUBSET Anc[b] /\ v = w
            /\ \A n \in branch : HaveData(status[n])
        BY <1>1, <1>4, <3>1
      <4> HIDE DEF v, branch, b
      <4>2. /\ \A c \in Blocks : status[c] \subseteq w.status[c]
            /\ \A c \in Blocks \ branch : w.status[c] = status[c]
            /\ w.ok => \A c \in branch : w.status[c] = status[c] \cup {"valid"}
            /\ ~w.ok => \E n \in branch : n \in Bad
        BY <4>1, VerifyAdds
      <4> HIDE DEF w
      <4> QED
        BY <4>1, <4>2
    <3> HIDE DEF v
    <3>3. CASE v.ok
      <4>1. \A c \in Blocks : KnownInvalid(status'[c]) => KnownInvalid(status[c])
        BY <1>6, <3>2, <3>3 DEF KnownInvalid, InvalidFlags
      <4>2. SyncFlags' /\ \A c \in Blocks : Candidate(status', c) => Candidate(status, c)
        <5>1. {} \in SUBSET (Blocks \ Anc[best]) /\ \A c \in {} : HaveData(status[c])
          OBVIOUS
        <5> QED
          BY <1>2, <1>6, <2>0, <3>2, <4>1, <5>1, FlagsAdded
      <4>3. job'[NetSync] = k /\ \A p \in Procs \ {NetSync} : job'[p] = Idle
        BY <1>6, <3>3, JobAfter DEF Continue, k
      <4>4. k.pc = "reorg"
        BY <1>4, <2>4, <2>k
      <4>5. \A c \in branch : KnownValid(status'[c]) /\ ~KnownInvalid(status'[c])
        BY <1>4, <1>6, <2>4, <3>2, <3>3, <4>1 DEF KnownValid
      <4> HIDE DEF branch
      <4>6. SyncJob'
        BY <1>1, <1>2, <2>0, <2>k, <2>n, <2>4, <4>3, <4>4, <4>5 DEF SyncJob, SameData, branch
      <4>7. SyncWork'
        <5> SUFFICES ASSUME crashes' = 0, NEW c \in Blocks, Candidate(status', c)
                     PROVE  Work[c] <= Work[b]
          BY <4>3, <4>4, <2>k DEF SyncWork
        <5>1. Work[c] <= Work[best] \/ c = b
          BY <1>2, <1>3, <4>2
        <5>2. Work[c] \in Nat /\ Work[b] \in Nat /\ Work[best] \in Nat
          BY <1>1, WorkTypes
        <5> HIDE DEF b, j
        <5> QED
          BY <5>1, <5>2, <2>2
      <4> QED
        BY <4>2, <4>6, <4>7 DEF SyncInv
    <3>4. CASE ~v.ok
      <4>1. SyncFlags' /\ \A c \in Blocks : Candidate(status', c) => Candidate(status, c)
        <5>1. branch \in SUBSET (Blocks \ Anc[best]) /\ \A c \in branch : HaveData(status[c])
          BY <1>4
        <5>2. /\ \A c \in Blocks : status[c] \subseteq status'[c]
              /\ \A c \in Blocks \ branch : KnownInvalid(status'[c]) => KnownInvalid(status[c])
          BY <1>6, <3>2
        <5>3. UNCHANGED <<index, best>> /\ disk' = Flushed(index, status')
          BY <1>2, <1>6
        <5> HIDE DEF branch, b, j
        <5> QED
          BY <2>0, <5>1, <5>2, <5>3, FlagsAdded
      <4>2. ~Candidate(status, b)
        BY <1>4, <3>2, <3>4 DEF Candidate
      <4>3. \A p \in Procs : job'[p] = Idle
        BY <1>6, <3>4, JobAfter DEF Return
      <4>4. \A c \in Anc[best'] : HaveData(status'[c])
        BY <1>2, <2>0, SyncStart DEF SameData
      <4> QED
        BY <1>1, <1>2, <1>3, <4>1, <4>2, <4>3, <4>4, SyncIdle, SyncStart
    <3> QED
      BY <3>3, <3>4
  <2> QED
    BY <2>1, <2>3, <2>4
<1> QED
  BY <1>5, <1>6 DEF ConnectBestChain

LEMMA SyncAccepted ==
    ASSUME InductiveInv, SyncInv, BlockAccepted(NetSync)
    PROVE  SyncInv'
<1> DEFINE j == job[NetSync]
           k == [j EXCEPT !.pc = "orphans", !.queue = Append(@, j.node),
                          !.main = IF j.node = j.arg THEN j.onMain ELSE @]
<1>1. /\ j \in Jobs /\ j.node \in Blocks /\ j.queue \in Seq(Blocks)
      /\ HaveData(status[j.node]) /\ \A i \in DOMAIN j.queue : HaveData(status[j.queue[i]])
      /\ j.pc \in {"connected", "accepted"} /\ UNCHANGED <<index, best, crashes>>
      /\ header' = BestHeader(j) /\ header \in Blocks /\ best \in Blocks
  BY SyncStart, Reached DEF BlockAccepted, SyncInv, SyncJob, Jobs
<1>2. job'[NetSync] = k /\ \A p \in Procs \ {NetSync} : job'[p] = Idle
  BY JobAfter DEF BlockAccepted, Continue
<1>3. k.pc = "orphans" /\ k.node = j.node /\ k.queue = Append(j.queue, j.node)
  BY <1>1 DEF Jobs
<1> HIDE DEF k
<1>4. /\ status' \in FlagMaps /\ disk' = Flushed(index, status')
      /\ \A b \in Blocks : status[b] \subseteq status'[b] /\ status'[b] \subseteq status[b] \cup {"valid"}
  <2>1. CASE j.pc = "connected"
    <3>1. status' = SetStatusFlags(status, {j.node}, {"valid"})
      BY <2>1 DEF BlockAccepted
    <3>2. status' \in FlagMaps
      BY <3>1, FlagsTyped, SyncStart DEF Flags
    <3>3. \A b \in Blocks : status'[b] = IF b \in {j.node} THEN status[b] \cup {"valid"} ELSE status[b]
      BY <3>1 DEF SetStatusFlags
    <3>4. disk' = Flushed(index, status')
      <4>1. CASE KnownValid(status[j.node])
        <5>1. disk' = disk /\ \A b \in Blocks : status'[b] = status[b]
          BY <2>1, <3>3, <4>1 DEF BlockAccepted, KnownValid
        <5>2. status' = status
          BY <3>2, <5>1, SyncStart DEF FlagMaps
        <5> QED
          BY <5>1, <5>2 DEF Flushed, SyncInv, SyncFlags, InductiveInv, ChainInv
      <4> QED
        BY <4>1 DEF BlockAccepted
    <3> QED
      BY <3>2, <3>3, <3>4
  <2>2. CASE j.pc # "connected"
    BY <2>2, SyncStart DEF BlockAccepted
  <2> QED
    BY <2>1, <2>2
<1>5. SameData(status, status') /\ \A b \in Blocks : KnownInvalid(status'[b]) => KnownInvalid(status[b])
  BY <1>4 DEF SameData, HaveData, KnownInvalid, InvalidFlags
<1>6. SyncFlags' /\ \A b \in Blocks : Candidate(status', b) => Candidate(status, b)
  <2>1. {} \in SUBSET (Blocks \ Anc[best]) /\ \A c \in {} : HaveData(status[c])
    OBVIOUS
  <2> QED
    BY <1>1, <1>4, <1>5, <2>1, FlagsAdded
<1>7. SyncJob'
  <2>1. \A i \in DOMAIN k.queue : k.queue[i] \in Blocks /\ HaveData(status[k.queue[i]])
    BY <1>1, <1>3
  <2> QED
    BY <1>1, <1>2, <1>3, <1>5, <2>1 DEF SyncJob, SameData
<1>8. SyncWork'
  <2> SUFFICES ASSUME crashes = 0
               PROVE  /\ Work[best] <= Work[header']
                      /\ \A b \in Blocks : Candidate(status', b) => Work[b] <= Work[best]
    BY <1>1, <1>2, <1>3 DEF SyncWork
  <2>1. \/ Work[best] <= Work[header]
        \/ j.onMain /\ Work[best] <= Work[j.node]
    BY <1>1 DEF SyncInv, SyncWork
  <2>2. Work[best] <= Work[header']
    BY <1>1, <2>1, WorkTypes DEF BestHeader
  <2>3. \A b \in Blocks : Candidate(status, b) => Work[b] <= Work[best]
    BY <1>1 DEF SyncInv, SyncWork
  <2> QED
    BY <1>6, <2>2, <2>3
<1> QED
  BY <1>6, <1>7, <1>8 DEF SyncInv

\* maybeAcceptBlock stores a new block on a stored, unmarked parent.
LEMMA SyncStored ==
    ASSUME InductiveInv, SyncInv, NEW b \in NonGenesis, ~HaveData(status[b]),
           HaveData(status[Parent[b]]), StoreBlock(b), best' = best
    PROVE  /\ SyncFlags' /\ HaveData(status'[b]) /\ b \notin Anc[best]
           /\ ~KnownInvalid(status'[b]) /\ ~KnownInvalid(status'[Parent[b]])
           /\ \A c \in Blocks : HaveData(status[c]) => HaveData(status'[c])
           /\ \A c \in Blocks : Candidate(status', c) => Candidate(status, c) \/ c = b
<1>1. /\ b \in Blocks /\ Parent[b] \in Blocks /\ Anc[b] = Anc[Parent[b]] \cup {b}
      /\ b # Parent[b] /\ \A c \in Blocks : Anc[c] \subseteq Blocks /\ c \in Anc[c]
  BY ChildFacts, TreeTypes
<1>2. \A c \in Blocks : status'[c] = IF c \in {b} THEN status[c] \cup {"dataStored"} ELSE status[c]
  BY DEF StoreBlock, SetStatusFlags
<1>3. disk'.index = index' /\ disk'.status = status'
  BY DEF StoreBlock, Flushed, InductiveInv, ChainInv
<1>4. \A c \in Blocks : KnownInvalid(status'[c]) <=> KnownInvalid(status[c])
  BY <1>2 DEF KnownInvalid, InvalidFlags
<1>5. \A c \in Blocks : HaveData(status'[c]) <=> HaveData(status[c]) \/ c = b
  BY <1>2 DEF HaveData
<1>6. \A c \in Blocks : KnownValid(status'[c]) <=> KnownValid(status[c])
  <2> SUFFICES ASSUME NEW c \in Blocks
               PROVE  "valid" \in status'[c] <=> "valid" \in status[c]
    BY DEF KnownValid
  <2>1. status'[c] = status[c] \/ status'[c] = status[c] \cup {"dataStored"}
    BY <1>2
  <2> QED
    BY <2>1
<1>7. b \notin Anc[best]
  BY SyncStart
<1>8. \A c \in Blocks : HaveData(status'[c]) => \A a \in Anc[c] : HaveData(status'[a])
  BY <1>1, <1>5 DEF SyncInv, SyncFlags
<1>9. \A c \in Blocks : KnownInvalid(status'[c]) => HaveData(status'[c])
  BY <1>4, <1>5 DEF SyncInv, SyncFlags
<1>10. \A c \in Anc[best'] : KnownValid(status'[c]) /\ ~KnownInvalid(status'[c])
  BY <1>4, <1>6, SyncStart DEF SyncInv, SyncFlags
<1>11. SyncFlags'
  BY <1>3, <1>8, <1>9, <1>10 DEF SyncFlags
<1>12. ~KnownInvalid(status'[b]) /\ ~KnownInvalid(status'[Parent[b]])
  BY <1>1, <1>4 DEF SyncInv, SyncFlags, StoreBlock
<1>13. ASSUME NEW c \in Blocks, Candidate(status', c), c # b
       PROVE  Candidate(status, c)
  <2>1. c # Genesis => HaveData(status[c])
    BY <1>1, <1>5, <1>13 DEF Candidate
  <2>2. b \in Anc[c] => c # Genesis
    BY TreeAssumption DEF TreeShape, NonGenesis
  <2>3. b \notin Anc[c]
    BY <2>1, <2>2 DEF SyncInv, SyncFlags
  <2> QED
    BY <1>1, <1>4, <1>5, <1>13, <2>3 DEF Candidate
<1> QED
  BY <1>1, <1>5, <1>7, <1>11, <1>12, <1>13

\* A stored block is to be connected next.
LEMMA SyncStores ==
    ASSUME InductiveInv, SyncInv, NEW b \in NonGenesis, ~HaveData(status[b]),
           HaveData(status[Parent[b]]), StoreBlock(b), UNCHANGED <<best, header, crashes>>,
           job[NetSync].pc \in {"idle", "orphans"},
           NEW k, job' = [job EXCEPT ![NetSync] = k], k.pc = "connect", k.node = b,
           \A i \in DOMAIN k.queue : k.queue[i] \in Blocks /\ HaveData(status[k.queue[i]])
    PROVE  SyncInv'
<1>1. job'[NetSync] = k /\ \A p \in Procs \ {NetSync} : job'[p] = Idle
  BY JobAfter
<1>2. SyncJob'
  BY <1>1, SyncStored DEF SyncJob
<1>3. crashes = 0 => /\ Work[best] <= Work[header]
                     /\ \A c \in Blocks : Candidate(status, c) => Work[c] <= Work[best]
  BY DEF SyncInv, SyncWork
<1>4. SyncWork'
  BY <1>1, <1>3, SyncStored DEF SyncWork
<1> QED
  BY <1>2, <1>4, SyncStored DEF SyncInv

LEMMA SyncProcessBlock ==
    ASSUME InductiveInv, SyncInv, NEW b \in NonGenesis, ProcessBlock(b)
    PROVE  SyncInv'
<1> DEFINE k == Begin("block", b, "connect")
<1>1. /\ ~HaveData(status[b]) /\ HaveData(status[Parent[b]]) /\ StoreBlock(b)
      /\ UNCHANGED <<best, header, crashes>> /\ job[NetSync] = Idle
      /\ job' = [job EXCEPT ![NetSync] = k]
  BY DEF ProcessBlock, MayCall, HaveBlock, viewVars, Continue,
         InductiveInv, ChainInv, GoodIndex, NonGenesis
<1>2. k.pc = "connect" /\ k.node = b /\ k.queue = <<>>
  BY DEF Begin, Idle
<1> HIDE DEF k
<1> QED
  BY <1>1, <1>2, IdleJob, SyncStores

LEMMA SyncOrphans ==
    ASSUME InductiveInv, SyncInv, ProcessOrphans(NetSync)
    PROVE  SyncInv'
<1> DEFINE j == job[NetSync]
<1>1. /\ UNCHANGED <<best, header, crashes>> /\ j.pc = "orphans"
      /\ j \in Jobs /\ j.queue \in Seq(Blocks)
      /\ \A i \in DOMAIN j.queue : HaveData(status[j.queue[i]])
  BY SyncStart DEF ProcessOrphans, viewVars, SyncInv, SyncJob, Jobs
<1>2. ASSUME NEW ok, Return(NetSync, j, ok), UNCHANGED <<indexVars, disk>>
      PROVE  SyncInv'
  <2>1. \A p \in Procs : job'[p] = Idle
    BY <1>2, JobAfter DEF Return
  <2>2. SyncFlags'
    BY <1>1, <1>2 DEF SyncInv, SyncFlags, indexVars
  <2>3. crashes = 0 => /\ Work[best] <= Work[header]
                       /\ \A c \in Blocks : Candidate(status, c) => Work[c] <= Work[best]
    BY <1>1 DEF SyncInv, SyncWork
  <2> QED
    BY <1>1, <1>2, <2>1, <2>2, <2>3, SyncIdle, SyncStart DEF indexVars
<1>3. ASSUME NEW i \in DOMAIN j.queue, NEW k \in DOMAIN orphans, Parent[orphans[k]] = j.queue[i],
             StoreBlock(orphans[k]),
             Continue(NetSync, [j EXCEPT !.pc = "connect", !.node = orphans[k],
                                         !.queue = SubSeq(@, i, Len(@))], NetSync)
      PROVE  SyncInv'
  <2> DEFINE o == orphans[k]
             l == [j EXCEPT !.pc = "connect", !.node = o, !.queue = SubSeq(@, i, Len(@))]
  <2>1. o \in NonGenesis /\ ~HaveData(status[o]) /\ HaveData(status[Parent[o]])
    BY <1>1, <1>3 DEF InductiveInv, OrphanInv
  <2>2. l.pc = "connect" /\ l.node = o /\ l.queue = SubSeq(j.queue, i, Len(j.queue))
    BY <1>1 DEF Jobs
  <2>3. job' = [job EXCEPT ![NetSync] = l]
    BY <1>3 DEF Continue
  <2> HIDE DEF l
  <2>4. \A m \in DOMAIN l.queue : l.queue[m] \in Blocks /\ HaveData(status[l.queue[m]])
    <3>1. i \in 1 .. Len(j.queue) /\ Len(j.queue) \in Nat /\ DOMAIN j.queue = 1 .. Len(j.queue)
      BY <1>1
    <3> DEFINE Stored == {b \in Blocks : HaveData(status[b])}
    <3>2. \A m \in i .. Len(j.queue) : j.queue[m] \in Stored
      BY <1>1, <3>1
    <3> HIDE DEF Stored
    <3>3. l.queue \in Seq(Stored)
      BY <2>2, <3>1, <3>2
    <3>4. \A m \in DOMAIN l.queue : l.queue[m] \in Stored
      BY <3>3
    <3> QED
      BY <3>4 DEF Stored
  <2> HIDE DEF o
  <2> QED
    BY <1>1, <1>3, <2>1, <2>2, <2>3, <2>4, SyncStores DEF o
<1> QED
  BY <1>2, <1>3 DEF ProcessOrphans

\* A call that begins and ends in one step finds and leaves no other call.
LEMMA SyncCalls ==
    ASSUME InductiveInv, SyncInv, NEW b \in NonGenesis,
           ProcessOrphanBlock(b) \/ ProcessBlockHeader(b)
    PROVE  SyncInv'
<1>1. /\ UNCHANGED <<status, best, crashes>> /\ job[NetSync] = Idle
      /\ job' = [job EXCEPT ![NetSync] = Idle]
      /\ b \in Blocks /\ header \in Blocks /\ best \in Blocks
      /\ \/ header' = header
         \/ header' = b /\ (Parent[b] = header \/ Work[b] > Work[header])
  BY SyncStart, Reached DEF ProcessOrphanBlock, ProcessBlockHeader, MayCall, Return, indexVars, viewVars, NonGenesis
<1>2. disk'.status = status' /\ disk'.index = index'
  BY DEF ProcessOrphanBlock, ProcessBlockHeader, indexVars, Flushed,
         InductiveInv, ChainInv, SyncInv, SyncFlags
<1>3. SyncFlags'
  BY <1>1, <1>2 DEF SyncInv, SyncFlags
<1>4. \A p \in Procs : job'[p] = Idle
  BY <1>1, JobAfter
<1>5. crashes = 0 => /\ Work[best] <= Work[header]
                     /\ \A c \in Blocks : Candidate(status, c) => Work[c] <= Work[best]
  BY <1>1, IdleJob DEF SyncInv, SyncWork
<1>6. Work[header] <= Work[header']
  BY <1>1, WorkTypes
<1>7. crashes = 0 => Work[best] <= Work[header']
  BY <1>1, <1>5, <1>6, WorkTypes
<1> QED
  BY <1>1, <1>3, <1>4, <1>5, <1>7, SyncIdle, SyncStart

\* The next block of a reorganisation is at the tip.
LEMMA SyncAtTip ==
    ASSUME InductiveInv, SyncInv, job[NetSync].pc = "reorg"
    PROVE  LET j == job[NetSync]
               n == NextBlock(j)
           IN  /\ AtTip(j)
               /\ \/ /\ j.detach # {} /\ n = best /\ best \in NonGenesis /\ best \notin Anc[j.node]
                  \/ /\ j.detach = {} /\ n \in j.attach /\ n \in NonGenesis /\ Parent[n] = best
<1> DEFINE j == job[NetSync]
           n == NextBlock(j)
           f == FindFork(best, j.node)
<1>1. /\ best \in Blocks /\ j.node \in Blocks /\ j.detach \cup j.attach # {}
      /\ j.detach = Anc[best] \ Anc[j.node] /\ j.attach = Anc[j.node] \ Anc[best]
  BY SyncStart DEF SyncInv, SyncJob, JobOK
<1>2. /\ f \in Anc[best] /\ f \in Anc[j.node]
      /\ j.detach = Anc[best] \ Anc[f] /\ j.attach = Anc[j.node] \ Anc[f]
  <2> DEFINE node == j.node
  <2>1. best \in Blocks /\ node \in Blocks
    BY <1>1
  <2> HIDE DEF node
  <2>2. FindFork(best, node) \in Anc[best] \cap Anc[node]
    BY <2>1, ForkOnBoth
  <2>3. /\ Anc[best] \ Anc[node] = Anc[best] \ Anc[FindFork(best, node)]
        /\ Anc[node] \ Anc[best] = Anc[node] \ Anc[FindFork(best, node)]
    BY <2>1, ForkIsMeet
  <2>4. f = FindFork(best, node)
    BY DEF node
  <2> HIDE DEF f
  <2>5. j.detach = Anc[best] \ Anc[node] /\ j.attach = Anc[node] \ Anc[best]
    BY <1>1 DEF node
  <2>6. f \in Anc[best] /\ f \in Anc[node]
    BY <2>2, <2>4
  <2>7. j.detach = Anc[best] \ Anc[f] /\ j.attach = Anc[node] \ Anc[f]
    BY <2>3, <2>4, <2>5
  <2> QED
    BY <2>6, <2>7 DEF node
<1> HIDE DEF f
<1>3. CASE j.detach # {}
  <2>1. f # best
    BY <1>2, <1>3
  <2>2. Highest(j.detach) = best /\ best \in j.detach /\ best \in NonGenesis
    <3> HIDE DEF j
    <3>1. /\ Highest(Anc[best] \ Anc[f]) = best /\ best \in Anc[best] \ Anc[f]
          /\ best \in NonGenesis
      BY <1>1, <1>2, <2>1, HighestOfBranch
    <3> QED
      BY <1>2, <3>1
  <2> QED
    BY <1>1, <1>3, <2>2 DEF AtTip, NextBlock
<1>4. CASE j.detach = {}
  <2>1. f = best
    BY <1>1, <1>2, <1>4, HighestOfBranch
  <2>2. f # j.node
    BY <1>1, <1>2, <1>4
  <2>3. Lowest(j.attach) \in j.attach \cap NonGenesis /\ Parent[Lowest(j.attach)] = best
    <3> DEFINE node == j.node
               S == Anc[node] \ Anc[f]
    <3>1. node \in Blocks /\ f \in Anc[node] /\ f # node /\ j.attach = S
      BY <1>1, <1>2, <2>2
    <3> HIDE DEF node, j
    <3>2. Lowest(S) \in S \cap NonGenesis /\ Parent[Lowest(S)] = f
      BY <3>1, LowestOfBranch
    <3> HIDE DEF S
    <3> QED
      BY <2>1, <3>1, <3>2
  <2> QED
    BY <1>4, <2>3 DEF AtTip, NextBlock
<1> QED
  BY <1>3, <1>4

LEMMA SyncMoveTip ==
    ASSUME InductiveInv, SyncInv, MoveTip(NetSync)
    PROVE  SyncInv'
<1> DEFINE j == job[NetSync]
           b == j.node
           n == NextBlock(j)
           tip == IF j.detach # {} THEN Parent[n] ELSE n
           d == j.detach \ {n}
           a == j.attach \ {n}
           k == Reorganize(j, d, a, j.next)
<1>1. /\ j.pc = "reorg" /\ best' = tip /\ disk' = [disk EXCEPT !.best = tip]
      /\ job' = [job EXCEPT ![NetSync] = k]
      /\ UNCHANGED <<index, status, header, crashes>>
  BY DEF MoveTip, Continue, indexVars
<1>2. /\ j \in Jobs /\ b \in Blocks /\ best \in Blocks /\ HaveData(status[b])
      /\ \A i \in DOMAIN j.queue : HaveData(status[j.queue[i]])
      /\ j.next \in {"connected", "accepted"} /\ j.onMain
      /\ j.detach = Anc[best] \ Anc[b] /\ j.attach = Anc[b] \ Anc[best]
      /\ \A c \in j.attach : KnownValid(status[c]) /\ ~KnownInvalid(status[c])
  BY <1>1, SyncStart DEF SyncInv, SyncJob
<1>3. /\ tip \in Blocks /\ d = Anc[tip] \ Anc[b] /\ a = Anc[b] \ Anc[tip]
      /\ Anc[tip] \subseteq Anc[best] \cup j.attach
  <2>1. CASE j.detach # {}
    <3>1. n = best /\ best \in NonGenesis /\ best \notin Anc[b] /\ tip = Parent[best]
      BY <1>1, <2>1, SyncAtTip
    <3>2. tip \in Blocks /\ Anc[best] = Anc[tip] \cup {best} /\ best \notin Anc[tip]
      BY <3>1, ChildFacts
    <3> HIDE DEF tip, n, j, b
    <3>3. d = Anc[tip] \ Anc[b]
      BY <1>2, <3>1, <3>2
    <3>4. a = Anc[b] \ Anc[tip]
      BY <1>2, <3>1, <3>2
    <3> QED
      BY <3>2, <3>3, <3>4
  <2>2. CASE j.detach = {}
    <3>1. n \in j.attach /\ n \in NonGenesis /\ Parent[n] = best /\ tip = n
      BY <1>1, <2>2, SyncAtTip
    <3> HIDE DEF tip, n, j, b
    <3>a. n \in Anc[b]
      BY <1>2, <3>1
    <3>b. Anc[n] \subseteq Anc[b]
      BY <1>2, <3>a, AncestorFacts
    <3>2. tip \in Blocks /\ Anc[tip] = Anc[best] \cup {n} /\ Anc[n] \subseteq Anc[b]
      BY <3>1, <3>b, ChildFacts
    <3> QED
      BY <1>2, <2>2, <3>1, <3>2
  <2> QED
    BY <2>1, <2>2
<1> HIDE DEF tip, n, d, a
<1>4. /\ k.pc = (IF d = {} /\ a = {} THEN j.next ELSE "reorg") /\ k.next = j.next
      /\ k.detach = d /\ k.attach = a /\ k.node = b /\ k.queue = j.queue /\ k.onMain
  BY <1>2 DEF Reorganize, Jobs
<1>5. job'[NetSync] = k /\ \A p \in Procs \ {NetSync} : job'[p] = Idle
  BY <1>1, JobAfter
<1> HIDE DEF k
<1>6. SyncFlags'
  <2>1. disk'.index = index' /\ disk'.status = status'
    BY <1>1 DEF SyncInv, SyncFlags, InductiveInv, ChainInv
  <2>2. \A c \in Anc[best'] : KnownValid(status'[c]) /\ ~KnownInvalid(status'[c])
    BY <1>1, <1>2, <1>3 DEF SyncInv, SyncFlags
  <2> QED
    BY <1>1, <2>1, <2>2 DEF SyncInv, SyncFlags
<1>7. \A c \in a : KnownValid(status[c]) /\ ~KnownInvalid(status[c])
  BY <1>2 DEF a
<1>8. CASE d = {} /\ a = {}
  <2>1. Anc[tip] = Anc[b]
    BY <1>2, <1>3, <1>8
  <2>2. tip = b
    BY <1>2, <1>3, <2>1, AncestorFacts, TreeTypes
  <2>3. k.pc \in {"connected", "accepted"}
    BY <1>2, <1>4, <1>8
  <2>4. SyncJob'
    BY <1>1, <1>2, <1>4, <1>5, <2>3 DEF SyncJob
  <2>5. SyncWork'
    BY <1>1, <1>2, <1>4, <1>5, <2>2, <2>3, WorkTypes DEF SyncInv, SyncWork
  <2> QED
    BY <1>6, <2>4, <2>5 DEF SyncInv
<1>9. CASE ~(d = {} /\ a = {})
  <2>1. k.pc = "reorg"
    BY <1>4, <1>9
  <2>2. SyncJob'
    <3>1. /\ k.pc = "reorg" /\ k.node = b /\ k.queue = j.queue /\ k.next = j.next /\ k.onMain
          /\ k.detach = Anc[best'] \ Anc[b] /\ k.attach = Anc[b] \ Anc[best']
          /\ \A c \in k.attach : KnownValid(status[c]) /\ ~KnownInvalid(status[c])
      BY <1>1, <1>3, <1>4, <1>7, <2>1
    <3>2. /\ HaveData(status[b]) /\ j.next \in {"connected", "accepted"}
          /\ \A i \in DOMAIN j.queue : HaveData(status[j.queue[i]])
      BY <1>2
    <3>3. status' = status
      BY <1>1
    <3> HIDE DEF b, j
    <3> QED
      BY <1>5, <3>1, <3>2, <3>3 DEF SyncJob
  <2>3. crashes = 0 => \A c \in Blocks : Candidate(status, c) => Work[c] <= Work[b]
    BY <1>1 DEF SyncInv, SyncWork
  <2>4. SyncWork'
    BY <1>1, <1>4, <1>5, <2>1, <2>3 DEF SyncWork
  <2> QED
    BY <1>6, <2>2, <2>4 DEF SyncInv
<1> QED
  BY <1>8, <1>9

\* A crash loses the call in progress and no flag.
LEMMA SyncCrash ==
    ASSUME InductiveInv, SyncInv, Crash
    PROVE  SyncInv'
<1>1. /\ index' = disk.index /\ best' = disk.best /\ job' = [p \in Procs |-> Idle]
      /\ status' = SetStatusFlags(disk.status, Anc[disk.best], {"valid"})
      /\ disk' = Flushed(index', status') /\ crashes' = crashes + 1
  BY DEF Crash, Restart
<1>2. disk.index = index /\ disk.best = best /\ disk.status = status
  BY DEF SyncInv, SyncFlags, InductiveInv, ChainInv
<1>3. /\ status' \in FlagMaps
      /\ \A b \in Blocks : status'[b] = IF b \in Anc[best] THEN status[b] \cup {"valid"} ELSE status[b]
  BY <1>1, <1>2, FlagsTyped, SyncStart DEF SetStatusFlags, Flags
<1>4. /\ \A b \in Blocks : status[b] \subseteq status'[b]
      /\ \A b \in Blocks : KnownInvalid(status'[b]) => KnownInvalid(status[b])
      /\ SameData(status, status')
  <2>1. \A b \in Blocks : status'[b] = status[b] \/ status'[b] = status[b] \cup {"valid"}
    BY <1>3
  <2>2. \A b \in Blocks : KnownInvalid(status'[b]) => KnownInvalid(status[b])
    BY <2>1 DEF KnownInvalid, InvalidFlags
  <2>3. \A b \in Blocks : HaveData(status'[b]) <=> HaveData(status[b])
    BY <2>1 DEF HaveData
  <2> QED
    BY <2>1, <2>2, <2>3 DEF SameData
<1>5. {} \in SUBSET (Blocks \ Anc[best]) /\ \A c \in {} : HaveData(status[c])
  OBVIOUS
<1>6. SyncFlags'
  <2>1. UNCHANGED <<index, best>> /\ disk' = Flushed(index, status')
    BY <1>1, <1>2
  <2> QED
    BY <2>1, <1>3, <1>4, <1>5, FlagsAdded
<1>7. crashes' # 0
  BY <1>1, SyncStart
<1>8. \A b \in Anc[best'] : HaveData(status'[b])
  BY <1>1, <1>2, <1>4, SyncStart DEF SameData
<1> QED
  BY <1>1, <1>2, <1>6, <1>7, <1>8, SyncIdle, SyncStart

\* Only blocks and headers come in, so that no other call is ever in progress, the
\* index is never dirty when a block is connected, and no reorganisation is
\* aborted.
LEMMA SyncNext ==
    ASSUME Ops \subseteq {"block", "header"}, InductiveInv, SyncInv, [Next]_vars
    PROVE  SyncInv'
<1> DEFINE j == job[NetSync]
<1>1. ASSUME NEW b \in NonGenesis, ProcessOrphanBlock(b) \/ ProcessBlock(b) \/ ProcessBlockHeader(b)
      PROVE  SyncInv'
  BY <1>1, SyncCalls, SyncProcessBlock
<1>2. ASSUME NEW b \in NonGenesis, NEW p \in Procs,
             InvalidateSideBlock(p, b) \/ InvalidateMainBlock(p, b) \/ ReconsiderBlock(p, b)
      PROVE  FALSE
  BY <1>2 DEF InvalidateSideBlock, InvalidateMainBlock, ReconsiderBlock, MayCall
<1>3. ASSUME NEW p \in Procs, Step(p)
      PROVE  SyncInv'
  <2>1. job[p].pc # "idle"
    BY <1>3 DEF Step, ConnectBestChain, BlockAccepted, ProcessOrphans, FlushIndex, MoveTip,
                AbortReorganize, EndCall, PickBestTip, NilBestTip
  <2>2. p = NetSync /\ j.pc \notin {"return", "pick"}
    BY <2>1, IdleJob DEF SyncInv, SyncJob
  <2>3. ~Dirty
    BY DEF Dirty, Flushed, SyncInv, SyncFlags, InductiveInv, ChainInv
  <2>4. ~FlushIndex(p) /\ ~EndCall(p) /\ ~PickBestTip(p) /\ ~NilBestTip(p)
    BY <2>2, <2>3 DEF FlushIndex, EndCall, PickBestTip, NilBestTip
  <2>5. ~AbortReorganize(p)
    BY <2>2, SyncAtTip DEF AbortReorganize
  <2> QED
    BY <1>3, <2>2, <2>4, <2>5, SyncConnect, SyncAccepted, SyncOrphans, SyncMoveTip DEF Step
<1>4. CASE Crash
  BY <1>4, SyncCrash
<1>5. CASE UNCHANGED vars
  BY <1>5 DEF vars, indexVars, viewVars, SyncInv, SyncFlags, SyncJob, SyncWork
<1> QED
  BY <1>1, <1>2, <1>3, <1>4, <1>5 DEF Next, Call

LEMMA SyncInit ==
    ASSUME Init
    PROVE  SyncInv
<1>1. /\ index = {Genesis} /\ best = Genesis /\ header = Genesis
      /\ status = [b \in Blocks |-> IF b = Genesis THEN {"dataStored", "valid"} ELSE {}]
      /\ disk = [index |-> index, status |-> status, best |-> Genesis]
      /\ job = [p \in Procs |-> Idle] /\ NetSync \in Procs
  BY ChainAssumption DEF Init
<1>2. /\ Genesis \in Blocks /\ Anc[Genesis] = {Genesis}
      /\ \A b \in Blocks : b \in Anc[b] /\ Work[b] \in Nat
  BY TreeAssumption, WorkTypes DEF TreeShape, TreeOrder
<1>3. \A b \in Blocks : /\ HaveData(status[b]) <=> b = Genesis
                        /\ KnownValid(status[b]) <=> b = Genesis
                        /\ ~KnownInvalid(status[b])
  BY <1>1 DEF HaveData, KnownValid, KnownInvalid, InvalidFlags
<1>4. SyncFlags
  BY <1>1, <1>2, <1>3 DEF SyncFlags
<1>5. SyncJob
  BY <1>1, <1>2, <1>3, IdleJob DEF SyncJob
<1>6. \A b \in Blocks : Candidate(status, b) => b = Genesis
  BY <1>2, <1>3 DEF Candidate
<1>7. SyncWork
  <2>1. job[NetSync] = Idle /\ best = Genesis /\ header = Genesis
    BY <1>1
  <2>0. Work[Genesis] \in Nat
    BY <1>2
  <2>2. Work[best] <= Work[header]
    BY <2>0, <2>1
  <2>3. \A b \in Blocks : Candidate(status, b) => Work[b] <= Work[best]
    BY <1>2, <1>6, <2>1
  <2> QED
    BY <2>1, <2>2, <2>3, IdleJob DEF SyncWork
<1> QED
  BY <1>4, <1>5, <1>7 DEF SyncInv

\* A node that is only sent blocks and headers satisfies SyncInv throughout.
THEOREM SyncInductive ==
    ASSUME Ops \subseteq {"block", "header"}
    PROVE  Spec => []SyncInv
<1>1. Init => SyncInv
  BY SyncInit
<1>2. InductiveInv /\ SyncInv /\ [Next]_vars => SyncInv'
  BY SyncNext
<1> QED
  BY <1>1, <1>2, ChainInductive, PTL DEF Spec

\* Between calls the best chain is stored, valid and unmarked, whatever branches
\* were connected, refused or left on the way and wherever crashes hit.
THEOREM BestChainIsClean ==
    ASSUME Ops \subseteq {"block", "header"}
    PROVE  Spec => []BestChainClean
<1>1. InductiveInv /\ SyncInv => BestChainClean
  BY SyncStart DEF SyncInv, SyncFlags, BestChainClean, HaveData, KnownValid
<1> QED
  BY <1>1, ChainInductive, SyncInductive, PTL

\* Between calls, and until a crash, no complete branch without a rule broken and
\* without an invalid mark has more work than the best chain.
THEOREM BestChainHasMostWork ==
    ASSUME Ops \subseteq {"block", "header"}
    PROVE  Spec => []MostWork
<1>1. InductiveInv /\ SyncInv => MostWork
  <2> SUFFICES ASSUME InductiveInv, SyncInv, Quiet, crashes = 0, NEW b \in index,
                      Candidate(status, b)
               PROVE  Work[b] <= Work[best]
    BY DEF MostWork, Candidate
  <2>1. job[NetSync].pc = "idle" /\ b \in Blocks
    BY SyncStart, IdleJob DEF Quiet
  <2> QED
    BY <2>1 DEF SyncInv, SyncWork
<1> QED
  BY <1>1, ChainInductive, SyncInductive, PTL

\* Between calls, and until a crash, the best header is not behind the best block.
THEOREM HeaderIsAhead ==
    ASSUME Ops \subseteq {"block", "header"}
    PROVE  Spec => []HeaderLeads
<1>1. InductiveInv /\ SyncInv => HeaderLeads
  <2> SUFFICES ASSUME InductiveInv, SyncInv, Quiet, crashes = 0
               PROVE  Work[header] >= Work[best]
    BY DEF HeaderLeads
  <2>1. job[NetSync].pc = "idle" /\ best \in Blocks /\ header \in Blocks
    BY SyncStart, Reached, IdleJob DEF Quiet
  <2>2. Work[best] <= Work[header]
    BY <2>1 DEF SyncInv, SyncWork
  <2> QED
    BY <2>1, <2>2, WorkTypes
<1> QED
  BY <1>1, ChainInductive, SyncInductive, PTL
=============================================================================
