---- MODULE HeaderRules ----
(***************************************************************************)
(* The rules a block header must satisfy on its place in the tree: the     *)
(* difficulty retarget (blockchain/difficulty.go), the median time past    *)
(* and the skip pointers (blockindex.go), the checkpoints                  *)
(* (checkpoints.go), and the version bits deployments with their caches    *)
(* (thresholdstate.go, versionbits.go).                                    *)
(*                                                                         *)
(* The state is the block index: nodes[i] is the i-th header accepted,     *)
(* nodes[1] the genesis block, `parent` and `anc` are indices (0 is nil).  *)
(* The caches are functions from the nodes that have an entry to the       *)
(* threshold state, one per deployment and one per version bit.            *)
(***************************************************************************)
EXTENDS Integers, Sequences, FiniteSets, TLC

CONSTANTS
    Params,         \* the chain parameters a behaviour may run under, with the bounds of the
                    \* run: maxNodes headers, maxForks siblings, the versions and the block
                    \* times (gaps over the median time past) that are tried
    Base            \* the radix of the compact form of a target (256 in the code)

VARIABLES par, nodes, tip, cp, caches

vars == <<par, nodes, tip, cp, caches>>

Nil == 0
Genesis == 1

Least(a, b) == IF a < b THEN a ELSE b

-----------------------------------------------------------------------------
(* Compact targets: an exponent and a mantissa of three digits, whose top  *)
(* half is the sign.                                                       *)

SignBit == (Base * Base * Base) \div 2

Digits(n) == CHOOSE e \in 0 .. n : Base^e > n /\ \A d \in 0 .. (e - 1) : Base^d <= n

CompactToBig(c) ==
    LET man == c.man % SignBit
        big == IF c.exp <= 3 THEN man \div Base^(3 - c.exp) ELSE man * Base^(c.exp - 3)
    IN  IF c.man >= SignBit THEN -big ELSE big

BigToCompact(n) ==
    IF n = 0 THEN [exp |-> 0, man |-> 0]
    ELSE LET e == Digits(n)
             m == IF e <= 3 THEN n * Base^(3 - e) ELSE n \div Base^(e - 3)
         IN  IF m >= SignBit THEN [exp |-> e + 1, man |-> m \div Base]
             ELSE [exp |-> e, man |-> m]

PowLimitBits(p) == BigToCompact(p.powLimit)

-----------------------------------------------------------------------------
(* The nodes of the index.                                                 *)

LowBit(n) == CHOOSE b \in {2^k : k \in 0 .. 6} : n % b = 0 /\ n % (2 * b) # 0

InvertLowestOne(n) == IF n = 0 THEN 0 ELSE n - LowBit(n)

GetAncestorHeight(height) == InvertLowestOne(InvertLowestOne(height))

RECURSIVE AncestorFrom(_, _, _)
AncestorFrom(ns, n, height) ==
    IF n = Nil \/ ns[n].height = height THEN n
    ELSE IF ns[n].anc # Nil /\ GetAncestorHeight(ns[n].height) >= height
         THEN AncestorFrom(ns, ns[n].anc, height)
         ELSE AncestorFrom(ns, ns[n].parent, height)

Ancestor(ns, n, height) ==
    IF height < 0 \/ height > ns[n].height THEN Nil ELSE AncestorFrom(ns, n, height)

RelativeAncestor(ns, n, distance) == Ancestor(ns, n, ns[n].height - distance)

InitBlockNode(ns, header, parent) ==
    [parent |-> parent, height |-> ns[parent].height + 1,
     anc |-> Ancestor(ns, parent, GetAncestorHeight(ns[parent].height + 1)),
     time |-> header.time, bits |-> header.bits, version |-> header.version]

RECURSIVE Path(_, _)
Path(ns, n) == IF n = Nil THEN <<>> ELSE Append(Path(ns, ns[n].parent), n)

LastTimes(p, ns, n) ==
    LET path == Path(ns, n)
        k    == Least(p.medianTimeBlocks, Len(path))
    IN  [i \in 1 .. k |-> ns[path[Len(path) - k + i]].time]

CalcPastMedianTime(p, ns, n) ==
    LET times == LastTimes(p, ns, n)
    IN  SortSeq(times, <)[(Len(times) \div 2) + 1]

-----------------------------------------------------------------------------
(* Difficulty.                                                             *)

RECURSIVE FindPrevTestNetDifficulty(_, _, _)
FindPrevTestNetDifficulty(p, ns, n) ==
    IF n = Nil THEN PowLimitBits(p)
    ELSE IF ns[n].height % p.blocksPerRetarget # 0 /\ ns[n].bits = PowLimitBits(p)
         THEN FindPrevTestNetDifficulty(p, ns, ns[n].parent)
         ELSE ns[n].bits

Retarget(p, ns, last) ==
    LET first  == RelativeAncestor(ns, last, p.blocksPerRetarget - 1)
        actual == ns[last].time - ns[first].time
        span   == IF actual < p.minTimespan THEN p.minTimespan
                  ELSE IF actual > p.maxTimespan THEN p.maxTimespan ELSE actual
        target == (CompactToBig(ns[last].bits) * span) \div p.targetTimespan
    IN  BigToCompact(IF target > p.powLimit THEN p.powLimit ELSE target)

CalcNextRequiredDifficulty(p, ns, last, time) ==
    IF (ns[last].height + 1) % p.blocksPerRetarget # 0
    THEN IF ~p.reduceMinDifficulty THEN ns[last].bits
         ELSE IF time > ns[last].time + p.minDiffReductionTime THEN PowLimitBits(p)
         ELSE FindPrevTestNetDifficulty(p, ns, last)
    ELSE Retarget(p, ns, last)

-----------------------------------------------------------------------------
(* Version bits. A version is [n, bits]: n > 4 stands for a version with   *)
(* the top bits of BIP0009, whose set bits are `bits`.                     *)

TopBits(version) == version.n > 4

\* A checker is a deployment of the parameters (warn FALSE) or the watcher of an unknown bit.
Deployment(p, id) == [warn |-> FALSE, id |-> id, d |-> p.deployments[id]]
BitChecker(bit) ==
    [warn |-> TRUE, id |-> bit,
     d |-> [bit |-> bit, start |-> 0, end |-> 0, minHeight |-> 0, threshold |-> 0]]

PastMedianTime(p, ns, n) == CalcPastMedianTime(p, ns, n)

\* By the time of the block itself, which may go back.
HasStartedByOwnTime(p, ns, c, n) ==
    \/ c.warn
    \/ c.d.start = 0
    \/ ns[n].parent # Nil /\ ns[n].time >= c.d.start

\* The zero time of a deployment is written 0; the genesis header has no previous node to look up.
HasStarted(p, ns, c, n) ==
    \/ c.warn
    \/ c.d.start = 0
    \/ ns[n].parent # Nil /\ PastMedianTime(p, ns, n) >= c.d.start

HasEnded(p, ns, c, n) ==
    /\ ~c.warn
    /\ c.d.end # 0
    /\ ns[n].parent # Nil /\ PastMedianTime(p, ns, n) >= c.d.end

Threshold(p, c) == IF c.d.threshold # 0 THEN c.d.threshold ELSE p.threshold

EligibleToActivate(ns, c, n) == c.d.minHeight = 0 \/ ns[n].height + 1 >= c.d.minHeight

IsSpeedy(c) == c.d.minHeight # 0 \/ c.d.threshold # 0

Signals(ns, n, bit) == TopBits(ns[n].version) /\ bit \in ns[n].version.bits

CacheOf(cs, c) == IF c.warn THEN cs.warning[c.id] ELSE cs.deployment[c.id]

CacheUpdate(cs, c, n, state) ==
    IF c.warn THEN [cs EXCEPT !.warning[c.id] = (n :> state) @@ @]
    ELSE [cs EXCEPT !.deployment[c.id] = (n :> state) @@ @]

\* What thresholdStateTransition decides, given how many blocks of the window meet the condition.
NextState(p, ns, c, state, n, count) ==
    CASE state = "defined" ->
           IF ~IsSpeedy(c) /\ HasEnded(p, ns, c, n) THEN "failed"
           ELSE IF HasStarted(p, ns, c, n) THEN "started" ELSE "defined"
      [] state = "started" ->
           IF ~IsSpeedy(c) /\ HasEnded(p, ns, c, n) THEN "failed"
           ELSE IF count >= Threshold(p, c) THEN "lockedin"
           ELSE IF IsSpeedy(c) /\ HasEnded(p, ns, c, n) THEN "failed" ELSE "started"
      [] state = "lockedin" -> IF EligibleToActivate(ns, c, n) THEN "active" ELSE "lockedin"
      [] OTHER -> state

RECURSIVE ThresholdState(_, _, _, _, _), CountWindow(_, _, _, _, _, _, _), Resolve(_, _, _, _, _, _),
          NextBlockVersion(_, _, _, _, _)

\* How many of the k blocks ending in n meet the condition; the watcher of a bit asks
\* calcNextBlockVersion, which fills the deployment caches on the way.
CountWindow(p, ns, cs, c, n, k, count) ==
    IF k = 0 THEN [count |-> count, caches |-> cs]
    ELSE IF ~Signals(ns, n, c.d.bit) \/ ~c.warn
    THEN CountWindow(p, ns, cs, c, ns[n].parent, k - 1,
                     IF Signals(ns, n, c.d.bit) THEN count + 1 ELSE count)
    ELSE LET v == NextBlockVersion(p, ns, cs, ns[n].parent, 1)
         IN  CountWindow(p, ns, v.caches, c, ns[n].parent, k - 1,
                         IF c.d.bit \notin v.bits THEN count + 1 ELSE count)

\* Walk back to a cached window, or to one before the start, and come forward again.
Resolve(p, ns, cs, c, n, needed) ==
    IF n = Nil \/ n \in DOMAIN CacheOf(cs, c)
    THEN LET Forward[i \in 0 .. Len(needed)] ==
               IF i = 0 THEN [state |-> IF n = Nil THEN "defined" ELSE CacheOf(cs, c)[n], caches |-> cs]
               ELSE LET f     == Forward[i - 1]
                        w     == needed[Len(needed) - i + 1]
                        count == IF f.state = "started"
                                    /\ (IsSpeedy(c) \/ ~HasEnded(p, ns, c, w))
                                 THEN CountWindow(p, ns, f.caches, c, w, p.window, 0)
                                 ELSE [count |-> 0, caches |-> f.caches]
                        state == NextState(p, ns, c, f.state, w, count.count)
                    IN  [state |-> state, caches |-> CacheUpdate(count.caches, c, w, state)]
         IN  Forward[Len(needed)]
    ELSE IF ~HasStarted(p, ns, c, n)
    THEN Resolve(p, ns, CacheUpdate(cs, c, n, "defined"), c, n, needed)
    ELSE Resolve(p, ns, cs, c, RelativeAncestor(ns, n, p.window), Append(needed, n))

ThresholdState(p, ns, cs, c, prev) ==
    IF prev = Nil \/ ns[prev].height + 1 < p.window THEN [state |-> "defined", caches |-> cs]
    ELSE Resolve(p, ns, cs, c,
                 Ancestor(ns, prev, ns[prev].height - ((ns[prev].height + 1) % p.window)), <<>>)

NextBlockVersion(p, ns, cs, prev, id) ==
    IF id > Len(p.deployments) THEN [bits |-> {}, caches |-> cs]
    ELSE LET t    == ThresholdState(p, ns, cs, Deployment(p, id), prev)
             rest == NextBlockVersion(p, ns, t.caches, prev, id + 1)
         IN  IF t.state \in {"started", "lockedin"}
             THEN [rest EXCEPT !.bits = @ \cup {p.deployments[id].bit}] ELSE rest

\* The queries of checkBlockContext and checkConnectBlock for the soft forks of a block on prev.
RECURSIVE DeploymentStates(_, _, _, _, _)
DeploymentStates(p, ns, cs, prev, id) ==
    IF id > Len(p.deployments) THEN cs
    ELSE DeploymentStates(p, ns, ThresholdState(p, ns, cs, Deployment(p, id), prev).caches, prev, id + 1)

RECURSIVE WarnBits(_, _, _, _, _)
WarnBits(p, ns, cs, prev, bits) ==
    IF bits = {} THEN cs
    ELSE LET b == CHOOSE b \in bits : \A o \in bits : b <= o
         IN  WarnBits(p, ns, ThresholdState(p, ns, cs, BitChecker(b), prev).caches, prev, bits \ {b})

WarnUnknownRuleActivations(p, ns, cs, n) == WarnBits(p, ns, cs, ns[n].parent, p.bits)

NewThresholdCaches(p) ==
    [deployment |-> [id \in 1 .. Len(p.deployments) |-> <<>>], warning |-> [b \in p.bits |-> <<>>]]

InitThresholdCaches(p, ns, t) ==
    DeploymentStates(p, ns, WarnBits(p, ns, NewThresholdCaches(p), ns[t].parent, p.bits),
                     ns[t].parent, 1)

-----------------------------------------------------------------------------
(* Checkpoints: p.checkpoints lists their heights. The hash of a checkpoint *)
(* stands for the whole chain below it: the chain of the times p.goodTimes  *)
(* and the version p.goodVersion.                                           *)

OnBestChain(ns, t, n) == Ancestor(ns, t, ns[n].height) = n

Good(p, ns, n) ==
    \A i \in 2 .. Len(Path(ns, n)) :
        LET b == ns[Path(ns, n)[i]] IN b.time = p.goodTimes[i - 1] /\ b.version = p.goodVersion

VerifyCheckpoint(p, ns, prev, header) ==
    LET height == ns[prev].height + 1
    IN  (\E i \in DOMAIN p.checkpoints : p.checkpoints[i] = height) =>
            /\ Good(p, ns, prev)
            /\ header.time = p.goodTimes[height] /\ header.version = p.goodVersion

LookupCheckpoint(p, ns, i) == {n \in DOMAIN ns : ns[n].height = p.checkpoints[i] /\ Good(p, ns, n)}

\* cp is [node, next]: the last checkpoint found and the index of the next one (0 is nil).
FindPreviousCheckpoint(p, ns, t, c) ==
    IF p.checkpoints = <<>> THEN c
    ELSE IF c.node = Nil /\ c.next = 0
    THEN LET known == {i \in DOMAIN p.checkpoints :
                         \E n \in LookupCheckpoint(p, ns, i) : OnBestChain(ns, t, n)}
         IN  IF known = {} THEN [node |-> Nil, next |-> 1]
             ELSE LET i == CHOOSE i \in known : \A j \in known : j <= i
                      n == CHOOSE n \in LookupCheckpoint(p, ns, i) : OnBestChain(ns, t, n)
                  IN  [node |-> n, next |-> IF i < Len(p.checkpoints) THEN i + 1 ELSE 0]
    ELSE IF c.next = 0 \/ ns[t].height < p.checkpoints[c.next] THEN c
    ELSE [node |-> CHOOSE n \in LookupCheckpoint(p, ns, c.next) : TRUE,
          next |-> IF c.next < Len(p.checkpoints) THEN c.next + 1 ELSE 0]

-----------------------------------------------------------------------------
(* Accepting a header.                                                     *)

CheckProofOfWork(p, header) ==
    CompactToBig(header.bits) > 0 /\ CompactToBig(header.bits) <= p.powLimit

VersionTooOld(p, version, height) ==
    \/ version.n < 2 /\ height >= p.bip34
    \/ version.n < 3 /\ height >= p.bip66
    \/ version.n < 4 /\ height >= p.bip65

CheckBlockHeaderContext(p, ns, header, prev, c) ==
    /\ header.bits = CalcNextRequiredDifficulty(p, ns, prev, header.time)
    /\ header.time > CalcPastMedianTime(p, ns, prev)
    /\ VerifyCheckpoint(p, ns, prev, header)
    /\ c.node # Nil => ns[prev].height + 1 >= ns[c.node].height
    /\ ~VersionTooOld(p, header.version, ns[prev].height + 1)

Forks(ns) == Cardinality({n \in DOMAIN ns : \E m \in DOMAIN ns : m < n /\ ns[m].parent = ns[n].parent})

Init ==
    /\ par \in Params
    /\ nodes = <<[parent |-> Nil, height |-> 0, anc |-> Nil, time |-> 0, bits |-> par.genesisBits,
                  version |-> [n |-> 1, bits |-> {}]]>>
    /\ tip = Genesis
    /\ cp = [node |-> Nil, next |-> 0]
    /\ caches = InitThresholdCaches(par, nodes, tip)

\* A block with this header is accepted and connected, or stored on a side chain; the longest
\* chain is the best one here, the reorganisation itself is the subject of BlockChain.
AcceptHeader(prev, gap, version) ==
    LET time   == CalcPastMedianTime(par, nodes, prev) + gap
        header == [time |-> time, version |-> version,
                   bits |-> CalcNextRequiredDifficulty(par, nodes, prev, time)]
        c      == FindPreviousCheckpoint(par, nodes, tip, cp)
        ns     == Append(nodes, InitBlockNode(nodes, header, prev))
        new    == Len(ns)
        cs     == DeploymentStates(par, ns, caches, prev, 1)
    IN  /\ Len(nodes) < par.maxNodes
        /\ \A n \in DOMAIN nodes :                          \* blockExists
             nodes[n].parent = prev => nodes[n].time # time \/ nodes[n].version # version
        /\ CheckProofOfWork(par, header)
        /\ CheckBlockHeaderContext(par, nodes, header, prev, c)
        /\ Forks(ns) <= par.maxForks
        /\ nodes' = ns
        /\ cp' = c
        /\ tip' = IF ns[new].height > nodes[tip].height THEN new ELSE tip
        /\ caches' = IF tip' = new THEN WarnUnknownRuleActivations(par, ns, cs, new) ELSE cs
        /\ UNCHANGED par

\* The node stops and starts again: the caches and the checkpoint it found are memory only.
Restart ==
    /\ cp' = [node |-> Nil, next |-> 0]
    /\ caches' = InitThresholdCaches(par, nodes, tip)
    /\ UNCHANGED <<par, nodes, tip>>

Next ==
    \/ \E prev \in DOMAIN nodes, gap \in par.gaps, version \in par.versions : AcceptHeader(prev, gap, version)
    \/ Restart

Spec == Init /\ [][Next]_vars

-----------------------------------------------------------------------------
(* Properties.                                                             *)

ThresholdStates == {"defined", "started", "lockedin", "active", "failed"}

\* The target the next block needs is always above zero and under the limit, whatever the times
\* of the blocks before it: the chain can be extended.
TypeOK ==
    /\ \A n \in DOMAIN nodes :
         /\ n > Genesis => nodes[n].parent \in 1 .. (n - 1)
         /\ \A gap \in par.gaps :
              CompactToBig(CalcNextRequiredDifficulty(par, nodes, n, CalcPastMedianTime(par, nodes, n) + gap))
                  \in 1 .. par.powLimit
    /\ tip \in DOMAIN nodes
    /\ \A id \in DOMAIN caches.deployment : \A n \in DOMAIN caches.deployment[id] :
         n \in DOMAIN nodes /\ caches.deployment[id][n] \in ThresholdStates

\* Ancestor, which follows the skip pointers built when a node is added, returns the block that
\* following the parents one by one reaches, at every height.
SkipsAgree ==
    \A n \in DOMAIN nodes : \A h \in 0 .. nodes[n].height :
        Ancestor(nodes, n, h) = Path(nodes, n)[h + 1]

\* The median time past never goes back from a block to its child, although block times may.
MedianTimeAdvances ==
    \A n \in DOMAIN nodes : n > Genesis =>
        CalcPastMedianTime(par, nodes, n) >= CalcPastMedianTime(par, nodes, nodes[n].parent)

\* The threshold state a window ends in, by BIP0009 alone: from the first window on, without
\* the caches and without the early exit for blocks before the start.
RECURSIVE PureState(_, _), PureBits(_)
PureState(c, n) ==
    IF n = Nil THEN "defined"
    ELSE LET before == PureState(c, RelativeAncestor(nodes, n, par.window))
             window == {b \in DOMAIN nodes : nodes[b].height > nodes[n].height - par.window
                                             /\ Ancestor(nodes, n, nodes[b].height) = b}
             count  == Cardinality({b \in window : Signals(nodes, b, c.d.bit)
                                       /\ (c.warn => c.d.bit \notin PureBits(nodes[b].parent))})
         IN  NextState(par, nodes, c, before, n, count)

PureBits(prev) ==
    {par.deployments[id].bit : id \in
        {i \in DOMAIN par.deployments :
            prev # Nil /\ nodes[prev].height + 1 >= par.window /\
            PureState(Deployment(par, i),
                      Ancestor(nodes, prev, nodes[prev].height - ((nodes[prev].height + 1) % par.window)))
                \in {"started", "lockedin"}}}

\* Every state in a cache is the one BIP0009 gives the window that ends in that block: the
\* shortcut in thresholdState for blocks before the start, the order in which branches and
\* restarts fill the caches and the queries nested in a watcher's condition change nothing.
CachesAgree ==
    /\ \A id \in DOMAIN caches.deployment : \A n \in DOMAIN caches.deployment[id] :
         caches.deployment[id][n] = PureState(Deployment(par, id), n)
    /\ \A b \in par.bits : \A n \in DOMAIN caches.warning[b] :
         caches.warning[b][n] = PureState(BitChecker(b), n)

\* A retarget changes the target by no more than the adjustment factor in either direction,
\* up to the rounding of the compact form and the limit.
RetargetBounded ==
    \A n \in DOMAIN nodes : n > Genesis /\ ~par.reduceMinDifficulty =>
        LET old == CompactToBig(nodes[nodes[n].parent].bits)
            new == CompactToBig(nodes[n].bits)
        IN  /\ new <= old * par.adjustmentFactor
            /\ nodes[n].bits \in {BigToCompact(t) : t \in (old \div par.adjustmentFactor) .. par.powLimit}

\* The lookup that findPreviousCheckpoint asserts succeeds, and the checkpoint it found stays
\* on the best chain.
CheckpointKept ==
    /\ cp.next # 0 /\ nodes[tip].height >= par.checkpoints[cp.next] =>
          LookupCheckpoint(par, nodes, cp.next) # {}
    /\ cp.node # Nil => OnBestChain(nodes, tip, cp.node)

\* The header rules do what they are defined to do on every branch: skip lists
\* find the ancestors, the median time advances, cached deployment states equal
\* computed ones, targets change within their bounds, and checkpoints hold.
HeadersSound ==
    /\ TypeOK /\ SkipsAgree /\ MedianTimeAdvances /\ CachesAgree
    /\ RetargetBounded /\ CheckpointKept

====
