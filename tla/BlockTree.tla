----------------------------- MODULE BlockTree -----------------------------
(***************************************************************************)
(* The tree of blocks that the block index (blockchain/blockindex.go) and  *)
(* the chain views (blockchain/chainview.go) walk.  The tree is a constant: *)
(* a header commits to its parent, so the shape never changes; what changes *)
(* is which blocks a node has heard of and which branch is its best chain. *)
(*                                                                         *)
(* A chain view stores the nodes of one branch in a slice indexed by       *)
(* height.  Its content is determined by its tip, so a view is represented *)
(* here by its tip t: the slice holds exactly Anc[t].                      *)
(***************************************************************************)
EXTENDS Integers, FiniteSets, TLAPS

CONSTANTS
    Blocks,     \* block hashes
    Genesis,    \* the root, hard coded in the chain parameters
    Parent,     \* [Blocks \ {Genesis} -> Blocks], blockNode.parent
    Height,     \* [Blocks -> Nat], blockNode.height
    Anc         \* [Blocks -> SUBSET Blocks], a block and all its ancestors

NonGenesis == Blocks \ {Genesis}

\* The highest block of a set of blocks of one branch.
Highest(S) == CHOOSE b \in S : \A c \in S : Height[c] <= Height[b]

\* The lowest block of a set of blocks of one branch.
Lowest(S) == CHOOSE b \in S : \A c \in S : Height[b] <= Height[c]

\* chainView.contains: the slot at the node's height holds the node itself.
Contains(t, n) == n \in Anc[t]

\* chainView.findFork: walk back from n until the view with tip t contains it.
FindFork(t, n) == Highest(Anc[t] \cap Anc[n])

\* A block, its parent and its ancestors fit together as they do in a tree.
TreeShape ==
    /\ Genesis \in Blocks
    /\ Parent \in [NonGenesis -> Blocks]
    /\ Height \in [Blocks -> Nat]
    /\ Anc \in [Blocks -> SUBSET Blocks]
    /\ Anc[Genesis] = {Genesis}
    /\ \A b \in NonGenesis : /\ Height[b] = Height[Parent[b]] + 1
                             /\ Anc[b] = Anc[Parent[b]] \cup {b}
                             /\ b \notin Anc[Parent[b]]

\* What follows from TreeShape by induction on the height: ancestry is a partial
\* order by height, the blocks of a branch are totally ordered and without
\* gaps, and every part of a branch has a lowest and a highest block.
TreeOrder ==
    /\ \A b \in Blocks : b \in Anc[b] /\ Genesis \in Anc[b]
    /\ \A b \in Blocks : \A a \in Anc[b] : /\ Anc[a] \subseteq Anc[b]
                                           /\ a = b \/ Height[a] < Height[b]
    /\ \A b \in Blocks : \A a, c \in Anc[b] :
          Height[a] <= Height[c] => a \in Anc[c]
    /\ \A b \in Blocks : \A a \in Anc[b] \ {b} :
          \E n \in Anc[b] \ {Genesis} : Parent[n] = a
    /\ \A b \in Blocks : \A S \in (SUBSET Anc[b]) \ {{}} :
          /\ \E low \in S : \A c \in S : Height[low] <= Height[c]
          /\ \E high \in S : \A c \in S : Height[c] <= Height[high]

ASSUME TreeAssumption == TreeShape /\ TreeOrder

-----------------------------------------------------------------------------
(***************************************************************************)
(* Facts about branches of the block tree, for every tree.                 *)
(***************************************************************************)

\* Typing of the constants, for the leaves that need no more.
LEMMA TreeTypes ==
    /\ Genesis \in Blocks
    /\ \A b \in NonGenesis : b \in Blocks /\ Parent[b] \in Blocks
    /\ \A b \in Blocks : Height[b] \in Nat /\ Anc[b] \subseteq Blocks /\ b \in Anc[b]
BY TreeAssumption DEF TreeShape, TreeOrder, NonGenesis

\* Every part of a branch has a highest block.
LEMMA HighestExists ==
    ASSUME NEW t \in Blocks, NEW S \in SUBSET Anc[t], S # {}
    PROVE  Highest(S) \in S /\ \A c \in S : Height[c] <= Height[Highest(S)]
<1>1. \E b \in S : \A c \in S : Height[c] <= Height[b]
  BY TreeAssumption DEF TreeOrder
<1> QED
  BY <1>1 DEF Highest

\* Every part of a branch has a lowest block.
LEMMA LowestExists ==
    ASSUME NEW t \in Blocks, NEW S \in SUBSET Anc[t], S # {}
    PROVE  Lowest(S) \in S /\ \A c \in S : Height[Lowest(S)] <= Height[c]
<1>1. \E b \in S : \A c \in S : Height[b] <= Height[c]
  BY TreeAssumption DEF TreeOrder
<1> QED
  BY <1>1 DEF Lowest

\* Two blocks of a branch at the same height are the same block.
LEMMA SameHeight ==
    ASSUME NEW t \in Blocks, NEW a \in Anc[t], NEW c \in Anc[t],
           Height[a] = Height[c]
    PROVE  a = c
<1>1. a \in Blocks /\ c \in Blocks /\ Height[a] <= Height[c] /\ Height[c] <= Height[a]
  BY TreeTypes
<1>2. a \in Anc[c]
  BY <1>1, TreeAssumption DEF TreeOrder
<1>3. a = c \/ Height[a] < Height[c]
  BY <1>1, <1>2, TreeAssumption DEF TreeOrder
<1> QED
  BY <1>1, <1>3, TreeTypes

\* A block is below its parent only, and its branch is its parent's and itself.
LEMMA ChildFacts ==
    ASSUME NEW b \in NonGenesis
    PROVE  /\ b \in Blocks
           /\ Parent[b] \in Blocks
           /\ Parent[b] \in Anc[b]
           /\ Anc[b] = Anc[Parent[b]] \cup {b}
           /\ b \notin Anc[Parent[b]]
           /\ Height[b] = Height[Parent[b]] + 1
<1>1. b \in Blocks /\ Parent[b] \in Blocks /\ Parent[b] \in Anc[Parent[b]]
  BY TreeTypes
<1>2. /\ Height[b] = Height[Parent[b]] + 1
      /\ Anc[b] = Anc[Parent[b]] \cup {b}
      /\ b \notin Anc[Parent[b]]
  BY TreeAssumption DEF TreeShape
<1> QED
  BY <1>1, <1>2

\* Ancestry is transitive, and antisymmetric.
LEMMA AncestorFacts ==
    ASSUME NEW t \in Blocks, NEW a \in Anc[t]
    PROVE  /\ a \in Blocks
           /\ Anc[a] \subseteq Anc[t]
           /\ Height[a] <= Height[t]
           /\ t \in Anc[a] => a = t
<1>1. a \in Blocks /\ Anc[a] \subseteq Anc[t] /\ (a = t \/ Height[a] < Height[t])
  BY TreeAssumption, TreeTypes DEF TreeOrder
<1>2. t \in Anc[a] => (t = a \/ Height[t] < Height[a])
  BY <1>1, TreeAssumption DEF TreeOrder
<1> QED
  BY <1>1, <1>2, TreeTypes

\* The blocks of a branch above f: the highest is its tip.
LEMMA HighestOfBranch ==
    ASSUME NEW t \in Blocks, NEW f \in Anc[t], f # t
    PROVE  /\ Highest(Anc[t] \ Anc[f]) = t
           /\ t \in Anc[t] \ Anc[f]
           /\ t \in NonGenesis
<1> DEFINE S == Anc[t] \ Anc[f]
           IsTop(b) == \A c \in S : Height[c] <= Height[b]
<1>1. t \in S
  BY AncestorFacts, TreeTypes
<1>2. IsTop(t)
  BY AncestorFacts
<1>3. ASSUME NEW b \in S, IsTop(b)
      PROVE  b = t
  <2>1. Height[t] <= Height[b] /\ Height[b] <= Height[t] /\ b \in Blocks
    BY <1>1, <1>3, AncestorFacts
  <2>2. Height[b] = Height[t]
    BY <2>1, TreeTypes
  <2> QED
    BY <2>2, SameHeight, TreeTypes
<1>4. Highest(S) = t
  BY <1>1, <1>2, <1>3 DEF Highest
<1>5. t # Genesis
  BY TreeAssumption, <1>1 DEF TreeShape, TreeOrder
<1> QED
  BY <1>1, <1>4, <1>5 DEF NonGenesis

\* The highest block of a whole branch is its tip.
LEMMA HighestOfChain ==
    ASSUME NEW t \in Blocks
    PROVE  Highest(Anc[t]) = t
<1>1. t \in Anc[t] /\ \A c \in Anc[t] : Height[c] <= Height[t]
  BY AncestorFacts, TreeTypes
<1>2. ASSUME NEW b \in Anc[t], \A c \in Anc[t] : Height[c] <= Height[b]
      PROVE  b = t
  <2>1. Height[t] <= Height[b] /\ Height[b] <= Height[t] /\ b \in Blocks
    BY <1>1, <1>2, AncestorFacts
  <2>2. Height[b] = Height[t]
    BY <2>1, TreeTypes
  <2> QED
    BY <2>2, SameHeight, TreeTypes
<1> QED
  BY <1>1, <1>2 DEF Highest

\* The blocks of a branch above f: the lowest is the child of f, and the others
\* are the blocks above it.
LEMMA LowestOfBranch ==
    ASSUME NEW t \in Blocks, NEW f \in Anc[t], f # t
    PROVE  /\ Lowest(Anc[t] \ Anc[f]) \in (Anc[t] \ Anc[f]) \cap NonGenesis
           /\ Parent[Lowest(Anc[t] \ Anc[f])] = f
<1> DEFINE S == Anc[t] \ Anc[f]
           IsBottom(b) == \A c \in S : Height[b] <= Height[c]
<1>f. f \in Blocks
  BY AncestorFacts
<1>1. PICK n \in Anc[t] \ {Genesis} : Parent[n] = f
  BY TreeAssumption DEF TreeOrder
<1>2. n \in NonGenesis /\ n \in S
  BY <1>1, ChildFacts, TreeTypes DEF NonGenesis
<1>3. IsBottom(n)
  <2> SUFFICES ASSUME NEW c \in S
               PROVE  Height[n] <= Height[c]
    OBVIOUS
  <2>1. c \in Blocks /\ ~(Height[c] <= Height[f])
    BY <1>f, TreeAssumption, TreeTypes, Zenon DEF TreeOrder
  <2>2. Height[n] = Height[f] + 1
    BY <1>1, <1>2, ChildFacts
  <2> QED
    BY <2>1, <2>2, <1>f, TreeTypes
<1>4. ASSUME NEW b \in S, IsBottom(b)
      PROVE  b = n
  <2>1. Height[b] <= Height[n] /\ Height[n] <= Height[b] /\ b \in Blocks /\ n \in Blocks
    BY <1>2, <1>3, <1>4, TreeTypes
  <2>2. Height[b] = Height[n]
    BY <2>1, TreeTypes
  <2> QED
    BY <2>2, <1>2, SameHeight
<1>5. Lowest(S) = n
  BY <1>2, <1>3, <1>4 DEF Lowest
<1> QED
  BY <1>1, <1>2, <1>5

\* A branch is left in steps: without its tip, or without its lowest block.
LEMMA BranchSteps ==
    ASSUME NEW t \in Blocks, NEW f \in Anc[t], f # t
    PROVE  /\ f \in Anc[Parent[t]]
           /\ (Anc[t] \ Anc[f]) \ {t} = Anc[Parent[t]] \ Anc[f]
           /\ \A n \in NonGenesis :
                Parent[n] = f => (Anc[t] \ Anc[f]) \ {n} = Anc[t] \ Anc[n]
<1>1. /\ t \in NonGenesis
      /\ t \notin Anc[f]
      /\ Anc[t] = Anc[Parent[t]] \cup {t}
      /\ t \notin Anc[Parent[t]]
  BY HighestOfBranch, ChildFacts, Zenon
<1>2. ASSUME NEW n \in NonGenesis, Parent[n] = f
      PROVE  (Anc[t] \ Anc[f]) \ {n} = Anc[t] \ Anc[n]
  <2>1. Anc[n] = Anc[f] \cup {n}
    BY <1>2, ChildFacts, Zenon
  <2> QED
    BY <2>1
<1> QED
  BY <1>1, <1>2

\* The fork point is on both branches.
LEMMA ForkOnBoth ==
    ASSUME NEW t \in Blocks, NEW n \in Blocks
    PROVE  FindFork(t, n) \in Anc[t] \cap Anc[n]
<1>1. Genesis \in Anc[t] \cap Anc[n]
  BY TreeAssumption DEF TreeOrder
<1> QED
  BY <1>1, HighestExists DEF FindFork

\* The fork point of a block of the branch is the block.
LEMMA ForkOfAncestor ==
    ASSUME NEW t \in Blocks, NEW n \in Anc[t]
    PROVE  FindFork(t, n) = n
<1>1. n \in Blocks /\ Anc[t] \cap Anc[n] = Anc[n]
  BY AncestorFacts
<1> QED
  BY <1>1, HighestOfChain DEF FindFork

\* The fork point of a child of the tip is the tip.
LEMMA ForkOfChild ==
    ASSUME NEW n \in NonGenesis
    PROVE  FindFork(Parent[n], n) = Parent[n]
<1>1. Parent[n] \in Blocks /\ Anc[Parent[n]] \cap Anc[n] = Anc[Parent[n]]
  BY ChildFacts
<1> QED
  BY <1>1, HighestOfChain DEF FindFork

\* The fork point stays when the tip moves to a child that is not on the other
\* branch.
LEMMA ForkOfExtended ==
    ASSUME NEW b \in NonGenesis, NEW n \in Blocks, b \notin Anc[n]
    PROVE  FindFork(b, n) = FindFork(Parent[b], n)
<1>1. Anc[b] \cap Anc[n] = Anc[Parent[b]] \cap Anc[n]
  BY ChildFacts
<1> QED
  BY <1>1 DEF FindFork

\* What two branches share is the branch of their fork point.
LEMMA ForkIsMeet ==
    ASSUME NEW t \in Blocks, NEW n \in Blocks
    PROVE  /\ Anc[t] \ Anc[n] = Anc[t] \ Anc[FindFork(t, n)]
           /\ Anc[n] \ Anc[t] = Anc[n] \ Anc[FindFork(t, n)]
<1> DEFINE f == FindFork(t, n)
<1>1. f \in Anc[t] \cap Anc[n] /\ \A g \in Anc[t] \cap Anc[n] : Height[g] <= Height[f]
  BY ForkOnBoth, HighestExists DEF FindFork
<1>2. Anc[f] \subseteq Anc[t] \cap Anc[n]
  BY <1>1, AncestorFacts
<1>3. Anc[t] \cap Anc[n] \subseteq Anc[f]
  BY <1>1, TreeAssumption DEF TreeOrder
<1> QED
  BY <1>2, <1>3

=============================================================================
