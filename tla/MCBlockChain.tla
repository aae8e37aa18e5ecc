---------------------------- MODULE MCBlockChain ----------------------------
(***************************************************************************)
(* Instances of BlockChain.  All are parts of one tree; the numbers are     *)
(* the cumulative work:                                                    *)
(*                                                                         *)
(*     g 0 --- a1 1 --- a2 2 --- a3 3                                      *)
(*      \ \ \      \--- b2 2 --- b3 3                                      *)
(*       \ \ \--- c1 1 --- c2 2                                            *)
(*        \ \---- h1 3                                                     *)
(*         \----- x1 1                                                     *)
(*                                                                         *)
(* A scene says which blocks arrive, which calls are made, and how many at *)
(* a time.                                                                 *)
(***************************************************************************)
EXTENDS BlockChain

CONSTANT Scenes

VARIABLE scene

Tree == [a1 |-> "g", a2 |-> "a1", a3 |-> "a2", b2 |-> "a1", b3 |-> "b2",
         c1 |-> "g", c2 |-> "c1", h1 |-> "g", x1 |-> "g"]

MCParent == [b \in NonGenesis |-> Tree[b]]

MCAnc[b \in Blocks] == IF b = "g" THEN {b} ELSE MCAnc[Tree[b]] \cup {b}

MCHeight == [b \in Blocks |-> Cardinality(MCAnc[b]) - 1]

MCWork == [b \in Blocks |-> IF b = "h1" THEN 3 ELSE MCHeight[b]]

Scene(blocks, ops, busy) == [blocks |-> {"g"} \cup blocks, ops |-> ops, busy |-> busy]

MCWhole == {Scene(Blocks, Ops, MaxBusy)}

\* Calls of the RPC server between blocks, and one that overlaps with a block
MCCalls == {Scene({"a1", "a2", "b2", "b3", "c1"}, Ops, 1),
            Scene({"a1", "c1", "c2", "x1"}, {"block", "invalidate"}, 2)}

\* The steps of the scene: where calls do not overlap, none is in progress when
\* one returns.
InScene ==
    /\ index' \cup Range(orphans') \subseteq scene.blocks
    /\ {job'[p].call : p \in Procs} \cup {result'.call} \subseteq scene.ops \cup {"none"}
    /\ scene.busy = 1 /\ result'.call # "none" => \A p \in Procs : job'[p] = Idle
    /\ Cardinality({p \in Procs : job'[p] # Idle}) <= scene.busy

MCInit == Init /\ scene \in Scenes

MCNext == Next /\ InScene /\ UNCHANGED scene

MCSpec == MCInit /\ [][MCNext]_<<vars, scene>>

MCFairSpec == MCSpec /\ \A p \in Procs : SF_vars(Step(p))

\* BestChainClean and HeaderLeads, where calls do not overlap: connectBestChain
\* and InvalidateBlock release the lock between two blocks, and what another
\* call does there ends the first one halfway.
CleanAlone == scene.busy = 1 => BestChainClean /\ HeaderLeads
=============================================================================
