---------------------------- MODULE MCUtxoCache ----------------------------
(***************************************************************************)
(* Instances of UtxoCache, all on parts of one tree:                       *)
(*                                                                         *)
(*     g --- a1 --- a2                 a2 and b3 contain the same          *)
(*             \ \                     transaction, at heights 2 and 3; c2 *)
(*              \ b2 --- b3            contains it and one that spends its *)
(*               c2                    output.                             *)
(*                                                                         *)
(* A scene says which blocks arrive, which goroutines call, whether files  *)
(* are pruned and how often the process may die.  The three differ in what *)
(* they make interleave; one with all of it has too many states.           *)
(***************************************************************************)
EXTENDS UtxoCache

CONSTANT Scenes

VARIABLE scene

MCBlocks == {"g", "a1", "a2", "b2", "b3", "c2"}

MCTree == [a1 |-> "g", a2 |-> "a1", b2 |-> "a1", b3 |-> "b2", c2 |-> "a1"]

MCParent == [b \in MCBlocks \ {"g"} |-> MCTree[b]]

MCAnc[b \in MCBlocks] == IF b = "g" THEN {b} ELSE MCAnc[MCTree[b]] \cup {b}

MCHeight == [b \in MCBlocks |-> Cardinality(MCAnc[b]) - 1]

MCOutpoints == {"coin", "x"}

MCSpends == [b \in MCBlocks |-> CASE b \in {"a2", "b3", "c2"} -> {"coin"}
                                  [] OTHER -> {}]

MCCreates == [b \in MCBlocks |-> CASE b = "a1" -> {"coin"}
                                   [] b \in {"a2", "b3"} -> {"x"}
                                   [] OTHER -> {}]

MCTransient == [b \in MCBlocks |-> IF b = "c2" THEN {"x"} ELSE {}]

MCUtxoAt[b \in MCBlocks] ==
    IF b = "g" THEN [o \in MCOutpoints |-> -1]
    ELSE [o \in MCOutpoints |->
            IF o \in MCCreates[b] THEN MCHeight[b]
            ELSE IF o \in MCSpends[b] THEN -1
            ELSE MCUtxoAt[MCTree[b]][o]]

Scene(blocks, callers, crash, prunes) ==
    [blocks |-> {"g"} \cup blocks, callers |-> callers, crashes |-> crash,
     prunes |-> prunes]

\* One goroutine that may crash; two that interleave; one that may crash while
\* files are pruned.
MCScenes ==
    {Scene({"a1", "a2", "c2"}, 1, 1, FALSE),
     Scene({"a1", "a2", "b2", "b3"}, 2, 0, FALSE),
     Scene({"a1", "a2"}, 1, 1, TRUE)}

\* The steps of the scene.  Once no crash can follow, what is durable does not
\* matter.
InScene ==
    /\ disk'.blocks \subseteq scene.blocks
    /\ scene.callers = 1 => \A p \in Procs \ {NetSync} : job'[p] = Idle
    /\ crashes' <= scene.crashes
    /\ crashes = scene.crashes => durable' = durable

MCInit == Init /\ scene \in Scenes

Pruned == INSTANCE UtxoCache WITH Pruning <- TRUE

MCNext ==
    /\ \/ ~scene.prunes /\ Next
       \/ scene.prunes /\ Pruned!Next
    /\ InScene
    /\ UNCHANGED scene

MCFairSpec == MCInit /\ [][MCNext]_<<vars, scene>> /\ Fairness

\* RecoveryCompletes, where no block that has to be replayed was pruned
RecoveryCompletesUnpruned == (~scene.prunes /\ mode = "recovering") ~> Running
=============================================================================
