------------------------------ MODULE UtxoSet ------------------------------
(***************************************************************************)
(* What the UTXO state of a full node promises to the code that asks it    *)
(* (FetchUtxoEntry, FetchUtxoView, checkConnectBlock): while the node is   *)
(* serving, an answer is the unspent output set of the best block, and the *)
(* best block moves by one block at a time.  A crash goes back to a best   *)
(* block that was saved earlier, and the node serves again only with the   *)
(* set of that block.  UtxoCache implements this.                          *)
(***************************************************************************)
EXTENDS UtxoLedger

VARIABLES
    best,       \* the best block
    saved,      \* the best block a crash goes back to
    serving,    \* whether lookups are answered
    utxo        \* the answer to a lookup of each outpoint

setVars == <<best, saved, serving, utxo>>

SetInit ==
    /\ best = Genesis
    /\ saved = Genesis
    /\ serving = TRUE
    /\ utxo = EmptyUtxos

ExtendBest(b) ==
    /\ serving
    /\ Parent[b] = best
    /\ best' = b
    /\ utxo' = ApplyBlock(utxo, b)
    /\ UNCHANGED <<saved, serving>>

RetractBest ==
    /\ serving
    /\ best # Genesis
    /\ best' = Parent[best]
    /\ utxo' = UtxoAt[Parent[best]]
    /\ UNCHANGED <<saved, serving>>

SaveBest ==
    /\ saved' = best
    /\ UNCHANGED <<best, serving, utxo>>

LoseMemory ==
    /\ best' = saved
    /\ serving' = FALSE
    /\ utxo' = EmptyUtxos
    /\ UNCHANGED saved

Resume ==
    /\ ~serving
    /\ serving' = TRUE
    /\ utxo' = UtxoAt[best]
    /\ UNCHANGED <<best, saved>>

SetNext ==
    \/ \E b \in NonGenesis : ExtendBest(b)
    \/ RetractBest
    \/ SaveBest
    \/ LoseMemory
    \/ Resume

SetSpec == SetInit /\ [][SetNext]_setVars
=============================================================================
