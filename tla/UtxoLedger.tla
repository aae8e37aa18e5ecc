----------------------------- MODULE UtxoLedger -----------------------------
(***************************************************************************)
(* The unspent output set that each block of the tree commits to.          *)
(*                                                                         *)
(* An outpoint is mapped to the height of the block that created it (the   *)
(* blockHeight of its UtxoEntry, the part of an entry that can differ      *)
(* between branches) or to Absent.                                         *)
(***************************************************************************)
EXTENDS BlockTree

CONSTANTS
    Outpoints,  \* transaction outputs
    Spends,     \* [Blocks -> SUBSET Outpoints], inputs from earlier blocks
    Creates,    \* [Blocks -> SUBSET Outpoints], outputs that survive the block
    Transient,  \* [Blocks -> SUBSET Outpoints], created and spent inside it
    UtxoAt      \* [Blocks -> [Outpoints -> Int]], the set each block commits to

Absent == -1

EmptyUtxos == [o \in Outpoints |-> Absent]

\* The set after block b, given the set u before it.
ApplyBlock(u, b) ==
    [o \in Outpoints |-> IF o \in Creates[b] THEN Height[b]
                         ELSE IF o \in Spends[b] THEN Absent
                         ELSE u[o]]

\* The sets are the ones the blocks define.  The blocks are consensus valid:
\* an input is unspent when it is spent, and an output is new (BIP0030, BIP0034).
LedgerShape ==
    /\ Spends \in [Blocks -> SUBSET Outpoints]
    /\ Creates \in [Blocks -> SUBSET Outpoints]
    /\ Transient \in [Blocks -> SUBSET Outpoints]
    /\ UtxoAt \in [Blocks -> [Outpoints -> Int]]
    /\ UtxoAt[Genesis] = EmptyUtxos
    /\ \A b \in NonGenesis : UtxoAt[b] = ApplyBlock(UtxoAt[Parent[b]], b)
    /\ \A b \in NonGenesis :
          /\ Creates[b] \cap Spends[b] = {}
          /\ Transient[b] \cap (Spends[b] \cup Creates[b]) = {}
          /\ \A o \in Spends[b] : UtxoAt[Parent[b]][o] # Absent
          /\ \A a \in Anc[Parent[b]] :
                \A o \in Creates[b] \cup Transient[b] : UtxoAt[a][o] = Absent

ASSUME LedgerAssumption == LedgerShape
=============================================================================
