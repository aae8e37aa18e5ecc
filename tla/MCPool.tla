------------------------------- MODULE MCPool -------------------------------
(***************************************************************************)
(* The transaction pool with the block template builder, and the fee       *)
(* estimator. A behaviour is one of the pool and the builder over a chain  *)
(* that moves between two branches, or one of the estimators of a node:    *)
(* "machine" says which. The pool keeps its initial values while the       *)
(* estimators run, their variables are 0 while the pool runs.              *)
(***************************************************************************)
EXTENDS BlockTemplate

VARIABLES machine, est, own, chain, mined, note, shadow

FeesVars == <<est, own, chain, mined, note, shadow>>

-----------------------------------------------------------------------------
(* The pool: two branches, six transactions.                               *)

In(prev, kind, n) == [prev |-> prev, seq |-> [kind |-> kind, n |-> n], sigLen |-> 2, sigOps |-> 0,
                      p2shOps |-> 1, witOps |-> 1, push |-> TRUE]
Out(value, class) == [value |-> value, class |-> class, sigOps |-> 1, size |-> 10, keys |-> 0, sigs |-> 0]
Basic == [ins |-> <<>>, outs |-> <<>>, version |-> 2, lockTime |-> 0, base |-> 60, total |-> 60,
          witness |-> FALSE, scripts |-> TRUE, height |-> 0]
Coin(height, outs) == [Basic EXCEPT !.ins = <<In(NullOutpoint, "max", 0)>>, !.outs = outs, !.height = height]
Pay(ins, outs) == [Basic EXCEPT !.ins = ins, !.outs = outs]
MCTx ==
    LET coinbases ==
            (101 :> Coin(1, <<Out(8, "pubkey"), Out(4, "pubkey")>>)) @@ (102 :> Coin(2, <<Out(4, "pubkey")>>)) @@
            (103 :> Coin(3, <<Out(4, "pubkey")>>)) @@ (105 :> Coin(0, <<Out(0, "pubkey")>>)) @@
            (104 :> Coin(2, <<Out(3, "pubkey")>>))
        payments ==
            (11 :> Pay(<<In(<<101, 1>>, "off", 0)>>, <<Out(6, "scripthash")>>)) @@
            (12 :> Pay(<<In(<<101, 1>>, "max", 0)>>, <<Out(5, "pubkey")>>)) @@
            (13 :> Pay(<<In(<<11, 1>>, "max", 0)>>, <<Out(4, "pubkey")>>)) @@
            (14 :> Pay(<<In(<<13, 1>>, "time", 1)>>, <<Out(2, "pubkey")>>)) @@
            (15 :> Pay(<<In(<<101, 2>>, "max", 0)>>, <<Out(4, "pubkey")>>)) @@
            (16 :> Pay(<<In(<<15, 1>>, "last", 0), In(<<11, 1>>, "max", 0)>>, <<Out(4, "pubkey")>>))
    IN  coinbases @@ payments
MCBlocks ==
    LET main == (1 :> [parent |-> 0, txs |-> <<101>>]) @@ (2 :> [parent |-> 1, txs |-> <<102, 11>>])
                @@ (3 :> [parent |-> 2, txs |-> <<103, 13>>])
    IN  main @@ (4 :> [parent |-> 1, txs |-> <<104, 12>>])
Mining(max, min, prio, free) == [maxWeight |-> max, minWeight |-> min, prioritySize |-> prio, minFreeFee |-> free]
Pol == [maxOrphans |-> 2, maxOrphanSize |-> 100, rejectReplacement |-> FALSE, acceptNonStd |-> FALSE, minRelayTxFee |-> 1,
        maxTxVersion |-> 2, disableRelayPriority |-> FALSE, freeTxRelayLimit |-> 60, maxSigOpCost |-> 100, utreexo |-> FALSE, segwit |-> TRUE,
        mining |-> Mining(0, 0, 0, 0), submittable |-> 11 .. 16, tags |-> {0, 1}, maxMoves |-> 2]
MCPolicies ==
    LET Miner(m) == [Pol EXCEPT !.mining = m, !.maxOrphans = 0, !.tags = {0}, !.maxMoves = 1,
                                !.submittable = {11, 13, 15, 16}]
    IN  {Pol, [Pol EXCEPT !.utreexo = TRUE, !.maxOrphans = 1, !.freeTxRelayLimit = 0],
         Miner(Mining(780, 500, 0, 20)), Miner(Mining(900, 0, 500, 0))}

-----------------------------------------------------------------------------
(* The fee estimators of a node, fed by its sync manager.                  *)

Fees == INSTANCE FeeEstimator
    WITH Rates <- <<5, 4, 3>>, Depth <- 2, BinSize <- 2, MaxReplacements
         <- 1, MaxRollback <- 2, MinBlocks <- 1, MaxBlocks <- 4, BlockSize
         <- 2

\* The bins of the fee estimator hold what it observed and no more than they
\* may, and its estimates never rise with the number of blocks one is ready to
\* wait.
EstimatorSound == machine = "fees" => Fees!EstimatorSound

\* Rolling back a block the estimator still remembers gives the bins the
\* entries they had before that block was registered, also when the estimator
\* was saved and restored in between.
RollbackRestores ==
    [][machine = "fees" => Fees!Restoring]_FeesVars

-----------------------------------------------------------------------------
Machines == {"pool", "fees"}

FeesIdle ==
    est = 0 /\ own = 0 /\ chain = 0 /\ mined = 0 /\ note = 0 /\ shadow = 0

MCInit ==
    /\ machine \in Machines
    /\ machine # "pool" => policy = Pol /\ tip = 1
    /\ TInit
    /\ IF machine = "fees" THEN Fees!Init ELSE FeesIdle

PoolStep ==
    /\ machine = "pool" /\ TNext
    /\ UNCHANGED <<machine, FeesVars>>

FeesStep ==
    /\ machine = "fees" /\ Fees!Next
    /\ UNCHANGED <<machine, tvars>>

MCNext ==
    PoolStep \/ FeesStep

all == <<machine, tvars, FeesVars>>

MCSpec == MCInit /\ [][MCNext]_all
=============================================================================
