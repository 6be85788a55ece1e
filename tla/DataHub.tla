------------------------------ MODULE DataHub -------------------------------
(***************************************************************************)
(* The data hub's snapshot (components/data_core/hub.cpp) and the merge of *)
(* a source's partial update into it.                                      *)
(*                                                                         *)
(* Absent values are ones no source reports: height 0, price "", fee -1,   *)
(* balance -1, a pool or a miner without a name.  Fees are in tenths of    *)
(* sat/vB, the balance in msat.                                            *)
(***************************************************************************)
EXTENDS Integers

NoPool  == [name |-> "", hashrate |-> "", daily |-> "", estimated |-> ""]
NoMiner == [hostname |-> "", hashrate |-> "", best_diff |-> ""]

EmptySnapshot(codes) ==
  [block_height |-> 0, prices |-> [c \in codes |-> ""],
   block_fee |-> -1, block_fee_precise |-> -1,
   pool |-> NoPool, bitaxe |-> NoMiner, nwc_balance |-> -1]

(* Mutant: a lower height replaces the tip. *)
IsValidUpdateRegressing(prev, new) == new # 0

(* A height never regresses. *)
IsValidUpdate(prev, new) == new # 0 /\ (prev = 0 \/ new >= prev)

(* A present field of the partial replaces the snapshot's; a pool's or a   *)
(* miner's sample is taken as a whole.                                     *)
Merge(snap, partial) ==
  LET Newer(old, new, absent) == IF new = absent THEN old ELSE new
  IN  [block_height |-> IF IsValidUpdate(snap.block_height, partial.block_height)
                        THEN partial.block_height ELSE snap.block_height,
       prices |-> [c \in DOMAIN snap.prices |-> Newer(snap.prices[c], partial.prices[c], "")],
       block_fee |-> Newer(snap.block_fee, partial.block_fee, -1),
       block_fee_precise |-> Newer(snap.block_fee_precise, partial.block_fee_precise, -1),
       pool |-> IF partial.pool.name = "" THEN snap.pool ELSE partial.pool,
       bitaxe |-> IF partial.bitaxe.hostname = "" THEN snap.bitaxe ELSE partial.bitaxe,
       nwc_balance |-> Newer(snap.nwc_balance, partial.nwc_balance, -1)]
=============================================================================
