---------------------------- MODULE MCWithdrawal ----------------------------
(***************************************************************************)
(* Instances of Withdrawal for TLC: one wallet per chain, withdrawals of   *)
(* 2 units each, and Bitcoin outputs of which one covers a withdrawal and  *)
(* two others cover it together.                                           *)
(***************************************************************************)
EXTENDS Withdrawal, TLC

CONSTANTS
    EvmIds, BtcIds, SolIds,  \* the withdrawals of each chain's wallet
    SameKey                  \* are they requests for the same payment?

MCIds == EvmIds \cup BtcIds \cup SolIds

MCWalletOf == [id \in MCIds |-> IF id \in EvmIds THEN "eth"
                                ELSE IF id \in BtcIds THEN "btc" ELSE "sol"]

MCWallets == {MCWalletOf[id] : id \in MCIds}

MCChainOf == [w \in MCWallets |-> CASE w = "eth" -> "evm"
                                    [] w = "btc" -> "bitcoin"
                                    [] w = "sol" -> "solana"]

MCKeyOf == [id \in MCIds |-> IF SameKey THEN <<MCWalletOf[id]>> ELSE <<id>>]

MCAmountOf == [id \in MCIds |-> 2]

MCOwnerOf == [o \in Outpoints |-> "btc"]

MCValueOf == [o \in Outpoints |-> IF o = "large" THEN 2 ELSE 1]

\* Callers are alike, and so are the withdrawals of one wallet.
Symmetry == Permutations(Callers) \cup Permutations(EvmIds)
                \cup Permutations(BtcIds) \cup Permutations(SolIds)
=============================================================================
