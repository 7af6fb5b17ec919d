--------------------------- MODULE MCTransactions ---------------------------
(***************************************************************************)
(* Values of the constants of Transactions for TLC.                        *)
(***************************************************************************)
EXTENDS Transactions

Output(type, holds, address) ==
    [type |-> type, holds |-> holds, value |-> holds, asm |-> "", hex |-> "other",
     rangeProof |-> FALSE, addresses |-> IF address = "" THEN <<>> ELSE <<address>>]

Public(holds)  == Output("pubkeyhash", holds, "user")
Empty          == [Output("nonstandard", 0, "") EXCEPT !.hex = ""]
Secret(holds)  == [Output("nonstandard", holds, "") EXCEPT !.value = 0, !.rangeProof = TRUE]
Fee(holds)     == [Output("nulldata", holds, "") EXCEPT !.asm = "OP_RETURN"]
Wrap(holds)    == [Output("nonstandard", holds, "") EXCEPT !.asm = "MULTISIG", !.hex = "WRAPPED"]
Donate(holds)  == [Output("cfund_contribution", holds, "") EXCEPT !.asm = "OP_RETURN OP_CFUND"]

Coinbase   == [coinbase |-> TRUE]
In(t, n)   == [coinbase |-> FALSE, txid |-> t, vout |-> n]
Txn(vin, vout) == [version |-> 1, vin |-> vin, vout |-> vout]
NewBlock   == Txn(<<Coinbase>>, <<Empty>>)
Mint(t, n, holds, staker) == Txn(<<In(t, n)>>, <<Empty, Output("pubkey", holds, staker)>>)

\* g is the first coinbase, c and s are the coinbases and coinstakes after it.
SomeTxs ==
    [g  |-> Txn(<<Coinbase>>, <<Output("pubkey", 10, "ann"), Public(8), Public(8), Public(5)>>),
     c2 |-> NewBlock, s2 |-> Mint("g", 1, 12, "ann"),
     c3 |-> NewBlock, s3 |-> Mint("s2", 2, 14, "bob"),
     c4 |-> NewBlock, s4 |-> Mint("s3", 2, 17, "bob"),
     \* the block of c5 also pays out from the community fund
     c5 |-> [version |-> 3, vin |-> <<Coinbase>>, vout |-> <<Empty, Public(4)>>],
     s5 |-> [version |-> 1, vin |-> <<In("s4", 2)>>,
             vout |-> <<Empty, Output("cold_staking", 19, "ann"), Donate(1)>>],
     hide   |-> Txn(<<In("g", 2)>>, <<Secret(7), Fee(1)>>),
     reveal |-> Txn(<<In("hide", 1)>>, <<Public(2), Secret(4), Fee(1)>>),
     mix    |-> Txn(<<In("hide", 1)>>, <<Wrap(3), Secret(3), Fee(1)>>),
     rewrap |-> Txn(<<In("mix", 2)>>, <<Wrap(2), Fee(1)>>),
     gift   |-> Txn(<<In("hide", 1)>>, <<Secret(4), Donate(2), Fee(1)>>),
     wrap   |-> Txn(<<In("g", 3), In("g", 4)>>, <<Wrap(7), Public(3), Donate(2)>>),
     unwrap |-> Txn(<<In("wrap", 1)>>, <<Public(5)>>)]

Names == DOMAIN SomeTxs
People == {"ann", "bob", "user"}

SomeBlocks ==
    <<{<<"g">>}, {<<"c2", "s2">>},
      {<<"c3", "s3", "hide">>, <<"c3", "s3", "wrap">>},
      {<<"c4", "s4">> \o r : r \in {<<>>, <<"reveal">>, <<"mix">>, <<"gift">>, <<"wrap", "unwrap">>}},
      {<<"c5", "s5">> \o r : r \in {<<>>, <<"unwrap">>, <<"rewrap">>}}>>

\* A bulk run to a height that is not a multiple of the batch size.
SomeTargets == {3}
BothLags == {FALSE, TRUE}
=============================================================================
