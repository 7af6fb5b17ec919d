---------------------------- MODULE BlockFactory ----------------------------
(***************************************************************************)
(* How a block and its transactions become documents: the type of a        *)
(* transaction, its wrapped and private outputs, what it stakes, spends    *)
(* and pays, the cycle a block is in and the coins that are public,        *)
(* private and wrapped after it.                                           *)
(*                                                                         *)
(* navcoind's answer for a transaction is a constant.  A script is its     *)
(* type and as much of its text as the code looks at.  The value of an     *)
(* output with a range proof reads 0, whatever the output holds.           *)
(***************************************************************************)
EXTENDS Integers, Sequences, FiniteSetsExt, Functions

CONSTANTS
    Tx,             \* transactions there may be
    Raw,            \* navcoind's answer to GetRawTransaction for each of them
    Address,        \* the addresses
    WordSize,       \* 2^64 in the code: the range of uint64 arithmetic
    CycleSize,      \* the consensus parameter VOTING_CYCLE_LENGTH
    PrivateHeight,  \* height 8111113, where the private supply is first known
    PrivateSupply   \* what it is set to there

VoutTypes == {"nonstandard", "pubkey", "pubkeyhash", "multisig", "nulldata",
              "cfund_contribution", "cold_staking", "cold_staking_v2"}

\* navcoind only knows transactions that spend outputs there are.
RawVin(v) ==
    v.coinbase \in BOOLEAN /\ (v.coinbase \/ (v.txid \in Tx /\ v.vout \in DOMAIN Raw[v.txid].vout))

RawVout(o) ==
    /\ o.holds \in Nat /\ o.value = (IF o.rangeProof THEN 0 ELSE o.holds) /\ o.type \in VoutTypes
    /\ o.asm \in {"", "OP_RETURN", "OP_RETURN OP_CFUND", "MULTISIG"}
    /\ o.hex \in {"", "WRAPPED", "other"}
    /\ o.addresses \in Seq(Address) /\ o.rangeProof \in BOOLEAN

\* A coinbase has no other input.
ASSUME RawAssumption ==
    /\ \A t \in Tx :
          /\ Raw[t].vin \in Seq({Raw[t].vin[i] : i \in DOMAIN Raw[t].vin})
          /\ (\E i \in DOMAIN Raw[t].vin : Raw[t].vin[i].coinbase) => Len(Raw[t].vin) = 1
          /\ Raw[t].vout \in Seq({Raw[t].vout[n] : n \in DOMAIN Raw[t].vout})
          /\ \A i \in DOMAIN Raw[t].vin : RawVin(Raw[t].vin[i])
          /\ \A n \in DOMAIN Raw[t].vout : RawVout(Raw[t].vout[n])
          /\ Raw[t].version \in Nat
    /\ WordSize \in Nat \ {0} /\ CycleSize \in Nat \ {0, 1}
    /\ PrivateHeight \in Nat \ {0} /\ PrivateSupply \in 0 .. WordSize - 1

\* An address or none.
AnyAddress == Address \cup {""}

Plus(a, b)  == (a + b) % WordSize
Minus(a, b) == (a - b) % WordSize

\* The uint64 sum of the values of a function.
Sum(values) == SumFunction(values) % WordSize

-----------------------------------------------------------------------------
(* A transaction, from navcoind's answer alone *)

IsCoinbase(t) == Raw[t].vin # <<>> /\ Raw[t].vin[1].coinbase

\* The inputs of a transaction that spend an output.
Inputs(t) == {i \in DOMAIN Raw[t].vin : ~ Raw[t].vin[i].coinbase}

OutputAtIndexIsOfType(t, n, type) ==
    n \in DOMAIN Raw[t].vout /\ Raw[t].vout[n].type = type

IsAnyStaking(t) ==
    OutputAtIndexIsOfType(t, 1, "nonstandard") /\ Raw[t].vout[1].hex = ""

\* applyType
Type(t) ==
    IF IsCoinbase(t) THEN "coinbase"
    ELSE IF ~ IsAnyStaking(t) THEN "spend"
    ELSE IF \E type \in {"cold_staking", "cold_staking_v2"} : OutputAtIndexIsOfType(t, 2, type)
    THEN "cold_staking" ELSE "staking"

IsMultiSig(o) == o.asm = "MULTISIG"

OutputIsWrapped(o) == IsMultiSig(o) /\ o.hex = "WRAPPED"

\* applyWrappedStatus
Wrapped(t, n) == ~ IsCoinbase(t) /\ OutputIsWrapped(Raw[t].vout[n])

WrapsOutput(t) == \E n \in DOMAIN Raw[t].vout : Wrapped(t, n)

\* applyPrivateStatus leaves coinbases and transactions with a wrapped output as
\* they are.
MayBePrivate(t) == ~ IsCoinbase(t) /\ ~ WrapsOutput(t)

Private(t, n) == MayBePrivate(t) /\ Raw[t].vout[n].rangeProof

IsNulldata(o) == o.asm = "OP_RETURN" /\ o.type = "nulldata"

\* The output that pays the fee of a private transaction.
IsFeeOutput(t, n) ==
    MayBePrivate(t) /\ n = Len(Raw[t].vout) /\ IsNulldata(Raw[t].vout[n])

PaysFee(t) == \E n \in DOMAIN Raw[t].vout : IsFeeOutput(t, n)

HidesOutput(t) == \E n \in DOMAIN Raw[t].vout : Private(t, n) \/ IsFeeOutput(t, n)

Spent(t, i) == <<Raw[t].vin[i].txid, Raw[t].vin[i].vout>>
OutputOf(p) == Raw[p[1]].vout[p[2]]

\* The value and the addresses of an input are those of the output it spends: so
\* navcoind answers (createVin), and so indexPreviousTxData writes.
VinValue(t, i)     == OutputOf(Spent(t, i)).value
VinAddresses(t, i) == OutputOf(Spent(t, i)).addresses
VoutValue(t, n)    == Raw[t].vout[n].value

VinAmount(t)  == Sum([i \in Inputs(t) |-> VinValue(t, i)])
VoutAmount(t) == Sum([n \in DOMAIN Raw[t].vout |-> VoutValue(t, n)])
SpendableAmount(t) ==
    LET spendable == {n \in DOMAIN Raw[t].vout : Raw[t].vout[n].type # "cfund_contribution"}
    IN  Sum([n \in spendable |-> VoutValue(t, n)])

\* The first fee output, wherever it stands.
PrivateFees(t) ==
    LET fees == {n \in DOMAIN Raw[t].vout : IsNulldata(Raw[t].vout[n])}
    IN  IF fees = {} THEN 0 ELSE VoutValue(t, Min(fees))

-----------------------------------------------------------------------------
(* What a transaction adds to its block *)

\* Mutant of CreateBlockCycle: the last block of a cycle is taken for the first
\* of the next.
CreateBlockCycleEarly(size, previous) ==
    IF previous.height = 0 THEN [size |-> size, cycle |-> 1, index |-> 1]
    ELSE IF previous.cycle.index # previous.cycle.size - 2
    THEN [size |-> size, cycle |-> previous.cycle.cycle, index |-> previous.cycle.index + 1]
    ELSE [size |-> size, cycle |-> previous.cycle.cycle + 1,
          index |-> (previous.height + 1) % size]

\* createBlockCycle; the block before the first has height 0.
CreateBlockCycle(size, previous) ==
    IF previous.height = 0 THEN [size |-> size, cycle |-> 1, index |-> 1]
    ELSE IF previous.cycle.index # previous.cycle.size - 1
    THEN [size |-> size, cycle |-> previous.cycle.cycle, index |-> previous.cycle.index + 1]
    ELSE [size |-> size, cycle |-> previous.cycle.cycle + 1,
          index |-> (previous.height + 1) % size]

NoSupply == [public |-> 0, private |-> 0, wrapped |-> 0]

\* There is no block before the first.
NoBlock == [height |-> 0, txs |-> <<>>, stake |-> 0, stakedBy |-> "", spend |-> 0,
            fees |-> 0, cfundPayout |-> 0, supply |-> NoSupply,
            cycle |-> [size |-> 0, cycle |-> 0, index |-> 0]]

\* CreateBlock: the supply is at first that of the block before.
CreateBlock(txs, previous) ==
    [NoBlock EXCEPT !.height = previous.height + 1, !.txs = txs,
                    !.supply = previous.supply,
                    !.cycle = CreateBlockCycle(CycleSize, previous)]

FirstAddress(sequence) ==
    LET with == {i \in DOMAIN sequence : sequence[i] # <<>>}
    IN  IF with = {} THEN "" ELSE sequence[Min(with)][1]

\* applyStaking
StakedBy(t, block) ==
    LET from == FirstAddress([i \in DOMAIN Raw[t].vin |->
                    IF i \in Inputs(t) THEN VinAddresses(t, i) ELSE <<>>])
        to == FirstAddress([n \in DOMAIN Raw[t].vout |-> Raw[t].vout[n].addresses])
    IN  IF Type(t) # "cold_staking" /\ from # "" THEN from
        ELSE IF Type(t) = "cold_staking" \/ to # "" THEN to
        ELSE block.stakedBy

PubkeyOutputs(t) == {n \in DOMAIN Raw[t].vout : Raw[t].vout[n].type = "pubkey"}

Stake(t, block) ==
    CASE IsAnyStaking(t) -> Minus(SpendableAmount(t), VinAmount(t))
      [] ~ IsAnyStaking(t) /\ PubkeyOutputs(t) # {} -> VoutValue(t, Max(PubkeyOutputs(t)))
      [] ~ IsAnyStaking(t) /\ PubkeyOutputs(t) = {} -> block.stake

ApplyStaking(t, block) ==
    IF Type(t) = "spend" THEN block
    ELSE [block EXCEPT !.stake = Stake(t, block), !.stakedBy = StakedBy(t, block)]

ApplySpend(t, block) ==
    IF Type(t) # "spend" THEN block
    ELSE [block EXCEPT !.spend = Plus(@, VinAmount(t))]

CFundPayout(t) ==
    LET paid == {n \in DOMAIN Raw[t].vout : Raw[t].vout[n].type = "pubkeyhash"}
    IN  IF IsCoinbase(t) /\ Raw[t].version = 3
        THEN Sum([n \in paid |-> VoutValue(t, n)])
        ELSE 0

ApplyCFundPayout(t, block) == [block EXCEPT !.cfundPayout = Plus(@, CFundPayout(t))]

\* Mutant of Fees: private transactions are not told apart.
FeesOfPublic(t) ==
    IF Type(t) = "spend" THEN Minus(VinAmount(t), VoutAmount(t)) ELSE 0

Fees(t) ==
    CASE Type(t) # "spend"                     -> 0
      [] Type(t) = "spend" /\ HidesOutput(t)   -> PrivateFees(t)
      [] Type(t) = "spend" /\ ~ HidesOutput(t) -> Minus(VinAmount(t), VoutAmount(t))

ApplyFees(t, block) == [block EXCEPT !.fees = Plus(@, Fees(t))]

CreateBlockTransaction(t, block) ==
    ApplyFees(t, ApplyCFundPayout(t, ApplySpend(t, ApplyStaking(t, block))))

-----------------------------------------------------------------------------
(* The coins after a block *)

PrevPrivate(t, i) == Private(Spent(t, i)[1], Spent(t, i)[2])
PrevWrapped(t, i) == Wrapped(Spent(t, i)[1], Spent(t, i)[2])

\* Once indexPreviousTxData has seen what a transaction spends.
IsPrivate(t) == HidesOutput(t) \/ \E i \in Inputs(t) : PrevPrivate(t, i)
IsWrapped(t) == WrapsOutput(t) \/ \E i \in Inputs(t) : PrevWrapped(t, i)

IsPrivateFee(o) == o.type = "nulldata" \/ o.asm = "OP_RETURN"

\* The outputs updateSupply counts.
Counted(t) == {n \in DOMAIN Raw[t].vout : Raw[t].vout[n].asm # "OP_RETURN OP_CFUND"}

PublicOutputs(t) == {n \in Counted(t) : ~ Private(t, n) /\ ~ Wrapped(t, n)}

\* Mutant of FeeOutputs: the fee of a private transaction stays in the supply.
NoFeeOutputs(t) == {}

FeeOutputs(t) ==
    {n \in Counted(t) : IsPrivate(t) /\ IsPrivateFee(Raw[t].vout[n])}

\* What a transaction adds to each supply; it may be negative.
PublicChange(t) ==
    LET public == {i \in Inputs(t) : ~ PrevPrivate(t, i) /\ ~ PrevWrapped(t, i)}
    IN  SumFunction([n \in PublicOutputs(t) |-> VoutValue(t, n)])
            - SumFunction([n \in FeeOutputs(t) |-> VoutValue(t, n)])
            - SumFunction([i \in public |-> VinValue(t, i)])

\* Mutant of PrivateChange: decided before what it spends is known.
PrivateChangeEarly(t) ==
    IF HidesOutput(t)
    THEN SumFunction([i \in Inputs(t) |-> VinValue(t, i)])
            - SumFunction([n \in Counted(t) |-> VoutValue(t, n)])
    ELSE 0

PrivateChange(t) ==
    IF IsPrivate(t)
    THEN SumFunction([i \in Inputs(t) |-> VinValue(t, i)])
            - SumFunction([n \in Counted(t) |-> VoutValue(t, n)])
    ELSE 0

WrappedChange(t) ==
    SumFunction([n \in {n \in Counted(t) : Wrapped(t, n)} |-> VoutValue(t, n)])
        - SumFunction([i \in {i \in Inputs(t) : PrevWrapped(t, i)} |-> VinValue(t, i)])

\* updateSupply: everything in the first block is public, and there is no private
\* supply before PrivateHeight.
SupplyAfter(block) ==
    LET Total(Change(_)) == SumFunction([j \in DOMAIN block.txs |-> Change(block.txs[j])])
        was == block.supply
        public == IF block.height = 1 THEN Total(VoutAmount) ELSE Total(PublicChange)
        private == IF block.height = 1 THEN 0 ELSE Total(PrivateChange)
        wrapped == IF block.height = 1 THEN 0 ELSE Total(WrappedChange)
    IN  [public  |-> Plus(was.public, public),
         private |-> IF block.height < PrivateHeight THEN 0
                     ELSE IF block.height = PrivateHeight THEN PrivateSupply
                     ELSE Plus(was.private, private),
         wrapped |-> Plus(was.wrapped, wrapped)]

UpdateSupply(block) == [block EXCEPT !.supply = SupplyAfter(block)]
=============================================================================
