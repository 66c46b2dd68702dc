--------------------------------- MODULE TonFees ---------------------------------
(***************************************************************************)
(* What a message costs on TON: Simulator.estimateTONFee over the steps of *)
(* Fees.ts.  Each kind of asset has a pipeline of transactions, and each   *)
(* transaction pays for storage, computation, forwarding and the action,   *)
(* with prices in fixed point.  Gas times its price is not rounded before  *)
(* the sum is.                                                             *)
(***************************************************************************)
EXTENDS Integers, Sequences, Functions

CONSTANTS
    Prices,      \* TONFeesParams
    Usage,       \* ContractFeeUsageParams, one record per contract
    FixedPoint,  \* FIXED_POINT_SHIFT, the factor of a fixed-point price
    Year         \* ONE_YEAR_SECONDS, what storage is paid for ahead

PriceNames == {"accountBitPrice", "accountCellPrice", "lumpPrice", "gasPrice", "firstFrac",
               "ihrPriceFactor", "msgBitPrice", "msgCellPrice"}

UsageOf(gas) == [accountBits : Nat, accountCells : Nat, gas : gas]

ASSUME FeesAssumption ==
    /\ Prices \in [PriceNames -> Nat]
    /\ Usage \in [crossChainLayer : UsageOf([tvmMsgToEvm : Nat]),
                  jettonWallet : UsageOf([internalTransfer : Nat, receive : Nat, burn : Nat,
                                          estimatedSendTransfer : Nat, estimatedReceiveTransfer : Nat]),
                  jettonProxy : UsageOf([ownershipAssigned : Nat, errorNotification : Nat]),
                  jettonMinter : UsageOf([burnNotification : Nat, mintAfterError : Nat]),
                  nftItem : UsageOf([send : Nat, burn : Nat, errorNotification : Nat]),
                  nftProxy : UsageOf([ownershipAssigned : Nat, errorNotification : Nat])]
    /\ FixedPoint \in Nat \ {0} /\ Year \in Nat

CeilDiv(n, d) == (n + d - 1) \div d

-------------------------------------------------------------------------------
(* calculateTONFees *)

StorageFee(step) ==
    CeilDiv((step.bits * Prices["accountBitPrice"] + step.cells * Prices["accountCellPrice"])
                * step.timeDelta, FixedPoint)

MessageFee(size) ==
    Prices["lumpPrice"] + CeilDiv(Prices["msgBitPrice"] * size.bits
                                      + Prices["msgCellPrice"] * size.cells, FixedPoint)

IhrFee(size) == CeilDiv(MessageFee(size) * Prices["ihrPriceFactor"], FixedPoint)

ActionFee(size) == (MessageFee(size) * Prices["firstFrac"]) \div FixedPoint

\* The other fees are whole, so rounding up the sum rounds up this one.
ComputeFee(step) == CeilDiv(step.gas * Prices["gasPrice"], FixedPoint)

StepFee(step, size) ==
    LET sent == IF step.silent THEN [bits |-> 0, cells |-> 0] ELSE size IN
    StorageFee(step) + ComputeFee(step) + ActionFee(sent) + MessageFee(sent) + IhrFee(sent)

-------------------------------------------------------------------------------
(* The steps *)

\* A contract that pays its storage for a year, one that does not store, and
\* one that does neither.
Storing(c, gas) == [bits |-> c.accountBits, cells |-> c.accountCells, gas |-> gas,
                    timeDelta |-> Year, silent |-> FALSE]
Passing(gas) == [bits |-> 0, cells |-> 0, gas |-> gas, timeDelta |-> Year, silent |-> FALSE]
Estimated(gas) == [Passing(gas) EXCEPT !.timeDelta = 0]
Silent(gas) == [Estimated(gas) EXCEPT !.silent = TRUE]

TvmMsgToEvm == Passing(Usage.crossChainLayer.gas.tvmMsgToEvm)
NftItemSend == Storing(Usage.nftItem, Usage.nftItem.gas.send)
WalletReceive == Storing(Usage.jettonWallet, Usage.jettonWallet.gas.receive)

Ops == {"TON_TRANSFER", "JETTON_TRANSFER", "JETTON_BURN", "NFT_TRANSFER", "NFT_BURN"}

\* What an asset does on its way: TON is sent, a token issued on TON is handed
\* to a proxy, one issued on TAC is burnt.
OpType(kind, origin) ==
    CASE kind = "ton"                    -> "TON_TRANSFER"
      [] kind = "ft" /\ origin = "TON"   -> "JETTON_TRANSFER"
      [] kind = "ft" /\ origin = "TAC"   -> "JETTON_BURN"
      [] kind = "nft" /\ origin = "TON"  -> "NFT_TRANSFER"
      [] kind = "nft" /\ origin = "TAC"  -> "NFT_BURN"

Pipeline(op) ==
    CASE op = "TON_TRANSFER" -> <<TvmMsgToEvm>>
      [] op = "JETTON_TRANSFER" ->
             << Storing(Usage.jettonWallet, Usage.jettonWallet.gas.internalTransfer),
                WalletReceive,
                Passing(Usage.jettonProxy.gas.ownershipAssigned),
                TvmMsgToEvm,
                Estimated(Usage.jettonProxy.gas.errorNotification),
                Estimated(Usage.jettonWallet.gas.estimatedSendTransfer),
                Estimated(Usage.jettonWallet.gas.estimatedReceiveTransfer) >>
      [] op = "JETTON_BURN" ->
             << Storing(Usage.jettonWallet, Usage.jettonWallet.gas.burn),
                Storing(Usage.jettonMinter, Usage.jettonMinter.gas.burnNotification),
                TvmMsgToEvm,
                Storing(Usage.jettonMinter, Usage.jettonMinter.gas.mintAfterError),
                WalletReceive >>
      [] op = "NFT_TRANSFER" ->
             << NftItemSend,
                Passing(Usage.nftProxy.gas.ownershipAssigned),
                TvmMsgToEvm,
                Estimated(Usage.nftProxy.gas.errorNotification),
                NftItemSend >>
      [] op = "NFT_BURN" ->
             << Storing(Usage.nftItem, Usage.nftItem.gas.burn),
                TvmMsgToEvm,
                Silent(Usage.nftItem.gas.errorNotification) >>

\* estimateTONFee, from the size of the payload.
EstimateTONFee(op, size) ==
    SumFunction([k \in 1..Len(Pipeline(op)) |-> StepFee(Pipeline(op)[k], size)])
===============================================================================
