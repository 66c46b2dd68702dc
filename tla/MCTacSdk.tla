-------------------------------- MODULE MCTacSdk --------------------------------
\* Two callers.  Lists of objects: up to four assets, with repeated jettons and
\* NFTs, and the fee options that lie below, at and above what a simulation
\* suggests.  Lists to resolve: a jetton j and its copycat f, an ERC20 e (and
\* native asset), an NFT n issued on TON and m on TAC, by both addresses.
EXTENDS TacSdk

Tons(n) == [kind |-> "ton", id |-> "ton", origin |-> "TON", amount |-> n]
Ft(id, n) == [kind |-> "ft", id |-> id, origin |-> IF id = "k" THEN "TAC" ELSE "TON", amount |-> n]
Nft(id) == [kind |-> "nft", id |-> id, origin |-> IF id = "m" THEN "TAC" ELSE "TON", amount |-> 1]

MCCarts == { <<>>, <<Tons(2)>>, <<Ft("j", 2), Tons(1), Ft("k", 1), Ft("j", 1)>>,
             <<Nft("n"), Ft("j", 1), Nft("m"), Nft("n")>>, <<Ft("k", 0)>> }

Options(without, protocol, evm, tvm, roundTrip, checkFees, allowError, checkAssets) ==
    [withoutSimulation |-> without, protocolFee |-> protocol, evmExecutorFee |-> evm,
     tvmExecutorFee |-> tvm, isRoundTrip |-> roundTrip, shouldValidateFees |-> checkFees,
     allowSimulationError |-> allowError, validateAssetsBalance |-> checkAssets]

U == Undefined

MCPlainOptions == Options(FALSE, U, U, U, U, TRUE, FALSE, TRUE)

MCOptions == { MCPlainOptions,
               Options(FALSE, 4, 2, 3, U, TRUE, TRUE, TRUE),
               Options(FALSE, 3, U, U, 0, TRUE, FALSE, FALSE),
               Options(FALSE, U, 1, U, U, FALSE, FALSE, TRUE),
               Options(FALSE, U, U, 1, 1, TRUE, FALSE, TRUE),
               Options(TRUE, 1, 1, U, 1, TRUE, FALSE, TRUE),
               Options(TRUE, 1, 1, U, U, TRUE, FALSE, TRUE) }

Simulation(status, gas, protocol, evm, tvm, outMessages) ==
    [status |-> status, gas |-> gas, protocolFee |-> protocol, evmExecutorFee |-> evm,
     tvmExecutorFee |-> tvm, outMessages |-> outMessages]

MCSimulations == { Simulation(TRUE, 5, 3, 2, 2, FALSE), Simulation(TRUE, 6, 3, 2, 3, TRUE),
                   Simulation(FALSE, 0, 3, 2, 2, FALSE) }

\* Everything but TON and j is owned once.
Balance(ton, j) == [id \in {"ton", "j", "k", "n", "e", "f", "m", Nowhere} |->
                       CASE id = "ton" -> ton [] id = "j" -> j [] id = Nowhere -> 0 [] OTHER -> 1]

MCBalances == {Balance(120, 6), Balance(800, 6), Balance(800, 3)}

-------------------------------------------------------------------------------
(* Prices and usages that make every part of a fee show, and round. *)

MCPrices == [p \in PriceNames |-> CASE p = "lumpPrice" -> 2 [] p = "gasPrice" -> 3
                                    [] p = "firstFrac" -> 3 [] p = "ihrPriceFactor" -> 5 [] OTHER -> 1]

Contract(gas) == [accountBits |-> 2, accountCells |-> 1, gas |-> gas]

MCUsage ==
    [crossChainLayer |-> Contract([tvmMsgToEvm |-> 3]),
     jettonWallet |-> Contract([internalTransfer |-> 1, receive |-> 2, burn |-> 5,
                                estimatedSendTransfer |-> 6, estimatedReceiveTransfer |-> 7]),
     jettonProxy |-> Contract([ownershipAssigned |-> 1, errorNotification |-> 2]),
     jettonMinter |-> Contract([burnNotification |-> 3, mintAfterError |-> 1]),
     nftItem |-> Contract([send |-> 2, burn |-> 3, errorNotification |-> 1]),
     nftProxy |-> Contract([ownershipAssigned |-> 2, errorNotification |-> 3])]

MCPayloadSize == [p \in Ops \X BOOLEAN |-> [bits |-> IF p[2] THEN 5 ELSE 3, cells |-> 1]]

\* A settings contract on TON with everything, with some of each kind, and an
\* empty one.
MCTonContents == {TonSettings, {"CrossChainLayerAddress", "JettonWalletCode", "ContractFeeUsageParams"}, {}}

-------------------------------------------------------------------------------
(* What callers name *)

MCContracts == {"j", "f", "e", "c", "n", "g", "m"}
MCKindOf == [x \in MCContracts |-> CASE x \in {"c", "g"} -> "collection"
                                     [] x \in {"n", "m"} -> "item" [] OTHER -> "ft"]
MCNativeOn == [x \in MCContracts |-> IF x \in {"e", "g", "m"} THEN "TAC" ELSE "TON"]
MCCollectionOf == [x \in {"n", "m"} |-> IF x = "n" THEN "c" ELSE "g"]
MCIndexOf == [x \in {"n", "m"} |-> 1]

Raw(chain, x, n) == Input(Address(chain, x), n, FALSE, 0, FALSE)
Item(chain, x) == Input(Address(chain, x), 0, FALSE, 1, FALSE)

MCPlainBalances == {Balance(800, 6)}

Display(chain, x, n) == Input(Address(chain, x), n, TRUE, 0, FALSE)

TonTwice == <<Raw("TON", Ton, 2), Raw("TAC", Ton, 1)>>
JettonTwice == <<Raw("TON", "j", 1), Raw("TAC", "j", 2)>>
JettonAndCopy == <<Display("TON", "j", 3), Raw("TON", "f", 1)>>
Erc20Twice == <<Raw("TAC", "e", 1), Raw("TON", "e", 2)>>
NftByBoth == <<Item("TON", "c"), Raw("TON", "n", 0)>>
TacNft == <<Raw("TON", "m", 0), Item("TAC", "g")>>
TacNftEarly == <<Item("TON", "g"), Raw("TON", "e", 1)>>
ItemOfToken == <<Item("TAC", "e")>>
NoSuchItem == <<Item("TON", "e"), Input(Address("TAC", "g"), 0, FALSE, 2, FALSE)>>
RoundedToNothing == <<Display("TON", "j", 1)>>

\* Nothing to resolve, batches of one and two, and what is bridged beside
\* another resolution.
MCRequests ==
    { << <<>>, <<>> >> }
    \union { <<a, b>> : a \in {TonTwice, JettonTwice, Erc20Twice, NftByBoth}, b \in {<<>>} }
    \union { <<JettonTwice, JettonAndCopy>>, <<Erc20Twice, <<Raw("TON", "e", 1)>>>>,
             <<TacNft, TacNftEarly>>, <<JettonAndCopy, <<Raw("TON", "j", 0)>>>>,
             <<<<Item("TON", "j")>>, <<Item("TAC", Ton)>>>>, <<RoundedToNothing, <<Item("TON", Ton)>>>>,
             <<RoundedToNothing, <<>>>>, <<TacNftEarly, <<>>>>, <<TonTwice, <<Raw("TAC", Ton, 1)>>>>, <<<<Item("TON", "c")>>, NftByBoth>>,
             <<NoSuchItem, <<Raw("TON", "e", 1)>>>>, <<ItemOfToken, <<Raw("TON", "e", 1)>>>> }
    \union { <<Append(a, NativeInput(5)), b>> :
                 a \in {<<>>, <<Raw("TON", "e", 1)>>, <<Item("TAC", "g"), Raw("TAC", "j", 1)>>},
                 b \in {<<>>, <<Raw("TAC", "e", 1)>>} }
================================================================================
