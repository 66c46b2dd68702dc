SPECIFICATION SdkSpec
CONSTANTS
    Txs = {1, 2}
    Carts <- MCCarts
    Msgs = {"m1", "m2"}
    OptionSets <- MCOptions
    GivenGasLimit = 7
    Simulations <- MCSimulations
    Balances <- MCBalances
    PayloadSize <- MCPayloadSize
    Prices <- MCPrices
    Usage <- MCUsage
    FixedPoint = 4
    Year = 3
    ForwardAmount = 5
    TonProtocolFee = 1
    Callers = {1, 2}
    Requests <- MCRequests
    Contracts <- MCContracts
    KindOf <- MCKindOf
    NativeOn <- MCNativeOn
    Copies = {"f"}
    CollectionOf <- MCCollectionOf
    IndexOf <- MCIndexOf
    Multiplier = 3
    Bridger = 1
    NativeTac = "e"
    Values = {0, 5}
    ExecutorFees = {1}
    ProtocolFee = 1
    Networks = {"testnet", "dev", "other"}
    TonContents <- MCTonContents
    MaxUpdates = 1
    PlainOptions <- MCPlainOptions
    PlainBalances <- MCPlainBalances
INVARIANTS
    SdkInv
    ValueConserved
    PaymentSuffices
    ResolvedAsAsked
    SentAsNamed
    BridgedAsGiven
    ConfigurationSound
CHECK_DEADLOCK FALSE
