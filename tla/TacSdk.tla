---------------------------------- MODULE TacSdk ----------------------------------
(***************************************************************************)
(* The facade.  sendCrossChainTransactions resolves the assets of all its  *)
(* transactions concurrently and hands the batch to TONTransactionManager  *)
(* (CrossChainPrepare) when all of them are there; a transaction of its    *)
(* own is a batch of one.  bridgeTokensToTON resolves one list and hands   *)
(* it to TACTransactionManager (TacBridge), while another caller resolves  *)
(* assets for a question of its own.  Assets that are already objects are  *)
(* taken as they are, by prepareCrossChainTransactionPayload too.  All of  *)
(* them share one AssetFactory and its cache.  Before that, the facade is  *)
(* created (Configuration), which is a call like the others here.          *)
(***************************************************************************)
EXTENDS CrossChainPrepare, TacBridge, Configuration

CONSTANTS
    PlainOptions,   \* the options of a transaction whose assets are resolved
    PlainBalances   \* and the possible balances of its sender

\* Addresses are strings.  Nobody owns anything at one where no contract will be, and
\* the assets of a sender are checked unless he asks for them not to be.
ASSUME SdkAssumption ==
    /\ Callers = Txs /\ "testnet" \in Networks /\ TonSettings \in TonContents
    /\ Contracts \union {Ton, Nowhere} \subseteq STRING
    /\ PlainOptions \in TransactionOptions /\ PlainOptions.validateAssetsBalance
    /\ \A b \in PlainBalances : Owning(b) /\ Nowhere \in DOMAIN b /\ b[Nowhere] = 0

VARIABLE entry      \* what is called: "create", "objects" (send with objects), "payload",
                    \* "send" or "bridge"

sdkVars == <<vars, tacVars, configVars, entry>>

NothingNamed == [c \in Callers |-> <<>>]

NoBridging == bridge.value = 0 /\ bridge.fee = 0

\* A batch whose assets are objects is prepared from any inputs.
GivenObjects ==
    /\ entry = "objects" /\ outcome = "validate"
    /\ named = NothingNamed /\ NoBridging
    /\ PrepareInputs

\* So are the messages of one transaction; the others play no part.
GivenForPayload ==
    /\ entry = "payload" /\ outcome = "payload"
    /\ named = NothingNamed /\ NoBridging
    /\ PrepareInputs
    /\ \A t, u \in Txs : request[t] = request[u]

\* Otherwise the lists are empty until the assets are resolved.
ToBeResolved ==
    /\ entry \in {"send", "bridge"} /\ outcome = "normalize"
    /\ request \in [Txs -> [cart : {<<>>}, msg : {CHOOSE m \in Msgs : TRUE}, options : {PlainOptions}]]
    /\ gasLimit = [m \in Msgs |-> 0]
    /\ balance \in PlainBalances
    /\ IF entry = "send" THEN NoBridging ELSE NoItemsOfTokens

\* Nothing else is called before the facade is there.
ToBeCreated ==
    /\ entry = "create" /\ outcome = "rejected"
    /\ request = [t \in Txs |-> None] /\ gasLimit = [m \in Msgs |-> 0] /\ balance \in PlainBalances
    /\ named = NothingNamed /\ NoBridging

SdkInit ==
    /\ FactoryInit /\ BridgeInit /\ PrepareStart
    /\ GivenObjects \/ GivenForPayload \/ ToBeResolved \/ ToBeCreated
    /\ entry # "create" =>
           /\ given = [network |-> "testnet", options |-> {}, malformed |-> FALSE]
           /\ onTon = TonSettings
    /\ ConfigInit

\* The list that TONTransactionManager gets for what a caller named.
CartOf(c) ==
    [k \in 1..Len(done[c]) |->
        LET o == objects[done[c][k]] IN
        [kind |-> o.kind, id |-> o.contract, origin |-> o.origin, amount |-> o.amount]]

\* The first list that cannot be resolved rejects the Promise.all of the batch.
NormalizeBatch ==
    /\ entry = "send" /\ outcome = "normalize"
    /\ \/ /\ \A c \in Callers : call[c].phase = "resolved"
          /\ request' = [t \in Txs |-> [request[t] EXCEPT !.cart = CartOf(t)]]
          /\ outcome' = "validate"
       \/ /\ \E c \in Callers : call[c].phase = "rejected"
          /\ outcome' = "rejected"
          /\ UNCHANGED request
    /\ UNCHANGED <<balance, gasLimit, pc, products, tacVars, configVars, entry>>

\* Nothing reads what the factory does once a batch is handed over or rejected.
Resolve ==
    /\ entry \in {"send", "bridge"} /\ outcome = "normalize"
    /\ FactoryNext
    /\ UNCHANGED <<vars, bridgeVars, configVars, entry>>

Prepare == Next /\ UNCHANGED <<tacVars, configVars, entry>>

BridgeToTon == entry = "bridge" /\ BridgeStep /\ UNCHANGED <<vars, configVars, entry>>

CreateSdk == entry = "create" /\ ConfigNext /\ UNCHANGED <<vars, tacVars, entry>>

SdkNext == CreateSdk \/ NormalizeBatch \/ Resolve \/ Prepare \/ BridgeToTon

SdkSpec == SdkInit /\ [][SdkNext]_sdkVars

-------------------------------------------------------------------------------
(* Properties *)

SdkInv ==
    /\ PrepareInv /\ FactoryTypeOK /\ BridgeTypeOK /\ ConfigTypeOK
    /\ entry \in {"create", "objects", "payload", "send", "bridge"}

\* The inputs of a caller that stand for a contract, and what they come to.
Naming(c, x) == {k \in 1..Len(named[c]) : Wanted(named[c][k]) = x}

NamedAmount(c, x) ==
    SumFunctionOnSet([k \in Naming(c, x) |-> OnChainAmount(named[c][k], objects[done[c][k]])],
                     Naming(c, x))

NamedKind(x) == IF KindOf[x] = "item" THEN "nft" ELSE "ft"

(***************************************************************************)
(* End to end: a prepared transaction has one message for each token that  *)
(* the caller named, by any of its addresses and as often as he liked; it  *)
(* burns the token exactly if it was issued on TAC, and carries all of the *)
(* amounts that were given for it.                                         *)
(***************************************************************************)
SentAsNamed ==
    (entry = "send" /\ outcome = "ready") =>
        \A t \in Txs : \A x \in FTs \union Items :
            LET ms == {k \in 1..Len(messages[t]) : messages[t][k].asset = x} IN
            /\ Cardinality(ms) = (IF Naming(t, x) = {} THEN 0 ELSE 1)
            /\ \A k \in ms :
                   /\ messages[t][k].op = OpType(NamedKind(x), NativeOn[x])
                   /\ messages[t][k].amount = IF NamedKind(x) = "nft" THEN 1 ELSE NamedAmount(t, x)
===================================================================================
