---------------------------- MODULE CrossChainPrepare ----------------------------
(***************************************************************************)
(* TONTransactionManager up to the point of sending: the batch's assets    *)
(* are validated together (prepareBatchTransactions), then each of its     *)
(* transactions is prepared concurrently under a Promise.all -             *)
(* aggregateTokens, buildFeeParams with its simulation,                    *)
(* generateCrossChainMessages - and TON.checkBalance compares the total    *)
(* with the sender's balance.  A single transaction is a batch of one.     *)
(* Transactions may be given the same evmProxyMsg object.                  *)
(***************************************************************************)
EXTENDS TonFees, Integers, Sequences, FiniteSets, SequencesExt, FiniteSetsExt, Folds, Functions

CONSTANTS
    Txs,            \* positions in the batch
    Carts,          \* possible lists of assets: sequences of [kind, id, origin, amount]
    Msgs,           \* evmProxyMsg objects
    OptionSets,     \* possible options of one transaction
    GivenGasLimit,  \* the gas limit of an object whose caller gave one
    Simulations,    \* possible answers of the simulation
    Balances,       \* possible balances: functions from "ton" and the asset ids to Nat
    PayloadSize,    \* the size of a payload: a function of its operation and of whether it carries the fees
    ForwardAmount,  \* JETTON_ and NFT_TRANSFER_FORWARD_TON_AMOUNT
    TonProtocolFee  \* the part of the protocol fee that a round trip adds

\* An option that is not given; a gas limit that is not set is 0.
Undefined == -1

Assets == [kind : {"ton", "ft", "nft"}, id : STRING, origin : {"TON", "TAC"}, amount : Nat]

TransactionOptions ==
    [withoutSimulation : BOOLEAN, protocolFee : Nat \union {Undefined},
     evmExecutorFee : Nat \union {Undefined}, tvmExecutorFee : Nat \union {Undefined},
     isRoundTrip : {Undefined, 0, 1}, shouldValidateFees : BOOLEAN,
     allowSimulationError : BOOLEAN, validateAssetsBalance : BOOLEAN]

SimulationAnswers ==
    [status : BOOLEAN, gas : Nat, protocolFee : Nat, evmExecutorFee : Nat, tvmExecutorFee : Nat,
     outMessages : BOOLEAN]

\* An address is that of one contract, which was issued on one chain; TON has none.
Coherent(cart) ==
    /\ \A k \in 1..Len(cart) : cart[k].kind = "ton" <=> cart[k].id = "ton"
    /\ \A j, k \in 1..Len(cart) : cart[j].id = cart[k].id =>
           cart[j].kind = cart[k].kind /\ cart[j].origin = cart[k].origin

Owning(b) == "ton" \in DOMAIN b /\ \A id \in DOMAIN b : b[id] \in Nat

ASSUME PrepareAssumption ==
    /\ IsFiniteSet(Txs) /\ Msgs # {}
    /\ Carts \subseteq Seq(Assets) /\ \A cart \in Carts : Coherent(cart)
    /\ OptionSets \subseteq TransactionOptions
    /\ Simulations \subseteq SimulationAnswers
    /\ \A b \in Balances : Owning(b)
    /\ PayloadSize \in [Ops \X BOOLEAN -> [bits : Nat, cells : Nat]]
    /\ GivenGasLimit \in Nat \ {0} /\ ForwardAmount \in Nat /\ TonProtocolFee \in Nat

VARIABLES
    request,    \* request[t]: [cart, msg, options]
    gasLimit,   \* gasLimit[m]: the gas limit in evmProxyMsg object m
    balance,    \* what the sender owns
    pc,         \* pc[t]: "waiting", "start", "simulate", "prepared" or "failed"
    simulation, \* simulation[t]: what the simulation of t answered
    feeParams, messages, shardCount,
    outcome     \* of the batch: "normalize" (its assets are being resolved, see TacSdk),
                \* "validate", "prepare", "ready" or "rejected"; or "payload", when only
                \* the messages of one transaction are asked for

inputs == <<request, balance>>
products == <<simulation, feeParams, messages, shardCount>>
vars == <<inputs, gasLimit, pc, products, outcome>>

None == [none |-> TRUE]

PrepareInputs ==
    /\ request \in [Txs -> [cart : Carts, msg : Msgs, options : OptionSets]]
    /\ gasLimit \in [Msgs -> {0, GivenGasLimit}]
    /\ balance \in Balances

PrepareStart ==
    /\ pc = [t \in Txs |-> "waiting"]
    /\ simulation = [t \in Txs |-> None]
    /\ feeParams = [t \in Txs |-> None]
    /\ messages = [t \in Txs |-> <<>>]
    /\ shardCount = [t \in Txs |-> 0]

Init == PrepareInputs /\ PrepareStart /\ outcome \in {"validate", "payload"}

-------------------------------------------------------------------------------
(* aggregateTokens *)

HasZeroAmount(cart) == \E k \in 1..Len(cart) : cart[k].kind # "nft" /\ cart[k].amount = 0

\* The addresses of one kind, in the order of their first appearance.
Addresses(cart, kind) ==
    FoldLeft(LAMBDA ids, a : IF a.kind = kind /\ ~Contains(ids, a.id) THEN Append(ids, a.id)
                                                                     ELSE ids,
             <<>>, cart)

RawAmount(cart, id) ==
    FoldLeft(LAMBDA n, a : IF a.id = id THEN n + a.amount ELSE n, 0, cart)

Jettons(cart) == Addresses(cart, "ft")
Nfts(cart) == Addresses(cart, "nft")

-------------------------------------------------------------------------------
(* prepareBatchTransactions *)

ValidatedTxs == {t \in Txs : request[t].options.validateAssetsBalance}

\* Their assets, as one list.
AllCarts(S) == FlattenSeq([k \in 1..Cardinality(S) |-> request[SetToSeq(S)[k]].cart])

\* Each asset of a list can be transferred: a jetton's or TON's total is
\* covered, an NFT is the sender's.
CanBeTransferred(cart) ==
    \A k \in 1..Len(cart) :
        IF cart[k].kind = "nft" THEN balance[cart[k].id] > 0
                                ELSE balance[cart[k].id] >= RawAmount(cart, cart[k].id)

AssetsValid_OneByOne == \A t \in ValidatedTxs : CanBeTransferred(request[t].cart)  \* mutant
AssetsValid == CanBeTransferred(AllCarts(ValidatedTxs))

ValidateBatch ==
    /\ outcome = "validate"
    /\ IF ~HasZeroAmount(AllCarts(ValidatedTxs)) /\ AssetsValid
       THEN /\ outcome' = "prepare"
            /\ pc' = [t \in Txs |-> "start"]
       ELSE /\ outcome' = "rejected"
            /\ UNCHANGED pc
    /\ UNCHANGED <<inputs, gasLimit, products>>

-------------------------------------------------------------------------------
(* generateCrossChainMessages *)

NetworkFee(op, carriesFees) == EstimateTONFee(op, PayloadSize[<<op, carriesFees>>])

Message(asset, op, amount, ton, forward, carriesFees) ==
    [asset |-> asset, op |-> op, amount |-> amount,
     value |-> ton + NetworkFee(op, carriesFees) + forward, carriesFees |-> carriesFees]

\* An aggregated asset is a clone of the first with its address.
OriginIn(cart, id) == cart[Min({k \in 1..Len(cart) : cart[k].id = id})].origin

FeeTonAmount(fee) == fee.protocolFee + fee.evmExecutorFee + fee.tvmExecutorFee

\* TON and fees travel with the first message.
TonOfMessage_Each(k, ton) == ton                                        \* mutant
TonOfMessage(k, ton) == IF k = 1 THEN ton ELSE 0

MessagesOf(cart, fee) ==
    LET assets == Jettons(cart) \o Nfts(cart)
        ton == RawAmount(cart, "ton") + FeeTonAmount(fee)
        op(k) == OpType(IF k > Len(Jettons(cart)) THEN "nft" ELSE "ft", OriginIn(cart, assets[k]))
    IN  IF assets = <<>>
        THEN <<Message("ton", "TON_TRANSFER", RawAmount(cart, "ton"), ton, 0, TRUE)>>
        ELSE [k \in 1..Len(assets) |->
                 Message(assets[k], op(k),
                         IF k > Len(Jettons(cart)) THEN 1 ELSE RawAmount(cart, assets[k]),
                         TonOfMessage(k, ton), ForwardAmount, k = 1)]

\* prepareCrossChainTransaction counts the tokens for the linker itself.
ShardCount_JettonsOnly(cart) == Max({Len(Jettons(cart)), 1})            \* mutant
ShardCount(cart) == Max({Len(Jettons(cart)) + Len(Nfts(cart)), 1})

-------------------------------------------------------------------------------
(* buildFeeParams *)

Given(x) == x # Undefined
Or(x, default) == IF Given(x) THEN x ELSE default

\* getSimulationInfo: what the caller says of the round trip, or any asset
\* and any message back make one, and so does an answer without outMessages.
IsRoundTrip(t, sim) ==
    LET o == request[t].options.isRoundTrip IN
    IF Given(o) THEN o = 1 ELSE request[t].cart # <<>> \/ sim.outMessages

Suggested(t, sim) ==
    [isRoundTrip |-> IsRoundTrip(t, sim),
     gasLimit |-> IF sim.status THEN sim.gas ELSE 0,
     protocolFee |-> sim.protocolFee + (IF IsRoundTrip(t, sim) THEN TonProtocolFee ELSE 0),
     evmExecutorFee |-> sim.evmExecutorFee,
     tvmExecutorFee |-> IF IsRoundTrip(t, sim) THEN sim.tvmExecutorFee ELSE 0]

TooLow(fee, suggested) == Given(fee) /\ fee < suggested

Insufficient(o, s) ==
    \/ TooLow(o.protocolFee, s.protocolFee)
    \/ TooLow(o.evmExecutorFee, s.evmExecutorFee)
    \/ s.isRoundTrip /\ TooLow(o.tvmExecutorFee, s.tvmExecutorFee)

FeesOf(o, s, gas) ==
    [protocolFee |-> Or(o.protocolFee, s.protocolFee),
     evmExecutorFee |-> Or(o.evmExecutorFee, s.evmExecutorFee),
     tvmExecutorFee |-> IF s.isRoundTrip THEN Or(o.tvmExecutorFee, s.tvmExecutorFee)
                                         ELSE s.tvmExecutorFee,
     gasLimit |-> gas]

\* The first rejection rejects the Promise.all; the others go on unheard.
Fail(t) ==
    /\ pc' = [pc EXCEPT ![t] = "failed"]
    /\ outcome' = "rejected"
    /\ UNCHANGED <<feeParams, messages, shardCount>>

Finish(t, fee) ==
    /\ feeParams' = [feeParams EXCEPT ![t] = fee]
    /\ messages' = [messages EXCEPT ![t] = MessagesOf(request[t].cart, fee)]
    /\ shardCount' = [shardCount EXCEPT ![t] = ShardCount(request[t].cart)]
    /\ pc' = [pc EXCEPT ![t] = "prepared"]
    /\ UNCHANGED outcome

\* The messages are generated, unless the address of one of the sender's jetton
\* wallets cannot be had.
Generate(t, fee) == Finish(t, fee) \/ (Jettons(request[t].cart) # <<>> /\ Fail(t))

\* The first part of prepareCrossChainTransaction, all of it when the caller
\* wants no simulation and gives the fees himself.
StartTx(t) ==
    LET o == request[t].options
        manual == [protocolFee |-> o.protocolFee, evmExecutorFee |-> o.evmExecutorFee,
                   tvmExecutorFee |-> Or(o.tvmExecutorFee, 0),
                   gasLimit |-> gasLimit[request[t].msg]]
        missing == \/ ~Given(o.protocolFee) \/ ~Given(o.evmExecutorFee)
                   \/ (o.isRoundTrip = 1 /\ ~Given(o.tvmExecutorFee))
                   \/ gasLimit[request[t].msg] = 0
    IN  /\ pc[t] = "start"
        /\ IF HasZeroAmount(request[t].cart) \/ (o.withoutSimulation /\ missing)
           THEN Fail(t)
           ELSE IF o.withoutSimulation THEN Generate(t, manual)
           ELSE /\ pc' = [pc EXCEPT ![t] = "simulate"]
                /\ UNCHANGED <<feeParams, messages, shardCount, outcome>>
        /\ UNCHANGED <<inputs, gasLimit, simulation>>

\* prepareCrossChainTransactionPayload: one transaction, for a sender of whom only
\* the address is known.  Nothing is validated against his balance.
PreparePayload(t) ==
    /\ outcome = "payload"
    /\ \A u \in Txs : pc[u] = "waiting"
    /\ pc' = [pc EXCEPT ![t] = "start"]
    /\ UNCHANGED <<inputs, gasLimit, products, outcome>>

\* The simulation answers.  A gas limit that is still missing is written to
\* the evmProxyMsg object, before the fees are looked at.
Simulated(t) ==
    LET o == request[t].options
        m == request[t].msg
    IN  /\ pc[t] = "simulate"
        /\ \E sim \in Simulations :
               LET s == Suggested(t, sim)
                   gas == IF gasLimit[m] = 0 THEN s.gasLimit ELSE gasLimit[m]
               IN  /\ simulation' = [simulation EXCEPT ![t] = sim]
                   /\ IF ~sim.status /\ ~o.allowSimulationError
                      THEN Fail(t) /\ UNCHANGED gasLimit
                      ELSE /\ gasLimit' = [gasLimit EXCEPT ![m] = gas]
                           /\ IF o.shouldValidateFees /\ sim.status /\ Insufficient(o, s)
                              THEN Fail(t)
                              ELSE Generate(t, FeesOf(o, s, gas))
        /\ UNCHANGED inputs

\* An address is invalid, no sequencer answers, or the contract cannot be read.
SimulationFails(t) ==
    /\ pc[t] = "simulate"
    /\ Fail(t)
    /\ UNCHANGED <<inputs, gasLimit, simulation>>

-------------------------------------------------------------------------------
(* TON.checkBalance *)

ValueOf(t) == SumFunction([k \in 1..Len(messages[t]) |-> messages[t][k].value])

TotalValue == SumFunction([t \in Txs |-> ValueOf(t)])

CheckBalance ==
    /\ outcome = "prepare"
    /\ \A t \in Txs : pc[t] = "prepared"
    /\ outcome' = IF balance["ton"] < TotalValue THEN "rejected" ELSE "ready"
    /\ UNCHANGED <<inputs, gasLimit, pc, products>>

Next ==
    \/ ValidateBatch \/ CheckBalance
    \/ \E t \in Txs : PreparePayload(t) \/ StartTx(t) \/ Simulated(t) \/ SimulationFails(t)

Spec == Init /\ [][Next]_vars

-------------------------------------------------------------------------------
(* Properties *)

TypeOK ==
    /\ gasLimit \in [Msgs -> Nat]
    /\ pc \in [Txs -> {"waiting", "start", "simulate", "prepared", "failed"}]
    /\ shardCount \in [Txs -> Nat]
    /\ outcome \in {"normalize", "validate", "payload", "prepare", "ready", "rejected"}
    /\ \A t \in Txs : pc[t] = "prepared" =>
           /\ feeParams[t] \in [protocolFee : Nat, evmExecutorFee : Nat,
                                tvmExecutorFee : Nat, gasLimit : Nat]
           /\ messages[t] # <<>>

NftIds(cart) == {cart[k].id : k \in {j \in 1..Len(cart) : cart[j].kind = "nft"}}
Ids(cart) == {cart[k].id : k \in {j \in 1..Len(cart) : cart[j].kind # "ton"}}

\* What a list asks of one id, summed over the positions of the list.
Demand(cart, id) ==
    SumFunctionOnSet([k \in 1..Len(cart) |-> cart[k].amount], {k \in 1..Len(cart) : cart[k].id = id})

(***************************************************************************)
(* What the caller gives is what the messages carry: each token in one     *)
(* message with its whole amount, TON and the fees in exactly one message, *)
(* and nothing is paid twice however many messages there are.              *)
(***************************************************************************)
ValueConserved ==
    \A t \in Txs : pc[t] = "prepared" =>
        LET cart == request[t].cart
            ms == messages[t]
            tokens == Cardinality(Ids(cart))
        IN  /\ ValueOf(t) = Demand(cart, "ton") + FeeTonAmount(feeParams[t])
                             + SumFunction([k \in 1..Len(ms) |-> NetworkFee(ms[k].op, k = 1)])
                             + tokens * ForwardAmount
            /\ Cardinality({k \in 1..Len(ms) : ms[k].carriesFees}) = 1
            /\ \A id \in Ids(cart) :
                   Cardinality({k \in 1..Len(ms) : ms[k].asset = id}) = 1
            /\ \A k \in 1..Len(ms) :
                   ms[k].amount = IF ms[k].asset \in NftIds(cart) THEN 1
                                  ELSE Demand(cart, ms[k].asset)
            /\ \A k \in 1..Len(ms) : \A j \in 1..Len(cart) :
                   cart[j].id = ms[k].asset => ms[k].op = OpType(cart[j].kind, cart[j].origin)

\* The linker announces as many shards as there are messages: the sequencer
\* puts the operation together when it has seen that many.
ShardsMatchLinker ==
    \A t \in Txs : pc[t] = "prepared" => shardCount[t] = Len(messages[t])

\* The types of a preparation, and the count it announces.
PrepareInv == TypeOK /\ ShardsMatchLinker

\* No transaction pays less than its simulation asks, unless the caller turned
\* the check off or the simulation failed: the executors would not take it up.
FeesCoverSuggestion ==
    \A t \in Txs :
        (/\ pc[t] = "prepared"
         /\ ~request[t].options.withoutSimulation
         /\ request[t].options.shouldValidateFees
         /\ simulation[t].status) =>
            LET s == Suggested(t, simulation[t]) IN
            /\ feeParams[t].protocolFee >= s.protocolFee
            /\ feeParams[t].evmExecutorFee >= s.evmExecutorFee
            /\ feeParams[t].tvmExecutorFee >= s.tvmExecutorFee

Demanded(id) == SumFunction([t \in ValidatedTxs |-> Demand(request[t].cart, id)])

IsNft(id) == \E t \in Txs : id \in NftIds(request[t].cart)

\* A batch that is ready to be sent can be paid for as a whole: its jettons
\* together, and the TON of all its messages.
BatchCovered ==
    outcome = "ready" =>
        /\ \A id \in DOMAIN balance \ {"ton"} : IsNft(id) \/ Demanded(id) <= balance[id]
        /\ TotalValue <= balance["ton"]

\* What is prepared pays enough, and can be paid.
PaymentSuffices == FeesCoverSuggestion /\ BatchCovered
===============================================================================
