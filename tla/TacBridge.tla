-------------------------------- MODULE TacBridge --------------------------------
(***************************************************************************)
(* TACTransactionManager.bridgeTokensToTON for the assets that one of the  *)
(* callers of AssetFactory resolved: the executor's fee, one approval      *)
(* transaction per asset, and the message to the cross-chain layer on TAC. *)
(* Every transaction may fail, before or after it took effect.             *)
(***************************************************************************)
EXTENDS AssetFactory, Functions

CONSTANTS
    Bridger,       \* the caller that bridges
    NativeTac,     \* the native asset of TAC
    Values,        \* how much of it may go along
    ExecutorFees,  \* fees a caller may give (0: none), and answers to getTVMExecutorFee
    ProtocolFee    \* CrossChainLayer.getProtocolFee

ASSUME BridgeAssumption ==
    /\ Bridger \in Callers
    /\ NativeTac \in FTs /\ NativeOn[NativeTac] = "TAC"
    /\ Values \subseteq Nat /\ ExecutorFees \subseteq Nat /\ ProtocolFee \in Nat

VARIABLES
    bridge,      \* [phase, value, fee, next]: next is the asset to approve next
    allowance,   \* allowance[x]: what the cross-chain layer may take of x
    approved,    \* the NFTs it may take: pairs of a collection and an item
    outMessage   \* the message that was sent, or NotSent

bridgeVars == <<bridge, allowance, approved, outMessage>>
tacVars == <<factoryVars, bridgeVars>>

NotSent == [sent |-> FALSE]

\* What bridgeTokensToTON asks AssetFactory.from for when there is a value.
NativeInput(value) == Input(Address("TAC", NativeTac), value, FALSE, 0, TRUE)

\* The native asset is the last of the resolved list, and only there for the fee.
WithoutNative_Kept(value, list) == list                                  \* mutant
WithoutNative(value, list) == IF value = 0 THEN list ELSE SubSeq(list, 1, Len(list) - 1)
Bridged == WithoutNative(bridge.value, done[Bridger])

Object(k) == objects[Bridged[k]]

BridgeInit ==
    /\ bridge \in [phase : {"resolve"}, value : Values, fee : ExecutorFees \union {0}, next : {1}]
    /\ bridge.value # 0 => LET list == named[Bridger] IN
           list # <<>> /\ list[Len(list)] = NativeInput(bridge.value)
    /\ allowance = [x \in Contracts \union {Ton, Nowhere} |-> 0]
    /\ approved = {}
    /\ outMessage = NotSent

\* Left out is the item of a token: what approves it approves as many of the token
\* as its index says.
NoItemsOfTokens ==
    \A k \in 1..Len(named[Bridger]) :
        LET in == named[Bridger][k] IN
        in.index # 0 /\ in.address.chain = "TAC" => in.address.contract \notin FTs

Go(phase) == bridge' = [bridge EXCEPT !.phase = phase]

-------------------------------------------------------------------------------
(* The fee *)

AssetsResolved ==
    /\ bridge.phase = "resolve"
    /\ call[Bridger].phase \in {"resolved", "rejected"}
    /\ Go(IF call[Bridger].phase = "rejected" THEN "rejected"
          ELSE IF bridge.fee = 0 THEN "suggest" ELSE "approve")
    /\ UNCHANGED <<factoryVars, allowance, approved, outMessage>>

\* The assets are aggregated for the question, which rejects an amount of zero;
\* with a fee given nothing looks at the amounts.
SuggestFee ==
    /\ bridge.phase = "suggest"
    /\ IF \E k \in 1..Len(done[Bridger]) : objects[done[Bridger][k]].amount = 0
       THEN Go("rejected")
       ELSE \E fee \in ExecutorFees : bridge' = [bridge EXCEPT !.phase = "approve", !.fee = fee]
    /\ UNCHANGED <<factoryVars, allowance, approved, outMessage>>

-------------------------------------------------------------------------------
(* approveAsset *)

\* An approval replaces the one before it.
SetApproval(o, evm) ==
    IF o.kind = "nft"
    THEN approved' = approved \union {<<evm, o.contract>>} /\ UNCHANGED allowance
    ELSE allowance' = [allowance EXCEPT ![evm] = o.amount] /\ UNCHANGED approved

\* Clones of an NFT share what they remember.
RememberEvm(k) ==
    objects' = [r \in DOMAIN objects |->
        IF r = Bridged[k] \/ (Object(k).kind = "nft" /\ objects[r].base = Object(k).base)
        THEN [objects[r] EXCEPT !.evm = EvmAddress(Object(k))] ELSE objects[r]]

NextAsset == bridge.next + 1

Approve ==
    /\ bridge.phase = "approve" /\ bridge.next <= Len(Bridged)
    /\ SetApproval(Object(bridge.next), EvmAddress(Object(bridge.next)))
    /\ RememberEvm(bridge.next)
    /\ bridge' = [bridge EXCEPT !.next = NextAsset]
    /\ UNCHANGED <<bridged, named, cache, done, call, outMessage>>

\* The transaction fails, or is only reported to have failed.  What was approved
\* before stays approved.
ApproveFails ==
    /\ bridge.phase = "approve" /\ bridge.next <= Len(Bridged)
    /\ \/ UNCHANGED <<objects, allowance, approved>>
       \/ /\ RememberEvm(bridge.next)
          /\ \/ UNCHANGED <<allowance, approved>>
             \/ SetApproval(Object(bridge.next), EvmAddress(Object(bridge.next)))
    /\ Go("rejected")
    /\ UNCHANGED <<bridged, named, cache, done, call, outMessage>>

-------------------------------------------------------------------------------
(* sendMessage *)

EntryOf(k) == [evm |-> EvmAddress(Object(k)), contract |-> Object(k).contract,
               amount |-> Object(k).amount]

\* Where the assets of one sort are in the list.
Positions(isNft) == {k \in 1..Len(Bridged) : (Object(k).kind = "nft") = isNft}

MessageToTon ==
    [sent |-> TRUE,
     toBridge |-> [k \in Positions(FALSE) |-> EntryOf(k)],
     toBridgeNFT |-> [k \in Positions(TRUE) |-> EntryOf(k)],
     value |-> bridge.value + ProtocolFee + bridge.fee]

\* What a message takes of one token.
Taken(m, x) == SumFunctionOnSet([k \in DOMAIN m.toBridge |-> m.toBridge[k].amount],
                                {k \in DOMAIN m.toBridge : m.toBridge[k].evm = x})

\* External: the cross-chain layer takes all of it, or the transaction reverts.
\* Approving at an address without a contract succeeds, but taking from it does not.
MayTake(m) ==
    /\ \A k \in DOMAIN m.toBridgeNFT : m.toBridgeNFT[k].evm # Nowhere
    /\ \A j, k \in DOMAIN m.toBridgeNFT :
           j # k => m.toBridgeNFT[j].contract # m.toBridgeNFT[k].contract
    /\ \A x \in DOMAIN allowance : Taken(m, x) <= allowance[x]
    /\ \A k \in DOMAIN m.toBridgeNFT : <<m.toBridgeNFT[k].evm, m.toBridgeNFT[k].contract>> \in approved

Take(m) ==
    /\ allowance' = [x \in DOMAIN allowance |-> allowance[x] - Taken(m, x)]
    /\ approved' = approved \ {<<m.toBridgeNFT[k].evm, m.toBridgeNFT[k].contract>> :
                                   k \in DOMAIN m.toBridgeNFT}
    /\ outMessage' = m

\* The protocol fee is read, the message is put together from the objects as they
\* are now, and sent.
SendMessage ==
    /\ bridge.phase = "approve" /\ bridge.next > Len(Bridged)
    /\ IF MayTake(MessageToTon)
       THEN Take(MessageToTon) /\ Go("sent")
       ELSE Go("rejected") /\ UNCHANGED <<allowance, approved, outMessage>>
    /\ UNCHANGED factoryVars

\* A request fails, or the receipt of a message that was taken does not come.
SendFails ==
    /\ bridge.phase = "suggest" \/ (bridge.phase = "approve" /\ bridge.next > Len(Bridged))
    /\ \/ UNCHANGED <<allowance, approved, outMessage>>
       \/ bridge.phase = "approve" /\ MayTake(MessageToTon) /\ Take(MessageToTon)
    /\ Go("rejected")
    /\ UNCHANGED factoryVars

BridgeStep == AssetsResolved \/ SuggestFee \/ Approve \/ ApproveFails \/ SendMessage \/ SendFails

BridgeSpec ==
    /\ FactoryInit /\ BridgeInit /\ NoItemsOfTokens
    /\ [][(FactoryNext /\ UNCHANGED bridgeVars) \/ BridgeStep]_tacVars

-------------------------------------------------------------------------------
(* Properties *)

BridgeTypeOK ==
    /\ bridge.phase \in {"resolve", "suggest", "approve", "sent", "rejected"}
    /\ bridge.next \in 1..Len(Bridged) + 1
    /\ \A x \in DOMAIN allowance : allowance[x] \in Nat

\* No token and no NFT is in the list twice.
NoRepeats ==
    \A j, k \in 1..Len(Bridged) :
        (j # k /\ (Object(j).kind = "nft") = (Object(k).kind = "nft")) =>
            IF Object(j).kind = "nft" THEN Object(j).contract # Object(k).contract
                                      ELSE EvmAddress(Object(j)) # EvmAddress(Object(k))

\* No NFT was asked for its TAC address by way of a collection on TON that is not
\* deployed there yet.
AddressesKnown == \A k \in 1..Len(Bridged) : Object(k).evm # Nowhere

(***************************************************************************)
(* A list that names nothing twice is not refused: when all approvals are  *)
(* done they cover the message.  (Of a token named twice the later         *)
(* approval replaces the earlier one, and the message reverts.)            *)
(***************************************************************************)
ApprovalsCoverMessage ==
    (/\ bridge.phase = "approve" /\ bridge.next > Len(Bridged)
     /\ NoRepeats /\ AddressesKnown) => MayTake(MessageToTon)

\* What the user asked to bridge; the native asset goes along as the value.
ToBridge == LET list == named[Bridger] IN
         IF bridge.value = 0 THEN list ELSE SubSeq(list, 1, Len(list) - 1)

(***************************************************************************)
(* What is taken is what was given: every asset of the list once, in its   *)
(* amount, the native one as a part of the value and not as an asset too,  *)
(* and both fees.  An approval that is left over after a failure is that   *)
(* of an asset of the list, in the amount of the list.                     *)
(***************************************************************************)
TakenAsGiven ==
    /\ outMessage.sent =>
           /\ DOMAIN outMessage.toBridge \union DOMAIN outMessage.toBridgeNFT = 1..Len(ToBridge)
           /\ \A k \in DOMAIN outMessage.toBridge :
                  outMessage.toBridge[k].amount = OnChainAmount(ToBridge[k], Object(k))
           /\ outMessage.value = bridge.value + ProtocolFee + bridge.fee
    /\ \A x \in DOMAIN allowance : allowance[x] # 0 =>
           \E k \in 1..Len(ToBridge) : /\ EvmAddress(Object(k)) = x
                                       /\ OnChainAmount(ToBridge[k], Object(k)) = allowance[x]

\* Nothing is refused without a reason, and nothing else is taken than was given.
BridgedAsGiven == ApprovalsCoverMessage /\ TakenAsGiven
================================================================================
