------------------------------ MODULE AssetFactory ------------------------------
(***************************************************************************)
(* Resolution of what callers name to asset objects: normalizeAssets over  *)
(* AssetFactory.from, the constructors of FT, NFT and TON, and AssetCache, *)
(* one map for the whole process.  Callers (the transactions of a batch)   *)
(* resolve their lists concurrently and each list in order; every await is *)
(* a step of its own.  Meanwhile the bridge may deploy the counterpart of  *)
(* a token on the other chain.                                             *)
(*                                                                         *)
(* A contract stands for its addresses on both chains: FT tokens, NFT      *)
(* collections and NFT items.  Objects are shared by reference, so they    *)
(* live in a heap.                                                         *)
(***************************************************************************)
EXTENDS Integers, Sequences, FiniteSets

CONSTANTS
    Callers,       \* who resolves a list at the same time
    Requests,      \* the lists they may name together: functions from Callers
    Contracts,     \* jettons and ERC20s, NFT collections and NFT items
    KindOf,        \* KindOf[x]: "ft", "collection" or "item"
    NativeOn,      \* NativeOn[x]: the chain x was issued on, "TON" or "TAC"
    Copies,        \* jettons issued on TON that run the cross-chain layer's minter code
    CollectionOf,  \* of an item, and its index in it
    IndexOf,
    Multiplier     \* the display multiplier of every jetton, as a factor (TEP-526)

Ton == "ton"            \* TON itself
Nowhere == "nowhere"    \* an address computed for a contract that will never be there
Unknown == "unknown"    \* an address that has not been asked for

FTs == {x \in Contracts : KindOf[x] = "ft"}
Items == {x \in Contracts : KindOf[x] = "item"}

\* The name of a contract by its address on one chain; no address is TON.
Address(chain, x) == [chain |-> chain, contract |-> x]
NoAddress == Address("TON", Ton)

\* An input: a name with an amount, of the smallest unit or as displayed, or with
\* an itemIndex (0: none); strict ones go to AssetFactory.from alone, without
\* the fallback of normalizeAsset from a jetton to an NFT item.
Input(address, amount, display, index, strict) ==
    [address |-> address, amount |-> amount, display |-> display, index |-> index,
     strict |-> strict]
Inputs == [address : [chain : {"TON", "TAC"}, contract : Contracts \union {Ton}],
           amount : Nat, display : BOOLEAN, index : Nat, strict : BOOLEAN]

ASSUME FactoryAssumption ==
    /\ {Ton, Nowhere, Unknown} \cap Contracts = {}
    /\ Requests \subseteq [Callers -> Seq(Inputs)]
    /\ KindOf \in [Contracts -> {"ft", "collection", "item"}]
    /\ NativeOn \in [Contracts -> {"TON", "TAC"}]
    /\ Copies \subseteq {x \in FTs : NativeOn[x] = "TON"}
    /\ CollectionOf \in [Items -> Contracts] /\ IndexOf \in [Items -> Nat \ {0}]
    /\ \A i \in Items : KindOf[CollectionOf[i]] = "collection"
                        /\ NativeOn[i] = NativeOn[CollectionOf[i]]
    /\ Multiplier \in Nat \ {0}

VARIABLES
    bridged,    \* tokens whose counterpart on the other chain is deployed
    named,     \* named[c]: what c asks for, a sequence of [address, amount, display, index, strict]
    objects,    \* every asset object made so far
    cache,      \* AssetCache.cache: a partial function from keys to places in objects
    done,       \* done[c]: the objects of the named that are resolved
    call        \* call[c]: where c stands in the resolution of the next one

factoryVars == <<bridged, named, objects, cache, done, call>>

Idle == [phase |-> "next", as |-> "ft", contract |-> Unknown, origin |-> "TON",
         evm |-> Unknown, object |-> 0]

\* What is deployed from the start is deployed by BridgeToken before any step.
FactoryInit ==
    /\ bridged = {}
    /\ named \in Requests
    /\ objects = <<>>
    /\ cache = [k \in {} |-> 0]
    /\ done = [c \in Callers |-> <<>>]
    /\ call = [c \in Callers |-> Idle]

Current(c) == named[c][Len(done[c]) + 1]

-------------------------------------------------------------------------------
(* The chains *)

Home(x) == IF KindOf[x] = "item" THEN CollectionOf[x] ELSE x

\* What getContractState finds at the TON address of x: no code, the code that
\* the cross-chain layer deploys, or another contract's own.
CodeAt(x) ==
    IF x = Nowhere \/ (NativeOn[x] = "TAC" /\ Home(x) \notin bridged) THEN "none"
    ELSE IF NativeOn[x] = "TAC" \/ x \in Copies THEN "ccl" ELSE "own"

\* Whether there is a contract at the TAC address of x.
OnTac(x) == NativeOn[x] = "TAC" \/ Home(x) \in bridged

\* Of interest are the tokens that somebody names.
Named == UNION {{named[c][k].address.contract : k \in 1..Len(named[c])} : c \in Callers} \ {Ton}

BridgeToken(x) ==
    /\ x \in {Home(y) : y \in Named} \ bridged
    /\ bridged' = bridged \union {x}
    /\ UNCHANGED <<named, objects, cache, done, call>>

\* FT.getTVMAddress and NFT.getTVMAddress of a TAC address: TokenUtils tells
\* whether the token came from TON, and then it knows its contract there;
\* otherwise the address is computed as that of a token of this kind issued on TAC.
TvmAddress(x, kind) ==
    IF (NativeOn[x] = "TON" /\ x \in bridged) \/ (NativeOn[x] = "TAC" /\ KindOf[x] = kind)
    THEN x ELSE Nowhere

-------------------------------------------------------------------------------
(* Asset objects.  An NFT knows its item and its collection; its clones share  *)
(* one record of addresses, which is known by the place of the object it was   *)
(* made with (base).                                                           *)

NewTon == [kind |-> "ton", contract |-> Ton, collection |-> Unknown, origin |-> "TON",
           evm |-> Unknown, amount |-> 0, multiplier |-> 1, base |-> 0]
NewFT(x, origin, evm, multiplier) ==
    [kind |-> "ft", contract |-> x, collection |-> Unknown, origin |-> origin, evm |-> evm,
     amount |-> 0, multiplier |-> multiplier, base |-> 0]
NewNFT(x, collection, origin, evm) ==
    [kind |-> "nft", contract |-> x, collection |-> collection, origin |-> origin, evm |-> evm,
     amount |-> 1, multiplier |-> 1, base |-> Len(objects) + 1]

\* fromDisplayAmount: a division by the multiplier, rounded.
FromDisplay(n, multiplier) == (n + multiplier \div 2) \div multiplier

\* A clone with another amount; an NFT always counts one.
WithAmount(o, n) == IF o.kind = "nft" THEN o ELSE [o EXCEPT !.amount = n]

Key(in, as) == <<in.address, as = "ft", in.index>>

-------------------------------------------------------------------------------
(* AssetFactory.from *)

Enter(c, phase) == call' = [call EXCEPT ![c].phase = phase]

\* The object at place r is handed to the caller, who goes on in a later step.
Return(c, r) == call' = [call EXCEPT ![c].phase = "returned", ![c].object = r]

\* A jetton that cannot be resolved is tried as an NFT item; anything else
\* rejects the list.
Unresolved(c) ==
    call' = [call EXCEPT ![c] = IF call[c].as = "ft" /\ ~Current(c).strict
                                THEN [Idle EXCEPT !.as = "item", !.phase = "from"]
                                ELSE [Idle EXCEPT !.phase = "rejected"]]

\* normalizeAsset takes the next input of the list.
TakeInput(c) ==
    /\ call[c].phase = "next"
    /\ call' = [call EXCEPT ![c] =
           IF Len(done[c]) = Len(named[c]) THEN [Idle EXCEPT !.phase = "resolved"]
           ELSE [Idle EXCEPT !.phase = "from",
                             !.as = IF Current(c).index = 0 THEN "ft" ELSE "collection"]]
    /\ UNCHANGED <<bridged, named, objects, cache, done>>

\* A hit: the caller gets a clone with no amount.
Hit_InPlace(c, r) ==                                                     \* mutant
    /\ objects' = [objects EXCEPT ![r] = WithAmount(objects[r], 0)]
    /\ Return(c, r)
Hit(c, r) ==
    /\ objects' = Append(objects, WithAmount(objects[r], 0))
    /\ Return(c, Len(objects) + 1)

\* The synchronous start of AssetFactory.from: TON is made anew, a cached asset
\* is cloned, and the rest goes to the chains.  An item is looked for by its
\* TON address only.
From(c) ==
    LET in == Current(c)
        as == call[c].as
    IN  /\ call[c].phase = "from"
        /\ IF in.address = NoAddress
           THEN IF as = "ft" THEN objects' = Append(objects, NewTon) /\ Return(c, Len(objects) + 1)
                             ELSE Unresolved(c) /\ UNCHANGED objects
           ELSE IF Key(in, as) \in DOMAIN cache THEN Hit(c, cache[Key(in, as)])
           ELSE /\ IF as = "item" THEN Enter(c, "item") ELSE Enter(c, "identify")
                /\ UNCHANGED objects
        /\ UNCHANGED <<bridged, named, cache, done>>

\* The new object goes to the cache and, the same object, to the caller.
Created(c, o) ==
    /\ objects' = Append(objects, o)
    /\ cache' = [k \in DOMAIN cache \union {Key(Current(c), call[c].as)} |->
                    IF k = Key(Current(c), call[c].as) THEN Len(objects) + 1 ELSE cache[k]]
    /\ Return(c, Len(objects) + 1)

-------------------------------------------------------------------------------
(* createFTAsset, FT.fromAddress, NFT.fromCollection and NFT.fromItem *)

\* The TON contract behind the address; the TAC address of TON is TON.
Identify(c) ==
    LET a == Current(c).address IN
    /\ call[c].phase = "identify"
    /\ IF a.contract = Ton
       THEN IF call[c].as = "ft" THEN Created(c, NewTon)
                                 ELSE Unresolved(c) /\ UNCHANGED <<objects, cache>>
       ELSE /\ call' = [call EXCEPT ![c].phase = "inspect",
                   ![c].contract = IF a.chain = "TON" THEN a.contract
                                   ELSE TvmAddress(a.contract, call[c].as)]
            /\ UNCHANGED <<objects, cache>>
    /\ UNCHANGED <<bridged, named, done>>

\* FT.getOriginAndData, where a contract without code counts as one issued on
\* TAC.  The minter code alone is not enough: the address must be the one that
\* the cross-chain layer would have deployed it to.
Inspected_ByCode(x) ==                                                   \* mutant
    CASE CodeAt(x) = "none"                      -> [origin |-> "TAC", evm |-> Unknown]
      [] CodeAt(x) = "ccl" /\ KindOf[x] = "ft"   -> [origin |-> "TAC", evm |-> x]
      [] OTHER                                   -> [origin |-> "TON", evm |-> Unknown]
Inspected(x) ==
    CASE CodeAt(x) = "none"                                    -> [origin |-> "TAC", evm |-> Unknown]
      [] CodeAt(x) = "ccl" /\ KindOf[x] = "ft" /\ x \notin Copies -> [origin |-> "TAC", evm |-> x]
      [] OTHER                                                 -> [origin |-> "TON", evm |-> Unknown]

\* An asset issued on TON answers as a jetton or not at all.
InspectFT(c) ==
    LET x == call[c].contract
        found == Inspected(x)
    IN  /\ call[c].phase = "inspect" /\ call[c].as = "ft"
        /\ IF found.origin = "TON" /\ KindOf[x] # "ft" THEN Unresolved(c)
           ELSE call' = [call EXCEPT ![c].phase = "describe", ![c].origin = found.origin,
                                     ![c].evm = found.evm]
        /\ UNCHANGED <<bridged, named, objects, cache, done>>

\* The TAC address of an asset issued there: the one given, the one read with
\* the code, or the one the minter tells now, if there is a minter by now.
EvmOf(c) ==
    LET a == Current(c).address IN
    IF a.chain = "TAC" THEN a.contract
    ELSE IF call[c].evm # Unknown THEN call[c].evm
    ELSE IF KindOf[call[c].contract] = "ft" /\ CodeAt(call[c].contract) = "ccl" THEN call[c].contract
    ELSE Nowhere

\* The decimals, which an asset issued on TAC must have as an ERC20, and the
\* display multiplier, which is taken to be 1 when it cannot be read.
DescribeFT(c) ==
    LET given == Current(c).address.chain = "TAC"
        evm == IF call[c].origin = "TAC" THEN EvmOf(c)
               ELSE IF given THEN Current(c).address.contract ELSE Unknown
    IN  /\ call[c].phase = "describe"
        /\ IF call[c].origin = "TAC" /\ (evm = Nowhere \/ KindOf[evm] # "ft" \/ ~OnTac(evm))
           THEN Unresolved(c) /\ UNCHANGED <<objects, cache>>
           ELSE \E m \in {1, Multiplier} : Created(c, NewFT(call[c].contract, call[c].origin, evm, m))
        /\ UNCHANGED <<bridged, named, done>>

\* The item with an index in a collection, by computation or by asking it.
ItemOf(x, index) ==
    LET items == {i \in Items : CollectionOf[i] = x /\ IndexOf[i] = index} IN
    IF items = {} THEN Nowhere ELSE CHOOSE i \in items : TRUE

\* NFT.fromCollection: the code tells the origin, and no code means TAC.
InspectCollection(c) ==
    LET x == call[c].contract
        a == Current(c).address
        origin == IF CodeAt(x) = "own" \/ (CodeAt(x) = "ccl" /\ KindOf[x] = "ft") THEN "TON" ELSE "TAC"
        item == ItemOf(x, Current(c).index)
        evm == IF a.chain = "TAC" THEN a.contract ELSE Unknown
    IN  /\ call[c].phase = "inspect" /\ call[c].as = "collection"
        /\ IF origin = "TON" /\ KindOf[x] # "collection" THEN Unresolved(c) /\ UNCHANGED <<objects, cache>>
           ELSE Created(c, NewNFT(item, x, origin, evm))
        /\ UNCHANGED <<bridged, named, done>>

\* NFT.fromItem: the item must answer with its collection and index.
ResolveItem(c) ==
    LET a == Current(c).address IN
    /\ call[c].phase = "item"
    /\ IF a.chain = "TAC" \/ KindOf[a.contract] # "item" \/ CodeAt(a.contract) = "none"
       THEN Unresolved(c) /\ UNCHANGED <<objects, cache>>
       ELSE Created(c, NewNFT(a.contract, CollectionOf[a.contract],
                              IF CodeAt(a.contract) = "ccl" THEN "TAC" ELSE "TON", Unknown))
    /\ UNCHANGED <<bridged, named, done>>

\* Any request of a step may fail.
RequestFails(c) ==
    /\ call[c].phase \in {"identify", "inspect", "describe", "item"}
    /\ Unresolved(c)
    /\ UNCHANGED <<bridged, named, objects, cache, done>>

-------------------------------------------------------------------------------
(* The rest of normalizeAsset *)

\* withRawAmount and withAmount: an object without an amount, as the factory's
\* all are, is changed itself.
SetAmount(c, r, n) ==
    /\ objects' = [objects EXCEPT ![r] = WithAmount(objects[r], n)]
    /\ done' = [done EXCEPT ![c] = Append(done[c], r)]

OnChainAmount(in, o) == IF in.display THEN FromDisplay(in.amount, o.multiplier) ELSE in.amount

\* A jetton or TON without an amount rejects the list at once; a strict input is
\* given its amount by the caller, who does not look at it.
TakeAmount(c) ==
    LET in == Current(c)
        o == objects[call[c].object]
    IN  /\ call[c].phase = "returned"
        /\ IF call[c].as = "ft" /\ in.amount = 0 /\ ~in.strict
           THEN /\ call' = [call EXCEPT ![c] = [Idle EXCEPT !.phase = "rejected"]]
                /\ UNCHANGED <<objects, done>>
           ELSE /\ SetAmount(c, call[c].object, OnChainAmount(in, o))
                /\ call' = [call EXCEPT ![c] = Idle]
        /\ UNCHANGED <<bridged, named, cache>>

FactoryStep(c) ==
    \/ TakeInput(c) \/ From(c) \/ Identify(c) \/ InspectFT(c) \/ DescribeFT(c)
    \/ InspectCollection(c) \/ ResolveItem(c) \/ RequestFails(c) \/ TakeAmount(c)

FactoryNext ==
    \/ \E c \in Callers : FactoryStep(c)
    \/ \E x \in Contracts : BridgeToken(x)

FactorySpec == FactoryInit /\ [][FactoryNext]_factoryVars

-------------------------------------------------------------------------------
(* getEVMAddress of an object: what it remembers, or what the chains say now.  *)
(* Anything that is not a collection with code on TON by now passes for a      *)
(* collection issued there, whose address on TAC is computed.                  *)

EvmAddress(o) ==
    CASE o.evm # Unknown -> o.evm
      [] o.evm = Unknown /\ o.kind = "nft" ->
             LET x == o.collection IN
             IF CodeAt(x) = "none" \/ KindOf[x] # "collection" THEN Nowhere ELSE x
      [] OTHER -> o.contract

-------------------------------------------------------------------------------
(* Properties *)

Phases == {"next", "from", "identify", "inspect", "describe", "item", "returned",
           "resolved", "rejected"}

AssetObject == [kind : {"ton", "ft", "nft"}, contract : Contracts \union {Ton, Nowhere},
                collection : Contracts \union {Unknown, Nowhere},
                origin : {"TON", "TAC"}, evm : Contracts \union {Ton, Unknown, Nowhere},
                amount : Nat, multiplier : {1, Multiplier}, base : Nat]

FactoryTypeOK ==
    /\ bridged \subseteq Contracts
    /\ objects \in Seq(AssetObject)
    /\ \A k \in DOMAIN cache : cache[k] \in 1..Len(objects)
    /\ \A c \in Callers : /\ call[c].phase \in Phases
                          /\ call[c].object \in 0..Len(objects)
                          /\ done[c] \in Seq(1..Len(objects))

\* What an input asks for: a token, or the item of a collection, which has the
\* origin of its collection whether or not there is an item with that index.
Wanted(in) == IF in.index = 0 THEN in.address.contract
                             ELSE ItemOf(in.address.contract, in.index)
OriginOf(x) == IF x = Ton THEN "TON" ELSE NativeOn[x]

\* A TAC address of something issued on TON: before it is deployed on TAC
\* nothing tells it from a token issued there.
MayMislead(in) == /\ in.address.chain = "TAC" /\ in.address.contract # Ton
                  /\ NativeOn[in.address.contract] = "TON"

IsAsAsked(in, o) ==
    /\ o.contract = Wanted(in)
    /\ o.origin = OriginOf(in.address.contract)
    /\ o.amount = IF o.kind = "nft" THEN 1 ELSE OnChainAmount(in, o)

(***************************************************************************)
(* A resolved asset is the contract that was named, with its true origin   *)
(* (which decides between burning and transferring it) and the amount that *)
(* was given, however many callers name it, by whichever of its addresses, *)
(* through the shared cache and while counterparts are being deployed.     *)
(***************************************************************************)
ResolvedAsAsked ==
    \A c \in Callers : \A k \in 1..Len(done[c]) :
        LET in == named[c][k]
            o == objects[done[c][k]]
        IN  IsAsAsked(in, o) \/ (o.contract = Nowhere /\ MayMislead(in))
===============================================================================
