------------------------------ MODULE Configuration ------------------------------
(***************************************************************************)
(* Configuration.create, which TacSdk.create awaits before anything else:  *)
(* the parameters of both chains are loaded concurrently, on TAC with one  *)
(* multicall or, when that fails, one setting after the other.  Settings   *)
(* may be changed on TAC in the meantime.  For the dev network everything  *)
(* has to be given by the caller, for the others there are defaults.       *)
(***************************************************************************)
EXTENDS Naturals, Sequences

CONSTANTS
    Networks,     \* "mainnet", "testnet", "dev" or anything else
    TonContents,  \* what the settings contract on TON may hold: sets of TonSettings
    MaxUpdates    \* bound on changes of the settings on TAC

\* What prepareTONParams looks up: addresses, codes, and the gas the contracts use.
TonAddresses == {"CrossChainLayerAddress", "JettonProxyAddress", "NFTProxyAddress"}
TonCodes == {"JettonWalletCode", "JettonMinterCode", "NFTItemCode", "NFTCollectionCode"}
TonSettings == TonAddresses \union TonCodes \union {"ContractFeeUsageParams"}

ASSUME ConfigurationAssumption ==
    Networks \subseteq STRING /\ TonContents \subseteq SUBSET TonSettings /\ MaxUpdates \in Nat

Supported == {"mainnet", "testnet", "dev"}

\* What loadTACSettingsViaMulticall and its replacement read, in this order.
TacSettings == <<"CrossChainLayerAddress", "TokenUtilsAddress", "TrustedEVMExecutors",
                 "TrustedTVMExecutors">>

TonOptions == {"contractOpener", "tonSettingsAddress"}
TacOptions == {"provider", "tacSettingsAddress", "saFactoryAddress"}
AllOptions == TonOptions \union TacOptions \union {"liteSequencerEndpoints"}

VARIABLES
    given,     \* [network, options, malformed]: what the caller passes; malformed: his
               \* settings address on TAC is not an address
    onTon,     \* the settings that the contract on TON holds
    published, \* the version of the settings on TAC
    tonParams, \* prepareTONParams: [phase, openers, settings, fees, failed], settings: what
               \* the SDK has for each of them
    tacParams, \* prepareTACParams: [phase, read, failed], read: the versions read so far;
               \* failed: a setting could not be read (history)
    sdk        \* what the caller gets: "pending", "created" or "rejected"

configVars == <<given, onTon, published, tonParams, tacParams, sdk>>

ConfigInit ==
    /\ given \in [network : Networks, options : SUBSET AllOptions, malformed : BOOLEAN]
    /\ given.malformed => "tacSettingsAddress" \in given.options
    /\ onTon \in TonContents
    /\ published = 0
    /\ tonParams = [phase |-> "start", openers |-> 0, fees |-> "none", failed |-> FALSE,
                    settings |-> [s \in TonSettings |-> "unread"]]
    /\ tacParams = [phase |-> "start", read |-> <<>>, failed |-> FALSE]
    /\ sdk = "pending"

\* External: the owner of the settings contract changes all of them.
Publish ==
    /\ published < MaxUpdates
    /\ published' = published + 1
    /\ UNCHANGED <<given, onTon, tonParams, tacParams, sdk>>

-------------------------------------------------------------------------------
(* prepareTONParams *)

\* The dev network has no defaults.
Lacks(options) == given.network = "dev" /\ ~(options \subseteq given.options)

TonGoes(phase) == tonParams' = [tonParams EXCEPT !.phase = phase]

\* A given opener, or the default one: a client of TAC's own endpoint and one or
\* two of Orbs's, which are left out when they cannot be had.
ChooseOpener ==
    /\ tonParams.phase = "start"
    /\ IF Lacks(TonOptions) THEN TonGoes("rejected")
       ELSE \E n \in IF "contractOpener" \in given.options THEN {1} ELSE 1..3 :
                tonParams' = [tonParams EXCEPT !.phase = "settings", !.openers = n]

\* What the SDK is created with for a setting that the contract does not hold.
InPlaceOf(s) ==
    CASE s \in TonAddresses -> "" [] s \in TonCodes -> "undefined" [] OTHER -> "default"

\* All settings at once (getAll); each of them that is not there is replaced.
AsRead == [s \in TonSettings |-> IF s \in onTon THEN "held" ELSE InPlaceOf(s)]

ReadTonSettings ==
    /\ tonParams.phase = "settings"
    /\ \/ tonParams' = [tonParams EXCEPT !.phase = "fees", !.settings = AsRead]
       \/ tonParams' = [tonParams EXCEPT !.phase = "rejected", !.failed = TRUE]

\* retrieveTONFeesParams: standard values when the network's cannot be read.
ReadFees ==
    /\ tonParams.phase = "fees"
    /\ \E fees \in {"network", "standard"} :
           tonParams' = [tonParams EXCEPT !.phase = "loaded", !.fees = fees]

PrepareTON ==
    /\ ChooseOpener \/ ReadTonSettings \/ ReadFees
    /\ UNCHANGED <<given, onTon, published, tacParams, sdk>>

-------------------------------------------------------------------------------
(* prepareTACParams *)

TacGoes(phase) == tacParams' = [tacParams EXCEPT !.phase = phase]

\* Multicall is not relied on in dev.
ChooseProvider ==
    /\ tacParams.phase = "start"
    /\ TacGoes(IF Lacks(TacOptions) \/ given.malformed THEN "rejected"
               ELSE IF given.network = "dev" THEN "one" ELSE "multicall")

\* loadTACSettingsViaMulticall: everything at once.  Whatever goes wrong, the
\* settings are read one after the other instead.
AfterMulticallFails_Loaded == "loaded"                                  \* mutant
AfterMulticallFails == "one"

Multicall ==
    /\ tacParams.phase = "multicall"
    /\ \/ tacParams' = [tacParams EXCEPT !.phase = "loaded",
                                         !.read = [k \in 1..Len(TacSettings) |-> published]]
       \/ TacGoes(AfterMulticallFails)

ReadSetting ==
    /\ tacParams.phase = "one"
    /\ \/ LET read == Append(tacParams.read, published) IN
          tacParams' = [tacParams EXCEPT !.read = read,
                            !.phase = IF Len(read) = Len(TacSettings) THEN "loaded" ELSE "one"]
       \/ tacParams' = [tacParams EXCEPT !.phase = "rejected", !.failed = TRUE]

PrepareTAC ==
    /\ ChooseProvider \/ Multicall \/ ReadSetting
    /\ UNCHANGED <<given, onTon, published, tonParams, sdk>>

-------------------------------------------------------------------------------
(* Configuration.create *)

\* The Promise.all settles, with the first rejection or when both are there; the
\* endpoints of the sequencers are looked at last.
Create ==
    /\ sdk = "pending"
    /\ \/ /\ \/ given.network \notin Supported
             \/ tonParams.phase = "rejected" \/ tacParams.phase = "rejected"
          /\ sdk' = "rejected"
       \/ /\ tonParams.phase = "loaded" /\ tacParams.phase = "loaded"
          /\ sdk' = IF Lacks({"liteSequencerEndpoints"}) THEN "rejected" ELSE "created"
    /\ UNCHANGED <<given, onTon, published, tonParams, tacParams>>

\* TacSdk.create refuses a network it does not know before it loads anything.
ConfigNext ==
    \/ Create \/ Publish
    \/ given.network \in Supported /\ (PrepareTON \/ PrepareTAC)

ConfigSpec == ConfigInit /\ [][ConfigNext]_configVars

-------------------------------------------------------------------------------
(* Properties *)

TonParams ==
    [phase : {"start", "settings", "fees", "loaded", "rejected"}, openers : 0..3,
     fees : {"none", "network", "standard"}, failed : BOOLEAN,
     settings : [TonSettings -> {"unread", "held", "", "undefined", "default"}]]

ConfigTypeOK ==
    /\ given \in [network : Networks, options : SUBSET AllOptions, malformed : BOOLEAN]
    /\ onTon \in TonContents /\ published \in 0..MaxUpdates
    /\ tonParams \in TonParams
    /\ tacParams \in [phase : {"start", "multicall", "one", "loaded", "rejected"},
                      read : Seq(0..MaxUpdates), failed : BOOLEAN]
    /\ sdk \in {"pending", "created", "rejected"}

\* An SDK has all settings of TAC, with an opener to use, and one for the dev
\* network uses nothing that its caller did not give.  Of the settings of TON it has
\* those that the contract holds, and in any case the gas that contracts use: one
\* whose contract lacks an address or a code is created without it.
CreatedComplete ==
    sdk = "created" =>
        /\ \A s \in onTon : tonParams.settings[s] = "held"
        /\ tonParams.settings["ContractFeeUsageParams"] \in {"held", "default"}
        /\ Len(tacParams.read) = Len(TacSettings) /\ tonParams.openers > 0
        /\ ~given.malformed /\ (given.network = "dev" => given.options = AllOptions)

\* Settings that were changed while they were read one by one may come from
\* before and after the change, but never the later ones from before it and the
\* earlier ones from after it; without a change all of them agree.
ReadInOrder ==
    \A j, k \in 1..Len(tacParams.read) :
        j <= k => tacParams.read[j] <= tacParams.read[k] /\ tacParams.read[k] <= published

\* A failing multicall, an Orbs endpoint or fee parameters that cannot be had
\* reject nothing: a caller who gave what was needed is refused only when a
\* setting cannot be read from its contract.
RejectedForAReason ==
    sdk = "rejected" =>
        \/ given.network \notin Supported \/ given.malformed
        \/ given.network = "dev" /\ given.options # AllOptions
        \/ tonParams.failed \/ tacParams.failed

(***************************************************************************)
(* What TacSdk.create promises: a configuration that lacks nothing the     *)
(* settings contracts hold, never mixes the dev network with public        *)
(* defaults, has what was published in the order it was read, and is       *)
(* refused only for a reason.                                              *)
(***************************************************************************)
ConfigurationSound == CreatedComplete /\ ReadInOrder /\ RejectedForAReason
================================================================================
