------------------------------- MODULE NodeStart -------------------------------
(***************************************************************************)
(* How a node comes up (main.rs, config.rs, network_config.rs): the layers *)
(* its configuration is put together from, the five reads that resolve the *)
(* Hub contracts against SparklNetworkConfig, what follows up to serving,  *)
(* and the stop of the process.                                            *)
(*                                                                         *)
(* Of the settings, the ones the start depends on: whether settlement is   *)
(* on, the bootstrap contract and the two contract addresses.  Addresses   *)
(* are numbers: ZeroAddress, OwnAddress for the one the operator writes    *)
(* down, and others for the contracts the owner of the network             *)
(* configuration deploys.  For a switch they stand for off and on.         *)
(***************************************************************************)
EXTENDS Integers, Sequences, FiniteSets

CONSTANTS
    Layers,                 \* what command line, environment and files may hold
    NetworkAddresses,       \* what the owner may pass to setAddresses, zero among them
    MaxUpdates              \* bound: setAddresses calls

ZeroAddress == 0
OwnAddress == -1
Unset == -2                 \* a setting a layer does not mention
Settings == {"settlement", "bootstrap", "registry", "escrow"}
Layer == [Settings -> {Unset, ZeroAddress, OwnAddress}]

ASSUME StartAssumption ==
    /\ Layers \subseteq [cli : Layer, env : Layer, file : Layer, default : Layer,
                         fileExists : BOOLEAN]
    /\ NetworkAddresses \subseteq Nat
    /\ MaxUpdates \in Nat

VARIABLES
    layers,
    networkConfig,          \* SparklNetworkConfig: every [registry, escrow] it held, the
                            \* last one now; the version counts from 0
    boot                    \* the node process

startVars == <<layers, networkConfig, boot>>

Version == Len(networkConfig) - 1
Current == networkConfig[Len(networkConfig)]

FirstSet(over, under) == IF over # Unset THEN over ELSE under

\* config::load.  Without the file named, config/default.toml is added after the
\* environment and so wins over it.
Loaded(s) == IF layers.fileExists THEN FirstSet(layers.env[s], layers.file[s])
             ELSE FirstSet(layers.default[s], layers.env[s])

\* apply_cli_overrides.
Effective(s) == FirstSet(layers.cli[s], Loaded(s))

Enabled(s) == Effective(s) \notin {Unset, ZeroAddress}

\* A missing setting does not deserialize; the bootstrap address may be empty, and the
\* registry address has a default.
Loads == \A s \in {"settlement", "escrow"} : Loaded(s) # Unset

Configured == [registry |-> IF Effective("registry") = Unset THEN ZeroAddress
                            ELSE Effective("registry"),
               escrow |-> Effective("escrow")]

NoBoot == [at |-> "down"]

\* The process is past resolution with the pair p; source and the versions of the
\* contract before and after the reads are kept for the properties.
Resolved(p, source, from, to) ==
    [at |-> "preparing", registry |-> p.registry, escrow |-> p.escrow,
     source |-> source, from |-> from, to |-> to]

\* The constructor sets the owner and no address.
StartInit ==
    /\ layers \in Layers
    /\ networkConfig = <<[registry |-> ZeroAddress, escrow |-> ZeroAddress]>>
    /\ boot = NoBoot

-------------------------------------------------------------------------------
\* parse_cli_args, config::load, apply_cli_overrides, and the decision to resolve.
Configure ==
    /\ boot = NoBoot
    /\ Loads
    /\ boot' = IF Enabled("settlement") /\ Enabled("bootstrap")
               THEN [at |-> "resolving", reads |-> <<>>, from |-> Version]
               ELSE Resolved(Configured, "config", 0, 0)
    /\ UNCHANGED <<layers, networkConfig>>

\* resolve_from_bootstrap: five calls, one after the other.
Calls == <<"registry", "escrow", "priceOracle", "modelPriceOracle", "version">>

\* The contract's answers to the calls, of which main uses three.
Answers == <<Current.registry, Current.escrow, 0, 0, Version>>

ReadNext ==
    /\ boot.at = "resolving"
    /\ Len(boot.reads) < Len(Calls)
    /\ boot' = [boot EXCEPT !.reads = Append(@, Answers[Len(@) + 1])]
    /\ UNCHANGED <<layers, networkConfig>>

ReadsDone ==
    /\ boot.at = "resolving"
    /\ Len(boot.reads) = Len(Calls)
    /\ boot' = Resolved([registry |-> boot.reads[1], escrow |-> boot.reads[2]],
                        "chain", boot.from, boot.reads[5])
    /\ UNCHANGED <<layers, networkConfig>>

\* Mutant: what was read before the failure is kept.
FallbackKeepsReads ==
    /\ boot.at = "resolving"
    /\ Len(boot.reads) < Len(Calls)
    /\ boot' = Resolved([Configured EXCEPT !.registry = IF boot.reads = <<>> THEN @
                                                        ELSE boot.reads[1]], "config", 0, 0)
    /\ UNCHANGED <<layers, networkConfig>>

\* One failed call and the whole answer is dropped for the configured addresses.
Fallback ==
    /\ boot.at = "resolving"
    /\ Len(boot.reads) < Len(Calls)
    /\ boot' = Resolved(Configured, "config", 0, 0)
    /\ UNCHANGED <<layers, networkConfig>>

\* The store is opened and pruned, the identity loaded, the swarm started, the sessions
\* recovered, the tasks spawned, and the listener bound.
Prepare ==
    /\ boot.at = "preparing"
    /\ boot' = [boot EXCEPT !.at = "serving"]
    /\ UNCHANGED <<layers, networkConfig>>

\* Something in it fails and main returns the error, or the process stops.
Stop ==
    /\ boot # NoBoot
    /\ boot' = NoBoot
    /\ UNCHANGED <<layers, networkConfig>>

\* The owner of the network configuration calls setAddresses with any addresses, zero
\* and earlier ones among them; a node without a bootstrap address would not notice.
SetAddresses(registry, escrow) ==
    /\ Enabled("bootstrap")
    /\ Version < MaxUpdates
    /\ networkConfig' = Append(networkConfig, [registry |-> registry, escrow |-> escrow])
    /\ UNCHANGED <<layers, boot>>

StartStep == Configure \/ ReadNext \/ ReadsDone \/ Fallback \/ Prepare

-------------------------------------------------------------------------------
\* The node works with a pair of addresses that makes sense: both from its
\* configuration, or each current at its own moment of the reads, the escrow at the
\* registry's or later, and both no later than the version reported with them.  So
\* with no setAddresses during the reads the pair is one the owner has set together.
AddressesResolved ==
    boot.at \in {"preparing", "serving"} =>
        \/ boot.source = "config" /\ boot.registry = Configured.registry
                                  /\ boot.escrow = Configured.escrow
        \/ /\ boot.source = "chain"
           /\ \E i, j \in boot.from..boot.to :
                  /\ i <= j
                  /\ boot.registry = networkConfig[i + 1].registry
                  /\ boot.escrow = networkConfig[j + 1].escrow
===============================================================================
