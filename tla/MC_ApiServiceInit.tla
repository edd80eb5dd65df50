--------------------------- MODULE MC_ApiServiceInit ---------------------------
(***************************************************************************)
(* NEAR networks for ApiServiceInit.  Mainnet's genesis block is at height *)
(* GENESIS_BLOCK (9_820_210); testnet's genesis and a localnet's chain lie *)
(* elsewhere, so neither has a block there.  A mainnet fork shares         *)
(* mainnet's history, its block at GENESIS_BLOCK included, and reports     *)
(* its own chain id.                                                       *)
(***************************************************************************)
EXTENDS ApiServiceInit

CONSTANTS Mainnet, Testnet, Localnet, Fork

ChainIds     == [n \in {Mainnet, Testnet, Localnet, Fork} |->
                   CASE n = Mainnet -> "mainnet" [] n = Testnet -> "testnet"
                     [] n = Localnet -> "localnet" [] n = Fork -> "mainnet-fork"]
GenesisHashes == [n \in {Mainnet, Testnet, Localnet, Fork} |->
                   CASE n = Testnet -> "HT" [] n = Localnet -> "HL" [] OTHER -> "HM"]
BlockHashes  == [n \in {Mainnet, Testnet, Localnet, Fork} |->
                   IF n \in {Mainnet, Fork} THEN "HM" ELSE NoBlock]

RealNetworks == {Mainnet, Testnet, Localnet}
ForkNetworks == {Mainnet, Fork}

ByChainId(c)     == [chainId |-> c, genesisHash |-> None]
ByGenesisHash(h) == [chainId |-> None, genesisHash |-> h]

(* Every form of network section: a chain id, a legacy genesis hash, both. *)
AllManifests == {ByChainId("mainnet"), ByChainId("testnet"),
                 ByGenesisHash("HM"), [chainId |-> "mainnet", genesisHash |-> "HM"]}
MainnetManifest == {ByChainId("mainnet")}
LegacyManifest  == {ByGenesisHash("HM")}
TestnetManifest == {ByChainId("testnet")}

=============================================================================
