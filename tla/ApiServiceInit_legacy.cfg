\* A legacy manifest that declares the network by genesisHash.
CONSTANTS
  None = None
  NoBlock = NoBlock
  Mainnet = Mainnet
  Testnet = Testnet
  Localnet = Localnet
  Fork = Fork
  ChainIdOf <- ChainIds
  GenesisHashOf <- GenesisHashes
  HashAtGenesisBlock <- BlockHashes
  Networks <- RealNetworks
  Manifests <- LegacyManifest
  MaxEndpoints = 1
SPECIFICATION Spec
\* init ends, in the pool or with an error
CHECK_DEADLOCK FALSE
INVARIANT NoFalseRejection
