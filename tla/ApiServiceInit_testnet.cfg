\* A testnet project with more than one endpoint.
CONSTANTS
  None = None
  NoBlock = NoBlock
  Mainnet = Mainnet
  Testnet = Testnet
  Localnet = Localnet
  Fork = Fork
  ChainIdOf <- ChainIds
  GenesisHashOf <- GenesisHashes
  HashAtGenesisBlock <- BlockHashes
  Networks <- RealNetworks
  Manifests <- TestnetManifest
  MaxEndpoints = 2
SPECIFICATION Spec
\* init ends, in the pool or with an error
CHECK_DEADLOCK FALSE
INVARIANT NoFalseRejection
