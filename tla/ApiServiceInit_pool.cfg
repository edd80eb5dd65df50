\* Every form of manifest network section against endpoint lists over the
\* real NEAR networks.
CONSTANTS
  None = None
  NoBlock = NoBlock
  Mainnet = Mainnet
  Testnet = Testnet
  Localnet = Localnet
  Fork = Fork
  ChainIdOf <- ChainIds
  GenesisHashOf <- GenesisHashes
  HashAtGenesisBlock <- BlockHashes
  Networks <- RealNetworks
  Manifests <- AllManifests
  MaxEndpoints = 3
SPECIFICATION Spec
\* init ends, in the pool or with an error
CHECK_DEADLOCK FALSE
INVARIANT TypeOK
INVARIANT PoolServesDeclaredNetwork
