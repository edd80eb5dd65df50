\* A mainnet project with an endpoint of a mainnet fork.
CONSTANTS
  None = None
  NoBlock = NoBlock
  Mainnet = Mainnet
  Testnet = Testnet
  Localnet = Localnet
  Fork = Fork
  ChainIdOf <- ChainIds
  GenesisHashOf <- GenesisHashes
  HashAtGenesisBlock <- BlockHashes
  Networks <- ForkNetworks
  Manifests <- MainnetManifest
  MaxEndpoints = 2
SPECIFICATION Spec
\* init ends, in the pool or with an error
CHECK_DEADLOCK FALSE
INVARIANT PoolServesDeclaredNetwork
