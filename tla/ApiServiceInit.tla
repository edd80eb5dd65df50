---------------------------- MODULE ApiServiceInit ----------------------------
(***************************************************************************)
(* Start-up of the connection pool: loading the manifest's network         *)
(* (processChainId in configure/SubqueryProject.ts) and ApiService.init    *)
(* (indexer/api.service.ts, concatenated in subcommands/mmrMigrate.module  *)
(* .ts), which connects to each endpoint in turn, checks the first         *)
(* endpoint's chain against the manifest and every later endpoint's block  *)
(* at GENESIS_BLOCK against the first one's genesis hash, and adds the     *)
(* connections to the pool only when all of them passed.                   *)
(*                                                                         *)
(* Data abstraction: an endpoint is the network it serves.  A network has  *)
(* a chain id (status().chain_id), the hash of its genesis block and the   *)
(* hash of its block at height GENESIS_BLOCK, or NoBlock when its chain    *)
(* has no block there.  NearApiConnection, which computes networkMeta, is  *)
(* not in this repository: following spec 4.2 its networkMeta is the       *)
(* network's chain id and genesis hash.                                    *)
(***************************************************************************)
EXTENDS Naturals, Sequences

CONSTANTS
  Networks,        \* the networks an endpoint may serve
  ChainIdOf,       \* [Networks -> chain ids]
  GenesisHashOf,   \* [Networks -> hashes]
  HashAtGenesisBlock, \* [Networks -> hashes \cup {NoBlock}]
  Manifests,       \* network sections of the manifest: [chainId, genesisHash]
  MaxEndpoints,    \* bound on the length of network.endpoint
  None,            \* model value: a field the manifest leaves out
  NoBlock          \* model value: no block at GENESIS_BLOCK

ASSUME MaxEndpoints \in Nat \ {0}

VARIABLES
  manifest,     \* the manifest's network section as written
  endpoints,    \* network.endpoint: the network each endpoint serves
  network,      \* project.network after processChainId: its chainId
  phase,        \* "load", "connect", or how start-up ended
  i,            \* index of the endpoint init connects to next
  networkMeta,  \* ApiService.networkMeta, or None before the first endpoint
  connected,    \* endpointToApiIndex: indices of the endpoints that passed
  pool          \* endpoints added to the connection pool

vars == <<manifest, endpoints, network, phase, i, networkMeta, connected, pool>>

Failures == {"configError", "connectFailed", "chainMismatch",
             "blockUnavailable", "genesisMismatch"}

-----------------------------------------------------------------------------
(* NearApiConnection.networkMeta of a connection to network n. *)
NetworkMeta(n) == [chain |-> ChainIdOf[n], genesisHash |-> GenesisHashOf[n]]

(* processChainId: both fields is an error; a legacy genesisHash becomes   *)
(* the chainId; genesisHash is then deleted.                               *)
ProcessChainId(m) ==
  IF m.chainId # None /\ m.genesisHash # None THEN None
  ELSE IF m.genesisHash # None THEN m.genesisHash ELSE m.chainId

(* loadProjectFromManifestBase, as far as the network goes. *)
LoadProject ==
  /\ phase = "load"
  /\ IF manifest.chainId # None /\ manifest.genesisHash # None
     THEN /\ phase' = "configError"
          /\ UNCHANGED network
     ELSE /\ network' = ProcessChainId(manifest)
          /\ phase' = "connect"
  /\ UNCHANGED <<manifest, endpoints, i, networkMeta, connected, pool>>

(* Mutant: a later endpoint's block is fetched but only its absence is   *)
(* an error.                                                               *)
LaterEndpointErrorNoCompare(n) ==
  IF HashAtGenesisBlock[n] = NoBlock THEN "blockUnavailable" ELSE None

(* The check of an endpoint after the first: api.block({blockId:           *)
(* GENESIS_BLOCK}) throws when there is no such block, and its hash must   *)
(* equal networkMeta.genesisHash.  None when the endpoint passes.          *)
LaterEndpointError(n) ==
  CASE HashAtGenesisBlock[n] = NoBlock -> "blockUnavailable"
    [] HashAtGenesisBlock[n] # networkMeta.genesisHash -> "genesisMismatch"
    [] OTHER -> None

(* One pass of the for await loop of init over endpoint i: connect, then   *)
(* check the first endpoint's chain, or a later one's genesis block.  Any  *)
(* throw ends init and nothing is added to the pool.                       *)
ConnectEndpoint ==
  LET n    == endpoints[i]
      fail(why) == /\ phase' = why
                   /\ UNCHANGED <<i, networkMeta, connected>>
      pass == /\ connected' = connected \cup {i}
              /\ i' = i + 1
              /\ UNCHANGED phase
  IN /\ phase = "connect"
     /\ i <= Len(endpoints)
     /\ \/ fail("connectFailed")
        \/ /\ networkMeta = None
           /\ networkMeta' = NetworkMeta(n)
           /\ IF network # None /\ network # ChainIdOf[n]
              THEN /\ phase' = "chainMismatch"
                   /\ UNCHANGED <<i, connected>>
              ELSE pass
        \/ /\ networkMeta # None
           /\ IF LaterEndpointError(n) = None
              THEN pass /\ UNCHANGED networkMeta
              ELSE fail(LaterEndpointError(n))
     /\ UNCHANGED <<manifest, endpoints, network, pool>>

(* Mutant: the index one past the last endpoint is added as well. *)
AddToPoolPastEnd ==
  /\ phase = "connect"
  /\ i > Len(endpoints)
  /\ pool' = connected \cup {i}
  /\ phase' = "ready"
  /\ UNCHANGED <<manifest, endpoints, network, i, networkMeta, connected>>

(* addBatchToConnections after the loop. *)
AddToPool ==
  /\ phase = "connect"
  /\ i > Len(endpoints)
  /\ pool' = connected
  /\ phase' = "ready"
  /\ UNCHANGED <<manifest, endpoints, network, i, networkMeta, connected>>

Init ==
  /\ manifest \in Manifests
  /\ endpoints \in UNION {[1..k -> Networks] : k \in 1..MaxEndpoints}
  /\ network = None
  /\ phase = "load"
  /\ i = 1
  /\ networkMeta = None
  /\ connected = {}
  /\ pool = {}

Next == LoadProject \/ ConnectEndpoint \/ AddToPool

Spec == Init /\ [][Next]_vars

-----------------------------------------------------------------------------
TypeOK ==
  /\ manifest \in Manifests
  /\ phase \in {"load", "connect", "ready"} \cup Failures
  /\ i \in 1..(Len(endpoints) + 1)
  /\ networkMeta \in {None} \cup {NetworkMeta(n) : n \in Networks}
  /\ connected \subseteq 1..Len(endpoints)
  /\ pool \subseteq connected

(* Whether network n is the one the manifest declares, by chain id or by  *)
(* the legacy genesis hash.                                                *)
Declared(n) ==
  \/ manifest.chainId # None /\ ChainIdOf[n] = manifest.chainId
  \/ manifest.genesisHash # None /\ GenesisHashOf[n] = manifest.genesisHash

(***************************************************************************)
(* Once init has filled the pool, every pooled endpoint serves the network *)
(* the manifest declares (spec 4.2: fail fast on a chain or genesis        *)
(* mismatch).  It rests on the first endpoint's chain-id check and on the  *)
(* comparison of each later endpoint's block at GENESIS_BLOCK.             *)
(***************************************************************************)
PoolServesDeclaredNetwork ==
  phase = "ready" => \A k \in pool : Declared(endpoints[k])

(***************************************************************************)
(* init rejects the endpoints only when they really disagree: a chain or   *)
(* genesis mismatch, or a missing genesis block, is reported only if some  *)
(* endpoint serves a network other than the declared one.                  *)
(***************************************************************************)
NoFalseRejection ==
  phase \in {"chainMismatch", "blockUnavailable", "genesisMismatch"} =>
    \E k \in 1..Len(endpoints) : ~Declared(endpoints[k])

=============================================================================
