--------------------------- MODULE SharedNetworks4 ---------------------------
(***************************************************************************)
(* subnet4 rows with their DHCP nodes, and the sharednetwork4 rows that    *)
(* group subnets.  A shared network names its subnets by id in an array    *)
(* column, so no foreign key ties them: the services check, in transactions *)
(* of their own, that the subnets exist, belong to no other network and    *)
(* are served by common nodes.                                             *)
(*                                                                         *)
(* A request is split where other requests can commit: at the moment it    *)
(* reads and checks, and at its commit.  For a shared network these are    *)
(* two transactions, Validate and the insert or update.                    *)
(***************************************************************************)
EXTENDS Integers, FiniteSets

CONSTANTS
    MaxId,            \* bounds subnet_id
    Nodes, Networks,
    Workers,          \* requests served at a time
    HA                \* IsSentryHA: the sentries have a virtual address

ASSUME NetworksAssumption ==
    /\ MaxId \in Nat
    /\ HA \in BOOLEAN

VARIABLES
    subnets,   \* the nodes of each subnet, by subnet_id
    networks,  \* the subnetIds of each shared network
    leased,    \* the subnets for which GetSubnet4LeasesCount is not 0
    req,       \* what each worker is about to commit, or Idle
    raced      \* history: a request has committed whose checks no longer hold

networksVars == <<subnets, networks, leased, req, raced>>

SubnetIds == 1 .. MaxId

Idle == [op |-> "Idle"]

Requests ==
    [op: {"SubnetCreate", "UpdateNodes"}, id: SubnetIds, nodes: SUBSET Nodes]
    \cup [op: {"SubnetDelete"}, id: SubnetIds]
    \cup [op: {"NetworkCreate", "NetworkUpdate"},
          network: Networks, ids: SUBSET SubnetIds]
    \cup [op: {"NetworkDelete"}, network: Networks]

\* The tables are maps from keys, and a request commits only rows of its kind.
NetworksTypeOK ==
    /\ DOMAIN subnets \subseteq SubnetIds
    /\ \A s \in DOMAIN subnets : subnets[s] \subseteq Nodes
    /\ DOMAIN networks \subseteq Networks
    /\ \A n \in DOMAIN networks :
          /\ networks[n] \subseteq SubnetIds
          /\ Cardinality(networks[n]) > 1
    /\ leased \subseteq DOMAIN subnets
    /\ \A w \in Workers : req[w] \in Requests \cup {Idle}
    /\ raced \in BOOLEAN

NetworksInit ==
    /\ subnets = [s \in {} |-> {}]
    /\ networks = [n \in {} |-> {}]
    /\ leased = {}
    /\ req = [w \in Workers |-> Idle]
    /\ raced = FALSE

\* Put(f, k, v) and Without(f, k) are f with a row k -> v, and with no row k.
Put(f, k, v) == [x \in DOMAIN f \cup {k} |-> IF x = k THEN v ELSE f[x]]

Without(f, k) == [x \in DOMAIN f \ {k} |-> f[x]]

Begin(w, q) ==
    /\ req[w] = Idle
    /\ req' = [req EXCEPT ![w] = q]
    /\ UNCHANGED <<subnets, networks, leased, raced>>

\* still is whether the checks the request has passed hold at its commit.
Commit(w, still) ==
    /\ req' = [req EXCEPT ![w] = Idle]
    /\ raced' = (raced \/ ~still)

-----------------------------------------------------------------------------
(***************************************************************************)
(* Subnet4Service: Create, Delete, UpdateNodes                             *)
(***************************************************************************)

\* setSubnet4ID: one more than the largest id in the table.
NextId == CHOOSE i \in 1 .. MaxId + 1 :
            /\ \A s \in DOMAIN subnets : s < i
            /\ i = 1 \/ i - 1 \in DOMAIN subnets

UsedByNetwork(s) == \E n \in DOMAIN networks : s \in networks[n]

\* Mutant: shared networks are not looked at.
CanLoseNodesUnlessLeased(s) == s \notin leased

\* checkSubnet4CouldBeDelete.
CanLoseNodes(s) == ~UsedByNetwork(s) /\ s \notin leased

SubnetCreate(w, nodes) ==
    /\ NextId <= MaxId
    /\ Begin(w, [op |-> "SubnetCreate", id |-> NextId, nodes |-> nodes])

\* The id is a primary key: the insert of a second row with it fails.
SubnetCreateCommit(w) ==
    /\ req[w].op = "SubnetCreate"
    /\ Commit(w, TRUE)
    /\ subnets' = IF req[w].id \in DOMAIN subnets
                  THEN subnets
                  ELSE Put(subnets, req[w].id, req[w].nodes)
    /\ UNCHANGED <<networks, leased>>

SubnetDelete(w, s) ==
    /\ s \in DOMAIN subnets
    /\ CanLoseNodes(s)
    /\ Begin(w, [op |-> "SubnetDelete", id |-> s])

SubnetDeleteCommit(w) ==
    /\ req[w].op = "SubnetDelete"
    /\ Commit(w, CanLoseNodes(req[w].id))
    /\ subnets' = Without(subnets, req[w].id)
    /\ leased' = leased \ {req[w].id}
    /\ UNCHANGED networks

\* Taking all nodes from a subnet is checked like its deletion; replacing
\* nodes by others is refused only when the sentries are in HA mode.
CanUpdateNodes(s, nodes) ==
    /\ subnets[s] # {} /\ nodes = {} => CanLoseNodes(s)
    /\ subnets[s] # {} /\ nodes # {} /\ nodes # subnets[s] => ~HA

UpdateNodes(w, s, nodes) ==
    /\ s \in DOMAIN subnets
    /\ CanUpdateNodes(s, nodes)
    /\ Begin(w, [op |-> "UpdateNodes", id |-> s, nodes |-> nodes])

\* An update of a row that has been deleted changes none.
UpdateNodesCommit(w) ==
    /\ req[w].op = "UpdateNodes"
    /\ Commit(w, req[w].id \in DOMAIN subnets => CanUpdateNodes(req[w].id, req[w].nodes))
    /\ subnets' = [s \in DOMAIN subnets |->
                     IF s = req[w].id THEN req[w].nodes ELSE subnets[s]]
    /\ leased' = IF req[w].nodes = {} THEN leased \ {req[w].id} ELSE leased
    /\ UNCHANGED networks

-----------------------------------------------------------------------------
(***************************************************************************)
(* SharedNetwork4.Validate and SharedNetwork4Service                       *)
(***************************************************************************)

\* getIntersectionNodes calls Union of an external set type: by its name the
\* union, by the use that is made of it the intersection.  It is tested for
\* nil, so an empty result is taken to be nil.
CommonNodes(a, b) == {a \cap b, a \cup b}

\* setSharedNetworkSubnets, where s and t are the first two rows of a query
\* without ORDER BY.
HaveCommonNodes(ids) ==
    \E s, t \in ids :
        /\ s # t
        /\ \E common \in CommonNodes(subnets[s], subnets[t]) \ {{}} :
              \A u \in ids : subnets[u] # {} /\ common \subseteq subnets[u]

Validate(n, ids) ==
    /\ Cardinality(ids) > 1
    /\ ids \subseteq DOMAIN subnets
    /\ HaveCommonNodes(ids)
    /\ \A m \in DOMAIN networks \ {n} : networks[m] \cap ids = {}

NetworkCreate(w, n, ids) ==
    /\ n \notin DOMAIN networks
    /\ \A v \in Workers : req[v].op = "NetworkCreate" => req[v].network # n
    /\ Validate(n, ids)
    /\ Begin(w, [op |-> "NetworkCreate", network |-> n, ids |-> ids])

NetworkCreateCommit(w) ==
    /\ req[w].op = "NetworkCreate"
    /\ Commit(w, Validate(req[w].network, req[w].ids))
    /\ networks' = Put(networks, req[w].network, req[w].ids)
    /\ UNCHANGED <<subnets, leased>>

NetworkUpdate(w, n, ids) ==
    /\ n \in DOMAIN networks
    /\ Validate(n, ids)
    /\ Begin(w, [op |-> "NetworkUpdate", network |-> n, ids |-> ids])

\* getOldSharedNetwork fails when the network has been deleted meanwhile.
NetworkUpdateCommit(w) ==
    /\ req[w].op = "NetworkUpdate"
    /\ Commit(w, Validate(req[w].network, req[w].ids))
    /\ networks' = IF req[w].network \in DOMAIN networks
                   THEN Put(networks, req[w].network, req[w].ids)
                   ELSE networks
    /\ UNCHANGED <<subnets, leased>>

NetworkDelete(w, n) ==
    /\ n \in DOMAIN networks
    /\ Begin(w, [op |-> "NetworkDelete", network |-> n])

NetworkDeleteCommit(w) ==
    /\ req[w].op = "NetworkDelete"
    /\ Commit(w, TRUE)
    /\ networks' = Without(networks, req[w].network)
    /\ UNCHANGED <<subnets, leased>>

-----------------------------------------------------------------------------
\* Kafka or the agent refuses, or the process stops: the transaction rolls back.
Abort(w) ==
    /\ req[w] # Idle
    /\ req' = [req EXCEPT ![w] = Idle]
    /\ UNCHANGED <<subnets, networks, leased, raced>>

\* Clients of a served subnet come and go.
LeasesChange(s) ==
    /\ subnets[s] # {}
    /\ leased' = IF s \in leased THEN leased \ {s} ELSE leased \cup {s}
    /\ UNCHANGED <<subnets, networks, req, raced>>

NetworksNext ==
    \/ \E w \in Workers :
          \/ \E nodes \in SUBSET Nodes : SubnetCreate(w, nodes)
          \/ \E s \in DOMAIN subnets : SubnetDelete(w, s)
          \/ \E s \in DOMAIN subnets, nodes \in SUBSET Nodes : UpdateNodes(w, s, nodes)
          \/ \E n \in Networks, ids \in SUBSET SubnetIds :
                NetworkCreate(w, n, ids) \/ NetworkUpdate(w, n, ids)
          \/ \E n \in Networks : NetworkDelete(w, n)
          \/ SubnetCreateCommit(w)
          \/ SubnetDeleteCommit(w)
          \/ UpdateNodesCommit(w)
          \/ NetworkCreateCommit(w)
          \/ NetworkUpdateCommit(w)
          \/ NetworkDeleteCommit(w)
          \/ Abort(w)
    \/ \E s \in DOMAIN subnets : LeasesChange(s)

NetworksSpec == NetworksInit /\ [][NetworksNext]_networksVars

-----------------------------------------------------------------------------
(***************************************************************************)
(* Properties: what doc/design/dhcp/dhcp_cement.md says of sharednetwork4  *)
(***************************************************************************)

\* Every subnet of a shared network exists: it cannot be deleted while the
\* network uses it, so its id is never given to another subnet.
NetworksHaveSubnets ==
    \A n \in DOMAIN networks : networks[n] \subseteq DOMAIN subnets

\* The subnets of different shared networks are disjoint.
NetworksExclusive ==
    \A m, n \in DOMAIN networks : m # n => networks[m] \cap networks[n] = {}

\* The subnets of a shared network have a node in common that serves them all.
NetworksShareNodes ==
    \A n \in DOMAIN networks :
        \E node \in Nodes : \A s \in networks[n] \cap DOMAIN subnets : node \in subnets[s]

\* In HA mode the checks are the right ones: as long as each request commits
\* while what it has checked still holds, all three hold, however the requests
\* overlap.
UnracedNetworks ==
    HA /\ ~raced => /\ NetworksHaveSubnets
                    /\ NetworksExclusive
                    /\ NetworksShareNodes

=============================================================================
