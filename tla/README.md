# clxone-dhcp in TLA+

clxone-dhcp is the management plane of a DHCP service. It keeps the address plan
of every subnet in PostgreSQL, forwards each change of it to the DHCP nodes over
Kafka, and asks an agent on the nodes over gRPC what is leased. This directory
models the parts of it whose correctness depends on the order of events, on
failures, or on arithmetic and conversions spread over several handlers. TLC
model-checks them on small instances; TLAPS proves for every instance the address
plan and its refinement, overlapping requests, shared networks, the consumers of
Kafka, what row locks keep, the copies of deleted leases, and whom the scan for
illegal servers accuses.

Paths are relative to the repository; `service/`, `resource/` and `api/` are
under `src/pkg/dhcp/`.

## 1. Inventory

### How a request runs

A REST handler (`api/*_api.go`) calls one method of a service
(`service/*_service.go`). The method validates the resource, opens a transaction
with `restdb.WithTx`, reads and checks, writes, sends Kafka commands from *inside*
the transaction, and commits last. An error rolls the rows back. Three things
make this hard to get right:

* PostgreSQL runs at READ COMMITTED and the services read with plain `SELECT`s.
  Between a read and the commit lie gRPC calls and one Kafka write per node.
  Uniqueness of ranges is checked by code only: pools, reserved pools and
  reservations have no unique or exclusion constraint.
* Capacities are stored, not computed. Each handler reads one, adds or subtracts
  and writes the absolute value back, in unsigned 64-bit arithmetic.
* Commands are sent to one node after the other. A failure leaves some nodes with
  a command whose rows are rolled back.

### Components

"yes" means every operation that changes state is in a module, "partly" that the
section "Not modelled" names what is missing.

| component | state | operations | interacts with | what makes it correct | modelled |
|---|---|---|---|---|---|
| IPv4 address plan (`pool4`, `reservedpool4`, `reservation4`) | rows with ranges; stored capacity of each pool and of the subnet | create, delete, batch create, batch delete, import; update of texts | lease consumer, agent (leases), nodes | ranges exclude each other; capacities are exact; leased addresses are kept | yes: `Subnet4Rows`, `Subnet4`, `Subnet4Batch`, `Subnet4Concurrent`, `AddressPlan`, `RowLocks`, `NodeRows` |
| Lease consumer (`lease_consumer.go`) | automatic reservations, fingerprints, OUIs; Kafka offsets | record what is new, reserve or release an address | the same rows as REST requests, nodes | no message twice; nothing recorded twice; a reservation follows the last message | yes: `KafkaConsumers`, and the rows in `Subnet4`, `Subnet6` |
| IPv4 subnets and their nodes (`subnet4_service.go`) | subnet rows, `subnet_id`, nodes | create, update, delete, UpdateNodes, import, export | shared networks, nodes | ids are not reused under a reference; nodes have the rows; a file brings a subnet back | partly: `Subnet4`, `SharedNetworks4`, `SubnetCommands4`, `SubnetFiles`, `NodeRows` |
| Shared networks (`sharednetwork4_service.go`) | arrays of subnet ids | create, update, delete | subnets (no foreign key) | subnets exist, are in one network, share a node | yes: `SharedNetworks4` |
| Command dispatch (`src/pkg/kafka`, `src/pkg/proto/dhcp-agent`) | cache of nodes | choose nodes, send, roll back | Kafka, monitor | nodes and database agree | partly: `SubnetCommands4`, `ForwardedTables`, `DhcpMessages`, `NodeRows` |
| IPv4 leases and reclaimed copies (`subnetlease4_service.go`) | `gr_subnet_lease4` | list, delete, batch delete, conversion into reservations | agent | a deleted lease is hidden until reclaimed, a live one is not | partly: `SubnetLease4`, `SubnetLease6` |
| IPv6 address plan (`pool6`, `reservedpool6`, `pdpool`, `reservedpdpool`, `reservation6`) | as IPv4, plus prefixes; capacities are decimal strings of big integers | as IPv4 | as IPv4 | as IPv4, plus the rules between prefixes and addresses | yes: `Subnet6Rows`, `Subnet6`, `Subnet6Import`, `RowLocks`, `NodeRows` |
| IPv6 subnets, leases (`subnet6`, `subnetlease6`) | as IPv4; EUI64 and address-code subnets | as IPv4 | as IPv4 | as IPv4; a subnet that generates its addresses has no rows | partly: `Subnet6`, `Subnet6Import`, `SubnetFiles`, `SubnetLease6`, `NodeRows` |
| Client classes, admission, rate limits | one table each | CRUD, import, forwarded to all nodes | subnets name client classes | nodes have the rows; a class in use is not deleted | yes: `ForwardedServices`, `ForwardedTables`, `NodeRows` |
| Address codes | codes, layouts, segments | CRUD, import | IPv6 subnets name codes | ranges of a layout's siblings are disjoint; the nodes' tree of names matches | yes: `AddressCodes`, `ForwardedTables` |
| Assets, fingerprints, OUI, pinger | one table each, system rows | CRUD, import | lease consumer adds rows | nodes have the rows; system rows are read-only | yes: `ForwardedTables`, `NodeRows`, `KafkaConsumers` |
| Global configuration (`dhcpconfig`) | one row | update | subnets take defaults | - | partly: defaults in `SubnetFiles` |
| gRPC service (`src/pkg/grpc`) | none | lookups, counts, batches | everything | what is told of an address agrees with the rows | partly: `AddressLookups4`, `Subnet4Batch`, `Subnet6` |
| REST API (`src/pkg/dhcp/api`) | none | each handler calls one service method | services | every service's requests are offered | partly: `ForwardedServices` has which |
| Agents (`agent4`, `agent6`) | none | list; `IsSentryHA` | monitor | - | `IsSentryHA` only |
| gRPC clients (`src/pkg/transport`) | connections | calls to agents, monitor, alarm | - | errors reach the caller | a call answers or fails |
| Alarm consumers (`src/pkg/alarm`) | Kafka offsets | forward packets as alarms | alarm service | no message twice; start-up ends | yes: `KafkaConsumers` |
| Scan for illegal servers (`src/pkg/dhcpclient`) | sockets, lists of servers | probe, collect, alarm | network, nodes | alarms name servers that answered and are no nodes | yes: `ServerScan` |
| Database, configuration, start-up | - | statements of several rows; order of start-up | everything | - | partly: `RowLocks`, `KafkaConsumers` |
| Pool templates | offset and capacity rows | CRUD | copied into a pool on create | - | no |
| Metrics (`src/pkg/metric`) | none | queries to Prometheus, exports | Prometheus | - | no |

The hazards, each at its line and with the properties that would catch it, are in
`PROJECT.json`. Those that come true in the code are of two kinds. Where a property
expects what happens by name (a history variable, a named condition), it is listed
with a note, and shows that no more than that goes wrong. Where a property only
leaves the case out, the hazard has no property and a note says so: the cache of
nodes, whose age is not modelled (`src/pkg/kafka/dhcp_agent_service.go:283`), batches
of reserved pools with rows in several pools, the batch deletion of reservations of
a full pool, the sweep of the copies of other subnets, an agent that does not
answer, a lease that is granted again before it is deleted, shared networks without
HA mode, prefixes that end inside of a byte, two readers that record the same row,
lifetimes whose timers wrap. Section 5 has each.

## 2. The modules

A module of rows or services has no variables and gives one operator per check and
effect; a module of a component has the state and one action per handler; `MC*`
modules instantiate it. Operators whose comment starts with "Mutant" are faulty
variants of the definition that follows; no specification uses them. History
variables, marked as such, only record what a property excludes by name.

### The IPv4 address plan

`Subnet4Rows`: the rows of one subnet and what each handler makes of them. A value
of the tables is a record `d` with the pools, the capacity of each, the reserved
pools, the reservations and the subnet's capacity. For each handler there is
`CanX(d, row)`, its checks, and `X(c, d, row)`, the rows its commit leaves, where
`d` is what it read and `c` what is in the tables when it commits. Serial modules
use `X(db, db, row)`; the concurrent one tells them apart. Addresses are the
integers `FirstIp .. LastIp`; uuids and client identities are model values.
Capacities are integers modulo `Word`, the unsigned 64-bit arithmetic of the code.
The last part states what the rows are meant to satisfy: `DisjointRows`,
`ExclusiveRows`, `ExactPools`, `ExactSubnet`. The last two compare the stored
numbers, kept by differences, with a count of addresses.

`Subnet4`: one request at a time. `db` and `leases`; one action per handler, two for
the lease consumer, the deletion of the subnet, and the server's granting and
ending of leases (external). Grants respect the rows: an address in a pool that is
not reserved for somebody else.

`AddressPlan`: the abstract specification. The same rows, but nothing is stored:
`quoted`, what the API shows, is counted anew from the rows in every state. A pool
is kept while a client holds one of its addresses other than by its own reservation,
and a subnet while a client holds any: no capacity is a reason to delete one. Under
the mapping of the rows of `db` and of the stored capacities to `quoted`, every step
of `Subnet4` is one of `AddressPlan` or one of the deletions in use that
`Subnet4!DroppedInUse` names (section 5): of a pool without a free address, of a pool
whose leased addresses are all reserved, be it for others, and of a subnet without a
free address and without reservations. "Free" is counted from the rows there, so a
stored 0 that is wrong would be seen.

`AddressLookups4`: what the gRPC service tells others of an address (type and
lease), for one address and for many, compared with the rows.

`Subnet4Batch` adds `BatchCreateReservedPool4s`, `batchCreateReservation4s`,
`BatchDeleteReservation4s` and what an imported subnet brings. They read once,
compute all changes in memory and write the sums, so they are a second
implementation of the single handlers, and the properties compare the two.

`Subnet4Concurrent`: a request is `Begin`, its reads and checks, then `Commit` or
`Abort`; an import reads the subnet before its transaction. All other reads are
taken at one moment, where READ COMMITTED lets each statement see newer rows; the
absolute write of a capacity and the checks before an insert are racy either way.
`raced` records that a commit came after the rows of its `Footprint` (the rows its
checks and values depend on) had changed; `UnracedBooksExact` says that the
footprint is the whole reason for wrong books, so it is what a handler would have
to lock.

`RowLocks`: the order in which services lock the rows of a subnet and its pools,
both stacks. A request is a program of locks (`Requests`), taken one by one with
PostgreSQL's conflicts and cascades (external); the detector ends one transaction
of a cycle, and no service retries.

### IPv6

`Subnet6Rows`, `Subnet6`: as IPv4 with five kinds of rows. Pools need a mask at
`Limit` (64) or longer, prefix pools one below it. A row is named by its range.
Capacities are unbounded integers and may be negative. A delegated prefix is its
first address with the bits it leaves; `TwoTo` are the powers of two the code makes
by shifts, and `ByteBits` is the width of a byte, by which
`getPdPoolEndPrefix` fills a prefix. `skewed` records pools that one of the
shortcuts of the handlers has touched: a pool at capacity 0 is passed over; a
prefix is counted in the first pool it meets and given back to another; a
difference is written without a pool. Everything else keeps the books exact.

`Subnet6Import`: what the line of an exported subnet6 makes when it is imported.

### Files

`SubnetFiles`: the settings of a subnet on their way from its row to a line of an
Excel file (cells by position), back through the header (cells by name), the
defaults of the global configuration, validation, and an insert by position. The
order of the columns, of the cells and of the insert's values are three lists in
the code; `FilesReturnSettings` says they agree.

### Nodes

`SubnetCommands4`: one subnet, its rows (pools, reserved pools or reservations: they
are sent alike) and what each node is configured with. A request sends to one node
per step; `Fail` stops it at any of them, and the rollback reaches some of the nodes
it names. It names them by hostname and looks them up by address, so `HostnameOf`
decides which it can reach. `UpdateNodes` is split as the code is: read, row lock,
deletes, read of the rows, creates, commit.

`ForwardedServices`, `ForwardedTables`: the tables whose rows go to every
node. The first describes each service by the decisions that tell them apart
(does an update that affects no row fail, is an unchanged value sent, do commands
name the key or the value, may rows be deleted in batches, ...); the second runs
two overlapping requests on any of them: read, write under the row lock, send,
commit, with failing sends and a stopping process.

`DhcpMessages`, `NodeRows`: the fields of each command, and for each table which
columns an update takes from its body, which from the database, which it writes and
which it sends. A row goes through create, updates and re-creation on another
node, with all of its columns.

`AddressCodes`: codes, layouts and segments. Rows refer to parents by id, nodes keep
a tree of names. A request reads the rows that its URL names and makes its checks on
them (`BeginCode`, `BeginLayout`, `BeginSegment`); later it writes, sends the path it
has read and commits, in the action named after it. In between other requests may
finish, since the reads take no lock. A URL names a code, a layout and a segment
that need not belong together. What a node makes of a command (`Planted`, `Cut`,
`Renamed`) is external. `astray` records that a request finished on rows other than
those it had read, or that its URL had mixed up. Ids are new while anything in flight
mentions them, as those of the code are for good.

### Leases

`SubnetLease4`: a list is a transaction that reads copies, a gRPC call, and a
transaction that removes copies; a deletion is one transaction with two gRPC calls.
Each is split there and workers interleave. An *epoch* stands for a lease's
expiration time, which a renewal changes: `SubnetLease4.Equal` compares it.

`SubnetLease6`: the same for subnet6s, whose leases are deleted by type, and the
conversion of leases of both stacks into reservations: a page offers leases, they
end or change hands, and the conversion reads them anew, makes reservations and
sends commands subnet by subnet, and commits once. Of each subnet it first reads and
compares the reservations (`ConvertCheck`), then writes the subnet's row and sends
(`ConvertSubnet`); so two conversions can both pass the check, and only the row lock
(`Locked`) keeps the second from sending before the first has ended. A command that
fails may have reached the nodes or not, and the rollback, which is given hostnames
and looks nodes up by address, may undo it or not (`ConvertSendFails`): it then also
undoes what another conversion has committed. The commit may fail after the last
command (`CommitFails`), and the process may stop (`Stop`). The nodes of a subnet are
shown as one.

### Shared networks

`SharedNetworks4`: a shared network is validated in one transaction and inserted in
another. Requests are split between checks and commit; `raced` records a commit
whose checks no longer hold. `getIntersectionNodes` calls `Union` of an external set
type; the model takes either reading of it, and takes an empty result for nil,
which is what the code tests.

### Consumers and scan

`KafkaConsumers`: one reader per topic. `ReadMessage` is `Fetch`, then `CommitOffset`
(which may fail with or without the broker having it); then a lease goes through
the tables of fingerprints and OUIs (`Look`, `Insert` with the messages to nodes,
`CommitRow`) and `Reserve`; a packet raises an alarm. Between `Start` and
`BecomeReady` the alarm service is a nil pointer, and a packet stops the process
(`RaiseTooEarly`).

`ServerScan`: the ticker, the exchanges of each client in turn, the goroutine of a
`Client4` that outlives its exchange and shares a list with it, the socket of a
`Client6` that keeps late answers, the two sources of node addresses, the alarms. A
`Client6` compares the transaction of what it reads only if it is a plain message
(`Read6`); a relay message of any time is an answer to it (`ReadRelay6`), and the
history `relayed` has the servers that sent one. `Overrun` is a packet that stops the
process.

## 3. The runs

All runs pass.

| run | module | properties | shows |
|---|---|---|---|
| `Subnet4` | `MCSubnet4` | `TypeOK`, `PoolsDisjoint`, `ReservedExclusive`, `PoolCapacityExact`, `SubnetCapacityExact`, `LookupsMatchBooks`, `ImplementsAddressPlan` | serial requests keep the books; the abstract plan is implemented but for the deletions in use that are named; lookups agree with the rows |
| `Batches` | `MCSubnet4Batch` | `BatchesMatchSingles`, `ExportedSubnetImports`, `FilesReturnSettings` | a batch gives what the same requests give one by one; an exported subnet comes back with its settings and capacities |
| `Concurrent` | `MCSubnet4Concurrent` | `UnracedBooksExact` | overlapping requests whose footprint is unchanged at commit keep the books exact |
| `RowLocks` | `RowLocks` | `DeadlockIsOfTwoOrders`, `NoOrphans`, `EveryRequestEnds` | which requests deadlock, that no pool outlives its subnet, that requests end |
| `Subnet6` | `MCSubnet6` | `UnskewedBooksExact`, `RangesApart`, `GeneratedHasNoRows`, `LeasedRowIsKept`, `ExportedSubnet6Imports` | IPv6 books are exact but for the named shortcuts and always add up; ranges exclude each other; leased rows are kept |
| `SubnetCommands` | `MCSubnetCommands4` | `NodesInStep`, `StraightTreeMatches` | only failures, rollbacks and races of UpdateNodes put a node out of step; the tree of address codes on the nodes is that of the rows, layouts share no bits and segments fit, unless a request finished on rows that had changed |
| `Tables` | `MCForwardedTables` | `NodeInStep`, `UsedRowsExist`, `RowLocksOrderCommands`, `NodeShowsRow`, `TimersInOrder` | nodes have the rows of every forwarded table unless a named event came between; messages carry what the rows say |
| `Leases` | `MCSubnetLease4` | `HiddenWasDeleted`, `ComparedCopyKept` | with two workers and unreachable agents, no live lease is hidden and no compared copy is lost |
| `Leases6` | `MCSubnetLease6` | `HiddenWasDeleted6`, `ConvertedWasLeased`, `NodesHaveConverted` | the same for IPv6; conversions take only leases their clients held meanwhile; nodes have what is committed, unless a command that named it belonged to a transaction that failed |
| `SharedNetworks` | `MCSharedNetworks4` | `UnracedNetworks` | the checks suffice in HA mode when they still hold at commit |
| `Consumers` | `MCKafkaConsumers` | `EachMessageOnce`, `UndisturbedTopicIsHandled`, `NodesKnowRows`, `RecordedOnce`, `EveryMessageIsFinished` | messages are lost but never handled twice, nodes know what is recorded, and each message is done with |
| `Scan` | `MCServerScan` | `AlarmedServerAnswered`, `NodesRaiseNoAlarm`, `ScansEnd` | alarms name servers that answered this scan, or sent a relay message, and are no known nodes; scans and readers end |

Every module states its types in `TypeOK`; it is checked in `Subnet4` and proved
there, and of `Subnet6` (`Subnet6Typed`). For every property `PROJECT.json` names a faulty variant of a definition
under which the same run finds it violated.

`MCSubnetCommands4` holds two modules side by side, `SubnetCommands4` and
`AddressCodes`, and so does `MCForwardedTables`, with `ForwardedTables` and `NodeRows`:
`part`, chosen in the initial state, says of which a behaviour is, and the other rests.

### Bounds

* `Subnet4`: four addresses allow every way two ranges can lie (before, touching,
  overlapping, inside, equal) with room beside them; two ids per table allow two
  rows of each kind. `Word` = 16 exceeds every sum, and the proofs ask only for
  that. `MaxLeases` = 1: leases only matter to the guards of deletions.
* `Batches`: three addresses, three ids, three clients, batches of one or two rows;
  the second row of a batch sees or misses what the first did. No leases: they are
  the matter of `Subnet4`. `Exact` stops at states whose books a batch has broken.
* `Concurrent`: two requests at a time, of any kinds, on two addresses: a race
  needs two. `Unraced` stops after a race, where nothing is claimed.
* `RowLocks`: three workers, as a cycle of three needs two rows that two of them
  hold, and two pools; both versions.
* `Subnet6`: addresses 1..3; one mask below the limit of 4 and one at it, so that one
  subnet has prefixes and one both kinds of pools; bytes of two bits, so that a
  prefix can end inside of one; at most three rows, two items of a batch and a
  lease. A skewed capacity would drift for ever and is followed from -1 to 5.
* `SubnetCommands`: two sentries and a server, of which one sentry is named by its
  address and so can be rolled back; two rows, two workers. Two address codes,
  layouts and segments with two names and labels, so that a row can be deleted and
  another take its name; three ranges, of which two share bits and the third is
  apart from both, with two, four and no bits for the first digit of a code of two
  digits; two requests at a time, as a mishap needs two. `Unraced` stops after a race
  or mishap of either part.
* `Tables`: of the services six that differ in their decisions (`Kinds`); two keys (one of a system row), three values and two workers, so that a
  third value can be committed between a read and a write; `Word` = 64 values of a
  lifetime, in which two products wrap differently.
  `FirstMishap` follows a behaviour up to its first recorded mishap.
* `Leases`: two subnets of an address each, two workers, two epochs per address,
  so a lease can be deleted, reclaimed and granted anew, or renewed, under a list.
* `Leases6`: an IPv4 address, an IPv6 address and a prefix, two clients, two epochs;
  two workers of three requests in total, of which one is the page, so that two
  conversions of the same offer overlap.
* `SharedNetworks`: three subnets, two networks, two nodes, two workers, HA mode.
* `Consumers`: two readers of leases, which race, and one of packets; two messages
  over all topics and two stops.
* `Scan`: an IPv4 and an IPv6 client, three servers (a node known to one source
  each, and one that is none) and two scans, so that answers can be late; three
  answers (`MaxAnswers`), so that one server can answer late and in time. Relay
  messages are not counted.

Where a run has `CHECK_DEADLOCK FALSE`, a bound on messages, requests, scans or rows
lets the system stop.

### Fairness

* `KafkaConsumers`: weak fairness of `Start` and `BecomeReady` (the process is started
  again and start-up ends), of `Fetch` (a broker that has a message gives it) and of
  `Work` of each reader as a whole: its goroutine runs, and PostgreSQL and Kafka
  answer, be it with an error. Success is never assumed, nor that anybody publishes.
* `RowLocks`: strong fairness of `Acquire`, as PostgreSQL queues those who wait for a
  row and serves them in turn; weak fairness of the end of a transaction, by commit
  or rollback, and of the deadlock detector. `EveryRequestEnds` leaves out a deletion
  of a subnet that holds nothing yet: insertions share a lock and may keep it
  waiting as long as they come.
* `ServerScan`: weak fairness of each reader's own steps and of the scan's `Proceed`
  (timers fire, a goroutine runs, a call returns). No answer is assumed to come and
  no failure to happen or not.

The other specifications have none. Nothing in the code repeats a failed command or
a failed request, so nothing is guaranteed to happen beyond the end of a request.

## 4. The proofs

Each `*_proofs` module extends the module it is about, states the invariant `IInv`
that is inductive, shows that the initial states satisfy it and that each action
keeps it (a lemma per action), and derives the properties. All constants are
arbitrary; the assumptions are the named `ASSUME`s of the modules, which TLC
evaluates on the instances it checks.

| module | theorems | about |
|---|---|---|
| `Subnet4_proofs` | `TypeCorrect`, `PoolsStayDisjoint`, `ReservedStaysExclusive`, `PoolCapacityStaysExact`, `SubnetCapacityStaysExact`, `PlanIsImplemented`, `LookupsAgree` | the books of one subnet, request by request; the stored capacities implement the counted ones; lookups agree with them |
| | `UnracedBooksStayExact` | the same for requests that overlap |
| | `BatchInvariant`, `ExportedSubnetsImport`, `BatchesDoMatchSingles` | batches and imports: what they keep, what comes back from a file, and that they do what single requests do |
| `Subnets_proofs` | `RangesStayApart`, `GeneratedStaysEmpty`, `LeasedRowsAreKept` | the rows of a subnet6: which exclude each other, and which are deleted |
| | `BooksStayExact`, `ExportedSubnet6sImport` | the books of a subnet6, and the line that is exported of it |
| | `UnracedNetworksStayInOrder` | shared networks in HA mode |
| `SubnetCommands4_proofs` | `NodesStayInStep` | which rows the nodes of a subnet have |
| | `StraightTreesMatch` | the tree of address codes that the nodes have |
| `ForwardedTables_proofs` | `NodesFollowRows`, `LocksOrderCommands`, `UsedRowsStay` | the tables forwarded to nodes, and what subnets name of them |
| | `NodesShowRows`, `TimersStayInOrder` | what nodes are told of a row, column by column |
| `Background_proofs` | `MessagesAreHandledOnce`, `NodesAlwaysKnowRows`, `RowsAreRecordedOnce`, `UndisturbedTopicsAreHandled` | readers that race, fail, panic and are stopped |
| | `AlarmsNameAnswers`, `NodesAreNotAccused` | whom the scan's alarms name |
| `RowLocks_proofs` | `NoPoolOutlivesItsSubnet`, `DeadlocksAreOfTwoOrders` | deletions of subnets among other requests; which requests deadlock |
| `SubnetLease4_proofs` | `HiddenLeasesWereDeleted`, `ComparedCopiesAreKept` | copies of deleted leases |
| `SubnetLease6_proofs` | `HiddenLeases6WereDeleted`, `ConvertedLeasesWereHeld`, `ConversionsReachNodes` | copies of both stacks, and conversions of leases to reservations |

Five modules prove about several specifications each: `Subnet4_proofs` about
`Subnet4`, `Subnet4Concurrent` and `Subnet4Batch`, which share the handlers of
`Subnet4Rows`, `Subnets_proofs` about `Subnet6`, with its import, and
`SharedNetworks4`, `SubnetCommands4_proofs` about `SubnetCommands4` and
`AddressCodes`, `ForwardedTables_proofs` about `ForwardedTables` and `NodeRows`, and
`Background_proofs` about `KafkaConsumers` and `ServerScan`. All but the first of
each have names of their own (`ConcurrentSpec`, `BatchSpec`, `NetworksSpec`,
`TreeSpec`, `RowsSpec`, `ScanSpec`), so that one module extends all.

### The address plan

The first part of `Subnet4_proofs` is for every address range, every set of ids and clients, every
bound on leases and every `Word` larger than twice the number of addresses. The
invariant of `Subnet4` is

    IInv == TypeOK /\ PoolsDisjoint /\ ReservedExclusive
                   /\ PoolCapacityExact /\ SubnetCapacityExact

The five are inductive only together. The capacities stay exact because the
addresses a handler counts are disjoint: a reserved pool takes
`Ips(p) \cap Ips(r)` from each pool, which is a partition of what becomes unfree
only if pools are disjoint and nothing in the range was reserved before; that is
`ReservedExclusive`. The argument goes:

1. Cardinality lemmas on ranges: `ReservedCountShared` (the code's min/max
   arithmetic counts the common addresses of overlapping ranges), and lemmas on
   differences and disjoint unions of sets of addresses.
2. For each handler, one lemma that it keeps the rows' type and exclusion, and
   one on the capacities: the free addresses of each pool change by exactly the
   stored difference.
3. `Plus` and `Minus` do not wrap, as both sides are at most the number of
   addresses.
4. `Invariant`: one step per action, then temporal logic.

`PlanIsImplemented` uses this invariant: before and after a step the stored numbers
are the counted ones, so `quoted` changes exactly when rows do; what is left is
that each handler makes the rows its abstract counterpart makes. The guards on
deletions are the only place where the two differ (`DroppedInUse`), and there an
exact capacity 0 means that the pool has no address to give (`DeletionIsSafe`), so
the deletion is one of those named. `LookupsAgree` needs besides that the
set of leases is finite, as a count of 0 is then an empty set.

### Overlapping requests

The second part of `Subnet4_proofs` shows that the footprint of a request is all that its
checks and values depend on: if it is at the commit what it was at the read, then
the checks hold of the rows committed since, and the rows written are those that
the handler would write if it read only now. So an unraced commit is a step of the
serial handler, and the lemmas about handlers apply as they are. An import
skips pools of capacity 0, which is right because in exact books a pool that holds an
address nobody has reserved has a capacity. Nothing is needed of what other requests
have read.

### Batches, imports and exports

Batches do not keep the books exact (section 5), so the third part of `Subnet4_proofs`
rests on what is left:

    BatchIInv == RowsInOrder(db) /\ CapacitiesTyped(db)

Rows have their types, pools share no address and what is reserved is reserved once,
because each batch and each import compares its rows with one another and with those
there are; capacities are numbers below `Word`, whatever has been added or taken.
`BatchAssumption` says that there are finitely many uuids, by which an import numbers
its rows.

`ExportedSubnetsImport`: of rows in order the line passes every check of the import
(`LineIsAccepted`), no two of its rows fall on one (`LineReturns`), and what the import
adds up are the sizes of sets. `MapThenSumSet` is a fold over a set that chooses an
element each time; it is shown to be the function on subsets that satisfies its
recursion, and that to be the size of a union (`TogetherSplits`, `ReservedSum`,
`PoolSum`). If the books were exact these are the stored capacities, pool by pool
(`SizesReturn`) and in sum (`CapacityReturns`).

`BatchesDoMatchSingles` compares closed forms. A request for one reservation changes
the capacity of each pool by `Hit` and that of the subnet by `Missed` (`CreatedIs`,
`DeletedIs`); a batch changes them by the number of its rows for which these are 1
(`BatchIs`), and modulo `Word` two differences of one are a difference of two
(`TwiceCreated`, `TwiceDeleted`). The fold that makes one request after the other
takes them in either order (`CreatedInTurn`, `DeletedInTurn`); the batch is a function
of their set, so the order does not matter. A pool that is passed over for its
capacity 0 would break this. Exact books rule it out for creations (`ExactIsOpen`), and
the property excludes it for deletions.

### The rows of a subnet6

The first part of `Subnets_proofs` assumes no more of a subnet than that a mask is a
natural number, that an address has a whole number of bytes and that a subnet has
finitely many of them (`Subnet6Assumption`, `Rows6Assumption`). The invariant is

    Subnet6IInv == IsRecord(db) /\ db.mask \in Masks /\ RangesApart /\ GeneratedHasNoRows

where `IsRecord` says no more of `db` than which columns it has: nothing is assumed
of capacities, so both properties hold however wrong these are. That is what
`GeneratedHasNoRows` is about. `HasPools` may be spared counting rows by a
capacity, but it is never misled into finding none. Handlers that write a row
and handlers that then correct capacities compose (`SameRows`), so each of the twelve
needs only its checks. For a reservation these compare its prefixes with those of
others by `Meets`, and the invariant by equality; `MeetsItself` is the step between.

`LeasedRowsAreKept` is arithmetic. The prefixes that a pdpool delegates are
numbers of blocks, and the range for which leases are asked is made by filling bytes.
`BlocksInRange` shows that the range holds the address of every block if the
pdpool's own prefix ends with a byte, or is itself what it delegates. It needs of
powers of two that they add their exponents and grow (`TwoToSum`, `TwoToGrows`),
by induction, in which a set of numbers takes the place of a predicate (`Induction`,
from `LeastNumber`).

### The books of a subnet6

    BooksIInv == Subnet6IInv /\ Books(db, skewed)

`Books` says of `db` what `UnskewedBooksExact` says, in terms that the handlers keep:
a pool outside of `skewed` has as many addresses left as are not in `Taken`, a pdpool
as many prefixes as are in `FreeBlocks`, and what the subnet counts `Besides` its
rows is the `Total` of its reservations. The argument goes:

1. Sums. `SumFunctionOnSet` is a fold that chooses an element, so its value is first
   shown to be what a function on all subsets gives that satisfies the recursion
   (`SumExists`, `SumIs`, by `SetInduction`: the subsets that are smaller by one element
   come first). What is needed of sums then follows by the same induction: they add,
   they do not depend on the order (`SumAny`), and the sum of the sizes of disjoint
   sets is the size of their union (`SumSizes`).
2. Arithmetic. `SharedIps`: the code's min and max count the common addresses.
   `MetBlocksCount`: a prefix takes as many blocks of a pdpool it meets as the code
   says, in each of the three cases of lengths. `LeftExact`: the loop over reserved
   prefixes, which ends early at 0 and in an order nobody fixes, takes off their sum as
   long as they fit in; they do unless the pdpool is `Crowded` (`BlocksAreTaken`).
3. Writes. Each way in which handlers correct capacities (`WithReservedPool`,
   `WithReservedPdPool`, `WithReservedIps`, `WithReservedPrefixes`, a row added or
   removed) takes from the subnet what it takes from its rows: `SharesAdded`,
   `RowAdded`, `RowRemoved`, `ReservationsCounts`. They hold of any capacities, which
   is why the sum is right even where a row has been skewed.
4. Handlers. Each takes from a row exactly what its checks show was free
   until then (`Pool6CreateBooks` to `ReleaseBooks`). A pool at capacity 0 is passed over
   when addresses are reserved: in exact books it has none of them. On release that is
   no longer so, hence `PassedOver`.

`ExportedSubnet6sImport` rests on `ImportIInv == BooksIInv /\ Ordinary(db, skewed)`:
address pools only under a mask as long as `Limit`, every reservation's prefixes apart,
no pdpool outside of `skewed` crowded, and the fixed capacity of a subnet that
generates its addresses. The checks of the import then follow from `RangesApart` and
`Ordinary` (`LineIsAccepted`). The capacities it counts are those of
`recalculatePool6Capacity` and `LeftExact` again; without the reserved prefix pools,
which are not in the file, only for pdpools that meet none.

### Shared networks

The last part of `Subnets_proofs`: existence, exclusion and a common node are inductive
together once the race is excluded. A subnet in a network has nodes, since it shares
one; so in HA mode its nodes are neither replaced nor taken. Validation takes any
two subnets and either reading of `Union`, and each node of what it finds serves all.

### Commands to the nodes of a subnet

`SubnetCommands4_proofs`. What a node has (`AsTold`) is the committed rows, with
those that requests under way have told it (`Kept`) and without those they have told
it to forget; a change of nodes has emptied the nodes it drops and filled those it
makes. That is inductive only with what a request knows: whom it has told and whom
it has still to tell (`RequestsArePlanned`), that a row being created is not
committed and one being deleted is, one request to a row (`RowsAreOwned`,
`OneRequestPerRow`), one change of nodes at a time (`OneChange`), and that the nodes
it has read are those that serve the subnet (`NodesAreCurrent`), which only a race
breaks. A commit then makes the truth of what the nodes were told; a rollback takes
it back from those it reaches and leaves the others in `suspect`. The proof needs
that nodes of different addresses have different hostnames, which is what a command
names them by, and that a subnet is not a row; `CommandsAssumption` says both.

### The tree of address codes

The second half of `SubnetCommands4_proofs` is for any codes, layouts, segments and
requests at a time, and for any ranges and codes that `Validate` of a layout and the
alphabet of digits admit (`CodesAssumption`). The invariant `TreeInv` adds to
`StraightTreeMatches`, of the rows, that each has its parent and that names, labels
and codes are unique among siblings. Of the requests in flight it adds what they may
still rely on when they finish: no other request mentions the layout that one is
about to insert (`NewLayoutsAreNew`), its range is apart from those of the layouts it
has compared it with, as long as they are there (`NewLayoutsLieApart`), and the
codes it has validated fit (`NewCodesAreValid`), since the bits of a layout never
change. The argument goes:

1. Paths. `ThroughCode`, `ThroughLayout`, `ThroughSegment` say which paths lead through
   which. `TreeGrows`, `TreeShrinks` and `TreeMoves` then reduce a step to how the paths
   of single rows change.
2. Rows. For each kind of request, a lemma that the paths of the rows it writes change
   the tree of rows by just what its command does to a node's (`CreatedCodeInTree` to
   `UpdatedSegmentInTree`), if the names it sends are those the rows have. Unique
   names are needed here: a command that renames or cuts a path must not reach another
   row's.
3. Requests. A request that has not slipped sends the names the rows have
   (`StraightRead`, `LayoutRead`, `SegmentRead`). It has also compared a new layout
   with all there are, so ranges stay apart; if one was inserted meanwhile, the
   layouts read have changed and the request goes astray.
4. `ValidCodesFit` is arithmetic: the code's formula for the number of digits leaves
   just the bits that `FirstDigit` bounds.

### Forwarded tables

`ForwardedTables_proofs` is for each of the services in `Services`. From the write of a
request to its commit the rows it has written are locked, so at most one command
about a row is on its way. `LocksHold`: what is locked is what the request has
written, and it is as the request read it, unless another one has changed it between
(`stale`). `NodeFollows`: a node has of each key what is committed, or what the
request whose command it has executed is about to commit. `LocksOrderCommands` is
the same invariant with the keys in `stale` no longer excused (`Excused`): a service
that lets the affected rows decide has locked every row of a request, and one that
always sends does not compare with what it has read. `OrderedServices` shows from
their tables which services these are, and that none of them names rows by another
key than it locks. `UsesAreKept`: a row named by a subnet, or that a subnet is about
to name, is there, and a deletion has looked for neither after it was named, or the
two have overlapped.

### The columns of a row

The second part of `ForwardedTables_proofs` is about `NodeRows`. `Coherent` says of a
table how its columns go together. A deletion names a copy by fields that it was made
with. An update sends what a creation does, or nothing at all; it sends whenever it
writes a column that is sent; and it names the copy by columns it does not write, or
by the stored row. `TablesCohere` shows this of each of the 24 tables. The rest uses
nothing else of a table: a copy was made of some row (`RowsIInv`), an update that has
misled nobody makes of it the one the new row would give (`UpdateKeeps`), and a
deletion finds it (`CopyIsNamed`). A table for which one of these fails, as
`DiffWithoutModel` does, has no such proof.

`TimersStayInOrder` holds of any copy, also of one that misleads: its timers are made
of one lifetime (`TimedBy`). `Word` is any positive number (`WordAssumption`), so the
theorem covers the 32 bits of the code, which TLC cannot enumerate.

### The consumers

The parts of the invariant of `KafkaConsumers` need each other only for the
types. `InPlace` and `EachMessageOnce`: what a reader has in hand it has
committed, and after a stop it resumes no earlier; the offsets handled grow.
`SentIsKnown`: the nodes know each row whose transaction is between its messages
and its commit, because that row's key keeps others from inserting it.
`LookedTogether`: a reader that has looked and not found, and another that inserts
the same key meanwhile, are recorded as having looked together.
`UndisturbedIsSmooth`: a reader nothing failed for has handled exactly the messages
before its offset, and the reservation is what they say.

### Row locks

No pool outlives its subnet because of what `FOR KEY SHARE` of a foreign key keeps
out. The invariant says who holds what: `IdleIsFree`, `Compatible` (no two hold
conflicting locks), `HeldExists` (a locked row is there), `CreatorShares` (who has
inserted a pool shares its subnet's row), `DeletionCascades` (who has deleted the
subnet holds, or is to take next, all of its pools). A deletion that commits then
sees every pool that was inserted.

A deadlock needs one request of each order, however many take part. The invariant
says how far into its program a worker is (`Phases`). One that holds something and
waits either shares the subnet and is to update it, or has written a pool and is to
lock the subnet, or has written the subnet and is to lock pools. `FindsNothing` is
for a request whose subnet was gone when it came to it: `NoOrphans` says that its
pools are gone too, and `Fresh` that they stay so after the subnet is created again,
so it waits for nobody. `WaitsInTheEnd` is the least closed set, so a cycle needs no
length: who is in one waits at once for another in one (`CycleGoesOn`). The first two
kinds can only wait for the third, and the third, as no two hold the subnet at once,
only for the second.

### The scan

`ReaderIsHonest`: the reader of the present exchange was started for it, and what it
has appended, or is appending, answered it; readers left over from others have lists
of their own. A `Client6` passes over what is left of earlier exchanges by its
transaction id, but for relay messages. `AllAnswered`, `FoundInScan`: what is found,
illegal or alarmed answered this scan or is in `relayed`, and nothing found is carried
into the next.
`IllegalAreForeign`: if both sources of nodes were asked, nothing found is a node.

### Leases

The argument is about epochs. A copy is of a lease the address once had (`Past`),
and if it is of the present one then the server was told to delete it (`Copied`).
Requests know such copies (`JobsKnow`). An epoch that has passed never returns, so a
copy that was made of one lease while the server deleted the next does no harm, and
steps of the server, of other requests and of time keep all of this (`Onward`).
`ComparedCopyKept` is a step property: a list retains a copy it has compared if the
lease has its epoch, and no step but the sweep ends a list.

`SubnetLease6_proofs` carries this over to the leases of both stacks, where `unsent`
holds what was deleted along with another type. A conversion has seen
(`ConversionsSee`) at each of its steps what it claims of leases that are still as
the page showed them, and what it is about to reserve. A lease that ends meanwhile,
or another client's, removes a claim but never makes one.

`NodesFollow` has three parts: what is committed and not in `apart` is on the nodes;
so is what a conversion under way has sent (`Tells`), whatever is in `apart`; and
nothing else is, but what is in `apart`. The second makes the first inductive: a
commit takes its reservations out of `apart` again, and it may, because what it has
sent is still there. It is kept since the only steps that take something from the
nodes are commands that fail (`SendFailsKeeps`), and those need the row of a subnet
that the other conversion has locked. `GivenUp` is the end of a conversion without a
commit, in whatever way: all that its commands named goes to `apart`.

### What is only model-checked

* Liveness (`EveryMessageIsFinished`, `EveryRequestEnds`, `ScansEnd`) and ENABLED are
  beyond the prover.
* `FilesReturnSettings`: of the columns it states facts about fixed lists, which TLC
  evaluates for good; of a cell with several lines, what folds over sequences of any
  length return, which would need an induction over data.

## 5. What the code does other than its documents say

The models reproduce each of these, and a property that would fail because of one
excludes it by a named condition, so that a new cause would be seen. They have no
runs of their own. "cement" is `src/doc/design/dhcp/dhcp_cement.md`; lines of Go
files are of `service/` unless a directory is named.

Leases and deletions

* A pool, or a subnet, at capacity 0 is deleted without asking for its leases
  (`pool4_service.go:321`, `subnet4_service.go:475`); cement 843 says a leased pool
  is not deleted. All of its addresses may be reserved, and one of them leased to the
  client it is reserved for, or since before.
* A lease is not counted against the deletion of its pool if its address is reserved
  (`pool4_service.go:349`), also when it was reserved after it was leased, for another
  client. `DroppedInUse` names this and the one before; `AddressPlan` has neither.
* For a delegated prefix that ends inside of a byte the last prefix of a pdpool is
  computed too short, and its leases are not found (`resource/pdpool.go:118`;
  cement 1620). `LeasedRowIsKept` excludes those leases.
* A list of one subnet removes the copies of every other (`subnetlease4_service.go:383`),
  and those of a deletion that commits before its sweep; cement 1044 says a copy
  goes when the server has reclaimed its lease. `ComparedCopyKept` is what remains
  true: copies the list has read and compared.
* When no agent answers, deleting a lease succeeds and does nothing
  (`subnetlease4_service.go:403`).
* Deleting IPv6 leases of two types tells the server of one type and returns
  (`subnetlease6_service.go:513`). `HiddenWasDeleted6` excludes those.

Books

* A batch of reserved pools sets each row against every pool of the subnet
  (`reservedpool4_service.go:403`), where a single creation takes only the pools that
  the row overlaps: for another pool the count of common addresses is negative and
  wraps. Each row computes the capacity of a pool from the one that was read, so the
  last one alone counts (cement 1741). Nothing is claimed of books that such a batch
  has broken.
* A batch deletion of reservations gives nothing back to a pool whose stored
  capacity is 0 (`reservation4_service.go:555`), also if it is 0 because of the
  reservations deleted. The same shortcut for pool6s; prefixes are given back to
  another pool than they were taken from (`reservation6_service.go:303`).
* Overlapping requests lose each other's capacity (cement 1742), make pools that
  intersect (`pool4_service.go:33`; cement 842) or reserve an address twice (cement
  906, 984). `UnracedBooksExact` names when.
* An import of reservations writes the capacity of the subnet it read before its
  transaction even if no row of the file is taken.

Subnets, networks and nodes

* `UpdateNodes` moves a subnet of a shared network to other nodes
  (`subnet4_service.go:1480`; cement 770). Overlapping requests put a subnet into two
  networks (cement 769) or delete one that a network uses (cement 650).
* An update of a client class sends a name and a code that it does not write; an
  update of a fingerprint sends the body's, so that a later deletion does not name
  what nodes have. `NodeShowsRow` and `NodeInStep` name the columns.
* A conversion that fails, or whose commit does, after a command was sent leaves its
  reservations on the nodes (`reservation4_service.go:873`): the rollback of a command
  looks nodes up by address and is given their hostnames (`reservation4_service.go:597`,
  `src/pkg/kafka/dhcp_agent_service.go:207`), and a node that is not found makes it
  none at all (209). Where the two names are equal it also deletes, on the nodes, a
  reservation that another conversion has committed since the check. `apart` has the
  reservations of both.
* The times of renewal and rebinding wrap for long lifetimes (`subnet4_service.go:132`).
* Reading a layout that cannot be found is a nil dereference
  (`addresscodelayout_service.go:137`), and the code of a URL need not be that of the
  layout it is used with.

Scan

* A relay message is an answer whatever transaction it belongs to, also one that is
  late or that nobody asked for (`src/pkg/dhcpclient/client6.go:74`), so a server may
  be alarmed that is gone. `AlarmedServerAnswered` names those servers (`relayed`).
* A packet whose UDP header gives a length beyond the buffer stops the process
  (`src/pkg/dhcpclient/client4.go:118`), as does a list read while it is appended to
  (131).
* The address of an IPv6 server is the one its packet came from (`client6.go:86`),
  which may be a link-local one that no source of nodes lists: then a node is alarmed.
  `NodesRaiseNoAlarm` is about addresses that are listed.

Files

* A preferred lifetime takes its default only if another lifetime is missing; rapid
  commit is not exported; an empty strategy is exported as "or". REST takes any IPv4
  address as a subnet mask (`resource/subnet4.go:206`), an import asks for a mask. A
  text with a newline makes a line that cannot be imported.
* Files of reservations leave out prefixes, reserved pdpools are not exported, and
  the column of a value must come after that of its flag. The file of rows that
  failed leaves out the columns of pools.
* gRPC lookups of many addresses fill their slices by value and find no reserved
  pools (`src/pkg/grpc/service/dhcp_service.go:430`): types and leases are left out.
  `LookupsMatchBooks` says that what they do return is right.

## 6. Not modelled

* Pool templates: rows without relations; a pool copies a template's offsets and is a
  pool like any other. Metrics: queries to Prometheus. Generated stubs (`*.pb.go`) but
  for the fields of the messages sent to nodes.
* The choice of one node behind a virtual address, and the age of the cache of nodes.
* The ids an import gives to several subnets at once; ids of subnet6s.
* `UpdateNodes` of a subnet6, which is that of IPv4, and gRPC lookups of IPv6 addresses.
* The update of the global configuration, the reads `CouldBeCreated` and
  `ListWithSubnets`, the statistics of leases by fingerprint, the conversion of
  rows and leases into messages of the gRPC service, the presentation of lists, the
  reading of the configuration and the opening of the database.
* In `SubnetLease6`, leases of the other stack are not compared with copies, leases
  of prefixes are not seen as reserved when converted (as in the code), and lists of
  a single address are in `SubnetLease4` only.

## 7. Plan

Done: the IPv4 plan, its batches, concurrency, locks, abstract specification and
proofs; IPv6; files; nodes and forwarded tables; address codes; leases and their
conversion; shared networks; consumers; the scan.

Left, in order of importance:

1. The choice of nodes behind virtual addresses, with the cache of nodes and its age.
2. The import of several subnets at once with the ids it allocates.
3. `UpdateNodes` for a subnet6 in `SubnetCommands4`.
