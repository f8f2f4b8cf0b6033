---------------------------- MODULE SubnetLease4 ----------------------------
(***************************************************************************)
(* Listing and deleting the leases of subnets.  A DHCP server reclaims a   *)
(* deleted lease some time after it is told to, and reports it until then. *)
(* So SubnetLease4Service keeps a copy of every lease it has deleted in    *)
(* gr_subnet_lease4, under the address as primary key, hides the leases    *)
(* that equal a copy from lists, and removes copies while listing.         *)
(*                                                                         *)
(* A list is a transaction that reads the copies, a gRPC call that reads   *)
(* the leases, and a transaction that removes copies; a deletion is one    *)
(* transaction with two gRPC calls inside.  The server, and the moment it  *)
(* reclaims a lease, are external.                                         *)
(***************************************************************************)
EXTENDS Naturals, FiniteSets

CONSTANTS
    Addresses, SubnetOf,  \* addresses, and the subnet of each
    Clients,
    MaxEpoch,             \* bounds the leases and renewals of an address
    Workers,              \* requests served at a time
    Unreachable,          \* whether the gRPC calls to the agent may fail
    Filters               \* the lists made: all of a subnet, one address, or
                          \* only leases in state NORMAL

ASSUME LeaseAssumption ==
    /\ MaxEpoch \in Nat
    /\ Unreachable \in BOOLEAN
    /\ Filters \subseteq {"all", "ip", "normal"}

Subnets == {SubnetOf[a] : a \in Addresses}

None == [epoch |-> 0]

\* An epoch stands for the expiration time, which a renewal changes.
Lease == [client: Clients, epoch: 1 .. MaxEpoch, normal: BOOLEAN]

VARIABLES
    leases,   \* what the server reports for each address
    expiry,   \* the last epoch used for each address
    rows,     \* gr_subnet_lease4: the copy of a deleted lease, by address
    job,      \* what each worker is doing
    deleted   \* history: the leases the server was told to delete

vars == <<leases, expiry, rows, job, deleted>>

\* Mutant: the expiration time is not compared.
SameClient(l, m) == l # None /\ m # None /\ l.client = m.client

\* SubnetLease4.Equal: not the state of the lease.
Same(l, m) ==
    l # None /\ m # None /\ l.client = m.client /\ l.epoch = m.epoch

Idle == [step |-> "idle"]

\* A lease of an address is named by its epoch, which is never used again.
Held == Addresses \X (1 .. MaxEpoch)

Jobs ==
    {Idle}
    \cup [step: {"ask"}, filter: Filters, on: SUBSET Addresses,
          copies: [Addresses -> Lease \cup {None}]]
    \cup [step: {"sweep"}, retain: SUBSET Addresses, hidden: SUBSET Held,
          known: SUBSET Held]
    \cup [step: {"find"}, on: SUBSET Addresses,
          copies: [Addresses -> Lease \cup {None}]]
    \cup [step: {"insert", "sent"}, new: [Addresses -> Lease \cup {None}]]

\* Leases, copies and the requests under way are what the tables and the
\* messages of the agent can hold.
TypeOK ==
    /\ leases \in [Addresses -> Lease \cup {None}]
    /\ expiry \in [Addresses -> 0 .. MaxEpoch]
    /\ rows \in [Addresses -> Lease \cup {None}]
    /\ \A w \in Workers : job[w] \in Jobs
    /\ deleted \subseteq Held

Init ==
    /\ leases = [a \in Addresses |-> None]
    /\ expiry = [a \in Addresses |-> 0]
    /\ rows = [a \in Addresses |-> None]
    /\ job = [w \in Workers |-> Idle]
    /\ deleted = {}

-----------------------------------------------------------------------------
(***************************************************************************)
(* The DHCP server                                                         *)
(***************************************************************************)
Grant(a, c) ==
    /\ expiry[a] < MaxEpoch
    /\ leases[a] # None => leases[a].client = c
    /\ expiry' = [expiry EXCEPT ![a] = @ + 1]
    /\ leases' = [leases EXCEPT
                     ![a] = [client |-> c, epoch |-> expiry'[a], normal |-> TRUE]]
    /\ UNCHANGED <<rows, job, deleted>>

Decline(a) ==
    /\ leases[a] # None
    /\ leases[a].normal
    /\ leases' = [leases EXCEPT ![a].normal = FALSE]
    /\ UNCHANGED <<expiry, rows, job, deleted>>

\* The lease ends, or the server has reclaimed it after its deletion.
Reclaim(a) ==
    /\ leases[a] # None
    /\ leases' = [leases EXCEPT ![a] = None]
    /\ UNCHANGED <<expiry, rows, job, deleted>>

-----------------------------------------------------------------------------
(***************************************************************************)
(* ListSubnetLease4                                                        *)
(***************************************************************************)
InSubnet(s) == {a \in Addresses : SubnetOf[a] = s}

Copies(on) == [a \in Addresses |-> IF a \in on THEN rows[a] ELSE None]

\* The first transaction reads the copies of the subnet, or of one address.
ListRead(w, s, filter) ==
    /\ job[w] = Idle
    /\ \E on \in IF filter = "ip" THEN {{a} : a \in InSubnet(s)} ELSE {InSubnet(s)} :
          job' = [job EXCEPT ![w] = [step |-> "ask", filter |-> filter, on |-> on,
                                     copies |-> Copies(on)]]
    /\ UNCHANGED <<leases, expiry, rows, deleted>>

\* getSubnetLease4sWithoutReclaimed: a lease that a copy equals is hidden and
\* its copy retained.  known is a history of the copies that were compared.
ListAsk(w) ==
    /\ job[w].step = "ask"
    /\ LET seen == {a \in job[w].on : /\ leases[a] # None
                                      /\ job[w].filter = "normal" => leases[a].normal}
           retain == {a \in seen : Same(job[w].copies[a], leases[a])}
       IN  job' = [job EXCEPT ![w] =
                      [step |-> "sweep", retain |-> retain,
                       hidden |-> {<<a, leases[a].epoch>> : a \in retain},
                       known |-> {<<a, job[w].copies[a].epoch>> : a \in
                                    {b \in job[w].on : /\ job[w].copies[b] # None
                                                       /\ leases[b] # None => b \in seen}}]]
    /\ UNCHANGED <<leases, expiry, rows, deleted>>

\* When the agent cannot be reached the error is logged and dropped: no lease
\* is listed and no copy is retained.
ListAskFails(w) ==
    /\ job[w].step = "ask"
    /\ Unreachable
    /\ job' = [job EXCEPT ![w] = [step |-> "sweep", retain |-> {}, hidden |-> {}, known |-> {}]]
    /\ UNCHANGED <<leases, expiry, rows, deleted>>

\* Mutant: every copy is removed.
KeptNone(retain) == [a \in Addresses |-> None]

\* delete from gr_subnet_lease4 where id not in (...): of every subnet.
Kept(retain) == [a \in Addresses |-> IF a \in retain THEN rows[a] ELSE None]

ListSweep(w) ==
    /\ job[w].step = "sweep"
    /\ rows' = Kept(job[w].retain)
    /\ job' = [job EXCEPT ![w] = Idle]
    /\ UNCHANGED <<leases, expiry, deleted>>

\* The second transaction fails: that is logged and the list is returned.
ListSweepFails(w) ==
    /\ job[w].step = "sweep"
    /\ job' = [job EXCEPT ![w] = Idle]
    /\ UNCHANGED <<leases, expiry, rows, deleted>>

-----------------------------------------------------------------------------
(***************************************************************************)
(* Delete and BatchDeleteLease4s                                           *)
(***************************************************************************)
DeleteRead(w, on) ==
    /\ job[w] = Idle
    /\ job' = [job EXCEPT ![w] =
                  [step |-> "find", on |-> on, copies |-> Copies(on)]]
    /\ UNCHANGED <<leases, expiry, rows, deleted>>

\* The leases that no copy equals; with none left there is nothing to do.
DeleteFind(w) ==
    /\ job[w].step = "find"
    /\ LET live == {a \in job[w].on : /\ leases[a] # None
                                      /\ ~Same(job[w].copies[a], leases[a])}
           new == [a \in Addresses |-> IF a \in live THEN leases[a] ELSE None]
       IN  job' = [job EXCEPT ![w] = IF live = {}
                                     THEN Idle
                                     ELSE [step |-> "insert", new |-> new]]
    /\ UNCHANGED <<leases, expiry, rows, deleted>>

\* The same call as in a list: an error reads as no leases, and the request
\* ends without one.
DeleteFindFails(w) ==
    /\ job[w].step = "find"
    /\ Unreachable
    /\ job' = [job EXCEPT ![w] = Idle]
    /\ UNCHANGED <<leases, expiry, rows, deleted>>

Inserting(v) ==
    IF job[v].step = "sent"
    THEN {a \in Addresses : job[v].new[a] # None}
    ELSE {}

\* The copies are inserted, a transaction with the same key waiting for the
\* other, and the server is told to delete whatever holds the addresses now.
DeleteSend(w) ==
    /\ job[w].step = "insert"
    /\ LET live == {a \in Addresses : job[w].new[a] # None}
       IN  /\ \A v \in Workers : Inserting(v) \cap live = {}
           /\ \A a \in live : rows[a] = None
           /\ deleted' = deleted \cup
                 {<<a, leases[a].epoch>> : a \in {b \in live : leases[b] # None}}
    /\ job' = [job EXCEPT ![w].step = "sent"]
    /\ UNCHANGED <<leases, expiry, rows>>

\* A copy of an earlier lease has the primary key, or the agent refuses: the
\* transaction is rolled back and the request fails.
DeleteSendFails(w) ==
    /\ job[w].step = "insert"
    /\ \/ Unreachable
       \/ \E a \in Addresses : job[w].new[a] # None /\ rows[a] # None
    /\ job' = [job EXCEPT ![w] = Idle]
    /\ UNCHANGED <<leases, expiry, rows, deleted>>

DeleteCommit(w) ==
    /\ job[w].step = "sent"
    /\ rows' = [a \in Addresses |->
                  IF job[w].new[a] # None THEN job[w].new[a] ELSE rows[a]]
    /\ job' = [job EXCEPT ![w] = Idle]
    /\ UNCHANGED <<leases, expiry, deleted>>

\* The process stops between the call and the commit.
DeleteCommitFails(w) ==
    /\ job[w].step = "sent"
    /\ job' = [job EXCEPT ![w] = Idle]
    /\ UNCHANGED <<leases, expiry, rows, deleted>>

-----------------------------------------------------------------------------
Server ==
    \E a \in Addresses :
        \/ \E c \in Clients : Grant(a, c)
        \/ Decline(a)
        \/ Reclaim(a)

List(w) ==
    \/ \E s \in Subnets, filter \in Filters : ListRead(w, s, filter)
    \/ ListAsk(w)
    \/ ListAskFails(w)
    \/ ListSweep(w)
    \/ ListSweepFails(w)

Delete(w) ==
    \/ \E s \in Subnets : \E on \in SUBSET InSubnet(s) \ {{}} : DeleteRead(w, on)
    \/ DeleteFind(w)
    \/ DeleteFindFails(w)
    \/ DeleteSend(w)
    \/ DeleteSendFails(w)
    \/ DeleteCommit(w)
    \/ DeleteCommitFails(w)

Next == Server \/ \E w \in Workers : List(w) \/ Delete(w)

Spec == Init /\ [][Next]_vars

-----------------------------------------------------------------------------
(***************************************************************************)
(* Properties                                                              *)
(***************************************************************************)

\* A list hides a lease only if the server was told to delete that very lease:
\* the client, at its present expiration time.  A lease granted or renewed at
\* an address whose previous lease was deleted is always listed.
HiddenWasDeleted ==
    \A w \in Workers : job[w].step = "sweep" => job[w].hidden \subseteq deleted

\* A list that has read a copy and got an answer for its address removes the
\* copy only if the server has reclaimed or renewed the lease: not because of
\* another list, a deletion under way, or what the server does meanwhile.
ComparedCopyKept ==
    [][\A w \in Workers, a \in Addresses :
          /\ job[w].step = "sweep" /\ job'[w] = Idle
          /\ <<a, rows[a].epoch>> \in job[w].known
          /\ Same(rows[a], leases[a])
          => rows'[a] = rows[a]]_vars

=============================================================================
