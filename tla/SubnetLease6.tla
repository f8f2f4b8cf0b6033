---------------------------- MODULE SubnetLease6 ----------------------------
(***************************************************************************)
(* Leases of subnet6s, and the conversion of leases of both stacks into    *)
(* reservations.  SubnetLease6Service lists and deletes as                 *)
(* SubnetLease4Service does (SubnetLease4), with one difference: leases    *)
(* are deleted by type, addresses or prefixes, and the loop over the types *)
(* returns after the first.                                                *)
(*                                                                         *)
(* ActionListToReservation offers the dynamic leases of a subnet, each     *)
(* with the leases of the same client in the other stack.  Any time later  *)
(* ActionDynamicToReservation takes the offer back, reads all leases anew, *)
(* and makes reservations in subnets of both stacks in one transaction     *)
(* that sends a command for each subnet before it commits.                 *)
(*                                                                         *)
(* The nodes of a subnet are shown as one, which has a command or has not: *)
(* SubnetCommands4 has the sends.  The process may stop at any time.       *)
(* Addresses that clients generate are left out.                           *)
(***************************************************************************)
EXTENDS Naturals, FiniteSets

CONSTANTS
    Addresses,    \* addresses of leases; of a prefix, its first address
    KindOf,       \* the kind of lease of each: "ipv4", or in IPv6 its type
    SubnetOf,
    Clients,      \* a hardware address, with its DUID
    MaxEpoch,     \* bounds the leases and renewals
    MaxRequests,  \* bounds the requests
    Workers,
    Unreachable   \* whether gRPC calls to the agent, and commands, may fail

ASSUME Lease6Assumption ==
    /\ KindOf \in [Addresses -> {"ipv4", "address", "prefix"}]
    /\ \A a, b \in Addresses :
          SubnetOf[a] = SubnetOf[b] => (KindOf[a] = "ipv4" <=> KindOf[b] = "ipv4")
    /\ MaxEpoch \in Nat /\ MaxRequests \in Nat
    /\ Unreachable \in BOOLEAN

VARIABLES
    leases,        \* what the server reports for each address
    epoch,         \* the expiration time last given
    requests,      \* the number of requests begun
    copies,        \* gr_subnet_lease4 and 6: deleted leases, by address
    reservations,  \* pairs of an address and its client
    nodes,         \* the reservations the DHCP nodes have
    offer,         \* the leases a page shows for conversion
    job,           \* what each worker is doing
    deleted,       \* history: leases the server was told to delete
    unsent,        \* history: leases deleted along with another type
    apart          \* history: reservations in a command whose transaction has failed

server == <<leases, epoch>>
tables == <<copies, reservations>>
history == <<deleted, unsent, apart>>
vars == <<server, requests, tables, nodes, offer, job, history>>

None == [epoch |-> 0]

Lease == [client: Clients, epoch: 1 .. MaxEpoch, normal: BOOLEAN]

Pairs == Addresses \X Clients

NoOffer == [own |-> {}, dual |-> {}]

Idle == [step |-> "idle"]

InSubnet(s) == {a \in Addresses : SubnetOf[a] = s}

Subnets == {SubnetOf[a] : a \in Addresses}

Claims == [own: SUBSET Pairs, dual: SUBSET Pairs]

\* Leases of some addresses, by address.
Found(S) == UNION {[on -> S] : on \in SUBSET Addresses}

Purposes == {"list", "offer", "convert"}

Lists ==
    [step: {"ask"}, for: Purposes, subnet: Subnets, claim: Claims,
     copies: Found(Lease \cup {None}), rows: SUBSET Pairs, seen: SUBSET Pairs]
    \cup [step: {"sweep"}, for: Purposes, subnet: Subnets,
          hidden: SUBSET (Addresses \X (1 .. MaxEpoch)), claim: Claims, seen: SUBSET Pairs]

Conversions ==
    [step: {"stack", "rows"}, for: Purposes, subnet: Subnets, claim: Claims,
     seen: SUBSET Pairs]
    \cup [step: {"create"}, own: SUBSET Pairs, dual: SUBSET Pairs, done: SUBSET Subnets,
          checked: SUBSET Subnets, seen: SUBSET Pairs]

Deletions ==
    [step: {"find"}, on: SUBSET Addresses, copies: Found(Lease \cup {None})]
    \cup [step: {"insert", "sent"}, new: Found(Lease)]

Jobs == {Idle} \cup Lists \cup Conversions \cup Deletions

\* Leases, tables and the requests under way, which compare and delete leases of
\* the addresses that they have asked for.
TypeOK ==
    /\ leases \in [Addresses -> Lease \cup {None}]
    /\ epoch \in 0 .. MaxEpoch
    /\ copies \in [Addresses -> Lease \cup {None}]
    /\ reservations \subseteq Pairs
    /\ nodes \subseteq Pairs
    /\ offer \in Claims
    /\ job \in [Workers -> Jobs]
    /\ \A w \in Workers :
          /\ job[w].step = "ask" => DOMAIN job[w].copies = InSubnet(job[w].subnet)
          /\ job[w].step = "find" => DOMAIN job[w].copies = job[w].on
    /\ deleted \cup unsent \subseteq Addresses \X (1 .. MaxEpoch)
    /\ apart \subseteq Pairs

Init ==
    /\ leases = [a \in Addresses |-> None]
    /\ epoch = 0
    /\ requests = 0
    /\ copies = [a \in Addresses |-> None]
    /\ reservations = {}
    /\ nodes = {}
    /\ offer = NoOffer
    /\ job = [w \in Workers |-> Idle]
    /\ deleted = {}
    /\ unsent = {}
    /\ apart = {}

IsV4(a) == KindOf[a] = "ipv4"

\* Mutant: the expiration time is not compared.
SameClient(l, m) == l # None /\ m # None /\ l.client = m.client

\* SubnetLease6.Equal
Same(l, m) == l # None /\ m # None /\ l.client = m.client /\ l.epoch = m.epoch

Pair(a) == <<a, leases[a].client>>

Normal(on) == {a \in on : leases[a] # None /\ leases[a].normal}

\* subnetLease6FromPbLease6AndReservations: a dynamic lease is shown as reserved
\* under the key address/length.  The key of a reserved address ends in /128, so
\* a prefix is never found under the first address of it.
IsReserved(p, rows) == p \in rows /\ KindOf[p[1]] # "prefix"

-----------------------------------------------------------------------------
(***************************************************************************)
(* The DHCP server.  seen is a history: for every conversion under way,    *)
(* the claimed leases that were there at some moment of it.                *)
(***************************************************************************)
Claimed(claim, ls) ==
    {p \in claim.own \cup claim.dual : ls[p[1]] # None /\ ls[p[1]].client = p[2]}

Seen(w) ==
    IF job[w].step \in {"ask", "sweep", "stack"} /\ job[w].for = "convert"
    THEN [job[w] EXCEPT !.seen = @ \cup Claimed(job[w].claim, leases')]
    ELSE job[w]

ServerStep ==
    /\ job' = [w \in Workers |-> Seen(w)]
    /\ UNCHANGED <<requests, tables, nodes, offer, history>>

\* A reserved address is given to the client it is reserved for.
Grant(a, c) ==
    /\ epoch < MaxEpoch
    /\ leases[a] # None => leases[a].client = c
    /\ \A p \in nodes : p[1] = a => p[2] = c
    /\ epoch' = epoch + 1
    /\ leases' = [leases EXCEPT ![a] = [client |-> c, epoch |-> epoch', normal |-> TRUE]]
    /\ ServerStep

Decline(a) ==
    /\ leases[a] # None
    /\ leases[a].normal
    /\ leases' = [leases EXCEPT ![a].normal = FALSE]
    /\ UNCHANGED epoch
    /\ ServerStep

\* The lease ends, or the server has reclaimed it after its deletion.
Reclaim(a) ==
    /\ leases[a] # None
    /\ leases' = [leases EXCEPT ![a] = None]
    /\ UNCHANGED epoch
    /\ ServerStep

-----------------------------------------------------------------------------
(***************************************************************************)
(* Lists: for a page ("list"), for an offer, and for a conversion          *)
(***************************************************************************)
Become(w, j) == job' = [job EXCEPT ![w] = j]

Begin(w, j) ==
    /\ job[w] = Idle
    /\ requests < MaxRequests
    /\ requests' = requests + 1
    /\ Become(w, j)
    /\ UNCHANGED <<server, tables, nodes, offer, history>>

Only == UNCHANGED <<server, requests, tables, nodes, offer, history>>

\* ListSubnetLease6: the transaction that reads the subnet's rows.
ListRead(w, s, for, claim) ==
    Begin(w, [step |-> "ask", for |-> for, subnet |-> s, claim |-> claim,
              copies |-> [a \in InSubnet(s) |-> copies[a]],
              rows |-> IF for = "offer" THEN reservations ELSE {},
              seen |-> Claimed(claim, leases)])

\* Mutant: the client of a claimed lease is not compared.
ConfirmedByAddress(w, listed) == \A p \in job[w].claim.own : p[1] \in listed

\* getReservationFromLease: every claimed lease is still listed, under the client
\* it was offered with.  A lease that is reserved by now is not told apart.
Confirmed(w, listed) ==
    \A p \in job[w].claim.own : p[1] \in listed /\ p[2] = leases[p[1]].client

\* getSubnetLease6sWithoutReclaimed
ListAsk(w) ==
    /\ job[w].step = "ask"
    /\ LET on == InSubnet(job[w].subnet)
           held == IF job[w].for = "list" THEN {a \in on : leases[a] # None} ELSE Normal(on)
           hidden == {a \in held : Same(job[w].copies[a], leases[a])}
           listed == held \ hidden
           own == CASE job[w].for = "offer" ->
                          {Pair(a) : a \in {b \in listed : ~IsReserved(Pair(b), job[w].rows)}}
                    [] OTHER -> job[w].claim.own
           refused == job[w].for = "convert" /\ ~Confirmed(w, listed)
       IN  Become(w, [step |-> "sweep", for |-> IF refused THEN "list" ELSE job[w].for,
                      subnet |-> job[w].subnet,
                      hidden |-> {<<a, leases[a].epoch>> : a \in hidden},
                      claim |-> IF refused THEN NoOffer ELSE [job[w].claim EXCEPT !.own = own],
                      seen |-> IF refused THEN {} ELSE job[w].seen])
    /\ Only

\* The error of the call is dropped, and the list is empty.
ListAskFails(w) ==
    /\ job[w].step = "ask"
    /\ Unreachable
    /\ Become(w, [step |-> "sweep", for |-> "list", subnet |-> job[w].subnet,
                  hidden |-> {}, claim |-> NoOffer, seen |-> {}])
    /\ Only

\* What follows a list: nothing, or the leases of the same clients elsewhere.
AfterList(w) ==
    IF job[w].for = "list"
    THEN Idle
    ELSE [step |-> "stack", for |-> job[w].for, subnet |-> job[w].subnet,
          claim |-> job[w].claim, seen |-> job[w].seen]

\* delete from gr_subnet_lease6 where id not in (...): in all subnets of the stack.
ListSweep(w) ==
    /\ job[w].step = "sweep"
    /\ copies' = [a \in Addresses |->
                    IF IsV4(a) = (\E b \in InSubnet(job[w].subnet) : IsV4(b))
                       /\ \A h \in job[w].hidden : h[1] # a
                    THEN None ELSE copies[a]]
    /\ Become(w, AfterList(w))
    /\ UNCHANGED <<server, requests, reservations, nodes, offer, history>>

ListSweepFails(w) ==
    /\ job[w].step = "sweep"
    /\ Become(w, AfterList(w))
    /\ Only

-----------------------------------------------------------------------------
(***************************************************************************)
(* The other stack                                                         *)
(***************************************************************************)
OtherStack(s) ==
    {a \in Addresses : \A b \in InSubnet(s) : IsV4(a) # IsV4(b)}

\* GetSubnets6LeasesWithMacs and its twin: the leases of clients, of all subnets
\* of a stack, not compared with the copies of deleted leases.
WithMacs(w) ==
    {a \in Normal(OtherStack(job[w].subnet)) :
        leases[a].client \in {p[2] : p \in job[w].claim.own}}

\* A conversion wants to find every lease of the offer with the same client.
\* With only one stack, or by hostname, an offer has nothing in the other one.
StackAsk(w) ==
    /\ job[w].step = "stack"
    /\ LET found == {Pair(a) : a \in WithMacs(w)}
       IN  IF job[w].for = "convert" /\ ~(job[w].claim.dual \subseteq found)
           THEN Become(w, Idle)
           ELSE Become(w, [job[w] EXCEPT !.step = "rows",
                              !.claim.dual = IF job[w].for = "offer" THEN found ELSE @])
    /\ Only

\* An offer goes on without the other stack; a conversion that needs it fails.
StackAskFails(w) ==
    /\ job[w].step = "stack"
    /\ Unreachable
    /\ IF job[w].for = "offer"
       THEN Become(w, [job[w] EXCEPT !.step = "rows"])
       ELSE Become(w, Idle)
    /\ Only

\* getAddrAndReservation6MapWithSubnetIds, in a transaction of its own: leases of
\* the other stack that are reserved are neither offered nor converted.
Dynamic(w) == {p \in job[w].claim.dual : ~IsReserved(p, reservations)}

Offer(w) ==
    /\ job[w].step = "rows"
    /\ job[w].for = "offer"
    /\ offer' = [job[w].claim EXCEPT !.dual = Dynamic(w)]
    /\ Become(w, Idle)
    /\ UNCHANGED <<server, requests, tables, nodes, history>>

ConvertRead(w) ==
    /\ job[w].step = "rows"
    /\ job[w].for = "convert"
    /\ Become(w, [step |-> "create", own |-> job[w].claim.own, dual |-> Dynamic(w),
                  done |-> {}, checked |-> {}, seen |-> job[w].seen])
    /\ Only

-----------------------------------------------------------------------------
(***************************************************************************)
(* createReservationsFromDynamicLeases: one transaction                    *)
(***************************************************************************)
New(w, s) == {p \in job[w].own \cup job[w].dual : SubnetOf[p[1]] = s}

Todo(w) == {SubnetOf[p[1]] : p \in job[w].own \cup job[w].dual} \ job[w].done

Done(w) == IF job[w].step = "create" THEN job[w].done ELSE {}

\* batchCreateReservation4s and 6s: an address and a client have one reservation
\* in a subnet.  A v6 reservation has all addresses of its client, a v4 one has one.
Acceptable(new) ==
    /\ \A p \in new, q \in reservations :
          SubnetOf[p[1]] = SubnetOf[q[1]] => p[1] # q[1] /\ p[2] # q[2]
    /\ \A p, q \in new : p # q /\ IsV4(p[1]) => p[2] # q[2]

\* Mutant: the command of a subnet names the reservations of all.
ToldAll(w, s) == job[w].own \cup job[w].dual

\* sendCreateReservation4sCmdToDHCPAgent and its twin.
Told(w, s) == New(w, s)

\* Mutant: the row of a subnet is not written, so it is not locked.
NeverLocked(s) == FALSE

\* The capacity in the subnet's row is written: the row is locked to the end.
Locked(s) == \E v \in Workers : s \in Done(v)

\* IPv4 subnets come first.
Turn(w, s) ==
    /\ job[w].step = "create"
    /\ s \in Todo(w)
    /\ (\E t \in Todo(w) : \E a \in InSubnet(t) : IsV4(a)) => \E a \in InSubnet(s) : IsV4(a)

\* The reservations of the subnet are read and compared, before its row is written.
ConvertCheck(w, s) ==
    /\ Turn(w, s)
    /\ job[w].checked = {}
    /\ Acceptable(New(w, s))
    /\ Become(w, [job[w] EXCEPT !.checked = {s}])
    /\ Only

Writes(w, s) == Turn(w, s) /\ s \in job[w].checked /\ ~Locked(s)

\* The command is sent to the nodes before anything is committed.
ConvertSubnet(w, s) ==
    /\ Writes(w, s)
    /\ nodes' = nodes \cup Told(w, s)
    /\ Become(w, [job[w] EXCEPT !.done = @ \cup {s}, !.checked = {}])
    /\ UNCHANGED <<server, requests, tables, offer, history>>

\* What the nodes were told by the commands that have been sent.
Sent(w) == UNION {New(w, s) : s \in Done(w)}

TakenBack(w) == Become(w, Idle) /\ UNCHANGED <<server, requests, tables, offer, deleted, unsent>>

\* A row is refused, or a statement fails: the rows are rolled back, the commands of
\* the subnets before it are not.
ConvertRefused(w) ==
    /\ job[w].step = "create"
    /\ \/ Unreachable /\ Todo(w) # {}
       \/ job[w].checked = {} /\ \E s \in Todo(w) : Turn(w, s) /\ ~Acceptable(New(w, s))
    /\ apart' = apart \cup Sent(w)
    /\ TakenBack(w)
    /\ UNCHANGED nodes

\* The command fails, before or after nodes have it.  The rollback is given the
\* hostnames of those, or nothing if a node was not found, and looks nodes up by
\* address: only where the two are equal is the command undone.
ConvertSendFails(w, s) ==
    /\ Unreachable
    /\ Writes(w, s)
    /\ nodes' \in {nodes, nodes \cup Told(w, s), nodes \ Told(w, s)}
    /\ apart' = apart \cup Sent(w) \cup New(w, s)
    /\ TakenBack(w)

\* The commit of a transaction fails when all of its commands are sent.
CommitFails(w) ==
    /\ Unreachable
    /\ \/ job[w].step = "create" /\ Todo(w) = {}
       \/ job[w].step = "sent"
    /\ apart' = apart \cup Sent(w)
    /\ TakenBack(w)
    /\ UNCHANGED nodes

ConvertCommit(w) ==
    /\ job[w].step = "create"
    /\ Todo(w) = {}
    /\ reservations' = reservations \cup job[w].own \cup job[w].dual
    /\ apart' = apart \ (job[w].own \cup job[w].dual)
    /\ Become(w, Idle)
    /\ UNCHANGED <<server, requests, copies, nodes, offer, deleted, unsent>>

-----------------------------------------------------------------------------
(***************************************************************************)
(* Delete and BatchDeleteLease6s                                           *)
(***************************************************************************)
DeleteRead(w, on) ==
    Begin(w, [step |-> "find", on |-> on, copies |-> [a \in on |-> copies[a]]])

\* The leases that no copy equals; an error of the call reads as no leases.
DeleteFind(w) ==
    /\ job[w].step = "find"
    /\ LET live == {a \in job[w].on : leases[a] # None /\ ~Same(job[w].copies[a], leases[a])}
       IN  Become(w, IF live = {}
                     THEN Idle
                     ELSE [step |-> "insert", new |-> [a \in live |-> leases[a]]])
    /\ Only

DeleteFindFails(w) ==
    /\ job[w].step = "find"
    /\ Unreachable
    /\ Become(w, Idle)
    /\ Only

Live(w) == DOMAIN job[w].new

\* The copies inserted by a transaction that has not ended hold their keys.
Inserting(v) == IF job[v].step = "sent" THEN Live(v) ELSE {}

\* for leaseType, addrs := range ... { return ... }: the first type of a map.
SentTogether(w, kind) == {a \in Live(w) : KindOf[a] = kind}

DeleteSend(w) ==
    /\ job[w].step = "insert"
    /\ \A v \in Workers : Inserting(v) \cap Live(w) = {}
    /\ \A a \in Live(w) : copies[a] = None
    /\ \E kind \in {KindOf[a] : a \in Live(w)} :
          /\ deleted' = deleted \cup
                {<<a, leases[a].epoch>> : a \in {b \in SentTogether(w, kind) : leases[b] # None}}
          /\ unsent' = unsent \cup
                {<<a, job[w].new[a].epoch>> : a \in {b \in Live(w) : KindOf[b] # kind}}
    /\ Become(w, [job[w] EXCEPT !.step = "sent"])
    /\ UNCHANGED <<server, requests, tables, nodes, offer, apart>>

\* A copy has the primary key, or the agent refuses.
DeleteSendFails(w) ==
    /\ job[w].step = "insert"
    /\ Unreachable \/ \E a \in Live(w) : copies[a] # None
    /\ Become(w, Idle)
    /\ Only

DeleteCommit(w) ==
    /\ job[w].step = "sent"
    /\ copies' = [a \in Addresses |-> IF a \in Live(w) THEN job[w].new[a] ELSE copies[a]]
    /\ Become(w, Idle)
    /\ UNCHANGED <<server, requests, reservations, nodes, offer, history>>

-----------------------------------------------------------------------------
\* The process stops: what is not committed is rolled back.  A page keeps its offer.
Stop ==
    /\ \E w \in Workers : job[w] # Idle
    /\ job' = [w \in Workers |-> Idle]
    /\ apart' = apart \cup UNION {Sent(w) : w \in Workers}
    /\ UNCHANGED <<server, requests, tables, nodes, offer, deleted, unsent>>

Server ==
    \E a \in Addresses :
        \/ \E c \in Clients : Grant(a, c)
        \/ Decline(a)
        \/ Reclaim(a)

\* A conversion takes a part of the offer, with the other stack or without it.
Picks == {[own |-> own, dual |-> {p \in offer.dual : \E q \in own : p[2] = q[2]}] :
             own \in SUBSET offer.own \ {{}}}
         \cup {[own |-> own, dual |-> {}] : own \in SUBSET offer.own \ {{}}}

List(w) ==
    \/ \E s \in Subnets, for \in {"list", "offer"} : ListRead(w, s, for, NoOffer)
    \/ \E pick \in Picks, s \in Subnets :
          /\ \A p \in pick.own : SubnetOf[p[1]] = s
          /\ ListRead(w, s, "convert", pick)
    \/ ListAsk(w)
    \/ ListAskFails(w)
    \/ ListSweep(w)
    \/ ListSweepFails(w)

Convert(w) ==
    \/ StackAsk(w)
    \/ StackAskFails(w)
    \/ Offer(w)
    \/ ConvertRead(w)
    \/ \E s \in Subnets : ConvertCheck(w, s)
    \/ \E s \in Subnets : ConvertSubnet(w, s)
    \/ \E s \in Subnets : ConvertSendFails(w, s)
    \/ ConvertRefused(w)
    \/ CommitFails(w)
    \/ ConvertCommit(w)

Delete(w) ==
    \/ \E s \in Subnets : \E on \in SUBSET InSubnet(s) \ {{}} : DeleteRead(w, on)
    \/ DeleteFind(w)
    \/ DeleteFindFails(w)
    \/ DeleteSend(w)
    \/ DeleteSendFails(w)
    \/ DeleteCommit(w)

Next ==
    \/ Server
    \/ Stop
    \/ \E w \in Workers : List(w) \/ Convert(w) \/ Delete(w)

Spec == Init /\ [][Next]_vars

-----------------------------------------------------------------------------
(***************************************************************************)
(* Properties                                                              *)
(***************************************************************************)

\* A list hides only leases that the server was told to delete, unless one
\* deletion named leases of two types: then those of one type are hidden until
\* they end by themselves.
HiddenWasDeleted6 ==
    \A w \in Workers :
        job[w].step = "sweep" => job[w].hidden \subseteq deleted \cup unsent

\* Whatever leases do between an offer and the end of its conversion, an address
\* is reserved for a client that has held it at some moment of the conversion.
ConvertedWasLeased ==
    \A w \in Workers : job[w].step = "create" => job[w].own \cup job[w].dual \subseteq job[w].seen

\* The nodes have every reservation that a conversion has committed, and one that is
\* not in the database only while the conversion that has told them of it is under
\* way, however conversions of the same leases overlap.  Those that a command named
\* whose transaction has failed since are excepted: nothing tells the nodes again.
NodesHaveConverted ==
    /\ reservations \ apart \subseteq nodes
    /\ nodes \ (reservations \cup apart) \subseteq UNION {Sent(w) : w \in Workers}

=============================================================================
