------------------------ MODULE SubnetLease6_proofs ------------------------
(***************************************************************************)
(* Why copies of deleted leases hide no other lease, and why a conversion  *)
(* reserves what was leased, for any addresses, subnets, clients and number *)
(* of requests.  The argument about copies is that of SubnetLease4_proofs: a *)
(* copy is of a lease that the address once had, of an epoch that never    *)
(* returns.  What a conversion claims it has seen leased.  What it has     *)
(* sent the nodes keep until it ends, since it holds the row of the subnet *)
(* and no other conversion can send, or undo, a command of that subnet.    *)
(***************************************************************************)
EXTENDS SubnetLease6, TLAPS

Some == Lease \cup {None}

\* A copy of a lease of a: an address that has it still was told to delete it.
\* x is the epoch.
Copied(a, c, l, x, told) ==
    /\ c \in Some /\ c.epoch <= x
    /\ c # None /\ c.epoch = l.epoch => <<a, c.epoch>> \in told

LeasesAreCurrent == \A a \in Addresses : leases[a].epoch <= epoch

CopiesAreOfDeleted ==
    \A a \in Addresses : Copied(a, copies[a], leases[a], epoch, deleted \cup unsent)

\* What a request knows of copies, or of the leases it is about to delete.
Knows(j, ls, x, told) ==
    /\ j.step \in {"ask", "find"} =>
          \A a \in DOMAIN j.copies : Copied(a, j.copies[a], ls[a], x, told)
    /\ j.step = "insert" => \A a \in DOMAIN j.new : j.new[a].epoch <= x
    /\ j.step = "sent" => \A a \in DOMAIN j.new : Copied(a, j.new[a], ls[a], x, told)
    /\ j.step = "sweep" => j.hidden \subseteq told

JobsKnow == \A w \in Workers : Knows(job[w], leases, epoch, deleted \cup unsent)

\* What a conversion has seen of what it claims.
Sees(j, ls) ==
    /\ j.step \in {"ask", "sweep", "stack"} /\ j.for = "convert" =>
          Claimed(j.claim, ls) \subseteq j.seen
    /\ j.step \in {"sweep", "stack", "rows"} /\ j.for = "convert" => j.claim.own \subseteq j.seen
    /\ j.step = "rows" /\ j.for = "convert" => j.claim.dual \subseteq j.seen
    /\ j.step = "create" => j.own \cup j.dual \subseteq j.seen

ConversionsSee == \A w \in Workers : Sees(job[w], leases)

\* Whether a conversion has told the nodes of p.
Tells(j, p) == j.step = "create" /\ p \in j.own \cup j.dual /\ SubnetOf[p[1]] \in j.done

NodesFollow ==
    \A p \in Pairs :
        /\ p \in reservations \ apart => p \in nodes
        /\ \A w \in Workers : Tells(job[w], p) => p \in nodes
        /\ p \in nodes => p \in reservations \cup apart \/ \E w \in Workers : Tells(job[w], p)

IInv ==
    /\ TypeOK
    /\ LeasesAreCurrent
    /\ CopiesAreOfDeleted
    /\ JobsKnow
    /\ ConversionsSee
    /\ NodesFollow

-----------------------------------------------------------------------------
(***************************************************************************)
(* Types                                                                   *)
(***************************************************************************)
Leased == Addresses \X (1 .. MaxEpoch)

LEMMA SomeType ==
    /\ MaxEpoch \in Nat /\ None \in Some /\ None.epoch = 0
    /\ \A l \in Some : l.epoch \in 0 .. MaxEpoch /\ (l # None <=> l.epoch # 0)
    /\ \A l \in Some : l # None => /\ l \in Lease /\ l.epoch \in 1 .. MaxEpoch
                                   /\ l.client \in Clients /\ l.normal \in BOOLEAN
    /\ Lease \subseteq Some /\ \A l \in Lease : l # None
  BY Lease6Assumption DEF Some, Lease, None

LEMMA FoundType ==
    ASSUME NEW S, NEW f
    PROVE  /\ f \in Found(S) => /\ DOMAIN f \subseteq Addresses /\ \A a \in DOMAIN f : f[a] \in S
                                /\ f = [a \in DOMAIN f |-> f[a]]
           /\ \A on \in SUBSET Addresses : f \in [on -> S] => f \in Found(S)
  <1>1. ASSUME f \in Found(S)
        PROVE  /\ DOMAIN f \subseteq Addresses /\ \A a \in DOMAIN f : f[a] \in S
               /\ f = [a \in DOMAIN f |-> f[a]]
    <2>1. PICK on \in SUBSET Addresses : f \in [on -> S]
      BY <1>1 DEF Found
    <2>2. QED
      BY <2>1
  <1>2. ASSUME NEW on \in SUBSET Addresses, f \in [on -> S]
        PROVE  f \in Found(S)
    BY <1>2 DEF Found
  <1>3. QED
    BY <1>1, <1>2

\* A request asks about the leases of its subnet, or those it is to delete.
Job(j) ==
    /\ j \in Jobs
    /\ j.step = "ask" => DOMAIN j.copies = InSubnet(j.subnet)
    /\ j.step = "find" => DOMAIN j.copies = j.on

LEMMA ListType ==
    ASSUME NEW j, Job(j)
    PROVE  /\ j.step = "ask" =>
                 /\ j \in [step: {"ask"}, for: Purposes, subnet: Subnets, claim: Claims,
                           copies: Found(Some), rows: SUBSET Pairs, seen: SUBSET Pairs]
                 /\ DOMAIN j.copies = InSubnet(j.subnet) /\ DOMAIN j.copies \subseteq Addresses
           /\ j.step = "sweep" =>
                 j \in [step: {"sweep"}, for: Purposes, subnet: Subnets,
                        hidden: SUBSET Leased, claim: Claims, seen: SUBSET Pairs]
           /\ j.step \in {"stack", "rows"} =>
                 j \in [step: {"stack", "rows"}, for: Purposes, subnet: Subnets,
                        claim: Claims, seen: SUBSET Pairs]
           /\ j.step = "create" =>
                 j \in [step: {"create"}, own: SUBSET Pairs, dual: SUBSET Pairs,
                        done: SUBSET Subnets, checked: SUBSET Subnets, seen: SUBSET Pairs]
           /\ j.step = "find" =>
                 /\ j \in [step: {"find"}, on: SUBSET Addresses, copies: Found(Some)]
                 /\ DOMAIN j.copies = j.on
           /\ j.step \in {"insert", "sent"} =>
                 /\ j \in [step: {"insert", "sent"}, new: Found(Lease)]
                 /\ DOMAIN j.new \subseteq Addresses /\ \A a \in DOMAIN j.new : j.new[a] \in Lease
           /\ j.step \in {"idle", "ask", "sweep", "stack", "rows", "create", "find", "insert",
                          "sent"}
           /\ j.step = "idle" => j = Idle
  <1>1. /\ j.step = "ask" =>
                 /\ j \in [step: {"ask"}, for: Purposes, subnet: Subnets, claim: Claims,
                           copies: Found(Some), rows: SUBSET Pairs, seen: SUBSET Pairs]
                 /\ DOMAIN j.copies = InSubnet(j.subnet)
    BY DEF Job, Jobs, Idle, Lists, Conversions, Deletions, Some
  <1>2. /\ j.step = "sweep" =>
                 j \in [step: {"sweep"}, for: Purposes, subnet: Subnets,
                        hidden: SUBSET Leased, claim: Claims, seen: SUBSET Pairs]
        /\ j.step \in {"stack", "rows"} =>
                 j \in [step: {"stack", "rows"}, for: Purposes, subnet: Subnets,
                        claim: Claims, seen: SUBSET Pairs]
        /\ j.step = "create" =>
                 j \in [step: {"create"}, own: SUBSET Pairs, dual: SUBSET Pairs,
                        done: SUBSET Subnets, checked: SUBSET Subnets, seen: SUBSET Pairs]
    BY DEF Job, Jobs, Idle, Lists, Conversions, Deletions, Leased
  <1>3. /\ j.step = "find" =>
                 /\ j \in [step: {"find"}, on: SUBSET Addresses, copies: Found(Some)]
                 /\ DOMAIN j.copies = j.on
        /\ j.step \in {"insert", "sent"} => j \in [step: {"insert", "sent"}, new: Found(Lease)]
        /\ j.step \in {"idle", "ask", "sweep", "stack", "rows", "create", "find", "insert",
                       "sent"}
        /\ j.step = "idle" => j = Idle
    BY DEF Job, Jobs, Idle, Lists, Conversions, Deletions, Some
  <1>4. j.step = "ask" => DOMAIN j.copies \subseteq Addresses
    BY <1>1 DEF InSubnet
  <1>5. j.step \in {"insert", "sent"} =>
           DOMAIN j.new \subseteq Addresses /\ \A a \in DOMAIN j.new : j.new[a] \in Lease
    BY <1>3, FoundType
  <1>6. QED
    BY <1>1, <1>2, <1>3, <1>4, <1>5

LEMMA NewJobs ==
    /\ Job(Idle) /\ Idle.step = "idle"
    /\ \A j \in [step: {"sweep"}, for: Purposes, subnet: Subnets,
                 hidden: SUBSET Leased, claim: Claims, seen: SUBSET Pairs] : Job(j)
    /\ \A j \in [step: {"stack", "rows"}, for: Purposes, subnet: Subnets,
                 claim: Claims, seen: SUBSET Pairs] : Job(j)
    /\ \A j \in [step: {"create"}, own: SUBSET Pairs, dual: SUBSET Pairs,
                 done: SUBSET Subnets, checked: SUBSET Subnets, seen: SUBSET Pairs] : Job(j)
    /\ \A j \in [step: {"insert", "sent"}, new: Found(Lease)] : Job(j)
  BY DEF Job, Jobs, Idle, Lists, Conversions, Deletions, Leased

-----------------------------------------------------------------------------
(***************************************************************************)
(* One request's step                                                      *)
(***************************************************************************)
LEMMA Typed ==
    ASSUME IInv, NEW w \in Workers
    PROVE  /\ Job(job[w])
           /\ Knows(job[w], leases, epoch, deleted \cup unsent)
           /\ Sees(job[w], leases)
           /\ leases \in [Addresses -> Some] /\ copies \in [Addresses -> Some]
           /\ epoch \in 0 .. MaxEpoch
           /\ deleted \cup unsent \subseteq Leased
  BY DEF IInv, TypeOK, JobsKnow, ConversionsSee, Job, Some, Leased

LEMMA Stepped ==
    ASSUME IInv, NEW w \in Workers, NEW j, job' = [job EXCEPT ![w] = j]
    PROVE  job'[w] = j /\ \A v \in Workers : v # w => job'[v] = job[v]
  BY DEF IInv, TypeOK

LEMMA RequestStep ==
    ASSUME IInv, NEW w \in Workers, NEW j, job' = [job EXCEPT ![w] = j], UNCHANGED server,
           Job(j), Sees(j, leases),
           Knows(j, leases, epoch, deleted' \cup unsent'),
           deleted \cup unsent \subseteq deleted' \cup unsent',
           deleted' \cup unsent' \subseteq Leased,
           copies' \in [Addresses -> Some],
           \A a \in Addresses : \/ copies'[a] = copies[a]
                                \/ Copied(a, copies'[a], leases[a], epoch, deleted' \cup unsent'),
           reservations' \subseteq Pairs, nodes' \subseteq Pairs, offer' \in Claims,
           apart' \subseteq Pairs,
           NodesFollow'
    PROVE  IInv'
  <1>1. leases' = leases /\ epoch' = epoch
    BY DEF server
  <1>2. \A v \in Workers : job'[v] = IF v = w THEN j ELSE job[v]
    BY Stepped
  <1>3. TypeOK'
    <2>1. job' \in [Workers -> Jobs]
      BY DEF IInv, TypeOK, Job
    <2>2. \A v \in Workers :
             /\ job'[v].step = "ask" => DOMAIN job'[v].copies = InSubnet(job'[v].subnet)
             /\ job'[v].step = "find" => DOMAIN job'[v].copies = job'[v].on
      BY <1>2 DEF IInv, TypeOK, Job
    <2>3. QED
      BY <1>1, <2>1, <2>2 DEF IInv, TypeOK, Some, Leased
  <1>4. LeasesAreCurrent'
    BY <1>1 DEF IInv, LeasesAreCurrent
  <1>5. CopiesAreOfDeleted'
    <2>1. \A a \in Addresses : Copied(a, copies[a], leases[a], epoch, deleted' \cup unsent')
      BY DEF IInv, CopiesAreOfDeleted, Copied
    <2>2. QED
      BY <1>1, <2>1 DEF CopiesAreOfDeleted
  <1>6. JobsKnow'
    <2>1. ASSUME NEW v \in Workers
          PROVE  Knows(job[v], leases, epoch, deleted' \cup unsent')
      BY Typed DEF Knows, Copied
    <2>2. QED
      BY <1>1, <1>2, <2>1 DEF JobsKnow
  <1>7. ConversionsSee'
    BY <1>1, <1>2, Typed DEF ConversionsSee
  <1>8. QED
    BY <1>3, <1>4, <1>5, <1>6, <1>7 DEF IInv

\* What conversions have told the nodes is what it was.
LEMMA NodesStay ==
    ASSUME IInv, NEW w \in Workers, NEW j, job' = [job EXCEPT ![w] = j],
           \A p \in Pairs : Tells(j, p) <=> Tells(job[w], p),
           UNCHANGED <<nodes, reservations, apart>>
    PROVE  NodesFollow'
  <1>1. \A p \in Pairs, v \in Workers : Tells(job'[v], p) <=> Tells(job[v], p)
    BY Stepped
  <1>2. QED
    BY <1>1 DEF IInv, NodesFollow

\* A step before a conversion begins to write, or of another request.
LEMMA QuietStep ==
    ASSUME IInv, NEW w \in Workers, NEW j, job' = [job EXCEPT ![w] = j],
           UNCHANGED <<server, nodes, reservations, history>>,
           copies' \in [Addresses -> Some],
           \A a \in Addresses : copies'[a] = copies[a] \/ copies'[a] = None,
           offer' \in Claims,
           Job(j), Sees(j, leases), Knows(j, leases, epoch, deleted \cup unsent),
           job[w].step # "create", j.step # "create" \/ j.done = {}
    PROVE  IInv'
  <1>1. NodesFollow'
    <2>1. \A p \in Pairs : Tells(j, p) <=> Tells(job[w], p)
      BY DEF Tells
    <2>2. QED
      BY <2>1, NodesStay DEF history
  <1>2. deleted' = deleted /\ unsent' = unsent /\ apart' = apart
    BY DEF history
  <1>3. \A a \in Addresses :
           \/ copies'[a] = copies[a]
           \/ Copied(a, copies'[a], leases[a], epoch, deleted' \cup unsent')
    BY Typed, SomeType DEF Copied
  <1>4. /\ reservations' \subseteq Pairs /\ nodes' \subseteq Pairs /\ apart' \subseteq Pairs
        /\ deleted' \cup unsent' \subseteq Leased
    BY <1>2 DEF IInv, TypeOK, Leased
  <1>5. Knows(j, leases, epoch, deleted' \cup unsent')
    BY <1>2
  <1>6. QED
    BY <1>1, <1>2, <1>3, <1>4, <1>5, RequestStep

\* A request that ends.
LEMMA Ends ==
    ASSUME IInv, NEW w \in Workers, job' = [job EXCEPT ![w] = Idle],
           UNCHANGED <<server, nodes, reservations, history>>,
           copies' \in [Addresses -> Some],
           \A a \in Addresses : copies'[a] = copies[a] \/ copies'[a] = None,
           offer' \in Claims, job[w].step # "create"
    PROVE  IInv'
  <1>1. Job(Idle) /\ Sees(Idle, leases) /\ Knows(Idle, leases, epoch, deleted \cup unsent)
    BY NewJobs DEF Sees, Knows
  <1>2. QED
    BY <1>1, NewJobs, QuietStep

-----------------------------------------------------------------------------
(***************************************************************************)
(* The server                                                              *)
(***************************************************************************)
\* A conversion under way sees what the server has after a step of it.
LEMMA SeenType ==
    ASSUME IInv, NEW w \in Workers
    PROVE  /\ Job(Seen(w)) /\ Sees(Seen(w), leases')
           /\ \A p : Tells(Seen(w), p) <=> Tells(job[w], p)
           /\ \A x, told : Knows(Seen(w), leases', x, told) <=> Knows(job[w], leases', x, told)
  <1>1. Job(job[w]) /\ Sees(job[w], leases)
    BY Typed
  <1>2. CASE job[w].step \in {"ask", "sweep", "stack"} /\ job[w].for = "convert"
    <2> PICK j : j = Seen(w)
      OBVIOUS
    <2> PICK now : now = Claimed(job[w].claim, leases')
      OBVIOUS
    <2>1. j = [job[w] EXCEPT !.seen = job[w].seen \cup now]
      BY <1>2 DEF Seen
    <2>2. job[w].claim \in Claims /\ now \subseteq Pairs
      BY <1>1, <1>2, ListType DEF Claimed, Claims
    <2>3. CASE job[w].step = "ask"
      <3>1. /\ j \in [step: {"ask"}, for: Purposes, subnet: Subnets, claim: Claims,
                      copies: Found(Some), rows: SUBSET Pairs, seen: SUBSET Pairs]
            /\ j.step = "ask" /\ j.for = "convert" /\ j.claim = job[w].claim
            /\ j.copies = job[w].copies /\ j.subnet = job[w].subnet
            /\ j.seen = job[w].seen \cup now
        BY <1>1, <2>1, <2>2, <2>3, <1>2, ListType
      <3>2. DOMAIN j.copies = InSubnet(j.subnet)
        BY <1>1, <2>3, <3>1, ListType
      <3>3. Job(j)
        BY <3>1, <3>2 DEF Job, Jobs, Lists, Some
      <3>4. QED
        BY <2>3, <3>1, <3>3 DEF Sees, Tells, Knows
    <2>4. CASE job[w].step = "sweep"
      <3>1. /\ j \in [step: {"sweep"}, for: Purposes, subnet: Subnets,
                      hidden: SUBSET Leased, claim: Claims, seen: SUBSET Pairs]
            /\ j.step = "sweep" /\ j.for = "convert" /\ j.claim = job[w].claim
            /\ j.hidden = job[w].hidden /\ j.seen = job[w].seen \cup now
        BY <1>1, <2>1, <2>2, <2>4, <1>2, ListType
      <3>2. job[w].claim.own \subseteq job[w].seen
        BY <1>1, <1>2, <2>4 DEF Sees
      <3>3. QED
        BY <2>4, <3>1, <3>2, NewJobs DEF Sees, Tells, Knows
    <2>5. CASE job[w].step = "stack"
      <3>1. /\ j \in [step: {"stack", "rows"}, for: Purposes, subnet: Subnets,
                      claim: Claims, seen: SUBSET Pairs]
            /\ j.step = "stack" /\ j.for = "convert" /\ j.claim = job[w].claim
            /\ j.seen = job[w].seen \cup now
        BY <1>1, <2>1, <2>2, <2>5, <1>2, ListType
      <3>2. job[w].claim.own \subseteq job[w].seen
        BY <1>1, <1>2, <2>5 DEF Sees
      <3>3. QED
        BY <2>5, <3>1, <3>2, NewJobs DEF Sees, Tells, Knows
    <2>6. QED
      BY <1>2, <2>3, <2>4, <2>5
  <1>3. CASE ~(job[w].step \in {"ask", "sweep", "stack"} /\ job[w].for = "convert")
    <2>1. Seen(w) = job[w]
      BY <1>3 DEF Seen
    <2>2. Sees(job[w], leases')
      BY <1>1, <1>3 DEF Sees
    <2>3. QED
      BY <1>1, <2>1, <2>2
  <1>4. QED
    BY <1>2, <1>3

LEMMA ServerKeeps ==
    ASSUME IInv, NEW a \in Addresses, NEW l \in Some,
           leases' = [leases EXCEPT ![a] = l], ServerStep,
           \/ epoch' = epoch /\ l.epoch \in {0, leases[a].epoch}
           \/ epoch' = epoch + 1 /\ epoch < MaxEpoch /\ l.epoch = epoch'
    PROVE  IInv'
  <1>1. /\ leases \in [Addresses -> Some] /\ copies \in [Addresses -> Some]
        /\ epoch \in 0 .. MaxEpoch /\ MaxEpoch \in Nat
    BY SomeType DEF IInv, TypeOK, Some
  <1>2. /\ job' = [w \in Workers |-> Seen(w)]
        /\ UNCHANGED <<copies, reservations, nodes, offer, deleted, unsent, apart>>
    BY DEF ServerStep, tables, history
  <1>3. leases' \in [Addresses -> Some] /\ epoch' \in 0 .. MaxEpoch /\ epoch <= epoch'
    BY <1>1
  <1>4. ASSUME NEW b \in Addresses, NEW c, NEW told, Copied(b, c, leases[b], epoch, told)
        PROVE  Copied(b, c, leases'[b], epoch', told)
    <2>1. c \in Some /\ c.epoch \in 0 .. MaxEpoch /\ (c # None <=> c.epoch # 0)
      BY <1>4, SomeType DEF Copied
    <2>2. c.epoch <= epoch /\ (c # None /\ c.epoch = leases[b].epoch => <<b, c.epoch>> \in told)
      BY <1>4 DEF Copied
    <2>3. c.epoch <= epoch'
      BY <1>1, <1>3, <2>1, <2>2
    <2>4. CASE b = a
      <3>1. leases'[b] = l
        BY <1>1, <2>4
      <3>2. c # None /\ c.epoch = l.epoch => c.epoch = leases[b].epoch
        BY <1>1, <2>1, <2>2, <2>4
      <3>3. QED
        BY <2>1, <2>2, <2>3, <3>1, <3>2 DEF Copied
    <2>5. CASE b # a
      BY <1>1, <2>1, <2>2, <2>3, <2>5 DEF Copied
    <2>6. QED
      BY <2>4, <2>5
  <1>5. TypeOK'
    <2>1. job' \in [Workers -> Jobs]
      BY <1>2, SeenType DEF Job
    <2>2. \A v \in Workers :
             /\ job'[v].step = "ask" => DOMAIN job'[v].copies = InSubnet(job'[v].subnet)
             /\ job'[v].step = "find" => DOMAIN job'[v].copies = job'[v].on
      BY <1>2, SeenType DEF Job
    <2>3. QED
      BY <1>2, <1>3, <2>1, <2>2 DEF IInv, TypeOK, Some
  <1>6. LeasesAreCurrent'
    <2>1. \A b \in Addresses : leases[b].epoch <= epoch /\ leases[b].epoch \in Nat
      BY <1>1, SomeType DEF IInv, LeasesAreCurrent
    <2>2. \A b \in Addresses : leases'[b] = IF b = a THEN l ELSE leases[b]
      BY <1>1
    <2>3. QED
      BY <1>1, <1>3, <2>1, <2>2 DEF LeasesAreCurrent
  <1>7. CopiesAreOfDeleted'
    BY <1>2, <1>4 DEF IInv, CopiesAreOfDeleted
  <1>8. JobsKnow'
    <2>1. ASSUME NEW v \in Workers
          PROVE  Knows(job[v], leases', epoch', deleted \cup unsent)
      <3>1. Knows(job[v], leases, epoch, deleted \cup unsent) /\ Job(job[v])
        BY Typed
      <3>2. /\ job[v].step \in {"ask", "find"} => DOMAIN job[v].copies \subseteq Addresses
            /\ job[v].step \in {"insert", "sent"} => DOMAIN job[v].new \subseteq Addresses
        BY <3>1, ListType
      <3>3. job[v].step \in {"ask", "find"} =>
               \A b \in DOMAIN job[v].copies :
                   Copied(b, job[v].copies[b], leases'[b], epoch', deleted \cup unsent)
        BY <1>4, <3>1, <3>2 DEF Knows
      <3>4. job[v].step = "sent" =>
               \A b \in DOMAIN job[v].new :
                   Copied(b, job[v].new[b], leases'[b], epoch', deleted \cup unsent)
        BY <1>4, <3>1, <3>2 DEF Knows
      <3>5. job[v].step = "insert" => \A b \in DOMAIN job[v].new : job[v].new[b].epoch <= epoch'
        <4>1. job[v].step = "insert" =>
                 \A b \in DOMAIN job[v].new : job[v].new[b].epoch \in Nat
          BY <3>1, ListType, SomeType
        <4>2. QED
          BY <1>1, <1>3, <3>1, <4>1 DEF Knows
      <3>6. job[v].step = "sweep" => job[v].hidden \subseteq deleted \cup unsent
        BY <3>1 DEF Knows
      <3>7. QED
        BY <3>3, <3>4, <3>5, <3>6 DEF Knows
    <2>2. QED
      BY <1>2, <2>1, SeenType DEF JobsKnow
  <1>9. ConversionsSee'
    BY <1>2, SeenType DEF ConversionsSee
  <1>10. NodesFollow'
    BY <1>2, SeenType DEF IInv, NodesFollow
  <1>11. QED
    BY <1>5, <1>6, <1>7, <1>8, <1>9, <1>10 DEF IInv

LEMMA ServerSteps == ASSUME IInv, Server PROVE IInv'
  <1>1. leases \in [Addresses -> Some] /\ epoch \in 0 .. MaxEpoch
    BY DEF IInv, TypeOK, Some
  <1>2. ASSUME NEW a \in Addresses, NEW c \in Clients, Grant(a, c)
        PROVE  IInv'
    <2> PICK l : l = [client |-> c, epoch |-> epoch', normal |-> TRUE]
      OBVIOUS
    <2>1. /\ leases' = [leases EXCEPT ![a] = l] /\ epoch' = epoch + 1 /\ epoch < MaxEpoch
          /\ ServerStep
      BY <1>2 DEF Grant
    <2>2. l \in Some /\ l.epoch = epoch'
      BY <1>1, <2>1, SomeType DEF Lease, Some
    <2>3. QED
      BY <2>1, <2>2, ServerKeeps
  <1>3. ASSUME NEW a \in Addresses, Decline(a)
        PROVE  IInv'
    <2> PICK l : l = [leases[a] EXCEPT !.normal = FALSE]
      OBVIOUS
    <2>1. leases' = [leases EXCEPT ![a] = l] /\ epoch' = epoch /\ ServerStep /\ leases[a] # None
      BY <1>3 DEF Decline
    <2>2. l \in Some /\ l.epoch = leases[a].epoch
      BY <1>1, <2>1, SomeType DEF Lease, Some
    <2>3. QED
      BY <2>1, <2>2, ServerKeeps
  <1>4. ASSUME NEW a \in Addresses, Reclaim(a)
        PROVE  IInv'
    <2>1. leases' = [leases EXCEPT ![a] = None] /\ epoch' = epoch /\ ServerStep
      BY <1>4 DEF Reclaim
    <2>2. QED
      BY <2>1, SomeType, ServerKeeps
  <1>5. QED
    BY <1>2, <1>3, <1>4 DEF Server

-----------------------------------------------------------------------------
(***************************************************************************)
(* Lists                                                                   *)
(***************************************************************************)
LEMMA ClaimType ==
    /\ NoOffer \in Claims
    /\ IInv => offer \in Claims /\ \A pick \in Picks : pick \in Claims
    /\ \A ls : \A c \in Claims : Claimed(c, ls) \subseteq Pairs
  <1>1. IInv => offer \in Claims
    BY DEF IInv, TypeOK
  <1>2. ASSUME offer \in Claims
        PROVE  \A pick \in Picks : pick \in Claims
    BY <1>2 DEF Picks, Claims
  <1>3. QED
    BY <1>1, <1>2 DEF NoOffer, Claims, Claimed

LEMMA ReadKeeps ==
    ASSUME IInv, NEW w \in Workers, NEW s \in Subnets, NEW for \in Purposes, NEW claim \in Claims,
           ListRead(w, s, for, claim)
    PROVE  IInv'
  <1> PICK seen : seen = Claimed(claim, leases)
    OBVIOUS
  <1> PICK before : before = [a \in InSubnet(s) |-> copies[a]]
    OBVIOUS
  <1> PICK shown : shown = IF for = "offer" THEN reservations ELSE {}
    OBVIOUS
  <1> PICK j : j = [step |-> "ask", for |-> for, subnet |-> s, claim |-> claim,
                    copies |-> before, rows |-> shown, seen |-> seen]
    OBVIOUS
  <1>1. /\ job' = [job EXCEPT ![w] = j] /\ job[w] = Idle
        /\ UNCHANGED <<server, tables, nodes, offer, history>>
    BY DEF ListRead, Begin, Become
  <1>2. seen \subseteq Pairs /\ shown \subseteq Pairs
    BY ClaimType DEF IInv, TypeOK
  <1>3. /\ InSubnet(s) \in SUBSET Addresses
        /\ before \in [InSubnet(s) -> Some] /\ DOMAIN before = InSubnet(s)
    BY Typed DEF InSubnet
  <1>4. before \in Found(Some)
    BY <1>3, FoundType
  <1>5. Job(j)
    BY <1>2, <1>3, <1>4 DEF Job, Jobs, Lists, Some
  <1>6. Sees(j, leases)
    BY DEF Sees
  <1>7. Knows(j, leases, epoch, deleted \cup unsent)
    BY <1>3 DEF Knows, IInv, CopiesAreOfDeleted
  <1>8. /\ UNCHANGED <<server, copies, nodes, reservations, offer, history>>
        /\ job[w].step # "create" /\ j.step # "create"
    BY <1>1, NewJobs DEF tables
  <1>9. copies' \in [Addresses -> Some] /\ offer' \in Claims
    BY <1>8, Typed DEF IInv, TypeOK
  <1>10. QED
    BY <1>1, <1>5, <1>6, <1>7, <1>8, <1>9, QuietStep

LEMMA AskKeeps ==
    ASSUME IInv, NEW w \in Workers, ListAsk(w)
    PROVE  IInv'
  <1> PICK r : r = job[w]
    OBVIOUS
  <1> PICK on : on = InSubnet(r.subnet)
    OBVIOUS
  <1> PICK held : held = IF r.for = "list" THEN {a \in on : leases[a] # None} ELSE Normal(on)
    OBVIOUS
  <1> PICK hidden : hidden = {a \in held : Same(r.copies[a], leases[a])}
    OBVIOUS
  <1> PICK listed : listed = held \ hidden
    OBVIOUS
  <1> PICK own : own = IF r.for = "offer"
                       THEN {Pair(a) : a \in {b \in listed : ~IsReserved(Pair(b), r.rows)}}
                       ELSE r.claim.own
    OBVIOUS
  <1> DEFINE refused == r.for = "convert" /\ ~Confirmed(w, listed)
  <1> PICK named : named = {<<a, leases[a].epoch>> : a \in hidden}
    OBVIOUS
  <1> PICK claim : claim = IF refused THEN NoOffer ELSE [r.claim EXCEPT !.own = own]
    OBVIOUS
  <1> PICK for : for = IF refused THEN "list" ELSE r.for
    OBVIOUS
  <1> PICK seen : seen = IF refused THEN {} ELSE r.seen
    OBVIOUS
  <1> PICK j : j = [step |-> "sweep", for |-> for, subnet |-> r.subnet, hidden |-> named,
                    claim |-> claim, seen |-> seen]
    OBVIOUS
  <1>1. job' = [job EXCEPT ![w] = j] /\ r.step = "ask"
    BY DEF ListAsk, Become
  <1>2. UNCHANGED <<server, copies, nodes, reservations, offer, history>>
    BY DEF ListAsk, Only, tables
  <1>3. /\ r \in [step: {"ask"}, for: Purposes, subnet: Subnets, claim: Claims,
                  copies: Found(Some), rows: SUBSET Pairs, seen: SUBSET Pairs]
        /\ DOMAIN r.copies = on /\ on \subseteq Addresses
    BY <1>1, Typed, ListType
  <1>4. held \subseteq on /\ \A a \in held : leases[a] # None /\ leases[a] \in Lease
    BY <1>3, Typed, SomeType DEF Normal
  <1>5. named \subseteq deleted \cup unsent
    <2>1. ASSUME NEW a \in hidden
          PROVE  <<a, leases[a].epoch>> \in deleted \cup unsent
      <3>1. Copied(a, r.copies[a], leases[a], epoch, deleted \cup unsent)
        BY <1>1, <1>3, <1>4, Typed DEF Knows
      <3>2. r.copies[a] # None /\ r.copies[a].epoch = leases[a].epoch
        BY DEF Same
      <3>3. QED
        BY <3>1, <3>2 DEF Copied
    <2>2. QED
      BY <2>1
  <1>6. own \subseteq Pairs
    <2>1. \A a \in listed : Pair(a) \in Pairs
      BY <1>3, <1>4, SomeType DEF Pair, Pairs
    <2>2. r.claim.own \subseteq Pairs
      BY <1>3 DEF Claims
    <2>3. QED
      BY <2>1, <2>2
  <1>7. claim \in Claims /\ seen \subseteq Pairs /\ for \in Purposes
    BY <1>3, <1>6, ClaimType DEF Claims, Purposes
  <1>8. Job(j)
    <2>1. named \subseteq Leased
      BY <1>5, Typed
    <2>2. QED
      BY <1>3, <1>7, <2>1, NewJobs
  <1>9. for = "convert" => /\ claim.own = r.claim.own /\ claim.dual = r.claim.dual
                           /\ seen = r.seen /\ r.for = "convert" /\ Confirmed(w, listed)
    BY <1>3 DEF Claims
  <1>10. for = "convert" => Claimed(r.claim, leases) \subseteq r.seen
    BY <1>1, <1>9, Typed DEF Sees
  <1>11. for = "convert" => r.claim.own \subseteq Claimed(r.claim, leases)
    <2>1. ASSUME for = "convert", NEW p \in r.claim.own
          PROVE  leases[p[1]] # None /\ leases[p[1]].client = p[2]
      BY <1>4, <1>9, <2>1 DEF Confirmed
    <2>2. QED
      BY <2>1 DEF Claimed
  <1>12. for = "convert" => Claimed(claim, leases) \subseteq seen
    BY <1>9, <1>10 DEF Claimed
  <1>13. Sees(j, leases)
    BY <1>9, <1>10, <1>11, <1>12 DEF Sees
  <1>14. Knows(j, leases, epoch, deleted \cup unsent)
    BY <1>5 DEF Knows
  <1>15. copies' \in [Addresses -> Some] /\ offer' \in Claims
    BY <1>2, Typed DEF IInv, TypeOK
  <1>16. QED
    BY <1>1, <1>2, <1>8, <1>13, <1>14, <1>15, QuietStep

LEMMA AskFailsKeeps ==
    ASSUME IInv, NEW w \in Workers, ListAskFails(w)
    PROVE  IInv'
  <1> PICK j : j = [step |-> "sweep", for |-> "list", subnet |-> job[w].subnet,
                    hidden |-> {}, claim |-> NoOffer, seen |-> {}]
    OBVIOUS
  <1>1. job' = [job EXCEPT ![w] = j] /\ job[w].step = "ask"
    BY DEF ListAskFails, Become
  <1>2. UNCHANGED <<server, copies, nodes, reservations, offer, history>>
    BY DEF ListAskFails, Only, tables
  <1>3. Job(j)
    <2>1. job[w].subnet \in Subnets
      BY <1>1, Typed, ListType
    <2>2. QED
      BY <2>1, ClaimType, NewJobs DEF Purposes
  <1>4. Sees(j, leases) /\ Knows(j, leases, epoch, deleted \cup unsent)
    BY DEF Sees, Knows
  <1>5. copies' \in [Addresses -> Some] /\ offer' \in Claims
    BY <1>2, Typed DEF IInv, TypeOK
  <1>6. QED
    BY <1>1, <1>2, <1>3, <1>4, <1>5, QuietStep

LEMMA SweepKeeps ==
    ASSUME IInv, NEW w \in Workers, ListSweep(w) \/ ListSweepFails(w)
    PROVE  IInv'
  <1> PICK r : r = job[w]
    OBVIOUS
  <1> PICK j : j = AfterList(w)
    OBVIOUS
  <1>1. job' = [job EXCEPT ![w] = j] /\ r.step = "sweep"
    BY DEF ListSweep, ListSweepFails, Become
  <1>2. UNCHANGED <<server, nodes, reservations, offer, history>>
    BY DEF ListSweep, ListSweepFails, Only, tables
  <1>3. /\ copies' \in [Addresses -> Some]
        /\ \A a \in Addresses : copies'[a] = copies[a] \/ copies'[a] = None
    BY Typed, SomeType DEF ListSweep, ListSweepFails, Only, tables
  <1>4. /\ r \in [step: {"sweep"}, for: Purposes, subnet: Subnets,
                  hidden: SUBSET Leased, claim: Claims, seen: SUBSET Pairs]
        /\ Sees(r, leases)
    BY <1>1, Typed, ListType
  <1>5. CASE r.for = "list"
    <2>1. j = Idle
      BY <1>5 DEF AfterList
    <2>2. offer' \in Claims
      BY <1>2 DEF IInv, TypeOK
    <2>3. QED
      BY <1>1, <1>2, <1>3, <2>1, <2>2, Ends
  <1>6. CASE r.for # "list"
    <2>1. j = [step |-> "stack", for |-> r.for, subnet |-> r.subnet,
               claim |-> r.claim, seen |-> r.seen]
      BY <1>6 DEF AfterList
    <2>2. Job(j)
      BY <1>4, <2>1, NewJobs
    <2>3. Sees(j, leases) /\ Knows(j, leases, epoch, deleted \cup unsent)
      BY <1>1, <1>4, <2>1 DEF Sees, Knows
    <2>4. offer' \in Claims /\ j.step # "create"
      BY <1>2, <2>1 DEF IInv, TypeOK
    <2>5. QED
      BY <1>1, <1>2, <1>3, <2>2, <2>3, <2>4, QuietStep
  <1>7. QED
    BY <1>5, <1>6

-----------------------------------------------------------------------------
(***************************************************************************)
(* Conversions                                                             *)
(***************************************************************************)
\* A step that changes the request only.
LEMMA OnlyStep ==
    ASSUME IInv, NEW w \in Workers, NEW j, job' = [job EXCEPT ![w] = j], Only,
           Job(j), Sees(j, leases), Knows(j, leases, epoch, deleted \cup unsent),
           job[w].step # "create", j.step # "create" \/ j.done = {}
    PROVE  IInv'
  <1>1. UNCHANGED <<server, copies, nodes, reservations, offer, history>>
    BY DEF Only, tables
  <1>2. copies' \in [Addresses -> Some] /\ offer' \in Claims
    BY <1>1, Typed DEF IInv, TypeOK
  <1>3. QED
    BY <1>1, <1>2, QuietStep

LEMMA OnlyEnds ==
    ASSUME IInv, NEW w \in Workers, job' = [job EXCEPT ![w] = Idle], Only,
           job[w].step # "create"
    PROVE  IInv'
  <1>1. Job(Idle) /\ Sees(Idle, leases) /\ Knows(Idle, leases, epoch, deleted \cup unsent)
    BY NewJobs DEF Sees, Knows
  <1>2. QED
    BY <1>1, NewJobs, OnlyStep

LEMMA StackKeeps ==
    ASSUME IInv, NEW w \in Workers, StackAsk(w) \/ StackAskFails(w)
    PROVE  IInv'
  <1> PICK r : r = job[w]
    OBVIOUS
  <1>1. r.step = "stack" /\ Only
    BY DEF StackAsk, StackAskFails
  <1>2. /\ r \in [step: {"stack", "rows"}, for: Purposes, subnet: Subnets,
                  claim: Claims, seen: SUBSET Pairs]
        /\ Sees(r, leases)
    BY <1>1, Typed, ListType
  <1>3. ASSUME NEW dual \in SUBSET Pairs,
               r.for = "convert" => dual = r.claim.dual /\ r.claim.dual \subseteq r.seen,
               NEW j, job' = [job EXCEPT ![w] = j],
               j = [r EXCEPT !.step = "rows", !.claim = [r.claim EXCEPT !.dual = dual]]
        PROVE  IInv'
    <2> PICK claim : claim = [r.claim EXCEPT !.dual = dual]
      OBVIOUS
    <2>1. claim \in Claims /\ claim.own = r.claim.own /\ claim.dual = dual
      BY <1>2, <1>3 DEF Claims
    <2>2. /\ j \in [step: {"stack", "rows"}, for: Purposes, subnet: Subnets,
                    claim: Claims, seen: SUBSET Pairs]
          /\ j.step = "rows" /\ j.for = r.for /\ j.claim = claim /\ j.seen = r.seen
      BY <1>2, <1>3, <2>1
    <2>3. Sees(j, leases)
      BY <1>1, <1>2, <1>3, <2>1, <2>2 DEF Sees
    <2>4. Job(j) /\ Knows(j, leases, epoch, deleted \cup unsent)
      BY <2>2, NewJobs DEF Knows
    <2>5. QED
      BY <1>1, <1>3, <2>2, <2>3, <2>4, OnlyStep
  <1>4. CASE StackAsk(w)
    <2> PICK found : found = {Pair(a) : a \in WithMacs(w)}
      OBVIOUS
    <2>1. \A a \in WithMacs(w) : a \in Addresses /\ leases[a] # None /\ leases[a] \in Lease
      BY Typed, SomeType DEF WithMacs, Normal, OtherStack
    <2>2. found \subseteq Pairs
      BY <2>1 DEF Pair, Pairs, Lease
    <2>3. CASE r.for = "convert" /\ ~(r.claim.dual \subseteq found)
      <3>1. job' = [job EXCEPT ![w] = Idle]
        BY <1>4, <2>3 DEF StackAsk, Become
      <3>2. QED
        BY <1>1, <3>1, OnlyEnds
    <2>4. CASE ~(r.for = "convert" /\ ~(r.claim.dual \subseteq found))
      <3> PICK dual : dual = IF r.for = "offer" THEN found ELSE r.claim.dual
        OBVIOUS
      <3>1. job' = [job EXCEPT ![w] = [r EXCEPT !.step = "rows",
                                                !.claim = [r.claim EXCEPT !.dual = dual]]]
        BY <1>2, <1>4, <2>4 DEF StackAsk, Become, Claims
      <3>2. dual \subseteq Pairs
        BY <1>2, <2>2 DEF Claims
      <3>3. r.for = "convert" => dual = r.claim.dual /\ r.claim.dual \subseteq r.seen
        <4>1. SUFFICES ASSUME r.for = "convert"
                       PROVE  r.claim.dual \subseteq r.seen
          OBVIOUS
        <4>2. \A p \in found : leases[p[1]] # None /\ leases[p[1]].client = p[2]
          BY <2>1 DEF Pair
        <4>3. r.claim.dual \subseteq Claimed(r.claim, leases)
          BY <2>4, <4>1, <4>2 DEF Claimed
        <4>4. Claimed(r.claim, leases) \subseteq r.seen
          BY <1>1, <1>2, <4>1 DEF Sees
        <4>5. QED
          BY <4>3, <4>4
      <3>4. QED
        BY <1>3, <3>1, <3>2, <3>3
    <2>5. QED
      BY <2>3, <2>4
  <1>5. CASE StackAskFails(w)
    <2>1. CASE r.for = "offer"
      <3> PICK j : j = [r EXCEPT !.step = "rows"]
        OBVIOUS
      <3>1. job' = [job EXCEPT ![w] = j]
        BY <1>5, <2>1 DEF StackAskFails, Become
      <3>2. /\ j \in [step: {"stack", "rows"}, for: Purposes, subnet: Subnets,
                      claim: Claims, seen: SUBSET Pairs]
            /\ j.step = "rows" /\ j.for = "offer"
        BY <1>2, <2>1
      <3>3. Job(j) /\ Sees(j, leases) /\ Knows(j, leases, epoch, deleted \cup unsent)
        BY <3>2, NewJobs DEF Sees, Knows
      <3>4. QED
        BY <1>1, <3>1, <3>2, <3>3, OnlyStep
    <2>2. CASE r.for # "offer"
      <3>1. job' = [job EXCEPT ![w] = Idle]
        BY <1>5, <2>2 DEF StackAskFails, Become
      <3>2. QED
        BY <1>1, <3>1, OnlyEnds
    <2>3. QED
      BY <2>1, <2>2
  <1>6. QED
    BY <1>4, <1>5

LEMMA RowsKeeps ==
    ASSUME IInv, NEW w \in Workers, Offer(w) \/ ConvertRead(w)
    PROVE  IInv'
  <1> PICK r : r = job[w]
    OBVIOUS
  <1> PICK dual : dual = Dynamic(w)
    OBVIOUS
  <1>1. r.step = "rows"
    BY DEF Offer, ConvertRead
  <1>2. /\ r \in [step: {"stack", "rows"}, for: Purposes, subnet: Subnets,
                  claim: Claims, seen: SUBSET Pairs]
        /\ Sees(r, leases)
    BY <1>1, Typed, ListType
  <1>3. dual \subseteq r.claim.dual /\ r.claim.dual \subseteq Pairs /\ r.claim.own \subseteq Pairs
    BY <1>2 DEF Dynamic, Claims
  <1>4. CASE Offer(w)
    <2>1. /\ job' = [job EXCEPT ![w] = Idle] /\ offer' = [r.claim EXCEPT !.dual = dual]
          /\ UNCHANGED <<server, copies, nodes, reservations, history>>
      BY <1>4 DEF Offer, Become, tables
    <2>2. offer' \in Claims
      BY <1>2, <1>3, <2>1 DEF Claims
    <2>3. copies' \in [Addresses -> Some]
      BY <2>1, Typed
    <2>4. QED
      BY <1>1, <2>1, <2>2, <2>3, Ends
  <1>5. CASE ConvertRead(w)
    <2> PICK own : own = r.claim.own
      OBVIOUS
    <2> PICK j : j = [step |-> "create", own |-> own, dual |-> dual, done |-> {},
                      checked |-> {}, seen |-> r.seen]
      OBVIOUS
    <2>1. job' = [job EXCEPT ![w] = j] /\ r.for = "convert" /\ Only
      BY <1>5 DEF ConvertRead, Become
    <2>2. Job(j)
      BY <1>2, <1>3, NewJobs
    <2>3. Sees(j, leases) /\ Knows(j, leases, epoch, deleted \cup unsent)
      BY <1>1, <1>2, <1>3, <2>1 DEF Sees, Knows
    <2>4. QED
      BY <1>1, <2>1, <2>2, <2>3, OnlyStep
  <1>6. QED
    BY <1>4, <1>5

\* The steps of the transaction of a conversion.
LEMMA CreateStep ==
    ASSUME IInv, NEW w \in Workers, NEW j, job' = [job EXCEPT ![w] = j],
           j = Idle \/ (Job(j) /\ j.step = "create" /\ Sees(j, leases)),
           UNCHANGED <<server, copies, offer, deleted, unsent>>,
           reservations' \subseteq Pairs, nodes' \subseteq Pairs, apart' \subseteq Pairs,
           NodesFollow'
    PROVE  IInv'
  <1>1. Job(j) /\ Sees(j, leases) /\ Knows(j, leases, epoch, deleted' \cup unsent')
    BY NewJobs DEF Sees, Knows
  <1>2. /\ copies' \in [Addresses -> Some] /\ \A a \in Addresses : copies'[a] = copies[a]
        /\ deleted' \cup unsent' \subseteq Leased /\ offer' \in Claims
        /\ deleted \cup unsent \subseteq deleted' \cup unsent'
    BY Typed DEF IInv, TypeOK
  <1>3. QED
    BY <1>1, <1>2, RequestStep

\* The reservations in the commands of a conversion under way.
LEMMA SentType ==
    ASSUME IInv, NEW w \in Workers
    PROVE  Sent(w) \subseteq Pairs /\ \A p : p \in Sent(w) <=> Tells(job[w], p)
  <1>1. job[w].step = "create" =>
           /\ job[w].own \cup job[w].dual \subseteq Pairs /\ Done(w) = job[w].done
    BY Typed, ListType DEF Done
  <1>2. job[w].step # "create" => Done(w) = {}
    BY DEF Done
  <1>3. \A p : p \in Sent(w) <=>
                p \in job[w].own \cup job[w].dual /\ SubnetOf[p[1]] \in Done(w)
    BY DEF Sent, New
  <1>4. \A p : p \in Sent(w) <=> Tells(job[w], p)
    BY <1>1, <1>2, <1>3 DEF Tells
  <1>5. QED
    BY <1>1, <1>4 DEF Tells

\* A conversion that ends without a commit: what it told the nodes it leaves apart.
LEMMA GivenUp ==
    ASSUME IInv, NEW w \in Workers, TakenBack(w), NEW also \in SUBSET Pairs,
           apart' = apart \cup Sent(w) \cup also, nodes' \subseteq Pairs,
           \A p \in Pairs \ also : p \in nodes' <=> p \in nodes,
           \A p \in also, v \in Workers : v # w => ~Tells(job[v], p)
    PROVE  IInv'
  <1>1. job' = [job EXCEPT ![w] = Idle] /\ reservations' = reservations
    BY DEF TakenBack, Become, tables
  <1>2. apart' \subseteq Pairs /\ reservations' \subseteq Pairs
    BY <1>1, SentType DEF IInv, TypeOK
  <1>3. job'[w] = Idle /\ \A v \in Workers : v # w => job'[v] = job[v]
    BY <1>1, Stepped
  <1>4. \A p : ~Tells(Idle, p)
    BY NewJobs DEF Tells
  <1>5. NodesFollow'
    <2>1. SUFFICES ASSUME NEW p \in Pairs
                   PROVE  /\ p \in reservations \ apart' => p \in nodes'
                          /\ \A v \in Workers : Tells(job'[v], p) => p \in nodes'
                          /\ p \in nodes' => \/ p \in reservations \cup apart'
                                             \/ \E v \in Workers : Tells(job'[v], p)
      BY <1>1 DEF NodesFollow
    <2>2. /\ p \in reservations \ apart => p \in nodes
          /\ \A v \in Workers : Tells(job[v], p) => p \in nodes
          /\ p \in nodes => p \in reservations \cup apart \/ \E v \in Workers : Tells(job[v], p)
      BY DEF IInv, NodesFollow
    <2>3. Tells(job[w], p) => p \in apart'
      BY SentType
    <2>4. CASE p \in also
      BY <1>3, <1>4, <2>4
    <2>5. CASE p \notin also
      <3>1. p \in nodes' <=> p \in nodes
        BY <2>5
      <3>2. QED
        BY <1>3, <1>4, <2>2, <2>3, <3>1
    <2>6. QED
      BY <2>4, <2>5
  <1>6. UNCHANGED <<server, copies, offer, deleted, unsent>>
    BY DEF TakenBack, tables
  <1>7. QED
    BY <1>1, <1>2, <1>5, <1>6, CreateStep

LEMMA ConvertKeeps ==
    ASSUME IInv, NEW w \in Workers,
           \/ \E s \in Subnets : ConvertCheck(w, s) \/ ConvertSubnet(w, s)
           \/ ConvertCommit(w)
    PROVE  IInv'
  <1> PICK r : r = job[w]
    OBVIOUS
  <1> DEFINE converted == r.own \cup r.dual
  <1>1. r.step = "create" /\ UNCHANGED <<server, copies, offer, deleted, unsent>>
    BY DEF ConvertCheck, ConvertSubnet, ConvertCommit, Turn, Writes, Only, tables, history
  <1>2. /\ r \in [step: {"create"}, own: SUBSET Pairs, dual: SUBSET Pairs,
                  done: SUBSET Subnets, checked: SUBSET Subnets, seen: SUBSET Pairs]
        /\ Sees(r, leases)
    BY <1>1, Typed, ListType
  <1>3. nodes \subseteq Pairs /\ reservations \subseteq Pairs /\ apart \subseteq Pairs
    BY DEF IInv, TypeOK
  <1>4. ASSUME NEW s \in Subnets, ConvertCheck(w, s)
        PROVE  IInv'
    <2> PICK checked : checked = {s}
      OBVIOUS
    <2> PICK j : j = [r EXCEPT !.checked = checked]
      OBVIOUS
    <2>1. /\ job' = [job EXCEPT ![w] = j]
          /\ UNCHANGED <<nodes, reservations, apart>>
      BY <1>4 DEF ConvertCheck, Become, Only, tables, history
    <2>2. /\ j \in [step: {"create"}, own: SUBSET Pairs, dual: SUBSET Pairs,
                    done: SUBSET Subnets, checked: SUBSET Subnets, seen: SUBSET Pairs]
          /\ j.step = "create" /\ j.own = r.own /\ j.dual = r.dual /\ j.done = r.done
          /\ j.seen = r.seen
      BY <1>2
    <2>3. Job(j) /\ Sees(j, leases)
      BY <1>1, <1>2, <2>2, NewJobs DEF Sees
    <2>4. \A p \in Pairs : Tells(j, p) <=> Tells(job[w], p)
      BY <1>1, <2>2 DEF Tells
    <2>5. NodesFollow'
      BY <2>1, <2>4, NodesStay
    <2>6. QED
      BY <1>1, <1>3, <2>1, <2>2, <2>3, <2>5, CreateStep
  <1>5. ASSUME NEW s \in Subnets, ConvertSubnet(w, s)
        PROVE  IInv'
    <2> PICK done : done = r.done \cup {s}
      OBVIOUS
    <2> PICK none : none = {}
      OBVIOUS
    <2> PICK j : j = [r EXCEPT !.done = done, !.checked = none]
      OBVIOUS
    <2>1. /\ job' = [job EXCEPT ![w] = j]
          /\ nodes' = nodes \cup {p \in converted : SubnetOf[p[1]] = s}
          /\ reservations' = reservations /\ apart' = apart
      BY <1>5 DEF ConvertSubnet, Become, Told, New, tables, history
    <2>2. /\ j \in [step: {"create"}, own: SUBSET Pairs, dual: SUBSET Pairs,
                    done: SUBSET Subnets, checked: SUBSET Subnets, seen: SUBSET Pairs]
          /\ j.step = "create" /\ j.own = r.own /\ j.dual = r.dual /\ j.done = done
          /\ j.seen = r.seen
      BY <1>2
    <2>3. Job(j) /\ Sees(j, leases)
      BY <1>1, <1>2, <2>2, NewJobs DEF Sees
    <2>4. NodesFollow'
      <3>1. SUFFICES ASSUME NEW p \in Pairs
                     PROVE  /\ p \in reservations \ apart => p \in nodes'
                            /\ \A v \in Workers : Tells(job'[v], p) => p \in nodes'
                            /\ p \in nodes' => \/ p \in reservations \cup apart
                                               \/ \E v \in Workers : Tells(job'[v], p)
        BY <2>1 DEF NodesFollow
      <3>2. /\ p \in reservations \ apart => p \in nodes
            /\ \A v \in Workers : Tells(job[v], p) => p \in nodes
            /\ p \in nodes => p \in reservations \cup apart \/ \E v \in Workers : Tells(job[v], p)
        BY DEF IInv, NodesFollow
      <3>3. job'[w] = j /\ \A v \in Workers : v # w => job'[v] = job[v]
        BY <2>1, Stepped
      <3>4. p \in nodes' <=> p \in nodes \/ (p \in converted /\ SubnetOf[p[1]] = s)
        BY <2>1
      <3>5. Tells(j, p) <=> Tells(r, p) \/ (p \in converted /\ SubnetOf[p[1]] = s)
        BY <1>1, <2>2 DEF Tells
      <3>6. QED
        BY <3>2, <3>3, <3>4, <3>5
    <2>5. nodes' \subseteq Pairs /\ reservations' \subseteq Pairs /\ apart' \subseteq Pairs
      BY <1>2, <1>3, <2>1
    <2>6. QED
      BY <1>1, <2>1, <2>2, <2>3, <2>4, <2>5, CreateStep
  <1>6. ASSUME ConvertCommit(w)
        PROVE  IInv'
    <2>1. /\ job' = [job EXCEPT ![w] = Idle] /\ nodes' = nodes
          /\ apart' = apart \ converted /\ reservations' = reservations \cup converted
          /\ Todo(w) = {}
      BY <1>6 DEF ConvertCommit, Become
    <2>2. \A p : Tells(r, p) <=> p \in converted
      BY <1>1, <2>1 DEF Tells, Todo
    <2>3. reservations' \subseteq Pairs /\ apart' \subseteq Pairs
      BY <1>2, <1>3, <2>1
    <2>4. NodesFollow'
      <3>1. job'[w] = Idle /\ \A v \in Workers : v # w => job'[v] = job[v]
        BY <2>1, Stepped
      <3>2. \A p : ~Tells(Idle, p)
        BY NewJobs DEF Tells
      <3>3. QED
        BY <2>1, <2>2, <3>1, <3>2 DEF IInv, NodesFollow
    <2>5. QED
      BY <1>1, <1>3, <2>1, <2>3, <2>4, CreateStep
  <1>7. QED
    BY <1>4, <1>5, <1>6

\* A command that fails may reach the nodes or undo what they have: what it names no
\* other conversion under way has sent.
LEMMA SendFailsKeeps ==
    ASSUME IInv, NEW w \in Workers, NEW s \in Subnets, ConvertSendFails(w, s)
    PROVE  IInv'
  <1> PICK also : also = New(w, s)
    OBVIOUS
  <1>1. /\ job[w].step = "create" /\ ~Locked(s) /\ TakenBack(w)
        /\ nodes' \in {nodes, nodes \cup also, nodes \ also}
        /\ apart' = apart \cup Sent(w) \cup also
    BY DEF ConvertSendFails, Writes, Turn, Told
  <1>2. also \subseteq Pairs /\ \A p \in also : SubnetOf[p[1]] = s
    BY <1>1, Typed, ListType DEF New
  <1>3. nodes' \subseteq Pairs /\ \A p \in Pairs \ also : p \in nodes' <=> p \in nodes
    BY <1>1, <1>2 DEF IInv, TypeOK
  <1>4. \A p \in also, v \in Workers : ~Tells(job[v], p)
    BY <1>1, <1>2 DEF Tells, Locked, Done
  <1>5. QED
    BY <1>1, <1>2, <1>3, <1>4, GivenUp

LEMMA RefusedKeeps ==
    ASSUME IInv, NEW w \in Workers, ConvertRefused(w) \/ CommitFails(w)
    PROVE  IInv'
  <1> PICK none : none = {}
    OBVIOUS
  <1>1. TakenBack(w) /\ nodes' = nodes /\ apart' = apart \cup Sent(w) \cup none
    BY DEF ConvertRefused, CommitFails
  <1>2. nodes' \subseteq Pairs
    BY <1>1 DEF IInv, TypeOK
  <1>3. QED
    BY <1>1, <1>2, GivenUp

LEMMA StopKeeps == ASSUME IInv, Stop PROVE IInv'
  <1> PICK sent : sent = UNION {Sent(w) : w \in Workers}
    OBVIOUS
  <1>1. /\ job' = [w \in Workers |-> Idle] /\ apart' = apart \cup sent
        /\ UNCHANGED <<leases, epoch, copies, reservations, nodes, offer, deleted, unsent>>
    BY DEF Stop, server, tables
  <1>2. \A p : p \in sent <=> \E w \in Workers : Tells(job[w], p)
    BY SentType
  <1>3. sent \subseteq Pairs
    BY SentType
  <1>4. TypeOK'
    <2>1. job' \in [Workers -> Jobs] /\ \A w \in Workers : job'[w].step = "idle"
      BY <1>1, NewJobs DEF Job
    <2>2. QED
      BY <1>1, <1>3, <2>1 DEF IInv, TypeOK
  <1>5. LeasesAreCurrent' /\ CopiesAreOfDeleted'
    BY <1>1 DEF IInv, LeasesAreCurrent, CopiesAreOfDeleted
  <1>6. JobsKnow' /\ ConversionsSee'
    BY <1>1, NewJobs DEF JobsKnow, Knows, ConversionsSee, Sees
  <1>7. NodesFollow'
    <2>1. \A w \in Workers : \A p : ~Tells(job'[w], p)
      BY <1>1, NewJobs DEF Tells
    <2>2. QED
      BY <1>1, <1>2, <2>1 DEF IInv, NodesFollow
  <1>8. QED
    BY <1>4, <1>5, <1>6, <1>7 DEF IInv

-----------------------------------------------------------------------------
(***************************************************************************)
(* Deletions                                                               *)
(***************************************************************************)
LEMMA DeleteReadKeeps ==
    ASSUME IInv, NEW w \in Workers, NEW on \in SUBSET Addresses, DeleteRead(w, on)
    PROVE  IInv'
  <1> PICK before : before = [a \in on |-> copies[a]]
    OBVIOUS
  <1> PICK j : j = [step |-> "find", on |-> on, copies |-> before]
    OBVIOUS
  <1>1. /\ job' = [job EXCEPT ![w] = j] /\ job[w] = Idle
        /\ UNCHANGED <<server, copies, reservations, nodes, offer, history>>
    BY DEF DeleteRead, Begin, Become, tables
  <1>2. before \in [on -> Some] /\ DOMAIN before = on
    BY Typed
  <1>3. before \in Found(Some)
    BY <1>2, FoundType
  <1>4. Job(j)
    BY <1>2, <1>3 DEF Job, Jobs, Deletions, Some
  <1>5. Sees(j, leases) /\ Knows(j, leases, epoch, deleted \cup unsent)
    BY <1>2 DEF Sees, Knows, IInv, CopiesAreOfDeleted
  <1>6. copies' \in [Addresses -> Some] /\ offer' \in Claims
    BY <1>1, Typed DEF IInv, TypeOK
  <1>7. QED
    BY <1>1, <1>4, <1>5, <1>6, NewJobs, QuietStep

LEMMA FindKeeps ==
    ASSUME IInv, NEW w \in Workers, DeleteFind(w)
    PROVE  IInv'
  <1> PICK r : r = job[w]
    OBVIOUS
  <1> PICK live : live = {a \in r.on : leases[a] # None /\ ~Same(r.copies[a], leases[a])}
    OBVIOUS
  <1> PICK new : new = [a \in live |-> leases[a]]
    OBVIOUS
  <1> PICK j : j = [step |-> "insert", new |-> new]
    OBVIOUS
  <1>1. r.step = "find" /\ Only /\ job' = [job EXCEPT ![w] = IF live = {} THEN Idle ELSE j]
    BY DEF DeleteFind, Become
  <1>2. r.on \subseteq Addresses
    BY <1>1, Typed, ListType
  <1>3. new \in [live -> Lease] /\ live \in SUBSET Addresses /\ DOMAIN new = live
    BY <1>2, Typed, SomeType
  <1>4. new \in Found(Lease)
    BY <1>3, FoundType
  <1>5. Job(j)
    BY <1>4, NewJobs
  <1>6. Sees(j, leases) /\ Knows(j, leases, epoch, deleted \cup unsent)
    BY <1>3 DEF Sees, Knows, IInv, LeasesAreCurrent
  <1>7. CASE live = {}
    BY <1>1, <1>7, OnlyEnds
  <1>8. CASE live # {}
    BY <1>1, <1>5, <1>6, <1>8, OnlyStep
  <1>9. QED
    BY <1>7, <1>8

\* The server deletes what holds the addresses of one type now.  A copy of that
\* type is of a lease it has deleted or of one that is past; those of the other
\* type are counted in unsent.
LEMMA SendKeeps ==
    ASSUME IInv, NEW w \in Workers, DeleteSend(w)
    PROVE  IInv'
  <1> PICK r : r = job[w]
    OBVIOUS
  <1> PICK j : j = [r EXCEPT !.step = "sent"]
    OBVIOUS
  <1>1. /\ r.step = "insert" /\ job' = [job EXCEPT ![w] = j]
        /\ UNCHANGED <<server, copies, reservations, nodes, offer, apart>>
    BY DEF DeleteSend, Become, tables
  <1>2. PICK kind :
          /\ deleted' = deleted \cup {<<a, leases[a].epoch>> :
                a \in {b \in {c \in DOMAIN r.new : KindOf[c] = kind} : leases[b] # None}}
          /\ unsent' = unsent \cup {<<a, r.new[a].epoch>> :
                a \in {b \in DOMAIN r.new : KindOf[b] # kind}}
    BY DEF DeleteSend, SentTogether, Live
  <1>3. /\ r \in [step: {"insert", "sent"}, new: Found(Lease)]
        /\ DOMAIN r.new \subseteq Addresses /\ \A a \in DOMAIN r.new : r.new[a] \in Lease
        /\ \A a \in DOMAIN r.new : r.new[a].epoch <= epoch
    BY <1>1, Typed, ListType DEF Knows
  <1>4. /\ j \in [step: {"insert", "sent"}, new: Found(Lease)]
        /\ j.step = "sent" /\ j.new = r.new
    BY <1>3
  <1>5. deleted \cup unsent \subseteq deleted' \cup unsent' /\ deleted' \cup unsent' \subseteq Leased
    <2>1. \A a \in DOMAIN r.new : /\ leases[a] # None => <<a, leases[a].epoch>> \in Leased
                                  /\ <<a, r.new[a].epoch>> \in Leased
      BY <1>3, Typed, SomeType DEF Leased
    <2>2. deleted \subseteq Leased /\ unsent \subseteq Leased
      BY Typed
    <2>3. deleted' \subseteq Leased
      BY <1>2, <2>1, <2>2
    <2>4. unsent' \subseteq Leased
      BY <1>2, <2>1, <2>2
    <2>5. QED
      BY <1>2, <2>3, <2>4
  <1>6. ASSUME NEW a \in DOMAIN r.new
        PROVE  Copied(a, r.new[a], leases[a], epoch, deleted' \cup unsent')
    <2>1. r.new[a] \in Some /\ r.new[a].epoch <= epoch /\ r.new[a].epoch # 0
      BY <1>3, SomeType
    <2>2. ASSUME r.new[a].epoch = leases[a].epoch
          PROVE  <<a, r.new[a].epoch>> \in deleted' \cup unsent'
      <3>1. leases[a] # None
        BY <2>1, <2>2, SomeType
      <3>2. QED
        BY <1>2, <2>2, <3>1
    <2>3. QED
      BY <2>1, <2>2 DEF Copied
  <1>7. Job(j) /\ Sees(j, leases) /\ Knows(j, leases, epoch, deleted' \cup unsent')
    BY <1>4, <1>6, NewJobs DEF Sees, Knows
  <1>8. NodesFollow'
    <2>1. \A p \in Pairs : Tells(j, p) <=> Tells(job[w], p)
      BY <1>1, <1>4 DEF Tells
    <2>2. QED
      BY <1>1, <2>1, NodesStay
  <1>9. /\ copies' \in [Addresses -> Some] /\ \A a \in Addresses : copies'[a] = copies[a]
        /\ reservations' \subseteq Pairs /\ nodes' \subseteq Pairs /\ offer' \in Claims
        /\ apart' \subseteq Pairs
    BY <1>1, Typed DEF IInv, TypeOK
  <1>10. QED
    BY <1>1, <1>5, <1>7, <1>8, <1>9, RequestStep

LEMMA CommitKeeps ==
    ASSUME IInv, NEW w \in Workers, DeleteCommit(w)
    PROVE  IInv'
  <1> PICK r : r = job[w]
    OBVIOUS
  <1>1. /\ r.step = "sent" /\ job' = [job EXCEPT ![w] = Idle]
        /\ copies' = [a \in Addresses |-> IF a \in DOMAIN r.new THEN r.new[a] ELSE copies[a]]
        /\ UNCHANGED <<server, reservations, nodes, offer, deleted, unsent, apart>>
    BY DEF DeleteCommit, Become, Live, history
  <1>2. /\ DOMAIN r.new \subseteq Addresses
        /\ \A a \in DOMAIN r.new : Copied(a, r.new[a], leases[a], epoch, deleted \cup unsent)
    BY <1>1, Typed, ListType DEF Knows
  <1>3. /\ copies' \in [Addresses -> Some]
        /\ \A a \in Addresses :
              \/ copies'[a] = copies[a]
              \/ Copied(a, copies'[a], leases[a], epoch, deleted \cup unsent)
    BY <1>1, <1>2, Typed DEF Copied
  <1>4. Job(Idle) /\ Sees(Idle, leases) /\ Knows(Idle, leases, epoch, deleted \cup unsent)
    BY NewJobs DEF Sees, Knows
  <1>5. NodesFollow'
    <2>1. \A p \in Pairs : Tells(Idle, p) <=> Tells(job[w], p)
      BY <1>1, NewJobs DEF Tells
    <2>2. QED
      BY <1>1, <2>1, NodesStay
  <1>6. /\ reservations' \subseteq Pairs /\ nodes' \subseteq Pairs /\ offer' \in Claims
        /\ apart' \subseteq Pairs /\ deleted' \cup unsent' \subseteq Leased
        /\ deleted' \cup unsent' = deleted \cup unsent
    BY <1>1, Typed DEF IInv, TypeOK
  <1>7. Knows(Idle, leases, epoch, deleted' \cup unsent')
    BY <1>4, <1>6
  <1>8. QED
    BY <1>1, <1>3, <1>4, <1>5, <1>6, <1>7, RequestStep

-----------------------------------------------------------------------------
LEMMA InitIsInvariant == Init => IInv
  <1> SUFFICES ASSUME Init
               PROVE  IInv
    OBVIOUS
  <1>1. /\ leases = [a \in Addresses |-> None] /\ copies = [a \in Addresses |-> None]
        /\ epoch = 0 /\ job = [w \in Workers |-> Idle]
        /\ reservations = {} /\ nodes = {} /\ deleted = {} /\ unsent = {} /\ apart = {}
        /\ offer = NoOffer
    BY DEF Init
  <1>2. TypeOK
    <2>1. job \in [Workers -> Jobs] /\ \A w \in Workers : job[w].step = "idle"
      BY <1>1, NewJobs DEF Job
    <2>2. epoch \in 0 .. MaxEpoch
      BY <1>1, SomeType
    <2>3. QED
      BY <1>1, <2>1, <2>2, ClaimType, SomeType DEF TypeOK, Some
  <1>3. LeasesAreCurrent /\ CopiesAreOfDeleted
    BY <1>1, SomeType DEF LeasesAreCurrent, CopiesAreOfDeleted, Copied
  <1>4. JobsKnow /\ ConversionsSee /\ NodesFollow
    BY <1>1, NewJobs DEF JobsKnow, Knows, ConversionsSee, Sees, NodesFollow, Tells
  <1>5. QED
    BY <1>2, <1>3, <1>4 DEF IInv

LEMMA NextKeeps == IInv /\ [Next]_vars => IInv'
  <1> SUFFICES ASSUME IInv, [Next]_vars
               PROVE  IInv'
    OBVIOUS
  <1>1. CASE Server
    BY <1>1, ServerSteps
  <1>2. ASSUME NEW w \in Workers, List(w)
        PROVE  IInv'
    <2>1. ASSUME NEW s \in Subnets, NEW for \in {"list", "offer"}, ListRead(w, s, for, NoOffer)
          PROVE  IInv'
      BY <2>1, ReadKeeps, ClaimType DEF Purposes
    <2>2. ASSUME NEW pick \in Picks, NEW s \in Subnets, ListRead(w, s, "convert", pick)
          PROVE  IInv'
      BY <2>2, ReadKeeps, ClaimType DEF Purposes
    <2>3. QED
      BY <1>2, <2>1, <2>2, AskKeeps, AskFailsKeeps, SweepKeeps DEF List
  <1>3. ASSUME NEW w \in Workers, Convert(w)
        PROVE  IInv'
    BY <1>3, StackKeeps, RowsKeeps, ConvertKeeps, SendFailsKeeps, RefusedKeeps DEF Convert
  <1>4. ASSUME NEW w \in Workers, Delete(w)
        PROVE  IInv'
    <2>1. \A s : InSubnet(s) \subseteq Addresses
      BY DEF InSubnet
    <2>2. ASSUME NEW s \in Subnets, NEW on \in SUBSET InSubnet(s), DeleteRead(w, on)
          PROVE  IInv'
      BY <2>1, <2>2, DeleteReadKeeps
    <2>3. ASSUME DeleteFindFails(w) \/ DeleteSendFails(w)
          PROVE  IInv'
      BY <2>3, OnlyEnds DEF DeleteFindFails, DeleteSendFails, Become
    <2>4. QED
      BY <1>4, <2>2, <2>3, FindKeeps, SendKeeps, CommitKeeps DEF Delete
  <1>5. CASE UNCHANGED vars
    <2>1. UNCHANGED <<leases, epoch, copies, reservations, nodes, offer, job, deleted, unsent,
                      apart>>
      BY <1>5 DEF vars, server, tables, history
    <2>2. QED
      BY <2>1 DEF IInv, TypeOK, LeasesAreCurrent, CopiesAreOfDeleted, JobsKnow, ConversionsSee,
                  NodesFollow
  <1>6. CASE Stop
    BY <1>6, StopKeeps
  <1>7. QED
    BY <1>1, <1>2, <1>3, <1>4, <1>5, <1>6 DEF Next

LEMMA Invariant == Spec => []IInv
  BY InitIsInvariant, NextKeeps, PTL DEF Spec

\* A lease6 is missing from a list only if the server was told to delete it, or
\* if it was deleted along with leases of the other type, whose addresses alone
\* the loop over the types sends before it returns.
THEOREM HiddenLeases6WereDeleted == Spec => []HiddenWasDeleted6
  <1>1. IInv => HiddenWasDeleted6
    BY DEF IInv, JobsKnow, Knows, HiddenWasDeleted6
  <1>2. QED
    BY <1>1, Invariant, PTL

\* A conversion of leases into reservations reserves an address only for a
\* client that has held it while the conversion ran, however long ago the leases
\* were offered and whatever other requests and the server do.
THEOREM ConvertedLeasesWereHeld == Spec => []ConvertedWasLeased
  <1>1. IInv => ConvertedWasLeased
    BY DEF IInv, ConversionsSee, Sees, ConvertedWasLeased
  <1>2. QED
    BY <1>1, Invariant, PTL

\* However conversions of the same leases overlap, fail or are cut off, the nodes
\* have every reservation that is committed, and none that is not but those of a
\* conversion that is about to commit it.  The reservations in commands whose
\* transaction has failed since they were committed last are the exception: the
\* rollback of a command is not certain to undo it, and no later step does.
THEOREM ConversionsReachNodes == Spec => []NodesHaveConverted
  <1>1. ASSUME IInv
        PROVE  NodesHaveConverted
    <2>1. nodes \subseteq Pairs /\ reservations \subseteq Pairs
      BY <1>1 DEF IInv, TypeOK
    <2>2. \A p : (\E w \in Workers : Tells(job[w], p)) =>
                   p \in UNION {Sent(w) : w \in Workers}
      BY <1>1, SentType
    <2>3. QED
      BY <1>1, <2>1, <2>2 DEF IInv, NodesFollow, NodesHaveConverted
  <1>2. QED
    BY <1>1, Invariant, PTL

=============================================================================
