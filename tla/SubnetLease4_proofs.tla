------------------------- MODULE SubnetLease4_proofs -------------------------
(***************************************************************************)
(* Why the copies of deleted leases hide no other lease and are not lost   *)
(* while they are needed, for any addresses, subnets, clients and number   *)
(* of requests.  The argument is about epochs: a copy is of a lease that   *)
(* the address once had, and an epoch that has passed never returns, so a  *)
(* copy that was made of one lease while the server was told to delete the *)
(* next does no harm.                                                      *)
(***************************************************************************)
EXTENDS SubnetLease4, TLAPS

Some == Lease \cup {None}

LeasesAreCurrent == \A a \in Addresses : leases[a].epoch <= expiry[a]

\* c is of a lease of an address that has lease l and has had x epochs.
Past(c, l, x) ==
    /\ c \in Some /\ c.epoch <= x
    /\ c # None /\ c.epoch = l.epoch => c.client = l.client

\* Moreover, if it is the present lease of a then the server was told to delete it.
Copied(a, c, l, x, told) ==
    /\ Past(c, l, x)
    /\ c # None /\ c.epoch = l.epoch => <<a, c.epoch>> \in told

CopiesAreOfDeleted == \A a \in Addresses : Copied(a, rows[a], leases[a], expiry[a], deleted)

\* A request knows copies, or leases that it is about to delete.  A list retains
\* the copies it has compared with a lease that is still there.
Knows(j, l, x, told) ==
    /\ \A a \in Addresses :
          /\ j.step \in {"ask", "find"} => Copied(a, j.copies[a], l[a], x[a], told)
          /\ j.step = "insert" => Past(j.new[a], l[a], x[a])
          /\ j.step = "sent" => Copied(a, j.new[a], l[a], x[a], told)
    /\ j.step = "sweep" =>
          /\ j.hidden \subseteq told
          /\ \A a \in Addresses, e \in 1 .. MaxEpoch : <<a, e>> \in j.known =>
                e <= x[a] /\ (e = l[a].epoch => a \in j.retain)

JobsKnow == \A w \in Workers : Knows(job[w], leases, expiry, deleted)

IInv == TypeOK /\ LeasesAreCurrent /\ CopiesAreOfDeleted /\ JobsKnow

-----------------------------------------------------------------------------
(***************************************************************************)
(* Types                                                                   *)
(***************************************************************************)
LEMMA SomeType ==
    /\ MaxEpoch \in Nat /\ None \in Some /\ None.epoch = 0
    /\ \A l \in Some : l.epoch \in 0 .. MaxEpoch /\ (l # None <=> l.epoch # 0)
    /\ \A l \in Some : l # None => l \in Lease /\ l.epoch \in 1 .. MaxEpoch /\ l.client \in Clients
  BY LeaseAssumption DEF Some, Lease, None

\* The request of each step.
LEMMA JobType ==
    ASSUME NEW j \in Jobs
    PROVE  /\ j.step \in {"idle", "ask", "sweep", "find", "insert", "sent"}
           /\ j.step = "ask" => /\ j.filter \in Filters /\ j.on \subseteq Addresses
                                /\ j.copies \in [Addresses -> Some]
           /\ j.step = "sweep" => /\ j.retain \subseteq Addresses
                                  /\ j.hidden \subseteq Held /\ j.known \subseteq Held
           /\ j.step = "find" => j.on \subseteq Addresses /\ j.copies \in [Addresses -> Some]
           /\ j.step \in {"insert", "sent"} => j.new \in [Addresses -> Some]
           /\ j.step = "insert" => [j EXCEPT !.step = "sent"] = [step |-> "sent", new |-> j.new]
  <1> USE DEF Some
  <1>1. CASE j = Idle
    BY <1>1 DEF Idle
  <1>2. CASE j \in [step: {"ask"}, filter: Filters, on: SUBSET Addresses,
                    copies: [Addresses -> Lease \cup {None}]]
    BY <1>2
  <1>3. CASE j \in [step: {"sweep"}, retain: SUBSET Addresses, hidden: SUBSET Held,
                    known: SUBSET Held]
    BY <1>3
  <1>4. CASE j \in [step: {"find"}, on: SUBSET Addresses,
                    copies: [Addresses -> Lease \cup {None}]]
    BY <1>4
  <1>5. CASE j \in [step: {"insert", "sent"}, new: [Addresses -> Lease \cup {None}]]
    <2>1. j.step \in {"insert", "sent"} /\ j.new \in [Addresses -> Some]
      BY <1>5
    <2>2. [j EXCEPT !.step = "sent"] = [step |-> "sent", new |-> j.new]
      BY <1>5
    <2> QED
      BY <2>1, <2>2
  <1> QED
    BY <1>1, <1>2, <1>3, <1>4, <1>5 DEF Jobs

\* Requests that steps make.
LEMMA NewJobs ==
    /\ Idle \in Jobs /\ Idle.step = "idle"
    /\ \A filter \in Filters, on \in SUBSET Addresses, copies \in [Addresses -> Some] :
          [step |-> "ask", filter |-> filter, on |-> on, copies |-> copies] \in Jobs
    /\ \A on \in SUBSET Addresses, copies \in [Addresses -> Some] :
          [step |-> "find", on |-> on, copies |-> copies] \in Jobs
    /\ \A retain \in SUBSET Addresses, hidden, known \in SUBSET Held :
          [step |-> "sweep", retain |-> retain, hidden |-> hidden, known |-> known] \in Jobs
    /\ \A s \in {"insert", "sent"}, new \in [Addresses -> Some] : [step |-> s, new |-> new] \in Jobs
  BY DEF Jobs, Idle, Some

LEMMA InitIInv == Init => IInv
  <1> SUFFICES ASSUME Init PROVE IInv
    OBVIOUS
  <1>1. TypeOK
    BY SomeType, NewJobs DEF Init, TypeOK, Some
  <1>2. \A a \in Addresses : leases[a] = None /\ rows[a] = None /\ expiry[a] = 0
    BY DEF Init
  <1>3. \A w \in Workers : job[w].step = "idle"
    BY NewJobs DEF Init
  <1> QED
    BY <1>1, <1>2, <1>3, SomeType
       DEF IInv, LeasesAreCurrent, CopiesAreOfDeleted, Copied, Past, JobsKnow, Knows

-----------------------------------------------------------------------------
(***************************************************************************)
(* Time passes                                                             *)
(***************************************************************************)

\* What a server or a request may do to leases and to what was deleted: a new
\* lease has a new epoch.
Onward ==
    /\ deleted \subseteq deleted'
    /\ \A a \in Addresses :
          /\ expiry'[a] \in Nat /\ expiry[a] \in Nat /\ expiry[a] <= expiry'[a]
          /\ \/ leases'[a].epoch = leases[a].epoch /\ leases'[a].client = leases[a].client
             \/ leases'[a] = None
             \/ leases'[a].epoch > expiry[a]

LEMMA PastIsPast ==
    ASSUME Onward, NEW a \in Addresses, NEW c, Past(c, leases[a], expiry[a])
    PROVE  /\ Past(c, leases'[a], expiry'[a])
           /\ Copied(a, c, leases[a], expiry[a], deleted)
                 => Copied(a, c, leases'[a], expiry'[a], deleted')
  <1>1. c \in Some /\ c.epoch \in Nat /\ (c # None => c.epoch # 0) /\ None.epoch = 0
    BY SomeType DEF Past
  <1>2. Past(c, leases'[a], expiry'[a])
    BY <1>1 DEF Onward, Past
  <1>3. Copied(a, c, leases[a], expiry[a], deleted) => Copied(a, c, leases'[a], expiry'[a], deleted')
    BY <1>1, <1>2 DEF Onward, Past, Copied
  <1> QED
    BY <1>2, <1>3

\* What a request knows stays true.
LEMMA KnowsOnward ==
    ASSUME Onward, NEW j \in Jobs, Knows(j, leases, expiry, deleted)
    PROVE  Knows(j, leases', expiry', deleted')
  <1>1. ASSUME NEW a \in Addresses
        PROVE  /\ j.step \in {"ask", "find"}
                     => Copied(a, j.copies[a], leases'[a], expiry'[a], deleted')
               /\ j.step = "insert" => Past(j.new[a], leases'[a], expiry'[a])
               /\ j.step = "sent" => Copied(a, j.new[a], leases'[a], expiry'[a], deleted')
    BY PastIsPast DEF Knows, Copied
  <1>2. ASSUME j.step = "sweep"
        PROVE  /\ j.hidden \subseteq deleted'
               /\ \A a \in Addresses, e \in 1 .. MaxEpoch : <<a, e>> \in j.known =>
                     e <= expiry'[a] /\ (e = leases'[a].epoch => a \in j.retain)
    <2>1. None.epoch = 0
      BY SomeType
    <2>2. MaxEpoch \in Nat
      BY SomeType
    <2> QED
      BY <1>2, <2>1, <2>2 DEF Knows, Onward
  <1> QED
    BY <1>1, <1>2 DEF Knows

\* Copies and requests keep, if a step changes one request at most.
LEMMA OthersKeep ==
    ASSUME IInv, Onward, TypeOK', LeasesAreCurrent',
           \A a \in Addresses : Copied(a, rows'[a], leases'[a], expiry'[a], deleted'),
           \A w \in Workers : job'[w] = job[w] \/ Knows(job'[w], leases', expiry', deleted')
    PROVE  IInv'
  <1>1. \A w \in Workers : job[w] \in Jobs /\ Knows(job[w], leases, expiry, deleted)
    BY DEF IInv, TypeOK, JobsKnow
  <1>2. \A w \in Workers : Knows(job'[w], leases', expiry', deleted')
    BY <1>1, KnowsOnward
  <1> QED
    BY <1>2 DEF IInv, CopiesAreOfDeleted, JobsKnow

\* A step that only changes one request.
LEMMA RequestStep ==
    ASSUME IInv, UNCHANGED <<leases, expiry>>, NEW w \in Workers, NEW j \in Jobs,
           job' = [job EXCEPT ![w] = j], Knows(j, leases, expiry, deleted'),
           deleted \subseteq deleted', deleted' \subseteq Held,
           rows' \in [Addresses -> Some],
           \A a \in Addresses : \/ rows'[a] \in {rows[a], None}
                               \/ Copied(a, rows'[a], leases[a], expiry[a], deleted)
    PROVE  IInv'
  <1>1. \A v \in Workers : job'[v] = job[v] \/ job'[v] = j
    BY DEF IInv, TypeOK
  <1>2. Onward
    BY DEF IInv, TypeOK, Onward
  <1>3. TypeOK' /\ LeasesAreCurrent'
    BY <1>1 DEF IInv, TypeOK, LeasesAreCurrent, Some
  <1>4. ASSUME NEW a \in Addresses
        PROVE  Copied(a, rows'[a], leases'[a], expiry'[a], deleted')
    <2>1. Copied(a, rows[a], leases[a], expiry[a], deleted)
      BY DEF IInv, CopiesAreOfDeleted
    <2>2. Copied(a, None, leases[a], expiry[a], deleted)
      <3>1. expiry[a] \in Nat
        BY DEF IInv, TypeOK
      <3> QED
        BY <3>1, SomeType DEF Copied, Past
    <2>3. Copied(a, rows'[a], leases[a], expiry[a], deleted)
      BY <2>1, <2>2
    <2> QED
      BY <1>2, <2>3, PastIsPast DEF Copied
  <1>5. \A v \in Workers : job'[v] = job[v] \/ Knows(job'[v], leases', expiry', deleted')
    BY <1>1
  <1> QED
    BY <1>2, <1>3, <1>4, <1>5, OthersKeep

-----------------------------------------------------------------------------
(***************************************************************************)
(* The server                                                              *)
(***************************************************************************)
LEMMA ServerKeeps ==
    ASSUME IInv, NEW a \in Addresses, (\E c \in Clients : Grant(a, c)) \/ Decline(a) \/ Reclaim(a)
    PROVE  IInv'
  <1> USE DEF IInv
  <1>1. /\ leases \in [Addresses -> Some] /\ expiry \in [Addresses -> 0 .. MaxEpoch]
        /\ leases[a].epoch \in Nat /\ MaxEpoch \in Nat /\ None.epoch = 0
        /\ UNCHANGED <<rows, job, deleted>>
    BY SomeType DEF TypeOK, Some, Grant, Decline, Reclaim
  <1>2. ASSUME NEW c \in Clients, Grant(a, c)
        PROVE  TypeOK' /\ LeasesAreCurrent' /\ Onward
    <2> DEFINE l == [client |-> c, epoch |-> expiry[a] + 1, normal |-> TRUE]
    <2>1. expiry' = [expiry EXCEPT ![a] = expiry[a] + 1] /\ expiry[a] < MaxEpoch
      BY <1>2 DEF Grant
    <2>2. leases' = [leases EXCEPT ![a] = l]
      BY <1>1, <1>2, <2>1 DEF Grant
    <2>3. l \in Lease /\ l.epoch = expiry[a] + 1
      BY <1>1, <2>1 DEF Lease
    <2> HIDE DEF l
    <2> QED
      BY <1>1, <2>1, <2>2, <2>3 DEF TypeOK, LeasesAreCurrent, Onward, Some
  <1>3. ASSUME Decline(a)
        PROVE  TypeOK' /\ LeasesAreCurrent' /\ Onward
    <2> DEFINE l == [leases[a] EXCEPT !.normal = FALSE]
    <2>1. leases[a] \in Lease /\ leases' = [leases EXCEPT ![a] = l] /\ UNCHANGED expiry
      BY <1>1, <1>3 DEF Decline, Some
    <2>2. l \in Lease /\ l.epoch = leases[a].epoch /\ l.client = leases[a].client
      BY <2>1 DEF Lease
    <2> HIDE DEF l
    <2> QED
      BY <1>1, <2>1, <2>2 DEF TypeOK, LeasesAreCurrent, Onward, Some
  <1>4. ASSUME Reclaim(a)
        PROVE  TypeOK' /\ LeasesAreCurrent' /\ Onward
    <2>1. leases' = [leases EXCEPT ![a] = None] /\ UNCHANGED expiry
      BY <1>4 DEF Reclaim
    <2> QED
      BY <1>1, <2>1 DEF TypeOK, LeasesAreCurrent, Onward, Some
  <1>5. TypeOK' /\ LeasesAreCurrent' /\ Onward
    BY <1>2, <1>3, <1>4
  <1>6. \A b \in Addresses : Copied(b, rows'[b], leases'[b], expiry'[b], deleted')
    BY <1>1, <1>5, PastIsPast DEF CopiesAreOfDeleted, Copied
  <1> QED
    BY <1>1, <1>5, <1>6, OthersKeep

-----------------------------------------------------------------------------
(***************************************************************************)
(* Lists                                                                   *)
(***************************************************************************)
LEMMA CopiesType ==
    ASSUME IInv, NEW on \in SUBSET Addresses
    PROVE  /\ Copies(on) \in [Addresses -> Some]
           /\ \A a \in Addresses : Copied(a, Copies(on)[a], leases[a], expiry[a], deleted)
  <1>1. \A a \in Addresses : Copied(a, None, leases[a], expiry[a], deleted)
    <2>1. \A a \in Addresses : expiry[a] \in Nat
      BY DEF IInv, TypeOK
    <2> QED
      BY <2>1, SomeType DEF Copied, Past
  <1> QED
    BY <1>1, SomeType DEF Copies, IInv, TypeOK, CopiesAreOfDeleted, Some

LEMMA ToIdle ==
    ASSUME IInv, NEW w \in Workers, job' = [job EXCEPT ![w] = Idle],
           UNCHANGED <<leases, expiry, rows, deleted>>
    PROVE  IInv'
  <1>1. Knows(Idle, leases, expiry, deleted')
    BY NewJobs DEF Knows
  <1>2. rows \in [Addresses -> Some] /\ deleted \subseteq Held
    BY DEF IInv, TypeOK, Some
  <1> QED
    BY <1>1, <1>2, NewJobs, RequestStep

LEMMA ReadKeeps ==
    ASSUME IInv, NEW w \in Workers,
           \/ \E s \in Subnets, filter \in Filters : ListRead(w, s, filter)
           \/ \E s \in Subnets : \E on \in SUBSET InSubnet(s) \ {{}} : DeleteRead(w, on)
    PROVE  IInv'
  <1>1. rows \in [Addresses -> Some] /\ deleted \subseteq Held
    BY DEF IInv, TypeOK, Some
  <1>2. ASSUME NEW s \in Subnets, NEW filter \in Filters, ListRead(w, s, filter)
        PROVE  IInv'
    <2> DEFINE ons == IF filter = "ip" THEN {{a} : a \in InSubnet(s)} ELSE {InSubnet(s)}
    <2>0. InSubnet(s) \subseteq Addresses /\ \A on \in ons : on \in SUBSET Addresses
      BY DEF InSubnet
    <2>1. PICK on \in ons :
             job' = [job EXCEPT ![w] = [step |-> "ask", filter |-> filter, on |-> on,
                                        copies |-> Copies(on)]]
      BY <1>2 DEF ListRead
    <2> on \in SUBSET Addresses
      BY <2>0
    <2> HIDE DEF ons
    <2> DEFINE j == [step |-> "ask", filter |-> filter, on |-> on, copies |-> Copies(on)]
    <2>2. j \in Jobs /\ j.step = "ask" /\ j.copies = Copies(on)
      BY NewJobs, CopiesType
    <2> HIDE DEF j
    <2>3. Knows(j, leases, expiry, deleted)
      BY <2>2, CopiesType DEF Knows
    <2>4. job' = [job EXCEPT ![w] = j] /\ UNCHANGED <<leases, expiry, rows, deleted>>
      BY <1>2, <2>1 DEF ListRead, j
    <2> QED
      BY <1>1, <2>2, <2>3, <2>4, RequestStep
  <1>3. ASSUME NEW s \in Subnets, NEW on \in SUBSET InSubnet(s), DeleteRead(w, on)
        PROVE  IInv'
    <2> DEFINE j == [step |-> "find", on |-> on, copies |-> Copies(on)]
    <2>1. on \in SUBSET Addresses
      BY DEF InSubnet
    <2>2. j \in Jobs /\ j.step = "find" /\ j.copies = Copies(on)
      BY <2>1, NewJobs, CopiesType
    <2>3. job' = [job EXCEPT ![w] = j] /\ UNCHANGED <<leases, expiry, rows, deleted>>
      BY <1>3 DEF DeleteRead
    <2> HIDE DEF j
    <2>4. Knows(j, leases, expiry, deleted)
      BY <2>1, <2>2, CopiesType DEF Knows
    <2> QED
      BY <1>1, <2>2, <2>3, <2>4, RequestStep
  <1> QED
    BY <1>2, <1>3

LEMMA AskKeeps == ASSUME IInv, NEW w \in Workers, ListAsk(w) PROVE IInv'
  <1> DEFINE seen == {a \in job[w].on : /\ leases[a] # None
                                        /\ job[w].filter = "normal" => leases[a].normal}
             retain == {a \in seen : Same(job[w].copies[a], leases[a])}
             hidden == {<<a, leases[a].epoch>> : a \in retain}
             compared == {b \in job[w].on : /\ job[w].copies[b] # None
                                            /\ leases[b] # None => b \in seen}
             known == {<<a, job[w].copies[a].epoch>> : a \in compared}
             j == [step |-> "sweep", retain |-> retain, hidden |-> hidden, known |-> known]
  <1>1. job' = [job EXCEPT ![w] = j] /\ UNCHANGED <<leases, expiry, rows, deleted>>
    BY DEF ListAsk
  <1>2. /\ job[w].on \subseteq Addresses /\ job[w].copies \in [Addresses -> Some]
        /\ \A a \in Addresses : Copied(a, job[w].copies[a], leases[a], expiry[a], deleted)
    BY JobType DEF ListAsk, IInv, TypeOK, JobsKnow, Knows
  <1>3. /\ leases \in [Addresses -> Some] /\ rows \in [Addresses -> Some] /\ deleted \subseteq Held
        /\ \A a \in Addresses : expiry[a] \in Nat
    BY DEF IInv, TypeOK, Some
  <1>4. retain \in SUBSET Addresses
    BY <1>2
  <1>5. hidden \subseteq Held /\ hidden \subseteq deleted
    <2>1. ASSUME NEW a \in retain
          PROVE  <<a, leases[a].epoch>> \in deleted
      BY <1>2, <1>3, SomeType DEF Copied, Same
    <2> QED
      BY <1>3, <2>1
  <1>6. known \subseteq Held
    BY <1>2, SomeType DEF Held
  <1>7. ASSUME NEW a \in Addresses, NEW e \in 1 .. MaxEpoch, <<a, e>> \in known
        PROVE  e <= expiry[a] /\ (e = leases[a].epoch => a \in retain)
    <2>1. a \in compared /\ e = job[w].copies[a].epoch
      BY <1>7
    <2>2. e <= expiry[a]
      BY <1>2, <2>1 DEF Copied, Past
    <2>3. ASSUME e = leases[a].epoch
          PROVE  a \in retain
      <3>1. leases[a] # None
        BY <1>3, <2>3, SomeType
      <3>2. Same(job[w].copies[a], leases[a])
        BY <1>2, <2>1, <2>3, <3>1 DEF Same, Copied, Past
      <3> QED
        BY <2>1, <3>1, <3>2
    <2> QED
      BY <2>2, <2>3
  <1>8. j \in Jobs
    BY <1>4, <1>5, <1>6, NewJobs
  <1>9. j.step = "sweep" /\ j.retain = retain /\ j.hidden = hidden /\ j.known = known
    OBVIOUS
  <1> HIDE DEF j, known, hidden, retain
  <1>10. Knows(j, leases, expiry, deleted)
    BY <1>5, <1>7, <1>9 DEF Knows
  <1> QED
    BY <1>1, <1>3, <1>8, <1>10, RequestStep

LEMMA ListEnds ==
    ASSUME IInv, NEW w \in Workers, ListAskFails(w) \/ ListSweep(w) \/ ListSweepFails(w)
    PROVE  IInv'
  <1>1. rows \in [Addresses -> Some] /\ deleted \subseteq Held
    BY DEF IInv, TypeOK, Some
  <1>2. ASSUME ListAskFails(w)
        PROVE  IInv'
    <2> DEFINE j == [step |-> "sweep", retain |-> {}, hidden |-> {}, known |-> {}]
    <2>1. j \in Jobs /\ j.step = "sweep" /\ j.hidden = {} /\ j.known = {}
      BY NewJobs
    <2>2. job' = [job EXCEPT ![w] = j] /\ UNCHANGED <<leases, expiry, rows, deleted>>
      BY <1>2 DEF ListAskFails
    <2> HIDE DEF j
    <2>3. Knows(j, leases, expiry, deleted)
      BY <2>1 DEF Knows
    <2> QED
      BY <1>1, <2>1, <2>2, <2>3, RequestStep
  <1>3. ASSUME ListSweep(w)
        PROVE  IInv'
    <2>1. /\ rows' = [a \in Addresses |-> IF a \in job[w].retain THEN rows[a] ELSE None]
          /\ job' = [job EXCEPT ![w] = Idle] /\ UNCHANGED <<leases, expiry, deleted>>
      BY <1>3 DEF ListSweep, Kept
    <2>2. Knows(Idle, leases, expiry, deleted)
      BY NewJobs DEF Knows
    <2>3. rows' \in [Addresses -> Some] /\ \A a \in Addresses : rows'[a] \in {rows[a], None}
      BY <1>1, <2>1, SomeType
    <2> QED
      BY <1>1, <2>1, <2>2, <2>3, NewJobs, RequestStep
  <1> QED
    BY <1>2, <1>3, ToIdle DEF ListSweepFails

-----------------------------------------------------------------------------
(***************************************************************************)
(* Deletions                                                               *)
(***************************************************************************)
LEMMA FindKeeps == ASSUME IInv, NEW w \in Workers, DeleteFind(w) PROVE IInv'
  <1> DEFINE live == {a \in job[w].on : /\ leases[a] # None
                                        /\ ~Same(job[w].copies[a], leases[a])}
             new == [a \in Addresses |-> IF a \in live THEN leases[a] ELSE None]
             j == [step |-> "insert", new |-> new]
  <1>1. /\ job' = [job EXCEPT ![w] = IF live = {} THEN Idle ELSE j]
        /\ UNCHANGED <<leases, expiry, rows, deleted>>
    BY DEF DeleteFind
  <1>2. /\ leases \in [Addresses -> Some] /\ rows \in [Addresses -> Some] /\ deleted \subseteq Held
        /\ \A a \in Addresses : expiry[a] \in Nat /\ leases[a].epoch <= expiry[a]
    BY DEF IInv, TypeOK, Some, LeasesAreCurrent
  <1>3. /\ new \in [Addresses -> Some]
        /\ \A a \in Addresses : Past(new[a], leases[a], expiry[a])
    BY <1>2, SomeType DEF Past
  <1>4. j \in Jobs /\ j.step = "insert" /\ j.new = new
    BY <1>3, NewJobs
  <1> HIDE DEF j, live, new
  <1>5. Knows(j, leases, expiry, deleted)
    BY <1>3, <1>4 DEF Knows
  <1> QED
    BY <1>1, <1>2, <1>4, <1>5, ToIdle, RequestStep

\* The server deletes what holds the addresses now, which may be a lease that
\* came after the one copied: then the copy is of a lease that is past.
LEMMA SendKeeps == ASSUME IInv, NEW w \in Workers, DeleteSend(w) PROVE IInv'
  <1> DEFINE live == {a \in Addresses : job[w].new[a] # None}
             j == [step |-> "sent", new |-> job[w].new]
  <1>1. /\ job[w] \in Jobs /\ job[w].step = "insert" /\ UNCHANGED <<leases, expiry, rows>>
        /\ deleted' = deleted \cup {<<a, leases[a].epoch>> : a \in {b \in live : leases[b] # None}}
        /\ job' = [job EXCEPT ![w] = [job[w] EXCEPT !.step = "sent"]]
    BY DEF DeleteSend, IInv, TypeOK
  <1>2. /\ job[w].new \in [Addresses -> Some] /\ [job[w] EXCEPT !.step = "sent"] = j
        /\ \A a \in Addresses : Past(job[w].new[a], leases[a], expiry[a])
    BY <1>1, JobType DEF IInv, JobsKnow, Knows
  <1>3. leases \in [Addresses -> Some] /\ rows \in [Addresses -> Some] /\ deleted \subseteq Held
    BY DEF IInv, TypeOK, Some
  <1>4. deleted' \subseteq Held /\ deleted \subseteq deleted'
    <2>1. \A a \in Addresses : leases[a] # None => <<a, leases[a].epoch>> \in Held
      BY <1>3, SomeType DEF Held
    <2> QED
      BY <1>1, <1>3, <2>1
  <1>5. ASSUME NEW a \in Addresses
        PROVE  Copied(a, job[w].new[a], leases[a], expiry[a], deleted')
    <2>1. ASSUME job[w].new[a] # None, job[w].new[a].epoch = leases[a].epoch
          PROVE  <<a, leases[a].epoch>> \in deleted'
      <3>1. leases[a] # None
        BY <1>2, <1>3, <2>1, SomeType
      <3> QED
        BY <1>1, <2>1, <3>1
    <2> QED
      BY <1>2, <2>1 DEF Copied
  <1>6. j \in Jobs /\ j.step = "sent" /\ j.new = job[w].new
    BY <1>2, NewJobs
  <1> HIDE DEF j, live
  <1>7. Knows(j, leases, expiry, deleted')
    BY <1>5, <1>6 DEF Knows
  <1> QED
    BY <1>1, <1>2, <1>3, <1>4, <1>6, <1>7, RequestStep

LEMMA CommitKeeps == ASSUME IInv, NEW w \in Workers, DeleteCommit(w) PROVE IInv'
  <1>1. /\ rows' = [a \in Addresses |-> IF job[w].new[a] # None THEN job[w].new[a] ELSE rows[a]]
        /\ job' = [job EXCEPT ![w] = Idle] /\ UNCHANGED <<leases, expiry, deleted>>
        /\ job[w] \in Jobs /\ job[w].step = "sent"
    BY DEF DeleteCommit, IInv, TypeOK
  <1>2. /\ job[w].new \in [Addresses -> Some]
        /\ \A a \in Addresses : Copied(a, job[w].new[a], leases[a], expiry[a], deleted)
    BY <1>1, JobType DEF IInv, JobsKnow, Knows
  <1>3. rows \in [Addresses -> Some] /\ deleted \subseteq Held
    BY DEF IInv, TypeOK, Some
  <1>4. /\ rows' \in [Addresses -> Some]
        /\ \A a \in Addresses :
              rows'[a] = rows[a] \/ Copied(a, rows'[a], leases[a], expiry[a], deleted)
    BY <1>1, <1>2, <1>3
  <1>5. Knows(Idle, leases, expiry, deleted)
    BY NewJobs DEF Knows
  <1> QED
    BY <1>1, <1>3, <1>4, <1>5, NewJobs, RequestStep

LEMMA NextIInv == IInv /\ [Next]_vars => IInv'
  <1> SUFFICES ASSUME IInv, [Next]_vars PROVE IInv'
    OBVIOUS
  <1>1. CASE Server
    BY <1>1, ServerKeeps DEF Server
  <1>2. ASSUME NEW w \in Workers, List(w)
        PROVE  IInv'
    BY <1>2, ReadKeeps, AskKeeps, ListEnds DEF List
  <1>3. ASSUME NEW w \in Workers, Delete(w)
        PROVE  IInv'
    <2>1. ASSUME DeleteFindFails(w) \/ DeleteSendFails(w) \/ DeleteCommitFails(w)
          PROVE  IInv'
      BY <2>1, ToIdle DEF DeleteFindFails, DeleteSendFails, DeleteCommitFails
    <2> QED
      BY <1>3, <2>1, ReadKeeps, FindKeeps, SendKeeps, CommitKeeps DEF Delete
  <1>4. CASE UNCHANGED vars
    BY <1>4 DEF vars, IInv, TypeOK, LeasesAreCurrent, CopiesAreOfDeleted, JobsKnow
  <1> QED
    BY <1>1, <1>2, <1>3, <1>4 DEF Next

LEMMA Invariant == Spec => []IInv
  BY InitIInv, NextIInv, PTL DEF Spec

-----------------------------------------------------------------------------
\* A lease is missing from a list only if the server was told to delete that
\* very lease, whatever lists, deletions and clients do at the same time, and
\* also if agents do not answer.
THEOREM HiddenLeasesWereDeleted == Spec => []HiddenWasDeleted
  <1>1. IInv => HiddenWasDeleted
    BY DEF IInv, JobsKnow, Knows, HiddenWasDeleted
  <1> QED
    BY <1>1, Invariant, PTL

\* A step of a request changes the work of that request only.
LEMMA OwnJob ==
    ASSUME NEW v \in Workers, List(v) \/ Delete(v), NEW w \in Workers, w # v
    PROVE  job'[w] = job[w]
  <1>1. ASSUME List(v)
        PROVE  \E j : job' = [job EXCEPT ![v] = j]
    BY <1>1 DEF List, ListRead, ListAsk, ListAskFails, ListSweep, ListSweepFails
  <1>2. ASSUME Delete(v)
        PROVE  \E j : job' = [job EXCEPT ![v] = j]
    <2>1. ASSUME DeleteSend(v)
          PROVE  \E j : job' = [job EXCEPT ![v] = j]
      BY <2>1 DEF DeleteSend
    <2> QED
      BY <1>2, <2>1
         DEF Delete, DeleteRead, DeleteFind, DeleteFindFails, DeleteSendFails, DeleteCommit,
             DeleteCommitFails
  <1>3. PICK j : job' = [job EXCEPT ![v] = j]
    BY <1>1, <1>2
  <1> QED
    BY <1>3

Keeps(w, a) ==
    /\ job[w].step = "sweep" /\ job'[w] = Idle
    /\ <<a, rows[a].epoch>> \in job[w].known
    /\ Same(rows[a], leases[a])
    => rows'[a] = rows[a]

LEMMA StepKeeps ==
    ASSUME IInv, [Next]_vars, NEW w \in Workers, NEW a \in Addresses
    PROVE  Keeps(w, a)
  <1> SUFFICES ASSUME job[w].step = "sweep", job'[w] = Idle,
                      <<a, rows[a].epoch>> \in job[w].known,
                      Same(rows[a], leases[a])
               PROVE  rows'[a] = rows[a]
    BY DEF Keeps
  <1>1. a \in job[w].retain
    <2>1. rows[a].epoch \in 1 .. MaxEpoch /\ rows[a].epoch = leases[a].epoch
      BY SomeType DEF IInv, TypeOK, Same, Some
    <2> QED
      BY <2>1 DEF IInv, JobsKnow, Knows
  <1>2. job[w].step # "idle" /\ job[w] # Idle /\ job'[w] # job[w]
    BY NewJobs
  <1>3. ~Server /\ ~UNCHANGED vars
    BY <1>2 DEF Server, Grant, Decline, Reclaim, vars
  <1>4. List(w) \/ Delete(w)
    BY <1>2, <1>3, OwnJob DEF Next
  <1>5. ~Delete(w)
    BY <1>2
       DEF Delete, DeleteRead, DeleteFind, DeleteFindFails, DeleteSend, DeleteSendFails,
           DeleteCommit, DeleteCommitFails
  <1>6. ListSweep(w) \/ ListSweepFails(w)
    BY <1>2, <1>4, <1>5 DEF List, ListRead, ListAsk, ListAskFails
  <1> QED
    BY <1>1, <1>6 DEF ListSweep, ListSweepFails, Kept

\* A list does not remove a copy that it has compared and that is still needed:
\* the lease may be granted anew, but not with the copy's epoch.
THEOREM ComparedCopiesAreKept == Spec => ComparedCopyKept
  <1> DEFINE AllKept == \A w \in Workers, a \in Addresses : Keeps(w, a)
  <1>1. IInv /\ [Next]_vars => [AllKept]_vars
    BY StepKeeps
  <1>2. [][AllKept]_vars => ComparedCopyKept
    BY DEF AllKept, Keeps, ComparedCopyKept
  <1> HIDE DEF AllKept
  <1> QED
    BY <1>1, <1>2, Invariant, PTL DEF Spec

=============================================================================
