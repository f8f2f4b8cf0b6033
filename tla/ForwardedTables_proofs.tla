----------------------- MODULE ForwardedTables_proofs -----------------------
(***************************************************************************)
(* Why a node has the rows of a forwarded table, for every service, any    *)
(* keys, values and number of workers.  A row is locked from the write of  *)
(* a request to its commit, so one command at a time is about it; what is  *)
(* sent then is what will be committed, if the request decided on the row  *)
(* that it has locked.                                                     *)
(*                                                                         *)
(* NodeRows: why a node has what a row says, for each table.  The columns  *)
(* that creations, updates and deletions are made of go together           *)
(* (Coherent), from which alone it follows that what has been sent is what *)
(* the row would give.  The timers are arithmetic, of any width.           *)
(***************************************************************************)
EXTENDS ForwardedTables, NodeRows, TLAPS

Begun(t) == {w \in Workers : t[w] # Idle}

\* The affected rows decide about everything, and updates are always sent.
Ordered(s) == s.updateRowsDecide /\ s.deleteRowsDecide /\ s.always

Inserts == {"insert", "import", "observe"}

DeletesDecide(s, q) ==
    IF Cardinality(q.keys) > 1 THEN s.batches.rowsDecide ELSE s.deleteRowsDecide

\* What a request of a service found when it read, as far as it looked.
Checked(t, s) ==
    LET q == t.request
    IN  /\ q.op = "update" /\ ~s.updateRowsDecide => \A k \in q.keys : t.old[k] # NoRow
        /\ q.op = "delete" /\ ~DeletesDecide(s, q) => \A k \in q.keys : t.old[k] # NoRow
        /\ q.op = "delete" /\ Ordered(s) => DeletesDecide(s, q)
        /\ q.op = "use" => s.used /\ t.phase = "read"

\* What it has locked of the rows by its write, and what it has decided to send.
Holds(t, s, rows, changed) ==
    LET q == t.request
    IN  /\ t.phase = "read" => t.locked = {}
        /\ t.phase # "read" =>
              /\ q.keys \ t.locked \subseteq changed
              /\ Ordered(s) \/ q.op \in Inserts => t.locked = q.keys
              /\ \A k \in t.locked : rows[k] = NoRow <=> q.op \in Inserts
              /\ \A k \in t.locked \ changed : rows[k] = t.old[k]
              /\ ~t.sends => /\ q.op = "update" /\ ~s.always
                             /\ \A k \in q.keys : t.old[k] = q.value

RequestsAreChecked == \A w \in Begun(tx) : Checked(tx[w], service)

LocksHold == \A w \in Begun(tx) : Holds(tx[w], service, table, stale)

\* Keys of which the node may have anything.
Excused(s, wrong, changed) == wrong \cup IF Ordered(s) THEN {} ELSE changed

NewRow(t) == IF t.request.op = "delete" THEN NoRow ELSE t.request.value

\* What the node has of k is what is committed, or what is about to be.
InStep(k, has, rows, t) ==
    /\ \A w \in Begun(t) : t[w].phase = "sent" /\ k \in t[w].locked => has[k] = NewRow(t[w])
    /\ (\A w \in Begun(t) : t[w].phase = "sent" => k \notin t[w].locked) => has[k] = rows[k]

NodeFollows == \A k \in Keys \ Excused(service, slipped, stale) : InStep(k, node, table, tx)

\* What subnets name, and what requests for them and deletions have looked at.
UsesAreKept ==
    /\ \A k \in uses \ overlapped : table[k] # NoRow
    /\ \A w \in Begun(tx) : tx[w].request.op = "use" =>
          \A k \in tx[w].request.keys \ overlapped : table[k] # NoRow
    /\ \A w \in Begun(tx) : tx[w].request.op = "delete" /\ service.used =>
          tx[w].request.keys \cap uses \subseteq overlapped
    /\ \A v, w \in Begun(tx) : tx[v].request.op = "use" /\ tx[w].request.op = "delete" =>
          tx[v].request.keys \cap tx[w].request.keys \subseteq overlapped
    /\ ~service.used => uses = {}

IInv ==
    /\ TypeOK
    /\ RequestsAreChecked
    /\ LocksHold
    /\ NodeFollows
    /\ UsesAreKept

-----------------------------------------------------------------------------
(***************************************************************************)
(* Types                                                                   *)
(***************************************************************************)
Maybe == Values \cup {NoRow}

LEMMA OrderedServices ==
    ASSUME NEW s \in Services, Ordered(s)
    PROVE  ~s.byName /\ ~s.partly /\ "batchDelete" \notin s.offers
  <1>1. ~AdmitMac.always /\ ~AdmitMac.byName /\ ~AdmitMac.partly
    BY DEF AdmitMac
  <1>2. ~DhcpOui.updateRowsDecide
    BY DEF AdmitMac, DhcpOui
  <1>3. ~DhcpFingerprint.updateRowsDecide
    BY DEF AdmitMac, DhcpOui, DhcpFingerprint
  <1>4. ~AddressCode.always
    BY DEF AdmitMac, AddressCode
  <1>5. ~AdmitDuid.always /\ ~AdmitFingerprint.always
    BY DEF AdmitMac, AdmitDuid, AdmitFingerprint
  <1>6. ~RateLimitMac.always /\ ~RateLimitDuid.always /\ ~Asset.always
    BY DEF AdmitMac, RateLimitMac, RateLimitDuid, Asset
  <1>7. s \in {ClientClass4, ClientClass6, Admit, RateLimit, Pinger}
    BY <1>1, <1>2, <1>3, <1>4, <1>5, <1>6 DEF Services, Kinds, Ordered
  <1>8. /\ ~ClientClass4.byName /\ ~ClientClass4.partly
        /\ "batchDelete" \notin ClientClass4.offers
    BY DEF AdmitMac, ClientClass4, ClientClass4Api, Table
  <1>9. /\ ~ClientClass6.byName /\ ~ClientClass6.partly
        /\ "batchDelete" \notin ClientClass6.offers
    BY DEF AdmitMac, ClientClass4, ClientClass6, ClientClass6Api, Table
  <1>10. ~Admit.byName /\ ~Admit.partly /\ "batchDelete" \notin Admit.offers
    BY DEF AdmitMac, ClientClass4, Admit, AdmitApi
  <1>11. ~RateLimit.byName /\ ~RateLimit.partly /\ "batchDelete" \notin RateLimit.offers
    BY DEF AdmitMac, ClientClass4, Admit, RateLimit, RateLimitApi
  <1>12. ~Pinger.byName /\ ~Pinger.partly /\ "batchDelete" \notin Pinger.offers
    BY DEF AdmitMac, ClientClass4, Admit, Pinger, PingerApi
  <1>13. QED
    BY <1>7, <1>8, <1>9, <1>10, <1>11, <1>12

\* The decision is made the same, whatever it is asked about.
LEMMA Decision == \A q : DeleteRowsDecide(q) <=> DeletesDecide(service, q)
  BY DEF DeleteRowsDecide, DeletesDecide

LEMMA RequestType ==
    ASSUME NEW q \in Requests
    PROVE  /\ q.op \in Inserts \cup {"update", "delete", "use"}
           /\ q.keys \subseteq Keys
           /\ q.op \in Inserts \cup {"update"} => q.value \in Values
           /\ q.op = "update" => q.sent \in Keys /\ \E k \in Keys : q.keys = {k}
  BY DEF Requests, Inserts

Transaction(t) ==
    /\ t \in Transactions
    /\ DOMAIN t.old = t.request.keys
    /\ t.locked \subseteq t.request.keys

LEMMA TransactionType ==
    ASSUME NEW t, Transaction(t)
    PROVE  /\ t.phase \in {"read", "written", "sent"}
           /\ t.request \in Requests
           /\ t.old \in [t.request.keys -> Maybe]
           /\ t.locked \subseteq t.request.keys
           /\ t.sends \in BOOLEAN
           /\ t # Idle
  <1>1. /\ t.phase \in {"read", "written", "sent"}
        /\ t.request \in Requests
        /\ t.old \in UNION {[ks -> Maybe] : ks \in SUBSET Keys}
        /\ t.sends \in BOOLEAN
    BY DEF Transaction, Transactions, Maybe
  <1>2. PICK ks \in SUBSET Keys : t.old \in [ks -> Maybe]
    BY <1>1
  <1>3. t # Idle
    BY <1>1 DEF Idle
  <1>4. QED
    BY <1>1, <1>2, <1>3 DEF Transaction

LEMMA Begins ==
    ASSUME TypeOK
    PROVE  \A w \in Begun(tx) : w \in Workers /\ Transaction(tx[w])
  BY DEF TypeOK, Begun, Transaction

LEMMA NamedType ==
    ASSUME NEW q \in Requests
    PROVE  Named(q) \subseteq Keys
  BY RequestType DEF Named

\* A new transaction, and how one goes on.
LEMMA NewTransaction ==
    ASSUME NEW q \in Requests, NEW o \in [q.keys -> Maybe]
    PROVE  Transaction([phase |-> "read", request |-> q, old |-> o,
                        locked |-> {}, sends |-> FALSE])
  <1>1. q.keys \in SUBSET Keys
    BY RequestType
  <1>2. o \in UNION {[ks -> Maybe] : ks \in SUBSET Keys}
    BY <1>1
  <1>3. QED
    BY <1>2 DEF Transaction, Transactions, Maybe

LEMMA SentTransaction ==
    ASSUME NEW t, Transaction(t), NEW s, s = [t EXCEPT !.phase = "sent"]
    PROVE  /\ Transaction(s)
           /\ s.phase = "sent" /\ s.request = t.request /\ s.old = t.old
           /\ s.locked = t.locked /\ s.sends = t.sends
  <1>1. /\ s.phase = "sent" /\ s.request = t.request /\ s.old = t.old
        /\ s.locked = t.locked /\ s.sends = t.sends
    BY DEF Transaction, Transactions
  <1>2. s \in Transactions
    BY DEF Transaction, Transactions
  <1>3. QED
    BY <1>1, <1>2 DEF Transaction

\* One worker's step.
LEMMA Stepped ==
    ASSUME TypeOK, NEW w \in Workers, NEW t, tx' = [tx EXCEPT ![w] = t]
    PROVE  /\ tx'[w] = t
           /\ \A v \in Workers : v # w => tx'[v] = tx[v]
           /\ \A v \in Begun(tx') : v # w => v \in Begun(tx)
           /\ w \in Begun(tx') => t # Idle
  BY DEF TypeOK, Begun

LEMMA TypeKeeps ==
    ASSUME TypeOK, NEW w \in Workers, NEW t, tx' = [tx EXCEPT ![w] = t],
           t = Idle \/ Transaction(t),
           \A v \in Begun(tx) : v # w /\ t # Idle => tx[v].locked \cap t.locked = {},
           service' = service, table' \in Rows, node' \in Rows, uses' \subseteq Keys,
           slipped' \cup stale' \cup overlapped' \subseteq Keys
    PROVE  TypeOK'
  <1>1. tx' \in [Workers -> Transactions \cup {Idle}]
    BY DEF TypeOK, Transaction
  <1>2. \A v \in Workers : tx'[v] # Idle =>
           /\ DOMAIN tx'[v].old = tx'[v].request.keys
           /\ tx'[v].locked \subseteq tx'[v].request.keys
    BY DEF TypeOK, Transaction
  <1>3. ASSUME NEW u \in Workers, NEW v \in Workers, u # v, tx'[u] # Idle, tx'[v] # Idle
        PROVE  tx'[u].locked \cap tx'[v].locked = {}
    BY <1>3 DEF TypeOK, Begun
  <1>4. QED
    BY <1>1, <1>2, <1>3 DEF TypeOK

LEMMA LocksKeep ==
    ASSUME TypeOK, RequestsAreChecked, LocksHold,
           NEW w \in Workers, NEW t, tx' = [tx EXCEPT ![w] = t],
           service' = service, stale \subseteq stale',
           \A v \in Begun(tx) : v # w => \A k \in tx[v].locked : table'[k] = table[k],
           t # Idle => Checked(t, service) /\ Holds(t, service, table', stale')
    PROVE  RequestsAreChecked' /\ LocksHold'
  <1>1. ASSUME NEW v \in Begun(tx')
        PROVE  Checked(tx'[v], service) /\ Holds(tx'[v], service, table', stale')
    <2>1. CASE v = w
      <3>1. tx'[v] = t /\ t # Idle
        BY <1>1, <2>1, Stepped
      <3>2. Checked(t, service) /\ Holds(t, service, table', stale')
        BY <3>1
      <3>3. QED
        BY <3>1, <3>2
    <2>2. CASE v # w
      <3>1. v \in Begun(tx) /\ tx'[v] = tx[v]
        BY <1>1, <2>2, Stepped DEF Begun
      <3>2. Checked(tx[v], service) /\ Holds(tx[v], service, table, stale)
        BY <3>1 DEF RequestsAreChecked, LocksHold
      <3>3. \A k \in tx[v].locked : table'[k] = table[k]
        BY <3>1, <2>2
      <3>4. Holds(tx[v], service, table', stale')
        BY <3>2, <3>3 DEF Holds
      <3>5. QED
        BY <3>1, <3>2, <3>4
    <2>3. QED
      BY <2>1, <2>2
  <1>2. QED
    BY <1>1 DEF RequestsAreChecked, LocksHold

\* Steps before anything is sent, or without anything that is.
LEMMA NodeStays ==
    ASSUME TypeOK, NodeFollows, NEW w \in Workers, NEW t, tx' = [tx EXCEPT ![w] = t],
           tx[w] # Idle => tx[w].phase # "sent", t # Idle => t.phase # "sent",
           service' = service, table' = table, node' = node,
           slipped \subseteq slipped', stale \subseteq stale'
    PROVE  NodeFollows'
  <1>1. SUFFICES ASSUME NEW k \in Keys \ Excused(service, slipped', stale')
                 PROVE  InStep(k, node, table, tx')
    BY DEF NodeFollows
  <1>2. InStep(k, node, table, tx)
    BY <1>1 DEF NodeFollows, Excused
  <1>3. \A v \in Begun(tx') : tx'[v].phase = "sent" => v \in Begun(tx) /\ tx'[v] = tx[v]
    BY Stepped DEF Begun
  <1>4. \A v \in Begun(tx) : tx[v].phase = "sent" => v \in Begun(tx') /\ tx'[v] = tx[v]
    BY Stepped DEF Begun
  <1>5. QED
    BY <1>2, <1>3, <1>4 DEF InStep

\* Steps at which a request keeps working on what it did, or stops.
LEMMA UsesStay ==
    ASSUME TypeOK, UsesAreKept, NEW w \in Begun(tx), NEW t, tx' = [tx EXCEPT ![w] = t],
           t # Idle => t.request = tx[w].request,
           service' = service, uses' = uses, overlapped' = overlapped,
           \A k \in Keys \ overlapped :
               (\/ k \in uses
                \/ \E v \in Begun(tx) : tx[v].request.op = "use" /\ k \in tx[v].request.keys)
                   => (table[k] # NoRow => table'[k] # NoRow)
    PROVE  UsesAreKept'
  <1>1. \A v \in Begun(tx') : v \in Begun(tx) /\ tx'[v].request = tx[v].request
    BY Stepped DEF Begun
  <1>2. \A k \in uses : k \in Keys
    BY DEF TypeOK
  <1>3. \A v \in Begun(tx) : tx[v].request.keys \subseteq Keys
    BY Begins, TransactionType, RequestType
  <1>4. \A k \in uses \ overlapped : table'[k] # NoRow
    BY <1>2 DEF UsesAreKept
  <1>5. ASSUME NEW v \in Begun(tx'), tx'[v].request.op = "use",
               NEW k \in tx'[v].request.keys \ overlapped
        PROVE  table'[k] # NoRow
    BY <1>1, <1>3, <1>5 DEF UsesAreKept
  <1>6. \A v \in Begun(tx') : tx'[v].request.op = "delete" /\ service.used =>
           tx'[v].request.keys \cap uses \subseteq overlapped
    BY <1>1 DEF UsesAreKept
  <1>7. \A u, v \in Begun(tx') :
           tx'[u].request.op = "use" /\ tx'[v].request.op = "delete" =>
               tx'[u].request.keys \cap tx'[v].request.keys \subseteq overlapped
    BY <1>1 DEF UsesAreKept
  <1>8. ~service.used => uses = {}
    BY DEF UsesAreKept
  <1>9. QED
    BY <1>4, <1>5, <1>6, <1>7, <1>8 DEF UsesAreKept

-----------------------------------------------------------------------------
(***************************************************************************)
(* What a command does to the node                                         *)
(***************************************************************************)
LEMMA ToldType ==
    ASSUME TypeOK, NEW q \in Requests, q.op # "use", NEW o, NEW n \in Told(q, o)
    PROVE  n \in Rows
  <1>1. q.op \in Inserts \cup {"update", "delete"} /\ q.keys \subseteq Keys
    BY RequestType
  <1>2. CASE q.op \in Inserts
    BY <1>2, RequestType DEF Told, Inserts, Rows, TypeOK
  <1>3. CASE q.op = "delete"
    BY <1>3 DEF Told, Rows, TypeOK
  <1>4. CASE q.op = "update"
    <2>1. q.value \in Values /\ q.sent \in Keys
      BY <1>4, RequestType
    <2>2. n \in ToldByUpdate(q) \/ n = node
      BY <1>4 DEF Told
    <2>3. node \in [Keys -> Values \cup {NoRow}]
      BY DEF TypeOK, Rows
    <2>4. CASE n \in ToldByUpdate(q)
      BY <1>1, <2>1, <2>3, <2>4 DEF ToldByUpdate, Rows
    <2>5. QED
      BY <2>2, <2>3, <2>4 DEF Rows
  <1>5. QED
    BY <1>1, <1>2, <1>3, <1>4

\* A command leaves the keys alone that it does not name.
LEMMA ToldNamed ==
    ASSUME TypeOK, NEW q \in Requests, q.op # "use", NEW o, NEW n \in Told(q, o),
           NEW k \in Keys \ Named(q)
    PROVE  n[k] = node[k]
  <1>1. q.op \in Inserts \cup {"update", "delete"} /\ q.keys \subseteq Named(q)
    BY RequestType DEF Named
  <1>2. CASE q.op \in Inserts
    BY <1>1, <1>2 DEF Told, Inserts
  <1>3. CASE q.op = "delete"
    BY <1>1, <1>3 DEF Told
  <1>4. CASE q.op = "update"
    <2>1. n \in ToldByUpdate(q) \/ n = node
      BY <1>4 DEF Told
    <2>2. CASE service.partly /\ q.sent \notin q.keys
      BY <1>1, <2>1, <2>2 DEF ToldByUpdate, TypeOK, Rows
    <2>3. CASE ~(service.partly /\ q.sent \notin q.keys)
      <3>1. k # q.sent
        BY <1>1, <1>4, <2>3 DEF Named
      <3>2. QED
        BY <2>1, <2>3, <3>1 DEF ToldByUpdate, TypeOK, Rows
    <2>4. QED
      BY <2>2, <2>3
  <1>5. QED
    BY <1>1, <1>2, <1>3, <1>4

\* A command about a row that the node has as the request found it makes it
\* the row that will be committed.
LEMMA ToldRow ==
    ASSUME TypeOK, NEW t, Transaction(t), t.request.op # "use",
           NEW k \in t.request.keys, ~Misnames(t.request),
           t.request.op \in Inserts \/ (service.byName => node[k] = t.old[k]),
           t.request.op = "update" => node[k] # NoRow,
           NEW n \in Told(t.request, t.old)
    PROVE  n[k] = NewRow(t)
  <1> DEFINE q == t.request
  <1>1. /\ q.op \in Inserts \cup {"update", "delete"}
        /\ k \in Keys
        /\ q.op = "update" => q.sent = k /\ q.keys = {k}
    BY TransactionType, RequestType DEF Misnames
  <1>2. CASE q.op \in Inserts
    BY <1>1, <1>2 DEF Told, Inserts, NewRow
  <1>3. CASE q.op = "delete"
    BY <1>1, <1>3 DEF Told, NewRow, Inserts
  <1>4. CASE q.op = "update"
    <2>1. Named(q) = {k}
      BY <1>1, <1>4 DEF Named
    <2>2. n \in ToldByUpdate(q)
      BY <1>4, <2>1 DEF Told, Inserts
    <2>3. QED
      BY <1>1, <1>4, <2>2 DEF ToldByUpdate, NewRow, TypeOK, Rows
  <1>5. QED
    BY <1>1, <1>2, <1>3, <1>4

-----------------------------------------------------------------------------
(***************************************************************************)
(* The steps                                                               *)
(***************************************************************************)
LEMMA BeginKeeps ==
    ASSUME IInv, NEW w \in Workers, NEW q \in Requests, Begin(w, q)
    PROVE  IInv'
  <1> USE DEF IInv
  <1> PICK o : o = [k \in q.keys |-> table[k]]
    OBVIOUS
  <1> PICK t : t = [phase |-> "read", request |-> q, old |-> o,
                    locked |-> {}, sends |-> FALSE]
    OBVIOUS
  <1>1. /\ tx[w] = Idle /\ Offers(service, q) /\ Accepted(q)
        /\ tx' = [tx EXCEPT ![w] = t]
        /\ UNCHANGED <<service, table, node, uses, slipped, stale>>
        /\ overlapped' = overlapped \cup CASE q.op = "use"    -> q.keys \cap WorkedOn("delete")
                                           [] q.op = "delete" -> q.keys \cap WorkedOn("use")
                                           [] OTHER           -> {}
    BY DEF Begin
  <1>2. q.keys \subseteq Keys
    BY RequestType
  <1>3. o \in [q.keys -> Maybe]
    BY <1>2 DEF TypeOK, Rows, Maybe
  <1>4. Transaction(t)
    BY <1>3, NewTransaction
  <1>5. overlapped \subseteq overlapped' /\ overlapped' \subseteq Keys
    BY <1>1, <1>2 DEF TypeOK
  <1>6. TypeOK'
    <2>1. \A v \in Begun(tx) : tx[v].locked \cap t.locked = {}
      OBVIOUS
    <2>2. /\ table' \in Rows /\ node' \in Rows /\ uses' \subseteq Keys
          /\ slipped' \cup stale' \cup overlapped' \subseteq Keys
      BY <1>1, <1>5 DEF TypeOK
    <2>3. QED
      BY <1>1, <1>4, <2>1, <2>2, TypeKeeps
  <1>7. RequestsAreChecked' /\ LocksHold'
    <2>1. \A k \in q.keys : t.old[k] = table[k]
      OBVIOUS
    <2>2. q.op = "update" /\ ~service.updateRowsDecide => \A k \in q.keys : t.old[k] # NoRow
      BY <1>1, <2>1 DEF Accepted, Present
    <2>3. q.op = "delete" /\ ~DeletesDecide(service, q) => \A k \in q.keys : t.old[k] # NoRow
      BY <1>1, <2>1, Decision DEF Accepted, Present
    <2>4. q.op = "delete" /\ Ordered(service) => DeletesDecide(service, q)
      BY <1>1, OrderedServices DEF Offers, DeletesDecide, TypeOK, Ordered
    <2>5. q.op = "use" => service.used
      BY <1>1 DEF Offers
    <2>6. Checked(t, service)
      BY <2>2, <2>3, <2>4, <2>5 DEF Checked
    <2>7. Holds(t, service, table', stale')
      BY DEF Holds
    <2>8. QED
      BY <1>1, <2>6, <2>7, LocksKeep
  <1>8. NodeFollows'
    BY <1>1, NodeStays
  <1>9. UsesAreKept'
    <2>1. /\ q.op = "use" => q.keys \cap WorkedOn("delete") \subseteq overlapped'
          /\ q.op = "delete" => q.keys \cap WorkedOn("use") \subseteq overlapped'
      BY <1>1
    <2>2. \A v \in Begun(tx) : tx[v].request.keys \subseteq WorkedOn(tx[v].request.op)
      BY DEF WorkedOn, Working, Begun
    <2>3. \A v \in Begun(tx') : \/ v = w /\ tx'[v].request = q
                                \/ v # w /\ v \in Begun(tx) /\ tx'[v] = tx[v]
      <3>1. t.request = q
        OBVIOUS
      <3>2. tx'[w] = t
        BY <1>1, Stepped
      <3>3. QED
        BY <1>1, <3>1, <3>2, Stepped DEF Begun
    <2>4. /\ q.op = "use" => \A k \in q.keys : table[k] # NoRow
          /\ q.op = "delete" => (service.used => q.keys \cap uses = {})
      BY <1>1 DEF Accepted, Present
    <2>5. \A k \in uses \ overlapped' : table[k] # NoRow
      BY <1>5 DEF UsesAreKept
    <2>6. \A v \in Begun(tx') : tx'[v].request.op = "use" =>
              \A k \in tx'[v].request.keys \ overlapped' : table[k] # NoRow
      BY <1>5, <2>3, <2>4 DEF UsesAreKept
    <2>7. \A v \in Begun(tx') : tx'[v].request.op = "delete" /\ service.used =>
              tx'[v].request.keys \cap uses \subseteq overlapped'
      BY <1>5, <2>3, <2>4 DEF UsesAreKept
    <2>8. ASSUME NEW u \in Begun(tx'), NEW v \in Begun(tx'),
                 tx'[u].request.op = "use", tx'[v].request.op = "delete"
          PROVE  tx'[u].request.keys \cap tx'[v].request.keys \subseteq overlapped'
      <3>1. CASE u = w
        BY <2>1, <2>2, <2>3, <2>8, <3>1
      <3>2. CASE v = w
        BY <2>1, <2>2, <2>3, <2>8, <3>2
      <3>3. CASE u # w /\ v # w
        BY <1>5, <2>3, <2>8, <3>3 DEF UsesAreKept
      <3>4. QED
        BY <3>1, <3>2, <3>3
    <2>9. QED
      BY <1>1, <2>5, <2>6, <2>7, <2>8 DEF UsesAreKept
  <1>10. QED
    BY <1>6, <1>7, <1>8, <1>9

LEMMA WriteKeeps ==
    ASSUME IInv, NEW w \in Workers, Write(w)
    PROVE  IInv'
  <1> USE DEF IInv
  <1> DEFINE q == tx[w].request
  <1> PICK writes : writes = IF q.op \in Inserts THEN q.keys ELSE q.keys \cap Present(table)
    OBVIOUS
  <1>1. /\ w \in Begun(tx) /\ tx[w].phase = "read" /\ q.op # "use"
        /\ writes \cap Locked = {}
        /\ UNCHANGED <<service, table, node, uses, slipped, overlapped>>
    BY DEF Write, Begun, Inserts
  <1>2. /\ Transaction(tx[w]) /\ q \in Requests /\ q.keys \subseteq Keys
        /\ tx[w].old \in [q.keys -> Maybe]
        /\ q.op \in Inserts \cup {"update", "delete"}
    BY <1>1, Begins, TransactionType, RequestType
  <1>3. \A v \in Begun(tx) : tx[v].locked \subseteq Locked
    BY DEF Locked, Begun
  <1>4. CASE Refused(q)
    <2>1. tx' = [tx EXCEPT ![w] = Idle] /\ stale' = stale
      BY <1>4 DEF Write
    <2>2. TypeOK'
      BY <1>1, <2>1, TypeKeeps DEF TypeOK
    <2>3. RequestsAreChecked' /\ LocksHold'
      BY <1>1, <2>1, LocksKeep
    <2>4. NodeFollows'
      BY <1>1, <2>1, NodeStays
    <2>5. UsesAreKept'
      BY <1>1, <2>1, UsesStay
    <2>6. QED
      BY <2>2, <2>3, <2>4, <2>5
  <1>5. CASE ~Refused(q)
    <2> PICK sends : sends = Sends(q, tx[w].old)
      OBVIOUS
    <2> PICK t : t = [tx[w] EXCEPT !.phase = "written", !.locked = writes, !.sends = sends]
      OBVIOUS
    <2>1. /\ tx' = [tx EXCEPT ![w] = t]
          /\ stale' = stale \cup {k \in q.keys : tx[w].old[k] # table[k]}
      BY <1>1, <1>5 DEF Write, TypeOK, Inserts
    <2>2. sends \in BOOLEAN /\ writes \in SUBSET q.keys
      BY DEF Sends
    <2>3. /\ Transaction(t) /\ t.phase = "written" /\ t.request = q
          /\ t.old = tx[w].old /\ t.locked = writes
          /\ t.sends = Sends(q, tx[w].old)
      <3>1. PICK r : r = tx[w]
        OBVIOUS
      <3>2. t = [r EXCEPT !.phase = "written", !.locked = writes, !.sends = sends]
        BY <3>1
      <3>3. Transaction(r) /\ writes \in SUBSET r.request.keys
        BY <1>2, <2>2, <3>1
      <3>4. /\ t.phase = "written" /\ t.request = r.request /\ t.old = r.old
            /\ t.locked = writes /\ t.sends = sends
        BY <3>2, <3>3 DEF Transaction, Transactions
      <3>5. t \in Transactions
        BY <1>2, <2>2, <3>1, <3>2, <3>3 DEF Transaction, Transactions
      <3>6. QED
        BY <3>1, <3>3, <3>4, <3>5 DEF Transaction
    <2>4. TypeOK'
      <3>1. \A v \in Begun(tx) : tx[v].locked \cap t.locked = {}
        BY <1>1, <1>3, <2>3
      <3>2. /\ table' \in Rows /\ node' \in Rows /\ uses' \subseteq Keys
            /\ slipped' \cup stale' \cup overlapped' \subseteq Keys
        BY <1>1, <1>2, <2>1 DEF TypeOK
      <3>3. QED
        BY <1>1, <2>1, <2>3, <3>1, <3>2, TypeKeeps
    <2>5. Checked(tx[w], service)
      BY <1>1 DEF RequestsAreChecked
    <2>6. Checked(t, service)
      BY <1>1, <2>3, <2>5 DEF Checked
    <2>7. q.op \in Inserts => q.keys \cap Present(table) = {}
      BY <1>5 DEF Refused, Inserts
    <2>8. q.keys \ writes \subseteq stale'
      <3>1. SUFFICES ASSUME NEW k \in q.keys, k \notin Present(table), q.op \notin Inserts
                     PROVE  tx[w].old[k] # table[k]
        BY <2>1
      <3>2. table[k] = NoRow
        BY <1>2, <3>1 DEF Present
      <3>3. tx[w].old[k] # NoRow
        BY <1>2, <1>5, <2>5, <3>1, Decision DEF Checked, Refused
      <3>4. QED
        BY <3>2, <3>3
    <2>9. Ordered(service) \/ q.op \in Inserts => writes = q.keys
      BY <1>2, <1>5, <2>5, Decision DEF Checked, Refused, Ordered
    <2>10. \A k \in writes : table[k] = NoRow <=> q.op \in Inserts
      BY <1>2, <2>7 DEF Present
    <2>11. \A k \in writes \ stale' : table[k] = tx[w].old[k]
      BY <2>1
    <2>12. ~Sends(q, tx[w].old) => /\ q.op = "update" /\ ~service.always
                                   /\ \A k \in q.keys : tx[w].old[k] = q.value
      BY DEF Sends
    <2>13. Holds(t, service, table', stale')
      BY <1>1, <2>3, <2>8, <2>9, <2>10, <2>11, <2>12 DEF Holds
    <2>14. RequestsAreChecked' /\ LocksHold'
      BY <1>1, <2>1, <2>6, <2>13, LocksKeep
    <2>15. NodeFollows'
      BY <1>1, <2>1, <2>3, NodeStays
    <2>16. UsesAreKept'
      BY <1>1, <2>1, <2>3, UsesStay
    <2>17. QED
      BY <2>4, <2>14, <2>15, <2>16
  <1>6. QED
    BY <1>4, <1>5

\* While a request holds the row lock of a key, no command of another is about
\* it.
LEMMA OneCommand ==
    ASSUME TypeOK, NEW w \in Begun(tx), NEW k \in tx[w].locked
    PROVE  \A v \in Begun(tx) : k \in tx[v].locked => v = w
  BY DEF TypeOK, Begun

LEMMA SendKeeps ==
    ASSUME IInv, NEW w \in Workers, Send(w)
    PROVE  IInv'
  <1> USE DEF IInv
  <1> PICK r : r = tx[w]
    OBVIOUS
  <1> PICK t : t = [r EXCEPT !.phase = "sent"]
    OBVIOUS
  <1> DEFINE q == r.request
  <1>1. /\ w \in Begun(tx) /\ r.phase = "written"
        /\ IF r.sends THEN node' \in Told(q, r.old) ELSE node' = node
        /\ slipped' = IF r.sends /\ Misnames(q) THEN slipped \cup Named(q) ELSE slipped
        /\ UNCHANGED <<service, table, uses, stale, overlapped>>
    BY DEF Send, Begun
  <1>2. tx' = [tx EXCEPT ![w] = t]
    BY DEF Send
  <1>3. Transaction(r) /\ q \in Requests
    BY <1>1, Begins, TransactionType
  <1>4. /\ Transaction(t)
        /\ t.phase = "sent" /\ t.request = q /\ t.old = r.old
        /\ t.locked = r.locked /\ t.sends = r.sends
    BY <1>3, SentTransaction
  <1>5. Checked(r, service) /\ Holds(r, service, table, stale)
    BY <1>1 DEF RequestsAreChecked, LocksHold
  <1>6. q.op # "use" /\ q.op \in Inserts \cup {"update", "delete"}
    BY <1>1, <1>3, <1>5, RequestType DEF Checked
  <1>7. TypeOK'
    <2>1. node' \in Rows
      BY <1>1, <1>3, <1>6, ToldType DEF TypeOK
    <2>2. Named(q) \subseteq Keys
      BY <1>3, NamedType
    <2>3. /\ table' \in Rows /\ uses' \subseteq Keys
          /\ slipped' \cup stale' \cup overlapped' \subseteq Keys
      BY <1>1, <2>2 DEF TypeOK
    <2>4. \A v \in Begun(tx) : v # w => tx[v].locked \cap t.locked = {}
      BY <1>1, <1>4 DEF TypeOK, Begun
    <2>5. QED
      BY <1>1, <1>2, <1>4, <2>1, <2>3, <2>4, TypeKeeps
  <1>8. RequestsAreChecked' /\ LocksHold'
    <2>1. Checked(t, service) /\ Holds(t, service, table', stale')
      BY <1>1, <1>4, <1>5, <1>6 DEF Checked, Holds
    <2>2. QED
      BY <1>1, <1>2, <2>1, LocksKeep
  <1>9. UsesAreKept'
    BY <1>1, <1>2, <1>4, UsesStay
  <1>10. NodeFollows'
    <2>1. SUFFICES ASSUME NEW k \in Keys \ Excused(service, slipped', stale)
                   PROVE  InStep(k, node', table, tx')
      BY <1>1 DEF NodeFollows
    <2>2. InStep(k, node, table, tx) /\ k \notin slipped
      BY <1>1, <2>1 DEF NodeFollows, Excused
    <2>3. /\ \A v \in Begun(tx) : tx'[v] = IF v = w THEN t ELSE tx[v]
          /\ Begun(tx') = Begun(tx)
      <3>1. t # Idle
        BY <1>4, TransactionType
      <3>2. \A v \in Workers : tx'[v] = IF v = w THEN t ELSE tx[v]
        BY <1>2, Stepped
      <3>3. QED
        BY <1>1, <3>1, <3>2 DEF Begun
    <2>4. r.sends /\ Misnames(q) => k \notin Named(q)
      BY <1>1, <2>1 DEF Excused
    <2>5. CASE k \in r.locked
      <3>1. \A v \in Begun(tx) : k \in tx[v].locked => v = w
        BY <1>1, <2>5, OneCommand
      <3>2. node[k] = table[k]
        BY <1>1, <2>2, <3>1 DEF InStep
      <3>3. k \in q.keys /\ q.keys \subseteq Named(q)
        BY <1>3, <2>5, TransactionType DEF Named
      <3>4. ~Ordered(service) => table[k] = r.old[k]
        BY <1>1, <1>5, <2>1, <2>5 DEF Holds, Excused
      <3>5. service.byName \/ ~r.sends => ~Ordered(service)
        BY <1>1, <1>5, OrderedServices DEF TypeOK, Holds, Ordered
      <3>6. node'[k] = NewRow(t)
        <4>1. CASE r.sends
          <5>1. ~Misnames(q)
            BY <2>4, <3>3, <4>1
          <5>2. q.op \in Inserts \/ (service.byName => node[k] = r.old[k])
            BY <3>2, <3>4, <3>5
          <5>3. q.op = "update" => node[k] # NoRow
            BY <1>1, <1>5, <2>5, <3>2 DEF Holds, Inserts
          <5>4. node'[k] = NewRow(r)
            BY <1>1, <1>3, <1>6, <3>3, <4>1, <5>1, <5>2, <5>3, ToldRow
          <5>5. QED
            BY <1>4, <5>4 DEF NewRow
        <4>2. CASE ~r.sends
          <5>1. q.op = "update" /\ r.old[k] = q.value
            BY <1>1, <1>5, <3>3, <4>2 DEF Holds
          <5>2. node'[k] = r.old[k]
            BY <1>1, <3>2, <3>4, <3>5, <4>2
          <5>3. QED
            BY <1>4, <5>1, <5>2 DEF NewRow
        <4>3. QED
          BY <4>1, <4>2
      <3>7. QED
        BY <1>1, <1>4, <2>3, <2>5, <3>1, <3>6 DEF InStep
    <2>6. CASE k \notin r.locked
      <3>1. k \notin q.keys
        BY <1>1, <1>5, <2>1, <2>6 DEF Holds, Excused
      <3>2. node'[k] = node[k]
        <4>1. CASE r.sends
          <5>1. k \notin Named(q)
            BY <2>4, <3>1, <4>1 DEF Named, Misnames
          <5>2. QED
            BY <1>1, <1>3, <1>6, <4>1, <5>1, <2>1, ToldNamed
        <4>2. QED
          BY <1>1, <4>1
      <3>3. QED
        BY <1>1, <1>4, <2>2, <2>3, <2>6, <3>2 DEF InStep
    <2>7. QED
      BY <2>5, <2>6
  <1>11. QED
    BY <1>7, <1>8, <1>9, <1>10

LEMMA SendFailsKeeps ==
    ASSUME IInv, NEW w \in Workers, SendFails(w)
    PROVE  IInv'
  <1> USE DEF IInv
  <1> PICK r : r = tx[w]
    OBVIOUS
  <1> DEFINE q == r.request
  <1>1. /\ w \in Begun(tx) /\ r.phase = "written"
        /\ tx' = [tx EXCEPT ![w] = Idle]
        /\ UNCHANGED <<service, table, uses, stale, overlapped>>
    BY DEF SendFails, Begun
  <1>2. Transaction(r) /\ q \in Requests
    BY <1>1, Begins, TransactionType
  <1>3. Checked(r, service) /\ Holds(r, service, table, stale)
    BY <1>1 DEF RequestsAreChecked, LocksHold
  <1>4. q.op # "use" /\ Named(q) \subseteq Keys /\ q.keys \subseteq Named(q)
    BY <1>1, <1>2, <1>3, NamedType DEF Checked, Named
  <1>5. RequestsAreChecked' /\ LocksHold'
    BY <1>1, LocksKeep
  <1>6. UsesAreKept'
    BY <1>1, UsesStay
  <1>7. /\ \A v \in Begun(tx') : v \in Begun(tx) /\ tx'[v] = tx[v] /\ v # w
        /\ \A v \in Begun(tx) : v # w => v \in Begun(tx') /\ tx'[v] = tx[v]
    BY <1>1, Stepped DEF Begun
  <1>8. CASE UNCHANGED <<node, slipped>>
    <2>1. TypeOK'
      BY <1>1, <1>8, TypeKeeps DEF TypeOK
    <2>2. NodeFollows'
      BY <1>1, <1>8, NodeStays
    <2>3. QED
      BY <1>5, <1>6, <2>1, <2>2
  <1>9. ASSUME q.op \in Inserts, NEW told \in Told(q, r.old), node' = TakenBack(q, told),
               slipped' = slipped
        PROVE  IInv'
    <2>1. told \in Rows
      BY <1>2, <1>4, ToldType
    <2>2. TypeOK'
      <3>1. node' \in Rows
        BY <1>9, <2>1 DEF TakenBack, Rows
      <3>2. QED
        BY <1>1, <1>9, <3>1, TypeKeeps DEF TypeOK
    <2>3. NodeFollows'
      <3>1. SUFFICES ASSUME NEW k \in Keys \ Excused(service, slipped, stale)
                     PROVE  InStep(k, node', table, tx')
        BY <1>1, <1>9 DEF NodeFollows
      <3>2. InStep(k, node, table, tx)
        BY <3>1 DEF NodeFollows
      <3>3. CASE k \in q.keys
        <4>1. k \in r.locked /\ table[k] = NoRow
          BY <1>1, <1>3, <1>9, <3>3 DEF Holds
        <4>2. \A v \in Begun(tx') : k \notin tx'[v].locked
          BY <1>1, <1>7, <4>1, OneCommand
        <4>3. node'[k] = NoRow
          BY <1>9, <3>1, <3>3 DEF TakenBack
        <4>4. QED
          BY <4>1, <4>2, <4>3 DEF InStep
      <3>4. CASE k \notin q.keys
        <4>1. k \notin Named(q)
          BY <1>9, <3>4 DEF Named, Inserts
        <4>2. told[k] = node[k]
          BY <1>2, <1>4, <3>1, <4>1, ToldNamed
        <4>3. node'[k] = node[k]
          BY <1>9, <3>1, <3>4, <4>2 DEF TakenBack
        <4>4. QED
          BY <1>1, <1>7, <3>2, <4>3 DEF InStep
      <3>5. QED
        BY <3>3, <3>4
    <2>4. QED
      BY <1>5, <1>6, <2>2, <2>3
  <1>10. CASE node' \in Told(q, r.old) /\ slipped' = slipped \cup Named(q)
    <2>1. TypeOK'
      <3>1. node' \in Rows
        BY <1>2, <1>4, <1>10, ToldType
      <3>2. slipped' \cup stale' \cup overlapped' \subseteq Keys
        BY <1>1, <1>4, <1>10 DEF TypeOK
      <3>3. QED
        BY <1>1, <3>1, <3>2, TypeKeeps DEF TypeOK
    <2>2. NodeFollows'
      <3>1. SUFFICES ASSUME NEW k \in Keys \ Excused(service, slipped', stale)
                     PROVE  InStep(k, node', table, tx')
        BY <1>1 DEF NodeFollows
      <3>2. InStep(k, node, table, tx) /\ k \notin Named(q)
        BY <1>10, <3>1 DEF NodeFollows, Excused
      <3>3. node'[k] = node[k]
        BY <1>2, <1>4, <1>10, <3>1, <3>2, ToldNamed
      <3>4. k \notin r.locked
        BY <1>2, <1>4, <3>2, TransactionType
      <3>5. QED
        BY <1>1, <1>7, <3>2, <3>3, <3>4 DEF InStep
    <2>3. QED
      BY <1>5, <1>6, <2>1, <2>2
  <1>11. QED
    BY <1>8, <1>9, <1>10 DEF SendFails, Inserts

LEMMA CommitKeeps ==
    ASSUME IInv, NEW w \in Workers, Commit(w)
    PROVE  IInv'
  <1> USE DEF IInv
  <1> PICK r : r = tx[w]
    OBVIOUS
  <1> DEFINE q == r.request
  <1>1. /\ w \in Begun(tx) /\ r.phase = "sent"
        /\ tx' = [tx EXCEPT ![w] = Idle]
        /\ UNCHANGED <<service, node, uses, slipped, stale, overlapped>>
    BY DEF Commit, Begun, history
  <1>2. Transaction(r) /\ q \in Requests /\ r.locked \subseteq q.keys /\ q.keys \subseteq Keys
    BY <1>1, Begins, TransactionType, RequestType
  <1>3. Checked(r, service)
    BY <1>1 DEF RequestsAreChecked
  <1>4. q.op # "use" /\ q.op \in Inserts \cup {"update", "delete"}
    BY <1>1, <1>2, <1>3, RequestType DEF Checked
  <1>5. NewRow(r) \in Values \cup {NoRow} /\ (q.op # "delete" => NewRow(r) # NoRow)
    BY <1>2, <1>4, RequestType, TablesAssumption DEF NewRow
  <1>6. table' = [k \in Keys |-> IF k \in r.locked THEN NewRow(r) ELSE table[k]]
    <2>1. table' = Committed(w)
      BY DEF Commit
    <2>2. QED
      BY <2>1 DEF Committed, NewRow
  <1>7. \A v \in Begun(tx) : v # w => \A k \in tx[v].locked : table'[k] = table[k]
    <2>1. SUFFICES ASSUME NEW v \in Begun(tx), v # w, NEW k \in tx[v].locked
                   PROVE  table'[k] = table[k]
      OBVIOUS
    <2>2. k \in Keys
      BY <2>1, Begins, TransactionType, RequestType
    <2>3. k \notin r.locked
      BY <1>1, <2>1, OneCommand
    <2>4. QED
      BY <1>6, <2>2, <2>3
  <1>8. TypeOK'
    <2>1. table' \in Rows
      BY <1>5, <1>6 DEF TypeOK, Rows
    <2>2. QED
      BY <1>1, <2>1, TypeKeeps DEF TypeOK
  <1>9. RequestsAreChecked' /\ LocksHold'
    BY <1>1, <1>7, LocksKeep
  <1>10. UsesAreKept'
    <2>1. SUFFICES
             ASSUME NEW k \in Keys \ overlapped, table[k] # NoRow,
                    \/ k \in uses
                    \/ \E v \in Begun(tx) : tx[v].request.op = "use"
                                            /\ k \in tx[v].request.keys
             PROVE  table'[k] # NoRow
      BY <1>1, UsesStay
    <2>2. CASE q.op = "delete" /\ k \in q.keys
      <3>1. k \in uses => FALSE
        BY <1>1, <2>1, <2>2 DEF UsesAreKept
      <3>2. \A v \in Begun(tx) : tx[v].request.op = "use" => k \notin tx[v].request.keys
        BY <1>1, <2>1, <2>2 DEF UsesAreKept
      <3>3. QED
        BY <2>1, <3>1, <3>2
    <2>3. CASE ~(q.op = "delete" /\ k \in q.keys)
      BY <1>2, <1>5, <1>6, <2>1, <2>3
    <2>4. QED
      BY <2>2, <2>3
  <1>11. NodeFollows'
    <2>1. SUFFICES ASSUME NEW k \in Keys \ Excused(service, slipped, stale)
                   PROVE  InStep(k, node, table', tx')
      BY <1>1 DEF NodeFollows
    <2>2. InStep(k, node, table, tx)
      BY <2>1 DEF NodeFollows
    <2>3. /\ \A v \in Begun(tx') : v \in Begun(tx) /\ tx'[v] = tx[v] /\ v # w
          /\ \A v \in Begun(tx) : v # w => v \in Begun(tx') /\ tx'[v] = tx[v]
      BY <1>1, Stepped DEF Begun
    <2>4. CASE k \in r.locked
      <3>1. node[k] = NewRow(r)
        BY <1>1, <2>2, <2>4 DEF InStep
      <3>2. \A v \in Begun(tx') : k \notin tx'[v].locked
        BY <1>1, <2>3, <2>4, OneCommand
      <3>3. table'[k] = NewRow(r)
        BY <1>6, <2>1, <2>4
      <3>4. QED
        BY <3>1, <3>2, <3>3 DEF InStep
    <2>5. CASE k \notin r.locked
      <3>1. table'[k] = table[k]
        BY <1>6, <2>1, <2>5
      <3>2. QED
        BY <2>2, <2>3, <2>5, <3>1 DEF InStep
    <2>6. QED
      BY <2>4, <2>5
  <1>12. QED
    BY <1>8, <1>9, <1>10, <1>11

LEMMA CommitUseKeeps ==
    ASSUME IInv, NEW w \in Workers, CommitUse(w)
    PROVE  IInv'
  <1> USE DEF IInv
  <1> PICK q : q = tx[w].request
    OBVIOUS
  <1>1. /\ w \in Begun(tx) /\ tx[w].phase = "read" /\ q.op = "use"
        /\ uses' = uses \cup q.keys
        /\ tx' = [tx EXCEPT ![w] = Idle]
        /\ UNCHANGED <<service, table, node, slipped, stale, overlapped>>
    BY DEF CommitUse, Begun, history
  <1>2. q.keys \subseteq Keys
    BY <1>1, Begins, TransactionType, RequestType
  <1>3. service.used
    BY <1>1 DEF RequestsAreChecked, Checked
  <1>4. TypeOK'
    BY <1>1, <1>2, TypeKeeps DEF TypeOK
  <1>5. RequestsAreChecked' /\ LocksHold'
    BY <1>1, LocksKeep
  <1>6. NodeFollows'
    BY <1>1, NodeStays
  <1>7. UsesAreKept'
    <2>1. \A v \in Begun(tx') : v \in Begun(tx) /\ tx'[v] = tx[v]
      BY <1>1, Stepped DEF Begun
    <2>2. \A k \in uses' \ overlapped : table[k] # NoRow
      BY <1>1 DEF UsesAreKept
    <2>3. \A v \in Begun(tx) : tx[v].request.op = "delete" =>
             tx[v].request.keys \cap uses' \subseteq overlapped
      BY <1>1, <1>3 DEF UsesAreKept
    <2>4. \A v \in Begun(tx) : tx[v].request.op = "use" =>
             \A k \in tx[v].request.keys \ overlapped : table[k] # NoRow
      BY DEF UsesAreKept
    <2>5. \A u, v \in Begun(tx) :
             tx[u].request.op = "use" /\ tx[v].request.op = "delete" =>
                 tx[u].request.keys \cap tx[v].request.keys \subseteq overlapped
      BY DEF UsesAreKept
    <2>6. /\ service'.used
          /\ \A k \in uses' \ overlapped' : table'[k] # NoRow
          /\ overlapped' = overlapped /\ table' = table
      BY <1>1, <1>3, <2>2
    <2>7. QED
      BY <2>1, <2>3, <2>4, <2>5, <2>6 DEF UsesAreKept
  <1>8. QED
    BY <1>4, <1>5, <1>6, <1>7

LEMMA DropUseKeeps ==
    ASSUME IInv, NEW k \in Keys, DropUse(k)
    PROVE  IInv'
  BY DEF IInv, DropUse, history, TypeOK, RequestsAreChecked, LocksHold, NodeFollows,
         UsesAreKept

LEMMA CrashKeeps ==
    ASSUME IInv, Crash
    PROVE  IInv'
  <1> USE DEF IInv
  <1>1. /\ tx' = [w \in Workers |-> Idle]
        /\ slipped' = slipped \cup UNION {Named(tx[w].request) :
                            w \in {v \in Workers : tx[v] # Idle /\ tx[v].phase = "sent"}}
        /\ UNCHANGED <<service, table, node, uses, stale, overlapped>>
    BY DEF Crash
  <1>2. Begun(tx') = {}
    BY <1>1 DEF Begun
  <1>3. \A v \in Begun(tx) : Named(tx[v].request) \subseteq Keys
    BY Begins, TransactionType, NamedType
  <1>4. TypeOK'
    <2>1. slipped' \subseteq Keys
      BY <1>1, <1>3 DEF TypeOK, Begun
    <2>2. QED
      BY <1>1, <2>1 DEF TypeOK
  <1>5. NodeFollows'
    <2>1. SUFFICES ASSUME NEW k \in Keys \ Excused(service, slipped', stale)
                   PROVE  node[k] = table[k]
      BY <1>1, <1>2 DEF NodeFollows, InStep
    <2>2. InStep(k, node, table, tx)
      BY <1>1, <2>1 DEF NodeFollows, Excused
    <2>3. ASSUME NEW v \in Begun(tx), tx[v].phase = "sent", k \in tx[v].locked
          PROVE  FALSE
      <3>1. k \in Named(tx[v].request)
        BY <2>3, Begins, TransactionType DEF Named
      <3>2. k \in slipped'
        BY <1>1, <2>3, <3>1 DEF Begun
      <3>3. QED
        BY <2>1, <3>2 DEF Excused
    <2>4. QED
      BY <2>2, <2>3 DEF InStep
  <1>6. RequestsAreChecked' /\ LocksHold' /\ UsesAreKept'
    BY <1>1, <1>2 DEF RequestsAreChecked, LocksHold, UsesAreKept
  <1>7. QED
    BY <1>4, <1>5, <1>6

LEMMA InitIsInvariant == Init => IInv
  <1> SUFFICES ASSUME Init
               PROVE  IInv
    OBVIOUS
  <1>1. Begun(tx) = {} /\ uses = {} /\ node = table
    BY DEF Init, Begun
  <1>2. TypeOK
    <2>1. table \in Rows
      BY DEF Init, Rows
    <2>2. tx \in [Workers -> Transactions \cup {Idle}] /\ \A w \in Workers : tx[w] = Idle
      BY DEF Init
    <2>3. service \in Services
      BY ModelledAssumption DEF Init
    <2>4. QED
      BY <1>1, <2>1, <2>2, <2>3 DEF Init, TypeOK
  <1>3. RequestsAreChecked /\ LocksHold /\ NodeFollows /\ UsesAreKept
    BY <1>1 DEF RequestsAreChecked, LocksHold, NodeFollows, UsesAreKept, InStep
  <1>4. QED
    BY <1>2, <1>3 DEF IInv

LEMMA NextKeeps == IInv /\ [Next]_vars => IInv'
  <1> SUFFICES ASSUME IInv, [Next]_vars
               PROVE  IInv'
    OBVIOUS
  <1>1. CASE Next
    BY <1>1, BeginKeeps, WriteKeeps, SendKeeps, SendFailsKeeps, CommitKeeps,
       CommitUseKeeps, DropUseKeeps, CrashKeeps DEF Next
  <1>2. CASE UNCHANGED vars
    BY <1>2 DEF vars, IInv, TypeOK, RequestsAreChecked, LocksHold, NodeFollows, UsesAreKept
  <1>3. QED
    BY <1>1, <1>2

LEMMA Invariant == Spec => []IInv
  BY InitIsInvariant, NextKeeps, PTL DEF Spec

\* No command is on its way for a settled key, so the node has what is
\* committed.
LEMMA SettledFollows ==
    ASSUME IInv, NEW k \in Settled \ Excused(service, slipped, stale)
    PROVE  node[k] = table[k]
  <1>1. k \in Keys
    BY DEF Settled
  <1>2. InStep(k, node, table, tx)
    BY <1>1 DEF IInv, NodeFollows
  <1>3. ASSUME NEW w \in Begun(tx), tx[w].phase = "sent", k \in tx[w].locked
        PROVE  FALSE
    <2>1. k \in Named(tx[w].request)
      BY <1>3, Begins, TransactionType DEF IInv, Named
    <2>2. QED
      BY <1>3, <2>1 DEF Settled, Begun
  <1>4. QED
    BY <1>2, <1>3 DEF InStep

\* Services of every table keep each DHCP node at the rows that are committed,
\* except where a command failed or named another row, the process stopped
\* after one was sent, or a request decided on a row that changed before it
\* wrote (DeleteX, UpdateX and the send functions of the services).
THEOREM NodesFollowRows == Spec => []NodeInStep
  <1>1. IInv => NodeInStep
    BY SettledFollows DEF NodeInStep, Excused
  <1>2. QED
    BY <1>1, Invariant, PTL

\* Where the number of affected rows decides and every update is sent, the row
\* lock of PostgreSQL puts the commands of overlapping requests in the order of
\* their commits, so a changed row is no exception (client classes, the rows of
\* global switches).
THEOREM LocksOrderCommands == Spec => []RowLocksOrderCommands
  <1>1. IInv => RowLocksOrderCommands
    BY SettledFollows DEF RowLocksOrderCommands, Excused, Ordered
  <1>2. QED
    BY <1>1, Invariant, PTL

\* A class or an address code that a committed subnet names exists, unless the
\* subnet was checked while a deletion of it ran: neither locks the other
\* (DeleteClientClass4, DeleteAddressCode and the checks of subnets).
THEOREM UsedRowsStay == Spec => []UsedRowsExist
  <1>1. IInv => UsedRowsExist
    BY DEF IInv, UsesAreKept, UsedRowsExist
  <1>2. QED
    BY <1>1, Invariant, PTL

-----------------------------------------------------------------------------
(***************************************************************************)
(* NodeRows: the tables                                                    *)
(***************************************************************************)

\* The lifetime that the timers of a message are made of.
TimedBy(conversion, l) ==
    /\ {l, "RenewTime"} \subseteq DOMAIN conversion
    /\ conversion["RebindTime"] = {l} /\ conversion["RenewTime"] = {l} /\ conversion[l] = {l}

\* A conversion to messages: its fields are made of columns of the table.
ConversionFrom(columns, conversion) ==
    /\ DOMAIN conversion # {}
    /\ \A f \in DOMAIN conversion : conversion[f] # {} /\ conversion[f] \subseteq columns
    /\ "RebindTime" \in DOMAIN conversion => \E l \in Lifetimes : TimedBy(conversion, l)

\* What the columns of a table have in common, as far as nodes are concerned:
\* a deletion names the copy by fields it was made with; an update sends what
\* a creation does, unless it sends nothing, and sends whenever a column that
\* is sent is written; and it names the copy by what it does not write.
Coherent(t) ==
    /\ t.columns # {}
    /\ ConversionFrom(t.columns, t.creates)
    /\ \A f \in DOMAIN t.deletes : f \in DOMAIN t.creates /\ t.deletes[f] = t.creates[f]
    /\ t.always \/ t.compared # {} =>
          /\ t.updates = t.creates
          /\ t.old \/ \A f \in DOMAIN t.deletes : t.deletes[f] \cap t.written = {}
    /\ ~t.always => \A f \in DOMAIN t.creates : t.creates[f] \cap t.written \subseteq t.compared

\* A conversion that renames nothing.
LEMMA FromNamed ==
    ASSUME NEW message
    PROVE  /\ DOMAIN From(message, AsNamed) = message
           /\ \A f \in message : From(message, AsNamed)[f] = {f}
  BY DEF From, AsNamed

LEMMA ConversionNamed ==
    ASSUME NEW columns, NEW message, message # {}, message \subseteq columns,
           "RebindTime" \notin message
    PROVE  ConversionFrom(columns, From(message, AsNamed))
  BY FromNamed DEF ConversionFrom

\* Each kind of table coheres.
LEMMA OwnedCoheres ==
    ASSUME NEW creates, NEW deletes, deletes \subseteq creates, creates # {},
           "Comment" \notin creates, "RebindTime" \notin creates
    PROVE  Coherent(Owned(creates, deletes))
  <1> SUFFICES ASSUME NEW t, t = Owned(creates, deletes)
               PROVE  Coherent(t)
    OBVIOUS
  <1>1. /\ t.columns = creates \cup {"Comment"} /\ t.written = {"Comment"}
        /\ t.creates = From(creates, AsNamed) /\ t.deletes = From(deletes, AsNamed)
        /\ ~t.always /\ t.compared = {}
    BY DEF Owned, Sending
  <1>2. ConversionFrom(t.columns, t.creates)
    BY <1>1, ConversionNamed
  <1>3. t.columns # {}
    BY <1>1
  <1>7. /\ DOMAIN t.creates = creates /\ \A f \in creates : t.creates[f] = {f}
        /\ DOMAIN t.deletes = deletes /\ \A f \in deletes : t.deletes[f] = {f}
    BY <1>1, FromNamed
  <1>4. \A f \in DOMAIN t.deletes : f \in DOMAIN t.creates /\ t.deletes[f] = t.creates[f]
    BY <1>7
  <1>5. t.always \/ t.compared # {} =>
          /\ t.updates = t.creates
          /\ t.old \/ \A f \in DOMAIN t.deletes : t.deletes[f] \cap t.written = {}
    BY <1>1
  <1>6. ~t.always => \A f \in DOMAIN t.creates : t.creates[f] \cap t.written \subseteq t.compared
    BY <1>1, <1>7
  <1> QED
    BY <1>2, <1>3, <1>4, <1>5, <1>6 DEF Coherent

LEMMA ClassCoheres ==
    ASSUME NEW creates, NEW updates, NEW deletes, creates = {"Name", "Code", "Regexp"},
           updates = creates, deletes = {"Name"}
    PROVE  Coherent(ClientClass(creates, updates, deletes))
  <1> SUFFICES ASSUME NEW t, t = ClientClass(creates, updates, deletes)
               PROVE  Coherent(t)
    OBVIOUS
  <1> DEFINE f == From(creates, [Regexp |-> genClientClass4Regexp])
  <1>0. /\ t.columns = {"Name"} \cup genClientClass4Regexp
        /\ t.written = genClientClass4Regexp \ {"Code"}
        /\ t.creates = From(creates, [Regexp |-> genClientClass4Regexp])
        /\ t.updates = From(updates, [Regexp |-> genClientClass4Regexp])
        /\ t.deletes = From(deletes, AsNamed) /\ t.always
    BY DEF ClientClass, Sending
  <1>1. /\ t.columns = {"Name"} \cup genClientClass4Regexp
        /\ t.written = genClientClass4Regexp \ {"Code"}
        /\ t.creates = f /\ t.updates = f /\ t.deletes = From(deletes, AsNamed)
        /\ t.always
    BY <1>0, Zenon
  <1>2. /\ DOMAIN f = creates /\ f["Name"] = {"Name"} /\ f["Code"] = {"Code"}
        /\ f["Regexp"] = genClientClass4Regexp
    BY DEF From
  <1> HIDE DEF f
  <1>3. ConversionFrom(t.columns, f)
    BY <1>1, <1>2 DEF ConversionFrom, genClientClass4Regexp
  <1>4. DOMAIN t.deletes = deletes /\ \A g \in deletes : t.deletes[g] = {g}
    BY <1>1, FromNamed
  <1> QED
    BY <1>1, <1>2, <1>3, <1>4 DEF Coherent, genClientClass4Regexp

LEMMA SayingCoheres ==
    ASSUME NEW value, NEW sent, NEW key, NEW creates, NEW updates, NEW deletes,
           deletes = {key}, updates = creates, value # key, key # "Comment", value # "Comment",
           "RebindTime" \notin creates,
           \/ sent = AsNamed /\ creates = {key, value}
           \/ /\ sent = [Limit |-> {value}] /\ creates = {key, "Limit"} /\ key # "Limit"
    PROVE  Coherent(Saying(value, sent, creates, updates, deletes))
  <1> SUFFICES ASSUME NEW t, t = Saying(value, sent, creates, updates, deletes)
               PROVE  Coherent(t)
    OBVIOUS
  <1> DEFINE f == From(creates, sent)
  <1>1. /\ t.columns = deletes \cup {value, "Comment"} /\ t.written = {value, "Comment"}
        /\ t.creates = f /\ t.updates = f /\ t.deletes = From(deletes, AsNamed)
        /\ ~t.always /\ t.compared = {value}
    BY DEF Saying, Sending
  <1>2. DOMAIN f = creates /\ f[key] = {key} /\ \A g \in creates \ {key} : f[g] = {value}
    BY DEF From, AsNamed
  <1> HIDE DEF f
  <1>3. ConversionFrom(t.columns, f)
    BY <1>1, <1>2 DEF ConversionFrom
  <1>4. t.deletes[key] = {key} /\ DOMAIN t.deletes = {key}
    BY <1>1 DEF From, AsNamed
  <1>5. \A g \in DOMAIN t.deletes : g \in DOMAIN t.creates /\ t.deletes[g] = t.creates[g]
    BY <1>1, <1>2, <1>4
  <1>6. \A g \in DOMAIN t.deletes : t.deletes[g] \cap t.written = {}
    BY <1>1, <1>4
  <1>7. \A g \in DOMAIN t.creates : t.creates[g] \cap t.written \subseteq t.compared
    BY <1>1, <1>2
  <1> QED
    BY <1>1, <1>3, <1>5, <1>6, <1>7 DEF Coherent

LEMMA SwitchCoheres ==
    ASSUME NEW columns, NEW updates, NEW renamed, columns # {},
           ConversionFrom(columns, From(updates, renamed))
    PROVE  Coherent(Switch(columns, updates, renamed))
  <1> SUFFICES ASSUME NEW t, t = Switch(columns, updates, renamed)
               PROVE  Coherent(t)
    OBVIOUS
  <1>1. /\ t.columns = columns /\ t.creates = From(updates, renamed)
        /\ t.updates = t.creates /\ t.deletes = AsNamed /\ t.always
    BY DEF Switch, Sending
  <1> QED
    BY <1>1 DEF Coherent, AsNamed

\* Each table coheres.
LEMMA OwnedTablesCohere ==
    /\ Coherent(TablePool4) /\ Coherent(TableReservedPool4) /\ Coherent(TableReservation4)
    /\ Coherent(TablePool6) /\ Coherent(TableReservedPool6) /\ Coherent(TableReservation6)
    /\ Coherent(TablePdPool) /\ Coherent(TableReservedPdPool)
  <1>1. Coherent(TablePool4)
    BY OwnedCoheres DEF TablePool4, CreatePool4Request, DeletePool4Request
  <1>2. Coherent(TableReservedPool4)
    BY OwnedCoheres DEF TableReservedPool4, CreateReservedPool4Request,
                        DeleteReservedPool4Request, CreatePool4Request
  <1>3. Coherent(TableReservation4)
    BY OwnedCoheres DEF TableReservation4, CreateReservation4Request, DeleteReservation4Request
  <1>4. Coherent(TablePool6)
    BY OwnedCoheres DEF TablePool6, CreatePool6Request, DeletePool6Request
  <1>5. Coherent(TableReservedPool6)
    BY OwnedCoheres DEF TableReservedPool6, CreateReservedPool6Request,
                        DeleteReservedPool6Request, CreatePool6Request
  <1>6. Coherent(TableReservation6)
    BY OwnedCoheres DEF TableReservation6, CreateReservation6Request, DeleteReservation6Request
  <1>7. Coherent(TablePdPool)
    BY OwnedCoheres DEF TablePdPool, CreatePdPoolRequest, DeletePdPoolRequest
  <1>8. Coherent(TableReservedPdPool)
    BY OwnedCoheres DEF TableReservedPdPool, CreateReservedPdPoolRequest,
                        DeleteReservedPdPoolRequest, CreatePdPoolRequest
  <1> QED
    BY <1>1, <1>2, <1>3, <1>4, <1>5, <1>6, <1>7, <1>8

LEMMA ClassTablesCohere == Coherent(TableClientClass4) /\ Coherent(TableClientClass6)
  BY ClassCoheres DEF TableClientClass4, TableClientClass6,
     CreateClientClass4Request, UpdateClientClass4Request, DeleteClientClass4Request,
     CreateClientClass6Request, UpdateClientClass6Request, DeleteClientClass6Request

LEMMA SayingTablesCohere ==
    /\ Coherent(TableAdmitMac) /\ Coherent(TableAdmitDuid) /\ Coherent(TableAdmitFingerprint)
    /\ Coherent(TableRateLimitMac) /\ Coherent(TableRateLimitDuid)
  <1>1. Coherent(TableAdmitMac)
    BY SayingCoheres DEF TableAdmitMac, CreateAdmitMacRequest, UpdateAdmitMacRequest,
                         DeleteAdmitMacRequest
  <1>2. Coherent(TableAdmitDuid)
    BY SayingCoheres DEF TableAdmitDuid, CreateAdmitDuidRequest, UpdateAdmitDuidRequest,
                         DeleteAdmitDuidRequest
  <1>3. Coherent(TableAdmitFingerprint)
    BY SayingCoheres DEF TableAdmitFingerprint, CreateAdmitFingerprintRequest,
                         UpdateAdmitFingerprintRequest, DeleteAdmitFingerprintRequest
  <1>4. Coherent(TableRateLimitMac)
    BY SayingCoheres DEF TableRateLimitMac, CreateRateLimitMacRequest,
                         UpdateRateLimitMacRequest, DeleteRateLimitMacRequest
  <1>5. Coherent(TableRateLimitDuid)
    BY SayingCoheres DEF TableRateLimitDuid, CreateRateLimitDuidRequest,
                         UpdateRateLimitDuidRequest, DeleteRateLimitDuidRequest
  <1> QED
    BY <1>1, <1>2, <1>3, <1>4, <1>5

LEMMA SwitchTablesCohere ==
    Coherent(TableAdmit) /\ Coherent(TableRateLimit) /\ Coherent(TablePinger)
  <1>1. Coherent(TableAdmit)
    BY SwitchCoheres, ConversionNamed DEF TableAdmit, UpdateAdmitRequest
  <1>2. Coherent(TablePinger)
    BY SwitchCoheres, ConversionNamed DEF TablePinger, UpdatePingerRequest
  <1>3. Coherent(TableRateLimit)
    <2>1. ConversionFrom({"Enabled", "GlobalRateLimit"},
                         From(UpdateRateLimitRequest, [Limit |-> {"GlobalRateLimit"}]))
      BY DEF ConversionFrom, From, UpdateRateLimitRequest
    <2> QED
      BY <2>1, SwitchCoheres DEF TableRateLimit
  <1> QED
    BY <1>1, <1>2, <1>3

LEMMA NetworkTableCoheres == Coherent(TableSharedNetwork4)
  <1> SUFFICES ASSUME NEW t, t = TableSharedNetwork4 PROVE Coherent(t)
    OBVIOUS
  <1>1. /\ t.columns = {"Name", "SubnetIds", "Subnets", "Comment"}
        /\ t.creates = From({"Name", "SubnetIds"}, AsNamed) /\ t.updates = t.creates
        /\ t.deletes = From({"Name"}, AsNamed) /\ t.always /\ t.old
    BY DEF TableSharedNetwork4, Sending, CreateSharedNetwork4Request, DeleteSharedNetwork4Request,
           UpdateSharedNetwork4Request
  <1>2. ConversionFrom(t.columns, t.creates)
    BY <1>1, ConversionNamed
  <1>3. /\ DOMAIN t.creates = {"Name", "SubnetIds"} /\ t.creates["Name"] = {"Name"}
        /\ DOMAIN t.deletes = {"Name"} /\ t.deletes["Name"] = {"Name"}
    BY <1>1 DEF From, AsNamed
  <1> QED
    BY <1>1, <1>2, <1>3 DEF Coherent

LEMMA FingerprintTableCoheres == Coherent(TableDhcpFingerprint)
  <1> SUFFICES ASSUME NEW t, t = TableDhcpFingerprint PROVE Coherent(t)
    OBVIOUS
  <1>1. /\ t.columns = CreateFingerprintRequest
        /\ t.creates = From(CreateFingerprintRequest, [VendorId |-> getVendorIdByMatchPattern])
        /\ t.updates = t.creates
        /\ t.deletes = From(DeleteFingerprintRequest, [VendorId |-> getVendorIdByMatchPattern])
        /\ t.always /\ t.old
    BY DEF TableDhcpFingerprint, Sending, fingerprintToCreateFingerprintRequest,
           fingerprintToDeleteFingerprintRequest, UpdateFingerprintRequest
  <1>2. /\ DOMAIN t.creates = CreateFingerprintRequest
        /\ \A f \in CreateFingerprintRequest :
              t.creates[f] = IF f = "VendorId" THEN getVendorIdByMatchPattern ELSE {f}
        /\ DOMAIN t.deletes = DeleteFingerprintRequest
        /\ \A f \in DeleteFingerprintRequest :
              t.deletes[f] = IF f = "VendorId" THEN getVendorIdByMatchPattern ELSE {f}
    BY <1>1 DEF From
  <1>3. DeleteFingerprintRequest \subseteq CreateFingerprintRequest
    BY DEF DeleteFingerprintRequest, CreateFingerprintRequest
  <1>4. ConversionFrom(t.columns, t.creates)
    BY <1>1, <1>2 DEF ConversionFrom, CreateFingerprintRequest, getVendorIdByMatchPattern
  <1>5. t.columns # {}
    BY <1>1 DEF CreateFingerprintRequest
  <1> QED
    BY <1>1, <1>2, <1>3, <1>4, <1>5 DEF Coherent

LEMMA OuiTableCoheres == Coherent(TableDhcpOui)
  <1> SUFFICES ASSUME NEW t, t = TableDhcpOui PROVE Coherent(t)
    OBVIOUS
  <1>1. /\ t.columns = {"Oui", "Organization"} /\ t.written = {"Organization"}
        /\ t.creates = From({"Oui", "Organization"}, AsNamed) /\ t.updates = t.creates
        /\ t.deletes = From({"Oui"}, AsNamed) /\ t.always
    BY DEF TableDhcpOui, Sending, CreateOuiRequest, UpdateOuiRequest, DeleteOuiRequest
  <1>2. ConversionFrom(t.columns, t.creates)
    BY <1>1, ConversionNamed
  <1>3. /\ DOMAIN t.creates = {"Oui", "Organization"} /\ t.creates["Oui"] = {"Oui"}
        /\ DOMAIN t.deletes = {"Oui"} /\ t.deletes["Oui"] = {"Oui"}
    BY <1>1 DEF From, AsNamed
  <1> QED
    BY <1>1, <1>2, <1>3 DEF Coherent

LEMMA AssetTableCoheres == Coherent(TableAsset)
  <1> SUFFICES ASSUME NEW t, t = TableAsset PROVE Coherent(t)
    OBVIOUS
  <1>1. /\ t.columns = CreateAssetRequest \cup {"Name"} /\ t.written = t.columns \ {"HwAddress"}
        /\ t.creates = From(CreateAssetRequest, AsNamed) /\ t.updates = t.creates
        /\ t.deletes = From({"HwAddress"}, AsNamed) /\ ~t.always /\ t.compared = CreateAssetRequest
    BY DEF TableAsset, Sending, UpdateAssetRequest, DeleteAssetRequest, Diff
  <1>2. CreateAssetRequest # {} /\ "RebindTime" \notin CreateAssetRequest
        /\ "HwAddress" \in CreateAssetRequest
    BY DEF CreateAssetRequest
  <1>3. ConversionFrom(t.columns, t.creates)
    BY <1>1, <1>2, ConversionNamed
  <1>4. /\ DOMAIN t.creates = CreateAssetRequest
        /\ \A f \in CreateAssetRequest : t.creates[f] = {f}
        /\ DOMAIN t.deletes = {"HwAddress"} /\ t.deletes["HwAddress"] = {"HwAddress"}
    BY <1>1 DEF From, AsNamed
  <1> QED
    BY <1>1, <1>2, <1>3, <1>4 DEF Coherent

LEMMA Subnet4Fields ==
    ASSUME NEW message
    PROVE  /\ DOMAIN Subnet4Message(message) = message
           /\ \A f \in message : Subnet4Message(message)[f] =
                 IF f = "Id" THEN {"SubnetId"}
                 ELSE IF f \in {"RenewTime", "RebindTime"} THEN {"ValidLifetime"}
                 ELSE IF f = "SubnetOptions" THEN pbSubnetOptionsFromSubnet4 ELSE {f}
  BY DEF Subnet4Message, From

LEMMA Subnet6Fields ==
    ASSUME NEW message
    PROVE  /\ DOMAIN Subnet6Message(message) = message
           /\ \A f \in message : Subnet6Message(message)[f] =
                 IF f = "Id" THEN {"SubnetId"}
                 ELSE IF f \in {"RenewTime", "RebindTime", "MinPreferredLifetime",
                                "MaxPreferredLifetime"} THEN {"PreferredLifetime"}
                 ELSE IF f = "SubnetOptions" THEN pbSubnetOptionsFromSubnet6 ELSE {f}
  BY DEF Subnet6Message, From

LEMMA SubnetId ==
    /\ DOMAIN From({"Id"}, [Id |-> {"SubnetId"}]) = {"Id"}
    /\ From({"Id"}, [Id |-> {"SubnetId"}])["Id"] = {"SubnetId"}
  BY DEF From

LEMMA Subnet4Coheres == Coherent(TableSubnet4)
  <1> SUFFICES ASSUME NEW t, t = TableSubnet4 PROVE Coherent(t)
    OBVIOUS
  <1>1. PICK written :
           /\ written = {"IfaceName", "WhiteClientClassStrategy", "WhiteClientClasses",
                    "BlackClientClassStrategy", "BlackClientClasses",
                    "ValidLifetime", "MaxValidLifetime", "MinValidLifetime",
                    "RelayAgentCircuitId", "RelayAgentRemoteId",
                    "RelayAgentAddresses", "NextServer", "AutoReservationType",
                    "Tags"} \cup pbSubnetOptionsFromSubnet4
           /\ t.written = written
           /\ t.columns = written \cup {"SubnetId", "Subnet", "Capacity", "Nodes"}
    BY DEF TableSubnet4, Sending
  <1>2. /\ t.creates = Subnet4Message(CreateSubnet4Request) /\ t.updates = t.creates
        /\ t.deletes = From({"Id"}, [Id |-> {"SubnetId"}]) /\ t.always
    BY DEF TableSubnet4, Sending, subnet4ToCreateSubnet4Request, UpdateSubnet4Request,
           sendUpdateSubnet4CmdToDHCPAgent, DeleteSubnet4Request
  <1>3. /\ DOMAIN t.creates = CreateSubnet4Request
        /\ \A f \in CreateSubnet4Request : t.creates[f] =
                 IF f = "Id" THEN {"SubnetId"}
                 ELSE IF f \in {"RenewTime", "RebindTime"} THEN {"ValidLifetime"}
                 ELSE IF f = "SubnetOptions" THEN pbSubnetOptionsFromSubnet4 ELSE {f}
    BY <1>2, Subnet4Fields
  <1>4. DOMAIN t.deletes = {"Id"} /\ t.deletes["Id"] = {"SubnetId"}
    BY <1>2, SubnetId
  <1>5. {"Id", "ValidLifetime", "RenewTime", "RebindTime"} \subseteq CreateSubnet4Request
    BY DEF CreateSubnet4Request, Network
  <1>6. "SubnetId" \notin t.written
    BY <1>1 DEF pbSubnetOptionsFromSubnet4
  <1>7. ConversionFrom(t.columns, t.creates)
    <2>1. \A f \in DOMAIN t.creates : t.creates[f] # {}
      BY <1>3 DEF pbSubnetOptionsFromSubnet4
    <2>2. ASSUME NEW f \in CreateSubnet4Request
          PROVE  t.creates[f] \subseteq t.columns
      <3>1. CASE f \in {"Id", "RenewTime", "RebindTime", "SubnetOptions"}
        BY <1>1, <1>3, <3>1
      <3>2. CASE f \notin {"Id", "RenewTime", "RebindTime", "SubnetOptions"}
        <4>1. f \in t.columns
          BY <1>1, <3>2 DEF CreateSubnet4Request, Network
        <4>2. t.creates[f] = {f}
          BY <1>3, <3>2
        <4> QED
          BY <4>1, <4>2
      <3> QED
        BY <3>1, <3>2
    <2>3. TimedBy(t.creates, "ValidLifetime")
      BY <1>3, <1>5 DEF TimedBy
    <2> QED
      BY <1>3, <1>5, <2>1, <2>2, <2>3 DEF ConversionFrom, Lifetimes
  <1>8. t.columns # {}
    BY <1>1
  <1> QED
    BY <1>2, <1>3, <1>4, <1>5, <1>6, <1>7, <1>8 DEF Coherent

LEMMA Subnet6Coheres == Coherent(TableSubnet6)
  <1> SUFFICES ASSUME NEW t, t = TableSubnet6 PROVE Coherent(t)
    OBVIOUS
  <1>1. PICK written :
           /\ written = {"IfaceName", "WhiteClientClassStrategy", "WhiteClientClasses",
                    "BlackClientClassStrategy", "BlackClientClasses",
                    "ValidLifetime", "MaxValidLifetime", "MinValidLifetime",
                    "PreferredLifetime", "RelayAgentAddresses", "RapidCommit",
                    "RelayAgentInterfaceId", "AutoReservationType", "Tags"}
                   \cup {"EmbedIpv4", "UseEui64", "AddressCode"} \cup pbSubnetOptionsFromSubnet6
           /\ t.written = written
           /\ t.columns = written \cup {"SubnetId", "Subnet", "Nodes"}
    BY DEF TableSubnet6, Sending
  <1>2. /\ t.creates = Subnet6Message(CreateSubnet6Request) /\ t.updates = t.creates
        /\ t.deletes = From({"Id"}, [Id |-> {"SubnetId"}]) /\ t.always
    BY DEF TableSubnet6, Sending, subnet6ToCreateSubnet6Request, UpdateSubnet6Request,
           sendUpdateSubnet6CmdToDHCPAgent, DeleteSubnet6Request
  <1>3. /\ DOMAIN t.creates = CreateSubnet6Request
        /\ \A f \in CreateSubnet6Request : t.creates[f] =
                 IF f = "Id" THEN {"SubnetId"}
                 ELSE IF f \in {"RenewTime", "RebindTime", "MinPreferredLifetime",
                                "MaxPreferredLifetime"} THEN {"PreferredLifetime"}
                 ELSE IF f = "SubnetOptions" THEN pbSubnetOptionsFromSubnet6 ELSE {f}
    BY <1>2, Subnet6Fields
  <1>4. DOMAIN t.deletes = {"Id"} /\ t.deletes["Id"] = {"SubnetId"}
    BY <1>2, SubnetId
  <1>5. {"Id", "PreferredLifetime", "RenewTime", "RebindTime"} \subseteq CreateSubnet6Request
    BY DEF CreateSubnet6Request, Network
  <1>6. "SubnetId" \notin t.written
    BY <1>1 DEF pbSubnetOptionsFromSubnet6
  <1>7. ConversionFrom(t.columns, t.creates)
    <2>1. \A f \in DOMAIN t.creates : t.creates[f] # {}
      BY <1>3 DEF pbSubnetOptionsFromSubnet6
    <2>2. ASSUME NEW f \in CreateSubnet6Request
          PROVE  t.creates[f] \subseteq t.columns
      <3> DEFINE Renamed == {"Id", "RenewTime", "RebindTime", "MinPreferredLifetime",
                           "MaxPreferredLifetime", "SubnetOptions"}
      <3>1. CASE f \in Renamed
        BY <1>1, <1>3, <3>1
      <3>2. CASE f \notin Renamed
        <4>1. f \in t.columns
          BY <1>1, <3>2 DEF CreateSubnet6Request, Network
        <4>2. t.creates[f] = {f}
          BY <1>3, <3>2
        <4> QED
          BY <4>1, <4>2
      <3> QED
        BY <3>1, <3>2
    <2>3. TimedBy(t.creates, "PreferredLifetime")
      BY <1>3, <1>5 DEF TimedBy
    <2> QED
      BY <1>3, <1>5, <2>1, <2>2, <2>3 DEF ConversionFrom, Lifetimes
  <1>8. t.columns # {}
    BY <1>1
  <1> QED
    BY <1>2, <1>3, <1>4, <1>5, <1>6, <1>7, <1>8 DEF Coherent

LEMMA TablesCohere == ASSUME NEW t \in Tables PROVE Coherent(t)
  BY OwnedTablesCohere, ClassTablesCohere, SayingTablesCohere, SwitchTablesCohere,
     NetworkTableCoheres, FingerprintTableCoheres, OuiTableCoheres, AssetTableCoheres,
     Subnet4Coheres, Subnet6Coheres DEF Tables

-----------------------------------------------------------------------------
(***************************************************************************)
(* NodeRows: what a node has been told                                     *)
(***************************************************************************)

\* A field depends on the columns that it is made of.
LEMMA FieldSame ==
    ASSUME NEW columns, NEW conversion, ConversionFrom(columns, conversion),
           NEW f \in DOMAIN conversion, NEW other, other[f] = conversion[f],
           NEW s, NEW r, \A c \in conversion[f] : s[c] = r[c]
    PROVE  Field(other, s, f) = Field(conversion, r, f)
  <1>1. CASE f = "RenewTime"
    <2>1. PICK c : c = CHOOSE x \in conversion[f] : TRUE
      OBVIOUS
    <2>2. c \in conversion[f]
      BY <2>1 DEF ConversionFrom
    <2>3. Field(other, s, f) = s[c] \div 2 /\ Field(conversion, r, f) = r[c] \div 2
      BY <1>1, <2>1 DEF Field
    <2> QED
      BY <2>2, <2>3
  <1>2. CASE f = "RebindTime"
    <2>1. PICK l \in Lifetimes : conversion[f] = {l}
      BY <1>2 DEF ConversionFrom, TimedBy
    <2>2. CASE l = "PreferredLifetime"
      BY <1>2, <2>1, <2>2 DEF Field
    <2>3. CASE l = "ValidLifetime"
      BY <1>2, <2>1, <2>3 DEF Field
    <2> QED
      BY <2>2, <2>3 DEF Lifetimes
  <1>3. CASE f \notin {"RenewTime", "RebindTime"}
    BY <1>3 DEF Field
  <1> QED
    BY <1>1, <1>2, <1>3

LEMMA MessageSame ==
    ASSUME NEW columns, NEW conversion, ConversionFrom(columns, conversion), NEW s, NEW r,
           \A f \in DOMAIN conversion : \A c \in conversion[f] : s[c] = r[c]
    PROVE  Message(conversion, s) = Message(conversion, r)
  <1>1. \A f \in DOMAIN conversion : Field(conversion, s, f) = Field(conversion, r, f)
    BY FieldSame
  <1> QED
    BY <1>1 DEF Message

\* A command names the copy that was made of the same columns.
LEMMA CopyIsNamed ==
    ASSUME NEW t, Coherent(t), NEW s, NEW r, copy = Message(t.creates, s),
           \A f \in DOMAIN t.deletes : \A c \in t.deletes[f] : r[c] = s[c]
    PROVE  \A f \in DOMAIN t.deletes : copy[f] = Field(t.deletes, r, f)
  <1> SUFFICES ASSUME NEW f \in DOMAIN t.deletes
               PROVE  copy[f] = Field(t.deletes, r, f)
    OBVIOUS
  <1>1. /\ f \in DOMAIN t.creates /\ t.deletes[f] = t.creates[f]
        /\ ConversionFrom(t.columns, t.creates)
    BY DEF Coherent
  <1>2. Field(t.deletes, r, f) = Field(t.creates, s, f)
    BY <1>1, FieldSame
  <1> QED
    BY <1>1, <1>2 DEF Message

LEMMA MessageIsThere ==
    ASSUME NEW t, Coherent(t), NEW s
    PROVE  Message(t.creates, s) # Absent
  <1>1. DOMAIN Message(t.creates, s) # {}
    BY DEF Message, Coherent, ConversionFrom
  <1>2. DOMAIN Absent = {}
    BY DEF Absent
  <1> QED
    BY <1>1, <1>2

LEMMA BodiesAreRows ==
    ASSUME NEW body \in Bodies
    PROVE  body \in [rowsOf.columns -> Nat]
  <1>1. \A c : Range(c) \subseteq Nat
    BY WordAssumption DEF Range
  <1> QED
    BY <1>1 DEF Bodies

LEMMA RowIsThere ==
    ASSUME NEW t, Coherent(t), NEW r \in [t.columns -> Nat]
    PROVE  r # Absent
  <1>1. DOMAIN r # {}
    BY DEF Coherent
  <1>2. DOMAIN Absent = {}
    BY DEF Absent
  <1> QED
    BY <1>1, <1>2

\* A copy was made of some row, and unless misled of the present one.
RowsIInv ==
    /\ rowsOf \in Tables /\ misled \in BOOLEAN
    /\ row # Absent => row \in [rowsOf.columns -> Nat]
    /\ copy # Absent =>
          \E s \in [rowsOf.columns -> Nat] : copy = Message(rowsOf.creates, s)
    /\ NodeShowsRow

LEMMA InitRowsIInv == InitRows => RowsIInv
  <1> SUFFICES ASSUME InitRows PROVE RowsIInv
    OBVIOUS
  <1>1. CASE rowsOf.single
    <2>1. row \in [rowsOf.columns -> Nat] /\ copy = Message(rowsOf.creates, row)
      BY <1>1 DEF InitRows
    <2>2. row # Absent
      BY <2>1, TablesCohere, RowIsThere DEF InitRows
    <2> QED
      BY <2>1, <2>2 DEF InitRows, RowsIInv, NodeShowsRow
  <1>2. CASE ~rowsOf.single
    BY <1>2 DEF InitRows, RowsIInv, NodeShowsRow
  <1> QED
    BY <1>1, <1>2

LEMMA InsertKeeps == RowsIInv /\ Insert => RowsIInv'
  <1> SUFFICES ASSUME RowsIInv, Insert PROVE RowsIInv'
    OBVIOUS
  <1>1. row' \in [rowsOf.columns -> Nat]
    BY BodiesAreRows DEF Insert
  <1>2. row' # Absent
    BY <1>1, TablesCohere, RowIsThere DEF RowsIInv
  <1>3. rowsOf' = rowsOf /\ misled' = FALSE /\ copy' = Message(rowsOf.creates, row')
    BY DEF Insert
  <1>4. Absent' = Absent
    BY DEF Absent
  <1> QED
    BY <1>1, <1>2, <1>3, <1>4 DEF RowsIInv, NodeShowsRow

LEMMA DeleteKeeps == RowsIInv /\ Delete => RowsIInv'
  <1> SUFFICES ASSUME RowsIInv, Delete PROVE RowsIInv'
    OBVIOUS
  <1>1. rowsOf' = rowsOf /\ misled' = misled /\ row' = Absent /\ row # Absent
        /\ copy' = IF Names(row) THEN Absent ELSE copy
    BY DEF Delete
  <1>2. ~misled => Names(row)
    <2> SUFFICES ASSUME ~misled PROVE Names(row)
      OBVIOUS
    <2>1. copy = Message(rowsOf.creates, row) /\ Coherent(rowsOf)
      BY <1>1, TablesCohere DEF RowsIInv, NodeShowsRow
    <2> QED
      BY <2>1, MessageIsThere, CopyIsNamed DEF Names
  <1> QED
    BY <1>1, <1>2 DEF RowsIInv, NodeShowsRow, Absent

LEMMA UpdateNodesKeeps == RowsIInv /\ UpdateNodes => RowsIInv'
  BY DEF RowsIInv, UpdateNodes, NodeShowsRow, Absent

LEMMA UpdateKeeps == RowsIInv /\ Update => RowsIInv'
  <1> SUFFICES ASSUME RowsIInv, Update PROVE RowsIInv'
    OBVIOUS
  <1>1. Coherent(rowsOf) /\ row \in [rowsOf.columns -> Nat] /\ row # Absent
    BY TablesCohere DEF RowsIInv, Update
  <1>2. PICK body \in Bodies :
          LET source == [c \in rowsOf.columns |->
                            IF c \in rowsOf.kept \ rowsOf.written
                            THEN row[c] ELSE body[c]]
              sends == rowsOf.always \/ \E c \in rowsOf.compared : row[c] # source[c]
          IN  /\ row' = [c \in rowsOf.columns |->
                            IF c \in rowsOf.written THEN source[c] ELSE row[c]]
              /\ copy' = IF sends /\ Names(IF rowsOf.old THEN row ELSE source)
                         THEN Message(rowsOf.updates, source) ELSE copy
              /\ misled' = (misled \/ (sends /\ \E c \in Unwritten : body[c] # row[c]))
    BY DEF Update
  <1>3. PICK source : source = [c \in rowsOf.columns |->
                                  IF c \in rowsOf.kept \ rowsOf.written
                                  THEN row[c] ELSE body[c]]
    OBVIOUS
  <1>4. PICK sends \in BOOLEAN :
          sends = (rowsOf.always \/ \E c \in rowsOf.compared : row[c] # source[c])
    OBVIOUS
  <1>5. /\ row' = [c \in rowsOf.columns |-> IF c \in rowsOf.written THEN source[c] ELSE row[c]]
        /\ copy' = IF sends /\ Names(IF rowsOf.old THEN row ELSE source)
                   THEN Message(rowsOf.updates, source) ELSE copy
        /\ misled' = (misled \/ (sends /\ \E c \in Unwritten : body[c] # row[c]))
    BY <1>2, <1>3, <1>4
  <1>6. rowsOf' = rowsOf /\ body \in [rowsOf.columns -> Nat]
    BY BodiesAreRows DEF Update
  <1>7. source \in [rowsOf.columns -> Nat] /\ row' \in [rowsOf.columns -> Nat]
    BY <1>1, <1>3, <1>5, <1>6
  <1>8. sends => rowsOf.updates = rowsOf.creates
    BY <1>1, <1>4 DEF Coherent
  <1>9. row' # Absent
    BY <1>1, <1>7, RowIsThere
  <1>10. copy' # Absent => \E s \in [rowsOf.columns -> Nat] : copy' = Message(rowsOf.creates, s)
    BY <1>5, <1>7, <1>8 DEF RowsIInv
  <1>11. ASSUME ~misled' PROVE copy' = Message(rowsOf.creates, row')
    <2>1. ~misled /\ copy = Message(rowsOf.creates, row)
      BY <1>1, <1>5, <1>11 DEF RowsIInv, NodeShowsRow
    <2>2. CASE sends
      <3>1. \A c \in Unwritten : body[c] = row[c]
        BY <1>5, <1>11, <2>2
      <3>2. \A f \in DOMAIN rowsOf.creates : \A c \in rowsOf.creates[f] : source[c] = row'[c]
        <4> SUFFICES ASSUME NEW f \in DOMAIN rowsOf.creates, NEW c \in rowsOf.creates[f]
                     PROVE  source[c] = row'[c]
          OBVIOUS
        <4>1. c \in rowsOf.columns
          BY <1>1 DEF Coherent, ConversionFrom
        <4>2. c \in rowsOf.written \/ c \in rowsOf.kept \/ c \in Unwritten
          <5>1. c \in UNION {rowsOf.updates[g] : g \in DOMAIN rowsOf.updates}
            BY <1>8, <2>2
          <5> QED
            BY <5>1 DEF Unwritten
        <4> QED
          BY <1>3, <1>5, <3>1, <4>1, <4>2
      <3>3. \A f \in DOMAIN rowsOf.deletes : \A c \in rowsOf.deletes[f] :
                (IF rowsOf.old THEN row ELSE source)[c] = row[c]
        <4>1. CASE rowsOf.old
          BY <4>1
        <4>2. CASE ~rowsOf.old
          <5> SUFFICES ASSUME NEW f \in DOMAIN rowsOf.deletes, NEW c \in rowsOf.deletes[f]
                       PROVE  source[c] = row[c]
            BY <4>2
          <5>1. f \in DOMAIN rowsOf.creates /\ c \in rowsOf.creates[f]
            BY <1>1 DEF Coherent
          <5>2. c \in rowsOf.columns
            BY <1>1, <5>1 DEF Coherent, ConversionFrom
          <5>3. c \notin rowsOf.written
            BY <1>1, <1>4, <2>2, <4>2 DEF Coherent
          <5> QED
            BY <1>5, <3>2, <5>1, <5>2, <5>3
        <4> QED
          BY <4>1, <4>2
      <3>4. Names(IF rowsOf.old THEN row ELSE source)
        <4>1. PICK named : named = IF rowsOf.old THEN row ELSE source
          OBVIOUS
        <4>2. \A f \in DOMAIN rowsOf.deletes : copy[f] = Field(rowsOf.deletes, named, f)
          BY <1>1, <2>1, <3>3, <4>1, CopyIsNamed
        <4> QED
          BY <1>1, <2>1, <4>1, <4>2, MessageIsThere DEF Names
      <3>5. copy' = Message(rowsOf.creates, source)
        BY <1>5, <1>8, <2>2, <3>4
      <3> QED
        BY <1>1, <3>2, <3>5, MessageSame DEF Coherent
    <2>3. CASE ~sends
      <3>1. \A f \in DOMAIN rowsOf.creates : \A c \in rowsOf.creates[f] : row[c] = row'[c]
        <4> SUFFICES ASSUME NEW f \in DOMAIN rowsOf.creates, NEW c \in rowsOf.creates[f]
                     PROVE  row[c] = row'[c]
          OBVIOUS
        <4>1. c \in rowsOf.columns
          BY <1>1 DEF Coherent, ConversionFrom
        <4>2. c \in rowsOf.written => c \in rowsOf.compared
          BY <1>1, <1>4, <2>3 DEF Coherent
        <4> QED
          BY <1>4, <1>5, <2>3, <4>1, <4>2
      <3> QED
        BY <1>1, <1>5, <2>1, <2>3, <3>1, MessageSame DEF Coherent
    <2> QED
      BY <2>2, <2>3
  <1>12. misled' \in BOOLEAN /\ Absent' = Absent
    BY <1>5 DEF RowsIInv, Absent
  <1> QED
    BY <1>6, <1>7, <1>9, <1>10, <1>11, <1>12 DEF RowsIInv, NodeShowsRow

LEMMA NextRowsIInv == RowsIInv /\ [NextRows]_rowsVars => RowsIInv'
  <1>1. RowsIInv /\ UNCHANGED rowsVars => RowsIInv'
    BY DEF RowsIInv, rowsVars, NodeShowsRow, Absent
  <1> QED
    BY <1>1, InsertKeeps, DeleteKeeps, UpdateKeeps, UpdateNodesKeeps DEF NextRows

\* For every table and any sequence of requests: a node has of a row what the row
\* says, and nothing once it is deleted, unless an update named another value
\* for a column that it sends and does not write.
THEOREM NodesShowRows == RowsSpec => []NodeShowsRow
  <1>1. RowsIInv => NodeShowsRow
    BY DEF RowsIInv
  <1> QED
    BY <1>1, InitRowsIInv, NextRowsIInv, PTL DEF RowsSpec

-----------------------------------------------------------------------------
(***************************************************************************)
(* NodeRows: the timers                                                    *)
(***************************************************************************)

\* The two products that the conversions compute.
LEMMA MultipliedExactly ==
    ASSUME NEW v \in Nat, NEW n \in {4, 7}, n * v < Word
    PROVE  (n * v) % Word = n * v
  <1>1. PICK w \in Nat : w = Word
    BY WordAssumption
  <1>2. PICK p \in Nat : p = n * v
    <2>1. CASE n = 4
      BY <2>1
    <2>2. CASE n = 7
      BY <2>2
    <2> QED
      BY <2>1, <2>2
  <1>3. p % w = p
    BY <1>1, <1>2
  <1> QED
    BY <1>1, <1>2, <1>3

LEMMA TimersOfSource ==
    ASSUME NEW columns, NEW conversion, ConversionFrom(columns, conversion),
           NEW s \in [columns -> Nat], NEW m, m = Message(conversion, s),
           "RebindTime" \in DOMAIN m
    PROVE  LET l == CHOOSE c \in Lifetimes : c \in conversion["RebindTime"]
               v == m[l][l]
           IN  v * (IF l = "ValidLifetime" THEN 7 ELSE 4) < Word =>
                   m.RenewTime <= m.RebindTime /\ m.RebindTime <= v
  <1>1. PICK l \in Lifetimes : TimedBy(conversion, l)
    BY DEF ConversionFrom, Message
  <1>2. l = CHOOSE c \in Lifetimes : c \in conversion["RebindTime"]
    BY <1>1 DEF TimedBy
  <1>3. l \in columns /\ l \notin {"RenewTime", "RebindTime"} /\ conversion[l] = {l}
    BY <1>1 DEF TimedBy, ConversionFrom, Lifetimes
  <1>4. PICK v \in Nat : v = s[l]
    BY <1>3
  <1>5. m[l][l] = v
    <2>1. m[l] = [c \in {l} |-> s[c]]
      BY <1>1, <1>3 DEF TimedBy, Message, Field
    <2> QED
      BY <1>4, <2>1
  <1>6. m["RenewTime"] = v \div 2
    <2>1. conversion["RenewTime"] = {l} /\ "RenewTime" \in DOMAIN conversion
      BY <1>1 DEF TimedBy
    <2>2. (CHOOSE c \in {l} : TRUE) = l
      OBVIOUS
    <2> QED
      BY <1>4, <2>1, <2>2 DEF Message, Field
  <1>7. m["RebindTime"] = IF l = "ValidLifetime" THEN RebindTimeV4(v) ELSE RebindTimeV6(v)
    BY <1>1, <1>4 DEF TimedBy, Message, Field, Lifetimes
  <1>8. CASE l = "ValidLifetime"
    <2>1. ASSUME v * 7 < Word
          PROVE  v \div 2 <= RebindTimeV4(v) /\ RebindTimeV4(v) <= v
      <3>1. (v * 7) % Word = v * 7
        BY <2>1, MultipliedExactly
      <3> QED
        BY <3>1 DEF RebindTimeV4
    <2> QED
      BY <1>2, <1>5, <1>6, <1>7, <1>8, <2>1
  <1>9. CASE l = "PreferredLifetime"
    <2>1. ASSUME v * 4 < Word
          PROVE  v \div 2 <= RebindTimeV6(v) /\ RebindTimeV6(v) <= v
      <3>1. (v * 4) % Word = v * 4
        BY <2>1, MultipliedExactly
      <3> QED
        BY <3>1 DEF RebindTimeV6
    <2> QED
      BY <1>2, <1>5, <1>6, <1>7, <1>9, <2>1
  <1> QED
    BY <1>8, <1>9 DEF Lifetimes

\* For lifetimes of any width, so also of 32 bits: the timers that the messages
\* of a subnet carry are ordered, if the product that a timer is made of has no
\* carry out of the word.
THEOREM TimersStayInOrder == RowsSpec => []TimersInOrder
  <1>1. RowsIInv => TimersInOrder
    <2> SUFFICES ASSUME RowsIInv, copy # Absent, "RebindTime" \in DOMAIN copy
                 PROVE  LET lifetime == CHOOSE c \in Lifetimes : c \in rowsOf.creates["RebindTime"]
                            v == copy[lifetime][lifetime]
                        IN  v * (IF lifetime = "ValidLifetime" THEN 7 ELSE 4) < Word =>
                               copy.RenewTime <= copy.RebindTime /\ copy.RebindTime <= v
      BY DEF TimersInOrder
    <2>1. ConversionFrom(rowsOf.columns, rowsOf.creates)
      BY TablesCohere DEF RowsIInv, Coherent
    <2>2. PICK s \in [rowsOf.columns -> Nat] : copy = Message(rowsOf.creates, s)
      BY DEF RowsIInv
    <2> QED
      BY <2>1, <2>2, TimersOfSource
  <1> QED
    BY <1>1, InitRowsIInv, NextRowsIInv, PTL DEF RowsSpec

=============================================================================
