--------------------------- MODULE RowLocks_proofs ---------------------------
(***************************************************************************)
(* The locks that PostgreSQL takes are enough to keep pools from outliving *)
(* their subnet, for any number of requests and pools, although no service *)
(* locks what it reads; and they deadlock only where a request that writes *)
(* a pool before the subnet meets one that writes the subnet first.        *)
(***************************************************************************)
EXTENDS RowLocks, FiniteSetTheorems, TLAPS

Locks == [row : Rows, mode : Modes]

ShareOfSubnet == Lock(Subnet, "key share")
DeletionOfSubnet == Lock(Subnet, "delete")

Kinds == {"Idle", "DeleteSubnet", "CreatePool", "DeletePool", "WriteCapacities",
          "ReserveAddress", "UnreserveAddress"}

In(l, s) == \E i \in DOMAIN s : s[i] = l

Types ==
    /\ rows \subseteq Rows
    /\ request \in [Workers -> [kind : Kinds, creates : SUBSET Pools]]
    /\ todo \in [Workers -> Seq(Locks)]
    /\ held \in [Workers -> SUBSET Locks]

\* Who serves nothing holds nothing.
IdleIsFree == \A w \in Workers : request[w] = Idle => todo[w] = <<>> /\ held[w] = {}

Compatible ==
    \A v, w \in Workers : v # w =>
        \A l \in held[v], m \in held[w] : l.row = m.row => ~Conflict(l.mode, m.mode)

\* A row is not deleted while somebody holds it.
HeldExists == \A w \in Workers : \A l \in held[w] : l.row \in rows

\* Who creates a pool shares the subnet first, and keeps it.
CreatorShares ==
    \A w \in Workers : request[w].creates # {} =>
        /\ DeletionOfSubnet \notin held[w] /\ ~In(DeletionOfSubnet, todo[w])
        /\ \/ ShareOfSubnet \in held[w]
           \/ todo[w] # <<>> /\ Head(todo[w]) = ShareOfSubnet

\* Who deletes the subnet deletes each of its pools.
DeletionCascades ==
    \A w \in Workers : DeletionOfSubnet \in held[w] =>
        \A p \in rows \cap Pools :
            Lock(p, "delete") \in held[w] \/ In(Lock(p, "delete"), todo[w])

IInv ==
    /\ Types /\ IdleIsFree /\ Compatible /\ HeldExists
    /\ CreatorShares /\ DeletionCascades /\ NoOrphans

-----------------------------------------------------------------------------
(***************************************************************************)
(* Sequences of locks                                                      *)
(***************************************************************************)
LEMMA LockType == \A row \in Rows, mode \in Modes : Lock(row, mode) \in Locks
  BY DEF Lock, Locks

\* What is left of a program once its head is taken and more is appended.
LEMMA InRest ==
    ASSUME NEW q \in Seq(Locks), q # <<>>, NEW s \in Seq(Locks), NEW l
    PROVE  /\ Tail(q) \o s \in Seq(Locks) /\ Tail(q) \in Seq(Locks) /\ Head(q) \in Locks
           /\ In(l, Tail(q) \o s) <=> In(l, Tail(q)) \/ In(l, s)
           /\ In(l, q) <=> l = Head(q) \/ In(l, Tail(q))
  <1>1. /\ Tail(q) \in Seq(Locks) /\ Len(Tail(q)) = Len(q) - 1 /\ Len(q) \in Nat \ {0}
        /\ \A i \in 1 .. Len(q) - 1 : Tail(q)[i] = q[i + 1]
        /\ Head(q) = q[1] /\ DOMAIN q = 1 .. Len(q) /\ DOMAIN Tail(q) = 1 .. Len(q) - 1
    OBVIOUS
  <1>2. In(l, q) <=> l = Head(q) \/ In(l, Tail(q))
    <2>1. ASSUME NEW i \in DOMAIN q, q[i] = l, i # 1
          PROVE  In(l, Tail(q))
      <3>1. i - 1 \in DOMAIN Tail(q) /\ Tail(q)[i - 1] = q[i]
        BY <1>1, <2>1
      <3> QED
        BY <2>1, <3>1 DEF In
    <2>2. ASSUME NEW i \in DOMAIN Tail(q), Tail(q)[i] = l
          PROVE  In(l, q)
      <3>1. i + 1 \in DOMAIN q /\ q[i + 1] = l
        BY <1>1, <2>2
      <3> QED
        BY <3>1 DEF In
    <2>3. 1 \in DOMAIN q
      BY <1>1
    <2> QED
      BY <1>1, <2>1, <2>2, <2>3 DEF In
  <1> DEFINE t == Tail(q)
  <1>t. t \in Seq(Locks)
    BY <1>1
  <1> HIDE DEF t
  <1>3. In(l, t \o s) <=> In(l, t) \/ In(l, s)
    <2>1. /\ t \o s \in Seq(Locks) /\ Len(t \o s) = Len(t) + Len(s)
          /\ DOMAIN (t \o s) = 1 .. Len(t) + Len(s)
          /\ DOMAIN t = 1 .. Len(t) /\ DOMAIN s = 1 .. Len(s)
          /\ Len(t) \in Nat /\ Len(s) \in Nat
          /\ \A i \in 1 .. Len(t) + Len(s) :
                (t \o s)[i] = IF i <= Len(t) THEN t[i] ELSE s[i - Len(t)]
      BY <1>t
    <2>2. ASSUME NEW i \in DOMAIN t, t[i] = l
          PROVE  In(l, t \o s)
      <3>1. i \in DOMAIN (t \o s) /\ (t \o s)[i] = l
        BY <2>1, <2>2
      <3> QED
        BY <3>1 DEF In
    <2>3. ASSUME NEW i \in DOMAIN s, s[i] = l
          PROVE  In(l, t \o s)
      <3>1. i + Len(t) \in DOMAIN (t \o s) /\ (t \o s)[i + Len(t)] = l
        BY <2>1, <2>3
      <3> QED
        BY <3>1 DEF In
    <2>4. ASSUME NEW i \in DOMAIN (t \o s), (t \o s)[i] = l
          PROVE  In(l, t) \/ In(l, s)
      <3>1. CASE i <= Len(t)
        <4>1. i \in DOMAIN t /\ t[i] = l
          BY <2>1, <2>4, <3>1
        <4> QED
          BY <4>1 DEF In
      <3>2. CASE ~(i <= Len(t))
        <4>1. i - Len(t) \in DOMAIN s /\ s[i - Len(t)] = l
          BY <2>1, <2>4, <3>2
        <4> QED
          BY <4>1 DEF In
      <3> QED
        BY <3>1, <3>2
    <2> QED
      BY <2>2, <2>3, <2>4 DEF In
  <1>4. t \o s \in Seq(Locks) /\ Head(q) \in Locks
    BY <1>1, <1>t
  <1> QED
    BY <1>1, <1>2, <1>3, <1>4 DEF t

\* The rows of one statement are each locked, and nothing else is.
LEMMA AnyOrder ==
    ASSUME NEW ps \in SUBSET Pools, NEW mode \in Modes, NEW s \in InAnyOrder(ps, mode)
    PROVE  /\ s \in Seq(Locks)
           /\ \A p \in ps : In(Lock(p, mode), s)
           /\ \A i \in DOMAIN s : s[i].row # Subnet
  <1>1. PICK t \in SetToSeqs(ps) : s = [i \in DOMAIN t |-> Lock(t[i], mode)]
    BY DEF InAnyOrder
  <1>2. IsFiniteSet(ps) /\ Cardinality(ps) \in Nat
    BY RowLocksAssumption, FS_Subset, FS_CardinalityType
  <1>3. t \in [1 .. Cardinality(ps) -> ps] /\ DOMAIN t = 1 .. Cardinality(ps)
    BY <1>1 DEF SetToSeqs
  <1>4. \A p \in ps : \E i \in DOMAIN t : t[i] = p
    <2>1. t \in Injection(1 .. Cardinality(ps), ps)
      BY <1>1 DEF SetToSeqs, Injection, IsInjective
    <2>2. Cardinality(1 .. Cardinality(ps)) = Cardinality(ps)
      BY <1>2, FS_Interval
    <2>3. t \in Surjection(1 .. Cardinality(ps), ps)
      BY <1>2, <2>1, <2>2, FS_Injection
    <2> QED
      BY <2>3 DEF Surjection
  <1>5. DOMAIN s = DOMAIN t /\ \A i \in DOMAIN t : s[i] = Lock(t[i], mode) /\ t[i] \in Pools
    BY <1>1, <1>3
  <1>6. s \in Seq(Locks)
    <2>1. \A i \in DOMAIN t : Lock(t[i], mode) \in Locks
      BY <1>5, LockType DEF Rows
    <2>2. s \in [1 .. Cardinality(ps) -> Locks]
      BY <1>1, <1>3, <2>1
    <2> QED
      BY <1>2, <2>2
  <1>7. \A p \in ps : In(Lock(p, mode), s)
    BY <1>4, <1>5 DEF In
  <1>8. \A i \in DOMAIN s : s[i].row # Subnet
    BY <1>5, RowLocksAssumption DEF Lock
  <1> QED
    BY <1>6, <1>7, <1>8

LEMMA CascadeType ==
    ASSUME NEW ps \in SUBSET Pools, NEW lock \in Locks, NEW s \in Cascade(lock, ps)
    PROVE  /\ s \in Seq(Locks)
           /\ lock = DeletionOfSubnet => \A p \in ps : In(Lock(p, "delete"), s)
           /\ lock # DeletionOfSubnet => \A l : ~In(l, s)
  <1>1. CASE lock = DeletionOfSubnet
    <2>1. s \in InAnyOrder(ps, "delete")
      BY <1>1 DEF Cascade, DeletionOfSubnet
    <2> QED
      BY <1>1, <2>1, AnyOrder DEF Modes
  <1>2. CASE lock # DeletionOfSubnet
    BY <1>2 DEF Cascade, DeletionOfSubnet, In
  <1> QED
    BY <1>1, <1>2

LEMMA SubnetLocks == \A mode \in Modes : Lock(Subnet, mode) \in Locks /\ <<Lock(Subnet, mode)>> \in Seq(Locks)
  <1>1. ASSUME NEW mode \in Modes PROVE Lock(Subnet, mode) \in Locks
    BY LockType DEF Rows
  <1>2. ASSUME NEW l \in Locks PROVE <<l>> \in Seq(Locks)
    OBVIOUS
  <1> QED
    BY <1>1, <1>2

LEMMA EmptyProgram == <<>> \in Seq(Locks)
  OBVIOUS

LEMMA ShortPrograms == \A k, l \in Locks : <<k>> \in Seq(Locks) /\ <<k, l>> \in Seq(Locks)
  OBVIOUS

LEMMA RequestParts ==
    ASSUME NEW kind, NEW creates, NEW programs, NEW q \in Request(kind, creates, programs)
    PROVE  q.kind = kind /\ q.creates = creates /\ q.program \in programs
  BY DEF Request

\* The programs of all services.
LEMMA RequestType ==
    ASSUME NEW ps \in SUBSET Pools, NEW new \in SUBSET Pools, NEW q \in Requests(ps, new)
    PROVE  /\ q.program \in Seq(Locks)
           /\ q.kind \in Kinds /\ q.kind # "Idle"
           /\ q.creates \in SUBSET Pools
           /\ q.creates # {} =>
                 /\ ~In(DeletionOfSubnet, q.program)
                 /\ q.program # <<>> /\ Head(q.program) = ShareOfSubnet
  <1>1. CASE q \in Request("DeleteSubnet", {}, DeleteSubnet)
    <2>1. q.kind = "DeleteSubnet" /\ q.creates = {} /\ q.program \in DeleteSubnet
      BY <1>1, RequestParts
    <2> QED
      BY <2>1, SubnetLocks DEF DeleteSubnet, Modes, Kinds
  <1>2. ASSUME NEW p \in new, q \in Request("CreatePool", {p}, CreatePool)
        PROVE  /\ q.program \in Seq(Locks)
               /\ q.kind = "CreatePool" /\ q.creates = {p}
               /\ ~In(DeletionOfSubnet, q.program)
               /\ q.program # <<>> /\ Head(q.program) = ShareOfSubnet
    <2> DEFINE k == Lock(Subnet, "key share")
               u == Lock(Subnet, "update")
    <2>1. q.kind = "CreatePool" /\ q.creates = {p} /\ q.program \in {<<k>>, <<k, u>>}
      <3>1. q.kind = "CreatePool" /\ q.creates = {p} /\ q.program \in CreatePool
        BY <1>2, RequestParts
      <3> QED
        BY <3>1 DEF CreatePool
    <2>2. /\ k = ShareOfSubnet /\ k # DeletionOfSubnet /\ u # DeletionOfSubnet
          /\ k \in Locks /\ u \in Locks
      BY SubnetLocks DEF Lock, ShareOfSubnet, DeletionOfSubnet, Modes
    <2> HIDE DEF k, u
    <2>3. /\ <<k>> \in Seq(Locks) /\ <<k, u>> \in Seq(Locks)
          /\ Head(<<k>>) = k /\ Head(<<k, u>>) = k
          /\ ~In(DeletionOfSubnet, <<k>>) /\ ~In(DeletionOfSubnet, <<k, u>>)
      BY <2>2, ShortPrograms DEF In
    <2>4. <<k>> # <<>> /\ <<k, u>> # <<>>
      OBVIOUS
    <2> QED
      BY <2>1, <2>2, <2>3, <2>4
  <1>3. ASSUME NEW p \in ps, q \in Request("DeletePool", {}, DeletePool(p))
        PROVE  q.program \in Seq(Locks) /\ q.kind = "DeletePool" /\ q.creates = {}
    <2> DEFINE d == Lock(p, "delete")
               u == Lock(Subnet, "update")
    <2>1. q.kind = "DeletePool" /\ q.creates = {} /\ q.program \in {<<d>>, <<d, u>>}
      <3>1. q.kind = "DeletePool" /\ q.creates = {} /\ q.program \in DeletePool(p)
        BY <1>3, RequestParts
      <3> QED
        BY <3>1 DEF DeletePool
    <2>2. d \in Locks /\ u \in Locks
      BY LockType, SubnetLocks DEF Modes, Rows
    <2> HIDE DEF d, u
    <2> QED
      BY <2>1, <2>2, ShortPrograms
  <1>4. ASSUME NEW s \in SUBSET ps, q \in Request("WriteCapacities", {}, WriteCapacities(s))
        PROVE  q.program \in Seq(Locks) /\ q.kind = "WriteCapacities" /\ q.creates = {}
    <2>1. q.kind = "WriteCapacities" /\ q.creates = {} /\ q.program \in WriteCapacities(s)
      BY <1>4, RequestParts
    <2>2. PICK r \in InAnyOrder(s, "update") : q.program = <<Lock(Subnet, "update")>> \o r
      BY <2>1 DEF WriteCapacities
    <2>3. r \in Seq(Locks)
      BY AnyOrder DEF Modes
    <2>4. <<Lock(Subnet, "update")>> \in Seq(Locks)
      BY SubnetLocks DEF Modes
    <2> QED
      BY <2>1, <2>2, <2>3, <2>4
  <1>5. ASSUME NEW p \in ps,
               \/ q \in Request("ReserveAddress", {}, ReserveAddress(p))
               \/ q \in Request("UnreserveAddress", {}, UnreserveAddress(p))
        PROVE  q.program \in Seq(Locks) /\ q.kind \in {"ReserveAddress", "UnreserveAddress"}
               /\ q.creates = {}
    <2> DEFINE k == Lock(Subnet, "key share")
               u == Lock(p, "update")
    <2>1. /\ q.kind \in {"ReserveAddress", "UnreserveAddress"} /\ q.creates = {}
          /\ q.program \in ReserveAddress(p) \cup UnreserveAddress(p)
      BY <1>5, RequestParts
    <2>2. q.program \in {<<u, k>>, <<u>>}
      BY <2>1 DEF ReserveAddress, UnreserveAddress
    <2>3. k \in Locks /\ u \in Locks
      BY LockType, SubnetLocks DEF Modes, Rows
    <2> HIDE DEF k, u
    <2> QED
      BY <2>1, <2>2, <2>3, ShortPrograms
  <1>6. \/ q \in Request("DeleteSubnet", {}, DeleteSubnet)
        \/ \E p \in new : q \in Request("CreatePool", {p}, CreatePool)
        \/ \E p \in ps : q \in Request("DeletePool", {}, DeletePool(p))
        \/ \E s \in SUBSET ps : q \in Request("WriteCapacities", {}, WriteCapacities(s))
        \/ \E p \in ps : \/ q \in Request("ReserveAddress", {}, ReserveAddress(p))
                         \/ q \in Request("UnreserveAddress", {}, UnreserveAddress(p))
    BY DEF Requests, OfVersion4
  <1>7. \A p \in new : {p} \in SUBSET Pools /\ {} \in SUBSET Pools
    OBVIOUS
  <1> QED
    BY <1>1, <1>2, <1>3, <1>4, <1>5, <1>6, <1>7 DEF Kinds

-----------------------------------------------------------------------------
(***************************************************************************)
(* The invariant                                                           *)
(***************************************************************************)
LEMMA InitIInv == Init => IInv
  <1> SUFFICES ASSUME Init PROVE IInv
    OBVIOUS
  <1>1. Idle \in [kind : Kinds, creates : SUBSET Pools] /\ Idle.creates = {}
    BY DEF Idle, Kinds
  <1>2. <<>> \in Seq(Locks)
    OBVIOUS
  <1> QED
    BY <1>1, <1>2 DEF Init, IInv, Types, IdleIsFree, Compatible, HeldExists, CreatorShares,
                      DeletionCascades, NoOrphans, Rows

LEMMA BeginKeeps == ASSUME IInv, NEW w \in Workers, Begin(w) PROVE IInv'
  <1> USE DEF IInv
  <1>1. PICK q \in Requests(rows \cap Pools, Pools \ (rows \cup Mentioned)) :
           /\ request' = [request EXCEPT ![w] = [kind |-> q.kind, creates |-> q.creates]]
           /\ todo' = [todo EXCEPT ![w] = q.program]
    BY DEF Begin
  <1>2. /\ q.program \in Seq(Locks)
        /\ q.kind \in Kinds /\ q.kind # "Idle"
        /\ q.creates \in SUBSET Pools
        /\ q.creates # {} =>
              /\ ~In(DeletionOfSubnet, q.program)
              /\ q.program # <<>> /\ Head(q.program) = ShareOfSubnet
    BY RequestType
  <1>3. held[w] = {} /\ UNCHANGED <<rows, held>>
    BY DEF Begin, IdleIsFree
  <1>4. /\ \A v \in Workers : todo'[v] = IF v = w THEN q.program ELSE todo[v]
        /\ \A v \in Workers : request'[v] = IF v = w THEN [kind |-> q.kind, creates |-> q.creates]
                                            ELSE request[v]
    BY <1>1 DEF Types
  <1>5. Types' /\ IdleIsFree' /\ Compatible' /\ HeldExists' /\ NoOrphans'
    BY <1>1, <1>2, <1>3, <1>4 DEF Types, IdleIsFree, Compatible, HeldExists, NoOrphans, Idle
  <1>6. CreatorShares'
    BY <1>2, <1>3, <1>4 DEF CreatorShares
  <1>7. DeletionCascades'
    BY <1>3, <1>4 DEF DeletionCascades
  <1> QED
    BY <1>5, <1>6, <1>7

\* A worker that is done with its request.
LEMMA ReleaseKeeps == ASSUME IInv, NEW w \in Workers, Release(w), UNCHANGED rows PROVE IInv'
  <1> USE DEF IInv
  <1>1. /\ \A v \in Workers : todo'[v] = IF v = w THEN <<>> ELSE todo[v]
        /\ \A v \in Workers : held'[v] = IF v = w THEN {} ELSE held[v]
        /\ \A v \in Workers : request'[v] = IF v = w THEN Idle ELSE request[v]
    BY DEF Release, Types
  <1>2. Types'
    <2>1. Idle \in [kind : Kinds, creates : SUBSET Pools] /\ <<>> \in Seq(Locks)
      BY DEF Idle, Kinds
    <2> QED
      BY <2>1 DEF Release, Types
  <1>3. Idle.creates = {}
    BY DEF Idle, Kinds
  <1> QED
    BY <1>1, <1>2, <1>3
       DEF IdleIsFree, Compatible, HeldExists, CreatorShares, DeletionCascades, NoOrphans

LEMMA AcquireKeeps == ASSUME IInv, NEW w \in Workers, Acquire(w) PROVE IInv'
  <1> USE DEF IInv
  <1> DEFINE h == Head(todo[w])
             rest == Tail(todo[w])
  <1>1. todo[w] \in Seq(Locks) /\ todo[w] # <<>> /\ UNCHANGED rows
    BY DEF Acquire, Types
  <1>2. /\ h \in Locks /\ rest \in Seq(Locks)
        /\ \A l : In(l, todo[w]) <=> l = h \/ In(l, rest)
    <2>1. <<>> \in Seq(Locks)
      OBVIOUS
    <2> QED
      BY <1>1, <2>1, InRest
  <1>3. ASSUME h.row \in rows, held' = [held EXCEPT ![w] = @ \cup {h}], UNCHANGED request,
               NEW s \in Cascade(h, rows \cap Pools), todo' = [todo EXCEPT ![w] = rest \o s]
        PROVE  IInv'
    <2>1. /\ s \in Seq(Locks)
          /\ h = DeletionOfSubnet => \A p \in rows \cap Pools : In(Lock(p, "delete"), s)
          /\ h # DeletionOfSubnet => \A l : ~In(l, s)
      BY <1>2, <1>3, CascadeType
    <2>2. rest \o s \in Seq(Locks) /\ \A l : In(l, rest \o s) <=> In(l, rest) \/ In(l, s)
      BY <1>1, <2>1, InRest
    <2> HIDE DEF h, rest
    <2>3. /\ \A v \in Workers : todo'[v] = IF v = w THEN rest \o s ELSE todo[v]
          /\ \A v \in Workers : held'[v] = IF v = w THEN held[w] \cup {h} ELSE held[v]
      BY <1>3 DEF Types
    <2>4. Types'
      BY <1>1, <1>2, <1>3, <2>2 DEF Types
    <2>5. IdleIsFree'
      BY <1>1, <1>3, <2>3 DEF IdleIsFree
    <2>6. Compatible'
      <3>1. \A v \in Workers \ {w} : \A l \in held[v] : l.row = h.row => ~Conflict(l.mode, h.mode)
        BY DEF Acquire, WaitsFor, h
      <3>2. \A m, n : Conflict(m, n) <=> Conflict(n, m)
        BY DEF Conflict
      <3> QED
        BY <2>3, <3>1, <3>2 DEF Compatible
    <2>7. HeldExists'
      BY <1>1, <1>3, <2>3 DEF HeldExists
    <2>8. CreatorShares'
      <3>1. ASSUME NEW v \in Workers, v # w, request'[v].creates # {}
            PROVE  /\ DeletionOfSubnet \notin held'[v] /\ ~In(DeletionOfSubnet, todo'[v])
                   /\ \/ ShareOfSubnet \in held'[v]
                      \/ todo'[v] # <<>> /\ Head(todo'[v]) = ShareOfSubnet
        BY <1>3, <2>3, <3>1 DEF CreatorShares
      <3>2. ASSUME request'[w].creates # {}
            PROVE  /\ DeletionOfSubnet \notin held'[w] /\ ~In(DeletionOfSubnet, todo'[w])
                   /\ ShareOfSubnet \in held'[w]
        <4>1. /\ DeletionOfSubnet \notin held[w] /\ ~In(DeletionOfSubnet, todo[w])
              /\ ShareOfSubnet \in held[w] \/ h = ShareOfSubnet
          BY <1>3, <3>2 DEF CreatorShares, h
        <4> QED
          BY <1>2, <2>1, <2>2, <2>3, <4>1
      <3> QED
        BY <3>1, <3>2 DEF CreatorShares
    <2>9. DeletionCascades'
      BY <1>1, <1>2, <2>1, <2>2, <2>3 DEF DeletionCascades
    <2> QED
      BY <1>1, <2>4, <2>5, <2>6, <2>7, <2>8, <2>9 DEF NoOrphans
  <1>4. ASSUME h.row \notin rows, h.mode # "key share",
               todo' = [todo EXCEPT ![w] = rest], UNCHANGED <<request, held>>
        PROVE  IInv'
    <2> HIDE DEF h, rest
    <2>1. \A v \in Workers : todo'[v] = IF v = w THEN rest ELSE todo[v]
      BY <1>4 DEF Types
    <2>2. h # ShareOfSubnet /\ \A p \in rows : h # Lock(p, "delete")
      <3>1. ShareOfSubnet.mode = "key share" /\ \A p : Lock(p, "delete").row = p
        BY DEF Lock, ShareOfSubnet
      <3> QED
        BY <1>4, <3>1
    <2>3. Types' /\ IdleIsFree' /\ Compatible' /\ HeldExists' /\ NoOrphans'
      BY <1>1, <1>2, <1>4, <2>1 DEF Types, IdleIsFree, Compatible, HeldExists, NoOrphans
    <2>4. CreatorShares'
      BY <1>2, <1>4, <2>1, <2>2 DEF CreatorShares, h
    <2>5. DeletionCascades'
      BY <1>1, <1>2, <1>4, <2>1, <2>2 DEF DeletionCascades
    <2> QED
      BY <2>3, <2>4, <2>5
  <1> QED
    BY <1>1, <1>3, <1>4, ReleaseKeeps DEF Acquire

LEMMA CommitKeeps == ASSUME IInv, NEW w \in Workers, Commit(w) PROVE IInv'
  <1> USE DEF IInv
  <1> DEFINE new == request[w].creates
  <1>1. /\ rows' = (rows \ Deleted(w)) \cup new /\ todo[w] = <<>> /\ Release(w)
        /\ \A l : ~In(l, todo[w])
    BY DEF Commit, In
  <1>2. /\ \A v \in Workers : todo'[v] = IF v = w THEN <<>> ELSE todo[v]
        /\ \A v \in Workers : held'[v] = IF v = w THEN {} ELSE held[v]
        /\ \A v \in Workers : request'[v] = IF v = w THEN Idle ELSE request[v]
    BY <1>1 DEF Release, Types
  <1>3. Types'
    <2>1. Idle \in [kind : Kinds, creates : SUBSET Pools] /\ <<>> \in Seq(Locks)
      BY DEF Idle, Kinds
    <2>2. new \subseteq Rows
      BY DEF Types, Rows
    <2> QED
      BY <1>1, <2>1, <2>2 DEF Release, Types
  <1>4. \A v \in Workers \ {w} : \A l \in held[v] : l.row \notin Deleted(w)
    <2>1. \A m : Conflict(m, "delete")
      BY DEF Conflict
    <2> QED
      BY <2>1 DEF Compatible, Deleted
  <1>5. new # {} => /\ Subnet \in rows /\ Subnet \notin Deleted(w)
                    /\ \A v \in Workers \ {w} : DeletionOfSubnet \notin held[v]
    <2> SUFFICES ASSUME new # {}
                 PROVE  /\ Subnet \in rows /\ Subnet \notin Deleted(w)
                        /\ \A v \in Workers \ {w} : DeletionOfSubnet \notin held[v]
      OBVIOUS
    <2>1. ShareOfSubnet \in held[w] /\ DeletionOfSubnet \notin held[w]
      BY <1>1 DEF CreatorShares
    <2>2. Subnet \in rows
      BY <2>1 DEF HeldExists, ShareOfSubnet, Lock
    <2>3. Subnet \notin Deleted(w)
      <3>1. \A l \in held[w] : l.row = Subnet /\ l.mode = "delete" => l = DeletionOfSubnet
        BY DEF Types, Locks, DeletionOfSubnet, Lock
      <3> QED
        BY <2>1, <3>1 DEF Deleted
    <2>4. Conflict("key share", "delete")
      BY DEF Conflict
    <2>5. \A v \in Workers \ {w} : DeletionOfSubnet \notin held[v]
      BY <2>1, <2>4 DEF Compatible, ShareOfSubnet, DeletionOfSubnet, Lock
    <2> QED
      BY <2>2, <2>3, <2>5
  <1>6. IdleIsFree' /\ Compatible' /\ CreatorShares'
    BY <1>2 DEF IdleIsFree, Compatible, CreatorShares, Idle
  <1>7. HeldExists'
    BY <1>1, <1>2, <1>4 DEF HeldExists
  <1>8. DeletionCascades'
    BY <1>1, <1>2, <1>5 DEF DeletionCascades
  <1>9. NoOrphans'
    <2>1. CASE Subnet \notin rows
      BY <1>1, <1>5, <2>1 DEF NoOrphans
    <2>2. CASE Subnet \in rows /\ Subnet \notin Deleted(w)
      BY <1>1, <2>2 DEF NoOrphans
    <2>3. CASE Subnet \in rows /\ Subnet \in Deleted(w)
      <3>1. DeletionOfSubnet \in held[w]
        BY <2>3 DEF Deleted, Types, Locks, DeletionOfSubnet, Lock
      <3>2. \A p \in rows \cap Pools : p \in Deleted(w)
        <4>1. \A p : Lock(p, "delete").row = p /\ Lock(p, "delete").mode = "delete"
          BY DEF Lock
        <4>2. \A p \in rows \cap Pools : Lock(p, "delete") \in held[w]
          BY <1>1, <3>1 DEF DeletionCascades
        <4> QED
          BY <4>1, <4>2 DEF Deleted
      <3>3. new = {}
        BY <1>5, <2>3
      <3> QED
        BY <1>1, <2>3, <3>2, <3>3 DEF NoOrphans, Types, Rows
    <2> QED
      BY <2>1, <2>2, <2>3
  <1> QED
    BY <1>3, <1>6, <1>7, <1>8, <1>9

LEMMA NextIInv == IInv /\ [Next]_vars => IInv'
  <1> SUFFICES ASSUME IInv, [Next]_vars PROVE IInv'
    OBVIOUS
  <1>1. ASSUME NEW w \in Workers, RollBack(w) PROVE IInv'
    BY <1>1, ReleaseKeeps DEF RollBack
  <1>2. CASE EndDeadlock
    BY <1>2, ReleaseKeeps DEF EndDeadlock, Deadlocked
  <1>3. CASE CreateSubnet
    BY <1>3 DEF CreateSubnet, IInv, Types, IdleIsFree, Compatible, HeldExists, CreatorShares,
                DeletionCascades, NoOrphans, Rows, DeletionOfSubnet, Lock
  <1>4. CASE UNCHANGED vars
    BY <1>4 DEF vars, IInv, Types, IdleIsFree, Compatible, HeldExists, CreatorShares,
                DeletionCascades, NoOrphans
  <1> QED
    BY <1>1, <1>2, <1>3, <1>4, BeginKeeps, AcquireKeeps, CommitKeeps DEF Next

\* A pool that is created while its subnet is being deleted either comes first
\* and goes with it, or is refused: this rests on the row locks only, and not
\* on any of the checks that a service makes.
THEOREM NoPoolOutlivesItsSubnet == Spec => []NoOrphans
  <1>1. IInv => NoOrphans
    BY DEF IInv
  <1> QED
    BY <1>1, InitIInv, NextIInv, PTL DEF Spec

-----------------------------------------------------------------------------
(***************************************************************************)
(* Deadlocks: in which order each request locks.                           *)
(***************************************************************************)
OnPools(s) == \A i \in DOMAIN s : s[i].row # Subnet
UpdateOfSubnet == Lock(Subnet, "update")

PoolFirst == {"DeletePool", "ReserveAddress"}
SubnetFirst == {"WriteCapacities", "DeleteSubnet"}

\* How a request starts.
Program(kind, s) ==
    /\ s # <<>>
    /\ \/ Tail(s) = <<>> /\ Head(s) # DeletionOfSubnet
       \/ Head(s) = ShareOfSubnet /\ Tail(s) = <<UpdateOfSubnet>>
       \/ /\ kind \in PoolFirst /\ Head(s).row # Subnet
          /\ Tail(s) \in {<<ShareOfSubnet>>, <<UpdateOfSubnet>>}
       \/ /\ kind \in SubnetFirst /\ Head(s) \in {UpdateOfSubnet, DeletionOfSubnet}
          /\ OnPools(Tail(s))

Starts(w) == held[w] = {} /\ Program(request[w].kind, todo[w])

\* The subnet is shared for the pool that is created, and still to be updated.
SharesSubnet(w) == held[w] = {ShareOfSubnet} /\ todo[w] = <<UpdateOfSubnet>>

\* The pool is written, and the subnet is still to be.
PoolWasFirst(w) ==
    /\ request[w].kind \in PoolFirst
    /\ \A l \in held[w] : l.row # Subnet
    /\ todo[w] \in {<<ShareOfSubnet>>, <<UpdateOfSubnet>>}

\* The subnet is written, and pools are still to be.
SubnetWasFirst(w) ==
    /\ request[w].kind \in SubnetFirst
    /\ \E l \in held[w] : l.row = Subnet /\ l.mode # "key share"
    /\ OnPools(todo[w])

\* The subnet was gone, and its pools with it.
FindsNothing(w) == OnPools(todo[w]) /\ \A i \in DOMAIN todo[w] : todo[w][i].row \notin rows

\* What a worker has locked and has to lock still.
Phase(w) ==
    \/ todo[w] = <<>> \/ Starts(w) \/ SharesSubnet(w) \/ PoolWasFirst(w)
    \/ SubnetWasFirst(w) \/ FindsNothing(w)

Phases == \A w \in Workers : Phase(w)

\* A pool that is being created is nobody else's yet.
Fresh ==
    \A v \in Workers : \A p \in request[v].creates :
        /\ p \notin rows
        /\ \A w \in Workers : /\ v # w => p \notin request[w].creates
                              /\ \A i \in DOMAIN todo[w] : todo[w][i].row # p

OrderInv == IInv /\ Phases /\ Fresh

-----------------------------------------------------------------------------
LEMMA InitOrder == Init => Phases /\ Fresh
  BY DEF Init, Phases, Phase, Fresh, Idle

\* What a program of one or two locks starts with.
LEMMA HeadAndTail ==
    \A k, l \in Locks :
        /\ <<k>> # <<>> /\ Head(<<k>>) = k /\ Tail(<<k>>) = <<>>
        /\ <<k, l>> # <<>> /\ Head(<<k, l>>) = k /\ Tail(<<k, l>>) = <<l>>
  OBVIOUS

LEMMA LockFields == \A row, mode : Lock(row, mode).row = row /\ Lock(row, mode).mode = mode
  BY DEF Lock

LEMMA NamedLocks ==
    /\ ShareOfSubnet \in Locks /\ UpdateOfSubnet \in Locks /\ DeletionOfSubnet \in Locks
    /\ ShareOfSubnet.row = Subnet /\ ShareOfSubnet.mode = "key share"
    /\ UpdateOfSubnet.row = Subnet /\ UpdateOfSubnet.mode = "update"
    /\ DeletionOfSubnet.row = Subnet /\ DeletionOfSubnet.mode = "delete"
  BY SubnetLocks, LockFields DEF Modes, ShareOfSubnet, UpdateOfSubnet, DeletionOfSubnet

\* A lock on a subnet is followed by what comes after it.
LEMMA FrontOfProgram ==
    ASSUME NEW k \in Locks, NEW s \in Seq(Locks)
    PROVE  /\ <<k>> \o s \in Seq(Locks) /\ <<k>> \o s # <<>>
           /\ Head(<<k>> \o s) = k /\ Tail(<<k>> \o s) = s
  OBVIOUS

\* Which order the programs of each service lock in, and which rows.
LEMMA RequestOrder ==
    ASSUME NEW ps \in SUBSET Pools, NEW new \in SUBSET Pools, NEW q \in Requests(ps, new)
    PROVE  /\ Program(q.kind, q.program)
           /\ \A i \in DOMAIN q.program : q.program[i].row \in ps \cup {Subnet}
           /\ q.creates \subseteq new
  <1> DEFINE Goal == /\ Program(q.kind, q.program)
                     /\ \A i \in DOMAIN q.program : q.program[i].row \in ps \cup {Subnet}
                     /\ q.creates \subseteq new
  <1>0. /\ UpdateOfSubnet = Lock(Subnet, "update") /\ ShareOfSubnet = Lock(Subnet, "key share")
        /\ DeletionOfSubnet = Lock(Subnet, "delete")
    BY DEF UpdateOfSubnet, ShareOfSubnet, DeletionOfSubnet
  <1>1. CASE q \in Request("DeleteSubnet", {}, DeleteSubnet)
    <2>1. q.kind = "DeleteSubnet" /\ q.creates = {} /\ q.program = <<DeletionOfSubnet>>
      <3>1. q.kind = "DeleteSubnet" /\ q.creates = {} /\ q.program \in DeleteSubnet
        BY <1>1, RequestParts
      <3> QED
        BY <1>0, <3>1 DEF DeleteSubnet
    <2>2. \A i \in DOMAIN <<DeletionOfSubnet>> : <<DeletionOfSubnet>>[i].row = Subnet
      <3>1. \A l : \A i \in DOMAIN <<l>> : <<l>>[i] = l
        OBVIOUS
      <3> QED
        BY <3>1, NamedLocks
    <2>3. OnPools(Tail(<<DeletionOfSubnet>>))
      BY DEF OnPools
    <2> QED
      BY <2>1, <2>2, <2>3, HeadAndTail, NamedLocks DEF Program, SubnetFirst
  <1>2. ASSUME NEW p \in new, q \in Request("CreatePool", {p}, CreatePool)
        PROVE  Goal
    <2>1. /\ q.kind = "CreatePool" /\ q.creates = {p}
          /\ q.program \in {<<ShareOfSubnet>>, <<ShareOfSubnet, UpdateOfSubnet>>}
      <3>1. q.kind = "CreatePool" /\ q.creates = {p} /\ q.program \in CreatePool
        BY <1>2, RequestParts
      <3> QED
        BY <1>0, <3>1 DEF CreatePool
    <2>2. ShareOfSubnet # DeletionOfSubnet
      BY NamedLocks
    <2>3. Program(q.kind, q.program)
      BY <2>1, <2>2, HeadAndTail, NamedLocks DEF Program
    <2>4. \A i \in DOMAIN q.program : q.program[i] \in {ShareOfSubnet, UpdateOfSubnet}
      BY <2>1
    <2> QED
      BY <2>1, <2>3, <2>4, NamedLocks
  <1>3. ASSUME NEW p \in ps, q \in Request("DeletePool", {}, DeletePool(p))
        PROVE  Goal
    <2> DEFINE d == Lock(p, "delete")
    <2>1. /\ q.kind = "DeletePool" /\ q.creates = {}
          /\ q.program \in {<<d>>, <<d, UpdateOfSubnet>>}
      <3>1. q.kind = "DeletePool" /\ q.creates = {} /\ q.program \in DeletePool(p)
        BY <1>3, RequestParts
      <3> QED
        BY <1>0, <3>1 DEF DeletePool
    <2>2. d \in Locks /\ d.row = p /\ p # Subnet
      BY LockType, LockFields, RowLocksAssumption DEF Modes, Rows
    <2> HIDE DEF d
    <2>3. d # DeletionOfSubnet
      BY <2>2, NamedLocks
    <2>4. Program(q.kind, q.program)
      BY <2>1, <2>2, <2>3, HeadAndTail, NamedLocks DEF Program, PoolFirst
    <2>5. \A i \in DOMAIN q.program : q.program[i] \in {d, UpdateOfSubnet}
      BY <2>1
    <2> QED
      BY <2>1, <2>2, <2>4, <2>5, NamedLocks
  <1>4. ASSUME NEW s \in SUBSET ps, q \in Request("WriteCapacities", {}, WriteCapacities(s))
        PROVE  Goal
    <2>1. q.kind = "WriteCapacities" /\ q.creates = {} /\ q.program \in WriteCapacities(s)
      BY <1>4, RequestParts
    <2>2. PICK r \in InAnyOrder(s, "update") : q.program = <<UpdateOfSubnet>> \o r
      BY <1>0, <2>1 DEF WriteCapacities
    <2>3. r \in Seq(Locks) /\ \A i \in DOMAIN r : r[i].row \in ps /\ r[i].row # Subnet
      <3>1. PICK t \in SetToSeqs(s) : r = [i \in DOMAIN t |-> Lock(t[i], "update")]
        BY DEF InAnyOrder
      <3>2. \A i \in DOMAIN t : t[i] \in s
        BY <3>1 DEF SetToSeqs
      <3>3. \A i \in DOMAIN r : r[i].row \in s
        BY <3>1, <3>2, LockFields
      <3>4. r \in Seq(Locks) /\ \A i \in DOMAIN r : r[i].row # Subnet
        BY AnyOrder DEF Modes
      <3> QED
        BY <3>3, <3>4
    <2>4. /\ q.program # <<>> /\ Head(q.program) = UpdateOfSubnet /\ Tail(q.program) = r
          /\ q.program \in Seq(Locks)
      BY <2>2, <2>3, FrontOfProgram, NamedLocks
    <2>5. Program(q.kind, q.program)
      BY <2>1, <2>3, <2>4 DEF Program, SubnetFirst, OnPools
    <2>6. \A l : In(l, q.program) => l = UpdateOfSubnet \/ In(l, r)
      <3>1. <<>> \in Seq(Locks)
        OBVIOUS
      <3> QED
        BY <2>4, <3>1, InRest
    <2>7. \A i \in DOMAIN q.program : q.program[i].row \in ps \cup {Subnet}
      <3>1. \A i \in DOMAIN q.program : In(q.program[i], q.program)
        BY DEF In
      <3>2. \A l : In(l, r) => l.row \in ps
        BY <2>3 DEF In
      <3> QED
        BY <2>6, <3>1, <3>2, NamedLocks
    <2> QED
      BY <2>1, <2>5, <2>7
  <1>5. ASSUME NEW p \in ps,
               \/ q \in Request("ReserveAddress", {}, ReserveAddress(p))
               \/ q \in Request("UnreserveAddress", {}, UnreserveAddress(p))
        PROVE  Goal
    <2> DEFINE u == Lock(p, "update")
    <2>1. /\ q.creates = {}
          /\ \/ q.kind = "ReserveAddress" /\ q.program = <<u, ShareOfSubnet>>
             \/ q.program = <<u>>
      <3>1. \/ /\ q.kind = "ReserveAddress" /\ q.creates = {}
               /\ q.program \in ReserveAddress(p)
            \/ q.creates = {} /\ q.program \in UnreserveAddress(p)
        BY <1>5, RequestParts
      <3> QED
        BY <1>0, <3>1 DEF ReserveAddress, UnreserveAddress
    <2>2. u \in Locks /\ u.row = p /\ p # Subnet
      BY LockType, LockFields, RowLocksAssumption DEF Modes, Rows
    <2> HIDE DEF u
    <2>3. u # DeletionOfSubnet
      BY <2>2, NamedLocks
    <2>4. Program(q.kind, q.program)
      BY <2>1, <2>2, <2>3, HeadAndTail, NamedLocks DEF Program, PoolFirst
    <2>5. \A i \in DOMAIN q.program : q.program[i] \in {u, ShareOfSubnet}
      BY <2>1
    <2> QED
      BY <2>1, <2>2, <2>4, <2>5, NamedLocks
  <1>6. \/ q \in Request("DeleteSubnet", {}, DeleteSubnet)
        \/ \E p \in new : q \in Request("CreatePool", {p}, CreatePool)
        \/ \E p \in ps : q \in Request("DeletePool", {}, DeletePool(p))
        \/ \E s \in SUBSET ps : q \in Request("WriteCapacities", {}, WriteCapacities(s))
        \/ \E p \in ps : \/ q \in Request("ReserveAddress", {}, ReserveAddress(p))
                         \/ q \in Request("UnreserveAddress", {}, UnreserveAddress(p))
    BY DEF Requests, OfVersion4
  <1> QED
    BY <1>1, <1>2, <1>3, <1>4, <1>5, <1>6

-----------------------------------------------------------------------------
\* A step of another worker that leaves the rows alone changes nothing for it.
LEMMA OthersKeepPhase ==
    ASSUME NEW w \in Workers, Phase(w),
           request'[w] = request[w], todo'[w] = todo[w], held'[w] = held[w],
           \A i \in DOMAIN todo[w] : todo[w][i].row \in rows' => todo[w][i].row \in rows
    PROVE  Phase(w)'
  <1>1. CASE FindsNothing(w)
    BY <1>1 DEF Phase, FindsNothing
  <1>2. CASE ~FindsNothing(w)
    BY <1>2 DEF Phase, Starts, SharesSubnet, PoolWasFirst, SubnetWasFirst
  <1> QED
    BY <1>1, <1>2

LEMMA BeginOrder == ASSUME OrderInv, NEW w \in Workers, Begin(w) PROVE Phases' /\ Fresh'
  <1> DEFINE ps == rows \cap Pools
             new == Pools \ (rows \cup Mentioned)
  <1>1. PICK q \in Requests(ps, new) :
           /\ request' = [request EXCEPT ![w] = [kind |-> q.kind, creates |-> q.creates]]
           /\ todo' = [todo EXCEPT ![w] = q.program]
    BY DEF Begin
  <1>2. /\ Program(q.kind, q.program)
        /\ \A i \in DOMAIN q.program : q.program[i].row \in ps \cup {Subnet}
        /\ q.creates \subseteq new
    BY RequestOrder
  <1>3. /\ held[w] = {} /\ todo[w] = <<>> /\ UNCHANGED <<rows, held>>
        /\ Types /\ Phases /\ Fresh
    BY DEF Begin, IdleIsFree, OrderInv, IInv
  <1>4. /\ \A v \in Workers : todo'[v] = IF v = w THEN q.program ELSE todo[v]
        /\ \A v \in Workers : request'[v] = IF v = w THEN [kind |-> q.kind, creates |-> q.creates]
                                            ELSE request[v]
    BY <1>1, <1>3 DEF Types
  <1>5. Phases'
    <2>1. Phase(w)'
      <3>1. request'[w].kind = q.kind /\ todo'[w] = q.program /\ held'[w] = {}
        BY <1>3, <1>4
      <3> QED
        BY <1>2, <3>1 DEF Phase, Starts
    <2>2. ASSUME NEW v \in Workers, v # w PROVE Phase(v)'
      <3>1. Phase(v)
        BY <1>3 DEF Phases
      <3> QED
        BY <1>3, <1>4, <2>2, <3>1, OthersKeepPhase
    <2> QED
      BY <2>1, <2>2 DEF Phases
  <1>6. Fresh'
    <2>1. \A p \in new : /\ p \notin rows
                         /\ \A v \in Workers : /\ p \notin request[v].creates
                                               /\ \A i \in DOMAIN todo[v] : todo[v][i].row # p
      <3>1. ASSUME NEW p \in new, NEW v \in Workers, NEW i \in DOMAIN todo[v]
            PROVE  todo[v][i].row # p
        <4>1. todo[v][i] \in Range(todo[v])
          BY DEF Range
        <4> QED
          BY <4>1 DEF Mentioned
      <3>2. \A p \in new : \A v \in Workers : p \notin request[v].creates
        BY DEF Mentioned
      <3> QED
        BY <3>1, <3>2
    <2>2. \A v \in Workers : \A p \in request[v].creates : p \notin ps /\ p # Subnet /\ p \notin rows
      BY <1>3, RowLocksAssumption DEF Fresh, Types
    <2>3. \A p \in new : p \notin ps /\ p # Subnet
      BY RowLocksAssumption
    <2>4. request'[w].creates = q.creates /\ todo'[w] = q.program
      BY <1>4
    <2> HIDE DEF ps, new
    <2>5. ASSUME NEW p \in request'[w].creates
          PROVE  /\ p \notin rows'
                 /\ \A v \in Workers : /\ w # v => p \notin request'[v].creates
                                       /\ \A i \in DOMAIN todo'[v] : todo'[v][i].row # p
      <3>1. p \in new
        BY <1>2, <2>4
      <3>2. \A i \in DOMAIN todo'[w] : todo'[w][i].row # p
        BY <1>2, <2>3, <2>4, <3>1
      <3>3. \A v \in Workers \ {w} : request'[v] = request[v] /\ todo'[v] = todo[v]
        BY <1>4
      <3> QED
        BY <1>3, <2>1, <3>1, <3>2, <3>3
    <2>6. ASSUME NEW u \in Workers, u # w, NEW p \in request'[u].creates
          PROVE  /\ p \notin rows'
                 /\ \A v \in Workers : /\ u # v => p \notin request'[v].creates
                                       /\ \A i \in DOMAIN todo'[v] : todo'[v][i].row # p
      <3>1. p \in request[u].creates
        BY <1>4, <2>6
      <3>2. p \notin request'[w].creates
        BY <1>2, <2>1, <2>4, <3>1
      <3>3. \A i \in DOMAIN todo'[w] : todo'[w][i].row # p
        BY <1>2, <2>2, <2>4, <3>1
      <3>4. \A v \in Workers \ {w} : request'[v] = request[v] /\ todo'[v] = todo[v]
        BY <1>4
      <3> QED
        BY <1>3, <3>1, <3>2, <3>3, <3>4 DEF Fresh
    <2> QED
      BY <2>5, <2>6 DEF Fresh
  <1> QED
    BY <1>5, <1>6

LEMMA ReleaseOrder ==
    ASSUME OrderInv, NEW w \in Workers, Release(w), rows' \subseteq rows \cup request[w].creates
    PROVE  Phases' /\ Fresh'
  <1>0. Types /\ Phases /\ Fresh /\ Idle.creates = {}
    BY DEF OrderInv, IInv, Idle
  <1>1. /\ \A v \in Workers : todo'[v] = IF v = w THEN <<>> ELSE todo[v]
        /\ \A v \in Workers : held'[v] = IF v = w THEN {} ELSE held[v]
        /\ \A v \in Workers : request'[v] = IF v = w THEN Idle ELSE request[v]
    BY <1>0 DEF Release, Types
  <1>2. ASSUME NEW v \in Workers PROVE Phase(v)'
    <2>1. CASE v = w
      BY <1>1, <2>1 DEF Phase
    <2>2. CASE v # w
      <3>1. Phase(v)
        BY <1>0 DEF Phases
      <3>2. \A i \in DOMAIN todo[v] : todo[v][i].row \in rows' => todo[v][i].row \in rows
        BY <1>0 DEF Fresh
      <3> QED
        BY <1>1, <2>2, <3>1, <3>2, OthersKeepPhase
    <2> QED
      BY <2>1, <2>2
  <1>3. Fresh'
    <2>1. ASSUME NEW v \in Workers, NEW p \in request'[v].creates
          PROVE  /\ p \notin rows'
                 /\ \A u \in Workers : /\ v # u => p \notin request'[u].creates
                                       /\ \A i \in DOMAIN todo'[u] : todo'[u][i].row # p
      <3>1. v # w /\ p \in request[v].creates
        BY <1>0, <1>1
      <3>2. p \notin rows /\ p \notin request[w].creates
        BY <1>0, <3>1 DEF Fresh
      <3> QED
        BY <1>0, <1>1, <3>1, <3>2 DEF Fresh
    <2> QED
      BY <2>1 DEF Fresh
  <1> QED
    BY <1>2, <1>3 DEF Phases

\* A lock that is taken: what is appended are the pools of a deleted subnet.
LEMMA TakenOrder ==
    ASSUME OrderInv, NEW w \in Workers, todo[w] # <<>>, Head(todo[w]).row \in rows, UNCHANGED rows,
           NEW s \in Cascade(Head(todo[w]), rows \cap Pools),
           request'[w] = request[w], held'[w] = held[w] \cup {Head(todo[w])},
           todo'[w] = Tail(todo[w]) \o s
    PROVE  /\ Phase(w)'
           /\ \A l : In(l, todo'[w]) => In(l, todo[w]) \/ l.row \in rows \cap Pools
  <1> DEFINE h == Head(todo[w])
             rest == Tail(todo[w])
             k == request[w].kind
  <1>1. /\ todo[w] \in Seq(Locks) /\ h \in Locks /\ rest \in Seq(Locks)
        /\ \A l : In(l, todo[w]) <=> l = h \/ In(l, rest)
    <2>1. <<>> \in Seq(Locks)
      BY EmptyProgram
    <2>2. todo[w] \in Seq(Locks)
      BY DEF OrderInv, IInv, Types
    <2> QED
      BY <2>1, <2>2, InRest
  <1>2. /\ s \in Seq(Locks)
        /\ h # DeletionOfSubnet => s = <<>>
        /\ \A i \in DOMAIN s : s[i].row \in rows \cap Pools
    <2>1. CASE h = DeletionOfSubnet
      <3>1. s \in InAnyOrder(rows \cap Pools, "delete")
        BY <2>1 DEF Cascade, DeletionOfSubnet
      <3>2. PICK t \in SetToSeqs(rows \cap Pools) : s = [i \in DOMAIN t |-> Lock(t[i], "delete")]
        BY <3>1 DEF InAnyOrder
      <3>3. \A i \in DOMAIN t : t[i] \in rows \cap Pools
        BY <3>2 DEF SetToSeqs
      <3>4. \A i \in DOMAIN s : s[i].row \in rows \cap Pools
        BY <3>2, <3>3, LockFields
      <3>5. s \in Seq(Locks)
        BY <3>1, AnyOrder DEF Modes
      <3> QED
        BY <2>1, <3>4, <3>5
    <2>2. CASE h # DeletionOfSubnet
      <3>1. s = <<>>
        BY <2>2 DEF Cascade, DeletionOfSubnet
      <3> QED
        BY <2>2, <3>1
    <2> QED
      BY <2>1, <2>2
  <1>3. /\ rest \o s \in Seq(Locks)
        /\ \A l : In(l, rest \o s) <=> In(l, rest) \/ In(l, s)
        /\ s = <<>> => rest \o s = rest
    <2>1. rest \o s \in Seq(Locks) /\ \A l : In(l, rest \o s) <=> In(l, rest) \/ In(l, s)
      BY <1>1, <1>2, InRest
    <2>2. \A r \in Seq(Locks) : r \o <<>> = r
      OBVIOUS
    <2> QED
      BY <1>1, <2>1, <2>2
  <1>4. \A l : In(l, s) => l.row \in rows \cap Pools
    BY <1>2 DEF In
  <1>5. \A r : OnPools(r) <=> \A l : In(l, r) => l.row # Subnet
    BY DEF OnPools, In
  <1>6. OnPools(rest) => OnPools(rest \o s)
    BY <1>3, <1>4, <1>5, RowLocksAssumption
  <1>7. /\ request'[w].kind = k /\ held'[w] = held[w] \cup {h} /\ todo'[w] = rest \o s
        /\ h.row \in rows /\ todo[w] # <<>>
    OBVIOUS
  <1>8. Phase(w)
    BY DEF OrderInv, Phases
  <1>9. \A l : In(l, todo[w]) <=> \E i \in DOMAIN todo[w] : todo[w][i] = l
    BY DEF In
  <1>a. Phase(w)'
    <2>1. CASE Starts(w)
      <3>0. held[w] = {} /\ Program(k, todo[w])
        BY <2>1 DEF Starts
      <3>1. CASE rest = <<>> /\ h # DeletionOfSubnet
        BY <1>2, <1>3, <1>7, <3>1 DEF Phase
      <3>2. CASE h = ShareOfSubnet /\ rest = <<UpdateOfSubnet>>
        <4>1. held'[w] = {ShareOfSubnet} /\ todo'[w] = <<UpdateOfSubnet>>
          BY <1>2, <1>3, <1>7, <3>0, <3>2, NamedLocks
        <4> QED
          BY <4>1 DEF Phase, SharesSubnet
      <3>3. CASE k \in PoolFirst /\ h.row # Subnet /\ rest \in {<<ShareOfSubnet>>, <<UpdateOfSubnet>>}
        <4>1. /\ held'[w] = {h} /\ todo'[w] = rest /\ request'[w].kind = k
          BY <1>2, <1>3, <1>7, <3>0, <3>3, NamedLocks
        <4> QED
          BY <3>3, <4>1 DEF Phase, PoolWasFirst
      <3>4. CASE k \in SubnetFirst /\ h \in {UpdateOfSubnet, DeletionOfSubnet} /\ OnPools(rest)
        <4>1. h.row = Subnet /\ h.mode # "key share" /\ h \in held'[w]
          BY <1>7, <3>4, NamedLocks
        <4> QED
          BY <1>6, <1>7, <3>4, <4>1 DEF Phase, SubnetWasFirst
      <3> QED
        BY <3>0, <3>1, <3>2, <3>3, <3>4 DEF Program
    <2>2. CASE SharesSubnet(w) \/ PoolWasFirst(w)
      <3>1. todo[w] \in {<<ShareOfSubnet>>, <<UpdateOfSubnet>>}
        BY <2>2 DEF SharesSubnet, PoolWasFirst
      <3>2. h # DeletionOfSubnet /\ rest = <<>>
        BY <3>1, HeadAndTail, NamedLocks
      <3> QED
        BY <1>2, <1>3, <1>7, <3>2 DEF Phase
    <2>3. CASE SubnetWasFirst(w)
      <3>1. OnPools(todo[w]) /\ k \in SubnetFirst
        BY <2>3 DEF SubnetWasFirst
      <3>2. OnPools(rest)
        BY <1>1, <1>5, <3>1
      <3>3. \E l \in held'[w] : l.row = Subnet /\ l.mode # "key share"
        BY <1>7, <2>3 DEF SubnetWasFirst
      <3> QED
        BY <1>6, <1>7, <3>1, <3>2, <3>3 DEF Phase, SubnetWasFirst
    <2>4. CASE FindsNothing(w)
      <3>1. \A l : In(l, todo[w]) => l.row \notin rows
        BY <2>4 DEF FindsNothing, In
      <3> QED
        BY <1>1, <1>7, <3>1
    <2> QED
      BY <1>7, <1>8, <2>1, <2>2, <2>3, <2>4 DEF Phase
  <1> QED
    BY <1>1, <1>3, <1>4, <1>a

\* A lock on a row that is gone is left out.
LEMMA SkippedOrder ==
    ASSUME OrderInv, NEW w \in Workers, todo[w] # <<>>, Head(todo[w]).row \notin rows,
           Head(todo[w]).mode # "key share", UNCHANGED rows,
           request'[w] = request[w], held'[w] = held[w], todo'[w] = Tail(todo[w])
    PROVE  /\ Phase(w)'
           /\ \A l : In(l, todo'[w]) => In(l, todo[w])
  <1> DEFINE h == Head(todo[w])
             rest == Tail(todo[w])
             k == request[w].kind
  <1>1. /\ todo[w] \in Seq(Locks) /\ h \in Locks /\ rest \in Seq(Locks)
        /\ \A l : In(l, todo[w]) <=> l = h \/ In(l, rest)
    <2>1. <<>> \in Seq(Locks)
      BY EmptyProgram
    <2>2. todo[w] \in Seq(Locks)
      BY DEF OrderInv, IInv, Types
    <2> QED
      BY <2>1, <2>2, InRest
  <1>2. /\ \A r : OnPools(r) <=> \A l : In(l, r) => l.row # Subnet
        /\ \A r : (\A i \in DOMAIN r : r[i].row \notin rows) <=> \A l : In(l, r) => l.row \notin rows
    BY DEF OnPools, In
  <1>3. /\ request'[w].kind = k /\ held'[w] = held[w] /\ todo'[w] = rest /\ rows' = rows
        /\ h.row \notin rows /\ h.mode # "key share" /\ todo[w] # <<>>
    OBVIOUS
  <1>4. Phase(w)
    BY DEF OrderInv, Phases
  <1>5. Phase(w)'
    <2>1. CASE Starts(w)
      <3>0. held[w] = {} /\ Program(k, todo[w])
        BY <2>1 DEF Starts
      <3>1. CASE rest = <<>>
        BY <1>3, <3>1 DEF Phase
      <3>2. CASE h = ShareOfSubnet
        BY <1>3, <3>2, NamedLocks
      <3>3. CASE k \in PoolFirst /\ rest \in {<<ShareOfSubnet>>, <<UpdateOfSubnet>>}
        BY <1>3, <3>0, <3>3 DEF Phase, PoolWasFirst
      <3>4. CASE h \in {UpdateOfSubnet, DeletionOfSubnet} /\ OnPools(rest)
        <4>1. rows = {}
          BY <1>3, <3>4, NamedLocks DEF OrderInv, IInv, NoOrphans
        <4> QED
          BY <1>3, <3>4, <4>1 DEF Phase, FindsNothing
      <3> QED
        BY <3>0, <3>1, <3>2, <3>3, <3>4 DEF Program
    <2>2. CASE SharesSubnet(w) \/ PoolWasFirst(w)
      <3>1. todo[w] \in {<<ShareOfSubnet>>, <<UpdateOfSubnet>>}
        BY <2>2 DEF SharesSubnet, PoolWasFirst
      <3>2. rest = <<>>
        BY <3>1, HeadAndTail, NamedLocks
      <3> QED
        BY <1>3, <3>2 DEF Phase
    <2>3. CASE SubnetWasFirst(w)
      <3>1. OnPools(todo[w]) /\ k \in SubnetFirst
        BY <2>3 DEF SubnetWasFirst
      <3>2. OnPools(rest)
        BY <1>1, <1>2, <3>1
      <3>3. \E l \in held'[w] : l.row = Subnet /\ l.mode # "key share"
        BY <1>3, <2>3 DEF SubnetWasFirst
      <3> QED
        BY <1>3, <3>1, <3>2, <3>3 DEF Phase, SubnetWasFirst
    <2>4. CASE FindsNothing(w)
      <3>1. OnPools(todo[w]) /\ \A l : In(l, todo[w]) => l.row \notin rows
        BY <1>2, <2>4 DEF FindsNothing
      <3>2. OnPools(rest) /\ \A i \in DOMAIN rest : rest[i].row \notin rows
        BY <1>1, <1>2, <3>1
      <3> QED
        BY <1>3, <3>2 DEF Phase, FindsNothing
    <2> QED
      BY <1>3, <1>4, <2>1, <2>2, <2>3, <2>4 DEF Phase
  <1> QED
    BY <1>1, <1>5

LEMMA AcquireOrder == ASSUME OrderInv, NEW w \in Workers, Acquire(w) PROVE Phases' /\ Fresh'
  <1> DEFINE h == Head(todo[w])
             rest == Tail(todo[w])
  <1>0. Types /\ Phases /\ Fresh /\ todo[w] # <<>> /\ UNCHANGED rows
    BY DEF OrderInv, IInv, Acquire
  <1>1. ASSUME Phase(w)', UNCHANGED request,
               \A l : In(l, todo'[w]) => In(l, todo[w]) \/ l.row \in rows,
               \A v \in Workers \ {w} : todo'[v] = todo[v] /\ held'[v] = held[v]
        PROVE  Phases' /\ Fresh'
    <2>1. ASSUME NEW v \in Workers \ {w} PROVE Phase(v)'
      <3>1. Phase(v)
        BY <1>0 DEF Phases
      <3> QED
        BY <1>0, <1>1, <3>1, OthersKeepPhase
    <2>2. ASSUME NEW v \in Workers, NEW p \in request[v].creates, NEW u \in Workers,
                 NEW i \in DOMAIN todo'[u]
          PROVE  todo'[u][i].row # p
      <3>1. p \notin rows /\ \A j \in DOMAIN todo[u] : todo[u][j].row # p
        BY <1>0 DEF Fresh
      <3>2. CASE u = w
        <4>1. In(todo'[w][i], todo'[w])
          BY <3>2 DEF In
        <4>2. In(todo'[w][i], todo[w]) \/ todo'[w][i].row \in rows
          BY <1>1, <4>1
        <4> QED
          BY <3>1, <3>2, <4>2 DEF In
      <3>3. CASE u # w
        BY <1>1, <3>1, <3>3
      <3> QED
        BY <3>2, <3>3
    <2>3. Fresh'
      BY <1>0, <1>1, <2>2 DEF Fresh
    <2> QED
      BY <1>1, <2>1, <2>3 DEF Phases
  <1>2. ASSUME h.row \in rows, held' = [held EXCEPT ![w] = @ \cup {h}], UNCHANGED request,
               NEW s \in Cascade(h, rows \cap Pools), todo' = [todo EXCEPT ![w] = rest \o s]
        PROVE  Phases' /\ Fresh'
    <2>1. /\ request'[w] = request[w] /\ held'[w] = held[w] \cup {h} /\ todo'[w] = rest \o s
          /\ \A v \in Workers \ {w} : todo'[v] = todo[v] /\ held'[v] = held[v]
      BY <1>0, <1>2 DEF Types
    <2>2. Phase(w)' /\ \A l : In(l, todo'[w]) => In(l, todo[w]) \/ l.row \in rows \cap Pools
      BY <1>0, <1>2, <2>1, TakenOrder
    <2> QED
      BY <1>1, <1>2, <2>1, <2>2
  <1>3. ASSUME h.row \notin rows, h.mode # "key share",
               todo' = [todo EXCEPT ![w] = rest], UNCHANGED <<request, held>>
        PROVE  Phases' /\ Fresh'
    <2>1. /\ request'[w] = request[w] /\ held'[w] = held[w] /\ todo'[w] = rest
          /\ \A v \in Workers \ {w} : todo'[v] = todo[v] /\ held'[v] = held[v]
      BY <1>0, <1>3 DEF Types
    <2>2. Phase(w)' /\ \A l : In(l, todo'[w]) => In(l, todo[w])
      BY <1>0, <1>3, <2>1, SkippedOrder
    <2> QED
      BY <1>1, <1>3, <2>1, <2>2
  <1>4. ASSUME Release(w)
        PROVE  Phases' /\ Fresh'
    BY <1>0, <1>4, ReleaseOrder
  <1> QED
    BY <1>2, <1>3, <1>4 DEF Acquire

LEMMA NextOrder == OrderInv /\ [Next]_vars => OrderInv'
  <1> SUFFICES ASSUME OrderInv, [Next]_vars PROVE Phases' /\ Fresh'
    BY NextIInv DEF OrderInv
  <1>1. ASSUME NEW w \in Workers, Commit(w) PROVE Phases' /\ Fresh'
    <2>1. rows' \subseteq rows \cup request[w].creates /\ Release(w)
      BY <1>1 DEF Commit
    <2> QED
      BY <2>1, ReleaseOrder
  <1>2. ASSUME NEW w \in Workers, RollBack(w) PROVE Phases' /\ Fresh'
    BY <1>2, ReleaseOrder DEF RollBack
  <1>3. CASE EndDeadlock
    BY <1>3, ReleaseOrder DEF EndDeadlock, Deadlocked
  <1>4. CASE CreateSubnet
    <2>1. /\ rows' = rows \cup {Subnet} /\ UNCHANGED <<request, todo, held>>
          /\ Types /\ Phases /\ Fresh
      BY <1>4 DEF CreateSubnet, OrderInv, IInv
    <2>2. \A v \in Workers : FindsNothing(v) => FindsNothing(v)'
      BY <2>1 DEF FindsNothing, OnPools
    <2>3. Phases'
      BY <2>1, <2>2 DEF Phases, Phase, Starts, SharesSubnet, PoolWasFirst, SubnetWasFirst
    <2>4. \A v \in Workers : Subnet \notin request[v].creates
      BY <2>1, RowLocksAssumption DEF Types
    <2>5. Fresh'
      BY <2>1, <2>4 DEF Fresh
    <2> QED
      BY <2>3, <2>5
  <1>5. CASE UNCHANGED vars
    BY <1>5 DEF vars, OrderInv, Phases, Phase, Fresh, Starts, SharesSubnet, PoolWasFirst,
                SubnetWasFirst, FindsNothing
  <1> QED
    BY <1>1, <1>2, <1>3, <1>4, <1>5, BeginOrder, AcquireOrder DEF Next

-----------------------------------------------------------------------------
(***************************************************************************)
(* Cycles of workers that wait                                             *)
(***************************************************************************)
\* A set of workers that are waited for in the end is one with each worker of
\* it whom that one waits for.
LEMMA WaitsInTheEndIsClosed ==
    ASSUME NEW w
    PROVE  /\ WaitsFor(w) \subseteq WaitsInTheEnd(w)
           /\ \A u \in WaitsInTheEnd(w) : WaitsFor(u) \subseteq WaitsInTheEnd(w)
  <1>1. \A u : WaitsFor(u) \subseteq Workers
    BY DEF WaitsFor
  <1> QED
    BY <1>1 DEF WaitsInTheEnd

LEMMA WaitsInTheEndIsLeast ==
    ASSUME NEW w, NEW S \in SUBSET Workers,
           WaitsFor(w) \subseteq S, \A u \in S : WaitsFor(u) \subseteq S
    PROVE  WaitsInTheEnd(w) \subseteq S
  BY DEF WaitsInTheEnd

\* Waiting in the end is transitive.
LEMMA WaitsThroughOthers ==
    ASSUME NEW w, NEW v \in WaitsInTheEnd(w)
    PROVE  WaitsInTheEnd(v) \subseteq WaitsInTheEnd(w)
  <1>1. WaitsInTheEnd(w) \in SUBSET Workers
    BY DEF WaitsInTheEnd
  <1> QED
    BY <1>1, WaitsInTheEndIsClosed, WaitsInTheEndIsLeast

\* Whoever is waited for in the end is waited for by somebody at once.
LEMMA SomebodyWaits ==
    ASSUME NEW w \in Workers, NEW v \in WaitsInTheEnd(w)
    PROVE  \E u \in Workers : v \in WaitsFor(u)
  <1> DEFINE S == {x \in Workers : \E u \in Workers : x \in WaitsFor(u)}
  <1>1. \A u \in Workers : WaitsFor(u) \subseteq S
    BY DEF WaitsFor
  <1>2. WaitsInTheEnd(w) \subseteq S
    BY <1>1, WaitsInTheEndIsLeast
  <1> QED
    BY <1>2

\* Whoever waits in the end for itself waits at once for another such worker.
LEMMA CycleGoesOn ==
    ASSUME NEW v \in Deadlocked
    PROVE  \E u \in WaitsFor(v) : u \in Deadlocked
  <1> DEFINE S == {x \in Workers : \E u \in WaitsFor(v) : x = u \/ x \in WaitsInTheEnd(u)}
  <1>1. v \in Workers /\ v \in WaitsInTheEnd(v)
    BY DEF Deadlocked
  <1>2. \A u : WaitsFor(u) \subseteq Workers
    BY DEF WaitsFor
  <1>3. WaitsFor(v) \subseteq S /\ \A x \in S : WaitsFor(x) \subseteq S
    BY <1>2, WaitsInTheEndIsClosed
  <1>4. v \in S
    BY <1>1, <1>3, WaitsInTheEndIsLeast
  <1>5. PICK u \in WaitsFor(v) : v = u \/ v \in WaitsInTheEnd(u)
    BY <1>4
  <1>6. v \in WaitsInTheEnd(u)
    BY <1>1, <1>5
  <1>7. u \in WaitsInTheEnd(u)
    BY <1>6, WaitsThroughOthers, WaitsInTheEndIsClosed
  <1> QED
    BY <1>2, <1>5, <1>7 DEF Deadlocked

\* Who is deadlocked waits with its row held by another, and is waited for.
LEMMA DeadlockedPhase ==
    ASSUME OrderInv, NEW v \in Deadlocked
    PROVE  SharesSubnet(v) \/ PoolWasFirst(v) \/ SubnetWasFirst(v)
  <1>1. v \in Workers /\ v \in WaitsInTheEnd(v)
    BY DEF Deadlocked
  <1>2. PICK u \in WaitsFor(v) : u \in Deadlocked
    BY CycleGoesOn
  <1>3. todo[v] # <<>> /\ \E l \in held[u] : l.row = Head(todo[v]).row /\ u \in Workers
    BY <1>2 DEF WaitsFor
  <1>4. held[v] # {}
    <2>1. PICK x \in Workers : v \in WaitsFor(x)
      BY <1>1, SomebodyWaits
    <2> QED
      BY <2>1 DEF WaitsFor
  <1>5. ~FindsNothing(v)
    <2>1. Head(todo[v]).row \in rows
      BY <1>3 DEF OrderInv, IInv, HeldExists
    <2>2. todo[v] \in Seq(Locks)
      BY <1>1 DEF OrderInv, IInv, Types
    <2>3. 1 \in DOMAIN todo[v] /\ Head(todo[v]) = todo[v][1]
      BY <1>3, <2>2
    <2> QED
      BY <2>1, <2>3 DEF FindsNothing
  <1> QED
    BY <1>1, <1>3, <1>4, <1>5 DEF OrderInv, Phases, Phase, Starts

\* Who has shared or written its pools first waits for one that has written
\* the subnet.
LEMMA WaitsForSubnet ==
    ASSUME OrderInv, NEW v \in Deadlocked, SharesSubnet(v) \/ PoolWasFirst(v)
    PROVE  \E u \in WaitsFor(v) : u \in Deadlocked /\ SubnetWasFirst(u)
  <1>1. PICK u \in WaitsFor(v) : u \in Deadlocked
    BY CycleGoesOn
  <1>2. Head(todo[v]) \in {ShareOfSubnet, UpdateOfSubnet}
    <2>1. todo[v] \in {<<ShareOfSubnet>>, <<UpdateOfSubnet>>}
      BY DEF SharesSubnet, PoolWasFirst
    <2> QED
      BY <2>1, HeadAndTail, NamedLocks
  <1>3. PICK l \in held[u] : l.row = Head(todo[v]).row /\ Conflict(l.mode, Head(todo[v]).mode)
    BY <1>1 DEF WaitsFor
  <1>4. l.row = Subnet /\ l.mode # "key share"
    BY <1>2, <1>3, NamedLocks DEF Conflict
  <1>5. ~SharesSubnet(u) /\ ~PoolWasFirst(u)
    BY <1>3, <1>4, NamedLocks DEF SharesSubnet, PoolWasFirst
  <1> QED
    BY <1>1, <1>5, DeadlockedPhase

\* Who has written the subnet first waits for one that has written a pool.
LEMMA WaitsForPool ==
    ASSUME OrderInv, NEW v \in Deadlocked, SubnetWasFirst(v)
    PROVE  \E u \in WaitsFor(v) : u \in Deadlocked /\ PoolWasFirst(u)
  <1>1. PICK u \in WaitsFor(v) : u \in Deadlocked
    BY CycleGoesOn
  <1>2. todo[v] # <<>> /\ u \in Workers /\ u # v /\ v \in Workers
    BY <1>1 DEF WaitsFor, Deadlocked
  <1>3. PICK l \in held[u] : l.row = Head(todo[v]).row
    BY <1>1 DEF WaitsFor
  <1>4. l.row # Subnet
    <2>1. todo[v] \in Seq(Locks)
      BY <1>2 DEF OrderInv, IInv, Types
    <2>2. 1 \in DOMAIN todo[v] /\ Head(todo[v]) = todo[v][1]
      BY <1>2, <2>1
    <2> QED
      BY <1>3, <2>2 DEF SubnetWasFirst, OnPools
  <1>5. ~SharesSubnet(u)
    BY <1>3, <1>4, NamedLocks DEF SharesSubnet
  <1>6. ~SubnetWasFirst(u)
    <2>1. \A m, n : m # "key share" /\ n # "key share" => Conflict(m, n)
      BY DEF Conflict
    <2> QED
      BY <1>2, <2>1 DEF SubnetWasFirst, OrderInv, IInv, Compatible
  <1> QED
    BY <1>1, <1>5, <1>6, DeadlockedPhase

\* A deadlock needs two requests that lock in opposite orders: one that has
\* written a pool and asks for the subnet (the deletion of a pool, the
\* reservation of an IPv4 address inside a pool), and one that has written the
\* subnet and asks for a pool.  The services that write the subnet first never
\* deadlock among themselves, however many requests are served.
THEOREM DeadlocksAreOfTwoOrders == Spec => []DeadlockIsOfTwoOrders
  <1>1. OrderInv => DeadlockIsOfTwoOrders
    <2> SUFFICES ASSUME OrderInv, NEW w \in Deadlocked
                 PROVE  /\ \E u \in Deadlocked \cap WaitsInTheEnd(w) : PoolWasFirst(u)
                        /\ \E u \in Deadlocked \cap WaitsInTheEnd(w) : SubnetWasFirst(u)
      <3>1. \A u \in Deadlocked : u \in Workers
        BY DEF Deadlocked
      <3> QED
        BY <3>1 DEF DeadlockIsOfTwoOrders, Serving, PoolWasFirst, SubnetWasFirst, PoolFirst,
                    SubnetFirst
    <2>1. ASSUME NEW v \in WaitsInTheEnd(w), NEW u \in WaitsFor(v)
          PROVE  u \in WaitsInTheEnd(w)
      BY <2>1, WaitsInTheEndIsClosed
    <2>2. w \in WaitsInTheEnd(w)
      BY DEF Deadlocked
    <2>3. CASE SubnetWasFirst(w)
      BY <2>1, <2>2, <2>3, WaitsForPool
    <2>4. CASE SharesSubnet(w) \/ PoolWasFirst(w)
      <3>1. PICK u \in WaitsFor(w) : u \in Deadlocked /\ SubnetWasFirst(u)
        BY <2>4, WaitsForSubnet
      <3>2. PICK v \in WaitsFor(u) : v \in Deadlocked /\ PoolWasFirst(v)
        BY <3>1, WaitsForPool
      <3> QED
        BY <2>1, <2>2, <3>1, <3>2
    <2> QED
      BY <2>3, <2>4, DeadlockedPhase
  <1>2. Init => OrderInv
    BY InitIInv, InitOrder DEF OrderInv
  <1> QED
    BY <1>1, <1>2, NextOrder, PTL DEF Spec

=============================================================================
