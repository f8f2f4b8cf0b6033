----------------------------- MODULE ServerScan -----------------------------
(***************************************************************************)
(* The scan for illegal DHCP servers.  At every tick the process sends a   *)
(* DISCOVER or SOLICIT from each of its clients, one client after the      *)
(* other, waits ten seconds for the servers that answer, asks for the      *)
(* nodes of the system, and raises an alarm for each server that is none.  *)
(*                                                                         *)
(* A Client4 opens sockets for one exchange and reads them in a goroutine  *)
(* that outlives it; the list of servers is written by the goroutine and   *)
(* read by the exchange without a lock.  A Client6 has one socket for all  *)
(* exchanges, so answers that are late wait in it for the next.  It takes  *)
(* relay messages too, whatever exchange they belong to.                   *)
(***************************************************************************)
EXTENDS Naturals, Sequences, FiniteSets

CONSTANTS
    Clients,     \* the stacks of the clients, in the order of interfaces: 4, 6
    Servers,     \* the DHCP servers in the network
    StackOf,     \* 4 or 6, for each
    WardenIps,   \* addresses of nodes that the monitor knows, virtual ones too
    AgentIps,    \* addresses of nodes that the agents know
    MaxScans,    \* bounds the scans
    MaxAnswers   \* bounds the answers ever sent

\* With no clients a scan does nothing.
ASSUME ScanAssumption ==
    /\ Clients \in Seq({4, 6}) /\ Clients # <<>>
    /\ StackOf \in [Servers -> {4, 6}]
    /\ WardenIps \subseteq Servers /\ AgentIps \subseteq Servers
    /\ MaxScans \in Nat /\ MaxAnswers \in Nat

VARIABLES
    step,     \* of the scan: "wait", "exchange", "nodes" or "alarm"
    scan,     \* the number of scans begun
    turn,     \* the client whose turn it is
    servers,  \* the servers an exchange has returned
    illegal,  \* dhcpServer4s and dhcpServer6s
    reader,   \* the goroutines of Client4, by their transaction
    taken,    \* the answers read from the socket of each Client6
    air,      \* every answer ever sent: its server and transaction
    alarms,   \* the servers this scan has raised an alarm for
    partial,  \* history: this scan has known only some of the nodes
    relayed   \* history: servers this scan has had a relay message from

scanHistory == <<partial, relayed>>

scanVars == <<step, scan, turn, servers, illegal, reader, taken, air, alarms, scanHistory>>

\* A transaction id is generated for every exchange of every client.
Xids == (1 .. MaxScans) \X DOMAIN Clients

Answers == Servers \X Xids

NoReader == [at |-> "none"]

\* at: before the test of stopCh, in Recvfrom, in append, blocked in a send to
\* errCh.  open: stopCh is not closed.
Ended == [at |-> "end"]

ReaderStates ==
    [at: {"check", "recv", "append", "send"}, open: BOOLEAN,
     got: SUBSET Answers, list: SUBSET Servers, new: SUBSET Servers]

ScanTypeOK ==
    /\ step \in {"wait", "exchange", "nodes", "alarm"}
    /\ scan \in 0 .. MaxScans
    /\ turn \in DOMAIN Clients
    /\ servers \subseteq Servers /\ illegal \subseteq Servers
    /\ reader \in [Xids -> ReaderStates \cup {NoReader, Ended}]
    /\ taken \in [DOMAIN Clients -> SUBSET Answers]
    /\ air \subseteq Answers
    /\ alarms \subseteq Servers
    /\ partial \in BOOLEAN
    /\ relayed \subseteq Servers

ScanInit ==
    /\ step = "wait"
    /\ scan = 0
    /\ turn = 1
    /\ servers = {} /\ illegal = {}
    /\ reader = [x \in Xids |-> NoReader]
    /\ taken = [i \in DOMAIN Clients |-> {}]
    /\ air = {}
    /\ alarms = {}
    /\ partial = FALSE
    /\ relayed = {}

Xid == <<scan, turn>>

Is4 == Clients[turn] = 4

-----------------------------------------------------------------------------
(***************************************************************************)
(* The network                                                             *)
(***************************************************************************)

\* The transactions that have been sent: packet.TransactionID is a field of the
\* client's only packet, so it is the latest.
Sent == {x \in Xids : x[1] < scan \/ (x[1] = scan /\ step # "wait" /\ x[2] <= turn)}

Latest(i) == IF <<scan, i>> \in Sent THEN <<scan, i>> ELSE <<scan - 1, i>>

\* A server answers a request once, however late.
Answer(s, x) ==
    /\ x \in Sent
    /\ Clients[x[2]] = StackOf[s]
    /\ <<s, x>> \notin air
    /\ Cardinality(air) < MaxAnswers
    /\ air' = air \cup {<<s, x>>}
    /\ UNCHANGED <<step, scan, turn, servers, illegal, reader, taken, alarms, scanHistory>>

-----------------------------------------------------------------------------
(***************************************************************************)
(* scanIllegalDHCPServer and ScanIllegalDHCPServer                         *)
(***************************************************************************)
Started == [at |-> "check", open |-> TRUE, got |-> {}, list |-> {}, new |-> {}]

\* An exchange begins: with its reader, if it is one of a Client4.
Exchange(n, i) ==
    /\ step' = "exchange"
    /\ turn' = i
    /\ servers' = {}
    /\ reader' = IF Clients[i] = 4 THEN [reader EXCEPT ![<<n, i>>] = Started] ELSE reader

\* The ticker fires while this node is the master, or nobody can tell, and the
\* alarm is enabled.
Tick ==
    /\ step = "wait"
    /\ scan < MaxScans
    /\ scan' = scan + 1
    /\ alarms' = {} /\ partial' = FALSE /\ relayed' = {}
    /\ Exchange(scan + 1, 1)
    /\ UNCHANGED <<illegal, taken, air>>

\* The exchange ends: its sockets are closed and stopCh too.
ReaderStopped ==
    IF Is4 /\ reader[Xid] # Ended THEN [reader EXCEPT ![Xid].open = FALSE] ELSE reader

\* The next client, or the end of the loop.
NextClient(done) ==
    IF turn < Len(Clients)
    THEN /\ step' = "exchange"
         /\ turn' = turn + 1
         /\ servers' = {}
         /\ reader' = IF Clients[turn + 1] = 4
                      THEN [done EXCEPT ![<<scan, turn + 1>>] = Started] ELSE done
    ELSE /\ step' = "alarm"
         /\ reader' = done
         /\ servers' = {}
         /\ UNCHANGED turn

\* A socket, a packet or a send fails.
ExchangeFails ==
    /\ step = "exchange"
    /\ NextClient(ReaderStopped)
    /\ UNCHANGED <<scan, illegal, taken, air, alarms, scanHistory>>

\* <-errCh: the reader has reported an error, and what it has found is dropped.
ReaderFailed ==
    /\ step = "exchange"
    /\ reader[Xid] = Ended
    /\ NextClient(ReaderStopped)
    /\ UNCHANGED <<scan, illegal, taken, air, alarms, scanHistory>>

\* time.After: the list is read, before or after what the reader appends just now.
Timeout4 ==
    /\ step = "exchange"
    /\ Is4
    /\ reader[Xid] # Ended
    /\ step' = "nodes"
    /\ \/ servers' = reader[Xid].list
       \/ servers' = reader[Xid].list \cup reader[Xid].new
    /\ reader' = ReaderStopped
    /\ UNCHANGED <<scan, turn, illegal, taken, air, alarms, scanHistory>>

\* A panic stops the process.  It starts again, with new sockets.
Restart ==
    /\ step' = "wait"
    /\ servers' = {} /\ illegal' = {}
    /\ reader' = [x \in Xids |-> NoReader]
    /\ taken' = [i \in DOMAIN Clients |-> air]
    /\ UNCHANGED <<scan, turn, air, alarms, scanHistory>>

\* The three words of a slice are not read at once: a length without its array.
TornRead ==
    /\ step = "exchange"
    /\ Is4
    /\ reader[Xid].at = "append"
    /\ Restart

\* Mutant: the transaction is not compared.
AnswersAny(i, a) == TRUE

\* A message of another transaction is passed over.
AnswersTo6(i, a) == a[2] = Latest(i)

\* Client6.Exchange: one message after the other until the deadline.  This one is
\* a dhcpv6.Message, the only kind that has a transaction.
Read6(a) ==
    /\ step = "exchange"
    /\ ~Is4
    /\ a \in air \ taken[turn]
    /\ StackOf[a[1]] = 6 /\ a[2][2] = turn
    /\ taken' = [taken EXCEPT ![turn] = @ \cup {a}]
    /\ servers' = IF AnswersTo6(turn, a) THEN servers \cup {a[1]} ELSE servers
    /\ UNCHANGED <<step, scan, turn, illegal, reader, air, alarms, scanHistory>>

\* A relay message has no transaction to compare and is counted as an answer.  Late
\* or unasked for, it may be read in any exchange.
ReadRelay6(s) ==
    /\ step = "exchange"
    /\ ~Is4
    /\ StackOf[s] = 6
    /\ servers' = servers \cup {s}
    /\ relayed' = relayed \cup {s}
    /\ UNCHANGED <<step, scan, turn, illegal, reader, taken, air, alarms, partial>>

Timeout6 ==
    /\ step = "exchange"
    /\ ~Is4
    /\ step' = "nodes"
    /\ UNCHANGED <<scan, turn, servers, illegal, reader, taken, air, alarms, scanHistory>>

\* Mutant: the nodes of the second source replace those of the first.
NodeListLast(known) == IF AgentIps \in known THEN AgentIps ELSE UNION known

NodeList(known) == UNION known

\* getDHCPNodeList: each source is asked, and one that fails is left out.  Servers
\* are compared with what the others know; with nobody left they are dropped.
Nodes(known) ==
    /\ step = "nodes"
    /\ LET nodes == NodeList(known)
       IN  illegal' = IF nodes = {} THEN illegal ELSE illegal \cup (servers \ nodes)
    /\ partial' = (partial \/ known # {WardenIps, AgentIps})
    /\ NextClient(reader)
    /\ UNCHANGED <<scan, taken, air, alarms, relayed>>

\* AddIllegalDHCPAlarm for each; one that fails is passed over.
Alarm(raised) ==
    /\ step = "alarm"
    /\ raised \subseteq illegal
    /\ alarms' = raised
    /\ step' = "wait"
    /\ illegal' = {}
    /\ UNCHANGED <<scan, turn, servers, reader, taken, air, scanHistory>>

-----------------------------------------------------------------------------
(***************************************************************************)
(* The reader of a Client4                                                 *)
(***************************************************************************)
Reader(x, new) ==
    /\ reader' = [reader EXCEPT ![x] = new]
    /\ UNCHANGED <<step, scan, turn, servers, illegal, taken, air, alarms, scanHistory>>

Check(x) ==
    /\ reader[x].at = "check"
    /\ Reader(x, IF reader[x].open THEN [reader[x] EXCEPT !.at = "recv"] ELSE Ended)

\* An offer of another transaction is passed over.
AnswersTo4(i, a) == a[2] = Latest(i)

\* One that is in Recvfrom when the socket is closed still gets a packet of it.
Receive(x, a) ==
    /\ reader[x].at = "recv"
    /\ a \in air \ reader[x].got
    /\ StackOf[a[1]] = 4
    /\ Reader(x, [reader[x] EXCEPT !.got = @ \cup {a},
                     !.at = IF AnswersTo4(x[2], a) THEN "append" ELSE "check",
                     !.new = IF AnswersTo4(x[2], a) THEN {a[1]} ELSE {}])

Append4(x) ==
    /\ reader[x].at = "append"
    /\ Reader(x, [reader[x] EXCEPT !.list = @ \cup reader[x].new, !.new = {}, !.at = "check"])

\* SO_RCVTIMEO has passed, or another descriptor with the number of the closed one
\* has nothing to read: EWOULDBLOCK.
NothingToRead(x) ==
    /\ reader[x].at = "recv"
    /\ Reader(x, [reader[x] EXCEPT !.at = "check"])

\* Another error: the descriptor is closed, or a packet is no DHCP message.
Error(x) ==
    /\ reader[x].at = "recv"
    /\ Reader(x, [reader[x] EXCEPT !.at = "send"])

\* The length in a packet's UDP header is more than the buffer has: the payload is
\* sliced out of bounds.
Overrun(x) ==
    /\ reader[x].at = "recv"
    /\ Restart

\* Mutant: errCh has no buffer.
CanSendToReceiver(x) == reader[x].open

\* make(chan error, 1)
CanSend(x) == TRUE

SendError(x) ==
    /\ reader[x].at = "send"
    /\ CanSend(x)
    /\ Reader(x, Ended)

ReaderStep(x) == Check(x) \/ Append4(x) \/ NothingToRead(x) \/ SendError(x)

Proceed ==
    \/ ReaderFailed
    \/ Timeout4
    \/ Timeout6
    \/ \E known \in SUBSET {WardenIps, AgentIps} : Nodes(known)
    \/ \E raised \in SUBSET illegal : Alarm(raised)

ScanNext ==
    \/ Tick
    \/ Proceed
    \/ ExchangeFails
    \/ TornRead
    \/ \E a \in air : Read6(a)
    \/ \E s \in Servers : ReadRelay6(s)
    \/ \E s \in Servers, x \in Xids : Answer(s, x)
    \/ \E x \in Xids :
          \/ ReaderStep(x)
          \/ Error(x)
          \/ Overrun(x)
          \/ \E a \in air : Receive(x, a)

\* Goroutines are scheduled; time passes, so a call that waits returns.  A failure
\* is not relied on to happen.
ScanSpec ==
    /\ ScanInit
    /\ [][ScanNext]_scanVars
    /\ \A x \in Xids : WF_scanVars(ReaderStep(x))
    /\ WF_scanVars(Proceed)

-----------------------------------------------------------------------------
(***************************************************************************)
(* Properties                                                              *)
(***************************************************************************)

\* An alarm is raised only for a server that has answered a request of the same
\* scan, not for one that answered an earlier scan late and may be gone; unless a
\* Client6 has read a relay message from the server, which may answer any request
\* or none.
AlarmedServerAnswered ==
    \A s \in alarms \ relayed : \E i \in DOMAIN Clients : <<s, <<scan, i>>>> \in air

\* No alarm is raised for a node of the system, unless a source of nodes failed
\* during the scan.  A node is one by an address that a source lists: the address
\* an IPv6 packet came from may be another one of the same node.
NodesRaiseNoAlarm ==
    ~partial => alarms \cap (WardenIps \cup AgentIps) = {}

\* A scan that has begun ends, although it waits for clients, agents and a mutable
\* list: the ticks go on.  And a reader ends after its exchange, whatever it
\* meets: scans leave no goroutine behind.
ScansEnd ==
    /\ (step # "wait") ~> (step = "wait")
    /\ \A x \in Xids :
          (reader[x] \in ReaderStates /\ ~reader[x].open) ~> (reader[x] \in {NoReader, Ended})

=============================================================================
