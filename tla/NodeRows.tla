------------------------------ MODULE NodeRows ------------------------------
(***************************************************************************)
(* What a node knows of a row.  Each table has a conversion of its rows to *)
(* the messages of DhcpMessages, and an update that writes some columns of *)
(* its body, takes others from the database and sends a message made of    *)
(* the result.  A node keeps what the messages said; a change of a         *)
(* subnet's nodes makes the messages anew, from the rows.                  *)
(*                                                                         *)
(* The table of a behaviour is chosen in Init.  ForwardedTables and        *)
(* SubnetCommands4 model how requests overlap and fail; here one row goes  *)
(* through requests that succeed, with all of its columns.                 *)
(***************************************************************************)
EXTENDS Naturals, DhcpMessages

CONSTANT Word  \* the number of values of a lifetime, which is a uint32

ASSUME WordAssumption == Word \in Nat \ {0}

-----------------------------------------------------------------------------
(***************************************************************************)
(* Conversions: for each field of a message the columns it is made of, the *)
(* column of its own name unless renamed says otherwise.                   *)
(***************************************************************************)
From(message, renamed) ==
    [f \in message |-> IF f \in DOMAIN renamed THEN renamed[f] ELSE {f}]

AsNamed == [f \in {} |-> {}]

pbSubnetOptionsFromSubnet4 ==
    {"SubnetMask", "Routers", "DomainServers", "TftpServer", "Bootfile",
     "Ipv6OnlyPreferred", "CaptivePortalUrl", "DomainSearchList",
     "CapWapACAddresses"}

pbSubnetOptionsFromSubnet6 ==
    {"DomainServers", "DomainSearchList", "InformationRefreshTime",
     "CapWapACAddresses", "CaptivePortalUrl", "V6Prefix64"}

Subnet4Message(message) ==
    From(message,
         [Id |-> {"SubnetId"}, RenewTime |-> {"ValidLifetime"},
          RebindTime |-> {"ValidLifetime"},
          SubnetOptions |-> pbSubnetOptionsFromSubnet4])

subnet4ToCreateSubnet4Request == Subnet4Message(CreateSubnet4Request)

\* Its AddressCode is the name of the row that the column refers to.
Subnet6Message(message) ==
    From(message,
         [Id |-> {"SubnetId"}, RenewTime |-> {"PreferredLifetime"},
          RebindTime |-> {"PreferredLifetime"},
          MinPreferredLifetime |-> {"PreferredLifetime"},
          MaxPreferredLifetime |-> {"PreferredLifetime"},
          SubnetOptions |-> pbSubnetOptionsFromSubnet6])

subnet6ToCreateSubnet6Request == Subnet6Message(CreateSubnet6Request)

genClientClass4Regexp ==
    {"Condition", "Description", "Regexp", "Code", "BeginIndex"}

getVendorIdByMatchPattern == {"VendorId", "MatchPattern"}

fingerprintToCreateFingerprintRequest ==
    From(CreateFingerprintRequest, [VendorId |-> getVendorIdByMatchPattern])

fingerprintToDeleteFingerprintRequest ==
    From(DeleteFingerprintRequest, [VendorId |-> getVendorIdByMatchPattern])

-----------------------------------------------------------------------------
(***************************************************************************)
(* Tables.  columns: those of a row; written: those that an update writes; *)
(* kept: those that it takes from the database before it does anything;    *)
(* compared: it sends only if one of these differs from the stored row,    *)
(* unless always; creates, updates, deletes: the conversions; old: an      *)
(* update names the node's copy by the stored row, not by its body.        *)
(***************************************************************************)
Sending(columns, written, creates, updates, deletes) ==
    [columns |-> columns, written |-> written,
     creates |-> creates, updates |-> updates, deletes |-> deletes,
     kept |-> {}, compared |-> {}, always |-> TRUE, old |-> FALSE,
     single |-> FALSE, owned |-> FALSE]

setSubnet4FromDB == {"SubnetId", "Capacity", "Subnet", "Nodes"}

sendUpdateSubnet4CmdToDHCPAgent == Subnet4Message(UpdateSubnet4Request)

TableSubnet4 ==
    LET written == {"IfaceName", "WhiteClientClassStrategy", "WhiteClientClasses",
                    "BlackClientClassStrategy", "BlackClientClasses",
                    "ValidLifetime", "MaxValidLifetime", "MinValidLifetime",
                    "RelayAgentCircuitId", "RelayAgentRemoteId",
                    "RelayAgentAddresses", "NextServer", "AutoReservationType",
                    "Tags"} \cup pbSubnetOptionsFromSubnet4
    IN  [Sending(written \cup {"SubnetId", "Subnet", "Capacity", "Nodes"}, written,
                 subnet4ToCreateSubnet4Request, sendUpdateSubnet4CmdToDHCPAgent,
                 From(DeleteSubnet4Request, [Id |-> {"SubnetId"}]))
         EXCEPT !.kept = setSubnet4FromDB, !.owned = TRUE]

setSubnet6FromDB == {"SubnetId", "Subnet", "Nodes"}

sendUpdateSubnet6CmdToDHCPAgent == Subnet6Message(UpdateSubnet6Request)

\* The capacity is computed from the stored one and the three factors below.
TableSubnet6 ==
    LET factors == {"EmbedIpv4", "UseEui64", "AddressCode"}
        written == {"IfaceName", "WhiteClientClassStrategy", "WhiteClientClasses",
                    "BlackClientClassStrategy", "BlackClientClasses",
                    "ValidLifetime", "MaxValidLifetime", "MinValidLifetime",
                    "PreferredLifetime", "RelayAgentAddresses", "RapidCommit",
                    "RelayAgentInterfaceId", "AutoReservationType", "Tags"}
                   \cup factors \cup pbSubnetOptionsFromSubnet6
    IN  [Sending(written \cup {"SubnetId", "Subnet", "Nodes"}, written,
                 subnet6ToCreateSubnet6Request, sendUpdateSubnet6CmdToDHCPAgent,
                 From(DeleteSubnet6Request, [Id |-> {"SubnetId"}]))
         EXCEPT !.kept = setSubnet6FromDB, !.owned = TRUE]

\* What a subnet owns: an update changes its comment and sends nothing.
Owned(creates, deletes) ==
    [Sending(creates \cup {"Comment"}, {"Comment"},
             From(creates, AsNamed), AsNamed, From(deletes, AsNamed))
     EXCEPT !.always = FALSE, !.owned = TRUE]

TablePool4 == Owned(CreatePool4Request, DeletePool4Request)
TableReservedPool4 == Owned(CreateReservedPool4Request, DeleteReservedPool4Request)
TableReservation4 == Owned(CreateReservation4Request, DeleteReservation4Request)
TablePool6 == Owned(CreatePool6Request, DeletePool6Request)
TableReservedPool6 == Owned(CreateReservedPool6Request, DeleteReservedPool6Request)
TablePdPool == Owned(CreatePdPoolRequest, DeletePdPoolRequest)
TableReservedPdPool == Owned(CreateReservedPdPoolRequest, DeleteReservedPdPoolRequest)
TableReservation6 == Owned(CreateReservation6Request, DeleteReservation6Request)

TableSharedNetwork4 ==
    LET columns == {"Name", "SubnetIds", "Subnets", "Comment"}
    IN  [Sending(columns, columns, From(CreateSharedNetwork4Request, AsNamed),
                 From(UpdateSharedNetwork4Request.New, AsNamed),
                 From(UpdateSharedNetwork4Request.Old, AsNamed))
         EXCEPT !.old = TRUE]

\* Only a class's condition is written; its name and code are sent as well.
ClientClass(creates, updates, deletes) ==
    Sending({"Name"} \cup genClientClass4Regexp, genClientClass4Regexp \ {"Code"},
            From(creates, [Regexp |-> genClientClass4Regexp]),
            From(updates, [Regexp |-> genClientClass4Regexp]), From(deletes, AsNamed))

TableClientClass4 ==
    ClientClass(CreateClientClass4Request, UpdateClientClass4Request,
                DeleteClientClass4Request)

TableClientClass6 ==
    ClientClass(CreateClientClass6Request, UpdateClientClass6Request,
                DeleteClientClass6Request)

TableDhcpFingerprint ==
    [Sending(CreateFingerprintRequest, {"VendorId", "OperatingSystem", "ClientType"},
             fingerprintToCreateFingerprintRequest,
             From(UpdateFingerprintRequest.New, [VendorId |-> getVendorIdByMatchPattern]),
             fingerprintToDeleteFingerprintRequest)
     EXCEPT !.old = TRUE]

TableDhcpOui ==
    Sending(CreateOuiRequest, {"Organization"}, From(CreateOuiRequest, AsNamed),
            From(UpdateOuiRequest, AsNamed), From(DeleteOuiRequest, AsNamed))

\* A row that says one thing of one client, and a comment that is not sent.
Saying(value, sent, creates, updates, deletes) ==
    [Sending(deletes \cup {value, "Comment"}, {value, "Comment"},
             From(creates, sent), From(updates, sent), From(deletes, AsNamed))
     EXCEPT !.always = FALSE, !.compared = {value}]

TableAdmitMac ==
    Saying("IsAdmitted", AsNamed, CreateAdmitMacRequest, UpdateAdmitMacRequest,
           DeleteAdmitMacRequest)

TableAdmitDuid ==
    Saying("IsAdmitted", AsNamed, CreateAdmitDuidRequest, UpdateAdmitDuidRequest,
           DeleteAdmitDuidRequest)

TableAdmitFingerprint ==
    Saying("IsAdmitted", AsNamed, CreateAdmitFingerprintRequest,
           UpdateAdmitFingerprintRequest, DeleteAdmitFingerprintRequest)

TableRateLimitMac ==
    Saying("RateLimit", [Limit |-> {"RateLimit"}], CreateRateLimitMacRequest,
           UpdateRateLimitMacRequest, DeleteRateLimitMacRequest)

TableRateLimitDuid ==
    Saying("RateLimit", [Limit |-> {"RateLimit"}], CreateRateLimitDuidRequest,
           UpdateRateLimitDuidRequest, DeleteRateLimitDuidRequest)

\* Tables of one row that comes with the product.
Switch(columns, updates, renamed) ==
    [Sending(columns, columns, From(updates, renamed), From(updates, renamed), AsNamed)
     EXCEPT !.single = TRUE]

TableAdmit == Switch({"Enabled"}, UpdateAdmitRequest, AsNamed)

TableRateLimit ==
    Switch({"Enabled", "GlobalRateLimit"}, UpdateRateLimitRequest,
           [Limit |-> {"GlobalRateLimit"}])

TablePinger == Switch({"Enabled", "Timeout"}, UpdatePingerRequest, AsNamed)

\* Mutant: a difference of the model of a device is not looked at.
DiffWithoutModel == CreateAssetRequest \ {"Model"}

Diff == CreateAssetRequest

TableAsset ==
    LET columns == CreateAssetRequest \cup {"Name"}
    IN  [Sending(columns, columns \ {"HwAddress"}, From(CreateAssetRequest, AsNamed),
                 From(UpdateAssetRequest, AsNamed), From(DeleteAssetRequest, AsNamed))
         EXCEPT !.always = FALSE, !.compared = Diff]

Tables ==
    {TableSubnet4, TableSubnet6, TablePool4, TableReservedPool4,
     TableReservation4, TablePool6, TableReservedPool6, TablePdPool,
     TableReservedPdPool, TableReservation6, TableSharedNetwork4, TableClientClass4,
     TableClientClass6, TableDhcpFingerprint, TableDhcpOui, TableAdmitMac,
     TableAdmitDuid, TableAdmitFingerprint, TableRateLimitMac, TableRateLimitDuid,
     TableAdmit, TableRateLimit, TablePinger, TableAsset}

-----------------------------------------------------------------------------
VARIABLES
    rowsOf,  \* the table of this behaviour
    row,     \* a row of it, or Absent
    copy,    \* what a node has been told of the row, or Absent
    misled   \* history: an update has sent what it did not write

rowsVars == <<rowsOf, row, copy, misled>>

\* No row, and no copy of one.
Absent == [c \in {} |-> 0]

Lifetimes == {"ValidLifetime", "PreferredLifetime"}

Range(column) == IF column \in Lifetimes THEN 0 .. Word - 1 ELSE 0 .. 1

\* Bodies of which at most one column differs from those of an empty one.
Bodies ==
    LET Empty == [c \in rowsOf.columns |-> 0]
    IN  UNION {{[Empty EXCEPT ![c] = v] : v \in Range(c)} :
               c \in rowsOf.columns}

\* Mutant: the division comes first.
RebindTimeV4DividedFirst(lifetime) == ((lifetime \div 8) * 7) % Word

\* Go multiplies in 32 bits and then divides.
RebindTimeV4(lifetime) == ((lifetime * 7) % Word) \div 8

RebindTimeV6(lifetime) == ((lifetime * 4) % Word) \div 5

Field(conversion, source, f) ==
    IF f = "RenewTime"
    THEN LET c == CHOOSE c \in conversion[f] : TRUE IN source[c] \div 2
    ELSE IF f = "RebindTime"
    THEN IF "PreferredLifetime" \in conversion[f]
         THEN RebindTimeV6(source["PreferredLifetime"])
         ELSE RebindTimeV4(source["ValidLifetime"])
    ELSE [c \in conversion[f] |-> source[c]]

Message(conversion, source) ==
    [f \in DOMAIN conversion |-> Field(conversion, source, f)]

InitRows ==
    /\ rowsOf \in Tables
    /\ row = IF rowsOf.single THEN [c \in rowsOf.columns |-> 0] ELSE Absent
    /\ copy = IF rowsOf.single THEN Message(rowsOf.creates, row) ELSE Absent
    /\ misled = FALSE

-----------------------------------------------------------------------------
Insert ==
    /\ row = Absent
    /\ row' \in Bodies
    /\ copy' = Message(rowsOf.creates, row')
    /\ misled' = FALSE
    /\ UNCHANGED rowsOf

\* The node has the copy that a command names.
Names(source) ==
    /\ copy # Absent
    /\ \A f \in DOMAIN rowsOf.deletes : copy[f] = Field(rowsOf.deletes, source, f)

\* The columns that an update sends without writing or reading them.
Unwritten ==
    (UNION {rowsOf.updates[f] : f \in DOMAIN rowsOf.updates})
    \ (rowsOf.written \cup rowsOf.kept)

Update ==
    /\ row # Absent
    /\ \E body \in Bodies :
          LET source == [c \in rowsOf.columns |->
                            IF c \in rowsOf.kept \ rowsOf.written
                            THEN row[c] ELSE body[c]]
              sends == rowsOf.always \/ \E c \in rowsOf.compared : row[c] # source[c]
          IN  /\ row' = [c \in rowsOf.columns |->
                            IF c \in rowsOf.written THEN source[c] ELSE row[c]]
              /\ copy' = IF sends /\ Names(IF rowsOf.old THEN row ELSE source)
                         THEN Message(rowsOf.updates, source) ELSE copy
              /\ misled' = (misled \/ (sends /\ \E c \in Unwritten : body[c] # row[c]))
    /\ UNCHANGED rowsOf

\* The message names the copy by the stored row.
Delete ==
    /\ row # Absent /\ ~rowsOf.single
    /\ row' = Absent
    /\ copy' = IF Names(row) THEN Absent ELSE copy
    /\ UNCHANGED <<rowsOf, misled>>

\* The subnet gets another node, which is told of it by the rows.
UpdateNodes ==
    /\ row # Absent /\ rowsOf.owned
    /\ copy' = Message(rowsOf.creates, row)
    /\ misled' = FALSE
    /\ UNCHANGED <<rowsOf, row>>

NextRows == Insert \/ Update \/ Delete \/ UpdateNodes

RowsSpec == InitRows /\ [][NextRows]_rowsVars

-----------------------------------------------------------------------------
(***************************************************************************)
(* Properties                                                              *)
(***************************************************************************)

\* The types.
RowsTypeOK ==
    /\ rowsOf \in Tables
    /\ row # Absent => row \in [rowsOf.columns -> Nat]
    /\ copy # Absent => DOMAIN copy = DOMAIN rowsOf.creates
    /\ misled \in BOOLEAN

\* A node has of a row what the row says, and nothing once it is deleted,
\* through all updates: what they write, what they keep from the database and
\* what they send go together, unless a body named another value for a column
\* that is sent and not written.
NodeShowsRow ==
    ~misled => copy = IF row = Absent THEN Absent ELSE Message(rowsOf.creates, row)

\* A client that is told to renew is told to do so before it asks any server,
\* and that before its lease ends, for lifetimes whose product with the
\* fraction's numerator has no carry out of the word.
TimersInOrder ==
    copy # Absent /\ "RebindTime" \in DOMAIN copy =>
        LET lifetime == CHOOSE c \in Lifetimes : c \in rowsOf.creates["RebindTime"]
            v == copy[lifetime][lifetime]
        IN  v * (IF lifetime = "ValidLifetime" THEN 7 ELSE 4) < Word =>
                copy.RenewTime <= copy.RebindTime /\ copy.RebindTime <= v

=============================================================================
