---------------------------- MODULE SubnetFiles ----------------------------
(***************************************************************************)
(* The settings of a subnet on their way from its row to an Excel file and *)
(* back: the export writes the cells of a line by position, the import     *)
(* reads each by the name at the head of its column, fills empty settings  *)
(* from the global configuration, validates them, and inserts a row whose  *)
(* values are again told apart by their position only.                     *)
(*                                                                         *)
(* What the columns of pools and reservations make of the rows is in       *)
(* Subnet4Batch and Subnet6Import; here they are cells with several lines. *)
(***************************************************************************)
EXTENDS Subnet4Batch

\* An empty string, an empty list, 0 or FALSE; and a value that only the
\* setting has.
Empty == 0

-----------------------------------------------------------------------------
(***************************************************************************)
(* Positions.  A setting is named as in the structs; a heading by its      *)
(* constant, without "FieldName".                                          *)
(***************************************************************************)
Header4 ==
    <<"Subnet", "SubnetName", "IfaceName", "WhiteClientClassStrategy", "WhiteClientClasses",
      "BlackClientClassStrategy", "BlackClientClasses", "ValidLifetime", "MaxValidLifetime",
      "MinValidLifetime", "SubnetMask", "Routers", "DomainServers", "Option66", "Option67",
      "RelayCircuitId", "RelayRemoteId", "RelayAddresses", "Option108", "Option138", "Nodes",
      "NextServer", "Option114", "Option119", "AutoReservationType">>

Localized4 ==
    <<"Subnet", "Tags", "IfaceName", "WhiteClientClassStrategy", "WhiteClientClasses",
      "BlackClientClassStrategy", "BlackClientClasses", "ValidLifetime", "MaxValidLifetime",
      "MinValidLifetime", "SubnetMask", "Routers", "DomainServers", "TftpServer", "Bootfile",
      "RelayAgentCircuitId", "RelayAgentRemoteId", "RelayAgentAddresses", "Ipv6OnlyPreferred",
      "CapWapACAddresses", "Nodes", "NextServer", "CaptivePortalUrl", "DomainSearchList",
      "AutoReservationType">>

\* The setting read from the column with a heading; others have its name.
Parsed4(heading) ==
    CASE heading = "SubnetName" -> "Tags"
      [] heading = "Option66" -> "TftpServer"
      [] heading = "Option67" -> "Bootfile"
      [] heading = "RelayCircuitId" -> "RelayAgentCircuitId"
      [] heading = "RelayRemoteId" -> "RelayAgentRemoteId"
      [] heading = "RelayAddresses" -> "RelayAgentAddresses"
      [] heading = "Option108" -> "Ipv6OnlyPreferred"
      [] heading = "Option114" -> "CaptivePortalUrl"
      [] heading = "Option119" -> "DomainSearchList"
      [] heading = "Option138" -> "CapWapACAddresses"
      [] OTHER -> heading

\* Mutant: NextServer is written where it stands in the file.
Inserted4AsInFile ==
    <<"ID", "CreateTime", "Subnet", "Ipnet", "SubnetId", "Tags", "IfaceName",
      "WhiteClientClassStrategy", "WhiteClientClasses", "BlackClientClassStrategy",
      "BlackClientClasses", "ValidLifetime", "MaxValidLifetime", "MinValidLifetime",
      "SubnetMask", "Routers", "DomainServers", "TftpServer", "Bootfile",
      "RelayAgentCircuitId", "RelayAgentRemoteId", "RelayAgentAddresses", "Ipv6OnlyPreferred",
      "NextServer", "CaptivePortalUrl", "CapWapACAddresses", "DomainSearchList",
      "AutoReservationType", "Nodes", "Capacity">>

Inserted4 ==
    <<"ID", "CreateTime", "Subnet", "Ipnet", "SubnetId", "Tags", "IfaceName",
      "WhiteClientClassStrategy", "WhiteClientClasses", "BlackClientClassStrategy",
      "BlackClientClasses", "ValidLifetime", "MaxValidLifetime", "MinValidLifetime",
      "NextServer", "SubnetMask", "Routers", "DomainServers", "TftpServer", "Bootfile",
      "RelayAgentCircuitId", "RelayAgentRemoteId", "RelayAgentAddresses", "Ipv6OnlyPreferred",
      "CaptivePortalUrl", "CapWapACAddresses", "DomainSearchList", "AutoReservationType",
      "Nodes", "Capacity">>

Columns4 ==
    <<"ID", "CreateTime", "Subnet", "Ipnet", "SubnetId", "Tags", "IfaceName",
      "WhiteClientClassStrategy", "WhiteClientClasses", "BlackClientClassStrategy",
      "BlackClientClasses", "ValidLifetime", "MaxValidLifetime", "MinValidLifetime",
      "NextServer", "SubnetMask", "Routers", "DomainServers", "TftpServer", "Bootfile",
      "RelayAgentCircuitId", "RelayAgentRemoteId", "RelayAgentAddresses", "Ipv6OnlyPreferred",
      "CaptivePortalUrl", "CapWapACAddresses", "DomainSearchList", "AutoReservationType",
      "Nodes", "Capacity">>

Header6 ==
    <<"Subnet", "SubnetName", "EUI64", "EmbedIPv4", "AddressCode", "IfaceName",
      "WhiteClientClassStrategy", "WhiteClientClasses", "BlackClientClassStrategy",
      "BlackClientClasses", "ValidLifetime", "MaxValidLifetime", "MinValidLifetime",
      "PreferredLifetime", "Option18", "DomainServers", "Option32", "Option52",
      "RelayAddresses", "Nodes", "Option24", "Option103", "V6Prefix64", "AutoReservationType">>

Localized6 ==
    <<"Subnet", "Tags", "UseEui64", "EmbedIpv4", "AddressCode", "IfaceName",
      "WhiteClientClassStrategy", "WhiteClientClasses", "BlackClientClassStrategy",
      "BlackClientClasses", "ValidLifetime", "MaxValidLifetime", "MinValidLifetime",
      "PreferredLifetime", "RelayAgentInterfaceId", "DomainServers", "InformationRefreshTime",
      "CapWapACAddresses", "RelayAgentAddresses", "Nodes", "DomainSearchList",
      "CaptivePortalUrl", "V6Prefix64", "AutoReservationType">>

Parsed6(heading) ==
    CASE heading = "SubnetName" -> "Tags"
      [] heading = "EUI64" -> "UseEui64"
      [] heading = "EmbedIPv4" -> "EmbedIpv4"
      [] heading = "Option18" -> "RelayAgentInterfaceId"
      [] heading = "Option24" -> "DomainSearchList"
      [] heading = "Option32" -> "InformationRefreshTime"
      [] heading = "Option52" -> "CapWapACAddresses"
      [] heading = "Option103" -> "CaptivePortalUrl"
      [] heading = "RelayAddresses" -> "RelayAgentAddresses"
      [] OTHER -> heading

Inserted6 ==
    <<"ID", "CreateTime", "Subnet", "Ipnet", "SubnetId", "Tags", "IfaceName",
      "WhiteClientClassStrategy", "WhiteClientClasses", "BlackClientClassStrategy",
      "BlackClientClasses", "ValidLifetime", "MaxValidLifetime", "MinValidLifetime",
      "PreferredLifetime", "RelayAgentAddresses", "RapidCommit", "RelayAgentInterfaceId",
      "DomainServers", "DomainSearchList", "InformationRefreshTime", "CapWapACAddresses",
      "CaptivePortalUrl", "V6Prefix64", "EmbedIpv4", "UseEui64", "AddressCode",
      "AutoReservationType", "Nodes", "Capacity">>

Columns6 ==
    <<"ID", "CreateTime", "Subnet", "Ipnet", "SubnetId", "Tags", "IfaceName",
      "WhiteClientClassStrategy", "WhiteClientClasses", "BlackClientClassStrategy",
      "BlackClientClasses", "ValidLifetime", "MaxValidLifetime", "MinValidLifetime",
      "PreferredLifetime", "RelayAgentAddresses", "RapidCommit", "RelayAgentInterfaceId",
      "DomainServers", "DomainSearchList", "InformationRefreshTime", "CapWapACAddresses",
      "CaptivePortalUrl", "V6Prefix64", "EmbedIpv4", "UseEui64", "AddressCode",
      "AutoReservationType", "Nodes", "Capacity">>

\* The rows of the other tables that an import inserts: those of both stacks'
\* pools and reserved pools look the same.
InsertedPool ==
    <<"ID", "CreateTime", "BeginAddress", "BeginIp", "EndAddress", "EndIp", "Capacity",
      "Comment", "Subnet">>

ColumnsPool ==
    <<"ID", "CreateTime", "BeginAddress", "BeginIp", "EndAddress", "EndIp", "Capacity",
      "Comment", "Subnet">>

InsertedReservation4 ==
    <<"ID", "CreateTime", "HwAddress", "Hostname", "IpAddress", "Ip", "Capacity", "Comment",
      "AutoCreate", "Subnet">>

ColumnsReservation4 ==
    <<"ID", "CreateTime", "HwAddress", "Hostname", "IpAddress", "Ip", "Capacity", "Comment",
      "AutoCreate", "Subnet">>

InsertedReservation6 ==
    <<"ID", "CreateTime", "Duid", "HwAddress", "Hostname", "IpAddresses", "Ips", "Prefixes",
      "Ipnets", "Capacity", "Comment", "AutoCreate", "Subnet">>

ColumnsReservation6 ==
    <<"ID", "CreateTime", "Duid", "HwAddress", "Hostname", "IpAddresses", "Ips", "Prefixes",
      "Ipnets", "Capacity", "Comment", "AutoCreate", "Subnet">>

InsertedPdPool ==
    <<"ID", "CreateTime", "Prefix", "PrefixLen", "PrefixIpnet", "DelegatedLen", "Capacity",
      "Comment", "Subnet">>

ColumnsPdPool ==
    <<"ID", "CreateTime", "Prefix", "PrefixLen", "PrefixIpnet", "DelegatedLen", "Capacity",
      "Comment", "Subnet">>

\* The table and the row that an import writes to it.
Tables ==
    {<<InsertedPool, ColumnsPool>>, <<InsertedReservation4, ColumnsReservation4>>,
     <<InsertedReservation6, ColumnsReservation6>>, <<InsertedPdPool, ColumnsPdPool>>}

\* What is found in each column after an INSERT without the columns' names.
Stored(inserted, columns, s) ==
    [f \in ToSet(columns) |->
        s[inserted[CHOOSE i \in DOMAIN columns : columns[i] = f]]]

-----------------------------------------------------------------------------
(***************************************************************************)
(* Values                                                                  *)
(***************************************************************************)
Assigned == {"ID", "CreateTime", "Ipnet", "SubnetId", "Capacity"}

Strategies == {"WhiteClientClassStrategy", "BlackClientClassStrategy"}

And == 1
Or  == 2

Minutes(n) == 60 * n

\* A value of the setting that stands at i among the columns.
Mark(columns, f) == 10000 + CHOOSE i \in DOMAIN columns : columns[i] = f

\* An address that passes for a subnet mask where only addresses are asked for.
NoMask == 20000

\* Address codes: the row keeps the id, the file the name.
Codes == {[id |-> 1, name |-> 2], [id |-> 2, name |-> 1]}

NameOf(id) == IF id = Empty THEN Empty ELSE (CHOOSE c \in Codes : c.id = id).name

\* checkAddressCode with a name and no id.
IdOf(name) == IF name = Empty THEN Empty ELSE (CHOOSE c \in Codes : c.name = name).id

-----------------------------------------------------------------------------
(***************************************************************************)
(* Validation                                                              *)
(***************************************************************************)
Fillable4 == {"ValidLifetime", "MinValidLifetime", "MaxValidLifetime", "DomainServers",
              "DomainSearchList", "Routers", "WhiteClientClasses", "BlackClientClasses"}

Fillable6 == Fillable4 \ {"Routers"}

Filled4(s, config) ==
    [f \in DOMAIN s |-> IF f \in Fillable4 /\ s[f] = Empty THEN config[f] ELSE s[f]]

\* The preferred lifetime is looked at only when another setting is empty.
Filled6(s, config) ==
    [f \in DOMAIN s |->
        IF s[f] # Empty THEN s[f]
        ELSE IF f \in Fillable6 THEN config[f]
        ELSE IF f = "PreferredLifetime" /\ \E g \in Fillable6 : s[g] = Empty
             THEN config["ValidLifetime"]
             ELSE Empty]

ValidLifetimes(s) ==
    /\ s["MinValidLifetime"] >= Minutes(5)
    /\ s["ValidLifetime"] \in s["MinValidLifetime"] .. s["MaxValidLifetime"]

\* A strategy is asked for only with classes.  The classes are known.
ValidStrategies(s) ==
    /\ s["WhiteClientClasses"] # Empty => s["WhiteClientClassStrategy"] \in {And, Or}
    /\ s["BlackClientClasses"] # Empty => s["BlackClientClassStrategy"] \in {And, Or}

Valid4(s) ==
    /\ s["Ipv6OnlyPreferred"] # Empty => s["Ipv6OnlyPreferred"] >= Minutes(5)
    /\ s["AutoReservationType"] \in 0 .. 2
    /\ ValidStrategies(s)
    /\ ValidLifetimes(s)

\* checkAutoGenAddrFactor, for a mask that allows each of them.
OneFactor(s) ==
    Cardinality({f \in {"UseEui64", "EmbedIpv4", "AddressCode", "AutoReservationType"} :
                    s[f] # Empty}) <= 1

Valid6(s) ==
    /\ s["InformationRefreshTime"] # Empty => s["InformationRefreshTime"] >= Minutes(10)
    /\ s["AutoReservationType"] \in 0 .. 3
    /\ ValidStrategies(s)
    /\ ValidLifetimes(s)
    /\ s["PreferredLifetime"] \in s["MinValidLifetime"] .. s["ValidLifetime"]
    /\ OneFactor(s)

-----------------------------------------------------------------------------
(***************************************************************************)
(* Export and import of settings                                           *)
(***************************************************************************)
\* Cells are written for empty settings as well; an empty strategy reads "or".
Cell(s, f) == IF f \in Strategies /\ s[f] # And THEN Or ELSE s[f]

Export4(row) == [i \in DOMAIN Localized4 |-> Cell(row, Localized4[i])]

Export6(row) ==
    LET named == [row EXCEPT !["AddressCode"] = NameOf(@)]
    IN  [i \in DOMAIN Localized6 |-> Cell(named, Localized6[i])]

\* Each heading is at most once in a file.  The import assigns ids and the like.
Read(columns, header, setting(_), line) ==
    [f \in ToSet(columns) |->
        LET at == {i \in DOMAIN header : setting(header[i]) = f}
        IN  CASE f \in Assigned -> Mark(columns, f)
              [] f \notin Assigned /\ at # {} -> line[CHOOSE i \in at : TRUE]
              [] f \notin Assigned /\ at = {} -> Empty]

Refused == [accepted |-> FALSE]

Import4(line, config) ==
    LET s == Filled4(Read(Columns4, Header4, Parsed4, line), config)
    IN  IF s["SubnetMask"] # NoMask /\ Valid4(s)
        THEN [accepted |-> TRUE, row |-> Stored(Inserted4, Columns4, s)]
        ELSE Refused

Import6(line, config) ==
    LET s == Filled6(Read(Columns6, Header6, Parsed6, line), config)
        coded == [s EXCEPT !["AddressCode"] = IdOf(@)]
    IN  IF Valid6(coded)
        THEN [accepted |-> TRUE, row |-> Stored(Inserted6, Columns6, coded)]
        ELSE Refused

-----------------------------------------------------------------------------
(***************************************************************************)
(* Rows in a cell, and clients in a file of reservations                   *)
(***************************************************************************)
NoKey == <<>>

\* A cell has a row of a pool or a reservation in each line; a comment may
\* have lines of its own.
CellOf(rows) ==
    FlattenSeq([i \in DOMAIN rows |->
        [j \in DOMAIN rows[i].comment |->
            [key |-> IF j = 1 THEN rows[i].key ELSE NoKey, comment |-> rows[i].comment[j]]]])

\* The columns of a line are counted: without a key there are too few.
RowsOf(cell) ==
    IF \E i \in DOMAIN cell : cell[i].key = NoKey
    THEN Refused
    ELSE [accepted |-> TRUE,
          row |-> [i \in DOMAIN cell |-> [key |-> cell[i].key, comment |-> <<cell[i].comment>>]]]

\* getFlagAndValue.
FlagAndValue(c) ==
    CASE c.hostname # Empty -> <<"hostname", c.hostname>>
      [] c.hostname = Empty /\ c.duid # Empty -> <<"duid", c.duid>>
      [] OTHER -> <<"mac", c.mac>>

\* The flag stands before the value it is about.
ClientOf(cells) ==
    [mac |-> IF cells[1] = "mac" THEN cells[2] ELSE Empty,
     hostname |-> IF cells[1] = "hostname" THEN cells[2] ELSE Empty,
     duid |-> IF cells[1] = "duid" THEN cells[2] ELSE Empty]

-----------------------------------------------------------------------------
(***************************************************************************)
(* Samples: each setting alone, all of them, all but one                   *)
(***************************************************************************)
Lifetimes == {"ValidLifetime", "MinValidLifetime", "MaxValidLifetime", "PreferredLifetime"}

Factors == {"UseEui64", "EmbedIpv4", "AddressCode", "AutoReservationType"}

Marked(columns, fs) ==
    [f \in ToSet(columns) |->
        IF f \in fs \/ f \in Assigned \cup {"Subnet"} THEN Mark(columns, f) ELSE Empty]

Sampled(columns) ==
    LET plain == ToSet(columns) \ (Assigned \cup Lifetimes \cup Factors \cup Strategies)
        few == {fs \in SUBSET plain : Cardinality(fs) <= 1}
    IN  {Marked(columns, fs) : fs \in few \cup {plain \ fs : fs \in few}}

Configs ==
    LET config(n, f) == CASE f = "MinValidLifetime" -> Minutes(10 * n)
                          [] f = "ValidLifetime" -> Minutes(20 * n)
                          [] f = "MaxValidLifetime" -> Minutes(30 * n)
                          [] OTHER -> IF n = 1 THEN Empty ELSE 30000
    IN  {[f \in Fillable4 |-> config(n, f)] : n \in 1 .. 2}

\* What a request creates: the settings it gives, the rest from the
\* configuration of that time, when it is valid.
Created4 ==
    {r \in {Filled4([s EXCEPT !["ValidLifetime"] = v, !["WhiteClientClassStrategy"] = w,
                              !["AutoReservationType"] = a,
                              !["SubnetMask"] = IF a = 1 /\ @ # Empty THEN NoMask ELSE @], config) :
                s \in Sampled(Columns4), v \in {Empty, Minutes(15)}, w \in {Empty, And, Or},
                a \in 0 .. 2, config \in Configs} : Valid4(r)}

Created6 ==
    {r \in {Filled6([s EXCEPT !["ValidLifetime"] = v, !["BlackClientClassStrategy"] = b,
                              ![f] = x], config) :
                s \in Sampled(Columns6), v \in {Empty, Minutes(15)}, b \in {Empty, And, Or},
                f \in Factors, x \in 0 .. 2, config \in Configs} : Valid6(r)}

\* A comment of one line and one of two.
Comments == {<<1>>, <<1, 2>>}

-----------------------------------------------------------------------------
(***************************************************************************)
(* Properties                                                              *)
(***************************************************************************)
\* What comes back of a row under the configuration of the day.
Returned(r, fillable, config) ==
    [f \in DOMAIN r |->
        IF f \in Strategies THEN Cell(r, f)
        ELSE IF f = "RapidCommit" THEN Empty
        ELSE IF f \in fillable /\ r[f] = Empty THEN config[f]
        ELSE r[f]]

SettingsReturn4 ==
    \A r \in Created4, config \in Configs :
        Import4(Export4(r), config) =
            IF r["SubnetMask"] = NoMask THEN Refused
            ELSE [accepted |-> TRUE, row |-> Returned(r, Fillable4, config)]

SettingsReturn6 ==
    \A r \in Created6, config \in Configs :
        Import6(Export6(r), config) =
            [accepted |-> TRUE, row |-> Returned(r, Fillable6, config)]

RowsReturn ==
    \A t \in Tables :
        LET s == [f \in ToSet(t[2]) |-> Mark(t[2], f)]
        IN  Stored(t[1], t[2], s) = s

ClientsReturn ==
    \A f \in {"mac", "hostname", "duid"} :
        LET c == [[g \in {"mac", "hostname", "duid"} |-> Empty] EXCEPT ![f] = 1]
        IN  ClientOf(FlagAndValue(c)) = c

\* What is exported is imported: the five lists of settings of each stack that
\* are matched by position, or by the names of a third, agree, and so do those
\* of the other tables.  Settings left empty are filled anew, and rapid commit
\* has no column.  A subnet whose mask is any address, as requests may give it,
\* is refused, and so is a column of pools with a comment of two lines.
FilesReturnSettings ==
    /\ SettingsReturn4 /\ SettingsReturn6 /\ RowsReturn /\ ClientsReturn
    /\ \A comment \in [db.pools -> Comments] :
          LET pools == SetToSeq(db.pools)
              rows == [i \in DOMAIN pools |-> [key |-> pools[i], comment |-> comment[pools[i]]]]
          IN  RowsOf(CellOf(rows)) =
                IF \A p \in db.pools : Len(comment[p]) = 1
                THEN [accepted |-> TRUE, row |-> rows]
                ELSE Refused

=============================================================================
