---------------------------- MODULE AddressCodes ----------------------------
(***************************************************************************)
(* Address codes, the layouts of their bits and the segments of a layout.  *)
(* Rows refer to their parents by id, while the nodes keep a tree of names *)
(* and are told of each change by its path in it: a request reads the      *)
(* rows that its URL names (a Begin action), and in the same transaction   *)
(* writes its row, sends the path and commits (the action named after it). *)
(* PostgreSQL runs it at READ COMMITTED and a read takes no lock, so that   *)
(* another request may finish between the two.  Within the second nothing  *)
(* is lost by taking it as one step: requests that touch the same rows, or *)
(* a row and its parent, wait for one another's commit, and others         *)
(* commute.  How commands fail is ForwardedTables' matter.                 *)
(***************************************************************************)
EXTENDS Naturals, FiniteSets, Sequences

CONSTANTS
    CodeIds, CodeNames, \* address codes: ids of rows and names
    LayoutIds, Labels,  \* layouts: ids of rows and labels
    Ranges,             \* what a layout may take: records of begin and end bits
    SegmentIds,         \* segments: ids of rows
    SegmentCodes,       \* records of the number of hex digits and the first one
    Clerks              \* goroutines that serve requests

\* No name, and no id.
None == "none"

\* Validate of a layout keeps its bits within an address, and a layout ends
\* where a digit does.
ASSUME CodesAssumption ==
    /\ None \notin CodeNames \cup LayoutIds \cup SegmentIds
    /\ \A r \in Ranges :
          /\ r.begin \in 65..128 /\ r.end \in r.begin..128
          /\ r.end % 4 = 0
    /\ \A s \in SegmentCodes : s.digits \in Nat \ {0} /\ s.first \in 0..15

NoLayout == [code |-> None]

NoSegment == [layout |-> None]

VARIABLES
    codes,     \* the name of each address code, or None
    layouts,   \* the code, label and range of each layout, or NoLayout
    segments,  \* the layout and code of each segment, or NoSegment
    tree,      \* paths of names that a node has
    serving,   \* what each clerk works on, with what it has read
    astray     \* history: a request finished on rows that had changed, or of
               \* other parents than its URL said, or layouts were checked at once

treeVars == <<codes, layouts, segments, tree, serving, astray>>

Waiting == [op |-> "none"]

CodeRows == {c \in CodeIds : codes[c] # None}

LayoutRows == {l \in LayoutIds : layouts[l] # NoLayout}

SegmentRows == {s \in SegmentIds : segments[s] # NoSegment}

\* The ids that a request in flight mentions.
Mentioned(job) ==
    {job.url.code, job.url.layout, job.url.segment} \cup job.read.others
    \cup IF job.op = "CreateSegments" THEN DOMAIN job.ask ELSE {}

\* An id is new: the model takes one again that nothing mentions any more.
Fresh(id) == \A k \in Clerks : serving[k] # Waiting => id \notin Mentioned(serving[k])

-----------------------------------------------------------------------------
(***************************************************************************)
(* What rows say and what requests read                                    *)
(***************************************************************************)
CodePath(c) == <<codes[c]>>

LayoutPath(l) == <<codes[layouts[l].code], layouts[l].label>>

SegmentPath(s) ==
    LET l == segments[s].layout
    IN  <<codes[layouts[l].code], layouts[l].label, segments[s].code>>

\* The tree that the rows stand for.
Tree ==
    {CodePath(c) : c \in CodeRows}
    \cup {LayoutPath(l) : l \in LayoutRows}
    \cup {SegmentPath(s) : s \in SegmentRows}

\* The codes of a layout's segments.
CodesOf(l) == {segments[s].code : s \in {t \in SegmentRows : segments[t].layout = l}}

Overlap(r, s) == r.begin <= s.end /\ s.begin <= r.end

\* Mutant: layouts may share bits.
checkAddressCodeLayoutDuplicateByLabel(c, l, label, range) ==
    \A m \in LayoutRows \ {l} : layouts[m].code = c => layouts[m].label # label

\* No other layout of the code has the label or shares bits.
checkAddressCodeLayoutDuplicate(c, l, label, range) ==
    \A m \in LayoutRows \ {l} : layouts[m].code = c =>
        layouts[m].label # label /\ ~Overlap(layouts[m].range, range)

\* The greatest first digit when the layout has one to three bits for it.
FirstDigit == <<1, 3, 7>>

\* A segment's code has the digits that the bits need, and its first digit
\* does not exceed the bits left for it.
Validate(s, r) ==
    LET width == (r.end - r.begin) + 1
    IN  /\ width = s.digits * 4 - (3 - ((r.end - r.begin) % 4))
        /\ width % 4 # 0 => s.first <= FirstDigit[width % 4]

\* What a request reads: the rows that its URL names, and the other layouts of
\* the code when it adds one.
Read(op, url) ==
    [code    |-> codes[url.code],
     layout  |-> IF url.layout = None THEN NoLayout ELSE layouts[url.layout],
     segment |-> IF url.segment = None THEN NoSegment ELSE segments[url.segment],
     others  |-> IF op = "CreateLayout"
                 THEN {l \in LayoutRows : layouts[l].code = url.code} ELSE {}]

\* Each row that a request names belongs to the one before it.
Straight(url) ==
    /\ url.layout # None /\ layouts[url.layout] # NoLayout =>
          layouts[url.layout].code = url.code
    /\ url.segment # None /\ segments[url.segment] # NoSegment =>
          segments[url.segment].layout = url.layout

Url(c, l, s) == [code |-> c, layout |-> l, segment |-> s]

BeginRequest(k, op, url, ask) ==
    /\ serving[k] = Waiting
    /\ serving' = [serving EXCEPT ![k] =
                      [op |-> op, url |-> url, ask |-> ask, read |-> Read(op, url)]]
    /\ UNCHANGED <<codes, layouts, segments, tree, astray>>

-----------------------------------------------------------------------------
(***************************************************************************)
(* The requests and what they refuse on what they read                     *)
(***************************************************************************)
BeginCode(k) ==
    \E c \in CodeIds, name \in CodeNames :
       \/ /\ c \notin CodeRows /\ Fresh(c)
          /\ BeginRequest(k, "CreateCode", Url(c, None, None), name)
       \/ /\ c \in CodeRows
          /\ BeginRequest(k, "UpdateCode", Url(c, None, None), name)
       \/ /\ c \in CodeRows /\ name = codes[c]
          /\ BeginRequest(k, "DeleteCode", Url(c, None, None), name)

BeginLayout(k) ==
    \E c \in CodeRows, l \in LayoutIds, label \in Labels, range \in Ranges :
       \/ /\ l \notin LayoutRows /\ Fresh(l)
          /\ checkAddressCodeLayoutDuplicate(c, l, label, range)
          /\ BeginRequest(k, "CreateLayout", Url(c, l, None), [label |-> label, range |-> range])
       \/ /\ l \in LayoutRows
          /\ label # layouts[l].label
          /\ checkAddressCodeLayoutDuplicate(c, l, label, range)
          /\ BeginRequest(k, "UpdateLayout", Url(c, l, None), label)
       \/ /\ l \in LayoutRows /\ label = layouts[l].label
          /\ BeginRequest(k, "DeleteLayout", Url(c, l, None), label)

\* A file brings several segments at once, and only its are compared with the
\* segments there are; several are deleted at once by their codes.
BeginSegment(k) ==
    \E c \in CodeRows, l \in LayoutRows :
       \/ \E ids \in SUBSET {s \in SegmentIds \ SegmentRows : Fresh(s)} :
             \E new \in [ids -> SegmentCodes] :
                /\ ids # {}
                /\ \A s, t \in ids : new[s] = new[t] => s = t
                /\ \A s \in ids : Validate(new[s], layouts[l].range)
                /\ (\E s \in ids : new[s] \in CodesOf(l)) => Cardinality(ids) = 1
                /\ BeginRequest(k, "CreateSegments", Url(c, l, None), new)
       \/ \E some \in SUBSET SegmentCodes \ {{}} :
             BeginRequest(k, "DeleteSegments", Url(c, l, None), some)
       \/ \E s \in SegmentRows :
             BeginRequest(k, "DeleteSegment", Url(c, l, s), segments[s].code)
       \/ \E s \in SegmentRows, code \in SegmentCodes :
             /\ code # segments[s].code
             /\ Validate(code, layouts[l].range)
             /\ BeginRequest(k, "UpdateSegment", Url(c, l, s), code)

-----------------------------------------------------------------------------
(***************************************************************************)
(* What a node makes of a command.  It has no place for a path whose       *)
(* parent it does not have.                                                *)
(***************************************************************************)
\* A path leads through another.
Through(p, path) == Len(p) >= Len(path) /\ \A i \in DOMAIN path : p[i] = path[i]

Below(path) == {p \in tree : Through(p, path)}

Planted(paths) ==
    tree \cup {p \in paths :
                  Len(p) > 1 => \E q \in tree : Len(q) = Len(p) - 1 /\ Through(p, q)}

Cut(path) == tree \ Below(path)

Renamed(command) ==
    Cut(command.Old)
    \cup {[p EXCEPT ![Len(command.Old)] = command.New] : p \in Below(command.Old)}

\* What each command names in the tree.
CreateAddressCodeRequest(name) == {<<name>>}

DeleteAddressCodeRequest(name) == <<name>>

UpdateAddressCodeRequest(old, new) == [Old |-> <<old>>, New |-> new]

CreateAddressCodeLayoutRequest(code, label) == {<<code, label>>}

DeleteAddressCodeLayoutRequest(code, label) == <<code, label>>

UpdateAddressCodeLayoutRequest(code, old, new) == [Old |-> <<code, old>>, New |-> new]

CreateAddressCodeLayoutSegmentsRequest(code, label, some) ==
    {<<code, label, s>> : s \in some}

DeleteAddressCodeLayoutSegmentsRequest(code, label, some) ==
    {<<code, label, s>> : s \in some}

UpdateAddressCodeLayoutSegmentRequest(code, label, old, new) ==
    [Old |-> <<code, label, old>>, New |-> new]

-----------------------------------------------------------------------------
(***************************************************************************)
(* What requests write and send.  A write of a row that has gone changes   *)
(* none, and the command is sent all the same.                             *)
(***************************************************************************)
\* What finishing on what was read does not see.
Slips(job) == Read(job.op, job.url) # job.read \/ ~Straight(job.url)

Finish(k) ==
    /\ serving' = [serving EXCEPT ![k] = Waiting]
    /\ astray' = (astray \/ Slips(serving[k]))

CreateCode(k) ==
    LET job == serving[k]
    IN  /\ job.op = "CreateCode"
        /\ job.url.code \notin CodeRows
        /\ \A c \in CodeRows : codes[c] # job.ask
        /\ codes' = [codes EXCEPT ![job.url.code] = job.ask]
        /\ tree' = Planted(CreateAddressCodeRequest(job.ask))
        /\ UNCHANGED <<layouts, segments>>
        /\ Finish(k)

UpdateCode(k) ==
    LET job == serving[k]
        c == job.url.code
    IN  /\ job.op = "UpdateCode"
        /\ c \in CodeRows => \A d \in CodeRows \ {c} : codes[d] # job.ask
        /\ codes' = IF c \in CodeRows THEN [codes EXCEPT ![c] = job.ask] ELSE codes
        /\ tree' = Renamed(UpdateAddressCodeRequest(job.read.code, job.ask))
        /\ UNCHANGED <<layouts, segments>>
        /\ Finish(k)

\* The layouts of the code, and their segments, go with it.
DeleteCode(k) ==
    LET job == serving[k]
        mine == {l \in LayoutRows : layouts[l].code = job.url.code}
    IN  /\ job.op = "DeleteCode"
        /\ codes' = [codes EXCEPT ![job.url.code] = None]
        /\ layouts' = [l \in LayoutIds |-> IF l \in mine THEN NoLayout ELSE layouts[l]]
        /\ segments' = [s \in SegmentIds |->
                           IF segments[s].layout \in mine THEN NoSegment ELSE segments[s]]
        /\ tree' = Cut(DeleteAddressCodeRequest(job.read.code))
        /\ Finish(k)

CreateLayout(k) ==
    LET job == serving[k]
        c == job.url.code
        l == job.url.layout
    IN  /\ job.op = "CreateLayout"
        /\ l \notin LayoutRows /\ c \in CodeRows
        /\ \A m \in LayoutRows : layouts[m].code = c => layouts[m].label # job.ask.label
        /\ layouts' = [layouts EXCEPT ![l] =
                          [code |-> c, label |-> job.ask.label, range |-> job.ask.range]]
        /\ tree' = Planted(CreateAddressCodeLayoutRequest(job.read.code, job.ask.label))
        /\ UNCHANGED <<codes, segments>>
        /\ Finish(k)

UpdateLayout(k) ==
    LET job == serving[k]
        l == job.url.layout
    IN  /\ job.op = "UpdateLayout"
        /\ l \in LayoutRows => \A m \in LayoutRows \ {l} :
              layouts[m].code = layouts[l].code => layouts[m].label # job.ask
        /\ layouts' = IF l \in LayoutRows THEN [layouts EXCEPT ![l].label = job.ask] ELSE layouts
        /\ tree' = Renamed(UpdateAddressCodeLayoutRequest(
                              job.read.code, job.read.layout.label, job.ask))
        /\ UNCHANGED <<codes, segments>>
        /\ Finish(k)

DeleteLayout(k) ==
    LET job == serving[k]
        l == job.url.layout
    IN  /\ job.op = "DeleteLayout"
        /\ layouts' = [layouts EXCEPT ![l] = NoLayout]
        /\ segments' = [s \in SegmentIds |->
                           IF segments[s].layout = l THEN NoSegment ELSE segments[s]]
        /\ tree' = Cut(DeleteAddressCodeLayoutRequest(job.read.code, job.read.layout.label))
        /\ UNCHANGED codes
        /\ Finish(k)

CreateSegments(k) ==
    LET job == serving[k]
        l == job.url.layout
        brought == {job.ask[s] : s \in DOMAIN job.ask}
    IN  /\ job.op = "CreateSegments"
        /\ l \in LayoutRows /\ DOMAIN job.ask \cap SegmentRows = {}
        /\ brought \cap CodesOf(l) = {}
        /\ segments' = [s \in SegmentIds |->
                           IF s \in DOMAIN job.ask THEN [layout |-> l, code |-> job.ask[s]]
                           ELSE segments[s]]
        /\ tree' = Planted(CreateAddressCodeLayoutSegmentsRequest(
                              job.read.code, job.read.layout.label, brought))
        /\ UNCHANGED <<codes, layouts>>
        /\ Finish(k)

\* Each code must be that of a row.
DeleteSegments(k) ==
    LET job == serving[k]
        l == job.url.layout
    IN  /\ job.op = "DeleteSegments"
        /\ job.ask \subseteq CodesOf(l)
        /\ segments' = [s \in SegmentIds |->
                           IF s \in SegmentRows /\ segments[s].layout = l
                              /\ segments[s].code \in job.ask
                           THEN NoSegment ELSE segments[s]]
        /\ tree' = tree \ DeleteAddressCodeLayoutSegmentsRequest(
                             job.read.code, job.read.layout.label, job.ask)
        /\ UNCHANGED <<codes, layouts>>
        /\ Finish(k)

DeleteSegment(k) ==
    LET job == serving[k]
    IN  /\ job.op = "DeleteSegment"
        /\ segments' = [segments EXCEPT ![job.url.segment] = NoSegment]
        /\ tree' = tree \ DeleteAddressCodeLayoutSegmentsRequest(
                             job.read.code, job.read.layout.label, {job.read.segment.code})
        /\ UNCHANGED <<codes, layouts>>
        /\ Finish(k)

UpdateSegment(k) ==
    LET job == serving[k]
        s == job.url.segment
    IN  /\ job.op = "UpdateSegment"
        /\ s \in SegmentRows => job.ask \notin CodesOf(segments[s].layout)
        /\ segments' = IF s \in SegmentRows THEN [segments EXCEPT ![s].code = job.ask] ELSE segments
        /\ tree' = Renamed(UpdateAddressCodeLayoutSegmentRequest(
                              job.read.code, job.read.layout.label, job.read.segment.code, job.ask))
        /\ UNCHANGED <<codes, layouts>>
        /\ Finish(k)

\* A request is refused by a unique column or a missing parent, or its
\* command fails before it reaches a node.
Refuse(k) ==
    /\ serving[k] # Waiting
    /\ serving' = [serving EXCEPT ![k] = Waiting]
    /\ UNCHANGED <<codes, layouts, segments, tree, astray>>

InitTree ==
    /\ codes = [c \in CodeIds |-> None]
    /\ layouts = [l \in LayoutIds |-> NoLayout]
    /\ segments = [s \in SegmentIds |-> NoSegment]
    /\ tree = {}
    /\ serving = [k \in Clerks |-> Waiting]
    /\ astray = FALSE

NextTree ==
    \E k \in Clerks :
       \/ BeginCode(k) \/ BeginLayout(k) \/ BeginSegment(k)
       \/ CreateCode(k) \/ UpdateCode(k) \/ DeleteCode(k)
       \/ CreateLayout(k) \/ UpdateLayout(k) \/ DeleteLayout(k)
       \/ CreateSegments(k) \/ DeleteSegments(k) \/ DeleteSegment(k) \/ UpdateSegment(k)
       \/ Refuse(k)

TreeSpec == InitTree /\ [][NextTree]_treeVars

-----------------------------------------------------------------------------
(***************************************************************************)
(* Properties                                                              *)
(***************************************************************************)
LayoutsTyped ==
    [code: CodeIds, label: Labels, range: Ranges]

SegmentsTyped == [layout: LayoutIds, code: SegmentCodes]

\* The types, and that every row has its parent.
TreeTyped ==
    /\ codes \in [CodeIds -> CodeNames \cup {None}]
    /\ layouts \in [LayoutIds -> LayoutsTyped \cup {NoLayout}]
    /\ segments \in [SegmentIds -> SegmentsTyped \cup {NoSegment}]
    /\ \A l \in LayoutRows : layouts[l].code \in CodeRows
    /\ \A s \in SegmentRows : segments[s].layout \in LayoutRows
    /\ astray \in BOOLEAN

\* Bit i of the first digit, counted from the right, is set at most when the
\* digit reaches the i-th power of two.
Powers == <<1, 2, 4, 8>>

\* The layout's bits hold every bit of the segment's code.
Fits(s, r) ==
    \A i \in DOMAIN Powers : s.first >= Powers[i] =>
        4 * (s.digits - 1) + i <= (r.end - r.begin) + 1

\* The layouts of a code share no bits and have room for their segments, and
\* the nodes have the tree of names that the rows stand for, however requests
\* on codes, layouts and segments overlap, unless one of them finished on a
\* row that had changed since it read it, or named a row of other parents.
StraightTreeMatches ==
    ~astray =>
        /\ tree = Tree
        /\ \A s \in SegmentRows : Fits(segments[s].code, layouts[segments[s].layout].range)
        /\ \A l, m \in LayoutRows : l # m /\ layouts[l].code = layouts[m].code =>
              ~Overlap(layouts[l].range, layouts[m].range)

=============================================================================
