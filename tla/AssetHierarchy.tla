---------------------------- MODULE AssetHierarchy ----------------------------
(***************************************************************************)
(* The assets of one project (topology-next): the tree that parent_asset_id*)
(* makes of them, their sectors, and their links with sectors.             *)
(*                                                                         *)
(* A create or an update reads rows in several statements, validates, and  *)
(* writes with one more; a cascade reads the rows it means to take off the *)
(* list and writes them in a transaction.  Other requests run in between.  *)
(* What the services do not see any more, the triggers of the database see *)
(* as far as other transactions have committed: the statement of a write   *)
(* is in two steps here, its triggers and its commit.  The schema is that  *)
(* of the Alembic chain: its triggers know a parent that does not fit, and *)
(* nothing in it knows a cycle.                                            *)
(*                                                                         *)
(* The flag is_active and the status of a row are one bit here, whether    *)
(* findBySectorId lists it (active and not retired): the cascade of a      *)
(* sector looks at that, and the cascades write both.  Names, codes and    *)
(* places are left out, and so are the links between two assets; an asset  *)
(* has one link with a sector at a time.                                   *)
(***************************************************************************)
EXTENDS Naturals

CONSTANTS
    Assets,         \* ids of assets
    Sectors,        \* the sectors of the project
    Requests,       \* requests that may be in flight at a time
    Creates,        \* payloads of creates, which mention everything
    Updates,        \* payloads of updates
    None,           \* no row, no parent, no link, no request
    Keep,           \* what a payload does not mention
    MaxOperations   \* bound on the requests

Containers == {"node", "relay"}    \* a gateway and a power unit are as a node
Contained == {"relay", "device"}   \* sensors and actuators are devices
AssetTypes == Containers \cup Contained

Rows == [sector : Sectors, parent : Assets \cup {None}, type : AssetTypes,
         listed : BOOLEAN]
Payloads == [sector : Sectors \cup {Keep}, parent : Assets \cup {None, Keep},
             type : AssetTypes \cup {Keep}, listed : BOOLEAN \cup {Keep}]

VARIABLES
    assets,         \* assets[a]: the row, or None
    links,          \* links[a]: the link of a with a sector, or None
    requests,       \* requests[r]: what r has read, or None
    archived,       \* projects.status is 'archived'
    activeColumn,   \* the table of assets has a column is_active
    operations,     \* the requests so far
    crossed,        \* assets written by an update that had missed a child
    skewed          \* assets written although their triggers saw old rows

vars == <<assets, links, requests, archived, activeColumn, operations, crossed, skewed>>
history == <<crossed, skewed>>

Links == [sector : Sectors, active : BOOLEAN]

Stages == {"children", "links", "parent", "tree", "write", "commit", "cascade"}

\* What a request has read and means to write, the stage being what it does
\* next.  The last four fields are what it does not know: rows written since it
\* began, whether a link of its asset was, the rows that are new or have a new
\* parent since it read the tree, and whether a row was written since its
\* triggers ran.
Flights ==
    [op : {"create", "update", "delete", "softDelete", "archive"}, stage : Stages,
     on : Assets \cup Sectors \cup {None}, payload : Payloads \cup {None},
     target : Rows \cup {None}, moves : BOOLEAN, ids : SUBSET Assets,
     missed : SUBSET Assets, linked : BOOLEAN, moved : SUBSET Assets, late : BOOLEAN]

ASSUME HierarchyAssumption ==
    /\ Creates \subseteq Rows /\ Updates \subseteq Payloads
    /\ Assets \cap Sectors = {}
    /\ None \notin Assets \cup Rows \cup Flights \cup Links
    /\ Keep \notin Assets \cup Sectors \cup {None} /\ Keep \notin AssetTypes /\ Keep \notin BOOLEAN
    /\ MaxOperations \in Nat

HierarchyTypeOK ==
    /\ assets \in [Assets -> Rows \cup {None}]
    /\ links \in [Assets -> Links \cup {None}]
    /\ requests \in [Requests -> Flights \cup {None}]
    /\ archived \in BOOLEAN /\ activeColumn \in BOOLEAN
    /\ operations \in 0..MaxOperations
    /\ crossed \subseteq Assets /\ skewed \subseteq Assets

\* The code is written for a table with the column and falls back to one
\* without; the Alembic chain gives is_active to sectors, not to assets.
Init ==
    /\ assets = [a \in Assets |-> None]
    /\ links = [a \in Assets |-> None]
    /\ requests = [r \in Requests |-> None]
    /\ archived = FALSE
    /\ activeColumn \in BOOLEAN
    /\ operations = 0
    /\ crossed = {} /\ skewed = {}

-----------------------------------------------------------------------------
(***************************************************************************)
(* What the statements read.                                               *)
(***************************************************************************)

Existing == {a \in Assets : assets[a] # None}
Children(a) == {c \in Existing : assets[c].parent = a}

\* findTree: the least set with a and the children of its members.  The
\* recursive query does not end when a parent chain is a cycle.
Tree(a) ==
    LET Whole(S) == a \in S /\ \A c \in Existing : assets[c].parent \in S => c \in S
    IN  {b \in Assets : \A S \in SUBSET Assets : Whole(S) => b \in S}

OnCycle(a) == a \in Existing /\ assets[a].parent \in Tree(a)

\* Deviation: what the payload leaves out is written too.
Applied_Whole(payload, row) == payload

\* A payload over a row.
Applied(payload, row) ==
    [f \in DOMAIN payload |-> IF payload[f] = Keep THEN row[f] ELSE payload[f]]

\* What a parent must be to its child, for the service and for the database.
Fits(row) ==
    row.parent # None =>
        /\ row.parent \in Existing
        /\ assets[row.parent].sector = row.sector
        /\ assets[row.parent].type \in Containers
        /\ row.type \in Contained

\* The triggers before the insertion or the update of a row, and its check that
\* it is not its own parent.  They look no further than the parent.
TriggersAccept(a, row) == Fits(row) /\ row.parent # a

-----------------------------------------------------------------------------
(***************************************************************************)
(* Requests.                                                               *)
(***************************************************************************)

Begin(r, flight) ==
    /\ requests[r] = None
    /\ operations < MaxOperations
    /\ operations' = operations + 1
    /\ requests' = [requests EXCEPT ![r] = flight]

\* What the others do not know, of the assets that a step writes and of those
\* among them that are new or have a new parent.
Others(written, newParent) ==
    [q \in Requests |->
        IF requests[q] = None THEN None
        ELSE LET f == requests[q] IN
             [f EXCEPT !.missed = @ \cup written,
                       !.moved = IF f.stage \in {"write", "commit"} THEN @ \cup newParent ELSE @,
                       !.late = @ \/ f.stage = "commit"]]

Ended(r, written, newParent) == [Others(written, newParent) EXCEPT ![r] = None]

\* An error: the request is refused, a trigger raises, or the process dies.
End(r) ==
    /\ requests[r] # None
    /\ requests' = [requests EXCEPT ![r] = None]
    /\ UNCHANGED <<assets, links, archived, activeColumn, operations, history>>

-----------------------------------------------------------------------------
(***************************************************************************)
(* One asset is created or updated.                                        *)
(***************************************************************************)

Free(a) ==
    a \notin Existing /\ \A q \in Requests : requests[q] # None =>
        requests[q].op # "create" \/ requests[q].on # a

Flight(op, stage, on, payload, target, moves, ids) ==
    [op |-> op, stage |-> stage, on |-> on, payload |-> payload, target |-> target,
     moves |-> moves, ids |-> ids, missed |-> {}, linked |-> FALSE, moved |-> {}, late |-> FALSE]

\* Neither the project nor the sector nor the parent need be listed.
StartCreate(r, a) ==
    /\ Free(a)
    /\ \E row \in Creates :
          /\ row.parent \in Existing \cup {None}
          /\ Begin(r, Flight("create", "parent", a, row, row, FALSE, {}))
    /\ UNCHANGED <<assets, links, archived, activeColumn, history>>

\* AssetService.update reads the row, which the rest goes by.
StartUpdate(r, a, payload) ==
    /\ a \in Existing
    /\ LET target == Applied(payload, assets[a])
       IN  Begin(r, Flight("update", "children", a, payload, target,
                           target.sector # assets[a].sector, {}))
    /\ UNCHANGED <<assets, links, archived, activeColumn, history>>

\* A statement of r that only reads, and what r does next.
Reads(r, from, to) ==
    /\ requests[r] # None
    /\ requests[r].stage = from
    /\ requests' = [requests EXCEPT ![r].stage = to]
    /\ UNCHANGED <<assets, links, archived, activeColumn, operations, history>>

\* An asset with children keeps its sector and a type that contains them.
ReadChildren(r) ==
    /\ Reads(r, "children", IF requests[r].moves THEN "links" ELSE "parent")
    /\ Children(requests[r].on) # {} =>
          requests[r].target.type \in Containers /\ ~requests[r].moves

\* Deviation: links that are inactive do not keep an asset in its sector.
ReadLinks_ActiveOnly(r) ==
    /\ Reads(r, "links", "parent")
    /\ links[requests[r].on] # None => ~links[requests[r].on].active

\* An asset with links to sectors keeps its sector.
ReadLinks(r) ==
    /\ Reads(r, "links", "parent")
    /\ links[requests[r].on] = None

\* The parent, the given one or the one that was read.
ReadParent(r) ==
    /\ Reads(r, "parent", IF requests[r].op = "update" /\ requests[r].target.parent # None
                          THEN "tree" ELSE "write")
    /\ Fits(requests[r].target)
    /\ requests[r].target.parent # requests[r].on

\* Deviation: the tree is not looked at.
ReadTree_Unchecked(r) == Reads(r, "tree", "write")

\* The tree under the asset, which the parent is not in.
ReadTree(r) ==
    /\ Reads(r, "tree", "write")
    /\ \A b \in Tree(requests[r].on) : ~OnCycle(b) /\ b # requests[r].target.parent

\* A row that a statement has updated, and not committed yet.
Locked(a) == \E q \in Requests :
    requests[q] # None /\ requests[q].stage = "commit" /\ requests[q].on = a

\* Deviation: what the service has validated is not validated again.
FireTriggers_AfterTheService(r) ==
    /\ Reads(r, "write", "commit")
    /\ ~Locked(requests[r].on)

\* The write waits for another of the row, and its triggers run.
FireTriggers(r) ==
    /\ Reads(r, "write", "commit")
    /\ LET a == requests[r].on
       IN  ~Locked(a) /\ TriggersAccept(a, Applied(requests[r].payload, assets[a]))

CommitWrite(r) ==
    /\ requests[r] # None
    /\ requests[r].stage = "commit"
    /\ LET a == requests[r].on
           row == Applied(requests[r].payload, assets[a])
       IN  /\ assets' = [assets EXCEPT ![a] = row]
           /\ requests' = Ended(r, {a}, IF a \in Existing /\ row.parent = assets[a].parent
                                        THEN {} ELSE {a})
           /\ crossed' = IF Children(a) \cap requests[r].missed # {}
                         THEN crossed \cup {a} ELSE crossed
           /\ skewed' = IF requests[r].late THEN skewed \cup {a} ELSE skewed
    /\ UNCHANGED <<links, archived, activeColumn, operations>>

\* bootstrapNodeWithDevices is one transaction, and its reads are of sectors
\* and of its own rows.
Bootstrap(node, device, s) ==
    /\ node # device /\ Free(node) /\ Free(device)
    /\ operations < MaxOperations
    /\ operations' = operations + 1
    /\ LET Row(type, parent) == [sector |-> s, parent |-> parent, type |-> type, listed |-> TRUE]
       IN  assets' = [assets EXCEPT ![node] = Row("node", None), ![device] = Row("device", node)]
    /\ links' = [links EXCEPT ![node] = [sector |-> s, active |-> TRUE]]
    /\ requests' = Others({node, device}, {node, device})
    /\ UNCHANGED <<archived, activeColumn, history>>

-----------------------------------------------------------------------------
(***************************************************************************)
(* Links of an asset with a sector, any sector of the project.             *)
(***************************************************************************)

\* A statement writes a link that was of one asset and is of another, maybe.
WriteLink(before, after, link) ==
    /\ operations < MaxOperations
    /\ operations' = operations + 1
    /\ links' = [links EXCEPT ![before] = None, ![after] = link]
    /\ requests' = [q \in Requests |->
          IF requests[q] = None THEN None
          ELSE [requests[q] EXCEPT !.linked = @ \/ requests[q].on \in {before, after}]]
    /\ UNCHANGED <<assets, archived, activeColumn, history>>

CreateLink(a, s) ==
    /\ a \in Existing /\ links[a] = None
    /\ WriteLink(a, a, [sector |-> s, active |-> TRUE])

\* TopologyService.update changes the status, the sector and the asset of a link.
UpdateLink(a, b, link) ==
    /\ links[a] # None /\ b \in Existing
    /\ b = a \/ links[b] = None
    /\ WriteLink(a, b, link)

\* The deletion, or a link with a sector becomes one between two assets.
DeleteLink(a) == links[a] # None /\ WriteLink(a, a, None)

-----------------------------------------------------------------------------
(***************************************************************************)
(* Cascades.                                                               *)
(***************************************************************************)

Sweep(op, on, ids) == Flight(op, "cascade", on, None, None, FALSE, ids)

\* Deviation: the children, not the tree.
StartDelete_Children(r, a) ==
    /\ a \in Existing
    /\ Begin(r, Sweep("delete", a, {a} \cup Children(a)))
    /\ UNCHANGED <<assets, links, archived, activeColumn, history>>

\* AssetService.deleteSafe: the tree is read in the transaction, which keeps
\* nobody from adding to it.
StartDelete(r, a) ==
    /\ a \in Existing
    /\ \A b \in Tree(a) : ~OnCycle(b)
    /\ Begin(r, Sweep("delete", a, Tree(a)))
    /\ UNCHANGED <<assets, links, archived, activeColumn, history>>

\* SectorService.softDelete reads the assets before its transaction begins.
StartSoftDelete(r, s) ==
    /\ Begin(r, Sweep("softDelete", s,
                      {a \in Existing : assets[a].sector = s /\ assets[a].listed}))
    /\ UNCHANGED <<assets, links, archived, activeColumn, history>>

\* ProjectService.update commits the status before its transaction begins,
\* whose statements find the rows of the project themselves.
StartArchive(r) ==
    /\ Begin(r, Sweep("archive", None, {}))
    /\ archived' = TRUE
    /\ UNCHANGED <<assets, links, activeColumn, history>>

\* A new status brings nothing back.
Reopen ==
    /\ archived
    /\ operations < MaxOperations
    /\ operations' = operations + 1
    /\ archived' = FALSE
    /\ UNCHANGED <<assets, links, requests, activeColumn, history>>

Swept(r) == IF requests[r].op = "archive" THEN Existing ELSE requests[r].ids

\* The first update of assets names is_active.  In a table without the column
\* it raises, and the statement to fall back to runs in a transaction that is
\* aborted already: only a sector without listed assets gets past that.
CanUpdate(r) == activeColumn \/ (requests[r].op = "softDelete" /\ requests[r].ids = {})

\* The transaction of a cascade.  Every row it updates passes its triggers, or
\* nothing is written.
Cascade(r) ==
    /\ requests[r] # None
    /\ requests[r].stage = "cascade"
    /\ CanUpdate(r)
    /\ \A a \in Swept(r) : ~Locked(a) /\ Fits(assets[a])
    /\ assets' = [a \in Assets |-> IF a \in Swept(r)
                                   THEN [assets[a] EXCEPT !.listed = FALSE] ELSE assets[a]]
    /\ links' = [a \in Assets |->
          IF links[a] # None /\ (a \in Swept(r) \/ links[a].sector = requests[r].on)
          THEN [links[a] EXCEPT !.active = FALSE] ELSE links[a]]
    /\ requests' = Ended(r, Swept(r), {})
    /\ UNCHANGED <<archived, activeColumn, operations, history>>

RequestStep(r) ==
    \/ ReadChildren(r) \/ ReadLinks(r) \/ ReadParent(r) \/ ReadTree(r)
    \/ FireTriggers(r) \/ CommitWrite(r) \/ Cascade(r) \/ End(r)
    \/ StartArchive(r)
    \/ \E s \in Sectors : StartSoftDelete(r, s)
    \/ \E a \in Assets :
          \/ StartCreate(r, a) \/ StartDelete(r, a)
          \/ \E payload \in Updates : StartUpdate(r, a, payload)

LinkStep(a) ==
    \/ DeleteLink(a)
    \/ \E s \in Sectors : CreateLink(a, s)
    \/ \E b \in Assets, link \in Links : UpdateLink(a, b, link)

Next ==
    \/ \E r \in Requests : RequestStep(r)
    \/ \E a \in Assets : LinkStep(a)
    \/ \E a, b \in Assets, s \in Sectors : Bootstrap(a, b, s)
    \/ Reopen

Spec == Init /\ [][Next]_vars

-----------------------------------------------------------------------------
(***************************************************************************)
(* Properties.                                                             *)
(***************************************************************************)

\* No constraint of the schema keeps a parent chain from being a cycle, on which
\* the recursive queries never end.  An update still closes one only in a race:
\* another asset of the cycle is new or was given its parent after the update
\* had read the tree under its own asset.
CycleTakesRace ==
    [][\A a \in Assets :
          OnCycle(a)' /\ ~(a \in Existing /\ assets'[a].parent = assets[a].parent) =>
              \E r \in Requests :
                  /\ CommitWrite(r) /\ requests[r].op = "update" /\ requests[r].on = a
                  /\ \E b \in requests[r].moved \ {a} : b \in Tree(a)' /\ a \in Tree(b)']_vars

\* A child that does not fit its parent (another sector, a type that contains
\* nothing), which no cascade can write any more, comes of an update of the
\* parent that did not see the child yet, or of a skewed write of the child:
\* the triggers keep the child's side, and nothing keeps the parent's.
MisfitTakesRace ==
    \A c \in Existing : ~Fits(assets[c]) => c \in skewed \/ assets[c].parent \in crossed

\* A cascade leaves no asset of its scope listed and no link of one active, but
\* those that another request wrote since its own reads, for the deletion of an
\* asset with what is under them; and no link with the sector stays active.
CascadeReachesAll ==
    [][\A r \in Requests : Cascade(r) =>
          LET f == requests[r]
              Scope == CASE f.op = "delete" -> Tree(f.on)
                         [] f.op = "softDelete" ->
                               {a \in Existing : assets[a].sector = f.on /\ assets[a].listed}
                         [] OTHER -> Existing
              Off(a) == ~assets'[a].listed /\ (links'[a] # None => ~links'[a].active)
          IN  /\ \A a \in Scope :
                    Off(a) \/ \E m \in f.missed : a = m \/ (f.op = "delete" /\ a \in Tree(m))
              /\ \A a \in Assets : links[a] # None /\ links[a].sector = f.on =>
                    ~links'[a].active]_vars

\* An asset leaves its sector without children and without a link to a sector,
\* or one of those, or the asset itself, was written while its update was under
\* way.
SectorMoveIsClean ==
    [][\A a \in Existing : assets'[a].sector # assets[a].sector =>
          \/ Children(a) = {} /\ links[a] = None
          \/ \E r \in Requests :
                /\ requests[r] # None /\ requests[r].op = "update" /\ requests[r].on = a
                /\ \/ requests[r].linked
                   \/ requests[r].missed \cap ({a} \cup Children(a)) # {}]_vars
=============================================================================
