------------------------- MODULE AssetHierarchyProofs -------------------------
(***************************************************************************)
(* Proofs about AssetHierarchy.  Trees first, as facts about any function  *)
(* that gives an asset its parent; then what a step does to the rows and to*)
(* the requests in flight; then the invariants, one at a time.             *)
(***************************************************************************)
EXTENDS AssetHierarchy, TLAPS

-----------------------------------------------------------------------------
(***************************************************************************)
(* Trees.                                                                  *)
(***************************************************************************)

Closed(up, S) == \A c \in Assets : up[c] \in S => c \in S

\* The assets under a, and a itself, where up gives the parents.
Below(up, a) == {b \in Assets : \A S \in SUBSET Assets : a \in S /\ Closed(up, S) => b \in S}

\* What is below an asset is the least closed set that contains it.
LEMMA BelowIsLeast ==
    ASSUME NEW up, NEW a \in Assets
    PROVE  /\ a \in Below(up, a)
           /\ Below(up, a) \subseteq Assets
           /\ Closed(up, Below(up, a))
           /\ \A S \in SUBSET Assets : a \in S /\ Closed(up, S) => Below(up, a) \subseteq S
<1>1. a \in Below(up, a) /\ Below(up, a) \subseteq Assets
  BY DEF Below
<1>2. \A S \in SUBSET Assets : a \in S /\ Closed(up, S) => Below(up, a) \subseteq S
  BY DEF Below
<1>3. ASSUME NEW c \in Assets, up[c] \in Below(up, a)
      PROVE  c \in Below(up, a)
  <2>1. ASSUME NEW S \in SUBSET Assets, a \in S, Closed(up, S)
        PROVE  c \in S
    BY <1>3, <2>1 DEF Below, Closed
  <2> QED BY <2>1 DEF Below
<1> QED BY <1>1, <1>2, <1>3 DEF Closed

\* What is below an asset contains what is below its members.
LEMMA BelowIsTransitive ==
    ASSUME NEW up, NEW a \in Assets, NEW b \in Below(up, a)
    PROVE  Below(up, b) \subseteq Below(up, a)
BY BelowIsLeast

\* Two parent functions that agree on all but one asset give it the same
\* assets below it, and every other one the same but for those.
LEMMA OneNewParent ==
    ASSUME NEW up, NEW vp, NEW b \in Assets, NEW x \in Assets,
           \A c \in Assets : c # b => vp[c] = up[c]
    PROVE  /\ Below(vp, x) \subseteq Below(up, x) \cup Below(vp, b)
           /\ Below(up, b) \subseteq Below(vp, b)
<1>1. Below(vp, x) \subseteq Below(up, x) \cup Below(vp, b)
  <2> DEFINE S == Below(up, x) \cup Below(vp, b)
  <2>1. x \in S /\ b \in S /\ S \in SUBSET Assets
    BY BelowIsLeast
  <2>2. ASSUME NEW c \in Assets, vp[c] \in S
        PROVE  c \in S
    <3>1. CASE c = b
      BY <2>1, <3>1
    <3>2. CASE vp[c] \in Below(vp, b)
      BY <3>2, BelowIsLeast DEF Closed
    <3>3. CASE vp[c] \in Below(up, x) /\ c # b
      <4>1. up[c] \in Below(up, x)
        BY <3>3
      <4> QED BY <4>1, BelowIsLeast DEF Closed
    <3> QED BY <2>2, <3>1, <3>2, <3>3
  <2>3. Closed(vp, S)
    BY <2>2 DEF Closed
  <2> QED BY <2>1, <2>3, BelowIsLeast
<1>2. Below(up, b) \subseteq Below(vp, b)
  <2>1. ASSUME NEW c \in Assets, up[c] \in Below(vp, b)
        PROVE  c \in Below(vp, b)
    <3>1. CASE c = b
      BY <3>1, BelowIsLeast
    <3>2. CASE c # b
      <4>1. vp[c] \in Below(vp, b)
        BY <2>1, <3>2
      <4> QED BY <4>1, BelowIsLeast DEF Closed
    <3> QED BY <3>1, <3>2
  <2>2. Closed(up, Below(vp, b))
    BY <2>1 DEF Closed
  <2> QED BY <2>2, BelowIsLeast
<1> QED BY <1>1, <1>2

LEMMA SameBelow ==
    ASSUME NEW up, NEW vp, NEW b \in Assets,
           \A c \in Assets : c # b => vp[c] = up[c]
    PROVE  /\ Below(vp, b) = Below(up, b)
           /\ \A x \in Assets : Below(vp, x) \subseteq Below(up, x) \cup Below(up, b)
           /\ \A x \in Assets : Below(up, x) \subseteq Below(vp, x) \cup Below(up, b)
<1>1. \A x \in Assets : /\ Below(vp, x) \subseteq Below(up, x) \cup Below(vp, b)
                        /\ Below(up, b) \subseteq Below(vp, b)
  BY OneNewParent
<1>2. \A c \in Assets : c # b => up[c] = vp[c]
  OBVIOUS
<1>3. \A x \in Assets : /\ Below(up, x) \subseteq Below(vp, x) \cup Below(up, b)
                        /\ Below(vp, b) \subseteq Below(up, b)
  BY <1>2, OneNewParent
<1> QED BY <1>1, <1>3

\* The parents, those of the assets in M forgotten.
Kept(up, M) == [c \in Assets |-> IF c \in M THEN None ELSE up[c]]

\* What is below an asset with some parents forgotten is below it, whatever
\* their parents are.
LEMMA KeptBelow ==
    ASSUME NEW up, NEW vp, NEW M, NEW x \in Assets,
           \A c \in Assets : c \notin M => vp[c] = up[c]
    PROVE  Below(Kept(up, M), x) \subseteq Below(vp, x)
<1>1. x \in Below(vp, x) /\ Below(vp, x) \in SUBSET Assets /\ Closed(vp, Below(vp, x))
  BY BelowIsLeast
<1>2. ASSUME NEW c \in Assets, Kept(up, M)[c] \in Below(vp, x)
      PROVE  c \in Below(vp, x)
  <2>1. c \notin M
    BY <1>1, <1>2, HierarchyAssumption DEF Kept
  <2>2. vp[c] \in Below(vp, x)
    BY <1>2, <2>1 DEF Kept
  <2> QED BY <1>1, <2>2 DEF Closed
<1>3. Closed(Kept(up, M), Below(vp, x))
  BY <1>2 DEF Closed
<1> QED BY <1>1, <1>3, BelowIsLeast

\* What is below an asset, and is not with the parents of M forgotten, is below
\* a member of M that is there too.
LEMMA BelowThroughForgotten ==
    ASSUME NEW up, NEW M, NEW a \in Assets, NEW p \in Below(up, a), p \notin Below(Kept(up, M), a)
    PROVE  \E b \in M \ {a} : b \in Below(up, a) /\ p \in Below(Kept(up, {a}), b)
<1> DEFINE U == {b \in Below(up, a) : b \in M /\ b # a}
           S == {x \in Assets : \/ x \in Below(Kept(up, M), a)
                                \/ \E b \in U : x \in Below(Kept(up, {a}), b)}
<1>1. a \in S /\ S \in SUBSET Assets /\ U \subseteq Assets
  BY BelowIsLeast
<1>2. S \subseteq Below(up, a)
  <2>1. Below(Kept(up, M), a) \subseteq Below(up, a)
    BY KeptBelow
  <2>2. ASSUME NEW b \in U
        PROVE  Below(Kept(up, {a}), b) \subseteq Below(up, a)
    <3>1. b \in Assets /\ b \in Below(up, a)
      BY <1>1
    <3>2. Below(Kept(up, {a}), b) \subseteq Below(up, b)
      BY <3>1, KeptBelow
    <3> QED BY <3>1, <3>2, BelowIsTransitive
  <2> QED BY <2>1, <2>2
<1>3. ASSUME NEW c \in Assets, up[c] \in S
      PROVE  c \in S
  <2>1. c \in Below(up, a)
    BY <1>2, <1>3, BelowIsLeast DEF Closed
  <2>2. CASE c = a
    BY <1>1, <2>2
  <2>3. CASE c \in M /\ c # a
    <3>1. c \in U /\ c \in Below(Kept(up, {a}), c)
      BY <2>1, <2>3, BelowIsLeast
    <3> QED BY <3>1
  <2>4. CASE c \notin M /\ c # a /\ up[c] \in Below(Kept(up, M), a)
    <3>1. Kept(up, M)[c] = up[c]
      BY <2>4 DEF Kept
    <3>2. c \in Below(Kept(up, M), a)
      BY <2>4, <3>1, BelowIsLeast DEF Closed
    <3> QED BY <3>2
  <2>5. ASSUME c \notin M, c # a, NEW b \in U, up[c] \in Below(Kept(up, {a}), b)
        PROVE  c \in S
    <3>1. Kept(up, {a})[c] = up[c] /\ b \in Assets
      BY <1>1, <2>5 DEF Kept
    <3>2. c \in Below(Kept(up, {a}), b)
      BY <2>5, <3>1, BelowIsLeast DEF Closed
    <3> QED BY <3>2
  <2> QED BY <1>3, <2>2, <2>3, <2>4, <2>5
<1>4. Closed(up, S)
  BY <1>3 DEF Closed
<1>5. Below(up, a) \subseteq S
  <2> HIDE DEF S
  <2> QED BY <1>1, <1>4, BelowIsLeast
<1>6. p \in S
  BY <1>5
<1> QED BY <1>6

\* An asset that is nobody's parent is alone in its tree.
LEMMA AloneBelow ==
    ASSUME NEW up, NEW a \in Assets, \A c \in Assets : up[c] # a
    PROVE  Below(up, a) = {a}
<1>1. Closed(up, {a})
  BY DEF Closed
<1> QED BY <1>1, BelowIsLeast

\* The parents of the assets, for what is said above of trees.
Parent == [c \in Assets |-> IF c \in Existing THEN assets[c].parent ELSE None]

LEMMA TreeIsBelow ==
    ASSUME NEW a \in Assets
    PROVE  Tree(a) = Below(Parent, a)
<1>1. ASSUME NEW S \in SUBSET Assets
      PROVE  Closed(Parent, S) <=> \A c \in Existing : assets[c].parent \in S => c \in S
  BY HierarchyAssumption DEF Closed, Parent, Existing
<1> QED BY <1>1 DEF Tree, Below

LEMMA TreeIsBelowNext ==
    ASSUME NEW a \in Assets
    PROVE  Tree(a)' = Below(Parent', a)
<1>1. ASSUME NEW S \in SUBSET Assets
      PROVE  Closed(Parent', S) <=> \A c \in Existing' : assets'[c].parent \in S => c \in S
  BY HierarchyAssumption DEF Closed, Parent, Existing
<1> QED BY <1>1 DEF Tree, Below

-----------------------------------------------------------------------------
(***************************************************************************)
(* Payloads and rows.                                                      *)
(***************************************************************************)

\* A payload over a row keeps of the row what the payload does not mention.
LEMMA AppliedFields ==
    ASSUME NEW payload \in Payloads, NEW row \in Rows
    PROVE  /\ Applied(payload, row) \in Rows
           /\ Applied(payload, row).sector = IF payload.sector = Keep THEN row.sector ELSE payload.sector
           /\ Applied(payload, row).parent = IF payload.parent = Keep THEN row.parent ELSE payload.parent
           /\ Applied(payload, row).type = IF payload.type = Keep THEN row.type ELSE payload.type
           /\ Applied(payload, row).listed = IF payload.listed = Keep THEN row.listed ELSE payload.listed
<1>1. DOMAIN payload = {"sector", "parent", "type", "listed"}
  BY DEF Payloads
<1> DEFINE over == [f \in {"sector", "parent", "type", "listed"} |->
                      IF payload[f] = Keep THEN row[f] ELSE payload[f]]
<1>2. Applied(payload, row) = over
  BY <1>1 DEF Applied
<1>3. /\ over.sector = IF payload.sector = Keep THEN row.sector ELSE payload.sector
      /\ over.parent = IF payload.parent = Keep THEN row.parent ELSE payload.parent
      /\ over.type = IF payload.type = Keep THEN row.type ELSE payload.type
      /\ over.listed = IF payload.listed = Keep THEN row.listed ELSE payload.listed
  OBVIOUS
<1>4. over \in Rows
  <2>1. /\ over.sector \in Sectors /\ over.parent \in Assets \cup {None}
        /\ over.type \in AssetTypes /\ over.listed \in BOOLEAN
    BY <1>3 DEF Payloads, Rows
  <2>2. over = [sector |-> over.sector, parent |-> over.parent, type |-> over.type, listed |-> over.listed]
    OBVIOUS
  <2> QED BY <2>1, <2>2 DEF Rows
<1> QED BY <1>2, <1>3, <1>4

\* A create mentions everything.
LEMMA AppliedWhole ==
    ASSUME NEW payload \in Rows, NEW row
    PROVE  Applied(payload, row) = payload
<1>1. DOMAIN payload = {"sector", "parent", "type", "listed"}
  BY DEF Rows
<1>2. \A f \in DOMAIN payload : payload[f] # Keep
  BY <1>1, HierarchyAssumption DEF Rows
<1>3. payload = [f \in DOMAIN payload |-> payload[f]]
  BY DEF Rows
<1> QED BY <1>2, <1>3 DEF Applied

LEMMA RowsArePayloads == Rows \subseteq Payloads
BY DEF Rows, Payloads

-----------------------------------------------------------------------------
(***************************************************************************)
(* What kinds of flight there are: a create of an asset that is not there  *)
(* yet, an update of one that is, a sweep.                                 *)
(***************************************************************************)

FlightFits(f) ==
    /\ f.op \in {"create", "update"} =>
          f.stage # "cascade" /\ f.on \in Assets /\ f.target \in Rows
    /\ f.op \in {"delete", "softDelete", "archive"} => f.stage = "cascade"
    /\ f.op = "create" => f.on \notin Existing /\ f.payload \in Rows
    /\ f.op = "update" =>
          /\ f.on \in Existing /\ f.payload \in Payloads
          /\ f.payload.type # Keep => f.target.type = f.payload.type
          /\ f.payload.parent # Keep => f.target.parent = f.payload.parent
    /\ f.op = "delete" => f.on \in Existing
    /\ f.stage = "commit" => f.payload.parent \in (Existing \ {f.on}) \cup {None, Keep}
    /\ f.ids \subseteq Existing

FlightsFit == \A q \in Requests : requests[q] # None => FlightFits(requests[q])

\* Two creates in flight are of two assets.
CreatesApart == \A q, r \in Requests :
    /\ requests[q] # None /\ requests[r] # None
    /\ requests[q].op = "create" /\ requests[r].op = "create"
    /\ requests[q].on = requests[r].on
    => q = r

\* Nothing takes a row away, so a parent is there; no row is its own.
ParentsExist == \A c \in Existing : assets[c].parent \in (Existing \ {c}) \cup {None}

TypeInv == HierarchyTypeOK /\ FlightsFit /\ CreatesApart /\ ParentsExist

-----------------------------------------------------------------------------
(***************************************************************************)
(* What a step does to the rows.                                           *)
(***************************************************************************)

LEMMA RowsStep ==
    ASSUME Next
    PROVE  \/ assets' = assets /\ UNCHANGED <<crossed, skewed>>
           \/ \E r \in Requests : CommitWrite(r)
           \/ \E r \in Requests : Cascade(r)
           \/ \E a, b \in Assets, s \in Sectors : Bootstrap(a, b, s)
BY DEF Next, RequestStep, LinkStep, ReadChildren, ReadLinks, ReadParent, ReadTree, FireTriggers,
       Reads, End, StartArchive, StartSoftDelete, StartCreate, StartDelete, StartUpdate,
       CreateLink, UpdateLink, DeleteLink, WriteLink, Reopen, history

\* The row that a request writes.
Written(r) == Applied(requests[r].payload, assets[requests[r].on])

\* A write of a row in time was accepted as it is.
LEMMA WrittenRow ==
    ASSUME TypeInv, NEW r \in Requests, requests[r] # None, requests[r].stage \in {"write", "commit"}
    PROVE  /\ requests[r].on \in Assets
           /\ Written(r) \in Rows
           /\ requests[r].op \in {"create", "update"}
           /\ requests[r].op = "create" =>
                requests[r].on \notin Existing /\ Written(r) = requests[r].payload
           /\ requests[r].op = "update" =>
                /\ requests[r].on \in Existing
                /\ LET row == assets[requests[r].on]
                       payload == requests[r].payload
                   IN  /\ Written(r).sector = IF payload.sector = Keep THEN row.sector ELSE payload.sector
                       /\ Written(r).parent = IF payload.parent = Keep THEN row.parent ELSE payload.parent
                       /\ Written(r).type = IF payload.type = Keep THEN row.type ELSE payload.type
           /\ requests[r].stage = "commit" =>
                Written(r).parent \in (Existing \ {requests[r].on}) \cup {None}
<1> DEFINE f == requests[r]
<1>1. f \in Flights /\ FlightFits(f)
  BY DEF TypeInv, HierarchyTypeOK, FlightsFit
<1>2. f.op \in {"create", "update"} /\ f.on \in Assets
  BY <1>1 DEF FlightFits, Flights
<1>3. CASE f.op = "create"
  <2>1. f.on \notin Existing /\ f.payload \in Rows
    BY <1>1, <1>3 DEF FlightFits
  <2>2. Written(r) = f.payload
    BY <2>1, AppliedWhole DEF Written
  <2>3. f.payload.parent # Keep
    BY <2>1, HierarchyAssumption DEF Rows
  <2> QED BY <1>1, <1>2, <1>3, <2>1, <2>2, <2>3 DEF FlightFits
<1>4. CASE f.op = "update"
  <2>1. f.on \in Existing /\ f.payload \in Payloads
    BY <1>1, <1>4 DEF FlightFits
  <2>2. assets[f.on] \in Rows
    BY <2>1 DEF Existing, TypeInv, HierarchyTypeOK
  <2>3. /\ Written(r) \in Rows
        /\ Written(r).sector = IF f.payload.sector = Keep THEN assets[f.on].sector ELSE f.payload.sector
        /\ Written(r).parent = IF f.payload.parent = Keep THEN assets[f.on].parent ELSE f.payload.parent
        /\ Written(r).type = IF f.payload.type = Keep THEN assets[f.on].type ELSE f.payload.type
    BY <2>1, <2>2, AppliedFields DEF Written
  <2>4. assets[f.on].parent \in (Existing \ {f.on}) \cup {None}
    BY <2>1 DEF TypeInv, ParentsExist
  <2>5. f.stage = "commit" => Written(r).parent \in (Existing \ {f.on}) \cup {None}
    BY <1>1, <2>3, <2>4 DEF FlightFits
  <2> QED BY <1>2, <1>4, <2>1, <2>3, <2>5
<1> QED BY <1>2, <1>3, <1>4

LEMMA Committed ==
    ASSUME TypeInv, NEW r \in Requests, CommitWrite(r)
    PROVE  /\ assets' \in [Assets -> Rows \cup {None}]
           /\ assets'[requests[r].on] = Written(r)
           /\ \A a \in Assets : a # requests[r].on => assets'[a] = assets[a]
           /\ Existing' = Existing \cup {requests[r].on}
           /\ links' = links
           /\ requests'[r] = None
           /\ \A a \in Assets : a # requests[r].on => Parent'[a] = Parent[a]
           /\ Parent'[requests[r].on] = Written(r).parent
<1>1. requests[r].on \in Assets /\ Written(r) \in Rows
  BY WrittenRow DEF CommitWrite
<1>2. assets' = [assets EXCEPT ![requests[r].on] = Written(r)] /\ links' = links
  BY <1>1 DEF CommitWrite, Written, TypeInv, HierarchyTypeOK
<1>3. requests'[r] = None
  BY DEF CommitWrite, Ended, Others
<1>4. Written(r) # None
  BY <1>1, HierarchyAssumption
<1>5. /\ assets' \in [Assets -> Rows \cup {None}]
      /\ assets'[requests[r].on] = Written(r)
      /\ \A a \in Assets : a # requests[r].on => assets'[a] = assets[a]
  BY <1>1, <1>2 DEF TypeInv, HierarchyTypeOK
<1>6. Existing' = Existing \cup {requests[r].on}
  BY <1>1, <1>4, <1>5 DEF Existing
<1> QED BY <1>1, <1>2, <1>3, <1>5, <1>6 DEF Parent

\* A cascade changes no row but for its being listed.
LEMMA Cascaded ==
    ASSUME TypeInv, NEW r \in Requests, Cascade(r)
    PROVE  /\ assets' \in [Assets -> Rows \cup {None}]
           /\ Existing' = Existing
           /\ Parent' = Parent
           /\ UNCHANGED <<crossed, skewed>>
           /\ \A a \in Existing :
                 /\ assets'[a].sector = assets[a].sector
                 /\ assets'[a].parent = assets[a].parent
                 /\ assets'[a].type = assets[a].type
                 /\ assets'[a].listed => assets[a].listed /\ a \notin Swept(r)
           /\ \A a \in Swept(r) : links'[a] # None => ~links'[a].active
           /\ \A a \in Assets : links[a] # None /\ links[a].sector = requests[r].on => ~links'[a].active
<1>1. Swept(r) \subseteq Existing
  BY DEF Swept, TypeInv, FlightsFit, FlightFits, Cascade
<1>2. assets' = [a \in Assets |-> IF a \in Swept(r)
                                  THEN [assets[a] EXCEPT !.listed = FALSE] ELSE assets[a]]
      /\ UNCHANGED <<crossed, skewed>>
  BY DEF Cascade, history
<1>3. ASSUME NEW a \in Existing
      PROVE  /\ assets'[a] \in Rows
             /\ assets'[a].sector = assets[a].sector
             /\ assets'[a].parent = assets[a].parent
             /\ assets'[a].type = assets[a].type
             /\ assets'[a].listed => assets[a].listed /\ a \notin Swept(r)
  <2>1. a \in Assets /\ assets[a] \in Rows
    BY DEF Existing, TypeInv, HierarchyTypeOK
  <2>2. CASE a \in Swept(r)
    <3>1. assets'[a] = [assets[a] EXCEPT !.listed = FALSE]
      BY <1>2, <2>1, <2>2
    <3> QED BY <2>1, <3>1 DEF Rows
  <2>3. CASE a \notin Swept(r)
    BY <1>2, <2>1, <2>3
  <2> QED BY <2>2, <2>3
<1>4. \A a \in Assets : a \notin Existing => assets'[a] = None
  BY <1>1, <1>2 DEF Existing
<1>5. Existing' = Existing
  BY <1>3, <1>4, HierarchyAssumption DEF Existing
<1>6. assets' \in [Assets -> Rows \cup {None}]
  BY <1>2, <1>3, <1>4
<1>7. Parent' = Parent
  BY <1>3, <1>5 DEF Parent
<1>8. ASSUME NEW a \in Assets, links[a] # None, a \in Swept(r) \/ links[a].sector = requests[r].on
      PROVE  ~links'[a].active
  <2>1. links[a] \in Links
    BY <1>8 DEF TypeInv, HierarchyTypeOK
  <2>2. links'[a] = [links[a] EXCEPT !.active = FALSE]
    BY <1>8 DEF Cascade
  <2> QED BY <2>1, <2>2 DEF Links
<1>9. \A a \in Swept(r) : links'[a] # None => links[a] # None
  BY <1>1 DEF Cascade, Existing
<1>10. Swept(r) \subseteq Assets
  BY <1>1 DEF Existing
<1> QED BY <1>2, <1>3, <1>5, <1>6, <1>7, <1>8, <1>9, <1>10

\* The two rows of a provisioning.
LEMMA Bootstrapped ==
    ASSUME TypeInv, NEW node \in Assets, NEW device \in Assets, NEW s \in Sectors,
           Bootstrap(node, device, s)
    PROVE  /\ node # device /\ node \notin Existing /\ device \notin Existing
           /\ assets' \in [Assets -> Rows \cup {None}]
           /\ assets'[node].parent = None
           /\ assets'[node].sector = s /\ assets'[node].type = "node"
           /\ assets'[device].parent = node
           /\ assets'[device].sector = s /\ assets'[device].type = "device"
           /\ \A a \in Assets : a \notin {node, device} => assets'[a] = assets[a]
           /\ Existing' = Existing \cup {node, device}
           /\ \A a \in Assets : a # device => Parent'[a] = Parent[a]
           /\ Parent'[device] = node
           /\ UNCHANGED <<crossed, skewed>>
<1> DEFINE Row(type, parent) == [sector |-> s, parent |-> parent, type |-> type, listed |-> TRUE]
<1>1. node # device /\ node \notin Existing /\ device \notin Existing
      /\ UNCHANGED <<crossed, skewed>>
  BY DEF Bootstrap, Free, history
<1>2. assets' = [assets EXCEPT ![node] = Row("node", None), ![device] = Row("device", node)]
  BY DEF Bootstrap
<1>3. Row("node", None) \in Rows /\ Row("device", node) \in Rows
  BY DEF Rows, AssetTypes, Containers, Contained
<1>4. assets'[node] = Row("node", None) /\ assets'[device] = Row("device", node)
      /\ \A a \in Assets : a \notin {node, device} => assets'[a] = assets[a]
  BY <1>1, <1>2 DEF TypeInv, HierarchyTypeOK
<1>5. assets' \in [Assets -> Rows \cup {None}]
  BY <1>2, <1>3 DEF TypeInv, HierarchyTypeOK
<1>6. Existing' = Existing \cup {node, device}
  BY <1>3, <1>4, HierarchyAssumption DEF Existing
<1>7. \A a \in Assets : a \notin {node, device} => Parent'[a] = Parent[a]
  BY <1>4, <1>6 DEF Parent
<1>8. Parent'[node] = None /\ Parent[node] = None /\ Parent'[device] = node
  BY <1>1, <1>4, <1>6 DEF Parent
<1> QED BY <1>1, <1>4, <1>5, <1>6, <1>7, <1>8

-----------------------------------------------------------------------------
(***************************************************************************)
(* What a step does to a request in flight.  It begins, or it goes on: it  *)
(* keeps what it read, it is told of every row and every link that is      *)
(* written, and its triggers are late once a row is written after them.    *)
(***************************************************************************)

Began(q) ==
    /\ requests[q] = None
    /\ assets' = assets /\ links' = links
    /\ UNCHANGED <<crossed, skewed>>
    /\ \A r \in Requests : r # q => requests'[r] = requests[r]
    /\ \/ \E a \in Assets, row \in Creates :
             /\ Free(a) /\ row.parent \in Existing \cup {None}
             /\ requests'[q] = Flight("create", "parent", a, row, row, FALSE, {})
       \/ \E a \in Existing, payload \in Updates :
             requests'[q] = Flight("update", "children", a, payload, Applied(payload, assets[a]),
                                   Applied(payload, assets[a]).sector # assets[a].sector, {})
       \/ \E a \in Existing : requests'[q] = Sweep("delete", a, Tree(a))
       \/ \E s \in Sectors : requests'[q] =
             Sweep("softDelete", s, {a \in Existing : assets[a].sector = s /\ assets[a].listed})
       \/ requests'[q] = Sweep("archive", None, {})

Tells(f, g) ==
    /\ f.missed \subseteq g.missed
    /\ \A a \in Assets : assets'[a] # assets[a] => a \in g.missed
    /\ f.linked => g.linked
    /\ \A a \in Assets : f.on = a /\ links[a] = None /\ links'[a] # None => g.linked \/ a \in g.missed
    /\ f.stage \in {"write", "commit"} =>
          f.moved \subseteq g.moved /\ \A a \in Assets : Parent'[a] # Parent[a] => a \in g.moved
    /\ f.late => g.late
    /\ f.stage = "commit" /\ assets' # assets => g.late

\* What a request finds before its next stage.
Finds(f, stage) ==
    \/ /\ f.stage = "children" /\ stage = IF f.moves THEN "links" ELSE "parent"
       /\ Children(f.on) # {} => f.target.type \in Containers /\ ~f.moves
    \/ f.stage = "links" /\ stage = "parent" /\ links[f.on] = None
    \/ /\ f.stage = "parent" /\ stage \in {"tree", "write"}
       /\ f.op = "update" /\ stage = "write" => f.target.parent = None
    \/ f.stage = "tree" /\ stage = "write" /\ f.target.parent \notin Tree(f.on)
    \/ /\ f.stage = "write" /\ stage = "commit"
       /\ TriggersAccept(f.on, Applied(f.payload, assets[f.on]))

Advances(f, g) ==
    \/ g.stage = f.stage
    \/ Finds(f, g.stage) /\ assets' = assets /\ links' = links

Continues(f, g) ==
    /\ g \in Flights
    /\ g.op = f.op /\ g.on = f.on /\ g.payload = f.payload
    /\ g.target = f.target /\ g.moves = f.moves /\ g.ids = f.ids
    /\ Advances(f, g)
    /\ Tells(f, g)

LEMMA SameParents ==
    ASSUME assets' = assets
    PROVE  Parent' = Parent
BY DEF Parent, Existing

\* A request goes on when it is told of the rows that are written.
LEMMA ToldContinues ==
    ASSUME NEW f \in Flights, NEW written \in SUBSET Assets, NEW newParent \in SUBSET Assets,
           \A a \in Assets \ written : assets'[a] = assets[a],
           \A a \in Assets \ written : links[a] = None => links'[a] = None,
           \A a \in Assets \ newParent : Parent'[a] = Parent[a],
           NEW g, g = [f EXCEPT !.missed = @ \cup written,
                                !.moved = IF f.stage \in {"write", "commit"} THEN @ \cup newParent ELSE @,
                                !.late = @ \/ f.stage = "commit"]
    PROVE  Continues(f, g)
<1>1. /\ g.op = f.op /\ g.on = f.on /\ g.payload = f.payload /\ g.stage = f.stage
      /\ g.target = f.target /\ g.moves = f.moves /\ g.ids = f.ids
      /\ g.missed = f.missed \cup written /\ g.linked = f.linked
      /\ g.moved = IF f.stage \in {"write", "commit"} THEN f.moved \cup newParent ELSE f.moved
      /\ g.late = (f.late \/ f.stage = "commit")
  BY DEF Flights
<1>2. g \in Flights
  <2>1. f.late \in BOOLEAN /\ f.missed \in SUBSET Assets /\ f.moved \in SUBSET Assets
    BY DEF Flights
  <2>2. /\ f.missed \cup written \in SUBSET Assets /\ (f.late \/ f.stage = "commit") \in BOOLEAN
        /\ (IF f.stage \in {"write", "commit"} THEN f.moved \cup newParent ELSE f.moved) \in SUBSET Assets
    BY <2>1
  <2> QED BY <2>2 DEF Flights
<1>3. Tells(f, g)
  <2>1. f.missed \subseteq g.missed /\ \A a \in Assets : assets'[a] # assets[a] => a \in g.missed
    BY <1>1
  <2>2. \A a \in Assets : f.on = a /\ links[a] = None /\ links'[a] # None => g.linked \/ a \in g.missed
    BY <1>1
  <2>3. f.stage \in {"write", "commit"} =>
            f.moved \subseteq g.moved /\ \A a \in Assets : Parent'[a] # Parent[a] => a \in g.moved
    BY <1>1
  <2>4. (f.linked => g.linked) /\ (f.late => g.late) /\ (f.stage = "commit" => g.late)
    BY <1>1
  <2> QED BY <2>1, <2>2, <2>3, <2>4 DEF Tells
<1> QED BY <1>1, <1>2, <1>3 DEF Continues, Advances

\* A link that is written has no row written.
LEMMA ToldOfLinkContinues ==
    ASSUME NEW f \in Flights, NEW ends \in SUBSET Assets, assets' = assets,
           \A b \in Assets \ ends : links'[b] = links[b],
           NEW g, g = [f EXCEPT !.linked = @ \/ f.on \in ends]
    PROVE  Continues(f, g)
<1>1. /\ g.op = f.op /\ g.on = f.on /\ g.payload = f.payload /\ g.stage = f.stage
      /\ g.target = f.target /\ g.moves = f.moves /\ g.ids = f.ids
      /\ g.missed = f.missed /\ g.linked = (f.linked \/ f.on \in ends)
      /\ g.moved = f.moved /\ g.late = f.late
  BY DEF Flights
<1>2. g \in Flights
  <2>1. (f.linked \/ f.on \in ends) \in BOOLEAN
    BY DEF Flights
  <2> QED BY <2>1 DEF Flights
<1>3. Parent' = Parent
  BY SameParents
<1>4. Tells(f, g)
  BY <1>1, <1>3 DEF Tells
<1> QED BY <1>1, <1>2, <1>4 DEF Continues, Advances

\* A request goes on when no row is written and it advances.
LEMMA AdvancedContinues ==
    ASSUME NEW f \in Flights, NEW stage \in Stages, assets' = assets, links' = links,
           Finds(f, stage), NEW g, g = [f EXCEPT !.stage = stage]
    PROVE  Continues(f, g)
<1>1. /\ g.op = f.op /\ g.on = f.on /\ g.payload = f.payload /\ g.stage = stage
      /\ g.target = f.target /\ g.moves = f.moves /\ g.ids = f.ids
      /\ g.missed = f.missed /\ g.linked = f.linked /\ g.moved = f.moved /\ g.late = f.late
  BY DEF Flights
<1>2. g \in Flights
  BY DEF Flights
<1>3. Parent' = Parent
  BY SameParents
<1> QED BY <1>1, <1>2, <1>3 DEF Continues, Tells, Advances

LEMMA SameContinues ==
    ASSUME NEW f \in Flights, assets' = assets, links' = links
    PROVE  Continues(f, f)
<1>1. Parent' = Parent
  BY SameParents
<1> QED BY <1>1 DEF Continues, Advances, Tells

\* A request that begins leaves the others alone.
LEMMA BeginsOrContinues ==
    ASSUME HierarchyTypeOK, NEW r \in Requests, NEW flight, Begin(r, flight),
           assets' = assets, links' = links,
           NEW q \in Requests, requests'[q] # None
    PROVE  \/ /\ q = r /\ requests[q] = None /\ requests'[q] = flight
              /\ \A s \in Requests : s # q => requests'[s] = requests[s]
           \/ q # r /\ requests[q] # None /\ requests'[q] = requests[q]
              /\ Continues(requests[q], requests'[q])
<1>1. requests' = [requests EXCEPT ![r] = flight] /\ requests[r] = None
  BY DEF Begin
<1>2. CASE q = r
  BY <1>1, <1>2 DEF HierarchyTypeOK
<1>3. CASE q # r
  <2>1. requests'[q] = requests[q] /\ requests[q] # None
    BY <1>1, <1>3 DEF HierarchyTypeOK
  <2>2. requests[q] \in Flights
    BY <2>1 DEF HierarchyTypeOK
  <2> QED BY <1>3, <2>1, <2>2, SameContinues
<1> QED BY <1>2, <1>3

\* A request that only reads goes on, and the others do.
LEMMA ReadsContinue ==
    ASSUME HierarchyTypeOK, NEW r \in Requests, NEW from, NEW to \in Stages, Reads(r, from, to),
           Finds(requests[r], to),
           NEW q \in Requests, requests'[q] # None
    PROVE  requests[q] # None /\ Continues(requests[q], requests'[q])
<1>1. /\ requests[r] # None /\ requests[r] \in Flights
      /\ requests' = [requests EXCEPT ![r].stage = to]
      /\ assets' = assets /\ links' = links
  BY DEF Reads, HierarchyTypeOK
<1>2. CASE q = r
  <2>1. requests'[q] = [requests[q] EXCEPT !.stage = to]
    BY <1>1, <1>2 DEF HierarchyTypeOK
  <2> QED BY <1>1, <1>2, <2>1, AdvancedContinues
<1>3. CASE q # r
  <2>1. requests'[q] = requests[q]
    BY <1>1, <1>3 DEF HierarchyTypeOK
  <2>2. requests[q] \in Flights /\ requests[q] # None
    BY <2>1 DEF HierarchyTypeOK
  <2> QED BY <1>1, <2>1, <2>2, SameContinues
<1> QED BY <1>2, <1>3

LEMMA OthersContinue ==
    ASSUME HierarchyTypeOK, NEW written \in SUBSET Assets, NEW newParent \in SUBSET Assets,
           \A a \in Assets \ written : assets'[a] = assets[a],
           \A a \in Assets \ written : links[a] = None => links'[a] = None,
           \A a \in Assets \ newParent : Parent'[a] = Parent[a],
           NEW q \in Requests, requests'[q] # None,
           requests'[q] = Others(written, newParent)[q]
    PROVE  requests[q] # None /\ Continues(requests[q], requests'[q])
<1>1. requests[q] # None
  BY DEF Others
<1>2. requests[q] \in Flights
  BY <1>1 DEF HierarchyTypeOK
<1>3. requests'[q] =
        [requests[q] EXCEPT
            !.missed = @ \cup written,
            !.moved = IF requests[q].stage \in {"write", "commit"} THEN @ \cup newParent ELSE @,
            !.late = @ \/ requests[q].stage = "commit"]
  BY <1>1 DEF Others
<1> QED BY <1>1, <1>2, <1>3, ToldContinues

\* A request that is in flight after a step began with it or went on.
LEMMA FlightStep ==
    ASSUME TypeInv, Next, NEW q \in Requests, requests'[q] # None
    PROVE  Began(q) \/ (requests[q] # None /\ Continues(requests[q], requests'[q]))
<1> USE DEF history
<1>0. HierarchyTypeOK
  BY DEF TypeInv
<1>1. ASSUME NEW r \in Requests,
             ReadChildren(r) \/ ReadLinks(r) \/ ReadParent(r) \/ ReadTree(r) \/ FireTriggers(r)
      PROVE  requests[q] # None /\ Continues(requests[q], requests'[q])
  <2>1. CASE ReadChildren(r)
    <3>1. (IF requests[r].moves THEN "links" ELSE "parent") \in Stages
      BY DEF Stages
    <3>2. Finds(requests[r], IF requests[r].moves THEN "links" ELSE "parent")
      BY <2>1 DEF ReadChildren, Reads, Finds
    <3> QED BY <1>0, <2>1, <3>1, <3>2, ReadsContinue DEF ReadChildren
  <2>2. CASE ReadLinks(r)
    <3>1. Finds(requests[r], "parent") /\ "parent" \in Stages
      BY <2>2 DEF ReadLinks, Reads, Finds, Stages
    <3> QED BY <1>0, <2>2, <3>1, ReadsContinue DEF ReadLinks
  <2>3. CASE ReadParent(r)
    <3> DEFINE to == IF requests[r].op = "update" /\ requests[r].target.parent # None
                     THEN "tree" ELSE "write"
    <3>1. to \in Stages
      BY DEF Stages
    <3>2. Reads(r, "parent", to)
      BY <2>3 DEF ReadParent
    <3>3. Finds(requests[r], to)
      BY <3>2 DEF Reads, Finds
    <3> QED BY <1>0, <3>1, <3>2, <3>3, ReadsContinue
  <2>4. CASE ReadTree(r)
    <3>1. Finds(requests[r], "write") /\ "write" \in Stages
      BY <2>4 DEF ReadTree, Reads, Finds, Stages
    <3> QED BY <1>0, <2>4, <3>1, ReadsContinue DEF ReadTree
  <2>5. CASE FireTriggers(r)
    <3>1. Finds(requests[r], "commit") /\ "commit" \in Stages
      BY <2>5 DEF FireTriggers, Reads, Finds, Stages
    <3> QED BY <1>0, <2>5, <3>1, ReadsContinue DEF FireTriggers
  <2> QED BY <1>1, <2>1, <2>2, <2>3, <2>4, <2>5
<1>3. ASSUME NEW r \in Requests, CommitWrite(r)
      PROVE  requests[q] # None /\ Continues(requests[q], requests'[q])
  <2> DEFINE b == requests[r].on
             newParent == IF b \in Existing /\ Applied(requests[r].payload, assets[b]).parent = assets[b].parent
                          THEN {} ELSE {b}
  <2>0. b \in Assets
    BY <1>3, WrittenRow DEF CommitWrite
  <2>1. requests' = Ended(r, {b}, newParent)
    BY <1>3 DEF CommitWrite
  <2>2. requests'[q] = Others({b}, newParent)[q]
    BY <2>1 DEF Ended, Others
  <2>3. /\ \A a \in Assets \ {b} : assets'[a] = assets[a]
        /\ links' = links
        /\ \A a \in Assets \ {b} : Parent'[a] = Parent[a]
        /\ Parent'[b] = Written(r).parent
    BY <1>3, Committed
  <2>4. newParent = {} => Parent'[b] = Parent[b]
    BY <2>0, <2>3 DEF Written, Parent
  <2>5. \A a \in Assets \ newParent : Parent'[a] = Parent[a]
    BY <2>3, <2>4
  <2>6. newParent \in SUBSET Assets /\ {b} \in SUBSET Assets
    BY <2>0
  <2> HIDE DEF b, newParent
  <2> QED BY <1>0, <2>2, <2>3, <2>5, <2>6, OthersContinue
<1>4. ASSUME NEW r \in Requests, Cascade(r)
      PROVE  requests[q] # None /\ Continues(requests[q], requests'[q])
  <2> DEFINE S == Swept(r)
  <2>1. S \in SUBSET Assets
    BY <1>0, <1>4 DEF Swept, Existing, Cascade, HierarchyTypeOK, Flights
  <2>2. requests'[q] = Others(S, {})[q]
    BY <1>4 DEF Cascade, Ended, Others
  <2>3. \A a \in Assets \ S : assets'[a] = assets[a]
    BY <1>4 DEF Cascade
  <2>4. \A a \in Assets : links[a] = None => links'[a] = None
    BY <1>4 DEF Cascade
  <2>5. Parent' = Parent
    BY <1>4, Cascaded
  <2> HIDE DEF S
  <2> QED BY <1>0, <2>1, <2>2, <2>3, <2>4, <2>5, OthersContinue
<1>5. ASSUME NEW r \in Requests, End(r)
      PROVE  requests[q] # None /\ Continues(requests[q], requests'[q])
  <2>1. requests'[q] = requests[q] /\ assets' = assets /\ links' = links
    BY <1>0, <1>5 DEF End, HierarchyTypeOK
  <2>2. requests[q] \in Flights
    BY <1>0, <2>1 DEF HierarchyTypeOK
  <2> QED BY <2>1, <2>2, SameContinues
<1>6. ASSUME NEW r \in Requests, StartArchive(r)
      PROVE  Began(q) \/ (requests[q] # None /\ Continues(requests[q], requests'[q]))
  BY <1>0, <1>6, BeginsOrContinues DEF StartArchive, Began
<1>7. ASSUME NEW r \in Requests, NEW s \in Sectors, StartSoftDelete(r, s)
      PROVE  Began(q) \/ (requests[q] # None /\ Continues(requests[q], requests'[q]))
  BY <1>0, <1>7, BeginsOrContinues DEF StartSoftDelete, Began
<1>8. ASSUME NEW r \in Requests, NEW a \in Assets, StartCreate(r, a)
      PROVE  Began(q) \/ (requests[q] # None /\ Continues(requests[q], requests'[q]))
  <2>1. PICK row \in Creates : row.parent \in Existing \cup {None}
                               /\ Begin(r, Flight("create", "parent", a, row, row, FALSE, {}))
    BY <1>8 DEF StartCreate
  <2> QED BY <1>0, <1>8, <2>1, BeginsOrContinues DEF StartCreate, Began
<1>9. ASSUME NEW r \in Requests, NEW a \in Assets, StartDelete(r, a)
      PROVE  Began(q) \/ (requests[q] # None /\ Continues(requests[q], requests'[q]))
  BY <1>0, <1>9, BeginsOrContinues DEF StartDelete, Began
<1>10. ASSUME NEW r \in Requests, NEW a \in Assets, NEW payload \in Updates, StartUpdate(r, a, payload)
       PROVE  Began(q) \/ (requests[q] # None /\ Continues(requests[q], requests'[q]))
  BY <1>0, <1>10, BeginsOrContinues DEF StartUpdate, Began
<1>11. ASSUME NEW a \in Assets, NEW b \in Assets, NEW link, WriteLink(a, b, link)
       PROVE  requests[q] # None /\ Continues(requests[q], requests'[q])
  <2>1. requests[q] # None
        /\ requests'[q] = [requests[q] EXCEPT !.linked = @ \/ requests[q].on \in {a, b}]
    BY <1>11 DEF WriteLink
  <2>2. assets' = assets /\ \A c \in Assets \ {a, b} : links'[c] = links[c]
    BY <1>0, <1>11 DEF WriteLink, HierarchyTypeOK
  <2>3. requests[q] \in Flights
    BY <1>0, <2>1 DEF HierarchyTypeOK
  <2> QED BY <2>1, <2>2, <2>3, ToldOfLinkContinues
<1>12. ASSUME NEW a \in Assets, LinkStep(a)
       PROVE  requests[q] # None /\ Continues(requests[q], requests'[q])
  BY <1>11, <1>12 DEF LinkStep, CreateLink, UpdateLink, DeleteLink
<1>13. ASSUME NEW a \in Assets, NEW b \in Assets, NEW s \in Sectors, Bootstrap(a, b, s)
       PROVE  requests[q] # None /\ Continues(requests[q], requests'[q])
  <2>1. requests'[q] = Others({a, b}, {a, b})[q]
    BY <1>13 DEF Bootstrap
  <2>2. \A c \in Assets \ {a, b} : assets'[c] = assets[c] /\ links'[c] = links[c]
    BY <1>0, <1>13 DEF Bootstrap, HierarchyTypeOK
  <2>3. \A c \in Assets \ {a, b} : Parent'[c] = Parent[c]
    BY <1>13, Bootstrapped
  <2> QED BY <1>0, <2>1, <2>2, <2>3, OthersContinue
<1>14. ASSUME Reopen
       PROVE  requests[q] # None /\ Continues(requests[q], requests'[q])
  <2>1. requests'[q] = requests[q] /\ assets' = assets /\ links' = links
    BY <1>14 DEF Reopen
  <2>2. requests[q] \in Flights
    BY <1>0, <2>1 DEF HierarchyTypeOK
  <2> QED BY <2>1, <2>2, SameContinues
<1> QED BY <1>1, <1>3, <1>4, <1>5, <1>6, <1>7, <1>8, <1>9, <1>10, <1>12, <1>13, <1>14
        DEF Next, RequestStep

-----------------------------------------------------------------------------
(***************************************************************************)
(* The types, and what kinds of flight there are.                          *)
(***************************************************************************)

LEMMA RowsStayTyped ==
    ASSUME TypeInv, Next
    PROVE  assets' \in [Assets -> Rows \cup {None}] /\ Existing \subseteq Existing'
<1>1. ASSUME assets' = assets
      PROVE  assets' \in [Assets -> Rows \cup {None}] /\ Existing \subseteq Existing'
  BY <1>1 DEF TypeInv, HierarchyTypeOK, Existing
<1> QED BY <1>1, RowsStep, Committed, Cascaded, Bootstrapped

LEMMA ParentsStay ==
    ASSUME TypeInv, Next
    PROVE  ParentsExist'
<1>1. ASSUME assets' = assets
      PROVE  ParentsExist'
  BY <1>1 DEF TypeInv, ParentsExist, Existing
<1>2. ASSUME NEW r \in Requests, CommitWrite(r)
      PROVE  ParentsExist'
  <2>1. Written(r).parent \in (Existing \ {requests[r].on}) \cup {None}
    BY <1>2, WrittenRow DEF CommitWrite
  <2>2. Existing \subseteq Assets
    BY DEF Existing
  <2> QED BY <1>2, <2>1, <2>2, Committed DEF TypeInv, ParentsExist
<1>3. ASSUME NEW r \in Requests, Cascade(r)
      PROVE  ParentsExist'
  BY <1>3, Cascaded DEF TypeInv, ParentsExist
<1>4. ASSUME NEW a \in Assets, NEW b \in Assets, NEW s \in Sectors, Bootstrap(a, b, s)
      PROVE  ParentsExist'
  <2>1. Existing \subseteq Assets
    BY DEF Existing
  <2> QED BY <1>4, <2>1, Bootstrapped DEF TypeInv, ParentsExist
<1> QED BY <1>1, <1>2, <1>3, <1>4, RowsStep

\* A create that is in flight keeps others from creating its asset.
LEMMA CreatesStayNew ==
    ASSUME TypeInv, Next, NEW q \in Requests, requests[q] # None, requests'[q] # None,
           requests[q].op = "create"
    PROVE  requests[q].on \notin Existing'
<1>1. requests[q].on \notin Existing /\ requests[q].on \in Assets
  BY DEF TypeInv, FlightsFit, FlightFits
<1>2. ASSUME assets' = assets
      PROVE  Existing' = Existing
  BY <1>2 DEF Existing
<1>3. ASSUME NEW r \in Requests, CommitWrite(r)
      PROVE  requests[q].on \notin Existing'
  <2>1. requests[r] # None /\ requests[r].stage = "commit"
    BY <1>3 DEF CommitWrite
  <2>2. r # q
    BY <1>3, Committed
  <2>3. requests[r].on # requests[q].on
    BY <1>1, <2>1, <2>2, WrittenRow DEF TypeInv, CreatesApart
  <2> QED BY <1>1, <1>3, <2>3, Committed
<1>4. ASSUME NEW a \in Assets, NEW b \in Assets, NEW s \in Sectors, Bootstrap(a, b, s)
      PROVE  requests[q].on \notin Existing'
  <2>1. requests[q].on \notin {a, b}
    BY <1>4 DEF Bootstrap, Free
  <2> QED BY <1>1, <1>4, <2>1, Bootstrapped
<1> QED BY <1>1, <1>2, <1>3, <1>4, RowsStep, Cascaded

\* Only assets that are there are below one that is.
LEMMA TreeExists ==
    ASSUME NEW a \in Existing
    PROVE  Tree(a) \subseteq Existing /\ a \in Tree(a)
<1>1. a \in Assets /\ Existing \in SUBSET Assets
  BY DEF Existing
<1> QED BY <1>1 DEF Tree

LEMMA BeganFits ==
    ASSUME TypeInv, NEW q \in Requests, Began(q)
    PROVE  requests'[q] \in Flights /\ FlightFits(requests[q])'
<1> USE HierarchyAssumption
<1>1. Existing' = Existing /\ Existing \subseteq Assets
  BY DEF Began, Existing
<1>2. ASSUME NEW a \in Assets, NEW row \in Creates, a \notin Existing,
             requests'[q] = Flight("create", "parent", a, row, row, FALSE, {})
      PROVE  requests'[q] \in Flights /\ FlightFits(requests[q])'
  <2>1. row \in Rows /\ row \in Payloads
    BY RowsArePayloads
  <2> QED BY <1>1, <1>2, <2>1 DEF Flight, Flights, FlightFits, Stages
<1>3. ASSUME NEW a \in Existing, NEW payload \in Updates, NEW moves \in BOOLEAN,
             requests'[q] = Flight("update", "children", a, payload, Applied(payload, assets[a]), moves, {})
      PROVE  requests'[q] \in Flights /\ FlightFits(requests[q])'
  <2>1. payload \in Payloads /\ assets[a] \in Rows
    BY DEF Existing, TypeInv, HierarchyTypeOK
  <2> DEFINE target == Applied(payload, assets[a])
  <2>2. /\ target \in Rows
        /\ payload.type # Keep => target.type = payload.type
        /\ payload.parent # Keep => target.parent = payload.parent
    BY <2>1, AppliedFields
  <2> HIDE DEF target
  <2>3. requests'[q] = Flight("update", "children", a, payload, target, moves, {})
    BY <1>3 DEF target
  <2> QED BY <1>1, <2>1, <2>2, <2>3 DEF Flight, Flights, FlightFits, Stages
<1>4. ASSUME NEW op \in {"delete", "softDelete", "archive"}, NEW on \in Assets \cup Sectors \cup {None},
             op = "delete" => on \in Existing,
             NEW ids \in SUBSET Existing, requests'[q] = Sweep(op, on, ids)
      PROVE  requests'[q] \in Flights /\ FlightFits(requests[q])'
  BY <1>1, <1>4 DEF Sweep, Flight, Flights, FlightFits, Stages
<1>5. ASSUME NEW a \in Existing, requests'[q] = Sweep("delete", a, Tree(a))
      PROVE  requests'[q] \in Flights /\ FlightFits(requests[q])'
  <2>1. Tree(a) \in SUBSET Existing /\ a \in Assets
    BY <1>1, TreeExists
  <2> QED BY <1>4, <1>5, <2>1
<1>6. ASSUME NEW s \in Sectors, requests'[q] =
                 Sweep("softDelete", s, {a \in Existing : assets[a].sector = s /\ assets[a].listed})
      PROVE  requests'[q] \in Flights /\ FlightFits(requests[q])'
  BY <1>4, <1>6
<1>7. ASSUME requests'[q] = Sweep("archive", None, {})
      PROVE  requests'[q] \in Flights /\ FlightFits(requests[q])'
  BY <1>4, <1>7
<1> QED BY <1>2, <1>3, <1>5, <1>6, <1>7 DEF Began, Free

LEMMA ContinuesFits ==
    ASSUME TypeInv, Next, NEW q \in Requests, requests[q] # None, requests'[q] # None,
           Continues(requests[q], requests'[q])
    PROVE  requests'[q] \in Flights /\ FlightFits(requests[q])'
<1> DEFINE f == requests[q]
           g == requests'[q]
<1>1. /\ g \in Flights /\ FlightFits(f) /\ f \in Flights
      /\ g.op = f.op /\ g.on = f.on /\ g.payload = f.payload
      /\ g.target = f.target /\ g.ids = f.ids
  BY DEF Continues, TypeInv, HierarchyTypeOK, FlightsFit
<1>2. Existing \subseteq Existing'
  BY RowsStayTyped
<1>3. g.stage = f.stage \/ Finds(f, g.stage)
  BY DEF Continues, Advances
<1>4. f.op = "create" => f.on \notin Existing'
  BY CreatesStayNew
<1>5. g.stage = "commit" => f.payload.parent \in (Existing \ {f.on}) \cup {None, Keep}
  <2>1. CASE f.stage = "commit"
    BY <1>1, <2>1 DEF FlightFits
  <2>2. CASE f.stage # "commit" /\ g.stage = "commit"
    <3>1. f.stage = "write" /\ TriggersAccept(f.on, Written(q))
      BY <1>3, <2>2 DEF Finds, Written
    <3>2. Written(q).parent \in (Existing \ {f.on}) \cup {None}
      BY <3>1 DEF TriggersAccept, Fits
    <3>3. f.payload.parent \in {Keep, Written(q).parent}
      BY <3>1, WrittenRow
    <3> QED BY <3>2, <3>3
  <2> QED BY <2>1, <2>2
<1>6. g.stage = "commit" => g.payload.parent \in (Existing' \ {g.on}) \cup {None, Keep}
  BY <1>1, <1>2, <1>5
<1>7. g.stage = "cascade" <=> f.stage = "cascade"
  BY <1>3 DEF Finds
<1> QED BY <1>1, <1>2, <1>4, <1>6, <1>7 DEF FlightFits

LEMMA FlightsStayFit ==
    ASSUME TypeInv, Next
    PROVE  FlightsFit' /\ \A q \in Requests : requests'[q] \in Flights \cup {None}
<1>1. ASSUME NEW q \in Requests, requests'[q] # None
      PROVE  requests'[q] \in Flights /\ FlightFits(requests[q])'
  <2>1. CASE Began(q)
    BY <2>1, BeganFits
  <2>2. CASE requests[q] # None /\ Continues(requests[q], requests'[q])
    BY <1>1, <2>2, ContinuesFits
  <2> QED BY <1>1, <2>1, <2>2, FlightStep
<1>2. FlightsFit'
  BY <1>1 DEF FlightsFit
<1> QED BY <1>1, <1>2

\* A request begins with its reads, and has missed nothing.
LEMMA BeganFlight ==
    ASSUME NEW q \in Requests, Began(q)
    PROVE  /\ requests'[q].stage \in {"children", "parent", "cascade"}
           /\ requests'[q].missed = {}
           /\ requests'[q].op = "update" => \E a \in Existing, payload \in Updates :
                 requests'[q] = Flight("update", "children", a, payload, Applied(payload, assets[a]),
                                       Applied(payload, assets[a]).sector # assets[a].sector, {})
           /\ requests'[q].op = "delete" =>
                 requests'[q].on \in Existing /\ requests'[q].ids = Tree(requests'[q].on)
           /\ requests'[q].op = "softDelete" =>
                 requests'[q].ids = {a \in Existing : assets[a].sector = requests'[q].on /\ assets[a].listed}
<1>1. CASE \E a \in Assets, row \in Creates :
              requests'[q] = Flight("create", "parent", a, row, row, FALSE, {})
  BY <1>1 DEF Flight
<1>2. CASE \E a \in Existing, payload \in Updates :
              requests'[q] = Flight("update", "children", a, payload, Applied(payload, assets[a]),
                                    Applied(payload, assets[a]).sector # assets[a].sector, {})
  <2>1. /\ requests'[q].stage = "children" /\ requests'[q].missed = {}
        /\ requests'[q].op = "update"
    BY <1>2 DEF Flight
  <2> QED BY <1>2, <2>1
<1>3. CASE \E a \in Existing : requests'[q] = Sweep("delete", a, Tree(a))
  BY <1>3 DEF Sweep, Flight
<1>4. CASE \E s \in Sectors : requests'[q] =
              Sweep("softDelete", s, {a \in Existing : assets[a].sector = s /\ assets[a].listed})
  <2>1. PICK s \in Sectors : requests'[q] =
            Sweep("softDelete", s, {a \in Existing : assets[a].sector = s /\ assets[a].listed})
    BY <1>4
  <2>2. /\ requests'[q].stage = "cascade" /\ requests'[q].missed = {}
        /\ requests'[q].op = "softDelete" /\ requests'[q].on = s
        /\ requests'[q].ids = {a \in Existing : assets[a].sector = s /\ assets[a].listed}
    BY <2>1 DEF Sweep, Flight
  <2> QED BY <2>2
<1>5. CASE requests'[q] = Sweep("archive", None, {})
  BY <1>5 DEF Sweep, Flight
<1> QED BY <1>1, <1>2, <1>3, <1>4, <1>5 DEF Began

LEMMA OneBegins ==
    ASSUME TypeInv, Next, NEW q \in Requests, NEW r \in Requests,
           Began(q), requests'[q] # None, requests'[r] # None,
           requests'[q].op = "create", requests'[r].op = "create",
           requests'[q].on = requests'[r].on
    PROVE  r = q
<1> SUFFICES ASSUME r # q PROVE FALSE
  OBVIOUS
<1>1. PICK a \in Assets : Free(a) /\ requests'[q].on = a
  <2>1. ASSUME NEW op \in {"delete", "softDelete", "archive"}, NEW x, NEW s
        PROVE  requests'[q] # Sweep(op, x, s)
    BY DEF Sweep, Flight
  <2>2. ASSUME NEW x, NEW y, NEW z, NEW moves
        PROVE  requests'[q] # Flight("update", "children", x, y, z, moves, {})
    BY DEF Flight
  <2>3. \E a \in Assets, row \in Creates :
            /\ Free(a) /\ row.parent \in Existing \cup {None}
            /\ requests'[q] = Flight("create", "parent", a, row, row, FALSE, {})
    <3>1. ~\E x \in Existing : requests'[q] = Sweep("delete", x, Tree(x))
      BY <2>1
    <3>2. ~\E s \in Sectors : requests'[q] =
             Sweep("softDelete", s, {x \in Existing : assets[x].sector = s /\ assets[x].listed})
      BY <2>1
    <3>3. requests'[q] # Sweep("archive", None, {})
      BY <2>1
    <3>4. ~\E x \in Existing, y \in Updates : requests'[q] =
             Flight("update", "children", x, y, Applied(y, assets[x]),
                    Applied(y, assets[x]).sector # assets[x].sector, {})
      BY <2>2
    <3> QED BY <3>1, <3>2, <3>3, <3>4 DEF Began
  <2> QED BY <2>3 DEF Flight
<1>2. requests[r] = requests'[r]
  BY DEF Began
<1> QED BY <1>1, <1>2 DEF Free

LEMMA RestStaysTyped ==
    ASSUME TypeInv, Next
    PROVE  /\ links' \in [Assets -> Links \cup {None}]
           /\ \E F : requests' = [q \in Requests |-> F[q]]
           /\ archived' \in BOOLEAN /\ activeColumn' \in BOOLEAN
           /\ operations' \in 0..MaxOperations
           /\ crossed' \subseteq Assets /\ skewed' \subseteq Assets
<1> DEFINE LinksOK == links' \in [Assets -> Links \cup {None}]
           Rest == /\ LinksOK
                   /\ archived' \in BOOLEAN /\ activeColumn' \in BOOLEAN
                   /\ operations' \in 0..MaxOperations
                   /\ crossed' \subseteq Assets /\ skewed' \subseteq Assets
                   /\ \E F : requests' = [q \in Requests |-> F[q]]
<1>1. /\ links \in [Assets -> Links \cup {None}] /\ requests \in [Requests -> Flights \cup {None}]
      /\ archived \in BOOLEAN /\ activeColumn \in BOOLEAN
      /\ operations \in 0..MaxOperations /\ MaxOperations \in Nat
      /\ crossed \subseteq Assets /\ skewed \subseteq Assets
  BY HierarchyAssumption DEF TypeInv, HierarchyTypeOK
<1>2. requests = [q \in Requests |-> requests[q]]
  BY <1>1
<1>3. ASSUME NEW r, NEW x, requests' = [requests EXCEPT ![r] = x]
      PROVE  \E F : requests' = [q \in Requests |-> F[q]]
  <2> DEFINE F == [q \in Requests |-> IF q = r THEN x ELSE requests[q]]
  <2>1. requests' = [q \in Requests |-> F[q]]
    BY <1>1, <1>3
  <2> QED BY <2>1
<1>4. ASSUME NEW r, NEW written, NEW newParent, requests' = Ended(r, written, newParent)
      PROVE  \E F : requests' = [q \in Requests |-> F[q]]
  <2> DEFINE F == [q \in Requests |-> IF q = r THEN None ELSE Others(written, newParent)[q]]
  <2>1. requests' = [q \in Requests |-> F[q]]
    BY <1>4 DEF Ended, Others
  <2> QED BY <2>1
<1>5. ASSUME NEW written, NEW newParent, requests' = Others(written, newParent)
      PROVE  \E F : requests' = [q \in Requests |-> F[q]]
  <2>1. requests' = [q \in Requests |-> requests'[q]]
    BY <1>5 DEF Others
  <2> QED BY <2>1
<1>6. ASSUME NEW r \in Requests, NEW flight, Begin(r, flight)
      PROVE  /\ operations' \in 0..MaxOperations
             /\ \E F : requests' = [q \in Requests |-> F[q]]
  <2>1. requests' = [requests EXCEPT ![r] = flight]
        /\ operations' = operations + 1 /\ operations < MaxOperations
    BY <1>6 DEF Begin
  <2>2. operations' \in 0..MaxOperations
    BY <1>1, <2>1
  <2>3. \E F : requests' = [q \in Requests |-> F[q]]
    BY <1>3, <2>1
  <2> QED BY <2>2, <2>3
<1>7. ASSUME NEW r \in Requests, NEW from, NEW to, Reads(r, from, to) \/ End(r)
      PROVE  Rest
  <2>1. /\ links' = links /\ archived' = archived /\ activeColumn' = activeColumn
        /\ operations' = operations /\ crossed' = crossed /\ skewed' = skewed
    BY <1>7 DEF Reads, End, history
  <2>2. \E F : requests' = [q \in Requests |-> F[q]]
    <3>1. CASE Reads(r, from, to)
      BY <1>3, <3>1 DEF Reads
    <3>2. CASE End(r)
      BY <1>3, <3>2 DEF End
    <3> QED BY <1>7, <3>1, <3>2
  <2> QED BY <1>1, <2>1, <2>2
<1>8. ASSUME NEW r \in Requests, CommitWrite(r)
      PROVE  Rest
  <2>1. requests[r].on \in Assets
    BY <1>8, WrittenRow DEF CommitWrite
  <2>2. \E F : requests' = [q \in Requests |-> F[q]]
    BY <1>4, <1>8 DEF CommitWrite
  <2> QED BY <1>1, <1>8, <2>1, <2>2 DEF CommitWrite
<1>9. ASSUME NEW r \in Requests, Cascade(r)
      PROVE  Rest
  <2>1. \E F : requests' = [q \in Requests |-> F[q]]
    BY <1>4, <1>9 DEF Cascade
  <2>2. ASSUME NEW a \in Assets, links[a] # None
        PROVE  [links[a] EXCEPT !.active = FALSE] \in Links
    <3>1. links[a] \in Links
      BY <1>1, <2>2
    <3> QED BY <3>1 DEF Links
  <2>3. LinksOK
    BY <1>1, <1>9, <2>2 DEF Cascade
  <2>4. /\ archived' = archived /\ activeColumn' = activeColumn /\ operations' = operations
        /\ crossed' = crossed /\ skewed' = skewed
    BY <1>9 DEF Cascade, history
  <2> QED BY <1>1, <2>1, <2>3, <2>4
<1>10. ASSUME NEW r \in Requests, StartArchive(r)
       PROVE  Rest
  BY <1>1, <1>6, <1>10 DEF StartArchive, history
<1>11. ASSUME NEW r \in Requests, NEW flight, Begin(r, flight),
              UNCHANGED <<links, archived, activeColumn, history>>
       PROVE  Rest
  BY <1>1, <1>6, <1>11 DEF history
<1>12. ASSUME NEW r \in Requests, NEW a \in Assets,
              \/ StartCreate(r, a) \/ StartDelete(r, a)
              \/ \E payload \in Updates : StartUpdate(r, a, payload)
       PROVE  Rest
  BY <1>11, <1>12 DEF StartCreate, StartDelete, StartUpdate
<1>13. ASSUME NEW r \in Requests, NEW s \in Sectors, StartSoftDelete(r, s)
       PROVE  Rest
  BY <1>11, <1>13 DEF StartSoftDelete
<1>14. ASSUME NEW a \in Assets, NEW b \in Assets, NEW link \in Links \cup {None}, WriteLink(a, b, link)
       PROVE  Rest
  <2>1. requests' = [q \in Requests |-> requests'[q]]
    BY <1>14 DEF WriteLink
  <2>2. LinksOK /\ operations' \in 0..MaxOperations
    BY <1>1, <1>14 DEF WriteLink
  <2>3. /\ archived' = archived /\ activeColumn' = activeColumn
        /\ crossed' = crossed /\ skewed' = skewed
    BY <1>14 DEF WriteLink, history
  <2>4. \E F : requests' = [q \in Requests |-> F[q]]
    BY <2>1
  <2> QED BY <1>1, <2>2, <2>3, <2>4
<1>15. ASSUME NEW a \in Assets, LinkStep(a)
       PROVE  Rest
  <2>1. \A s \in Sectors : [sector |-> s, active |-> TRUE] \in Links
    BY DEF Links
  <2> QED BY <1>14, <1>15, <2>1 DEF LinkStep, UpdateLink, DeleteLink, CreateLink
<1>16. ASSUME NEW a \in Assets, NEW b \in Assets, NEW s \in Sectors, Bootstrap(a, b, s)
       PROVE  Rest
  <2>1. \E F : requests' = [q \in Requests |-> F[q]]
    BY <1>5, <1>16 DEF Bootstrap
  <2>2. LinksOK /\ operations' \in 0..MaxOperations
    BY <1>1, <1>16 DEF Bootstrap, Links
  <2> QED BY <1>1, <1>16, <2>1, <2>2 DEF Bootstrap, history
<1>17. ASSUME Reopen
       PROVE  Rest
  <2>1. \E F : requests' = [q \in Requests |-> F[q]]
    BY <1>2, <1>17 DEF Reopen
  <2>2. operations' \in 0..MaxOperations
    BY <1>1, <1>17 DEF Reopen
  <2> QED BY <1>1, <1>17, <2>1, <2>2 DEF Reopen, history
<1>18. ASSUME NEW r \in Requests,
              \/ ReadChildren(r) \/ ReadLinks(r) \/ ReadParent(r) \/ ReadTree(r) \/ FireTriggers(r) \/ End(r)
       PROVE  Rest
  BY <1>7, <1>18 DEF ReadChildren, ReadLinks, ReadParent, ReadTree, FireTriggers
<1>19. Rest
  <2> HIDE DEF Rest
  <2> QED BY <1>8, <1>9, <1>10, <1>12, <1>13, <1>15, <1>16, <1>17, <1>18 DEF Next, RequestStep
<1> QED BY <1>19

LEMMA TypeInvStep ==
    ASSUME TypeInv, [Next]_vars
    PROVE  TypeInv'
<1>1. CASE Next
  <2>1. HierarchyTypeOK'
    <3>1. requests' \in [Requests -> Flights \cup {None}]
      BY <1>1, FlightsStayFit, RestStaysTyped
    <3> QED BY <1>1, <3>1, RowsStayTyped, RestStaysTyped DEF HierarchyTypeOK
  <2>2. CreatesApart'
    <3>1. ASSUME NEW q \in Requests, NEW r \in Requests,
                 requests'[q] # None, requests'[r] # None,
                 requests'[q].op = "create", requests'[r].op = "create",
                 requests'[q].on = requests'[r].on
          PROVE  q = r
      <4>1. CASE Began(q)
        BY <1>1, <3>1, <4>1, OneBegins
      <4>2. CASE Began(r)
        BY <1>1, <3>1, <4>2, OneBegins
      <4>3. CASE ~Began(q) /\ ~Began(r)
        <5>1. /\ requests[q] # None /\ Continues(requests[q], requests'[q])
              /\ requests[r] # None /\ Continues(requests[r], requests'[r])
          BY <1>1, <3>1, <4>3, FlightStep
        <5> QED BY <3>1, <5>1 DEF TypeInv, CreatesApart, Continues
      <4> QED BY <4>1, <4>2, <4>3
    <3> QED BY <3>1 DEF CreatesApart
  <2> QED BY <1>1, <2>1, <2>2, FlightsStayFit, ParentsStay DEF TypeInv
<1>2. CASE UNCHANGED vars
  BY <1>2 DEF vars, TypeInv, HierarchyTypeOK, FlightsFit, FlightFits, CreatesApart, ParentsExist, Existing
<1> QED BY <1>1, <1>2

LEMMA TypeInvHolds == Spec => []TypeInv
<1>1. Init => TypeInv
  <2> SUFFICES ASSUME Init PROVE TypeInv
    OBVIOUS
  <2>1. HierarchyTypeOK
    <3>1. 0 \in 0..MaxOperations
      BY HierarchyAssumption
    <3>2. /\ assets \in [Assets -> Rows \cup {None}]
          /\ links \in [Assets -> Links \cup {None}]
          /\ requests \in [Requests -> Flights \cup {None}]
      BY DEF Init
    <3> QED BY <3>1, <3>2 DEF Init, HierarchyTypeOK
  <2>2. FlightsFit /\ CreatesApart
    BY DEF Init, FlightsFit, CreatesApart
  <2>3. ParentsExist
    BY DEF Init, ParentsExist, Existing
  <2> QED BY <2>1, <2>2, <2>3 DEF TypeInv
<1> QED BY <1>1, TypeInvStep, PTL DEF Spec

\* The types of the rows and of what the requests have read.
THEOREM HierarchyTypeCorrect == Spec => []HierarchyTypeOK
<1>1. TypeInv => HierarchyTypeOK
  BY DEF TypeInv
<1> QED BY <1>1, TypeInvHolds, PTL

-----------------------------------------------------------------------------
(***************************************************************************)
(* What the triggers have seen.                                            *)
(***************************************************************************)

\* A write whose triggers have run, and no row was written since, would be
\* accepted now.
Accepted(q) == TriggersAccept(requests[q].on, Applied(requests[q].payload, assets[requests[q].on]))

InTimeIsAccepted == \A q \in Requests :
    requests[q] # None /\ requests[q].stage = "commit" /\ ~requests[q].late => Accepted(q)

LEMMA StaysAccepted ==
    ASSUME NEW q \in Requests, Accepted(q), assets' = assets,
           requests'[q].on = requests[q].on, requests'[q].payload = requests[q].payload
    PROVE  Accepted(q)'
BY DEF Accepted, TriggersAccept, Fits, Applied, Existing

LEMMA InTimeStep ==
    ASSUME InTimeIsAccepted, TypeInv, [Next]_vars
    PROVE  InTimeIsAccepted'
<1>1. CASE Next
  <2>1. ASSUME NEW q \in Requests, requests'[q] # None, requests'[q].stage = "commit", ~requests'[q].late
        PROVE  Accepted(q)'
    <3>1. CASE Began(q)
      BY <2>1, <3>1, BeganFlight
    <3>2. CASE requests[q] # None /\ Continues(requests[q], requests'[q])
      <4>1. requests'[q].on = requests[q].on /\ requests'[q].payload = requests[q].payload
        BY <3>2 DEF Continues
      <4>2. Accepted(q) /\ assets' = assets
        <5>1. CASE requests[q].stage = "commit"
          <6>1. ~requests[q].late /\ assets' = assets
            BY <2>1, <3>2, <5>1 DEF Continues, Tells
          <6> QED BY <3>2, <5>1, <6>1 DEF InTimeIsAccepted
        <5>2. CASE requests[q].stage # "commit"
          BY <2>1, <3>2, <5>2 DEF Continues, Advances, Finds, Accepted
        <5> QED BY <5>1, <5>2
      <4> QED BY <4>1, <4>2, StaysAccepted
    <3> QED BY <1>1, <2>1, <3>1, <3>2, FlightStep
  <2> QED BY <2>1 DEF InTimeIsAccepted
<1>2. CASE UNCHANGED vars
  <2>1. \A q \in Requests : Accepted(q) => Accepted(q)'
    BY <1>2, StaysAccepted DEF vars
  <2> QED BY <1>2, <2>1 DEF vars, InTimeIsAccepted
<1> QED BY <1>1, <1>2

-----------------------------------------------------------------------------
(***************************************************************************)
(* Children that fit their parents.                                        *)
(***************************************************************************)

UpdateOf(q, a) == requests[q] # None /\ requests[q].op = "update" /\ requests[q].on = a

\* An update whose asset has a child that it has not missed keeps the sector
\* that the child needs, and the type once it has read the children.
SeenChildrenKeep == \A q \in Requests, a \in Assets :
    UpdateOf(q, a) /\ a \notin crossed /\ ~(Children(a) \subseteq requests[q].missed) =>
       /\ ~requests[q].moves => requests[q].payload.sector \in {Keep, assets[a].sector}
       /\ requests[q].stage # "children" =>
             ~requests[q].moves /\ requests[q].payload.type \in {Keep} \cup Containers

RaceInv == SeenChildrenKeep /\ MisfitTakesRace

\* The histories only grow, and a write says which part of them.
LEMMA Histories ==
    ASSUME TypeInv, Next
    PROVE  /\ crossed \subseteq crossed' /\ skewed \subseteq skewed'
           /\ \A r \in Requests : CommitWrite(r) =>
                 /\ Children(requests[r].on) \cap requests[r].missed # {} =>
                       requests[r].on \in crossed'
                 /\ requests[r].late => requests[r].on \in skewed'
<1>1. ASSUME NEW r \in Requests, CommitWrite(r)
      PROVE  /\ crossed \subseteq crossed' /\ skewed \subseteq skewed'
             /\ Children(requests[r].on) \cap requests[r].missed # {} => requests[r].on \in crossed'
             /\ requests[r].late => requests[r].on \in skewed'
  BY <1>1 DEF CommitWrite
<1> QED BY <1>1, RowsStep, Cascaded, Bootstrapped

\* The row of an asset with a child keeps its sector and stays a container, or
\* the asset is on record as crossed.
LEMMA ParentKept ==
    ASSUME TypeInv, SeenChildrenKeep, Next,
           NEW a \in Existing, Children(a) # {}, a \notin crossed'
    PROVE  /\ assets'[a].sector = assets[a].sector
           /\ assets[a].type \in Containers => assets'[a].type \in Containers
<1> DEFINE AsBefore == /\ assets'[a].sector = assets[a].sector
                       /\ assets[a].type \in Containers => assets'[a].type \in Containers
<1>1. ASSUME NEW r \in Requests, CommitWrite(r), requests[r].on = a
      PROVE  AsBefore
  <2>1. requests[r] # None /\ requests[r].stage = "commit"
    BY <1>1 DEF CommitWrite
  <2>2. requests[r].op = "update"
    BY <1>1, <2>1, WrittenRow
  <2>3. Children(a) \cap requests[r].missed = {} /\ a \notin crossed
    BY <1>1, Histories
  <2>4. a \in Assets
    BY DEF Existing
  <2>5. /\ requests[r].payload.sector \in {Keep, assets[a].sector}
        /\ requests[r].payload.type \in {Keep} \cup Containers
    BY <1>1, <2>1, <2>2, <2>3, <2>4 DEF SeenChildrenKeep, UpdateOf
  <2> QED BY <1>1, <2>1, <2>2, <2>5, WrittenRow, Committed
<1>2. ASSUME NEW r \in Requests, CommitWrite(r), requests[r].on # a
      PROVE  AsBefore
  BY <1>2, Committed DEF Existing
<1>3. ASSUME NEW node \in Assets, NEW device \in Assets, NEW s \in Sectors, Bootstrap(node, device, s)
      PROVE  AsBefore
  BY <1>3, Bootstrapped DEF Existing
<1>4. ASSUME NEW r \in Requests, Cascade(r) PROVE AsBefore
  BY <1>4, Cascaded DEF Existing
<1>5. CASE UNCHANGED assets
  BY <1>5
<1> QED BY <1>1, <1>2, <1>3, <1>4, <1>5, RowsStep

\* A child that a request has not missed was there before the step.
LEMMA ChildNotMissed ==
    ASSUME TypeInv, Next, NEW q \in Requests, requests[q] # None,
           Continues(requests[q], requests'[q]),
           NEW a \in Assets, ~(Children(a)' \subseteq requests'[q].missed)
    PROVE  ~(Children(a) \subseteq requests[q].missed)
<1>1. PICK c \in Children(a)' : c \notin requests'[q].missed
  OBVIOUS
<1>2. c \in Assets /\ c \in Existing' /\ assets'[c].parent = a
  BY <1>1 DEF Children, Existing
<1>3. assets'[c] = assets[c] /\ c \notin requests[q].missed
  BY <1>1, <1>2 DEF Continues, Tells
<1>4. c \in Children(a)
  BY <1>2, <1>3 DEF Children, Existing
<1> QED BY <1>3, <1>4

\* An update that begins compares the sector with the one that it has read.
LEMMA BeganMove ==
    ASSUME TypeInv, NEW q \in Requests, Began(q), NEW a \in Assets, UpdateOf(q, a)'
    PROVE  /\ requests'[q].stage = "children"
           /\ assets' = assets /\ links' = links /\ a \in Existing
           /\ requests'[q].moves <=> requests'[q].payload.sector \notin {Keep, assets[a].sector}
<1>1. requests'[q].op = "update" /\ requests'[q].on = a
  BY DEF UpdateOf
<1>2. PICK b \in Existing, payload \in Updates :
          requests'[q] = Flight("update", "children", b, payload, Applied(payload, assets[b]),
                                Applied(payload, assets[b]).sector # assets[b].sector, {})
  BY <1>1, BeganFlight
<1>3. /\ b = a /\ requests'[q].payload = payload /\ requests'[q].stage = "children"
      /\ requests'[q].moves = (Applied(payload, assets[b]).sector # assets[b].sector)
  BY <1>1, <1>2 DEF Flight
<1>4. payload \in Payloads /\ assets[a] \in Rows
  BY <1>3, HierarchyAssumption DEF Existing, TypeInv, HierarchyTypeOK
<1>5. Applied(payload, assets[a]).sector # assets[a].sector <=> payload.sector \notin {Keep, assets[a].sector}
  BY <1>4, AppliedFields
<1>6. assets' = assets /\ links' = links
  BY DEF Began
<1> QED BY <1>3, <1>5, <1>6

LEMMA SeenChildrenStep ==
    ASSUME SeenChildrenKeep, TypeInv, Next
    PROVE  SeenChildrenKeep'
<1>1. ASSUME NEW q \in Requests, NEW a \in Assets, UpdateOf(q, a)', a \notin crossed',
             ~(Children(a)' \subseteq requests'[q].missed)
      PROVE  /\ ~requests'[q].moves => requests'[q].payload.sector \in {Keep, assets'[a].sector}
             /\ requests'[q].stage # "children" =>
                   ~requests'[q].moves /\ requests'[q].payload.type \in {Keep} \cup Containers
  <2>0. requests'[q] # None /\ requests'[q].op = "update" /\ requests'[q].on = a
    BY <1>1 DEF UpdateOf
  <2>1. CASE Began(q)
    BY <1>1, <2>1, BeganMove
  <2>2. CASE requests[q] # None /\ Continues(requests[q], requests'[q])
    <3> DEFINE f == requests[q]
               g == requests'[q]
    <3>1. ~(Children(a) \subseteq f.missed)
      BY <1>1, <2>2, ChildNotMissed
    <3>2. UpdateOf(q, a) /\ g.payload = f.payload /\ g.moves = f.moves /\ f.on = a
      BY <2>0, <2>2 DEF Continues, UpdateOf
    <3>3. a \notin crossed
      BY <1>1, Histories
    <3>4. /\ ~f.moves => f.payload.sector \in {Keep, assets[a].sector}
          /\ f.stage # "children" => ~f.moves /\ f.payload.type \in {Keep} \cup Containers
      BY <3>1, <3>2, <3>3 DEF SeenChildrenKeep
    <3>5. a \in Existing /\ (f.payload.type # Keep => f.target.type = f.payload.type)
      BY <3>2 DEF UpdateOf, TypeInv, FlightsFit, FlightFits
    <3>6. assets'[a].sector = assets[a].sector
      BY <1>1, <3>1, <3>5, ParentKept
    <3>7. f.stage = "children" /\ g.stage # "children" =>
              ~f.moves /\ f.payload.type \in {Keep} \cup Containers
      <4>1. f.stage = "children" /\ g.stage # "children" => Finds(f, g.stage)
        BY <2>2 DEF Continues, Advances
      <4>2. Children(a) # {}
        BY <3>1
      <4>3. f.stage = "children" /\ g.stage # "children" => f.target.type \in Containers /\ ~f.moves
        BY <3>2, <4>1, <4>2 DEF Finds
      <4> QED BY <3>5, <4>3
    <3>8. ~g.moves => g.payload.sector \in {Keep, assets'[a].sector}
      BY <3>2, <3>4, <3>6
    <3>9. g.stage # "children" => ~g.moves /\ g.payload.type \in {Keep} \cup Containers
      BY <3>2, <3>4, <3>7
    <3> QED BY <3>8, <3>9
  <2> QED BY <2>0, <2>1, <2>2, FlightStep
<1> QED BY <1>1 DEF SeenChildrenKeep

LEMMA MisfitStep ==
    ASSUME RaceInv, TypeInv, InTimeIsAccepted, Next
    PROVE  MisfitTakesRace'
<1>1. crossed \subseteq crossed' /\ skewed \subseteq skewed' /\ Existing \subseteq Existing'
      /\ Existing \subseteq Assets
  BY Histories, RowsStayTyped DEF Existing
<1>2. ASSUME assets' = assets
      PROVE  MisfitTakesRace'
  BY <1>1, <1>2 DEF RaceInv, MisfitTakesRace, Fits, Existing
<1>3. ASSUME NEW c \in Existing, c \notin skewed', assets[c].parent \notin crossed',
             assets'[c].sector = assets[c].sector, assets'[c].parent = assets[c].parent,
             assets'[c].type = assets[c].type
      PROVE  Fits(assets[c])'
  <2> SUFFICES ASSUME assets[c].parent # None PROVE Fits(assets[c])'
    BY <1>3 DEF Fits
  <2> DEFINE p == assets[c].parent
  <2>1. /\ p \in Existing
        /\ assets[p].sector = assets[c].sector
        /\ assets[p].type \in Containers /\ assets[c].type \in Contained
    BY <1>1, <1>3 DEF RaceInv, MisfitTakesRace, Fits
  <2>2. Children(p) # {}
    BY DEF Children
  <2>3. assets'[p].sector = assets[p].sector /\ assets'[p].type \in Containers
    BY <1>3, <2>1, <2>2, ParentKept DEF RaceInv
  <2> QED BY <1>1, <1>3, <2>1, <2>3 DEF Fits
<1>4. ASSUME NEW r \in Requests, CommitWrite(r), NEW b, b = requests[r].on, b \notin skewed'
      PROVE  Fits(assets[b])'
  <2> DEFINE p == Written(r).parent
  <2>1. TriggersAccept(b, Written(r))
    BY <1>4, Histories DEF CommitWrite, InTimeIsAccepted, Accepted, Written
  <2>6. assets'[b] = Written(r)
    BY <1>4, Committed
  <2> SUFFICES ASSUME p # None PROVE Fits(assets[b])'
    BY <2>6 DEF Fits
  <2>3. p # b
    BY <2>1 DEF TriggersAccept
  <2>4. Fits(Written(r))
    BY <2>1 DEF TriggersAccept
  <2>5. /\ p \in Existing /\ assets'[p] = assets[p]
        /\ assets[p].sector = Written(r).sector
        /\ assets[p].type \in Containers /\ Written(r).type \in Contained
    BY <1>1, <1>4, <2>3, <2>4, Committed DEF Fits
  <2> QED BY <1>1, <2>5, <2>6 DEF Fits
<1>5. ASSUME NEW r \in Requests, CommitWrite(r)
      PROVE  MisfitTakesRace'
  <2>1. \A c \in Existing' : c # requests[r].on => c \in Existing /\ assets'[c] = assets[c]
    BY <1>5, Committed DEF Existing
  <2> QED BY <1>3, <1>4, <1>5, <2>1 DEF MisfitTakesRace
<1>6. ASSUME NEW r \in Requests, Cascade(r)
      PROVE  MisfitTakesRace'
  BY <1>3, <1>6, Cascaded DEF MisfitTakesRace
<1>7. ASSUME NEW node \in Assets, NEW device \in Assets, NEW s \in Sectors, Bootstrap(node, device, s)
      PROVE  MisfitTakesRace'
  <2>1. Fits(assets[node])' /\ Fits(assets[device])'
    BY <1>7, Bootstrapped DEF Fits, Containers, Contained
  <2>2. \A c \in Existing' : c \notin {node, device} => c \in Existing /\ assets'[c] = assets[c]
    BY <1>7, Bootstrapped DEF Existing
  <2> QED BY <1>3, <2>1, <2>2 DEF MisfitTakesRace
<1> QED BY <1>2, <1>5, <1>6, <1>7, RowsStep

LEMMA RaceInvHolds == Spec => [](TypeInv /\ InTimeIsAccepted /\ RaceInv)
<1>1. Init => InTimeIsAccepted /\ RaceInv
  BY DEF Init, InTimeIsAccepted, RaceInv, SeenChildrenKeep, UpdateOf,
         MisfitTakesRace, Existing
<1>2. RaceInv /\ InTimeIsAccepted /\ TypeInv /\ [Next]_vars => RaceInv'
  <2> SUFFICES ASSUME RaceInv, InTimeIsAccepted, TypeInv, [Next]_vars
               PROVE  RaceInv'
    OBVIOUS
  <2>1. CASE Next
    BY <2>1, SeenChildrenStep, MisfitStep DEF RaceInv
  <2>2. CASE UNCHANGED vars
    BY <2>2 DEF vars, RaceInv, SeenChildrenKeep, UpdateOf, MisfitTakesRace,
                Fits, Children, Existing
  <2> QED BY <2>1, <2>2
<1> QED BY <1>1, <1>2, InTimeStep, TypeInvHolds, PTL DEF Spec

\* A child that does not fit its parent is a skewed write, or its parent was
\* updated by a request that had missed a child.
THEOREM MisfitTakesRaceHolds == Spec => []MisfitTakesRace
<1>1. RaceInv => MisfitTakesRace
  BY DEF RaceInv
<1> QED BY <1>1, RaceInvHolds, PTL

-----------------------------------------------------------------------------
(***************************************************************************)
(* Assets that change their sector.                                        *)
(***************************************************************************)

\* An update that moves its asset has found no child, but those it has missed,
\* and no link, or one of its links was written since.
MoveHasSeenAll == \A q \in Requests, a \in Assets :
    /\ UpdateOf(q, a) /\ a \notin requests[q].missed
    /\ requests[q].payload.sector \notin {Keep, assets[a].sector}
    => /\ requests[q].moves
       /\ requests[q].stage # "children" => Children(a) \subseteq requests[q].missed
       /\ requests[q].stage \notin {"children", "links"} => links[a] = None \/ requests[q].linked

LEMMA MoveHasSeenStep ==
    ASSUME MoveHasSeenAll, TypeInv, Next
    PROVE  MoveHasSeenAll'
<1>1. ASSUME NEW q \in Requests, NEW a \in Assets, UpdateOf(q, a)', a \notin requests'[q].missed,
             requests'[q].payload.sector \notin {Keep, assets'[a].sector}
      PROVE  /\ requests'[q].moves
             /\ requests'[q].stage # "children" => Children(a)' \subseteq requests'[q].missed
             /\ requests'[q].stage \notin {"children", "links"} => links'[a] = None \/ requests'[q].linked
  <2>0. requests'[q] # None /\ requests'[q].op = "update" /\ requests'[q].on = a
    BY <1>1 DEF UpdateOf
  <2>1. CASE Began(q)
    BY <1>1, <2>1, BeganMove
  <2>2. CASE requests[q] # None /\ Continues(requests[q], requests'[q])
    <3> DEFINE f == requests[q]
               g == requests'[q]
    <3>1. /\ UpdateOf(q, a) /\ f.on = a
          /\ g.payload = f.payload /\ g.moves = f.moves
          /\ f.missed \subseteq g.missed
          /\ assets'[a] = assets[a]
          /\ f.linked => g.linked
          /\ links[a] = None => links'[a] = None \/ g.linked
      BY <1>1, <2>0, <2>2 DEF Continues, Tells, UpdateOf
    <3>2. /\ f.moves
          /\ f.stage # "children" => Children(a) \subseteq f.missed
          /\ f.stage \notin {"children", "links"} => links[a] = None \/ f.linked
      BY <1>1, <3>1 DEF MoveHasSeenAll
    <3>3. g.stage = f.stage \/ Finds(f, g.stage)
      BY <2>2 DEF Continues, Advances
    <3>4. g.stage # "children" => Children(a) \subseteq f.missed
      BY <3>1, <3>2, <3>3 DEF Finds
    <3>5. g.stage # "children" => Children(a)' \subseteq g.missed
      BY <2>2, <3>4, ChildNotMissed
    <3>6. g.stage \notin {"children", "links"} => links[a] = None \/ f.linked
      BY <3>1, <3>2, <3>3 DEF Finds
    <3>7. g.stage \notin {"children", "links"} => links'[a] = None \/ g.linked
      BY <3>1, <3>6
    <3> QED BY <3>1, <3>2, <3>5, <3>7
  <2> QED BY <2>0, <2>1, <2>2, FlightStep
<1> QED BY <1>1 DEF MoveHasSeenAll

\* An asset leaves its sector without children and a link, or one of these was
\* written while its update was under way.
THEOREM SectorMoveIsCleanHolds == Spec => SectorMoveIsClean
<1> DEFINE Race(r, a) == /\ requests[r] # None /\ requests[r].op = "update" /\ requests[r].on = a
                         /\ \/ requests[r].linked
                            \/ requests[r].missed \cap ({a} \cup Children(a)) # {}
           Clean == \A a \in Existing : assets'[a].sector # assets[a].sector =>
                        \/ Children(a) = {} /\ links[a] = None
                        \/ \E r \in Requests : Race(r, a)
<1>1. Init => MoveHasSeenAll
  BY DEF Init, MoveHasSeenAll, UpdateOf
<1>2. MoveHasSeenAll /\ TypeInv /\ [Next]_vars => MoveHasSeenAll'
  <2>1. MoveHasSeenAll /\ UNCHANGED vars => MoveHasSeenAll'
    BY DEF vars, MoveHasSeenAll, UpdateOf, Children, Existing
  <2> QED BY <2>1, MoveHasSeenStep
<1>3. MoveHasSeenAll /\ TypeInv /\ [Next]_vars => [Clean]_vars
  <2> SUFFICES ASSUME MoveHasSeenAll, TypeInv, Next, NEW a \in Existing,
                      assets'[a].sector # assets[a].sector
               PROVE  \/ Children(a) = {} /\ links[a] = None
                      \/ \E r \in Requests : Race(r, a)
    OBVIOUS
  <2>1. a \in Assets
    BY DEF Existing
  <2>2. PICK r \in Requests : CommitWrite(r) /\ requests[r].on = a
    BY <2>1, RowsStep, Cascaded, Bootstrapped, Committed
  <2>3. requests[r] # None /\ requests[r].stage = "commit"
    BY <2>2 DEF CommitWrite
  <2>4. requests[r].op = "update"
    BY <2>2, <2>3, WrittenRow
  <2>5. requests[r].payload.sector \notin {Keep, assets[a].sector}
    BY <2>2, <2>3, <2>4, WrittenRow, Committed
  <2>6. \/ a \in requests[r].missed
        \/ Children(a) \subseteq requests[r].missed /\ (links[a] = None \/ requests[r].linked)
    BY <2>1, <2>2, <2>3, <2>4, <2>5 DEF MoveHasSeenAll, UpdateOf
  <2> QED BY <2>2, <2>3, <2>4, <2>6
<1> QED BY <1>1, <1>2, <1>3, TypeInvHolds, PTL DEF Spec, SectorMoveIsClean

-----------------------------------------------------------------------------
(***************************************************************************)
(* Parent cycles.                                                          *)
(***************************************************************************)

\* The parent that an update is about to write was not below its asset when it
\* read the tree, and is not now but by way of an asset moved since.
NotSeenUnder == \A q \in Requests :
    /\ requests[q] # None /\ requests[q].op = "update"
    /\ requests[q].stage \in {"write", "commit"}
    => requests[q].payload.parent \notin Below(Kept(Parent, requests[q].moved), requests[q].on)

LEMMA NotSeenStep ==
    ASSUME NotSeenUnder, TypeInv, Next
    PROVE  NotSeenUnder'
<1>1. ASSUME NEW q \in Requests, requests'[q] # None, requests'[q].op = "update",
             requests'[q].stage \in {"write", "commit"}
      PROVE  requests'[q].payload.parent \notin Below(Kept(Parent', requests'[q].moved), requests'[q].on)
  <2>1. CASE Began(q)
    BY <1>1, <2>1, BeganFlight
  <2>2. CASE requests[q] # None /\ Continues(requests[q], requests'[q])
    <3> DEFINE f == requests[q]
               g == requests'[q]
    <3>1. /\ g.on = f.on /\ g.payload = f.payload /\ f.op = "update"
          /\ g.stage = f.stage \/ (Finds(f, g.stage) /\ assets' = assets)
      BY <1>1, <2>2 DEF Continues, Advances
    <3>2. /\ f.on \in Assets /\ f.target \in Rows
          /\ f.payload.parent # Keep => f.target.parent = f.payload.parent
      BY <2>2, <3>1 DEF TypeInv, FlightsFit, FlightFits
    <3>3. CASE f.stage \in {"write", "commit"}
      <4>1. f.moved \subseteq g.moved /\ \A c \in Assets : c \notin g.moved => Parent'[c] = Parent[c]
        BY <2>2, <3>3 DEF Continues, Tells
      <4>2. \A c \in Assets : c \notin g.moved => Kept(Parent, f.moved)[c] = Parent'[c]
        BY <4>1 DEF Kept
      <4>3. Below(Kept(Parent', g.moved), f.on) \subseteq Below(Kept(Parent, f.moved), f.on)
        BY <3>2, <4>2, KeptBelow
      <4> QED BY <2>2, <3>1, <3>3, <4>3 DEF NotSeenUnder
    <3>4. CASE f.stage \notin {"write", "commit"}
      <4>1. Below(Kept(Parent', g.moved), f.on) \subseteq Below(Parent', f.on)
        BY <3>2, KeptBelow
      <4>2. Below(Parent', f.on) \subseteq Assets
        BY <3>2, BelowIsLeast
      <4>3. f.target.parent = None \/ f.target.parent \notin Tree(f.on)
        BY <1>1, <3>1, <3>4 DEF Finds
      <4>4. CASE f.payload.parent = Keep \/ f.target.parent = None
        <5>1. f.payload.parent \in {Keep, None}
          BY <3>2, <4>4
        <5> QED BY <3>1, <4>1, <4>2, <5>1, HierarchyAssumption
      <4>5. CASE f.payload.parent = f.target.parent /\ f.target.parent \notin Tree(f.on)
        <5>1. Parent' = Parent
          BY <1>1, <3>1, <3>4, SameParents
        <5>2. Tree(f.on) = Below(Parent', f.on)
          BY <3>2, <5>1, TreeIsBelow
        <5> QED BY <3>1, <4>1, <4>5, <5>2
      <4> QED BY <3>2, <4>3, <4>4, <4>5
    <3> QED BY <3>3, <3>4
  <2> QED BY <1>1, <2>1, <2>2, FlightStep
<1> QED BY <1>1 DEF NotSeenUnder

LEMMA CycleIsBelowNext ==
    ASSUME NEW a \in Assets
    PROVE  OnCycle(a)' <=> Parent'[a] \in Below(Parent', a)
<1>1. Tree(a)' = Below(Parent', a) /\ Below(Parent', a) \subseteq Assets
  BY TreeIsBelowNext, BelowIsLeast
<1> QED BY <1>1, HierarchyAssumption DEF OnCycle, Parent

\* A row that is new is nobody's parent yet.
LEMMA NewIsAlone ==
    ASSUME TypeInv, NEW a \in Assets, a \notin Existing, NEW c \in Assets
    PROVE  Parent[c] # a
BY HierarchyAssumption DEF TypeInv, ParentsExist, Parent

\* What closes a cycle when the write of b's parent is committed: another asset
\* of the cycle that has moved since the update read the tree.
LEMMA ClosedByMoved ==
    ASSUME NotSeenUnder, TypeInv, NEW r \in Requests, CommitWrite(r),
           NEW a, a = requests[r].on, OnCycle(a)',
           ~(a \in Existing /\ assets'[a].parent = assets[a].parent)
    PROVE  /\ requests[r].op = "update"
           /\ \E b \in requests[r].moved \ {a} : b \in Tree(a)' /\ a \in Tree(b)'
<1> DEFINE f == requests[r]
           p == Written(r).parent
<1>1. f # None /\ f.stage = "commit" /\ f \in Flights
  BY DEF CommitWrite, TypeInv, HierarchyTypeOK
<1>2. /\ a \in Assets
      /\ Parent'[a] = p /\ p # a
      /\ \A c \in Assets : c # a => Parent'[c] = Parent[c]
  BY <1>1, WrittenRow, Committed, HierarchyAssumption
<1>3. p \in Below(Parent', a) /\ Tree(a)' = Below(Parent', a)
  BY <1>2, CycleIsBelowNext, TreeIsBelowNext
<1>4. Below(Parent', a) = Below(Parent, a)
  BY <1>2, SameBelow
<1>5. f.op = "update"
  <2> SUFFICES ASSUME f.op # "update" PROVE FALSE
    OBVIOUS
  <2>1. a \notin Existing
    BY <1>1, WrittenRow
  <2>2. \A c \in Assets : Parent[c] # a
    BY <1>2, <2>1, NewIsAlone
  <2>3. Below(Parent, a) = {a}
    BY <1>2, <2>2, AloneBelow
  <2> QED BY <1>2, <1>3, <1>4, <2>3
<1>6. f.payload.parent = p
  BY <1>1, <1>5, WrittenRow, Committed
<1>7. p \notin Below(Kept(Parent, f.moved), a)
  BY <1>1, <1>5, <1>6 DEF NotSeenUnder
<1>8. p \in Below(Parent, a)
  BY <1>3, <1>4
<1> HIDE DEF f, p
<1>9. PICK b \in f.moved \ {a} : b \in Below(Parent, a) /\ p \in Below(Kept(Parent, {a}), b)
  BY <1>2, <1>7, <1>8, BelowThroughForgotten
<1>10. b \in Assets
  BY <1>2, <1>9, BelowIsLeast
<1>11. Below(Kept(Parent, {a}), b) \subseteq Below(Parent', b)
  BY <1>2, <1>10, KeptBelow
<1>12. a \in Below(Parent', b)
  BY <1>2, <1>9, <1>10, <1>11, BelowIsLeast DEF Closed
<1>13. Tree(b)' = Below(Parent', b)
  BY <1>10, TreeIsBelowNext
<1>14. b \in Tree(a)' /\ a \in Tree(b)'
  BY <1>3, <1>4, <1>9, <1>12, <1>13
<1> QED BY <1>5, <1>9, <1>14 DEF f

\* An update that closes a parent cycle has not seen another asset of the cycle
\* where it is now.
THEOREM CycleTakesRaceHolds == Spec => CycleTakesRace
<1> DEFINE Raced(a) == \E r \in Requests :
                /\ CommitWrite(r) /\ requests[r].op = "update" /\ requests[r].on = a
                /\ \E b \in requests[r].moved \ {a} : b \in Tree(a)' /\ a \in Tree(b)'
           Race == \A a \in Assets :
                OnCycle(a)' /\ ~(a \in Existing /\ assets'[a].parent = assets[a].parent) => Raced(a)
<1>1. Init => NotSeenUnder
  BY DEF Init, NotSeenUnder
<1>2. NotSeenUnder /\ TypeInv /\ [Next]_vars => NotSeenUnder'
  <2>1. NotSeenUnder /\ UNCHANGED vars => NotSeenUnder'
    <3> SUFFICES ASSUME NotSeenUnder, UNCHANGED vars PROVE NotSeenUnder'
      OBVIOUS
    <3>1. Parent' = Parent /\ requests' = requests
      BY SameParents DEF vars
    <3> QED BY <3>1 DEF NotSeenUnder
  <2> QED BY <2>1, NotSeenStep
<1>3. NotSeenUnder /\ TypeInv /\ [Next]_vars => [Race]_vars
  <2> SUFFICES ASSUME NotSeenUnder, TypeInv, Next, NEW a \in Assets, OnCycle(a)',
                      ~(a \in Existing /\ assets'[a].parent = assets[a].parent)
               PROVE  Raced(a)
    OBVIOUS
  <2>1. a \in Existing'
    BY DEF OnCycle
  <2>2. ASSUME a \in Existing' => a \in Existing /\ assets'[a].parent = assets[a].parent
        PROVE  Raced(a)
    BY <2>1, <2>2
  <2>3. CASE assets' = assets
    BY <2>2, <2>3 DEF Existing
  <2>4. ASSUME NEW r \in Requests, CommitWrite(r)
        PROVE  Raced(a)
    <3>1. CASE requests[r].on = a
      BY <2>4, <3>1, ClosedByMoved
    <3>2. CASE requests[r].on # a
      BY <2>2, <2>4, <3>2, Committed DEF Existing
    <3> QED BY <3>1, <3>2
  <2>5. ASSUME NEW r \in Requests, Cascade(r)
        PROVE  Raced(a)
    BY <2>2, <2>5, Cascaded
  <2>6. ASSUME NEW node \in Assets, NEW device \in Assets, NEW s \in Sectors, Bootstrap(node, device, s)
        PROVE  Raced(a)
    <3>1. CASE a \notin {node, device}
      BY <2>2, <2>6, <3>1, Bootstrapped DEF Existing
    <3>2. CASE a = node
      <4>1. assets'[node].parent = None
        BY <2>6, Bootstrapped
      <4>2. Tree(node)' \subseteq Assets
        BY TreeIsBelowNext, BelowIsLeast
      <4>3. None \in Tree(node)'
        BY <3>2, <4>1 DEF OnCycle
      <4> QED BY <4>2, <4>3, HierarchyAssumption
    <3>3. CASE a = device
      <4>1. \A c \in Assets : Parent'[c] # device
        BY <2>6, Bootstrapped, NewIsAlone
      <4>2. Below(Parent', device) = {device}
        BY <4>1, AloneBelow
      <4>3. Parent'[device] \in Below(Parent', device) /\ Parent'[device] = node /\ node # device
        BY <2>6, <3>3, CycleIsBelowNext, Bootstrapped
      <4> QED BY <4>2, <4>3
    <3> QED BY <3>1, <3>2, <3>3
  <2> QED BY <2>3, <2>4, <2>5, <2>6, RowsStep
<1> QED BY <1>1, <1>2, <1>3, TypeInvHolds, PTL DEF Spec, CycleTakesRace

-----------------------------------------------------------------------------
(***************************************************************************)
(* What a cascade reaches.                                                 *)
(***************************************************************************)

\* No step gives two assets that were there another parent.
LEMMA OneParentIsWritten ==
    ASSUME TypeInv, Next
    PROVE  \/ Parent' = Parent
           \/ \E b \in Assets :
                 /\ \A c \in Assets : c # b => Parent'[c] = Parent[c]
                 /\ assets'[b] # assets[b]
<1>1. ASSUME assets' = assets
      PROVE  Parent' = Parent
  BY <1>1, SameParents
<1>2. ASSUME NEW b \in Assets, assets'[b] = assets[b], \A c \in Assets : c # b => Parent'[c] = Parent[c]
      PROVE  Parent' = Parent
  <2>1. Parent'[b] = Parent[b]
    BY <1>2 DEF Parent, Existing
  <2>2. \A c \in Assets : Parent'[c] = Parent[c]
    BY <1>2, <2>1
  <2> QED BY <2>2 DEF Parent
<1>3. ASSUME NEW r \in Requests, CommitWrite(r)
      PROVE  requests[r].on \in Assets /\ \A c \in Assets : c # requests[r].on => Parent'[c] = Parent[c]
  BY <1>3, Committed, WrittenRow DEF CommitWrite
<1>4. ASSUME NEW node \in Assets, NEW device \in Assets, NEW s \in Sectors, Bootstrap(node, device, s)
      PROVE  \A c \in Assets : c # device => Parent'[c] = Parent[c]
  BY <1>4, Bootstrapped
<1>5. ASSUME NEW r \in Requests, Cascade(r)
      PROVE  Parent' = Parent
  BY <1>5, Cascaded
<1> QED BY <1>1, <1>2, <1>3, <1>4, <1>5, RowsStep

\* What a sweep has read of its scope, and what it has missed, is all of it.
TreeIsRead(q) == \A a \in Tree(requests[q].on) :
    a \in requests[q].ids \/ \E m \in requests[q].missed : a \in Tree(m)

SectorIsRead(q) == \A a \in Existing :
    assets[a].sector = requests[q].on /\ assets[a].listed =>
        a \in requests[q].ids \cup requests[q].missed

SweepHasRead == \A q \in Requests : requests[q] # None =>
    /\ requests[q].op = "delete" => TreeIsRead(q)
    /\ requests[q].op = "softDelete" => SectorIsRead(q)

LEMMA TreeStaysRead ==
    ASSUME SweepHasRead, TypeInv, Next,
           NEW q \in Requests, requests'[q] # None, requests'[q].op = "delete"
    PROVE  TreeIsRead(q)'
<1>0. \A x \in Assets : Tree(x) = Below(Parent, x) /\ Tree(x)' = Below(Parent', x)
  BY TreeIsBelow, TreeIsBelowNext
<1>1. CASE Began(q)
  <2>1. requests'[q].on \in Assets /\ requests'[q].ids = Tree(requests'[q].on)
    BY <1>1, BeganFlight DEF Existing
  <2>2. Parent' = Parent
    BY <1>1, SameParents DEF Began
  <2>3. \A a \in Tree(requests[q].on)' : a \in requests'[q].ids
    BY <1>0, <2>1, <2>2
  <2> QED BY <2>3 DEF TreeIsRead
<1>2. CASE requests[q] # None /\ Continues(requests[q], requests'[q])
  <2> DEFINE f == requests[q]
             g == requests'[q]
  <2>1. /\ g.on = f.on /\ g.ids = f.ids /\ f.missed \subseteq g.missed /\ f.op = "delete"
        /\ \A a \in Assets : assets'[a] # assets[a] => a \in g.missed
        /\ f.on \in Assets /\ g.missed \subseteq Assets
    BY <1>2 DEF Continues, Tells, TypeInv, FlightsFit, FlightFits, Existing, Flights
  <2>2. \A a \in Below(Parent, f.on) : a \in f.ids \/ \E m \in f.missed : a \in Below(Parent, m)
    BY <1>0, <1>2, <2>1 DEF SweepHasRead, TreeIsRead
  <2>3. \A a \in Below(Parent', g.on) : a \in g.ids \/ \E m \in g.missed : a \in Below(Parent', m)
    <3>1. CASE Parent' = Parent
      BY <2>1, <2>2, <3>1
    <3>2. ASSUME NEW b \in Assets, \A c \in Assets : c # b => Parent'[c] = Parent[c],
                 assets'[b] # assets[b], NEW a \in Below(Parent', g.on)
          PROVE  a \in g.ids \/ \E m \in g.missed : a \in Below(Parent', m)
      <4>1. b \in g.missed
        BY <2>1, <3>2
      <4>2. /\ Below(Parent', b) = Below(Parent, b)
            /\ \A x \in Assets : Below(Parent', x) \subseteq Below(Parent, x) \cup Below(Parent, b)
            /\ \A x \in Assets : Below(Parent, x) \subseteq Below(Parent', x) \cup Below(Parent, b)
        BY <3>2, SameBelow
      <4>3. CASE a \in Below(Parent, b)
        BY <4>1, <4>2, <4>3
      <4>4. CASE a \notin Below(Parent, b)
        <5>1. a \in Below(Parent, f.on)
          BY <2>1, <3>2, <4>2, <4>4
        <5>2. ASSUME NEW m \in f.missed, a \in Below(Parent, m)
              PROVE  m \in g.missed /\ a \in Below(Parent', m)
          BY <2>1, <4>2, <4>4, <5>2
        <5> QED BY <2>1, <2>2, <5>1, <5>2
      <4> QED BY <4>3, <4>4
    <3> QED BY <3>1, <3>2, OneParentIsWritten
  <2>4. Tree(requests[q].on)' = Below(Parent', g.on)
    BY <1>0, <2>1
  <2>5. \A m \in g.missed : Tree(m)' = Below(Parent', m)
    BY <1>0, <2>1
  <2> QED BY <2>3, <2>4, <2>5 DEF TreeIsRead
<1> QED BY <1>1, <1>2, FlightStep

LEMMA SectorStaysRead ==
    ASSUME SweepHasRead, TypeInv, Next,
           NEW q \in Requests, requests'[q] # None, requests'[q].op = "softDelete"
    PROVE  SectorIsRead(q)'
<1>1. CASE Began(q)
  <2>1. requests'[q].ids = {a \in Existing : assets[a].sector = requests'[q].on /\ assets[a].listed}
        /\ assets' = assets
    BY <1>1, BeganFlight DEF Began
  <2> QED BY <2>1 DEF SectorIsRead, Existing
<1>2. CASE requests[q] # None /\ Continues(requests[q], requests'[q])
  <2>1. /\ requests'[q].on = requests[q].on /\ requests'[q].ids = requests[q].ids
        /\ requests[q].missed \subseteq requests'[q].missed
        /\ \A a \in Assets : assets'[a] # assets[a] => a \in requests'[q].missed
        /\ SectorIsRead(q)
    BY <1>2 DEF Continues, Tells, SweepHasRead
  <2> QED BY <2>1 DEF SectorIsRead, Existing
<1> QED BY <1>1, <1>2, FlightStep

\* A cascade takes everything of its scope off the list, and its links, but what
\* was written since its reads, and what is under that in a tree.
THEOREM CascadeReachesAllHolds == Spec => CascadeReachesAll
<1> DEFINE Scope(r) == CASE requests[r].op = "delete" -> Tree(requests[r].on)
                         [] requests[r].op = "softDelete" ->
                               {a \in Existing : assets[a].sector = requests[r].on /\ assets[a].listed}
                         [] OTHER -> Existing
           Off(a) == ~assets'[a].listed /\ (links'[a] # None => ~links'[a].active)
           Missed(r, a) == \E m \in requests[r].missed :
                               a = m \/ (requests[r].op = "delete" /\ a \in Tree(m))
           Reaches == \A r \in Requests : Cascade(r) =>
                         /\ \A a \in Scope(r) : Off(a) \/ Missed(r, a)
                         /\ \A a \in Assets : links[a] # None /\ links[a].sector = requests[r].on =>
                               ~links'[a].active
<1>1. Init => SweepHasRead
  BY DEF Init, SweepHasRead
<1>2. SweepHasRead /\ TypeInv /\ [Next]_vars => SweepHasRead'
  <2>1. SweepHasRead /\ UNCHANGED vars => SweepHasRead'
    BY DEF vars, SweepHasRead, TreeIsRead, SectorIsRead, Tree, Existing
  <2> QED BY <2>1, TreeStaysRead, SectorStaysRead DEF SweepHasRead
<1>3. SweepHasRead /\ TypeInv /\ [Next]_vars => [Reaches]_vars
  <2> SUFFICES ASSUME SweepHasRead, TypeInv, NEW r \in Requests, Cascade(r)
               PROVE  /\ \A a \in Scope(r) : Off(a) \/ Missed(r, a)
                      /\ \A a \in Assets : links[a] # None /\ links[a].sector = requests[r].on =>
                            ~links'[a].active
    OBVIOUS
  <2>0. requests[r] # None /\ requests[r] \in Flights /\ FlightFits(requests[r])
    BY DEF Cascade, TypeInv, HierarchyTypeOK, FlightsFit
  <2>1. \A a \in Existing : a \in Swept(r) => Off(a)
    BY Cascaded
  <2>2. ASSUME NEW a \in Scope(r)
        PROVE  Off(a) \/ Missed(r, a)
    <3>1. CASE requests[r].op = "delete"
      <4>1. requests[r].on \in Existing /\ Swept(r) = requests[r].ids
        BY <2>0, <3>1 DEF FlightFits, Swept
      <4>2. a \in Tree(requests[r].on) /\ a \in Existing
        BY <2>2, <3>1, <4>1, TreeExists
      <4> QED BY <2>0, <2>1, <3>1, <4>1, <4>2 DEF SweepHasRead, TreeIsRead
    <3>2. CASE requests[r].op = "softDelete"
      <4>1. a \in Existing /\ assets[a].sector = requests[r].on /\ assets[a].listed
            /\ Swept(r) = requests[r].ids
        BY <2>2, <3>2 DEF Swept
      <4> QED BY <2>0, <2>1, <3>2, <4>1 DEF SweepHasRead, SectorIsRead
    <3>3. CASE requests[r].op \notin {"delete", "softDelete"}
      <4>1. a \in Existing /\ requests[r].op = "archive"
        BY <2>0, <2>2, <3>3 DEF Flights, FlightFits, Cascade
      <4> QED BY <2>1, <4>1 DEF Swept
    <3> QED BY <3>1, <3>2, <3>3
  <2> QED BY <2>2, Cascaded
<1> QED BY <1>1, <1>2, <1>3, TypeInvHolds, PTL DEF Spec, CascadeReachesAll
===============================================================================
