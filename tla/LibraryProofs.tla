---------------------------- MODULE LibraryProofs ----------------------------
(***************************************************************************)
(* Proofs about articles and exports, for any number of requests, titles,  *)
(* tags, articles and faults.                                              *)
(***************************************************************************)
EXTENDS LibraryProps, FiniteSetTheorems, TLAPS

\* What the tables hold beyond their types.
RowsTyped == /\ TableType
             /\ \A a \in ArticleIds : /\ a <= count => title[a] \in Titles /\ tag[a] \in Tags
                                      /\ count < a => slugBase[a] = None /\ slugNumber[a] = 0

\* What a request holds where it stands: one that looks for a slug has found every
\* lower number taken.
Ready(r) ==
    LET x == local[r]
    IN  /\ pc[r] # "idle" => x.title \in Titles /\ x.tag \in Tags
        /\ pc[r] \in Converting => /\ x.number \in 1..MaxArticles + 1
                                   /\ \A i \in 1..x.number - 1 : SlugTaken(x.title, i)
        /\ pc[r] \in Exporting \cup {"update"} => x.item \in ArticleIds /\ x.item <= count
        /\ pc[r] \in {"write", "read", "backup", "note", "row"} => x.number \in Numbers

RequestType == /\ pc \in [Requests -> Control]
               /\ local \in [Requests -> Locals]
               /\ events \in 0..MaxEvents

RequestsTyped == RequestType /\ \A r \in Requests : Ready(r)

Typed == RowsTyped /\ VaultType /\ ExportType /\ RequestsTyped

-----------------------------------------------------------------------------
\* The search for a slug.

\* Each number of a title is that of another article.
LEMMA SlugsAreFew ==
    ASSUME RowsTyped, NEW base \in Titles, NEW n \in Nat, \A i \in 1..n : SlugTaken(base, i)
    PROVE  n <= count
<1> SUFFICES ASSUME count < n PROVE FALSE
    BY DEF RowsTyped, TableType
<1>0. count \in Nat /\ count <= MaxArticles /\ None \notin Titles
    BY LibraryAssumption DEF RowsTyped, TableType
<1> DEFINE f == [i \in 1..n |-> CHOOSE a \in ArticleIds : slugBase[a] = base /\ slugNumber[a] = i]
<1>1. ASSUME NEW i \in 1..n PROVE f[i] \in ArticleIds /\ slugBase[f[i]] = base /\ slugNumber[f[i]] = i
    BY DEF SlugTaken
<1> HIDE DEF f
<1>2. f \in [1..n -> 1..count]
    <2>1. ASSUME NEW i \in 1..n PROVE f[i] \in 1..count
        <3>1. f[i] \in ArticleIds /\ slugBase[f[i]] # None
            BY <1>0, <1>1
        <3> QED BY <1>0, <3>1 DEF RowsTyped, ArticleIds
    <2> QED BY <2>1 DEF f
<1>3. IsFiniteSet(1..n) /\ IsFiniteSet(1..count) /\ Cardinality(1..count) < Cardinality(1..n)
    <2>1. IsFiniteSet(1..n) /\ Cardinality(1..n) = n
        BY <1>0, FS_Interval
    <2>2. IsFiniteSet(1..count) /\ Cardinality(1..count) = count
        BY <1>0, FS_Interval
    <2> QED BY <2>1, <2>2
<1>4. PICK i, j \in 1..n : i # j /\ f[i] = f[j]
    BY <1>2, <1>3, FS_PigeonHole
<1> QED BY <1>1, <1>4

-----------------------------------------------------------------------------
\* Steps of one request.

LEMMA NoLocalsTyped == NoLocals \in Locals
<1>1. 0 \in 0..MaxNumber + 1
    BY LibraryAssumption
<1> QED BY <1>1 DEF NoLocals, Locals

LEMMA GoesTyped ==
    ASSUME RequestsTyped, NEW r \in Requests, NEW l \in Control, NEW x \in Locals, Goes(r, l, x)
    PROVE  /\ pc' \in [Requests -> Control] /\ local' \in [Requests -> Locals]
           /\ pc'[r] = l /\ local'[r] = x
           /\ \A q \in Requests \ {r} : pc'[q] = pc[q] /\ local'[q] = local[q]
BY DEF Goes, RequestsTyped, RequestType

LEMMA EndsTyped ==
    ASSUME RequestsTyped, NEW r \in Requests, Ends(r)
    PROVE  /\ pc' \in [Requests -> Control] /\ local' \in [Requests -> Locals]
           /\ pc'[r] = "idle"
           /\ \A q \in Requests \ {r} : pc'[q] = pc[q] /\ local'[q] = local[q]
<1>1. "idle" \in Control
    BY DEF Control
<1> QED BY <1>1, NoLocalsTyped, GoesTyped DEF Ends

\* The tables only grow: what a request holds stays good.
Grows == /\ count <= count' /\ count' \in Int
         /\ \A a \in ArticleIds : a <= count => slugBase'[a] = slugBase[a] /\ slugNumber'[a] = slugNumber[a]

LEMMA SlugsStayTaken ==
    ASSUME RowsTyped, Grows, NEW base \in Titles, NEW n, SlugTaken(base, n)
    PROVE  SlugTaken(base, n)'
<1>1. PICK a \in ArticleIds : slugBase[a] = base /\ slugNumber[a] = n
    BY DEF SlugTaken
<1>2. a <= count
    BY <1>1, LibraryAssumption DEF RowsTyped, TableType, ArticleIds
<1> QED BY <1>1, <1>2 DEF Grows, SlugTaken

LEMMA ReadyStays ==
    ASSUME RowsTyped, Grows, NEW q \in Requests, Ready(q), pc'[q] = pc[q], local'[q] = local[q]
    PROVE  Ready(q)'
<1>1. pc[q] \in Converting => \A i \in 1..local[q].number - 1 : SlugTaken(local[q].title, i)'
    <2> SUFFICES ASSUME pc[q] \in Converting, NEW i \in 1..local[q].number - 1
                 PROVE  SlugTaken(local[q].title, i)'
        OBVIOUS
    <2>1. local[q].title \in Titles /\ SlugTaken(local[q].title, i)
        BY DEF Ready, Converting
    <2> QED BY <2>1, SlugsStayTaken
<1>2. count \in Int
    BY DEF RowsTyped, TableType
<1> QED BY <1>1, <1>2 DEF Ready, Grows, ArticleIds, SlugTaken

LEMMA SameGrows == RowsTyped /\ UNCHANGED tableVars => Grows
BY DEF RowsTyped, TableType, tableVars, Grows

LEMMA SameRows == RowsTyped /\ UNCHANGED <<tableVars, crossed>> => RowsTyped'
BY DEF RowsTyped, TableType, tableVars

LEMMA SameVault == VaultType /\ UNCHANGED vaultVars => VaultType'
BY DEF VaultType, vaultVars

LEMMA SameExports == ExportType /\ UNCHANGED exportVars => ExportType'
BY DEF ExportType, exportVars

\* A step that changes no table, and one request.
LEMMA OnTyped ==
    ASSUME RowsTyped, Grows, RequestsTyped, NEW r \in Requests, NEW l \in Control, NEW x \in Locals,
           Goes(r, l, x), Ready(r)', events' \in 0..MaxEvents
    PROVE  RequestsTyped'
BY GoesTyped, ReadyStays DEF RequestsTyped, RequestType

LEMMA EndTyped ==
    ASSUME RowsTyped, Grows, RequestsTyped, NEW r \in Requests, Ends(r), events' \in 0..MaxEvents
    PROVE  RequestsTyped'
<1>1. Ready(r)'
    BY EndsTyped DEF Ready, Converting, Exporting
<1> QED BY <1>1, EndsTyped, ReadyStays DEF RequestsTyped, RequestType

LEMMA EventTyped == RequestsTyped /\ Event => events' \in 1..MaxEvents
BY LibraryAssumption DEF RequestsTyped, RequestType, Event

LEMMA InitTyped == Init => Typed
<1> SUFFICES ASSUME Init PROVE Typed
    OBVIOUS
<1>1. RowsTyped
    BY LibraryAssumption DEF Init, RowsTyped, TableType, ArticleIds
<1>2. VaultType
    BY LibraryAssumption DEF Init, VaultType, Texts
<1>3. ExportType
    BY DEF Init, ExportType
<1>4. RequestsTyped
    BY NoLocalsTyped, LibraryAssumption
       DEF Init, RequestsTyped, RequestType, Ready, Control, Converting, Exporting
<1> QED BY <1>1, <1>2, <1>3, <1>4 DEF Typed

-----------------------------------------------------------------------------
\* The steps keep the types.

LEMMA ArticlesTyped ==
    ASSUME Typed, NEW r \in Requests,
           \/ \E t \in Titles, g \in Tags : convert(r, t, g)
           \/ ArticleStep(r)
    PROVE  Typed'
<1> USE DEF Typed
<1>0. local[r] \in Locals /\ Ready(r) /\ events \in 0..MaxEvents /\ count \in 0..MaxArticles
      /\ "slug" \in Control /\ "create" \in Control
    BY DEF RequestsTyped, RequestType, RowsTyped, TableType, Control, Converting
<1>1. ASSUME NEW t \in Titles, NEW g \in Tags, convert(r, t, g) PROVE Typed'
    <2> DEFINE x == [NoLocals EXCEPT !.title = t, !.tag = g, !.number = 1]
    <2>1. RowsTyped' /\ Grows /\ VaultType' /\ ExportType'
        BY <1>1, SameRows, SameGrows, SameVault, SameExports DEF convert
    <2>2. x \in Locals /\ x.title = t /\ x.tag = g /\ x.number = 1
        <3>1. 1 \in 0..MaxNumber + 1
            BY LibraryAssumption
        <3> QED BY <3>1, NoLocalsTyped DEF Locals, NoLocals
    <2>3. Goes(r, "slug", x) /\ events' = events
        BY <1>1 DEF convert
    <2> HIDE DEF x
    <2>4. pc'[r] = "slug" /\ local'[r] = x
        BY <1>0, <2>2, <2>3, GoesTyped
    <2>5. Ready(r)'
        <3>1. 1 \in 1..MaxArticles + 1
            BY LibraryAssumption
        <3> QED BY <2>2, <2>4, <3>1 DEF Ready, Converting, Exporting
    <2> QED BY <1>0, <2>1, <2>2, <2>3, <2>5, OnTyped
<1>2. CASE uniqueSlug(r)
    <2>0. PICK x : x = local[r]
        OBVIOUS
    <2>1. RowsTyped' /\ Grows /\ VaultType' /\ ExportType'
        BY <1>2, SameRows, SameGrows, SameVault, SameExports DEF uniqueSlug
    <2>2. pc[r] = "slug" /\ events' = events /\ UNCHANGED tableVars
        BY <1>2 DEF uniqueSlug
    <2>3. /\ x.title \in Titles /\ x.tag \in Tags /\ x.number \in 1..MaxArticles + 1
          /\ \A i \in 1..x.number - 1 : SlugTaken(x.title, i)
        BY <1>0, <2>0, <2>2 DEF Ready, Converting
    <2>4. CASE SlugTaken(x.title, x.number)
        <3>0. PICK y : y = [x EXCEPT !.number = @ + 1]
            OBVIOUS
        <3>1. x.number \in Nat /\ \A i \in 1..x.number : SlugTaken(x.title, i)
            BY <2>3, <2>4
        <3>2. x.number <= count
            BY <2>3, <3>1, SlugsAreFew
        <3>3. x.number + 1 \in 1..MaxArticles + 1 /\ x.number + 1 \in 0..MaxNumber + 1
            BY <1>0, <3>1, <3>2, LibraryAssumption
        <3>4. y \in Locals /\ y.title = x.title /\ y.tag = x.tag /\ y.number = x.number + 1
            BY <1>0, <2>0, <3>0, <3>3 DEF Locals
        <3>5. Goes(r, "slug", y)
            BY <1>2, <2>0, <2>4, <3>0 DEF uniqueSlug
        <3>6. pc'[r] = "slug" /\ local'[r] = y
            BY <1>0, <3>4, <3>5, GoesTyped
        <3>7. \A i \in 1..y.number - 1 : SlugTaken(y.title, i)'
            BY <2>1, <2>3, <3>1, <3>4, SlugsStayTaken
        <3>8. Ready(r)'
            BY <2>3, <3>3, <3>4, <3>6, <3>7 DEF Ready, Converting, Exporting, SlugTaken
        <3> QED BY <1>0, <2>1, <2>2, <3>4, <3>5, <3>8, OnTyped
    <2>5. CASE ~SlugTaken(x.title, x.number)
        <3>1. Goes(r, "create", x) /\ x \in Locals
            BY <1>0, <1>2, <2>0, <2>5 DEF uniqueSlug
        <3>2. pc'[r] = "create" /\ local'[r] = x
            BY <1>0, <3>1, GoesTyped
        <3>3. \A i \in 1..x.number - 1 : SlugTaken(x.title, i)'
            BY <2>1, <2>3, SlugsStayTaken
        <3>4. Ready(r)'
            BY <2>3, <3>2, <3>3 DEF Ready, Converting, Exporting, SlugTaken
        <3> QED BY <1>0, <2>1, <2>2, <3>1, <3>4, OnTyped
    <2> QED BY <2>4, <2>5
<1>3. CASE CreateRefused(r)
    <2>1. RowsTyped' /\ Grows /\ VaultType' /\ ExportType'
        BY <1>3, SameRows, SameGrows, SameVault, SameExports DEF CreateRefused
    <2> QED BY <1>0, <1>3, <2>1, EndTyped DEF CreateRefused
<1>4. CASE CreateArticle(r)
    <2> DEFINE x == local[r]
               a == count + 1
    <2>1. /\ pc[r] = "create" /\ a \in ArticleIds /\ ~SlugTaken(x.title, x.number)
          /\ count' = a /\ title' = [title EXCEPT ![a] = x.title] /\ tag' = [tag EXCEPT ![a] = x.tag]
          /\ slugBase' = [slugBase EXCEPT ![a] = x.title] /\ slugNumber' = [slugNumber EXCEPT ![a] = x.number]
          /\ wanted' = [wanted EXCEPT ![a] = [title |-> x.title, tag |-> x.tag]]
          /\ Ends(r) /\ UNCHANGED <<crossed, vaultVars, exportVars, events>>
        BY <1>4 DEF CreateArticle
    <2>2. /\ x.title \in Titles /\ x.tag \in Tags /\ x.number \in 1..MaxArticles + 1
          /\ \A i \in 1..x.number - 1 : SlugTaken(x.title, i)
        BY <1>0, <2>1 DEF Ready, Converting
    <2>3. x.number \in 0..MaxNumber
        <3>1. x.number - 1 \in Nat
            BY <2>2, LibraryAssumption
        <3>2. x.number - 1 <= count
            BY <2>2, <3>1, SlugsAreFew
        <3> QED BY <1>0, <2>1, <2>2, <3>2, LibraryAssumption DEF ArticleIds
    <2>4. RowsTyped' /\ Grows
        <3>1. TableType'
            BY <1>0, <2>1, <2>2, <2>3, LibraryAssumption DEF RowsTyped, TableType, ArticleIds
        <3>2. ASSUME NEW b \in ArticleIds
              PROVE  /\ b <= count' => title'[b] \in Titles /\ tag'[b] \in Tags
                     /\ count' < b => slugBase'[b] = None /\ slugNumber'[b] = 0
            <4>1. CASE b = a
                BY <1>0, <2>1, <2>2, <4>1 DEF RowsTyped, TableType, ArticleIds
            <4>2. CASE b # a
                BY <1>0, <2>1, <4>2 DEF RowsTyped, TableType, ArticleIds
            <4> QED BY <4>1, <4>2
        <3>3. Grows
            BY <1>0, <2>1 DEF Grows, RowsTyped, TableType, ArticleIds
        <3> QED BY <3>1, <3>2, <3>3 DEF RowsTyped
    <2>5. VaultType' /\ ExportType'
        BY <2>1, SameVault, SameExports
    <2> QED BY <1>0, <2>1, <2>4, <2>5, EndTyped
<1>5. CASE Update(r)
    <2> DEFINE x == local[r]
    <2>1. x.item \in ArticleIds /\ x.item <= count /\ x.title \in Titles /\ x.tag \in Tags
        BY <1>0, <1>5 DEF Update, Ready, Exporting
    <2>2. RowsTyped' /\ Grows
        <3>1. /\ title' = [title EXCEPT ![x.item] = x.title] /\ tag' = [tag EXCEPT ![x.item] = x.tag]
              /\ UNCHANGED <<count, slugBase, slugNumber, wanted, crossed>>
            BY <1>5 DEF Update
        <3> QED BY <2>1, <3>1 DEF RowsTyped, TableType, Grows
    <2>3. VaultType' /\ ExportType' /\ Ends(r) /\ events' = events
        BY <1>5, SameVault, SameExports DEF Update
    <2> QED BY <1>0, <2>2, <2>3, EndTyped
<1> QED BY <1>1, <1>2, <1>3, <1>4, <1>5 DEF ArticleStep

LEMMA ArrivalsTyped ==
    ASSUME Typed, NEW r \in Requests,
           \/ \E a \in ArticleIds, t \in Titles \cup {None}, g \in Tags \cup {None} : Get(r, a, t, g)
           \/ \E a \in ArticleIds : ExportArticle(r, a)
    PROVE  Typed'
<1> USE DEF Typed
<1>0. events \in 0..MaxEvents /\ "update" \in Control /\ "find" \in Control
    BY DEF RequestsTyped, RequestType, Control, Exporting
<1>1. ASSUME NEW a \in ArticleIds, NEW t \in Titles \cup {None}, NEW g \in Tags \cup {None}, Get(r, a, t, g)
      PROVE  Typed'
    <2> DEFINE u == IF t = None THEN title[a] ELSE t
               h == IF g = None THEN tag[a] ELSE g
               x == [NoLocals EXCEPT !.item = a, !.title = u, !.tag = h]
    <2>1. a <= count /\ u \in Titles /\ h \in Tags
        BY <1>1 DEF Get, Created, RowsTyped
    <2>2. /\ Goes(r, "update", x) /\ UNCHANGED <<count, title, tag, slugBase, slugNumber, vaultVars, exportVars>>
          /\ wanted' = [wanted EXCEPT ![a] = [title |-> IF t = None THEN @.title ELSE t,
                                              tag   |-> IF g = None THEN @.tag ELSE g]]
          /\ crossed' = IF Changing(a) = {} THEN crossed ELSE crossed \cup {a}
        BY <1>1 DEF Get
    <2>3. x \in Locals /\ x.item = a /\ x.title = u /\ x.tag = h
        BY <2>1, NoLocalsTyped DEF Locals, NoLocals
    <2> HIDE DEF x, u, h
    <2>4. RowsTyped' /\ Grows
        <3>1. wanted' \in [ArticleIds -> [title : Titles \cup {None}, tag : Tags \cup {None}]]
            BY <2>2 DEF RowsTyped, TableType
        <3>2. crossed' \subseteq ArticleIds
            BY <2>2 DEF RowsTyped, TableType
        <3> QED BY <2>2, <3>1, <3>2 DEF RowsTyped, TableType, Grows
    <2>5. VaultType' /\ ExportType'
        BY <2>2, SameVault, SameExports
    <2>6. pc'[r] = "update" /\ local'[r] = x
        BY <1>0, <2>2, <2>3, GoesTyped
    <2>7. Ready(r)'
        <3>1. count' = count
            BY <2>2
        <3> QED BY <2>1, <2>3, <2>6, <3>1 DEF Ready, Converting, Exporting
    <2>8. events' \in 0..MaxEvents
        <3>1. Event
            BY <1>1 DEF Get
        <3>2. events' \in 1..MaxEvents
            BY <3>1, EventTyped
        <3> QED BY <3>2
    <2> QED BY <1>0, <2>2, <2>3, <2>4, <2>5, <2>7, <2>8, OnTyped
<1>2. ASSUME NEW a \in ArticleIds, ExportArticle(r, a) PROVE Typed'
    <2> DEFINE x == [NoLocals EXCEPT !.item = a, !.title = title[a], !.tag = tag[a]]
    <2>1. a <= count /\ title[a] \in Titles /\ tag[a] \in Tags
        BY <1>2 DEF ExportArticle, Created, RowsTyped
    <2>2. x \in Locals /\ x.item = a /\ x.title = title[a] /\ x.tag = tag[a]
        BY <2>1, NoLocalsTyped DEF Locals, NoLocals
    <2>3. Goes(r, "find", x) /\ UNCHANGED <<tableVars, crossed, vaultVars, files, rows, events>>
        BY <1>2 DEF ExportArticle
    <2> HIDE DEF x
    <2>4. RowsTyped' /\ Grows /\ VaultType'
        BY <2>3, SameRows, SameGrows, SameVault
    <2>5. ExportType'
        <3>1. met' \subseteq Requests
            BY <1>2 DEF ExportArticle, Exports, ExportType
        <3>2. ASSUME NEW q \in Exports \cap Written PROVE Path(local[q]) \in Paths
            <4>1. q \in Requests /\ Ready(q) /\ pc[q] \in {"read", "backup", "note", "row"}
                BY <3>2 DEF Written, RequestsTyped
            <4> QED BY <4>1 DEF Ready, Path, Paths
        <3>3. excused' \subseteq Paths
            BY <1>2, <3>2 DEF ExportArticle, ExportType
        <3> QED BY <2>3, <3>1, <3>3 DEF ExportType
    <2>6. pc'[r] = "find" /\ local'[r] = x
        BY <1>0, <2>2, <2>3, GoesTyped
    <2>7. Ready(r)'
        BY <2>1, <2>2, <2>3, <2>6 DEF Ready, Converting, Exporting, tableVars
    <2> QED BY <1>0, <2>2, <2>3, <2>4, <2>5, <2>7, OnTyped
<1> QED BY <1>1, <1>2

LEMMA RenderedTyped ==
    ASSUME NEW x \in Locals, x.item \in ArticleIds, x.title \in Titles, x.tag \in Tags
    PROVE  /\ Rendered(x) \in Contents /\ Rendered(x) # Nothing
           /\ x.number \in Numbers => Path(x) \in Paths
<1>1. Rendered(x) \in Contents
    BY DEF Rendered, Contents
<1>2. Rendered(x).item # 0 /\ Nothing.item = 0
    BY DEF Rendered, Nothing, ArticleIds
<1> QED BY <1>1, <1>2 DEF Path, Paths

\* A step of an export that changes no table of articles, and its request to x.
LEMMA ExportOnTyped ==
    ASSUME Typed, NEW r \in Requests, pc[r] \in Exporting, NEW l \in Exporting, NEW x \in Locals, Goes(r, l, x),
           x.item = local[r].item, x.title = local[r].title, x.tag = local[r].tag,
           l \in {"write", "read", "backup", "note", "row"} => x.number \in Numbers,
           UNCHANGED <<tableVars, crossed, events>>
    PROVE  RowsTyped' /\ RequestsTyped'
<1>1. RowsTyped' /\ Grows /\ l \in Control /\ RequestsTyped /\ events' \in 0..MaxEvents
    BY SameRows, SameGrows DEF Typed, Control, RequestsTyped, RequestType
<1>2. pc'[r] = l /\ local'[r] = x
    BY <1>1, GoesTyped
<1>3. x.item \in ArticleIds /\ x.item <= count /\ x.title \in Titles /\ x.tag \in Tags
    BY <1>1 DEF RequestsTyped, Ready, Exporting
<1>4. count' = count /\ l \notin Converting
    BY DEF tableVars, Converting, Exporting
<1>5. Ready(r)'
    BY <1>2, <1>3, <1>4 DEF Ready
<1> QED BY <1>1, <1>5, OnTyped DEF Typed

LEMMA ExportEndTyped ==
    ASSUME Typed, NEW r \in Requests, EndsExport(r), UNCHANGED <<tableVars, crossed>>, events' \in 0..MaxEvents
    PROVE  RowsTyped' /\ RequestsTyped' /\ met' \subseteq Requests
<1>1. RowsTyped' /\ Grows
    BY SameRows, SameGrows DEF Typed
<1> QED BY <1>1, EndTyped DEF Typed, EndsExport, ExportType

LEMMA ExportsTyped == ASSUME Typed, NEW r \in Requests, ExportStep(r) PROVE Typed'
<1>0. /\ local[r] \in Locals /\ Ready(r) /\ events \in 0..MaxEvents
      /\ \A l \in {"find", "file", "write", "read", "backup", "note", "row"} : l \in Exporting
    BY DEF Typed, RequestsTyped, RequestType, Exporting
<1>1. ASSUME pc[r] \in Exporting
      PROVE  /\ local[r].item \in ArticleIds /\ local[r].title \in Titles /\ local[r].tag \in Tags
             /\ Rendered(local[r]) \in Contents /\ Rendered(local[r]) # Nothing
             /\ pc[r] \in {"write", "read", "backup", "note", "row"} =>
                   local[r].number \in Numbers /\ Path(local[r]) \in Paths
    <2>1. local[r].item \in ArticleIds /\ local[r].title \in Titles /\ local[r].tag \in Tags
        BY <1>0, <1>1 DEF Ready, Exporting
    <2>2. pc[r] \in {"write", "read", "backup", "note", "row"} => local[r].number \in Numbers
        BY <1>0 DEF Ready
    <2> QED BY <1>0, <2>1, <2>2, RenderedTyped
<1>2. CASE FindByContentHash(r)
    <2>1. pc[r] = "find" /\ UNCHANGED <<tableVars, crossed, vaultVars, files, rows, excused, events>>
        BY <1>2 DEF FindByContentHash
    <2>2. EndsExport(r) \/ (Goes(r, "file", local[r]) /\ met' = met)
        BY <1>2 DEF FindByContentHash
    <2>3. RowsTyped' /\ RequestsTyped' /\ met' \subseteq Requests
        BY <1>0, <2>1, <2>2, ExportOnTyped, ExportEndTyped DEF Typed, ExportType
    <2> QED BY <2>1, <2>3, SameVault DEF Typed, ExportType
<1>3. CASE uniquePath(r)
    <2>1. PICK n \in Numbers : Goes(r, "write", [local[r] EXCEPT !.number = n])
        BY <1>3 DEF uniquePath, Free
    <2>2. pc[r] = "file" /\ UNCHANGED <<tableVars, crossed, vaultVars, exportVars, events>>
        BY <1>3 DEF uniquePath
    <2>3. PICK x : x = [local[r] EXCEPT !.number = n]
        OBVIOUS
    <2>4. n \in 0..MaxNumber + 1
        BY LibraryAssumption DEF Numbers
    <2>5. /\ x \in Locals /\ x.number = n
          /\ x.item = local[r].item /\ x.title = local[r].title /\ x.tag = local[r].tag
        BY <1>0, <2>3, <2>4 DEF Locals
    <2>6. Goes(r, "write", x)
        BY <2>1, <2>3
    <2>7. RowsTyped' /\ RequestsTyped'
        BY <1>0, <2>2, <2>5, <2>6, ExportOnTyped
    <2> QED BY <2>2, <2>7, SameVault, SameExports DEF Typed
<1>4. CASE NumbersEnd(r)
    <2>1. EndsExport(r) /\ UNCHANGED <<tableVars, crossed, vaultVars, files, rows, excused, events>>
        BY <1>4 DEF NumbersEnd
    <2> QED BY <1>0, <2>1, SameVault, ExportEndTyped DEF Typed, ExportType
<1>5. CASE WriteFile(r)
    <2>1. /\ pc[r] = "write" /\ UNCHANGED <<tableVars, crossed, vaultVars, rows, met, events>>
          /\ Goes(r, IF Rest THEN "read" ELSE "row", local[r])
          /\ files' = [files EXCEPT ![Path(local[r])] = Rendered(local[r])]
          /\ excused' = IF r \in met THEN excused \cup {Path(local[r])} ELSE excused
        BY <1>5 DEF WriteFile
    <2>2. /\ local[r].number \in Numbers /\ Path(local[r]) \in Paths /\ Rendered(local[r]) \in Contents
        BY <1>0, <1>1, <2>1
    <2>3. PICK l \in {"read", "row"} : Goes(r, l, local[r])
        BY <2>1
    <2>4. RowsTyped' /\ RequestsTyped'
        BY <1>0, <2>1, <2>2, <2>3, ExportOnTyped
    <2>5. ExportType'
        BY <2>1, <2>2 DEF Typed, ExportType
    <2> QED BY <2>1, <2>4, <2>5, SameVault DEF Typed
<1>6. CASE ReadNote(r)
    <2>1. pc[r] = "read" /\ UNCHANGED <<tableVars, crossed, vaultVars, exportVars, events>>
        BY <1>6 DEF ReadNote
    <2>2. PICK x, l : /\ x = [local[r] EXCEPT !.old = notes[Path(local[r])]] /\ l \in {"note", "backup"}
                      /\ Goes(r, l, x)
        BY <1>6 DEF ReadNote
    <2>3. local[r].number \in Numbers /\ notes[Path(local[r])] \in Texts
        BY <1>0, <1>1, <2>1 DEF Typed, VaultType
    <2>4. /\ x \in Locals /\ x.number = local[r].number
          /\ x.item = local[r].item /\ x.title = local[r].title /\ x.tag = local[r].tag
        BY <1>0, <2>2, <2>3 DEF Locals, Texts
    <2>5. RowsTyped' /\ RequestsTyped'
        BY <1>0, <2>1, <2>2, <2>3, <2>4, ExportOnTyped
    <2> QED BY <2>1, <2>5, SameVault, SameExports DEF Typed
<1>7. CASE Backup(r)
    <2>1. /\ pc[r] = "backup" /\ UNCHANGED <<tableVars, crossed, notes, lastOwn, contested, exportVars, events>>
          /\ backups' = backups \cup {<<Path(local[r]), local[r].old>>}
        BY <1>7 DEF Backup
    <2>2. PICK x : x = [local[r] EXCEPT !.old = Nothing] /\ Goes(r, "note", x)
        BY <1>7 DEF Backup
    <2>3. local[r].number \in Numbers /\ Path(local[r]) \in Paths /\ local[r].old \in Texts
        BY <1>0, <1>1, <2>1 DEF Locals, Texts
    <2>4. /\ x \in Locals /\ x.number = local[r].number
          /\ x.item = local[r].item /\ x.title = local[r].title /\ x.tag = local[r].tag
        BY <1>0, <2>2 DEF Locals
    <2>5. RowsTyped' /\ RequestsTyped'
        BY <1>0, <2>1, <2>2, <2>3, <2>4, ExportOnTyped
    <2>6. VaultType'
        BY <2>1, <2>3 DEF Typed, VaultType
    <2> QED BY <2>1, <2>5, <2>6, SameExports DEF Typed
<1>8. CASE WriteNote(r)
    <2>1. /\ pc[r] = "note" /\ UNCHANGED <<tableVars, crossed, backups, lastOwn, contested, exportVars, events>>
          /\ notes' = [notes EXCEPT ![Path(local[r])] = Rendered(local[r])]
          /\ Goes(r, "row", local[r])
        BY <1>8 DEF WriteNote
    <2>2. local[r].number \in Numbers /\ Path(local[r]) \in Paths /\ Rendered(local[r]) \in Texts
        BY <1>0, <1>1, <2>1 DEF Texts
    <2>3. RowsTyped' /\ RequestsTyped'
        BY <1>0, <2>1, <2>2, ExportOnTyped
    <2>4. VaultType'
        BY <2>1, <2>2 DEF Typed, VaultType
    <2> QED BY <2>1, <2>3, <2>4, SameExports DEF Typed
<1>9. CASE CreateExport(r)
    <2>1. /\ pc[r] = "row" /\ EndsExport(r) /\ UNCHANGED <<tableVars, crossed, vaultVars, files, excused, events>>
          /\ rows' \subseteq rows \cup {<<Rendered(local[r]), Path(local[r])>>}
        BY <1>9 DEF CreateExport
    <2>2. Path(local[r]) \in Paths /\ Rendered(local[r]) \in Contents
        BY <1>0, <1>1, <2>1
    <2>3. RowsTyped' /\ RequestsTyped' /\ met' \subseteq Requests
        BY <1>0, <2>1, ExportEndTyped
    <2> QED BY <2>1, <2>2, <2>3, SameVault DEF Typed, ExportType
<1> QED BY <1>2, <1>3, <1>4, <1>5, <1>6, <1>7, <1>8, <1>9 DEF ExportStep

LEMMA NextTyped == Typed /\ [Next]_vars => Typed'
<1> SUFFICES ASSUME Typed, [Next]_vars PROVE Typed'
    OBVIOUS
<1>1. ASSUME NEW p \in Paths, OwnerWrites(p) PROVE Typed'
    <2>1. /\ Event /\ UNCHANGED <<tableVars, crossed, exportVars, pc, local, backups>>
          /\ notes' = [notes EXCEPT ![p] = Own(events')]
          /\ lastOwn' = [lastOwn EXCEPT ![p] = events']
          /\ contested' \subseteq contested \cup {p}
        BY <1>1 DEF OwnerWrites
    <2>2. events' \in 1..MaxEvents
        BY <2>1, EventTyped DEF Typed
    <2>3. VaultType'
        BY <2>1, <2>2 DEF Typed, VaultType, Texts
    <2>4. RowsTyped' /\ ExportType' /\ Grows
        BY <2>1, SameRows, SameExports, SameGrows DEF Typed
    <2>5. RequestsTyped'
        BY <2>1, <2>2, <2>4, ReadyStays DEF Typed, RequestsTyped, RequestType
    <2> QED BY <2>3, <2>4, <2>5 DEF Typed
<1>2. ASSUME NEW r \in Requests, Fails(r) PROVE Typed'
    <2>1. /\ Event /\ EndsExport(r) /\ UNCHANGED <<tableVars, vaultVars, files, rows>>
          /\ crossed' = IF pc[r] = "update" THEN crossed \cup {local[r].item} ELSE crossed
          /\ excused' = IF r \in Written THEN excused \cup {Path(local[r])} ELSE excused
        BY <1>2 DEF Fails
    <2>2. local[r] \in Locals /\ Ready(r)
        BY DEF Typed, RequestsTyped, RequestType
    <2>3. RowsTyped' /\ Grows
        <3>1. crossed' \subseteq ArticleIds
            BY <2>1, <2>2 DEF Typed, RowsTyped, TableType, Ready, Exporting
        <3> QED BY <2>1, <3>1, SameGrows DEF Typed, RowsTyped, TableType, tableVars
    <2>4. ExportType'
        <3>1. r \in Written => Path(local[r]) \in Paths
            BY <2>2 DEF Written, Ready, Path, Paths
        <3> QED BY <2>1, <3>1 DEF Typed, ExportType, EndsExport
    <2>5. events' \in 0..MaxEvents
        <3>1. events' \in 1..MaxEvents
            BY <2>1, EventTyped DEF Typed
        <3> QED BY <3>1
    <2>6. RequestsTyped'
        BY <2>1, <2>3, <2>5, EndTyped DEF Typed, EndsExport
    <2>7. VaultType'
        BY <2>1, SameVault DEF Typed
    <2> QED BY <2>3, <2>4, <2>6, <2>7 DEF Typed
<1>3. CASE UNCHANGED vars
    <2>1. UNCHANGED <<tableVars, crossed, vaultVars, exportVars, pc, local, events>>
        BY <1>3 DEF vars
    <2>2. RowsTyped' /\ VaultType' /\ ExportType' /\ Grows
        BY <2>1, SameRows, SameVault, SameExports, SameGrows DEF Typed
    <2>3. RequestsTyped'
        BY <2>1, <2>2, ReadyStays DEF Typed, RequestsTyped, RequestType
    <2> QED BY <2>2, <2>3 DEF Typed
<1> QED BY <1>1, <1>2, <1>3, ArticlesTyped, ArrivalsTyped, ExportsTyped DEF Next, Arrives

LEMMA TypedAlways == Spec => []Typed
BY InitTyped, NextTyped, PTL DEF Spec

\* Tables, vault and requests hold values of their types; the search for a slug ends at
\* the latest after one more number than there are articles, by counting those that hold
\* the numbers below (uniqueSlug).
THEOREM TypeCorrect == Spec => []TypeOK
<1>1. Typed => TypeOK
    BY DEF Typed, TypeOK, RowsTyped, RequestsTyped, RequestType, LocalType, Ready
<1> QED BY <1>1, TypedAlways, PTL

-----------------------------------------------------------------------------
\* Slugs.

\* The slugs of one title have no gap: an article takes a number only when its search
\* found the one below taken, and no article ever gives its slug up (uniqueSlug, UNIQUE).
THEOREM SlugsHaveNoGap == Spec => []SlugsWithoutGap
<1>1. Init => SlugsWithoutGap
    BY DEF Init, SlugsWithoutGap
<1>2. Typed /\ SlugsWithoutGap /\ [Next]_vars => SlugsWithoutGap'
    <2> SUFFICES ASSUME Typed, SlugsWithoutGap, [Next]_vars PROVE SlugsWithoutGap'
        OBVIOUS
    <2>1. CASE UNCHANGED <<slugBase, slugNumber>>
        BY <2>1 DEF SlugsWithoutGap
    <2>2. ASSUME NEW r \in Requests, CreateArticle(r) PROVE SlugsWithoutGap'
        <3>0. PICK x, n : x = local[r] /\ n = count + 1
            OBVIOUS
        <3>1. /\ pc[r] = "create" /\ n \in ArticleIds
              /\ slugBase' = [slugBase EXCEPT ![n] = x.title] /\ slugNumber' = [slugNumber EXCEPT ![n] = x.number]
            BY <2>2, <3>0 DEF CreateArticle
        <3>2. /\ slugBase \in [ArticleIds -> Titles \cup {None}] /\ slugNumber \in [ArticleIds -> 0..MaxNumber]
              /\ slugBase[n] = None /\ slugNumber[n] = 0 /\ None \notin Titles
            BY <3>0, <3>1, LibraryAssumption DEF Typed, RowsTyped, TableType, ArticleIds
        <3>3. x.title \in Titles /\ x.number \in Nat /\ \A i \in 1..x.number - 1 : SlugTaken(x.title, i)
            BY <3>0, <3>1 DEF Typed, RequestsTyped, Ready, Converting
        <3>4. ASSUME NEW a \in ArticleIds, slugNumber'[a] > 1
              PROVE  \E b \in ArticleIds : slugBase'[b] = slugBase'[a] /\ slugNumber'[b] = slugNumber'[a] - 1
            <4>1. CASE a = n
                <5>1. slugBase'[a] = x.title /\ slugNumber'[a] = x.number
                    BY <3>1, <3>2, <4>1
                <5>2. SlugTaken(x.title, x.number - 1)
                    BY <3>3, <3>4, <5>1
                <5>3. PICK b \in ArticleIds : slugBase[b] = x.title /\ slugNumber[b] = x.number - 1
                    BY <5>2 DEF SlugTaken
                <5>4. b # n
                    BY <3>2, <3>3, <5>3
                <5> QED BY <3>1, <3>2, <5>1, <5>3, <5>4
            <4>2. CASE a # n
                <5>1. slugNumber'[a] = slugNumber[a] /\ slugBase'[a] = slugBase[a]
                    BY <3>1, <3>2, <4>2
                <5>2. PICK b \in ArticleIds : slugBase[b] = slugBase[a] /\ slugNumber[b] = slugNumber[a] - 1
                    BY <3>4, <5>1 DEF SlugsWithoutGap
                <5>3. b # n
                    BY <3>2, <3>4, <5>1, <5>2
                <5> QED BY <3>1, <3>2, <5>1, <5>2, <5>3
            <4> QED BY <4>1, <4>2
        <3> QED BY <3>4 DEF SlugsWithoutGap
    <2>3. ASSUME NEW r \in Requests,
                 Arrives(r) \/ uniqueSlug(r) \/ CreateRefused(r) \/ Update(r) \/ ExportStep(r) \/ Fails(r)
          PROVE  UNCHANGED <<slugBase, slugNumber>>
        BY <2>3 DEF Arrives, convert, Get, ExportArticle, uniqueSlug, CreateRefused, Update, ExportStep,
                    FindByContentHash, uniquePath, NumbersEnd, WriteFile, ReadNote, Backup, WriteNote,
                    CreateExport, Fails, tableVars
    <2>4. ASSUME NEW p \in Paths, OwnerWrites(p) \/ UNCHANGED vars PROVE UNCHANGED <<slugBase, slugNumber>>
        BY <2>4 DEF OwnerWrites, vars, tableVars
    <2>5. CASE UNCHANGED vars
        BY <2>1, <2>5 DEF vars, tableVars
    <2> QED BY <2>1, <2>2, <2>3, <2>4, <2>5 DEF Next, ArticleStep
<1> QED BY <1>1, <1>2, TypedAlways, PTL DEF Spec

-----------------------------------------------------------------------------
\* Changes of articles.

\* A change holds what the owner was told, and is the only one, or the article is crossed.
CopyHolds(r) ==
    LET x == local[r]
    IN  pc[r] = "update" /\ x.item \notin crossed =>
            /\ wanted[x.item] = [title |-> x.title, tag |-> x.tag]
            /\ \A q \in Requests : pc[q] = "update" /\ local[q].item = x.item => q = r

EditsInv == EditsAreKept /\ \A r \in Requests : CopyHolds(r)

\* A step that changes no article, and starts or ends no change.
LEMMA EditsStay ==
    ASSUME EditsInv, UNCHANGED <<count, title, tag, wanted, crossed>>,
           \A q \in Requests : /\ pc'[q] = "update" <=> pc[q] = "update"
                               /\ pc[q] = "update" => local'[q] = local[q]
    PROVE  EditsInv'
<1>1. \A a \in ArticleIds : Changing(a)' = Changing(a)
    BY DEF Changing
<1>2. EditsAreKept'
    BY <1>1 DEF EditsInv, EditsAreKept, Created
<1>3. \A r \in Requests : CopyHolds(r)'
    BY DEF EditsInv, CopyHolds
<1> QED BY <1>2, <1>3 DEF EditsInv

\* A request elsewhere goes on elsewhere.
LEMMA GoesElsewhere ==
    ASSUME RequestsTyped, NEW r \in Requests, NEW l, NEW x, Goes(r, l, x), pc[r] # "update", l # "update"
    PROVE  \A q \in Requests : /\ pc'[q] = "update" <=> pc[q] = "update"
                               /\ pc[q] = "update" => local'[q] = local[q]
BY DEF Goes, RequestsTyped, RequestType

LEMMA ElsewhereEdits ==
    ASSUME Typed, EditsInv, NEW r \in Requests,
           \/ \E t \in Titles, g \in Tags : convert(r, t, g)
           \/ \E a \in ArticleIds : ExportArticle(r, a)
           \/ uniqueSlug(r) \/ CreateRefused(r) \/ ExportStep(r)
    PROVE  EditsInv'
<1>1. UNCHANGED <<count, title, tag, wanted, crossed>> /\ pc[r] # "update"
    BY DEF convert, ExportArticle, uniqueSlug, CreateRefused, ExportStep, FindByContentHash, uniquePath, NumbersEnd,
           WriteFile, ReadNote, Backup, WriteNote, CreateExport, tableVars
<1>2. \E l, x : Goes(r, l, x) /\ l # "update"
    <2>1. CASE FindByContentHash(r)
        <3>1. Goes(r, "idle", NoLocals) \/ Goes(r, "file", local[r])
            BY <2>1 DEF FindByContentHash, EndsExport, Ends
        <3> QED BY <3>1
    <2>2. CASE uniquePath(r) \/ NumbersEnd(r)
        <3>1. \E x : Goes(r, "write", x) \/ Goes(r, "idle", x)
            BY <2>2, Zenon DEF uniquePath, NumbersEnd, EndsExport, Ends
        <3> QED BY <3>1
    <2>3. CASE WriteFile(r)
        BY <2>3 DEF WriteFile
    <2>4. CASE ReadNote(r)
        <3>1. \E x : Goes(r, "note", x) \/ Goes(r, "backup", x)
            BY <2>4 DEF ReadNote
        <3> QED BY <3>1
    <2>5. CASE Backup(r) \/ WriteNote(r) \/ CreateExport(r)
        BY <2>5 DEF Backup, WriteNote, CreateExport, EndsExport, Ends
    <2>6. CASE uniqueSlug(r)
        <3>1. \E x : Goes(r, "slug", x) \/ Goes(r, "create", x)
            BY <2>6 DEF uniqueSlug
        <3> QED BY <3>1
    <2>7. ASSUME NEW t, NEW g, convert(r, t, g) PROVE \E l, x : Goes(r, l, x) /\ l # "update"
        <3>1. Goes(r, "slug", [NoLocals EXCEPT !.title = t, !.tag = g, !.number = 1])
            BY <2>7 DEF convert
        <3> QED BY <3>1
    <2>8. ASSUME NEW a, ExportArticle(r, a) PROVE \E l, x : Goes(r, l, x) /\ l # "update"
        <3>1. Goes(r, "find", [NoLocals EXCEPT !.item = a, !.title = title[a], !.tag = tag[a]])
            BY <2>8 DEF ExportArticle
        <3> QED BY <3>1
    <2>9. CASE CreateRefused(r)
        BY <2>9 DEF CreateRefused, Ends
    <2> QED BY <2>1, <2>2, <2>3, <2>4, <2>5, <2>6, <2>7, <2>8, <2>9 DEF ExportStep
<1> QED BY <1>1, <1>2, GoesElsewhere, EditsStay DEF Typed

LEMMA CreateEdits ==
    ASSUME Typed, EditsInv, NEW r \in Requests, CreateArticle(r)
    PROVE  EditsInv'
<1>0. PICK x, n : x = local[r] /\ n = count + 1
    OBVIOUS
<1>1. /\ pc[r] = "create" /\ n \in ArticleIds /\ count' = n /\ crossed' = crossed
      /\ title' = [title EXCEPT ![n] = x.title] /\ tag' = [tag EXCEPT ![n] = x.tag]
      /\ wanted' = [wanted EXCEPT ![n] = [title |-> x.title, tag |-> x.tag]]
      /\ Goes(r, "idle", NoLocals)
    BY <1>0 DEF CreateArticle, Ends
<1>2. \A q \in Requests : /\ pc'[q] = "update" <=> pc[q] = "update"
                          /\ pc[q] = "update" => local'[q] = local[q]
    BY <1>1, GoesElsewhere DEF Typed
<1>3. count \in Int /\ \A a \in ArticleIds : a <= n => a = n \/ a <= count
    BY <1>0 DEF Typed, RowsTyped, TableType, ArticleIds
<1>4. /\ title'[n] = x.title /\ tag'[n] = x.tag /\ wanted'[n] = [title |-> x.title, tag |-> x.tag]
      /\ \A a \in ArticleIds \ {n} : title'[a] = title[a] /\ tag'[a] = tag[a] /\ wanted'[a] = wanted[a]
    BY <1>1 DEF Typed, RowsTyped, TableType
<1>5. ASSUME NEW a \in ArticleIds \ crossed', Created(a)', Changing(a)' = {}
      PROVE  wanted'[a] = [title |-> title'[a], tag |-> tag'[a]]
    <2>1. CASE a = n
        BY <1>4, <2>1
    <2>2. CASE a # n
        <3>1. Created(a) /\ Changing(a) = {}
            BY <1>1, <1>2, <1>3, <1>5, <2>2 DEF Created, Changing
        <3> QED BY <1>1, <1>4, <1>5, <2>2, <3>1 DEF EditsInv, EditsAreKept
    <2> QED BY <2>1, <2>2
<1>6. ASSUME NEW q \in Requests PROVE CopyHolds(q)'
    <2> SUFFICES ASSUME pc[q] = "update", local[q].item \notin crossed PROVE CopyHolds(q)'
        BY <1>1, <1>2 DEF CopyHolds
    <2>1. local[q].item \in ArticleIds /\ local[q].item <= count
        BY DEF Typed, RequestsTyped, Ready
    <2>2. local[q].item # n
        BY <1>0, <1>3, <2>1
    <2>3. CopyHolds(q)
        BY DEF EditsInv
    <2> QED BY <1>1, <1>2, <1>4, <2>1, <2>2, <2>3 DEF CopyHolds
<1> QED BY <1>5, <1>6 DEF EditsInv, EditsAreKept

LEMMA GetEdits ==
    ASSUME Typed, EditsInv, NEW r \in Requests, NEW a \in ArticleIds,
           NEW t \in Titles \cup {None}, NEW g \in Tags \cup {None}, Get(r, a, t, g)
    PROVE  EditsInv'
<1>0. PICK u, h, x : /\ u = (IF t = None THEN title[a] ELSE t) /\ h = (IF g = None THEN tag[a] ELSE g)
                     /\ x = [NoLocals EXCEPT !.item = a, !.title = u, !.tag = h]
    OBVIOUS
<1>1. /\ pc[r] = "idle" /\ Created(a) /\ Goes(r, "update", x)
      /\ crossed' = IF Changing(a) = {} THEN crossed ELSE crossed \cup {a}
      /\ UNCHANGED <<count, title, tag>>
    BY <1>0 DEF Get
<1>2. wanted' = [wanted EXCEPT ![a] = [title |-> IF t = None THEN @.title ELSE t,
                                       tag   |-> IF g = None THEN @.tag ELSE g]]
    BY DEF Get
<1>3. /\ pc'[r] = "update" /\ local'[r] = x
      /\ \A q \in Requests \ {r} : pc'[q] = pc[q] /\ local'[q] = local[q]
    BY <1>1 DEF Goes, Typed, RequestsTyped, RequestType
<1>4. x.item = a /\ x.title = u /\ x.tag = h
    BY <1>0 DEF NoLocals
<1>5. /\ wanted'[a] = [title |-> IF t = None THEN wanted[a].title ELSE t, tag |-> IF g = None THEN wanted[a].tag ELSE g]
      /\ \A b \in ArticleIds \ {a} : wanted'[b] = wanted[b]
    BY <1>2 DEF Typed, RowsTyped, TableType
<1>6. ASSUME a \notin crossed'
      PROVE  Changing(a) = {} /\ wanted'[a] = [title |-> u, tag |-> h]
    <2>1. Changing(a) = {} /\ a \notin crossed
        BY <1>1, <1>6
    <2>2. wanted[a] = [title |-> title[a], tag |-> tag[a]]
        BY <1>1, <2>1 DEF EditsInv, EditsAreKept
    <2>3. wanted[a].title = title[a] /\ wanted[a].tag = tag[a]
        BY <2>2
    <2> QED BY <1>0, <1>5, <2>1, <2>3
<1>7. ASSUME NEW b \in ArticleIds \ crossed', Created(b)', Changing(b)' = {}
      PROVE  wanted'[b] = [title |-> title'[b], tag |-> tag'[b]]
    <2>1. b # a
        BY <1>3, <1>4, <1>7 DEF Changing
    <2>2. b \notin crossed /\ Created(b)
        BY <1>1, <1>7 DEF Created
    <2>3. Changing(b) = {}
        BY <1>1, <1>3, <1>7 DEF Changing
    <2> QED BY <1>1, <1>5, <2>1, <2>2, <2>3 DEF EditsInv, EditsAreKept
<1>8. CopyHolds(r)'
    <2>1. ASSUME a \notin crossed', NEW q \in Requests, pc'[q] = "update", local'[q].item = a PROVE q = r
        BY <1>3, <1>6, <2>1 DEF Changing
    <2> QED BY <1>3, <1>4, <1>6, <2>1 DEF CopyHolds
<1>9. ASSUME NEW q \in Requests, q # r PROVE CopyHolds(q)'
    <2> SUFFICES ASSUME pc[q] = "update", local[q].item \notin crossed' PROVE CopyHolds(q)'
        BY <1>3, <1>9 DEF CopyHolds
    <2>1. local[q].item # a /\ local[q].item \notin crossed
        BY <1>1 DEF Changing
    <2>2. local[q].item \in ArticleIds /\ CopyHolds(q)
        BY DEF Typed, RequestsTyped, Ready, EditsInv
    <2> QED BY <1>3, <1>4, <1>5, <1>9, <2>1, <2>2 DEF CopyHolds
<1> QED BY <1>7, <1>8, <1>9 DEF EditsInv, EditsAreKept

\* A change ends: its row holds what the owner was told, or the article is crossed.
LEMMA EndEdits ==
    ASSUME Typed, EditsInv, NEW r \in Requests, pc[r] = "update", NEW x, x = local[r], Ends(r),
           UNCHANGED <<count, wanted>>, crossed \subseteq crossed',
           \A b \in ArticleIds \ {x.item} : title'[b] = title[b] /\ tag'[b] = tag[b],
           x.item \in crossed' \/ (title'[x.item] = x.title /\ tag'[x.item] = x.tag)
    PROVE  EditsInv'
<1>1. /\ pc'[r] = "idle"
      /\ \A q \in Requests \ {r} : pc'[q] = pc[q] /\ local'[q] = local[q]
    BY EndsTyped DEF Typed
<1>2. ASSUME NEW b \in ArticleIds \ crossed', Created(b)', Changing(b)' = {}
      PROVE  wanted'[b] = [title |-> title'[b], tag |-> tag'[b]]
    <2>1. CASE b = x.item
        <3>1. CopyHolds(r)
            BY DEF EditsInv
        <3> QED BY <1>2, <2>1, <3>1 DEF CopyHolds
    <2>2. CASE b # x.item
        <3>1. b \notin crossed /\ Created(b) /\ Changing(b) = {}
            BY <1>1, <1>2, <2>2 DEF Created, Changing
        <3> QED BY <2>2, <3>1 DEF EditsInv, EditsAreKept
    <2> QED BY <2>1, <2>2
<1>3. ASSUME NEW q \in Requests PROVE CopyHolds(q)'
    <2>1. CopyHolds(q)
        BY DEF EditsInv
    <2> QED BY <1>1, <2>1 DEF CopyHolds
<1> QED BY <1>2, <1>3 DEF EditsInv, EditsAreKept

LEMMA EditsStep == Typed /\ EditsInv /\ [Next]_vars => EditsInv'
<1> SUFFICES ASSUME Typed, EditsInv, [Next]_vars PROVE EditsInv'
    OBVIOUS
<1>1. ASSUME NEW r \in Requests, Update(r) PROVE EditsInv'
    <2>0. PICK x : x = local[r]
        OBVIOUS
    <2>1. /\ pc[r] = "update" /\ Ends(r) /\ UNCHANGED <<count, wanted, crossed>>
          /\ title' = [title EXCEPT ![x.item] = x.title] /\ tag' = [tag EXCEPT ![x.item] = x.tag]
        BY <1>1, <2>0 DEF Update
    <2>2. x.item \in ArticleIds /\ title \in [ArticleIds -> Titles \cup {None}] /\ tag \in [ArticleIds -> Tags \cup {None}]
        BY <2>0, <2>1 DEF Typed, RowsTyped, TableType, RequestsTyped, Ready
    <2> QED BY <2>0, <2>1, <2>2, EndEdits
<1>2. ASSUME NEW r \in Requests, Fails(r) PROVE EditsInv'
    <2>1. /\ Ends(r) /\ UNCHANGED <<count, title, tag, wanted>>
          /\ crossed' = IF pc[r] = "update" THEN crossed \cup {local[r].item} ELSE crossed
        BY <1>2 DEF Fails, EndsExport, tableVars
    <2>2. CASE pc[r] = "update"
        BY <2>1, <2>2, EndEdits
    <2>3. CASE pc[r] # "update"
        BY <2>1, <2>3, GoesElsewhere, EditsStay DEF Ends, Typed
    <2> QED BY <2>2, <2>3
<1>3. ASSUME NEW p \in Paths, OwnerWrites(p) PROVE EditsInv'
    BY <1>3, EditsStay DEF OwnerWrites, tableVars
<1>4. CASE UNCHANGED vars
    BY <1>4, EditsStay DEF vars, tableVars
<1> QED BY <1>1, <1>2, <1>3, <1>4, ElsewhereEdits, CreateEdits, GetEdits DEF Next, Arrives, ArticleStep

\* What the owner was told of a title or a tag stays: a change writes both columns, but
\* the one it was not asked for from a row nobody else was changing (UpdateMetadata).
THEOREM ChangesAreKept == Spec => []EditsAreKept
<1>1. Init => EditsInv
    BY DEF Init, EditsInv, EditsAreKept, CopyHolds, Created, ArticleIds
<1>2. Spec => []EditsInv
    BY <1>1, EditsStep, TypedAlways, PTL DEF Spec
<1> QED BY <1>2, PTL DEF EditsInv

-----------------------------------------------------------------------------
\* The owner's notes.

Saved(p) == <<p, Own(lastOwn[p])>> \in backups

\* An export that has read the owner's text keeps it until the text is saved.
HoldsOwnText(r) ==
    LET p == Path(local[r])
    IN  lastOwn[p] # 0 /\ p \notin contested =>
            /\ pc[r] = "backup" => local[r].old = Own(lastOwn[p]) \/ Saved(p)
            /\ pc[r] = "note" => Saved(p)

OwnInv == OwnTextsSurvive /\ \A r \in Requests : HoldsOwnText(r)

\* A step that changes no note and moves at most one request, which has nothing to hold.
LEMMA OwnStays ==
    ASSUME OwnInv, UNCHANGED vaultVars,
           \A q \in Requests : \/ pc'[q] = pc[q] /\ local'[q] = local[q]
                               \/ pc'[q] \notin {"backup", "note"}
    PROVE  OwnInv'
<1>1. OwnTextsSurvive'
    BY DEF OwnInv, OwnTextsSurvive, vaultVars
<1>2. ASSUME NEW q \in Requests PROVE HoldsOwnText(q)'
    <2>1. HoldsOwnText(q)
        BY DEF OwnInv
    <2> QED BY <2>1 DEF HoldsOwnText, Saved, vaultVars
<1> QED BY <1>1, <1>2 DEF OwnInv

LEMMA GoesPast ==
    ASSUME RequestsTyped, NEW r \in Requests, NEW l, NEW x, Goes(r, l, x), l \notin {"backup", "note"}
    PROVE  \A q \in Requests : \/ pc'[q] = pc[q] /\ local'[q] = local[q]
                               \/ pc'[q] \notin {"backup", "note"}
BY DEF Goes, RequestsTyped, RequestType

LEMMA OwnStep == Typed /\ OwnInv /\ [Next]_vars => OwnInv'
<1> SUFFICES ASSUME Typed, OwnInv, [Next]_vars PROVE OwnInv'
    OBVIOUS
<1>0. RequestsTyped /\ pc \in [Requests -> Control] /\ local \in [Requests -> Locals]
    BY DEF Typed, RequestsTyped, RequestType
<1>1. ASSUME NEW r \in Requests, Arrives(r) \/ ArticleStep(r) PROVE OwnInv'
    <2>1. UNCHANGED vaultVars
        BY <1>1 DEF Arrives, convert, Get, ExportArticle, ArticleStep, uniqueSlug, CreateArticle, CreateRefused, Update
    <2>2. \E x : Goes(r, "slug", x) \/ Goes(r, "update", x) \/ Goes(r, "find", x) \/ Goes(r, "create", x) \/ Goes(r, "idle", x)
        <3>1. CASE Arrives(r)
            BY <3>1, Zenon DEF Arrives, convert, Get, ExportArticle
        <3>2. CASE uniqueSlug(r)
            BY <3>2 DEF uniqueSlug
        <3>3. CASE CreateArticle(r) \/ CreateRefused(r) \/ Update(r)
            BY <3>3 DEF CreateArticle, CreateRefused, Update, Ends
        <3> QED BY <1>1, <3>1, <3>2, <3>3 DEF ArticleStep
    <2> QED BY <1>0, <2>1, <2>2, GoesPast, OwnStays
<1>2. ASSUME NEW r \in Requests,
             FindByContentHash(r) \/ uniquePath(r) \/ NumbersEnd(r) \/ WriteFile(r) \/ CreateExport(r) \/ Fails(r)
      PROVE  OwnInv'
    <2>1. UNCHANGED vaultVars
        BY <1>2 DEF FindByContentHash, uniquePath, NumbersEnd, WriteFile, CreateExport, Fails
    <2>2. \E x : Goes(r, "file", x) \/ Goes(r, "write", x) \/ Goes(r, "read", x) \/ Goes(r, "row", x) \/ Goes(r, "idle", x)
        <3>1. CASE FindByContentHash(r) \/ NumbersEnd(r) \/ CreateExport(r) \/ Fails(r)
            BY <3>1 DEF FindByContentHash, NumbersEnd, CreateExport, Fails, EndsExport, Ends
        <3>2. CASE uniquePath(r)
            BY <3>2, Zenon DEF uniquePath
        <3>3. CASE WriteFile(r)
            BY <3>3 DEF WriteFile
        <3> QED BY <1>2, <3>1, <3>2, <3>3
    <2> QED BY <1>0, <2>1, <2>2, GoesPast, OwnStays
<1>3. ASSUME NEW r \in Requests, pc[r] \in {"read", "backup", "note", "row"} PROVE Path(local[r]) \in Paths
    BY <1>0, <1>3 DEF RequestsTyped, Ready, Path, Paths
<1>4. ASSUME NEW r \in Requests, ReadNote(r) PROVE OwnInv'
    <2>0. PICK p, old, x : p = Path(local[r]) /\ old = notes[p] /\ x = [local[r] EXCEPT !.old = old]
        OBVIOUS
    <2>1. /\ pc[r] = "read" /\ Goes(r, IF old = Nothing THEN "note" ELSE "backup", x) /\ UNCHANGED vaultVars
        BY <1>4, <2>0 DEF ReadNote
    <2>2. /\ pc'[r] = (IF old = Nothing THEN "note" ELSE "backup") /\ local'[r] = x
          /\ \A q \in Requests \ {r} : pc'[q] = pc[q] /\ local'[q] = local[q]
        BY <1>0, <2>1 DEF Goes
    <2>3. x.old = old /\ Path(x) = p /\ p \in Paths
        BY <1>0, <1>3, <2>0, <2>1 DEF Locals, Path
    <2>4. lastOwn[p] # 0 /\ p \notin contested => old = Own(lastOwn[p]) \/ Saved(p)
        BY <2>0, <2>3 DEF OwnInv, OwnTextsSurvive, Saved
    <2>5. lastOwn[p] # 0 => Own(lastOwn[p]) # Nothing
        <3>1. lastOwn[p] \in 0..MaxEvents
            BY <2>3 DEF Typed, VaultType
        <3>2. Own(lastOwn[p]).item = -lastOwn[p] /\ Nothing.item = 0
            BY DEF Own, Nothing
        <3> QED BY <3>1, <3>2
    <2>6. HoldsOwnText(r)'
        BY <2>1, <2>2, <2>3, <2>4, <2>5 DEF HoldsOwnText, Saved, vaultVars
    <2>7. ASSUME NEW q \in Requests, q # r PROVE HoldsOwnText(q)'
        <3>1. HoldsOwnText(q)
            BY DEF OwnInv
        <3> QED BY <2>1, <2>2, <2>7, <3>1 DEF HoldsOwnText, Saved, vaultVars
    <2> QED BY <2>1, <2>6, <2>7 DEF OwnInv, OwnTextsSurvive, vaultVars
<1>5. ASSUME NEW r \in Requests, Backup(r) PROVE OwnInv'
    <2>0. PICK p, x : p = Path(local[r]) /\ x = [local[r] EXCEPT !.old = Nothing]
        OBVIOUS
    <2>1. /\ pc[r] = "backup" /\ Goes(r, "note", x) /\ UNCHANGED <<notes, lastOwn, contested>>
          /\ backups' = backups \cup {<<p, local[r].old>>}
        BY <1>5, <2>0 DEF Backup
    <2>2. /\ pc'[r] = "note" /\ local'[r] = x
          /\ \A q \in Requests \ {r} : pc'[q] = pc[q] /\ local'[q] = local[q]
        BY <1>0, <2>1 DEF Goes
    <2>3. Path(x) = p /\ HoldsOwnText(r)
        BY <1>0, <2>0 DEF Locals, Path, OwnInv
    <2>4. HoldsOwnText(r)'
        BY <2>0, <2>1, <2>2, <2>3 DEF HoldsOwnText, Saved
    <2>5. ASSUME NEW q \in Requests, q # r PROVE HoldsOwnText(q)'
        <3>1. HoldsOwnText(q)
            BY DEF OwnInv
        <3> QED BY <2>1, <2>2, <2>5, <3>1 DEF HoldsOwnText, Saved
    <2> QED BY <2>1, <2>4, <2>5 DEF OwnInv, OwnTextsSurvive
<1>6. ASSUME NEW r \in Requests, WriteNote(r) PROVE OwnInv'
    <2>0. PICK p : p = Path(local[r])
        OBVIOUS
    <2>1. /\ pc[r] = "note" /\ Goes(r, "row", local[r]) /\ UNCHANGED <<backups, lastOwn, contested>>
          /\ notes' = [notes EXCEPT ![p] = Rendered(local[r])] /\ HoldsOwnText(r)
        BY <1>6, <2>0 DEF WriteNote, OwnInv
    <2>2. OwnTextsSurvive'
        <3>1. ASSUME NEW u \in Paths, u # p PROVE notes'[u] = notes[u]
            BY <2>1, <3>1 DEF Typed, VaultType
        <3>2. lastOwn[p] # 0 /\ p \notin contested => Saved(p)
            BY <2>0, <2>1 DEF HoldsOwnText
        <3> QED BY <2>1, <3>1, <3>2 DEF OwnInv, OwnTextsSurvive, Saved
    <2>3. ASSUME NEW q \in Requests PROVE HoldsOwnText(q)'
        <3>1. HoldsOwnText(q) /\ ((pc'[q] = pc[q] /\ local'[q] = local[q]) \/ pc'[q] = "row")
            BY <1>0, <2>1 DEF OwnInv, Goes
        <3> QED BY <2>1, <3>1 DEF HoldsOwnText, Saved
    <2> QED BY <2>2, <2>3 DEF OwnInv
<1>7. ASSUME NEW p \in Paths, OwnerWrites(p) PROVE OwnInv'
    <2>1. /\ notes' = [notes EXCEPT ![p] = Own(events')] /\ lastOwn' = [lastOwn EXCEPT ![p] = events']
          /\ contested' = IF Reading(p) = {} THEN contested \ {p} ELSE contested \cup {p}
          /\ UNCHANGED <<backups, pc, local>>
        BY <1>7 DEF OwnerWrites
    <2>2. /\ notes'[p] = Own(lastOwn'[p])
          /\ \A u \in Paths \ {p} : notes'[u] = notes[u] /\ lastOwn'[u] = lastOwn[u]
                                    /\ (u \in contested' <=> u \in contested)
        BY <2>1 DEF Typed, VaultType
    <2>3. OwnTextsSurvive'
        BY <2>1, <2>2 DEF OwnInv, OwnTextsSurvive
    <2>4. ASSUME NEW q \in Requests, pc[q] \in {"backup", "note"} PROVE HoldsOwnText(q)'
        <3>0. PICK u : u = Path(local[q]) /\ u \in Paths
            BY <1>3, <2>4
        <3>1. CASE u = p
            <4>1. p \in contested'
                BY <2>1, <2>4, <3>0, <3>1 DEF Reading
            <4> QED BY <2>1, <3>0, <3>1, <4>1 DEF HoldsOwnText
        <3>2. CASE u # p
            <4>1. HoldsOwnText(q)
                BY DEF OwnInv
            <4> QED BY <2>1, <2>2, <3>0, <3>2, <4>1 DEF HoldsOwnText, Saved
        <3> QED BY <3>1, <3>2
    <2>5. ASSUME NEW q \in Requests PROVE HoldsOwnText(q)'
        BY <2>1, <2>4 DEF HoldsOwnText
    <2> QED BY <2>3, <2>5 DEF OwnInv
<1>8. CASE UNCHANGED vars
    BY <1>8, OwnStays DEF vars
<1> QED BY <1>1, <1>2, <1>4, <1>5, <1>6, <1>7, <1>8 DEF Next, ExportStep

\* No export costs the owner a text: whichever exports write the note of a path, in
\* whatever order, the last text written before they read it is in the note or in a backup
\* (writeRESTNote).
THEOREM OwnTextsStay == Spec => []OwnTextsSurvive
<1>1. Init => OwnInv
    BY DEF Init, OwnInv, OwnTextsSurvive, HoldsOwnText
<1>2. Spec => []OwnInv
    BY <1>1, OwnStep, TypedAlways, PTL DEF Spec
<1> QED BY <1>2, PTL DEF OwnInv

-----------------------------------------------------------------------------
\* Files and rows.

\* Two exports under way know of each other; one that wrote its file while another was
\* under way has its path excused; one that met no other found neither a row nor a file.
ExportsMet   == \A q, r \in Exports : q # r => {q, r} \subseteq met
WrittenMet   == \A r \in Written \cap met : Path(local[r]) \in excused
WrittenAlone == \A r \in Written : Path(local[r]) \notin excused =>
                    files[Path(local[r])] = Rendered(local[r]) /\ ~Exported(Rendered(local[r]))
SearchAlone  == \A r \in Requests \ met :
                    /\ pc[r] \in {"file", "write"} => ~Exported(Rendered(local[r]))
                    /\ pc[r] = "write" => files[Path(local[r])] = Nothing

VaultInv == VaultMatchesTable /\ ExportsMet /\ WrittenMet /\ WrittenAlone /\ SearchAlone

SameItem(q) == /\ local'[q].item = local[q].item /\ local'[q].title = local[q].title
               /\ local'[q].tag = local[q].tag /\ local'[q].number = local[q].number

\* A request that goes on beside files and rows, or ends.
Beside(q) == \/ /\ pc'[q] \notin Exporting
                /\ q \in Written => Path(local[q]) \in excused'
             \/ /\ pc[q] \in Exporting /\ SameItem(q) /\ (q \in met <=> q \in met')
                /\ pc'[q] = pc[q] \/ {pc[q], pc'[q]} \subseteq {"read", "backup", "note", "row"}

LEMMA WrittenExport == Written \subseteq Exports
BY DEF Written, Exports, Exporting

LEMMA SameItemSame == ASSUME NEW q, SameItem(q)
                      PROVE  Path(local'[q]) = Path(local[q]) /\ Rendered(local'[q]) = Rendered(local[q])
BY DEF SameItem, Path, Rendered

LEMMA VaultStays ==
    ASSUME VaultInv, UNCHANGED <<files, rows>>, excused \subseteq excused',
           \A q \in Requests : Beside(q)
    PROVE  VaultInv'
<1>1. ASSUME NEW q \in Requests, pc'[q] \in Exporting
      PROVE  /\ pc[q] \in Exporting /\ (q \in met <=> q \in met')
             /\ Path(local'[q]) = Path(local[q]) /\ Rendered(local'[q]) = Rendered(local[q])
             /\ pc'[q] = pc[q] \/ {pc[q], pc'[q]} \subseteq {"read", "backup", "note", "row"}
    BY <1>1, SameItemSame DEF Beside
<1>2. ASSUME NEW q \in Written' PROVE q \in Written /\ q \in Requests /\ pc'[q] \in Exporting
    <2>1. q \in Requests /\ pc'[q] \in {"read", "backup", "note", "row"}
        BY <1>2 DEF Written
    <2>2. pc'[q] \in Exporting
        BY <2>1 DEF Exporting
    <2> QED BY <1>1, <2>1, <2>2 DEF Written
<1>3. RowsDescribeFiles'
    BY DEF VaultInv, VaultMatchesTable, RowsDescribeFiles
<1>4. FilesHaveRows'
    <2> SUFFICES ASSUME NEW p \in Paths \ excused', files[p] # Nothing, <<files[p], p>> \notin rows
                 PROVE  \E q \in Written' : Path(local'[q]) = p
        BY DEF FilesHaveRows
    <2>1. PICK q \in Written : Path(local[q]) = p
        BY DEF VaultInv, VaultMatchesTable, FilesHaveRows
    <2>2. q \in Requests /\ pc'[q] \in Exporting
        <3>1. q \in Requests /\ Beside(q) /\ Path(local[q]) \notin excused'
            BY <2>1 DEF Written
        <3> QED BY <2>1, <3>1 DEF Beside, Exporting
    <2>3. q \in Written'
        BY <1>1, <2>1, <2>2 DEF Written
    <2> QED BY <1>1, <2>1, <2>2, <2>3
<1>5. ExportsMet'
    BY <1>1 DEF VaultInv, ExportsMet, Exports
<1>6. WrittenMet'
    BY <1>1, <1>2 DEF VaultInv, WrittenMet
<1>7. WrittenAlone'
    BY <1>1, <1>2 DEF VaultInv, WrittenAlone, Exported
<1>8. SearchAlone'
    <2> SUFFICES ASSUME NEW q \in Requests \ met', pc'[q] \in {"file", "write"}
                 PROVE  /\ ~Exported(Rendered(local'[q]))
                        /\ pc'[q] = "write" => files[Path(local'[q])] = Nothing
        BY DEF SearchAlone, Exported
    <2>1. pc'[q] \in Exporting
        BY DEF Exporting
    <2>2. pc[q] = pc'[q] /\ q \notin met
        BY <1>1, <2>1
    <2> QED BY <1>1, <2>1, <2>2 DEF VaultInv, SearchAlone
<1> QED BY <1>3, <1>4, <1>5, <1>6, <1>7, <1>8 DEF VaultInv, VaultMatchesTable

\* The other requests, when one takes a step.
LEMMA OthersBeside ==
    ASSUME RequestsTyped, NEW r \in Requests, NEW l, NEW x, Goes(r, l, x), met' = met \/ met' = met \ {r}
    PROVE  /\ pc'[r] = l /\ local'[r] = x
           /\ \A q \in Requests \ {r} : pc'[q] = pc[q] /\ local'[q] = local[q] /\ (q \in met <=> q \in met')
           /\ (\A q \in Requests \ {r} : q \in Written => q \in Exports) => \A q \in Requests \ {r} : Beside(q)
<1>1. /\ pc'[r] = l /\ local'[r] = x
      /\ \A q \in Requests \ {r} : pc'[q] = pc[q] /\ local'[q] = local[q]
    BY DEF Goes, RequestsTyped, RequestType
<1>2. \A q \in Requests \ {r} : q \in met <=> q \in met'
    OBVIOUS
<1>3. ASSUME NEW q \in Requests \ {r}, q \in Written => q \in Exports PROVE Beside(q)
    BY <1>1, <1>2, <1>3 DEF Beside, SameItem, Exports
<1> QED BY <1>1, <1>2, <1>3

LEMMA ElsewhereVault ==
    ASSUME Typed, VaultInv, NEW r \in Requests,
           \/ \E t \in Titles, g \in Tags : convert(r, t, g)
           \/ \E a \in ArticleIds, t \in Titles \cup {None}, g \in Tags \cup {None} : Get(r, a, t, g)
           \/ ArticleStep(r)
    PROVE  VaultInv'
<1>1. UNCHANGED exportVars /\ pc[r] \notin Exporting
    BY DEF convert, Get, ArticleStep, uniqueSlug, CreateArticle, CreateRefused, Update, Exporting
<1>2. PICK l, x : Goes(r, l, x) /\ l \notin Exporting
    <2>1. \E x : Goes(r, "slug", x) \/ Goes(r, "update", x) \/ Goes(r, "create", x) \/ Goes(r, "idle", x)
        <3>1. CASE uniqueSlug(r)
            BY <3>1 DEF uniqueSlug
        <3>2. CASE CreateArticle(r) \/ CreateRefused(r) \/ Update(r)
            BY <3>2 DEF CreateArticle, CreateRefused, Update, Ends
        <3>3. CASE ~ArticleStep(r)
            BY <3>3, Zenon DEF convert, Get
        <3> QED BY <3>1, <3>2, <3>3 DEF ArticleStep
    <2> QED BY <2>1 DEF Exporting
<1>3. r \notin Written /\ pc'[r] = l /\ \A q \in Requests \ {r} : Beside(q)
    BY <1>1, <1>2, OthersBeside, WrittenExport DEF exportVars, Exports, Typed
<1>4. Beside(r)
    BY <1>2, <1>3 DEF Beside
<1> QED BY <1>1, <1>3, <1>4, VaultStays DEF exportVars

LEMMA NoteVault ==
    ASSUME Typed, VaultInv, NEW r \in Requests, ReadNote(r) \/ Backup(r) \/ WriteNote(r)
    PROVE  VaultInv'
<1>1. PICK l \in {"backup", "note", "row"}, o \in {local[r].old, Nothing, notes[Path(local[r])]} :
          Goes(r, l, [local[r] EXCEPT !.old = o])
    <2>1. local[r] = [local[r] EXCEPT !.old = local[r].old]
        BY DEF Typed, RequestsTyped, RequestType, Locals
    <2>2. CASE ReadNote(r)
        BY <2>2 DEF ReadNote
    <2>3. CASE Backup(r)
        BY <2>3 DEF Backup
    <2>4. CASE WriteNote(r)
        BY <2>1, <2>4 DEF WriteNote
    <2> QED BY <2>2, <2>3, <2>4
<1>2. UNCHANGED exportVars /\ pc[r] \in {"read", "backup", "note"}
    BY DEF ReadNote, Backup, WriteNote
<1>3. /\ pc'[r] = l /\ local'[r] = [local[r] EXCEPT !.old = o] /\ \A q \in Requests \ {r} : Beside(q)
    BY <1>1, <1>2, OthersBeside, WrittenExport DEF exportVars, Typed
<1>4. Beside(r)
    <2>1. SameItem(r)
        BY <1>3 DEF SameItem, Typed, RequestsTyped, RequestType, Locals
    <2> QED BY <1>2, <1>3, <2>1 DEF Beside, exportVars, Exporting
<1> QED BY <1>2, <1>3, <1>4, VaultStays DEF exportVars

LEMMA EndVault ==
    ASSUME Typed, VaultInv, NEW r \in Requests, EndsExport(r), UNCHANGED <<files, rows>>,
           excused' = IF r \in Written THEN excused \cup {Path(local[r])} ELSE excused
    PROVE  VaultInv'
<1>1. pc'[r] = "idle" /\ \A q \in Requests \ {r} : Beside(q)
    BY OthersBeside, WrittenExport DEF EndsExport, Ends, Typed
<1>2. Beside(r)
    BY <1>1 DEF Beside, Exporting
<1> QED BY <1>1, <1>2, VaultStays

LEMMA NothingIsNoContent == ASSUME NEW c \in Contents PROVE c # Nothing
BY DEF Contents, Nothing, ArticleIds

LEMMA ExportArticleVault ==
    ASSUME Typed, VaultInv, NEW r \in Requests, NEW a \in ArticleIds, ExportArticle(r, a)
    PROVE  VaultInv'
<1>0. /\ pc[r] = "idle" /\ UNCHANGED <<files, rows>>
      /\ met' = IF Exports = {} THEN met ELSE met \cup Exports \cup {r}
      /\ excused' = excused \cup {Path(local[q]) : q \in Exports \cap Written}
    BY DEF ExportArticle
<1>1. pc'[r] = "find" /\ \A q \in Requests \ {r} : pc'[q] = pc[q] /\ local'[q] = local[q]
    <2>1. PICK x : Goes(r, "find", x)
        BY Zenon DEF ExportArticle
    <2> QED BY <2>1 DEF Goes, Typed, RequestsTyped, RequestType
<1>2. r \notin Exports /\ Exports' = Exports \cup {r}
    BY <1>0, <1>1 DEF Exports, Exporting
<1>3. r \notin Written /\ Written' = Written
    BY <1>0, <1>1 DEF Written
<1>4. \A q \in Written : q \in Requests /\ q # r /\ q \in Exports /\ local'[q] = local[q] /\ Path(local[q]) \in excused'
    BY <1>0, <1>1, <1>3, WrittenExport DEF Written
<1>5. RowsDescribeFiles'
    BY <1>0 DEF VaultInv, VaultMatchesTable, RowsDescribeFiles
<1>6. FilesHaveRows'
    BY <1>0, <1>3, <1>4 DEF VaultInv, VaultMatchesTable, FilesHaveRows
<1>7. ExportsMet'
    BY <1>0, <1>2 DEF VaultInv, ExportsMet
<1>8. WrittenMet' /\ WrittenAlone'
    BY <1>3, <1>4 DEF WrittenMet, WrittenAlone
<1>9. SearchAlone'
    <2>1. ASSUME NEW q \in Requests \ met', pc'[q] \in {"file", "write"} PROVE q # r /\ q \notin met
        BY <1>0, <1>1, <2>1
    <2> QED BY <1>0, <1>1, <2>1 DEF VaultInv, SearchAlone, Exported
<1> QED BY <1>5, <1>6, <1>7, <1>8, <1>9 DEF VaultInv, VaultMatchesTable

\* An export that goes on before its file is written.
LEMMA SearchVault ==
    ASSUME Typed, VaultInv, NEW r \in Requests, NEW l \in {"file", "write"}, NEW x, Goes(r, l, x),
           pc[r] \in {"find", "file"}, UNCHANGED exportVars,
           r \notin met => ~Exported(Rendered(x)) /\ (l = "write" => files[Path(x)] = Nothing)
    PROVE  VaultInv'
<1>1. pc'[r] = l /\ local'[r] = x /\ \A q \in Requests \ {r} : pc'[q] = pc[q] /\ local'[q] = local[q]
    BY DEF Goes, Typed, RequestsTyped, RequestType
<1>2. Exports' = Exports
    BY <1>1 DEF Exports, Exporting
<1>3. r \notin Written /\ Written' = Written /\ \A q \in Written : local'[q] = local[q]
    BY <1>1 DEF Written
<1>4. RowsDescribeFiles' /\ ExportsMet'
    BY <1>2 DEF VaultInv, VaultMatchesTable, RowsDescribeFiles, ExportsMet, exportVars
<1>5. FilesHaveRows'
    BY <1>3 DEF VaultInv, VaultMatchesTable, FilesHaveRows, exportVars
<1>6. WrittenMet' /\ WrittenAlone'
    BY <1>3 DEF VaultInv, WrittenMet, WrittenAlone, Exported, exportVars
<1>7. SearchAlone'
    BY <1>1 DEF VaultInv, SearchAlone, Exported, exportVars
<1> QED BY <1>4, <1>5, <1>6, <1>7 DEF VaultInv, VaultMatchesTable

LEMMA FindVault == ASSUME Typed, VaultInv, NEW r \in Requests, FindByContentHash(r) PROVE VaultInv'
<1>1. CASE Exported(Rendered(local[r]))
    <2>1. EndsExport(r) /\ UNCHANGED <<files, rows, excused>> /\ r \notin Written
        BY <1>1 DEF FindByContentHash, Written
    <2> QED BY <2>1, EndVault
<1>2. CASE ~Exported(Rendered(local[r]))
    <2>1. Goes(r, "file", local[r]) /\ UNCHANGED exportVars /\ pc[r] = "find"
        BY <1>2 DEF FindByContentHash, exportVars
    <2> QED BY <1>2, <2>1, SearchVault
<1> QED BY <1>1, <1>2

LEMMA PathVault == ASSUME Typed, VaultInv, NEW r \in Requests, uniquePath(r) PROVE VaultInv'
<1>1. PICK n \in Free(local[r]) : Goes(r, "write", [local[r] EXCEPT !.number = n])
    BY Zenon DEF uniquePath
<1>2. pc[r] = "file" /\ UNCHANGED exportVars
    BY DEF uniquePath
<1>3. PICK x : x = [local[r] EXCEPT !.number = n]
    OBVIOUS
<1>4. files[Path(x)] = Nothing
    BY <1>1, <1>3 DEF Free
<1>5. Rendered(x) = Rendered(local[r])
    BY <1>3 DEF Rendered, Typed, RequestsTyped, RequestType, Locals
<1>6. r \notin met => ~Exported(Rendered(x))
    BY <1>2, <1>5 DEF VaultInv, SearchAlone
<1> QED BY <1>1, <1>2, <1>3, <1>4, <1>6, SearchVault

\* The file of an export that met no other is a new one.
LEMMA WriteFileVault == ASSUME Typed, VaultInv, NEW r \in Requests, WriteFile(r) PROVE VaultInv'
<1>0. PICK p, c : p = Path(local[r]) /\ c = Rendered(local[r])
    OBVIOUS
<1>1. /\ pc[r] = "write" /\ files' = [files EXCEPT ![p] = c] /\ UNCHANGED <<rows, met>>
      /\ excused' = IF r \in met THEN excused \cup {p} ELSE excused
      /\ Goes(r, IF Rest THEN "read" ELSE "row", local[r])
    BY <1>0 DEF WriteFile
<1>2. /\ pc'[r] \in {"read", "row"} /\ local' = local
      /\ \A q \in Requests \ {r} : pc'[q] = pc[q]
    BY <1>1 DEF Goes, Typed, RequestsTyped, RequestType
<1>3. p \in Paths
    BY <1>0, <1>1 DEF Typed, RequestsTyped, Ready, Path, Paths
<1>4. files'[p] = c /\ \A u \in Paths \ {p} : files'[u] = files[u]
    BY <1>1, <1>3 DEF Typed, ExportType
<1>5. r \in Exports /\ Exports' = Exports
    BY <1>1, <1>2 DEF Exports, Exporting
<1>6. r \notin Written /\ Written' = Written \cup {r}
    BY <1>1, <1>2 DEF Written
<1>7. p \notin excused' => r \notin met /\ files[p] = Nothing /\ ~Exported(c)
    BY <1>0, <1>1 DEF VaultInv, SearchAlone
<1>8. \A q \in Exports : q # r => q \in met /\ p \in excused'
    BY <1>1, <1>5 DEF VaultInv, ExportsMet
<1>9. \A w \in rows : w[1] \in Contents /\ w[2] \in Paths
    BY DEF Typed, ExportType
<1>10. RowsDescribeFiles'
    <2>1. ASSUME NEW w \in rows, w[2] \notin excused' PROVE files'[w[2]] = w[1]
        <3>1. files[w[2]] = w[1] /\ w[1] # Nothing
            BY <1>1, <1>9, <2>1, NothingIsNoContent DEF VaultInv, VaultMatchesTable, RowsDescribeFiles
        <3> QED BY <1>4, <1>7, <1>9, <2>1, <3>1
    <2> QED BY <1>1, <2>1 DEF RowsDescribeFiles
<1>11. FilesHaveRows'
    <2>1. ASSUME NEW u \in Paths \ excused', files'[u] # Nothing
          PROVE  <<files'[u], u>> \in rows \/ \E q \in Written' : Path(local'[q]) = u
        <3>1. CASE u = p
            BY <1>0, <1>2, <1>6, <3>1
        <3>2. CASE u # p
            BY <1>1, <1>2, <1>4, <1>6, <2>1, <3>2 DEF VaultInv, VaultMatchesTable, FilesHaveRows
        <3> QED BY <3>1, <3>2
    <2> QED BY <1>1, <2>1 DEF FilesHaveRows
<1>12. ExportsMet'
    BY <1>1, <1>5 DEF VaultInv, ExportsMet
<1>13. WrittenMet'
    BY <1>0, <1>1, <1>2, <1>6 DEF VaultInv, WrittenMet
<1>14. WrittenAlone'
    <2>1. ASSUME NEW q \in Written', Path(local[q]) \notin excused'
          PROVE  files'[Path(local[q])] = Rendered(local[q]) /\ ~Exported(Rendered(local[q]))
        <3>1. CASE q = r
            BY <1>0, <1>4, <1>7, <2>1, <3>1
        <3>2. CASE q # r
            <4>1. q \in Written /\ q \in Exports /\ q \in met
                BY <1>6, <1>8, <2>1, <3>2, WrittenExport
            <4> QED BY <1>1, <2>1, <4>1 DEF VaultInv, WrittenMet
        <3> QED BY <3>1, <3>2
    <2> QED BY <1>1, <1>2, <2>1 DEF WrittenAlone, Exported
<1>15. SearchAlone'
    <2>1. ASSUME NEW q \in Requests \ met', pc'[q] \in {"file", "write"} PROVE FALSE
        <3>1. q # r /\ pc[q] \in {"file", "write"}
            BY <1>2, <2>1
        <3>2. q \in Exports
            BY <3>1 DEF Exports, Exporting
        <3> QED BY <1>1, <1>8, <2>1, <3>1, <3>2
    <2> QED BY <2>1 DEF SearchAlone
<1> QED BY <1>10, <1>11, <1>12, <1>13, <1>14, <1>15 DEF VaultInv, VaultMatchesTable

\* The row of an export that met no other is the first of its content.
LEMMA CreateExportVault == ASSUME Typed, VaultInv, NEW r \in Requests, CreateExport(r) PROVE VaultInv'
<1>0. PICK p, c : p = Path(local[r]) /\ c = Rendered(local[r])
    OBVIOUS
<1>1. /\ pc[r] = "row" /\ UNCHANGED <<files, excused>> /\ met' = met \ {r} /\ Ends(r)
      /\ rows' = IF Exported(c) THEN rows ELSE rows \cup {<<c, p>>}
    BY <1>0 DEF CreateExport, EndsExport
<1>2. pc'[r] = "idle" /\ \A q \in Requests \ {r} : pc'[q] = pc[q] /\ local'[q] = local[q]
    BY <1>1 DEF Ends, Goes, Typed, RequestsTyped, RequestType
<1>3. r \in Exports /\ Exports' = Exports \ {r}
    BY <1>1, <1>2 DEF Exports, Exporting
<1>4. r \in Written /\ Written' = Written \ {r} /\ \A q \in Written : q \in Requests
    BY <1>1, <1>2 DEF Written
<1>5. \A q \in Exports : q # r => q \in met
    BY <1>3 DEF VaultInv, ExportsMet
<1>6. p \notin excused => files[p] = c /\ ~Exported(c)
    BY <1>0, <1>4 DEF VaultInv, WrittenAlone
<1>7. RowsDescribeFiles'
    BY <1>1, <1>6 DEF VaultInv, VaultMatchesTable, RowsDescribeFiles
<1>8. FilesHaveRows'
    <2>1. ASSUME NEW u \in Paths \ excused, files[u] # Nothing
          PROVE  <<files[u], u>> \in rows' \/ \E q \in Written' : Path(local'[q]) = u
        <3>1. CASE <<files[u], u>> \in rows
            BY <1>1, <3>1
        <3>2. CASE \E q \in Written : Path(local[q]) = u
            <4>1. PICK q \in Written : Path(local[q]) = u
                BY <3>2
            <4>2. CASE q = r
                BY <1>0, <1>1, <1>6, <2>1, <4>1, <4>2
            <4>3. CASE q # r
                <5>1. q \in Written' /\ local'[q] = local[q]
                    BY <1>2, <1>4, <4>3
                <5> QED BY <4>1, <5>1
            <4> QED BY <4>2, <4>3
        <3> QED BY <2>1, <3>1, <3>2 DEF VaultInv, VaultMatchesTable, FilesHaveRows
    <2> QED BY <1>1, <2>1 DEF FilesHaveRows
<1>9. ExportsMet'
    BY <1>1, <1>3, <1>5 DEF ExportsMet
<1>10. WrittenMet' /\ WrittenAlone'
    <2>1. ASSUME NEW q \in Written' PROVE Path(local'[q]) \in excused'
        <3>1. q \in Written /\ q # r /\ q \in met /\ local'[q] = local[q]
            BY <1>2, <1>4, <1>5, <2>1, WrittenExport
        <3> QED BY <1>1, <3>1 DEF VaultInv, WrittenMet
    <2> QED BY <2>1 DEF WrittenMet, WrittenAlone
<1>11. SearchAlone'
    <2>1. ASSUME NEW q \in Requests \ met', pc'[q] \in {"file", "write"} PROVE FALSE
        <3>1. q # r /\ pc[q] \in {"file", "write"}
            BY <1>2, <2>1
        <3>2. q \in Exports
            BY <3>1 DEF Exports, Exporting
        <3> QED BY <1>1, <1>5, <2>1, <3>1, <3>2
    <2> QED BY <2>1 DEF SearchAlone
<1> QED BY <1>7, <1>8, <1>9, <1>10, <1>11 DEF VaultInv, VaultMatchesTable

LEMMA VaultStep == Typed /\ VaultInv /\ [Next]_vars => VaultInv'
<1> SUFFICES ASSUME Typed, VaultInv, [Next]_vars PROVE VaultInv'
    OBVIOUS
<1>1. ASSUME NEW r \in Requests, Arrives(r) \/ ArticleStep(r) PROVE VaultInv'
    BY <1>1, ElsewhereVault, ExportArticleVault DEF Arrives
<1>2. ASSUME NEW r \in Requests, ExportStep(r) PROVE VaultInv'
    <2>1. CASE NumbersEnd(r)
        <3>1. EndsExport(r) /\ UNCHANGED <<files, rows, excused>> /\ r \notin Written
            BY <2>1 DEF NumbersEnd, Written
        <3> QED BY <3>1, EndVault
    <2> QED BY <1>2, <2>1, FindVault, PathVault, WriteFileVault, NoteVault, CreateExportVault DEF ExportStep
<1>3. ASSUME NEW r \in Requests, Fails(r) PROVE VaultInv'
    BY <1>3, EndVault DEF Fails
<1>4. CASE (\E p \in Paths : OwnerWrites(p)) \/ UNCHANGED vars
    <2>1. UNCHANGED <<exportVars, pc, local>>
        BY <1>4 DEF OwnerWrites, vars
    <2>2. \A q \in Requests : Beside(q) \/ q \notin Exports
        BY <2>1 DEF Beside, SameItem, Exports, exportVars
    <2>3. \A q \in Requests : q \notin Exports => Beside(q)
        BY <2>1, WrittenExport DEF Beside, Exports
    <2> QED BY <2>1, <2>2, <2>3, VaultStays DEF exportVars
<1> QED BY <1>1, <1>2, <1>3, <1>4 DEF Next

\* Vault and table tell the same: an export that met no other finds its number free and
\* its content without a row, and both are still so when it writes them (uniquePath,
\* FindByContentHash, CreateExport).
THEOREM RowsAndFilesAgree == Spec => []VaultMatchesTable
<1>1. Init => VaultInv
    BY DEF Init, VaultInv, VaultMatchesTable, RowsDescribeFiles, FilesHaveRows, ExportsMet, WrittenMet,
           WrittenAlone, SearchAlone, Exports, Written, Exporting
<1>2. Spec => []VaultInv
    BY <1>1, VaultStep, TypedAlways, PTL DEF Spec
<1> QED BY <1>2, PTL DEF VaultInv
=============================================================================
