------------------------------- MODULE Library -------------------------------
(***************************************************************************)
(* What the owner keeps: articles converted from summaries                 *)
(* (internal/article/service.go, storage/postgres/articles.go) and their   *)
(* export to Markdown files and to the notes of an Obsidian vault          *)
(* (internal/obsidian/service.go and rest.go).  The API, the bot and the   *)
(* summary worker serve requests at the same time, on the same tables and  *)
(* the same directory.                                                     *)
(*                                                                         *)
(* A title stands for the titles with one slug and one file name, the tag  *)
(* for the list of tags, the first of which names the directory.           *)
(***************************************************************************)
EXTENDS Integers, FiniteSets

CONSTANTS
    Requests,
    Titles,
    Tags,
    None,
    Headed,      \* articles whose text starts with a heading of its own
    Rest,        \* whether the Obsidian REST API is configured
    MaxArticles, \* bound: articles
    MaxNumber,   \* bound: the number in a slug or a file name
    MaxEvents    \* bound: changes of articles and notes by the owner, failed calls and crashes

ArticleIds == 1..MaxArticles
Numbers    == 1..MaxNumber

ASSUME LibraryAssumption ==
    /\ None \notin Titles \cup Tags
    /\ Headed \subseteq ArticleIds
    /\ Rest \in BOOLEAN
    /\ MaxArticles \in Nat
    /\ MaxNumber \in Nat
    /\ MaxArticles <= MaxNumber
    /\ MaxEvents \in Nat

\* What is exported: the text of an article never changes, so the article with the
\* title and the tag that are rendered stand for it and its hash.
Contents == [item : ArticleIds, title : Titles \cup {None}, tag : Tags]
Paths    == [title : Titles, tag : Tags, number : Numbers]

\* Beside an export a note may hold the n-th text of the owner.
Nothing == [item |-> 0, title |-> None, tag |-> None]
Own(n)  == [item |-> -n, title |-> None, tag |-> None]

VARIABLES
    \* articles
    count, title, tag,
    slugBase, slugNumber,
    \* exports
    files,      \* of each path
    notes,      \* of each path in the vault
    backups,    \* pairs of path and text
    rows,       \* obsidian_exports: pairs of content and path
    \* each request
    pc, local,
    \* ghosts
    wanted,     \* of each article, the title and tag the owner was told last
    crossed,    \* articles with changes that overlapped
    lastOwn,    \* of each path, the owner's last text in the vault, 0 for none
    contested,  \* paths the owner wrote after an export had read them
    met,        \* exports during which another export was under way
    excused,    \* paths written by these and by exports that failed
    events

tableVars  == <<count, title, tag, slugBase, slugNumber, wanted>>
vaultVars  == <<notes, backups, lastOwn, contested>>
exportVars == <<files, rows, met, excused>>
vars == <<tableVars, crossed, vaultVars, exportVars, pc, local, events>>

Converting == {"slug", "create"}
Exporting  == {"find", "file", "write", "read", "backup", "note", "row"}
Control    == {"idle", "update"} \cup Converting \cup Exporting

Locals == [item : ArticleIds \cup {0},
           title : Titles \cup {None}, tag : Tags \cup {None},
           number : 0..MaxNumber + 1,
           old : Contents \cup {Nothing} \cup {Own(n) : n \in 1..MaxEvents}]

NoLocals == [item |-> 0, title |-> None, tag |-> None, number |-> 0, old |-> Nothing]

Init == /\ count = 0
        /\ title = [a \in ArticleIds |-> None]
        /\ tag = [a \in ArticleIds |-> None]
        /\ slugBase = [a \in ArticleIds |-> None]
        /\ slugNumber = [a \in ArticleIds |-> 0]
        /\ files = [p \in Paths |-> Nothing]
        /\ notes = [p \in Paths |-> Nothing]
        /\ backups = {}
        /\ rows = {}
        /\ pc = [r \in Requests |-> "idle"]
        /\ local = [r \in Requests |-> NoLocals]
        /\ wanted = [a \in ArticleIds |-> [title |-> None, tag |-> None]]
        /\ crossed = {}
        /\ lastOwn = [p \in Paths |-> 0]
        /\ contested = {}
        /\ met = {}
        /\ excused = {}
        /\ events = 0

Goes(r, l, x) == /\ pc' = [pc EXCEPT ![r] = l]
                 /\ local' = [local EXCEPT ![r] = x]

Ends(r) == Goes(r, "idle", NoLocals)

Event == events < MaxEvents /\ events' = events + 1

Created(a) == a \in ArticleIds /\ a <= count

-----------------------------------------------------------------------------
\* article.Service.convert: the model answers with a title and tags, whatever the
\* time it takes; then a slug is looked for, one read for each candidate.

SlugTaken(base, n) == \E a \in ArticleIds : slugBase[a] = base /\ slugNumber[a] = n

\* A variant that tries the second slug first.
convertFromTwo(r, t, g) ==
    /\ pc[r] = "idle"
    /\ count < MaxArticles
    /\ Goes(r, "slug", [NoLocals EXCEPT !.title = t, !.tag = g, !.number = 2])
    /\ UNCHANGED <<tableVars, crossed, vaultVars, exportVars, events>>

convert(r, t, g) ==
    /\ pc[r] = "idle"
    /\ count < MaxArticles
    /\ Goes(r, "slug", [NoLocals EXCEPT !.title = t, !.tag = g, !.number = 1])
    /\ UNCHANGED <<tableVars, crossed, vaultVars, exportVars, events>>

uniqueSlug(r) ==
    /\ pc[r] = "slug"
    /\ LET x == local[r]
       IN  IF SlugTaken(x.title, x.number) THEN Goes(r, "slug", [x EXCEPT !.number = @ + 1])
           ELSE Goes(r, "create", x)
    /\ UNCHANGED <<tableVars, crossed, vaultVars, exportVars, events>>

\* UNIQUE (user_id, slug) refuses the second of two that found the same one free.
CreateArticle(r) ==
    /\ pc[r] = "create"
    /\ LET a == count + 1
           x == local[r]
       IN  /\ a \in ArticleIds
           /\ ~SlugTaken(x.title, x.number)
           /\ count' = a
           /\ title' = [title EXCEPT ![a] = x.title]
           /\ tag' = [tag EXCEPT ![a] = x.tag]
           /\ slugBase' = [slugBase EXCEPT ![a] = x.title]
           /\ slugNumber' = [slugNumber EXCEPT ![a] = x.number]
           /\ wanted' = [wanted EXCEPT ![a] = [title |-> x.title, tag |-> x.tag]]
    /\ Ends(r)
    /\ UNCHANGED <<crossed, vaultVars, exportVars, events>>

CreateRefused(r) ==
    /\ pc[r] = "create"
    /\ count = MaxArticles \/ SlugTaken(local[r].title, local[r].number)
    /\ Ends(r)
    /\ UNCHANGED <<tableVars, crossed, vaultVars, exportVars, events>>

-----------------------------------------------------------------------------
\* article.Service.UpdateMetadata: the row is read, changed and written back whole.

Changing(a) == {q \in Requests : pc[q] = "update" /\ local[q].item = a}

\* A blank title and missing tags leave what is there.
Get(r, a, t, g) ==
    /\ pc[r] = "idle" /\ Created(a)
    /\ {t, g} # {None}
    /\ Event
    /\ Goes(r, "update", [NoLocals EXCEPT !.item = a,
                                          !.title = IF t = None THEN title[a] ELSE t,
                                          !.tag   = IF g = None THEN tag[a] ELSE g])
    /\ wanted' = [wanted EXCEPT ![a] = [title |-> IF t = None THEN @.title ELSE t,
                                        tag   |-> IF g = None THEN @.tag ELSE g]]
    /\ crossed' = IF Changing(a) = {} THEN crossed ELSE crossed \cup {a}
    /\ UNCHANGED <<count, title, tag, slugBase, slugNumber, vaultVars, exportVars>>

\* A variant that leaves the tags of the row.
UpdateTitle(r) ==
    /\ pc[r] = "update"
    /\ title' = [title EXCEPT ![local[r].item] = local[r].title]
    /\ Ends(r)
    /\ UNCHANGED <<count, tag, slugBase, slugNumber, wanted, crossed, vaultVars, exportVars, events>>

\* The slug stays what it was.
Update(r) ==
    /\ pc[r] = "update"
    /\ title' = [title EXCEPT ![local[r].item] = local[r].title]
    /\ tag' = [tag EXCEPT ![local[r].item] = local[r].tag]
    /\ Ends(r)
    /\ UNCHANGED <<count, slugBase, slugNumber, wanted, crossed, vaultVars, exportVars, events>>

-----------------------------------------------------------------------------
\* obsidian.Service.

\* What is rendered of an item, its title only when the text has no heading.
Rendered(x) == [item |-> x.item, title |-> IF x.item \in Headed THEN None ELSE x.title, tag |-> x.tag]

Path(x) == [title |-> x.title, tag |-> x.tag, number |-> x.number]

Exports == {q \in Requests : pc[q] \in Exporting}
Written == {q \in Requests : pc[q] \in {"read", "backup", "note", "row"}}

\* A summary is exported the same way, to a directory of its own.
ExportArticle(r, a) ==
    /\ pc[r] = "idle" /\ Created(a)
    /\ Goes(r, "find", [NoLocals EXCEPT !.item = a, !.title = title[a], !.tag = tag[a]])
    /\ met' = IF Exports = {} THEN met ELSE met \cup Exports \cup {r}
    /\ excused' = excused \cup {Path(local[q]) : q \in Exports \cap Written}
    /\ UNCHANGED <<tableVars, crossed, vaultVars, files, rows, events>>

EndsExport(r) == Ends(r) /\ met' = met \ {r}

Exported(c) == \E w \in rows : w[1] = c

\* The row of the same content is reused.
FindByContentHash(r) ==
    /\ pc[r] = "find"
    /\ IF Exported(Rendered(local[r])) THEN EndsExport(r) ELSE Goes(r, "file", local[r]) /\ met' = met
    /\ UNCHANGED <<tableVars, crossed, vaultVars, files, rows, excused, events>>

Free(x) == {n \in Numbers : files[Path([x EXCEPT !.number = n])] = Nothing}

\* A variant that takes the plain name.
PlainPath(r) ==
    /\ pc[r] = "file"
    /\ Goes(r, "write", [local[r] EXCEPT !.number = 1])
    /\ UNCHANGED <<tableVars, crossed, vaultVars, exportVars, events>>

\* The first number without a file.
uniquePath(r) ==
    /\ pc[r] = "file"
    /\ \E n \in Free(local[r]) : /\ \A k \in Free(local[r]) : n <= k
                                 /\ Goes(r, "write", [local[r] EXCEPT !.number = n])
    /\ UNCHANGED <<tableVars, crossed, vaultVars, exportVars, events>>

\* The numbers end, which is a bound: the code goes on to 999 and then to the time.
NumbersEnd(r) ==
    /\ pc[r] = "file"
    /\ Free(local[r]) = {}
    /\ EndsExport(r)
    /\ UNCHANGED <<tableVars, crossed, vaultVars, files, rows, excused, events>>

WriteFile(r) ==
    /\ pc[r] = "write"
    /\ files' = [files EXCEPT ![Path(local[r])] = Rendered(local[r])]
    /\ excused' = IF r \in met THEN excused \cup {Path(local[r])} ELSE excused
    /\ Goes(r, IF Rest THEN "read" ELSE "row", local[r])
    /\ UNCHANGED <<tableVars, crossed, vaultVars, rows, met, events>>

\* A variant that does not keep what it finds.
ReadAndForget(r) ==
    /\ pc[r] = "read"
    /\ Goes(r, "note", [local[r] EXCEPT !.old = notes[Path(local[r])]])
    /\ UNCHANGED <<tableVars, crossed, vaultVars, exportVars, events>>

ReadNote(r) ==
    /\ pc[r] = "read"
    /\ LET old == notes[Path(local[r])]
       IN  Goes(r, IF old = Nothing THEN "note" ELSE "backup", [local[r] EXCEPT !.old = old])
    /\ UNCHANGED <<tableVars, crossed, vaultVars, exportVars, events>>

\* The name of a backup holds the second, so it is new.
Backup(r) ==
    /\ pc[r] = "backup"
    /\ backups' = backups \cup {<<Path(local[r]), local[r].old>>}
    /\ Goes(r, "note", [local[r] EXCEPT !.old = Nothing])
    /\ UNCHANGED <<tableVars, crossed, notes, lastOwn, contested, exportVars, events>>

WriteNote(r) ==
    /\ pc[r] = "note"
    /\ notes' = [notes EXCEPT ![Path(local[r])] = Rendered(local[r])]
    /\ Goes(r, "row", local[r])
    /\ UNCHANGED <<tableVars, crossed, backups, lastOwn, contested, exportVars, events>>

\* UNIQUE (content_hash) refuses a second row: the export fails.
CreateExport(r) ==
    /\ pc[r] = "row"
    /\ LET c == Rendered(local[r])
       IN  rows' = IF Exported(c) THEN rows ELSE rows \cup {<<c, Path(local[r])>>}
    /\ EndsExport(r)
    /\ UNCHANGED <<tableVars, crossed, vaultVars, files, excused, events>>

-----------------------------------------------------------------------------
\* The owner writes a note in the vault; calls fail, processes die.

Reading(p) == {q \in Requests : pc[q] \in {"backup", "note"} /\ Path(local[q]) = p}

OwnerWrites(p) ==
    /\ Event
    /\ notes' = [notes EXCEPT ![p] = Own(events')]
    /\ lastOwn' = [lastOwn EXCEPT ![p] = events']
    /\ contested' = IF Reading(p) = {} THEN contested \ {p} ELSE contested \cup {p}
    /\ UNCHANGED <<tableVars, crossed, backups, exportVars, pc, local>>

\* A file may be left by an export that fails.
Fails(r) ==
    /\ pc[r] # "idle"
    /\ Event
    /\ EndsExport(r)
    /\ crossed' = IF pc[r] = "update" THEN crossed \cup {local[r].item} ELSE crossed
    /\ excused' = IF r \in Written THEN excused \cup {Path(local[r])} ELSE excused
    /\ UNCHANGED <<tableVars, vaultVars, files, rows>>

-----------------------------------------------------------------------------
ArticleStep(r) == uniqueSlug(r) \/ CreateArticle(r) \/ CreateRefused(r) \/ Update(r)

ExportStep(r) == \/ FindByContentHash(r) \/ uniquePath(r) \/ NumbersEnd(r) \/ WriteFile(r)
                 \/ ReadNote(r) \/ Backup(r) \/ WriteNote(r) \/ CreateExport(r)

Arrives(r) == \/ \E t \in Titles, g \in Tags : convert(r, t, g)
              \/ \E a \in ArticleIds, t \in Titles \cup {None}, g \in Tags \cup {None} : Get(r, a, t, g)
              \/ \E a \in ArticleIds : ExportArticle(r, a)

Next == \/ \E r \in Requests : Arrives(r) \/ ArticleStep(r) \/ ExportStep(r) \/ Fails(r)
        \/ \E p \in Paths : OwnerWrites(p)

Spec == Init /\ [][Next]_vars
=============================================================================
