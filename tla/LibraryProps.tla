---------------------------- MODULE LibraryProps ----------------------------
(***************************************************************************)
(* What articles and exports must get right.                               *)
(***************************************************************************)
EXTENDS Library

Texts == Contents \cup {Nothing} \cup {Own(n) : n \in 1..MaxEvents}

TableType == /\ count \in 0..MaxArticles
             /\ title \in [ArticleIds -> Titles \cup {None}]
             /\ tag \in [ArticleIds -> Tags \cup {None}]
             /\ slugBase \in [ArticleIds -> Titles \cup {None}]
             /\ slugNumber \in [ArticleIds -> 0..MaxNumber]
             /\ wanted \in [ArticleIds -> [title : Titles \cup {None}, tag : Tags \cup {None}]]
             /\ crossed \subseteq ArticleIds

VaultType == /\ notes \in [Paths -> Texts]
             /\ backups \subseteq Paths \X Texts
             /\ lastOwn \in [Paths -> 0..MaxEvents]
             /\ contested \subseteq Paths

ExportType == /\ files \in [Paths -> Contents \cup {Nothing}]
              /\ rows \subseteq Contents \X Paths
              /\ met \subseteq Requests
              /\ excused \subseteq Paths

LocalType == /\ pc \in [Requests -> Control]
             /\ local \in [Requests -> Locals]
             /\ \A r \in Requests : pc[r] \in Converting => local[r].number <= MaxArticles + 1
             /\ events \in 0..MaxEvents

\* Tables, vault and requests hold values of their types; the search for a slug
\* ends at the latest after one more number than there are articles.
TypeOK == TableType /\ VaultType /\ ExportType /\ LocalType

\* The slugs of one title are numbered without a gap, whatever conversions run at
\* the same time and which of them lose: the third article of a title is "-3".
SlugsWithoutGap ==
    \A a \in ArticleIds : slugNumber[a] > 1 =>
        \E b \in ArticleIds : slugBase[b] = slugBase[a] /\ slugNumber[b] = slugNumber[a] - 1

\* What the owner was told of a title or a tag stays, unless two changes of the
\* article overlapped or one failed.
EditsAreKept ==
    \A a \in ArticleIds \ crossed :
        Created(a) /\ Changing(a) = {} => wanted[a] = [title |-> title[a], tag |-> tag[a]]

\* The file of an export holds what the row says it does.
RowsDescribeFiles ==
    \A w \in rows : w[2] \notin excused => files[w[2]] = w[1]

\* A file has its row, or the export that wrote it has still to create one.
FilesHaveRows ==
    \A p \in Paths \ excused : files[p] # Nothing =>
        \/ <<files[p], p>> \in rows
        \/ \E r \in Written : Path(local[r]) = p

\* Vault and table tell the same: an export that is asked for twice makes one file, and
\* two items with one title never write over each other's; unless two exports chose a
\* name at the same time or one failed after writing its file.
VaultMatchesTable == RowsDescribeFiles /\ FilesHaveRows

\* A text the owner wrote is in the note or in a backup of it, unless it was
\* written while an export had already read the note.
OwnTextsSurvive ==
    \A p \in Paths : lastOwn[p] # 0 /\ p \notin contested =>
        \/ notes[p] = Own(lastOwn[p])
        \/ <<p, Own(lastOwn[p])>> \in backups
=============================================================================
