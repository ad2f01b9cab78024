---------------------------- MODULE DigestProofs ----------------------------
(***************************************************************************)
(* Theorems about collection, summaries and read positions, for every      *)
(* number of chats, runs and messages and every interleaving of the runs.  *)
(***************************************************************************)
EXTENDS DigestProps, TLAPS

USE DEF work, marker, budget, Advance, Stop

\* A message in a batch has been posted.
Posted(b) == \A c \in Chats, n \in Ids : <<c, n>> \in b => n <= posted[c]

\* A collection leaves out no message before the newest one of its batch without
\* knowing it: the message is in the batch or in the gap, a summary has it, it was
\* missed before, or it has no text.
Covers(b, g) == \A c \in Chats : \A m, n \in Ids :
                   <<c, n>> \in b /\ m <= n /\ kind[<<c, m>>] # "blank"
                   => <<c, m>> \in b \cup g \/ listed[<<c, m>>] > 0 \/ <<c, m>> \in missed

\* A run writes positions only once its batch is in a saved summary.
MarksDigested == \A r \in Runs : pc[r] \in {"marking", "advancing"} =>
                    \A x \in batch[r] : listed[x] > 0

\* The inductive invariant behind NothingSkipped.
Coverage == /\ \A r \in Runs : Posted(batch[r]) /\ Covers(batch[r], gap[r])
            /\ \A j \in stored : Posted(j.batch) /\ Covers(j.batch, j.gap)
            /\ \A c \in Chats : position[c] <= posted[c]

\* CollectGroup, with the answers of Telegram that are too short.
Collects(r) == CollectGroup(r) \/ \E c \in Chats : CollectShort(r, c)

\* An answer about chat c adds messages S to the batch of run r, and G to its gap.
Adds(r, c, S, G) == /\ batch' = [batch EXCEPT ![r] = @ \cup {<<c, m>> : m \in S}]
                    /\ gap' = [gap EXCEPT ![r] = @ \cup {<<c, m>> : m \in G}]

-----------------------------------------------------------------------------
\* What one answer of Telegram adds: messages that have text, and in new_only lie
\* after the position.  What lies after the position is added to batch or gap.
LEMMA AnswerAdds ==
    ASSUME TypeOK, NEW r \in Runs, NEW c \in Chats, CollectChat(r, c) \/ CollectShort(r, c)
    PROVE  \E S \in SUBSET (1..posted[c]), G \in SUBSET (1..posted[c]) :
              /\ Adds(r, c, S, G)
              /\ \A m \in S \cup G : kind[<<c, m>>] # "blank"
              /\ mode[r] = "new_only" => \A m \in S : m > position[c]
              /\ \A m \in 1..posted[c] :
                    m > position[c] /\ kind[<<c, m>>] # "blank" => m \in S \cup G
<1>1. \E n : Answered(r, c, n)
    BY DEF CollectChat, CollectShort
<1>2. PICK n : Answered(r, c, n)
    BY <1>1
<1>3. PICK since :
        /\ since \in IF mode[r] = "recent" THEN 0..posted[c] ELSE {0}
        /\ batch' = [batch EXCEPT ![r] = @ \cup
                       {<<c, m>> : m \in {i \in History(c, n) : ~shouldSkipMessage(r, c, i,
                       since)}}]
        /\ gap' = [gap EXCEPT ![r] = @ \cup Unseen(c, History(c, n), since)]
    BY <1>2 DEF Answered
<1> DEFINE S == {i \in History(c, n) : ~shouldSkipMessage(r, c, i, since)}
           G == {i \in 1..posted[c] : /\ i > position[c] /\ kind[<<c, i>>] # "blank"
                                      /\ i \notin History(c, n) \/ i <= since}
<1>4. S \in SUBSET (1..posted[c]) /\ G \in SUBSET (1..posted[c])
    BY DEF History
<1>5. Unseen(c, History(c, n), since) = {<<c, m>> : m \in G}
    BY DEF Unseen
<1>6. \A m \in S \cup G : kind[<<c, m>>] # "blank"
    BY DEF shouldSkipMessage
<1>7. mode[r] = "new_only" => \A m \in S : m > position[c]
    BY <1>4 DEF shouldSkipMessage, TypeOK
<1>8. ASSUME NEW m \in 1..posted[c], m > position[c], kind[<<c, m>>] # "blank" PROVE m \in S \cup G
    <2>1. CASE m \in History(c, n) /\ m > since
        <3>1. m \in Int /\ position[c] \in Int /\ since \in Int
            BY <1>3 DEF TypeOK
        <3>2. ~shouldSkipMessage(r, c, m, since)
            BY <1>8, <2>1, <3>1 DEF shouldSkipMessage
        <3> QED BY <2>1, <3>2
    <2>2. CASE m \notin History(c, n) \/ ~(m > since)
        <3>1. m \in Int /\ since \in Int
            BY <1>3 DEF TypeOK
        <3> QED BY <1>8, <2>2, <3>1
    <2> QED BY <2>1, <2>2
<1>9. Adds(r, c, S, G)
    BY <1>3, <1>5 DEF Adds
<1> HIDE DEF S, G
<1> QED BY <1>4, <1>6, <1>7, <1>8, <1>9

\* A summary adds to what is listed, and lists every message of its batch.
LEMMA ListLists ==
    ASSUME TypeOK, NEW r \in Runs, List(r)
    PROVE  /\ listed' \in [Messages -> 0..MaxListed]
           /\ \A x \in Messages : listed[x] > 0 => listed'[x] > 0
           /\ \A x \in batch[r] : listed'[x] > 0
BY DigestAssumption DEF TypeOK, List

\* Telegram, the database and the runs keep their types.
THEOREM TypeCorrect == Spec => []TypeOK
<1>1. Init => TypeOK
    BY DigestAssumption DEF Init, TypeOK, Kinds, Control, AllModes
<1>2. TypeOK /\ [Next]_vars => TypeOK'
    <2> SUFFICES ASSUME TypeOK, [Next]_vars PROVE TypeOK'
        OBVIOUS
    <2> USE DEF Control
    <2>1. ASSUME NEW c \in Chats, NEW k \in Kinds, Post(c, k) PROVE TypeOK'
        BY <2>1, DigestAssumption DEF Post, TypeOK, run, Messages, Ids
    <2>2. ASSUME NEW c \in Chats, Read(c) PROVE TypeOK'
        BY <2>2 DEF Read, TypeOK, run
    <2>3. ASSUME NEW r \in Runs, NEW m \in Modes, StartCollect(r, m) PROVE TypeOK'
        <3>1. collectionLimit(m) \in [Chats -> Int]
            BY DigestAssumption DEF collectionLimit, TypeOK
        <3>2. m \in AllModes
            BY DigestAssumption
        <3> QED BY <2>3, <3>1, <3>2 DEF StartCollect, TypeOK, telegram
    <2>4. ASSUME NEW r \in Runs, NEW c \in Chats, CollectChat(r, c) \/ CollectShort(r, c)
          PROVE  TypeOK'
        <3>1. PICK S \in SUBSET (1..posted[c]), G \in SUBSET (1..posted[c]) : Adds(r, c, S, G)
            BY <2>4, AnswerAdds
        <3>2. 1..posted[c] \subseteq Ids
            BY DigestAssumption DEF TypeOK, Ids
        <3>3. {<<c, m>> : m \in S} \subseteq Messages /\ {<<c, m>> : m \in G} \subseteq Messages
            BY <3>2 DEF Messages
        <3>4. batch' \in [Runs -> SUBSET Messages] /\ gap' \in [Runs -> SUBSET Messages]
            BY <3>1, <3>3 DEF TypeOK, Adds
        <3>5. cuts' \in Nat
            BY <2>4 DEF CollectChat, CollectShort, TypeOK
        <3>6. PICK n : Answered(r, c, n)
            BY <2>4 DEF CollectChat, CollectShort
        <3> QED BY <3>4, <3>5, <3>6 DEF Answered, TypeOK, telegram
    <2>5. ASSUME NEW r \in Runs, StoreCollection(r) PROVE TypeOK'
        <3>1. stored' \subseteq [batch : SUBSET Messages, gap : SUBSET Messages]
            BY <2>5 DEF StoreCollection, TypeOK
        <3>2. pc' \in [Runs -> Control] /\ todo' \in [Runs -> SUBSET Chats]
            BY <2>5 DEF StoreCollection, TypeOK
        <3>3. batch' \in [Runs -> SUBSET Messages] /\ gap' \in [Runs -> SUBSET Messages]
            BY <2>5 DEF StoreCollection, TypeOK
        <3>4. UNCHANGED <<mode, quota, marker>>
            BY <2>5 DEF StoreCollection
        <3> QED BY <2>5, <3>1, <3>2, <3>3, <3>4 DEF StoreCollection, TypeOK, telegram
    <2>6. ASSUME NEW r \in Runs, CollectFails(r) PROVE TypeOK'
        BY <2>6 DEF CollectFails, Fault, TypeOK, telegram
    <2>7. ASSUME NEW r \in Runs, NothingLeft(r) PROVE TypeOK'
        BY <2>7 DEF NothingLeft, TypeOK, telegram
    <2>8. ASSUME NEW r \in Runs, CreateSummary(r) PROVE TypeOK'
        <3>1. listed' \in [Messages -> 0..MaxListed]
            BY <2>8, ListLists DEF CreateSummary
        <3> QED BY <2>8, <3>1 DEF CreateSummary, TypeOK, telegram
    <2>9. ASSUME NEW r \in Runs, SummaryFails(r) PROVE TypeOK'
        <3>1. listed' \in [Messages -> 0..MaxListed]
            BY <2>9, ListLists DEF SummaryFails, TypeOK
        <3> QED BY <2>9, <3>1 DEF SummaryFails, Fault, TypeOK, telegram
    <2>10. ASSUME NEW r \in Runs, NEW c \in Chats, FindPosition(r, c) PROVE TypeOK'
        BY <2>10 DEF FindPosition, TypeOK, telegram
    <2>11. ASSUME NEW r \in Runs, UpsertPosition(r) PROVE TypeOK'
        BY <2>11, DigestAssumption DEF UpsertPosition, TypeOK, telegram, Ids
    <2>12. ASSUME NEW r \in Runs, EndMarking(r) PROVE TypeOK'
        BY <2>12 DEF EndMarking, TypeOK, telegram
    <2>13. ASSUME NEW r \in Runs, MarkFails(r) PROVE TypeOK'
        BY <2>13 DEF MarkFails, Fault, TypeOK, telegram
    <2>14. ASSUME NEW r \in Runs, NEW S, View(r, S) PROVE viewed' \in [Chats -> 0..MaxMessages]
        <3>1. ASSUME NEW c \in Chats, \E n \in Ids : Newest(r, c, n)
              PROVE  (CHOOSE n \in Ids : Newest(r, c, n)) \in 0..MaxMessages
            <4>1. (CHOOSE n \in Ids : Newest(r, c, n)) \in Ids
                BY <3>1
            <4> QED BY <4>1, DigestAssumption DEF Ids
        <3> QED BY <2>14, <3>1 DEF View, TypeOK
    <2>15. ASSUME NEW r \in Runs, ViewMessages(r) \/ ViewFails(r) PROVE TypeOK'
        <3>1. viewed' \in [Chats -> 0..MaxMessages]
            BY <2>14, <2>15 DEF ViewMessages, ViewFails
        <3>2. CASE ViewMessages(r)
            BY <3>1, <3>2 DEF ViewMessages, TypeOK
        <3>3. CASE ViewFails(r)
            BY <3>1, <3>3 DEF ViewFails, Fault, TypeOK
        <3> QED BY <2>15, <3>2, <3>3
    <2>16. ASSUME NEW r \in Runs, Repeat(r) PROVE TypeOK'
        BY <2>16 DEF Repeat, TypeOK, telegram
    <2>17. ASSUME NEW r \in Runs, Crash(r) PROVE TypeOK'
        BY <2>17 DEF Crash, Fault, TypeOK, telegram
    <2>18. CASE UNCHANGED vars
        BY <2>18 DEF vars, telegram, run, TypeOK
    <2> QED
        BY <2>1, <2>2, <2>3, <2>4, <2>5, <2>6, <2>7, <2>8, <2>9, <2>10, <2>11, <2>12, <2>13,
           <2>15, <2>16, <2>17, <2>18
           DEF Next, Collects, CollectGroup, GenerateFromCollection, Fails
<1> QED
    BY <1>1, <1>2, PTL DEF Spec

-----------------------------------------------------------------------------
\* Which steps write what.  Most steps leave Telegram, the summaries and the
\* positions alone.

\* The steps of a run that write neither summaries nor positions.
Quiet(r) == \/ \E m \in Modes : StartCollect(r, m)
            \/ Collects(r)
            \/ NothingLeft(r) \/ EndMarking(r) \/ ViewMessages(r) \/ Repeat(r)
            \/ \E c \in Chats : FindPosition(r, c)
            \/ CollectFails(r) \/ MarkFails(r) \/ ViewFails(r) \/ Crash(r)

\* They write no messages, summaries or positions, and no other run.
LEMMA QuietSteps ==
    ASSUME TypeOK, NEW r \in Runs, Quiet(r)
    PROVE  /\ UNCHANGED <<posted, kind, listed, position, missed>>
           /\ \A s \in Runs \ {r} : batch'[s] = batch[s] /\ pc'[s] = pc[s]
BY DEF Quiet, StartCollect, Collects, CollectGroup, CollectChat, CollectShort, Answered,
       StoreCollection, NothingLeft, EndMarking,
       ViewMessages, Repeat, FindPosition, CollectFails, MarkFails, ViewFails, Crash,
       telegram, TypeOK

\* A step that goes on to the positions leaves a batch that is in a summary.
LEMMA MarksDigestedInit == Init => MarksDigested
BY DEF Init, MarksDigested

\* Only CreateSummary lets a run go on to the positions, and it saves the batch.
LEMMA MarksDigestedStep == TypeOK /\ MarksDigested /\ [Next]_vars => MarksDigested'
<1> SUFFICES ASSUME TypeOK, MarksDigested, [Next]_vars PROVE MarksDigested'
    OBVIOUS
<1>1. ASSUME NEW r \in Runs, Quiet(r) PROVE MarksDigested'
    <2>1. listed' = listed /\ \A s \in Runs \ {r} : batch'[s] = batch[s] /\ pc'[s] = pc[s]
        BY <1>1, QuietSteps
    <2>2. pc'[r] \in {"marking", "advancing"} =>
             pc[r] \in {"marking", "advancing"} /\ batch'[r] = batch[r]
        BY <1>1 DEF Quiet, StartCollect, Collects, CollectGroup, CollectChat, CollectShort,
                    Answered, StoreCollection, NothingLeft,
                    EndMarking, ViewMessages, Repeat, FindPosition, CollectFails, MarkFails,
                    ViewFails, Crash, TypeOK
    <2> QED BY <2>1, <2>2 DEF MarksDigested
<1>2. ASSUME NEW r \in Runs, CreateSummary(r) \/ SummaryFails(r) PROVE MarksDigested'
    <2>1. /\ \A x \in Messages : listed[x] > 0 => listed'[x] > 0
          /\ pc'[r] \in {"marking", "advancing"} => \A x \in batch[r] : listed'[x] > 0
        BY <1>2, ListLists DEF CreateSummary, SummaryFails, TypeOK
    <2>2. /\ \A s \in Runs \ {r} : batch'[s] = batch[s] /\ pc'[s] = pc[s]
          /\ batch'[r] \subseteq batch[r]
        BY <1>2 DEF CreateSummary, SummaryFails, TypeOK
    <2> QED BY <2>1, <2>2 DEF MarksDigested, TypeOK
<1>3. ASSUME NEW r \in Runs, UpsertPosition(r) PROVE MarksDigested'
    BY <1>3 DEF UpsertPosition, MarksDigested, TypeOK
<1>4. CASE (\E c \in Chats : Read(c) \/ \E k \in Kinds : Post(c, k)) \/ UNCHANGED vars
    BY <1>4 DEF Read, Post, vars, run, MarksDigested
<1> QED
    BY <1>1, <1>2, <1>3, <1>4 DEF Next, Quiet, Collects, GenerateFromCollection, Fails

\* A position is always that of a message in a saved summary, whatever the modes,
\* the limit, the interleaving of the runs and the failures.
THEOREM PositionsFollowSummaries == Spec => []PositionIsDigested
<1>1. Init => PositionIsDigested
    <2>1. Init => position = [c \in Chats |-> 0]
        BY DEF Init
    <2> QED BY <2>1 DEF PositionIsDigested
<1>2. TypeOK /\ MarksDigested /\ PositionIsDigested /\ [Next]_vars => PositionIsDigested'
    <2> SUFFICES ASSUME TypeOK, MarksDigested, PositionIsDigested, [Next]_vars
                 PROVE  PositionIsDigested'
        OBVIOUS
    <2> USE DEF Digested
    <2>1. ASSUME NEW r \in Runs, Quiet(r) PROVE PositionIsDigested'
        BY <2>1, QuietSteps DEF PositionIsDigested
    <2>2. ASSUME NEW r \in Runs, CreateSummary(r) \/ SummaryFails(r) PROVE PositionIsDigested'
        <3>1. \A x \in Messages : listed[x] > 0 => listed'[x] > 0
            BY <2>2, ListLists DEF CreateSummary, SummaryFails, TypeOK
        <3>2. position' = position
            BY <2>2 DEF CreateSummary, SummaryFails
        <3> QED BY <3>1, <3>2 DEF PositionIsDigested
    <2>3. ASSUME NEW r \in Runs, UpsertPosition(r) PROVE PositionIsDigested'
        <3>1. PICK n \in Ids : Newest(r, chat[r], n) /\ position' = [position EXCEPT ![chat[r]] = n]
            BY <2>3 DEF UpsertPosition
        <3>2. <<chat[r], n>> \in Messages /\ listed[<<chat[r], n>>] > 0
            BY <2>3, <3>1 DEF UpsertPosition, Newest, MarksDigested, TypeOK
        <3>3. listed' = listed
            BY <2>3 DEF UpsertPosition
        <3> QED BY <3>1, <3>2, <3>3 DEF PositionIsDigested, TypeOK
    <2>4. CASE (\E c \in Chats : Read(c) \/ \E k \in Kinds : Post(c, k)) \/ UNCHANGED vars
        BY <2>4 DEF Read, Post, vars, PositionIsDigested
    <2> QED
        BY <2>1, <2>2, <2>3, <2>4 DEF Next, Quiet, Collects, GenerateFromCollection, Fails
<1> QED
    BY <1>1, <1>2, MarksDigestedInit, MarksDigestedStep, TypeCorrect, PTL DEF Spec

-----------------------------------------------------------------------------
\* Nothing is skipped.  The invariant is Coverage: what lies before the newest
\* message a run has of a chat is in its batch, or known to be left out.

\* The steps of a run.
Step(r) == \/ \E m \in Modes : StartCollect(r, m)
           \/ Collects(r) \/ GenerateFromCollection(r) \/ Repeat(r) \/ Fails(r)

Job(r) == [batch |-> batch[r], gap |-> gap[r]]

\* They write no messages and no other run, what is listed or missed stays so, and
\* a run has what it had, what a stored collection has, nothing, or an answer more.
LEMMA StepWrites ==
    ASSUME TypeOK, NEW r \in Runs, Step(r)
    PROVE  /\ posted' = posted /\ kind' = kind
           /\ \A s \in Runs \ {r} : batch'[s] = batch[s] /\ gap'[s] = gap[s]
           /\ \A x \in Messages : listed[x] > 0 => listed'[x] > 0
           /\ missed \subseteq missed' /\ missed' \subseteq missed \cup gap[r]
           /\ \A j \in stored' : j \in stored \/ j = Job(r)
           /\ \/ batch'[r] = {} /\ gap'[r] = {}
              \/ batch'[r] = batch[r] /\ gap'[r] = gap[r]
              \/ \E j \in stored : batch'[r] = j.batch /\ gap'[r] = j.gap
              \/ \E c \in Chats : CollectChat(r, c) \/ CollectShort(r, c)
<1> USE DEF Step
<1>1. posted' = posted /\ kind' = kind
    BY DEF StartCollect, Collects, CollectGroup, CollectChat, CollectShort, Answered,
           StoreCollection, GenerateFromCollection, NothingLeft, CreateSummary, FindPosition,
           UpsertPosition, EndMarking, ViewMessages, Repeat, Fails, CollectFails, SummaryFails,
           MarkFails, ViewFails, Crash, telegram
<1>2. listed' = listed \/ List(r)
    BY DEF StartCollect, Collects, CollectGroup, CollectChat, CollectShort, Answered,
           StoreCollection, GenerateFromCollection, NothingLeft, CreateSummary, FindPosition,
           UpsertPosition, EndMarking, ViewMessages, Repeat, Fails, CollectFails, SummaryFails,
           MarkFails, ViewFails, Crash
<1>3. \A x \in Messages : listed[x] > 0 => listed'[x] > 0
    BY <1>2, ListLists
<1>4. \A s \in Runs \ {r} : batch'[s] = batch[s] /\ gap'[s] = gap[s]
    BY DEF StartCollect, Collects, CollectGroup, CollectChat, CollectShort, Answered,
           StoreCollection, GenerateFromCollection, NothingLeft, CreateSummary, FindPosition,
           UpsertPosition, EndMarking, ViewMessages, Repeat, Fails, CollectFails, SummaryFails,
           MarkFails, ViewFails, Crash, TypeOK
<1>5. missed \subseteq missed' /\ missed' \subseteq missed \cup gap[r]
    BY DEF StartCollect, Collects, CollectGroup, CollectChat, CollectShort, Answered,
           StoreCollection, GenerateFromCollection, NothingLeft, CreateSummary, FindPosition,
           UpsertPosition, EndMarking, ViewMessages, Repeat, Fails, CollectFails,
           SummaryFails, MarkFails, ViewFails, Crash
<1>6. \A j \in stored' : j \in stored \/ j = Job(r)
    BY DEF StartCollect, Collects, CollectGroup, CollectChat, CollectShort, Answered,
           StoreCollection, GenerateFromCollection, NothingLeft, CreateSummary, FindPosition,
           UpsertPosition, EndMarking, ViewMessages, Repeat, Fails, CollectFails, SummaryFails,
           MarkFails, ViewFails, Crash, Job
<1>7. \/ batch'[r] = {} /\ gap'[r] = {}
      \/ batch'[r] = batch[r] /\ gap'[r] = gap[r]
      \/ \E j \in stored : batch'[r] = j.batch /\ gap'[r] = j.gap
      \/ \E c \in Chats : CollectChat(r, c) \/ CollectShort(r, c)
    BY DEF StartCollect, Collects, CollectGroup, StoreCollection, GenerateFromCollection,
           NothingLeft, CreateSummary, FindPosition, UpsertPosition, EndMarking, ViewMessages,
           Repeat, Fails, CollectFails, SummaryFails, MarkFails, ViewFails, Crash, TypeOK
<1> QED BY <1>1, <1>3, <1>4, <1>5, <1>6, <1>7

\* A batch stays covering when messages are posted after it or more is listed.
LEMMA StillCovers ==
    ASSUME TypeOK, TypeOK', NEW b \in SUBSET Messages, NEW g \in SUBSET Messages,
           Posted(b), Covers(b, g),
           \A c \in Chats : posted[c] <= posted'[c],
           \A c \in Chats, m \in Ids : m <= posted[c] => kind'[<<c, m>>] = kind[<<c, m>>],
           \A x \in Messages : listed[x] > 0 => listed'[x] > 0,
           missed \subseteq missed'
    PROVE  Posted(b)' /\ Covers(b, g)'
<1>1. Posted(b)'
    BY DEF Posted, TypeOK, Ids
<1>2. \A c \in Chats : \A m, n \in Ids : <<c, n>> \in b /\ m <= n => m <= posted[c]
    BY DEF Posted, TypeOK, Ids
<1>3. \A c \in Chats, m \in Ids : <<c, m>> \in Messages
    BY DEF Messages
<1>4. Covers(b, g)'
    BY <1>2, <1>3 DEF Covers
<1> QED BY <1>1, <1>4

\* An answer puts what lies after the position into the batch or the gap, and what
\* the position has passed is accounted for.
LEMMA CollectCovers ==
    ASSUME TypeOK, Coverage, NothingSkipped, NEW r \in Runs, NEW c \in Chats,
           CollectChat(r, c) \/ CollectShort(r, c)
    PROVE  Posted(batch'[r]) /\ Covers(batch'[r], gap'[r])
<1>1. PICK S \in SUBSET (1..posted[c]), G \in SUBSET (1..posted[c]) :
        /\ Adds(r, c, S, G)
        /\ \A m \in 1..posted[c] : m > position[c] /\ kind[<<c, m>>] # "blank" => m \in S \cup G
    BY AnswerAdds
<1>2. /\ batch'[r] = batch[r] \cup {<<c, m>> : m \in S}
      /\ gap'[r] = gap[r] \cup {<<c, m>> : m \in G}
    BY <1>1 DEF TypeOK, Adds
<1>3. posted[c] \in Nat /\ position[c] \in Nat
    BY DigestAssumption DEF TypeOK
<1>4. Posted(batch'[r])
    <2>1. \A m \in S : m <= posted[c]
        BY <1>3
    <2> QED BY <1>2, <2>1 DEF Posted, Coverage
<1>5. ASSUME NEW m \in Ids, NEW n \in Ids, <<c, n>> \in batch'[r], m <= n, kind[<<c, m>>] # "blank"
      PROVE  \/ <<c, m>> \in batch'[r] \cup gap'[r]
             \/ listed[<<c, m>>] > 0 \/ <<c, m>> \in missed
    <2>1. n <= posted[c]
        BY <1>4, <1>5 DEF Posted
    <2>2. CASE m <= position[c]
        BY <1>5, <2>2 DEF NothingSkipped, Digested
    <2>3. CASE m > position[c]
        <3>1. m \in 1..posted[c]
            BY <1>3, <2>1, <1>5 DEF Ids
        <3>2. m \in S \cup G
            BY <1>1, <1>5, <2>3, <3>1
        <3> QED BY <1>2, <3>2
    <2> QED BY <1>3, <2>2, <2>3 DEF Ids
<1>6. ASSUME NEW d \in Chats \ {c}, NEW m \in Ids, NEW n \in Ids, <<d, n>> \in batch'[r], m <= n,
             kind[<<d, m>>] # "blank"
      PROVE  \/ <<d, m>> \in batch'[r] \cup gap'[r]
             \/ listed[<<d, m>>] > 0 \/ <<d, m>> \in missed
    <2>1. <<d, n>> \in batch[r]
        BY <1>2, <1>6
    <2>2. Covers(batch[r], gap[r])
        BY DEF Coverage
    <2>3. \/ <<d, m>> \in batch[r] \cup gap[r]
          \/ listed[<<d, m>>] > 0 \/ <<d, m>> \in missed
        BY <1>6, <2>1, <2>2 DEF Covers
    <2> QED BY <1>2, <2>3
<1> QED BY <1>4, <1>5, <1>6 DEF Covers

\* Nothing is fetched, stored or marked at first.
LEMMA CoverageInit == Init => Coverage /\ NothingSkipped
BY DEF Init, Coverage, Posted, Covers, NothingSkipped, Ids

\* Every batch stays without an unknown gap: it is empty, fetched from what the
\* positions leave, or taken from the collections that are stored.
LEMMA CoverageStep ==
    ASSUME TypeOK, TypeOK', NothingSkipped, Coverage, [Next]_vars
    PROVE  Coverage'
<1> USE DEF Coverage
<1>1. ASSUME NEW r \in Runs, Step(r) PROVE Coverage'
    <2>1. /\ posted' = posted /\ kind' = kind
          /\ \A s \in Runs \ {r} : batch'[s] = batch[s] /\ gap'[s] = gap[s]
          /\ \A x \in Messages : listed[x] > 0 => listed'[x] > 0
          /\ missed \subseteq missed' /\ missed' \subseteq missed \cup gap[r]
          /\ \A j \in stored' : j \in stored \/ j = Job(r)
        BY <1>1, StepWrites
    <2>2. \A c \in Chats : posted[c] <= posted'[c]
        BY <2>1 DEF TypeOK
    <2>3. ASSUME NEW b \in SUBSET Messages, NEW g \in SUBSET Messages, Posted(b), Covers(b, g)
          PROVE  Posted(b)' /\ Covers(b, g)'
        BY <2>1, <2>2, <2>3, StillCovers
    <2>4. \A c \in Chats : position'[c] <= posted'[c]
        <3>1. CASE UpsertPosition(r)
            <4>1. PICK n \in Ids : Newest(r, chat[r], n)
                                   /\ position' = [position EXCEPT ![chat[r]] = n]
                BY <3>1 DEF UpsertPosition
            <4>2. n <= posted[chat[r]]
                BY <4>1 DEF Newest, Posted, TypeOK
            <4> QED BY <2>1, <4>1, <4>2 DEF TypeOK
        <3>2. CASE position' = position
            BY <2>1, <3>2
        <3> QED
            BY <1>1, <3>1, <3>2
               DEF Step, StartCollect, Collects, CollectGroup, CollectChat, CollectShort, Answered,
                   StoreCollection, GenerateFromCollection, NothingLeft, CreateSummary,
                   FindPosition, EndMarking, ViewMessages, Repeat, Fails, CollectFails,
                   SummaryFails, MarkFails, ViewFails, Crash
    <2>5. Posted(batch'[r]) /\ Covers(batch'[r], gap'[r])
        <3>1. ASSUME NEW c \in Chats, CollectChat(r, c) \/ CollectShort(r, c)
              PROVE  Posted(batch'[r]) /\ Covers(batch'[r], gap'[r])
            BY <3>1, CollectCovers
        <3>2. CASE batch'[r] = {}
            BY <3>2 DEF Posted, Covers
        <3>3. CASE batch'[r] = batch[r] /\ gap'[r] = gap[r]
            BY <3>3
        <3>4. CASE \E j \in stored : batch'[r] = j.batch /\ gap'[r] = j.gap
            BY <3>4
        <3> QED BY <1>1, <3>1, <3>2, <3>3, <3>4, StepWrites
    <2>6. ASSUME NEW s \in Runs PROVE Posted(batch[s])' /\ Covers(batch[s], gap[s])'
        <3>1. PICK b \in SUBSET Messages, g \in SUBSET Messages : b = batch'[s] /\ g = gap'[s]
            BY DEF TypeOK
        <3>2. Posted(b) /\ Covers(b, g)
            BY <2>1, <2>5, <3>1
        <3>3. Posted(b)' /\ Covers(b, g)'
            BY <2>3, <3>2
        <3> QED BY <3>1, <3>3 DEF Posted, Covers
    <2>7. ASSUME NEW j \in stored' PROVE Posted(j.batch)' /\ Covers(j.batch, j.gap)'
        <3>1. PICK b \in SUBSET Messages, g \in SUBSET Messages : b = j.batch /\ g = j.gap
            BY <2>7 DEF TypeOK
        <3>2. Posted(b) /\ Covers(b, g)
            BY <2>1, <3>1 DEF Job
        <3>3. Posted(b)' /\ Covers(b, g)'
            BY <2>3, <3>2
        <3> QED BY <3>1, <3>3 DEF Posted, Covers
    <2> QED BY <2>4, <2>6, <2>7
<1>2. ASSUME NEW c \in Chats, NEW k \in Kinds, Post(c, k) PROVE Coverage'
    <2>1. /\ UNCHANGED <<batch, gap, stored, listed, missed, position>>
          /\ \A d \in Chats : posted[d] <= posted'[d]
          /\ \A d \in Chats, m \in Ids : m <= posted[d] => kind'[<<d, m>>] = kind[<<d, m>>]
        BY <1>2, DigestAssumption DEF Post, run, TypeOK, Messages, Ids
    <2>2. ASSUME NEW b \in SUBSET Messages, NEW g \in SUBSET Messages, Posted(b), Covers(b, g)
          PROVE  Posted(b)' /\ Covers(b, g)'
        BY <2>1, <2>2, StillCovers
    <2>3. \A d \in Chats : position'[d] <= posted'[d]
        BY <2>1 DEF TypeOK
    <2>4. ASSUME NEW s \in Runs PROVE Posted(batch[s])' /\ Covers(batch[s], gap[s])'
        <3>1. PICK b \in SUBSET Messages, g \in SUBSET Messages : b = batch[s] /\ g = gap[s]
            BY DEF TypeOK
        <3>2. Posted(b)' /\ Covers(b, g)'
            BY <2>2, <3>1
        <3> QED BY <2>1, <3>1, <3>2 DEF Posted, Covers
    <2>5. ASSUME NEW j \in stored' PROVE Posted(j.batch)' /\ Covers(j.batch, j.gap)'
        <3>1. j \in stored
            BY <2>1, <2>5
        <3>2. PICK b \in SUBSET Messages, g \in SUBSET Messages : b = j.batch /\ g = j.gap
            BY <3>1 DEF TypeOK
        <3>3. Posted(b)' /\ Covers(b, g)'
            BY <2>2, <3>1, <3>2
        <3> QED BY <3>2, <3>3 DEF Posted, Covers
    <2> QED BY <2>3, <2>4, <2>5
<1>3. CASE (\E c \in Chats : Read(c)) \/ UNCHANGED vars
    BY <1>3 DEF Read, vars, telegram, run, Posted, Covers
<1> QED BY <1>1, <1>2, <1>3 DEF Next, Step, Collects

\* What a position passes is in the batch, and so in a summary, or known to be left
\* out, and then missed.
LEMMA PassedIsKnown ==
    ASSUME TypeOK, MarksDigested, Coverage, NEW r \in Runs, pc[r] = "advancing",
           NEW n \in Ids, Newest(r, chat[r], n), NEW m \in Ids, m <= n,
           kind[<<chat[r], m>>] # "blank"
    PROVE  listed[<<chat[r], m>>] > 0 \/ <<chat[r], m>> \in missed \cup gap[r]
<1>1. \/ <<chat[r], m>> \in batch[r] \cup gap[r]
      \/ listed[<<chat[r], m>>] > 0 \/ <<chat[r], m>> \in missed
    BY DEF Coverage, Covers, Newest, TypeOK
<1> QED BY <1>1 DEF MarksDigested

\* A position passes a message only when a summary has it or the run missed it.
LEMMA NothingSkippedStep ==
    ASSUME TypeOK, TypeOK', MarksDigested, NothingSkipped, Coverage, [Next]_vars
    PROVE  NothingSkipped'
<1> USE DEF Digested
<1>1. ASSUME NEW r \in Runs, Quiet(r) PROVE NothingSkipped'
    BY <1>1, QuietSteps DEF NothingSkipped
<1>2. ASSUME NEW r \in Runs, CreateSummary(r) \/ SummaryFails(r) PROVE NothingSkipped'
    <2>1. \A x \in Messages : listed[x] > 0 => listed'[x] > 0
        BY <1>2, ListLists DEF CreateSummary, SummaryFails, TypeOK
    <2>2. position' = position /\ kind' = kind /\ missed' = missed
        BY <1>2 DEF CreateSummary, SummaryFails, telegram
    <2> QED BY <2>1, <2>2 DEF NothingSkipped
<1>3. ASSUME NEW r \in Runs, UpsertPosition(r) PROVE NothingSkipped'
    <2>1. PICK n \in Ids : Newest(r, chat[r], n) /\ Advance(r, chat[r], n)
        BY <1>3 DEF UpsertPosition
    <2>2. kind' = kind /\ listed' = listed /\ pc[r] = "advancing" /\ missed \subseteq missed'
        BY <1>3, <2>1 DEF UpsertPosition, telegram
    <2>3. ASSUME NEW m \in Ids, m <= n, kind[<<chat[r], m>>] # "blank"
          PROVE  <<chat[r], m>> \in Messages
                 /\ (listed[<<chat[r], m>>] > 0 \/ <<chat[r], m>> \in missed')
        <3>1. listed[<<chat[r], m>>] > 0 \/ <<chat[r], m>> \in missed \cup gap[r]
            BY <2>1, <2>2, <2>3, PassedIsKnown
        <3> QED BY <2>1, <2>3, <3>1 DEF TypeOK, Messages
    <2>4. ASSUME NEW c \in Chats PROVE position'[c] = IF c = chat[r] THEN n ELSE position[c]
        BY <2>1 DEF TypeOK
    <2> QED BY <2>2, <2>3, <2>4 DEF NothingSkipped
<1>4. ASSUME NEW c \in Chats, NEW k \in Kinds, Post(c, k) PROVE NothingSkipped'
    BY <1>4 DEF Post, NothingSkipped, Coverage, TypeOK, Messages, Ids
<1>5. CASE (\E c \in Chats : Read(c)) \/ UNCHANGED vars
    BY <1>5 DEF Read, vars, telegram, NothingSkipped
<1> QED
    BY <1>1, <1>2, <1>3, <1>4, <1>5 DEF Next, Quiet, Collects, GenerateFromCollection, Fails

\* For all modes, limits, answers, overlaps, repetitions and failures: a message
\* with text that a position has passed is in a saved summary, or the run whose
\* newest message made it pass had not seen it.
THEOREM NothingIsSkipped == Spec => []NothingSkipped
<1>1. TypeOK /\ TypeOK' /\ MarksDigested /\ NothingSkipped /\ Coverage /\ [Next]_vars
      => Coverage' /\ NothingSkipped'
    BY CoverageStep, NothingSkippedStep
<1> QED
    BY <1>1, CoverageInit, MarksDigestedInit, MarksDigestedStep, TypeCorrect, PTL DEF Spec

-----------------------------------------------------------------------------
\* When nothing stands between a run and its messages, there are no gaps.

\* A run that collects asks for new messages and for Limit of them, and no run or
\* stored collection has left anything out.
NoGaps == /\ \A r \in Runs : pc[r] = "collecting" =>
                mode[r] = "new_only" /\ \A c \in Chats : quota[r][c] = Limit
          /\ \A r \in Runs : gap[r] = {}
          /\ \A j \in stored : j.gap = {}
          /\ missed = {}

LEMMA NoGapsInit == Init => NoGaps
BY DEF Init, NoGaps

\* With the whole history at hand, an answer leaves nothing out.
LEMMA NoGapsStep == Complete /\ TypeOK /\ NoGaps /\ [Next]_vars => NoGaps'
<1> SUFFICES ASSUME Complete, TypeOK, NoGaps, [Next]_vars PROVE NoGaps'
    OBVIOUS
<1> USE DEF NoGaps
<1>1. ASSUME NEW r \in Runs, NEW m \in Modes, StartCollect(r, m) PROVE NoGaps'
    <2>1. m = "new_only" /\ collectionLimit(m) = [c \in Chats |-> Limit]
        BY DEF Complete, collectionLimit
    <2> QED BY <1>1, <2>1 DEF StartCollect, TypeOK
<1>2. ASSUME NEW r \in Runs, NEW c \in Chats, CollectChat(r, c) PROVE NoGaps'
    <2>1. /\ mode[r] = "new_only" /\ quota[r][c] = Limit
          /\ posted[c] \in Nat /\ posted[c] <= Limit /\ Limit \in Nat
        BY <1>2, DigestAssumption DEF CollectChat, Answered, Complete, TypeOK
    <2>2. History(c, quota[r][c]) = 1..posted[c]
        BY <2>1 DEF History
    <2>3. Unseen(c, 1..posted[c], 0) = {}
        <3>1. \A n \in 1..posted[c] : ~(n <= 0)
            BY <2>1
        <3> QED BY <3>1 DEF Unseen
    <2>4. gap' = gap
        BY <1>2, <2>1, <2>2, <2>3 DEF CollectChat, Answered, TypeOK
    <2> QED BY <1>2, <2>4 DEF CollectChat, Answered
<1>3. ASSUME NEW r \in Runs, NEW c \in Chats PROVE ~CollectShort(r, c)
    BY DEF CollectShort, Complete, TypeOK
<1>4. ASSUME NEW r \in Runs,
             StoreCollection(r) \/ GenerateFromCollection(r) \/ Repeat(r) \/ Fails(r)
      PROVE  NoGaps'
    <2>1. UNCHANGED <<mode, quota>>
        BY <1>4 DEF StoreCollection, GenerateFromCollection, NothingLeft, CreateSummary,
                    FindPosition, UpsertPosition, EndMarking, ViewMessages, Repeat, Fails,
                    CollectFails, SummaryFails, MarkFails, ViewFails, Crash
    <2>2. \A s \in Runs : pc'[s] = "collecting" => pc[s] = "collecting"
        BY <1>4 DEF StoreCollection, GenerateFromCollection, NothingLeft, CreateSummary,
                    FindPosition, UpsertPosition, EndMarking, ViewMessages, Repeat, Fails,
                    CollectFails, SummaryFails, MarkFails, ViewFails, Crash, TypeOK
    <2>3. /\ \A s \in Runs \ {r} : gap'[s] = gap[s]
          /\ \A j \in stored' : j \in stored \/ j = Job(r)
        BY <1>4, StepWrites DEF Step, Collects, CollectGroup
    <2>4. gap'[r] = {}
        BY <1>4 DEF StoreCollection, GenerateFromCollection, NothingLeft, CreateSummary,
                    FindPosition, UpsertPosition, EndMarking, ViewMessages, Repeat, Fails,
                    CollectFails, SummaryFails, MarkFails, ViewFails, Crash, TypeOK
    <2>5. missed' = {}
        BY <1>4 DEF StoreCollection, GenerateFromCollection, NothingLeft, CreateSummary,
                    FindPosition, UpsertPosition, EndMarking, ViewMessages, Repeat, Fails,
                    CollectFails, SummaryFails, MarkFails, ViewFails, Crash
    <2> QED BY <2>1, <2>2, <2>3, <2>4, <2>5 DEF Job
<1>5. CASE (\E c \in Chats : Read(c) \/ \E k \in Kinds : Post(c, k)) \/ UNCHANGED vars
    BY <1>5 DEF Read, Post, vars, run
<1> QED BY <1>1, <1>2, <1>3, <1>4, <1>5 DEF Next, CollectGroup

\* While collections ask for new messages, their limit covers what a chat holds and
\* Telegram answers in full, no message is lost, however the runs overlap and fail.
THEOREM NothingIsLost ==
    ASSUME Complete
    PROVE  Spec => []NothingLost
<1>1. NothingSkipped /\ NoGaps => NothingLost
    BY DEF NothingSkipped, NothingLost, NoGaps
<1>2. TypeOK /\ NoGaps /\ [Next]_vars => NoGaps'
    BY NoGapsStep
<1> QED BY <1>1, <1>2, NoGapsInit, NothingIsSkipped, TypeCorrect, PTL DEF Spec

-----------------------------------------------------------------------------
\* Positions and the ledger.

\* The position a run is about to write is ahead of the one in the database.
Behind == \A r \in Runs : pc[r] = "advancing" =>
             \A n \in Ids : Newest(r, chat[r], n) => position[chat[r]] < n

\* With one run, nobody moves the position between its two statements.
LEMMA BehindStep ==
    ASSUME OneRun, TypeOK, Behind, [Next]_vars
    PROVE  Behind'
<1>1. ASSUME NEW r \in Runs, NEW c \in Chats, FindPosition(r, c) PROVE Behind'
    <2>1. batch' = batch /\ position' = position /\ pc[r] = "marking"
        BY <1>1 DEF FindPosition
    <2>2. pc'[r] = "advancing" =>
             chat'[r] = c /\ ~\E n \in Ids : Newest(r, c, n) /\ position[c] >= n
        BY <1>1 DEF FindPosition, TypeOK
    <2>3. \A n \in Ids : position[c] \in Int /\ n \in Int
        BY DEF TypeOK, Ids
    <2>4. pc'[r] = "advancing" => \A n \in Ids : Newest(r, c, n) => position[c] < n
        BY <2>2, <2>3
    <2>5. \A n \in Ids : Newest(r, c, n)' <=> Newest(r, c, n)
        BY <2>1 DEF Newest
    <2>6. pc'[r] = "advancing" => \A n \in Ids : Newest(r, chat[r], n)' => position'[chat'[r]] < n
        BY <2>1, <2>2, <2>4, <2>5 DEF Newest
    <2> QED BY <2>6 DEF OneRun, Behind
<1>2. ASSUME NEW r \in Runs, pc'[r] # "advancing" PROVE Behind'
    BY <1>2 DEF OneRun, Behind
<1>3. ASSUME NEW r \in Runs,
             \/ \E m \in Modes : StartCollect(r, m)
             \/ Collects(r) \/ NothingLeft(r) \/ CreateSummary(r) \/ UpsertPosition(r)
             \/ EndMarking(r) \/ ViewMessages(r) \/ Repeat(r) \/ Fails(r)
      PROVE  pc'[r] # "advancing"
    BY <1>3 DEF StartCollect, Collects, CollectGroup, CollectChat, CollectShort, Answered,
                StoreCollection, NothingLeft, CreateSummary,
                UpsertPosition, EndMarking, ViewMessages, Repeat, Fails, CollectFails, SummaryFails,
                MarkFails, ViewFails, Crash, TypeOK
<1>4. CASE (\E c \in Chats : Read(c) \/ \E k \in Kinds : Post(c, k)) \/ UNCHANGED vars
    BY <1>4 DEF Read, Post, vars, run, Behind, Newest
<1> QED
    BY <1>1, <1>2, <1>3, <1>4 DEF Next, Collects, GenerateFromCollection, Fails

\* Nothing is marked at first.
LEMMA BehindInit == Init => Behind
BY DEF Init, Behind

\* Only UpsertPosition writes a position.
LEMMA PositionWrites ==
    ASSUME [Next]_vars
    PROVE  position' = position \/ \E r \in Runs : UpsertPosition(r)
BY DEF Next, vars, Read, Post, StartCollect, Collects, CollectGroup, CollectChat, CollectShort,
       Answered, StoreCollection,
       GenerateFromCollection, NothingLeft, CreateSummary, FindPosition, EndMarking, ViewMessages,
       Repeat, Fails, CollectFails, SummaryFails, MarkFails, ViewFails, Crash

\* What a run is about to write is ahead of what it found, whoever wrote since.
Ahead == \A r \in Runs : pc[r] = "advancing" =>
            \A n \in Ids : Newest(r, chat[r], n) => found[r] < n

LEMMA AheadInit == Init => Ahead
BY DEF Init, Ahead

\* Only the run itself writes its batch, its chat and what it found.
LEMMA AheadStep ==
    ASSUME TypeOK, Ahead, [Next]_vars
    PROVE  Ahead'
<1>1. ASSUME NEW r \in Runs, Step(r), ~\E c \in Chats : FindPosition(r, c) PROVE Ahead'
    <2>1. pc'[r] # "advancing"
        BY <1>1 DEF Step, StartCollect, Collects, CollectGroup, CollectChat, CollectShort, Answered,
                    StoreCollection, GenerateFromCollection, NothingLeft, CreateSummary,
                    UpsertPosition, EndMarking, ViewMessages, Repeat, Fails, CollectFails,
                    SummaryFails, MarkFails, ViewFails, Crash, TypeOK
    <2>2. \A s \in Runs \ {r} : /\ pc'[s] = pc[s] /\ batch'[s] = batch[s]
                                /\ chat'[s] = chat[s] /\ found'[s] = found[s]
        BY <1>1 DEF Step, StartCollect, Collects, CollectGroup, CollectChat, CollectShort, Answered,
                    StoreCollection, GenerateFromCollection, NothingLeft, CreateSummary,
                    UpsertPosition, EndMarking, ViewMessages, Repeat, Fails, CollectFails,
                    SummaryFails, MarkFails, ViewFails, Crash, TypeOK
    <2> QED BY <2>1, <2>2 DEF Ahead, Newest
<1>2. ASSUME NEW r \in Runs, NEW c \in Chats, FindPosition(r, c) PROVE Ahead'
    <2>1. batch' = batch /\ pc[r] = "marking"
        BY <1>2 DEF FindPosition
    <2>2. \A s \in Runs \ {r} : /\ pc'[s] = pc[s]
                                /\ chat'[s] = chat[s] /\ found'[s] = found[s]
        BY <1>2 DEF FindPosition, TypeOK
    <2>3. pc'[r] = "advancing" =>
             /\ chat'[r] = c /\ found'[r] = position[c]
             /\ ~\E n \in Ids : Newest(r, c, n) /\ position[c] >= n
        BY <1>2 DEF FindPosition, TypeOK
    <2>4. \A n \in Ids : position[c] \in Int /\ n \in Int
        BY DEF TypeOK, Ids
    <2>5. \A s \in Runs, d \in Chats, n \in Ids : Newest(s, d, n)' <=> Newest(s, d, n)
        BY <2>1 DEF Newest
    <2>6. ASSUME NEW s \in Runs \ {r}, pc'[s] = "advancing", NEW n \in Ids, Newest(s, chat[s], n)'
          PROVE  found'[s] < n
        BY <2>1, <2>2, <2>6 DEF Ahead, Newest
    <2>7. ASSUME pc'[r] = "advancing", NEW n \in Ids, Newest(r, chat[r], n)' PROVE found'[r] < n
        <3>1. Newest(r, c, n)
            BY <2>1, <2>3, <2>7 DEF Newest
        <3> QED BY <2>3, <2>4, <2>7, <3>1
    <2> QED BY <2>6, <2>7 DEF Ahead
<1>3. CASE (\E c \in Chats : Read(c) \/ \E k \in Kinds : Post(c, k)) \/ UNCHANGED vars
    BY <1>3 DEF Read, Post, vars, run, Ahead, Newest
<1> QED BY <1>1, <1>2, <1>3 DEF Next, Step, Collects

\* However runs overlap, whatever the modes and although any old collection may be
\* summarised again: a position moves back only when a run was overtaken between
\* its two statements, and not to before what it had found.
THEOREM PositionsAdvance == Spec => BackOnlyWhenOvertaken
<1> DEFINE Back == [\A c \in Chats : position'[c] < position[c] =>
                      \E r \in Runs : /\ pc[r] = "advancing" /\ chat[r] = c
                                     /\ found[r] < position[c] /\ found[r] < position'[c]]_position
<1>1. ASSUME TypeOK, Ahead, [Next]_vars PROVE Back
    <2>1. ASSUME NEW r \in Runs, UpsertPosition(r), NEW c \in Chats, position'[c] < position[c]
          PROVE  /\ pc[r] = "advancing" /\ chat[r] = c
                 /\ found[r] < position[c] /\ found[r] < position'[c]
        <3>1. PICK n \in Ids : Newest(r, chat[r], n)
                               /\ position' = [position EXCEPT ![chat[r]] = n]
            BY <2>1 DEF UpsertPosition
        <3>2. chat[r] = c /\ position'[c] = n
            BY <1>1, <2>1, <3>1 DEF TypeOK
        <3>3. pc[r] = "advancing" /\ found[r] < n
            BY <1>1, <2>1, <3>1 DEF Ahead, UpsertPosition
        <3>4. found[r] \in Int /\ n \in Int /\ position[c] \in Int
            BY <1>1 DEF TypeOK, Ids
        <3> QED BY <2>1, <3>2, <3>3, <3>4
    <2> QED BY <1>1, <2>1, PositionWrites DEF TypeOK
<1>2. TypeOK /\ Ahead /\ [Next]_vars => Ahead'
    BY AheadStep
<1> QED
    BY <1>1, <1>2, AheadInit, TypeCorrect, PTL DEF Spec, BackOnlyWhenOvertaken

\* The messages that have text, as the ledger sees them.
Texts == {x \in Messages : kind[x] # "blank"}

\* Batches and gaps hold messages with text, and what is not posted has none.
OnlyTexts == /\ \A r \in Runs : batch[r] \cup gap[r] \subseteq Texts
             /\ \A j \in stored : j.batch \cup j.gap \subseteq Texts
             /\ missed \subseteq Texts
             /\ \A c \in Chats, m \in Ids : m > posted[c] => kind[<<c, m>>] = "blank"

\* An answer adds only messages with text.
LEMMA CollectTexts ==
    ASSUME TypeOK, OnlyTexts, NEW r \in Runs, NEW c \in Chats,
           CollectChat(r, c) \/ CollectShort(r, c)
    PROVE  batch'[r] \cup gap'[r] \subseteq Texts
<1>1. PICK S \in SUBSET (1..posted[c]), G \in SUBSET (1..posted[c]) :
        Adds(r, c, S, G) /\ \A m \in S \cup G : kind[<<c, m>>] # "blank"
    BY AnswerAdds
<1>2. \A m \in S \cup G : m \in Ids
    BY DigestAssumption DEF TypeOK, Ids
<1>3. {<<c, m>> : m \in S} \subseteq Texts /\ {<<c, m>> : m \in G} \subseteq Texts
    BY <1>1, <1>2 DEF Texts, Messages
<1> QED BY <1>1, <1>3 DEF OnlyTexts, TypeOK, Adds

\* A new message was a blank one before it was posted.
LEMMA PostTexts ==
    ASSUME TypeOK, OnlyTexts, NEW c \in Chats, NEW k \in Kinds, Post(c, k)
    PROVE  /\ OnlyTexts'
           /\ posted[c] + 1 \in Ids
           /\ Texts' = IF k = "blank" THEN Texts ELSE Texts \cup {<<c, posted[c] + 1>>}
<1>1. posted[c] + 1 \in Ids /\ kind[<<c, posted[c] + 1>>] = "blank"
    BY DigestAssumption DEF Post, TypeOK, OnlyTexts, Ids
<1>2. Texts' = IF k = "blank" THEN Texts ELSE Texts \cup {<<c, posted[c] + 1>>}
    <2> DEFINE new == <<c, posted[c] + 1>>
    <2>1. new \in Messages /\ kind[new] = "blank"
        BY <1>1 DEF Messages
    <2>2. kind' = [kind EXCEPT ![new] = k]
        BY DEF Post
    <2> HIDE DEF new
    <2>3. \A x \in Messages : kind'[x] = IF x = new THEN k ELSE kind[x]
        BY <2>2 DEF TypeOK
    <2>4. Texts' = IF k = "blank" THEN Texts ELSE Texts \cup {new}
        BY <2>1, <2>3 DEF Texts
    <2> QED BY <2>4 DEF new
<1>3. \A d \in Chats, m \in Ids : m > posted'[d] => kind'[<<d, m>>] = "blank"
    BY <1>1, DigestAssumption DEF Post, TypeOK, OnlyTexts, Messages, Ids
<1>4. Texts \subseteq Texts' /\ UNCHANGED <<batch, gap, stored, missed>>
    BY <1>2 DEF Post, run
<1> QED BY <1>1, <1>2, <1>3, <1>4 DEF OnlyTexts

\* Every other step takes its batches from those, or from what Telegram returns.
LEMMA OnlyTextsStep == TypeOK /\ OnlyTexts /\ [Next]_vars => OnlyTexts'
<1> SUFFICES ASSUME TypeOK, OnlyTexts, [Next]_vars PROVE OnlyTexts'
    OBVIOUS
<1>1. ASSUME NEW c \in Chats, NEW k \in Kinds, Post(c, k) PROVE OnlyTexts'
    BY <1>1, PostTexts
<1>2. ASSUME NEW r \in Runs, Step(r) PROVE OnlyTexts'
    <2>1. /\ posted' = posted /\ Texts' = Texts
          /\ \A s \in Runs \ {r} : batch'[s] = batch[s] /\ gap'[s] = gap[s]
          /\ missed' \subseteq missed \cup gap[r]
          /\ \A j \in stored' : j \in stored \/ j = Job(r)
        BY <1>2, StepWrites DEF Texts
    <2>2. kind' = kind
        BY <1>2, StepWrites
    <2>3. batch'[r] \cup gap'[r] \subseteq Texts
        BY <1>2, StepWrites, CollectTexts DEF OnlyTexts
    <2> QED BY <2>1, <2>2, <2>3 DEF OnlyTexts, Job
<1>3. CASE (\E c \in Chats : Read(c)) \/ UNCHANGED vars
    BY <1>3 DEF Read, vars, telegram, run, OnlyTexts, Texts
<1> QED BY <1>1, <1>2, <1>3 DEF Next, Step, Collects

\* Nothing is posted at first.
LEMMA OnlyTextsInit == Init => OnlyTexts
BY DEF Init, OnlyTexts, Texts, Messages

\* The empty database is the empty ledger.
LEMMA LedgerInit == Init => Ledger!Init
BY DEF Init, Ledger!Init, Digested, Messages

\* Every step is a step of the ledger or none.
LEMMA LedgerStep ==
    ASSUME TypeOK, TypeOK', MarksDigested, Coverage, OnlyTexts, [Next]_vars
    PROVE  [Ledger!Next]_(Ledger!vars)
<1> USE DEF Texts, Digested, Ledger!vars
<1>1. ASSUME NEW c \in Chats, NEW k \in Kinds, Post(c, k) PROVE [Ledger!Next]_(Ledger!vars)
    <2>1. UNCHANGED <<listed, position, missed>> /\ posted[c] + 1 > position[c]
        BY <1>1 DEF Post, Coverage, TypeOK
    <2>2. k # "blank" => Ledger!Post(c, posted[c] + 1)
        BY <1>1, <2>1, PostTexts DEF Ledger!Post
    <2>3. k = "blank" => Texts' = Texts
        BY <1>1, PostTexts
    <2>4. posted[c] + 1 \in Ids
        BY <1>1, PostTexts
    <2>5. CASE k = "blank"
        BY <2>1, <2>3, <2>5
    <2>6. CASE k # "blank"
        <3>1. PICK m \in Ids : m = posted[c] + 1 /\ Ledger!Post(c, m)
            BY <2>2, <2>4, <2>6 DEF Ledger!Post
        <3> QED BY <3>1 DEF Ledger!Next
    <2> QED BY <2>5, <2>6
<1>2. ASSUME NEW r \in Runs, Quiet(r) PROVE UNCHANGED Ledger!vars
    BY <1>2, QuietSteps
<1>3. ASSUME NEW r \in Runs, CreateSummary(r) \/ SummaryFails(r)
      PROVE  [Ledger!Next]_(Ledger!vars)
    <2>1. position' = position /\ kind' = kind /\ missed' = missed
        BY <1>3 DEF CreateSummary, SummaryFails, telegram
    <2>2. CASE List(r)
        <3>1. Digested' = Digested \cup batch[r]
            BY <2>2, ListLists DEF List, TypeOK
        <3>2. batch[r] \in SUBSET Texts
            BY DEF OnlyTexts
        <3>3. Ledger!Digest(batch[r])
            BY <2>1, <3>1, <3>2 DEF Ledger!Digest
        <3>4. PICK S \in SUBSET Texts : S = batch[r] /\ Ledger!Digest(S)
            BY <3>2, <3>3 DEF Ledger!Digest
        <3> QED BY <3>4 DEF Ledger!Next
    <2>3. CASE UNCHANGED listed
        BY <2>1, <2>3
    <2> QED BY <1>3, <2>2, <2>3 DEF CreateSummary, SummaryFails
<1>4. ASSUME NEW r \in Runs, UpsertPosition(r) PROVE [Ledger!Next]_(Ledger!vars)
    <2>1. PICK n \in Ids : Newest(r, chat[r], n) /\ Advance(r, chat[r], n)
        BY <1>4 DEF UpsertPosition
    <2>2. kind' = kind /\ listed' = listed /\ pc[r] = "advancing" /\ chat[r] \in Chats
        BY <1>4 DEF UpsertPosition, telegram, TypeOK
    <2> DEFINE S == {x \in gap[r] : x[1] = chat[r] /\ x[2] <= n}
    <2>3. S \in SUBSET Texts /\ S \subseteq Ledger!Below(chat[r], n)
        BY DEF Ledger!Below, OnlyTexts
    <2>4. missed' = missed \cup S
        BY <2>1
    <2>5. ASSUME NEW x \in Ledger!Below(chat[r], n) PROVE x \in Digested \cup missed \cup S
        <3>1. PICK m \in Ids : x = <<chat[r], m>>
            BY DEF Ledger!Below, Messages
        <3>2. m <= n /\ kind[<<chat[r], m>>] # "blank" /\ x \in Messages
            BY <3>1 DEF Ledger!Below
        <3>3. listed[<<chat[r], m>>] > 0 \/ <<chat[r], m>> \in missed \cup gap[r]
            BY <2>1, <2>2, <3>2, PassedIsKnown
        <3> QED BY <3>1, <3>2, <3>3
    <2>6. Ledger!Move(chat[r], n, S)
        BY <2>1, <2>2, <2>3, <2>4, <2>5 DEF Ledger!Move
    <2> HIDE DEF S
    <2> QED BY <2>2, <2>3, <2>6 DEF Ledger!Next
<1>5. CASE (\E c \in Chats : Read(c)) \/ UNCHANGED vars
    BY <1>5 DEF Read, vars, telegram
<1> QED
    BY <1>1, <1>2, <1>3, <1>4, <1>5 DEF Next, Quiet, Collects, GenerateFromCollection, Fails

\* Runs of any mode, however they overlap and fail, implement the ledger: a mark
\* passes a message only when a summary has it, or writes it off then and there.
THEOREM Refinement == Spec => ImplementsReadLedger
<1>1. TypeOK /\ TypeOK' /\ MarksDigested /\ NothingSkipped /\ Coverage /\ [Next]_vars => Coverage'
    BY CoverageStep
<1>2. TypeOK /\ TypeOK' /\ MarksDigested /\ Coverage /\ OnlyTexts /\ [Next]_vars
      => [Ledger!Next]_(Ledger!vars)
    BY LedgerStep
<1> QED
    BY <1>1, <1>2, LedgerInit, CoverageInit, MarksDigestedInit, MarksDigestedStep, OnlyTextsInit,
       OnlyTextsStep, NothingIsSkipped, TypeCorrect, PTL
       DEF Spec, ImplementsReadLedger, Ledger!Spec

-----------------------------------------------------------------------------
\* A message is listed once per fault.  Everything that lists a message either
\* counts as a fault or leaves a run that will pass the message, and until it has
\* no collection fetches anything.

\* Run r has yet to compare, or to write, the position of chat c.
WillMark(r, c) == \/ pc[r] = "marking" /\ c \in todo[r]
                  \/ pc[r] = "advancing" /\ (c = chat[r] \/ c \in todo[r])

\* The position has passed message m of chat c, or a run that has it in its batch
\* will see to it.
Accounted(c, m) == \/ m <= position[c]
                   \/ \E r \in Runs : <<c, m>> \in batch[r] /\ WillMark(r, c)

\* What a run has in hand before its summary is ahead of the positions.
Unpassed == /\ stored = {}
            /\ \A r \in Runs : mode[r] = "new_only"
            /\ \A r \in Runs : pc[r] \in {"collecting", "collected"} =>
                  \A c \in Chats, m \in Ids : <<c, m>> \in batch[r] => position[c] < m

\* The inductive invariant behind ListedOncePerFault.
Counted == \A c \in Chats, m \in Ids :
              /\ listed[<<c, m>>] <= faults + 1
              /\ Accounted(c, m) \/ listed[<<c, m>>] <= faults

\* Nothing is listed at first.
LEMMA CountedInit == Init => Unpassed /\ Counted
<1> SUFFICES ASSUME Init PROVE Unpassed /\ Counted
    OBVIOUS
<1>1. Unpassed
    BY DEF Init, Unpassed
<1>2. \A c \in Chats, m \in Ids : listed[<<c, m>>] = 0 /\ faults = 0
    BY DEF Init, Messages
<1> QED BY <1>1, <1>2 DEF Counted

\* A collection of new messages fetches what the positions have not passed, and no
\* stored collection is there to be summarised again.
LEMMA UnpassedStep ==
    ASSUME Modes = {"new_only"}, OneRun, Repeats = FALSE, TypeOK, Unpassed, [Next]_vars
    PROVE  Unpassed'
<1> USE DEF Unpassed
<1>1. ASSUME NEW r \in Runs, NEW c \in Chats, CollectChat(r, c) \/ CollectShort(r, c)
      PROVE  Unpassed'
    <2>1. PICK S \in SUBSET (1..posted[c]), G \in SUBSET (1..posted[c]) :
            /\ Adds(r, c, S, G)
            /\ mode[r] = "new_only" => \A m \in S : m > position[c]
        BY <1>1, AnswerAdds
    <2>2. batch'[r] = batch[r] \cup {<<c, m>> : m \in S}
        BY <2>1 DEF TypeOK, Adds
    <2>3. UNCHANGED <<position, stored, mode, pc>> /\ pc[r] = "collecting"
        BY <1>1 DEF CollectChat, CollectShort, Answered
    <2>4. \A m \in S : position[c] < m
        BY <2>1
    <2>5. \A d \in Chats, m \in Ids : <<d, m>> \in batch'[r] => position[d] < m
        BY <2>2, <2>3, <2>4
    <2> QED BY <2>3, <2>5 DEF OneRun
<1>2. ASSUME NEW r \in Runs, NEW m \in Modes, StartCollect(r, m) PROVE Unpassed'
    BY <1>2 DEF StartCollect, OneRun, TypeOK
<1>3. ASSUME NEW r \in Runs, CreateSummary(r) \/ UpsertPosition(r) PROVE Unpassed'
    <2>1. UNCHANGED <<stored, mode>> /\ pc'[r] = "marking"
        BY <1>3 DEF CreateSummary, UpsertPosition, TypeOK
    <2> QED BY <2>1 DEF OneRun
<1>4. ASSUME NEW r \in Runs,
             \/ StoreCollection(r) \/ NothingLeft(r) \/ EndMarking(r) \/ ViewMessages(r)
             \/ (\E c \in Chats : FindPosition(r, c)) \/ Fails(r)
      PROVE  Unpassed'
    <2>1. UNCHANGED <<stored, mode, position>>
        BY <1>4 DEF StoreCollection, NothingLeft, EndMarking, ViewMessages, FindPosition, Fails,
                    CollectFails, SummaryFails, MarkFails, ViewFails, Crash
    <2>2. pc'[r] \in {"collecting", "collected"} =>
             pc[r] = "collecting" /\ batch'[r] = batch[r]
        BY <1>4 DEF StoreCollection, NothingLeft, EndMarking, ViewMessages, FindPosition, Fails,
                    CollectFails, SummaryFails, MarkFails, ViewFails, Crash, TypeOK
    <2> QED BY <2>1, <2>2 DEF OneRun
<1>5. ASSUME NEW r \in Runs PROVE ~Repeat(r)
    BY DEF Repeat
<1>6. CASE (\E c \in Chats : Read(c) \/ \E k \in Kinds : Post(c, k)) \/ UNCHANGED vars
    BY <1>6 DEF Read, Post, vars, run
<1> QED
    BY <1>1, <1>2, <1>3, <1>4, <1>5, <1>6 DEF Next, Collects, CollectGroup, GenerateFromCollection

\* A summary lists what no position has passed, so what it lists had been listed
\* at most once per fault; then it is accounted for, or the step is a fault.
LEMMA ListCounted ==
    ASSUME OneRun, TypeOK, Unpassed, Counted, NEW r \in Runs,
           CreateSummary(r) \/ SummaryFails(r)
    PROVE  Counted'
<1>1. pc[r] = "collected" /\ position' = position /\ (UNCHANGED listed \/ List(r))
    BY DEF CreateSummary, SummaryFails
<1>2. ASSUME NEW c \in Chats, NEW m \in Ids, Accounted(c, m) PROVE m <= position[c]
    BY <1>1, <1>2 DEF Accounted, WillMark, OneRun
<1>3. ASSUME NEW c \in Chats, NEW m \in Ids, <<c, m>> \in batch[r] PROVE listed[<<c, m>>] <= faults
    BY <1>1, <1>2, <1>3 DEF Unpassed, Counted, TypeOK, Ids
<1>4. ASSUME NEW c \in Chats, NEW m \in Ids
      PROVE  /\ listed[<<c, m>>] \in Nat /\ listed'[<<c, m>>] \in Nat
             /\ listed'[<<c, m>>] <= listed[<<c, m>>] + 1
             /\ <<c, m>> \notin batch[r] => listed'[<<c, m>>] = listed[<<c, m>>]
    <2>1. <<c, m>> \in Messages
        BY DEF Messages
    <2> QED BY <1>1, <2>1, DigestAssumption DEF List, TypeOK
<1>5. CASE CreateSummary(r)
    <2>1. /\ pc'[r] = "marking" /\ faults' = faults /\ faults \in Nat
          /\ todo'[r] = {c \in Chats : InBatch(r, c)} /\ batch' = batch
        BY <1>5 DEF CreateSummary, TypeOK
    <2>2. ASSUME NEW c \in Chats, NEW m \in Ids, <<c, m>> \in batch[r] PROVE Accounted(c, m)'
        BY <1>1, <2>1, <2>2 DEF Accounted, WillMark, InBatch
    <2>3. ASSUME NEW c \in Chats, NEW m \in Ids
          PROVE  /\ listed'[<<c, m>>] <= faults + 1
                 /\ Accounted(c, m)' \/ listed'[<<c, m>>] <= faults
        <3>1. CASE <<c, m>> \in batch[r]
            BY <1>3, <1>4, <2>1, <2>2, <3>1
        <3>2. CASE <<c, m>> \notin batch[r]
            <4>1. listed'[<<c, m>>] = listed[<<c, m>>]
                BY <1>4, <3>2
            <4>2. Accounted(c, m) => Accounted(c, m)'
                BY <1>1, <1>2 DEF Accounted
            <4>3. listed[<<c, m>>] <= faults + 1 /\ (~Accounted(c, m) => listed[<<c, m>>] <= faults)
                BY <1>4, <2>1 DEF Counted
            <4> QED BY <4>1, <4>2, <4>3
        <3> QED BY <3>1, <3>2
    <2> QED BY <2>1, <2>3 DEF Counted
<1>6. CASE SummaryFails(r)
    <2>1. faults' = faults + 1 /\ faults \in Nat
        BY <1>6 DEF SummaryFails, Fault, TypeOK
    <2>2. ASSUME NEW c \in Chats, NEW m \in Ids PROVE listed'[<<c, m>>] <= faults + 1
        <3>1. listed[<<c, m>>] <= faults + 1
            BY DEF Counted
        <3>2. CASE <<c, m>> \in batch[r]
            BY <1>3, <1>4, <2>1, <3>2
        <3>3. CASE <<c, m>> \notin batch[r]
            BY <1>4, <3>1, <3>3
        <3> QED BY <3>2, <3>3
    <2>3. ASSUME NEW c \in Chats, NEW m \in Ids
          PROVE  listed'[<<c, m>>] <= faults' /\ listed'[<<c, m>>] <= faults' + 1
        BY <1>4, <2>1, <2>2
    <2> QED BY <2>3 DEF Counted
<1> QED BY <1>5, <1>6

\* Until it fails, a run that marks passes every message of its batch.
LEMMA CountedStep ==
    ASSUME OneRun, TypeOK, Behind, Unpassed, Counted, [Next]_vars
    PROVE  Counted'
<1>0. \A c \in Chats, m \in Ids : /\ listed[<<c, m>>] \in Nat /\ faults \in Nat
                                  /\ position[c] \in Nat /\ m \in Nat
    BY DEF TypeOK, Messages, Ids
<1>1. ASSUME UNCHANGED <<listed, faults>>,
             \A c \in Chats, m \in Ids : Accounted(c, m) => Accounted(c, m)'
      PROVE  Counted'
    BY <1>0, <1>1 DEF Counted
<1>2. ASSUME UNCHANGED listed, faults' = faults + 1 PROVE Counted'
    <2>1. ASSUME NEW c \in Chats, NEW m \in Ids PROVE listed'[<<c, m>>] <= faults'
        <3>1. listed[<<c, m>>] <= faults + 1
            BY DEF Counted
        <3> QED BY <1>2, <3>1
    <2>2. ASSUME NEW c \in Chats, NEW m \in Ids PROVE listed'[<<c, m>>] <= faults' + 1
        BY <1>0, <1>2, <2>1
    <2> QED BY <2>1, <2>2 DEF Counted
<1>3. ASSUME NEW r \in Runs, CreateSummary(r) \/ SummaryFails(r) PROVE Counted'
    BY <1>3, ListCounted
<1>4. ASSUME NEW r \in Runs, CollectFails(r) \/ MarkFails(r) \/ ViewFails(r) \/ Crash(r)
      PROVE  Counted'
    BY <1>2, <1>4 DEF CollectFails, MarkFails, ViewFails, Crash, Fault
<1>5. ASSUME NEW r \in Runs,
             \/ \E m \in Modes : StartCollect(r, m)
             \/ Collects(r) \/ NothingLeft(r) \/ EndMarking(r) \/ ViewMessages(r) \/ Repeat(r)
      PROVE  Counted'
    <2>1. UNCHANGED <<listed, faults, position>>
        BY <1>5 DEF StartCollect, Collects, CollectGroup, CollectChat, CollectShort, Answered,
                    StoreCollection, NothingLeft,
                    EndMarking, ViewMessages, Repeat
    <2>2. \A c \in Chats : ~WillMark(r, c)
        BY <1>5 DEF StartCollect, Collects, CollectGroup, CollectChat, CollectShort, Answered,
                    StoreCollection, NothingLeft,
                    EndMarking, ViewMessages, Repeat, WillMark
    <2>3. \A c \in Chats, m \in Ids : Accounted(c, m) => Accounted(c, m)'
        BY <2>1, <2>2 DEF Accounted, OneRun
    <2> QED BY <1>1, <2>1, <2>3
<1>6. ASSUME NEW r \in Runs, NEW d \in Chats, FindPosition(r, d) PROVE Counted'
    <2>1. /\ UNCHANGED <<listed, faults, position, batch>>
          /\ pc[r] = "marking" /\ todo'[r] = todo[r] \ {d}
        BY <1>6 DEF FindPosition, TypeOK
    <2>2. ASSUME NEW c \in Chats, NEW m \in Ids, Accounted(c, m) PROVE Accounted(c, m)'
        <3>1. CASE m <= position[c]
            BY <2>1, <3>1 DEF Accounted
        <3>2. CASE <<c, m>> \in batch[r] /\ WillMark(r, c)
            <4>1. c \in todo[r]
                BY <2>1, <3>2 DEF WillMark
            <4>2. CASE pc'[r] = "advancing"
                <5>1. chat'[r] = d
                    BY <1>6, <2>1, <4>2 DEF FindPosition, TypeOK
                <5> QED BY <2>1, <3>2, <4>1, <4>2, <5>1 DEF Accounted, WillMark
            <4>3. CASE pc'[r] # "advancing"
                <5>1. pc' = pc /\ \E n \in Ids : Newest(r, d, n) /\ position[d] >= n
                    BY <1>6, <4>3 DEF FindPosition, TypeOK
                <5>2. CASE c = d
                    <6>1. m <= position[c]
                        BY <1>0, <3>2, <5>1, <5>2 DEF Newest
                    <6> QED BY <2>1, <6>1 DEF Accounted
                <5>3. CASE c # d
                    BY <2>1, <3>2, <4>1, <5>1, <5>3 DEF Accounted, WillMark
                <5> QED BY <5>2, <5>3
            <4> QED BY <4>2, <4>3
        <3> QED BY <2>2, <3>1, <3>2 DEF Accounted, OneRun
    <2> QED BY <1>1, <2>1, <2>2
<1>7. ASSUME NEW r \in Runs, UpsertPosition(r) PROVE Counted'
    <2>1. PICK n \in Ids : Newest(r, chat[r], n) /\ position' = [position EXCEPT ![chat[r]] = n]
        BY <1>7 DEF UpsertPosition
    <2>2. /\ UNCHANGED <<listed, faults, batch, todo>>
          /\ pc[r] = "advancing" /\ pc'[r] = "marking" /\ chat[r] \in Chats
        BY <1>7 DEF UpsertPosition, TypeOK
    <2>3. position[chat[r]] < n
        BY <2>1, <2>2 DEF Behind
    <2>4. ASSUME NEW c \in Chats PROVE position'[c] = IF c = chat[r] THEN n ELSE position[c]
        BY <2>1 DEF TypeOK
    <2>5. ASSUME NEW c \in Chats, NEW m \in Ids, Accounted(c, m) PROVE Accounted(c, m)'
        <3>1. CASE m <= position[c]
            BY <1>0, <2>3, <2>4, <3>1 DEF Accounted, Ids
        <3>2. CASE <<c, m>> \in batch[r] /\ c = chat[r]
            BY <2>1, <2>4, <3>2 DEF Accounted, Newest
        <3>3. CASE <<c, m>> \in batch[r] /\ c \in todo[r]
            BY <2>2, <3>3 DEF Accounted, WillMark
        <3> QED BY <2>2, <2>5, <3>1, <3>2, <3>3 DEF Accounted, WillMark, OneRun
    <2> QED BY <1>1, <2>2, <2>5
<1>8. CASE (\E c \in Chats : Read(c) \/ \E k \in Kinds : Post(c, k)) \/ UNCHANGED vars
    BY <1>1, <1>8 DEF Read, Post, vars, run, Accounted, WillMark
<1> QED
    BY <1>3, <1>4, <1>5, <1>6, <1>7, <1>8 DEF Next, Collects, GenerateFromCollection, Fails

\* While the runs of a group do not overlap, collect new messages and summarise no
\* collection twice, a message goes into one summary and one more per fault,
\* whatever the limit.
THEOREM ListedOnce ==
    ASSUME Modes = {"new_only"}, OneRun, Repeats = FALSE
    PROVE  Spec => []ListedOncePerFault
<1>1. ASSUME TypeOK, Counted PROVE ListedOncePerFault
    <2>1. ASSUME NEW c \in Chats, NEW m \in Ids PROVE listed[<<c, m>>] <= 1 + faults
        <3>1. listed[<<c, m>>] \in Nat /\ faults \in Nat
            BY <1>1 DEF TypeOK, Messages
        <3> QED BY <1>1, <3>1 DEF Counted
    <2> QED BY <2>1 DEF ListedOncePerFault, Messages
<1>2. TypeOK /\ Behind /\ [Next]_vars => Behind'
    BY BehindStep
<1>3. TypeOK /\ Unpassed /\ [Next]_vars => Unpassed'
    BY UnpassedStep
<1>4. TypeOK /\ Behind /\ Unpassed /\ Counted /\ [Next]_vars => Counted'
    BY CountedStep
<1> QED
    BY <1>1, <1>2, <1>3, <1>4, BehindInit, CountedInit, TypeCorrect, PTL DEF Spec
=============================================================================
