-------------------------- MODULE SummariesProofs --------------------------
(***************************************************************************)
(* Proofs about Summaries, for every number of messages, chats, slots,     *)
(* attempts and topics.                                                    *)
(***************************************************************************)
EXTENDS SummariesProps, FiniteSetTheorems, TLAPS

\* The request names every cluster exactly once, and each index is in a batch.
RequestInv ==
    /\ pc \notin {"loaded", "returned"} =>
           /\ \A l \in Leaders : \E i \in Index : at[i] = l
           /\ \A i, j \in Index : at[i] = at[j] => i = j
    /\ DOMAIN first # {} => DOMAIN first = Index
    /\ pc \in {"loaded", "processed", "splitting"} => DOMAIN first = {}
    /\ pc \in {"asking", "reducing", "validating", "classifying", "saving"} => DOMAIN first = Index

\* A topic belongs to a batch that has been answered.
TopicInv ==
    /\ DOMAIN first = {} => DOMAIN topics = {} /\ excluded = {}
    /\ pc = "asking" => \A t \in DOMAIN topics : t[1] \in Batches /\ phase[t[1]] = "answered"
    /\ pc \in {"loaded", "processed", "splitting", "asking"} => pass = 0
    /\ pc = "reducing" => pass \in {0, 1}
    /\ pc \in {"loaded", "processed", "splitting"} => \A b \in Positions : phase[b] = "waiting"

\* Of an answered batch each index is either used or excluded, of another neither.
CoverInv ==
    \A i \in DOMAIN first :
        IF phase[first[i]] = "answered"
        THEN i \in Sources <=> i \notin excluded
        ELSE i \notin Sources /\ i \notin excluded

AllAnswered == \A b \in Batches : phase[b] = "answered"

OutcomeInv ==
    /\ pc \in {"classifying", "saving", "saved"} => AllAnswered
    /\ pc \in {"failing", "returned"} /\ ~saved /\ Batches # {} /\ AllAnswered
           => cancelled \/ faults > 0

JobInv ==
    /\ pc \in {"loaded", "processed"} => job = "none"
    /\ saved => pc \in {"saved", "returned"}
    /\ pc = "saved" => saved
    /\ pc = "returned" /\ ~saved => job # "processing" \/ faults > 0

IInv == TypeOK /\ RequestInv /\ TopicInv /\ CoverInv /\ OutcomeInv /\ JobInv

-----------------------------------------------------------------------------
\* Types.

ControlType == /\ pc \in Control
               /\ cancelled \in BOOLEAN
               /\ job \in {"none", "processing", "failed", "completed"}
               /\ saved \in BOOLEAN
               /\ faults \in Nat

LEMMA TypeParts == TypeOK <=> InputType /\ RequestType /\ ResultType /\ ControlType
BY DEF TypeOK, ControlType

\* The call keeps its inputs.
LEMMA InputIsKept == ASSUME [Next]_vars PROVE UNCHANGED input
BY DEF Next, Sequential, AskModel, NothingLeft, Process, CreateJob, CreateJobFails, Split,
       Join, Reduce, Validate, Classify, CreateSummary, CreateSummaryFails, CompleteJob,
       CompleteJobFails, MarkJobFailed, MarkJobFailedFails, TakeSlot, Answer, AskAgain,
       BatchFails, Cancel, vars, input

\* What is made of the inputs alone stays the same with them.
LEMMA LeadersAreKept == ASSUME UNCHANGED input PROVE UNCHANGED <<Kept, Canonical, Leaders>>
<1>1. Kept' = Kept
  BY DEF input, Kept
<1>2. Canonical' = Canonical
  BY <1>1 DEF input, Canonical
<1> QED BY <1>1, <1>2 DEF Leaders

LEMMA NothingIsEmpty == Nothing = [i \in {} |-> i] /\ DOMAIN Nothing = {}
BY DEF Nothing

LEMMA InitType == Init => TypeOK
<1> SUFFICES ASSUME Init PROVE TypeOK
  OBVIOUS
<1>1. InputType
  BY DEF Init, InputType
<1>2. RequestType
  <2>1. at \in [Index -> Leaders] /\ Index = {}
    BY NothingIsEmpty DEF Init, Index
  <2>2. first \in [DOMAIN first -> Index] /\ DOMAIN first = {}
    BY NothingIsEmpty DEF Init
  <2>3. \A b \in Positions : attempt[b] \in 0..Retries
    BY SummariesAssumption DEF Init
  <2> QED BY <2>1, <2>2, <2>3, SummariesAssumption DEF Init, RequestType
<1>3. ResultType
  <2>1. topics \in [DOMAIN topics -> SUBSET Index] /\ DOMAIN topics = {}
    BY NothingIsEmpty DEF Init
  <2> QED BY <2>1 DEF Init, ResultType
<1>4. ControlType
  BY DEF Init, ControlType, Control
<1> QED BY <1>1, <1>2, <1>3, <1>4, TypeParts

LEMMA InputTypeStep == ASSUME InputType, [Next]_vars PROVE InputType'
BY InputIsKept DEF InputType, input, Messages, Pairs

LEMMA ControlTypeStep == ASSUME TypeOK, [Next]_vars PROVE ControlType'
<1> USE DEF ControlType, Control
<1>0. ControlType
  BY TypeParts
<1>1. CASE Sequential
  <2>1. CASE NothingLeft \/ Process \/ CreateJob \/ Split
    BY <1>0, <2>1 DEF NothingLeft, Process, CreateJob, Split, database
  <2>2. CASE Join \/ Reduce \/ Validate
    BY <1>0, <2>2 DEF Join, Reduce, Validate, database
  <2>3. CASE Classify
    BY <1>0, <2>3, Zenon DEF Classify, database
  <2>4. CASE CreateSummary \/ CompleteJob \/ MarkJobFailed
    BY <1>0, <2>4 DEF CreateSummary, CompleteJob, MarkJobFailed
  <2>5. CASE CreateJobFails \/ CreateSummaryFails \/ CompleteJobFails \/ MarkJobFailedFails
    BY <1>0, <2>5 DEF CreateJobFails, CreateSummaryFails, CompleteJobFails,
         MarkJobFailedFails, CallFails, Fault, database
  <2> QED BY <1>1, <2>1, <2>2, <2>3, <2>4, <2>5 DEF Sequential
<1>2. ASSUME NEW b \in Batches, AskModel(b) PROVE ControlType'
  BY <1>0, <1>2 DEF AskModel, TakeSlot, Answer, AskAgain, BatchFails, database
<1>3. CASE Cancel
  BY <1>0, <1>3 DEF Cancel, database
<1>4. CASE UNCHANGED vars
  BY <1>0, <1>4 DEF vars, database
<1> QED BY <1>1, <1>2, <1>3, <1>4 DEF Next

LEMMA BatchesArePositions ==
    ASSUME RequestType PROVE Batches \subseteq Index /\ Batches \subseteq Positions
BY DEF RequestType, Batches

\* Before the request is split nothing has been asked.
LEMMA NothingAsked ==
    ASSUME IInv, pc \in {"loaded", "processed", "splitting"}
    PROVE  DOMAIN first = {} /\ DOMAIN topics = {} /\ excluded = {}
BY DEF IInv, RequestInv, TopicInv

\* The steps that change neither request nor result.
Outside == UNCHANGED <<at, first, batches, result, pass>>

LEMMA StepCases ==
    ASSUME [Next]_vars
    PROVE  \/ Process \/ Split \/ Reduce
           \/ Outside
           \/ \E b \in Batches : AskModel(b)
BY DEF Next, Sequential, NothingLeft, CreateJob, CreateJobFails, Join, Validate, Classify,
       CreateSummary, CreateSummaryFails, CompleteJob, CompleteJobFails, MarkJobFailed,
       MarkJobFailedFails, Cancel, vars, Outside

LEMMA RequestTypeStep == ASSUME IInv, [Next]_vars PROVE RequestType'
<1>0. RequestType /\ Leaders' = Leaders
  BY InputIsKept, LeadersAreKept, TypeParts DEF IInv
<1>1. CASE Process
  <2>1. PICK n \in Messages : \E f \in [0..(n - 1) -> Leaders] : IsOrder(f) /\ at' = f
    BY <1>1 DEF Process
  <2>2. at' \in [0..(n - 1) -> Leaders]
    BY <2>1
  <2>3. Index' = 0..(n - 1)
    BY <2>2 DEF Index
  <2>4. Index' \subseteq Positions
    BY <2>3, SummariesAssumption DEF Messages, Positions
  <2>5. first' = first /\ DOMAIN first = {}
    BY <1>1, NothingAsked DEF Process
  <2>6. UNCHANGED batches
    BY <1>1 DEF Process
  <2> QED BY <1>0, <2>2, <2>3, <2>4, <2>5, <2>6 DEF RequestType, batches
<1>2. CASE Split
  <2>1. first' \in [Index -> Index] /\ UNCHANGED <<at, batches>>
    BY <1>2 DEF Split
  <2> QED BY <1>0, <2>1 DEF RequestType, batches, Index
<1>3. ASSUME UNCHANGED <<at, first, batches>> PROVE RequestType'
  BY <1>0, <1>3 DEF RequestType, batches, Index
<1>4. ASSUME NEW b \in Batches, AskModel(b) PROVE RequestType'
  <2>1. b \in Positions /\ UNCHANGED <<at, first>>
    BY <1>0, <1>4, BatchesArePositions DEF AskModel, TakeSlot, Answer, AskAgain, BatchFails
  <2>2. phase' \in [Positions -> {"waiting", "asking", "answered", "failed"}]
    BY <1>0, <1>4, <2>1 DEF RequestType, AskModel, TakeSlot, Answer, AskAgain, BatchFails
  <2>3. attempt' \in [Positions -> 0..Retries]
    BY <1>0, <1>4, <2>1, SummariesAssumption
       DEF RequestType, AskModel, TakeSlot, Answer, AskAgain, BatchFails
  <2> QED BY <1>0, <2>1, <2>2, <2>3 DEF RequestType, Index
<1> QED
  BY <1>1, <1>2, <1>3, <1>4, StepCases DEF Reduce, Outside, batches

\* What the answer of a batch does to the result.
LEMMA AnswerEffect ==
    ASSUME RequestType, NEW b \in Batches, Answer(b)
    PROVE  \E k \in 1..MaxTopics : \E T \in [1..k -> SUBSET Local(b)], X \in SUBSET Local(b) :
              /\ Covers(T, X, Local(b))
              /\ DOMAIN topics' = DOMAIN topics \cup ({b} \X (1..k))
              /\ \A t \in DOMAIN topics' : t[1] # b => topics'[t] = topics[t]
              /\ \A j \in 1..k : topics'[<<b, j>>] = Remap(b, T[j])
              /\ excluded' = excluded \cup Remap(b, X)
<1>1. PICK k \in 1..MaxTopics : \E T \in [1..k -> SUBSET Local(b)], X \in SUBSET Local(b) :
         /\ Covers(T, X, Local(b))
         /\ topics' = [t \in DOMAIN topics \cup ({b} \X (1..k)) |->
                          IF t[1] = b THEN Remap(b, T[t[2]]) ELSE topics[t]]
         /\ excluded' = excluded \cup Remap(b, X)
  BY DEF Answer
<1>2. PICK T \in [1..k -> SUBSET Local(b)], X \in SUBSET Local(b) :
         /\ Covers(T, X, Local(b))
         /\ topics' = [t \in DOMAIN topics \cup ({b} \X (1..k)) |->
                          IF t[1] = b THEN Remap(b, T[t[2]]) ELSE topics[t]]
         /\ excluded' = excluded \cup Remap(b, X)
  BY <1>1
<1>3. DOMAIN topics' = DOMAIN topics \cup ({b} \X (1..k))
  BY <1>2
<1>4. \A t \in DOMAIN topics' :
         topics'[t] = IF t[1] = b THEN Remap(b, T[t[2]]) ELSE topics[t]
  BY <1>2
<1>5. \A j \in 1..k : <<b, j>> \in DOMAIN topics' /\ topics'[<<b, j>>] = Remap(b, T[j])
  BY <1>3, <1>4
<1> QED BY <1>2, <1>3, <1>4, <1>5

\* A number of a batch stands for the index that far behind its first.
LEMMA RemapMember ==
    ASSUME RequestType, NEW b \in Batches, NEW S \in SUBSET Local(b), NEW i
    PROVE  i \in Remap(b, S) <=> i \in Batch(b) /\ i - b \in S
<1>1. b \in Int /\ \A j \in Batch(b) : j \in Int
  BY BatchesArePositions DEF RequestType, Batch, Positions
<1>2. ASSUME i \in Remap(b, S) PROVE i \in Batch(b) /\ i - b \in S
  <2>1. PICK l \in S : i = b + l
    BY <1>2 DEF Remap
  <2>2. PICK j \in Batch(b) : l = j - b
    BY <2>1 DEF Local
  <2>3. j \in Int /\ i = j /\ i - b = l
    BY <1>1, <2>1, <2>2
  <2> QED BY <2>1, <2>2, <2>3
<1>3. ASSUME i \in Batch(b), i - b \in S PROVE i \in Remap(b, S)
  <2>1. i - b \in S \cap Local(b)
    BY <1>3
  <2>2. i = b + (i - b)
    BY <1>1, <1>3
  <2> QED BY <2>1, <2>2 DEF Remap
<1> QED BY <1>2, <1>3

LEMMA BatchIsPartOfIndex == ASSUME RequestType, NEW b PROVE Batch(b) \subseteq Index
BY DEF RequestType, Batch

LEMMA ResultTypeStep == ASSUME IInv, [Next]_vars PROVE ResultType'
<1>0. ResultType /\ RequestType
  BY TypeParts DEF IInv
<1>1. CASE Process
  <2>1. DOMAIN topics = {} /\ excluded = {} /\ UNCHANGED <<topics, excluded, pass>>
    BY <1>1, NothingAsked DEF Process, result
  <2> QED BY <1>0, <2>1 DEF ResultType
<1>2. ASSUME UNCHANGED <<at, result, pass>> PROVE ResultType'
  BY <1>0, <1>2 DEF ResultType, result, Index
<1>3. CASE Reduce
  <2>1. PICK into \in [DOMAIN topics -> DOMAIN topics] : topics' = Combine(into)
    BY <1>3 DEF Reduce
  <2>2. DOMAIN topics' \subseteq DOMAIN topics
    BY <2>1 DEF Combine
  <2>3. topics' \in [DOMAIN topics' -> SUBSET Index]
    BY <1>0, <2>1 DEF Combine, ResultType
  <2>4. pass' \in 0..2
    BY <1>3 DEF IInv, TopicInv, Reduce
  <2>5. UNCHANGED <<at, excluded>>
    BY <1>3 DEF Reduce
  <2> QED BY <1>0, <2>2, <2>3, <2>4, <2>5 DEF ResultType, Index
<1>4. ASSUME NEW b \in Batches, Answer(b) PROVE ResultType'
  <2>1. PICK k \in 1..MaxTopics : \E T \in [1..k -> SUBSET Local(b)], X \in SUBSET Local(b) :
           /\ DOMAIN topics' = DOMAIN topics \cup ({b} \X (1..k))
           /\ topics' = [t \in DOMAIN topics' |->
                            IF t[1] = b THEN Remap(b, T[t[2]]) ELSE topics[t]]
           /\ excluded' = excluded \cup Remap(b, X)
    BY <1>4 DEF Answer
  <2>2. PICK T \in [1..k -> SUBSET Local(b)], X \in SUBSET Local(b) :
           /\ DOMAIN topics' = DOMAIN topics \cup ({b} \X (1..k))
           /\ topics' = [t \in DOMAIN topics' |->
                            IF t[1] = b THEN Remap(b, T[t[2]]) ELSE topics[t]]
           /\ excluded' = excluded \cup Remap(b, X)
    BY <2>1
  <2>3. {b} \X (1..k) \subseteq TopicIds
    BY <1>0, BatchesArePositions, SummariesAssumption DEF TopicIds
  <2>4. \A S : Remap(b, S) \subseteq Index
    <3>1. \A S : Remap(b, S) = Remap(b, S \cap Local(b))
      BY DEF Remap
    <3> QED BY <3>1, <1>0, RemapMember, BatchIsPartOfIndex
  <2>5. \A t \in DOMAIN topics' : topics'[t] \subseteq Index
    <3> SUFFICES ASSUME NEW t \in DOMAIN topics' PROVE topics'[t] \subseteq Index
      OBVIOUS
    <3>1. CASE t[1] = b
      BY <2>2, <2>4, <3>1
    <3>2. CASE t[1] # b
      <4>1. t \in DOMAIN topics
        BY <2>2, <3>2
      <4> QED BY <1>0, <2>2, <3>2, <4>1 DEF ResultType
    <3> QED BY <3>1, <3>2
  <2>6. UNCHANGED <<at, pass>>
    BY <1>4 DEF Answer
  <2>7. topics' \in [DOMAIN topics' -> SUBSET Index]
    BY <2>2, <2>5
  <2>8. excluded' \subseteq Index
    BY <1>0, <2>2, <2>4 DEF ResultType
  <2> QED BY <1>0, <2>2, <2>3, <2>6, <2>7, <2>8 DEF ResultType, Index
<1>5. ASSUME NEW b \in Batches, AskModel(b) PROVE ResultType'
  BY <1>2, <1>4, <1>5 DEF AskModel, TakeSlot, AskAgain, BatchFails
<1> QED BY <1>1, <1>2, <1>3, <1>5, StepCases DEF Split, Outside

LEMMA TypeStep == ASSUME IInv, [Next]_vars PROVE TypeOK'
<1>1. InputType /\ TypeOK
  BY TypeParts DEF IInv
<1> QED BY <1>1, InputTypeStep, RequestTypeStep, ResultTypeStep, ControlTypeStep, TypeParts
        DEF TypeOK, ControlType

-----------------------------------------------------------------------------
\* The request and its batches.

LEMMA InitInv == Init => IInv
<1> SUFFICES ASSUME Init PROVE IInv
  OBVIOUS
<1>1. TypeOK
  BY InitType
<1>2. DOMAIN first = {} /\ DOMAIN topics = {} /\ excluded = {}
  BY NothingIsEmpty DEF Init
<1>3. RequestInv
  BY <1>2 DEF Init, RequestInv
<1>4. TopicInv
  BY <1>2 DEF Init, TopicInv
<1>5. CoverInv
  BY <1>2 DEF CoverInv
<1>6. OutcomeInv
  BY DEF Init, OutcomeInv
<1>7. JobInv
  BY DEF Init, JobInv
<1> QED BY <1>1, <1>3, <1>4, <1>5, <1>6, <1>7 DEF IInv

LEMMA RequestStep == ASSUME IInv, [Next]_vars PROVE RequestInv'
<1>0. RequestInv /\ RequestType /\ Leaders' = Leaders
  BY InputIsKept, LeadersAreKept, TypeParts DEF IInv
<1>1. CASE Process
  <2>1. PICK n \in Messages : \E f \in [0..(n - 1) -> Leaders] : IsOrder(f) /\ at' = f
    BY <1>1 DEF Process
  <2>2. PICK f \in [0..(n - 1) -> Leaders] : IsOrder(f) /\ at' = f
    BY <2>1
  <2>3. \A i, j \in DOMAIN f : f[i] = f[j] => i = j
    <3>1. DOMAIN f \subseteq Int
      BY <2>2
    <3> QED BY <2>2, <3>1 DEF IsOrder
  <2>4. \A l \in Leaders : \E i \in DOMAIN f : f[i] = l
    BY <2>2 DEF IsOrder
  <2>5. pc' = "processed" /\ first' = first /\ DOMAIN first = {}
    BY <1>1, NothingAsked DEF Process, IInv
  <2> QED BY <1>0, <2>2, <2>3, <2>4, <2>5 DEF RequestInv, Index
<1>2. CASE Split
  <2>1. first' \in [Index -> Index] /\ at' = at /\ pc = "splitting" /\ pc' = "asking"
    BY <1>2 DEF Split
  <2> QED BY <1>0, <2>1 DEF RequestInv, Index
<1>3. CASE Reduce
  BY <1>0, <1>3 DEF Reduce, RequestInv, Index
<1>4. CASE Outside /\ ~Process /\ ~Split
  <2>1. UNCHANGED <<at, first>>
    BY <1>4 DEF Outside
  <2>2. /\ pc' \notin {"loaded", "returned"} => pc \notin {"loaded", "returned"}
        /\ pc' \in {"loaded", "processed", "splitting"} =>
               pc \in {"loaded", "processed", "splitting"}
        /\ pc' \in {"asking", "reducing", "validating", "classifying", "saving"} =>
               pc \in {"asking", "reducing", "validating", "classifying", "saving"}
    BY <1>4 DEF Next, Sequential, NothingLeft, CreateJob, CreateJobFails, Join, Validate,
         Classify, CreateSummary, CreateSummaryFails, CompleteJob, CompleteJobFails,
         MarkJobFailed, MarkJobFailedFails, Reduce, Cancel, AskModel, TakeSlot, Answer,
         AskAgain, BatchFails, vars
  <2> QED BY <1>0, <2>1, <2>2 DEF RequestInv, Index
<1>5. ASSUME NEW b \in Batches, AskModel(b) PROVE RequestInv'
  BY <1>0, <1>5 DEF RequestInv, Index, AskModel, TakeSlot, Answer, AskAgain, BatchFails
<1> QED BY <1>1, <1>2, <1>3, <1>4, <1>5, StepCases

LEMMA TopicStep == ASSUME IInv, [Next]_vars PROVE TopicInv'
<1>0. TopicInv /\ RequestInv /\ RequestType
  BY TypeParts DEF IInv
<1>1. CASE Process
  BY <1>0, <1>1 DEF Process, TopicInv, result, batches
<1>2. CASE Split
  <2>1. DOMAIN topics = {} /\ excluded = {}
    BY <1>2, NothingAsked DEF Split
  <2> QED BY <1>0, <1>2, <2>1 DEF Split, TopicInv, result
<1>3. CASE Reduce
  <2>1. PICK into \in [DOMAIN topics -> DOMAIN topics] : topics' = Combine(into)
    BY <1>3 DEF Reduce
  <2>2. DOMAIN topics' \subseteq DOMAIN topics
    BY <2>1 DEF Combine
  <2>3. pass' = pass + 1 /\ pc = "reducing" /\ UNCHANGED <<first, excluded>>
    BY <1>3 DEF Reduce
  <2>4. pc' = "validating" \/ (pc' = "reducing" /\ pass = 0)
    BY <1>0, <1>3 DEF Reduce, TopicInv
  <2>5. pc' = "reducing" => pass' = 1
    BY <2>3, <2>4
  <2> QED BY <1>0, <2>2, <2>3, <2>4, <2>5 DEF TopicInv
<1>4. CASE Outside /\ ~Process /\ ~Split
  <2>1. UNCHANGED <<first, phase, topics, excluded, pass>> /\ Batches' = Batches
    BY <1>4 DEF Outside, batches, result, Batches
  <2>2. /\ pc' = "asking" => pc = "asking"
        /\ pc' \in {"loaded", "processed", "splitting"} =>
               pc \in {"loaded", "processed", "splitting"}
        /\ pc' = "reducing" => pc \in {"reducing", "asking"}
    BY <1>4 DEF Next, Sequential, NothingLeft, CreateJob, CreateJobFails, Join, Validate,
         Classify, CreateSummary, CreateSummaryFails, CompleteJob, CompleteJobFails,
         MarkJobFailed, MarkJobFailedFails, Reduce, Cancel, AskModel, TakeSlot, Answer,
         AskAgain, BatchFails, vars
  <2> QED BY <1>0, <2>1, <2>2 DEF TopicInv
<1>5. ASSUME NEW b \in Batches, Answer(b) PROVE TopicInv'
  <2>1. PICK k \in 1..MaxTopics : DOMAIN topics' = DOMAIN topics \cup ({b} \X (1..k))
    BY <1>0, <1>5, AnswerEffect
  <2>2. /\ phase' = [phase EXCEPT ![b] = "answered"] /\ b \in Positions
        /\ pc = "asking" /\ pc' = pc /\ first' = first /\ pass' = pass /\ Batches' = Batches
    BY <1>0, <1>5, BatchesArePositions DEF Answer, Batches
  <2>3. \A c \in Batches : phase[c] = "answered" \/ c = b => phase'[c] = "answered"
    BY <1>0, <2>2, BatchesArePositions DEF RequestType
  <2>4. \A t \in DOMAIN topics' : t[1] \in Batches /\ phase'[t[1]] = "answered"
    BY <1>0, <2>1, <2>2, <2>3 DEF TopicInv
  <2>5. DOMAIN first # {}
    BY DEF Batches
  <2> QED BY <1>0, <2>2, <2>4, <2>5 DEF TopicInv
<1>6. ASSUME NEW b \in Batches, TakeSlot(b) \/ AskAgain(b) \/ BatchFails(b) PROVE TopicInv'
  <2>1. /\ UNCHANGED <<pc, first, topics, excluded, pass>> /\ Batches' = Batches
        /\ pc = "asking" /\ phase[b] # "answered"
    BY <1>6 DEF TakeSlot, AskAgain, BatchFails, result, Batches
  <2>2. \A c \in Batches : phase[c] = "answered" => phase'[c] = "answered"
    BY <1>0, <1>6, <2>1, BatchesArePositions
       DEF RequestType, TakeSlot, AskAgain, BatchFails
  <2> QED BY <1>0, <2>1, <2>2 DEF TopicInv
<1> QED BY <1>1, <1>2, <1>3, <1>4, <1>5, <1>6, StepCases DEF AskModel

-----------------------------------------------------------------------------
\* What is covered.

\* Every source of a topic is a source of the topic it goes into.
LEMMA CombineKeepsSources ==
    ASSUME NEW into \in [DOMAIN topics -> DOMAIN topics], IsMerge(into), topics' = Combine(into)
    PROVE  Sources' = Sources
<1>1. DOMAIN topics' = {u \in DOMAIN topics : into[u] = u}
  BY DEF Combine
<1>2. \A t \in DOMAIN topics' :
         topics'[t] = UNION {topics[u] : u \in {v \in DOMAIN topics : into[v] = t}}
  BY <1>1 DEF Combine
<1>3. ASSUME NEW i \in Sources PROVE i \in Sources'
  <2>1. PICK u \in DOMAIN topics : i \in topics[u]
    BY <1>3 DEF Sources
  <2>2. into[u] \in DOMAIN topics'
    BY <1>1 DEF IsMerge
  <2>3. i \in topics'[into[u]]
    BY <1>2, <2>1, <2>2
  <2> QED BY <2>2, <2>3 DEF Sources
<1>4. ASSUME NEW i \in Sources' PROVE i \in Sources
  <2>1. PICK t \in DOMAIN topics' : i \in topics'[t]
    BY <1>4 DEF Sources
  <2> QED BY <1>2, <2>1 DEF Sources
<1> QED BY <1>3, <1>4

\* A step that is not an answer neither adds a source nor loses one.
LEMMA SourcesAreKept ==
    ASSUME IInv, [Next]_vars, \A b \in Batches : ~Answer(b)
    PROVE  Sources' = Sources /\ excluded' = excluded
<1>1. CASE Reduce
  BY <1>1, CombineKeepsSources DEF Reduce
<1>2. CASE UNCHANGED result
  BY <1>2 DEF result, Sources
<1> QED BY <1>1, <1>2, StepCases DEF Process, Split, Outside, AskModel, TakeSlot, AskAgain, BatchFails

\* An answer decides about the indexes of its batch and about no others.
LEMMA AnswerDecides ==
    ASSUME IInv, NEW b \in Batches, Answer(b), NEW i \in Index
    PROVE  /\ i \notin Batch(b) => /\ i \in Sources' <=> i \in Sources
                                   /\ i \in excluded' <=> i \in excluded
           /\ i \in Batch(b) /\ i \notin Sources /\ i \notin excluded =>
                  (i \in Sources' <=> i \notin excluded')
<1>0. RequestType
  BY TypeParts DEF IInv
<1>1. PICK k \in 1..MaxTopics : \E T \in [1..k -> SUBSET Local(b)], X \in SUBSET Local(b) :
         /\ Covers(T, X, Local(b))
         /\ DOMAIN topics' = DOMAIN topics \cup ({b} \X (1..k))
         /\ \A t \in DOMAIN topics' : t[1] # b => topics'[t] = topics[t]
         /\ \A j \in 1..k : topics'[<<b, j>>] = Remap(b, T[j])
         /\ excluded' = excluded \cup Remap(b, X)
  BY <1>0, AnswerEffect
<1>2. PICK T \in [1..k -> SUBSET Local(b)], X \in SUBSET Local(b) :
         /\ Covers(T, X, Local(b))
         /\ DOMAIN topics' = DOMAIN topics \cup ({b} \X (1..k))
         /\ \A t \in DOMAIN topics' : t[1] # b => topics'[t] = topics[t]
         /\ \A j \in 1..k : topics'[<<b, j>>] = Remap(b, T[j])
         /\ excluded' = excluded \cup Remap(b, X)
  BY <1>1
<1>3. \A t \in DOMAIN topics : t[1] # b
  BY DEF Answer, IInv, TopicInv
<1>4. i \in Sources' <=> i \in Sources \/ \E j \in 1..k : i \in Remap(b, T[j])
  <2>1. ASSUME i \in Sources' PROVE i \in Sources \/ \E j \in 1..k : i \in Remap(b, T[j])
    <3>1. PICK t \in DOMAIN topics' : i \in topics'[t]
      BY <2>1 DEF Sources
    <3>2. CASE t \in DOMAIN topics
      BY <1>2, <1>3, <3>1, <3>2 DEF Sources
    <3>3. CASE t \in {b} \X (1..k)
      <4>1. t[2] \in 1..k /\ t = <<b, t[2]>>
        BY <3>3
      <4> QED BY <1>2, <3>1, <4>1
    <3> QED BY <1>2, <3>1, <3>2, <3>3
  <2>2. ASSUME i \in Sources PROVE i \in Sources'
    <3>1. PICK t \in DOMAIN topics : i \in topics[t]
      BY <2>2 DEF Sources
    <3>2. t \in DOMAIN topics' /\ topics'[t] = topics[t]
      BY <1>2, <1>3
    <3> QED BY <3>1, <3>2 DEF Sources
  <2>3. ASSUME NEW j \in 1..k, i \in Remap(b, T[j]) PROVE i \in Sources'
    <3>1. <<b, j>> \in DOMAIN topics' /\ i \in topics'[<<b, j>>]
      BY <1>2, <2>3
    <3> QED BY <3>1 DEF Sources
  <2> QED BY <2>1, <2>2, <2>3
<1>5. \A j \in 1..k : i \in Remap(b, T[j]) <=> i \in Batch(b) /\ i - b \in T[j]
  BY <1>0, RemapMember
<1>6. i \in excluded' <=> i \in excluded \/ (i \in Batch(b) /\ i - b \in X)
  BY <1>0, <1>2, RemapMember
<1>7. CASE i \notin Batch(b)
  BY <1>4, <1>5, <1>6, <1>7
<1>8. CASE i \in Batch(b) /\ i \notin Sources /\ i \notin excluded
  <2>1. i - b \in Local(b)
    BY <1>8 DEF Local
  <2>2. i - b \in X <=> ~ \E j \in 1..k : i - b \in T[j]
    BY <1>2, <2>1 DEF Covers
  <2> QED BY <1>4, <1>5, <1>6, <1>8, <2>2
<1> QED BY <1>7, <1>8

LEMMA CoverStep == ASSUME IInv, [Next]_vars PROVE CoverInv'
<1>0. CoverInv /\ RequestType /\ DOMAIN first \subseteq Index
  BY TypeParts DEF IInv, RequestType
<1>1. ASSUME NEW b \in Batches, Answer(b) PROVE CoverInv'
  <2>1. first' = first /\ phase' = [phase EXCEPT ![b] = "answered"] /\ phase[b] = "asking"
    BY <1>1 DEF Answer
  <2>2. ASSUME NEW i \in DOMAIN first
        PROVE  IF phase'[first[i]] = "answered"
               THEN i \in Sources' <=> i \notin excluded'
               ELSE i \notin Sources' /\ i \notin excluded'
    <3>1. first[i] \in Batches /\ first[i] \in Positions /\ i \in Index
      BY <1>0, BatchesArePositions DEF Batches
    <3>2. CASE first[i] = b
      <4>1. i \in Batch(b) /\ phase'[first[i]] = "answered" /\ phase[first[i]] # "answered"
        BY <1>0, <2>1, <3>1, <3>2 DEF Batch, RequestType
      <4>2. i \notin Sources /\ i \notin excluded
        BY <1>0, <4>1 DEF CoverInv
      <4> QED BY <1>1, <3>1, <4>1, <4>2, AnswerDecides
    <3>3. CASE first[i] # b
      <4>1. i \notin Batch(b) /\ phase'[first[i]] = phase[first[i]]
        BY <1>0, <2>1, <3>1, <3>3 DEF Batch, RequestType
      <4>2. (i \in Sources' <=> i \in Sources) /\ (i \in excluded' <=> i \in excluded)
        BY <1>1, <3>1, <4>1, AnswerDecides
      <4> QED BY <1>0, <4>1, <4>2 DEF CoverInv
    <3> QED BY <3>2, <3>3
  <2> QED BY <2>1, <2>2 DEF CoverInv
<1>2. CASE \A b \in Batches : ~Answer(b)
  <2>1. Sources' = Sources /\ excluded' = excluded
    BY <1>2, SourcesAreKept
  <2>2. CASE Split
    <3>1. DOMAIN topics = {} /\ excluded = {}
      BY <2>2, NothingAsked DEF Split
    <3>2. Sources = {}
      BY <3>1 DEF Sources
    <3>3. first' \in [Index -> Index] /\ phase' = phase
      BY <2>2 DEF Split, batches
    <3>4. \A i \in Index : i \in Positions /\ phase[i] = "waiting"
      BY <1>0, <2>2 DEF Split, IInv, TopicInv, RequestType
    <3> QED BY <2>1, <3>1, <3>2, <3>3, <3>4 DEF CoverInv
  <2>3. CASE UNCHANGED <<first, phase>>
    BY <1>0, <2>1, <2>3 DEF CoverInv
  <2>4. ASSUME NEW b \in Batches, TakeSlot(b) \/ BatchFails(b) PROVE CoverInv'
    <3>1. first' = first /\ b \in Positions
      BY <1>0, <2>4, BatchesArePositions DEF TakeSlot, BatchFails
    <3>2. \A c \in Positions : phase'[c] = "answered" <=> phase[c] = "answered"
      BY <1>0, <2>4, <3>1 DEF RequestType, TakeSlot, BatchFails
    <3>3. \A i \in DOMAIN first : first[i] \in Positions
      BY <1>0, BatchesArePositions DEF Batches
    <3> QED BY <1>0, <2>1, <3>1, <3>2, <3>3 DEF CoverInv
  <2> QED BY <1>2, <2>2, <2>3, <2>4, StepCases
          DEF Process, Reduce, Outside, AskModel, AskAgain, batches
<1> QED BY <1>1, <1>2

-----------------------------------------------------------------------------
\* The checks of the merged result and of its rows.

\* The request is covered exactly when every batch has been answered.
LEMMA CoveredWhenAnswered ==
    ASSUME IInv, DOMAIN first = Index
    PROVE  Covers(topics, excluded, Index) <=> AllAnswered
<1>0. RequestType /\ ResultType
  BY TypeParts DEF IInv
<1>1. \A i \in Index : i \in Sources <=> \E t \in DOMAIN topics : i \in topics[t]
  BY DEF Sources
<1>2. (\A t \in DOMAIN topics : topics[t] \subseteq Index) /\ excluded \subseteq Index
  BY <1>0 DEF ResultType
<1>3. ASSUME AllAnswered PROVE Covers(topics, excluded, Index)
  <2>1. \A i \in Index : i \in Sources <=> i \notin excluded
    BY <1>3 DEF IInv, CoverInv, AllAnswered, Batches
  <2> QED BY <1>1, <1>2, <2>1 DEF Covers
<1>4. ASSUME ~AllAnswered PROVE ~Covers(topics, excluded, Index)
  <2>1. PICK i \in Index : phase[first[i]] # "answered"
    BY <1>4 DEF AllAnswered, Batches
  <2>2. i \notin Sources /\ i \notin excluded
    BY <2>1 DEF IInv, CoverInv
  <2> QED BY <1>1, <2>2 DEF Covers
<1> QED BY <1>3, <1>4

\* Then the kept messages are divided between the topics and the exclusions.
LEMMA MessagesDivided ==
    ASSUME IInv, AllAnswered, DOMAIN first = Index, pc \notin {"loaded", "returned"}
    PROVE  /\ MessagesOf(Sources) \cup MessagesOf(excluded) = Kept
           /\ MessagesOf(Sources) \cap MessagesOf(excluded) = {}
<1>1. /\ \A l \in Leaders : \E i \in Index : at[i] = l
      /\ \A i, j \in Index : at[i] = at[j] => i = j
  BY DEF IInv, RequestInv
<1>2. \A i \in Index : i \in Sources <=> i \notin excluded
  BY DEF IInv, CoverInv, AllAnswered, Batches
<1>3. \A S, m : m \in MessagesOf(S) <=>
         m \in Kept /\ \E i \in Index : i \in S /\ Canonical[m] = at[i]
  BY DEF MessagesOf, Cluster
<1>4. ASSUME NEW m \in Kept PROVE m \in MessagesOf(Sources) \cup MessagesOf(excluded)
  <2>1. PICK i \in Index : Canonical[m] = at[i]
    BY <1>1 DEF Leaders
  <2> QED BY <1>2, <1>3, <2>1
<1>5. ASSUME NEW m \in MessagesOf(Sources), m \in MessagesOf(excluded) PROVE FALSE
  <2>1. PICK i \in Index : i \in Sources /\ Canonical[m] = at[i]
    BY <1>3
  <2>2. PICK j \in Index : j \in excluded /\ Canonical[m] = at[j]
    BY <1>3, <1>5
  <2> QED BY <1>1, <1>2, <2>1, <2>2
<1> QED BY <1>3, <1>4, <1>5

LEMMA KeptIsFinite == IsFiniteSet(Kept)
<1>1. IsFiniteSet(Messages)
  BY FS_Interval, SummariesAssumption DEF Messages
<1> QED BY <1>1, FS_Subset DEF Kept

\* So the last check before the summary is saved cannot refuse it.
LEMMA MessagesCounted ==
    ASSUME IInv, pc = "classifying"
    PROVE  Cardinality(MessagesOf(Sources)) + Cardinality(MessagesOf(excluded))
               = Cardinality(Kept)
<1> DEFINE U == MessagesOf(Sources)
           X == MessagesOf(excluded)
<1>1. U \cup X = Kept /\ U \cap X = {}
  BY MessagesDivided DEF IInv, OutcomeInv, RequestInv
<1>2. IsFiniteSet(U) /\ IsFiniteSet(X)
  BY <1>1, KeptIsFinite, FS_Subset
<1>3. Cardinality(U \cup X) = Cardinality(U) + Cardinality(X) - Cardinality(U \cap X)
  BY <1>2, FS_Union
<1>4. Cardinality(U \cap X) = 0
  BY <1>1, FS_EmptySet
<1>5. Cardinality(U) \in Nat /\ Cardinality(X) \in Nat
  BY <1>2, FS_CardinalityType
<1> HIDE DEF U, X
<1>6. Cardinality(U \cup X) = Cardinality(Kept)
  BY <1>1, Zenon
<1>7. Cardinality(U) + Cardinality(X) = Cardinality(Kept)
  BY <1>3, <1>4, <1>5, <1>6
<1> QED BY <1>7 DEF U, X

LEMMA OutcomeStep == ASSUME IInv, [Next]_vars PROVE OutcomeInv'
<1> USE DEF OutcomeInv
<1>0. OutcomeInv /\ RequestInv /\ JobInv /\ RequestType /\ faults \in Nat
  BY TypeParts DEF IInv, ControlType
<1> DEFINE Same == UNCHANGED <<first, phase>>
<1>1. Same => (AllAnswered' <=> AllAnswered) /\ Batches' = Batches
  BY DEF AllAnswered, Batches
<1>2. CASE NothingLeft \/ CreateJobFails
  <2>1. Batches' = {}
    BY <1>2, NothingAsked DEF NothingLeft, CreateJobFails, Batches
  <2>2. pc' = "returned"
    BY <1>2 DEF NothingLeft, CreateJobFails
  <2> QED BY <2>1, <2>2
<1>3. CASE Process \/ CreateJob \/ Split \/ Reduce
  BY <1>3 DEF Process, CreateJob, Split, Reduce
<1>4. CASE Join
  <2>1. Same
    BY <1>4 DEF Join, batches
  <2>2. CASE \A b \in Batches : phase[b] = "failed"
    <3>1. pc' = "failing"
      BY <1>4, <2>2 DEF Join
    <3>2. AllAnswered => Batches = {}
      BY <2>2 DEF AllAnswered
    <3> QED BY <1>1, <2>1, <3>1, <3>2
  <2>3. CASE ~ \A b \in Batches : phase[b] = "failed"
    <3>1. pc' = IF \E b \in Batches : Batches = {b} THEN "classifying" ELSE "reducing"
      BY <1>4, <2>3 DEF Join
    <3>2. ASSUME NEW b \in Batches, Batches = {b} PROVE AllAnswered
      BY <1>4, <2>3, <3>2 DEF Join, AllAnswered
    <3> QED BY <1>1, <2>1, <3>1, <3>2
  <2> QED BY <2>2, <2>3
<1>5. CASE Validate
  <2>1. Same /\ DOMAIN first = Index /\ pc' \in {"classifying", "failing"}
    BY <1>0, <1>5 DEF Validate, batches, RequestInv
  <2>2. pc' = "classifying" <=> AllAnswered
    BY <1>5, <2>1, CoveredWhenAnswered DEF Validate
  <2> QED BY <1>1, <2>1, <2>2
<1>6. CASE Classify
  <2>1. pc' = "saving" /\ pc = "classifying"
    BY <1>6, MessagesCounted DEF Classify
  <2>2. Same
    BY <1>6 DEF Classify, batches
  <2> QED BY <1>0, <1>1, <2>1, <2>2
<1>7. CASE CreateSummary \/ CompleteJob \/ CompleteJobFails
  BY <1>0, <1>1, <1>7
     DEF CreateSummary, CompleteJob, CompleteJobFails, batches, database, JobInv
<1>8. CASE CreateSummaryFails \/ MarkJobFailedFails
  <2>1. cancelled' \/ faults' > 0
    BY <1>0, <1>8 DEF CreateSummaryFails, MarkJobFailedFails, CallFails, Fault
  <2> QED BY <1>8, <2>1 DEF CreateSummaryFails, MarkJobFailedFails
<1>9. CASE MarkJobFailed \/ Cancel \/ UNCHANGED vars
  <2>1. Same /\ saved' = saved /\ faults' = faults
    BY <1>9 DEF MarkJobFailed, Cancel, vars, batches, database
  <2>2. cancelled' \/ cancelled' = cancelled
    BY <1>9 DEF MarkJobFailed, Cancel, vars
  <2>3. pc' = pc \/ (pc = "failing" /\ pc' = "returned")
    BY <1>9 DEF MarkJobFailed, Cancel, vars
  <2> QED BY <1>0, <1>1, <2>1, <2>2, <2>3
<1>10. ASSUME NEW b \in Batches, AskModel(b) PROVE OutcomeInv'
  BY <1>10 DEF AskModel, TakeSlot, Answer, AskAgain, BatchFails
<1> QED BY <1>2, <1>3, <1>4, <1>5, <1>6, <1>7, <1>8, <1>9, <1>10 DEF Next, Sequential

LEMMA JobStep == ASSUME IInv, [Next]_vars PROVE JobInv'
<1> USE DEF JobInv
<1>0. JobInv /\ faults \in Nat
  BY TypeParts DEF IInv, ControlType
<1>1. CASE NothingLeft \/ Process \/ CreateJob \/ Split
  BY <1>0, <1>1 DEF NothingLeft, Process, CreateJob, Split, database
<1>2. CASE Join \/ Reduce \/ Validate \/ Classify
  <2>1. /\ pc \in {"asking", "reducing", "validating", "classifying"}
        /\ pc' \in {"failing", "classifying", "reducing", "validating", "saving"}
        /\ UNCHANGED database
    BY <1>2, Zenon DEF Join, Reduce, Validate, Classify
  <2> QED BY <1>0, <2>1 DEF database
<1>3. CASE CreateSummary \/ CompleteJob \/ MarkJobFailed
  BY <1>0, <1>3 DEF CreateSummary, CompleteJob, MarkJobFailed
<1>4. CASE CreateJobFails \/ CreateSummaryFails \/ CompleteJobFails \/ MarkJobFailedFails
  BY <1>0, <1>4 DEF CreateJobFails, CreateSummaryFails, CompleteJobFails, MarkJobFailedFails,
       CallFails, Fault, database
<1>5. ASSUME NEW b \in Batches, AskModel(b) PROVE JobInv'
  BY <1>0, <1>5 DEF AskModel, TakeSlot, Answer, AskAgain, BatchFails, database
<1>6. CASE Cancel \/ UNCHANGED vars
  BY <1>0, <1>6 DEF Cancel, vars, database
<1> QED BY <1>1, <1>2, <1>3, <1>4, <1>5, <1>6 DEF Next, Sequential

LEMMA StepInv == IInv /\ [Next]_vars => IInv'
BY TypeStep, RequestStep, TopicStep, CoverStep, OutcomeStep, JobStep DEF IInv

-----------------------------------------------------------------------------
\* The theorems.

THEOREM Invariance == Spec => []IInv
BY InitInv, StepInv, PTL DEF Spec

\* Inputs, requests, results and rows keep their types, for any number of
\* messages and batches.
THEOREM TypeCorrect == Spec => []TypeOK
<1>1. IInv => TypeOK
  BY DEF IInv
<1> QED BY <1>1, Invariance, PTL

\* A summary whose batches were all answered is refused by no later check.
THEOREM CompleteBatchesSufficeAlways == Spec => []CompleteBatchesSuffice
<1>1. IInv => CompleteBatchesSuffice
  BY DEF IInv, OutcomeInv, CompleteBatchesSuffice, AllAnswered
<1> QED BY <1>1, Invariance, PTL

\* No job row of a call that saved nothing stays in processing.
THEOREM FailedJobIsMarkedAlways == Spec => []FailedJobIsMarked
<1>1. IInv => FailedJobIsMarked
  BY DEF IInv, JobInv, FailedJobIsMarked
<1> QED BY <1>1, Invariance, PTL

\* No merge of topics loses or invents a source.
THEOREM MergesKeepSources == Spec => MergeKeepsSources
<1>1. IInv /\ [Next]_vars => [pc = "reducing" => Sources' = Sources]_vars
  <2>1. ASSUME IInv, [Next]_vars, pc = "reducing" PROVE Sources' = Sources
    <3>1. \A b \in Batches : ~Answer(b)
      BY <2>1 DEF Answer
    <3> QED BY <2>1, <3>1, SourcesAreKept
  <2> QED BY <2>1
<1> QED BY <1>1, Invariance, PTL DEF Spec, MergeKeepsSources

\* What has been saved does not change any more.
LEMMA SavedStays ==
    ASSUME IInv, [Next]_vars, saved
    PROVE  saved' = saved /\ UNCHANGED <<input, at, result>>
<1>1. pc \in {"saved", "returned"}
  BY DEF IInv, JobInv
<1>2. \A b \in Batches : ~AskModel(b)
  BY <1>1 DEF AskModel, TakeSlot, Answer, AskAgain, BatchFails
<1>3. CompleteJob \/ CompleteJobFails \/ Cancel \/ UNCHANGED vars
  BY <1>1, <1>2 DEF Next, Sequential, NothingLeft, Process, CreateJob, CreateJobFails, Split,
       Join, Reduce, Validate, Classify, CreateSummary, CreateSummaryFails, MarkJobFailed,
       MarkJobFailedFails
<1> QED BY <1>3 DEF CompleteJob, CompleteJobFails, Cancel, vars, database

LEMMA OnlyCreateSummarySaves ==
    ASSUME [Next]_vars, ~CreateSummary PROVE saved' = saved
BY DEF Next, Sequential, AskModel, NothingLeft, Process, CreateJob, CreateJobFails, Split,
       Join, Reduce, Validate, Classify, CreateSummaryFails, CompleteJob, CompleteJobFails,
       MarkJobFailed, MarkJobFailedFails, TakeSlot, Answer, AskAgain, BatchFails, Cancel,
       vars, database

LEMMA ReturnedStays == ASSUME [Next]_vars, pc = "returned" PROVE pc' = pc
BY DEF Next, Sequential, AskModel, NothingLeft, Process, CreateJob, CreateJobFails, Split,
       Join, Reduce, Validate, Classify, CreateSummary, CreateSummaryFails, CompleteJob,
       CompleteJobFails, MarkJobFailed, MarkJobFailedFails, TakeSlot, Answer, AskAgain,
       BatchFails, Cancel, vars

LEMMA MessagesAreKept ==
    ASSUME UNCHANGED <<input, at, result>>
    PROVE  /\ MessagesOf(Sources)' = MessagesOf(Sources)
           /\ MessagesOf(excluded)' = MessagesOf(excluded)
<1>1. Kept' = Kept /\ Canonical' = Canonical
  BY LeadersAreKept
<1>2. Sources' = Sources /\ Index' = Index /\ at' = at /\ excluded' = excluded
  BY DEF result, Sources, Index
<1> QED BY <1>1, <1>2 DEF MessagesOf, Cluster

\* The summary is saved once, and divides the kept messages between its topics
\* and its exclusions: the services implement the promise, for every input, every
\* answer and every failure.
THEOREM PromiseIsKept == Spec => ImplementsSavedSummary
<1>1. Init => Promise!Init
  BY DEF Init, Promise!Init
<1>2. IInv /\ [Next]_vars => [Promise!Save \/ Promise!Fail]_(Promise!vars)
  <2> SUFFICES ASSUME IInv, [Next]_vars
               PROVE  [Promise!Save \/ Promise!Fail]_(Promise!vars)
    OBVIOUS
  <2>1. Kept' = Kept
    BY InputIsKept, LeadersAreKept
  <2>2. CASE CreateSummary
    <3>1. /\ ~saved /\ saved' /\ pc = "saving"
          /\ UNCHANGED <<input, at, result>>
      BY <2>2 DEF CreateSummary, IInv, JobInv
    <3>2. DOMAIN first = Index /\ AllAnswered
      BY <3>1 DEF IInv, RequestInv, OutcomeInv
    <3>3. /\ MessagesOf(Sources)' \cup MessagesOf(excluded)' = Kept
          /\ MessagesOf(Sources)' \cap MessagesOf(excluded)' = {}
      BY <3>1, <3>2, MessagesDivided, MessagesAreKept
    <3> QED BY <2>1, <3>1, <3>3 DEF Promise!Save
  <2>3. CASE saved
    <3>1. saved' = saved /\ UNCHANGED <<input, at, result>>
      BY <2>3, SavedStays
    <3> QED BY <2>1, <2>3, <3>1, MessagesAreKept DEF Promise!vars
  <2>4. CASE ~saved /\ ~CreateSummary
    <3>1. ~saved'
      BY <2>4, OnlyCreateSummarySaves
    <3>2. CASE pc' = "returned" /\ pc # "returned"
      BY <2>1, <2>4, <3>1, <3>2 DEF Promise!Fail
    <3>3. CASE pc' = "returned" <=> pc = "returned"
      BY <2>1, <2>4, <3>1, <3>3 DEF Promise!vars
    <3> QED BY <3>2, <3>3, ReturnedStays
  <2> QED BY <2>2, <2>3, <2>4
<1> QED BY <1>1, <1>2, Invariance, PTL DEF Spec, ImplementsSavedSummary, Promise!Spec

-----------------------------------------------------------------------------
\* The deduplicator.  GroupDuplicates is recursive; induction over the messages
\* is done with sets of naturals, for their order is well-founded.

LEMMA LeastNumber ==
    ASSUME NEW S \in SUBSET Nat, S # {}
    PROVE  \E n \in S : \A m \in S : n <= m
<1> DEFINE R == OpToRel(<, Nat)
<1>1. IsWellFoundedOn(R, Nat)
  BY NatLessThanWellFounded
<1>2. \A x, y \in Nat : <<x, y>> \in R <=> x < y
  BY DEF OpToRel
<1> HIDE DEF R
<1>3. PICK x \in S : \A y \in S : <<y, x>> \notin R
  BY <1>1, WFMin
<1>4. \A y \in S : ~(y < x)
  BY <1>2, <1>3, Zenon
<1>5. x \in Nat /\ \A y \in S : y \in Nat
  OBVIOUS
<1>6. \A y \in S : x <= y
  BY <1>4, <1>5
<1> QED BY <1>6

\* What findCluster looks through for message m when the canonical messages of
\* the earlier ones are those of c, and what it makes of it.
Home(kept, pairs, c, m) == {l \in kept : l < m /\ {l, m} \in pairs /\ c[l] = l}
Earliest(S) == CHOOSE l \in S : \A k \in S : l <= k
Find(kept, pairs, c, m) ==
    IF Home(kept, pairs, c, m) = {} THEN m ELSE Earliest(Home(kept, pairs, c, m))

Found(kept, pairs) == CHOOSE c : c = [m \in Messages |-> Find(kept, pairs, c, m)]

LEMMA GroupsAreFound ==
    ASSUME NEW kept, NEW pairs
    PROVE  GroupDuplicates(kept, pairs) = [m \in kept |-> Found(kept, pairs)[m]]
BY DEF GroupDuplicates, Found, Find, Home, Earliest

\* A message joins an earlier cluster, or opens its own.
LEMMA FindCases ==
    ASSUME NEW kept \in SUBSET Messages, NEW pairs, NEW c, NEW m \in Messages
    PROVE  \/ Home(kept, pairs, c, m) = {} /\ Find(kept, pairs, c, m) = m
           \/ /\ Find(kept, pairs, c, m) \in Home(kept, pairs, c, m)
              /\ \A l \in Home(kept, pairs, c, m) : Find(kept, pairs, c, m) <= l
<1> DEFINE H == Home(kept, pairs, c, m)
<1>1. CASE H = {}
  BY <1>1 DEF Find
<1>2. CASE H # {}
  <2>1. H \in SUBSET Nat
    <3>1. Messages \subseteq Nat
      BY DEF Messages
    <3>2. H \subseteq kept
      BY DEF Home
    <3> HIDE DEF H
    <3> QED BY <3>1, <3>2
  <2> HIDE DEF H
  <2>2. \E l \in H : \A k \in H : l <= k
    BY <1>2, <2>1, LeastNumber
  <2>3. Earliest(H) \in H /\ \A k \in H : Earliest(H) <= k
    BY <2>2 DEF Earliest
  <2> QED BY <1>2, <2>3 DEF Find, H
<1> QED BY <1>1, <1>2

\* The canonical messages are determined one after another.
LEMMA FoundExists ==
    ASSUME NEW kept \in SUBSET Messages, NEW pairs
    PROVE  \E c : c = [m \in Messages |-> Find(kept, pairs, c, m)]
<1> DEFINE Upto(n, c) == \A m \in 1..n : c[m] = Find(kept, pairs, c, m)
           Bad == {n \in 0..MaxMessages : ~\E c \in [1..n -> Messages] : Upto(n, c)}
<1>0. MaxMessages \in Nat
  BY SummariesAssumption
<1>1. Bad = {}
  <2> SUFFICES ASSUME Bad # {} PROVE FALSE
    OBVIOUS
  <2>1. Bad \in SUBSET Nat
    BY <1>0
  <2>2. PICK n \in Bad : \A m \in Bad : n <= m
    <3> HIDE DEF Bad
    <3> QED BY <2>1, LeastNumber
  <2>3. n \in 0..MaxMessages /\ n \in Nat
    BY <1>0, <2>2
  <2>4. n # 0
    <3>1. [m \in 1..0 |-> m] \in [1..0 -> Messages] /\ Upto(0, [m \in 1..0 |-> m])
      OBVIOUS
    <3>2. \E c \in [1..0 -> Messages] : Upto(0, c)
      <4> HIDE DEF Upto
      <4> QED BY <3>1
    <3> QED BY <3>2
  <2>5. n - 1 \in 0..MaxMessages /\ n - 1 \notin Bad
    <3>1. n - 1 \in 0..MaxMessages /\ ~(n <= n - 1)
      BY <1>0, <2>3, <2>4
    <3> HIDE DEF Bad
    <3> QED BY <2>2, <3>1
  <2>6. PICK c \in [1..(n - 1) -> Messages] : Upto(n - 1, c)
    BY <2>5
  <2> DEFINE d == [m \in 1..n |-> IF m = n THEN Find(kept, pairs, c, n) ELSE c[m]]
  <2>7. n \in Messages /\ 1..n \subseteq Messages /\ n \in 1..n
    BY <1>0, <2>3, <2>4 DEF Messages
  <2>8. ASSUME NEW m \in 1..n PROVE Find(kept, pairs, d, m) = Find(kept, pairs, c, m)
    <3>1. \A l \in kept : l < m => l \in 1..(n - 1) /\ l \in 1..n /\ l # n
      BY <2>3 DEF Messages
    <3>2. \A l \in kept : l < m => d[l] = c[l]
      BY <3>1
    <3> HIDE DEF d
    <3>3. Home(kept, pairs, d, m) = Home(kept, pairs, c, m)
      BY <3>2 DEF Home
    <3> QED BY <3>3 DEF Find
  <2>9. Find(kept, pairs, c, n) \in Messages
    BY <2>7, FindCases DEF Home
  <2>10. d \in [1..n -> Messages]
    <3>1. \A m \in 1..n : m # n => m \in 1..(n - 1)
      BY <2>3
    <3> QED BY <2>9, <3>1
  <2>11. ASSUME NEW m \in 1..n PROVE d[m] = Find(kept, pairs, c, m)
    <3>1. m # n => m \in 1..(n - 1)
      BY <2>3
    <3> QED BY <2>6, <3>1
  <2>12. Upto(n, d)
    <3> HIDE DEF d
    <3> QED BY <2>8, <2>11
  <2>13. \E e \in [1..n -> Messages] : Upto(n, e)
    <3> HIDE DEF d, Upto
    <3> QED BY <2>10, <2>12
  <2> QED BY <2>2, <2>13
<1>2. MaxMessages \in 0..MaxMessages
  BY <1>0
<1>3. PICK c \in [1..MaxMessages -> Messages] : Upto(MaxMessages, c)
  BY <1>1, <1>2
<1>4. c = [m \in Messages |-> Find(kept, pairs, c, m)]
  BY <1>3 DEF Messages
<1> QED BY <1>4

LEMMA FoundEquation ==
    ASSUME NEW kept \in SUBSET Messages, NEW pairs, NEW m \in Messages
    PROVE  Found(kept, pairs)[m] = Find(kept, pairs, Found(kept, pairs), m)
<1>1. PICK c : c = [l \in Messages |-> Find(kept, pairs, c, l)]
  BY FoundExists
<1>2. Found(kept, pairs) = [l \in Messages |-> Find(kept, pairs, Found(kept, pairs), l)]
  BY <1>1 DEF Found
<1> HIDE DEF Find
<1> QED BY <1>2

\* Each message is its own canonical message, or joins the earliest one that is
\* alike: whatever the deduplicator drops is alike to what it keeps for it.
THEOREM DuplicatesAreAlike ==
    ASSUME NEW kept \in SUBSET Messages, NEW pairs, NEW m \in kept
    PROVE  LET c == GroupDuplicates(kept, pairs)
           IN  \/ /\ c[m] = m
                  /\ \A l \in kept : l < m /\ c[l] = l => {l, m} \notin pairs
               \/ /\ c[m] \in kept /\ c[m] < m /\ {c[m], m} \in pairs
                  /\ c[c[m]] = c[m]
                  /\ \A l \in kept : l < m /\ c[l] = l /\ {l, m} \in pairs => c[m] <= l
<1> DEFINE F == Found(kept, pairs)
           c == GroupDuplicates(kept, pairs)
<1>1. \A l \in kept : c[l] = F[l]
  BY GroupsAreFound
<1>2. F[m] = Find(kept, pairs, F, m)
  BY FoundEquation
<1>3. \A l : l \in Home(kept, pairs, F, m) <=>
              l \in kept /\ l < m /\ {l, m} \in pairs /\ F[l] = l
  BY DEF Home
<1> HIDE DEF F, c
<1>4. \/ Home(kept, pairs, F, m) = {} /\ F[m] = m
      \/ F[m] \in Home(kept, pairs, F, m) /\ \A l \in Home(kept, pairs, F, m) : F[m] <= l
  BY <1>2, FindCases
<1>5. CASE Home(kept, pairs, F, m) = {} /\ F[m] = m
  BY <1>1, <1>3, <1>5 DEF c
<1>6. CASE F[m] \in Home(kept, pairs, F, m) /\ \A l \in Home(kept, pairs, F, m) : F[m] <= l
  BY <1>1, <1>3, <1>6 DEF c
<1> QED BY <1>4, <1>5, <1>6

\* The leaders are the messages that opened a cluster, and no two are alike.
LEMMA LeadersDiffer ==
    /\ Leaders \subseteq Kept
    /\ \A k, l \in Leaders : k # l => {k, l} \notin alike
<1>0. Kept \in SUBSET Messages /\ Canonical = GroupDuplicates(Kept, alike)
  BY DEF Kept, Canonical
<1>1. ASSUME NEW m \in Kept PROVE Canonical[m] \in Kept /\ Canonical[Canonical[m]] = Canonical[m]
  BY <1>0, DuplicatesAreAlike
<1>2. \A l \in Leaders : l \in Kept /\ Canonical[l] = l
  BY <1>1 DEF Leaders
<1>3. ASSUME NEW k \in Kept, NEW l \in Kept, Canonical[k] = k, Canonical[l] = l, k < l
      PROVE  {k, l} \notin alike
  <2>1. ~(Canonical[l] < l)
    BY <1>0, <1>3 DEF Messages
  <2>2. \A j \in Kept : j < l /\ Canonical[j] = j => {j, l} \notin alike
    BY <1>0, <2>1, DuplicatesAreAlike
  <2> QED BY <1>3, <2>2
<1>4. ASSUME NEW k \in Leaders, NEW l \in Leaders, k # l PROVE {k, l} \notin alike
  <2>1. k \in Messages /\ l \in Messages
    BY <1>0, <1>2
  <2> k < l \/ l < k
    BY <1>4, <2>1 DEF Messages
  <2>2. {k, l} = {l, k}
    OBVIOUS
  <2> QED BY <1>2, <1>3, <2>1, <2>2
<1> QED BY <1>2, <1>4

-----------------------------------------------------------------------------
\* The request, which the service keeps once the clusters are in their order.

OrderInv == /\ pc = "loaded" => Index = {}
            /\ Index = {} \/ IsOrder(at)

LEMMA OrderInit == Init => OrderInv
BY NothingIsEmpty DEF Init, OrderInv, Index

\* Only Process writes the request.
LEMMA OrderStep == OrderInv /\ [Next]_vars => OrderInv'
<1> SUFFICES ASSUME OrderInv, [Next]_vars PROVE OrderInv'
  OBVIOUS
<1>1. UNCHANGED <<input, Kept, Canonical, Leaders>>
  BY InputIsKept, LeadersAreKept
<1>2. \A k, l : Precedes(k, l)' <=> Precedes(k, l)
  <2>1. \A l : Rivals(l)' = Rivals(l)
    BY <1>1 DEF Rivals, input
  <2>2. \A l : Newer(l)' = Newer(l)
    BY <2>1 DEF Newer
  <2>3. Balanced' <=> Balanced
    BY <1>1 DEF Balanced, input
  <2> QED BY <2>1, <2>2, <2>3 DEF Precedes
<1>3. CASE Process
  <2>1. PICK n \in Messages : \E f \in [0..(n - 1) -> Leaders] : IsOrder(f) /\ at' = f
    BY <1>3 DEF Process
  <2>2. IsOrder(at')
    BY <2>1
  <2>3. IsOrder(at)'
    BY <1>1, <1>2, <2>2 DEF IsOrder
  <2>4. pc' = "processed"
    BY <1>3 DEF Process
  <2> QED BY <2>3, <2>4 DEF OrderInv
<1>4. CASE at' = at /\ (pc' = "loaded" => pc = "loaded")
  <2>1. IsOrder(at)' <=> IsOrder(at)
    BY <1>1, <1>2, <1>4 DEF IsOrder
  <2> QED BY <1>4, <2>1 DEF OrderInv, Index
<1>5. Process \/ (at' = at /\ (pc' = "loaded" => pc = "loaded"))
  BY DEF Next, Sequential, AskModel, NothingLeft, CreateJob, CreateJobFails, Split, Join, Reduce,
       Validate, Classify, CreateSummary, CreateSummaryFails, CompleteJob, CompleteJobFails,
       MarkJobFailed, MarkJobFailedFails, TakeSlot, Answer, AskAgain, BatchFails, Cancel, vars
<1> QED BY <1>3, <1>4, <1>5

\* Whatever the messages and their likenesses, the model gets no two that the
\* deduplicator finds alike.
THEOREM NothingAskedTwiceAlways == Spec => []NothingAskedTwice
<1>1. ASSUME TypeOK, OrderInv PROVE NothingAskedTwice
  <2> SUFFICES ASSUME NEW i \in Index, NEW j \in Index, i # j
               PROVE  {at[i], at[j]} \notin alike
    BY DEF NothingAskedTwice
  <2>1. at[i] \in Leaders /\ at[j] \in Leaders /\ i \in Positions /\ j \in Positions
    BY <1>1 DEF TypeOK, RequestType
  <2>2. i < j \/ j < i
    BY <2>1 DEF Positions
  <2>3. IsOrder(at)
    BY <1>1 DEF OrderInv
  <2>4. at[i] # at[j]
    BY <2>2, <2>3 DEF IsOrder, Index
  <2> QED BY <2>1, <2>4, LeadersDiffer
<1> QED BY <1>1, OrderInit, OrderStep, TypeCorrect, PTL DEF Spec

-----------------------------------------------------------------------------
\* The balance of the chats.  Newer ranks the clusters of a chat, and the request
\* goes through the ranks.

LEMMA LeadersAreFinite == IsFiniteSet(Leaders) /\ Leaders \subseteq Int
<1>1. Leaders \subseteq Kept
  BY LeadersDiffer
<1>2. IsFiniteSet(Leaders)
  BY <1>1, KeptIsFinite, FS_Subset
<1>3. Kept \subseteq Int
  BY DEF Kept, Messages
<1> QED BY <1>1, <1>2, <1>3

LEMMA NewerIsNat == ASSUME NEW l PROVE Newer(l) \in Nat
<1>1. {k \in Rivals(l) : k > l} \in SUBSET Leaders
  BY DEF Rivals
<1>2. IsFiniteSet({k \in Rivals(l) : k > l})
  BY <1>1, LeadersAreFinite, FS_Subset
<1> QED BY <1>2, FS_CardinalityType DEF Newer

\* A newer cluster of the same chat has a lower rank.
LEMMA NewerRanks ==
    ASSUME NEW k \in Leaders, NEW l \in Leaders, chatOf[k] = chatOf[l], k > l
    PROVE  Newer(k) < Newer(l)
<1> DEFINE S == {j \in Rivals(k) : j > k}
           T == {j \in Rivals(l) : j > l}
<1>1. k \in Int /\ l \in Int /\ \A j \in Leaders : j \in Int
  BY LeadersAreFinite
<1>2. Rivals(k) = Rivals(l) /\ Rivals(l) \subseteq Leaders
  BY DEF Rivals
<1>3. ASSUME NEW j \in S PROVE j \in T
  <2>1. j \in Rivals(l) /\ j \in Int /\ j > k
    BY <1>1, <1>2
  <2> QED BY <1>1, <2>1
<1>4. k \in T /\ k \notin S
  BY <1>1 DEF Rivals
<1>5. T \in SUBSET Leaders
  BY <1>2
<1> HIDE DEF S, T
<1>6. IsFiniteSet(T)
  BY <1>5, LeadersAreFinite, FS_Subset
<1>7. S \in SUBSET T /\ S # T
  BY <1>3, <1>4
<1>8. Cardinality(S) <= Cardinality(T) /\ Cardinality(S) # Cardinality(T)
  BY <1>6, <1>7, FS_Subset
<1>9. Newer(k) = Cardinality(S) /\ Newer(l) = Cardinality(T)
  BY DEF S, T, Newer
<1>10. Newer(k) \in Nat /\ Newer(l) \in Nat
  BY NewerIsNat
<1> QED BY <1>8, <1>9, <1>10

\* An injection bounds a cardinality.
LEMMA Injected ==
    ASSUME NEW S, NEW T, IsFiniteSet(T), NEW f \in [S -> T],
           \A a, b \in S : f[a] = f[b] => a = b
    PROVE  Cardinality(S) <= Cardinality(T)
<1>1. f \in Injection(S, T)
  BY DEF Injection, IsInjective
<1> QED BY <1>1, FS_Injection

LEMMA AheadIsFinite ==
    ASSUME RequestType, NEW c, NEW k
    PROVE  /\ IsFiniteSet({i \in Index : i < k /\ chatOf[at[i]] = c})
           /\ Ahead(c, k) \in Nat
<1>1. IsFiniteSet(Positions)
  BY FS_Interval, SummariesAssumption DEF Positions
<1>2. {i \in Index : i < k /\ chatOf[at[i]] = c} \in SUBSET Positions
  BY DEF RequestType
<1>3. IsFiniteSet({i \in Index : i < k /\ chatOf[at[i]] = c})
  BY <1>1, <1>2, FS_Subset
<1> QED BY <1>3, FS_CardinalityType DEF Ahead

\* Before a cluster come all the newer ones of its chat,
LEMMA OwnChatIsAhead ==
    ASSUME RequestType, Balanced, IsOrder(at), NEW k \in Index
    PROVE  Newer(at[k]) <= Ahead(chatOf[at[k]], k)
<1> DEFINE l == at[k]
           S == {j \in Rivals(l) : j > l}
           T == {i \in Index : i < k /\ chatOf[at[i]] = chatOf[l]}
<1>1. l \in Leaders /\ k \in Int /\ \A i \in Index : i \in Int /\ at[i] \in Leaders
  BY DEF RequestType, Positions
<1>2. ASSUME NEW j \in S PROVE \E i \in T : at[i] = j
  <2>1. j \in Leaders /\ chatOf[j] = chatOf[l] /\ j > l
    BY DEF Rivals
  <2>2. PICK i \in Index : at[i] = j
    BY <2>1 DEF IsOrder, Index
  <2>3. Newer(j) < Newer(l) /\ Newer(j) \in Nat /\ Newer(l) \in Nat
    BY <1>1, <2>1, NewerRanks, NewerIsNat
  <2>4. ~Precedes(l, j)
    BY <2>3 DEF Precedes
  <2>5. ~(k < i)
    BY <2>2, <2>4 DEF IsOrder, Index
  <2>6. i # k
    BY <1>1, <2>1, <2>2, LeadersAreFinite
  <2>7. i < k
    BY <1>1, <2>5, <2>6
  <2> QED BY <2>1, <2>2, <2>7
<1> DEFINE f == [j \in S |-> CHOOSE i \in T : at[i] = j]
<1> HIDE DEF S, T, l
<1>3. \A j \in S : f[j] \in T /\ at[f[j]] = j
  BY <1>2
<1>4. f \in [S -> T]
  BY <1>3
<1>5. IsFiniteSet(T) /\ Ahead(chatOf[at[k]], k) = Cardinality(T)
  BY AheadIsFinite DEF T, l, Ahead
<1>6. Newer(at[k]) = Cardinality(S)
  BY DEF S, l, Newer
<1> HIDE DEF f
<1>7. Cardinality(S) <= Cardinality(T)
  BY <1>3, <1>4, <1>5, Injected
<1> QED BY <1>5, <1>6, <1>7

\* and of any other chat at most one of each rank up to its own.
LEMMA OtherChatsAreNotFar ==
    ASSUME RequestType, Balanced, IsOrder(at), NEW k \in Index, NEW c
    PROVE  Ahead(c, k) <= Newer(at[k]) + 1
<1> DEFINE n == Newer(at[k])
           S == {i \in Index : i < k /\ chatOf[at[i]] = c}
           f == [i \in S |-> Newer(at[i])]
<1>1. n \in Nat
  BY NewerIsNat
<1>2. \A i \in Index : i \in Int /\ at[i] \in Leaders /\ at[i] \in Int
  BY LeadersAreFinite DEF RequestType, Positions
<1>3. ASSUME NEW i \in S PROVE Newer(at[i]) \in 0..n
  <2>1. Precedes(at[i], at[k])
    BY DEF IsOrder, Index
  <2>2. Newer(at[i]) <= n
    BY <1>1, <2>1, NewerIsNat DEF Precedes
  <2> QED BY <1>1, <2>2, NewerIsNat
<1>4. ASSUME NEW i \in S, NEW j \in S, Newer(at[i]) = Newer(at[j]) PROVE i = j
  <2>1. ~(at[i] > at[j]) /\ ~(at[j] > at[i])
    <3>1. at[i] \in Leaders /\ at[j] \in Leaders /\ chatOf[at[i]] = chatOf[at[j]]
      BY <1>2
    <3>2. Newer(at[i]) \in Nat /\ Newer(at[j]) \in Nat
      BY NewerIsNat
    <3>3. ~(Newer(at[i]) < Newer(at[j])) /\ ~(Newer(at[j]) < Newer(at[i]))
      BY <1>4, <3>2
    <3> QED BY <3>1, <3>3, NewerRanks
  <2>2. at[i] = at[j]
    BY <1>2, <2>1
  <2>3. ~(i < j) /\ ~(j < i)
    BY <2>2 DEF IsOrder, Index
  <2> QED BY <1>2, <2>3
<1>5. f \in [S -> 0..n]
  BY <1>3
<1>6. \A i, j \in S : f[i] = f[j] => i = j
  BY <1>4
<1>7. IsFiniteSet(0..n) /\ Cardinality(0..n) = n + 1
  BY <1>1, FS_Interval
<1> HIDE DEF n, S, f
<1>8. Cardinality(S) <= Cardinality(0..n)
  BY <1>5, <1>6, <1>7, Injected
<1>9. Ahead(c, k) = Cardinality(S)
  BY DEF Ahead, S
<1> QED BY <1>7, <1>8, <1>9 DEF n

\* For every number of chats and messages: as long as a chat has clusters left, no
\* other is more than one ahead of it in the request.
THEOREM NoChatDominatesAlways == Spec => []NoChatDominates
<1>1. ASSUME TypeOK, OrderInv PROVE NoChatDominates
  <2> SUFFICES ASSUME Balanced, NEW k \in Index, NEW c \in Chats
               PROVE  Ahead(c, k) <= Ahead(chatOf[at[k]], k) + 1
    BY DEF NoChatDominates
  <2>1. RequestType /\ IsOrder(at)
    BY <1>1 DEF TypeOK, OrderInv
  <2>2. Newer(at[k]) <= Ahead(chatOf[at[k]], k) /\ Ahead(c, k) <= Newer(at[k]) + 1
    BY <2>1, OwnChatIsAhead, OtherChatsAreNotFar
  <2>3. Newer(at[k]) \in Nat /\ Ahead(c, k) \in Nat /\ Ahead(chatOf[at[k]], k) \in Nat
    BY <2>1, NewerIsNat, AheadIsFinite
  <2> QED BY <2>2, <2>3
<1> QED BY <1>1, OrderInit, OrderStep, TypeCorrect, PTL DEF Spec
=============================================================================
