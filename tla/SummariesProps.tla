--------------------------- MODULE SummariesProps ---------------------------
(***************************************************************************)
(* What the way from a collection to its summary must get right.           *)
(***************************************************************************)
EXTENDS Summaries

InputType == /\ chatOf \in [Messages -> Chats]
             /\ dropped \subseteq Messages
             /\ alike \subseteq Pairs

RequestType == /\ Index \subseteq Positions
               /\ at \in [Index -> Leaders]
               /\ DOMAIN first \subseteq Index
               /\ first \in [DOMAIN first -> Index]
               /\ phase \in [Positions -> {"waiting", "asking", "answered", "failed"}]
               /\ attempt \in [Positions -> 0..Retries]

ResultType == /\ DOMAIN topics \subseteq TopicIds
              /\ topics \in [DOMAIN topics -> SUBSET Index]
              /\ excluded \subseteq Index
              /\ pass \in 0..2

\* Inputs, requests, results and rows hold values of their types: the merged
\* result never names a source that was not in the request.
TypeOK == /\ InputType /\ RequestType /\ ResultType
          /\ pc \in Control
          /\ cancelled \in BOOLEAN
          /\ job \in {"none", "processing", "failed", "completed"}
          /\ saved \in BOOLEAN
          /\ faults \in Nat

\* The model is never asked about two messages that the deduplicator finds alike,
\* however many messages came between them.
NothingAskedTwice ==
    \A i, j \in Index : i # j => {at[i], at[j]} \notin alike

Ahead(c, k) == Cardinality({i \in Index : i < k /\ chatOf[at[i]] = c})

\* balanceClustersByChat keeps one busy chat from filling the first batches: as
\* long as a chat has clusters left, no other is more than one ahead of it.
NoChatDominates ==
    Balanced => \A k \in Index, c \in Chats : Ahead(c, k) <= Ahead(chatOf[at[k]], k) + 1

\* Merging topics loses no source and invents none.
MergeKeepsSources ==
    [][pc = "reducing" => Sources' = Sources]_vars

\* When every batch has been answered, only the caller or the database can keep
\* the summary from being saved: the checks of the merged result and of its rows
\* never refuse what the checks of its batches have passed.
CompleteBatchesSuffice ==
    /\ pc = "returned" /\ ~saved
    /\ Batches # {}
    /\ \A b \in Batches : phase[b] = "answered"
    => cancelled \/ faults > 0

\* A call that saves nothing does not leave its job in processing, whoever
\* cancels it (service.go:531-534): nothing else would ever change that row.
FailedJobIsMarked ==
    pc = "returned" /\ ~saved => job # "processing" \/ faults > 0

\* The call returns: no goroutine waits for a slot that nobody gives back.
GenerateReturns == <>(pc = "returned")

-----------------------------------------------------------------------------
Promise == INSTANCE SavedSummary
               WITH kept     <- Kept,
                    state    <- IF saved THEN "saved"
                                ELSE IF pc = "returned" THEN "failed" ELSE "open",
                    used     <- IF saved THEN MessagesOf(Sources) ELSE {},
                    excluded <- IF saved THEN MessagesOf(excluded) ELSE {}

\* The services keep the promise: through clusters, batches, retries, failed
\* batches and merged topics, no kept message is silently left out or counted on
\* both sides.
ImplementsSavedSummary == Promise!Spec
=============================================================================
