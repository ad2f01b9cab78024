---------------------------- MODULE DigestProps ----------------------------
(***************************************************************************)
(* What collection, summaries and read positions must get right.           *)
(***************************************************************************)
EXTENDS Digest, FiniteSets

\* No two runs of the group overlap.
OneRun == \A r, s \in Runs : r = s

\* Telegram, the database and the runs hold values of their types.
TypeOK == /\ posted \in [Chats -> 0..MaxMessages]
          /\ kind \in [Messages -> Kinds]
          /\ viewed \in [Chats -> 0..MaxMessages]
          /\ position \in [Chats -> 0..MaxMessages]
          /\ listed \in [Messages -> 0..MaxListed]
          /\ stored \subseteq [batch : SUBSET Messages, gap : SUBSET Messages]
          /\ missed \subseteq Messages
          /\ pc \in [Runs -> Control]
          /\ mode \in [Runs -> AllModes]
          /\ quota \in [Runs -> [Chats -> Int]]
          /\ batch \in [Runs -> SUBSET Messages]
          /\ gap \in [Runs -> SUBSET Messages]
          /\ todo \in [Runs -> SUBSET Chats]
          /\ chat \in [Runs -> Chats]
          /\ found \in [Runs -> 0..MaxMessages]
          /\ faults \in Nat /\ cuts \in Nat

\* A message the position has passed is not fetched any more, so one that is
\* passed unsummarised is lost.  It has no text, or a run whose newest message was
\* summarised had not seen it: it was beyond the limit, before the time window, or
\* not in a short answer of Telegram.  However runs overlap, fail and are repeated,
\* nothing that a collection has seen is lost.
NothingSkipped ==
    \A c \in Chats, m \in Ids :
        m <= position[c] /\ kind[<<c, m>>] # "blank" => <<c, m>> \in Digested \cup missed

\* The runs are given all there is: they collect new messages, the limit is never
\* in the way, and Telegram answers in full.
Complete == Modes = {"new_only"} /\ MaxMessages <= Limit /\ MaxCuts = 0

\* Needs Complete: every message with text that a position has passed is in a
\* saved summary.
NothingLost ==
    \A c \in Chats, m \in Ids :
        m <= position[c] /\ kind[<<c, m>>] # "blank" => <<c, m>> \in Digested

\* The position is the identifier of a message in a saved summary, in every
\* mode: read_positions advance "only after a later successful summary"
\* (README.md:225).
PositionIsDigested ==
    \A c \in Chats : position[c] = 0 \/ <<c, position[c]>> \in Digested

\* A position moves back, so that messages are summarised again, only in the
\* second statement of a run that was overtaken after its first, and never to
\* before what that run had found.
BackOnlyWhenOvertaken ==
    [][\A c \in Chats : position'[c] < position[c] =>
          \E r \in Runs : /\ pc[r] = "advancing" /\ chat[r] = c
                         /\ found[r] < position[c] /\ found[r] < position'[c]]_position

\* A message goes into one summary, and into one more for each failure between
\* saving a summary and writing the positions.  Needs OneRun, and runs that collect
\* new messages: another mode, or a second summary of a collection, asks for more.
ListedOncePerFault ==
    \A x \in Messages : listed[x] <= 1 + faults

\* A message worth reading is in a saved summary in the end, or passed by a run
\* that had not seen it: whatever fails, the next collection fetches it again.
NewsIsDigested ==
    \A x \in Messages : (kind[x] = "news") ~> (listed[x] > 0 \/ x \in missed)

-----------------------------------------------------------------------------
Ledger == INSTANCE ReadLedger
              WITH texts    <- {x \in Messages : kind[x] # "blank"},
                   digested <- Digested,
                   lost     <- missed,
                   mark     <- position

\* Runs of any mode, however they overlap and are repeated, keep a ledger.
ImplementsReadLedger == Ledger!Spec
=============================================================================
