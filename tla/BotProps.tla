------------------------------ MODULE BotProps ------------------------------
(***************************************************************************)
(* What the owner must be able to rely on in the bot's chat.               *)
(***************************************************************************)
EXTENDS Bot

\* Type invariant: the dialog is a view the router knows, screens and tasks are well formed.
TypeOK ==
    /\ dialog \in Dialogs
    /\ groups \subseteq Groups
    /\ chat \in [Messages -> [menu : SUBSET Offered, busy : BOOLEAN]]
    /\ tasks \in [Tasks -> [message : Messages \cup {OutOfSight}, button : Offered] \cup {Idle}]
    /\ \A t \in Tasks : tasks[t] # Idle => isAsync(tasks[t].button)
    /\ job \in {"none", "queued"} \cup Settled
    /\ asked \in Questions /\ beside \in Questions
    /\ orphaned \subseteq Messages

\* What the bot's last question was, with the dialog or beside it.
LastQuestion == IF beside = NoText THEN asked ELSE beside

\* A typed text is given to Telegram's login or to a group only when that is what the bot last
\* asked for, and no longer once it got its answer; commands, buttons, tasks and a restart in
\* between do not change what a text means.  A question of the status, or of /phone, /password
\* and /group_add_public that lack what they need, is not the dialog's: until the dialog is
\* asked again, a text is then for the question before it, whose dialog is still open
\* (handleDialogInput, showAuthPrompt, showAuthStatus, the prompts).
TextAnswersQuestion ==
    \A x \in handleDialogInput(dialog, groups) :
        x.took \in {NoText, LastQuestion} \/ (beside # NoText /\ x.took = asked)

\* A message that says work is under way has a goroutine that will write over it, unless a call
\* to Telegram failed or the bot was restarted (handleUpdate, runAsync..., Send).
ProgressMeansWork ==
    \A m \in Messages : chat[m].busy => m \in orphaned \/ Writers(m) # {}

\* Work shown as under way gets its result or an error (asyncLLMOperationTimeout).
ProgressEnds == \A m \in Messages : chat[m].busy ~> (~chat[m].busy \/ m \in orphaned)

\* The loop gets back to the owner's updates after each summary a command asked for: every way
\* the job can end is recognised (waitForSummaryJob).
LoopComesBack == job # "none" ~> Free
=============================================================================
