--------------------------- MODULE TelegramClient ---------------------------
(***************************************************************************)
(* The TDLib client of the one session directory                           *)
(* (internal/telegram/tdlib/client.go): a handle on TDLib that is opened   *)
(* by whichever method needs it, and what the client believes of the       *)
(* authorization.  Every method holds the mutex of the client, so it is a  *)
(* function from one state of the client to the next.                      *)
(*                                                                         *)
(* TDLib tells of its authorization by updates in the queue the answers    *)
(* come through, an update before the answer it belongs to.  The client    *)
(* learns of an update when one of its methods receives.                   *)
(***************************************************************************)
EXTENDS FiniteSets

Stages == {"waitPhone", "waitCode", "waitPassword", "ready", "closed"}

\* authState before the first update of a handle is unknown.
AuthStates == Stages \cup {"unknown"}

Client == [files     : {"none", "blank", "saved"}, \* the session directory; saved: with the database of td
           td        : Stages,     \* TDLib's own state, which it keeps in the database
           handle    : BOOLEAN,
           authState : AuthStates,
           queued    : BOOLEAN,    \* an update of td is not received yet
           cached    : BOOLEAN]    \* haveFolders

NewNativeClient(files, td) ==
    [files |-> files, td |-> td, handle |-> FALSE, authState |-> "unknown",
     queued |-> FALSE, cached |-> FALSE]

MkdirAll(c) == [c EXCEPT !.files = IF @ = "none" THEN "blank" ELSE @]

\* A new handle goes on where the database ends, or starts afresh.
ensureHandle(c) ==
    IF c.handle THEN c
    ELSE [c EXCEPT !.handle = TRUE, !.files = "saved",
                   !.td = IF c.files = "saved" /\ @ # "closed" THEN @ ELSE "waitPhone",
                   !.authState = "unknown", !.queued = TRUE]

updateAuthorizationFrom(c) == [c EXCEPT !.authState = c.td, !.queued = FALSE]

\* Updates are received until one tells of the authorization.
waitAuthorizationState(c) == updateAuthorizationFrom(c)

\* Parameters and key are sent as TDLib asks for them, until it needs the owner.
advanceAuthorization(c) ==
    IF c.authState = "unknown" THEN waitAuthorizationState(c) ELSE c

\* A request is answered after the updates that precede its answer.  TDLib without
\* its parameters refuses it.
sendAndWait(c) ==
    LET e == ensureHandle(c)
    IN  IF e.authState = "unknown" THEN e ELSE updateAuthorizationFrom(e)

\* Start, and AuthorizationState, which returns authState.
Started(c) == advanceAuthorization(ensureHandle(c))

\* What TDLib makes of an input in each of its states: none when it refuses it.
Accepts(input, t) ==
    CASE input = "phone"    /\ t = "waitPhone"    -> {"waitCode"}
      [] input = "code"     /\ t = "waitCode"     -> {"waitPassword", "ready"}
      [] input = "password" /\ t = "waitPassword" -> {"ready"}
      [] OTHER -> {}

\* The client after TDLib took an input and went on to stage t.
submitAuth(c, t) == advanceAuthorization(sendAndWait([Started(c) EXCEPT !.td = t]))

\* TDLib took it and its answer is not waited for.
Unanswered(c, t) == [Started(c) EXCEPT !.td = t, !.queued = TRUE]

\* Stop destroys the handle even when close is answered by an error.
Stopped(c) ==
    IF c.handle THEN [c EXCEPT !.handle = FALSE, !.authState = "closed", !.queued = FALSE] ELSE c

StopSucceeds(c) == c.handle => c.td # "closed"

\* The updates until the folders arrive or two seconds are over: one that tells of
\* the authorization is dropped.
waitChatFolders(c) ==
    LET heard == {c, [c EXCEPT !.queued = FALSE]}
    IN  heard \cup {[d EXCEPT !.cached = TRUE] : d \in heard}

ListFolders(c) == IF c.cached THEN {c} ELSE waitChatFolders(c)

\* Chats are loaded by requests that only an authorized TDLib answers.
loadChats(c) == sendAndWait(c)

Answers(c) == c.handle /\ c.authState # "unknown" /\ c.td = "ready"

\* Another device ends the session: TDLib closes and its database is destroyed.
LoggedOut(c) == [c EXCEPT !.td = "closed", !.queued = TRUE,
                          !.files = IF @ = "saved" THEN "blank" ELSE @]
=============================================================================
