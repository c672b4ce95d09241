---------------------------- MODULE CloseManager ----------------------------
(***************************************************************************)
(* The CloseManager of closemanager/closemanager.go.  Every method is a    *)
(* function of the manager it is called on: it returns the manager after   *)
(* the call and the CloseAction for the caller, as a record [cm, act].     *)
(*                                                                         *)
(* A close code with its message is one Payload; Truncate is what          *)
(* truncateMessage does to the message in it.  A deadline is kept as the   *)
(* time left until it passes, so that `!now.Before(deadline)' is           *)
(* `deadline = 0'.                                                         *)
(***************************************************************************)
EXTENDS Integers

CONSTANTS
    Payloads,       \* close codes with their messages
    Truncate,       \* truncateMessage, on payloads
    CloseTimeout    \* cm.closeTimeout

\* NewWithTimeout refuses a timeout below its minimum; a message that has been
\* cut fits, and is not cut again.
ASSUME CloseTimeoutAssumption == CloseTimeout \in Nat \ {0}
ASSUME TruncateAssumption ==
    /\ Truncate \in [Payloads -> Payloads]
    /\ \A pl \in Payloads : Truncate[Truncate[pl]] = Truncate[pl]

NoTimer == -1
NoPayload == "none"
ASSUME NoPayloadAssumption == NoPayload \notin Payloads

\* CloseReceived is passed through inside one call, never observed.
CloseStates == {"Open", "LocalCloseSent", "RemoteCloseReceived", "CloseReceived", "Closed"}

FrameTypes == {"DATA", "CLOSE", "ERROR"}

Managers == [state : CloseStates,
             remote : Payloads \cup {NoPayload},
             deadline : 0..CloseTimeout \cup {NoTimer}]

New == [state |-> "Open", remote |-> NoPayload, deadline |-> NoTimer]

IsClosed(cm)    == cm.state = "Closed"
IsClosing(cm)   == cm.state \in {"LocalCloseSent", "RemoteCloseReceived", "CloseReceived"}
TimerActive(cm) == cm.deadline # NoTimer

-----------------------------------------------------------------------------
(* Actions for the caller *)

None == [kind |-> "None", payload |-> NoPayload]
SendCloseFrame(pl) == [kind |-> "SendCloseFrame", payload |-> pl]
CloseQuic == [kind |-> "CloseQuic", payload |-> NoPayload]

Answer(cm, act) == [cm |-> cm, act |-> act]

-----------------------------------------------------------------------------
(* Queries *)

CanSend_DataWhileClosing(cm, ft) ==
    \/ cm.state = "Open"
    \/ cm.state = "LocalCloseSent" /\ ft \in {"DATA", "ERROR"}
    \/ cm.state = "RemoteCloseReceived" /\ ft \in {"CLOSE", "ERROR"}

CanSend(cm, ft) ==
    \/ cm.state = "Open"
    \/ cm.state = "LocalCloseSent" /\ ft = "ERROR"
    \/ cm.state = "RemoteCloseReceived" /\ ft \in {"CLOSE", "ERROR"}

\* DispositionAccept; otherwise DispositionDiscardSilently.
FrameAccepted(cm, ft) ==
    \/ cm.state = "Open"
    \/ cm.state = "LocalCloseSent" /\ ft = "CLOSE"

-----------------------------------------------------------------------------
(* Commands *)

InitiateClose_NoTimer(cm, pl) ==
    IF cm.state # "Open"
    THEN Answer(cm, None)
    ELSE Answer([cm EXCEPT !.state = "LocalCloseSent"], SendCloseFrame(Truncate[pl]))

InitiateClose(cm, pl) ==
    IF cm.state # "Open"
    THEN Answer(cm, None)
    ELSE Answer([cm EXCEPT !.state = "LocalCloseSent", !.deadline = CloseTimeout],
                SendCloseFrame(Truncate[pl]))

OnCloseReceived_NoTimer(cm, pl) ==
    CASE cm.state = "Open" ->
           Answer([state |-> "RemoteCloseReceived", remote |-> Truncate[pl],
                   deadline |-> NoTimer], None)
      [] cm.state = "LocalCloseSent" ->
           Answer([state |-> "Closed", remote |-> Truncate[pl],
                   deadline |-> NoTimer], CloseQuic)
      [] OTHER -> Answer(cm, None)

OnCloseReceived(cm, pl) ==
    CASE cm.state = "Open" ->
           Answer([state |-> "RemoteCloseReceived", remote |-> Truncate[pl],
                   deadline |-> CloseTimeout], None)
      [] cm.state = "LocalCloseSent" ->
           Answer([state |-> "Closed", remote |-> Truncate[pl],
                   deadline |-> NoTimer], CloseQuic)
      [] OTHER -> Answer(cm, None)

RespondClose_FromAnyClosing(cm, pl) ==
    IF ~IsClosing(cm)
    THEN Answer(cm, None)
    ELSE Answer([cm EXCEPT !.state = "Closed", !.deadline = NoTimer],
                SendCloseFrame(Truncate[pl]))

RespondClose_Echo(cm, pl) ==
    IF cm.state # "RemoteCloseReceived"
    THEN Answer(cm, None)
    ELSE Answer([cm EXCEPT !.state = "Closed", !.deadline = NoTimer],
                SendCloseFrame(cm.remote))

RespondClose(cm, pl) ==
    IF cm.state # "RemoteCloseReceived"
    THEN Answer(cm, None)
    ELSE Answer([cm EXCEPT !.state = "Closed", !.deadline = NoTimer],
                SendCloseFrame(Truncate[pl]))

\* OnFatalErrorReceived, OnTransportReset and Abort share their body.
CloseNow(cm) ==
    IF IsClosed(cm)
    THEN Answer(cm, None)
    ELSE Answer([cm EXCEPT !.state = "Closed", !.deadline = NoTimer], CloseQuic)

OnFatalErrorReceived(cm) == CloseNow(cm)

OnTransportReset(cm) == CloseNow(cm)

Abort(cm) == CloseNow(cm)

OnTimeout_Silent(cm) ==
    IF cm.state \in {"LocalCloseSent", "RemoteCloseReceived"}
    THEN Answer([cm EXCEPT !.state = "Closed", !.deadline = NoTimer], None)
    ELSE Answer(cm, None)

OnTimeout(cm) ==
    IF cm.state \in {"LocalCloseSent", "RemoteCloseReceived"}
    THEN Answer([cm EXCEPT !.state = "Closed", !.deadline = NoTimer], CloseQuic)
    ELSE Answer(cm, None)

CheckTimer(cm) == IF cm.deadline = 0 THEN OnTimeout(cm) ELSE Answer(cm, None)
=============================================================================
