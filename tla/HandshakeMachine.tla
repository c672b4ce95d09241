-------------------------- MODULE HandshakeMachine --------------------------
(***************************************************************************)
(* The client and server handshake state machines of                       *)
(* handshake/state_machine.go.  The two have the same shape: nine states   *)
(* in a row, a graceful shutdown and an abort; what differs is kept in the *)
(* operators that take the role.                                           *)
(*                                                                         *)
(* A machine is [state, left, hello, finished]: `left' is the time left    *)
(* until m.deadline, `hello' is serverHelloReceived (client) or            *)
(* clientHelloReceived (server), `finished' is clientFinishedReceived.     *)
(* DATA stands for the five frame types that every state treats alike      *)
(* (DATA, RPC_REQUEST, RPC_RESPONSE, PING, PONG).                          *)
(***************************************************************************)
EXTENDS Integers

CONSTANTS
    HandshakeTimeout,   \* m.handshakeTimeout
    CloseTimeout        \* m.closeTimeout

ASSUME TimeoutAssumption ==
    HandshakeTimeout \in Nat \ {0} /\ CloseTimeout \in Nat \ {0}

Roles == {"client", "server"}

ClientStates == <<"Idle", "Connecting", "ChSent", "ShVerified", "CfSent",
                  "Authorized", "Messaging", "Closing", "Closed">>

ServerStates == <<"Listening", "TransportReady", "ChVerified", "ShSent",
                  "CfVerified", "Authorized", "Messaging", "Closing", "Closed">>

StatesOf(role) == IF role = "client" THEN ClientStates ELSE ServerStates

FrameTypes == {"DATA", "HANDSHAKE", "CLOSE", "ERROR"}

-----------------------------------------------------------------------------
(* Queries on a state *)

\* Forward along the row, graceful shutdown from the second to the sixth
\* state, abort from every state but the last two (Closing leads to Closed
\* forward).
CanMove(row, s, next) ==
    \E i \in 1..8 :
        /\ row[i] = s
        /\ \/ next = row[i + 1]
           \/ i \in 2..6 /\ next = "Closing"
           \/ i \in 1..7 /\ next = "Closed"

ClientCanTransitionTo(s, next) == CanMove(ClientStates, s, next)

ServerCanTransitionTo(s, next) == CanMove(ServerStates, s, next)

CanTransitionTo_Always(role, s, next) == s # next

CanTransitionTo(role, s, next) ==
    IF role = "client" THEN ClientCanTransitionTo(s, next)
                       ELSE ServerCanTransitionTo(s, next)

IsTerminal(s) == s = "Closed"

IsMessagingActive_Verified(s) == s \in {"ShVerified", "CfSent", "Authorized", "Messaging"}

IsMessagingActive(s) == s = "Messaging"

ClientIsIdentityVerified(s) ==
    s \in {"ShVerified", "CfSent", "Authorized", "Messaging", "Closing"}

ServerIsIdentityVerified(s) ==
    s \in {"ChVerified", "ShSent", "CfVerified", "Authorized", "Messaging", "Closing"}

IsIdentityVerified(role, s) ==
    IF role = "client" THEN ClientIsIdentityVerified(s) ELSE ServerIsIdentityVerified(s)

ClientAllowedFrameTypes(s) ==
    CASE s = "ChSent" -> {"HANDSHAKE", "ERROR"}
      [] s \in {"ShVerified", "CfSent"} -> {"ERROR"}
      [] s \in {"Authorized", "Messaging"} -> {"DATA", "CLOSE", "ERROR"}
      [] s = "Closing" -> {"CLOSE"}
      [] OTHER -> {}

ServerAllowedFrameTypes(s) ==
    CASE s \in {"TransportReady", "ChVerified", "ShSent"} -> {"HANDSHAKE", "ERROR"}
      [] s \in {"CfVerified", "Authorized"} -> {"ERROR"}
      [] s = "Messaging" -> {"DATA", "CLOSE", "ERROR"}
      [] s = "Closing" -> {"CLOSE"}
      [] OTHER -> {}

\* In Closing and Closed everything but an allowed frame is discarded.
Disposition(allowed, s, ft) ==
    CASE ft \in allowed -> "Accept"
      [] ft \notin allowed /\ s \in {"Closing", "Closed"} -> "DiscardSilently"
      [] OTHER -> "RejectWithError"

ClientFrameDisposition(s, ft) == Disposition(ClientAllowedFrameTypes(s), s, ft)

ServerFrameDisposition(s, ft) == Disposition(ServerAllowedFrameTypes(s), s, ft)

FrameDisposition(role, s, ft) ==
    IF role = "client" THEN ClientFrameDisposition(s, ft)
                       ELSE ServerFrameDisposition(s, ft)

-----------------------------------------------------------------------------
(* The machine *)

NoDeadline == -2        \* !m.hasDeadline
Overdue    == -1        \* time.Now().After(m.deadline)

NewMachine(start) == [state |-> start, left |-> NoDeadline,
                      hello |-> FALSE, finished |-> FALSE]

NewClientHandshakeMachine == NewMachine("Idle")

NewServerHandshakeMachine == NewMachine("Listening")

\* The states in which a machine waits for its peer.
Waiting(role) == IF role = "client" THEN {"Connecting", "ChSent", "Closing"}
                                    ELSE {"TransportReady", "ShSent", "Closing"}

Deadline_ForgetsSecond(role, m, next) ==
    CASE next \in {"Connecting", "TransportReady"} -> HandshakeTimeout
      [] next = "Closing" -> CloseTimeout
      [] next = "Closed" -> NoDeadline
      [] OTHER -> NoDeadline

\* The deadline is set on entering a waiting state and cleared on Closed; any
\* other transition keeps the one there is.
Deadline(role, m, next) ==
    CASE next \in Waiting(role) \ {"Closing"} -> HandshakeTimeout
      [] next = "Closing" -> CloseTimeout
      [] next = "Closed" -> NoDeadline
      [] OTHER -> m.left

\* TransitionTo, once CanTransitionTo has allowed it.  Duplicate tracking
\* restarts in ChSent and in TransportReady.
ClientTransitionTo(m, next) ==
    [m EXCEPT !.state = next,
              !.left = Deadline("client", m, next),
              !.hello = @ /\ next # "ChSent"]

ServerTransitionTo(m, next) ==
    [m EXCEPT !.state = next,
              !.left = Deadline("server", m, next),
              !.hello = @ /\ next # "TransportReady",
              !.finished = @ /\ next # "TransportReady"]

TransitionTo(role, m, next) ==
    IF role = "client" THEN ClientTransitionTo(m, next) ELSE ServerTransitionTo(m, next)

\* CheckTimeout returns an error.
TimedOut(m) == m.left = Overdue

\* OnServerHelloReceived, OnClientHelloReceived and OnClientFinishedReceived
\* return an error when the flag is already set.
IsDuplicate_Never(m, msg) == FALSE

IsDuplicate(m, msg) == IF msg = "ClientFinished" THEN m.finished ELSE m.hello

MarkReceived(m, msg) ==
    IF msg = "ClientFinished" THEN [m EXCEPT !.finished = TRUE]
                              ELSE [m EXCEPT !.hello = TRUE]

Elapse(m) == [m EXCEPT !.left = IF @ >= 0 THEN @ - 1 ELSE @]
=============================================================================
