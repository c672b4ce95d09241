-------------------------- MODULE HandshakeSession --------------------------
(***************************************************************************)
(* One connection between a client and a server handshake machine.  The    *)
(* drivers that own the machines are not part of the repository; they use  *)
(* them the way the tests and the comments of state_machine.go do:         *)
(*   - every incoming frame first gets its FrameDisposition;               *)
(*   - a handshake message is marked received (a duplicate is refused) and *)
(*     verified; the verification, like the authorization of the peer,     *)
(*     takes time, and calls TransitionTo when it is done, whatever has    *)
(*     become of the machine meanwhile;                                    *)
(*   - whatever is refused is answered with ERROR and the machine aborts;  *)
(*   - CheckTimeout is polled in the waiting states, and a timeout aborts. *)
(* A driver reads whenever there is a connection, whatever it has under    *)
(* way: AllowedFrameTypes says for every state what it may meet then.      *)
(* Frames arrive in order.  A peer may send a handshake message twice, and *)
(* the connection may fail at any time.                                    *)
(***************************************************************************)
EXTENDS HandshakeMachine, Sequences

CONSTANT QueueBound     \* frames under way before an endpoint holds back

VARIABLES
    machine,        \* the handshake machine of each role
    queue,          \* frames on their way to each role
    link,           \* whether the connection works
    pending,        \* states that work under way will ask TransitionTo for
    verified,       \* history: has the role verified its peer's hello
    handled         \* history: handshake messages each role went to verify

vars == <<machine, queue, link, pending, verified, handled>>
history == <<verified, handled>>

Peer(r) == IF r = "client" THEN "server" ELSE "client"

Handshake(msg, valid) == [type |-> "HANDSHAKE", msg |-> msg, valid |-> valid]
Plain(ft) == [type |-> ft, msg |-> "none", valid |-> TRUE]

Messages == {"ClientHello", "ServerHello", "ClientFinished"}

Frames == {Handshake(msg, valid) : msg \in Messages, valid \in BOOLEAN}
              \cup {Plain(ft) : ft \in {"DATA", "CLOSE", "ERROR"}}

Init ==
    /\ machine = [client |-> NewClientHandshakeMachine,
                  server |-> NewServerHandshakeMachine]
    /\ queue = [r \in Roles |-> <<>>]
    /\ link = "up"
    /\ pending = [r \in Roles |-> {}]
    /\ verified = [r \in Roles |-> FALSE]
    /\ handled = [r \in Roles |-> <<>>]

-----------------------------------------------------------------------------
State(r) == machine[r].state

\* `queues' with the frames fs sent by r.
Send(queues, r, fs) ==
    IF link = "up" THEN [queues EXCEPT ![Peer(r)] = @ \o fs] ELSE queues

Rest(r) == [queue EXCEPT ![r] = Tail(@)]

Enter(r, next) == machine' = [machine EXCEPT ![r] = TransitionTo(r, @, next)]

Await(r, next) == pending' = [pending EXCEPT ![r] = @ \cup {next}]

\* Move on one state, sending fs.
Advance(r, from, next, fs) ==
    /\ State(r) = from
    /\ CanTransitionTo(r, from, next)
    /\ Enter(r, next)
    /\ queue' = Send(queue, r, fs)
    /\ UNCHANGED <<link, history>>

Connect          == Advance("client", "Idle", "Connecting", <<>>) /\ UNCHANGED pending
AcceptTransport  == Advance("server", "Listening", "TransportReady", <<>>) /\ UNCHANGED pending

SendClientHello  == \E v \in BOOLEAN :
    /\ Advance("client", "Connecting", "ChSent", <<Handshake("ClientHello", v)>>)
    /\ UNCHANGED pending

SendServerHello  == \E v \in BOOLEAN :
    /\ Advance("server", "ChVerified", "ShSent", <<Handshake("ServerHello", v)>>)
    /\ UNCHANGED pending

\* ClientFinished goes out and the authorization of the server starts.
SendClientFinished == \E v \in BOOLEAN :
    /\ Advance("client", "ShVerified", "CfSent", <<Handshake("ClientFinished", v)>>)
    /\ Await("client", "Authorized")

StartMessaging(r) == Advance(r, "Authorized", "Messaging", <<>>) /\ UNCHANGED pending

\* Graceful shutdown: send CLOSE and wait for the peer's.
StartClosing(r) ==
    /\ Advance(r, State(r), "Closing", <<Plain("CLOSE")>>)
    /\ UNCHANGED pending

SendData(r) ==
    /\ IsMessagingActive(State(r))
    /\ Len(queue[Peer(r)]) < QueueBound
    /\ queue' = Send(queue, r, <<Plain("DATA")>>)
    /\ UNCHANGED <<machine, link, pending, history>>

-----------------------------------------------------------------------------
(* Incoming frames *)

\* The driver reads the next frame f, of disposition d.
Read(r, f, d) ==
    /\ State(r) # StatesOf(r)[1]
    /\ queue[r] # <<>>
    /\ f = Head(queue[r])
    /\ FrameDisposition(r, State(r), f.type) = d

\* Abort: TransitionTo(Closed), after an ERROR frame.
Refuse(r) ==
    /\ Enter(r, "Closed")
    /\ queue' = Send(Rest(r), r, <<Plain("ERROR")>>)

\* The state a role reaches by verifying a handshake message.
VerifiedState(msg) ==
    CASE msg = "ServerHello" -> "ShVerified"
      [] msg = "ClientHello" -> "ChVerified"
      [] msg = "ClientFinished" -> "CfVerified"

\* A message that was not seen before is marked and goes to verification; a
\* duplicate is refused.
ReceiveHandshake(r, f) ==
    /\ Read(r, f, "Accept")
    /\ f.type = "HANDSHAKE"
    /\ \/ /\ IsDuplicate(machine[r], f.msg)
          /\ Refuse(r)
          /\ UNCHANGED <<pending, handled>>
       \/ /\ ~IsDuplicate(machine[r], f.msg)
          /\ machine' = [machine EXCEPT ![r] = MarkReceived(@, f.msg)]
          /\ queue' = Rest(r)
          /\ handled' = [handled EXCEPT ![r] = Append(@, f.msg)]
          /\ Await(r, IF f.valid THEN VerifiedState(f.msg) ELSE "Closed")
    /\ UNCHANGED <<link, verified>>

\* Verification or authorization is done and asks for its transition.  An
\* error of TransitionTo leaves the machine alone; a failed verification
\* sends ERROR and aborts; a verified ClientFinished starts authorization.
Complete(r, next) ==
    /\ next \in pending[r]
    /\ LET left == pending[r] \ {next}
           ok == CanTransitionTo(r, State(r), next)
       IN  /\ machine' = IF ok THEN [machine EXCEPT ![r] = TransitionTo(r, @, next)]
                               ELSE machine
           /\ queue' = IF ok /\ next = "Closed" THEN Send(queue, r, <<Plain("ERROR")>>)
                                                ELSE queue
           /\ verified' = [verified EXCEPT ![r] =
                 @ \/ (ok /\ next \in {"ShVerified", "ChVerified"})]
           /\ pending' = [pending EXCEPT ![r] =
                 IF ok /\ next = "CfVerified" THEN left \cup {"Authorized"} ELSE left]
    /\ UNCHANGED <<link, handled>>

\* CLOSE ends a Closing machine; a Messaging one answers and closes.
ReceiveClose(r, f) ==
    /\ Read(r, f, "Accept")
    /\ f.type = "CLOSE"
    /\ \/ /\ State(r) = "Closing"
          /\ Enter(r, "Closed")
          /\ queue' = Rest(r)
       \/ /\ State(r) # "Closing"
          /\ machine' = [machine EXCEPT ![r] =
                TransitionTo(r, TransitionTo(r, @, "Closing"), "Closed")]
          /\ queue' = Send(Rest(r), r, <<Plain("CLOSE")>>)
    /\ UNCHANGED <<link, pending, history>>

ReceiveError(r, f) ==
    /\ Read(r, f, "Accept")
    /\ f.type = "ERROR"
    /\ Enter(r, "Closed")
    /\ queue' = Rest(r)
    /\ UNCHANGED <<link, pending, history>>

ReceiveData(r, f) ==
    /\ Read(r, f, "Accept")
    /\ f.type = "DATA"
    /\ queue' = Rest(r)
    /\ UNCHANGED <<machine, link, pending, history>>

Reject(r, f) ==
    /\ Read(r, f, "RejectWithError")
    /\ Refuse(r)
    /\ UNCHANGED <<link, pending, history>>

Discard(r, f) ==
    /\ Read(r, f, "DiscardSilently")
    /\ queue' = Rest(r)
    /\ UNCHANGED <<machine, link, pending, history>>

-----------------------------------------------------------------------------
(* Time and failures *)

AbortMachine(r) ==
    /\ CanTransitionTo(r, State(r), "Closed")
    /\ Enter(r, "Closed")
    /\ UNCHANGED <<queue, link, pending, history>>

Timeout(r) ==
    /\ State(r) \in Waiting(r)
    /\ TimedOut(machine[r])
    /\ AbortMachine(r)

\* The connection is gone, or the application gives up.
GiveUp(r) == State(r) # StatesOf(r)[1] /\ AbortMachine(r)

Tick ==
    /\ \E r \in Roles : machine[r].left >= 0
    /\ machine' = [r \in Roles |-> Elapse(machine[r])]
    /\ UNCHANGED <<queue, link, pending, history>>

LinkFails ==
    /\ link = "up"
    /\ link' = "down"
    /\ \E n \in 0..Len(queue["client"]), k \in 0..Len(queue["server"]) :
          queue' = [client |-> SubSeq(queue["client"], 1, n),
                    server |-> SubSeq(queue["server"], 1, k)]
    /\ UNCHANGED <<machine, pending, history>>

\* A peer sends its handshake message once more.
SendAgain(r) ==
    /\ queue[r] # <<>> /\ Len(queue[r]) < QueueBound /\ link = "up"
    /\ Head(queue[r]).type = "HANDSHAKE"
    /\ queue' = [queue EXCEPT ![r] = Append(@, Head(@))]
    /\ UNCHANGED <<machine, link, pending, history>>

OwnSteps ==
    \/ SendClientHello \/ SendServerHello \/ SendClientFinished
    \/ \E r \in Roles :
          StartMessaging(r) \/ \E next \in pending[r] : Complete(r, next)

Next ==
    \/ Connect \/ AcceptTransport \/ OwnSteps
    \/ \E r \in Roles :
          \/ StartClosing(r) \/ SendData(r) \/ SendAgain(r)
          \/ Timeout(r) \/ GiveUp(r)
          \/ \E f \in Frames :
                \/ ReceiveHandshake(r, f) \/ ReceiveClose(r, f)
                \/ ReceiveError(r, f) \/ ReceiveData(r, f)
                \/ Reject(r, f) \/ Discard(r, f)
    \/ Tick \/ LinkFails

Spec == Init /\ [][Next]_vars

\* Drivers take the steps that depend on nobody else, time passes and timeouts
\* are polled.  Nothing has to be delivered, and nobody has to connect.
Fairness ==
    /\ WF_vars(OwnSteps)
    /\ WF_vars(Tick)
    /\ \A r \in Roles : WF_vars(Timeout(r))

FairSpec == Spec /\ Fairness

-----------------------------------------------------------------------------
(* Properties *)

\* Every variable has its type; a waiting state always has a deadline and a
\* closed machine none.
TypeOK ==
    /\ \A r \in Roles :
          /\ \E i \in 1..9 : machine[r].state = StatesOf(r)[i]
          /\ machine[r].left \in NoDeadline..(HandshakeTimeout + CloseTimeout)
          /\ machine[r].hello \in BOOLEAN /\ machine[r].finished \in BOOLEAN
          /\ State(r) \in Waiting(r) => machine[r].left # NoDeadline
          /\ State(r) = "Closed" => machine[r].left = NoDeadline
          /\ \A i \in 1..Len(queue[r]) : queue[r][i] \in Frames
          /\ verified[r] \in BOOLEAN
    /\ link \in {"up", "down"}

\* Both sides went through exactly the messages of the protocol, in order and
\* once: a server past ClientFinished, and a client past ServerHello, handled
\* them so, and the other side is at least as far as that takes, whatever was
\* sent twice (OnServerHelloReceived, OnClientHelloReceived,
\* OnClientFinishedReceived, CanTransitionTo).  IsIdentityVerified is right in
\* every state but Closing, which may be entered before any verification.
ExactExchange ==
    /\ State("server") \in {"CfVerified", "Authorized", "Messaging"} =>
          /\ handled["server"] = <<"ClientHello", "ClientFinished">>
          /\ handled["client"] = <<"ServerHello">>
          /\ verified["server"] /\ verified["client"]
          /\ State("client") \in {"CfSent", "Authorized", "Messaging", "Closing", "Closed"}
    /\ State("client") \in {"ShVerified", "CfSent", "Authorized", "Messaging"} =>
          /\ handled["client"] = <<"ServerHello">>
          /\ verified["server"] /\ verified["client"]
    /\ \A r \in Roles :
          IsIdentityVerified(r, State(r)) /\ State(r) # "Closing" => verified[r]

\* A machine that began to close never works again, although verifications
\* and authorizations that were under way still report their success
\* (CanTransitionTo is false from Closing and Closed to anything else).
NoRevival ==
    [][\A r \in Roles :
          /\ State(r) = "Closing" => State(r)' \in {"Closing", "Closed"}
          /\ State(r) = "Closed" => State(r)' = "Closed"]_vars

\* The next frame to r is application data.
DataNext(r) == queue[r] # <<>> /\ Head(queue[r]).type = "DATA"

\* Application data is answered with RejectWithError, which ends the
\* connection, by nobody but an end that has read all its peer's handshake
\* messages and is still at work on them: a client that authorizes the server,
\* a server that verifies ClientFinished, authorizes, or has yet to enter
\* Messaging (FrameDisposition, AllowedFrameTypes, IsMessagingActive).  Data
\* never overtakes the handshake.
DataRejectedOnlyEarly ==
    \A r \in Roles :
        DataNext(r) /\ FrameDisposition(r, State(r), "DATA") = "RejectWithError" =>
            IF r = "client" THEN State(r) = "CfSent"
            ELSE machine[r].finished /\ State(r) \in {"ShSent", "CfVerified", "Authorized"}

\* A handshake that has begun ends in Messaging or Closed, and a shutdown in
\* Closed, whatever is lost (CheckTimeout, state_machine.go:460-477, 629-646).
HandshakeEnds ==
    \A r \in Roles :
        /\ State(r) \in {StatesOf(r)[i] : i \in 2..6}
              ~> State(r) \in {"Messaging", "Closing", "Closed"}
        /\ State(r) = "Closing" ~> State(r) = "Closed"
=============================================================================
