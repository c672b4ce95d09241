----------------------- MODULE HandshakeSessionProofs -----------------------
(***************************************************************************)
(* Proofs about HandshakeSession, for all timeouts and any queue bound.    *)
(***************************************************************************)
EXTENDS HandshakeSession, TLAPS

-----------------------------------------------------------------------------
(* The inductive invariant *)

AllStates == {ClientStates[i] : i \in 1..9} \cup {ServerStates[i] : i \in 1..9}

Machines ==
    [state : AllStates, left : NoDeadline..(HandshakeTimeout + CloseTimeout),
     hello : BOOLEAN, finished : BOOLEAN]

\* The states that work under way may ask for.
Outcomes == {"ShVerified", "ChVerified", "CfVerified", "Authorized", "Closed"}

Typed ==
    /\ machine \in [Roles -> Machines]
    /\ queue \in [Roles -> Seq(Frames)]
    /\ link \in {"up", "down"}
    /\ pending \in [Roles -> SUBSET Outcomes]
    /\ verified \in [Roles -> BOOLEAN]
    /\ handled \in [Roles -> Seq(Messages)]

\* A machine is in one of its role's states; it has a deadline while it waits
\* and none when it is closed.
Timed ==
    \A r \in Roles :
        /\ State(r) \in {StatesOf(r)[i] : i \in 1..9}
        /\ State(r) \in Waiting(r) => machine[r].left # NoDeadline
        /\ State(r) = "Closed" => machine[r].left = NoDeadline

\* The server has come to send ServerHello, the client ClientFinished; neither
\* goes back behind that.
ServerHelloSent ==
    /\ verified["server"]
    /\ State("server") \in
          {"ShSent", "CfVerified", "Authorized", "Messaging", "Closing", "Closed"}

ClientFinishedSent ==
    /\ machine["client"].hello /\ verified["client"]
    /\ State("client") \in {"CfSent", "Authorized", "Messaging", "Closing", "Closed"}

\* The server has gone to verify ClientFinished, or does not care any more.
ClientFinishedArrived ==
    machine["server"].finished \/ State("server") \in {"Closing", "Closed"}

\* The client's flag tells what it has handled, and its state what was verified.
ClientFlags ==
    /\ State("client") \in {"Idle", "Connecting"} => ~machine["client"].hello
    /\ "ShVerified" \in pending["client"] => machine["client"].hello
    /\ State("client") \in {"ShVerified", "CfSent", "Authorized", "Messaging"} =>
          machine["client"].hello /\ verified["client"]
    /\ machine["client"].hello =>
          handled["client"] = <<"ServerHello">> /\ ServerHelloSent
    /\ ~machine["client"].hello => handled["client"] = <<>>

\* The same for the two flags of the server.
ServerFlags ==
    /\ State("server") = "Listening" => ~machine["server"].hello
    /\ "ChVerified" \in pending["server"] => machine["server"].hello
    /\ "CfVerified" \in pending["server"] => machine["server"].finished
    /\ verified["server"] => machine["server"].hello
    /\ State("server") \in {"ChVerified", "ShSent", "CfVerified", "Authorized", "Messaging"} =>
          verified["server"]
    /\ State("server") \in {"CfVerified", "Authorized", "Messaging"} =>
          machine["server"].finished
    /\ machine["server"].finished => machine["server"].hello /\ ClientFinishedSent
    /\ ~machine["server"].hello => handled["server"] = <<>>
    /\ machine["server"].hello /\ ~machine["server"].finished =>
          handled["server"] = <<"ClientHello">>
    /\ machine["server"].finished => handled["server"] = <<"ClientHello", "ClientFinished">>

\* What is under way to the client says how far the two are.
ToClient ==
    \A i \in 1..Len(queue["client"]) :
        /\ queue["client"][i].msg \in {"none", "ServerHello"}
        /\ queue["client"][i].msg = "ServerHello" => ServerHelloSent
        /\ queue["client"][i].type = "DATA" => ClientFinishedSent

\* To the server, data travels behind ClientFinished.
ToServer ==
    \A i \in 1..Len(queue["server"]) :
        /\ queue["server"][i].msg \in {"none", "ClientHello", "ClientFinished"}
        /\ queue["server"][i].msg = "ClientFinished" => ClientFinishedSent
        /\ queue["server"][i].type = "DATA" =>
              \/ ClientFinishedArrived
              \/ \E j \in 1..(i - 1) : queue["server"][j].msg = "ClientFinished"

\* While the connection works, what the client has sent is not lost.
FinishedUnderWay ==
    (link = "up" /\ State("client") \in {"CfSent", "Authorized", "Messaging"}) =>
        \/ ClientFinishedArrived
        \/ \E j \in 1..Len(queue["server"]) : queue["server"][j].msg = "ClientFinished"

IndInv ==
    /\ Typed /\ Timed
    /\ ClientFlags /\ ServerFlags
    /\ ToClient /\ ToServer /\ FinishedUnderWay

-----------------------------------------------------------------------------
(* Moves of a machine *)

\* A machine stays, shuts down, or goes one state forward.
Forward(r) ==
    IF r = "client"
    THEN {<<"Idle", "Connecting">>, <<"Connecting", "ChSent">>, <<"ChSent", "ShVerified">>,
          <<"ShVerified", "CfSent">>, <<"CfSent", "Authorized">>, <<"Authorized", "Messaging">>}
    ELSE {<<"Listening", "TransportReady">>, <<"TransportReady", "ChVerified">>,
          <<"ChVerified", "ShSent">>, <<"ShSent", "CfVerified">>,
          <<"CfVerified", "Authorized">>, <<"Authorized", "Messaging">>}

Legal(r, s, t) ==
    \/ t = s
    \/ t = "Closed"
    \/ t = "Closing" /\ s # "Closed"
    \/ <<s, t>> \in Forward(r)

\* CanTransitionTo allows nothing else (state_machine.go:69-120, 230-281).
LEMMA MovesAreLegal ==
    ASSUME NEW r \in Roles, NEW s, NEW t, CanTransitionTo(r, s, t)
    PROVE  Legal(r, s, t) /\ s # t /\ s # "Closed" /\ t \in {StatesOf(r)[i] : i \in 1..9}
<1>1. CASE r = "client"
  <2>1. PICK i \in 1..8 :
           /\ ClientStates[i] = s
           /\ \/ t = ClientStates[i + 1]
              \/ i \in 2..6 /\ t = "Closing"
              \/ i \in 1..7 /\ t = "Closed"
    BY <1>1 DEF CanTransitionTo, ClientCanTransitionTo, CanMove
  <2>2. t \in {ClientStates[j] : j \in 1..9}
    BY <2>1 DEF ClientStates
  <2>3. Legal(r, s, t) /\ s # t /\ s # "Closed"
    BY <1>1, <2>1 DEF ClientStates, Legal, Forward
  <2>4. QED
    BY <1>1, <2>2, <2>3 DEF StatesOf
<1>2. CASE r = "server"
  <2>1. PICK i \in 1..8 :
           /\ ServerStates[i] = s
           /\ \/ t = ServerStates[i + 1]
              \/ i \in 2..6 /\ t = "Closing"
              \/ i \in 1..7 /\ t = "Closed"
    BY <1>2 DEF CanTransitionTo, ServerCanTransitionTo, CanMove
  <2>2. t \in {ServerStates[j] : j \in 1..9}
    BY <2>1 DEF ServerStates
  <2>3. Legal(r, s, t) /\ s # t /\ s # "Closed"
    BY <1>2, <2>1 DEF ServerStates, Legal, Forward
  <2>4. QED
    BY <1>2, <2>2, <2>3 DEF StatesOf
<1>3. QED
  BY <1>1, <1>2 DEF Roles

\* The states of a role are states, and Closing and Closed are among them.
LEMMA RowStates ==
    ASSUME NEW r \in Roles
    PROVE  /\ {StatesOf(r)[i] : i \in 1..9} \subseteq AllStates
           /\ "Closing" \in {StatesOf(r)[i] : i \in 1..9}
           /\ "Closed" \in {StatesOf(r)[i] : i \in 1..9}
<1>1. ClientStates[8] = "Closing" /\ ClientStates[9] = "Closed"
  BY DEF ClientStates
<1>2. ServerStates[8] = "Closing" /\ ServerStates[9] = "Closed"
  BY DEF ServerStates
<1>3. QED
  BY <1>1, <1>2 DEF StatesOf, AllStates

\* TransitionTo sets the state and the deadline, and only ever clears a flag on
\* entering the state in which the peer's first message is awaited.
LEMMA TransitionEffect ==
    ASSUME NEW r \in Roles, NEW m \in Machines, NEW next \in AllStates,
           next \in {"ChSent", "TransportReady"} => m.hello = FALSE,
           next = "TransportReady" => m.finished = FALSE
    PROVE  /\ TransitionTo(r, m, next) \in Machines
           /\ TransitionTo(r, m, next).state = next
           /\ TransitionTo(r, m, next).left = Deadline(r, m, next)
           /\ TransitionTo(r, m, next).hello = m.hello
           /\ TransitionTo(r, m, next).finished = m.finished
<1>1. Deadline(r, m, next) \in NoDeadline..(HandshakeTimeout + CloseTimeout)
  BY TimeoutAssumption DEF Deadline, Machines, NoDeadline
<1>2. m.hello \in BOOLEAN /\ m.finished \in BOOLEAN
  BY DEF Machines
<1>3. (next # "ChSent" => (m.hello /\ next # "ChSent") = m.hello)
      /\ (next # "TransportReady" => (m.hello /\ next # "TransportReady") = m.hello)
      /\ (next # "TransportReady" => (m.finished /\ next # "TransportReady") = m.finished)
  BY <1>2
<1>4. /\ (m.hello /\ next # "ChSent") = m.hello
      /\ (m.hello /\ next # "TransportReady") = m.hello
      /\ (m.finished /\ next # "TransportReady") = m.finished
  BY <1>2, <1>3, Zenon
<1>5. TransitionTo(r, m, next) =
        [state |-> next, left |-> Deadline(r, m, next),
         hello |-> m.hello, finished |-> m.finished]
  <2>1. m = [state |-> m.state, left |-> m.left, hello |-> m.hello, finished |-> m.finished]
    BY DEF Machines
  <2>2. CASE r = "client"
    <3>1. TransitionTo(r, m, next) =
             [m EXCEPT !.state = next, !.left = Deadline(r, m, next), !.hello = m.hello]
      BY <1>4, <2>2, Zenon DEF TransitionTo, ClientTransitionTo
    <3>2. QED
      BY <2>1, <3>1
  <2>3. CASE r = "server"
    <3>1. TransitionTo(r, m, next) =
             [m EXCEPT !.state = next, !.left = Deadline(r, m, next),
                       !.hello = m.hello, !.finished = m.finished]
      BY <1>4, <2>3, Zenon DEF TransitionTo, ServerTransitionTo
    <3>2. QED
      BY <2>1, <3>1
  <2>4. QED
    BY <2>2, <2>3 DEF Roles
<1>6. QED
  BY <1>1, <1>2, <1>5 DEF Machines

-----------------------------------------------------------------------------
(* What a step does to the machines *)

FlagsSame ==
    \A q \in Roles : /\ machine'[q].hello = machine[q].hello
                     /\ machine'[q].finished = machine[q].finished

\* The machines make legal moves and forget nothing.
Onward ==
    \A q \in Roles : /\ Legal(q, State(q), State(q)')
                     /\ verified[q] => verified'[q]
                     /\ machine[q].hello => machine'[q].hello
                     /\ machine[q].finished => machine'[q].finished

\* No machine enters a state that a verification leads to.
NothingVerified ==
    \A q \in Roles : State(q)' \in {"ShVerified", "ChVerified", "CfVerified"} =>
                        State(q)' = State(q)

\* A transition moves one machine, legally, and keeps the flags.
LEMMA EnterEffect ==
    ASSUME IndInv, NEW r \in Roles, NEW next,
           CanTransitionTo(r, State(r), next) \/ next = "Closed", Enter(r, next)
    PROVE  /\ machine' \in [Roles -> Machines] /\ Timed' /\ FlagsSame
           /\ State(r)' = next
           /\ \A q \in Roles : q # r => machine'[q] = machine[q]
           /\ \A q \in Roles : Legal(q, State(q), State(q)')
<1>1. /\ machine \in [Roles -> Machines]
      /\ machine[r].hello \in BOOLEAN /\ machine[r].finished \in BOOLEAN
  BY DEF IndInv, Typed, Machines
<1>2. /\ next \in {StatesOf(r)[i] : i \in 1..9} /\ next \in AllStates
      /\ Legal(r, State(r), next)
  BY MovesAreLegal, RowStates DEF Legal
<1>3. /\ next = "ChSent" => r = "client" /\ State(r) = "Connecting"
      /\ next = "TransportReady" => r = "server" /\ State(r) = "Listening"
  BY MovesAreLegal DEF Legal, Forward, Roles
<1>4. /\ next \in {"ChSent", "TransportReady"} => machine[r].hello = FALSE
      /\ next = "TransportReady" => machine[r].finished = FALSE
  BY <1>1, <1>3 DEF IndInv, ClientFlags, ServerFlags
<1> DEFINE n == TransitionTo(r, machine[r], next)
<1>5. /\ n \in Machines /\ n.state = next /\ n.left = Deadline(r, machine[r], next)
      /\ n.hello = machine[r].hello /\ n.finished = machine[r].finished
  BY <1>1, <1>2, <1>4, TransitionEffect
<1>6. machine' = [machine EXCEPT ![r] = n]
  BY DEF Enter
<1> HIDE DEF n
<1>7. machine' \in [Roles -> Machines]
  BY <1>1, <1>5, <1>6
<1>8. machine'[r] = n /\ \A q \in Roles : q # r => machine'[q] = machine[q]
  BY <1>1, <1>6
<1>9. FlagsSame
  BY <1>5, <1>8 DEF FlagsSame
<1>10. State(r)' = next /\ \A q \in Roles : Legal(q, State(q), State(q)')
  BY <1>2, <1>5, <1>8 DEF State, Legal
<1>11. Timed'
  <2> SUFFICES ASSUME NEW q \in Roles
               PROVE  /\ machine'[q].state \in {StatesOf(q)[i] : i \in 1..9}
                      /\ machine'[q].state \in Waiting(q) => machine'[q].left # NoDeadline
                      /\ machine'[q].state = "Closed" => machine'[q].left = NoDeadline
    BY DEF Timed, State, Waiting, StatesOf
  <2>1. CASE q # r
    BY <1>8, <2>1 DEF IndInv, Timed, State
  <2>2. CASE q = r
    <3>1. next \in Waiting(r) => Deadline(r, machine[r], next) # NoDeadline
      BY TimeoutAssumption DEF Deadline, Waiting, NoDeadline
    <3>2. next = "Closed" => Deadline(r, machine[r], next) = NoDeadline
      BY DEF Deadline, Waiting
    <3>3. QED
      BY <1>2, <1>5, <1>8, <2>2, <3>1, <3>2
  <2>3. QED
    BY <2>1, <2>2
<1>12. QED
  BY <1>7, <1>8, <1>9, <1>10, <1>11

\* OnServerHelloReceived, OnClientHelloReceived and OnClientFinishedReceived set
\* one flag.
LEMMA MarkEffect ==
    ASSUME IndInv, NEW r \in Roles, NEW msg \in Messages,
           machine' = [machine EXCEPT ![r] = MarkReceived(@, msg)]
    PROVE  /\ machine' \in [Roles -> Machines] /\ Timed'
           /\ \A q \in Roles : State(q)' = State(q)
           /\ \A q \in Roles : q # r => machine'[q] = machine[q]
           /\ machine'[r].hello = IF msg = "ClientFinished" THEN machine[r].hello ELSE TRUE
           /\ machine'[r].finished = IF msg = "ClientFinished" THEN TRUE ELSE machine[r].finished
<1>1. machine \in [Roles -> Machines] /\ machine[r] \in Machines
  BY DEF IndInv, Typed
<1> DEFINE n == MarkReceived(machine[r], msg)
<1>2. /\ n \in Machines /\ n.state = machine[r].state /\ n.left = machine[r].left
      /\ n.hello = IF msg = "ClientFinished" THEN machine[r].hello ELSE TRUE
      /\ n.finished = IF msg = "ClientFinished" THEN TRUE ELSE machine[r].finished
  BY <1>1 DEF MarkReceived, Machines
<1> HIDE DEF n
<1>3. machine' = [machine EXCEPT ![r] = n]
  BY DEF n
<1>4. machine'[r] = n /\ \A q \in Roles : q # r => machine'[q] = machine[q]
  BY <1>1, <1>3
<1>5. \A q \in Roles : machine'[q].state = machine[q].state /\ machine'[q].left = machine[q].left
  BY <1>2, <1>4
<1>6. Timed'
  BY <1>5 DEF IndInv, Timed, State, Waiting, StatesOf
<1>7. QED
  BY <1>1, <1>2, <1>3, <1>4, <1>5, <1>6 DEF State

\* Time passes for both machines and changes no state.
LEMMA TickEffect ==
    ASSUME IndInv, Tick
    PROVE  /\ machine' \in [Roles -> Machines] /\ Timed' /\ FlagsSame
           /\ \A q \in Roles : State(q)' = State(q)
<1>1. machine \in [Roles -> Machines] /\ machine' = [q \in Roles |-> Elapse(machine[q])]
  BY DEF IndInv, Typed, Tick
<1>2. ASSUME NEW q \in Roles
      PROVE  /\ machine'[q] \in Machines
             /\ machine'[q].state = machine[q].state
             /\ machine'[q].hello = machine[q].hello
             /\ machine'[q].finished = machine[q].finished
             /\ machine'[q].left = NoDeadline <=> machine[q].left = NoDeadline
  <2>1. machine[q] \in Machines /\ machine'[q] = Elapse(machine[q])
    BY <1>1
  <2>2. machine[q].left \in Int /\ HandshakeTimeout + CloseTimeout \in Int
    BY <2>1, TimeoutAssumption DEF Machines, NoDeadline
  <2>3. QED
    BY <2>1, <2>2, TimeoutAssumption DEF Elapse, Machines, NoDeadline
<1>3. Timed'
  BY <1>2 DEF IndInv, Timed, State, Waiting, StatesOf
<1>4. machine' \in [Roles -> Machines]
  BY <1>1, <1>2
<1>5. QED
  BY <1>2, <1>3, <1>4 DEF FlagsSame, State

\* How far the two have come is not taken back.
LEMMA Stable ==
    ASSUME Onward
    PROVE  /\ ServerHelloSent => ServerHelloSent'
           /\ ClientFinishedSent => ClientFinishedSent'
           /\ ClientFinishedArrived => ClientFinishedArrived'
BY DEF Onward, Roles, Legal, Forward, State, ServerHelloSent, ClientFinishedSent,
   ClientFinishedArrived

\* Steps that verify nothing and mark nothing keep what the flags mean.
LEMMA FlagsKept ==
    ASSUME IndInv, Onward, FlagsSame, NothingVerified,
           \A q \in Roles : /\ verified'[q] = verified[q]
                            /\ handled'[q] = handled[q]
                            /\ pending'[q] \subseteq pending[q] \cup {"Closed", "Authorized"}
    PROVE  ClientFlags' /\ ServerFlags'
<1>1. /\ ServerHelloSent => ServerHelloSent'
      /\ ClientFinishedSent => ClientFinishedSent'
  BY Stable
<1>2. ClientFlags'
  <2>1. /\ machine'["client"].hello = machine["client"].hello
        /\ verified'["client"] = verified["client"]
        /\ handled'["client"] = handled["client"]
        /\ "ShVerified" \in pending'["client"] => "ShVerified" \in pending["client"]
    BY DEF FlagsSame, Roles
  <2>2. Legal("client", State("client"), State("client")')
    BY DEF Onward, Roles
  <2>3. /\ State("client")' \in {"Idle", "Connecting"} => State("client") \in {"Idle", "Connecting"}
        /\ State("client")' \in {"ShVerified", "CfSent", "Authorized", "Messaging"} =>
              State("client") \in {"ShVerified", "CfSent", "Authorized", "Messaging"}
    BY <2>2 DEF NothingVerified, Legal, Forward, Roles
  <2>4. QED
    BY <1>1, <2>1, <2>3 DEF IndInv, ClientFlags, State
<1>3. ServerFlags'
  <2>1. /\ machine'["server"].hello = machine["server"].hello
        /\ machine'["server"].finished = machine["server"].finished
        /\ verified'["server"] = verified["server"]
        /\ handled'["server"] = handled["server"]
        /\ "ChVerified" \in pending'["server"] => "ChVerified" \in pending["server"]
        /\ "CfVerified" \in pending'["server"] => "CfVerified" \in pending["server"]
    BY DEF FlagsSame, Roles
  <2>2. Legal("server", State("server"), State("server")')
    BY DEF Onward, Roles
  <2>3. /\ State("server")' = "Listening" => State("server") = "Listening"
        /\ State("server")' \in {"ChVerified", "ShSent", "CfVerified", "Authorized", "Messaging"} =>
              State("server") \in {"ChVerified", "ShSent", "CfVerified", "Authorized", "Messaging"}
        /\ State("server")' \in {"CfVerified", "Authorized", "Messaging"} =>
              State("server") \in {"CfVerified", "Authorized", "Messaging"}
    BY <2>2 DEF NothingVerified, Legal, Forward, Roles
  <2>4. QED
    BY <1>1, <2>1, <2>3 DEF IndInv, ServerFlags, State
<1>4. QED
  BY <1>2, <1>3

-----------------------------------------------------------------------------
(* What a step does to the queues *)

Taken(q) == queue[q] # <<>> /\ queue'[q] = Tail(queue[q])

Cut(q) == link' = "down" /\ \E n \in 0..Len(queue[q]) : queue'[q] = SubSeq(queue[q], 1, n)

\* Nothing happens to the queue to q, or its first frame is read, or it is cut
\* off with the connection, or f joins it.
QueueStep(q, f) ==
    \/ queue'[q] = queue[q]
    \/ Taken(q)
    \/ Cut(q)
    \/ link = "up" /\ queue'[q] = Append(queue[q], f)

\* No frame leaves the queue to q, and f may join it.
Unread(q, f) ==
    \/ queue'[q] = queue[q]
    \/ link = "up" /\ queue'[q] = Append(queue[q], f)

\* What f, new to the client, and g, new to the server, say is true.
Truthful(f, g) ==
    /\ f.msg \in {"none", "ServerHello"}
    /\ f.msg = "ServerHello" => ServerHelloSent'
    /\ f.type = "DATA" => ClientFinishedSent'
    /\ g.msg \in {"none", "ClientHello", "ClientFinished"}
    /\ g.msg = "ClientFinished" => ClientFinishedSent'
    /\ g.type = "DATA" => State("client") \in {"CfSent", "Authorized", "Messaging"}

\* The server takes note of the ClientFinished it reads.
Noted ==
    (Taken("server") /\ Head(queue["server"]).msg = "ClientFinished") =>
        ClientFinishedArrived' \/ Cut("server")

\* Frames without a handshake message.
LEMMA PlainFrames ==
    ASSUME NEW ft \in {"DATA", "CLOSE", "ERROR"}
    PROVE  Plain(ft) \in Frames /\ Plain(ft).type = ft /\ Plain(ft).msg = "none"
<1>1. Plain(ft) \in {Plain(x) : x \in {"DATA", "CLOSE", "ERROR"}}
  OBVIOUS
<1>2. QED
  BY <1>1 DEF Plain, Frames

\* Frames with one.
LEMMA HandshakeFrames ==
    ASSUME NEW msg \in Messages, NEW v \in BOOLEAN
    PROVE  /\ Handshake(msg, v) \in Frames
           /\ Handshake(msg, v).type = "HANDSHAKE" /\ Handshake(msg, v).msg = msg
BY DEF Handshake, Frames

\* The frames that carry a handshake message are those of its type.
LEMMA FrameMessages ==
    ASSUME NEW f \in Frames
    PROVE  /\ f.type \in FrameTypes
           /\ f.type = "HANDSHAKE" => f.msg \in Messages /\ f.valid \in BOOLEAN
           /\ f.type # "HANDSHAKE" => f.msg = "none"
BY DEF Frames, Handshake, Plain, FrameTypes

\* Sending appends at most the one frame, and to the peer's queue only.
LEMMA SendEffect ==
    ASSUME NEW queues \in [Roles -> Seq(Frames)], NEW r \in Roles, NEW f \in Frames,
           link \in {"up", "down"}
    PROVE  /\ Send(queues, r, <<f>>) \in [Roles -> Seq(Frames)]
           /\ Send(queues, r, <<f>>)[r] = queues[r]
           /\ \/ Send(queues, r, <<f>>)[Peer(r)] = queues[Peer(r)] /\ link = "down"
              \/ /\ Send(queues, r, <<f>>)[Peer(r)] = Append(queues[Peer(r)], f)
                 /\ link = "up"
<1>1. Peer(r) \in Roles /\ Peer(r) # r
  BY DEF Peer, Roles
<1>2. queues[Peer(r)] \o <<f>> = Append(queues[Peer(r)], f)
  BY <1>1
<1>3. Append(queues[Peer(r)], f) \in Seq(Frames)
  BY <1>1
<1>4. CASE link = "up"
  <2>1. Send(queues, r, <<f>>) = [queues EXCEPT ![Peer(r)] = Append(queues[Peer(r)], f)]
    BY <1>2, <1>4, Zenon DEF Send
  <2>2. QED
    BY <1>1, <1>3, <1>4, <2>1
<1>5. CASE link = "down"
  BY <1>5 DEF Send
<1>6. QED
  BY <1>4, <1>5

\* A queue that only grows was not read.
LEMMA UnreadNotTaken ==
    ASSUME Typed, NEW q \in Roles, NEW f \in Frames, Unread(q, f)
    PROVE  ~Taken(q)
<1> SUFFICES ASSUME Taken(q) PROVE FALSE
  OBVIOUS
<1>1. queue[q] \in Seq(Frames) /\ queue[q] # <<>> /\ queue'[q] = Tail(queue[q])
  BY DEF Typed, Taken
<1>2. Len(queue'[q]) = Len(queue[q]) - 1 /\ Len(queue[q]) \in Nat
  BY <1>1
<1>3. Len(queue'[q]) >= Len(queue[q])
  <2>1. Len(Append(queue[q], f)) = Len(queue[q]) + 1
    BY <1>1
  <2>2. QED
    BY <1>2, <2>1 DEF Unread
<1>4. QED
  BY <1>2, <1>3

\* Reading takes the first frame of one queue.
LEMMA RestEffect ==
    ASSUME Typed, NEW r \in Roles, queue[r] # <<>>
    PROVE  /\ Rest(r) \in [Roles -> Seq(Frames)]
           /\ Rest(r)[r] = Tail(queue[r])
           /\ \A q \in Roles : q # r => Rest(r)[q] = queue[q]
<1>1. queue \in [Roles -> Seq(Frames)] /\ Tail(queue[r]) \in Seq(Frames)
  BY DEF Typed
<1>2. QED
  BY <1>1 DEF Rest

\* A frame of the queue after a step was in the queue before it, or is the new
\* one; what was in it and not at its head is still there, unless it was cut.
LEMMA QueueElements ==
    ASSUME Typed, NEW q \in Roles, NEW f \in Frames, QueueStep(q, f)
    PROVE  \A i \in 1..Len(queue'[q]) :
              \/ link = "up" /\ queue'[q] = Append(queue[q], f) /\ queue'[q][i] = f
              \/ \E k \in 1..Len(queue[q]) : queue'[q][i] = queue[q][k]
<1> DEFINE s == queue[q]
<1>1. s \in Seq(Frames) /\ Len(s) \in Nat
  BY DEF Typed
<1> SUFFICES ASSUME NEW i \in 1..Len(queue'[q])
             PROVE  \/ link = "up" /\ queue'[q] = Append(s, f) /\ queue'[q][i] = f
                    \/ \E k \in 1..Len(s) : queue'[q][i] = s[k]
  OBVIOUS
<1>2. CASE queue'[q] = s
  BY <1>2
<1>3. CASE Taken(q)
  <2>1. Len(Tail(s)) = Len(s) - 1 /\ \A k \in 1..Len(Tail(s)) : Tail(s)[k] = s[k + 1]
    BY <1>1, <1>3 DEF Taken
  <2>2. i + 1 \in 1..Len(s) /\ queue'[q][i] = s[i + 1]
    BY <1>1, <1>3, <2>1 DEF Taken
  <2>3. QED
    BY <2>2
<1>4. CASE Cut(q)
  <2>1. PICK n \in 0..Len(s) : queue'[q] = SubSeq(s, 1, n)
    BY <1>4 DEF Cut
  <2>2. i \in 1..Len(s) /\ queue'[q][i] = s[i]
    BY <1>1, <2>1
  <2>3. QED
    BY <2>2
<1>5. CASE link = "up" /\ queue'[q] = Append(s, f)
  BY <1>1, <1>5
<1>6. QED
  BY <1>2, <1>3, <1>4, <1>5 DEF QueueStep

\* The queues keep what they say when each new frame says the truth, and when
\* the server takes note of the ClientFinished it reads.
LEMMA QueuesKept ==
    ASSUME IndInv, Onward, NEW f \in Frames, NEW g \in Frames,
           QueueStep("client", f), QueueStep("server", g),
           link' = "up" => link = "up",
           Truthful(f, g),
           Noted,
           State("client")' \in {"CfSent", "Authorized", "Messaging"} =>
              \/ State("client") \in {"CfSent", "Authorized", "Messaging"}
              \/ /\ g.msg = "ClientFinished"
                 /\ link = "up" => queue'["server"] = Append(queue["server"], g)
    PROVE  ToClient' /\ ToServer' /\ FinishedUnderWay'
<1>0. /\ ServerHelloSent => ServerHelloSent'
      /\ ClientFinishedSent => ClientFinishedSent'
      /\ ClientFinishedArrived => ClientFinishedArrived'
  BY Stable
<1> DEFINE s == queue["server"]
           t == queue'["server"]
<1>1. /\ Typed /\ "client" \in Roles /\ "server" \in Roles
      /\ s \in Seq(Frames) /\ Len(s) \in Nat
  BY DEF IndInv, Typed, Roles
<1>2. ToClient'
  <2> SUFFICES ASSUME NEW i \in 1..Len(queue'["client"])
               PROVE  /\ queue'["client"][i].msg \in {"none", "ServerHello"}
                      /\ queue'["client"][i].msg = "ServerHello" => ServerHelloSent'
                      /\ queue'["client"][i].type = "DATA" => ClientFinishedSent'
    BY DEF ToClient
  <2>1. CASE queue'["client"][i] = f
    BY <2>1 DEF Truthful
  <2>2. CASE \E k \in 1..Len(queue["client"]) : queue'["client"][i] = queue["client"][k]
    BY <1>0, <2>2 DEF IndInv, ToClient
  <2>3. QED
    BY <1>1, <2>1, <2>2, QueueElements
<1>3. ASSUME NEW j \in 1..Len(s), s[j].msg = "ClientFinished", ~ClientFinishedArrived',
             link' = "up"
      PROVE  \E k \in 1..Len(t) : t[k].msg = "ClientFinished"
  <2>1. CASE t = s
    BY <1>3, <2>1
  <2>2. CASE Taken("server")
    <3>1. Head(s) = s[1] /\ Len(t) = Len(s) - 1 /\ \A k \in 1..Len(t) : t[k] = s[k + 1]
      BY <1>1, <2>2 DEF Taken
    <3>2. j # 1
      BY <1>3, <2>2, <3>1 DEF Noted, Cut
    <3>3. j - 1 \in 1..Len(t) /\ t[j - 1] = s[j]
      BY <1>1, <3>1, <3>2
    <3>4. QED
      BY <1>3, <3>3
  <2>3. CASE t = Append(s, g)
    <3>1. j \in 1..Len(t) /\ t[j] = s[j]
      BY <1>1, <2>3
    <3>2. QED
      BY <1>3, <3>1
  <2>4. QED
    BY <1>3, <2>1, <2>2, <2>3 DEF QueueStep, Cut
<1>4. FinishedUnderWay'
  <2> SUFFICES ASSUME link' = "up", ~ClientFinishedArrived',
                      State("client")' \in {"CfSent", "Authorized", "Messaging"}
               PROVE  \E k \in 1..Len(t) : t[k].msg = "ClientFinished"
    BY DEF FinishedUnderWay
  <2>1. CASE State("client") \in {"CfSent", "Authorized", "Messaging"}
    <3>1. \E j \in 1..Len(s) : s[j].msg = "ClientFinished"
      BY <1>0, <2>1 DEF IndInv, FinishedUnderWay
    <3>2. QED
      BY <1>3, <3>1
  <2>2. CASE g.msg = "ClientFinished" /\ t = Append(s, g)
    <3>1. Len(s) + 1 \in 1..Len(t) /\ t[Len(s) + 1] = g
      BY <1>1, <2>2
    <3>2. QED
      BY <2>2, <3>1
  <2>3. QED
    BY <2>1, <2>2
<1>5. ToServer'
  <2> SUFFICES ASSUME NEW i \in 1..Len(t)
               PROVE  /\ t[i].msg \in {"none", "ClientHello", "ClientFinished"}
                      /\ t[i].msg = "ClientFinished" => ClientFinishedSent'
                      /\ t[i].type = "DATA" =>
                            \/ ClientFinishedArrived'
                            \/ \E j \in 1..(i - 1) : t[j].msg = "ClientFinished"
    BY DEF ToServer
  <2>1. t[i].msg \in {"none", "ClientHello", "ClientFinished"}
        /\ (t[i].msg = "ClientFinished" => ClientFinishedSent')
    <3>1. CASE t[i] = g
      BY <3>1 DEF Truthful
    <3>2. CASE \E k \in 1..Len(s) : t[i] = s[k]
      BY <1>0, <3>2 DEF IndInv, ToServer
    <3>3. QED
      BY <1>1, <3>1, <3>2, QueueElements
  <2>2. ASSUME t[i].type = "DATA", ~ClientFinishedArrived'
        PROVE  \E j \in 1..(i - 1) : t[j].msg = "ClientFinished"
    <3>0. ASSUME NEW k \in 1..Len(s), s[k].type = "DATA"
          PROVE  \E j \in 1..(k - 1) : s[j].msg = "ClientFinished"
      BY <1>0, <2>2, <3>0 DEF IndInv, ToServer
    <3>1. CASE t = s
      BY <2>2, <3>0, <3>1
    <3>2. CASE Taken("server") /\ ~Cut("server")
      <4>1. Head(s) = s[1] /\ Len(t) = Len(s) - 1 /\ \A k \in 1..Len(t) : t[k] = s[k + 1]
        BY <1>1, <3>2 DEF Taken
      <4>2. i + 1 \in 1..Len(s) /\ s[i + 1].type = "DATA"
        BY <1>1, <2>2, <4>1
      <4>3. PICK j \in 1..i : s[j].msg = "ClientFinished"
        BY <3>0, <4>2
      <4>4. j # 1
        BY <2>2, <3>2, <4>1, <4>3 DEF Noted
      <4>5. j - 1 \in 1..(i - 1) /\ t[j - 1] = s[j]
        BY <1>1, <4>1, <4>3, <4>4
      <4>6. QED
        BY <4>3, <4>5
    <3>3. CASE Cut("server")
      <4>1. PICK n \in 0..Len(s) : t = SubSeq(s, 1, n)
        BY <3>3 DEF Cut
      <4>2. Len(t) = n /\ \A k \in 1..n : t[k] = s[k]
        BY <1>1, <4>1
      <4>3. i \in 1..Len(s) /\ s[i].type = "DATA"
        BY <1>1, <2>2, <4>2
      <4>4. PICK j \in 1..(i - 1) : s[j].msg = "ClientFinished"
        BY <3>0, <4>3
      <4>5. t[j] = s[j]
        BY <1>1, <4>2, <4>4
      <4>6. QED
        BY <4>4, <4>5
    <3>4. CASE link = "up" /\ t = Append(s, g)
      <4>1. Len(t) = Len(s) + 1 /\ t[Len(s) + 1] = g /\ \A k \in 1..Len(s) : t[k] = s[k]
        BY <1>1, <3>4
      <4>2. \E j \in 1..(i - 1) : s[j].msg = "ClientFinished" /\ j \in 1..Len(s)
        <5>1. CASE i \in 1..Len(s)
          <6>1. PICK j \in 1..(i - 1) : s[j].msg = "ClientFinished"
            BY <2>2, <3>0, <4>1, <5>1
          <6>2. j \in 1..Len(s)
            BY <1>1, <5>1
          <6>3. QED
            BY <6>1, <6>2
        <5>2. CASE i = Len(s) + 1
          <6>1. State("client") \in {"CfSent", "Authorized", "Messaging"}
            BY <2>2, <4>1, <5>2 DEF Truthful
          <6>2. \E j \in 1..Len(s) : s[j].msg = "ClientFinished"
            BY <1>0, <2>2, <3>4, <6>1 DEF IndInv, FinishedUnderWay
          <6>3. QED
            BY <1>1, <5>2, <6>2
        <5>3. QED
          BY <1>1, <4>1, <5>1, <5>2
      <4>3. QED
        BY <4>1, <4>2
    <3>5. QED
      BY <3>1, <3>2, <3>3, <3>4 DEF QueueStep
  <2>3. QED
    BY <2>1, <2>2
<1>6. QED
  BY <1>2, <1>4, <1>5

-----------------------------------------------------------------------------
(* The invariant through each step *)

\* A step that verifies and marks nothing keeps the invariant if it keeps the
\* types and the queues are moved truthfully.
LEMMA QuietStep ==
    ASSUME IndInv, Typed', Timed', FlagsSame, NothingVerified,
           NEW f \in Frames, NEW g \in Frames,
           \A q \in Roles : /\ Legal(q, State(q), State(q)')
                            /\ verified'[q] = verified[q] /\ handled'[q] = handled[q]
                            /\ pending'[q] \subseteq pending[q] \cup {"Closed", "Authorized"},
           QueueStep("client", f), QueueStep("server", g), Truthful(f, g),
           link' = "up" => link = "up",
           Noted,
           State("client")' \in {"CfSent", "Authorized", "Messaging"} =>
              \/ State("client") \in {"CfSent", "Authorized", "Messaging"}
              \/ /\ g.msg = "ClientFinished"
                 /\ link = "up" => queue'["server"] = Append(queue["server"], g)
    PROVE  IndInv'
<1>1. Onward
  BY DEF Onward, FlagsSame
<1>2. ClientFlags' /\ ServerFlags'
  BY <1>1, FlagsKept
<1>3. ToClient' /\ ToServer' /\ FinishedUnderWay'
  BY <1>1, QueuesKept
<1>4. QED
  BY <1>2, <1>3 DEF IndInv

\* CLOSE and ERROR say nothing.
LEMMA PlainTruth ==
    ASSUME NEW x \in {"CLOSE", "ERROR"}, NEW y \in {"CLOSE", "ERROR"}
    PROVE  Truthful(Plain(x), Plain(y))
BY PlainFrames DEF Truthful

\* A machine that closes or begins to, having read at most one frame and sent
\* at most one CLOSE or ERROR; or one that stays and sends nothing.
LEMMA ClosingStep ==
    ASSUME IndInv, NEW r \in Roles, NEW x \in {"CLOSE", "ERROR"},
           machine' \in [Roles -> Machines], Timed', FlagsSame,
           \A q \in Roles : /\ Legal(q, State(q), State(q)')
                            /\ \/ State(q)' = State(q)
                               \/ State(q)' \in {"Closing", "Closed"},
           queue' \in [Roles -> Seq(Frames)],
           queue'[r] = queue[r] \/ Taken(r),
           Unread(Peer(r), Plain(x)),
           (r = "server" /\ Taken(r) /\ Head(queue[r]).msg = "ClientFinished") =>
              ClientFinishedArrived',
           pending' \in [Roles -> SUBSET Outcomes],
           \A q \in Roles : pending'[q] \subseteq pending[q],
           \A q \in Roles : verified'[q] = verified[q],
           verified' \in [Roles -> BOOLEAN],
           UNCHANGED <<link, handled>>
    PROVE  IndInv'
<1>1. Typed'
  BY DEF IndInv, Typed
<1>2. NothingVerified
  BY DEF NothingVerified
<1>3. Plain(x) \in Frames /\ Truthful(Plain(x), Plain(x))
  BY PlainFrames, PlainTruth
<1>4. QueueStep("client", Plain(x)) /\ QueueStep("server", Plain(x))
  BY DEF QueueStep, Unread, Peer, Roles
<1>5. State("client")' \in {"CfSent", "Authorized", "Messaging"} =>
         State("client") \in {"CfSent", "Authorized", "Messaging"}
  BY DEF Roles
<1>6. /\ \A q \in Roles : /\ Legal(q, State(q), State(q)')
                          /\ verified'[q] = verified[q] /\ handled'[q] = handled[q]
                          /\ pending'[q] \subseteq pending[q] \cup {"Closed", "Authorized"}
      /\ link' = "up" => link = "up"
  OBVIOUS
<1>7. Noted
  BY <1>3, UnreadNotTaken DEF IndInv, Peer, Roles, Noted
<1>8. QED
  BY <1>1, <1>2, <1>3, <1>4, <1>5, <1>6, <1>7, QuietStep

\* The peer is the other role.
LEMMA Peers == \A r \in Roles : Peer(r) \in Roles /\ Peer(r) # r /\ Peer(Peer(r)) = r
BY DEF Peer, Roles

\* What reading a frame tells.
LEMMA ReadEffect ==
    ASSUME IndInv, NEW r \in Roles, NEW f \in Frames, NEW d, Read(r, f, d)
    PROVE  /\ queue[r] # <<>> /\ f = Head(queue[r]) /\ f = queue[r][1]
           /\ 1 \in 1..Len(queue[r])
           /\ Rest(r) \in [Roles -> Seq(Frames)]
           /\ Rest(r)[r] = Tail(queue[r]) /\ Rest(r)[Peer(r)] = queue[Peer(r)]
<1>1. queue[r] \in Seq(Frames) /\ queue[r] # <<>> /\ f = Head(queue[r])
  BY DEF IndInv, Typed, Read
<1>2. f = queue[r][1] /\ 1 \in 1..Len(queue[r])
  BY <1>1
<1>3. QED
  BY <1>1, <1>2, RestEffect, Peers DEF IndInv

\* Reading a frame and answering with one.
LEMMA AnswerEffect ==
    ASSUME IndInv, NEW r \in Roles, NEW f \in Frames, NEW d, Read(r, f, d),
           NEW x \in {"CLOSE", "ERROR"}, queue' = Send(Rest(r), r, <<Plain(x)>>)
    PROVE  queue' \in [Roles -> Seq(Frames)] /\ Taken(r) /\ Unread(Peer(r), Plain(x))
<1>1. /\ queue[r] # <<>> /\ Rest(r) \in [Roles -> Seq(Frames)]
      /\ Rest(r)[r] = Tail(queue[r]) /\ Rest(r)[Peer(r)] = queue[Peer(r)]
  BY ReadEffect
<1>2. Plain(x) \in Frames /\ link \in {"up", "down"}
  BY PlainFrames DEF IndInv, Typed
<1> DEFINE new == Send(Rest(r), r, <<Plain(x)>>)
<1>3. /\ new \in [Roles -> Seq(Frames)]
      /\ new[r] = Rest(r)[r]
      /\ \/ new[Peer(r)] = Rest(r)[Peer(r)] /\ link = "down"
         \/ new[Peer(r)] = Append(Rest(r)[Peer(r)], Plain(x)) /\ link = "up"
  BY <1>1, <1>2, SendEffect
<1>4. queue' = new
  OBVIOUS
<1> HIDE DEF new
<1>5. QED
  BY <1>1, <1>3, <1>4 DEF Taken, Unread

\* Reading a frame and answering nothing.
LEMMA SilentEffect ==
    ASSUME IndInv, NEW r \in Roles, NEW f \in Frames, NEW d, Read(r, f, d),
           queue' = Rest(r)
    PROVE  /\ queue' \in [Roles -> Seq(Frames)] /\ Taken(r)
           /\ queue'[Peer(r)] = queue[Peer(r)]
<1>1. /\ queue[r] # <<>> /\ Rest(r) \in [Roles -> Seq(Frames)]
      /\ Rest(r)[r] = Tail(queue[r]) /\ Rest(r)[Peer(r)] = queue[Peer(r)]
  BY ReadEffect
<1>2. QED
  BY <1>1 DEF Taken

\* Closing a machine over the frame it has read, with an answer or without.
LEMMA CloseStep ==
    ASSUME IndInv, NEW r \in Roles, NEW x \in {"CLOSE", "ERROR"},
           Enter(r, "Closed"), queue' \in [Roles -> Seq(Frames)],
           Taken(r), Unread(Peer(r), Plain(x)),
           UNCHANGED <<link, pending, verified, handled>>
    PROVE  IndInv'
<1>1. /\ machine' \in [Roles -> Machines] /\ Timed' /\ FlagsSame
      /\ State(r)' = "Closed"
      /\ \A q \in Roles : q # r => machine'[q] = machine[q]
      /\ \A q \in Roles : Legal(q, State(q), State(q)')
  BY EnterEffect
<1>2. \A q \in Roles : State(q)' = State(q) \/ State(q)' \in {"Closing", "Closed"}
  BY <1>1 DEF State
<1>3. r = "server" => ClientFinishedArrived'
  BY <1>1 DEF ClientFinishedArrived
<1>4. pending' \in [Roles -> SUBSET Outcomes] /\ verified' \in [Roles -> BOOLEAN]
  BY DEF IndInv, Typed
<1>5. /\ \A q \in Roles : /\ Legal(q, State(q), State(q)')
                          /\ State(q)' = State(q) \/ State(q)' \in {"Closing", "Closed"}
      /\ \A q \in Roles : pending'[q] \subseteq pending[q]
      /\ \A q \in Roles : verified'[q] = verified[q]
  BY <1>1, <1>2
<1>6. QED
  BY <1>1, <1>3, <1>4, <1>5, ClosingStep

\* A machine that reads a frame without a handshake message and stays as it is.
LEMMA ConsumeStep ==
    ASSUME IndInv, NEW r \in Roles, NEW f \in Frames, NEW d, Read(r, f, d),
           f.type # "HANDSHAKE" \/ State(r) \in {"Closing", "Closed"},
           queue' = Rest(r), UNCHANGED <<machine, link, pending, history>>
    PROVE  IndInv'
<1>1. /\ queue' \in [Roles -> Seq(Frames)] /\ Taken(r)
      /\ queue'[Peer(r)] = queue[Peer(r)]
  BY SilentEffect
<1>2. UNCHANGED <<verified, handled>>
  BY DEF history
<1>3. /\ machine' \in [Roles -> Machines] /\ FlagsSame
      /\ \A q \in Roles : State(q)' = State(q)
  BY DEF IndInv, Typed, FlagsSame, State
<1>4. Timed'
  BY DEF IndInv, Timed, State, Waiting, StatesOf
<1>5. /\ \A q \in Roles : /\ Legal(q, State(q), State(q)')
                          /\ State(q)' = State(q) \/ State(q)' \in {"Closing", "Closed"}
      /\ \A q \in Roles : pending'[q] \subseteq pending[q]
      /\ \A q \in Roles : verified'[q] = verified[q]
  BY <1>2, <1>3 DEF Legal
<1>6. pending' \in [Roles -> SUBSET Outcomes] /\ verified' \in [Roles -> BOOLEAN]
  BY <1>2 DEF IndInv, Typed
<1>7. (r = "server" /\ Head(queue[r]).msg = "ClientFinished") => ClientFinishedArrived'
  <2>1. f = Head(queue[r])
    BY ReadEffect
  <2>2. CASE f.type # "HANDSHAKE"
    BY <2>1, <2>2, FrameMessages
  <2>3. CASE State(r) \in {"Closing", "Closed"}
    BY <1>3, <2>3 DEF ClientFinishedArrived
  <2>4. QED
    BY <2>2, <2>3
<1>8. Unread(Peer(r), Plain("ERROR"))
  BY <1>1 DEF Unread
<1>9. QED
  BY <1>1, <1>2, <1>3, <1>4, <1>5, <1>6, <1>7, <1>8, ClosingStep

-----------------------------------------------------------------------------
(* Incoming frames *)

\* Through Closing to Closed is the same as straight to Closed.
LEMMA CloseTwice ==
    ASSUME IndInv, NEW r \in Roles,
           machine' = [machine EXCEPT ![r] =
              TransitionTo(r, TransitionTo(r, @, "Closing"), "Closed")]
    PROVE  Enter(r, "Closed")
<1> DEFINE m == machine[r]
           c == TransitionTo(r, m, "Closing")
<1>1. /\ m \in Machines /\ "Closing" \in AllStates /\ "Closed" \in AllStates
  BY RowStates DEF IndInv, Typed
<1>2. TransitionTo(r, c, "Closed") = TransitionTo(r, m, "Closed")
  <2>1. m = [state |-> m.state, left |-> m.left, hello |-> m.hello, finished |-> m.finished]
        /\ m.hello \in BOOLEAN /\ m.finished \in BOOLEAN
    BY <1>1 DEF Machines
  <2>2. \A x \in {m, c} : Deadline(r, x, "Closed") = NoDeadline
    BY DEF Deadline, Waiting
  <2>3. CASE r = "client"
    BY <2>1, <2>2, <2>3 DEF TransitionTo, ClientTransitionTo
  <2>4. CASE r = "server"
    BY <2>1, <2>2, <2>4 DEF TransitionTo, ServerTransitionTo
  <2>5. QED
    BY <2>3, <2>4 DEF Roles
<1> HIDE DEF m, c
<1>3. machine' = [machine EXCEPT ![r] = TransitionTo(r, m, "Closed")]
  BY <1>2 DEF m, c
<1>4. QED
  BY <1>3 DEF m, Enter

\* CLOSE.
LEMMA ReceiveCloseStep ==
    ASSUME IndInv, NEW r \in Roles, NEW f \in Frames, ReceiveClose(r, f)
    PROVE  IndInv'
<1>1. Read(r, f, "Accept") /\ UNCHANGED <<link, pending, verified, handled>>
  BY DEF ReceiveClose, history
<1>2. CASE Enter(r, "Closed") /\ queue' = Rest(r)
  <2>1. /\ queue' \in [Roles -> Seq(Frames)] /\ Taken(r)
        /\ queue'[Peer(r)] = queue[Peer(r)]
    BY <1>1, <1>2, SilentEffect
  <2>2. Unread(Peer(r), Plain("CLOSE"))
    BY <2>1 DEF Unread
  <2>3. QED
    BY <1>1, <1>2, <2>1, <2>2, CloseStep
<1>3. CASE /\ machine' = [machine EXCEPT ![r] =
                 TransitionTo(r, TransitionTo(r, @, "Closing"), "Closed")]
           /\ queue' = Send(Rest(r), r, <<Plain("CLOSE")>>)
  <2>1. /\ queue' \in [Roles -> Seq(Frames)] /\ Taken(r)
        /\ Unread(Peer(r), Plain("CLOSE"))
    BY <1>1, <1>3, AnswerEffect
  <2>2. Enter(r, "Closed")
    BY <1>3, CloseTwice
  <2>3. QED
    BY <1>1, <2>1, <2>2, CloseStep
<1>4. QED
  BY <1>2, <1>3 DEF ReceiveClose

\* ERROR.
LEMMA ReceiveErrorStep ==
    ASSUME IndInv, NEW r \in Roles, NEW f \in Frames, ReceiveError(r, f)
    PROVE  IndInv'
<1>1. /\ Read(r, f, "Accept") /\ Enter(r, "Closed") /\ queue' = Rest(r)
      /\ UNCHANGED <<link, pending, verified, handled>>
  BY DEF ReceiveError, history
<1>2. /\ queue' \in [Roles -> Seq(Frames)] /\ Taken(r)
      /\ queue'[Peer(r)] = queue[Peer(r)]
  BY <1>1, SilentEffect
<1>3. Unread(Peer(r), Plain("ERROR"))
  BY <1>2 DEF Unread
<1>4. QED
  BY <1>1, <1>2, <1>3, CloseStep

\* DATA that is accepted.
LEMMA ReceiveDataStep ==
    ASSUME IndInv, NEW r \in Roles, NEW f \in Frames, ReceiveData(r, f)
    PROVE  IndInv'
<1>1. /\ Read(r, f, "Accept") /\ f.type # "HANDSHAKE" /\ queue' = Rest(r)
      /\ UNCHANGED <<machine, link, pending, history>>
  BY DEF ReceiveData
<1>2. QED
  BY <1>1, ConsumeStep

\* Only a machine in Closing or Closed discards.
LEMMA DiscardStep ==
    ASSUME IndInv, NEW r \in Roles, NEW f \in Frames, Discard(r, f)
    PROVE  IndInv'
<1>1. /\ Read(r, f, "DiscardSilently") /\ queue' = Rest(r)
      /\ UNCHANGED <<machine, link, pending, history>>
  BY DEF Discard
<1>2. FrameDisposition(r, State(r), f.type) = "DiscardSilently"
  BY <1>1 DEF Read
<1>3. State(r) \in {"Closing", "Closed"}
  BY <1>2 DEF FrameDisposition, ClientFrameDisposition, ServerFrameDisposition, Disposition
<1>4. QED
  BY <1>1, <1>3, ConsumeStep

\* A frame the state does not allow.
LEMMA RejectStep ==
    ASSUME IndInv, NEW r \in Roles, NEW f \in Frames, Reject(r, f)
    PROVE  IndInv'
<1>1. /\ Read(r, f, "RejectWithError") /\ Enter(r, "Closed")
      /\ queue' = Send(Rest(r), r, <<Plain("ERROR")>>)
      /\ UNCHANGED <<link, pending, verified, handled>>
  BY DEF Reject, Refuse, history
<1>2. /\ queue' \in [Roles -> Seq(Frames)] /\ Taken(r)
      /\ Unread(Peer(r), Plain("ERROR"))
  BY <1>1, AnswerEffect
<1>3. QED
  BY <1>1, <1>2, CloseStep

\* A handshake message: a duplicate ends the connection, and the first one is
\* marked, which is all that keeps the next from being handled too.
LEMMA ReceiveHandshakeStep ==
    ASSUME IndInv, NEW r \in Roles, NEW f \in Frames, ReceiveHandshake(r, f)
    PROVE  IndInv'
<1>1. /\ Read(r, f, "Accept") /\ f.type = "HANDSHAKE"
      /\ UNCHANGED <<link, verified>>
  BY DEF ReceiveHandshake
<1>2. CASE Refuse(r) /\ UNCHANGED <<pending, handled>>
  <2>1. /\ queue' \in [Roles -> Seq(Frames)] /\ Taken(r)
        /\ Unread(Peer(r), Plain("ERROR")) /\ Enter(r, "Closed")
    BY <1>1, <1>2, AnswerEffect DEF Refuse
  <2>2. QED
    BY <1>1, <1>2, <2>1, CloseStep
<1>3. CASE /\ ~IsDuplicate(machine[r], f.msg)
           /\ machine' = [machine EXCEPT ![r] = MarkReceived(@, f.msg)]
           /\ queue' = Rest(r)
           /\ handled' = [handled EXCEPT ![r] = Append(@, f.msg)]
           /\ Await(r, IF f.valid THEN VerifiedState(f.msg) ELSE "Closed")
  <2>1. f.msg \in Messages /\ f.valid \in BOOLEAN /\ f = queue[r][1] /\ 1 \in 1..Len(queue[r])
    BY <1>1, FrameMessages, ReadEffect
  <2>2. /\ machine' \in [Roles -> Machines] /\ Timed'
        /\ \A q \in Roles : State(q)' = State(q)
        /\ \A q \in Roles : q # r => machine'[q] = machine[q]
        /\ machine'[r].hello = IF f.msg = "ClientFinished" THEN machine[r].hello ELSE TRUE
        /\ machine'[r].finished = IF f.msg = "ClientFinished" THEN TRUE ELSE machine[r].finished
    BY <1>3, <2>1, MarkEffect
  <2>3. /\ queue' \in [Roles -> Seq(Frames)] /\ Taken(r)
        /\ queue'[Peer(r)] = queue[Peer(r)]
    BY <1>1, <1>3, SilentEffect
  <2> DEFINE next == IF f.valid THEN VerifiedState(f.msg) ELSE "Closed"
  <2>4. next \in {VerifiedState(f.msg), "Closed"} /\ VerifiedState(f.msg) \in Outcomes
        /\ next \in Outcomes
    BY <2>1 DEF VerifiedState, Messages, Outcomes
  <2>5. /\ pending' \in [Roles -> SUBSET Outcomes]
        /\ pending'[r] = pending[r] \cup {next}
        /\ \A q \in Roles : q # r => pending'[q] = pending[q]
    <3>1. pending \in [Roles -> SUBSET Outcomes] /\ pending' = [pending EXCEPT ![r] = @ \cup {next}]
      BY <1>3 DEF IndInv, Typed, Await
    <3> HIDE DEF next
    <3>2. QED
      BY <2>4, <3>1
  <2>6. /\ handled' \in [Roles -> Seq(Messages)]
        /\ handled'[r] = Append(handled[r], f.msg)
        /\ \A q \in Roles : q # r => handled'[q] = handled[q]
    <3>1. handled \in [Roles -> Seq(Messages)]
      BY DEF IndInv, Typed
    <3>2. Append(handled[r], f.msg) \in Seq(Messages)
      BY <2>1, <3>1
    <3>3. QED
      BY <1>3, <3>1, <3>2
  <2> HIDE DEF next
  <2>7. Typed'
    BY <1>1, <2>2, <2>3, <2>5, <2>6 DEF IndInv, Typed
  <2>8. Onward
    <3>1. ASSUME NEW q \in Roles
          PROVE  /\ machine[q].hello => machine'[q].hello
                 /\ machine[q].finished => machine'[q].finished
      BY <2>2
    <3>2. QED
      BY <1>1, <2>2, <3>1 DEF Onward, Legal
  <2>9. State(r) \in IF r = "client" THEN {"ChSent"} ELSE {"TransportReady", "ChVerified", "ShSent"}
    <3>1. FrameDisposition(r, State(r), "HANDSHAKE") = "Accept"
      BY <1>1 DEF Read
    <3>2. QED
      BY <3>1 DEF FrameDisposition, ClientFrameDisposition, ServerFrameDisposition, Disposition,
         ClientAllowedFrameTypes, ServerAllowedFrameTypes
  <2>10. CASE r = "client"
    <3>1. f.msg = "ServerHello" /\ ServerHelloSent
      BY <2>1, <2>10 DEF IndInv, ToClient, Messages
    <3>2. ServerHelloSent' /\ (ClientFinishedSent => ClientFinishedSent')
      BY <2>8, <3>1, Stable
    <3>3. handled'["client"] = <<"ServerHello">>
      <4>1. ~machine["client"].hello
        BY <1>3, <2>10, <3>1 DEF IsDuplicate
      <4>2. handled["client"] = <<>>
        BY <4>1 DEF IndInv, ClientFlags
      <4>3. QED
        BY <2>6, <2>10, <3>1, <4>2
    <3>4. machine'["client"].hello = TRUE /\ machine'["server"] = machine["server"]
      BY <2>2, <2>10, <3>1 DEF Roles
    <3>5. pending'["server"] = pending["server"] /\ handled'["server"] = handled["server"]
      BY <2>5, <2>6, <2>10 DEF Roles
    <3>6. ClientFlags'
      BY <1>1, <1>3, <2>2, <2>9, <2>10, <3>1, <3>2, <3>3, <3>4
         DEF IndInv, ClientFlags, IsDuplicate, Roles, State
    <3>7. ServerFlags'
      BY <1>1, <3>2, <3>4, <3>5 DEF IndInv, ServerFlags, State
    <3>8. /\ QueueStep("client", Plain("ERROR")) /\ QueueStep("server", Plain("ERROR"))
          /\ ~Taken("server")
      <4>1. Unread("server", Plain("ERROR"))
        BY <2>3, <2>10 DEF Unread, Peer
      <4>2. ~Taken("server")
        BY <4>1, UnreadNotTaken, PlainFrames DEF IndInv, Roles
      <4>3. QED
        BY <2>3, <2>10, <4>1, <4>2 DEF QueueStep, Unread
    <3>9. ToClient' /\ ToServer' /\ FinishedUnderWay'
      BY <1>1, <2>2, <2>8, <3>8, PlainFrames, PlainTruth, QueuesKept DEF Roles, Noted
    <3>10. QED
      BY <2>2, <2>7, <3>6, <3>7, <3>9 DEF IndInv
  <2>11. CASE r = "server"
    <3>1. f.msg \in {"ClientHello", "ClientFinished"}
          /\ (f.msg = "ClientFinished" => ClientFinishedSent)
      BY <2>1, <2>11 DEF IndInv, ToServer, Messages
    <3>2. /\ ServerHelloSent => ServerHelloSent'
          /\ ClientFinishedSent => ClientFinishedSent'
      BY <2>8, Stable
    <3>3. machine'["client"] = machine["client"]
          /\ pending'["client"] = pending["client"] /\ handled'["client"] = handled["client"]
      BY <2>2, <2>5, <2>6, <2>11 DEF Roles
    <3>4. ClientFlags'
      BY <1>1, <3>2, <3>3 DEF IndInv, ClientFlags, State
    <3>5. State("server")' = State("server") /\ State("server") # "Listening"
      BY <2>2, <2>9, <2>11
    <3>6. ServerFlags'
      <4>1. CASE f.msg = "ClientHello"
        <5>1. ~machine["server"].hello /\ ~machine["server"].finished
          BY <1>3, <2>11, <4>1 DEF IsDuplicate, IndInv, ServerFlags
        <5>2. machine'["server"].hello = TRUE
              /\ machine'["server"].finished = machine["server"].finished
          BY <2>2, <2>11, <4>1
        <5>3. handled'["server"] = <<"ClientHello">>
          BY <2>6, <2>11, <4>1, <5>1 DEF IndInv, ServerFlags
        <5>4. "CfVerified" \notin pending'["server"]
          BY <2>4, <2>5, <2>11, <4>1, <5>1 DEF VerifiedState, IndInv, ServerFlags
        <5>5. QED
          BY <1>1, <3>5, <5>1, <5>2, <5>3, <5>4 DEF IndInv, ServerFlags, State
      <4>2. CASE f.msg = "ClientFinished"
        <5>1. ~machine["server"].finished /\ ClientFinishedSent
          BY <1>3, <2>11, <3>1, <4>2 DEF IsDuplicate
        <5>2. machine["server"].hello
          BY <5>1 DEF ClientFinishedSent, ServerHelloSent, IndInv, ClientFlags, ServerFlags
        <5>3. machine'["server"].finished = TRUE
              /\ machine'["server"].hello = machine["server"].hello
          BY <2>2, <2>11, <4>2
        <5>4. handled'["server"] = <<"ClientHello", "ClientFinished">>
          BY <2>6, <2>11, <4>2, <5>1, <5>2 DEF IndInv, ServerFlags
        <5>5. QED
          BY <1>1, <3>2, <3>5, <5>1, <5>2, <5>3, <5>4 DEF IndInv, ServerFlags, State
      <4>3. QED
        BY <3>1, <4>1, <4>2
    <3>7. Head(queue["server"]).msg = "ClientFinished" => ClientFinishedArrived'
      <4>1. f = Head(queue["server"])
        BY <1>1, <2>11, ReadEffect
      <4>2. QED
        BY <2>2, <2>11, <4>1 DEF ClientFinishedArrived
    <3>8. QueueStep("client", Plain("ERROR")) /\ QueueStep("server", Plain("ERROR"))
      BY <2>3, <2>11 DEF QueueStep, Peer
    <3>9. ToClient' /\ ToServer' /\ FinishedUnderWay'
      BY <1>1, <2>2, <2>8, <3>7, <3>8, PlainFrames, PlainTruth, QueuesKept DEF Roles, Noted
    <3>10. QED
      BY <2>2, <2>7, <3>4, <3>6, <3>9 DEF IndInv
  <2>12. QED
    BY <2>10, <2>11 DEF Roles
<1>4. QED
  BY <1>2, <1>3 DEF ReceiveHandshake

-----------------------------------------------------------------------------
(* Completions *)

\* A verification or an authorization reports.
LEMMA CompleteStep ==
    ASSUME IndInv, NEW r \in Roles, NEW next \in pending[r], Complete(r, next)
    PROVE  IndInv'
<1> DEFINE left == pending[r] \ {next}
           ok == CanTransitionTo(r, State(r), next)
<1>0. /\ machine \in [Roles -> Machines] /\ queue \in [Roles -> Seq(Frames)]
      /\ verified \in [Roles -> BOOLEAN] /\ pending \in [Roles -> SUBSET Outcomes]
      /\ next \in Outcomes /\ link \in {"up", "down"}
  BY DEF IndInv, Typed
<1>1. /\ machine' = IF ok THEN [machine EXCEPT ![r] = TransitionTo(r, @, next)] ELSE machine
      /\ queue' = IF ok /\ next = "Closed" THEN Send(queue, r, <<Plain("ERROR")>>) ELSE queue
      /\ verified' = [verified EXCEPT ![r] = @ \/ (ok /\ next \in {"ShVerified", "ChVerified"})]
      /\ pending' = [pending EXCEPT ![r] =
            IF ok /\ next = "CfVerified" THEN left \cup {"Authorized"} ELSE left]
      /\ UNCHANGED <<link, handled>>
  BY DEF Complete
<1> HIDE DEF ok
<1>2. /\ pending' \in [Roles -> SUBSET Outcomes]
      /\ \A q \in Roles : pending'[q] \subseteq pending[q] \cup {"Authorized"}
      /\ ~(ok /\ next = "CfVerified") => \A q \in Roles : pending'[q] \subseteq pending[q]
  BY <1>0, <1>1 DEF Outcomes
<1>3. /\ verified' \in [Roles -> BOOLEAN]
      /\ \A q \in Roles : verified[q] => verified'[q]
      /\ \A q \in Roles : q # r => verified'[q] = verified[q]
  BY <1>0, <1>1
<1>4. ~(ok /\ next \in {"ShVerified", "ChVerified"}) => \A q \in Roles : verified'[q] = verified[q]
  BY <1>0, <1>1
<1>5. CASE ~ok
  <2>1. UNCHANGED <<machine, queue>>
    BY <1>1, <1>5
  <2>2. machine' \in [Roles -> Machines] /\ FlagsSame /\ \A q \in Roles : State(q)' = State(q)
    BY <1>0, <2>1 DEF FlagsSame, State
  <2>3. Timed'
    BY <2>1 DEF IndInv, Timed, State, Waiting, StatesOf
  <2>4. /\ \A q \in Roles : /\ Legal(q, State(q), State(q)')
                            /\ State(q)' = State(q) \/ State(q)' \in {"Closing", "Closed"}
        /\ \A q \in Roles : pending'[q] \subseteq pending[q]
        /\ \A q \in Roles : verified'[q] = verified[q]
    BY <1>2, <1>4, <1>5, <2>2 DEF Legal
  <2>5. /\ queue' \in [Roles -> Seq(Frames)] /\ queue'[r] = queue[r]
        /\ Unread(Peer(r), Plain("ERROR"))
    BY <1>0, <2>1 DEF Unread
  <2>6. ~Taken(r)
    BY <2>5, UnreadNotTaken, PlainFrames DEF Unread, IndInv
  <2>7. QED
    BY <1>1, <1>2, <1>3, <2>2, <2>3, <2>4, <2>5, <2>6, ClosingStep
<1>6. CASE ok
  <2>1. Enter(r, next)
    BY <1>1, <1>6 DEF Enter
  <2>2. /\ machine' \in [Roles -> Machines] /\ Timed' /\ FlagsSame
        /\ State(r)' = next
        /\ \A q \in Roles : q # r => machine'[q] = machine[q]
        /\ \A q \in Roles : Legal(q, State(q), State(q)')
    BY <1>6, <2>1, EnterEffect DEF ok
  <2>3. Legal(r, State(r), next) /\ State(r) # next /\ State(r) # "Closed"
    BY <1>6, MovesAreLegal DEF ok
  <2>4. Onward
    BY <1>3, <2>2 DEF Onward, FlagsSame
  <2>5. CASE next = "Closed"
    <3>1. /\ queue' \in [Roles -> Seq(Frames)] /\ queue'[r] = queue[r]
          /\ Unread(Peer(r), Plain("ERROR"))
      <4>1. queue' = Send(queue, r, <<Plain("ERROR")>>) /\ Plain("ERROR") \in Frames
        BY <1>1, <1>6, <2>5, PlainFrames
      <4>2. QED
        BY <1>0, <4>1, SendEffect DEF Unread
    <3>2. /\ \A q \in Roles : /\ Legal(q, State(q), State(q)')
                              /\ State(q)' = State(q) \/ State(q)' \in {"Closing", "Closed"}
          /\ \A q \in Roles : pending'[q] \subseteq pending[q]
          /\ \A q \in Roles : verified'[q] = verified[q]
      BY <1>2, <1>4, <2>2, <2>5 DEF State
    <3>3. r = "server" => ClientFinishedArrived'
      BY <2>2, <2>5 DEF ClientFinishedArrived
    <3>4. QED
      BY <1>1, <1>2, <1>3, <2>2, <3>1, <3>2, <3>3, ClosingStep
  <2>6. CASE next # "Closed"
    <3>1. UNCHANGED queue
      BY <1>1, <2>6
    <3>2. Typed'
      BY <1>0, <1>1, <1>2, <1>3, <2>2, <3>1 DEF IndInv, Typed
    <3>3. /\ QueueStep("client", Plain("ERROR")) /\ QueueStep("server", Plain("ERROR"))
          /\ ~Taken("server")
      BY <3>1, UnreadNotTaken, PlainFrames DEF QueueStep, Unread, IndInv, Roles
    <3>4. State("client")' \in {"CfSent", "Authorized", "Messaging"} =>
             State("client") \in {"CfSent", "Authorized", "Messaging"}
      BY <1>0, <2>2, <2>3, <2>6 DEF Legal, Forward, Outcomes, Roles, State
    <3>5. ToClient' /\ ToServer' /\ FinishedUnderWay'
      BY <1>1, <2>4, <3>3, <3>4, PlainFrames, PlainTruth, QueuesKept DEF Noted
    <3>6. /\ ServerHelloSent => ServerHelloSent'
          /\ ClientFinishedSent => ClientFinishedSent'
      BY <2>4, Stable
    <3>7. ClientFlags' /\ ServerFlags'
      <4>1. CASE next = "Authorized"
        <5>1. NothingVerified
          BY <2>2, <4>1 DEF NothingVerified, State
        <5>2. \A q \in Roles : /\ verified'[q] = verified[q] /\ handled'[q] = handled[q]
                               /\ pending'[q] \subseteq pending[q] \cup {"Closed", "Authorized"}
          BY <1>1, <1>2, <1>4, <4>1
        <5>3. QED
          BY <2>2, <2>4, <5>1, <5>2, FlagsKept
      <4>2. CASE next = "ShVerified"
        <5>1. r = "client" /\ State("client") = "ChSent" /\ State("client")' = "ShVerified"
          BY <2>2, <2>3, <4>2 DEF Legal, Forward, Roles
        <5>2. machine["client"].hello /\ machine'["client"].hello = machine["client"].hello
          BY <2>2, <4>2, <5>1 DEF IndInv, ClientFlags, FlagsSame, Roles
        <5>3. verified'["client"]
          BY <1>0, <1>1, <1>6, <4>2, <5>1
        <5>4. ClientFlags'
          BY <1>1, <3>6, <5>1, <5>2, <5>3 DEF IndInv, ClientFlags, State
        <5>5. machine'["server"] = machine["server"] /\ verified'["server"] = verified["server"]
              /\ pending'["server"] \subseteq pending["server"]
          BY <1>2, <1>3, <2>2, <4>2, <5>1 DEF Roles
        <5>6. ServerFlags'
          BY <1>1, <3>6, <5>5 DEF IndInv, ServerFlags, State
        <5>7. QED
          BY <5>4, <5>6
      <4>3. CASE next \in {"ChVerified", "CfVerified"}
        <5>1. /\ r = "server" /\ State("server")' = next
              /\ next = "ChVerified" => State("server") = "TransportReady"
              /\ next = "CfVerified" => State("server") = "ShSent"
          BY <2>2, <2>3, <4>3 DEF Legal, Forward, Roles
        <5>2. /\ machine'["server"].hello = machine["server"].hello
              /\ machine'["server"].finished = machine["server"].finished
          BY <2>2 DEF FlagsSame, Roles
        <5>3. machine["server"].hello /\ (next = "CfVerified" => machine["server"].finished)
          BY <4>3, <5>1 DEF IndInv, ServerFlags
        <5>4. verified'["server"]
          <6>1. CASE next = "ChVerified"
            BY <1>0, <1>1, <1>6, <5>1, <6>1
          <6>2. CASE next = "CfVerified"
            BY <1>3, <5>1, <6>2 DEF IndInv, ServerFlags, Roles
          <6>3. QED
            BY <4>3, <6>1, <6>2
        <5>5. pending'["server"] \subseteq pending["server"] \cup {"Authorized"}
          BY <1>2 DEF Roles
        <5>6. ServerFlags'
          BY <1>1, <3>6, <4>3, <5>1, <5>2, <5>3, <5>4, <5>5 DEF IndInv, ServerFlags, State
        <5>7. machine'["client"] = machine["client"] /\ verified'["client"] = verified["client"]
              /\ pending'["client"] = pending["client"]
          BY <1>0, <1>1, <1>3, <2>2, <5>1 DEF Roles
        <5>8. ClientFlags'
          BY <1>1, <3>6, <5>7 DEF IndInv, ClientFlags, State
        <5>9. QED
          BY <5>6, <5>8
      <4>4. QED
        BY <1>0, <2>6, <4>1, <4>2, <4>3 DEF Outcomes
    <3>8. QED
      BY <2>2, <3>2, <3>5, <3>7 DEF IndInv
  <2>7. QED
    BY <2>5, <2>6
<1>7. QED
  BY <1>5, <1>6

-----------------------------------------------------------------------------
(* A driver's own steps *)

\* Sending nothing leaves the queues alone.
LEMMA SendNothing ==
    ASSUME Typed, NEW r \in Roles PROVE Send(queue, r, <<>>) = queue
<1>1. queue \in [Roles -> Seq(Frames)] /\ Peer(r) \in Roles
  BY Peers DEF Typed
<1>2. queue[Peer(r)] \o <<>> = queue[Peer(r)]
  BY <1>1
<1>3. [queue EXCEPT ![Peer(r)] = queue[Peer(r)] \o <<>>] = queue
  BY <1>1, <1>2
<1>4. QED
  BY <1>3 DEF Send

\* Moving on, with what it takes for the frames that are sent.
LEMMA AdvanceStep ==
    ASSUME IndInv, NEW r \in Roles, NEW from, NEW next, NEW f \in Frames, NEW g \in Frames,
           State(r) = from, CanTransitionTo(r, from, next), Enter(r, next),
           next \notin {"ShVerified", "ChVerified", "CfVerified"},
           queue' \in [Roles -> Seq(Frames)],
           Unread("client", f), Unread("server", g), Truthful(f, g),
           pending' \in [Roles -> SUBSET Outcomes],
           \A q \in Roles : pending'[q] \subseteq pending[q] \cup {"Authorized"},
           UNCHANGED <<link, verified, handled>>,
           (r = "client" /\ next = "CfSent") =>
              /\ g.msg = "ClientFinished"
              /\ link = "up" => queue'["server"] = Append(queue["server"], g)
    PROVE  IndInv'
<1>1. /\ machine' \in [Roles -> Machines] /\ Timed' /\ FlagsSame
      /\ State(r)' = next
      /\ \A q \in Roles : q # r => machine'[q] = machine[q]
      /\ \A q \in Roles : Legal(q, State(q), State(q)')
  BY EnterEffect
<1>2. Legal(r, from, next) /\ from # next
  BY MovesAreLegal
<1>3. Typed'
  BY <1>1 DEF IndInv, Typed
<1>4. NothingVerified
  BY <1>1 DEF NothingVerified, State
<1>5. Noted
  BY UnreadNotTaken DEF IndInv, Roles, Noted
<1>6. QueueStep("client", f) /\ QueueStep("server", g)
  BY DEF QueueStep, Unread
<1>7. State("client")' \in {"CfSent", "Authorized", "Messaging"} =>
         \/ State("client") \in {"CfSent", "Authorized", "Messaging"}
         \/ /\ g.msg = "ClientFinished"
            /\ link = "up" => queue'["server"] = Append(queue["server"], g)
  BY <1>1, <1>2 DEF Legal, Forward, Roles, State
<1>8. \A q \in Roles : /\ Legal(q, State(q), State(q)')
                       /\ verified'[q] = verified[q] /\ handled'[q] = handled[q]
                       /\ pending'[q] \subseteq pending[q] \cup {"Closed", "Authorized"}
  BY <1>1
<1>9. QED
  BY <1>1, <1>3, <1>4, <1>5, <1>6, <1>7, <1>8, QuietStep

\* Sending one frame grows the peer's queue only.
LEMMA SendOne ==
    ASSUME IndInv, NEW r \in Roles, NEW f \in Frames, NEW g \in Frames,
           queue' = Send(queue, r, <<f>>)
    PROVE  /\ queue' \in [Roles -> Seq(Frames)]
           /\ Unread(Peer(r), f) /\ Unread(r, g)
           /\ link = "up" => queue'[Peer(r)] = Append(queue[Peer(r)], f)
<1>1. queue \in [Roles -> Seq(Frames)] /\ link \in {"up", "down"}
  BY DEF IndInv, Typed
<1>2. QED
  BY <1>1, SendEffect DEF Unread

\* The transport connects, or application data may flow: nothing is sent.
LEMMA SilentAdvance ==
    ASSUME IndInv, NEW r \in Roles, NEW from,
           NEW next \in {"Connecting", "TransportReady", "Messaging"},
           Advance(r, from, next, <<>>), UNCHANGED pending
    PROVE  IndInv'
<1>1. /\ State(r) = from /\ CanTransitionTo(r, from, next) /\ Enter(r, next)
      /\ queue' = queue /\ UNCHANGED <<link, verified, handled>>
  BY SendNothing DEF Advance, IndInv, history
<1>2. Plain("ERROR") \in Frames /\ Truthful(Plain("ERROR"), Plain("ERROR"))
  BY PlainFrames, PlainTruth
<1>3. /\ queue' \in [Roles -> Seq(Frames)] /\ pending' \in [Roles -> SUBSET Outcomes]
      /\ Unread("client", Plain("ERROR")) /\ Unread("server", Plain("ERROR"))
  BY <1>1 DEF IndInv, Typed, Unread
<1>4. \A q \in Roles : pending'[q] \subseteq pending[q] \cup {"Authorized"}
  OBVIOUS
<1>5. next \notin {"ShVerified", "ChVerified", "CfVerified", "CfSent"}
  OBVIOUS
<1>6. QED
  BY <1>1, <1>2, <1>3, <1>4, <1>5, AdvanceStep

\* The three handshake messages go out.
LEMMA SendHello ==
    ASSUME IndInv, SendClientHello \/ SendServerHello \/ SendClientFinished
    PROVE  IndInv'
<1>0. "client" \in Roles /\ "server" \in Roles /\ Peer("client") = "server" /\ Peer("server") = "client"
  BY DEF Roles, Peer
<1>1. Plain("ERROR") \in Frames /\ Plain("ERROR").msg = "none" /\ Plain("ERROR").type = "ERROR"
  BY PlainFrames
<1>2. CASE SendClientHello
  <2>1. PICK v \in BOOLEAN :
           Advance("client", "Connecting", "ChSent", <<Handshake("ClientHello", v)>>)
    BY <1>2 DEF SendClientHello
  <2> DEFINE g == Handshake("ClientHello", v)
  <2>2. g \in Frames /\ g.msg = "ClientHello" /\ g.type = "HANDSHAKE"
    BY HandshakeFrames DEF Messages
  <2>3. /\ State("client") = "Connecting" /\ CanTransitionTo("client", "Connecting", "ChSent")
        /\ Enter("client", "ChSent") /\ queue' = Send(queue, "client", <<g>>)
        /\ UNCHANGED <<link, verified, handled, pending>>
    BY <1>2, <2>1 DEF SendClientHello, Advance, history
  <2> HIDE DEF g
  <2>4. /\ queue' \in [Roles -> Seq(Frames)]
        /\ Unread("server", g) /\ Unread("client", Plain("ERROR"))
    BY <1>0, <1>1, <2>2, <2>3, SendOne
  <2>5. Truthful(Plain("ERROR"), g)
    BY <1>1, <2>2 DEF Truthful
  <2>6. /\ pending' \in [Roles -> SUBSET Outcomes]
        /\ \A q \in Roles : pending'[q] \subseteq pending[q] \cup {"Authorized"}
    BY <2>3 DEF IndInv, Typed
  <2>7. "ChSent" \notin {"ShVerified", "ChVerified", "CfVerified", "CfSent"}
    OBVIOUS
  <2>8. QED
    BY <1>0, <1>1, <2>2, <2>3, <2>4, <2>5, <2>6, <2>7, AdvanceStep
<1>3. CASE SendServerHello
  <2>1. PICK v \in BOOLEAN :
           Advance("server", "ChVerified", "ShSent", <<Handshake("ServerHello", v)>>)
    BY <1>3 DEF SendServerHello
  <2> DEFINE f == Handshake("ServerHello", v)
  <2>2. f \in Frames /\ f.msg = "ServerHello" /\ f.type = "HANDSHAKE"
    BY HandshakeFrames DEF Messages
  <2>3. /\ State("server") = "ChVerified" /\ CanTransitionTo("server", "ChVerified", "ShSent")
        /\ Enter("server", "ShSent") /\ queue' = Send(queue, "server", <<f>>)
        /\ UNCHANGED <<link, verified, handled, pending>>
    BY <1>3, <2>1 DEF SendServerHello, Advance, history
  <2> HIDE DEF f
  <2>4. /\ queue' \in [Roles -> Seq(Frames)]
        /\ Unread("client", f) /\ Unread("server", Plain("ERROR"))
    BY <1>0, <1>1, <2>2, <2>3, SendOne
  <2>5. ServerHelloSent'
    <3>1. State("server")' = "ShSent"
      BY <1>0, <2>3, EnterEffect
    <3>2. verified'["server"]
      BY <2>3 DEF IndInv, ServerFlags
    <3>3. QED
      BY <3>1, <3>2 DEF ServerHelloSent
  <2>6. Truthful(f, Plain("ERROR"))
    BY <1>1, <2>2, <2>5 DEF Truthful
  <2>7. /\ pending' \in [Roles -> SUBSET Outcomes]
        /\ \A q \in Roles : pending'[q] \subseteq pending[q] \cup {"Authorized"}
    BY <2>3 DEF IndInv, Typed
  <2>8. "ShSent" \notin {"ShVerified", "ChVerified", "CfVerified", "CfSent"}
    OBVIOUS
  <2>9. QED
    BY <1>0, <1>1, <2>2, <2>3, <2>4, <2>6, <2>7, <2>8, AdvanceStep
<1>4. CASE SendClientFinished
  <2>1. PICK v \in BOOLEAN :
           Advance("client", "ShVerified", "CfSent", <<Handshake("ClientFinished", v)>>)
    BY <1>4 DEF SendClientFinished
  <2> DEFINE g == Handshake("ClientFinished", v)
  <2>2. g \in Frames /\ g.msg = "ClientFinished" /\ g.type = "HANDSHAKE"
    BY HandshakeFrames DEF Messages
  <2>3. /\ State("client") = "ShVerified" /\ CanTransitionTo("client", "ShVerified", "CfSent")
        /\ Enter("client", "CfSent") /\ queue' = Send(queue, "client", <<g>>)
        /\ UNCHANGED <<link, verified, handled>>
        /\ pending' = [pending EXCEPT !["client"] = @ \cup {"Authorized"}]
    BY <1>4, <2>1 DEF SendClientFinished, Advance, Await, history
  <2> HIDE DEF g
  <2>4. /\ queue' \in [Roles -> Seq(Frames)]
        /\ Unread("server", g) /\ Unread("client", Plain("ERROR"))
        /\ link = "up" => queue'["server"] = Append(queue["server"], g)
    BY <1>0, <1>1, <2>2, <2>3, SendOne
  <2>5. ClientFinishedSent'
    <3>1. State("client")' = "CfSent" /\ FlagsSame
      BY <1>0, <2>3, EnterEffect
    <3>2. verified'["client"] /\ machine["client"].hello
      BY <2>3 DEF IndInv, ClientFlags
    <3>3. machine'["client"].hello
      BY <1>0, <3>1, <3>2 DEF FlagsSame
    <3>4. QED
      BY <3>1, <3>2, <3>3 DEF ClientFinishedSent
  <2>6. Truthful(Plain("ERROR"), g)
    BY <1>1, <2>2, <2>5 DEF Truthful
  <2>7. /\ pending' \in [Roles -> SUBSET Outcomes]
        /\ \A q \in Roles : pending'[q] \subseteq pending[q] \cup {"Authorized"}
    BY <2>3 DEF IndInv, Typed, Outcomes
  <2>8. "CfSent" \notin {"ShVerified", "ChVerified", "CfVerified"}
    OBVIOUS
  <2>9. QED
    BY <1>0, <1>1, <2>2, <2>3, <2>4, <2>6, <2>7, <2>8, AdvanceStep
<1>5. QED
  BY <1>2, <1>3, <1>4

\* A graceful shutdown begins.
LEMMA StartClosingStep ==
    ASSUME IndInv, NEW r \in Roles, StartClosing(r) PROVE IndInv'
<1>1. /\ CanTransitionTo(r, State(r), "Closing") /\ Enter(r, "Closing")
      /\ queue' = Send(queue, r, <<Plain("CLOSE")>>)
      /\ UNCHANGED <<link, verified, handled, pending>>
  BY DEF StartClosing, Advance, history
<1>2. Plain("CLOSE") \in Frames /\ Truthful(Plain("CLOSE"), Plain("CLOSE"))
  BY PlainFrames, PlainTruth
<1>3. /\ queue' \in [Roles -> Seq(Frames)]
      /\ Unread(Peer(r), Plain("CLOSE")) /\ Unread(r, Plain("CLOSE"))
  BY <1>1, <1>2, SendOne
<1>4. Unread("client", Plain("CLOSE")) /\ Unread("server", Plain("CLOSE"))
  BY <1>3 DEF Peer, Roles
<1>5. /\ pending' \in [Roles -> SUBSET Outcomes]
      /\ \A q \in Roles : pending'[q] \subseteq pending[q] \cup {"Authorized"}
  BY <1>1 DEF IndInv, Typed
<1>6. "Closing" \notin {"ShVerified", "ChVerified", "CfVerified", "CfSent"}
  OBVIOUS
<1>7. QED
  BY <1>1, <1>2, <1>3, <1>4, <1>5, <1>6, AdvanceStep

\* A machine aborts on its own.
LEMMA AbortStep ==
    ASSUME IndInv, NEW r \in Roles, AbortMachine(r) PROVE IndInv'
<1>1. /\ CanTransitionTo(r, State(r), "Closed") /\ Enter(r, "Closed")
      /\ UNCHANGED <<queue, link, verified, handled, pending>>
  BY DEF AbortMachine, history
<1>2. Plain("ERROR") \in Frames /\ Truthful(Plain("ERROR"), Plain("ERROR"))
  BY PlainFrames, PlainTruth
<1>3. /\ queue' \in [Roles -> Seq(Frames)] /\ pending' \in [Roles -> SUBSET Outcomes]
      /\ Unread("client", Plain("ERROR")) /\ Unread("server", Plain("ERROR"))
      /\ \A q \in Roles : pending'[q] \subseteq pending[q] \cup {"Authorized"}
  BY <1>1 DEF IndInv, Typed, Unread
<1>4. "Closed" \notin {"ShVerified", "ChVerified", "CfVerified", "CfSent"}
  OBVIOUS
<1>5. QED
  BY <1>1, <1>2, <1>3, <1>4, AdvanceStep

\* The machines stay where they are; frames may be sent, or lost with the
\* connection.
LEMMA StandingStep ==
    ASSUME IndInv, machine' \in [Roles -> Machines], Timed', FlagsSame,
           \A q \in Roles : State(q)' = State(q),
           queue' \in [Roles -> Seq(Frames)], NEW f \in Frames, NEW g \in Frames,
           QueueStep("client", f), QueueStep("server", g), Truthful(f, g), Noted,
           link' \in {"up", "down"}, link' = "up" => link = "up",
           UNCHANGED <<pending, verified, handled>>
    PROVE  IndInv'
<1>1. Typed'
  BY DEF IndInv, Typed
<1>2. NothingVerified
  BY DEF NothingVerified
<1>3. \A q \in Roles : /\ Legal(q, State(q), State(q)')
                       /\ verified'[q] = verified[q] /\ handled'[q] = handled[q]
                       /\ pending'[q] \subseteq pending[q] \cup {"Closed", "Authorized"}
  BY DEF Legal
<1>4. State("client")' = State("client")
  BY DEF Roles
<1>5. QED
  BY <1>1, <1>2, <1>3, <1>4, QuietStep

\* What it takes when the machines do not change at all.
LEMMA MachinesStand ==
    ASSUME IndInv, UNCHANGED machine
    PROVE  /\ machine' \in [Roles -> Machines] /\ Timed' /\ FlagsSame
           /\ \A q \in Roles : State(q)' = State(q)
BY DEF IndInv, Typed, Timed, FlagsSame, State, Waiting, StatesOf

\* Time passes, or nothing happens.
LEMMA TickStep ==
    ASSUME IndInv, Tick \/ UNCHANGED vars PROVE IndInv'
<1>1. /\ machine' \in [Roles -> Machines] /\ Timed' /\ FlagsSame
      /\ \A q \in Roles : State(q)' = State(q)
  BY TickEffect, MachinesStand DEF vars
<1>2. UNCHANGED <<queue, link, pending, verified, handled>>
  BY DEF Tick, vars, history
<1>3. /\ queue' \in [Roles -> Seq(Frames)] /\ link' \in {"up", "down"}
      /\ Unread("client", Plain("ERROR")) /\ Unread("server", Plain("ERROR"))
  BY <1>2 DEF IndInv, Typed, Unread
<1>4. Plain("ERROR") \in Frames /\ Truthful(Plain("ERROR"), Plain("ERROR"))
  BY PlainFrames, PlainTruth
<1>5. /\ QueueStep("client", Plain("ERROR")) /\ QueueStep("server", Plain("ERROR"))
      /\ Noted
  BY <1>3, <1>4, UnreadNotTaken DEF QueueStep, Unread, Noted, IndInv, Roles
<1>6. QED
  BY <1>1, <1>2, <1>3, <1>4, <1>5, StandingStep

\* The connection fails and both queues are cut.
LEMMA LinkFailsStep == ASSUME IndInv, LinkFails PROVE IndInv'
<1>1. /\ link' = "down" /\ UNCHANGED <<machine, pending, verified, handled>>
  BY DEF LinkFails, history
<1>2. PICK n \in 0..Len(queue["client"]), k \in 0..Len(queue["server"]) :
         queue' = [client |-> SubSeq(queue["client"], 1, n),
                   server |-> SubSeq(queue["server"], 1, k)]
  BY DEF LinkFails
<1>3. queue["client"] \in Seq(Frames) /\ queue["server"] \in Seq(Frames)
  BY DEF IndInv, Typed, Roles
<1>4. /\ SubSeq(queue["client"], 1, n) \in Seq(Frames)
      /\ SubSeq(queue["server"], 1, k) \in Seq(Frames)
  BY <1>3
<1>5. /\ queue' \in [Roles -> Seq(Frames)]
      /\ queue'["client"] = SubSeq(queue["client"], 1, n)
      /\ queue'["server"] = SubSeq(queue["server"], 1, k)
  <2> DEFINE a == SubSeq(queue["client"], 1, n)
             b == SubSeq(queue["server"], 1, k)
  <2>1. queue' = [client |-> a, server |-> b] /\ a \in Seq(Frames) /\ b \in Seq(Frames)
    BY <1>2, <1>4
  <2> HIDE DEF a, b
  <2>2. queue' \in [Roles -> Seq(Frames)] /\ queue'["client"] = a /\ queue'["server"] = b
    BY <2>1 DEF Roles
  <2>3. QED
    BY <2>2 DEF a, b
<1>6. Cut("client") /\ Cut("server")
  BY <1>1, <1>5 DEF Cut
<1>7. Plain("ERROR") \in Frames /\ Truthful(Plain("ERROR"), Plain("ERROR"))
  BY PlainFrames, PlainTruth
<1>8. /\ machine' \in [Roles -> Machines] /\ Timed' /\ FlagsSame
      /\ \A q \in Roles : State(q)' = State(q)
  BY <1>1, MachinesStand
<1>9. /\ QueueStep("client", Plain("ERROR")) /\ QueueStep("server", Plain("ERROR"))
      /\ Noted
  BY <1>1, <1>6 DEF QueueStep, Noted
<1>10. link' \in {"up", "down"}
  BY <1>1
<1>11. QED
  BY <1>1, <1>5, <1>7, <1>8, <1>9, <1>10, StandingStep

\* Application data goes out.
LEMMA SendDataStep == ASSUME IndInv, NEW r \in Roles, SendData(r) PROVE IndInv'
<1>1. /\ State(r) = "Messaging" /\ queue' = Send(queue, r, <<Plain("DATA")>>)
      /\ UNCHANGED <<machine, link, pending, verified, handled>>
  BY DEF SendData, IsMessagingActive, history
<1>2. /\ machine' \in [Roles -> Machines] /\ Timed' /\ FlagsSame
      /\ \A q \in Roles : State(q)' = State(q)
  BY <1>1, MachinesStand
<1>3. /\ Plain("DATA") \in Frames /\ Plain("DATA").msg = "none" /\ Plain("DATA").type = "DATA"
      /\ Plain("ERROR") \in Frames /\ Plain("ERROR").msg = "none"
      /\ Plain("ERROR").type = "ERROR"
  BY PlainFrames
<1>4. /\ queue' \in [Roles -> Seq(Frames)]
      /\ Unread(Peer(r), Plain("DATA")) /\ Unread(r, Plain("ERROR"))
  BY <1>1, <1>3, SendOne
<1>5. link' \in {"up", "down"}
  BY <1>1 DEF IndInv, Typed
<1>6. CASE r = "client"
  <2>1. Unread("client", Plain("ERROR")) /\ Unread("server", Plain("DATA"))
    BY <1>4, <1>6 DEF Peer
  <2>2. Truthful(Plain("ERROR"), Plain("DATA"))
    BY <1>1, <1>3, <1>6 DEF Truthful
  <2>3. Noted /\ QueueStep("client", Plain("ERROR")) /\ QueueStep("server", Plain("DATA"))
    BY <1>3, <2>1, UnreadNotTaken DEF QueueStep, Unread, Noted, IndInv, Roles
  <2>4. QED
    BY <1>1, <1>2, <1>3, <1>4, <1>5, <2>2, <2>3, StandingStep
<1>7. CASE r = "server"
  <2>1. Unread("client", Plain("DATA")) /\ Unread("server", Plain("ERROR"))
    BY <1>4, <1>7 DEF Peer
  <2>2. ClientFinishedSent'
    <3>1. ClientFinishedSent
      BY <1>1, <1>7 DEF IndInv, ServerFlags
    <3>2. QED
      BY <1>1, <3>1 DEF ClientFinishedSent, State
  <2>3. Truthful(Plain("DATA"), Plain("ERROR"))
    BY <1>3, <2>2 DEF Truthful
  <2>4. Noted /\ QueueStep("client", Plain("DATA")) /\ QueueStep("server", Plain("ERROR"))
    BY <1>3, <2>1, UnreadNotTaken DEF QueueStep, Unread, Noted, IndInv, Roles
  <2>5. QED
    BY <1>1, <1>2, <1>3, <1>4, <1>5, <2>3, <2>4, StandingStep
<1>8. QED
  BY <1>6, <1>7 DEF Roles

\* A handshake message is sent twice.
LEMMA SendAgainStep == ASSUME IndInv, NEW r \in Roles, SendAgain(r) PROVE IndInv'
<1>1. /\ queue[r] # <<>> /\ link = "up" /\ Head(queue[r]).type = "HANDSHAKE"
      /\ queue' = [queue EXCEPT ![r] = Append(@, Head(@))]
      /\ UNCHANGED <<machine, link, pending, verified, handled>>
  BY DEF SendAgain, history
<1>2. PICK f \in Frames : f = Head(queue[r])
  BY <1>1 DEF IndInv, Typed
<1>3. f = queue[r][1] /\ 1 \in 1..Len(queue[r]) /\ f.type = "HANDSHAKE"
  BY <1>1, <1>2 DEF IndInv, Typed
<1>4. /\ queue' \in [Roles -> Seq(Frames)]
      /\ queue'[r] = Append(queue[r], f)
      /\ \A q \in Roles : q # r => queue'[q] = queue[q]
  <2>1. queue \in [Roles -> Seq(Frames)] /\ Append(queue[r], f) \in Seq(Frames)
    BY DEF IndInv, Typed
  <2>2. queue' = [queue EXCEPT ![r] = Append(queue[r], f)]
    BY <1>1, <1>2
  <2>3. QED
    BY <2>1, <2>2
<1>5. /\ machine' \in [Roles -> Machines] /\ Timed' /\ FlagsSame
      /\ \A q \in Roles : State(q)' = State(q)
  BY <1>1, MachinesStand
<1>6. /\ ServerHelloSent => ServerHelloSent'
      /\ ClientFinishedSent => ClientFinishedSent'
  BY <1>1 DEF ServerHelloSent, ClientFinishedSent, State
<1>7. Plain("ERROR") \in Frames /\ Plain("ERROR").msg = "none" /\ Plain("ERROR").type = "ERROR"
  BY PlainFrames
<1>8. link' \in {"up", "down"}
  BY <1>1
<1>9. CASE r = "client"
  <2>1. Truthful(f, Plain("ERROR"))
    BY <1>3, <1>6, <1>7, <1>9 DEF Truthful, IndInv, ToClient
  <2>2. Unread("client", f) /\ Unread("server", Plain("ERROR"))
    BY <1>1, <1>4, <1>9 DEF Unread, Roles
  <2>3. Noted /\ QueueStep("client", f) /\ QueueStep("server", Plain("ERROR"))
    BY <1>7, <2>2, UnreadNotTaken DEF QueueStep, Unread, Noted, IndInv, Roles
  <2>4. QED
    BY <1>1, <1>4, <1>5, <1>7, <1>8, <2>1, <2>3, StandingStep
<1>10. CASE r = "server"
  <2>1. Truthful(Plain("ERROR"), f)
    BY <1>3, <1>6, <1>7, <1>10 DEF Truthful, IndInv, ToServer
  <2>2. Unread("server", f) /\ Unread("client", Plain("ERROR"))
    BY <1>1, <1>4, <1>10 DEF Unread, Roles
  <2>3. Noted /\ QueueStep("server", f) /\ QueueStep("client", Plain("ERROR"))
    BY <2>2, UnreadNotTaken DEF QueueStep, Unread, Noted, IndInv, Roles
  <2>4. QED
    BY <1>1, <1>4, <1>5, <1>7, <1>8, <2>1, <2>3, StandingStep
<1>11. QED
  BY <1>9, <1>10 DEF Roles

-----------------------------------------------------------------------------
\* Two fresh machines and a fresh connection satisfy the invariant.
LEMMA Start == Init => IndInv
<1> SUFFICES ASSUME Init PROVE IndInv
  OBVIOUS
<1>1. /\ machine["client"] = NewMachine("Idle")
      /\ machine["server"] = NewMachine("Listening")
  BY DEF Init, NewClientHandshakeMachine, NewServerHandshakeMachine
<1>2. "Idle" \in AllStates /\ "Listening" \in AllStates
  <2>1. ClientStates[1] = "Idle" /\ ServerStates[1] = "Listening"
    BY DEF ClientStates, ServerStates
  <2>2. QED
    BY <2>1 DEF AllStates
<1>3. NewMachine("Idle") \in Machines /\ NewMachine("Listening") \in Machines
  BY <1>2, TimeoutAssumption DEF NewMachine, Machines, NoDeadline
<1>4. Typed
  <2>1. machine \in [Roles -> Machines]
    BY <1>3 DEF Init, NewClientHandshakeMachine, NewServerHandshakeMachine, Roles
  <2>2. queue \in [Roles -> Seq(Frames)] /\ handled \in [Roles -> Seq(Messages)]
    <3>1. <<>> \in Seq(Frames) /\ <<>> \in Seq(Messages)
      OBVIOUS
    <3>2. QED
      BY <3>1 DEF Init
  <2>3. pending \in [Roles -> SUBSET Outcomes] /\ verified \in [Roles -> BOOLEAN]
    BY DEF Init
  <2>4. link \in {"up", "down"}
    BY DEF Init
  <2>5. QED
    BY <2>1, <2>2, <2>3, <2>4 DEF Typed
<1>5. \A r \in Roles : /\ queue[r] = <<>> /\ pending[r] = {} /\ ~verified[r]
                       /\ handled[r] = <<>>
  BY DEF Init
<1>6. /\ State("client") = "Idle" /\ State("server") = "Listening"
      /\ ~machine["client"].hello /\ ~machine["server"].hello
      /\ ~machine["server"].finished
  BY <1>1 DEF State, NewMachine
<1>7. Timed
  <2>1. ClientStates[1] = "Idle" /\ ServerStates[1] = "Listening"
    BY DEF ClientStates, ServerStates
  <2>2. QED
    BY <1>6, <2>1 DEF Timed, Roles, StatesOf, Waiting
<1>8. ClientFlags /\ ServerFlags
  BY <1>5, <1>6 DEF ClientFlags, ServerFlags, Roles
<1>9. ToClient /\ ToServer /\ FinishedUnderWay
  BY <1>5, <1>6 DEF ToClient, ToServer, FinishedUnderWay, Roles
<1>10. QED
  BY <1>4, <1>7, <1>8, <1>9 DEF IndInv

\* Every step keeps the invariant.
LEMMA Step == IndInv /\ [Next]_vars => IndInv'
<1> SUFFICES ASSUME IndInv, [Next]_vars PROVE IndInv'
  OBVIOUS
<1>1. CASE Connect \/ AcceptTransport
  BY <1>1, SilentAdvance DEF Connect, AcceptTransport, Roles
<1>2. CASE SendClientHello \/ SendServerHello \/ SendClientFinished
  BY <1>2, SendHello
<1>3. ASSUME NEW r \in Roles, StartMessaging(r) PROVE IndInv'
  BY <1>3, SilentAdvance DEF StartMessaging
<1>4. ASSUME NEW r \in Roles, NEW next \in pending[r], Complete(r, next) PROVE IndInv'
  BY <1>4, CompleteStep
<1>5. ASSUME NEW r \in Roles, Timeout(r) \/ GiveUp(r) PROVE IndInv'
  BY <1>5, AbortStep DEF Timeout, GiveUp
<1>6. ASSUME NEW r \in Roles, NEW f \in Frames,
             \/ ReceiveHandshake(r, f) \/ ReceiveClose(r, f) \/ ReceiveError(r, f)
             \/ ReceiveData(r, f) \/ Reject(r, f) \/ Discard(r, f)
      PROVE  IndInv'
  BY <1>6, ReceiveHandshakeStep, ReceiveCloseStep, ReceiveErrorStep, ReceiveDataStep,
     RejectStep, DiscardStep
<1>7. CASE OwnSteps
  BY <1>2, <1>3, <1>4, <1>7 DEF OwnSteps
<1>8. QED
  BY <1>1, <1>5, <1>6, <1>7, StartClosingStep, SendDataStep, SendAgainStep, TickStep,
     LinkFailsStep DEF Next

\* The invariant holds throughout a connection.
THEOREM SessionInvariant == Spec => []IndInv
BY Start, Step, PTL DEF Spec

\* Type correctness; a machine that waits for its peer always has a deadline, and
\* a closed one none.
THEOREM TypeCorrect == Spec => []TypeOK
<1>1. IndInv => TypeOK
  <2> SUFFICES ASSUME IndInv PROVE TypeOK
    OBVIOUS
  <2>1. ASSUME NEW r \in Roles
        PROVE  /\ \E i \in 1..9 : machine[r].state = StatesOf(r)[i]
               /\ State(r) \in Waiting(r) => machine[r].left # NoDeadline
               /\ State(r) = "Closed" => machine[r].left = NoDeadline
    BY DEF IndInv, Timed, State
  <2>2. ASSUME NEW r \in Roles
        PROVE  /\ machine[r].left \in NoDeadline..(HandshakeTimeout + CloseTimeout)
               /\ machine[r].hello \in BOOLEAN /\ machine[r].finished \in BOOLEAN
               /\ \A i \in 1..Len(queue[r]) : queue[r][i] \in Frames
               /\ verified[r] \in BOOLEAN
    BY DEF IndInv, Typed, Machines
  <2>3. link \in {"up", "down"}
    BY DEF IndInv, Typed
  <2>4. QED
    BY <2>1, <2>2, <2>3 DEF TypeOK
<1>2. QED
  BY <1>1, SessionInvariant, PTL

\* Whatever is repeated, delayed or lost, a machine that has got past a handshake
\* message has handled exactly the messages of the protocol, in order and once,
\* and its peer is where that takes it (OnServerHelloReceived and its like).
THEOREM ExactExchangeHolds == Spec => []ExactExchange
<1>1. IndInv => ExactExchange
  <2> SUFFICES ASSUME IndInv PROVE ExactExchange
    OBVIOUS
  <2>1. ASSUME State("server") \in {"CfVerified", "Authorized", "Messaging"}
        PROVE  /\ handled["server"] = <<"ClientHello", "ClientFinished">>
               /\ handled["client"] = <<"ServerHello">>
               /\ verified["server"] /\ verified["client"]
               /\ State("client") \in {"CfSent", "Authorized", "Messaging", "Closing", "Closed"}
    BY <2>1 DEF IndInv, ServerFlags, ClientFlags, ClientFinishedSent
  <2>2. ASSUME State("client") \in {"ShVerified", "CfSent", "Authorized", "Messaging"}
        PROVE  /\ handled["client"] = <<"ServerHello">>
               /\ verified["server"] /\ verified["client"]
    BY <2>2 DEF IndInv, ClientFlags, ServerHelloSent
  <2>3. ASSUME NEW r \in Roles, IsIdentityVerified(r, State(r)), State(r) # "Closing"
        PROVE  verified[r]
    BY <2>3 DEF IndInv, ClientFlags, ServerFlags, IsIdentityVerified,
       ClientIsIdentityVerified, ServerIsIdentityVerified, Roles
  <2>4. QED
    BY <2>1, <2>2, <2>3 DEF ExactExchange
<1>2. QED
  BY <1>1, SessionInvariant, PTL

\* An end that answers application data with RejectWithError has read all its
\* peer's handshake messages and is still at work on them (FrameDisposition):
\* data, which only a peer in Messaging sends, never overtakes the handshake.
THEOREM DataRejectedOnlyEarlyHolds == Spec => []DataRejectedOnlyEarly
<1>1. IndInv => DataRejectedOnlyEarly
  <2> SUFFICES ASSUME IndInv, NEW r \in Roles, DataNext(r),
                      FrameDisposition(r, State(r), "DATA") = "RejectWithError"
               PROVE  IF r = "client" THEN State(r) = "CfSent"
                      ELSE /\ machine[r].finished
                           /\ State(r) \in {"ShSent", "CfVerified", "Authorized"}
    BY DEF DataRejectedOnlyEarly
  <2>1. queue[r] \in Seq(Frames) /\ queue[r] # <<>>
    BY DEF IndInv, Typed, DataNext
  <2>2. 1 \in 1..Len(queue[r]) /\ queue[r][1].type = "DATA"
    BY <2>1 DEF DataNext
  <2>3. CASE r = "client"
    <3>1. ClientFinishedSent
      BY <2>2, <2>3 DEF IndInv, ToClient
    <3>2. State(r) \notin {"Authorized", "Messaging", "Closing", "Closed"}
      BY <2>3 DEF FrameDisposition, ClientFrameDisposition, Disposition,
         ClientAllowedFrameTypes
    <3>3. QED
      BY <2>3, <3>1, <3>2 DEF ClientFinishedSent
  <2>4. CASE r = "server"
    <3>1. ClientFinishedArrived
      <4>1. \/ ClientFinishedArrived
            \/ \E j \in 1..(1 - 1) : queue["server"][j].msg = "ClientFinished"
        BY <2>2, <2>4 DEF IndInv, ToServer
      <4>2. QED
        BY <4>1
    <3>2. machine["server"].finished => ServerHelloSent
      BY DEF IndInv, ServerFlags, ClientFlags, ClientFinishedSent
    <3>3. State(r) \notin {"Messaging", "Closing", "Closed"}
      BY <2>4 DEF FrameDisposition, ServerFrameDisposition, Disposition,
         ServerAllowedFrameTypes
    <3>4. QED
      BY <2>4, <3>1, <3>2, <3>3 DEF ClientFinishedArrived, ServerHelloSent
  <2>5. QED
    BY <2>3, <2>4 DEF Roles
<1>2. QED
  BY <1>1, SessionInvariant, PTL

\* Every step moves each machine legally.
LEMMA StepsAreLegal ==
    ASSUME IndInv, [Next]_vars PROVE \A q \in Roles : Legal(q, State(q), State(q)')
<1>1. ASSUME NEW r \in Roles, NEW next,
             CanTransitionTo(r, State(r), next) \/ next = "Closed", Enter(r, next)
      PROVE  \A q \in Roles : Legal(q, State(q), State(q)')
  BY <1>1, EnterEffect
<1>2. ASSUME \A q \in Roles : State(q)' = State(q)
      PROVE  \A q \in Roles : Legal(q, State(q), State(q)')
  BY <1>2 DEF Legal
<1>3. ASSUME UNCHANGED machine PROVE \A q \in Roles : Legal(q, State(q), State(q)')
  BY <1>3 DEF Legal, State
<1>4. ASSUME NEW r \in Roles, NEW from, NEW next, NEW fs, Advance(r, from, next, fs)
      PROVE  \A q \in Roles : Legal(q, State(q), State(q)')
  BY <1>1, <1>4 DEF Advance
<1>5. CASE Connect \/ AcceptTransport \/ SendClientHello \/ SendServerHello \/ SendClientFinished
  BY <1>4, <1>5 DEF Connect, AcceptTransport, SendClientHello, SendServerHello,
     SendClientFinished, Roles
<1>6. ASSUME NEW r \in Roles, StartMessaging(r) \/ StartClosing(r)
      PROVE  \A q \in Roles : Legal(q, State(q), State(q)')
  BY <1>4, <1>6 DEF StartMessaging, StartClosing
<1>7. ASSUME NEW r \in Roles, NEW next \in pending[r], Complete(r, next)
      PROVE  \A q \in Roles : Legal(q, State(q), State(q)')
  <2>1. CASE CanTransitionTo(r, State(r), next)
    <3>1. Enter(r, next)
      BY <1>7, <2>1 DEF Complete, Enter
    <3>2. QED
      BY <1>1, <2>1, <3>1
  <2>2. CASE ~CanTransitionTo(r, State(r), next)
    BY <1>3, <1>7, <2>2 DEF Complete
  <2>3. QED
    BY <2>1, <2>2
<1>8. ASSUME NEW r \in Roles, Timeout(r) \/ GiveUp(r)
      PROVE  \A q \in Roles : Legal(q, State(q), State(q)')
  BY <1>1, <1>8 DEF Timeout, GiveUp, AbortMachine
<1>9. ASSUME NEW r \in Roles, SendData(r) \/ SendAgain(r)
      PROVE  \A q \in Roles : Legal(q, State(q), State(q)')
  BY <1>3, <1>9 DEF SendData, SendAgain
<1>10. ASSUME NEW r \in Roles, NEW f \in Frames, ReceiveHandshake(r, f)
       PROVE  \A q \in Roles : Legal(q, State(q), State(q)')
  <2>1. CASE Refuse(r)
    BY <1>1, <2>1 DEF Refuse
  <2>2. CASE machine' = [machine EXCEPT ![r] = MarkReceived(@, f.msg)]
    <3>1. f.msg \in Messages
      BY <1>10, FrameMessages DEF ReceiveHandshake
    <3>2. QED
      BY <1>2, <2>2, <3>1, MarkEffect
  <2>3. QED
    BY <1>10, <2>1, <2>2 DEF ReceiveHandshake
<1>11. ASSUME NEW r \in Roles, NEW f \in Frames, ReceiveClose(r, f)
       PROVE  \A q \in Roles : Legal(q, State(q), State(q)')
  <2>1. Enter(r, "Closed")
    BY <1>11, CloseTwice DEF ReceiveClose
  <2>2. QED
    BY <1>1, <2>1
<1>12. ASSUME NEW r \in Roles, NEW f \in Frames, ReceiveError(r, f) \/ Reject(r, f)
       PROVE  \A q \in Roles : Legal(q, State(q), State(q)')
  BY <1>1, <1>12 DEF ReceiveError, Reject, Refuse
<1>13. ASSUME NEW r \in Roles, NEW f \in Frames, ReceiveData(r, f) \/ Discard(r, f)
       PROVE  \A q \in Roles : Legal(q, State(q), State(q)')
  BY <1>3, <1>13 DEF ReceiveData, Discard
<1>14. CASE Tick
  BY <1>2, <1>14, TickEffect
<1>15. CASE LinkFails \/ UNCHANGED vars
  BY <1>3, <1>15 DEF LinkFails, vars
<1>16. CASE OwnSteps
  BY <1>5, <1>6, <1>7, <1>16 DEF OwnSteps
<1>17. QED
  BY <1>5, <1>6, <1>8, <1>9, <1>10, <1>11, <1>12, <1>13, <1>14, <1>15, <1>16 DEF Next

\* No verification, authorization or frame that is still to come brings a machine
\* back that began to close.
THEOREM NoRevivalHolds == Spec => NoRevival
<1>1. IndInv /\ [Next]_vars =>
         [\A r \in Roles :
             /\ State(r) = "Closing" => State(r)' \in {"Closing", "Closed"}
             /\ State(r) = "Closed" => State(r)' = "Closed"]_vars
  BY StepsAreLegal DEF Legal, Forward, Roles
<1>2. QED
  BY <1>1, SessionInvariant, PTL DEF Spec, NoRevival
=============================================================================
