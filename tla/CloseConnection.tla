-------------------------- MODULE CloseConnection --------------------------
(***************************************************************************)
(* One connection between two endpoints, each with a CloseManager.  The    *)
(* callers of the managers are not part of the repository; they do what    *)
(* the package comment (closemanager.go:13-20) makes them responsible for: *)
(* send a CLOSE frame on SendCloseFrame, close the QUIC connection on      *)
(* CloseQuic, poll the timer.  QUIC delivers the frames of each direction  *)
(* in order until the connection is gone; then what is still under way may *)
(* or may not be read before the endpoint notices.                         *)
(***************************************************************************)
EXTENDS CloseManager, Sequences

CONSTANTS
    A, B,           \* the endpoints
    QueueBound      \* frames under way before an endpoint stops sending

Ends == {A, B}
Peer(e) == IF e = A THEN B ELSE A

ASSUME EndsAssumption == A # B
ASSUME QueueBoundAssumption == QueueBound \in Nat

VARIABLES
    mgr,            \* the CloseManager of each endpoint
    chan,           \* frames on their way to each endpoint
    quic,           \* each endpoint's QUIC connection: open, closed, reset
    link,           \* whether the transport still connects the endpoints
    how,            \* history: how each endpoint sent its CLOSE
    said            \* history: the payload its application closed with

vars == <<mgr, chan, quic, link, how, said>>

Frames == [type : FrameTypes, payload : Payloads \cup {NoPayload}]

CloseFrame(pl) == [type |-> "CLOSE", payload |-> pl]
DataFrame      == [type |-> "DATA",  payload |-> NoPayload]
FatalError     == [type |-> "ERROR", payload |-> NoPayload]

Init ==
    /\ mgr = [e \in Ends |-> New]
    /\ chan = [e \in Ends |-> <<>>]
    /\ quic = [e \in Ends |-> "open"]
    /\ link = "up"
    /\ how = [e \in Ends |-> "none"]
    /\ said = [e \in Ends |-> NoPayload]

-----------------------------------------------------------------------------
(* What a caller does with the answer of a method.  `queues' are the       *)
(* channels after the caller took what it reacts to; `manner' and `pl' are *)
(* what the history keeps of a call that sends a CLOSE.                    *)

Put(queues, e, f) ==
    IF link = "up" THEN [queues EXCEPT ![Peer(e)] = Append(@, f)] ELSE queues

Obey(e, answer, queues, manner, pl) ==
    /\ mgr' = [mgr EXCEPT ![e] = answer.cm]
    /\ \/ /\ answer.act.kind = "None"
          /\ chan' = queues
          /\ UNCHANGED <<quic, link, how, said>>
       \/ /\ answer.act.kind = "SendCloseFrame"
          /\ chan' = Put(queues, e, CloseFrame(answer.act.payload))
          /\ how' = [how EXCEPT ![e] = IF @ = "none" THEN manner ELSE "twice"]
          /\ said' = [said EXCEPT ![e] = pl]
          /\ UNCHANGED <<quic, link>>
       \/ /\ answer.act.kind = "CloseQuic"
          /\ chan' = queues
          /\ quic' = [quic EXCEPT ![e] = "closed"]
          /\ link' = "down"
          /\ UNCHANGED <<how, said>>

-----------------------------------------------------------------------------
(* Application and caller *)

SendFrame(e, f) ==
    /\ quic[e] = "open"
    /\ CanSend(mgr[e], f.type)
    /\ Len(chan[Peer(e)]) < QueueBound
    /\ chan' = Put(chan, e, f)
    /\ UNCHANGED <<mgr, quic, link, how, said>>

SendData(e)       == SendFrame(e, DataFrame)
SendFatalError(e) == SendFrame(e, FatalError)

\* The application may call these at any time, on a closed manager too.
Initiate(e, pl)    == Obey(e, InitiateClose(mgr[e], pl), chan, "initiated", pl)
Respond(e, pl)     == Obey(e, RespondClose(mgr[e], pl), chan, "responded", pl)
AbortConnection(e) == Obey(e, Abort(mgr[e]), chan, "none", NoPayload)

\* A poll before the deadline answers None and changes nothing.
PollTimer(e) ==
    /\ mgr[e].deadline = 0
    /\ Obey(e, CheckTimer(mgr[e]), chan, "none", NoPayload)

-----------------------------------------------------------------------------
(* Incoming frames *)

Rest(e) == [chan EXCEPT ![e] = Tail(@)]

Incoming(e, ft) ==
    /\ quic[e] = "open"
    /\ chan[e] # <<>>
    /\ Head(chan[e]).type = ft

ReceiveClose(e) ==
    /\ Incoming(e, "CLOSE")
    /\ Obey(e, OnCloseReceived(mgr[e], Head(chan[e]).payload), Rest(e), "none", NoPayload)

\* A caller may hand a fatal ERROR to the manager whatever its disposition,
\* as the tests do, or obey the disposition.
ReceiveFatalError(e) ==
    /\ Incoming(e, "ERROR")
    /\ \/ Obey(e, OnFatalErrorReceived(mgr[e]), Rest(e), "none", NoPayload)
       \/ /\ ~FrameAccepted(mgr[e], "ERROR")
          /\ chan' = Rest(e)
          /\ UNCHANGED <<mgr, quic, link, how, said>>

\* Delivered to the application, or discarded: the same to the connection.
ReceiveData(e) ==
    /\ Incoming(e, "DATA")
    /\ chan' = Rest(e)
    /\ UNCHANGED <<mgr, quic, link, how, said>>

-----------------------------------------------------------------------------
(* Transport and time *)

LinkFails ==
    /\ link = "up"
    /\ link' = "down"
    /\ UNCHANGED <<mgr, chan, quic, how, said>>

\* The endpoint sees the transport gone.  A manager that is already closed
\* answers None, and the endpoint is left with a dead connection.
NoticeReset(e) ==
    LET answer == OnTransportReset(mgr[e])
    IN  /\ link = "down"
        /\ quic[e] = "open"
        /\ mgr' = [mgr EXCEPT ![e] = answer.cm]
        /\ quic' = [quic EXCEPT ![e] =
              IF answer.act.kind = "CloseQuic" THEN "closed" ELSE "reset"]
        /\ chan' = [chan EXCEPT ![e] = <<>>]
        /\ UNCHANGED <<link, how, said>>

Tick ==
    /\ \E e \in Ends : mgr[e].deadline > 0
    /\ mgr' = [e \in Ends |->
          [mgr[e] EXCEPT !.deadline = IF @ > 0 THEN @ - 1 ELSE @]]
    /\ UNCHANGED <<chan, quic, link, how, said>>

Step(e) ==
    \/ SendData(e) \/ SendFatalError(e)
    \/ \E pl \in Payloads : Initiate(e, pl) \/ Respond(e, pl)
    \/ AbortConnection(e)
    \/ PollTimer(e)
    \/ ReceiveClose(e) \/ ReceiveFatalError(e) \/ ReceiveData(e)
    \/ NoticeReset(e)

Next == Tick \/ LinkFails \/ \E e \in Ends : Step(e)

Spec == Init /\ [][Next]_vars

\* Time passes, callers poll their timers, and QUIC reports a connection that
\* is gone.  Nobody has to initiate, respond, send or read anything.
Fairness ==
    /\ WF_vars(Tick)
    /\ \A e \in Ends : WF_vars(PollTimer(e)) /\ WF_vars(NoticeReset(e))

FairSpec == Spec /\ Fairness

-----------------------------------------------------------------------------
(* Properties *)

\* Every variable has its type, and the close timer runs exactly while the
\* manager waits for the peer or for its own caller.
TypeOK ==
    /\ mgr \in [Ends -> Managers]
    /\ \A e \in Ends : TimerActive(mgr[e]) <=> IsClosing(mgr[e])
    /\ \A e \in Ends : mgr[e].state # "CloseReceived"
    /\ chan \in [Ends -> Seq(Frames)]
    /\ quic \in [Ends -> {"open", "closed", "reset"}]
    /\ link \in {"up", "down"}
    /\ how \in [Ends -> {"none", "initiated", "responded", "twice"}]
    /\ said \in [Ends -> Payloads \cup {NoPayload}]

\* An endpoint sends at most one CLOSE frame in the life of a connection,
\* whatever calls its application makes and however initiations cross, and
\* nothing but a fatal ERROR follows it on the wire (closemanager.go:256-262).
CloseIsLastWord ==
    \A e \in Ends :
        /\ how[e] # "twice"
        /\ \A i, j \in 1..Len(chan[e]) :
              (i < j /\ chan[e][i].type = "CLOSE") => chan[e][j].type = "ERROR"

\* Only one of the two endpoints can have answered the other's CLOSE, and only
\* a CLOSE the other one initiated: two managers never both respond, which
\* would leave both Closed with nobody told to close QUIC
\* (RespondClose, closemanager.go:352-360).
ResponderHasInitiator ==
    \A e \in Ends : how[e] = "responded" => how[Peer(e)] = "initiated"

\* A connection whose managers are both Closed is really gone: RespondClose
\* never returns CloseQuic, so this rests on the other endpoint.
BothClosedMeansDown ==
    (\A e \in Ends : IsClosed(mgr[e])) => link = "down"

\* The payload an endpoint reports for its peer is the one the peer's
\* application closed with, cut once: it survives both truncations, crossed
\* and late CLOSE frames, and is never the endpoint's own; and no frame under
\* way carries a message that was not cut (closemanager.go:306, 313, 359).
PayloadAsSaid ==
    \A e \in Ends :
        /\ mgr[e].remote # NoPayload => mgr[e].remote = Truncate[said[Peer(e)]]
        /\ \A i \in 1..Len(chan[e]) :
              chan[e][i].type = "CLOSE" =>
                  chan[e][i].payload = Truncate[said[Peer(e)]]

\* A connection that starts closing closes, and both QUIC connections go away,
\* even if the peer never answers and nothing is delivered.
ClosingEnds ==
    \A e \in Ends : IsClosing(mgr[e]) ~> (IsClosed(mgr[e]) /\ link = "down")

\* An endpoint whose manager is Closed does not keep a QUIC connection open
\* for ever, although a responding one is never told to close it.
ClosedLetsGo ==
    \A e \in Ends : IsClosed(mgr[e]) ~> quic[e] # "open"
=============================================================================
