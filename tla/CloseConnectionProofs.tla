----------------------- MODULE CloseConnectionProofs -----------------------
(***************************************************************************)
(* Proofs about two CloseManagers on one connection, for every set of      *)
(* payloads, every close timeout and every bound on the queues.            *)
(***************************************************************************)
EXTENDS CloseConnection, TLAPS

-----------------------------------------------------------------------------
(* The inductive invariant *)

\* A queue of frames from an endpoint that sent its CLOSE in manner h, with
\* payload pl: a CLOSE in it is that one, and only ERRORs follow it.
GoodQueue(q, h, pl) ==
    /\ q \in Seq(Frames)
    /\ \A i \in 1..Len(q) : q[i].type = "CLOSE" =>
          /\ h \in {"initiated", "responded"}
          /\ q[i].payload = Truncate[pl]
    /\ \A i, j \in 1..Len(q) :
          (i < j /\ q[i].type = "CLOSE") => q[j].type = "ERROR"

\* How an endpoint has sent its CLOSE, against its manager and its peer.
Manner(e) ==
    /\ how[e] # "twice"
    /\ mgr[e].state = "Open" => how[e] = "none"
    /\ mgr[e].state = "LocalCloseSent" => how[e] = "initiated"
    /\ mgr[e].state = "RemoteCloseReceived" =>
          how[e] = "none" /\ how[Peer(e)] = "initiated"
    /\ how[e] = "responded" => how[Peer(e)] = "initiated"
    /\ how[e] # "none" => said[e] \in Payloads
    /\ mgr[e].remote # NoPayload =>
          /\ how[Peer(e)] \in {"initiated", "responded"}
          /\ mgr[e].remote = Truncate[said[Peer(e)]]
    /\ (IsClosed(mgr[e]) /\ link = "up") => how[e] = "responded"

IndInv ==
    /\ TypeOK
    /\ \A e \in Ends : GoodQueue(chan[e], how[Peer(e)], said[Peer(e)])
    /\ \A e \in Ends : Manner(e)

-----------------------------------------------------------------------------
(* Endpoints and queues *)

\* An endpoint's peer is the other endpoint.
LEMMA PeerFacts ==
    ASSUME NEW e \in Ends
    PROVE  /\ Peer(e) \in Ends /\ Peer(e) # e /\ Peer(Peer(e)) = e
           /\ \A d \in Ends : d = e \/ d = Peer(e)
BY EndsAssumption DEF Ends, Peer

\* Reading a frame leaves a good queue.
LEMMA TailGood ==
    ASSUME NEW q, NEW h, NEW pl, GoodQueue(q, h, pl), q # <<>>
    PROVE  GoodQueue(Tail(q), h, pl) /\ Head(q) \in Frames /\ Head(q) = q[1]
<1>1. q \in Seq(Frames) /\ Len(q) \in Nat /\ Len(q) >= 1
  BY DEF GoodQueue
<1>2. /\ Tail(q) \in Seq(Frames)
      /\ Len(Tail(q)) = Len(q) - 1
      /\ \A i \in 1..Len(Tail(q)) : Tail(q)[i] = q[i + 1] /\ i + 1 \in 1..Len(q)
  BY <1>1
<1>3. Head(q) \in Frames /\ Head(q) = q[1]
  BY <1>1
<1>4. GoodQueue(Tail(q), h, pl)
  <2>1. \A i \in 1..Len(Tail(q)) : Tail(q)[i].type = "CLOSE" =>
          /\ h \in {"initiated", "responded"}
          /\ Tail(q)[i].payload = Truncate[pl]
    BY <1>2 DEF GoodQueue
  <2>2. ASSUME NEW i \in 1..Len(Tail(q)), NEW j \in 1..Len(Tail(q)),
               i < j, Tail(q)[i].type = "CLOSE"
        PROVE  Tail(q)[j].type = "ERROR"
    <3>1. i + 1 < j + 1
      BY <2>2
    <3> QED BY <1>2, <2>2, <3>1 DEF GoodQueue
  <2> QED BY <1>2, <2>1, <2>2 DEF GoodQueue
<1> QED BY <1>3, <1>4

\* Appending keeps a queue good: an ERROR always, DATA while no CLOSE was
\* sent, the CLOSE itself as the first one.
LEMMA AppendGood ==
    ASSUME NEW q, NEW h, NEW pl, NEW f \in Frames, NEW h2, NEW pl2,
           GoodQueue(q, h, pl),
           \/ f.type = "ERROR" /\ h2 = h /\ pl2 = pl
           \/ f.type = "DATA" /\ h = "none" /\ h2 = h /\ pl2 = pl
           \/ /\ f.type = "CLOSE" /\ f.payload = Truncate[pl2]
              /\ h = "none" /\ h2 \in {"initiated", "responded"}
    PROVE  GoodQueue(Append(q, f), h2, pl2)
<1>1. q \in Seq(Frames) /\ Len(q) \in Nat
  BY DEF GoodQueue
<1>2. /\ Append(q, f) \in Seq(Frames)
      /\ Len(Append(q, f)) = Len(q) + 1
      /\ \A i \in 1..Len(q) : Append(q, f)[i] = q[i]
      /\ Append(q, f)[Len(q) + 1] = f
  BY <1>1
<1>3. h = "none" => \A i \in 1..Len(q) : q[i].type # "CLOSE"
  BY DEF GoodQueue
<1>4. \A i \in 1..Len(q) + 1 : i = Len(q) + 1 \/ i \in 1..Len(q)
  BY <1>1
<1>5. ASSUME NEW i \in 1..Len(q) + 1, Append(q, f)[i].type = "CLOSE"
      PROVE  h2 \in {"initiated", "responded"} /\ Append(q, f)[i].payload = Truncate[pl2]
  <2>1. CASE i = Len(q) + 1
    BY <1>2, <1>5, <2>1
  <2>2. CASE i \in 1..Len(q)
    BY <1>2, <1>3, <1>5, <2>2 DEF GoodQueue
  <2> QED BY <1>4, <2>1, <2>2
<1>6. ASSUME NEW i \in 1..Len(q) + 1, NEW j \in 1..Len(q) + 1, i < j,
             Append(q, f)[i].type = "CLOSE"
      PROVE  Append(q, f)[j].type = "ERROR"
  <2>1. i \in 1..Len(q)
    BY <1>1, <1>6
  <2>2. q[i].type = "CLOSE" /\ h # "none"
    BY <1>2, <1>3, <1>6, <2>1
  <2>3. f.type = "ERROR"
    BY <2>2
  <2>4. CASE j = Len(q) + 1
    BY <1>2, <2>3, <2>4
  <2>5. CASE j \in 1..Len(q)
    BY <1>2, <1>6, <2>1, <2>2, <2>5 DEF GoodQueue
  <2> QED BY <1>4, <2>4, <2>5
<1> QED BY <1>2, <1>5, <1>6 DEF GoodQueue

\* The empty queue says nothing of its sender.
LEMMA EmptyGood == \A h, pl : GoodQueue(<<>>, h, pl)
BY DEF GoodQueue

-----------------------------------------------------------------------------
(* Effects: what a step can do to an endpoint, and that it preserves the   *)
(* invariant.                                                              *)

\* The channels after endpoint e took a frame, lost its queue, or neither.
Taken(e, queues) ==
    \/ queues = chan
    \/ chan[e] # <<>> /\ queues = Rest(e)
    \/ queues = [chan EXCEPT ![e] = <<>>]

\* Taking the frame at the head of a queue keeps the queues good.
LEMMA TakenGood ==
    ASSUME IndInv, NEW e \in Ends, NEW queues, Taken(e, queues)
    PROVE  /\ queues \in [Ends -> Seq(Frames)]
           /\ \A d \in Ends : GoodQueue(queues[d], how[Peer(d)], said[Peer(d)])
           /\ \A d \in Ends : d # e => queues[d] = chan[d]
<1>1. \A d \in Ends : GoodQueue(chan[d], how[Peer(d)], said[Peer(d)])
  BY DEF IndInv
<1>2. chan \in [Ends -> Seq(Frames)]
  BY DEF IndInv, TypeOK
<1>3. CASE queues = chan
  BY <1>1, <1>2, <1>3
<1>4. CASE chan[e] # <<>> /\ queues = Rest(e)
  <2>1. GoodQueue(Tail(chan[e]), how[Peer(e)], said[Peer(e)])
    BY <1>1, <1>4, TailGood
  <2>2. \A d \in Ends : queues[d] = IF d = e THEN Tail(chan[e]) ELSE chan[d]
    BY <1>2, <1>4 DEF Rest
  <2>3. queues \in [Ends -> Seq(Frames)]
    BY <1>2, <1>4, <2>1 DEF Rest, GoodQueue
  <2> QED BY <1>1, <2>1, <2>2, <2>3
<1>5. CASE queues = [chan EXCEPT ![e] = <<>>]
  <2>1. \A d \in Ends : queues[d] = IF d = e THEN <<>> ELSE chan[d]
    BY <1>2, <1>5
  <2>2. queues \in [Ends -> Seq(Frames)]
    BY <1>2, <1>5
  <2> QED BY <1>1, <2>1, <2>2, EmptyGood
<1> QED BY <1>3, <1>4, <1>5 DEF Taken

\* Only queues change.
LEMMA TakeEffect ==
    ASSUME IndInv, NEW e \in Ends, Taken(e, chan'),
           UNCHANGED <<mgr, quic, link, how, said>>
    PROVE  IndInv'
<1>1. /\ chan' \in [Ends -> Seq(Frames)]
      /\ \A d \in Ends : GoodQueue(chan'[d], how[Peer(d)], said[Peer(d)])
  BY TakenGood
<1>2. TypeOK'
  BY <1>1 DEF IndInv, TypeOK
<1>3. \A d \in Ends : Manner(d)'
  BY DEF IndInv, Manner
<1> QED BY <1>1, <1>2, <1>3 DEF IndInv

\* A frame that is not CLOSE goes out, or is lost with the link.
LEMMA SendEffect ==
    ASSUME IndInv, NEW e \in Ends, NEW f \in Frames,
           f.type = "ERROR" \/ (f.type = "DATA" /\ how[e] = "none"),
           chan' = Put(chan, e, f), UNCHANGED <<mgr, quic, link, how, said>>
    PROVE  IndInv'
<1>0. /\ Peer(e) \in Ends /\ Peer(Peer(e)) = e
      /\ chan \in [Ends -> Seq(Frames)]
  BY PeerFacts DEF IndInv, TypeOK
<1>1. CASE link = "up"
  <2>1. chan' = [chan EXCEPT ![Peer(e)] = Append(chan[Peer(e)], f)]
    BY <1>0, <1>1 DEF Put
  <2>2. GoodQueue(chan[Peer(e)], how[e], said[e])
    BY <1>0 DEF IndInv
  <2>3. GoodQueue(Append(chan[Peer(e)], f), how[e], said[e])
    BY <2>2, AppendGood
  <2>4. /\ chan' \in [Ends -> Seq(Frames)]
        /\ \A d \in Ends : chan'[d] =
              IF d = Peer(e) THEN Append(chan[Peer(e)], f) ELSE chan[d]
    BY <1>0, <2>1, <2>3 DEF GoodQueue
  <2>5. \A d \in Ends : GoodQueue(chan'[d], how[Peer(d)], said[Peer(d)])
    BY <1>0, <2>3, <2>4 DEF IndInv
  <2>6. TypeOK'
    BY <2>4 DEF IndInv, TypeOK
  <2>7. \A d \in Ends : Manner(d)'
    BY DEF IndInv, Manner
  <2> QED BY <2>5, <2>6, <2>7 DEF IndInv
<1>2. CASE link # "up"
  BY <1>2, TakeEffect DEF Put, Taken
<1> QED BY <1>1, <1>2

\* The manager of e closes and its caller closes QUIC (or finds it reset).
LEMMA CloseEffect ==
    ASSUME IndInv, NEW e \in Ends, NEW m \in Managers,
           m.state = "Closed", m.deadline = NoTimer,
           \/ m.remote = mgr[e].remote
           \/ /\ how[Peer(e)] \in {"initiated", "responded"}
              /\ m.remote = Truncate[said[Peer(e)]],
           mgr' = [mgr EXCEPT ![e] = m], Taken(e, chan'),
           quic' \in [Ends -> {"open", "closed", "reset"}],
           link' = "down", UNCHANGED <<how, said>>
    PROVE  IndInv'
<1>1. /\ chan' \in [Ends -> Seq(Frames)]
      /\ \A d \in Ends : GoodQueue(chan'[d], how[Peer(d)], said[Peer(d)])
  BY TakenGood
<1>2. \A d \in Ends : mgr'[d] = IF d = e THEN m ELSE mgr[d]
  BY DEF IndInv, TypeOK
<1>3. TypeOK'
  <2>1. mgr' \in [Ends -> Managers]
    BY DEF IndInv, TypeOK
  <2>2. \A d \in Ends : /\ TimerActive(mgr'[d]) <=> IsClosing(mgr'[d])
                         /\ mgr'[d].state # "CloseReceived"
    BY <1>2 DEF IndInv, TypeOK, TimerActive, IsClosing
  <2> QED BY <1>1, <2>1, <2>2 DEF IndInv, TypeOK
<1>4. ASSUME NEW d \in Ends PROVE Manner(d)'
  <2>1. CASE d = e
    BY <1>2, <2>1 DEF IndInv, Manner
  <2>2. CASE d # e
    BY <1>2, <2>2 DEF IndInv, Manner
  <2> QED BY <2>1, <2>2
<1> QED BY <1>1, <1>3, <1>4 DEF IndInv

\* A CLOSE goes out in some manner: the manager goes to m.
LEMMA SendCloseEffect ==
    ASSUME IndInv, NEW e \in Ends, NEW m \in Managers, NEW pl \in Payloads,
           NEW manner \in {"initiated", "responded"},
           how[e] = "none", m.remote = mgr[e].remote,
           \/ /\ manner = "initiated" /\ mgr[e].state = "Open"
              /\ m.state = "LocalCloseSent" /\ m.deadline # NoTimer
           \/ /\ manner = "responded" /\ mgr[e].state = "RemoteCloseReceived"
              /\ m.state = "Closed" /\ m.deadline = NoTimer,
           mgr' = [mgr EXCEPT ![e] = m],
           chan' = Put(chan, e, CloseFrame(Truncate[pl])),
           how' = [how EXCEPT ![e] = manner], said' = [said EXCEPT ![e] = pl],
           UNCHANGED <<quic, link>>
    PROVE  IndInv'
<1> DEFINE p == Peer(e)
<1>0. /\ p \in Ends /\ p # e /\ Peer(p) = e
      /\ \A d \in Ends : d = e \/ d = p
      /\ chan \in [Ends -> Seq(Frames)]
  BY PeerFacts DEF IndInv, TypeOK
<1> HIDE DEF p
<1>1. /\ \A d \in Ends : mgr'[d] = IF d = e THEN m ELSE mgr[d]
      /\ \A d \in Ends : how'[d] = IF d = e THEN manner ELSE how[d]
      /\ \A d \in Ends : said'[d] = IF d = e THEN pl ELSE said[d]
  BY DEF IndInv, TypeOK
<1>2. GoodQueue(chan[p], how[e], said[e]) /\ GoodQueue(chan[e], how[p], said[p])
  BY <1>0 DEF IndInv, p
<1>3. Truncate[pl] \in Payloads /\ CloseFrame(Truncate[pl]) \in Frames
  BY TruncateAssumption DEF CloseFrame, Frames, FrameTypes
<1>4. GoodQueue(Append(chan[p], CloseFrame(Truncate[pl])), manner, pl)
  BY <1>2, <1>3, AppendGood DEF CloseFrame
<1>5. GoodQueue(chan[p], manner, pl)
  BY <1>2 DEF GoodQueue
<1>6. /\ chan' \in [Ends -> Seq(Frames)]
      /\ chan'[e] = chan[e]
      /\ GoodQueue(chan'[p], manner, pl)
  <2>1. CASE link = "up"
    <3>1. chan' = [chan EXCEPT ![p] = Append(chan[p], CloseFrame(Truncate[pl]))]
      BY <1>0, <2>1 DEF Put, p
    <3>2. Append(chan[p], CloseFrame(Truncate[pl])) \in Seq(Frames)
      BY <1>4 DEF GoodQueue
    <3> QED BY <1>0, <1>4, <3>1, <3>2
  <2>2. CASE link # "up"
    BY <1>0, <1>5, <2>2 DEF Put
  <2> QED BY <2>1, <2>2
<1>7. ASSUME NEW d \in Ends
      PROVE  GoodQueue(chan'[d], how'[Peer(d)], said'[Peer(d)])
  <2>1. /\ how'[p] = how[p] /\ said'[p] = said[p]
        /\ how'[e] = manner /\ said'[e] = pl
    BY <1>0, <1>1
  <2>2. CASE d = e
    <3>1. GoodQueue(chan'[e], how'[p], said'[p])
      BY <1>2, <1>6, <2>1
    <3> QED BY <2>2, <3>1 DEF p
  <2>3. CASE d = p
    <3>1. GoodQueue(chan'[p], how'[e], said'[e])
      BY <1>6, <2>1
    <3> QED BY <1>0, <2>3, <3>1
  <2> QED BY <1>0, <2>2, <2>3
<1>8. TypeOK'
  <2>1. mgr' \in [Ends -> Managers]
    BY DEF IndInv, TypeOK
  <2>2. \A d \in Ends : /\ TimerActive(mgr'[d]) <=> IsClosing(mgr'[d])
                         /\ mgr'[d].state # "CloseReceived"
    BY <1>1 DEF IndInv, TypeOK, TimerActive, IsClosing
  <2>3. /\ how' \in [Ends -> {"none", "initiated", "responded", "twice"}]
        /\ said' \in [Ends -> Payloads \cup {NoPayload}]
    BY DEF IndInv, TypeOK
  <2> QED BY <1>6, <2>1, <2>2, <2>3 DEF IndInv, TypeOK
<1>9. Manner(e) /\ Manner(p)
  BY <1>0 DEF IndInv
<1>10. Manner(e)'
  <2>1. how'[e] = manner /\ said'[e] = pl /\ mgr'[e] = m
        /\ how'[p] = how[p] /\ said'[p] = said[p]
    BY <1>0, <1>1
  <2> QED BY <1>9, <2>1 DEF Manner, p, IsClosed
<1>11. Manner(p)'
  <2>1. how'[e] = manner /\ said'[e] = pl /\ mgr'[p] = mgr[p]
        /\ how'[p] = how[p] /\ said'[p] = said[p]
    BY <1>0, <1>1
  <2>2. mgr[p].remote = NoPayload /\ how[p] # "responded"
        /\ mgr[p].state # "RemoteCloseReceived"
    BY <1>0, <1>9 DEF Manner
  <2> QED BY <1>0, <1>9, <2>1, <2>2 DEF Manner, IsClosed
<1> QED BY <1>0, <1>7, <1>8, <1>10, <1>11 DEF IndInv

\* The first CLOSE from the peer reaches an open manager.
LEMMA RemoteCloseEffect ==
    ASSUME IndInv, NEW e \in Ends, NEW m \in Managers, NEW pl,
           mgr[e].state = "Open", how[Peer(e)] \in {"initiated", "responded"},
           m.state = "RemoteCloseReceived", m.deadline # NoTimer,
           m.remote = Truncate[said[Peer(e)]],
           mgr' = [mgr EXCEPT ![e] = m], Taken(e, chan'),
           UNCHANGED <<quic, link, how, said>>
    PROVE  IndInv'
<1>1. /\ chan' \in [Ends -> Seq(Frames)]
      /\ \A d \in Ends : GoodQueue(chan'[d], how[Peer(d)], said[Peer(d)])
  BY TakenGood
<1>2. \A d \in Ends : mgr'[d] = IF d = e THEN m ELSE mgr[d]
  BY DEF IndInv, TypeOK
<1>3. how[e] = "none" /\ how[Peer(e)] = "initiated"
  BY PeerFacts DEF IndInv, Manner
<1>4. TypeOK'
  <2>1. mgr' \in [Ends -> Managers]
    BY DEF IndInv, TypeOK
  <2>2. \A d \in Ends : /\ TimerActive(mgr'[d]) <=> IsClosing(mgr'[d])
                         /\ mgr'[d].state # "CloseReceived"
    BY <1>2 DEF IndInv, TypeOK, TimerActive, IsClosing
  <2> QED BY <1>1, <2>1, <2>2 DEF IndInv, TypeOK
<1>5. ASSUME NEW d \in Ends PROVE Manner(d)'
  <2>1. CASE d = e
    BY <1>2, <1>3, <2>1 DEF IndInv, Manner, IsClosed
  <2>2. CASE d # e
    BY <1>2, <2>2 DEF IndInv, Manner
  <2> QED BY <2>1, <2>2
<1> QED BY <1>1, <1>4, <1>5 DEF IndInv

-----------------------------------------------------------------------------
(* Every step has one of these effects *)

\* An answer None leaves the manager alone.
LEMMA ObeyNone ==
    ASSUME IndInv, NEW e \in Ends, NEW queues, NEW manner, NEW pl,
           Obey(e, Answer(mgr[e], None), queues, manner, pl), Taken(e, queues)
    PROVE  IndInv'
<1>1. /\ mgr' = [mgr EXCEPT ![e] = mgr[e]]
      /\ chan' = queues
      /\ UNCHANGED <<quic, link, how, said>>
  BY DEF Obey, Answer, None
<1>2. mgr' = mgr
  BY <1>1 DEF IndInv, TypeOK
<1> QED BY <1>1, <1>2, TakeEffect

\* An answer CloseQuic with a closed manager.
LEMMA ObeyCloseQuic ==
    ASSUME IndInv, NEW e \in Ends, NEW queues, NEW manner, NEW pl,
           NEW m \in Managers, m.state = "Closed", m.deadline = NoTimer,
           \/ m.remote = mgr[e].remote
           \/ /\ how[Peer(e)] \in {"initiated", "responded"}
              /\ m.remote = Truncate[said[Peer(e)]],
           Obey(e, Answer(m, CloseQuic), queues, manner, pl), Taken(e, queues)
    PROVE  IndInv'
<1>1. /\ mgr' = [mgr EXCEPT ![e] = m]
      /\ chan' = queues
      /\ quic' = [quic EXCEPT ![e] = "closed"]
      /\ link' = "down"
      /\ UNCHANGED <<how, said>>
  BY DEF Obey, Answer, CloseQuic
<1>2. quic' \in [Ends -> {"open", "closed", "reset"}]
  BY <1>1 DEF IndInv, TypeOK
<1> QED BY <1>1, <1>2, CloseEffect

\* An answer SendCloseFrame.
LEMMA ObeySendClose ==
    ASSUME IndInv, NEW e \in Ends, NEW m, NEW f, NEW manner, NEW pl,
           how[e] = "none",
           Obey(e, Answer(m, SendCloseFrame(f)), chan, manner, pl)
    PROVE  /\ mgr' = [mgr EXCEPT ![e] = m]
           /\ chan' = Put(chan, e, CloseFrame(f))
           /\ how' = [how EXCEPT ![e] = manner]
           /\ said' = [said EXCEPT ![e] = pl]
           /\ UNCHANGED <<quic, link>>
BY DEF Obey, Answer, SendCloseFrame, IndInv, TypeOK

\* What closing leaves of a manager.
LEMMA ClosedManager ==
    ASSUME NEW cm \in Managers
    PROVE  LET m == [cm EXCEPT !.state = "Closed", !.deadline = NoTimer]
           IN  /\ m \in Managers /\ m.state = "Closed"
               /\ m.deadline = NoTimer /\ m.remote = cm.remote
BY DEF Managers, CloseStates

\* OnFatalErrorReceived, OnTransportReset and Abort keep the invariant.
LEMMA CloseNowPreserves ==
    ASSUME IndInv, NEW e \in Ends, NEW queues, NEW manner, NEW pl,
           Obey(e, CloseNow(mgr[e]), queues, manner, pl), Taken(e, queues)
    PROVE  IndInv'
<1>0. mgr[e] \in Managers
  BY DEF IndInv, TypeOK
<1>1. CASE IsClosed(mgr[e])
  BY <1>1, ObeyNone DEF CloseNow
<1>2. CASE ~IsClosed(mgr[e])
  <2> DEFINE m == [mgr[e] EXCEPT !.state = "Closed", !.deadline = NoTimer]
  <2>1. /\ m \in Managers /\ m.state = "Closed"
        /\ m.deadline = NoTimer /\ m.remote = mgr[e].remote
    BY <1>0, ClosedManager
  <2>2. Obey(e, Answer(m, CloseQuic), queues, manner, pl)
    BY <1>2 DEF CloseNow
  <2> HIDE DEF m
  <2> QED BY <2>1, <2>2, ObeyCloseQuic
<1> QED BY <1>1, <1>2

\* Every step of the connection keeps the invariant.
LEMMA StepPreserves == IndInv /\ [Next]_vars => IndInv'
<1> SUFFICES ASSUME IndInv, [Next]_vars PROVE IndInv'
  OBVIOUS
<1>0. \A e \in Ends : mgr[e] \in Managers /\ Manner(e) /\ Taken(e, chan)
  BY DEF IndInv, TypeOK, Taken
<1>1. ASSUME NEW e \in Ends, SendData(e) PROVE IndInv'
  <2>1. mgr[e].state = "Open"
    BY <1>1 DEF SendData, SendFrame, CanSend, DataFrame
  <2>2. how[e] = "none" /\ DataFrame \in Frames /\ DataFrame.type = "DATA"
    BY <1>0, <2>1 DEF Manner, DataFrame, Frames, FrameTypes
  <2> QED BY <1>1, <2>2, SendEffect DEF SendData, SendFrame
<1>2. ASSUME NEW e \in Ends, SendFatalError(e) PROVE IndInv'
  <2>1. FatalError \in Frames /\ FatalError.type = "ERROR"
    BY DEF FatalError, Frames, FrameTypes
  <2> QED BY <1>2, <2>1, SendEffect DEF SendFatalError, SendFrame
<1>3. ASSUME NEW e \in Ends, NEW pl \in Payloads, Initiate(e, pl) PROVE IndInv'
  <2>1. CASE mgr[e].state # "Open"
    BY <1>0, <1>3, <2>1, ObeyNone DEF Initiate, InitiateClose
  <2>2. CASE mgr[e].state = "Open"
    <3> DEFINE m == [mgr[e] EXCEPT !.state = "LocalCloseSent", !.deadline = CloseTimeout]
    <3>0. CloseTimeout \in 0..CloseTimeout /\ CloseTimeout # NoTimer
      BY CloseTimeoutAssumption DEF NoTimer
    <3>1. /\ m \in Managers /\ m.state = "LocalCloseSent"
          /\ m.deadline # NoTimer /\ m.remote = mgr[e].remote
      BY <1>0, <3>0 DEF Managers, CloseStates
    <3>2. how[e] = "none"
      BY <1>0, <2>2 DEF Manner
    <3>3. Obey(e, Answer(m, SendCloseFrame(Truncate[pl])), chan, "initiated", pl)
      BY <1>3, <2>2 DEF Initiate, InitiateClose
    <3> HIDE DEF m
    <3>4. /\ mgr' = [mgr EXCEPT ![e] = m]
          /\ chan' = Put(chan, e, CloseFrame(Truncate[pl]))
          /\ how' = [how EXCEPT ![e] = "initiated"]
          /\ said' = [said EXCEPT ![e] = pl]
          /\ UNCHANGED <<quic, link>>
      BY <3>2, <3>3, ObeySendClose
    <3> QED BY <2>2, <3>1, <3>2, <3>4, SendCloseEffect
  <2> QED BY <2>1, <2>2
<1>4. ASSUME NEW e \in Ends, NEW pl \in Payloads, Respond(e, pl) PROVE IndInv'
  <2>1. CASE mgr[e].state # "RemoteCloseReceived"
    BY <1>0, <1>4, <2>1, ObeyNone DEF Respond, RespondClose
  <2>2. CASE mgr[e].state = "RemoteCloseReceived"
    <3> DEFINE m == [mgr[e] EXCEPT !.state = "Closed", !.deadline = NoTimer]
    <3>1. /\ m \in Managers /\ m.state = "Closed"
          /\ m.deadline = NoTimer /\ m.remote = mgr[e].remote
      BY <1>0, ClosedManager
    <3>2. how[e] = "none"
      BY <1>0, <2>2 DEF Manner
    <3>3. Obey(e, Answer(m, SendCloseFrame(Truncate[pl])), chan, "responded", pl)
      BY <1>4, <2>2 DEF Respond, RespondClose
    <3> HIDE DEF m
    <3>4. /\ mgr' = [mgr EXCEPT ![e] = m]
          /\ chan' = Put(chan, e, CloseFrame(Truncate[pl]))
          /\ how' = [how EXCEPT ![e] = "responded"]
          /\ said' = [said EXCEPT ![e] = pl]
          /\ UNCHANGED <<quic, link>>
      BY <3>2, <3>3, ObeySendClose
    <3> QED BY <2>2, <3>1, <3>2, <3>4, SendCloseEffect
  <2> QED BY <2>1, <2>2
<1>5. ASSUME NEW e \in Ends, AbortConnection(e) PROVE IndInv'
  BY <1>0, <1>5, CloseNowPreserves DEF AbortConnection, Abort
<1>6. ASSUME NEW e \in Ends, PollTimer(e) PROVE IndInv'
  <2>1. Obey(e, OnTimeout(mgr[e]), chan, "none", NoPayload)
    BY <1>6 DEF PollTimer, CheckTimer
  <2>2. CASE mgr[e].state \in {"LocalCloseSent", "RemoteCloseReceived"}
    <3> DEFINE m == [mgr[e] EXCEPT !.state = "Closed", !.deadline = NoTimer]
    <3>1. /\ m \in Managers /\ m.state = "Closed"
          /\ m.deadline = NoTimer /\ m.remote = mgr[e].remote
      BY <1>0, ClosedManager
    <3>2. Obey(e, Answer(m, CloseQuic), chan, "none", NoPayload)
      BY <2>1, <2>2 DEF OnTimeout
    <3> HIDE DEF m
    <3> QED BY <1>0, <3>1, <3>2, ObeyCloseQuic
  <2>3. CASE mgr[e].state \notin {"LocalCloseSent", "RemoteCloseReceived"}
    BY <1>0, <2>1, <2>3, ObeyNone DEF OnTimeout
  <2> QED BY <2>2, <2>3
<1>7. ASSUME NEW e \in Ends, ReceiveClose(e) PROVE IndInv'
  <2> DEFINE pl == Head(chan[e]).payload
             out == said[Peer(e)]
  <2>1. /\ chan[e] # <<>> /\ Head(chan[e]).type = "CLOSE" /\ Taken(e, Rest(e))
        /\ Obey(e, OnCloseReceived(mgr[e], pl), Rest(e), "none", NoPayload)
    BY <1>7 DEF ReceiveClose, Incoming, Taken
  <2>2. GoodQueue(chan[e], how[Peer(e)], out)
    BY DEF IndInv
  <2>3. Head(chan[e]) = chan[e][1] /\ 1 \in 1..Len(chan[e])
    BY <2>1, <2>2, TailGood DEF GoodQueue
  <2>4. how[Peer(e)] \in {"initiated", "responded"} /\ pl = Truncate[out]
    BY <2>1, <2>2, <2>3 DEF GoodQueue
  <2>5. out \in Payloads
    BY <1>0, <2>4, PeerFacts DEF Manner
  <2>6. Truncate[pl] = Truncate[out] /\ Truncate[out] \in Payloads
    BY <2>4, <2>5, TruncateAssumption
  <2> HIDE DEF pl, out
  <2>7. CASE mgr[e].state = "Open"
    <3> DEFINE m == [state |-> "RemoteCloseReceived", remote |-> Truncate[pl],
                     deadline |-> CloseTimeout]
    <3>1. /\ m \in Managers /\ m.state = "RemoteCloseReceived"
          /\ m.deadline # NoTimer /\ m.remote = Truncate[out]
      BY <2>6, CloseTimeoutAssumption DEF Managers, CloseStates, NoTimer
    <3>2. Obey(e, Answer(m, None), Rest(e), "none", NoPayload)
      BY <2>1, <2>7 DEF OnCloseReceived
    <3> HIDE DEF m
    <3>3. /\ mgr' = [mgr EXCEPT ![e] = m] /\ chan' = Rest(e)
          /\ UNCHANGED <<quic, link, how, said>>
      BY <3>2 DEF Obey, Answer, None
    <3>4. m.remote = Truncate[said[Peer(e)]]
      BY <3>1 DEF out
    <3> QED BY <2>1, <2>4, <2>7, <3>1, <3>3, <3>4, RemoteCloseEffect
  <2>8. CASE mgr[e].state = "LocalCloseSent"
    <3> DEFINE m == [state |-> "Closed", remote |-> Truncate[pl], deadline |-> NoTimer]
    <3>1. /\ m \in Managers /\ m.state = "Closed"
          /\ m.deadline = NoTimer /\ m.remote = Truncate[out]
      BY <2>6 DEF Managers, CloseStates
    <3>2. Obey(e, Answer(m, CloseQuic), Rest(e), "none", NoPayload)
      BY <2>1, <2>8 DEF OnCloseReceived
    <3> HIDE DEF m
    <3>3. m.remote = Truncate[said[Peer(e)]]
      BY <3>1 DEF out
    <3> QED BY <2>1, <2>4, <3>1, <3>2, <3>3, ObeyCloseQuic
  <2>9. CASE mgr[e].state \notin {"Open", "LocalCloseSent"}
    BY <2>1, <2>9, ObeyNone DEF OnCloseReceived
  <2> QED BY <2>7, <2>8, <2>9
<1>8. ASSUME NEW e \in Ends, ReceiveFatalError(e) PROVE IndInv'
  <2>1. chan[e] # <<>> /\ Taken(e, Rest(e))
    BY <1>8 DEF ReceiveFatalError, Incoming, Taken
  <2>2. CASE Obey(e, OnFatalErrorReceived(mgr[e]), Rest(e), "none", NoPayload)
    BY <2>1, <2>2, CloseNowPreserves DEF OnFatalErrorReceived
  <2>3. CASE chan' = Rest(e) /\ UNCHANGED <<mgr, quic, link, how, said>>
    BY <2>1, <2>3, TakeEffect
  <2> QED BY <1>8, <2>2, <2>3 DEF ReceiveFatalError
<1>9. ASSUME NEW e \in Ends, ReceiveData(e) PROVE IndInv'
  BY <1>9, TakeEffect DEF ReceiveData, Incoming, Taken
<1>10. ASSUME NEW e \in Ends, NoticeReset(e) PROVE IndInv'
  <2>1. /\ mgr' = [mgr EXCEPT ![e] = CloseNow(mgr[e]).cm]
        /\ link' = "down" /\ UNCHANGED <<how, said>>
        /\ Taken(e, chan')
    BY <1>10 DEF NoticeReset, OnTransportReset, Taken
  <2>2. quic' \in [Ends -> {"open", "closed", "reset"}]
    BY <1>10 DEF NoticeReset, IndInv, TypeOK
  <2>3. mgr[e].deadline = NoTimer \/ ~IsClosed(mgr[e])
    BY DEF IndInv, TypeOK, TimerActive, IsClosing, IsClosed
  <2> DEFINE m == CloseNow(mgr[e]).cm
  <2>4. /\ m \in Managers /\ m.state = "Closed"
        /\ m.deadline = NoTimer /\ m.remote = mgr[e].remote
    BY <1>0, <2>3, ClosedManager DEF CloseNow, Answer, IsClosed
  <2> HIDE DEF m
  <2> QED BY <2>1, <2>2, <2>4, CloseEffect DEF m
<1>11. CASE LinkFails
  <2>1. link' = "down" /\ UNCHANGED <<mgr, chan, quic, how, said>>
    BY <1>11 DEF LinkFails
  <2>2. TypeOK' /\ \A e \in Ends : Manner(e)'
    BY <2>1 DEF IndInv, TypeOK, Manner
  <2> QED BY <2>1, <2>2 DEF IndInv
<1>12. CASE Tick
  <2>1. /\ mgr' = [e \in Ends |->
              [mgr[e] EXCEPT !.deadline = IF @ > 0 THEN @ - 1 ELSE @]]
        /\ UNCHANGED <<chan, quic, link, how, said>>
    BY <1>12 DEF Tick
  <2>2. ASSUME NEW e \in Ends
        PROVE  /\ mgr'[e] \in Managers
               /\ mgr'[e].state = mgr[e].state /\ mgr'[e].remote = mgr[e].remote
               /\ mgr'[e].deadline = NoTimer <=> mgr[e].deadline = NoTimer
    BY <1>0, <2>1, CloseTimeoutAssumption DEF Managers, NoTimer
  <2>3. TypeOK'
    BY <2>1, <2>2 DEF IndInv, TypeOK, TimerActive, IsClosing
  <2>4. \A e \in Ends : Manner(e)'
    BY <2>1, <2>2 DEF IndInv, Manner, IsClosed
  <2> QED BY <2>1, <2>3, <2>4 DEF IndInv
<1>13. CASE UNCHANGED vars
  BY <1>13 DEF vars, IndInv, TypeOK, Manner
<1> QED
  BY <1>1, <1>2, <1>3, <1>4, <1>5, <1>6, <1>7, <1>8, <1>9, <1>10, <1>11, <1>12, <1>13
     DEF Next, Step

\* A fresh connection satisfies it.
LEMMA InitEstablishes == Init => IndInv
<1> SUFFICES ASSUME Init PROVE IndInv
  OBVIOUS
<1>1. New \in Managers /\ New.state = "Open" /\ New.remote = NoPayload /\ New.deadline = NoTimer
  BY DEF New, Managers, CloseStates
<1>2. TypeOK
  BY <1>1 DEF Init, TypeOK, TimerActive, IsClosing
<1>3. \A e \in Ends : GoodQueue(chan[e], how[Peer(e)], said[Peer(e)])
  BY EmptyGood DEF Init
<1>4. \A e \in Ends : Manner(e)
  BY <1>1 DEF Init, Manner, IsClosed
<1> QED BY <1>2, <1>3, <1>4 DEF IndInv

-----------------------------------------------------------------------------
(* Theorems *)

\* The inductive invariant holds in every reachable state of a connection.
THEOREM ConnectionInvariant == Spec => []IndInv
BY InitEstablishes, StepPreserves, PTL DEF Spec

\* Every reachable state is well typed, and a timer runs exactly in the states
\* that wait.
THEOREM TypeCorrect == Spec => []TypeOK
<1>1. IndInv => TypeOK BY DEF IndInv
<1> QED BY <1>1, ConnectionInvariant, PTL

\* At most one CLOSE per endpoint, and only ERROR frames after it.
THEOREM CloseIsLastWordHolds == Spec => []CloseIsLastWord
<1>1. IndInv => CloseIsLastWord
  BY DEF IndInv, GoodQueue, Manner, CloseIsLastWord
<1> QED BY <1>1, ConnectionInvariant, PTL

\* An endpoint that responded responded to an initiator.
THEOREM ResponderHasInitiatorHolds == Spec => []ResponderHasInitiator
<1>1. IndInv => ResponderHasInitiator
  BY DEF IndInv, Manner, ResponderHasInitiator
<1> QED BY <1>1, ConnectionInvariant, PTL

\* When both managers are Closed the transport is gone, although a responder
\* is never told to close it.
THEOREM BothClosedMeansDownHolds == Spec => []BothClosedMeansDown
<1>1. ASSUME IndInv, \A e \in Ends : IsClosed(mgr[e]) PROVE link = "down"
  <2>1. SUFFICES ASSUME link = "up" PROVE FALSE
    BY <1>1 DEF IndInv, TypeOK
  <2>2. A \in Ends /\ Peer(A) \in Ends
    BY PeerFacts DEF Ends
  <2>3. how[A] = "responded" /\ how[Peer(A)] = "responded" /\ how[Peer(A)] = "initiated"
    BY <1>1, <2>1, <2>2 DEF IndInv, Manner
  <2> QED BY <2>3
<1>2. IndInv => BothClosedMeansDown
  BY <1>1 DEF BothClosedMeansDown
<1> QED BY <1>2, ConnectionInvariant, PTL

\* What an endpoint reports of its peer's CLOSE is what the peer said.
THEOREM PayloadAsSaidHolds == Spec => []PayloadAsSaid
<1>1. IndInv => PayloadAsSaid
  BY DEF IndInv, GoodQueue, Manner, PayloadAsSaid
<1> QED BY <1>1, ConnectionInvariant, PTL
=============================================================================
