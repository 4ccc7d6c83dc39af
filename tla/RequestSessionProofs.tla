------------------------ MODULE RequestSessionProofs ------------------------
(***************************************************************************)
(* The safety of the request session for every set of requests, every      *)
(* reading of them, every limit of the timer and whatever may fail: whose  *)
(* answer the client takes an answer for, and when it knows the server's   *)
(* parameters.                                                             *)
(***************************************************************************)
EXTENDS RequestSession, TLAPS

(* An exchange leaves a few events, of which "quit" is the last: only with *)
(* it does the thread leave its event loop.                                *)
Posted ==
  [kind : {"gone", "timeout", "disconnect", "quit"}] \cup [kind : {"answer"}, reply : Replies]

EventsEnd ==
  /\ events \in Seq(Posted) /\ Len(events) <= 3
  /\ thread = "done" <=> events # << >>
  /\ \A i \in 1 .. Len(events) : events[i].kind = "quit" <=> i = Len(events)

(* The state's types, without what EventsEnd says of the events.           *)
StateTypes ==
  /\ connection \in {"none", "open", "lost"}
  /\ pending \in Parameters /\ current \in Parameters
  /\ buffer \in Numbered
  /\ thread \in {"idle", "started", "listening", "done", "quitting"}
  /\ ticks \in 0 .. TickLimit
  /\ thread = "listening" => ticks < TickLimit
  /\ toServer \in Seq(Numbered)
  /\ toClient \in Seq(Replies)
  /\ up \in BOOLEAN
  /\ server \in Requests \ Refused
  /\ asked \in 0 .. MaxRequests
  /\ exchange \in 0 .. MaxRequests
  /\ accepted \subseteq Parameters
  /\ blur \in {"blurred", "healing", "none"}

(* A connection is lost only when the server has closed its end, and a     *)
(* thread that has still to hear of it takes it for open.  Nothing is      *)
(* asked of a server before there is a connection.                         *)
Line ==
  /\ connection = "none" => thread = "idle"
  /\ connection = "lost" => ~up
  /\ \A i \in 1 .. Len(events) : events[i].kind = "disconnect" => ~up
  /\ thread \in {"started", "listening"} => connection = "open"
  /\ ~up => toServer = << >>

(* Unless an exchange was given up, the thread listens for one answer at   *)
(* most, to the request sent last, and leaves nothing behind.              *)
OneAnswer ==
  blur # "blurred" =>
    /\ thread # "listening" => toServer = << >> /\ toClient = << >>
    /\ Len(toServer) + Len(toClient) <= 1
    /\ \A i \in 1 .. Len(toServer) : toServer[i].number = exchange
    /\ \A i \in 1 .. Len(toClient) : toClient[i].number = exchange
    /\ \A i \in 1 .. Len(events) :
         events[i].kind = "answer" => events[i].reply.number = exchange

(* A consent that the GUI thread has not seen.                             *)
ConsentUnderWay ==
  \/ \E i \in 1 .. Len(toClient) : toClient[i].text = "updating"
  \/ \E i \in 1 .. Len(events) :
       events[i].kind = "answer" /\ events[i].reply.text = "updating"

(* Nothing has come between a request and the consent to it: what is       *)
(* pending is what the server was asked for, or what it has consented to.  *)
Consent ==
  up /\ blur # "blurred" =>
    /\ thread = "started" => pending = Meaning(buffer.request)
    /\ \A i \in 1 .. Len(toServer) :
         toServer[i].request \in Refused \/ pending = Meaning(toServer[i].request)
    /\ ConsentUnderWay => pending = Meaning(server)
    /\ blur = "none" => ConsentUnderWay \/ current = Meaning(server)

IInv == EventsEnd /\ StateTypes /\ Line /\ OneAnswer /\ Consent

USE DEF guiVars, netVars

-----------------------------------------------------------------------------
(* The invariant is what the runs check.                                   *)
LEMMA IInvImplies ==
  IInv => TypeOK /\ OwnAnswers /\ Agreement
<1> SUFFICES ASSUME IInv PROVE TypeOK /\ OwnAnswers /\ Agreement
  OBVIOUS
<1>1. events \in Seq(Posted) /\ DOMAIN events = 1 .. Len(events)
  BY DEF IInv, EventsEnd
<1>2. \A i \in DOMAIN events :
        \/ events[i].kind = "answer" /\ events[i].reply \in Replies
        \/ events[i].kind \in {"gone", "timeout", "disconnect", "quit"}
  BY <1>1 DEF Posted
<1>3. TypeOK
  BY <1>2 DEF IInv, StateTypes, EventsEnd, TypeOK
<1>4. OwnAnswers
  BY <1>1 DEF IInv, OneAnswer, OwnAnswers, Answers
<1>5. Agreement
  BY <1>1 DEF IInv, Consent, ConsentUnderWay, EventsEnd, Agreement, Quiet, Outstanding
<1> QED BY <1>3, <1>4, <1>5

(* Nothing is asked at the start.                                          *)
LEMMA SessionInit ==
  Init => IInv
<1> SUFFICES ASSUME Init PROVE IInv
  OBVIOUS
<1>1. EventsEnd
  BY DEF Init, EventsEnd
<1>2. StateTypes
  BY RequestsAssumption, LimitAssumption DEF Init, StateTypes, Parameters, Numbered
<1>3. Line /\ OneAnswer /\ Consent
  BY DEF Init, Line, OneAnswer, Consent
<1> QED BY <1>1, <1>2, <1>3 DEF IInv

-----------------------------------------------------------------------------
(* Connecting changes nothing but the connection.                          *)
LEMMA ConnectKeeps ==
  ASSUME IInv, Connect
  PROVE  IInv'
<1>1. EventsEnd' /\ StateTypes'
  BY DEF Connect, IInv, EventsEnd, StateTypes
<1>2. Line' /\ OneAnswer' /\ Consent'
  BY DEF Connect, IInv, Line, OneAnswer, Consent, ConsentUnderWay
<1> QED BY <1>1, <1>2 DEF IInv

(* A request in an exchange blurs what is known, and one between exchanges *)
(* changes nothing that an exchange looks at.                              *)
LEMMA RequestKeeps ==
  ASSUME IInv, NEW r \in Requests, Request(r)
  PROVE  IInv'
<1>1. EventsEnd'
  BY DEF Request, IInv, EventsEnd, StateTypes
<1>2. StateTypes'
  BY LimitAssumption DEF Request, IInv, StateTypes, Parameters, Numbered
<1>3. CASE connection # "open"
  <2>1. UNCHANGED <<connection, buffer, thread, events, up, toServer, toClient, server, exchange,
                    blur, current>>
    BY <1>3 DEF Request
  <2>2. Line' /\ OneAnswer'
    BY <2>1 DEF IInv, Line, OneAnswer
  <2>3. up /\ blur # "blurred" => ~ConsentUnderWay /\ thread # "started" /\ toServer = << >>
    BY <1>3 DEF IInv, Line, OneAnswer, EventsEnd, StateTypes, ConsentUnderWay
  <2>4. Consent'
    BY <2>1, <2>3 DEF IInv, Consent, ConsentUnderWay
  <2> QED BY <1>1, <1>2, <2>2, <2>4 DEF IInv
<1>4. CASE connection = "open" /\ blur' # "blurred"
  <2>1. /\ thread # "listening" /\ Answers = {}
        /\ thread = "started" => blur # "blurred"
        /\ blur = "blurred" => toServer = << >> /\ toClient = << >>
        /\ blur' = "none" => blur = "none"
        /\ thread' \in {thread, "started"} /\ (thread # "idle" => thread' = thread)
        /\ buffer' = [request |-> r, number |-> asked'] /\ pending' = Meaning(r)
    BY <1>4 DEF Request, IInv, StateTypes, Outstanding
  <2>2. UNCHANGED <<connection, events, up, toServer, toClient, server, exchange, current>>
    BY DEF Request
  <2>3. toServer = << >> /\ toClient = << >>
    BY <2>1 DEF IInv, OneAnswer
  <2>4. \A i \in 1 .. Len(events) : events[i].kind # "answer"
    BY <2>1 DEF IInv, EventsEnd, Answers
  <2>5. ~ConsentUnderWay /\ ~ConsentUnderWay'
    BY <2>2, <2>3, <2>4 DEF ConsentUnderWay
  <2>6. Line'
    BY <1>4, <2>1, <2>2 DEF IInv, Line
  <2>7. OneAnswer'
    BY <2>2, <2>3, <2>4 DEF OneAnswer
  <2>8. Consent'
    BY <2>1, <2>2, <2>3, <2>5 DEF IInv, Consent
  <2> QED BY <1>1, <1>2, <2>6, <2>7, <2>8 DEF IInv
<1>5. CASE connection = "open" /\ blur' = "blurred"
  <2>1. OneAnswer' /\ Consent'
    BY <1>5 DEF OneAnswer, Consent
  <2>2. UNCHANGED <<connection, events, up, toServer>>
    BY DEF Request
  <2>3. Line'
    BY <1>5, <2>2 DEF IInv, Line
  <2> QED BY <1>1, <1>2, <2>1, <2>3 DEF IInv
<1> QED BY <1>3, <1>4, <1>5

(* One request is sent, over a line that is empty unless blurred.          *)
LEMMA ProcRequestKeeps ==
  ASSUME IInv, ProcRequest
  PROVE  IInv'
<1>1. EventsEnd'
  BY DEF ProcRequest, IInv, EventsEnd
<1>2. PICK m : /\ m \in Numbered /\ m.number = buffer.number
               /\ m = buffer \/ m.request \in Refused
               /\ toServer' = toServer \/ (up /\ toServer' = Append(toServer, m))
  BY RequestsAssumption DEF ProcRequest, IInv, StateTypes, Numbered
<1>3. StateTypes'
  <2>1. toServer' \in Seq(Numbered)
    BY <1>2 DEF IInv, StateTypes
  <2>2. exchange' \in 0 .. MaxRequests
    BY DEF ProcRequest, IInv, StateTypes, Numbered
  <2>3. ticks' \in 0 .. TickLimit /\ ticks' < TickLimit
    BY LimitAssumption DEF ProcRequest
  <2> QED BY <2>1, <2>2, <2>3 DEF ProcRequest, IInv, StateTypes
<1>4. Line'
  BY <1>2 DEF ProcRequest, IInv, Line
<1>5. OneAnswer' /\ Consent'
  BY <1>2 DEF ProcRequest, IInv, EventsEnd, StateTypes, OneAnswer, Consent, ConsentUnderWay
<1> QED BY <1>1, <1>3, <1>4, <1>5 DEF IInv

(* A thread has left its event loop with every event handled.              *)
LEMMA ThreadEndsKeeps ==
  ASSUME IInv, ThreadEnds
  PROVE  IInv'
<1>1. EventsEnd' /\ StateTypes'
  BY DEF ThreadEnds, IInv, EventsEnd, StateTypes
<1>2. Line' /\ OneAnswer' /\ Consent'
  BY DEF ThreadEnds, IInv, Line, OneAnswer, Consent, ConsentUnderWay
<1> QED BY <1>1, <1>2 DEF IInv

(* A server that drops the client forgets its requests, not its answers.   *)
LEMMA DropKeeps ==
  ASSUME IInv, Drop
  PROVE  IInv'
<1>1. EventsEnd'
  BY DEF Drop, IInv, EventsEnd
<1>2. StateTypes'
  <2>1. server' \in Requests \ Refused /\ toServer' \in Seq(Numbered)
    BY RequestsAssumption DEF Drop
  <2> QED BY <2>1 DEF Drop, IInv, StateTypes
<1>3. Line' /\ OneAnswer' /\ Consent'
  BY DEF Drop, IInv, Line, OneAnswer, Consent, StateTypes
<1> QED BY <1>1, <1>2, <1>3 DEF IInv

-----------------------------------------------------------------------------
(* The four ways a tick ends.  The thread listens only while nothing is    *)
(* queued for the GUI thread.                                              *)
LEMMA Listening ==
  ASSUME IInv, Tick
  PROVE  /\ thread = "listening" /\ events = << >> /\ connection = "open"
         /\ ticks' \in 0 .. TickLimit
         /\ UNCHANGED <<pending, current, asked, buffer, toServer, up, server, accepted, exchange>>
BY LimitAssumption DEF Tick, IInv, EventsEnd, StateTypes, Line

(* An answer is taken from the connection and posted once.                 *)
LEMMA ReceiveKeeps ==
  ASSUME IInv, Tick, Receive
  PROVE  IInv'
<1> DEFINE h == Head(toClient)
<1>1. /\ toClient \in Seq(Replies) /\ toClient # << >> /\ h = toClient[1] /\ h \in Replies
      /\ toServer \in Seq(Numbered) /\ 1 \in 1 .. Len(toClient)
  BY DEF Receive, IInv, StateTypes
<1>2. events' = <<Answer(h), Event("quit")>> /\ toClient' = << >> /\ thread' = "done"
  BY Listening DEF Receive
<1>3. /\ Len(events') = 2
      /\ events'[1].kind = "answer" /\ events'[1].reply = h /\ events'[2].kind = "quit"
  BY <1>2 DEF Answer, Event
<1>4. EventsEnd'
  <2>1. Answer(h) \in Posted /\ Event("quit") \in Posted
    BY <1>1 DEF Posted, Answer, Event
  <2>2. events' \in Seq(Posted)
    BY <1>2, <2>1
  <2> QED BY <1>2, <1>3, <2>2 DEF EventsEnd
<1>5. StateTypes'
  BY <1>2, Listening DEF Receive, IInv, StateTypes
<1>6. Line'
  BY <1>2, <1>3, Listening DEF Receive, IInv, Line
<1>7. blur # "blurred" => Len(toClient) = 1 /\ toServer = << >> /\ h.number = exchange
  <2> SUFFICES ASSUME blur # "blurred"
               PROVE  Len(toClient) = 1 /\ toServer = << >> /\ h.number = exchange
    OBVIOUS
  <2>1. Len(toServer) + Len(toClient) <= 1 /\ h.number = exchange
    BY <1>1 DEF IInv, OneAnswer
  <2>2. Len(toServer) \in Nat /\ Len(toClient) \in Nat /\ Len(toClient) >= 1
    BY <1>1
  <2>3. Len(toServer) = 0 /\ Len(toClient) = 1
    BY <2>1, <2>2
  <2> QED BY <1>1, <2>1, <2>3
<1>8. OneAnswer'
  BY <1>2, <1>3, <1>7, Listening DEF Receive, OneAnswer
<1>9. Consent'
  <2>1. blur # "blurred" => (ConsentUnderWay' <=> ConsentUnderWay)
    BY <1>1, <1>2, <1>3, <1>7, Listening DEF ConsentUnderWay
  <2> QED BY <1>2, <1>7, <2>1, Listening DEF Receive, IInv, Consent
<1> QED BY <1>4, <1>5, <1>6, <1>8, <1>9 DEF IInv

(* The thread finds the server's end closed.                               *)
LEMMA ServerGoneKeeps ==
  ASSUME IInv, Tick, ServerGone
  PROVE  IInv'
<1>1. /\ events' = <<Event("gone"), Event("disconnect"), Event("quit")>>
      /\ ~up /\ thread' = "done" /\ connection' = "lost"
      /\ toClient = << >> /\ toServer = << >> /\ UNCHANGED <<toClient, blur>>
  <2>1. /\ events' = events \o <<Event("gone"), Event("disconnect"), Event("quit")>>
        /\ ~up /\ thread' = "done" /\ connection' = "lost"
        /\ toClient = << >> /\ UNCHANGED <<toClient, blur>>
    BY DEF ServerGone
  <2>2. toServer = << >>
    BY <2>1 DEF IInv, Line
  <2>3. << >> \o <<Event("gone"), Event("disconnect"), Event("quit")>>
        = <<Event("gone"), Event("disconnect"), Event("quit")>>
    OBVIOUS
  <2> QED BY <2>1, <2>2, <2>3, Listening
<1>2. /\ Len(events') = 3
      /\ events'[1].kind = "gone" /\ events'[2].kind = "disconnect" /\ events'[3].kind = "quit"
  BY <1>1 DEF Event
<1>3. EventsEnd'
  <2>1. \A kind \in {"gone", "disconnect", "quit"} : Event(kind) \in Posted
    BY DEF Posted, Event
  <2>2. events' \in Seq(Posted)
    BY <1>1, <2>1
  <2> QED BY <1>1, <1>2, <2>2 DEF EventsEnd
<1>4. StateTypes'
  BY <1>1, Listening DEF IInv, StateTypes
<1>5. Line' /\ OneAnswer' /\ Consent'
  BY <1>1, <1>2, Listening DEF Line, OneAnswer, Consent
<1> QED BY <1>3, <1>4, <1>5 DEF IInv

(* A timeout blurs the exchange.                                           *)
LEMMA TimeOutKeeps ==
  ASSUME IInv, Tick, TimeOut
  PROVE  IInv'
<1>1. /\ events' = <<Event("timeout"), Event("quit")>> /\ thread' = "done" /\ blur' = "blurred"
      /\ UNCHANGED <<connection, toClient>>
  BY Listening DEF TimeOut
<1>2. Len(events') = 2 /\ events'[1].kind = "timeout" /\ events'[2].kind = "quit"
  BY <1>1 DEF Event
<1>3. EventsEnd'
  <2>1. Event("timeout") \in Posted /\ Event("quit") \in Posted
    BY DEF Posted, Event
  <2>2. events' \in Seq(Posted)
    BY <1>1, <2>1
  <2> QED BY <1>1, <1>2, <2>2 DEF EventsEnd
<1>4. StateTypes'
  BY <1>1, Listening DEF IInv, StateTypes
<1>5. Line' /\ OneAnswer' /\ Consent'
  BY <1>1, <1>2, Listening DEF IInv, Line, OneAnswer, Consent
<1> QED BY <1>3, <1>4, <1>5 DEF IInv

(* A tick ends the exchange, or changes nothing but the count.             *)
LEMMA TickKeeps ==
  ASSUME IInv, Tick
  PROVE  IInv'
<1>1. CASE NothingYet
  <2>1. EventsEnd' /\ StateTypes'
    BY <1>1, Listening DEF NothingYet, IInv, EventsEnd, StateTypes
  <2>2. Line' /\ OneAnswer' /\ Consent'
    BY <1>1, Listening DEF NothingYet, IInv, Line, OneAnswer, Consent, ConsentUnderWay
  <2> QED BY <2>1, <2>2 DEF IInv
<1> QED BY <1>1, ReceiveKeeps, ServerGoneKeeps, TimeOutKeeps DEF Tick

-----------------------------------------------------------------------------
(* The GUI thread takes the events in order: "quit" only when it is alone. *)
LEMMA HandleEventKeeps ==
  ASSUME IInv, HandleEvent
  PROVE  IInv'
<1> DEFINE h == Head(events)
<1>1. /\ events \in Seq(Posted) /\ events # << >> /\ h = events[1] /\ thread = "done"
      /\ 1 \in 1 .. Len(events)
  BY DEF HandleEvent, IInv, EventsEnd
<1>2. /\ events' \in Seq(Posted) /\ Len(events') = Len(events) - 1
      /\ \A i \in 1 .. Len(events') : i + 1 \in 1 .. Len(events) /\ events'[i] = events[i + 1]
  BY <1>1 DEF HandleEvent
<1>3. /\ UNCHANGED <<pending, asked, buffer, ticks, toServer, toClient, up, server, accepted,
                      exchange>>
      /\ blur' \in {blur, "none"} /\ (blur = "blurred" <=> blur' = "blurred")
      /\ current' \in {current, pending}
  BY DEF HandleEvent, ReceivedMessage, IInv, StateTypes
<1>4. EventsEnd'
  <2>1. h.kind = "quit" <=> Len(events) = 1
    BY <1>1 DEF IInv, EventsEnd
  <2>2. thread' = "done" <=> events' # << >>
    <3>1. thread' = "done" <=> h.kind # "quit"
      BY <1>1 DEF HandleEvent
    <3>2. Len(events) \in Nat /\ (Len(events) = 1 <=> Len(events') = 0)
      BY <1>1, <1>2
    <3>3. events' # << >> <=> Len(events') # 0
      BY <1>2
    <3> QED BY <2>1, <3>1, <3>2, <3>3
  <2>3. \A i \in 1 .. Len(events') : events'[i].kind = "quit" <=> i = Len(events')
    BY <1>1, <1>2 DEF IInv, EventsEnd
  <2> QED BY <1>1, <1>2, <2>2, <2>3 DEF IInv, EventsEnd
<1>5. StateTypes'
  BY <1>1, <1>3 DEF HandleEvent, IInv, StateTypes
<1>6. Line'
  BY <1>1, <1>2, <1>3 DEF HandleEvent, IInv, Line
<1>7. blur # "blurred" => toServer = << >> /\ toClient = << >>
  BY <1>1 DEF IInv, OneAnswer
<1>8. OneAnswer'
  BY <1>2, <1>3, <1>7 DEF IInv, OneAnswer
<1>9. Consent'
  <2> SUFFICES ASSUME up, blur # "blurred"
               PROVE  /\ ConsentUnderWay' => pending = Meaning(server)
                      /\ blur' = "none" => ConsentUnderWay' \/ current' = Meaning(server)
    BY <1>1, <1>3, <1>7 DEF HandleEvent, Consent
  <2>1. ConsentUnderWay' => ConsentUnderWay
    BY <1>2, <1>3 DEF ConsentUnderWay
  <2>2. ConsentUnderWay => pending = Meaning(server)
    BY DEF IInv, Consent
  <2>3. CASE h.kind = "answer" /\ h.reply.text = "updating"
    <3>1. ConsentUnderWay
      BY <1>1, <2>3 DEF ConsentUnderWay
    <3>2. current' = pending
      BY <2>3 DEF HandleEvent, ReceivedMessage
    <3> QED BY <2>2, <3>1, <3>2
  <2>4. CASE ~(h.kind = "answer" /\ h.reply.text = "updating")
    <3>1. UNCHANGED <<current, blur>>
      BY <2>4 DEF HandleEvent, ReceivedMessage
    <3>2. ASSUME NEW i \in 1 .. Len(events),
                 events[i].kind = "answer", events[i].reply.text = "updating"
          PROVE  ConsentUnderWay'
      <4>1. i # 1
        BY <1>1, <2>4, <3>2
      <4>2. i - 1 \in 1 .. Len(events') /\ events'[i - 1] = events[i]
        BY <1>1, <1>2, <4>1
      <4> QED BY <3>2, <4>2 DEF ConsentUnderWay
    <3>3. ConsentUnderWay => ConsentUnderWay'
      BY <1>7, <3>2 DEF ConsentUnderWay
    <3> QED BY <2>1, <2>2, <3>1, <3>3 DEF IInv, Consent
  <2> QED BY <2>3, <2>4
<1> QED BY <1>4, <1>5, <1>6, <1>8, <1>9 DEF IInv

-----------------------------------------------------------------------------
(* The server's answer to its oldest request.                              *)
LEMMA ServeKeeps ==
  ASSUME IInv, Serve
  PROVE  IInv'
<1> DEFINE next == Head(toServer)
           text == IF next.request \in Refused THEN "refused"
                   ELSE IF next.request = server THEN "already" ELSE "updating"
           reply == [text |-> text, number |-> next.number]
<1>1. /\ toServer \in Seq(Numbered) /\ toServer # << >> /\ next = toServer[1]
      /\ next \in Numbered /\ 1 \in 1 .. Len(toServer) /\ toClient \in Seq(Replies) /\ up
  BY DEF Serve, IInv, StateTypes
<1>2. UNCHANGED <<connection, pending, current, asked, buffer, thread, ticks, events, up,
                  exchange, blur>>
  BY DEF Serve
<1>3. toServer' = Tail(toServer) /\ toClient' = Append(toClient, reply)
  BY DEF Serve
<1>4. reply \in Replies /\ reply.text = text /\ reply.number = next.number
  BY <1>1 DEF Numbered, Replies
<1>5. /\ text = "updating" => next.request \notin Refused /\ server' = next.request
      /\ text # "updating" => UNCHANGED server
  BY DEF Serve
<1>6. EventsEnd'
  BY <1>2 DEF IInv, EventsEnd
<1>7. StateTypes'
  <2>1. toServer' \in Seq(Numbered) /\ toClient' \in Seq(Replies)
    BY <1>1, <1>3, <1>4
  <2>2. next.request \in Requests
    BY <1>1 DEF Numbered
  <2>3. server' \in Requests \ Refused
    BY <1>5, <2>2 DEF IInv, StateTypes
  <2>4. accepted' \subseteq Parameters
    BY <2>2 DEF Serve, IInv, StateTypes, Parameters
  <2> QED BY <1>2, <2>1, <2>3, <2>4 DEF IInv, StateTypes
<1>8. Line'
  BY <1>1, <1>2 DEF IInv, Line
<1>9. CASE blur = "blurred"
  <2>1. OneAnswer' /\ Consent'
    BY <1>2, <1>9 DEF OneAnswer, Consent
  <2> QED BY <1>6, <1>7, <1>8, <2>1 DEF IInv
<1>10. CASE blur # "blurred"
  <2>1. /\ thread = "listening" /\ events = << >> /\ Len(toServer) = 1 /\ toClient = << >>
        /\ next.number = exchange
    <3>1. thread = "listening"
      BY <1>1, <1>10 DEF IInv, OneAnswer
    <3>2. events = << >>
      BY <3>1 DEF IInv, EventsEnd
    <3>3. Len(toServer) + Len(toClient) <= 1 /\ next.number = exchange
      BY <1>1, <1>10 DEF IInv, OneAnswer
    <3>4. Len(toServer) \in Nat /\ Len(toClient) \in Nat /\ Len(toServer) >= 1
      BY <1>1
    <3>5. Len(toServer) + Len(toClient) <= 1
      BY <3>3
    <3>6. Len(toServer) = 1 /\ Len(toClient) = 0
      <4>1. \A m, n \in Nat : m + n <= 1 /\ m >= 1 => m = 1 /\ n = 0
        OBVIOUS
      <4> QED BY <3>4, <3>5, <4>1
    <3> QED BY <1>1, <3>1, <3>2, <3>3, <3>6
  <2>2. /\ Len(toServer') = 0 /\ Len(toClient') = 1 /\ toClient'[1] = reply
    BY <1>1, <1>3, <2>1
  <2>3. OneAnswer'
    BY <1>2, <1>4, <2>1, <2>2 DEF OneAnswer
  <2>4. ~ConsentUnderWay /\ (ConsentUnderWay' <=> text = "updating")
    BY <1>2, <1>4, <2>1, <2>2 DEF ConsentUnderWay
  <2>5. next.request \in Refused \/ pending = Meaning(next.request)
    BY <1>1, <1>10 DEF IInv, Consent
  <2>6. Consent'
    BY <1>2, <1>5, <1>10, <2>1, <2>2, <2>4, <2>5, <1>1 DEF IInv, Consent
  <2> QED BY <1>6, <1>7, <1>8, <2>3, <2>6 DEF IInv
<1> QED BY <1>9, <1>10

-----------------------------------------------------------------------------
(* Every step keeps the invariant.                                         *)
LEMMA SessionStep ==
  IInv /\ [Next]_vars => IInv'
<1> SUFFICES ASSUME IInv, [Next]_vars PROVE IInv'
  OBVIOUS
<1>1. CASE UNCHANGED vars
  <2>1. EventsEnd' /\ StateTypes'
    BY <1>1 DEF vars, IInv, EventsEnd, StateTypes
  <2>2. Line' /\ OneAnswer' /\ Consent'
    BY <1>1 DEF vars, IInv, Line, OneAnswer, Consent, ConsentUnderWay
  <2> QED BY <2>1, <2>2 DEF IInv
<1>2. CASE Next
  BY <1>2, ConnectKeeps, RequestKeeps, ProcRequestKeeps, TickKeeps, ThreadEndsKeeps,
     HandleEventKeeps, ServeKeeps, DropKeeps DEF Next
<1> QED BY <1>1, <1>2

(* The invariant holds of every behaviour.                                 *)
LEMMA SessionAlways ==
  Spec => []IInv
<1>1. Init => IInv
  BY SessionInit
<1>2. IInv /\ [Next]_vars => IInv'
  BY SessionStep
<1> QED BY <1>1, <1>2, PTL DEF Spec

(* Every variable of the session keeps to its type, and an exchange leaves *)
(* at most three events.                                                   *)
THEOREM TypeCorrect ==
  Spec => []TypeOK
<1>1. IInv => TypeOK
  BY IInvImplies
<1> QED BY <1>1, SessionAlways, PTL

(* The answer that receivedMessage shows is the answer to the request that *)
(* procRequest sent last, unless an exchange timed out before, or one was  *)
(* asked for while the one before was under way.                           *)
THEOREM AnswersOwn ==
  Spec => []OwnAnswers
<1>1. IInv => OwnAnswers
  BY IInvImplies
<1> QED BY <1>1, SessionAlways, PTL

(* After a consent that no other request and no timeout disturbed, the     *)
(* current parameters of the client are those of the server.               *)
THEOREM ClientAgrees ==
  Spec => []Agreement
<1>1. IInv => Agreement
  BY IInvImplies
<1> QED BY <1>1, SessionAlways, PTL
=============================================================================
