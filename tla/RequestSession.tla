--------------------------- MODULE RequestSession ---------------------------
(***************************************************************************)
(* The desktop client's session with a camera server.  The GUI thread puts *)
(* a request into the buffer of its NetworkToQtInterface and starts the    *)
(* request thread, which does nothing while that thread still runs the     *)
(* last exchange.  The thread sends the buffer and looks for an answer at  *)
(* every tick of a timer, up to a limit.  What it finds is queued for the  *)
(* GUI thread, and so is the end of the thread's event loop.  The server,  *)
(* in turn, answers the requests of a connection one by one.               *)
(***************************************************************************)
EXTENDS Naturals, Sequences

CONSTANTS
  Requests,       (* what may be asked for, as it is sent                  *)
  Refused,        (* those the server finds malformed                      *)
  Meaning(_),     (* the parameters meant: a bit rate of 0 is a default    *)
  ClientDefault,  (* EncodingParameters()                                  *)
  ServerDefault,  (* setEncoderParams(352, 288, 30), as a request          *)
  TickLimit,      (* ticks without an answer: 10 in listenForResponse      *)
  Failures,       (* what may fail: send, garble, drop                     *)
  MaxRequests     (* bound: requests of the user and of the bandwidth file *)

ASSUME RequestsAssumption ==
  Refused \subseteq Requests /\ ServerDefault \in Requests \ Refused
ASSUME LimitAssumption == TickLimit \in Nat \ {0} /\ MaxRequests \in Nat

VARIABLES
  connection,       (* m_is_connected: none, open, lost                    *)
  pending, current, (* m_pending_parameters, m_current_params              *)
  buffer,           (* m_buffer: a request and (history) its number        *)
  thread,           (* m_request_thread: idle, started, listening, done    *)
                    (* (has emitted finished), quitting                    *)
  ticks,            (* of m_response_loop                                  *)
  events,           (* queued for the GUI thread                           *)
  toServer, toClient, up, (* the connection, and whether the server's end  *)
                    (* is open                                             *)
  server,           (* the server's parameters, as they were sent to it    *)
  asked,            (* the number of requests so far                       *)
  exchange,         (* history: the number of the request last sent        *)
  accepted,         (* history: all the parameters the server took over    *)
  blur              (* history: whether current may differ from server     *)

guiVars == <<pending, current, asked>>
netVars == <<toServer, toClient, up, server, accepted>>
vars == <<connection, guiVars, buffer, thread, ticks, events, netVars, exchange, blur>>

Parameters == {Meaning(r) : r \in Requests} \cup {ClientDefault}
Numbered == [request : Requests, number : 0 .. MaxRequests]
Replies == [text : {"updating", "already", "refused"}, number : 0 .. MaxRequests]
Event(kind) == [kind |-> kind]
Answer(reply) == [kind |-> "answer", reply |-> reply]
Answers == {i \in DOMAIN events : events[i].kind = "answer"}
Outstanding == toServer # << >> \/ toClient # << >>

-----------------------------------------------------------------------------
Init ==
  /\ connection = "none"
  /\ pending = ClientDefault
  /\ current = ClientDefault
  /\ buffer = [request |-> ServerDefault, number |-> 0]
  /\ thread = "idle"
  /\ ticks = 0
  /\ events = << >>
  /\ toServer = << >>
  /\ toClient = << >>
  /\ up = TRUE
  /\ server = ServerDefault
  /\ asked = 0
  /\ exchange = 0
  /\ accepted = {}
  /\ blur = "blurred"

(* connectToServer, one of its attempts succeeds.                          *)
Connect ==
  /\ connection = "none"
  /\ connection' = "open"
  /\ UNCHANGED <<guiVars, buffer, thread, ticks, events, netVars, exchange, blur>>

(* resizeVideo with sendRequest.  The pending parameters are set whether   *)
(* or not the request is sent: without a connection it is not, and start() *)
(* of a thread that still runs does nothing.                               *)
Request(r) ==
  /\ asked < MaxRequests
  /\ asked' = asked + 1
  /\ pending' = Meaning(r)
  /\ IF connection = "open"
     THEN /\ buffer' = [request |-> r, number |-> asked']
          /\ thread' = IF thread = "idle" THEN "started" ELSE thread
          /\ blur' = IF thread = "listening" \/ Answers # {} THEN "blurred"
                     ELSE IF thread = "idle" /\ ~Outstanding /\ blur = "blurred"
                     THEN "healing" ELSE blur
     ELSE UNCHANGED <<buffer, thread, blur>>
  /\ UNCHANGED <<connection, current, ticks, events, netVars, exchange>>

(* Mutant: the request is sent a second time.                              *)
ProcRequestTwice ==
  /\ thread = "started"
  /\ thread' = "listening"
  /\ ticks' = 0
  /\ exchange' = buffer.number
  /\ toServer' = IF up THEN toServer \o <<buffer, buffer>> ELSE toServer
  /\ UNCHANGED <<connection, guiVars, buffer, events, toClient, up, server, accepted,
                 blur>>

(* procRequest: the result of Send is ignored, and what it sends was freed *)
(* before: the server may find it malformed.                               *)
ProcRequest ==
  /\ thread = "started"
  /\ thread' = "listening"
  /\ ticks' = 0
  /\ exchange' = buffer.number
  /\ \/ toServer' = IF up THEN Append(toServer, buffer) ELSE toServer
     \/ /\ "send" \in Failures
        /\ UNCHANGED toServer
     \/ /\ "garble" \in Failures
        /\ \E r \in Refused :
             toServer' = IF up THEN Append(toServer, [buffer EXCEPT !.request = r])
                         ELSE toServer
  /\ UNCHANGED <<connection, guiVars, buffer, events, toClient, up, server, accepted,
                 blur>>

-----------------------------------------------------------------------------
(* listenForResponse, after the timer's own tick().                        *)

(* One recv takes all there is; the text ends with the first answer.       *)
Receive ==
  /\ toClient # << >>
  /\ toClient' = << >>
  /\ events' = events \o <<Answer(Head(toClient)), Event("quit")>>
  /\ thread' = "done"
  /\ UNCHANGED <<connection, blur>>

ServerGone ==
  /\ toClient = << >> /\ ~up
  /\ connection' = "lost"
  /\ events' = events \o <<Event("gone"), Event("disconnect"), Event("quit")>>
  /\ thread' = "done"
  /\ UNCHANGED <<toClient, blur>>

(* Mutant: a timeout is shown, and the thread is left running.             *)
TimeOutRunning ==
  /\ toClient = << >> /\ up
  /\ ticks' >= TickLimit
  /\ events' = events \o <<Event("timeout")>>
  /\ thread' = "done"
  /\ blur' = "blurred"
  /\ UNCHANGED <<connection, toClient>>

TimeOut ==
  /\ toClient = << >> /\ up
  /\ ticks' >= TickLimit
  /\ events' = events \o <<Event("timeout"), Event("quit")>>
  /\ thread' = "done"
  /\ blur' = "blurred"
  /\ UNCHANGED <<connection, toClient>>

NothingYet ==
  /\ toClient = << >> /\ up
  /\ ticks' < TickLimit
  /\ UNCHANGED <<connection, toClient, events, thread, blur>>

Tick ==
  /\ thread = "listening"
  /\ ticks' = ticks + 1
  /\ Receive \/ ServerGone \/ TimeOut \/ NothingYet
  /\ UNCHANGED <<guiVars, buffer, toServer, up, server, accepted, exchange>>

(* The event loop of the thread has been left.                             *)
ThreadEnds ==
  /\ thread = "quitting"
  /\ thread' = "idle"
  /\ UNCHANGED <<connection, guiVars, buffer, ticks, events, netVars, exchange, blur>>

-----------------------------------------------------------------------------
(* Mutant: any answer of the server passes for its consent.                *)
ReceivedMessageAny(event) ==
  IF event.kind = "answer"
  THEN /\ current' = pending
       /\ blur' = IF blur = "healing" THEN "none" ELSE blur
  ELSE UNCHANGED <<current, blur>>

(* receivedMessage: a consent makes current what is pending by now.        *)
ReceivedMessage(event) ==
  IF event.kind = "answer" /\ event.reply.text = "updating"
  THEN /\ current' = pending
       /\ blur' = IF blur = "healing" THEN "none" ELSE blur
  ELSE UNCHANGED <<current, blur>>

(* The GUI thread takes its next event.                                    *)
HandleEvent ==
  /\ events # << >>
  /\ events' = Tail(events)
  /\ ReceivedMessage(Head(events))
  /\ thread' = IF Head(events).kind = "quit" THEN "quitting" ELSE thread
  /\ connection' = IF Head(events).kind = "disconnect" THEN "lost" ELSE connection
  /\ UNCHANGED <<pending, asked, buffer, ticks, netVars, exchange>>

-----------------------------------------------------------------------------
(* ServerThread.run, one request; see EncoderServer for what follows from  *)
(* it on the server.                                                       *)
Serve ==
  /\ up
  /\ toServer # << >>
  /\ toServer' = Tail(toServer)
  /\ LET next == Head(toServer)
         text == IF next.request \in Refused THEN "refused"
                 ELSE IF next.request = server THEN "already" ELSE "updating"
     IN  /\ toClient' = Append(toClient, [text |-> text, number |-> next.number])
         /\ IF text = "updating"
            THEN server' = next.request /\ accepted' = accepted \cup {Meaning(next.request)}
            ELSE UNCHANGED <<server, accepted>>
  /\ UNCHANGED <<connection, guiVars, buffer, thread, ticks, events, up, exchange, blur>>

(* The server's end is closed; it forgets the parameters of the client.    *)
Drop ==
  /\ "drop" \in Failures
  /\ connection # "none"
  /\ up
  /\ up' = FALSE
  /\ toServer' = << >>
  /\ server' = ServerDefault
  /\ UNCHANGED <<connection, guiVars, buffer, thread, ticks, events, toClient,
                 accepted, exchange, blur>>

-----------------------------------------------------------------------------
Next ==
  \/ Connect \/ ProcRequest \/ Tick \/ ThreadEnds \/ HandleEvent \/ Serve \/ Drop
  \/ \E r \in Requests : Request(r)

Spec == Init /\ [][Next]_vars

(* Both threads of the client run; the server owes nothing.                *)
FairSpec ==
  /\ Spec
  /\ WF_vars(ProcRequest) /\ WF_vars(Tick) /\ WF_vars(ThreadEnds) /\ WF_vars(HandleEvent)

-----------------------------------------------------------------------------
(* Every variable keeps to its type, and no more is queued for the GUI     *)
(* thread than one exchange leaves there.                                  *)
TypeOK ==
  /\ connection \in {"none", "open", "lost"}
  /\ pending \in Parameters /\ current \in Parameters
  /\ buffer \in Numbered
  /\ thread \in {"idle", "started", "listening", "done", "quitting"}
  /\ ticks \in 0 .. TickLimit
  /\ \A i \in DOMAIN events :
       \/ events[i].kind = "answer" /\ events[i].reply \in Replies
       \/ events[i].kind \in {"gone", "timeout", "disconnect", "quit"}
  /\ Len(events) <= 3
  /\ (events # << >>) = (thread = "done")
  /\ toServer \in Seq(Numbered)
  /\ toClient \in Seq(Replies)
  /\ up \in BOOLEAN
  /\ server \in Requests \ Refused
  /\ asked \in 0 .. MaxRequests
  /\ exchange \in 0 .. MaxRequests
  /\ accepted \subseteq Parameters
  /\ blur \in {"blurred", "healing", "none"}

Quiet == thread = "idle" /\ ~Outstanding

(* Once the server has consented to a request that nothing disturbed, the  *)
(* client knows the server's parameters, until the next disturbance: a     *)
(* request made while an answer is awaited, or a timeout.  This relies on  *)
(* what refusals, "already set" answers and failures leave alone.          *)
Agreement == Quiet /\ up /\ blur = "none" => current = Meaning(server)

(* The answer shown is the answer to the request sent last, unless, since  *)
(* the last exchange that was begun and ended undisturbed, an earlier one  *)
(* timed out, so that its answer was still to come, or was still awaited   *)
(* when the next was asked for.                                            *)
OwnAnswers == \A i \in Answers : events[i].reply.number = exchange \/ blur = "blurred"

(* Every exchange ends and lets the next one start, whatever the server    *)
(* does.                                                                   *)
Ends == thread # "idle" ~> thread = "idle"

(* videowindow.cpp: "Check if the response is an acceptance of the         *)
(* parameters": current ones were accepted, but for the default.           *)
CurrentWasAccepted == current \in accepted \cup {ClientDefault}
=============================================================================
