--------------------------- MODULE ChatTCPClient ---------------------------
(***************************************************************************)
(* The client of the TCP chat, cw11/assignment/client.c, with its          *)
(* connection and the parts of server.c that serve it: the main thread's   *)
(* registration, the handler thread and the ping thread.                   *)
(*                                                                         *)
(* TCP keeps no boundaries: recv returns one send or several at once, and  *)
(* both sides look at the beginning of what they got.  A thread blocked in *)
(* recv keeps the connection open when another closes the descriptor.      *)
(*                                                                         *)
(* Handlers of clients removed earlier may still run.  One whose slot is   *)
(* this client's now goes on with this client's connection; one that was   *)
(* about to call recv waits on whatever connection has got the number of   *)
(* its descriptor (ChatTCP says how that comes about).                     *)
(***************************************************************************)
EXTENDS Naturals, Sequences

CONSTANTS Own,      \* the handler thread created for this client
          Stale,    \* handler threads created for clients removed earlier
          Window    \* bound: sends under way when a user or the ping thread adds one

ASSUME ClientAssumption == Own \notin Stale /\ Window \in Nat \ {0}

VARIABLES
    toServer, toClient,     \* sends not yet received
    closed,                 \* the ends of the connection that were closed
    main, listener,         \* the client's two threads: main and receive_messages
    running,
    up,                     \* the server runs
    acceptor,               \* the server's main thread, for this client
    handler,                \* the handlers: where each is, as to this connection
    active,                 \* the client's slot of the server's table
    age,                    \* rounds of the ping thread since last_ping, if active
    swallowed               \* history: since then, recv hid an ALIVE behind a text
                            \* or a handler of another slot took an answer

connection == <<toServer, toClient, closed>>
client == <<main, listener, running>>
server == <<up, acceptor, handler, active, age>>
vars == <<connection, client, server, swallowed>>

Threads == {Own} \cup Stale

\* A send, by what it begins with: a "LINE" to the server, PING included, is what its
\* handler goes on after, a "TEXT" to the client is what the receiver only shows.
ToServer == {"NAME", "LINE", "STOP"}
ToClient == {"OK", "ERROR", "TEXT", "ALIVE"}

\* Where a handler is: not here yet, in recv on this connection for this slot or for
\* another, about a line, about to give up the slot, or gone from here.
Places == {"none", "recv", "stray", "line", "remove", "gone"}

Init ==
    /\ toServer = <<>> /\ toClient = <<>> /\ closed = {}
    /\ main = "name" /\ listener = "none" /\ running = TRUE
    /\ up = TRUE /\ acceptor = "name"
    /\ handler = [t \in Threads |-> "none"]
    /\ active = FALSE /\ age = 0 /\ swallowed = FALSE

-----------------------------------------------------------------------------
(* The connection, seen by one of its ends.                                *)

ClientSend(m) == toServer' = IF "server" \in closed THEN toServer ELSE Append(toServer, m)

\* The server's descriptor is open until the name is refused or the slot given up.
Open == active \/ acceptor = "name"

ServerSend(m) ==
    toClient' = IF closed = {} /\ Open THEN Append(toClient, m) ELSE toClient

Waiting == {t \in Threads : handler[t] \in {"recv", "stray"}}

\* The server closes the descriptor.  Of the handlers at recv, some wait in it already
\* and keep the connection open; it fails for the others, or is on another connection.
\* What was sent to an end that closes is lost, otherwise what is left to receive stays.
ServerCloses(by, left) ==
    \E blocked \in SUBSET (Waiting \ by) :
        /\ handler' = [t \in Threads |->
               IF t \in by \/ t \in Waiting \ blocked THEN "gone" ELSE handler[t]]
        /\ IF blocked = {} THEN closed' = closed \cup {"server"} /\ toServer' = <<>>
                           ELSE closed' = closed /\ toServer' = left

\* recv returns the first n of the sends in a stream, and looks at the first.
Left(stream, n) == SubSeq(stream, n + 1, Len(stream))
Hides(stream, n) == \E i \in 2 .. n : stream[i] = "ALIVE"
Sent(stream) == {stream[i] : i \in DOMAIN stream}

AtEnd(stream, peer) == stream = <<>> /\ peer \in closed
HasRoom == Len(toServer) + Len(toClient) < Window

-----------------------------------------------------------------------------
(* The client.                                                             *)

\* The process ends and the kernel closes its end.
Exit ==
    /\ main' = "gone" /\ listener' = "gone"
    /\ closed' = closed \cup {"client"} /\ toClient' = <<>>
    /\ running' = FALSE
    /\ UNCHANGED <<server, swallowed>>

\* send sends nothing if the name is empty.
SendName ==
    /\ main = "name" /\ main' = "response"
    /\ ClientSend("NAME") \/ UNCHANGED toServer
    /\ UNCHANGED <<toClient, closed, listener, running, server, swallowed>>

\* Mutant: a refusal is not recognised.
Refusal_Never == {}

Refusal == {"ERROR"}

\* The first thing received is taken for the answer, an ALIVE included.
GetResponse ==
    /\ main = "response"
    /\ \/ /\ AtEnd(toClient, "server") \/ (toClient # <<>> /\ Head(toClient) \in Refusal)
          /\ Exit /\ UNCHANGED toServer
       \/ \E n \in 1 .. Len(toClient) :
              /\ Head(toClient) \notin Refusal
              /\ toClient' = Left(toClient, n)
              /\ swallowed' = (swallowed \/ (active /\ (\/ Hides(toClient, n)
                                                      \/ Head(toClient) = "ALIVE")))
              /\ main' = "typing" /\ listener' = "recv"
              /\ UNCHANGED <<toServer, closed, running, server>>

\* fgets has returned a line to send, which may begin like a command of the
\* protocol; running is looked at only then.  send may fail on a closed connection.
TypeLine ==
    /\ main = "typing" /\ HasRoom
    /\ \E m \in {"LINE", "STOP"} : ClientSend(m)
    /\ main' \in {IF running THEN "typing" ELSE "stopping"}
                   \cup (IF "server" \in closed THEN {"stopping"} ELSE {})
    /\ UNCHANGED <<toClient, closed, listener, running, server, swallowed>>

\* An empty line or HELP, when running was cleared meanwhile; or end of input.
StopTyping ==
    /\ main = "typing" /\ main' = "stopping"
    /\ UNCHANGED <<connection, listener, running, server, swallowed>>

Quit ==
    /\ main = "typing" /\ main' = "quitting"
    /\ ClientSend("STOP")
    /\ UNCHANGED <<toClient, closed, listener, running, server, swallowed>>

StopRunning ==
    /\ main \in {"quitting", "stopping"} /\ main' = "joining"
    /\ running' = FALSE
    /\ UNCHANGED <<connection, listener, server, swallowed>>

\* pthread_join has returned.
Join == main = "joining" /\ listener = "done" /\ Exit /\ UNCHANGED toServer

\* SIGINT: say STOP and exit, wherever the threads are.
Interrupt == main # "gone" /\ ClientSend("STOP") /\ Exit

\* Another signal, SIGPIPE included.
Killed == main # "gone" /\ UNCHANGED toServer /\ Exit

\* Mutant: the receiving thread does not look at running.
Continue_Always == TRUE

\* while (running)
Continue == running

CheckRunning ==
    /\ listener = "check"
    /\ listener' = IF Continue THEN "recv" ELSE "done"
    /\ UNCHANGED <<connection, main, running, server, swallowed>>

Receive ==
    /\ listener = "recv"
    /\ \/ /\ AtEnd(toClient, "server")
          /\ running' = FALSE /\ listener' = "done"
          /\ UNCHANGED <<toClient, swallowed>>
       \/ \E n \in 1 .. Len(toClient) :
              /\ toClient' = Left(toClient, n)
              /\ swallowed' = (swallowed \/ (active /\ Hides(toClient, n)))
              /\ listener' = IF Head(toClient) = "ALIVE" THEN "answer" ELSE "check"
              /\ UNCHANGED running
    /\ UNCHANGED <<toServer, closed, main, server>>

\* Mutant: ALIVE is recognised and not answered.
AnswerAlive_Not ==
    /\ listener = "answer" /\ listener' = "check"
    /\ UNCHANGED <<connection, main, running, server, swallowed>>

AnswerAlive ==
    /\ listener = "answer" /\ listener' = "check"
    /\ ClientSend("LINE")
    /\ UNCHANGED <<toClient, closed, main, running, server, swallowed>>

MainSteps == SendName \/ GetResponse \/ StopRunning \/ Join
ListenerSteps == CheckRunning \/ Receive \/ AnswerAlive
Client == MainSteps \/ ListenerSteps \/ TypeLine \/ StopTyping \/ Quit \/ Interrupt \/ Killed

-----------------------------------------------------------------------------
(* The server.                                                             *)

CountAnew == age' = 0 /\ swallowed' = FALSE

\* Mutant: a connection closed before the name came is waited for.
NoName_Waits == FALSE

\* recv returned no name.
NoName == AtEnd(toServer, "client")

\* The name comes, with a STOP behind it if SIGINT did; it is used already or the
\* table is full, or the client gets a slot.
Register ==
    /\ up /\ acceptor = "name"
    /\ \/ /\ NoName /\ ServerCloses({}, <<>>)
          /\ acceptor' = "refused" /\ UNCHANGED <<toClient, active>>
       \/ \E n \in 1 .. Len(toServer) :
              \/ /\ ServerSend("ERROR") /\ ServerCloses({}, Left(toServer, n))
                 /\ acceptor' = "refused" /\ UNCHANGED active
              \/ /\ toServer' = Left(toServer, n)
                 /\ acceptor' = "welcome" /\ active' = TRUE
                 /\ UNCHANGED <<toClient, closed, handler>>
    /\ UNCHANGED <<client, up, age, swallowed>>

\* A handler that finds the slot given up ends, or goes on with the client who has
\* the slot now.
Loop == IF active THEN "recv" ELSE "gone"

Goto(t, from, to) == handler[t] = from /\ handler' = [handler EXCEPT ![t] = to]

\* Others may have sent to the new slot before, or taken it away.
Welcome ==
    /\ up /\ acceptor = "welcome" /\ acceptor' = "done"
    /\ ServerSend("OK")
    /\ Goto(Own, "none", Loop)
    /\ UNCHANGED <<toServer, closed, client, up, active, age, swallowed>>

\* A stale handler of this slot has got a line, STOP or the end of the stream from
\* another connection, before the slot was given to this client or now: then it has
\* written last_ping.
Intrude(t) ==
    /\ up /\ active
    /\ \E next \in {"line", "remove"} : Goto(t, "none", next)
    /\ UNCHANGED <<age, swallowed>> \/ CountAnew
    /\ UNCHANGED <<connection, client, up, acceptor, active>>

\* A stale handler of any other slot has looked at active before the slot was given up,
\* and calls recv now.
Stray(t) ==
    /\ up /\ Open
    /\ Goto(t, "none", "stray")
    /\ UNCHANGED <<connection, client, up, acceptor, active, age, swallowed>>

\* Mutant: only an error ends the handler's loop, not the end of the stream.
StreamEnded_Not == FALSE

StreamEnded == AtEnd(toServer, "client")

\* If the descriptor was closed meanwhile, the last to return from recv lets go of
\* the connection.
ReturnFromRecv(t, left) ==
    LET released == ~Open /\ Waiting = {t}
    IN  /\ toServer' = IF released THEN <<>> ELSE left
        /\ closed' = IF released THEN closed \cup {"server"} ELSE closed

HandlerReceives(t) ==
    /\ up
    /\ \/ StreamEnded /\ ReturnFromRecv(t, <<>>)
          /\ Goto(t, "recv", "remove") /\ UNCHANGED <<age, swallowed>>
       \/ \E n \in 1 .. Len(toServer) :
              /\ ReturnFromRecv(t, Left(toServer, n))
              /\ Goto(t, "recv", IF Head(toServer) = "STOP" THEN "remove" ELSE "line")
              /\ CountAnew
    /\ UNCHANGED <<toClient, client, up, acceptor, active>>

\* It looks at its own slot only, then: last_ping, the answer and the removal are not
\* this client's.
StrayReceives(t) ==
    /\ up
    /\ \/ StreamEnded /\ ReturnFromRecv(t, <<>>) /\ UNCHANGED swallowed
       \/ \E n \in 1 .. Len(toServer) :
              ReturnFromRecv(t, Left(toServer, n)) /\ swallowed' = active
    /\ Goto(t, "stray", "gone")
    /\ UNCHANGED <<toClient, client, up, acceptor, active, age>>

\* PING, LIST and 2ONE are answered, others are not.
Handle(t) ==
    /\ up
    /\ Goto(t, "line", Loop)
    /\ ServerSend("TEXT") \/ UNCHANGED toClient
    /\ UNCHANGED <<toServer, closed, client, up, acceptor, active, age, swallowed>>

GiveUpSlot(by) == active' = FALSE /\ CountAnew /\ ServerCloses(by, toServer)

\* remove_client, whoever's handler it is, and the handler's end.
Remove(t) ==
    /\ up /\ handler[t] = "remove"
    /\ IF active THEN GiveUpSlot({t})
       ELSE /\ Goto(t, "remove", "gone")
            /\ UNCHANGED <<toServer, closed, active, age, swallowed>>
    /\ UNCHANGED <<toClient, client, up, acceptor>>

Handler(t) == HandlerReceives(t) \/ StrayReceives(t) \/ Handle(t) \/ Remove(t)

\* Mutant: the age is not compared.
TooSilent_Never == {FALSE}

\* Rounds are 30 seconds apart and more than 60 seconds are too long.  Counted in
\* full seconds that can be so in the second round after the last message, if it
\* came just after a round, and need not be before the fourth.
TooSilent == {b \in BOOLEAN : IF b THEN age >= 1 ELSE age <= 2}

\* One round of the ping thread.  It is assumed not to come between two adjacent
\* statements of the client's main thread.
Sweep ==
    /\ up /\ active /\ HasRoom /\ main \notin {"quitting", "stopping"}
    /\ \E silent \in TooSilent :
           IF silent
           THEN GiveUpSlot({}) /\ UNCHANGED toClient
           ELSE /\ ServerSend("ALIVE")
                /\ age' = age + 1
                /\ UNCHANGED <<toServer, closed, active, handler, swallowed>>
    /\ UNCHANGED <<client, up, acceptor>>

\* Another client's handler sends a text to this slot.
Broadcast ==
    /\ up /\ active /\ HasRoom
    /\ ServerSend("TEXT")
    /\ UNCHANGED <<toServer, closed, client, server, swallowed>>

\* A signal ends the server with its threads: SIGINT, or SIGPIPE when it sends to a
\* client that has closed.
ServerEnds ==
    /\ up /\ up' = FALSE
    /\ active' = FALSE /\ CountAnew
    /\ handler' = [t \in Threads |-> "gone"]
    /\ closed' = closed \cup {"server"} /\ toServer' = <<>>
    /\ UNCHANGED <<toClient, client, acceptor>>

Acceptor == Register \/ Welcome
Server == \/ Acceptor \/ Sweep \/ Broadcast \/ ServerEnds
          \/ \E t \in Threads : Handler(t)
          \/ \E t \in Stale : Intrude(t) \/ Stray(t)

Next == Client \/ Server

Spec == Init /\ [][Next]_vars

\* Threads run; users type and interrupt as they like.
Fairness ==
    /\ WF_vars(MainSteps) /\ WF_vars(ListenerSteps)
    /\ WF_vars(Acceptor) /\ WF_vars(Sweep)
    /\ \A t \in Threads : WF_vars(Handler(t))

FairSpec == Spec /\ Fairness

-----------------------------------------------------------------------------
(* Correctness.                                                            *)

\* Streams carry what their senders send, the age is that of four rounds at most, and
\* every thread is at a place of its own function.
TypeOK ==
    /\ toServer \in Seq(ToServer) /\ toClient \in Seq(ToClient)
    /\ closed \subseteq {"client", "server"}
    /\ main \in {"name", "response", "typing", "quitting", "stopping",
               "joining", "gone"}
    /\ listener \in {"none", "recv", "check", "answer", "done", "gone"}
    /\ acceptor \in {"name", "welcome", "done", "refused"}
    /\ handler \in [Threads -> Places]
    /\ age \in 0 .. 3
    /\ {running, up, active, swallowed} \subseteq BOOLEAN

\* A client that lets its user type has been registered: although texts and ALIVE
\* sent to the new slot can overtake the OK and be taken for the answer
\* (client.c:115-128, server.c:279 and 299), nothing overtakes a refusal.
AdmittedIsRegistered ==
    main \in {"typing", "quitting", "stopping", "joining"} => acceptor \in {"welcome", "done"}

\* Both sides keep to the protocol: a client is removed in the fourth silent round at
\* the latest (the bound of age, server.c:173), and only a registered one may type.
ProtocolKept == TypeOK /\ AdmittedIsRegistered

\* A client the ping thread begins to miss has a reason: its ALIVE or its PING is
\* still under way, an ALIVE was hidden behind a text or an answer taken by a handler of
\* another slot, or the client is ending.  So a client that runs and reads its messages
\* one by one, on a connection of its own, is never removed for silence
\* (client.c:46-50, server.c:173-181).
SilenceExplained ==
    active /\ age > 0 =>
        \/ "ALIVE" \in Sent(toClient) \/ listener = "answer" \/ toServer # <<>>
        \/ swallowed
        \/ ~running \/ main = "gone"

\* The server has given up the client's slot, and a handler that waits for the client
\* keeps the connection open.
Abandoned == up /\ closed = {} /\ ~Open /\ Waiting # {} /\ toServer = <<>>

\* A handler of an earlier client has come to the slot or the connection.
Intruded == \E t \in Stale : handler[t] # "none"

\* QUIT ends the program, although the STOP may be hidden behind a line and the
\* server then not close: any message that still comes makes the receiving thread
\* look at running (client.c:31, 172-173).  Only where a handler of an earlier client
\* takes part, which may take the STOP, or the slot while this client's handler waits,
\* can the client wait for its thread for ever (server.c:63-73, 83-89).  At the end of
\* input no STOP is sent; then that can also happen to a client the ping thread has
\* removed.
QuitEnds ==
    /\ main = "quitting" ~> main = "gone" \/ (Abandoned /\ Intruded)
    /\ main = "stopping" ~> main = "gone" \/ Abandoned

\* A client that is gone is taken off the table for good and no handler stays with its
\* connection, even if it is registered only after it went, its STOP was swallowed, or
\* the ping thread removed it before (server.c:83-89, 159).
ServerForgets ==
    main = "gone" ~> [](~active /\ \A t \in Threads : handler[t] \in {"none", "gone"})

\* A client waits for the answer to a name the server's main thread does not get: it is
\* empty, or a handler of an earlier client took it.
Unnamed == acceptor = "name" /\ main = "response" /\ toServer = <<>>

\* The main thread of the server, which waits for the name of one connection and
\* accepts no other meanwhile (server.c:254), gets on, unless a client whose name does
\* not come runs for ever (client.c:111-115).
MainReturns == <>(acceptor # "name" \/ ~up) \/ <>[]Unnamed

\* Nothing a client does or omits holds a thread of the server up for good, but for the
\* name that does not come.
ServerGetsOn == ServerForgets /\ MainReturns

=============================================================================
