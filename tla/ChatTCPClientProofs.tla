------------------------ MODULE ChatTCPClientProofs ------------------------
(***************************************************************************)
(* What TLAPS proves of ChatTCPClient, for any number of sends under way   *)
(* and of handlers of earlier clients.                                     *)
(*                                                                         *)
(* ClientInv adds to the two properties what the server has sent by the    *)
(* time it has decided on the name, and who has closed the connection.     *)
(***************************************************************************)
EXTENDS ChatTCPClient, SequenceTheorems, TLAPS

\* Before the server has decided on the name nothing is sent to the client,
\* and after a refusal nothing but the refusal: handlers of earlier clients may wait
\* for a message then, but not answer one.  The thread that receives starts when the
\* answer has come.
RegistrationOK ==
    /\ main \in {"name", "response"} => listener = "none"
    /\ acceptor = "name" => toClient = <<>> /\ age = 0
    /\ acceptor \in {"name", "refused"} =>
           ~active /\ \A t \in Threads : handler[t] \in {"none", "stray", "gone"}
    /\ acceptor = "refused" => \A i \in DOMAIN toClient : toClient[i] = "ERROR"

\* The client's end is closed by its exit only, the server's end not while the
\* client has a slot, and not before the decision unless the server ends.
ClosedOK ==
    /\ "client" \in closed => main = "gone"
    /\ "server" \in closed => ~active /\ (acceptor # "name" \/ ~up)

ClientInv == TypeOK /\ RegistrationOK /\ ClosedOK /\ AdmittedIsRegistered /\ SilenceExplained

-----------------------------------------------------------------------------
(* The streams. *)

\* A send adds one element.
LEMMA SendAdds ==
    ASSUME NEW S, NEW s \in Seq(S), NEW m \in S
    PROVE  /\ Append(s, m) \in Seq(S) /\ Append(s, m) # <<>>
           /\ m \in Sent(Append(s, m)) /\ Sent(s) \subseteq Sent(Append(s, m))
<1>1. /\ Append(s, m) \in Seq(S) /\ Len(Append(s, m)) = Len(s) + 1
      /\ \A i \in 1 .. Len(s) : Append(s, m)[i] = s[i]
      /\ Append(s, m)[Len(s) + 1] = m
  BY AppendProperties
<1>2. Len(s) \in Nat /\ DOMAIN s = 1 .. Len(s) /\ DOMAIN Append(s, m) = 1 .. (Len(s) + 1)
  BY <1>1, LenProperties
<1>3. Append(s, m) # <<>>
  BY <1>1, <1>2, EmptySeq
<1>4. QED
  BY <1>1, <1>2, <1>3 DEF Sent

\* A receive leaves the rest of the stream.
LEMMA RestOfStream ==
    ASSUME NEW S, NEW s \in Seq(S), NEW n \in 1 .. Len(s)
    PROVE  /\ Left(s, n) \in Seq(S) /\ Head(s) \in S /\ Head(s) = s[1]
           /\ Sent(Left(s, n)) \subseteq Sent(s)
           /\ \A a \in Sent(s) : \/ a \in Sent(Left(s, n)) \/ a = Head(s)
                                 \/ \E i \in 2 .. n : s[i] = a
<1>1. Len(s) \in Nat /\ DOMAIN s = 1 .. Len(s) /\ \A i \in 1 .. Len(s) : s[i] \in S
  BY LenProperties, ElementOfSeq
<1>2. /\ Left(s, n) \in Seq(S) /\ Len(Left(s, n)) = Len(s) - n
      /\ \A i \in 1 .. (Len(s) - n) : Left(s, n)[i] = s[n + i]
  <2>1. n + 1 \in Int /\ Len(s) \in Int /\ n + 1 <= Len(s) + 1
    BY <1>1
  <2>2. \A i \in n + 1 .. Len(s) : s[i] \in S
    BY <1>1
  <2> DEFINE t == SubSeq(s, n + 1, Len(s))
  <2>3. t \in Seq(S)
    BY <2>1, <2>2, SubSeqProperties
  <2>4. Len(t) = IF n + 1 <= Len(s) THEN Len(s) - (n + 1) + 1 ELSE 0
    BY <2>1, <2>2, SubSeqProperties
  <2>5. \A i \in 1 .. (Len(s) - (n + 1) + 1) : t[i] = s[n + 1 + i - 1]
    BY <2>1, <2>2, SubSeqProperties
  <2> HIDE DEF t
  <2>6. Len(t) = Len(s) - n
    <3>1. n \in Nat /\ Len(s) \in Nat /\ n <= Len(s)
      BY <1>1
    <3>2. CASE n + 1 <= Len(s)
      <4>1. Len(t) = Len(s) - (n + 1) + 1
        BY <2>4, <3>2
      <4>2. QED
        BY <1>1, <3>1, <4>1
    <3>3. CASE ~(n + 1 <= Len(s))
      <4>1. Len(t) = 0
        BY <2>4, <3>3
      <4>2. n = Len(s) /\ Len(s) - n = 0
        BY <3>1, <3>3
      <4>3. QED
        BY <4>1, <4>2
    <3>4. QED
      BY <3>2, <3>3
  <2>7. \A i \in 1 .. (Len(s) - n) : t[i] = s[n + i]
    <3>1. Len(s) - (n + 1) + 1 = Len(s) - n
      BY <1>1
    <3>2. \A i \in 1 .. (Len(s) - n) : n + 1 + i - 1 = n + i
      BY <1>1
    <3>3. QED
      BY <2>5, <3>1, <3>2
  <2>8. QED
    BY <2>3, <2>6, <2>7 DEF t, Left
<1>3. Head(s) = s[1] /\ Head(s) \in S
  BY <1>1
<1>4. DOMAIN Left(s, n) = 1 .. (Len(s) - n)
  BY <1>1, <1>2, LenProperties
<1>5. Sent(Left(s, n)) \subseteq Sent(s)
  <2> SUFFICES ASSUME NEW i \in DOMAIN Left(s, n) PROVE Left(s, n)[i] \in Sent(s)
    BY DEF Sent
  <2>1. i \in 1 .. (Len(s) - n)
    BY <1>4
  <2>2. Left(s, n)[i] = s[n + i]
    BY <1>2, <2>1
  <2>3. n + i \in DOMAIN s
    BY <1>1, <2>1
  <2>4. QED
    BY <2>2, <2>3 DEF Sent
<1>6. ASSUME NEW k \in 1 .. Len(s)
      PROVE  \/ s[k] \in Sent(Left(s, n)) \/ s[k] = Head(s)
             \/ \E i \in 2 .. n : s[i] = s[k]
  <2>1. CASE k > n
    <3>1. k - n \in 1 .. (Len(s) - n) /\ n + (k - n) = k
      BY <1>1, <2>1
    <3>2. Left(s, n)[k - n] = s[k]
      BY <1>2, <3>1
    <3>3. QED
      BY <1>4, <3>1, <3>2 DEF Sent
  <2>2. CASE ~(k > n)
    BY <1>1, <1>3, <2>2
  <2>3. QED
    BY <2>1, <2>2
<1>7. \A a \in Sent(s) : \E k \in 1 .. Len(s) : a = s[k]
  BY <1>1 DEF Sent
<1>8. \A a \in Sent(s) : \/ a \in Sent(Left(s, n)) \/ a = Head(s)
                        \/ \E i \in 2 .. n : s[i] = a
  <2> TAKE a \in Sent(s)
  <2>1. PICK k \in 1 .. Len(s) : a = s[k]
    BY <1>7
  <2>2. QED
    BY <1>6, <2>1
<1>9. QED
  BY <1>2, <1>3, <1>5, <1>8

LEMMA ClientSends ==
    ASSUME TypeOK, NEW m \in ToServer, ClientSend(m)
    PROVE  /\ toServer' \in Seq(ToServer)
           /\ "server" \notin closed \/ toServer # <<>> => toServer' # <<>>
BY SendAdds DEF TypeOK, ClientSend

LEMMA ServerSends ==
    ASSUME TypeOK, NEW m \in ToClient, ServerSend(m)
    PROVE  /\ toClient' \in Seq(ToClient)
           /\ Sent(toClient) \subseteq Sent(toClient')
           /\ closed = {} /\ Open => m \in Sent(toClient')
BY SendAdds DEF TypeOK, ServerSend

LEMMA ClientReceives ==
    ASSUME TypeOK, NEW n \in 1 .. Len(toClient)
    PROVE  /\ Left(toClient, n) \in Seq(ToClient)
           /\ "ALIVE" \in Sent(toClient) => \/ "ALIVE" \in Sent(Left(toClient, n))
                                            \/ Head(toClient) = "ALIVE" \/ Hides(toClient, n)
<1>1. toClient \in Seq(ToClient)
  BY DEF TypeOK
<1>2. QED
  BY <1>1, RestOfStream DEF Hides

LEMMA ServerReceives ==
    ASSUME TypeOK, NEW n \in 1 .. Len(toServer)
    PROVE  Left(toServer, n) \in Seq(ToServer)
<1>1. toServer \in Seq(ToServer)
  BY DEF TypeOK
<1>2. QED
  BY <1>1, RestOfStream

-----------------------------------------------------------------------------
(* The handlers and the descriptor. *)

LEMMA Goes ==
    ASSUME TypeOK, NEW t \in Threads, NEW from, NEW to \in Places, Goto(t, from, to)
    PROVE  /\ handler' \in [Threads -> Places] /\ handler[t] = from /\ handler'[t] = to
           /\ \A u \in Threads : handler'[u] = IF u = t THEN to ELSE handler[u]
<1>1. handler \in [Threads -> Places]
  BY DEF TypeOK
<1>2. handler' = [handler EXCEPT ![t] = to] /\ handler[t] = from
  BY DEF Goto
<1>3. QED
  BY <1>1, <1>2

LEMMA Closes ==
    ASSUME TypeOK, NEW by, NEW left \in Seq(ToServer), ServerCloses(by, left)
    PROVE  /\ toServer' \in Seq(ToServer)
           /\ closed' \in {closed, closed \cup {"server"}}
           /\ handler' \in [Threads -> Places]
           /\ \A t \in Threads : handler'[t] \in {handler[t], "gone"}
<1>1. handler \in [Threads -> Places] /\ toServer \in Seq(ToServer)
  BY DEF TypeOK
<1>2. PICK blocked \in SUBSET (Waiting \ by) :
          /\ handler' = [t \in Threads |->
                 IF t \in by \/ t \in Waiting \ blocked THEN "gone" ELSE handler[t]]
          /\ IF blocked = {} THEN closed' = closed \cup {"server"} /\ toServer' = <<>>
                             ELSE closed' = closed /\ toServer' = left
  BY DEF ServerCloses
<1>3. <<>> \in Seq(ToServer)
  BY EmptySeq
<1>4. "gone" \in Places
  BY DEF Places
<1>5. \A t \in Threads : handler'[t] \in {handler[t], "gone"}
  BY <1>2
<1>6. handler' \in [Threads -> Places]
  BY <1>1, <1>2, <1>4
<1>7. QED
  BY <1>1, <1>2, <1>3, <1>5, <1>6

LEMMA Returns ==
    ASSUME TypeOK, NEW t, NEW left \in Seq(ToServer), ReturnFromRecv(t, left)
    PROVE  /\ toServer' \in Seq(ToServer)
           /\ closed' = closed \/ (closed' = closed \cup {"server"} /\ ~Open)
BY EmptySeq DEF ReturnFromRecv

-----------------------------------------------------------------------------
(* The steps. *)

LEMMA StepType == TypeOK /\ [Next]_vars => TypeOK'
<1> SUFFICES ASSUME TypeOK, [Next]_vars PROVE TypeOK'
  OBVIOUS
<1>1. <<>> \in Seq(ToServer) /\ <<>> \in Seq(ToClient)
  BY EmptySeq
<1>2. /\ {"NAME", "LINE", "STOP"} \subseteq ToServer
      /\ {"OK", "ERROR", "TEXT", "ALIVE"} \subseteq ToClient
  BY DEF ToServer, ToClient
<1>3. CASE SendName \/ TypeLine \/ StopTyping \/ Quit \/ StopRunning \/ AnswerAlive
  <2>1. toServer' \in Seq(ToServer)
    <3>1. \/ toServer' = toServer
          \/ \E m \in ToServer : ClientSend(m)
      BY <1>2, <1>3
         DEF SendName, TypeLine, StopTyping, Quit, StopRunning, AnswerAlive, connection
    <3>2. QED
      BY <3>1, ClientSends DEF TypeOK
  <2>2. UNCHANGED <<toClient, closed, server, swallowed>>
    BY <1>3 DEF SendName, TypeLine, StopTyping, Quit, StopRunning, AnswerAlive, connection
  <2>3. CASE SendName \/ StopTyping \/ Quit
    BY <2>1, <2>2, <2>3, ZenonT(60) DEF SendName, StopTyping, Quit, server, TypeOK
  <2>4. CASE StopRunning \/ AnswerAlive
    BY <2>1, <2>2, <2>4, ZenonT(60) DEF StopRunning, AnswerAlive, server, TypeOK
  <2>5. CASE TypeLine
    <3>1. main' \in {"typing", "stopping"} /\ UNCHANGED <<listener, running>>
      BY <2>5 DEF TypeLine
    <3>2. QED
      BY <2>1, <2>2, <3>1, ZenonT(60) DEF server, TypeOK
  <2>6. QED
    BY <1>3, <2>3, <2>4, <2>5
<1>4. CASE Join \/ Interrupt \/ Killed
  <2>1. toServer' \in Seq(ToServer)
    <3>1. toServer' = toServer \/ ClientSend("STOP")
      BY <1>4 DEF Join, Interrupt, Killed
    <3>2. QED
      BY <1>2, <3>1, ClientSends DEF TypeOK
  <2>2. Exit
    BY <1>4 DEF Join, Interrupt, Killed
  <2>3. QED
    BY <1>1, <2>1, <2>2, ZenonT(60) DEF Exit, server, TypeOK
<1>5. CASE GetResponse
  <2>1. CASE Exit /\ UNCHANGED toServer
    BY <1>1, <2>1, ZenonT(60) DEF Exit, server, TypeOK
  <2>2. CASE \E n \in 1 .. Len(toClient) :
                 /\ toClient' = Left(toClient, n)
                 /\ swallowed' = (swallowed \/ (active /\ (Hides(toClient, n) \/ Head(toClient) = "ALIVE")))
                 /\ main' = "typing" /\ listener' = "recv"
                 /\ UNCHANGED <<toServer, closed, running, server>>
    <3>1. toClient' \in Seq(ToClient)
      BY <2>2, ClientReceives
    <3>2. QED
      BY <2>2, <3>1, ZenonT(60) DEF server, TypeOK
  <2>3. QED
    BY <1>5, <2>1, <2>2 DEF GetResponse
<1>6. CASE Receive
  <2>1. toClient' \in Seq(ToClient)
    <3>1. toClient' = toClient \/ \E n \in 1 .. Len(toClient) : toClient' = Left(toClient, n)
      BY <1>6 DEF Receive
    <3>2. QED
      BY <3>1, ClientReceives DEF TypeOK
  <2>2. /\ listener' \in {"done", "answer", "check"}
        /\ UNCHANGED <<toServer, closed, main, server>>
    BY <1>6 DEF Receive
  <2>3. running' \in BOOLEAN
    <3>1. running' \in {running, FALSE}
      BY <1>6 DEF Receive
    <3>2. QED
      BY <3>1 DEF TypeOK
  <2>4. swallowed' \in BOOLEAN
    <3>1. \/ swallowed' = swallowed
          \/ \E n \in 1 .. Len(toClient) :
                 swallowed' = (swallowed \/ (active /\ Hides(toClient, n)))
      BY <1>6 DEF Receive
    <3>2. QED
      BY <3>1, Zenon DEF TypeOK
  <2>5. QED
    BY <2>1, <2>2, <2>3, <2>4, ZenonT(60) DEF server, TypeOK
<1>7. CASE CheckRunning
  BY <1>7, ZenonT(60) DEF CheckRunning, connection, server, TypeOK
<1>8. CASE Register
  <2>1. toClient' \in Seq(ToClient)
    <3>1. toClient' = toClient \/ ServerSend("ERROR")
      BY <1>8 DEF Register
    <3>2. QED
      BY <1>2, <3>1, ServerSends DEF TypeOK
  <2>2. /\ toServer' \in Seq(ToServer)
        /\ closed' \subseteq {"client", "server"} /\ handler' \in [Threads -> Places]
    <3>1. \/ \E left \in Seq(ToServer) : ServerCloses({}, left)
          \/ /\ \E n \in 1 .. Len(toServer) : toServer' = Left(toServer, n)
             /\ UNCHANGED <<closed, handler>>
      BY <1>1, <1>8, ServerReceives DEF Register
    <3>2. QED
      BY <3>1, Closes, ServerReceives DEF TypeOK
  <2>3. /\ acceptor' \in {"refused", "welcome"} /\ active' \in BOOLEAN
        /\ UNCHANGED <<client, up, age, swallowed>>
    BY <1>8 DEF Register, TypeOK
  <2>4. QED
    BY <2>1, <2>2, <2>3, ZenonT(60) DEF client, TypeOK
<1>9. Loop \in Places /\ {"line", "remove", "stray", "gone"} \subseteq Places
  BY DEF Loop, Places
<1>10. Own \in Threads /\ Stale \subseteq Threads
  BY DEF Threads
<1>11. CASE Welcome \/ (\E t \in Threads : Handle(t)) \/ Broadcast
  <2>1. toClient' \in Seq(ToClient)
    <3>1. toClient' = toClient \/ \E m \in ToClient : ServerSend(m)
      BY <1>2, <1>11 DEF Welcome, Handle, Broadcast
    <3>2. QED
      BY <3>1, ServerSends DEF TypeOK
  <2>2. handler' \in [Threads -> Places]
    <3>1. handler' = handler \/ \E t \in Threads, from \in Places : Goto(t, from, Loop)
      <4>1. {"none", "line"} \subseteq Places
        BY DEF Places
      <4>2. QED
        BY <1>10, <1>11, <4>1 DEF Welcome, Handle, Broadcast, server
    <3>2. QED
      BY <1>9, <3>1, Goes DEF TypeOK
  <2>3. /\ acceptor' \in {acceptor, "done"}
        /\ UNCHANGED <<toServer, closed, client, up, active, age, swallowed>>
    BY <1>11 DEF Welcome, Handle, Broadcast, server
  <2>4. QED
    BY <2>1, <2>2, <2>3, ZenonT(60) DEF client, TypeOK
<1>12. ASSUME CountAnew \/ UNCHANGED <<age, swallowed>>
       PROVE  age' \in 0 .. 3 /\ swallowed' \in BOOLEAN
  <2>1. age \in 0 .. 3 /\ swallowed \in BOOLEAN
    BY DEF TypeOK
  <2>2. age' \in 0 .. 3
    BY <1>12, <2>1 DEF CountAnew
  <2>3. swallowed' \in BOOLEAN
    BY <1>12, <2>1 DEF CountAnew
  <2>4. QED
    BY <2>2, <2>3
<1>20. CASE \E t \in Stale : Intrude(t) \/ Stray(t)
  <2>1. handler' \in [Threads -> Places]
    <3>1. \E t \in Threads, to \in {"line", "remove", "stray"} : Goto(t, "none", to)
      BY <1>10, <1>20 DEF Intrude, Stray
    <3>2. QED
      BY <1>9, <3>1, Goes
  <2>2. UNCHANGED <<connection, client, up, acceptor, active>>
    BY <1>20 DEF Intrude, Stray
  <2>3. CountAnew \/ UNCHANGED <<age, swallowed>>
    BY <1>20 DEF Intrude, Stray
  <2>4. age' \in 0 .. 3 /\ swallowed' \in BOOLEAN
    BY <1>12, <2>3
  <2>5. QED
    BY <2>1, <2>2, <2>4, ZenonT(60) DEF connection, client, TypeOK
<1>21. ASSUME NEW t \in Threads, HandlerReceives(t) \/ StrayReceives(t)
       PROVE  TypeOK'
  <2>1. PICK left \in Seq(ToServer) : ReturnFromRecv(t, left)
    BY <1>1, <1>21, ServerReceives DEF HandlerReceives, StrayReceives
  <2>2. toServer' \in Seq(ToServer) /\ closed' \subseteq {"client", "server"}
    BY <2>1, Returns DEF TypeOK
  <2>3. handler' \in [Threads -> Places]
    <3>1. \E to \in {"line", "remove", "gone"} : Goto(t, "recv", to) \/ Goto(t, "stray", to)
      BY <1>21 DEF HandlerReceives, StrayReceives
    <3>2. QED
      BY <1>9, <3>1, Goes
  <2>4. age' \in 0 .. 3 /\ swallowed' \in BOOLEAN
    <3>1. CASE HandlerReceives(t)
      <4>1. CountAnew \/ UNCHANGED <<age, swallowed>>
        BY <3>1 DEF HandlerReceives
      <4>2. QED
        BY <1>12, <4>1
    <3>2. CASE StrayReceives(t)
      <4>1. age' = age /\ swallowed' \in {swallowed, active}
        BY <3>2 DEF StrayReceives
      <4>2. QED
        BY <4>1 DEF TypeOK
    <3>3. QED
      BY <1>21, <3>1, <3>2
  <2>5. UNCHANGED <<toClient, client, up, acceptor, active>>
    BY <1>21 DEF HandlerReceives, StrayReceives
  <2>6. QED
    BY <2>2, <2>3, <2>4, <2>5, ZenonT(60) DEF client, TypeOK
<1>22. ASSUME NEW by, GiveUpSlot(by)
       PROVE  /\ toServer' \in Seq(ToServer) /\ closed' \subseteq {"client", "server"}
              /\ handler' \in [Threads -> Places] /\ active' = FALSE
              /\ age' \in 0 .. 3 /\ swallowed' \in BOOLEAN
  <2>1. ServerCloses(by, toServer) /\ CountAnew /\ active' = FALSE
    BY <1>22 DEF GiveUpSlot
  <2>2. toServer \in Seq(ToServer) /\ closed \subseteq {"client", "server"}
    BY DEF TypeOK
  <2>3. QED
    BY <1>12, <2>1, <2>2, Closes
<1>23. CASE \E t \in Threads : Remove(t)
  <2>1. PICK t \in Threads : Remove(t)
    BY <1>23
  <2>2. UNCHANGED <<toClient, client, up, acceptor>>
    BY <2>1 DEF Remove
  <2>3. CASE active
    <3>1. GiveUpSlot({t})
      BY <2>1, <2>3 DEF Remove
    <3>2. QED
      BY <1>22, <2>2, <3>1, ZenonT(60) DEF client, TypeOK
  <2>4. CASE ~active
    <3>1. Goto(t, "remove", "gone") /\ UNCHANGED <<active, age, swallowed, toServer, closed>>
      BY <2>1, <2>4 DEF Remove
    <3>2. handler' \in [Threads -> Places]
      BY <1>9, <3>1, Goes
    <3>3. QED
      BY <2>2, <3>1, <3>2, ZenonT(60) DEF client, TypeOK
  <2>5. QED
    BY <2>3, <2>4
<1>24. CASE Sweep
  <2>1. UNCHANGED <<client, up, acceptor>>
    BY <1>24 DEF Sweep
  <2>2. CASE GiveUpSlot({}) /\ UNCHANGED toClient
    BY <1>22, <2>1, <2>2, ZenonT(60) DEF client, TypeOK
  <2>3. CASE /\ ServerSend("ALIVE") /\ age <= 2 /\ age' = age + 1
             /\ UNCHANGED <<toServer, closed, active, handler, swallowed>>
    <3>1. toClient' \in Seq(ToClient)
      BY <1>2, <2>3, ServerSends
    <3>2. age' \in 0 .. 3
      <4>1. age \in 0 .. 3
        BY DEF TypeOK
      <4>2. QED
        BY <2>3, <4>1
    <3>3. QED
      BY <2>1, <2>3, <3>1, <3>2, ZenonT(60) DEF client, TypeOK
  <2>4. QED
    BY <1>24, <2>2, <2>3 DEF Sweep, TooSilent
<1>25. CASE ServerEnds
  <2>1. handler' \in [Threads -> Places]
    BY <1>9, <1>25 DEF ServerEnds
  <2>2. age' \in 0 .. 3 /\ swallowed' \in BOOLEAN
    BY <1>12, <1>25 DEF ServerEnds
  <2>3. closed' \subseteq {"client", "server"} /\ toServer' \in Seq(ToServer)
    BY <1>1, <1>25 DEF ServerEnds, TypeOK
  <2>4. QED
    BY <1>25, <2>1, <2>2, <2>3, ZenonT(60) DEF ServerEnds, client, TypeOK
<1>30. CASE UNCHANGED vars
  BY <1>30, ZenonT(60) DEF vars, connection, client, server, TypeOK
<1>31. QED
  BY <1>3, <1>4, <1>5, <1>6, <1>7, <1>8, <1>11, <1>20, <1>21, <1>23, <1>24, <1>25, <1>30
     DEF Next, Client, MainSteps, ListenerSteps, Server, Acceptor, Handler

\* Nothing is sent to the client before the decision on its name, so what it takes
\* for the answer was sent after it.
LEMMA StepRegistration ==
    TypeOK /\ RegistrationOK /\ ClosedOK /\ AdmittedIsRegistered /\ [Next]_vars
        => RegistrationOK' /\ ClosedOK' /\ AdmittedIsRegistered'
<1> SUFFICES ASSUME TypeOK, RegistrationOK, ClosedOK, AdmittedIsRegistered, [Next]_vars
             PROVE  RegistrationOK' /\ ClosedOK' /\ AdmittedIsRegistered'
  OBVIOUS
<1>1. CASE SendName \/ TypeLine \/ StopTyping \/ Quit \/ StopRunning \/ AnswerAlive \/ CheckRunning
  BY <1>1 DEF SendName, TypeLine, StopTyping, Quit, StopRunning, AnswerAlive, CheckRunning,
              connection, server, RegistrationOK, ClosedOK, AdmittedIsRegistered
<1>2. ASSUME Exit PROVE RegistrationOK' /\ ClosedOK' /\ AdmittedIsRegistered'
  BY <1>2 DEF Exit, server, RegistrationOK, ClosedOK, AdmittedIsRegistered
<1>3. CASE Join \/ Interrupt \/ Killed
  BY <1>2, <1>3 DEF Join, Interrupt, Killed
<1>4. ASSUME NEW n \in 1 .. Len(toClient), toClient' = Left(toClient, n)
      PROVE  /\ acceptor # "name" /\ Head(toClient) \in Sent(toClient)
             /\ Sent(toClient') \subseteq Sent(toClient)
  <2>1. toClient \in Seq(ToClient)
    BY DEF TypeOK
  <2>2. Sent(toClient') \subseteq Sent(toClient) /\ Head(toClient) = toClient[1]
    BY <1>4, <2>1, RestOfStream
  <2>3. Len(toClient) \in Nat /\ DOMAIN toClient = 1 .. Len(toClient)
    BY <2>1, LenProperties
  <2>4. 1 \in DOMAIN toClient
    BY <2>3
  <2>5. toClient # <<>>
    BY <2>4
  <2>6. QED
    BY <2>2, <2>4, <2>5 DEF RegistrationOK, Sent
<1>5. CASE GetResponse
  <2>1. CASE Exit
    BY <1>2, <2>1
  <2>2. CASE \E n \in 1 .. Len(toClient) :
                 /\ Head(toClient) \notin Refusal
                 /\ toClient' = Left(toClient, n)
                 /\ main' = "typing"
                 /\ UNCHANGED <<toServer, closed, running, server>>
    <3>1. acceptor \notin {"name", "refused"}
      BY <1>4, <2>2 DEF RegistrationOK, Refusal, Sent
    <3>2. main # "gone"
      BY <1>5 DEF GetResponse
    <3>3. acceptor \in {"welcome", "done"}
      BY <3>1 DEF TypeOK
    <3>4. QED
      BY <2>2, <3>1, <3>2, <3>3 DEF server, RegistrationOK, ClosedOK, AdmittedIsRegistered
  <2>3. QED
    BY <1>5, <2>1, <2>2 DEF GetResponse
<1>6. CASE Receive
  <2>1. UNCHANGED <<closed, main, server>> /\ listener = "recv"
    BY <1>6 DEF Receive
  <2>2. \/ toClient' = toClient
        \/ acceptor # "name" /\ Sent(toClient') \subseteq Sent(toClient)
    BY <1>4, <1>6 DEF Receive
  <2>3. QED
    BY <2>1, <2>2 DEF server, RegistrationOK, ClosedOK, AdmittedIsRegistered, Sent
<1>7. CASE Register
  <2>1. UNCHANGED <<client, up, age, swallowed>>
    BY <1>7 DEF Register
  <2>2. /\ toClient = <<>> /\ ~active /\ acceptor = "name"
        /\ \A t \in Threads : handler[t] \in {"none", "stray", "gone"}
    BY <1>7 DEF Register, RegistrationOK
  <2>3. CASE acceptor' = "refused"
    <3>1. /\ \E left \in Seq(ToServer) : ServerCloses({}, left)
          /\ active' = active
          /\ toClient' = toClient \/ ServerSend("ERROR")
      BY <1>7, <2>3, EmptySeq, ServerReceives DEF Register
    <3>2. \A i \in DOMAIN toClient' : toClient'[i] = "ERROR"
      BY <2>2, <3>1 DEF ServerSend
    <3>3. \A t \in Threads : handler'[t] \in {"none", "stray", "gone"}
      BY <2>2, <3>1, Closes
    <3>4. closed' \in {closed, closed \cup {"server"}}
      BY <3>1, Closes
    <3>5. QED
      BY <2>1, <2>2, <2>3, <3>1, <3>2, <3>3, <3>4
         DEF client, RegistrationOK, ClosedOK, AdmittedIsRegistered
  <2>4. CASE acceptor' = "welcome"
    <3>1. "server" \notin closed
      BY <1>7, <2>2 DEF Register, ClosedOK
    <3>2. toClient' = toClient /\ closed' = closed
      BY <1>7, <2>4 DEF Register
    <3>3. QED
      BY <2>1, <2>2, <2>4, <3>1, <3>2 DEF client, RegistrationOK, ClosedOK, AdmittedIsRegistered
  <2>5. acceptor' = "refused" \/ acceptor' = "welcome"
    BY <1>7 DEF Register
  <2>6. QED
    BY <2>3, <2>4, <2>5
<1>8. ASSUME NEW t \in Threads, handler[t] \in {"recv", "line", "remove"}
      PROVE  acceptor \in {"welcome", "done"}
  BY <1>8 DEF RegistrationOK, TypeOK
<1>9. CASE Welcome \/ (\E t \in Threads : Handle(t)) \/ Broadcast
  <2>1. acceptor \in {"welcome", "done"} /\ acceptor' \in {"welcome", "done"}
    <3>1. CASE Welcome \/ Broadcast
      BY <3>1 DEF Welcome, Broadcast, RegistrationOK, TypeOK, server
    <3>2. CASE \E t \in Threads : Handle(t)
      BY <1>8, <3>2 DEF Handle, Goto
    <3>3. QED
      BY <1>9, <3>1, <3>2
  <2>2. UNCHANGED <<main, listener, closed, active>>
    BY <1>9 DEF Welcome, Handle, Broadcast, client, server
  <2>3. QED
    BY <2>1, <2>2 DEF RegistrationOK, ClosedOK, AdmittedIsRegistered
<1>10. CASE \E t \in Stale : Intrude(t)
  <2>1. acceptor \in {"welcome", "done"} /\ UNCHANGED <<main, listener, closed, active, acceptor>>
    BY <1>10 DEF Intrude, RegistrationOK, TypeOK, connection, client
  <2>2. QED
    BY <2>1 DEF RegistrationOK, ClosedOK, AdmittedIsRegistered
<1>11. CASE \E t \in Stale : Stray(t)
  <2>1. PICK t \in Stale : Stray(t)
    BY <1>11
  <2>2. t \in Threads /\ "stray" \in Places
    BY DEF Threads, Places
  <2>3. \A u \in Threads : handler'[u] = IF u = t THEN "stray" ELSE handler[u]
    BY <2>1, <2>2, Goes DEF Stray
  <2>4. UNCHANGED <<connection, client, up, acceptor, active, age>>
    BY <2>1 DEF Stray
  <2>5. QED
    BY <2>3, <2>4 DEF connection, client, RegistrationOK, ClosedOK, AdmittedIsRegistered
<1>12. ASSUME NEW t \in Threads, HandlerReceives(t) \/ StrayReceives(t)
       PROVE  RegistrationOK' /\ ClosedOK' /\ AdmittedIsRegistered'
  <2>1. PICK left \in Seq(ToServer) : ReturnFromRecv(t, left)
    BY <1>12, EmptySeq, ServerReceives DEF HandlerReceives, StrayReceives
  <2>2. closed' = closed \/ (closed' = closed \cup {"server"} /\ ~active /\ acceptor # "name")
    BY <2>1, Returns DEF Open
  <2>3. UNCHANGED <<toClient, client, up, acceptor, active>>
    BY <1>12 DEF HandlerReceives, StrayReceives
  <2>4. CASE HandlerReceives(t)
    <3>1. handler[t] = "recv"
      BY <2>4 DEF HandlerReceives, Goto
    <3>2. acceptor \in {"welcome", "done"}
      BY <1>8, <3>1
    <3>3. QED
      BY <2>2, <2>3, <3>2 DEF client, RegistrationOK, ClosedOK, AdmittedIsRegistered
  <2>5. CASE StrayReceives(t)
    <3>1. "gone" \in Places
      BY DEF Places
    <3>2. \A u \in Threads : handler'[u] = IF u = t THEN "gone" ELSE handler[u]
      BY <2>5, <3>1, Goes DEF StrayReceives
    <3>3. age' = age
      BY <2>5 DEF StrayReceives
    <3>4. QED
      BY <2>2, <2>3, <3>2, <3>3 DEF client, RegistrationOK, ClosedOK, AdmittedIsRegistered
  <2>6. QED
    BY <1>12, <2>4, <2>5
<1>13. CASE (\E t \in Threads : Remove(t)) \/ Sweep
  <2>1. acceptor \in {"welcome", "done"} /\ acceptor' = acceptor
    <3>1. CASE Sweep
      BY <3>1 DEF Sweep, RegistrationOK, TypeOK
    <3>2. CASE \E t \in Threads : Remove(t)
      BY <1>8, <3>2 DEF Remove
    <3>3. QED
      BY <1>13, <3>1, <3>2
  <2>2. main' = main /\ listener' = listener
    BY <1>13 DEF Remove, Sweep, client
  <2>3. \/ closed' = closed /\ active' = active
        \/ closed' \in {closed, closed \cup {"server"}} /\ active' = FALSE
    <3>1. \/ closed' = closed /\ active' = active
          \/ \E by \in SUBSET Threads : GiveUpSlot(by)
      BY <1>13 DEF Remove, Sweep
    <3>2. QED
      BY <3>1, Closes DEF GiveUpSlot, TypeOK
  <2>4. QED
    BY <2>1, <2>2, <2>3 DEF RegistrationOK, ClosedOK, AdmittedIsRegistered
<1>14. CASE ServerEnds
  <2>1. handler' = [t \in Threads |-> "gone"] /\ age' = 0 /\ active' = FALSE /\ ~up'
    BY <1>14 DEF ServerEnds, CountAnew
  <2>2. closed' = closed \cup {"server"} /\ UNCHANGED <<toClient, client, acceptor>>
    BY <1>14 DEF ServerEnds
  <2>3. QED
    BY <2>1, <2>2 DEF client, RegistrationOK, ClosedOK, AdmittedIsRegistered
<1>15. CASE UNCHANGED vars
  BY <1>15 DEF vars, connection, client, server, RegistrationOK, ClosedOK, AdmittedIsRegistered
<1>16. QED
  BY <1>1, <1>3, <1>5, <1>6, <1>7, <1>9, <1>10, <1>11, <1>12, <1>13, <1>14, <1>15
     DEF Next, Client, MainSteps, ListenerSteps, Server, Acceptor, Handler

\* An ALIVE that was sent is in the stream until the client's main thread takes it
\* for the answer or its listener answers it with a PING, which stays until the handler
\* resets the age.
LEMMA StepSilence ==
    TypeOK /\ RegistrationOK /\ ClosedOK /\ SilenceExplained /\ [Next]_vars => SilenceExplained'
<1> SUFFICES ASSUME TypeOK, RegistrationOK, ClosedOK, SilenceExplained, [Next]_vars,
                    active', age' > 0
             PROVE  \/ "ALIVE" \in Sent(toClient') \/ listener' = "answer" \/ toServer' # <<>>
                    \/ swallowed'
                    \/ ~running' \/ main' = "gone"
  BY DEF SilenceExplained
<1>1. CASE UNCHANGED <<toClient, listener, server, swallowed>>
           /\ (running' => running) /\ (toServer # <<>> => toServer' # <<>>)
           /\ main # "gone"
  BY <1>1 DEF SilenceExplained, server
<1>2. ASSUME NEW m \in ToServer, ClientSend(m)
      PROVE  toServer # <<>> => toServer' # <<>>
  BY <1>2, ClientSends
<1>3. CASE SendName \/ TypeLine \/ StopTyping \/ Quit \/ StopRunning
  <2>1. toServer # <<>> => toServer' # <<>>
    <3>1. toServer' = toServer \/ \E m \in ToServer : ClientSend(m)
      BY <1>3 DEF SendName, TypeLine, StopTyping, Quit, StopRunning, ToServer, connection
    <3>2. QED
      BY <1>2, <3>1
  <2>2. QED
    BY <1>1, <1>3, <2>1 DEF SendName, TypeLine, StopTyping, Quit, StopRunning, connection
<1>4. CASE Join \/ Interrupt \/ Killed
  BY <1>4 DEF Join, Interrupt, Killed, Exit
<1>5. CASE GetResponse
  <2>1. CASE Exit
    BY <2>1 DEF Exit
  <2>2. CASE \E n \in 1 .. Len(toClient) :
                 /\ toClient' = Left(toClient, n)
                 /\ swallowed' = (swallowed \/ (active /\ (Hides(toClient, n) \/ Head(toClient) = "ALIVE")))
                 /\ UNCHANGED <<toServer, closed, running, server>>
    <3>1. active /\ age > 0 /\ toServer' = toServer /\ running' = running /\ main = "response"
      BY <1>5, <2>2 DEF GetResponse, server
    <3>2. listener # "answer"
      BY <3>1 DEF RegistrationOK
    <3>3. "ALIVE" \in Sent(toClient) => "ALIVE" \in Sent(toClient') \/ swallowed'
      BY <2>2, <3>1, ClientReceives
    <3>4. swallowed => swallowed'
      BY <2>2
    <3>5. QED
      BY <3>1, <3>2, <3>3, <3>4 DEF SilenceExplained
  <2>3. QED
    BY <1>5, <2>1, <2>2 DEF GetResponse
<1>6. CASE CheckRunning
  BY <1>6 DEF CheckRunning, connection, server, SilenceExplained
<1>7. CASE Receive
  <2>1. CASE running' = FALSE
    BY <2>1
  <2>2. CASE \E n \in 1 .. Len(toClient) :
                 /\ toClient' = Left(toClient, n)
                 /\ swallowed' = (swallowed \/ (active /\ Hides(toClient, n)))
                 /\ listener' = IF Head(toClient) = "ALIVE" THEN "answer" ELSE "check"
                 /\ UNCHANGED running
    <3>1. active /\ age > 0 /\ toServer' = toServer /\ main' = main /\ listener # "answer"
      BY <1>7 DEF Receive, server
    <3>2. "ALIVE" \in Sent(toClient)
              => "ALIVE" \in Sent(toClient') \/ swallowed' \/ listener' = "answer"
      BY <2>2, <3>1, ClientReceives
    <3>3. (swallowed => swallowed') /\ running' = running
      BY <2>2
    <3>4. QED
      BY <3>1, <3>2, <3>3 DEF SilenceExplained
  <2>3. QED
    BY <1>7, <2>1, <2>2 DEF Receive
<1>8. CASE AnswerAlive
  <2>1. active /\ "server" \notin closed
    BY <1>8 DEF AnswerAlive, server, ClosedOK
  <2>2. toServer' # <<>>
    BY <1>8, <2>1, ClientSends DEF AnswerAlive, ToServer
  <2>3. QED
    BY <2>2
<1>9. CASE Register
  BY <1>9 DEF Register, RegistrationOK
<1>10. ASSUME NEW m \in ToClient, ServerSend(m)
       PROVE  Sent(toClient) \subseteq Sent(toClient') /\ (closed = {} /\ Open => m \in Sent(toClient'))
  BY <1>10, ServerSends
<1>11. CASE Welcome \/ (\E t \in Threads : Handle(t)) \/ Broadcast
  <2>1. Sent(toClient) \subseteq Sent(toClient')
    <3>1. toClient' = toClient \/ \E m \in ToClient : ServerSend(m)
      BY <1>11 DEF Welcome, Handle, Broadcast, ToClient
    <3>2. QED
      BY <1>10, <3>1
  <2>2. /\ active /\ age > 0
        /\ UNCHANGED <<listener, toServer, swallowed, running, main>>
    BY <1>11 DEF Welcome, Handle, Broadcast, client, server
  <2>3. QED
    BY <2>1, <2>2 DEF SilenceExplained
<1>12. CASE \E t \in Threads : HandlerReceives(t)
  <2>1. PICK t \in Threads : HandlerReceives(t)
    BY <1>12
  <2>2. StreamEnded
    BY <2>1 DEF HandlerReceives, CountAnew
  <2>3. main = "gone" /\ UNCHANGED client
    BY <2>1, <2>2 DEF HandlerReceives, StreamEnded, AtEnd, ClosedOK
  <2>4. QED
    BY <2>3 DEF client
<1>13. CASE \E t \in Threads : StrayReceives(t)
  <2>1. PICK t \in Threads : StrayReceives(t)
    BY <1>13
  <2>2. UNCHANGED <<active, client>>
    BY <2>1 DEF StrayReceives
  <2>3. CASE StreamEnded
    BY <2>2, <2>3 DEF StreamEnded, AtEnd, ClosedOK, client
  <2>4. CASE swallowed' = active
    BY <2>2, <2>4
  <2>5. QED
    BY <2>1, <2>3, <2>4 DEF StrayReceives
<1>14. CASE ServerEnds \/ \E t \in Threads : Remove(t)
  <2>1. active' = FALSE
    BY <1>14 DEF ServerEnds, Remove, GiveUpSlot
  <2>2. QED
    BY <2>1
<1>15. CASE Sweep
  <2>1. ServerSend("ALIVE") /\ UNCHANGED client /\ active
    BY <1>15 DEF Sweep, GiveUpSlot
  <2>2. CASE closed = {}
    BY <1>10, <2>1, <2>2 DEF ToClient, Open
  <2>3. CASE closed # {}
    <3>1. "client" \in closed
      BY <2>1, <2>3 DEF TypeOK, ClosedOK
    <3>2. QED
      BY <2>1, <3>1 DEF ClosedOK, client
  <2>4. QED
    BY <2>2, <2>3
<1>16. CASE \E t \in Stale : Intrude(t) \/ Stray(t)
  <2>1. UNCHANGED <<connection, client, active>> /\ (CountAnew \/ UNCHANGED <<age, swallowed>>)
    BY <1>16 DEF Intrude, Stray
  <2>2. UNCHANGED <<age, swallowed>>
    BY <2>1 DEF CountAnew
  <2>3. QED
    BY <2>1, <2>2 DEF connection, client, SilenceExplained
<1>17. CASE UNCHANGED vars
  BY <1>17 DEF vars, connection, client, server, SilenceExplained
<1>18. QED
  BY <1>3, <1>4, <1>5, <1>6, <1>7, <1>8, <1>9, <1>11, <1>12, <1>13, <1>14, <1>15, <1>16, <1>17
     DEF Next, Client, MainSteps, ListenerSteps, Server, Acceptor, Handler

-----------------------------------------------------------------------------
(* The theorems. *)

LEMMA ClientInvariant == Spec => []ClientInv
<1>1. Init => ClientInv
  <2> SUFFICES ASSUME Init PROVE ClientInv
    OBVIOUS
  <2>1. <<>> \in Seq(ToServer) /\ <<>> \in Seq(ToClient)
    BY EmptySeq
  <2>2. TypeOK
    <3>1. age = 0
      BY DEF Init
    <3>2. age \in 0 .. 3
      BY <3>1
    <3>3. {running, up, active, swallowed} \subseteq BOOLEAN
      BY DEF Init
    <3>4. handler \in [Threads -> Places]
      BY DEF Init, Places
    <3>5. QED
      BY <2>1, <3>2, <3>3, <3>4 DEF Init, TypeOK
  <2>3. RegistrationOK /\ ClosedOK /\ AdmittedIsRegistered /\ SilenceExplained
    BY DEF Init, RegistrationOK, ClosedOK, AdmittedIsRegistered, SilenceExplained
  <2>4. QED
    BY <2>2, <2>3 DEF ClientInv
<1>2. ClientInv /\ [Next]_vars => ClientInv'
  BY StepType, StepRegistration, StepSilence DEF ClientInv
<1>3. QED
  BY <1>1, <1>2, PTL DEF Spec

\* Whatever is under way and whatever the users do, a client that lets its user type
\* is registered, and the server removes a client in its fourth silent round at
\* the latest (client.c:115-128, server.c:173, 279, 299).
THEOREM ClientKeepsProtocol == Spec => []ProtocolKept
<1>1. ClientInv => ProtocolKept
  BY DEF ClientInv, ProtocolKept
<1>2. QED
  BY <1>1, ClientInvariant, PTL

\* A client whose silence the ping thread counts has been sent an ALIVE that is on its
\* way, answered, or hidden behind a text, or is ending, or its answer went to a handler
\* of another slot (client.c:46-50, server.c:85, 173-181).
THEOREM ClientSilenceExplained == Spec => []SilenceExplained
<1>1. ClientInv => SilenceExplained
  BY DEF ClientInv
<1>2. QED
  BY <1>1, ClientInvariant, PTL
=============================================================================
