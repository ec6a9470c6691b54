------------------------------ MODULE MsgChat ------------------------------
(***************************************************************************)
(* The chat over System V message queues: cw07/assignment/server.c and     *)
(* client.c.  Every client makes a queue of its own and announces it to    *)
(* the server, whose one loop registers clients and sends every text on to *)
(* all of them; a client's main process types, its forked child listens.   *)
(*                                                                         *)
(* Queues outlive processes.  A queue is an index of queues; once removed  *)
(* its number is not given out again.  msgsnd blocks on a full queue and   *)
(* fails on one that was removed, also while it is blocked.                *)
(***************************************************************************)
EXTENDS Integers, Sequences, FiniteSets

CONSTANTS Procs,        \* runs of the client program
          Keys,         \* what ftok can return: it uses 8 bits of the pid
          MAX_CLIENTS,  \* slots of the server's table
          QueueCap,     \* messages a queue holds (msg_qbytes)
          Privileged,   \* the server may write to queues of mode 0
          MaxLines,     \* bound: lines typed at all clients
          MaxRestarts   \* bound: restarts of the server

IPC_PRIVATE == "IPC_PRIVATE"

ASSUME MsgAssumption ==
  /\ IPC_PRIVATE \notin Keys
  /\ MAX_CLIENTS \in Nat \ {0} /\ QueueCap \in Nat \ {0}
  /\ Privileged \in BOOLEAN
  /\ MaxLines \in Nat /\ MaxRestarts \in Nat

VARIABLES queues,    \* all queues but the server's, in the order they were made
          inbox,     \* the server's queue
          clients,   \* the server's table, up to client_count, with (history)
                     \* the texts each client is due, whatever ID they bear
          server,    \* what the server is doing
          main,      \* per run: where the main process is
          child,     \* per run: the forked listener
          queue,     \* client_queue_id
          id,        \* client_id
          lines,     \* the lines typed so far at all clients: who typed each
          restarts,  \* restarts of the server so far
          heard      \* history: what each listener has printed

vars == <<queues, inbox, clients, server, main, child, queue, id, lines,
          restarts, heard>>

serverSide == <<clients, server, restarts>>
clientSide == <<main, child, queue, id, lines, heard>>

\* A text is the number of its line; 0 is the text that tells a client its ID.
YourId == 0
Responses == [id : Int, text : {YourId} \cup 1..MaxLines]
Author(t) == lines[t.text]
Idle == [pc |-> "recv", to |-> 0, text |-> [id |-> 0, text |-> YourId]]

Init ==
  /\ queues = <<>> /\ inbox = <<>> /\ clients = <<>>
  /\ server = Idle
  /\ main = [p \in Procs |-> "start"]
  /\ child = [p \in Procs |-> "none"]
  /\ queue = [p \in Procs |-> 0]
  /\ id = [p \in Procs |-> 0]
  /\ lines = <<>>
  /\ restarts = 0
  /\ heard = [p \in Procs |-> <<>>]

-----------------------------------------------------------------------------
(* msgget, msgsnd, msgrcv and msgctl.                                      *)

\* The queues msgget finds: none for IPC_PRIVATE, which makes a new one.
At(key) == {q \in DOMAIN queues :
              queues[q].live /\ queues[q].key = key /\ key # IPC_PRIVATE}
NewQueue(key) == [key |-> key, live |-> TRUE, msgs |-> <<>>]

\* A private queue is made with mode 0 (server.c:71 passes no mode).
Accepts(q) == queues[q].live /\ (queues[q].key # IPC_PRIVATE \/ Privileged)
CanSend(q) == Accepts(q) => Len(queues[q].msgs) < QueueCap
Send(q, m) == queues' = IF Accepts(q)
                          THEN [queues EXCEPT ![q].msgs = Append(@, m)]
                          ELSE queues
HasMessage(q) == queues[q].live /\ queues[q].msgs # <<>>
Dequeued(q) == [queues EXCEPT ![q].msgs = Tail(@)]

-----------------------------------------------------------------------------
(* The server.                                                             *)

\* Mutant: the table is filled beyond its last slot.
Rejects_NoLimit(m) == m.key # IPC_PRIVATE /\ At(m.key) = {}

\* The table is full, or the queue announced does not exist.
Rejects(m) == \/ Len(clients) >= MAX_CLIENTS
              \/ m.key # IPC_PRIVATE /\ At(m.key) = {}

\* A text that begins with INIT is an announcement with key 0.
TakeInit ==
  LET m == Head(inbox)
      n == Len(clients) + 1
      Enter(q) == clients' = Append(clients, [client_id |-> n, queue_id |-> q,
                                              due |-> <<>>])
  IN  /\ server.pc = "recv" /\ inbox # <<>> /\ m.init
      /\ inbox' = Tail(inbox)
      /\ IF Rejects(m) THEN UNCHANGED <<queues, clients, server>>
         ELSE /\ server' = [Idle EXCEPT !.pc = "reply", !.to = n]
              /\ IF m.key = IPC_PRIVATE
                   THEN /\ queues' = Append(queues, NewQueue(m.key))
                        /\ Enter(Len(queues) + 1)
                   ELSE /\ UNCHANGED queues
                        /\ \E q \in At(m.key) : Enter(q)
      /\ UNCHANGED <<restarts, clientSide>>

\* Mutant: no answer is sent.
Reply_Not ==
  /\ server.pc = "reply" /\ server' = Idle
  /\ UNCHANGED <<queues, inbox, clients, restarts, clientSide>>

\* Mutant: the ID is counted after client_count was incremented.
Reply_Recounted ==
  /\ server.pc = "reply" /\ CanSend(clients[server.to].queue_id)
  /\ Send(clients[server.to].queue_id, [id |-> Len(clients) + 1, text |-> YourId])
  /\ server' = Idle
  /\ UNCHANGED <<inbox, clients, restarts, clientSide>>

Reply ==
  LET c == clients[server.to]
  IN  /\ server.pc = "reply" /\ CanSend(c.queue_id)
      /\ Send(c.queue_id, [id |-> c.client_id, text |-> YourId])
      /\ server' = Idle
      /\ UNCHANGED <<inbox, clients, restarts, clientSide>>

\* The text becomes due to all who are registered, except the run that typed it;
\* the code has only the ID to tell that run by (BroadcastTo).
TakeText ==
  LET text == [id |-> Head(inbox).pid, text |-> Head(inbox).text]
  IN  /\ server.pc = "recv" /\ inbox # <<>> /\ ~Head(inbox).init
      /\ inbox' = Tail(inbox)
      /\ server' = [pc |-> "broadcast", to |-> 1, text |-> text]
      /\ clients' = [i \in DOMAIN clients |->
                       IF clients[i].queue_id = queue[Author(text)] THEN clients[i]
                       ELSE [clients[i] EXCEPT !.due = Append(@, text)]]
      /\ UNCHANGED <<queues, restarts, clientSide>>

\* Mutant: the sender is not left out.
BroadcastTo_Echoes ==
  LET q == clients[server.to].queue_id
  IN  /\ server.pc = "broadcast" /\ server.to <= Len(clients)
      /\ CanSend(q) /\ Send(q, server.text)
      /\ server' = [server EXCEPT !.to = @ + 1]
      /\ UNCHANGED <<inbox, clients, restarts, clientSide>>

\* broadcast_message for one client; the sender is told by its ID.
BroadcastTo ==
  LET c == clients[server.to]
  IN  /\ server.pc = "broadcast" /\ server.to <= Len(clients)
      /\ IF c.client_id = server.text.id THEN UNCHANGED queues
         ELSE CanSend(c.queue_id) /\ Send(c.queue_id, server.text)
      /\ server' = [server EXCEPT !.to = @ + 1]
      /\ UNCHANGED <<inbox, clients, restarts, clientSide>>

BroadcastDone ==
  /\ server.pc = "broadcast" /\ server.to > Len(clients)
  /\ server' = Idle
  /\ UNCHANGED <<queues, inbox, clients, restarts, clientSide>>

Server == TakeInit \/ Reply \/ TakeText \/ BroadcastTo \/ BroadcastDone

\* A server killed and started again finds its queue, and knows nobody.
ServerRestart ==
  /\ restarts < MaxRestarts /\ restarts' = restarts + 1
  /\ clients' = <<>> /\ server' = Idle
  /\ UNCHANGED <<queues, inbox, clientSide>>

-----------------------------------------------------------------------------
(* A client.                                                               *)

\* ftok and msgget with IPC_CREAT: a queue that is there already, of another run
\* with the same key or left by one that was killed, is used as it is.
MakeQueue(p) ==
  /\ main[p] = "start"
  /\ \E key \in Keys :
       IF At(key) = {}
         THEN /\ queues' = Append(queues, NewQueue(key))
              /\ queue' = [queue EXCEPT ![p] = Len(queues) + 1]
         ELSE /\ UNCHANGED queues
              /\ \E q \in At(key) : queue' = [queue EXCEPT ![p] = q]
  /\ main' = [main EXCEPT ![p] = "announce"]
  /\ UNCHANGED <<inbox, serverSide, child, id, lines, heard>>

SendToServer(m) == Len(inbox) < QueueCap /\ inbox' = Append(inbox, m)

Announce(p) ==
  /\ main[p] = "announce"
  /\ SendToServer([init |-> TRUE, key |-> queues[queue[p]].key, pid |-> 0, text |-> 0])
  /\ main' = [main EXCEPT ![p] = "waiting"]
  /\ UNCHANGED <<queues, serverSide, child, queue, id, lines, heard>>

\* Whatever comes first is taken for the answer; then the listener is forked.
ReceiveId(p) ==
  /\ main[p] = "waiting" /\ HasMessage(queue[p])
  /\ id' = [id EXCEPT ![p] = Head(queues[queue[p]].msgs).id]
  /\ queues' = Dequeued(queue[p])
  /\ main' = [main EXCEPT ![p] = "typing"]
  /\ child' = [child EXCEPT ![p] = "listening"]
  /\ UNCHANGED <<inbox, serverSide, queue, lines, heard>>

\* A line that begins with INIT is one to the server; its key is 0.
TypeLine(p) ==
  /\ main[p] = "typing" /\ Len(lines) < MaxLines
  /\ lines' = Append(lines, p)
  /\ \E init \in BOOLEAN :
       SendToServer([init |-> init, key |-> IPC_PRIVATE, pid |-> id[p],
                     text |-> Len(lines) + 1])
  /\ UNCHANGED <<queues, serverSide, main, child, queue, id, heard>>

\* receive_messages; on a queue that is gone it fails for ever.
Listen(p) ==
  LET m == Head(queues[queue[p]].msgs)
  IN  /\ child[p] = "listening" /\ HasMessage(queue[p])
      /\ heard' = [heard EXCEPT ![p] = Append(@, m)]
      /\ queues' = Dequeued(queue[p])
      /\ UNCHANGED <<inbox, serverSide, main, child, queue, id, lines>>

\* Mutant: the queue is left behind.
RemoveQueue_Not(q) == UNCHANGED queues

\* cleanup removes the queue, whoever else uses it.
RemoveQueue(q) == queues' = [queues EXCEPT ![q].live = FALSE, ![q].msgs = <<>>]

\* End of input, SIGINT, or the answer cannot be received any more.
Leave(p) ==
  /\ main[p] \in {"announce", "waiting", "typing"}
  /\ RemoveQueue(queue[p])
  /\ main' = [main EXCEPT ![p] = "exited"]
  /\ UNCHANGED <<inbox, serverSide, child, queue, id, lines, heard>>

\* The child has inherited the handler of SIGINT.
ChildInterrupted(p) ==
  /\ child[p] = "listening"
  /\ RemoveQueue(queue[p])
  /\ child' = [child EXCEPT ![p] = "exited"]
  /\ UNCHANGED <<inbox, serverSide, main, queue, id, lines, heard>>

KillMain(p) ==
  /\ main[p] \in {"announce", "waiting", "typing"}
  /\ main' = [main EXCEPT ![p] = "killed"]
  /\ UNCHANGED <<queues, inbox, serverSide, child, queue, id, lines, heard>>

KillChild(p) ==
  /\ child[p] = "listening"
  /\ child' = [child EXCEPT ![p] = "killed"]
  /\ UNCHANGED <<queues, inbox, serverSide, main, queue, id, lines, heard>>

\* The waiting client's msgrcv fails when its queue is gone, and it exits.
WaitFails(p) == main[p] = "waiting" /\ ~queues[queue[p]].live /\ Leave(p)

Client(p) == MakeQueue(p) \/ Announce(p) \/ ReceiveId(p) \/ TypeLine(p)
             \/ Listen(p) \/ Leave(p) \/ ChildInterrupted(p)
             \/ KillMain(p) \/ KillChild(p)

Next == Server \/ ServerRestart \/ \E p \in Procs : Client(p)

\* Blocked calls return when they can; users type and leave as they like.
Fairness ==
  /\ WF_vars(Server)
  /\ \A p \in Procs : /\ WF_vars(Announce(p))
                      /\ WF_vars(ReceiveId(p) \/ WaitFails(p))
                      /\ WF_vars(Listen(p))

Spec == Init /\ [][Next]_vars
FairSpec == Spec /\ Fairness

-----------------------------------------------------------------------------
(* Correctness.                                                            *)

\* Every variable has the type of its C counterpart: queues and table within
\* their limits, numbers of queues that were made.
TypeOK ==
  /\ \A q \in DOMAIN queues :
       /\ queues[q].key \in Keys \cup {IPC_PRIVATE}
       /\ queues[q].live \in BOOLEAN
       /\ queues[q].msgs \in Seq(Responses) /\ Len(queues[q].msgs) <= QueueCap
  /\ Len(inbox) <= QueueCap
  /\ Len(clients) <= MAX_CLIENTS
  /\ \A i \in DOMAIN clients : clients[i].queue_id \in DOMAIN queues
  /\ server \in [pc : {"recv", "reply", "broadcast"}, to : 0..(MAX_CLIENTS + 1),
                 text : Responses]
  /\ main \in [Procs -> {"start", "announce", "waiting", "typing", "exited", "killed"}]
  /\ child \in [Procs -> {"none", "listening", "exited", "killed"}]
  /\ queue \in [Procs -> 0..Len(queues)]
  /\ id \in [Procs -> Int]
  /\ lines \in Seq(Procs) /\ Len(lines) <= MaxLines
  /\ heard \in [Procs -> Seq(Responses)]

\* No other run has had the same key.  (A queue of its own is not enough: the
\* announcement of an earlier run may still be on its way.)
Alone(p) == /\ queue[p] # 0
            /\ \A r \in Procs \ {p} :
                 queue[r] # 0 => queues[queue[r]].key # queues[queue[p]].key
Owner(i, p) == Alone(p) /\ clients[i].queue_id = queue[p]

\* What a queue holds after the answer, which comes first if it is still there.
Texts(msgs) == IF msgs # <<>> /\ Head(msgs).text = YourId THEN Tail(msgs) ELSE msgs

\* The text being sent on, while the i-th client's turn has not come.
Pending(i) == IF /\ server.pc = "broadcast" /\ server.to <= i
                 /\ clients[i].client_id # server.text.id
              THEN <<server.text>> ELSE <<>>

\* A run the server has no entry for since it was started again, or one that has
\* shared its key: it may type under the ID of another client.
Stranger(r) == ~Alone(r) \/ \A i \in DOMAIN clients : clients[i].queue_id # queue[r]

\* A client whose key is its own gets the texts of the other runs that the server took
\* while it was registered, each once and in that order, and its own never: they are
\* what it has printed, what waits in its queue and what is being sent on.  Only the
\* text of a stranger with the client's own ID can be missing: the server takes it for
\* the client's (broadcast_message, server.c:34-46, against receive_messages,
\* client.c:36-44).
DeliversDue ==
  \A i \in DOMAIN clients, p \in Procs :
    Owner(i, p) /\ queues[queue[p]].live =>
      LET got == heard[p] \o Texts(queues[queue[p]].msgs) \o Pending(i)
          due == clients[i].due
      IN  /\ \A k, l \in DOMAIN got : k < l => got[k].text < got[l].text
          /\ \A k \in DOMAIN got : \E l \in DOMAIN due : got[k] = due[l]
          /\ \A l \in DOMAIN due :
               \/ \E k \in DOMAIN got : got[k] = due[l]
               \/ due[l].id = clients[i].client_id /\ Stranger(Author(due[l]))

\* The ID a client with a key of its own goes by is the one under which the
\* server has that queue: the first message in it was the answer (client.c:80-85,
\* against server.c:77-88), so its texts are kept from itself and from nobody else.
IdsAgree ==
  \A i \in DOMAIN clients, p \in Procs :
    Owner(i, p) /\ child[p] # "none" => id[p] = clients[i].client_id

\* The table and the queues are in order: queues and table within their limits
\* (server.c:66), entries for queues there have been, IDs as the clients know them.
TableOK == TypeOK /\ IdsAgree

\* Nobody reads the queue: a process that used it was killed, or it is one the
\* server has made for a line that begins with INIT.
Abandoned(q) ==
  /\ \A p \in Procs : queue[p] = q => main[p] # "waiting" /\ child[p] # "listening"
  /\ \/ queues[q].key = IPC_PRIVATE
     \/ \E p \in Procs : queue[p] = q /\ "killed" \in {main[p], child[p]}
StuckOn(q) == /\ server.pc # "recv" /\ server.to \in DOMAIN clients
              /\ clients[server.to].queue_id = q
              /\ ~CanSend(q) /\ Abandoned(q)

\* The server always comes back to msgrcv unless it is blocked on an abandoned
\* queue.  Clients that type, leave, are interrupted or share a queue do not stop
\* it, since whoever leaves removes its queue and a blocked msgsnd fails
\* (server.c:41 and 88).
ServerReturns ==
  []<>(server.pc = "recv" \/ \E q \in DOMAIN queues : StuckOn(q))

\* A client with a key of its own is left waiting for its ID only by a full
\* table (server.c:66-69 sends no answer then), a server that was killed or one
\* that is stuck.
WaitsForReason ==
  \A p \in Procs :
    main[p] = "waiting" /\ Alone(p)
      ~> \/ main[p] # "waiting" \/ ~Alone(p)
         \/ Len(clients) = MAX_CLIENTS \/ restarts > 0
         \/ \E q \in DOMAIN queues : StuckOn(q)
=============================================================================
