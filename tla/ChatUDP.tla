------------------------------ MODULE ChatUDP ------------------------------
(***************************************************************************)
(* The UDP chat of cw12/assignment: server.c with its main thread, which   *)
(* handles one datagram at a time, and its ping thread; client.c with its  *)
(* main thread and its receiving thread; and the network between them,     *)
(* which delays, reorders, duplicates and, if Lossy, loses datagrams.      *)
(*                                                                         *)
(* A client is a process and also its socket address: each has its own.    *)
(* Of a datagram the model keeps what makes a program act differently.     *)
(* Time passes in ticks; MAX_CLIENTS, TIMEOUT and PERIOD are small.        *)
(***************************************************************************)
EXTENDS Naturals, FiniteSets, FiniteSetsExt

CONSTANTS
    Clients, Server,
    Names, NoName,
    Stored,         \* what is stored of each name: its first MAX_NAME_LEN - 1 characters
    MAX_CLIENTS,
    TIMEOUT,        \* TIMEOUT_SECONDS, in ticks
    PERIOD,         \* the 30 seconds the ping thread sleeps, in ticks
    MaxLines,       \* bound: lines the users type, QUIT apart
    MaxDuplicates,  \* bound: datagrams the network duplicates
    Lossy           \* whether the network loses datagrams

ASSUME ChatAssumption ==
    /\ IsFiniteSet(Clients) /\ Server \notin Clients
    /\ NoName \notin Names
    /\ Stored \in [Names -> Names] /\ \A n \in Names : Stored[Stored[n]] = Stored[n]
    /\ {MAX_CLIENTS, TIMEOUT, PERIOD} \subseteq Nat \ {0}
    /\ MaxLines \in Nat /\ MaxDuplicates \in Nat
    /\ Lossy \in BOOLEAN

VARIABLES
    active, name, addr, age,    \* clients[]: age is now - last_ping, 0 if not active
    client_count,
    pc, client_id, target_id,   \* the server's main thread
    buffer,                     \* the datagram it is handling
    slept,                      \* how long the ping thread has been asleep
    main, receiver, running,    \* the clients: two threads and the running flag
    lines,                      \* lines typed so far, QUIT apart
    net, duplicates             \* datagrams on their way; duplications so far

table == <<active, name, addr, age, client_count>>
thread == <<pc, client_id, target_id, buffer>>
clients == <<main, receiver, running, lines>>
vars == <<table, thread, slept, clients, net, duplicates>>

Slots == 0 .. MAX_CLIENTS - 1
None == MAX_CLIENTS             \* the -1 of the lookups

ToServer == [src : Clients, dst : {Server}, name : Names, body : {"REGISTER", "2ONE"}]
            \cup [src : Clients, dst : {Server}, name : {NoName},
                  body : {"LIST", "2ALL", "QUIT", "PING"}]
ToClient == [src : {Server}, dst : Clients, name : Names \cup {NoName},
             body : {"OK", "ERROR", "ALIVE", "TEXT", "PRIVATE"}]
NoDatagram == [src |-> Server, dst |-> Server, name |-> NoName, body |-> "none"]

Datagram(src, dst, body, n) == [src |-> src, dst |-> dst, body |-> body, name |-> n]
Reply(c, body) == Datagram(Server, c, body, NoName)
Line(c, body) == Datagram(c, Server, body, NoName)

(***************************************************************************)
(* The network.  The program takes the datagram d off it and sends those   *)
(* in S: what is addressed to a socket already closed has no effect.       *)
(***************************************************************************)
Deliverable(S) == {d \in S : d.dst = Server \/ main[d.dst] # "exited"}
Sends(S) == net' = net \cup Deliverable(S)
Takes(d, S) == d \in net /\ net' = (net \ {d}) \cup Deliverable(S)

Lose ==
    /\ Lossy
    /\ \E d \in net : net' = net \ {d}
    /\ UNCHANGED <<table, thread, slept, clients, duplicates>>

-----------------------------------------------------------------------------
Init ==
    /\ active = [s \in Slots |-> FALSE]
    /\ name = [s \in Slots |-> NoName]
    /\ addr = [s \in Slots |-> Server]
    /\ age = [s \in Slots |-> 0]
    /\ client_count = 0
    /\ pc = "recv" /\ client_id = None /\ target_id = None /\ buffer = NoDatagram
    /\ slept = 0
    /\ main = [c \in Clients |-> "start"]
    /\ receiver = [c \in Clients |-> "none"]
    /\ running = [c \in Clients |-> TRUE]
    /\ lines = 0
    /\ net = {} /\ duplicates = 0

(***************************************************************************)
(* server.c: the table.                                                    *)
(***************************************************************************)
FirstSlot(S) == IF S = {} THEN None ELSE Min(S)
find_client_by_addr(c) == FirstSlot({s \in Slots : active[s] /\ addr[s] = c})

\* Mutant: every name counts as free.
find_client_by_name_Never(n) == None

find_client_by_name(n) == FirstSlot({s \in Slots : active[s] /\ name[s] = n})

FreeSlot == FirstSlot({s \in Slots : ~active[s]})

(***************************************************************************)
(* server.c: handle_message, in the main thread.  The ping thread can get  *)
(* in wherever clients_mutex is free, so a message that is not REGISTER is *)
(* handled in steps: the lookup of its sender, the write of last_ping, the *)
(* lookup of an addressee, and the section with the mutex.                 *)
(***************************************************************************)
Receive(d, keep) ==
    /\ pc = "recv" /\ d \in net /\ d.dst = Server
    /\ IF keep THEN duplicates < MaxDuplicates /\ duplicates' = duplicates + 1
               ELSE UNCHANGED duplicates

\* The network is left with d's other copy, if it was duplicated.
AfterReceive(d, keep, S) == net' = (IF keep THEN net ELSE net \ {d}) \cup Deliverable(S)

\* register_client and the reply.  The name is looked up as it came, and stored cut.
HandleRegister(d, keep) ==
    /\ Receive(d, keep) /\ d.body = "REGISTER"
    /\ IF find_client_by_name(d.name) = None /\ FreeSlot # None
       THEN /\ active' = [active EXCEPT ![FreeSlot] = TRUE]
            /\ name' = [name EXCEPT ![FreeSlot] = Stored[d.name]]
            /\ addr' = [addr EXCEPT ![FreeSlot] = d.src]
            /\ age' = [age EXCEPT ![FreeSlot] = 0]
            /\ client_count' = client_count + 1
            /\ AfterReceive(d, keep, {Reply(d.src, "OK")})
       ELSE /\ AfterReceive(d, keep, {Reply(d.src, "ERROR")})
            /\ UNCHANGED table
    /\ UNCHANGED <<thread, slept, clients>>

HandleUnknown(d, keep) ==
    /\ Receive(d, keep) /\ d.body # "REGISTER"
    /\ find_client_by_addr(d.src) = None
    /\ AfterReceive(d, keep, {Reply(d.src, "ERROR")})
    /\ UNCHANGED <<table, thread, slept, clients>>

HandleKnown(d, keep) ==
    /\ Receive(d, keep) /\ d.body # "REGISTER"
    /\ find_client_by_addr(d.src) # None
    /\ client_id' = find_client_by_addr(d.src)
    /\ buffer' = d
    /\ pc' = "refresh"
    /\ AfterReceive(d, keep, {})
    /\ UNCHANGED <<table, target_id, slept, clients>>

\* clients[client_id].last_ping = time(NULL), without the mutex.
Refresh ==
    /\ pc = "refresh"
    /\ age' = [age EXCEPT ![client_id] = 0]
    /\ pc' = "command"
    /\ UNCHANGED <<active, name, addr, client_count, client_id, target_id, buffer,
                   slept, clients, net, duplicates>>

\* Back to recvfrom, with the replies sent.
Handled(S) ==
    /\ pc' = "recv" /\ client_id' = None /\ target_id' = None /\ buffer' = NoDatagram
    /\ Sends(S)
    /\ UNCHANGED <<slept, clients, duplicates>>

\* LIST and PING are answered to the sender.
Answer ==
    /\ pc = "command" /\ buffer.body \in {"LIST", "PING"}
    /\ Handled({Reply(buffer.src, "TEXT")})
    /\ UNCHANGED table

\* 2ALL: broadcast_message.
ToAll ==
    /\ pc = "command" /\ buffer.body = "2ALL"
    /\ Handled({Reply(addr[s], "TEXT") : s \in {s \in Slots : active[s] /\ s # client_id}})
    /\ UNCHANGED table

\* 2ONE: find_client_by_name, without the mutex.
FindTarget ==
    /\ pc = "command" /\ buffer.body = "2ONE"
    /\ IF find_client_by_name(buffer.name) = None
       THEN Handled({Reply(buffer.src, "TEXT")})
       ELSE /\ target_id' = find_client_by_name(buffer.name)
            /\ pc' = "send"
            /\ UNCHANGED <<client_id, buffer, slept, clients, net, duplicates>>
    /\ UNCHANGED table

\* Mutant: the slot is not checked again.
SendGuard_None == TRUE

\* The check of send_to_client, made with the mutex.
SendGuard == active[target_id]

\* 2ONE: send_to_client, then the confirmation, whether or not it was sent.
ToOne ==
    /\ pc = "send"
    /\ Handled({Reply(buffer.src, "TEXT")} \cup
               IF SendGuard THEN {Datagram(Server, addr[target_id], "PRIVATE", buffer.name)}
                            ELSE {})
    /\ UNCHANGED table

\* Mutant: the slot is not checked again.
RemoveGuard_None == TRUE

\* The check of remove_client, made with the mutex.
RemoveGuard == active[client_id]

\* QUIT: say goodbye, then remove_client.
Quit ==
    /\ pc = "command" /\ buffer.body = "QUIT"
    /\ Handled({Reply(buffer.src, "OK")})
    /\ IF RemoveGuard
       THEN /\ active' = [active EXCEPT ![client_id] = FALSE]
            /\ name' = [name EXCEPT ![client_id] = NoName]
            /\ age' = [age EXCEPT ![client_id] = 0]
            /\ client_count' = client_count - 1
       ELSE UNCHANGED <<active, name, age, client_count>>
    /\ UNCHANGED addr

ServerMain ==
    \/ \E d \in net, keep \in BOOLEAN :
           HandleRegister(d, keep) \/ HandleUnknown(d, keep) \/ HandleKnown(d, keep)
    \/ Refresh \/ Answer \/ ToAll \/ FindTarget \/ ToOne \/ Quit

(***************************************************************************)
(* server.c: ping_clients, one round with the mutex held.                  *)
(***************************************************************************)
\* Mutant: one tick too early.
Silent_Early(s) == active[s] /\ age[s] >= TIMEOUT

Silent(s) == active[s] /\ age[s] > TIMEOUT

\* Mutant: sending ALIVE counts as a sign of life.
Sweep_CountsPings ==
    /\ slept >= PERIOD
    /\ slept' = 0
    /\ active' = [s \in Slots |-> active[s] /\ ~Silent(s)]
    /\ age' = [s \in Slots |-> 0]
    /\ client_count' = client_count - Cardinality({s \in Slots : Silent(s)})
    /\ Sends({Reply(addr[s], "ALIVE") : s \in {s \in Slots : active[s] /\ ~Silent(s)}})
    /\ UNCHANGED <<name, addr, thread, clients, duplicates>>

Sweep ==
    /\ slept >= PERIOD
    /\ slept' = 0
    /\ active' = [s \in Slots |-> active[s] /\ ~Silent(s)]
    /\ age' = [s \in Slots |-> IF Silent(s) THEN 0 ELSE age[s]]
    /\ client_count' = client_count - Cardinality({s \in Slots : Silent(s)})
    /\ Sends({Reply(addr[s], "ALIVE") : s \in {s \in Slots : active[s] /\ ~Silent(s)}})
    /\ UNCHANGED <<name, addr, thread, clients, duplicates>>

\* Time passes; an age beyond TIMEOUT is as good as any other beyond it.
Tick ==
    /\ slept' = IF slept < PERIOD THEN slept + 1 ELSE PERIOD
    /\ age' = [s \in Slots |-> IF active[s] /\ age[s] <= TIMEOUT THEN age[s] + 1 ELSE age[s]]
    /\ UNCHANGED <<active, name, addr, client_count, thread, clients, net, duplicates>>

(***************************************************************************)
(* client.c: the main thread.                                              *)
(***************************************************************************)
\* register_with_server sends the request, with the name main has cut.
Register(c) ==
    /\ main[c] = "start"
    /\ main' = [main EXCEPT ![c] = "registering"]
    /\ \E n \in Names : Sends({Datagram(c, Server, "REGISTER", Stored[n])})
    /\ UNCHANGED <<table, thread, slept, receiver, running, lines, duplicates>>

\* The process ends: its socket is closed.
Exits(c, S) ==
    /\ main' = [main EXCEPT ![c] = "exited"]
    /\ net' = {d \in net : d.dst # c} \cup S

\* ... and takes the first datagram that comes for the answer.
RegisterReply(c, d) ==
    /\ main[c] = "registering" /\ d.dst = c
    /\ IF d.body = "OK"
       THEN /\ main' = [main EXCEPT ![c] = "chatting"]
            /\ receiver' = [receiver EXCEPT ![c] = "recv"]
            /\ Takes(d, {})
       ELSE Exits(c, {}) /\ UNCHANGED receiver
    /\ UNCHANGED <<table, thread, slept, running, lines, duplicates>>

\* No answer in 5 seconds, or an answer too late.
RegisterTimeout(c) ==
    /\ main[c] = "registering"
    /\ Exits(c, {})
    /\ UNCHANGED <<table, thread, slept, receiver, running, lines, duplicates>>

\* A line other than QUIT and HELP goes out as it was typed.
TypeLine(c) ==
    /\ main[c] = "chatting" /\ lines < MaxLines
    /\ lines' = lines + 1
    /\ \/ \E body \in {"LIST", "2ALL"} : Sends({Line(c, body)})
       \/ \E body \in {"REGISTER", "2ONE"}, n \in Names : Sends({Datagram(c, Server, body, n)})
    /\ UNCHANGED <<table, thread, slept, main, receiver, running, duplicates>>

TypeQuit(c) ==
    /\ main[c] = "chatting"
    /\ main' = [main EXCEPT ![c] = "quit"]
    /\ Sends({Line(c, "QUIT")})
    /\ UNCHANGED <<table, thread, slept, receiver, running, lines, duplicates>>

\* running = 0, after QUIT or at the end of the input.
StopRunning(c) ==
    /\ main[c] \in {"quit", "chatting"}
    /\ running' = [running EXCEPT ![c] = FALSE]
    /\ main' = [main EXCEPT ![c] = "joining"]
    /\ UNCHANGED <<table, thread, slept, receiver, lines, net, duplicates>>

\* pthread_join(receive_thread) returns.
Join(c) ==
    /\ main[c] = "joining" /\ receiver[c] = "ended"
    /\ Exits(c, {})
    /\ UNCHANGED <<table, thread, slept, receiver, running, lines, duplicates>>

\* SIGINT: signal_handler sends QUIT and exits.
Interrupt(c) ==
    /\ main[c] \in {"registering", "chatting", "quit", "joining"}
    /\ Exits(c, {Line(c, "QUIT")})
    /\ running' = [running EXCEPT ![c] = FALSE]
    /\ UNCHANGED <<table, thread, slept, receiver, lines, duplicates>>

(***************************************************************************)
(* client.c: receive_messages.  It looks at running only between two calls *)
(* of recvfrom, which has no timeout here.                                 *)
(***************************************************************************)
ReceiveMessage(c, d) ==
    /\ main[c] # "exited" /\ receiver[c] = "recv" /\ d.dst = c
    /\ receiver' = [receiver EXCEPT ![c] = "check"]
    /\ Takes(d, IF d.body = "ALIVE" THEN {Line(c, "PING")} ELSE {})
    /\ UNCHANGED <<table, thread, slept, main, running, lines, duplicates>>

CheckRunning(c) ==
    /\ main[c] # "exited" /\ receiver[c] = "check"
    /\ receiver' = [receiver EXCEPT ![c] = IF running[c] THEN "recv" ELSE "ended"]
    /\ UNCHANGED <<table, thread, slept, main, running, lines, net, duplicates>>

ClientSteps(c) ==
    \/ \E d \in net : RegisterReply(c, d)
    \/ main[c] = "quit" /\ StopRunning(c)
    \/ Join(c)

ReceiverSteps(c) == (\E d \in net : ReceiveMessage(c, d)) \/ CheckRunning(c)

UserSteps(c) ==
    Register(c) \/ TypeLine(c) \/ TypeQuit(c) \/ Interrupt(c)

-----------------------------------------------------------------------------
Next ==
    \/ ServerMain \/ Sweep \/ Tick \/ Lose
    \/ \E c \in Clients :
           ClientSteps(c) \/ ReceiverSteps(c) \/ UserSteps(c) \/ StopRunning(c) \/ RegisterTimeout(c)

Spec == Init /\ [][Next]_vars

(***************************************************************************)
(* The server among programs that send it anything: an arbitrary datagram  *)
(* arrives, and those it sent are on their way to someone else.  This is   *)
(* every order, loss and repetition of datagrams there can be.             *)
(***************************************************************************)
Arrive ==
    /\ pc = "recv"
    /\ \E d \in ToServer : net' = {d}
    /\ UNCHANGED <<table, thread, slept, clients, duplicates>>

ServerNext == ServerMain \/ Sweep \/ Tick \/ Arrive
ServerSpec == Init /\ [][ServerNext]_vars

(***************************************************************************)
(* Scheduling: every thread that can run runs eventually, the clock goes   *)
(* on, and a datagram that is not lost arrives.  A user need do nothing.   *)
(***************************************************************************)
Fairness ==
    /\ WF_vars(ServerMain) /\ WF_vars(Sweep) /\ WF_vars(Tick)
    /\ \A c \in Clients : WF_vars(ClientSteps(c)) /\ WF_vars(ReceiverSteps(c))

FairSpec == Spec /\ Fairness

-----------------------------------------------------------------------------
(***************************************************************************)
(* Properties.                                                             *)
(***************************************************************************)
\* The count stays within the table, slot numbers are slots or -1, ages and threads
\* are in range, and the network carries messages of the two programs only.
TypeOK ==
    /\ active \in [Slots -> BOOLEAN]
    /\ name \in [Slots -> Names \cup {NoName}]
    /\ addr \in [Slots -> Clients \cup {Server}]
    /\ age \in [Slots -> 0 .. TIMEOUT + 1]
    /\ client_count \in 0 .. MAX_CLIENTS
    /\ pc \in {"recv", "refresh", "command", "send"}
    /\ client_id \in Slots \cup {None} /\ target_id \in Slots \cup {None}
    /\ buffer \in ToServer \cup {NoDatagram}
    /\ slept \in 0 .. PERIOD
    /\ main \in [Clients -> {"start", "registering", "chatting", "quit", "joining", "exited"}]
    /\ receiver \in [Clients -> {"none", "recv", "check", "ended"}]
    /\ running \in [Clients -> BOOLEAN]
    /\ lines \in 0 .. MaxLines
    /\ net \subseteq ToServer \cup ToClient
    /\ duplicates \in 0 .. MaxDuplicates

\* client_count is the number of active slots, although both threads of the
\* server take clients off and one may find that the other already did.
CountMatches == client_count = Cardinality({s \in Slots : active[s]})

\* The stored form of a name that is longer than the table keeps.
CutForm(m) == \E n \in Names : n # m /\ Stored[n] = m

\* Two active clients have one name only if it is what is left of a longer one: such
\* a name is looked up in full (server.c:81) but stored cut (90-91), so it is
\* given out again and again.  All others have one holder, and a private message
\* to them has one addressee.
UniqueNames ==
    \A s, t \in Slots :
        active[s] /\ active[t] /\ name[s] = name[t] => s = t \/ CutForm(name[s])

\* A private message goes only to the address registered, at the moment it is
\* sent, under the name the sender wrote, although the slot was looked up before
\* the mutex was taken.
PrivateReachesNamed ==
    [][\A d \in net' \ net : d.body = "PRIVATE" =>
           \E s \in Slots : active[s] /\ addr[s] = d.dst /\ name[s] = d.name]_vars

\* A client is taken off the table for two reasons only: its own QUIT is being
\* handled, or the ping thread has seen nothing of it for more than TIMEOUT.
RemovedForCause ==
    [][\A s \in Slots : active[s] /\ ~active'[s] =>
           \/ age[s] > TIMEOUT
           \/ pc = "command" /\ buffer.body = "QUIT" /\ buffer.src = addr[s]]_vars

\* Whatever is lost, late or duplicated, the table does not keep the dead: in
\* the end no slot belongs to a process that has ended.
NoGhosts == <>[](\A s \in Slots : active[s] => main[addr[s]] # "exited")

\* client.c says that QUIT ends the program.  It need not: if the server's
\* goodbye is received before running is cleared, recvfrom is called once more
\* and nothing is ever sent to this client again.
QuitEnds == \A c \in Clients : main[c] = "quit" ~> main[c] = "exited"

=============================================================================
