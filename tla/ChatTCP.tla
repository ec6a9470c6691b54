------------------------------ MODULE ChatTCP ------------------------------
(***************************************************************************)
(* The server of the TCP chat, cw11/assignment/server.c: the main thread   *)
(* accepts and registers, a handler thread per client serves it, and the   *)
(* ping thread removes the silent.  They share clients[] and clients_mutex *)
(* but hold on to slot numbers while the mutex is free, and a freed slot   *)
(* goes to the next client.                                                *)
(*                                                                         *)
(* The clients are programs that send anything at any time and close when  *)
(* they like.  A connection is named after its client; the descriptor that *)
(* stands for it is a small number and is used again after close.          *)
(***************************************************************************)
EXTENDS Naturals, FiniteSets, FiniteSetsExt

CONSTANTS
    Conns, NoConn,
    Names, NoName,
    MAX_CLIENTS,
    TIMEOUT,        \* the 60 seconds of ping_clients, in ticks
    PERIOD,         \* the 30 seconds it sleeps, in ticks
    MaxMessages     \* bound: messages the clients send

ASSUME ServerAssumption ==
    /\ IsFiniteSet(Conns) /\ NoConn \notin Conns
    /\ NoName \notin Names
    /\ {MAX_CLIENTS, TIMEOUT, PERIOD} \subseteq Nat \ {0}
    /\ MaxMessages \in Nat

VARIABLES
    active, name, socket, age,      \* clients[]: age is now - last_ping, 0 if not active
    client_count,
    file,                           \* the server's descriptor table
    mpc, mconn, mfd, mname, mslot,  \* the main thread and its locals
    accepted,                       \* connections accepted so far
    pc, client_id, reads, buffer, target_id,    \* the handler of each connection
    slept,                          \* how long the ping thread has been asleep
    swept,                          \* history: it has removed a client
    inbox, messages                 \* what a client has sent; messages sent so far

table == <<active, name, socket, age, client_count>>
mainThread == <<mpc, mconn, mfd, mname, mslot, accepted>>
handlers == <<pc, client_id, reads, buffer, target_id>>
streams == <<inbox, messages>>
pinging == <<slept, swept>>
vars == <<table, file, mainThread, handlers, pinging, streams>>

Slots == 0 .. MAX_CLIENTS - 1
None == MAX_CLIENTS                 \* the -1 of the lookups
Fds == 0 .. MAX_CLIENTS             \* a registered client each, and one being registered
NoFd == MAX_CLIENTS + 1

\* "ANY" stands for the messages that are answered and change nothing: LIST,
\* 2ALL, PING and what the server does not know.
Messages == [body : {"ANY", "STOP"}, name : {NoName}]
                \cup [body : {"2ONE"}, name : Names]
NoMessage == [body |-> "none", name |-> NoName]
Eof == [body |-> "eof", name |-> NoName]

-----------------------------------------------------------------------------
Init ==
    /\ active = [s \in Slots |-> FALSE]
    /\ name = [s \in Slots |-> NoName]
    /\ socket = [s \in Slots |-> NoFd]
    /\ age = [s \in Slots |-> 0]
    /\ client_count = 0
    /\ file = [fd \in Fds |-> NoConn]
    /\ mpc = "accept" /\ mconn = NoConn /\ mfd = NoFd /\ mname = NoName /\ mslot = None
    /\ accepted = {}
    /\ pc = [c \in Conns |-> "none"]
    /\ client_id = [c \in Conns |-> None]
    /\ reads = [c \in Conns |-> NoConn]
    /\ buffer = [c \in Conns |-> NoMessage]
    /\ target_id = [c \in Conns |-> None]
    /\ slept = 0 /\ swept = FALSE
    /\ inbox = [c \in Conns |-> NoMessage] /\ messages = 0

FirstOf(S, none) == IF S = {} THEN none ELSE Min(S)

\* Mutant: every name counts as free.
find_client_by_name_Never(n) == None

find_client_by_name(n) == FirstOf({s \in Slots : active[s] /\ name[s] = n}, None)

\* Mutant: the slot is not required to be inactive.
FreeSlot_First == 0

FreeSlot == FirstOf({s \in Slots : ~active[s]}, None)
FreeFd == FirstOf({fd \in Fds : file[fd] = NoConn}, NoFd)

\* Mutant: the descriptor stays open.
CloseFd_Not(fd) == file' = file

CloseFd(fd) == file' = [file EXCEPT ![fd] = NoConn]

(***************************************************************************)
(* main.  The name is looked up without the mutex and the slot is taken    *)
(* with it.                                                                *)
(***************************************************************************)
BackToAccept ==
    /\ mpc' = "accept"
    /\ mconn' = NoConn /\ mfd' = NoFd /\ mname' = NoName /\ mslot' = None
    /\ UNCHANGED accepted

\* accept, and the recv of the name.
Accept(c) ==
    /\ mpc = "accept" /\ c \notin accepted
    /\ accepted' = accepted \cup {c}
    /\ mconn' = c /\ mfd' = FreeFd
    /\ file' = [file EXCEPT ![FreeFd] = c]
    /\ mname' \in Names
    /\ mpc' = "lookup"
    /\ UNCHANGED <<table, mslot, handlers, pinging, streams>>

LookupName ==
    /\ mpc = "lookup"
    /\ IF find_client_by_name(mname) # None
       THEN CloseFd(mfd) /\ BackToAccept
       ELSE mpc' = "register" /\ UNCHANGED <<file, mconn, mfd, mname, mslot, accepted>>
    /\ UNCHANGED <<table, handlers, pinging, streams>>

TakeSlot ==
    /\ mpc = "register"
    /\ IF FreeSlot = None
       THEN CloseFd(mfd) /\ BackToAccept /\ UNCHANGED table
       ELSE /\ mslot' = FreeSlot
            /\ socket' = [socket EXCEPT ![FreeSlot] = mfd]
            /\ name' = [name EXCEPT ![FreeSlot] = mname]
            /\ active' = [active EXCEPT ![FreeSlot] = TRUE]
            /\ age' = [age EXCEPT ![FreeSlot] = 0]
            /\ client_count' = client_count + 1
            /\ mpc' = "start"
            /\ UNCHANGED <<file, mconn, mfd, mname, accepted>>
    /\ UNCHANGED <<handlers, pinging, streams>>

\* The welcome, and pthread_create: the new thread is told its slot number only.
StartHandler ==
    /\ mpc = "start"
    /\ pc' = [pc EXCEPT ![mconn] = "check"]
    /\ client_id' = [client_id EXCEPT ![mconn] = mslot]
    /\ BackToAccept
    /\ UNCHANGED <<table, file, reads, buffer, target_id, pinging, streams>>

MainThread == (\E c \in Conns : Accept(c)) \/ LookupName \/ TakeSlot \/ StartHandler

(***************************************************************************)
(* handle_client: the thread created for c, at slot client_id[c].          *)
(***************************************************************************)
Goto(c, from, to) == pc[c] = from /\ pc' = [pc EXCEPT ![c] = to]

\* while (clients[client_id].active)
CheckActive(c) ==
    /\ Goto(c, "check", IF active[client_id[c]] THEN "recv" ELSE "remove")
    /\ UNCHANGED <<table, file, mainThread, client_id, reads, buffer, target_id, pinging, streams>>

\* recv is called on the descriptor the slot holds now, which may be closed.
CallRecv(c) ==
    /\ LET fd == socket[client_id[c]] IN
           /\ Goto(c, "recv", IF file[fd] = NoConn THEN "remove" ELSE "blocked")
           /\ reads' = [reads EXCEPT ![c] = file[fd]]
    /\ UNCHANGED <<table, file, mainThread, client_id, buffer, target_id, pinging, streams>>

\* A message comes, or the client has closed.  Closing the descriptor does not
\* wake a thread that already waits for the connection.
RecvReturns(c) ==
    /\ pc[c] = "blocked" /\ inbox[reads[c]] # NoMessage
    /\ IF inbox[reads[c]] = Eof
       THEN Goto(c, "blocked", "remove") /\ UNCHANGED <<buffer, inbox>>
       ELSE /\ Goto(c, "blocked", "refresh")
            /\ buffer' = [buffer EXCEPT ![c] = inbox[reads[c]]]
            /\ inbox' = [inbox EXCEPT ![reads[c]] = NoMessage]
    /\ UNCHANGED <<table, file, mainThread, client_id, reads, target_id, pinging, messages>>

\* clients[client_id].last_ping = time(NULL), without the mutex.
Refresh(c) ==
    /\ Goto(c, "refresh", "command")
    /\ age' = [age EXCEPT ![client_id[c]] = 0]
    /\ UNCHANGED <<active, name, socket, client_count, file, mainThread, client_id, reads,
                   buffer, target_id, pinging, streams>>

Handled(c, to) ==
    /\ Goto(c, "command", to)
    /\ buffer' = [buffer EXCEPT ![c] = NoMessage]
    /\ UNCHANGED <<table, file, mainThread, client_id, reads, target_id, pinging, streams>>

\* STOP leaves the loop.
Answer(c) == buffer[c].body = "ANY" /\ Handled(c, "check")
Stop(c) == buffer[c].body = "STOP" /\ Handled(c, "remove")

\* 2ONE: find_client_by_name, without the mutex.
FindTarget(c) ==
    /\ buffer[c].body = "2ONE"
    /\ LET target == find_client_by_name(buffer[c].name) IN
           IF target = None
           THEN Handled(c, "check")
           ELSE /\ Goto(c, "command", "send")
                /\ target_id' = [target_id EXCEPT ![c] = target]
                /\ UNCHANGED <<table, file, mainThread, client_id, reads, buffer, pinging, streams>>

\* 2ONE: send_to_client, if the slot is still active, and the confirmation.
ToOne(c) ==
    /\ Goto(c, "send", "check")
    /\ buffer' = [buffer EXCEPT ![c] = NoMessage]
    /\ target_id' = [target_id EXCEPT ![c] = None]
    /\ UNCHANGED <<table, file, mainThread, client_id, reads, pinging, streams>>

\* Mutant: the slot is not checked.
RemoveGuard_None(s) == TRUE

\* The check of remove_client.
RemoveGuard(s) == active[s]

\* remove_client, whoever the slot belongs to by now.
Remove(c) ==
    /\ Goto(c, "remove", "ended")
    /\ LET s == client_id[c] IN
           IF RemoveGuard(s)
           THEN /\ CloseFd(socket[s])
                /\ active' = [active EXCEPT ![s] = FALSE]
                /\ name' = [name EXCEPT ![s] = NoName]
                /\ age' = [age EXCEPT ![s] = 0]
                /\ client_count' = client_count - 1
                /\ UNCHANGED socket
           ELSE UNCHANGED <<table, file>>
    /\ UNCHANGED <<mainThread, client_id, reads, buffer, target_id, pinging, streams>>

Handler(c) ==
    \/ CheckActive(c) \/ CallRecv(c) \/ RecvReturns(c) \/ Refresh(c)
    \/ Answer(c) \/ Stop(c) \/ FindTarget(c) \/ ToOne(c) \/ Remove(c)

(***************************************************************************)
(* ping_clients, one round with the mutex held.                            *)
(***************************************************************************)
Silent(s) == active[s] /\ age[s] > TIMEOUT

Sweep ==
    /\ slept >= PERIOD
    /\ slept' = 0
    /\ swept' = (swept \/ \E s \in Slots : Silent(s))
    /\ active' = [s \in Slots |-> active[s] /\ ~Silent(s)]
    /\ age' = [s \in Slots |-> IF Silent(s) THEN 0 ELSE age[s]]
    /\ file' = [fd \in Fds |->
           IF \E s \in Slots : Silent(s) /\ socket[s] = fd THEN NoConn ELSE file[fd]]
    /\ client_count' = client_count - Cardinality({s \in Slots : Silent(s)})
    /\ UNCHANGED <<name, socket, mainThread, handlers, streams>>

\* Time passes; an age beyond TIMEOUT is as good as any other beyond it.
Tick ==
    /\ slept' = IF slept < PERIOD THEN slept + 1 ELSE PERIOD
    /\ age' = [s \in Slots |-> IF active[s] /\ age[s] <= TIMEOUT THEN age[s] + 1 ELSE age[s]]
    /\ UNCHANGED <<active, name, socket, client_count, file, mainThread, handlers, swept, streams>>

(***************************************************************************)
(* The clients.  Messages wait one at a time.                              *)
(***************************************************************************)
ClientSends(c) ==
    /\ c \in accepted /\ inbox[c] = NoMessage /\ messages < MaxMessages
    /\ \E m \in Messages : inbox' = [inbox EXCEPT ![c] = m]
    /\ messages' = messages + 1
    /\ UNCHANGED <<table, file, mainThread, handlers, pinging>>

ClientCloses(c) ==
    /\ c \in accepted /\ inbox[c] = NoMessage
    /\ inbox' = [inbox EXCEPT ![c] = Eof]
    /\ UNCHANGED <<table, file, mainThread, handlers, pinging, messages>>

-----------------------------------------------------------------------------
Next ==
    \/ MainThread \/ Sweep \/ Tick
    \/ \E c \in Conns : Handler(c) \/ ClientSends(c) \/ ClientCloses(c)

Spec == Init /\ [][Next]_vars

-----------------------------------------------------------------------------
(***************************************************************************)
(* Properties.                                                             *)
(***************************************************************************)
\* The count stays within the table, slot numbers are slots or -1, descriptors those
\* of the table, and every thread is at a place of its own function.
TypeOK ==
    /\ active \in [Slots -> BOOLEAN]
    /\ name \in [Slots -> Names \cup {NoName}]
    /\ socket \in [Slots -> Fds \cup {NoFd}]
    /\ age \in [Slots -> 0 .. TIMEOUT + 1]
    /\ client_count \in 0 .. MAX_CLIENTS
    /\ file \in [Fds -> Conns \cup {NoConn}]
    /\ mpc \in {"accept", "lookup", "register", "start"}
    /\ mconn \in Conns \cup {NoConn} /\ mfd \in Fds \cup {NoFd}
    /\ mname \in Names \cup {NoName} /\ mslot \in Slots \cup {None}
    /\ accepted \subseteq Conns
    /\ pc \in [Conns -> {"none", "check", "recv", "blocked", "refresh", "command", "send",
                         "remove", "ended"}]
    /\ client_id \in [Conns -> Slots \cup {None}]
    /\ reads \in [Conns -> Conns \cup {NoConn}]
    /\ buffer \in [Conns -> Messages \cup {NoMessage}]
    /\ target_id \in [Conns -> Slots \cup {None}]
    /\ slept \in 0 .. PERIOD /\ swept \in BOOLEAN
    /\ inbox \in [Conns -> Messages \cup {NoMessage, Eof}]
    /\ messages \in 0 .. MaxMessages

\* client_count is the number of active slots, although any handler and the
\* ping thread may each try to take the same client off.
CountMatches == client_count = Cardinality({s \in Slots : active[s]})

\* No two active clients have the same name: the lookup of main is made without
\* the mutex, but only main adds names.
UniqueNames ==
    \A s, t \in Slots : active[s] /\ active[t] /\ name[s] = name[t] => s = t

\* The table of clients is in order at every step of every thread: its types, the
\* count and the names.
TableOK == TypeOK /\ CountMatches /\ UniqueNames

\* The server's open descriptors are those of the active slots, one each, and
\* the one main is registering: none leaks, none is closed under an active
\* client, whichever thread removes whichever slot.
DescriptorsAccounted ==
    /\ {fd \in Fds : file[fd] # NoConn} =
           {socket[s] : s \in {s \in Slots : active[s]}}
               \cup (IF mpc \in {"lookup", "register"} THEN {mfd} ELSE {})
    /\ \A s, t \in Slots : active[s] /\ active[t] /\ socket[s] = socket[t] => s = t

\* As long as no client has been removed for silence, every handler works for the
\* client it was created for: its slot is active and holds that connection until
\* the handler itself removes it.
HandlerOwnsSlot ==
    ~swept => \A c \in Conns : pc[c] \notin {"none", "ended"} =>
        /\ active[client_id[c]] /\ file[socket[client_id[c]]] = c
        /\ \A d \in Conns \ {c} : pc[d] \notin {"none", "ended"} => client_id[c] # client_id[d]

\* The help text says that 2ONE sends a private message to the client named.
\* The code need not: between the lookup and the send the slot can pass to
\* another client, who then gets the message.
PrivateReachesNamed ==
    \A c \in Conns :
        pc[c] = "send" /\ active[target_id[c]] => name[target_id[c]] = buffer[c].name

=============================================================================
