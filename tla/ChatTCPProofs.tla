--------------------------- MODULE ChatTCPProofs ---------------------------
(***************************************************************************)
(* Proofs about the server of the TCP chat, for every number of clients,   *)
(* slots and messages and every bound on time.                             *)
(***************************************************************************)
EXTENDS ChatTCP, LeastElement

-----------------------------------------------------------------------------
(* Slots, descriptors and the lookups. *)

\* There is one descriptor more than there are slots.
LEMMA SlotsAndFds ==
    /\ IsFiniteSet(Slots) /\ Cardinality(Slots) = MAX_CLIENTS
    /\ IsFiniteSet(Fds) /\ Cardinality(Fds) = MAX_CLIENTS + 1
    /\ Slots \subseteq Nat /\ None \notin Slots
    /\ Fds \subseteq Nat /\ NoFd \notin Fds
<1>1. MAX_CLIENTS \in Nat \ {0}
  BY ServerAssumption
<1>2. QED
  BY <1>1, FS_Interval DEF Slots, None, Fds, NoFd

\* A set of slots is finite and no larger than the table.
LEMMA CountSlots ==
    ASSUME NEW S, S \subseteq Slots
    PROVE  IsFiniteSet(S) /\ Cardinality(S) \in 0 .. MAX_CLIENTS
<1>1. IsFiniteSet(S) /\ Cardinality(S) <= MAX_CLIENTS
  BY SlotsAndFds, FS_Subset
<1>2. Cardinality(S) \in Nat /\ MAX_CLIENTS \in Nat
  BY <1>1, FS_CardinalityType, ServerAssumption
<1>3. QED
  BY <1>1, <1>2

\* FirstOf returns an element of the set, or the other value if there is none.
LEMMA FirstOfFits ==
    ASSUME NEW S, IsFiniteSet(S), S \subseteq Nat, NEW none, none \notin S
    PROVE  /\ FirstOf(S, none) = none \/ FirstOf(S, none) \in S
           /\ FirstOf(S, none) = none => S = {}
BY LeastInSet DEF FirstOf

\* find_client_by_name returns an active slot with the name, or -1 if there is none.
LEMMA LookupFits ==
    ASSUME NEW n
    PROVE  LET s == find_client_by_name(n)
           IN  /\ s = None \/ (s \in Slots /\ active[s] /\ name[s] = n)
               /\ s = None => \A t \in Slots : ~(active[t] /\ name[t] = n)
<1> DEFINE S == {s \in Slots : active[s] /\ name[s] = n}
<1>1. S \subseteq Slots /\ IsFiniteSet(S) /\ S \subseteq Nat /\ None \notin S
  BY SlotsAndFds, FS_Subset
<1>2. find_client_by_name(n) = FirstOf(S, None)
  BY DEF find_client_by_name
<1> HIDE DEF S
<1>3. /\ find_client_by_name(n) = None \/ find_client_by_name(n) \in S
      /\ find_client_by_name(n) = None => S = {}
  BY <1>1, <1>2, FirstOfFits
<1>4. QED
  BY <1>3 DEF S

\* The slot main takes is not active.
LEMMA FreeSlotFits == FreeSlot = None \/ (FreeSlot \in Slots /\ ~active[FreeSlot])
<1> DEFINE S == {s \in Slots : ~active[s]}
<1>1. S \subseteq Slots /\ IsFiniteSet(S) /\ S \subseteq Nat /\ None \notin S
  BY SlotsAndFds, FS_Subset
<1>2. FreeSlot = FirstOf(S, None)
  BY DEF FreeSlot
<1> HIDE DEF S
<1>3. FreeSlot = None \/ FreeSlot \in S
  BY <1>1, <1>2, FirstOfFits
<1>4. QED
  BY <1>3 DEF S

-----------------------------------------------------------------------------
(***************************************************************************)
(* The invariant.  What main carries from one step to the next stays true  *)
(* although the mutex is free: nobody else uses its descriptor or adds a   *)
(* name, and the handler of its connection does not run yet.  The slot of  *)
(* a handler may be anybody's, but it has held a descriptor.  Only while   *)
(* the ping thread has removed nobody is it the handler's own.             *)
(***************************************************************************)
ActiveSlots == {s \in Slots : active[s]}
Registering == mpc \in {"lookup", "register"}
Live(c) == pc[c] \notin {"none", "ended"}

MainOK ==
    /\ mpc # "accept" => mconn \in accepted /\ pc[mconn] = "none"
    /\ Registering => /\ mname \in Names /\ mfd \in Fds /\ file[mfd] = mconn
                      /\ \A s \in Slots : active[s] => socket[s] # mfd
    /\ mpc = "register" => \A s \in Slots : active[s] => name[s] # mname
    /\ mpc = "start" => mslot \in Slots /\ socket[mslot] \in Fds

HandlersOK ==
    \A c \in Conns :
        /\ pc[c] # "none" => /\ c \in accepted
                             /\ client_id[c] \in Slots /\ socket[client_id[c]] \in Fds
        /\ pc[c] = "blocked" => reads[c] \in Conns

FdsOK ==
    /\ \A s \in Slots : active[s] => socket[s] \in Fds /\ file[socket[s]] # NoConn
    /\ \A fd \in Fds : file[fd] # NoConn =>
           (\E s \in Slots : active[s] /\ socket[s] = fd) \/ (Registering /\ fd = mfd)
    /\ \A s, t \in Slots : active[s] /\ active[t] /\ socket[s] = socket[t] => s = t

Owned ==
    ~swept =>
        /\ \A c \in Conns : Live(c) => /\ active[client_id[c]]
                                       /\ file[socket[client_id[c]]] = c
        /\ mpc = "start" => active[mslot] /\ file[socket[mslot]] = mconn

ServerInv == TableOK /\ MainOK /\ HandlersOK /\ FdsOK /\ Owned

LEMMA InitServer == Init => ServerInv
<1> SUFFICES ASSUME Init PROVE ServerInv
  OBVIOUS
<1>1. MAX_CLIENTS \in Nat /\ TIMEOUT \in Nat /\ PERIOD \in Nat /\ MaxMessages \in Nat
  BY ServerAssumption
<1>2. TypeOK
  <2>1. /\ 0 \in 0 .. TIMEOUT + 1 /\ 0 \in 0 .. MAX_CLIENTS
        /\ 0 \in 0 .. PERIOD /\ 0 \in 0 .. MaxMessages
    BY <1>1
  <2>2. QED
    BY <2>1 DEF Init, TypeOK
<1>3. CountMatches
  <2>1. {s \in Slots : active[s]} = {}
    BY DEF Init
  <2>2. QED
    BY <2>1, FS_EmptySet DEF Init, CountMatches
<1>4. UniqueNames /\ MainOK /\ HandlersOK /\ FdsOK /\ Owned
  BY DEF Init, UniqueNames, MainOK, Registering, HandlersOK, FdsOK, Owned, Live
<1>5. QED
  BY <1>2, <1>3, <1>4 DEF ServerInv, TableOK

-----------------------------------------------------------------------------
(* The main thread. *)

\* accept finds a free descriptor: the active slots hold at most MAX_CLIENTS.
LEMMA FreeFdFits ==
    ASSUME ServerInv, ~Registering
    PROVE  FreeFd \in Fds /\ file[FreeFd] = NoConn
<1> DEFINE S == {fd \in Fds : file[fd] = NoConn}
<1>1. S \subseteq Fds /\ IsFiniteSet(S) /\ S \subseteq Nat /\ NoFd \notin S
  BY SlotsAndFds, FS_Subset
<1>2. FreeFd = FirstOf(S, NoFd)
  BY DEF FreeFd
<1>3. S # {}
  <2>1. SUFFICES ASSUME \A fd \in Fds : file[fd] # NoConn PROVE FALSE
    OBVIOUS
  <2>2. \A fd \in Fds : \E s \in ActiveSlots : socket[s] = fd
    BY <2>1 DEF ServerInv, FdsOK, ActiveSlots
  <2> DEFINE f == [s \in ActiveSlots |-> socket[s]]
  <2>3. f \in [ActiveSlots -> Fds]
    BY DEF ServerInv, FdsOK, ActiveSlots
  <2>4. f \in Surjection(ActiveSlots, Fds)
    BY <2>2, <2>3 DEF Surjection
  <2>5. IsFiniteSet(ActiveSlots) /\ Cardinality(ActiveSlots) \in 0 .. MAX_CLIENTS
    BY CountSlots DEF ActiveSlots
  <2> HIDE DEF f
  <2>6. Cardinality(Fds) <= Cardinality(ActiveSlots)
    BY <2>4, <2>5, FS_Surjection
  <2>7. MAX_CLIENTS \in Nat
    BY ServerAssumption
  <2>8. QED
    BY <2>5, <2>6, <2>7, SlotsAndFds
<1> HIDE DEF S
<1>4. FreeFd \in S
  BY <1>1, <1>2, <1>3, FirstOfFits
<1>5. QED
  BY <1>4 DEF S

\* A new connection has a descriptor of its own and no handler.
LEMMA AcceptServer ==
    ASSUME ServerInv, NEW c \in Conns, Accept(c)
    PROVE  ServerInv'
<1> DEFINE f == FreeFd
<1>1. f \in Fds /\ file[f] = NoConn
  BY FreeFdFits DEF Accept, Registering
<1>2. /\ mpc = "accept" /\ mpc' = "lookup" /\ mconn' = c /\ mfd' = f
      /\ c \notin accepted /\ accepted' = accepted \cup {c}
      /\ file' = [file EXCEPT ![f] = c] /\ mname' \in Names
      /\ UNCHANGED <<active, name, socket, age, client_count, mslot, pc, client_id,
                     reads, buffer, target_id, slept, swept, inbox, messages>>
  BY DEF Accept, table, handlers, pinging, streams
<1> HIDE DEF f
<1>3. TypeOK'
  BY <1>1, <1>2 DEF ServerInv, TableOK, TypeOK
<1>4. CountMatches' /\ UniqueNames'
  BY <1>2 DEF ServerInv, TableOK, CountMatches, UniqueNames
<1>5. c # NoConn /\ file \in [Fds -> Conns \cup {NoConn}]
  BY ServerAssumption DEF ServerInv, TableOK, TypeOK
<1>6. MainOK'
  BY <1>1, <1>2, <1>5 DEF ServerInv, HandlersOK, FdsOK, MainOK, Registering
<1>7. HandlersOK'
  BY <1>2 DEF ServerInv, HandlersOK
<1>8. FdsOK'
  BY <1>1, <1>2, <1>5 DEF ServerInv, FdsOK, Registering
<1>9. Owned'
  BY <1>1, <1>2, <1>5, ServerAssumption DEF ServerInv, Owned, Live, HandlersOK
<1>10. QED
  BY <1>3, <1>4, <1>6, <1>7, <1>8, <1>9 DEF ServerInv, TableOK

\* A connection that is turned away gives its descriptor back.
LEMMA TurnedAwayServer ==
    ASSUME ServerInv, Registering, CloseFd(mfd), BackToAccept,
           UNCHANGED <<table, handlers, pinging, streams>>
    PROVE  ServerInv'
<1>1. /\ mpc' = "accept" /\ mconn' = NoConn /\ mfd' = NoFd /\ mname' = NoName
      /\ mslot' = None /\ accepted' = accepted
      /\ file' = [file EXCEPT ![mfd] = NoConn]
      /\ UNCHANGED <<active, name, socket, age, client_count, pc, client_id,
                     reads, buffer, target_id, slept, swept, inbox, messages>>
  BY DEF CloseFd, BackToAccept, table, handlers, pinging, streams
<1>2. mfd \in Fds /\ \A s \in Slots : active[s] => socket[s] # mfd
  BY DEF ServerInv, MainOK
<1>3. TypeOK'
  BY <1>1, <1>2 DEF ServerInv, TableOK, TypeOK
<1>4. CountMatches' /\ UniqueNames'
  BY <1>1 DEF ServerInv, TableOK, CountMatches, UniqueNames
<1>5. file \in [Fds -> Conns \cup {NoConn}]
  BY DEF ServerInv, TableOK, TypeOK
<1>6. MainOK' /\ HandlersOK'
  BY <1>1 DEF ServerInv, HandlersOK, MainOK, Registering
<1>7. FdsOK'
  BY <1>1, <1>2, <1>5 DEF ServerInv, FdsOK, Registering
<1>8. Owned'
  BY <1>1, <1>2, <1>5 DEF ServerInv, Owned, Live, HandlersOK, FdsOK
<1>9. QED
  BY <1>3, <1>4, <1>6, <1>7, <1>8 DEF ServerInv, TableOK

LEMMA LookupServer == ASSUME ServerInv, LookupName PROVE ServerInv'
<1>1. CASE find_client_by_name(mname) # None
  BY <1>1, TurnedAwayServer DEF LookupName, Registering
<1>2. CASE find_client_by_name(mname) = None
  <2>1. /\ mpc = "lookup" /\ mpc' = "register"
        /\ UNCHANGED <<active, name, socket, age, client_count, file, mconn, mfd, mname,
                       mslot, accepted, pc, client_id, reads, buffer, target_id, slept,
                       swept, inbox, messages>>
    BY <1>2 DEF LookupName, table, handlers, pinging, streams
  <2>2. \A s \in Slots : active[s] => name[s] # mname
    BY <1>2, LookupFits
  <2>3. TableOK'
    BY <2>1 DEF ServerInv, TableOK, TypeOK, CountMatches, UniqueNames
  <2>4. MainOK'
    BY <2>1, <2>2 DEF ServerInv, MainOK, Registering
  <2>5. HandlersOK' /\ FdsOK' /\ Owned'
    BY <2>1 DEF ServerInv, HandlersOK, FdsOK, Owned, Live, Registering
  <2>6. QED
    BY <2>3, <2>4, <2>5 DEF ServerInv
<1>3. QED
  BY <1>1, <1>2

\* The slot taken was free, and the name and the descriptor are nobody else's.
LEMMA TakeSlotServer == ASSUME ServerInv, TakeSlot PROVE ServerInv'
<1>1. CASE FreeSlot = None
  BY <1>1, TurnedAwayServer DEF TakeSlot, Registering
<1>2. CASE FreeSlot # None
  <2> DEFINE f == FreeSlot
  <2>1. f \in Slots /\ ~active[f]
    BY <1>2, FreeSlotFits
  <2>2. /\ mpc = "register" /\ mpc' = "start" /\ mslot' = f
        /\ socket' = [socket EXCEPT ![f] = mfd]
        /\ name' = [name EXCEPT ![f] = mname]
        /\ active' = [active EXCEPT ![f] = TRUE]
        /\ age' = [age EXCEPT ![f] = 0]
        /\ client_count' = client_count + 1
        /\ UNCHANGED <<file, mconn, mfd, mname, accepted, pc, client_id,
                       reads, buffer, target_id, slept, swept, inbox, messages>>
    BY <1>2 DEF TakeSlot, handlers, pinging, streams
  <2> HIDE DEF f
  <2>3. /\ active \in [Slots -> BOOLEAN] /\ socket \in [Slots -> Fds \cup {NoFd}]
        /\ name \in [Slots -> Names \cup {NoName}]
        /\ age \in [Slots -> 0 .. TIMEOUT + 1]
        /\ mfd \in Fds /\ mname \in Names /\ file[mfd] = mconn /\ mconn \in accepted
        /\ pc[mconn] = "none"
        /\ \A s \in Slots : active[s] => socket[s] # mfd /\ name[s] # mname
    BY <2>2 DEF ServerInv, TableOK, TypeOK, MainOK, Registering
  <2>4. CountMatches'
    <3>1. ActiveSlots' = ActiveSlots \cup {f} /\ f \notin ActiveSlots
      BY <2>1, <2>2, <2>3 DEF ActiveSlots
    <3>2. Cardinality(ActiveSlots') = Cardinality(ActiveSlots) + 1
      BY <3>1, SlotsAndFds, FS_Subset, FS_AddElement DEF ActiveSlots
    <3>3. QED
      BY <2>2, <3>2 DEF ServerInv, TableOK, CountMatches, ActiveSlots
  <2>5. client_count' \in 0 .. MAX_CLIENTS
    <3>1. ActiveSlots' \subseteq Slots
      BY DEF ActiveSlots
    <3>2. QED
      BY <2>4, <3>1, CountSlots DEF CountMatches, ActiveSlots
  <2>6. TypeOK'
    <3>1. 0 \in 0 .. TIMEOUT + 1
      BY ServerAssumption
    <3>2. QED
      BY <2>1, <2>2, <2>3, <2>5, <3>1 DEF ServerInv, TableOK, TypeOK
  <2>7. UniqueNames'
    BY <2>1, <2>2, <2>3 DEF ServerInv, TableOK, UniqueNames
  <2>8. MainOK'
    BY <2>1, <2>2, <2>3 DEF MainOK, Registering
  <2>9. HandlersOK'
    BY <2>1, <2>2, <2>3 DEF ServerInv, HandlersOK
  <2>10. FdsOK'
    <3>1. mconn # NoConn
      BY <2>3, ServerAssumption DEF ServerInv, TableOK, TypeOK
    <3>2. QED
      BY <2>1, <2>2, <2>3, <3>1 DEF ServerInv, FdsOK, Registering
  <2>11. Owned'
    BY <2>1, <2>2, <2>3 DEF ServerInv, Owned, Live, HandlersOK
  <2>12. QED
    BY <2>4, <2>6, <2>7, <2>8, <2>9, <2>10, <2>11 DEF ServerInv, TableOK
<1>3. QED
  BY <1>1, <1>2

\* The handler is told the slot main has taken.
LEMMA StartServer == ASSUME ServerInv, StartHandler PROVE ServerInv'
<1>1. /\ mpc = "start" /\ mpc' = "accept" /\ mconn' = NoConn /\ mfd' = NoFd
      /\ mname' = NoName /\ mslot' = None
      /\ pc' = [pc EXCEPT ![mconn] = "check"]
      /\ client_id' = [client_id EXCEPT ![mconn] = mslot]
      /\ UNCHANGED <<active, name, socket, age, client_count, file, accepted,
                     reads, buffer, target_id, slept, swept, inbox, messages>>
  BY DEF StartHandler, BackToAccept, table, pinging, streams
<1>2. /\ mconn \in accepted /\ mconn \in Conns
      /\ mslot \in Slots /\ socket[mslot] \in Fds
  BY <1>1 DEF ServerInv, TableOK, TypeOK, MainOK
<1>3. TypeOK'
  BY <1>1, <1>2 DEF ServerInv, TableOK, TypeOK
<1>4. CountMatches' /\ UniqueNames'
  BY <1>1 DEF ServerInv, TableOK, CountMatches, UniqueNames
<1>5. pc = [c \in Conns |-> pc[c]] /\ client_id \in [Conns -> Slots \cup {None}]
  BY DEF ServerInv, TableOK, TypeOK
<1>6. MainOK' /\ FdsOK'
  BY <1>1 DEF ServerInv, MainOK, FdsOK, Registering
<1>7. HandlersOK'
  BY <1>1, <1>2, <1>5 DEF ServerInv, HandlersOK
<1>8. Owned'
  BY <1>1, <1>2, <1>5 DEF ServerInv, Owned, Live
<1>9. QED
  BY <1>3, <1>4, <1>6, <1>7, <1>8 DEF ServerInv, TableOK

-----------------------------------------------------------------------------
(* The handlers. *)

\* A step of one handler that leaves the table, the descriptors and main alone
\* and goes on with the same slot.
HandlerMoves(c) ==
    /\ \E from, to : from \notin {"none", "ended"} /\ to \notin {"none", "ended"}
                       /\ Goto(c, from, to)
    /\ pc'[c] = "blocked" => reads'[c] \in Conns
    /\ \A d \in Conns \ {c} : reads'[d] = reads[d]
    /\ UNCHANGED <<active, name, socket, client_count, file, mainThread, client_id, swept>>

LEMMA HandlerMovesServer ==
    ASSUME ServerInv, NEW c \in Conns, HandlerMoves(c), TypeOK'
    PROVE  ServerInv'
<1>1. PICK from, to : /\ from \notin {"none", "ended"} /\ to \notin {"none", "ended"}
                      /\ pc[c] = from /\ pc' = [pc EXCEPT ![c] = to]
  BY DEF HandlerMoves, Goto
<1>2. /\ pc'[c] = "blocked" => reads'[c] \in Conns
      /\ \A d \in Conns \ {c} : reads'[d] = reads[d]
      /\ UNCHANGED <<active, name, socket, client_count, file, mpc, mconn, mfd, mname,
                     mslot, accepted, client_id, swept>>
  BY DEF HandlerMoves, mainThread
<1>3. pc = [d \in Conns |-> pc[d]]
  BY DEF ServerInv, TableOK, TypeOK
<1>4. CountMatches' /\ UniqueNames' /\ FdsOK'
  BY <1>2 DEF ServerInv, TableOK, CountMatches, UniqueNames, FdsOK, Registering
<1>5. MainOK'
  BY <1>1, <1>2, <1>3 DEF ServerInv, MainOK, Registering
<1>6. HandlersOK'
  BY <1>1, <1>2, <1>3 DEF ServerInv, HandlersOK
<1>7. Owned'
  BY <1>1, <1>2, <1>3 DEF ServerInv, Owned, Live
<1>8. QED
  BY <1>4, <1>5, <1>6, <1>7 DEF ServerInv, TableOK

LEMMA CheckActiveServer ==
    ASSUME ServerInv, NEW c \in Conns, CheckActive(c)
    PROVE  ServerInv'
<1>1. HandlerMoves(c)
  BY DEF CheckActive, HandlerMoves, Goto, ServerInv, TableOK, TypeOK, table, pinging
<1>2. TypeOK'
  BY DEF CheckActive, Goto, ServerInv, TableOK, TypeOK, table, mainThread, pinging, streams
<1>3. QED
  BY <1>1, <1>2, HandlerMovesServer

\* A handler that waits has found a connection behind the descriptor.
LEMMA CallRecvServer ==
    ASSUME ServerInv, NEW c \in Conns, CallRecv(c)
    PROVE  ServerInv'
<1> DEFINE fd == socket[client_id[c]]
<1>1. fd \in Fds /\ file[fd] \in Conns \cup {NoConn}
  BY DEF CallRecv, Goto, ServerInv, TableOK, TypeOK, HandlersOK
<1>2. /\ Goto(c, "recv", IF file[fd] = NoConn THEN "remove" ELSE "blocked")
      /\ reads' = [reads EXCEPT ![c] = file[fd]]
      /\ UNCHANGED <<table, file, mainThread, client_id, buffer, target_id, pinging, streams>>
  BY DEF CallRecv
<1> HIDE DEF fd
<1>3. HandlerMoves(c)
  BY <1>1, <1>2 DEF HandlerMoves, Goto, ServerInv, TableOK, TypeOK, table, pinging
<1>4. TypeOK'
  BY <1>1, <1>2 DEF Goto, ServerInv, TableOK, TypeOK, table, mainThread, pinging, streams
<1>5. QED
  BY <1>3, <1>4, HandlerMovesServer

LEMMA RecvReturnsServer ==
    ASSUME ServerInv, NEW c \in Conns, RecvReturns(c)
    PROVE  ServerInv'
<1>1. reads[c] \in Conns /\ inbox[reads[c]] \in Messages \cup {NoMessage, Eof}
  BY DEF RecvReturns, ServerInv, TableOK, TypeOK, HandlersOK
<1>2. HandlerMoves(c)
  BY DEF RecvReturns, HandlerMoves, Goto, ServerInv, TableOK, TypeOK, table, pinging
<1>3. TypeOK'
  BY <1>1 DEF RecvReturns, Goto, ServerInv, TableOK, TypeOK, table, mainThread, pinging
<1>4. QED
  BY <1>2, <1>3, HandlerMovesServer

LEMMA RefreshServer ==
    ASSUME ServerInv, NEW c \in Conns, Refresh(c)
    PROVE  ServerInv'
<1>1. HandlerMoves(c)
  BY DEF Refresh, HandlerMoves, Goto, ServerInv, TableOK, TypeOK, pinging
<1>2. TypeOK'
  <2>1. 0 \in 0 .. TIMEOUT + 1
    BY ServerAssumption
  <2>2. QED
    BY <2>1 DEF Refresh, Goto, ServerInv, TableOK, TypeOK, mainThread, pinging, streams
<1>3. QED
  BY <1>1, <1>2, HandlerMovesServer

LEMMA HandledServer ==
    ASSUME ServerInv, NEW c \in Conns, NEW to \in {"check", "remove"}, Handled(c, to)
    PROVE  ServerInv'
<1>1. HandlerMoves(c)
  BY DEF Handled, HandlerMoves, Goto, ServerInv, TableOK, TypeOK, table, pinging
<1>2. TypeOK'
  BY DEF Handled, Goto, ServerInv, TableOK, TypeOK, table, mainThread, pinging, streams
<1>3. QED
  BY <1>1, <1>2, HandlerMovesServer

LEMMA FindTargetServer ==
    ASSUME ServerInv, NEW c \in Conns, FindTarget(c)
    PROVE  ServerInv'
<1> DEFINE target == find_client_by_name(buffer[c].name)
<1>1. CASE target = None
  BY <1>1, HandledServer DEF FindTarget
<1>2. CASE target # None
  <2>1. target \in Slots
    BY <1>2, LookupFits
  <2>2. /\ Goto(c, "command", "send")
        /\ target_id' = [target_id EXCEPT ![c] = target]
        /\ UNCHANGED <<table, file, mainThread, client_id, reads, buffer, pinging, streams>>
    BY <1>2 DEF FindTarget
  <2> HIDE DEF target
  <2>3. HandlerMoves(c)
    BY <2>2 DEF HandlerMoves, Goto, ServerInv, TableOK, TypeOK, table, pinging
  <2>4. TypeOK'
    BY <2>1, <2>2 DEF Goto, ServerInv, TableOK, TypeOK, table, mainThread, pinging, streams
  <2>5. QED
    BY <2>3, <2>4, HandlerMovesServer
<1>3. QED
  BY <1>1, <1>2

LEMMA ToOneServer ==
    ASSUME ServerInv, NEW c \in Conns, ToOne(c)
    PROVE  ServerInv'
<1>1. HandlerMoves(c)
  BY DEF ToOne, HandlerMoves, Goto, ServerInv, TableOK, TypeOK, table, pinging
<1>2. TypeOK'
  BY DEF ToOne, Goto, ServerInv, TableOK, TypeOK, table, mainThread, pinging, streams
<1>3. QED
  BY <1>1, <1>2, HandlerMovesServer

\* remove_client counts a client off once, and closes the one descriptor that was
\* its own.  Without sweeps the slot is the handler's, so it hits nobody else.
LEMMA RemoveServer ==
    ASSUME ServerInv, NEW c \in Conns, Remove(c)
    PROVE  ServerInv'
<1> DEFINE s == client_id[c]
<1>1. /\ pc[c] = "remove" /\ pc' = [pc EXCEPT ![c] = "ended"]
      /\ UNCHANGED <<mpc, mconn, mfd, mname, mslot, accepted, client_id, reads, buffer,
                     target_id, slept, swept, inbox, messages>>
  BY DEF Remove, Goto, mainThread, pinging, streams
<1>2. s \in Slots /\ socket[s] \in Fds /\ c \in accepted
  BY <1>1 DEF ServerInv, HandlersOK
<1>3. pc = [d \in Conns |-> pc[d]]
  BY DEF ServerInv, TableOK, TypeOK
<1>4. CASE ~active[s]
  <2>1. UNCHANGED <<active, name, socket, age, client_count, file>>
    BY <1>4 DEF Remove, RemoveGuard, table
  <2>2. TypeOK'
    BY <1>1, <2>1 DEF ServerInv, TableOK, TypeOK
  <2>3. CountMatches' /\ UniqueNames' /\ FdsOK'
    BY <1>1, <2>1 DEF ServerInv, TableOK, CountMatches, UniqueNames, FdsOK, Registering
  <2>4. MainOK' /\ HandlersOK'
    BY <1>1, <1>3, <2>1 DEF ServerInv, MainOK, Registering, HandlersOK
  <2>5. Owned'
    BY <1>1, <1>3, <2>1 DEF ServerInv, Owned, Live
  <2>6. QED
    BY <2>2, <2>3, <2>4, <2>5 DEF ServerInv, TableOK
<1>5. CASE active[s]
  <2>1. /\ file' = [file EXCEPT ![socket[s]] = NoConn]
        /\ active' = [active EXCEPT ![s] = FALSE]
        /\ name' = [name EXCEPT ![s] = NoName]
        /\ age' = [age EXCEPT ![s] = 0]
        /\ client_count' = client_count - 1
        /\ socket' = socket
    BY <1>5 DEF Remove, RemoveGuard, CloseFd
  <2> HIDE DEF s
  <2>2. /\ active \in [Slots -> BOOLEAN] /\ name \in [Slots -> Names \cup {NoName}]
        /\ file \in [Fds -> Conns \cup {NoConn}]
    BY DEF ServerInv, TableOK, TypeOK
  <2>3. CountMatches'
    <3>1. ActiveSlots' = ActiveSlots \ {s} /\ s \in ActiveSlots
      BY <1>2, <1>5, <2>1, <2>2 DEF ActiveSlots
    <3>2. Cardinality(ActiveSlots') = Cardinality(ActiveSlots) - 1
      BY <3>1, CountSlots, FS_RemoveElement DEF ActiveSlots
    <3>3. QED
      BY <2>1, <3>2 DEF ServerInv, TableOK, CountMatches, ActiveSlots
  <2>4. client_count' \in 0 .. MAX_CLIENTS
    <3>1. ActiveSlots' \subseteq Slots
      BY DEF ActiveSlots
    <3>2. QED
      BY <2>3, <3>1, CountSlots DEF CountMatches, ActiveSlots
  <2>5. TypeOK'
    <3>1. 0 \in 0 .. TIMEOUT + 1
      BY ServerAssumption
    <3>2. QED
      BY <1>1, <1>2, <2>1, <2>4, <3>1 DEF ServerInv, TableOK, TypeOK
  <2>6. UniqueNames'
    BY <1>2, <2>1, <2>2 DEF ServerInv, TableOK, UniqueNames
  <2>7. \A t \in Slots : active'[t] => active[t] /\ t # s /\ socket[t] # socket[s]
    BY <1>2, <1>5, <2>1, <2>2 DEF ServerInv, FdsOK
  <2>8. MainOK'
    <3>1. Registering => mfd # socket[s]
      BY <1>2, <1>5 DEF ServerInv, MainOK
    <3>2. QED
      BY <1>1, <1>2, <1>3, <2>1, <2>2, <2>7, <3>1 DEF ServerInv, MainOK, Registering
  <2>9. HandlersOK'
    BY <1>1, <1>3, <2>1 DEF ServerInv, HandlersOK
  <2>10. FdsOK'
    BY <1>1, <1>2, <2>1, <2>2, <2>7 DEF ServerInv, FdsOK, Registering
  <2>11. Owned'
    <3>1. SUFFICES ASSUME ~swept PROVE Owned'
      BY <1>1 DEF Owned
    <3>2. file[socket[s]] = c
      BY <1>1, <3>1 DEF ServerInv, Owned, Live, s
    <3>3. \A t \in Slots : active[t] /\ file[socket[t]] # c =>
            active'[t] /\ file'[socket'[t]] = file[socket[t]]
      BY <1>2, <2>1, <2>2, <3>2 DEF ServerInv, FdsOK
    <3>4. ASSUME NEW d \in Conns, Live(d)'
          PROVE  active'[client_id'[d]] /\ file'[socket'[client_id'[d]]] = d
      <4>1. d # c /\ Live(d)
        BY <1>1, <1>3, <3>4 DEF Live
      <4>2. active[client_id[d]] /\ file[socket[client_id[d]]] = d /\ client_id[d] \in Slots
        BY <3>1, <4>1 DEF ServerInv, Owned, HandlersOK, Live
      <4>3. QED
        BY <1>1, <3>3, <4>1, <4>2
    <3>5. ASSUME mpc' = "start"
          PROVE  active'[mslot'] /\ file'[socket'[mslot']] = mconn'
      <4>1. active[mslot] /\ file[socket[mslot]] = mconn /\ mslot \in Slots /\ mconn # c
        BY <1>1, <3>1, <3>5 DEF ServerInv, Owned, MainOK
      <4>2. QED
        BY <1>1, <3>3, <4>1
    <3>6. QED
      BY <3>4, <3>5 DEF Owned
  <2>12. QED
    BY <2>3, <2>5, <2>6, <2>8, <2>9, <2>10, <2>11 DEF ServerInv, TableOK
<1>6. QED
  BY <1>4, <1>5

LEMMA HandlerServer ==
    ASSUME ServerInv, NEW c \in Conns, Handler(c)
    PROVE  ServerInv'
<1>1. CASE CheckActive(c)  BY <1>1, CheckActiveServer
<1>2. CASE CallRecv(c)     BY <1>2, CallRecvServer
<1>3. CASE RecvReturns(c)  BY <1>3, RecvReturnsServer
<1>4. CASE Refresh(c)      BY <1>4, RefreshServer
<1>5. CASE Answer(c)       BY <1>5, HandledServer DEF Answer
<1>6. CASE Stop(c)         BY <1>6, HandledServer DEF Stop
<1>7. CASE FindTarget(c)   BY <1>7, FindTargetServer
<1>8. CASE ToOne(c)        BY <1>8, ToOneServer
<1>9. CASE Remove(c)       BY <1>9, RemoveServer
<1>10. QED
  BY <1>1, <1>2, <1>3, <1>4, <1>5, <1>6, <1>7, <1>8, <1>9 DEF Handler

-----------------------------------------------------------------------------
(* The ping thread, time and the clients. *)

\* A round takes off all who are silent, counts them and closes what was theirs.
LEMMA SweepServer == ASSUME ServerInv, Sweep PROVE ServerInv'
<1> DEFINE Gone == {s \in Slots : Silent(s)}
<1>1. /\ slept' = 0
      /\ swept' = (swept \/ \E s \in Slots : Silent(s))
      /\ active' = [s \in Slots |-> active[s] /\ ~Silent(s)]
      /\ age' = [s \in Slots |-> IF Silent(s) THEN 0 ELSE age[s]]
      /\ file' = [fd \in Fds |->
             IF \E s \in Slots : Silent(s) /\ socket[s] = fd THEN NoConn ELSE file[fd]]
      /\ client_count' = client_count - Cardinality(Gone)
      /\ UNCHANGED <<name, socket, mpc, mconn, mfd, mname, mslot, accepted, pc, client_id,
                     reads, buffer, target_id, inbox, messages>>
  BY DEF Sweep, mainThread, handlers, streams
<1>2. CountMatches'
  <2>1. ActiveSlots = ActiveSlots' \cup Gone /\ ActiveSlots' \cap Gone = {}
    BY <1>1 DEF ActiveSlots, Silent
  <2>2. /\ IsFiniteSet(ActiveSlots') /\ Cardinality(ActiveSlots') \in Nat
        /\ IsFiniteSet(Gone) /\ Cardinality(Gone) \in Nat
    <3>1. ActiveSlots' \subseteq Slots /\ Gone \subseteq Slots
      BY DEF ActiveSlots
    <3> HIDE DEF Gone
    <3>2. QED
      BY <3>1, CountSlots
  <2> HIDE DEF Gone
  <2>3. Cardinality(ActiveSlots) = Cardinality(ActiveSlots') + Cardinality(Gone)
    <3>1. Cardinality(ActiveSlots' \cup Gone)
            = Cardinality(ActiveSlots') + Cardinality(Gone) - Cardinality({})
      BY <2>1, <2>2, FS_Union
    <3>2. QED
      BY <2>1, <2>2, <3>1, FS_EmptySet
  <2>4. client_count = Cardinality(ActiveSlots)
    BY DEF ServerInv, TableOK, CountMatches, ActiveSlots
  <2>5. client_count' = Cardinality(ActiveSlots')
    BY <1>1, <2>2, <2>3, <2>4
  <2>6. QED
    BY <2>5 DEF CountMatches, ActiveSlots
<1>3. client_count' \in 0 .. MAX_CLIENTS
  <2>1. ActiveSlots' \subseteq Slots
    BY DEF ActiveSlots
  <2>2. QED
    BY <1>2, <2>1, CountSlots DEF CountMatches, ActiveSlots
<1> HIDE DEF Gone
<1>4. TypeOK'
  <2>1. 0 \in 0 .. TIMEOUT + 1 /\ 0 \in 0 .. PERIOD
    BY ServerAssumption
  <2>2. active' \in [Slots -> BOOLEAN]
    BY <1>1 DEF ServerInv, TableOK, TypeOK
  <2>3. age' \in [Slots -> 0 .. TIMEOUT + 1]
    BY <1>1, <2>1 DEF ServerInv, TableOK, TypeOK
  <2>4. file' \in [Fds -> Conns \cup {NoConn}]
    BY <1>1 DEF ServerInv, TableOK, TypeOK
  <2>5. swept' \in BOOLEAN
    BY <1>1 DEF ServerInv, TableOK, TypeOK
  <2>6. QED
    BY <1>1, <1>3, <2>1, <2>2, <2>3, <2>4, <2>5 DEF ServerInv, TableOK, TypeOK
<1>5. UniqueNames'
  BY <1>1 DEF ServerInv, TableOK, UniqueNames
<1>6. \A s \in Slots : active'[s] => active[s] /\ ~Silent(s)
  BY <1>1
<1>7. \A s \in Slots : active'[s] => socket[s] \in Fds /\ file'[socket[s]] = file[socket[s]]
  BY <1>1, <1>6 DEF ServerInv, FdsOK, Silent
<1>8. MainOK'
  <2>1. Registering => file'[mfd] = file[mfd]
    BY <1>1 DEF ServerInv, MainOK, Silent
  <2>2. QED
    BY <1>1, <1>6, <2>1 DEF ServerInv, MainOK, Registering
<1>9. HandlersOK'
  BY <1>1 DEF ServerInv, HandlersOK
<1>10. FdsOK'
  <2>1. ASSUME NEW fd \in Fds, file'[fd] # NoConn
        PROVE  (\E s \in Slots : active'[s] /\ socket'[s] = fd) \/ (Registering' /\ fd = mfd')
    <3>1. file[fd] # NoConn /\ ~\E s \in Slots : Silent(s) /\ socket[s] = fd
      BY <1>1, <2>1
    <3>2. QED
      BY <1>1, <3>1 DEF ServerInv, FdsOK, Registering
  <2>2. QED
    BY <1>1, <1>6, <1>7, <2>1 DEF ServerInv, FdsOK
<1>11. Owned'
  <2>1. SUFFICES ASSUME ~swept' PROVE Owned'
    BY DEF Owned
  <2>2. ~swept /\ \A s \in Slots : ~Silent(s)
    BY <1>1, <2>1 DEF ServerInv, TableOK, TypeOK
  <2>3. \A s \in Slots : active'[s] = active[s]
    BY <1>1, <2>2 DEF ServerInv, TableOK, TypeOK
  <2>4. QED
    BY <1>1, <1>7, <2>2, <2>3 DEF ServerInv, Owned, Live, HandlersOK, MainOK
<1>12. QED
  BY <1>2, <1>4, <1>5, <1>8, <1>9, <1>10, <1>11 DEF ServerInv, TableOK

\* Ages, the clock and what waits for the server are in the types only.
LEMMA OutsideServer ==
    ASSUME ServerInv, TypeOK',
           UNCHANGED <<active, name, socket, client_count, file, mainThread, handlers, swept>>
    PROVE  ServerInv'
<1>1. UNCHANGED <<mpc, mconn, mfd, mname, mslot, accepted, pc, client_id, reads>>
  BY DEF mainThread, handlers
<1>2. QED
  BY <1>1 DEF ServerInv, TableOK, CountMatches, UniqueNames, MainOK, HandlersOK, FdsOK,
              Owned, Live, Registering

LEMMA TickServer == ASSUME ServerInv, Tick PROVE ServerInv'
<1>1. age' \in [Slots -> 0 .. TIMEOUT + 1]
  BY ServerAssumption DEF Tick, ServerInv, TableOK, TypeOK
<1>2. slept' \in 0 .. PERIOD
  BY ServerAssumption DEF Tick, ServerInv, TableOK, TypeOK
<1>3. TypeOK'
  BY <1>1, <1>2 DEF Tick, ServerInv, TableOK, TypeOK, mainThread, handlers, streams
<1>4. QED
  BY <1>3, OutsideServer DEF Tick

LEMMA ClientServer ==
    ASSUME ServerInv, NEW c \in Conns, ClientSends(c) \/ ClientCloses(c)
    PROVE  ServerInv'
<1>1. messages' \in 0 .. MaxMessages
  BY ServerAssumption DEF ClientSends, ClientCloses, ServerInv, TableOK, TypeOK
<1>2. inbox' \in [Conns -> Messages \cup {NoMessage, Eof}]
  BY DEF ClientSends, ClientCloses, ServerInv, TableOK, TypeOK
<1>3. UNCHANGED <<table, file, mainThread, handlers, pinging>>
  BY DEF ClientSends, ClientCloses
<1>4. TypeOK'
  BY <1>1, <1>2, <1>3
     DEF ServerInv, TableOK, TypeOK, table, mainThread, handlers, pinging
<1>5. QED
  BY <1>3, <1>4, OutsideServer DEF table, pinging

\* The invariant of the server.
LEMMA ServerInvariant == Spec => []ServerInv
<1>1. ASSUME ServerInv, [Next]_vars PROVE ServerInv'
  <2>1. CASE \E c \in Conns : Accept(c)  BY <1>1, <2>1, AcceptServer
  <2>2. CASE LookupName                  BY <1>1, <2>2, LookupServer
  <2>3. CASE TakeSlot                    BY <1>1, <2>3, TakeSlotServer
  <2>4. CASE StartHandler                BY <1>1, <2>4, StartServer
  <2>5. CASE \E c \in Conns : Handler(c) BY <1>1, <2>5, HandlerServer
  <2>6. CASE Sweep                       BY <1>1, <2>6, SweepServer
  <2>7. CASE Tick                        BY <1>1, <2>7, TickServer
  <2>8. CASE \E c \in Conns : ClientSends(c) \/ ClientCloses(c)
    BY <1>1, <2>8, ClientServer
  <2>9. CASE UNCHANGED vars
    <3>1. TypeOK'
      BY <1>1, <2>9 DEF ServerInv, TableOK, TypeOK, vars, table, mainThread, handlers,
                        pinging, streams
    <3>2. QED
      BY <1>1, <2>9, <3>1, OutsideServer DEF vars, table, pinging
  <2>10. QED
    BY <1>1, <2>1, <2>2, <2>3, <2>4, <2>5, <2>6, <2>7, <2>8, <2>9 DEF Next, MainThread
<1>2. QED
  BY InitServer, <1>1, PTL DEF Spec

-----------------------------------------------------------------------------
(* Theorems. *)

\* The table is in order at every step of every thread: its types, client_count is
\* the number of active slots, and no two active clients have the same name.
THEOREM ServerTableOK == Spec => []TableOK
<1>1. ServerInv => TableOK
  BY DEF ServerInv
<1>2. QED
  BY <1>1, ServerInvariant, PTL

\* No descriptor leaks and none is closed under an active client: the open ones are
\* those of the active slots, one each, and the one main is registering.
THEOREM ServerDescriptorsAccounted == Spec => []DescriptorsAccounted
<1>1. ASSUME ServerInv PROVE DescriptorsAccounted
  <2> DEFINE Held == {socket[s] : s \in {s \in Slots : active[s]}}
                        \cup (IF mpc \in {"lookup", "register"} THEN {mfd} ELSE {})
  <2>1. ASSUME NEW fd \in Fds, file[fd] # NoConn PROVE fd \in Held
    BY <1>1, <2>1 DEF ServerInv, FdsOK, Registering
  <2>2. ASSUME NEW fd \in Held PROVE fd \in Fds /\ file[fd] # NoConn
    <3>1. CASE fd \in {socket[s] : s \in {s \in Slots : active[s]}}
      BY <1>1, <3>1 DEF ServerInv, FdsOK
    <3>2. CASE Registering /\ fd = mfd
      BY <1>1, <3>2, ServerAssumption DEF ServerInv, MainOK, TableOK, TypeOK
    <3>3. QED
      BY <2>2, <3>1, <3>2 DEF Registering
  <2> HIDE DEF Held
  <2>3. {fd \in Fds : file[fd] # NoConn} = Held
    BY <2>1, <2>2
  <2>4. QED
    BY <1>1, <2>3 DEF DescriptorsAccounted, ServerInv, FdsOK, Held
<1>2. QED
  BY <1>1, ServerInvariant, PTL

\* Until a client is removed for silence, every handler works for the client it
\* was created for.
THEOREM ServerHandlerOwnsSlot == Spec => []HandlerOwnsSlot
<1>1. ServerInv => HandlerOwnsSlot
  BY DEF ServerInv, Owned, Live, HandlerOwnsSlot
<1>2. QED
  BY <1>1, ServerInvariant, PTL
=============================================================================
