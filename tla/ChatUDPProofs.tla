--------------------------- MODULE ChatUDPProofs ---------------------------
(***************************************************************************)
(* Proofs about the server of the UDP chat, for every number of clients,   *)
(* names and slots and every bound on time.  They are made for AnySpec,    *)
(* which has the steps of Spec (with real clients and the network) and of  *)
(* ServerSpec (with datagrams from anywhere).                              *)
(***************************************************************************)
EXTENDS ChatUDP, LeastElement

AnyNext == Next \/ ServerNext
AnySpec == Init /\ [][AnyNext]_vars

LEMMA SpecIsAny == Spec => AnySpec
<1>1. [Next]_vars => [AnyNext]_vars
  BY DEF AnyNext
<1>2. QED
  BY <1>1, PTL DEF Spec, AnySpec

LEMMA ServerSpecIsAny == ServerSpec => AnySpec
<1>1. [ServerNext]_vars => [AnyNext]_vars
  BY DEF AnyNext
<1>2. QED
  BY <1>1, PTL DEF ServerSpec, AnySpec

-----------------------------------------------------------------------------
(* The lookups. *)

\* Slots are finitely many naturals, and -1 is none of them.
LEMMA SlotsFinite ==
    /\ IsFiniteSet(Slots)
    /\ Cardinality(Slots) = MAX_CLIENTS
    /\ Slots \subseteq Nat /\ None \notin Slots
<1>1. MAX_CLIENTS \in Nat \ {0}
  BY ChatAssumption
<1>2. QED
  BY <1>1, FS_Interval DEF Slots, None

\* The lookups return None or a slot that fits, and None only if there is none.
LEMMA FirstSlotFits ==
    ASSUME NEW S, S \subseteq Slots
    PROVE  /\ FirstSlot(S) = None \/ FirstSlot(S) \in S
           /\ FirstSlot(S) = None => S = {}
<1>1. IsFiniteSet(S) /\ S \subseteq Nat /\ None \notin S
  BY SlotsFinite, FS_Subset
<1>2. S # {} => Min(S) \in S
  BY <1>1, LeastInSet
<1>3. QED
  BY <1>1, <1>2 DEF FirstSlot

\* find_client_by_addr returns an active slot with the address, or -1.
LEMMA LookupAddr ==
    ASSUME NEW c
    PROVE  LET s == find_client_by_addr(c)
           IN  s = None \/ (s \in Slots /\ active[s] /\ addr[s] = c)
BY FirstSlotFits DEF find_client_by_addr

\* find_client_by_name returns an active slot with the name, or -1 if there is none.
LEMMA LookupName ==
    ASSUME NEW n
    PROVE  LET s == find_client_by_name(n)
           IN  /\ s = None \/ (s \in Slots /\ active[s] /\ name[s] = n)
               /\ s = None => \A t \in Slots : ~(active[t] /\ name[t] = n)
<1>1. {s \in Slots : active[s] /\ name[s] = n} \subseteq Slots
  OBVIOUS
<1>2. QED
  BY <1>1, FirstSlotFits DEF find_client_by_name

\* The slot register_client takes is not active.
LEMMA LookupFree == FreeSlot = None \/ (FreeSlot \in Slots /\ ~active[FreeSlot])
BY FirstSlotFits DEF FreeSlot

-----------------------------------------------------------------------------
(***************************************************************************)
(* The table.  While a message is handled, client_id and target_id are     *)
(* slots, and one that is still active still holds the sender's address,   *)
(* respectively the name looked up: only the thread that handles messages  *)
(* gives slots away.  Active slots are counted.                            *)
(***************************************************************************)
ActiveSlots == {s \in Slots : active[s]}

ThreadOK ==
    /\ pc \in {"recv", "refresh", "command", "send"}
    /\ pc # "recv" => /\ client_id \in Slots
                      /\ active[client_id] => addr[client_id] = buffer.src
    /\ pc = "send" => /\ target_id \in Slots
                      /\ active[target_id] => name[target_id] = buffer.name

TableOK ==
    /\ active \in [Slots -> BOOLEAN]
    /\ name = [s \in Slots |-> name[s]]
    /\ addr = [s \in Slots |-> addr[s]]

ServerInv == TableOK /\ ThreadOK /\ CountMatches

LEMMA InitServer == Init => ServerInv
<1>1. Init => ActiveSlots = {}
  BY DEF Init, ActiveSlots
<1>2. QED
  BY <1>1, FS_EmptySet
     DEF Init, ServerInv, TableOK, ThreadOK, CountMatches, ActiveSlots

\* Steps that leave the table and the thread alone, or only move the clock.
LEMMA OtherServer ==
    ASSUME ServerInv, UNCHANGED <<active, name, addr, client_count, thread>>
    PROVE  ServerInv'
BY DEF ServerInv, TableOK, ThreadOK, CountMatches, thread

\* A new client gets a free slot.
LEMMA RegisterServer ==
    ASSUME ServerInv, NEW d, NEW keep, HandleRegister(d, keep)
    PROVE  ServerInv'
<1>1. CASE UNCHANGED table
  BY <1>1, OtherServer DEF HandleRegister, table, thread
<1>2. CASE find_client_by_name(d.name) = None /\ FreeSlot # None
  <2> DEFINE f == FreeSlot
  <2>1. f \in Slots /\ ~active[f]
    BY <1>2, LookupFree
  <2>2. /\ active' = [active EXCEPT ![f] = TRUE]
        /\ name' = [name EXCEPT ![f] = Stored[d.name]]
        /\ addr' = [addr EXCEPT ![f] = d.src]
        /\ client_count' = client_count + 1
        /\ pc = "recv" /\ pc' = pc
    BY <1>2 DEF HandleRegister, Receive, thread
  <2> HIDE DEF f
  <2>3. TableOK'
    BY <2>1, <2>2 DEF ServerInv, TableOK
  <2>4. ThreadOK'
    BY <2>2 DEF ThreadOK
  <2>5. CountMatches'
    <3>1. ActiveSlots' = ActiveSlots \cup {f} /\ f \notin ActiveSlots
      BY <2>1, <2>2 DEF ServerInv, TableOK, ActiveSlots
    <3>2. Cardinality(ActiveSlots') = Cardinality(ActiveSlots) + 1
      BY <3>1, SlotsFinite, FS_Subset, FS_AddElement DEF ActiveSlots
    <3>3. QED
      BY <2>2, <3>2 DEF ServerInv, CountMatches, ActiveSlots
  <2>6. QED
    BY <2>3, <2>4, <2>5 DEF ServerInv
<1>3. QED
  BY <1>1, <1>2 DEF HandleRegister

\* The slot of the sender is active when it is looked up.
LEMMA KnownServer ==
    ASSUME ServerInv, NEW d, NEW keep, HandleKnown(d, keep)
    PROVE  ServerInv'
<1>1. UNCHANGED table /\ buffer' = d /\ pc' = "refresh"
  BY DEF HandleKnown
<1>2. /\ client_id' \in Slots
      /\ active[client_id'] /\ addr[client_id'] = d.src
  BY LookupAddr DEF HandleKnown
<1>3. ThreadOK'
  BY <1>1, <1>2 DEF ThreadOK, table
<1>4. QED
  BY <1>1, <1>3 DEF ServerInv, TableOK, CountMatches, table

\* last_ping is no part of the invariant.
LEMMA RefreshServer == ASSUME ServerInv, Refresh PROVE ServerInv'
BY DEF ServerInv, TableOK, ThreadOK, CountMatches, Refresh

\* Back to recvfrom without touching the table.
LEMMA HandledServer ==
    ASSUME ServerInv, NEW S, Handled(S), UNCHANGED table
    PROVE  ServerInv'
BY DEF ServerInv, TableOK, ThreadOK, CountMatches, Handled, table

\* The slot of the addressee is active when it is looked up.
LEMMA FindTargetServer == ASSUME ServerInv, FindTarget PROVE ServerInv'
<1>1. CASE find_client_by_name(buffer.name) = None
  BY <1>1, HandledServer DEF FindTarget
<1>2. CASE find_client_by_name(buffer.name) # None
  <2>1. /\ pc = "command" /\ pc' = "send"
        /\ UNCHANGED <<table, client_id, buffer>>
        /\ target_id' = find_client_by_name(buffer.name)
    BY <1>2 DEF FindTarget
  <2>2. target_id' \in Slots /\ name[target_id'] = buffer.name
    BY <1>2, <2>1, LookupName
  <2>3. ThreadOK'
    BY <2>1, <2>2 DEF ServerInv, ThreadOK, table
  <2>4. QED
    BY <2>1, <2>3 DEF ServerInv, TableOK, CountMatches, table
<1>3. QED
  BY <1>1, <1>2

\* remove_client takes the client off, if the ping thread has not.
LEMMA QuitServer == ASSUME ServerInv, Quit PROVE ServerInv'
<1>1. CASE ~RemoveGuard
  BY <1>1, HandledServer DEF Quit, table
<1>2. CASE RemoveGuard
  <2>1. client_id \in Slots /\ active[client_id]
    BY <1>2 DEF Quit, RemoveGuard, ServerInv, ThreadOK
  <2>2. /\ active' = [active EXCEPT ![client_id] = FALSE]
        /\ name' = [name EXCEPT ![client_id] = NoName]
        /\ client_count' = client_count - 1
        /\ addr' = addr /\ pc' = "recv"
    BY <1>2 DEF Quit, Handled
  <2>3. TableOK' /\ ThreadOK'
    BY <2>1, <2>2 DEF ServerInv, TableOK, ThreadOK
  <2>4. ActiveSlots' = ActiveSlots \ {client_id} /\ client_id \in ActiveSlots
    BY <2>1, <2>2 DEF ServerInv, TableOK, ActiveSlots
  <2>5. Cardinality(ActiveSlots') = Cardinality(ActiveSlots) - 1
    BY <2>4, SlotsFinite, FS_Subset, FS_RemoveElement DEF ActiveSlots
  <2>6. CountMatches'
    BY <2>2, <2>5 DEF ServerInv, CountMatches, ActiveSlots
  <2>7. QED
    BY <2>3, <2>6 DEF ServerInv
<1>3. QED
  BY <1>1, <1>2

\* The ping thread takes off all who are silent, and counts them.
LEMMA SweepServer == ASSUME ServerInv, Sweep PROVE ServerInv'
<1> DEFINE Gone == {s \in Slots : Silent(s)}
<1>1. /\ active' = [s \in Slots |-> active[s] /\ ~Silent(s)]
      /\ client_count' = client_count - Cardinality(Gone)
      /\ UNCHANGED <<name, addr, thread>>
  BY DEF Sweep
<1>2. TableOK' /\ ThreadOK'
  BY <1>1 DEF ServerInv, TableOK, ThreadOK, thread
<1>3. ActiveSlots = ActiveSlots' \cup Gone /\ ActiveSlots' \cap Gone = {}
  BY <1>1 DEF ActiveSlots, Silent, ServerInv, TableOK
<1>4. IsFiniteSet(ActiveSlots') /\ IsFiniteSet(Gone)
  BY SlotsFinite, FS_Subset DEF ActiveSlots
<1>5. Cardinality(ActiveSlots) = Cardinality(ActiveSlots') + Cardinality(Gone)
  <2> HIDE DEF Gone
  <2>1. Cardinality(ActiveSlots' \cup Gone)
          = Cardinality(ActiveSlots') + Cardinality(Gone) - Cardinality({})
    BY <1>3, <1>4, FS_Union
  <2>2. QED
    BY <1>3, <1>4, <2>1, FS_EmptySet, FS_CardinalityType
<1>6. CountMatches'
  <2> HIDE DEF Gone
  <2>1. Cardinality(ActiveSlots') \in Nat /\ Cardinality(Gone) \in Nat
    BY <1>4, FS_CardinalityType
  <2>2. client_count = Cardinality(ActiveSlots)
    BY DEF ServerInv, CountMatches, ActiveSlots
  <2>3. client_count' = Cardinality(ActiveSlots')
    BY <1>1, <1>5, <2>1, <2>2
  <2>4. QED
    BY <2>3 DEF CountMatches, ActiveSlots
<1>7. QED
  BY <1>2, <1>6 DEF ServerInv

LEMMA MainServer == ASSUME ServerInv, ServerMain PROVE ServerInv'
<1>1. ASSUME NEW d \in net, NEW keep \in BOOLEAN, HandleRegister(d, keep)
      PROVE  ServerInv'
  BY <1>1, RegisterServer
<1>2. ASSUME NEW d \in net, NEW keep \in BOOLEAN, HandleUnknown(d, keep)
      PROVE  ServerInv'
  BY <1>2, OtherServer DEF HandleUnknown, table
<1>3. ASSUME NEW d \in net, NEW keep \in BOOLEAN, HandleKnown(d, keep)
      PROVE  ServerInv'
  BY <1>3, KnownServer
<1>4. CASE Refresh     BY <1>4, RefreshServer
<1>5. CASE Answer      BY <1>5, HandledServer DEF Answer
<1>6. CASE ToAll       BY <1>6, HandledServer DEF ToAll
<1>7. CASE FindTarget  BY <1>7, FindTargetServer
<1>8. CASE ToOne       BY <1>8, HandledServer DEF ToOne
<1>9. CASE Quit        BY <1>9, QuitServer
<1>10. QED
  BY <1>1, <1>2, <1>3, <1>4, <1>5, <1>6, <1>7, <1>8, <1>9 DEF ServerMain

\* The clients and the network do not touch what the server knows.
ClientNext(c) ==
    \/ ClientSteps(c) \/ ReceiverSteps(c) \/ UserSteps(c)
    \/ StopRunning(c) \/ RegisterTimeout(c)

LEMMA ClientsAreOutside ==
    ASSUME NEW c \in Clients, ClientNext(c)
    PROVE  UNCHANGED <<table, thread>>
<1>1. CASE ClientSteps(c)
  BY <1>1 DEF ClientSteps, RegisterReply, StopRunning, Join
<1>2. CASE ReceiverSteps(c)
  BY <1>2 DEF ReceiverSteps, ReceiveMessage, CheckRunning
<1>3. CASE UserSteps(c)
  BY <1>3 DEF UserSteps, Register, TypeLine, TypeQuit, Interrupt
<1>4. CASE StopRunning(c) \/ RegisterTimeout(c)
  BY <1>4 DEF StopRunning, RegisterTimeout
<1>5. QED
  BY <1>1, <1>2, <1>3, <1>4 DEF ClientNext

\* Every step is one of the server's or leaves table and thread alone, except
\* for the clock.
LEMMA StepCases ==
    ASSUME [AnyNext]_vars
    PROVE  \/ ServerMain \/ Sweep
           \/ UNCHANGED <<active, name, addr, client_count, thread>>
<1>1. CASE Tick    BY <1>1 DEF Tick
<1>2. CASE Lose    BY <1>2 DEF Lose, table
<1>3. CASE Arrive  BY <1>3 DEF Arrive, table
<1>4. CASE UNCHANGED vars  BY <1>4 DEF vars, table
<1>5. CASE \E c \in Clients : ClientNext(c)
  BY <1>5, ClientsAreOutside DEF table
<1>6. QED
  BY <1>1, <1>2, <1>3, <1>4, <1>5 DEF AnyNext, Next, ServerNext, ClientNext

\* The invariant of table and thread.
LEMMA ServerInvariant == AnySpec => []ServerInv
<1>1. ServerInv /\ [AnyNext]_vars => ServerInv'
  BY StepCases, MainServer, SweepServer, OtherServer
<1>2. QED
  BY InitServer, <1>1, PTL DEF AnySpec

-----------------------------------------------------------------------------
(* Theorems. *)

\* client_count is the number of active slots, whichever thread removes a client
\* first, for any datagrams and for the real clients.
THEOREM ServerCountMatches == ServerSpec \/ Spec => []CountMatches
<1>1. ServerInv => CountMatches
  BY DEF ServerInv
<1>2. QED
  BY <1>1, ServerInvariant, SpecIsAny, ServerSpecIsAny, PTL

\* A client leaves the table only through QUIT of the thread that handles its own
\* message, or through a round of the ping thread that found it silent.
THEOREM ServerRemovedForCause == ServerSpec \/ Spec => RemovedForCause
<1> DEFINE Cause == \A s \in Slots : active[s] /\ ~active'[s] =>
                      \/ age[s] > TIMEOUT
                      \/ pc = "command" /\ buffer.body = "QUIT" /\ buffer.src = addr[s]
<1>1. ASSUME ServerInv, Quit PROVE Cause
  <2>1. CASE ~RemoveGuard  BY <1>1, <2>1 DEF Quit
  <2>2. CASE RemoveGuard
    <3>1. active' = [active EXCEPT ![client_id] = FALSE]
      BY <1>1, <2>2 DEF Quit
    <3>2. /\ pc = "command" /\ buffer.body = "QUIT"
          /\ addr[client_id] = buffer.src
      BY <1>1, <2>2 DEF Quit, RemoveGuard, ServerInv, ThreadOK
    <3>3. QED
      BY <1>1, <3>1, <3>2 DEF ServerInv, TableOK
  <2>3. QED
    BY <2>1, <2>2
<1>2. ASSUME Sweep PROVE Cause
  BY <1>2 DEF Sweep, Silent
<1>3. ASSUME ServerInv, ServerMain PROVE Cause
  <2>1. ASSUME NEW d \in net, NEW keep \in BOOLEAN, HandleRegister(d, keep)
        PROVE  Cause
    BY <1>3, <2>1 DEF HandleRegister, table, ServerInv, TableOK
  <2>2. ASSUME NEW d \in net, NEW keep \in BOOLEAN,
               HandleUnknown(d, keep) \/ HandleKnown(d, keep)
        PROVE  Cause
    BY <2>2 DEF HandleUnknown, HandleKnown, table
  <2>3. CASE Refresh \/ Answer \/ ToAll \/ FindTarget \/ ToOne
    BY <2>3 DEF Refresh, Answer, ToAll, FindTarget, ToOne, table
  <2>4. QED
    BY <1>1, <1>3, <2>1, <2>2, <2>3 DEF ServerMain
<1>4. ServerInv /\ [AnyNext]_vars => [Cause]_vars
  BY <1>2, <1>3, StepCases
<1> HIDE DEF Cause
<1>5. AnySpec => [][Cause]_vars
  BY <1>4, ServerInvariant, PTL DEF AnySpec
<1>6. [][Cause]_vars => RemovedForCause
  BY DEF Cause, RemovedForCause
<1>7. QED
  BY <1>5, <1>6, SpecIsAny, ServerSpecIsAny, PTL

-----------------------------------------------------------------------------
(***************************************************************************)
(* Types.  A reply can go to the address in a slot because active slots    *)
(* hold addresses of clients only.                                         *)
(***************************************************************************)
TableTyped ==
    /\ name \in [Slots -> Names \cup {NoName}]
    /\ addr \in [Slots -> Clients \cup {Server}]
    /\ age \in [Slots -> 0 .. TIMEOUT + 1]
    /\ \A s \in Slots : active[s] => addr[s] \in Clients

ThreadTyped ==
    /\ client_id \in Slots \cup {None} /\ target_id \in Slots \cup {None}
    /\ buffer \in ToServer \cup {NoDatagram}
    /\ pc # "recv" => buffer \in ToServer

ClientsTyped ==
    /\ main \in [Clients -> {"start", "registering", "chatting", "quit", "joining", "exited"}]
    /\ receiver \in [Clients -> {"none", "recv", "check", "ended"}]
    /\ running \in [Clients -> BOOLEAN]
    /\ lines \in 0 .. MaxLines

NetTyped ==
    /\ net \subseteq ToServer \cup ToClient
    /\ slept \in 0 .. PERIOD
    /\ duplicates \in 0 .. MaxDuplicates

Typed == TableTyped /\ ThreadTyped /\ ClientsTyped /\ NetTyped

\* The messages of the two programs.
LEMMA Messages ==
    /\ \A c \in Clients : \A b \in {"OK", "ERROR", "ALIVE", "TEXT"} : Reply(c, b) \in ToClient
    /\ \A c \in Clients : \A n \in Names \cup {NoName} :
           Datagram(Server, c, "PRIVATE", n) \in ToClient
    /\ \A c \in Clients : \A b \in {"LIST", "2ALL", "QUIT", "PING"} : Line(c, b) \in ToServer
    /\ \A c \in Clients : \A b \in {"REGISTER", "2ONE"} : \A n \in Names :
           Datagram(c, Server, b, n) \in ToServer
    /\ \A d \in ToServer \cup ToClient : d.dst = Server =>
           d \in ToServer /\ d.src \in Clients /\ d.name \in Names \cup {NoName}
    /\ \A d \in ToServer : d.body \in {"REGISTER", "2ONE"} => d.name \in Names
BY ChatAssumption DEF Reply, Line, Datagram, ToServer, ToClient

LEMMA InitTyped == Init => Typed
<1> SUFFICES ASSUME Init PROVE Typed
  OBVIOUS
<1>1. TableTyped
  BY ChatAssumption DEF Init, TableTyped
<1>2. ThreadTyped /\ ClientsTyped /\ NetTyped
  BY ChatAssumption DEF Init, ThreadTyped, ClientsTyped, NetTyped
<1>3. QED
  BY <1>1, <1>2 DEF Typed

\* The part of the server's thread that takes a datagram off the network.
LEMMA ReceiveTyped ==
    ASSUME Typed, NEW d \in net, NEW keep \in BOOLEAN, Receive(d, keep),
           NEW S \in SUBSET ToClient, AfterReceive(d, keep, S), slept' = slept
    PROVE  /\ NetTyped'
           /\ d \in ToServer /\ d.src \in Clients /\ d.name \in Names \cup {NoName}
<1>1. net' \subseteq ToServer \cup ToClient
  BY DEF Typed, NetTyped, AfterReceive, Deliverable
<1>2. duplicates' \in 0 .. MaxDuplicates
  BY ChatAssumption DEF Typed, NetTyped, Receive
<1>3. d \in ToServer /\ d.src \in Clients /\ d.name \in Names \cup {NoName}
  BY Messages DEF Receive, Typed, NetTyped
<1>4. QED
  BY <1>1, <1>2, <1>3 DEF Typed, NetTyped

\* The end of a message, with its replies.
LEMMA HandledTyped ==
    ASSUME Typed, NEW S \in SUBSET ToClient, Handled(S)
    PROVE  ThreadTyped' /\ ClientsTyped' /\ NetTyped'
BY DEF Handled, Sends, Deliverable, Typed, ThreadTyped, ClientsTyped, NetTyped, clients

LEMMA MainTyped == ASSUME ServerInv, Typed, ServerMain PROVE Typed'
<1>1. active \in [Slots -> BOOLEAN]
  BY DEF ServerInv, TableOK
<1>2. /\ pc # "recv" => buffer.src \in Clients /\ buffer.name \in Names \cup {NoName}
      /\ pc # "recv" => client_id \in Slots
      /\ pc = "send" => target_id \in Slots
  BY DEF Typed, ThreadTyped, ToServer, ServerInv, ThreadOK
<1>3. ASSUME NEW d \in net, NEW keep \in BOOLEAN, HandleRegister(d, keep)
      PROVE  Typed'
  <2>1. d \in ToServer /\ d.src \in Clients /\ d.name \in Names \cup {NoName}
    BY <1>3, Messages DEF HandleRegister, Receive, Typed, NetTyped
  <2>2. Reply(d.src, "OK") \in ToClient /\ Reply(d.src, "ERROR") \in ToClient
    BY <2>1, Messages
  <2>3. PICK S \in SUBSET ToClient : AfterReceive(d, keep, S)
    BY <1>3, <2>2 DEF HandleRegister
  <2>4. NetTyped'
    BY <1>3, <2>3, ReceiveTyped DEF HandleRegister
  <2>5. ThreadTyped' /\ ClientsTyped'
    BY <1>3 DEF HandleRegister, thread, clients, Typed, ThreadTyped, ClientsTyped
  <2>6. CASE UNCHANGED table
    BY <2>4, <2>5, <2>6 DEF table, Typed, TableTyped
  <2>7. CASE find_client_by_name(d.name) = None /\ FreeSlot # None
    <3> DEFINE f == FreeSlot
    <3>1. f \in Slots
      BY <2>7, LookupFree
    <3>2. /\ active' = [active EXCEPT ![f] = TRUE]
          /\ name' = [name EXCEPT ![f] = Stored[d.name]]
          /\ addr' = [addr EXCEPT ![f] = d.src]
          /\ age' = [age EXCEPT ![f] = 0]
      BY <1>3, <2>7 DEF HandleRegister
    <3> HIDE DEF f
    <3>3. age' \in [Slots -> 0 .. TIMEOUT + 1]
      BY <3>1, <3>2, ChatAssumption DEF Typed, TableTyped
    <3>4. Stored[d.name] \in Names
      <4>1. d.name \in Names
        BY <1>3, <2>1, Messages DEF HandleRegister
      <4>2. QED
        BY <4>1, ChatAssumption
    <3>5. TableTyped'
      BY <1>1, <2>1, <3>1, <3>2, <3>3, <3>4 DEF Typed, TableTyped
    <3>6. QED
      BY <2>4, <2>5, <3>5 DEF Typed
  <2>8. QED
    BY <1>3, <2>6, <2>7 DEF HandleRegister
<1>4. ASSUME NEW d \in net, NEW keep \in BOOLEAN, HandleUnknown(d, keep)
      PROVE  Typed'
  <2>1. Reply(d.src, "ERROR") \in ToClient
    BY <1>4, Messages DEF HandleUnknown, Receive, Typed, NetTyped
  <2>2. {Reply(d.src, "ERROR")} \in SUBSET ToClient
    BY <2>1
  <2>3. NetTyped'
    BY <1>4, <2>2, ReceiveTyped DEF HandleUnknown
  <2>4. QED
    BY <1>4, <2>3 DEF HandleUnknown, table, thread, clients,
                      Typed, TableTyped, ThreadTyped, ClientsTyped
<1>5. ASSUME NEW d \in net, NEW keep \in BOOLEAN, HandleKnown(d, keep)
      PROVE  Typed'
  <2>1. NetTyped' /\ d \in ToServer
    BY <1>5, ReceiveTyped DEF HandleKnown
  <2>2. client_id' \in Slots
    BY <1>5, LookupAddr DEF HandleKnown
  <2>3. QED
    BY <1>5, <2>1, <2>2 DEF HandleKnown, table, clients,
                            Typed, TableTyped, ThreadTyped, ClientsTyped
<1>6. CASE Refresh
  <2>1. age' \in [Slots -> 0 .. TIMEOUT + 1]
    BY <1>2, <1>6, ChatAssumption DEF Refresh, Typed, TableTyped
  <2>2. QED
    BY <1>6, <2>1 DEF Refresh, clients, Typed, TableTyped, ThreadTyped, ClientsTyped, NetTyped
<1>7. ASSUME NEW S \in SUBSET ToClient, Handled(S), UNCHANGED table
      PROVE  Typed'
  BY <1>7, HandledTyped DEF table, Typed, TableTyped
<1>8. pc # "recv" => Reply(buffer.src, "TEXT") \in ToClient /\ Reply(buffer.src, "OK") \in ToClient
  BY <1>2, Messages
<1>9. CASE Answer
  <2>1. {Reply(buffer.src, "TEXT")} \in SUBSET ToClient
    BY <1>8, <1>9 DEF Answer
  <2>2. QED
    BY <1>7, <1>9, <2>1 DEF Answer
<1>10. CASE ToAll
  <2>1. {Reply(addr[s], "TEXT") : s \in {s \in Slots : active[s] /\ s # client_id}} \in SUBSET ToClient
    BY Messages DEF Typed, TableTyped
  <2>2. QED
    BY <1>7, <1>10, <2>1 DEF ToAll
<1>11. CASE FindTarget
  <2>1. CASE find_client_by_name(buffer.name) = None
    <3>1. {Reply(buffer.src, "TEXT")} \in SUBSET ToClient
      BY <1>8, <1>11 DEF FindTarget
    <3>2. QED
      BY <1>7, <1>11, <2>1, <3>1 DEF FindTarget
  <2>2. CASE find_client_by_name(buffer.name) # None
    <3>1. target_id' \in Slots
      BY <1>11, <2>2, LookupName DEF FindTarget
    <3>2. QED
      BY <1>11, <2>2, <3>1 DEF FindTarget, table, clients,
                               Typed, TableTyped, ThreadTyped, ClientsTyped, NetTyped
  <2>3. QED
    BY <2>1, <2>2
<1>12. CASE ToOne
  <2> DEFINE S == {Reply(buffer.src, "TEXT")} \cup
               IF SendGuard THEN {Datagram(Server, addr[target_id], "PRIVATE", buffer.name)}
                            ELSE {}
  <2>1. target_id \in Slots /\ (SendGuard => addr[target_id] \in Clients)
    BY <1>2, <1>12 DEF ToOne, SendGuard, Typed, TableTyped
  <2>2. SendGuard => Datagram(Server, addr[target_id], "PRIVATE", buffer.name) \in ToClient
    BY <1>2, <1>12, <2>1, Messages DEF ToOne
  <2>3. S \in SUBSET ToClient
    BY <1>8, <1>12, <2>2 DEF ToOne
  <2>4. Handled(S) /\ UNCHANGED table
    BY <1>12 DEF ToOne
  <2> HIDE DEF S
  <2>5. QED
    BY <1>7, <2>3, <2>4
<1>13. CASE Quit
  <2>1. {Reply(buffer.src, "OK")} \in SUBSET ToClient
    BY <1>8, <1>13 DEF Quit
  <2>2. ThreadTyped' /\ ClientsTyped' /\ NetTyped'
    BY <1>13, <2>1, HandledTyped DEF Quit
  <2>3. TableTyped'
    <3>1. age' \in [Slots -> 0 .. TIMEOUT + 1]
      BY <1>13, ChatAssumption DEF Quit, Typed, TableTyped
    <3>2. name' \in [Slots -> Names \cup {NoName}]
      BY <1>13 DEF Quit, Typed, TableTyped
    <3>3. addr' = addr /\ \A s \in Slots : active'[s] => active[s]
      BY <1>1, <1>13 DEF Quit
    <3>4. QED
      BY <3>1, <3>2, <3>3 DEF Typed, TableTyped
  <2>4. QED
    BY <2>2, <2>3 DEF Typed
<1>14. QED
  BY <1>3, <1>4, <1>5, <1>6, <1>9, <1>10, <1>11, <1>12, <1>13 DEF ServerMain

LEMMA SweepTyped == ASSUME Typed, Sweep PROVE Typed'
<1> DEFINE S == {Reply(addr[s], "ALIVE") : s \in {s \in Slots : active[s] /\ ~Silent(s)}}
<1>1. S \subseteq ToClient
  BY Messages DEF Typed, TableTyped
<1>2. Sends(S)
  BY DEF Sweep
<1> HIDE DEF S
<1>3. net' \subseteq ToServer \cup ToClient
  BY <1>1, <1>2 DEF Sends, Deliverable, Typed, NetTyped
<1>4. slept' \in 0 .. PERIOD
  BY ChatAssumption DEF Sweep
<1>5. age' \in [Slots -> 0 .. TIMEOUT + 1]
  BY ChatAssumption DEF Sweep, Typed, TableTyped
<1>6. \A s \in Slots : active'[s] => active[s]
  BY DEF Sweep
<1>7. QED
  BY <1>3, <1>4, <1>5, <1>6 DEF Sweep, thread, clients, Typed, TableTyped, ThreadTyped,
                               ClientsTyped, NetTyped

LEMMA TickTyped == ASSUME Typed, Tick PROVE Typed'
<1>1. slept' \in 0 .. PERIOD
  BY ChatAssumption DEF Tick, Typed, NetTyped
<1>2. age' \in [Slots -> 0 .. TIMEOUT + 1]
  BY ChatAssumption DEF Tick, Typed, TableTyped
<1>3. QED
  BY <1>1, <1>2 DEF Tick, thread, clients, Typed, TableTyped, ThreadTyped, ClientsTyped, NetTyped

\* A client moves, and sends what it sends.
LEMMA ClientMoves ==
    ASSUME Typed, net' \subseteq net \cup ToServer, UNCHANGED <<slept, duplicates>>
    PROVE  NetTyped'
BY DEF Typed, NetTyped

LEMMA ClientTyped ==
    ASSUME Typed, NEW c \in Clients, ClientNext(c)
    PROVE  Typed'
<1>1. TableTyped' /\ ThreadTyped'
  BY ClientsAreOutside DEF table, thread, Typed, TableTyped, ThreadTyped
<1>2. /\ \A d : Takes(d, {}) => net' \subseteq net
      /\ Exits(c, {}) => net' \subseteq net
      /\ \A d \in ToServer : Sends({d}) => net' \subseteq net \cup ToServer
      /\ \A d \in ToServer : Exits(c, {d}) => net' \subseteq net \cup ToServer
      /\ \A e : \A d \in ToServer : Takes(e, {d}) => net' \subseteq net \cup ToServer
  BY DEF Takes, Sends, Exits, Deliverable
<1> USE DEF Typed, ClientsTyped
<1>3. CASE Register(c)
  <2>1. ClientsTyped'
    BY <1>3 DEF Register
  <2>2. net' \subseteq net \cup ToServer
    <3>1. PICK n \in Names : Sends({Datagram(c, Server, "REGISTER", Stored[n])})
      BY <1>3 DEF Register
    <3>2. Datagram(c, Server, "REGISTER", Stored[n]) \in ToServer
      BY ChatAssumption, Messages
    <3>3. QED
      BY <1>2, <3>1, <3>2
  <2>3. QED
    BY <1>1, <1>3, <2>1, <2>2, ClientMoves DEF Register
<1>4. CASE TypeLine(c)
  <2>1. ClientsTyped'
    BY <1>4, ChatAssumption DEF TypeLine
  <2>2. net' \subseteq net \cup ToServer
    BY <1>2, <1>4, Messages DEF TypeLine
  <2>3. QED
    BY <1>1, <1>4, <2>1, <2>2, ClientMoves DEF TypeLine
<1>5. CASE TypeQuit(c)
  <2>1. ClientsTyped'
    BY <1>5 DEF TypeQuit
  <2>2. net' \subseteq net \cup ToServer
    BY <1>2, <1>5, Messages DEF TypeQuit
  <2>3. QED
    BY <1>1, <1>5, <2>1, <2>2, ClientMoves DEF TypeQuit
<1>6. CASE Interrupt(c)
  <2>1. ClientsTyped'
    BY <1>6 DEF Interrupt, Exits
  <2>2. net' \subseteq net \cup ToServer
    BY <1>2, <1>6, Messages DEF Interrupt
  <2>3. QED
    BY <1>1, <1>6, <2>1, <2>2, ClientMoves DEF Interrupt
<1>7. CASE StopRunning(c)
  BY <1>1, <1>7 DEF StopRunning, NetTyped
<1>8. CASE RegisterTimeout(c) \/ Join(c)
  <2>1. ClientsTyped' /\ UNCHANGED <<slept, duplicates>>
    BY <1>8 DEF RegisterTimeout, Join, Exits
  <2>2. net' \subseteq net
    BY <1>2, <1>8 DEF RegisterTimeout, Join
  <2>3. QED
    BY <1>1, <2>1, <2>2 DEF NetTyped
<1>9. ASSUME NEW d \in net, RegisterReply(c, d) PROVE Typed'
  <2>1. ClientsTyped' /\ UNCHANGED <<slept, duplicates>>
    BY <1>9 DEF RegisterReply, Exits
  <2>2. net' \subseteq net
    BY <1>2, <1>9 DEF RegisterReply
  <2>3. QED
    BY <1>1, <2>1, <2>2 DEF NetTyped
<1>10. ASSUME NEW d \in net, ReceiveMessage(c, d) PROVE Typed'
  <2>1. ClientsTyped' /\ UNCHANGED <<slept, duplicates>>
    BY <1>10 DEF ReceiveMessage
  <2>2. net' \subseteq net \cup ToServer
    BY <1>2, <1>10, Messages DEF ReceiveMessage
  <2>3. QED
    BY <1>1, <2>1, <2>2, ClientMoves
<1>11. CASE CheckRunning(c)
  <2>1. ClientsTyped'
    BY <1>11 DEF CheckRunning
  <2>2. QED
    BY <1>1, <1>11, <2>1 DEF CheckRunning, NetTyped
<1>12. QED
  BY <1>3, <1>4, <1>5, <1>6, <1>7, <1>8, <1>9, <1>10, <1>11
     DEF ClientNext, ClientSteps, ReceiverSteps, UserSteps

LEMMA TypedStep == ServerInv /\ Typed /\ [AnyNext]_vars => Typed'
<1> SUFFICES ASSUME ServerInv, Typed, [AnyNext]_vars PROVE Typed'
  OBVIOUS
<1>1. CASE ServerMain  BY <1>1, MainTyped
<1>2. CASE Sweep       BY <1>2, SweepTyped
<1>3. CASE Tick        BY <1>3, TickTyped
<1>4. ASSUME UNCHANGED <<table, thread, slept, clients>>,
             net' \subseteq ToServer \cup ToClient, duplicates' = duplicates
      PROVE  Typed'
  BY <1>4 DEF table, thread, clients, Typed, TableTyped, ThreadTyped, ClientsTyped, NetTyped
<1>5. CASE Lose
  BY <1>4, <1>5 DEF Lose, Typed, NetTyped
<1>6. CASE Arrive
  BY <1>4, <1>6 DEF Arrive
<1>7. CASE UNCHANGED vars
  BY <1>4, <1>7 DEF vars, Typed, NetTyped
<1>8. CASE \E c \in Clients : ClientNext(c)
  BY <1>8, ClientTyped
<1>9. QED
  BY <1>1, <1>2, <1>3, <1>5, <1>6, <1>7, <1>8 DEF AnyNext, Next, ServerNext, ClientNext

\* Slot numbers are slots, the count stays within the table, ages and threads are in
\* range, and what the server and the clients send are messages of theirs, to
\* clients and to the server: no reply goes to an address that is not a client's.
THEOREM ServerTypeOK == ServerSpec \/ Spec => []TypeOK
<1>1. ServerInv => client_count \in 0 .. MAX_CLIENTS
  <2> SUFFICES ASSUME ServerInv PROVE client_count \in 0 .. MAX_CLIENTS
    OBVIOUS
  <2>1. ActiveSlots \subseteq Slots /\ client_count = Cardinality(ActiveSlots)
    BY DEF ServerInv, CountMatches, ActiveSlots
  <2>2. IsFiniteSet(ActiveSlots) /\ Cardinality(ActiveSlots) <= MAX_CLIENTS
    BY <2>1, SlotsFinite, FS_Subset
  <2>3. Cardinality(ActiveSlots) \in Nat
    BY <2>2, FS_CardinalityType
  <2>4. QED
    BY <2>1, <2>2, <2>3, ChatAssumption
<1>2. ServerInv /\ Typed => TypeOK
  BY <1>1 DEF ServerInv, TableOK, ThreadOK, Typed, TableTyped, ThreadTyped, ClientsTyped,
              NetTyped, TypeOK
<1>3. AnySpec => []Typed
  BY InitTyped, TypedStep, ServerInvariant, PTL DEF AnySpec
<1>4. QED
  BY <1>2, <1>3, ServerInvariant, SpecIsAny, ServerSpecIsAny, PTL

-----------------------------------------------------------------------------
(***************************************************************************)
(* Names.  A name that is registered is nobody's in full; what is stored   *)
(* of it can be somebody's only if it was cut.                             *)
(***************************************************************************)
LEMMA UniqueStep ==
    ASSUME ServerInv, Typed, UniqueNames, [AnyNext]_vars
    PROVE  UniqueNames'
<1>1. CASE UNCHANGED <<active, name>>
  BY <1>1 DEF UniqueNames
<1>2. ASSUME NEW d \in net, NEW keep \in BOOLEAN, HandleRegister(d, keep)
      PROVE  UniqueNames'
  <2>1. CASE UNCHANGED table
    BY <1>1, <2>1 DEF table
  <2>2. CASE find_client_by_name(d.name) = None /\ FreeSlot # None
    <3>1. PICK f \in Slots :
              /\ ~active[f]
              /\ active' = [active EXCEPT ![f] = TRUE]
              /\ name' = [name EXCEPT ![f] = Stored[d.name]]
      BY <1>2, <2>2, LookupFree DEF HandleRegister
    <3>2. \A t \in Slots : ~(active[t] /\ name[t] = d.name)
      BY <2>2, LookupName
    <3>3. d.name \in Names
      BY <1>2, Messages DEF HandleRegister, Receive, Typed, NetTyped
    <3>4. Stored[d.name] = d.name \/ CutForm(Stored[d.name])
      BY <3>3 DEF CutForm
    <3>5. ASSUME NEW s \in Slots, NEW t \in Slots, active'[s], active'[t], name'[s] = name'[t],
                 s # t
          PROVE  CutForm(name'[s])
      <4>1. CASE s # f /\ t # f
        <5>1. active[s] /\ active[t] /\ name[s] = name[t] /\ name'[s] = name[s]
          BY <3>1, <3>5, <4>1 DEF ServerInv, TableOK
        <5>2. QED
          BY <3>5, <5>1 DEF UniqueNames
      <4>2. ASSUME NEW o \in Slots, o # f, active'[o], name'[o] = name'[f]
            PROVE  CutForm(name'[f])
        <5>1. active[o] /\ name[o] = Stored[d.name] /\ name'[f] = Stored[d.name]
          BY <3>1, <4>2 DEF ServerInv, TableOK
        <5>2. QED
          BY <3>2, <3>4, <5>1
      <4>3. QED
        BY <3>5, <4>1, <4>2
    <3>6. QED
      BY <3>5 DEF UniqueNames, CutForm
  <2>3. QED
    BY <1>2, <2>1, <2>2 DEF HandleRegister
<1>3. CASE Quit
  <2>1. CASE RemoveGuard
    <3>1. /\ client_id \in Slots
          /\ active' = [active EXCEPT ![client_id] = FALSE]
          /\ name' = [name EXCEPT ![client_id] = NoName]
      BY <1>3, <2>1 DEF Quit, ServerInv, ThreadOK
    <3>2. \A s \in Slots : active'[s] => active[s] /\ name'[s] = name[s]
      BY <3>1 DEF ServerInv, TableOK
    <3>3. QED
      BY <3>2 DEF UniqueNames, CutForm
  <2>2. CASE ~RemoveGuard
    BY <1>1, <1>3, <2>2 DEF Quit
  <2>3. QED
    BY <2>1, <2>2
<1>4. CASE Sweep
  BY <1>4 DEF Sweep, UniqueNames, CutForm
<1>5. CASE ServerMain
  <2>1. \/ \E d \in net, keep \in BOOLEAN : HandleRegister(d, keep)
        \/ Quit \/ UNCHANGED <<active, name>>
    BY <1>5 DEF ServerMain, HandleUnknown, HandleKnown, Refresh, Answer, ToAll, FindTarget,
                ToOne, table
  <2>2. QED
    BY <1>1, <1>2, <1>3, <2>1
<1>6. QED
  BY <1>1, <1>4, <1>5, StepCases

\* Two active clients have one name only if it is what is left of a longer one, which
\* the server looks up in full and stores cut; for any datagrams and for the real
\* clients.
THEOREM ServerUniqueNames == ServerSpec \/ Spec => []UniqueNames
<1>1. Init => UniqueNames
  BY DEF Init, UniqueNames
<1>2. AnySpec => []Typed
  BY InitTyped, TypedStep, ServerInvariant, PTL DEF AnySpec
<1>3. AnySpec => []UniqueNames
  BY <1>1, <1>2, UniqueStep, ServerInvariant, PTL DEF AnySpec
<1>4. QED
  BY <1>3, SpecIsAny, ServerSpecIsAny, PTL

-----------------------------------------------------------------------------
(***************************************************************************)
(* Private messages.  Only ToOne sends any.                                *)
(***************************************************************************)
NoneSent == \A d \in net' \ net : d.body # "PRIVATE"

\* Datagrams made with another body are not private messages.
LEMMA PublicReplies ==
    /\ \A c, b : b # "PRIVATE" => Reply(c, b).body # "PRIVATE"
    /\ \A c, b : b # "PRIVATE" => Line(c, b).body # "PRIVATE"
    /\ \A c, n, e, b : b # "PRIVATE" => Datagram(c, e, b, n).body # "PRIVATE"
BY DEF Reply, Line, Datagram

LEMMA ClientsSendNone ==
    ASSUME NEW c \in Clients, ClientNext(c)
    PROVE  NoneSent
<1> USE PublicReplies DEF NoneSent, Sends, Takes, Deliverable, Exits
<1>1. CASE Register(c)         BY <1>1 DEF Register
<1>2. CASE TypeLine(c)         BY <1>2 DEF TypeLine
<1>3. CASE TypeQuit(c)         BY <1>3 DEF TypeQuit
<1>4. CASE Interrupt(c)        BY <1>4 DEF Interrupt
<1>5. CASE StopRunning(c)      BY <1>5 DEF StopRunning
<1>6. CASE RegisterTimeout(c)  BY <1>6 DEF RegisterTimeout
<1>7. CASE Join(c)             BY <1>7 DEF Join
<1>8. CASE \E d \in net : RegisterReply(c, d)   BY <1>8 DEF RegisterReply
<1>9. CASE \E d \in net : ReceiveMessage(c, d)  BY <1>9 DEF ReceiveMessage
<1>10. CASE CheckRunning(c)    BY <1>10 DEF CheckRunning
<1>11. QED
  BY <1>1, <1>2, <1>3, <1>4, <1>5, <1>6, <1>7, <1>8, <1>9, <1>10
     DEF ClientNext, ClientSteps, ReceiverSteps, UserSteps

LEMMA OthersSendNone ==
    ASSUME [AnyNext]_vars, ~ToOne
    PROVE  NoneSent
<1> USE PublicReplies DEF NoneSent, Sends, AfterReceive, Deliverable, Handled
<1>1. CASE \E d \in net, keep \in BOOLEAN : HandleRegister(d, keep)
  BY <1>1 DEF HandleRegister
<1>2. CASE \E d \in net, keep \in BOOLEAN : HandleUnknown(d, keep) \/ HandleKnown(d, keep)
  BY <1>2 DEF HandleUnknown, HandleKnown
<1>3. CASE Refresh     BY <1>3 DEF Refresh
<1>4. CASE Answer      BY <1>4 DEF Answer
<1>5. CASE ToAll       BY <1>5 DEF ToAll
<1>6. CASE FindTarget  BY <1>6 DEF FindTarget
<1>7. CASE Quit        BY <1>7 DEF Quit
<1>8. CASE Sweep       BY <1>8 DEF Sweep
<1>9. CASE Tick        BY <1>9 DEF Tick
<1>10. CASE Lose       BY <1>10 DEF Lose
<1>11. CASE Arrive     BY <1>11 DEF Arrive, ToServer
<1>12. CASE \E c \in Clients : ClientNext(c)
  BY <1>12, ClientsSendNone
<1>13. CASE UNCHANGED vars  BY <1>13 DEF vars
<1>14. QED
  BY <1>1, <1>2, <1>3, <1>4, <1>5, <1>6, <1>7, <1>8, <1>9, <1>10, <1>11, <1>12, <1>13
     DEF AnyNext, Next, ServerNext, ServerMain, ClientNext

\* A private message goes to the address that is registered, when it is sent,
\* under the name the sender wrote.
THEOREM ServerPrivateReachesNamed == ServerSpec \/ Spec => PrivateReachesNamed
<1> DEFINE Reaches == \A d \in net' \ net : d.body = "PRIVATE" =>
                        \E s \in Slots : active[s] /\ addr[s] = d.dst /\ name[s] = d.name
<1>1. ASSUME ServerInv, ToOne PROVE Reaches
  <2>1. PICK S : /\ net' \subseteq net \cup S \cup {Reply(buffer.src, "TEXT")}
                 /\ S = IF SendGuard
                          THEN {Datagram(Server, addr[target_id], "PRIVATE", buffer.name)}
                          ELSE {}
    BY <1>1 DEF ToOne, Handled, Sends, Deliverable
  <2>2. ASSUME NEW d \in net' \ net, d.body = "PRIVATE"
        PROVE  d \in S
    BY <2>1, <2>2, PublicReplies
  <2>3. target_id \in Slots /\ (SendGuard => active[target_id] /\ name[target_id] = buffer.name)
    BY <1>1 DEF ToOne, ServerInv, ThreadOK, SendGuard
  <2>4. QED
    BY <2>1, <2>2, <2>3 DEF Datagram
<1>2. ServerInv /\ [AnyNext]_vars => [Reaches]_vars
  BY <1>1, OthersSendNone DEF NoneSent
<1> HIDE DEF Reaches
<1>3. AnySpec => [][Reaches]_vars
  BY <1>2, ServerInvariant, PTL DEF AnySpec
<1>4. [][Reaches]_vars => PrivateReachesNamed
  BY DEF Reaches, PrivateReachesNamed
<1>5. QED
  BY <1>3, <1>4, SpecIsAny, ServerSpecIsAny, PTL
=============================================================================
