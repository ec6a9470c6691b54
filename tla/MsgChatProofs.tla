---------------------------- MODULE MsgChatProofs ---------------------------
(***************************************************************************)
(* Proofs about the chat over message queues, for any runs, keys, slots    *)
(* and queue sizes.  What is said of a client holds while it is alone with *)
(* its key; the invariant follows such a client from its announcement to   *)
(* the texts it prints.                                                    *)
(***************************************************************************)
EXTENDS MsgChat, SequenceTheorems, TLAPS

(* The invariant. *)

Messages == [init : BOOLEAN, key : Keys \cup {IPC_PRIVATE}, pid : Int, text : 0..MaxLines]
QueueRecords == [key : Keys \cup {IPC_PRIVATE}, live : BOOLEAN, msgs : Seq(Responses)]
ClientRecords == [client_id : Nat, queue_id : Nat, due : Seq(Responses)]

\* Queues, the server's table, in which an ID is a place, and where its loops are.
QueuesOK ==
  /\ queues \in Seq(QueueRecords)
  /\ \A q \in DOMAIN queues : Len(queues[q].msgs) <= QueueCap

InboxOK ==
  /\ inbox \in Seq(Messages) /\ Len(inbox) <= QueueCap
  /\ \A n \in DOMAIN inbox : ~inbox[n].init => inbox[n].text # YourId

EntriesOK ==
  /\ clients \in Seq(ClientRecords) /\ Len(clients) <= MAX_CLIENTS
  /\ \A i \in DOMAIN clients : clients[i].client_id = i /\ clients[i].queue_id \in DOMAIN queues

LoopOK ==
  /\ server \in [pc : {"recv", "reply", "broadcast"}, to : Nat, text : Responses]
  /\ server.to <= Len(clients) + 1
  /\ server.pc = "reply" => server.to = Len(clients) /\ server.to # 0
  /\ server.pc = "broadcast" => server.to # 0 /\ server.text.text # YourId

\* The clients' side: a run has a queue once it has made one or found one.
ClientsOK ==
  /\ main \in [Procs -> {"start", "announce", "waiting", "typing", "exited", "killed"}]
  /\ child \in [Procs -> {"none", "listening", "exited", "killed"}]
  /\ queue \in [Procs -> 0..Len(queues)]
  /\ id \in [Procs -> Int]
  /\ lines \in Seq(Procs) /\ Len(lines) <= MaxLines
  /\ heard \in [Procs -> Seq(Responses)]
  /\ \A p \in Procs : /\ main[p] = "start" <=> queue[p] = 0
                      /\ main[p] = "start" => heard[p] = <<>>
                      /\ main[p] \in {"start", "announce", "waiting"} => child[p] = "none"

\* A queue with a key was made by a run with that key, and only its key is announced.
KeysOK ==
  /\ \A q \in DOMAIN queues : queues[q].key # IPC_PRIVATE => \E p \in Procs : queue[p] = q
  /\ \A p \in Procs : queue[p] # 0 => queues[queue[p]].key \in Keys
  /\ \A n \in DOMAIN inbox : inbox[n].init /\ inbox[n].key \in Keys =>
       \E q \in DOMAIN queues : queues[q].key = inbox[n].key

Box(p) == queues[queue[p]].msgs
Calls(p) == {n \in DOMAIN inbox : inbox[n].init /\ inbox[n].key = queues[queue[p]].key}
Entries(p) == {i \in DOMAIN clients : clients[i].queue_id = queue[p]}
Replying(i) == server.pc = "reply" /\ server.to = i
NoAnswer(s) == \A k \in DOMAIN s : s[k].text # YourId

\* In got are the texts of due, in order, but for those with the ID i.
Faithful(got, due, i) ==
  /\ \A k, l \in DOMAIN got : k < l => got[k].text < got[l].text
  /\ \A k \in DOMAIN got : \E l \in DOMAIN due : got[k] = due[l]
  /\ \A l \in DOMAIN due : due[l].id # i => \E k \in DOMAIN got : got[k] = due[l]

\* The answer comes first, then what is due, which is not an answer.
EntryOK(i, p) ==
  /\ child[p] # "none" => id[p] = i
  /\ Replying(i) => Box(p) = <<>> /\ child[p] = "none" /\ clients[i].due = <<>>
  /\ ~Replying(i) /\ queues[queue[p]].live =>
       /\ child[p] # "none" => NoAnswer(Box(p))
       /\ child[p] = "none" => /\ Box(p) # <<>> /\ Head(Box(p)) = [id |-> i, text |-> YourId]
                               /\ NoAnswer(Tail(Box(p)))
       /\ Faithful(heard[p] \o Texts(Box(p)) \o Pending(i), clients[i].due, i)

\* The life of a client that is alone with its key: it announces itself once, is
\* entered once, and hears nothing before.
Unknown(p) == Entries(p) = {} /\ Box(p) = <<>> /\ child[p] = "none"
InOrder(p) ==
  /\ main[p] = "announce" => Calls(p) = {} /\ Unknown(p)
  /\ Calls(p) # {} => Unknown(p)
  /\ \A m, n \in Calls(p) : m = n
  /\ \A i, j \in Entries(p) : i = j
  /\ child[p] = "none" => heard[p] = <<>>
  /\ \A i \in Entries(p) : EntryOK(i, p)

ProgramsOK == QueuesOK /\ InboxOK /\ EntriesOK /\ LoopOK /\ ClientsOK /\ KeysOK
MsgInv == ProgramsOK /\ \A p \in Procs : Alone(p) => InOrder(p)

\* A text bears the ID of the run that typed it, from its announcement to the history.
WasSent(t) ==
  /\ t.text \in DOMAIN lines
  /\ child[Author(t)] # "none" /\ t.id = id[Author(t)]
TextAt(n) == [id |-> inbox[n].pid, text |-> inbox[n].text]

\* Texts wait in the order they were typed, after those that became due.
TextsOK ==
  /\ \A p \in Procs : main[p] = "typing" => child[p] # "none"
  /\ \A n \in DOMAIN inbox : ~inbox[n].init => WasSent(TextAt(n))
  /\ \A m, n \in DOMAIN inbox :
       m < n /\ ~inbox[m].init /\ ~inbox[n].init => inbox[m].text < inbox[n].text
  /\ \A i \in DOMAIN clients : \A k \in DOMAIN clients[i].due :
       /\ WasSent(clients[i].due[k])
       /\ queue[Author(clients[i].due[k])] # clients[i].queue_id
       /\ \A n \in DOMAIN inbox :
            ~inbox[n].init => clients[i].due[k].text < inbox[n].text

-----------------------------------------------------------------------------
(* Sequences. *)

LEMMA EmptyIsSeq == \A S : <<>> \in Seq(S) /\ Len(<<>>) = 0 /\ DOMAIN <<>> = {}
  OBVIOUS

LEMMA PutFacts ==
    ASSUME NEW S, NEW s \in Seq(S), NEW x \in S
    PROVE  /\ Append(s, x) \in Seq(S) /\ Len(Append(s, x)) = Len(s) + 1
           /\ DOMAIN s = 1 .. Len(s) /\ DOMAIN Append(s, x) = 1 .. Len(s) + 1
           /\ Len(s) \in Nat
           /\ \A i \in DOMAIN s : Append(s, x)[i] = s[i]
           /\ Append(s, x)[Len(s) + 1] = x /\ Append(s, x) # <<>>
<1>1. /\ Append(s, x) \in Seq(S) /\ Len(Append(s, x)) = Len(s) + 1
      /\ \A i \in 1 .. Len(s) : Append(s, x)[i] = s[i]
      /\ Append(s, x)[Len(s) + 1] = x
  BY AppendProperties
<1>2. DOMAIN s = 1 .. Len(s) /\ Len(s) \in Nat /\ DOMAIN Append(s, x) = 1 .. Len(Append(s, x))
  BY <1>1, LenProperties
<1>3. Append(s, x) # <<>>
  <2>1. Len(Append(s, x)) # 0
    BY <1>1, <1>2
  <2>2. QED
    BY <2>1, EmptyIsSeq
<1>4. QED
  BY <1>1, <1>2, <1>3

LEMMA ThreeParts ==
    ASSUME NEW a \in Seq(Responses), NEW b \in Seq(Responses), NEW c \in Seq(Responses)
    PROVE  a \o b \o c = a \o (b \o c)
BY ConcatAssociative

LEMMA TakeFacts ==
    ASSUME NEW S, NEW s \in Seq(S), s # <<>>
    PROVE  /\ Head(s) \in S /\ Head(s) = s[1] /\ Tail(s) \in Seq(S)
           /\ Len(s) \in Nat /\ Len(Tail(s)) = Len(s) - 1
           /\ DOMAIN s = 1 .. Len(s) /\ 1 \in DOMAIN s
           /\ DOMAIN Tail(s) = 1 .. Len(s) - 1
           /\ \A i \in DOMAIN Tail(s) : i + 1 \in DOMAIN s /\ Tail(s)[i] = s[i + 1]
<1>1. Len(s) \in Nat \ {0} /\ DOMAIN s = 1 .. Len(s)
  BY EmptySeq, LenProperties
<1>2. /\ Head(s) \in S /\ Tail(s) \in Seq(S)
      /\ Len(Tail(s)) = Len(s) - 1
      /\ \A i \in 1 .. Len(Tail(s)) : Tail(s)[i] = s[i + 1]
  BY HeadTailProperties
<1>3. Head(s) = s[1] /\ 1 \in DOMAIN s
  BY <1>1
<1>4. DOMAIN Tail(s) = 1 .. Len(s) - 1
  BY <1>2, LenProperties
<1>5. QED
  BY <1>1, <1>2, <1>3, <1>4

\* A text put into a queue comes after the others.
LEMMA TextsPut ==
    ASSUME NEW s \in Seq(Responses), NEW m \in Responses, m.text # YourId
    PROVE  /\ Texts(s) \in Seq(Responses)
           /\ Texts(Append(s, m)) = Texts(s) \o <<m>>
           /\ NoAnswer(s) => NoAnswer(Append(s, m))
<1>1. NoAnswer(s) => NoAnswer(Append(s, m))
  BY PutFacts DEF NoAnswer
<1>2. Append(s, m) # <<>> /\ Append(s, m) = s \o <<m>> /\ <<m>> \in Seq(Responses)
  BY PutFacts, AppendIsConcat, EmptyIsSeq
<1>3. CASE s = <<>>
  <2>1. Texts(s) = <<>> /\ <<>> \in Seq(Responses)
    BY <1>3 DEF Texts
  <2>2. Append(s, m) = <<m>> /\ <<>> \o <<m>> = <<m>> /\ Head(<<m>>) = m
    BY <1>2, <1>3, ConcatEmptySeq
  <2>3. Texts(Append(s, m)) = <<m>>
    BY <1>2, <2>2 DEF Texts
  <2>4. QED
    BY <1>1, <2>1, <2>2, <2>3
<1>4. CASE s # <<>> /\ Head(s).text # YourId
  <2>1. Texts(s) = s
    BY <1>4 DEF Texts
  <2>2. Head(Append(s, m)) = Head(s)
    BY <1>4, HeadTailAppend
  <2>3. Texts(Append(s, m)) = Append(s, m)
    BY <1>4, <2>2 DEF Texts
  <2>4. QED
    BY <1>1, <1>2, <2>1, <2>3
<1>5. CASE s # <<>> /\ Head(s).text = YourId
  <2>1. Texts(s) = Tail(s) /\ Tail(s) \in Seq(Responses)
    BY <1>5, TakeFacts DEF Texts
  <2>2. Head(Append(s, m)) = Head(s) /\ Tail(Append(s, m)) = Append(Tail(s), m)
    BY <1>5, HeadTailAppend
  <2>3. Texts(Append(s, m)) = Append(Tail(s), m)
    BY <1>2, <1>5, <2>2 DEF Texts
  <2>4. QED
    BY <1>1, <2>1, <2>3, AppendIsConcat
<1>6. QED
  BY <1>3, <1>4, <1>5

\* Among texts, the first can be printed.
LEMMA TextsTake ==
    ASSUME NEW s \in Seq(Responses)
    PROVE  /\ NoAnswer(s) => Texts(s) = s
           /\ NoAnswer(s) /\ s # <<>> => NoAnswer(Tail(s))
           /\ s # <<>> => \A h \in Seq(Responses) : Append(h, Head(s)) \o Tail(s) = h \o s
<1>1. CASE s = <<>>
  BY <1>1 DEF Texts
<1>2. CASE s # <<>>
  <2>1. /\ Head(s) \in Responses /\ Head(s) = s[1] /\ 1 \in DOMAIN s
        /\ Tail(s) \in Seq(Responses)
        /\ \A i \in DOMAIN Tail(s) : i + 1 \in DOMAIN s /\ Tail(s)[i] = s[i + 1]
    BY <1>2, TakeFacts
  <2>2. NoAnswer(s) => Texts(s) = s /\ NoAnswer(Tail(s))
    BY <2>1 DEF NoAnswer, Texts
  <2>3. ASSUME NEW h \in Seq(Responses) PROVE Append(h, Head(s)) \o Tail(s) = h \o s
    <3>1. Append(h, Head(s)) = h \o <<Head(s)>> /\ <<Head(s)>> \in Seq(Responses)
      BY <2>1, AppendIsConcat
    <3>2. (h \o <<Head(s)>>) \o Tail(s) = h \o (<<Head(s)>> \o Tail(s))
      BY <2>1, <3>1, ConcatAssociative
    <3>3. <<Head(s)>> \o Tail(s) = s
      BY <1>2, <2>1
    <3>4. QED
      BY <3>1, <3>2, <3>3
  <2>4. QED
    BY <1>2, <2>2, <2>3
<1>3. QED
  BY <1>1, <1>2

\* What is due comes to no text, or to one more.
LEMMA NothingDue == \A i : Faithful(<<>>, <<>>, i)
BY EmptyIsSeq DEF Faithful

LEMMA FaithfulPut ==
    ASSUME NEW got \in Seq(Responses), NEW due \in Seq(Responses), NEW i, NEW t \in Responses,
           Faithful(got, due, i)
    PROVE  /\ t.id = i => Faithful(got, Append(due, t), i)
           /\ (\A l \in DOMAIN due : due[l].text < t.text) =>
                Faithful(Append(got, t), Append(due, t), i)
<1>1. /\ DOMAIN due = 1 .. Len(due) /\ DOMAIN Append(due, t) = 1 .. Len(due) + 1
      /\ Len(due) \in Nat /\ Append(due, t)[Len(due) + 1] = t
      /\ \A l \in DOMAIN due : Append(due, t)[l] = due[l]
  BY PutFacts
<1>2. /\ DOMAIN got = 1 .. Len(got) /\ DOMAIN Append(got, t) = 1 .. Len(got) + 1
      /\ Len(got) \in Nat /\ Append(got, t)[Len(got) + 1] = t
      /\ \A l \in DOMAIN got : Append(got, t)[l] = got[l]
  BY PutFacts
<1>3. \A l \in DOMAIN Append(due, t) : l \in DOMAIN due \/ Append(due, t)[l] = t
  BY <1>1
<1>4. DOMAIN due \subseteq DOMAIN Append(due, t) /\ Len(due) + 1 \in DOMAIN Append(due, t)
  BY <1>1
<1>5. ASSUME t.id = i PROVE Faithful(got, Append(due, t), i)
  BY <1>1, <1>3, <1>4, <1>5 DEF Faithful
<1>6. ASSUME \A l \in DOMAIN due : due[l].text < t.text
      PROVE  Faithful(Append(got, t), Append(due, t), i)
  <2>1. ASSUME NEW k \in DOMAIN Append(got, t), NEW l \in DOMAIN Append(got, t), k < l
        PROVE  Append(got, t)[k].text < Append(got, t)[l].text
    <3>1. k \in DOMAIN got /\ Append(got, t)[k] = got[k]
      BY <1>2, <2>1
    <3>2. CASE l \in DOMAIN got
      BY <1>2, <2>1, <3>1, <3>2 DEF Faithful
    <3>3. CASE l \notin DOMAIN got
      <4>1. l = Len(got) + 1
        BY <1>2, <3>3
      <4>2. PICK j \in DOMAIN due : got[k] = due[j]
        BY <3>1 DEF Faithful
      <4>3. QED
        BY <1>2, <1>6, <3>1, <4>1, <4>2
    <3>4. QED
      BY <3>2, <3>3
  <2>2. DOMAIN got \subseteq DOMAIN Append(got, t) /\ Len(got) + 1 \in DOMAIN Append(got, t)
        /\ \A k \in DOMAIN Append(got, t) : k \in DOMAIN got \/ Append(got, t)[k] = t
    BY <1>2
  <2>3. \A k \in DOMAIN Append(got, t) :
          \E l \in DOMAIN Append(due, t) : Append(got, t)[k] = Append(due, t)[l]
    BY <1>1, <1>2, <1>4, <2>2 DEF Faithful
  <2>4. \A l \in DOMAIN Append(due, t) : Append(due, t)[l].id # i =>
          \E k \in DOMAIN Append(got, t) : Append(got, t)[k] = Append(due, t)[l]
    BY <1>1, <1>2, <1>3, <2>2 DEF Faithful
  <2>5. QED
    BY <2>1, <2>3, <2>4 DEF Faithful
<1>7. QED
  BY <1>5, <1>6

-----------------------------------------------------------------------------
(* Queues. *)

\* Queues stay, with their keys.
Stay == /\ Len(queues') = Len(queues) /\ DOMAIN queues' = DOMAIN queues
        /\ \A x \in DOMAIN queues : queues'[x].key = queues[x].key

LEMMA QueueTypes ==
    ASSUME QueuesOK
    PROVE  /\ Len(queues) \in Nat /\ DOMAIN queues = 1 .. Len(queues)
           /\ \A q \in DOMAIN queues : queues[q] \in QueueRecords
BY LenProperties, ElementOfSeq DEF QueuesOK

\* A change of one queue that keeps its key.
LEMMA ChangeFacts ==
    ASSUME QueuesOK, NEW q \in DOMAIN queues, NEW r \in QueueRecords,
           r.key = queues[q].key, Len(r.msgs) <= QueueCap,
           queues' = [queues EXCEPT ![q] = r]
    PROVE  /\ QueuesOK' /\ Stay /\ queues'[q] = r
           /\ \A x \in DOMAIN queues : x # q => queues'[x] = queues[x]
<1>1. /\ queues' \in Seq(QueueRecords) /\ Len(queues') = Len(queues)
      /\ \A x \in 1 .. Len(queues) : queues'[x] = IF x = q THEN r ELSE queues[x]
  BY QueueTypes, ExceptSeq DEF QueuesOK
<1>2. DOMAIN queues' = DOMAIN queues /\ DOMAIN queues = 1 .. Len(queues)
  BY <1>1, LenProperties DEF QueuesOK
<1>3. QED
  BY <1>1, <1>2 DEF QueuesOK, Stay

LEMMA SendFacts ==
    ASSUME QueuesOK, NEW q \in DOMAIN queues, NEW m \in Responses, CanSend(q), Send(q, m)
    PROVE  /\ QueuesOK' /\ Stay
           /\ \A x \in DOMAIN queues : x # q => queues'[x] = queues[x]
           /\ queues'[q].live = queues[q].live
           /\ queues'[q].msgs = IF Accepts(q) THEN Append(queues[q].msgs, m) ELSE queues[q].msgs
<1>1. queues[q] \in QueueRecords
  BY QueueTypes
<1>2. CASE Accepts(q)
  <2> DEFINE r == [queues[q] EXCEPT !.msgs = Append(@, m)]
  <2>1. /\ Append(queues[q].msgs, m) \in Seq(Responses)
        /\ Len(Append(queues[q].msgs, m)) = Len(queues[q].msgs) + 1
        /\ Len(queues[q].msgs) \in Nat
    BY <1>1, PutFacts DEF QueueRecords
  <2>2. r \in QueueRecords /\ r.key = queues[q].key /\ r.live = queues[q].live
        /\ r.msgs = Append(queues[q].msgs, m)
    BY <1>1, <2>1 DEF QueueRecords
  <2>3. Len(r.msgs) <= QueueCap
    BY <1>2, <2>1, <2>2, MsgAssumption DEF CanSend
  <2>4. queues' = [queues EXCEPT ![q] = r]
    BY <1>2 DEF Send
  <2> HIDE DEF r
  <2>5. QED
    BY <1>2, <2>2, <2>3, <2>4, ChangeFacts
<1>3. CASE ~Accepts(q)
  BY <1>3 DEF Send, QueuesOK, Stay
<1>4. QED
  BY <1>2, <1>3

LEMMA DequeueFacts ==
    ASSUME QueuesOK, NEW q \in DOMAIN queues, HasMessage(q), queues' = Dequeued(q)
    PROVE  /\ QueuesOK' /\ Stay
           /\ \A x \in DOMAIN queues : x # q => queues'[x] = queues[x]
           /\ queues'[q].live /\ queues'[q].msgs = Tail(queues[q].msgs)
           /\ queues[q].live /\ queues[q].msgs # <<>>
           /\ queues[q].msgs \in Seq(Responses) /\ Head(queues[q].msgs) \in Responses
<1> DEFINE r == [queues[q] EXCEPT !.msgs = Tail(@)]
<1>1. queues[q] \in QueueRecords /\ queues[q].live /\ queues[q].msgs # <<>>
  BY QueueTypes DEF HasMessage
<1>2. /\ Tail(queues[q].msgs) \in Seq(Responses) /\ Head(queues[q].msgs) \in Responses
      /\ Len(Tail(queues[q].msgs)) = Len(queues[q].msgs) - 1
      /\ Len(queues[q].msgs) \in Nat
  BY <1>1, TakeFacts DEF QueueRecords
<1>3. r \in QueueRecords /\ r.key = queues[q].key /\ r.live = queues[q].live
      /\ r.msgs = Tail(queues[q].msgs)
  BY <1>1, <1>2 DEF QueueRecords
<1>4. Len(r.msgs) <= QueueCap
  BY <1>2, <1>3, MsgAssumption DEF QueuesOK
<1>5. queues' = [queues EXCEPT ![q] = r]
  BY DEF Dequeued
<1> HIDE DEF r
<1>6. QED
  BY <1>1, <1>2, <1>3, <1>4, <1>5, ChangeFacts DEF QueueRecords

LEMMA RemoveFacts ==
    ASSUME QueuesOK, NEW q \in DOMAIN queues, RemoveQueue(q)
    PROVE  /\ QueuesOK' /\ Stay
           /\ \A x \in DOMAIN queues : x # q => queues'[x] = queues[x]
           /\ ~queues'[q].live /\ queues'[q].msgs = <<>>
<1> DEFINE r == [queues[q] EXCEPT !.live = FALSE, !.msgs = <<>>]
<1>1. queues[q] \in QueueRecords
  BY QueueTypes
<1>2. r \in QueueRecords /\ r.key = queues[q].key /\ ~r.live /\ r.msgs = <<>>
  BY <1>1, EmptyIsSeq DEF QueueRecords
<1>3. Len(r.msgs) <= QueueCap
  BY <1>2, EmptyIsSeq, MsgAssumption
<1>4. queues' = [queues EXCEPT ![q] = r]
  BY QueueTypes DEF RemoveQueue, QueuesOK
<1> HIDE DEF r
<1>5. QED
  BY <1>2, <1>3, <1>4, ChangeFacts

LEMMA NewFacts ==
    ASSUME QueuesOK, NEW key \in Keys \cup {IPC_PRIVATE}, queues' = Append(queues, NewQueue(key))
    PROVE  /\ QueuesOK' /\ Len(queues') = Len(queues) + 1
           /\ Len(queues) \in Nat /\ DOMAIN queues = 1 .. Len(queues)
           /\ DOMAIN queues' = 1 .. Len(queues) + 1
           /\ \A x \in DOMAIN queues : queues'[x] = queues[x]
           /\ queues'[Len(queues) + 1] = NewQueue(key)
<1>1. NewQueue(key) \in QueueRecords /\ Len(NewQueue(key).msgs) = 0
  BY EmptyIsSeq DEF NewQueue, QueueRecords
<1>2. /\ queues' \in Seq(QueueRecords) /\ Len(queues') = Len(queues) + 1
      /\ Len(queues) \in Nat /\ DOMAIN queues = 1 .. Len(queues)
      /\ DOMAIN queues' = 1 .. Len(queues) + 1
      /\ \A x \in DOMAIN queues : queues'[x] = queues[x]
      /\ queues'[Len(queues) + 1] = NewQueue(key)
  BY <1>1, PutFacts DEF QueuesOK
<1>3. \A x \in DOMAIN queues' : Len(queues'[x].msgs) <= QueueCap
  BY <1>1, <1>2, MsgAssumption DEF QueuesOK
<1>4. QED
  BY <1>2, <1>3 DEF QueuesOK

-----------------------------------------------------------------------------
(* The variables one by one. *)

\* Who sends to the server, and what it takes.
LEMMA InboxPut ==
    ASSUME InboxOK, NEW m \in Messages, ~m.init => m.text # YourId, SendToServer(m)
    PROVE  /\ InboxOK'
           /\ DOMAIN inbox' = DOMAIN inbox \cup {Len(inbox) + 1} /\ Len(inbox) + 1 \notin DOMAIN inbox
           /\ inbox'[Len(inbox) + 1] = m
           /\ \A n \in DOMAIN inbox : inbox'[n] = inbox[n]
<1>1. /\ inbox' = Append(inbox, m) /\ Len(inbox) < QueueCap
  BY DEF SendToServer
<1>2. /\ inbox' \in Seq(Messages) /\ Len(inbox') = Len(inbox) + 1
      /\ DOMAIN inbox = 1 .. Len(inbox) /\ DOMAIN inbox' = 1 .. Len(inbox) + 1
      /\ Len(inbox) \in Nat
      /\ \A n \in DOMAIN inbox : inbox'[n] = inbox[n]
      /\ inbox'[Len(inbox) + 1] = m
  BY <1>1, PutFacts DEF InboxOK
<1>3. /\ DOMAIN inbox' = DOMAIN inbox \cup {Len(inbox) + 1} /\ Len(inbox) + 1 \notin DOMAIN inbox
      /\ Len(inbox') <= QueueCap
  BY <1>1, <1>2, MsgAssumption
<1>4. QED
  BY <1>2, <1>3 DEF InboxOK

LEMMA InboxPopped ==
    ASSUME InboxOK, inbox # <<>>, inbox' = Tail(inbox)
    PROVE  /\ InboxOK'
           /\ Head(inbox) \in Messages /\ Head(inbox) = inbox[1] /\ 1 \in DOMAIN inbox
           /\ \A n \in DOMAIN inbox' : /\ n + 1 \in DOMAIN inbox /\ inbox'[n] = inbox[n + 1]
                                       /\ n \in Nat \ {0}
           /\ ~Head(inbox).init => Head(inbox).text # YourId
<1>1. /\ Head(inbox) \in Messages /\ Head(inbox) = inbox[1] /\ 1 \in DOMAIN inbox
      /\ inbox' \in Seq(Messages) /\ Len(inbox') = Len(inbox) - 1 /\ Len(inbox) \in Nat
      /\ DOMAIN inbox' = 1 .. Len(inbox) - 1
      /\ \A n \in DOMAIN inbox' : n + 1 \in DOMAIN inbox /\ inbox'[n] = inbox[n + 1]
  BY TakeFacts DEF InboxOK
<1>2. Len(inbox') <= QueueCap /\ \A n \in DOMAIN inbox' : n \in Nat \ {0}
  BY <1>1, MsgAssumption DEF InboxOK
<1>3. QED
  BY <1>1, <1>2 DEF InboxOK

\* Entries are typed, and stay so if the queues stay.
LEMMA EntryTypes ==
    ASSUME EntriesOK
    PROVE  /\ Len(clients) \in Nat /\ DOMAIN clients = 1 .. Len(clients)
           /\ \A i \in DOMAIN clients : /\ clients[i] \in ClientRecords
                                        /\ clients[i].due \in Seq(Responses)
                                        /\ clients[i].client_id = i
                                        /\ clients[i].queue_id \in DOMAIN queues
<1>1. \A i \in DOMAIN clients : clients[i] \in ClientRecords
  BY ElementOfSeq, LenProperties DEF EntriesOK
<1>2. QED
  BY <1>1, LenProperties DEF EntriesOK, ClientRecords

LEMMA EntriesKept ==
    ASSUME EntriesOK, clients' = clients, DOMAIN queues \subseteq DOMAIN queues'
    PROVE  EntriesOK'
  BY DEF EntriesOK

\* The clients do nothing.
LEMMA ClientsKept ==
    ASSUME ClientsOK, clientSide' = clientSide,
           Len(queues) \in Nat, Len(queues') \in Nat, Len(queues) <= Len(queues')
    PROVE  ClientsOK'
<1>1. queue' \in [Procs -> 0 .. Len(queues')]
  BY DEF ClientsOK, clientSide
<1>2. QED
  BY <1>1 DEF ClientsOK, clientSide

\* Keys are announced by those who have them.
LEMMA KeysKept ==
    ASSUME KeysOK, ClientsOK, QueuesOK, Stay, queue' = queue,
           \A n \in DOMAIN inbox' :
               \/ \E k \in DOMAIN inbox : inbox'[n] = inbox[k]
               \/ inbox'[n].key = IPC_PRIVATE
               \/ \E q \in DOMAIN queues : queues[q].key = inbox'[n].key
    PROVE  KeysOK'
<1>1. \A p \in Procs : queue[p] # 0 => queue[p] \in DOMAIN queues
  BY QueueTypes DEF ClientsOK
<1>2. \A q \in DOMAIN queues' : queues'[q].key # IPC_PRIVATE => \E p \in Procs : queue'[p] = q
  BY DEF KeysOK, Stay
<1>3. \A p \in Procs : queue'[p] # 0 => queues'[queue'[p]].key \in Keys
  BY <1>1 DEF KeysOK, Stay
<1>4. ASSUME NEW n \in DOMAIN inbox', inbox'[n].init, inbox'[n].key \in Keys
      PROVE  \E q \in DOMAIN queues' : queues'[q].key = inbox'[n].key
  <2>1. \E q \in DOMAIN queues : queues[q].key = inbox'[n].key
    BY <1>4, MsgAssumption DEF KeysOK
  <2>2. QED
    BY <2>1 DEF Stay
<1>5. QED
  BY <1>2, <1>3, <1>4 DEF KeysOK

-----------------------------------------------------------------------------
(* A client that is alone with its key. *)

LEMMA AloneQueue ==
    ASSUME ProgramsOK, NEW p \in Procs, Alone(p)
    PROVE  /\ queue[p] \in DOMAIN queues /\ queues[queue[p]] \in QueueRecords
           /\ queues[queue[p]].key \in Keys /\ Box(p) \in Seq(Responses)
           /\ \A r \in Procs : queue[r] = queue[p] => r = p
           /\ \A q \in DOMAIN queues : queues[q].key = queues[queue[p]].key => q = queue[p]
<1>1. queue[p] \in DOMAIN queues /\ queue[p] # 0
  BY QueueTypes DEF Alone, ProgramsOK, ClientsOK
<1>2. queues[queue[p]] \in QueueRecords /\ Box(p) \in Seq(Responses)
  BY <1>1, QueueTypes DEF ProgramsOK, QueueRecords, Box
<1>3. \A r \in Procs : queue[r] = queue[p] => r = p
  BY <1>1 DEF Alone
<1>4. queues[queue[p]].key \in Keys
  BY <1>1 DEF ProgramsOK, KeysOK
<1>5. ASSUME NEW q \in DOMAIN queues, queues[q].key = queues[queue[p]].key
      PROVE  q = queue[p]
  <2>1. PICK r \in Procs : queue[r] = q
    BY <1>4, <1>5, MsgAssumption DEF ProgramsOK, KeysOK
  <2>2. q # 0
    BY QueueTypes DEF ProgramsOK
  <2>3. QED
    BY <1>5, <2>1, <2>2 DEF Alone
<1>6. QED
  BY <1>1, <1>2, <1>3, <1>4, <1>5

LEMMA AloneKept ==
    ASSUME ProgramsOK, Stay, queue' = queue
    PROVE  /\ \A p \in Procs : Alone(p)' <=> Alone(p)
           /\ \A p \in Procs : queue[p] # 0 => queues'[queue'[p]].key = queues[queue[p]].key
<1>1. \A p \in Procs : queue[p] # 0 => queue[p] \in DOMAIN queues
  BY QueueTypes DEF ProgramsOK, ClientsOK
<1>2. QED
  BY <1>1 DEF Alone, Stay

\* Its entry, if nothing it depends on has changed.
LEMMA EntryKept ==
    ASSUME NEW p \in Procs, NEW i, EntryOK(i, p),
           queue'[p] = queue[p], Box(p)' = Box(p),
           queues'[queue[p]].live => queues[queue[p]].live,
           child'[p] = child[p], id'[p] = id[p], heard'[p] = heard[p],
           clients'[i].due = clients[i].due, Replying(i)' <=> Replying(i), Pending(i)' = Pending(i)
    PROVE  EntryOK(i, p)'
  BY DEF EntryOK

LEMMA OrderKept ==
    ASSUME NEW p \in Procs, InOrder(p),
           queue'[p] = queue[p], Entries(p)' = Entries(p),
           Entries(p) = {} => Box(p)' = Box(p),
           main'[p] = "announce" => main[p] = "announce",
           child'[p] = child[p], heard'[p] = heard[p],
           Calls(p)' # {} => Calls(p) # {}, \A m, n \in Calls(p)' : m = n,
           \A i \in Entries(p) : EntryOK(i, p)'
    PROVE  InOrder(p)'
<1>1. Unknown(p) => Unknown(p)'
  BY DEF Unknown
<1>2. QED
  BY <1>1 DEF InOrder

LEMMA CallsKept ==
    ASSUME NEW p \in Procs, InOrder(p), queues'[queue'[p]].key = queues[queue[p]].key,
           inbox' = inbox \/ (InboxOK /\ inbox # <<>> /\ inbox' = Tail(inbox))
    PROVE  /\ Calls(p)' # {} => Calls(p) # {}
           /\ \A m, n \in Calls(p)' : m = n
           /\ InboxOK /\ inbox # <<>> /\ inbox' = Tail(inbox) =>
                (1 \in Calls(p) => Calls(p)' = {})
<1>1. ASSUME inbox' = inbox
      PROVE  /\ Calls(p)' # {} => Calls(p) # {}
             /\ \A m, n \in Calls(p)' : m = n
  BY <1>1 DEF Calls, InOrder
<1>2. CASE InboxOK /\ inbox # <<>> /\ inbox' = Tail(inbox)
  <2>1. \A n \in Calls(p)' : n + 1 \in Calls(p) /\ n \in Nat \ {0}
    BY <1>2, InboxPopped DEF Calls
  <2>2. \A m, n \in Calls(p) : m = n
    BY DEF InOrder
  <2> HIDE DEF Calls
  <2>3. \A m, n \in Calls(p)' : m = n
    BY <2>1, <2>2
  <2>4. 1 \in Calls(p) => Calls(p)' = {}
    BY <2>1, <2>2
  <2>5. QED
    BY <2>1, <2>3, <2>4
<1>3. QED
  BY <1>1, <1>2

\* One that a step does not concern.
LEMMA Bystander ==
    ASSUME NEW p \in Procs, InOrder(p),
           queue'[p] = queue[p], queues'[queue[p]] = queues[queue[p]],
           main'[p] = "announce" => main[p] = "announce",
           child'[p] = child[p], heard'[p] = heard[p], id'[p] = id[p],
           Calls(p)' # {} => Calls(p) # {}, \A m, n \in Calls(p)' : m = n,
           UNCHANGED <<clients, server>>
    PROVE  InOrder(p)'
<1>1. Box(p)' = Box(p) /\ Entries(p)' = Entries(p)
  BY DEF Box, Entries
<1>2. \A i : (Replying(i)' <=> Replying(i)) /\ Pending(i)' = Pending(i)
  BY DEF Replying, Pending
<1>3. \A i \in Entries(p) : EntryOK(i, p)'
  BY <1>1, <1>2, EntryKept DEF InOrder
<1>4. QED
  BY <1>1, <1>3, OrderKept

-----------------------------------------------------------------------------
(* The steps of the server. *)

LEMMA NoText == [id |-> 0, text |-> YourId] \in Responses
BY DEF Responses

\* The inbox is read and nothing else is done: the announcement of a client beyond
\* the last slot, or of a queue that is gone.
LEMMA RejectStep ==
    ASSUME MsgInv, inbox # <<>>, inbox' = Tail(inbox),
           UNCHANGED <<queues, clients, server, restarts, clientSide>>
    PROVE  MsgInv'
<1>1. ProgramsOK
  BY DEF MsgInv
<1>2. InboxOK' /\ \A n \in DOMAIN inbox' : \E k \in DOMAIN inbox : inbox'[n] = inbox[k]
  BY <1>1, InboxPopped DEF ProgramsOK
<1>3. QueuesOK' /\ EntriesOK' /\ LoopOK' /\ ClientsOK' /\ Stay /\ queue' = queue
  BY <1>1 DEF ProgramsOK, QueuesOK, EntriesOK, LoopOK, ClientsOK, Stay, clientSide
<1>4. KeysOK'
  BY <1>1, <1>2, <1>3, KeysKept DEF ProgramsOK
<1>5. ASSUME NEW p \in Procs, Alone(p)' PROVE InOrder(p)'
  <2>1. Alone(p) /\ InOrder(p) /\ queues'[queue'[p]].key = queues[queue[p]].key
    BY <1>1, <1>3, <1>5, AloneKept DEF MsgInv, Alone
  <2>2. /\ Calls(p)' # {} => Calls(p) # {}
        /\ \A m, n \in Calls(p)' : m = n
    BY <1>1, <2>1, CallsKept DEF ProgramsOK
  <2>3. QED
    BY <1>3, <2>1, <2>2, Bystander DEF clientSide
<1>6. QED
  BY <1>2, <1>3, <1>4, <1>5 DEF MsgInv, ProgramsOK

\* The client whose queue q is goes into the table; a client alone with its key was
\* Unknown, and its call is answered.
LEMMA EnterStep ==
    ASSUME MsgInv, server.pc = "recv", inbox # <<>>, inbox' = Tail(inbox),
           Head(inbox).init, Len(clients) < MAX_CLIENTS,
           NEW n \in Nat, n = Len(clients) + 1, NEW q, q \in DOMAIN queues',
           clients' = Append(clients, [client_id |-> n, queue_id |-> q, due |-> <<>>]),
           server' = [Idle EXCEPT !.pc = "reply", !.to = n],
           QueuesOK', Len(queues) <= Len(queues'), DOMAIN queues \subseteq DOMAIN queues',
           \A x \in DOMAIN queues : queues'[x] = queues[x],
           \A x \in DOMAIN queues' : x \in DOMAIN queues \/ queues'[x].key = IPC_PRIVATE,
           q \in DOMAIN queues => queues[q].key = Head(inbox).key,
           UNCHANGED <<restarts, clientSide>>
    PROVE  MsgInv'
<1> DEFINE e == [client_id |-> n, queue_id |-> q, due |-> <<>>]
<1>1. ProgramsOK
  BY DEF MsgInv
<1>2. /\ InboxOK' /\ Head(inbox) = inbox[1] /\ 1 \in DOMAIN inbox
      /\ \A k \in DOMAIN inbox' : \E l \in DOMAIN inbox : inbox'[k] = inbox[l]
  BY <1>1, InboxPopped DEF ProgramsOK
<1>3. Len(clients) \in Nat /\ DOMAIN clients = 1 .. Len(clients)
  BY <1>1, EntryTypes DEF ProgramsOK
<1>4. Len(queues') \in Nat /\ DOMAIN queues' = 1 .. Len(queues')
      /\ Len(queues) \in Nat /\ DOMAIN queues = 1 .. Len(queues)
  BY <1>1, LenProperties DEF ProgramsOK, QueuesOK
<1>5. e \in ClientRecords
  BY <1>3, <1>4, EmptyIsSeq DEF ClientRecords
<1>6. /\ clients' \in Seq(ClientRecords) /\ Len(clients') = n
      /\ DOMAIN clients' = 1 .. n
      /\ \A i \in DOMAIN clients : clients'[i] = clients[i]
      /\ clients'[n] = e
  <2> HIDE DEF e
  <2>1. clients \in Seq(ClientRecords) /\ clients' = Append(clients, e)
    BY <1>1 DEF ProgramsOK, EntriesOK, e
  <2>2. QED
    BY <1>5, <2>1, PutFacts
<1>7. DOMAIN clients' = DOMAIN clients \cup {n} /\ n \notin DOMAIN clients /\ n \in Nat
  BY <1>3, <1>6
<1>8. EntriesOK'
  <2>1. Len(clients') <= MAX_CLIENTS
    BY <1>3, <1>6, MsgAssumption
  <2>2. \A i \in DOMAIN clients' : clients'[i].client_id = i /\ clients'[i].queue_id \in DOMAIN queues'
    BY <1>1, <1>6, <1>7 DEF ProgramsOK, EntriesOK
  <2>3. QED
    BY <1>6, <2>1, <2>2 DEF EntriesOK
<1>9. /\ server' = [pc |-> "reply", to |-> n, text |-> [id |-> 0, text |-> YourId]]
      /\ LoopOK'
  <2>1. server' = [pc |-> "reply", to |-> n, text |-> [id |-> 0, text |-> YourId]]
    BY DEF Idle
  <2>2. server'.pc = "reply" /\ server'.to = n
    BY <2>1
  <2>3. server' \in [pc : {"recv", "reply", "broadcast"}, to : Nat, text : Responses]
    BY <1>7, <2>1, NoText
  <2>4. n # 0 /\ n = Len(clients') /\ n <= Len(clients') + 1
    BY <1>3, <1>6
  <2>5. QED
    BY <2>1, <2>2, <2>3, <2>4 DEF LoopOK
<1>10. ClientsOK' /\ queue' = queue
  BY <1>1, <1>4, ClientsKept DEF ProgramsOK, clientSide
<1>11. \A p \in Procs : queue[p] # 0 => queue[p] \in DOMAIN queues
  BY <1>1, <1>4 DEF ProgramsOK, ClientsOK
<1>12. KeysOK'
  <2>1. \A x \in DOMAIN queues' : queues'[x].key # IPC_PRIVATE => \E p \in Procs : queue'[p] = x
    BY <1>1, <1>10 DEF ProgramsOK, KeysOK
  <2>2. \A p \in Procs : queue'[p] # 0 => queues'[queue'[p]].key \in Keys
    BY <1>1, <1>10, <1>11 DEF ProgramsOK, KeysOK
  <2>3. ASSUME NEW k \in DOMAIN inbox', inbox'[k].init, inbox'[k].key \in Keys
        PROVE  \E x \in DOMAIN queues' : queues'[x].key = inbox'[k].key
    <3>1. PICK l \in DOMAIN inbox : inbox'[k] = inbox[l]
      BY <1>2
    <3>2. PICK x \in DOMAIN queues : queues[x].key = inbox[l].key
      BY <1>1, <2>3, <3>1, SMTT(30) DEF ProgramsOK, KeysOK
    <3>3. x \in DOMAIN queues' /\ queues'[x] = queues[x]
      OBVIOUS
    <3>4. QED
      BY <3>1, <3>2, <3>3
  <2>4. QED
    BY <2>1, <2>2, <2>3 DEF KeysOK
<1>13. ASSUME NEW p \in Procs, Alone(p)' PROVE InOrder(p)'
  <2>1. Alone(p) /\ InOrder(p) /\ queue[p] \in DOMAIN queues
    BY <1>10, <1>11, <1>13 DEF MsgInv, Alone
  <2>2. queues'[queue'[p]] = queues[queue[p]] /\ Box(p)' = Box(p)
    BY <1>10, <2>1 DEF Box
  <2>3. /\ Calls(p)' # {} => Calls(p) # {}
        /\ \A k, l \in Calls(p)' : k = l
        /\ 1 \in Calls(p) => Calls(p)' = {}
    BY <1>1, <2>1, <2>2, CallsKept DEF ProgramsOK
  <2>4. UNCHANGED <<main, child, id, heard>>
    BY DEF clientSide
  <2>5. CASE q = queue[p]
    <3>1. 1 \in Calls(p)
      BY <1>2, <2>1, <2>5 DEF Calls
    <3>2. Unknown(p) /\ main[p] # "announce" /\ Calls(p)' = {}
      BY <2>1, <2>3, <3>1 DEF InOrder
    <3>3. Entries(p)' = {n}
      BY <1>6, <1>7, <1>10, <2>5, <3>2 DEF Entries, Unknown
    <3>4. EntryOK(n, p)'
      <4>1. Replying(n)' /\ clients'[n].due = <<>>
        <5>1. server'.pc = "reply" /\ server'.to = n
          BY <1>9
        <5>2. Replying(n)'
          BY <5>1 DEF Replying
        <5>3. QED
          BY <1>6, <5>2
      <4>2. QED
        BY <1>9, <2>2, <2>4, <3>2, <4>1 DEF EntryOK, Unknown, Replying
    <3>5. heard'[p] = <<>>
      BY <2>1, <2>4, <3>2 DEF InOrder, Unknown
    <3>6. ASSUME NEW i \in Entries(p)' PROVE i = n /\ EntryOK(i, p)'
      BY <3>3, <3>4, <3>6
    <3>7. QED
      BY <2>4, <3>2, <3>3, <3>5, <3>6 DEF InOrder
  <2>6. CASE q # queue[p]
    <3>1. Entries(p)' = Entries(p)
      BY <1>6, <1>7, <1>10, <2>6 DEF Entries
    <3>2. ASSUME NEW i \in Entries(p) PROVE EntryOK(i, p)'
      <4>1. i \in DOMAIN clients /\ i # n
        BY <1>7 DEF Entries
      <4>2. ~Replying(i) /\ ~Replying(i)' /\ Pending(i) = <<>> /\ Pending(i)' = <<>>
        BY <1>9, <4>1 DEF Replying, Pending
      <4>3. EntryOK(i, p) /\ clients'[i].due = clients[i].due
        BY <1>6, <2>1, <4>1 DEF InOrder
      <4>4. QED
        BY <1>10, <2>2, <2>4, <4>2, <4>3, EntryKept
    <3>3. QED
      BY <1>10, <2>1, <2>2, <2>3, <2>4, <3>1, <3>2, OrderKept
  <2>7. QED
    BY <2>5, <2>6
<1>14. QED
  BY <1>2, <1>8, <1>9, <1>10, <1>12, <1>13 DEF MsgInv, ProgramsOK

LEMMA TakeInitStep == ASSUME MsgInv, TakeInit PROVE MsgInv'
<1> DEFINE m == Head(inbox)
<1>1. ProgramsOK
  BY DEF MsgInv
<1>2. /\ server.pc = "recv" /\ inbox # <<>> /\ inbox' = Tail(inbox) /\ m.init
      /\ UNCHANGED <<restarts, clientSide>>
  BY DEF TakeInit
<1>3. m \in Messages /\ Len(clients) \in Nat /\ Len(queues) \in Nat
  BY <1>1, <1>2, InboxPopped, EntryTypes, QueueTypes DEF ProgramsOK
<1> HIDE DEF m
<1> PICK n \in Nat : n = Len(clients) + 1
  BY <1>3
<1>4. CASE Rejects(m)
  <2>1. UNCHANGED <<queues, clients, server>>
    BY <1>4 DEF TakeInit, m
  <2>2. QED
    BY <1>2, <2>1, RejectStep
<1>5. CASE ~Rejects(m)
  <2>1. Len(clients) < MAX_CLIENTS
    BY <1>3, <1>5, MsgAssumption DEF Rejects
  <2>2. server' = [Idle EXCEPT !.pc = "reply", !.to = Len(clients) + 1]
    BY <1>5 DEF TakeInit, m
  <2>3. CASE m.key = IPC_PRIVATE
    <3>1. /\ queues' = Append(queues, NewQueue(IPC_PRIVATE))
          /\ clients' = Append(clients, [client_id |-> Len(clients) + 1,
                                         queue_id |-> Len(queues) + 1, due |-> <<>>])
      BY <1>5, <2>3 DEF TakeInit, m
    <3>2. /\ QueuesOK' /\ Len(queues') = Len(queues) + 1
          /\ DOMAIN queues = 1 .. Len(queues)
          /\ DOMAIN queues' = 1 .. Len(queues) + 1
          /\ \A x \in DOMAIN queues : queues'[x] = queues[x]
          /\ queues'[Len(queues) + 1].key = IPC_PRIVATE
      BY <1>1, <3>1, NewFacts DEF ProgramsOK, NewQueue
    <3>3. /\ Len(queues) <= Len(queues') /\ DOMAIN queues \subseteq DOMAIN queues'
          /\ Len(queues) + 1 \in DOMAIN queues' /\ Len(queues) + 1 \notin DOMAIN queues
          /\ \A x \in DOMAIN queues' : x \in DOMAIN queues \/ x = Len(queues) + 1
      BY <1>3, <3>2
    <3>4. \A x \in DOMAIN queues' : x \in DOMAIN queues \/ queues'[x].key = IPC_PRIVATE
      BY <3>2, <3>3
    <3>5. QED
      BY <1>2, <2>1, <2>2, <3>1, <3>2, <3>3, <3>4, EnterStep DEF m
  <2>4. CASE m.key # IPC_PRIVATE
    <3>1. PICK q \in At(m.key) :
            clients' = Append(clients, [client_id |-> Len(clients) + 1,
                                        queue_id |-> q, due |-> <<>>])
      BY <1>5, <2>4 DEF TakeInit, m
    <3>2. queues' = queues
      BY <1>5, <2>4 DEF TakeInit, m
    <3>3. q \in DOMAIN queues /\ queues[q].key = Head(inbox).key
      BY <3>1 DEF At, m
    <3>4. /\ QueuesOK' /\ Len(queues) <= Len(queues') /\ DOMAIN queues' = DOMAIN queues
          /\ \A x \in DOMAIN queues : queues'[x] = queues[x]
      BY <1>1, <1>3, <3>2 DEF ProgramsOK, QueuesOK
    <3>5. q \in DOMAIN queues' /\ \A x \in DOMAIN queues' : x \in DOMAIN queues
      BY <3>3, <3>4
    <3>6. clients' = Append(clients, [client_id |-> n, queue_id |-> q, due |-> <<>>])
      BY <3>1
    <3>7. QED
      BY <1>2, <2>1, <2>2, <3>3, <3>4, <3>5, <3>6, EnterStep DEF m
  <2>5. QED
    BY <2>3, <2>4
<1>6. QED
  BY <1>4, <1>5

\* A step of the server that keeps the entries, if it keeps what each stands for.
LEMMA ServerSide ==
    ASSUME MsgInv, QueuesOK', Stay, EntriesOK', LoopOK', UNCHANGED clientSide,
           inbox' = inbox \/ (inbox # <<>> /\ inbox' = Tail(inbox)),
           \A p \in Procs : Alone(p) /\ InOrder(p) =>
               /\ Entries(p)' = Entries(p) /\ (Entries(p) = {} => Box(p)' = Box(p))
               /\ \A i \in Entries(p) : EntryOK(i, p)'
    PROVE  MsgInv'
<1>1. ProgramsOK
  BY DEF MsgInv
<1>2. InboxOK' /\ \A n \in DOMAIN inbox' : \E k \in DOMAIN inbox : inbox'[n] = inbox[k]
  <2>1. CASE inbox' = inbox
    BY <1>1, <2>1 DEF ProgramsOK, InboxOK
  <2>2. CASE inbox # <<>> /\ inbox' = Tail(inbox)
    BY <1>1, <2>2, InboxPopped DEF ProgramsOK
  <2>3. QED
    BY <2>1, <2>2
<1>3. ClientsOK'
  BY <1>1, QueueTypes, ClientsKept DEF ProgramsOK, Stay
<1>4. UNCHANGED <<queue, main, child, id, heard>>
  BY DEF clientSide
<1>5. KeysOK'
  BY <1>1, <1>2, <1>4, KeysKept DEF ProgramsOK
<1>6. ASSUME NEW p \in Procs, Alone(p)' PROVE InOrder(p)'
  <2>1. Alone(p) /\ InOrder(p) /\ queues'[queue'[p]].key = queues[queue[p]].key
    BY <1>1, <1>4, <1>6, AloneKept DEF MsgInv, Alone
  <2>2. /\ Calls(p)' # {} => Calls(p) # {}
        /\ \A m, n \in Calls(p)' : m = n
    BY <1>1, <2>1, CallsKept DEF ProgramsOK
  <2>3. QED
    BY <1>4, <2>1, <2>2, OrderKept
<1>7. QED
  BY <1>2, <1>3, <1>5, <1>6 DEF MsgInv, ProgramsOK

\* The queue of an entry is that of no other client that is alone.
LEMMA OwnEntry ==
    ASSUME EntriesOK, NEW p \in Procs, InOrder(p), NEW k \in DOMAIN clients
    PROVE  /\ Entries(p) = {} => clients[k].queue_id # queue[p]
           /\ \A i \in Entries(p) : i # k => clients[k].queue_id # queue[p]
           /\ \A i \in Entries(p) : /\ i \in DOMAIN clients /\ i \in Nat \ {0} /\ i <= Len(clients)
                                    /\ clients[i].queue_id = queue[p] /\ clients[i].client_id = i
                                    /\ clients[i].due \in Seq(Responses)
<1>1. /\ DOMAIN clients = 1 .. Len(clients) /\ Len(clients) \in Nat
      /\ \A i \in DOMAIN clients : clients[i].due \in Seq(Responses) /\ clients[i].client_id = i
  BY EntryTypes
<1>2. clients[k].queue_id = queue[p] => k \in Entries(p)
  BY DEF Entries
<1>3. \A i \in Entries(p) : i \in DOMAIN clients /\ clients[i].queue_id = queue[p]
  BY DEF Entries
<1>4. \A i, j \in Entries(p) : i = j
  BY DEF InOrder
<1>5. QED
  BY <1>1, <1>2, <1>3, <1>4

LEMMA ReplyStep == ASSUME MsgInv, Reply PROVE MsgInv'
<1>1. ProgramsOK
  BY DEF MsgInv
<1>2. PICK k \in Nat : k = server.to
  BY <1>1 DEF ProgramsOK, LoopOK
<1>3. /\ server.pc = "reply" /\ server' = Idle
      /\ UNCHANGED <<inbox, clients, restarts, clientSide>>
  BY DEF Reply
<1>4. k \in DOMAIN clients /\ clients[k].client_id = k /\ clients[k].queue_id \in DOMAIN queues
  BY <1>1, <1>2, <1>3, EntryTypes DEF ProgramsOK, LoopOK
<1>5. PICK q \in DOMAIN queues : q = clients[k].queue_id
  BY <1>4
<1> DEFINE m == [id |-> k, text |-> YourId]
<1>6. m \in Responses /\ m.text = YourId
  BY DEF Responses
<1>7. CanSend(q) /\ Send(q, m)
  BY <1>2, <1>4, <1>5 DEF Reply
<1>8. /\ QueuesOK' /\ Stay
      /\ \A x \in DOMAIN queues : x # q => queues'[x] = queues[x]
      /\ queues'[q].live = queues[q].live
      /\ queues'[q].msgs = IF Accepts(q) THEN Append(queues[q].msgs, m) ELSE queues[q].msgs
  BY <1>1, <1>6, <1>7, SendFacts DEF ProgramsOK
<1> HIDE DEF m
<1>9. EntriesOK'
  BY <1>1, <1>3, <1>8, EntriesKept DEF ProgramsOK, Stay
<1>10. LoopOK'
  <2>1. server'.pc = "recv" /\ server'.to = 0
    BY <1>3 DEF Idle
  <2>2. server' \in [pc : {"recv", "reply", "broadcast"}, to : Nat, text : Responses]
    BY <1>3, NoText DEF Idle
  <2>3. 0 <= Len(clients') + 1
    BY <1>1, <1>3, EntryTypes DEF ProgramsOK
  <2>4. QED
    BY <2>1, <2>2, <2>3 DEF LoopOK
<1>11. UNCHANGED <<queue, main, child, id, heard, clients>>
  BY <1>3 DEF clientSide
<1>12. \A i : ~Replying(i)' /\ Pending(i) = <<>> /\ Pending(i)' = <<>>
  BY <1>3 DEF Replying, Pending, Idle
<1>13. ASSUME NEW p \in Procs, Alone(p), InOrder(p)
       PROVE  /\ Entries(p)' = Entries(p) /\ (Entries(p) = {} => Box(p)' = Box(p))
              /\ \A i \in Entries(p) : EntryOK(i, p)'
  <2>1. Entries(p)' = Entries(p)
    BY <1>11 DEF Entries
  <2>2. /\ queue[p] \in DOMAIN queues /\ queues[queue[p]].key \in Keys
    BY <1>1, <1>13, AloneQueue
  <2>3. q # queue[p] => queues'[queue[p]] = queues[queue[p]] /\ Box(p)' = Box(p)
    BY <1>8, <1>11, <2>2 DEF Box
  <2>4. /\ Entries(p) = {} => q # queue[p]
        /\ \A i \in Entries(p) : i # k => q # queue[p]
        /\ \A i \in Entries(p) : clients[i].queue_id = queue[p]
    BY <1>1, <1>4, <1>5, <1>13, OwnEntry DEF ProgramsOK
  <2>5. ASSUME NEW i \in Entries(p), i # k PROVE EntryOK(i, p)'
    <3>1. EntryOK(i, p) /\ ~Replying(i)
      BY <1>2, <1>13, <2>5 DEF InOrder, Replying
    <3>2. QED
      BY <1>11, <1>12, <2>3, <2>4, <2>5, <3>1, EntryKept
  <2>6. ASSUME k \in Entries(p) PROVE EntryOK(k, p)'
    <3>1. q = queue[p] /\ Replying(k) /\ EntryOK(k, p)
      BY <1>2, <1>3, <1>5, <1>13, <2>4, <2>6 DEF InOrder, Replying
    <3>2. Box(p) = <<>> /\ child[p] = "none" /\ clients[k].due = <<>> /\ heard[p] = <<>>
      BY <1>13, <3>1 DEF EntryOK, InOrder
    <3>3. ASSUME queues'[queue'[p]].live PROVE Box(p)' = <<m>>
      <4>1. Accepts(q)
        BY <1>8, <1>11, <2>2, <3>1, <3>3, MsgAssumption DEF Accepts
      <4>2. queues'[q].msgs = Append(queues[q].msgs, m) /\ queues[q].msgs = <<>>
        BY <1>8, <3>1, <3>2, <4>1 DEF Box
      <4>3. Append(<<>>, m) = <<m>>
        OBVIOUS
      <4>4. QED
        BY <1>11, <3>1, <4>2, <4>3 DEF Box
    <3>4. /\ <<m>> # <<>> /\ Head(<<m>>) = m /\ Tail(<<m>>) = <<>> /\ Texts(<<m>>) = <<>>
          /\ NoAnswer(<<>>) /\ <<>> \o <<>> = <<>> /\ <<>> \o <<>> \o <<>> = <<>>
      <4>1. <<m>> # <<>> /\ Head(<<m>>) = m /\ Tail(<<m>>) = <<>>
        OBVIOUS
      <4>2. Texts(<<m>>) = <<>>
        BY <1>6, <4>1 DEF Texts
      <4>3. NoAnswer(<<>>)
        BY EmptyIsSeq DEF NoAnswer
      <4>4. <<>> \o <<>> = <<>>
        OBVIOUS
      <4>5. QED
        BY <4>1, <4>2, <4>3, <4>4
    <3>5. child'[p] = "none" /\ heard'[p] = <<>> /\ clients'[k].due = <<>>
      BY <1>11, <3>2
    <3>6. Faithful(<<>>, <<>>, k)
      BY NothingDue
    <3>7. QED
      BY <1>12, <3>3, <3>4, <3>5, <3>6 DEF EntryOK, m
  <2>7. QED
    BY <2>1, <2>3, <2>4, <2>5, <2>6
<1>14. QED
  BY <1>3, <1>8, <1>9, <1>10, <1>13, ServerSide

LEMMA BroadcastDoneStep == ASSUME MsgInv, BroadcastDone PROVE MsgInv'
<1>1. ProgramsOK
  BY DEF MsgInv
<1>2. /\ server.pc = "broadcast" /\ server.to > Len(clients) /\ server' = Idle
      /\ UNCHANGED <<queues, inbox, clients, restarts, clientSide>>
  BY DEF BroadcastDone
<1>3. QueuesOK' /\ Stay /\ EntriesOK'
  BY <1>1, <1>2 DEF ProgramsOK, QueuesOK, EntriesOK, Stay
<1>4. LoopOK'
  <2>1. server'.pc = "recv" /\ server'.to = 0
    BY <1>2 DEF Idle
  <2>2. server' \in [pc : {"recv", "reply", "broadcast"}, to : Nat, text : Responses]
    BY <1>2, NoText DEF Idle
  <2>3. 0 <= Len(clients') + 1
    BY <1>1, <1>2, EntryTypes DEF ProgramsOK
  <2>4. QED
    BY <2>1, <2>2, <2>3 DEF LoopOK
<1>5. ASSUME NEW p \in Procs, Alone(p), InOrder(p)
      PROVE  /\ Entries(p)' = Entries(p) /\ (Entries(p) = {} => Box(p)' = Box(p))
             /\ \A i \in Entries(p) : EntryOK(i, p)'
  <2>1. Entries(p)' = Entries(p) /\ Box(p)' = Box(p) /\ queues' = queues
        /\ UNCHANGED <<queue, child, id, heard, clients>>
    BY <1>2 DEF Entries, Box, clientSide
  <2>2. ASSUME NEW i \in Entries(p) PROVE EntryOK(i, p)'
    <3>1. i \in 1 .. Len(clients) /\ Len(clients) \in Nat /\ server.to \in Nat
      BY <1>1, EntryTypes DEF ProgramsOK, Entries, LoopOK
    <3>2. Pending(i) = <<>>
      <4>1. ~(server.to <= i)
        BY <1>2, <3>1
      <4>2. QED
        BY <4>1 DEF Pending
    <3>3. ~Replying(i) /\ ~Replying(i)' /\ Pending(i)' = <<>>
      BY <1>2 DEF Replying, Pending, Idle
    <3>4. QED
      BY <1>5, <2>1, <3>2, <3>3, EntryKept DEF InOrder
  <2>3. QED
    BY <2>1, <2>2
<1>6. QED
  BY <1>2, <1>3, <1>4, <1>5, ServerSide

LEMMA RestartStep == ASSUME MsgInv, ServerRestart PROVE MsgInv'
<1>1. ProgramsOK
  BY DEF MsgInv
<1>2. /\ clients' = <<>> /\ server' = Idle
      /\ UNCHANGED <<queues, inbox, clientSide>>
  BY DEF ServerRestart
<1>3. UNCHANGED <<main, child, queue, id, lines, heard>>
  BY <1>2 DEF clientSide
<1>4. QueuesOK' /\ InboxOK' /\ ClientsOK' /\ KeysOK'
  BY <1>1, <1>2, <1>3 DEF ProgramsOK, QueuesOK, InboxOK, ClientsOK, KeysOK
<1>5. EntriesOK'
  BY <1>2, EmptyIsSeq, MsgAssumption DEF EntriesOK
<1>6. LoopOK'
  <2>1. server'.pc = "recv" /\ server'.to = 0 /\ Len(clients') = 0
    BY <1>2, EmptyIsSeq DEF Idle
  <2>2. server' \in [pc : {"recv", "reply", "broadcast"}, to : Nat, text : Responses]
    BY <1>2, NoText DEF Idle
  <2>3. QED
    BY <2>1, <2>2 DEF LoopOK
<1>7. ASSUME NEW p \in Procs, Alone(p)' PROVE InOrder(p)'
  <2>1. InOrder(p)
    BY <1>2, <1>3, <1>7 DEF MsgInv, Alone
  <2>2. Entries(p)' = {} /\ Box(p)' = Box(p) /\ Calls(p)' = Calls(p)
    BY <1>2, <1>3, EmptyIsSeq DEF Entries, Box, Calls
  <2>3. QED
    BY <1>3, <2>1, <2>2 DEF InOrder, Unknown
<1>8. QED
  BY <1>4, <1>5, <1>6, <1>7 DEF MsgInv, ProgramsOK

LEMMA TakeTextStep == ASSUME MsgInv, TextsOK, TakeText PROVE MsgInv'
<1> DEFINE m == Head(inbox)
           text == [id |-> m.pid, text |-> m.text]
<1>1. ProgramsOK
  BY DEF MsgInv
<1>2. /\ server.pc = "recv" /\ inbox # <<>> /\ ~m.init /\ inbox' = Tail(inbox)
      /\ server' = [pc |-> "broadcast", to |-> 1, text |-> text]
      /\ clients' = [i \in DOMAIN clients |->
                       IF clients[i].queue_id = queue[Author(text)] THEN clients[i]
                       ELSE [clients[i] EXCEPT !.due = Append(@, text)]]
      /\ UNCHANGED <<queues, restarts, clientSide>>
  BY DEF TakeText
<1>3. m \in Messages /\ m.text # YourId
  BY <1>1, <1>2, InboxPopped DEF ProgramsOK
<1>4. text \in Responses /\ text.text # YourId
  BY <1>3 DEF Messages, Responses, YourId
<1>s. WasSent(text)
  <2>1. m = inbox[1] /\ 1 \in DOMAIN inbox
    BY <1>1, <1>2, InboxPopped DEF ProgramsOK
  <2>2. text = TextAt(1)
    BY <2>1 DEF TextAt
  <2>3. QED
    BY <1>2, <2>1, <2>2 DEF TextsOK
<1>d. \A i \in DOMAIN clients : \A k \in DOMAIN clients[i].due : clients[i].due[k].text < text.text
  <2>1. m = inbox[1] /\ 1 \in DOMAIN inbox
    BY <1>1, <1>2, InboxPopped DEF ProgramsOK
  <2>2. text.text = inbox[1].text
    BY <2>1
  <2>3. QED
    BY <1>2, <2>1, <2>2 DEF TextsOK
<1> HIDE DEF m
<1>5. PICK t \in Responses : t = text
  BY <1>4
<1> HIDE DEF text
<1>6. /\ server' = [pc |-> "broadcast", to |-> 1, text |-> t] /\ t.text # YourId
      /\ clients' = [i \in DOMAIN clients |->
                       IF clients[i].queue_id = queue[Author(t)] THEN clients[i]
                       ELSE [clients[i] EXCEPT !.due = Append(@, t)]]
      /\ WasSent(t)
      /\ \A i \in DOMAIN clients : \A k \in DOMAIN clients[i].due : clients[i].due[k].text < t.text
  BY <1>2, <1>4, <1>5, <1>s, <1>d
<1>7. /\ DOMAIN clients = 1 .. Len(clients) /\ Len(clients) \in Nat
      /\ \A i \in DOMAIN clients : /\ clients[i] \in ClientRecords
                                   /\ clients[i].due \in Seq(Responses)
                                   /\ clients[i].client_id = i
                                   /\ clients[i].queue_id \in DOMAIN queues
  BY <1>1, EntryTypes DEF ProgramsOK
<1>8. ASSUME NEW i \in DOMAIN clients
      PROVE  /\ clients'[i] \in ClientRecords
             /\ clients'[i].client_id = clients[i].client_id
             /\ clients'[i].queue_id = clients[i].queue_id
             /\ clients'[i].due = IF clients[i].queue_id = queue[Author(t)]
                                    THEN clients[i].due ELSE Append(clients[i].due, t)
  <2>1. Append(clients[i].due, t) \in Seq(Responses)
    BY <1>7, PutFacts
  <2>2. CASE clients[i].queue_id = queue[Author(t)]
    BY <1>6, <1>7, <2>2
  <2>3. CASE clients[i].queue_id # queue[Author(t)]
    <3>1. clients'[i] = [clients[i] EXCEPT !.due = Append(clients[i].due, t)]
      BY <1>6, <1>7, <2>3
    <3>2. QED
      BY <1>7, <2>1, <2>3, <3>1 DEF ClientRecords
  <2>4. QED
    BY <2>2, <2>3
<1>9. DOMAIN clients' = DOMAIN clients /\ clients' \in Seq(ClientRecords) /\ Len(clients') = Len(clients)
  <2>1. DOMAIN clients' = DOMAIN clients
    BY <1>6
  <2>2. clients' \in [1 .. Len(clients) -> ClientRecords]
    BY <1>6, <1>7, <1>8, <2>1
  <2>3. clients' \in Seq(ClientRecords)
    BY <1>7, <2>2, IsASeq
  <2>4. Len(clients') = Len(clients)
    BY <1>7, <2>2, <2>3, LenProperties
  <2>5. QED
    BY <2>1, <2>3, <2>4
<1>10. QueuesOK' /\ Stay /\ EntriesOK'
  BY <1>1, <1>2, <1>7, <1>8, <1>9 DEF ProgramsOK, QueuesOK, EntriesOK, Stay
<1>11. LoopOK'
  <2>1. server'.pc = "broadcast" /\ server'.to = 1 /\ server'.text = t
    BY <1>6
  <2>2. server' \in [pc : {"recv", "reply", "broadcast"}, to : Nat, text : Responses]
    BY <1>6
  <2>3. 1 <= Len(clients') + 1
    BY <1>7, <1>9
  <2>4. QED
    BY <1>6, <2>1, <2>2, <2>3 DEF LoopOK
<1>12. ASSUME NEW p \in Procs, Alone(p), InOrder(p)
       PROVE  /\ Entries(p)' = Entries(p) /\ (Entries(p) = {} => Box(p)' = Box(p))
              /\ \A i \in Entries(p) : EntryOK(i, p)'
  <2>1. /\ Entries(p)' = Entries(p) /\ Box(p)' = Box(p) /\ queues' = queues
        /\ UNCHANGED <<queue, child, id, heard>>
    BY <1>2, <1>8, <1>9 DEF Entries, Box, clientSide
  <2>2. heard[p] \in Seq(Responses) /\ Box(p) \in Seq(Responses)
    BY <1>1, <1>12, AloneQueue DEF ProgramsOK, ClientsOK
  <2>3. ASSUME NEW i \in Entries(p) PROVE EntryOK(i, p)'
    <3>1. i \in DOMAIN clients /\ i \in Nat /\ 1 <= i
      BY <1>7 DEF Entries
    <3>2. ~Replying(i) /\ ~Replying(i)' /\ Pending(i) = <<>>
      BY <1>2 DEF Replying, Pending
    <3>3. Pending(i)' = IF i = t.id THEN <<>> ELSE <<t>>
      <4>1. server'.pc = "broadcast" /\ server'.to = 1 /\ server'.text = t
        BY <1>6
      <4>2. clients'[i].client_id = i
        BY <1>7, <1>8, <3>1
      <4>3. QED
        BY <3>1, <4>1, <4>2 DEF Pending
    <3>4. EntryOK(i, p)
      BY <1>12 DEF InOrder
    <3>5. PICK got \in Seq(Responses) : got = heard[p] \o Texts(Box(p))
      <4>1. Texts(Box(p)) \in Seq(Responses)
        BY <1>6, <2>2, TextsPut
      <4>2. QED
        BY <2>2, <4>1, ConcatProperties
    <3>6. /\ got \o Pending(i) = got
          /\ got \o Pending(i)' = IF i = t.id THEN got ELSE Append(got, t)
      BY <3>2, <3>3, ConcatEmptySeq, AppendIsConcat
    <3>7. clients[i].queue_id = queue[Author(t)] => i = t.id
      <4>1. Author(t) \in Procs /\ child[Author(t)] # "none" /\ t.id = id[Author(t)]
        BY <1>1, <1>6, ElementOfSeq, LenProperties DEF ProgramsOK, ClientsOK, WasSent, Author
      <4>2. clients[i].queue_id = queue[p]
        BY DEF Entries
      <4>3. QED
        BY <1>1, <1>12, <3>4, <4>1, <4>2, AloneQueue DEF EntryOK
    <3>8. ASSUME Faithful(got, clients[i].due, i)
          PROVE  Faithful(got \o Pending(i)', clients'[i].due, i)
      <4>1. clients[i].due \in Seq(Responses)
        BY <1>7, <3>1
      <4>2. /\ t.id = i => Faithful(got, Append(clients[i].due, t), i)
            /\ Faithful(Append(got, t), Append(clients[i].due, t), i)
        BY <1>6, <3>1, <3>8, <4>1, FaithfulPut
      <4>3. QED
        BY <1>8, <3>1, <3>6, <3>7, <3>8, <4>2
    <3>9. QED
      BY <2>1, <3>2, <3>4, <3>5, <3>6, <3>8 DEF EntryOK
  <2>4. QED
    BY <2>1, <2>3
<1>13. QED
  BY <1>2, <1>10, <1>11, <1>12, ServerSide

LEMMA BroadcastToStep == ASSUME MsgInv, BroadcastTo PROVE MsgInv'
<1>1. ProgramsOK
  BY DEF MsgInv
<1>2. PICK k \in Nat : k = server.to
  BY <1>1 DEF ProgramsOK, LoopOK
<1>3. PICK t \in Responses : t = server.text
  BY <1>1 DEF ProgramsOK, LoopOK
<1>4. /\ server.pc = "broadcast" /\ k <= Len(clients) /\ k # 0 /\ t.text # YourId
      /\ server' = [server EXCEPT !.to = @ + 1]
      /\ UNCHANGED <<inbox, clients, restarts, clientSide>>
  BY <1>1, <1>2, <1>3 DEF BroadcastTo, ProgramsOK, LoopOK
<1>5. server'.pc = "broadcast" /\ server'.to = k + 1 /\ server'.text = t
      /\ server' \in [pc : {"recv", "reply", "broadcast"}, to : Nat, text : Responses]
  BY <1>1, <1>2, <1>3, <1>4 DEF ProgramsOK, LoopOK
<1>6. k \in DOMAIN clients /\ clients[k].client_id = k /\ clients[k].queue_id \in DOMAIN queues
      /\ Len(clients) \in Nat
  BY <1>1, <1>4, EntryTypes DEF ProgramsOK
<1>7. PICK q \in DOMAIN queues : q = clients[k].queue_id
  BY <1>6
<1>8. /\ QueuesOK' /\ Stay
      /\ \A x \in DOMAIN queues : x # q => queues'[x] = queues[x]
      /\ queues'[q].live = queues[q].live
      /\ queues'[q].msgs = IF k # t.id /\ Accepts(q) THEN Append(queues[q].msgs, t)
                                                     ELSE queues[q].msgs
  <2>1. CASE k = t.id
    <3>1. queues' = queues
      BY <1>2, <1>3, <1>6, <2>1 DEF BroadcastTo
    <3>2. QED
      BY <1>1, <2>1, <3>1 DEF ProgramsOK, QueuesOK, Stay
  <2>2. CASE k # t.id
    <3>1. CanSend(q) /\ Send(q, t)
      BY <1>2, <1>3, <1>6, <1>7, <2>2 DEF BroadcastTo
    <3>2. QED
      BY <1>1, <2>2, <3>1, SendFacts DEF ProgramsOK
  <2>3. QED
    BY <2>1, <2>2
<1>9. EntriesOK'
  BY <1>1, <1>4, <1>8, EntriesKept DEF ProgramsOK, Stay
<1>10. LoopOK'
  <2>1. k + 1 <= Len(clients') + 1 /\ k + 1 # 0
    BY <1>4, <1>6
  <2>2. QED
    BY <1>4, <1>5, <2>1 DEF LoopOK
<1>11. UNCHANGED <<queue, main, child, id, heard, clients>>
  BY <1>4 DEF clientSide
<1>12. \A i : ~Replying(i) /\ ~Replying(i)'
  BY <1>4, <1>5 DEF Replying
<1>13. ASSUME NEW p \in Procs, Alone(p), InOrder(p)
       PROVE  /\ Entries(p)' = Entries(p) /\ (Entries(p) = {} => Box(p)' = Box(p))
              /\ \A i \in Entries(p) : EntryOK(i, p)'
  <2>1. Entries(p)' = Entries(p)
    BY <1>11 DEF Entries
  <2>2. /\ queue[p] \in DOMAIN queues /\ queues[queue[p]].key \in Keys
        /\ Box(p) \in Seq(Responses) /\ heard[p] \in Seq(Responses)
    BY <1>1, <1>13, AloneQueue DEF ProgramsOK, ClientsOK
  <2>3. q # queue[p] => queues'[queue[p]] = queues[queue[p]] /\ Box(p)' = Box(p)
    BY <1>8, <1>11, <2>2 DEF Box
  <2>4. /\ Entries(p) = {} => q # queue[p]
        /\ \A i \in Entries(p) : i # k => q # queue[p]
        /\ \A i \in Entries(p) : i \in Nat /\ clients[i].queue_id = queue[p]
                                 /\ clients[i].client_id = i
    BY <1>1, <1>6, <1>7, <1>13, OwnEntry DEF ProgramsOK
  <2>5. ASSUME NEW i \in Entries(p), i # k PROVE EntryOK(i, p)'
    <3>1. k <= i <=> k + 1 <= i
      BY <2>4, <2>5
    <3>2. Pending(i)' = Pending(i)
      BY <1>2, <1>3, <1>4, <1>5, <3>1 DEF Pending
    <3>3. EntryOK(i, p)
      BY <1>13 DEF InOrder
    <3>4. QED
      BY <1>11, <1>12, <2>3, <2>4, <2>5, <3>2, <3>3, EntryKept
  <2>6. ASSUME k \in Entries(p) PROVE EntryOK(k, p)'
    <3>1. q = queue[p] /\ EntryOK(k, p)
      BY <1>7, <1>13, <2>4, <2>6 DEF InOrder
    <3>2. Pending(k) = (IF k = t.id THEN <<>> ELSE <<t>>) /\ Pending(k)' = <<>>
      <4>1. ~(k + 1 <= k) /\ k <= k
        OBVIOUS
      <4>2. Pending(k)' = <<>>
        BY <1>5, <4>1 DEF Pending
      <4>3. Pending(k) = IF k = t.id THEN <<>> ELSE <<t>>
        BY <1>2, <1>3, <1>4, <1>6, <4>1 DEF Pending
      <4>4. QED
        BY <4>2, <4>3
    <3>3. CASE k = t.id
      <4>1. Box(p)' = Box(p) /\ queues'[queue[p]].live = queues[queue[p]].live
        BY <1>8, <1>11, <3>1, <3>3 DEF Box
      <4>2. Pending(k)' = Pending(k)
        BY <3>2, <3>3
      <4>3. QED
        BY <1>11, <1>12, <3>1, <4>1, <4>2, EntryKept
    <3>4. CASE k # t.id
      <4>1. ASSUME queues'[queue'[p]].live
            PROVE  Box(p)' = Append(Box(p), t) /\ queues[queue[p]].live
        BY <1>8, <1>11, <2>2, <3>1, <3>4, <4>1, MsgAssumption DEF Accepts, Box
      <4>2. /\ Texts(Box(p)) \in Seq(Responses)
            /\ Texts(Append(Box(p), t)) = Texts(Box(p)) \o <<t>>
            /\ NoAnswer(Box(p)) => NoAnswer(Append(Box(p), t))
        BY <1>4, <2>2, TextsPut
      <4>3. ASSUME Box(p) # <<>>, NoAnswer(Tail(Box(p)))
            PROVE  /\ Append(Box(p), t) # <<>> /\ Head(Append(Box(p), t)) = Head(Box(p))
                   /\ NoAnswer(Tail(Append(Box(p), t)))
        <5>1. /\ Head(Append(Box(p), t)) = Head(Box(p))
              /\ Tail(Append(Box(p), t)) = Append(Tail(Box(p)), t)
          BY <2>2, <4>3, HeadTailAppend
        <5>2. NoAnswer(Append(Tail(Box(p)), t))
          BY <1>4, <2>2, <4>3, TakeFacts, TextsPut
        <5>3. Append(Box(p), t) # <<>>
          BY <2>2, PutFacts
        <5>4. QED
          BY <5>1, <5>2, <5>3
      <4>4. heard[p] \o Texts(Append(Box(p), t)) \o <<>> = heard[p] \o Texts(Box(p)) \o <<t>>
        <5>1. /\ <<t>> \in Seq(Responses) /\ Texts(Box(p)) \o <<t>> \in Seq(Responses)
          BY <4>2, ConcatProperties
        <5>2. heard[p] \o (Texts(Box(p)) \o <<t>>) = heard[p] \o Texts(Box(p)) \o <<t>>
          BY <2>2, <4>2, <5>1, ThreeParts
        <5>3. heard[p] \o (Texts(Box(p)) \o <<t>>) \in Seq(Responses)
          BY <2>2, <5>1, ConcatProperties
        <5>4. QED
          BY <4>2, <5>2, <5>3, ConcatEmptySeq
      <4>5. QED
        <5>1. child'[p] # "none" => id'[p] = k
          BY <1>11, <3>1 DEF EntryOK
        <5>2. ASSUME queues'[queue'[p]].live
              PROVE  /\ child'[p] # "none" => NoAnswer(Box(p)')
                     /\ child'[p] = "none" => /\ Box(p)' # <<>>
                                              /\ Head(Box(p)') = [id |-> k, text |-> YourId]
                                              /\ NoAnswer(Tail(Box(p)'))
                     /\ Faithful(heard'[p] \o Texts(Box(p)') \o Pending(k)', clients'[k].due, k)
          <6>1. /\ child[p] # "none" => NoAnswer(Box(p))
                /\ child[p] = "none" => /\ Box(p) # <<>>
                                        /\ Head(Box(p)) = [id |-> k, text |-> YourId]
                                        /\ NoAnswer(Tail(Box(p)))
                /\ Faithful(heard[p] \o Texts(Box(p)) \o <<t>>, clients[k].due, k)
            BY <1>12, <3>1, <3>2, <3>4, <4>1, <5>2 DEF EntryOK
          <6>2. Box(p)' = Append(Box(p), t)
            BY <4>1, <5>2
          <6>3. Faithful(heard'[p] \o Texts(Box(p)') \o Pending(k)', clients'[k].due, k)
            BY <1>11, <3>2, <4>4, <6>1, <6>2
          <6>4. child'[p] = child[p]
            BY <1>11
          <6>5. QED
            BY <4>2, <4>3, <6>1, <6>2, <6>3, <6>4
        <5>3. QED
          BY <1>12, <5>1, <5>2 DEF EntryOK
    <3>5. QED
      BY <3>3, <3>4
  <2>7. QED
    BY <2>1, <2>3, <2>4, <2>5, <2>6
<1>14. QED
  BY <1>4, <1>8, <1>9, <1>10, <1>13, ServerSide

-----------------------------------------------------------------------------
(* The steps of a client.                                                  *)

\* What a client does to itself and to the queue it uses, it does to no client that
\* is alone with another.
LEMMA ClientSide ==
    ASSUME MsgInv, NEW r \in Procs, QueuesOK', Stay, InboxOK', ClientsOK', queue' = queue,
           UNCHANGED <<clients, server>>,
           \A n \in DOMAIN inbox' :
               \/ \E k \in DOMAIN inbox : inbox'[n] = inbox[k]
               \/ inbox'[n].key = IPC_PRIVATE
               \/ \E q \in DOMAIN queues : queues[q].key = inbox'[n].key,
           \A p \in Procs : p # r => /\ main'[p] = main[p] /\ child'[p] = child[p]
                                     /\ id'[p] = id[p] /\ heard'[p] = heard[p],
           \A x \in DOMAIN queues : x # queue[r] => queues'[x] = queues[x],
           \A p \in Procs : p # r /\ Alone(p) => Calls(p)' = Calls(p),
           Alone(r) /\ InOrder(r) => InOrder(r)'
    PROVE  MsgInv'
<1>1. ProgramsOK
  BY DEF MsgInv
<1>2. EntriesOK' /\ LoopOK'
  BY <1>1 DEF ProgramsOK, EntriesOK, LoopOK, Stay
<1>3. KeysOK'
  BY <1>1, KeysKept DEF ProgramsOK
<1>4. ASSUME NEW p \in Procs, Alone(p)' PROVE InOrder(p)'
  <2>1. Alone(p) /\ InOrder(p)
    BY <1>1, <1>4, AloneKept DEF MsgInv
  <2>2. CASE p = r
    BY <2>1, <2>2
  <2>3. CASE p # r
    <3>1. queue[p] \in DOMAIN queues /\ queue[r] # queue[p]
      BY <1>1, <2>1, <2>3, AloneQueue
    <3>2. /\ queues'[queue[p]] = queues[queue[p]] /\ Calls(p)' = Calls(p)
          /\ main'[p] = main[p] /\ child'[p] = child[p] /\ id'[p] = id[p] /\ heard'[p] = heard[p]
      BY <2>1, <2>3, <3>1
    <3>3. \A m, n \in Calls(p)' : m = n
      BY <2>1, <3>2 DEF InOrder
    <3>4. QED
      BY <2>1, <3>2, <3>3, Bystander
  <2>4. QED
    BY <2>2, <2>3
<1>5. QED
  BY <1>2, <1>3, <1>4 DEF MsgInv, ProgramsOK

\* Where a client has a queue.
LEMMA ClientTypes ==
    ASSUME ProgramsOK, NEW r \in Procs
    PROVE  /\ queue[r] # 0 => queue[r] \in DOMAIN queues /\ queues[queue[r]] \in QueueRecords
                              /\ queues[queue[r]].key \in Keys
           /\ main[r] # "start" <=> queue[r] # 0
           /\ child[r] # "none" => queue[r] # 0
<1>1. queue[r] # 0 => queue[r] \in DOMAIN queues /\ queues[queue[r]] \in QueueRecords
  BY QueueTypes DEF ProgramsOK, ClientsOK
<1>2. QED
  BY <1>1 DEF ProgramsOK, ClientsOK, KeysOK

\* A message with a key that is not p's own is no call of p's.
LEMMA OtherCalls ==
    ASSUME ProgramsOK, NEW p \in Procs, Alone(p), queue' = queue, Stay,
           NEW m \in Messages, ~m.init => m.text # YourId, SendToServer(m),
           m.key # queues[queue[p]].key
    PROVE  Calls(p)' = Calls(p)
<1>1. /\ DOMAIN inbox' = DOMAIN inbox \cup {Len(inbox) + 1}
      /\ Len(inbox) + 1 \notin DOMAIN inbox
      /\ inbox'[Len(inbox) + 1] = m
      /\ \A n \in DOMAIN inbox : inbox'[n] = inbox[n]
  BY InboxPut DEF ProgramsOK
<1>2. queues'[queue'[p]].key = queues[queue[p]].key
  BY AloneQueue DEF Stay
<1>3. QED
  BY <1>1, <1>2 DEF Calls

LEMMA AnnounceStep == ASSUME MsgInv, NEW r \in Procs, Announce(r) PROVE MsgInv'
<1> DEFINE m == [init |-> TRUE, key |-> queues[queue[r]].key, pid |-> 0, text |-> 0]
<1>1. ProgramsOK
  BY DEF MsgInv
<1>2. /\ main[r] = "announce" /\ SendToServer(m) /\ main' = [main EXCEPT ![r] = "waiting"]
      /\ UNCHANGED <<queues, clients, server, child, queue, id, lines, heard>>
  BY DEF Announce, serverSide
<1>3. queue[r] \in DOMAIN queues /\ queues[queue[r]].key \in Keys
  BY <1>1, <1>2, ClientTypes
<1>4. m \in Messages /\ m.init /\ m.key = queues[queue[r]].key
  BY <1>3, MsgAssumption DEF Messages
<1> HIDE DEF m
<1>5. /\ InboxOK'
      /\ DOMAIN inbox' = DOMAIN inbox \cup {Len(inbox) + 1} /\ Len(inbox) + 1 \notin DOMAIN inbox
      /\ inbox'[Len(inbox) + 1] = m
      /\ \A n \in DOMAIN inbox : inbox'[n] = inbox[n]
  BY <1>1, <1>2, <1>4, InboxPut DEF ProgramsOK
<1>6. QueuesOK' /\ Stay
  BY <1>1, <1>2 DEF ProgramsOK, QueuesOK, Stay
<1>7. ClientsOK'
  BY <1>1, <1>2, <1>3 DEF ProgramsOK, ClientsOK
<1>8. \A p \in Procs : p # r => main'[p] = main[p]
  BY <1>1, <1>2 DEF ProgramsOK, ClientsOK
<1>9. ASSUME NEW p \in Procs, p # r, Alone(p) PROVE Calls(p)' = Calls(p)
  <2>1. m.key # queues[queue[p]].key
    BY <1>1, <1>3, <1>4, <1>9, AloneQueue
  <2>2. QED
    BY <1>1, <1>2, <1>4, <1>6, <1>9, <2>1, OtherCalls
<1>10. ASSUME Alone(r), InOrder(r) PROVE InOrder(r)'
  <2>1. Calls(r) = {} /\ Unknown(r) /\ heard[r] = <<>>
    BY <1>2, <1>10 DEF InOrder, Unknown
  <2>2. Unknown(r)' /\ heard'[r] = <<>>
    BY <1>2, <2>1 DEF Unknown, Entries, Box
  <2>3. Calls(r)' \subseteq {Len(inbox) + 1}
    BY <1>2, <1>5, <2>1 DEF Calls
  <2>4. main'[r] = "waiting"
    BY <1>1, <1>2 DEF ProgramsOK, ClientsOK
  <2>5. QED
    BY <2>2, <2>3, <2>4 DEF InOrder, Unknown
<1>11. \A n \in DOMAIN inbox' :
         \/ \E k \in DOMAIN inbox : inbox'[n] = inbox[k]
         \/ \E q \in DOMAIN queues : queues[q].key = inbox'[n].key
  BY <1>3, <1>4, <1>5
<1>12. QED
  BY <1>2, <1>5, <1>6, <1>7, <1>8, <1>9, <1>10, <1>11, ClientSide

LEMMA TypeLineStep == ASSUME MsgInv, NEW r \in Procs, TypeLine(r) PROVE MsgInv'
<1>1. ProgramsOK
  BY DEF MsgInv
<1>2. PICK init \in BOOLEAN :
        SendToServer([init |-> init, key |-> IPC_PRIVATE, pid |-> id[r], text |-> Len(lines) + 1])
  BY DEF TypeLine
<1> DEFINE m == [init |-> init, key |-> IPC_PRIVATE, pid |-> id[r], text |-> Len(lines) + 1]
<1>3. /\ Len(lines) < MaxLines /\ lines' = Append(lines, r)
      /\ UNCHANGED <<queues, clients, server, main, child, queue, id, heard>>
  BY DEF TypeLine, serverSide
<1>4. /\ lines \in Seq(Procs) /\ Len(lines) \in Nat /\ id[r] \in Int
      /\ lines' \in Seq(Procs) /\ Len(lines') = Len(lines) + 1
  BY <1>1, <1>3, PutFacts DEF ProgramsOK, ClientsOK
<1>5. m \in Messages /\ m.text # YourId /\ m.key = IPC_PRIVATE
  <2>1. Len(lines) + 1 \in 0 .. MaxLines /\ Len(lines) + 1 # 0
    BY <1>3, <1>4, MsgAssumption
  <2>2. QED
    BY <1>4, <2>1 DEF Messages, YourId
<1> HIDE DEF m
<1>6. SendToServer(m)
  BY <1>2 DEF m
<1>7. /\ InboxOK'
      /\ DOMAIN inbox' = DOMAIN inbox \cup {Len(inbox) + 1} /\ Len(inbox) + 1 \notin DOMAIN inbox
      /\ inbox'[Len(inbox) + 1] = m
      /\ \A n \in DOMAIN inbox : inbox'[n] = inbox[n]
  BY <1>1, <1>5, <1>6, InboxPut DEF ProgramsOK
<1>8. QueuesOK' /\ Stay
  BY <1>1, <1>3 DEF ProgramsOK, QueuesOK, Stay
<1>9. ClientsOK'
  <2>1. lines' \in Seq(Procs) /\ Len(lines') <= MaxLines
    BY <1>3, <1>4, MsgAssumption
  <2>2. QED
    BY <1>1, <1>3, <2>1 DEF ProgramsOK, ClientsOK
<1>10. ASSUME NEW p \in Procs, Alone(p) PROVE Calls(p)' = Calls(p)
  <2>1. m.key # queues[queue[p]].key
    BY <1>1, <1>5, <1>10, AloneQueue, MsgAssumption
  <2>2. QED
    BY <1>1, <1>3, <1>5, <1>6, <1>8, <1>10, <2>1, OtherCalls
<1>11. ASSUME Alone(r), InOrder(r) PROVE InOrder(r)'
  <2>1. Calls(r)' = Calls(r) /\ \A k, n \in Calls(r)' : k = n
    BY <1>10, <1>11 DEF InOrder
  <2>2. QED
    BY <1>3, <1>11, <2>1, Bystander
<1>12. QED
  BY <1>3, <1>5, <1>7, <1>8, <1>9, <1>10, <1>11, ClientSide

LEMMA ReceiveIdStep == ASSUME MsgInv, NEW r \in Procs, ReceiveId(r) PROVE MsgInv'
<1>1. ProgramsOK
  BY DEF MsgInv
<1>2. /\ main[r] = "waiting" /\ HasMessage(queue[r]) /\ queues' = Dequeued(queue[r])
      /\ id' = [id EXCEPT ![r] = Head(queues[queue[r]].msgs).id]
      /\ main' = [main EXCEPT ![r] = "typing"]
      /\ child' = [child EXCEPT ![r] = "listening"]
      /\ UNCHANGED <<inbox, clients, server, queue, lines, heard>>
  BY DEF ReceiveId, serverSide
<1>3. queue[r] \in DOMAIN queues /\ child[r] = "none"
  BY <1>1, <1>2, ClientTypes DEF ProgramsOK, ClientsOK
<1>4. /\ QueuesOK' /\ Stay
      /\ \A x \in DOMAIN queues : x # queue[r] => queues'[x] = queues[x]
      /\ queues'[queue[r]].live /\ queues'[queue[r]].msgs = Tail(queues[queue[r]].msgs)
      /\ queues[queue[r]].live /\ queues[queue[r]].msgs # <<>>
      /\ queues[queue[r]].msgs \in Seq(Responses) /\ Head(queues[queue[r]].msgs) \in Responses
  BY <1>1, <1>2, <1>3, DequeueFacts DEF ProgramsOK
<1>5. PICK m \in Responses : m = Head(queues[queue[r]].msgs)
  BY <1>4
<1>6. m.id \in Int
  BY DEF Responses
<1>7. /\ id'[r] = m.id /\ main'[r] = "typing" /\ child'[r] = "listening"
      /\ \A p \in Procs : p # r => main'[p] = main[p] /\ child'[p] = child[p] /\ id'[p] = id[p]
  BY <1>1, <1>2, <1>5 DEF ProgramsOK, ClientsOK
<1>8. ClientsOK'
  BY <1>1, <1>2, <1>3, <1>4, <1>5, <1>6 DEF ProgramsOK, ClientsOK, Stay
<1>9. InboxOK'
  BY <1>1, <1>2 DEF ProgramsOK, InboxOK
<1>10. \A p \in Procs : p # r /\ Alone(p) => Calls(p)' = Calls(p)
  BY <1>1, <1>2, <1>4, AloneQueue DEF Calls, Stay
<1>11. ASSUME Alone(r), InOrder(r) PROVE InOrder(r)'
  <2>1. Calls(r) = {} /\ Calls(r)' = Calls(r) /\ Entries(r)' = Entries(r)
    BY <1>2, <1>3, <1>4, <1>11 DEF InOrder, Unknown, Box, Calls, Entries, Stay
  <2>2. ASSUME NEW i \in Entries(r) PROVE EntryOK(i, r)'
    <3>1. EntryOK(i, r) /\ Box(r) # <<>> /\ Box(r)' = Tail(Box(r)) /\ Box(r) \in Seq(Responses)
      BY <1>2, <1>4, <1>11 DEF InOrder, Box
    <3>2. ~Replying(i) /\ ~Replying(i)' /\ Pending(i)' = Pending(i)
      BY <1>2, <3>1 DEF EntryOK, Replying, Pending
    <3>3. /\ Head(Box(r)) = [id |-> i, text |-> YourId] /\ NoAnswer(Tail(Box(r)))
          /\ Faithful(heard[r] \o Texts(Box(r)) \o Pending(i), clients[i].due, i)
      BY <1>3, <1>4, <3>1, <3>2 DEF EntryOK
    <3>4. id'[r] = i
      BY <1>5, <1>7, <3>3 DEF Box
    <3>5. Texts(Box(r)) = Tail(Box(r)) /\ Texts(Tail(Box(r))) = Tail(Box(r))
      <4>1. Texts(Box(r)) = Tail(Box(r))
        BY <3>1, <3>3 DEF Texts
      <4>2. Tail(Box(r)) \in Seq(Responses)
        BY <3>1, TakeFacts
      <4>3. QED
        BY <3>3, <4>1, <4>2, TextsTake
    <3>6. Faithful(heard'[r] \o Texts(Box(r)') \o Pending(i)', clients'[i].due, i)
      BY <1>2, <3>1, <3>2, <3>3, <3>5
    <3>7. NoAnswer(Box(r)') /\ child'[r] # "none"
      BY <1>7, <3>1, <3>3
    <3>8. QED
      BY <3>2, <3>4, <3>6, <3>7 DEF EntryOK
  <2>3. QED
    BY <1>7, <1>11, <2>1, <2>2 DEF InOrder
<1>12. QED
  BY <1>2, <1>4, <1>7, <1>8, <1>9, <1>10, <1>11, ClientSide

LEMMA ListenStep == ASSUME MsgInv, NEW r \in Procs, Listen(r) PROVE MsgInv'
<1>1. ProgramsOK
  BY DEF MsgInv
<1>2. /\ child[r] = "listening" /\ HasMessage(queue[r]) /\ queues' = Dequeued(queue[r])
      /\ heard' = [heard EXCEPT ![r] = Append(heard[r], Head(queues[queue[r]].msgs))]
      /\ UNCHANGED <<inbox, clients, server, main, child, queue, id, lines>>
  BY DEF Listen, serverSide
<1>3. queue[r] \in DOMAIN queues
  BY <1>1, <1>2, ClientTypes
<1>4. /\ QueuesOK' /\ Stay
      /\ \A x \in DOMAIN queues : x # queue[r] => queues'[x] = queues[x]
      /\ queues'[queue[r]].live /\ queues'[queue[r]].msgs = Tail(queues[queue[r]].msgs)
      /\ queues[queue[r]].live /\ queues[queue[r]].msgs # <<>>
      /\ queues[queue[r]].msgs \in Seq(Responses) /\ Head(queues[queue[r]].msgs) \in Responses
  BY <1>1, <1>2, <1>3, DequeueFacts DEF ProgramsOK
<1>5. PICK m \in Responses : m = Head(queues[queue[r]].msgs)
  BY <1>4
<1>6. heard[r] \in Seq(Responses) /\ Append(heard[r], m) \in Seq(Responses)
  <2>1. heard[r] \in Seq(Responses)
    BY <1>1 DEF ProgramsOK, ClientsOK
  <2>2. QED
    BY <2>1, PutFacts
<1>7. /\ heard'[r] = Append(heard[r], m)
      /\ \A p \in Procs : p # r => heard'[p] = heard[p]
      /\ heard' \in [Procs -> Seq(Responses)]
  BY <1>1, <1>2, <1>5, <1>6 DEF ProgramsOK, ClientsOK
<1>8. ClientsOK'
  BY <1>1, <1>2, <1>4, <1>7 DEF ProgramsOK, ClientsOK, Stay
<1>9. InboxOK'
  BY <1>1, <1>2 DEF ProgramsOK, InboxOK
<1>10. \A p \in Procs : p # r /\ Alone(p) => Calls(p)' = Calls(p)
  BY <1>1, <1>2, <1>4, AloneQueue DEF Calls, Stay
<1>11. ASSUME Alone(r), InOrder(r) PROVE InOrder(r)'
  <2>1. Calls(r) = {} /\ Calls(r)' = Calls(r) /\ Entries(r)' = Entries(r)
    BY <1>2, <1>3, <1>4, <1>11 DEF InOrder, Unknown, Box, Calls, Entries, Stay
  <2>2. ASSUME NEW i \in Entries(r) PROVE EntryOK(i, r)'
    <3>1. EntryOK(i, r) /\ Box(r) # <<>> /\ Box(r)' = Tail(Box(r)) /\ Box(r) \in Seq(Responses)
      BY <1>2, <1>4, <1>11 DEF InOrder, Box
    <3>2. ~Replying(i) /\ ~Replying(i)' /\ Pending(i)' = Pending(i)
      BY <1>2, <3>1 DEF EntryOK, Replying, Pending
    <3>3. /\ NoAnswer(Box(r)) /\ id[r] = i
          /\ Faithful(heard[r] \o Texts(Box(r)) \o Pending(i), clients[i].due, i)
      BY <1>2, <1>4, <3>1, <3>2 DEF EntryOK
    <3>4. /\ Texts(Box(r)) = Box(r) /\ NoAnswer(Tail(Box(r)))
          /\ Append(heard[r], m) \o Tail(Box(r)) = heard[r] \o Box(r)
      BY <1>5, <1>6, <3>1, <3>3, TextsTake DEF Box
    <3>5. Texts(Tail(Box(r))) = Tail(Box(r))
      <4>1. Tail(Box(r)) \in Seq(Responses)
        BY <3>1, TakeFacts
      <4>2. QED
        BY <3>4, <4>1, TextsTake
    <3>6. Faithful(heard'[r] \o Texts(Box(r)') \o Pending(i)', clients'[i].due, i)
      BY <1>2, <1>7, <3>1, <3>2, <3>3, <3>4, <3>5
    <3>7. NoAnswer(Box(r)') /\ child'[r] # "none" /\ id'[r] = i
      BY <1>2, <3>1, <3>3, <3>4
    <3>8. QED
      BY <3>2, <3>6, <3>7 DEF EntryOK
  <2>3. /\ main'[r] # "announce" /\ child'[r] # "none" /\ Calls(r)' = {}
        /\ \A i, j \in Entries(r)' : i = j
    <3>1. main[r] # "announce"
      BY <1>1, <1>2 DEF ProgramsOK, ClientsOK
    <3>2. QED
      BY <1>2, <1>11, <2>1, <3>1 DEF InOrder
  <2>4. QED
    BY <2>1, <2>2, <2>3 DEF InOrder
<1>12. QED
  BY <1>2, <1>4, <1>7, <1>8, <1>9, <1>10, <1>11, ClientSide

\* A queue is removed, by its owner or by one who shares it: nothing waits in it.
LEMMA RemoveStep ==
    ASSUME MsgInv, NEW r \in Procs, queue[r] # 0, RemoveQueue(queue[r]), ClientsOK',
           UNCHANGED <<inbox, clients, server, queue, id, heard>>,
           \A p \in Procs : p # r => main'[p] = main[p] /\ child'[p] = child[p],
           main'[r] # "announce", child'[r] = "none" <=> child[r] = "none"
    PROVE  MsgInv'
<1>1. ProgramsOK
  BY DEF MsgInv
<1>2. queue[r] \in DOMAIN queues
  BY <1>1, ClientTypes
<1>3. /\ QueuesOK' /\ Stay
      /\ \A x \in DOMAIN queues : x # queue[r] => queues'[x] = queues[x]
      /\ ~queues'[queue[r]].live /\ queues'[queue[r]].msgs = <<>>
  BY <1>1, <1>2, RemoveFacts DEF ProgramsOK
<1>4. InboxOK'
  BY <1>1 DEF ProgramsOK, InboxOK
<1>5. \A p \in Procs : Alone(p) => Calls(p)' = Calls(p)
  BY <1>1, <1>3, AloneQueue DEF Calls, Stay
<1>6. ASSUME Alone(r), InOrder(r) PROVE InOrder(r)'
  <2>1. Calls(r)' = Calls(r) /\ Entries(r)' = Entries(r) /\ Box(r)' = <<>>
    BY <1>3, <1>5, <1>6 DEF Entries, Box
  <2>2. ASSUME NEW i \in Entries(r) PROVE EntryOK(i, r)'
    <3>1. EntryOK(i, r) /\ (Replying(i)' <=> Replying(i))
      BY <1>6 DEF InOrder, Replying
    <3>2. QED
      BY <1>3, <2>1, <3>1 DEF EntryOK
  <2>3. Unknown(r) => Unknown(r)'
    BY <2>1 DEF Unknown
  <2>4. QED
    BY <1>6, <2>1, <2>2, <2>3 DEF InOrder
<1>7. QED
  BY <1>3, <1>4, <1>5, <1>6, ClientSide

LEMMA LeaveStep == ASSUME MsgInv, NEW r \in Procs, Leave(r) PROVE MsgInv'
<1>1. ProgramsOK
  BY DEF MsgInv
<1>2. /\ main[r] \in {"announce", "waiting", "typing"} /\ RemoveQueue(queue[r])
      /\ main' = [main EXCEPT ![r] = "exited"]
      /\ UNCHANGED <<inbox, clients, server, child, queue, id, lines, heard>>
  BY DEF Leave, serverSide
<1>3. queue[r] # 0 /\ queue[r] \in DOMAIN queues
  BY <1>1, <1>2, ClientTypes
<1>4. Len(queues') = Len(queues)
  BY <1>1, <1>2, <1>3, RemoveFacts DEF ProgramsOK, Stay
<1>5. ClientsOK'
  BY <1>1, <1>2, <1>3, <1>4 DEF ProgramsOK, ClientsOK
<1>6. main'[r] = "exited" /\ \A p \in Procs : p # r => main'[p] = main[p]
  BY <1>1, <1>2 DEF ProgramsOK, ClientsOK
<1>7. QED
  BY <1>2, <1>3, <1>5, <1>6, RemoveStep

LEMMA ChildInterruptedStep ==
  ASSUME MsgInv, NEW r \in Procs, ChildInterrupted(r) PROVE MsgInv'
<1>1. ProgramsOK
  BY DEF MsgInv
<1>2. /\ child[r] = "listening" /\ RemoveQueue(queue[r])
      /\ child' = [child EXCEPT ![r] = "exited"]
      /\ UNCHANGED <<inbox, clients, server, main, queue, id, lines, heard>>
  BY DEF ChildInterrupted, serverSide
<1>3. queue[r] # 0 /\ queue[r] \in DOMAIN queues
  BY <1>1, <1>2, ClientTypes
<1>4. Len(queues') = Len(queues)
  BY <1>1, <1>2, <1>3, RemoveFacts DEF ProgramsOK, Stay
<1>5. ClientsOK' /\ main'[r] # "announce"
  BY <1>1, <1>2, <1>4 DEF ProgramsOK, ClientsOK
<1>6. child'[r] = "exited" /\ \A p \in Procs : p # r => child'[p] = child[p]
  BY <1>1, <1>2 DEF ProgramsOK, ClientsOK
<1>7. QED
  BY <1>2, <1>3, <1>5, <1>6, RemoveStep

\* A process killed leaves its queue as it is.
LEMMA KillStep == ASSUME MsgInv, NEW r \in Procs, KillMain(r) \/ KillChild(r) PROVE MsgInv'
<1>1. ProgramsOK
  BY DEF MsgInv
<1>2. UNCHANGED <<queues, inbox, clients, server, queue, id, lines, heard>>
  BY DEF KillMain, KillChild, serverSide
<1>3. /\ ClientsOK' /\ main'[r] # "announce" /\ (child'[r] = "none" <=> child[r] = "none")
      /\ \A p \in Procs : p # r => main'[p] = main[p] /\ child'[p] = child[p]
  <2>1. CASE KillMain(r)
    BY <1>1, <1>2, <2>1 DEF ProgramsOK, ClientsOK, KillMain
  <2>2. CASE KillChild(r)
    BY <1>1, <1>2, <2>2 DEF ProgramsOK, ClientsOK, KillChild
  <2>3. QED
    BY <2>1, <2>2
<1>4. QueuesOK' /\ Stay /\ InboxOK'
  BY <1>1, <1>2 DEF ProgramsOK, QueuesOK, InboxOK, Stay
<1>5. \A p \in Procs : Calls(p)' = Calls(p)
  BY <1>2 DEF Calls
<1>6. ASSUME Alone(r), InOrder(r) PROVE InOrder(r)'
  <2>1. Calls(r)' = Calls(r) /\ Entries(r)' = Entries(r) /\ Box(r)' = Box(r)
    BY <1>2 DEF Calls, Entries, Box
  <2>2. ASSUME NEW i \in Entries(r) PROVE EntryOK(i, r)'
    <3>1. EntryOK(i, r) /\ (Replying(i)' <=> Replying(i)) /\ Pending(i)' = Pending(i)
      BY <1>2, <1>6 DEF InOrder, Replying, Pending
    <3>2. QED
      BY <1>2, <1>3, <2>1, <3>1 DEF EntryOK
  <2>3. Unknown(r) => Unknown(r)'
    BY <1>3, <2>1 DEF Unknown
  <2>4. QED
    BY <1>2, <1>3, <1>6, <2>1, <2>2, <2>3 DEF InOrder
<1>7. QED
  BY <1>2, <1>3, <1>4, <1>5, <1>6, ClientSide

\* A queue that was there has another user.  In a new one with a key nobody had,
\* nothing waits and no entry is for it.
LEMMA MakeQueueStep == ASSUME MsgInv, NEW r \in Procs, MakeQueue(r) PROVE MsgInv'
<1>1. ProgramsOK
  BY DEF MsgInv
<1>2. /\ main[r] = "start" /\ main' = [main EXCEPT ![r] = "announce"]
      /\ UNCHANGED <<inbox, clients, server, child, id, lines, heard>>
  BY DEF MakeQueue, serverSide
<1>3. PICK key \in Keys :
        IF At(key) = {}
          THEN /\ queues' = Append(queues, NewQueue(key))
               /\ queue' = [queue EXCEPT ![r] = Len(queues) + 1]
          ELSE /\ UNCHANGED queues
               /\ \E q \in At(key) : queue' = [queue EXCEPT ![r] = q]
  BY DEF MakeQueue
<1>4. /\ Len(queues) \in Nat /\ DOMAIN queues = 1 .. Len(queues)
      /\ queue[r] = 0 /\ child[r] = "none" /\ heard[r] = <<>> /\ key # IPC_PRIVATE
  BY <1>1, <1>2, QueueTypes, MsgAssumption DEF ProgramsOK, ClientsOK
<1>5. PICK q \in DOMAIN queues' :
        /\ queue' = [queue EXCEPT ![r] = q]
        /\ QueuesOK' /\ Len(queues') \in Nat /\ Len(queues) <= Len(queues')
        /\ DOMAIN queues' = 1 .. Len(queues') /\ DOMAIN queues \subseteq DOMAIN queues'
        /\ \A x \in DOMAIN queues : queues'[x] = queues[x]
        /\ \A x \in DOMAIN queues' : x \in DOMAIN queues \/ x = q
        /\ queues'[q].key = key
        /\ q \notin DOMAIN queues => queues'[q].msgs = <<>>
  <2>1. CASE At(key) = {}
    <3>1. /\ QueuesOK' /\ Len(queues') = Len(queues) + 1
          /\ DOMAIN queues' = 1 .. Len(queues) + 1
          /\ \A x \in DOMAIN queues : queues'[x] = queues[x]
          /\ queues'[Len(queues) + 1] = NewQueue(key)
      BY <1>1, <1>3, <2>1, NewFacts DEF ProgramsOK
    <3>2. queues'[Len(queues) + 1].key = key /\ queues'[Len(queues) + 1].msgs = <<>>
      BY <3>1 DEF NewQueue
    <3>3. /\ Len(queues) + 1 \in DOMAIN queues' /\ DOMAIN queues \subseteq DOMAIN queues'
          /\ Len(queues') \in Nat /\ Len(queues) <= Len(queues')
          /\ DOMAIN queues' = 1 .. Len(queues')
          /\ \A x \in DOMAIN queues' : x \in DOMAIN queues \/ x = Len(queues) + 1
      BY <1>4, <3>1
    <3>4. QED
      BY <1>3, <2>1, <3>1, <3>2, <3>3
  <2>2. CASE At(key) # {}
    <3>1. PICK q \in At(key) : queue' = [queue EXCEPT ![r] = q]
      BY <1>3, <2>2
    <3>2. q \in DOMAIN queues /\ queues[q].key = key
      BY <3>1 DEF At
    <3>3. queues' = queues
      BY <1>3, <2>2
    <3>4. QueuesOK' /\ DOMAIN queues' = DOMAIN queues /\ Len(queues') = Len(queues)
      BY <1>1, <3>3 DEF ProgramsOK, QueuesOK
    <3>5. q \in DOMAIN queues' /\ q \in DOMAIN queues /\ queues'[q].key = key
      BY <3>2, <3>3
    <3>6. /\ Len(queues') \in Nat /\ Len(queues) <= Len(queues')
          /\ DOMAIN queues' = 1 .. Len(queues') /\ DOMAIN queues \subseteq DOMAIN queues'
          /\ \A x \in DOMAIN queues : queues'[x] = queues[x]
          /\ \A x \in DOMAIN queues' : x \in DOMAIN queues
      BY <1>4, <3>3
    <3>7. QED
      BY <3>1, <3>4, <3>5, <3>6, Zenon
  <2>3. QED
    BY <2>1, <2>2
<1>6. q # 0 /\ q \in 1 .. Len(queues')
  BY <1>5
<1>7. /\ queue'[r] = q /\ main'[r] = "announce"
      /\ \A p \in Procs : p # r => queue'[p] = queue[p] /\ main'[p] = main[p]
  BY <1>1, <1>2, <1>5 DEF ProgramsOK, ClientsOK
<1>8. \A p \in Procs : queue[p] # 0 => p # r /\ queue[p] \in DOMAIN queues
                                       /\ queues'[queue[p]] = queues[queue[p]]
  BY <1>1, <1>4, <1>5 DEF ProgramsOK, ClientsOK
<1>9. InboxOK' /\ EntriesOK' /\ LoopOK'
  BY <1>1, <1>2, <1>5, EntriesKept DEF ProgramsOK, InboxOK, LoopOK
<1>10. ClientsOK'
  <2>1. queue' \in [Procs -> 0 .. Len(queues')]
    <3>1. \A p \in Procs : queue[p] \in 0 .. Len(queues')
      BY <1>1, <1>4, <1>5 DEF ProgramsOK, ClientsOK
    <3>2. QED
      BY <1>1, <1>5, <1>6, <3>1 DEF ProgramsOK, ClientsOK
  <2>2. QED
    BY <1>1, <1>2, <1>4, <1>6, <1>7, <2>1 DEF ProgramsOK, ClientsOK
<1>11. KeysOK'
  <2>1. ASSUME NEW x \in DOMAIN queues', queues'[x].key # IPC_PRIVATE
        PROVE  \E p \in Procs : queue'[p] = x
    <3>1. CASE x = q
      BY <1>7, <3>1
    <3>2. CASE x \in DOMAIN queues
      <4>1. PICK p \in Procs : queue[p] = x
        BY <1>1, <1>5, <2>1, <3>2 DEF ProgramsOK, KeysOK
      <4>2. p # r
        BY <1>4, <3>2, <4>1
      <4>3. QED
        BY <1>7, <4>1, <4>2
    <3>3. QED
      BY <1>5, <3>1, <3>2
  <2>2. ASSUME NEW p \in Procs, queue'[p] # 0 PROVE queues'[queue'[p]].key \in Keys
    BY <1>1, <1>5, <1>7, <1>8, <2>2 DEF ProgramsOK, KeysOK
  <2>3. ASSUME NEW n \in DOMAIN inbox', inbox'[n].init, inbox'[n].key \in Keys
        PROVE  \E x \in DOMAIN queues' : queues'[x].key = inbox'[n].key
    <3>1. PICK x \in DOMAIN queues : queues[x].key = inbox[n].key
      BY <1>1, <1>2, <2>3 DEF ProgramsOK, KeysOK
    <3>2. QED
      BY <1>2, <1>5, <3>1
  <2>4. QED
    BY <2>1, <2>2, <2>3 DEF KeysOK
<1>12. ASSUME NEW p \in Procs, p # r, Alone(p)' PROVE InOrder(p)'
  <2>1. Alone(p)
    <3>1. queue[p] # 0
      BY <1>7, <1>12 DEF Alone
    <3>2. ASSUME NEW s \in Procs \ {p}, queue[s] # 0
          PROVE  queues[queue[s]].key # queues[queue[p]].key
      BY <1>7, <1>8, <1>12, <3>1, <3>2 DEF Alone
    <3>3. QED
      BY <3>1, <3>2 DEF Alone
  <2>2. InOrder(p) /\ queue[p] # 0
    BY <2>1 DEF MsgInv, Alone
  <2>3. Calls(p)' = Calls(p)
    BY <1>2, <1>7, <1>8, <1>12, <2>2 DEF Calls
  <2>4. \A m, n \in Calls(p)' : m = n
    BY <2>2, <2>3 DEF InOrder
  <2>5. QED
    BY <1>2, <1>7, <1>8, <1>12, <2>2, <2>3, <2>4, Bystander
<1>13. ASSUME Alone(r)' PROVE InOrder(r)'
  <2>1. ASSUME NEW x \in DOMAIN queues PROVE queues[x].key # key
    <3>1. SUFFICES ASSUME queues[x].key = key PROVE FALSE
      OBVIOUS
    <3>2. PICK p \in Procs : queue[p] = x
      BY <1>1, <1>4, <3>1 DEF ProgramsOK, KeysOK
    <3>3. x # 0
      BY <1>4
    <3>4. p # r /\ queue'[p] = x /\ queues'[x].key = key
      BY <1>4, <1>5, <1>7, <3>1, <3>2, <3>3
    <3>5. QED
      BY <1>5, <1>7, <1>13, <3>3, <3>4 DEF Alone
  <2>2. q \notin DOMAIN queues
    BY <1>5, <2>1
  <2>3. Calls(r)' = {}
    BY <1>1, <1>2, <1>5, <1>7, <2>1 DEF Calls, ProgramsOK, KeysOK
  <2>4. Entries(r)' = {}
    BY <1>1, <1>2, <1>7, <2>2 DEF Entries, ProgramsOK, EntriesOK
  <2>5. Box(r)' = <<>>
    BY <1>5, <1>7, <2>2 DEF Box
  <2>6. QED
    BY <1>2, <1>4, <2>3, <2>4, <2>5 DEF InOrder, Unknown
<1>14. QED
  BY <1>5, <1>9, <1>10, <1>11, <1>12, <1>13 DEF MsgInv, ProgramsOK

LEMMA MsgInit == Init => MsgInv
<1> SUFFICES ASSUME Init PROVE MsgInv
  OBVIOUS
<1>1. /\ queues = <<>> /\ inbox = <<>> /\ clients = <<>> /\ lines = <<>> /\ server = Idle
      /\ main = [p \in Procs |-> "start"] /\ child = [p \in Procs |-> "none"]
      /\ queue = [p \in Procs |-> 0] /\ id = [p \in Procs |-> 0]
      /\ heard = [p \in Procs |-> <<>>]
  BY DEF Init
<1>2. QueuesOK /\ InboxOK /\ EntriesOK
  BY <1>1, EmptyIsSeq, MsgAssumption DEF QueuesOK, InboxOK, EntriesOK
<1>3. LoopOK
  <2>1. /\ server.pc = "recv" /\ server.to = 0 /\ server.text \in Responses
        /\ server \in [pc : {"recv", "reply", "broadcast"}, to : Nat, text : Responses]
    BY <1>1, NoText DEF Idle
  <2>2. QED
    BY <1>1, <2>1, EmptyIsSeq DEF LoopOK
<1>4. ClientsOK
  <2>1. Len(queues) = 0 /\ queue \in [Procs -> 0 .. Len(queues)]
    BY <1>1, EmptyIsSeq
  <2>2. heard \in [Procs -> Seq(Responses)]
    BY <1>1, EmptyIsSeq
  <2>3. lines \in Seq(Procs) /\ Len(lines) <= MaxLines
    BY <1>1, EmptyIsSeq, MsgAssumption
  <2>4. QED
    BY <1>1, <2>1, <2>2, <2>3 DEF ClientsOK
<1>5. KeysOK
  BY <1>1, EmptyIsSeq DEF KeysOK
<1>6. \A p \in Procs : ~Alone(p)
  BY <1>1 DEF Alone
<1>7. QED
  BY <1>2, <1>3, <1>4, <1>5, <1>6 DEF MsgInv, ProgramsOK

LEMMA MsgStep == ASSUME MsgInv, TextsOK, [Next]_vars PROVE MsgInv'
<1>1. CASE Server
  BY <1>1, TakeInitStep, ReplyStep, TakeTextStep, BroadcastToStep, BroadcastDoneStep DEF Server
<1>2. CASE ServerRestart
  BY <1>2, RestartStep
<1>3. ASSUME NEW p \in Procs, Client(p) PROVE MsgInv'
  BY <1>3, MakeQueueStep, AnnounceStep, ReceiveIdStep, TypeLineStep, ListenStep, LeaveStep,
     ChildInterruptedStep, KillStep DEF Client
<1>4. CASE UNCHANGED vars
  <2>1. QueuesOK' /\ Stay /\ EntriesOK' /\ LoopOK' /\ UNCHANGED clientSide /\ inbox' = inbox
    BY <1>4 DEF vars, clientSide, MsgInv, ProgramsOK, QueuesOK, EntriesOK, LoopOK, Stay
  <2>2. ASSUME NEW p \in Procs, InOrder(p)
        PROVE  /\ Entries(p)' = Entries(p) /\ Box(p)' = Box(p)
               /\ \A i \in Entries(p) : EntryOK(i, p)'
    <3>1. Entries(p)' = Entries(p) /\ Box(p)' = Box(p)
      BY <1>4 DEF vars, Entries, Box
    <3>2. ASSUME NEW i \in Entries(p) PROVE EntryOK(i, p)'
      <4>1. EntryOK(i, p) /\ (Replying(i)' <=> Replying(i)) /\ Pending(i)' = Pending(i)
        BY <1>4, <2>2 DEF vars, InOrder, Replying, Pending
      <4>2. QED
        BY <1>4, <3>1, <4>1, EntryKept DEF vars
    <3>3. QED
      BY <3>1, <3>2
  <2>3. QED
    BY <2>1, <2>2, ServerSide
<1>5. QED
  BY <1>1, <1>2, <1>3, <1>4 DEF Next

-----------------------------------------------------------------------------
(* Texts and those who typed them. *)

\* Who has a listener keeps its ID and its queue.
IdsKept ==
  /\ \A p \in Procs : child[p] # "none" =>
       child'[p] # "none" /\ id'[p] = id[p] /\ queue'[p] = queue[p]
  /\ \A p \in Procs : main'[p] = "typing" => child'[p] # "none"

LEMMA SentKept ==
    ASSUME ClientsOK, IdsKept, NEW t, WasSent(t),
           lines' = lines \/ \E r \in Procs : lines' = Append(lines, r)
    PROVE  /\ WasSent(t)' /\ Author(t) \in Procs /\ Author(t)' = Author(t)
           /\ queue'[Author(t)] = queue[Author(t)]
<1>1. lines \in Seq(Procs) /\ t.text \in DOMAIN lines
  BY DEF ClientsOK, WasSent
<1>2. Author(t) \in Procs
  BY <1>1, ElementOfSeq, LenProperties DEF Author
<1>3. t.text \in DOMAIN lines' /\ lines'[t.text] = lines[t.text]
  <2>1. CASE lines' = lines
    BY <1>1, <2>1
  <2>2. ASSUME NEW r \in Procs, lines' = Append(lines, r)
        PROVE  t.text \in DOMAIN lines' /\ lines'[t.text] = lines[t.text]
    BY <1>1, <2>2, PutFacts
  <2>3. QED
    BY <2>1, <2>2
<1>4. QED
  BY <1>2, <1>3 DEF WasSent, Author, IdsKept

\* No text is typed, none is taken.
LEMMA TextsKept ==
    ASSUME ProgramsOK, TextsOK, IdsKept, lines' = lines, DOMAIN inbox' \subseteq Nat,
           NEW d \in {0, 1},
           \A n \in DOMAIN inbox' :
             inbox'[n].init \/ (n + d \in DOMAIN inbox /\ inbox'[n] = inbox[n + d]),
           \A i \in DOMAIN clients' :
             \/ clients'[i].due = <<>>
             \/ i \in DOMAIN clients /\ clients'[i] = clients[i]
    PROVE  TextsOK'
<1>1. \A t : WasSent(t) => /\ WasSent(t)' /\ Author(t)' = Author(t)
                           /\ queue'[Author(t)] = queue[Author(t)]
  BY SentKept DEF ProgramsOK
<1>2. \A n \in DOMAIN inbox' : ~inbox'[n].init => WasSent(TextAt(n))'
  <2>1. ASSUME NEW n \in DOMAIN inbox', ~inbox'[n].init PROVE WasSent(TextAt(n))'
    <3>1. n + d \in DOMAIN inbox /\ inbox'[n] = inbox[n + d]
      BY <2>1
    <3>2. PICK t : t = TextAt(n + d)
      OBVIOUS
    <3>3. WasSent(t) /\ TextAt(n)' = t
      BY <2>1, <3>1, <3>2 DEF TextsOK, TextAt
    <3>4. WasSent(t)'
      BY <1>1, <3>3
    <3>5. QED
      BY <3>3, <3>4 DEF WasSent, Author
  <2>2. QED
    BY <2>1
<1>3. \A m, n \in DOMAIN inbox' :
        m < n /\ ~inbox'[m].init /\ ~inbox'[n].init => inbox'[m].text < inbox'[n].text
  <2>1. ASSUME NEW m \in DOMAIN inbox', NEW n \in DOMAIN inbox', m < n,
               ~inbox'[m].init, ~inbox'[n].init
        PROVE  inbox'[m].text < inbox'[n].text
    <3>1. /\ m + d \in DOMAIN inbox /\ inbox'[m] = inbox[m + d]
          /\ n + d \in DOMAIN inbox /\ inbox'[n] = inbox[n + d]
      BY <2>1
    <3>2. m + d < n + d
      BY <2>1
    <3>3. QED
      BY <2>1, <3>1, <3>2 DEF TextsOK
  <2>2. QED
    BY <2>1
<1>4. ASSUME NEW i \in DOMAIN clients', NEW k \in DOMAIN clients'[i].due
      PROVE  /\ WasSent(clients[i].due[k])'
             /\ queue'[Author(clients[i].due[k])'] # clients'[i].queue_id
             /\ \A n \in DOMAIN inbox' : ~inbox'[n].init => clients'[i].due[k].text < inbox'[n].text
  <2>1. i \in DOMAIN clients /\ clients'[i] = clients[i] /\ k \in DOMAIN clients[i].due
    BY <1>4, EmptyIsSeq
  <2>2. PICK t : t = clients[i].due[k]
    OBVIOUS
  <2>3. /\ WasSent(t) /\ queue[Author(t)] # clients[i].queue_id
        /\ \A n \in DOMAIN inbox : ~inbox[n].init => t.text < inbox[n].text
    BY <2>1, <2>2 DEF TextsOK
  <2>4. WasSent(t)' /\ Author(t)' = Author(t) /\ queue'[Author(t)] = queue[Author(t)]
    BY <1>1, <2>3
  <2>5. clients'[i].due[k] = t
    BY <2>1, <2>2
  <2>6. QED
    BY <2>1, <2>3, <2>4, <2>5 DEF WasSent, Author
<1>5. QED
  BY <1>2, <1>3, <1>4 DEF TextsOK, IdsKept

\* A line typed is the last, and its number the highest.
LEMMA TypedStep == ASSUME ProgramsOK, TextsOK, NEW r \in Procs, TypeLine(r) PROVE TextsOK'
<1>1. PICK init \in BOOLEAN :
        SendToServer([init |-> init, key |-> IPC_PRIVATE, pid |-> id[r], text |-> Len(lines) + 1])
  BY DEF TypeLine
<1> DEFINE m == [init |-> init, key |-> IPC_PRIVATE, pid |-> id[r], text |-> Len(lines) + 1]
<1>2. /\ main[r] = "typing" /\ Len(lines) < MaxLines /\ lines' = Append(lines, r)
      /\ UNCHANGED <<queues, clients, server, main, child, queue, id, heard>>
  BY DEF TypeLine, serverSide
<1>3. /\ lines \in Seq(Procs) /\ DOMAIN lines = 1 .. Len(lines) /\ Len(lines) \in Nat
      /\ DOMAIN lines' = 1 .. Len(lines) + 1 /\ lines'[Len(lines) + 1] = r /\ id[r] \in Int
  BY <1>2, PutFacts DEF ProgramsOK, ClientsOK
<1>4. m \in Messages /\ m.text # YourId /\ m.text = Len(lines) + 1
  <2>1. Len(lines) + 1 \in 0 .. MaxLines /\ Len(lines) + 1 # 0
    BY <1>2, <1>3, MsgAssumption
  <2>2. QED
    BY <1>3, <2>1, MsgAssumption DEF Messages, YourId
<1>5. PICK t : t = [id |-> m.pid, text |-> m.text]
  OBVIOUS
<1>t. t.id = id[r] /\ t.text = Len(lines) + 1
  BY <1>5
<1>6. SendToServer(m)
  BY <1>1
<1> HIDE DEF m
<1>7. /\ DOMAIN inbox' = DOMAIN inbox \cup {Len(inbox) + 1} /\ Len(inbox) + 1 \notin DOMAIN inbox
      /\ inbox'[Len(inbox) + 1] = m
      /\ \A n \in DOMAIN inbox : inbox'[n] = inbox[n]
      /\ DOMAIN inbox = 1 .. Len(inbox) /\ Len(inbox) \in Nat
  BY <1>4, <1>6, InboxPut, LenProperties DEF ProgramsOK, InboxOK
<1>8. IdsKept
  BY <1>2 DEF IdsKept, TextsOK
<1>9. \A x : WasSent(x) => /\ WasSent(x)' /\ Author(x)' = Author(x)
                           /\ queue'[Author(x)] = queue[Author(x)]
                           /\ x.text < m.text
  <2>1. \A x : WasSent(x) => x.text < m.text
    BY <1>3, <1>4 DEF WasSent
  <2>2. QED
    BY <1>2, <1>8, <2>1, SentKept DEF ProgramsOK
<1>10. WasSent(t)'
  <2>1. child'[r] # "none" /\ id'[r] = id[r]
    BY <1>2 DEF TextsOK
  <2>2. t.text \in DOMAIN lines' /\ lines'[t.text] = r
    BY <1>3, <1>t
  <2>3. QED
    BY <1>t, <2>1, <2>2 DEF WasSent, Author
<1>11. ASSUME NEW n \in DOMAIN inbox', ~inbox'[n].init PROVE WasSent(TextAt(n))'
  <2>1. CASE n = Len(inbox) + 1
    <3>1. TextAt(n)' = t
      BY <1>5, <1>7, <2>1 DEF TextAt
    <3>2. QED
      BY <1>10, <3>1 DEF WasSent, Author
  <2>2. CASE n \in DOMAIN inbox
    <3>1. PICK x : x = TextAt(n)
      OBVIOUS
    <3>2. WasSent(x) /\ TextAt(n)' = x
      BY <1>7, <1>11, <2>2, <3>1 DEF TextsOK, TextAt
    <3>3. WasSent(x)'
      BY <1>9, <3>2
    <3>4. QED
      BY <3>2, <3>3 DEF WasSent, Author
  <2>3. QED
    BY <1>7, <2>1, <2>2
<1>12. ASSUME NEW j \in DOMAIN inbox', NEW n \in DOMAIN inbox', j < n,
              ~inbox'[j].init, ~inbox'[n].init
       PROVE  inbox'[j].text < inbox'[n].text
  <2>1. j \in DOMAIN inbox /\ inbox'[j] = inbox[j]
    BY <1>7, <1>12
  <2>2. CASE n = Len(inbox) + 1
    <3>1. WasSent(TextAt(j)) /\ TextAt(j).text = inbox[j].text
      BY <1>12, <2>1 DEF TextsOK, TextAt
    <3>2. inbox[j].text < m.text
      BY <1>9, <3>1
    <3>3. QED
      BY <1>7, <2>1, <2>2, <3>2
  <2>3. CASE n \in DOMAIN inbox
    BY <1>7, <1>12, <2>1, <2>3 DEF TextsOK
  <2>4. QED
    BY <1>7, <2>2, <2>3
<1>13. ASSUME NEW i \in DOMAIN clients', NEW k \in DOMAIN clients'[i].due
       PROVE  /\ WasSent(clients[i].due[k])'
              /\ queue'[Author(clients[i].due[k])'] # clients'[i].queue_id
              /\ \A n \in DOMAIN inbox' : ~inbox'[n].init => clients'[i].due[k].text < inbox'[n].text
  <2>1. PICK x : x = clients[i].due[k]
    OBVIOUS
  <2>2. /\ WasSent(x) /\ queue[Author(x)] # clients[i].queue_id
        /\ \A n \in DOMAIN inbox : ~inbox[n].init => x.text < inbox[n].text
    BY <1>2, <1>13, <2>1 DEF TextsOK
  <2>3. WasSent(x)' /\ Author(x)' = Author(x) /\ queue'[Author(x)] = queue[Author(x)] /\ x.text < m.text
    BY <1>9, <2>2
  <2>4. clients'[i].due[k] = x /\ clients'[i].queue_id = clients[i].queue_id
    BY <1>2, <2>1
  <2>5. \A n \in DOMAIN inbox' : ~inbox'[n].init => x.text < inbox'[n].text
    BY <1>7, <2>2, <2>3
  <2>6. QED
    BY <2>2, <2>3, <2>4, <2>5 DEF WasSent, Author
<1>14. QED
  BY <1>2, <1>11, <1>12, <1>13 DEF TextsOK

\* A text taken was the first that waited.
LEMMA TakenStep == ASSUME ProgramsOK, TextsOK, TakeText PROVE TextsOK'
<1> DEFINE t == [id |-> Head(inbox).pid, text |-> Head(inbox).text]
<1>1. /\ inbox # <<>> /\ ~Head(inbox).init /\ inbox' = Tail(inbox)
      /\ clients' = [i \in DOMAIN clients |->
                       IF clients[i].queue_id = queue[Author(t)] THEN clients[i]
                       ELSE [clients[i] EXCEPT !.due = Append(@, t)]]
      /\ UNCHANGED <<main, child, queue, id, lines>>
  BY DEF TakeText, clientSide
<1>2. /\ Head(inbox) = inbox[1] /\ 1 \in DOMAIN inbox
      /\ \A n \in DOMAIN inbox' : /\ n + 1 \in DOMAIN inbox /\ inbox'[n] = inbox[n + 1]
                                  /\ n \in Nat \ {0}
      /\ Head(inbox) \in Messages /\ DOMAIN inbox' \subseteq Nat
  BY <1>1, InboxPopped DEF ProgramsOK
<1>3. IdsKept
  BY <1>1 DEF IdsKept, TextsOK
<1>4. /\ WasSent(t) /\ t \in Responses
      /\ \A n \in DOMAIN inbox' : ~inbox'[n].init => t.text < inbox'[n].text
  <2>1. t = TextAt(1)
    BY <1>2 DEF TextAt
  <2>2. \A n \in DOMAIN inbox' : ~inbox'[n].init => t.text < inbox'[n].text
    <3>1. ASSUME NEW n \in DOMAIN inbox', ~inbox'[n].init PROVE t.text < inbox'[n].text
      <4>1. n + 1 \in DOMAIN inbox /\ inbox'[n] = inbox[n + 1] /\ 1 < n + 1
        BY <1>2
      <4>2. t.text = inbox[1].text /\ ~inbox[1].init
        BY <1>1, <1>2
      <4>3. QED
        BY <1>2, <3>1, <4>1, <4>2 DEF TextsOK
    <3>2. QED
      BY <3>1
  <2>3. t \in Responses
    BY <1>2 DEF Messages, Responses, YourId
  <2>4. QED
    BY <1>1, <1>2, <2>1, <2>2, <2>3 DEF TextsOK
<1> HIDE DEF t
<1>5. \A x : WasSent(x) => /\ WasSent(x)' /\ Author(x)' = Author(x)
                           /\ queue'[Author(x)] = queue[Author(x)]
  BY <1>1, <1>3, SentKept DEF ProgramsOK
<1>6. \A n \in DOMAIN inbox' : ~inbox'[n].init => WasSent(TextAt(n))'
  <2>1. ASSUME NEW n \in DOMAIN inbox', ~inbox'[n].init PROVE WasSent(TextAt(n))'
    <3>1. PICK x : x = TextAt(n + 1)
      OBVIOUS
    <3>2. WasSent(x) /\ TextAt(n)' = x
      BY <1>2, <2>1, <3>1 DEF TextsOK, TextAt
    <3>3. WasSent(x)'
      BY <1>5, <3>2
    <3>4. QED
      BY <3>2, <3>3 DEF WasSent, Author
  <2>2. QED
    BY <2>1
<1>7. \A m, n \in DOMAIN inbox' :
        m < n /\ ~inbox'[m].init /\ ~inbox'[n].init => inbox'[m].text < inbox'[n].text
  <2>1. ASSUME NEW m \in DOMAIN inbox', NEW n \in DOMAIN inbox', m < n,
               ~inbox'[m].init, ~inbox'[n].init
        PROVE  inbox'[m].text < inbox'[n].text
    <3>1. m + 1 < n + 1
      BY <1>2, <2>1
    <3>2. QED
      BY <1>2, <2>1, <3>1 DEF TextsOK
  <2>2. QED
    BY <2>1
<1>8. ASSUME NEW i \in DOMAIN clients', NEW k \in DOMAIN clients'[i].due
      PROVE  /\ WasSent(clients[i].due[k])'
             /\ queue'[Author(clients[i].due[k])'] # clients'[i].queue_id
             /\ \A n \in DOMAIN inbox' : ~inbox'[n].init => clients'[i].due[k].text < inbox'[n].text
  <2>1. i \in DOMAIN clients /\ clients[i] \in ClientRecords /\ clients[i].due \in Seq(Responses)
    BY <1>1, EntryTypes DEF ProgramsOK
  <2>2. /\ clients'[i].queue_id = clients[i].queue_id
        /\ clients'[i].due = IF clients[i].queue_id = queue[Author(t)]
                               THEN clients[i].due ELSE Append(clients[i].due, t)
    BY <1>1, <2>1 DEF ClientRecords
  <2>3. PICK x : x = clients'[i].due[k]
    OBVIOUS
  <2>4. \/ k \in DOMAIN clients[i].due /\ x = clients[i].due[k]
        \/ x = t /\ clients[i].queue_id # queue[Author(t)]
    <3>1. CASE clients[i].queue_id = queue[Author(t)]
      BY <1>8, <2>2, <2>3, <3>1
    <3>2. CASE clients[i].queue_id # queue[Author(t)]
      <4>1. clients'[i].due = Append(clients[i].due, t)
        BY <2>2, <3>2
      <4>2. k \in DOMAIN clients[i].due \/ k = Len(clients[i].due) + 1
        BY <1>4, <1>8, <2>1, <4>1, PutFacts
      <4>3. QED
        BY <1>4, <2>1, <2>3, <3>2, <4>1, <4>2, PutFacts
    <3>3. QED
      BY <3>1, <3>2
  <2>5. /\ WasSent(x) /\ queue[Author(x)] # clients[i].queue_id
        /\ \A n \in DOMAIN inbox' : ~inbox'[n].init => x.text < inbox'[n].text
    <3>1. CASE x = t /\ clients[i].queue_id # queue[Author(t)]
      BY <1>4, <3>1
    <3>2. CASE k \in DOMAIN clients[i].due /\ x = clients[i].due[k]
      BY <1>2, <2>1, <3>2 DEF TextsOK
    <3>3. QED
      BY <2>4, <3>1, <3>2
  <2>6. WasSent(x)' /\ Author(x)' = Author(x) /\ queue'[Author(x)] = queue[Author(x)]
    BY <1>5, <2>5
  <2>7. QED
    BY <2>2, <2>3, <2>5, <2>6 DEF WasSent, Author
<1>9. QED
  BY <1>3, <1>6, <1>7, <1>8 DEF TextsOK, IdsKept

LEMMA TextsStep == ASSUME ProgramsOK, TextsOK, [Next]_vars PROVE TextsOK'
<1>1. CASE TakeText
  BY <1>1, TakenStep
<1>2. ASSUME NEW p \in Procs, TypeLine(p) PROVE TextsOK'
  BY <1>2, TypedStep
<1>3. DOMAIN inbox = 1 .. Len(inbox) /\ Len(inbox) \in Nat /\ DOMAIN clients = 1 .. Len(clients)
      /\ Len(clients) \in Nat
  BY EntryTypes, LenProperties DEF ProgramsOK, InboxOK
<1>4. \A n \in DOMAIN inbox : n + 0 = n
  BY <1>3
<1>5. CASE Reply \/ BroadcastTo \/ BroadcastDone \/ UNCHANGED vars
  <2>1. UNCHANGED <<inbox, clients, main, child, queue, id, lines>>
    BY <1>5 DEF Reply, BroadcastTo, BroadcastDone, vars, clientSide
  <2>2. IdsKept
    BY <2>1 DEF IdsKept, TextsOK
  <2>3. \A n \in DOMAIN inbox' : n + 0 \in DOMAIN inbox /\ inbox'[n] = inbox[n + 0]
    BY <1>4, <2>1
  <2>4. QED
    BY <1>3, <2>1, <2>2, <2>3, TextsKept
<1>6. CASE ServerRestart
  <2>1. clients' = <<>> /\ UNCHANGED <<inbox, main, child, queue, id, lines>>
    BY <1>6 DEF ServerRestart, clientSide
  <2>2. IdsKept
    BY <2>1 DEF IdsKept, TextsOK
  <2>3. \A n \in DOMAIN inbox' : n + 0 \in DOMAIN inbox /\ inbox'[n] = inbox[n + 0]
    BY <1>4, <2>1
  <2>4. QED
    BY <1>3, <2>1, <2>2, <2>3, EmptyIsSeq, TextsKept
<1>7. CASE TakeInit
  <2>1. inbox # <<>> /\ inbox' = Tail(inbox) /\ UNCHANGED <<main, child, queue, id, lines>>
    BY <1>7 DEF TakeInit, clientSide
  <2>2. IdsKept
    BY <2>1 DEF IdsKept, TextsOK
  <2>3. /\ \A n \in DOMAIN inbox' : n + 1 \in DOMAIN inbox /\ inbox'[n] = inbox[n + 1]
        /\ DOMAIN inbox' \subseteq Nat
    BY <2>1, InboxPopped DEF ProgramsOK
  <2>4. \/ clients' = clients
        \/ \E q : clients' = Append(clients, [client_id |-> Len(clients) + 1, queue_id |-> q,
                                             due |-> <<>>])
    BY <1>7, Zenon DEF TakeInit
  <2>5. \A i \in DOMAIN clients' : clients'[i].due = <<>> \/ (i \in DOMAIN clients /\ clients'[i] = clients[i])
    <3>1. ASSUME NEW q, clients' = Append(clients, [client_id |-> Len(clients) + 1, queue_id |-> q,
                                                    due |-> <<>>]),
                 NEW i \in DOMAIN clients'
          PROVE  clients'[i].due = <<>> \/ (i \in DOMAIN clients /\ clients'[i] = clients[i])
      BY <1>3, <3>1 DEF ProgramsOK, EntriesOK
    <3>2. QED
      BY <2>4, <3>1
  <2>6. QED
    BY <2>1, <2>2, <2>3, <2>5, TextsKept
<1>8. ASSUME NEW p \in Procs, Client(p), ~TypeLine(p), ~Announce(p) PROVE TextsOK'
  <2>1. UNCHANGED <<inbox, clients, lines>>
    BY <1>8 DEF Client, MakeQueue, ReceiveId, Listen, Leave, ChildInterrupted, KillMain,
                KillChild, serverSide
  <2>2. IdsKept
    <3>1. CASE MakeQueue(p)
      BY <3>1, ClientTypes DEF MakeQueue, ProgramsOK, ClientsOK, IdsKept, TextsOK
    <3>2. CASE ReceiveId(p)
      BY <3>2 DEF ReceiveId, ProgramsOK, ClientsOK, IdsKept, TextsOK
    <3>3. CASE Listen(p)
      BY <3>3 DEF Listen, IdsKept, TextsOK
    <3>4. CASE Leave(p) \/ KillMain(p)
      BY <3>4 DEF Leave, KillMain, ProgramsOK, ClientsOK, IdsKept, TextsOK
    <3>5. CASE ChildInterrupted(p) \/ KillChild(p)
      BY <3>5 DEF ChildInterrupted, KillChild, ProgramsOK, ClientsOK, IdsKept, TextsOK
    <3>6. QED
      BY <1>8, <3>1, <3>2, <3>3, <3>4, <3>5 DEF Client
  <2>3. \A n \in DOMAIN inbox' : n + 0 \in DOMAIN inbox /\ inbox'[n] = inbox[n + 0]
    BY <1>4, <2>1
  <2>4. QED
    BY <1>3, <2>1, <2>2, <2>3, TextsKept
<1>9. ASSUME NEW p \in Procs, Announce(p) PROVE TextsOK'
  <2>1. /\ main[p] = "announce" /\ main' = [main EXCEPT ![p] = "waiting"]
        /\ SendToServer([init |-> TRUE, key |-> queues[queue[p]].key, pid |-> 0, text |-> 0])
        /\ UNCHANGED <<queues, clients, child, queue, id, lines>>
    BY <1>9 DEF Announce, serverSide
  <2>2. IdsKept
    BY <2>1 DEF IdsKept, TextsOK, ProgramsOK, ClientsOK
  <2>3. [init |-> TRUE, key |-> queues[queue[p]].key, pid |-> 0, text |-> 0] \in Messages
    <3>1. queues[queue[p]].key \in Keys
      BY <2>1, ClientTypes
    <3>2. QED
      BY <3>1, MsgAssumption DEF Messages
  <2>4. \A n \in DOMAIN inbox' : inbox'[n].init \/ (n + 0 \in DOMAIN inbox /\ inbox'[n] = inbox[n + 0])
    BY <1>4, <2>1, <2>3, InboxPut DEF ProgramsOK
  <2>5. DOMAIN inbox' \subseteq Nat
    BY <1>3, <2>1, <2>3, InboxPut DEF ProgramsOK
  <2>6. QED
    BY <2>1, <2>2, <2>4, <2>5, TextsKept
<1>10. QED
  BY <1>1, <1>2, <1>5, <1>6, <1>7, <1>8, <1>9 DEF Next, Server

MsgTextsInv == MsgInv /\ TextsOK

LEMMA MsgInvariant == Spec => []MsgTextsInv
<1>1. Init => MsgTextsInv
  <2>1. Init => TextsOK
    BY EmptyIsSeq DEF Init, TextsOK
  <2>2. QED
    BY <2>1, MsgInit DEF MsgTextsInv
<1>2. MsgTextsInv /\ [Next]_vars => MsgTextsInv'
  BY MsgStep, TextsStep DEF MsgTextsInv, MsgInv
<1>3. QED
  BY <1>1, <1>2, PTL DEF Spec

-----------------------------------------------------------------------------
(* The theorems. *)

\* The table is never filled beyond its last slot, though clients announce
\* themselves, leave and are killed at any time and the server is started again; every
\* entry is for a queue there has been; and a client with a key of its own goes by the
\* ID the server has it under (server.c:61-90, client.c:66-88).
THEOREM MessagesTableOK == Spec => []TableOK
<1>1. ASSUME MsgInv PROVE TypeOK
  <2>1. ProgramsOK
    BY <1>1 DEF MsgInv
  <2>2. ASSUME NEW q \in DOMAIN queues
        PROVE  /\ queues[q].key \in Keys \cup {IPC_PRIVATE} /\ queues[q].live \in BOOLEAN
               /\ queues[q].msgs \in Seq(Responses) /\ Len(queues[q].msgs) <= QueueCap
    <3>1. queues[q] \in QueueRecords
      BY <2>1, QueueTypes DEF ProgramsOK
    <3>2. QED
      BY <2>1, <3>1 DEF ProgramsOK, QueuesOK, QueueRecords
  <2>3. server \in [pc : {"recv", "reply", "broadcast"}, to : 0..(MAX_CLIENTS + 1),
                    text : Responses]
    <3>1. server.to \in Nat /\ server.to <= Len(clients) + 1
      BY <2>1 DEF ProgramsOK, LoopOK
    <3>2. Len(clients) \in Nat /\ Len(clients) <= MAX_CLIENTS
      BY <2>1, EntryTypes DEF ProgramsOK, EntriesOK
    <3>3. server.to \in 0 .. (MAX_CLIENTS + 1)
      BY <3>1, <3>2, MsgAssumption
    <3>4. QED
      BY <2>1, <3>3 DEF ProgramsOK, LoopOK
  <2>4. QED
    BY <2>1, <2>2, <2>3 DEF TypeOK, ProgramsOK, InboxOK, EntriesOK, ClientsOK
<1>2. ASSUME MsgInv PROVE IdsAgree
  <2>1. ASSUME NEW i \in DOMAIN clients, NEW p \in Procs, Owner(i, p), child[p] # "none"
        PROVE  id[p] = clients[i].client_id
    BY <1>2, <2>1 DEF MsgInv, Owner, InOrder, Entries, EntryOK, ProgramsOK, EntriesOK
  <2>2. QED
    BY <2>1 DEF IdsAgree
<1>3. MsgTextsInv => TableOK
  BY <1>1, <1>2 DEF TableOK, MsgTextsInv
<1>4. QED
  BY <1>3, MsgInvariant, PTL

\* A client with a key of its own gets the texts of the other runs that the server took
\* while it was registered, each once and in that order, and never its own; whoever is
\* killed, leaves or shares a queue, and if the server is started again, only the text
\* of a stranger who types under the client's ID can be missing (server.c:34-46 against
\* client.c:36-44).
THEOREM MessagesDelivered == Spec => []DeliversDue
<1>1. ASSUME MsgInv, TextsOK PROVE DeliversDue
  <2>1. ASSUME NEW i \in DOMAIN clients, NEW p \in Procs, Owner(i, p), queues[queue[p]].live
        PROVE  Faithful(heard[p] \o Texts(queues[queue[p]].msgs) \o Pending(i), clients[i].due, i)
    <3>1. InOrder(p) /\ EntryOK(i, p)
      BY <1>1, <2>1 DEF MsgInv, Owner, InOrder, Entries
    <3>2. CASE Replying(i)
      <4>1. Box(p) = <<>> /\ heard[p] = <<>> /\ clients[i].due = <<>>
        BY <3>1, <3>2 DEF EntryOK, InOrder
      <4>2. Texts(<<>>) = <<>> /\ Pending(i) = <<>>
        BY <3>2 DEF Texts, Pending, Replying
      <4>3. <<>> \o <<>> \o <<>> = <<>>
        BY EmptyIsSeq, ConcatEmptySeq
      <4>4. QED
        BY <4>1, <4>2, <4>3, NothingDue DEF Box
    <3>3. CASE ~Replying(i)
      BY <2>1, <3>1, <3>3 DEF EntryOK, Box
    <3>4. QED
      BY <3>2, <3>3
  <2>2. ASSUME NEW i \in DOMAIN clients, NEW p \in Procs, Owner(i, p),
               NEW l \in DOMAIN clients[i].due, clients[i].due[l].id = i
        PROVE  Stranger(Author(clients[i].due[l]))
    <3>1. PICK t : t = clients[i].due[l]
      OBVIOUS
    <3>2. WasSent(t) /\ queue[Author(t)] # clients[i].queue_id
      BY <1>1, <3>1 DEF TextsOK
    <3>3. Author(t) \in Procs
      BY <1>1, <3>2, ElementOfSeq, LenProperties
         DEF MsgInv, ProgramsOK, ClientsOK, WasSent, Author
    <3>4. SUFFICES ASSUME Alone(Author(t)), NEW j \in DOMAIN clients,
                          clients[j].queue_id = queue[Author(t)]
                   PROVE  FALSE
      BY <3>1 DEF Stranger
    <3>5. EntryOK(j, Author(t))
      BY <1>1, <3>3, <3>4 DEF MsgInv, InOrder, Entries
    <3>6. id[Author(t)] = j /\ id[Author(t)] = i
      BY <2>2, <3>1, <3>2, <3>5 DEF EntryOK, WasSent
    <3>7. QED
      BY <3>2, <3>4, <3>6
  <2>3. \A i \in DOMAIN clients : clients[i].client_id = i
    BY <1>1 DEF MsgInv, ProgramsOK, EntriesOK
  <2>4. SUFFICES ASSUME NEW i \in DOMAIN clients, NEW p \in Procs, Owner(i, p),
                        queues[queue[p]].live
                 PROVE  LET got == heard[p] \o Texts(queues[queue[p]].msgs) \o Pending(i)
                            due == clients[i].due
                        IN  /\ \A k, l \in DOMAIN got : k < l => got[k].text < got[l].text
                            /\ \A k \in DOMAIN got : \E l \in DOMAIN due : got[k] = due[l]
                            /\ \A l \in DOMAIN due :
                                 \/ \E k \in DOMAIN got : got[k] = due[l]
                                 \/ /\ due[l].id = clients[i].client_id
                                    /\ Stranger(Author(due[l]))
    BY DEF DeliversDue
  <2> DEFINE got == heard[p] \o Texts(queues[queue[p]].msgs) \o Pending(i)
             due == clients[i].due
  <2>5. Faithful(got, due, i)
    BY <2>1, <2>4
  <2>6. \A l \in DOMAIN due : due[l].id = i => Stranger(Author(due[l]))
    BY <2>2, <2>4
  <2>7. clients[i].client_id = i
    BY <2>3, <2>4
  <2> HIDE DEF got, due
  <2>8. /\ \A k, l \in DOMAIN got : k < l => got[k].text < got[l].text
        /\ \A k \in DOMAIN got : \E l \in DOMAIN due : got[k] = due[l]
        /\ \A l \in DOMAIN due : \/ \E k \in DOMAIN got : got[k] = due[l]
                                 \/ due[l].id = i /\ Stranger(Author(due[l]))
    BY <2>5, <2>6 DEF Faithful
  <2>9. QED
    BY <2>7, <2>8 DEF got, due
<1>2. MsgTextsInv => DeliversDue
  BY <1>1 DEF MsgTextsInv
<1>3. QED
  BY <1>2, MsgInvariant, PTL
=============================================================================
