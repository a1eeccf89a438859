--------------------------- MODULE ChannelsProofs ---------------------------
(***************************************************************************)
(* Proofs about Channels: it is well typed, events are taken once and in   *)
(* order, answers go where they were asked, by the agent the bindings      *)
(* name, and under the pairing policy only paired peers are served; for    *)
(* any rooms, texts, bindings and bounds.                                  *)
(***************************************************************************)
EXTENDS Channels, FiniteSetTheorems, WellFoundedInduction, TLAPS

\* An event is answered in its room, but for a Signal group, and its message
\* was heard.
Addressed(e) ==
  /\ e.peer = e.msg.room \/ (kind = "signal" /\ e.msg.room \in Groups)
  /\ e.msg.n <= Len(heard)

EventsAddressed ==
  /\ \A e \in handling : Addressed(e)
  /\ \A i \in DOMAIN queue : Addressed(queue[i])
  /\ \A i \in DOMAIN forwarded : Addressed(forwarded[i])
  /\ \A t \in turns : Addressed(t.event)

\* The adapters whose handlers do not suspend
InOrder == kind \in {"discord", "matrix", "signal"}

Comes(e, f) == e # f /\ (InOrder => e.msg.n < f.msg.n)

\* An event is in a handler, in the queue, or forwarded, and what is queued
\* comes after what was forwarded.
Ordered ==
  /\ \A i, j \in DOMAIN forwarded : i < j => Comes(forwarded[i], forwarded[j])
  /\ \A i, j \in DOMAIN queue : i < j => Comes(queue[i], queue[j])
  /\ \A i \in DOMAIN forwarded, j \in DOMAIN queue : Comes(forwarded[i], queue[j])
  /\ \A e \in handling : /\ ~InOrder
                         /\ \A i \in DOMAIN queue : queue[i] # e
                         /\ \A i \in DOMAIN forwarded : forwarded[i] # e

\* A turn that runs is the agent's the bindings name.
Routed == \A t \in turns : t.step = "running" => t.agent = Resolve(t.event.peer)

\* A paired peer has a code that was approved.
PairedByCode == \A r \in paired : \E c \in codes : c.room = r /\ c.age = "approved"

IInv ==
  /\ TypeOK /\ EventsAddressed /\ Ordered /\ Routed /\ PairedByCode
  /\ AnsweredWhereAsked /\ PairedAreServed

-----------------------------------------------------------------------------
(* The bindings.                                                           *)

\* What the proofs need of the assumption on the constants
LEMMA ConstantFacts ==
  /\ Kinds \subseteq Channel /\ Any \notin Rooms \cup Channel
  /\ HomeOf \in [Rooms -> Dms] /\ \A r \in Dms : HomeOf[r] = r
  /\ Texts \subseteq [room : Rooms, calls : {"nobody", "somebody", "bot"}, words : BOOLEAN]
  /\ MaxMessages \in Nat /\ MaxStarts \in Nat /\ Dms \cap Groups = {}
BY RoomsAssumption

LEMMA BindingFacts ==
  /\ Len(Bindings) \in Nat /\ DOMAIN Bindings = 1..Len(Bindings)
  /\ \A i \in DOMAIN Bindings : Bindings[i].peer \in Rooms \cup {Any}
<1> DEFINE B == [peer : Rooms \cup {Any}, channel : Channel \cup {Any}, agent : STRING]
<1>1. Bindings \in Seq(B) /\ \A b \in B : b.peer \in Rooms \cup {Any}
  BY RoomsAssumption
<1> HIDE DEF B
<1> QED BY <1>1

LEMMA WeightValues ==
  ASSUME NEW peer \in Rooms, NEW i \in DOMAIN Bindings
  PROVE  Weight(i, peer) \in {-1, 0, 10, 60, 70}
BY DEF Weight, Score

LEMMA WinnerWins ==
  ASSUME NEW peer \in Rooms, Matching(peer) # {}
  PROVE  /\ Winner(peer) \in Matching(peer)
         /\ \A j \in Matching(peer) \ {Winner(peer)} : Before(Winner(peer), j, peer)
<1> DEFINE S == Matching(peer)
           Above(i) == {j \in S : Before(j, i, peer)}
<1>1. /\ S \subseteq Nat /\ S \subseteq DOMAIN Bindings
      /\ \A i \in S : Weight(i, peer) \in Int
  BY WeightValues, BindingFacts DEF Matching
<1>2. IsFiniteSet(S)
  <2>1. S \subseteq 1..Len(Bindings) /\ Len(Bindings) \in Nat
    BY BindingFacts DEF Matching
  <2>2. IsFiniteSet(1..Len(Bindings))
    BY <2>1, FS_Interval
  <2> HIDE DEF S
  <2> QED BY <2>1, <2>2, FS_Subset
<1>3. IsWellFoundedOn(StrictSubsetOrdering(S), SUBSET S)
  <2> HIDE DEF S
  <2> QED BY <1>2, FS_StrictSubsetOrderingWellFounded, FS_FiniteSubsetsOfFinite
<1>4. {Above(i) : i \in S} \subseteq SUBSET S /\ {Above(i) : i \in S} # {}
  <2>1. \A i \in S : Above(i) \in SUBSET S
    OBVIOUS
  <2>2. S # {}
    OBVIOUS
  <2> HIDE DEF S, Above
  <2> QED BY <2>1, <2>2
<1>5. PICK A \in {Above(i) : i \in S} : \A B \in {Above(i) : i \in S} : ~(<<B, A>> \in StrictSubsetOrdering(S))
  <2> HIDE DEF Above, S
  <2> QED BY <1>3, <1>4, WFMin
<1>6. PICK i \in S : A = Above(i)
  OBVIOUS
<1>7. ASSUME NEW j \in S, Before(j, i, peer)
      PROVE  FALSE
  <2>1. \A k \in S : Before(k, j, peer) => Before(k, i, peer)
    BY <1>1, <1>7 DEF Before
  <2>2. ~Before(j, j, peer)
    BY <1>1 DEF Before
  <2>3. Above(j) \subseteq Above(i) /\ j \in Above(i) /\ j \notin Above(j)
    BY <1>7, <2>1, <2>2
  <2>4. <<Above(j), A>> \in StrictSubsetOrdering(S)
    BY <1>6, <2>3 DEF StrictSubsetOrdering
  <2> QED BY <1>5, <2>4
<1>8. \A j \in S \ {i} : Before(i, j, peer)
  BY <1>1, <1>7 DEF Before
<1> QED BY <1>8 DEF Winner

LEMMA ResolveType ==
  ASSUME NEW peer \in Rooms
  PROVE  Resolve(peer) \in Agent
<1>1. CASE Matching(peer) = {}
  BY <1>1 DEF Resolve, Agent
<1>2. CASE Matching(peer) # {}
  <2>1. Winner(peer) \in DOMAIN Bindings
    BY <1>2, WinnerWins DEF Matching
  <2> QED BY <1>2, <2>1 DEF Resolve, Agent
<1> QED BY <1>1, <1>2

\* When bindings name the peer, for the channel or for all, one of them wins.
LEMMA NamedWins ==
  ASSUME kind \in Channel, NEW peer \in Rooms,
         {i \in DOMAIN Bindings : Bindings[i].peer = peer /\ Bindings[i].channel \in {Any, kind}} # {}
  PROVE  \E i \in DOMAIN Bindings : /\ Bindings[i].peer = peer
                                    /\ Bindings[i].channel \in {Any, kind}
                                    /\ Bindings[i].agent = Resolve(peer)
<1>1. PICK j \in DOMAIN Bindings : Bindings[j].peer = peer /\ Bindings[j].channel \in {Any, kind}
  OBVIOUS
<1>2. Weight(j, peer) \in {60, 70}
  BY <1>1, ConstantFacts DEF Weight, Score
<1>3. j \in Matching(peer)
  BY <1>2 DEF Matching
<1> DEFINE w == Winner(peer)
<1>4. w \in Matching(peer) /\ w \in DOMAIN Bindings /\ (w # j => Before(w, j, peer))
  BY <1>3, WinnerWins DEF Matching
<1>5. Weight(w, peer) \in {60, 70}
  BY <1>2, <1>4, WeightValues DEF Before
<1>6. Bindings[w].peer = peer /\ Bindings[w].channel \in {Any, kind}
  BY <1>4, <1>5, ConstantFacts DEF Weight, Score
<1>7. Resolve(peer) = Bindings[w].agent
  BY <1>3 DEF Resolve
<1> QED BY <1>4, <1>6, <1>7

LEMMA ResolveKept ==
  ASSUME kind' = kind, NEW peer
  PROVE  Resolve(peer)' = Resolve(peer)
<1>1. \A i : Weight(i, peer)' = Weight(i, peer)
  BY DEF Weight, Score
<1>2. Matching(peer)' = Matching(peer)
  BY <1>1 DEF Matching
<1>3. \A i, j : Before(i, j, peer)' = Before(i, j, peer)
  BY <1>1 DEF Before
<1>4. Winner(peer)' = Winner(peer)
  BY <1>2, <1>3, Zenon DEF Winner
<1> QED BY <1>2, <1>4 DEF Resolve

-----------------------------------------------------------------------------
(* The adapters.                                                           *)

\* What a handler enqueues is the message, addressed to its room or, of a
\* Signal group, to its writer.
LEMMA HandlesFacts ==
  ASSUME kind \in Channel, NEW m \in Message, NEW e \in Handles(m)
  PROVE  /\ e \in Event /\ e.msg = m
         /\ e.peer = m.room \/ (kind = "signal" /\ m.room \in Groups)
<1>1. /\ m.room \in Rooms /\ HomeOf[m.room] \in Rooms
      /\ m.room \notin Groups => HomeOf[m.room] = m.room
  BY ConstantFacts DEF Message, Rooms
<1>2. ASSUME NEW peer \in Rooms, NEW taken, NEW f \in Enqueued(m, peer, taken)
      PROVE  f = [msg |-> m, peer |-> peer, copy |-> 1]
  BY <1>2 DEF Enqueued
<1>3. CASE kind = "slack"
  <2>1. e \in SlackEvents(m)
    BY <1>3 DEF Handles
  <2>2. PICK f \in SlackHandles(m) : e = f \/ e = [f EXCEPT !.copy = 2]
    BY <2>1 DEF SlackEvents
  <2>3. f = [msg |-> m, peer |-> m.room, copy |-> 1]
    BY <1>1, <1>2 DEF SlackHandles
  <2>4. e.msg = m /\ e.peer = m.room /\ e \in Event
    BY <1>1, <2>2, <2>3 DEF Event
  <2> QED BY <2>4
<1>4. CASE kind = "signal"
  <2>1. e = [msg |-> m, peer |-> HomeOf[m.room], copy |-> 1]
    BY <1>1, <1>2, <1>4 DEF Handles, SignalHandles
  <2> QED BY <1>1, <1>4, <2>1 DEF Event
<1>5. CASE kind \in {"telegram", "discord", "matrix"}
  <2>1. e = [msg |-> m, peer |-> m.room, copy |-> 1]
    BY <1>1, <1>2, <1>5 DEF Handles, TelegramHandles, DiscordHandles, MatrixHandles
  <2> QED BY <1>1, <2>1 DEF Event
<1> QED BY <1>3, <1>4, <1>5 DEF Channel

LEMMA ConnectsFacts ==
  ASSUME kind \in Channel, NEW c \in Connects, feed \in BOOLEAN, knows \in BOOLEAN
  PROVE  c.link \in {"connected", "failed"} /\ c.feed \in BOOLEAN /\ c.knows \in BOOLEAN
BY DEF Channel, Connects, TelegramConnects, DiscordConnects, SlackConnects, MatrixConnects,
       SignalConnects

\* Only Matrix and Signal take for delivered what did not arrive.
LEMMA SendsFacts ==
  ASSUME kind \in Channel, feed \in BOOLEAN, NEW o \in Sends
  PROVE  /\ o \in Outcome
         /\ o.believed /\ ~o.arrived => kind \in {"matrix", "signal"}
<1>1. CASE kind = "telegram"
  BY <1>1 DEF Sends, TelegramSends, Done, Raises, Outcome
<1>2. CASE kind = "discord"
  BY <1>2 DEF Sends, DiscordSends, Done, Raises, Outcome
<1>3. CASE kind = "slack"
  BY <1>3 DEF Sends, SlackSends, Done, Raises, Outcome
<1>4. CASE kind = "matrix"
  BY <1>4 DEF Sends, MatrixSends, Done, Raises, Outcome
<1>5. CASE kind = "signal"
  BY <1>5 DEF Sends, SignalSends, Done, Raises, Outcome
<1> QED BY <1>1, <1>2, <1>3, <1>4, <1>5 DEF Channel

-----------------------------------------------------------------------------
(* The invariant.                                                          *)

LEMMA InitIInv == Init => IInv
<1> SUFFICES ASSUME Init
             PROVE  IInv
  OBVIOUS
<1>1. TypeOK
  <2>1. <<>> \in Seq(Event) /\ <<>> \in Seq(Message)
    OBVIOUS
  <2>2. /\ handling \in SUBSET Event /\ queue \in Seq(Event) /\ turns \in SUBSET Turn
        /\ codes \in SUBSET Code /\ paired \in SUBSET Rooms /\ answer = {}
        /\ heard \in Seq(Message) /\ forwarded \in Seq(Event)
    BY <2>1 DEF Init
  <2> QED BY <2>2 DEF Init, TypeOK
<1>2. EventsAddressed /\ Ordered /\ Routed /\ PairedByCode
  BY DEF Init, EventsAddressed, Ordered, Routed, PairedByCode
<1>3. AnsweredWhereAsked /\ PairedAreServed
  BY DEF Init, AnsweredWhereAsked, PairedAreServed
<1> QED BY <1>1, <1>2, <1>3 DEF IInv

\* A process that begins or ends forgets everything but what was heard and
\* forwarded.
LEMMA ProcessKeeps ==
  ASSUME IInv, Start \/ Crash
  PROVE  IInv'
<1>1. /\ handling' = {} /\ queue' = <<>> /\ turns' = {} /\ codes' = {} /\ paired' = {}
      /\ answer' = {}
      /\ UNCHANGED <<config, heard, forwarded>>
  BY DEF Start, Crash
<1>2. TypeOK'
  <2>1. queue' \in Seq(Event)
    BY <1>1
  <2>2. /\ gateway' \in {"down", "starting"} /\ link' \in {"absent", "off"} /\ starts' \in Nat
        /\ feed' \in BOOLEAN /\ knows' \in BOOLEAN
    <3>1. CASE Start
      <4>1. starts' \in Nat
        BY <3>1 DEF Start, IInv, TypeOK
      <4>2. gateway' = "starting" /\ link' \in {"absent", "off"}
        BY <3>1 DEF Start
      <4>3. feed' \in BOOLEAN /\ knows' \in BOOLEAN
        BY <3>1 DEF Start
      <4> QED BY <4>1, <4>2, <4>3
    <3>2. CASE Crash
      BY <3>2 DEF Crash, IInv, TypeOK
    <3> QED BY <3>1, <3>2
  <2> QED BY <1>1, <2>1, <2>2 DEF IInv, TypeOK, config
<1>3. EventsAddressed' /\ Ordered'
  BY <1>1 DEF IInv, EventsAddressed, Addressed, Ordered, Comes, InOrder, config
<1>4. Routed' /\ PairedByCode' /\ AnsweredWhereAsked' /\ PairedAreServed'
  BY <1>1 DEF Routed, PairedByCode, AnsweredWhereAsked, PairedAreServed
<1> QED BY <1>2, <1>3, <1>4 DEF IInv

LEMMA OthersKept ==
  ASSUME IInv, UNCHANGED <<config, turns, pairingVars, answer>>
  PROVE  Routed' /\ PairedByCode' /\ AnsweredWhereAsked' /\ PairedAreServed'
<1>1. kind' = kind /\ policy' = policy /\ codes' = codes /\ paired' = paired
  BY DEF config, pairingVars
<1>2. Routed'
  BY <1>1, ResolveKept DEF IInv, Routed
<1> QED BY <1>1, <1>2 DEF IInv, PairedByCode, AnsweredWhereAsked, PairedAreServed

\* A step of the adapter's connection disturbs no event.
LEMMA LinkKeeps ==
  ASSUME IInv, OpenEarly \/ BecomeReady \/ Connect \/ Listen \/ ReaderEnds \/ Stop \/ Disconnect
  PROVE  IInv'
<1>1. UNCHANGED <<config, handling, queue, turns, pairingVars, starts, heard, forwarded, answer>>
  BY DEF OpenEarly, BecomeReady, Connect, Listen, ReaderEnds, Stop, Disconnect, adapterVars
<1>2. /\ gateway' \in {"down", "starting", "up", "stopping"}
      /\ link' \in {"absent", "off", "connected", "failed"}
      /\ feed' \in BOOLEAN /\ knows' \in BOOLEAN
  <2>1. CASE Connect
    BY <2>1, ConnectsFacts, ConstantFacts DEF Connect, IInv, TypeOK
  <2>2. CASE OpenEarly \/ BecomeReady \/ Listen \/ ReaderEnds \/ Stop \/ Disconnect
    BY <2>2 DEF OpenEarly, BecomeReady, Listen, ReaderEnds, Stop, Disconnect, adapterVars, IInv, TypeOK
  <2> QED BY <2>1, <2>2
<1>3. TypeOK'
  BY <1>1, <1>2 DEF IInv, TypeOK, config, pairingVars
<1>4. EventsAddressed' /\ Ordered'
  BY <1>1 DEF IInv, EventsAddressed, Addressed, Ordered, Comes, InOrder, config
<1>5. Routed' /\ PairedByCode' /\ AnsweredWhereAsked' /\ PairedAreServed'
  BY <1>1, OthersKept
<1> QED BY <1>3, <1>4, <1>5 DEF IInv

\* A message is new, and so are its events.
LEMMA ArriveKeeps ==
  ASSUME IInv, NEW text \in Texts, Arrive(text)
  PROVE  IInv'
<1> DEFINE m == [n |-> Len(heard) + 1, room |-> text.room, calls |-> text.calls, words |-> text.words]
<1>1. /\ Len(heard) < MaxMessages /\ heard' = Append(heard, m)
      /\ IF Suspends
         THEN handling' = handling \cup Handles(m) /\ UNCHANGED queue
         ELSE /\ queue' \in IF Handles(m) = {} THEN {queue} ELSE {Append(queue, e) : e \in Handles(m)}
              /\ UNCHANGED handling
      /\ UNCHANGED <<config, gateway, link, feed, knows, turns, pairingVars, starts, forwarded, answer>>
  BY DEF Arrive
<1>2. /\ kind \in Channel /\ heard \in Seq(Message) /\ queue \in Seq(Event) /\ forwarded \in Seq(Event)
  BY ConstantFacts DEF IInv, TypeOK
<1>3. m \in Message /\ m.n = Len(heard) + 1
  BY <1>1, <1>2, ConstantFacts DEF Message
<1> HIDE DEF m
<1>4. heard' \in Seq(Message) /\ Len(heard') = Len(heard) + 1
  BY <1>1, <1>2, <1>3
<1>5. \A e \in Handles(m) : /\ e \in Event /\ e.msg.n = Len(heard) + 1
                            /\ e.peer = e.msg.room \/ (kind = "signal" /\ e.msg.room \in Groups)
  BY <1>2, <1>3, HandlesFacts
<1>6. \A e \in Event : Addressed(e) => e.msg.n < Len(heard) + 1
  BY <1>2 DEF Addressed, Event, Message
<1>7. \A e \in Event : Addressed(e) => Addressed(e)'
  BY <1>1, <1>2, <1>4, <1>6 DEF Addressed, config, Event, Message
<1>8. \A e \in Handles(m) : Addressed(e)'
  BY <1>1, <1>2, <1>4, <1>5 DEF Addressed, config
<1>9. Routed' /\ PairedByCode' /\ AnsweredWhereAsked' /\ PairedAreServed'
  BY <1>1, OthersKept
<1>10. InOrder' = InOrder /\ UNCHANGED <<kind, forwarded, turns>>
  BY <1>1 DEF InOrder, config
<1>11. CASE Suspends
  <2>1. handling' = handling \cup Handles(m) /\ queue' = queue
    BY <1>1, <1>11
  <2>2. TypeOK'
    BY <1>1, <1>4, <1>5, <2>1 DEF IInv, TypeOK, config, pairingVars
  <2>3. EventsAddressed'
    BY <1>7, <1>8, <1>10, <2>1 DEF IInv, TypeOK, EventsAddressed, Turn
  <2>4. ~InOrder
    BY <1>11 DEF Suspends, InOrder
  <2>5. Ordered'
    <3>1. \A i \in DOMAIN queue : queue[i].msg.n < Len(heard) + 1
      BY <1>2, <1>6 DEF IInv, EventsAddressed
    <3>2. \A i \in DOMAIN forwarded : forwarded[i].msg.n < Len(heard) + 1
      BY <1>2, <1>6 DEF IInv, EventsAddressed
    <3>3. \A e \in Handles(m) : e.msg.n \in Int /\ ~(e.msg.n < Len(heard) + 1)
      BY <1>2, <1>5
    <3> QED BY <1>10, <2>1, <2>4, <3>1, <3>2, <3>3 DEF IInv, Ordered, Comes
  <2> QED BY <1>9, <2>2, <2>3, <2>5 DEF IInv
<1>12. CASE ~Suspends /\ Handles(m) = {}
  <2>1. handling' = handling /\ queue' = queue
    BY <1>1, <1>12
  <2>2. TypeOK'
    BY <1>1, <1>4, <2>1 DEF IInv, TypeOK, config, pairingVars
  <2>3. EventsAddressed'
    BY <1>7, <1>10, <2>1 DEF IInv, TypeOK, EventsAddressed, Turn
  <2>4. Ordered'
    BY <1>10, <2>1 DEF IInv, Ordered, Comes
  <2> QED BY <1>9, <2>2, <2>3, <2>4 DEF IInv
<1>13. CASE ~Suspends /\ Handles(m) # {}
  <2>1. PICK e \in Handles(m) : queue' = Append(queue, e)
    BY <1>1, <1>13
  <2>2. handling' = handling /\ e \in Event
    BY <1>1, <1>5, <1>13
  <2>3. /\ queue' \in Seq(Event) /\ Len(queue') = Len(queue) + 1
        /\ \A i \in DOMAIN queue' : queue'[i] = IF i = Len(queue) + 1 THEN e ELSE queue[i]
        /\ DOMAIN queue' = DOMAIN queue \cup {Len(queue) + 1}
    BY <1>2, <2>1, <2>2
  <2>4. TypeOK'
    BY <1>1, <1>4, <2>2, <2>3 DEF IInv, TypeOK, config, pairingVars
  <2>5. EventsAddressed'
    BY <1>2, <1>7, <1>8, <1>10, <2>2, <2>3 DEF IInv, TypeOK, EventsAddressed, Turn
  <2>6. InOrder
    BY <1>2, <1>13 DEF Suspends, InOrder, Channel
  <2>7. handling = {}
    BY <2>6 DEF IInv, Ordered
  <2>8. \A i \in DOMAIN queue : queue[i].msg.n < e.msg.n
    BY <1>2, <1>5, <1>6 DEF IInv, EventsAddressed
  <2>9. \A i \in DOMAIN forwarded : forwarded[i].msg.n < e.msg.n
    BY <1>2, <1>5, <1>6 DEF IInv, EventsAddressed
  <2>10. e.msg.n \in Int
    BY <1>2, <1>5
  <2>11. \A i, j \in DOMAIN queue' : i < j => Comes(queue'[i], queue'[j])
    <3> SUFFICES ASSUME NEW i \in DOMAIN queue', NEW j \in DOMAIN queue', i < j
                 PROVE  Comes(queue'[i], queue'[j])
      OBVIOUS
    <3>1. i \in DOMAIN queue
      BY <1>2, <2>3
    <3>2. CASE j = Len(queue) + 1
      BY <2>3, <2>8, <2>10, <3>1, <3>2 DEF Comes
    <3>3. CASE j \in DOMAIN queue
      BY <1>2, <2>3, <3>1, <3>3 DEF IInv, Ordered
    <3> QED BY <2>3, <3>2, <3>3
  <2>12. \A i \in DOMAIN forwarded, j \in DOMAIN queue' : Comes(forwarded[i], queue'[j])
    BY <1>2, <2>3, <2>9, <2>10 DEF IInv, Ordered, Comes
  <2>13. Ordered'
    BY <1>10, <2>2, <2>7, <2>11, <2>12 DEF IInv, Ordered, Comes
  <2> QED BY <1>9, <2>4, <2>5, <2>13 DEF IInv
<1> QED BY <1>11, <1>12, <1>13

LEMMA PutKeeps ==
  ASSUME IInv, NEW e \in handling, Put(e)
  PROVE  IInv'
<1>1. /\ handling' = handling \ {e} /\ queue' = Append(queue, e)
      /\ UNCHANGED <<config, gateway, link, feed, knows, turns, pairingVars, starts, heard, forwarded, answer>>
  BY DEF Put
<1>2. /\ queue \in Seq(Event) /\ forwarded \in Seq(Event) /\ e \in Event /\ Addressed(e)
      /\ ~InOrder /\ InOrder' = InOrder /\ heard' = heard /\ kind' = kind
  BY <1>1 DEF IInv, TypeOK, EventsAddressed, Ordered, InOrder, config
<1>3. /\ queue' \in Seq(Event) /\ DOMAIN queue' = DOMAIN queue \cup {Len(queue) + 1}
      /\ \A i \in DOMAIN queue' : queue'[i] = IF i = Len(queue) + 1 THEN e ELSE queue[i]
  BY <1>1, <1>2
<1>4. TypeOK'
  BY <1>1, <1>3 DEF IInv, TypeOK, config, pairingVars
<1>5. EventsAddressed'
  BY <1>1, <1>2, <1>3 DEF IInv, EventsAddressed, Addressed
<1>6. /\ \A i \in DOMAIN queue : queue[i] # e
      /\ \A i \in DOMAIN forwarded : forwarded[i] # e
  BY DEF IInv, Ordered
<1>7. \A i, j \in DOMAIN queue' : i < j => Comes(queue'[i], queue'[j])
  <2>1. \A i, j \in DOMAIN queue' : i < j => i # Len(queue) + 1
    BY <1>2, <1>3
  <2> QED BY <1>2, <1>3, <1>6, <2>1 DEF IInv, Ordered, Comes
<1>8. \A i \in DOMAIN forwarded, j \in DOMAIN queue' : Comes(forwarded[i], queue'[j])
  BY <1>2, <1>3, <1>6 DEF IInv, Ordered, Comes
<1>9. Ordered'
  BY <1>1, <1>2, <1>3, <1>7, <1>8 DEF IInv, Ordered, Comes
<1> QED BY <1>1, <1>4, <1>5, <1>9, OthersKept DEF IInv

\* Of the turns only the event is left when one goes on.
LEMMA ForwardKeeps ==
  ASSUME IInv, Forward
  PROVE  IInv'
<1> DEFINE e == Head(queue)
           t == [event |-> e, agent |-> Fallback, step |-> "created"]
<1>1. /\ queue # <<>> /\ queue' = Tail(queue)
      /\ IF Allows(e.peer)
         THEN turns' = turns \cup {t} /\ forwarded' = Append(forwarded, e)
         ELSE UNCHANGED <<turns, forwarded>>
      /\ UNCHANGED <<config, gateway, link, feed, knows, handling, pairingVars, starts, heard, answer>>
  BY DEF Forward
<1>2. /\ queue \in Seq(Event) /\ forwarded \in Seq(Event)
      /\ InOrder' = InOrder /\ heard' = heard /\ kind' = kind
  BY <1>1 DEF IInv, TypeOK, InOrder, config
<1>3. /\ queue' \in Seq(Event) /\ 1 \in DOMAIN queue /\ e = queue[1] /\ e \in Event
      /\ \A i \in DOMAIN queue' : i + 1 \in DOMAIN queue /\ queue'[i] = queue[i + 1] /\ i \in Nat /\ 1 < i + 1
  BY <1>1, <1>2
<1>4. t \in Turn /\ t.step = "created" /\ t.event = e
  BY <1>3 DEF Turn, Agent
<1>5. Addressed(e)
  BY <1>3 DEF IInv, EventsAddressed
<1> HIDE DEF e, t
<1>6. \A i, j \in DOMAIN queue' : i < j => Comes(queue'[i], queue'[j])
  BY <1>2, <1>3 DEF IInv, Ordered
<1>7. /\ \A i \in DOMAIN queue' : \A h \in handling : queue'[i] # h
      /\ \A i \in DOMAIN queue' : Addressed(queue'[i])
      /\ \A i \in DOMAIN forwarded, j \in DOMAIN queue' : Comes(forwarded[i], queue'[j])
  BY <1>3 DEF IInv, Ordered, EventsAddressed
<1>8. CASE ~Allows(e.peer)
  <2>1. UNCHANGED <<turns, forwarded>>
    BY <1>1, <1>8
  <2>2. TypeOK'
    BY <1>1, <1>3, <2>1 DEF IInv, TypeOK, config, pairingVars
  <2>3. EventsAddressed' /\ Ordered'
    BY <1>1, <1>2, <1>6, <1>7, <2>1 DEF IInv, EventsAddressed, Addressed, Ordered, Comes
  <2> QED BY <1>1, <2>1, <2>2, <2>3, OthersKept DEF IInv
<1>9. CASE Allows(e.peer)
  <2>1. turns' = turns \cup {t} /\ forwarded' = Append(forwarded, e)
    BY <1>1, <1>9
  <2>2. /\ forwarded' \in Seq(Event) /\ DOMAIN forwarded' = DOMAIN forwarded \cup {Len(forwarded) + 1}
        /\ \A i \in DOMAIN forwarded' : forwarded'[i] = IF i = Len(forwarded) + 1 THEN e ELSE forwarded[i]
    BY <1>2, <1>3, <2>1
  <2>3. TypeOK'
    BY <1>1, <1>3, <1>4, <2>1, <2>2 DEF IInv, TypeOK, config, pairingVars
  <2>4. EventsAddressed'
    BY <1>1, <1>2, <1>4, <1>5, <1>7, <2>1, <2>2 DEF IInv, EventsAddressed, Addressed
  <2>5. /\ \A i \in DOMAIN forwarded : Comes(forwarded[i], e)
        /\ \A i \in DOMAIN queue' : Comes(e, queue'[i])
        /\ \A h \in handling : h # e
    BY <1>3 DEF IInv, Ordered
  <2>6. \A i, j \in DOMAIN forwarded' : i < j => Comes(forwarded'[i], forwarded'[j])
    <3>1. \A i, j \in DOMAIN forwarded' : i < j => i # Len(forwarded) + 1
      BY <1>2, <2>2
    <3> QED BY <2>2, <2>5, <3>1 DEF IInv, Ordered
  <2>7. \A i \in DOMAIN forwarded', j \in DOMAIN queue' : Comes(forwarded'[i], queue'[j])
    BY <1>7, <2>2, <2>5
  <2>8. Ordered'
    BY <1>1, <1>2, <1>6, <1>7, <2>2, <2>5, <2>6, <2>7 DEF IInv, Ordered, Comes
  <2>9. /\ policy' = policy /\ paired' = paired /\ codes' = codes /\ answer' = answer
    BY <1>1 DEF config, pairingVars
  <2>10. Routed'
    BY <1>2, <1>4, <2>1, ResolveKept DEF IInv, Routed
  <2>11. PairedAreServed'
    BY <1>4, <1>9, <2>1, <2>9 DEF IInv, PairedAreServed, PairedByCode, Allows
  <2> QED BY <1>2, <2>3, <2>4, <2>8, <2>9, <2>10, <2>11 DEF IInv, PairedByCode, AnsweredWhereAsked
<1> QED BY <1>8, <1>9

LEMMA RunKeeps ==
  ASSUME IInv, NEW t \in turns, Run(t)
  PROVE  IInv'
<1>1. /\ t \in Turn /\ t.event \in Event /\ t.event.peer \in Rooms /\ kind \in Channel
      /\ feed \in BOOLEAN
  BY ConstantFacts DEF IInv, TypeOK, Turn, Event
<1>2. UNCHANGED <<config, gateway, adapterVars, pairingVars, starts, heard, forwarded>>
  BY DEF Run, HandleInbound, Answer
<1>3. /\ kind' = kind /\ policy' = policy /\ paired' = paired /\ codes' = codes
      /\ heard' = heard /\ forwarded' = forwarded /\ handling' = handling /\ queue' = queue
      /\ InOrder' = InOrder
  BY <1>2 DEF config, adapterVars, pairingVars, InOrder
<1>4. Ordered' /\ PairedByCode'
  BY <1>3 DEF IInv, Ordered, Comes, PairedByCode
<1>5. ASSUME NEW u, u = [t EXCEPT !.agent = Resolve(t.event.peer), !.step = "running"],
             turns' \subseteq (turns \ {t}) \cup {u}, answer' = answer
      PROVE  IInv'
  <2>1. /\ u \in Turn /\ u.event = t.event /\ u.agent = Resolve(t.event.peer)
    BY <1>1, <1>5, ResolveType DEF Turn
  <2>2. TypeOK'
    BY <1>2, <1>5, <2>1 DEF IInv, TypeOK, config, adapterVars, pairingVars
  <2>3. EventsAddressed'
    BY <1>3, <1>5, <2>1 DEF IInv, EventsAddressed, Addressed
  <2>4. Routed'
    BY <1>3, <1>5, <2>1, ResolveKept DEF IInv, Routed
  <2>5. PairedAreServed'
    BY <1>3, <1>5, <2>1 DEF IInv, PairedAreServed
  <2> QED BY <1>3, <1>4, <1>5, <2>2, <2>3, <2>4, <2>5 DEF IInv, AnsweredWhereAsked
<1>6. CASE HandleInbound(t)
  BY <1>5, <1>6 DEF HandleInbound
<1>7. CASE Answer(t)
  <2>1. PICK o \in Sends :
          answer' = {[to |-> t.event.peer, room |-> t.event.msg.room, agent |-> t.agent, sent |-> o]}
    BY <1>7 DEF Answer
  <2>2. t.step = "running" /\ turns' = turns \ {t}
    BY <1>7 DEF Answer
  <2> DEFINE a == [to |-> t.event.peer, room |-> t.event.msg.room, agent |-> t.agent, sent |-> o]
  <2>3. o \in Outcome /\ (o.believed /\ ~o.arrived => kind \in {"matrix", "signal"})
    BY <1>1, SendsFacts
  <2>4. /\ a.to = a.room \/ (kind = "signal" /\ a.room \in Groups)
        /\ a.agent = Resolve(a.to) /\ a.to \in Rooms /\ a.sent = o
    BY <1>1, <2>2 DEF IInv, EventsAddressed, Addressed, Routed
  <2>5. a \in [to : Rooms, room : Rooms, agent : Agent, sent : Outcome]
    BY <1>1, <2>3 DEF Turn, Event, Message
  <2>6. TypeOK'
    BY <1>2, <2>1, <2>2, <2>5 DEF IInv, TypeOK, config, adapterVars, pairingVars
  <2>7. EventsAddressed' /\ Routed' /\ PairedAreServed'
    BY <1>3, <2>2, ResolveKept DEF IInv, EventsAddressed, Addressed, Routed, PairedAreServed
  <2> HIDE DEF a
  <2>8. answer' = {a}
    BY <2>1 DEF a
  <2>9. AnsweredWhereAsked'
    BY <1>1, <1>3, <2>3, <2>4, <2>8, NamedWins DEF AnsweredWhereAsked
  <2> QED BY <1>4, <2>6, <2>7, <2>9 DEF IInv
<1> QED BY <1>6, <1>7 DEF Run

LEMMA PairingKeeps ==
  ASSUME IInv, (\E r \in Askers : GenerateCode(r)) \/ (\E c \in codes : Expire(c) \/ Approve(c))
  PROVE  IInv'
<1>1. UNCHANGED <<config, gateway, adapterVars, turns, starts, heard, forwarded, answer>>
  BY DEF GenerateCode, Expire, Approve
<1>2. /\ kind' = kind /\ policy' = policy /\ handling' = handling /\ queue' = queue /\ InOrder' = InOrder
  BY <1>1 DEF config, adapterVars, InOrder
<1>3. EventsAddressed' /\ Ordered' /\ AnsweredWhereAsked'
  BY <1>1, <1>2 DEF IInv, EventsAddressed, Addressed, Ordered, Comes, AnsweredWhereAsked
<1>4. Routed'
  BY <1>1, <1>2, ResolveKept DEF IInv, Routed
<1>5. /\ codes' \in SUBSET Code /\ paired' \in SUBSET Rooms
      /\ \A c \in codes : c.age = "approved" => c \in codes'
      /\ \A r \in paired' \ paired : \E c \in codes' : c.room = r /\ c.age = "approved"
  <2>1. CASE \E r \in Askers : GenerateCode(r)
    <3>1. PICK r \in Askers : GenerateCode(r)
      BY <2>1
    <3>2. PICK n \in 1..MaxCodes : codes' = codes \cup {[n |-> n, room |-> r, age |-> "fresh"]}
      BY <3>1 DEF GenerateCode
    <3>3. r \in Rooms /\ paired' = paired
      BY <3>1, RoomsAssumption DEF GenerateCode
    <3> QED BY <3>2, <3>3 DEF IInv, TypeOK, Code
  <2>2. ASSUME NEW c \in codes, Expire(c)
        PROVE  /\ codes' \in SUBSET Code /\ paired' = paired
               /\ \A d \in codes : d.age = "approved" => d \in codes'
    BY <2>2 DEF Expire, IInv, TypeOK, Code
  <2>3. ASSUME NEW c \in codes, Approve(c)
        PROVE  /\ codes' \in SUBSET Code /\ paired' \in SUBSET Rooms
               /\ \A d \in codes : d.age = "approved" => d \in codes'
               /\ \A r \in paired' \ paired : \E d \in codes' : d.room = r /\ d.age = "approved"
    <3> DEFINE d == [c EXCEPT !.age = "approved"]
    <3>1. /\ c \in Code /\ d \in Code /\ d.room = c.room /\ d.age = "approved"
      BY DEF IInv, TypeOK, Code
    <3>2. c.age # "approved"
      BY <2>3 DEF Approve
    <3>3. CASE Usable(c)
      <4>1. codes' = (codes \ {c}) \cup {d} /\ paired' = paired \cup {c.room}
        BY <2>3, <3>3 DEF Approve
      <4>2. c.room \in Rooms
        BY <3>1 DEF Code
      <4> HIDE DEF d
      <4> QED BY <3>1, <3>2, <4>1, <4>2 DEF IInv, TypeOK
    <3>4. CASE ~Usable(c)
      <4>1. codes' = codes \ {c} /\ paired' = paired
        BY <2>3, <3>4 DEF Approve
      <4> QED BY <3>2, <4>1 DEF IInv, TypeOK
    <3> QED BY <3>3, <3>4
  <2>4. CASE \E c \in codes : Expire(c)
    BY <2>2, <2>4 DEF IInv, TypeOK
  <2>5. CASE \E c \in codes : Approve(c)
    BY <2>3, <2>5
  <2> QED BY <2>1, <2>4, <2>5
<1>6. TypeOK'
  BY <1>1, <1>2, <1>5 DEF IInv, TypeOK, config, adapterVars
<1>7. PairedByCode' /\ PairedAreServed'
  BY <1>1, <1>2, <1>5 DEF IInv, PairedByCode, PairedAreServed
<1> QED BY <1>3, <1>4, <1>6, <1>7 DEF IInv

LEMMA InvNext == IInv /\ [Next]_vars => IInv'
<1> SUFFICES ASSUME IInv, [Next]_vars
             PROVE  IInv'
  OBVIOUS
<1>1. CASE UNCHANGED vars
  <2>1. UNCHANGED <<config, gateway, adapterVars, turns, pairingVars, starts, heard, forwarded, answer>>
    BY <1>1 DEF vars
  <2>2. TypeOK' /\ EventsAddressed' /\ Ordered'
    BY <2>1 DEF IInv, TypeOK, EventsAddressed, Addressed, Ordered, Comes, InOrder, config,
                adapterVars, pairingVars
  <2> QED BY <2>1, <2>2, OthersKept DEF IInv
<1>2. CASE Next
  <2>1. CASE Start \/ Crash
    BY <2>1, ProcessKeeps
  <2>2. CASE OpenEarly \/ BecomeReady \/ Boot \/ ReaderEnds \/ Stop \/ Disconnect
    BY <2>2, LinkKeeps DEF Boot
  <2>3. CASE \E text \in Texts : Arrive(text)
    BY <2>3, ArriveKeeps
  <2>4. CASE \E e \in handling : Put(e)
    BY <2>4, PutKeeps
  <2>5. CASE Forward
    BY <2>5, ForwardKeeps
  <2>6. CASE \E t \in turns : Run(t)
    BY <2>6, RunKeeps
  <2>7. CASE (\E r \in Askers : GenerateCode(r)) \/ (\E c \in codes : Expire(c) \/ Approve(c))
    BY <2>7, PairingKeeps
  <2>8. CASE Idle
    BY <1>1, <2>8 DEF Idle
  <2> QED BY <1>2, <2>1, <2>2, <2>3, <2>4, <2>5, <2>6, <2>7, <2>8 DEF Next
<1> QED BY <1>1, <1>2

-----------------------------------------------------------------------------
(* The properties.                                                         *)

\* The invariant holds through messages, restarts and pairings.
THEOREM Invariance == Spec => []IInv
<1> QED BY InitIInv, InvNext, PTL DEF Spec

\* The adapter, the listener and the pairing store hold what they should.
THEOREM TypeCorrect == Spec => []TypeOK
<1>1. IInv => TypeOK
  BY DEF IInv
<1> QED BY <1>1, Invariance, PTL

\* However often the gateway restarts, the listener takes an event once, and
\* takes the events of adapters that do not suspend in their order.
THEOREM TakenOnce == Spec => []TakenOnceInOrder
<1>1. IInv => TakenOnceInOrder
  BY DEF IInv, Ordered, Comes, InOrder, TakenOnceInOrder
<1> QED BY <1>1, Invariance, PTL

\* Whatever the bindings, an answer goes where the question came from, is by an
\* agent they name for the peer if they name one, and was delivered if the
\* adapter says so, with the exceptions of AnsweredWhereAsked.
THEOREM Answered == Spec => []AnsweredWhereAsked
<1>1. IInv => AnsweredWhereAsked
  BY DEF IInv
<1> QED BY <1>1, Invariance, PTL

\* Under the pairing policy a turn is a peer's whose code was approved.
THEOREM OnlyPaired == Spec => []PairedAreServed
<1>1. IInv => PairedAreServed
  BY DEF IInv
<1> QED BY <1>1, Invariance, PTL
=============================================================================
