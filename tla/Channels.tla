------------------------------ MODULE Channels ------------------------------
(***************************************************************************)
(* From a message on an external service to a turn and back: one adapter   *)
(* of claw_telegram, claw_discord, claw_slack, claw_matrix or claw_signal, *)
(* built by claw/channels/factory.py, behind the gateway's listener,       *)
(* policy, pairing and routing (claw/gateway/server.py, claw/channels/,    *)
(* claw/routing/resolver.py, claw/sessions/key.py), over restarts.         *)
(*                                                                         *)
(* A message is abstracted to its room, whom it calls by name, and whether *)
(* it says anything besides.  Which adapter is configured, and the policy  *)
(* the gateway's DmPolicyEnforcer was built with, are chosen initially.    *)
(***************************************************************************)
EXTENDS Integers, Sequences, FiniteSets

CONSTANTS
  Kinds,        \* channels that may be configured
  Policies,     \* policies the enforcer may have
  Dms,          \* direct chats with the bot
  Groups,       \* rooms with several members
  Unlisted,     \* rooms whose writer (Telegram), or guild (Discord), is not on the list
  Allowed,      \* allowed_peers of the enforcer
  HomeOf,       \* Signal: the number of the writer in each room
  Bindings,     \* config.bindings: a sequence of [peer, channel, agent]
  Any,          \* a binding that names no peer, or no channel
  Fallback,     \* the default agent
  Texts,        \* bound: what people write: [room, calls, words]
  Askers,       \* bound: peers that ask for a pairing code
  MaxMessages,  \* bound: messages written
  MaxCodes,     \* bound: pairing codes
  MaxStarts     \* bound: starts of the gateway

Rooms == Dms \cup Groups
Channel == {"telegram", "discord", "slack", "matrix", "signal"}

ASSUME RoomsAssumption ==
  /\ Kinds \subseteq Channel
  /\ Policies \subseteq {"open", "allowlist", "pairing"}
  /\ Dms \cap Groups = {}
  /\ Unlisted \subseteq Rooms /\ Allowed \subseteq Rooms /\ Askers \subseteq Rooms
  /\ HomeOf \in [Rooms -> Dms]
  /\ \A r \in Dms : HomeOf[r] = r
  /\ Any \notin Rooms \cup Channel
  /\ Bindings \in Seq([peer : Rooms \cup {Any}, channel : Channel \cup {Any}, agent : STRING])
  /\ Texts \subseteq [room : Rooms, calls : {"nobody", "somebody", "bot"}, words : BOOLEAN]
  /\ MaxMessages \in Nat /\ MaxCodes \in Nat /\ MaxStarts \in Nat

VARIABLES
  kind,      \* the configured channel
  policy,    \* DmPolicyEnforcer's default policy
  gateway,   \* what the gateway process is doing
  link,      \* what became of connect()
  feed,      \* events of the service reach the adapter
  knows,     \* the adapter knows its own name (Matrix: its direct rooms)
  handling,  \* events in a handler that is suspended
  queue,     \* the adapter's _inbound
  turns,     \* tasks of handle_inbound
  codes,     \* PairingStore._records
  paired,    \* peers the enforcer counts as paired
  starts,    \* number of starts
  heard,     \* history variable: messages handed to the adapter
  forwarded, \* history variable: events the listener made a task of
  answer     \* history variable: the last answer of this process, if any

config == <<kind, policy>>
adapterVars == <<link, feed, knows, handling, queue>>
pairingVars == <<codes, paired>>
vars == <<config, gateway, adapterVars, turns, pairingVars, starts, heard, forwarded, answer>>

Message == [n : 1..MaxMessages, room : Rooms, calls : {"nobody", "somebody", "bot"}, words : BOOLEAN]
Event == [msg : Message, peer : Rooms, copy : {1, 2}]
Agent == {Bindings[i].agent : i \in DOMAIN Bindings} \cup {Fallback}
Turn == [event : Event, agent : Agent, step : {"created", "running"}]
\* What became of a send: whether it arrived, and whether the gateway thinks so.
Outcome == [arrived : BOOLEAN, believed : BOOLEAN]
Code == [n : 1..MaxCodes, room : Rooms, age : {"fresh", "stale", "approved"}]

TypeOK ==
  /\ kind \in Kinds /\ policy \in Policies
  /\ gateway \in {"down", "starting", "up", "stopping"}
  /\ link \in {"absent", "off", "connected", "failed"}
  /\ feed \in BOOLEAN /\ knows \in BOOLEAN
  /\ handling \in SUBSET Event
  /\ queue \in Seq(Event)
  /\ turns \in SUBSET Turn
  /\ codes \in SUBSET Code
  /\ paired \in SUBSET Rooms
  /\ starts \in Nat
  /\ heard \in Seq(Message)
  /\ forwarded \in Seq(Event)
  /\ answer \in SUBSET [to : Rooms, room : Rooms, agent : Agent, sent : Outcome]

Init ==
  /\ kind \in Kinds /\ policy \in Policies
  /\ gateway = "down" /\ starts = 0
  /\ link = "absent" /\ feed = FALSE /\ knows = FALSE
  /\ handling = {} /\ queue = <<>> /\ turns = {}
  /\ codes = {} /\ paired = {}
  /\ heard = <<>> /\ forwarded = <<>> /\ answer = {}

-----------------------------------------------------------------------------
(* The adapters.  Definitions whose comment starts with "Wrong:" are used  *)
(* by no definition of the system; each is a slip a property must notice.  *)

\* A handler puts at most one message into the queue, with the peer it will be
\* answered at; copy tells apart two events the service raises for one message.
Enqueued(m, peer, taken) == {e \in {[msg |-> m, peer |-> peer, copy |-> 1]} : taken}

\* Wrong: the sender's id is not overridden by the chat's.
TelegramToSender(m) ==
  Enqueued(m, HomeOf[m.room], m.room \notin Unlisted /\ (m.room \in Groups => m.calls # "nobody"))

\* Telegram takes any mention for one of the bot, and answers to the chat.
TelegramHandles(m) ==
  Enqueued(m, m.room,
    /\ m.room \notin Unlisted
    /\ m.room \in Groups => m.calls # "nobody"
    /\ m.words \/ m.calls # "nobody")

\* Until on_ready has run Discord does not know whom a mention is for: it
\* gates nothing, and strips nothing.  Its list is of guilds: direct messages
\* have none.
DiscordHandles(m) ==
  Enqueued(m, m.room,
    /\ m.room \notin Unlisted \cap Groups
    /\ m.room \in Groups /\ knows => m.calls = "bot"
    /\ m.words \/ m.calls = "somebody" \/ (m.calls = "bot" /\ ~knows))

\* Wrong: direct messages are gated too.
SlackMentionsOnly(m) == Enqueued(m, m.room, m.words /\ m.calls = "bot")

\* Slack likewise, for good, when auth_test failed.
SlackHandles(m) ==
  Enqueued(m, m.room,
    /\ m.room \in Groups /\ knows => m.calls = "bot"
    /\ m.words \/ m.calls = "somebody" \/ (m.calls = "bot" /\ ~knows))

\* A direct room Matrix does not know of is gated like any other.
MatrixHandles(m) ==
  Enqueued(m, m.room,
    /\ ~(m.room \in Dms /\ knows) => m.calls = "bot"
    /\ m.words \/ m.calls = "somebody")

\* Signal takes every text, and has only the writer's number to answer to, also
\* for a message of a group.
SignalHandles(m) == Enqueued(m, HomeOf[m.room], m.words \/ m.calls # "nobody")

\* Slack's "message" and "app_mention" subscriptions both run the handler.
SlackEvents(m) ==
  SlackHandles(m) \cup
  {[e EXCEPT !.copy = 2] : e \in IF m.room \in Groups /\ m.calls = "bot" THEN SlackHandles(m) ELSE {}}

Handles(m) ==
  CASE kind = "telegram" -> TelegramHandles(m)
    [] kind = "discord" -> DiscordHandles(m)
    [] kind = "slack" -> SlackEvents(m)
    [] kind = "matrix" -> MatrixHandles(m)
    [] kind = "signal" -> SignalHandles(m)

\* Wrong: Discord's handler awaits something before it enqueues.
SuspendsMore == kind \in {"telegram", "slack", "discord"}

\* Telegram awaits the typing indicator and Slack users_info between the gate
\* and the queue, each event in a task of its own.
Suspends == kind \in {"telegram", "slack"}

\* What connect() can come to: the result, whether events arrive after it, and
\* what the adapter has learnt about itself.
TelegramConnects == [link : {"connected"}, feed : BOOLEAN, knows : {FALSE}]
DiscordConnects ==
  [link : {"connected"}, feed : {TRUE}, knows : {knows}] \cup
  [link : {"failed"}, feed : {feed}, knows : {knows}]
SlackConnects == [link : {"connected"}, feed : BOOLEAN, knows : BOOLEAN]
MatrixConnects ==
  [link : {"connected"}, feed : {TRUE}, knows : BOOLEAN] \cup
  [link : {"failed"}, feed : {FALSE}, knows : {FALSE}]
SignalConnects ==
  [link : {"connected"}, feed : {TRUE}, knows : {FALSE}] \cup
  [link : {"failed"}, feed : {FALSE}, knows : {FALSE}]

Connects ==
  CASE kind = "telegram" -> TelegramConnects
    [] kind = "discord" -> DiscordConnects
    [] kind = "slack" -> SlackConnects
    [] kind = "matrix" -> MatrixConnects
    [] kind = "signal" -> SignalConnects

\* What can come of _do_send.  Without a client, or when its library raises,
\* the gateway learns of it: nothing arrived, or something did.
Raises(arrived) == [arrived : arrived, believed : {FALSE}]
Done(arrived) == [arrived : arrived, believed : {TRUE}]

TelegramSends == IF link = "connected" THEN Done({TRUE}) \cup Raises(BOOLEAN) ELSE Raises({FALSE})
\* Each chunk is a send of its own: an error can follow some that arrived.
DiscordSends == IF link # "off" THEN Done({TRUE}) \cup Raises(BOOLEAN) ELSE Raises({FALSE})
SlackSends == IF link = "connected" THEN Done({TRUE}) \cup Raises(BOOLEAN) ELSE Raises({FALSE})
\* room_send returns an error response, which is not looked at.
MatrixSends == IF link = "connected" THEN Done(BOOLEAN) \cup Raises(BOOLEAN) ELSE Raises({FALSE})
\* The request is written to a pipe, and its response not waited for; the
\* process may be gone.
SignalSends == Done(IF feed THEN BOOLEAN ELSE {FALSE}) \cup Raises({FALSE})

Sends ==
  CASE kind = "telegram" -> TelegramSends
    [] kind = "discord" -> DiscordSends
    [] kind = "slack" -> SlackSends
    [] kind = "matrix" -> MatrixSends
    [] kind = "signal" -> SignalSends

-----------------------------------------------------------------------------
(* Policy, routing and sessions.                                           *)

\* Wrong: pairing is not asked for in groups.
AllowsGroups(peer) ==
  \/ policy = "open"
  \/ policy = "allowlist" /\ peer \in Allowed
  \/ policy = "pairing" /\ (peer \in paired \/ peer \in Groups)

Allows(peer) ==
  \/ policy = "open"
  \/ policy = "allowlist" /\ peer \in Allowed
  \/ policy = "pairing" /\ peer \in paired

\* BindingResolver._score for the matches an envelope of a listener can meet.
\* A match of peer and channel weighs less than one of the peer alone.
Score(b, peer) ==
  CASE b.peer # Any /\ b.channel # Any -> IF b.peer = peer /\ b.channel = kind THEN 60 ELSE -1
    [] b.peer # Any /\ b.channel = Any -> IF b.peer = peer THEN 70 ELSE -1
    [] b.peer = Any /\ b.channel # Any -> IF b.channel = kind THEN 10 ELSE -1
    [] OTHER -> 0

Weight(i, peer) == Score(Bindings[i], peer)

Matching(peer) == {i \in DOMAIN Bindings : Weight(i, peer) >= 0}

\* Binding i comes before j: the first of the greatest weight is kept.
Before(i, j, peer) ==
  \/ Weight(i, peer) > Weight(j, peer)
  \/ Weight(i, peer) = Weight(j, peer) /\ i < j

Winner(peer) ==
  CHOOSE i \in Matching(peer) : \A j \in Matching(peer) \ {i} : Before(i, j, peer)

Resolve(peer) == IF Matching(peer) = {} THEN Fallback ELSE Bindings[Winner(peer)].agent

-----------------------------------------------------------------------------
(* The life of the gateway.                                                *)

\* Startup builds the adapter from its block; one that cannot be built is
\* skipped.  Queues, codes and pairings of an earlier process are gone.
Start ==
  /\ gateway = "down" /\ starts < MaxStarts
  /\ gateway' = "starting" /\ starts' = starts + 1
  /\ link' \in {"off", "absent"}
  /\ feed' = FALSE /\ knows' = FALSE /\ handling' = {} /\ queue' = <<>>
  /\ turns' = {} /\ codes' = {} /\ paired' = {} /\ answer' = {}
  /\ UNCHANGED <<config, heard, forwarded>>

\* Discord's client runs while connect() still waits for it to be ready.
OpenEarly ==
  /\ kind = "discord" /\ gateway = "starting" /\ link = "off" /\ ~feed
  /\ feed' = TRUE
  /\ UNCHANGED <<config, gateway, link, knows, handling, queue, turns, pairingVars, starts,
                 heard, forwarded, answer>>

\* on_ready, which may also come after connect() gave up.
BecomeReady ==
  /\ kind = "discord" /\ feed /\ ~knows
  /\ knows' = TRUE
  /\ UNCHANGED <<config, gateway, link, feed, handling, queue, turns, pairingVars, starts,
                 heard, forwarded, answer>>

Connect ==
  /\ gateway = "starting" /\ link = "off"
  /\ \E c \in Connects : link' = c.link /\ feed' = c.feed /\ knows' = c.knows
  /\ UNCHANGED <<config, gateway, handling, queue, turns, pairingVars, starts,
                 heard, forwarded, answer>>

\* connect_all logs what failed, and every registered adapter gets a listener.
Listen ==
  /\ gateway = "starting" /\ link # "off"
  /\ gateway' = "up"
  /\ UNCHANGED <<config, adapterVars, turns, pairingVars, starts, heard, forwarded, answer>>

\* signal-cli exits: _read_loop ends and nothing starts it again.
ReaderEnds ==
  /\ kind = "signal" /\ feed
  /\ feed' = FALSE
  /\ UNCHANGED <<config, gateway, link, knows, handling, queue, turns, pairingVars, starts,
                 heard, forwarded, answer>>

\* shutdown: the listeners are cancelled; tasks of handle_inbound go on.
Stop ==
  /\ gateway = "up"
  /\ gateway' = "stopping"
  /\ UNCHANGED <<config, adapterVars, turns, pairingVars, starts, heard, forwarded, answer>>

\* disconnect_all; what is in the queue stays there.
Disconnect ==
  /\ gateway = "stopping" /\ link # "off"
  /\ link' = IF link = "absent" THEN link ELSE "off"
  /\ feed' = FALSE
  /\ gateway' = "down"
  /\ UNCHANGED <<config, knows, handling, queue, turns, pairingVars, starts,
                 heard, forwarded, answer>>

Crash ==
  /\ gateway # "down"
  /\ gateway' = "down"
  /\ link' = "absent" /\ feed' = FALSE /\ knows' = FALSE /\ handling' = {} /\ queue' = <<>>
  /\ turns' = {} /\ codes' = {} /\ paired' = {} /\ answer' = {}
  /\ UNCHANGED <<config, starts, heard, forwarded>>

-----------------------------------------------------------------------------
(* A message.                                                              *)

\* An adapter that does not await on the way enqueues at once.
Arrive(text) ==
  LET m == [n |-> Len(heard) + 1, room |-> text.room, calls |-> text.calls, words |-> text.words]
  IN
  /\ feed /\ Len(heard) < MaxMessages
  /\ heard' = Append(heard, m)
  /\ IF Suspends
     THEN handling' = handling \cup Handles(m) /\ UNCHANGED queue
     ELSE /\ queue' \in IF Handles(m) = {} THEN {queue} ELSE {Append(queue, e) : e \in Handles(m)}
          /\ UNCHANGED handling
  /\ UNCHANGED <<config, gateway, link, feed, knows, turns, pairingVars, starts,
                 forwarded, answer>>

Put(e) ==
  /\ e \in handling
  /\ handling' = handling \ {e}
  /\ queue' = Append(queue, e)
  /\ UNCHANGED <<config, gateway, link, feed, knows, turns, pairingVars, starts,
                 heard, forwarded, answer>>

Listening == link # "absent" /\ gateway = "up"

\* _listener_loop takes the next message, asks the policy and makes a task.
Forward ==
  /\ Listening /\ queue # <<>>
  /\ queue' = Tail(queue)
  /\ LET e == Head(queue)
     IN  IF Allows(e.peer)
         THEN /\ turns' = turns \cup {[event |-> e, agent |-> Fallback, step |-> "created"]}
              /\ forwarded' = Append(forwarded, e)
         ELSE UNCHANGED <<turns, forwarded>>
  /\ UNCHANGED <<config, gateway, link, feed, knows, handling, pairingVars, starts, heard, answer>>

\* handle_inbound asks the policy again, then resolves the agent and goes for
\* the session's lock.
HandleInbound(t) ==
  /\ t.step = "created"
  /\ turns' = (turns \ {t}) \cup
       {[t EXCEPT !.agent = Resolve(t.event.peer), !.step = "running"] :
          x \in IF Allows(t.event.peer) THEN {1} ELSE {}}
  /\ UNCHANGED <<config, gateway, adapterVars, pairingVars, starts, heard, forwarded, answer>>

\* The answer is sent.
Answer(t) ==
  /\ t.step = "running"
  /\ turns' = turns \ {t}
  /\ answer' \in {{[to |-> t.event.peer, room |-> t.event.msg.room, agent |-> t.agent, sent |-> o]} :
                   o \in Sends}
  /\ UNCHANGED <<config, gateway, adapterVars, pairingVars, starts, heard, forwarded>>

-----------------------------------------------------------------------------
(* Pairing.                                                                *)

\* (Under the other policies pairing has no effect and is left out.)
GenerateCode(r) ==
  /\ policy = "pairing" /\ gateway = "up" /\ Cardinality(codes) < MaxCodes
  /\ \E n \in 1..MaxCodes :
       /\ \A c \in codes : c.n # n
       /\ codes' = codes \cup {[n |-> n, room |-> r, age |-> "fresh"]}
  /\ UNCHANGED <<config, gateway, adapterVars, turns, paired, starts, heard, forwarded, answer>>

\* Five minutes pass: is_expired, unless it was approved.
Expire(c) ==
  /\ c \in codes /\ c.age = "fresh"
  /\ codes' = (codes \ {c}) \cup {[c EXCEPT !.age = "stale"]}
  /\ UNCHANGED <<config, gateway, adapterVars, turns, paired, starts, heard, forwarded, answer>>

Usable(c) == c.age = "fresh"

\* A code is approved once; an expired one is deleted by the attempt.
Approve(c) ==
  /\ gateway = "up" /\ c \in codes /\ c.age # "approved"
  /\ codes' = (codes \ {c}) \cup {[c EXCEPT !.age = "approved"] : x \in IF Usable(c) THEN {1} ELSE {}}
  /\ paired' = IF Usable(c) THEN paired \cup {c.room} ELSE paired
  /\ UNCHANGED <<config, gateway, adapterVars, turns, starts, heard, forwarded, answer>>

-----------------------------------------------------------------------------
Idle ==
  /\ gateway = "down" /\ starts = MaxStarts /\ handling = {} /\ turns = {}
  /\ UNCHANGED vars

Run(t) == HandleInbound(t) \/ Answer(t)
Boot == Connect \/ Listen

Next ==
  \/ Start \/ OpenEarly \/ BecomeReady \/ Boot \/ ReaderEnds \/ Stop \/ Disconnect \/ Crash
  \/ \E text \in Texts : Arrive(text)
  \/ \E e \in handling : Put(e)
  \/ Forward
  \/ \E t \in turns : Run(t)
  \/ \E r \in Askers : GenerateCode(r)
  \/ \E c \in codes : Expire(c) \/ Approve(c)
  \/ Idle

Spec == Init /\ [][Next]_vars

\* Tasks of the event loop run, requests return, and turns end
\* (SessionTurns!EveryTurnEnds).
Fairness ==
  /\ WF_vars(Boot) /\ WF_vars(Forward)
  /\ WF_vars(\E e \in handling : Put(e))
  /\ WF_vars(\E t \in turns : Run(t))

FairSpec == Spec /\ Fairness
-----------------------------------------------------------------------------
(* Properties.                                                             *)

\* The listener makes one task of each event, however often the gateway
\* restarts and handlers suspend; and where no handler suspends, in the order
\* the messages came in.  (A Slack mention in a channel is two events.)
TakenOnceInOrder ==
  \A i, j \in DOMAIN forwarded : i < j =>
    /\ forwarded[i] # forwarded[j]
    /\ kind \in {"discord", "matrix", "signal"} => forwarded[i].msg.n < forwarded[j].msg.n

\* An answer goes to the room the question came from, but for a Signal group,
\* of which the adapter only knows the writer; when bindings name that peer for
\* the channel, one of them chose the agent; and an answer taken for delivered
\* has arrived, unless its adapter does not look (Matrix, Signal).
AnsweredWhereAsked ==
  \A a \in answer :
    LET named == {i \in DOMAIN Bindings :
                    Bindings[i].peer = a.to /\ Bindings[i].channel \in {Any, kind}}
    IN  /\ a.to = a.room \/ (kind = "signal" /\ a.room \in Groups)
        /\ named # {} => \E i \in named : Bindings[i].agent = a.agent
        /\ a.sent.believed /\ ~a.sent.arrived => kind \in {"matrix", "signal"}

\* Under the pairing policy a turn runs only for a peer with a code that was
\* approved in this process: pairings do not survive a restart, and neither
\* does a turn.
PairedAreServed ==
  policy = "pairing" =>
    \A t \in turns : \E c \in codes : c.room = t.event.peer /\ c.age = "approved"

\* What a user may expect an adapter to take: text that is direct or calls the
\* bot, from a listed writer (Telegram) or not from an unlisted guild (Discord,
\* which always takes direct messages); Matrix must know that the room is direct.
Question(m) ==
  /\ m.words
  /\ kind = "telegram" => m.room \notin Unlisted
  /\ kind = "discord" => m.room \notin Unlisted \cap Groups
  /\ m.calls = "bot" \/ (m.room \in Dms /\ (kind = "matrix" => knows))

\* As long as the gateway runs, every question is taken and its turn ends.
EveryQuestionIsTaken ==
  <>[](gateway = "up" =>
         /\ handling = {} /\ turns = {}
         /\ policy = "open" /\ starts = 1 =>
              \A i \in DOMAIN heard : Question(heard[i]) =>
                \E j \in DOMAIN forwarded : forwarded[j].msg = heard[i])
=============================================================================
