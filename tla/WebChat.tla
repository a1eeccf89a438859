------------------------------ MODULE WebChat ------------------------------
(***************************************************************************)
(* Conversations over WebChat sockets: claw_webchat/adapter.py behind      *)
(* claw/gateway/server.py, and under them the turn of                      *)
(* claw/agents/turn.py: calls of the model and tools in alternation, on    *)
(* credential profiles that all agents share (claw/agents/registry.py).    *)
(*                                                                         *)
(* Every socket has a handler of its own, one task: a step here runs to    *)
(* the next await.  Sockets whose peers share a session (they all do when  *)
(* dm_scope is "main") also wait for its lock, which is SessionTurns'      *)
(* part: this module lets their turns interleave even then.  Text is       *)
(* abstracted to the number of its chunks.                                 *)
(***************************************************************************)
EXTENDS Integers, Sequences, FiniteSets

CONSTANTS
  Sockets,     \* connections of browsers
  Profiles,    \* credential profiles, by priority: 1 is the first choice
  Tools,       \* names the model may call
  Handled,     \* names with a handler in the ToolRegistry
  Allow, Deny, \* capabilities.tool_use of the agent; All allows every tool
  All,
  Checked,     \* tools whose input is checked, too (external_http, filesystem)
  MaxFrames,   \* bound: frames the browsers send
  MaxCalls,    \* bound: calls of the model in a turn
  MaxUses,     \* bound: uses of tools that one answer of the model asks for
  MaxChunks    \* bound: chunks of one answer of the model

ASSUME WebChatAssumption ==
  /\ Profiles \subseteq Nat /\ IsFiniteSet(Profiles)
  /\ Handled \subseteq Tools /\ Deny \subseteq Tools /\ Allow \subseteq Tools \cup {All}
  /\ MaxFrames \in Nat /\ MaxCalls \in Nat \ {0} /\ MaxUses \in Nat /\ MaxChunks \in Nat

VARIABLES
  browser,   \* the other end of each socket
  pc,        \* where the socket's handler is
  active,    \* _active_ws
  inbox,     \* frames that await the handler
  outbox,    \* frames of answers that the browser received
  frames,    \* number of frames sent
  asked,     \* questions taken from each socket
  turn,      \* the turn in progress on each socket
  cooldown,  \* profiles on cooldown
  stored     \* answers appended to the session for each socket

connVars == <<browser, active>>
talkVars == <<inbox, frames, asked>>
vars == <<browser, pc, active, inbox, outbox, frames, asked, turn,
          cooldown, stored>>

Pc == {"off", "idle", "preparing", "compacting", "calling",
       "streaming", "tools", "closed"}
Frame == {"chat", "stray", "ping", "broken"}
Sent == [type : {"chunk", "done", "error"}, q : Nat, call : Nat]
\* What a use of a tool became.
Result == [use : Nat, text : {"value", "denied", "error"}]
Turn == [profile : Profiles, call : Nat, size : Nat, uses : Seq(Tools),
         used : Nat, results : Seq(Result)]
Answer == [q : Nat, call : Nat, size : Nat]

\* A call of the model begins.
NewCall(profile, call) == [profile |-> profile, call |-> call, size |-> 0, uses |-> <<>>,
                           used |-> 0, results |-> <<>>]
NoTurn == NewCall(0, 0)

TypeOK ==
  /\ browser \in [Sockets -> {"away", "there", "gone"}]
  /\ pc \in [Sockets -> Pc]
  /\ active \in SUBSET Sockets
  /\ inbox \in [Sockets -> Seq(Frame)]
  /\ outbox \in [Sockets -> Seq(Sent)]
  /\ frames \in 0..MaxFrames
  /\ asked \in [Sockets -> Nat]
  /\ turn \in [Sockets -> Turn \cup {NoTurn}]
  /\ cooldown \in SUBSET Profiles
  /\ stored \in [Sockets -> Seq(Answer)]

Init ==
  /\ browser = [s \in Sockets |-> "away"]
  /\ pc = [s \in Sockets |-> "off"]
  /\ active = {}
  /\ inbox = [s \in Sockets |-> <<>>]
  /\ outbox = [s \in Sockets |-> <<>>]
  /\ frames = 0
  /\ asked = [s \in Sockets |-> 0]
  /\ turn = [s \in Sockets |-> NoTurn]
  /\ cooldown = {}
  /\ stored = [s \in Sockets |-> <<>>]

-----------------------------------------------------------------------------
(* Sockets.                                                                *)

\* ws_chat: verify_ws, accept, the connection's entry and its hello.
Upgrade(s) ==
  /\ pc[s] = "off"
  /\ pc' = [pc EXCEPT ![s] = "idle"]
  /\ active' = active \cup {s}
  /\ browser' = [browser EXCEPT ![s] = "there"]
  /\ UNCHANGED <<talkVars, outbox, turn, cooldown, stored>>

\* send_text: with the browser gone it raises.
Send(s, type) ==
  outbox' = IF browser[s] # "there" THEN outbox
            ELSE [outbox EXCEPT ![s] = Append(@, [type |-> type, q |-> asked[s],
                                                  call |-> turn[s].call])]

\* Wrong: the entry stays.
Remembered(s) == active
\* The finally of handle_ws_connection.
Forgotten(s) == active \ {s}

\* iter_text ends when the frames before the disconnect are taken.
Hangup(s) ==
  /\ pc[s] = "idle" /\ inbox[s] = <<>> /\ browser[s] = "gone"
  /\ active' = Forgotten(s)
  /\ pc' = [pc EXCEPT ![s] = "closed"]
  /\ UNCHANGED <<browser, talkVars, outbox, turn, cooldown, stored>>

\* The browser sends a frame: a question; one that is empty or for an agent that
\* has no turn; a ping or something that is not JSON; or JSON of another form.
Write(s, frame) ==
  /\ browser[s] = "there" /\ frames < MaxFrames
  /\ frames' = frames + 1
  /\ inbox' = [inbox EXCEPT ![s] = Append(@, frame)]
  /\ UNCHANGED <<connVars, pc, outbox, asked, turn, cooldown, stored>>

Leave(s) ==
  /\ browser[s] = "there"
  /\ browser' = [browser EXCEPT ![s] = "gone"]
  /\ UNCHANGED <<active, pc, talkVars, outbox, turn, cooldown, stored>>

Taken(s) == inbox' = [inbox EXCEPT ![s] = Tail(@)]

\* Empty questions are skipped, handle_inbound returns on an agent it does not
\* know: neither gets a frame.
Skip(s) ==
  /\ pc[s] = "idle" /\ inbox[s] # <<>> /\ Head(inbox[s]) = "stray"
  /\ Taken(s)
  /\ UNCHANGED <<connVars, pc, outbox, frames, asked, turn, cooldown, stored>>

\* A pong, or the error for what is not JSON, is sent in the loop itself: when
\* the browser is gone, the loop ends, as it does on JSON that is no frame.
Reply(s) ==
  /\ pc[s] = "idle" /\ inbox[s] # <<>> /\ Head(inbox[s]) \in {"ping", "broken"}
  /\ Taken(s)
  /\ IF Head(inbox[s]) = "ping" /\ browser[s] = "there" THEN UNCHANGED <<active, pc>>
     ELSE active' = Forgotten(s) /\ pc' = [pc EXCEPT ![s] = "closed"]
  /\ UNCHANGED <<browser, frames, outbox, asked, turn, cooldown, stored>>

Ask(s) ==
  /\ pc[s] = "idle" /\ inbox[s] # <<>> /\ Head(inbox[s]) = "chat"
  /\ Taken(s)
  /\ asked' = [asked EXCEPT ![s] = @ + 1]
  /\ pc' = [pc EXCEPT ![s] = "preparing"]
  /\ UNCHANGED <<connVars, frames, outbox, turn, cooldown, stored>>

-----------------------------------------------------------------------------
(* The turn.                                                               *)

\* CredentialStore.available().
Available(cool) == Profiles \ cool
Best(cool) == CHOOSE p \in Available(cool) : \A o \in Available(cool) : p <= o

\* Wrong: the exception goes on to the adapter, which reports it once more.
ReportTwice(s) ==
  outbox' = IF browser[s] # "there" THEN outbox
            ELSE [outbox EXCEPT ![s] = @ \o
                    [i \in 1..2 |-> [type |-> "error", q |-> asked[s], call |-> turn[s].call]]]
\* send_error, by the gateway or, for what it does not catch, by the adapter.
Report(s) == Send(s, "error")

\* The question ends in an error.
Fails(s) ==
  /\ Report(s)
  /\ pc' = [pc EXCEPT ![s] = "idle"]
  /\ turn' = [turn EXCEPT ![s] = NoTurn]

\* run() takes the first profile available; with none it raises.
Begin(s, cool) ==
  IF Available(cool) = {} THEN Fails(s)
  ELSE /\ pc' = [pc EXCEPT ![s] = "streaming"]
       /\ turn' = [turn EXCEPT ![s] = NewCall(Best(cool), 1)]
       /\ UNCHANGED outbox

\* Files, skills, memories, knowledge and the prompt are made; then a long
\* history is compacted, in a call of the model of its own, or the turn begins.
Prepare(s) ==
  /\ pc[s] = "preparing"
  /\ \/ Begin(s, cooldown)
     \/ /\ Available(cooldown) # {}
        /\ pc' = [pc EXCEPT ![s] = "compacting"]
        /\ turn' = [turn EXCEPT ![s] = NewCall(Best(cooldown), 0)]
        /\ UNCHANGED outbox
  /\ UNCHANGED <<connVars, talkVars, cooldown, stored>>

\* A store or a file fails.
PrepareFails(s) ==
  /\ pc[s] = "preparing" /\ Fails(s)
  /\ UNCHANGED <<connVars, talkVars, cooldown, stored>>

\* Wrong: turn_text is kept over the calls of a turn.
SizeKept(s) == turn[s].size
\* turn_text = "".
SizeAtCall(s) == 0

\* The model, called with the results of the tools, begins to answer.
AnswerAgain(s) ==
  /\ pc[s] = "calling"
  /\ pc' = [pc EXCEPT ![s] = "streaming"]
  /\ turn' = [turn EXCEPT ![s] = [NewCall(@.profile, @.call + 1) EXCEPT !.size = SizeAtCall(s)]]
  /\ UNCHANGED <<connVars, talkVars, outbox, cooldown, stored>>

\* stream_chunk: the browser gets it if it is still there.
Chunk(s) ==
  /\ pc[s] = "streaming" /\ turn[s].size < MaxChunks
  /\ turn' = [turn EXCEPT ![s].size = @ + 1]
  /\ Send(s, "chunk")
  /\ UNCHANGED <<connVars, pc, talkVars, cooldown, stored>>

\* A call of the model fails: its profile cools down.  A compaction goes on
\* without a summary, a turn fails.
ModelFails(s) ==
  /\ pc[s] \in {"compacting", "calling", "streaming"}
  /\ cooldown' = cooldown \cup {turn[s].profile}
  /\ IF pc[s] = "compacting" THEN Begin(s, cooldown') ELSE Fails(s)
  /\ UNCHANGED <<connVars, talkVars, stored>>

\* mark_success and the clock are nodus_llm's: either may end a cooldown.
Recovers(p) == cooldown' = cooldown \ {p}
Succeeds(s) == UNCHANGED cooldown \/ Recovers(turn[s].profile)
Recover(p) ==
  /\ p \in cooldown /\ Recovers(p)
  /\ UNCHANGED <<connVars, pc, talkVars, outbox, turn, stored>>

Compacted(s) ==
  /\ pc[s] = "compacting"
  /\ Succeeds(s) /\ Begin(s, cooldown')
  /\ UNCHANGED <<connVars, talkVars, stored>>

Blocked(t) == t \in Deny \/ (All \notin Allow /\ t \notin Allow)

\* The model asks for tools, offered or not.
AskTools(s) ==
  /\ pc[s] = "streaming" /\ turn[s].call < MaxCalls
  /\ \E n \in 1..MaxUses : \E uses \in [1..n -> Tools] :
       turn' = [turn EXCEPT ![s].uses = uses]
  /\ pc' = [pc EXCEPT ![s] = "tools"]
  /\ UNCHANGED <<connVars, talkVars, outbox, cooldown, stored>>

\* The check of a URL or a path refuses some inputs.
Refusable(t) == IF t \in Checked THEN {"denied"} ELSE {}

\* ToolRegistry.invoke raises on a name it does not know; a handler may, too.
Known(t) == IF t \in Handled THEN {"value", "error"} ELSE {"error"}

\* What scoped_executor makes of a use.
Outcomes(t) == IF Blocked(t) THEN {"denied"} ELSE Refusable(t) \cup Known(t)

\* Wrong: a tool that raises leaves no result.
KeepResult(results, result) ==
  IF result.text = "error" THEN results ELSE Append(results, result)
\* _invoke_tool makes a text of an exception.
AddResult(results, result) == Append(results, result)

\* The next tool runs; after the last the model is called again.
Use(s) ==
  /\ pc[s] = "tools"
  /\ LET n == turn[s].used + 1 IN
     /\ pc' = [pc EXCEPT ![s] = IF n < Len(turn[s].uses) THEN "tools" ELSE "calling"]
     /\ \E text \in Outcomes(turn[s].uses[n]) :
          turn' = [turn EXCEPT ![s].used = n,
                               ![s].results = AddResult(@, [use |-> n, text |-> text])]
  /\ UNCHANGED <<connVars, talkVars, outbox, cooldown, stored>>

\* The last answer of the model is the turn's; it is stored and the turn done.
Finish(s) ==
  /\ pc[s] = "streaming"
  /\ Succeeds(s)
  /\ stored' = [stored EXCEPT ![s] = Append(@, [q |-> asked[s], call |-> turn[s].call,
                                                size |-> turn[s].size])]
  /\ Send(s, "done")
  /\ pc' = [pc EXCEPT ![s] = "idle"]
  /\ turn' = [turn EXCEPT ![s] = NoTurn]
  /\ UNCHANGED <<connVars, talkVars>>
-----------------------------------------------------------------------------
Handler(s) ==
  \/ Hangup(s) \/ Skip(s) \/ Reply(s) \/ Ask(s)
  \/ Prepare(s) \/ PrepareFails(s) \/ AnswerAgain(s) \/ Chunk(s)
  \/ ModelFails(s) \/ Compacted(s) \/ AskTools(s) \/ Use(s) \/ Finish(s)

Browser(s) ==
  \/ Upgrade(s)
  \/ \E frame \in Frame : Write(s, frame)
  \/ Leave(s)

\* No handler has anything to do.  (A closed one drops what came after.)
Idle(s) == pc[s] \in {"off", "closed"} \/ (pc[s] = "idle" /\ inbox[s] = <<>>)
Terminated == (\A s \in Sockets : Idle(s)) /\ UNCHANGED vars

Next ==
  \/ \E s \in Sockets : Handler(s) \/ Browser(s)
  \/ \E p \in Profiles : Recover(p)
  \/ Terminated

Spec == Init /\ [][Next]_vars

\* The event loop runs every handler; the model and the tools answer or fail.
Fairness == \A s \in Sockets : WF_vars(Handler(s))
FairSpec == Spec /\ Fairness

-----------------------------------------------------------------------------
(* Properties.                                                             *)

End == {"done", "error"}

\* Each question ends in one frame, "done" or "error": none of its chunks comes
\* after it, no question gets two, and a browser that is there gets one.
OneEndPerQuestion ==
  \A s \in Sockets :
    /\ \A i, j \in DOMAIN outbox[s] :
         i < j /\ outbox[s][i].type \in End =>
           outbox[s][j].q > outbox[s][i].q
    /\ browser[s] = "there" =>
         \A q \in 1..asked[s] : q < asked[s] \/ pc[s] = "idle" =>
           \E i \in DOMAIN outbox[s] : outbox[s][i].q = q /\ outbox[s][i].type \in End

\* The frames received for the chunks of one call of the model.
Chunks(received, q, c) ==
  {j \in DOMAIN received :
     received[j].type = "chunk" /\ received[j].q = q /\ received[j].call = c}

\* What a browser has seen streamed, since the last tools were used, is what the
\* session keeps as the answer.
StreamedIsStored ==
  \A s \in Sockets : \A i \in DOMAIN outbox[s] :
    outbox[s][i].type = "done" =>
      \E k \in DOMAIN stored[s] :
        /\ stored[s][k].q = outbox[s][i].q
        /\ stored[s][k].size = Cardinality(Chunks(outbox[s], stored[s][k].q, stored[s][k].call))

\* The model is called again with one result for each tool it asked for, in the
\* order it asked; and no tool the agent may not use has answered.
RequestsAreWhole ==
  \A s \in Sockets :
    LET t == turn[s] IN
    pc[s] = "calling" =>
      /\ Len(t.results) = Len(t.uses)
      /\ \A n \in DOMAIN t.results :
           t.results[n].use = n /\ (t.results[n].text = "value" => ~Blocked(t.uses[n]))

\* Every frame is dealt with, every question ends, and a socket whose browser
\* has left is forgotten.
EveryQuestionEnds ==
  <>[](\A s \in Sockets : Idle(s) /\ (browser[s] = "gone" => s \notin active))
=============================================================================
