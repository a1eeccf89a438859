---------------------------- MODULE SessionTurns ----------------------------
(***************************************************************************)
(* Turns on the sessions of one gateway: claw/gateway/server.py            *)
(* (_listener_loop, handle_inbound, _run_turn, run_agent_turn) over        *)
(* claw/sessions/manager.py and claw/sessions/compactor.py.                *)
(*                                                                         *)
(* A task is what runs one turn: an Inbound task carries a message a       *)
(* channel adapter received (an asyncio task of the listener's making, or, *)
(* on WebChat, what the socket's own task does with one frame), an Inner   *)
(* task is a call of run_agent_turn with a session key (a delegation; one  *)
(* from a peer node that timed out there is retried while the first call   *)
(* still runs here).  Both kinds take the per-session asyncio.Lock, on     *)
(* keys of their own.  A step of the model is the code between two awaits  *)
(* that really suspend: a lock that is free, and a compact_if_needed with  *)
(* nothing to compact, do not suspend.                                     *)
(*                                                                         *)
(* A message of a history is abstracted to who wrote it and which part of  *)
(* the conversation it carries.  log[s] is a history variable: everything  *)
(* that was ever said in s.  A message carries log positions from..at; a   *)
(* plain message carries one, a summary the range it replaced, a summary   *)
(* whose LLM call failed nothing (from = at + 1).                          *)
(***************************************************************************)
EXTENDS Integers, Sequences, FiniteSets

CONSTANTS
  Sessions,     \* session keys
  Inbound,      \* tasks of messages from a channel
  Inner,        \* tasks of run_agent_turn with a session key
  WebChat,      \* the inbound tasks whose channel is WebChat
  SessionOf,    \* the session key of each task
  Threshold,    \* SessionConfig.compaction_threshold
  KeepRecent,   \* SessionConfig.compaction_keep_recent
  MaxMessages,  \* SessionConfig.max_messages
  MaxBlocks,    \* bound: blocks an answer is split into
  MaxResets,    \* bound: calls of ClawSessionManager.reset
  NoTask        \* nobody holds the lock

Tasks == Inbound \cup Inner

ASSUME TasksAssumption ==
  /\ Inbound \cap Inner = {}
  /\ WebChat \subseteq Inbound
  /\ SessionOf \in [Tasks -> Sessions]
  /\ NoTask \notin Tasks

\* SessionKeyBuilder's keys start with "agent:", those of the delegation tools
\* with "delegate:" or "weave:".
ASSUME KeysAssumption ==
  \A t \in Inbound, u \in Inner : SessionOf[t] # SessionOf[u]

ASSUME SizesAssumption ==
  /\ Threshold \in Nat \ {0}
  /\ KeepRecent \in Nat
  /\ MaxMessages \in Nat \ {0}
  /\ MaxBlocks \in Nat
  /\ MaxResets \in Nat

VARIABLES
  pc,          \* where each task is
  spawned,     \* tasks created by the listeners, in the event loop's order
  waiters,     \* asyncio.Lock._waiters of each session
  holder,      \* the task that holds the lock of each session
  history,     \* SessionEntry.messages of each session
  prompt,      \* the message list a task works on (snapshot, then LLM input)
  fresh,       \* _run_turn's is_new_session
  recalled,    \* the memories that were stored when a task's recall ran
  remembered,  \* tasks that stored a memory (the `remember` tool)
  blocks,      \* number of blocks an answer was split into
  delivered,   \* blocks delivered so far
  events,      \* AINDY events a turn emitted
  outbox,      \* history variable: what was delivered for each session
  log,         \* history variable: everything said in each session
  arrivals,    \* history variable: inbound tasks in the order received
  taken,       \* history variable: inbound tasks in the order handle_inbound ran
  resets       \* number of resets

lockVars == <<spawned, waiters, holder>>
convVars == <<history, prompt, log>>
memVars  == <<recalled, remembered>>
outVars  == <<blocks, delivered, events, outbox>>
vars == <<pc, lockVars, convVars, fresh, memVars, outVars, arrivals, taken, resets>>

Pc == {"idle", "spawned", "recalling", "waiting", "compacting", "thinking",
       "delivering", "reporting", "done", "dropped"}
Event == {"session.started", "turn.start", "turn.complete", "turn.error"}
Entry == [role : {"user", "assistant"}, task : Tasks]
Message == [role : {"user", "assistant", "summary"}, task : Tasks,
            from : Nat \ {0}, at : Nat]
Delivery == [task : Tasks, index : Int]

TypeOK ==
  /\ pc \in [Tasks -> Pc]
  /\ spawned \in Seq(Inbound)
  /\ waiters \in [Sessions -> Seq(Tasks)]
  /\ holder \in [Sessions -> Tasks \cup {NoTask}]
  /\ history \in [Sessions -> Seq(Message)]
  /\ prompt \in [Tasks -> Seq(Message)]
  /\ fresh \in [Tasks -> BOOLEAN]
  /\ recalled \in [Tasks -> SUBSET Tasks]
  /\ remembered \in SUBSET Tasks
  /\ blocks \in [Tasks -> Nat]
  /\ delivered \in [Tasks -> Nat]
  /\ events \in [Tasks -> SUBSET Event]
  /\ outbox \in [Sessions -> Seq(Delivery)]
  /\ log \in [Sessions -> Seq(Entry)]
  /\ arrivals \in Seq(Inbound)
  /\ taken \in Seq(Inbound)
  /\ resets \in Nat

Init ==
  /\ pc = [t \in Tasks |-> "idle"]
  /\ spawned = <<>>
  /\ waiters = [s \in Sessions |-> <<>>]
  /\ holder = [s \in Sessions |-> NoTask]
  /\ history = [s \in Sessions |-> <<>>]
  /\ prompt = [t \in Tasks |-> <<>>]
  /\ fresh = [t \in Tasks |-> FALSE]
  /\ recalled = [t \in Tasks |-> {}]
  /\ remembered = {}
  /\ blocks = [t \in Tasks |-> 0]
  /\ delivered = [t \in Tasks |-> 0]
  /\ events = [t \in Tasks |-> {}]
  /\ outbox = [s \in Sessions |-> <<>>]
  /\ log = [s \in Sessions |-> <<>>]
  /\ arrivals = <<>>
  /\ taken = <<>>
  /\ resets = 0

-----------------------------------------------------------------------------
(* Message lists: ContextCompactor and the pruning of nodus_session.       *)

\* Definitions whose comment starts with "Wrong:" are used by no definition of
\* the system; each is a slip one of the properties must notice.

\* Wrong: the threshold itself is not compacted.
NeedsCompactionLate(h) == Len(h) > Threshold
NeedsCompaction(h) == Len(h) >= Threshold

\* Wrong: nothing is kept verbatim.
CutEverything(h) == Len(h)

\* `messages[:n]` and `messages[n:]` for n = len(messages) - keep_recent: a
\* negative n counts from the end, and stops at the start of the list.
CutPoint(h) ==
  LET n == Len(h) - KeepRecent
      fromEnd == Len(h) + n
  IN  IF n >= 0 THEN n ELSE IF fromEnd >= 0 THEN fromEnd ELSE 0

OldPart(h) == SubSeq(h, 1, CutPoint(h))

RecentPart(h) == SubSeq(h, CutPoint(h) + 1, Len(h))

\* The summary that replaces OldPart(h).  It carries what the old part
\* carried, or nothing when the LLM call failed or there was no old part.
Summary(h, t, ok) ==
  LET old  == OldPart(h)
      last == IF old = <<>> THEN h[1].from - 1 ELSE old[Len(old)].at
      from == IF ok /\ old # <<>> THEN old[1].from ELSE last + 1
  IN  [role |-> "summary", task |-> t, from |-> from, at |-> last]

Compacted(h, t, ok) == <<Summary(h, t, ok)>> \o RecentPart(h)

\* Wrong: the newest messages are dropped.
PrunedFromTheEnd(h) == SubSeq(h, 1, IF Len(h) > MaxMessages THEN MaxMessages ELSE Len(h))
Pruned(h) ==
  IF Len(h) > MaxMessages THEN SubSeq(h, Len(h) - MaxMessages + 1, Len(h)) ELSE h

Said(s, role, t) ==
  [role |-> role, task |-> t, from |-> Len(log[s]) + 1, at |-> Len(log[s]) + 1]

-----------------------------------------------------------------------------
(* The lock of a session, and the parts of a turn two actions share.       *)

\* Wrong: a newcomer takes a released lock before the waiter it woke.
LockFreeBarging(s) == holder[s] = NoTask

\* Wrong: lock_for hands every caller a lock of its own.
LockFreeAlways(s) == TRUE

\* asyncio.Lock.acquire without suspending: nobody holds it, nobody waits.
LockFree(s) == holder[s] = NoTask /\ waiters[s] = <<>>

\* Wrong: the lock is never released.
ReleaseForgotten(t) == UNCHANGED holder
Release(t) == holder' = [holder EXCEPT ![SessionOf[t]] = NoTask]

IsNewSession(s) == Len(history[s]) = 0

\* Only _run_turn emits turn events; session.started when it found no history.
StartEvents(t) ==
  IF t \in Inner THEN {}
  ELSE {"turn.start"} \cup (IF fresh[t] THEN {"session.started"} ELSE {})

\* Append the user message; with a long history start the compaction, else
\* prune and call the LLM on the list as it was before pruning.
TakeQuestion(t) ==
  LET s == SessionOf[t]
      h == Append(history[s], Said(s, "user", t))
  IN  /\ log' = [log EXCEPT ![s] = Append(@, [role |-> "user", task |-> t])]
      /\ prompt' = [prompt EXCEPT ![t] = h]
      /\ IF NeedsCompaction(h)
         THEN /\ pc' = [pc EXCEPT ![t] = "compacting"]
              /\ history' = [history EXCEPT ![s] = h]
              /\ UNCHANGED events
         ELSE /\ pc' = [pc EXCEPT ![t] = "thinking"]
              /\ history' = [history EXCEPT ![s] = Pruned(h)]
              /\ events' = [events EXCEPT ![t] = StartEvents(t)]
-----------------------------------------------------------------------------
(* Inbound messages: from the listener to the turn.                        *)

\* _listener_loop: a message the DM policy lets through becomes a task.
\* WebChat has no listener.
Receive(t) ==
  /\ t \in Inbound \ WebChat
  /\ pc[t] = "idle"
  /\ pc' = [pc EXCEPT ![t] = "spawned"]
  /\ spawned' = Append(spawned, t)
  /\ arrivals' = Append(arrivals, t)
  /\ UNCHANGED <<waiters, holder, convVars, fresh, memVars, outVars, taken, resets>>

\* The lock is granted: _run_turn up to its first await, the recall.
EnterTurn(t) ==
  /\ holder' = [holder EXCEPT ![SessionOf[t]] = t]
  /\ fresh' = [fresh EXCEPT ![t] = IsNewSession(SessionOf[t])]
  /\ pc' = [pc EXCEPT ![t] = "recalling"]

Queue(t) ==
  /\ waiters' = [waiters EXCEPT ![SessionOf[t]] = Append(@, t)]
  /\ pc' = [pc EXCEPT ![t] = "waiting"]

\* handle_inbound: refused by the policy, routed to an agent without a turn,
\* or on to the lock of its session.
Approach(t) ==
  /\ taken' = Append(taken, t)
  /\ \/ /\ pc' = [pc EXCEPT ![t] = "dropped"]
        /\ UNCHANGED <<waiters, holder, fresh>>
     \/ /\ LockFree(SessionOf[t])
        /\ EnterTurn(t)
        /\ UNCHANGED waiters
     \/ /\ ~LockFree(SessionOf[t])
        /\ Queue(t)
        /\ UNCHANGED <<holder, fresh>>

\* The event loop runs the first step of a task a listener created.
HandleInbound(t) ==
  /\ spawned # <<>>
  /\ t = Head(spawned)
  /\ spawned' = Tail(spawned)
  /\ Approach(t)
  /\ UNCHANGED <<convVars, memVars, outVars, arrivals, resets>>

\* ws_chat: a socket's task awaits handle_inbound itself, in the step that reads
\* the frame, whatever tasks the listeners created before.
TakeFrame(t) ==
  /\ t \in WebChat
  /\ pc[t] = "idle"
  /\ arrivals' = Append(arrivals, t)
  /\ Approach(t)
  /\ UNCHANGED <<spawned, convVars, memVars, outVars, resets>>

\* _run_turn after the recall and the knowledge retrieval, under the lock.
Recall(t) ==
  /\ t \in Inbound
  /\ pc[t] = "recalling"
  /\ recalled' = [recalled EXCEPT ![t] = remembered]
  /\ TakeQuestion(t)
  /\ UNCHANGED <<lockVars, fresh, remembered, blocks, delivered, outbox, arrivals, taken, resets>>

-----------------------------------------------------------------------------
(* run_agent_turn with a session key.                                      *)

\* The agent is unknown, or the call goes on to recall, with no lock held.
AskInner(t) ==
  /\ t \in Inner
  /\ pc[t] = "idle"
  /\ \E next \in {"dropped", "recalling"} : pc' = [pc EXCEPT ![t] = next]
  /\ UNCHANGED <<lockVars, convVars, fresh, memVars, outVars, arrivals, taken, resets>>

RecallInner(t) ==
  /\ t \in Inner
  /\ pc[t] = "recalling"
  /\ recalled' = [recalled EXCEPT ![t] = remembered]
  /\ \/ /\ LockFree(SessionOf[t])
        /\ holder' = [holder EXCEPT ![SessionOf[t]] = t]
        /\ TakeQuestion(t)
        /\ UNCHANGED waiters
     \/ /\ ~LockFree(SessionOf[t])
        /\ Queue(t)
        /\ UNCHANGED <<holder, convVars, events>>
  /\ UNCHANGED <<spawned, fresh, remembered, blocks, delivered, outbox, arrivals, taken, resets>>

-----------------------------------------------------------------------------
(* Under the lock.                                                         *)

\* The lock was released and its first waiter runs.
Wake(t) ==
  /\ pc[t] = "waiting"
  /\ holder[SessionOf[t]] = NoTask
  /\ waiters[SessionOf[t]] # <<>>
  /\ t = Head(waiters[SessionOf[t]])
  /\ waiters' = [waiters EXCEPT ![SessionOf[t]] = Tail(@)]
  /\ \/ /\ t \in Inbound
        /\ EnterTurn(t)
        /\ UNCHANGED <<convVars, events>>
     \/ /\ t \in Inner
        /\ holder' = [holder EXCEPT ![SessionOf[t]] = t]
        /\ TakeQuestion(t)
        /\ UNCHANGED fresh
  /\ UNCHANGED <<spawned, memVars, blocks, delivered, outbox, arrivals, taken, resets>>

\* compact_if_needed after the summarizing LLM call, which may have failed:
\* the session's list is cleared and rewritten from the snapshot, then pruned.
Compact(t, ok) ==
  LET s == SessionOf[t]
      h == Compacted(prompt[t], t, ok)
  IN  /\ pc[t] = "compacting"
      /\ history' = [history EXCEPT ![s] = Pruned(h)]
      /\ prompt' = [prompt EXCEPT ![t] = h]
      /\ events' = [events EXCEPT ![t] = StartEvents(t)]
      /\ pc' = [pc EXCEPT ![t] = "thinking"]
      /\ UNCHANGED <<lockVars, log, fresh, memVars, blocks, delivered, outbox, arrivals, taken, resets>>

\* A tool call of the LLM stores a memory.
Remember(t) ==
  /\ pc[t] = "thinking"
  /\ t \notin remembered
  /\ remembered' = remembered \cup {t}
  /\ UNCHANGED <<pc, lockVars, convVars, fresh, recalled, outVars, arrivals, taken, resets>>

\* turn.run returned.  An inner turn is over; an inbound one has n blocks to
\* deliver (none on WebChat, where the answer was streamed).
Answer(t, n) ==
  LET s == SessionOf[t]
  IN  /\ pc[t] = "thinking"
      /\ history' = [history EXCEPT ![s] = Append(@, Said(s, "assistant", t))]
      /\ log' = [log EXCEPT ![s] = Append(@, [role |-> "assistant", task |-> t])]
      /\ \/ /\ t \in Inner
            /\ n = 0
            /\ pc' = [pc EXCEPT ![t] = "done"]
            /\ Release(t)
            /\ UNCHANGED <<events, blocks>>
         \/ /\ t \in Inbound
            /\ t \in WebChat => n = 0
            /\ pc' = [pc EXCEPT ![t] = "delivering"]
            /\ events' = [events EXCEPT ![t] = @ \cup {"turn.complete"}]
            /\ blocks' = [blocks EXCEPT ![t] = n]
            /\ UNCHANGED holder
      /\ UNCHANGED <<spawned, waiters, prompt, fresh, memVars, delivered, outbox, arrivals, taken, resets>>

\* turn.run raised: an inner turn returns "[error: ...]".
Fail(t) ==
  /\ pc[t] = "thinking"
  /\ \/ /\ t \in Inner
        /\ pc' = [pc EXCEPT ![t] = "done"]
        /\ Release(t)
        /\ UNCHANGED events
     \/ /\ t \in Inbound
        /\ pc' = [pc EXCEPT ![t] = "reporting"]
        /\ events' = [events EXCEPT ![t] = @ \cup {"turn.error"}]
        /\ UNCHANGED holder
  /\ UNCHANGED <<spawned, waiters, convVars, fresh, memVars, blocks, delivered, outbox, arrivals, taken, resets>>

-----------------------------------------------------------------------------
(* Delivery, still under the lock.                                         *)

\* an error report has index -1
Post(t, index) ==
  outbox' = [outbox EXCEPT ![SessionOf[t]] = Append(@, [task |-> t, index |-> index])]

DeliverBlock(t) ==
  /\ pc[t] = "delivering"
  /\ delivered[t] < blocks[t]
  /\ Post(t, delivered[t])
  /\ delivered' = [delivered EXCEPT ![t] = @ + 1]
  /\ UNCHANGED <<pc, lockVars, convVars, fresh, memVars, blocks, events, arrivals, taken, resets>>

\* The adapter raised, perhaps after the channel's API took the message.
\* (With the effect seam of AINDY a block could arrive later still.)
DeliverFails(t) ==
  /\ pc[t] = "delivering"
  /\ delivered[t] < blocks[t]
  /\ Post(t, delivered[t]) \/ UNCHANGED outbox
  /\ events' = [events EXCEPT ![t] = @ \cup {"turn.error"}]
  /\ pc' = [pc EXCEPT ![t] = "reporting"]
  /\ UNCHANGED <<lockVars, convVars, fresh, memVars, blocks, delivered, arrivals, taken, resets>>

\* Wrong: the turn is over one block too early.
FinishEarly(t) ==
  /\ pc[t] = "delivering"
  /\ delivered[t] + 1 >= blocks[t]
  /\ pc' = [pc EXCEPT ![t] = "done"]
  /\ Release(t)
  /\ UNCHANGED <<spawned, waiters, convVars, fresh, memVars, outVars, arrivals, taken, resets>>

Finish(t) ==
  /\ pc[t] = "delivering"
  /\ delivered[t] = blocks[t]
  /\ pc' = [pc EXCEPT ![t] = "done"]
  /\ Release(t)
  /\ UNCHANGED <<spawned, waiters, convVars, fresh, memVars, outVars, arrivals, taken, resets>>

\* The error text is delivered, or its delivery fails too and is swallowed.
ReportError(t) ==
  /\ pc[t] = "reporting"
  /\ Post(t, -1) \/ UNCHANGED outbox
  /\ pc' = [pc EXCEPT ![t] = "done"]
  /\ Release(t)
  /\ UNCHANGED <<spawned, waiters, convVars, fresh, memVars, blocks, delivered, events, arrivals, taken, resets>>

-----------------------------------------------------------------------------
\* ClawSessionManager.reset: takes no lock.
Reset(s) ==
  /\ resets < MaxResets
  /\ resets' = resets + 1
  /\ history' = [history EXCEPT ![s] = <<>>]
  /\ UNCHANGED <<pc, lockVars, prompt, log, fresh, memVars, outVars, arrivals, taken>>

Terminated ==
  /\ \A t \in Tasks : pc[t] \in {"done", "dropped"}
  /\ UNCHANGED vars

\* What the event loop runs of a task once it exists.
Step(t) ==
  \/ HandleInbound(t)
  \/ Recall(t)
  \/ RecallInner(t)
  \/ Wake(t)
  \/ \E ok \in BOOLEAN : Compact(t, ok)
  \/ Remember(t)
  \/ \E n \in 0..MaxBlocks : Answer(t, n)
  \/ Fail(t)
  \/ DeliverBlock(t)
  \/ DeliverFails(t)
  \/ Finish(t)
  \/ ReportError(t)

Next ==
  \/ \E t \in Tasks : Receive(t) \/ TakeFrame(t) \/ AskInner(t) \/ Step(t)
  \/ \E s \in Sessions : Reset(s)
  \/ Terminated

Spec == Init /\ [][Next]_vars

\* The event loop runs every task that can run; the LLM and the channels'
\* APIs answer or fail (their clients time out).
Fairness == \A t \in Tasks : WF_vars(Step(t))

FairSpec == Spec /\ Fairness
-----------------------------------------------------------------------------
(* Properties.                                                             *)

\* t is between the acquisition and the release of its session's lock
InTurn(t) ==
  \/ pc[t] \in {"compacting", "thinking", "delivering", "reporting"}
  \/ t \in Inbound /\ pc[t] = "recalling"

\* t has entered its turn, now or earlier
Begun(t) == InTurn(t) \/ pc[t] = "done"

Asked(s) == {k \in DOMAIN log[s] : log[s][k].role = "user"}

\* At most one turn of a session is in progress: the await points of _run_turn
\* or run_agent_turn never interleave two turns of one session.
SerializedTurns ==
  \A t, u \in Tasks :
    InTurn(t) /\ InTurn(u) /\ SessionOf[t] = SessionOf[u] => t = u

\* Messages of one session are answered in the order handle_inbound took them
\* up, and that is the order the channels received them in, across task
\* creation, event loop and lock (manager.py: "FIFO order"): nothing overtakes
\* an earlier message but a WebChat frame one whose task has not run yet.
ServedInOrder ==
  LET Over(t) == pc[t] \in {"done", "dropped"}
      InOrder(order, S) ==
        \A i, j \in DOMAIN order :
          /\ i < j
          /\ order[j] \in S
          /\ SessionOf[order[i]] = SessionOf[order[j]]
          /\ Begun(order[j])
          => Over(order[i])
  IN  InOrder(taken, Inbound) /\ InOrder(arrivals, Inbound \ WebChat)

\* A session is announced once: is_new_session is read when the lock is taken
\* and used after the recall's awaits, and no two turns both find the session
\* new, unless somebody reset one.
SessionStartsOnce ==
  \A t, u \in Inbound :
    /\ t # u
    /\ SessionOf[t] = SessionOf[u]
    /\ "session.started" \in events[t] \cap events[u]
    => resets > 0

\* h carries a connected stretch of the conversation l, up to its last word,
\* and quotes it correctly.
Faithful(h, l) ==
  /\ \A i \in 1..(Len(h) - 1) : h[i + 1].from = h[i].at + 1
  /\ h # <<>> => h[Len(h)].at = Len(l)
  /\ \A i \in 1..Len(h) :
       h[i].role # "summary" =>
         /\ h[i].from = h[i].at
         /\ h[i].at \in 1..Len(l)
         /\ l[h[i].at] = [role |-> h[i].role, task |-> h[i].task]

\* With something kept verbatim, the last message of h is t's own question.
EndsWithQuestion(h, t) ==
  KeepRecent > 0 => h[Len(h)].role = "user" /\ h[Len(h)].task = t

\* The clear-and-rewrite of a compaction, the pruning and the appends of the
\* turns around them never lose, repeat or reorder a message in the middle of
\* a history: the summary's await is a read-modify-write of the whole list.
HistoryIsFaithful == \A s \in Sessions : Faithful(history[s], log[s])

\* What the LLM is asked to answer is a faithful stretch of the conversation
\* that ends with the task's own question (unless nothing is kept verbatim).
PromptIsFaithful ==
  \A t \in Tasks :
    pc[t] \in {"compacting", "thinking"} =>
      /\ Faithful(prompt[t], log[SessionOf[t]])
      /\ EndsWithQuestion(prompt[t], t)

\* What a session's peers receive is ordered like the conversation: all blocks
\* of a turn in order, an error report last, nothing of the next turn between.
DeliveredInOrder ==
  \A s \in Sessions : \A i, j \in DOMAIN outbox[s] :
    LET a == outbox[s][i]
        b == outbox[s][j]
    IN  i < j =>
          IF a.task = b.task
          THEN a.index >= 0 /\ (b.index = -1 \/ a.index < b.index)
          ELSE \E k, l \in Asked(s) :
                 k < l /\ log[s][k].task = a.task /\ log[s][l].task = b.task

\* How far a message is, as the person who sent it sees it.
StageOf(state) ==
  CASE state = "idle" -> "new"
    [] state = "spawned" -> "asked"
    [] state = "waiting" -> "waiting"
    [] state \in {"recalling", "compacting", "thinking"} -> "served"
    [] state = "delivering" -> "answered"
    [] state = "reporting" -> "failed"
    [] state \in {"done", "dropped"} -> "over"

Stages == [t \in Inbound |-> StageOf(pc[t])]

Parts == [t \in Inbound |-> blocks[t]]

Talk == INSTANCE Conversation WITH
  Questions <- Inbound,
  Direct <- WebChat,
  MaxParts <- MaxBlocks,
  asked <- arrivals,
  line <- taken,
  stage <- Stages,
  parts <- Parts,
  told <- outbox

\* handle_inbound, _run_turn: tasks, locks, compactions and delegations are
\* nothing but a way to hold each session's conversation: one message at a time,
\* in the order of the line they join, told all of its answer in order or else one error text at most.
HoldsConversations == Talk!Spec

\* _run_turn recalls under the lock: the recall of a message's turn could find
\* every memory the earlier turns of its session stored.
InboundSeesEarlierMemories ==
  \A t \in Inbound :
    LET s == SessionOf[t]
    IN  \A k, l \in Asked(s) :
          /\ k < l
          /\ log[s][l].task = t
          /\ log[s][k].task \in remembered
          => log[s][k].task \in recalled[t]

\* Compaction bounds what one LLM call is given, whatever sequence of
\* answers, failures, failed summaries and resets came before.
PromptIsBounded ==
  \A t \in Tasks :
    pc[t] = "thinking" => Len(prompt[t]) < Threshold \/ Len(prompt[t]) <= KeepRecent + 1

\* Every message a listener accepted and every delegation gets its turn and
\* leaves it: no waiter of a session starves.
EveryTurnEnds ==
  \A t \in Tasks : pc[t] # "idle" ~> pc[t] \in {"done", "dropped"}
=============================================================================
