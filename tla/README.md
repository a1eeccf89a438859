# infinityclaw in TLA+

A verification project for the gateway in this repository: TLA+ modules of its
parts, TLC runs on small instances, and theorems checked by TLAPS.
`PROJECT.json` holds the machine-readable side: which lines of the source each
definition stands for, the runs, one mutant per property, the hazards and the
theorems. To repeat the work, in this directory:

    tlc -config TurnsOneSession.cfg MCSessionTurns.tla    # one run
    tlapm SessionTurnsProofs.tla                          # one module of proofs

Definitions whose comment starts with "Wrong:" belong to no specification; each
is a slip a property has to notice when it stands in for the right definition.

## 1. The system

One process runs a FastAPI gateway with one asyncio event loop. Channel adapters
receive messages, each becomes a task, and the task runs an agent turn: recall
memories, build a prompt, call the LLM with tools, store and deliver the answer.
Tools reach memory, shared documents and tasks, other agents, and agents on peer
nodes. Blocking stores are called through `asyncio.to_thread`, so two tasks can
be inside one store at the same time.

| Component | State | Operations | Talks to |
|---|---|---|---|
| Session turns (`gateway/server.py`, `sessions/`) | history and lock of each session, tasks in flight | listener, `handle_inbound`, `_run_turn`, `run_agent_turn`, compaction, pruning, reset | everything below |
| Routing (`routing/`, `sessions/key.py`) | bindings | `resolve`, `build` | called by `handle_inbound` |
| Channels (`channels/`, five of `claw_*`) | an adapter's connection, its handlers and its queue, pairing codes, DM policy | connect, handlers, listener, send, `generate_code`, `approve`, `allow` | the services, `handle_inbound` |
| WebChat (`claw_webchat/`) | sockets, `_active_ws` | upgrade, frames, chunks, `send_error`, hangup | browsers, `handle_inbound` |
| Agent turn (`agents/`) | credential cooldowns | `run`, `mark_cooldown`, `mark_success` | the LLM, the tools |
| Response splitting (`agents/streaming.py`) | none | `split_blocks` | called by delivery |
| Memory (`memory/`, `aindy/memory_store.py`) | local SQLite nodes, AINDY nodes | `remember`, `recall`, `list`, `get`, `forget`, `feedback` | AINDY over a thread |
| Effect seam (`aindy/effects.py`) | capability tokens, the runtime's ledger | `send` | adapters, from a worker thread |
| Coordination (`coordination/`) | delegations | `dispatch`, `delegate_to_agent` | `run_agent_turn` |
| Workspace (`workspace/`) | workspaces, permissions, documents and tasks (SQLite) | create, update, upsert, sync, share | tools, HTTP routes, the CLI, peers |
| Weave (`weave/`, routes in `server.py`) | registry of nodes | delegate, push, pull index, register | peers over HTTP |
| Knowledge (`knowledge/`) | index of chunks and sources | scan, watch, pull, clear, insert, export, search | the file watcher, peers |
| Cron (`cron/`) | jobs | add, remove, run, deliver | scheduler threads, turns |
| API keys (`auth/`) | hashed keys | create, verify, revoke | HTTP middleware |
| Permissions (`permissions/`, `tools/`) | policies | `check_tool_call`, `invoke` | every tool a turn uses |
| Skills, config, CLI, bootstrapper | none that outlives a call | | |

What is hard in it:

* **Interleaving.** Between two awaits of a turn anything else can run. Turns of
  one session are kept apart by an `asyncio.Lock`; everything else (workspace,
  memory, knowledge, credentials) is shared by turns that run side by side.
* **Read, await, write back.** Compaction reads a history, awaits an LLM call
  and rewrites the history; the workspace store reads a row and writes it in two
  statements with no transaction around them.
* **Nested turns.** A tool of a turn runs another turn, on a session of its own,
  while the first turn keeps its lock; on peer nodes the wait has a timeout and
  the work does not.
* **Lost and late calls.** Pushes to peers are sent once; a send through the
  effect seam can finish after its timeout; AINDY can come and go.
* **Partial failure.** A turn can fail after its answer is stored, between two
  blocks, or while it reports the failure; one of several tools fails; a browser
  leaves in the middle of an answer.
* **Values that age.** A permission, a policy, a pairing code or a credential is
  looked at in one step and relied on in a later one.

What makes each part correct:

* Session turns: one turn per session at a time, in the order they come to its lock, a
  history that compaction never scrambles, an answer next to its question,
  delivery in order, bounded prompts, and every turn ends.
* Workspace and its sync: replicas that have seen the same updates agree, and a
  newer version is never replaced by an older one; a tool gets at another
  agent's workspace only with a permission of the agent it acts as.
* Delegation: nested turns never wait for each other in a circle, and every
  delegation comes back with an answer or an error.
* Memory: what was remembered is found, what was forgotten stays forgotten,
  whether AINDY is up or down.
* Effect seam: one message key is delivered once.
* Routing: the binding that names the peer wins over a general one.
* Channels: an event becomes one turn, in order, and the answer goes where the
  question came from.
* WebChat: each question ends in one frame, and what was streamed is what is stored.
* Turn loop: the model gets one result per tool it asked for, in order.
* Knowledge: the index holds the chunks of the current version of each source.
* Cron: a job fires once per tick, and a late run does not deliver twice.
* Pairing: a peer is served after its code was approved, once and before it expired.
* Response splitting: no text is lost and no block is longer than the limit.


## 2. The plan

The modules were written in the order of what a message meets most: `SessionTurns`,
`WorkspaceSync`, `Delegation`, `MemoryStores`, `KnowledgeIndex`, `Outbound`, then
the two ways in, `Channels` and `WebChat` (with the turn loop under it), and
`Sharing`. Two abstract specifications are stated and implemented:
`Conversation`, by `SessionTurns`, and `ExactlyOnce`, by `Outbound`. Proofs followed
each module once TLC agreed.

What would come next, in order of what it adds:

1. Pure functions beside a reference definition: `split_blocks`, `chunk_text`.
2. The assets of a workspace, pushes to WebChat's sockets, the registry of nodes.
3. An abstract store of memories that `MemoryStores` implements, whose steps say
   which exceptions the fallback makes; its invariants are proved, one by one.

Every module has one passing run with small bounds, and two where one instance
would not hold all that matters.

## 3. The modules

| Module | Source | State | Actions |
|---|---|---|---|
| `SessionTurns` | `gateway/server.py` 535-745, `run_agent_turn` 402-499, `sessions/manager.py`, `sessions/compactor.py` | lock (`holder`, `waiters`), `history`, the place of each task (`pc`), what it holds across awaits (prompt, recall, `fresh`), what channels were given (`outbox`) | one per stretch of code between two awaits that suspend |
| `Conversation` | what `handle_inbound` and `_run_turn` promise | the questions as asked, the line in which they were taken up, the stage of each, what each session was told | ask, take up, serve, answer, tell, fail, report, finish |
| `WorkspaceSync` | `workspace/store.py`, `workspace/tools.py`, `/sync` routes, `weave/client.py` push | `rows` of each node, store calls in progress, pushes on their way, a clock per node | call, SELECT, write, push, delivery, loss |
| `Delegation` | `coordination/`, `weave/tools.py`, delegate routes, `run_agent_turn` | the place of each turn, its key, the turn it waits for, the queues of the locks | arrive, take the lock, call, answer, time out, end, crash |
| `MemoryStores` | `memory/`, `aindy/memory_store.py` | the two stores and every call | begin, arrive, reply, fall back, fail, restart |
| `ExactlyOnce` | what `effects.py` promises | how often each message arrived, what the ledger says of it | post, tell |
| `Outbound` | `aindy/effects.py`, delivery in `server.py`, `cron/manager.py`, `claw_telegram/adapter.py` | the place of each turn, what its adapter does with each message, the ledger, the channels, the run each job's runner waits for | receive, fire, answer, token, call, connect, attempt, return, time out |
| `KnowledgeIndex` | `knowledge/`, `weave/client.py` pull, startup of `server.py` | the files, the two tables, what is committed, what loop and worker are doing | edit, scan, watch, handle a change, pull, one per SQL statement, restart |
| `Channels` | five `claw_*` adapters, `channels/`, `routing/resolver.py`, listener and `handle_inbound` in `server.py` | the adapter's connection, suspended handlers, its queue, turns, codes and pairings | start, connect, listen, arrive, put, forward, handle, answer, codes, stop, crash |
| `WebChat` | `claw_webchat/adapter.py`, `agents/turn.py`, `agents/registry.py`, `_run_turn`'s executor of tools | sockets, frames, the call of the model each turn is in, profiles on cooldown, answers stored | one per stretch of a handler between two awaits, what browsers do, recovery |
| `Sharing` | `workspace/tools.py`, federation routes, `workspace/store.py`, `workspace share` in `cli.py` | workspaces, permissions, documents, tasks, calls in progress | begin, find, check, ensure, select, insert, update, answer, share |

`MC*` modules give the constants of each their values; `*Proofs` modules hold
the theorems. `KnowledgeInvariants` holds the inductive invariants of
`KnowledgeIndex`, apart from their proofs, so that TLC can evaluate them; the
proofs are in `MemoryStoresProofs`, with those of the other place an agent looks
things up in, and the standard names of `KnowledgeIndex` (`IndexInit`,
`IndexNext`, `IndexSpec`, ...) carry a prefix because that module extends both. The
modules meet where the code does: `Delegation` has a turn as
wait, run, call, end, which `SessionTurns` shows in detail for one gateway;
`SessionTurns` has memories only as "stored or not when recalled", which
`MemoryStores` shows in detail; `Channels` ends in a turn and `WebChat` in a socket's
turn, whose lock and history are `SessionTurns`'; a send of `Outbound` shows what
becomes of the answers of `Channels`; `WorkspaceSync` has many nodes and no
permissions, `Sharing` one node with them; `KnowledgeIndex` takes from a peer what that
peer's index can hold at any moment (a beginning of one version, `NoMixture`).

**SessionTurns.** `Receive` is `_listener_loop` creating a task and `HandleInbound` the
first step of that task, which the event loop takes in the order of creation. A WebChat
frame has no listener: its socket's task awaits `handle_inbound` itself (`TakeFrame`), so it
may reach a session's lock before a channel message that was received earlier and whose
task has not run yet. Both go on as `Approach`: refused, in the turn, or in the lock's line.
`AskInner` is the entry of a delegated turn, `Wake` a waiter of `asyncio.Lock` that gets it,
`EnterTurn`/`Recall`/`Compact`/`Answer` the stretches of `_run_turn` and
`run_agent_turn`, `DeliverBlock`, `DeliverFails` and `ReportError` delivery.
A message is who wrote it and which part of the conversation it carries, so a
summary is a range: this is all that compaction and pruning can confuse.
It `INSTANCE`s `Conversation` under the mapping (`StageOf`) that shows of each
message how far it is and hides tasks, locks, compactions and delegations.

**WorkspaceSync.** `sync_document`, `upsert_document`, `upsert_task` and
`update_task` read a row in one statement and write in another, in worker
threads; the model keeps the two apart. Pushes are sent once to every peer, in no
order, and can be lost, as in `push_workspace`, which swallows failures.

**Delegation.** A session key embeds the key of the caller's session; the model
keeps that nesting and nothing else of the text. A delegation to a peer has a
timeout on the caller's side and none on the other.

**MemoryStores.** A call of AINDY runs in a thread: it may arrive after its
caller gave up, and its caller may get an exception although it arrived. The
mode is a constant of a behaviour.

**KnowledgeIndex.** The scan and the watcher run on the event loop, the pull in
a worker, on one SQLite connection: commits and the last row number belong to
both. Changes come in batches that are sets.

**Outbound.** A message is a block of a turn, or the text that reports an error;
a cron run announces its result as one. `Call` is `execute_tool` in a worker thread
as far as the adapter's coroutine, which then takes its own steps (`Connect`,
`Attempt`) on the event loop; `Return` and `TimeOut` are the end of
`future.result`. An adapter's error may come before or after the message
arrived. The threads are counted: the default executor has a number of them, and
an adapter that has to resolve a name needs one more. Turns are of different
sessions, so they run side by side. It `INSTANCE`s `ExactlyOnce` under the
mapping that counts what is in each channel.

**Channels.** One adapter is configured, and which one is chosen initially, as is
the policy. `Arrive` is the handler the service's library calls: `TelegramHandles`
to `SignalHandles` say what each adapter takes, and as whose message. Telegram's and
Slack's handlers suspend before they enqueue (`Put`), and so may pass each other. `Forward` is the
listener, `HandleInbound` the second look at the policy and the resolver, `Answer`
the send; `Connects` and `Sends` say what each library can answer. `disconnect_all`, a
crash and a later start are in it; queues, codes and pairings live in memory.

**WebChat.** A socket's handler takes a frame and runs the whole turn before the next.
A call of the model streams chunks, fails, asks for tools, or ends the turn.
`Outcomes` is what the turn's executor makes of a use of a tool: refused by policy or by
its input, unknown, failed or answered. Profiles are shared by all turns and by
the compactor. Sockets of one agent may share a session (`dm_scope` "main"); the wait for its
lock is `SessionTurns`', and here what is stored is told apart by socket. When a cooldown ends is nodus_llm's and
nondeterministic. A text is
the number of its chunks, so that what was streamed can be compared with what is stored.

**Sharing.** Each tool looks, asks for permission and acts, in steps of their own, as
they are in threads of the store; a route acts for a peer on the workspace its path
names. The agent a tool acts as (`ActsAs`) is the turn's own, or one its input names, which
takes the place of the injected `_agent_id`. `granted` and `rivals` are history variables
within records: whether the
caller held the permission at some moment of the call, and who else was about to insert.

## 4. The runs

| Run | Question | Bounds |
|---|---|---|
| `turns_one_session` | can turns of one session disturb each other, and do they hold a `Conversation`? | two messages of a listener and a WebChat frame on one session (the frame may overtake, and two must wait, one behind the other), answers of up to 2 blocks, compaction at 3 messages, each LLM call, summary, delivery and report may fail |
| `turns_delegated` | do compaction, pruning and reset together keep histories and prompts faithful, and does every turn end? | a message and two delegated turns of one key, one reset, keep_recent 2 and max_messages 2, so that a compacted history is pruned as well |
| `sync_documents` | do replicas agree, with creations under one name? | three documents of one name on two nodes, three clock readings |
| `sync_tasks` | the same for edits, eventually too | one task, two edits on two of three nodes: enough for concurrent, ordered and overtaking pushes |
| `sync_overwrites` | "last-write-wins by updated_at" (store.py:162, 243) | violated: a row read in one statement is compared, and a newer one overwritten in the next |
| `delegations` | can turns wait for each other in a circle, is every call answered? | three gateways, three roots (one without a session), four turns, one crash: a chain of three calls, or two that cross |
| `memories` | is what is acknowledged kept, and what is forgotten gone? | two memories of two agents, two other calls, every mode, one restart |
| `knowledge` | does the index follow the files, and is it never a mixture? | a file of two chunks, two versions, a peer's export, three edits, pulls and restarts in all: two edits in one batch, two pulls of different versions, or a restart between |
| `outbound` | does each message go out once, in order, and does every turn end? | an answer of up to two blocks and two runs of one job, of which one goes over Telegram and one opens a connection, with one thread: an error after each kind of step, a late send beside the error text, two runs side by side, and a thread that waits for an adapter that waits for a thread |
| `channels` | does each event become one turn, of the right agent, answered in the right place? | each channel under each policy, two direct chats and two groups, of which one chat and one group are in no list of guilds, two messages of five kinds (they can overtake, or meet different bindings), four bindings with the general ones before and after the peer's, one code, two starts |
| `sharing` | does a tool act without a permission, and where do two documents of a name come from? | two agents, inputs that name an agent and inputs that do not, one name, three calls (two that race and one that reads what came of it), any permissions to begin with and one change |
| `webchat` | does every question end once, with what was streamed stored? | two sockets, two frames, two profiles, two calls of the model with up to two tools between, one refused by policy and one by its input, one chunk per call |

Each bound is a constant named in its module and appears in the guard of the
action it bounds. The runs `turns_one_session`, `sync_documents`, `memories`,
`sharing` and `sync_overwrites` have no fairness; a system that stops satisfies
them as well.

### What the properties say

* `SerializedTurns`, `ServedInOrder`, `DeliveredInOrder`: the lock is taken in
  `handle_inbound`, after the task was created, and everything that follows happens
  under it, over a dozen awaits. Turns of a session are served in the order in which
  `handle_inbound` took them up; for the messages of listeners that is the order
  in which they were received, a WebChat frame may come in between.
* `SessionStartsOnce`: whether a session is new is looked at before the recall, and told to
  AINDY after it and after a compaction; it stays right, so only the first message a
  session takes up can announce it.
* `HoldsConversations`: the same as a whole, and with the end of a message in it:
  every step of the gateway is a step of `Conversation`, or none. It adds that an answer is
  told entirely unless an error was met, and that nothing follows the error text.
* `HistoryIsFaithful`, `PromptIsFaithful`: a history is a connected stretch of the
  conversation, quoted correctly, whatever was compacted, pruned or reset, and a
  prompt is one that ends with the task's own question.
* `InboundSeesEarlierMemories`, `PromptIsBounded`: values read before an await are
  still right after it.
* `Converged`, `SyncKeepsNewest`, `NothingInvented`, `EventuallyConsistent`:
  replicas that missed nothing agree, a sync keeps the newer row, rows come from
  writes. `missed` records what the code loses: a lost push, or the overwriting
  that `sync_overwrites` shows.
* `NoCircularWait`, `SessionsStayApart`, `CallersAreAnswered`,
  `EveryTurnEnds`: nested locks across gateways. `NobodyIsStuck`, that of turns which wait
  for each other one can go on, is proved and in no run.
* `RememberedIsKept`, `ForgottenStaysForgotten`, `ReadsOwnWrites`: two stores that
  take each other's place. The exception in the second is a memory stored in both,
  which happens when AINDY stored it and the reply was lost. The third is about `list` and
  `get`, which look in the store that answers, and says nothing of a recall. That no memory is
  reported deleted twice is proved (`DeletedOnce`) and in no run.
* `IndexIsFresh`, `NoMixture`, `OneTextPerRow`, `EventuallyQuiet`: see the
  comments in the module for what `IndexIsFresh` leaves out, which are things
  the code does: changes between scan and watch, deletions while the gateway was
  down, a deletion and a creation in one batch, a file that was emptied.
  `IndexTypeOK` is proved and in no run.
* `DeliversExactlyOnce`, `InOrder`, `CompleteUnlessReported`, `OverMeansQuiet`,
  `EveryDeliveryEnds`: what reaches a channel, seen from the ledger, from the answer
  and from the next turn. `late` records the one way out of `InOrder` and `OverMeansQuiet`: a
  send that timed out is reported failed and goes on. `RunsStayApart` is proved
  and in no run.
* `TakenOnceInOrder`, `AnsweredWhereAsked`, `PairedAreServed`,
  `EveryQuestionIsTaken`: one statement for five adapters, with the places named
  where one of them differs: handlers that suspend, a mention on Slack that is two
  events, a Signal group answered to its writer, sends nobody looks after.
* `AccessIsGranted`, `TwinsOverlapped`: what three statements of a tool may rely on
  when anything happens between them. The first says that the agent the tool acts as held
  the permission at some moment of the call, which is what a check before an act can give.
* `OneEndPerQuestion`, `StreamedIsStored`, `EveryQuestionEnds`: what a browser sees,
  from two places that report errors and any moment at which it may leave.
  `RequestsAreWhole`: what the loop of a turn owes the model.

## 5. Fairness

* `SessionTurns` and `Delegation`: weak fairness of each task's step. The event
  loop runs ready tasks in turn, `asyncio.Lock` wakes its waiters in order, and
  calls of an LLM or a channel end, with a result or an exception of their client
  library, so a step that stays possible is taken. No listener is
  forced to receive anything.
* `WorkspaceSync`: weak fairness of the store calls that have begun and of
  the delivery of pushes. A delivery may be a loss; then the row counts as missed.
* `KnowledgeIndex`: weak fairness of the event loop's work and of the worker
  thread. Edits, pulls and crashes have none.
* `Channels`: weak fairness of the event loop's tasks (connect, listener, suspended handlers,
  turns, which end by `SessionTurns!EveryTurnEnds`). Starts, stops, crashes, services and writers
  have none.
* `WebChat`: weak fairness of each socket's handler, since the event loop runs it and calls of the
  model and of tools end with a result or an exception. That a turn stops asking for tools is an assumption
  (`MaxCalls`): the loop (turn.py:65) has no bound. Browsers and recoveries of
  profiles have none: a question ends although no profile ever recovers.
* `Sharing`: none is needed; both properties are invariants.
* `Outbound`: weak fairness of each turn's own step. An adapter has none: it may hang,
  and the seam's timeout has to end the turn. A call that waits for a thread
  gets one, since each thread that waits for an adapter comes back.

## 6. What is proved

`SessionTurnsProofs` (for any number of tasks and sessions, any thresholds):
`TypeCorrect`; `Serialized`, from the invariant that a task between taking the
lock and releasing it is the lock's `holder` (`LockInv`: that two tasks are not in
the same lock is not inductive, because it does not say whose the lock is); `HistoriesAreFaithful` and
`PromptsAreFaithful`, from an invariant (`FaithInv`) that also covers the snapshot a
compaction holds across its await and the question each task still has to be
answered: without the snapshot, the step that writes it back could not be shown
to keep the history faithful. `PromptsAreBounded`, from the length of what
`compact` returns. The lemmas on `Compacted`, `Pruned` and `Append` say what
each preserves for every history. `ServedAsReceived`: the event
loop's line is in the order received, and of two messages that a listener received the earlier is
taken up first (`ArrivalOrder`); a lock's line is in the order taken up, each task once, and the later
message of a session waits until the earlier is over (`LineOrder`). `DeliveredAsAsked` and `EarlierMemoriesSeen`, from `TalkInv`: a session's questions
are its own tasks', each asked once (`Questions`), the one a task works on is the latest
(`Latest`), and what was sent was asked for (`Posted`); without the second, a late block could be that
of an earlier question. `ConversationsHeld`: `SessionTurns` implements `Conversation`. Each
step is first reduced to what a person who asked can tell of it (`StepNoticed`); that a message
is served in its turn is then `LineOrder` of the state the step leads to, and that its answer
is told in order and entirely is `HeardInv`: nothing is told of a message before
its answer is there, and while it is delivered exactly the blocks before the next
one were. (`DeliveredInOrder` is too weak here: it allows gaps.) `SessionsStartOnce` follows from `StartInv`:
without a reset only one message of a session ever finds it new, because its history is not empty
once that one has asked, and neither compaction nor pruning empties it. `LocksAreGivenBack` is the half of
`EveryTurnEnds` that needs no fairness: who waits for a lock waits for a turn of its session
that is under way, or the first of the line is woken next. It rests on the converse of
`LockInv`, that a lock which is held is held by a task in a turn (`HeldInv`), and on `LineOrder`.

`DelegationProofs` (any gateways, agents, turns and crashes): `WaitingClimbs`,
that each wait goes to a longer session key or from a waiter to a holder;
`NoCircle`, that finitely many turns never wait in a circle, since in one the longest
key would have to grow; `SessionsNeverMeet`, that two turns with one key stem from one
session; `EveryCallIsServed` and `TypeCorrect`. The inductive invariant: keys grow along
calls, a callee is called by its caller, and a key names the root it stems from.
`BlockedTurnsHaveAWayOut` puts them together: of the turns under way, those that block one
another contain one whose next step is possible. That needs, besides `NoCircle` and
`EveryCallIsServed`, that who waits for a lock is in its line (`Lined`), so that a lock nobody
holds has a first waiter (`LineHasAFirst`). From there to `EveryTurnEnds` only fairness is missing,
and that turns and calls are finitely many.

`WorkspaceSyncProofs` (any nodes, writes and clocks): `TypeCorrect`, `NoBlends`,
`NewestKept` and `Convergence`. The invariant `Sound` says what a call in progress knows of the row it
looked at and that ids are those of writes that were done. The other half, `AllReached`, is what
`Converged` needs and does not say: every version is held by each node, or by a
newer one, or is in a push or a call on its way there, or was missed by it. At rest nothing is
on its way, so two nodes that missed nothing have the newest version each.

`ChannelsProofs` (any rooms, texts, bindings, bounds and restarts): `TypeCorrect`; `TakenOnce`, from
an event being in one place only of handlers, queue and what was forwarded, and later ones behind earlier ones
(`Ordered`); `Answered`, for which `NamedWins` shows for every sequence of bindings that
the resolver, which scans it once and keeps a maximum, has a winner, and that one that
names the peer wins; `OnlyPaired`, since a paired peer has an approved code.

`SharingProofs` (any agents, names, calls and changes, and any agent named in an input): `TypeCorrect`,
`AccessGranted` and `TwinsOfOverlap`. The invariant: a call past the check holds `granted` (`Granted`), the row it
acts on is still where it was found (`Located`, `Found`), and a creation that found no row of its name
is a rival of each row of the name there is (`Rivalled`).

`WebChatProofs` (any sockets, profiles, tools and bounds): all invariants of the run. The
invariant has three parts for each socket: the frames sent so far against the questions
taken (`Framed`), the size of the answer in progress against the chunks
received (`Counted`), and the results collected against the tools asked for (`Requested`).

`MemoryStoresProofs` (any agents, memories, calls, restarts, in every mode): all
properties of the run. The inductive invariant states, for each memory, what its
call and the deletions of it that are under way imply about the two stores; that
what a call knew when it began stays true; and that only a memory that was
stored in both can be reported forgotten and still be found.

The same module has the theorems of `KnowledgeIndex` (any files, versions, numbers of
chunks, edits, pulls and restarts): all invariants of its run. `NoMixtures` needs to know
which chunks are there, not only that they fit: the threads that write are at work on different sources, the
rows of a source being written are the chunks before the next one, and the rows of any other
are the first chunks of one version, counted from the first (`Tidy`, `Working`,
`TidyInv`). `IndexFollowsFiles`: a file whose rows are not its contents has still to be scanned,
or the last event of it the watcher will hear of is a change or a deletion, or it
is being indexed (`Follows`, `FreshInv`). `TextsMatchRows`: between two statements of a thread that is
alone in the index one text may be without its row, or a row without its text, and which
one is known from the thread's step (`Midway`, `LinkInv`); that a new row's number is that of no other
text rests on a finite set of numbers having a greatest one.

`OutboundProofs` (any turns, jobs, channels, blocks and threads): `TypeCorrect`,
which includes that no more calls wait than there are threads; `SentOnce`,
that `Outbound` implements `ExactlyOnce`. The invariant of the latter: a message the
turn has still to send was not begun (`NotBegun`), the ledger says nothing of a
message that was not begun or that its turn waits for (`NotTold`), and a message
is in its channel at most as often as the state of its adapter says (`Counted`);
without the first, nothing would keep a turn from sending a block a second
time. `QuietWhenOver` follows from the adapter being at work only on
the message its turn waits for (`OneAtWork`); `SentInOrder` from that and from what
arrived being no further than the block the turn is at (`Sorted`); `SentWhole` from the blocks before
that one having arrived (`Forward`), `RunsStayApart` from the runner waiting for a
run as long as it is under way.

The assumptions are the named ASSUMEs beside the constants, which TLC evaluates
in every run: messages and delegations do not share a session key, calls that
remember are not among the others, sizes are natural numbers, `Nobody` is no agent, rooms are direct or groups, a peer's
export is no file and a file has some version, and each constant function is defined where it is used.

Every invariant and action property of a passing run, and both refinements, are stated by a
theorem. Only model-checked: liveness (`EveryTurnEnds` of `SessionTurns` and of `Delegation`,
`EventuallyConsistent`, `EventuallyQuiet`, `EveryDeliveryEnds`, `EveryQuestionIsTaken`,
`EveryQuestionEnds`), which needs fairness and ENABLED and is out of the
prover's reach, and the counterexample to `LastWriteWins`.

## 7. What the code does, met on the way and given no run

* `{"_agent_id": agent_id, ..., **inp}` (server.py:469-474, 667-672) puts what the gateway injects
  in front of a tool's input, so an `_agent_id` or a `_session_key` in that input wins;
  workspace/tools.py:4 and ARCHITECTURE.md:119 say that the LLM never sees the field.
  `Sharing` has inputs that name an agent, and `AccessIsGranted` is about the agent the tool then acts as: it
  does not say that this is the turn's own. `MemoryStores` has the agent a call is made in the name of, and
  `Delegation` assumes inputs without a `_session_key`, on which `SessionsStayApart`
  and `NoCircularWait` depend.
* A WebChat frame runs `handle_inbound` in its socket's task (server.py:822) and may be served before
  a channel message of the same session that was received earlier and whose task has not started.
* The turn's complete event is fired (server.py:705-711) before the response is
  delivered (713-725); RUNTIME_CONTRACT.md:46-48 has it the other way round. A turn
  whose delivery fails has both `turn.complete` and `turn.error`.
* `run_agent_turn` recalls (server.py:430) before it waits for its lock (478);
  RUNTIME_CONTRACT.md:18-24 puts the lock first. A delegated turn can answer from
  memories older than the turn it waited for.
* In the fallback mode `recall` falls back to an empty list rather than to the
  local store (RUNTIME_CONTRACT.md:146), `get` takes an exception for "not there",
  and `forget` asks only the store that answers.
* A file that is emptied keeps its old chunks in the index (watcher.py:88,
  server.py:223-225).
* Two creations of a document name, on two nodes or in two threads of one, leave two
  rows of the name: `upsert_document` looks (store.py:183-186) and inserts
  (195-201) in two statements, and there is no constraint. tools.py:143 calls the
  name "unique in workspace".
* Telegram's adapter answers every exception of a send by sending the message once
  more without markup (claw_telegram/adapter.py:107-112), so a message whose
  confirmation is lost arrives twice, although it has one key in the ledger. The
  model has two tries for those turns and one for all others.
* A cron run passes the tools without the checks of a session's turn
  (manager.py:188-193; RUNTIME_CONTRACT.md:214), and the key of its session names
  the job and the day, not the agent (manager.py:177; RUNTIME_CONTRACT.md:217).
* `reset` takes no lock, so a compaction under way brings the old messages back;
  nothing calls `reset` at this commit.
* A compaction whose summary fails replaces the old messages by a placeholder
  (compactor.py:84-86, sessions/manager.py:96-99); RUNTIME_CONTRACT.md:258 says it is skipped
  and the history grows. The failed call also puts the profile on cooldown, which can
  leave the turn it was made for without one.
* The row number a chunk keeps is the connection's last one (index.py:56-59), and the
  connection is shared by the loop and a worker thread: it can be that of the other's insert, which
  KNOWLEDGE_MODEL.md:89 calls a foreign key. `OneTextPerRow` is about what still holds.
* `search` takes the best `3 * top_k` rows of all workspaces before it keeps those of one
  (index.py:135-155), so a workspace with matching chunks can get none of its "top-K" (129).
* A turn uses the first available profile for all of its calls, whichever provider the profile names, with
  Anthropic's client (turn.py:53-58); another profile is tried by the next turn, not by this one.
* A message for an unknown agent, or one the policy refuses, gets no frame on WebChat; a frame
  that is JSON but no object ends the socket's loop (claw_webchat/adapter.py:99-106).
* `DmPolicyEnforcer` is built open and no key of the configuration changes that (server.py:68);
  `Channels` has all three policies, and codes approved in one process are gone in the next.
* A binding of a peer on a channel weighs 60, one of the peer alone 70 (resolver.py:14-15),
  against the comments on the tiers (57, 63): of the two, the one of the peer alone wins. `AnsweredWhereAsked`
  asks only for one that names the peer.
* `ws_get_document` reads the row before it asks for the permission and answers with that copy
  (tools.py:419-428), so the text can be older than the permission.

## 8. What is not modelled

Response splitting, API keys, skills, configuration and CLI, and the bootstrapper
are left out for the reasons `PROJECT.json` gives with each: they are functions of
one input, operations under one lock, or files read once. The standard
tools act on the world outside and keep no state here. Of modelled parts, these are left out: assets of a workspace, the registry
of nodes, pushes to the sockets of WebChat (`_do_send`), the webhook of cron, `feedback` of
memories, bindings by guild, team and account, which no adapter fills in. Nothing in the code
bounds how deep delegations nest or how long a session key gets; the models bound it by the
number of turns. Formats, prompts, logging and the columns of tables that no property
tells apart are left out everywhere.

A crash of the gateway is modelled where something is persisted
or somebody waits (`Delegation`, `MemoryStores`, `KnowledgeIndex`, `Channels`); histories
live in memory, and a restart of `SessionTurns` or `WebChat` is its initial state.
