------------------------------ MODULE Outbound ------------------------------
(***************************************************************************)
(* How answers leave a gateway: the end of a turn (claw/gateway/server.py  *)
(* _run_turn, deliver), the runs of cron jobs (claw/cron/manager.py), and  *)
(* the effect seam (claw/aindy/effects.py), which sends every message      *)
(* through a ledger from a worker thread.                                  *)
(*                                                                         *)
(* The worker thread starts the adapter's coroutine on the event loop and  *)
(* waits for it, for a minute at most: then the ledger and the turn take   *)
(* the send for failed, and the coroutine goes on.  All threads are of one *)
(* pool, the event loop's default executor, which also resolves the names  *)
(* an adapter connects to.  The runtime's ledger is external: a message    *)
(* key is of one turn and one block, and is used once.                     *)
(***************************************************************************)
EXTENDS Integers, Sequences, FiniteSets

CONSTANTS
  Messages,   \* turns that answer a message of a channel
  Runs,       \* runs of cron jobs that announce their result
  JobOf,      \* the job of each run
  Telegram,   \* the turns whose channel is Telegram
  Connecting, \* the turns whose adapter opens a connection for a send
  MaxBlocks,  \* bound: blocks an answer is split into
  Workers,    \* threads of the default executor
  NoRun       \* the scheduler is not waiting for a run

Turns == Messages \cup Runs
Jobs == {JobOf[r] : r \in Runs}

ASSUME OutboundAssumption ==
  /\ Messages \cap Runs = {}
  /\ DOMAIN JobOf = Runs
  /\ Telegram \subseteq Turns /\ Connecting \subseteq Turns
  /\ MaxBlocks \in Nat \ {0}
  /\ Workers \in Nat \ {0}
  /\ NoRun \notin Runs

VARIABLES
  step,     \* where each turn is
  blocks,   \* the number of blocks of its answer
  current,  \* the block it sends, or the error text
  adapter,  \* what the adapter does with each message
  ledger,   \* what the ledger says of it
  outbox,   \* what reached the channel of each turn
  runner,   \* the run the scheduler's thread waits for, for each job
  late,     \* history variable: turns with a send that timed out
  givenUp   \* history variable: runs whose runner timed out

seamVars == <<adapter, ledger, outbox, late>>
cronVars == <<runner, givenUp>>
vars == <<step, blocks, current, seamVars, cronVars>>

ErrorText == -1
Indices == ErrorText .. (MaxBlocks - 1)

Waiting == {t \in Turns : step[t] = "waiting"}

TypeOK ==
  /\ step \in [Turns -> {"idle", "thinking", "token", "call", "waiting", "done"}]
  /\ blocks \in [Turns -> 0..MaxBlocks]
  /\ current \in [Turns -> Indices]
  /\ adapter \in [Turns \X Indices -> {"none", "starting", "sending", "retrying", "sent", "raised"}]
  /\ ledger \in [Turns \X Indices -> {"nothing", "success", "failed"}]
  /\ outbox \in [Turns -> Seq(Indices)]
  /\ runner \in [Jobs -> Runs \cup {NoRun}]
  /\ late \in SUBSET Turns
  /\ givenUp \in SUBSET Runs
  /\ Cardinality(Waiting) <= Workers

Init ==
  /\ step = [t \in Turns |-> "idle"]
  /\ blocks = [t \in Turns |-> 0]
  /\ current = [t \in Turns |-> 0]
  /\ adapter = [m \in Turns \X Indices |-> "none"]
  /\ ledger = [m \in Turns \X Indices |-> "nothing"]
  /\ outbox = [t \in Turns |-> <<>>]
  /\ runner = [j \in Jobs |-> NoRun]
  /\ late = {} /\ givenUp = {}

-----------------------------------------------------------------------------
\* Definitions whose comment starts with "Wrong:" are used by no definition of
\* the system; each is a slip one of the properties must notice.

HasThread(n) == n < Workers

\* A thread of the pool is free, for a call that ends at once or one that waits.
FreeWorker == HasThread(Cardinality(Waiting))

GoTo(t, next) == step' = [step EXCEPT ![t] = next]

\* The turn ends; a cron runner that still waits for it gets its result.
End(t) ==
  /\ GoTo(t, "done")
  /\ runner' = [j \in Jobs |-> IF runner[j] = t THEN NoRun ELSE runner[j]]
  /\ UNCHANGED <<current, givenUp>>

StartSend(t, i) ==
  /\ GoTo(t, "token")
  /\ current' = [current EXCEPT ![t] = i]
  /\ UNCHANGED cronVars

\* An exception: a message's turn sends the error text, once; an exception of
\* that, or of a cron run, is logged.
Raise(t) ==
  IF t \in Messages /\ current[t] # ErrorText THEN StartSend(t, ErrorText) ELSE End(t)

\* Wrong: the last block is left out.
IsLastShort(i, n) == i + 2 >= n
IsLast(i, n) == i + 1 >= n

NextBlock(t) ==
  IF current[t] = ErrorText \/ IsLast(current[t], blocks[t])
  THEN End(t) ELSE StartSend(t, current[t] + 1)

-----------------------------------------------------------------------------
(* Turns and cron runs.                                                    *)

Receive(t) ==
  /\ t \in Messages /\ step[t] = "idle"
  /\ GoTo(t, "thinking")
  /\ UNCHANGED <<blocks, current, seamVars, cronVars>>

RunnerFree(j) == runner[j] = NoRun

\* APScheduler fires a job; it has one runner of a job at a time.
Fire(t) ==
  /\ t \in Runs /\ step[t] = "idle"
  /\ RunnerFree(JobOf[t])
  /\ runner' = [runner EXCEPT ![JobOf[t]] = t]
  /\ GoTo(t, "thinking")
  /\ UNCHANGED <<blocks, current, seamVars, givenUp>>

\* future.result(timeout=300) of the runner: the run itself goes on.
RunnerTimesOut(j) ==
  /\ runner[j] # NoRun
  /\ givenUp' = givenUp \cup {runner[j]}
  /\ runner' = [runner EXCEPT ![j] = NoRun]
  /\ UNCHANGED <<step, blocks, current, seamVars>>

\* An answer is split into blocks; a cron run announces its answer whole.
Answer(t) ==
  /\ step[t] = "thinking"
  /\ \E n \in IF t \in Messages THEN 0..MaxBlocks ELSE {0, 1} :
       /\ blocks' = [blocks EXCEPT ![t] = n]
       /\ IF n = 0 THEN End(t) ELSE StartSend(t, 0)
  /\ UNCHANGED seamVars

AnswerFails(t) ==
  /\ step[t] = "thinking"
  /\ Raise(t)
  /\ UNCHANGED <<blocks, seamVars>>

-----------------------------------------------------------------------------
(* A message through the seam: the token, the call, the adapter.           *)

\* _token_for in a thread: cached, refreshed or minted; or refused.
Token(t) ==
  /\ step[t] = "token" /\ FreeWorker
  /\ \/ GoTo(t, "call") /\ UNCHANGED <<current, cronVars>>
     \/ Raise(t)
  /\ UNCHANGED <<blocks, seamVars>>

\* execute_tool in a thread: the capability is refused, or _deliver starts the
\* adapter's coroutine.
Call(t) ==
  /\ step[t] = "call" /\ FreeWorker
  /\ \/ /\ GoTo(t, "waiting")
        /\ adapter' = [adapter EXCEPT ![<<t, current[t]>>] = "starting"]
        /\ UNCHANGED <<current, cronVars>>
     \/ Raise(t) /\ UNCHANGED adapter
  /\ UNCHANGED <<blocks, ledger, outbox, late>>

Connect(t, i) ==
  /\ adapter[<<t, i>>] = "starting"
  /\ t \in Connecting => FreeWorker
  /\ adapter' = [adapter EXCEPT ![<<t, i>>] = "sending"]
  /\ UNCHANGED <<step, blocks, current, ledger, outbox, late, cronVars>>

\* Wrong: every adapter tries again.
AfterErrorRetry(t, state) == IF state = "sending" THEN "retrying" ELSE "raised"

\* Telegram's adapter takes every error for one of the markup and sends the
\* message once more without it.
AfterError(t, state) == IF state = "sending" /\ t \in Telegram THEN "retrying" ELSE "raised"

\* The service's answer, or an error, which can come after the message arrived.
Attempt(t, i) ==
  /\ adapter[<<t, i>>] \in {"sending", "retrying"}
  /\ \E arrived, answered \in BOOLEAN :
       /\ answered => arrived
       /\ outbox' = IF arrived THEN [outbox EXCEPT ![t] = Append(@, i)] ELSE outbox
       /\ adapter' = [adapter EXCEPT ![<<t, i>>] =
                        IF answered THEN "sent" ELSE AfterError(t, @)]
  /\ UNCHANGED <<step, blocks, current, ledger, late, cronVars>>

\* Wrong: the thread does not wait for the coroutine.
FinishedAtOnce(state) == state # "none"
Finished(state) == state \in {"sent", "raised"}

\* future.result returns or raises, and the ledger keeps the outcome.
Return(t) ==
  LET i == current[t]
  IN  /\ step[t] = "waiting"
      /\ Finished(adapter[<<t, i>>])
      /\ IF adapter[<<t, i>>] = "sent"
         THEN ledger' = [ledger EXCEPT ![<<t, i>>] = "success"] /\ NextBlock(t)
         ELSE ledger' = [ledger EXCEPT ![<<t, i>>] = "failed"] /\ Raise(t)
      /\ UNCHANGED <<blocks, adapter, outbox, late>>

\* Wrong: the timeout ends with the connection.
PatienceToConnect(t) == adapter[<<t, current[t]>>] = "starting"
Patience(t) == ~Finished(adapter[<<t, current[t]>>])

\* future.result(timeout=_SEND_TIMEOUT_S): the coroutine is not cancelled.
TimeOut(t) ==
  /\ step[t] = "waiting" /\ Patience(t)
  /\ ledger' = [ledger EXCEPT ![<<t, current[t]>>] = "failed"]
  /\ late' = late \cup {t}
  /\ Raise(t)
  /\ UNCHANGED <<blocks, adapter, outbox>>

-----------------------------------------------------------------------------
Deliver(t) == Token(t) \/ Call(t) \/ Return(t) \/ TimeOut(t)
Step(t) == Answer(t) \/ AnswerFails(t) \/ Deliver(t)

Terminated == (\A t \in Turns : step[t] = "done") /\ UNCHANGED vars

Next ==
  \/ \E t \in Turns : Receive(t) \/ Fire(t) \/ Step(t)
  \/ \E t \in Turns, i \in Indices : Connect(t, i) \/ Attempt(t, i)
  \/ \E j \in Jobs : RunnerTimesOut(j)
  \/ Terminated

Spec == Init /\ [][Next]_vars

\* LLM calls end and threads run; an adapter may hang.
FairSpec == Spec /\ \A t \in Turns : WF_vars(Step(t))

-----------------------------------------------------------------------------
(* Properties.                                                             *)

Arrived(t) == {outbox[t][k] : k \in DOMAIN outbox[t]}

Occurrences(s, i) == Cardinality({k \in DOMAIN s : s[k] = i})

Promise == INSTANCE ExactlyOnce WITH
  Messages <- Turns \X Indices,
  Tries <- [m \in Turns \X Indices |-> IF m[1] \in Telegram THEN 2 ELSE 1],
  arrivals <- [m \in Turns \X Indices |-> Occurrences(outbox[m[1]], m[2])],
  told <- ledger

\* effects.py: a message goes out once (twice at most over Telegram), and the
\* ledger's "success" means that it went out; whatever times out, raises
\* after it sent, or comes late.
DeliversExactlyOnce == Promise!Spec

\* server.py _run_turn: what reaches a channel is in order, the error text last,
\* unless a send of the turn timed out: then the coroutine that was left can
\* come after it.
InOrder ==
  \A t \in Turns \ late : \A k, l \in DOMAIN outbox[t] :
    k < l => \/ outbox[t][l] = ErrorText
             \/ outbox[t][k] # ErrorText /\ outbox[t][k] <= outbox[t][l]

\* server.py _run_turn: a turn that reported no error has sent its answer entirely.
CompleteUnlessReported ==
  \A t \in Messages :
    step[t] = "done" /\ current[t] # ErrorText => \A i \in 0..(blocks[t] - 1) : i \in Arrived(t)

\* effects.py send: a turn that is over sends nothing more, so the next turn of
\* its session is not overtaken, unless one of its sends timed out.
OverMeansQuiet ==
  \A t \in Turns \ late, i \in Indices :
    step[t] = "done" => adapter[<<t, i>>] \in {"none", "sent", "raised"}

\* manager.py _make_sync_runner: two runs of a job are under way together only
\* when the scheduler's thread gave up waiting for one of them.
RunsApart ==
  \A r, s \in Runs :
    /\ r # s /\ JobOf[r] = JobOf[s]
    /\ step[r] \notin {"idle", "done"} /\ step[s] \notin {"idle", "done"}
    => r \in givenUp \/ s \in givenUp

\* effects.py _SEND_TIMEOUT_S: every turn that begins ends, although an adapter may
\* hang, and although the threads may all wait for adapters that wait for a thread.
EveryDeliveryEnds == <>[](\A t \in Turns : step[t] \in {"idle", "done"})
=============================================================================
