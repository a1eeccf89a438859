----------------------------- MODULE Conversation -----------------------------
(***************************************************************************)
(* What the gateway promises the people it talks to, however it schedules  *)
(* its tasks: the questions of a session form one line, those put through  *)
(* a channel in the order asked, a direct one as soon as it is asked; the  *)
(* first of the line is served, the others wait; its answer is told        *)
(* entirely and in order, or broken off and followed by one error report   *)
(* at most; a question that is over is heard of no more.                   *)
(***************************************************************************)
EXTENDS Integers, Sequences

CONSTANTS
  Sessions,   \* the conversations
  Questions,  \* what may be asked
  Direct,     \* those that join the line at once
  SessionOf,  \* the conversation each question belongs to
  MaxParts    \* the most parts of an answer

VARIABLES
  asked,  \* the questions, in the order asked
  line,   \* the questions, in the order they joined the line of their conversation
  stage,  \* how far each question is
  parts,  \* the number of parts of its answer
  told    \* what each conversation was told

Stage == {"new", "asked", "waiting", "served", "answered", "failed", "over"}

Report == -1

Init ==
  /\ asked = <<>>
  /\ line = <<>>
  /\ stage = [q \in Questions |-> "new"]
  /\ parts = [q \in Questions |-> 0]
  /\ told = [s \in Sessions |-> <<>>]

\* what was told of q so far
Told(q) ==
  LET s == SessionOf[q]
  IN  {told[s][k].index : k \in {k \in DOMAIN told[s] : told[s][k].task = q}}

Becomes(q, next) == stage' = [stage EXCEPT ![q] = next]

Say(q, index) ==
  told' = [told EXCEPT ![SessionOf[q]] = Append(@, [task |-> q, index |-> index])]

\* everything asked before q in its conversation has left stage "asked"
IsNext(q) ==
  \A i, j \in DOMAIN asked :
    /\ i < j
    /\ asked[j] = q
    /\ SessionOf[asked[i]] = SessionOf[q]
    => stage[asked[i]] # "asked"

\* everything before position j of the line in the conversation of q is over
AllOver(q, j) ==
  \A i \in DOMAIN line :
    i < j /\ SessionOf[line[i]] = SessionOf[q] => stage[line[i]] = "over"

Ask(q) ==
  /\ q \notin Direct
  /\ stage[q] = "new"
  /\ asked' = Append(asked, q)
  /\ Becomes(q, "asked")
  /\ UNCHANGED <<line, parts, told>>

\* q joins the line, if it is not refused, and is served at once if it is alone.
TakeUp(q) ==
  /\ \/ stage[q] = "asked" /\ IsNext(q) /\ UNCHANGED asked
     \/ q \in Direct /\ stage[q] = "new" /\ asked' = Append(asked, q)
  /\ line' = Append(line, q)
  /\ \/ Becomes(q, "over")
     \/ Becomes(q, "waiting")
     \/ AllOver(q, Len(line) + 1) /\ Becomes(q, "served")
  /\ UNCHANGED <<parts, told>>

Serve(q) ==
  /\ stage[q] = "waiting"
  /\ \A j \in DOMAIN line : line[j] = q => AllOver(q, j)
  /\ Becomes(q, "served")
  /\ UNCHANGED <<asked, line, parts, told>>

Answer(q, n) ==
  /\ stage[q] = "served"
  /\ Becomes(q, "answered")
  /\ parts' = [parts EXCEPT ![q] = n]
  /\ UNCHANGED <<asked, line, told>>

\* Part i is told once all the parts before it were.
Tell(q, i) ==
  /\ i < parts[q]
  /\ Told(q) = 0..(i - 1)
  /\ Say(q, i)

TellPart(q, i) ==
  /\ stage[q] = "answered"
  /\ Tell(q, i)
  /\ UNCHANGED <<asked, line, stage, parts>>

\* There is no answer, or it is broken off, perhaps after one more part.
Fail(q) ==
  /\ \/ stage[q] = "served" /\ UNCHANGED told
     \/ /\ stage[q] = "answered"
        /\ Told(q) # 0..(parts[q] - 1)
        /\ \/ UNCHANGED told
           \/ \E i \in 0..MaxParts : Tell(q, i)
  /\ Becomes(q, "failed")
  /\ UNCHANGED <<asked, line, parts>>

ReportFailure(q) ==
  /\ stage[q] = "failed"
  /\ Say(q, Report) \/ UNCHANGED told
  /\ Becomes(q, "over")
  /\ UNCHANGED <<asked, line, parts>>

Finish(q) ==
  /\ stage[q] = "answered"
  /\ Told(q) = 0..(parts[q] - 1)
  /\ Becomes(q, "over")
  /\ UNCHANGED <<asked, line, parts, told>>

Next ==
  \E q \in Questions :
    \/ Ask(q) \/ TakeUp(q) \/ Serve(q)
    \/ \E n \in 0..MaxParts : Answer(q, n) \/ TellPart(q, n)
    \/ Fail(q) \/ ReportFailure(q) \/ Finish(q)

Spec == Init /\ [][Next]_<<asked, line, stage, parts, told>>
=============================================================================
