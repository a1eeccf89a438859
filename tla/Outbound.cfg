\* An answer of up to two blocks and two runs of a job, with one thread to send
\* them; one run goes over Telegram, the adapter of the other needs a thread too.
SPECIFICATION FairSpec
CONSTANTS
  m1 = m1
  r1 = r1
  r2 = r2
  job = job
  NoRun = NoRun
  Messages = {m1}
  Runs = {r1, r2}
  JobOf <- OneJob
  Telegram = {r2}
  Connecting = {r1}
  MaxBlocks = 2
  Workers = 1
INVARIANTS
  InOrder
  CompleteUnlessReported
  OverMeansQuiet
PROPERTIES
  DeliversExactlyOnce
  EveryDeliveryEnds
