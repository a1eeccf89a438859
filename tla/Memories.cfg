\* A memory of each of two agents and three other calls, in every mode, with a restart.
SPECIFICATION Spec
CONSTANTS
  a = a
  b = b
  m1 = m1
  m2 = m2
  c1 = c1
  c2 = c2
  c3 = c3
  Agents = {a, b}
  Memories = {m1, m2}
  Others = {c1, c2}
  AgentOf <- OneEach
  Modes = {"local", "aindy", "aindy-fallback"}
  MaxRestarts = 1
SYMMETRY Interchangeable
INVARIANTS
  RememberedIsKept
  ForgottenStaysForgotten
  ReadsOwnWrites
