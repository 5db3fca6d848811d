\* Two turns, one of them with an MCP server; a stored thread and a new one.
CONSTANTS
  t1 = t1
  t2 = t2
  u1 = u1
  u2 = u2
  gdb = gdb
  read = read
  submit = submit
  Threads = {t1, t2}
  Stored <- OneStored
  Turns = {u1, u2}
  Servers <- OneHasServers
  Tools = {gdb, read, submit}
  Completion = submit
  Protect = 2
  Required = {u1}
  MaxIterations <- TwoAndOne
  Replies <- Calls
  NoThread = NoThread
  NoRequest = NoRequest
SPECIFICATION Spec
INVARIANTS TranscriptsWellFormed
PROPERTIES  EveryTurnEnds
\* Every turn may be over.
CHECK_DEADLOCK FALSE
