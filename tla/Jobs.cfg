SPECIFICATION Spec
CONSTANTS
  c1 = c1  p1 = p1  p2 = p2
  j1 = j1  j2 = j2  j3 = j3
  Jobs = {j1, j2, j3}
  Chats = {c1}
  Products = {p1, p2}
  ChatOf <- MCChatOf3
  ProductOf <- MCProductOf3
  Callers = {k1}
  MaxConcurrentJobs = 1
  HistoryLimit = 1
  NoJob = NoJob
SYMMETRY SameRequest
INVARIANTS SlotsConserved NoLostWakeup OneActivePerIdentity NoJobLeak ExportKeepsSuccess
PROPERTIES ImplementsContract
