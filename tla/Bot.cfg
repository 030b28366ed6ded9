SPECIFICATION FairConversation
CONSTANTS
  c1 = c1  p1 = p1  p2 = p2
  j2 = j2  j3 = j3
  Jobs = {j2, j3}
  Chats = {c1}
  Products = {p1, p2}
  ChatOf <- MCChatOf2
  ProductOf <- MCProductOf2
  Callers = {k1}
  Caller = k1
  MaxConcurrentJobs = 1
  HistoryLimit = 1
  MaxMessages = 3
  MaxKeyboards = 2
  NoJob = NoJob
  NoProduct = NoProduct
INVARIANTS OneStartPerMessage CancelSilences OfferHonoured
PROPERTIES OutcomeSent UpdatesServed BotStopsInTime
