SPECIFICATION FairSpec
CONSTANTS
  p = p
  q = q
  t1 = t1
  t2 = t2
  Host = Host
  Issuers <- MCIssuers
  Threads = {t1, t2}
  Modules = {p, q}
  Commands <- MCCommands
  Words <- MCWords
  MaxWords = 2
  HostCommands <- MCHostCommands
  StartupLists <- MCStartupLists
  Messages <- MCMessages
  MaxSequence = 5
INVARIANTS TypeOK NothingOverlooked RepliesOwnedOnce
PROPERTY MessagesEnd
