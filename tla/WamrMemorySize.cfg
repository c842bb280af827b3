SPECIFICATION Spec
CONSTANTS
  a = a
  b = b
  t1 = t1
  t2 = t2
  g1 = g1
  Modules = {a, b}
  Builds <- WamrKinds
  Guests = {g1}
  Readers = {t2}
  Movers = {t1}
  PageSize = 16
  InitialPages = 1
  MaxPages = 3
  GuestBlock = 8
  GuestBlocks <- MCGuestBlocks
  BlockAlignment = 4
  StaticData = 12
  SizeBytes = 1
  PayloadAlignment = 4
  Base <- MCBase
  BadBlocks = {47}
  Messages <- MCMessages
INVARIANTS SizeIsCurrent
