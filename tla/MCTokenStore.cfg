SPECIFICATION FairSpec
CONSTANTS
  Tokens = {t1, t2, t3, t4}
  Consumers = {c1, c2}
  MaxEntries = 2
  NoToken = NoToken
INVARIANT StoreIsSound
PROPERTIES
  ImplementsTicket
  StagingIsReclaimed
