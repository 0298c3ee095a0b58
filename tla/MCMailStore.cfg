CONSTANTS
  m1 = m1  m2 = m2  u1 = u1  w1 = w1  w2 = w2
  NoRow = NoRow  NoMsg = NoMsg
  MsgId <- MCMsgId
  User <- MCUser
  Worker <- MCWorker
  MaxAtt = 2
  HasBucket = TRUE
SPECIFICATION FairSpec
INVARIANTS TypeOK MetadataHasBlob AttachmentsIntact OrphanBlobsExplained OrphanRowsExplained
PROPERTIES DeletionCompletes ImplementsMailbox
