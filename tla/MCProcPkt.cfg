CONSTANTS
  Q = 2
  Half = 8
  Cap = 7
  Thr = 4
  Gap = 2
  Lengths <- MCLengths
  SendLengths <- MCSendLengths
  MaxIn = 2
  MaxOut = 1
  MaxRestarts = 1
SPECIFICATION FairSpec
INVARIANTS TypeOK ReceivedIntact SentIntact MailboxOwned FifosSound
PROPERTY NobodyWaitsForEver
