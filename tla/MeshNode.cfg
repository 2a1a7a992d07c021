SPECIFICATION FairSpec
CONSTANTS
  Contacts <- MCContacts
  Prefix <- MCPrefix
  Texts <- MCTexts
  Decoded <- MCDecoded
  MAX_PENDING_INBOX = 2
  MAX_PENDING_REPLIES = 1
  Wrap = 4
  AckDelay = 1
  MaxTicks = 1
  MaxMessages = 3
  MaxPings = 1
  MaxHandled = 0
INVARIANTS OvertakenOnlyAfterRelease PongsOfOwnPings
PROPERTIES AckFirst RepliesLeave Lossy
