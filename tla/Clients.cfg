\* A worker that may ignore notifications, a bot, a broker that dies once.
\* Once the worker has ended and the bot is not started again, nothing happens.
SPECIFICATION FairSpec
CHECK_DEADLOCK FALSE
CONSTANTS
  w = w
  b = b
  Workers = {w}
  Bots = {b}
  Observers = {b}
  MaxMessages = 2
  MaxRestarts = 1
  MaxStarts = 1
  Reemit = 2
  Restore = TRUE
INVARIANTS
  OneReply
PROPERTIES
  MailIsDrained
  GoneWorkersLeave
