\* Every kind of check, alone and in the pairs that can interfere.
SPECIFICATION FairSpec
CONSTANTS
  Slots <- MCSlots
  Fds <- MCFds
  Errnos = {"ENETUNREACH", "ENOBUFS"}
  Quiet = 2
  Globtimeout = 4
  Killafter = 11
  Throttle = 1
  MaxTries = 2
  MaxSent = 1
  MaxBlank = 1
  Delay = 2
  Interval = 1
  Grace = 2
  SendPings = 2
  MinPings = 1
  Tolerance = 1
  Fleets <- MCFleets
  MaxReplies = 2
  MaxSleep = 2
INVARIANTS
  TypeOK
  
  SelfTimedEnd
  DescriptorsAccounted
  RepliesCountOnce
PROPERTIES
  
  ChecksAreCheckLife
