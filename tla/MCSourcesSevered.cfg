SPECIFICATION SourcesSpec
CONSTANTS
  Machines = {"aim"}
  MaxRuns = 2
  MaxWritten = 4
  PipeSize = 3
  ReadMax = 2
  Impatient = FALSE
  Buddies = {"ann", "bob"}
  Aliases = {}
  InitialList <- MCList
  MaxEdits = 0
  MaxLogins = 1
  Screennames = {"ann"}
  MaxCalls = 3
  MaxFrames = 5
  Subs <- MCSubs
  SubsFiles <- MCSubsFiles
  DefaultSubs <- MCDefaultSubs
  PersonalSub <- MCPersonalSub
  LoginSubs <- MCLoginSubs
  MaxCommands = 4
  MaxSubsSessions = 2
  Anyone = {"ann"}
  MaxNotices = 2
  MaxMoves = 2
  MaxArrived = 3
  People = {"ann", "bob"}
  MaxSaid = 2
  MaxTalk = 2
  Channels = {"c", "d"}
  MaxLosses = 2
  MaxOrders = 3
  Accounts = {"ann", "bob"}
  Rooms = {"open", "locked"}
  Locked = {"locked"}
  AutoReconnect = TRUE
  MaxBreaks = 2
  MaxDone = 4
  MaxTweets = 3
  MaxPosts = 2
  MaxPolls = 2
  MaxRefusals = 1
  FrameConns = {c1, c2}
  SeqNumbers = 3
  MaxSent = 3
  MaxText = 4
  PipeRoom = 2
  BlocksRead = 1
  Connections <- MCConnections
  Contacts = {"cat"}
  RosterGroups = {"g"}
  NamesWithin <- MCWithin
  MaxRosterSteps = 5
  MaxNews = 4
  Located = {"ann", "bob", "cat"}
  MaxArrivals = 4
CHECK_DEADLOCK FALSE
PROPERTIES
  LossIsNoticed
