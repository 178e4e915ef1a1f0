SPECIFICATION MCSpec
CONSTANTS
  PartsToRun = {"session"}
  Paths = {"bg", "sprite", "blip"}
  Loaders = {l1, l2}
  AssetBytes <- MCBytes
  CacheLimit = 2
  MaxLoads = 3
  MaxSessions = 1
  Files = {"ini", "png"}
  ConfigFiles = {"ini"}
  LocalFiles = {}
  MaxMounts = 2
  max_retries = 1
  MaxJobs = 3
  LegacyPos = {"def"}
  ModernPos = {"gallery"}
  Hostings <- MCHostings
  Advertised = {"webp", "png"}
  Sheets <- MCSheets
  Kinds <- MCKinds
  Slides <- MCSlides
  own_slide_enabled = TRUE
  MaxMsgs = 3
  MaxMoves = 1
  MaxPerTick = 2
  Tracks = {a, b}
  Stop = stop
  Silence = silence
  MaxChanges = 2
  MaxScreens = 2
  Blocks = 3
  RingSize = 2
  MusicFiles <- Opus
  MaxHeard = 6
  Players = {p1, p2}
  Areas = {lobby, court}
  Lobby = lobby
  IcTexts <- Special
  OocTexts <- Plain
  EvNames <- Plain
  MaxActs = 3
  Servers = {s1}
  MaxConns = 2
  MaxInputs = 5
  Guests = {g1}
  Me = me
  Chars = {"phoenix"}
  RoomAreas <- TwoAreas
  MaxDeeds = 2
  MaxClock = 4
INVARIANTS
  BackMeansGone
CHECK_DEADLOCK FALSE
