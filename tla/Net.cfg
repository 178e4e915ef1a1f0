SPECIFICATION MCSpec
CONSTANTS
  PartsToRun = {"http_server", "sse", "proxy", "poller", "http_client", "http_pool"}
  Ids = {1}
  HttpWorkers = {hw1, hw2}
  SentKinds = {"get", "post", "sse", "long", "chunked"}
  MaxRequests = 3
  Readers = {"r1", "r2"}
  ReaderArea <- MCReaderArea
  EventAreas = {"court", "lobby"}
  BufferCap = 2
  MaxPushed = 3
  MaxConnects = 3
  AddrBits = 3
  Addresses <- MCAddresses
  EntryChoices <- MCEntries
  Preambles <- MCPreambles
  Chains <- MCChains
  Fds = {fd1, fd2}
  Buffers = {b1, b2}
  MaxEvents = 1
  MaxSockets = 3
  MaxRecvs = 2
  Forms <- BufferedForms
  MaxCalls = 2
  MaxTimeouts = 2
  Fetchers = {w1, w2}
  Priorities = {0, 1}
  MaxFetches = 3
  MaxH2 = 2
SYMMETRY MCSymmetry
CHECK_DEADLOCK FALSE
INVARIANTS
    RequestsInStep
    StreamsComplete
    
    
    
    
