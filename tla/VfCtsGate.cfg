\* The CTS gate: every request kind that reaches a handler, sent before and
\* after a reset, while MDD events, link changes, trust-free admin setters and
\* pings drop or report clear_to_send; on an 82599 so that LPE and RSS
\* queries take their device-specific paths. Under the fairness of the
\* message task every request is answered (no read faults, and frame sizes
\* up to the jumbo limit; the over-limit case is VfLpeNoReply).
CONSTANTS
  v1 = v1
  v2 = v2
  m1 = m1
  m2 = m2
  McastMac = McastMac
  ZeroMac = ZeroMac
  NoVf = NoVf
  NoMsg = NoMsg
  VFs <- MCOneVF
  Macs <- MCMacs
  RarEntries <- MCRarEntries
  MaxPfMacvlans <- MCMaxPfMacvlans
  MaxMcEntries <- MCMaxMcEntries
  McInputs <- MCMcInputs
  FrameInputs = {1518, 9018}
  MacvlanIdx = {0}
  VfAddrs = {}
  MacType = "82599EB"
  PfMaxFrame = 1514
  PfPromisc = FALSE
  MddRestore = TRUE
  VfOps = {"RESET", "GET_QUEUES", "GET_RETA", "GET_RSS_KEY", "GET_LINK_STATE",
           "UNKNOWN", "TAGGED", "SET_MULTICAST", "SET_LPE", "API_NEGOTIATE",
           "READ", "FLR"}
  AdminOps = {"mdd", "link", "ping", "rxmode", "spoofchk", "rss"}
  MbxFaults = {}

SPECIFICATION FairSpec
INVARIANT TypeOK
PROPERTY RequestAnswered
