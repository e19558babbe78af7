SPECIFICATION Spec
CONSTANTS
  IntMin <- MCIntMin
  IntMax <- MCIntMax
  ExactFloat = 4
  FloatMax = 20
  MaxVectorDimensions = 2
  Percent = 8
  Underscore = 9
  UsizeMax = 6
  MaxJoinTables = 3
  ExpressionRequests <- MCExpressionRequests
  QueryRequests <- MCQueryRequests
  JoinRequests <- MCJoinRequests
  ChainRequests <- MCChainRequests
  ChunkRequests <- MCChunkRequests
  NeighborhoodRequests <- MCNeighborhoodRequests
  SearchRequests <- MCSearchRequests
  RagRequests <- MCRagRequests
  ContextRequests <- MCContextRequests
  GroundingRequests <- MCGroundingRequests
  WeightOne = 2
  RrfOffset = 60
  RrfScale = 487968768
  Adjacent = 0
  MinimumQuote = 2
  MaxEvidence = 2
  MaxSpokenWords = 1
  BlankLetter = "-"
  Word = "w"
  Space = "s"
  Newline = "n"
  Stop = "."
  WideStop = "W"
  Closer = ")"
INVARIANTS
  TypesAreSound
  QueryIsReference
  JoinIsReference
  ChunksCoverText
  WalksAreExplored
  RetrievalIsExplored
  ContextFits
  AcceptedIsGrounded
