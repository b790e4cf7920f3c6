SPECIFICATION MCSpec
CONSTANTS
  Char <- Letter
  Blank <- Space
  User = "user"
  Empty = ""
  Segment <- Segments
  AnySegment <- OddSegments
  AsciiLower <- AsciiCase
  Lowercase <- AnyCase
  SqlLower <- AnyCase
  Ascii <- AsciiTexts
  Substring <- Parts
  Number <- Parsed
  Numeral <- Numerals
  Exact <- Cast
  Short <- Digits
  Filter <- Filters
  MaxDepth = 3
  Memory <- Memories
  Chunk <- Chunks
  Document <- Documents
  Request <- Requests
  Score = {0, 1, 3}
  DefaultLimit = 2
  MaxLimit = 3
  MaxPool = 4
  RerankPool = 3
  Fanout = 3
  MaxScan = 11
  MinBudget = 2
  MaxBudget = 4
  Backends = 2
  Questions <- Cases
  Bucket <- Buckets
INVARIANTS
  TypeOK
  ChunksCover
  ThreeWindowsAdvance
  SearchExact
  RerankKeepsAll
  CutoffRelative
  GroupedByBest
  ComparisonHonest
CHECK_DEADLOCK FALSE
