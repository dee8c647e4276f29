CONSTANTS
  Byte <- Bytes
  LF = "LF"
  CR = "CR"
  GET = "GET"
  Garbage = "?"
  MAXLINE = 5
  RIO_BUFSIZE = 3
  Uri <- UriOf
  Long <- LongWords
  Ampersand = {"1&2"}
  Clients <- Who
  Files <- FilesAtFirst
  Versions <- NewVersions
  Changes = 1
  Connections = 2
SPECIFICATION FairSpec
INVARIANTS TypeOK OwnAnswer StopsOnlyFor
PROPERTIES ImplementsLines Served
CHECK_DEADLOCK FALSE
