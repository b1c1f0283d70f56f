SPECIFICATION FsSpec
CONSTANTS
  Calls <- MCCalls
  Garbage = {97, 10}
  BUFSIZE = 4
  FBUF_SIZE = 3
  LBUF_SIZE = 2
  Programs = {}
  Inputs = {}
INVARIANTS
  FsTypeOK
  BufferIsWindow
  ReportMatches
  ReportIsFirst
  MissIsRight
PROPERTIES
  ScanFindsFirst
  FsReturns
