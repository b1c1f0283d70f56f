SPECIFICATION FsSpec
CONSTANTS
  Calls <- DocCalls_stale
  Garbage = {10}
  BUFSIZE = 4
  FBUF_SIZE = 3
  LBUF_SIZE = 2
  Programs = {}
  Inputs = {}
INVARIANTS
  ReportInFile
