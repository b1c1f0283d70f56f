SPECIFICATION FsSpec
CONSTANTS
  Calls <- DocCalls_tilde
  Garbage = {97, 10}
  BUFSIZE = 4
  FBUF_SIZE = 3
  LBUF_SIZE = 2
  Programs = {}
  Inputs = {}
PROPERTIES
  FsReturns
