\* Lines of up to five characters and two arguments; six received bytes and
\* an array of six; words of seven bits; images of two pages and two headers;
\* one whole page in each region of memory, unaligned region ends, and a page
\* between them that belongs to neither whole.
CONSTANTS
  Printable = {"a", "b", " "}
  OtherKeys = {"KEY_ARROW_UP"}
  SIZE = 6
  WIDTH = 7
  ARG_COUNT_MAX = 2
  Commands <- MCCommands
  Bytes = {"ESC", "[", "A", "q", "NUL"}
  RECEIVED_MAX = 6
  MAX_SPECIAL_KEY_SEQ_LEN = 6
  BITS = 7
  Formats <- MCFormats
  Divisions <- MCDivisions
  WORD = 16
  PAGE_SIZE = 4
  IMAGE_LIMIT = 8
  HEADER_LIMIT = 2
  Files <- MCFiles
  ALLOCATABLE_START = 3
  INITIAL_SIZE = 9
  TOTAL_SIZE = 18
SPECIFICATION LibrarySpec
INVARIANTS
  ScreenShowsBuffer RunsCommandTyped
  KeysDecoded
  DivisionExact PrintsArguments
  LoadsImage WritesInsideFrame
  NothingShared NothingLost FreeSizeAccounts
PROPERTIES ReturnsLine ImplementsPool
