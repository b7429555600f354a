CONSTANTS
  Page = 16 IovMax = 2 Long = 2 AddrSpace = 128 Near = 8 Back = 4 TooHigh = 96
  PageSize = 4 SizeMax = 1000
  FramesMax = 5 StackWords = 2
  BuildIdRoom = 4 NoteHeader = 12
  DwarfRegs = 2 RuleRegs = 3 DwarfWord = 8 StackRoom = 7 MaxOps = 20
  EntryRoom = 32
  Wide = 65536 PadRoom = 4
  ValueBytes = 3
  LongestStack = 4
  kNumTopBits = 16 LZMA_DIC_MIN = 8 LZMA2_DIC_LOG = 2 BRA_BUF_SIZE = 16 CODER_BUF_SIZE = 4
  MostDoublings = 7
INIT Init
NEXT Next
INVARIANTS
  MemoryTrue
  FramesTrue
  ElfTrue
  UnwindTrue
  TextTrue
  BytesTrue
  LzmaTrue
  XzTrue
  LogsReadBack
  StudyExact
CHECK_DEADLOCK FALSE
