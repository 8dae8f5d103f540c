\* Two programs, of which one polls; rings of three slots, so two in use;
\* lines of two characters; fourteen pages, three to a byte.
CONSTANTS
  Programs = {"p", "q"}
  Pollers = {"p"}
  EVENT_QUEUE_SIZE = 3
  EventTypes <- MCEventTypes
  PollMasks = {0, 2}
  MaxSends = 5
  KBUF_SIZE = 3
  MaxKeys = 3
  HIST_MAX = 2
  LINE = 3
  Short = {2}
  Chars = {"a", "b"}
  MaxLines = 3
  MAX_PIPES = 1
  MAX_FDS = 6
  PIPE_BUF_SIZE = 3
  PIPE_TYPED_CAPACITY = 2
  Tasks = {1, 2, 4}
  Schemas = {"s", "t"}
  MaxLen = 3
  MaxBytes = 3
  MaxForms = 2
  MAX_PAGE = 14
  KERNEL_PAGES = 2
  Video = {4, 5}
  HEAP_PAGES = 1
  BITS = 3
  MaxPages = 2
SPECIFICATION Spec
INVARIANTS
  EventsTypeOK AnswerIntact PendingExact
  KeyboardTypeOK KeysFaithful AtMostTwice
  LineTypeOK RecallsEntered LineFits
  BytesInOrder SecondEofFinal
  PagesGivenOnce ReservedKept
PROPERTIES
  InboxesAreQueues KillTakesEffect KeysArrive HangUpFreesPeer
\* Nobody has to send, type, write or start a program.
CHECK_DEADLOCK FALSE
