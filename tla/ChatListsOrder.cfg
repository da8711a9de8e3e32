\* Three chats over two pages, contents left out: where a chat is inserted.
CONSTANTS
  Chats = {c1, c2, c3}
  Main = main
  Folders = {f1}
  Orders = {0, 1, 2}
  Messages = {}
  Drafts = {}
  None = none
SPECIFICATION Spec
SYMMETRY Symmetry
INVARIANTS TypeOK OrderedByPosition StaleOnlyByRemoval
PROPERTIES OneChatMoves
