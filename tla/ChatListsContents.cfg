\* Two chats over two pages, with last messages and drafts: what an entry shows.
CONSTANTS
  Chats = {c1, c2}
  Main = main
  Folders = {f1}
  Orders = {0, 1}
  Messages = {m1}
  Drafts = {d1}
  None = none
SPECIFICATION Spec
SYMMETRY Symmetry
INVARIANTS ShowsLatestContent
PROPERTIES ImplementsPositions
