\* Two comments in two objects, five image files first and an icon afterwards, one
\* stream; lacing values and bytes are the real ones.
CONSTANTS
  Vendor <- Vend
  PictureTag <- PicTag
  Tags <- SomeTags
  Values <- SomeValues
  Strings <- SomeStrings
  Files <- SomeFiles
  MoreFiles <- IconFiles
  Descriptions <- SomeDescriptions
  Types <- SomeTypes
  FileRoom = 40
  MaxBuffer = 100
  Layouts <- SomeLayouts
  Preskips = {312}
  Gains <- SomeGains
  Paddings = {0, 200}
  MaxComments = 2
  MaxObjects = 2
  MaxStreams = 1
SPECIFICATION Spec
INVARIANTS PicturesReadBack HeadersReadBack
CHECK_DEADLOCK FALSE
