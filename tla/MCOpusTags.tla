---------------------------- MODULE MCOpusTags ----------------------------
(* A few strings, image files and encoders: values for TLC. *)
EXTENDS OpusTags

NoData == <<>>
Chunk(type, data) == [name |-> "other", type |-> type, data |-> data]
Header(width, height, sample_depth, color_type, depth) ==
  [name |-> "header", type |-> IHDR, paletted |-> color_type = 3,
   data |-> Int4BE(width) \o Int4BE(height) \o <<sample_depth, color_type, 0, 0, 0>>,
   width |-> width, height |-> height, depth |-> depth]
Palette(n) == [name |-> "palette", type |-> PLTE, data |-> [i \in 1..(3 * n) |-> i], entries |-> n]

Png(parts, cut) == [kind |-> "png", parts |-> parts, cut |-> cut]

Icon == Header(32, 32, 8, 6, 32)
Photo == Header(600, 2, 16, 2, 48)
Paletted == Header(32, 32, 8, 3, 24)
Empty == Header(0, 32, 8, 0, 8)
Comment == Chunk(<<116, 69, 88, 116>>, <<73, 72, 68, 82>>)
Short == Chunk(IHDR, <<0, 0, 0, 32>>)

Seg(name, fill, marker, data) ==
  [name |-> name, fill |-> [i \in 1..fill |-> 255], marker |-> marker, data |-> data]
Frame(marker) ==
  [name |-> "header", fill |-> <<255>>, marker |-> marker, data |-> <<8, 0, 2, 2, 88, 3, 0>>,
   width |-> 600, height |-> 2, depth |-> 24]
ShortFrame == Seg("header", 1, 193, <<8, 0, 2, 2, 88>>)
Tables == Seg("other", 2, 196, <<255, 192>>)
App == Seg("other", 1, 224, NoData)
Restart == Seg("other", 1, 208, NoData)
Scan == Seg("stop", 1, 218, NoData)

Jpeg(parts, cut) == [kind |-> "jpeg", parts |-> parts, cut |-> cut]

Raw(data) == [name |-> "raw", data |-> data]

Gif(version, cut) ==
  [kind |-> "gif", cut |-> cut,
   parts |-> <<Raw(<<71, 73, 70, 56, version, 97, 44, 1, 2, 0, 129, 0, 0, 59>>)>>,
   truth |-> [width |-> 300, height |-> 2, depth |-> 24, colors |-> 4]]

Other == [kind |-> "other", cut |-> 0, parts |-> <<Raw(<<66, 77, 0>>)>>]

SomeFiles ==
  {Png(<<Icon>>, 0), Png(<<Paletted, Comment, Palette(2)>>, 0),
   Jpeg(<<App, Tables, Frame(194)>>, 0), Gif(55, 1), Other}
IconFiles == {Png(<<Icon>>, 0)}

PngHeaders == {Photo, Paletted, Empty}
PngOthers == {Comment, Short, Palette(2)}
PngFiles ==
  {Png(parts, cut) : cut \in {0, 1, 13, 25},
     parts \in {<<p, h, q, r>> : p, q, r \in PngOthers, h \in PngHeaders}}
JpegParts == {Frame(192), Frame(205), ShortFrame, Tables, Restart, Scan}
JpegFiles == {Jpeg(<<App, p, q, r>>, cut) : p, q, r \in JpegParts, cut \in {0, 1, 2, 9}}

\* The parsers alone agree with what is true of more files, with one IHDR each.
ASSUME ParsersAgree ==
  \A file \in PngFiles \cup JpegFiles \cup {Gif(55, 0), Gif(57, 0), Gif(57, 1)} :
    LET p == ParamsOf(Bytes(file))
    IN [width |-> p.width, height |-> p.height, depth |-> p.depth, colors |-> p.colors]
         = Truth(file)

ASSUME Base64Decodes ==
  \A n \in 0..4 : \A src \in [1..n -> {0, 1, 63, 64, 255}] : Unbase64(base64_encode(src)) = src

SomeTags == {<<65>>, <<65, Equals>>}
SomeStrings == {<<66, Equals>>, <<66>>}
SomeValues == {<<Equals, 67>>}
Vend == <<108, 112>>
PicTag == <<77, 66>>
SomeTypes == {-1, 1, 2, 21}
SomeGains == {-256}
SomeDescriptions == {<<100, 101, 102>>}
SomeLayouts ==
  {[channels |-> 1, family |-> 0, streams |-> 1, coupled |-> 0, map |-> <<0>>, deferred |-> FALSE],
   [channels |-> 2, family |-> 1, streams |-> 1, coupled |-> 1, map |-> <<1, 0>>, deferred |-> TRUE],
   [channels |-> 3, family |-> 255, streams |-> 1, coupled |-> 1, map |-> <<1, 0, 1>>, deferred |-> TRUE]}
=============================================================================
