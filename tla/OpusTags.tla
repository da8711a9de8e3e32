------------------------------ MODULE OpusTags ------------------------------
(***************************************************************************)
(* The two header packets of an Ogg Opus stream: the comments object and   *)
(* the pictures put into it (opusenc.c, picture.c), the copy a stream      *)
(* takes, its padding, and the identification header (opus_header.c).      *)
(*                                                                         *)
(* Everything is bytes, 0..255, but base64, whose characters are the six   *)
(* bits they stand for, and Pad.  Offsets count from 0 as in the code.     *)
(* Image files are given as structures; Bytes turns them into the bytes    *)
(* the code parses, Truth says what they hold.                             *)
(***************************************************************************)
EXTENDS Integers, Sequences, SequencesExt

CONSTANTS Vendor,        \* the vendor string
          PictureTag,    \* METADATA_BLOCK_PICTURE
          Tags, Values,  \* strings for ope_comments_add, one tag holds a '='
          Strings,       \* strings for ope_comments_add_string
          Files,         \* image files, for the first comment
          MoreFiles,     \* image files, for the later ones
          Descriptions,  \* descriptions of pictures
          Types,         \* picture types asked for
          FileRoom,      \* 65536: room for a picture file at first
          MaxBuffer,     \* 0xFFFFFFFF: room for a picture file at most
          Layouts,       \* encoders: channels, family, streams, coupled, mapping
          Preskips, Gains, Paddings,
          MaxComments, MaxObjects, MaxStreams

VARIABLES objects,  \* every OggOpusComments: its comment and seen_file_icons
          said,     \* for each, what was added to it
          streams,  \* every EncStream, in order: its comment, and said when it was made
          sent      \* the header packets sent, with what they were made from

vars == <<objects, said, streams, sent>>

-----------------------------------------------------------------------------
(* Numbers in bytes *)

At(data, offs) == data[offs + 1]

Int2(n) == <<n % 256, (n \div 256) % 256>>
Int4(n) == Int2(n % 65536) \o Int2(n \div 65536)
Int4BE(n) == Reverse(Int4(n))

READ_U32_BE(data, offs) ==
  ((At(data, offs) * 256 + At(data, offs + 1)) * 256 + At(data, offs + 2)) * 256
    + At(data, offs + 3)

readint(data, offs) ==
  ((At(data, offs + 3) * 256 + At(data, offs + 2)) * 256 + At(data, offs + 1)) * 256
    + At(data, offs)

writeint(data, offs, n) == ReplaceAt(ReplaceAt(ReplaceAt(ReplaceAt(data,
  offs + 1, Int4(n)[1]), offs + 2, Int4(n)[2]), offs + 3, Int4(n)[3]), offs + 4, Int4(n)[4])

-----------------------------------------------------------------------------
(* The comments, opus_header.c *)

TagsMagic == <<79, 112, 117, 115, 84, 97, 103, 115>>
Equals == 61

opeint_comment_init == TagsMagic \o Int4(Len(Vendor)) \o Vendor \o Int4(0)

\* A comment at the end, the number of comments in the middle.
opeint_comment_add(comment, string) ==
  LET count == 8 + 4 + readint(comment, 8)
  IN writeint(comment \o Int4(Len(string)) \o string, count, readint(comment, count) + 1)

\* Mutant: a whole lacing value more, so that an empty one must follow.
CommentPadFull(comment, amount) ==
  LET newlen == ((Len(comment) + amount + 255) \div 255) * 255
  IN IF amount > 0
     THEN comment \o [i \in 1..(newlen - Len(comment)) |-> 0]
     ELSE comment

\* At least amount bytes of room, and as many as fit into the lacing values needed.
opeint_comment_pad(comment, amount) ==
  LET newlen == ((Len(comment) + amount + 255) \div 255) * 255 - 1
  IN IF amount > 0
     THEN comment \o [i \in 1..(newlen - Len(comment)) |-> 0]
     ELSE comment

-----------------------------------------------------------------------------
(* The identification header, opus_header.c *)

HeadMagic == <<79, 112, 117, 115, 72, 101, 97, 100>>

opeint_opus_header_get_size(h) == 21 + h.channels

\* write_chars, write_uint16 and write_uint32 fail when there is no room, and so
\* does the packet.
opeint_opus_header_to_packet(h, len) ==
  LET fixed == HeadMagic \o <<1, h.channels>> \o Int2(h.preskip) \o Int4(h.rate)
                 \o Int2(h.gain) \o <<h.family>>
      table == IF h.family = 0 THEN <<>> ELSE <<h.streams, h.coupled>> \o h.map
  IN IF Len(fixed \o table) > len THEN <<>> ELSE fixed \o table

-----------------------------------------------------------------------------
(* Recognising an image, picture.c *)

JpegMagic == <<255, 216, 255>>
PngMagic == <<137, 80, 78, 71, 13, 10, 26, 10>>
GifMagic == {<<71, 73, 70, 56, 55, 97>>, <<71, 73, 70, 56, 57, 97>>}
IHDR == <<73, 72, 68, 82>>
PLTE == <<80, 76, 84, 69>>

is_jpeg(data) == IsPrefix(JpegMagic, data)
is_png(data) == IsPrefix(PngMagic, data)
is_gif(data) == \E magic \in GifMagic : IsPrefix(magic, data)

\* Width, height, depth and colours, with has_palette.
NoParams == [width |-> 0, height |-> 0, depth |-> 0, colors |-> 0, palette |-> -1]

Params == [width : Nat, height : Nat, depth : Nat, colors : Nat, palette : -1..1]

\* Samples of a pixel for a PNG colour type without palette; 1 and 5 are unknown.
SamplesOf == (0 :> 1) @@ (2 :> 3) @@ (4 :> 2) @@ (6 :> 4)

\* Chunk by chunk, until an IHDR without palette or the palette of one with it.
extract_png_params(data) ==
  LET scan[offs \in Nat, p \in Params] ==
        LET chunk_len == READ_U32_BE(data, offs)
            Is(type) == SubSeq(data, offs + 5, offs + 8) = type
            color_type == At(data, offs + 17)
            q == [p EXCEPT !.width = READ_U32_BE(data, offs + 8),
                           !.height = READ_U32_BE(data, offs + 12)]
        IN CASE Len(data) - offs < 12 \/ chunk_len > Len(data) - (offs + 12) -> p
             [] OTHER ->
                IF chunk_len = 13 /\ Is(IHDR)
                THEN IF color_type = 3
                     THEN scan[offs + 25, [q EXCEPT !.depth = 24, !.palette = 1]]
                     ELSE [q EXCEPT !.colors = 0, !.palette = 0,
                             !.depth = IF color_type \in DOMAIN SamplesOf
                                       THEN At(data, offs + 16) * SamplesOf[color_type]
                                       ELSE @]
                ELSE IF p.palette > 0 /\ Is(PLTE)
                THEN [p EXCEPT !.colors = chunk_len \div 3]
                ELSE scan[offs + 12 + chunk_len, p]
  IN scan[8, NoParams]

extract_gif_params(data) ==
  IF Len(data) < 14 THEN NoParams
  ELSE [width |-> At(data, 6) + At(data, 7) * 256, height |-> At(data, 8) + At(data, 9) * 256,
        depth |-> 24, colors |-> 2 ^ ((At(data, 10) % 8) + 1), palette |-> 1]

\* Marker by marker: EOI, SOI and SOS stop, RST has no length, SOF has the answer.
\* At the end of the data the code still reads a marker, data[data_length] (201),
\* one byte behind what from_memory has allocated, and stops without using it
\* (205): the model reads nothing there, so no property is about that read.
extract_jpeg_params(data) ==
  LET Skip(from, P(_)) ==
        CHOOSE n \in from..Len(data) : /\ n = Len(data) \/ ~P(At(data, n))
                                       /\ \A m \in from..(n - 1) : P(At(data, m))
      Word(offs) == At(data, offs) * 256 + At(data, offs + 1)
      scan[from \in Nat] ==
        LET start == Skip(Skip(from, LAMBDA b : b # 255), LAMBDA b : b = 255)
            marker == At(data, start)
            offs == start + 1
        IN IF offs >= Len(data) THEN NoParams
           ELSE IF marker \in 216..218 THEN NoParams
           ELSE IF marker \in 208..215 THEN scan[offs]
           ELSE IF Len(data) - offs < 2 THEN NoParams
           ELSE IF Word(offs) < 2 \/ Len(data) - offs < Word(offs) THEN NoParams
           ELSE IF marker = 192 \/ (marker \in 193..207 /\ marker % 4 # 0)
           THEN IF Word(offs) < 8 THEN NoParams
                ELSE [width |-> Word(offs + 5), height |-> Word(offs + 3),
                      depth |-> At(data, offs + 2) * At(data, offs + 7),
                      colors |-> 0, palette |-> 0]
           ELSE scan[offs + Word(offs)]
  IN scan[2]

-----------------------------------------------------------------------------
(* A picture comment, picture.c *)

JpegMime == <<105, 109, 97, 103, 101, 47, 106, 112, 101, 103>>
PngMime == <<105, 109, 97, 103, 101, 47, 112, 110, 103>>
GifMime == <<105, 109, 97, 103, 101, 47, 103, 105, 102>>

Pad == 64

\* Three bytes to four characters of six bits, what is missing to Pad.
base64_encode(src) ==
  LET ngroups == Len(src) \div 3
      rest == Len(src) - 3 * ngroups
      S(i, k) == At(src, 3 * i + k)
      Group(i) == <<S(i, 0) \div 4, (S(i, 0) % 4) * 16 + S(i, 1) \div 16,
                    (S(i, 1) % 16) * 4 + S(i, 2) \div 64, S(i, 2) % 64>>
  IN [n \in 1..(4 * ngroups) |-> Group((n - 1) \div 4)[((n - 1) % 4) + 1]]
     \o CASE rest = 0 -> <<>>
          [] rest = 1 -> <<S(ngroups, 0) \div 4, (S(ngroups, 0) % 4) * 16, Pad, Pad>>
          [] rest = 2 -> <<S(ngroups, 0) \div 4,
                           (S(ngroups, 0) % 4) * 16 + S(ngroups, 1) \div 16,
                           (S(ngroups, 1) % 16) * 4, Pad>>

\* Types 1 and 2 are also the bits of seen_file_icons.
Seen(seen_file_icons, type) == (seen_file_icons \div type) % 2 = 1

validate_picture_type(picture_type, seen_file_icons) ==
  /\ picture_type <= 20
  /\ picture_type \in 1..2 => ~Seen(seen_file_icons, picture_type)

DataOffset(description) == 32 + Len(description) + 10

\* The buffer doubles until the file leaves some of it free, or it may not grow;
\* -1 for a file that is too large.
opeint_read_picture_file(data, description) ==
  LET need == DataOffset(description) + Len(data)
      read[cbuf \in Nat] ==
        IF need < cbuf THEN need
        ELSE IF cbuf = MaxBuffer THEN -1
        ELSE read[IF cbuf > MaxBuffer \div 2 THEN MaxBuffer ELSE 2 * cbuf + 1]
  IN read[DataOffset(description) + FileRoom]

\* An image it does not know, or an icon that is none, is refused.
ParamsOf(data) ==
  LET p == CASE is_jpeg(data) -> extract_jpeg_params(data)
             [] is_png(data) -> extract_png_params(data)
             [] is_gif(data) -> extract_gif_params(data)
  IN IF p.width = 0 \/ p.height = 0 \/ p.depth = 0 THEN NoParams ELSE p

MimeOf(data) ==
  CASE is_jpeg(data) -> JpegMime [] is_png(data) -> PngMime [] is_gif(data) -> GifMime

Acceptable(data, picture_type) ==
  /\ is_jpeg(data) \/ is_png(data) \/ is_gif(data)
  /\ picture_type = 1 =>
       /\ ParamsOf(data).width = 32 /\ ParamsOf(data).height = 32
       /\ MimeOf(data) = PngMime

\* METADATA_BLOCK_PICTURE, put in front of the data from its end to its beginning.
PictureBlock(data, picture_type, description) ==
  LET p == ParamsOf(data)
      mime == MimeOf(data)
  IN Int4BE(picture_type) \o Int4BE(Len(mime)) \o mime
     \o Int4BE(Len(description)) \o description
     \o Int4BE(p.width) \o Int4BE(p.height) \o Int4BE(p.depth) \o Int4BE(p.colors)
     \o Int4BE(Len(data)) \o data

-----------------------------------------------------------------------------
(* Image files: the bytes a caller gives, and what is true of them *)

WholeBytes(file) ==
  LET Chunk(c) == Int4BE(Len(c.data)) \o c.type \o c.data \o <<0, 0, 0, 0>>
      Segment(s) == s.fill \o <<s.marker>> \o
        IF s.marker \in 208..218 THEN <<>> ELSE Reverse(Int2(Len(s.data) + 2)) \o s.data
      Parts(Op(_)) == FlattenSeq([i \in DOMAIN file.parts |-> Op(file.parts[i])])
  IN CASE file.kind = "png" -> PngMagic \o Parts(Chunk)
       [] file.kind = "jpeg" -> <<255, 216>> \o Parts(Segment)
       [] OTHER -> file.parts[1].data

\* The last bytes may be missing.
Bytes(file) == LET whole == WholeBytes(file) IN SubSeq(whole, 1, Len(whole) - file.cut)

\* The parts that are not cut; the end of an RST segment is its marker.
Present(file) ==
  {i \in DOMAIN file.parts :
     Len(WholeBytes([file EXCEPT !.parts = SubSeq(file.parts, 1, i)])) <= Len(Bytes(file))}

First(S) == CHOOSE i \in S : \A j \in S : i <= j

\* The first image header of a PNG with, if it has a palette, the first palette
\* behind it; the first frame of a JPEG, which no end, start or scan precedes.
Truth(file) ==
  LET Part(i) == file.parts[i]
      Image(d, depth, colors) ==
        IF d.width = 0 \/ d.height = 0 \/ depth = 0
        THEN [width |-> 0, height |-> 0, depth |-> 0, colors |-> 0]
        ELSE [width |-> d.width, height |-> d.height, depth |-> depth, colors |-> colors]
      None == Image([width |-> 0, height |-> 0], 0, 0)
      heads == {i \in Present(file) : Part(i).name = "header"}
      palettes == {i \in Present(file) : i > First(heads) /\ Part(i).name = "palette"}
      stops == {i \in Present(file) : Part(i).name \in {"header", "stop"}}
  IN CASE file.kind = "gif" -> IF file.cut = 0 THEN file.truth ELSE None
       [] stops = {} -> None
       [] file.kind = "jpeg" ->
            LET p == Part(First(stops))
            IN IF p.name = "header" /\ Len(p.data) >= 6 THEN Image(p, p.depth, 0) ELSE None
       [] OTHER ->
            LET p == Part(First(heads))
            IN IF ~p.paletted THEN Image(p, p.depth, 0)
               ELSE Image(p, 24, IF palettes = {} THEN 0 ELSE Part(First(palettes)).entries)

-----------------------------------------------------------------------------
(* The calls *)

\* What a caller has added: a string, or a picture.
Text(string) == [text |-> string, file |-> 0, type |-> -1, description |-> <<>>]
Picture(file, type, description) ==
  [text |-> <<>>, file |-> file, type |-> type, description |-> description]

NewObject == [comment |-> opeint_comment_init, seen_file_icons |-> 0]

Init ==
  /\ objects = <<NewObject>>
  /\ said = <<<<>>>>
  /\ streams = <<>>
  /\ sent = <<>>

Added(i, string, what) ==
  /\ Len(said[i]) < MaxComments
  /\ objects' = [objects EXCEPT ![i].comment = opeint_comment_add(@, string)]
  /\ said' = [said EXCEPT ![i] = Append(@, what)]
  /\ UNCHANGED <<streams, sent>>

\* ope_comments_add; a tag with a '=' is refused.
Add(i, tag, value) ==
  LET string == tag \o <<Equals>> \o value
  IN ~Contains(tag, Equals) /\ Added(i, string, Text(string))

\* ope_comments_add_string; a string without a '=' is refused.
AddString(i, string) == Contains(string, Equals) /\ Added(i, string, Text(string))

\* A negative type is the front cover, 3.
TypeFor(type) == IF type < 0 THEN 3 ELSE type

Marked(seen_file_icons, type) ==
  IF type \in 1..2 THEN seen_file_icons + type ELSE seen_file_icons

MayAdd(i, file, type) ==
  /\ validate_picture_type(type, objects[i].seen_file_icons)
  /\ Acceptable(Bytes(file), type)

\* ope_comments_add_picture and _from_memory, when there is memory for everything.
AddPicture(i, file, type, description) ==
  LET string == PictureTag \o <<Equals>>
                  \o base64_encode(PictureBlock(Bytes(file), type, description))
  IN
  /\ Len(said[i]) < MaxComments
  /\ objects' = [objects EXCEPT ![i] =
       [comment |-> opeint_comment_add(@.comment, string),
        seen_file_icons |-> Marked(@.seen_file_icons, type)]]
  /\ said' = [said EXCEPT ![i] = Append(@, Picture(file, type, description))]
  /\ UNCHANGED <<streams, sent>>

\* There is no memory left for the comment: the icon is marked and the call
\* succeeds, but nothing is added.
AddPictureLost(i, type) ==
  /\ type \in 1..2
  /\ objects' = [objects EXCEPT ![i].seen_file_icons = Marked(@, type)]
  /\ UNCHANGED <<said, streams, sent>>

\* The picture comes from a file or from memory, and is looked at first.
ParsedPicture(i, file, picture_type, description, from_file) ==
  LET type == TypeFor(picture_type)
  IN
  /\ from_file => opeint_read_picture_file(Bytes(file), description) # -1
  /\ MayAdd(i, file, type)
  /\ AddPicture(i, file, type, description) \/ AddPictureLost(i, type)

\* Mutant: the copy forgets the icons.
CopyWithoutIcons(i) ==
  /\ Len(objects) < MaxObjects /\ said[i] # <<>>
  /\ objects' = Append(objects, [objects[i] EXCEPT !.seen_file_icons = 0])
  /\ said' = Append(said, said[i])
  /\ UNCHANGED <<streams, sent>>

\* ope_comments_copy; the copy of an empty object is one just created.
Copy(i) ==
  /\ Len(objects) < MaxObjects /\ said[i] # <<>>
  /\ objects' = Append(objects, objects[i])
  /\ said' = Append(said, said[i])
  /\ UNCHANGED <<streams, sent>>

\* stream_create, for a new encoder or a stream chained to the last.
StreamCreate(i) ==
  /\ Len(streams) < MaxStreams
  /\ streams' = Append(streams, [comment |-> objects[i].comment, said |-> said[i]])
  /\ UNCHANGED <<objects, said, sent>>

\* Any byte that is no channel.
Uninitialized == 254

\* The OpusHeader of an encoder made with a family, whose mapping is the library's, or
\* with -1 and a mapping of its own, of which a part may not be copied.
OpusHeader(l, preskip, gain) ==
  [channels |-> l.channels, family |-> l.family, streams |-> l.streams, coupled |-> l.coupled,
   rate |-> 48000, preskip |-> preskip, gain |-> gain,
   map |-> [k \in 1..l.channels |->
              IF l.deferred /\ k > l.streams + l.coupled THEN Uninitialized ELSE l.map[k]]]

\* init_stream, for the next stream, with the padding and the gain set last; without
\* memory the padding is left out.
InitStream(l, h, amount, memory) ==
  LET s == streams[Len(sent) + 1]
      room == IF memory THEN amount ELSE 0
  IN
  /\ Len(sent) < Len(streams)
  /\ sent' = Append(sent,
       [head |-> opeint_opus_header_to_packet(h, opeint_opus_header_get_size(h)),
        tags |-> opeint_comment_pad(s.comment, room),
        from |-> l, preskip |-> h.preskip, gain |-> h.gain, said |-> s.said, room |-> room])
  /\ UNCHANGED <<objects, said, streams>>

\* Nothing is added when the last stream has been sent.
Adds ==
  /\ Len(sent) < MaxStreams
  /\ \E i \in DOMAIN objects :
       \/ \E tag \in Tags, value \in Values : Add(i, tag, value)
       \/ \E string \in Strings : AddString(i, string)
       \/ \E file \in IF said[i] = <<>> THEN Files ELSE MoreFiles, type \in Types,
             description \in Descriptions, from_file \in BOOLEAN :
            ParsedPicture(i, file, type, description, from_file)
       \/ Copy(i)
       \/ StreamCreate(i)

Next ==
  \/ Adds
  \/ \E l \in Layouts, preskip \in Preskips, gain \in Gains, amount \in Paddings,
        memory \in BOOLEAN :
       /\ sent # <<>> => l = sent[1].from
       /\ InitStream(l, OpusHeader(l, preskip, gain), amount, memory)

Spec == Init /\ [][Next]_vars

-----------------------------------------------------------------------------
(* Readers *)

\* The strings of a comment header, as opus_header.c 230-238 tells to decode it, and
\* the offset they end at.
Decoded(comment) ==
  LET list == 12 + readint(comment, 8)
      read[n \in Nat] ==
        IF n = 0 THEN [strings |-> <<>>, end |-> list + 4]
        ELSE LET r == read[n - 1]
                 length == readint(comment, r.end)
             IN [strings |-> Append(r.strings, SubSeq(comment, r.end + 5, r.end + 4 + length)),
                 end |-> r.end + 4 + length]
  IN read[readint(comment, list)]

\* The bytes of a base64 text.
Unbase64(text) ==
  LET n == 3 * (Len(text) \div 4) - Cardinality({k \in DOMAIN text : text[k] = Pad})
      V(k) == IF text[k] = Pad THEN 0 ELSE text[k]
      Byte(b) == LET g == 4 * (b \div 3)
                 IN CASE b % 3 = 0 -> V(g + 1) * 4 + V(g + 2) \div 16
                      [] b % 3 = 1 -> (V(g + 2) % 16) * 16 + V(g + 3) \div 4
                      [] b % 3 = 2 -> (V(g + 3) % 4) * 64 + V(g + 4)
  IN [k \in 1..n |-> Byte(k - 1)]

\* A picture block is the picture that was added, and the room kept in front of
\* the data was enough for it.
BlockIs(block, what) ==
  LET mime == READ_U32_BE(block, 4)
      desc == 8 + mime
      fields == desc + 4 + READ_U32_BE(block, desc)
      data == Bytes(what.file)
      Field(k) == READ_U32_BE(block, fields + 4 * k)
  IN
  /\ READ_U32_BE(block, 0) = what.type
  /\ SubSeq(block, 9, 8 + mime) = CASE what.file.kind = "png" -> PngMime
                                    [] what.file.kind = "jpeg" -> JpegMime
                                    [] what.file.kind = "gif" -> GifMime
  /\ SubSeq(block, desc + 5, fields) = what.description
  /\ [width |-> Field(0), height |-> Field(1), depth |-> Field(2), colors |-> Field(3)]
       = Truth(what.file)
  /\ Field(4) = Len(data) /\ SubSeq(block, fields + 21, Len(block)) = data
  /\ fields + 20 <= DataOffset(what.description)

StringIs(string, what) ==
  IF what.type = -1 THEN string = what.text
  ELSE LET tag == Len(PictureTag) + 1
       IN /\ SubSeq(string, 1, tag) = PictureTag \o <<Equals>>
          /\ BlockIs(Unbase64(SubSeq(string, tag + 1, Len(string))), what)

-----------------------------------------------------------------------------
(* Properties *)

\* The comments of an object, and of its copies, are those that were added to it, in
\* order and whatever they are (opus_header.c 270-292, picture.c 305-391); of the two
\* kinds of icon it has one each at most, and the first is a PNG of 32 by 32.
PicturesReadBack ==
  \A i \in DOMAIN objects :
    LET read == Decoded(objects[i].comment)
    IN /\ read.end = Len(objects[i].comment) /\ Len(read.strings) = Len(said[i])
       /\ \A k \in DOMAIN said[i] :
            /\ StringIs(read.strings[k], said[i][k])
            /\ said[i][k].type = 1 =>
                 Truth(said[i][k].file).width = 32 /\ Truth(said[i][k].file).height = 32
            /\ said[i][k].type \in 1..2 =>
                 \A j \in DOMAIN said[i] : said[i][j].type = said[i][k].type => j = k

\* A decoder reads from the header packets of a stream the settings of the encoder
\* when they were sent, and the comments of the object when the stream was made, not
\* one that was added since; behind them are zeros, at least as many as asked for, up
\* to the end of a lacing value.  Left out: a mapping of more channels than the streams
\* decode to, of which opusenc.c 513 copies a part.
HeadersReadBack ==
  \A n \in DOMAIN sent :
    LET s == sent[n]
        l == s.from
        read == Decoded(s.tags)
    IN /\ Len(read.strings) = Len(s.said)
       /\ \A k \in DOMAIN s.said : StringIs(read.strings[k], s.said[k])
       /\ \A k \in (read.end + 1)..Len(s.tags) : s.tags[k] = 0
       /\ s.room > 0 => /\ Len(s.tags) % 255 = 254
                        /\ Len(s.tags) - read.end - s.room \in 0..254
       /\ SubSeq(s.head, 1, 10) = HeadMagic \o <<1, l.channels>>
       /\ At(s.head, 10) + 256 * At(s.head, 11) = s.preskip
       /\ readint(s.head, 12) = 48000
       /\ At(s.head, 16) + 256 * At(s.head, 17) \in {s.gain, s.gain + 65536}
       /\ At(s.head, 18) = l.family
       /\ l.family = 0 => Len(s.head) = 19
       /\ l.family # 0 /\ l.channels <= l.streams + l.coupled =>
            SubSeq(s.head, 20, Len(s.head)) = <<l.streams, l.coupled>> \o l.map
=============================================================================
