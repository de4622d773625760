------------------------------- MODULE PngImage -------------------------------
(***************************************************************************)
(* The validator every uploaded or generated artwork goes through: it      *)
(* reads the chunks of a PNG file in one pass, computes from the header    *)
(* how many bytes the decoded raster must have, with or without Adam7      *)
(* interlacing, and undoes the filter of each scanline.  A file is a       *)
(* sequence of chunks; the bytes of a chunk are abstracted to what the     *)
(* validator tells apart.                                                  *)
(***************************************************************************)
EXTENDS Integers, Sequences, FiniteSets, Functions

CONSTANTS
  Headers,     \* IHDR chunks a file may begin with
  Raws,        \* bytes an encoded scanline may hold
  MaxBytes,    \* MAX_DECODED_RASTER_BYTES
  MaxChunks,   \* bound on the chunks of a file
  MaxRows      \* bound on the scanlines that are decoded

(* What the values of the constants must satisfy.                            *)
PngAssumption ==
  /\ Headers \subseteq [width : Nat, height : Nat, color : Nat, depth : Nat, adam7 : BOOLEAN]
  /\ Raws \subseteq Seq(0..255)

VARIABLES
  chunks,      \* the chunks read so far
  header, palette, transparencySeen, idat, iendSeen,
  verdict,     \* "reading"; "refused" at a chunk, "broken" at the end, "unfit" for
               \* its raster; or "rows" while the raster is inspected
  decoded,     \* bytes the inflated data had
  line         \* the scanline decoded last: its filter, bytes and predecessor

reader == <<header, palette, transparencySeen, idat, iendSeen>>
pngVars == <<chunks, reader, verdict, decoded, line>>

NoHeader == [width |-> 0, height |-> 0, color |-> 0, depth |-> 0, adam7 |-> FALSE]
NoLine == [number |-> 0, filter |-> 0, raw |-> <<>>, row |-> <<>>, previous |-> <<>>]

Chunks ==
  [type : {"IHDR"}, header : IF header = NoHeader THEN Headers ELSE {header}, n : {13}]
    \cup [type : {"PLTE"}, n : {1, 2, 3}]        \* entries
    \cup [type : {"tRNS"}, n : {1, 2, 3, 6}]     \* bytes
    \cup [type : {"IDAT"}, n : {1}]
    \cup [type : {"IEND"}, n : {0, 1}]
    \cup [type : {"ancillary", "critical", "corrupt"}, n : {0}]

PngInit ==
  /\ chunks = <<>>
  /\ header = NoHeader /\ palette = 0 /\ transparencySeen = FALSE
  /\ idat = "none" /\ iendSeen = FALSE
  /\ verdict = "reading"
  /\ decoded = 0
  /\ line = NoLine

-----------------------------------------------------------------------------
(* Arithmetic of the raster.                                                 *)

AllowedDepths(color) ==
  CASE color = 0 -> {1, 2, 4, 8, 16}
    [] color = 3 -> {1, 2, 4, 8}
    [] OTHER -> {8, 16}

Channels(color) ==
  CASE color \in {0, 3} -> 1 [] color = 2 -> 3 [] color = 4 -> 2 [] OTHER -> 4

BitsPerPixel(h) == Channels(h.color) * h.depth

Adam7 ==
  {<<0, 0, 8, 8>>, <<4, 0, 8, 8>>, <<0, 4, 4, 8>>, <<2, 0, 4, 4>>,
   <<0, 2, 2, 4>>, <<1, 0, 2, 2>>, <<0, 1, 1, 2>>}

CeilDiv(a, b) == (a + b - 1) \div b

(* The pixels of one dimension a pass has.                                   *)
PassDimension(size, start, step) == IF size <= start THEN 0 ELSE CeilDiv(size - start, step)

(* Each scanline of a pass has a byte for its filter.                        *)
ScanlinesOf(h, p) ==
  LET w == PassDimension(h.width, p[1], p[3])
      n == PassDimension(h.height, p[2], p[4])
  IN IF w = 0 \/ n = 0 THEN 0 ELSE (CeilDiv(w * BitsPerPixel(h), 8) + 1) * n

Passes(h) == IF h.adam7 THEN Adam7 ELSE {<<0, 0, 1, 1>>}

ScanlineBytes(h) == SumFunction([p \in Passes(h) |-> ScanlinesOf(h, p)])

-----------------------------------------------------------------------------
(* The chunks.                                                               *)

ValidHeader(h) == h.width > 0 /\ h.height > 0 /\ h.depth \in AllowedDepths(h.color)

ValidTransparency(n) ==
  \/ header.color = 0 /\ n = 2
  \/ header.color = 2 /\ n = 6
  \/ header.color = 3 /\ palette # 0 /\ n <= palette

(* Whether more image data may follow, and a variant that lets it resume.    *)
DataResumes == TRUE
DataOpen == idat # "closed"

Accepts(c) ==
  /\ header = NoHeader => c.type = "IHDR"
  /\ ~iendSeen
  /\ \/ c.type = "IHDR" /\ header = NoHeader /\ ValidHeader(c.header)
     \/ /\ c.type = "PLTE" /\ palette = 0 /\ idat = "none"
        /\ header.color \notin {0, 4}
        /\ header.color = 3 => c.n <= 2 ^ header.depth
     \/ c.type = "tRNS" /\ ~transparencySeen /\ idat = "none" /\ ValidTransparency(c.n)
     \/ c.type = "IDAT" /\ DataOpen
     \/ c.type = "IEND" /\ c.n = 0
     \/ c.type = "ancillary"

ReadChunk(c) ==
  /\ verdict = "reading"
  /\ Len(chunks) < MaxChunks
  /\ chunks' = Append(chunks, c)
  /\ IF Accepts(c)
     THEN /\ header' = IF c.type = "IHDR" THEN c.header ELSE header
          /\ palette' = IF c.type = "PLTE" THEN c.n ELSE palette
          /\ transparencySeen' = (transparencySeen \/ c.type = "tRNS")
          /\ idat' = IF c.type = "IDAT" THEN "open"
                     ELSE IF idat = "open" /\ c.type # "IEND" THEN "closed" ELSE idat
          /\ iendSeen' = (c.type = "IEND")
          /\ UNCHANGED verdict
     ELSE verdict' = "refused" /\ UNCHANGED reader
  /\ UNCHANGED <<decoded, line>>

(* The file ends, after IEND or before it, and its data is inflated.         *)
Whole == iendSeen /\ idat # "none" /\ (header.color = 3 => palette # 0)
TooLarge == ScanlineBytes(header) > MaxBytes

Inflate ==
  /\ verdict = "reading" /\ chunks # <<>>
  /\ \/ ~Whole /\ verdict' = "broken" /\ UNCHANGED decoded
     \/ Whole /\ TooLarge /\ verdict' = "unfit" /\ UNCHANGED decoded
     \/ /\ Whole /\ ~TooLarge
        /\ \E d \in {ScanlineBytes(header) - 1, ScanlineBytes(header), ScanlineBytes(header) + 1} :
             /\ decoded' = d
             /\ verdict' = IF d = ScanlineBytes(header) THEN "rows" ELSE "unfit"
  /\ UNCHANGED <<chunks, reader, line>>

-----------------------------------------------------------------------------
(* The scanlines, in bytes of one pixel each.                                *)

Distance(a, b) == IF a >= b THEN a - b ELSE b - a

(* The predictor of a byte; a variant settles its ties the other way.        *)
PaethLate(left, up, upperLeft) ==
  LET p == left + up - upperLeft
      l == Distance(p, left)  u == Distance(p, up)  ul == Distance(p, upperLeft) IN
  IF l < u /\ l < ul THEN left ELSE IF u < ul THEN up ELSE upperLeft
PaethPredictor(left, up, upperLeft) ==
  LET p == left + up - upperLeft
      l == Distance(p, left)  u == Distance(p, up)  ul == Distance(p, upperLeft) IN
  IF l <= u /\ l <= ul THEN left ELSE IF u <= ul THEN up ELSE upperLeft

Predictor(filter, left, up, upperLeft) ==
  CASE filter = 1 -> left
    [] filter = 2 -> up
    [] filter = 3 -> (left + up) \div 2
    [] filter = 4 -> PaethPredictor(left, up, upperLeft)
    [] OTHER -> 0

ByteAt(row, i) == IF i \in DOMAIN row THEN row[i] ELSE 0

UnfilterRow(filter, raw, previous) ==
  LET row[i \in DOMAIN raw] ==
        (raw[i] + Predictor(filter, IF i = 1 THEN 0 ELSE row[i - 1],
                            ByteAt(previous, i), ByteAt(previous, i - 1))) % 256
  IN row

DecodeRow(filter, raw) ==
  /\ verdict = "rows"
  /\ line.number < MaxRows
  /\ line' = [number |-> line.number + 1, filter |-> filter, raw |-> raw,
              row |-> UnfilterRow(filter, raw, line.row), previous |-> line.row]
  /\ UNCHANGED <<chunks, reader, verdict, decoded>>

PngNext ==
  \/ \E c \in Chunks : ReadChunk(c)
  \/ Inflate
  \/ \E filter \in 0..4, raw \in Raws : DecodeRow(filter, raw)

PngSpec == PngInit /\ [][PngNext]_pngVars

-----------------------------------------------------------------------------
(* What the PNG specification says of a whole file, a raster and a filter.   *)

At(type) == {i \in DOMAIN chunks : chunks[i].type = type}

(* Every rule on the order, the number and the contents of the chunks that   *)
(* more chunks cannot mend.                                                  *)
KnownChunks == At("corrupt") \cup At("critical") = {}
HeaderFirst == At("IHDR") = {1} /\ ValidHeader(chunks[1].header)
EndLast == \A i \in At("IEND") : i = Len(chunks) /\ chunks[i].n = 0
DataTogether == \A i, j \in At("IDAT") : i..j \subseteq At("IDAT")
OnePalette == \A i, j \in At("PLTE") : i = j
OneTransparency == \A i, j \in At("tRNS") : i = j
PaletteBeforeData == \A i \in At("PLTE"), j \in At("IDAT") : i < j
TransparencyBeforeData == \A i \in At("tRNS"), j \in At("IDAT") : i < j
Color == chunks[1].header.color
PaletteFits ==
  \A i \in At("PLTE") : Color \notin {0, 4} /\ (Color = 3 => chunks[i].n <= 2 ^ chunks[1].header.depth)
TransparencyFits ==
  \A j \in At("tRNS") :
    \/ Color = 0 /\ chunks[j].n = 2
    \/ Color = 2 /\ chunks[j].n = 6
    \/ Color = 3 /\ \E i \in At("PLTE") : i < j /\ chunks[j].n <= chunks[i].n

(* What a file has so far may go on to be a PNG.                             *)
SoFar ==
  /\ HeaderFirst /\ KnownChunks /\ EndLast /\ DataTogether
  /\ OnePalette /\ OneTransparency /\ PaletteBeforeData /\ TransparencyBeforeData
  /\ PaletteFits /\ TransparencyFits

WellFormed ==
  /\ SoFar
  /\ At("IEND") # {} /\ At("IDAT") # {}
  /\ Color = 3 => At("PLTE") # {}

(* The pixels a pass has, one by one.                                        *)
PassPixels(h, p) ==
  {px \in (0..h.width - 1) \X (0..h.height - 1) :
     /\ px[1] >= p[1] /\ (px[1] - p[1]) % p[3] = 0
     /\ px[2] >= p[2] /\ (px[2] - p[2]) % p[4] = 0}

(* The bytes of its rows, each after that of its filter.                     *)
RowPixels(h, p, y) == {px \in PassPixels(h, p) : px[2] = y}
PassBytes(h, p) ==
  SumFunction([y \in {px[2] : px \in PassPixels(h, p)} |->
                 1 + CeilDiv(Cardinality(RowPixels(h, p, y)) * BitsPerPixel(h), 8)])

(* The one pass over the chunks, with its flags, refuses a file at the first *)
(* chunk that no PNG has there and at no other, and lets it end exactly when *)
(* the file as a whole is a PNG.                                             *)
ReadsExactlyPng ==
  chunks # <<>> =>
    /\ verdict = "refused" <=> ~SoFar
    /\ verdict = "broken" => ~WellFormed
    /\ verdict \in {"unfit", "rows"} => WellFormed

(* A raster that is inspected has, byte for byte, the scanlines of its       *)
(* pixels, and the passes of an interlaced one hold every pixel once.        *)
RasterIsWhole ==
  verdict = "rows" =>
    /\ decoded = SumFunction([p \in Passes(header) |-> PassBytes(header, p)])
    /\ \A px \in (0..header.width - 1) \X (0..header.height - 1) :
         Cardinality({p \in Passes(header) : px \in PassPixels(header, p)}) = 1

PngIsReadWhole == ReadsExactlyPng /\ RasterIsWhole

(* The neighbour nearest to left + up - upperLeft, the first of those in     *)
(* this order when two are as near.                                          *)
Nearest(left, up, upperLeft) ==
  LET near == <<left, up, upperLeft>>
      off(i) == Distance(left + up - upperLeft, near[i])
      best == {i \in 1..3 : \A j \in 1..3 : off(i) <= off(j)} IN
  near[CHOOSE i \in best : \A j \in best : i <= j]

(* A decoded scanline, filtered again as the encoder does, is what was read. *)
RowUndoesFilter ==
  \A i \in DOMAIN line.raw :
    LET left == ByteAt(line.row, i - 1)
        up == ByteAt(line.previous, i)
        upperLeft == ByteAt(line.previous, i - 1)
        guess == CASE line.filter = 0 -> 0
                   [] line.filter = 1 -> left
                   [] line.filter = 2 -> up
                   [] line.filter = 3 -> (left + up) \div 2
                   [] line.filter = 4 -> Nearest(left, up, upperLeft) IN
    line.raw[i] = (line.row[i] - guess) % 256

=============================================================================
