--------------------------- MODULE ImageReplacement --------------------------
(***************************************************************************)
(* Textures of iw3/mp that a mod replaces by DDS files, and the command     *)
(* that dumps them (image_loader.cpp).  One texture, whose surfaces are its *)
(* levels, or the six faces of a cube: what each shows, the level twice its *)
(* size that a streamed texture has for a while, the file of the active mod *)
(* and the file that was dumped.                                           *)
(*                                                                         *)
(* A picture is where it comes from, with its width or its face.           *)
(***************************************************************************)
EXTENDS Integers, Sequences, FiniteSets, FiniteSetsExt, SequencesExt

CONSTANTS
  Images, \* textures: map, width, height, format, pitch, levels, packed, card
          \*   (bytes of memory, or 0), streaming, delayed, streamBytes
  Files,  \* DDS files of mods: mod, header, cube, width, height, format, mips, data, content
  NoFile    \* no file

VARIABLES
  image,    \* the texture
  linked,   \* its zone is loaded
  pixels,   \* what each of its surfaces shows
  streamed, \* what the streamed level shows, or NoPicture
  file,     \* the file of the active mod for it, or NoFile
  sources,  \* history: the whole file of the mod that was active when the levels of the zone
            \*   were last replaced, and that of the mod when the streamed level was read
  dump      \* the file that imagedump wrote last, or NoFile
imageVars == <<image, linked, pixels, streamed, file, sources, dump>>

-----------------------------------------------------------------------------
(* How the console's GPU lays out the levels of a texture, and where the   *)
(* plugin puts each block of a level when it tiles it                      *)
(* (image/xenos_texture.cpp).  Pure arithmetic: shifts and masks of powers  *)
(* of two are written as products, quotients and remainders; no size that  *)
(* a texture can have overflows 32 bits.                                   *)

(* GetTextureFormatInfo: block edge in texels and bytes of a block. *)
FormatInfo ==
  [f \in {"8", "8_8", "8_8_8_8", "DXT1", "DXT2_3", "DXT4_5", "DXN", "DXT3A", "DXT5A"} |->
     CASE f = "8" -> [block |-> 1, bytes |-> 1]
       [] f = "8_8" -> [block |-> 1, bytes |-> 2]
       [] f = "8_8_8_8" -> [block |-> 1, bytes |-> 4]
       [] f \in {"DXT1", "DXT3A", "DXT5A"} -> [block |-> 4, bytes |-> 8]
       [] OTHER -> [block |-> 4, bytes |-> 16]]

AtLeast1(n) == IF n > 1 THEN n ELSE 1
DivideRoundUp(value, divisor) == (value + divisor - 1) \div divisor
AlignTo(value, alignment) == DivideRoundUp(value, alignment) * alignment
Exponents == 0..16
Log2Ceil(value) == CHOOSE n \in Exponents : 2^n >= value /\ \A m \in Exponents : 2^m >= value => n <= m
NextPow2(value) == 2^Log2Ceil(value)
Halved(size, level) == AtLeast1(size \div 2^level)

-----------------------------------------------------------------------------
(* Levels *)

CalculatePitch(width, f) ==
  IF f.block > 1 THEN AlignTo(AtLeast1(DivideRoundUp(width, f.block)), 32) \div 8
  ELSE AlignTo(width, 32) \div 32

(* CalculateLevelLayout: blocks that are used and stored, in a row and in   *)
(* rows; mip levels are stored as those of a power of two.                 *)
Layout(width, height, level, format, basePitch) ==
  LET f == FormatInfo[format]
      pitch == IF basePitch # 0 THEN basePitch ELSE CalculatePitch(width, f)
      mip(size) == Halved(NextPow2(size), level)
  IN [width  |-> AtLeast1(DivideRoundUp(Halved(width, level), f.block)),
      height |-> AtLeast1(DivideRoundUp(Halved(height, level), f.block)),
      storedWidth |-> IF level = 0 THEN AtLeast1(DivideRoundUp(pitch * 32, f.block))
                      ELSE AlignTo(DivideRoundUp(mip(width), f.block), 32),
      storedHeight |-> IF level = 0 THEN AlignTo(AtLeast1(DivideRoundUp(height, f.block)), 32)
                       ELSE AlignTo(DivideRoundUp(mip(height), f.block), 32)]

TiledLevelSize(width, height, level, format, basePitch) ==
  LET layout == Layout(width, height, level, format, basePitch)
  IN AlignTo(layout.storedWidth * FormatInfo[format].bytes * layout.storedHeight, 4096)

LinearLevelSize(width, height, level, format) ==
  LET blocks(size) == AtLeast1(DivideRoundUp(Halved(size, level), FormatInfo[format].block))
  IN blocks(width) * blocks(height) * FormatInfo[format].bytes

LinearRowPitch(width, level, format) ==
  AtLeast1(DivideRoundUp(Halved(width, level), FormatInfo[format].block)) * FormatInfo[format].bytes

SumOver(S, n(_)) == MapThenFoldSet(+, 0, n, LAMBDA T : CHOOSE l \in T : TRUE, S)

(* Mutant: the offset of a level counts the levels as a file has them.      *)
MipLevelOffsetLinear(width, height, level, format) ==
  SumOver(1..level - 1, LAMBDA l : LinearLevelSize(width, height, l, format))
MipLevelOffset(width, height, level, format) ==
  SumOver(1..level - 1, LAMBDA l : TiledLevelSize(width, height, l, format, 0))

(* The first level that shares the tail with those below it. *)
MipTailBaseLevel(width, height) ==
  LET log2Size == Log2Ceil(IF width < height THEN width ELSE height)
  IN IF log2Size > 4 THEN log2Size - 4 ELSE 0

-----------------------------------------------------------------------------
(* Tiles *)

Log2BytesPerBlock(bytes) == (bytes \div 4) + ((bytes \div 2) \div 2^(bytes \div 4))

(* ((micro & ~15) << 1) + (micro & 15) *)
Spread(micro) == 2 * (micro - (micro % 16)) + (micro % 16)
Bit(n, b) == (n \div b) % 2

TiledOffset2DRow(y, width, log2) ==
  (y \div 32) * (width \div 32) * 2^(log2 + 7)
    + Spread(((y \div 2) % 4) * 8 * 2^log2) + Bit(y, 8) * 2^(6 + log2) + Bit(y, 1) * 16

TiledOffset2DColumn(x, y, log2, base) ==
  LET offset == base + (x \div 32) * 2^(log2 + 7) + Spread((x % 8) * 2^log2) IN
  (offset - (offset % 512)) * 8 + ((offset \div 64) % 8) * 256 + (offset % 64)
    + Bit(y, 16) * 2048 + ((2 * Bit(y, 8) + (x \div 8)) % 4) * 64

(* Where block x of row y goes, in blocks of the level. *)
TiledBlock(x, y, layout, bytes) ==
  LET log2 == Log2BytesPerBlock(bytes) IN
  TiledOffset2DColumn(x, y, log2, TiledOffset2DRow(y, layout.storedWidth, log2)) \div 2^log2

(* The loops of TileTextureLevel, and of UntileTextureLevel the other way.  *)
TiledBlocks(layout, bytes) ==
  [x \in 0..layout.width - 1, y \in 0..layout.height - 1 |-> TiledBlock(x, y, layout, bytes)]

(* TileTextureLevel gives up at the first block out of the destination, or  *)
(* of the source, whose rows have sourcePitch bytes.                       *)
Tiles(layout, blocks, bytes, sourcePitch, sourceSize) ==
  /\ sourcePitch >= layout.width * bytes
  /\ (layout.height - 1) * sourcePitch + layout.width * bytes <= sourceSize
  /\ \A p \in DOMAIN blocks :
       (blocks[p] + 1) * bytes <= AlignTo(layout.storedWidth * bytes * layout.storedHeight, 4096)

(* No two blocks of a level go to one place. *)
BlocksApart(blocks) == Cardinality({blocks[p] : p \in DOMAIN blocks}) = Cardinality(DOMAIN blocks)

-----------------------------------------------------------------------------
(* The texture *)

Cube(i) == i.map = "cube"
Faces == 0..5
Surfaces(i) == IF Cube(i) THEN Faces ELSE 0..i.levels - 1
TailBase(i) == IF i.packed THEN MipTailBaseLevel(i.width, i.height) ELSE i.levels

(* A texture so small that its base lies in the tail too. *)
InTail(i) == ~Cube(i) /\ TailBase(i) = 0

(* The picture a surface should have, whatever it comes from. *)
Fitting(i, s) == IF Cube(i) THEN s ELSE Halved(i.width, s)
AfterTexture == -1
Garbled == <<"garbled", 0>>
NoPicture == <<"none", 0>>
StockPictures(i) == [s \in Surfaces(i) \cup {AfterTexture} |-> <<"stock", Fitting(i, IF s < 0 THEN 0 ELSE s)>>]

(* The layout of each level of each texture, and of the one that streams in. *)
StreamedLevel == -2
Layouts ==
  [i \in Images |-> [s \in {StreamedLevel} \cup 0..i.levels - 1 |->
     IF s = StreamedLevel THEN Layout(2 * i.width, 2 * i.height, 0, i.format, 0)
     ELSE Layout(i.width, i.height, s, i.format, i.pitch)]]
Blocks ==
  [i \in Images |-> [s \in {StreamedLevel} \cup 0..i.levels - 1 |->
     TiledBlocks(Layouts[i][s], FormatInfo[i.format].bytes)]]
CanTile(i, s, sourcePitch, sourceSize) ==
  Tiles(Layouts[i][s], Blocks[i][s], FormatInfo[i.format].bytes, sourcePitch, sourceSize)
AllApart == \A i \in Images : \A s \in DOMAIN Blocks[i] : BlocksApart(Blocks[i][s])

-----------------------------------------------------------------------------
(* Memory *)

FaceSize(i) == TiledLevelSize(i.width, i.height, 0, i.format, i.pitch)
SurfaceSize(i, s) == TiledLevelSize(i.width, i.height, IF Cube(i) THEN 0 ELSE s, i.format, i.pitch)

(* Where the plugin writes a surface. *)
Destination(i, s) ==
  IF Cube(i) THEN s * FaceSize(i)
  ELSE IF s = 0 THEN 0
  ELSE FaceSize(i) + MipLevelOffset(i.width, i.height, s, i.format)

(* Where the GPU reads it: the levels lie one after the other, those of the *)
(* tail in the place of the first; the memory ends after the last byte.    *)
GpuAddress(i, s) ==
  IF s = AfterTexture THEN i.card
  ELSE IF Cube(i) THEN s * FaceSize(i)
  ELSE SumOver(0..(IF s < TailBase(i) THEN s ELSE TailBase(i)) - 1, LAMBDA l : SurfaceSize(i, l))
GpuEnd(i, s) ==
  IF s = AfterTexture THEN GpuAddress(i, s) + (IF i.card > 0 THEN 2^20 ELSE 0)
  ELSE GpuAddress(i, s) + SurfaceSize(i, s)

(* A surface is written: others that it runs into are garbled. *)
Written(i, shown, s, picture) ==
  LET from == Destination(i, s)
      to == from + SurfaceSize(i, s)
  IN [t \in DOMAIN shown |->
        IF GpuAddress(i, t) >= to \/ GpuEnd(i, t) <= from THEN shown[t]
        ELSE IF t = s /\ (Cube(i) \/ s < TailBase(i)) /\ GpuAddress(i, t) = from THEN picture
        ELSE Garbled]
-----------------------------------------------------------------------------
(* Files.  One that cannot be read, is shorter than a header or is no DDS   *)
(* has no data.                                                            *)

IsRead(f) == f.data > 0
Mips(f) == AtLeast1(f.mips)
Sized(f, i, scale) == f.width = scale * i.width /\ f.height = scale * i.height
LinearBytes(f, first, count) ==
  SumOver(first..first + count - 1, LAMBDA l : LinearLevelSize(f.width, f.height, l, f.format))
FaceBytes(i) == LinearLevelSize(i.width, i.height, 0, i.format)

(* The level of the file that is the base of the texture: a file for a      *)
(* streamed one begins with the streamed level.                            *)
FirstLevel(i, f) == IF i.streaming /\ ~Cube(i) /\ ~f.cube /\ Sized(f, i, 2) THEN 1 ELSE 0

(* The checks of Image_Replace. *)
Fits(i, f) ==
  /\ IsRead(f) /\ f.header /\ f.format = i.format
  /\ Cube(i) \/ ~f.cube
  /\ IF FirstLevel(i, f) = 1 THEN Mips(f) >= 2 ELSE Sized(f, i, 1)
  /\ Cube(i) /\ ~f.cube => f.data >= 6 * FaceBytes(i)

(* The levels to write: those of the tail are left alone, except the base:  *)
(* one that lies in the tail is written too, over the start of the tail.   *)
LevelsToWrite(i, f) ==
  Max({1, Min({i.levels, Mips(f) - FirstLevel(i, f), TailBase(i)})})

(* Mutant: the file is asked whether it is whole, the memory is not asked.  *)
Validate2DReplacementDataOfFile(i, f) ==
  f.data >= LinearBytes(f, 0, FirstLevel(i, f) + LevelsToWrite(i, f))
Validate2DReplacementData(i, f) ==
  /\ f.data >= LinearBytes(f, 0, FirstLevel(i, f) + LevelsToWrite(i, f))
  /\ i.card > 0 => SumOver(0..LevelsToWrite(i, f) - 1, LAMBDA l : SurfaceSize(i, l)) <= i.card

(* Level after level, up to one that cannot be tiled. *)
Image_Replace_2D(i, f, shown) ==
  LET first == FirstLevel(i, f)
      tiled(l) == CanTile(i, l, LinearRowPitch(f.width, first + l, f.format),
                          LinearLevelSize(f.width, f.height, first + l, f.format))
      levels == SelectSeq([n \in 1..LevelsToWrite(i, f) |-> n - 1], LAMBDA l : \A m \in 0..l : tiled(m))
  IN IF Validate2DReplacementData(i, f)
     THEN FoldLeft(LAMBDA now, l : Written(i, now, l, f.content[first + l]), shown, levels)
     ELSE shown

ValidateCubeReplacementData(i, f) ==
  f.data >= 6 * FaceBytes(i) /\ (i.card > 0 => 6 * FaceSize(i) <= i.card)

Image_Replace_Cube(i, f, shown) ==
  IF /\ ValidateCubeReplacementData(i, f)
     /\ CanTile(i, 0, LinearRowPitch(i.width, 0, i.format), FaceBytes(i))
  THEN FoldLeft(LAMBDA now, s : Written(i, now, s, f.content[s]), shown, [n \in 1..6 |-> n - 1])
  ELSE shown

Image_Replace(i, f, shown) ==
  IF f = NoFile THEN shown
  ELSE IF ~Fits(i, f) THEN shown
  ELSE IF Cube(i) THEN Image_Replace_Cube(i, f, shown)
  ELSE Image_Replace_2D(i, f, shown)

(* R_StreamLoadImageReplacement: the file has the level that is streamed.  *)
StreamLoadImageReplacement(i, f) ==
  IF f = NoFile THEN FALSE
  ELSE /\ ~Cube(i) /\ IsRead(f) /\ Sized(f, i, 2) /\ f.header /\ ~f.cube /\ Mips(f) >= 2
       /\ f.format = i.format
       /\ f.data >= LinearLevelSize(f.width, f.height, 0, f.format)
       /\ TiledLevelSize(f.width, f.height, 0, f.format, 0) = i.streamBytes
       /\ CanTile(i, StreamedLevel, LinearRowPitch(f.width, 0, f.format),
                  LinearLevelSize(f.width, f.height, 0, f.format))

-----------------------------------------------------------------------------
(* Dumps *)

FourCC == {"DXT1", "DXT2_3", "DXT4_5", "DXN"}
Named(i) == IF i.format \in FourCC THEN i.format ELSE "none"

(* What is read where the base level, or a face, is taken to be.            *)
ReadBack(surface) == IF InTail(image) THEN Garbled ELSE pixels[surface]

(* Image_Dump: the base level, or its faces.  The engine has all of them in *)
(* memory (baseSize).                                                      *)
Image_Dump ==
  [mod |-> "dump", header |-> TRUE, cube |-> Cube(image), width |-> image.width, height |-> image.height,
   format |-> Named(image), mips |-> 1, data |-> FaceBytes(image) * (IF Cube(image) THEN 6 ELSE 1),
   content |-> [s \in (IF Cube(image) THEN Faces ELSE {0}) |-> ReadBack(s)]]

(* Image_DumpStreamed gives up, and leaves the dump of the base, unless the *)
(* game's file of the level, of streamBytes, is as long as it is tiled.    *)
DumpsStreamed ==
  /\ image.streaming /\ ~Cube(image) /\ image.format \in FourCC
  /\ image.streamBytes >= TiledLevelSize(2 * image.width, 2 * image.height, 0, image.format, 0)

(* The game's own streamed level and the base. *)
Image_DumpStreamed ==
  [Image_Dump EXCEPT
     !.width = 2 * image.width, !.height = 2 * image.height, !.mips = 2,
     !.data = @ + LinearLevelSize(2 * image.width, 2 * image.height, 0, image.format),
     !.content = [s \in {0, 1} |-> IF s = 0 THEN <<"stock", 2 * image.width>> ELSE ReadBack(0)]]

(* What the loader's messages ask of a file: the texture's format and size, *)
(* and for one that streams twice its size and two levels, all there.      *)
AsAsked(i, f) ==
  /\ f.header /\ f.format = i.format /\ f.cube = Cube(i)
  /\ Sized(f, i, IF i.streaming THEN 2 ELSE 1) /\ (i.streaming => f.mips >= 2)
  /\ f.data = IF Cube(i) THEN 6 * FaceBytes(i) ELSE LinearBytes(f, 0, Mips(f))
  /\ i.card = 0 \/ \A s \in Surfaces(i) : GpuEnd(i, s) <= i.card
Shipped(i) == TiledLevelSize(2 * i.width, 2 * i.height, 0, i.format, 0) = i.streamBytes
Whole(f) == IF f = NoFile THEN NoFile ELSE IF AsAsked(image, f) THEN f ELSE NoFile

-----------------------------------------------------------------------------
(* Actions *)

ImageInit ==
  /\ image \in Images
  /\ linked = FALSE /\ pixels = StockPictures(image) /\ streamed = NoPicture
  /\ file = NoFile /\ sources = [zone |-> NoFile, stream |-> NoFile] /\ dump = NoFile

(* A zone with the texture is loaded.  Textures whose pixels come with the  *)
(* zone are replaced as they are linked, the others when the rest of the    *)
(* zone has been read (image_loader::OnAssetLink, OnDelayStreamLoad).      *)
LoadZone ==
  /\ ~linked
  /\ linked' = TRUE /\ streamed' = NoPicture /\ sources' = [zone |-> Whole(file), stream |-> NoFile]
  /\ pixels' = Image_Replace(image, file, StockPictures(image))
  /\ UNCHANGED <<image, file, dump>>

(* Another zone is loaded: all delayed textures are replaced again. *)
LoadOtherZone ==
  /\ linked /\ image.delayed
  /\ pixels' = Image_Replace(image, file, pixels)
  /\ sources' = [sources EXCEPT !.zone = Whole(file)]
  /\ UNCHANGED <<image, linked, streamed, file, dump>>

UnloadZone ==
  /\ linked
  /\ linked' = FALSE /\ pixels' = StockPictures(image) /\ streamed' = NoPicture
  /\ sources' = [zone |-> NoFile, stream |-> NoFile]
  /\ UNCHANGED <<image, file, dump>>

(* RunMod or ClearMods makes another file the texture's.  Nothing is loaded *)
(* again but the zone of the mod, when it has one.                         *)
SwitchMod(f, modZone) ==
  /\ f # file
  /\ file' = f
  /\ IF modZone /\ linked /\ image.delayed
     THEN pixels' = Image_Replace(image, f, pixels) /\ sources' = [sources EXCEPT !.zone = Whole(f)]
     ELSE UNCHANGED <<pixels, sources>>
  /\ UNCHANGED <<image, linked, streamed, dump>>

(* R_StreamLoadFileSynchronously_Hook: the mod's level, or the game's own.  *)
StreamFrom(f) ==
  /\ linked /\ image.streaming /\ streamed = NoPicture
  /\ streamed' = IF StreamLoadImageReplacement(image, f) THEN f.content[0]
                 ELSE <<"stock", 2 * image.width>>
  /\ sources' = [sources EXCEPT !.stream = Whole(file)]
  /\ UNCHANGED <<image, linked, pixels, file, dump>>

(* Mutant: the path is found when the zone is loaded, and kept.             *)
StreamOfZone == StreamFrom(sources.zone)
Stream == StreamFrom(file)
StreamOut ==
  /\ streamed # NoPicture
  /\ streamed' = NoPicture /\ sources' = [sources EXCEPT !.stream = NoFile]
  /\ UNCHANGED <<image, linked, pixels, file, dump>>

(* Cmd_imagedump: a file of the streamed level overwrites that of the base. *)
Cmd_imagedump ==
  /\ linked
  /\ dump' = IF DumpsStreamed THEN Image_DumpStreamed ELSE Image_Dump
  /\ UNCHANGED <<image, linked, pixels, streamed, file, sources>>

ImageNext ==
  \/ LoadZone \/ LoadOtherZone \/ UnloadZone \/ Stream \/ StreamOut \/ Cmd_imagedump
  \/ \E f \in Files \cup {NoFile, dump}, modZone \in BOOLEAN : SwitchMod(f, modZone)

-----------------------------------------------------------------------------
(* A replaced texture has, on every surface and on the level that streams   *)
(* in, a whole picture of that surface's size or face, and nothing is       *)
(* written behind its memory: whatever the file holds (xenos_texture.cpp,   *)
(* Validate2DReplacementData).  A texture whose base lies in the tail is    *)
(* the exception: a file of its size garbles the tail (image_loader.cpp:739), *)
(* and only the memory behind it is safe.                                  *)
PicturesFit ==
  /\ ~InTail(image) => \A s \in Surfaces(image) : pixels[s] # Garbled /\ pixels[s][2] = Fitting(image, s)
  /\ pixels[AfterTexture] = StockPictures(image)[AfterTexture]
  /\ streamed # NoPicture => streamed[2] = 2 * image.width
  /\ AllApart

(* A whole file is shown on every surface outside the tail that it has a     *)
(* picture for, from the moment its mod was active when a zone was loaded,  *)
(* and the level that streams in is that of the mod active then: while the  *)
(* mod stays the same a texture does not change to the game's own when the  *)
(* player comes closer, and after a change it shows each mod where it was   *)
(* read, the new one on its levels as soon as a zone is loaded.            *)
ShowsMod ==
  /\ sources.zone # NoFile => \A s \in Surfaces(image) :
       LET at == IF image.streaming THEN s + 1 ELSE s IN
       (at \in DOMAIN sources.zone.content /\ (Cube(image) \/ s < TailBase(image)))
         => pixels[s] = sources.zone.content[at]
  /\ sources.stream # NoFile /\ Shipped(image) => streamed = sources.stream.content[0]

(* A dump of a compressed texture is a file that replaces it, and shows the *)
(* base as it was dumped; one whose base lies in the tail is not dumped as  *)
(* it looks.                                                               *)
DumpReplaces ==
  dump # NoFile /\ image.format \in FourCC /\ ~InTail(image) =>
    LET again == Image_Replace(image, dump, StockPictures(image)) IN
    IF Cube(image) THEN \A s \in Faces : again[s] = dump.content[s]
    ELSE again[0] = dump.content[Mips(dump) - 1]

(* A picture goes the whole way, and only there: into the texture, within   *)
(* its memory, and out of it again.                                        *)
PicturesArrive == PicturesFit /\ ShowsMod /\ DumpReplaces
=============================================================================
