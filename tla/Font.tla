-------------------------------- MODULE Font --------------------------------
(***************************************************************************)
(* Loading the terminal font from a boot module (drivers/font_ttf.c):      *)
(* finding the module, parsing the tables of the file, and drawing the     *)
(* cell of each character.  Looking a character up is module Cmap, reading *)
(* an outline module Glyph, drawing it module Raster; here they are a      *)
(* table of the glyphs each character visits and whether it can be drawn.  *)
(*                                                                         *)
(* `reads' holds the ranges of the file the last step read, as offset and  *)
(* length.  glyph_bounds and glyph_advance read with no check of their     *)
(* own: what parse_ttf accepted must be enough for them.                   *)
(***************************************************************************)
EXTENDS Integers, Sequences, FiniteSets

CONSTANTS
    XBKS_TTY_FONT_GLYPHS,       \* 256
    FirstAscii, LastAscii,      \* 0x21 and 0x7e
    Space,
    FAILED_ASCII,               \* size of failed_ascii, 96
    Modules                     \* the lists of boot modules

Codepoints == 0 .. XBKS_TTY_FONT_GLYPHS - 1
Fields == {"units_per_em", "index_to_loc_format", "number_of_hmetrics", "num_glyphs"}

(* A boot module: `named' when its string is system-font or its path ends  *)
(* in system.ttf; the directory of the file and the fields of its headers. *)
ASSUME ModulesAssumption ==
    \A list \in Modules : \A i \in 1 .. Len(list) :
        /\ list[i].size \in Nat
        /\ list[i].directory \in Seq([tag : STRING, offset : Nat, length : Nat])
        /\ list[i].fields \in [Fields -> Nat]
        /\ list[i].visits \in [Codepoints -> SUBSET Nat]
        /\ list[i].drawable \in SUBSET Codepoints

ASSUME FontSizes ==
    /\ XBKS_TTY_FONT_GLYPHS \in Nat /\ FirstAscii \in Nat /\ LastAscii \in Nat
    /\ FAILED_ASCII \in Nat /\ LastAscii - FirstAscii + 2 < FAILED_ASCII

VARIABLES
    modules, file,
    at,             \* "find", "scaler", "tables", "headers", "draw", "loaded", "builtin"
    found,          \* tables found so far, by tag
    codepoint,
    cells,          \* what each cell holds
    rendered,
    failed_ascii,
    reads

vars == <<modules, file, at, found, codepoint, cells, rendered, failed_ascii, reads>>
drawing == <<codepoint, cells, rendered, failed_ascii>>

range_is_valid(size, offset, length) == offset <= size /\ length <= size - offset

(* xbks_font_load_system_tty gives up; the terminal keeps its own font. *)
GiveUp == at' = "builtin" /\ UNCHANGED <<found, drawing>>

-----------------------------------------------------------------------------

Usable(module) == module.address /\ module.size # 0 /\ module.named

find_font_module ==
    /\ at = "find"
    /\ \/ /\ \A i \in 1 .. Len(modules) : ~Usable(modules[i])
          /\ GiveUp /\ UNCHANGED file
       \/ \E i \in 1 .. Len(modules) :
              /\ Usable(modules[i]) /\ \A j \in 1 .. i - 1 : ~Usable(modules[j])
              /\ file' = modules[i]
              /\ at' = "scaler"
              /\ UNCHANGED <<found, drawing>>
    /\ reads' = {} /\ UNCHANGED modules

parse_ttf ==
    /\ at = "scaler"
    /\ \/ /\ ~range_is_valid(file.size, 0, 12)
          /\ reads' = {} /\ GiveUp
       \/ /\ range_is_valid(file.size, 0, 12)
          /\ reads' = {<<0, 4>>}
          /\ \/ file.scaler /\ at' = "tables" /\ UNCHANGED <<found, drawing>>
             \/ ~file.scaler /\ GiveUp
    /\ UNCHANGED <<modules, file>>

-----------------------------------------------------------------------------
(* The directory.                                                          *)

Wanted == <<"cmap", "glyf", "head", "hhea", "hmtx", "loca", "maxp", "OS/2">>
Required == {"cmap", "glyf", "head", "hhea", "hmtx", "loca", "maxp"}
NoTable == [offset |-> 0, length |-> 0]

(* Mutant: a table needs only to start inside the file. *)
table_inside_Starts(record) == record.offset <= file.size
(* A table has to lie inside the file. *)
table_inside(record) == range_is_valid(file.size, record.offset, record.length)

DirectoryFits == range_is_valid(file.size, 12, 16 * Len(file.directory))
Record(i) == <<12 + 16 * (i - 1), 16>>

(* The first record with the tag decides. *)
get_table ==
    /\ at = "tables"
    /\ LET tag == Wanted[Len(found) + 1]
           Found(table) == /\ found' = Append(found, table)
                           /\ at' = IF Len(found) + 1 = Len(Wanted) THEN "headers" ELSE "tables"
                           /\ UNCHANGED drawing
           Absent == IF tag \in Required THEN GiveUp ELSE Found(NoTable)
       IN  \/ /\ ~DirectoryFits
              /\ reads' = {<<4, 2>>} /\ Absent
           \/ /\ DirectoryFits
              /\ \A i \in 1 .. Len(file.directory) : file.directory[i].tag # tag
              /\ reads' = {<<4, 2>>} \cup {Record(i) : i \in 1 .. Len(file.directory)} /\ Absent
           \/ /\ DirectoryFits
              /\ \E i \in 1 .. Len(file.directory) :
                     /\ file.directory[i].tag = tag /\ \A j \in 1 .. i - 1 : file.directory[j].tag # tag
                     /\ reads' = {<<4, 2>>} \cup {Record(j) : j \in 1 .. i}
                     /\ IF table_inside(file.directory[i])
                        THEN Found([offset |-> file.directory[i].offset, length |-> file.directory[i].length])
                        ELSE Absent
    /\ UNCHANGED <<modules, file>>

-----------------------------------------------------------------------------
(* The headers.                                                            *)

head == found[3]
hhea == found[4]
hmtx == found[5]
loca == found[6]
maxp == found[7]
os_2 == found[8]

HeadersFit == head.length >= 54 /\ hhea.length >= 36 /\ maxp.length >= 6
HeaderReads ==
    {<<head.offset + 18, 2>>, <<head.offset + 50, 2>>, <<maxp.offset + 4, 2>>}
        \cup {<<hhea.offset + i, 2>> : i \in {4, 6, 8, 34}}
        \cup (IF os_2.length >= 74 THEN {<<os_2.offset + i, 2>> : i \in {68, 70, 72}} ELSE {})

FieldsMakeSense(fields) ==
    /\ fields["units_per_em"] # 0 /\ fields["num_glyphs"] # 0 /\ fields["number_of_hmetrics"] # 0
    /\ fields["number_of_hmetrics"] <= fields["num_glyphs"]
    /\ fields["index_to_loc_format"] \in {0, 1}

loca_entry_size == IF file.fields["index_to_loc_format"] = 0 THEN 2 ELSE 4

(* Mutant: one entry per glyph, and none for the end of the last one. *)
loca_fits_PerGlyph == loca.length >= file.fields["num_glyphs"] * loca_entry_size
loca_fits == loca.length >= (file.fields["num_glyphs"] + 1) * loca_entry_size
hmtx_fits == hmtx.length >= file.fields["number_of_hmetrics"] * 4

(* select_cmap_subtable is module Cmap; build_font_metrics finds a line    *)
(* box for every font with an em (module Raster).                          *)
parse_headers ==
    /\ at = "headers"
    /\ \/ /\ ~HeadersFit
          /\ reads' = {} /\ GiveUp
       \/ /\ HeadersFit
          /\ reads' = HeaderReads
          /\ IF FieldsMakeSense(file.fields) /\ loca_fits /\ hmtx_fits /\ file.cmap
             THEN at' = "draw" /\ UNCHANGED <<found, drawing>>
             ELSE GiveUp
    /\ UNCHANGED <<modules, file>>

-----------------------------------------------------------------------------
(* The cells.                                                              *)

glyph_bounds(glyph) ==
    IF glyph < file.fields["num_glyphs"]
    THEN {<<loca.offset + glyph * loca_entry_size, 2 * loca_entry_size>>}
    ELSE {}

(* Mutant: a glyph past the metrics has the metric after the last one. *)
glyph_advance_Past(glyph) ==
    {<<hmtx.offset + 4 * (IF glyph < file.fields["number_of_hmetrics"] THEN glyph
                          ELSE file.fields["number_of_hmetrics"]), 2>>}
glyph_advance(glyph) ==
    {<<hmtx.offset + 4 * (IF glyph < file.fields["number_of_hmetrics"] THEN glyph
                          ELSE file.fields["number_of_hmetrics"] - 1), 2>>}

GlyphReads(glyph) == glyph_bounds(glyph) \cup glyph_advance(glyph)

(* Mutant: a space is looked up as well. *)
rasterize_glyph_Space(c) == file.visits[c] # {} /\ c \in file.drawable
(* A character the font has no glyph for visits none. *)
rasterize_glyph(c) == c = Space \/ (file.visits[c] # {} /\ c \in file.drawable)

(* Mutant: the list gives up two characters early. *)
listed_Short(c) == FirstAscii <= c /\ c <= LastAscii /\ Len(failed_ascii) + 3 < FAILED_ASCII
listed(c) == FirstAscii <= c /\ c <= LastAscii /\ Len(failed_ascii) + 1 < FAILED_ASCII

xbks_font_load_system_tty ==
    /\ at = "draw"
    /\ \/ /\ codepoint < XBKS_TTY_FONT_GLYPHS
          /\ codepoint' = codepoint + 1
          /\ reads' = IF codepoint = Space THEN {} ELSE UNION {GlyphReads(g) : g \in file.visits[codepoint]}
          /\ IF rasterize_glyph(codepoint)
             THEN /\ cells' = [cells EXCEPT ![codepoint] = "glyph"]
                  /\ rendered' = rendered + 1
                  /\ UNCHANGED failed_ascii
             ELSE /\ cells' = [cells EXCEPT ![codepoint] = "missing"]
                  /\ failed_ascii' = IF listed(codepoint) THEN Append(failed_ascii, codepoint) ELSE failed_ascii
                  /\ UNCHANGED rendered
          /\ UNCHANGED at
       \/ /\ codepoint = XBKS_TTY_FONT_GLYPHS
          /\ at' = "loaded"
          /\ reads' = {} /\ UNCHANGED drawing
    /\ UNCHANGED <<modules, file, found>>

Init ==
    /\ modules \in Modules
    /\ file = [size |-> 0]
    /\ at = "find"
    /\ found = <<>>
    /\ codepoint = 0 /\ cells = [c \in Codepoints |-> "unset"] /\ rendered = 0
    /\ failed_ascii = <<>>
    /\ reads = {}

Next == find_font_module \/ parse_ttf \/ get_table \/ parse_headers \/ xbks_font_load_system_tty

Spec == Init /\ [][Next]_vars /\ WF_vars(Next)

-----------------------------------------------------------------------------
(* Properties.                                                             *)

(* Nothing outside the file is read: neither by parse_ttf in the directory *)
(* and the table headers nor, once the font is accepted, by glyph_bounds   *)
(* and glyph_advance, which rely on the sizes parse_ttf checked.           *)
ReadsInside == \A r \in reads : r[1] + r[2] <= file.size

(* A loaded font has drawn all its cells, the space blank and the missing  *)
(* ones as a box, and counts those it rendered.                            *)
CellsDrawn ==
    /\ \A c \in Codepoints : cells[c] # "unset"
    /\ cells[Space] = "glyph"
    /\ rendered = Cardinality({c \in Codepoints : cells[c] = "glyph"})

(* failed_ascii names each missing character once, in order, and keeps     *)
(* room for its terminator (xbks_font_load_system_tty).                    *)
FailedListed ==
    /\ Len(failed_ascii) < FAILED_ASCII
    /\ \A i, j \in 1 .. Len(failed_ascii) : i < j => failed_ascii[i] < failed_ascii[j]
    /\ {failed_ascii[i] : i \in 1 .. Len(failed_ascii)}
           = {c \in Codepoints : FirstAscii <= c /\ c <= LastAscii /\ cells[c] = "missing"}

(* Loading comes to an end, with the built-in font or with every cell of   *)
(* the new one drawn and the missing characters listed for the log.        *)
LoadingEnds == <>(at = "builtin" \/ (at = "loaded" /\ CellsDrawn /\ FailedListed))
=============================================================================
