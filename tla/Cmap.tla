-------------------------------- MODULE Cmap --------------------------------
(***************************************************************************)
(* The character map of a TrueType font (drivers/font_ttf.c, from          *)
(* select_cmap_subtable to glyph_for_codepoint): which subtable is used    *)
(* and which glyph it gives a character.                                   *)
(*                                                                         *)
(* The table is the sequence of its 16-bit words; the format aligns what   *)
(* the code reads to words.  Offsets and sizes count bytes, as in the      *)
(* code.  Sums past 2^32 are left out.                                     *)
(***************************************************************************)
EXTENDS Integers, Sequences

CONSTANTS
    Cmaps,          \* cmap tables, with what they are meant to map
    Codepoints,     \* characters that are looked up
    None

VARIABLES
    cmap,           \* the table
    subtable,       \* None, or the offset and size of the chosen subtable
    selected,       \* select_cmap_subtable has run
    lookup          \* None, or the last character looked up and its glyph

vars == <<cmap, subtable, selected, lookup>>

Size == 2 * Len(cmap.words)
range_is_valid(size, offset, length) == offset <= size /\ length <= size - offset

read_u16(offset) == cmap.words[offset \div 2 + 1]
read_u32(offset) == 65536 * read_u16(offset) + read_u16(offset + 2)

-----------------------------------------------------------------------------
(* Choosing a subtable.                                                    *)

platform(i) == read_u16(4 + 8 * i)
encoding(i) == read_u16(4 + 8 * i + 2)
offset(i) == read_u32(4 + 8 * i + 4)
format(i) == read_u16(offset(i))
length(i) == IF format(i) = 4 THEN read_u16(offset(i) + 2) ELSE read_u32(offset(i) + 4)

(* Mutant: a subtable that reaches past the table is taken. *)
usable_Unchecked(i) ==
    /\ range_is_valid(Size, offset(i), 2)
    /\ \/ format(i) = 4 /\ range_is_valid(Size, offset(i), 4)
       \/ format(i) = 12 /\ range_is_valid(Size, offset(i), 16)
(* The record's subtable has a known format and lies in the table. *)
usable(i) ==
    /\ range_is_valid(Size, offset(i), 2)
    /\ \/ format(i) = 4 /\ range_is_valid(Size, offset(i), 4)
       \/ format(i) = 12 /\ range_is_valid(Size, offset(i), 16)
    /\ range_is_valid(Size, offset(i), length(i))

(* Mutant: any Microsoft encoding, the symbol one too, counts as Unicode. *)
unicode_Any(i) == platform(i) \in {0, 3}
unicode(i) == platform(i) = 0 \/ (platform(i) = 3 /\ encoding(i) \in {1, 10})

First(records) == CHOOSE i \in records : \A j \in records : i <= j

(* The first usable Unicode subtable, else the first usable one. *)
select_cmap_subtable ==
    /\ ~selected
    /\ selected' = TRUE
    /\ LET count == read_u16(2)
           fallback == {i \in 0 .. count - 1 : usable(i)}
           preferred == {i \in fallback : unicode(i)}
           chosen == First(IF preferred # {} THEN preferred ELSE fallback)
       IN  subtable' = IF /\ range_is_valid(Size, 0, 4)
                          /\ range_is_valid(Size, 4, 8 * count)
                          /\ fallback # {}
                       THEN [offset |-> offset(chosen), size |-> length(chosen)]
                       ELSE None
    /\ UNCHANGED <<cmap, lookup>>

-----------------------------------------------------------------------------
(* Looking up a character in the chosen subtable.                          *)

word(k) == read_u16(subtable.offset + k)
dword(k) == read_u32(subtable.offset + k)

(* Mutant: the range offset is counted from the start of the offsets. *)
glyph_offset_FromStart(id_range_offsets, i, range_offset, index) ==
    id_range_offsets + range_offset + 2 * index
(* The range offset of a segment counts from the word that holds it. *)
glyph_offset(id_range_offsets, i, range_offset, index) ==
    id_range_offsets + 2 * i + range_offset + 2 * index

cmap_format4_glyph(codepoint) ==
    LET seg_count == word(6) \div 2
        start_codes == 14 + 2 * seg_count + 2
        id_deltas == start_codes + 2 * seg_count
        id_range_offsets == id_deltas + 2 * seg_count
        end(i) == word(14 + 2 * i)
        start(i) == word(start_codes + 2 * i)
        stops == {i \in 0 .. seg_count - 1 : codepoint < start(i) \/ codepoint <= end(i)}
        i == First(stops)
        delta == word(id_deltas + 2 * i)
        range_offset == word(id_range_offsets + 2 * i)
        at == glyph_offset(id_range_offsets, i, range_offset, codepoint - start(i))
    IN  IF \/ codepoint > 65535 \/ subtable.size < 16
           \/ ~range_is_valid(subtable.size, id_range_offsets, 2 * seg_count)
           \/ stops = {} \/ codepoint < start(i)
        THEN 0
        ELSE IF range_offset = 0 THEN (codepoint + delta) % 65536
        ELSE IF ~range_is_valid(subtable.size, at, 2) \/ word(at) = 0 THEN 0
        ELSE (word(at) + delta) % 65536

(* Mutant: a glyph number that does not fit is kept. *)
narrow_Keeps(glyph) == glyph
narrow(glyph) == IF glyph <= 65535 THEN glyph ELSE 0

cmap_format12_glyph(codepoint) ==
    LET group_count == dword(12)
        start_char(i) == dword(16 + 12 * i)
        end_char(i) == dword(16 + 12 * i + 4)
        stops == {i \in 0 .. group_count - 1 : codepoint < start_char(i) \/ codepoint <= end_char(i)}
        i == First(stops)
        glyph == dword(16 + 12 * i + 8) + codepoint - start_char(i)
    IN  IF \/ subtable.size < 16
           \/ ~range_is_valid(subtable.size, 16, 12 * group_count)
           \/ stops = {} \/ codepoint < start_char(i)
        THEN 0
        ELSE narrow(glyph)

glyph_for_codepoint(codepoint) ==
    IF subtable.size < 2 THEN 0
    ELSE IF word(0) = 4 THEN cmap_format4_glyph(codepoint)
    ELSE IF word(0) = 12 THEN cmap_format12_glyph(codepoint)
    ELSE 0

LookUp(codepoint) ==
    /\ subtable # None
    /\ lookup' = [codepoint |-> codepoint, glyph |-> glyph_for_codepoint(codepoint)]
    /\ UNCHANGED <<cmap, subtable, selected>>

-----------------------------------------------------------------------------

Init ==
    /\ cmap \in Cmaps
    /\ subtable = None /\ selected = FALSE /\ lookup = None

Next == select_cmap_subtable \/ \E codepoint \in Codepoints : LookUp(codepoint)

Spec == Init /\ [][Next]_vars

-----------------------------------------------------------------------------
(* Properties.                                                             *)

(* The subtable in use lies in the table and is the one meant: the first   *)
(* Unicode subtable that is whole, another whole one only when there is    *)
(* none, none at all when no subtable is whole (select_cmap_subtable).     *)
SelectsSubtable ==
    selected => IF subtable = None THEN cmap.chosen = None
                ELSE /\ subtable.offset + subtable.size <= Size
                     /\ subtable.offset = cmap.chosen

(* A character gets the glyph its segment or group gives it, and glyph 0   *)
(* when it is in none; both formats, with the arithmetic modulo 2^16 of    *)
(* segments and the glyph lists of segments (glyph_for_codepoint).         *)
LooksUp == lookup # None => lookup.glyph = cmap.glyphs[lookup.codepoint]

(* A font's characters are looked up in the subtable meant for them, and   *)
(* each one gets its own glyph.                                            *)
CharactersFound == SelectsSubtable /\ LooksUp
=============================================================================
