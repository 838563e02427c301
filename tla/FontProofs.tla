----------------------------- MODULE FontProofs -----------------------------
(***************************************************************************)
(* Proof that loading a font reads nothing outside its file, whatever the  *)
(* file holds and however large it is.  The inductive invariant remembers  *)
(* what the checks of the parser established, down to the two tables that  *)
(* glyph_bounds and glyph_advance read unchecked.                          *)
(***************************************************************************)
EXTENDS Font, TLAPS

Parsing == {"scaler", "tables", "headers", "draw", "loaded"}
Tables == [offset : Nat, length : Nat]

FileOK ==
    /\ file.size \in Nat
    /\ file.directory \in Seq([tag : STRING, offset : Nat, length : Nat])
    /\ file.fields \in [Fields -> Nat]
    /\ file.visits \in [Codepoints -> SUBSET Nat]

(* The tables found lie inside the file, and all of them are there when    *)
(* the headers are read.                                                   *)
FoundOK ==
    /\ found \in Seq(Tables)
    /\ \A i \in 1 .. Len(found) : found[i].offset + found[i].length <= file.size
    /\ at = "tables" => Len(found) < 8 /\ 12 <= file.size
    /\ at \in {"headers", "draw"} => Len(found) = 8

Accepted == FieldsMakeSense(file.fields) /\ loca_fits /\ hmtx_fits

IInv ==
    /\ modules \in Modules
    /\ at \in Parsing \cup {"find", "builtin"}
    /\ at \in {"find", "scaler"} => found = <<>>
    /\ at \in Parsing => FileOK /\ FoundOK
    /\ at = "draw" => Accepted
    /\ codepoint \in Nat
    /\ ReadsInside

(* A table that was found has its bounds inside the file. *)
LEMMA FoundTable ==
    ASSUME FoundOK, NEW i \in 1 .. Len(found)
    PROVE  /\ found[i].offset \in Nat /\ found[i].length \in Nat
           /\ found[i].offset + found[i].length <= file.size
<1>1. found[i] \in Tables
    BY DEF FoundOK
<1> QED BY <1>1 DEF FoundOK, Tables

LEMMA InitIInv == Init => IInv
BY DEF Init, IInv, ReadsInside, Parsing

(* The module that is found is one of the list. *)
LEMMA FindIInv == IInv /\ find_font_module => IInv'
<1> SUFFICES ASSUME IInv, find_font_module PROVE IInv'
    OBVIOUS
<1>1. CASE at' = "builtin"
    BY <1>1 DEF find_font_module, GiveUp, IInv, drawing, ReadsInside, Parsing
<1>2. ASSUME NEW i \in 1 .. Len(modules), file' = modules[i], at' = "scaler", UNCHANGED <<found, drawing>>
      PROVE IInv'
  <2>1. FileOK'
      BY <1>2, ModulesAssumption DEF FileOK, find_font_module, IInv
  <2>2. FoundOK'
      BY <1>2 DEF FoundOK, find_font_module, IInv
  <2> QED BY <1>2, <2>1, <2>2 DEF find_font_module, IInv, drawing, ReadsInside, Parsing
<1> QED BY <1>1, <1>2 DEF find_font_module, GiveUp

LEMMA ScalerIInv == IInv /\ parse_ttf => IInv'
<1> SUFFICES ASSUME IInv, parse_ttf PROVE IInv'
    OBVIOUS
<1>1. FileOK /\ FoundOK /\ at = "scaler" /\ found = <<>> /\ found' = found /\ file' = file
    BY DEF IInv, parse_ttf, GiveUp, Parsing
<1>2. FileOK'
    BY <1>1 DEF FileOK
<1>3. ReadsInside'
    BY <1>1 DEF ReadsInside, parse_ttf, range_is_valid, GiveUp, FileOK
<1>4. at' \in {"tables", "builtin"} /\ (at' = "tables" => 12 <= file.size)
    BY <1>1 DEF parse_ttf, GiveUp, range_is_valid, FileOK
<1>5. at' = "tables" => FoundOK'
    BY <1>1, <1>4 DEF FoundOK
<1> QED BY <1>1, <1>2, <1>3, <1>4, <1>5 DEF IInv, parse_ttf, GiveUp, drawing, Parsing

(* Records up to the first with the tag lie in the directory. *)
LEMMA TableReads == ASSUME FileOK, FoundOK, at = "tables", get_table PROVE ReadsInside'
<1>1. file' = file /\ file.size \in Nat /\ 12 <= file.size /\ Len(file.directory) \in Nat
    BY DEF get_table, FileOK, FoundOK
<1>2. ASSUME DirectoryFits, NEW i \in 1 .. Len(file.directory) PROVE Record(i)[1] + Record(i)[2] <= file.size
    BY <1>1, <1>2 DEF DirectoryFits, range_is_valid, Record
<1>3. <<4, 2>>[1] + <<4, 2>>[2] <= file.size
    BY <1>1
<1>4. \A r \in reads' : r = <<4, 2>> \/ (DirectoryFits /\ \E i \in 1 .. Len(file.directory) : r = Record(i))
  <2>1. CASE reads' = {<<4, 2>>}
      BY <2>1
  <2>2. CASE DirectoryFits /\ reads' = {<<4, 2>>} \cup {Record(i) : i \in 1 .. Len(file.directory)}
      BY <2>2
  <2>3. ASSUME DirectoryFits, NEW i \in 1 .. Len(file.directory), reads' = {<<4, 2>>} \cup {Record(j) : j \in 1 .. i}
        PROVE  \A r \in reads' : r = <<4, 2>> \/ (\E j \in 1 .. Len(file.directory) : r = Record(j))
    <3>1. 1 .. i \subseteq 1 .. Len(file.directory)
        BY <1>1, <2>3
    <3> QED BY <2>3, <3>1
  <2> QED BY <2>1, <2>2, <2>3 DEF get_table
<1> QED BY <1>1, <1>2, <1>3, <1>4 DEF ReadsInside

LEMMA TablesIInv == IInv /\ get_table => IInv'
<1> SUFFICES ASSUME IInv, get_table PROVE IInv'
    OBVIOUS
<1>1. FileOK /\ FoundOK /\ at = "tables" /\ file' = file /\ modules' = modules
    BY DEF IInv, get_table, Parsing
<1>2. FileOK'
    BY <1>1 DEF FileOK
<1>3. ReadsInside'
    BY <1>1, TableReads
<1>4. CASE at' = "builtin" /\ UNCHANGED <<found, drawing>>
    BY <1>1, <1>3, <1>4 DEF IInv, drawing, Parsing
<1>5. ASSUME NEW table \in Tables, table.offset + table.length <= file.size, found' = Append(found, table),
             at' = (IF Len(found) + 1 = 8 THEN "headers" ELSE "tables"), UNCHANGED drawing
      PROVE IInv'
  <2>1. found' \in Seq(Tables) /\ Len(found') = Len(found) + 1
      BY <1>1, <1>5 DEF FoundOK
  <2>2. \A i \in 1 .. Len(found') : found'[i] = IF i <= Len(found) THEN found[i] ELSE table
      BY <1>1, <1>5, <2>1 DEF FoundOK
  <2>3. \A i \in 1 .. Len(found') : found'[i].offset + found'[i].length <= file'.size
      BY <1>1, <1>5, <2>1, <2>2 DEF FoundOK
  <2>4. FoundOK'
      BY <1>1, <1>5, <2>1, <2>3 DEF FoundOK
  <2> QED BY <1>1, <1>2, <1>3, <1>5, <2>4 DEF IInv, drawing, Parsing
<1>6. NoTable \in Tables /\ NoTable.offset + NoTable.length <= file.size
    BY <1>1 DEF NoTable, Tables, FileOK
<1>7. ASSUME NEW i \in 1 .. Len(file.directory), table_inside(file.directory[i])
      PROVE LET t == [offset |-> file.directory[i].offset, length |-> file.directory[i].length]
            IN  t \in Tables /\ t.offset + t.length <= file.size
  <2> DEFINE Records == [tag : STRING, offset : Nat, length : Nat]
  <2>0. file.directory \in Seq(Records)
      BY <1>1 DEF FileOK
  <2>1. file.directory[i].offset \in Nat /\ file.directory[i].length \in Nat
    <3> HIDE DEF Records
    <3>1. file.directory[i] \in Records
        BY <1>7, <2>0
    <3> QED BY <3>1 DEF Records
  <2>2. file.size \in Nat
      BY <1>1 DEF FileOK
  <2> QED BY <1>7, <2>1, <2>2 DEF table_inside, range_is_valid, Tables
<1>8. Len(Wanted) = 8
    BY DEF Wanted
<1> QED BY <1>4, <1>5, <1>6, <1>7, <1>8 DEF get_table, GiveUp

(* Each header is read inside its table. *)
LEMMA HeadersIInv == IInv /\ parse_headers => IInv'
<1> SUFFICES ASSUME IInv, parse_headers PROVE IInv'
    OBVIOUS
<1>1. FileOK /\ FoundOK /\ at = "headers" /\ Len(found) = 8 /\ file' = file /\ modules' = modules /\ found' = found
    BY DEF IInv, parse_headers, Parsing, FoundOK, GiveUp
<1>2. FileOK'
    BY <1>1 DEF FileOK
<1>3. \A i \in 1 .. 8 : found[i].offset \in Nat /\ found[i].length \in Nat
                          /\ found[i].offset + found[i].length <= file.size
    BY <1>1, FoundTable
<1>4. ReadsInside'
  <2>1. ASSUME HeadersFit, NEW r \in HeaderReads PROVE r[1] + r[2] <= file.size
    <3>1. /\ file.size \in Nat
          /\ head.offset \in Nat /\ head.length \in Nat /\ head.offset + head.length <= file.size
          /\ hhea.offset \in Nat /\ hhea.length \in Nat /\ hhea.offset + hhea.length <= file.size
          /\ maxp.offset \in Nat /\ maxp.length \in Nat /\ maxp.offset + maxp.length <= file.size
          /\ os_2.offset \in Nat /\ os_2.length \in Nat /\ os_2.offset + os_2.length <= file.size
        BY <1>1, <1>3 DEF head, hhea, maxp, os_2, FileOK
    <3>2. CASE r \in {<<head.offset + 18, 2>>, <<head.offset + 50, 2>>, <<maxp.offset + 4, 2>>}
        BY <2>1, <3>1, <3>2 DEF HeadersFit
    <3>3. CASE \E i \in {4, 6, 8, 34} : r = <<hhea.offset + i, 2>>
        BY <2>1, <3>1, <3>3 DEF HeadersFit
    <3>4. CASE os_2.length >= 74 /\ \E i \in {68, 70, 72} : r = <<os_2.offset + i, 2>>
        BY <3>1, <3>4
    <3> QED BY <2>1, <3>2, <3>3, <3>4 DEF HeaderReads
  <2> QED BY <1>1, <2>1 DEF ReadsInside, parse_headers
<1>5. at' = "draw" => FoundOK' /\ Accepted'
    BY <1>1 DEF parse_headers, GiveUp, FoundOK, Accepted, loca_fits, hmtx_fits, loca, hmtx, loca_entry_size
<1>6. at' \in {"draw", "builtin"} /\ codepoint' = codepoint
    BY DEF parse_headers, GiveUp, drawing
<1> QED BY <1>1, <1>2, <1>4, <1>5, <1>6 DEF IInv, Parsing

(* What parse_ttf accepted is enough for the reads of any glyph. *)
LEMMA GlyphReadsInside ==
    ASSUME FileOK, FoundOK, Accepted, Len(found) = 8, NEW glyph \in Nat, NEW r \in GlyphReads(glyph)
    PROVE  r[1] + r[2] <= file.size
<1>1. \A i \in 1 .. 8 : found[i].offset \in Nat /\ found[i].length \in Nat
                          /\ found[i].offset + found[i].length <= file.size
    BY FoundTable
<1>2. /\ file.size \in Nat /\ file.fields["num_glyphs"] \in Nat /\ file.fields["number_of_hmetrics"] \in Nat
      /\ file.fields["number_of_hmetrics"] # 0
    BY DEF FileOK, Accepted, FieldsMakeSense, Fields
<1>3. CASE r \in glyph_bounds(glyph)
  <2>1. CASE file.fields["index_to_loc_format"] = 0
      BY <1>1, <1>2, <1>3, <2>1 DEF glyph_bounds, Accepted, loca_fits, loca, loca_entry_size
  <2>2. CASE file.fields["index_to_loc_format"] # 0
      BY <1>1, <1>2, <1>3, <2>2 DEF glyph_bounds, Accepted, loca_fits, loca, loca_entry_size
  <2> QED BY <2>1, <2>2
<1>4. CASE r \in glyph_advance(glyph)
    BY <1>1, <1>2, <1>4 DEF glyph_advance, Accepted, hmtx_fits, hmtx
<1> QED BY <1>3, <1>4 DEF GlyphReads

LEMMA DrawIInv == IInv /\ xbks_font_load_system_tty => IInv'
<1> SUFFICES ASSUME IInv, xbks_font_load_system_tty PROVE IInv'
    OBVIOUS
<1>1. /\ FileOK /\ FoundOK /\ Accepted /\ at = "draw" /\ Len(found) = 8
      /\ file' = file /\ modules' = modules /\ found' = found
    BY DEF IInv, xbks_font_load_system_tty, Parsing, FoundOK
<1>2. FileOK' /\ Accepted'
    BY <1>1 DEF FileOK, Accepted, loca_fits, hmtx_fits, loca, hmtx, loca_entry_size
<1>3. at' \in {"draw", "loaded"} /\ codepoint' \in Nat
    BY <1>1 DEF IInv, xbks_font_load_system_tty, drawing
<1>4. FoundOK'
    BY <1>1, <1>3 DEF FoundOK
<1>5. ReadsInside'
  <2>1. ASSUME NEW r \in reads' PROVE \E g \in Nat : r \in GlyphReads(g)
    <3>1. codepoint < XBKS_TTY_FONT_GLYPHS /\ codepoint \in Codepoints
        BY <2>1, FontSizes DEF xbks_font_load_system_tty, IInv, Codepoints
    <3>2. r \in UNION {GlyphReads(g) : g \in file.visits[codepoint]}
        BY <2>1, <3>1 DEF xbks_font_load_system_tty
    <3>3. file.visits[codepoint] \in SUBSET Nat
        BY <1>1, <3>1 DEF FileOK
    <3> QED BY <3>2, <3>3
  <2> QED BY <1>1, <2>1, GlyphReadsInside DEF ReadsInside
<1> QED BY <1>1, <1>2, <1>3, <1>4, <1>5 DEF IInv, Parsing

LEMMA NextIInv == IInv /\ [Next]_vars => IInv'
<1>1. IInv /\ UNCHANGED vars => IInv'
    BY DEF IInv, vars, FileOK, FoundOK, Accepted, loca_fits, hmtx_fits, loca, hmtx, loca_entry_size, ReadsInside
<1> QED BY <1>1, FindIInv, ScalerIInv, TablesIInv, HeadersIInv, DrawIInv DEF Next

(* Nothing outside the file is read, by parse_ttf or by the functions      *)
(* that read the loca and hmtx tables of an accepted font.                 *)
THEOREM FontReadsInside == Spec => []ReadsInside
<1>1. IInv => ReadsInside
    BY DEF IInv
<1> QED BY <1>1, InitIInv, NextIInv, PTL DEF Spec
=============================================================================
