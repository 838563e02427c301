----------------------------- MODULE MCRamdisk -----------------------------
(***************************************************************************)
(* Instances of Ramdisk for TLC: blocks of two bytes, paths of at most     *)
(* eight characters, every archive of up to three entries.                  *)
(***************************************************************************)
EXTENDS Ramdisk

Entry(names, typeflag, size, executable) ==
    [names |-> names, typeflag |-> typeflag, size |-> size, executable |-> executable]

(* A directory, a file in it twice, another whose path just fits, a file   *)
(* whose name has the directory's as a prefix, and one that is too long.   *)
MCEntries ==
    { Entry(<<<<"a">>>>, "5", 0, TRUE),
      Entry(<<<<"a">>, <<"b">>>>, "0", 3, TRUE),
      Entry(<<<<"a">>, <<"b">>>>, "0", 2, FALSE),
      Entry(<<<<"a">>, <<"b", "c">>>>, "0", 0, FALSE),
      Entry(<<<<"a", "b">>>>, "0", 1, FALSE),
      Entry(<<<<"b", "b", "b", "b">>, <<"c", "c", "c", "c">>>>, "0", 1, FALSE) }

(* How tar may write a path: as it is, below ".", or with a prefix. *)
MCHeader(entry, style) ==
    LET path == Flat(entry.names) \o (IF entry.typeflag = "5" THEN <<"/">> ELSE <<>>)
        deep == style = "prefix" /\ Len(entry.names) > 1
    IN  [prefix |-> IF deep THEN Head(entry.names) ELSE <<>>,
         name |-> IF deep THEN Flat(Tail(entry.names))
                  ELSE IF style = "dot" THEN <<".", "/">> \o path ELSE path,
         typeflag |-> entry.typeflag, size |-> entry.size, executable |-> entry.executable]

(* File data looks like a header, so that a walk that strays finds it. *)
MCData == [prefix |-> <<>>, name |-> <<"x">>, typeflag |-> "0", size |-> 0, executable |-> TRUE]
MCBlocks(entry, style) ==
    <<MCHeader(entry, style)>> \o [k \in 1 .. (entry.size + 1) \div 2 |-> MCData]

(* The image ends after the last block, after a block of zeros that more   *)
(* follows, or one byte short, which may cost the last entry.              *)
MCImage(entries, style, end) ==
    LET blocks == FlattenSeq([k \in DOMAIN entries |-> MCBlocks(entries[k], style)])
        last == entries[Len(entries)]
        lost == end = "short" /\ entries # <<>> /\ last.size % 2 = 0
    IN  [blocks |-> blocks \o (IF end = "zeros" THEN <<ZeroBlock, MCData>> ELSE <<>>),
         size |-> IF end = "zeros" THEN 2 * Len(blocks) + 4
                  ELSE IF end = "short" /\ blocks # <<>> THEN 2 * Len(blocks) - 1 ELSE 2 * Len(blocks),
         archived |-> IF lost THEN Front(entries) ELSE entries]

MCImages ==
    {MCImage(entries, style, end) :
        entries \in BoundedSeq(MCEntries, 3), style \in {"plain", "dot", "prefix"},
        end \in {"exact", "zeros", "short"}}

Module(called, present, image) == [called_ramdisk |-> called, present |-> present, image |-> image]
MCModuleLists ==
    LET font == Module(FALSE, TRUE, MCImage(<<>>, "plain", "zeros"))
    IN  {<<>>, <<font>>, <<font, font>>, <<Module(TRUE, FALSE, NoDisk)>>}
        \cup {<<font, Module(TRUE, TRUE, image)>> : image \in {i \in MCImages : i.size > 0}}

MCQueries ==
    { <<"/">>, <<".">>, <<"/", "a">>, <<".", "/", "a", "/">>, <<"a", "/", "b">>, <<"a", "/", "/", "b">>,
      <<"/", "/", ".", "/", "a">>, <<"b", "b", "b", "b">>, <<"x">> }
=============================================================================
