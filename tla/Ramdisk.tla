------------------------------ MODULE Ramdisk ------------------------------
(***************************************************************************)
(* The tar ramdisk (fs/ramdisk.c) and a client that opens paths and lists  *)
(* directories the way the system calls of process.c do: find, then        *)
(* read_dir with a growing index, then find of what was listed.            *)
(*                                                                         *)
(* A path is a sequence of characters; "/" and "." are the ones the code   *)
(* tells apart.  An image is a number of bytes and the blocks in it; a     *)
(* block is a tar header or ZeroBlock.  The content of files is left out.  *)
(* For the properties an image also has the list of what was archived.     *)
(***************************************************************************)
EXTENDS Integers, Sequences, FiniteSets, SequencesExt, FiniteSetsExt

CONSTANTS
    TAR_BLOCK_SIZE,     \* bytes of a block (512)
    RAMDISK_PATH_SIZE,  \* bytes of a path buffer, terminator included (256)
    ZeroBlock,
    NoDisk, NoFile,
    ModuleLists,        \* what Limine may hand over: sequences of modules
    Queries             \* paths user code opens

ASSUME RamdiskSizes ==
    /\ TAR_BLOCK_SIZE \in Nat \ {0}
    /\ RAMDISK_PATH_SIZE \in Nat /\ RAMDISK_PATH_SIZE > 2

VARIABLES
    ramdisk,    \* the image, or NoDisk while there is none
    booted,     \* xbks_ramdisk_init has run
    file,       \* what the last find returned, or NoFile
    query,      \* the path it was given
    directory,  \* path kept in the descriptor of the open directory, or NoFile
    index,      \* its offset
    listed,     \* children read so far
    ended       \* read_dir has returned false

vars == <<ramdisk, booted, file, query, directory, index, listed, ended>>

-----------------------------------------------------------------------------
(* Paths.                                                                  *)

From(path, k) == SubSeq(path, k, Len(path))

(* Mutant: room for the terminator is forgotten. *)
copy_bytes_Full(capacity, src) == SubSeq(src, 1, Min({Len(src), capacity}))
(* Copies what fits and leaves room for the terminator. *)
copy_bytes(capacity, src) == SubSeq(src, 1, Min({Len(src), capacity - 1}))

SkipSlashes(path) == From(path, Min({k \in 1 .. Len(path) + 1 : k > Len(path) \/ path[k] # "/"}))
DropSlashes(path) == SubSeq(path, 1, Max({k \in 0 .. Len(path) : k = 0 \/ path[k] # "/"}))

RECURSIVE SkipDots(_)
SkipDots(path) ==
    IF path # <<>> /\ path[1] = "." /\ (Len(path) = 1 \/ path[2] = "/")
    THEN SkipDots(SkipSlashes(Tail(path)))
    ELSE path

normalize_path(path) == DropSlashes(copy_bytes(RAMDISK_PATH_SIZE, SkipDots(SkipSlashes(path))))

make_public_path(normalized) ==
    IF normalized = <<>> THEN <<"/">>
    ELSE <<"/">> \o copy_bytes(RAMDISK_PATH_SIZE - 1, normalized)

(* The first part of a path and its slash, when there is room for one. *)
JoinPrefix(prefix) ==
    LET combined == copy_bytes(RAMDISK_PATH_SIZE, prefix)
    IN  IF prefix # <<>> /\ Len(combined) + 1 < RAMDISK_PATH_SIZE THEN combined \o <<"/">> ELSE combined

(* Mutant: the second part may fill a whole buffer. *)
Join_Whole(prefix, name) == JoinPrefix(prefix) \o copy_bytes(RAMDISK_PATH_SIZE, name)
(* What tar_path, and read_dir for a child, put together in a buffer. *)
Join(prefix, name) ==
    JoinPrefix(prefix) \o copy_bytes(RAMDISK_PATH_SIZE - Len(JoinPrefix(prefix)), name)

(* Prefix and name of a header joined; <<>> when the header names nothing. *)
tar_path(header) == IF header.name = <<>> THEN <<>> ELSE normalize_path(Join(header.prefix, header.name))

-----------------------------------------------------------------------------
(* The walk over the headers of the image, which find_header,              *)
(* child_seen_before and xbks_ramdisk_read_dir all make.                   *)

(* Mutant: the padding of a file is not skipped. *)
align_to_tar_block_None(value) == value
align_to_tar_block(value) == ((value + TAR_BLOCK_SIZE - 1) \div TAR_BLOCK_SIZE) * TAR_BLOCK_SIZE

HeaderAt(offset) == ramdisk.blocks[offset \div TAR_BLOCK_SIZE + 1]
DataOffset(offset) == offset + TAR_BLOCK_SIZE

(* The walk stops at the end, at a block of zeros, and at a file that does *)
(* not fit in the image.                                                   *)
Readable(offset) ==
    /\ offset + TAR_BLOCK_SIZE <= ramdisk.size
    /\ HeaderAt(offset) # ZeroBlock
    /\ HeaderAt(offset).size <= ramdisk.size - DataOffset(offset)

RECURSIVE HeadersFrom(_)
HeadersFrom(offset) ==
    IF Readable(offset)
    THEN <<offset>> \o HeadersFrom(DataOffset(offset) + align_to_tar_block(HeaderAt(offset).size))
    ELSE <<>>
Headers == HeadersFrom(0)
PathAt(offset) == tar_path(HeaderAt(offset))

(* path lies below directory_path, at any depth. *)
Below(path, directory_path) ==
    \/ directory_path = <<>> /\ path # <<>>
    \/ /\ directory_path # <<>>
       /\ IsStrictPrefix(directory_path, path)
       /\ path[Len(directory_path) + 1] = "/"

File(path, data, size, is_directory, executable) ==
    [path |-> make_public_path(path), data |-> data, size |-> size,
     directory |-> is_directory, executable |-> executable]
NoData == 0

(* A normalised path has no trailing slash, so typeflag decides. *)
header_is_directory(header) == header.typeflag = "5"

fill_file(offset) ==
    LET header == HeaderAt(offset)
    IN  File(PathAt(offset), DataOffset(offset), header.size, header_is_directory(header), header.executable)

ImpliedDirectory(normalized) == File(normalized, NoData, 0, TRUE, FALSE)

(* The first header with the path; else a directory when it is a proper    *)
(* prefix of one.                                                          *)
find_header(normalized_path) ==
    LET headers == Headers
        exact == SelectInSeq(headers, LAMBDA offset : PathAt(offset) = normalized_path)
        directory_prefix == \E k \in DOMAIN headers : Below(PathAt(headers[k]), normalized_path)
    IN  IF exact # 0 THEN fill_file(headers[exact])
        ELSE IF directory_prefix THEN ImpliedDirectory(normalized_path)
        ELSE NoFile

(* The root is a directory of every image. *)
xbks_ramdisk_find(path) ==
    LET normalized == normalize_path(path)
    IN  IF ramdisk = NoDisk THEN NoFile
        ELSE IF normalized = <<>> THEN ImpliedDirectory(normalized)
        ELSE find_header(normalized)

-----------------------------------------------------------------------------
(* Reading a directory.                                                    *)

(* The name of the child of directory_path on the way to entry_path (<<>>  *)
(* when there is none), and whether the entry lies deeper.                 *)
Relative(entry_path, directory_path) ==
    IF ~Below(entry_path, directory_path) THEN <<>>
    ELSE IF directory_path = <<>> THEN entry_path
    ELSE From(entry_path, Len(directory_path) + 2)
ChildLength(relative) == Min({k \in 0 .. Len(relative) : k = Len(relative) \/ relative[k + 1] = "/"})
child_name_for_directory(entry_path, directory_path) ==
    LET relative == Relative(entry_path, directory_path)
    IN  copy_bytes(RAMDISK_PATH_SIZE, SubSeq(relative, 1, ChildLength(relative)))
(* Mutant: an implied directory is taken for the file below it. *)
Nested_Never(entry_path, directory_path) == FALSE
Nested(entry_path, directory_path) ==
    LET relative == Relative(entry_path, directory_path) IN ChildLength(relative) < Len(relative)

(* Mutant: earlier headers are not looked at. *)
child_seen_before_Never(headers, directory_path, child_name, current_offset) == FALSE
child_seen_before(headers, directory_path, child_name, current_offset) ==
    \E k \in DOMAIN headers :
        /\ headers[k] < current_offset
        /\ child_name_for_directory(PathAt(headers[k]), directory_path) = child_name

ChildPath(normalized, offset) == Join(normalized, child_name_for_directory(PathAt(offset), normalized))

(* The child that a header introduces. *)
ChildFile(normalized, offset) ==
    LET header == HeaderAt(offset)
        nested == Nested(PathAt(offset), normalized)
        is_directory == nested \/ header_is_directory(header)
    IN  File(ChildPath(normalized, offset),
             IF nested THEN NoData ELSE DataOffset(offset),
             IF nested THEN 0 ELSE header.size,
             is_directory,
             ~is_directory /\ header.executable)

(* The headers that introduce a child not seen before, in order; the one   *)
(* with the index asked for is returned.                                   *)
xbks_ramdisk_read_dir(path, i) ==
    LET normalized == normalize_path(path)
        headers == Headers
        Introduces(offset) ==
            LET child_name == child_name_for_directory(PathAt(offset), normalized)
            IN  child_name # <<>> /\ ~child_seen_before(headers, normalized, child_name, offset)
        children == SelectSeq(headers, Introduces)
    IN  IF ramdisk = NoDisk \/ i >= Len(children) THEN NoFile
        ELSE ChildFile(normalized, children[i + 1])

-----------------------------------------------------------------------------
(* The image is the first module called ramdisk, else the only module.     *)
(* Modules without an address or size are passed over.                     *)
ChosenModule(modules) ==
    LET called == SelectInSeq(modules, LAMBDA module : module.present /\ module.called_ramdisk)
    IN  IF called # 0 THEN modules[called].image
        ELSE IF Len(modules) = 1 /\ modules[1].present THEN modules[1].image
        ELSE NoDisk

Init ==
    /\ ramdisk = NoDisk /\ booted = FALSE
    /\ file = NoFile /\ query = <<>>
    /\ directory = NoFile /\ index = 0 /\ listed = <<>> /\ ended = FALSE

xbks_ramdisk_init ==
    /\ ~booted
    /\ booted' = TRUE
    /\ \E modules \in ModuleLists : ramdisk' = ChosenModule(modules)
    /\ UNCHANGED <<file, query, directory, index, listed, ended>>

(* open: a directory is kept with offset 0. *)
Open(path) ==
    /\ booted
    /\ query' = path
    /\ file' = xbks_ramdisk_find(path)
    /\ directory' = IF file' # NoFile /\ file'.directory THEN file'.path ELSE NoFile
    /\ index' = 0 /\ listed' = <<>> /\ ended' = FALSE
    /\ UNCHANGED <<ramdisk, booted>>

(* One round of the loop of getdents64: the next child, or the end. *)
ListNext ==
    /\ directory # NoFile /\ ~ended
    /\ LET child == xbks_ramdisk_read_dir(directory, index)
       IN  IF child = NoFile
           THEN ended' = TRUE /\ UNCHANGED <<index, listed>>
           ELSE index' = index + 1 /\ listed' = Append(listed, child) /\ UNCHANGED ended
    /\ UNCHANGED <<ramdisk, booted, file, query, directory>>

Next ==
    \/ xbks_ramdisk_init
    \/ \E path \in Queries \cup {listed[k].path : k \in DOMAIN listed} : Open(path)
    \/ ListNext

Spec == Init /\ [][Next]_vars

-----------------------------------------------------------------------------
(* Properties, against the tree of names that was archived: archived is a  *)
(* sequence of [names, typeflag, size, executable], names a sequence of    *)
(* path components.                                                        *)

Flat(names) == FlattenSeq([k \in 1 .. 2 * Len(names) - 1 |-> IF k % 2 = 1 THEN names[(k + 1) \div 2] ELSE <<"/">>])
Public(names) == <<"/">> \o Flat(names)

Archived == ToSet(ramdisk.archived)
Tree == {<<>>} \cup UNION {{SubSeq(entry.names, 1, k) : k \in 1 .. Len(entry.names)} : entry \in Archived}
Children(names) == {child \in Tree : Len(child) = Len(names) + 1 /\ IsPrefix(names, child)}

(* Every path, as it is written in its header, fits a buffer with two      *)
(* slashes more and the terminator.                                        *)
Fits == \A header \in ToSet(ramdisk.blocks) \ {ZeroBlock} :
            Len(header.prefix) + 2 + Len(header.name) < RAMDISK_PATH_SIZE

(* The components of a path, without empty ones and dots. *)
RECURSIVE Split(_)
Split(path) ==
    LET slash == SelectInSeq(path, LAMBDA char : char = "/")
    IN  IF slash = 0 THEN <<path>> ELSE <<SubSeq(path, 1, slash - 1)>> \o Split(From(path, slash + 1))
Names(path) == SelectSeq(Split(path), LAMBDA name : name \notin {<<>>, <<".">>})

(* Slashes and dots in front, slashes at the end, none in between. *)
Canonical(path) == \E k \in 0 .. Len(path) :
    /\ Names(SubSeq(path, 1, k)) = <<>>
    /\ DropSlashes(From(path, k + 1)) = Flat(Names(path))

(* No path leaves its buffer: not the prefix and the name of a header put   *)
(* together, not a directory and its child, and not the public path made of *)
(* them; and a directory's offset never passes the headers.                 *)
PathsFit ==
    LET Holds(path) == Len(path) < RAMDISK_PATH_SIZE
        headers == IF ramdisk = NoDisk THEN {} ELSE ToSet(Headers)
    IN  /\ \A offset \in headers : Holds(Join(HeaderAt(offset).prefix, HeaderAt(offset).name))
        /\ file # NoFile => Holds(file.path)
        /\ directory # NoFile =>
               /\ Holds(directory)
               /\ \A offset \in headers : Holds(ChildPath(normalize_path(directory), offset))
        /\ \A k \in DOMAIN listed : Holds(listed[k].path)
        /\ index = Len(listed) /\ index <= Cardinality(headers)

(* A find answers for the path it was asked: what it returns was archived,  *)
(* or is the directory of something archived; the first of several entries  *)
(* with one path is the one returned; and nothing archived is missed by a   *)
(* path without empty or dot components inside.                             *)
FindsWhatWasArchived ==
    ramdisk # NoDisk /\ query # <<>> /\ Fits =>
        LET names == Names(query)
            first == SelectInSeq(ramdisk.archived, LAMBDA entry : entry.names = names)
        IN  \/ /\ file = NoFile
               /\ Canonical(query) => names \notin Tree
            \/ /\ file # NoFile
               /\ names \in Tree /\ file.path = Public(names)
               /\ first = 0 => file.directory
               /\ first # 0 =>
                    /\ file.directory = (ramdisk.archived[first].typeflag = "5")
                    /\ file.size = ramdisk.archived[first].size
                    /\ file.executable = ramdisk.archived[first].executable

(* Reading a directory index by index gives each child once, whether it has *)
(* an entry, is only the prefix of others, or both, in any order; at the    *)
(* end nothing is missing.                                                  *)
ListsChildrenOnce ==
    directory # NoFile /\ ramdisk # NoDisk /\ Fits =>
        LET children == {Public(child) : child \in Children(Names(directory))}
        IN  /\ \A j, k \in DOMAIN listed : listed[j].path = listed[k].path => j = k
            /\ \A k \in DOMAIN listed : listed[k].path \in children
            /\ ended => Len(listed) = Cardinality(children)

(* What a listing says of a child is what opening the child finds: two      *)
(* walks over the archive that look at different headers agree.             *)
ListingAgreesWithOpen ==
    ramdisk # NoDisk /\ Fits =>
        \A k \in DOMAIN listed :
            LET found == xbks_ramdisk_find(listed[k].path)
            IN  /\ found # NoFile
                /\ found.directory = listed[k].directory
                /\ ~found.directory => found = listed[k]

=============================================================================
