----------------------------- MODULE MCUserland -----------------------------
(***************************************************************************)
(* RAMDISKs for Userland.  The first has a shell, a directory, a file that *)
(* is not executable, one that is no ELF file, and commands with every     *)
(* segment of a small set, alone and before another; the second has no     *)
(* shell, and the third one that cannot be loaded.                         *)
(***************************************************************************)
EXTENDS Userland

Load(v, m, o, f) == [p_type |-> 1, p_vaddr |-> v, p_memsz |-> m, p_offset |-> o, p_filesz |-> f]
Note == [p_type |-> 4, p_vaddr |-> 0, p_memsz |-> 15, p_offset |-> 0, p_filesz |-> 9]

File(segments, entry) ==
    [directory |-> FALSE, executable |-> TRUE, elf64 |-> TRUE, size |-> 4, segments |-> segments, e_entry |-> entry]

Loads == {Load(v, m, o, f) : v \in {0, 3, 5, 13}, m \in {0, 1, 3, 4, 15}, o \in {0, 2, 15}, f \in {0, 1, 2, 15}}
Kept == {l \in Loads : l.p_offset = 15 => l.p_filesz \in {1, 15}}

Commands ==
    {File(<<l>>, e) : l \in Kept, e \in {3, 4}}
        \cup {File(<<Note, l, Load(4, 2, 1, 2)>>, 4) : l \in Kept}
        \cup {File(<<>>, 3), File(<<Note>>, 3),
              [File(<<Load(3, 2, 0, 2)>>, 3) EXCEPT !.directory = TRUE],
              [File(<<Load(3, 2, 0, 2)>>, 3) EXCEPT !.executable = FALSE],
              [File(<<Load(3, 2, 0, 2)>>, 3) EXCEPT !.elf64 = FALSE]}

(* A path is the file it names. *)
Shell == File(<<Load(2, 3, 0, 1), Load(3, 3, 2, 2)>>, 4)
MCXsh == Shell
Named(files) == [path \in files |-> path]
MCDisks == <<Named(Commands \cup {Shell}), Named({}), [path \in {Shell} |-> File(<<Note>>, 3)]>>
=============================================================================
