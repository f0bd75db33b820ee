----------------------------- MODULE MCSmControl -----------------------------
(* Model-checking instance of SmControl: a protected module under either of *)
(* two names, a library that refers to it, and files that the loader        *)
(* refuses, with ROM for three of them and data memory for two.             *)
EXTENDS SmControl, TLC

Section(name, type, flags, size, align) ==
    [name |-> <<name>>, type |-> type, flags |-> flags, size |-> size,
     align |-> align, entries |-> << >>, link |-> 0, info |-> 0]

Text(size) == Section("text", "PROGBITS", {"ALLOC", "EXECINSTR"}, size, 2)
Rodata     == Section("rodata", "PROGBITS", {"ALLOC"}, 3, 4)
Data       == Section("data", "NOBITS", {"ALLOC", "WRITE"}, 2, 4)

Symtab(entries) == [Section("symtab", "SYMTAB", {}, 9, 0) EXCEPT !.entries = entries]
Rela(entries) == [Section("rela", "RELA", {}, 9, 0) EXCEPT
                      !.entries = entries, !.info = 1, !.link = 3]

Sym(name, bind, type, shndx, value) ==
    [name |-> name, bind |-> bind, type |-> type, shndx |-> shndx, value |-> value]
Reloc(offset, sym, addend) ==
    [offset |-> offset, sym |-> sym, addend |-> addend, type |-> "R_MSP430_16"]

File(sections) == [valid |-> TRUE, sections |-> sections]

\* A protected module with a function that others may call.
ModuleFile == File(
    <<Text(5), Rodata, Data,
      Symtab(<<Sym(<<"a", "public_start">>, "GLOBAL", "NOTYPE", 1, 0),
               Sym(<<"a", "public_end">>, "GLOBAL", "NOTYPE", 1, 5),
               Sym(<<"f">>, "WEAK", "FUNC", 1, 2),
               Sym(<<"a", "secret_start">>, "GLOBAL", "NOTYPE", 3, 0),
               Sym(<<"a", "secret_end">>, "GLOBAL", "NOTYPE", 3, 2)>>)>>)

\* Code that refers to it, to the program and to itself; its last symbol
\* cannot be added.
LibraryFile == File(
    <<Text(6),
      Rela(<<Reloc(0, 2, 0), Reloc(2, 3, 1), Reloc(4, 1, 4)>>),
      Symtab(<<Sym(<<"text">>, "LOCAL", "SECTION", 1, 0),
               Sym(<<"f">>, "GLOBAL", "NOTYPE", 0, 0),
               Sym(<<"puts">>, "GLOBAL", "NOTYPE", 0, 0),
               Sym(<<"version">>, "GLOBAL", "OBJECT", SHN_ABS, 7),
               Sym(<<"common">>, "GLOBAL", "OBJECT", SHN_ABS + 1, 0)>>)>>)

\* The same module under another name.
OtherFile == File(
    <<Text(5), Rodata, Data,
      Symtab(<<Sym(<<"b", "public_start">>, "GLOBAL", "NOTYPE", 1, 0),
               Sym(<<"b", "public_end">>, "GLOBAL", "NOTYPE", 1, 5),
               Sym(<<"b", "secret_start">>, "GLOBAL", "NOTYPE", 3, 0),
               Sym(<<"b", "secret_end">>, "GLOBAL", "NOTYPE", 3, 2)>>)>>)

MCFiles ==
    {ModuleFile, OtherFile, LibraryFile,
     [valid |-> FALSE, sections |-> << >>],
     File(<<Data>>), File(<<Text(65530)>>),
     File(<<Text(4), Section("rel", "REL", {}, 8, 0)>>)}

Puts == <<[name |-> <<"puts">>, value |-> 100, owner |-> Null, is_section |-> FALSE]>>

\* A module linked into the program, which also shares the processor.
Linked == <<[public_start |-> 40, public_end |-> 50,
             secret_start |-> 400, secret_end |-> 410]>>

Slots == {502, 508}
RomStart == HEAP_END - 40
Symmetry == Permutations(ElfModules)
=============================================================================
