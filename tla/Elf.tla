--------------------------------- MODULE Elf ---------------------------------
(***************************************************************************)
(* The loader, src/loader/elf.c: elf_load as a sequence of phases, each of *)
(* which may fail and then undoes what the earlier ones did, and           *)
(* elf_unload.  What a phase does to one section, symbol or relocation is  *)
(* an operator below.  Module SmControl has the callers.                   *)
(*                                                                         *)
(* A file is a record: valid, the outcome of the header's checks, and its  *)
(* sections, whose entries are the symbols of a symbol table or the        *)
(* relocations of a relocation table, and whose link and info are indices  *)
(* of sections.  Files come from the tool chain and are well formed:       *)
(* indices lie in the file, and sizes add up to less than 2^16.  The       *)
(* contents of sections are left out, except for the words that            *)
(* relocations write.                                                      *)
(***************************************************************************)
EXTENDS Pmem, Symtab, Totals, SequencesExt, Functions

CONSTANTS
    ElfModules,  \* addresses of struct ElfModule, chosen by malloc
    DmemBases,   \* addresses malloc returns for data memory
    MaxFailures  \* bound: how many allocations fail

VARIABLES
    modules,   \* the allocated ElfModules: what they are, and where they lie
    pc,        \* "idle", a phase of elf_load, "returned", or "undefined"
    file, em,  \* locals of elf_load; em is also what it returns
    step,      \* where update_global_symtab is in the file
    failures

elfVars == <<heap, symbols, modules, pc, file, em, step, failures>>

\* update_global_symtab at <<i, 0>> looks at section i, at <<i, k>> at the k-th
\* symbol in it.
FirstStep == <<1, 0>>

ElfInit ==
    /\ PmemInit /\ SymtabInit
    /\ modules = << >>
    /\ pc = "idle" /\ file = Null /\ em = Null /\ step = FirstStep /\ failures = 0

Allocates == UNCHANGED failures
OutOfMemory == failures < MaxFailures /\ failures' = failures + 1

-----------------------------------------------------------------------------
(* Where the sections go. *)

should_allocate(sh) == "ALLOC" \in sh.flags /\ sh.size > 0

\* In program memory if executable or not writable.
should_allocate_pmem(sh) == "EXECINSTR" \in sh.flags \/ "WRITE" \notin sh.flags

align_up(ptr, alignment) ==
    IF alignment = 0 \/ ptr % alignment = 0 THEN ptr
    ELSE ptr + (alignment - (ptr % alignment))

\* Fault: no extra space to align the section.
AllocSizeExact(sh) == sh.size

get_alloc_size(sh) == sh.size + (IF sh.align <= 1 THEN 0 ELSE sh.align - 1)

\* What the sections take of the block for one kind of memory.
AllocSizes(sections, in_pmem) ==
    [i \in DOMAIN sections |->
        IF should_allocate(sections[i]) /\ should_allocate_pmem(sections[i]) = in_pmem
        THEN get_alloc_size(sections[i]) ELSE 0]

AllocSize(sections, in_pmem) == Total(AllocSizes(sections, in_pmem))

\* The load addresses, with 0 for the sections that are not loaded.
Addresses(sections, pmem_start, dmem_start) ==
    [i \in DOMAIN sections |->
        LET sh == sections[i]
            in_pmem == should_allocate_pmem(sh)
            next == (IF in_pmem THEN pmem_start ELSE dmem_start)
                    + Totals(AllocSizes(sections, in_pmem))[i - 1]
        IN IF should_allocate(sh) THEN align_up(next, sh.align) ELSE 0]

\* The data memory that malloc may return: what no module has.
FreeDmem(size) ==
    {d \in DmemBases : \A e \in DOMAIN modules :
        \/ modules[e].dmem = Null
        \/ d + size <= modules[e].dmem
        \/ modules[e].dmem + AllocSize(modules[e].sections, FALSE) <= d}

-----------------------------------------------------------------------------
(* Symbols and relocations. *)

SHN_UNDEF == 0
SHN_LORESERVE == 65280
SHN_ABS == 65521

\* get_local_symbol_value: at most one value.
get_local_symbol_value(sym, addresses) ==
    CASE sym.shndx = SHN_UNDEF -> {}
      [] sym.shndx = SHN_ABS -> {v \in {sym.value} : v < Word}
      [] sym.shndx \in 1..(SHN_LORESERVE - 1) -> {(addresses[sym.shndx] + sym.value) % Word}
      [] OTHER -> {}

should_add_symbol(sym) ==
    /\ sym.bind # "LOCAL"
    /\ sym.type \in {"FUNC", "OBJECT", "NOTYPE"}
    /\ sym.shndx # SHN_UNDEF

\* The symbol a relocation refers to, and what it stands for: symbols as they
\* are in the table, with an owner only if they are another module's.
Referred(sections, rela, re) == sections[rela.link].entries[re.sym]
Resolved(sections, rela, re, addresses) ==
    LET sym == Referred(sections, rela, re)
    IN IF sym.shndx = SHN_UNDEF
       THEN get_global_symbol_value(sym.name)
       ELSE {Symbol(Null, v, Null, FALSE) : v \in get_local_symbol_value(sym, addresses)}

IsRela(sh) == sh.type = "RELA"

\* relocate_sections: SHT_REL is refused; relocate_section: so are undefined
\* symbols and unknown types.
Relocatable(sections, addresses) ==
    \A sh \in ToSet(sections) :
        /\ sh.type # "REL"
        /\ IsRela(sh) => \A re \in ToSet(sh.entries) :
               /\ Resolved(sections, sh, re, addresses) # {}
               /\ re.type \in {"R_MSP430_16", "R_MSP430_16_BYTE"}

\* What the tool chain sees to in every file.
WellFormed(f) ==
    /\ f.sections \in Seq(ToSet(f.sections))
    /\ \A sh \in ToSet(f.sections) :
          /\ sh.size \in Nat /\ sh.align \in Nat
          /\ sh.entries \in Seq(ToSet(sh.entries))
          /\ sh.type = "SYMTAB" =>
                \A sym \in ToSet(sh.entries) :
                    /\ sym.value \in Nat /\ sym.shndx \in Nat
                    /\ sym.shndx < SHN_LORESERVE => sym.shndx \in {0} \cup DOMAIN f.sections
    /\ \A in_pmem \in BOOLEAN : AllocSize(f.sections, in_pmem) < Word

\* The words that relocations write: where, what, and whose symbol it is.  The
\* section may be one that is not loaded, with 0 for its address.
Written(sh, re, s, addresses) ==
    [at |-> (addresses[sh.info] + re.offset) % Word,
     value |-> (s.value + re.addend) % Word, addend |-> re.addend,
     name |-> s.name, owner |-> s.owner]

Words(sections, addresses) ==
    UNION {UNION {{Written(sh, re, s, addresses) : s \in Resolved(sections, sh, re, addresses)} :
                  re \in ToSet(sh.entries)} :
           sh \in {x \in ToSet(sections) : IsRela(x)}}

\* update_global_symtab, at p: whether there is a symbol to add, its name and
\* its value, and what it looks at next.
Addition(sections, addresses, p) ==
    IF p[2] = 0 THEN addresses[p[1]] # 0
    ELSE should_add_symbol(sections[p[1]].entries[p[2]])

AdditionName(sections, p) ==
    IF p[2] = 0 THEN sections[p[1]].name ELSE sections[p[1]].entries[p[2]].name

AdditionValues(sections, addresses, p) ==
    IF p[2] = 0 THEN {addresses[p[1]]}
    ELSE get_local_symbol_value(sections[p[1]].entries[p[2]], addresses)

NextStep(sections, p) ==
    LET sh == sections[p[1]]
    IN IF sh.type = "SYMTAB" /\ p[2] < Len(sh.entries) THEN <<p[1], p[2] + 1>>
       ELSE <<p[1] + 1, 0>>

-----------------------------------------------------------------------------
(* elf_load *)

Return(result) == pc' = "returned" /\ em' = result

elf_load(f) ==
    /\ pc = "idle"
    /\ file' = f /\ step' = FirstStep
    /\ \/ /\ ~f.valid
          /\ Return(Null) /\ UNCHANGED <<modules, failures>>
       \/ /\ f.valid /\ OutOfMemory
          /\ Return(Null) /\ UNCHANGED modules
       \/ /\ f.valid /\ Allocates
          /\ \E e \in ElfModules \ DOMAIN modules :
                /\ em' = e
                /\ modules' = [x \in DOMAIN modules \cup {e} |->
                       IF x = e THEN [pmem |-> 0, dmem |-> Null, sections |-> f.sections,
                                      addresses |-> << >>, words |-> {}]
                       ELSE modules[x]]
          /\ pc' = "sections"
    /\ UNCHANGED <<heap, symbols>>

\* load_sections failed: it freed the array, and elf_load frees em.
SectionsFail ==
    /\ modules' = Restrict(modules, DOMAIN modules \ {em})
    /\ Return(Null)

\* load_sections; program memory is not given back when there is no room for
\* the data.
load_sections ==
    LET sections == file.sections
        pmem_size == AllocSize(sections, TRUE)
        dmem_size == AllocSize(sections, FALSE)
    IN
    /\ pc = "sections"
    /\ \/ /\ OutOfMemory /\ SectionsFail /\ UNCHANGED heap
       \/ /\ Allocates /\ (pmem_size = 0 \/ Refused(pmem_size))
          /\ SectionsFail /\ UNCHANGED heap
       \/ /\ pmem_size > 0 /\ dmem_size > 0 /\ pmem_malloc(pmem_size)
          /\ \/ FreeDmem(dmem_size) = {} /\ Allocates
             \/ OutOfMemory
          /\ SectionsFail
       \/ /\ pmem_size > 0 /\ pmem_malloc(pmem_size) /\ Allocates
          /\ \E dmem \in IF dmem_size > 0 THEN FreeDmem(dmem_size) ELSE {Null} :
                modules' = [modules EXCEPT
                    ![em].pmem = heap, ![em].dmem = dmem,
                    ![em].addresses = Addresses(sections, heap, dmem)]
          /\ pc' = "relocate" /\ UNCHANGED em
    /\ UNCHANGED <<symbols, file, step>>

\* elf_unload(e)
elf_unload(e) ==
    /\ remove_global_symbols(e)
    /\ modules' = Restrict(modules, DOMAIN modules \ {e})

relocate_sections ==
    LET addresses == modules[em].addresses
    IN
    /\ pc = "relocate"
    /\ IF Relocatable(file.sections, addresses)
       THEN /\ modules' = [modules EXCEPT ![em].words = Words(file.sections, addresses)]
            /\ pc' = "symtab" /\ UNCHANGED <<symbols, em>>
       ELSE elf_unload(em) /\ Return(Null)
    /\ UNCHANGED <<heap, file, step, failures>>

\* One section or symbol of update_global_symtab.  A section whose symbol
\* cannot be added is passed over; any other symbol ends the update, and
\* elf_load returns em all the same.  When there is memory for the node and
\* not for its name, add_symbol frees the address of a link of the list and
\* leaves the node in the list, uninitialised: nothing is known from then on.
update_global_symtab ==
    LET sections == file.sections
        addresses == modules[em].addresses
        values == AdditionValues(sections, addresses, step)
        next == NextStep(sections, step)
    IN
    /\ pc = "symtab"
    /\ \/ /\ step[1] > Len(sections)
          /\ Return(em) /\ UNCHANGED <<symbols, step, failures>>
       \/ /\ step[1] <= Len(sections) /\ ~Addition(sections, addresses, step)
          /\ step' = next /\ UNCHANGED <<symbols, pc, em, failures>>
       \/ /\ step[1] <= Len(sections) /\ Addition(sections, addresses, step)
          /\ \/ /\ values = {}
                /\ Return(em) /\ UNCHANGED <<symbols, step, failures>>
             \/ /\ Allocates
                /\ \E v \in values :
                      add_symbol(Symbol(AdditionName(sections, step), v, em, step[2] = 0))
                /\ step' = next /\ UNCHANGED <<pc, em>>
             \/ /\ values # {} /\ OutOfMemory
                /\ IF step[2] = 0
                   THEN step' = next /\ UNCHANGED <<pc, em>>
                   ELSE Return(em) /\ UNCHANGED step
                /\ UNCHANGED symbols
             \/ /\ values # {} /\ OutOfMemory
                /\ pc' = "undefined" /\ UNCHANGED <<symbols, em, step>>
    /\ UNCHANGED <<heap, modules, file>>
=============================================================================
