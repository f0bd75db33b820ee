------------------------------ MODULE SmControl ------------------------------
(***************************************************************************)
(* Modules of the running system: sm_load and the list of registered       *)
(* modules of src/sm-control/sm_control.c, and the clients that call       *)
(* elf_load and elf_unload of module Elf themselves.                       *)
(*                                                                         *)
(* The processor is external: sancus_enable refuses a module without code  *)
(* or data, one that overlaps an enabled module, and any module when its   *)
(* table is full; otherwise it gives the module the next id.               *)
(*                                                                         *)
(* Clients unload only what elf_load returned to them, and only when       *)
(* nothing refers to it any more.                                          *)
(***************************************************************************)
EXTENDS Elf

CONSTANTS
    Files,     \* files that clients load
    SmNames,   \* names they give to sm_load
    Existing,  \* layouts of the protected modules linked into the program
    MaxSms,    \* size of the processor's table of modules
    MaxLoads   \* bound: how many loads

\* Symbols linked into the program belong to no module, the table of the
\* processor has room for the linked modules, and data memory lies below program
\* memory.
ASSUME SmControlAssumption ==
    /\ \A f \in Files : WellFormed(f)
    /\ \A s \in ToSet(StaticSymbols) : s.value \in Nat /\ s.owner = Null
    /\ StaticSymbols \in Seq(ToSet(StaticSymbols)) /\ Existing \in Seq(ToSet(Existing))
    /\ MaxSms \in Nat /\ Len(Existing) <= MaxSms
    /\ MaxLoads \in Nat /\ MaxFailures \in Nat
    /\ Null \notin ElfModules /\ Null \notin DmemBases /\ DmemBases \subseteq Nat
    /\ \A d \in DmemBases, f \in Files : d + AllocSize(f.sections, FALSE) <= DataEndRom

VARIABLES
    sm_list,   \* the list from sm_head
    enabled,   \* external: the layouts of the enabled modules, by id
    smname,    \* sm_load's name, or Null: a client called elf_load
    held,      \* the modules that elf_load returned to clients
    orphans,   \* history: loaded by sm_load, but not registered
    loads      \* number of loads so far

smVars == <<sm_list, enabled, smname, held, orphans, loads>>
vars == <<elfVars, smVars>>

Init ==
    /\ ElfInit
    /\ sm_list = << >> /\ smname = Null /\ held = {} /\ orphans = {} /\ loads = 0
    /\ enabled = Existing

-----------------------------------------------------------------------------
(* The processor. *)

Disjoint(s1, e1, s2, e2) == e1 <= s2 \/ e2 <= s1

Apart(l, m) ==
    /\ Disjoint(l.public_start, l.public_end, m.public_start, m.public_end)
    /\ Disjoint(l.public_start, l.public_end, m.secret_start, m.secret_end)
    /\ Disjoint(l.secret_start, l.secret_end, m.public_start, m.public_end)
    /\ Disjoint(l.secret_start, l.secret_end, m.secret_start, m.secret_end)

sancus_enable(layout) ==
    /\ layout.public_start < layout.public_end
    /\ layout.secret_start < layout.secret_end
    /\ Len(enabled) < MaxSms
    /\ \A i \in DOMAIN enabled : Apart(layout, enabled[i])

-----------------------------------------------------------------------------
(* sm_load *)

Parts == {"public_start", "public_end", "secret_start", "secret_end"}

\* get_sm_symbol(name, which)
get_sm_symbol(name, which) == get_global_symbol_value(<<name, which>>)

\* Fault: the processor's answer is ignored.
RegisterAlways(name) == \A which \in Parts : get_sm_symbol(name, which) # {}

Layout(name) == [which \in Parts |->
                    (CHOOSE s \in get_sm_symbol(name, which) : TRUE).value]

\* register_sm when no allocation fails: all four symbols are there, not
\* null, and the processor protects what they delimit.
Registrable(name) ==
    /\ \A which \in Parts : \E s \in get_sm_symbol(name, which) : s.value # 0
    /\ sancus_enable(Layout(name))

\* Fault: a counter that does not know the modules linked into the program.
CountLoaded == Len(Keep(sm_list, {i \in DOMAIN sm_list : sm_list[i].em # Null})) + 1

\* The id that a module gets from the processor.
NewId == Len(enabled) + 1

Idle ==
    /\ pc' = "idle" /\ file' = Null /\ em' = Null /\ step' = FirstStep /\ smname' = Null

StartLoad(f, name) ==
    /\ loads < MaxLoads
    /\ elf_load(f)
    /\ smname' = name /\ loads' = loads + 1
    /\ UNCHANGED <<sm_list, enabled, held, orphans>>

sm_load == \E f \in Files, name \in SmNames : StartLoad(f, name)

\* elf_load failed, and so does sm_load.
LoadFails ==
    /\ pc = "returned" /\ smname # Null /\ em = Null
    /\ Idle
    /\ UNCHANGED <<heap, symbols, modules, failures, sm_list, enabled, held,
                   orphans, loads>>

\* register_sm refuses, and sm_load returns 0; the module stays loaded.
RegisterFails ==
    /\ pc = "returned" /\ smname # Null /\ em # Null
    /\ \/ ~Registrable(smname) /\ Allocates
       \/ OutOfMemory
    /\ orphans' = orphans \cup {em}
    /\ Idle
    /\ UNCHANGED <<heap, symbols, modules, sm_list, enabled, held, loads>>

\* register_sm appends the module to the list.  name is the one given to
\* sm_load (the copy of it, which may be missing, is only printed); from is
\* history: whose symbols gave the layout.
register_sm ==
    /\ pc = "returned" /\ smname # Null /\ em # Null
    /\ Registrable(smname)
    /\ enabled' = Append(enabled, Layout(smname))
    /\ sm_list' = Append(sm_list,
           [id |-> NewId, em |-> em, name |-> smname,
            from |-> {s.owner : s \in UNION {get_sm_symbol(smname, w) : w \in Parts}}])
    /\ Idle
    /\ UNCHANGED <<heap, symbols, modules, failures, held, orphans, loads>>

\* sm_register_existing, for a module that the processor knows.  That the module
\* is not in the list yet is up to the caller: the code does not look.
sm_register_existing ==
    /\ pc = "idle"
    /\ \E id \in DOMAIN Existing :
          /\ \A i \in DOMAIN sm_list : sm_list[i].id # id
          /\ \/ /\ Allocates
                /\ sm_list' = Append(sm_list,
                       [id |-> id, em |-> Null, name |-> Null, from |-> {Null}])
             \/ OutOfMemory /\ UNCHANGED sm_list
    /\ UNCHANGED <<heap, symbols, modules, pc, file, em, step, enabled, smname,
                   held, orphans, loads>>

\* The entry that sm_get_by_id, sm_get_elf_by_id and sm_call_id find.
find_sm_list(id) ==
    sm_list[CHOOSE i \in DOMAIN sm_list :
                /\ sm_list[i].id = id
                /\ \A j \in 1..(i - 1) : sm_list[j].id # id]

-----------------------------------------------------------------------------
(* Clients of elf.h. *)

ClientLoads == \E f \in Files : StartLoad(f, Null)

ClientLoaded ==
    /\ pc = "returned" /\ smname = Null
    /\ held' = held \cup ({em} \ {Null})
    /\ Idle
    /\ UNCHANGED <<heap, symbols, modules, failures, sm_list, enabled, orphans, loads>>

InUse(e) ==
    \/ \E other \in DOMAIN modules \ {e} :
           \E w \in modules[other].words : w.owner = e
    \/ \E i \in DOMAIN sm_list : e \in sm_list[i].from

ClientUnloads ==
    /\ pc = "idle"
    /\ \E e \in held : ~InUse(e) /\ elf_unload(e) /\ held' = held \ {e}
    /\ UNCHANGED <<heap, pc, file, em, step, failures, sm_list, enabled, smname,
                   orphans, loads>>

-----------------------------------------------------------------------------

Phase ==
    /\ load_sections \/ relocate_sections \/ update_global_symtab
    /\ UNCHANGED smVars

Next ==
    \/ sm_load \/ LoadFails \/ RegisterFails \/ register_sm
    \/ sm_register_existing
    \/ ClientLoads \/ ClientLoaded \/ ClientUnloads
    \/ Phase

Spec == Init /\ [][Next]_vars

-----------------------------------------------------------------------------
(* Properties. *)

\* Type invariant: the table has symbols of known owners or none, and the
\* heap of program memory is even and within its bounds.
TypeOK ==
    /\ heap \in DataEndRom..HEAP_END /\ heap % 2 = 0
    /\ pc \in {"idle", "sections", "relocate", "symtab", "returned", "undefined"}
    /\ DOMAIN modules \subseteq ElfModules
    /\ em \in ElfModules \cup {Null} /\ file \in Files \cup {Null}
    /\ step \in Nat \X Nat /\ failures \in 0..MaxFailures /\ loads \in 0..MaxLoads
    /\ smname \in SmNames \cup {Null}
    /\ \A i \in DOMAIN symbols :
           symbols[i].value \in Nat /\ symbols[i].is_section \in BOOLEAN
    /\ \A i \in DOMAIN sm_list : sm_list[i].id \in DOMAIN enabled

Registered == {sm_list[i].em : i \in DOMAIN sm_list} \ {Null}

Owners == <<held, Registered, orphans, {em} \ {Null}>>

\* Every ElfModule is answered for by exactly one: the client that loaded it,
\* the list of modules, the load in progress, or a registration that failed;
\* a load that fails leaves none behind.  Only they own symbols, so that an
\* ElfModule allocated at an address used before does not inherit any
\* (elf_load's error paths, elf_unload, remove_global_symbols).
Owned ==
    /\ DOMAIN modules = UNION Range(Owners)
    /\ \A i, j \in DOMAIN Owners : i # j => Owners[i] \cap Owners[j] = {}
    /\ \A i, j \in DOMAIN sm_list : i # j /\ sm_list[i].em # Null => sm_list[i].em # sm_list[j].em
    /\ \A i \in DOMAIN symbols : symbols[i].owner \in DOMAIN modules

\* The loaded sections of a module, where one starts and where it ends.
Loaded(e) == {i \in DOMAIN modules[e].addresses : modules[e].addresses[i] # 0}
Start(e, i) == modules[e].addresses[i]
End(e, i) == Start(e, i) + modules[e].sections[i].size

\* Two sections never overlap, of one module or of two; each is aligned as its
\* header asks; and code lies between the program and the end of ROM
\* (get_alloc_size against align_up, pmem_malloc).
NoOverlap ==
    /\ \A e, g \in DOMAIN modules : \A i \in Loaded(e), j \in Loaded(g) :
          e # g \/ i # j => Disjoint(Start(e, i), End(e, i), Start(g, j), End(g, j))
    /\ \A e \in DOMAIN modules : \A i \in Loaded(e) :
          LET sh == modules[e].sections[i]
          IN /\ sh.align # 0 => Start(e, i) % sh.align = 0
             /\ should_allocate_pmem(sh) => DataEndRom <= Start(e, i) /\ End(e, i) <= heap

\* What a name stands for: the symbol linked into the program, otherwise the
\* oldest of those loaded.
Meaning(name) ==
    LET all == StaticSymbols \o symbols
        defs == {i \in DOMAIN all : all[i].name = name /\ ~all[i].is_section}
    IN all[CHOOSE i \in defs : \A j \in defs : i <= j]

\* A word that a relocation wrote stays right: as long as the module with the
\* word is loaded, its name has the same meaning as when it was written,
\* whatever is loaded, fails or is unloaded meanwhile (get_global_symbol_value,
\* add_symbol, remove_global_symbols, the order of elf_load's phases).
RefsBound ==
    \A e \in DOMAIN modules : \A w \in modules[e].words :
        w.name # Null => w.value = (Meaning(w.name).value + w.addend) % Word

\* What the processor protects for a registered module is to the end what the
\* symbols of its name delimit, whatever is loaded, fails or is unloaded after
\* it; so no name is registered twice, though many files may be loaded under it
\* and all but the first find the same symbols (register_sm, get_sm_symbol,
\* add_symbol, remove_global_symbols, sancus_enable).
LayoutsKept ==
    \A i \in DOMAIN sm_list :
        sm_list[i].em # Null =>
            /\ \A which \in Parts :
                  \E s \in get_sm_symbol(sm_list[i].name, which) :
                      s.value = enabled[sm_list[i].id][which]
            /\ \A j \in DOMAIN sm_list \ {i} : sm_list[j].name # sm_list[i].name

\* The list implements the table: the id that sm_load returns finds the module
\* that it loaded, now and after every later load, and was in no use before,
\* the linked modules' included (append_sm_list, find_sm_list).
T == INSTANCE SmTable WITH
        Ids <- 1..MaxSms, Modules <- ElfModules \cup {Null},
        table <- [i \in DOMAIN sm_list |->
                     [id |-> sm_list[i].id,
                      module |-> find_sm_list(sm_list[i].id).em]]
TableSpec == T!Spec

-----------------------------------------------------------------------------
(* What the code says of itself and does not do. *)

\* sm_load says "Module successfully registered" of the module it has just
\* loaded: no address of the layout that it registered is that of another module
\* which sm_load loaded, registered or not (register_sm, sm_load's error path).
OwnLayout ==
    \A i \in DOMAIN sm_list :
        sm_list[i].em # Null =>
            sm_list[i].from \subseteq {sm_list[i].em, Null} \cup held
=============================================================================
