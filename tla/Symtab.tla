------------------------------- MODULE Symtab -------------------------------
(***************************************************************************)
(* The global symbol table, src/loader/global_symtab.c: the symbols linked *)
(* into the program, and a list of those of the modules loaded since, each *)
(* with the ElfModule that owns it.  A name is any value; the name and the *)
(* node are two allocations, which add_symbol makes in this order.         *)
(***************************************************************************)
EXTENDS Naturals, Sequences, Subsequence

CONSTANTS
    Null,
    StaticSymbols  \* static_symbols: a sequence of symbols without an owner

VARIABLE symbols   \* the list from dynamic_symbols_head

SymtabInit == symbols = << >>

Symbol(name, value, owner, is_section) ==
    [name |-> name, value |-> value, owner |-> owner, is_section |-> is_section]

\* The places in a table of the symbols with a name.  Sections are in the
\* list but cannot be referred to.
Named(table, name) ==
    {i \in DOMAIN table : table[i].name = name /\ ~table[i].is_section}

\* Fault: of several symbols with one name the last is found.
LastNamed(table, name) ==
    {table[i] : i \in {j \in Named(table, name) : \A k \in Named(table, name) : k <= j}}

\* The first of them, if any.
FirstNamed(table, name) ==
    {table[i] : i \in {j \in Named(table, name) : \A k \in Named(table, name) : j <= k}}

\* get_global_symbol_value(name): the symbol it finds, if any.
get_global_symbol_value(name) ==
    IF Named(StaticSymbols, name) # {} THEN FirstNamed(StaticSymbols, name)
    ELSE FirstNamed(symbols, name)

\* add_symbol, both allocations made: the node goes to the end of the list.
add_symbol(s) == symbols' = Append(symbols, s)

\* Fault: the walk stops at the first symbol it removed.
RemoveOnlyFirst(owner) ==
    symbols' = Keep(symbols, {i \in DOMAIN symbols :
                   symbols[i].owner = owner => \E k \in 1..(i - 1) : symbols[k].owner = owner})

remove_global_symbols(owner) ==
    symbols' = Keep(symbols, {i \in DOMAIN symbols : symbols[i].owner # owner})
=============================================================================
