------------------------------ MODULE SmTable ------------------------------
(***************************************************************************)
(* What src/sm-control/sm_control.h promises of the modules of the running *)
(* system: each is found by an id of its own, which is not 0 and never     *)
(* stands for another module.  None is ever taken out.                     *)
(***************************************************************************)
EXTENDS Naturals, Sequences

CONSTANTS Ids, Modules

VARIABLE table  \* for each id in use, the module that is found by it

Init == table = << >>

Found(id) == {table[i].module : i \in {j \in DOMAIN table : table[j].id = id}}

\* sm_load and sm_register_existing, when they succeed.
Register(id, module) ==
    /\ id # 0
    /\ Found(id) = {}
    /\ table' = Append(table, [id |-> id, module |-> module])

Next == \E id \in Ids, module \in Modules : Register(id, module)

Spec == Init /\ [][Next]_table
=============================================================================
