------------------------------- MODULE Keypad -------------------------------
(***************************************************************************)
(* The keypad, src/dev/pmodkypd.c: pmodkypd_poll samples the keys column   *)
(* by column and reports the keys that differ from the previous sample.    *)
(* The keys move at any time, also between two columns; while one is being *)
(* read the hardware holds still.                                          *)
(***************************************************************************)
EXTENDS Naturals, FiniteSetsExt

CONSTANTS Rows, Columns  \* 4 and 4 in the code

ASSUME KeypadAssumption == Rows \in Nat \ {0} /\ Columns \in Nat \ {0}

NUM_KEYS == Rows * Columns
Keys == 0..(NUM_KEYS - 1)
Column(i) == {key \in Keys : key \div Rows = i}

VARIABLES
    down,               \* the keys that are held down
    current_key_state,  \* a key_state_t is the set of its bits
    new_key_state

keypadVars == <<down, current_key_state, new_key_state>>

KeypadInit == down = {} /\ current_key_state = {} /\ new_key_state = {}

\* A finger presses or releases a key.
Move(key) ==
    /\ down' = IF key \in down THEN down \ {key} ELSE down \cup {key}
    /\ UNCHANGED <<current_key_state, new_key_state>>

\* read_key_state, column i: the first column starts from nothing.
ReadColumn(i) ==
    /\ new_key_state' = (IF i = 0 THEN {} ELSE new_key_state) \cup (down \cap Column(i))
    /\ UNCHANGED <<down, current_key_state>>

\* Fault: the loop ends one key early.
ChangedButLast(from) ==
    {key \in from..(NUM_KEYS - 2) :
        (key \in current_key_state) # (key \in new_key_state)}

\* The keys that the loop of pmodkypd_poll, at from, has still to report.
Changed(from) ==
    {key \in from..(NUM_KEYS - 1) :
        (key \in current_key_state) # (key \in new_key_state)}

\* Fault: the keys are sampled again for the next comparison.
PolledAgain ==
    /\ current_key_state' = down
    /\ UNCHANGED <<down, new_key_state>>

\* The end of pmodkypd_poll.
Polled ==
    /\ current_key_state' = new_key_state
    /\ UNCHANGED <<down, new_key_state>>
=============================================================================
