------------------------------ MODULE SymbolMap ------------------------------
(* What LINKER.gsyms promises its callers: a map from hashes to symbols that  *)
(* only grows. Inserting under a key in use ends the process; a lookup        *)
(* answers with what was inserted under its key, and with nothing otherwise.  *)
CONSTANTS
    Key,    \* hashes
    Value,  \* GlobalSymbols
    Null    \* no symbol

VARIABLES
    map,    \* the symbol under each key
    op,     \* the call under way, or idle, abort
    key,    \* its argument
    value,  \* its argument, for an insertion
    answer  \* of the last lookup

vars == <<map, op, key, value, answer>>

Init ==
    /\ map = [k \in Key |-> Null]
    /\ op = "idle" /\ key = Null /\ value = Null /\ answer = Null

Insert(k, v) ==
    /\ op = "idle"
    /\ op' = "insert" /\ key' = k /\ value' = v
    /\ UNCHANGED <<map, answer>>

InsertReturns ==
    /\ op = "insert" /\ map[key] = Null
    /\ map' = [map EXCEPT ![key] = value]
    /\ op' = "idle"
    /\ UNCHANGED <<key, value, answer>>

InsertAborts ==
    /\ op = "insert" /\ map[key] # Null
    /\ op' = "abort"
    /\ UNCHANGED <<map, key, value, answer>>

Lookup(k) ==
    /\ op = "idle"
    /\ op' = "lookup" /\ key' = k
    /\ UNCHANGED <<map, value, answer>>

LookupReturns ==
    /\ op = "lookup"
    /\ op' = "idle" /\ answer' = map[key]
    /\ UNCHANGED <<map, key, value>>

Next == \/ \E k \in Key, v \in Value : Insert(k, v)
        \/ \E k \in Key : Lookup(k)
        \/ InsertReturns \/ InsertAborts \/ LookupReturns

Spec == Init /\ [][Next]_vars
=============================================================================
