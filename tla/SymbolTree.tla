------------------------------ MODULE SymbolTree ------------------------------
(* The binary search tree behind LINKER.gsyms (BinaryTree.c). A step is one   *)
(* iteration of the loop of binary_tree_insert or binary_tree_lookup. Nodes   *)
(* are never moved or freed, so a node is its place in the order of           *)
(* insertion, and 0 is the null pointer. Keys are compared and values only    *)
(* stored: what the symbols are, and whether two names share a key, is the    *)
(* caller's business.                                                         *)
EXTENDS Integers, Sequences

CONSTANTS
    Top,    \* keys are below Top (2^64 for hash_t)
    Value,  \* GlobalSymbols
    Null    \* no symbol

ASSUME TopAssumption == Top \in Nat
ASSUME NullAssumption == Null \notin Value

Key == 0..(Top - 1)

VARIABLES
    nodes,   \* every node, in the order of insertion
    span,    \* history: the keys that may be found at or below a node
    op,      \* the call under way, or idle, abort
    key,     \* its argument
    value,   \* its argument, for an insertion
    leaf,    \* the node it has come to
    answer   \* of the last lookup

vars == <<nodes, span, op, key, value, leaf, answer>>

Init ==
    /\ nodes = << >> /\ span = << >>
    /\ op = "idle" /\ key = Null /\ value = Null /\ leaf = 0 /\ answer = Null

Root == IF nodes = << >> THEN 0 ELSE 1

Side(i, k)  == IF nodes[i].key > k THEN "left" ELSE "right"
Child(i, k) == nodes[i].child[Side(i, k)]

Sides == {"left", "right"}

(* Mutant: the pointers of a new node are not cleared.                        *)
NodeUncleared == [key |-> key, value |-> value, child |-> [side \in Sides |-> leaf]]

Node == [key |-> key, value |-> value, child |-> [side \in Sides |-> 0]]

(* The keys that fit in at the left or right of node i.                       *)
Slot(i, side) == IF side = "left"
                 THEN [lo |-> span[i].lo, hi |-> nodes[i].key]
                 ELSE [lo |-> nodes[i].key, hi |-> span[i].hi]

Insert(k, v) ==
    /\ op = "idle"
    /\ op' = "insert" /\ key' = k /\ value' = v /\ leaf' = Root
    /\ UNCHANGED <<nodes, span, answer>>

InsertRoot ==
    /\ op = "insert" /\ leaf = 0
    /\ nodes' = <<Node>> /\ span' = <<[lo |-> -1, hi |-> Top]>>
    /\ op' = "idle"
    /\ UNCHANGED <<key, value, leaf, answer>>

(* Mutant: the new node becomes the left child in any case.                  *)
InsertLeafLeft ==
    /\ op = "insert" /\ leaf # 0 /\ nodes[leaf].key # key /\ Child(leaf, key) = 0
    /\ nodes' = Append([nodes EXCEPT ![leaf].child["left"] = Len(nodes) + 1], Node)
    /\ span' = Append(span, Slot(leaf, Side(leaf, key)))
    /\ op' = "idle"
    /\ UNCHANGED <<key, value, leaf, answer>>

(* Mutant: the link is to a node that is not there.                          *)
InsertLeafDangling ==
    /\ op = "insert" /\ leaf # 0 /\ nodes[leaf].key # key /\ Child(leaf, key) = 0
    /\ nodes' = Append([nodes EXCEPT ![leaf].child[Side(leaf, key)] = Len(nodes) + 2], Node)
    /\ span' = Append(span, Slot(leaf, Side(leaf, key)))
    /\ op' = "idle"
    /\ UNCHANGED <<key, value, leaf, answer>>

InsertLeaf ==
    /\ op = "insert" /\ leaf # 0 /\ nodes[leaf].key # key /\ Child(leaf, key) = 0
    /\ nodes' = Append([nodes EXCEPT ![leaf].child[Side(leaf, key)] = Len(nodes) + 1], Node)
    /\ span' = Append(span, Slot(leaf, Side(leaf, key)))
    /\ op' = "idle"
    /\ UNCHANGED <<key, value, leaf, answer>>

InsertDescends ==
    /\ op = "insert" /\ leaf # 0 /\ nodes[leaf].key # key /\ Child(leaf, key) # 0
    /\ leaf' = Child(leaf, key)
    /\ UNCHANGED <<nodes, span, op, key, value, answer>>

(* Mutant: a duplicate key is dropped in silence.                             *)
InsertIgnored ==
    /\ op = "insert" /\ leaf # 0 /\ nodes[leaf].key = key
    /\ op' = "idle"
    /\ UNCHANGED <<nodes, span, key, value, leaf, answer>>

InsertAborts ==
    /\ op = "insert" /\ leaf # 0 /\ nodes[leaf].key = key
    /\ op' = "abort"
    /\ UNCHANGED <<nodes, span, key, value, leaf, answer>>

Lookup(k) ==
    /\ op = "idle"
    /\ op' = "lookup" /\ key' = k /\ leaf' = Root
    /\ UNCHANGED <<nodes, span, value, answer>>

LookupFinds ==
    /\ op = "lookup" /\ leaf # 0 /\ nodes[leaf].key = key
    /\ op' = "idle" /\ answer' = nodes[leaf].value
    /\ UNCHANGED <<nodes, span, key, value, leaf>>

(* Mutant: the walk starts over instead of going down.                        *)
LookupRestarts ==
    /\ op = "lookup" /\ leaf # 0 /\ nodes[leaf].key # key
    /\ leaf' = Root
    /\ UNCHANGED <<nodes, span, op, key, value, answer>>

LookupDescends ==
    /\ op = "lookup" /\ leaf # 0 /\ nodes[leaf].key # key
    /\ leaf' = Child(leaf, key)
    /\ UNCHANGED <<nodes, span, op, key, value, answer>>

LookupFails ==
    /\ op = "lookup" /\ leaf = 0
    /\ op' = "idle" /\ answer' = Null
    /\ UNCHANGED <<nodes, span, key, value, leaf>>

Walk == \/ InsertRoot \/ InsertLeaf \/ InsertDescends \/ InsertAborts
        \/ LookupFinds \/ LookupDescends \/ LookupFails

Next == \/ \E k \in Key, v \in Value : Insert(k, v)
        \/ \E k \in Key : Lookup(k)
        \/ Walk

Spec == Init /\ [][Next]_vars

(* A call runs on its caller's thread until it returns or aborts.             *)
FairSpec == Spec /\ WF_vars(Walk)

------------------------------------------------------------------------------
(* Properties.                                                                *)

Places == DOMAIN nodes

TypeOK ==
    /\ nodes \in Seq([key : Key, value : Value, child : [Sides -> Nat]])
    /\ span \in Seq([lo : Int, hi : Int]) /\ Len(span) = Len(nodes)
    /\ \A i \in Places, side \in Sides : nodes[i].child[side] <= Len(nodes)
    /\ op \in {"idle", "insert", "lookup", "abort"}
    /\ key \in Key \cup {Null} /\ value \in Value \cup {Null}
    /\ leaf \in 0..Len(nodes) /\ answer \in Value \cup {Null}
    /\ op \in {"insert", "lookup"} => key \in Key
    /\ op = "insert" => value \in Value

Slots    == Places \X Sides
Empty(s) == nodes[s[1]].child[s[2]] = 0

(* k lies strictly between the ends of interval r.                            *)
Within(k, r) == r.lo < k /\ k < r.hi

(* Every node is below its parents on the side its key calls for.             *)
Ordered ==
    /\ Places # {} => span[1] = [lo |-> -1, hi |-> Top]
    /\ \A i \in Places : Within(nodes[i].key, span[i])
    /\ \A s \in Slots : ~Empty(s) =>
           LET child == nodes[s[1]].child[s[2]] IN
           child > s[1] /\ span[child] = Slot(s[1], s[2])

(* A free place is the only one its keys could go to, and none of them is in  *)
(* the tree.                                                                  *)
FreePlaces ==
    /\ \A s \in Slots : Empty(s) => \A i \in Places : ~Within(nodes[i].key, Slot(s[1], s[2]))
    /\ \A s, t \in Slots : Empty(s) /\ Empty(t) /\ s # t =>
           \A k \in Key : ~(Within(k, Slot(s[1], s[2])) /\ Within(k, Slot(t[1], t[2])))
    /\ \A i, j \in Places : nodes[i].key = nodes[j].key => i = j

(* A walk never leaves the part of the tree its key can be in.                *)
WalkSound ==
    /\ op \in {"insert", "lookup"} /\ leaf # 0 => Within(key, span[leaf])
    /\ op = "insert" /\ leaf = 0 => nodes = << >>
    /\ op = "lookup" /\ leaf = 0 => \A i \in Places : nodes[i].key # key

(* The tree is a search tree at all times, and every walk stays on the path   *)
(* to its key: what makes a lookup that reaches a null pointer conclusive.    *)
TreeInv == Ordered /\ FreePlaces /\ WalkSound

(* The map the tree stands for.                                               *)
Map == [k \in Key |->
          IF \E i \in Places : nodes[i].key = k
          THEN nodes[CHOOSE i \in Places : nodes[i].key = k].value
          ELSE Null]

M == INSTANCE SymbolMap WITH map <- Map

(* Whatever the order of insertions, callers see the insert-only map.         *)
ImplementsMap == M!Spec

(* No walk meets a node twice: within a call the place only grows, so a call  *)
(* takes at most one iteration per node.                                      *)
WalkDescends ==
    [][op # "idle" /\ op' = op => leaf' > leaf \/ leaf' = 0]_vars

(* Every insertion and lookup comes to an end.                                *)
CallsEnd == op \in {"insert", "lookup"} ~> op \in {"idle", "abort"}
=============================================================================
