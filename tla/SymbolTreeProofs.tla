--------------------------- MODULE SymbolTreeProofs ---------------------------
(* Proofs about the search tree of BinaryTree.c: it is a search tree at all   *)
(* times, and its callers cannot tell it from the map SymbolMap describes.    *)
EXTENDS SymbolTree, SequenceTheorems, TLAPS

Interval == [lo : Int, hi : Int]
TreeNode == [key : Key, value : Value, child : [Sides -> Nat]]

(* What linking a new node below another one changes, and what it does not.   *)
LEMMA LinkedTree ==
    ASSUME TypeOK, InsertLeaf
    PROVE  LET n == Len(nodes) IN
           /\ n \in Nat /\ Places = 1..n /\ Places' = 1..(n + 1) /\ leaf \in 1..n
           /\ nodes' \in Seq(TreeNode) /\ span' \in Seq(Interval)
           /\ Len(nodes') = n + 1 /\ Len(span') = n + 1
           /\ nodes'[n + 1] = Node /\ span'[n + 1] = Slot(leaf, Side(leaf, key))
           /\ \A i \in 1..n : /\ nodes'[i].key = nodes[i].key
                              /\ nodes'[i].value = nodes[i].value
                              /\ span'[i] = span[i]
           /\ \A i \in 1..n, side \in Sides :
                  nodes'[i].child[side] = IF i = leaf /\ side = Side(leaf, key)
                                    THEN n + 1 ELSE nodes[i].child[side]
  <1> DEFINE n == Len(nodes)
             sd == Side(leaf, key)
             linked == [nodes EXCEPT ![leaf].child[sd] = n + 1]
  <1>1. n \in Nat /\ Places = 1..n /\ leaf \in 1..n /\ nodes \in Seq(TreeNode)
    BY DEF TypeOK, InsertLeaf, Places, TreeNode
  <1>2. sd \in Sides
    BY DEF Side, Sides
  <1>3. \A i \in 1..n : nodes[i] \in TreeNode
    BY <1>1
  <1>4. [nodes[leaf] EXCEPT !.child[sd] = n + 1] \in TreeNode
    <2>1. nodes[leaf] \in TreeNode /\ n + 1 \in Nat
      BY <1>1, <1>3
    <2>2. [nodes[leaf].child EXCEPT ![sd] = n + 1] \in [Sides -> Nat]
      BY <2>1 DEF TreeNode
    <2> QED
      BY <2>1, <2>2 DEF TreeNode
  <1>5. linked \in Seq(TreeNode) /\ Len(linked) = n
    BY <1>1, <1>4, ExceptSeq
  <1>6. Node \in TreeNode
    BY DEF Node, TreeNode, TypeOK, InsertLeaf
  <1>7. nodes' = Append(linked, Node)
    BY DEF InsertLeaf
  <1>8. span \in Seq(Interval) /\ Len(span) = n
    BY DEF TypeOK, Interval
  <1>9. Slot(leaf, sd) \in Interval
    <2>1. span[leaf] \in Interval
      <3>1. \A i \in 1..Len(span) : span[i] \in Interval
        BY <1>8
      <3> QED
        BY <1>1, <1>8, <3>1
    <2>2. nodes[leaf].key \in Key /\ Key \subseteq Int
      BY <1>1, <1>3 DEF TreeNode, Key
    <2> QED
      BY <2>1, <2>2 DEF Slot, Interval
  <1>10. span' = Append(span, Slot(leaf, sd))
    BY DEF InsertLeaf
  <1>11. \A i \in 1..n : linked[i] = IF i = leaf THEN [nodes[leaf] EXCEPT !.child[sd] = n + 1]
                                     ELSE nodes[i]
    BY <1>1
  <1>12. /\ nodes' \in Seq(TreeNode) /\ Len(nodes') = n + 1 /\ nodes'[n + 1] = Node
         /\ \A i \in 1..n : nodes'[i] = linked[i]
    <2> HIDE DEF linked
    <2> QED
      BY <1>1, <1>5, <1>6, <1>7, AppendProperties
  <1>13. /\ span' \in Seq(Interval) /\ Len(span') = n + 1
         /\ span'[n + 1] = Slot(leaf, sd) /\ \A i \in 1..n : span'[i] = span[i]
    <2> DEFINE room == Slot(leaf, sd)
    <2>1. room \in Interval /\ span' = Append(span, room)
      BY <1>9, <1>10
    <2> HIDE DEF room, n
    <2>2. /\ span' \in Seq(Interval) /\ Len(span') = n + 1
          /\ span'[n + 1] = room /\ \A i \in 1..n : span'[i] = span[i]
      BY <1>8, <2>1, AppendProperties
    <2> QED
      BY <2>2 DEF room
  <1>14. \A i \in 1..n : nodes'[i].key = nodes[i].key /\ nodes'[i].value = nodes[i].value
    <2> SUFFICES ASSUME NEW i \in 1..n
                 PROVE  nodes'[i].key = nodes[i].key /\ nodes'[i].value = nodes[i].value
      OBVIOUS
    <2>1. nodes'[i] = IF i = leaf THEN [nodes[i] EXCEPT !.child[sd] = n + 1] ELSE nodes[i]
      BY <1>11, <1>12
    <2>2. nodes[i] \in TreeNode
      BY <1>1
    <2> QED
      BY <2>1, <2>2 DEF TreeNode
  <1>15. \A i \in 1..n, side \in Sides :
            nodes'[i].child[side] = IF i = leaf /\ side = sd THEN n + 1 ELSE nodes[i].child[side]
    <2> SUFFICES ASSUME NEW i \in 1..n, NEW side \in Sides
                 PROVE  nodes'[i].child[side] =
                           IF i = leaf /\ side = sd THEN n + 1 ELSE nodes[i].child[side]
      OBVIOUS
    <2>1. CASE i # leaf
      BY <2>1, <1>11, <1>12
    <2>2. CASE i = leaf
      <3>1. nodes'[i] = [nodes[leaf] EXCEPT !.child[sd] = n + 1]
        BY <2>2, <1>1, <1>11, <1>12
      <3>2. nodes[leaf] \in TreeNode
        BY <1>1, <1>3
      <3>3. nodes'[i].child = [nodes[leaf].child EXCEPT ![sd] = n + 1]
        BY <3>1, <3>2 DEF TreeNode
      <3>4. nodes[leaf].child \in [Sides -> Nat]
        BY <3>2 DEF TreeNode
      <3> QED
        BY <2>2, <3>3, <3>4, <1>2
    <2> QED
      BY <2>1, <2>2
  <1>16. Places' = 1..(n + 1)
    BY <1>12 DEF Places
  <1> QED
    BY <1>1, <1>12, <1>13, <1>14, <1>15, <1>16

LEMMA TreeData ==
    ASSUME TypeOK
    PROVE  /\ Len(nodes) \in Nat /\ Places = 1..Len(nodes)
           /\ \A i \in Places : /\ nodes[i] \in TreeNode /\ nodes[i].key \in Key
                               /\ nodes[i].value \in Value
                               /\ nodes[i].child \in [Sides -> 0..Len(nodes)]
                               /\ span[i] \in Interval /\ span[i].lo \in Int /\ span[i].hi \in Int
           /\ Key \subseteq Int
  <1>1. nodes \in Seq(TreeNode) /\ span \in Seq(Interval) /\ Len(span) = Len(nodes)
    BY DEF TypeOK, TreeNode, Interval
  <1>2. Len(nodes) \in Nat /\ Places = 1..Len(nodes)
    BY <1>1 DEF Places
  <1>3. ASSUME NEW i \in Places
        PROVE  nodes[i] \in TreeNode /\ span[i] \in Interval
    BY <1>1, <1>2
  <1>4. ASSUME NEW i \in Places
        PROVE  /\ nodes[i].key \in Key /\ nodes[i].value \in Value
               /\ nodes[i].child \in [Sides -> 0..Len(nodes)]
    <2>1. nodes[i].key \in Key /\ nodes[i].value \in Value /\ nodes[i].child \in [Sides -> Nat]
      BY <1>3 DEF TreeNode
    <2>2. \A side \in Sides : nodes[i].child[side] \in 0..Len(nodes)
      BY <1>2, <2>1 DEF TypeOK
    <2> QED
      BY <2>1, <2>2
  <1>5. Key \subseteq Int
    BY DEF Key
  <1> QED
    BY <1>2, <1>3, <1>4, <1>5 DEF Interval

LEMMA TypeInitial == Init => TypeOK
  BY DEF Init, TypeOK, Places

LEMMA TypeStep == TypeOK /\ [Next]_vars => TypeOK'
  <1> SUFFICES ASSUME TypeOK, [Next]_vars PROVE TypeOK'
    OBVIOUS
  <1>1. Root \in 0..Len(nodes)
    BY TreeData DEF Root, TypeOK
  <1>2. op \in {"insert", "lookup"} /\ leaf # 0 => leaf \in Places /\ Child(leaf, key) \in 0..Len(nodes)
    <2>1. Side(leaf, key) \in Sides
      BY DEF Side, Sides
    <2>2. leaf # 0 => leaf \in Places
      BY TreeData DEF TypeOK
    <2> QED
      BY <2>1, <2>2, TreeData DEF Child
  <1>3. ASSUME NEW k \in Key, NEW v \in Value, Insert(k, v) PROVE TypeOK'
    BY <1>1, <1>3 DEF Insert, TypeOK, Places
  <1>4. ASSUME NEW k \in Key, Lookup(k) PROVE TypeOK'
    BY <1>1, <1>4 DEF Lookup, TypeOK, Places
  <1>5. CASE InsertRoot
    <2>1. Node \in TreeNode /\ [lo |-> -1, hi |-> Top] \in Interval
      BY <1>5, TopAssumption DEF Node, TreeNode, Interval, InsertRoot, TypeOK
    <2>2. nodes' \in Seq(TreeNode) /\ span' \in Seq(Interval) /\ Len(nodes') = 1 /\ Len(span') = 1
      BY <1>5, <2>1 DEF InsertRoot
    <2>3. \A i \in Places', side \in Sides : nodes'[i].child[side] <= Len(nodes')
      BY <1>5, <2>2 DEF InsertRoot, Node, Places
    <2>4. leaf' \in 0..Len(nodes') /\ op' = "idle"
      BY <1>5, <2>2 DEF InsertRoot
    <2>5. /\ key' \in Key \cup {Null} /\ value' \in Value \cup {Null}
          /\ answer' \in Value \cup {Null}
      BY <1>5 DEF InsertRoot, TypeOK
    <2> QED
      BY <2>2, <2>3, <2>4, <2>5 DEF TypeOK, TreeNode, Interval
  <1>6. CASE InsertLeaf
    <2>1. \A i \in Places', side \in Sides : nodes'[i].child[side] <= Len(nodes')
      <3> SUFFICES ASSUME NEW i \in Places', NEW side \in Sides
                   PROVE  nodes'[i].child[side] <= Len(nodes')
        OBVIOUS
      <3>1. CASE i = Len(nodes) + 1
        BY <1>6, <3>1, LinkedTree DEF Node
      <3>2. CASE i # Len(nodes) + 1
        <4>1. i \in Places
          BY <1>6, <3>2, LinkedTree
        <4>2. nodes[i].child[side] \in 0..Len(nodes)
          BY <4>1, TreeData
        <4> QED
          BY <1>6, <4>1, <4>2, LinkedTree
      <3> QED
        BY <3>1, <3>2
    <2>2. leaf' \in 0..Len(nodes')
      BY <1>6, LinkedTree DEF InsertLeaf
    <2>3. nodes' \in Seq(TreeNode) /\ span' \in Seq(Interval) /\ Len(span') = Len(nodes')
      BY <1>6, LinkedTree
    <2> QED
      BY <1>6, <2>1, <2>2, <2>3 DEF InsertLeaf, TypeOK, TreeNode, Interval
  <1>7. CASE InsertDescends
    BY <1>2, <1>7 DEF InsertDescends, TypeOK, Places
  <1>8. CASE InsertAborts
    BY <1>8 DEF InsertAborts, TypeOK, Places
  <1>9. CASE LookupFinds
    <2>1. nodes[leaf].value \in Value
      BY <1>2, <1>9, TreeData DEF LookupFinds
    <2> QED
      BY <1>9, <2>1 DEF LookupFinds, TypeOK, Places
  <1>10. CASE LookupDescends
    BY <1>2, <1>10 DEF LookupDescends, TypeOK, Places
  <1>11. CASE LookupFails
    BY <1>11 DEF LookupFails, TypeOK, Places
  <1>12. CASE UNCHANGED vars
    BY <1>12 DEF vars, TypeOK, Places
  <1> QED
    BY <1>3, <1>4, <1>5, <1>6, <1>7, <1>8, <1>9, <1>10, <1>11, <1>12 DEF Next, Walk

(* Every variable keeps its type in every tree.                               *)
THEOREM TypeCorrect == Spec => []TypeOK
  BY TypeInitial, TypeStep, PTL DEF Spec

------------------------------------------------------------------------------
(* A key that fits in at a node and is not its key fits in on its side.       *)
LEMMA SideFits ==
    ASSUME TypeOK, NEW i \in Places, NEW k \in Key,
           Within(k, span[i]), nodes[i].key # k
    PROVE  Side(i, k) \in Sides /\ Within(k, Slot(i, Side(i, k)))
  BY TreeData DEF Within, Side, Sides, Slot

LEMMA InitialTree == Init => TreeInv
  BY DEF Init, TreeInv, Ordered, FreePlaces, WalkSound, Places, Slots

LEMMA StartOfWalk ==
    ASSUME TypeOK, TreeInv, NEW k \in Key, key' = k, leaf' = Root,
           UNCHANGED <<nodes, span>>
    PROVE  WalkSound'
  <1>1. Within(key', span'[leaf']) \/ leaf' = 0
    <2>1. CASE nodes = << >>
      BY <2>1 DEF Root
    <2>2. CASE nodes # << >>
      <3>1. Len(nodes) # 0
        BY <2>2 DEF TypeOK
      <3>2. 1 \in Places
        BY <3>1, TreeData
      <3>3. span[1] = [lo |-> -1, hi |-> Top]
        BY <3>2 DEF TreeInv, Ordered
      <3> QED
        BY <2>2, <3>3, TopAssumption DEF Root, Within, Key
    <2> QED
      BY <2>1, <2>2
  <1>2. leaf' = 0 => nodes' = << >>
    BY DEF Root
  <1> QED
    BY <1>1, <1>2 DEF WalkSound, Places

(* Going down one level keeps a walk on the path to its key.                  *)
LEMMA DownOneLevel ==
    ASSUME TypeOK, TreeInv, op \in {"insert", "lookup"}, leaf # 0, nodes[leaf].key # key
    PROVE  LET child == Child(leaf, key) IN
           /\ child # 0 => child > leaf /\ Within(key, span[child])
           /\ child = 0 => \A i \in Places : nodes[i].key # key
  <1>1. leaf \in Places /\ key \in Key
    BY TreeData DEF TypeOK
  <1>2. Side(leaf, key) \in Sides /\ Within(key, Slot(leaf, Side(leaf, key)))
    BY <1>1, SideFits DEF TreeInv, WalkSound
  <1>3. <<leaf, Side(leaf, key)>> \in Slots
    BY <1>1, <1>2 DEF Slots
  <1>4. CASE Child(leaf, key) # 0
    <2>1. ~Empty(<<leaf, Side(leaf, key)>>)
      BY <1>4 DEF Empty, Child
    <2>2. /\ Child(leaf, key) > leaf
          /\ span[Child(leaf, key)] = Slot(leaf, Side(leaf, key))
      BY <1>3, <2>1 DEF TreeInv, Ordered, Child
    <2> QED
      BY <1>2, <1>4, <2>2
  <1>5. CASE Child(leaf, key) = 0
    <2>1. Empty(<<leaf, Side(leaf, key)>>)
      BY <1>5 DEF Empty, Child
    <2>2. \A i \in Places : ~Within(nodes[i].key, Slot(leaf, Side(leaf, key)))
      BY <1>3, <2>1 DEF TreeInv, FreePlaces
    <2> QED
      BY <1>2, <1>5, <2>2
  <1> QED
    BY <1>4, <1>5

(* The free places after a node was linked: those there were, but for the one *)
(* it took, and the two below it, which share out what that one had room for. *)
LEMMA FreeAfterLink ==
    ASSUME TypeOK, TreeInv, InsertLeaf
    PROVE  LET n == Len(nodes)
               home == <<leaf, Side(leaf, key)>>
               room == Slot(leaf, Side(leaf, key)) IN
           /\ home \in Slots /\ Empty(home) /\ Within(key, room)
           /\ room.lo \in Int /\ room.hi \in Int
           /\ \A s \in Slots' : s \in Slots => Slot(s[1], s[2])' = Slot(s[1], s[2])
           /\ \A s \in Slots' : Empty(s)' =>
                 \/ s \in Slots /\ Empty(s) /\ s # home
                 \/ /\ s[1] = n + 1 /\ s[2] \in Sides
                    /\ Slot(s[1], s[2])' = IF s[2] = "left" THEN [lo |-> room.lo, hi |-> key]
                                           ELSE [lo |-> key, hi |-> room.hi]
  <1> DEFINE n == Len(nodes)
             home == <<leaf, Side(leaf, key)>>
             room == Slot(leaf, Side(leaf, key))
  <1>1. leaf \in Places /\ key \in Key /\ Within(key, span[leaf]) /\ nodes[leaf].key # key
    BY TreeData DEF TypeOK, InsertLeaf, TreeInv, WalkSound
  <1>2. home \in Slots /\ Empty(home) /\ Within(key, room)
    BY <1>1, SideFits DEF Slots, Empty, Child, InsertLeaf
  <1>3. room.lo \in Int /\ room.hi \in Int
    BY <1>1, TreeData DEF Slot
  <1>4. ASSUME NEW s \in Slots', s \in Slots
        PROVE  Slot(s[1], s[2])' = Slot(s[1], s[2])
    BY <1>4, LinkedTree DEF Slots, Slot
  <1>5. ASSUME NEW s \in Slots', Empty(s)'
        PROVE  \/ s \in Slots /\ Empty(s) /\ s # home
               \/ /\ s[1] = n + 1 /\ s[2] \in Sides
                  /\ Slot(s[1], s[2])' = IF s[2] = "left" THEN [lo |-> room.lo, hi |-> key]
                                         ELSE [lo |-> key, hi |-> room.hi]
    <2>1. PICK i \in Places', side \in Sides : s = <<i, side>>
      BY DEF Slots
    <2>2. CASE i = n + 1
      <3>1. nodes'[i].key = key /\ span'[i] = room
        BY <2>2, LinkedTree DEF Node
      <3> QED
        BY <2>1, <2>2, <3>1 DEF Slot
    <2>3. CASE i # n + 1
      <3>1. i \in Places
        BY <2>3, LinkedTree
      <3>2. nodes'[i].child[side] = IF i = leaf /\ side = Side(leaf, key)
                                    THEN n + 1 ELSE nodes[i].child[side]
        BY <3>1, LinkedTree
      <3>3. nodes'[i].child[side] = 0
        BY <1>5, <2>1 DEF Empty
      <3>4. n + 1 # 0
        BY TreeData
      <3>5. s # home /\ nodes[i].child[side] = 0
        BY <2>1, <3>2, <3>3, <3>4
      <3> QED
        BY <2>1, <3>1, <3>5 DEF Slots, Empty
    <2> QED
      BY <2>2, <2>3
  <1> QED
    BY <1>2, <1>3, <1>4, <1>5

LEMMA LinkKeepsOrder == TypeOK /\ TreeInv /\ InsertLeaf => Ordered'
  <1> SUFFICES ASSUME TypeOK, TreeInv, InsertLeaf PROVE Ordered'
    OBVIOUS
  <1> DEFINE n == Len(nodes)
             home == <<leaf, Side(leaf, key)>>
             room == Slot(leaf, Side(leaf, key))
  <1>1. n \in Nat /\ Places = 1..n /\ leaf \in 1..n
    BY LinkedTree
  <1>2. span'[1] = [lo |-> -1, hi |-> Top]
    BY <1>1, LinkedTree DEF TreeInv, Ordered
  <1>3. ASSUME NEW i \in Places' PROVE Within(nodes'[i].key, span'[i])
    <2>1. CASE i = n + 1
      BY <2>1, LinkedTree, FreeAfterLink DEF Node
    <2>2. CASE i # n + 1
      <3>1. i \in Places
        BY <2>2, LinkedTree
      <3> QED
        BY <3>1, LinkedTree DEF TreeInv, Ordered
    <2> QED
      BY <2>1, <2>2
  <1>4. ASSUME NEW i \in Places', NEW side \in Sides, nodes'[i].child[side] # 0
        PROVE  LET child == nodes'[i].child[side] IN
               child > i /\ span'[child] = Slot(i, side)'
    <2>1. i # n + 1
      BY <1>4, LinkedTree DEF Node
    <2>2. i \in Places
      BY <2>1, LinkedTree
    <2>3. Slot(i, side)' = Slot(i, side)
      <3>1. <<i, side>> \in Slots /\ <<i, side>> \in Slots'
        BY <2>2 DEF Slots
      <3> QED
        BY <3>1, FreeAfterLink
    <2>4. CASE <<i, side>> = home
      BY <1>1, <2>2, <2>3, <2>4, LinkedTree
    <2>5. CASE <<i, side>> # home
      <3>1. nodes'[i].child[side] = nodes[i].child[side]
        BY <2>2, <2>5, LinkedTree
      <3>2. /\ nodes[i].child[side] > i
            /\ span[nodes[i].child[side]] = Slot(i, side)
        <4>1. <<i, side>> \in Slots /\ ~Empty(<<i, side>>)
          BY <1>4, <2>2, <3>1 DEF Slots, Empty
        <4> QED
          BY <4>1 DEF TreeInv, Ordered
      <3>3. nodes[i].child[side] \in 1..n
        BY <1>1, <2>2, <3>2, TreeData
      <3> QED
        BY <2>3, <3>1, <3>2, <3>3, LinkedTree
    <2> QED
      BY <2>4, <2>5
  <1> QED
    BY <1>2, <1>3, <1>4 DEF Ordered, Slots, Empty

LEMMA LinkKeepsFreePlaces == TypeOK /\ TreeInv /\ InsertLeaf => FreePlaces'
  <1> SUFFICES ASSUME TypeOK, TreeInv, InsertLeaf PROVE FreePlaces'
    OBVIOUS
  <1> DEFINE n == Len(nodes)
             home == <<leaf, Side(leaf, key)>>
             room == Slot(leaf, Side(leaf, key))
             Below(s) == /\ s[1] = n + 1 /\ s[2] \in Sides
                         /\ Slot(s[1], s[2])' = IF s[2] = "left" THEN [lo |-> room.lo, hi |-> key]
                                                ELSE [lo |-> key, hi |-> room.hi]
             Older(s) == /\ s \in Slots /\ Empty(s) /\ s # home
                         /\ Slot(s[1], s[2])' = Slot(s[1], s[2])
  <1>1. \A s \in Slots' : Empty(s)' => Below(s) \/ Older(s)
    BY FreeAfterLink
  <1>2. /\ home \in Slots /\ Empty(home) /\ Within(key, room)
        /\ room.lo \in Int /\ room.hi \in Int /\ key \in Int
        /\ room = Slot(home[1], home[2])
    <2>1. key \in Int
      BY TreeData DEF TypeOK, InsertLeaf
    <2> QED
      BY <2>1, FreeAfterLink
  <1>3. /\ \A i \in Places : ~Within(nodes[i].key, room)
        /\ \A i \in Places : nodes[i].key \in Int /\ nodes[i].key # key
    <2>1. \A i \in Places : ~Within(nodes[i].key, room)
      BY <1>2 DEF TreeInv, FreePlaces
    <2> QED
      BY <1>2, <2>1, TreeData
  <1>4. \A i \in Places' : \/ i \in Places /\ nodes'[i].key = nodes[i].key
                           \/ i = n + 1 /\ nodes'[i].key = key
    <2> SUFFICES ASSUME NEW i \in Places'
                 PROVE  \/ i \in Places /\ nodes'[i].key = nodes[i].key
                        \/ i = n + 1 /\ nodes'[i].key = key
      OBVIOUS
    <2>1. CASE i = n + 1
      BY <2>1, LinkedTree DEF Node
    <2>2. CASE i # n + 1
      BY <2>2, LinkedTree
    <2> QED
      BY <2>1, <2>2
  <1>5. ASSUME NEW s \in Slots', Below(s), NEW k \in Int, Within(k, Slot(s[1], s[2])')
        PROVE  Within(k, room) /\ k # key /\ (s[2] = "left" <=> k < key)
    BY <1>2, <1>5 DEF Within
  <1>6. ASSUME NEW s \in Slots', Older(s), NEW k \in Key, Within(k, Slot(s[1], s[2])')
        PROVE  ~Within(k, room)
    BY <1>2, <1>6 DEF TreeInv, FreePlaces
  <1> HIDE DEF room, home
  <1>7. ASSUME NEW s \in Slots', Empty(s)', NEW i \in Places'
        PROVE  ~Within(nodes'[i].key, Slot(s[1], s[2])')
    <2>1. CASE Below(s)
      BY <2>1, <1>2, <1>3, <1>4, <1>5
    <2>2. CASE Older(s)
      <3>1. key \in Key
        BY DEF TypeOK, InsertLeaf
      <3>2. i \in Places => ~Within(nodes[i].key, Slot(s[1], s[2]))
        BY <2>2 DEF TreeInv, FreePlaces
      <3> QED
        BY <2>2, <1>2, <1>4, <1>6, <3>1, <3>2
    <2> QED
      BY <1>1, <1>7, <2>1, <2>2
  <1>8. ASSUME NEW s \in Slots', NEW t \in Slots', Empty(s)', Empty(t)', s # t, NEW k \in Key,
               Within(k, Slot(s[1], s[2])'), Within(k, Slot(t[1], t[2])')
        PROVE  FALSE
    <2>1. k \in Int
      BY TreeData
    <2>2. CASE Older(s) /\ Older(t)
      BY <1>8, <2>2 DEF TreeInv, FreePlaces
    <2>3. CASE (Older(s) /\ Below(t)) \/ (Below(s) /\ Older(t))
      BY <1>5, <1>6, <1>8, <2>1, <2>3
    <2>4. CASE Below(s) /\ Below(t)
      <3>1. s[2] = t[2]
        BY <1>5, <1>8, <2>1, <2>4 DEF Sides
      <3> QED
        BY <1>8, <2>4, <3>1 DEF Slots
    <2> QED
      BY <1>1, <1>8, <2>2, <2>3, <2>4
  <1>9. ASSUME NEW i \in Places', NEW j \in Places', nodes'[i].key = nodes'[j].key
        PROVE  i = j
    BY <1>3, <1>4, <1>9 DEF TreeInv, FreePlaces
  <1> QED
    BY <1>7, <1>8, <1>9 DEF FreePlaces

LEMMA TreeStep == TypeOK /\ TreeInv /\ [Next]_vars => TreeInv'
  <1> SUFFICES ASSUME TypeOK, TreeInv, [Next]_vars PROVE TreeInv'
    OBVIOUS
  <1>1. UNCHANGED <<nodes, span>> => Ordered' /\ FreePlaces'
    <2> SUFFICES ASSUME UNCHANGED <<nodes, span>> PROVE Ordered' /\ FreePlaces'
      OBVIOUS
    <2>1. Places' = Places /\ Slots' = Slots /\ \A s : Empty(s)' <=> Empty(s)
      BY DEF Places, Slots, Empty
    <2>2. \A i, d : Slot(i, d)' = Slot(i, d)
      BY DEF Slot
    <2>3. Ordered'
      BY <2>1, <2>2 DEF TreeInv, Ordered
    <2>4. FreePlaces'
      BY <2>1, <2>2 DEF TreeInv, FreePlaces
    <2> QED
      BY <2>3, <2>4
  <1>2. ASSUME NEW k \in Key, NEW v \in Value, Insert(k, v) PROVE TreeInv'
    BY <1>1, <1>2, StartOfWalk DEF Insert, TreeInv
  <1>3. ASSUME NEW k \in Key, Lookup(k) PROVE TreeInv'
    BY <1>1, <1>3, StartOfWalk DEF Lookup, TreeInv
  <1>4. CASE InsertRoot
    <2>1. Places' = {1} /\ nodes'[1] = Node /\ span'[1] = [lo |-> -1, hi |-> Top]
      BY <1>4 DEF InsertRoot, Places
    <2>2. key \in Key
      BY <1>4 DEF InsertRoot, TypeOK
    <2>3. Ordered'
      BY <2>1, <2>2, TopAssumption DEF Ordered, Within, Key, Node, Slots, Empty
    <2>4. FreePlaces'
      <3>1. ASSUME NEW s \in Slots'
            PROVE  /\ s[1] = 1 /\ s[2] \in Sides
                   /\ Slot(s[1], s[2])' = IF s[2] = "left" THEN [lo |-> -1, hi |-> key]
                                          ELSE [lo |-> key, hi |-> Top]
        BY <2>1 DEF Slots, Slot, Node
      <3>2. \A s \in Slots', i \in Places' : ~Within(nodes'[i].key, Slot(s[1], s[2])')
        BY <2>1, <2>2, <3>1, TopAssumption DEF Within, Key, Node
      <3>3. \A s, t \in Slots' : s # t => s[2] # t[2]
        BY <3>1 DEF Slots
      <3>4. \A s, t \in Slots' : s # t => \A k \in Key :
                ~(Within(k, Slot(s[1], s[2])') /\ Within(k, Slot(t[1], t[2])'))
        BY <2>2, <3>1, <3>3, TopAssumption DEF Within, Key, Sides
      <3> QED
        BY <2>1, <3>2, <3>4 DEF FreePlaces
    <2>5. WalkSound'
      BY <1>4 DEF InsertRoot, WalkSound
    <2> QED
      BY <2>3, <2>4, <2>5 DEF TreeInv
  <1>5. CASE InsertLeaf
    BY <1>5, LinkKeepsOrder, LinkKeepsFreePlaces DEF TreeInv, WalkSound, InsertLeaf
  <1>6. CASE InsertDescends
    BY <1>1, <1>6, DownOneLevel DEF InsertDescends, TreeInv, WalkSound
  <1>7. CASE InsertAborts
    BY <1>1, <1>7 DEF InsertAborts, TreeInv, WalkSound
  <1>8. CASE LookupFinds
    BY <1>1, <1>8 DEF LookupFinds, TreeInv, WalkSound
  <1>9. CASE LookupDescends
    BY <1>1, <1>9, DownOneLevel DEF LookupDescends, TreeInv, WalkSound, Places
  <1>10. CASE LookupFails
    BY <1>1, <1>10 DEF LookupFails, TreeInv, WalkSound
  <1>11. CASE UNCHANGED vars
    BY <1>1, <1>11 DEF vars, TreeInv, WalkSound, Places
  <1> QED
    BY <1>2, <1>3, <1>4, <1>5, <1>6, <1>7, <1>8, <1>9, <1>10, <1>11 DEF Next, Walk

(* At all times the nodes form a search tree, its free places share out the   *)
(* keys that are not in it, and a walk is on the path to its key.             *)
THEOREM TreeInvariant == Spec => []TreeInv
  BY InitialTree, TreeStep, TypeCorrect, PTL DEF Spec

(* A walk only goes down: it takes at most one step for each node.            *)
THEOREM WalksDescend == Spec => WalkDescends
  <1>1. TypeOK /\ TreeInv /\ [Next]_vars
        => [op # "idle" /\ op' = op => leaf' > leaf \/ leaf' = 0]_vars
    <2> SUFFICES ASSUME TypeOK, TreeInv, Next, op # "idle", op' = op
                 PROVE  leaf' > leaf \/ leaf' = 0
      OBVIOUS
    <2>1. CASE InsertDescends
      BY <2>1, DownOneLevel DEF InsertDescends
    <2>2. CASE LookupDescends
      BY <2>2, DownOneLevel DEF LookupDescends
    <2> QED
      BY <2>1, <2>2 DEF Next, Walk, Insert, Lookup, InsertRoot, InsertLeaf, InsertAborts,
                        LookupFinds, LookupFails
  <1> QED
    BY <1>1, TypeCorrect, TreeInvariant, PTL DEF Spec, WalkDescends

------------------------------------------------------------------------------
(* The map the tree stands for, without CHOOSE.                               *)
MapAgrees ==
    /\ Map \in [Key -> Value \cup {Null}]
    /\ \A i \in Places : Map[nodes[i].key] = nodes[i].value /\ Map[nodes[i].key] # Null
    /\ \A k \in Key : (\A i \in Places : nodes[i].key # k) => Map[k] = Null

LEMMA MapOfTree == TypeOK /\ TreeInv => MapAgrees
  <1> SUFFICES ASSUME TypeOK, TreeInv PROVE MapAgrees
    OBVIOUS
  <1> DEFINE At(k) == CHOOSE i \in Places : nodes[i].key = k
  <1>1. ASSUME NEW k \in Key, NEW i \in Places, nodes[i].key = k
        PROVE  At(k) = i
    <2>1. \A j \in Places : nodes[j].key = k => j = i
      BY <1>1 DEF TreeInv, FreePlaces
    <2>2. At(k) \in Places /\ nodes[At(k)].key = k
      BY <1>1
    <2> QED
      BY <2>1, <2>2
  <1>2. \A i \in Places : nodes[i].key \in Key /\ nodes[i].value \in Value
    BY TreeData
  <1>3. \A i \in Places : Map[nodes[i].key] = nodes[i].value /\ Map[nodes[i].key] # Null
    <2> SUFFICES ASSUME NEW i \in Places
                 PROVE  Map[nodes[i].key] = nodes[i].value /\ Map[nodes[i].key] # Null
      OBVIOUS
    <2>1. Map[nodes[i].key] = nodes[At(nodes[i].key)].value
      BY <1>2 DEF Map
    <2>2. At(nodes[i].key) = i
      BY <1>1, <1>2
    <2> HIDE DEF At
    <2> QED
      BY <1>2, <2>1, <2>2, NullAssumption
  <1>4. \A k \in Key : (\A i \in Places : nodes[i].key # k) => Map[k] = Null
    BY DEF Map
  <1>5. \A k \in Key : Map[k] \in Value \cup {Null}
    BY <1>2, <1>3, <1>4
  <1>6. Map \in [Key -> Value \cup {Null}]
    BY <1>5 DEF Map
  <1> QED
    BY <1>3, <1>4, <1>6 DEF MapAgrees

LEMMA MapOfNextTree == TypeOK' /\ TreeInv' => MapAgrees'
  BY MapOfTree, PTL

(* A node linked under a new key is an entry added to the map.                *)
LEMMA MapGrows ==
    ASSUME TypeOK, TreeInv, TypeOK', TreeInv', NEW new \in Places',
           nodes'[new] = Node, key \in Key,
           \A i \in Places' : i # new => i \in Places /\ nodes'[i].key = nodes[i].key
                                        /\ nodes'[i].value = nodes[i].value,
           \A i \in Places : i # new /\ i \in Places'
    PROVE  Map[key] = Null /\ Map' = [Map EXCEPT ![key] = value]
  <1>1. \A i \in Places : nodes[i].key # key
    <2> SUFFICES ASSUME NEW i \in Places, nodes[i].key = key PROVE FALSE
      OBVIOUS
    <2>1. nodes'[i].key = nodes'[new].key
      BY DEF Node
    <2> QED
      BY <2>1 DEF TreeInv, FreePlaces
  <1>2. /\ Map' \in [Key -> Value \cup {Null}]
        /\ \A i \in Places' : Map'[nodes'[i].key] = nodes'[i].value
        /\ \A k \in Key : (\A i \in Places' : nodes'[i].key # k) => Map'[k] = Null
    BY MapOfNextTree DEF MapAgrees
  <1>3. ASSUME NEW k \in Key PROVE Map'[k] = IF k = key THEN value ELSE Map[k]
    <2>1. CASE k = key
      BY <1>2, <2>1 DEF Node
    <2>2. CASE k # key
      <3>1. CASE \E i \in Places : nodes[i].key = k
        BY <1>2, <2>2, <3>1, MapOfTree DEF MapAgrees
      <3>2. CASE \A i \in Places : nodes[i].key # k
        <4>1. \A i \in Places' : nodes'[i].key # k
          BY <2>2, <3>2 DEF Node
        <4> QED
          BY <1>2, <2>2, <3>2, <4>1, MapOfTree DEF MapAgrees
      <3> QED
        BY <3>1, <3>2
    <2> QED
      BY <2>1, <2>2
  <1> QED
    BY <1>1, <1>2, <1>3, MapOfTree DEF MapAgrees

LEMMA MapInit == Init => M!Init
  BY DEF Init, M!Init, Map, Places

LEMMA MapStep == TypeOK /\ TreeInv /\ TypeOK' /\ TreeInv' /\ [Next]_vars => [M!Next]_M!vars
  <1> SUFFICES ASSUME TypeOK, TreeInv, TypeOK', TreeInv', [Next]_vars
               PROVE  [M!Next]_M!vars
    OBVIOUS
  <1>1. nodes' = nodes => Map' = Map
    BY DEF Map, Places
  <1>2. op \in {"insert", "lookup"} => key \in Key
    BY DEF TypeOK
  <1>3. leaf # 0 => leaf \in Places
    BY TreeData DEF TypeOK
  <1>4. ASSUME NEW k \in Key, NEW v \in Value, Insert(k, v) PROVE M!Insert(k, v)
    BY <1>1, <1>4 DEF Insert, M!Insert
  <1>5. ASSUME NEW k \in Key, Lookup(k) PROVE M!Lookup(k)
    BY <1>1, <1>5 DEF Lookup, M!Lookup
  <1>6. CASE InsertRoot
    <2>1. Places = {} /\ Places' = {1} /\ nodes'[1] = Node
      BY <1>6 DEF InsertRoot, TreeInv, WalkSound, Places
    <2>2. Map[key] = Null /\ Map' = [Map EXCEPT ![key] = value]
      BY <1>2, <1>6, <2>1, MapGrows DEF InsertRoot
    <2>3. M!InsertReturns
      BY <1>6, <2>2 DEF InsertRoot, M!InsertReturns
    <2> QED
      BY <2>3 DEF M!Next
  <1>7. CASE InsertLeaf
    <2>1. Map[key] = Null /\ Map' = [Map EXCEPT ![key] = value]
      <3> DEFINE new == Len(nodes) + 1
      <3>1. new \in Places' /\ nodes'[new] = Node /\ new \notin Places
        BY <1>7, LinkedTree
      <3>2. \A i \in Places' : i # new => i \in Places /\ nodes'[i].key = nodes[i].key
                                               /\ nodes'[i].value = nodes[i].value
        BY <1>7, LinkedTree
      <3>3. \A i \in Places : i \in Places'
        BY <1>7, LinkedTree
      <3> QED
        BY <1>2, <1>7, <3>1, <3>2, <3>3, MapGrows DEF InsertLeaf
    <2>2. M!InsertReturns
      BY <1>7, <2>1 DEF InsertLeaf, M!InsertReturns
    <2> QED
      BY <2>2 DEF M!Next
  <1>8. CASE InsertAborts
    <2>1. Map[key] # Null
      BY <1>3, <1>8, MapOfTree DEF MapAgrees, InsertAborts
    <2>2. M!InsertAborts
      BY <1>1, <1>8, <2>1 DEF InsertAborts, M!InsertAborts
    <2> QED
      BY <2>2 DEF M!Next
  <1>9. CASE LookupFinds
    <2>1. Map[key] = nodes[leaf].value
      BY <1>3, <1>9, MapOfTree DEF MapAgrees, LookupFinds
    <2>2. M!LookupReturns
      BY <1>1, <1>9, <2>1 DEF LookupFinds, M!LookupReturns
    <2> QED
      BY <2>2 DEF M!Next
  <1>10. CASE LookupFails
    <2>1. Map[key] = Null
      BY <1>2, <1>10, MapOfTree DEF MapAgrees, LookupFails, TreeInv, WalkSound
    <2>2. M!LookupReturns
      BY <1>1, <1>10, <2>1 DEF LookupFails, M!LookupReturns
    <2> QED
      BY <2>2 DEF M!Next
  <1>11. CASE InsertDescends \/ LookupDescends \/ UNCHANGED vars
    BY <1>1, <1>11 DEF InsertDescends, LookupDescends, vars, M!vars
  <1> QED
    BY <1>4, <1>5, <1>6, <1>7, <1>8, <1>9, <1>10, <1>11 DEF Next, Walk, M!Next

(* Whatever is inserted in whatever order, the callers of the tree see the    *)
(* insert-only map of SymbolMap.                                              *)
THEOREM TreeImplementsMap == Spec => ImplementsMap
  BY MapInit, MapStep, TypeCorrect, TreeInvariant, PTL DEF Spec, ImplementsMap, M!Spec
=============================================================================
