--------------------------------- MODULE BTree ---------------------------------
(***************************************************************************)
(* The b-tree of include/data/btree.h, which keeps the areas of the large  *)
(* allocator, the BAR memory of PCI devices and the argument areas of a    *)
(* process.  A node is a record of its keys and its children, in order;    *)
(* indices start at 1 here and at 0 in the code.                           *)
(*                                                                         *)
(* Three steps of the code do not do their work:                           *)
(*  - split_child (btree.h:193) makes no room for the key that moves up, so *)
(*    that the split of a child that is not the last overwrites one;        *)
(*  - insert_non_full (162) compares the new key after a split with the key *)
(*    in front of the median, and enters the right half with a key that     *)
(*    belongs left of the median, where it is not found again;              *)
(*  - remove_impl (294) refills the last child by merging the two children  *)
(*    before it.                                                            *)
(* The model takes these steps as the code does, notes them in `spoiled'   *)
(* and stops; what it shows is that no other step loses a key.             *)
(***************************************************************************)
EXTENDS Integers, FiniteSets, Sequences, SequencesExt

CONSTANTS
  M,      \* btree_node's M: a node holds M - 1 to 2M - 1 keys
  Keys    \* bound: the keys that are used

ASSUME BTreeAssumption == M \in Nat /\ M >= 2 /\ Keys \subseteq Nat \ {0}

VARIABLES
  root,      \* *m_root, or Nothing
  size,      \* m_size
  held,      \* what the callers put in and did not take out (only observed)
  spoiled    \* a step lost a key or put one where it is not looked for

vars == <<root, size, held, spoiled>>

Nothing == [data |-> <<>>, kids |-> <<>>]
MaxData == 2 * M - 1

IsLeaf(n) == n.kids = <<>>
KidsOf(n, from, to) == IF IsLeaf(n) THEN <<>> ELSE SubSeq(n.kids, from, to)

\* The child that k belongs to: the first whose upper key is not below k.
Place(n, k) == Cardinality({i \in DOMAIN n.data : n.data[i] < k}) + 1

RECURSIVE FindIn(_, _)
FindIn(n, k) ==
  LET i == Place(n, k)
  IN \/ i <= Len(n.data) /\ n.data[i] = k
     \/ ~IsLeaf(n) /\ FindIn(n.kids[i], k)

Find(k) == root # Nothing /\ FindIn(root, k)

\* What iterate calls its callable with when that never returns false.
RECURSIVE InOrder(_)
InOrder(n) ==
  IF IsLeaf(n) THEN n.data
  ELSE FoldLeft(LAMBDA seen, i : seen \o <<n.data[i]>> \o InOrder(n.kids[i + 1]),
                InOrder(n.kids[1]), [i \in 1..Len(n.data) |-> i])

-----------------------------------------------------------------------------
(* insert *)

Ok(n) == [node |-> n, good |-> TRUE]
Spoilt(n) == [node |-> n, good |-> FALSE]

\* The two halves of a full node around its median.
Halves(n) ==
  <<[data |-> SubSeq(n.data, 1, M - 1), kids |-> KidsOf(n, 1, M)],
    [data |-> SubSeq(n.data, M + 1, MaxData), kids |-> KidsOf(n, M + 1, 2 * M)]>>

\* split_child: the children make room, the keys do not.
SplitChild(x, i) ==
  LET full == x.kids[i]
      kids == SubSeq(x.kids, 1, i - 1) \o Halves(full)
              \o SubSeq(x.kids, i + 1, Len(x.kids))
      data == IF i > Len(x.data) THEN Append(x.data, full.data[M])
              ELSE Append([x.data EXCEPT ![i] = full.data[M]], 0)
  IN [data |-> data, kids |-> kids]

\* insert_non_full.  After a split the key is compared with the one before
\* the median, which it is above: it always goes right.
RECURSIVE InsertNonFull(_, _)
InsertNonFull(x, k) ==
  LET i == Place(x, k)
  IN IF IsLeaf(x)
     THEN Ok([x EXCEPT !.data = InsertAt(@, i, k)])
     ELSE LET split == Len(x.kids[i].data) = MaxData
              y == IF split THEN SplitChild(x, i) ELSE x
              j == IF split THEN i + 1 ELSE i
              below == InsertNonFull(y.kids[j], k)
              overwritten == split /\ i <= Len(x.data)
              misplaced == split /\ k < x.kids[i].data[M]
          IN [node |-> [y EXCEPT !.kids[j] = below.node],
              good |-> below.good /\ ~overwritten /\ ~misplaced]

InsertRoot(n, k) ==
  IF n = Nothing THEN Ok([Nothing EXCEPT !.data = <<k>>])
  ELSE IF Len(n.data) = MaxData
  THEN InsertNonFull(SplitChild([data |-> <<>>, kids |-> <<n>>], 1), k)
  ELSE InsertNonFull(n, k)

-----------------------------------------------------------------------------
(* remove *)

\* Mutant: the key does not pass through the parent.
ShiftLeftPast(p, i) ==
  LET left == p.kids[i]  right == p.kids[i + 1]
      left2 == [data |-> Append(left.data, Head(right.data)),
                kids |-> IF IsLeaf(left) THEN <<>>
                         ELSE Append(left.kids, Head(right.kids))]
      right2 == [data |-> Tail(right.data),
                 kids |-> IF IsLeaf(left) THEN <<>> ELSE Tail(right.kids)]
  IN [p EXCEPT !.kids = [@ EXCEPT ![i] = left2, ![i + 1] = right2]]

\* shift_key_to_sibling(p, i, false): child i takes the key between it and its
\* right sibling, and that one's first child.
ShiftLeft(p, i) ==
  LET left == p.kids[i]  right == p.kids[i + 1]
      left2 == [data |-> Append(left.data, p.data[i]),
                kids |-> IF IsLeaf(left) THEN <<>>
                         ELSE Append(left.kids, Head(right.kids))]
      right2 == [data |-> Tail(right.data),
                 kids |-> IF IsLeaf(left) THEN <<>> ELSE Tail(right.kids)]
  IN [data |-> [p.data EXCEPT ![i] = Head(right.data)],
      kids |-> [p.kids EXCEPT ![i] = left2, ![i + 1] = right2]]

\* shift_key_to_sibling(p, i, true): the other way.
ShiftRight(p, i) ==
  LET left == p.kids[i]  right == p.kids[i + 1]
      left2 == [data |-> Front(left.data),
                kids |-> IF IsLeaf(left) THEN <<>> ELSE Front(left.kids)]
      right2 == [data |-> <<p.data[i]>> \o right.data,
                 kids |-> IF IsLeaf(left) THEN <<>>
                          ELSE <<Last(left.kids)>> \o right.kids]
  IN [data |-> [p.data EXCEPT ![i] = Last(left.data)],
      kids |-> [p.kids EXCEPT ![i] = left2, ![i + 1] = right2]]

\* merge_two_siblings: children i and i + 1 become one of full size, whatever
\* they held beyond M - 1 keys.
Merge(p, i) ==
  LET left == p.kids[i]  right == p.kids[i + 1]
      both == [data |-> SubSeq(left.data, 1, M - 1) \o <<p.data[i]>>
                        \o SubSeq(right.data, 1, M - 1),
               kids |-> KidsOf(left, 1, M) \o KidsOf(right, 1, M)]
  IN [data |-> RemoveAt(p.data, i),
      kids |-> SubSeq(p.kids, 1, i - 1) \o <<both>>
               \o SubSeq(p.kids, i + 2, Len(p.kids))]

Thin(n) == Len(n.data) = M - 1

\* Mutant: a thin child with thin siblings is entered as it is.
RefillLazy(p, i) ==
  IF ~Thin(p.kids[i]) THEN Ok(p)
  ELSE IF i = Len(p.kids)
  THEN IF Thin(p.kids[i - 1]) THEN Ok(p) ELSE Ok(ShiftRight(p, i - 1))
  ELSE IF Thin(p.kids[i + 1]) THEN Ok(p) ELSE Ok(ShiftLeft(p, i))

\* Child i is about to be entered and must have a key to spare.  For the last
\* child the index is taken off twice: the two before it are merged.
Refill(p, i) ==
  IF ~Thin(p.kids[i]) THEN Ok(p)
  ELSE IF i = Len(p.kids)
  THEN IF Thin(p.kids[i - 1]) THEN Spoilt(Merge(p, i - 2))
                              ELSE Ok(ShiftRight(p, i - 1))
  ELSE IF Thin(p.kids[i + 1]) THEN Ok(Merge(p, i)) ELSE Ok(ShiftLeft(p, i))

\* A root with one key: two thin children collapse into it, and a thin child
\* that is about to be entered gets a key.
RefillRoot(p, k) ==
  IF Thin(p.kids[1]) /\ Thin(p.kids[2]) THEN Merge(p, 1).kids[1]
  ELSE IF k <= p.data[1]
  THEN IF Thin(p.kids[1]) THEN ShiftLeft(p, 1) ELSE p
  ELSE IF Thin(p.kids[2]) THEN ShiftRight(p, 1) ELSE p

\* How a removal below a node ends: the node, whether a key went, and the key
\* that takes the place of k further up when k stands there.
Ended(n, how, spare, good) ==
  [node |-> n, removed |-> how, spare |-> spare, good |-> good]

\* The loop of remove_impl from a node p on; `above' says that k was seen on
\* the way (found), and so the last key of the leaf takes its place.
RECURSIVE RemoveFrom(_, _, _)
Enter(p, k, above) ==
  LET i == Place(p, k)
      here == i <= Len(p.data) /\ p.data[i] = k
      below == RemoveFrom(p.kids[i], k, above \/ here)
      p2 == [p EXCEPT !.kids[i] = below.node]
  IN Ended(IF here THEN [p2 EXCEPT !.data[i] = below.spare] ELSE p2,
           below.removed, below.spare, below.good)

RemoveFrom(p, k, above) ==
  IF IsLeaf(p)
  THEN IF k \in ToSet(p.data)
       THEN Ended([p EXCEPT !.data = RemoveAt(@, Place(p, k))], TRUE, 0, TRUE)
       ELSE IF above THEN Ended([p EXCEPT !.data = Front(@)], TRUE, Last(p.data), TRUE)
       ELSE Ended(p, FALSE, 0, TRUE)
  ELSE LET refilled == Refill(p, Place(p, k))
           rest == Enter(refilled.node, k, above)
       IN [rest EXCEPT !.good = @ /\ refilled.good]

RemoveRoot(n, k) ==
  IF n = Nothing THEN Ended(n, FALSE, 0, TRUE)
  ELSE IF IsLeaf(n) \/ Len(n.data) > 1 THEN RemoveFrom(n, k, FALSE)
  ELSE LET refilled == RefillRoot(n, k)
       IN IF Thin(n.kids[1]) /\ Thin(n.kids[2])
          THEN RemoveFrom(refilled, k, FALSE)
          ELSE Enter(refilled, k, FALSE)

-----------------------------------------------------------------------------
Init == root = Nothing /\ size = 0 /\ held = {} /\ spoiled = FALSE

\* The callers insert addresses that are not in the tree.
insert(k) ==
  /\ ~spoiled /\ k \notin held
  /\ LET r == InsertRoot(root, k)
     IN root' = r.node /\ spoiled' = ~r.good
  /\ size' = size + 1
  /\ held' = held \cup {k}

remove(k) ==
  /\ ~spoiled
  /\ LET r == RemoveRoot(root, k)
     IN /\ root' = r.node /\ spoiled' = ~r.good
        /\ size' = IF r.removed THEN size - 1 ELSE size
  /\ held' = held \ {k}

Next == \E k \in Keys : insert(k) \/ remove(k)

Spec == Init /\ [][Next]_vars

-----------------------------------------------------------------------------
(* Properties, of a tree that none of the three faulty steps has touched *)

RECURSIVE Depths(_)
Depths(n) == IF IsLeaf(n) THEN {0}
             ELSE {d + 1 : d \in UNION {Depths(n.kids[i]) : i \in DOMAIN n.kids}}

RECURSIVE Nodes(_)
Nodes(n) == {n} \cup UNION {Nodes(n.kids[i]) : i \in DOMAIN n.kids}

\* Iterating gives exactly the keys the callers hold, each once and in order,
\* size() counts them, and find answers yes for them and for no other:
\* whatever was split, shifted, merged or replaced, as long as no key was
\* overwritten by a split (btree.h:193), put on the wrong side of a median
\* (162) or lost in the merge before a last child (294).
KeepsKeys ==
  LET seen == InOrder(root)
  IN ~spoiled => /\ ToSet(seen) = held
                 /\ \A i \in 1..Len(seen) - 1 : seen[i] < seen[i + 1]
                 /\ size = Cardinality(held)
                 /\ \A k \in Keys : Find(k) <=> k \in held

\* Every leaf is equally deep and every node but the root holds between M - 1
\* and 2M - 1 keys, one less than it has children: a node never overflows the
\* page it is allocated in, and remove always finds a key to move.  Again of
\* trees without one of the three faults.
Shape ==
  ~spoiled =>
    /\ Cardinality(Depths(root)) = 1
    /\ \A n \in Nodes(root) :
         /\ IsLeaf(n) \/ Len(n.kids) = Len(n.data) + 1
         /\ Len(n.data) <= MaxData
         /\ n = root \/ Len(n.data) >= M - 1
===============================================================================
