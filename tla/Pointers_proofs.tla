---------------------------- MODULE Pointers_proofs ----------------------------
(***************************************************************************)
(* Proofs about shared_ptr and weak_ptr (Pointers).                        *)
(*                                                                         *)
(* A count says how many pointers there are only if it is known which of   *)
(* the pointers in a nest of half-run destructors still count.  Frame      *)
(* describes the nest: the steps left come in the order destructors and    *)
(* assignments give them, and an object that waits for its delete has a    *)
(* count of zero.  Objects may own each other in a circle: its destructors *)
(* come back to a pointer that is being reset already, and that reset      *)
(* panics, so no such cell is ever closed twice.  Books says what the      *)
(* counts and the blocks are, over any such nest.  Together they are       *)
(* inductive, and Ownership's promise follows from them.                   *)
(***************************************************************************)
EXTENDS Pointers, FiniteSetTheorems, SequenceTheorems, TLAPS

Cells == Strong \cup Weak

Entries ==
  {Reset(c) : c \in Cells} \cup {Count(c) : c \in Strong} \cup {Clear(c) : c \in Cells}
  \cup {Copy(c, d) : c, d \in Cells} \cup {Move(c, d) : c, d \in Cells}
  \cup {Put(c, o) : c \in Cells, o \in Objects \cup {Null}}

\* What the code does to one cell is a pair of steps: one that opens it and
\* one that closes it.
Opens(e) == e.op \in {"reset", "count"}

-----------------------------------------------------------------------------
(* Cells and entries *)

\* The cells are finitely many, and no two of them are the same.
LEMMA CellFacts ==
  /\ IsFiniteSet(Strong) /\ IsFiniteSet(Weak) /\ Strong \cap Weak = {}
  /\ Null \notin Objects /\ Unnamed \notin Strong
  /\ \A o \in Objects : /\ Child(o) \in Strong /\ Self(o) \in Weak
                        /\ Child(o) # Self(o)
                        /\ \A p \in Objects : /\ Child(o) = Child(p) => o = p
                                              /\ Self(o) = Self(p) => o = p
                                              /\ Child(o) # Self(p)
<1>1. \A o, p \in Objects : Child(o) # Self(p) /\ Unnamed # Child(o)
  BY DEF Child, Self, Unnamed
<1>2. \A o, p \in Objects : (Child(o) = Child(p) => o = p) /\ (Self(o) = Self(p) => o = p)
  <2>1. \A o : Child(o).of = o /\ Self(o).of = o  BY DEF Child, Self
  <2> QED  BY <2>1
<1>3. IsFiniteSet({Child(o) : o \in Objects}) /\ IsFiniteSet({Self(o) : o \in Objects})
  <2> DEFINE f == [o \in Objects |-> Child(o)]
             g == [o \in Objects |-> Self(o)]
  <2>1. /\ f \in Surjection(Objects, {Child(o) : o \in Objects})
        /\ g \in Surjection(Objects, {Self(o) : o \in Objects})
    BY DEF Surjection
  <2> HIDE DEF f, g
  <2> QED  BY <2>1, FS_Surjection, PointersAssumption
<1> QED  BY <1>1, <1>2, <1>3, FS_Union, PointersAssumption, ZenonT(60) DEF Strong, Weak

\* What the steps are, field by field.
LEMMA EntryForms ==
  /\ \A e \in Entries :
       /\ e.op \in {"reset", "count", "clear", "copy", "move", "put"}
       /\ e.cell \in Cells
       /\ e.op = "reset" => e = Reset(e.cell)
       /\ e.op = "count" => e.cell \in Strong /\ e = Count(e.cell)
       /\ e.op = "clear" => e = Clear(e.cell)
       /\ e.op \in {"copy", "move"} => e.from \in Cells
       /\ e.op = "put" => e.object \in Objects \cup {Null}
  /\ \A c \in Cells :
       /\ Reset(c) \in Entries /\ Reset(c).op = "reset" /\ Reset(c).cell = c
       /\ Clear(c) \in Entries /\ Clear(c).op = "clear" /\ Clear(c).cell = c
       /\ Count(c).op = "count" /\ Count(c).cell = c
       /\ c \in Strong => Count(c) \in Entries
       /\ \A d \in Cells :
            /\ Copy(c, d) \in Entries /\ Copy(c, d).op = "copy"
            /\ Copy(c, d).cell = c /\ Copy(c, d).from = d
            /\ Move(c, d) \in Entries /\ Move(c, d).op = "move"
            /\ Move(c, d).cell = c /\ Move(c, d).from = d
       /\ \A o \in Objects \cup {Null} :
            /\ Put(c, o) \in Entries /\ Put(c, o).op = "put"
            /\ Put(c, o).cell = c /\ Put(c, o).object = o
<1>1. ASSUME NEW c \in Cells
      PROVE  /\ Reset(c) \in Entries /\ Reset(c).op = "reset" /\ Reset(c).cell = c
             /\ Clear(c) \in Entries /\ Clear(c).op = "clear" /\ Clear(c).cell = c
             /\ Count(c).op = "count" /\ Count(c).cell = c
             /\ c \in Strong => Count(c) \in Entries
  BY <1>1 DEF Entries, Reset, Clear, Count
<1>2. ASSUME NEW c \in Cells, NEW d \in Cells
      PROVE  /\ Copy(c, d) \in Entries /\ Copy(c, d).op = "copy"
             /\ Copy(c, d).cell = c /\ Copy(c, d).from = d
             /\ Move(c, d) \in Entries /\ Move(c, d).op = "move"
             /\ Move(c, d).cell = c /\ Move(c, d).from = d
  BY <1>2 DEF Entries, Copy, Move
<1>3. ASSUME NEW c \in Cells, NEW o \in Objects \cup {Null}
      PROVE  /\ Put(c, o) \in Entries /\ Put(c, o).op = "put"
             /\ Put(c, o).cell = c /\ Put(c, o).object = o
  BY <1>3 DEF Entries, Put
<1>4. ASSUME NEW e \in Entries
      PROVE  \/ \E c \in Cells : e = Reset(c) \/ e = Clear(c)
             \/ \E c \in Strong : e = Count(c)
             \/ \E c, d \in Cells : e = Copy(c, d) \/ e = Move(c, d)
             \/ \E c \in Cells, o \in Objects \cup {Null} : e = Put(c, o)
  <2>1. e \in {Copy(c, d) : c, d \in Cells} => \E c, d \in Cells : e = Copy(c, d)
    OBVIOUS
  <2>2. e \in {Move(c, d) : c, d \in Cells} => \E c, d \in Cells : e = Move(c, d)
    OBVIOUS
  <2>3. e \in {Put(c, o) : c \in Cells, o \in Objects \cup {Null}} =>
          \E c \in Cells, o \in Objects \cup {Null} : e = Put(c, o)
    OBVIOUS
  <2>4. e \in {Reset(c) : c \in Cells} \cup {Count(c) : c \in Strong} \cup {Clear(c) : c \in Cells} =>
          \/ \E c \in Cells : e = Reset(c) \/ e = Clear(c)
          \/ \E c \in Strong : e = Count(c)
    OBVIOUS
  <2> QED  BY <2>1, <2>2, <2>3, <2>4 DEF Entries
<1>5. Strong \subseteq Cells
  BY DEF Cells
<1>6. ASSUME NEW e \in Entries
      PROVE  /\ e.op \in {"reset", "count", "clear", "copy", "move", "put"}
             /\ e.cell \in Cells
             /\ e.op = "reset" => e = Reset(e.cell)
             /\ e.op = "count" => e.cell \in Strong /\ e = Count(e.cell)
             /\ e.op = "clear" => e = Clear(e.cell)
             /\ e.op \in {"copy", "move"} => e.from \in Cells
             /\ e.op = "put" => e.object \in Objects \cup {Null}
  <2>1. CASE \E c \in Cells : e = Reset(c) \/ e = Clear(c)
    BY <2>1, <1>1
  <2>2. CASE \E c \in Strong : e = Count(c)
    BY <2>2, <1>1, <1>5
  <2>3. CASE \E c, d \in Cells : e = Copy(c, d) \/ e = Move(c, d)
    BY <2>3, <1>2
  <2>4. CASE \E c \in Cells, o \in Objects \cup {Null} : e = Put(c, o)
    BY <2>4, <1>3
  <2> QED  BY <1>4, <2>1, <2>2, <2>3, <2>4
<1> QED  BY <1>1, <1>2, <1>3, <1>6

-----------------------------------------------------------------------------
(* The order of the steps *)

\* Whose counter block is about to be looked at, after a delete.
Counting(t, x) == \E i \in 1..Len(t) : t[i] = Count(x)

\* The next step is the reset of a pointer that is being reset already: the
\* destructors have come round a circle of owners.
Circled(t) == t[1].op = "reset" /\ Counting(t, t[1].cell)

\* A cell is opened and closed at once; a reset waits for one delete only, and
\* the cell is closed before that ends in a circle alone, after the reset that
\* cannot succeed; only the last step gives a value.
Orderly(t) ==
  /\ \A i \in 1..Len(t) : Opens(t[i]) =>
       i < Len(t) /\ t[i + 1].cell = t[i].cell /\ ~Opens(t[i + 1])
  /\ \A i \in 2..Len(t) : ~Opens(t[i]) => Opens(t[i - 1])
  /\ \A i, j \in 1..Len(t) : i < j /\ ~Opens(t[i]) /\ t[j] = Count(t[i].cell) =>
       \E m \in 1..i - 1 : t[m] = Reset(t[i].cell)
  /\ \A i, j \in 1..Len(t) : \A x \in Strong : t[i] = Count(x) /\ t[j] = Count(x) => i = j
  /\ \A i \in 1..Len(t) : t[i].op \in {"copy", "move", "put"} => i = Len(t)
  /\ \A i \in 1..Len(t) : t[i].op \in {"copy", "move"} =>
       /\ t[i].from # t[i].cell
       /\ t[i].from \in Strong <=> t[i].cell \in Strong

\* Whose reset is done: the cell that is closed next, and those whose object
\* is being deleted.
Off(t, c) == \/ t # <<>> /\ ~Opens(t[1]) /\ t[1].cell = c
             \/ \E i \in 1..Len(t) : t[i] = Count(c)

\* The steps that are left, one by one.
LEMMA SeqTail ==
  ASSUME NEW t \in Seq(Entries), t # <<>>
  PROVE  /\ Tail(t) \in Seq(Entries) /\ Len(t) \in Nat \ {0}
         /\ Len(Tail(t)) = Len(t) - 1
         /\ \A i \in 1..Len(t) - 1 : Tail(t)[i] = t[i + 1]
         /\ Tail(t) = <<>> <=> Len(t) = 1
         /\ t[1] \in Entries /\ Head(t) = t[1]
<1>1. Len(t) \in Nat \ {0} /\ t[1] \in Entries /\ Head(t) = t[1]
  BY EmptySeq, LenProperties
<1>2. /\ Tail(t) \in Seq(Entries) /\ Len(Tail(t)) = Len(t) - 1
      /\ \A i \in 1..Len(Tail(t)) : Tail(t)[i] = t[i + 1]
  BY HeadTailProperties
<1>3. Tail(t) = <<>> <=> Len(Tail(t)) = 0
  BY <1>2, EmptySeq
<1> QED  BY <1>1, <1>2, <1>3

\* Taking a step off the front keeps the order.
LEMMA TailOrderly ==
  ASSUME NEW t \in Seq(Entries), t # <<>>, Orderly(t), ~Circled(t)
  PROVE  Orderly(Tail(t))
<1> DEFINE u == Tail(t)
<1>1. /\ Len(t) \in Nat \ {0} /\ Len(u) = Len(t) - 1
      /\ \A i \in 1..Len(u) : u[i] = t[i + 1]
  BY SeqTail
<1> HIDE DEF u
<1>2. \A i \in 1..Len(u) : Opens(u[i]) =>
       i < Len(u) /\ u[i + 1].cell = u[i].cell /\ ~Opens(u[i + 1])
  BY <1>1 DEF Orderly
<1>3. ASSUME NEW i \in 2..Len(u), ~Opens(u[i])
      PROVE  Opens(u[i - 1])
  <2>1. u[i] = t[i + 1] /\ u[i - 1] = t[i] /\ i + 1 \in 2..Len(t) /\ (i + 1) - 1 = i
    BY <1>1
  <2>2. \A j \in 2..Len(t) : ~Opens(t[j]) => Opens(t[j - 1])
    BY DEF Orderly
  <2> QED  BY <1>3, <2>1, <2>2
<1>4. ASSUME NEW i \in 1..Len(u), NEW j \in 1..Len(u), i < j, ~Opens(u[i]), u[j] = Count(u[i].cell)
      PROVE  \E m \in 1..i - 1 : u[m] = Reset(u[i].cell)
  <2>1. /\ u[i] = t[i + 1] /\ u[j] = t[j + 1] /\ i + 1 \in 1..Len(t) /\ j + 1 \in 1..Len(t)
        /\ i + 1 < j + 1
    BY <1>1, <1>4
  <2>2. PICK m \in 1..(i + 1) - 1 : t[m] = Reset(t[i + 1].cell)
    BY <1>4, <2>1 DEF Orderly
  <2>3. t[i + 1] \in Entries /\ t[i + 1].cell \in Cells
    BY <2>1, ElementOfSeq, EntryForms
  <2>4. m # 1
    <3>1. ASSUME m = 1 PROVE t[1].op = "reset" /\ t[1].cell = t[i + 1].cell
      BY <2>2, <2>3, <3>1, EntryForms
    <3>2. Counting(t, t[i + 1].cell)
      BY <1>4, <2>1 DEF Counting
    <3> QED  BY <3>1, <3>2 DEF Circled
  <2>5. m - 1 \in 1..i - 1 /\ m - 1 \in 1..Len(u) /\ u[m - 1] = t[m]
    BY <1>1, <2>4
  <2> QED  BY <2>1, <2>2, <2>5
<1>8. ASSUME NEW i \in 1..Len(u), NEW j \in 1..Len(u), NEW x \in Strong, u[i] = Count(x), u[j] = Count(x)
      PROVE  i = j
  <2>1. u[i] = t[i + 1] /\ u[j] = t[j + 1] /\ i + 1 \in 1..Len(t) /\ j + 1 \in 1..Len(t)
    BY <1>1
  <2>2. i + 1 = j + 1
    BY <1>8, <2>1 DEF Orderly
  <2> QED  BY <2>2
<1>5. \A i \in 1..Len(u) : u[i].op \in {"copy", "move", "put"} => i = Len(u)
  BY <1>1 DEF Orderly
<1>6. \A i \in 1..Len(u) : u[i].op \in {"copy", "move"} =>
       /\ u[i].from # u[i].cell
       /\ u[i].from \in Strong <=> u[i].cell \in Strong
  <2>1. \A i \in 1..Len(t) : t[i].op \in {"copy", "move"} =>
         /\ t[i].from # t[i].cell
         /\ t[i].from \in Strong <=> t[i].cell \in Strong
    BY DEF Orderly
  <2>2. \A i \in 1..Len(u) : i + 1 \in 1..Len(t) /\ u[i] = t[i + 1]
    BY <1>1
  <2> QED  BY <2>1, <2>2
<1>7. Orderly(u)
  BY <1>2, <1>3, <1>4, <1>5, <1>6, <1>8 DEF Orderly
<1> QED  BY <1>7 DEF u

\* What is on the stack after the destructors of o were pushed.
Pushed(t, o, c) == (Destroy(o) \o <<Count(c)>>) \o Tail(t)

\* The steps in front when an object's destructors are pushed, one by one.
LEMMA PushedAt ==
  ASSUME NEW t \in Seq(Entries), t # <<>>, NEW o \in Objects, NEW c \in Strong
  PROVE  /\ Pushed(t, o, c) \in Seq(Entries)
         /\ Len(Pushed(t, o, c)) = Len(t) + 4
         /\ Pushed(t, o, c)[1] = Reset(Self(o)) /\ Pushed(t, o, c)[2] = Clear(Self(o))
         /\ Pushed(t, o, c)[3] = Reset(Child(o)) /\ Pushed(t, o, c)[4] = Clear(Child(o))
         /\ Pushed(t, o, c)[5] = Count(c)
         /\ \A i \in 6..Len(t) + 4 : Pushed(t, o, c)[i] = t[i - 4]
         /\ Pushed(t, o, c) # <<>>
<1> DEFINE z == <<Count(c)>>
           d == Destroy(o) \o z
<1>1. /\ Destroy(o) \in Seq(Entries) /\ Len(Destroy(o)) = 4
      /\ z \in Seq(Entries) /\ Len(z) = 1 /\ z[1] = Count(c)
  <2>1. Self(o) \in Cells /\ Child(o) \in Cells /\ c \in Cells
    BY CellFacts DEF Cells
  <2>2. /\ Reset(Self(o)) \in Entries /\ Clear(Self(o)) \in Entries /\ Reset(Child(o)) \in Entries
        /\ Clear(Child(o)) \in Entries /\ Count(c) \in Entries
    BY <2>1, EntryForms
  <2> QED  BY <2>2 DEF Destroy
<1>2. /\ Destroy(o)[1] = Reset(Self(o)) /\ Destroy(o)[2] = Clear(Self(o))
      /\ Destroy(o)[3] = Reset(Child(o)) /\ Destroy(o)[4] = Clear(Child(o))
  BY DEF Destroy
<1> HIDE DEF z
<1>3. /\ d \in Seq(Entries) /\ Len(d) = Len(Destroy(o)) + Len(z)
      /\ \A i \in 1..Len(Destroy(o)) + Len(z) :
           d[i] = IF i <= Len(Destroy(o)) THEN Destroy(o)[i] ELSE z[i - Len(Destroy(o))]
  BY <1>1, ConcatProperties, Zenon
<1> HIDE DEF d
<1>4. d \in Seq(Entries) /\ Len(d) = 5
  BY <1>1, <1>3
<1>5. /\ Tail(t) \in Seq(Entries) /\ Len(t) \in Nat \ {0} /\ Len(Tail(t)) = Len(t) - 1
      /\ \A i \in 1..Len(t) - 1 : Tail(t)[i] = t[i + 1]
  BY SeqTail
<1>6. /\ d[1] = Reset(Self(o)) /\ d[2] = Clear(Self(o)) /\ d[3] = Reset(Child(o))
      /\ d[4] = Clear(Child(o)) /\ d[5] = Count(c)
  <2>1. \A i \in 1..5 : d[i] = IF i <= 4 THEN Destroy(o)[i] ELSE z[i - 4]
    BY <1>1, <1>3
  <2> QED  BY <2>1, <1>1, <1>2
<1> HIDE DEF d
<1>7. /\ d \o Tail(t) \in Seq(Entries) /\ Len(d \o Tail(t)) = Len(t) + 4
      /\ \A i \in 1..5 : (d \o Tail(t))[i] = d[i]
      /\ \A i \in 6..Len(t) + 4 : (d \o Tail(t))[i] = Tail(t)[i - 5]
  <2>1. d \o Tail(t) \in Seq(Entries) /\ Len(d \o Tail(t)) = Len(d) + Len(Tail(t))
    BY <1>4, <1>5, ConcatProperties
  <2>2. \A i \in 1..Len(d) + Len(Tail(t)) :
          (d \o Tail(t))[i] = IF i <= Len(d) THEN d[i] ELSE Tail(t)[i - Len(d)]
    BY <1>4, <1>5, ConcatProperties
  <2> QED  BY <1>4, <1>5, <2>1, <2>2
<1>8. \A i \in 6..Len(t) + 4 : Tail(t)[i - 5] = t[i - 4]
  BY <1>5
<1>9. d \o Tail(t) # <<>>
  BY <1>5, <1>7
<1>10. Pushed(t, o, c) = d \o Tail(t)
  BY DEF Pushed, d, z
<1> QED  BY <1>6, <1>7, <1>8, <1>9, <1>10

\* Pushing the destructors of an object keeps the order, when the reset that
\* pushes them is the first of its cell.
LEMMA PushedOrderly ==
  ASSUME NEW t \in Seq(Entries), t # <<>>, Orderly(t), NEW o \in Objects, NEW c \in Strong,
         t[1] = Reset(c), ~Counting(t, c)
  PROVE  Orderly(Pushed(t, o, c))
<1> DEFINE u == Pushed(t, o, c)
<1>1. /\ Len(t) \in Nat \ {0} /\ Len(u) = Len(t) + 4
      /\ u[1] = Reset(Self(o)) /\ u[2] = Clear(Self(o)) /\ u[3] = Reset(Child(o))
      /\ u[4] = Clear(Child(o)) /\ u[5] = Count(c)
      /\ \A i \in 6..Len(t) + 4 : u[i] = t[i - 4]
  BY PushedAt, SeqTail
<1>2. /\ \A e : Opens(e) <=> e.op \in {"reset", "count"}
      /\ Self(o) \in Cells /\ Child(o) \in Cells /\ c \in Cells
      /\ Self(o) # Child(o)
  BY CellFacts DEF Opens, Cells
<1>3. /\ u[1].cell = Self(o) /\ u[2].cell = Self(o) /\ u[3].cell = Child(o)
      /\ u[4].cell = Child(o) /\ u[5].cell = c
      /\ u[1].op = "reset" /\ u[2].op = "clear" /\ u[3].op = "reset"
      /\ u[4].op = "clear" /\ u[5].op = "count"
  BY <1>1, <1>2, EntryForms
<1>4. t[1].cell = c /\ Opens(t[1]) /\ 1 < Len(t) /\ t[2].cell = c /\ ~Opens(t[2])
  <2>1. t[1].cell = c /\ t[1].op = "reset"
    BY <1>2, EntryForms
  <2>2. Opens(t[1])
    BY <1>2, <2>1
  <2>3. 1 < Len(t) /\ t[1 + 1].cell = t[1].cell /\ ~Opens(t[1 + 1])
    BY <1>1, <2>2 DEF Orderly
  <2> QED  BY <2>1, <2>2, <2>3
<1>5. /\ \A x : Count(x).op = "count" /\ Count(x).cell = x
      /\ \A i \in 1..Len(t) : t[i] # Count(c)
  BY DEF Count, Counting
<1> HIDE DEF u
<1>6. \A i \in 1..Len(u) :
        \/ i = 1 \/ i = 2 \/ i = 3 \/ i = 4 \/ i = 5
        \/ i \in 6..Len(u) /\ i - 4 \in 2..Len(t) /\ u[i] = t[i - 4]
  BY <1>1
<1>7. ASSUME NEW i \in 1..Len(u), Opens(u[i])
      PROVE  i < Len(u) /\ u[i + 1].cell = u[i].cell /\ ~Opens(u[i + 1])
  <2>1. CASE i \in {1, 2, 3, 4}
    BY <1>1, <1>2, <1>3, <1>7, <2>1
  <2>2. CASE i = 5
    <3>1. u[6] = t[2] /\ 5 < Len(u)
      BY <1>1, <1>4
    <3> QED  BY <2>2, <3>1, <1>3, <1>4
  <2>3. CASE i \in 6..Len(u)
    <3>1. u[i] = t[i - 4] /\ i - 4 \in 1..Len(t) /\ (i + 1 \in 6..Len(u) => u[i + 1] = t[(i - 4) + 1])
      BY <1>1, <2>3
    <3>2. i - 4 < Len(t) /\ t[(i - 4) + 1].cell = t[i - 4].cell /\ ~Opens(t[(i - 4) + 1])
      BY <3>1, <1>7 DEF Orderly
    <3>3. i < Len(u) /\ i + 1 \in 6..Len(u)
      BY <1>1, <2>3, <3>2
    <3> QED  BY <3>1, <3>2, <3>3
  <2> QED  BY <1>6, <2>1, <2>2, <2>3
<1>8. ASSUME NEW i \in 2..Len(u), ~Opens(u[i])
      PROVE  Opens(u[i - 1])
  <2>1. CASE i \in {2, 3, 4, 5, 6}
    BY <1>2, <1>3, <1>8, <2>1
  <2>2. CASE i \in 7..Len(u)
    <3>1. u[i] = t[i - 4] /\ i - 4 \in 2..Len(t) /\ u[i - 1] = t[(i - 4) - 1]
      BY <1>1, <2>2
    <3>2. \A j \in 2..Len(t) : ~Opens(t[j]) => Opens(t[j - 1])
      BY DEF Orderly
    <3> QED  BY <3>1, <3>2, <1>8
  <2> QED  BY <1>1, <2>1, <2>2
<1>9. ASSUME NEW i \in 1..Len(u), NEW j \in 1..Len(u), i < j, ~Opens(u[i]), u[j] = Count(u[i].cell)
      PROVE  \E m \in 1..i - 1 : u[m] = Reset(u[i].cell)
  <2>1. CASE i \in {1, 3, 5}
    BY <1>2, <1>3, <1>9, <2>1
  <2>2. CASE i \in {2, 4}
    <3>1. i - 1 \in 1..i - 1 /\ u[i - 1] = Reset(u[i].cell)
      BY <1>1, <1>3, <2>2
    <3> QED  BY <3>1
  <2>3. CASE i \in 6..Len(u)
    <3>1. /\ u[i] = t[i - 4] /\ i - 4 \in 1..Len(t) /\ u[j] = t[j - 4] /\ j - 4 \in 1..Len(t)
          /\ i - 4 < j - 4
      BY <1>1, <1>9, <2>3
    <3>2. PICK m \in 1..(i - 4) - 1 : t[m] = Reset(t[i - 4].cell)
      BY <3>1, <1>9 DEF Orderly
    <3>3. m # 1
      <4>1. t[i - 4] \in Entries /\ t[i - 4].cell \in Cells
        BY <3>1, ElementOfSeq, EntryForms
      <4>2. ASSUME m = 1 PROVE t[i - 4].cell = c
        BY <1>2, <3>2, <4>1, <4>2, EntryForms
      <4> QED  BY <1>5, <1>9, <3>1, <4>2
    <3>4. m + 4 \in 1..i - 1 /\ m + 4 \in 6..Len(t) + 4 /\ u[m + 4] = t[m]
      BY <1>1, <3>1, <3>3
    <3> QED  BY <3>1, <3>2, <3>4
  <2> QED  BY <1>6, <2>1, <2>2, <2>3
<1>12. ASSUME NEW i \in 1..Len(u), NEW j \in 1..Len(u), NEW x \in Strong, u[i] = Count(x), u[j] = Count(x)
       PROVE  i = j
  <2>1. i \notin {1, 2, 3, 4} /\ j \notin {1, 2, 3, 4}
    BY <1>3, <1>5, <1>12
  <2>2. ASSUME NEW k \in 6..Len(u), u[k] = Count(x)
        PROVE  x # c /\ k - 4 \in 1..Len(t) /\ u[k] = t[k - 4]
    BY <1>1, <1>5, <2>2
  <2>3. u[5] = Count(x) => x = c
    BY <1>3, <1>5
  <2>4. CASE i \in 6..Len(u) /\ j \in 6..Len(u)
    <3>1. /\ i - 4 \in 1..Len(t) /\ t[i - 4] = Count(x)
          /\ j - 4 \in 1..Len(t) /\ t[j - 4] = Count(x)
      BY <1>12, <2>2, <2>4
    <3>2. i - 4 = j - 4
      BY <3>1 DEF Orderly
    <3> QED  BY <1>1, <2>4, <3>2
  <2> QED  BY <1>6, <1>12, <2>1, <2>2, <2>3, <2>4
<1>10. ASSUME NEW i \in 1..Len(u)
       PROVE  /\ u[i].op \in {"copy", "move", "put"} => i = Len(u)
              /\ u[i].op \in {"copy", "move"} =>
                   /\ u[i].from # u[i].cell
                   /\ u[i].from \in Strong <=> u[i].cell \in Strong
  <2>1. CASE i \in 1..5
    BY <1>3, <2>1
  <2>2. CASE i \in 6..Len(u)
    <3>1. u[i] = t[i - 4] /\ i - 4 \in 1..Len(t) /\ (i - 4 = Len(t) => i = Len(u))
      BY <1>1, <2>2
    <3> QED  BY <3>1 DEF Orderly
  <2> QED  BY <1>1, <2>1, <2>2
<1>11. Orderly(u)
  BY <1>7, <1>8, <1>9, <1>10, <1>12 DEF Orderly
<1> QED  BY <1>11 DEF u

\* What an operation begins with: a reset, and the assignment after it.
Pair(c, e) == <<Reset(c), e>>

\* The two steps of an operation, one by one.
LEMMA PairAt ==
  ASSUME NEW c \in Cells, NEW e \in Entries
  PROVE  /\ Pair(c, e) \in Seq(Entries) /\ Len(Pair(c, e)) = 2
         /\ Pair(c, e)[1] = Reset(c) /\ Pair(c, e)[2] = e /\ Pair(c, e) # <<>>
<1>1. Reset(c) \in Entries
  BY EntryForms
<1> QED  BY <1>1 DEF Pair

\* An operation begins in order.
LEMMA PairOrderly ==
  ASSUME NEW c \in Cells, NEW e \in Entries, e.cell = c, ~Opens(e),
         e.op \in {"copy", "move"} => e.from # c /\ (e.from \in Strong <=> c \in Strong)
  PROVE  Orderly(Pair(c, e))
<1> DEFINE u == Pair(c, e)
<1>1. Len(u) = 2 /\ u[1] = Reset(c) /\ u[2] = e
  BY PairAt
<1>2. u[1].op = "reset" /\ u[1].cell = c /\ Opens(u[1]) /\ u[2].cell = c /\ ~Opens(u[2])
  BY <1>1, EntryForms DEF Opens
<1> HIDE DEF u
<1>3. \A i \in 1..Len(u) : i = 1 \/ i = 2
  BY <1>1
<1>4. \A i \in 2..Len(u) : i = 2
  BY <1>1
<1>6. /\ \A x : Count(x).op = "count" /\ u[1] # Count(x) /\ u[2] # Count(x)
  BY <1>1, <1>2 DEF Count, Opens
<1>5. Orderly(u)
  BY <1>1, <1>2, <1>3, <1>4, <1>6 DEF Orderly
<1> QED  BY <1>5 DEF u

\* A cell is spent (Spent) exactly when it is off.
LEMMA SpentIsOff ==
  ASSUME todo \in Seq(Entries), NEW c
  PROVE  Spent(c) <=> Off(todo, c)
<1>1. DOMAIN todo = 1..Len(todo) /\ (todo # <<>> => Head(todo) = todo[1])
  BY SeqTail, LenProperties
<1> QED  BY <1>1 DEF Spent, Off, Opens

\* A reset turns its cell off, the closing step on again.
LEMMA OffTail ==
  ASSUME NEW t \in Seq(Entries), t # <<>>, Orderly(t), NEW x \in Cells
  PROVE  /\ t[1].op = "reset" => (Off(Tail(t), x) <=> Off(t, x) \/ x = t[1].cell)
         /\ t[1].op = "count" => (Off(Tail(t), x) <=> Off(t, x))
         /\ ~Opens(t[1]) => (Off(Tail(t), x) <=> Off(t, x) /\ x # t[1].cell)
         /\ ~Opens(t[1]) => Off(t, t[1].cell)
<1> DEFINE u == Tail(t)
<1>1. /\ Len(t) \in Nat \ {0} /\ Len(u) = Len(t) - 1
      /\ \A i \in 1..Len(t) - 1 : u[i] = t[i + 1]
      /\ (u = <<>> <=> Len(t) = 1) /\ t[1] \in Entries
  BY SeqTail
<1> HIDE DEF u
<1>2. (\E i \in 1..Len(t) : t[i] = Count(x)) <=>
        t[1] = Count(x) \/ \E i \in 1..Len(u) : u[i] = Count(x)
  <2>1. ASSUME NEW i \in 1..Len(t), t[i] = Count(x), i # 1
        PROVE  \E j \in 1..Len(u) : u[j] = Count(x)
    <3>1. i - 1 \in 1..Len(u) /\ u[i - 1] = t[i]
      BY <1>1, <2>1
    <3> QED  BY <2>1, <3>1
  <2>2. ASSUME NEW j \in 1..Len(u), u[j] = Count(x)
        PROVE  \E i \in 1..Len(t) : t[i] = Count(x)
    <3>1. j + 1 \in 1..Len(t) /\ u[j] = t[j + 1]
      BY <1>1
    <3> QED  BY <2>2, <3>1
  <2>3. 1 \in 1..Len(t)
    BY <1>1
  <2> QED  BY <2>1, <2>2, <2>3
<1>3. Opens(t[1]) => u # <<>> /\ ~Opens(u[1]) /\ u[1].cell = t[1].cell
  <2>1. 1 \in 1..Len(t) /\ (1 < Len(t) => u[1] = t[1 + 1])
    BY <1>1
  <2>2. Opens(t[1]) => 1 < Len(t) /\ t[1 + 1].cell = t[1].cell /\ ~Opens(t[1 + 1])
    BY <2>1 DEF Orderly
  <2> QED  BY <1>1, <2>1, <2>2
<1>4. ~Opens(t[1]) => u = <<>> \/ Opens(u[1])
  <2>1. CASE Len(t) = 1
    BY <2>1, <1>1
  <2>2. CASE Len(t) # 1
    <3>1. 2 \in 2..Len(t) /\ u[1] = t[2] /\ 2 - 1 = 1
      BY <1>1, <2>2
    <3>2. ~Opens(t[2]) => Opens(t[1])
      BY <3>1 DEF Orderly
    <3> QED  BY <3>1, <3>2
  <2> QED  BY <2>1, <2>2
<1>5. t[1].op = "count" <=> t[1] = Count(t[1].cell)
  BY <1>1, EntryForms
<1>6. t[1].op # "count" => t[1] # Count(x)
  BY EntryForms
<1>7. ~Opens(t[1]) => \A i \in 1..Len(u) : u[i] # Count(t[1].cell)
  <2>1. ASSUME ~Opens(t[1]), NEW i \in 1..Len(u), u[i] = Count(t[1].cell)
        PROVE  FALSE
    <3>1. i + 1 \in 1..Len(t) /\ 1 \in 1..Len(t) /\ 1 < i + 1 /\ u[i] = t[i + 1]
      BY <1>1
    <3>2. \E m \in 1..1 - 1 : t[m] = Reset(t[1].cell)
      BY <2>1, <3>1 DEF Orderly
    <3> QED  BY <3>2
  <2> QED  BY <2>1
<1>8. t[1].op = "reset" => (Off(u, x) <=> Off(t, x) \/ x = t[1].cell)
  <2>1. t[1].op = "reset" => Opens(t[1]) /\ t[1] # Count(x)
    BY <1>6 DEF Opens
  <2> QED  BY <1>2, <1>3, <2>1 DEF Off
<1>9. t[1].op = "count" => (Off(u, x) <=> Off(t, x))
  <2>1. t[1].op = "count" => Opens(t[1]) /\ (x = t[1].cell <=> t[1] = Count(x))
    <3>1. Count(x).cell = x
      BY EntryForms
    <3> QED  BY <1>5, <3>1 DEF Opens
  <2> QED  BY <1>2, <1>3, <2>1 DEF Off
<1>10. ~Opens(t[1]) => (Off(u, x) <=> Off(t, x) /\ x # t[1].cell)
  <2>1. ~Opens(t[1]) => t[1] # Count(x)
    BY <1>6 DEF Opens
  <2> QED  BY <1>2, <1>4, <1>7, <2>1 DEF Off
<1> QED  BY <1>8, <1>9, <1>10 DEF u, Off

\* Pushing destructors takes the cell that was reset off, and no other.
LEMMA OffPushed ==
  ASSUME NEW t \in Seq(Entries), t # <<>>, Orderly(t), NEW o \in Objects, NEW c \in Strong,
         t[1] = Reset(c), NEW x \in Cells
  PROVE  Off(Pushed(t, o, c), x) <=> Off(t, x) \/ x = c
<1> DEFINE u == Pushed(t, o, c)
<1>1. /\ Len(t) \in Nat \ {0} /\ Len(u) = Len(t) + 4
      /\ u[1] = Reset(Self(o)) /\ u[2] = Clear(Self(o)) /\ u[3] = Reset(Child(o))
      /\ u[4] = Clear(Child(o)) /\ u[5] = Count(c)
      /\ \A i \in 6..Len(t) + 4 : u[i] = t[i - 4]
  BY PushedAt, SeqTail
<1>2. Self(o) \in Cells /\ Child(o) \in Cells /\ c \in Cells
  BY CellFacts DEF Cells
<1>3. /\ u[1].op = "reset" /\ u[2].op = "clear" /\ u[3].op = "reset"
      /\ u[4].op = "clear" /\ u[5].cell = c /\ t[1].op = "reset"
      /\ Count(x).op = "count" /\ Count(x).cell = x
  BY <1>1, <1>2, EntryForms
<1> HIDE DEF u
<1>4. Opens(u[1]) /\ Opens(t[1])
  BY <1>3 DEF Opens
<1>5. ASSUME NEW i \in 1..Len(u), u[i] = Count(x), x # c
      PROVE  \E j \in 1..Len(t) : t[j] = Count(x)
  <2>1. i \notin {1, 2, 3, 4, 5}
    BY <1>1, <1>3, <1>5
  <2>2. i - 4 \in 1..Len(t) /\ u[i] = t[i - 4]
    BY <1>1, <2>1
  <2> QED  BY <1>5, <2>2
<1>6. ASSUME NEW j \in 1..Len(t), t[j] = Count(x)
      PROVE  \E i \in 1..Len(u) : u[i] = Count(x)
  <2>1. j # 1
    BY <1>3, <1>6
  <2>2. j + 4 \in 1..Len(u) /\ u[j + 4] = t[j]
    BY <1>1, <2>1
  <2> QED  BY <1>6, <2>2
<1>7. 5 \in 1..Len(u)
  BY <1>1
<1>8. Off(u, x) <=> Off(t, x) \/ x = c
  BY <1>1, <1>4, <1>5, <1>6, <1>7 DEF Off
<1> QED  BY <1>8 DEF u

\* At the start of an operation no cell is off, nor when none is under way.
LEMMA OffPair ==
  ASSUME NEW c \in Cells, NEW e \in Entries, ~Opens(e), NEW x \in Cells
  PROVE  ~Off(Pair(c, e), x) /\ ~Off(<<>>, x)
<1>1. Opens(Reset(c)) /\ Reset(c) # Count(x) /\ e # Count(x)
  BY EntryForms DEF Opens
<1>2. \A i \in 1..2 : i = 1 \/ i = 2
  OBVIOUS
<1>3. 1..Len(<<>>) = {}
  OBVIOUS
<1> QED  BY <1>1, <1>2, <1>3, PairAt DEF Off

-----------------------------------------------------------------------------
(* Objects that wait for their delete *)

CellMaps == [Cells -> Objects \cup {Null}]
Counts == [Objects -> Nat]

\* The pointer whose reset waits for a delete still leads to the object, and
\* nobody owns that.
Waits(t, f, s) == \A x \in Strong : Counting(t, x) => f[x] \in Objects /\ s[f[x]] = 0

\* What waits on after a step came off the front waited before it.
LEMMA CountingTail ==
  ASSUME NEW t \in Seq(Entries), t # <<>>, NEW x, Counting(Tail(t), x)
  PROVE  Counting(t, x)
<1>1. /\ Len(t) \in Nat \ {0} /\ Len(Tail(t)) = Len(t) - 1
      /\ \A i \in 1..Len(t) - 1 : Tail(t)[i] = t[i + 1]
  BY SeqTail
<1>2. PICK i \in 1..Len(Tail(t)) : Tail(t)[i] = Count(x)
  BY DEF Counting
<1>3. i + 1 \in 1..Len(t) /\ t[i + 1] = Count(x)
  BY <1>1, <1>2
<1> QED  BY <1>3 DEF Counting

\* Nothing waits for a second delete of the same pointer, nor for one of the
\* pointer that is closed.
LEMMA CountedOnce ==
  ASSUME NEW t \in Seq(Entries), t # <<>>, Orderly(t), ~Circled(t), NEW x \in Strong,
         Counting(Tail(t), x)
  PROVE  x # t[1].cell
<1>1. /\ Len(t) \in Nat \ {0} /\ Len(Tail(t)) = Len(t) - 1 /\ t[1] \in Entries
      /\ \A i \in 1..Len(t) - 1 : Tail(t)[i] = t[i + 1]
  BY SeqTail
<1>2. PICK i \in 1..Len(Tail(t)) : Tail(t)[i] = Count(x)
  BY DEF Counting
<1>3. i + 1 \in 1..Len(t) /\ t[i + 1] = Count(x) /\ 1 < i + 1 /\ 1 \in 1..Len(t)
  BY <1>1, <1>2
<1> SUFFICES ASSUME x = t[1].cell PROVE FALSE
  OBVIOUS
<1>4. CASE t[1].op = "reset"
  BY <1>3, <1>4 DEF Circled, Counting
<1>5. CASE t[1].op = "count"
  <2>1. t[1] = Count(x)
    BY <1>1, <1>5, EntryForms
  <2>2. 1 = i + 1
    BY <1>3, <2>1 DEF Orderly
  <2> QED  BY <1>3, <2>2
<1>6. CASE ~Opens(t[1])
  <2>1. \E m \in 1..1 - 1 : t[m] = Reset(t[1].cell)
    BY <1>3, <1>6 DEF Orderly
  <2> QED  BY <2>1
<1> QED  BY <1>4, <1>5, <1>6 DEF Opens

\* What waits after destructors were pushed waited before, or is the cell that
\* was reset.
LEMMA CountingPushed ==
  ASSUME NEW t \in Seq(Entries), t # <<>>, NEW o \in Objects, NEW c \in Strong, NEW x,
         Counting(Pushed(t, o, c), x)
  PROVE  x = c \/ Counting(t, x)
<1> DEFINE u == Pushed(t, o, c)
<1>1. /\ Len(t) \in Nat \ {0} /\ Len(u) = Len(t) + 4
      /\ u[1] = Reset(Self(o)) /\ u[2] = Clear(Self(o)) /\ u[3] = Reset(Child(o))
      /\ u[4] = Clear(Child(o)) /\ u[5] = Count(c)
      /\ \A i \in 6..Len(t) + 4 : u[i] = t[i - 4]
  BY PushedAt, SeqTail
<1>2. PICK i \in 1..Len(u) : u[i] = Count(x)
  BY DEF Counting
<1> HIDE DEF u
<1>3. /\ u[1].op = "reset" /\ u[2].op = "clear" /\ u[3].op = "reset" /\ u[4].op = "clear"
      /\ u[5].cell = c /\ Count(x).op = "count" /\ Count(x).cell = x
  BY <1>1 DEF Count, Reset, Clear
<1>4. i # 1 /\ i # 2 /\ i # 3 /\ i # 4
  BY <1>2, <1>3
<1>5. CASE i = 5
  BY <1>2, <1>3, <1>5
<1>6. CASE i # 5
  <2>1. i - 4 \in 1..Len(t) /\ t[i - 4] = Count(x)
    BY <1>1, <1>2, <1>4, <1>6
  <2> QED  BY <2>1 DEF Counting
<1> QED  BY <1>5, <1>6

-----------------------------------------------------------------------------
(* Counting *)

\* The object each cell counts for (Counted), as a function.
Owning(t, f) == [x \in Cells |-> IF Off(t, x) THEN Null ELSE f[x]]

\* What the temporary of the operation under way holds (Temporaries).
Hand(t, kind) ==
  IF t # <<>> /\ t[Len(t)].op = "put" /\ t[Len(t)].cell \in kind
  THEN t[Len(t)].object ELSE Null

Holders(S, h, o) == {x \in S : h[x] = o}
Is(v, o) == IF v = o THEN 1 ELSE 0

\* CountsExact, with the temporary apart.
Tally(t, f, s, w, r) ==
  \A o \in Objects :
    /\ s[o] = Cardinality(Holders(Strong, Owning(t, f), o)) + Is(Hand(t, Strong), o)
    /\ w[o] + r[o] = Cardinality(Holders(Weak, Owning(t, f), o)) + Is(Hand(t, Weak), o)

\* The number of cells that hold o is a number, and it is 0 only when none does.
LEMMA HoldersCounted ==
  ASSUME NEW S, IsFiniteSet(S), NEW h, NEW o
  PROVE  /\ IsFiniteSet(Holders(S, h, o)) /\ Cardinality(Holders(S, h, o)) \in Nat
         /\ Cardinality(Holders(S, h, o)) = 0 <=> \A x \in S : h[x] # o
<1>1. IsFiniteSet(Holders(S, h, o))
  BY FS_Subset DEF Holders
<1>2. Holders(S, h, o) = {} <=> \A x \in S : h[x] # o
  BY DEF Holders
<1> QED  BY <1>1, <1>2, FS_EmptySet, FS_CardinalityType

\* When one cell of S changes hands, two numbers change.
LEMMA OneChanges ==
  ASSUME NEW S, IsFiniteSet(S), NEW h, NEW k, NEW c \in S, \A x \in S \ {c} : k[x] = h[x], NEW o
  PROVE  Cardinality(Holders(S, k, o)) + Is(h[c], o) = Cardinality(Holders(S, h, o)) + Is(k[c], o)
<1> DEFINE R == {x \in S \ {c} : h[x] = o}
<1>1. IsFiniteSet(R) /\ c \notin R
  <2>1. IsFiniteSet(S \ {c})
    BY FS_Subset
  <2> QED  BY <2>1, FS_Subset
<1>2. Holders(S, h, o) = IF h[c] = o THEN R \cup {c} ELSE R
  BY DEF Holders
<1>3. Holders(S, k, o) = IF k[c] = o THEN R \cup {c} ELSE R
  BY DEF Holders
<1>4. Cardinality(R \cup {c}) = Cardinality(R) + 1 /\ Cardinality(R) \in Nat
  BY <1>1, FS_AddElement, FS_CardinalityType
<1> HIDE DEF R
<1> QED  BY <1>2, <1>3, <1>4 DEF Is

\* Cells that keep what they hold leave the tally alone.
LEMMA NoneChanges ==
  ASSUME NEW S, NEW h, NEW k, \A x \in S : k[x] = h[x], NEW o
  PROVE  Holders(S, k, o) = Holders(S, h, o)
BY DEF Holders

\* Only the last step of an operation holds a temporary, so taking another step
\* off leaves it.
LEMMA HandTail ==
  ASSUME NEW t \in Seq(Entries), t # <<>>, Orderly(t), t[1].op # "put", NEW kind
  PROVE  Hand(Tail(t), kind) = Hand(t, kind)
<1> DEFINE u == Tail(t)
<1>1. /\ Len(t) \in Nat \ {0} /\ Len(u) = Len(t) - 1
      /\ \A i \in 1..Len(t) - 1 : u[i] = t[i + 1]
      /\ (u = <<>> <=> Len(t) = 1)
  BY SeqTail
<1> HIDE DEF u
<1>2. CASE Len(t) = 1
  BY <1>1, <1>2 DEF Hand, u
<1>3. CASE Len(t) # 1
  <2>1. u # <<>> /\ u[Len(u)] = t[Len(t)]
    BY <1>1, <1>3
  <2> QED  BY <2>1 DEF Hand, u
<1> QED  BY <1>2, <1>3

\* Pushing destructors leaves the temporary.
LEMMA HandPushed ==
  ASSUME NEW t \in Seq(Entries), t # <<>>, Orderly(t), NEW o \in Objects, NEW c \in Strong,
         t[1] = Reset(c), NEW kind
  PROVE  Hand(Pushed(t, o, c), kind) = Hand(t, kind)
<1> DEFINE u == Pushed(t, o, c)
<1>1. /\ Len(t) \in Nat \ {0} /\ Len(u) = Len(t) + 4 /\ u # <<>>
      /\ \A i \in 6..Len(t) + 4 : u[i] = t[i - 4]
  BY PushedAt, SeqTail
<1>2. 1 < Len(t)
  <2>1. t[1].op = "reset" /\ 1 \in 1..Len(t)
    BY <1>1, EntryForms DEF Cells
  <2> QED  BY <2>1 DEF Orderly, Opens
<1> HIDE DEF u
<1>3. u[Len(u)] = t[Len(t)]
  BY <1>1, <1>2
<1> QED  BY <1>1, <1>3 DEF Hand, u

\* At the start of an operation the temporary is what it will put.
LEMMA HandPair ==
  ASSUME NEW c \in Cells, NEW e \in Entries, NEW kind
  PROVE  /\ Hand(Pair(c, e), kind) = IF e.op = "put" /\ e.cell \in kind THEN e.object ELSE Null
         /\ Hand(<<>>, kind) = Null
<1>1. Pair(c, e)[Len(Pair(c, e))] = e /\ Pair(c, e) # <<>>
  BY PairAt
<1> QED  BY <1>1 DEF Hand

\* CountsExact is the tally.
LEMMA CountsAreTally ==
  ASSUME todo \in Seq(Entries), Orderly(todo), at \in CellMaps,
         Tally(todo, at, strong, weak, resets)
  PROVE  CountsExact
<1>0. Len(todo) \in Nat /\ DOMAIN todo = 1..Len(todo) /\ (todo # <<>> => Len(todo) \in 1..Len(todo))
  BY EmptySeq, LenProperties
<1>1. ASSUME NEW c \in Cells
      PROVE  Counted(c) = Owning(todo, at)[c]
  <2>1. Spent(c) <=> Off(todo, c)
    BY SpentIsOff
  <2> QED  BY <2>1 DEF Counted, Owning
<1>2. ASSUME NEW kind, NEW o \in Objects
      PROVE  Cardinality({i \in Temporaries(kind) : todo[i].object = o}) = Is(Hand(todo, kind), o)
  <2> DEFINE T == {i \in Temporaries(kind) : todo[i].object = o}
  <2>1. \A i \in Temporaries(kind) : i = Len(todo) /\ todo # <<>>
    <3>1. \A i \in 1..Len(todo) : todo[i].op = "put" => i = Len(todo)
      BY DEF Orderly
    <3>2. \A i \in 1..Len(todo) : todo # <<>>
      BY EmptySeq
    <3> QED  BY <3>1, <3>2, <1>0 DEF Temporaries
  <2>2. CASE Hand(todo, kind) = o
    <3>1. /\ todo # <<>> /\ todo[Len(todo)].op = "put" /\ todo[Len(todo)].cell \in kind
          /\ todo[Len(todo)].object = o
      BY <2>2, CellFacts DEF Hand
    <3>2. Len(todo) \in T
      BY <3>1, <1>0 DEF Temporaries
    <3>3. T = {Len(todo)}
      BY <3>2, <2>1
    <3> QED  BY <2>2, <3>3, FS_Singleton DEF Is
  <2>3. CASE Hand(todo, kind) # o
    <3>1. T = {}
      BY <2>1, <2>3, <1>0 DEF Temporaries, Hand
    <3> QED  BY <2>3, <3>1, FS_EmptySet DEF Is
  <2> QED  BY <2>2, <2>3
<1>3. ASSUME NEW S \in SUBSET Cells, NEW o \in Objects
      PROVE  {c \in S : Counted(c) = o} = Holders(S, Owning(todo, at), o)
  BY <1>1 DEF Holders
<1>4. Strong \in SUBSET Cells /\ Weak \in SUBSET Cells
  BY DEF Cells
<1>5. ASSUME NEW o \in Objects
      PROVE  /\ strong[o] = Cardinality({c \in Strong : Counted(c) = o})
                            + Cardinality({i \in Temporaries(Strong) : todo[i].object = o})
             /\ weak[o] + resets[o] = Cardinality({w \in Weak : Counted(w) = o})
                            + Cardinality({i \in Temporaries(Weak) : todo[i].object = o})
  <2>1. /\ {c \in Strong : Counted(c) = o} = Holders(Strong, Owning(todo, at), o)
        /\ {w \in Weak : Counted(w) = o} = Holders(Weak, Owning(todo, at), o)
    BY <1>3, <1>4
  <2>2. /\ Cardinality({i \in Temporaries(Strong) : todo[i].object = o}) = Is(Hand(todo, Strong), o)
        /\ Cardinality({i \in Temporaries(Weak) : todo[i].object = o}) = Is(Hand(todo, Weak), o)
    BY <1>2
  <2> QED  BY <2>1, <2>2 DEF Tally
<1> QED  BY <1>5 DEF CountsExact

\* BlockOutlivesPointers, for the temporary too.
Blocks(t, f, b, r) ==
  /\ \A x \in Cells : f[x] \in Objects \ b => r[f[x]] > 0 \/ Counting(t, x)
  /\ \A kind \in {Strong, Weak} : Hand(t, kind) \in Objects \ b => r[Hand(t, kind)] > 0

\* A delete that is under way stays so, until its own step is next.
LEMMA CountingOn ==
  ASSUME NEW t \in Seq(Entries), t # <<>>, NEW x, t[1] # Count(x), Counting(t, x)
  PROVE  /\ Counting(Tail(t), x)
         /\ \A o \in Objects : \A c \in Strong : Counting(Pushed(t, o, c), x)
<1>1. /\ Len(t) \in Nat \ {0} /\ Len(Tail(t)) = Len(t) - 1
      /\ \A i \in 1..Len(t) - 1 : Tail(t)[i] = t[i + 1]
  BY SeqTail
<1>2. PICK i \in 1..Len(t) : t[i] = Count(x)
  BY DEF Counting
<1>3. i - 1 \in 1..Len(t) - 1 /\ Tail(t)[i - 1] = t[i]
  <2>1. i # 1
    BY <1>2
  <2> QED  BY <2>1, <1>1
<1>4. Counting(Tail(t), x)
  BY <1>1, <1>2, <1>3 DEF Counting
<1>5. ASSUME NEW o \in Objects, NEW c \in Strong
      PROVE  Counting(Pushed(t, o, c), x)
  <2>1. Len(Pushed(t, o, c)) = Len(t) + 4 /\ \A j \in 6..Len(t) + 4 : Pushed(t, o, c)[j] = t[j - 4]
    BY PushedAt
  <2>2. i + 4 \in 6..Len(t) + 4 /\ (i + 4) - 4 = i /\ i + 4 \in 1..Len(t) + 4
    BY <1>1, <1>3
  <2>3. Pushed(t, o, c)[i + 4] = Count(x)
    BY <1>2, <2>1, <2>2
  <2> QED  BY <2>1, <2>2, <2>3 DEF Counting
<1> QED  BY <1>4, <1>5

\* When nothing counts for o any more, or c alone, every other cell that still
\* points to o is off, and so is the temporary.
LEMMA LastLeaves ==
  ASSUME todo \in Seq(Entries), at \in CellMaps,
         strong \in Counts, weak \in Counts, resets \in Counts,
         Tally(todo, at, strong, weak, resets),
         NEW o \in Objects, NEW c \in Cells, strong[o] = 0, resets[o] = 0,
         weak[o] = 0 \/ (weak[o] = 1 /\ c \in Weak /\ Owning(todo, at)[c] = o)
  PROVE  /\ \A x \in Cells \ {c} : at[x] = o => Off(todo, x)
         /\ Hand(todo, Strong) # o /\ Hand(todo, Weak) # o
<1> DEFINE h == Owning(todo, at)
           m == Cardinality(Holders(Strong, h, o))
           n == Cardinality(Holders(Weak, h, o))
<1>1. IsFiniteSet(Strong) /\ IsFiniteSet(Weak) /\ o # Null
  BY CellFacts
<1>2. m \in Nat /\ n \in Nat
  BY <1>1, HoldersCounted
<1>3. strong[o] = m + Is(Hand(todo, Strong), o) /\ weak[o] + resets[o] = n + Is(Hand(todo, Weak), o)
  BY DEF Tally
<1>4. /\ Is(Hand(todo, Strong), o) \in {0, 1} /\ Is(Hand(todo, Weak), o) \in {0, 1}
      /\ Is(Hand(todo, Strong), o) = 0 => Hand(todo, Strong) # o
      /\ Is(Hand(todo, Weak), o) = 0 => Hand(todo, Weak) # o
  BY DEF Is
<1>5. m = 0 /\ Hand(todo, Strong) # o
  <2> HIDE DEF m
  <2> QED  BY <1>2, <1>3, <1>4
<1>6. \A x \in Strong : h[x] # o
  BY <1>1, <1>5, HoldersCounted
<1>7. (\A x \in Weak \ {c} : h[x] # o) /\ Hand(todo, Weak) # o
  <2>1. CASE weak[o] = 0
    <3>1. n = 0 /\ Hand(todo, Weak) # o
      <4> HIDE DEF n
      <4> QED  BY <2>1, <1>2, <1>3, <1>4
    <3> QED  BY <3>1, <1>1, HoldersCounted
  <2>2. CASE weak[o] = 1 /\ c \in Weak /\ h[c] = o
    <3> DEFINE k == [x \in Weak |-> IF x = c THEN Null ELSE h[x]]
               d == Cardinality(Holders(Weak, k, o))
    <3>1. \A x \in Weak \ {c} : k[x] = h[x]
      OBVIOUS
    <3>2. k[c] = Null
      BY <2>2
    <3> HIDE DEF k
    <3>3. d + Is(h[c], o) = n + Is(k[c], o)
      BY <1>1, <2>2, <3>1, OneChanges
    <3>4. Is(h[c], o) = 1 /\ Is(k[c], o) = 0
      BY <1>1, <2>2, <3>2 DEF Is
    <3>5. d \in Nat
      BY <1>1, HoldersCounted
    <3>6. d = 0 /\ Hand(todo, Weak) # o
      <4>1. weak[o] = 1
        BY <2>2
      <4> HIDE DEF d, n
      <4> QED  BY <4>1, <1>2, <1>3, <1>4, <3>3, <3>4, <3>5
    <3>7. \A x \in Weak : k[x] # o
      BY <1>1, <3>6, HoldersCounted
    <3> QED  BY <3>1, <3>6, <3>7
  <2> QED  BY <2>1, <2>2
<1>8. \A x \in Cells : h[x] = IF Off(todo, x) THEN Null ELSE at[x]
  BY DEF Owning
<1> HIDE DEF h
<1> QED  BY <1>5, <1>6, <1>7, <1>8 DEF Cells

-----------------------------------------------------------------------------
(* The invariant *)

TypeOK ==
  /\ todo \in Seq(Entries)
  /\ at \in CellMaps
  /\ strong \in Counts /\ weak \in Counts /\ resets \in Counts
  /\ live \subseteq Objects /\ block \subseteq Objects

Frame ==
  /\ TypeOK /\ Orderly(todo) /\ Waits(todo, at, strong)

Books ==
  /\ Tally(todo, at, strong, weak, resets)
  /\ Blocks(todo, at, block, resets)

IInv == Frame /\ Books

\* A step that only takes away.
LEMMA Popped ==
  ASSUME Frame, todo # <<>>, ~Circled(todo), todo' = Tail(todo),
         at' \in CellMaps, \A x \in Cells \ {todo[1].cell} : at'[x] = at[x],
         strong' \in Counts, \A q \in Objects : strong[q] = 0 => strong'[q] = 0,
         weak' \in Counts, resets' \in Counts,
         live' \subseteq Objects, block' \subseteq Objects
  PROVE  Frame'
<1>1. todo \in Seq(Entries) /\ Orderly(todo) /\ Waits(todo, at, strong)
  BY DEF Frame, TypeOK
<1>2. Tail(todo) \in Seq(Entries)
  BY <1>1, SeqTail
<1>3. Orderly(Tail(todo))
  BY <1>1, TailOrderly
<1>4. ASSUME NEW x \in Strong, Counting(Tail(todo), x)
      PROVE  at'[x] \in Objects /\ strong'[at'[x]] = 0
  <2>1. Counting(todo, x) /\ x # todo[1].cell
    BY <1>1, <1>4, CountingTail, CountedOnce
  <2>2. at'[x] = at[x] /\ at[x] \in Objects /\ strong[at[x]] = 0
    BY <1>1, <2>1 DEF Waits, Cells
  <2> QED  BY <2>2
<1>5. Waits(Tail(todo), at', strong')
  BY <1>4 DEF Waits
<1> QED  BY <1>2, <1>3, <1>5 DEF Frame, TypeOK

-----------------------------------------------------------------------------
(* The small steps *)

\* At the reset of c, when it succeeds: c is counted, and a step is left for it.
LEMMA AtReset ==
  ASSUME Frame, todo # <<>>, NEW c \in Cells, todo[1] = Reset(c),
         c \in Weak \/ at[c] \notin Objects \/ strong[at[c]] # 0
  PROVE  /\ ~Off(todo, c) /\ todo[1].cell = c /\ todo[1].op = "reset"
         /\ ~Counting(todo, c) /\ ~Circled(todo)
         /\ \A x \in Cells : /\ todo[1] # Count(x)
                             /\ Off(Tail(todo), x) <=> Off(todo, x) \/ x = c
         /\ \A kind : Hand(Tail(todo), kind) = Hand(todo, kind)
         /\ \A x \in Weak : ~Off(todo, x)
<1>1. todo \in Seq(Entries) /\ Orderly(todo)
  BY DEF Frame, TypeOK
<1>2. todo[1].cell = c /\ todo[1].op = "reset" /\ Opens(todo[1])
  BY EntryForms DEF Opens
<1>3. \A x \in Cells : todo[1] # Count(x)
  BY <1>2, EntryForms
<1>4. ~Counting(todo, c)
  <2>1. c \in Strong => ~Counting(todo, c)
    BY CellFacts DEF Frame, Waits
  <2>2. ASSUME c \in Weak, Counting(todo, c) PROVE FALSE
    <3>1. PICK i \in 1..Len(todo) : todo[i] = Count(c)
      BY <2>2 DEF Counting
    <3>2. todo[i] \in Entries
      BY <1>1, ElementOfSeq
    <3>3. todo[i].op = "count" /\ todo[i].cell = c
      BY <3>1, EntryForms
    <3> QED  BY <2>2, <3>2, <3>3, EntryForms, CellFacts
  <2> QED  BY <2>1, <2>2 DEF Cells
<1>5. ~Circled(todo)
  BY <1>2, <1>4 DEF Circled
<1>6. ~Off(todo, c)
  BY <1>2, <1>4 DEF Off, Counting
<1>7. ASSUME NEW x \in Cells
      PROVE  Off(Tail(todo), x) <=> Off(todo, x) \/ x = c
  BY <1>1, <1>2, OffTail
<1>8. ASSUME NEW kind
      PROVE  Hand(Tail(todo), kind) = Hand(todo, kind)
  BY <1>1, <1>2, HandTail
<1>9. ASSUME NEW x \in Weak
      PROVE  ~Off(todo, x)
  <2>1. ASSUME NEW i \in 1..Len(todo), todo[i] = Count(x)
        PROVE  FALSE
    <3>1. todo[i] \in Entries
      BY <1>1, ElementOfSeq
    <3>2. todo[i].op = "count" /\ todo[i].cell = x
      BY <2>1, EntryForms DEF Cells
    <3> QED  BY <3>1, <3>2, EntryForms, CellFacts
  <2> QED  BY <1>2, <2>1 DEF Off
<1> QED  BY <1>2, <1>3, <1>4, <1>5, <1>6, <1>7, <1>8, <1>9

\* The reset of an empty pointer.
LEMMA SkipHolds ==
  ASSUME IInv, todo # <<>>, NEW c \in Cells, todo[1] = Reset(c), at[c] = Null,
         todo' = Tail(todo), UNCHANGED <<at, strong, weak, live, block, resets>>
  PROVE  IInv'
<1>1. /\ Frame /\ TypeOK /\ Tally(todo, at, strong, weak, resets) /\ Blocks(todo, at, block, resets)
      /\ at[c] \notin Objects
  BY CellFacts DEF IInv, Frame, Books
<1>2. todo[1].cell = c /\ todo[1].op = "reset" /\ ~Circled(todo)
  BY <1>1, AtReset
<1>3. Frame'
  BY <1>1, <1>2, Popped DEF TypeOK
<1>4. Owning(Tail(todo), at) = Owning(todo, at)
  <2>1. \A x \in Cells : Off(Tail(todo), x) <=> Off(todo, x) \/ x = c
    BY <1>1, AtReset
  <2> QED  BY <2>1 DEF Owning
<1>5. \A kind : Hand(Tail(todo), kind) = Hand(todo, kind)
  BY <1>1, AtReset
<1>6. Tally(Tail(todo), at, strong, weak, resets)
  BY <1>1, <1>4, <1>5 DEF Tally
<1>7. \A x \in Cells : Counting(todo, x) => Counting(Tail(todo), x)
  BY <1>1, AtReset, CountingOn DEF TypeOK
<1>8. Blocks(Tail(todo), at, block, resets)
  BY <1>1, <1>5, <1>7 DEF Blocks
<1> QED  BY <1>3, <1>6, <1>8 DEF IInv, Books

\* A shared pointer gives up its object: it is off, and one less is counted.
LEMMA ReleasedBooks ==
  ASSUME Frame, Books, NEW c \in Strong, ~Off(todo, c), NEW o \in Objects, at[c] = o,
         NEW u, \A x \in Cells : Off(u, x) <=> Off(todo, x) \/ x = c,
         \A kind : Hand(u, kind) = Hand(todo, kind),
         \A x \in Cells : Counting(todo, x) => Counting(u, x),
         NEW z \in Counts, z = [strong EXCEPT ![o] = @ - 1]
  PROVE  Tally(u, at, z, weak, resets) /\ Blocks(u, at, block, resets)
<1>1. /\ TypeOK /\ Tally(todo, at, strong, weak, resets) /\ Blocks(todo, at, block, resets)
  BY DEF Frame, Books
<1> DEFINE h == Owning(todo, at)
           k == Owning(u, at)
<1>2. /\ \A x \in Cells \ {c} : k[x] = h[x]
      /\ h[c] = o /\ k[c] = Null
  BY DEF Owning, Cells
<1> HIDE DEF h, k
<1>3. ASSUME NEW p \in Objects
      PROVE  z[p] = Cardinality(Holders(Strong, k, p)) + Is(Hand(u, Strong), p)
  <2> DEFINE m == Cardinality(Holders(Strong, k, p))
             n == Cardinality(Holders(Strong, h, p))
  <2>1. m + Is(h[c], p) = n + Is(k[c], p)
    <3>1. IsFiniteSet(Strong) /\ \A x \in Strong \ {c} : k[x] = h[x]
      BY <1>2, CellFacts DEF Cells
    <3> QED  BY <3>1, OneChanges
  <2>2. Is(k[c], p) = 0 /\ Is(h[c], p) = Is(o, p)
    BY <1>2, CellFacts DEF Is
  <2>3. strong[p] = n + Is(Hand(u, Strong), p)
    BY <1>1 DEF Tally, h
  <2>4. z[p] = strong[p] - Is(o, p)
    BY <1>1 DEF Is, TypeOK, Counts
  <2>5. m \in Nat /\ n \in Nat
    BY CellFacts, HoldersCounted
  <2>6. Is(o, p) \in Nat /\ Is(Hand(u, Strong), p) \in Nat
    BY DEF Is
  <2> HIDE DEF m, n
  <2>7. z[p] = m + Is(Hand(u, Strong), p)
    BY <2>1, <2>2, <2>3, <2>4, <2>5, <2>6
  <2> QED  BY <2>7 DEF m
<1>4. ASSUME NEW p \in Objects
      PROVE  weak[p] + resets[p] = Cardinality(Holders(Weak, k, p)) + Is(Hand(u, Weak), p)
  <2>1. \A x \in Weak : k[x] = h[x]
    BY <1>2, CellFacts DEF Cells
  <2>2. Holders(Weak, k, p) = Holders(Weak, h, p)
    BY <2>1, NoneChanges
  <2> QED  BY <1>1, <2>2 DEF Tally, h
<1>5. Tally(u, at, z, weak, resets)
  BY <1>3, <1>4 DEF Tally, k
<1>6. Blocks(u, at, block, resets)
  BY <1>1 DEF Blocks
<1> QED  BY <1>5, <1>6

\* shared_ptr::reset, with the members it may begin to destroy.
LEMMA ResetStrongHolds ==
  ASSUME IInv, todo # <<>>, NEW c \in Strong, todo[1] = Reset(c), ResetStrong(c)
  PROVE  IInv'
<1>1. /\ Frame /\ Books /\ TypeOK /\ Orderly(todo) /\ Waits(todo, at, strong)
  BY DEF IInv, Frame
<1>2. c \in Cells
  BY DEF Cells
<1>3. CASE at[c] = Null
  BY <1>2, <1>3, SkipHolds DEF ResetStrong
<1>4. CASE UNCHANGED <<at, strong, weak, live, block, todo, resets>>
  BY <1>4 DEF IInv, Frame, Books, TypeOK
<1>5. CASE at[c] # Null /\ strong[at[c]] # 0 /\ at[c] \in block
  <2> DEFINE o == at[c]
             z == [strong EXCEPT ![o] = @ - 1]
  <2>1. o \in Objects
    BY <1>1, <1>2, <1>5 DEF TypeOK, CellMaps
  <2>2. /\ strong' = z /\ UNCHANGED <<at, weak, live, block, resets>>
        /\ strong[o] = 1 => todo' = Pushed(todo, o, c)
        /\ strong[o] # 1 => todo' = <<>> \o Tail(todo)
    BY <1>5 DEF ResetStrong, Pushed
  <2>3. <<>> \o Tail(todo) = Tail(todo)
    BY <1>1, SeqTail, ConcatEmptySeq DEF TypeOK
  <2>4. /\ strong \in Counts /\ strong[o] \in Nat \ {0} /\ z \in Counts
        /\ z[o] = strong[o] - 1 /\ \A q \in Objects \ {o} : z[q] = strong[q]
    BY <1>1, <1>5, <2>1 DEF TypeOK, Counts
  <2>5. /\ ~Off(todo, c) /\ todo[1].cell = c /\ todo[1].op = "reset"
        /\ ~Counting(todo, c) /\ ~Circled(todo)
        /\ \A x \in Cells : todo[1] # Count(x)
    BY <1>1, <1>2, <1>5, AtReset
  <2> HIDE DEF z
  <2>6. CASE strong[o] # 1
    <3>1. todo' = Tail(todo)
      BY <2>2, <2>3, <2>6
    <3>2. \A q \in Objects : strong[q] = 0 => z[q] = 0
      BY <2>4
    <3>3. Frame'
      BY <1>1, <2>2, <2>4, <2>5, <3>1, <3>2, Popped DEF TypeOK
    <3>4. /\ \A x \in Cells : Off(Tail(todo), x) <=> Off(todo, x) \/ x = c
          /\ \A kind : Hand(Tail(todo), kind) = Hand(todo, kind)
      BY <1>1, <1>2, <1>5, AtReset
    <3>5. \A x \in Cells : Counting(todo, x) => Counting(Tail(todo), x)
      BY <1>1, <2>5, CountingOn DEF TypeOK
    <3>6. Tally(Tail(todo), at, z, weak, resets) /\ Blocks(Tail(todo), at, block, resets)
      BY <1>1, <2>1, <2>4, <2>5, <3>4, <3>5, ReleasedBooks DEF z
    <3> QED  BY <2>2, <3>1, <3>3, <3>6 DEF IInv, Books
  <2>7. CASE strong[o] = 1
    <3> DEFINE u == Pushed(todo, o, c)
    <3>1. todo' = u /\ z[o] = 0
      BY <2>2, <2>4, <2>7
    <3>2. todo \in Seq(Entries) /\ at \in CellMaps
      BY <1>1 DEF TypeOK
    <3>4. u \in Seq(Entries) /\ Orderly(u)
      BY <1>1, <2>1, <2>5, <3>2, PushedAt, PushedOrderly
    <3>5. Waits(u, at, z)
      <4>1. ASSUME NEW x \in Strong, Counting(u, x) PROVE at[x] \in Objects /\ z[at[x]] = 0
        <5>1. x = c \/ Counting(todo, x)
          BY <2>1, <3>2, <4>1, CountingPushed
        <5> QED  BY <1>1, <2>1, <2>4, <3>1, <5>1 DEF Waits
      <4> QED  BY <4>1 DEF Waits
    <3>7. Frame'
      BY <1>1, <2>2, <2>4, <3>1, <3>4, <3>5 DEF Frame, TypeOK
    <3>8. \A x \in Cells : Off(u, x) <=> Off(todo, x) \/ x = c
      BY <1>1, <2>1, <3>2, OffPushed
    <3>9. \A kind : Hand(u, kind) = Hand(todo, kind)
      BY <1>1, <2>1, <3>2, HandPushed
    <3>10. \A x \in Cells : Counting(todo, x) => Counting(u, x)
      BY <2>1, <2>5, <3>2, CountingOn
    <3>11. Tally(u, at, z, weak, resets) /\ Blocks(u, at, block, resets)
      <4> HIDE DEF u
      <4> QED  BY <1>1, <2>1, <2>4, <2>5, <3>8, <3>9, <3>10, ReleasedBooks DEF z
    <3> QED  BY <2>2, <3>1, <3>7, <3>11 DEF IInv, Books
  <2> QED  BY <2>6, <2>7
<1> QED  BY <1>3, <1>4, <1>5 DEF ResetStrong, Fail, Stop

\* A weak pointer gives up its object; the counter block goes with the last.
LEMMA LapsedBooks ==
  ASSUME TypeOK, Books, NEW c \in Weak, NEW o \in Objects, at[c] = o,
         \A x \in Weak : ~Off(todo, x),
         \A x \in Strong : Off(todo, x) => Counting(todo, x),
         NEW g \in CellMaps, \A x \in Cells \ {c} : g[x] = at[x], g[c] \in {at[c], Null},
         NEW u, Owning(u, g)[c] = Null,
         \A x \in Cells \ {c} : Off(u, x) <=> Off(todo, x),
         \A kind : Hand(u, kind) = Hand(todo, kind),
         \A x \in Cells : Counting(todo, x) => Counting(u, x),
         NEW z \in Counts, z = [weak EXCEPT ![o] = @ - 1],
         NEW b, \/ b = block
                \/ b = block \ {o} /\ weak[o] = 1 /\ strong[o] = 0 /\ g[c] = Null
  PROVE  Tally(u, g, strong, z, resets) /\ Blocks(u, g, b, resets)
<1>1. /\ Tally(todo, at, strong, weak, resets) /\ Blocks(todo, at, block, resets)
  BY DEF Books
<1>2. c \in Cells /\ c \notin Strong /\ IsFiniteSet(Weak) /\ o # Null /\ Weak \subseteq Cells
      /\ Strong \subseteq Cells
  BY CellFacts DEF Cells
<1> DEFINE h == Owning(todo, at)
           k == Owning(u, g)
<1>3. /\ \A x \in Cells \ {c} : k[x] = h[x]
      /\ h[c] = o /\ k[c] = Null
  BY <1>2 DEF Owning
<1> HIDE DEF h, k
<1>4. ASSUME NEW p \in Objects
      PROVE  z[p] + resets[p] = Cardinality(Holders(Weak, k, p)) + Is(Hand(u, Weak), p)
  <2> DEFINE m == Cardinality(Holders(Weak, k, p))
             n == Cardinality(Holders(Weak, h, p))
  <2>1. m + Is(h[c], p) = n + Is(k[c], p)
    <3>1. IsFiniteSet(Weak) /\ \A x \in Weak \ {c} : k[x] = h[x]
      BY <1>2, <1>3
    <3>2. c \in Weak
      OBVIOUS
    <3>3. \A S, hh, kk : \A cc \in S : IsFiniteSet(S) /\ (\A x \in S \ {cc} : kk[x] = hh[x])
              => Cardinality(Holders(S, kk, p)) + Is(hh[cc], p) = Cardinality(Holders(S, hh, p)) + Is(kk[cc], p)
      BY OneChanges
    <3> HIDE DEF m, n
    <3>4. Cardinality(Holders(Weak, k, p)) + Is(h[c], p) = Cardinality(Holders(Weak, h, p)) + Is(k[c], p)
      BY ONLY <3>1, <3>2, <3>3
    <3> QED  BY <3>4 DEF m, n
  <2>2. Is(k[c], p) = 0 /\ Is(h[c], p) = Is(o, p)
    BY <1>3, CellFacts DEF Is
  <2>3. weak[p] + resets[p] = n + Is(Hand(u, Weak), p)
    BY <1>1 DEF Tally, h
  <2>4. z[p] = weak[p] - Is(o, p) /\ weak[p] \in Nat /\ resets[p] \in Nat
    BY DEF Is, TypeOK, Counts
  <2>5. m \in Nat /\ n \in Nat
    BY CellFacts, HoldersCounted
  <2>6. Is(o, p) \in Nat /\ Is(Hand(u, Weak), p) \in Nat
    BY DEF Is
  <2> HIDE DEF m, n
  <2>7. z[p] + resets[p] = m + Is(Hand(u, Weak), p)
    BY <2>1, <2>2, <2>3, <2>4, <2>5, <2>6
  <2> QED  BY <2>7 DEF m
<1>5. ASSUME NEW p \in Objects
      PROVE  strong[p] = Cardinality(Holders(Strong, k, p)) + Is(Hand(u, Strong), p)
  <2>1. \A x \in Strong : k[x] = h[x]
    BY <1>2, <1>3
  <2>2. Holders(Strong, k, p) = Holders(Strong, h, p)
    BY <2>1, NoneChanges
  <2> QED  BY <1>1, <2>2 DEF Tally, h
<1>6. Tally(u, g, strong, z, resets)
  BY <1>4, <1>5 DEF Tally, k
<1> SUFFICES Blocks(u, g, b, resets)
  BY <1>6
<1>7. CASE b = block
  <2>1. \A x \in Cells : g[x] \in {at[x], Null}
    OBVIOUS
  <2> QED  BY <1>1, <1>2, <1>7, <2>1, CellFacts DEF Blocks
<1>8. CASE b = block \ {o} /\ weak[o] = 1 /\ strong[o] = 0 /\ g[c] = Null
  <2>1. CASE resets[o] > 0
    <3>1. \A x \in Cells : g[x] \in {at[x], Null}
      OBVIOUS
    <3>2. \A x \in Cells : g[x] \in Objects \ b => g[x] = o \/ (g[x] = at[x] /\ at[x] \in Objects \ block)
      BY <1>8, <3>1, CellFacts
    <3>3. \A kind : Hand(u, kind) \in Objects \ b => Hand(u, kind) = o \/ Hand(todo, kind) \in Objects \ block
      BY <1>8
    <3> QED  BY <1>1, <2>1, <3>2, <3>3 DEF Blocks
  <2>2. CASE ~(resets[o] > 0)
    <3>0. resets[o] = 0
      BY <2>2 DEF TypeOK, Counts
    <3>1. /\ \A x \in Cells \ {c} : at[x] = o => Off(todo, x)
          /\ Hand(todo, Strong) # o /\ Hand(todo, Weak) # o
      BY <1>1, <1>2, <1>3, <1>8, <3>0, LastLeaves DEF TypeOK, h
    <3>2. ASSUME NEW x \in Cells, g[x] \in Objects \ b
          PROVE  resets[g[x]] > 0 \/ Counting(u, x)
      <4>1. x # c
        BY <1>8, <3>2, CellFacts
      <4>2. CASE g[x] = o
        <5>1. Off(todo, x)
          BY <3>1, <4>1, <4>2
        <5> QED  BY <5>1 DEF Cells
      <4>3. CASE g[x] # o
        BY <1>1, <1>8, <3>2, <4>1, <4>3 DEF Blocks
      <4> QED  BY <4>2, <4>3
    <3>3. ASSUME NEW kind \in {Strong, Weak}, Hand(u, kind) \in Objects \ b
          PROVE  resets[Hand(u, kind)] > 0
      BY <1>1, <1>8, <3>1, <3>3 DEF Blocks
    <3> QED  BY <3>2, <3>3 DEF Blocks
  <2> QED  BY <2>1, <2>2
<1> QED  BY <1>6, <1>7, <1>8

\* What weak_ptr::reset of a pointer to o may do to the counts and the block.
LEMMA WeakResetForms ==
  ASSUME TypeOK, NEW c \in Weak, NEW rest, WeakReset(c, rest)
  PROVE  \/ UNCHANGED <<at, strong, weak, live, block, todo>> /\ fault' # "none"
         \/ /\ at[c] = Null /\ todo' = rest
            /\ UNCHANGED <<at, strong, weak, live, block, fault>>
         \/ /\ at[c] \in Objects /\ todo' = rest /\ UNCHANGED <<strong, live, fault>>
            /\ weak' = [weak EXCEPT ![at[c]] = @ - 1] /\ weak' \in Counts
            /\ at' \in CellMaps /\ \A x \in Cells \ {c} : at'[x] = at[x]
            /\ \/ block' = block /\ at' = at
               \/ /\ block' = block \ {at[c]} /\ at'[c] = Null
                  /\ weak[at[c]] = 1 /\ strong[at[c]] = 0
<1>1. c \in Cells
  BY DEF Cells
<1>2. CASE at[c] = Null
  BY <1>2 DEF WeakReset
<1>3. CASE at[c] # Null /\ (at[c] \notin block \/ weak[at[c]] = 0)
  BY <1>3 DEF WeakReset, Stop
<1>4. CASE at[c] # Null /\ at[c] \in block /\ weak[at[c]] # 0
  <2>1. at[c] \in Objects
    BY <1>1, <1>4 DEF TypeOK, CellMaps
  <2>2. [weak EXCEPT ![at[c]] = @ - 1] \in Counts
    BY <1>4, <2>1 DEF TypeOK, Counts
  <2>3. /\ [at EXCEPT ![c] = Null] \in CellMaps /\ [at EXCEPT ![c] = Null][c] = Null
        /\ \A x \in Cells \ {c} : [at EXCEPT ![c] = Null][x] = at[x]
    BY <1>1 DEF TypeOK, CellMaps
  <2>4. /\ weak' = [weak EXCEPT ![at[c]] = @ - 1] /\ todo' = rest
        /\ UNCHANGED <<strong, live, fault>>
        /\ IF weak[at[c]] = 1 /\ strong[at[c]] = 0
           THEN block' = block \ {at[c]} /\ at' = [at EXCEPT ![c] = Null]
           ELSE UNCHANGED <<block, at>>
    BY <1>4 DEF WeakReset
  <2> QED  BY <2>1, <2>2, <2>3, <2>4 DEF TypeOK
<1> QED  BY <1>2, <1>3, <1>4

\* weak_ptr::reset of a destructor or an assignment.
LEMMA ResetWeakHolds ==
  ASSUME IInv, todo # <<>>, NEW c \in Weak, todo[1] = Reset(c),
         WeakReset(c, Tail(todo)), UNCHANGED resets
  PROVE  IInv'
<1>1. /\ Frame /\ Books /\ TypeOK /\ Orderly(todo)
  BY DEF IInv, Frame
<1>2. c \in Cells
  BY DEF Cells
<1>3. CASE UNCHANGED <<at, strong, weak, live, block, todo>>
  BY <1>3 DEF IInv, Frame, Books, TypeOK
<1>4. CASE /\ at[c] = Null /\ todo' = Tail(todo)
           /\ UNCHANGED <<at, strong, weak, live, block, fault>>
  BY <1>2, <1>4, SkipHolds
<1>5. CASE /\ at[c] \in Objects /\ todo' = Tail(todo) /\ UNCHANGED <<strong, live, fault>>
           /\ weak' = [weak EXCEPT ![at[c]] = @ - 1] /\ weak' \in Counts
           /\ at' \in CellMaps /\ \A x \in Cells \ {c} : at'[x] = at[x]
           /\ \/ block' = block /\ at' = at
              \/ /\ block' = block \ {at[c]} /\ at'[c] = Null
                 /\ weak[at[c]] = 1 /\ strong[at[c]] = 0
  <2>1. /\ ~Off(todo, c) /\ todo[1].cell = c /\ todo[1].op = "reset" /\ ~Circled(todo)
        /\ \A x \in Cells : /\ todo[1] # Count(x)
                            /\ Off(Tail(todo), x) <=> Off(todo, x) \/ x = c
        /\ \A kind : Hand(Tail(todo), kind) = Hand(todo, kind)
        /\ \A x \in Weak : ~Off(todo, x)
    BY <1>1, <1>2, AtReset
  <2>2. at'[c] \in {at[c], Null} /\ block' \subseteq Objects
    BY <1>1, <1>5 DEF TypeOK
  <2>3. Frame'
    BY <1>1, <1>5, <2>1, <2>2, Popped DEF TypeOK
  <2>4. \A x \in Cells : Counting(todo, x) => Counting(Tail(todo), x)
    BY <1>1, <2>1, CountingOn DEF TypeOK
  <2>5. \A x \in Strong : Off(todo, x) => Counting(todo, x)
    BY <2>1 DEF Off, Counting, Opens
  <2>6. Owning(Tail(todo), at')[c] = Null
    BY <1>2, <2>1 DEF Owning
  <2>7. /\ \A x \in Cells \ {c} : Off(Tail(todo), x) <=> Off(todo, x)
        /\ \/ block' = block
           \/ block' = block \ {at[c]} /\ weak[at[c]] = 1 /\ strong[at[c]] = 0 /\ at'[c] = Null
    BY <1>5, <2>1
  <2>8. /\ Tally(Tail(todo), at', strong, weak', resets)
        /\ Blocks(Tail(todo), at', block', resets)
    BY <1>1, <1>5, <2>1, <2>2, <2>4, <2>5, <2>6, <2>7, LapsedBooks
  <2> QED  BY <1>5, <2>3, <2>8 DEF IInv, Books
<1> QED  BY <1>1, <1>3, <1>4, <1>5, WeakResetForms

\* weak_ptr::reset called by name: the weak count goes down and the pointer
\* may stay, which the tally pays with the resets.
LEMMA ResetByNameHolds ==
  ASSUME IInv, NEW c \in Weak, ResetByName(c)
  PROVE  IInv'
<1>1. /\ Frame /\ Books /\ TypeOK /\ Orderly(todo)
      /\ Tally(todo, at, strong, weak, resets) /\ Blocks(todo, at, block, resets)
  BY DEF IInv, Frame, Books
<1>2. c \in Cells
  BY DEF Cells
<1>3. /\ todo = <<>> /\ fault = "none" /\ at[c] # Null /\ WeakReset(c, <<>>)
      /\ resets' = IF at'[c] = at[c] /\ fault' = "none"
                   THEN [resets EXCEPT ![at[c]] = @ + 1] ELSE resets
  BY DEF ResetByName, Ready
<1>4. CASE UNCHANGED <<at, strong, weak, live, block, todo>> /\ fault' # "none"
  BY <1>3, <1>4 DEF IInv, Frame, Books, TypeOK
<1>5. CASE /\ at[c] \in Objects /\ todo' = <<>> /\ UNCHANGED <<strong, live, fault>>
           /\ weak' = [weak EXCEPT ![at[c]] = @ - 1] /\ weak' \in Counts
           /\ at' \in CellMaps /\ \A x \in Cells \ {c} : at'[x] = at[x]
           /\ \/ block' = block /\ at' = at
              \/ /\ block' = block \ {at[c]} /\ at'[c] = Null
                 /\ weak[at[c]] = 1 /\ strong[at[c]] = 0
  <2>0. /\ todo' = todo /\ \A x : ~Off(todo, x) /\ (Counting(todo, x) => FALSE)
        /\ \A kind : Hand(todo, kind) = Null
    <3>1. \A i \in 1..Len(<<>>) : FALSE
      OBVIOUS
    <3> QED  BY <1>3, <1>5, <3>1 DEF Off, Counting, Hand
  <2>1. block' \subseteq Objects /\ resets' \in Counts
    <3>1. [resets EXCEPT ![at[c]] = @ + 1] \in Counts
      BY <1>1, <1>5 DEF TypeOK, Counts
    <3> QED  BY <1>1, <1>3, <1>5, <3>1 DEF TypeOK
  <2>4. Frame'
    BY <1>1, <1>5, <2>0, <2>1 DEF Frame, TypeOK, Waits
  <2>5. CASE block' = block \ {at[c]} /\ at'[c] = Null /\ weak[at[c]] = 1 /\ strong[at[c]] = 0
    <3>1. resets' = resets
      BY <1>3, <2>5
    <3>2. Owning(todo, at')[c] = Null
      BY <1>2, <2>5 DEF Owning
    <3>3. Tally(todo, at', strong, weak', resets) /\ Blocks(todo, at', block', resets)
      BY <1>1, <1>5, <2>0, <2>5, <3>2, LapsedBooks
    <3> QED  BY <1>5, <2>0, <2>4, <3>1, <3>3 DEF IInv, Books
  <2>6. CASE block' = block /\ at' = at
    <3>1. resets' = [resets EXCEPT ![at[c]] = @ + 1]
      BY <1>3, <1>5, <2>6
    <3>2. \A p \in Objects : weak'[p] + resets'[p] = weak[p] + resets[p]
      BY <1>1, <1>5, <3>1 DEF TypeOK, Counts
    <3>3. Tally(todo, at, strong, weak', resets')
      BY <1>1, <3>2 DEF Tally
    <3>4. \A p \in Objects : resets[p] > 0 => resets'[p] > 0
      BY <1>1, <3>1 DEF TypeOK, Counts
    <3>5. Blocks(todo, at, block, resets')
      BY <1>1, <3>4 DEF Blocks
    <3> QED  BY <1>5, <2>0, <2>4, <2>6, <3>3, <3>5 DEF IInv, Books
  <2> QED  BY <1>5, <2>5, <2>6
<1> QED  BY <1>1, <1>3, <1>4, <1>5, WeakResetForms

\* The look at the counter block after a delete.
LEMMA CountHolds ==
  ASSUME IInv, todo # <<>>, NEW c \in Strong, todo[1] = Count(c), CountWeak(c)
  PROVE  IInv'
<1>1. /\ Frame /\ Books /\ TypeOK /\ Orderly(todo) /\ Waits(todo, at, strong)
      /\ Tally(todo, at, strong, weak, resets) /\ Blocks(todo, at, block, resets)
      /\ todo \in Seq(Entries) /\ at \in CellMaps /\ Len(todo) \in Nat \ {0}
  BY SeqTail DEF IInv, Frame, Books, TypeOK
<1>2. /\ c \in Cells /\ todo[1].cell = c /\ todo[1].op = "count" /\ Opens(todo[1]) /\ ~Circled(todo)
  BY EntryForms DEF Cells, Opens, Circled
<1> DEFINE o == at[c]
<1>3. o \in Objects /\ strong[o] = 0
  <2>1. Counting(todo, c)
    BY <1>1 DEF Counting
  <2> QED  BY <1>1, <2>1 DEF Waits
<1>4. /\ \A x \in Cells : Off(Tail(todo), x) <=> Off(todo, x)
      /\ \A kind : Hand(Tail(todo), kind) = Hand(todo, kind)
      /\ Off(todo, c)
  <2>1. Off(todo, c)
    <3>1. 1 \in 1..Len(todo)
      BY <1>1
    <3> QED  BY <3>1 DEF Off
  <2>2. \A x \in Cells : Off(Tail(todo), x) <=> Off(todo, x)
    BY <1>1, <1>2, OffTail
  <2>3. \A kind : Hand(Tail(todo), kind) = Hand(todo, kind)
    BY <1>1, <1>2, HandTail
  <2> QED  BY <2>1, <2>2, <2>3
<1>5. \A x \in Cells \ {c} : Counting(todo, x) => Counting(Tail(todo), x)
  <2>1. \A x \in Cells \ {c} : todo[1] # Count(x)
    BY <1>2, EntryForms
  <2> QED  BY <1>1, <2>1, CountingOn
<1>6. \A x \in Cells : Off(todo, x) => Counting(todo, x)
  BY <1>2 DEF Off, Counting
<1>7. CASE o \notin block
  BY <1>1, <1>7 DEF CountWeak, Fail, Stop, IInv, Frame, Books, TypeOK
<1>8. CASE o \in block
  <2>1. /\ live' = live \ {o} /\ todo' = Tail(todo) /\ UNCHANGED <<strong, weak, resets>>
        /\ IF weak[o] = 0 THEN block' = block \ {o} /\ at' = [at EXCEPT ![c] = Null]
                          ELSE UNCHANGED <<block, at>>
    BY <1>8 DEF CountWeak
  <2>2. /\ at' \in CellMaps /\ \A x \in Cells \ {c} : at'[x] = at[x]
        /\ at'[c] \in {at[c], Null} /\ block' \subseteq Objects
        /\ weak[o] = 0 => at'[c] = Null /\ block' = block \ {o}
        /\ weak[o] # 0 => at' = at /\ block' = block
    <3>1. /\ [at EXCEPT ![c] = Null] \in CellMaps /\ [at EXCEPT ![c] = Null][c] = Null
          /\ \A x \in Cells \ {c} : [at EXCEPT ![c] = Null][x] = at[x]
      BY <1>1, <1>2 DEF CellMaps
    <3> QED  BY <1>1, <2>1, <3>1 DEF TypeOK
  <2>3. Frame'
    <3>1. live' \subseteq Objects
      BY <1>1, <2>1 DEF TypeOK
    <3> QED  BY <1>1, <1>2, <2>1, <2>2, <3>1, Popped DEF TypeOK
  <2>4. Owning(Tail(todo), at') = Owning(todo, at)
    BY <1>4, <2>2 DEF Owning
  <2>5. Tally(Tail(todo), at', strong, weak, resets)
    BY <1>1, <1>4, <2>4 DEF Tally
  <2>6. Blocks(Tail(todo), at', block', resets)
    <3>1. CASE weak[o] # 0
      <4>1. ASSUME NEW x \in Cells, at[x] \in Objects \ block
            PROVE  resets[at[x]] > 0 \/ Counting(Tail(todo), x)
        BY <1>1, <1>5, <1>8, <4>1 DEF Blocks
      <4> QED  BY <1>1, <1>4, <2>2, <3>1, <4>1 DEF Blocks
    <3>2. CASE weak[o] = 0 /\ resets[o] > 0
      <4>1. ASSUME NEW x \in Cells, at'[x] \in Objects \ block'
            PROVE  resets[at'[x]] > 0 \/ Counting(Tail(todo), x)
        <5>1. x # c /\ at'[x] = at[x]
          BY <2>2, <3>2, <4>1, CellFacts
        <5>2. at[x] = o \/ at[x] \in Objects \ block
          BY <2>2, <3>2, <4>1, <5>1
        <5> QED  BY <1>1, <1>5, <3>2, <5>1, <5>2 DEF Blocks
      <4>2. ASSUME NEW kind \in {Strong, Weak}, Hand(todo, kind) \in Objects \ block'
            PROVE  resets[Hand(todo, kind)] > 0
        BY <1>1, <2>2, <3>2, <4>2 DEF Blocks
      <4> QED  BY <1>4, <4>1, <4>2 DEF Blocks
    <3>3. CASE weak[o] = 0 /\ resets[o] = 0
      <4>1. /\ \A x \in Cells \ {c} : at[x] = o => Off(todo, x)
            /\ Hand(todo, Strong) # o /\ Hand(todo, Weak) # o
        <5>1. strong \in Counts /\ weak \in Counts /\ resets \in Counts
          BY <1>1 DEF TypeOK
        <5>2. /\ todo \in Seq(Entries) /\ at \in CellMaps /\ Tally(todo, at, strong, weak, resets)
              /\ o \in Objects /\ c \in Cells /\ strong[o] = 0 /\ resets[o] = 0 /\ weak[o] = 0
          BY <1>1, <1>2, <1>3, <3>3
        <5> QED  BY <5>1, <5>2, LastLeaves
      <4>2. ASSUME NEW x \in Cells, at'[x] \in Objects \ block'
            PROVE  resets[at'[x]] > 0 \/ Counting(Tail(todo), x)
        <5>1. x # c /\ at'[x] = at[x]
          BY <2>2, <3>3, <4>2, CellFacts
        <5>2. at[x] = o \/ at[x] \in Objects \ block
          BY <2>2, <3>3, <4>2, <5>1
        <5> QED  BY <1>1, <1>5, <1>6, <4>1, <5>1, <5>2 DEF Blocks
      <4>3. ASSUME NEW kind \in {Strong, Weak}, Hand(todo, kind) \in Objects \ block'
            PROVE  resets[Hand(todo, kind)] > 0
        BY <1>1, <2>2, <3>3, <4>1, <4>3 DEF Blocks
      <4> QED  BY <1>4, <4>2, <4>3 DEF Blocks
    <3>4. resets[o] \in Nat
      BY <1>1, <1>3 DEF TypeOK, Counts
    <3>5. resets[o] > 0 \/ resets[o] = 0
      BY <3>4
    <3> QED  BY <3>1, <3>2, <3>3, <3>5
  <2> QED  BY <2>1, <2>3, <2>5, <2>6 DEF IInv, Books
<1> QED  BY <1>7, <1>8

\* A cell goes out of scope.
LEMMA ClearHolds ==
  ASSUME IInv, todo # <<>>, NEW c \in Cells, todo[1] = Clear(c), Assign(c, Null)
  PROVE  IInv'
<1>1. /\ Frame /\ Books /\ TypeOK /\ Orderly(todo)
      /\ Tally(todo, at, strong, weak, resets) /\ Blocks(todo, at, block, resets)
      /\ todo \in Seq(Entries) /\ at \in CellMaps
  BY DEF IInv, Frame, Books, TypeOK
<1>2. /\ todo[1].cell = c /\ todo[1].op = "clear" /\ ~Opens(todo[1]) /\ ~Circled(todo)
      /\ \A x \in Cells : todo[1] # Count(x)
  BY EntryForms DEF Opens, Circled
<1>3. CASE ~Present(c)
  BY <1>1, <1>3 DEF Assign, Fail, Stop, IInv, Frame, Books, TypeOK
<1>4. CASE Present(c)
  <2>1. /\ at' = [at EXCEPT ![c] = Null] /\ todo' = Tail(todo)
        /\ UNCHANGED <<strong, weak, live, block, resets>>
    BY <1>4 DEF Assign
  <2>2. /\ at' \in CellMaps /\ at'[c] = Null /\ \A x \in Cells \ {c} : at'[x] = at[x]
    BY <1>1, <2>1 DEF CellMaps
  <2>3. Frame'
    BY <1>1, <1>2, <2>1, <2>2, Popped DEF TypeOK
  <2>4. /\ \A x \in Cells : Off(Tail(todo), x) <=> Off(todo, x) /\ x # c
        /\ Off(todo, c)
    BY <1>1, <1>2, OffTail
  <2>5. Owning(Tail(todo), at') = Owning(todo, at)
    BY <2>2, <2>4 DEF Owning
  <2>6. \A kind : Hand(Tail(todo), kind) = Hand(todo, kind)
    BY <1>1, <1>2, HandTail
  <2>7. Tally(Tail(todo), at', strong, weak, resets)
    BY <1>1, <2>5, <2>6 DEF Tally
  <2>8. \A x \in Cells : Counting(todo, x) => Counting(Tail(todo), x)
    BY <1>1, <1>2, CountingOn
  <2>9. Blocks(Tail(todo), at', block, resets)
    <3>1. \A x \in Cells : at'[x] \in Objects \ block => at'[x] = at[x]
      BY <2>2, CellFacts
    <3> QED  BY <1>1, <2>6, <2>8, <3>1 DEF Blocks
  <2> QED  BY <2>1, <2>3, <2>7, <2>9 DEF IInv, Books
<1> QED  BY <1>3, <1>4

\* The assignment an operation ends with is its last step.
LEMMA AtAssignment ==
  ASSUME Frame, todo # <<>>, todo[1].op \in {"copy", "move", "put"}
  PROVE  /\ todo[1] \in Entries /\ todo[1].cell \in Cells /\ Tail(todo) = <<>>
         /\ \A x \in Cells : Off(todo, x) <=> x = todo[1].cell
         /\ \A x \in Cells : ~Counting(todo, x)
         /\ \A x : ~Off(<<>>, x) /\ ~Counting(<<>>, x)
         /\ \A kind : /\ Hand(<<>>, kind) = Null
                      /\ Hand(todo, kind) = IF todo[1].op = "put" /\ todo[1].cell \in kind
                                            THEN todo[1].object ELSE Null
         /\ todo[1].op \in {"copy", "move"} =>
              /\ todo[1].from \in Cells \ {todo[1].cell}
              /\ todo[1].from \in Strong <=> todo[1].cell \in Strong
         /\ todo[1].op = "put" => todo[1].object \in Objects \cup {Null}
<1>1. todo \in Seq(Entries) /\ Orderly(todo)
  BY DEF Frame, TypeOK
<1>2. /\ Len(todo) \in Nat \ {0} /\ todo[1] \in Entries
      /\ Tail(todo) = <<>> <=> Len(todo) = 1
  BY <1>1, SeqTail
<1>3. 1 \in 1..Len(todo)
  BY <1>2
<1>4. Len(todo) = 1
  BY <1>1, <1>3 DEF Orderly
<1>5. ~Opens(todo[1])
  BY DEF Opens
<1>6. \A i \in 1..Len(<<>>) : FALSE
  OBVIOUS
<1>7. \A x : ~Off(<<>>, x) /\ ~Counting(<<>>, x)
  BY <1>6 DEF Off, Counting
<1>8. \A x \in Cells : Off(todo, x) <=> x = todo[1].cell
  <2>1. ASSUME NEW x \in Cells PROVE Off(todo, x) <=> x = todo[1].cell
    <3>1. (Off(Tail(todo), x) <=> Off(todo, x) /\ x # todo[1].cell) /\ Off(todo, todo[1].cell)
      BY <1>1, <1>5, OffTail
    <3> QED  BY <1>2, <1>4, <1>7, <3>1
  <2> QED  BY <2>1
<1>9. \A x \in Cells : ~Counting(todo, x)
  <2>1. \A x \in Cells : todo[1] # Count(x)
    BY EntryForms
  <2>2. \A i \in 1..Len(todo) : i = 1
    BY <1>4
  <2> QED  BY <2>1, <2>2 DEF Counting
<1>10. \A kind : /\ Hand(<<>>, kind) = Null
                 /\ Hand(todo, kind) = IF todo[1].op = "put" /\ todo[1].cell \in kind
                                       THEN todo[1].object ELSE Null
  BY <1>4 DEF Hand
<1>11. todo[1].op \in {"copy", "move"} =>
         /\ todo[1].from \in Cells \ {todo[1].cell}
         /\ todo[1].from \in Strong <=> todo[1].cell \in Strong
  BY <1>1, <1>2, <1>3, EntryForms DEF Orderly
<1>12. todo[1].op = "put" => todo[1].object \in Objects \cup {Null}
  BY <1>1, <1>2, <1>3, EntryForms
<1> QED  BY <1>2, <1>4, <1>7, <1>8, <1>9, <1>10, <1>11, <1>12, EntryForms

\* The assignment that ends an operation keeps the frame: nothing is left to do.
LEMMA Assigned ==
  ASSUME Frame, todo' = <<>>, at' \in CellMaps, strong' \in Counts, weak' \in Counts,
         UNCHANGED <<live, block, resets>>
  PROVE  Frame'
<1>1. (\A i \in 1..Len(<<>>) : FALSE) /\ (\A i \in 2..Len(<<>>) : FALSE) /\ <<>> \in Seq(Entries)
  BY EmptySeq
<1>2. Orderly(<<>>) /\ Waits(<<>>, at', strong')
  BY <1>1 DEF Orderly, Waits, Counting
<1> QED  BY <1>1, <1>2 DEF Frame, TypeOK

\* The counts after an assignment: c was off, and now holds v.
LEMMA AssignedCounts ==
  ASSUME NEW S, IsFiniteSet(S), NEW h, NEW k, NEW c \in S, h[c] = Null,
         \A x \in S \ {c} : k[x] = h[x], NEW p \in Objects
  PROVE  Cardinality(Holders(S, k, p)) = Cardinality(Holders(S, h, p)) + Is(k[c], p)
<1> DEFINE m == Cardinality(Holders(S, k, p))
           n == Cardinality(Holders(S, h, p))
<1>1. m + Is(h[c], p) = n + Is(k[c], p)
  BY OneChanges
<1>2. Is(h[c], p) = 0 /\ Is(k[c], p) \in Nat
  BY CellFacts DEF Is
<1>3. m \in Nat /\ n \in Nat
  BY HoldersCounted
<1> HIDE DEF m, n
<1>4. m = n + Is(k[c], p)
  BY <1>1, <1>2, <1>3
<1> QED  BY <1>4 DEF m, n

\* Add counts one more pointer of c's kind.
LEMMA AddCounts ==
  ASSUME TypeOK, NEW c \in Cells, NEW o \in Objects, Add(c, o)
  PROVE  /\ strong' \in Counts /\ weak' \in Counts
         /\ \A p \in Objects :
              /\ strong'[p] = strong[p] + IF c \in Strong THEN Is(o, p) ELSE 0
              /\ weak'[p] = weak[p] + IF c \in Strong THEN 0 ELSE Is(o, p)
<1>1. /\ strong \in [Objects -> Nat] /\ weak \in [Objects -> Nat]
  BY DEF TypeOK, Counts
<1>2. CASE c \in Strong
  <2>1. strong' = [strong EXCEPT ![o] = @ + 1] /\ weak' = weak
    BY <1>2 DEF Add
  <2> QED  BY <1>1, <1>2, <2>1 DEF Counts, Is
<1>3. CASE c \notin Strong
  <2>1. weak' = [weak EXCEPT ![o] = @ + 1] /\ strong' = strong
    BY <1>3 DEF Add
  <2> QED  BY <1>1, <1>3, <2>1 DEF Counts, Is
<1> QED  BY <1>2, <1>3

\* The books after the last step of an operation, c assigned and the others
\* left alone.
LEMMA AssignedBooks ==
  ASSUME Frame, Books, todo # <<>>, todo[1].op \in {"copy", "put"}, NEW c \in Cells,
         todo[1].cell = c, NEW g \in CellMaps, \A x \in Cells \ {c} : g[x] = at[x],
         NEW s \in Counts, NEW w \in Counts,
         \A p \in Objects :
           /\ s[p] = strong[p] + IF c \in Strong THEN Is(g[c], p) - Is(Hand(todo, Strong), p) ELSE 0
           /\ w[p] = weak[p] + IF c \in Strong THEN 0 ELSE Is(g[c], p) - Is(Hand(todo, Weak), p),
         g[c] \in Objects \ block => resets[g[c]] > 0
  PROVE  Tally(<<>>, g, s, w, resets) /\ Blocks(<<>>, g, block, resets)
<1>1. /\ TypeOK /\ Tally(todo, at, strong, weak, resets) /\ Blocks(todo, at, block, resets)
      /\ strong \in Counts /\ weak \in Counts /\ resets \in Counts
  BY DEF Frame, Books, TypeOK
<1>2. /\ \A x \in Cells : Off(todo, x) <=> x = c
      /\ \A x \in Cells : ~Counting(todo, x)
      /\ \A x : ~Off(<<>>, x) /\ ~Counting(<<>>, x)
      /\ \A kind : /\ Hand(<<>>, kind) = Null
                   /\ Hand(todo, kind) = IF todo[1].op = "put" /\ c \in kind
                                         THEN todo[1].object ELSE Null
  BY AtAssignment
<1> DEFINE h == Owning(todo, at)
           k == Owning(<<>>, g)
<1>3. h[c] = Null /\ k[c] = g[c] /\ \A x \in Cells \ {c} : k[x] = h[x]
  BY <1>2 DEF Owning
<1> HIDE DEF h, k
<1>4. /\ \A p \in Objects : Is(Hand(<<>>, Strong), p) = 0 /\ Is(Hand(<<>>, Weak), p) = 0
      /\ \A p \in Objects : c \in Strong => Is(Hand(todo, Weak), p) = 0
      /\ \A p \in Objects : c \notin Strong => Is(Hand(todo, Strong), p) = 0
      /\ \A v, p : Is(v, p) \in Nat
  BY <1>2, CellFacts DEF Is
<1>5. Strong \subseteq Cells /\ Weak \subseteq Cells /\ (c \in Strong => c \notin Weak)
      /\ (c \notin Strong => c \in Weak) /\ IsFiniteSet(Strong) /\ IsFiniteSet(Weak)
  BY CellFacts DEF Cells
<1>6. ASSUME NEW p \in Objects
      PROVE  /\ s[p] = Cardinality(Holders(Strong, k, p)) + Is(Hand(<<>>, Strong), p)
             /\ w[p] + resets[p] = Cardinality(Holders(Weak, k, p)) + Is(Hand(<<>>, Weak), p)
  <2> DEFINE m == Cardinality(Holders(Strong, h, p))
             n == Cardinality(Holders(Weak, h, p))
             mm == Cardinality(Holders(Strong, k, p))
             nn == Cardinality(Holders(Weak, k, p))
  <2>1. /\ strong[p] = m + Is(Hand(todo, Strong), p)
        /\ weak[p] + resets[p] = n + Is(Hand(todo, Weak), p)
    BY <1>1 DEF Tally, h
  <2>2. m \in Nat /\ n \in Nat /\ mm \in Nat /\ nn \in Nat
    BY <1>5, HoldersCounted
  <2>3. /\ s[p] \in Nat /\ w[p] \in Nat /\ strong[p] \in Nat /\ weak[p] \in Nat /\ resets[p] \in Nat
    BY <1>1 DEF Counts
  <2>4. CASE c \in Strong
    <3>1. mm = m + Is(k[c], p)
      <4>1. \A x \in Strong \ {c} : k[x] = h[x]
        BY <1>3, <1>5
      <4> QED  BY <1>3, <1>5, <2>4, <4>1, AssignedCounts
    <3>2. nn = n
      <4>1. \A x \in Weak : k[x] = h[x]
        BY <1>3, <1>5, <2>4
      <4>2. Holders(Weak, k, p) = Holders(Weak, h, p)
        BY <4>1, NoneChanges
      <4> QED  BY <4>2
    <3>3. /\ s[p] = strong[p] + (Is(g[c], p) - Is(Hand(todo, Strong), p)) /\ w[p] = weak[p] + 0
          /\ Is(Hand(<<>>, Strong), p) = 0 /\ Is(Hand(<<>>, Weak), p) = 0 /\ Is(Hand(todo, Weak), p) = 0
          /\ k[c] = g[c] /\ Is(g[c], p) \in Nat /\ Is(Hand(todo, Strong), p) \in Nat
      BY <1>3, <1>4, <2>4
    <3> HIDE DEF m, n, mm, nn
    <3>4. s[p] = mm + Is(Hand(<<>>, Strong), p) /\ w[p] + resets[p] = nn + Is(Hand(<<>>, Weak), p)
      BY <2>1, <2>2, <2>3, <3>1, <3>2, <3>3
    <3> QED  BY <3>4 DEF mm, nn
  <2>5. CASE c \notin Strong
    <3>1. nn = n + Is(k[c], p)
      <4>1. \A x \in Weak \ {c} : k[x] = h[x]
        BY <1>3, <1>5
      <4> QED  BY <1>3, <1>5, <2>5, <4>1, AssignedCounts
    <3>2. mm = m
      <4>1. \A x \in Strong : k[x] = h[x]
        BY <1>3, <1>5, <2>5
      <4>2. Holders(Strong, k, p) = Holders(Strong, h, p)
        BY <4>1, NoneChanges
      <4> QED  BY <4>2
    <3>3. /\ w[p] = weak[p] + (Is(g[c], p) - Is(Hand(todo, Weak), p)) /\ s[p] = strong[p] + 0
          /\ Is(Hand(<<>>, Strong), p) = 0 /\ Is(Hand(<<>>, Weak), p) = 0 /\ Is(Hand(todo, Strong), p) = 0
          /\ k[c] = g[c] /\ Is(g[c], p) \in Nat /\ Is(Hand(todo, Weak), p) \in Nat
      BY <1>3, <1>4, <2>5
    <3> HIDE DEF m, n, mm, nn
    <3>4. s[p] = mm + Is(Hand(<<>>, Strong), p) /\ w[p] + resets[p] = nn + Is(Hand(<<>>, Weak), p)
      BY <2>1, <2>2, <2>3, <3>1, <3>2, <3>3
    <3> QED  BY <3>4 DEF mm, nn
  <2> QED  BY <2>4, <2>5
<1>7. Tally(<<>>, g, s, w, resets)
  BY <1>6 DEF Tally, k
<1>8. Blocks(<<>>, g, block, resets)
  <2>1. ASSUME NEW x \in Cells, g[x] \in Objects \ block PROVE resets[g[x]] > 0
    BY <1>1, <1>2, <2>1 DEF Blocks
  <2>2. \A kind : Hand(<<>>, kind) \notin Objects
    BY <1>2, CellFacts
  <2> QED  BY <2>1, <2>2 DEF Blocks
<1> QED  BY <1>7, <1>8

\* The assignment of a copy: the cell is counted.
LEMMA CopyHolds ==
  ASSUME IInv, todo # <<>>, todo[1].op = "copy", CopyFrom(todo[1].cell, todo[1].from)
  PROVE  IInv'
<1> DEFINE c == todo[1].cell
           d == todo[1].from
<1>1. /\ Frame /\ Books /\ TypeOK
  BY DEF IInv, Frame
<1>2. /\ c \in Cells /\ d \in Cells /\ d # c /\ (d \in Strong <=> c \in Strong)
      /\ Tail(todo) = <<>>
      /\ \A kind : Hand(todo, kind) = Null
  BY <1>1, AtAssignment
<1>3. CASE UNCHANGED <<at, strong, weak, live, block, todo, resets>>
  BY <1>1, <1>3 DEF IInv, Frame, Books, TypeOK
<1>4. CASE /\ Present(c) /\ (at[d] = Null \/ at[d] \in block)
           /\ at' = [at EXCEPT ![c] = at[d]]
           /\ IF at[d] = Null THEN UNCHANGED <<strong, weak>> ELSE Add(c, at[d])
           /\ todo' = Tail(todo) /\ UNCHANGED <<live, block, resets>>
  <2>1. /\ at[d] \in Objects \cup {Null} /\ at' \in CellMaps /\ at'[c] = at[d]
        /\ \A x \in Cells \ {c} : at'[x] = at[x]
    BY <1>1, <1>2, <1>4 DEF TypeOK, CellMaps
  <2>2. /\ strong' \in Counts /\ weak' \in Counts
        /\ \A p \in Objects :
             /\ strong'[p] = strong[p] + IF c \in Strong THEN Is(at[d], p) ELSE 0
             /\ weak'[p] = weak[p] + IF c \in Strong THEN 0 ELSE Is(at[d], p)
    <3>1. CASE at[d] = Null
      <4>1. \A p \in Objects : Is(at[d], p) = 0
        BY <3>1, CellFacts DEF Is
      <4> QED  BY <1>1, <1>4, <3>1, <4>1 DEF TypeOK, Counts
    <3>2. CASE at[d] # Null
      BY <1>1, <1>2, <1>4, <2>1, <3>2, AddCounts
    <3> QED  BY <3>1, <3>2
  <2>3. Frame'
    BY <1>1, <1>2, <1>4, <2>1, <2>2, Assigned
  <2>4. \A p \in Objects : Is(Hand(todo, Strong), p) = 0 /\ Is(Hand(todo, Weak), p) = 0
    BY <1>2, CellFacts DEF Is
  <2>5. \A v, p : Is(v, p) \in Nat
    BY DEF Is
  <2>6. \A p \in Objects :
          /\ strong'[p] = strong[p] + IF c \in Strong THEN Is(at'[c], p) - Is(Hand(todo, Strong), p) ELSE 0
          /\ weak'[p] = weak[p] + IF c \in Strong THEN 0 ELSE Is(at'[c], p) - Is(Hand(todo, Weak), p)
    BY <2>1, <2>2, <2>4, <2>5
  <2>7. at'[c] \in Objects \ block => resets[at'[c]] > 0
    BY <1>4, <2>1, CellFacts
  <2>8. Tally(<<>>, at', strong', weak', resets) /\ Blocks(<<>>, at', block, resets)
    BY <1>1, <1>2, <2>1, <2>2, <2>6, <2>7, AssignedBooks
  <2> QED  BY <1>2, <1>4, <2>3, <2>8 DEF IInv, Books
<1> QED  BY <1>3, <1>4 DEF CopyFrom, Fail, Stop

\* The assignment from a temporary: the count passes to the cell.
LEMMA PutHolds ==
  ASSUME IInv, todo # <<>>, todo[1].op = "put", Assign(todo[1].cell, todo[1].object)
  PROVE  IInv'
<1> DEFINE c == todo[1].cell
           o == todo[1].object
<1>1. /\ Frame /\ Books /\ TypeOK /\ Blocks(todo, at, block, resets)
  BY DEF IInv, Frame, Books
<1>2. /\ c \in Cells /\ o \in Objects \cup {Null}
      /\ Tail(todo) = <<>>
      /\ \A kind : Hand(todo, kind) = IF c \in kind THEN o ELSE Null
  BY <1>1, AtAssignment
<1>3. CASE ~Present(c)
  BY <1>1, <1>3 DEF Assign, Fail, Stop, IInv, Frame, Books, TypeOK
<1>4. CASE Present(c)
  <2>1. /\ at' = [at EXCEPT ![c] = o] /\ todo' = Tail(todo)
        /\ UNCHANGED <<strong, weak, live, block, resets>>
    BY <1>4 DEF Assign
  <2>2. /\ at' \in CellMaps /\ at'[c] = o /\ \A x \in Cells \ {c} : at'[x] = at[x]
    BY <1>1, <1>2, <2>1 DEF TypeOK, CellMaps
  <2>3. Frame'
    <3>1. strong' \in Counts /\ weak' \in Counts /\ todo' = <<>>
      BY <1>1, <1>2, <2>1, <2>2 DEF TypeOK
    <3> QED  BY <1>1, <1>2, <1>4, <2>1, <2>2, <3>1, Assigned
  <2>4. c \in Strong <=> c \notin Weak
    BY <1>2, CellFacts DEF Cells
  <2>5. \A p \in Objects :
          /\ strong[p] = strong[p] + IF c \in Strong THEN Is(o, p) - Is(Hand(todo, Strong), p) ELSE 0
          /\ weak[p] = weak[p] + IF c \in Strong THEN 0 ELSE Is(o, p) - Is(Hand(todo, Weak), p)
    <3>1. /\ c \in Strong => Hand(todo, Strong) = o
          /\ c \notin Strong => Hand(todo, Weak) = o
      BY <1>2, <2>4
    <3>2. \A v, p : Is(v, p) \in Nat
      BY DEF Is
    <3>3. \A p \in Objects : strong[p] \in Nat /\ weak[p] \in Nat
      BY <1>1 DEF TypeOK, Counts
    <3> QED  BY <3>1, <3>2, <3>3
  <2>6. o \in Objects \ block => resets[o] > 0
    BY <1>1, <1>2, <2>4 DEF Blocks
  <2>7. Tally(<<>>, at', strong, weak, resets) /\ Blocks(<<>>, at', block, resets)
    <3>1. strong \in Counts /\ weak \in Counts
      BY <1>1 DEF TypeOK
    <3> QED  BY <1>1, <1>2, <2>2, <2>5, <2>6, <3>1, AssignedBooks
  <2> QED  BY <1>2, <2>1, <2>3, <2>7 DEF IInv, Books
<1> QED  BY <1>3, <1>4

\* The assignment of a move: the count passes from one cell to the other.
LEMMA MoveHolds ==
  ASSUME IInv, todo # <<>>, todo[1].op = "move", MoveFrom(todo[1].cell, todo[1].from)
  PROVE  IInv'
<1> DEFINE c == todo[1].cell
           d == todo[1].from
<1>1. /\ Frame /\ Books /\ TypeOK /\ Tally(todo, at, strong, weak, resets)
      /\ Blocks(todo, at, block, resets)
  BY DEF IInv, Frame, Books
<1>2. /\ c \in Cells /\ d \in Cells /\ d # c /\ (d \in Strong <=> c \in Strong)
      /\ Tail(todo) = <<>>
      /\ \A kind : Hand(todo, kind) = Null /\ Hand(<<>>, kind) = Null
      /\ \A x \in Cells : Off(todo, x) <=> x = c
      /\ \A x \in Cells : ~Counting(todo, x)
      /\ \A x : ~Off(<<>>, x) /\ ~Counting(<<>>, x)
  BY <1>1, AtAssignment
<1>3. CASE UNCHANGED <<at, strong, weak, live, block, todo, resets>>
  BY <1>1, <1>3 DEF IInv, Frame, Books, TypeOK
<1>4. CASE /\ Present(c) /\ at' = [at EXCEPT ![c] = at[d], ![d] = Null]
           /\ todo' = Tail(todo) /\ UNCHANGED <<strong, weak, live, block, resets>>
  <2>1. /\ at[d] \in Objects \cup {Null} /\ at' \in CellMaps /\ at'[c] = at[d] /\ at'[d] = Null
        /\ \A x \in Cells \ {c, d} : at'[x] = at[x]
    BY <1>1, <1>2, <1>4 DEF TypeOK, CellMaps
  <2>2. Frame'
    <3>1. strong' \in Counts /\ weak' \in Counts
      BY <1>1, <1>4 DEF TypeOK
    <3>2. \A x \in Cells \ {c} : at'[x] \in {at[x], Null}
      BY <2>1
    <3> QED  BY <1>1, <1>2, <1>4, <2>1, <3>1, <3>2, Assigned
  <2> DEFINE h == Owning(todo, at)
             k == Owning(<<>>, at')
             i == [x \in Cells |-> IF x = d THEN Null ELSE h[x]]
  <2>3. /\ h[c] = Null /\ h[d] = at[d] /\ k[c] = at[d] /\ k[d] = Null
        /\ \A x \in Cells \ {c, d} : k[x] = h[x]
    BY <1>2, <2>1 DEF Owning
  <2> HIDE DEF h, k
  <2>4. /\ i[c] = Null /\ i[d] = Null
        /\ \A x \in Cells \ {d} : i[x] = h[x]
        /\ \A x \in Cells \ {c} : k[x] = i[x]
    BY <1>2, <2>3
  <2> HIDE DEF i
  <2>5. ASSUME NEW S \in {Strong, Weak}, NEW p \in Objects
        PROVE  Cardinality(Holders(S, k, p)) = Cardinality(Holders(S, h, p))
    <3>1. IsFiniteSet(S) /\ S \subseteq Cells
      BY CellFacts DEF Cells
    <3>2. CASE c \in S
      <4>1. d \in S
        BY <1>2, <2>5, <3>2, CellFacts DEF Cells
      <4>2. Cardinality(Holders(S, k, p)) = Cardinality(Holders(S, i, p)) + Is(k[c], p)
        <5>1. \A x \in S \ {c} : k[x] = i[x]
          BY <2>4, <3>1
        <5> QED  BY <2>4, <3>1, <3>2, <5>1, AssignedCounts
      <4>3. Cardinality(Holders(S, h, p)) = Cardinality(Holders(S, i, p)) + Is(h[d], p)
        <5>1. PICK y \in S : y = d
          BY <4>1
        <5>2. i[y] = Null /\ (\A x \in S \ {y} : h[x] = i[x]) /\ IsFiniteSet(S)
          BY <2>4, <3>1, <5>1
        <5>3. Cardinality(Holders(S, h, p)) = Cardinality(Holders(S, i, p)) + Is(h[y], p)
          BY <5>2, AssignedCounts
        <5> QED  BY <5>1, <5>3
      <4> QED  BY <2>3, <4>2, <4>3
    <3>3. CASE c \notin S
      <4>1. d \notin S
        BY <1>2, <2>5, <3>3, CellFacts DEF Cells
      <4>2. \A x \in S : k[x] = h[x]
        BY <2>3, <3>1, <3>3, <4>1
      <4>3. Holders(S, k, p) = Holders(S, h, p)
        BY <4>2, NoneChanges
      <4> QED  BY <4>3
    <3> QED  BY <3>2, <3>3
  <2>6. Tally(<<>>, at', strong, weak, resets)
    <3>1. ASSUME NEW p \in Objects
          PROVE  /\ strong[p] = Cardinality(Holders(Strong, k, p)) + Is(Hand(<<>>, Strong), p)
                 /\ weak[p] + resets[p] = Cardinality(Holders(Weak, k, p)) + Is(Hand(<<>>, Weak), p)
      <4>1. /\ strong[p] = Cardinality(Holders(Strong, h, p)) + Is(Hand(todo, Strong), p)
            /\ weak[p] + resets[p] = Cardinality(Holders(Weak, h, p)) + Is(Hand(todo, Weak), p)
        BY <1>1 DEF Tally, h
      <4>2. /\ Cardinality(Holders(Strong, k, p)) = Cardinality(Holders(Strong, h, p))
            /\ Cardinality(Holders(Weak, k, p)) = Cardinality(Holders(Weak, h, p))
        BY <2>5
      <4> QED  BY <1>2, <4>1, <4>2
    <3> QED  BY <3>1 DEF Tally, k
  <2>7. Blocks(<<>>, at', block, resets)
    <3>1. ASSUME NEW x \in Cells, at'[x] \in Objects \ block PROVE resets[at'[x]] > 0
      <4>1. \A y \in Cells : at[y] \in Objects \ block => resets[at[y]] > 0
        BY <1>1, <1>2 DEF Blocks
      <4>2. x # d
        BY <2>1, <3>1, CellFacts
      <4> QED  BY <1>2, <2>1, <3>1, <4>1, <4>2
    <3>2. \A kind : Hand(<<>>, kind) \notin Objects
      BY <1>2, CellFacts
    <3> QED  BY <3>1, <3>2 DEF Blocks
  <2> QED  BY <1>2, <1>4, <2>2, <2>6, <2>7 DEF IInv, Books
<1> QED  BY <1>3, <1>4 DEF MoveFrom, Fail, Stop

\* Every small step keeps the invariant.
LEMMA StepHolds ==
  ASSUME IInv, Step
  PROVE  IInv'
<1>1. /\ todo # <<>> /\ todo \in Seq(Entries)
  BY DEF Step, IInv, Frame, TypeOK
<1>2. Head(todo) = todo[1] /\ todo[1] \in Entries
  BY <1>1, SeqTail
<1> DEFINE s == todo[1]
<1>3. /\ s.cell \in Cells /\ (s.op = "reset" => s = Reset(s.cell))
      /\ s.op = "count" => s.cell \in Strong /\ s = Count(s.cell)
      /\ s.op = "clear" => s = Clear(s.cell)
  BY <1>2, EntryForms
<1>4. CASE s.op = "reset" /\ s.cell \in Strong /\ ResetStrong(s.cell)
  BY <1>1, <1>3, <1>4, ResetStrongHolds
<1>5. CASE s.op = "reset" /\ s.cell \in Weak /\ WeakReset(s.cell, Tail(todo)) /\ UNCHANGED resets
  BY <1>1, <1>3, <1>5, ResetWeakHolds
<1>6. CASE s.op = "count" /\ CountWeak(s.cell)
  BY <1>1, <1>3, <1>6, CountHolds
<1>7. CASE s.op = "clear" /\ Assign(s.cell, Null)
  BY <1>1, <1>3, <1>7, ClearHolds
<1>8. CASE s.op = "copy" /\ CopyFrom(s.cell, s.from)
  BY <1>1, <1>8, CopyHolds
<1>9. CASE s.op = "move" /\ MoveFrom(s.cell, s.from)
  BY <1>1, <1>9, MoveHolds
<1>10. CASE s.op = "put" /\ Assign(s.cell, s.object)
  BY <1>1, <1>10, PutHolds
<1> QED  BY <1>2, <1>4, <1>5, <1>6, <1>7, <1>8, <1>9, <1>10 DEF Step

-----------------------------------------------------------------------------
(* What the program asks for *)

\* The start of an operation keeps the frame.
LEMMA Begun ==
  ASSUME Frame, todo = <<>>, NEW c \in Cells, NEW e \in Entries, e.cell = c, ~Opens(e),
         e.op \in {"copy", "move"} => e.from \in Cells \ {c} /\ (e.from \in Strong <=> c \in Strong),
         todo' = Pair(c, e), at' = at, strong' \in Counts, weak' \in Counts, resets' \in Counts,
         live' \subseteq Objects, block' \subseteq Objects
  PROVE  Frame'
<1>1. TypeOK
  BY DEF Frame
<1>2. Pair(c, e) \in Seq(Entries) /\ Orderly(Pair(c, e))
  BY PairAt, PairOrderly
<1> DEFINE u == Pair(c, e)
<1>3. \A x \in Cells : ~Off(u, x)
  BY OffPair
<1> HIDE DEF u
<1>4. Waits(u, at, strong')
  BY <1>3 DEF Off, Waits, Counting, Cells
<1> QED  BY <1>1, <1>2, <1>4 DEF Frame, TypeOK, u

\* Nothing is owned or given up by beginning, but for the temporary.
LEMMA BegunBooks ==
  ASSUME IInv, todo = <<>>, NEW c \in Cells, NEW e \in Entries, e.cell = c, ~Opens(e),
         todo' = Pair(c, e), UNCHANGED <<at, block, resets>>,
         \A p \in Objects :
           /\ strong'[p] = strong[p] + IF e.op = "put" /\ c \in Strong THEN Is(e.object, p) ELSE 0
           /\ weak'[p] = weak[p] + IF e.op = "put" /\ c \notin Strong THEN Is(e.object, p) ELSE 0,
         e.op = "put" => (e.object \in Objects \ block => resets[e.object] > 0)
  PROVE  Books'
<1>1. /\ TypeOK /\ Tally(todo, at, strong, weak, resets) /\ Blocks(todo, at, block, resets)
  BY DEF IInv, Frame, Books
<1> DEFINE u == Pair(c, e)
<1>2. /\ \A x \in Cells : ~Off(u, x) /\ ~Off(todo, x) /\ ~Counting(todo, x)
      /\ \A kind : /\ Hand(todo, kind) = Null
                   /\ Hand(u, kind) = IF e.op = "put" /\ c \in kind THEN e.object ELSE Null
  <2>1. \A x \in Cells : ~Off(u, x) /\ ~Off(todo, x)
    BY OffPair
  <2>2. \A kind : /\ Hand(todo, kind) = Null
                  /\ Hand(u, kind) = IF e.op = "put" /\ c \in kind THEN e.object ELSE Null
    BY HandPair
  <2> QED  BY <2>1, <2>2 DEF Off, Counting
<1> HIDE DEF u
<1>3. Owning(u, at) = Owning(todo, at)
  BY <1>2 DEF Owning
<1>4. c \in Strong <=> c \notin Weak
  BY CellFacts DEF Cells
<1>5. ASSUME NEW p \in Objects
      PROVE  /\ strong'[p] = strong[p] + Is(Hand(u, Strong), p)
             /\ weak'[p] = weak[p] + Is(Hand(u, Weak), p)
             /\ Is(Hand(todo, Strong), p) = 0 /\ Is(Hand(todo, Weak), p) = 0
  <2>1. Is(Null, p) = 0
    BY CellFacts DEF Is
  <2> QED  BY <1>2, <1>4, <2>1
<1>6. Tally(u, at, strong', weak', resets)
  <2>1. ASSUME NEW p \in Objects
        PROVE  /\ strong'[p] = Cardinality(Holders(Strong, Owning(todo, at), p)) + Is(Hand(u, Strong), p)
               /\ weak'[p] + resets[p] = Cardinality(Holders(Weak, Owning(todo, at), p)) + Is(Hand(u, Weak), p)
    <3> DEFINE m == Cardinality(Holders(Strong, Owning(todo, at), p))
               n == Cardinality(Holders(Weak, Owning(todo, at), p))
    <3>1. m \in Nat /\ n \in Nat
      BY CellFacts, HoldersCounted
    <3>2. strong[p] = m + Is(Hand(todo, Strong), p) /\ weak[p] + resets[p] = n + Is(Hand(todo, Weak), p)
      BY <1>1 DEF Tally
    <3>3. weak[p] \in Nat /\ resets[p] \in Nat /\ strong[p] \in Nat
      BY <1>1 DEF TypeOK, Counts
    <3>4. Is(Hand(u, Strong), p) \in Nat /\ Is(Hand(u, Weak), p) \in Nat
      BY DEF Is
    <3> HIDE DEF m, n
    <3>5. /\ strong'[p] = m + Is(Hand(u, Strong), p)
          /\ weak'[p] + resets[p] = n + Is(Hand(u, Weak), p)
      BY <1>5, <3>1, <3>2, <3>3, <3>4
    <3> QED  BY <3>5 DEF m, n
  <2> QED  BY <1>3, <2>1 DEF Tally
<1>7. Blocks(u, at, block, resets)
  <2>1. \A kind : Hand(u, kind) \in Objects \ block => resets[Hand(u, kind)] > 0
    BY <1>2, CellFacts
  <2>2. \A x \in Cells : at[x] \in Objects \ block => resets[at[x]] > 0
    BY <1>1, <1>2 DEF Blocks
  <2> QED  BY <2>1, <2>2 DEF Blocks
<1> QED  BY <1>6, <1>7 DEF Books, u

\* A new operation that owns nothing yet, or hands over what it copied.
LEMMA ProgramFacts ==
  ASSUME IInv
  PROVE  /\ TypeOK /\ Frame
         /\ todo = <<>> => \A x \in Cells : at[x] \in Objects \ block => resets[at[x]] > 0
         /\ \A c, d \in Cells : /\ Copy(c, d) \in Entries /\ ~Opens(Copy(c, d))
                                /\ Move(c, d) \in Entries /\ ~Opens(Move(c, d))
         /\ \A c \in Cells : Clear(c) \in Entries /\ ~Opens(Clear(c))
         /\ \A c \in Cells : \A o \in Objects \cup {Null} : Put(c, o) \in Entries /\ ~Opens(Put(c, o))
<1>1. TypeOK /\ Frame /\ Blocks(todo, at, block, resets)
  BY DEF IInv, Frame, Books
<1>2. todo = <<>> => \A x \in Cells : at[x] \in Objects \ block => resets[at[x]] > 0
  <2>1. \A i \in 1..Len(<<>>) : FALSE
    OBVIOUS
  <2> QED  BY <1>1, <2>1 DEF Blocks, Counting
<1> QED  BY <1>1, <1>2, EntryForms DEF Opens

\* c = d and c = std::move(d) begin.
LEMMA CopyAssignHolds ==
  ASSUME IInv, NEW kind \in {Strong, Weak}, NEW c \in kind, NEW d \in kind,
         CopyAssign(c, d) \/ MoveAssign(c, d)
  PROVE  IInv'
<1>1. TypeOK /\ Frame
  BY ProgramFacts
<1>2. c \in Cells /\ d \in Cells /\ (d \in Strong <=> c \in Strong)
  BY CellFacts DEF Cells
<1>3. /\ todo = <<>> /\ c # d /\ UNCHANGED <<at, strong, weak, live, block, resets>>
      /\ todo' = Pair(c, Copy(c, d)) \/ todo' = Pair(c, Move(c, d))
  BY DEF CopyAssign, MoveAssign, Ready, Begin, Pair
<1>4. PICK e : e \in {Copy(c, d), Move(c, d)} /\ todo' = Pair(c, e)
  BY <1>3
<1>5. /\ e \in Entries /\ e.cell = c /\ e.from = d /\ ~Opens(e) /\ e.op \in {"copy", "move"}
  BY <1>2, <1>4, EntryForms, ProgramFacts
<1>7. Frame'
  <2>1. strong' \in Counts /\ weak' \in Counts /\ resets' \in Counts
        /\ live' \subseteq Objects /\ block' \subseteq Objects
    BY <1>1, <1>3 DEF TypeOK
  <2>2. e.from \in Cells \ {c} /\ (e.from \in Strong <=> c \in Strong)
    BY <1>2, <1>3, <1>5
  <2> QED  BY <1>1, <1>2, <1>3, <1>4, <1>5, <2>1, <2>2, Begun
<1>8. Books'
  <2>1. \A p \in Objects : strong'[p] = strong[p] + 0 /\ weak'[p] = weak[p] + 0
    BY <1>1, <1>3 DEF TypeOK, Counts
  <2> QED  BY <1>2, <1>3, <1>4, <1>5, <2>1, BegunBooks
<1> QED  BY <1>7, <1>8 DEF IInv

\* The end of a cell's scope begins.
LEMMA DropHolds ==
  ASSUME IInv, NEW c \in Cells, Drop(c)
  PROVE  IInv'
<1>1. TypeOK /\ Frame
  BY ProgramFacts
<1>2. /\ todo = <<>> /\ UNCHANGED <<at, strong, weak, live, block, resets>>
      /\ todo' = Pair(c, Clear(c))
  BY DEF Drop, Ready, Begin, Pair
<1>3. /\ Clear(c) \in Entries /\ Clear(c).cell = c /\ ~Opens(Clear(c)) /\ Clear(c).op = "clear"
  BY EntryForms, ProgramFacts
<1>4. Frame'
  <2>1. strong' \in Counts /\ weak' \in Counts /\ resets' \in Counts
        /\ live' \subseteq Objects /\ block' \subseteq Objects
    BY <1>1, <1>2 DEF TypeOK
  <2> QED  BY <1>1, <1>2, <1>3, <2>1, Begun
<1>5. Books'
  <2>1. \A p \in Objects : strong'[p] = strong[p] + 0 /\ weak'[p] = weak[p] + 0
    BY <1>1, <1>2 DEF TypeOK, Counts
  <2> QED  BY <1>2, <1>3, <2>1, BegunBooks
<1> QED  BY <1>4, <1>5 DEF IInv

\* An operation that begins with a counted temporary, or an empty one.
LEMMA TemporaryHolds ==
  ASSUME IInv, todo = <<>>, NEW c \in Cells, NEW o \in Objects \cup {Null},
         Begin(<<Reset(c), Put(c, o)>>), o \in Objects \ block => resets[o] > 0,
         IF o = Null THEN UNCHANGED <<strong, weak>> ELSE Add(c, o)
  PROVE  IInv'
<1>1. TypeOK /\ Frame
  BY ProgramFacts
<1>2. UNCHANGED <<at, live, block, resets>> /\ todo' = Pair(c, Put(c, o))
  BY DEF Begin, Pair
<1>3. /\ Put(c, o) \in Entries /\ Put(c, o).cell = c /\ ~Opens(Put(c, o)) /\ Put(c, o).op = "put"
      /\ Put(c, o).object = o
  BY EntryForms, ProgramFacts
<1>4. /\ strong' \in Counts /\ weak' \in Counts
      /\ \A p \in Objects :
           /\ strong'[p] = strong[p] + IF c \in Strong THEN Is(o, p) ELSE 0
           /\ weak'[p] = weak[p] + IF c \in Strong THEN 0 ELSE Is(o, p)
  <2>1. CASE o = Null
    <3>1. \A p \in Objects : Is(o, p) = 0
      BY <2>1, CellFacts DEF Is
    <3> QED  BY <1>1, <2>1, <3>1 DEF TypeOK, Counts
  <2>2. CASE o # Null
    BY <1>1, <2>2, AddCounts
  <2> QED  BY <2>1, <2>2
<1>5. Frame'
  <2>1. resets' \in Counts /\ live' \subseteq Objects /\ block' \subseteq Objects
    BY <1>1, <1>2 DEF TypeOK
  <2> QED  BY <1>1, <1>2, <1>3, <1>4, <2>1, Begun
<1>6. Books'
  <2>1. \A p \in Objects :
          /\ strong'[p] = strong[p] + IF Put(c, o).op = "put" /\ c \in Strong THEN Is(Put(c, o).object, p) ELSE 0
          /\ weak'[p] = weak[p] + IF Put(c, o).op = "put" /\ c \notin Strong THEN Is(Put(c, o).object, p) ELSE 0
    BY <1>3, <1>4
  <2> QED  BY <1>2, <1>3, <2>1, BegunBooks
<1> QED  BY <1>5, <1>6 DEF IInv

\* A fault leaves everything else.
LEMMA FailHolds ==
  ASSUME IInv, NEW how, Fail(how)
  PROVE  IInv'
BY DEF Fail, Stop, IInv, Frame, Books, TypeOK

\* A weak pointer is taken of a shared one: the temporary is counted at once.
LEMMA WatchHolds ==
  ASSUME IInv, NEW w \in Weak, NEW c \in Strong, Watch(w, c)
  PROVE  IInv'
<1>1. TypeOK /\ w \in Cells /\ c \in Cells /\ todo = <<>>
  BY ProgramFacts DEF Watch, Ready, Cells
<1>2. CASE at[c] = Null
  BY <1>2, FailHolds DEF Watch
<1>3. CASE at[c] # Null
  <2>1. at[c] \in Objects /\ (at[c] \in Objects \ block => resets[at[c]] > 0)
    BY <1>1, <1>3, ProgramFacts DEF TypeOK, CellMaps
  <2>2. PICK o \in Objects : o = at[c]
    BY <2>1
  <2>4. Add(w, o) /\ Begin(<<Reset(w), Put(w, o)>>)
    BY <1>3, <2>2 DEF Watch
  <2> QED  BY <1>1, <2>1, <2>2, <2>4, TemporaryHolds, CellFacts
<1> QED  BY <1>2, <1>3

\* lock() begins: the object is alive, so it is counted, or nothing is taken.
LEMMA LockHolds ==
  ASSUME IInv, NEW c \in Strong, NEW w \in Weak, Lock(c, w)
  PROVE  IInv'
<1>1. TypeOK /\ w \in Cells /\ c \in Cells /\ todo = <<>>
      /\ at \in CellMaps /\ at[w] \in Objects \cup {Null}
  BY ProgramFacts DEF Lock, Ready, Cells, TypeOK, CellMaps
<1>2. CASE at[w] # Null /\ at[w] \notin block
  BY <1>2, FailHolds DEF Lock
<1>3. CASE at[w] # Null /\ at[w] \in block /\ strong[at[w]] > 0
  <2>1. PICK o \in Objects : o = at[w]
    BY <1>1, <1>3
  <2>3. Add(c, o) /\ Begin(<<Reset(c), Put(c, o)>>) /\ o \in block
    BY <1>3, <2>1 DEF Lock
  <2> QED  BY <1>1, <2>3, TemporaryHolds, CellFacts
<1>4. CASE at[w] = Null \/ (at[w] \in block /\ ~(strong[at[w]] > 0))
  <2>1. Begin(<<Reset(c), Put(c, Null)>>) /\ UNCHANGED <<strong, weak>>
    BY <1>4 DEF Lock
  <2> QED  BY <1>1, <2>1, TemporaryHolds, CellFacts
<1> QED  BY <1>2, <1>3, <1>4

\* What New adds to the records of its object.
NewObject(c, o) ==
  /\ todo = <<>> /\ Present(c) /\ o \notin live /\ o \notin block
  /\ \A d \in Strong \cup Weak : at[d] # o
  /\ live' = live \cup {o} /\ block' = block \cup {o}
  /\ strong' = [strong EXCEPT ![o] = 1]
  /\ weak' = [weak EXCEPT ![o] = 0]
  /\ resets' = [resets EXCEPT ![o] = 0]
  /\ todo' = Pair(c, Put(c, o))
  /\ at' = at

\* new: no pointer leads to the memory, so its counts start true.
LEMMA NewHolds ==
  ASSUME IInv, NEW c \in Strong, NEW o \in Objects, NewObject(c, o)
  PROVE  IInv'
<1>1. /\ TypeOK /\ Frame /\ c \in Cells /\ Tally(todo, at, strong, weak, resets)
      /\ Blocks(todo, at, block, resets) /\ at \in CellMaps
  BY DEF IInv, Frame, Books, Cells, TypeOK
<1>2. /\ Put(c, o) \in Entries /\ Put(c, o).cell = c /\ ~Opens(Put(c, o)) /\ Put(c, o).op = "put"
      /\ Put(c, o).object = o
  BY <1>1, EntryForms, ProgramFacts
<1>4. /\ strong' \in Counts /\ weak' \in Counts /\ resets' \in Counts
      /\ strong'[o] = 1 /\ weak'[o] = 0 /\ resets'[o] = 0
      /\ \A p \in Objects \ {o} : strong'[p] = strong[p] /\ weak'[p] = weak[p] /\ resets'[p] = resets[p]
  BY <1>1 DEF NewObject, TypeOK, Counts
<1>5. Frame'
  <2>1. live' \subseteq Objects /\ block' \subseteq Objects
    BY <1>1 DEF NewObject, TypeOK
  <2>2. todo = <<>> /\ todo' = Pair(c, Put(c, o)) /\ at' = at
    BY DEF NewObject
  <2> QED  BY <1>1, <1>2, <1>4, <2>1, <2>2, Begun
<1> DEFINE u == Pair(c, Put(c, o))
<1>6. /\ \A x \in Cells : ~Off(u, x) /\ ~Off(todo, x) /\ ~Counting(todo, x)
      /\ Hand(todo, Strong) = Null /\ Hand(todo, Weak) = Null
      /\ Hand(u, Strong) = o /\ Hand(u, Weak) = Null
  <2>1. todo = <<>> /\ c \notin Weak
    BY CellFacts DEF NewObject
  <2>2. \A x \in Cells : ~Off(u, x) /\ ~Off(todo, x)
    BY <1>1, <1>2, <2>1, OffPair
  <2>3. \A kind : /\ Hand(todo, kind) = Null
                  /\ Hand(u, kind) = IF Put(c, o).op = "put" /\ Put(c, o).cell \in kind
                                     THEN Put(c, o).object ELSE Null
    BY <1>1, <1>2, <2>1, HandPair
  <2> QED  BY <1>2, <2>1, <2>2, <2>3 DEF Off, Counting
<1>7. Owning(u, at) = Owning(todo, at)
  BY <1>6 DEF Owning
<1> DEFINE h == Owning(todo, at)
<1>8. \A x \in Cells : h[x] = at[x] /\ h[x] # o
  BY <1>6 DEF Owning, NewObject, Cells
<1> HIDE DEF u, h
<1>9. Tally(u, at, strong', weak', resets')
  <2>1. ASSUME NEW p \in Objects
        PROVE  /\ strong'[p] = Cardinality(Holders(Strong, h, p)) + Is(Hand(u, Strong), p)
               /\ weak'[p] + resets'[p] = Cardinality(Holders(Weak, h, p)) + Is(Hand(u, Weak), p)
    <3>1. Is(Null, p) = 0
      BY CellFacts DEF Is
    <3>2. CASE p = o
      <4>1. Cardinality(Holders(Strong, h, o)) = 0 /\ Cardinality(Holders(Weak, h, o)) = 0
        <5>1. (\A x \in Strong : h[x] # o) /\ (\A x \in Weak : h[x] # o)
          BY <1>8 DEF Cells
        <5> QED  BY <5>1, CellFacts, HoldersCounted
      <4>2. Is(o, p) = 1
        BY <3>2 DEF Is
      <4> QED  BY <1>4, <1>6, <3>1, <3>2, <4>1, <4>2
    <3>3. CASE p # o
      <4>1. /\ strong[p] = Cardinality(Holders(Strong, h, p)) + 0
            /\ weak[p] + resets[p] = Cardinality(Holders(Weak, h, p)) + 0
        BY <1>1, <1>6, <3>1 DEF Tally, h
      <4>2. Is(o, p) = 0
        BY <3>3 DEF Is
      <4> QED  BY <1>4, <1>6, <3>1, <3>3, <4>1, <4>2
    <3> QED  BY <3>2, <3>3
  <2> QED  BY <1>7, <2>1 DEF Tally, h
<1>10. Blocks(u, at, block', resets')
  <2>1. block' = block \cup {o} /\ \A d \in Cells : at[d] # o
    BY DEF NewObject, Cells
  <2>2. ASSUME NEW x \in Cells, at[x] \in Objects \ block' PROVE resets'[at[x]] > 0
    <3>1. resets[at[x]] > 0
      BY <1>1, <1>6, <2>1, <2>2 DEF Blocks
    <3> QED  BY <1>4, <2>1, <2>2, <3>1
  <2>3. \A kind \in {Strong, Weak} : Hand(u, kind) \notin Objects \ block'
    BY <1>6, <2>1, CellFacts
  <2> QED  BY <2>2, <2>3 DEF Blocks
<1>11. todo' = u /\ at' = at
  BY DEF NewObject, u
<1> QED  BY <1>5, <1>9, <1>10, <1>11 DEF IInv, Books

\* New is NewObject, of some object.
LEMMA NewForm ==
  ASSUME NEW c \in Strong, New(c)
  PROVE  \E o \in Objects : NewObject(c, o)
BY DEF New, NewObject, Ready, Pair

\* Every step of the kernel keeps the invariant.
LEMMA NextHolds ==
  ASSUME IInv, [Next]_vars
  PROVE  IInv'
<1>1. CASE Step
  BY <1>1, StepHolds
<1>2. ASSUME NEW c \in Strong, New(c) \/ Drop(c) PROVE IInv'
  BY <1>2, NewHolds, NewForm, DropHolds DEF Cells
<1>3. ASSUME NEW c \in Strong, NEW d \in Strong, CopyAssign(c, d) \/ MoveAssign(c, d) PROVE IInv'
  BY <1>3, CopyAssignHolds
<1>4. ASSUME NEW w \in Weak, Drop(w) \/ ResetByName(w) PROVE IInv'
  BY <1>4, DropHolds, ResetByNameHolds DEF Cells
<1>5. ASSUME NEW w \in Weak, NEW v \in Weak, CopyAssign(w, v) \/ MoveAssign(w, v) PROVE IInv'
  BY <1>5, CopyAssignHolds
<1>6. ASSUME NEW w \in Weak, NEW c \in Strong, Watch(w, c) \/ Lock(c, w) PROVE IInv'
  BY <1>6, WatchHolds, LockHolds
<1>7. CASE UNCHANGED vars
  BY <1>7 DEF vars, IInv, Frame, Books, TypeOK
<1> QED  BY <1>1, <1>2, <1>3, <1>4, <1>5, <1>6, <1>7 DEF Next, Program

\* Before the first operation every count and every pointer is empty.
LEMMA InitHolds == Init => IInv
<1> SUFFICES ASSUME Init PROVE IInv
  OBVIOUS
<1>1. TypeOK /\ todo = <<>> /\ \A c \in Cells : at[c] = Null
  BY EmptySeq DEF Init, TypeOK, CellMaps, Counts, Cells
<1>2. (\A i \in 1..Len(<<>>) : FALSE) /\ (\A i \in 2..Len(<<>>) : FALSE)
  OBVIOUS
<1>3. Orderly(todo) /\ Waits(todo, at, strong)
  BY <1>1, <1>2 DEF Orderly, Waits, Counting
<1>7. \A kind : Hand(todo, kind) = Null
  BY <1>1 DEF Hand
<1>8. \A p \in Objects : Is(Null, p) = 0
  BY CellFacts DEF Is
<1>9. Tally(todo, at, strong, weak, resets)
  <2>1. \A x \in Cells : Owning(todo, at)[x] = Null
    BY <1>1 DEF Owning
  <2>2. ASSUME NEW p \in Objects
        PROVE  /\ Cardinality(Holders(Strong, Owning(todo, at), p)) = 0
               /\ Cardinality(Holders(Weak, Owning(todo, at), p)) = 0
    <3>1. \A x \in Cells : Owning(todo, at)[x] # p
      BY <2>1, CellFacts
    <3> QED  BY <3>1, CellFacts, HoldersCounted DEF Cells
  <2>3. \A p \in Objects : strong[p] = 0 /\ weak[p] = 0 /\ resets[p] = 0
    BY DEF Init
  <2> QED  BY <1>7, <1>8, <2>2, <2>3 DEF Tally
<1>10. Blocks(todo, at, block, resets)
  BY <1>1, <1>7, CellFacts DEF Blocks
<1> QED  BY <1>1, <1>3, <1>9, <1>10 DEF IInv, Frame, Books

\* For any number of objects and pointers, and whatever circles of owners they
\* make: while destructors nest, a reset waits for one delete only, nobody owns
\* what waits for its delete, and every count and every block is accounted for.
THEOREM Invariance == Spec => []IInv
<1>1. IInv /\ [Next]_vars => IInv'
  BY NextHolds
<1> QED  BY <1>1, InitHolds, PTL DEF Spec

\* For any number of objects, cells and calls, in the middle of nested
\* destructors too: strong_count is the number of shared pointers that own the
\* object, and weak_count that of the weak ones less the resets by name.
THEOREM PointersCounted == Spec => []CountsExact
<1>1. IInv => CountsExact
  BY CountsAreTally DEF IInv, Frame, Books, TypeOK
<1> QED  BY <1>1, Invariance, PTL

\* For any number of objects, cells and calls: no pointer leads to a counter
\* block that is gone, unless reset() was called by name on one to that object,
\* or the pointer is the one whose delete is under way.
THEOREM BlocksStay == Spec => []BlockOutlivesPointers
<1>1. ASSUME IInv PROVE BlockOutlivesPointers
  <2>1. Blocks(todo, at, block, resets) /\ todo \in Seq(Entries)
    BY <1>1 DEF IInv, Frame, Books, TypeOK
  <2>2. DOMAIN todo = 1..Len(todo)
    BY <2>1, LenProperties
  <2> QED  BY <2>1, <2>2 DEF BlockOutlivesPointers, Blocks, Counting, Cells
<1> QED  BY <1>1, Invariance, PTL

-----------------------------------------------------------------------------
(* The promise *)

\* Who owns what, as Ownership sees it.
OwnerMap == [c \in Strong \cup {Unnamed} |-> IF c = Unnamed THEN Temporary ELSE Counted(c)]
View(t, f) == [c \in Strong \cup {Unnamed} |->
                 IF c = Unnamed THEN Hand(t, Strong) ELSE Owning(t, f)[c]]

\* What Ownership sees of the code, in terms of the steps that are left.
LEMMA OwnersSeen == IInv => OwnerMap = View(todo, at)
<1> SUFFICES ASSUME IInv PROVE OwnerMap = View(todo, at)
  OBVIOUS
<1>0. /\ todo \in Seq(Entries) /\ Orderly(todo) /\ DOMAIN todo = 1..Len(todo)
      /\ todo # <<>> => Len(todo) \in 1..Len(todo)
  <2>1. todo \in Seq(Entries) /\ Orderly(todo)
    BY DEF IInv, Frame, TypeOK
  <2>2. DOMAIN todo = 1..Len(todo) /\ (todo # <<>> => Len(todo) \in Nat \ {0})
    BY <2>1, EmptySeq, LenProperties
  <2> QED  BY <2>1, <2>2
<1>1. ASSUME NEW c \in Strong PROVE Counted(c) = Owning(todo, at)[c]
  <2>1. Spent(c) <=> Off(todo, c)
    BY <1>0, SpentIsOff
  <2> QED  BY <2>1 DEF Counted, Owning, Cells
<1>2. Temporary = Hand(todo, Strong)
  <2>1. \A i \in Temporaries(Strong) : i = Len(todo) /\ todo # <<>>
    <3>1. \A i \in 1..Len(todo) : todo[i].op = "put" => i = Len(todo)
      BY <1>0 DEF Orderly
    <3>2. \A i \in 1..Len(todo) : todo # <<>>
      BY EmptySeq
    <3> QED  BY <1>0, <3>1, <3>2 DEF Temporaries
  <2>2. CASE Temporaries(Strong) = {}
    <3>1. ~(todo # <<>> /\ todo[Len(todo)].op = "put" /\ todo[Len(todo)].cell \in Strong)
      BY <1>0, <2>2 DEF Temporaries
    <3> QED  BY <2>2, <3>1 DEF Temporary, Hand
  <2>3. CASE Temporaries(Strong) # {}
    <3>1. (CHOOSE i \in Temporaries(Strong) : TRUE) \in Temporaries(Strong)
      BY <2>3
    <3>2. (CHOOSE i \in Temporaries(Strong) : TRUE) = Len(todo)
      BY <2>1, <3>1
    <3>3. Len(todo) \in Temporaries(Strong)
      BY <3>1, <3>2
    <3>4. todo # <<>> /\ todo[Len(todo)].op = "put" /\ todo[Len(todo)].cell \in Strong
      BY <2>1, <3>3 DEF Temporaries
    <3> QED  BY <2>3, <3>2, <3>4 DEF Temporary, Hand
  <2> QED  BY <2>2, <2>3
<1> QED  BY <1>1, <1>2 DEF OwnerMap, View

\* No shared pointer comes to own what none owned.
HandsOver(t, f, u, g) ==
  \A x \in Strong \cup {Unnamed} :
    View(u, g)[x] = Null \/ \E y \in Strong \cup {Unnamed} : View(u, g)[x] = View(t, f)[y]

\* The owners, one by one.
LEMMA ViewAt ==
  ASSUME NEW t, NEW f
  PROVE  /\ View(t, f)[Unnamed] = Hand(t, Strong)
         /\ \A x \in Strong : View(t, f)[x] = IF Off(t, x) THEN Null ELSE f[x]
BY CellFacts DEF View, Owning, Cells

\* Ownership sees no change when neither the cells nor the temporary change.
LEMMA SameView ==
  ASSUME NEW t, NEW f, NEW u, NEW g, Hand(u, Strong) = Hand(t, Strong),
         \A x \in Strong : Owning(u, g)[x] = Owning(t, f)[x]
  PROVE  View(u, g) = View(t, f)
BY DEF View

\* Then nothing is handed over.
LEMMA StillHandsOver ==
  ASSUME NEW t, NEW f, NEW u, NEW g, View(u, g) = View(t, f)
  PROVE  HandsOver(t, f, u, g)
BY DEF HandsOver

\* What a step does to the owners: they drop or hand over, an object that
\* nobody owns goes, or a new one comes.
HandedOver(u, g) == live' = live /\ HandsOver(todo, at, u, g)
Dies == \E o \in Objects : /\ live' = live \ {o} /\ View(todo', at') = View(todo, at)
                           /\ \A x \in Strong \cup {Unnamed} : View(todo, at)[x] # o
Comes == \E o \in Objects : /\ o \notin live /\ live' = live \cup {o}
                            /\ View(todo', at') = [View(todo, at) EXCEPT ![Unnamed] = o]

\* A reset drops an owner, or none.
LEMMA ResetHandsOver ==
  ASSUME IInv, todo # <<>>, NEW c \in Cells, todo[1] = Reset(c),
         \/ c \in Strong /\ ResetStrong(c)
         \/ c \in Weak /\ WeakReset(c, Tail(todo))
  PROVE  HandedOver(todo', at')
<1>1. Frame /\ TypeOK /\ Orderly(todo) /\ todo \in Seq(Entries) /\ at \in CellMaps
  BY DEF IInv, Frame, TypeOK
<1>2. /\ todo[1].cell = c /\ todo[1].op = "reset"
      /\ \A x \in Cells : Off(Tail(todo), x) <=> Off(todo, x) \/ x = c
      /\ \A kind : Hand(Tail(todo), kind) = Hand(todo, kind)
  <2>1. todo[1].cell = c /\ todo[1].op = "reset"
    BY EntryForms
  <2> QED  BY <1>1, <2>1, OffTail, HandTail
<1>3. CASE live' = live /\ todo' = todo /\ at' = at
  <2>1. View(todo', at') = View(todo, at)
    BY <1>3
  <2> QED  BY <1>3, <2>1, StillHandsOver DEF HandedOver
<1>4. CASE c \in Strong /\ live' = live /\ todo' = Tail(todo) /\ at' = at
  <2>1. \A x \in Strong : View(todo', at')[x] \in {View(todo, at)[x], Null}
    BY <1>2, <1>4, ViewAt DEF Cells
  <2>2. View(todo', at')[Unnamed] = View(todo, at)[Unnamed]
    BY <1>2, <1>4, ViewAt
  <2> QED  BY <1>4, <2>1, <2>2 DEF HandedOver, HandsOver
<1>5. CASE c \in Strong /\ live' = live /\ at' = at /\ at[c] \in Objects /\ todo' = Pushed(todo, at[c], c)
  <2>1. PICK o \in Objects : o = at[c]
    BY <1>5
  <2>2. /\ \A x \in Cells : Off(Pushed(todo, o, c), x) <=> Off(todo, x) \/ x = c
        /\ \A kind : Hand(Pushed(todo, o, c), kind) = Hand(todo, kind)
    BY <1>1, <1>5, OffPushed, HandPushed
  <2>3. \A x \in Strong : View(todo', at')[x] \in {View(todo, at)[x], Null}
    BY <1>5, <2>1, <2>2, ViewAt DEF Cells
  <2>4. View(todo', at')[Unnamed] = View(todo, at)[Unnamed]
    BY <1>5, <2>1, <2>2, ViewAt
  <2> QED  BY <1>5, <2>3, <2>4 DEF HandedOver, HandsOver
<1>6. CASE c \in Weak /\ live' = live /\ todo' = Tail(todo) /\ \A x \in Cells \ {c} : at'[x] = at[x]
  <2>1. \A x \in Strong : x \in Cells /\ x # c
    BY <1>6, CellFacts DEF Cells
  <2>2. \A x \in Strong : Owning(Tail(todo), at')[x] = Owning(todo, at)[x]
    BY <1>2, <1>6, <2>1 DEF Owning
  <2>3. View(todo', at') = View(todo, at)
    BY <1>2, <1>6, <2>2, SameView
  <2> QED  BY <1>6, <2>3, StillHandsOver DEF HandedOver
<1>7. CASE c \in Strong /\ ResetStrong(c)
  <2>1. <<>> \o Tail(todo) = Tail(todo)
    BY <1>1, SeqTail, ConcatEmptySeq
  <2>2. at[c] = Null \/ at[c] \in Objects
    BY <1>1 DEF CellMaps
  <2>3. live' = live /\ at' = at
    BY <1>7 DEF ResetStrong, Fail, Stop
  <2>4. CASE at[c] = Null
    BY <1>4, <1>7, <2>3, <2>4 DEF ResetStrong
  <2>5. CASE at[c] # Null /\ (at[c] \notin block \/ strong[at[c]] = 0)
    BY <1>3, <1>7, <2>3, <2>5 DEF ResetStrong, Fail, Stop
  <2>6. CASE at[c] # Null /\ at[c] \in block /\ strong[at[c]] # 0
    <3>1. todo' = (IF strong[at[c]] = 1 THEN Destroy(at[c]) \o <<Count(c)>> ELSE <<>>) \o Tail(todo)
      BY <1>7, <2>6 DEF ResetStrong
    <3>2. todo' = Pushed(todo, at[c], c) \/ todo' = Tail(todo)
      BY <2>1, <3>1 DEF Pushed
    <3> QED  BY <1>4, <1>5, <1>7, <2>2, <2>3, <2>6, <3>2
  <2> QED  BY <2>4, <2>5, <2>6
<1>8. CASE c \in Weak /\ WeakReset(c, Tail(todo))
  <2>1. \/ UNCHANGED <<at, live, todo>>
        \/ live' = live /\ todo' = Tail(todo) /\ \A x \in Cells \ {c} : at'[x] = at[x]
    BY <1>1, <1>8, WeakResetForms
  <2> QED  BY <1>3, <1>6, <1>8, <2>1
<1> QED  BY <1>7, <1>8

\* The step after a delete: the object goes, and its count says that nobody
\* owns it.
LEMMA CountDies ==
  ASSUME IInv, todo # <<>>, NEW c \in Strong, todo[1] = Count(c), CountWeak(c)
  PROVE  HandedOver(todo', at') \/ Dies
<1>1. /\ Frame /\ TypeOK /\ Orderly(todo) /\ todo \in Seq(Entries) /\ Len(todo) \in Nat \ {0}
      /\ Waits(todo, at, strong) /\ Tally(todo, at, strong, weak, resets)
  BY SeqTail DEF IInv, Frame, TypeOK, Books
<1>2. /\ c \in Cells /\ todo[1].cell = c /\ todo[1].op = "count"
  BY EntryForms DEF Cells
<1>3. PICK o \in Objects : o = at[c] /\ strong[o] = 0
  <2>1. Counting(todo, c)
    BY <1>1 DEF Counting
  <2> QED  BY <1>1, <2>1 DEF Waits
<1>4. CASE o \notin block
  <2>1. live' = live /\ todo' = todo /\ at' = at
    BY <1>3, <1>4 DEF CountWeak, Fail, Stop
  <2>2. View(todo', at') = View(todo, at)
    BY <2>1
  <2> QED  BY <2>1, <2>2, StillHandsOver DEF HandedOver
<1>5. CASE o \in block
  <2>1. /\ live' = live \ {o} /\ todo' = Tail(todo)
        /\ at' = [at EXCEPT ![c] = Null] \/ at' = at
    BY <1>3, <1>5 DEF CountWeak
  <2>2. \A x \in Cells \ {c} : at'[x] = at[x]
    BY <1>1, <2>1 DEF TypeOK, CellMaps
  <2>3. /\ \A x \in Cells : Off(Tail(todo), x) <=> Off(todo, x)
        /\ \A kind : Hand(Tail(todo), kind) = Hand(todo, kind)
    BY <1>1, <1>2, OffTail, HandTail
  <2>4. Off(todo, c)
    <3>1. 1 \in 1..Len(todo)
      BY <1>1
    <3> QED  BY <3>1 DEF Off
  <2>5. \A x \in Strong : Owning(Tail(todo), at')[x] = Owning(todo, at)[x]
    BY <2>2, <2>3, <2>4 DEF Owning, Cells
  <2>6. View(todo', at') = View(todo, at)
    BY <2>1, <2>3, <2>5, SameView
  <2>7. (\A x \in Strong : Owning(todo, at)[x] # o) /\ Hand(todo, Strong) # o
    <3> DEFINE m == Cardinality(Holders(Strong, Owning(todo, at), o))
               n == Is(Hand(todo, Strong), o)
    <3>1. m \in Nat /\ (m = 0 <=> \A x \in Strong : Owning(todo, at)[x] # o)
      BY CellFacts, HoldersCounted
    <3>2. n \in Nat /\ (n = 0 => Hand(todo, Strong) # o)
      BY DEF Is
    <3>3. 0 = m + n
      BY <1>1, <1>3 DEF Tally
    <3>4. m = 0 /\ n = 0
      <4> HIDE DEF m, n
      <4> QED  BY <3>1, <3>2, <3>3
    <3> QED  BY <3>1, <3>2, <3>4
  <2>8. \A x \in Strong \cup {Unnamed} : View(todo, at)[x] # o
    BY <2>7 DEF View
  <2> QED  BY <2>1, <2>6, <2>8 DEF Dies
<1> QED  BY <1>4, <1>5

\* An assignment gives the cell what another cell or the temporary owned.
LEMMA AssignmentHandsOver ==
  ASSUME IInv, todo # <<>>,
         \/ todo[1].op = "clear" /\ Assign(todo[1].cell, Null)
         \/ todo[1].op = "copy" /\ CopyFrom(todo[1].cell, todo[1].from)
         \/ todo[1].op = "move" /\ MoveFrom(todo[1].cell, todo[1].from)
         \/ todo[1].op = "put" /\ Assign(todo[1].cell, todo[1].object)
  PROVE  HandedOver(todo', at')
<1>1. Frame /\ TypeOK /\ Orderly(todo) /\ todo \in Seq(Entries) /\ at \in CellMaps /\ todo[1] \in Entries
  BY SeqTail DEF IInv, Frame, TypeOK
<1>2. PICK c \in Cells : c = todo[1].cell
  BY <1>1, EntryForms
<1>3. CASE live' = live /\ todo' = todo /\ at' = at
  <2>1. View(todo', at') = View(todo, at)
    BY ONLY <1>3
  <2> QED  BY <1>3, <2>1, StillHandsOver DEF HandedOver
<1>4. CASE todo[1].op = "clear" /\ at' = [at EXCEPT ![c] = Null] /\ todo' = Tail(todo) /\ live' = live
  <2>1. /\ \A x \in Cells : Off(Tail(todo), x) <=> Off(todo, x) /\ x # c
        /\ Off(todo, c)
    BY <1>1, <1>2, <1>4, OffTail DEF Opens
  <2>2. Hand(Tail(todo), Strong) = Hand(todo, Strong)
    BY <1>1, <1>4, HandTail
  <2>3. at'[c] = Null /\ \A x \in Cells \ {c} : at'[x] = at[x]
    BY <1>1, <1>4 DEF CellMaps
  <2>4. \A x \in Strong : Owning(Tail(todo), at')[x] = Owning(todo, at)[x]
    BY <2>1, <2>3 DEF Owning, Cells
  <2>5. View(Tail(todo), at') = View(todo, at)
    BY <2>2, <2>4, SameView
  <2>6. todo' = Tail(todo) /\ live' = live
    BY <1>4
  <2>7. View(todo', at') = View(todo, at)
    BY ONLY <2>5, <2>6
  <2> QED  BY <2>6, <2>7, StillHandsOver DEF HandedOver
<1>5. ASSUME todo[1].op \in {"copy", "move", "put"}, todo' = Tail(todo), live' = live,
             \A x \in Cells \ {c} : at'[x] \in {at[x], Null},
             \/ todo[1].op = "put" /\ at'[c] = todo[1].object
             \/ todo[1].op \in {"copy", "move"} /\ at'[c] = at[todo[1].from]
      PROVE  HandedOver(todo', at')
  <2>1. /\ Tail(todo) = <<>>
        /\ \A x \in Cells : (Off(todo, x) <=> x = c) /\ ~Off(<<>>, x)
        /\ Hand(<<>>, Strong) = Null
        /\ Hand(todo, Strong) = IF todo[1].op = "put" /\ c \in Strong THEN todo[1].object ELSE Null
        /\ todo[1].op \in {"copy", "move"} =>
             /\ todo[1].from \in Cells \ {c}
             /\ todo[1].from \in Strong <=> c \in Strong
    BY <1>1, <1>2, <1>5, AtAssignment
  <2>2. View(todo', at')[Unnamed] = Null
    BY <1>5, <2>1, ViewAt
  <2>3. ASSUME NEW x \in Strong, x # c
        PROVE  View(todo', at')[x] \in {View(todo, at)[x], Null}
    BY <1>5, <2>1, <2>3, ViewAt DEF Cells
  <2>4. ASSUME c \in Strong
        PROVE  \E y \in Strong \cup {Unnamed} : View(todo', at')[c] = View(todo, at)[y]
    <3>1. View(todo', at')[c] = at'[c]
      <4>1. todo' = <<>> /\ ~Off(<<>>, c)
        BY <1>5, <2>1
      <4>2. View(<<>>, at')[c] = at'[c]
        BY <2>4, <4>1, ViewAt
      <4> QED  BY ONLY <4>1, <4>2
    <3>2. CASE todo[1].op = "put"
      BY <1>5, <2>1, <2>4, <3>1, <3>2, ViewAt
    <3>3. CASE todo[1].op \in {"copy", "move"}
      <4>1. todo[1].from \in Strong /\ ~Off(todo, todo[1].from)
        BY <2>1, <2>4, <3>3
      <4>2. View(todo, at)[todo[1].from] = at[todo[1].from]
        BY <4>1, ViewAt
      <4> QED  BY <1>5, <3>1, <3>3, <4>1, <4>2
    <3> QED  BY <1>5, <3>2, <3>3
  <2> QED  BY <1>5, <2>2, <2>3, <2>4 DEF HandedOver, HandsOver
<1>6. CASE todo[1].op = "clear" /\ Assign(todo[1].cell, Null)
  BY <1>2, <1>3, <1>4, <1>6 DEF Assign, Fail, Stop
<1>7. CASE todo[1].op = "copy" /\ CopyFrom(todo[1].cell, todo[1].from)
  <2>1. CASE live' = live /\ todo' = todo /\ at' = at
    BY <1>3, <2>1
  <2>2. CASE todo' = Tail(todo) /\ live' = live /\ at' = [at EXCEPT ![c] = at[todo[1].from]]
    <3>1. at'[c] = at[todo[1].from] /\ \A x \in Cells \ {c} : at'[x] = at[x]
      BY <1>1, <2>2 DEF CellMaps
    <3> QED  BY <1>5, <1>7, <2>2, <3>1
  <2> QED  BY <1>2, <1>7, <2>1, <2>2 DEF CopyFrom, Fail, Stop
<1>8. CASE todo[1].op = "move" /\ MoveFrom(todo[1].cell, todo[1].from)
  <2>1. CASE live' = live /\ todo' = todo /\ at' = at
    BY <1>3, <2>1
  <2>2. CASE todo' = Tail(todo) /\ live' = live /\ at' = [at EXCEPT ![c] = at[todo[1].from], ![todo[1].from] = Null]
    <3>0. todo[1].from \in Cells \ {c}
      BY <1>1, <1>2, <1>8, AtAssignment
    <3>1. at'[c] = at[todo[1].from] /\ \A x \in Cells \ {c} : at'[x] \in {at[x], Null}
      BY <1>1, <2>2, <3>0 DEF CellMaps
    <3> QED  BY <1>5, <1>8, <2>2, <3>1
  <2> QED  BY <1>2, <1>8, <2>1, <2>2 DEF MoveFrom, Fail, Stop
<1>9. CASE todo[1].op = "put" /\ Assign(todo[1].cell, todo[1].object)
  <2>1. CASE live' = live /\ todo' = todo /\ at' = at
    BY <1>3, <2>1
  <2>2. CASE todo' = Tail(todo) /\ live' = live /\ at' = [at EXCEPT ![c] = todo[1].object]
    <3>1. at'[c] = todo[1].object /\ \A x \in Cells \ {c} : at'[x] = at[x]
      BY <1>1, <2>2 DEF CellMaps
    <3> QED  BY <1>5, <1>9, <2>2, <3>1
  <2> QED  BY <1>2, <1>9, <2>1, <2>2 DEF Assign, Fail, Stop
<1> QED  BY <1>6, <1>7, <1>8, <1>9
\* An operation begins by opening its cell; only its temporary can show.
LEMMA BegunHandsOver ==
  ASSUME todo = <<>>, NEW c \in Cells, NEW e \in Entries, e.cell = c, ~Opens(e),
         todo' = Pair(c, e), at' = at, live' = live,
         e.op = "put" /\ c \in Strong => e.object = Null \/ \E x \in Strong : at[x] = e.object
  PROVE  HandedOver(todo', at')
<1>1. /\ \A x \in Cells : ~Off(Pair(c, e), x) /\ ~Off(<<>>, x)
      /\ Hand(Pair(c, e), Strong) = IF e.op = "put" /\ c \in Strong THEN e.object ELSE Null
  BY OffPair, HandPair
<1>2. ASSUME NEW x \in Strong PROVE View(todo', at')[x] = at[x] /\ View(todo, at)[x] = at[x]
  BY <1>1, ViewAt DEF Cells
<1>3. View(todo', at')[Unnamed] = Null \/ \E x \in Strong : at[x] = View(todo', at')[Unnamed]
  BY <1>1, ViewAt
<1> QED  BY <1>2, <1>3 DEF HandedOver, HandsOver

\* What an operation does at its start.
LEMMA ProgramHandsOver ==
  ASSUME IInv,
         \/ \E c \in Cells : Drop(c)
         \/ \E kind \in {Strong, Weak} : \E c, d \in kind : CopyAssign(c, d) \/ MoveAssign(c, d)
         \/ \E w \in Weak : ResetByName(w)
         \/ \E w \in Weak, c \in Strong : Watch(w, c) \/ Lock(c, w)
  PROVE  HandedOver(todo', at')
<1>1. CASE live' = live /\ todo' = todo /\ at' = at
  <2>1. View(todo', at') = View(todo, at)
    BY ONLY <1>1
  <2> QED  BY <1>1, <2>1, StillHandsOver DEF HandedOver
<1>2. ASSUME NEW c \in Cells, Drop(c) PROVE HandedOver(todo', at')
  <2>1. /\ todo = <<>> /\ todo' = Pair(c, Clear(c)) /\ at' = at /\ live' = live
        /\ Clear(c) \in Entries /\ ~Opens(Clear(c)) /\ Clear(c).cell = c /\ Clear(c).op = "clear"
    BY <1>2, EntryForms, ProgramFacts DEF Drop, Ready, Begin, Pair
  <2> QED  BY <2>1, BegunHandsOver
<1>3. ASSUME NEW kind \in {Strong, Weak}, NEW c \in kind, NEW d \in kind, CopyAssign(c, d) \/ MoveAssign(c, d)
      PROVE  HandedOver(todo', at')
  <2>1. c \in Cells /\ d \in Cells
    BY DEF Cells
  <2>2. /\ todo = <<>> /\ at' = at /\ live' = live
        /\ todo' = Pair(c, Copy(c, d)) \/ todo' = Pair(c, Move(c, d))
    BY <1>3 DEF CopyAssign, MoveAssign, Ready, Begin, Pair
  <2>3. PICK e : e \in {Copy(c, d), Move(c, d)} /\ todo' = Pair(c, e)
    BY <2>2
  <2>4. e \in Entries /\ e.cell = c /\ ~Opens(e) /\ e.op # "put"
    BY <2>1, <2>3, EntryForms, ProgramFacts
  <2> QED  BY <2>1, <2>2, <2>3, <2>4, BegunHandsOver
<1>4. ASSUME NEW w \in Weak, ResetByName(w) PROVE HandedOver(todo', at')
  <2>1. TypeOK /\ todo = <<>> /\ WeakReset(w, <<>>)
    BY <1>4, ProgramFacts DEF ResetByName, Ready
  <2>2. live' = live /\ todo' = todo /\ \A x \in Cells \ {w} : at'[x] = at[x]
    BY <2>1, WeakResetForms
  <2>3. \A x \in Strong : x \in Cells /\ x # w
    BY CellFacts DEF Cells
  <2>4. \A x \in Strong : Owning(todo, at')[x] = Owning(todo, at)[x]
    BY <2>2, <2>3 DEF Owning
  <2>5. View(todo, at') = View(todo, at)
    BY <2>4, SameView
  <2>6. View(todo', at') = View(todo, at)
    BY ONLY <2>2, <2>5
  <2> QED  BY <2>2, <2>6, StillHandsOver DEF HandedOver
<1>5. ASSUME NEW c \in Cells, NEW o \in Objects \cup {Null}, todo = <<>>,
             Begin(<<Reset(c), Put(c, o)>>),
             c \in Strong => o = Null \/ \E x \in Strong : at[x] = o
      PROVE  HandedOver(todo', at')
  <2>1. /\ todo' = Pair(c, Put(c, o)) /\ at' = at /\ live' = live
        /\ Put(c, o) \in Entries /\ ~Opens(Put(c, o)) /\ Put(c, o).cell = c /\ Put(c, o).object = o
    BY <1>5, EntryForms, ProgramFacts DEF Begin, Pair
  <2> QED  BY <1>5, <2>1, BegunHandsOver
<1>6. ASSUME NEW w \in Weak, NEW c \in Strong, Watch(w, c) PROVE HandedOver(todo', at')
  <2>1. TypeOK /\ todo = <<>> /\ w \in Cells /\ c \in Cells /\ w \notin Strong
    BY <1>6, ProgramFacts, CellFacts DEF Watch, Ready, Cells
  <2>2. at[c] \in Objects \cup {Null}
    BY <2>1 DEF TypeOK, CellMaps
  <2>3. CASE at[c] = Null
    BY <1>1, <1>6, <2>3 DEF Watch, Fail, Stop
  <2>4. CASE at[c] # Null
    BY <1>5, <1>6, <2>1, <2>2, <2>4 DEF Watch
  <2> QED  BY <2>3, <2>4
<1>7. ASSUME NEW w \in Weak, NEW c \in Strong, Lock(c, w) PROVE HandedOver(todo', at')
  <2>1. TypeOK /\ todo = <<>> /\ w \in Cells /\ c \in Cells /\ Tally(todo, at, strong, weak, resets)
    BY <1>7, ProgramFacts DEF Lock, Ready, Cells, IInv, Books
  <2>2. at[w] \in Objects \cup {Null}
    BY <2>1 DEF TypeOK, CellMaps
  <2>3. CASE at[w] # Null /\ at[w] \notin block
    BY <1>1, <1>7, <2>3 DEF Lock, Fail, Stop
  <2>4. CASE at[w] # Null /\ at[w] \in block /\ strong[at[w]] > 0
    <3>1. PICK o \in Objects : o = at[w] /\ strong[o] > 0
      BY <2>2, <2>4
    <3>2. Hand(<<>>, Strong) = Null /\ o # Null /\ \A x \in Cells : ~Off(<<>>, x)
      <4>1. \A i \in 1..Len(<<>>) : FALSE
        OBVIOUS
      <4> QED  BY <4>1, CellFacts DEF Hand, Off
    <3>3. \E x \in Strong : Owning(todo, at)[x] = o
      <4> DEFINE m == Cardinality(Holders(Strong, Owning(todo, at), o))
                 n == Is(Hand(todo, Strong), o)
      <4>1. m \in Nat /\ (m = 0 <=> \A x \in Strong : Owning(todo, at)[x] # o)
        BY CellFacts, HoldersCounted
      <4>2. n = 0
        BY <2>1, <3>2 DEF Is
      <4>3. strong[o] = m + n
        BY <2>1 DEF Tally
      <4>4. m # 0
        <5> HIDE DEF m, n
        <5> QED  BY <3>1, <4>1, <4>2, <4>3
      <4> QED  BY <4>1, <4>4
    <3>4. \E x \in Strong : at[x] = o
      BY <2>1, <3>2, <3>3 DEF Owning, Cells
    <3>5. Begin(<<Reset(c), Put(c, o)>>)
      BY <1>7, <2>4, <3>1 DEF Lock
    <3> QED  BY <1>5, <2>1, <3>4, <3>5
  <2>5. CASE at[w] = Null \/ (at[w] \in block /\ ~(strong[at[w]] > 0))
    <3>1. Begin(<<Reset(c), Put(c, Null)>>)
      BY <1>7, <2>5 DEF Lock
    <3> QED  BY <1>5, <2>1, <3>1
  <2> QED  BY <2>3, <2>4, <2>5
<1> QED  BY <1>2, <1>3, <1>4, <1>6, <1>7

\* new hands its object to the temporary.
LEMMA NewComes ==
  ASSUME IInv, NEW c \in Strong, New(c)
  PROVE  Comes
<1>1. PICK o \in Objects : NewObject(c, o)
  BY NewForm
<1>2. /\ todo = <<>> /\ todo' = Pair(c, Put(c, o)) /\ at' = at /\ o \notin live
      /\ live' = live \cup {o}
  BY <1>1 DEF NewObject
<1>3. /\ c \in Cells /\ Put(c, o) \in Entries /\ ~Opens(Put(c, o)) /\ Put(c, o).cell = c
      /\ Put(c, o).op = "put" /\ Put(c, o).object = o
  BY EntryForms, ProgramFacts DEF Cells
<1>4. /\ \A x \in Cells : ~Off(Pair(c, Put(c, o)), x) /\ ~Off(<<>>, x)
      /\ Hand(Pair(c, Put(c, o)), Strong) = o
  BY <1>3, OffPair, HandPair
<1>5. \A x \in Strong : Owning(Pair(c, Put(c, o)), at)[x] = Owning(<<>>, at)[x]
  BY <1>4 DEF Owning, Cells
<1>6. View(Pair(c, Put(c, o)), at) = [View(<<>>, at) EXCEPT ![Unnamed] = o]
  BY <1>4, <1>5, CellFacts DEF View
<1>7. View(todo', at') = [View(todo, at) EXCEPT ![Unnamed] = o]
  BY ONLY <1>2, <1>6
<1> QED  BY <1>2, <1>7 DEF Comes

\* Every step of the code keeps, ends or starts ownership as it may.
LEMMA NextServes ==
  ASSUME IInv, [Next]_vars
  PROVE  HandedOver(todo', at') \/ Dies \/ Comes
<1>1. CASE Step
  <2>1. /\ todo # <<>> /\ todo \in Seq(Entries)
    BY <1>1 DEF Step, IInv, Frame, TypeOK
  <2>2. Head(todo) = todo[1] /\ todo[1] \in Entries
    BY <2>1, SeqTail
  <2> DEFINE s == todo[1]
  <2>3. /\ s.cell \in Cells /\ (s.op = "reset" => s = Reset(s.cell))
        /\ s.op = "count" => s.cell \in Strong /\ s = Count(s.cell)
    BY <2>2, EntryForms
  <2>4. CASE \/ s.op = "reset" /\ s.cell \in Strong /\ ResetStrong(s.cell)
             \/ s.op = "reset" /\ s.cell \in Weak /\ WeakReset(s.cell, Tail(todo))
    BY <2>1, <2>3, <2>4, ResetHandsOver
  <2>5. CASE s.op = "count" /\ CountWeak(s.cell)
    BY <2>1, <2>3, <2>5, CountDies
  <2>6. CASE \/ s.op = "clear" /\ Assign(s.cell, Null)
             \/ s.op = "copy" /\ CopyFrom(s.cell, s.from)
             \/ s.op = "move" /\ MoveFrom(s.cell, s.from)
             \/ s.op = "put" /\ Assign(s.cell, s.object)
    BY <2>1, <2>6, AssignmentHandsOver
  <2> QED  BY <1>1, <2>2, <2>4, <2>5, <2>6 DEF Step
<1>2. CASE Program
  <2>1. ASSUME NEW c \in Strong, New(c) PROVE Comes
    BY <2>1, NewComes
  <2>2. CASE ~(\E c \in Strong : New(c))
    <3>1. \/ \E c \in Cells : Drop(c)
          \/ \E kind \in {Strong, Weak} : \E c, d \in kind : CopyAssign(c, d) \/ MoveAssign(c, d)
          \/ \E w \in Weak : ResetByName(w)
          \/ \E w \in Weak, c \in Strong : Watch(w, c) \/ Lock(c, w)
      BY <1>2, <2>2 DEF Program, Cells
    <3> QED  BY <3>1, ProgramHandsOver
  <2> QED  BY <2>1, <2>2
<1>3. CASE UNCHANGED vars
  <2>1. live' = live /\ todo' = todo /\ at' = at
    BY <1>3 DEF vars
  <2>2. View(todo', at') = View(todo, at)
    BY ONLY <2>1
  <2> QED  BY <2>1, <2>2, StillHandsOver DEF HandedOver
<1> QED  BY <1>1, <1>2, <1>3 DEF Next

\* The same, read at the next state.
LEMMA OwnersSeenNext == (IInv => OwnerMap = View(todo, at))'
BY OwnersSeen, PTL

\* A hand-over is a Change, or nothing Ownership sees; a death is a Die; a new
\* object is a Make.
LEMMA NextRefines ==
  ASSUME IInv, IInv', [Next]_vars
  PROVE  [Owners!Next]_<<live, OwnerMap>>
<1>1. OwnerMap = View(todo, at) /\ OwnerMap' = View(todo', at')
  BY OwnersSeen, OwnersSeenNext
<1>2. CASE HandedOver(todo', at')
  <2>1. View(todo', at') \in [Strong \cup {Unnamed} -> Owners!Owned \cup {Null}]
    <3>1. \A x \in Strong \cup {Unnamed} : View(todo', at')[x] \in Owners!Owned \cup {Null}
      BY <1>1, <1>2 DEF HandedOver, HandsOver, Owners!Owned, OwnerMap
    <3> QED  BY <3>1 DEF View
  <2> QED  BY <1>1, <1>2, <2>1 DEF HandedOver, Owners!Next, Owners!Change, OwnerMap
<1>3. CASE Dies
  BY <1>1, <1>3 DEF Dies, Owners!Next, Owners!Die, Owners!Owned, OwnerMap
<1>4. CASE Comes
  BY <1>1, <1>4 DEF Comes, Owners!Next, Owners!Make, OwnerMap
<1> QED  BY <1>2, <1>3, <1>4, NextServes

\* For any cells and objects, and through whatever nest of destructors: an
\* object lives as long as some shared pointer owns it, and an object that is
\* gone is owned by nobody again; only new makes an owner out of nothing.
THEOREM PromiseKept == Spec => KeepsPromise
<1>1. Init => Owners!Init
  <2> SUFFICES ASSUME Init PROVE Owners!Init
    OBVIOUS
  <2>1. todo = <<>> /\ live = {} /\ OwnerMap = View(<<>>, at)
    BY InitHolds, OwnersSeen DEF Init
  <2>2. Hand(<<>>, Strong) = Null /\ \A x \in Strong : ~Off(<<>>, x)
    <3>1. \A i \in 1..Len(<<>>) : FALSE
      OBVIOUS
    <3> QED  BY <3>1 DEF Hand, Off
  <2>3. \A x \in Strong : at[x] = Null
    BY DEF Init
  <2>4. OwnerMap = [x \in Strong \cup {Unnamed} |-> Null]
    BY <2>1, <2>2, <2>3, ViewAt DEF View
  <2> QED  BY <2>1, <2>4 DEF Owners!Init, OwnerMap
<1>2. IInv /\ IInv' /\ [Next]_vars =>
        [Owners!Next]_<<live, [c \in Strong \cup {Unnamed} |->
                                 IF c = Unnamed THEN Temporary ELSE Counted(c)]>>
  BY NextRefines DEF OwnerMap
<1> QED  BY <1>1, <1>2, Invariance, PTL DEF Spec, KeepsPromise, Owners!Spec
===============================================================================
