------------------------ MODULE DocumentContext_proofs ------------------------
(***************************************************************************)
(* What the proofs about an open document rest on.                          *)
(*                                                                          *)
(* Ids: cells are found by their ids, so every proof first needs that no    *)
(* list of cells holds an id twice, and that no id in use anywhere - in the *)
(* model, its two stacks, the file, a save under way, the shared document - *)
(* is the next one to be given.  Lists, Files and Loaded are lists, files   *)
(* and models with ids below n; the operations on them stay in them.        *)
(*                                                                          *)
(* What is shown: a document that is written and read again shows the same, *)
(* because only code cells of a file carry results (Bare).  Without that, a *)
(* read would change what is shown, and SharedAgrees and CleanIsSaved would *)
(* fail after a revert; OpenedAssumption asks it of the file opened first,  *)
(* the lemmas show it of all others.                                        *)
(*                                                                          *)
(* Saves: CleanIsSaved is not inductive.  SavesInv says of a save that      *)
(* nothing overtook that it sent what is shown, and that the file, once     *)
(* written, still is what it sent.                                          *)
(*                                                                          *)
(* The line: LineIs says which document is where on the line of a model,    *)
(* SameLine that the two models of an undo or a redo have the same one.     *)
(*                                                                          *)
(* The controller: the second half is about NotebookController, which edits *)
(* the same model and keeps a selection over it.  ToldInv says what the     *)
(* editor was told.  StateInv says which ids selection, clipboard and       *)
(* executions may hold; that the active cell stays in the notebook needs of *)
(* each edit, and of each loop of edits, which ids are in it afterwards.    *)
(* Its loops are functions (Turns, LoopOf); LoopExists and LoopKeeps are    *)
(* the induction over them, by a least counterexample.                      *)
(***************************************************************************)
EXTENDS DocumentContext, NotebookController, SequenceTheorems, WellFoundedInduction, TLAPS

-----------------------------------------------------------------------------
(* The operators on sequences.                                              *)

\* A set of natural numbers that is not empty has a least element.
LEMMA LeastNatural ==
  ASSUME NEW T \in SUBSET Nat, T # {}
  PROVE  Min(T) \in T /\ \A m \in T : Min(T) <= m
<1> DEFINE R == OpToRel(<, Nat)
<1>1. \A x, y \in Nat : <<x, y>> \in R <=> x < y
  BY DEF OpToRel
<1>2. IsWellFoundedOn(R, Nat)
  BY NatLessThanWellFounded
<1> HIDE DEF R
<1>3. PICK x \in T : \A y \in T : ~(<<y, x>> \in R)
   BY <1>2, WFMin
<1>4. \A y \in T : ~(y < x)
  BY <1>1, <1>3
<1>5. \A y \in T : x <= y
  BY <1>4
<1> QED
  BY <1>5 DEF Min

\* The elements of a concatenation.
LEMMA ConcatIs ==
  ASSUME NEW S, NEW s \in Seq(S), NEW t \in Seq(S)
  PROVE  /\ s \o t \in Seq(S)
         /\ Len(s \o t) = Len(s) + Len(t)
         /\ \A i \in 1..Len(s) : (s \o t)[i] = s[i]
         /\ \A i \in 1..Len(t) : (s \o t)[Len(s) + i] = t[i]
<1>1. Len(s) \in Nat /\ Len(t) \in Nat
  BY LenProperties
<1>2. /\ s \o t \in Seq(S) /\ Len(s \o t) = Len(s) + Len(t)
      /\ \A i \in 1..Len(s) + Len(t) : (s \o t)[i] = IF i <= Len(s) THEN s[i] ELSE t[i - Len(s)]
  BY ConcatProperties
<1>3. ASSUME NEW i \in 1..Len(s) PROVE (s \o t)[i] = s[i]
  BY <1>1, <1>2
<1>4. ASSUME NEW i \in 1..Len(t) PROVE (s \o t)[Len(s) + i] = t[i]
  <2>1. Len(s) + i \in 1..Len(s) + Len(t) /\ ~(Len(s) + i <= Len(s)) /\ Len(s) + i - Len(s) = i
    BY <1>1
  <2> QED
    BY <1>2, <2>1
<1> QED
  BY <1>2, <1>3, <1>4

\* A part of a sequence.
LEMMA SubSeqIs ==
  ASSUME NEW S, NEW s \in Seq(S), NEW m \in 1..Len(s) + 1, NEW n \in 0..Len(s), m <= n + 1
  PROVE  /\ SubSeq(s, m, n) \in Seq(S)
         /\ Len(SubSeq(s, m, n)) = n + 1 - m
         /\ \A i \in 1..n + 1 - m : SubSeq(s, m, n)[i] = s[m + i - 1]
<1>1. Len(s) \in Nat /\ m \in Int /\ n \in Int
  BY LenProperties
<1>2. \A i \in m..n : i \in 1..Len(s)
  BY <1>1
<1>3. \A i \in m..n : s[i] \in S
  BY <1>2, ElementOfSeq
<1>4. /\ SubSeq(s, m, n) \in Seq(S)
      /\ Len(SubSeq(s, m, n)) = IF m <= n THEN n - m + 1 ELSE 0
      /\ \A i \in 1..n - m + 1 : SubSeq(s, m, n)[i] = s[m + i - 1]
  BY <1>1, <1>3, SubSeqProperties
<1> QED
  BY <1>1, <1>4

\* An element is inserted: those before it stay, the others move up.
LEMMA InsertAtIs ==
  ASSUME NEW S, NEW s \in Seq(S), NEW i \in 1..Len(s) + 1, NEW e \in S
  PROVE  /\ InsertAt(s, i, e) \in Seq(S)
         /\ Len(InsertAt(s, i, e)) = Len(s) + 1
         /\ \A j \in 1..i - 1 : InsertAt(s, i, e)[j] = s[j]
         /\ InsertAt(s, i, e)[i] = e
         /\ \A j \in i..Len(s) : InsertAt(s, i, e)[j + 1] = s[j]
<1> DEFINE a == SubSeq(s, 1, i - 1)
           b == SubSeq(s, i, Len(s))
           one == <<e>>
           c == a \o one
<1>1. Len(s) \in Nat /\ i \in Nat
  BY LenProperties
<1>2. /\ a \in Seq(S) /\ Len(a) = i - 1
      /\ \A j \in 1..i - 1 : a[j] = s[j]
  BY <1>1, SubSeqIs
<1>3. /\ b \in Seq(S) /\ Len(b) = Len(s) + 1 - i
      /\ \A j \in 1..Len(s) + 1 - i : b[j] = s[i + j - 1]
  BY <1>1, SubSeqIs
<1>4. one \in Seq(S) /\ Len(one) = 1 /\ one[1] = e
  OBVIOUS
<1>5. InsertAt(s, i, e) = c \o b
  BY DEF InsertAt
<1> HIDE DEF a, b, one
<1>6. /\ c \in Seq(S) /\ Len(c) = Len(a) + 1
      /\ \A j \in 1..Len(a) : c[j] = a[j]
      /\ c[Len(a) + 1] = e
  <2>1. a \in Seq(S) /\ one \in Seq(S)
    BY <1>2, <1>4
  <2>2. /\ c \in Seq(S) /\ Len(c) = Len(a) + Len(one)
        /\ \A j \in 1..Len(a) : c[j] = a[j]
        /\ \A j \in 1..Len(one) : c[Len(a) + j] = one[j]
    BY ONLY <2>1, ConcatIs
  <2> QED
    BY <1>4, <2>2
<1>7. /\ Len(c) = i
      /\ \A j \in 1..i - 1 : c[j] = s[j]
      /\ c[i] = e
  BY <1>1, <1>2, <1>6
<1> HIDE DEF c
<1>8. /\ c \o b \in Seq(S) /\ Len(c \o b) = i + Len(b)
      /\ \A j \in 1..i : (c \o b)[j] = c[j]
      /\ \A j \in 1..Len(b) : (c \o b)[i + j] = b[j]
  <2>1. c \in Seq(S) /\ b \in Seq(S)
    BY <1>3, <1>6
  <2>2. /\ c \o b \in Seq(S) /\ Len(c \o b) = Len(c) + Len(b)
        /\ \A j \in 1..Len(c) : (c \o b)[j] = c[j]
        /\ \A j \in 1..Len(b) : (c \o b)[Len(c) + j] = b[j]
    BY <2>1, ConcatIs
  <2>3. Len(c) = i
    BY <1>7
  <2> QED
    BY <2>2, <2>3
<1>9. ASSUME NEW j \in i..Len(s) PROVE (c \o b)[j + 1] = s[j]
  <2>1. j + 1 - i \in 1..Len(b) /\ i + (j + 1 - i) = j + 1 /\ i + (j + 1 - i) - 1 = j
    BY <1>1, <1>3
  <2>2. (c \o b)[i + (j + 1 - i)] = b[j + 1 - i]
    BY <1>8, <2>1
  <2>3. b[j + 1 - i] = s[i + (j + 1 - i) - 1]
    BY <1>3, <2>1
  <2> QED
    BY <2>1, <2>2, <2>3
<1>10. \A j \in 1..i - 1 : j \in 1..i /\ (c \o b)[j] = s[j]
  BY <1>1, <1>7, <1>8
<1>11. (c \o b)[i] = e
  BY <1>1, <1>7, <1>8
<1>12. Len(c \o b) = Len(s) + 1
  BY <1>1, <1>3, <1>8
<1> QED
  BY <1>5, <1>8, <1>9, <1>10, <1>11, <1>12

\* An element is removed: those before it stay, the others move down.
LEMMA RemoveAtIs ==
  ASSUME NEW S, NEW s \in Seq(S), NEW i \in 1..Len(s)
  PROVE  /\ RemoveAt(s, i) \in Seq(S)
         /\ Len(RemoveAt(s, i)) = Len(s) - 1
         /\ \A j \in 1..i - 1 : RemoveAt(s, i)[j] = s[j]
         /\ \A j \in i..Len(s) - 1 : RemoveAt(s, i)[j] = s[j + 1]
<1> DEFINE a == SubSeq(s, 1, i - 1)
           b == SubSeq(s, i + 1, Len(s))
<1>1. Len(s) \in Nat /\ i \in Nat
  BY LenProperties
<1>2. /\ a \in Seq(S) /\ Len(a) = i - 1
      /\ \A j \in 1..i - 1 : a[j] = s[j]
  BY <1>1, SubSeqIs
<1>3. /\ b \in Seq(S) /\ Len(b) = Len(s) - i
      /\ \A j \in 1..Len(s) - i : b[j] = s[i + j]
  BY <1>1, SubSeqIs
<1>4. RemoveAt(s, i) = a \o b
  BY DEF RemoveAt
<1> HIDE DEF a, b
<1>5. /\ a \o b \in Seq(S) /\ Len(a \o b) = Len(a) + Len(b)
      /\ \A j \in 1..Len(a) : (a \o b)[j] = a[j]
      /\ \A j \in 1..Len(b) : (a \o b)[Len(a) + j] = b[j]
  <2>1. a \in Seq(S) /\ b \in Seq(S)
    BY <1>2, <1>3
  <2> QED
    BY <2>1, ConcatIs
<1>6. ASSUME NEW j \in i..Len(s) - 1 PROVE (a \o b)[j] = s[j + 1]
  <2>1. j - (i - 1) \in 1..Len(b) /\ Len(a) + (j - (i - 1)) = j /\ i + (j - (i - 1)) = j + 1
    BY <1>1, <1>2, <1>3
  <2>2. (a \o b)[Len(a) + (j - (i - 1))] = b[j - (i - 1)]
    BY <1>5, <2>1
  <2>3. b[j - (i - 1)] = s[i + (j - (i - 1))]
    BY <1>3, <2>1
  <2> QED
    BY <2>1, <2>2, <2>3
<1>7. Len(a \o b) = Len(s) - 1
  BY <1>1, <1>2, <1>3, <1>5
<1>8. \A j \in 1..i - 1 : (a \o b)[j] = s[j]
  BY <1>2, <1>5
<1> QED
  BY <1>4, <1>5, <1>6, <1>7, <1>8

\* An element is replaced.
LEMMA ReplaceAtIs ==
  ASSUME NEW S, NEW s \in Seq(S), NEW i \in 1..Len(s), NEW e \in S
  PROVE  /\ ReplaceAt(s, i, e) \in Seq(S)
         /\ Len(ReplaceAt(s, i, e)) = Len(s)
         /\ \A j \in 1..Len(s) : ReplaceAt(s, i, e)[j] = IF j = i THEN e ELSE s[j]
BY ExceptSeq DEF ReplaceAt

\* The last element of a sequence, and what is before it.
LEMMA FrontLastIs ==
  ASSUME NEW S, NEW s \in Seq(S), s # <<>>
  PROVE  /\ Front(s) \in Seq(S) /\ Len(Front(s)) = Len(s) - 1
         /\ \A i \in 1..Len(s) - 1 : Front(s)[i] = s[i]
         /\ Last(s) \in S /\ Last(s) = s[Len(s)] /\ Len(s) \in Nat \ {0}
<1>1. Len(s) \in Nat \ {0}
  BY EmptySeq, LenProperties
<1>2. Last(s) \in S
  BY <1>1, ElementOfSeq DEF Last
<1>3. /\ Front(s) \in Seq(S) /\ Len(Front(s)) = Len(s) - 1
      /\ \A i \in 1..Len(s) - 1 : Front(s)[i] = s[i]
  <2>1. 1 \in 1..Len(s) + 1 /\ Len(s) - 1 \in 0..Len(s) /\ 1 <= Len(s) - 1 + 1
    BY <1>1
  <2>2. /\ SubSeq(s, 1, Len(s) - 1) \in Seq(S)
        /\ Len(SubSeq(s, 1, Len(s) - 1)) = (Len(s) - 1) + 1 - 1
        /\ \A i \in 1..(Len(s) - 1) + 1 - 1 : SubSeq(s, 1, Len(s) - 1)[i] = s[1 + i - 1]
    BY <2>1, SubSeqIs
  <2> QED
    BY <1>1, <2>2 DEF Front
<1> QED
  BY <1>1, <1>2, <1>3 DEF Last

\* What a stack of at most n documents becomes, and how many it drops at the bottom.
Stacked(s, e, n) == IF Len(Append(s, e)) > n THEN Tail(Append(s, e)) ELSE Append(s, e)
Drops(s, n) == IF Len(s) = n THEN 1 ELSE 0

\* A stack has the new document on top and never more than n.
LEMMA StackedIs ==
  ASSUME NEW S, NEW s \in Seq(S), NEW e \in S, NEW n \in Nat \ {0}, Len(s) <= n
  PROVE  LET q == Stacked(s, e, n)
         IN /\ q \in Seq(S) /\ Len(q) = Len(s) + 1 - Drops(s, n) /\ Len(q) <= n /\ Len(q) >= 1
            /\ q[Len(q)] = e
            /\ \A i \in 1..Len(q) - 1 : q[i] = s[i + Drops(s, n)]
<1> DEFINE p == Append(s, e)
<1>1. /\ Len(s) \in Nat /\ p \in Seq(S) /\ Len(p) = Len(s) + 1
      /\ \A i \in 1..Len(s) : p[i] = s[i]
      /\ p[Len(s) + 1] = e
  BY LenProperties, AppendProperties
<1> HIDE DEF p
<1>2. CASE Len(s) = n
  <2>1. p # <<>>
    BY <1>1, EmptySeq
  <2>2. /\ Tail(p) \in Seq(S) /\ Len(Tail(p)) = Len(s)
        /\ \A i \in 1..Len(s) : Tail(p)[i] = p[i + 1]
    BY <1>1, <2>1, HeadTailProperties
  <2>3. Tail(p)[Len(s)] = e
    BY <1>1, <1>2, <2>2
  <2>4. \A i \in 1..Len(s) - 1 : Tail(p)[i] = s[i + 1]
    BY <1>1, <2>2
  <2> QED
    BY <1>1, <1>2, <2>2, <2>3, <2>4 DEF p, Stacked, Drops
<1>3. CASE Len(s) # n
  <2>1. ~(Len(p) > n) /\ Len(p) <= n
    BY <1>1, <1>3
  <2>2. Len(p) >= 1 /\ \A i \in 1..Len(p) - 1 : p[i] = s[i + 0]
    BY <1>1
  <2> QED
    BY <1>1, <1>3, <2>1, <2>2 DEF p, Stacked, Drops
<1> QED
  BY <1>2, <1>3

-----------------------------------------------------------------------------
(* Documents.                                                               *)

\* Cells and files whose ids are below n, with no id twice; only code cells of a
\* file carry results.
Distinct(cells) == \A i, j \in 1..Len(cells) : i # j => cells[i].id # cells[j].id
Bare(f) == f.type = "markdown" => f.count = Absent /\ f.out = Absent
Lists(n) == {s \in Seq(Cells(1..n - 1)) : Distinct(s)}
FileLists(n) == {s \in Seq(FileCells(1..n - 1)) : Distinct(s) /\ \A i \in 1..Len(s) : Bare(s[i])}
Files(n) == [meta: BOOLEAN, cells: FileLists(n)]
Loaded(n) == [cells: Lists(n), meta: BOOLEAN, undo: Seq(Files(n)), redo: Seq(Files(n)),
              dirty: BOOLEAN]

\* What toJSON makes of a cell, and parseNotebook of one in a file.
LEMMA FileCellIs ==
  ASSUME NEW I, NEW c \in Cells(I)
  PROVE  FileCell(c) \in FileCells(I) /\ FileCell(c).id = c.id /\ Bare(FileCell(c))
BY DocumentAssumption DEF FileCell, FileCells, Cells, Bare, Absent

\* parseNotebook keeps the id of a cell.
LEMMA ParseCellIs ==
  ASSUME NEW I, NEW f \in FileCells(I)
  PROVE  ParseCell(f) \in Cells(I) /\ ParseCell(f).id = f.id
BY DEF ParseCell, FileCells, Cells

\* A parsed cell is shown as the one in the file.
LEMMA SameCellShown ==
  ASSUME NEW I, NEW f \in FileCells(I), Bare(f)
  PROVE  ShownCell(FileCell(ParseCell(f))) = ShownCell(f)
<1>1. 0 # Absent
  BY DEF Absent
<1> QED
  BY <1>1 DEF ShownCell, FileCell, ParseCell, FileCells, Bare

\* toJSON of a list is a file of the same length, cell by cell.
LEMMA ToJSONIs ==
  ASSUME NEW n, NEW m, m.cells \in Lists(n), m.meta \in BOOLEAN
  PROVE  /\ ToJSON(m) \in Files(n) /\ ToJSON(m).meta = m.meta
         /\ Len(ToJSON(m).cells) = Len(m.cells)
         /\ \A i \in 1..Len(m.cells) : ToJSON(m).cells[i] = FileCell(m.cells[i])
<1> DEFINE k == Len(m.cells)
           t == [i \in 1..k |-> FileCell(m.cells[i])]
<1>1. /\ m.cells \in Seq(Cells(1..n - 1)) /\ Distinct(m.cells)
      /\ DOMAIN m.cells = 1..k /\ k \in Nat
  BY LenProperties DEF Lists
<1>2. \A i \in 1..k : m.cells[i] \in Cells(1..n - 1)
  BY <1>1, ElementOfSeq
<1>3. ToJSON(m) = [meta |-> m.meta, cells |-> t]
  BY <1>1 DEF ToJSON
<1>4. \A i \in 1..k : /\ FileCell(m.cells[i]) \in FileCells(1..n - 1)
                      /\ FileCell(m.cells[i]).id = m.cells[i].id
                      /\ Bare(FileCell(m.cells[i]))
  BY <1>2, FileCellIs
<1> HIDE DEF k
<1>5. t \in Seq(FileCells(1..n - 1)) /\ Len(t) = k
  BY <1>1, <1>4
<1>6. \A i \in 1..k : t[i] = FileCell(m.cells[i])
  OBVIOUS
<1> HIDE DEF t
<1>7. Distinct(t) /\ \A i \in 1..Len(t) : Bare(t[i])
  BY <1>1, <1>4, <1>5, <1>6 DEF Distinct, k
<1> QED
  BY <1>3, <1>5, <1>6, <1>7 DEF Files, FileLists, k

\* parseNotebook of a file is a list of the same length, cell by cell.
LEMMA ParseIs ==
  ASSUME NEW n, NEW d \in Files(n)
  PROVE  /\ Parse(d) \in Lists(n) /\ Len(Parse(d)) = Len(d.cells)
         /\ \A i \in 1..Len(d.cells) : Parse(d)[i] = ParseCell(d.cells[i])
<1> DEFINE k == Len(d.cells)
           t == [i \in 1..k |-> ParseCell(d.cells[i])]
<1>1. /\ d.cells \in Seq(FileCells(1..n - 1)) /\ Distinct(d.cells)
      /\ DOMAIN d.cells = 1..k /\ k \in Nat
  BY LenProperties DEF Files, FileLists
<1>2. \A i \in 1..k : d.cells[i] \in FileCells(1..n - 1)
  BY <1>1, ElementOfSeq
<1>3. Parse(d) = t
  BY <1>1 DEF Parse
<1>4. \A i \in 1..k : /\ ParseCell(d.cells[i]) \in Cells(1..n - 1)
                      /\ ParseCell(d.cells[i]).id = d.cells[i].id
  BY <1>2, ParseCellIs
<1> HIDE DEF k
<1>5. t \in Seq(Cells(1..n - 1)) /\ Len(t) = k
  BY <1>1, <1>4
<1>6. \A i \in 1..k : t[i] = ParseCell(d.cells[i])
  OBVIOUS
<1> HIDE DEF t
<1>7. Distinct(t)
  BY <1>1, <1>4, <1>5, <1>6 DEF Distinct, k
<1> QED
  BY <1>3, <1>5, <1>6, <1>7 DEF Lists, k

\* A document that was loaded from a file shows what is in the file.
LEMMA LoadedShown ==
  ASSUME NEW n, NEW d \in Files(n), NEW m, m.cells = Parse(d), m.meta = d.meta
  PROVE  Shown(ToJSON(m)) = Shown(d)
<1>1. d.meta \in BOOLEAN /\ d.cells \in FileLists(n)
  BY DEF Files
<1>2. /\ Parse(d) \in Lists(n) /\ Len(Parse(d)) = Len(d.cells)
      /\ \A i \in 1..Len(d.cells) : Parse(d)[i] = ParseCell(d.cells[i])
  BY ParseIs
<1>3. /\ ToJSON(m) \in Files(n) /\ ToJSON(m).meta = d.meta
      /\ Len(ToJSON(m).cells) = Len(d.cells)
      /\ \A i \in 1..Len(m.cells) : ToJSON(m).cells[i] = FileCell(m.cells[i])
  BY <1>1, <1>2, ToJSONIs
<1>4. \A i \in 1..Len(d.cells) : d.cells[i] \in FileCells(1..n - 1) /\ Bare(d.cells[i])
  BY <1>1, ElementOfSeq DEF FileLists
<1>5. \A i \in 1..Len(d.cells) : ShownCell(ToJSON(m).cells[i]) = ShownCell(d.cells[i])
  BY <1>2, <1>3, <1>4, SameCellShown
<1>6. DOMAIN ToJSON(m).cells = 1..Len(d.cells) /\ DOMAIN d.cells = 1..Len(d.cells)
  BY <1>1, <1>3, LenProperties DEF Files, FileLists
<1> QED
  BY <1>3, <1>5, <1>6 DEF Shown

\* Room for more ids.
LEMMA MoreIds ==
  ASSUME NEW n \in Nat \ {0}, NEW k \in Nat \ {0}, n <= k
  PROVE  /\ Lists(n) \subseteq Lists(k) /\ FileLists(n) \subseteq FileLists(k)
         /\ Files(n) \subseteq Files(k) /\ Loaded(n) \subseteq Loaded(k)
<1>1. 1..n - 1 \subseteq 1..k - 1
  OBVIOUS
<1>2. Cells(1..n - 1) \subseteq Cells(1..k - 1)
  BY <1>1 DEF Cells
<1>3. FileCells(1..n - 1) \subseteq FileCells(1..k - 1)
  BY <1>1 DEF FileCells
<1>4. Lists(n) \subseteq Lists(k)
  BY <1>2, SeqMonotonic DEF Lists
<1>5. FileLists(n) \subseteq FileLists(k)
  BY <1>3, SeqMonotonic DEF FileLists
<1>6. Files(n) \subseteq Files(k)
  BY <1>5 DEF Files
<1>7. Seq(Files(n)) \subseteq Seq(Files(k))
  BY <1>6, SeqMonotonic
<1>8. Loaded(n) \subseteq Loaded(k)
  BY <1>4, <1>7 DEF Loaded
<1> QED
  BY <1>4, <1>5, <1>6, <1>8

\* A new cell of any kind.
LEMMA NewCellIs ==
  ASSUME NEW I, NEW id \in I, NEW kind \in Kinds, NEW src \in Sources
  PROVE  NewCell(id, kind, src) \in Cells(I) /\ NewCell(id, kind, src).id = id
BY DocumentAssumption DEF NewCell, Cells, Kinds

\* A cell is found by its id.
LEMMA AtIs ==
  ASSUME NEW n, NEW m, m.cells \in Lists(n), NEW id
  PROVE  /\ HasCell(m, id) <=> id \in IdsOf(m)
         /\ id \in IdsOf(m) => /\ At(m, id) \in 1..Len(m.cells) /\ CellOf(m, id).id = id
                               /\ CellOf(m, id) \in Cells(1..n - 1)
                               /\ CellOf(m, id) = m.cells[At(m, id)]
                               /\ id \in 1..n - 1
<1> DEFINE I == {i \in 1..Len(m.cells) : m.cells[i].id = id}
<1>1. /\ m.cells \in Seq(Cells(1..n - 1)) /\ Len(m.cells) \in Nat
      /\ DOMAIN m.cells = 1..Len(m.cells)
      /\ \A i \in 1..Len(m.cells) : m.cells[i] \in Cells(1..n - 1)
  BY LenProperties, ElementOfSeq DEF Lists
<1>2. HasCell(m, id) <=> id \in IdsOf(m)
  BY DEF HasCell, IdsOf
<1>3. ASSUME id \in IdsOf(m)
      PROVE  At(m, id) \in I
  <2>1. I # {} /\ I \in SUBSET Nat
    BY <1>1, <1>3 DEF IdsOf
  <2>2. At(m, id) = IF I # {} THEN Min(I) ELSE 0
    BY DEF At, SelectInSeq
  <2> HIDE DEF I
  <2>3. Min(I) \in I
    BY <2>1, LeastNatural
  <2> QED
    BY <2>1, <2>2, <2>3
<1>4. ASSUME id \in IdsOf(m)
      PROVE  /\ At(m, id) \in 1..Len(m.cells) /\ CellOf(m, id).id = id
             /\ CellOf(m, id) \in Cells(1..n - 1)
             /\ CellOf(m, id) = m.cells[At(m, id)]
  BY <1>1, <1>3, <1>4 DEF CellOf
<1>5. \A c \in Cells(1..n - 1) : c.id \in 1..n - 1
  BY DEF Cells
<1> QED
  BY <1>2, <1>4, <1>5

\* Cells are inserted under an id of their own, removed, replaced and moved.
LEMMA InsertedList ==
  ASSUME NEW n, NEW s \in Lists(n), NEW c \in Cells(1..n - 1), NEW i \in 1..Len(s) + 1,
         \A j \in 1..Len(s) : s[j].id # c.id
  PROVE  InsertAt(s, i, c) \in Lists(n)
<1> DEFINE t == InsertAt(s, i, c)
<1>1. s \in Seq(Cells(1..n - 1)) /\ Distinct(s) /\ Len(s) \in Nat
  BY LenProperties DEF Lists
<1>2. /\ t \in Seq(Cells(1..n - 1)) /\ Len(t) = Len(s) + 1
      /\ \A j \in 1..i - 1 : t[j] = s[j]
      /\ t[i] = c
      /\ \A j \in i..Len(s) : t[j + 1] = s[j]
  BY <1>1, InsertAtIs
<1> HIDE DEF t
<1>3. ASSUME NEW j \in 1..Len(t), j # i
      PROVE  \E k \in 1..Len(s) : t[j] = s[k] /\ k = IF j < i THEN j ELSE j - 1
  <2>1. CASE j < i
    BY <1>1, <1>2, <2>1
  <2>2. CASE j > i
    <3>1. j - 1 \in i..Len(s) /\ j - 1 + 1 = j /\ j - 1 \in 1..Len(s)
      BY <1>1, <1>2, <2>2
    <3>2. t[j] = s[j - 1]
      BY <1>2, <3>1
    <3> QED
      BY <2>2, <3>1, <3>2
  <2> QED
    BY <1>1, <1>2, <1>3, <2>1, <2>2
<1>4. ASSUME NEW j \in 1..Len(t), NEW k \in 1..Len(t), j # k
      PROVE  t[j].id # t[k].id
  <2>1. CASE j = i
    BY <1>2, <1>3, <1>4, <2>1
  <2>2. CASE k = i
    BY <1>2, <1>3, <1>4, <2>2
  <2>3. CASE j # i /\ k # i
    <3>1. PICK a \in 1..Len(s) : t[j] = s[a] /\ a = IF j < i THEN j ELSE j - 1
      BY <1>3, <2>3
    <3>2. PICK b \in 1..Len(s) : t[k] = s[b] /\ b = IF k < i THEN k ELSE k - 1
      BY <1>3, <2>3
    <3>3. a # b
      BY <1>4, <2>3, <3>1, <3>2
    <3> QED
      BY <1>1, <3>1, <3>2, <3>3 DEF Distinct
  <2> QED
    BY <2>1, <2>2, <2>3
<1> QED
  BY <1>2, <1>4 DEF Lists, Distinct, t

\* Without one element, the others still have ids of their own.
LEMMA RemovedDistinct ==
  ASSUME NEW S, NEW s \in Seq(S), Distinct(s), NEW i \in 1..Len(s)
  PROVE  LET t == RemoveAt(s, i)
         IN /\ t \in Seq(S) /\ Len(t) = Len(s) - 1 /\ Distinct(t)
            /\ \A j \in 1..Len(t) : (\E k \in 1..Len(s) : t[j] = s[k]) /\ t[j].id # s[i].id
<1> DEFINE t == RemoveAt(s, i)
<1>1. Len(s) \in Nat
  BY LenProperties
<1>2. /\ t \in Seq(S) /\ Len(t) = Len(s) - 1
      /\ \A j \in 1..i - 1 : t[j] = s[j]
      /\ \A j \in i..Len(s) - 1 : t[j] = s[j + 1]
  BY <1>1, RemoveAtIs
<1> HIDE DEF t
<1>3. ASSUME NEW j \in 1..Len(t)
      PROVE  \E k \in 1..Len(s) : t[j] = s[k] /\ k = IF j < i THEN j ELSE j + 1
  <2>1. CASE j < i
    BY <1>1, <1>2, <2>1
  <2>2. CASE j >= i
    <3>1. j \in i..Len(s) - 1 /\ j + 1 \in 1..Len(s)
      BY <1>1, <1>2, <2>2
    <3>2. t[j] = s[j + 1]
      BY <1>2, <3>1
    <3> QED
      BY <2>2, <3>1, <3>2
  <2> QED
    BY <1>1, <1>2, <2>1, <2>2
<1>4. ASSUME NEW j \in 1..Len(t), NEW k \in 1..Len(t), j # k
      PROVE  t[j].id # t[k].id
  <2>1. PICK a \in 1..Len(s) : t[j] = s[a] /\ a = IF j < i THEN j ELSE j + 1
    BY <1>3
  <2>2. PICK b \in 1..Len(s) : t[k] = s[b] /\ b = IF k < i THEN k ELSE k + 1
    BY <1>3
  <2>3. a # b
    BY <1>4, <2>1, <2>2
  <2> QED
    BY <2>1, <2>2, <2>3 DEF Distinct
<1>5. ASSUME NEW j \in 1..Len(t)
      PROVE  t[j].id # s[i].id
  <2>1. PICK a \in 1..Len(s) : t[j] = s[a] /\ a = IF j < i THEN j ELSE j + 1
    BY <1>3
  <2>2. a # i
    BY <2>1
  <2> QED
    BY <2>1, <2>2 DEF Distinct
<1>6. Distinct(t)
  BY <1>4 DEF Distinct
<1>7. \A j \in 1..Len(t) : \E k \in 1..Len(s) : t[j] = s[k]
  BY <1>3
<1> QED
  BY <1>2, <1>5, <1>6, <1>7 DEF t

\* A list without one cell.
LEMMA RemovedList ==
  ASSUME NEW n, NEW s \in Lists(n), NEW i \in 1..Len(s)
  PROVE  /\ RemoveAt(s, i) \in Lists(n) /\ Len(RemoveAt(s, i)) = Len(s) - 1
         /\ \A j \in 1..Len(s) - 1 : RemoveAt(s, i)[j].id # s[i].id
<1>1. s \in Seq(Cells(1..n - 1)) /\ Distinct(s)
  BY DEF Lists
<1> QED
  BY <1>1, RemovedDistinct DEF Lists

\* A list with a cell replaced by one with the same id.
LEMMA ReplacedList ==
  ASSUME NEW n, NEW s \in Lists(n), NEW i \in 1..Len(s), NEW c \in Cells(1..n - 1), c.id = s[i].id
  PROVE  ReplaceAt(s, i, c) \in Lists(n)
<1> DEFINE t == ReplaceAt(s, i, c)
<1>1. s \in Seq(Cells(1..n - 1)) /\ Distinct(s)
  BY DEF Lists
<1>2. /\ t \in Seq(Cells(1..n - 1)) /\ Len(t) = Len(s)
      /\ \A j \in 1..Len(s) : t[j] = IF j = i THEN c ELSE s[j]
  BY <1>1, ReplaceAtIs
<1> HIDE DEF t
<1>3. \A j \in 1..Len(s) : t[j].id = s[j].id
  BY <1>2
<1>4. Distinct(t)
  BY <1>1, <1>2, <1>3 DEF Distinct
<1> QED
  BY <1>2, <1>4 DEF Lists, t

\* A list with a cell moved.
LEMMA MovedList ==
  ASSUME NEW n, NEW s \in Lists(n), NEW i \in 1..Len(s), NEW to \in 1..Len(s)
  PROVE  InsertAt(RemoveAt(s, i), to, s[i]) \in Lists(n)
<1>1. Len(s) \in Nat /\ s[i] \in Cells(1..n - 1)
  BY LenProperties, ElementOfSeq DEF Lists
<1>2. /\ RemoveAt(s, i) \in Lists(n) /\ Len(RemoveAt(s, i)) = Len(s) - 1
      /\ \A j \in 1..Len(s) - 1 : RemoveAt(s, i)[j].id # s[i].id
  BY RemovedList
<1>3. to \in 1..Len(RemoveAt(s, i)) + 1
  BY <1>1, <1>2
<1> QED
  BY <1>1, <1>2, <1>3, InsertedList

\* The same in a file, as another editor does it.
LEMMA RemovedFile ==
  ASSUME NEW n, NEW d \in Files(n), NEW i \in 1..Len(d.cells)
  PROVE  [d EXCEPT !.cells = RemoveAt(d.cells, i)] \in Files(n)
<1> DEFINE s == d.cells
           t == RemoveAt(s, i)
<1>1. /\ s \in Seq(FileCells(1..n - 1)) /\ Distinct(s) /\ \A j \in 1..Len(s) : Bare(s[j])
      /\ i \in 1..Len(s)
  BY DEF Files, FileLists
<1> HIDE DEF s
<1>2. /\ t \in Seq(FileCells(1..n - 1)) /\ Distinct(t)
      /\ \A j \in 1..Len(t) : \E k \in 1..Len(s) : t[j] = s[k]
  BY <1>1, RemovedDistinct
<1> HIDE DEF t
<1>3. \A j \in 1..Len(t) : Bare(t[j])
  BY <1>1, <1>2
<1>4. t \in FileLists(n)
  BY <1>2, <1>3 DEF FileLists
<1> QED
  BY <1>4 DEF Files, s, t

\* A file with the source of a cell changed.
LEMMA RetypedFile ==
  ASSUME NEW n, NEW d \in Files(n), NEW i \in 1..Len(d.cells), NEW src \in Sources
  PROVE  [d EXCEPT !.cells[i].src = src] \in Files(n)
<1> DEFINE s == d.cells
           c == [s[i] EXCEPT !.src = src]
           t == [s EXCEPT ![i] = c]
<1>1. s \in Seq(FileCells(1..n - 1)) /\ Distinct(s) /\ \A j \in 1..Len(s) : Bare(s[j])
  BY DEF Files, FileLists
<1>2. s[i] \in FileCells(1..n - 1) /\ Bare(s[i])
  BY <1>1, ElementOfSeq
<1>3. c \in FileCells(1..n - 1) /\ Bare(c) /\ c.id = s[i].id
  BY <1>2 DEF FileCells, Bare
<1>4. [d EXCEPT !.cells[i].src = src] = [d EXCEPT !.cells = t]
  BY <1>1 DEF Files
<1> HIDE DEF c
<1>5. /\ t \in Seq(FileCells(1..n - 1)) /\ Len(t) = Len(s)
      /\ \A j \in 1..Len(s) : t[j] = IF j = i THEN c ELSE s[j]
  BY <1>1, <1>3, ExceptSeq
<1> HIDE DEF t, s
<1>6. \A j \in 1..Len(t) : Bare(t[j]) /\ t[j].id = s[j].id
  BY <1>1, <1>3, <1>5
<1>7. Distinct(t)
  BY <1>1, <1>5, <1>6 DEF Distinct
<1>8. t \in FileLists(n)
  BY <1>5, <1>6, <1>7 DEF FileLists
<1> QED
  BY <1>4, <1>8 DEF Files

-----------------------------------------------------------------------------
(* The model: edits, undo and redo, and loading.                            *)

\* An edit of m: the document as it was is the last one to undo, nothing is left to
\* redo, and the oldest document is dropped when there were as many as may be.
Edited(m, e, n) ==
  /\ e \in Loaded(n) /\ e.dirty /\ e.redo = <<>>
  /\ Len(e.undo) = Len(m.undo) + 1 - Drops(m.undo, History)
  /\ \A i \in 1..Len(e.undo) - 1 : e.undo[i] = m.undo[i + Drops(m.undo, History)]
  /\ Len(e.undo) \in 1..History /\ e.undo[Len(e.undo)] = ToJSON(m)

\* The model as far as edits need it.
Held(m, n) == n \in Nat \ {0} /\ m \in Loaded(n) /\ Len(m.undo) <= History

\* What recordHistory() followed by a change comes to.
LEMMA RecordedIs ==
  ASSUME NEW n, NEW m, Held(m, n), NEW k \in Nat \ {0}, n <= k,
         NEW cells \in Lists(k), NEW meta \in BOOLEAN
  PROVE  Edited(m, [Recorded(m) EXCEPT !.cells = cells, !.meta = meta, !.dirty = TRUE], k)
<1>1. /\ n \in Nat \ {0} /\ m \in Loaded(n) /\ Len(m.undo) <= History /\ m.meta \in BOOLEAN
      /\ m.cells \in Lists(n) /\ m.undo \in Seq(Files(n)) /\ Len(m.undo) \in Nat
  BY LenProperties DEF Held, Loaded
<1>2. ToJSON(m) \in Files(n)
  BY <1>1, ToJSONIs
<1>3. History \in Nat \ {0}
  BY DocumentAssumption
<1> DEFINE q == Stacked(m.undo, ToJSON(m), History)
<1>4. Recorded(m) = [m EXCEPT !.undo = q, !.redo = <<>>]
  BY DEF Recorded, Stacked
<1>5. /\ q \in Seq(Files(n)) /\ Len(q) = Len(m.undo) + 1 - Drops(m.undo, History)
      /\ Len(q) <= History /\ Len(q) >= 1
      /\ q[Len(q)] = ToJSON(m)
      /\ \A i \in 1..Len(q) - 1 : q[i] = m.undo[i + Drops(m.undo, History)]
  BY <1>1, <1>2, <1>3, StackedIs
<1> HIDE DEF q
<1>8. Files(n) \subseteq Files(k)
  BY <1>1, MoreIds
<1>9. q \in Seq(Files(k)) /\ <<>> \in Seq(Files(k))
  BY <1>5, <1>8, SeqMonotonic
<1>10. PICK r : r = Recorded(m)
  OBVIOUS
<1>11. /\ r \in [cells: Lists(n), meta: BOOLEAN, undo: Seq(Files(k)), redo: Seq(Files(k)),
                dirty: BOOLEAN]
       /\ r.undo = q /\ r.redo = <<>>
  BY <1>1, <1>4, <1>9, <1>10 DEF Loaded
<1> DEFINE e == [r EXCEPT !.cells = cells, !.meta = meta, !.dirty = TRUE]
<1>13. e \in Loaded(k) /\ e.undo = q /\ e.redo = <<>> /\ e.dirty = TRUE
  BY <1>11 DEF Loaded
<1>12. Len(q) \in 1..History
  <2>1. Len(q) \in Nat /\ Len(q) <= History /\ Len(q) >= 1
    BY <1>5, LenProperties
  <2> QED
    BY <1>3, <2>1
<1> HIDE DEF e
<1>14. Edited(m, e, k)
  BY <1>5, <1>12, <1>13 DEF Edited
<1> QED
  BY <1>10, <1>14 DEF e

\* Every operation on the cells, and setMetadata, is an edit.
LEMMA WithCellsEdited ==
  ASSUME NEW n, NEW m, Held(m, n), NEW k \in Nat \ {0}, n <= k, NEW cells \in Lists(k)
  PROVE  Edited(m, WithCells(m, cells), k)
<1>1. m.meta \in BOOLEAN
  BY DEF Held, Loaded
<1>2. Edited(m, [Recorded(m) EXCEPT !.cells = cells, !.meta = m.meta, !.dirty = TRUE], k)
  BY <1>1, RecordedIs
<1>3. [Recorded(m) EXCEPT !.cells = cells, !.meta = m.meta, !.dirty = TRUE] = WithCells(m, cells)
  BY DEF WithCells, Recorded, Held, Loaded
<1> QED
  BY <1>2, <1>3

\* setMetadata() is an edit.
LEMMA MetadataEdited ==
  ASSUME NEW n, NEW m, Held(m, n), NEW meta \in BOOLEAN
  PROVE  Edited(m, SetMetadata(m, meta), n)
<1>1. m.cells \in Lists(n) /\ n \in Nat \ {0} /\ n <= n
  BY DEF Held, Loaded
<1>2. Edited(m, [Recorded(m) EXCEPT !.cells = m.cells, !.meta = meta, !.dirty = TRUE], n)
  BY <1>1, RecordedIs
<1>3. [Recorded(m) EXCEPT !.cells = m.cells, !.meta = meta, !.dirty = TRUE] = SetMetadata(m, meta)
  BY DEF SetMetadata, Recorded, Held, Loaded
<1> QED
  BY <1>2, <1>3

\* undo() and redo() move the present document to the other stack and show the last one
\* of theirs; loading a document starts anew.
Walked(m, e, n, shows) ==
  e \in Loaded(n) /\ e.dirty /\ Shown(ToJSON(e)) = Shown(shows)

\* What undo() comes to when there is something to undo.
LEMMA UndoIs ==
  ASSUME NEW n, NEW m, Held(m, n), m.undo # <<>>
  PROVE  /\ Walked(m, Undo(m), n, Last(m.undo))
         /\ Undo(m).undo = Front(m.undo) /\ Undo(m).redo = Append(m.redo, ToJSON(m))
<1>1. /\ m \in Loaded(n) /\ m.undo \in Seq(Files(n)) /\ m.redo \in Seq(Files(n))
      /\ m.cells \in Lists(n) /\ m.meta \in BOOLEAN
  BY DEF Held, Loaded
<1>2. PICK d : d = Last(m.undo)
  OBVIOUS
<1>3. PICK u : u = Front(m.undo)
  OBVIOUS
<1>4. PICK r : r = Append(m.redo, ToJSON(m))
  OBVIOUS
<1>5. d \in Files(n) /\ u \in Seq(Files(n))
  BY <1>1, <1>2, <1>3, FrontLastIs
<1>6. ToJSON(m) \in Files(n)
  BY <1>1, ToJSONIs
<1>7. r \in Seq(Files(n))
  BY <1>1, <1>4, <1>6, AppendProperties
<1>8. PICK a : a = Apply(m, d, TRUE)
  OBVIOUS
<1>9. a \in Loaded(n) /\ a.cells = Parse(d) /\ a.meta = d.meta /\ a.dirty = TRUE /\ a.redo = m.redo
  <2>1. Parse(d) \in Lists(n) /\ d.meta \in BOOLEAN
    BY <1>5, ParseIs DEF Files
  <2> QED
    BY <1>1, <1>8, <2>1 DEF Apply, Loaded
<1> DEFINE e == [a EXCEPT !.undo = u, !.redo = r]
<1>10. e \in Loaded(n) /\ e.cells = a.cells /\ e.meta = a.meta /\ e.dirty = a.dirty
       /\ e.undo = u /\ e.redo = r
  BY <1>5, <1>7, <1>9 DEF Loaded
<1>11. Undo(m) = e
  BY <1>2, <1>3, <1>4, <1>8, <1>9 DEF Undo
<1> HIDE DEF e
<1>12. Shown(ToJSON(e)) = Shown(d)
  BY <1>5, <1>9, <1>10, LoadedShown
<1>13. e.dirty = TRUE
  BY <1>9, <1>10
<1> QED
  BY <1>2, <1>3, <1>4, <1>10, <1>11, <1>12, <1>13 DEF Walked

\* What redo() comes to when there is something to redo.
LEMMA RedoIs ==
  ASSUME NEW n, NEW m, Held(m, n), m.redo # <<>>
  PROVE  /\ Walked(m, Redo(m), n, Last(m.redo))
         /\ Redo(m).redo = Front(m.redo) /\ Redo(m).undo = Append(m.undo, ToJSON(m))
<1>1. /\ m \in Loaded(n) /\ m.undo \in Seq(Files(n)) /\ m.redo \in Seq(Files(n))
      /\ m.cells \in Lists(n) /\ m.meta \in BOOLEAN
  BY DEF Held, Loaded
<1>2. PICK d : d = Last(m.redo)
  OBVIOUS
<1>3. PICK r : r = Front(m.redo)
  OBVIOUS
<1>4. PICK u : u = Append(m.undo, ToJSON(m))
  OBVIOUS
<1>5. d \in Files(n) /\ r \in Seq(Files(n))
  BY <1>1, <1>2, <1>3, FrontLastIs
<1>6. ToJSON(m) \in Files(n)
  BY <1>1, ToJSONIs
<1>7. u \in Seq(Files(n))
  BY <1>1, <1>4, <1>6, AppendProperties
<1>8. PICK a : a = Apply(m, d, TRUE)
  OBVIOUS
<1>9. a \in Loaded(n) /\ a.cells = Parse(d) /\ a.meta = d.meta /\ a.dirty = TRUE /\ a.undo = m.undo
  <2>1. Parse(d) \in Lists(n) /\ d.meta \in BOOLEAN
    BY <1>5, ParseIs DEF Files
  <2> QED
    BY <1>1, <1>8, <2>1 DEF Apply, Loaded
<1> DEFINE e == [a EXCEPT !.redo = r, !.undo = u]
<1>10. e \in Loaded(n) /\ e.cells = a.cells /\ e.meta = a.meta /\ e.dirty = a.dirty
       /\ e.undo = u /\ e.redo = r
  BY <1>5, <1>7, <1>9 DEF Loaded
<1>11. Redo(m) = e
  BY <1>2, <1>3, <1>4, <1>8, <1>9 DEF Redo
<1> HIDE DEF e
<1>12. Shown(ToJSON(e)) = Shown(d)
  BY <1>5, <1>9, <1>10, LoadedShown
<1>13. e.dirty = TRUE
  BY <1>9, <1>10
<1> QED
  BY <1>2, <1>3, <1>4, <1>10, <1>11, <1>12, <1>13 DEF Walked

\* A model that loads a file is clean, has nothing to undo and shows the file.
LEMMA FromJSONIs ==
  ASSUME NEW n, NEW m \in Loaded(n), NEW d \in Files(n)
  PROVE  LET e == FromJSON(m, d)
         IN /\ e \in Loaded(n) /\ e.undo = <<>> /\ e.redo = <<>> /\ ~e.dirty
            /\ Shown(ToJSON(e)) = Shown(d)
<1>1. PICK a : a = Apply(m, d, FALSE)
  OBVIOUS
<1>2. a \in Loaded(n) /\ a.cells = Parse(d) /\ a.meta = d.meta /\ a.dirty = FALSE
  <2>1. Parse(d) \in Lists(n) /\ d.meta \in BOOLEAN
    BY ParseIs DEF Files
  <2> QED
    BY <1>1, <2>1 DEF Apply, Loaded
<1> DEFINE e == [a EXCEPT !.undo = <<>>, !.redo = <<>>]
<1>3. <<>> \in Seq(Files(n))
  OBVIOUS
<1>4. e \in Loaded(n) /\ e.cells = a.cells /\ e.meta = a.meta /\ e.dirty = a.dirty
      /\ e.undo = <<>> /\ e.redo = <<>>
  BY <1>2, <1>3 DEF Loaded
<1>5. FromJSON(m, d) = e
  BY <1>1 DEF FromJSON
<1> HIDE DEF e
<1>6. Shown(ToJSON(e)) = Shown(d)
  BY <1>2, <1>4, LoadedShown
<1>7. ~e.dirty
  BY <1>2, <1>4
<1> QED
  BY <1>4, <1>5, <1>6, <1>7

-----------------------------------------------------------------------------
(* The invariant.                                                           *)

\* The types of the variables; every id that is in use anywhere is an old one.
Saved(n) == [doc: Files(n), written: BOOLEAN, alone: BOOLEAN]
TypeInv ==
  /\ fresh \in Nat \ {0} /\ fresh <= Len(Opened.cells) + edits + 1
  /\ edits \in 0..MaxEdits /\ calls \in 0..MaxCalls /\ raced \in BOOLEAN
  /\ model \in Loaded(fresh) /\ Len(model.undo) + Len(model.redo) <= History
  /\ disk \in Files(fresh) /\ shared \in Files(fresh)
  /\ saves \subseteq Saved(fresh) /\ fetched \subseteq Files(fresh)

\* A save that nothing overtook sent what the editor still shows, and once it has
\* written the file, the file still is what it sent.
SavesInv ==
  \A s \in saves : s.alone => /\ Shown(s.doc) = Shown(ToJSON(model))
                              /\ s.written => disk = s.doc

IInv == TypeInv /\ SavesInv /\ SharedAgrees /\ CleanIsSaved

\* What is opened is a file with ids below the first new one.
LEMMA OpenedIs == Opened \in Files(Len(Opened.cells) + 1) /\ Len(Opened.cells) \in Nat
<1>1. Opened.cells \in Seq(FileCells(1..Len(Opened.cells)))
  BY OpenedAssumption DEF Documents
<1>2. Len(Opened.cells) \in Nat /\ DOMAIN Opened.cells = 1..Len(Opened.cells)
  BY <1>1, LenProperties
<1>3. Len(Opened.cells) + 1 - 1 = Len(Opened.cells)
  BY <1>2
<1>4. Distinct(Opened.cells) /\ \A i \in 1..Len(Opened.cells) : Bare(Opened.cells[i])
  BY <1>2, OpenedAssumption DEF Distinct, Bare
<1>5. Opened.cells \in FileLists(Len(Opened.cells) + 1)
  BY <1>1, <1>3, <1>4 DEF FileLists
<1> QED
  BY <1>2, <1>5, OpenedAssumption DEF Documents, Files

\* A new model on a file.
LEMMA FreshIs ==
  ASSUME NEW n, NEW d \in Files(n)
  PROVE  LET e == Fresh(d)
         IN /\ e \in Loaded(n) /\ e.undo = <<>> /\ e.redo = <<>> /\ ~e.dirty
            /\ Shown(ToJSON(e)) = Shown(d) /\ ToJSON(e) \in Files(n)
<1>1. Parse(d) \in Lists(n) /\ d.meta \in BOOLEAN /\ <<>> \in Seq(Files(n))
  BY ParseIs DEF Files
<1>2. /\ Fresh(d) \in Loaded(n) /\ Fresh(d).undo = <<>> /\ Fresh(d).redo = <<>>
      /\ ~Fresh(d).dirty /\ Fresh(d).cells = Parse(d) /\ Fresh(d).meta = d.meta
  BY <1>1 DEF Fresh, Loaded
<1>3. Shown(ToJSON(Fresh(d))) = Shown(d)
  BY <1>2, LoadedShown
<1>4. ToJSON(Fresh(d)) \in Files(n)
  BY <1>1, <1>2, ToJSONIs
<1> QED
  BY <1>2, <1>3, <1>4

\* The invariant holds in the initial state.
LEMMA IInvInit == Init => IInv
<1> SUFFICES ASSUME Init PROVE IInv
  OBVIOUS
<1>1. /\ model = Fresh(Opened) /\ disk = Opened /\ fresh = Len(Opened.cells) + 1
      /\ edits = 0 /\ calls = 0 /\ saves = {} /\ fetched = {} /\ raced = FALSE
      /\ shared = ToJSON(model)
  BY DEF Init, Open
<1>2. Opened \in Files(fresh) /\ Len(Opened.cells) \in Nat
  BY <1>1, OpenedIs
<1>3. /\ model \in Loaded(fresh) /\ model.undo = <<>> /\ model.redo = <<>>
      /\ Shown(ToJSON(model)) = Shown(disk) /\ shared \in Files(fresh)
  BY <1>1, <1>2, FreshIs
<1>4. Len(model.undo) + Len(model.redo) <= History
  BY <1>3, DocumentAssumption
<1>5. fresh \in Nat \ {0} /\ fresh <= Len(Opened.cells) + edits + 1
  BY <1>1, <1>2
<1>6. edits \in 0..MaxEdits /\ calls \in 0..MaxCalls /\ raced \in BOOLEAN
  <2>1. edits \in 0..MaxEdits /\ calls \in 0..MaxCalls
    BY <1>1, ContextAssumption
  <2> QED
    BY <1>1, <2>1
<1>7. TypeInv
  BY <1>1, <1>2, <1>3, <1>4, <1>5, <1>6 DEF TypeInv
<1> QED
  BY <1>1, <1>3, <1>7 DEF IInv, SavesInv, SharedAgrees, CleanIsSaved

\* The model can be edited.
LEMMA ModelHeld ==
  ASSUME TypeInv
  PROVE  /\ Held(model, fresh) /\ model.cells \in Lists(fresh) /\ model.meta \in BOOLEAN
         /\ ToJSON(model) \in Files(fresh)
         /\ Len(model.undo) \in Nat /\ Len(model.redo) \in Nat /\ History \in Nat
         /\ model.undo \in Seq(Files(fresh)) /\ model.redo \in Seq(Files(fresh))
<1>1. model.undo \in Seq(Files(fresh)) /\ model.redo \in Seq(Files(fresh))
      /\ model.cells \in Lists(fresh) /\ model.meta \in BOOLEAN
  BY DEF TypeInv, Loaded
<1>2. Len(model.undo) \in Nat /\ Len(model.redo) \in Nat /\ History \in Nat
  BY <1>1, LenProperties, DocumentAssumption
<1>3. ToJSON(model) \in Files(fresh)
  BY <1>1, ToJSONIs
<1>4. Len(model.undo) <= History
  <2>1. Len(model.undo) + Len(model.redo) <= History
    BY DEF TypeInv
  <2>2. \A a, b, c \in Nat : a + b <= c => a <= c
    OBVIOUS
  <2> QED
    BY <1>2, <2>1, <2>2
<1>5. Held(model, fresh)
  BY <1>4 DEF TypeInv, Held
<1> QED
  BY <1>1, <1>2, <1>3, <1>5

-----------------------------------------------------------------------------
(* What the editing steps do to the model.                                  *)
EditBy(m, n) == Edit(m) /\ Edited(model, m, n) /\ fresh' = n /\ n \in {fresh, fresh + 1}

\* No cell has the id of the next one.
LEMMA FreshId ==
  ASSUME TypeInv
  PROVE  /\ \A i \in 1..Len(model.cells) : model.cells[i].id # fresh
         /\ model.cells \in Lists(fresh + 1) /\ fresh + 1 \in Nat \ {0} /\ fresh <= fresh + 1
         /\ fresh \in 1..(fresh + 1) - 1 /\ Cells(1..fresh - 1) \subseteq Cells(1..(fresh + 1) - 1)
<1>1. fresh \in Nat \ {0} /\ model.cells \in Lists(fresh)
  BY ModelHeld DEF TypeInv
<1>2. \A i \in 1..Len(model.cells) : model.cells[i] \in Cells(1..fresh - 1)
  BY <1>1, ElementOfSeq DEF Lists
<1>3. \A c \in Cells(1..fresh - 1) : c.id \in 1..fresh - 1
  BY DEF Cells
<1>4. fresh \notin 1..fresh - 1
  BY <1>1
<1>5. model.cells \in Lists(fresh + 1)
  BY <1>1, MoreIds
<1>6. 1..fresh - 1 \subseteq 1..(fresh + 1) - 1
  BY <1>1
<1> QED
  BY <1>1, <1>2, <1>3, <1>4, <1>5, <1>6 DEF Cells

\* A cell is inserted.
LEMMA InsertIs ==
  ASSUME TypeInv, NEW i \in 1..Len(model.cells) + 1, NEW kind \in Kinds, Insert(i, kind)
  PROVE  \E m, n : EditBy(m, n)
<1>1. NewCell(fresh, kind, 0) \in Cells(1..(fresh + 1) - 1) /\ NewCell(fresh, kind, 0).id = fresh
  BY FreshId, NewCellIs, DocumentAssumption
<1>2. InsertAt(model.cells, i, NewCell(fresh, kind, 0)) \in Lists(fresh + 1)
  BY <1>1, FreshId, InsertedList
<1>3. Edited(model, InsertCell(model, i, NewCell(fresh, kind, 0)), fresh + 1)
  BY <1>2, FreshId, ModelHeld, WithCellsEdited DEF InsertCell
<1> QED
  BY <1>3 DEF Insert, EditBy

\* A cell is duplicated under an id of its own.
LEMMA DuplicateIs ==
  ASSUME TypeInv, NEW id \in IdsOf(model), Duplicate(id)
  PROVE  \E m, n : EditBy(m, n)
<1> DEFINE c == [CellOf(model, id) EXCEPT !.id = fresh]
           i == At(model, id) + 1
<1>1. At(model, id) \in 1..Len(model.cells) /\ CellOf(model, id) \in Cells(1..fresh - 1)
  BY ModelHeld, AtIs
<1>2. CellOf(model, id) \in Cells(1..(fresh + 1) - 1)
  BY <1>1, FreshId
<1>3. c \in Cells(1..(fresh + 1) - 1) /\ c.id = fresh
  BY <1>2, FreshId DEF Cells
<1>4. i \in 1..Len(model.cells) + 1
  <2>1. Len(model.cells) \in Nat
    BY ModelHeld, LenProperties DEF Lists
  <2> QED
    BY <1>1, <2>1
<1> HIDE DEF c, i
<1>5. InsertAt(model.cells, i, c) \in Lists(fresh + 1)
  BY <1>3, <1>4, FreshId, InsertedList
<1>6. Edited(model, WithCells(model, InsertAt(model.cells, i, c)), fresh + 1)
  BY <1>5, FreshId, ModelHeld, WithCellsEdited
<1>7. InsertCopy(model, i, CellOf(model, id), fresh) = WithCells(model, InsertAt(model.cells, i, c))
  BY DEF InsertCopy, InsertCell, c
<1> QED
  BY <1>6, <1>7 DEF Duplicate, EditBy, i

\* The other edits keep the ids that are there.
LEMMA KeepsIs ==
  ASSUME TypeInv, NEW m, Keeps(m), m = model \/ Edited(model, m, fresh)
  PROVE  EditBy(m, fresh)
BY DEF Keeps, Edit, EditBy

\* An edit with the ids there are.
LEMMA CellsEdited ==
  ASSUME TypeInv, NEW cells \in Lists(fresh)
  PROVE  Edited(model, WithCells(model, cells), fresh)
<1>1. Held(model, fresh) /\ fresh \in Nat \ {0}
  BY ModelHeld DEF TypeInv
<1>2. fresh <= fresh
  BY <1>1
<1> QED
  BY <1>1, <1>2, WithCellsEdited

\* An edit of one cell.
LEMMA SetCellEdited ==
  ASSUME TypeInv, NEW id \in IdsOf(model), NEW c \in Cells(1..fresh - 1), c.id = id
  PROVE  Edited(model, SetCell(model, id, c), fresh)
<1>1. At(model, id) \in 1..Len(model.cells) /\ model.cells[At(model, id)].id = id
  BY ModelHeld, AtIs
<1>2. ReplaceAt(model.cells, At(model, id), c) \in Lists(fresh)
  BY <1>1, ModelHeld, ReplacedList
<1> QED
  BY <1>2, CellsEdited DEF SetCell

\* A cell is deleted, moved, typed into, given outputs or another type.
LEMMA CellEditsAre ==
  ASSUME TypeInv, NEW id \in IdsOf(model),
         \/ Delete(id)
         \/ \E to \in DOMAIN model.cells : Move(id, to)
         \/ \E src \in Sources : Type(id, src)
         \/ \E v \in Results : SetOutputs(id, v)
         \/ \E kind \in Kinds : ChangeType(id, kind)
  PROVE  \E m, n : EditBy(m, n)
<1>1. /\ HasCell(model, id) /\ At(model, id) \in 1..Len(model.cells)
      /\ CellOf(model, id).id = id /\ CellOf(model, id) \in Cells(1..fresh - 1)
      /\ CellOf(model, id) = model.cells[At(model, id)]
      /\ model.cells \in Lists(fresh) /\ DOMAIN model.cells = 1..Len(model.cells)
      /\ id \in 1..fresh - 1
  BY ModelHeld, AtIs, LenProperties DEF Lists
<1>2. CASE Delete(id)
  <2>1. RemoveAt(model.cells, At(model, id)) \in Lists(fresh)
    BY <1>1, RemovedList
  <2>2. Edited(model, DeleteCell(model, id), fresh)
    BY <1>1, <2>1, CellsEdited DEF DeleteCell
  <2> QED
    BY <1>2, <2>2, KeepsIs DEF Delete
<1>3. ASSUME NEW to \in DOMAIN model.cells, Move(id, to) PROVE \E m, n : EditBy(m, n)
  <2>1. InsertAt(RemoveAt(model.cells, At(model, id)), to, CellOf(model, id)) \in Lists(fresh)
    BY <1>1, MovedList
  <2>2. Edited(model, MoveCell(model, id, to), fresh)
    BY <1>1, <2>1, CellsEdited DEF MoveCell
  <2> QED
    BY <1>3, <2>2, KeepsIs DEF Move
<1>4. ASSUME NEW src \in Sources, Type(id, src) PROVE \E m, n : EditBy(m, n)
  <2> DEFINE c == [CellOf(model, id) EXCEPT !.src = src]
  <2>1. c \in Cells(1..fresh - 1) /\ c.id = id
    BY <1>1 DEF Cells
  <2> HIDE DEF c
  <2>2. Edited(model, SetCell(model, id, c), fresh)
    BY <2>1, SetCellEdited
  <2>3. UpdateSource(model, id, src) \in {model, SetCell(model, id, c)}
    BY DEF UpdateSource, c
  <2> QED
    BY <1>4, <2>2, <2>3, KeepsIs DEF Type
<1>5. ASSUME NEW v \in Results, SetOutputs(id, v) PROVE \E m, n : EditBy(m, n)
  <2> DEFINE c == [CellOf(model, id) EXCEPT !.out = v]
  <2>1. c \in Cells(1..fresh - 1) /\ c.id = id
    BY <1>1 DEF Cells
  <2> HIDE DEF c
  <2>2. Edited(model, SetCell(model, id, c), fresh)
    BY <2>1, SetCellEdited
  <2>3. UpdateOutputs(model, id, v) = SetCell(model, id, c)
    BY DEF UpdateOutputs, c
  <2> QED
    BY <1>5, <2>2, <2>3, KeepsIs DEF SetOutputs
<1>6. ASSUME NEW kind \in Kinds, ChangeType(id, kind) PROVE \E m, n : EditBy(m, n)
  <2> DEFINE c == [NewCell(id, kind, CellOf(model, id).src) EXCEPT !.mark = CellOf(model, id).mark]
  <2>1. CellOf(model, id).src \in Sources /\ CellOf(model, id).mark \in BOOLEAN
    BY <1>1 DEF Cells
  <2>2. /\ NewCell(id, kind, CellOf(model, id).src) \in Cells(1..fresh - 1)
        /\ NewCell(id, kind, CellOf(model, id).src).id = id
    <3>1. id \in 1..fresh - 1 /\ kind \in Kinds /\ CellOf(model, id).src \in Sources
      BY <1>1, <1>6, <2>1
    <3> QED
      BY ONLY <3>1, NewCellIs
  <2>3. c \in Cells(1..fresh - 1) /\ c.id = id
    BY <2>1, <2>2 DEF Cells
  <2> HIDE DEF c
  <2>4. Edited(model, SetCell(model, id, c), fresh)
    BY <2>3, SetCellEdited
  <2>5. ChangeCellType(model, id, kind) = SetCell(model, id, c)
    BY <1>1 DEF ChangeCellType, c
  <2> QED
    BY <1>6, <2>4, <2>5, KeepsIs DEF ChangeType
<1> QED
  BY <1>2, <1>3, <1>4, <1>5, <1>6

\* The metadata of the notebook change.
LEMMA ChangeMetadataIs ==
  ASSUME TypeInv, ChangeMetadata
  PROVE  \E m, n : EditBy(m, n)
<1>1. (~model.meta) \in BOOLEAN
  OBVIOUS
<1>2. Edited(model, SetMetadata(model, ~model.meta), fresh)
  BY <1>1, ModelHeld, MetadataEdited
<1> QED
  BY <1>2, KeepsIs DEF ChangeMetadata

\* The disjuncts of Next that edit.
Edits ==
  \/ \E index \in 1..Len(model.cells) + 1, kind \in Kinds : Insert(index, kind)
  \/ \E id \in IdsOf(model) :
       \/ Duplicate(id)
       \/ Delete(id)
       \/ \E to \in DOMAIN model.cells : Move(id, to)
       \/ \E src \in Sources : Type(id, src)
       \/ \E v \in Results : SetOutputs(id, v)
       \/ \E kind \in Kinds : ChangeType(id, kind)
  \/ ChangeMetadata

\* Every one of them is an edit of the model.
LEMMA EditsAre ==
  ASSUME TypeInv, Edits
  PROVE  \E m, n : EditBy(m, n)
BY InsertIs, DuplicateIs, CellEditsAre, ChangeMetadataIs DEF Edits

-----------------------------------------------------------------------------
(* Every step keeps the invariant.                                          *)

\* Saves that were overtaken say nothing about the model and the file.
LEMMA Overtaken ==
  ASSUME NEW n, NEW others \in SUBSET Saved(n)
  PROVE  /\ Overtake(others) \subseteq Saved(n)
         /\ \A s \in Overtake(others) : s.alone = FALSE
BY DEF Overtake, Saved

\* Room for more ids, in the saves.
LEMMA MoreSaves ==
  ASSUME NEW n \in Nat \ {0}, NEW k \in Nat \ {0}, n <= k
  PROVE  Saved(n) \subseteq Saved(k)
BY MoreIds DEF Saved

\* An edit: dirty, all saves overtaken.
LEMMA EditStep ==
  ASSUME IInv, NEW m, NEW n, EditBy(m, n)
  PROVE  IInv'
<1>1. /\ edits < MaxEdits /\ edits' = edits + 1 /\ model' = m /\ shared' = ToJSON(m)
      /\ saves' = Overtake(saves) /\ calls' = calls /\ disk' = disk /\ fetched' = fetched
      /\ raced' = raced /\ fresh' = n /\ n \in {fresh, fresh + 1}
      /\ Edited(model, m, n)
  BY DEF EditBy, Edit, Install
<1>2. /\ fresh \in Nat \ {0} /\ fresh <= Len(Opened.cells) + edits + 1 /\ edits \in 0..MaxEdits
      /\ disk \in Files(fresh) /\ fetched \subseteq Files(fresh) /\ saves \subseteq Saved(fresh)
  BY DEF IInv, TypeInv
<1>3. /\ n \in Nat \ {0} /\ fresh <= n /\ n <= Len(Opened.cells) + edits' + 1
      /\ edits' \in 0..MaxEdits
  <2>1. Len(Opened.cells) \in Nat /\ MaxEdits \in Nat
    BY OpenedIs, ContextAssumption
  <2>2. \A f \in Nat \ {0}, a, b, c \in Nat :
          b \in 0..c /\ b < c /\ f <= a + b + 1 =>
            /\ f + 1 \in Nat \ {0} /\ f <= f + 1 /\ f <= f
            /\ f <= a + (b + 1) + 1 /\ f + 1 <= a + (b + 1) + 1 /\ b + 1 \in 0..c
    OBVIOUS
  <2>3. /\ fresh \in Nat \ {0} /\ edits \in Nat /\ edits \in 0..MaxEdits /\ edits < MaxEdits
        /\ fresh <= Len(Opened.cells) + edits + 1
    BY <1>1, <1>2
  <2>4. /\ fresh + 1 \in Nat \ {0} /\ fresh <= fresh + 1 /\ fresh <= fresh
        /\ fresh <= Len(Opened.cells) + (edits + 1) + 1
        /\ fresh + 1 <= Len(Opened.cells) + (edits + 1) + 1 /\ edits + 1 \in 0..MaxEdits
    BY <2>1, <2>2, <2>3
  <2>5. n = fresh \/ n = fresh + 1
    BY <1>1
  <2>6. edits' = edits + 1
    BY <1>1
  <2> QED
    BY <2>3, <2>4, <2>5, <2>6
<1>4. /\ m \in Loaded(n) /\ m.redo = <<>> /\ Len(m.undo) \in 1..History /\ m.dirty
  BY <1>1 DEF Edited
<1>5. ToJSON(m) \in Files(n)
  BY <1>4, ToJSONIs DEF Loaded
<1>6. Len(m.undo) + Len(m.redo) <= History
  <2>1. Len(m.redo) = 0
    BY <1>4
  <2> QED
    BY <1>4, <2>1, DocumentAssumption
<1>7. /\ Files(fresh) \subseteq Files(n) /\ Saved(fresh) \subseteq Saved(n)
  BY <1>2, <1>3, MoreIds, MoreSaves
<1>8. saves' \subseteq Saved(n) /\ \A s \in saves' : s.alone = FALSE
  BY <1>1, <1>2, <1>7, Overtaken
<1>9. TypeInv'
  BY <1>1, <1>2, <1>3, <1>4, <1>5, <1>6, <1>7, <1>8 DEF IInv, TypeInv
<1>10. SavesInv'
  BY <1>8 DEF SavesInv
<1>11. SharedAgrees' /\ CleanIsSaved'
  BY <1>1, <1>4 DEF SharedAgrees, CleanIsSaved
<1> QED
  BY <1>9, <1>10, <1>11 DEF IInv

\* What changes the model and overtakes all saves, without new ids and edits.
LEMMA ModelReplaced ==
  ASSUME IInv, NEW m \in Loaded(fresh), Len(m.undo) + Len(m.redo) <= History,
         model' = m, shared' \in Files(fresh), Shown(shared') = Shown(ToJSON(m)),
         saves' = Overtake(saves), fresh' = fresh, calls' = calls, disk' = disk,
         edits' \in 0..MaxEdits, edits' >= edits,
         fetched' \in SUBSET fetched, raced' \in BOOLEAN,
         m.dirty \/ raced' \/ Shown(disk) = Shown(ToJSON(m))
  PROVE  IInv'
<1>1. saves' \subseteq Saved(fresh) /\ \A s \in saves' : s.alone = FALSE
  BY Overtaken DEF IInv, TypeInv
<1>2. fresh <= Len(Opened.cells) + edits' + 1
  <2>1. fresh <= Len(Opened.cells) + edits + 1 /\ edits \in Nat /\ edits' \in Nat /\ fresh \in Nat
    BY DEF IInv, TypeInv
  <2> QED
    BY <2>1, OpenedIs
<1>3. TypeInv'
  BY <1>1, <1>2 DEF IInv, TypeInv
<1>4. SavesInv' /\ SharedAgrees' /\ CleanIsSaved'
  BY <1>1 DEF SavesInv, SharedAgrees, CleanIsSaved
<1> QED
  BY <1>3, <1>4 DEF IInv

\* Undo and redo.
LEMMA WalkStep ==
  ASSUME IInv, UndoEdit \/ RedoEdit
  PROVE  /\ IInv'
         /\ \/ model.undo # <<>> /\ model' = Undo(model)
            \/ model.redo # <<>> /\ model' = Redo(model)
<1>1. TypeInv
  BY DEF IInv
<1>2. /\ Held(model, fresh) /\ ToJSON(model) \in Files(fresh) /\ History \in Nat
      /\ model.undo \in Seq(Files(fresh)) /\ model.redo \in Seq(Files(fresh))
      /\ Len(model.undo) \in Nat /\ Len(model.redo) \in Nat
      /\ Len(model.undo) + Len(model.redo) <= History
  BY <1>1, ModelHeld DEF TypeInv
<1>3. \/ model.undo # <<>> /\ model' = Undo(model)
      \/ model.redo # <<>> /\ model' = Redo(model)
  BY DEF UndoEdit, RedoEdit, Walk, Install, Undo, Redo
<1>4. /\ shared' = ToJSON(model') /\ saves' = Overtake(saves)
      /\ UNCHANGED <<fresh, edits, calls, disk, fetched, raced>>
  BY DEF UndoEdit, RedoEdit, Walk, Install
<1>5. ASSUME NEW m, model' = m, m \in Loaded(fresh), m.dirty,
             Len(m.undo) + Len(m.redo) = Len(model.undo) + Len(model.redo)
      PROVE  IInv'
  <2>1. shared' \in Files(fresh)
    BY <1>4, <1>5, ToJSONIs DEF Loaded
  <2>2. Len(m.undo) + Len(m.redo) <= History
    BY <1>2, <1>5
  <2>3. edits' \in 0..MaxEdits /\ edits' >= edits /\ raced' \in BOOLEAN
    BY <1>1, <1>4 DEF TypeInv
  <2> QED
    BY <1>4, <1>5, <2>1, <2>2, <2>3, ModelReplaced
<1>6. CASE model.undo # <<>> /\ model' = Undo(model)
  <2>1. /\ Undo(model) \in Loaded(fresh) /\ Undo(model).dirty
        /\ Undo(model).undo = Front(model.undo)
        /\ Undo(model).redo = Append(model.redo, ToJSON(model))
    BY <1>2, <1>6, UndoIs DEF Walked
  <2>2. Len(Front(model.undo)) = Len(model.undo) - 1
    BY <1>2, <1>6, FrontLastIs
  <2>3. Len(Append(model.redo, ToJSON(model))) = Len(model.redo) + 1
    BY <1>2, AppendProperties
  <2>4. Len(Undo(model).undo) + Len(Undo(model).redo) = Len(model.undo) + Len(model.redo)
    <3>1. Len(Undo(model).undo) = Len(model.undo) - 1 /\ Len(Undo(model).redo) = Len(model.redo) + 1
      BY <2>1, <2>2, <2>3
    <3>2. \A a, b \in Nat : (a - 1) + (b + 1) = a + b /\ (a + 1) + (b - 1) = a + b
      OBVIOUS
    <3>3. Len(model.undo) \in Nat /\ Len(model.redo) \in Nat
      BY <1>2
    <3> QED
      BY <3>1, <3>2, <3>3
  <2> QED
    BY <1>3, <1>5, <1>6, <2>1, <2>4
<1>7. CASE model.redo # <<>> /\ model' = Redo(model)
  <2>1. /\ Redo(model) \in Loaded(fresh) /\ Redo(model).dirty
        /\ Redo(model).redo = Front(model.redo)
        /\ Redo(model).undo = Append(model.undo, ToJSON(model))
    BY <1>2, <1>7, RedoIs DEF Walked
  <2>2. Len(Front(model.redo)) = Len(model.redo) - 1
    BY <1>2, <1>7, FrontLastIs
  <2>3. Len(Append(model.undo, ToJSON(model))) = Len(model.undo) + 1
    BY <1>2, AppendProperties
  <2>4. Len(Redo(model).undo) + Len(Redo(model).redo) = Len(model.undo) + Len(model.redo)
    <3>1. Len(Redo(model).redo) = Len(model.redo) - 1 /\ Len(Redo(model).undo) = Len(model.undo) + 1
      BY <2>1, <2>2, <2>3
    <3>2. \A a, b \in Nat : (a - 1) + (b + 1) = a + b /\ (a + 1) + (b - 1) = a + b
      OBVIOUS
    <3>3. Len(model.undo) \in Nat /\ Len(model.redo) \in Nat
      BY <1>2
    <3> QED
      BY <3>1, <3>2, <3>3
  <2> QED
    BY <1>3, <1>5, <1>7, <2>1, <2>4
<1> QED
  BY <1>3, <1>6, <1>7

\* save(): the document is taken, the file is written, the answer arrives.
LEMMA StartSaveStep ==
  ASSUME IInv, StartSave
  PROVE  IInv'
<1>1. PICK s : s = [doc |-> ToJSON(model), written |-> FALSE, alone |-> TRUE]
  OBVIOUS
<1>2. s \in Saved(fresh) /\ s.doc = ToJSON(model) /\ s.written = FALSE
  BY <1>1, ModelHeld DEF IInv, Saved
<1>3. /\ calls < MaxCalls /\ calls' = calls + 1 /\ saves' = saves \union {s}
      /\ UNCHANGED <<model, fresh, edits, disk, fetched, shared, raced>>
  BY <1>1 DEF StartSave
<1>4. calls' \in 0..MaxCalls
  <2>1. calls \in 0..MaxCalls
    BY DEF IInv, TypeInv
  <2> QED
    BY <1>3, <2>1, ContextAssumption
<1>5. TypeInv'
  BY <1>2, <1>3, <1>4 DEF IInv, TypeInv
<1>6. SavesInv'
  BY <1>2, <1>3 DEF IInv, SavesInv
<1>7. SharedAgrees' /\ CleanIsSaved'
  BY <1>3 DEF IInv, SharedAgrees, CleanIsSaved
<1> QED
  BY <1>5, <1>6, <1>7 DEF IInv

\* The file gets the document of a save, whichever was sent last.
LEMMA WriteFileStep ==
  ASSUME IInv, NEW s \in saves, WriteFile(s)
  PROVE  IInv'
<1>1. s \in Saved(fresh) /\ saves \subseteq Saved(fresh)
  BY DEF IInv, TypeInv
<1>2. PICK w : w = [s EXCEPT !.written = TRUE]
  OBVIOUS
<1>3. w \in Saved(fresh) /\ w.doc = s.doc /\ w.alone = s.alone /\ w.written = TRUE
  BY <1>1, <1>2 DEF Saved
<1>4. /\ disk' = s.doc /\ saves' = Overtake(saves \ {s}) \union {w}
      /\ raced' = (raced \/ ~s.alone)
      /\ UNCHANGED <<model, fresh, edits, calls, fetched, shared>>
  BY <1>2 DEF WriteFile
<1>5. /\ Overtake(saves \ {s}) \subseteq Saved(fresh)
      /\ \A o \in Overtake(saves \ {s}) : o.alone = FALSE
  BY <1>1, Overtaken
<1>6. saves' \subseteq Saved(fresh) /\ disk' \in Files(fresh) /\ raced' \in BOOLEAN
  BY <1>1, <1>3, <1>4, <1>5 DEF Saved
<1>7. TypeInv'
  BY <1>4, <1>6 DEF IInv, TypeInv
<1>8. s.alone => Shown(s.doc) = Shown(ToJSON(model))
  BY DEF IInv, SavesInv
<1>9. SavesInv'
  BY <1>3, <1>4, <1>5, <1>8 DEF SavesInv
<1>10. SharedAgrees'
  BY <1>4 DEF IInv, SharedAgrees
<1>11. CleanIsSaved'
  BY <1>4, <1>8 DEF CleanIsSaved
<1> QED
  BY <1>7, <1>9, <1>10, <1>11 DEF IInv

\* The answer to a save clears dirty and leaves the document alone.
LEMMA SaveCompletedStep ==
  ASSUME IInv, NEW s \in saves, SaveCompleted(s)
  PROVE  IInv' /\ model' = [model EXCEPT !.dirty = FALSE] /\ ToJSON(model') = ToJSON(model)
<1>1. /\ saves' = saves \ {s} /\ s.written /\ model' = [model EXCEPT !.dirty = FALSE]
      /\ raced' = ~s.alone /\ UNCHANGED <<fresh, edits, calls, disk, fetched, shared>>
  BY DEF SaveCompleted
<1>2. /\ model' \in Loaded(fresh) /\ model'.cells = model.cells /\ model'.meta = model.meta
      /\ model'.undo = model.undo /\ model'.redo = model.redo
  BY <1>1 DEF IInv, TypeInv, Loaded
<1>3. ToJSON(model') = ToJSON(model)
  BY <1>2 DEF ToJSON
<1>4. raced' \in BOOLEAN
  BY <1>1
<1>5. TypeInv'
  BY <1>1, <1>2, <1>4 DEF IInv, TypeInv
<1>6. SavesInv' /\ SharedAgrees'
  BY <1>1, <1>3 DEF IInv, SavesInv, SharedAgrees
<1>7. CleanIsSaved'
  BY <1>1, <1>3 DEF IInv, SavesInv, CleanIsSaved
<1> QED
  BY <1>1, <1>3, <1>5, <1>6, <1>7 DEF IInv

\* A save fails.
LEMMA SaveFailedStep ==
  ASSUME IInv, NEW s \in saves, SaveFailed(s)
  PROVE  IInv'
<1>1. /\ saves' \subseteq saves
      /\ UNCHANGED <<model, fresh, edits, calls, disk, fetched, shared, raced>>
  BY DEF SaveFailed
<1> QED
  BY <1>1 DEF IInv, TypeInv, SavesInv, SharedAgrees, CleanIsSaved

\* revert() reads the file, then installs what it read.
LEMMA FetchStep ==
  ASSUME IInv, Fetch
  PROVE  IInv'
<1>1. /\ calls < MaxCalls /\ calls' = calls + 1 /\ fetched' = {disk}
      /\ UNCHANGED <<model, fresh, edits, disk, saves, shared, raced>>
  BY DEF Fetch
<1>2. calls' \in 0..MaxCalls
  <2>1. calls \in 0..MaxCalls
    BY DEF IInv, TypeInv
  <2> QED
    BY <1>1, <2>1, ContextAssumption
<1> QED
  BY <1>1, <1>2 DEF IInv, TypeInv, SavesInv, SharedAgrees, CleanIsSaved

\* What was read is installed.
LEMMA RevertStep ==
  ASSUME IInv, NEW doc \in fetched, Revert(doc)
  PROVE  IInv' /\ model'.undo = <<>> /\ model'.redo = <<>>
<1>1. doc \in Files(fresh) /\ model \in Loaded(fresh) /\ edits \in 0..MaxEdits
  BY DEF IInv, TypeInv
<1>2. PICK m : m = FromJSON(model, doc)
  OBVIOUS
<1>3. m \in Loaded(fresh) /\ m.undo = <<>> /\ m.redo = <<>> /\ Shown(ToJSON(m)) = Shown(doc)
  BY <1>1, <1>2, FromJSONIs
<1>4. /\ model' = m /\ shared' = ToJSON(m) /\ fetched' = {} /\ saves' = Overtake(saves)
      /\ raced' = (doc # disk) /\ UNCHANGED <<fresh, edits, calls, disk>>
  BY <1>2 DEF Revert, Install
<1>5. Len(m.undo) + Len(m.redo) <= History
  BY <1>3, DocumentAssumption
<1>6. shared' \in Files(fresh)
  BY <1>3, <1>4, ToJSONIs DEF Loaded
<1>7. raced' \in BOOLEAN /\ (raced' \/ Shown(disk) = Shown(ToJSON(m)))
  BY <1>3, <1>4
<1>8. edits' \in 0..MaxEdits /\ edits' >= edits
  BY <1>1, <1>4
<1>9. IInv'
  BY <1>3, <1>4, <1>5, <1>6, <1>7, <1>8, ModelReplaced
<1> QED
  BY <1>3, <1>4, <1>9

\* Another editor changes the shared document.
LEMMA RemoteStep ==
  ASSUME IInv, NEW doc \in Files(fresh), Remote(doc)
  PROVE  IInv' /\ model'.undo = <<>> /\ model'.redo = <<>>
<1>1. model \in Loaded(fresh) /\ edits \in 0..MaxEdits
  BY DEF IInv, TypeInv
<1>2. PICK m : m = FromJSON(model, doc)
  OBVIOUS
<1>3. m \in Loaded(fresh) /\ m.undo = <<>> /\ m.redo = <<>> /\ Shown(ToJSON(m)) = Shown(doc)
  BY <1>1, <1>2, FromJSONIs
<1>4. /\ model' = m /\ shared' = doc /\ saves' = Overtake(saves) /\ raced' = TRUE
      /\ edits < MaxEdits /\ edits' = edits + 1
      /\ UNCHANGED <<fresh, calls, disk, fetched>>
  BY <1>2 DEF Remote
<1>5. Len(m.undo) + Len(m.redo) <= History
  BY <1>3, DocumentAssumption
<1>6. edits' \in 0..MaxEdits /\ edits' >= edits
  BY <1>1, <1>4, ContextAssumption
<1>7. IInv'
  BY <1>3, <1>4, <1>5, <1>6, ModelReplaced
<1> QED
  BY <1>3, <1>4, <1>7

\* What another editor makes of the shared document is such a file again.
LEMMA RemotesAre ==
  ASSUME IInv, NEW i \in DOMAIN shared.cells,
         RemoteDelete(i) \/ \E src \in Sources : RemoteType(i, src)
  PROVE  \E doc \in Files(fresh) : Remote(doc)
<1>1. shared \in Files(fresh) /\ i \in 1..Len(shared.cells)
  BY LenProperties DEF IInv, TypeInv, Files, FileLists
<1>2. CASE RemoteDelete(i)
  BY <1>1, <1>2, RemovedFile DEF RemoteDelete
<1>3. ASSUME NEW src \in Sources, RemoteType(i, src)
      PROVE  \E doc \in Files(fresh) : Remote(doc)
  BY <1>1, <1>3, RetypedFile DEF RemoteType
<1> QED
  BY <1>2, <1>3

\* Every step keeps the invariant.
LEMMA IInvNext == IInv /\ [Next]_vars => IInv'
<1> SUFFICES ASSUME IInv, [Next]_vars PROVE IInv'
  OBVIOUS
<1>1. CASE UNCHANGED vars
  BY <1>1 DEF vars, IInv, TypeInv, SavesInv, SharedAgrees, CleanIsSaved
<1>2. CASE Edits
  BY <1>2, EditsAre, EditStep DEF IInv
<1>3. CASE UndoEdit \/ RedoEdit
  BY <1>3, WalkStep
<1>4. CASE StartSave \/ Fetch
  BY <1>4, StartSaveStep, FetchStep
<1>5. ASSUME NEW s \in saves, WriteFile(s) \/ SaveCompleted(s) \/ SaveFailed(s) PROVE IInv'
  BY <1>5, WriteFileStep, SaveCompletedStep, SaveFailedStep
<1>6. ASSUME NEW doc \in fetched, Revert(doc) PROVE IInv'
  BY <1>6, RevertStep
<1>7. ASSUME NEW i \in DOMAIN shared.cells,
             RemoteDelete(i) \/ \E src \in Sources : RemoteType(i, src)
      PROVE  IInv'
  BY <1>7, RemotesAre, RemoteStep
<1> QED
  BY <1>1, <1>2, <1>3, <1>4, <1>5, <1>6, <1>7 DEF Next, Edits

\* The invariant holds in every state that can be reached.
LEMMA IInvHolds == Spec => []IInv
BY IInvInit, IInvNext, PTL DEF Spec

-----------------------------------------------------------------------------
(* What the invariant says of the properties.                               *)

\* Ids below the next one are among the ids there is room for.
LEMMA TypedBy ==
  ASSUME NEW n \in Nat \ {0}, NEW k \in Nat, n <= k + 1
  PROVE  Files(n) \subseteq Documents(1..k) /\ Loaded(n) \subseteq Models(1..k)
<1>1. 1..n - 1 \subseteq 1..k
  BY Z3
<1>2. Cells(1..n - 1) \subseteq Cells(1..k) /\ FileCells(1..n - 1) \subseteq FileCells(1..k)
  BY <1>1 DEF Cells, FileCells
<1>3. /\ Seq(Cells(1..n - 1)) \subseteq Seq(Cells(1..k))
      /\ Seq(FileCells(1..n - 1)) \subseteq Seq(FileCells(1..k))
  BY <1>2, SeqMonotonic
<1>4. Files(n) \subseteq Documents(1..k)
  BY <1>3 DEF Files, FileLists, Documents
<1>5. Seq(Files(n)) \subseteq Seq(Documents(1..k))
  BY <1>4, SeqMonotonic
<1>6. Loaded(n) \subseteq Models(1..k)
  BY <1>3, <1>5 DEF Loaded, Lists, Models
<1> QED
  BY <1>4, <1>6

\* The invariant gives the types.
LEMMA TypesFollow == IInv => TypeOK
<1> SUFFICES ASSUME IInv PROVE TypeOK
  OBVIOUS
<1>1. TypeInv
  BY DEF IInv
<1>2. fresh \in Nat \ {0} /\ Len(Opened.cells) + MaxEdits \in Nat
      /\ fresh <= (Len(Opened.cells) + MaxEdits) + 1
  <2>1. /\ fresh \in Nat \ {0} /\ edits \in 0..MaxEdits /\ fresh <= Len(Opened.cells) + edits + 1
        /\ Len(Opened.cells) \in Nat /\ MaxEdits \in Nat
    BY <1>1, OpenedIs, ContextAssumption DEF TypeInv
  <2> QED
    BY <2>1
<1>3. Files(fresh) \subseteq Documents(Ids) /\ Loaded(fresh) \subseteq Models(Ids)
  BY <1>2, TypedBy DEF Ids
<1>4. Saved(fresh) \subseteq [doc: Documents(Ids), written: BOOLEAN, alone: BOOLEAN]
  BY <1>3 DEF Saved
<1> QED
  BY <1>1, <1>2, <1>3, <1>4 DEF TypeInv, TypeOK

\* The invariant gives the ids.
LEMMA IdsFollow == IInv => UniqueIds
<1> SUFFICES ASSUME IInv PROVE UniqueIds
  OBVIOUS
<1>1. model.cells \in Lists(fresh)
  BY DEF IInv, TypeInv, Loaded
<1>2. Distinct(model.cells) /\ DOMAIN model.cells = 1..Len(model.cells)
  BY <1>1, LenProperties DEF Lists
<1> QED
  BY <1>2 DEF UniqueIds, Distinct

\* The types of the variables.
THEOREM TypesHold == Spec => []TypeOK
BY IInvHolds, TypesFollow, PTL

\* However cells are inserted, copied, undone, redone, saved, read back or received from
\* another editor, no two cells of the open notebook share an id.
THEOREM UniqueIdsHolds == Spec => []UniqueIds
BY IInvHolds, IdsFollow, PTL

\* After every step the Yjs document shows what the editor shows.
THEOREM SharedAgreesHolds == Spec => []SharedAgrees
<1>1. IInv => SharedAgrees
  BY DEF IInv
<1> QED
  BY <1>1, IInvHolds, PTL

\* An editor that is not dirty shows what is in the file, unless the model or the file
\* was changed under a running save, or by another editor.
THEOREM CleanIsSavedHolds == Spec => []CleanIsSaved
<1>1. IInv => CleanIsSaved
  BY DEF IInv
<1> QED
  BY <1>1, IInvHolds, PTL

-----------------------------------------------------------------------------
(* Undo and redo walk along one line.                                       *)

\* Line, of any model; Views are what a document can show.
LineOf(m) == [i \in 1..Len(m.undo) |-> Shown(m.undo[i])]
               \o <<Shown(ToJSON(m))>>
               \o Reverse([i \in 1..Len(m.redo) |-> Shown(m.redo[i])])
Views(n) == {Shown(d) : d \in Files(n)}

\* The elements of a reversed sequence.
LEMMA ReverseIs ==
  ASSUME NEW S, NEW s \in Seq(S)
  PROVE  /\ Reverse(s) \in Seq(S) /\ Len(Reverse(s)) = Len(s)
         /\ \A i \in 1..Len(s) : Reverse(s)[i] = s[(Len(s) - i) + 1]
<1>1. Len(s) \in Nat
  BY LenProperties
<1>2. \A i \in 1..Len(s) : (Len(s) - i) + 1 \in 1..Len(s)
  BY <1>1
<1>3. \A i \in 1..Len(s) : s[(Len(s) - i) + 1] \in S
  BY <1>2, ElementOfSeq
<1> QED
  BY <1>1, <1>3 DEF Reverse

\* The documents to undo, oldest first, then the present one, then those to redo.
LEMMA LineIs ==
  ASSUME NEW n, NEW m \in Loaded(n)
  PROVE  /\ LineOf(m) \in Seq(Views(n))
         /\ Len(LineOf(m)) = Len(m.undo) + 1 + Len(m.redo)
         /\ \A i \in 1..Len(m.undo) : LineOf(m)[i] = Shown(m.undo[i])
         /\ LineOf(m)[Len(m.undo) + 1] = Shown(ToJSON(m))
         /\ \A i \in 1..Len(m.redo) :
              LineOf(m)[Len(m.undo) + 1 + i] = Shown(m.redo[(Len(m.redo) - i) + 1])
         /\ Len(m.undo) \in Nat /\ Len(m.redo) \in Nat
<1>1. /\ m.undo \in Seq(Files(n)) /\ m.redo \in Seq(Files(n))
      /\ m.cells \in Lists(n) /\ m.meta \in BOOLEAN
  BY DEF Loaded
<1>2. PICK u : u = Len(m.undo)
  OBVIOUS
<1>3. PICK r : r = Len(m.redo)
  OBVIOUS
<1>4. u \in Nat /\ r \in Nat
  BY <1>1, <1>2, <1>3, LenProperties
<1>5. /\ \A i \in 1..u : Shown(m.undo[i]) \in Views(n)
      /\ \A i \in 1..r : Shown(m.redo[i]) \in Views(n)
  BY <1>1, <1>2, <1>3, ElementOfSeq DEF Views
<1>6. Shown(ToJSON(m)) \in Views(n)
  BY <1>1, ToJSONIs DEF Views
<1> DEFINE a == [i \in 1..u |-> Shown(m.undo[i])]
           b == <<Shown(ToJSON(m))>>
           c == [i \in 1..r |-> Shown(m.redo[i])]
           ab == a \o b
           d == Reverse(c)
<1>7. LineOf(m) = ab \o d
  BY <1>2, <1>3 DEF LineOf
<1>8. /\ a \in Seq(Views(n)) /\ Len(a) = u /\ \A i \in 1..u : a[i] = Shown(m.undo[i])
      /\ c \in Seq(Views(n)) /\ Len(c) = r /\ \A i \in 1..r : c[i] = Shown(m.redo[i])
  BY <1>4, <1>5
<1>9. b \in Seq(Views(n)) /\ Len(b) = 1 /\ b[1] = Shown(ToJSON(m))
  BY <1>6
<1> HIDE DEF a, b, c
<1>10. /\ d \in Seq(Views(n)) /\ Len(d) = r
       /\ \A i \in 1..r : d[i] = c[(r - i) + 1]
  BY <1>8, ReverseIs
<1>11. \A i \in 1..r : d[i] = Shown(m.redo[(r - i) + 1])
  <2>1. \A i \in 1..r : (r - i) + 1 \in 1..r
    BY <1>4
  <2> QED
    BY <1>8, <1>10, <2>1
<1>12. /\ ab \in Seq(Views(n)) /\ Len(ab) = Len(a) + Len(b)
       /\ \A i \in 1..Len(a) : ab[i] = a[i]
       /\ \A i \in 1..Len(b) : ab[Len(a) + i] = b[i]
  <2>1. a \in Seq(Views(n)) /\ b \in Seq(Views(n))
    BY <1>8, <1>9
  <2> QED
    BY <2>1, ConcatIs
<1> HIDE DEF d
<1>13. /\ ab \in Seq(Views(n)) /\ Len(ab) = u + 1
       /\ \A i \in 1..u : ab[i] = Shown(m.undo[i])
       /\ ab[u + 1] = Shown(ToJSON(m))
  BY <1>4, <1>8, <1>9, <1>12
<1> HIDE DEF ab
<1>14. /\ ab \o d \in Seq(Views(n)) /\ Len(ab \o d) = (u + 1) + r
       /\ \A i \in 1..u + 1 : (ab \o d)[i] = ab[i]
       /\ \A i \in 1..r : (ab \o d)[u + 1 + i] = d[i]
  <2>1. ab \in Seq(Views(n)) /\ d \in Seq(Views(n))
    BY <1>10, <1>13
  <2>2. /\ ab \o d \in Seq(Views(n)) /\ Len(ab \o d) = Len(ab) + Len(d)
        /\ \A i \in 1..Len(ab) : (ab \o d)[i] = ab[i]
        /\ \A i \in 1..Len(d) : (ab \o d)[Len(ab) + i] = d[i]
    BY <2>1, ConcatIs
  <2>3. Len(ab) = u + 1 /\ Len(d) = r
    BY <1>10, <1>13
  <2> QED
    BY <2>2, <2>3
<1>15. /\ \A i \in 1..u : (ab \o d)[i] = Shown(m.undo[i])
       /\ (ab \o d)[u + 1] = Shown(ToJSON(m))
  BY <1>4, <1>13, <1>14
<1>16. \A i \in 1..r : (ab \o d)[u + 1 + i] = Shown(m.redo[(r - i) + 1])
  BY <1>11, <1>14
<1> QED
  BY <1>2, <1>3, <1>4, <1>7, <1>14, <1>15, <1>16

\* The model b is the one after a on the line: a is the last document b can undo, b the
\* last one a can redo.
Follows(a, b) ==
  /\ Len(b.undo) = Len(a.undo) + 1 /\ Len(a.redo) = Len(b.redo) + 1
  /\ \A i \in 1..Len(a.undo) : b.undo[i] = a.undo[i]
  /\ \A i \in 1..Len(b.redo) : a.redo[i] = b.redo[i]
  /\ Shown(b.undo[Len(a.undo) + 1]) = Shown(ToJSON(a))
  /\ Shown(a.redo[Len(b.redo) + 1]) = Shown(ToJSON(b))

\* Two models that follow each other have the same line.
LEMMA SameLine ==
  ASSUME NEW n, NEW a \in Loaded(n), NEW b \in Loaded(n), Follows(a, b)
  PROVE  LineOf(a) = LineOf(b)
<1>1. PICK u \in Nat : u = Len(a.undo)
  BY LineIs
<1>2. PICK r \in Nat : r = Len(b.redo)
  BY LineIs
<1>3. /\ Len(b.undo) = u + 1 /\ Len(a.redo) = r + 1
      /\ \A i \in 1..u : b.undo[i] = a.undo[i]
      /\ \A i \in 1..r : a.redo[i] = b.redo[i]
      /\ Shown(b.undo[u + 1]) = Shown(ToJSON(a)) /\ Shown(a.redo[r + 1]) = Shown(ToJSON(b))
  BY <1>1, <1>2 DEF Follows
<1>4. PICK s : s = LineOf(a)
  OBVIOUS
<1>5. PICK t : t = LineOf(b)
  OBVIOUS
<1>6. /\ s \in Seq(Views(n)) /\ Len(s) = u + 1 + (r + 1)
      /\ \A i \in 1..u : s[i] = Shown(a.undo[i])
      /\ s[u + 1] = Shown(ToJSON(a))
      /\ \A i \in 1..r + 1 : s[u + 1 + i] = Shown(a.redo[((r + 1) - i) + 1])
  BY <1>1, <1>3, <1>4, LineIs, ZenonT(40)
<1>7. /\ t \in Seq(Views(n)) /\ Len(t) = (u + 1) + 1 + r
      /\ \A i \in 1..u + 1 : t[i] = Shown(b.undo[i])
      /\ t[(u + 1) + 1] = Shown(ToJSON(b))
      /\ \A i \in 1..r : t[(u + 1) + 1 + i] = Shown(b.redo[(r - i) + 1])
  BY <1>2, <1>3, <1>5, LineIs, ZenonT(40)
<1>8. ASSUME NEW i \in 1..u PROVE s[i] = t[i]
  <2>1. i \in 1..u + 1
    OBVIOUS
  <2>2. s[i] = Shown(a.undo[i]) /\ t[i] = Shown(b.undo[i]) /\ b.undo[i] = a.undo[i]
    BY <1>3, <1>6, <1>7, <2>1
  <2> QED
    BY <2>2
<1>9. s[u + 1] = t[u + 1]
  <2>1. u + 1 \in 1..u + 1
    OBVIOUS
  <2>2. t[u + 1] = Shown(b.undo[u + 1])
    BY <1>7, <2>1
  <2> QED
    BY <1>3, <1>6, <2>2
<1>10. s[u + 2] = t[u + 2]
  <2>1. 1 \in 1..r + 1 /\ u + 1 + 1 = u + 2 /\ (u + 1) + 1 = u + 2 /\ ((r + 1) - 1) + 1 = r + 1
    OBVIOUS
  <2>2. s[u + 2] = Shown(a.redo[r + 1])
    BY <1>6, <2>1
  <2> QED
    BY <1>3, <1>7, <2>1, <2>2
<1>11. ASSUME NEW i \in 1..r PROVE s[u + 2 + i] = t[u + 2 + i]
  <2>1. /\ i + 1 \in 1..r + 1 /\ u + 1 + (i + 1) = u + 2 + i /\ (u + 1) + 1 + i = u + 2 + i
        /\ ((r + 1) - (i + 1)) + 1 = (r - i) + 1 /\ (r - i) + 1 \in 1..r
    OBVIOUS
  <2>2. s[u + 2 + i] = Shown(a.redo[(r - i) + 1])
    BY <1>6, <2>1
  <2>3. t[u + 2 + i] = Shown(b.redo[(r - i) + 1])
    BY <1>7, <2>1
  <2>4. a.redo[(r - i) + 1] = b.redo[(r - i) + 1]
    BY <1>3, <2>1
  <2> QED
    BY <2>2, <2>3, <2>4
<1>12. Len(s) = Len(t)
  BY <1>6, <1>7
<1>13. ASSUME NEW j \in 1..Len(s) PROVE s[j] = t[j]
  <2>1. j \in 1..u \/ j = u + 1 \/ j = u + 2 \/ j - (u + 2) \in 1..r
    BY <1>6
  <2>2. u + 2 + (j - (u + 2)) = j
    BY <1>6
  <2>3. ASSUME j - (u + 2) \in 1..r PROVE s[j] = t[j]
    BY <1>11, <2>2, <2>3
  <2> QED
    BY <1>8, <1>9, <1>10, <2>1, <2>3
<1>14. s = t
  BY <1>6, <1>7, <1>12, <1>13, SeqEqual
<1> QED
  BY <1>4, <1>5, <1>14

\* The line is the one of the model, in every state.
LEMMA LineOfModel == Line = LineOf(model) /\ Line' = LineOf(model')
BY DEF Line, LineOf

\* An edit cuts the line after the present document and extends it.
LEMMA EditMaps ==
  ASSUME IInv, NEW m, NEW n, EditBy(m, n)
  PROVE  Abstract!Edit
<1>1. model \in Loaded(fresh) /\ Len(model.undo) <= History /\ History \in Nat
  BY ModelHeld DEF IInv, Held
<1>2. /\ model' = m /\ m \in Loaded(n) /\ m.redo = <<>>
      /\ Len(m.undo) = Len(model.undo) + 1 - Drops(model.undo, History)
      /\ \A i \in 1..Len(m.undo) - 1 : m.undo[i] = model.undo[i + Drops(model.undo, History)]
      /\ m.undo[Len(m.undo)] = ToJSON(model) /\ Len(m.undo) \in 1..History
  BY DEF EditBy, Edit, Install, Edited
<1>3. PICK u : u = Len(model.undo)
  OBVIOUS
<1>4. PICK d : d = Drops(model.undo, History)
  OBVIOUS
<1>5. u \in Nat /\ u <= History
  BY <1>1, <1>3, LineIs
<1>6. d = IF u = History THEN 1 ELSE 0
  BY <1>3, <1>4 DEF Drops
<1>7. PICK v : v = Len(m.undo)
  OBVIOUS
<1>8. /\ v = u + 1 - d /\ v \in 1..History /\ v \in Nat
      /\ \A i \in 1..v - 1 : m.undo[i] = model.undo[i + d]
      /\ m.undo[v] = ToJSON(model)
  BY <1>2, <1>3, <1>4, <1>7
<1>9. PICK s : s = LineOf(model)
  OBVIOUS
<1>10. PICK t : t = LineOf(m)
  OBVIOUS
<1>11. /\ \A i \in 1..u : s[i] = Shown(model.undo[i])
       /\ s[u + 1] = Shown(ToJSON(model))
  BY <1>1, <1>3, <1>9, LineIs
<1>12. /\ Len(t) = v + 1
       /\ \A i \in 1..v : t[i] = Shown(m.undo[i])
  <2>1. Len(m.redo) = 0
    BY <1>2
  <2>2. /\ Len(t) = v + 1 + Len(m.redo)
        /\ \A i \in 1..v : t[i] = Shown(m.undo[i])
    BY <1>2, <1>7, <1>10, LineIs
  <2> QED
    BY <1>8, <2>1, <2>2
<1>13. Line = s /\ Line' = t
  BY <1>2, <1>9, <1>10, LineOfModel
<1>14. v + 1 = IF u + 1 > History THEN u + 1 ELSE u + 1 + 1
  BY <1>1, <1>5, <1>6, <1>8
<1>15. ASSUME NEW i \in 1..(v + 1) - 1
       PROVE  t[i] = s[i + (u + 1) + 1 - (v + 1)]
  <2>1. i + (u + 1) + 1 - (v + 1) = i + d /\ i \in 1..v /\ v \in 1..v /\ v + d = u + 1
    BY <1>5, <1>6, <1>8
  <2>2. CASE i = v
    <3>1. t[v] = Shown(m.undo[v])
      BY <1>12, <2>1
    <3> QED
      BY <1>8, <1>11, <2>1, <2>2, <3>1
  <2>3. CASE i # v
    <3>1. i \in 1..v - 1 /\ i + d \in 1..u
      BY <1>5, <1>6, <1>8, <2>1, <2>3
    <3>2. m.undo[i] = model.undo[i + d]
      BY <1>8, <3>1
    <3>3. s[i + d] = Shown(model.undo[i + d])
      BY <1>11, <3>1
    <3>4. t[i] = Shown(m.undo[i])
      BY <1>12, <2>1
    <3> QED
      BY <2>1, <3>2, <3>3, <3>4
  <2> QED
    BY <2>2, <2>3
<1>16. Len(model.undo) = u /\ Len(model'.undo) = v
  BY <1>2, <1>3, <1>7
<1> QED
  BY <1>12, <1>13, <1>14, <1>15, <1>16 DEF Abstract!Edit

\* Undo and redo walk along the line.
LEMMA WalkMaps ==
  ASSUME IInv, UndoEdit \/ RedoEdit
  PROVE  Abstract!Undo \/ Abstract!Redo
<1>1. /\ Held(model, fresh) /\ model \in Loaded(fresh) /\ ToJSON(model) \in Files(fresh)
      /\ model.undo \in Seq(Files(fresh)) /\ model.redo \in Seq(Files(fresh))
      /\ Len(model.undo) \in Nat /\ Len(model.redo) \in Nat
  BY ModelHeld DEF IInv, Held
<1>2. Len(Line) = Len(model.undo) + 1 + Len(model.redo)
  BY <1>1, LineIs, LineOfModel
<1>3. CASE model.undo # <<>> /\ model' = Undo(model)
  <2>1. PICK e : e = Undo(model)
    OBVIOUS
  <2>2. /\ e \in Loaded(fresh) /\ Shown(ToJSON(e)) = Shown(Last(model.undo))
        /\ e.undo = Front(model.undo) /\ e.redo = Append(model.redo, ToJSON(model))
    BY <1>1, <1>3, <2>1, UndoIs DEF Walked
  <2>3. /\ Len(e.undo) = Len(model.undo) - 1 /\ Len(model.undo) \in Nat \ {0}
        /\ \A i \in 1..Len(model.undo) - 1 : e.undo[i] = model.undo[i]
        /\ Last(model.undo) = model.undo[Len(model.undo)]
    BY <1>1, <1>3, <2>2, FrontLastIs
  <2>4. /\ Len(e.redo) = Len(model.redo) + 1
        /\ \A i \in 1..Len(model.redo) : e.redo[i] = model.redo[i]
        /\ e.redo[Len(model.redo) + 1] = ToJSON(model)
    BY <1>1, <2>2, AppendProperties
  <2>5. Len(model.undo) = Len(e.undo) + 1
    BY <2>3
  <2>6. \A i \in 1..Len(e.undo) : model.undo[i] = e.undo[i]
    BY <2>3
  <2>7. Follows(e, model)
    BY <2>2, <2>3, <2>4, <2>5, <2>6 DEF Follows
  <2>8. LineOf(e) = LineOf(model)
    BY <1>1, <2>2, <2>7, SameLine
  <2>9. Line' = Line
    BY <1>3, <2>1, <2>8, LineOfModel
  <2>10. Len(model'.undo) + 1 = (Len(model.undo) + 1) - 1 /\ Len(model.undo) + 1 > 1
    BY <1>3, <2>1, <2>3
  <2> QED
    BY <2>9, <2>10 DEF Abstract!Undo
<1>4. CASE model.redo # <<>> /\ model' = Redo(model)
  <2>1. PICK e : e = Redo(model)
    OBVIOUS
  <2>2. /\ e \in Loaded(fresh) /\ Shown(ToJSON(e)) = Shown(Last(model.redo))
        /\ e.redo = Front(model.redo) /\ e.undo = Append(model.undo, ToJSON(model))
    BY <1>1, <1>4, <2>1, RedoIs DEF Walked
  <2>3. /\ Len(e.redo) = Len(model.redo) - 1 /\ Len(model.redo) \in Nat \ {0}
        /\ \A i \in 1..Len(model.redo) - 1 : e.redo[i] = model.redo[i]
        /\ Last(model.redo) = model.redo[Len(model.redo)]
    BY <1>1, <1>4, <2>2, FrontLastIs, ZenonT(40)
  <2>4. /\ Len(e.undo) = Len(model.undo) + 1
        /\ \A i \in 1..Len(model.undo) : e.undo[i] = model.undo[i]
        /\ e.undo[Len(model.undo) + 1] = ToJSON(model)
    BY <1>1, <2>2, AppendProperties
  <2>5. Len(model.redo) = Len(e.redo) + 1
    BY <2>3
  <2>6. \A i \in 1..Len(e.redo) : model.redo[i] = e.redo[i]
    BY <2>3
  <2>7. Follows(model, e)
    BY <2>2, <2>3, <2>4, <2>5, <2>6 DEF Follows
  <2>8. LineOf(model) = LineOf(e)
    BY <1>1, <2>2, <2>7, SameLine
  <2>9. Line' = Line
    BY <1>4, <2>1, <2>8, LineOfModel
  <2>10. Len(model'.undo) + 1 = (Len(model.undo) + 1) + 1
    BY <1>4, <2>1, <2>4
  <2>11. Len(model.undo) + 1 < Len(Line)
    <3>1. \A a \in Nat, b \in Nat \ {0} : a + 1 < a + 1 + b
      OBVIOUS
    <3> QED
      BY <1>1, <1>2, <2>3, <3>1
  <2> QED
    BY <2>9, <2>10, <2>11 DEF Abstract!Redo
<1> QED
  BY <1>3, <1>4, WalkStep

\* A document that is loaded starts a line of its own.
LEMMA LoadMaps ==
  ASSUME IInv', model'.undo = <<>>, model'.redo = <<>>
  PROVE  Abstract!Load
<1>1. PICK m : m = model'
  OBVIOUS
<1>2. PICK n : n = fresh'
  OBVIOUS
<1>3. m \in Loaded(n) /\ m.undo = <<>> /\ m.redo = <<>>
  BY <1>1, <1>2 DEF IInv, TypeInv
<1>4. Len(m.undo) = 0 /\ Len(m.redo) = 0
  BY <1>3
<1>5. Len(LineOf(m)) = 1
  <2>1. Len(LineOf(m)) = Len(m.undo) + 1 + Len(m.redo)
    BY <1>3, LineIs
  <2> QED
    BY <1>4, <2>1
<1>6. Len(Line') = 1 /\ Len(model'.undo) + 1 = 1
  BY <1>1, <1>4, <1>5, LineOfModel
<1> QED
  BY <1>6 DEF Abstract!Load

\* A document that was just opened is a line of one.
LEMMA LineInit == Init => Abstract!Init
<1> SUFFICES ASSUME Init PROVE Abstract!Init
  OBVIOUS
<1>1. IInv
  BY IInvInit
<1>2. model \in Loaded(fresh) /\ model.undo = <<>> /\ model.redo = <<>>
  BY <1>1 DEF IInv, TypeInv, Init, Open, Fresh
<1>3. Len(model.undo) = 0 /\ Len(model.redo) = 0
  BY <1>2
<1>4. Len(Line) = 1
  <2>1. Len(LineOf(model)) = Len(model.undo) + 1 + Len(model.redo)
    BY <1>2, LineIs
  <2> QED
    BY <1>3, <2>1, LineOfModel
<1> QED
  BY <1>3, <1>4 DEF Abstract!Init

\* A step that leaves the document and the stacks alone leaves the line alone.
LEMMA LineStays ==
  ASSUME ToJSON(model') = ToJSON(model), model'.undo = model.undo, model'.redo = model.redo
  PROVE  UNCHANGED <<Line, Len(model.undo) + 1>>
BY DEF Line

\* Every step is one of EditTimeline or leaves the line alone.
LEMMA LineStep == IInv /\ [Next]_vars => [Abstract!Next]_<<Line, Len(model.undo) + 1>>
<1> SUFFICES ASSUME IInv, [Next]_vars
             PROVE  Abstract!Next \/ UNCHANGED <<Line, Len(model.undo) + 1>>
  OBVIOUS
<1>1. TypeInv /\ IInv'
  BY IInvNext DEF IInv
<1>2. ASSUME model' = model PROVE UNCHANGED <<Line, Len(model.undo) + 1>>
  BY <1>2, LineStays
<1>3. CASE UNCHANGED vars
  BY <1>2, <1>3 DEF vars
<1>4. CASE Edits
  BY <1>1, <1>4, EditsAre, EditMaps DEF Abstract!Next
<1>5. CASE UndoEdit \/ RedoEdit
  BY <1>5, WalkMaps DEF Abstract!Next
<1>6. CASE StartSave \/ Fetch
  BY <1>2, <1>6 DEF StartSave, Fetch
<1>7. ASSUME NEW s \in saves, WriteFile(s) \/ SaveFailed(s)
      PROVE  UNCHANGED <<Line, Len(model.undo) + 1>>
  BY <1>2, <1>7 DEF WriteFile, SaveFailed
<1>8. ASSUME NEW s \in saves, SaveCompleted(s)
      PROVE  UNCHANGED <<Line, Len(model.undo) + 1>>
  <2>1. model' = [model EXCEPT !.dirty = FALSE] /\ ToJSON(model') = ToJSON(model)
    BY <1>8, SaveCompletedStep
  <2>2. model'.undo = model.undo /\ model'.redo = model.redo
    BY <1>1, <2>1 DEF TypeInv, Loaded
  <2> QED
    BY <2>1, <2>2, LineStays
<1>9. ASSUME NEW doc \in fetched, Revert(doc) PROVE Abstract!Next
  BY <1>1, <1>9, RevertStep, LoadMaps DEF Abstract!Next
<1>10. ASSUME NEW i \in DOMAIN shared.cells,
              RemoteDelete(i) \/ \E src \in Sources : RemoteType(i, src)
       PROVE  Abstract!Next
  <2>1. PICK doc \in Files(fresh) : Remote(doc)
    BY <1>10, RemotesAre
  <2> QED
    BY <1>1, <2>1, RemoteStep, LoadMaps DEF Abstract!Next
<1> QED
  BY <1>3, <1>4, <1>5, <1>6, <1>7, <1>8, <1>9, <1>10 DEF Next, Edits

\* Whatever is edited, undone, redone, saved, read back or received from another editor,
\* the two stacks around the present document are one line of documents, as
\* EditTimeline describes it.
THEOREM UndoIsALineHolds == Spec => UndoIsALine
BY IInvHolds, LineInit, LineStep, PTL DEF Spec, UndoIsALine, Abstract!Spec

-----------------------------------------------------------------------------
(* The controller, over the same model.                                     *)

\* What the editor was told: the active cell, and at least the extended selection
\* (enterEdit ends one and does not tell the editor).
ToldInv == /\ shown.active = active
           /\ chosen \subseteq shown.chosen

\* setActive, after active and chosen have their new values.
LEMMA ShowTells == Show => ToldInv'
BY DEF Show, ToldInv

LEMMA SelectTells ==
  ASSUME NEW id, Select(id)
  PROVE  ToldInv'
BY ShowTells DEF Select

\* A step that leaves the selection and the editor's copy of it alone.
LEMMA ToldStays ==
  ASSUME ToldInv, UNCHANGED <<active, chosen, shown>>
  PROVE  ToldInv'
BY DEF ToldInv

\* Every edit that changes the selection ends in setActive or setSelected, which notify.
LEMMA EditingTells ==
  ASSUME ToldInv, Editing
  PROVE  ToldInv'
<1>1. ASSUME NEW id, Deleted(id) PROVE ToldInv'
  BY <1>1, SelectTells DEF Deleted, SelectAround
<1>2. CASE DeletedSelected
  BY <1>2, SelectTells DEF DeletedSelected, SelectAround
<1>3. CASE UNCHANGED <<active, chosen, shown>>
  BY <1>3, ToldStays
<1>4. CASE \E id : Select(id)
  BY <1>4, SelectTells
<1>5. ASSUME UNCHANGED selection PROVE UNCHANGED <<active, chosen, shown>>
  BY <1>5 DEF selection
<1>6. ASSUME NEW id, Tools(id) PROVE ToldInv'
  BY <1>1, <1>3, <1>4, <1>5, <1>6
     DEF Tools, MoveOne, DuplicateCell, ClearOutputs, DeleteOne, Cut
<1>7. ASSUME NEW id, NEW src, TypeIn(id, src) PROVE ToldInv'
  BY <1>3, <1>5, <1>7 DEF TypeIn
<1>8. ASSUME NEW kind, NEW below, NEW before, InsertNew(kind, below, before)
      PROVE  ToldInv'
  BY <1>4, <1>8 DEF InsertNew
<1>9. ASSUME NEW kind, ChangeSelectedType(kind) PROVE ToldInv'
  BY <1>3, <1>5, <1>9 DEF ChangeSelectedType
<1>10. CASE \/ DeleteSelected \/ Copy \/ CutSelected \/ Paste \/ Heading
  BY <1>2, <1>3, <1>4, <1>5, <1>10
     DEF DeleteSelected, Copy, CutSelected, Paste, Heading
<1> QED
  BY <1>6, <1>7, <1>8, <1>9, <1>10 DEF Editing

\* Clicks, keys and selections: enterEdit only ends a selection, and tells less than it shows.
LEMMA SelectingTells ==
  ASSUME ToldInv, Selecting
  PROVE  ToldInv'
<1>1. ASSUME NEW id, NEW editing, Click(id, editing) PROVE ToldInv'
  BY <1>1 DEF Click, ToldInv
<1>2. ASSUME NEW id, NEW editing, ShiftClick(id, editing) PROVE ToldInv'
  <2>1. PICK ids : /\ active' = id /\ shown' = [active |-> id, chosen |-> ids]
                   /\ chosen' = ids \/ chosen' = {}
    BY <1>2 DEF ShiftClick, EnterEdit
  <2> QED
    BY <2>1 DEF ToldInv
<1>3. ASSUME NEW id, Reveal(id) PROVE ToldInv'
  BY <1>3, SelectTells DEF Reveal
<1>4. CASE Enter
  BY <1>4 DEF Enter, EnterEdit, ToldInv
<1>5. CASE Escape
  BY <1>5, ToldStays DEF Escape
<1>6. ASSUME NEW delta, NEW extend, Arrow(delta, extend) PROVE ToldInv'
  BY <1>6, ShowTells DEF Arrow
<1> QED
  BY <1>1, <1>2, <1>3, <1>4, <1>5, <1>6 DEF Selecting

\* Executions, undo and redo.
LEMMA RunningTells ==
  ASSUME ToldInv, Running \/ Walking \/ Ending
  PROVE  ToldInv'
<1>1. ASSUME UNCHANGED selection PROVE ToldInv'
  BY <1>1, ToldStays DEF selection
<1>2. CASE Walking
  BY <1>1, <1>2 DEF Walking, UndoKey, RedoKey, WalkTo
<1>3. CASE Ending
  BY <1>1, <1>3 DEF Ending, RunNext, Finish, Fail, Ended
<1>4. CASE Running
  <2>1. ASSUME NEW id, Run(id) PROVE ToldInv'
    BY <1>1, <2>1 DEF Run
  <2>2. CASE RunAndAdvance
    BY <2>2, ShowTells, SelectTells DEF RunAndAdvance
  <2>3. CASE RunAndInsert
    BY <2>3, SelectTells DEF RunAndInsert
  <2>4. CASE RunAll
    BY <1>1, <2>4 DEF RunAll
  <2> QED
    BY <1>4, <2>1, <2>2, <2>3, <2>4 DEF Running
<1> QED
  BY <1>2, <1>3, <1>4

\* What a delete of the selection would take is among the cells the editor shows as
\* active or selected, for any document, selection and history of edits.
THEOREM DeletesOnlyShownHolds == EditorSpec => []DeletesOnlyShown
<1>1. EditorInit => ToldInv
  BY DEF EditorInit, ToldInv
<1>2. ToldInv /\ [EditorNext]_editorVars => ToldInv'
  <2> SUFFICES ASSUME ToldInv, [EditorNext]_editorVars
               PROVE  ToldInv'
    OBVIOUS
  <2>1. CASE UNCHANGED editorVars
    BY <2>1, ToldStays DEF editorVars, selection
  <2>2. CASE EditorNext
    BY <2>2, EditingTells, SelectingTells, RunningTells
       DEF EditorNext, User, Kernel
  <2> QED
    BY <2>1, <2>2
<1>3. ToldInv => DeletesOnlyShown
  BY DEF ToldInv, DeletesOnlyShown, SelectedIds
<1> QED
  BY <1>1, <1>2, <1>3, PTL DEF EditorSpec

\* A loop of n turns begins with b in M[0]; turn k takes M[k - 1] to M[k] by F[k].
Turns(n, b, F, M) == b \in M[0] /\ \A k \in 1..n : \A m \in M[k - 1] : F[k][m] \in M[k]
LoopOf(n, b, F, M, f) ==
  /\ f = [k \in 0..n |-> f[k]]
  /\ f[0] = b /\ \A k \in 1..n : f[k] = F[k][f[k - 1]]
  /\ \A k \in 0..n : f[k] \in M[k]

LEMMA LoopExists ==
  ASSUME NEW n \in Nat, NEW M, NEW F, NEW b, Turns(n, b, F, M)
  PROVE  \E f : LoopOf(n, b, F, M, f)
<1>0. b \in M[0] /\ \A k \in 1..n : \A m \in M[k - 1] : F[k][m] \in M[k]
  BY DEF Turns
<1> DEFINE Upto(i, f) == /\ f = [k \in 0..i |-> IF k = 0 THEN b ELSE F[k][f[k - 1]]]
                         /\ \A k \in 0..i : f[k] \in M[k]
           T == {i \in 0..n : ~\E f : Upto(i, f)}
<1>1. T = {}
  <2> SUFFICES ASSUME T # {} PROVE FALSE
    OBVIOUS
  <2> DEFINE i == Min(T)
  <2>1. T \in SUBSET Nat
    OBVIOUS
  <2>2. i \in T /\ \A m \in T : i <= m
    BY <2>1, LeastNatural
  <2> HIDE DEF i
  <2>3. i # 0
    <3> DEFINE f == [k \in 0..0 |-> b]
    <3>1. Upto(0, f)
      BY <1>0
    <3> QED
      BY <1>0, <3>1, <2>2
  <2>4. i \in 1..n /\ i - 1 \in 0..n /\ i - 1 \notin T
    <3>1. i \in 0..n
      BY <2>2
    <3>2. ~(i <= i - 1)
      BY <3>1
    <3>3. i - 1 \notin T
      BY <2>2, <3>2
    <3> QED
      BY <2>3, <3>1, <3>3
  <2>5. PICK f : Upto(i - 1, f)
    BY <2>4
  <2> DEFINE e == [k \in 0..i |-> IF k = i THEN F[i][f[i - 1]] ELSE f[k]]
  <2>6. f[i - 1] \in M[i - 1]
    BY <2>4, <2>5
  <2>7. \A k \in 0..i - 1 : e[k] = f[k]
    BY <2>4
  <2>8. e[i] = F[i][f[i - 1]] /\ e[i] \in M[i] /\ e[i - 1] = f[i - 1]
    BY <1>0, <2>4, <2>6, <2>7
  <2>9. \A k \in 0..i : e[k] \in M[k]
    <3>1. \A k \in 0..i - 1 : e[k] \in M[k]
      BY <2>5, <2>7
    <3>2. \A k \in 0..i : k \in 0..i - 1 \/ k = i
      BY <2>4
    <3> QED
      BY <2>8, <3>1, <3>2
  <2>10. \A k \in 0..i : e[k] = IF k = 0 THEN b ELSE F[k][e[k - 1]]
    <3> SUFFICES ASSUME NEW k \in 0..i PROVE e[k] = IF k = 0 THEN b ELSE F[k][e[k - 1]]
      OBVIOUS
    <3>1. CASE k = i
      BY <3>1, <2>3, <2>8
    <3>2. CASE k # i
      <4>1. k \in 0..i - 1 /\ (k # 0 => k - 1 \in 0..i - 1)
        BY <3>2, <2>4
      <4>2. f[k] = IF k = 0 THEN b ELSE F[k][f[k - 1]]
        BY <4>1, <2>5
      <4> QED
        BY <4>1, <4>2, <2>7
    <3> QED
      BY <3>1, <3>2
  <2>11. e = [k \in 0..i |-> IF k = 0 THEN b ELSE F[k][e[k - 1]]]
    BY <2>10
  <2> QED
    BY <2>2, <2>9, <2>11
<1>2. n \in 0..n
  OBVIOUS
<1>3. PICK f : Upto(n, f)
  BY <1>1, <1>2
<1>4. f = [k \in 0..n |-> f[k]] /\ \A k \in 0..n : f[k] \in M[k]
  BY <1>3
<1>5. f[0] = b /\ \A k \in 1..n : f[k] = F[k][f[k - 1]]
  <2>1. 0 \in 0..n /\ \A k \in 1..n : k \in 0..n /\ k # 0
    OBVIOUS
  <2>2. \A k \in 0..n : f[k] = IF k = 0 THEN b ELSE F[k][f[k - 1]]
    BY <1>3
  <2> QED
    BY <2>1, <2>2
<1> QED
  BY <1>4, <1>5 DEF LoopOf

\* What every turn of a loop keeps holds at its end.
LEMMA LoopKeeps ==
  ASSUME NEW n \in Nat, NEW M, NEW g, g[0] \in M[0],
         \A k \in 1..n : g[k - 1] \in M[k - 1] => g[k] \in M[k]
  PROVE  g[n] \in M[n]
<1> DEFINE T == {i \in 0..n : g[i] \notin M[i]}
<1>1. T = {}
  <2> SUFFICES ASSUME T # {} PROVE FALSE
    OBVIOUS
  <2> DEFINE i == Min(T)
  <2>1. T \in SUBSET Nat
    OBVIOUS
  <2>2. i \in T /\ \A m \in T : i <= m
    BY <2>1, LeastNatural
  <2> HIDE DEF i
  <2>3. i \in 1..n /\ i - 1 \in 0..n /\ i - 1 \notin T
    BY <2>2
  <2> QED
    BY <2>2, <2>3
<1> QED
  BY <1>1

\* Models as the controller finds them.
Kept(n) == {m \in Loaded(n) : Len(m.undo) + Len(m.redo) <= History}

LEMMA KeptIs ==
  ASSUME NEW n \in Nat \ {0}, NEW m \in Kept(n)
  PROVE  /\ Held(m, n) /\ m.cells \in Lists(n) /\ m.cells \in Seq(Cells(1..n - 1))
         /\ DOMAIN m.cells = 1..Len(m.cells) /\ Len(m.cells) \in Nat
         /\ \A i \in 1..Len(m.cells) : m.cells[i] \in Cells(1..n - 1)
<1>1. /\ m \in Loaded(n) /\ Len(m.undo) + Len(m.redo) <= History
      /\ Len(m.undo) \in Nat /\ Len(m.redo) \in Nat /\ History \in Nat
  BY LenProperties, DocumentAssumption DEF Kept, Loaded
<1>2. Len(m.undo) <= History
  <2>1. \A x, y, z \in Nat : x + y <= z => x <= z
    OBVIOUS
  <2> QED
    BY <1>1, <2>1
<1>3. m.cells \in Lists(n) /\ m.cells \in Seq(Cells(1..n - 1))
  BY <1>1 DEF Loaded, Lists
<1>4. \A i \in 1..Len(m.cells) : m.cells[i] \in Cells(1..n - 1)
  BY <1>3, ElementOfSeq
<1> QED
  BY <1>1, <1>2, <1>3, <1>4, LenProperties DEF Held

\* What an edit installs is what the model then has.
LEMMA WithCellsKept ==
  ASSUME NEW n \in Nat \ {0}, NEW m \in Kept(n), NEW k \in Nat \ {0}, n <= k,
         NEW cells \in Lists(k)
  PROVE  /\ WithCells(m, cells) \in Kept(k)
         /\ WithCells(m, cells).cells = cells
<1>1. Held(m, n) /\ m \in Loaded(n)
  BY KeptIs DEF Kept
<1>2. Edited(m, WithCells(m, cells), k)
  BY <1>1, WithCellsEdited
<1> DEFINE e == WithCells(m, cells)
<1>3. e.cells = cells
  BY <1>1 DEF WithCells, Recorded, Loaded
<1> HIDE DEF e
<1>4. e \in Loaded(k) /\ e.redo = <<>> /\ Len(e.undo) \in 1..History
  BY <1>2 DEF Edited, e
<1>5. Len(e.undo) + Len(e.redo) <= History
  <2>1. Len(e.redo) = 0
    BY <1>4
  <2> QED
    BY <1>4, <2>1, DocumentAssumption
<1> QED
  BY <1>3, <1>4, <1>5 DEF Kept, e

\* One cell is replaced by one with its id.
Retains(m, e, n) == e \in Kept(n) /\ IdsOf(e) = IdsOf(m) /\ Len(e.cells) = Len(m.cells)

LEMMA SetCellKept ==
  ASSUME NEW n \in Nat \ {0}, NEW m \in Kept(n), NEW id \in IdsOf(m),
         NEW c \in Cells(1..n - 1), c.id = id
  PROVE  Retains(m, SetCell(m, id, c), n)
<1>1. /\ m.cells \in Lists(n) /\ DOMAIN m.cells = 1..Len(m.cells)
      /\ m.cells \in Seq(Cells(1..n - 1))
  BY KeptIs
<1> DEFINE i == At(m, id)
           s == ReplaceAt(m.cells, i, c)
<1>2. i \in 1..Len(m.cells) /\ m.cells[i].id = id
  BY <1>1, AtIs
<1> HIDE DEF i
<1>3. s \in Lists(n)
  BY <1>1, <1>2, ReplacedList
<1>4. /\ Len(s) = Len(m.cells)
      /\ \A j \in 1..Len(m.cells) : s[j] = IF j = i THEN c ELSE m.cells[j]
  <2>1. m.cells \in Seq(Cells(1..n - 1)) /\ i \in 1..Len(m.cells) /\ c \in Cells(1..n - 1)
    BY <1>1, <1>2
  <2>2. PICK q : q = m.cells
    OBVIOUS
  <2>3. q \in Seq(Cells(1..n - 1)) /\ i \in 1..Len(q)
    BY <2>1, <2>2
  <2>4. /\ Len(ReplaceAt(q, i, c)) = Len(q)
        /\ \A j \in 1..Len(q) : ReplaceAt(q, i, c)[j] = IF j = i THEN c ELSE q[j]
    BY <2>1, <2>3, ReplaceAtIs
  <2> QED
    BY <2>2, <2>4
<1> HIDE DEF s
<1>5. DOMAIN s = 1..Len(m.cells)
  BY <1>3, <1>4, LenProperties DEF Lists
<1>6. \A j \in 1..Len(m.cells) : s[j].id = m.cells[j].id
  BY <1>2, <1>4
<1>7. WithCells(m, s) \in Kept(n) /\ WithCells(m, s).cells = s
  BY <1>3, WithCellsKept
<1>8. IdsOf(WithCells(m, s)) = IdsOf(m)
  BY <1>1, <1>5, <1>6, <1>7 DEF IdsOf
<1> QED
  BY <1>4, <1>7, <1>8 DEF SetCell, Retains, s, i

\* The operations on one cell.
LEMMA CellEditsKeep ==
  ASSUME NEW n \in Nat \ {0}, NEW m \in Kept(n), NEW id \in IdsOf(m)
  PROVE  /\ \A src \in Sources : Retains(m, UpdateSource(m, id, src), n)
         /\ \A v \in Results : Retains(m, UpdateExecutionCount(m, id, v), n)
         /\ \A v \in Results : Retains(m, UpdateOutputs(m, id, v), n)
         /\ \A kind \in Kinds : Retains(m, ChangeCellType(m, id, kind), n)
<1> DEFINE old == CellOf(m, id)
<1>0. Retains(m, m, n)
  BY DEF Retains
<1>1. m.cells \in Lists(n)
  BY KeptIs
<1>2. HasCell(m, id) /\ old \in Cells(1..n - 1) /\ old.id = id /\ id \in 1..n - 1
  BY <1>1, AtIs
<1>3. \A c \in Cells(1..n - 1) : c.id = id =>
        Retains(m, SetCell(m, id, c), n)
  BY SetCellKept
<1>4. ASSUME NEW src \in Sources
      PROVE  Retains(m, UpdateSource(m, id, src), n)
  <2> DEFINE c == [old EXCEPT !.src = src]
  <2>1. c \in Cells(1..n - 1) /\ c.id = id
    BY <1>2 DEF Cells
  <2>2. UpdateSource(m, id, src) \in {m, SetCell(m, id, c)}
    BY DEF UpdateSource
  <2> HIDE DEF c
  <2> QED
    BY <1>0, <1>3, <2>1, <2>2
<1>5. ASSUME NEW v \in Results
      PROVE  Retains(m, UpdateExecutionCount(m, id, v), n)
  <2> DEFINE c == [old EXCEPT !.count = v]
  <2>1. c \in Cells(1..n - 1) /\ c.id = id
    BY <1>2 DEF Cells
  <2>2. UpdateExecutionCount(m, id, v) \in {m, SetCell(m, id, c)}
    BY DEF UpdateExecutionCount
  <2> HIDE DEF c
  <2> QED
    BY <1>0, <1>3, <2>1, <2>2
<1>6. ASSUME NEW v \in Results
      PROVE  Retains(m, UpdateOutputs(m, id, v), n)
  <2> DEFINE c == [old EXCEPT !.out = v]
  <2>1. c \in Cells(1..n - 1) /\ c.id = id
    BY <1>2 DEF Cells
  <2>2. UpdateOutputs(m, id, v) = SetCell(m, id, c)
    BY DEF UpdateOutputs
  <2> HIDE DEF c
  <2> QED
    BY <1>0, <1>3, <2>1, <2>2
<1>7. ASSUME NEW kind \in Kinds
      PROVE  Retains(m, ChangeCellType(m, id, kind), n)
  <2> DEFINE made == NewCell(id, kind, old.src)
             c == [made EXCEPT !.mark = old.mark]
  <2>1. old.src \in Sources /\ old.mark \in BOOLEAN
    BY <1>2 DEF Cells
  <2>2. ChangeCellType(m, id, kind) = SetCell(m, id, c)
    BY <1>2 DEF ChangeCellType
  <2>3. made \in Cells(1..n - 1) /\ made.id = id
    BY <1>2, <2>1, NewCellIs
  <2> HIDE DEF made
  <2>4. c \in Cells(1..n - 1) /\ c.id = id
    BY <2>1, <2>3 DEF Cells
  <2> HIDE DEF c
  <2> QED
    BY <1>3, <2>2, <2>4
<1> QED
  BY <1>4, <1>5, <1>6, <1>7

\* A cell is deleted, if it is there.
LEMMA DeleteKept ==
  ASSUME NEW n \in Nat \ {0}, NEW m \in Kept(n), NEW id
  PROVE  /\ DeleteCell(m, id) \in Kept(n)
         /\ Len(DeleteCell(m, id).cells) >= Len(m.cells) - 1
<1>1. m.cells \in Lists(n) /\ Len(m.cells) \in Nat
  BY KeptIs
<1>2. CASE ~HasCell(m, id)
  BY <1>1, <1>2 DEF DeleteCell
<1>3. CASE HasCell(m, id)
  <2>1. At(m, id) \in 1..Len(m.cells)
    BY <1>1, <1>3, AtIs
  <2> DEFINE s == RemoveAt(m.cells, At(m, id))
  <2>2. s \in Lists(n) /\ Len(s) = Len(m.cells) - 1
    BY <1>1, <2>1, RemovedList
  <2>3. DeleteCell(m, id) = WithCells(m, s)
    BY <1>3 DEF DeleteCell
  <2> HIDE DEF s
  <2>4. WithCells(m, s) \in Kept(n) /\ WithCells(m, s).cells = s
    BY <2>2, WithCellsKept
  <2> QED
    BY <1>1, <2>2, <2>3, <2>4
<1> QED
  BY <1>2, <1>3

\* A cell with the next id is inserted.
LEMMA InsertKept ==
  ASSUME NEW n \in Nat \ {0}, NEW m \in Kept(n), NEW i \in 1..Len(m.cells) + 1,
         NEW c \in Cells(1..n), c.id = n
  PROVE  /\ InsertCell(m, i, c) \in Kept(n + 1)
         /\ Len(InsertCell(m, i, c).cells) = Len(m.cells) + 1
         /\ InsertCell(m, i, c).cells[i] = c
<1>1. /\ m.cells \in Lists(n) /\ Len(m.cells) \in Nat /\ m.cells \in Seq(Cells(1..n - 1))
      /\ \A j \in 1..Len(m.cells) : m.cells[j] \in Cells(1..n - 1)
  BY KeptIs
<1>2. n + 1 \in Nat \ {0} /\ n <= n + 1 /\ (n + 1) - 1 = n /\ n \notin 1..n - 1
  OBVIOUS
<1>3. \A j \in 1..Len(m.cells) : m.cells[j].id # c.id
  BY <1>1, <1>2 DEF Cells
<1>4. m.cells \in Lists(n + 1)
  BY <1>1, <1>2, MoreIds
<1> DEFINE s == InsertAt(m.cells, i, c)
<1>5. s \in Lists(n + 1)
  BY <1>2, <1>3, <1>4, InsertedList
<1>6. Len(s) = Len(m.cells) + 1 /\ s[i] = c
  BY <1>2, <1>4, InsertAtIs DEF Lists
<1> HIDE DEF s
<1>7. WithCells(m, s) \in Kept(n + 1) /\ WithCells(m, s).cells = s
  BY <1>2, <1>5, WithCellsKept
<1> QED
  BY <1>6, <1>7 DEF InsertCell, s

\* A cell is moved, if both places exist.
LEMMA MoveKept ==
  ASSUME NEW n \in Nat \ {0}, NEW m \in Kept(n), NEW id, NEW to
  PROVE  MoveCell(m, id, to) \in Kept(n) /\ IdsOf(m) \subseteq IdsOf(MoveCell(m, id, to))
<1>1. /\ m.cells \in Lists(n) /\ Len(m.cells) \in Nat /\ m.cells \in Seq(Cells(1..n - 1))
      /\ DOMAIN m.cells = 1..Len(m.cells)
  BY KeptIs
<1>2. CASE ~(HasCell(m, id) /\ to \in DOMAIN m.cells)
  BY <1>2 DEF MoveCell
<1>3. CASE HasCell(m, id) /\ to \in DOMAIN m.cells
  <2> DEFINE i == At(m, id)
             r == RemoveAt(m.cells, i)
             c == m.cells[i]
             s == InsertAt(r, to, c)
  <2>1. i \in 1..Len(m.cells) /\ to \in 1..Len(m.cells) /\ CellOf(m, id) = m.cells[i]
    BY <1>1, <1>3, AtIs
  <2>2. MoveCell(m, id, to) = WithCells(m, s)
    BY <1>3, <2>1 DEF MoveCell
  <2> HIDE DEF i
  <2>3. s \in Lists(n)
    BY <1>1, <2>1, MovedList
  <2>4. /\ r \in Seq(Cells(1..n - 1)) /\ Len(r) = Len(m.cells) - 1
        /\ \A j \in 1..i - 1 : r[j] = m.cells[j]
        /\ \A j \in i..Len(m.cells) - 1 : r[j] = m.cells[j + 1]
    BY <1>1, <2>1, RemoveAtIs
  <2>5. c \in Cells(1..n - 1)
    BY <1>1, <2>1, ElementOfSeq
  <2> HIDE DEF r, c
  <2>6. to \in 1..Len(r) + 1
    BY <1>1, <2>1, <2>4
  <2>7. /\ Len(s) = Len(r) + 1
        /\ \A j \in 1..to - 1 : s[j] = r[j]
        /\ s[to] = c
        /\ \A j \in to..Len(r) : s[j + 1] = r[j]
    <3> DEFINE S == Cells(1..n - 1)
    <3>1. r \in Seq(S) /\ c \in S /\ to \in 1..Len(r) + 1
      BY <2>4, <2>5, <2>6
    <3> HIDE DEF S
    <3>2. /\ Len(InsertAt(r, to, c)) = Len(r) + 1
          /\ \A j \in 1..to - 1 : InsertAt(r, to, c)[j] = r[j]
          /\ InsertAt(r, to, c)[to] = c
          /\ \A j \in to..Len(r) : InsertAt(r, to, c)[j + 1] = r[j]
      BY ONLY <3>1, InsertAtIs
    <3> QED
      BY <3>2
  <2> HIDE DEF s
  <2>8. DOMAIN s = 1..Len(m.cells)
    <3>1. Len(s) = Len(m.cells)
      BY <1>1, <2>4, <2>7
    <3> QED
      BY <2>3, <3>1, LenProperties DEF Lists
  <2>9. \A j \in 1..Len(r) : \E k \in 1..Len(m.cells) : s[k] = r[j]
    <3> SUFFICES ASSUME NEW j \in 1..Len(r) PROVE \E k \in 1..Len(m.cells) : s[k] = r[j]
      OBVIOUS
    <3>1. CASE j < to
      <4>1. j \in 1..to - 1 /\ j \in 1..Len(m.cells)
        BY <1>1, <2>1, <2>4, <3>1
      <4> QED
        BY <2>7, <4>1
    <3>2. CASE ~(j < to)
      <4>1. j \in to..Len(r) /\ j + 1 \in 1..Len(m.cells)
        BY <1>1, <2>1, <2>4, <3>2
      <4> QED
        BY <2>7, <4>1
    <3> QED
      BY <3>1, <3>2
  <2>10. \A j \in 1..Len(m.cells) : \E k \in 1..Len(m.cells) : s[k] = m.cells[j]
    <3> SUFFICES ASSUME NEW j \in 1..Len(m.cells)
                 PROVE  \E k \in 1..Len(m.cells) : s[k] = m.cells[j]
      OBVIOUS
    <3>1. CASE j = i
      BY <2>1, <2>7, <3>1 DEF c
    <3>2. CASE j < i
      <4>1. j \in 1..i - 1 /\ j \in 1..Len(r)
        BY <1>1, <2>1, <2>4, <3>2
      <4> QED
        BY <2>4, <2>9, <4>1
    <3>3. CASE j > i
      <4>1. j - 1 \in i..Len(m.cells) - 1 /\ j - 1 \in 1..Len(r) /\ (j - 1) + 1 = j
        BY <1>1, <2>1, <2>4, <3>3
      <4>2. r[j - 1] = m.cells[j]
        BY <2>4, <4>1
      <4> QED
        BY <2>9, <4>1, <4>2
    <3> QED
      BY <1>1, <2>1, <3>1, <3>2, <3>3
  <2>11. WithCells(m, s) \in Kept(n) /\ WithCells(m, s).cells = s
    BY <2>3, WithCellsKept
  <2>12. IdsOf(m) \subseteq IdsOf(WithCells(m, s))
    <3> SUFFICES ASSUME NEW x \in IdsOf(m) PROVE x \in IdsOf(WithCells(m, s))
      OBVIOUS
    <3>1. PICK j \in 1..Len(m.cells) : x = m.cells[j].id
      BY <1>1 DEF IdsOf
    <3>2. PICK k \in 1..Len(m.cells) : s[k] = m.cells[j]
      BY <2>10
    <3>3. x = s[k].id /\ k \in DOMAIN s
      BY <2>8, <3>1, <3>2
    <3> QED
      BY <2>11, <3>3 DEF IdsOf
  <2> QED
    BY <2>2, <2>11, <2>12
<1> QED
  BY <1>2, <1>3

LEMMA WalksKeep ==
  ASSUME NEW n \in Nat \ {0}, NEW m \in Kept(n)
  PROVE  Undo(m) \in Kept(n) /\ Redo(m) \in Kept(n)
<1> DEFINE a == Len(m.undo)
           b == Len(m.redo)
<1>1. /\ Held(m, n) /\ m.undo \in Seq(Files(n)) /\ m.redo \in Seq(Files(n))
      /\ m.meta \in BOOLEAN /\ a + b <= History /\ a \in Nat /\ b \in Nat
  BY KeptIs, LenProperties DEF Kept, Loaded
<1>2. History \in Nat
  BY DocumentAssumption
<1>3. ToJSON(m) \in Files(n)
  BY <1>1, KeptIs, ToJSONIs
<1>4. /\ Len(Append(m.undo, ToJSON(m))) = a + 1
      /\ Len(Append(m.redo, ToJSON(m))) = b + 1
  BY <1>1, <1>3, AppendProperties
<1> HIDE DEF a, b
<1>5. Undo(m) \in Kept(n)
  <2>1. CASE m.undo = <<>>
    BY <2>1 DEF Undo
  <2>2. CASE m.undo # <<>>
    <3>1. Len(Front(m.undo)) = a - 1
      BY <1>1, <2>2, FrontLastIs DEF a
    <3>2. /\ Undo(m) \in Loaded(n)
          /\ Undo(m).undo = Front(m.undo) /\ Undo(m).redo = Append(m.redo, ToJSON(m))
      BY <1>1, <2>2, UndoIs DEF Walked
    <3>3. Len(Undo(m).undo) = a - 1 /\ Len(Undo(m).redo) = b + 1
      BY <1>4, <3>1, <3>2
    <3>4. Len(Undo(m).undo) + Len(Undo(m).redo) <= History
      BY <1>1, <1>2, <3>3
    <3> QED
      BY <3>2, <3>4 DEF Kept
  <2> QED
    BY <2>1, <2>2
<1>6. Redo(m) \in Kept(n)
  <2>1. CASE m.redo = <<>>
    BY <2>1 DEF Redo
  <2>2. CASE m.redo # <<>>
    <3>1. Len(Front(m.redo)) = b - 1
      BY <1>1, <2>2, FrontLastIs DEF b
    <3>2. /\ Redo(m) \in Loaded(n)
          /\ Redo(m).redo = Front(m.redo) /\ Redo(m).undo = Append(m.undo, ToJSON(m))
      BY <1>1, <2>2, RedoIs DEF Walked
    <3>3. Len(Redo(m).redo) = b - 1 /\ Len(Redo(m).undo) = a + 1
      BY <1>4, <3>1, <3>2
    <3>4. Len(Redo(m).undo) + Len(Redo(m).redo) <= History
      BY <1>1, <1>2, <3>3
    <3> QED
      BY <3>2, <3>4 DEF Kept
  <2> QED
    BY <2>1, <2>2
<1> QED
  BY <1>5, <1>6

\* The cells whose ids a model has.
There(m, n) == {c \in Cells(1..n - 1) : c.id \in IdsOf(m)}

\* findIndex gives a place, or none.
LEMMA AtWithin ==
  ASSUME NEW n \in Nat \ {0}, NEW m \in Kept(n), NEW id
  PROVE  At(m, id) \in 0..Len(m.cells)
<1>1. m.cells \in Lists(n) /\ Len(m.cells) \in Nat /\ DOMAIN m.cells = 1..Len(m.cells)
  BY KeptIs
<1>2. CASE HasCell(m, id)
  BY <1>1, <1>2, AtIs
<1>3. CASE ~HasCell(m, id)
  <2>1. At(m, id) = 0
    BY <1>3 DEF At, SelectInSeq, HasCell
  <2> QED
    BY <1>1, <2>1
<1> QED
  BY <1>2, <1>3

\* What is selected are cells of the notebook.
LEMMA SelectedIs ==
  ASSUME fresh \in Nat \ {0}, model \in Kept(fresh)
  PROVE  Selected \in Seq(There(model, fresh))
<1>0. PICK none : none = <<>>
  OBVIOUS
<1> DEFINE n == Len(model.cells)
           D(k, m) == IF model.cells[k].id \in SelectedIds
                      THEN Append(m, model.cells[k]) ELSE m
           M == [k \in 0..n |-> Seq(There(model, fresh))]
           F == [k \in 1..n |-> [m \in M[k - 1] |-> D(k, m)]]
           Is(f) == f = [k \in 0..n |-> IF k = 0 THEN none ELSE D(k, f[k - 1])]
           g == CHOOSE f : Is(f)
<1>1. /\ n \in Nat /\ DOMAIN model.cells = 1..n
      /\ \A i \in 1..n : model.cells[i] \in There(model, fresh)
  BY KeptIs DEF There, IdsOf
<1>2. Selected = g[n]
  BY <1>0 DEF Selected
<1> HIDE DEF n
<1>3. \A k \in 0..n : M[k] = Seq(There(model, fresh))
  OBVIOUS
<1>4. \A k \in 1..n : k - 1 \in 0..n /\ k \in 0..n /\ k # 0
  BY <1>1
<1>5. none \in M[0]
  BY <1>0, <1>1, <1>3
<1>6. \A k \in 1..n : \A m \in M[k - 1] : D(k, m) \in M[k]
  BY <1>1, <1>3, <1>4, AppendProperties
<1> HIDE DEF M, D
<1>7. \A k \in 1..n : \A m \in M[k - 1] : F[k][m] = D(k, m)
  BY <1>1
<1> HIDE DEF F
<1>8. PICK f : LoopOf(n, none, F, M, f)
  <2>1. Turns(n, none, F, M)
    BY <1>5, <1>6, <1>7 DEF Turns
  <2> QED
    BY <1>1, <2>1, LoopExists
<1>9. \A k \in 0..n : f[k] = IF k = 0 THEN none ELSE D(k, f[k - 1])
  <2>1. \A k \in 1..n : f[k - 1] \in M[k - 1]
    BY <1>4, <1>8 DEF LoopOf
  <2>2. \A k \in 0..n : k # 0 => k \in 1..n
    BY <1>1
  <2> QED
    BY <1>7, <1>8, <2>1, <2>2 DEF LoopOf
<1>10. Is(f)
  BY <1>8, <1>9 DEF LoopOf
<1>11. Is(g)
  BY <1>10
<1> HIDE DEF g
<1>12. g[0] = none /\ \A k \in 1..n : g[k] = D(k, g[k - 1])
  BY <1>1, <1>4, <1>11
<1>13. g[n] \in M[n]
  <2>1. \A k \in 1..n : g[k - 1] \in M[k - 1] => g[k] \in M[k]
    BY <1>6, <1>12
  <2> QED
    BY <1>1, <1>5, <1>12, <2>1, LoopKeeps
<1>14. n \in 0..n
  BY <1>1
<1> QED
  BY <1>2, <1>3, <1>13, <1>14

\* Deleting the selected cells leaves as many as there are others, at least.
LEMMA RemainingIs ==
  ASSUME fresh \in Nat \ {0}, model \in Kept(fresh)
  PROVE  /\ Remaining \in Kept(fresh)
         /\ Len(Remaining.cells) >= Len(model.cells) - Len(Selected)
<1> DEFINE n == Len(Selected)
           D(k, m) == DeleteCell(m, Selected[k].id)
           M == [k \in 0..n |-> {m \in Kept(fresh) : Len(m.cells) >= Len(model.cells) - k}]
           F == [k \in 1..n |-> [m \in M[k - 1] |-> D(k, m)]]
           Is(f) == f = [k \in 0..n |-> IF k = 0 THEN model ELSE D(k, f[k - 1])]
           g == CHOOSE f : Is(f)
<1>1. /\ n \in Nat
      /\ \A k \in 1..n : Selected[k] \in There(model, fresh)
  BY SelectedIs, LenProperties, ElementOfSeq
<1>2. Remaining = g[n]
  BY DEF Remaining
<1> HIDE DEF n
<1>3. \A k \in 0..n : M[k] = {m \in Kept(fresh) : Len(m.cells) >= Len(model.cells) - k}
  OBVIOUS
<1>4. \A k \in 1..n : k - 1 \in 0..n /\ k \in 0..n /\ k # 0
  BY <1>1
<1>5. model \in M[0]
  <2>1. Len(model.cells) \in Nat
    BY KeptIs
  <2> QED
    BY <1>1, <1>3, <2>1
<1>6. \A k \in 1..n : \A m \in M[k - 1] : D(k, m) \in M[k]
  <2> SUFFICES ASSUME NEW k \in 1..n, NEW m \in M[k - 1] PROVE D(k, m) \in M[k]
    OBVIOUS
  <2>1. m \in Kept(fresh) /\ Len(m.cells) >= Len(model.cells) - (k - 1)
    BY <1>3, <1>4
  <2> DEFINE e == D(k, m)
  <2>2. e \in Kept(fresh) /\ Len(e.cells) >= Len(m.cells) - 1
    BY <2>1, DeleteKept
  <2>3. Len(e.cells) \in Nat /\ Len(m.cells) \in Nat /\ Len(model.cells) \in Nat
    BY <2>1, <2>2, KeptIs
  <2> HIDE DEF e
  <2>4. Len(e.cells) >= Len(model.cells) - k
    BY <2>1, <2>2, <2>3
  <2>5. M[k] = {x \in Kept(fresh) : Len(x.cells) >= Len(model.cells) - k}
    BY <1>3, <1>4
  <2> QED
    BY <2>2, <2>4, <2>5 DEF e
<1> HIDE DEF M, D
<1>7. \A k \in 1..n : \A m \in M[k - 1] : F[k][m] = D(k, m)
  BY <1>1
<1> HIDE DEF F
<1>8. PICK f : LoopOf(n, model, F, M, f)
  <2>1. Turns(n, model, F, M)
    BY <1>5, <1>6, <1>7 DEF Turns
  <2> QED
    BY <1>1, <2>1, LoopExists
<1>9. \A k \in 0..n : f[k] = IF k = 0 THEN model ELSE D(k, f[k - 1])
  <2>1. \A k \in 1..n : f[k - 1] \in M[k - 1]
    BY <1>4, <1>8 DEF LoopOf
  <2>2. \A k \in 0..n : k # 0 => k \in 1..n
    BY <1>1
  <2> QED
    BY <1>7, <1>8, <2>1, <2>2 DEF LoopOf
<1>10. Is(f)
  BY <1>8, <1>9 DEF LoopOf
<1>11. Is(g)
  BY <1>10
<1> HIDE DEF g
<1>12. g[0] = model /\ \A k \in 1..n : g[k] = D(k, g[k - 1])
  BY <1>1, <1>4, <1>11
<1>13. g[n] \in M[n]
  <2>1. \A k \in 1..n : g[k - 1] \in M[k - 1] => g[k] \in M[k]
    BY <1>6, <1>12
  <2> QED
    BY <1>1, <1>5, <1>12, <2>1, LoopKeeps
<1>14. n \in 0..n
  BY <1>1
<1> QED
  BY <1>2, <1>3, <1>13, <1>14 DEF n

\* Pasting adds as many cells as the clipboard has, with the next ids.
LEMMA PastedIs ==
  ASSUME fresh \in Nat \ {0}, model \in Kept(fresh),
         clipboard \in Seq(Cells(1..fresh - 1)), PasteAfter \in 0..Len(model.cells)
  PROVE  /\ Pasted \in Kept(fresh + Len(clipboard))
         /\ Len(Pasted.cells) = Len(model.cells) + Len(clipboard)
<1> DEFINE n == Len(clipboard)
           D(k, m) == InsertCopy(m, PasteAfter + k, clipboard[k],
                                            fresh + k - 1)
           M == [k \in 0..n |-> {m \in Kept(fresh + k) : Len(m.cells) = Len(model.cells) + k}]
           F == [k \in 1..n |-> [m \in M[k - 1] |-> D(k, m)]]
           Is(f) == f = [k \in 0..n |-> IF k = 0 THEN model ELSE D(k, f[k - 1])]
           g == CHOOSE f : Is(f)
<1>1. n \in Nat /\ \A k \in 1..n : clipboard[k] \in Cells(1..fresh - 1)
  BY LenProperties, ElementOfSeq
<1>2. Pasted = g[n]
  BY DEF Pasted
<1> HIDE DEF n
<1>3. \A k \in 0..n : M[k] = {m \in Kept(fresh + k) : Len(m.cells) = Len(model.cells) + k}
  OBVIOUS
<1>4. \A k \in 1..n : k - 1 \in 0..n /\ k \in 0..n /\ k # 0
  BY <1>1
<1>5. model \in M[0]
  <2>1. Len(model.cells) \in Nat
    BY KeptIs
  <2>2. fresh + 0 = fresh /\ Len(model.cells) = Len(model.cells) + 0
    BY <2>1
  <2> QED
    BY <1>1, <1>3, <2>1, <2>2
<1>6. \A k \in 1..n : \A m \in M[k - 1] : D(k, m) \in M[k]
  <2> SUFFICES ASSUME NEW k \in 1..n, NEW m \in M[k - 1] PROVE D(k, m) \in M[k]
    OBVIOUS
  <2> DEFINE b == fresh + (k - 1)
             i == PasteAfter + k
             c == [clipboard[k] EXCEPT !.id = b]
             e == D(k, m)
  <2>1. m \in Kept(b) /\ Len(m.cells) = Len(model.cells) + (k - 1)
    BY <1>3, <1>4
  <2>2. Len(model.cells) \in Nat
    BY KeptIs
  <2>3. /\ b \in Nat \ {0} /\ b + 1 = fresh + k /\ b = fresh + k - 1 /\ b \in 1..b
        /\ i \in 1..Len(m.cells) + 1 /\ 1..fresh - 1 \subseteq 1..b
    BY <1>1, <2>1, <2>2
  <2>4. c \in Cells(1..b) /\ c.id = b
    BY <1>1, <2>3 DEF Cells
  <2>5. e = InsertCell(m, i, c)
    <3>1. e = InsertCopy(m, i, clipboard[k], b)
      BY <2>3
    <3> QED
      BY <3>1 DEF InsertCopy
  <2> HIDE DEF b, i, c, e
  <2>6. e \in Kept(b + 1) /\ Len(e.cells) = Len(m.cells) + 1
    <3>1. /\ b \in Nat \ {0} /\ m \in Kept(b) /\ i \in 1..Len(m.cells) + 1
          /\ c \in Cells(1..b) /\ c.id = b
      BY <2>1, <2>3, <2>4
    <3>2. /\ InsertCell(m, i, c) \in Kept(b + 1)
          /\ Len(InsertCell(m, i, c).cells) = Len(m.cells) + 1
          /\ InsertCell(m, i, c).cells[i] = c
      BY ONLY <3>1, InsertKept
    <3> QED
      BY <2>5, <3>2
  <2>7. e \in Kept(fresh + k) /\ Len(e.cells) = Len(model.cells) + k
    BY <2>1, <2>2, <2>3, <2>6
  <2>8. M[k] = {x \in Kept(fresh + k) : Len(x.cells) = Len(model.cells) + k}
    BY <1>3, <1>4
  <2> QED
    BY <2>7, <2>8 DEF e
<1> HIDE DEF M, D
<1>7. \A k \in 1..n : \A m \in M[k - 1] : F[k][m] = D(k, m)
  BY <1>1
<1> HIDE DEF F
<1>8. PICK f : LoopOf(n, model, F, M, f)
  <2>1. Turns(n, model, F, M)
    BY <1>5, <1>6, <1>7 DEF Turns
  <2> QED
    BY <1>1, <2>1, LoopExists
<1>9. \A k \in 0..n : f[k] = IF k = 0 THEN model ELSE D(k, f[k - 1])
  <2>1. \A k \in 1..n : f[k - 1] \in M[k - 1]
    BY <1>4, <1>8 DEF LoopOf
  <2>2. \A k \in 0..n : k # 0 => k \in 1..n
    BY <1>1
  <2> QED
    BY <1>7, <1>8, <2>1, <2>2 DEF LoopOf
<1>10. Is(f)
  BY <1>8, <1>9 DEF LoopOf
<1>11. Is(g)
  BY <1>10
<1> HIDE DEF g
<1>12. g[0] = model /\ \A k \in 1..n : g[k] = D(k, g[k - 1])
  BY <1>1, <1>4, <1>11
<1>13. g[n] \in M[n]
  <2>1. \A k \in 1..n : g[k - 1] \in M[k - 1] => g[k] \in M[k]
    BY <1>6, <1>12
  <2> QED
    BY <1>1, <1>5, <1>12, <2>1, LoopKeeps
<1>14. n \in 0..n
  BY <1>1
<1> QED
  BY <1>2, <1>3, <1>13, <1>14 DEF n

\* A change of type keeps the cells' ids.
LEMMA RetypedIs ==
  ASSUME fresh \in Nat \ {0}, model \in Kept(fresh), NEW kind \in Kinds
  PROVE  /\ Retyped(kind) \in Kept(fresh)
         /\ IdsOf(Retyped(kind)) = IdsOf(model)
<1> DEFINE n == Len(Selected)
           D(k, m) == ChangeCellType(m, Selected[k].id, kind)
           M == [k \in 0..n |-> {m \in Kept(fresh) : IdsOf(m) = IdsOf(model)}]
           F == [k \in 1..n |-> [m \in M[k - 1] |-> D(k, m)]]
           Is(f) == f = [k \in 0..n |-> IF k = 0 THEN model ELSE D(k, f[k - 1])]
           g == CHOOSE f : Is(f)
<1>1. /\ n \in Nat
      /\ \A k \in 1..n : Selected[k] \in There(model, fresh)
  BY SelectedIs, LenProperties, ElementOfSeq
<1>2. Retyped(kind) = g[n]
  BY DEF Retyped
<1> HIDE DEF n
<1>3. \A k \in 0..n : M[k] = {m \in Kept(fresh) : IdsOf(m) = IdsOf(model)}
  OBVIOUS
<1>4. \A k \in 1..n : k - 1 \in 0..n /\ k \in 0..n /\ k # 0
  BY <1>1
<1>5. model \in M[0]
  BY <1>1, <1>3
<1>6. \A k \in 1..n : \A m \in M[k - 1] : D(k, m) \in M[k]
  <2> SUFFICES ASSUME NEW k \in 1..n, NEW m \in M[k - 1] PROVE D(k, m) \in M[k]
    OBVIOUS
  <2> DEFINE id == Selected[k].id
             e == D(k, m)
  <2>1. m \in Kept(fresh) /\ IdsOf(m) = IdsOf(model)
    BY <1>3, <1>4
  <2>2. id \in IdsOf(m)
    BY <1>1, <2>1 DEF There
  <2>3. e \in Kept(fresh) /\ IdsOf(e) = IdsOf(m)
    BY <2>1, <2>2, CellEditsKeep DEF Retains
  <2>4. M[k] = {x \in Kept(fresh) : IdsOf(x) = IdsOf(model)}
    BY <1>3, <1>4
  <2> HIDE DEF e
  <2> QED
    BY <2>1, <2>3, <2>4 DEF e
<1> HIDE DEF M, D
<1>7. \A k \in 1..n : \A m \in M[k - 1] : F[k][m] = D(k, m)
  BY <1>1
<1> HIDE DEF F
<1>8. PICK f : LoopOf(n, model, F, M, f)
  <2>1. Turns(n, model, F, M)
    BY <1>5, <1>6, <1>7 DEF Turns
  <2> QED
    BY <1>1, <2>1, LoopExists
<1>9. \A k \in 0..n : f[k] = IF k = 0 THEN model ELSE D(k, f[k - 1])
  <2>1. \A k \in 1..n : f[k - 1] \in M[k - 1]
    BY <1>4, <1>8 DEF LoopOf
  <2>2. \A k \in 0..n : k # 0 => k \in 1..n
    BY <1>1
  <2> QED
    BY <1>7, <1>8, <2>1, <2>2 DEF LoopOf
<1>10. Is(f)
  BY <1>8, <1>9 DEF LoopOf
<1>11. Is(g)
  BY <1>10
<1> HIDE DEF g
<1>12. g[0] = model /\ \A k \in 1..n : g[k] = D(k, g[k - 1])
  BY <1>1, <1>4, <1>11
<1>13. g[n] \in M[n]
  <2>1. \A k \in 1..n : g[k - 1] \in M[k - 1] => g[k] \in M[k]
    BY <1>6, <1>12
  <2> QED
    BY <1>1, <1>5, <1>12, <2>1, LoopKeeps
<1>14. n \in 0..n
  BY <1>1
<1> QED
  BY <1>2, <1>3, <1>13, <1>14

\* Making headings keeps the cells' ids.
LEMMA HeadedIs ==
  ASSUME fresh \in Nat \ {0}, model \in Kept(fresh), 1 \in Sources
  PROVE  /\ Headed \in Kept(fresh)
         /\ IdsOf(Headed) = IdsOf(model)
<1> DEFINE n == Len(Selected)
           D(k, m) == UpdateSource(
                        ChangeCellType(m, Selected[k].id, "markdown"),
                        Selected[k].id, 1)
           M == [k \in 0..n |-> {m \in Kept(fresh) : IdsOf(m) = IdsOf(model)}]
           F == [k \in 1..n |-> [m \in M[k - 1] |-> D(k, m)]]
           Is(f) == f = [k \in 0..n |-> IF k = 0 THEN model ELSE D(k, f[k - 1])]
           g == CHOOSE f : Is(f)
<1>1. /\ n \in Nat
      /\ \A k \in 1..n : Selected[k] \in There(model, fresh)
  BY SelectedIs, LenProperties, ElementOfSeq
<1>2. Headed = g[n]
  BY DEF Headed
<1> HIDE DEF n
<1>3. \A k \in 0..n : M[k] = {m \in Kept(fresh) : IdsOf(m) = IdsOf(model)}
  OBVIOUS
<1>4. \A k \in 1..n : k - 1 \in 0..n /\ k \in 0..n /\ k # 0
  BY <1>1
<1>5. model \in M[0]
  BY <1>1, <1>3
<1>6. \A k \in 1..n : \A m \in M[k - 1] : D(k, m) \in M[k]
  <2> SUFFICES ASSUME NEW k \in 1..n, NEW m \in M[k - 1] PROVE D(k, m) \in M[k]
    OBVIOUS
  <2> DEFINE id == Selected[k].id
             e == D(k, m)
  <2>1. m \in Kept(fresh) /\ IdsOf(m) = IdsOf(model)
    BY <1>3, <1>4
  <2>2. id \in IdsOf(m)
    BY <1>1, <2>1 DEF There
  <2>3. e \in Kept(fresh) /\ IdsOf(e) = IdsOf(m)
    <3> DEFINE t == ChangeCellType(m, id, "markdown")
    <3>1. t \in Kept(fresh) /\ IdsOf(t) = IdsOf(m)
      BY <2>1, <2>2, CellEditsKeep DEF Kinds, Retains
    <3>2. e = UpdateSource(t, id, 1)
      OBVIOUS
    <3> HIDE DEF t, e
    <3> QED
      BY <2>2, <3>1, <3>2, CellEditsKeep DEF Retains
  <2>4. M[k] = {x \in Kept(fresh) : IdsOf(x) = IdsOf(model)}
    BY <1>3, <1>4
  <2> HIDE DEF e
  <2> QED
    BY <2>1, <2>3, <2>4 DEF e
<1> HIDE DEF M, D
<1>7. \A k \in 1..n : \A m \in M[k - 1] : F[k][m] = D(k, m)
  BY <1>1
<1> HIDE DEF F
<1>8. PICK f : LoopOf(n, model, F, M, f)
  <2>1. Turns(n, model, F, M)
    BY <1>5, <1>6, <1>7 DEF Turns
  <2> QED
    BY <1>1, <2>1, LoopExists
<1>9. \A k \in 0..n : f[k] = IF k = 0 THEN model ELSE D(k, f[k - 1])
  <2>1. \A k \in 1..n : f[k - 1] \in M[k - 1]
    BY <1>4, <1>8 DEF LoopOf
  <2>2. \A k \in 0..n : k # 0 => k \in 1..n
    BY <1>1
  <2> QED
    BY <1>7, <1>8, <2>1, <2>2 DEF LoopOf
<1>10. Is(f)
  BY <1>8, <1>9 DEF LoopOf
<1>11. Is(g)
  BY <1>10
<1> HIDE DEF g
<1>12. g[0] = model /\ \A k \in 1..n : g[k] = D(k, g[k - 1])
  BY <1>1, <1>4, <1>11
<1>13. g[n] \in M[n]
  <2>1. \A k \in 1..n : g[k - 1] \in M[k - 1] => g[k] \in M[k]
    BY <1>6, <1>12
  <2> QED
    BY <1>1, <1>5, <1>12, <2>1, LoopKeeps
<1>14. n \in 0..n
  BY <1>1
<1> QED
  BY <1>2, <1>3, <1>13, <1>14

-----------------------------------------------------------------------------
(* What every step of the controller keeps. *)
DocInv == fresh \in Nat \ {0} /\ model \in Kept(fresh)
WhereInv == /\ active \in 0..fresh - 1 /\ anchor \in 0..fresh - 1 /\ chosen \subseteq 1..fresh - 1
            /\ shown.active \in 0..fresh - 1 /\ shown.chosen \subseteq 1..fresh - 1
ModeInv == mode \in {"command", "edit"}
ClipInv == clipboard \in Seq(Cells(1..fresh - 1))
RunInv == /\ runs \subseteq [n: 1..MaxRuns, cell: 1..fresh - 1, all: BOOLEAN]
          /\ started \in 0..MaxRuns /\ running \in 0..fresh - 1 /\ queue \in Seq(1..fresh - 1)
StateInv == DocInv /\ WhereInv /\ ModeInv /\ ClipInv /\ RunInv

\* Some ids were given, as many as there may be cells at most.
Room == fresh' \in Nat \ {0} /\ fresh <= fresh' /\ fresh' <= fresh + MaxCells
\* A step that leaves the active cell, or another in its place.
Served == StateInv' /\ Room /\ (active \in IdsOf(model) => active' \in IdsOf(model'))

LEMMA HasIs == \A m, id : HasCell(m, id) <=> id \in IdsOf(m)
BY DEF HasCell, IdsOf

LEMMA Here ==
  ASSUME DocInv
  PROVE  /\ model.cells \in Lists(fresh) /\ DOMAIN model.cells = 1..Len(model.cells)
         /\ Len(model.cells) \in Nat /\ IdsOf(model) \subseteq 1..fresh - 1
         /\ fresh - 1 \in Nat /\ 0 \in 0..fresh - 1 /\ 1..fresh - 1 \subseteq 0..fresh - 1
<1>1. model.cells \in Lists(fresh) /\ DOMAIN model.cells = 1..Len(model.cells)
      /\ Len(model.cells) \in Nat
  BY KeptIs DEF DocInv
<1>2. IdsOf(model) \subseteq 1..fresh - 1
  BY <1>1, AtIs
<1> QED
  BY <1>1, <1>2 DEF DocInv

\* An id at a place of a model.
LEMMA IdAtIs ==
  ASSUME NEW n \in Nat \ {0}, NEW m \in Kept(n), NEW i
  PROVE  /\ IdAt(m, i) \in 0..n - 1
         /\ i \in 1..Len(m.cells) => IdAt(m, i) \in IdsOf(m)
<1>1. /\ DOMAIN m.cells = 1..Len(m.cells)
      /\ \A j \in 1..Len(m.cells) : m.cells[j] \in Cells(1..n - 1)
  BY KeptIs
<1>2. \A j \in 1..Len(m.cells) : m.cells[j].id \in 0..n - 1
  BY <1>1 DEF Cells
<1>3. 0 \in 0..n - 1
  OBVIOUS
<1> QED
  BY <1>1, <1>2, <1>3 DEF IdAt, None, IdsOf

LEMMA EditIs ==
  ASSUME DocInv, NEW m, NEW new \in Nat,
         EditTo(m, new), m \in Kept(fresh + new), new <= Len(m.cells)
  PROVE  model' = m /\ fresh' = fresh + new /\ DocInv' /\ Room
<1>1. model' = m /\ fresh' = fresh + new /\ Len(m.cells) <= MaxCells /\ MaxCells \in Nat
  BY ControllerAssumption DEF EditTo
<1>2. fresh \in Nat \ {0} /\ fresh + new \in Nat \ {0}
  BY DEF DocInv
<1>3. Len(m.cells) \in Nat
  BY <1>2, KeptIs
<1>4. DocInv'
  BY <1>1, <1>2 DEF DocInv
<1>5. Room
  BY <1>1, <1>2, <1>3 DEF Room
<1> QED
  BY <1>1, <1>4, <1>5

LEMMA EditKeeps ==
  ASSUME DocInv, NEW m, EditTo(m, 0), m \in Kept(fresh)
  PROVE  model' = m /\ fresh' = fresh /\ DocInv' /\ Room
<1>1. fresh \in Nat \ {0} /\ fresh + 0 = fresh
  BY DEF DocInv
<1>2. m \in Kept(fresh + 0) /\ 0 <= Len(m.cells)
  BY <1>1, KeptIs
<1> QED
  BY <1>1, <1>2, EditIs

LEMMA DocStays ==
  ASSUME DocInv, UNCHANGED document
  PROVE  DocInv' /\ Room /\ model' = model /\ fresh' = fresh
BY ControllerAssumption DEF DocInv, Room, document

LEMMA More ==
  ASSUME DocInv, Room
  PROVE  0..fresh - 1 \subseteq 0..fresh' - 1 /\ 1..fresh - 1 \subseteq 1..fresh' - 1
<1>1. \A a, b \in Nat \ {0} : a <= b => 0..a - 1 \subseteq 0..b - 1 /\ 1..a - 1 \subseteq 1..b - 1
  OBVIOUS
<1> QED
  BY <1>1 DEF DocInv, Room

LEMMA WhereStays ==
  ASSUME DocInv, Room, WhereInv, UNCHANGED <<active, chosen, anchor, shown>>
  PROVE  WhereInv'
BY More DEF WhereInv

LEMMA ClipStays ==
  ASSUME DocInv, Room, ClipInv, UNCHANGED clipboard
  PROVE  ClipInv'
<1>1. Cells(1..fresh - 1) \subseteq Cells(1..fresh' - 1)
  BY More DEF Cells
<1> QED
  BY <1>1, SeqMonotonic DEF ClipInv

LEMMA RunStays ==
  ASSUME DocInv, Room, RunInv, UNCHANGED execution
  PROVE  RunInv'
<1>1. Seq(1..fresh - 1) \subseteq Seq(1..fresh' - 1)
  BY More, SeqMonotonic
<1>2. [n: 1..MaxRuns, cell: 1..fresh - 1, all: BOOLEAN]
      \subseteq [n: 1..MaxRuns, cell: 1..fresh' - 1, all: BOOLEAN]
  BY More
<1> QED
  BY <1>1, <1>2, More DEF RunInv, execution

\* select().
LEMMA SelectIs ==
  ASSUME DocInv, Room, WhereInv, NEW id \in 0..fresh' - 1, Select(id)
  PROVE  WhereInv' /\ active' = id
BY More DEF WhereInv, Select, Show

\* What the steps have in common: the model and the selection after one.
Ready == /\ DocInv' /\ Room /\ WhereInv'
         /\ active \in IdsOf(model) => active' \in IdsOf(model')

\* A step that leaves the clipboard and the executions alone.
LEMMA ServedAlone ==
  ASSUME StateInv, Ready, ModeInv', UNCHANGED <<clipboard, execution>>
  PROVE  Served
BY ClipStays, RunStays DEF StateInv, Ready, Served

\* An edit after which the selection is what it was: the ids stay, or there are more.
LEMMA InPlace ==
  ASSUME StateInv, NEW m, EditTo(m, 0), m \in Kept(fresh),
         IdsOf(model) \subseteq IdsOf(m), UNCHANGED <<active, chosen, anchor, shown>>
  PROVE  Ready
<1>1. model' = m /\ DocInv' /\ Room
  BY EditKeeps DEF StateInv
<1>2. WhereInv' /\ active' = active
  BY <1>1, WhereStays DEF StateInv
<1> QED
  BY <1>1, <1>2 DEF Ready

\* An edit after which a cell that is there is selected.
LEMMA Reselected ==
  ASSUME StateInv, NEW m, NEW new \in Nat,
         EditTo(m, new), m \in Kept(fresh + new), new <= Len(m.cells),
         NEW id \in IdsOf(m), Select(id)
  PROVE  Ready
<1>1. model' = m /\ fresh' = fresh + new /\ DocInv' /\ Room
  BY EditIs DEF StateInv
<1>2. id \in 0..fresh' - 1
  <2>1. fresh' \in Nat \ {0} /\ m.cells \in Lists(fresh')
    BY <1>1, KeptIs DEF Room
  <2>2. id \in 1..fresh' - 1
    BY <2>1, AtIs
  <2>3. \A a \in Nat \ {0} : 1..a - 1 \subseteq 0..a - 1
    OBVIOUS
  <2> QED
    BY <2>1, <2>2, <2>3
<1>3. WhereInv' /\ active' = id
  BY <1>1, <1>2, SelectIs DEF StateInv
<1> QED
  BY <1>1, <1>3 DEF Ready

\* The place that insert() finds.
LEMMA PlaceIs ==
  ASSUME NEW n \in Nat \ {0}, NEW m \in Kept(n), NEW i \in 0..Len(m.cells)
  PROVE  /\ i + 1 \in 1..Len(m.cells) + 1
         /\ (IF i = 0 THEN 1 ELSE i) \in 1..Len(m.cells) + 1
BY KeptIs

\* A cell under the next id.
LEMMA InsertedIs ==
  ASSUME DocInv, NEW m \in Kept(fresh), NEW i \in 1..Len(m.cells) + 1,
         NEW c \in Cells(1..fresh), c.id = fresh
  PROVE  LET e == InsertCell(m, i, c)
         IN e \in Kept(fresh + 1) /\ fresh \in IdsOf(e) /\ 1 <= Len(e.cells)
<1> DEFINE e == InsertCell(m, i, c)
<1>1. fresh \in Nat \ {0}
  BY DEF DocInv
<1>3. e \in Kept(fresh + 1) /\ Len(e.cells) = Len(m.cells) + 1 /\ e.cells[i] = c
  BY <1>1, InsertKept
<1> HIDE DEF e
<1>4. Len(m.cells) \in Nat /\ fresh + 1 \in Nat \ {0}
  BY <1>1, KeptIs
<1>5. DOMAIN e.cells = 1..Len(e.cells)
  BY <1>3, <1>4, KeptIs
<1>6. i \in DOMAIN e.cells /\ 1 <= Len(e.cells)
  BY <1>3, <1>4, <1>5
<1>7. fresh \in IdsOf(e)
  BY <1>3, <1>6 DEF IdsOf
<1> QED
  BY <1>3, <1>6, <1>7 DEF e

\* insert(): a new cell before or after another one.
LEMMA NewIs ==
  ASSUME DocInv, NEW m \in Kept(fresh), Len(m.cells) = Len(model.cells), NEW kind \in Kinds,
         NEW below, NEW before \in BOOLEAN
  PROVE  LET e == Inserted(m, kind, below, before)
         IN e \in Kept(fresh + 1) /\ fresh \in IdsOf(e) /\ 1 <= Len(e.cells)
<1> DEFINE c == NewCell(fresh, kind, 0)
           i == Place(below, before)
<1>1. fresh \in Nat \ {0} /\ fresh \in 1..fresh /\ model \in Kept(fresh)
  BY DEF DocInv
<1>2. i \in 1..Len(m.cells) + 1
  <2>1. At(model, below) \in 0..Len(m.cells)
    BY <1>1, AtWithin
  <2> DEFINE j == At(model, below)
  <2>2. j + 1 \in 1..Len(m.cells) + 1 /\ (IF j = 0 THEN 1 ELSE j) \in 1..Len(m.cells) + 1
    BY <1>1, <2>1, PlaceIs
  <2> QED
    BY <2>1, <2>2 DEF Place
<1>3. NewCell(fresh, kind, 0) = c
  BY DEF NewCell, Absent
<1>4. c \in Cells(1..fresh) /\ c.id = fresh
  BY <1>1, NewCellIs, DocumentAssumption
<1> HIDE DEF c, i
<1> DEFINE e == InsertCell(m, i, c)
<1>5. e \in Kept(fresh + 1) /\ fresh \in IdsOf(e) /\ 1 <= Len(e.cells)
  BY <1>2, <1>4, InsertedIs
<1>6. Inserted(m, kind, below, before) = e
  BY <1>3 DEF Inserted, i
<1> HIDE DEF e
<1> QED
  BY <1>5, <1>6

LEMMA InsertServed ==
  ASSUME StateInv,
         NEW kind \in Kinds, NEW below, NEW before \in BOOLEAN,
         InsertNew(kind, below, before)
  PROVE  Served
<1> DEFINE m == Inserted(model, kind, below, before)
<1>1. /\ EditTo(m, 1) /\ Select(fresh)
      /\ UNCHANGED <<mode, clipboard, execution>>
  BY DEF InsertNew
<1>2. m \in Kept(fresh + 1) /\ fresh \in IdsOf(m) /\ 1 <= Len(m.cells)
  BY NewIs DEF StateInv, DocInv
<1> HIDE DEF m
<1>3. Ready
  BY <1>1, <1>2, Reselected
<1> QED
  BY <1>1, <1>3, ServedAlone DEF StateInv, ModeInv

LEMMA DuplicateServed ==
  ASSUME StateInv, NEW id \in IdsOf(model), DuplicateCell(id)
  PROVE  Served
<1> DEFINE i == At(model, id) + 1
           c == [CellOf(model, id) EXCEPT !.id = fresh]
           m == InsertCell(model, i, c)
<1>1. fresh \in Nat \ {0} /\ model \in Kept(fresh) /\ model.cells \in Lists(fresh)
      /\ Len(model.cells) \in Nat
  BY Here DEF StateInv, DocInv
<1>2. At(model, id) \in 1..Len(model.cells) /\ CellOf(model, id) \in Cells(1..fresh - 1)
  BY <1>1, AtIs
<1>3. i \in 1..Len(model.cells) + 1 /\ 1..fresh - 1 \subseteq 1..fresh /\ fresh \in 1..fresh
  BY <1>1, <1>2
<1>4. c \in Cells(1..fresh) /\ c.id = fresh
  BY <1>2, <1>3 DEF Cells
<1>5. /\ EditTo(m, 1) /\ Select(fresh)
      /\ UNCHANGED <<mode, clipboard, execution>>
  BY DEF DuplicateCell, InsertCopy
<1> HIDE DEF c, i
<1>6. m \in Kept(fresh + 1) /\ fresh \in IdsOf(m) /\ 1 <= Len(m.cells)
  BY <1>1, <1>3, <1>4, InsertedIs DEF StateInv
<1> HIDE DEF m
<1>7. Ready
  BY <1>5, <1>6, Reselected
<1> QED
  BY <1>5, <1>7, ServedAlone DEF StateInv, ModeInv

\* A cell is moved, typed into, its outputs are cleared.
LEMMA CellToolServed ==
  ASSUME StateInv, NEW id \in IdsOf(model),
         \/ \E delta \in {-1, 1} : MoveOne(id, delta)
         \/ ClearOutputs(id)
         \/ \E src \in Sources : TypeIn(id, src)
  PROVE  Served
<1>1. fresh \in Nat \ {0} /\ model \in Kept(fresh)
  BY DEF StateInv, DocInv
<1>2. PICK m \in Kept(fresh) :
        /\ EditTo(m, 0) /\ IdsOf(model) \subseteq IdsOf(m)
        /\ UNCHANGED <<selection, clipboard, execution>>
  <2>1. ASSUME NEW delta, MoveOne(id, delta)
        PROVE  \E to : EditTo(MoveCell(model, id, to), 0)
                       /\ UNCHANGED <<selection, clipboard, execution>>
    BY <2>1 DEF MoveOne
  <2>2. CASE \E delta \in {-1, 1} : MoveOne(id, delta)
    BY <1>1, <2>1, <2>2, MoveKept
  <2>3. CASE ClearOutputs(id)
    <3>1. Retains(model, UpdateOutputs(model, id, 0), fresh)
      BY <1>1, CellEditsKeep, DocumentAssumption
    <3> QED
      BY <2>3, <3>1 DEF ClearOutputs, Retains
  <2>4. ASSUME NEW src \in Sources, TypeIn(id, src)
        PROVE  \E m \in Kept(fresh) :
                 /\ EditTo(m, 0) /\ IdsOf(model) \subseteq IdsOf(m)
                 /\ UNCHANGED <<selection, clipboard, execution>>
    <3>1. Retains(model, UpdateSource(model, id, src), fresh)
      BY <1>1, CellEditsKeep
    <3> QED
      BY <2>4, <3>1 DEF TypeIn, Retains
  <2> QED
    BY <2>2, <2>3, <2>4
<1>3. Ready
  BY <1>2, InPlace DEF selection
<1> QED
  BY <1>2, <1>3, ServedAlone DEF StateInv, ModeInv, selection

\* The cell at the place of a deleted one, or the last.
LEMMA AroundIs ==
  ASSUME StateInv, NEW m \in Kept(fresh), EditTo(m, 0),
         Len(m.cells) >= 1, NEW i \in Nat \ {0}, SelectAround(m, i)
  PROVE  Ready
<1> DEFINE j == IF i > Len(m.cells) THEN Len(m.cells) ELSE i
           id == IdAt(m, j)
<1>1. fresh \in Nat \ {0} /\ Len(m.cells) \in Nat
  BY KeptIs DEF StateInv, DocInv
<1>2. j \in 1..Len(m.cells)
  BY <1>1
<1>3. Select(id)
  BY DEF SelectAround
<1> HIDE DEF j
<1>4. id \in IdsOf(m)
  BY <1>1, <1>2, IdAtIs
<1>5. m \in Kept(fresh + 0) /\ 0 <= Len(m.cells)
  BY <1>1
<1> HIDE DEF id
<1> QED
  BY <1>3, <1>4, <1>5, Reselected

LEMMA DeletedIs ==
  ASSUME StateInv, NEW id \in IdsOf(model), Deleted(id)
  PROVE  Ready
<1> DEFINE m == DeleteCell(model, id)
<1>1. fresh \in Nat \ {0} /\ model \in Kept(fresh) /\ model.cells \in Lists(fresh)
      /\ Len(model.cells) \in Nat
  BY Here DEF StateInv, DocInv
<1>2. At(model, id) \in 1..Len(model.cells)
  BY <1>1, AtIs
<1>3. m \in Kept(fresh) /\ Len(m.cells) >= Len(model.cells) - 1
  BY <1>1, DeleteKept
<1>4. /\ Len(model.cells) > 1 /\ EditTo(m, 0)
      /\ SelectAround(m, At(model, id))
  BY DEF Deleted, Removed
<1> HIDE DEF m
<1>5. Len(m.cells) \in Nat
  BY <1>1, <1>3, KeptIs
<1>6. Len(m.cells) >= 1 /\ At(model, id) \in Nat \ {0}
  BY <1>1, <1>2, <1>3, <1>4, <1>5
<1> QED
  BY <1>3, <1>4, <1>6, AroundIs

LEMMA DeletedSelectedIs ==
  ASSUME StateInv, DeletedSelected
  PROVE  Ready
<1> DEFINE m == Remaining
           few == Selected
           i == At(model, few[1].id)
<1>1. fresh \in Nat \ {0} /\ model \in Kept(fresh) /\ model.cells \in Lists(fresh)
      /\ Len(model.cells) \in Nat
  BY Here DEF StateInv, DocInv
<1>2. /\ few # <<>> /\ Len(few) < Len(model.cells) /\ EditTo(m, 0)
      /\ SelectAround(m, i)
  BY DEF DeletedSelected
<1>3. few \in Seq(There(model, fresh))
  BY <1>1, SelectedIs
<1>4. m \in Kept(fresh) /\ Len(m.cells) >= Len(model.cells) - Len(few)
  BY <1>1, RemainingIs
<1> HIDE DEF m, few
<1>5. few[1] \in There(model, fresh) /\ Len(few) \in Nat
  BY <1>2, <1>3, LenProperties, ElementOfSeq, EmptySeq
<1>6. i \in 1..Len(model.cells)
  BY <1>1, <1>5, AtIs DEF There
<1> HIDE DEF i
<1>7. Len(m.cells) \in Nat
  BY <1>1, <1>4, KeptIs
<1>8. Len(m.cells) >= 1 /\ i \in Nat \ {0}
  BY <1>1, <1>2, <1>4, <1>5, <1>6, <1>7
<1> QED
  BY <1>2, <1>4, <1>8, AroundIs

\* What is copied are cells of the notebook.
LEMMA CopiedIs ==
  ASSUME StateInv, Room, NEW few \in Seq(There(model, fresh)), clipboard' = few
  PROVE  ClipInv'
<1>1. There(model, fresh) \subseteq Cells(1..fresh' - 1)
  BY More DEF StateInv, There, Cells
<1> QED
  BY <1>1, SeqMonotonic DEF ClipInv

\* Nothing is edited or selected.
LEMMA Untouched ==
  ASSUME StateInv, UNCHANGED <<document, active, chosen, anchor, shown>>
  PROVE  Ready
<1>1. DocInv' /\ Room /\ model' = model
  BY DocStays DEF StateInv
<1>2. WhereInv' /\ active' = active
  BY <1>1, WhereStays DEF StateInv
<1> QED
  BY <1>1, <1>2 DEF Ready

\* The selection is copied, or cut.
LEMMA SelectionServed ==
  ASSUME StateInv, DeleteSelected \/ Copy \/ CutSelected
  PROVE  Served
<1>1. Selected \in Seq(There(model, fresh))
  BY SelectedIs DEF StateInv, DocInv
<1>3. CASE DeleteSelected
  <2>1. Ready
    BY <1>3, DeletedSelectedIs DEF DeleteSelected
  <2> QED
    BY <1>3, <2>1, ServedAlone DEF DeleteSelected, StateInv, ModeInv
<1>4. CASE Copy \/ CutSelected
  <2>1. /\ clipboard' = Selected /\ UNCHANGED <<mode, execution>>
        /\ \/ DeletedSelected
           \/ UNCHANGED <<document, active, chosen, anchor, shown>>
    BY <1>4 DEF Copy, CutSelected, selection
  <2>2. Ready
    BY <2>1, Untouched, DeletedSelectedIs
  <2>3. ClipInv'
    BY <1>1, <2>1, <2>2, CopiedIs DEF Ready
  <2>4. RunInv'
    BY <2>1, <2>2, RunStays DEF StateInv, Ready
  <2> QED
    BY <2>1, <2>2, <2>3, <2>4 DEF Ready, Served, StateInv, ModeInv
<1> QED
  BY <1>3, <1>4

LEMMA DeleteServed ==
  ASSUME StateInv, NEW id \in IdsOf(model), DeleteOne(id) \/ Cut(id)
  PROVE  Served
<1>1. fresh \in Nat \ {0} /\ model \in Kept(fresh) /\ model.cells \in Lists(fresh)
  BY Here DEF StateInv, DocInv
<1>2. CASE DeleteOne(id)
  <2>1. Ready
    BY <1>2, DeletedIs DEF DeleteOne
  <2> QED
    BY <1>2, <2>1, ServedAlone DEF DeleteOne, StateInv, ModeInv
<1>3. CASE Cut(id)
  <2>1. /\ clipboard' = <<CellOf(model, id)>> /\ UNCHANGED <<mode, execution>>
        /\ \/ Deleted(id)
           \/ UNCHANGED <<document, active, chosen, anchor, shown>>
    BY <1>3 DEF Cut
  <2>3. Ready
    <3>1. CASE Deleted(id)
      BY <3>1, DeletedIs
    <3>2. CASE UNCHANGED <<document, active, chosen, anchor, shown>>
      BY <3>2, Untouched
    <3> QED
      BY <2>1, <3>1, <3>2
  <2>4. CellOf(model, id) \in There(model, fresh)
    BY <1>1, AtIs DEF There
  <2>5. <<CellOf(model, id)>> \in Seq(There(model, fresh))
    BY <2>4
  <2>6. ClipInv'
    BY <2>1, <2>3, <2>5, CopiedIs DEF Ready
  <2>7. RunInv'
    BY <2>1, <2>3, RunStays DEF StateInv, Ready
  <2> QED
    BY <2>1, <2>3, <2>6, <2>7 DEF Ready, Served, StateInv, ModeInv
<1> QED
  BY <1>2, <1>3

LEMMA PasteServed ==
  ASSUME StateInv, Paste
  PROVE  Served
<1> DEFINE m == Pasted
           new == Len(clipboard)
           at == PasteAfter
           id == IdAt(m, at + new)
<1>1. fresh \in Nat \ {0} /\ model \in Kept(fresh) /\ Len(model.cells) \in Nat
  BY Here DEF StateInv, DocInv
<1>2. clipboard \in Seq(Cells(1..fresh - 1)) /\ clipboard # <<>>
  BY DEF StateInv, ClipInv, Paste
<1>3. new \in Nat \ {0}
  BY <1>2, LenProperties, EmptySeq
<1>4. at \in 0..Len(model.cells)
  BY <1>1, AtWithin DEF PasteAfter
<1>5. m \in Kept(fresh + new) /\ Len(m.cells) = Len(model.cells) + new
  BY <1>1, <1>2, <1>4, PastedIs
<1>6. /\ EditTo(m, new) /\ Select(id)
      /\ UNCHANGED <<mode, clipboard, execution>>
  BY DEF Paste
<1> HIDE DEF m, new, at
<1>7. at + new \in 1..Len(m.cells) /\ new \in Nat /\ new <= Len(m.cells)
      /\ fresh + new \in Nat \ {0}
  BY <1>1, <1>3, <1>4, <1>5
<1>8. id \in IdsOf(m)
  BY <1>5, <1>7, IdAtIs
<1> HIDE DEF id
<1>9. Ready
  BY <1>5, <1>6, <1>7, <1>8, Reselected
<1> QED
  BY <1>6, <1>9, ServedAlone DEF StateInv, ModeInv

LEMMA TypesServed ==
  ASSUME StateInv,
         \/ \E kind \in Kinds : ChangeSelectedType(kind)
         \/ Heading
  PROVE  Served
<1>1. fresh \in Nat \ {0} /\ model \in Kept(fresh) /\ 1 \in Sources
  BY ControllerAssumption DEF StateInv, DocInv
<1>2. PICK m \in Kept(fresh) :
        /\ EditTo(m, 0) /\ IdsOf(m) = IdsOf(model)
        /\ UNCHANGED <<selection, clipboard, execution>>
  <2>1. ASSUME NEW kind \in Kinds, ChangeSelectedType(kind)
        PROVE  \E m \in Kept(fresh) :
                 /\ EditTo(m, 0) /\ IdsOf(m) = IdsOf(model)
                 /\ UNCHANGED <<selection, clipboard, execution>>
    BY <1>1, <2>1, RetypedIs DEF ChangeSelectedType
  <2>2. CASE Heading
    BY <1>1, <2>2, HeadedIs DEF Heading
  <2> QED
    BY <2>1, <2>2
<1>3. Ready
  BY <1>2, InPlace DEF selection
<1> QED
  BY <1>2, <1>3, ServedAlone DEF StateInv, ModeInv, selection

\* Whatever the user edits.
LEMMA EditingServed ==
  ASSUME StateInv, Editing
  PROVE  Served
<1>1. CASE \E kind \in Kinds, below \in IdsOf(model) \union {active}, before \in BOOLEAN :
             InsertNew(kind, below, before)
  BY <1>1, InsertServed
<1>2. ASSUME NEW id \in IdsOf(model), Tools(id) PROVE Served
  BY <1>2, CellToolServed, DuplicateServed, DeleteServed DEF Tools
<1>3. ASSUME NEW id \in IdsOf(model), NEW src \in Sources, TypeIn(id, src) PROVE Served
  BY <1>3, CellToolServed
<1>4. CASE DeleteSelected \/ Copy \/ CutSelected \/ Paste
  BY <1>4, SelectionServed, PasteServed
<1>5. CASE \/ \E kind \in Kinds \ {"circuit"} : ChangeSelectedType(kind)
           \/ Heading
  BY <1>5, TypesServed
<1> QED
  BY <1>1, <1>2, <1>3, <1>4, <1>5 DEF Editing

\* A step that selects among the cells there are.
LEMMA Chooses ==
  ASSUME DocInv', Room, fresh' = fresh, IdsOf(model') = IdsOf(model),
         active' \in 0..fresh - 1, anchor' \in 0..fresh - 1, chosen' \subseteq 1..fresh - 1,
         shown'.active \in 0..fresh - 1, shown'.chosen \subseteq 1..fresh - 1,
         active \in IdsOf(model) => active' \in IdsOf(model)
  PROVE  Ready
BY DEF Ready, WhereInv

LEMMA BetweenIs ==
  ASSUME DocInv, NEW a, NEW b
  PROVE  Between(a, b) \subseteq 1..fresh - 1
<1>1. \A k \in DOMAIN model.cells : model.cells[k].id \in 1..fresh - 1
  BY Here DEF IdsOf
<1> QED
  BY <1>1 DEF Between

\* moveSelection stays in the notebook.
LEMMA StepIs ==
  ASSUME DocInv, active \in IdsOf(model), NEW delta \in {-1, 1}
  PROVE  /\ Step(delta) \in 1..Len(model.cells)
         /\ IdAt(model, Step(delta)) \in IdsOf(model)
<1>1. fresh \in Nat \ {0} /\ model \in Kept(fresh) /\ Len(model.cells) \in Nat
      /\ model.cells \in Lists(fresh)
  BY Here DEF DocInv
<1>2. At(model, active) \in 1..Len(model.cells)
  BY <1>1, AtIs
<1>3. HasCell(model, active)
  BY HasIs
<1> DEFINE i == At(model, active) + delta
<1>4. Step(delta) = IF i < 1 THEN 1 ELSE IF i > Len(model.cells) THEN Len(model.cells)
                               ELSE i
  BY <1>3 DEF Step
<1>5. i \in Int
  BY <1>1, <1>2
<1> HIDE DEF i
<1>6. Step(delta) \in 1..Len(model.cells)
  BY <1>1, <1>2, <1>4, <1>5
<1> QED
  BY <1>1, <1>6, IdAtIs

\* What a step does that only selects.
Chose == Ready /\ ModeInv'

\* Whatever the user selects.
LEMMA SelectingServed ==
  ASSUME StateInv, Selecting
  PROVE  Served
<1>1. UNCHANGED <<document, clipboard, execution>>
  BY DEF Selecting, Click, ShiftClick, Reveal,
         Enter, Escape, Arrow
<1>2. DocInv' /\ Room /\ model' = model /\ fresh' = fresh
  BY <1>1, DocStays DEF StateInv
<1>3. /\ IdsOf(model) \subseteq 1..fresh - 1 /\ IdsOf(model) \subseteq 0..fresh - 1
      /\ IdsOf(model') = IdsOf(model)
  BY <1>2, Here DEF StateInv
<1>4. /\ active \in 0..fresh - 1 /\ anchor \in 0..fresh - 1 /\ chosen \subseteq 1..fresh - 1
      /\ shown.active \in 0..fresh - 1 /\ shown.chosen \subseteq 1..fresh - 1
      /\ mode \in {"command", "edit"}
  BY DEF StateInv, WhereInv, ModeInv
<1>5. \A a, b : Between(a, b) \subseteq 1..fresh - 1
  BY BetweenIs DEF StateInv
<1>6. ASSUME NEW id \in IdsOf(model), NEW editing \in BOOLEAN, Click(id, editing)
      PROVE  Chose
  <2>1. /\ active' = id /\ anchor' = id /\ chosen' = {}
        /\ shown'.active = id /\ shown'.chosen = {} /\ mode' \in {"command", "edit"}
    BY <1>6 DEF Click
  <2>2. Ready
    BY <1>2, <1>3, <2>1, Chooses
  <2>3. mode' \in {"command", "edit"}
    BY <1>4, <2>1
  <2> QED
    BY <2>2, <2>3 DEF Chose, ModeInv
<1>7. ASSUME NEW id \in IdsOf(model), NEW editing \in BOOLEAN, ShiftClick(id, editing)
      PROVE  Chose
  <2>1. PICK ids : /\ ids \subseteq 1..fresh - 1
                   /\ active' = id /\ anchor' = anchor /\ chosen' \in {ids, {}}
                   /\ shown'.active = id /\ shown'.chosen = ids
                   /\ mode' \in {mode, "edit"}
    BY <1>4, <1>5, <1>7 DEF ShiftClick, EnterEdit
  <2>2. Ready
    BY <1>2, <1>3, <1>4, <2>1, Chooses
  <2>3. mode' \in {"command", "edit"}
    BY <1>4, <2>1
  <2> QED
    BY <2>2, <2>3 DEF Chose, ModeInv
<1>8. ASSUME NEW id \in IdsOf(model), Reveal(id) PROVE Chose
  <2>1. WhereInv' /\ active' = id /\ mode' = mode
    BY <1>2, <1>3, <1>8, SelectIs DEF Reveal, StateInv
  <2> QED
    BY <1>2, <1>3, <1>4, <2>1 DEF Ready, Chose, ModeInv
<1>9. ASSUME Enter \/ Escape PROVE Chose
  <2>1. active' = active /\ anchor' = anchor /\ shown' = shown /\ chosen' \subseteq chosen
    BY <1>9 DEF Enter, Escape, EnterEdit
  <2>2. mode' \in {"command", "edit"}
    BY <1>9 DEF Enter, Escape, EnterEdit
  <2>3. Ready
    BY <1>2, <1>3, <1>4, <2>1, Chooses
  <2> QED
    BY <2>2, <2>3 DEF Chose, ModeInv
<1>10. ASSUME NEW delta \in {-1, 1}, NEW extend \in BOOLEAN, Arrow(delta, extend)
       PROVE  Chose
  <2> DEFINE to == IdAt(model, Step(delta))
  <2>1. active \in IdsOf(model)
    BY <1>10, HasIs DEF Arrow
  <2>2. to \in IdsOf(model)
    BY <2>1, StepIs DEF StateInv
  <2> HIDE DEF to
  <2>3. /\ active' = to /\ anchor' \in {anchor, active} /\ mode' = mode
        /\ shown' = [active |-> active', chosen |-> chosen']
    BY <1>10 DEF Arrow, Show, to
  <2>4. \/ chosen' \in {{}, {to}}
        \/ \E a, b : chosen' = Between(a, b)
    BY <1>10 DEF Arrow, to
  <2>5. chosen' \subseteq 1..fresh - 1
    BY <1>3, <1>5, <2>2, <2>4
  <2>6. active' \in 0..fresh - 1 /\ anchor' \in 0..fresh - 1
    BY <1>3, <1>4, <2>2, <2>3
  <2>7. shown'.active = active' /\ shown'.chosen = chosen'
    BY <2>3
  <2>8. Ready
    BY <1>2, <1>3, <2>2, <2>3, <2>5, <2>6, <2>7, Chooses
  <2> QED
    BY <1>4, <2>3, <2>8 DEF Chose, ModeInv
<1>11. Chose
  <2>1. \/ \E id \in IdsOf(model), editing \in BOOLEAN :
             Click(id, editing) \/ ShiftClick(id, editing)
        \/ \E id \in IdsOf(model) : Reveal(id)
        \/ Enter \/ Escape
        \/ \E delta \in {-1, 1}, extend \in BOOLEAN : Arrow(delta, extend)
    BY <1>3 DEF Selecting
  <2> QED
    BY <1>6, <1>7, <1>8, <1>9, <1>10, <2>1
<1> QED
  BY <1>1, <1>11, ServedAlone DEF Chose

\* Undo and redo: the selection may be lost.
LEMMA WalkingKeeps ==
  ASSUME StateInv, Walking
  PROVE  StateInv' /\ Room
<1>1. /\ model' \in {Undo(model), Redo(model)} /\ fresh' = fresh
      /\ UNCHANGED <<selection, clipboard, execution>>
  BY DEF Walking, UndoKey, RedoKey, WalkTo
<1>2. DocInv'
  BY <1>1, WalksKeep DEF StateInv, DocInv
<1>3. Room
  BY <1>1, ControllerAssumption DEF Room, StateInv, DocInv
<1>4. WhereInv' /\ ModeInv'
  BY <1>1, <1>3, WhereStays DEF StateInv, ModeInv, selection
<1>5. ClipInv' /\ RunInv'
  BY <1>1, <1>3, ClipStays, RunStays DEF StateInv
<1> QED
  BY <1>2, <1>3, <1>4, <1>5 DEF StateInv

\* What running a cell does to the model: a circuit gets its fixed output.
LEMMA RunEffectIs ==
  ASSUME DocInv, NEW id
  PROVE  Retains(model, RunEffect(id), fresh)
<1>1. fresh \in Nat \ {0} /\ model \in Kept(fresh)
  BY DEF DocInv
<1>2. Drawn \in Results
  BY ControllerAssumption DEF Drawn
<1>3. CASE Draws(id)
  <2>1. id \in IdsOf(model)
    BY <1>3, HasIs DEF Draws
  <2>2. Retains(model, UpdateOutputs(model, id, Drawn), fresh)
    BY <1>1, <1>2, <2>1, CellEditsKeep
  <2> QED
    BY <1>3, <2>2 DEF RunEffect
<1>4. CASE ~Draws(id)
  <2>1. Retains(model, model, fresh)
    BY <1>1 DEF Retains
  <2> QED
    BY <1>4, <2>1 DEF RunEffect
<1> QED
  BY <1>3, <1>4

\* runCell sends only cells that exist to the kernel.
LEMMA StartsIs ==
  ASSUME StateInv, Room, NEW id, NEW all \in BOOLEAN,
         Starts(id, all), queue' \in Seq(1..fresh - 1)
  PROVE  RunInv'
<1>1. Seq(1..fresh - 1) \subseteq Seq(1..fresh' - 1)
  BY More, SeqMonotonic DEF StateInv
<1>2. /\ runs \subseteq [n: 1..MaxRuns, cell: 1..fresh - 1, all: BOOLEAN]
      /\ started \in 0..MaxRuns /\ running \in 0..fresh - 1 /\ MaxRuns \in Nat
  BY ControllerAssumption DEF StateInv, RunInv
<1>3. [n: 1..MaxRuns, cell: 1..fresh - 1, all: BOOLEAN]
      \subseteq [n: 1..MaxRuns, cell: 1..fresh' - 1, all: BOOLEAN]
  BY More DEF StateInv
<1>4. CASE Executes(id)
  <2>1. id \in IdsOf(model)
    BY <1>4, HasIs DEF Executes
  <2>2. id \in 1..fresh - 1
    BY <2>1, Here DEF StateInv
  <2> DEFINE r == [n |-> started + 1, cell |-> id, all |-> all]
  <2>3. started < MaxRuns /\ started' = started + 1 /\ runs' = runs \union {r} /\ running' = id
    BY <1>4 DEF Starts
  <2>4. started + 1 \in 1..MaxRuns /\ started' \in 0..MaxRuns
    BY <1>2, <2>3
  <2>5. r \in [n: 1..MaxRuns, cell: 1..fresh - 1, all: BOOLEAN]
    BY <2>2, <2>4
  <2>6. running' \in 0..fresh' - 1
    BY <2>2, <2>3, Here, More DEF StateInv
  <2> HIDE DEF r
  <2>7. runs' \subseteq [n: 1..MaxRuns, cell: 1..fresh' - 1, all: BOOLEAN]
    BY <1>2, <1>3, <2>3, <2>5
  <2> QED
    BY <1>1, <2>4, <2>6, <2>7 DEF RunInv
<1>5. CASE ~Executes(id)
  <2>1. runs' = runs /\ started' = started /\ running' = running
    BY <1>5 DEF Starts
  <2>2. running' \in 0..fresh' - 1
    BY <1>2, <2>1, More DEF StateInv
  <2>3. runs' \subseteq [n: 1..MaxRuns, cell: 1..fresh' - 1, all: BOOLEAN]
    BY <1>2, <1>3, <2>1
  <2> QED
    BY <1>1, <1>2, <2>1, <2>2, <2>3 DEF RunInv
<1> QED
  BY <1>4, <1>5

LEMMA ServedRunning ==
  ASSUME StateInv, Ready, ModeInv', RunInv', UNCHANGED clipboard
  PROVE  Served
BY ClipStays DEF StateInv, Ready, Served

LEMMA RunServed ==
  ASSUME StateInv, NEW id \in IdsOf(model), Run(id)
  PROVE  Served
<1>1. /\ UNCHANGED document \/ EditTo(RunEffect(id), 0)
      /\ Starts(id, FALSE)
      /\ UNCHANGED <<active, chosen, anchor, shown, mode, clipboard, queue>>
  BY DEF Run, selection
<1>2. Retains(model, RunEffect(id), fresh)
  BY RunEffectIs DEF StateInv
<1>4. ASSUME EditTo(RunEffect(id), 0) PROVE Ready
  BY <1>1, <1>2, <1>4, InPlace DEF Retains
<1>5. Ready
  <2>1. CASE UNCHANGED document
    BY <1>1, <2>1, Untouched
  <2> QED
    BY <1>1, <1>4, <2>1
<1>6. RunInv'
  BY <1>1, <1>5, StartsIs DEF Ready, StateInv, RunInv
<1> QED
  BY <1>1, <1>5, <1>6, ServedRunning DEF StateInv, ModeInv

\* A cell that is inserted under the one that was run.
LEMMA RunInserts ==
  ASSUME StateInv, Select(fresh),
         EditTo(Inserted(RunEffect(active), "code", active, FALSE), 1)
  PROVE  Ready
<1> DEFINE e == RunEffect(active)
           m == Inserted(e, "code", active, FALSE)
<1>1. Retains(model, e, fresh) /\ "code" \in Kinds
  BY RunEffectIs DEF StateInv, Kinds
<1>2. e \in Kept(fresh) /\ Len(e.cells) = Len(model.cells)
  BY <1>1 DEF Retains
<1> HIDE DEF e
<1>3. m \in Kept(fresh + 1) /\ fresh \in IdsOf(m) /\ 1 <= Len(m.cells)
  BY <1>1, <1>2, NewIs DEF StateInv
<1>4. EditTo(m, 1)
  BY DEF e
<1> HIDE DEF m
<1> QED
  BY <1>3, <1>4, Reselected

LEMMA RunAndInsertServed ==
  ASSUME StateInv, RunAndInsert
  PROVE  Served
<1>1. /\ Starts(active, FALSE) /\ Select(fresh)
      /\ EditTo(Inserted(RunEffect(active), "code", active, FALSE), 1)
      /\ UNCHANGED <<mode, clipboard, queue>>
  BY DEF RunAndInsert
<1>2. Ready
  BY <1>1, RunInserts
<1>3. RunInv'
  BY <1>1, <1>2, StartsIs DEF Ready, StateInv, RunInv
<1> QED
  BY <1>1, <1>2, <1>3, ServedRunning DEF StateInv, ModeInv

\* The next cell is selected.
LEMMA AdvanceIs ==
  ASSUME StateInv, NEW i \in 1..Len(model.cells),
         EditTo(RunEffect(active), 0) \/ UNCHANGED document,
         active' = IdAt(model, i), chosen' = {}, anchor' \in {anchor, active'},
         Show
  PROVE  Ready
<1>1. fresh \in Nat \ {0} /\ model \in Kept(fresh)
  BY DEF StateInv, DocInv
<1>2. active' \in IdsOf(model) /\ active' \in 0..fresh - 1
  BY <1>1, IdAtIs
<1>3. DocInv' /\ Room /\ IdsOf(model') = IdsOf(model) /\ fresh' = fresh
  <2>1. CASE UNCHANGED document
    BY <2>1, DocStays DEF StateInv
  <2>2. CASE EditTo(RunEffect(active), 0)
    <3>1. Retains(model, RunEffect(active), fresh)
      BY RunEffectIs DEF StateInv
    <3>2. RunEffect(active) \in Kept(fresh)
          /\ IdsOf(RunEffect(active)) = IdsOf(model)
      BY <3>1 DEF Retains
    <3>3. model' = RunEffect(active) /\ fresh' = fresh /\ DocInv' /\ Room
      BY <2>2, <3>2, EditKeeps DEF StateInv
    <3> QED
      BY <3>2, <3>3
  <2> QED
    BY <2>1, <2>2
<1>4. anchor' \in 0..fresh - 1
  BY <1>2 DEF StateInv, WhereInv
<1>5. shown'.active = active' /\ shown'.chosen = chosen' /\ chosen' = {}
  BY DEF Show
<1> QED
  BY <1>2, <1>3, <1>4, <1>5, Chooses

LEMMA RunAndAdvanceServed ==
  ASSUME StateInv, RunAndAdvance
  PROVE  Served
<1> DEFINE next == At(model, active) + 1
           last == mode = "edit" /\ next > Len(model.cells)
<1>1. fresh \in Nat \ {0} /\ model \in Kept(fresh) /\ Len(model.cells) \in Nat
      /\ model.cells \in Lists(fresh)
  BY Here DEF StateInv, DocInv
<1>2. active \in IdsOf(model)
  BY HasIs DEF RunAndAdvance
<1>3. At(model, active) \in 1..Len(model.cells)
  BY <1>1, <1>2, AtIs
<1>4. next \in 1..Len(model.cells) + 1
  BY <1>1, <1>3
<1>5. /\ Starts(active, FALSE)
      /\ mode' = "command" /\ UNCHANGED <<clipboard, queue>>
  BY DEF RunAndAdvance
<1>6. CASE last
  <2>1. /\ Select(fresh)
        /\ EditTo(Inserted(RunEffect(active), "code", active, FALSE), 1)
    BY <1>6 DEF RunAndAdvance
  <2>2. Ready
    BY <2>1, RunInserts
  <2>3. RunInv'
    BY <1>5, <2>2, StartsIs DEF Ready, StateInv, RunInv
  <2> QED
    BY <1>5, <2>2, <2>3, ServedRunning DEF ModeInv
<1>7. CASE ~last
  <2>1. EditTo(RunEffect(active), 0) \/ UNCHANGED document
    BY <1>7 DEF RunAndAdvance
  <2>2. IF mode = "edit" THEN Select(IdAt(model, next))
        ELSE /\ active' = IdAt(model, Step(1)) /\ chosen' = {}
             /\ Show /\ UNCHANGED anchor
    BY <1>7 DEF RunAndAdvance
  <2>3. PICK i \in 1..Len(model.cells) :
          /\ active' = IdAt(model, i) /\ chosen' = {} /\ anchor' \in {anchor, active'}
          /\ Show
    <3>1. CASE mode = "edit"
      <4>1. ~(next > Len(model.cells))
        BY <1>7, <3>1
      <4>2. next \in 1..Len(model.cells)
        BY <1>1, <1>4, <4>1
      <4>3. Select(IdAt(model, next))
        BY <2>2, <3>1
      <4> HIDE DEF next
      <4> QED
        BY <4>2, <4>3 DEF Select
    <3>2. CASE mode # "edit"
      <4>1. Step(1) \in 1..Len(model.cells)
        BY <1>2, StepIs DEF StateInv
      <4> QED
        BY <2>2, <3>2, <4>1
    <3> QED
      BY <3>1, <3>2
  <2>4. Ready
    BY <2>1, <2>3, AdvanceIs
  <2>5. RunInv'
    BY <1>5, <2>4, StartsIs DEF Ready, StateInv, RunInv
  <2> QED
    BY <1>5, <2>4, <2>5, ServedRunning DEF ModeInv
<1> QED
  BY <1>6, <1>7

LEMMA RunAllServed ==
  ASSUME StateInv, RunAll
  PROVE  Served
<1>1. /\ UNCHANGED document
      /\ UNCHANGED <<active, chosen, anchor, shown, mode, clipboard, runs, started, running>>
      /\ queue' = [i \in DOMAIN model.cells |-> model.cells[i].id]
  BY DEF RunAll, selection
<1>2. Ready
  BY <1>1, Untouched
<1>3. fresh' = fresh
  BY <1>1, DocStays DEF StateInv
<1>4. queue' \in Seq(1..fresh - 1)
  <2>1. /\ DOMAIN model.cells = 1..Len(model.cells) /\ Len(model.cells) \in Nat
        /\ IdsOf(model) \subseteq 1..fresh - 1
    BY Here DEF StateInv
  <2>2. \A i \in 1..Len(model.cells) : model.cells[i].id \in 1..fresh - 1
    BY <2>1 DEF IdsOf
  <2> QED
    BY <1>1, <2>1, <2>2
<1>5. RunInv'
  BY <1>1, <1>3, <1>4 DEF StateInv, RunInv
<1> QED
  BY <1>1, <1>2, <1>5, ServedRunning DEF StateInv, ModeInv

LEMMA RunningServed ==
  ASSUME StateInv, Running
  PROVE  Served
BY RunServed, RunAndAdvanceServed, RunAndInsertServed, RunAllServed DEF Running

\* The model is edited by an execution, in place.
LEMMA InPlaceToo ==
  ASSUME StateInv, Retains(model, model', fresh), fresh' = fresh,
         UNCHANGED <<active, chosen, anchor, shown>>
  PROVE  Ready
<1>1. DocInv' /\ IdsOf(model') = IdsOf(model)
  BY DEF Retains, StateInv, DocInv
<1>2. Room
  BY ControllerAssumption DEF Room, StateInv, DocInv
<1>3. WhereInv'
  BY <1>2, WhereStays DEF StateInv
<1> QED
  BY <1>1, <1>2, <1>3 DEF Ready

LEMMA RunNextServed ==
  ASSUME StateInv, RunNext
  PROVE  Served
<1>1. /\ queue # <<>> /\ fresh' = fresh
      /\ UNCHANGED <<active, chosen, anchor, shown, mode, clipboard>>
      /\ \/ queue' = <<>> /\ UNCHANGED <<runs, started, running>>
         \/ queue' = Tail(queue) /\ Starts(Head(queue), TRUE)
      /\ model' \in {model, RunEffect(Head(queue))}
  BY DEF RunNext, selection
<1>2. Retains(model, model', fresh)
  <2>1. Retains(model, model, fresh)
    BY DEF Retains, StateInv, DocInv
  <2> QED
    BY <1>1, <2>1, RunEffectIs DEF StateInv
<1>3. Ready
  BY <1>1, <1>2, InPlaceToo
<1>4. queue \in Seq(1..fresh - 1)
  BY DEF StateInv, RunInv
<1>5. RunInv'
  <2>1. CASE queue' = <<>> /\ UNCHANGED <<runs, started, running>>
    <3>1. queue' \in Seq(1..fresh - 1)
      BY <2>1
    <3> QED
      BY <1>1, <2>1, <3>1 DEF StateInv, RunInv
  <2>2. CASE queue' = Tail(queue) /\ Starts(Head(queue), TRUE)
    <3>1. queue' \in Seq(1..fresh - 1)
      BY <1>1, <1>4, <2>2, HeadTailProperties
    <3> QED
      BY <1>3, <2>2, <3>1, StartsIs DEF Ready
  <2> QED
    BY <1>1, <2>1, <2>2
<1> QED
  BY <1>1, <1>3, <1>5, ServedRunning DEF StateInv, ModeInv

\* A result is written to its cell when that still exists.
LEMMA WrittenIs ==
  ASSUME StateInv, NEW r \in runs, HasCell(model, r.cell)
  PROVE  Retains(model, Written(r), fresh)
<1> DEFINE m == UpdateExecutionCount(model, r.cell, r.n)
           e == UpdateOutputs(m, r.cell, r.n)
<1>1. fresh \in Nat \ {0} /\ model \in Kept(fresh)
  BY DEF StateInv, DocInv
<1>2. r.n \in 1..MaxRuns /\ MaxRuns \in Nat /\ Results = 0..MaxRuns + 1
  BY ControllerAssumption DEF StateInv, RunInv
<1>3. r.n \in Results
  BY <1>2
<1>4. r.cell \in IdsOf(model)
  BY HasIs
<1>5. Retains(model, m, fresh)
  BY <1>1, <1>3, <1>4, CellEditsKeep
<1> HIDE DEF m
<1>6. m \in Kept(fresh) /\ r.cell \in IdsOf(m)
  BY <1>4, <1>5 DEF Retains
<1>7. Retains(m, e, fresh)
  BY <1>1, <1>3, <1>6, CellEditsKeep
<1>8. Written(r) = e
  BY DEF Written, m
<1> HIDE DEF e
<1> QED
  BY <1>5, <1>7, <1>8 DEF Retains

LEMMA AnsweredServed ==
  ASSUME StateInv, NEW r \in runs, Finish(r) \/ Fail(r)
  PROVE  Served
<1>1. /\ fresh' = fresh /\ UNCHANGED <<active, chosen, anchor, shown, mode, clipboard, started>>
      /\ runs' = runs \ {r} /\ running' = 0 /\ queue' \in {queue, <<>>}
      /\ model' = model \/ (HasCell(model, r.cell) /\ model' = Written(r))
  BY DEF Finish, Fail, Ended, selection,
         None
<1>2. Retains(model, model', fresh)
  <2>1. Retains(model, model, fresh)
    BY DEF Retains, StateInv, DocInv
  <2> QED
    BY <1>1, <2>1, WrittenIs
<1>3. Ready
  BY <1>1, <1>2, InPlaceToo
<1>4. queue' \in Seq(1..fresh - 1)
  <2>1. queue \in Seq(1..fresh - 1)
    BY DEF StateInv, RunInv
  <2>2. \A S : <<>> \in Seq(S)
    OBVIOUS
  <2>3. queue' = queue \/ queue' = <<>>
    BY <1>1
  <2>4. CASE queue' = <<>>
    BY <2>2, <2>4
  <2> QED
    BY <2>1, <2>3, <2>4
<1>5. RunInv'
  BY <1>1, <1>4, Here DEF StateInv, RunInv
<1> QED
  BY <1>1, <1>3, <1>5, ServedRunning DEF StateInv, ModeInv

\* Whatever becomes of the executions.
LEMMA EndingServed ==
  ASSUME StateInv, Ending
  PROVE  Served
BY RunNextServed, AnsweredServed DEF Ending

\* The ids that can have been given: those of the document that was opened, and as many for
\* each thing the user did as a notebook may have cells.
GivenInv == /\ events \in 0..MaxEvents
            /\ fresh <= Len(Opened.cells) + 1 + events * MaxCells

ControllerInv == StateInv /\ GivenInv

LEMMA ControllerInit ==
  ASSUME EditorInit
  PROVE  ControllerInv
<1>1. /\ model = Fresh(Opened) /\ fresh = Len(Opened.cells) + 1 /\ events = 0
      /\ active = IdAt(model, 1) /\ anchor = active /\ chosen = {}
      /\ shown.active = active /\ shown.chosen = {} /\ mode = "command"
      /\ runs = {} /\ started = 0 /\ running = 0
  BY DEF EditorInit, Open, None
<1>2. clipboard = <<>> /\ queue = <<>>
  BY DEF EditorInit
<1>3. Opened \in Files(fresh) /\ Len(Opened.cells) \in Nat /\ fresh \in Nat \ {0}
  BY <1>1, OpenedIs
<1>4. model \in Loaded(fresh) /\ model.undo = <<>> /\ model.redo = <<>>
  BY <1>1, <1>3, FreshIs
<1>5. DocInv
  <2>1. Len(model.undo) = 0 /\ Len(model.redo) = 0
    BY <1>4
  <2>2. Len(model.undo) + Len(model.redo) <= History
    BY <2>1, DocumentAssumption
  <2> QED
    BY <1>3, <1>4, <2>2 DEF DocInv, Kept
<1>6. active \in 0..fresh - 1
  BY <1>1, <1>5, IdAtIs DEF DocInv
<1>7. WhereInv /\ ModeInv
  BY <1>1, <1>6 DEF WhereInv, ModeInv
<1>8. \A S : <<>> \in Seq(S)
  OBVIOUS
<1>9. ClipInv
  BY <1>2, <1>8 DEF ClipInv
<1>10. RunInv
  <2>1. queue \in Seq(1..fresh - 1)
    BY <1>2, <1>8
  <2> QED
    BY <1>1, <1>5, <2>1, Here, ControllerAssumption DEF RunInv
<1>11. GivenInv
  BY <1>1, <1>3, ControllerAssumption DEF GivenInv
<1> QED
  BY <1>5, <1>7, <1>9, <1>10, <1>11 DEF ControllerInv, StateInv

LEMMA StutterServed ==
  ASSUME StateInv, UNCHANGED editorVars
  PROVE  StateInv' /\ model' = model /\ active' = active
<1>1. /\ UNCHANGED <<document, active, chosen, anchor, shown, mode, clipboard>>
      /\ UNCHANGED execution
  BY DEF editorVars, selection
<1>2. Ready
  BY <1>1, Untouched
<1>3. StateInv'
  BY <1>1, <1>2, ServedAlone DEF StateInv, ModeInv, Served
<1> QED
  BY <1>1, <1>3 DEF document

\* Every step keeps the invariant.
LEMMA ControllerKeeps ==
  ASSUME ControllerInv, [EditorNext]_editorVars
  PROVE  /\ ControllerInv'
         /\ active \in IdsOf(model) /\ ~Walking => active' \in IdsOf(model')
<1>1. /\ StateInv /\ events \in Nat /\ events <= MaxEvents /\ MaxEvents \in Nat /\ MaxCells \in Nat
      /\ fresh <= Len(Opened.cells) + 1 + events * MaxCells
      /\ fresh \in Nat /\ Len(Opened.cells) \in Nat
  BY OpenedIs, ControllerAssumption DEF ControllerInv, GivenInv, StateInv, DocInv
<1>2. ASSUME StateInv', Room, events < MaxEvents, events' = events + 1
      PROVE  ControllerInv'
  <2>1. (events + 1) * MaxCells = events * MaxCells + MaxCells /\ events * MaxCells \in Nat
    BY <1>1
  <2>2. fresh' <= fresh + MaxCells /\ fresh' \in Nat
    BY <1>2 DEF Room
  <2>3. fresh' <= Len(Opened.cells) + 1 + events' * MaxCells
    <3> DEFINE x == events * MaxCells
               y == (events + 1) * MaxCells
    <3>1. y = x + MaxCells /\ x \in Nat /\ fresh <= Len(Opened.cells) + 1 + x
      BY <1>1, <2>1
    <3>2. events' * MaxCells = y
      BY <1>2
    <3> HIDE DEF x, y
    <3> QED
      BY <1>1, <2>2, <3>1, <3>2
  <2> QED
    <3>1. events' \in 0..MaxEvents
      BY <1>1, <1>2
    <3> QED
      BY <1>2, <2>3, <3>1 DEF ControllerInv, GivenInv
<1>3. ASSUME StateInv', fresh' = fresh, events' = events PROVE ControllerInv'
  BY <1>3 DEF ControllerInv, GivenInv
<1>4. CASE User
  <2>1. events < MaxEvents /\ events' = events + 1
    BY <1>4 DEF User
  <2>2. CASE Walking
    BY <1>1, <1>2, <2>1, <2>2, WalkingKeeps
  <2>3. CASE Editing \/ Selecting \/ Running
    <3>1. Served
      BY <1>1, <2>3, EditingServed, SelectingServed, RunningServed
    <3> QED
      BY <1>2, <2>1, <3>1 DEF Served
  <2> QED
    BY <1>4, <2>2, <2>3 DEF User
<1>5. CASE Kernel
  <2>1. Ending /\ events' = events
    BY <1>5 DEF Kernel
  <2>2. Served
    BY <1>1, <2>1, EndingServed
  <2>3. fresh' = fresh
    BY <2>1 DEF Ending, RunNext, Finish, Fail, Ended
  <2> QED
    BY <1>3, <2>1, <2>2, <2>3 DEF Served
<1>6. CASE UNCHANGED editorVars
  <2>1. StateInv' /\ model' = model /\ active' = active
    BY <1>1, <1>6, StutterServed
  <2>2. fresh' = fresh /\ events' = events
    BY <1>6 DEF editorVars, document
  <2> QED
    BY <1>3, <2>1, <2>2
<1> QED
  BY <1>4, <1>5, <1>6 DEF EditorNext

\* The invariant gives the types.
LEMMA ControllerTypes ==
  ASSUME ControllerInv
  PROVE  EditorTypeOK
<1> DEFINE k == Len(Opened.cells) + MaxEvents * MaxCells
<1>1. /\ StateInv /\ events \in Nat /\ events <= MaxEvents /\ MaxEvents \in Nat /\ MaxCells \in Nat
      /\ fresh <= Len(Opened.cells) + 1 + events * MaxCells
      /\ fresh \in Nat \ {0} /\ Len(Opened.cells) \in Nat /\ model \in Loaded(fresh)
  <2>1. model \in Loaded(fresh) /\ fresh \in Nat \ {0}
    BY DEF ControllerInv, StateInv, DocInv, Kept
  <2>2. events \in 0..MaxEvents /\ MaxEvents \in Nat /\ MaxCells \in Nat
    BY ControllerAssumption DEF ControllerInv, GivenInv
  <2>3. StateInv /\ fresh <= Len(Opened.cells) + 1 + events * MaxCells
    BY DEF ControllerInv, GivenInv
  <2>4. events \in Nat /\ events <= MaxEvents
    BY <2>2
  <2> QED
    BY <2>1, <2>2, <2>3, <2>4, OpenedIs
<1>2. k \in Nat /\ fresh <= k + 1
  <2>1. \A a, b, c \in Nat : a <= b => a * c <= b * c
    OBVIOUS
  <2> DEFINE x == events * MaxCells
             y == MaxEvents * MaxCells
  <2>2. x <= y /\ x \in Nat /\ y \in Nat
    BY <1>1, <2>1
  <2>3. fresh <= Len(Opened.cells) + 1 + x /\ k = Len(Opened.cells) + y
    BY <1>1
  <2> HIDE DEF x, y, k
  <2> QED
    BY <1>1, <2>2, <2>3
<1>3. GivenIds = 1..k
  BY DEF GivenIds
<1> HIDE DEF k
<1>4. model \in Models(1..k)
  BY <1>1, <1>2, TypedBy
<1>5. 1..fresh - 1 \subseteq 1..k /\ 0..fresh - 1 \subseteq 1..k \union {0}
  BY <1>1, <1>2
<1>6. /\ active \in 1..k \union {0} /\ anchor \in 1..k \union {0} /\ chosen \subseteq 1..k
      /\ shown.active \in 1..k \union {0} /\ shown.chosen \subseteq 1..k
      /\ mode \in {"command", "edit"}
  BY <1>1, <1>5 DEF StateInv, WhereInv, ModeInv
<1>7. clipboard \in Seq(Cells(1..k))
  <2>1. Cells(1..fresh - 1) \subseteq Cells(1..k)
    BY <1>5 DEF Cells
  <2>2. clipboard \in Seq(Cells(1..k))
    BY <1>1, <2>1, SeqMonotonic DEF StateInv, ClipInv
  <2> QED
    BY <2>2
<1>8. /\ runs \subseteq [n: 1..MaxRuns, cell: 1..k, all: BOOLEAN] /\ started \in 0..MaxRuns
      /\ running \in 1..k \union {0} /\ queue \in Seq(1..k)
  <2>1. [n: 1..MaxRuns, cell: 1..fresh - 1, all: BOOLEAN]
        \subseteq [n: 1..MaxRuns, cell: 1..k, all: BOOLEAN]
    BY <1>5
  <2>2. Seq(1..fresh - 1) \subseteq Seq(1..k)
    BY <1>5, SeqMonotonic
  <2> QED
    BY <1>1, <1>5, <2>1, <2>2 DEF StateInv, RunInv
<1>9. fresh \in Nat /\ events \in 0..MaxEvents
  BY <1>1
<1> QED
  BY <1>3, <1>4, <1>6, <1>7, <1>8, <1>9 DEF EditorTypeOK, None

\* The types of the controller's variables.
THEOREM EditorTypesHold == EditorSpec => []EditorTypeOK
<1>1. EditorInit => ControllerInv
  BY ControllerInit
<1>2. ControllerInv /\ [EditorNext]_editorVars => ControllerInv'
  BY ControllerKeeps
<1>3. ControllerInv => EditorTypeOK
  BY ControllerTypes
<1> QED
  BY <1>1, <1>2, <1>3, PTL DEF EditorSpec

\* Undo and redo aside, no operation of the user, no execution that ends or fails and no
\* "run all" leaves the editor with an active cell that is not in the notebook.
THEOREM SelectionKeptHolds == EditorSpec => SelectionKept
<1>1. EditorInit => ControllerInv
  BY ControllerInit
<1>2. ControllerInv /\ [EditorNext]_editorVars => ControllerInv'
  BY ControllerKeeps
<1>3. ControllerInv /\ [EditorNext]_editorVars
      => [HasCell(model, active) /\ ~Walking
          => HasCell(model', active')]_editorVars
  <2> SUFFICES ASSUME ControllerInv, [EditorNext]_editorVars,
                      HasCell(model, active), ~Walking
               PROVE  HasCell(model', active')
    OBVIOUS
  <2>1. active \in IdsOf(model)
    BY HasIs
  <2>2. active' \in IdsOf(model')
    BY <2>1, ControllerKeeps
  <2> QED
    BY <2>2, HasIs
<1> QED
  BY <1>1, <1>2, <1>3, PTL DEF EditorSpec, SelectionKept
=============================================================================
