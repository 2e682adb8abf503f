------------------------ MODULE NotebookCells_proofs -------------------------
(***************************************************************************)
(* What the proofs about the three forms of the cells rest on.              *)
(*                                                                          *)
(* Lists: Lists(S, n) are the lists of cells of S that are not empty and    *)
(* give every cell an id of its own among 1..n.  The last id given, fresh,  *)
(* is the n of the page's cells, of the editor's and of the stored file, so *)
(* that a cell that is copied or inserted under fresh + 1 is new in all of  *)
(* them.  An import is what makes this true of a foreign file, whose ids    *)
(* may be invalid or repeated (ImportedIs).                                 *)
(*                                                                          *)
(* Cells: SoundPage, SoundEditor and LegalFile say what is true of a cell   *)
(* in each form: a circuit of the page carries its mark, a cell of the      *)
(* editor that is not code has no results, a file is legal nbformat.  The   *)
(* conversions lead from one into the other, and the lemmas say what is     *)
(* shown of a cell after each; ShownAgain composes the five of a save and   *)
(* a reopening.                                                             *)
(*                                                                          *)
(* The invariant: IInv is TypeInv (the lists), Agree (the page's list and   *)
(* the editor) and SavedInv, ReopenShowsTheSame for whatever id a made-up   *)
(* cell would get: the id is fresh + 1, and fresh goes on while the stored  *)
(* file stays.  A stored file has cells, so that the id does not matter     *)
(* (AnyId).                                                                 *)
(***************************************************************************)
EXTENDS NotebookCells, SequenceTheorems, FiniteSetTheorems, WellFoundedInduction, TLAPS

-----------------------------------------------------------------------------
(* The operators on sequences.                                              *)

\* A set of natural numbers that is not empty has a least element.
LEMMA LeastNatural ==
  ASSUME NEW T \in SUBSET Nat, T # {}
  PROVE  Min(T) \in T /\ \A m \in T : Min(T) <= m
<1> DEFINE R == OpToRel(<, Nat)
<1>1. \A x, y \in Nat : <<x, y>> \in R <=> x < y
  BY DEF OpToRel
<1>2. IsWellFoundedOn(R, Nat)
  BY NatLessThanWellFounded
<1> HIDE DEF R
<1>3. PICK x \in T : \A y \in T : ~(<<y, x>> \in R)
   BY <1>2, WFMin
<1>4. \A y \in T : ~(y < x)
  BY <1>1, <1>3
<1>5. \A y \in T : x <= y
  BY <1>4
<1> QED
  BY <1>5 DEF Min

\* The elements of a concatenation.
LEMMA ConcatIs ==
  ASSUME NEW S, NEW s \in Seq(S), NEW t \in Seq(S)
  PROVE  /\ s \o t \in Seq(S)
         /\ Len(s \o t) = Len(s) + Len(t)
         /\ \A i \in 1..Len(s) : (s \o t)[i] = s[i]
         /\ \A i \in 1..Len(t) : (s \o t)[Len(s) + i] = t[i]
<1>1. Len(s) \in Nat /\ Len(t) \in Nat
  BY LenProperties
<1>2. /\ s \o t \in Seq(S) /\ Len(s \o t) = Len(s) + Len(t)
      /\ \A i \in 1..Len(s) + Len(t) : (s \o t)[i] = IF i <= Len(s) THEN s[i] ELSE t[i - Len(s)]
  BY ConcatProperties
<1>3. ASSUME NEW i \in 1..Len(s) PROVE (s \o t)[i] = s[i]
  BY <1>1, <1>2
<1>4. ASSUME NEW i \in 1..Len(t) PROVE (s \o t)[Len(s) + i] = t[i]
  <2>1. Len(s) + i \in 1..Len(s) + Len(t) /\ ~(Len(s) + i <= Len(s)) /\ Len(s) + i - Len(s) = i
    BY <1>1
  <2> QED
    BY <1>2, <2>1
<1> QED
  BY <1>2, <1>3, <1>4

\* A part of a sequence.
LEMMA SubSeqIs ==
  ASSUME NEW S, NEW s \in Seq(S), NEW m \in 1..Len(s) + 1, NEW n \in 0..Len(s), m <= n + 1
  PROVE  /\ SubSeq(s, m, n) \in Seq(S)
         /\ Len(SubSeq(s, m, n)) = n + 1 - m
         /\ \A i \in 1..n + 1 - m : SubSeq(s, m, n)[i] = s[m + i - 1]
<1>1. Len(s) \in Nat /\ m \in Int /\ n \in Int
  BY LenProperties
<1>2. \A i \in m..n : i \in 1..Len(s)
  BY <1>1
<1>3. \A i \in m..n : s[i] \in S
  BY <1>2, ElementOfSeq
<1>4. /\ SubSeq(s, m, n) \in Seq(S)
      /\ Len(SubSeq(s, m, n)) = IF m <= n THEN n - m + 1 ELSE 0
      /\ \A i \in 1..n - m + 1 : SubSeq(s, m, n)[i] = s[m + i - 1]
  BY <1>1, <1>3, SubSeqProperties
<1> QED
  BY <1>1, <1>4

\* An element is inserted: those before it stay, the others move up.
LEMMA InsertAtIs ==
  ASSUME NEW S, NEW s \in Seq(S), NEW i \in 1..Len(s) + 1, NEW e \in S
  PROVE  /\ InsertAt(s, i, e) \in Seq(S)
         /\ Len(InsertAt(s, i, e)) = Len(s) + 1
         /\ \A j \in 1..i - 1 : InsertAt(s, i, e)[j] = s[j]
         /\ InsertAt(s, i, e)[i] = e
         /\ \A j \in i..Len(s) : InsertAt(s, i, e)[j + 1] = s[j]
<1> DEFINE a == SubSeq(s, 1, i - 1)
           b == SubSeq(s, i, Len(s))
<1>1. Len(s) \in Nat /\ i \in Nat
  BY LenProperties
<1>2. /\ a \in Seq(S) /\ Len(a) = i - 1
      /\ \A j \in 1..i - 1 : a[j] = s[j]
  BY <1>1, SubSeqIs
<1>3. /\ b \in Seq(S) /\ Len(b) = Len(s) + 1 - i
      /\ \A j \in 1..Len(s) + 1 - i : b[j] = s[i + j - 1]
  BY <1>1, SubSeqIs
<1>4. <<e>> \in Seq(S) /\ Len(<<e>>) = 1 /\ <<e>>[1] = e
  OBVIOUS
<1> DEFINE c == a \o <<e>>
<1>5. InsertAt(s, i, e) = c \o b
  BY DEF InsertAt
<1> HIDE DEF a, b
<1>6. /\ c \in Seq(S) /\ Len(c) = Len(a) + 1
      /\ \A j \in 1..Len(a) : c[j] = a[j]
      /\ c[Len(a) + 1] = e
  BY <1>2, <1>4, ConcatIs
<1>7. /\ Len(c) = i
      /\ \A j \in 1..i - 1 : c[j] = s[j]
      /\ c[i] = e
  BY <1>1, <1>2, <1>6
<1> HIDE DEF c
<1>8. /\ c \o b \in Seq(S) /\ Len(c \o b) = i + Len(b)
      /\ \A j \in 1..i : (c \o b)[j] = c[j]
      /\ \A j \in 1..Len(b) : (c \o b)[i + j] = b[j]
  <2>1. c \in Seq(S) /\ b \in Seq(S)
    BY <1>3, <1>6
  <2>2. /\ c \o b \in Seq(S) /\ Len(c \o b) = Len(c) + Len(b)
        /\ \A j \in 1..Len(c) : (c \o b)[j] = c[j]
        /\ \A j \in 1..Len(b) : (c \o b)[Len(c) + j] = b[j]
    BY <2>1, ConcatIs
  <2>3. Len(c) = i
    BY <1>7
  <2> QED
    BY <2>2, <2>3
<1>9. ASSUME NEW j \in i..Len(s) PROVE (c \o b)[j + 1] = s[j]
  <2>1. j + 1 - i \in 1..Len(b) /\ i + (j + 1 - i) = j + 1 /\ i + (j + 1 - i) - 1 = j
    BY <1>1, <1>3
  <2>2. (c \o b)[i + (j + 1 - i)] = b[j + 1 - i]
    BY <1>8, <2>1
  <2>3. b[j + 1 - i] = s[i + (j + 1 - i) - 1]
    BY <1>3, <2>1
  <2> QED
    BY <2>1, <2>2, <2>3
<1>10. \A j \in 1..i - 1 : j \in 1..i /\ (c \o b)[j] = s[j]
  BY <1>1, <1>7, <1>8
<1>11. (c \o b)[i] = e
  BY <1>1, <1>7, <1>8
<1>12. Len(c \o b) = Len(s) + 1
  BY <1>1, <1>3, <1>8
<1> QED
  BY <1>5, <1>8, <1>9, <1>10, <1>11, <1>12

\* An element is removed: those before it stay, the others move down.
LEMMA RemoveAtIs ==
  ASSUME NEW S, NEW s \in Seq(S), NEW i \in 1..Len(s)
  PROVE  /\ RemoveAt(s, i) \in Seq(S)
         /\ Len(RemoveAt(s, i)) = Len(s) - 1
         /\ \A j \in 1..i - 1 : RemoveAt(s, i)[j] = s[j]
         /\ \A j \in i..Len(s) - 1 : RemoveAt(s, i)[j] = s[j + 1]
<1> DEFINE a == SubSeq(s, 1, i - 1)
           b == SubSeq(s, i + 1, Len(s))
<1>1. Len(s) \in Nat /\ i \in Nat
  BY LenProperties
<1>2. /\ a \in Seq(S) /\ Len(a) = i - 1
      /\ \A j \in 1..i - 1 : a[j] = s[j]
  BY <1>1, SubSeqIs
<1>3. /\ b \in Seq(S) /\ Len(b) = Len(s) - i
      /\ \A j \in 1..Len(s) - i : b[j] = s[i + j]
  BY <1>1, SubSeqIs
<1>4. RemoveAt(s, i) = a \o b
  BY DEF RemoveAt
<1> HIDE DEF a, b
<1>5. /\ a \o b \in Seq(S) /\ Len(a \o b) = Len(a) + Len(b)
      /\ \A j \in 1..Len(a) : (a \o b)[j] = a[j]
      /\ \A j \in 1..Len(b) : (a \o b)[Len(a) + j] = b[j]
  <2>1. a \in Seq(S) /\ b \in Seq(S)
    BY <1>2, <1>3
  <2> QED
    BY <2>1, ConcatIs
<1>6. ASSUME NEW j \in i..Len(s) - 1 PROVE (a \o b)[j] = s[j + 1]
  <2>1. j - (i - 1) \in 1..Len(b) /\ Len(a) + (j - (i - 1)) = j /\ i + (j - (i - 1)) = j + 1
    BY <1>1, <1>2, <1>3
  <2>2. (a \o b)[Len(a) + (j - (i - 1))] = b[j - (i - 1)]
    BY <1>5, <2>1
  <2>3. b[j - (i - 1)] = s[i + (j - (i - 1))]
    BY <1>3, <2>1
  <2> QED
    BY <2>1, <2>2, <2>3
<1>7. Len(a \o b) = Len(s) - 1
  BY <1>1, <1>2, <1>3, <1>5
<1>8. \A j \in 1..i - 1 : (a \o b)[j] = s[j]
  BY <1>2, <1>5
<1> QED
  BY <1>4, <1>5, <1>6, <1>7, <1>8

\* An element is replaced.
LEMMA ReplaceAtIs ==
  ASSUME NEW S, NEW s \in Seq(S), NEW i \in 1..Len(s), NEW e \in S
  PROVE  /\ ReplaceAt(s, i, e) \in Seq(S)
         /\ Len(ReplaceAt(s, i, e)) = Len(s)
         /\ \A j \in 1..Len(s) : ReplaceAt(s, i, e)[j] = IF j = i THEN e ELSE s[j]
BY ExceptSeq DEF ReplaceAt

-----------------------------------------------------------------------------
(* Lists of cells.                                                          *)

\* Cells of a set S under ids up to n, no id twice.
Distinct(cells) == \A i, j \in 1..Len(cells) : i # j => cells[i].id # cells[j].id
Lists(S, n) ==
  {s \in Seq(S) : s # <<>> /\ Distinct(s) /\ \A i \in 1..Len(s) : s[i].id \in 1..n}

\* What is in a list.
LEMMA ListIs ==
  ASSUME NEW S, NEW n, NEW s \in Lists(S, n)
  PROVE  /\ s \in Seq(S) /\ Len(s) \in Nat \ {0} /\ DOMAIN s = 1..Len(s) /\ Distinct(s)
         /\ \A i \in 1..Len(s) : s[i] \in S /\ s[i].id \in 1..n
<1>1. s \in Seq(S) /\ s # <<>> /\ Distinct(s) /\ \A i \in 1..Len(s) : s[i].id \in 1..n
  BY DEF Lists
<1>2. Len(s) \in Nat \ {0}
  BY <1>1, EmptySeq, LenProperties
<1> QED
  BY <1>1, <1>2, LenProperties, ElementOfSeq

\* What makes a list.
LEMMA MakesList ==
  ASSUME NEW S, NEW n, NEW s \in Seq(S), Len(s) # 0, Distinct(s),
         \A i \in 1..Len(s) : s[i].id \in 1..n
  PROVE  s \in Lists(S, n)
<1>1. s # <<>>
  OBVIOUS
<1> QED
  BY <1>1 DEF Lists

\* Cells that are changed one by one keep their ids.
LEMMA SameIds ==
  ASSUME NEW S, NEW T, NEW n, NEW s \in Lists(S, n), NEW t,
         DOMAIN t = 1..Len(s), t = [i \in 1..Len(s) |-> t[i]],
         \A i \in 1..Len(s) : t[i] \in T /\ t[i].id = s[i].id
  PROVE  t \in Lists(T, n) /\ Len(t) = Len(s)
<1>1. /\ Len(s) \in Nat \ {0} /\ Distinct(s)
      /\ \A i \in 1..Len(s) : s[i].id \in 1..n
  BY ListIs
<1>2. t \in Seq(T) /\ Len(t) = Len(s)
  BY <1>1
<1>3. Distinct(t)
  BY <1>1, <1>2 DEF Distinct
<1> QED
  BY <1>1, <1>2, <1>3, MakesList

\* Room for more ids.
LEMMA MoreIds ==
  ASSUME NEW S, NEW n \in Nat, NEW k \in Nat, n <= k
  PROVE  Lists(S, n) \subseteq Lists(S, k)
<1>1. 1..n \subseteq 1..k
  BY Z3
<1> QED
  BY <1>1 DEF Lists

\* As many cells as ids.
LEMMA IdsCounted ==
  ASSUME NEW S, NEW n, NEW s \in Lists(S, n)
  PROVE  Cardinality(IdsOf(s)) = Len(s)
<1> DEFINE k == Len(s)
           f == [i \in 1..k |-> s[i].id]
<1>1. k \in Nat /\ DOMAIN s = 1..k /\ Distinct(s)
  BY ListIs
<1> HIDE DEF k
<1>2. IdsOf(s) = {s[i].id : i \in 1..k}
  BY <1>1 DEF IdsOf
<1>3. \A i, j \in 1..k : f[i] = f[j] => i = j
  BY <1>1 DEF Distinct, k
<1>4. f \in Bijection(1..k, IdsOf(s))
  BY <1>2, <1>3 DEF Bijection, Injection, Surjection, IsInjective
<1>5. ExistsBijection(1..k, IdsOf(s))
  BY <1>4 DEF ExistsBijection
<1>6. IsFiniteSet(1..k) /\ Cardinality(1..k) = k
  BY <1>1, FS_Interval
<1> QED
  BY <1>5, <1>6, FS_Bijection DEF k

\* A cell is found by its id.
LEMMA AtIs ==
  ASSUME NEW S, NEW n, NEW s \in Lists(S, n), NEW id \in IdsOf(s)
  PROVE  At(s, id) \in 1..Len(s) /\ s[At(s, id)].id = id
<1> DEFINE I == {i \in 1..Len(s) : s[i].id = id}
<1>1. DOMAIN s = 1..Len(s) /\ Len(s) \in Nat
  BY ListIs
<1>2. I # {} /\ I \in SUBSET Nat
  BY <1>1 DEF IdsOf
<1>3. At(s, id) = IF I # {} THEN Min(I) ELSE 0
  BY DEF At, SelectInSeq
<1> HIDE DEF I
<1>4. Min(I) \in I
  BY <1>2, LeastNatural
<1>5. At(s, id) \in I
  BY <1>2, <1>3, <1>4
<1> QED
  BY <1>5 DEF I

\* A new cell under an id of its own.
LEMMA InsertedDistinct ==
  ASSUME NEW S, NEW s \in Seq(S), Distinct(s), NEW c \in S, NEW i \in 1..Len(s) + 1,
         \A j \in 1..Len(s) : s[j].id # c.id
  PROVE  LET t == InsertAt(s, i, c)
         IN /\ t \in Seq(S) /\ Len(t) = Len(s) + 1 /\ Distinct(t)
            /\ \A j \in 1..Len(t) : t[j] = c \/ \E k \in 1..Len(s) : t[j] = s[k]
<1> DEFINE t == InsertAt(s, i, c)
<1>1. Len(s) \in Nat
  BY LenProperties
<1>2. /\ t \in Seq(S) /\ Len(t) = Len(s) + 1
      /\ \A j \in 1..i - 1 : t[j] = s[j]
      /\ t[i] = c
      /\ \A j \in i..Len(s) : t[j + 1] = s[j]
  BY <1>1, InsertAtIs
<1> HIDE DEF t
<1>3. ASSUME NEW j \in 1..Len(t), j # i
      PROVE  \E k \in 1..Len(s) : t[j] = s[k] /\ k = IF j < i THEN j ELSE j - 1
  <2>1. CASE j < i
    BY <1>1, <1>2, <2>1
  <2>2. CASE j > i
    <3>1. j - 1 \in i..Len(s) /\ j - 1 + 1 = j /\ j - 1 \in 1..Len(s)
      BY <1>1, <1>2, <2>2
    <3>2. t[j] = s[j - 1]
      BY <1>2, <3>1
    <3> QED
      BY <2>2, <3>1, <3>2
  <2> QED
    BY <1>1, <1>2, <1>3, <2>1, <2>2
<1>4. ASSUME NEW j \in 1..Len(t), NEW k \in 1..Len(t), j # k
      PROVE  t[j].id # t[k].id
  <2>1. CASE j = i
    BY <1>2, <1>3, <1>4, <2>1
  <2>2. CASE k = i
    BY <1>2, <1>3, <1>4, <2>2
  <2>3. CASE j # i /\ k # i
    <3>1. PICK a \in 1..Len(s) : t[j] = s[a] /\ a = IF j < i THEN j ELSE j - 1
      BY <1>3, <2>3
    <3>2. PICK b \in 1..Len(s) : t[k] = s[b] /\ b = IF k < i THEN k ELSE k - 1
      BY <1>3, <2>3
    <3>3. a # b
      BY <1>4, <2>3, <3>1, <3>2
    <3> QED
      BY <3>1, <3>2, <3>3 DEF Distinct
  <2> QED
    BY <2>1, <2>2, <2>3
<1>5. Distinct(t)
  BY <1>4 DEF Distinct
<1>6. \A j \in 1..Len(t) : t[j] = c \/ \E k \in 1..Len(s) : t[j] = s[k]
  BY <1>2, <1>3
<1> QED
  BY <1>2, <1>5, <1>6 DEF t

\* Without one element, the others still have ids of their own.
LEMMA RemovedDistinct ==
  ASSUME NEW S, NEW s \in Seq(S), Distinct(s), NEW i \in 1..Len(s)
  PROVE  LET t == RemoveAt(s, i)
         IN /\ t \in Seq(S) /\ Len(t) = Len(s) - 1 /\ Distinct(t)
            /\ \A j \in 1..Len(t) : (\E k \in 1..Len(s) : t[j] = s[k]) /\ t[j].id # s[i].id
<1> DEFINE t == RemoveAt(s, i)
<1>1. Len(s) \in Nat
  BY LenProperties
<1>2. /\ t \in Seq(S) /\ Len(t) = Len(s) - 1
      /\ \A j \in 1..i - 1 : t[j] = s[j]
      /\ \A j \in i..Len(s) - 1 : t[j] = s[j + 1]
  BY <1>1, RemoveAtIs
<1> HIDE DEF t
<1>3. ASSUME NEW j \in 1..Len(t)
      PROVE  \E k \in 1..Len(s) : t[j] = s[k] /\ k = IF j < i THEN j ELSE j + 1
  <2>1. CASE j < i
    BY <1>1, <1>2, <2>1
  <2>2. CASE j >= i
    <3>1. j \in i..Len(s) - 1 /\ j + 1 \in 1..Len(s)
      BY <1>1, <1>2, <2>2
    <3>2. t[j] = s[j + 1]
      BY <1>2, <3>1
    <3> QED
      BY <2>2, <3>1, <3>2
  <2> QED
    BY <1>1, <1>2, <2>1, <2>2
<1>4. ASSUME NEW j \in 1..Len(t), NEW k \in 1..Len(t), j # k
      PROVE  t[j].id # t[k].id
  <2>1. PICK a \in 1..Len(s) : t[j] = s[a] /\ a = IF j < i THEN j ELSE j + 1
    BY <1>3
  <2>2. PICK b \in 1..Len(s) : t[k] = s[b] /\ b = IF k < i THEN k ELSE k + 1
    BY <1>3
  <2>3. a # b
    BY <1>4, <2>1, <2>2
  <2> QED
    BY <2>1, <2>2, <2>3 DEF Distinct
<1>5. ASSUME NEW j \in 1..Len(t)
      PROVE  t[j].id # s[i].id
  <2>1. PICK a \in 1..Len(s) : t[j] = s[a] /\ a = IF j < i THEN j ELSE j + 1
    BY <1>3
  <2>2. a # i
    BY <2>1
  <2> QED
    BY <2>1, <2>2 DEF Distinct
<1>6. Distinct(t)
  BY <1>4 DEF Distinct
<1>7. \A j \in 1..Len(t) : \E k \in 1..Len(s) : t[j] = s[k]
  BY <1>3
<1> QED
  BY <1>2, <1>5, <1>6, <1>7 DEF t

\* A list with a new cell under an id of its own.
LEMMA InsertedList ==
  ASSUME NEW S, NEW n, NEW s \in Lists(S, n), NEW c \in S, NEW i \in 1..Len(s) + 1,
         c.id \in 1..n, \A j \in 1..Len(s) : s[j].id # c.id
  PROVE  InsertAt(s, i, c) \in Lists(S, n)
<1> DEFINE t == InsertAt(s, i, c)
<1>1. /\ s \in Seq(S) /\ Distinct(s) /\ Len(s) \in Nat \ {0}
      /\ \A j \in 1..Len(s) : s[j].id \in 1..n
  BY ListIs
<1>2. /\ t \in Seq(S) /\ Len(t) = Len(s) + 1 /\ Distinct(t)
      /\ \A j \in 1..Len(t) : t[j] = c \/ \E k \in 1..Len(s) : t[j] = s[k]
  BY <1>1, InsertedDistinct
<1> HIDE DEF t
<1>3. Len(t) # 0 /\ \A j \in 1..Len(t) : t[j].id \in 1..n
  BY <1>1, <1>2
<1>4. t \in Lists(S, n)
  BY <1>2, <1>3, MakesList
<1> QED
  BY <1>4 DEF t

\* One cell less, of several.
LEMMA RemovedList ==
  ASSUME NEW S, NEW n, NEW s \in Lists(S, n), NEW i \in 1..Len(s), Len(s) > 1
  PROVE  RemoveAt(s, i) \in Lists(S, n)
<1> DEFINE t == RemoveAt(s, i)
<1>1. /\ s \in Seq(S) /\ Distinct(s) /\ Len(s) \in Nat \ {0}
      /\ \A j \in 1..Len(s) : s[j].id \in 1..n
  BY ListIs
<1>2. /\ t \in Seq(S) /\ Len(t) = Len(s) - 1 /\ Distinct(t)
      /\ \A j \in 1..Len(t) : \E k \in 1..Len(s) : t[j] = s[k]
  BY <1>1, RemovedDistinct
<1> HIDE DEF t
<1>3. Len(t) # 0 /\ \A j \in 1..Len(t) : t[j].id \in 1..n
  BY <1>1, <1>2
<1>4. t \in Lists(S, n)
  BY <1>2, <1>3, MakesList
<1> QED
  BY <1>4 DEF t

\* A cell is moved.
LEMMA MovedList ==
  ASSUME NEW S, NEW n, NEW s \in Lists(S, n), NEW from \in 1..Len(s), NEW to \in 1..Len(s)
  PROVE  InsertAt(RemoveAt(s, from), to, s[from]) \in Lists(S, n)
<1> DEFINE r == RemoveAt(s, from)
<1>1. /\ s \in Seq(S) /\ Distinct(s) /\ Len(s) \in Nat \ {0}
      /\ \A j \in 1..Len(s) : s[j] \in S /\ s[j].id \in 1..n
  BY ListIs
<1>2. /\ r \in Seq(S) /\ Len(r) = Len(s) - 1 /\ Distinct(r)
      /\ \A j \in 1..Len(r) : (\E k \in 1..Len(s) : r[j] = s[k]) /\ r[j].id # s[from].id
  BY <1>1, RemovedDistinct
<1> HIDE DEF r
<1> DEFINE t == InsertAt(r, to, s[from])
<1>3. to \in 1..Len(r) + 1 /\ s[from] \in S
  BY <1>1, <1>2
<1>4. /\ t \in Seq(S) /\ Len(t) = Len(r) + 1 /\ Distinct(t)
      /\ \A j \in 1..Len(t) : t[j] = s[from] \/ \E k \in 1..Len(r) : t[j] = r[k]
  BY <1>2, <1>3, InsertedDistinct
<1> HIDE DEF t
<1>5. Len(t) # 0
  BY <1>1, <1>2, <1>4
<1>6. \A j \in 1..Len(t) : t[j].id \in 1..n
  BY <1>1, <1>2, <1>4, ZenonT(40)
<1>7. t \in Lists(S, n)
  BY <1>4, <1>5, <1>6, MakesList
<1> QED
  BY <1>7 DEF t, r

\* A cell is replaced by one with the same id.
LEMMA ReplacedList ==
  ASSUME NEW S, NEW n, NEW s \in Lists(S, n), NEW i \in 1..Len(s), NEW c \in S, c.id = s[i].id
  PROVE  ReplaceAt(s, i, c) \in Lists(S, n)
<1> DEFINE t == ReplaceAt(s, i, c)
<1>1. /\ s \in Seq(S) /\ Distinct(s) /\ Len(s) \in Nat \ {0}
      /\ \A j \in 1..Len(s) : s[j].id \in 1..n
  BY ListIs
<1>2. /\ t \in Seq(S) /\ Len(t) = Len(s)
      /\ \A j \in 1..Len(s) : t[j] = IF j = i THEN c ELSE s[j]
  BY <1>1, ReplaceAtIs
<1> HIDE DEF t
<1>3. \A j \in 1..Len(t) : t[j].id = s[j].id
  BY <1>2
<1>4. Distinct(t) /\ Len(t) # 0 /\ \A j \in 1..Len(t) : t[j].id \in 1..n
  BY <1>1, <1>2, <1>3 DEF Distinct
<1>5. t \in Lists(S, n)
  BY <1>2, <1>4, MakesList
<1> QED
  BY <1>5 DEF t

\* The element of a set of numbers that has r of its elements below it.
LEMMA RankIs ==
  ASSUME NEW k \in Nat, NEW kept \in SUBSET (1..k)
  PROVE  /\ IsFiniteSet(kept) /\ Cardinality(kept) \in Nat
         /\ \A n \in 1..Cardinality(kept) :
              \E i \in kept : Cardinality({j \in kept : j < i}) = n - 1
<1> DEFINE Below(i) == {j \in kept : j < i}
           D == {n \in 1..Cardinality(kept) : ~\E i \in kept : Cardinality(Below(i)) = n - 1}
<1>1. IsFiniteSet(1..k) /\ kept \in SUBSET Nat
  BY FS_Interval
<1>2. IsFiniteSet(kept) /\ Cardinality(kept) \in Nat
  BY <1>1, FS_Subset, FS_CardinalityType
<1>3. ASSUME D # {} PROVE FALSE
  <2>1. D \in SUBSET Nat
    BY <1>2
  <2>2. PICK n : n = Min(D)
    OBVIOUS
  <2>3. n \in D /\ \A m \in D : n <= m
    BY <1>3, <2>1, <2>2, LeastNatural
  <2>4. n \in 1..Cardinality(kept) /\ \A i \in kept : Cardinality(Below(i)) # n - 1
    BY <2>3
  <2>5. CASE n = 1
    <3>1. kept # {}
      BY <1>2, <2>4, <2>5, FS_EmptySet
    <3>2. Min(kept) \in kept /\ \A m \in kept : Min(kept) <= m
      BY <1>1, <3>1, LeastNatural
    <3>3. PICK c \in kept : \A m \in kept : c <= m
      BY <3>2
    <3>4. \A m \in kept : ~(m < c)
      BY <1>1, <3>3
    <3>5. {j \in kept : j < c} = {}
      BY <3>4
    <3>6. Cardinality(Below(c)) = 0
      BY <3>5, FS_EmptySet
    <3>7. n - 1 = 0
      BY <2>5
    <3> QED
      BY <2>4, <3>3, <3>6, <3>7
  <2>6. CASE n # 1
    <3>1. n - 1 \in 1..Cardinality(kept) /\ ~(n <= n - 1)
      BY <1>2, <2>4, <2>6
    <3>2. n - 1 \notin D
      BY <2>3, <3>1
    <3>3. PICK a \in kept : Cardinality(Below(a)) = (n - 1) - 1
      BY <3>1, <3>2
    <3> DEFINE T == {j \in kept : j > a}
               B == Below(a)
    <3>4. IsFiniteSet(B) /\ a \notin B
      BY <1>1, <1>2, FS_Subset
    <3>5. Cardinality(B \union {a}) = n - 1
      <4>1. Cardinality(B \union {a}) = Cardinality(B) + 1
        BY <3>4, FS_AddElement
      <4> QED
        BY <1>2, <2>4, <3>3, <4>1
    <3>6. T # {}
      <4>1. ASSUME T = {} PROVE kept = B \union {a}
        <5>1. \A j \in kept : ~(j > a)
          BY <4>1
        <5>2. \A j \in kept : j < a \/ j = a
          BY <1>1, <5>1
        <5> QED
          BY <5>2
      <4> QED
        BY <1>2, <2>4, <3>5, <4>1
    <3>7. T \in SUBSET Nat
      BY <1>1
    <3>8. Min(T) \in T /\ \A m \in T : Min(T) <= m
      BY <3>6, <3>7, LeastNatural
    <3>9. PICK b : b = Min(T)
      OBVIOUS
    <3>10. b \in kept /\ b > a /\ \A m \in kept : m > a => b <= m
      BY <3>8, <3>9
    <3>11. Below(b) = B \union {a}
      <4>1. \A m \in kept : m < b <=> m < a \/ m = a
        BY <1>1, <3>10
      <4> QED
        BY <4>1
    <3> QED
      BY <2>4, <3>5, <3>10, <3>11
  <2> QED
    BY <2>5, <2>6
<1>4. D = {}
  BY <1>3
<1>5. \A n \in 1..Cardinality(kept) : \E i \in kept : Cardinality(Below(i)) = n - 1
  BY <1>4
<1> QED
  BY <1>2, <1>5

\* filter(), of several cells: a list again.
LEMMA WithoutList ==
  ASSUME NEW S, NEW n, NEW s \in Lists(S, n), NEW id, Len(s) > 1
  PROVE  Without(s, id) \in Lists(S, n)
<1> DEFINE others == {i \in 1..Len(s) : s[i].id # id}
           m == Cardinality(others)
           pick == [r \in 1..m |->
                      CHOOSE i \in others : Cardinality({j \in others : j < i}) = r - 1]
           t == [r \in 1..m |-> s[pick[r]]]
<1>1. /\ s \in Seq(S) /\ Distinct(s) /\ Len(s) \in Nat \ {0} /\ DOMAIN s = 1..Len(s)
      /\ \A j \in 1..Len(s) : s[j] \in S /\ s[j].id \in 1..n
  BY ListIs
<1>2. Without(s, id) = t
  BY <1>1 DEF Without
<1>3. others \in SUBSET (1..Len(s)) /\ others # {}
  <2>1. 1 \in 1..Len(s) /\ 2 \in 1..Len(s) /\ s[1].id # s[2].id
    BY <1>1 DEF Distinct
  <2> QED
    BY <2>1
<1>4. /\ IsFiniteSet(others) /\ m \in Nat
      /\ \A r \in 1..m : \E i \in others : Cardinality({j \in others : j < i}) = r - 1
  <2> HIDE DEF others
  <2> QED
    BY <1>1, <1>3, RankIs
<1>5. m # 0
  BY <1>3, <1>4, FS_EmptySet
<1>6. \A r \in 1..m : /\ pick[r] \in others
                      /\ Cardinality({j \in others : j < pick[r]}) = r - 1
  <2> HIDE DEF others, m
  <2> QED
    BY <1>4
<1>7. \A r \in 1..m : t[r] = s[pick[r]]
  OBVIOUS
<1>8. \A r, q \in 1..m : r # q => pick[r] # pick[q]
  <2> HIDE DEF others, m, pick
  <2> TAKE r, q \in 1..m
  <2>1. r - 1 = q - 1 => r = q
    BY <1>4
  <2> QED
    BY <1>6, <2>1
<1>9. \A r \in 1..m : pick[r] \in 1..Len(s)
  <2> HIDE DEF m, pick
  <2> QED
    BY <1>6
<1>10. t \in Seq(S) /\ Len(t) = m
  <2> HIDE DEF others, m, pick
  <2> QED
    BY <1>1, <1>4, <1>9
<1> HIDE DEF others, m, pick, t
<1>11. Distinct(t)
  <2>1. \A i, j \in 1..Len(s) : i # j => s[i].id # s[j].id
    BY <1>1 DEF Distinct
  <2>2. ASSUME NEW r \in 1..m, NEW q \in 1..m, r # q
        PROVE  t[r].id # t[q].id
    <3>1. pick[r] \in 1..Len(s) /\ pick[q] \in 1..Len(s) /\ pick[r] # pick[q]
      BY <2>2, <1>8, <1>9
    <3>2. t[r] = s[pick[r]] /\ t[q] = s[pick[q]]
      BY <1>7
    <3> QED
      BY <2>1, <3>1, <3>2
  <2> QED
    BY <2>2, <1>10 DEF Distinct
<1>12. \A r \in 1..Len(t) : t[r].id \in 1..n
  BY <1>1, <1>7, <1>9, <1>10
<1>13. t \in Lists(S, n)
  BY <1>5, <1>10, <1>11, <1>12, MakesList
<1> QED
  BY <1>2, <1>13

-----------------------------------------------------------------------------
(* One cell on its way between the three forms.                             *)

\* Cells of the page: the mark of a circuit is in the type, and cells that are run have
\* a place for results.  Cells of the editor: other cells have none.
SoundPage == {c \in PageCells : /\ c.lumen.circuit => c.type = "circuit"
                                /\ c.type # "markdown" => c.out # "absent"}
SoundEditor == {c \in EditorCells : c.type # "code" => c.out = "absent"}
LegalFile == {f \in FileCells :
                f.out \in (IF f.type = "code" THEN {"none", "result"} ELSE {"absent"})}

\* The cells EditorParse and EditorToJSON make of a cell.
ParsedCell(f) == [id |-> f.id, type |-> f.type, lumen |-> f.lumen, out |-> f.out,
                  circuit |-> f.lumen.circuit]
WrittenCell(c) ==
  [id |-> c.id, type |-> IF c.circuit THEN "code" ELSE c.type,
   lumen |-> [c.lumen EXCEPT !.circuit = @ \/ c.circuit],
   out |-> IF c.type # "code" THEN "absent" ELSE IF c.out = "absent" THEN "none" ELSE c.out]

\* normalizeCell.
LEMMA NormalizeIs ==
  ASSUME NEW f \in FileCells
  PROVE  LET c == NormalizeCell(f)
         IN /\ c \in SoundPage /\ c.id = f.id
            /\ c.type = (IF f.lumen.circuit THEN "circuit" ELSE f.type)
            /\ c.lumen = f.lumen /\ c.label = f.lumen.label
            /\ c.type # "markdown" => c.out = (IF f.out = "absent" THEN "none" ELSE f.out)
BY DEF NormalizeCell, FileCells, PageCells, SoundPage, Lumens, Labels, Kinds, Outputs

\* A cell as toJSON writes it.
LEMMA SerializeIs ==
  ASSUME NEW c \in SoundPage
  PROVE  LET f == SerializeCell(c)
         IN /\ f \in LegalFile /\ f.id = c.id
            /\ f.type = (IF c.type = "circuit" THEN "code" ELSE c.type)
            /\ f.lumen.circuit = (c.type = "circuit")
            /\ f.lumen.label = (IF c.label = "" THEN c.lumen.label ELSE c.label)
            /\ c.type # "markdown" => f.out = SerializeOutput(c.out)
<1>1. /\ c \in PageCells /\ c.lumen \in Lumens
      /\ c.lumen.circuit => c.type = "circuit"
      /\ c.type # "markdown" => c.out # "absent"
  BY DEF SoundPage, PageCells
<1>2. PICK l : l = [label |-> IF c.label = "" THEN c.lumen.label ELSE c.label,
                    new |-> c.new \/ c.lumen.new,
                    circuit |-> c.type = "circuit" \/ c.lumen.circuit]
  OBVIOUS
<1>3. /\ l \in Lumens /\ l.circuit = (c.type = "circuit")
      /\ l.label = (IF c.label = "" THEN c.lumen.label ELSE c.label)
  BY <1>1, <1>2 DEF Lumens, Labels, PageCells, Kinds
<1>4. PICK o : o = IF c.type = "markdown" THEN "absent" ELSE SerializeOutput(c.out)
  OBVIOUS
<1>5. PICK t : t = IF c.type = "circuit" THEN "code" ELSE c.type
  OBVIOUS
<1>6. t \in {"code", "markdown"} /\ o \in (IF t = "code" THEN {"none", "result"} ELSE {"absent"})
  BY <1>1, <1>4, <1>5 DEF PageCells, Kinds, Outputs, SerializeOutput
<1>7. SerializeCell(c) = [id |-> c.id, type |-> t, lumen |-> l, out |-> o]
  BY <1>2, <1>4, <1>5 DEF SerializeCell
<1>8. c.id \in Ids /\ o \in Outputs
  BY <1>1, <1>6 DEF PageCells, Outputs
<1>9. PICK f : f = SerializeCell(c)
  OBVIOUS
<1>10. f \in FileCells /\ f.id = c.id /\ f.type = t /\ f.lumen = l /\ f.out = o
  <2>1. t \in {"code", "markdown"} /\ l \in Lumens /\ c.id \in Ids /\ o \in Outputs
    BY <1>3, <1>6, <1>8
  <2>2. f = [id |-> c.id, type |-> t, lumen |-> l, out |-> o]
    BY <1>7, <1>9
  <2> QED
    BY <2>1, <2>2 DEF FileCells
<1>11. f \in LegalFile
  BY <1>6, <1>10 DEF LegalFile
<1>12. c.type # "markdown" => f.out = SerializeOutput(c.out)
  BY <1>4, <1>10
<1> QED
  BY <1>3, <1>5, <1>9, <1>10, <1>11, <1>12

\* A cell as parseNotebook reads it.
LEMMA ParsedIs ==
  ASSUME NEW f \in LegalFile
  PROVE  ParsedCell(f) \in SoundEditor /\ ParsedCell(f).id = f.id
<1>1. f \in FileCells /\ (f.type # "code" => f.out = "absent") /\ f.lumen.circuit \in BOOLEAN
  BY DEF LegalFile, FileCells, Lumens
<1> QED
  BY <1>1 DEF ParsedCell, SoundEditor, EditorCells, FileCells

\* A cell as the editor's toJSON writes it; a code cell always has results in the file.
LEMMA WrittenIs ==
  ASSUME NEW c \in SoundEditor
  PROVE  LET f == WrittenCell(c)
         IN /\ f \in FileCells /\ f.id = c.id
            /\ f.type = (IF c.circuit THEN "code" ELSE c.type)
            /\ f.lumen.circuit = (c.lumen.circuit \/ c.circuit)
            /\ f.lumen.label = c.lumen.label
            /\ f.out = (IF c.type # "code" THEN "absent"
                        ELSE IF c.out = "absent" THEN "none" ELSE c.out)
<1>1. c \in EditorCells /\ c.lumen \in Lumens /\ c.circuit \in BOOLEAN
  BY DEF SoundEditor, EditorCells
<1>2. PICK l : l = [c.lumen EXCEPT !.circuit = @ \/ c.circuit]
  OBVIOUS
<1>3. l \in Lumens /\ l.circuit = (c.lumen.circuit \/ c.circuit) /\ l.label = c.lumen.label
  BY <1>1, <1>2 DEF Lumens
<1>4. PICK o : o = IF c.type # "code" THEN "absent" ELSE IF c.out = "absent" THEN "none" ELSE c.out
  OBVIOUS
<1>5. PICK t : t = IF c.circuit THEN "code" ELSE c.type
  OBVIOUS
<1>6. WrittenCell(c) = [id |-> c.id, type |-> t, lumen |-> l, out |-> o]
  BY <1>2, <1>4, <1>5 DEF WrittenCell
<1>7. t \in {"code", "markdown"} /\ o \in Outputs /\ c.id \in Ids
  BY <1>1, <1>4, <1>5 DEF EditorCells, Outputs
<1>8. WrittenCell(c) \in FileCells
  BY <1>3, <1>6, <1>7 DEF FileCells
<1> QED
  BY <1>3, <1>4, <1>5, <1>6, <1>8

\* What the editor shows of a cell.
ShownOf(c) == [id |-> c.id, kind |-> Kind(c), label |-> c.lumen.label,
               results |-> Kind(c) # "markdown" /\ Visible(c.out)]

\* A cell of the page, from its file: what the editor shows of it when it is parsed.
LEMMA PageShown ==
  ASSUME NEW c \in SoundPage
  PROVE  LET e == ParsedCell(SerializeCell(c))
         IN /\ e \in SoundEditor /\ e.id = c.id /\ Kind(e) = c.type
            /\ e.lumen.label = (IF c.label = "" THEN c.lumen.label ELSE c.label)
            /\ c.type # "markdown" => e.out = SerializeOutput(c.out)
<1>1. PICK f : f = SerializeCell(c)
  OBVIOUS
<1>2. /\ f \in LegalFile /\ f.id = c.id /\ f.type = (IF c.type = "circuit" THEN "code" ELSE c.type)
      /\ f.lumen.circuit = (c.type = "circuit")
      /\ f.lumen.label = (IF c.label = "" THEN c.lumen.label ELSE c.label)
      /\ c.type # "markdown" => f.out = SerializeOutput(c.out)
  BY <1>1, SerializeIs
<1>3. ParsedCell(f) \in SoundEditor /\ ParsedCell(f).id = f.id
  BY <1>2, ParsedIs
<1>4. /\ ParsedCell(f).lumen = f.lumen /\ ParsedCell(f).out = f.out
      /\ ParsedCell(f).circuit = f.lumen.circuit /\ ParsedCell(f).type = f.type
  BY DEF ParsedCell
<1>5. Kind(ParsedCell(f)) = c.type
  BY <1>2, <1>4 DEF Kind
<1> QED
  BY <1>1, <1>2, <1>3, <1>4, <1>5

\* A cell of the editor, read back by the page.
LEMMA ReadBack ==
  ASSUME NEW c \in SoundEditor
  PROVE  LET p == NormalizeCell(WrittenCell(c))
         IN /\ p \in SoundPage /\ p.id = c.id /\ p.type = Kind(c)
            /\ p.label = c.lumen.label /\ p.lumen.label = c.lumen.label
            /\ p.type # "markdown" => (Visible(p.out) <=> Visible(c.out))
<1>1. PICK f : f = WrittenCell(c)
  OBVIOUS
<1>2. /\ f \in FileCells /\ f.id = c.id /\ f.type = (IF c.circuit THEN "code" ELSE c.type)
      /\ f.lumen.circuit = (c.lumen.circuit \/ c.circuit) /\ f.lumen.label = c.lumen.label
      /\ f.out = (IF c.type # "code" THEN "absent" ELSE IF c.out = "absent" THEN "none" ELSE c.out)
  BY <1>1, WrittenIs
<1>3. PICK p : p = NormalizeCell(f)
  OBVIOUS
<1>4. /\ p \in SoundPage /\ p.id = f.id /\ p.type = (IF f.lumen.circuit THEN "circuit" ELSE f.type)
      /\ p.lumen = f.lumen /\ p.label = f.lumen.label
      /\ p.type # "markdown" => p.out = (IF f.out = "absent" THEN "none" ELSE f.out)
  BY <1>2, <1>3, NormalizeIs
<1>5. /\ c.type # "code" => c.out = "absent"
      /\ c.circuit \in BOOLEAN /\ c.lumen.circuit \in BOOLEAN
  BY DEF SoundEditor, EditorCells, Lumens
<1>6. p.type = Kind(c)
  BY <1>2, <1>4, <1>5 DEF Kind
<1>7. p.type # "markdown" => (Visible(p.out) <=> Visible(c.out))
  BY <1>2, <1>4, <1>5 DEF Visible
<1> QED
  BY <1>1, <1>2, <1>3, <1>4, <1>6, <1>7

\* A cell of the page, stored and read again.
LEMMA StoredAgain ==
  ASSUME NEW c \in SoundPage
  PROVE  LET p == NormalizeCell(SerializeCell(c))
         IN /\ p \in SoundPage /\ p.id = c.id /\ p.type = c.type
            /\ p.label = (IF c.label = "" THEN c.lumen.label ELSE c.label)
            /\ p.lumen.label = p.label
            /\ p.type # "markdown" => (Visible(p.out) <=> Visible(c.out))
<1>1. PICK f : f = SerializeCell(c)
  OBVIOUS
<1>2. /\ f \in FileCells /\ f.id = c.id /\ f.type = (IF c.type = "circuit" THEN "code" ELSE c.type)
      /\ f.lumen.circuit = (c.type = "circuit")
      /\ f.lumen.label = (IF c.label = "" THEN c.lumen.label ELSE c.label)
      /\ c.type # "markdown" => f.out = SerializeOutput(c.out)
  BY <1>1, SerializeIs DEF LegalFile
<1>3. PICK p : p = NormalizeCell(f)
  OBVIOUS
<1>4. /\ p \in SoundPage /\ p.id = f.id /\ p.type = (IF f.lumen.circuit THEN "circuit" ELSE f.type)
      /\ p.lumen = f.lumen /\ p.label = f.lumen.label
      /\ p.type # "markdown" => p.out = (IF f.out = "absent" THEN "none" ELSE f.out)
  BY <1>2, <1>3, NormalizeIs
<1>5. p.type = c.type
  BY <1>2, <1>4
<1>6. p.type # "markdown" => (Visible(p.out) <=> Visible(c.out))
  BY <1>2, <1>4, <1>5 DEF Visible, SerializeOutput
<1> QED
  BY <1>1, <1>2, <1>3, <1>4, <1>5, <1>6

\* A cell of the editor that is saved and opened again is shown as before.
LEMMA ShownAgain ==
  ASSUME NEW c \in SoundEditor
  PROVE  ShownOf(ParsedCell(SerializeCell(NormalizeCell(SerializeCell(
           NormalizeCell(WrittenCell(c))))))) = ShownOf(c)
<1>1. PICK p : p = NormalizeCell(WrittenCell(c))
  OBVIOUS
<1>2. /\ p \in SoundPage /\ p.id = c.id /\ p.type = Kind(c)
      /\ p.label = c.lumen.label /\ p.lumen.label = c.lumen.label
      /\ p.type # "markdown" => (Visible(p.out) <=> Visible(c.out))
  BY <1>1, ReadBack
<1>3. PICK q : q = NormalizeCell(SerializeCell(p))
  OBVIOUS
<1>4. /\ q \in SoundPage /\ q.id = p.id /\ q.type = p.type /\ q.label = c.lumen.label
      /\ q.lumen.label = c.lumen.label
      /\ q.type # "markdown" => (Visible(q.out) <=> Visible(p.out))
  BY <1>2, <1>3, StoredAgain
<1>5. PICK e : e = ParsedCell(SerializeCell(q))
  OBVIOUS
<1>6. /\ e.id = q.id /\ Kind(e) = q.type /\ e.lumen.label = c.lumen.label
      /\ q.type # "markdown" => e.out = SerializeOutput(q.out)
  BY <1>4, <1>5, PageShown
<1>7. e.id = c.id /\ Kind(e) = Kind(c)
  BY <1>2, <1>4, <1>6
<1>8. (Kind(e) # "markdown" /\ Visible(e.out)) <=> (Kind(c) # "markdown" /\ Visible(c.out))
  BY <1>2, <1>4, <1>6, <1>7 DEF Visible, SerializeOutput
<1>9. (Kind(e) # "markdown" /\ Visible(e.out)) = (Kind(c) # "markdown" /\ Visible(c.out))
  BY <1>8 DEF Visible
<1>10. ShownOf(e) = ShownOf(c)
  BY <1>6, <1>7, <1>9 DEF ShownOf
<1> QED
  BY <1>1, <1>3, <1>5, <1>10

-----------------------------------------------------------------------------
(* Whole lists on their way.                                                *)

\* The page writes legal files, cell by cell.
LEMMA ToJSONIs ==
  ASSUME NEW n, NEW s \in Lists(SoundPage, n)
  PROVE  /\ ToJSON(s) \in Lists(LegalFile, n) /\ Len(ToJSON(s)) = Len(s)
         /\ \A i \in 1..Len(s) : ToJSON(s)[i] = SerializeCell(s[i])
<1>1. DOMAIN s = 1..Len(s) /\ \A i \in 1..Len(s) : s[i] \in SoundPage
  BY ListIs
<1>2. PICK t : t = ToJSON(s)
  OBVIOUS
<1>3. t = [i \in 1..Len(s) |-> SerializeCell(s[i])]
  BY <1>1, <1>2 DEF ToJSON
<1>4. /\ DOMAIN t = 1..Len(s) /\ t = [i \in 1..Len(s) |-> t[i]]
      /\ \A i \in 1..Len(s) : t[i] = SerializeCell(s[i])
  BY <1>3
<1>5. \A i \in 1..Len(s) : t[i] \in LegalFile /\ t[i].id = s[i].id
  BY <1>1, <1>4, SerializeIs
<1>6. t \in Lists(LegalFile, n) /\ Len(t) = Len(s)
  BY <1>4, <1>5, SameIds
<1> QED
  BY <1>2, <1>4, <1>6

\* A list in a file is not empty, so that the page makes up no cell.
LEMMA FromJSONIs ==
  ASSUME NEW n, NEW s \in Lists(FileCells, n), NEW id
  PROVE  /\ FromJSON(s, id) \in Lists(SoundPage, n) /\ Len(FromJSON(s, id)) = Len(s)
         /\ \A i \in 1..Len(s) : FromJSON(s, id)[i] = NormalizeCell(s[i])
<1>1. DOMAIN s = 1..Len(s) /\ \A i \in 1..Len(s) : s[i] \in FileCells
  BY ListIs
<1>2. PICK t : t = FromJSON(s, id)
  OBVIOUS
<1>3. t = [i \in 1..Len(s) |-> NormalizeCell(s[i])]
  BY <1>1, <1>2 DEF FromJSON, Lists
<1>4. /\ DOMAIN t = 1..Len(s) /\ t = [i \in 1..Len(s) |-> t[i]]
      /\ \A i \in 1..Len(s) : t[i] = NormalizeCell(s[i])
  BY <1>3
<1>5. \A i \in 1..Len(s) : t[i] \in SoundPage /\ t[i].id = s[i].id
  BY <1>1, <1>4, NormalizeIs
<1>6. t \in Lists(SoundPage, n) /\ Len(t) = Len(s)
  BY <1>4, <1>5, SameIds
<1> QED
  BY <1>2, <1>4, <1>6

\* The editor reads a legal file cell by cell.
LEMMA EditorParseIs ==
  ASSUME NEW n, NEW s \in Lists(LegalFile, n)
  PROVE  /\ EditorParse(s) \in Lists(SoundEditor, n) /\ Len(EditorParse(s)) = Len(s)
         /\ \A i \in 1..Len(s) : EditorParse(s)[i] = ParsedCell(s[i])
<1>1. DOMAIN s = 1..Len(s) /\ \A i \in 1..Len(s) : s[i] \in LegalFile
  BY ListIs
<1>2. PICK t : t = EditorParse(s)
  OBVIOUS
<1>3. t = [i \in 1..Len(s) |-> ParsedCell(s[i])]
  BY <1>1, <1>2 DEF EditorParse, ParsedCell
<1>4. /\ DOMAIN t = 1..Len(s) /\ t = [i \in 1..Len(s) |-> t[i]]
      /\ \A i \in 1..Len(s) : t[i] = ParsedCell(s[i])
  BY <1>3
<1>5. \A i \in 1..Len(s) : t[i] \in SoundEditor /\ t[i].id = s[i].id
  BY <1>1, <1>4, ParsedIs
<1>6. t \in Lists(SoundEditor, n) /\ Len(t) = Len(s)
  BY <1>4, <1>5, SameIds
<1> QED
  BY <1>2, <1>4, <1>6

\* The editor writes a file cell by cell. It may be one that is not legal: the wire's
\* update_display_data is written as it is.
LEMMA EditorToJSONIs ==
  ASSUME NEW n, NEW s \in Lists(SoundEditor, n)
  PROVE  /\ EditorToJSON(s) \in Lists(FileCells, n) /\ Len(EditorToJSON(s)) = Len(s)
         /\ \A i \in 1..Len(s) : EditorToJSON(s)[i] = WrittenCell(s[i])
<1>1. DOMAIN s = 1..Len(s) /\ \A i \in 1..Len(s) : s[i] \in SoundEditor
  BY ListIs
<1>2. PICK t : t = EditorToJSON(s)
  OBVIOUS
<1>3. t = [i \in 1..Len(s) |-> WrittenCell(s[i])]
  BY <1>1, <1>2 DEF EditorToJSON, WrittenCell
<1>4. /\ DOMAIN t = 1..Len(s) /\ t = [i \in 1..Len(s) |-> t[i]]
      /\ \A i \in 1..Len(s) : t[i] = WrittenCell(s[i])
  BY <1>3
<1>5. \A i \in 1..Len(s) : t[i] \in FileCells /\ t[i].id = s[i].id
  BY <1>1, <1>4, WrittenIs
<1>6. t \in Lists(FileCells, n) /\ Len(t) = Len(s)
  BY <1>4, <1>5, SameIds
<1> QED
  BY <1>2, <1>4, <1>6

\* What is legal in a file is a file.
LEMMA LegalFilesAre == \A n : Lists(LegalFile, n) \subseteq Lists(FileCells, n)
<1>1. LegalFile \subseteq FileCells
  BY DEF LegalFile
<1>2. Seq(LegalFile) \subseteq Seq(FileCells)
  BY <1>1, SeqMonotonic
<1> QED
  BY <1>2 DEF Lists

\* The page's list and the editor's: the same cells, in the same order, of the same kinds.
Agree(p, e) ==
  /\ Len(p) = Len(e)
  /\ \A i \in 1..Len(p) : p[i].id = e[i].id /\ p[i].type = Kind(e[i])

\* The editor that the page rebuilds, and the page that reads the editor.
LEMMA RebuiltAgrees ==
  ASSUME NEW n, NEW p \in Lists(SoundPage, n)
  PROVE  /\ EditorParse(ToJSON(p)) \in Lists(SoundEditor, n)
         /\ Agree(p, EditorParse(ToJSON(p)))
<1>1. PICK f : f = ToJSON(p)
  OBVIOUS
<1>2. /\ f \in Lists(LegalFile, n) /\ Len(f) = Len(p)
      /\ \A i \in 1..Len(p) : f[i] = SerializeCell(p[i])
  BY <1>1, ToJSONIs
<1>3. PICK e : e = EditorParse(f)
  OBVIOUS
<1>4. /\ e \in Lists(SoundEditor, n) /\ Len(e) = Len(p)
      /\ \A i \in 1..Len(p) : e[i] = ParsedCell(f[i])
  BY <1>2, <1>3, EditorParseIs
<1>5. \A i \in 1..Len(p) : p[i] \in SoundPage
  BY ListIs
<1>6. \A i \in 1..Len(p) : e[i].id = p[i].id /\ Kind(e[i]) = p[i].type
  BY <1>2, <1>4, <1>5, PageShown
<1> QED
  BY <1>1, <1>3, <1>4, <1>6 DEF Agree

\* The page that reads the editor shows the same cells.
LEMMA ReadAgrees ==
  ASSUME NEW n, NEW e \in Lists(SoundEditor, n), NEW id
  PROVE  LET p == FromJSON(EditorToJSON(e), id)
         IN /\ p \in Lists(SoundPage, n) /\ Agree(p, e) /\ Len(p) = Len(e)
            /\ \A i \in 1..Len(e) : p[i] = NormalizeCell(WrittenCell(e[i]))
<1>1. PICK f : f = EditorToJSON(e)
  OBVIOUS
<1>2. /\ f \in Lists(FileCells, n) /\ Len(f) = Len(e)
      /\ \A i \in 1..Len(e) : f[i] = WrittenCell(e[i])
  BY <1>1, EditorToJSONIs
<1>3. PICK p : p = FromJSON(f, id)
  OBVIOUS
<1>4. /\ p \in Lists(SoundPage, n) /\ Len(p) = Len(e)
      /\ \A i \in 1..Len(e) : p[i] = NormalizeCell(f[i])
  BY <1>2, <1>3, FromJSONIs
<1>5. \A i \in 1..Len(e) : e[i] \in SoundEditor
  BY ListIs
<1>6. \A i \in 1..Len(e) : p[i] = NormalizeCell(WrittenCell(e[i]))
  BY <1>2, <1>4
<1>7. \A i \in 1..Len(e) : p[i].id = e[i].id /\ p[i].type = Kind(e[i])
  BY <1>5, <1>6, ReadBack
<1> QED
  BY <1>1, <1>3, <1>4, <1>6, <1>7 DEF Agree

\* The page that reads what it stored.
LEMMA StoredIs ==
  ASSUME NEW n, NEW p \in Lists(SoundPage, n), NEW id
  PROVE  LET f == ToJSON(p)
             q == FromJSON(f, id)
         IN /\ f \in Lists(LegalFile, n) /\ q \in Lists(SoundPage, n) /\ Len(q) = Len(p)
            /\ \A i \in 1..Len(p) : q[i] = NormalizeCell(SerializeCell(p[i]))
            /\ \A i \in 1..Len(p) : q[i].id = p[i].id /\ q[i].type = p[i].type
<1>1. PICK f : f = ToJSON(p)
  OBVIOUS
<1>2. /\ f \in Lists(LegalFile, n) /\ f \in Lists(FileCells, n) /\ Len(f) = Len(p)
      /\ \A i \in 1..Len(p) : f[i] = SerializeCell(p[i])
  BY <1>1, ToJSONIs, LegalFilesAre
<1>3. PICK q : q = FromJSON(f, id)
  OBVIOUS
<1>4. /\ q \in Lists(SoundPage, n) /\ Len(q) = Len(p)
      /\ \A i \in 1..Len(p) : q[i] = NormalizeCell(f[i])
  BY <1>2, <1>3, FromJSONIs
<1>5. \A i \in 1..Len(p) : p[i] \in SoundPage
  BY ListIs
<1>6. \A i \in 1..Len(p) : q[i] = NormalizeCell(SerializeCell(p[i]))
  BY <1>2, <1>4
<1>7. \A i \in 1..Len(p) : q[i].id = p[i].id /\ q[i].type = p[i].type
  BY <1>5, <1>6, StoredAgain
<1> QED
  BY <1>1, <1>2, <1>3, <1>4, <1>6, <1>7

\* Saved and opened again, the editor shows the same.
LEMMA SavedShows ==
  ASSUME NEW n, NEW e \in Lists(SoundEditor, n), NEW id, NEW other
  PROVE  LET f == ToJSON(FromJSON(EditorToJSON(e), id))
         IN EditorShows(EditorParse(ToJSON(FromJSON(f, other)))) = EditorShows(e)
<1>1. PICK p : p = FromJSON(EditorToJSON(e), id)
  OBVIOUS
<1>2. /\ p \in Lists(SoundPage, n) /\ Len(p) = Len(e)
      /\ \A i \in 1..Len(e) : p[i] = NormalizeCell(WrittenCell(e[i]))
  BY <1>1, ReadAgrees
<1>3. PICK q : q = FromJSON(ToJSON(p), other)
  OBVIOUS
<1>4. /\ q \in Lists(SoundPage, n) /\ Len(q) = Len(p)
      /\ \A i \in 1..Len(p) : q[i] = NormalizeCell(SerializeCell(p[i]))
  BY <1>2, <1>3, StoredIs
<1>5. PICK f : f = ToJSON(q)
  OBVIOUS
<1>6. /\ f \in Lists(LegalFile, n) /\ Len(f) = Len(q)
      /\ \A i \in 1..Len(q) : f[i] = SerializeCell(q[i])
  BY <1>4, <1>5, ToJSONIs
<1>7. PICK r : r = EditorParse(f)
  OBVIOUS
<1>8. /\ r \in Lists(SoundEditor, n) /\ Len(r) = Len(f)
      /\ \A i \in 1..Len(f) : r[i] = ParsedCell(f[i])
  BY <1>6, <1>7, EditorParseIs
<1>9. DOMAIN r = 1..Len(e) /\ DOMAIN e = 1..Len(e) /\ \A i \in 1..Len(e) : e[i] \in SoundEditor
  BY <1>2, <1>4, <1>6, <1>8, ListIs
<1>10. \A i \in 1..Len(e) : r[i] = ParsedCell(SerializeCell(NormalizeCell(SerializeCell(
                                     NormalizeCell(WrittenCell(e[i]))))))
  BY <1>2, <1>4, <1>6, <1>8
<1>11. \A i \in 1..Len(e) : ShownOf(r[i]) = ShownOf(e[i])
  BY <1>9, <1>10, ShownAgain
<1>12. /\ EditorShows(r) = [i \in 1..Len(e) |-> ShownOf(r[i])]
       /\ EditorShows(e) = [i \in 1..Len(e) |-> ShownOf(e[i])]
  BY <1>9 DEF EditorShows, ShownOf
<1>13. EditorShows(r) = EditorShows(e)
  BY <1>11, <1>12
<1> QED
  BY <1>1, <1>3, <1>5, <1>7, <1>13

-----------------------------------------------------------------------------
(* The invariant.                                                           *)

\* There are always cells, and each has an id of its own among those given; every step
\* that gives an id is counted.
TypeInv ==
  /\ fresh \in Nat /\ steps \in 0..MaxSteps /\ fresh <= Highest + 2 + steps
  /\ notebook \in Lists(SoundPage, fresh)
  /\ editor \in Lists(SoundEditor, fresh)
  /\ stored \in Lists(LegalFile, fresh)
  /\ \E x : dragId \subseteq {x}

\* An editor that is saved shows what the stored file shows, whatever id a new cell
\* would get.
SavedInv ==
  saved => \A id : EditorShows(EditorParse(ToJSON(FromJSON(stored, id)))) = EditorShows(editor)

IInv == TypeInv /\ Agree(notebook, editor) /\ SavedInv

\* The greatest id an imported file may use.
LEMMA HighestIs == Highest \in ForeignIds /\ Highest \in Nat /\ \A id \in ForeignIds : id <= Highest
BY CellsAssumption DEF Highest

\* importNotebook: whatever ids the file uses.
LEMMA ImportedIs ==
  ASSUME NEW s \in Seq(SoundPage), Len(s) \in 1..2,
         \A i \in 1..Len(s) : s[i].id \in ForeignIds \union {0}
  PROVE  /\ ImportCells(s, Highest) \in Lists(SoundPage, Highest + Len(s))
         /\ Len(ImportCells(s, Highest)) = Len(s)
<1> DEFINE Used(i) == \E j \in 1..i - 1 : s[j].id = s[i].id
           Id(i) == IF s[i].id = 0 \/ Used(i) THEN Highest + i ELSE s[i].id
<1>1. PICK k \in 1..2 : k = Len(s)
  OBVIOUS
<1>2. DOMAIN s = 1..k /\ \A i \in 1..k : s[i] \in SoundPage
  BY <1>1, LenProperties, ElementOfSeq
<1>3. PICK t : t = ImportCells(s, Highest)
  OBVIOUS
<1>4. t = [i \in 1..k |-> [s[i] EXCEPT !.new = FALSE,
                             !.id = IF @ = 0 \/ Used(i) THEN Highest + i ELSE @]]
  BY <1>2, <1>3 DEF ImportCells
<1>5. \A i \in 1..k : s[i].id \in Nat /\ s[i].id <= Highest
  <2>1. TAKE i \in 1..k
  <2>2. s[i].id \in ForeignIds \/ s[i].id = 0
    BY <1>1
  <2>3. \A id \in ForeignIds : id \in Nat /\ id <= Highest
    BY HighestIs, CellsAssumption
  <2>4. 0 <= Highest
    BY HighestIs
  <2> QED
    BY <2>2, <2>3, <2>4
<1>6. \A i \in 1..k : Id(i) \in 1..Highest + k /\ Id(i) \in Ids
  <2>1. TAKE i \in 1..k
  <2>2. s[i].id \in Nat /\ s[i].id <= Highest /\ Highest \in Nat /\ MaxSteps \in Nat
    BY <1>5, HighestIs, CellsAssumption
  <2>3. Highest + i \in 1..Highest + k /\ Highest + i \in 0..(Highest + 2 + MaxSteps)
    BY <2>2
  <2>4. s[i].id # 0 => s[i].id \in 1..Highest + k /\ s[i].id \in 0..(Highest + 2 + MaxSteps)
    BY <2>2
  <2> QED
    BY <2>3, <2>4 DEF Ids
<1>7. \A i \in 1..k : t[i] \in SoundPage /\ t[i].id = Id(i)
  <2>1. TAKE i \in 1..k
  <2>2. PICK x : x = Id(i)
    OBVIOUS
  <2>3. t[i] = [s[i] EXCEPT !.new = FALSE, !.id = x]
    BY <1>2, <1>4, <2>2 DEF SoundPage, PageCells
  <2>4. x \in Ids /\ s[i] \in SoundPage
    BY <1>2, <1>6, <2>2
  <2>5. t[i] \in SoundPage /\ t[i].id = x
    BY <2>3, <2>4 DEF SoundPage, PageCells
  <2> QED
    BY <2>2, <2>5
<1>8. t \in Seq(SoundPage) /\ Len(t) = k
  <2> DEFINE Cell(i) == [s[i] EXCEPT !.new = FALSE,
                           !.id = IF @ = 0 \/ Used(i) THEN Highest + i ELSE @]
  <2>3. t = [i \in 1..k |-> Cell(i)]
    BY <1>4
  <2> HIDE DEF Cell
  <2>1. t = [i \in 1..k |-> t[i]] /\ k \in Nat
    BY <2>3
  <2>2. \A i \in 1..k : t[i] \in SoundPage
    BY <1>7
  <2> QED
    BY <2>1, <2>2
<1>9. ASSUME NEW i \in 1..k, NEW j \in 1..k, i < j PROVE Id(i) # Id(j)
  <2>1. /\ s[i].id \in Nat /\ s[i].id <= Highest /\ s[j].id \in Nat /\ s[j].id <= Highest
        /\ Highest \in Nat
    BY <1>5, HighestIs
  <2>2. s[i].id = s[j].id => Used(j)
    BY <1>9
  <2>3. Highest + i # Highest + j /\ Highest + i # s[j].id /\ s[i].id # Highest + j
    BY <1>9, <2>1
  <2> QED
    BY <2>2, <2>3
<1>10. \A i, j \in 1..k : i # j => Id(i) # Id(j)
  <2> HIDE DEF Id
  <2>1. TAKE i, j \in 1..k
  <2>2. i # j => i < j \/ j < i
    OBVIOUS
  <2> QED
    BY <1>9, <2>2
<1> HIDE DEF Id
<1>11. Distinct(t) /\ Len(t) # 0 /\ \A i \in 1..Len(t) : t[i].id \in 1..Highest + k
  BY <1>6, <1>7, <1>8, <1>10 DEF Distinct
<1>12. t \in Lists(SoundPage, Highest + k)
  BY <1>8, <1>11, MakesList
<1> QED
  BY <1>1, <1>3, <1>8, <1>12

\* The id for a made-up cell does not matter to a file that has cells.
LEMMA AnyId ==
  ASSUME NEW S, NEW n, NEW s \in Lists(S, n), NEW a, NEW b
  PROVE  FromJSON(s, a) = FromJSON(s, b)
BY DEF FromJSON, Lists

\* What the page makes of a foreign file, before it is imported.
LEMMA ForeignIs ==
  ASSUME NEW n \in 0..2, NEW file \in [1..n -> Foreign]
  PROVE  LET s == FromJSON(file, 0)
         IN /\ s \in Seq(SoundPage) /\ Len(s) \in 1..2
            /\ \A i \in 1..Len(s) : s[i].id \in ForeignIds \union {0}
<1>1. \A f \in Foreign : f \in FileCells /\ f.id \in ForeignIds
  BY DEF Foreign
<1>2. CASE n = 0
  <2>1. file = <<>>
    BY <1>2
  <2>2. PICK c : c = CreateCell(0, "code", TRUE)
    OBVIOUS
  <2>3. 0 \in Ids
    <3>1. Highest \in Nat /\ MaxSteps \in Nat
      BY HighestIs, CellsAssumption
    <3> QED
      BY <3>1 DEF Ids
  <2>4. c \in SoundPage /\ c.id = 0
    BY <2>2, <2>3 DEF CreateCell, SoundPage, PageCells, Plain, Lumens, Labels, Kinds, Outputs
  <2>5. PICK s : s = FromJSON(file, 0)
    OBVIOUS
  <2>6. s = <<c>>
    BY <2>1, <2>2, <2>5 DEF FromJSON
  <2>7. s \in Seq(SoundPage) /\ Len(s) = 1 /\ s[1] = c
    BY <2>4, <2>6
  <2> QED
    BY <2>4, <2>5, <2>7
<1>3. CASE n # 0
  <2>1. file # <<>> /\ DOMAIN file = 1..n /\ \A i \in 1..n : file[i] \in Foreign
    BY <1>3
  <2>2. PICK s : s = FromJSON(file, 0)
    OBVIOUS
  <2>3. s = [i \in 1..n |-> NormalizeCell(file[i])]
    BY <2>1, <2>2 DEF FromJSON
  <2>4. \A i \in 1..n : /\ NormalizeCell(file[i]) \in SoundPage
                        /\ NormalizeCell(file[i]).id = file[i].id
    BY <1>1, <2>1, NormalizeIs
  <2>5. s \in Seq(SoundPage) /\ Len(s) = n /\ \A i \in 1..n : s[i].id = file[i].id
    BY <2>3, <2>4
  <2>6. \A i \in 1..Len(s) : s[i].id \in ForeignIds
    BY <1>1, <2>1, <2>5
  <2>7. Len(s) \in 1..2
    BY <1>3, <2>5
  <2> QED
    BY <2>2, <2>5, <2>6, <2>7
<1> QED
  BY <1>2, <1>3

\* A notebook that was imported, stored and opened.
LEMMA IInvInit == Init => IInv
<1> SUFFICES ASSUME Init PROVE IInv
  OBVIOUS
<1>0. PICK n \in 0..2 : \E file \in [1..n -> Foreign] :
        /\ stored = ToJSON(ImportCells(FromJSON(file, 0), Highest))
        /\ notebook = FromJSON(stored, 0)
        /\ editor = EditorParse(ToJSON(notebook))
        /\ fresh = Highest + Len(ImportCells(FromJSON(file, 0), Highest))
  BY DEF Init
<1>1. PICK file \in [1..n -> Foreign] :
        /\ stored = ToJSON(ImportCells(FromJSON(file, 0), Highest))
        /\ notebook = FromJSON(stored, 0)
        /\ editor = EditorParse(ToJSON(notebook))
        /\ fresh = Highest + Len(ImportCells(FromJSON(file, 0), Highest))
  BY <1>0
<1>2. saved = TRUE /\ dragId = {} /\ steps = 0
  BY DEF Init
<1>3. PICK s : s = FromJSON(file, 0)
  OBVIOUS
<1>4. /\ s \in Seq(SoundPage) /\ Len(s) \in 1..2
      /\ \A i \in 1..Len(s) : s[i].id \in ForeignIds \union {0}
  BY <1>3, ForeignIs
<1>5. PICK t : t = ImportCells(s, Highest)
  OBVIOUS
<1>6. t \in Lists(SoundPage, Highest + Len(s)) /\ Len(t) = Len(s)
  BY <1>4, <1>5, ImportedIs
<1>7. fresh = Highest + Len(s) /\ stored = ToJSON(t)
  BY <1>1, <1>3, <1>5, <1>6
<1>8. fresh \in Nat /\ fresh <= Highest + 2 + steps /\ steps \in 0..MaxSteps
  BY <1>2, <1>4, <1>7, HighestIs, CellsAssumption
<1>9. t \in Lists(SoundPage, fresh)
  BY <1>6, <1>7
<1>10. stored \in Lists(LegalFile, fresh) /\ notebook \in Lists(SoundPage, fresh)
  BY <1>1, <1>7, <1>9, StoredIs
<1>11. editor \in Lists(SoundEditor, fresh) /\ Agree(notebook, editor)
  BY <1>1, <1>10, RebuiltAgrees
<1>12. \A id : FromJSON(stored, id) = notebook
  BY <1>1, <1>10, AnyId
<1>13. SavedInv
  BY <1>1, <1>12 DEF SavedInv
<1>14. TypeInv
  BY <1>2, <1>8, <1>10, <1>11 DEF TypeInv
<1> QED
  BY <1>11, <1>13, <1>14 DEF IInv

-----------------------------------------------------------------------------
(* Every step keeps the invariant.                                          *)

\* A step of the user: the next id is one that could be counted.
LEMMA Stepped ==
  ASSUME TypeInv, Step, fresh' \in {fresh, fresh + 1}
  PROVE  /\ fresh' \in Nat /\ steps' \in 0..MaxSteps /\ fresh' <= Highest + 2 + steps'
         /\ fresh \in Nat /\ fresh <= fresh'
<1>1. /\ fresh \in Nat /\ steps \in 0..MaxSteps /\ fresh <= Highest + 2 + steps
      /\ steps < MaxSteps /\ steps' = steps + 1 /\ MaxSteps \in Nat /\ Highest \in Nat
  BY HighestIs, CellsAssumption DEF TypeInv, Step
<1>2. \A f, h, s, m \in Nat : f <= h + 2 + s /\ s < m =>
        /\ f <= h + 2 + (s + 1) /\ f + 1 <= h + 2 + (s + 1) /\ s + 1 \in 0..m
        /\ f <= f + 1 /\ f <= f
  OBVIOUS
<1>3. steps \in Nat
  BY <1>1
<1>4. /\ fresh <= Highest + 2 + (steps + 1) /\ fresh + 1 <= Highest + 2 + (steps + 1)
      /\ steps + 1 \in 0..MaxSteps /\ fresh <= fresh + 1 /\ fresh <= fresh
  BY <1>1, <1>2, <1>3
<1>5. fresh' = fresh \/ fresh' = fresh + 1
  OBVIOUS
<1> QED
  BY <1>1, <1>4, <1>5

\* The next id, which no cell has, fits.
LEMMA NextId ==
  ASSUME TypeInv, Step
  PROVE  /\ fresh \in Nat /\ fresh + 1 \in Ids /\ fresh + 1 \in 1..fresh + 1
         /\ notebook \in Lists(SoundPage, fresh + 1) /\ editor \in Lists(SoundEditor, fresh + 1)
         /\ \A i \in 1..Len(notebook) : notebook[i].id # fresh + 1
         /\ \A i \in 1..Len(editor) : editor[i].id # fresh + 1
<1>1. /\ fresh \in Nat /\ steps \in 0..MaxSteps /\ fresh <= Highest + 2 + steps
      /\ steps < MaxSteps /\ MaxSteps \in Nat /\ Highest \in Nat
      /\ notebook \in Lists(SoundPage, fresh) /\ editor \in Lists(SoundEditor, fresh)
  BY HighestIs, CellsAssumption DEF TypeInv, Step
<1>2. /\ fresh + 1 \in Nat /\ fresh <= fresh + 1
      /\ fresh + 1 \in 1..fresh + 1 /\ fresh + 1 \notin 1..fresh
  BY <1>1
<1>3. fresh + 1 \in Ids
  BY <1>1 DEF Ids
<1>4. /\ \A i \in 1..Len(notebook) : notebook[i].id \in 1..fresh
      /\ \A i \in 1..Len(editor) : editor[i].id \in 1..fresh
  BY <1>1, ListIs
<1>5. notebook \in Lists(SoundPage, fresh + 1) /\ editor \in Lists(SoundEditor, fresh + 1)
  BY <1>1, <1>2, MoreIds
<1> QED
  BY <1>1, <1>2, <1>3, <1>4, <1>5

\* The page changes its cells.
LEMMA PageStep ==
  ASSUME IInv, NEW cells \in Lists(SoundPage, fresh'), PageCellsBecome(cells),
         fresh' \in {fresh, fresh + 1}, NEW x, dragId' \subseteq {x}
  PROVE  IInv'
<1>1. /\ Step /\ notebook' = cells /\ editor' = EditorParse(ToJSON(cells))
      /\ saved' = FALSE /\ stored' = stored /\ TypeInv
  BY DEF PageCellsBecome, IInv
<1>2. /\ fresh' \in Nat /\ steps' \in 0..MaxSteps /\ fresh' <= Highest + 2 + steps'
      /\ fresh \in Nat /\ fresh <= fresh'
  BY <1>1, Stepped
<1>3. stored' \in Lists(LegalFile, fresh')
  BY <1>1, <1>2, MoreIds DEF TypeInv
<1>4. editor' \in Lists(SoundEditor, fresh') /\ Agree(cells, editor')
  BY <1>1, RebuiltAgrees
<1>5. TypeInv'
  BY <1>1, <1>2, <1>3, <1>4 DEF TypeInv
<1>6. SavedInv'
  BY <1>1 DEF SavedInv
<1> QED
  BY <1>1, <1>4, <1>5, <1>6 DEF IInv

\* The editor changes its cells.
LEMMA EditorStep ==
  ASSUME IInv, NEW cells \in Lists(SoundEditor, fresh'), EditorCellsBecome(cells),
         fresh' \in {fresh, fresh + 1}
  PROVE  IInv'
<1>1. /\ Step /\ editor' = cells /\ notebook' = FromJSON(EditorToJSON(cells), fresh + 1)
      /\ saved' = FALSE /\ stored' = stored /\ dragId' = dragId /\ TypeInv
  BY DEF EditorCellsBecome, IInv
<1>2. /\ fresh' \in Nat /\ steps' \in 0..MaxSteps /\ fresh' <= Highest + 2 + steps'
      /\ fresh \in Nat /\ fresh <= fresh'
  BY <1>1, Stepped
<1>3. stored' \in Lists(LegalFile, fresh')
  BY <1>1, <1>2, MoreIds DEF TypeInv
<1>4. notebook' \in Lists(SoundPage, fresh') /\ Agree(notebook', cells)
  BY <1>1, ReadAgrees
<1>5. TypeInv'
  BY <1>1, <1>2, <1>3, <1>4 DEF TypeInv
<1>6. SavedInv'
  BY <1>1 DEF SavedInv
<1> QED
  BY <1>1, <1>4, <1>5, <1>6 DEF IInv

\* The operations of the outline.
LEMMA RenameStep ==
  ASSUME IInv, NEW id, NEW label \in Labels, RenameCell(id, label)
  PROVE  IInv'
<1>1. TypeInv /\ notebook \in Lists(SoundPage, fresh) /\ DOMAIN notebook = 1..Len(notebook)
  BY ListIs DEF IInv, TypeInv
<1>2. \A i \in 1..Len(notebook) : notebook[i] \in SoundPage
  BY <1>1, ListIs
<1>3. PICK t : t = [i \in DOMAIN notebook |->
                      IF notebook[i].id = id THEN [notebook[i] EXCEPT !.label = label]
                      ELSE notebook[i]]
  OBVIOUS
<1>4. PageCellsBecome(t) /\ fresh' = fresh /\ dragId' = dragId
  BY <1>3 DEF RenameCell
<1>5. \A i \in 1..Len(notebook) : t[i] \in SoundPage /\ t[i].id = notebook[i].id
  BY <1>1, <1>2, <1>3 DEF SoundPage, PageCells
<1>6. DOMAIN t = 1..Len(notebook) /\ t = [i \in 1..Len(notebook) |-> t[i]]
  BY <1>1, <1>3
<1>7. t \in Lists(SoundPage, fresh')
  BY <1>1, <1>4, <1>5, <1>6, SameIds
<1>8. PICK x : dragId' \subseteq {x}
  BY <1>1, <1>4 DEF TypeInv
<1> QED
  BY <1>4, <1>7, <1>8, PageStep

\* A copy gets an id of its own.
LEMMA DuplicateStep ==
  ASSUME IInv, NEW id \in IdsOf(notebook), DuplicateCell(id)
  PROVE  IInv'
<1>1. TypeInv /\ notebook \in Lists(SoundPage, fresh)
  BY DEF IInv, TypeInv
<1>2. At(notebook, id) \in 1..Len(notebook) /\ Len(notebook) \in Nat
  BY <1>1, AtIs, ListIs
<1>3. PICK c : c = [notebook[At(notebook, id)] EXCEPT !.id = fresh + 1]
  OBVIOUS
<1>4. PICK i : i = At(notebook, id) + 1
  OBVIOUS
<1>5. /\ PageCellsBecome(InsertAt(notebook, i, c)) /\ fresh' = fresh + 1 /\ dragId' = dragId /\ Step
  BY <1>3, <1>4 DEF DuplicateCell, PageCellsBecome
<1>6. /\ fresh + 1 \in Ids /\ fresh + 1 \in 1..fresh + 1
      /\ notebook \in Lists(SoundPage, fresh + 1)
      /\ \A j \in 1..Len(notebook) : notebook[j].id # fresh + 1
  BY <1>1, <1>5, NextId
<1>7. notebook[At(notebook, id)] \in SoundPage
  BY <1>1, <1>2, ListIs
<1>8. c \in SoundPage /\ c.id = fresh + 1
  BY <1>3, <1>6, <1>7 DEF SoundPage, PageCells
<1>9. i \in 1..Len(notebook) + 1
  BY <1>2, <1>4
<1>10. InsertAt(notebook, i, c) \in Lists(SoundPage, fresh + 1)
  BY <1>6, <1>8, <1>9, InsertedList
<1>11. PICK x : dragId' \subseteq {x}
  BY <1>1, <1>5 DEF TypeInv
<1> QED
  BY <1>5, <1>10, <1>11, PageStep

\* A new cell is a list of its own.
LEMMA CreatedIs ==
  ASSUME NEW n \in Nat, n + 1 \in Ids
  PROVE  <<CreateCell(n + 1, "code", TRUE)>> \in Lists(SoundPage, n + 1)
<1>1. PICK c : c = CreateCell(n + 1, "code", TRUE)
  OBVIOUS
<1>2. c \in SoundPage /\ c.id = n + 1
  BY <1>1 DEF CreateCell, SoundPage, PageCells, Plain, Lumens, Labels, Kinds, Outputs
<1>3. PICK s : s = <<c>>
  OBVIOUS
<1>4. s \in Seq(SoundPage) /\ Len(s) = 1 /\ s[1] = c
  BY <1>2, <1>3
<1>5. Len(s) # 0 /\ \A i \in 1..Len(s) : i = 1
  BY <1>4
<1>6. n + 1 \in 1..n + 1
  OBVIOUS
<1>7. \A i \in 1..Len(s) : s[i].id \in 1..n + 1
  BY <1>2, <1>4, <1>5, <1>6
<1>8. Distinct(s)
  BY <1>5 DEF Distinct
<1>9. s \in Lists(SoundPage, n + 1)
  BY <1>4, <1>5, <1>7, <1>8, MakesList
<1> QED
  BY <1>1, <1>3, <1>9

\* The only cell is replaced by a new one, any other is filtered out.
LEMMA DeleteStep ==
  ASSUME IInv, NEW id, DeleteCell(id)
  PROVE  IInv'
<1>1. TypeInv /\ notebook \in Lists(SoundPage, fresh) /\ fresh \in Nat
  BY DEF IInv, TypeInv
<1>2. PICK x : dragId' \subseteq {x}
  BY <1>1 DEF TypeInv, DeleteCell
<1>3. CASE /\ PageCellsBecome(<<CreateCell(fresh + 1, "code", TRUE)>>)
           /\ fresh' = fresh + 1
  <2>1. fresh + 1 \in Ids
    BY <1>1, <1>3, NextId DEF PageCellsBecome
  <2>2. <<CreateCell(fresh + 1, "code", TRUE)>> \in Lists(SoundPage, fresh')
    BY <1>1, <1>3, <2>1, CreatedIs
  <2> QED
    BY <1>2, <1>3, <2>2, PageStep
<1>4. CASE /\ Len(notebook) > 1 /\ PageCellsBecome(Without(notebook, id)) /\ fresh' = fresh
  <2>1. Without(notebook, id) \in Lists(SoundPage, fresh')
    BY <1>1, <1>4, WithoutList
  <2> QED
    BY <1>2, <1>4, <2>1, PageStep
<1> QED
  BY <1>3, <1>4 DEF DeleteCell

\* A cell goes to the place of its neighbour.
LEMMA MoveStep ==
  ASSUME IInv, NEW id \in IdsOf(notebook), NEW direction, MoveCell(id, direction)
  PROVE  IInv'
<1>1. TypeInv /\ notebook \in Lists(SoundPage, fresh) /\ DOMAIN notebook = 1..Len(notebook)
  BY ListIs DEF IInv, TypeInv
<1>2. PICK from : from = At(notebook, id)
  OBVIOUS
<1>3. PICK to : to = from + direction
  OBVIOUS
<1>4. from \in 1..Len(notebook)
  BY <1>1, <1>2, AtIs
<1>5. /\ to \in 1..Len(notebook)
      /\ PageCellsBecome(InsertAt(RemoveAt(notebook, from), to, notebook[from]))
      /\ fresh' = fresh /\ dragId' = dragId
  BY <1>1, <1>2, <1>3 DEF MoveCell
<1>6. InsertAt(RemoveAt(notebook, from), to, notebook[from]) \in Lists(SoundPage, fresh')
  BY <1>1, <1>4, <1>5, MovedList
<1>7. PICK x : dragId' \subseteq {x}
  BY <1>1, <1>5 DEF TypeInv
<1> QED
  BY <1>5, <1>6, <1>7, PageStep

\* A cell being dragged is none of the three documents' business.
LEMMA DragStep ==
  ASSUME IInv, NEW id, DragStart(id)
  PROVE  IInv'
<1>1. dragId' = {id} /\ UNCHANGED <<stored, notebook, editor, saved, fresh, steps>>
  BY DEF DragStart
<1>2. TypeInv'
  BY <1>1 DEF IInv, TypeInv
<1>3. SavedInv'
  BY <1>1 DEF IInv, SavedInv
<1> QED
  BY <1>1, <1>2, <1>3 DEF IInv

\* A cell goes to the place of another. The one being dragged may be gone: splice then
\* takes the last cell, which keeps the lists in step all the same.
LEMMA DropStep ==
  ASSUME IInv, NEW target \in IdsOf(notebook), DropOn(target)
  PROVE  IInv'
<1>1. /\ TypeInv /\ notebook \in Lists(SoundPage, fresh) /\ Len(notebook) \in Nat \ {0}
  BY ListIs DEF IInv, TypeInv
<1>2. PICK from : from = IF dragId \intersect IdsOf(notebook) = {} THEN Len(notebook)
                         ELSE At(notebook, CHOOSE id \in dragId : TRUE)
  OBVIOUS
<1>3. from \in 1..Len(notebook)
  <2>1. CASE dragId \intersect IdsOf(notebook) = {}
    BY <1>1, <1>2, <2>1
  <2>2. CASE dragId \intersect IdsOf(notebook) # {}
    <3>1. PICK x : dragId \subseteq {x}
      BY <1>1 DEF TypeInv
    <3>2. PICK y : y = CHOOSE id \in dragId : TRUE
      OBVIOUS
    <3>3. y \in dragId
      BY <2>2, <3>2
    <3>4. y \in IdsOf(notebook)
      BY <2>2, <3>1, <3>3
    <3>5. At(notebook, y) \in 1..Len(notebook)
      BY <1>1, <3>4, AtIs
    <3> QED
      BY <1>2, <2>2, <3>2, <3>5
  <2> QED
    BY <2>1, <2>2
<1>4. PICK to : to = At(notebook, target)
  OBVIOUS
<1>5. to \in 1..Len(notebook)
  BY <1>1, <1>4, AtIs
<1>6. /\ PageCellsBecome(InsertAt(RemoveAt(notebook, from), to, notebook[from]))
      /\ fresh' = fresh /\ dragId' = {}
  BY <1>2, <1>4 DEF DropOn
<1>7. InsertAt(RemoveAt(notebook, from), to, notebook[from]) \in Lists(SoundPage, fresh')
  BY <1>1, <1>3, <1>5, <1>6, MovedList
<1>8. dragId' \subseteq {0}
  BY <1>6
<1> QED
  BY <1>6, <1>7, <1>8, PageStep

\* The operations of the editor.
LEMMA EditorInsertStep ==
  ASSUME IInv, NEW at \in 1..(Len(editor) + 1), NEW kind \in Kinds, EditorInsert(at, kind)
  PROVE  IInv'
<1>1. TypeInv /\ editor \in Lists(SoundEditor, fresh)
  BY DEF IInv, TypeInv
<1>2. PICK l : l = [Plain EXCEPT !.circuit = kind = "circuit"]
  OBVIOUS
<1>3. PICK c : c = EditorCell(fresh + 1, kind, l)
  OBVIOUS
<1>4. EditorCellsBecome(InsertAt(editor, at, c)) /\ fresh' = fresh + 1 /\ Step
  BY <1>2, <1>3 DEF EditorInsert, EditorCellsBecome
<1>5. /\ fresh + 1 \in Ids /\ fresh + 1 \in 1..fresh + 1
      /\ editor \in Lists(SoundEditor, fresh + 1)
      /\ \A j \in 1..Len(editor) : editor[j].id # fresh + 1
  BY <1>1, <1>4, NextId
<1>6. l \in Lumens
  BY <1>2 DEF Plain, Lumens, Labels
<1>7. c \in SoundEditor /\ c.id = fresh + 1
  BY <1>3, <1>5, <1>6 DEF EditorCell, SoundEditor, EditorCells, Kinds, Outputs
<1>8. InsertAt(editor, at, c) \in Lists(SoundEditor, fresh + 1)
  BY <1>5, <1>7, InsertedList
<1> QED
  BY <1>4, <1>8, EditorStep

\* The cell with that id goes.
LEMMA EditorDeleteStep ==
  ASSUME IInv, NEW id \in IdsOf(editor), EditorDelete(id)
  PROVE  IInv'
<1>1. editor \in Lists(SoundEditor, fresh)
  BY DEF IInv, TypeInv
<1>2. PICK i : i = At(editor, id)
  OBVIOUS
<1>3. i \in 1..Len(editor)
  BY <1>1, <1>2, AtIs
<1>4. Len(editor) > 1 /\ EditorCellsBecome(RemoveAt(editor, i)) /\ fresh' = fresh
  BY <1>2 DEF EditorDelete
<1>5. RemoveAt(editor, i) \in Lists(SoundEditor, fresh')
  BY <1>1, <1>3, <1>4, RemovedList
<1> QED
  BY <1>4, <1>5, EditorStep

\* A cell of another kind under the same id.
LEMMA EditorChangeTypeStep ==
  ASSUME IInv, NEW i \in DOMAIN editor, NEW kind \in Kinds, EditorChangeType(i, kind)
  PROVE  IInv'
<1>1. editor \in Lists(SoundEditor, fresh)
  BY DEF IInv, TypeInv
<1>2. i \in 1..Len(editor) /\ editor[i] \in SoundEditor
  BY <1>1, ListIs
<1>3. PICK c : c = EditorCell(editor[i].id, kind, editor[i].lumen)
  OBVIOUS
<1>4. c \in SoundEditor /\ c.id = editor[i].id
  BY <1>2, <1>3 DEF EditorCell, SoundEditor, EditorCells, Kinds, Outputs
<1>5. EditorCellsBecome(ReplaceAt(editor, i, c)) /\ fresh' = fresh
  BY <1>3 DEF EditorChangeType
<1>6. ReplaceAt(editor, i, c) \in Lists(SoundEditor, fresh')
  BY <1>1, <1>2, <1>4, <1>5, ReplacedList
<1> QED
  BY <1>5, <1>6, EditorStep

\* A cell with other results.
LEMMA EditorOutputsStep ==
  ASSUME IInv, NEW i \in DOMAIN editor, NEW out \in Outputs \ {"absent"}, EditorOutputs(i, out)
  PROVE  IInv'
<1>1. editor \in Lists(SoundEditor, fresh)
  BY DEF IInv, TypeInv
<1>2. i \in 1..Len(editor) /\ editor[i] \in SoundEditor
  BY <1>1, ListIs
<1>3. PICK c : c = [editor[i] EXCEPT !.out = out]
  OBVIOUS
<1>4. editor[i].type = "code" /\ EditorCellsBecome(ReplaceAt(editor, i, c)) /\ fresh' = fresh
  BY <1>3 DEF EditorOutputs
<1>5. c \in SoundEditor /\ c.id = editor[i].id
  BY <1>2, <1>3, <1>4 DEF SoundEditor, EditorCells
<1>6. ReplaceAt(editor, i, c) \in Lists(SoundEditor, fresh')
  BY <1>1, <1>2, <1>4, <1>5, ReplacedList
<1> QED
  BY <1>4, <1>6, EditorStep

\* What is stored is the editor's document, and what the page shows is what was stored.
LEMMA SaveStep ==
  ASSUME IInv, Save
  PROVE  IInv'
<1>1. /\ TypeInv /\ editor \in Lists(SoundEditor, fresh) /\ Agree(notebook, editor)
  BY DEF IInv, TypeInv
<1>2. PICK p : p = FromJSON(EditorToJSON(editor), fresh + 1)
  OBVIOUS
<1>3. p \in Lists(SoundPage, fresh) /\ Agree(p, editor) /\ Len(p) = Len(editor)
  BY <1>1, <1>2, ReadAgrees
<1>4. /\ stored' = ToJSON(p) /\ notebook' = FromJSON(ToJSON(p), fresh + 1)
      /\ UNCHANGED <<editor, dragId, fresh, steps>>
  BY <1>2 DEF Save
<1>5. /\ stored' \in Lists(LegalFile, fresh) /\ notebook' \in Lists(SoundPage, fresh)
      /\ Len(notebook') = Len(p)
      /\ \A i \in 1..Len(p) : notebook'[i].id = p[i].id /\ notebook'[i].type = p[i].type
  BY <1>3, <1>4, StoredIs
<1>6. Agree(notebook', editor')
  BY <1>3, <1>4, <1>5 DEF Agree
<1>7. TypeInv'
  BY <1>1, <1>4, <1>5 DEF TypeInv
<1>8. ASSUME NEW id
      PROVE  EditorShows(EditorParse(ToJSON(FromJSON(stored', id)))) = EditorShows(editor)
  BY <1>1, <1>2, <1>4, SavedShows
<1>9. SavedInv'
  BY <1>4, <1>8 DEF SavedInv
<1> QED
  BY <1>6, <1>7, <1>9 DEF IInv

\* Both sides are read from the stored file.
LEMMA ReopenStep ==
  ASSUME IInv, Reopen
  PROVE  IInv'
<1>1. TypeInv /\ stored \in Lists(LegalFile, fresh) /\ stored \in Lists(FileCells, fresh)
  BY LegalFilesAre DEF IInv, TypeInv
<1>2. PICK p : p = FromJSON(stored, fresh + 1)
  OBVIOUS
<1>3. p \in Lists(SoundPage, fresh)
  BY <1>1, <1>2, FromJSONIs
<1>4. /\ notebook' = p /\ editor' = EditorParse(ToJSON(p))
      /\ UNCHANGED <<stored, dragId, fresh, steps>>
  BY <1>2 DEF Reopen, PageReads, EditorReads
<1>5. editor' \in Lists(SoundEditor, fresh) /\ Agree(p, editor')
  BY <1>3, <1>4, RebuiltAgrees
<1>6. TypeInv'
  BY <1>1, <1>3, <1>4, <1>5 DEF TypeInv
<1>7. \A id : FromJSON(stored, id) = p
  BY <1>1, <1>2, AnyId
<1>8. SavedInv'
  BY <1>4, <1>7 DEF SavedInv
<1> QED
  BY <1>4, <1>5, <1>6, <1>8 DEF IInv

\* The inductive step.
LEMMA IInvNext == IInv /\ [Next]_vars => IInv'
<1> SUFFICES ASSUME IInv, [Next]_vars PROVE IInv'
  OBVIOUS
<1>1. ASSUME NEW id \in IdsOf(notebook), Outline(id) PROVE IInv'
  <2>1. CASE \E label \in Labels : RenameCell(id, label)
    BY <2>1, RenameStep
  <2>2. CASE DuplicateCell(id)
    BY <2>2, DuplicateStep
  <2>3. CASE DeleteCell(id)
    BY <2>3, DeleteStep
  <2>4. CASE DragStart(id)
    BY <2>4, DragStep
  <2>5. CASE DropOn(id)
    BY <2>5, DropStep
  <2> QED
    BY <1>1, <2>1, <2>2, <2>3, <2>4, <2>5 DEF Outline
<1>2. ASSUME NEW id \in IdsOf(notebook), NEW direction \in {-1, 1}, MoveCell(id, direction)
      PROVE  IInv'
  BY <1>2, MoveStep
<1>3. ASSUME NEW id \in IdsOf(editor), EditorDelete(id) PROVE IInv'
  BY <1>3, EditorDeleteStep
<1>4. ASSUME NEW at \in 1..(Len(editor) + 1), NEW kind \in Kinds, EditorInsert(at, kind)
      PROVE  IInv'
  BY <1>4, EditorInsertStep
<1>5. ASSUME NEW i \in DOMAIN editor, NEW kind \in Kinds, EditorChangeType(i, kind) PROVE IInv'
  BY <1>5, EditorChangeTypeStep
<1>6. ASSUME NEW i \in DOMAIN editor, NEW out \in Outputs \ {"absent"}, EditorOutputs(i, out)
      PROVE  IInv'
  BY <1>6, EditorOutputsStep
<1>7. CASE Save
  BY <1>7, SaveStep
<1>8. CASE Reopen
  BY <1>8, ReopenStep
<1>9. CASE UNCHANGED vars
  BY <1>9 DEF vars, IInv, TypeInv, SavedInv
<1> QED
  BY <1>1, <1>2, <1>3, <1>4, <1>5, <1>6, <1>7, <1>8, <1>9 DEF Next

\* The invariant holds of every state.
THEOREM IInvHolds == Spec => []IInv
<1> QED
  BY IInvInit, IInvNext, PTL DEF Spec

-----------------------------------------------------------------------------
(* What the invariant says.                                                 *)

\* Types, and there is always a cell.
THEOREM TypesHold == Spec => []TypeOK
<1>1. IInv => TypeOK
  <2> SUFFICES ASSUME IInv PROVE TypeOK
    OBVIOUS
  <2>1. /\ notebook \in Lists(SoundPage, fresh) /\ editor \in Lists(SoundEditor, fresh)
        /\ stored \in Lists(LegalFile, fresh)
    BY DEF IInv, TypeInv
  <2>2. /\ notebook \in Seq(SoundPage) /\ editor \in Seq(SoundEditor) /\ stored \in Seq(LegalFile)
        /\ notebook # <<>> /\ editor # <<>>
    BY <2>1 DEF Lists
  <2>3. /\ SoundPage \subseteq PageCells /\ SoundEditor \subseteq EditorCells
        /\ LegalFile \subseteq FileCells
    BY DEF SoundPage, SoundEditor, LegalFile
  <2>4. /\ Seq(SoundPage) \subseteq Seq(PageCells) /\ Seq(SoundEditor) \subseteq Seq(EditorCells)
        /\ Seq(LegalFile) \subseteq Seq(FileCells)
    BY <2>3, SeqMonotonic
  <2> QED
    BY <2>2, <2>4 DEF TypeOK
<1> QED
  BY <1>1, IInvHolds, PTL

\* Cells are told apart by their ids: whatever ids an imported file uses, and however many
\* cells are copied.
THEOREM UniqueIdsHolds == Spec => []UniqueIds
<1>1. IInv => UniqueIds
  BY IdsCounted DEF IInv, TypeInv, UniqueIds
<1> QED
  BY <1>1, IInvHolds, PTL

\* The page's list and the editor show the same cells, whichever was changed last.
THEOREM PageShowsEditorHolds == Spec => []PageShowsEditor
<1>1. IInv => PageShowsEditor
  <2> SUFFICES ASSUME IInv PROVE PageShowsEditor
    OBVIOUS
  <2>1. DOMAIN notebook = 1..Len(notebook) /\ Agree(notebook, editor)
    BY ListIs DEF IInv, TypeInv
  <2> QED
    BY <2>1 DEF Agree, PageShowsEditor
<1> QED
  BY <1>1, IInvHolds, PTL

\* What is stored is legal nbformat.
THEOREM StoredIsLegalHolds == Spec => []StoredIsLegal
<1>1. IInv => StoredIsLegal
  <2> SUFFICES ASSUME IInv PROVE StoredIsLegal
    OBVIOUS
  <2>1. DOMAIN stored = 1..Len(stored) /\ \A i \in 1..Len(stored) : stored[i] \in LegalFile
    BY ListIs DEF IInv, TypeInv
  <2> QED
    BY <2>1 DEF LegalFile, StoredIsLegal
<1> QED
  BY <1>1, IInvHolds, PTL

\* A saved notebook that is opened again shows in the editor what it showed before.
THEOREM ReopenShowsTheSameHolds == Spec => []ReopenShowsTheSame
<1>1. IInv => ReopenShowsTheSame
  BY DEF IInv, SavedInv, ReopenShowsTheSame, EditorReads, PageReads
<1> QED
  BY <1>1, IInvHolds, PTL
=============================================================================
