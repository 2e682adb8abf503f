------------------------ MODULE KernelSession_proofs -------------------------
(***************************************************************************)
(* What the proofs about a kernel session rest on.                           *)
(*                                                                           *)
(* Rendered says what a sequence of messages shows without processing it;    *)
(* the listener of an execution processes one message after the other.  The  *)
(* first half relates the two: Shows(x, s) says that the outputs of x, in    *)
(* order, are the contents of the places of s; ShowsReceived, that one more  *)
(* message keeps it so (by the kind of the message: clearing, clearing with  *)
(* wait, first output after one, further output, update of one shown); and   *)
(* ShowsRendered, that Shows leaves the outputs no other value.              *)
(*                                                                           *)
(* The second half is about the steps.  ResultIsWhole needs to know where a  *)
(* message can still come from: a request is in the queue of the kernel only *)
(* once (its execution was sent once); idle is the last message on iopub, so *)
(* an execution that has seen idle has nothing left to come there, and a     *)
(* connection that was lost never opens again (ListenInv, QueueInv).         *)
(* NothingLeftBehind needs to know that nobody who could still create a      *)
(* kernel or a socket was there when the session was shut down (WireInv).    *)
(***************************************************************************)
EXTENDS KernelSession, SequenceTheorems, FiniteSetTheorems, WellFoundedInduction, TLAPS

\* What a script may publish.
Messages == Outputs \union Clears

-----------------------------------------------------------------------------
\* A set of natural numbers that is not empty has a least element.
LEMMA LeastNatural ==
  ASSUME NEW T \in SUBSET Nat, T # {}
  PROVE  \E n \in T : \A m \in T : n <= m
<1> DEFINE R == OpToRel(<, Nat)
<1>1. \A x, y \in Nat : <<x, y>> \in R <=> x < y
  BY DEF OpToRel
<1>2. IsWellFoundedOn(R, Nat)
  BY NatLessThanWellFounded
<1> HIDE DEF R
<1>3. PICK x \in T : \A y \in T : ~(<<y, x>> \in R)
   BY <1>2, WFMin
<1>4. \A y \in T : ~(y < x)
  BY <1>1, <1>3
<1> QED
  BY <1>4

\* A set of numbers up to n that is not empty has a greatest element, which Max finds.
LEMMA GreatestOf ==
  ASSUME NEW n \in Nat, NEW S \in SUBSET (0..n), S # {}
  PROVE  Max(S) \in S /\ \A y \in S : y <= Max(S)
<1> DEFINE T == {n - y : y \in S}
<1>1. T \in SUBSET Nat /\ T # {}
  <2>1. \A y \in S : n - y \in Nat
    OBVIOUS
  <2> QED
    BY <2>1
<1> HIDE DEF T
<1>2. PICK k \in T : \A m \in T : k <= m
  BY <1>1, LeastNatural
<1>3. PICK x \in S : k = n - x
  BY <1>2 DEF T
<1>4. \A y \in S : x >= y
  <2>1. TAKE y \in S
  <2>2. n - y \in T
    BY DEF T
  <2>3. n - x <= n - y
    BY <1>2, <1>3, <2>2
  <2> QED
    BY <2>3
<1> QED
  BY <1>4 DEF Max

\* An increasing map, and one that runs through a set of numbers.
Increasing(f, n) == \A i, j \in 1..n : i < j => f[i] < f[j]
Enumerates(f, n, S) ==
  f \in [1..n -> S] /\ Increasing(f, n) /\ \A p \in S : \E i \in 1..n : f[i] = p

\* A set of numbers has at most one increasing enumeration.
LEMMA EnumerationUnique ==
  ASSUME NEW n \in Nat, NEW S \in SUBSET Nat, NEW f, NEW g,
         Enumerates(f, n, S), Enumerates(g, n, S)
  PROVE  f = g
<1> DEFINE D == {i \in 1..n : f[i] # g[i]}
<1>1. D = {} => f = g
  BY DEF Enumerates
<1>2. D # {} => FALSE
  <2> SUFFICES ASSUME D # {} PROVE FALSE
    OBVIOUS
  <2>1. D \in SUBSET Nat
    OBVIOUS
  <2>2. PICK i \in D : \A j \in D : i <= j
    BY <2>1, LeastNatural
  <2>3. i \in 1..n /\ f[i] # g[i] /\ \A j \in 1..n : j < i => f[j] = g[j]
    BY <2>2
  <2>4. \A j \in 1..n : f[j] \in Nat /\ g[j] \in Nat /\ f[j] \in S /\ g[j] \in S
    BY DEF Enumerates
  <2>5. Increasing(f, n) /\ Increasing(g, n)
    BY DEF Enumerates
  <2> HIDE DEF D
  <2>6. CASE f[i] < g[i]
    <3>1. PICK j \in 1..n : g[j] = f[i]
      BY <2>3, <2>4 DEF Enumerates
    <3>2. CASE j < i
      BY <3>1, <3>2, <2>3, <2>4, <2>5 DEF Increasing
    <3>3. CASE j = i
      BY <3>1, <3>3, <2>3
    <3>4. CASE j > i
      BY <3>1, <3>4, <2>3, <2>4, <2>5, <2>6 DEF Increasing
    <3> QED
      BY <3>2, <3>3, <3>4, <2>3
  <2>7. CASE g[i] < f[i]
    <3>1. PICK j \in 1..n : f[j] = g[i]
      BY <2>3, <2>4 DEF Enumerates
    <3>2. CASE j < i
      BY <3>1, <3>2, <2>3, <2>4, <2>5 DEF Increasing
    <3>3. CASE j = i
      BY <3>1, <3>3, <2>3
    <3>4. CASE j > i
      BY <3>1, <3>4, <2>3, <2>4, <2>5, <2>7 DEF Increasing
    <3> QED
      BY <3>2, <3>3, <3>4, <2>3
  <2> QED
    BY <2>3, <2>4, <2>6, <2>7
<1> QED
  BY <1>1, <1>2

\* An enumeration of n places counts them, and an increasing map of as many into them
\* is an enumeration.
LEMMA EnumerationCounts ==
  ASSUME NEW n \in Nat, NEW S \in SUBSET Nat, NEW f, Enumerates(f, n, S)
  PROVE  IsFiniteSet(S) /\ Cardinality(S) = n
<1>1. \A i, j \in 1..n : f[i] = f[j] => i = j
  <2> SUFFICES ASSUME NEW i \in 1..n, NEW j \in 1..n, f[i] = f[j] PROVE i = j
    OBVIOUS
  <2>1. f[i] \in Nat /\ f[j] \in Nat
    BY DEF Enumerates
  <2> QED
    BY <2>1 DEF Enumerates, Increasing
<1>2. f \in Bijection(1..n, S)
  BY <1>1 DEF Enumerates, Bijection, Injection, Surjection, IsInjective
<1>3. ExistsBijection(1..n, S)
  BY <1>2 DEF ExistsBijection
<1> QED
  BY <1>3, FS_CountingElements, FS_NatBijection

\* A CHOOSE of the increasing maps of a set of numbers finds its enumeration.
LEMMA OrderIs ==
  ASSUME NEW n \in Nat, NEW S \in SUBSET Nat, NEW f, Enumerates(f, n, S)
  PROVE  f = CHOOSE g \in [1..n -> S] : \A i, j \in 1..n : i < j => g[i] < g[j]
<1> DEFINE P(g) == \A i, j \in 1..n : i < j => g[i] < g[j]
<1>1. f \in [1..n -> S] /\ P(f)
  BY DEF Enumerates, Increasing
<1>2. ASSUME NEW g \in [1..n -> S], P(g) PROVE g = f
  <2>1. IsFiniteSet(S) /\ Cardinality(S) = n
    BY EnumerationCounts
  <2>2. \A i, j \in 1..n : g[i] = g[j] => i = j
    <3> SUFFICES ASSUME NEW i \in 1..n, NEW j \in 1..n, g[i] = g[j] PROVE i = j
      OBVIOUS
    <3>1. g[i] \in Nat /\ g[j] \in Nat
      OBVIOUS
    <3> QED
      BY <3>1, <1>2
  <2>3. g \in Injection(1..n, S)
    BY <2>2 DEF Injection, IsInjective
  <2>4. Cardinality(1..n) = n
    BY FS_Interval
  <2>5. g \in Surjection(1..n, S)
    BY <2>1, <2>3, <2>4, FS_Injection
  <2>6. Enumerates(g, n, S)
    BY <1>2, <2>5 DEF Enumerates, Increasing, Surjection
  <2> QED
    BY <2>6, EnumerationUnique
<1> HIDE DEF P
<1>3. f = CHOOSE g \in [1..n -> S] : P(g)
  BY <1>1, <1>2
<1> QED
  BY <1>3 DEF P

-----------------------------------------------------------------------------
\* The kinds of messages, and the id an output can be updated under.
LEMMA MessageKinds ==
  ASSUME NEW m \in Messages
  PROVE  /\ m.type \in {"stream", "error", "display", "update", "clear", "clearWait"}
         /\ IsClear(m) <=> m \notin Outputs
         /\ IdOf(m) \in Nat
         /\ m.type = "update" => IdOf(m) = m.id
BY DEF Messages, Outputs, Clears, IsClear, IdOf

\* A sequence of messages with one more.
LEMMA Appended ==
  ASSUME NEW s \in Seq(Messages), NEW m \in Messages
  PROVE  /\ Append(s, m) \in Seq(Messages)
         /\ DOMAIN Append(s, m) = 1..(Len(s) + 1)
         /\ DOMAIN s = 1..Len(s)
         /\ Len(s) \in Nat
         /\ \A i \in 1..Len(s) : Append(s, m)[i] = s[i]
         /\ Append(s, m)[Len(s) + 1] = m
BY AppendProperties, LenProperties

\* A "clear with wait" that no output has followed yet.
Pending(s) == \E i \in DOMAIN s : s[i].type = "clearWait" /\ ~(\E j \in Outs(s) : j > i)

\* What one more message does to the outputs and the clearings.
LEMMA AppendedSets ==
  ASSUME NEW s \in Seq(Messages), NEW m \in Messages
  PROVE  LET t == Append(s, m)
             n == Len(s)
         IN /\ Outs(t) = IF IsClear(m) THEN Outs(s) ELSE Outs(s) \union {n + 1}
            /\ m.type = "clearWait" => Cleared(t) = Cleared(s) /\ Pending(t)
            /\ m.type = "clear" => /\ Cleared(t) = Cleared(s) \union {n + 1}
                                  /\ Pending(t) = Pending(s)
            /\ ~IsClear(m) => /\ Cleared(t) = Cleared(s) \union
                                               {i \in 1..n : s[i].type = "clearWait"}
                              /\ ~Pending(t)
<1> DEFINE t == Append(s, m)
           n == Len(s)
<1>1. /\ DOMAIN t = 1..(n + 1) /\ DOMAIN s = 1..n /\ n \in Nat
      /\ \A i \in 1..n : t[i] = s[i]
      /\ t[n + 1] = m
  BY Appended
<1>2. Outs(s) \subseteq 1..n
  BY <1>1 DEF Outs
<1> HIDE DEF t, n
<1>3. Outs(t) = IF IsClear(m) THEN Outs(s) ELSE Outs(s) \union {n + 1}
  BY <1>1 DEF Outs
<1>4. IsClear(m) <=> m.type \in {"clear", "clearWait"}
  BY DEF IsClear
<1>5. CASE m.type = "clearWait"
  <2>1. Outs(t) = Outs(s)
    BY <1>3, <1>4, <1>5
  <2>2. Cleared(t) = Cleared(s)
    BY <1>1, <1>2, <1>5, <2>1 DEF Cleared
  <2>3. Pending(t)
    BY <1>1, <1>2, <1>5, <2>1 DEF Pending
  <2> QED
    BY <1>3, <1>4, <1>5, <2>2, <2>3 DEF t, n
<1>6. CASE m.type = "clear"
  <2>1. Outs(t) = Outs(s)
    BY <1>3, <1>4, <1>6
  <2>2. Cleared(t) = Cleared(s) \union {n + 1}
    BY <1>1, <1>2, <1>6, <2>1 DEF Cleared
  <2>3. Pending(t) = Pending(s)
    BY <1>1, <1>2, <1>6, <2>1 DEF Pending
  <2> QED
    BY <1>3, <1>4, <1>6, <2>2, <2>3 DEF t, n
<1>7. CASE ~IsClear(m)
  <2>1. Outs(t) = Outs(s) \union {n + 1}
    BY <1>3, <1>7
  <2>2. Cleared(t) = Cleared(s) \union {i \in 1..n : s[i].type = "clearWait"}
    BY <1>1, <1>2, <1>4, <1>7, <2>1 DEF Cleared
  <2>3. ~Pending(t)
    <3>1. n + 1 \in Outs(t) /\ \A i \in 1..n : n + 1 > i
      BY <1>1, <2>1
    <3>2. t[n + 1].type # "clearWait"
      BY <1>1, <1>4, <1>7
    <3>3. \A i \in 1..(n + 1) : t[i].type = "clearWait" => i \in 1..n
      BY <1>1, <3>2
    <3> QED
      BY <1>1, <3>1, <3>3 DEF Pending
  <2> QED
    BY <1>3, <1>4, <1>7, <2>2, <2>3 DEF t, n
<1> QED
  BY <1>4, <1>5, <1>6, <1>7

\* Places are kept, and what is kept are outputs.
LEMMA KeptAre ==
  ASSUME NEW s \in Seq(Messages)
  PROVE  /\ Places(s) \subseteq Kept(s) /\ Kept(s) \subseteq Outs(s)
         /\ Outs(s) \subseteq 1..Len(s) /\ Cleared(s) \subseteq 1..Len(s)
         /\ Len(s) \in Nat
BY LenProperties DEF Places, Kept, Outs, Cleared

\* A message that is no output and clears nothing leaves what is shown.
LEMMA SameShown ==
  ASSUME NEW s \in Seq(Messages), NEW m \in Messages, NEW t, t = Append(s, m),
         Outs(t) = Outs(s), Cleared(t) = Cleared(s)
  PROVE  /\ Places(t) = Places(s)
         /\ \A p \in Places(s) : Content(t, p) = Content(s, p) /\ t[p] = s[p]
<1>1. \A i \in 1..Len(s) : t[i] = s[i]
  BY Appended
<1>2. Kept(t) = Kept(s)
  BY DEF Kept
<1>3. Kept(s) \subseteq 1..Len(s) /\ Places(s) \subseteq 1..Len(s)
  BY KeptAre
<1>4. Places(t) = Places(s)
  BY <1>1, <1>2, <1>3 DEF Places
<1>5. ASSUME NEW p \in Places(s)
      PROVE  Content(t, p) = Content(s, p) /\ t[p] = s[p]
  <2>1. p \in 1..Len(s)
    BY <1>3
  <2>2. Updates(t, p) = Updates(s, p)
    BY <1>1, <1>2, <1>3, <1>4, <2>1 DEF Updates
  <2>3. {p} \union Updates(s, p) \in SUBSET (0..Len(s))
    BY <1>3, <2>1 DEF Updates
  <2>4. Max({p} \union Updates(s, p)) \in {p} \union Updates(s, p)
    BY <2>3, KeptAre, GreatestOf
  <2>5. Max({p} \union Updates(s, p)) \in 1..Len(s)
    BY <2>1, <2>4, <1>3 DEF Updates
  <2> QED
    BY <1>1, <2>1, <2>2, <2>5 DEF Content
<1> QED
  BY <1>4, <1>5

\* After a clearing nothing is shown.
LEMMA ClearedShown ==
  ASSUME NEW s \in Seq(Messages), NEW m \in Messages, m.type = "clear"
  PROVE  Places(Append(s, m)) = {}
<1> DEFINE t == Append(s, m)
<1>1. Len(s) + 1 \in Cleared(t) /\ Outs(t) = Outs(s)
  BY AppendedSets DEF IsClear
<1>2. \A i \in Outs(t) : ~(i > Len(s) + 1)
  BY <1>1, KeptAre
<1> HIDE DEF t
<1>3. Kept(t) = {}
  BY <1>1, <1>2 DEF Kept
<1> QED
  BY <1>3 DEF Places, t

\* The first output after a clearing that waited for it.
LEMMA FirstShown ==
  ASSUME NEW s \in Seq(Messages), NEW m \in Messages, ~IsClear(m), Pending(s)
  PROVE  /\ Places(Append(s, m)) = {Len(s) + 1}
         /\ Content(Append(s, m), Len(s) + 1) = m
<1> DEFINE t == Append(s, m)
           n == Len(s)
<1>1. /\ Outs(t) = Outs(s) \union {n + 1}
      /\ Cleared(t) = Cleared(s) \union {i \in 1..n : s[i].type = "clearWait"}
  BY AppendedSets
<1>2. /\ DOMAIN t = 1..(n + 1) /\ DOMAIN s = 1..n /\ n \in Nat
      /\ t[n + 1] = m
  BY Appended
<1>3. Outs(s) \subseteq 1..n /\ Cleared(s) \subseteq 1..n
  BY KeptAre
<1> HIDE DEF t, n
<1>4. PICK i \in 1..n : s[i].type = "clearWait" /\ ~(\E j \in Outs(s) : j > i)
  BY <1>2 DEF Pending
<1>5. \A j \in Outs(s) : ~(j > i)
  BY <1>4
<1>6. i \in Cleared(t)
  BY <1>1, <1>4
<1>7. \A c \in Cleared(t) : n + 1 > c
  BY <1>1, <1>2, <1>3
<1>8. Kept(t) = {n + 1}
  BY <1>1, <1>5, <1>6, <1>7 DEF Kept
<1>9. Places(t) = {n + 1}
  BY <1>8, <1>2 DEF Places
<1>10. Updates(t, n + 1) = {}
  BY <1>8, <1>9 DEF Updates
<1>11. Max({n + 1}) = n + 1
  <2>1. {n + 1} \in SUBSET (0..(n + 1)) /\ n + 1 \in Nat
    BY <1>2
  <2>2. Max({n + 1}) \in {n + 1}
    BY <2>1, GreatestOf
  <2> QED
    BY <2>2
<1>12. Content(t, n + 1) = m
  BY <1>2, <1>10, <1>11 DEF Content
<1> QED
  BY <1>9, <1>12 DEF t, n

\* A further output keeps what is shown and is kept.
LEMMA FurtherKept ==
  ASSUME NEW s \in Seq(Messages), NEW m \in Messages, ~IsClear(m), ~Pending(s)
  PROVE  Kept(Append(s, m)) = Kept(s) \union {Len(s) + 1}
<1> DEFINE t == Append(s, m)
           n == Len(s)
<1>1. /\ Outs(t) = Outs(s) \union {n + 1}
      /\ Cleared(t) = Cleared(s) \union {i \in 1..n : s[i].type = "clearWait"}
  BY AppendedSets
<1>2. /\ DOMAIN s = 1..n /\ n \in Nat
  BY Appended
<1>3. Outs(s) \subseteq 1..n /\ Cleared(s) \subseteq 1..n
  BY KeptAre
<1> HIDE DEF t, n
<1>4. \A i \in 1..n : s[i].type = "clearWait" => i \in Cleared(s)
  BY <1>2 DEF Pending, Cleared
<1>5. Cleared(t) = Cleared(s)
  BY <1>1, <1>4
<1>6. \A c \in Cleared(t) : n + 1 > c
  BY <1>5, <1>2, <1>3
<1>7. Kept(t) = Kept(s) \union {n + 1}
  BY <1>1, <1>5, <1>6 DEF Kept
<1> QED
  BY <1>7 DEF t, n

\* A further output that updates nothing shown gets a place of its own, the last.
LEMMA NewPlace ==
  ASSUME NEW s \in Seq(Messages), NEW m \in Messages, ~IsClear(m), ~Pending(s),
         m.type = "update" => IdOf(m) = 0 \/ ~(\E j \in Kept(s) : IdOf(s[j]) = IdOf(m))
  PROVE  LET t == Append(s, m)
             n == Len(s)
         IN /\ Places(t) = Places(s) \union {n + 1}
            /\ \A p \in Places(s) : Content(t, p) = Content(s, p) /\ t[p] = s[p]
            /\ Content(t, n + 1) = m /\ t[n + 1] = m
<1> DEFINE t == Append(s, m)
           n == Len(s)
<1>1. /\ n \in Nat
      /\ \A i \in 1..n : t[i] = s[i]
      /\ t[n + 1] = m
  BY Appended
<1>2. Kept(s) \subseteq 1..n /\ Places(s) \subseteq 1..n /\ Places(s) \subseteq Kept(s)
  BY KeptAre
<1>3. Kept(t) = Kept(s) \union {n + 1}
  BY FurtherKept
<1> HIDE DEF t, n
<1>4. Places(t) = Places(s) \union {n + 1}
  <2>1. \A i \in Kept(s) : i \in Places(t) <=> i \in Places(s)
    BY <1>1, <1>2, <1>3 DEF Places
  <2>2. \A j \in Kept(t) : j < n + 1 => j \in Kept(s) /\ t[j] = s[j]
    BY <1>1, <1>2, <1>3
  <2>3. n + 1 \in Places(t)
    BY <1>1, <1>3, <2>2 DEF Places
  <2>4. Places(t) \subseteq Kept(t)
    BY DEF Places
  <2> QED
    BY <1>2, <1>3, <2>1, <2>3, <2>4
<1>5. Kept(t) \ Places(t) = Kept(s) \ Places(s)
  BY <1>1, <1>2, <1>3, <1>4
<1>6. ASSUME NEW p \in Places(s)
      PROVE  Content(t, p) = Content(s, p) /\ t[p] = s[p]
  <2>1. p \in 1..n
    BY <1>2
  <2>2. Updates(t, p) = Updates(s, p)
    BY <1>1, <1>2, <1>4, <1>5, <2>1 DEF Updates
  <2>3. {p} \union Updates(s, p) \in SUBSET (0..n)
    BY <1>2, <2>1 DEF Updates
  <2>4. Max({p} \union Updates(s, p)) \in {p} \union Updates(s, p)
    BY <1>1, <2>3, GreatestOf
  <2>5. Max({p} \union Updates(s, p)) \in 1..n
    BY <2>1, <2>4, <1>2 DEF Updates
  <2> QED
    BY <1>1, <2>1, <2>2, <2>5 DEF Content
<1>7. Content(t, n + 1) = m
  <2>1. Updates(t, n + 1) = {}
    BY <1>1, <1>2, <1>5 DEF Updates
  <2>2. {n + 1} \in SUBSET (0..(n + 1)) /\ n + 1 \in Nat
    BY <1>1
  <2>3. Max({n + 1}) \in {n + 1}
    BY <2>2, GreatestOf
  <2> QED
    BY <1>1, <2>1, <2>3 DEF Content
<1> QED
  BY <1>1, <1>4, <1>6, <1>7 DEF t, n

\* What is kept under an id has a place: the first of them.
LEMMA HasPlace ==
  ASSUME NEW s \in Seq(Messages), NEW j \in Kept(s)
  PROVE  \E p \in Places(s) : IdOf(s[p]) = IdOf(s[j])
<1> DEFINE T == {i \in Kept(s) : IdOf(s[i]) = IdOf(s[j])}
<1>1. T \in SUBSET Nat /\ j \in T
  BY KeptAre
<1>2. PICK p \in T : \A i \in T : p <= i
  BY <1>1, LeastNatural
<1>3. \A i \in Kept(s) : IdOf(s[i]) = IdOf(s[p]) => ~(i < p)
  BY <1>1, <1>2
<1>4. p \in Places(s)
  BY <1>2, <1>3 DEF Places
<1> QED
  BY <1>2, <1>4

\* An update of something that is shown: the last place with the id is updated.
LEMMA NewContent ==
  ASSUME NEW s \in Seq(Messages), NEW m \in Messages, ~Pending(s),
         m.type = "update", IdOf(m) # 0,
         NEW last \in Places(s), IdOf(s[last]) = IdOf(m),
         \A q \in Places(s) : q > last => IdOf(s[q]) # IdOf(m)
  PROVE  LET t == Append(s, m)
         IN /\ Places(t) = Places(s)
            /\ \A p \in Places(s) : /\ Content(t, p) = IF p = last THEN m ELSE Content(s, p)
                                   /\ t[p] = s[p]
<1> DEFINE t == Append(s, m)
           n == Len(s)
<1>0. ~IsClear(m)
  BY DEF IsClear
<1>1. /\ n \in Nat
      /\ \A i \in 1..n : t[i] = s[i]
      /\ t[n + 1] = m
  BY Appended
<1>2. Kept(s) \subseteq 1..n /\ Places(s) \subseteq 1..n /\ Places(s) \subseteq Kept(s)
  BY KeptAre
<1>3. Kept(t) = Kept(s) \union {n + 1}
  BY <1>0, FurtherKept
<1> HIDE DEF t, n
<1>4. Places(t) = Places(s)
  <2>1. \A i \in Kept(s) : i \in Places(t) <=> i \in Places(s)
    BY <1>1, <1>2, <1>3 DEF Places
  <2>2. last \in Kept(t) /\ last < n + 1 /\ IdOf(t[last]) = IdOf(t[n + 1])
    BY <1>1, <1>2, <1>3
  <2>3. n + 1 \notin Places(t)
    BY <1>1, <2>2 DEF Places
  <2>4. Places(t) \subseteq Kept(t)
    BY DEF Places
  <2> QED
    BY <1>2, <1>3, <2>1, <2>3, <2>4
<1>5. Kept(t) \ Places(t) = (Kept(s) \ Places(s)) \union {n + 1}
  BY <1>1, <1>2, <1>3, <1>4
<1>6. ASSUME NEW p \in Places(s)
      PROVE  /\ Content(t, p) = IF p = last THEN m ELSE Content(s, p)
             /\ t[p] = s[p]
  <2>1. p \in 1..n /\ t[p] = s[p]
    BY <1>1, <1>2
  <2>2. Updates(s, p) \subseteq 1..n
    BY <1>2 DEF Updates
  <2>3. {p} \union Updates(s, p) \in SUBSET (0..n)
    BY <2>1, <2>2
  <2>4. Max({p} \union Updates(s, p)) \in {p} \union Updates(s, p)
    BY <1>1, <2>3, GreatestOf
  <2>5. CASE p = last
    <3>1. n + 1 \in Updates(t, p)
      BY <1>1, <1>2, <1>4, <1>5, <2>1, <2>5 DEF Updates
    <3>2. Updates(t, p) \subseteq 1..(n + 1)
      BY <1>1, <1>2, <1>5 DEF Updates
    <3>3. {p} \union Updates(t, p) \in SUBSET (0..(n + 1)) /\ n + 1 \in Nat
      BY <1>1, <2>1, <3>2
    <3>4. /\ Max({p} \union Updates(t, p)) \in {p} \union Updates(t, p)
          /\ \A y \in {p} \union Updates(t, p) : y <= Max({p} \union Updates(t, p))
      BY <3>3, GreatestOf
    <3>5. Max({p} \union Updates(t, p)) \in 0..(n + 1)
      BY <3>3, <3>4
    <3>6. n + 1 <= Max({p} \union Updates(t, p))
      BY <3>1, <3>4
    <3>7. Max({p} \union Updates(t, p)) = n + 1
      BY <1>1, <3>5, <3>6
    <3> QED
      BY <1>1, <2>1, <2>5, <3>7 DEF Content
  <2>6. CASE p # last
    <3>1. n + 1 \notin Updates(t, p)
      <4>1. CASE IdOf(s[p]) # IdOf(m)
        BY <4>1, <1>1, <2>1 DEF Updates
      <4>2. CASE IdOf(s[p]) = IdOf(m)
        <5>1. p < last
          BY <4>2, <2>1, <2>6, <1>2
        <5>2. last \in Places(t) /\ last < n + 1 /\ IdOf(t[last]) = IdOf(t[p])
          BY <1>1, <1>2, <1>4, <4>2, <2>1
        <5> QED
          BY <5>1, <5>2 DEF Updates
      <4> QED
        BY <4>1, <4>2
    <3>2. \A j \in Kept(s) \ Places(s) : j \in Updates(t, p) <=> j \in Updates(s, p)
      BY <1>1, <1>2, <1>4, <1>5, <2>1 DEF Updates
    <3>3. Updates(t, p) \subseteq Kept(t) \ Places(t) /\ Updates(s, p) \subseteq Kept(s) \ Places(s)
      BY DEF Updates
    <3>4. Updates(t, p) = Updates(s, p)
      BY <1>5, <3>1, <3>2, <3>3
    <3>5. Max({p} \union Updates(s, p)) \in 1..n
      BY <2>1, <2>2, <2>4
    <3> QED
      BY <1>1, <2>1, <2>6, <3>4, <3>5 DEF Content
  <2> QED
    BY <2>5, <2>6
<1> QED
  BY <1>4, <1>6 DEF t

-----------------------------------------------------------------------------
\* What a listener is: an execution with its outputs and their ids.
States == {"new", "runtime", "post", "opening", "sent", "ok", "failed"}
Listeners == [pc: States, socket: Nat, outputs: Seq(Outputs), ids: Seq(Nat),
              clear: BOOLEAN, reply: BOOLEAN, idle: BOOLEAN]

\* What PlaceOf finds: the last place remembered under an id.
LEMMA LastPlace ==
  ASSUME NEW x \in Listeners, NEW id \in Nat
  PROVE  /\ PlaceOf(x, id) \in 0..Len(x.ids)
         /\ PlaceOf(x, id) = 0 => \A i \in 1..Len(x.ids) : x.ids[i] # id
         /\ PlaceOf(x, id) # 0 => /\ x.ids[PlaceOf(x, id)] = id
                                 /\ \A i \in 1..Len(x.ids) : i > PlaceOf(x, id) => x.ids[i] # id
<1> DEFINE I == {i \in 1..Len(x.ids) : x.ids[i] = id}
<1>1. Len(x.ids) \in Nat
  BY LenProperties DEF Listeners
<1>2. PlaceOf(x, id) = IF I # {} THEN Max(I) ELSE 0
  BY DEF PlaceOf, SelectLastInSeq
<1>3. CASE I = {}
  BY <1>1, <1>2, <1>3
<1>4. CASE I # {}
  <2>1. I \in SUBSET (0..Len(x.ids))
    BY <1>1
  <2>2. Max(I) \in I /\ \A y \in I : y <= Max(I)
    BY <1>1, <1>4, <2>1, GreatestOf
  <2>3. Max(I) \in 1..Len(x.ids) /\ x.ids[Max(I)] = id
    BY <2>2
  <2>4. \A i \in 1..Len(x.ids) : i > Max(I) => x.ids[i] # id
    BY <1>1, <2>2, <2>3
  <2> QED
    BY <1>1, <1>2, <1>4, <2>3, <2>4
<1> QED
  BY <1>3, <1>4

\* Prepared empties the outputs if a clearing waited for the next one.
LEMMA PreparedIs ==
  ASSUME NEW x \in Listeners
  PROVE  /\ Prepared(x) \in Listeners
         /\ ~Prepared(x).clear
         /\ x.clear => Prepared(x).outputs = <<>> /\ Prepared(x).ids = <<>>
         /\ ~x.clear => Prepared(x) = x
         /\ Prepared(x).pc = x.pc /\ Prepared(x).socket = x.socket
         /\ Prepared(x).reply = x.reply /\ Prepared(x).idle = x.idle
<1>1. <<>> \in Seq(Outputs) /\ <<>> \in Seq(Nat)
  OBVIOUS
<1> QED
  BY <1>1 DEF Prepared, Listeners

\* Pushed adds an output and the id it can be updated under.
LEMMA PushedIs ==
  ASSUME NEW x \in Listeners, NEW m \in Outputs
  PROVE  LET y == Pushed(x, m)
         IN /\ y \in Listeners
            /\ y.outputs = Append(x.outputs, m) /\ y.ids = Append(x.ids, IdOf(m))
            /\ y.clear = x.clear
            /\ y.pc = x.pc /\ y.socket = x.socket /\ y.reply = x.reply /\ y.idle = x.idle
<1>1. m \in Messages /\ IdOf(m) \in Nat
  BY MessageKinds DEF Messages
<1>2. /\ Append(x.outputs, m) \in Seq(Outputs)
      /\ Append(x.ids, IdOf(m)) \in Seq(Nat)
  BY <1>1, AppendProperties DEF Listeners
<1> QED
  BY <1>2 DEF Pushed, Listeners

\* Replacing one output leaves the others.
LEMMA ReplacedIs ==
  ASSUME NEW x \in Listeners, NEW m \in Outputs, NEW k \in 1..Len(x.outputs)
  PROVE  LET y == [x EXCEPT !.outputs[k] = m]
         IN /\ y \in Listeners
            /\ Len(y.outputs) = Len(x.outputs)
            /\ \A i \in 1..Len(x.outputs) : y.outputs[i] = IF i = k THEN m ELSE x.outputs[i]
            /\ y.ids = x.ids
            /\ y.clear = x.clear
            /\ y.pc = x.pc /\ y.socket = x.socket /\ y.reply = x.reply /\ y.idle = x.idle
<1> DEFINE o == [x.outputs EXCEPT ![k] = m]
<1>1. x.outputs \in Seq(Outputs)
  BY DEF Listeners
<1>2. /\ o \in Seq(Outputs) /\ Len(o) = Len(x.outputs)
      /\ \A i \in 1..Len(x.outputs) : o[i] = IF i = k THEN m ELSE x.outputs[i]
  BY <1>1, ExceptSeq
<1>3. [x EXCEPT !.outputs[k] = m] = [x EXCEPT !.outputs = o]
  BY DEF Listeners
<1> HIDE DEF o
<1> QED
  BY <1>2, <1>3 DEF Listeners

\* A listener shows a sequence of messages: its outputs are their contents in order.
Shows(x, s) ==
  /\ Len(x.ids) = Len(x.outputs)
  /\ x.clear <=> Pending(s)
  /\ \E f : /\ Enumerates(f, Len(x.outputs), Places(s))
           /\ \A i \in 1..Len(x.outputs) :
                x.outputs[i] = Content(s, f[i]) /\ x.ids[i] = IdOf(s[f[i]])

\* Shows, from an enumeration of the places.
LEMMA ShowsBy ==
  ASSUME NEW y, NEW t, NEW n, NEW f, Len(y.outputs) = n, Len(y.ids) = n,
         y.clear <=> Pending(t), Enumerates(f, n, Places(t)),
         \A i \in 1..n : y.outputs[i] = Content(t, f[i]) /\ y.ids[i] = IdOf(t[f[i]])
  PROVE  Shows(y, t)
BY DEF Shows

\* A new execution shows nothing.
LEMMA NewShows == Shows(NewExecution, <<>>)
<1>1. Len(<<>>) = 0 /\ DOMAIN <<>> = {}
  OBVIOUS
<1>2. ~Pending(<<>>)
  BY <1>1 DEF Pending
<1>3. Places(<<>>) = {}
  BY <1>1 DEF Places, Kept, Outs
<1>4. Enumerates(<<>>, 0, {})
  BY DEF Enumerates, Increasing
<1>5. /\ NewExecution.outputs = <<>> /\ NewExecution.ids = <<>>
      /\ NewExecution.clear <=> FALSE
  BY DEF NewExecution
<1>6. NewExecution.clear <=> Pending(<<>>)
  BY <1>2, <1>5
<1>7. Enumerates(<<>>, 0, Places(<<>>))
  BY <1>3, <1>4
<1>8. Len(NewExecution.outputs) = 0 /\ Len(NewExecution.ids) = 0
  BY <1>1, <1>5
<1>9. \A i \in 1..0 : FALSE
  OBVIOUS
<1> QED
  BY <1>6, <1>7, <1>8, <1>9, ShowsBy

\* "clear with wait" changes nothing but that an output is waited for.
LEMMA ShowsClearWait ==
  ASSUME NEW x \in Listeners, NEW s \in Seq(Messages), NEW m \in Messages, Shows(x, s),
         m.type = "clearWait", NEW y \in Listeners,
         y.outputs = x.outputs, y.ids = x.ids, y.clear
  PROVE  Shows(y, Append(s, m))
<1> DEFINE t == Append(s, m)
<1>1. Outs(t) = Outs(s) /\ Cleared(t) = Cleared(s) /\ Pending(t)
  BY AppendedSets DEF IsClear
<1>2. /\ Places(t) = Places(s)
      /\ \A p \in Places(s) : Content(t, p) = Content(s, p) /\ t[p] = s[p]
  BY <1>1, SameShown
<1>3. PICK f : /\ Enumerates(f, Len(x.outputs), Places(s))
               /\ \A i \in 1..Len(x.outputs) :
                    x.outputs[i] = Content(s, f[i]) /\ x.ids[i] = IdOf(s[f[i]])
  BY DEF Shows
<1>4. \A i \in 1..Len(x.outputs) : f[i] \in Places(s)
  BY <1>3 DEF Enumerates
<1>5. Len(x.ids) = Len(x.outputs)
  BY DEF Shows
<1> HIDE DEF t
<1>6. \A i \in 1..Len(x.outputs) :
        x.outputs[i] = Content(t, f[i]) /\ x.ids[i] = IdOf(t[f[i]])
  BY <1>2, <1>3, <1>4
<1>7. Enumerates(f, Len(x.outputs), Places(t)) /\ (y.clear <=> Pending(t))
  BY <1>1, <1>2, <1>3
<1>8. Shows(y, t)
  BY <1>5, <1>6, <1>7, ShowsBy
<1> QED
  BY <1>8 DEF t

\* "clear" empties the outputs.
LEMMA ShowsClear ==
  ASSUME NEW x \in Listeners, NEW s \in Seq(Messages), NEW m \in Messages, Shows(x, s),
         m.type = "clear", NEW y \in Listeners,
         y.outputs = <<>>, y.ids = <<>>, y.clear = x.clear
  PROVE  Shows(y, Append(s, m))
<1>1. Pending(Append(s, m)) = Pending(s)
  BY AppendedSets
<1>2. Places(Append(s, m)) = {}
  BY ClearedShown
<1>3. Len(<<>>) = 0
  OBVIOUS
<1>4. Enumerates(<<>>, 0, {})
  BY DEF Enumerates, Increasing
<1> QED
  BY <1>1, <1>2, <1>3, <1>4 DEF Shows

\* The first output after "clear with wait" is all that is shown.
LEMMA ShowsFirst ==
  ASSUME NEW x \in Listeners, NEW s \in Seq(Messages), NEW m \in Messages, Shows(x, s),
         ~IsClear(m), x.clear
  PROVE  Shows(Pushed(Prepared(x), m), Append(s, m))
<1> DEFINE y == Pushed(Prepared(x), m)
           t == Append(s, m)
           n == Len(s) + 1
<1>1. m \in Outputs /\ IdOf(m) \in Nat
  BY MessageKinds
<1>2. /\ y.outputs = Append(<<>>, m) /\ y.ids = Append(<<>>, IdOf(m)) /\ ~y.clear
  <2>1. /\ Prepared(x) \in Listeners /\ ~Prepared(x).clear
        /\ Prepared(x).outputs = <<>> /\ Prepared(x).ids = <<>>
    BY PreparedIs
  <2>2. \A z \in Listeners : /\ Pushed(z, m).outputs = Append(z.outputs, m)
                             /\ Pushed(z, m).ids = Append(z.ids, IdOf(m))
                             /\ Pushed(z, m).clear = z.clear
    BY <1>1, PushedIs
  <2> QED
    BY <2>1, <2>2
<1>3. Append(<<>>, m) = <<m>> /\ Append(<<>>, IdOf(m)) = <<IdOf(m)>>
  OBVIOUS
<1>4. Pending(s)
  BY DEF Shows
<1>5. Places(t) = {n} /\ Content(t, n) = m
  BY <1>4, FirstShown
<1>6. ~Pending(t) /\ t[n] = m /\ n \in Nat
  BY AppendedSets, Appended
<1>7. Len(<<m>>) = 1 /\ Len(<<IdOf(m)>>) = 1 /\ <<m>>[1] = m /\ <<IdOf(m)>>[1] = IdOf(m)
  OBVIOUS
<1> HIDE DEF y, t, n
<1> DEFINE f == <<n>>
<1>8. f[1] = n /\ Enumerates(f, 1, {n})
  BY DEF Enumerates, Increasing
<1> HIDE DEF f
<1>9. \A i \in 1..1 : <<m>>[i] = Content(t, f[i]) /\ <<IdOf(m)>>[i] = IdOf(t[f[i]])
  BY <1>5, <1>6, <1>7, <1>8
<1>10. y.outputs = <<m>> /\ y.ids = <<IdOf(m)>>
  BY <1>2, <1>3
<1>11. y.clear <=> Pending(t)
  BY <1>2, <1>6
<1>12. Enumerates(f, 1, Places(t))
  BY <1>5, <1>8
<1>13. Len(y.outputs) = 1 /\ Len(y.ids) = 1
  BY <1>7, <1>10
<1>14. \A i \in 1..1 : y.outputs[i] = Content(t, f[i]) /\ y.ids[i] = IdOf(t[f[i]])
  BY <1>9, <1>10
<1>15. Shows(y, t)
  BY <1>11, <1>12, <1>13, <1>14, ShowsBy
<1> QED
  BY <1>15 DEF y, t

\* An output that updates nothing shown follows the others.
LEMMA ShowsFurther ==
  ASSUME NEW x \in Listeners, NEW s \in Seq(Messages), NEW m \in Messages, Shows(x, s),
         ~IsClear(m), ~x.clear,
         m.type = "update" => m.id = 0 \/ PlaceOf(x, m.id) = 0
  PROVE  Shows(Pushed(x, m), Append(s, m))
<1> DEFINE y == Pushed(x, m)
           t == Append(s, m)
           n == Len(s) + 1
           k == Len(x.outputs)
<1>1. m \in Outputs /\ IdOf(m) \in Nat /\ (m.type = "update" => m.id = IdOf(m))
  BY MessageKinds
<1>2. /\ y.outputs = Append(x.outputs, m) /\ y.ids = Append(x.ids, IdOf(m))
      /\ y.clear = x.clear
  BY <1>1, PushedIs
<1>3. /\ x.outputs \in Seq(Outputs) /\ x.ids \in Seq(Nat) /\ k \in Nat /\ Len(x.ids) = k
  BY LenProperties DEF Listeners, Shows
<1>4. /\ Len(y.outputs) = k + 1 /\ Len(y.ids) = k + 1
      /\ \A i \in 1..k : y.outputs[i] = x.outputs[i] /\ y.ids[i] = x.ids[i]
      /\ y.outputs[k + 1] = m /\ y.ids[k + 1] = IdOf(m)
  BY <1>1, <1>2, <1>3, AppendProperties
<1>5. PICK f : /\ Enumerates(f, k, Places(s))
               /\ \A i \in 1..k :
                    x.outputs[i] = Content(s, f[i]) /\ x.ids[i] = IdOf(s[f[i]])
  BY DEF Shows
<1>6. ~Pending(s)
  BY DEF Shows
<1>7. m.type = "update" => IdOf(m) = 0 \/ ~(\E j \in Kept(s) : IdOf(s[j]) = IdOf(m))
  <2> SUFFICES ASSUME m.type = "update", IdOf(m) # 0,
                      NEW j \in Kept(s), IdOf(s[j]) = IdOf(m)
               PROVE  FALSE
    OBVIOUS
  <2>1. PICK p \in Places(s) : IdOf(s[p]) = IdOf(m)
    BY HasPlace
  <2>2. PICK i \in 1..k : f[i] = p
    BY <1>5 DEF Enumerates
  <2>3. x.ids[i] = IdOf(m)
    BY <1>5, <2>1, <2>2
  <2>4. PlaceOf(x, IdOf(m)) = 0
    BY <1>1
  <2>5. \A h \in 1..Len(x.ids) : x.ids[h] # IdOf(m)
    BY <1>1, <2>4, LastPlace
  <2> QED
    BY <1>3, <2>3, <2>5
<1>8. /\ Places(t) = Places(s) \union {n}
      /\ \A p \in Places(s) : Content(t, p) = Content(s, p) /\ t[p] = s[p]
      /\ Content(t, n) = m /\ t[n] = m
  BY <1>6, <1>7, NewPlace
<1>9. \A p \in Places(s) : p \in Nat /\ p < n
  BY KeptAre
<1>10. n \in Nat
  BY KeptAre
<1>11. ~Pending(t)
  BY AppendedSets
<1> HIDE DEF y, t, n, k
<1> DEFINE g == [i \in 1..(k + 1) |-> IF i = k + 1 THEN n ELSE f[i]]
<1>12. /\ \A i \in 1..k : g[i] = f[i]
       /\ g[k + 1] = n
  BY <1>3
<1>13. \A i \in 1..k : f[i] \in Places(s)
  BY <1>5 DEF Enumerates
<1>14. Enumerates(g, k + 1, Places(t))
  <2>1. g \in [1..(k + 1) -> Places(t)]
    BY <1>3, <1>8, <1>13
  <2>2. Increasing(g, k + 1)
    <3> SUFFICES ASSUME NEW i \in 1..(k + 1), NEW j \in 1..(k + 1), i < j
                 PROVE  g[i] < g[j]
      BY DEF Increasing
    <3>1. i \in 1..k
      BY <1>3
    <3>2. CASE j = k + 1
      BY <1>9, <1>12, <1>13, <3>1, <3>2
    <3>3. CASE j # k + 1
      <4>1. j \in 1..k
        BY <1>3, <3>3
      <4> HIDE DEF g
      <4> QED
        BY <1>5, <1>12, <3>1, <4>1 DEF Enumerates, Increasing
    <3> QED
      BY <3>2, <3>3
  <2>3. \A p \in Places(t) : \E i \in 1..(k + 1) : g[i] = p
    <3> HIDE DEF g
    <3>1. k + 1 \in 1..(k + 1) /\ \A i \in 1..k : i \in 1..(k + 1)
      BY <1>3
    <3> QED
      BY <1>5, <1>8, <1>12, <3>1 DEF Enumerates
  <2> QED
    BY <2>1, <2>2, <2>3 DEF Enumerates
<1> HIDE DEF g
<1>15. \A i \in 1..(k + 1) : y.outputs[i] = Content(t, g[i]) /\ y.ids[i] = IdOf(t[g[i]])
  <2>1. TAKE i \in 1..(k + 1)
  <2>2. CASE i = k + 1
    BY <1>4, <1>8, <1>12, <2>2
  <2>3. CASE i # k + 1
    <3>1. i \in 1..k
      BY <1>3, <2>3
    <3> QED
      BY <1>4, <1>5, <1>8, <1>12, <1>13, <3>1
  <2> QED
    BY <2>2, <2>3
<1>16. y.clear <=> Pending(t)
  BY <1>2, <1>11
<1>17. Shows(y, t)
  BY <1>4, <1>14, <1>15, <1>16, ShowsBy
<1> QED
  BY <1>17 DEF y, t

\* An update takes the place of what was last shown under its id.
LEMMA ShowsUpdate ==
  ASSUME NEW x \in Listeners, NEW s \in Seq(Messages), NEW m \in Messages, Shows(x, s),
         ~x.clear, m.type = "update", m.id # 0, PlaceOf(x, m.id) # 0
  PROVE  /\ PlaceOf(x, m.id) \in 1..Len(x.outputs)
         /\ Shows([x EXCEPT !.outputs[PlaceOf(x, m.id)] = m], Append(s, m))
<1> DEFINE t == Append(s, m)
           k == Len(x.outputs)
           l == PlaceOf(x, m.id)
           y == [x EXCEPT !.outputs[l] = m]
<1>1. m \in Outputs /\ IdOf(m) \in Nat /\ m.id = IdOf(m)
  BY MessageKinds DEF IsClear
<1>2. k \in Nat /\ Len(x.ids) = k
  BY LenProperties DEF Listeners, Shows
<1>3. /\ l \in 1..k /\ x.ids[l] = IdOf(m)
      /\ \A i \in 1..k : i > l => x.ids[i] # IdOf(m)
  <2>1. /\ l \in 0..Len(x.ids) /\ x.ids[l] = m.id
        /\ \A i \in 1..Len(x.ids) : i > l => x.ids[i] # m.id
    BY <1>1, LastPlace, ZenonT(40)
  <2> QED
    BY <1>1, <1>2, <2>1
<1>4. /\ Len(y.outputs) = k /\ y.ids = x.ids /\ y.clear = x.clear
      /\ \A i \in 1..k : y.outputs[i] = IF i = l THEN m ELSE x.outputs[i]
  BY <1>1, <1>3, ReplacedIs
<1>5. PICK f : /\ Enumerates(f, k, Places(s))
               /\ \A i \in 1..k :
                    x.outputs[i] = Content(s, f[i]) /\ x.ids[i] = IdOf(s[f[i]])
  BY DEF Shows
<1>6. ~Pending(s) /\ ~Pending(t)
  BY AppendedSets DEF Shows, IsClear
<1> HIDE DEF y, t, k, l
<1>7. \A i \in 1..k : f[i] \in Places(s)
  BY <1>5 DEF Enumerates
<1>8. \A i, j \in 1..k : i < j => f[i] < f[j]
  BY <1>5 DEF Enumerates, Increasing
<1>9. IdOf(s[f[l]]) = IdOf(m)
  BY <1>3, <1>5
<1>10. \A q \in Places(s) : q > f[l] => IdOf(s[q]) # IdOf(m)
  <2> SUFFICES ASSUME NEW q \in Places(s), q > f[l] PROVE IdOf(s[q]) # IdOf(m)
    OBVIOUS
  <2>1. PICK i \in 1..k : f[i] = q
    BY <1>5 DEF Enumerates
  <2>2. f[i] \in Nat /\ f[l] \in Nat
    BY <1>3, <1>7, KeptAre
  <2>3. i > l
    BY <1>2, <1>3, <1>8, <2>1, <2>2
  <2> QED
    BY <1>3, <1>5, <2>1, <2>3
<1>11. /\ Places(t) = Places(s)
       /\ \A p \in Places(s) : /\ Content(t, p) = IF p = f[l] THEN m ELSE Content(s, p)
                              /\ t[p] = s[p]
  BY <1>1, <1>3, <1>6, <1>7, <1>9, <1>10, NewContent DEF t
<1>12. \A i \in 1..k : i # l => f[i] # f[l]
  <2> SUFFICES ASSUME NEW i \in 1..k, i # l PROVE f[i] # f[l]
    OBVIOUS
  <2>1. f[i] \in Nat /\ f[l] \in Nat
    BY <1>3, <1>7, KeptAre
  <2>2. i < l \/ l < i
    BY <1>2, <1>3
  <2> QED
    BY <1>3, <1>8, <2>1, <2>2
<1>13. \A i \in 1..k : y.outputs[i] = Content(t, f[i]) /\ y.ids[i] = IdOf(t[f[i]])
  BY <1>4, <1>5, <1>7, <1>11, <1>12
<1>14. y.clear <=> Pending(t)
  BY <1>4, <1>6
<1>15. Enumerates(f, k, Places(t))
  BY <1>5, <1>11
<1>16. Len(y.ids) = k
  BY <1>2, <1>4
<1>17. Shows(y, t)
  BY <1>4, <1>13, <1>14, <1>15, <1>16, ShowsBy
<1> QED
  BY <1>3, <1>17 DEF y, t, l, k

\* The listener and the rendering agree on one more message.
LEMMA ShowsReceived ==
  ASSUME NEW x \in Listeners, NEW s \in Seq(Messages), NEW m \in Messages, Shows(x, s)
  PROVE  LET y == Received(x, m)
         IN /\ y \in Listeners /\ Shows(y, Append(s, m))
            /\ y.pc = x.pc /\ y.socket = x.socket /\ y.reply = x.reply /\ y.idle = x.idle
<1>1. /\ m.type \in {"stream", "error", "display", "update", "clear", "clearWait"}
      /\ IsClear(m) <=> m \notin Outputs
  BY MessageKinds
<1>2. CASE m.type = "clearWait"
  <2>1. Received(x, m) = [x EXCEPT !.clear = TRUE]
    BY <1>2 DEF Received
  <2>2. /\ [x EXCEPT !.clear = TRUE] \in Listeners
        /\ [x EXCEPT !.clear = TRUE].outputs = x.outputs
        /\ [x EXCEPT !.clear = TRUE].ids = x.ids
        /\ [x EXCEPT !.clear = TRUE].clear
        /\ [x EXCEPT !.clear = TRUE].pc = x.pc
        /\ [x EXCEPT !.clear = TRUE].socket = x.socket
        /\ [x EXCEPT !.clear = TRUE].reply = x.reply
        /\ [x EXCEPT !.clear = TRUE].idle = x.idle
    BY DEF Listeners
  <2>3. Shows([x EXCEPT !.clear = TRUE], Append(s, m))
    BY <1>2, <2>2, ShowsClearWait
  <2> QED
    BY <2>1, <2>2, <2>3
<1>3. CASE m.type = "clear"
  <2>1. Received(x, m) = [x EXCEPT !.outputs = <<>>, !.ids = <<>>]
    BY <1>3 DEF Received
  <2>2. <<>> \in Seq(Outputs) /\ <<>> \in Seq(Nat)
    OBVIOUS
  <2> DEFINE y == [x EXCEPT !.outputs = <<>>, !.ids = <<>>]
  <2>3. /\ y \in Listeners
        /\ y.outputs = <<>> /\ y.ids = <<>> /\ y.clear = x.clear
        /\ y.pc = x.pc /\ y.socket = x.socket /\ y.reply = x.reply /\ y.idle = x.idle
    BY <2>2 DEF Listeners
  <2>4. Shows(y, Append(s, m))
    <3> HIDE DEF y
    <3> QED
      BY <1>3, <2>3, ShowsClear
  <2> QED
    BY <2>1, <2>3, <2>4
<1>4. CASE ~IsClear(m)
  <2>1. m \in Outputs /\ m.type \notin {"idle", "reply", "clear", "clearWait"}
    BY <1>1, <1>4 DEF IsClear
  <2>2. PICK z \in Listeners :
          /\ z = Prepared(x) /\ ~z.clear
          /\ x.clear => z.outputs = <<>> /\ z.ids = <<>>
          /\ ~x.clear => z = x
          /\ z.pc = x.pc /\ z.socket = x.socket /\ z.reply = x.reply /\ z.idle = x.idle
    BY PreparedIs
  <2>3. CASE m.type = "update" /\ m.id # 0 /\ PlaceOf(z, m.id) # 0
    <3>1. Received(x, m) = [z EXCEPT !.outputs[PlaceOf(z, m.id)] = m]
      BY <2>1, <2>2, <2>3 DEF Received
    <3>2. m.id \in Nat
      BY <2>1, <2>3 DEF Outputs
    <3>3. ~x.clear
      <4> SUFFICES ASSUME x.clear PROVE FALSE
        OBVIOUS
      <4>1. Len(z.ids) = 0
        BY <2>2
      <4>2. PlaceOf(z, m.id) \in 0..Len(z.ids)
        BY <2>2, <3>2, LastPlace
      <4> QED
        BY <2>3, <4>1, <4>2
    <3>4. z = x
      BY <2>2, <3>3
    <3>5. /\ PlaceOf(z, m.id) \in 1..Len(z.outputs)
          /\ Shows([z EXCEPT !.outputs[PlaceOf(z, m.id)] = m], Append(s, m))
      BY <2>2, <2>3, <3>4, ShowsUpdate
    <3> QED
      BY <2>1, <2>2, <3>1, <3>5, ReplacedIs
  <2>4. CASE ~(m.type = "update" /\ m.id # 0 /\ PlaceOf(z, m.id) # 0)
    <3>1. Received(x, m) = Pushed(z, m)
      BY <2>1, <2>2, <2>4 DEF Received
    <3>2. CASE x.clear
      BY <1>4, <2>1, <2>2, <3>1, <3>2, ShowsFirst, PushedIs
    <3>3. CASE ~x.clear
      <4>1. Shows(Pushed(z, m), Append(s, m))
        BY <1>4, <2>2, <2>4, <3>3, ShowsFurther
      <4> QED
        BY <2>1, <2>2, <3>1, <4>1, PushedIs
    <3> QED
      BY <3>2, <3>3
  <2> QED
    BY <2>3, <2>4
<1> QED
  BY <1>1, <1>2, <1>3, <1>4 DEF IsClear

\* What a listener shows is what the rendering says.
LEMMA ShowsRendered ==
  ASSUME NEW x \in Listeners, NEW s \in Seq(Messages), Shows(x, s)
  PROVE  x.outputs = Rendered(s)
<1> DEFINE k == Len(x.outputs)
<1>1. k \in Nat /\ x.outputs = [i \in 1..k |-> x.outputs[i]]
  BY LenProperties DEF Listeners
<1>2. PICK f : /\ Enumerates(f, k, Places(s))
               /\ \A i \in 1..k : x.outputs[i] = Content(s, f[i])
  BY DEF Shows
<1>3. Places(s) \in SUBSET Nat
  BY KeptAre
<1>4. Cardinality(Places(s)) = k
  BY <1>1, <1>2, <1>3, EnumerationCounts
<1>5. f = CHOOSE g \in [1..k -> Places(s)] : \A i, j \in 1..k : i < j => g[i] < g[j]
  BY <1>1, <1>2, <1>3, OrderIs
<1> HIDE DEF k
<1>6. Rendered(s) = [i \in 1..k |-> Content(s, f[i])]
  BY <1>4, <1>5 DEF Rendered
<1> QED
  BY <1>1, <1>2, <1>6

-----------------------------------------------------------------------------
\* The states of a socket; those of an execution whose request was not sent.
SocketStates == {"connecting", "open", "closed"}
Early == {"new", "runtime", "post", "opening"}

\* The types of the variables, in the form the steps use.
TypeInv ==
  /\ status \in {"idle", "busy", "restarting", "dead"} /\ restarting \in BOOLEAN
  /\ registered \in {"yes", "leaving", "no"}
  /\ delegate \in BOOLEAN /\ connecting \in BOOLEAN /\ lingering \in BOOLEAN
  /\ kernelId \in BOOLEAN /\ alive \in BOOLEAN /\ attempts \in 0..1
  /\ sockets \in Seq(SocketStates) /\ socket \in 0..Len(sockets)
  /\ exec \in [Executions -> Listeners]
  /\ \A e \in Executions : exec[e].socket \in 0..Len(sockets)
  /\ requests \in Seq(Executions)
  /\ left \in [iopub: Seq(Messages \union {Idle}), reply: BOOLEAN]
  /\ published \in [Executions -> Seq(Messages)]
  /\ faults \in 0..MaxFaults

\* The wiring: while the session is registered, a wait for the runtime is under way
\* exactly if connecting, and somebody waits for it; a session that nobody was
\* connecting when it was shut down has nothing left that could start anew.
WireInv ==
  /\ registered = "yes" => (attempts = 1 <=> connecting)
  /\ registered = "yes" /\ attempts = 1 => \E e \in Executions : exec[e].pc = "runtime"
  /\ registered # "yes" /\ ~lingering =>
       /\ \A e \in Executions : exec[e].pc \notin {"runtime", "post", "opening"}
       /\ attempts = 0 /\ ~delegate /\ socket = NoSocket
  /\ registered # "no" /\ alive => kernelId
  /\ registered = "no" /\ ~lingering => ~alive

\* A session that shows busy has an execution under way.
BusyInv ==
  status = "busy" => \E e \in Executions : exec[e].pc \in {"runtime", "post", "opening", "sent"}

\* It has received nothing; its request is not in the queue.
Blank(x) == /\ x.outputs = <<>> /\ x.ids = <<>>
            /\ ~x.clear /\ ~x.reply /\ ~x.idle
Absent(e, queued) == \A i \in 1..Len(queued) : queued[i] # e

\* An execution: before its request was sent it has seen nothing and nothing was
\* published for it; while its socket is open it shows what was published.
Sound(e, x, seen, socks, queued) ==
  /\ Len(x.ids) = Len(x.outputs)
  /\ x.pc \in Early => Blank(x) /\ seen = <<>> /\ Absent(e, queued)
  /\ x.pc \in {"opening", "sent"} => x.socket # NoSocket
  /\ x.pc = "sent" => /\ socks[x.socket] # "connecting"
                      /\ ~(x.reply /\ x.idle)
                      /\ socks[x.socket] = "open" => Shows(x, seen)
  /\ x.pc = "ok" => Shows(x, seen) /\ Absent(e, queued)
ListenInv ==
  \A e \in Executions : Sound(e, exec[e], published[e], sockets, requests)

\* The kernel: no request is there twice; idle is the last it publishes for one; and
\* nobody has seen idle or a reply that was not published yet.
QueueInv ==
  /\ \A i, j \in 1..Len(requests) : requests[i] = requests[j] => i = j
  /\ left # NothingLeft => requests # <<>>
  /\ left.iopub = <<>> \/ \E s \in Seq(Messages) : left.iopub = Append(s, Idle)
  /\ \A i \in 1..Len(requests) :
       i > 1 \/ left = NothingLeft => ~exec[requests[i]].idle /\ ~exec[requests[i]].reply
  /\ requests # <<>> /\ left # NothingLeft =>
       /\ exec[requests[1]].idle => left.iopub = <<>>
       /\ exec[requests[1]].reply => ~left.reply

IInv == TypeInv /\ WireInv /\ BusyInv /\ ListenInv /\ QueueInv

-----------------------------------------------------------------------------
\* One execution moves on; what it has seen stays.
Moves(e, p, k) ==
  /\ exec' \in [Executions -> Listeners]
  /\ exec'[e].pc = p /\ exec'[e].socket = k
  /\ exec'[e].outputs = exec[e].outputs /\ exec'[e].ids = exec[e].ids
  /\ exec'[e].clear = exec[e].clear
  /\ exec'[e].reply = exec[e].reply /\ exec'[e].idle = exec[e].idle
  /\ \A d \in Executions : d # e => exec'[d] = exec[d]

\* An execution gets a new state and a socket.
LEMMA MovesTo ==
  ASSUME TypeInv, NEW e \in Executions, NEW p \in States, NEW k \in Nat,
         exec' = [exec EXCEPT ![e].pc = p, ![e].socket = k]
  PROVE  Moves(e, p, k)
<1> DEFINE y == [exec[e] EXCEPT !.pc = p, !.socket = k]
<1>1. exec \in [Executions -> Listeners] /\ exec[e] \in Listeners
  BY DEF TypeInv
<1>2. /\ y \in Listeners /\ y.pc = p /\ y.socket = k
      /\ y.outputs = exec[e].outputs /\ y.ids = exec[e].ids /\ y.clear = exec[e].clear
      /\ y.reply = exec[e].reply /\ y.idle = exec[e].idle
  BY <1>1 DEF Listeners
<1>3. exec' = [exec EXCEPT ![e] = y]
  BY <1>1
<1> HIDE DEF y
<1>4. exec'[e] = y /\ exec' \in [Executions -> Listeners]
  BY <1>1, <1>2, <1>3
<1>5. \A d \in Executions : d # e => exec'[d] = exec[d]
  BY <1>1, <1>3
<1> QED
  BY <1>2, <1>4, <1>5 DEF Moves

\* An execution gets a new state.
LEMMA MovesOn ==
  ASSUME TypeInv, NEW e \in Executions, NEW p \in States,
         exec' = [exec EXCEPT ![e].pc = p]
  PROVE  Moves(e, p, exec[e].socket)
<1>1. exec \in [Executions -> Listeners] /\ exec[e] \in Listeners /\ exec[e].socket \in Nat
  BY DEF TypeInv, Listeners
<1>2. [exec EXCEPT ![e].pc = p] = [exec EXCEPT ![e].pc = p, ![e].socket = exec[e].socket]
  BY <1>1 DEF Listeners
<1> QED
  BY <1>1, <1>2, MovesTo

\* What sending comes to.
LEMMA SendIs ==
  ASSUME TypeInv, NEW e \in Executions, NEW k \in Nat \ {0}, NEW show, Send(e, k, show)
  PROVE  \/ /\ Moves(e, "failed", exec[e].socket)
            /\ status' = "idle" /\ requests' = requests
         \/ /\ Moves(e, "sent", k) /\ sockets'[k] # "connecting"
            /\ status' = show
            /\ requests' \in {requests, Append(requests, e)}
<1>1. CASE sockets'[k] = "connecting"
  <2>1. exec' = [exec EXCEPT ![e].pc = "failed"] /\ status' = "idle" /\ requests' = requests
    BY <1>1 DEF Send, Failed
  <2> QED
    BY <2>1, MovesOn DEF States
<1>2. CASE sockets'[k] # "connecting"
  <2>1. /\ exec' = [exec EXCEPT ![e].pc = "sent", ![e].socket = k]
        /\ requests' \in {requests, Append(requests, e)} /\ status' = show
    BY <1>2 DEF Send
  <2> QED
    BY <1>2, <2>1, MovesTo DEF States
<1> QED
  BY <1>1, <1>2

\* What taking a socket comes to: sending on the open one, or waiting for a new one.
LEMMA OpenSocketIs ==
  ASSUME TypeInv, NEW e \in Executions, NEW show, OpenSocket(e, show)
  PROVE  \/ /\ UNCHANGED <<socket, sockets>> /\ socket \in 1..Len(sockets)
            /\ Moves(e, "sent", socket) /\ sockets'[socket] # "connecting"
            /\ status' = show
            /\ requests' \in {requests, Append(requests, e)}
         \/ /\ sockets' = Append(sockets, "connecting") /\ socket' = Len(sockets) + 1
            /\ Moves(e, "opening", socket')
            /\ status' = show /\ requests' = requests
<1>1. sockets \in Seq(SocketStates) /\ socket \in 0..Len(sockets) /\ Len(sockets) \in Nat
  BY LenProperties DEF TypeInv
<1>2. CASE socket # NoSocket /\ sockets[socket] = "open"
  <2>1. UNCHANGED <<socket, sockets>> /\ Send(e, socket, show)
    BY <1>2 DEF OpenSocket
  <2>2. socket \in 1..Len(sockets) /\ socket \in Nat \ {0}
    BY <1>1, <1>2 DEF NoSocket
  <2>3. sockets'[socket] # "connecting"
    BY <1>2, <2>1
  <2>4. /\ exec' = [exec EXCEPT ![e].pc = "sent", ![e].socket = socket]
        /\ requests' \in {requests, Append(requests, e)} /\ status' = show
    BY <2>1, <2>3 DEF Send
  <2>5. Moves(e, "sent", socket)
    BY <2>2, <2>4, MovesTo DEF States
  <2> QED
    BY <2>1, <2>2, <2>3, <2>4, <2>5
<1>3. CASE ~(socket # NoSocket /\ sockets[socket] = "open")
  <2>1. /\ sockets' = Append(sockets, "connecting") /\ socket' = Len(sockets')
        /\ exec' = [exec EXCEPT ![e].pc = "opening", ![e].socket = socket']
        /\ status' = show /\ requests' = requests
    BY <1>3 DEF OpenSocket
  <2>2. Len(sockets') = Len(sockets) + 1
    BY <1>1, <2>1, AppendProperties DEF SocketStates
  <2>3. socket' \in Nat
    BY <1>1, <2>1, <2>2
  <2>4. Moves(e, "opening", socket')
    BY <2>1, <2>3, MovesTo DEF States
  <2> QED
    BY <2>1, <2>2, <2>4
<1> QED
  BY <1>2, <1>3

-----------------------------------------------------------------------------
\* An execution that has received nothing shows nothing.
LEMMA BlankShows ==
  ASSUME NEW x, Blank(x)
  PROVE  Shows(x, <<>>) /\ Len(x.ids) = Len(x.outputs)
<1>1. x.outputs = <<>> /\ x.ids = <<>> /\ ~x.clear /\ Len(<<>>) = 0
  BY DEF Blank
<1>2. ~Pending(<<>>) /\ Places(<<>>) = {}
  <2>1. DOMAIN <<>> = {}
    OBVIOUS
  <2> QED
    BY <2>1 DEF Pending, Places, Kept, Outs
<1>3. Enumerates(<<>>, 0, Places(<<>>))
  BY <1>2 DEF Enumerates, Increasing
<1>4. x.clear <=> Pending(<<>>)
  BY <1>1, <1>2
<1>5. Len(x.outputs) = 0 /\ Len(x.ids) = 0
  BY <1>1
<1>6. \A i \in 1..0 : FALSE
  OBVIOUS
<1> QED
  BY <1>3, <1>4, <1>5, <1>6, ShowsBy

\* Sockets are added, and one that was open or closed can only be closed.
Compatible(socks, socks2) ==
  /\ socks2 \in Seq(SocketStates) /\ Len(socks) <= Len(socks2)
  /\ \A i \in 1..Len(socks) : socks[i] # "connecting" => socks2[i] \in {socks[i], "closed"}

\* An execution stays sound when no socket opens under it and it is not queued.
LEMMA SoundKeeps ==
  ASSUME NEW e, NEW x \in Listeners, NEW seen, NEW socks \in Seq(SocketStates), NEW socks2,
         NEW queued, NEW queued2, x.socket \in 0..Len(socks), Compatible(socks, socks2),
         Absent(e, queued) => Absent(e, queued2), Sound(e, x, seen, socks, queued)
  PROVE  Sound(e, x, seen, socks2, queued2)
<1>1. x.pc = "sent" => /\ socks2[x.socket] # "connecting"
                       /\ socks2[x.socket] = "open" => socks[x.socket] = "open"
  <2> SUFFICES ASSUME x.pc = "sent"
               PROVE  /\ socks2[x.socket] # "connecting"
                      /\ socks2[x.socket] = "open" => socks[x.socket] = "open"
    OBVIOUS
  <2>1. x.socket # 0 /\ socks[x.socket] # "connecting"
    BY DEF Sound, NoSocket
  <2>2. x.socket \in 1..Len(socks)
    BY <2>1, LenProperties
  <2>3. socks2[x.socket] \in {socks[x.socket], "closed"}
    BY <2>1, <2>2 DEF Compatible
  <2> QED
    BY <2>1, <2>3
<1> QED
  BY <1>1 DEF Sound

\* The same for an execution that moves on, with what it has seen.
SameSeen(x, y) ==
  /\ y.outputs = x.outputs /\ y.ids = x.ids /\ y.clear = x.clear
  /\ y.reply = x.reply /\ y.idle = x.idle

\* An execution that moves on has still received nothing.
LEMMA SameBlank ==
  ASSUME NEW x, NEW y, SameSeen(x, y), Blank(x)
  PROVE  Blank(y)
BY DEF SameSeen, Blank

\* An execution that moves on stays sound.
LEMMA SoundMoves ==
  ASSUME NEW e, NEW x, NEW y, SameSeen(x, y), NEW seen, NEW socks, NEW socks2,
         NEW queued, NEW queued2, Sound(e, x, seen, socks, queued),
         \/ y.pc = "failed"
         \/ /\ x.pc \in Early
            /\ \/ y.pc \in {"runtime", "post"} /\ queued2 = queued
               \/ y.pc = "opening" /\ queued2 = queued /\ y.socket # NoSocket
               \/ y.pc = "sent" /\ y.socket # NoSocket /\ socks2[y.socket] # "connecting"
  PROVE  Sound(e, y, seen, socks2, queued2)
<1>1. CASE y.pc = "failed"
  BY <1>1 DEF Sound, SameSeen, Early
<1>2. CASE x.pc \in Early
  <2>1. Blank(x) /\ seen = <<>> /\ Absent(e, queued)
    BY <1>2 DEF Sound
  <2>2. Blank(y)
    BY <2>1, SameBlank
  <2>3. Shows(y, seen) /\ Len(y.ids) = Len(y.outputs) /\ ~y.reply
    BY <2>1, <2>2, BlankShows DEF Blank
  <2>4. CASE y.pc \in {"runtime", "post"} /\ queued2 = queued
    BY <2>1, <2>2, <2>3, <2>4 DEF Sound
  <2>5. CASE y.pc = "opening" /\ queued2 = queued /\ y.socket # NoSocket
    BY <2>1, <2>2, <2>3, <2>5 DEF Sound
  <2>6. CASE y.pc = "sent" /\ y.socket # NoSocket /\ socks2[y.socket] # "connecting"
    BY <2>3, <2>6 DEF Sound, Early
  <2>7. CASE y.pc = "failed"
    BY <1>1, <2>7
  <2> QED
    BY <2>4, <2>5, <2>6, <2>7
<1> QED
  BY <1>1, <1>2

\* A request that is queued is no other one.
LEMMA AppendedAbsent ==
  ASSUME TypeInv, NEW e \in Executions, NEW d \in Executions, d # e, Absent(d, requests)
  PROVE  Absent(d, Append(requests, e))
<1>1. /\ requests \in Seq(Executions) /\ Len(requests) \in Nat
      /\ Len(Append(requests, e)) = Len(requests) + 1
      /\ \A i \in 1..Len(requests) : Append(requests, e)[i] = requests[i]
      /\ Append(requests, e)[Len(requests) + 1] = e
  BY AppendProperties, LenProperties DEF TypeInv
<1> QED
  BY <1>1 DEF Absent

\* One execution moves on, and its request may be queued.
LEMMA MovesKeep ==
  ASSUME TypeInv, ListenInv, NEW e \in Executions, NEW p, NEW k, Moves(e, p, k),
         Compatible(sockets, sockets'), published' = published,
         requests' \in {requests, Append(requests, e)},
         \/ p = "failed" /\ requests' = requests
         \/ /\ exec[e].pc \in Early
            /\ \/ p \in {"runtime", "post"} /\ requests' = requests
               \/ p = "opening" /\ requests' = requests /\ k # NoSocket
               \/ p = "sent" /\ k # NoSocket /\ sockets'[k] # "connecting"
  PROVE  ListenInv'
<1>1. ASSUME NEW d \in Executions
      PROVE  Sound(d, exec'[d], published[d], sockets', requests')
  <2>1. Sound(d, exec[d], published[d], sockets, requests)
    BY DEF ListenInv
  <2>2. CASE d = e
    <3>1. SameSeen(exec[e], exec'[e]) /\ exec'[e].pc = p /\ exec'[e].socket = k
      BY DEF Moves, SameSeen
    <3> QED
      BY <2>1, <2>2, <3>1, SoundMoves
  <2>3. CASE d # e
    <3>1. exec'[d] = exec[d] /\ exec[d] \in Listeners
      BY <2>3 DEF Moves, TypeInv
    <3>2. Absent(d, requests) => Absent(d, requests')
      BY <2>3, AppendedAbsent
    <3>3. sockets \in Seq(SocketStates) /\ exec[d].socket \in 0..Len(sockets)
      BY DEF TypeInv
    <3> QED
      BY <2>1, <3>1, <3>2, <3>3, SoundKeeps
  <2> QED
    BY <2>2, <2>3
<1> QED
  BY <1>1 DEF ListenInv

\* Nothing moves on.
LEMMA NobodyMoves ==
  ASSUME TypeInv, ListenInv, exec' = exec, Compatible(sockets, sockets'),
         published' = published, requests' \in {requests, <<>>}
  PROVE  ListenInv'
<1>1. ASSUME NEW d \in Executions
      PROVE  Sound(d, exec[d], published[d], sockets', requests')
  <2>1. Sound(d, exec[d], published[d], sockets, requests) /\ exec[d] \in Listeners
    BY DEF ListenInv, TypeInv
  <2>2. Absent(d, requests) => Absent(d, requests')
    BY DEF Absent
  <2>3. sockets \in Seq(SocketStates) /\ exec[d].socket \in 0..Len(sockets)
    BY DEF TypeInv
  <2> QED
    BY <2>1, <2>2, <2>3, SoundKeeps
<1> QED
  BY <1>1 DEF ListenInv

\* Sockets that do not change are compatible with themselves.
LEMMA SocketsStay ==
  ASSUME TypeInv, sockets' = sockets
  PROVE  Compatible(sockets, sockets')
<1>1. sockets \in Seq(SocketStates) /\ Len(sockets) \in Nat
  BY LenProperties DEF TypeInv
<1> QED
  BY <1>1 DEF Compatible

\* A socket that opens or closes.
LEMMA SocketChanges ==
  ASSUME TypeInv, NEW k \in 1..Len(sockets), NEW v \in SocketStates,
         sockets[k] = "connecting" \/ v = "closed",
         sockets' = [sockets EXCEPT ![k] = v]
  PROVE  Compatible(sockets, sockets') /\ Len(sockets') = Len(sockets) /\ sockets'[k] = v
<1>1. sockets \in Seq(SocketStates) /\ Len(sockets) \in Nat
  BY LenProperties DEF TypeInv
<1>2. /\ sockets' \in Seq(SocketStates) /\ Len(sockets') = Len(sockets)
      /\ \A j \in 1..Len(sockets) : sockets'[j] = IF j = k THEN v ELSE sockets[j]
  BY <1>1, ExceptSeq
<1> QED
  BY <1>1, <1>2 DEF Compatible

\* A further socket.
LEMMA SocketAdded ==
  ASSUME TypeInv, sockets' = Append(sockets, "connecting")
  PROVE  Compatible(sockets, sockets') /\ Len(sockets') = Len(sockets) + 1
<1>1. sockets \in Seq(SocketStates) /\ Len(sockets) \in Nat /\ "connecting" \in SocketStates
  BY LenProperties DEF TypeInv, SocketStates
<1>2. /\ sockets' \in Seq(SocketStates) /\ Len(sockets') = Len(sockets) + 1
      /\ \A j \in 1..Len(sockets) : sockets'[j] = sockets[j]
  BY <1>1, AppendProperties
<1> QED
  BY <1>1, <1>2 DEF Compatible

-----------------------------------------------------------------------------
\* The queue when an execution moves on.
LEMMA QueueKeeps ==
  ASSUME TypeInv, ListenInv, QueueInv, NEW e \in Executions, NEW p, NEW k, Moves(e, p, k),
         left' = left,
         \/ requests' = requests
         \/ requests' = Append(requests, e) /\ exec[e].pc \in Early
  PROVE  QueueInv'
<1>1. \A d \in Executions : exec'[d].idle = exec[d].idle /\ exec'[d].reply = exec[d].reply
  BY DEF Moves
<1>2. requests \in Seq(Executions) /\ Len(requests) \in Nat
  BY LenProperties DEF TypeInv
<1>3. \A i \in 1..Len(requests) : requests[i] \in Executions
  BY <1>2, ElementOfSeq
<1>4. requests # <<>> => 1 \in 1..Len(requests)
  BY <1>2, EmptySeq
<1>5. CASE requests' = requests
  BY <1>1, <1>3, <1>4, <1>5 DEF QueueInv
<1>6. CASE requests' = Append(requests, e) /\ exec[e].pc \in Early
  <2>1. /\ requests' # <<>>
        /\ Len(requests') = Len(requests) + 1
        /\ \A i \in 1..Len(requests) : requests'[i] = requests[i]
        /\ requests'[Len(requests) + 1] = e
    BY <1>2, <1>6, AppendProperties
  <2>2. Absent(e, requests) /\ ~exec[e].idle /\ ~exec[e].reply
    BY <1>6 DEF ListenInv, Sound, Blank
  <2>3. \A i \in 1..Len(requests') :
          \/ i \in 1..Len(requests) /\ requests'[i] = requests[i] /\ requests[i] # e
          \/ i = Len(requests) + 1 /\ requests'[i] = e
    BY <1>2, <2>1, <2>2 DEF Absent
  <2>4. \A i, j \in 1..Len(requests') : requests'[i] = requests'[j] => i = j
    BY <2>3 DEF QueueInv
  <2>5. \A i \in 1..Len(requests') :
          i > 1 \/ left = NothingLeft => ~exec'[requests'[i]].idle /\ ~exec'[requests'[i]].reply
    BY <1>1, <1>3, <2>2, <2>3 DEF QueueInv
  <2>6. left # NothingLeft => /\ exec'[requests'[1]].idle => left.iopub = <<>>
                              /\ exec'[requests'[1]].reply => ~left.reply
    <3> SUFFICES ASSUME left # NothingLeft
                 PROVE  /\ exec'[requests'[1]].idle => left.iopub = <<>>
                        /\ exec'[requests'[1]].reply => ~left.reply
      OBVIOUS
    <3>1. requests # <<>>
      BY DEF QueueInv
    <3>2. requests'[1] = requests[1] /\ requests[1] \in Executions
      BY <1>3, <1>4, <2>1, <3>1
    <3> QED
      BY <1>1, <3>1, <3>2 DEF QueueInv
  <2> QED
    BY <2>1, <2>4, <2>5, <2>6 DEF QueueInv
<1> QED
  BY <1>5, <1>6

\* The queue does not change.
LEMMA QueueStays ==
  ASSUME QueueInv, exec' = exec, requests' = requests, left' = left
  PROVE  QueueInv'
BY DEF QueueInv

\* The kernel forgets its requests.
LEMMA QueueDropped ==
  ASSUME requests' = <<>>, left' = NothingLeft
  PROVE  QueueInv'
<1>1. Len(<<>>) = 0 /\ NothingLeft.iopub = <<>>
  BY DEF NothingLeft
<1>2. \A i \in 1..0 : FALSE
  OBVIOUS
<1> QED
  BY <1>1, <1>2 DEF QueueInv

-----------------------------------------------------------------------------
\* The executions, sockets and requests keep their types when an execution moves on.
LEMMA MovesTyped ==
  ASSUME TypeInv, NEW e \in Executions, NEW p, NEW k \in 0..Len(sockets'), Moves(e, p, k),
         Compatible(sockets, sockets'), requests' \in {requests, Append(requests, e)}
  PROVE  /\ sockets' \in Seq(SocketStates) /\ exec' \in [Executions -> Listeners]
         /\ \A d \in Executions : exec'[d].socket \in 0..Len(sockets')
         /\ requests' \in Seq(Executions)
<1>1. /\ Len(sockets) \in Nat /\ Len(sockets') \in Nat /\ Len(sockets) <= Len(sockets')
      /\ sockets' \in Seq(SocketStates)
  BY LenProperties DEF TypeInv, Compatible
<1>2. exec' \in [Executions -> Listeners]
  BY DEF Moves
<1>3. ASSUME NEW d \in Executions PROVE exec'[d].socket \in 0..Len(sockets')
  <2>1. CASE d = e
    BY <2>1 DEF Moves
  <2>2. CASE d # e
    <3>1. exec'[d].socket = exec[d].socket
      BY <2>2 DEF Moves
    <3>2. exec[d].socket \in 0..Len(sockets)
      BY DEF TypeInv
    <3> QED
      BY <1>1, <3>1, <3>2
  <2> QED
    BY <2>1, <2>2
<1>4. requests' \in Seq(Executions)
  <2>1. requests \in Seq(Executions)
    BY DEF TypeInv
  <2>2. Append(requests, e) \in Seq(Executions)
    BY <2>1, AppendProperties
  <2> QED
    BY <2>1, <2>2
<1> QED
  BY <1>1, <1>2, <1>3, <1>4

\* The sockets of the executions exist.
LEMMA LengthsKept ==
  ASSUME TypeInv
  PROVE  Len(sockets) \in Nat /\ \A e \in Executions : exec[e].socket \in 0..Len(sockets)
BY LenProperties DEF TypeInv

\* Executions that wait for the runtime, or connect, when one moves on.
LEMMA WaitingKept ==
  ASSUME NEW e \in Executions, NEW p, NEW k, Moves(e, p, k), exec[e].pc # "runtime",
         \E d \in Executions : exec[d].pc = "runtime"
  PROVE  \E d \in Executions : exec'[d].pc = "runtime"
BY DEF Moves

\* A status of busy stays true when an execution moves on.
LEMMA BusyMoves ==
  ASSUME NEW e \in Executions, NEW p, NEW k, Moves(e, p, k), BusyInv,
         status' = "idle" \/ p \in {"runtime", "post", "opening", "sent"}
  PROVE  BusyInv'
BY DEF Moves, BusyInv

\* execute(), no runtime known: it waits for one.
LEMMA WithoutRuntimeStep ==
  ASSUME IInv, NEW e \in Executions, ExecuteWithoutRuntime(e)
  PROVE  IInv'
<1>1. TypeInv /\ WireInv /\ BusyInv /\ ListenInv /\ QueueInv
  BY DEF IInv
<1>2. /\ exec[e].pc = "new" /\ registered = "yes"
      /\ exec' = [exec EXCEPT ![e].pc = "runtime"] /\ status' = "busy"
      /\ connecting' = TRUE /\ attempts' = IF connecting THEN attempts ELSE attempts + 1
      /\ UNCHANGED <<restarting, registered, delegate, lingering, link, kernel, faults>>
  BY DEF ExecuteWithoutRuntime, Begin, Waits
<1>3. Moves(e, "runtime", exec[e].socket)
  BY <1>1, <1>2, MovesOn DEF States
<1>4. /\ sockets' = sockets /\ socket' = socket /\ published' = published /\ requests' = requests
      /\ left' = left /\ alive' = alive /\ kernelId' = kernelId
  BY <1>2 DEF link, kernel, queue
<1>5. Compatible(sockets, sockets')
  BY <1>1, <1>4, SocketsStay
<1>6. ListenInv'
  BY <1>1, <1>2, <1>3, <1>4, <1>5, MovesKeep DEF Early
<1>7. QueueInv'
  BY <1>1, <1>3, <1>4, QueueKeeps
<1>8. /\ exec' \in [Executions -> Listeners] /\ requests' \in Seq(Executions)
      /\ \A d \in Executions : exec'[d].socket \in 0..Len(sockets')
  BY <1>1, <1>3, <1>4, <1>5, MovesTyped, LengthsKept
<1>9. attempts' = 1
  BY <1>1, <1>2 DEF TypeInv, WireInv
<1>10. TypeInv'
  BY <1>1, <1>2, <1>4, <1>8, <1>9 DEF TypeInv
<1>11. exec'[e].pc = "runtime"
  BY <1>3 DEF Moves
<1>12. WireInv'
  BY <1>1, <1>2, <1>4, <1>9, <1>11 DEF WireInv
<1>13. BusyInv'
  BY <1>1, <1>3, BusyMoves
<1> QED
  BY <1>6, <1>7, <1>10, <1>12, <1>13 DEF IInv

\* execute(), no kernel known: it asks for one.
LEMMA WithoutKernelStep ==
  ASSUME IInv, NEW e \in Executions, ExecuteWithoutKernel(e)
  PROVE  IInv'
<1>1. TypeInv /\ WireInv /\ BusyInv /\ ListenInv /\ QueueInv
  BY DEF IInv
<1>2. /\ exec[e].pc = "new" /\ registered = "yes"
      /\ exec' = [exec EXCEPT ![e].pc = "post"] /\ status' = "busy"
      /\ UNCHANGED <<restarting, wiring, link, kernel, faults>>
  BY DEF ExecuteWithoutKernel, Begin, Waits
<1>3. Moves(e, "post", exec[e].socket)
  BY <1>1, <1>2, MovesOn DEF States
<1>4. /\ sockets' = sockets /\ socket' = socket /\ published' = published /\ requests' = requests
      /\ left' = left /\ alive' = alive /\ kernelId' = kernelId
      /\ registered' = registered /\ delegate' = delegate /\ connecting' = connecting
      /\ attempts' = attempts /\ lingering' = lingering
  BY <1>2 DEF link, kernel, queue, wiring
<1>5. Compatible(sockets, sockets')
  BY <1>1, <1>4, SocketsStay
<1>6. ListenInv'
  BY <1>1, <1>2, <1>3, <1>4, <1>5, MovesKeep DEF Early
<1>7. QueueInv'
  BY <1>1, <1>3, <1>4, QueueKeeps
<1>8. /\ exec' \in [Executions -> Listeners] /\ requests' \in Seq(Executions)
      /\ \A d \in Executions : exec'[d].socket \in 0..Len(sockets')
  BY <1>1, <1>3, <1>4, <1>5, MovesTyped, LengthsKept
<1>9. TypeInv'
  BY <1>1, <1>2, <1>4, <1>8 DEF TypeInv
<1>10. (\E d \in Executions : exec[d].pc = "runtime") =>
          \E d \in Executions : exec'[d].pc = "runtime"
  BY <1>2, <1>3, WaitingKept
<1>11. WireInv'
  BY <1>1, <1>2, <1>4, <1>10 DEF WireInv
<1>12. BusyInv'
  BY <1>1, <1>3, BusyMoves
<1> QED
  BY <1>6, <1>7, <1>9, <1>11, <1>12 DEF IInv

\* A step that ends an execution with an error.
LEMMA FailedStep ==
  ASSUME IInv, NEW e \in Executions, exec[e].pc # "runtime", Failed(e),
         Compatible(sockets, sockets'), faults' \in 0..MaxFaults,
         UNCHANGED <<restarting, wiring, kernelId, socket, kernel>>
  PROVE  IInv'
<1>1. TypeInv /\ WireInv /\ BusyInv /\ ListenInv /\ QueueInv
  BY DEF IInv
<1>2. exec' = [exec EXCEPT ![e].pc = "failed"] /\ status' = "idle"
  BY DEF Failed
<1>3. Moves(e, "failed", exec[e].socket)
  BY <1>1, <1>2, MovesOn DEF States
<1>4. /\ socket' = socket /\ published' = published /\ requests' = requests
      /\ left' = left /\ alive' = alive /\ kernelId' = kernelId /\ restarting' = restarting
      /\ registered' = registered /\ delegate' = delegate /\ connecting' = connecting
      /\ attempts' = attempts /\ lingering' = lingering
  BY DEF kernel, queue, wiring
<1>5. ListenInv'
  BY <1>1, <1>3, <1>4, MovesKeep
<1>6. QueueInv'
  BY <1>1, <1>3, <1>4, QueueKeeps
<1>7. exec[e].socket \in 0..Len(sockets') /\ socket' \in 0..Len(sockets')
  BY <1>1, <1>4, LengthsKept, LenProperties DEF Compatible, TypeInv
<1>8. /\ exec' \in [Executions -> Listeners] /\ requests' \in Seq(Executions)
      /\ sockets' \in Seq(SocketStates)
      /\ \A d \in Executions : exec'[d].socket \in 0..Len(sockets')
  BY <1>1, <1>3, <1>4, <1>7, MovesTyped
<1>9. TypeInv'
  BY <1>1, <1>2, <1>4, <1>7, <1>8 DEF TypeInv
<1>10. (\E d \in Executions : exec[d].pc = "runtime") =>
          \E d \in Executions : exec'[d].pc = "runtime"
  BY <1>3, WaitingKept
<1>11. \A d \in Executions : exec'[d].pc \in {exec[d].pc, "failed"}
  BY <1>3 DEF Moves
<1>12. WireInv'
  BY <1>1, <1>4, <1>10, <1>11 DEF WireInv
<1>13. BusyInv'
  BY <1>1, <1>2, <1>3, BusyMoves
<1> QED
  BY <1>5, <1>6, <1>9, <1>12, <1>13 DEF IInv

\* A step that sends, or opens a socket to send on, for an execution that may do so.
LEMMA SentStep ==
  ASSUME IInv, NEW e \in Executions, NEW p \in {"sent", "opening"}, NEW k \in 1..Len(sockets'),
         Moves(e, p, k), exec[e].pc \in Early \ {"runtime"},
         exec[e].pc = "new" => registered = "yes",
         Compatible(sockets, sockets'), socket' \in 0..Len(sockets'),
         \/ p = "opening" /\ requests' = requests
         \/ /\ p = "sent" /\ sockets'[k] # "connecting"
            /\ requests' \in {requests, Append(requests, e)},
         status' \in {"busy", status},
         (alive' = alive /\ kernelId' = kernelId) \/ (alive' /\ kernelId'),
         alive' \in BOOLEAN, kernelId' \in BOOLEAN,
         UNCHANGED <<restarting, wiring, left, published, faults>>
  PROVE  IInv'
<1>1. TypeInv /\ WireInv /\ BusyInv /\ ListenInv /\ QueueInv
  BY DEF IInv
<1>2. /\ published' = published /\ left' = left /\ restarting' = restarting
      /\ registered' = registered /\ delegate' = delegate /\ connecting' = connecting
      /\ attempts' = attempts /\ lingering' = lingering /\ faults' = faults
  BY DEF wiring
<1>3. k \in 0..Len(sockets') /\ k # NoSocket
  BY DEF NoSocket
<1>4. ListenInv'
  BY <1>1, <1>2, <1>3, MovesKeep
<1>5. QueueInv'
  BY <1>1, <1>2, QueueKeeps
<1>6. /\ exec' \in [Executions -> Listeners] /\ requests' \in Seq(Executions)
      /\ sockets' \in Seq(SocketStates)
      /\ \A d \in Executions : exec'[d].socket \in 0..Len(sockets')
  BY <1>1, <1>3, MovesTyped
<1>7. TypeInv'
  BY <1>1, <1>2, <1>6 DEF TypeInv
<1>8. (\E d \in Executions : exec[d].pc = "runtime") =>
          \E d \in Executions : exec'[d].pc = "runtime"
  BY WaitingKept
<1>9. registered = "yes" \/ lingering
  BY <1>1 DEF WireInv, Early
<1>10. WireInv'
  BY <1>1, <1>2, <1>8, <1>9 DEF WireInv
<1>11. BusyInv'
  BY <1>1, BusyMoves
<1> QED
  BY <1>4, <1>5, <1>7, <1>10, <1>11 DEF IInv

\* What ensureConnected does once the kernel is known.
LEMMA OpenedStep ==
  ASSUME IInv, NEW e \in Executions, exec[e].pc \in Early \ {"runtime"},
         exec[e].pc = "new" => registered = "yes",
         NEW show \in {"busy", status}, OpenSocket(e, show),
         (alive' = alive /\ kernelId' = kernelId) \/ (alive' /\ kernelId'),
         alive' \in BOOLEAN, kernelId' \in BOOLEAN,
         UNCHANGED <<restarting, wiring, left, published, faults>>
  PROVE  IInv'
<1>1. TypeInv
  BY DEF IInv
<1>2. CASE /\ UNCHANGED <<socket, sockets>> /\ socket \in 1..Len(sockets)
           /\ Moves(e, "sent", socket) /\ sockets'[socket] # "connecting"
           /\ status' = show
           /\ requests' \in {requests, Append(requests, e)}
  <2>1. socket \in 1..Len(sockets') /\ socket' \in 0..Len(sockets')
    BY <1>2, LengthsKept, <1>1
  <2>2. Compatible(sockets, sockets')
    BY <1>1, <1>2, SocketsStay
  <2> QED
    BY <1>2, <2>1, <2>2, SentStep
<1>3. CASE /\ sockets' = Append(sockets, "connecting") /\ socket' = Len(sockets) + 1
           /\ Moves(e, "opening", socket')
           /\ status' = show /\ requests' = requests
  <2>1. Compatible(sockets, sockets') /\ Len(sockets') = Len(sockets) + 1 /\ Len(sockets) \in Nat
    BY <1>1, <1>3, SocketAdded, LengthsKept
  <2>2. socket' \in 1..Len(sockets') /\ socket' \in 0..Len(sockets')
    BY <1>3, <2>1
  <2> QED
    BY <1>3, <2>1, <2>2, SentStep
<1> QED
  BY <1>1, <1>2, <1>3, OpenSocketIs

\* execute(), a kernel is known: it takes a socket.
LEMMA ConnectedStep ==
  ASSUME IInv, NEW e \in Executions, ExecuteConnected(e)
  PROVE  IInv'
<1>1. /\ exec[e].pc = "new" /\ registered = "yes"
      /\ UNCHANGED <<restarting, wiring, kernelId, alive, left, published, faults>>
      /\ OpenSocket(e, "busy")
  BY DEF ExecuteConnected, Begin
<1>2. alive' \in BOOLEAN /\ kernelId' \in BOOLEAN
  BY <1>1 DEF IInv, TypeInv
<1> QED
  BY <1>1, <1>2, OpenedStep DEF Early

\* The gateway answers with the kernel: the execution takes a socket.
LEMMA PostedStep ==
  ASSUME IInv, NEW e \in Executions, KernelPosted(e)
  PROVE  IInv'
<1>1. /\ exec[e].pc = "post" /\ kernelId' = TRUE /\ alive' = TRUE
      /\ OpenSocket(e, status)
      /\ UNCHANGED <<restarting, wiring, left, published, faults>>
  BY DEF KernelPosted
<1> QED
  BY <1>1, OpenedStep DEF Early

\* The faults stay below their bound.
LEMMA FaultIs ==
  ASSUME TypeInv, Fault \/ faults' = faults
  PROVE  faults' \in 0..MaxFaults
BY FaultsAssumption DEF TypeInv, Fault

\* The gateway does not answer.
LEMMA PostFailsStep ==
  ASSUME IInv, NEW e \in Executions, PostFails(e)
  PROVE  IInv'
<1>1. /\ exec[e].pc = "post" /\ Fault /\ Failed(e)
      /\ UNCHANGED <<restarting, wiring, link, kernel>>
  BY DEF PostFails
<1>2. TypeInv /\ sockets' = sockets /\ UNCHANGED <<kernelId, socket>>
  BY <1>1 DEF IInv, link
<1>3. Compatible(sockets, sockets') /\ faults' \in 0..MaxFaults
  BY <1>1, <1>2, SocketsStay, FaultIs
<1> QED
  BY <1>1, <1>2, <1>3, FailedStep

\* An execution gives up.
LEMMA TimeoutStep ==
  ASSUME IInv, NEW e \in Executions, Timeout(e)
  PROVE  IInv'
<1>1. /\ exec[e].pc = "sent" /\ Failed(e)
      /\ UNCHANGED <<restarting, wiring, link, kernel, faults>>
  BY DEF Timeout
<1>2. TypeInv /\ sockets' = sockets /\ UNCHANGED <<kernelId, socket>>
  BY <1>1 DEF IInv, link
<1>3. Compatible(sockets, sockets') /\ faults' \in 0..MaxFaults
  BY <1>1, <1>2, SocketsStay, FaultIs
<1> QED
  BY <1>1, <1>2, <1>3, FailedStep

\* An execution that waits for a socket has one.
LEMMA OpeningSocket ==
  ASSUME IInv, NEW e \in Executions, exec[e].pc = "opening"
  PROVE  exec[e].socket \in 1..Len(sockets)
<1>1. exec[e].socket \in 0..Len(sockets) /\ Len(sockets) \in Nat
  BY LengthsKept DEF IInv
<1>2. exec[e].socket # 0
  BY DEF IInv, ListenInv, Sound, NoSocket
<1> QED
  BY <1>1, <1>2

\* A socket opens: the execution sends on the one the adapter has now.
LEMMA SocketOpensStep ==
  ASSUME IInv, NEW e \in Executions, SocketOpens(e)
  PROVE  IInv'
<1>1. /\ exec[e].pc = "opening" /\ sockets[exec[e].socket] = "connecting"
      /\ sockets' = [sockets EXCEPT ![exec[e].socket] = "open"]
      /\ UNCHANGED <<restarting, wiring, kernelId, socket, alive, left, published, faults>>
      /\ IF socket = NoSocket THEN Failed(e) /\ requests' = requests ELSE Send(e, socket, status)
  BY DEF SocketOpens
<1>2. TypeInv /\ socket \in 0..Len(sockets)
  BY DEF IInv, TypeInv
<1>3. exec[e].socket \in 1..Len(sockets)
  BY <1>1, OpeningSocket
<1>4. Compatible(sockets, sockets') /\ Len(sockets') = Len(sockets)
  BY <1>1, <1>2, <1>3, SocketChanges DEF SocketStates
<1>5. faults' \in 0..MaxFaults /\ alive' \in BOOLEAN /\ kernelId' \in BOOLEAN
  BY <1>1, <1>2, FaultIs DEF TypeInv
<1>6. requests' = requests => UNCHANGED kernel
  BY <1>1 DEF kernel, queue
<1>7. CASE socket = NoSocket
  BY <1>1, <1>4, <1>5, <1>6, <1>7, FailedStep
<1>8. CASE socket # NoSocket
  <2>1. Send(e, socket, status) /\ socket \in Nat \ {0} /\ socket \in 1..Len(sockets')
    BY <1>1, <1>2, <1>4, <1>8, LengthsKept DEF NoSocket
  <2>2. CASE sockets'[socket] = "connecting"
    <3>1. Failed(e) /\ requests' = requests
      BY <2>1, <2>2 DEF Send
    <3> QED
      BY <1>1, <1>4, <1>5, <1>6, <3>1, FailedStep
  <2>3. CASE sockets'[socket] # "connecting"
    <3>1. /\ exec' = [exec EXCEPT ![e].pc = "sent", ![e].socket = socket]
          /\ requests' \in {requests, Append(requests, e)} /\ status' = status
      BY <2>1, <2>3 DEF Send
    <3>2. Moves(e, "sent", socket)
      BY <1>2, <2>1, <3>1, MovesTo DEF States
    <3>3. socket' \in 0..Len(sockets')
      BY <1>1, <1>2, <1>4
    <3> QED
      BY <1>1, <1>4, <1>5, <2>1, <2>3, <3>1, <3>2, <3>3, SentStep DEF Early
  <2> QED
    BY <2>2, <2>3
<1> QED
  BY <1>7, <1>8

\* A socket does not open.
LEMMA SocketFailsStep ==
  ASSUME IInv, NEW e \in Executions, SocketFails(e)
  PROVE  IInv'
<1>1. /\ exec[e].pc = "opening" /\ (Fault \/ faults' = faults)
      /\ sockets' = [sockets EXCEPT ![exec[e].socket] = "closed"]
      /\ Failed(e)
      /\ UNCHANGED <<restarting, wiring, kernelId, socket, kernel>>
  BY DEF SocketFails
<1>2. TypeInv
  BY DEF IInv
<1>3. exec[e].socket \in 1..Len(sockets)
  BY <1>1, OpeningSocket
<1>4. Compatible(sockets, sockets')
  BY <1>1, <1>2, <1>3, SocketChanges DEF SocketStates
<1>5. faults' \in 0..MaxFaults
  BY <1>1, <1>2, FaultIs
<1> QED
  BY <1>1, <1>4, <1>5, FailedStep

-----------------------------------------------------------------------------
\* All executions that wait for the runtime move on together.
LEMMA ResumedMove ==
  ASSUME TypeInv, NEW p \in States, Resume(p)
  PROVE  /\ exec' \in [Executions -> Listeners]
         /\ \A d \in Executions :
              /\ exec'[d].pc = IF exec[d].pc = "runtime" THEN p ELSE exec[d].pc
              /\ exec'[d].socket = exec[d].socket /\ SameSeen(exec[d], exec'[d])
              /\ exec[d].pc # "runtime" => exec'[d] = exec[d]
<1>1. ASSUME NEW d \in Executions
      PROVE  LET y == [exec[d] EXCEPT !.pc = p]
             IN /\ y \in Listeners /\ y.pc = p /\ y.socket = exec[d].socket
                /\ SameSeen(exec[d], y)
                /\ exec[d] \in Listeners
  BY DEF TypeInv, Listeners, SameSeen
<1>2. \A d \in Executions : SameSeen(exec[d], exec[d])
  BY DEF SameSeen
<1>3. exec' = [d \in Executions |-> IF exec[d].pc = "runtime"
                                    THEN [exec[d] EXCEPT !.pc = p] ELSE exec[d]]
  BY DEF Resume
<1> QED
  BY <1>1, <1>2, <1>3

\* All executions that wait for the runtime resume.
LEMMA ResumedKeep ==
  ASSUME TypeInv, ListenInv, QueueInv, NEW p \in {"post", "failed"}, Resume(p),
         UNCHANGED <<link, kernel>>
  PROVE  /\ ListenInv' /\ QueueInv'
         /\ exec' \in [Executions -> Listeners]
         /\ \A d \in Executions : exec'[d].socket \in 0..Len(sockets')
         /\ \A d \in Executions : exec[d].pc # "runtime" => exec'[d].pc = exec[d].pc
         /\ \A d \in Executions : exec[d].pc = "runtime" => exec'[d].pc = p
<1>1. /\ exec' \in [Executions -> Listeners]
      /\ \A d \in Executions :
           /\ exec'[d].pc = IF exec[d].pc = "runtime" THEN p ELSE exec[d].pc
           /\ exec'[d].socket = exec[d].socket /\ SameSeen(exec[d], exec'[d])
           /\ exec[d].pc # "runtime" => exec'[d] = exec[d]
  BY ResumedMove DEF States
<1>2. /\ sockets' = sockets /\ requests' = requests /\ published' = published /\ left' = left
  BY DEF link, kernel, queue
<1>3. ASSUME NEW d \in Executions
      PROVE  Sound(d, exec'[d], published[d], sockets, requests)
  <2>1. Sound(d, exec[d], published[d], sockets, requests)
    BY DEF ListenInv
  <2>2. CASE exec[d].pc = "runtime"
    <3>1. SameSeen(exec[d], exec'[d]) /\ exec'[d].pc = p
      BY <1>1, <2>2
    <3> QED
      BY <2>1, <2>2, <3>1, SoundMoves DEF Early
  <2>3. CASE exec[d].pc # "runtime"
    BY <1>1, <2>1, <2>3
  <2> QED
    BY <2>2, <2>3
<1>4. ListenInv'
  BY <1>2, <1>3 DEF ListenInv
<1>5. \A d \in Executions : exec'[d].idle = exec[d].idle /\ exec'[d].reply = exec[d].reply
  BY <1>1 DEF SameSeen
<1>6. requests \in Seq(Executions) /\ Len(requests) \in Nat
  BY LenProperties DEF TypeInv
<1>7. \A i \in 1..Len(requests) : requests[i] \in Executions
  BY <1>6, ElementOfSeq
<1>8. requests # <<>> => 1 \in 1..Len(requests)
  BY <1>6, EmptySeq
<1>9. QueueInv'
  BY <1>2, <1>5, <1>7, <1>8 DEF QueueInv
<1>10. \A d \in Executions : exec'[d].socket \in 0..Len(sockets')
  BY <1>1, <1>2, LengthsKept
<1> QED
  BY <1>1, <1>4, <1>9, <1>10

\* The runtime is ready.
LEMMA RuntimeReadyStep ==
  ASSUME IInv, RuntimeReady
  PROVE  IInv'
<1>1. TypeInv /\ WireInv /\ BusyInv /\ ListenInv /\ QueueInv
  BY DEF IInv
<1>2. /\ attempts > 0 /\ attempts' = attempts - 1
      /\ delegate' = TRUE /\ connecting' = FALSE
      /\ Resume("post")
      /\ UNCHANGED <<shown, registered, lingering, link, kernel, faults>>
  BY DEF RuntimeReady
<1>3. /\ ListenInv' /\ QueueInv'
      /\ exec' \in [Executions -> Listeners]
      /\ \A d \in Executions : exec'[d].socket \in 0..Len(sockets')
      /\ \A d \in Executions : exec[d].pc # "runtime" => exec'[d].pc = exec[d].pc
      /\ \A d \in Executions : exec[d].pc = "runtime" => exec'[d].pc = "post"
  BY <1>1, <1>2, ResumedKeep
<1>4. /\ sockets' = sockets /\ socket' = socket /\ published' = published /\ requests' = requests
      /\ left' = left /\ alive' = alive /\ kernelId' = kernelId
      /\ registered' = registered /\ lingering' = lingering /\ faults' = faults
      /\ status' = status /\ restarting' = restarting
  BY <1>2 DEF link, kernel, queue, shown
<1>5. attempts' = 0
  BY <1>1, <1>2 DEF TypeInv
<1>6. TypeInv'
  <2>1. socket' \in 0..Len(sockets') /\ sockets' \in Seq(SocketStates) /\ attempts' \in 0..1
    BY <1>1, <1>4, <1>5 DEF TypeInv
  <2>2. /\ requests' \in Seq(Executions) /\ published' \in [Executions -> Seq(Messages)]
        /\ left' \in [iopub: Seq(Messages \union {Idle}), reply: BOOLEAN]
        /\ faults' \in 0..MaxFaults
    BY <1>1, <1>4, <1>5 DEF TypeInv
  <2>3. /\ status' \in {"idle", "busy", "restarting", "dead"} /\ restarting' \in BOOLEAN
        /\ registered' \in {"yes", "leaving", "no"}
        /\ delegate' \in BOOLEAN /\ connecting' \in BOOLEAN /\ lingering' \in BOOLEAN
        /\ kernelId' \in BOOLEAN /\ alive' \in BOOLEAN
    BY <1>1, <1>2, <1>4 DEF TypeInv
  <2> QED
    BY <1>3, <2>1, <2>2, <2>3 DEF TypeInv
<1>7. registered = "yes" \/ lingering
  BY <1>1, <1>2 DEF WireInv, TypeInv
<1>8. WireInv'
  BY <1>1, <1>2, <1>4, <1>5, <1>7 DEF WireInv
<1>9. BusyInv'
  BY <1>1, <1>3, <1>4 DEF BusyInv
<1> QED
  BY <1>3, <1>6, <1>8, <1>9 DEF IInv

\* The wait for the runtime fails.
LEMMA RuntimeFailsStep ==
  ASSUME IInv, RuntimeFails
  PROVE  IInv'
<1>1. TypeInv /\ WireInv /\ BusyInv /\ ListenInv /\ QueueInv
  BY DEF IInv
<1>2. /\ attempts > 0 /\ attempts' = attempts - 1 /\ Fault
      /\ connecting' = FALSE /\ Resume("failed") /\ status' = "idle"
      /\ UNCHANGED <<restarting, registered, delegate, lingering, link, kernel>>
  BY DEF RuntimeFails
<1>3. /\ ListenInv' /\ QueueInv'
      /\ exec' \in [Executions -> Listeners]
      /\ \A d \in Executions : exec'[d].socket \in 0..Len(sockets')
  BY <1>1, <1>2, ResumedKeep
<1>4. /\ sockets' = sockets /\ socket' = socket /\ published' = published /\ requests' = requests
      /\ left' = left /\ alive' = alive /\ kernelId' = kernelId
      /\ registered' = registered /\ lingering' = lingering /\ delegate' = delegate
      /\ restarting' = restarting
  BY <1>2 DEF link, kernel, queue
<1>5. attempts' = 0 /\ faults' \in 0..MaxFaults
  BY <1>1, <1>2, FaultIs DEF TypeInv
<1>6. TypeInv'
  <2>1. socket' \in 0..Len(sockets') /\ sockets' \in Seq(SocketStates) /\ attempts' \in 0..1
    BY <1>1, <1>4, <1>5 DEF TypeInv
  <2>2. /\ requests' \in Seq(Executions) /\ published' \in [Executions -> Seq(Messages)]
        /\ left' \in [iopub: Seq(Messages \union {Idle}), reply: BOOLEAN]
        /\ faults' \in 0..MaxFaults
    BY <1>1, <1>4, <1>5 DEF TypeInv
  <2>3. /\ status' \in {"idle", "busy", "restarting", "dead"} /\ restarting' \in BOOLEAN
        /\ registered' \in {"yes", "leaving", "no"}
        /\ delegate' \in BOOLEAN /\ connecting' \in BOOLEAN /\ lingering' \in BOOLEAN
        /\ kernelId' \in BOOLEAN /\ alive' \in BOOLEAN
    BY <1>1, <1>2, <1>4 DEF TypeInv
  <2> QED
    BY <1>3, <2>1, <2>2, <2>3 DEF TypeInv
<1>7. registered = "yes" \/ lingering
  BY <1>1, <1>2 DEF WireInv, TypeInv
<1>8. WireInv'
  BY <1>1, <1>2, <1>4, <1>5, <1>7 DEF WireInv
<1>9. BusyInv'
  BY <1>2 DEF BusyInv
<1> QED
  BY <1>3, <1>6, <1>8, <1>9 DEF IInv

-----------------------------------------------------------------------------
\* Steps in which no execution moves: what is left to show is the rest of the types.
LEMMA QuietStep ==
  ASSUME IInv, exec' = exec, Compatible(sockets, sockets'), socket' \in {socket, NoSocket},
         published' = published,
         (requests' = requests /\ left' = left) \/ (requests' = <<>> /\ left' = NothingLeft)
  PROVE  /\ ListenInv' /\ QueueInv'
         /\ sockets' \in Seq(SocketStates) /\ socket' \in 0..Len(sockets')
         /\ exec' \in [Executions -> Listeners]
         /\ \A e \in Executions : exec'[e].socket \in 0..Len(sockets')
         /\ requests' \in Seq(Executions)
         /\ left' \in [iopub: Seq(Messages \union {Idle}), reply: BOOLEAN]
         /\ published' \in [Executions -> Seq(Messages)]
<1>1. TypeInv /\ ListenInv /\ QueueInv
  BY DEF IInv
<1>2. ListenInv'
  BY <1>1, NobodyMoves
<1>3. QueueInv'
  BY <1>1, QueueStays, QueueDropped
<1>4. /\ Len(sockets) \in Nat /\ Len(sockets') \in Nat /\ Len(sockets) <= Len(sockets')
      /\ sockets' \in Seq(SocketStates)
  BY <1>1, LenProperties DEF TypeInv, Compatible
<1>5. socket' \in 0..Len(sockets')
  BY <1>1, <1>4 DEF TypeInv, NoSocket
<1>6. \A e \in Executions : exec'[e].socket \in 0..Len(sockets')
  BY <1>1, <1>4 DEF TypeInv
<1>7. <<>> \in Seq(Executions) /\ <<>> \in Seq(Messages \union {Idle})
  OBVIOUS
<1>8. NothingLeft \in [iopub: Seq(Messages \union {Idle}), reply: BOOLEAN]
  BY <1>7 DEF NothingLeft
<1>9. /\ requests' \in Seq(Executions) /\ exec' \in [Executions -> Listeners]
      /\ left' \in [iopub: Seq(Messages \union {Idle}), reply: BOOLEAN]
      /\ published' \in [Executions -> Seq(Messages)]
  BY <1>1, <1>7, <1>8 DEF TypeInv
<1> QED
  BY <1>2, <1>3, <1>4, <1>5, <1>6, <1>9

\* A connection is lost.
LEMMA SocketDropsStep ==
  ASSUME IInv, NEW k \in DOMAIN sockets, SocketDrops(k)
  PROVE  IInv'
<1>1. TypeInv /\ WireInv /\ BusyInv
  BY DEF IInv
<1>2. /\ Fault /\ sockets' = [sockets EXCEPT ![k] = "closed"]
      /\ UNCHANGED <<shown, wiring, kernelId, socket, exec, kernel>>
  BY DEF SocketDrops
<1>3. k \in 1..Len(sockets)
  BY <1>1, LenProperties DEF TypeInv
<1>4. Compatible(sockets, sockets') /\ faults' \in 0..MaxFaults
  BY <1>1, <1>2, <1>3, SocketChanges, FaultIs DEF SocketStates
<1>5. /\ status' = status /\ restarting' = restarting /\ registered' = registered
      /\ delegate' = delegate /\ connecting' = connecting /\ attempts' = attempts
      /\ lingering' = lingering /\ kernelId' = kernelId /\ socket' = socket /\ exec' = exec
      /\ alive' = alive /\ requests' = requests /\ left' = left /\ published' = published
  BY <1>2 DEF shown, wiring, kernel, queue
<1>6. /\ ListenInv' /\ QueueInv'
      /\ sockets' \in Seq(SocketStates) /\ socket' \in 0..Len(sockets')
      /\ exec' \in [Executions -> Listeners]
      /\ \A e \in Executions : exec'[e].socket \in 0..Len(sockets')
      /\ requests' \in Seq(Executions)
      /\ left' \in [iopub: Seq(Messages \union {Idle}), reply: BOOLEAN]
      /\ published' \in [Executions -> Seq(Messages)]
  BY <1>4, <1>5, QuietStep
<1>7. TypeInv'
  BY <1>1, <1>4, <1>5, <1>6 DEF TypeInv
<1>8. WireInv' /\ BusyInv'
  BY <1>1, <1>5 DEF WireInv, BusyInv
<1> QED
  BY <1>6, <1>7, <1>8 DEF IInv

\* A restart is begun, answered or refused.
LEMMA RestartStep ==
  ASSUME IInv, RestartBegins \/ RestartEnds \/ RestartFails
  PROVE  IInv'
<1>1. TypeInv /\ WireInv /\ BusyInv
  BY DEF IInv
<1>2. /\ status' \in {"restarting", "idle", "dead"} /\ restarting' \in BOOLEAN
      /\ UNCHANGED <<wiring, link, exec, alive, published>>
      /\ Fault \/ faults' = faults
      /\ (requests' = requests /\ left' = left) \/ (requests' = <<>> /\ left' = NothingLeft)
  <2>1. CASE RestartBegins
    BY <2>1 DEF RestartBegins, kernel, queue
  <2>2. CASE RestartEnds
    BY <2>2 DEF RestartEnds, queue
  <2>3. CASE RestartFails
    BY <2>3 DEF RestartFails, kernel, queue
  <2> QED
    BY <2>1, <2>2, <2>3
<1>3. /\ registered' = registered /\ delegate' = delegate /\ connecting' = connecting
      /\ attempts' = attempts /\ lingering' = lingering /\ kernelId' = kernelId
      /\ socket' = socket /\ sockets' = sockets /\ exec' = exec
      /\ alive' = alive /\ published' = published
  BY <1>2 DEF wiring, link
<1>4. Compatible(sockets, sockets') /\ faults' \in 0..MaxFaults
  BY <1>1, <1>2, <1>3, SocketsStay, FaultIs
<1>5. /\ ListenInv' /\ QueueInv'
      /\ sockets' \in Seq(SocketStates) /\ socket' \in 0..Len(sockets')
      /\ exec' \in [Executions -> Listeners]
      /\ \A e \in Executions : exec'[e].socket \in 0..Len(sockets')
      /\ requests' \in Seq(Executions)
      /\ left' \in [iopub: Seq(Messages \union {Idle}), reply: BOOLEAN]
      /\ published' \in [Executions -> Seq(Messages)]
  BY <1>2, <1>3, <1>4, QuietStep
<1>6. TypeInv'
  BY <1>1, <1>2, <1>3, <1>4, <1>5 DEF TypeInv
<1>7. WireInv' /\ BusyInv'
  BY <1>1, <1>2, <1>3 DEF WireInv, BusyInv
<1> QED
  BY <1>5, <1>6, <1>7 DEF IInv

\* The session is shut down.
LEMMA ShutdownStep ==
  ASSUME IInv, Shutdown
  PROVE  IInv'
<1>1. TypeInv /\ WireInv /\ BusyInv
  BY DEF IInv
<1>2. /\ registered = "yes" /\ registered' = "leaving"
      /\ delegate' = FALSE /\ connecting' = FALSE /\ socket' = NoSocket
      /\ sockets' = IF socket # NoSocket THEN [sockets EXCEPT ![socket] = "closed"] ELSE sockets
      /\ lingering' = (Connecting # {})
      /\ UNCHANGED <<shown, attempts, kernelId, exec, kernel, faults>>
  BY DEF Shutdown
<1>3. /\ status' = status /\ restarting' = restarting /\ attempts' = attempts
      /\ kernelId' = kernelId /\ exec' = exec /\ faults' = faults
      /\ alive' = alive /\ requests' = requests /\ left' = left /\ published' = published
  BY <1>2 DEF shown, kernel, queue
<1>4. Compatible(sockets, sockets')
  <2>1. CASE socket = NoSocket
    BY <1>1, <1>2, <2>1, SocketsStay
  <2>2. CASE socket # NoSocket
    <3>1. socket \in 1..Len(sockets)
      BY <1>1, <2>2, LengthsKept DEF TypeInv, NoSocket
    <3> QED
      BY <1>1, <1>2, <2>2, <3>1, SocketChanges DEF SocketStates
  <2> QED
    BY <2>1, <2>2
<1>5. /\ ListenInv' /\ QueueInv'
      /\ sockets' \in Seq(SocketStates) /\ socket' \in 0..Len(sockets')
      /\ exec' \in [Executions -> Listeners]
      /\ \A e \in Executions : exec'[e].socket \in 0..Len(sockets')
      /\ requests' \in Seq(Executions)
      /\ left' \in [iopub: Seq(Messages \union {Idle}), reply: BOOLEAN]
      /\ published' \in [Executions -> Seq(Messages)]
  BY <1>2, <1>3, <1>4, QuietStep
<1>6. lingering' \in BOOLEAN
  BY <1>2
<1>7. TypeInv'
  BY <1>1, <1>2, <1>3, <1>5, <1>6 DEF TypeInv
<1>8. ~lingering' => \A e \in Executions : exec[e].pc \notin {"runtime", "post", "opening"}
  BY <1>2 DEF Connecting, Being
<1>9. ~lingering' => attempts = 0
  BY <1>1, <1>2, <1>8 DEF WireInv, TypeInv
<1>10. WireInv'
  BY <1>1, <1>2, <1>3, <1>8, <1>9 DEF WireInv
<1>11. BusyInv'
  BY <1>1, <1>3 DEF BusyInv
<1> QED
  BY <1>5, <1>7, <1>10, <1>11 DEF IInv

\* The kernel is deleted with the session.
LEMMA KernelDeletedStep ==
  ASSUME IInv, KernelDeleted
  PROVE  IInv'
<1>1. TypeInv /\ WireInv /\ BusyInv
  BY DEF IInv
<1>2. /\ registered = "leaving" /\ registered' = "no"
      /\ status' = "dead" /\ kernelId' = FALSE
      /\ UNCHANGED <<restarting, delegate, connecting, attempts, lingering, socket, sockets, exec,
                     published, faults>>
      /\ alive' = (alive /\ ~kernelId)
      /\ (requests' = requests /\ left' = left) \/ (requests' = <<>> /\ left' = NothingLeft)
  BY DEF KernelDeleted, Left, queue
<1>3. Compatible(sockets, sockets')
  BY <1>1, <1>2, SocketsStay
<1>4. /\ ListenInv' /\ QueueInv'
      /\ sockets' \in Seq(SocketStates) /\ socket' \in 0..Len(sockets')
      /\ exec' \in [Executions -> Listeners]
      /\ \A e \in Executions : exec'[e].socket \in 0..Len(sockets')
      /\ requests' \in Seq(Executions)
      /\ left' \in [iopub: Seq(Messages \union {Idle}), reply: BOOLEAN]
      /\ published' \in [Executions -> Seq(Messages)]
  BY <1>2, <1>3, QuietStep
<1>5. alive' = FALSE
  BY <1>1, <1>2 DEF WireInv, TypeInv
<1>6. TypeInv'
  BY <1>1, <1>2, <1>4, <1>5 DEF TypeInv
<1>7. WireInv' /\ BusyInv'
  BY <1>1, <1>2, <1>5 DEF WireInv, BusyInv
<1> QED
  BY <1>4, <1>6, <1>7 DEF IInv

\* The kernel could not be deleted.
LEMMA KernelNotDeletedStep ==
  ASSUME IInv, KernelNotDeleted
  PROVE  IInv'
<1>1. TypeInv /\ WireInv /\ BusyInv
  BY DEF IInv
<1>2. /\ Fault /\ registered' = "no" /\ lingering' = TRUE
      /\ UNCHANGED <<shown, delegate, connecting, attempts, link, exec, kernel>>
  BY DEF KernelNotDeleted
<1>3. /\ status' = status /\ restarting' = restarting /\ delegate' = delegate
      /\ connecting' = connecting /\ attempts' = attempts /\ kernelId' = kernelId
      /\ socket' = socket /\ sockets' = sockets /\ exec' = exec
      /\ alive' = alive /\ requests' = requests /\ left' = left /\ published' = published
  BY <1>2 DEF shown, link, kernel, queue
<1>4. Compatible(sockets, sockets') /\ faults' \in 0..MaxFaults
  BY <1>1, <1>2, <1>3, SocketsStay, FaultIs
<1>5. /\ ListenInv' /\ QueueInv'
      /\ sockets' \in Seq(SocketStates) /\ socket' \in 0..Len(sockets')
      /\ exec' \in [Executions -> Listeners]
      /\ \A e \in Executions : exec'[e].socket \in 0..Len(sockets')
      /\ requests' \in Seq(Executions)
      /\ left' \in [iopub: Seq(Messages \union {Idle}), reply: BOOLEAN]
      /\ published' \in [Executions -> Seq(Messages)]
  BY <1>3, <1>4, QuietStep
<1>6. TypeInv'
  BY <1>1, <1>2, <1>3, <1>4, <1>5 DEF TypeInv
<1>7. WireInv' /\ BusyInv'
  BY <1>1, <1>2, <1>3 DEF WireInv, BusyInv
<1> QED
  BY <1>5, <1>6, <1>7 DEF IInv

-----------------------------------------------------------------------------
\* The kernel changes what is left to publish.
LEMMA LeftStep ==
  ASSUME IInv, UNCHANGED <<restarting, wiring, link, exec, alive, requests, published>>,
         status' \in {status, "idle"}, faults' \in 0..MaxFaults,
         left' \in [iopub: Seq(Messages \union {Idle}), reply: BOOLEAN], QueueInv'
  PROVE  IInv'
<1>1. TypeInv /\ WireInv /\ BusyInv /\ ListenInv
  BY DEF IInv
<1>2. /\ registered' = registered /\ delegate' = delegate /\ connecting' = connecting
      /\ attempts' = attempts /\ lingering' = lingering /\ kernelId' = kernelId
      /\ socket' = socket /\ sockets' = sockets /\ exec' = exec /\ restarting' = restarting
      /\ alive' = alive /\ published' = published /\ requests' = requests
  BY DEF wiring, link
<1>3. TypeInv'
  BY <1>1, <1>2 DEF TypeInv
<1>4. WireInv' /\ BusyInv' /\ ListenInv'
  BY <1>1, <1>2 DEF WireInv, BusyInv, ListenInv
<1> QED
  BY <1>3, <1>4 DEF IInv

\* The code that runs is stopped.
LEMMA InterruptStep ==
  ASSUME IInv, Interrupt
  PROVE  IInv'
<1>1. TypeInv /\ QueueInv
  BY DEF IInv
<1>2. /\ Fault /\ status' = "idle"
      /\ left' = IF left.iopub # <<>> THEN [left EXCEPT !.iopub = <<Interrupted, Idle>>] ELSE left
      /\ UNCHANGED <<restarting, wiring, link, exec, alive, requests, published>>
  BY DEF Interrupt
<1>3. left \in [iopub: Seq(Messages \union {Idle}), reply: BOOLEAN]
  BY <1>1 DEF TypeInv
<1>4. faults' \in 0..MaxFaults
  BY <1>1, <1>2, FaultIs
<1>5. CASE left.iopub = <<>>
  <2>1. left' = left
    BY <1>2, <1>5
  <2>2. QueueInv'
    BY <1>1, <1>2, <2>1, QueueStays
  <2> QED
    BY <1>2, <1>3, <1>4, <2>1, <2>2, LeftStep
<1>6. CASE left.iopub # <<>>
  <2>1. Interrupted \in Messages
    BY DEF Interrupted, Messages, Outputs
  <2>2. /\ <<Interrupted>> \in Seq(Messages)
        /\ <<Interrupted, Idle>> = Append(<<Interrupted>>, Idle)
        /\ <<Interrupted, Idle>> \in Seq(Messages \union {Idle})
        /\ <<Interrupted, Idle>> # <<>>
    BY <2>1
  <2>3. /\ left' \in [iopub: Seq(Messages \union {Idle}), reply: BOOLEAN]
        /\ left'.iopub = <<Interrupted, Idle>> /\ left'.reply = left.reply
    BY <1>2, <1>3, <1>6, <2>2
  <2>4. left # NothingLeft /\ left' # NothingLeft
    <3>1. NothingLeft.iopub = <<>>
      BY DEF NothingLeft
    <3>2. left'.iopub # <<>>
      BY <2>2, <2>3
    <3> QED
      BY <1>6, <3>1, <3>2
  <2>5. exec' = exec /\ requests' = requests
    BY <1>2
  <2>6. QueueInv'
    BY <1>1, <1>6, <2>2, <2>3, <2>4, <2>5 DEF QueueInv
  <2> QED
    BY <1>2, <1>4, <2>3, <2>6, LeftStep
<1> QED
  BY <1>5, <1>6

\* The kernel takes the next request.
LEMMA KernelTakesStep ==
  ASSUME IInv, KernelTakes
  PROVE  IInv'
<1>1. TypeInv /\ QueueInv
  BY DEF IInv
<1>2. /\ requests # <<>> /\ left = NothingLeft
      /\ left' = [iopub |-> Append(Script[Head(requests)], Idle), reply |-> TRUE]
      /\ UNCHANGED <<shown, wiring, link, exec, alive, requests, published, faults>>
  BY DEF KernelTakes
<1>3. requests \in Seq(Executions) /\ Len(requests) \in Nat /\ Head(requests) \in Executions
  BY <1>1, <1>2, HeadTailProperties, LenProperties DEF TypeInv
<1>4. Script[Head(requests)] \in Seq(Messages)
  BY <1>3, ScriptAssumption DEF Messages
<1>5. Append(Script[Head(requests)], Idle) \in Seq(Messages \union {Idle})
  <2>1. Script[Head(requests)] \in Seq(Messages \union {Idle})
    BY <1>4, SeqMonotonic
  <2> QED
    BY <2>1, AppendProperties
<1>6. /\ left' \in [iopub: Seq(Messages \union {Idle}), reply: BOOLEAN]
      /\ left'.iopub = Append(Script[Head(requests)], Idle) /\ left'.reply
  BY <1>2, <1>5
<1>7. left' # NothingLeft
  BY <1>6 DEF NothingLeft
<1>8. 1 \in 1..Len(requests)
  BY <1>2, <1>3, EmptySeq
<1>9. /\ exec' = exec /\ requests' = requests /\ status' = status /\ faults' = faults
      /\ restarting' = restarting
  BY <1>2 DEF shown
<1>10. ~exec[requests[1]].idle /\ ~exec[requests[1]].reply
  BY <1>1, <1>2, <1>8 DEF QueueInv
<1>11. QueueInv'
  <2>1. \A i, j \in 1..Len(requests) : requests[i] = requests[j] => i = j
    BY <1>1 DEF QueueInv
  <2>2. \A i \in 1..Len(requests) : ~exec[requests[i]].idle /\ ~exec[requests[i]].reply
    BY <1>1, <1>2 DEF QueueInv
  <2>3. \E s \in Seq(Messages) : left'.iopub = Append(s, Idle)
    BY <1>4, <1>6
  <2> QED
    BY <1>2, <1>7, <1>9, <1>10, <2>1, <2>2, <2>3 DEF QueueInv
<1>12. faults' \in 0..MaxFaults
  BY <1>1, <1>9 DEF TypeInv
<1> QED
  BY <1>2, <1>6, <1>9, <1>11, <1>12, LeftStep

-----------------------------------------------------------------------------
\* The messages that only end an execution, and what was published after a message.
Signals == {Idle, Reply}
Seen(seen, m) == IF m \in Signals THEN seen ELSE Append(seen, m)

\* Idle and the reply are none of the messages of a script.
LEMMA SignalsAre ==
  /\ Idle.type = "idle" /\ Reply.type = "reply" /\ Idle # Reply
  /\ \A m \in Messages : m \notin Signals
<1>1. Idle.type = "idle" /\ Reply.type = "reply"
  BY DEF Idle, Reply
<1>2. \A m \in Messages : m.type \notin {"idle", "reply"}
  BY MessageKinds
<1> QED
  BY <1>1, <1>2 DEF Signals

\* Idle and the reply only end an execution.
LEMMA SignalReceived ==
  ASSUME NEW x \in Listeners, NEW m \in Signals
  PROVE  LET y == Received(x, m)
         IN /\ y \in Listeners
            /\ y.outputs = x.outputs /\ y.ids = x.ids /\ y.clear = x.clear
            /\ y.pc = x.pc /\ y.socket = x.socket
            /\ y.idle = (x.idle \/ m = Idle) /\ y.reply = (x.reply \/ m = Reply)
<1>1. CASE m = Idle
  <2>1. Received(x, m) = [x EXCEPT !.idle = TRUE]
    BY <1>1, SignalsAre DEF Received
  <2>2. m # Reply
    BY <1>1, SignalsAre
  <2> QED
    BY <1>1, <2>1, <2>2 DEF Listeners
<1>2. CASE m = Reply
  <2>1. Received(x, m) = [x EXCEPT !.reply = TRUE]
    BY <1>2, SignalsAre DEF Received
  <2>2. m # Idle
    BY <1>2, SignalsAre
  <2> QED
    BY <1>2, <2>1, <2>2 DEF Listeners
<1> QED
  BY <1>1, <1>2 DEF Signals

\* What a listener makes of anything it receives.
LEMMA ReceivedIs ==
  ASSUME NEW x \in Listeners, NEW m \in Messages \union Signals, NEW seen \in Seq(Messages),
         Shows(x, seen)
  PROVE  LET y == Received(x, m)
         IN /\ y \in Listeners /\ Shows(y, Seen(seen, m)) /\ Len(y.ids) = Len(y.outputs)
            /\ y.pc = x.pc /\ y.socket = x.socket
            /\ y.idle = (x.idle \/ m = Idle) /\ y.reply = (x.reply \/ m = Reply)
<1> DEFINE y == Received(x, m)
<1>1. CASE m \in Signals
  <2>1. /\ y \in Listeners
        /\ y.outputs = x.outputs /\ y.ids = x.ids /\ y.clear = x.clear
        /\ y.pc = x.pc /\ y.socket = x.socket
        /\ y.idle = (x.idle \/ m = Idle) /\ y.reply = (x.reply \/ m = Reply)
    BY <1>1, SignalReceived
  <2> HIDE DEF y
  <2>2. Shows(y, seen)
    BY <2>1 DEF Shows
  <2>3. Shows(y, Seen(seen, m))
    BY <1>1, <2>2 DEF Seen
  <2>4. Len(y.ids) = Len(y.outputs)
    BY <2>2 DEF Shows
  <2> QED
    BY <2>1, <2>3, <2>4 DEF y
<1>2. CASE m \in Messages
  <2>1. /\ y \in Listeners /\ Shows(y, Append(seen, m))
        /\ y.pc = x.pc /\ y.socket = x.socket /\ y.reply = x.reply /\ y.idle = x.idle
    BY <1>2, ShowsReceived
  <2>2. m \notin Signals
    BY <1>2, SignalsAre
  <2> HIDE DEF y
  <2>3. Shows(y, Seen(seen, m))
    BY <2>1, <2>2 DEF Seen
  <2>4. Len(y.ids) = Len(y.outputs)
    BY <2>3 DEF Shows
  <2>5. y.idle = (x.idle \/ m = Idle) /\ y.reply = (x.reply \/ m = Reply)
    BY <2>1, <2>2 DEF Signals, Listeners
  <2> QED
    BY <2>1, <2>3, <2>4, <2>5 DEF y
<1> QED
  BY <1>1, <1>2

\* The execution hears the message and may be done, or it does not hear it.
Heard(e, m) ==
  /\ exec[e].pc = "sent" /\ sockets[exec[e].socket] = "open"
  /\ exec'[e].socket = exec[e].socket
  /\ Shows(exec'[e], Seen(published[e], m)) /\ Len(exec'[e].ids) = Len(exec'[e].outputs)
  /\ exec'[e].idle = (exec[e].idle \/ m = Idle)
  /\ exec'[e].reply = (exec[e].reply \/ m = Reply)
  /\ exec'[e].pc = IF exec'[e].reply /\ exec'[e].idle THEN "ok" ELSE "sent"
  /\ status' \in {status, "idle"} /\ (exec'[e].pc = "ok" => status' # "busy")

\* What a delivery comes to: the execution hears it, or nothing changes.
LEMMA DeliveredIs ==
  ASSUME IInv, NEW e \in Executions, NEW m \in Messages \union Signals, Delivered(e, m)
  PROVE  /\ exec' \in [Executions -> Listeners]
         /\ \A d \in Executions : d # e => exec'[d] = exec[d]
         /\ \/ Heard(e, m)
            \/ /\ ~(exec[e].pc = "sent" /\ sockets[exec[e].socket] = "open")
               /\ exec' = exec /\ status' = status
<1>1. exec \in [Executions -> Listeners] /\ exec[e] \in Listeners
      /\ published[e] \in Seq(Messages) /\ Sound(e, exec[e], published[e], sockets, requests)
  BY DEF IInv, TypeInv, ListenInv
<1>2. CASE ~(exec[e].pc = "sent" /\ sockets[exec[e].socket] = "open")
  <2>1. exec' = exec /\ status' = status
    BY <1>2 DEF Delivered
  <2> QED
    BY <1>1, <1>2, <2>1
<1>3. CASE exec[e].pc = "sent" /\ sockets[exec[e].socket] = "open"
  <2>1. Shows(exec[e], published[e])
    BY <1>1, <1>3 DEF Sound
  <2>2. PICK x : x = Received(exec[e], m)
    OBVIOUS
  <2>3. /\ x \in Listeners /\ Shows(x, Seen(published[e], m)) /\ Len(x.ids) = Len(x.outputs)
        /\ x.pc = exec[e].pc /\ x.socket = exec[e].socket
        /\ x.idle = (exec[e].idle \/ m = Idle) /\ x.reply = (exec[e].reply \/ m = Reply)
    BY <1>1, <2>1, <2>2, ReceivedIs
  <2>4. PICK y : y = [x EXCEPT !.pc = IF x.reply /\ x.idle THEN "ok" ELSE "sent"]
    OBVIOUS
  <2>5. /\ exec' = [exec EXCEPT ![e] = y]
        /\ status' = IF (x.reply /\ x.idle) /\ status = "busy" THEN "idle" ELSE status
    BY <1>3, <2>2, <2>4 DEF Delivered
  <2>6. /\ y \in Listeners /\ y.outputs = x.outputs /\ y.ids = x.ids /\ y.clear = x.clear
        /\ y.socket = x.socket /\ y.idle = x.idle /\ y.reply = x.reply
        /\ y.pc = IF x.reply /\ x.idle THEN "ok" ELSE "sent"
    BY <2>3, <2>4 DEF Listeners, States
  <2>7. Shows(y, Seen(published[e], m))
    BY <2>3, <2>6 DEF Shows
  <2>8. /\ exec' \in [Executions -> Listeners] /\ exec'[e] = y
        /\ \A d \in Executions : d # e => exec'[d] = exec[d]
    BY <1>1, <2>5, <2>6
  <2>9. /\ y.idle = (exec[e].idle \/ m = Idle) /\ y.reply = (exec[e].reply \/ m = Reply)
        /\ y.pc = IF y.reply /\ y.idle THEN "ok" ELSE "sent"
        /\ y.socket = exec[e].socket /\ Len(y.ids) = Len(y.outputs)
    BY <2>3, <2>6
  <2>10. status' \in {status, "idle"} /\ (y.pc = "ok" => status' # "busy")
    BY <2>5, <2>6
  <2>11. Heard(e, m)
    BY <1>3, <2>7, <2>8, <2>9, <2>10 DEF Heard
  <2> QED
    BY <2>8, <2>11
<1> QED
  BY <1>2, <1>3

\* What is published leaves less to publish: an output or clearing, idle, or the reply.
Lessened(m, rest) ==
  /\ left # NothingLeft
  /\ rest \in [iopub: Seq(Messages \union {Idle}), reply: BOOLEAN]
  /\ rest.iopub = <<>> \/ \E s \in Seq(Messages) : rest.iopub = Append(s, Idle)
  /\ \/ m \in Messages /\ left.iopub # <<>> /\ rest.reply = left.reply
     \/ m = Idle /\ left.iopub # <<>> /\ rest.iopub = <<>> /\ rest.reply = left.reply
     \/ m = Reply /\ ~rest.reply /\ rest.iopub = left.iopub

\* The kernel has published the next message on iopub.
LEMMA LessAfterIopub ==
  ASSUME IInv, left.iopub # <<>>
  PROVE  /\ Head(left.iopub) \in Messages \union Signals
         /\ Lessened(Head(left.iopub), [left EXCEPT !.iopub = Tail(@)])
<1>1. /\ left \in [iopub: Seq(Messages \union {Idle}), reply: BOOLEAN]
      /\ left.iopub \in Seq(Messages \union {Idle})
      /\ left # NothingLeft
  BY DEF IInv, TypeInv, NothingLeft
<1>2. PICK s \in Seq(Messages) : left.iopub = Append(s, Idle)
  BY DEF IInv, QueueInv
<1> DEFINE rest == [left EXCEPT !.iopub = Tail(@)]
           m == Head(left.iopub)
<1>3. Tail(left.iopub) \in Seq(Messages \union {Idle}) /\ m \in Messages \union {Idle}
  BY <1>1, HeadTailProperties
<1>4. /\ rest \in [iopub: Seq(Messages \union {Idle}), reply: BOOLEAN]
      /\ rest.iopub = Tail(left.iopub) /\ rest.reply = left.reply
  BY <1>1, <1>3
<1>5. /\ m = IF s = <<>> THEN Idle ELSE Head(s)
      /\ Tail(left.iopub) = IF s = <<>> THEN <<>> ELSE Append(Tail(s), Idle)
  BY <1>2, HeadTailAppend
<1> HIDE DEF rest, m
<1>6. CASE s = <<>>
  <2>1. m = Idle /\ rest.iopub = <<>>
    BY <1>4, <1>5, <1>6
  <2>2. Lessened(m, rest)
    BY <1>1, <1>4, <2>1 DEF Lessened
  <2> QED
    BY <2>1, <2>2 DEF rest, m, Signals
<1>7. CASE s # <<>>
  <2>1. Head(s) \in Messages /\ Tail(s) \in Seq(Messages)
    BY <1>7, HeadTailProperties
  <2>2. m \in Messages /\ rest.iopub = Append(Tail(s), Idle)
    BY <1>4, <1>5, <1>7, <2>1
  <2>3. Lessened(m, rest)
    BY <1>1, <1>4, <2>1, <2>2 DEF Lessened
  <2> QED
    BY <2>2, <2>3 DEF rest, m
<1> QED
  BY <1>6, <1>7

\* The kernel has published the reply.
LEMMA LessAfterReply ==
  ASSUME IInv, left.reply
  PROVE  Lessened(Reply, [left EXCEPT !.reply = FALSE])
<1>1. /\ left \in [iopub: Seq(Messages \union {Idle}), reply: BOOLEAN]
      /\ left.iopub = <<>> \/ \E s \in Seq(Messages) : left.iopub = Append(s, Idle)
      /\ left # NothingLeft
  BY DEF IInv, TypeInv, QueueInv, NothingLeft
<1> DEFINE rest == [left EXCEPT !.reply = FALSE]
<1>2. /\ rest \in [iopub: Seq(Messages \union {Idle}), reply: BOOLEAN]
      /\ rest.iopub = left.iopub /\ ~rest.reply
  BY <1>1
<1> HIDE DEF rest
<1>3. Lessened(Reply, rest)
  BY <1>1, <1>2 DEF Lessened
<1> QED
  BY <1>3 DEF rest

\* Publishing one message and delivering it.
LEMMA PublishStep ==
  ASSUME IInv, NEW m \in Messages \union Signals, NEW rest, Lessened(m, rest), Publish(m, rest)
  PROVE  IInv'
<1> DEFINE e == requests[1]
           n == Len(requests)
<1>1. TypeInv /\ WireInv /\ BusyInv /\ ListenInv /\ QueueInv
  BY DEF IInv
<1>2. requests # <<>> /\ left # NothingLeft
  BY <1>1 DEF Lessened, QueueInv
<1>3. /\ requests \in Seq(Executions) /\ n \in Nat /\ 1 \in 1..n
      /\ \A i \in 1..n : requests[i] \in Executions
      /\ Head(requests) = e
  BY <1>1, <1>2, LenProperties, ElementOfSeq, EmptySeq DEF TypeInv
<1>4. e \in Executions
  BY <1>3
<1>5. /\ left' = rest
      /\ published' = [published EXCEPT ![e] = IF m \in Signals THEN @ ELSE Append(@, m)]
      /\ requests' = IF rest = NothingLeft THEN Tail(requests) ELSE requests
      /\ Delivered(e, m)
      /\ UNCHANGED <<restarting, wiring, link, alive, faults>>
  BY <1>3 DEF Publish, Signals
<1>6. published \in [Executions -> Seq(Messages)] /\ published[e] \in Seq(Messages)
  BY <1>1, <1>4 DEF TypeInv
<1>7. Seen(published[e], m) \in Seq(Messages)
  BY <1>6, AppendProperties DEF Seen
<1>8. published' = [published EXCEPT ![e] = Seen(published[e], m)]
  BY <1>5, <1>6 DEF Seen
<1>9. /\ published' \in [Executions -> Seq(Messages)]
      /\ published'[e] = Seen(published[e], m)
      /\ \A d \in Executions : d # e => published'[d] = published[d]
  BY <1>4, <1>6, <1>7, <1>8
<1>10. /\ exec' \in [Executions -> Listeners]
       /\ \A d \in Executions : d # e => exec'[d] = exec[d]
       /\ \/ Heard(e, m)
          \/ /\ ~(exec[e].pc = "sent" /\ sockets[exec[e].socket] = "open")
             /\ exec' = exec /\ status' = status
  BY <1>4, <1>5, DeliveredIs
<1>11. /\ sockets' = sockets /\ socket' = socket /\ kernelId' = kernelId /\ alive' = alive
       /\ registered' = registered /\ delegate' = delegate /\ connecting' = connecting
       /\ attempts' = attempts /\ lingering' = lingering /\ faults' = faults
       /\ restarting' = restarting
  BY <1>5 DEF link, wiring
<1> HIDE DEF e, n
<1>12. /\ Tail(requests) \in Seq(Executions) /\ Len(Tail(requests)) = n - 1
       /\ \A i \in 1..(n - 1) : Tail(requests)[i] = requests[i + 1]
  BY <1>2, <1>3, HeadTailProperties DEF n
<1>13. \A i \in 1..n : i > 1 => requests[i] # e
  BY <1>1, <1>3 DEF QueueInv, e, n
<1>14. /\ requests' \in Seq(Executions)
       /\ rest = NothingLeft =>
            /\ Len(requests') = n - 1
            /\ \A i \in 1..(n - 1) : i + 1 \in 1..n /\ i + 1 > 1 /\ requests'[i] = requests[i + 1]
       /\ rest # NothingLeft => requests' = requests
  BY <1>3, <1>5, <1>12
<1>15. rest = NothingLeft => Absent(e, requests')
  BY <1>3, <1>13, <1>14 DEF Absent
<1>16. \A d \in Executions : Absent(d, requests) => Absent(d, requests')
  BY <1>3, <1>14 DEF Absent, n
<1>17. ~Absent(e, requests) /\ Sound(e, exec[e], published[e], sockets, requests)
  BY <1>1, <1>3, <1>4 DEF Absent, ListenInv, e, n
<1>18. /\ exec[e].idle => left.iopub = <<>>
       /\ exec[e].reply => ~left.reply
  BY <1>1, <1>2 DEF QueueInv, e
<1>19. Idle # Reply /\ Idle \notin Messages /\ Reply \notin Messages
  BY SignalsAre DEF Signals
<1>20. /\ exec[e] \in Listeners /\ left \in [iopub: Seq(Messages \union {Idle}), reply: BOOLEAN]
       /\ rest \in [iopub: Seq(Messages \union {Idle}), reply: BOOLEAN]
  BY <1>1, <1>4 DEF TypeInv, Lessened
<1>21. Heard(e, m) /\ exec'[e].pc = "ok" => rest = NothingLeft
  <2> SUFFICES ASSUME Heard(e, m), exec'[e].pc = "ok" PROVE rest = NothingLeft
    OBVIOUS
  <2>1. /\ exec[e].idle \/ m = Idle
        /\ exec[e].reply \/ m = Reply
        /\ ~(exec[e].reply /\ exec[e].idle)
    BY <1>17, <1>19 DEF Heard, Sound
  <2>2. rest.iopub = <<>> /\ ~rest.reply
    BY <1>18, <1>19, <1>20, <2>1 DEF Lessened
  <2> QED
    BY <1>20, <2>2 DEF NothingLeft
<1>22. Sound(e, exec'[e], published'[e], sockets, requests')
  <2>1. CASE Heard(e, m)
    <3>1. exec'[e].pc = "ok" => Absent(e, requests')
      BY <1>15, <1>21, <2>1
    <3>2. exec'[e].pc \in {"ok", "sent"} /\ exec'[e].socket = exec[e].socket
          /\ (exec'[e].pc = "sent" => ~(exec'[e].reply /\ exec'[e].idle))
          /\ exec[e].socket # NoSocket /\ sockets[exec[e].socket] = "open"
          /\ Shows(exec'[e], published'[e]) /\ Len(exec'[e].ids) = Len(exec'[e].outputs)
      BY <1>9, <1>17, <2>1 DEF Heard, Sound
    <3> QED
      BY <3>1, <3>2 DEF Sound, Early
  <2>2. CASE /\ ~(exec[e].pc = "sent" /\ sockets[exec[e].socket] = "open")
             /\ exec' = exec
    BY <1>17, <2>2 DEF Sound
  <2> QED
    BY <1>10, <2>1, <2>2
<1>23. Compatible(sockets, sockets)
  BY <1>1, <1>11, SocketsStay
<1>24. ASSUME NEW d \in Executions, d # e
       PROVE  Sound(d, exec'[d], published'[d], sockets, requests')
  <2>1. /\ exec'[d] = exec[d] /\ published'[d] = published[d]
        /\ Sound(d, exec[d], published[d], sockets, requests)
    BY <1>1, <1>9, <1>10, <1>24 DEF ListenInv
  <2>2. /\ exec[d] \in Listeners /\ sockets \in Seq(SocketStates)
        /\ exec[d].socket \in 0..Len(sockets)
    BY <1>1 DEF TypeInv
  <2> QED
    BY <1>16, <1>23, <2>1, <2>2, SoundKeeps
<1>25. ListenInv'
  BY <1>11, <1>22, <1>24 DEF ListenInv
<1>26. QueueInv'
  <2>1. \A i, j \in 1..Len(requests') : requests'[i] = requests'[j] => i = j
    <3>1. \A i, j \in 1..n : requests[i] = requests[j] => i = j
      BY <1>1 DEF QueueInv, n
    <3>2. CASE rest = NothingLeft
      <4>1. \A i, j \in 1..(n - 1) : requests[i + 1] = requests[j + 1] => i + 1 = j + 1
        BY <1>14, <3>1, <3>2
      <4>2. \A i \in 1..(n - 1) : requests'[i] = requests[i + 1]
        BY <1>14, <3>2
      <4>3. \A i, j \in 1..(n - 1) : i + 1 = j + 1 => i = j
        OBVIOUS
      <4>4. \A i, j \in 1..(n - 1) : requests'[i] = requests'[j] => i = j
        BY <4>1, <4>2, <4>3
      <4> QED
        BY <1>14, <3>2, <4>4
    <3>3. CASE rest # NothingLeft
      BY <1>14, <3>1, <3>3 DEF n
    <3> QED
      BY <3>2, <3>3
  <2>2. rest # NothingLeft => requests' # <<>>
    BY <1>2, <1>14
  <2>3. \A i \in 1..Len(requests') : i > 1 \/ rest = NothingLeft =>
          ~exec'[requests'[i]].idle /\ ~exec'[requests'[i]].reply
    <3> SUFFICES ASSUME NEW i \in 1..Len(requests'), i > 1 \/ rest = NothingLeft
                 PROVE  ~exec'[requests'[i]].idle /\ ~exec'[requests'[i]].reply
      OBVIOUS
    <3>1. PICK j \in 1..n : j > 1 /\ requests'[i] = requests[j]
      BY <1>3, <1>14 DEF n
    <3>2. requests[j] # e /\ requests[j] \in Executions
      BY <1>3, <1>13, <3>1
    <3>3. ~exec[requests[j]].idle /\ ~exec[requests[j]].reply
      BY <1>1, <3>1 DEF QueueInv, n
    <3> QED
      BY <1>10, <3>1, <3>2, <3>3
  <2>4. rest # NothingLeft => /\ exec'[requests'[1]].idle => rest.iopub = <<>>
                              /\ exec'[requests'[1]].reply => ~rest.reply
    <3> SUFFICES ASSUME rest # NothingLeft
                 PROVE  /\ exec'[e].idle => rest.iopub = <<>>
                        /\ exec'[e].reply => ~rest.reply
      BY <1>14 DEF e
    <3>1. /\ exec'[e].idle => exec[e].idle \/ m = Idle
          /\ exec'[e].reply => exec[e].reply \/ m = Reply
      BY <1>10 DEF Heard
    <3> QED
      BY <1>18, <1>19, <3>1 DEF Lessened
  <2> QED
    BY <1>5, <2>1, <2>2, <2>3, <2>4 DEF QueueInv, Lessened
<1>27. status' \in {status, "idle"}
  BY <1>10 DEF Heard
<1>28. \A d \in Executions : exec'[d].socket \in 0..Len(sockets')
  <2>1. \A d \in Executions : exec'[d].socket = exec[d].socket
    BY <1>4, <1>10 DEF Heard
  <2> QED
    BY <1>1, <1>11, <2>1, LengthsKept
<1>29. TypeInv'
  BY <1>1, <1>5, <1>9, <1>10, <1>11, <1>14, <1>20, <1>27, <1>28 DEF TypeInv
<1>30. \A d \in Executions : exec[d].pc # "sent" => exec'[d].pc = exec[d].pc
  BY <1>4, <1>10 DEF Heard
<1>31. \A d \in Executions : exec'[d].pc \in {exec[d].pc, "sent", "ok"}
  BY <1>4, <1>10 DEF Heard
<1>32. WireInv'
  <2>1. (\E d \in Executions : exec[d].pc = "runtime") =>
          \E d \in Executions : exec'[d].pc = "runtime"
    BY <1>30
  <2> QED
    BY <1>1, <1>11, <1>31, <2>1 DEF WireInv
<1>33. BusyInv'
  <2> SUFFICES ASSUME status' = "busy"
               PROVE  \E d \in Executions :
                        exec'[d].pc \in {"runtime", "post", "opening", "sent"}
    BY DEF BusyInv
  <2>1. PICK d \in Executions : exec[d].pc \in {"runtime", "post", "opening", "sent"}
    BY <1>1, <1>27 DEF BusyInv
  <2>2. exec'[d].pc \in {"runtime", "post", "opening", "sent", "ok"}
    BY <1>31, <2>1
  <2>3. CASE exec'[d].pc = "ok"
    <3>1. d # e
      BY <1>10, <2>3, <1>17 DEF Heard, Sound
    <3> QED
      BY <1>10, <2>1, <2>3, <3>1
  <2> QED
    BY <2>2, <2>3
<1> QED
  BY <1>25, <1>26, <1>29, <1>32, <1>33 DEF IInv

\* The kernel publishes on one of its channels.
LEMMA KernelPublishesStep ==
  ASSUME IInv, KernelPublishes \/ KernelReplies
  PROVE  IInv'
<1>1. CASE KernelPublishes
  <2>1. /\ left.iopub # <<>>
        /\ Publish(Head(left.iopub), [left EXCEPT !.iopub = Tail(@)])
    BY <1>1 DEF KernelPublishes
  <2> QED
    BY <2>1, LessAfterIopub, PublishStep
<1>2. CASE KernelReplies
  <2>1. left.reply /\ Publish(Reply, [left EXCEPT !.reply = FALSE])
    BY <1>2 DEF KernelReplies
  <2>2. Reply \in Messages \union Signals
    BY DEF Signals
  <2> QED
    BY <2>1, <2>2, LessAfterReply, PublishStep
<1> QED
  BY <1>1, <1>2

-----------------------------------------------------------------------------
\* The invariant holds in the initial state.
LEMMA IInvInit == Init => IInv
<1> SUFFICES ASSUME Init PROVE IInv
  OBVIOUS
<1>1. /\ <<>> \in Seq(Executions) /\ <<>> \in Seq(Messages) /\ <<>> \in Seq(SocketStates)
      /\ <<>> \in Seq(Messages \union {Idle}) /\ <<>> \in Seq(Outputs) /\ <<>> \in Seq(Nat)
      /\ Len(<<>>) = 0
  OBVIOUS
<1>2. NewExecution \in Listeners /\ NewExecution.pc = "new" /\ NewExecution.socket = 0
  BY <1>1 DEF NewExecution, Listeners, States, NoSocket
<1>3. Blank(NewExecution)
  BY DEF NewExecution, Blank
<1>4. NothingLeft \in [iopub: Seq(Messages \union {Idle}), reply: BOOLEAN]
      /\ NothingLeft.iopub = <<>>
  BY <1>1 DEF NothingLeft
<1>5. /\ sockets = <<>> /\ socket = NoSocket /\ requests = <<>> /\ left = NothingLeft
      /\ \A e \in Executions : exec[e] = NewExecution /\ published[e] = <<>>
      /\ exec = [e \in Executions |-> NewExecution]
      /\ published = [e \in Executions |-> <<>>]
  BY DEF Init
<1>6. TypeInv
  <2>1. /\ status \in {"idle", "busy", "restarting", "dead"} /\ restarting \in BOOLEAN
        /\ registered \in {"yes", "leaving", "no"}
        /\ delegate \in BOOLEAN /\ connecting \in BOOLEAN /\ lingering \in BOOLEAN
        /\ kernelId \in BOOLEAN /\ alive \in BOOLEAN /\ attempts \in 0..1
        /\ faults \in 0..MaxFaults
    <3>1. /\ status = "idle" /\ restarting = FALSE /\ registered = "yes" /\ delegate = FALSE
          /\ connecting = FALSE /\ attempts = 0 /\ lingering = FALSE
          /\ kernelId = FALSE /\ alive = FALSE /\ faults = 0
      BY DEF Init
    <3>2. 0 \in 0..1 /\ 0 \in 0..MaxFaults
      BY FaultsAssumption
    <3> QED
      BY <3>1, <3>2
  <2>2. exec \in [Executions -> Listeners] /\ published \in [Executions -> Seq(Messages)]
    BY <1>1, <1>2, <1>5
  <2>3. \A e \in Executions : exec[e].socket \in 0..Len(sockets)
    BY <1>1, <1>2, <1>5
  <2> QED
    BY <1>1, <1>4, <1>5, <2>1, <2>2, <2>3 DEF TypeInv, NoSocket
<1>7. WireInv /\ BusyInv
  BY DEF Init, WireInv, BusyInv
<1>8. \A i \in 1..Len(requests) : FALSE
  BY <1>1, <1>5
<1>9. ListenInv
  <2>1. Len(NewExecution.ids) = Len(NewExecution.outputs)
    BY <1>3, BlankShows
  <2>2. \A e \in Executions : Absent(e, requests)
    BY <1>8 DEF Absent
  <2> QED
    BY <1>2, <1>3, <1>5, <2>1, <2>2 DEF ListenInv, Sound
<1>10. QueueInv
  BY <1>4, <1>5, <1>8 DEF QueueInv
<1> QED
  BY <1>6, <1>7, <1>9, <1>10 DEF IInv

\* Every step keeps the invariant.
LEMMA IInvNext == IInv /\ [Next]_vars => IInv'
<1> SUFFICES ASSUME IInv, [Next]_vars PROVE IInv'
  OBVIOUS
<1>1. CASE Next
  <2>1. ASSUME NEW e \in Executions, Executing(e) PROVE IInv'
    BY <2>1, WithoutRuntimeStep, WithoutKernelStep, ConnectedStep, PostedStep, PostFailsStep,
       SocketOpensStep, SocketFailsStep, TimeoutStep DEF Executing
  <2>2. ASSUME NEW k \in DOMAIN sockets, SocketDrops(k) PROVE IInv'
    BY <2>2, SocketDropsStep
  <2> QED
    BY <1>1, <2>1, <2>2, RuntimeReadyStep, RuntimeFailsStep, KernelTakesStep,
       KernelPublishesStep, InterruptStep, RestartStep, ShutdownStep, KernelDeletedStep,
       KernelNotDeletedStep DEF Next
<1>2. CASE UNCHANGED vars
  <2>1. /\ UNCHANGED <<restarting, wiring, link, exec, alive, requests, published>>
        /\ status' = status /\ faults' = faults /\ left' = left /\ exec' = exec
        /\ requests' = requests
    BY <1>2 DEF vars, shown, kernel, queue
  <2>2. QueueInv' /\ faults' \in 0..MaxFaults
        /\ left' \in [iopub: Seq(Messages \union {Idle}), reply: BOOLEAN]
    BY <2>1, QueueStays DEF IInv, TypeInv
  <2> QED
    BY <2>1, <2>2, LeftStep
<1> QED
  BY <1>1, <1>2

\* The invariant holds in every state that can be reached.
LEMMA IInvHolds == Spec => []IInv
BY IInvInit, IInvNext, PTL DEF Spec

\* The variables of the session keep their types, for any executions and any scripts; one
\* wait for the runtime serves all that wait (RuntimeKernelAdapter.ensureDelegate).
THEOREM TypeCorrect == Spec => []TypeOK
<1>1. IInv => TypeOK
  <2> SUFFICES ASSUME IInv PROVE TypeOK
    OBVIOUS
  <2>1. \A e \in Executions : /\ exec[e] \in Listeners /\ exec[e].socket \in 0..Len(sockets)
                              /\ Len(exec[e].ids) = Len(exec[e].outputs)
    BY DEF IInv, TypeInv, ListenInv, Sound
  <2>2. \A e \in Executions :
          exec[e].pc \in {"new", "runtime", "post", "opening", "sent", "ok", "failed"}
    BY <2>1 DEF Listeners, States
  <2> QED
    BY <2>1, <2>2 DEF IInv, TypeInv, TypeOK, SocketStates
<1> QED
  BY <1>1, IInvHolds, PTL

\* An execution that ends well carries exactly what the kernel published for it
\* (JupyterKernel.execute): the listener, which processes one message after the other,
\* arrives at what Rendered says of all of them.
THEOREM ResultIsWholeHolds == Spec => []ResultIsWhole
<1>1. IInv => ResultIsWhole
  <2> SUFFICES ASSUME IInv, NEW e \in Executions, exec[e].pc = "ok"
               PROVE  exec[e].outputs = Rendered(published[e]) /\ e \notin Range(requests)
    BY DEF ResultIsWhole
  <2>1. Shows(exec[e], published[e]) /\ Absent(e, requests)
    BY DEF IInv, ListenInv, Sound
  <2>2. exec[e] \in Listeners /\ published[e] \in Seq(Messages)
    BY DEF IInv, TypeInv
  <2>3. exec[e].outputs = Rendered(published[e])
    BY <2>1, <2>2, ShowsRendered
  <2>4. DOMAIN requests = 1..Len(requests)
    BY LenProperties DEF IInv, TypeInv
  <2>5. e \notin Range(requests)
    BY <2>1, <2>4 DEF Absent, Range
  <2> QED
    BY <2>3, <2>5
<1> QED
  BY <1>1, IInvHolds, PTL

\* The session shows busy only while an execution is on its way (SessionContext.execute).
THEOREM BusyIsTrueHolds == Spec => []BusyIsTrue
<1>1. IInv => BusyIsTrue
  BY DEF IInv, BusyInv, BusyIsTrue, InFlight, Connecting, Being
<1> QED
  BY <1>1, IInvHolds, PTL

\* A session that was shut down while nothing was connecting leaves no kernel and no
\* current socket behind (RuntimeKernelAdapter.shutdown, JupyterKernel.shutdown).
THEOREM NothingLeftBehindHolds == Spec => []NothingLeftBehind
<1>1. IInv => NothingLeftBehind
  BY DEF IInv, WireInv, NothingLeftBehind
<1> QED
  BY <1>1, IInvHolds, PTL
=============================================================================
