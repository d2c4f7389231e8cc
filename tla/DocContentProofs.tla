-------------------------- MODULE DocContentProofs --------------------------
(***************************************************************************)
(* What merging and rendering make of fetched results of any number and    *)
(* length: a finite document, which has all that was fetched if there is a *)
(* slot for it, depends on no timing, and uses its template as a whole.    *)
(* The functions of the source are loops over lists, here FlattenSeq and   *)
(* FoldLeft; what these recursive functions compute is proved step by      *)
(* step, by induction over Nat stated with a set (UpTo), not a predicate.  *)
(***************************************************************************)
EXTENDS DocOutputProperties, FiniteSetTheorems, SequenceTheorems, WellFoundedInduction, TLAPS

(*                        Induction and loops                              *)

(* A set of naturals has a least element. *)
LEMMA Least ==
    ASSUME NEW T, T \subseteq Nat, T # {}
    PROVE  \E n \in T : \A m \in T : ~ (m < n)
<1>1. PICK n \in T : \A m \in T : <<m, n>> \notin OpToRel(<, Nat)
  BY WFMin, NatLessThanWellFounded, Zenon
<1>2. ASSUME NEW m \in T, m < n PROVE FALSE
  <2>1. <<m, n>> \in OpToRel(<, Nat)
    BY <1>2, m \in Nat, n \in Nat, Zenon DEF OpToRel
  <2> QED
    BY <1>1, <2>1, Zenon
<1> QED
  BY <1>2, Zenon

(* Induction over Nat: a set with 0 that is closed under successor. *)
LEMMA UpTo ==
    ASSUME NEW T, 0 \in T, \A n \in Nat : n \in T => n + 1 \in T
    PROVE  Nat \subseteq T
<1> DEFINE Rest == Nat \ T
<1> SUFFICES ASSUME Rest # {} PROVE FALSE
  OBVIOUS
<1>1. PICK n \in Rest : \A m \in Rest : ~ (m < n)
  BY Least, Rest \subseteq Nat, Zenon
<1>2. n \in Nat /\ n # 0
  OBVIOUS
<1>3. n - 1 \in Nat /\ n - 1 < n
  BY <1>2
<1>4. n - 1 \in T
  BY <1>1, <1>3
<1> QED
  BY <1>1, <1>3, <1>4

(* The same up to a bound. *)
LEMMA UpToBound ==
    ASSUME NEW N \in Nat, NEW T, 0 \in T, \A n \in 0 .. N - 1 : n \in T => n + 1 \in T
    PROVE  0 .. N \subseteq T
<1> DEFINE U == {n \in Nat : n <= N => n \in T}
<1>1. 0 \in U
  OBVIOUS
<1>2. ASSUME NEW n \in Nat, n \in U PROVE n + 1 \in U
  BY <1>2
<1> HIDE DEF U
<1>3. Nat \subseteq U
  BY <1>1, <1>2, UpTo
<1> QED BY <1>3 DEF U

(* The recursive function inside FlattenSeq. *)
FlattenTo(seqs) ==
    CHOOSE flatten : flatten = [i \in 1 .. Len(seqs) |->
        IF i = 1 THEN seqs[i] ELSE flatten[i - 1] \o seqs[i]]

(* It exists, for sequences of any length. *)
LEMMA FlattenToExists ==
    ASSUME NEW ss, NEW n \in Nat
    PROVE  \E f : f = [i \in 1 .. n |-> IF i = 1 THEN ss[i] ELSE f[i - 1] \o ss[i]]
<1> DEFINE Body(f, i) == IF i = 1 THEN ss[i] ELSE f[i - 1] \o ss[i]
           T == {m \in Nat : \E f : f = [i \in 1 .. m |-> Body(f, i)]}
<1>1. 0 \in T
  <2> DEFINE f == [i \in 1 .. 0 |-> ss[i]]
  <2>1. f = [i \in 1 .. 0 |-> Body(f, i)]
    OBVIOUS
  <2> QED
    BY <2>1
<1>2. ASSUME NEW m \in Nat, m \in T PROVE m + 1 \in T
  <2>1. PICK f : f = [i \in 1 .. m |-> Body(f, i)]
    BY <1>2
  <2> DEFINE g == [i \in 1 .. m + 1 |-> IF i = m + 1 THEN Body(f, i) ELSE f[i]]
  <2>2. ASSUME NEW i \in 1 .. m + 1 PROVE g[i] = Body(g, i)
    <3>1. CASE i = 1 /\ m = 0
      BY <3>1
    <3>2. CASE i = 1 /\ m # 0
      <4>1. f[1] = Body(f, 1)
        BY <2>1, <3>2
      <4> QED
        BY <3>2, <4>1
    <3>3. CASE i # 1
      <4>1. i - 1 \in 1 .. m /\ g[i - 1] = f[i - 1]
        BY <3>3
      <4>2. CASE i = m + 1
        BY <3>3, <4>1, <4>2
      <4>3. CASE i # m + 1
        <5>1. i \in 1 .. m
          BY <4>3
        <5>2. f[i] = Body(f, i)
          BY <2>1, <5>1
        <5> QED
          BY <3>3, <4>1, <4>3, <5>2
      <4> QED
        BY <4>2, <4>3
    <3> QED
      BY <3>1, <3>2, <3>3
  <2>3. g = [i \in 1 .. m + 1 |-> Body(g, i)]
    BY <2>2, Zenon
  <2> HIDE DEF g
  <2>4. m + 1 \in Nat
    OBVIOUS
  <2> QED
    BY <2>3, <2>4
<1> HIDE DEF T
<1>3. n \in T
  BY <1>1, <1>2, UpTo
<1> QED
  BY <1>3 DEF T

(* What the loop over ss has put together before each of its iterations.    *)
Flattening(f, ss, S) ==
    /\ f[0] = <<>>
    /\ f[Len(ss)] = FlattenSeq(ss)
    /\ \A n \in 0 .. Len(ss) : f[n] \in Seq(S)
    /\ \A n \in 0 .. Len(ss) - 1 :
          ss[n + 1] \in Seq(S) /\ f[n + 1] = f[n] \o ss[n + 1]

(* FlattenSeq is a loop that appends one sequence after the other. *)
LEMMA FlattenSteps ==
    ASSUME NEW S, NEW ss \in Seq(Seq(S))
    PROVE  \E f : Flattening(f, ss, S)
<1> DEFINE g == FlattenTo(ss)
           f == [i \in 0 .. Len(ss) |-> IF i = 0 THEN <<>> ELSE g[i]]
<1>0. Len(ss) \in Nat /\ \A i \in 1 .. Len(ss) : ss[i] \in Seq(S)
  OBVIOUS
<1>1. g = [i \in 1 .. Len(ss) |-> IF i = 1 THEN ss[i] ELSE g[i - 1] \o ss[i]]
  BY <1>0, FlattenToExists, Zenon DEF FlattenTo
<1> HIDE DEF g
<1>2. ASSUME NEW i \in 1 .. Len(ss) PROVE g[i] = IF i = 1 THEN ss[i] ELSE g[i - 1] \o ss[i]
  BY <1>1
<1>f. ASSUME NEW i \in 0 .. Len(ss) PROVE f[i] = IF i = 0 THEN <<>> ELSE g[i]
  OBVIOUS
<1> HIDE DEF f
<1>3. ASSUME NEW i \in Nat, i # 0, i <= Len(ss), i - 1 # 0 => g[i - 1] \in Seq(S)
      PROVE  g[i] \in Seq(S) /\ f[i] = f[i - 1] \o ss[i]
  <2>1. /\ i \in 1 .. Len(ss) /\ i \in 0 .. Len(ss) /\ i - 1 \in 0 .. Len(ss)
        /\ ss[i] \in Seq(S)
    BY <1>0, <1>3
  <2>2. CASE i = 1
    <3>1. f[i] = ss[i] /\ f[i - 1] = <<>> /\ g[i] = ss[i]
      BY <1>2, <1>f, <2>1, <2>2
    <3> QED
      BY <2>1, <3>1, ConcatEmptySeq
  <2>3. CASE i # 1
    <3>1. f[i] = g[i] /\ f[i - 1] = g[i - 1]
      <4>1. i # 0 /\ i - 1 # 0
        BY <2>3, <1>3
      <4> QED
        BY <1>f, <2>1, <4>1
    <3>4. g[i] = g[i - 1] \o ss[i]
      BY <1>2, <2>1, <2>3
    <3>2. g[i - 1] \in Seq(S)
      BY <1>3, <2>3
    <3>3. g[i - 1] \o ss[i] \in Seq(S)
      BY <2>1, <3>2, ConcatProperties
    <3> QED
      BY <3>1, <3>3, <3>4
  <2> QED
    BY <2>2, <2>3
<1>4. \A i \in Nat : i # 0 /\ i <= Len(ss) => g[i] \in Seq(S)
  <2> DEFINE T == {i \in Nat : i # 0 /\ i <= Len(ss) => g[i] \in Seq(S)}
  <2>1. 0 \in T
    OBVIOUS
  <2>2. ASSUME NEW i \in Nat, i \in T PROVE i + 1 \in T
    <3> SUFFICES ASSUME i + 1 <= Len(ss) PROVE g[i + 1] \in Seq(S)
      OBVIOUS
    <3>1. i + 1 \in Nat /\ i + 1 # 0 /\ (i + 1) - 1 = i
      OBVIOUS
    <3>2. i # 0 => g[i] \in Seq(S)
      BY <1>0, <2>2
    <3>3. (i + 1) - 1 # 0 => g[(i + 1) - 1] \in Seq(S)
      BY <3>1, <3>2
    <3> DEFINE k == i + 1
    <3>4. k \in Nat /\ k # 0 /\ k <= Len(ss) /\ (k - 1 # 0 => g[k - 1] \in Seq(S))
      BY <3>1, <3>3
    <3> HIDE DEF k
    <3>5. g[k] \in Seq(S)
      BY <1>3, <3>4
    <3> QED
      BY <3>5 DEF k
  <2> HIDE DEF T
  <2>3. Nat \subseteq T
    BY <2>1, <2>2, UpTo
  <2> QED
    BY <2>3 DEF T
<1>5. \A i \in 1 .. Len(ss) : f[i] = f[i - 1] \o ss[i]
  <2> SUFFICES ASSUME NEW i \in 1 .. Len(ss) PROVE f[i] = f[i - 1] \o ss[i]
    OBVIOUS
  <2>1. i \in Nat /\ i # 0 /\ i <= Len(ss) /\ i - 1 \in Nat /\ i - 1 <= Len(ss)
    BY <1>0
  <2> QED
    BY <1>3, <1>4, <2>1
<1>6. f \in [0 .. Len(ss) -> Seq(S)]
  <2> SUFFICES ASSUME NEW i \in 0 .. Len(ss) PROVE f[i] \in Seq(S)
    BY DEF f
  <2>1. i \in Nat /\ i <= Len(ss) /\ <<>> \in Seq(S)
    BY <1>0
  <2>2. i # 0 => g[i] \in Seq(S)
    BY <1>4, <2>1
  <2> QED
    BY <1>f, <2>1, <2>2
<1>7. f[Len(ss)] = FlattenSeq(ss)
  <2>1. CASE Len(ss) = 0
    <3>1. FlattenSeq(ss) = ss /\ ss = <<>>
      BY <2>1 DEF FlattenSeq
    <3> QED
      BY <1>f, <2>1, <3>1
  <2>2. CASE Len(ss) # 0
    <3>1. FlattenSeq(ss) = g[Len(ss)]
      BY <2>2 DEF FlattenSeq, FlattenTo, g
    <3>2. f[Len(ss)] = g[Len(ss)]
      BY <1>0, <1>f, <2>2
    <3> QED
      BY <3>1, <3>2
  <2> QED
    BY <2>1, <2>2
<1>8. f[0] = <<>>
  BY <1>0, <1>f
<1>9. ASSUME NEW n \in 0 .. Len(ss) - 1
      PROVE  ss[n + 1] \in Seq(S) /\ f[n + 1] = f[n] \o ss[n + 1]
  <2>1. n + 1 \in 1 .. Len(ss) /\ (n + 1) - 1 = n /\ n \in 0 .. Len(ss)
    BY <1>0
  <2> QED BY <1>0, <1>5, <1>6, <2>1, Zenon
<1> QED
  BY <1>6, <1>7, <1>8, <1>9 DEF Flattening

(* It returns a sequence of the elements' type. *)
LEMMA FlattenType ==
    ASSUME NEW S, NEW ss \in Seq(Seq(S))
    PROVE  FlattenSeq(ss) \in Seq(S)
<1>1. Len(ss) \in 0 .. Len(ss)
  OBVIOUS
<1> QED BY <1>1, FlattenSteps, Zenon DEF Flattening

(* The elements of a concatenation. *)
LEMMA ConcatElements ==
    ASSUME NEW S, NEW s \in Seq(S), NEW t \in Seq(S)
    PROVE  ToSet(s \o t) = ToSet(s) \cup ToSet(t)
<1>1. ASSUME NEW u PROVE ToSet(u) = Range(u)
  BY DEF ToSet, Range
<1> QED BY <1>1, RangeConcatenation, Zenon

(* Its elements are those of the sequences in it. *)
LEMMA FlattenElements ==
    ASSUME NEW S, NEW ss \in Seq(Seq(S))
    PROVE  ToSet(FlattenSeq(ss)) = UNION {ToSet(ss[i]) : i \in DOMAIN ss}
<1> PICK f : Flattening(f, ss, S)
  BY FlattenSteps
<1>1. /\ f[0] = <<>> /\ f[Len(ss)] = FlattenSeq(ss)
      /\ \A n \in 0 .. Len(ss) - 1 :
            f[n] \in Seq(S) /\ ss[n + 1] \in Seq(S) /\ f[n + 1] = f[n] \o ss[n + 1]
  <2>1. \A n \in 0 .. Len(ss) - 1 : n \in 0 .. Len(ss)
    OBVIOUS
  <2> QED BY <2>1, Zenon DEF Flattening
<1> DEFINE Up(n) == UNION {ToSet(ss[i]) : i \in 1 .. n}
           T == {n \in 0 .. Len(ss) : ToSet(f[n]) = Up(n)}
<1>0. Len(ss) \in Nat /\ DOMAIN ss = 1 .. Len(ss)
  OBVIOUS
<1>2. 0 \in T
  BY <1>0, <1>1 DEF ToSet
<1>3. ASSUME NEW n \in 0 .. Len(ss) - 1, n \in T PROVE n + 1 \in T
  <2>1. ToSet(f[n + 1]) = ToSet(f[n]) \cup ToSet(ss[n + 1])
    <3>1. f[n] \in Seq(S) /\ ss[n + 1] \in Seq(S) /\ f[n + 1] = f[n] \o ss[n + 1]
      BY <1>1, Zenon
    <3>2. ToSet(f[n] \o ss[n + 1]) = ToSet(f[n]) \cup ToSet(ss[n + 1])
      BY <3>1, ConcatElements
    <3> QED BY <3>1, <3>2
  <2>2. 1 .. n + 1 = (1 .. n) \cup {n + 1}
    BY <1>0
  <2>3. Up(n + 1) = Up(n) \cup ToSet(ss[n + 1])
    <3> HIDE DEF T
    <3> QED BY <2>2
  <2>4. n + 1 \in 0 .. Len(ss)
    BY <1>0
  <2> QED BY <1>3, <2>1, <2>3, <2>4, Zenon
<1> HIDE DEF T
<1>4. 0 .. Len(ss) \subseteq T
  BY <1>0, <1>2, <1>3, UpToBound
<1>5. Len(ss) \in T
  BY <1>0, <1>4
<1> QED BY <1>0, <1>1, <1>5 DEF T

(* Where at most one of the sequences has elements, that one is left. *)
LEMMA FlattenSingle ==
    ASSUME NEW S, NEW ss \in Seq(Seq(S)), NEW k \in Nat,
           \A i \in 1 .. Len(ss) : i # k => ss[i] = <<>>
    PROVE  FlattenSeq(ss) = IF k \in 1 .. Len(ss) THEN ss[k] ELSE <<>>
<1> PICK f : Flattening(f, ss, S)
  BY FlattenSteps
<1>1. /\ f[0] = <<>> /\ f[Len(ss)] = FlattenSeq(ss)
      /\ \A n \in 0 .. Len(ss) - 1 :
            f[n] \in Seq(S) /\ ss[n + 1] \in Seq(S) /\ f[n + 1] = f[n] \o ss[n + 1]
  <2>1. \A n \in 0 .. Len(ss) - 1 : n \in 0 .. Len(ss)
    OBVIOUS
  <2> QED BY <2>1, Zenon DEF Flattening
<1> DEFINE Now(n) == IF k \in 1 .. n THEN ss[k] ELSE <<>>
           T == {n \in 0 .. Len(ss) : f[n] = Now(n)}
<1>0. Len(ss) \in Nat
  OBVIOUS
<1>2. 0 \in T
  BY <1>0, <1>1
<1>3. ASSUME NEW n \in 0 .. Len(ss) - 1, n \in T PROVE n + 1 \in T
  <2>1. CASE n + 1 = k
    <3>1. f[n] = <<>> /\ Now(n + 1) = ss[n + 1]
      BY <1>0, <1>3, <2>1
    <3>2. <<>> \o ss[n + 1] = ss[n + 1]
      BY <1>1, ConcatEmptySeq
    <3>3. f[n + 1] = Now(n + 1)
      BY <1>1, <3>1, <3>2
    <3> QED BY <1>0, <3>3
  <2>2. CASE n + 1 # k
    <3>1. ss[n + 1] = <<>> /\ Now(n + 1) = Now(n)
      BY <1>0, <2>2
    <3>2. f[n] \o <<>> = f[n]
      BY <1>1, ConcatEmptySeq
    <3>3. f[n + 1] = Now(n + 1)
      BY <1>1, <1>3, <3>1, <3>2
    <3> QED BY <1>0, <3>3
  <2> QED BY <2>1, <2>2
<1> HIDE DEF T
<1>4. 0 .. Len(ss) \subseteq T
  BY <1>0, <1>2, <1>3, UpToBound
<1>5. Len(ss) \in T
  BY <1>0, <1>4
<1> QED BY <1>0, <1>1, <1>5 DEF T

(* Sequences of at most one record each, marked with its index, make a     *)
(* sequence in which no mark occurs twice.                                 *)
LEMMA FlattenDistinct ==
    ASSUME NEW S, NEW ss \in Seq(Seq(S)),
           \A i \in 1 .. Len(ss) : \A p, q \in 1 .. Len(ss[i]) :
              p = q /\ ss[i][p].source = i
    PROVE  \A p, q \in 1 .. Len(FlattenSeq(ss)) :
              FlattenSeq(ss)[p].source = FlattenSeq(ss)[q].source => p = q
<1> PICK f : Flattening(f, ss, S)
  BY FlattenSteps
<1>1. /\ f[0] = <<>> /\ f[Len(ss)] = FlattenSeq(ss)
      /\ \A n \in 0 .. Len(ss) - 1 :
            f[n] \in Seq(S) /\ ss[n + 1] \in Seq(S) /\ f[n + 1] = f[n] \o ss[n + 1]
  <2>1. \A n \in 0 .. Len(ss) - 1 : n \in 0 .. Len(ss)
    OBVIOUS
  <2> QED BY <2>1, Zenon DEF Flattening
<1> DEFINE Distinct(s, n) ==
              /\ \A p \in 1 .. Len(s) : s[p].source \in 1 .. n
              /\ \A p, q \in 1 .. Len(s) : s[p].source = s[q].source => p = q
           T == {n \in 0 .. Len(ss) : Distinct(f[n], n)}
<1>0. Len(ss) \in Nat
  OBVIOUS
<1>2. 0 \in T
  BY <1>0, <1>1
<1>3. ASSUME NEW n \in 0 .. Len(ss) - 1, n \in T PROVE n + 1 \in T
  <2> DEFINE s == f[n]
             t == ss[n + 1]
  <2>1. s \in Seq(S) /\ t \in Seq(S) /\ f[n + 1] = s \o t /\ Distinct(s, n)
    BY <1>1, <1>3
  <2>2. \A p, q \in 1 .. Len(t) : p = q /\ t[p].source = n + 1
    <3>1. n + 1 \in 1 .. Len(ss)
      BY <1>0
    <3> QED BY <3>1, Zenon
  <2> HIDE DEF s, t
  <2>3. Len(s) \in Nat /\ Len(t) \in Nat /\ Len(t) <= 1
    <3>1. Len(t) > 1 => 1 \in 1 .. Len(t) /\ 2 \in 1 .. Len(t)
      BY <2>1
    <3> QED BY <2>1, <2>2, <3>1
  <2>4. /\ Len(s \o t) = Len(s) + Len(t)
        /\ \A p \in 1 .. Len(s) + Len(t) :
              (s \o t)[p] = IF p <= Len(s) THEN s[p] ELSE t[p - Len(s)]
    BY <2>1, ConcatProperties
  <2>5. ASSUME NEW p \in 1 .. Len(s \o t)
        PROVE  \/ p \in 1 .. Len(s) /\ (s \o t)[p] = s[p] /\ s[p].source \in 1 .. n
               \/ p = Len(s) + 1 /\ (s \o t)[p].source = n + 1
    BY <2>1, <2>2, <2>3, <2>4
  <2>6. Distinct(s \o t, n + 1)
    <3>1. \A p \in 1 .. Len(s \o t) : (s \o t)[p].source \in 1 .. n + 1
      BY <1>0, <2>5
    <3>2. ASSUME NEW p \in 1 .. Len(s \o t), NEW q \in 1 .. Len(s \o t),
                 (s \o t)[p].source = (s \o t)[q].source
          PROVE  p = q
      <4>1. n + 1 \notin 1 .. n
        BY <1>0
      <4>2. \A x, y \in 1 .. Len(s) : s[x].source = s[y].source => x = y
        BY <2>1
      <4>3. CASE p = Len(s) + 1 /\ (s \o t)[p].source = n + 1
        BY <2>5, <3>2, <4>1, <4>3
      <4>4. CASE q = Len(s) + 1 /\ (s \o t)[q].source = n + 1
        BY <2>5, <3>2, <4>1, <4>4
      <4>5. CASE /\ p \in 1 .. Len(s) /\ (s \o t)[p] = s[p]
                 /\ q \in 1 .. Len(s) /\ (s \o t)[q] = s[q]
        BY <3>2, <4>2, <4>5
      <4> QED BY <2>5, <4>3, <4>4, <4>5
    <3> QED BY <3>1, <3>2
  <2>7. n + 1 \in 0 .. Len(ss)
    BY <1>0
  <2> QED BY <2>1, <2>6, <2>7, Zenon
<1> HIDE DEF T
<1>4. 0 .. Len(ss) \subseteq T
  BY <1>0, <1>2, <1>3, UpToBound
<1>5. Len(ss) \in T
  BY <1>0, <1>4
<1> QED BY <1>1, <1>5, Zenon DEF T

-----------------------------------------------------------------------------
(*                           Merged content                                *)

(* The strings that occur.  To the provers STRING is a set of which they   *)
(* know nothing, not even that it has the literals.                        *)
Word == STRING \cup ChartCode \cup SourceTypes \cup
    {"prose", "none", "stub", "generic", "no overview", "no details", "no references",
     "unlabelled", "failure", "overview", "details", "references", "error", "success",
     "unknown"}

Blocks == [syntax : Word, code : Word, from : Word]
Items == [type : Word, key : Word, content : Seq(Blocks)]
FetchResults == [source : Nat, type : Word, status : Word, items : Seq(Items)]
MergedContent == [overview : Seq(Blocks), details : Seq(Items), references : Seq(Word)]

(* The recursive function inside MergeDetails, over sets of indices. *)
DetailsBy(iter, s, items) ==
    IF s = {} THEN <<>> ELSE PutDetail(iter[s \ {Max(s)}], items[Max(s)])
DetailsOf(items) ==
    CHOOSE iter : iter = [s \in SUBSET DOMAIN items |-> DetailsBy(iter, s, items)]

(* FoldLeft is this function. *)
LEMMA DetailsAreFolded ==
    ASSUME NEW items
    PROVE  FoldLeft(PutDetail, <<>>, items) = DetailsOf(items)[DOMAIN items]
BY Zenon DEF FoldLeft, MapThenFoldSet, DetailsOf, DetailsBy

(* The greatest element of an initial segment. *)
LEMMA MaxOfInterval ==
    ASSUME NEW n \in Nat, NEW s \in SUBSET (1 .. n + 1), n + 1 \in s
    PROVE  Max(s) = n + 1
<1>1. \A y \in s : n + 1 >= y
  OBVIOUS
<1>2. \A x \in s : (\A y \in s : x >= y) => x = n + 1
  OBVIOUS
<1> QED BY <1>1, <1>2 DEF Max

(* It exists, for sequences of any length. *)
LEMMA DetailsExist ==
    ASSUME NEW items, NEW n \in Nat
    PROVE  \E iter : iter = [s \in SUBSET (1 .. n) |-> DetailsBy(iter, s, items)]
<1> DEFINE T == {m \in Nat : \E iter : iter = [s \in SUBSET (1 .. m) |-> DetailsBy(iter, s, items)]}
<1>1. 0 \in T
  <2> DEFINE iter == [s \in SUBSET (1 .. 0) |-> <<>>]
  <2>1. iter = [s \in SUBSET (1 .. 0) |-> DetailsBy(iter, s, items)]
    BY 1 .. 0 = {} DEF DetailsBy
  <2> QED BY <2>1
<1>2. ASSUME NEW m \in Nat, m \in T PROVE m + 1 \in T
  <2>1. PICK h : h = [s \in SUBSET (1 .. m) |-> DetailsBy(h, s, items)]
    BY <1>2
  <2> DEFINE g == [s \in SUBSET (1 .. m + 1) |->
                      IF m + 1 \in s THEN PutDetail(h[s \ {m + 1}], items[m + 1]) ELSE h[s]]
  <2>2. ASSUME NEW s \in SUBSET (1 .. m + 1) PROVE g[s] = DetailsBy(g, s, items)
    <3>0. s \ {Max(s)} \in SUBSET (1 .. m + 1)
      OBVIOUS
    <3>1. CASE m + 1 \in s
      <4>1. Max(s) = m + 1 /\ s # {}
        BY <3>1, MaxOfInterval
      <4>2. g[s \ {Max(s)}] = h[s \ {m + 1}]
        BY <3>0, <4>1
      <4> QED BY <3>1, <4>1, <4>2 DEF DetailsBy
    <3>2. CASE m + 1 \notin s
      <4>1. s \in SUBSET (1 .. m)
        BY <3>2
      <4>2. h[s] = DetailsBy(h, s, items)
        BY <2>1, <4>1
      <4>3. g[s \ {Max(s)}] = h[s \ {Max(s)}]
        BY <3>0, <3>2
      <4> QED BY <3>2, <4>2, <4>3 DEF DetailsBy
    <3> QED BY <3>1, <3>2
  <2>3. g = [s \in SUBSET (1 .. m + 1) |-> DetailsBy(g, s, items)]
    BY <2>2, Zenon
  <2> HIDE DEF g
  <2>4. m + 1 \in Nat
    OBVIOUS
  <2> QED BY <2>3, <2>4
<1> HIDE DEF T
<1>3. n \in T
  BY <1>1, <1>2, UpTo
<1> QED BY <1>3 DEF T

(* Storing a detail under its key. *)
LEMMA PutDetailType ==
    ASSUME NEW details \in Seq(Items), NEW item \in Items
    PROVE  PutDetail(details, item) \in Seq(Items)
<1>1. Append(details, item) \in Seq(Items)
  OBVIOUS
<1>2. [i \in DOMAIN details |-> IF details[i].key = item.key THEN item ELSE details[i]]
         \in Seq(Items)
  <2>1. DOMAIN details = 1 .. Len(details) /\ Len(details) \in Nat
    OBVIOUS
  <2>2. \A i \in 1 .. Len(details) :
           (IF details[i].key = item.key THEN item ELSE details[i]) \in Items
    BY ElementOfSeq
  <2> QED BY <2>1, <2>2, IsASeq
<1> QED BY <1>1, <1>2 DEF PutDetail

(* The details are a sequence of items. *)
LEMMA DetailsType ==
    ASSUME NEW items \in Seq(Items)
    PROVE  FoldLeft(PutDetail, <<>>, items) \in Seq(Items)
<1> DEFINE g == DetailsOf(items)
           T == {n \in 0 .. Len(items) : g[1 .. n] \in Seq(Items)}
<1>0. Len(items) \in Nat /\ DOMAIN items = 1 .. Len(items)
  OBVIOUS
<1>1. g = [s \in SUBSET (1 .. Len(items)) |-> DetailsBy(g, s, items)]
  <2>1. \E iter : iter = [s \in SUBSET DOMAIN items |-> DetailsBy(iter, s, items)]
    <3>1. PICK h : h = [s \in SUBSET (1 .. Len(items)) |-> DetailsBy(h, s, items)]
      BY <1>0, DetailsExist, Zenon
    <3>2. h = [s \in SUBSET DOMAIN items |-> DetailsBy(h, s, items)]
      BY <1>0, <3>1, Zenon
    <3> QED BY <3>2, Zenon
  <2>2. g = [s \in SUBSET DOMAIN items |-> DetailsBy(g, s, items)]
    BY <2>1, Zenon DEF DetailsOf
  <2> QED BY <1>0, <2>2
<1> HIDE DEF g
<1>2. \A s \in SUBSET (1 .. Len(items)) : g[s] = DetailsBy(g, s, items)
  BY <1>1, Zenon
<1>3. 0 \in T
  <2>1. 1 .. 0 = {} /\ {} \in SUBSET (1 .. Len(items)) /\ <<>> \in Seq(Items)
    OBVIOUS
  <2>2. g[1 .. 0] = <<>>
    BY <1>2, <2>1 DEF DetailsBy
  <2>3. g[1 .. 0] \in Seq(Items) /\ 0 \in 0 .. Len(items)
    BY <1>0, <2>1, <2>2
  <2> QED BY <2>3
<1>4. ASSUME NEW n \in 0 .. Len(items) - 1, n \in T PROVE n + 1 \in T
  <2> DEFINE s == 1 .. n + 1
  <2>1. s \in SUBSET (1 .. Len(items)) /\ s # {} /\ s \ {n + 1} = 1 .. n
    <3> HIDE DEF T
    <3>1. n \in Nat /\ n + 1 <= Len(items)
      BY <1>0
    <3>2. n + 1 \in s /\ \A i \in s : i \in 1 .. Len(items)
      BY <1>0, <3>1
    <3>3. \A i \in s : i # n + 1 => i \in 1 .. n
      BY <3>1
    <3>4. \A i \in 1 .. n : i \in s /\ i # n + 1
      BY <3>1
    <3> HIDE DEF s
    <3> QED BY <3>2, <3>3, <3>4
  <2>2. Max(s) = n + 1
    BY <1>0, MaxOfInterval
  <2>3. g[s] = PutDetail(g[1 .. n], items[n + 1])
    BY <1>2, <2>1, <2>2 DEF DetailsBy
  <2>4. g[1 .. n] \in Seq(Items) /\ items[n + 1] \in Items
    BY <1>0, <1>4, ElementOfSeq
  <2>5. g[s] \in Seq(Items)
    BY <2>3, <2>4, PutDetailType
  <2> QED BY <1>0, <2>5
<1> HIDE DEF T
<1>5. 0 .. Len(items) \subseteq T
  BY <1>0, <1>3, <1>4, UpToBound
<1>6. Len(items) \in T
  BY <1>0, <1>5
<1>7. g[DOMAIN items] \in Seq(Items)
  BY <1>0, <1>6 DEF T
<1> QED BY <1>7, DetailsAreFolded DEF g

(* The items of one type, of the types in order. *)
LEMMA GroupSequences ==
    ASSUME NEW given \in Seq(FetchResults), NEW type
    PROVE  [i \in DOMAIN given |->
              IF given[i].status = "success" /\ given[i].type = type
              THEN given[i].items ELSE <<>>] \in Seq(Seq(Items))
<1>1. DOMAIN given = 1 .. Len(given) /\ Len(given) \in Nat
  OBVIOUS
<1>2. \A i \in 1 .. Len(given) : given[i] \in FetchResults
  BY ElementOfSeq
<1>3. \A i \in 1 .. Len(given) :
         (IF given[i].status = "success" /\ given[i].type = type
          THEN given[i].items ELSE <<>>) \in Seq(Items)
  BY <1>2, EmptySeq DEF FetchResults
<1> QED BY <1>1, <1>3, IsASeq

(* They are items again. *)
LEMMA GroupType ==
    ASSUME NEW given \in Seq(FetchResults), NEW type
    PROVE  GroupByType(given, type) \in Seq(Items)
BY GroupSequences, FlattenType DEF GroupByType

(* The items of the types in their order. *)
LEMMA OrderSequences ==
    ASSUME NEW given \in Seq(FetchResults), NEW order \in Seq(Word)
    PROVE  [k \in DOMAIN order |-> GroupByType(given, order[k])] \in Seq(Seq(Items))
<1>1. DOMAIN order = 1 .. Len(order) /\ Len(order) \in Nat
  OBVIOUS
<1>2. \A k \in 1 .. Len(order) : GroupByType(given, order[k]) \in Seq(Items)
  BY GroupType
<1> QED BY <1>1, <1>2, IsASeq

(* They are items again. *)
LEMMA OrderType ==
    ASSUME NEW given \in Seq(FetchResults), NEW order \in Seq(Word)
    PROVE  InOrder(given, order) \in Seq(Items)
BY OrderSequences, FlattenType DEF InOrder

(* The beginning of an item. *)
LEMMA CutType ==
    ASSUME NEW content \in Seq(Blocks)
    PROVE  Cut(content) \in Seq(Blocks)
<1>1. CASE Len(content) < OverviewLimit
  BY <1>1 DEF Cut
<1>2. CASE ~ (Len(content) < OverviewLimit)
  <2>1. OverviewLimit \in 0 .. Len(content)
    BY <1>2, MergerAssumption
  <2>2. SubSeq(content, 1, OverviewLimit) \in Seq(Blocks)
    BY <2>1, SubSeqProperties
  <2> QED BY <1>2, <2>2 DEF Cut
<1> QED BY <1>1, <1>2

(* The beginnings of several items. *)
LEMMA CutSequences ==
    ASSUME NEW items \in Seq(Items)
    PROVE  [i \in DOMAIN items |-> Cut(items[i].content)] \in Seq(Seq(Blocks))
<1>1. DOMAIN items = 1 .. Len(items) /\ Len(items) \in Nat
  OBVIOUS
<1>2. \A i \in 1 .. Len(items) : items[i] \in Items
  BY ElementOfSeq
<1>3. \A i \in 1 .. Len(items) : items[i].content \in Seq(Blocks)
  BY <1>2 DEF Items
<1>4. \A i \in 1 .. Len(items) : Cut(items[i].content) \in Seq(Blocks)
  BY <1>3, CutType
<1> QED BY <1>1, <1>4, IsASeq

(* What the template engine is given. *)
LEMMA MergeType ==
    ASSUME NEW given \in Seq(FetchResults)
    PROVE  Merge(given) \in MergedContent
<1>1. SourceOrder \in Seq(Word) /\ DetailOrder \in Seq(Word)
  <2>1. SourceOrder \in Seq(Word)
    BY DEF SourceOrder, Word, SourceTypes
  <2>2. DetailOrder \in Seq(Word)
    BY DEF DetailOrder, Word, SourceTypes
  <2> QED BY <2>1, <2>2
<1>2. MergeOverview(given) \in Seq(Blocks)
  <2> DEFINE items == InOrder(given, SourceOrder)
  <2>1. items \in Seq(Items)
    BY <1>1, OrderType
  <2> HIDE DEF items
  <2>2. FlattenSeq([i \in DOMAIN items |-> Cut(items[i].content)]) \in Seq(Blocks)
    BY <2>1, CutSequences, FlattenType
  <2> QED BY <2>2 DEF MergeOverview, items
<1>3. MergeDetails(given) \in Seq(Items)
  BY <1>1, OrderType, DetailsType DEF MergeDetails
<1>4. MergeReferences(given) \in Seq(Word)
  <2> DEFINE items == InOrder(given, DetailOrder)
  <2>1. items \in Seq(Items)
    BY <1>1, OrderType
  <2> HIDE DEF items
  <2>2. DOMAIN items = 1 .. Len(items) /\ Len(items) \in Nat
    BY <2>1
  <2>3. \A i \in 1 .. Len(items) : items[i].key \in Word
    <3>1. \A i \in 1 .. Len(items) : items[i] \in Items
      BY <2>1, ElementOfSeq
    <3> QED BY <3>1 DEF Items
  <2>4. [i \in DOMAIN items |-> items[i].key] \in Seq(Word)
    BY <2>2, <2>3, IsASeq
  <2> QED BY <2>4 DEF MergeReferences, items
<1> QED BY <1>2, <1>3, <1>4 DEF Merge, MergedContent

-----------------------------------------------------------------------------
(*                      Templates and rendering                            *)

Lines == [kind : Word, slot : Word]

(* Min gives the least element. *)
LEMMA MinOfSet ==
    ASSUME NEW T, T \subseteq Nat, T # {}
    PROVE  Min(T) \in T /\ \A n \in T : Min(T) <= n
<1>1. \E n \in T : \A m \in T : n <= m
  <2>1. PICK n \in T : \A m \in T : ~ (m < n)
    BY Least
  <2>2. \A m \in T : n <= m
    BY <2>1
  <2> QED BY <2>2
<1> QED BY <1>1, Zenon DEF Min

(* The slots of some lines. *)
LEMMA SlotSequences ==
    ASSUME NEW lines \in Seq(Lines)
    PROVE  [i \in DOMAIN lines |->
              IF lines[i].kind = "line" /\ lines[i].slot # "none"
              THEN <<lines[i].slot>> ELSE <<>>] \in Seq(Seq(Word))
<1>1. DOMAIN lines = 1 .. Len(lines) /\ Len(lines) \in Nat
  OBVIOUS
<1>2. \A i \in 1 .. Len(lines) : lines[i] \in Lines
  BY ElementOfSeq
<1>3. \A i \in 1 .. Len(lines) : lines[i].slot \in Word
  BY <1>2 DEF Lines
<1>4. \A i \in 1 .. Len(lines) :
         (IF lines[i].kind = "line" /\ lines[i].slot # "none"
          THEN <<lines[i].slot>> ELSE <<>>) \in Seq(Word)
  BY <1>3
<1> QED BY <1>1, <1>4, IsASeq

(* They are names. *)
LEMMA SlotsType ==
    ASSUME NEW lines \in Seq(Lines)
    PROVE  Slots(lines) \in Seq(Word)
BY SlotSequences, FlattenType DEF Slots

(* A section of the file is a part of it. *)
LEMMA SectionType ==
    ASSUME NEW file \in Seq(Lines), NEW docType
    PROVE  SectionOf(file, docType) \in Seq(Lines)
<1> DEFINE starts == {i \in DOMAIN file : file[i].kind = "section" /\ file[i].slot = docType}
           start == Min(starts)
           next == FindNextSectionOutsideFence(file, start)
<1>1. Len(file) \in Nat /\ DOMAIN file = 1 .. Len(file)
  OBVIOUS
<1>2. CASE starts = {}
  BY <1>2 DEF SectionOf
<1>3. CASE starts # {}
  <2>1. start \in 1 .. Len(file)
    BY <1>1, <1>3, MinOfSet, starts \subseteq Nat
  <2> HIDE DEF start
  <2>2. next \in start + 1 .. Len(file) + 1
    <3> DEFINE Fences(i) == {j \in start + 1 .. i - 1 : IsFence(file[j])}
               ends == {i \in start + 1 .. Len(file) :
                          file[i].kind = "section" /\ Cardinality(Fences(i)) % 2 = 0}
    <3>1. next = IF ends = {} THEN Len(file) + 1 ELSE Min(ends)
      BY DEF FindNextSectionOutsideFence
    <3>2. ends \subseteq start + 1 .. Len(file)
      OBVIOUS
    <3> HIDE DEF ends, next
    <3>3. ends \subseteq Nat
      BY <1>1, <2>1, <3>2
    <3>4. CASE ends = {}
      BY <1>1, <2>1, <3>1, <3>4
    <3>5. CASE ends # {}
      <4>1. Min(ends) \in ends
        BY <3>3, <3>5, MinOfSet
      <4> QED BY <1>1, <2>1, <3>1, <3>2, <3>5, <4>1
    <3> QED BY <3>4, <3>5
  <2> HIDE DEF next
  <2>3. start \in 1 .. Len(file) + 1 /\ next - 1 \in start - 1 .. Len(file)
    BY <1>1, <2>1, <2>2
  <2>4. SubSeq(file, start, next - 1) \in Seq(Lines)
    BY <2>3, SubSeqProperties
  <2> QED BY <1>3, <2>4 DEF SectionOf, start, next
<1> QED BY <1>2, <1>3

(* So is the body of its fence. *)
LEMMA UnwrapType ==
    ASSUME NEW section \in Seq(Lines)
    PROVE  UnwrapMarkdownFence(section) \in Seq(Lines)
<1> DEFINE opens == {i \in DOMAIN section : section[i].kind = "markdown"}
           closes == {i \in DOMAIN section : section[i].kind = "fence" /\ i > Min(opens)}
<1>1. Len(section) \in Nat /\ DOMAIN section = 1 .. Len(section)
  OBVIOUS
<1>2. CASE opens = {} \/ closes = {}
  BY <1>2 DEF UnwrapMarkdownFence
<1>3. CASE opens # {} /\ closes # {}
  <2>1. Min(opens) \in 1 .. Len(section)
    BY <1>1, <1>3, MinOfSet, opens \subseteq Nat
  <2>2. Min(closes) \in 1 .. Len(section) /\ Min(closes) > Min(opens)
    <3>1. Min(closes) \in closes
      BY <1>1, <1>3, MinOfSet, closes \subseteq Nat
    <3> QED BY <1>1, <3>1
  <2>4. SubSeq(section, Min(opens) + 1, Min(closes) - 1) \in Seq(Lines)
    <3> DEFINE m == Min(opens) + 1
               n == Min(closes) - 1
    <3>1. m \in Int /\ n \in Int /\ m >= 1 /\ n <= Len(section)
      BY <1>1, <2>1, <2>2
    <3> HIDE DEF m, n
    <3>2. \A i \in m .. n : section[i] \in Lines
      BY <1>1, <3>1
    <3>3. SubSeq(section, m, n) \in Seq(Lines)
      BY <3>1, <3>2, SubSeqProperties
    <3> QED BY <3>3 DEF m, n
  <2> QED BY <1>3, <2>4 DEF UnwrapMarkdownFence
<1> QED BY <1>2, <1>3

(* Every template is a sequence of slots. *)
LEMMA TemplateType ==
    ASSUME NEW docType, NEW installed
    PROVE  LoadTemplate(docType, installed) \in Seq(Word)
<1>1. DefaultTemplate(docType) \in Seq(Word)
  <2>1. MinimalDefaultTemplate \in Seq(Word)
    BY DEF MinimalDefaultTemplate, Word
  <2>2. PlanningSkeletonTemplate \in Seq(Word)
    BY DEF PlanningSkeletonTemplate, Word, ChartCode
  <2>3. <<"overview", "details", "D-ARCH", "D-SEQ", "D-DAG", "D-CLASS", "references">>
           \in Seq(Word)
    BY DEF Word, ChartCode
  <2> QED BY <2>1, <2>2, <2>3 DEF DefaultTemplate, RichSkeletonTemplate
<1>2. TemplatesFile \in Seq(Lines)
  <2>1. [kind : STRING, slot : STRING] \subseteq Lines
    BY DEF Lines, Word
  <2> QED BY <2>1, TemplatesAssumption, SeqMonotonic
<1>3. ExtractTemplateSection(TemplatesFile, docType) \in Seq(Word)
  BY <1>1, <1>2, SectionType, UnwrapType, SlotsType DEF ExtractTemplateSection
<1> QED BY <1>1, <1>3 DEF LoadTemplate

(* A sequence of one element. *)
LEMMA SingleType ==
    ASSUME NEW S, NEW x \in S
    PROVE  <<x>> \in Seq(S)
OBVIOUS

(* Text and placeholders are blocks. *)
LEMMA BlockTypes ==
    /\ \A from \in Word : Text(from) \in Blocks
    /\ \A code \in Word : Stub(code) \in Blocks
<1>1. "prose" \in Word /\ "none" \in Word /\ "stub" \in Word
  BY DEF Word
<1> QED BY <1>1 DEF Text, Stub, Element, Blocks

(* The parts of the filled "details". *)
LEMMA DetailSequences ==
    ASSUME NEW details \in Seq(Items)
    PROVE  [i \in DOMAIN details |-> <<Text(details[i].key)>> \o details[i].content]
              \in Seq(Seq(Blocks))
<1>1. DOMAIN details = 1 .. Len(details) /\ Len(details) \in Nat
  OBVIOUS
<1>2. ASSUME NEW i \in 1 .. Len(details)
      PROVE  <<Text(details[i].key)>> \o details[i].content \in Seq(Blocks)
  <2>1. details[i] \in Items
    BY ElementOfSeq
  <2>2. details[i].key \in Word /\ details[i].content \in Seq(Blocks)
    BY <2>1 DEF Items
  <2>3. <<Text(details[i].key)>> \in Seq(Blocks)
    BY <2>2, BlockTypes
  <2> QED BY <2>2, <2>3, ConcatProperties
<1> QED BY <1>1, <1>2, IsASeq

(* What a slot is replaced by. *)
LEMMA FillType ==
    ASSUME NEW slot \in Word, NEW merged \in MergedContent
    PROVE  Fill(slot, merged) \in Seq(Blocks)
<1>0. /\ merged.overview \in Seq(Blocks) /\ merged.details \in Seq(Items)
      /\ merged.references \in Seq(Word)
  BY DEF MergedContent
<1>1. FormatOverview(merged.overview) \in Seq(Blocks)
  <2>1. Text("no overview") \in Blocks
    BY BlockTypes DEF Word
  <2>2. <<Text("no overview")>> \in Seq(Blocks)
    BY <2>1, SingleType
  <2> QED BY <1>0, <2>2 DEF FormatOverview
<1>2. FormatDetails(merged.details) \in Seq(Blocks)
  <2>1. Text("no details") \in Blocks
    BY BlockTypes DEF Word
  <2>2. <<Text("no details")>> \in Seq(Blocks)
    BY <2>1, SingleType
  <2> QED BY <1>0, <2>2, DetailSequences, FlattenType DEF FormatDetails
<1>3. FormatReferences(merged.references) \in Seq(Blocks)
  <2> DEFINE references == merged.references
  <2>1. Text("no references") \in Blocks
    BY BlockTypes DEF Word
  <2>2. <<Text("no references")>> \in Seq(Blocks)
    BY <2>1, SingleType
  <2> HIDE DEF references
  <2>3. references \in Seq(Word)
    BY <1>0 DEF references
  <2>4. \A i \in 1 .. Len(references) : Text(references[i]) \in Blocks
    BY <2>3, ElementOfSeq, BlockTypes
  <2>5. [i \in DOMAIN references |-> Text(references[i])] \in Seq(Blocks)
    BY <2>3, <2>4, IsASeq
  <2>6. FormatReferences(references) \in Seq(Blocks)
    BY <2>2, <2>5 DEF FormatReferences
  <2> QED BY <2>6 DEF references
<1>4. <<Text(PrimarySourceLabel(merged.details))>> \in Seq(Blocks)
  <2>1. PrimarySourceLabel(merged.details) \in Word
    <3>1. "unlabelled" \in Word
      BY DEF Word
    <3>2. merged.details # <<>> => merged.details[1] \in Items
      BY <1>0
    <3>3. merged.details # <<>> => merged.details[1].type \in Word
      BY <3>2 DEF Items
    <3> QED BY <3>1, <3>3 DEF PrimarySourceLabel
  <2>2. Text(PrimarySourceLabel(merged.details)) \in Blocks
    BY <2>1, BlockTypes
  <2> QED BY <2>2
<1>5. /\ <<Stub(slot)>> \in Seq(Blocks) /\ <<Stub("generic")>> \in Seq(Blocks)
      /\ <<Stub("D-ARCH"), Stub("D-SEQ")>> \in Seq(Blocks) /\ <<>> \in Seq(Blocks)
  <2>1. "generic" \in Word /\ "D-ARCH" \in Word /\ "D-SEQ" \in Word
    BY DEF Word, ChartCode
  <2>2. /\ Stub(slot) \in Blocks /\ Stub("generic") \in Blocks
        /\ Stub("D-ARCH") \in Blocks /\ Stub("D-SEQ") \in Blocks
    BY <2>1, BlockTypes
  <2> QED BY <2>2
<1> QED BY <1>1, <1>2, <1>3, <1>4, <1>5 DEF Fill

(* What the slots of a template are replaced by, one after the other. *)
LEMMA FillSequences ==
    ASSUME NEW template \in Seq(Word), NEW merged \in MergedContent
    PROVE  [i \in DOMAIN template |-> Fill(template[i], merged)] \in Seq(Seq(Blocks))
<1>1. DOMAIN template = 1 .. Len(template) /\ Len(template) \in Nat
  OBVIOUS
<1>2. \A i \in 1 .. Len(template) : template[i] \in Word
  BY ElementOfSeq
<1>3. \A i \in 1 .. Len(template) : Fill(template[i], merged) \in Seq(Blocks)
  BY <1>2, FillType
<1> QED BY <1>1, <1>3, IsASeq

(* Annotating changes nothing but the codes. *)
LEMMA AnnotateType ==
    ASSUME NEW content \in Seq(Blocks)
    PROVE  /\ AnnotateMermaidBlocks(content) \in Seq(Blocks)
           /\ Len(AnnotateMermaidBlocks(content)) = Len(content)
           /\ \A i \in 1 .. Len(content) :
                 /\ AnnotateMermaidBlocks(content)[i].from = content[i].from
                 /\ AnnotateMermaidBlocks(content)[i].syntax = content[i].syntax
<1>1. DOMAIN content = 1 .. Len(content) /\ Len(content) \in Nat
  OBVIOUS
<1>2. \A syntax : ClassifyMermaidBody(syntax) \in Word
  <2>1. "none" \in Word
    BY DEF Word
  <2>2. ASSUME NEW syntax \in DOMAIN ClassOf PROVE ClassOf[syntax] \in Word
    <3>1. DOMAIN ClassOf = {"sequence", "class", "er", "state", "mindmap", "gantt", "phases",
                            "subgraphs", "flowchart"}
      BY DEF ClassOf
    <3>2. ClassOf[syntax] \in ChartCode
      BY <3>1 DEF ClassOf, ChartCode
    <3> QED BY <3>2, Zenon DEF Word
  <2> QED BY <2>1, <2>2 DEF ClassifyMermaidBody
<1> DEFINE Annotated(i) ==
              IF content[i].code = "none"
              THEN [content[i] EXCEPT !.code = ClassifyMermaidBody(content[i].syntax)]
              ELSE content[i]
<1>3. ASSUME NEW i \in 1 .. Len(content)
      PROVE  /\ Annotated(i) \in Blocks
             /\ Annotated(i).from = content[i].from /\ Annotated(i).syntax = content[i].syntax
  <2>1. content[i] \in Blocks
    BY ElementOfSeq
  <2>2. ClassifyMermaidBody(content[i].syntax) \in Word
    BY <1>2
  <2> QED BY <2>1, <2>2 DEF Blocks
<1>4. AnnotateMermaidBlocks(content) = [i \in 1 .. Len(content) |-> Annotated(i)]
  BY <1>1 DEF AnnotateMermaidBlocks
<1> HIDE DEF Annotated
<1>5. [i \in 1 .. Len(content) |-> Annotated(i)] \in Seq(Blocks)
  BY <1>1, <1>3, IsASeq
<1> QED BY <1>1, <1>3, <1>4, <1>5

(* A rendered document is a sequence of blocks. *)
LEMMA RenderType ==
    ASSUME NEW given \in Seq(FetchResults)
    PROVE  RenderOf(given) \in Seq(Blocks)
<1> DEFINE template == LoadTemplate(request.docType, request.installed)
           merged == Merge(given)
<1>1. template \in Seq(Word) /\ merged \in MergedContent
  BY TemplateType, MergeType
<1> HIDE DEF template, merged
<1>2. ReplaceVariables(template, merged) \in Seq(Blocks)
  BY <1>1, FillSequences, FlattenType DEF ReplaceVariables
<1> QED BY <1>2, AnnotateType DEF RenderOf, Render, template, merged

-----------------------------------------------------------------------------
(*                     What becomes of the content                         *)

(* The elements of each part are elements of the whole. *)
LEMMA PartOfFlatten ==
    ASSUME NEW S, NEW ss \in Seq(Seq(S)), NEW i \in DOMAIN ss
    PROVE  ToSet(ss[i]) \subseteq ToSet(FlattenSeq(ss))
BY FlattenElements

(* The items of a result are among those of its type. *)
LEMMA GroupHas ==
    ASSUME NEW given \in Seq(FetchResults), NEW k \in DOMAIN given,
           given[k].status = "success"
    PROVE  ToSet(given[k].items) \subseteq ToSet(GroupByType(given, given[k].type))
<1> DEFINE type == given[k].type
           ss == [i \in DOMAIN given |->
                    IF given[i].status = "success" /\ given[i].type = type
                    THEN given[i].items ELSE <<>>]
<1>1. ss \in Seq(Seq(Items))
  BY GroupSequences
<1>2. k \in DOMAIN ss /\ ss[k] = given[k].items
  OBVIOUS
<1>3. GroupByType(given, type) = FlattenSeq(ss)
  BY DEF GroupByType
<1> HIDE DEF ss
<1> QED BY <1>1, <1>2, <1>3, PartOfFlatten

(* The items of a type are among the ordered ones. *)
LEMMA OrderHas ==
    ASSUME NEW given \in Seq(FetchResults), NEW order \in Seq(Word), NEW k \in DOMAIN order
    PROVE  ToSet(GroupByType(given, order[k])) \subseteq ToSet(InOrder(given, order))
<1> DEFINE ss == [j \in DOMAIN order |-> GroupByType(given, order[j])]
<1>1. ss \in Seq(Seq(Items))
  BY OrderSequences
<1>2. k \in DOMAIN ss /\ ss[k] = GroupByType(given, order[k])
  OBVIOUS
<1>3. InOrder(given, order) = FlattenSeq(ss)
  BY DEF InOrder
<1> HIDE DEF ss
<1> QED BY <1>1, <1>2, <1>3, PartOfFlatten

(* The beginning of every ordered item is in the overview. *)
LEMMA OverviewHas ==
    ASSUME NEW given \in Seq(FetchResults), SourceOrder \in Seq(Word),
           NEW item \in ToSet(InOrder(given, SourceOrder))
    PROVE  ToSet(Cut(item.content)) \subseteq ToSet(MergeOverview(given))
<1> DEFINE items == InOrder(given, SourceOrder)
           ss == [i \in DOMAIN items |-> Cut(items[i].content)]
<1>1. items \in Seq(Items)
  BY OrderType
<1>2. PICK k \in DOMAIN items : item = items[k]
  BY DEF ToSet
<1>3. MergeOverview(given) = FlattenSeq(ss)
  BY DEF MergeOverview
<1> HIDE DEF items
<1>4. ss \in Seq(Seq(Blocks))
  BY <1>1, CutSequences
<1>5. k \in DOMAIN ss /\ ss[k] = Cut(item.content)
  BY <1>2
<1> HIDE DEF ss
<1> QED BY <1>3, <1>4, <1>5, PartOfFlatten

(* What replaces a slot is in the document. *)
LEMMA ReplaceHas ==
    ASSUME NEW template \in Seq(Word), NEW merged \in MergedContent, NEW k \in DOMAIN template
    PROVE  ToSet(Fill(template[k], merged)) \subseteq ToSet(ReplaceVariables(template, merged))
<1> DEFINE ss == [i \in DOMAIN template |-> Fill(template[i], merged)]
<1>1. ss \in Seq(Seq(Blocks))
  BY FillSequences
<1>2. k \in DOMAIN ss /\ ss[k] = Fill(template[k], merged)
  OBVIOUS
<1>3. ReplaceVariables(template, merged) = FlattenSeq(ss)
  BY DEF ReplaceVariables
<1> HIDE DEF ss
<1> QED BY <1>1, <1>2, <1>3, PartOfFlatten

(* Annotating a block does not change where its text comes from. *)
LEMMA AnnotateOrigins ==
    ASSUME NEW content \in Seq(Blocks)
    PROVE  Origins(AnnotateMermaidBlocks(content)) = Origins(content)
<1> DEFINE annotated == AnnotateMermaidBlocks(content)
<1>1. /\ DOMAIN annotated = 1 .. Len(content) /\ DOMAIN content = 1 .. Len(content)
      /\ \A i \in 1 .. Len(content) : annotated[i].from = content[i].from
  BY AnnotateType
<1> HIDE DEF annotated
<1>2. Origins(annotated) = Origins(content)
  BY <1>1 DEF Origins, ToSet
<1> QED BY <1>2 DEF annotated

(* The merged overview has the beginning of each item that a known type of *)
(* source has brought.                                                     *)
LEMMA MergeKeepsItems ==
    ASSUME NEW given \in Seq(FetchResults), NEW k \in DOMAIN given,
           given[k].status = "success", given[k].type \in SourceTypes,
           NEW item \in ToSet(given[k].items)
    PROVE  ToSet(Cut(item.content)) \subseteq ToSet(Merge(given).overview)
<1>1. SourceOrder \in Seq(Word) /\ DOMAIN SourceOrder = 1 .. 5
  BY DEF SourceOrder, Word, SourceTypes
<1>2. PICK j \in DOMAIN SourceOrder : SourceOrder[j] = given[k].type
  <2>1. \A type \in SourceTypes : \E j \in 1 .. 5 : SourceOrder[j] = type
    <3>1. /\ SourceOrder[1] = "code_repository" /\ SourceOrder[2] = "feishu_doc"
          /\ SourceOrder[3] = "web" /\ SourceOrder[4] = "internal" /\ SourceOrder[5] = "direct"
      BY DEF SourceOrder
    <3> QED BY <3>1 DEF SourceTypes
  <2> QED BY <1>1, <2>1
<1>3. item \in ToSet(InOrder(given, SourceOrder))
  <2>1. item \in ToSet(GroupByType(given, given[k].type))
    BY GroupHas
  <2> QED BY <1>1, <1>2, <2>1, OrderHas
<1> QED BY <1>1, <1>3, OverviewHas DEF Merge

(* A template with a place for the overview keeps it in the document.      *)
LEMMA RenderKeepsItems ==
    ASSUME NEW given \in Seq(FetchResults), NEW k \in DOMAIN given,
           given[k].status = "success", given[k].type \in SourceTypes,
           NEW item \in ToSet(given[k].items), HasOverview
    PROVE  Origins(Cut(item.content)) \subseteq Origins(RenderOf(given))
<1> DEFINE template == LoadTemplate(request.docType, request.installed)
           merged == Merge(given)
           content == ReplaceVariables(template, merged)
<1>0. template \in Seq(Word) /\ merged \in MergedContent
  BY TemplateType, MergeType
<1>1. ToSet(Cut(item.content)) \subseteq ToSet(merged.overview)
  BY MergeKeepsItems
<1>2. ToSet(Cut(item.content)) \subseteq ToSet(FormatOverview(merged.overview))
  <2>1. merged.overview = <<>> => ToSet(merged.overview) = {}
    BY DEF ToSet
  <2> HIDE DEF merged
  <2> QED BY <1>1, <2>1 DEF FormatOverview
<1>3. ToSet(Cut(item.content)) \subseteq ToSet(content)
  <2>1. PICK i \in DOMAIN template : template[i] = "overview"
    BY DEF ToSet, HasOverview
  <2> HIDE DEF template, merged
  <2>2. Fill(template[i], merged) = FormatOverview(merged.overview)
    <3>1. Fill("overview", merged) = FormatOverview(merged.overview)
      BY DEF Fill, ChartCode
    <3> QED BY <2>1, <3>1
  <2> QED BY <1>0, <1>2, <2>2, ReplaceHas
<1>4. Origins(Cut(item.content)) \subseteq Origins(content)
  BY <1>3 DEF Origins
<1> HIDE DEF template, merged
<1>5. content \in Seq(Blocks)
  BY <1>0, FillSequences, FlattenType DEF ReplaceVariables
<1>6. RenderOf(given) = IF request.annotate THEN AnnotateMermaidBlocks(content) ELSE content
  BY DEF RenderOf, Render, template, merged
<1> HIDE DEF content
<1> QED BY <1>4, <1>5, <1>6, AnnotateOrigins

-----------------------------------------------------------------------------
(*                The order in which the results came                      *)

(* Where one result at most is of the type, its items are the type's. *)
LEMMA GroupSingle ==
    ASSUME NEW given \in Seq(FetchResults), NEW type, NEW p \in Nat,
           \A k \in 1 .. Len(given) :
              given[k].status = "success" /\ given[k].type = type => k = p
    PROVE  GroupByType(given, type) =
              IF /\ p \in 1 .. Len(given)
                 /\ given[p].status = "success" /\ given[p].type = type
              THEN given[p].items ELSE <<>>
<1> DEFINE ss == [k \in DOMAIN given |->
                    IF given[k].status = "success" /\ given[k].type = type
                    THEN given[k].items ELSE <<>>]
<1>1. ss \in Seq(Seq(Items))
  BY GroupSequences
<1>2. /\ Len(ss) = Len(given) /\ Len(given) \in Nat
      /\ \A k \in 1 .. Len(given) :
            ss[k] = IF given[k].status = "success" /\ given[k].type = type
                    THEN given[k].items ELSE <<>>
  <2>1. DOMAIN ss = 1 .. Len(given) /\ Len(given) \in Nat
    OBVIOUS
  <2>2. DOMAIN ss = 1 .. Len(ss) /\ Len(ss) \in Nat
    BY <1>1
  <2>3. Len(ss) = Len(given)
    BY <2>1, <2>2
  <2> QED BY <2>1, <2>3
<1>3. GroupByType(given, type) = FlattenSeq(ss)
  BY DEF GroupByType
<1> HIDE DEF ss
<1>4. \A k \in 1 .. Len(ss) : k # p => ss[k] = <<>>
  BY <1>2
<1>5. FlattenSeq(ss) = IF p \in 1 .. Len(ss) THEN ss[p] ELSE <<>>
  BY <1>1, <1>4, FlattenSingle
<1> QED BY <1>2, <1>3, <1>5

(* No two results of a type. *)
Single(given, type) ==
    \A k, l \in 1 .. Len(given) :
        /\ given[k].status = "success" /\ given[k].type = type
        /\ given[l].status = "success" /\ given[l].type = type
        => k = l

(* Then the order of the results does not matter. *)
LEMMA SameGroup ==
    ASSUME NEW r \in Seq(FetchResults), NEW s \in Seq(FetchResults), ToSet(r) = ToSet(s),
           NEW type, Single(r, type), Single(s, type)
    PROVE  GroupByType(r, type) = GroupByType(s, type)
<1> DEFINE Is(x) == x.status = "success" /\ x.type = type
<1>1. /\ \A p \in 1 .. Len(r) : \E q \in 1 .. Len(s) : r[p] = s[q]
      /\ \A q \in 1 .. Len(s) : \E p \in 1 .. Len(r) : r[p] = s[q]
  <2>1. DOMAIN r = 1 .. Len(r) /\ DOMAIN s = 1 .. Len(s)
    OBVIOUS
  <2> QED BY <2>1 DEF ToSet
<1>2. CASE \E p \in 1 .. Len(r) : Is(r[p])
  <2>1. PICK p \in 1 .. Len(r) : Is(r[p])
    BY <1>2
  <2>2. PICK q \in 1 .. Len(s) : r[p] = s[q]
    BY <1>1
  <2>3. p \in Nat /\ q \in Nat
    OBVIOUS
  <2>4. \A k \in 1 .. Len(r) : Is(r[k]) => k = p
    BY <2>1 DEF Single
  <2>5. \A k \in 1 .. Len(s) : Is(s[k]) => k = q
    BY <2>1, <2>2 DEF Single
  <2>6. GroupByType(r, type) = r[p].items
    BY <2>1, <2>3, <2>4, GroupSingle
  <2>7. GroupByType(s, type) = s[q].items
    BY <2>1, <2>2, <2>3, <2>5, GroupSingle
  <2> QED BY <2>2, <2>6, <2>7
<1>3. CASE \A p \in 1 .. Len(r) : ~ Is(r[p])
  <2>1. \A q \in 1 .. Len(s) : ~ Is(s[q])
    BY <1>1, <1>3
  <2>2. 0 \in Nat /\ 0 \notin 1 .. Len(r) /\ 0 \notin 1 .. Len(s)
    OBVIOUS
  <2>3. GroupByType(r, type) = <<>>
    BY <1>3, <2>2, GroupSingle
  <2>4. GroupByType(s, type) = <<>>
    BY <2>1, <2>2, GroupSingle
  <2> QED BY <2>3, <2>4
<1> QED BY <1>2, <1>3

(* Nor does it for the merged content. *)
LEMMA SameMerge ==
    ASSUME NEW r \in Seq(FetchResults), NEW s \in Seq(FetchResults), ToSet(r) = ToSet(s),
           \A type \in SourceTypes : Single(r, type) /\ Single(s, type)
    PROVE  Merge(r) = Merge(s)
<1>1. /\ \A k \in DOMAIN SourceOrder : SourceOrder[k] \in SourceTypes
      /\ \A k \in DOMAIN DetailOrder : DetailOrder[k] \in SourceTypes
  BY DEF SourceOrder, DetailOrder, SourceTypes
<1>2. ASSUME NEW order, \A k \in DOMAIN order : order[k] \in SourceTypes
      PROVE  InOrder(r, order) = InOrder(s, order)
  <2>1. \A k \in DOMAIN order : GroupByType(r, order[k]) = GroupByType(s, order[k])
    BY <1>2, SameGroup
  <2>2. [k \in DOMAIN order |-> GroupByType(r, order[k])]
           = [k \in DOMAIN order |-> GroupByType(s, order[k])]
    BY <2>1, Zenon
  <2> QED BY <2>2, Zenon DEF InOrder
<1>3. InOrder(r, SourceOrder) = InOrder(s, SourceOrder)
  BY <1>1, <1>2
<1>4. InOrder(r, DetailOrder) = InOrder(s, DetailOrder)
  BY <1>1, <1>2
<1> QED BY <1>3, <1>4, Zenon DEF Merge, MergeOverview, MergeDetails, MergeReferences

-----------------------------------------------------------------------------
(*                        The fetch and the document                       *)

(* The sources of a configuration. *)
LEMMA SourcesOfRequest ==
    ASSUME request \in Requests, NEW i \in DOMAIN request.sources
    PROVE  /\ request.sources[i] \in Sources
           /\ i \in Nat
<1>1. request \in Configurations
  BY RequestsAssumption
<1>2. request.sources \in Seq(Sources)
  BY <1>1 DEF Configurations
<1> QED BY <1>2

(* What a source contributes is a sequence of items. *)
LEMMA FetchedType ==
    ASSUME NEW source \in Sources, NEW answers
    PROVE  Fetched(source, answers) \in Seq(Items)
<1> DEFINE Content(i) == CASE answers[i] = "answer"  -> source.items[i].content
                           [] answers[i] = "failure" -> <<Text("failure")>>
                           [] OTHER                  -> <<>>
           items == [i \in DOMAIN source.items |->
                       [type |-> source.type, key |-> source.items[i].key, content |-> Content(i)]]
           ss == [i \in DOMAIN items |-> IF answers[i] = "missing" THEN <<>> ELSE <<items[i]>>]
           n == Len(source.items)
<1>1. /\ n \in Nat /\ DOMAIN source.items = 1 .. n /\ source.type \in Word
      /\ \A i \in 1 .. n : source.items[i].key \in Word
                           /\ source.items[i].content \in Seq(Elements)
  <2> DEFINE Inputs == [key : STRING, content : Seq(Elements)]
  <2>1. source.type \in STRING /\ source.items \in Seq(Inputs)
    BY DEF Sources
  <2>2. ASSUME NEW i \in 1 .. n
        PROVE  source.items[i].key \in STRING /\ source.items[i].content \in Seq(Elements)
    <3>1. source.items[i] \in Inputs
      BY <2>1, ElementOfSeq
    <3> QED BY <3>1
  <2>3. STRING \subseteq Word
    BY DEF Word
  <2> HIDE DEF Inputs
  <2>4. n \in Nat /\ DOMAIN source.items = 1 .. n
    BY <2>1
  <2> QED BY <2>1, <2>2, <2>3, <2>4
<1>2. Seq(Elements) \subseteq Seq(Blocks)
  <2>1. Elements \subseteq Blocks
    BY DEF Elements, Blocks, Word
  <2> QED BY <2>1, SeqMonotonic
<1>3. \A i \in 1 .. n : Content(i) \in Seq(Blocks)
  <2>1. "failure" \in Word
    BY DEF Word
  <2>2. <<Text("failure")>> \in Seq(Blocks) /\ <<>> \in Seq(Blocks)
    BY <2>1, BlockTypes
  <2>3. \A i \in 1 .. n : source.items[i].content \in Seq(Blocks)
    BY <1>1, <1>2
  <2> QED BY <2>2, <2>3
<1> HIDE DEF Content
<1>4. DOMAIN items = 1 .. n /\ \A i \in 1 .. n : items[i] \in Items
  BY <1>1, <1>3 DEF Items
<1>5. Fetched(source, answers) = FlattenSeq(ss)
  BY DEF Fetched, Content
<1> HIDE DEF items
<1>6. ss \in Seq(Seq(Items))
  <2>1. ss = [i \in 1 .. n |-> IF answers[i] = "missing" THEN <<>> ELSE <<items[i]>>]
    BY <1>4
  <2>2. \A i \in 1 .. n : (IF answers[i] = "missing" THEN <<>> ELSE <<items[i]>>) \in Seq(Items)
    BY <1>4
  <2> QED BY <1>1, <2>1, <2>2, IsASeq
<1> QED BY <1>5, <1>6, FlattenType

(* Every source has one result at most, of its own type, and none of them  *)
(* brings items unless it succeeds.                                        *)
FetchInv ==
    /\ request \in Requests
    /\ fetched \in Seq(FetchResults)
    /\ \A k \in 1 .. Len(fetched) :
          /\ fetched[k].source \in DOMAIN request.sources
          /\ fetched[k].status = "success" =>
                /\ fetched[k].type = request.sources[fetched[k].source].type
                /\ fetched[k].type \in SourceTypes
          /\ fetched[k].status # "success" => fetched[k].items = <<>>
    /\ \A k, l \in 1 .. Len(fetched) : fetched[k].source = fetched[l].source => k = l

(* The document is rendered once, from all that was fetched. *)
DocInv ==
    /\ pc \in {"start", "asked", "revision", "fetch", "raised"} \cup Rendered
    /\ pc \in {"start", "asked", "revision", "fetch"} => doc = <<>>
    /\ doc \in {<<>>, RenderOf(fetched)}
    /\ pc \in Rendered => doc = RenderOf(fetched)

(* Nothing is fetched and nothing rendered at the start. *)
LEMMA InitDocument == Init => FetchInv /\ DocInv
<1> SUFFICES ASSUME Init PROVE FetchInv /\ DocInv
  OBVIOUS
<1>1. /\ request \in Requests /\ fetched = <<>> /\ doc = <<>> /\ pc = "start"
  BY DEF Init
<1>2. FetchInv
  BY <1>1 DEF FetchInv
<1>3. DocInv
  BY <1>1 DEF DocInv, Rendered, Publishing, Ended
<1> QED BY <1>2, <1>3

(* A result that has just come. *)
LEMMA FetchOneKeeps ==
    ASSUME FetchInv, NEW i \in DOMAIN request.sources, FetchOne(i)
    PROVE  FetchInv'
<1> DEFINE source == request.sources[i]
<1>1. /\ i \in Nat /\ source \in Sources /\ source.type \in SourceTypes
      /\ \A k \in 1 .. Len(fetched) : fetched[k].source # i
      /\ Len(fetched) \in Nat /\ DOMAIN fetched = 1 .. Len(fetched)
  <2>1. DOMAIN fetched = 1 .. Len(fetched) /\ Len(fetched) \in Nat
    BY DEF FetchInv
  <2> QED BY <2>1, SourcesOfRequest DEF FetchOne, Outstanding, Fetchable, FetchInv
<1>2. PICK answers : fetched' = Append(fetched,
          IF source.malformed
          THEN [source |-> i, type |-> "unknown", status |-> "error", items |-> <<>>]
          ELSE [source |-> i, type |-> source.type, status |-> "success",
                items |-> Fetched(source, answers)])
  BY DEF FetchOne
<1> DEFINE r == IF source.malformed
                THEN [source |-> i, type |-> "unknown", status |-> "error", items |-> <<>>]
                ELSE [source |-> i, type |-> source.type, status |-> "success",
                      items |-> Fetched(source, answers)]
<1>3. /\ r.source = i
      /\ r.status = "success" => r.type = source.type
      /\ r.status # "success" => r.items = <<>>
      /\ r \in FetchResults
  <2>1. Fetched(source, answers) \in Seq(Items)
    BY <1>1, FetchedType
  <2>2. /\ source.type \in Word /\ "unknown" \in Word /\ "error" \in Word
        /\ "success" \in Word
    BY <1>1 DEF Word
  <2> HIDE DEF source
  <2>3. CASE source.malformed
    BY <1>1, <2>2, <2>3 DEF FetchResults
  <2>4. CASE ~ source.malformed
    BY <1>1, <2>1, <2>2, <2>4 DEF FetchResults
  <2> QED BY <2>3, <2>4
<1>4. fetched' = Append(fetched, r)
  BY <1>2
<1> HIDE DEF r
<1>5. /\ fetched' \in Seq(FetchResults) /\ Len(fetched') = Len(fetched) + 1
      /\ \A k \in 1 .. Len(fetched) : fetched'[k] = fetched[k]
      /\ fetched'[Len(fetched) + 1] = r
  BY <1>3, <1>4, AppendProperties DEF FetchInv
<1>6. request' = request
  BY DEF FetchOne
<1>7. \A k \in 1 .. Len(fetched') : k \in 1 .. Len(fetched) \/ k = Len(fetched) + 1
  BY <1>1, <1>5
<1>8. ASSUME NEW k \in 1 .. Len(fetched')
      PROVE  /\ fetched'[k].source \in DOMAIN request.sources
             /\ fetched'[k].status = "success" =>
                   /\ fetched'[k].type = request.sources[fetched'[k].source].type
                   /\ fetched'[k].type \in SourceTypes
             /\ fetched'[k].status # "success" => fetched'[k].items = <<>>
  <2>1. CASE k \in 1 .. Len(fetched)
    BY <1>5, <2>1 DEF FetchInv
  <2>2. CASE k = Len(fetched) + 1
    BY <1>1, <1>3, <1>5, <2>2
  <2> QED BY <1>7, <2>1, <2>2
<1>9. \A k, l \in 1 .. Len(fetched') : fetched'[k].source = fetched'[l].source => k = l
  BY <1>1, <1>3, <1>5, <1>7 DEF FetchInv
<1> QED BY <1>5, <1>6, <1>8, <1>9 DEF FetchInv

(* Rendering happens after the fetch. *)
LEMMA StepDocument ==
    ASSUME FetchInv, DocInv, [Next]_vars
    PROVE  FetchInv' /\ DocInv'
<1>1. CASE \E i \in DOMAIN request.sources : FetchOne(i)
  <2>1. PICK i \in DOMAIN request.sources : FetchOne(i)
    BY <1>1
  <2>2. pc = "fetch" /\ pc' = pc /\ doc' = doc
    BY <2>1 DEF FetchOne
  <2>3. doc = <<>>
    BY <2>2 DEF DocInv
  <2> QED BY <2>1, <2>2, <2>3, FetchOneKeeps DEF DocInv, Rendered, Publishing, Ended
<1>2. CASE MergeAndRender
  <2>1. /\ UNCHANGED <<request, fetched>> /\ pc' = "save" /\ doc' = RenderOf(fetched)
    BY <1>2 DEF MergeAndRender, docVars
  <2>2. RenderOf(fetched)' = RenderOf(fetched)
    BY <2>1 DEF RenderOf
  <2> QED BY <2>1, <2>2 DEF FetchInv, DocInv, Rendered, Publishing, Ended
<1>3. CASE UNCHANGED <<request, fetched, doc>>
           /\ \/ pc' = pc
              \/ /\ pc \in {"start", "asked", "revision"}
                 /\ pc' \in {"asked", "revision", "fetch", "raised"}
              \/ pc \in Rendered /\ pc' \in {"raised"} \cup Rendered
  <2>1. RenderOf(fetched)' = RenderOf(fetched)
    BY <1>3 DEF RenderOf
  <2> QED BY <1>3, <2>1 DEF FetchInv, DocInv, Rendered, Publishing, Ended
<1>4. CASE User \/ Start \/ RefineRaises
  BY <1>3, <1>4 DEF User, ContinueAfterConfirmation, Start, RefineRaises, docVars
<1>5. CASE SaveDocument \/ SaveRaises \/ PublishReturns \/ PublishFailed \/ GenerateOutput
           \/ UNCHANGED vars
  <2>1. UNCHANGED <<request, fetched, doc>>
    BY <1>5 DEF SaveDocument, SaveRaises, PublishReturns, PublishFailed, GenerateOutput,
                vars, docVars
  <2>2. \/ pc' = pc
        \/ pc \in Rendered /\ pc' \in {"raised"} \cup Rendered
    BY <1>5 DEF SaveDocument, SaveRaises, PublishReturns, PublishFailed, GenerateOutput,
                vars, Rendered, Ended
  <2> QED BY <1>3, <2>1, <2>2
<1>6. CASE PublishFeishu
  <2>1. UNCHANGED <<request, doc, docVars>> /\ pc \in Rendered /\ pc' \in Rendered
    BY <1>6 DEF PublishFeishu, PublishWithCharts, PublishViaSdk, PublishFallsBack, Published,
                PublishViaCli, PublishRaises, PairFails, Pair, NextChart, ChartsDone,
                PublishChart, InsertFails, Insert, LocateFails, Locate, PushFails, Push, Skip,
                VerifyAnswers, VerifyNotReady, VerifyFails, Rendered, Publishing, Ended
  <2> QED BY <1>3, <2>1 DEF docVars
<1> QED BY <1>1, <1>2, <1>4, <1>5, <1>6 DEF Next, Publication

(* The type of the document follows. *)
LEMMA DocumentSequence ==
    ASSUME FetchInv, DocInv
    PROVE  doc \in Seq(Blocks)
<1>1. fetched \in Seq(FetchResults) /\ doc \in {<<>>, RenderOf(fetched)}
  BY DEF FetchInv, DocInv
<1>2. RenderOf(fetched) \in Seq(Blocks) /\ <<>> \in Seq(Blocks)
  BY <1>1, RenderType
<1>3. CASE doc = <<>>
  BY <1>2, <1>3
<1>4. CASE doc = RenderOf(fetched)
  BY <1>2, <1>4, Zenon
<1> QED BY <1>1, <1>3, <1>4

(* A document is a finite sequence, whatever was fetched. *)
LEMMA DocumentIsSequence == Spec => [](FetchInv /\ DocInv /\ DocIsSequence)
<1>1. FetchInv /\ DocInv => DocIsSequence
  BY DocumentSequence DEF DocIsSequence
<1> QED BY <1>1, InitDocument, StepDocument, PTL DEF Spec

(* For any sources, answers and number of results, and in whatever order   *)
(* the threads of the fetch end: the beginning of every fetched item is in *)
(* the merged overview (content_merger.py:50-78), whatever the template,   *)
(* and in the document that is saved if the template has a slot for it.    *)
THEOREM NothingDroppedHolds == Spec => []NothingDropped
<1>1. FetchInv /\ DocInv => NothingDropped
  <2> SUFFICES ASSUME FetchInv, DocInv, pc = "save",
                      NEW k \in DOMAIN fetched, NEW item \in ToSet(fetched[k].items)
               PROVE  /\ Origins(Cut(item.content)) \subseteq Origins(Merge(fetched).overview)
                      /\ HasOverview => Origins(Cut(item.content)) \subseteq Origins(doc)
    BY DEF NothingDropped, FetchedIn
  <2>1. fetched \in Seq(FetchResults) /\ k \in 1 .. Len(fetched)
    BY DEF FetchInv
  <2>2. fetched[k].items # <<>>
    BY DEF ToSet
  <2>3. fetched[k].status = "success" /\ fetched[k].type \in SourceTypes
    BY <2>1, <2>2 DEF FetchInv
  <2>4. doc = RenderOf(fetched)
    BY DEF DocInv, Rendered
  <2>5. ToSet(Cut(item.content)) \subseteq ToSet(Merge(fetched).overview)
    BY <2>1, <2>3, MergeKeepsItems
  <2>6. Origins(Cut(item.content)) \subseteq Origins(Merge(fetched).overview)
    BY <2>5 DEF Origins
  <2>7. HasOverview => Origins(Cut(item.content)) \subseteq Origins(doc)
    BY <2>1, <2>3, <2>4, RenderKeepsItems
  <2> QED BY <2>6, <2>7
<1> QED BY <1>1, DocumentIsSequence, PTL

(* The result of a source that has answered, and of one that has not. *)
LEMMA ResultOfSource ==
    ASSUME FetchInv, NEW i \in Nat
    PROVE  /\ ResultOf(i) \in Seq(FetchResults)
           /\ \A k \in 1 .. Len(fetched) :
                 fetched[k].source = i => ResultOf(i) = <<fetched[k]>>
           /\ (\A k \in 1 .. Len(fetched) : fetched[k].source # i) => ResultOf(i) = <<>>
<1> DEFINE ss == [k \in DOMAIN fetched |->
                    IF fetched[k].source = i THEN <<fetched[k]>> ELSE <<>>]
<1>1. /\ Len(fetched) \in Nat /\ DOMAIN fetched = 1 .. Len(fetched)
      /\ \A k \in 1 .. Len(fetched) : fetched[k] \in FetchResults
  BY DEF FetchInv
<1>2. ss \in Seq(Seq(FetchResults))
  <2>1. ss = [k \in 1 .. Len(fetched) |->
                IF fetched[k].source = i THEN <<fetched[k]>> ELSE <<>>]
    BY <1>1
  <2>2. \A k \in 1 .. Len(fetched) :
           (IF fetched[k].source = i THEN <<fetched[k]>> ELSE <<>>) \in Seq(FetchResults)
    BY <1>1
  <2> QED BY <1>1, <2>1, <2>2, IsASeq
<1>3. /\ Len(ss) = Len(fetched)
      /\ \A k \in 1 .. Len(fetched) :
            ss[k] = IF fetched[k].source = i THEN <<fetched[k]>> ELSE <<>>
  <2>1. DOMAIN ss = 1 .. Len(fetched) /\ DOMAIN ss = 1 .. Len(ss) /\ Len(ss) \in Nat
    BY <1>1, <1>2
  <2> QED BY <1>1, <2>1
<1>4. ResultOf(i) = FlattenSeq(ss)
  BY DEF ResultOf
<1> HIDE DEF ss
<1>5. ResultOf(i) \in Seq(FetchResults)
  BY <1>2, <1>4, FlattenType
<1>6. ASSUME NEW k \in 1 .. Len(fetched), fetched[k].source = i
      PROVE  ResultOf(i) = <<fetched[k]>>
  <2>1. \A l \in 1 .. Len(ss) : l # k => ss[l] = <<>>
    BY <1>3, <1>6 DEF FetchInv
  <2>2. k \in Nat
    BY <1>1
  <2>3. FlattenSeq(ss) = IF k \in 1 .. Len(ss) THEN ss[k] ELSE <<>>
    BY <1>2, <2>1, <2>2, FlattenSingle
  <2> QED BY <1>3, <1>4, <1>6, <2>3
<1>7. ASSUME \A k \in 1 .. Len(fetched) : fetched[k].source # i
      PROVE  ResultOf(i) = <<>>
  <2>1. \A l \in 1 .. Len(ss) : l # 0 => ss[l] = <<>>
    BY <1>3, <1>7
  <2>2. FlattenSeq(ss) = IF 0 \in 1 .. Len(ss) THEN ss[0] ELSE <<>>
    BY <1>2, <2>1, FlattenSingle
  <2>3. 0 \notin 1 .. Len(ss)
    BY <1>1, <1>3
  <2> QED BY <1>4, <2>2, <2>3
<1> QED BY <1>5, <1>6, <1>7

(* The results in the order of their sources are the same results. *)
LEMMA SameResults ==
    ASSUME FetchInv
    PROVE  /\ BySource \in Seq(FetchResults)
           /\ ToSet(BySource) = ToSet(fetched)
           /\ \A p, q \in 1 .. Len(BySource) : BySource[p].source = BySource[q].source => p = q
<1> DEFINE sources == request.sources
           ss == [i \in DOMAIN sources |-> ResultOf(i)]
<1>1. /\ DOMAIN sources = 1 .. Len(sources) /\ Len(sources) \in Nat
      /\ DOMAIN fetched = 1 .. Len(fetched) /\ Len(fetched) \in Nat
  <2>1. request \in Configurations
    BY RequestsAssumption DEF FetchInv
  <2> QED BY <2>1 DEF Configurations, FetchInv
<1>2. \A i \in 1 .. Len(sources) : ResultOf(i) \in Seq(FetchResults)
  BY <1>1, ResultOfSource
<1>3. ss \in Seq(Seq(FetchResults))
  <2>1. [i \in 1 .. Len(sources) |-> ResultOf(i)] \in Seq(Seq(FetchResults))
    BY <1>1, <1>2, IsASeq
  <2> QED BY <1>1, <2>1
<1>4. DOMAIN ss = 1 .. Len(sources) /\ \A i \in 1 .. Len(sources) : ss[i] = ResultOf(i)
  BY <1>1
<1>5. BySource = FlattenSeq(ss)
  BY DEF BySource
<1> HIDE DEF ss
<1>6. Len(ss) = Len(sources)
  <2>1. DOMAIN ss = 1 .. Len(ss) /\ Len(ss) \in Nat
    BY <1>3
  <2> QED BY <1>1, <1>4, <2>1
<1>7. ASSUME NEW i \in 1 .. Len(sources)
      PROVE  /\ \A p, q \in 1 .. Len(ss[i]) : p = q /\ ss[i][p].source = i
             /\ ToSet(ss[i]) \subseteq ToSet(fetched)
             /\ \A k \in 1 .. Len(fetched) :
                   fetched[k].source = i => fetched[k] \in ToSet(ss[i])
  <2>0. i \in Nat /\ ss[i] = ResultOf(i)
    BY <1>1, <1>4
  <2>1. CASE \E k \in 1 .. Len(fetched) : fetched[k].source = i
    <3>1. PICK k \in 1 .. Len(fetched) : fetched[k].source = i
      BY <2>1
    <3>2. ss[i] = <<fetched[k]>>
      BY <2>0, <3>1, ResultOfSource
    <3>3. \A l \in 1 .. Len(fetched) : fetched[l].source = i => l = k
      BY <3>1 DEF FetchInv
    <3>4. Len(ss[i]) = 1 /\ ss[i][1] = fetched[k] /\ ToSet(ss[i]) = {fetched[k]}
      BY <3>2 DEF ToSet
    <3>5. fetched[k] \in ToSet(fetched)
      BY <1>1 DEF ToSet
    <3> QED BY <3>1, <3>3, <3>4, <3>5
  <2>2. CASE \A k \in 1 .. Len(fetched) : fetched[k].source # i
    <3>1. ss[i] = <<>>
      BY <2>0, <2>2, ResultOfSource
    <3>2. Len(ss[i]) = 0 /\ ToSet(ss[i]) = {}
      BY <3>1 DEF ToSet
    <3> QED BY <2>2, <3>2
  <2> QED BY <2>1, <2>2
<1>8. BySource \in Seq(FetchResults)
  BY <1>3, <1>5, FlattenType
<1>9. ToSet(BySource) = UNION {ToSet(ss[i]) : i \in 1 .. Len(sources)}
  BY <1>3, <1>4, <1>5, FlattenElements
<1>10. ToSet(fetched) \subseteq ToSet(BySource)
  <2> SUFFICES ASSUME NEW k \in 1 .. Len(fetched) PROVE fetched[k] \in ToSet(BySource)
    BY <1>1 DEF ToSet
  <2>1. fetched[k].source \in 1 .. Len(sources)
    BY <1>1 DEF FetchInv
  <2> QED BY <1>7, <1>9, <2>1
<1>11. \A p, q \in 1 .. Len(BySource) : BySource[p].source = BySource[q].source => p = q
  <2>1. \A i \in 1 .. Len(ss) : \A p, q \in 1 .. Len(ss[i]) : p = q /\ ss[i][p].source = i
    BY <1>6, <1>7
  <2> QED BY <1>3, <1>5, <2>1, FlattenDistinct
<1> QED BY <1>7, <1>8, <1>9, <1>10, <1>11

(* With one source of each type there is one result of each type. *)
LEMMA OneResultOfEachType ==
    ASSUME FetchInv, OneSourceOfEachType, NEW rs \in Seq(FetchResults),
           ToSet(rs) = ToSet(fetched),
           \A p, q \in 1 .. Len(rs) : rs[p].source = rs[q].source => p = q,
           NEW type
    PROVE  Single(rs, type)
<1> SUFFICES ASSUME NEW p \in 1 .. Len(rs), rs[p].status = "success", rs[p].type = type,
                    NEW q \in 1 .. Len(rs), rs[q].status = "success", rs[q].type = type
             PROVE  p = q
  BY DEF Single
<1>1. ASSUME NEW k \in 1 .. Len(rs)
      PROVE  \E l \in 1 .. Len(fetched) : rs[k] = fetched[l]
  <2>1. DOMAIN fetched = 1 .. Len(fetched) /\ DOMAIN rs = 1 .. Len(rs)
    BY DEF FetchInv
  <2>2. rs[k] \in ToSet(rs)
    BY <2>1 DEF ToSet
  <2>3. rs[k] \in ToSet(fetched)
    BY <2>2
  <2> QED BY <2>1, <2>3 DEF ToSet
<1>2. /\ rs[p].source \in DOMAIN request.sources /\ rs[q].source \in DOMAIN request.sources
      /\ request.sources[rs[p].source].type = type /\ request.sources[rs[q].source].type = type
  BY <1>1 DEF FetchInv
<1>3. rs[p].source = rs[q].source
  BY <1>2 DEF OneSourceOfEachType
<1> QED BY <1>3

(* For any sources of pairwise different types, however many and in        *)
(* whatever order their threads end, the document is the one that the      *)
(* order of the configuration gives (parallel_fetch.py:76-99).             *)
THEOREM MergeIgnoresTimingHolds == Spec => []MergeIgnoresTiming
<1>1. ASSUME FetchInv, DocInv, pc = "save", OneSourceOfEachType
      PROVE  doc = RenderOf(BySource)
  <2>1. doc = RenderOf(fetched)
    BY <1>1 DEF DocInv, Rendered
  <2>2. /\ BySource \in Seq(FetchResults) /\ ToSet(BySource) = ToSet(fetched)
        /\ \A p, q \in 1 .. Len(BySource) : BySource[p].source = BySource[q].source => p = q
    BY <1>1, SameResults
  <2>3. /\ fetched \in Seq(FetchResults) /\ ToSet(fetched) = ToSet(fetched)
        /\ \A p, q \in 1 .. Len(fetched) : fetched[p].source = fetched[q].source => p = q
    BY <1>1 DEF FetchInv
  <2>4. \A type \in SourceTypes : Single(fetched, type) /\ Single(BySource, type)
    BY <1>1, <2>2, <2>3, OneResultOfEachType
  <2>5. Merge(fetched) = Merge(BySource)
    BY <2>2, <2>3, <2>4, SameMerge
  <2> QED BY <2>1, <2>5, Zenon DEF RenderOf
<1>2. FetchInv /\ DocInv => MergeIgnoresTiming
  BY <1>1 DEF MergeIgnoresTiming
<1> QED BY <1>2, DocumentIsSequence, PTL

-----------------------------------------------------------------------------
(*                              The template                               *)

(* Who is least in a set is its Min. *)
LEMMA MinIs ==
    ASSUME NEW T, T \subseteq Nat, NEW n \in T, \A m \in T : n <= m
    PROVE  Min(T) = n
<1>1. Min(T) \in T /\ \A m \in T : Min(T) <= m
  BY MinOfSet
<1>2. Min(T) <= n /\ n <= Min(T) /\ Min(T) \in Nat /\ n \in Nat
  BY <1>1
<1> HIDE DEF Min
<1> QED BY <1>2

(* Two make a pair. *)
LEMMA PairSize ==
    ASSUME NEW x, NEW y, x # y
    PROVE  Cardinality({x, y}) = 2
<1> DEFINE single == {x}
           size == Cardinality(single)
<1>1. IsFiniteSet(single) /\ size = 1 /\ y \notin single
  BY FS_Singleton
<1>2. {x, y} = single \cup {y}
  OBVIOUS
<1> HIDE DEF single
<1>3. Cardinality(single \cup {y}) = size + 1
  BY <1>1, FS_AddElement, Zenon
<1> HIDE DEF size
<1> QED BY <1>1, <1>2, <1>3

(* A chapter with one pair of fences ends at the next heading behind it. *)
LEMMA FencedEnd ==
    ASSUME TemplatesFile \in Seq(Lines), NEW start \in DOMAIN TemplatesFile,
           NEW open \in DOMAIN TemplatesFile, NEW close \in DOMAIN TemplatesFile,
           NEW end \in Sections \cup {Len(TemplatesFile) + 1},
           FencedChapter(start, open, close, end)
    PROVE  FindNextSectionOutsideFence(TemplatesFile, start) = end
<1> DEFINE n == Len(TemplatesFile)
           Fences(i) == {j \in start + 1 .. i - 1 : IsFence(TemplatesFile[j])}
           ends == {i \in start + 1 .. n : TemplatesFile[i].kind = "section"
                                           /\ Cardinality(Fences(i)) % 2 = 0}
<1>1. /\ n \in Nat /\ DOMAIN TemplatesFile = 1 .. n /\ start \in 1 .. n /\ open \in 1 .. n
      /\ close \in 1 .. n /\ end \in 1 .. n + 1
      /\ end # n + 1 => end \in 1 .. n /\ TemplatesFile[end].kind = "section"
  BY DEF Sections
<1>2. /\ start < open /\ open < close /\ close < end
      /\ \A i \in start .. end - 1 : IsFence(TemplatesFile[i]) <=> i = open \/ i = close
      /\ \A i \in start + 1 .. end - 1 :
            TemplatesFile[i].kind = "section" => i \in open .. close
  BY <1>1 DEF FencedChapter
<1>3. \A i \in 1 .. n : TemplatesFile[i].kind = "section" => ~ IsFence(TemplatesFile[i])
  BY DEF IsFence
<1>4. \A i \in start + 1 .. n : i \in Nat
  BY <1>1
<1>5. ASSUME NEW i \in ends PROVE ~ (i < end)
  <2> SUFFICES ASSUME i < end PROVE FALSE
    OBVIOUS
  <2>1. /\ i \in start + 1 .. end - 1 /\ i \in 1 .. n
        /\ TemplatesFile[i].kind = "section" /\ Cardinality(Fences(i)) % 2 = 0
    BY <1>1, <1>5
  <2>2. IsFence(TemplatesFile[open]) /\ IsFence(TemplatesFile[close])
    BY <1>1, <1>2
  <2>3. i # open /\ i # close
    BY <1>3, <2>1, <2>2
  <2>4. open < i /\ i < close
    BY <1>1, <1>2, <2>1, <2>3
  <2>5. \A j \in start + 1 .. i - 1 : j \in start .. end - 1 /\ j # close
    BY <1>1, <2>1, <2>4
  <2>6. open \in start + 1 .. i - 1
    BY <1>1, <1>2, <2>1, <2>4
  <2>7. Fences(i) = {open}
    BY <1>2, <2>2, <2>5, <2>6
  <2>8. Cardinality(Fences(i)) = 1
    BY <2>7, FS_Singleton
  <2> QED BY <2>1, <2>8
<1>6. end # n + 1 => end \in ends
  <2> SUFFICES ASSUME end # n + 1 PROVE end \in ends
    OBVIOUS
  <2>1. \A j \in start + 1 .. end - 1 : j \in start .. end - 1
    BY <1>1
  <2>2. open \in start + 1 .. end - 1 /\ close \in start + 1 .. end - 1
    BY <1>1, <1>2
  <2>3. Fences(end) = {open, close}
    BY <1>2, <2>1, <2>2
  <2>4. Cardinality(Fences(end)) = 2
    <3>1. open # close
      BY <1>1, <1>2
    <3>2. Cardinality({open, close}) = 2
      BY <3>1, PairSize
    <3> HIDE DEF Fences
    <3> QED BY <2>3, <3>2
  <2>5. end \in start + 1 .. n
    BY <1>1, <1>2
  <2> QED BY <1>1, <2>4, <2>5
<1>7. FindNextSectionOutsideFence(TemplatesFile, start) = IF ends = {} THEN n + 1 ELSE Min(ends)
  BY DEF FindNextSectionOutsideFence
<1>8. ends \subseteq start + 1 .. n
  OBVIOUS
<1> HIDE DEF ends
<1>9. CASE end = n + 1
  <2>1. ends = {}
    BY <1>1, <1>5, <1>8, <1>9
  <2> QED BY <1>7, <1>9, <2>1
<1>10. CASE end # n + 1
  <2>1. \A i \in ends : end <= i
    BY <1>1, <1>4, <1>5, <1>8
  <2>2. Min(ends) = end
    BY <1>4, <1>6, <1>8, <1>10, <2>1, MinIs
  <2> QED BY <1>6, <1>7, <1>10, <2>2
<1> QED BY <1>9, <1>10

(* The fence of the chapter is taken off, and nothing else. *)
LEMMA FencedBody ==
    ASSUME NEW file \in Seq(Lines), NEW start \in Nat, NEW open \in Nat, NEW close \in Nat,
           NEW end \in Nat, 1 <= start, start < open, open < close, close < end,
           end <= Len(file) + 1,
           \A i \in start .. end - 1 : IsFence(file[i]) <=> i = open \/ i = close,
           file[open].kind = "markdown", file[close].kind = "fence"
    PROVE  UnwrapMarkdownFence(SubSeq(file, start, end - 1)) = SubSeq(file, open + 1, close - 1)
<1> DEFINE section == SubSeq(file, start, end - 1)
           opens == {i \in DOMAIN section : section[i].kind = "markdown"}
           closes == {i \in DOMAIN section : section[i].kind = "fence" /\ i > Min(opens)}
           a == open - start + 1
           b == close - start + 1
<1>1. /\ Len(file) \in Nat /\ start \in Int /\ end - 1 \in Int
      /\ \A i \in start .. end - 1 : file[i] \in Lines
  <2>1. \A i \in start .. end - 1 : i \in 1 .. Len(file)
    OBVIOUS
  <2> QED BY <2>1, ElementOfSeq
<1>2. /\ section \in Seq(Lines) /\ Len(section) = end - start
      /\ \A i \in 1 .. end - start : section[i] = file[start + i - 1]
  <2>1. /\ section \in Seq(Lines)
        /\ Len(section) = IF start <= end - 1 THEN (end - 1) - start + 1 ELSE 0
        /\ \A i \in 1 .. (end - 1) - start + 1 : section[i] = file[start + i - 1]
    BY <1>1, SubSeqProperties
  <2>2. (end - 1) - start + 1 = end - start /\ start <= end - 1
    OBVIOUS
  <2> QED BY <2>1, <2>2
<1>3. UnwrapMarkdownFence(section) =
         IF opens = {} \/ closes = {} THEN section
         ELSE SubSeq(section, Min(opens) + 1, Min(closes) - 1)
  BY DEF UnwrapMarkdownFence
<1> HIDE DEF section
<1>4. DOMAIN section = 1 .. end - start
  BY <1>2
<1>5. \A i \in 1 .. end - start : start + i - 1 \in start .. end - 1
  OBVIOUS
<1>6. /\ a \in 1 .. end - start /\ b \in 1 .. end - start /\ a < b
      /\ start + a - 1 = open /\ start + b - 1 = close
  OBVIOUS
<1>7. ASSUME NEW i \in 1 .. end - start
      PROVE  /\ section[i].kind = "markdown" <=> i = a
             /\ section[i].kind = "fence" <=> i = b
  <2>1. section[i] = file[start + i - 1] /\ start + i - 1 \in start .. end - 1
    BY <1>2, <1>5
  <2>2. (start + i - 1 = open <=> i = a) /\ (start + i - 1 = close <=> i = b)
    OBVIOUS
  <2> HIDE DEF a, b
  <2> QED BY <2>1, <2>2 DEF IsFence
<1> HIDE DEF a, b
<1>8. opens = {a}
  BY <1>4, <1>6, <1>7
<1>9. Min(opens) = a
  <2>1. opens \subseteq Nat /\ a \in opens /\ \A m \in opens : a <= m
    BY <1>6, <1>8
  <2> HIDE DEF opens
  <2> QED BY <2>1, MinIs
<1>10. closes = {b}
  BY <1>4, <1>6, <1>7, <1>9
<1>11. Min(closes) = b
  <2>1. closes \subseteq Nat /\ b \in closes /\ \A m \in closes : b <= m
    BY <1>6, <1>10
  <2> HIDE DEF closes
  <2> QED BY <2>1, MinIs
<1>12. UnwrapMarkdownFence(section) = SubSeq(section, a + 1, b - 1)
  BY <1>3, <1>8, <1>9, <1>10, <1>11
<1>13. SubSeq(section, a + 1, b - 1) = SubSeq(file, open + 1, close - 1)
  <2> DEFINE s == SubSeq(section, a + 1, b - 1)
             t == SubSeq(file, open + 1, close - 1)
             n == b - a - 1
  <2>1. a \in Nat /\ b \in Nat /\ n \in Nat /\ n = close - open - 1
    BY <1>6
  <2>2. /\ s \in Seq(Lines) /\ Len(s) = n
        /\ \A i \in 1 .. n : s[i] = section[a + i]
    <3>1. \A i \in a + 1 .. b - 1 : section[i] \in Lines
      <4>1. \A i \in a + 1 .. b - 1 : i \in 1 .. Len(section)
        BY <1>2, <1>6
      <4> QED BY <1>2, <4>1, ElementOfSeq
    <3>2. a + 1 \in Int /\ b - 1 \in Int
      BY <2>1
    <3>3. /\ s \in Seq(Lines)
          /\ Len(s) = IF a + 1 <= b - 1 THEN (b - 1) - (a + 1) + 1 ELSE 0
          /\ \A i \in 1 .. (b - 1) - (a + 1) + 1 : s[i] = section[(a + 1) + i - 1]
      BY <3>1, <3>2, SubSeqProperties
    <3>4. (b - 1) - (a + 1) + 1 = n /\ (a + 1 <= b - 1 <=> n > 0)
      BY <2>1
    <3>5. \A i \in 1 .. n : (a + 1) + i - 1 = a + i
      BY <2>1
    <3> QED BY <2>1, <3>3, <3>4, <3>5
  <2>3. /\ t \in Seq(Lines) /\ Len(t) = n
        /\ \A i \in 1 .. n : t[i] = file[open + i]
    <3>1. \A i \in open + 1 .. close - 1 : file[i] \in Lines
      <4>1. \A i \in open + 1 .. close - 1 : i \in start .. end - 1
        OBVIOUS
      <4> QED BY <1>1, <4>1
    <3>2. open + 1 \in Int /\ close - 1 \in Int
      OBVIOUS
    <3>3. /\ t \in Seq(Lines)
          /\ Len(t) = IF open + 1 <= close - 1 THEN (close - 1) - (open + 1) + 1 ELSE 0
          /\ \A i \in 1 .. (close - 1) - (open + 1) + 1 : t[i] = file[(open + 1) + i - 1]
      BY <3>1, <3>2, SubSeqProperties
    <3>4. (close - 1) - (open + 1) + 1 = n /\ (open + 1 <= close - 1 <=> n > 0)
      BY <2>1
    <3>5. \A i \in 1 .. n : (open + 1) + i - 1 = open + i
      BY <2>1
    <3> QED BY <2>1, <3>3, <3>4, <3>5
  <2>4. ASSUME NEW i \in 1 .. n PROVE s[i] = t[i]
    <3>1. a + i \in 1 .. end - start /\ start + (a + i) - 1 = open + i
      BY <1>6, <2>1
    <3>2. section[a + i] = file[open + i]
      BY <1>2, <3>1
    <3> QED BY <2>2, <2>3, <3>2
  <2> HIDE DEF s, t, n
  <2>5. s = t
    BY <2>2, <2>3, <2>4, SeqEqual
  <2> QED BY <2>5 DEF s, t
<1> QED BY <1>12, <1>13 DEF section

(* The template of a fenced chapter. *)
LEMMA FencedTemplate ==
    ASSUME NEW start \in Headings, NEW open \in FenceLines, NEW close \in FenceLines,
           NEW end \in Sections \cup {Len(TemplatesFile) + 1},
           \A i \in Headings : start <= i, FencedChapter(start, open, close, end),
           request.installed
    PROVE  LoadTemplate(request.docType, request.installed)
              = Slots(SubSeq(TemplatesFile, open + 1, close - 1))
<1> DEFINE file == TemplatesFile
<1>1. file \in Seq(Lines)
  <2>1. [kind : STRING, slot : STRING] \subseteq Lines
    BY DEF Lines, Word
  <2> QED BY <2>1, TemplatesAssumption, SeqMonotonic
<1>2. /\ Len(file) \in Nat /\ DOMAIN file = 1 .. Len(file) /\ start \in 1 .. Len(file)
      /\ open \in 1 .. Len(file) /\ close \in 1 .. Len(file) /\ end \in 1 .. Len(file) + 1
      /\ Headings \subseteq Nat
  BY <1>1 DEF Headings, Sections, FenceLines
<1>3. FindNextSectionOutsideFence(file, start) = end
  BY <1>1, <1>2, FencedEnd
<1>4. SectionOf(file, request.docType) = SubSeq(file, start, end - 1)
  <2>1. {i \in DOMAIN file : file[i].kind = "section" /\ file[i].slot = request.docType} = Headings
    BY DEF Headings, Sections
  <2>2. Min(Headings) = start
    BY <1>2, MinIs
  <2> QED BY <1>3, <2>1, <2>2 DEF SectionOf
<1>5. UnwrapMarkdownFence(SubSeq(file, start, end - 1)) = SubSeq(file, open + 1, close - 1)
  <2>1. /\ start < open /\ open < close /\ close < end
        /\ file[open].kind = "markdown" /\ file[close].kind = "fence"
        /\ \A i \in start .. end - 1 : IsFence(file[i]) <=> i = open \/ i = close
    BY <1>2 DEF FencedChapter
  <2>2. start \in Nat /\ open \in Nat /\ close \in Nat /\ end \in Nat /\ 1 <= start
        /\ end <= Len(file) + 1
    BY <1>2
  <2> QED BY <1>1, <2>1, <2>2, FencedBody
<1>6. SubSeq(file, start, end - 1) # <<>>
  <2>1. \A i \in start .. end - 1 : file[i] \in Lines
    <3>1. \A i \in start .. end - 1 : i \in 1 .. Len(file)
      BY <1>2
    <3> QED BY <1>1, <3>1, ElementOfSeq
  <2>2. start <= end - 1 /\ start \in Int /\ end - 1 \in Int
    BY <1>2 DEF FencedChapter
  <2>3. Len(SubSeq(file, start, end - 1)) = (end - 1) - start + 1
    BY <2>1, <2>2, SubSeqProperties
  <2>4. (end - 1) - start + 1 # 0
    BY <1>2, <2>2
  <2>5. Len(<<>>) = 0
    OBVIOUS
  <2> QED BY <2>3, <2>4, <2>5, Zenon
<1> QED BY <1>4, <1>5, <1>6 DEF LoadTemplate, ExtractTemplateSection

(* For any TEMPLATES.md and any type of document: a chapter whose template *)
(* has no fence of its own is used as a whole, wherever it stands and      *)
(* however many headings it has (template_engine.py:153-264).              *)
THEOREM TemplateKeptHolds == Spec => []TemplateKept
<1>1. ASSUME FetchInv, DocInv, pc = "save", request.installed,
             NEW start \in Headings, NEW open \in FenceLines, NEW close \in FenceLines,
             NEW end \in Sections \cup {Len(TemplatesFile) + 1},
             \A i \in Headings : start <= i, FencedChapter(start, open, close, end)
      PROVE  doc = FilledWith(Slots(SubSeq(TemplatesFile, open + 1, close - 1)))
  <2>1. doc = RenderOf(fetched)
    BY <1>1 DEF DocInv, Rendered
  <2>2. LoadTemplate(request.docType, request.installed)
           = Slots(SubSeq(TemplatesFile, open + 1, close - 1))
    BY <1>1, FencedTemplate
  <2> QED BY <2>1, <2>2 DEF RenderOf, Render, FilledWith
<1>2. FetchInv /\ DocInv => TemplateKept
  BY <1>1 DEF TemplateKept
<1> QED BY <1>2, DocumentIsSequence, PTL
=============================================================================
