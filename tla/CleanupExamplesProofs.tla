----------------------- MODULE CleanupExamplesProofs -----------------------
(***************************************************************************)
(* Theorems about CleanupExamples, for any files, documents, annotations   *)
(* and sequences of edits and runs.                                        *)
(***************************************************************************)
EXTENDS CleanupExamples, WellFoundedInduction, TLAPS

-----------------------------------------------------------------------------
(* Induction, as a fact about sets of numbers.                             *)

NatOrder == {p \in Nat \X Nat : p[1] < p[2]}

LEMMA NatOrderWellFounded == IsWellFoundedOn(NatOrder, Nat)
<1>1. IsWellFoundedOn(OpToRel(<, Nat), Nat)
  BY NatLessThanWellFounded
<1>2. OpToRel(<, Nat) = NatOrder
  BY DEF OpToRel, NatOrder
<1> QED  BY <1>1, <1>2

LEMMA SetInduction ==
  ASSUME NEW S \in SUBSET Nat, 0 \in S, \A n \in S : n + 1 \in S
  PROVE  S = Nat
<1> SUFFICES ASSUME Nat \ S # {} PROVE FALSE
  OBVIOUS
<1>1. PICK n \in Nat \ S : \A m \in Nat \ S : <<m, n>> \notin NatOrder
  BY NatOrderWellFounded, WFMin
<1>2. n # 0 /\ n - 1 \in Nat /\ n - 1 < n
  OBVIOUS
<1>3. <<n - 1, n>> \in NatOrder
  BY <1>2 DEF NatOrder
<1>4. n - 1 \in S
  BY <1>1, <1>2, <1>3
<1> QED  BY <1>4, <1>2

-----------------------------------------------------------------------------
(* Without(s, out): the recursive function in it is one.                   *)

(* kept is that function up to n. *)
KeptUpTo(kept, s, out, n) ==
    /\ DOMAIN kept = 0..n
    /\ kept[0] = <<>>
    /\ \A i \in 1..n :
         kept[i] = IF s[i] \in out THEN kept[i - 1] ELSE Append(kept[i - 1], s[i])

LEMMA KeptExists ==
  ASSUME NEW s, NEW out, NEW n \in Nat
  PROVE  \E kept : kept = [i \in DOMAIN kept |-> kept[i]] /\ KeptUpTo(kept, s, out, n)
<1> DEFINE S == {m \in Nat : \E kept : kept = [i \in DOMAIN kept |-> kept[i]]
                                          /\ KeptUpTo(kept, s, out, m)}
<1>1. 0 \in S
  <2>1. KeptUpTo([i \in 0..0 |-> <<>>], s, out, 0)
    BY DEF KeptUpTo
  <2> QED  BY <2>1
<1>2. ASSUME NEW m \in S PROVE m + 1 \in S
  <2>1. PICK kept : KeptUpTo(kept, s, out, m)
    OBVIOUS
  <2> DEFINE more == [i \in 0..(m + 1) |->
                        IF i \in 0..m THEN kept[i]
                        ELSE IF s[m + 1] \in out THEN kept[m]
                        ELSE Append(kept[m], s[m + 1])]
  <2>2. more[0] = <<>> /\ DOMAIN more = 0..(m + 1)
    BY <2>1 DEF KeptUpTo
  <2>3. ASSUME NEW i \in 1..(m + 1)
        PROVE  more[i] = IF s[i] \in out THEN more[i - 1] ELSE Append(more[i - 1], s[i])
    <3>1. CASE i \in 1..m
      <4>1. more[i] = kept[i] /\ more[i - 1] = kept[i - 1]
        BY <3>1
      <4> QED  BY <4>1, <3>1, <2>1 DEF KeptUpTo
    <3>2. CASE i = m + 1
      <4>1. more[i - 1] = kept[m]
        BY <3>2
      <4>2. more[i] = IF s[m + 1] \in out THEN kept[m] ELSE Append(kept[m], s[m + 1])
        BY <3>2
      <4> QED  BY <4>1, <4>2, <3>2
    <3> QED  BY <3>1, <3>2
  <2>4. KeptUpTo(more, s, out, m + 1)
    BY <2>2, <2>3 DEF KeptUpTo
  <2>5. more = [i \in DOMAIN more |-> more[i]]
    OBVIOUS
  <2> HIDE DEF more
  <2> QED  BY <2>4, <2>5
<1>3. S = Nat
  <2> HIDE DEF S
  <2>1. S \in SUBSET Nat  BY DEF S
  <2> QED  BY <1>1, <1>2, <2>1, SetInduction
<1> QED  BY <1>3

LEMMA WithoutKept ==
  ASSUME NEW s, NEW out, Len(s) \in Nat
  PROVE  \E kept : KeptUpTo(kept, s, out, Len(s)) /\ Without(s, out) = kept[Len(s)]
<1> DEFINE Step(f, i) == IF i = 0 THEN <<>>
                         ELSE IF s[i] \in out THEN f[i - 1] ELSE Append(f[i - 1], s[i])
           kept == CHOOSE f : f = [i \in 0..Len(s) |-> Step(f, i)]
<1>1. PICK g : g = [i \in DOMAIN g |-> g[i]] /\ KeptUpTo(g, s, out, Len(s))
  BY KeptExists
<1>2. g = [i \in 0..Len(s) |-> Step(g, i)]
  <2>1. DOMAIN g = 0..Len(s)
    BY <1>1 DEF KeptUpTo
  <2>2. ASSUME NEW i \in 0..Len(s) PROVE g[i] = Step(g, i)
    <3>1. i = 0 \/ (i \in 1..Len(s) /\ i # 0)
      OBVIOUS
    <3> QED  BY <3>1, <1>1, Zenon DEF KeptUpTo
  <2> QED  BY <1>1, <2>1, <2>2
<1>3. kept = [i \in 0..Len(s) |-> Step(kept, i)]
  BY <1>2, Zenon
<1>4. Without(s, out) = kept[Len(s)]
  BY DEF Without
<1>5. KeptUpTo(kept, s, out, Len(s))
  <2> HIDE DEF kept
  <2>1. \A i \in 0..Len(s) : kept[i] = Step(kept, i)
    BY <1>3, Zenon
  <2>2. ASSUME NEW i \in 1..Len(s)
        PROVE  kept[i] = IF s[i] \in out THEN kept[i - 1] ELSE Append(kept[i - 1], s[i])
    <3>1. i \in 0..Len(s) /\ i # 0
      OBVIOUS
    <3> QED  BY <2>1, <3>1, Zenon
  <2>3. 0 \in 0..Len(s)
    OBVIOUS
  <2>4. kept[0] = <<>>
    BY <2>1, <2>3, Zenon
  <2>5. DOMAIN kept = 0..Len(s)
    BY <1>3, Zenon
  <2> QED  BY <2>2, <2>4, <2>5, Zenon DEF KeptUpTo
<1> QED  BY <1>4, <1>5

Increasing(at, n) == \A k, l \in 1..n : k < l => at[k] < at[l]

(* v is what is left of the first n elements of s: the places at which its *)
(* elements are increase, and are those of no element of out.              *)
Left(v, s, out, n, at) ==
    /\ at \in [1..Len(v) -> 1..n]
    /\ Increasing(at, Len(v))
    /\ \A k \in 1..Len(v) : v[k] = s[at[k]]
    /\ \A i \in 1..n : s[i] \notin out <=> \E k \in 1..Len(v) : at[k] = i

(* One more place, behind all others. *)
OneMore(at, n, m) == [k \in 1..(n + 1) |-> IF k = n + 1 THEN m + 1 ELSE at[k]]

LEMMA OneMorePlace ==
  ASSUME NEW n \in Nat, NEW m \in Nat, NEW at \in [1..n -> 1..m], Increasing(at, n)
  PROVE  /\ OneMore(at, n, m) \in [1..(n + 1) -> 1..(m + 1)]
         /\ OneMore(at, n, m)[n + 1] = m + 1
         /\ \A k \in 1..n : OneMore(at, n, m)[k] = at[k]
         /\ Increasing(OneMore(at, n, m), n + 1)
<1> DEFINE more == OneMore(at, n, m)
<1>1. \A k \in 1..n : at[k] \in 1..m /\ k \in 1..(n + 1) /\ k # n + 1
  OBVIOUS
<1>2. \A k \in 1..(n + 1) : k = n + 1 \/ k \in 1..n
  OBVIOUS
<1>3. more[n + 1] = m + 1 /\ \A k \in 1..n : more[k] = at[k]
  BY <1>1 DEF OneMore
<1>4. more \in [1..(n + 1) -> 1..(m + 1)]
  <2>1. \A k \in 1..(n + 1) : more[k] \in 1..(m + 1)
    BY <1>1, <1>2, <1>3
  <2>2. more = [k \in 1..(n + 1) |-> more[k]]
    BY DEF OneMore
  <2> HIDE DEF more
  <2> QED  BY <2>1, <2>2
<1> HIDE DEF more
<1>5. Increasing(more, n + 1)
  <2> SUFFICES ASSUME NEW k \in 1..(n + 1), NEW l \in 1..(n + 1), k < l
               PROVE  more[k] < more[l]
    BY DEF Increasing
  <2>1. k \in 1..n
    BY <1>2
  <2>2. CASE l = n + 1
    BY <2>1, <2>2, <1>1, <1>3
  <2>3. CASE l \in 1..n
    BY <2>1, <2>3, <1>3 DEF Increasing
  <2> QED  BY <2>2, <2>3, <1>2
<1> QED  BY <1>3, <1>4, <1>5 DEF more

LEMMA LeftAfterOut ==
  ASSUME NEW s, NEW out, NEW v, NEW m \in Nat, NEW at, Len(v) \in Nat,
         Left(v, s, out, m, at), s[m + 1] \in out
  PROVE  Left(v, s, out, m + 1, at)
<1>1. \A i \in 1..(m + 1) : i = m + 1 \/ i \in 1..m
  OBVIOUS
<1>2. \A k \in 1..Len(v) : at[k] \in 1..m /\ at[k] \in 1..(m + 1) /\ at[k] # m + 1
  BY DEF Left
<1>3. at \in [1..Len(v) -> 1..(m + 1)]
  BY <1>2 DEF Left
<1> QED  BY <1>1, <1>2, <1>3 DEF Left

LEMMA LeftAfterKept ==
  ASSUME NEW T, NEW s, NEW out, NEW v \in Seq(T), NEW m \in Nat, NEW at,
         Left(v, s, out, m, at), s[m + 1] \notin out, s[m + 1] \in T
  PROVE  \E more : Left(Append(v, s[m + 1]), s, out, m + 1, more)
<1> DEFINE w == Append(v, s[m + 1])
<1>0. PICK d \in Nat : d = Len(v)
  OBVIOUS
<1>1. /\ Len(w) = d + 1 /\ w[d + 1] = s[m + 1]
      /\ \A k \in 1..d : w[k] = v[k]
  BY <1>0
<1>2. /\ at \in [1..d -> 1..m] /\ Increasing(at, d)
      /\ \A k \in 1..d : v[k] = s[at[k]]
      /\ \A i \in 1..m : s[i] \notin out <=> \E k \in 1..d : at[k] = i
  BY <1>0 DEF Left
<1> DEFINE more == OneMore(at, d, m)
<1> HIDE DEF w
<1>3. /\ more \in [1..(d + 1) -> 1..(m + 1)] /\ Increasing(more, d + 1)
      /\ more[d + 1] = m + 1 /\ \A k \in 1..d : more[k] = at[k]
  <2>1. at \in [1..d -> 1..m] /\ Increasing(at, d)
    BY <1>2
  <2> QED  BY <2>1, OneMorePlace
<1> HIDE DEF more
<1>4. \A k \in 1..(d + 1) : k = d + 1 \/ k \in 1..d
  BY <1>1
<1>5. \A k \in 1..(d + 1) : w[k] = s[more[k]]
  BY <1>1, <1>2, <1>3, <1>4
<1>6. ASSUME NEW i \in 1..(m + 1)
      PROVE  s[i] \notin out <=> \E k \in 1..(d + 1) : more[k] = i
  <2>1. CASE i = m + 1
    <3>1. d + 1 \in 1..(d + 1)
      BY <1>1
    <3> QED  BY <2>1, <3>1, <1>3
  <2>2. CASE i \in 1..m
    <3>1. s[i] \notin out <=> \E k \in 1..d : at[k] = i
      BY <2>2, <1>2
    <3>2. \A k \in 1..d : k \in 1..(d + 1)
      BY <1>1
    <3>3. more[d + 1] # i
      BY <2>2, <1>3
    <3> QED  BY <3>1, <3>2, <3>3, <1>3, <1>4
  <2>3. i = m + 1 \/ i \in 1..m
    OBVIOUS
  <2> QED  BY <2>1, <2>2, <2>3
<1>7. Left(w, s, out, m + 1, more)
  BY <1>1, <1>3, <1>5, <1>6 DEF Left
<1> QED  BY <1>7 DEF w

(* What Without leaves of a sequence. *)
LEMMA WithoutProperty ==
  ASSUME NEW T, NEW s \in Seq(T), NEW out
  PROVE  /\ Without(s, out) \in Seq(T \ out)
         /\ \E at : Left(Without(s, out), s, out, Len(s), at)
<1>0. Len(s) \in Nat
  OBVIOUS
<1>1. PICK kept : KeptUpTo(kept, s, out, Len(s)) /\ Without(s, out) = kept[Len(s)]
  BY <1>0, WithoutKept
<1> DEFINE S == {n \in Nat : n <= Len(s) =>
                    kept[n] \in Seq(T \ out) /\ \E at : Left(kept[n], s, out, n, at)}
<1>2. 0 \in S
  <2>1. kept[0] = <<>>
    BY <1>1 DEF KeptUpTo
  <2>2. kept[0] \in Seq(T \ out) /\ Len(kept[0]) = 0
    BY <2>1
  <2>3. [k \in 1..0 |-> 0] \in [1..0 -> 1..0]
    OBVIOUS
  <2>4. Left(kept[0], s, out, 0, [k \in 1..0 |-> 0])
    BY <2>2, <2>3 DEF Left, Increasing
  <2> QED  BY <2>2, <2>4
<1>3. ASSUME NEW n \in S PROVE n + 1 \in S
  <2> SUFFICES ASSUME n + 1 <= Len(s)
               PROVE  /\ kept[n + 1] \in Seq(T \ out)
                      /\ \E at : Left(kept[n + 1], s, out, n + 1, at)
    OBVIOUS
  <2>1. n \in Nat /\ n <= Len(s) /\ n + 1 \in 1..Len(s) /\ (n + 1) - 1 = n /\ s[n + 1] \in T
    BY <1>0
  <2>2. kept[n] \in Seq(T \ out)
    BY <2>1
  <2>3. PICK at : Left(kept[n], s, out, n, at)
    BY <2>1
  <2>4. CASE s[n + 1] \in out
    <3>1. kept[n + 1] = kept[n]
      BY <2>1, <2>4, <1>1 DEF KeptUpTo
    <3>2. Left(kept[n], s, out, n + 1, at)
      BY <2>1, <2>2, <2>3, <2>4, LeftAfterOut
    <3> QED  BY <2>2, <3>1, <3>2
  <2>5. CASE s[n + 1] \notin out
    <3>1. kept[n + 1] = Append(kept[n], s[n + 1])
      BY <2>1, <2>5, <1>1 DEF KeptUpTo
    <3>2. s[n + 1] \in T \ out
      BY <2>1, <2>5
    <3>3. \E more : Left(Append(kept[n], s[n + 1]), s, out, n + 1, more)
      BY <2>1, <2>2, <2>3, <2>5, <3>2, LeftAfterKept
    <3>4. Append(kept[n], s[n + 1]) \in Seq(T \ out)
      BY <2>2, <3>2
    <3> QED  BY <3>1, <3>3, <3>4
  <2> QED  BY <2>4, <2>5
<1>4. S = Nat
  <2>1. S \in SUBSET Nat  OBVIOUS
  <2> HIDE DEF S
  <2> QED  BY <2>1, <1>2, <1>3, SetInduction
<1>5. Len(s) \in S /\ Len(s) <= Len(s)
  BY <1>4, <1>0
<1> QED  BY <1>1, <1>5, Zenon

(* Nothing is lost of a sequence that has no element of out. *)
LEMMA WithoutNothing ==
  ASSUME NEW T, NEW s \in Seq(T), NEW out, T \cap out = {}
  PROVE  Without(s, out) = s
<1>0. Len(s) \in Nat /\ DOMAIN s = 1..Len(s)
  OBVIOUS
<1>1. PICK kept : KeptUpTo(kept, s, out, Len(s)) /\ Without(s, out) = kept[Len(s)]
  BY <1>0, WithoutKept
<1> DEFINE S == {n \in Nat : n <= Len(s) => kept[n] = SubSeq(s, 1, n)}
<1>2. 0 \in S
  <2>1. kept[0] = <<>> /\ SubSeq(s, 1, 0) = <<>>
    BY <1>1 DEF KeptUpTo
  <2> QED  BY <2>1
<1>3. ASSUME NEW n \in S PROVE n + 1 \in S
  <2> SUFFICES ASSUME n + 1 <= Len(s) PROVE kept[n + 1] = SubSeq(s, 1, n + 1)
    OBVIOUS
  <2>1. n + 1 \in 1..Len(s) /\ kept[n] = SubSeq(s, 1, n) /\ (n + 1) - 1 = n
    BY <1>0
  <2>2. s[n + 1] \in T
    BY <2>1, <1>0
  <2>3. kept[n + 1] = Append(SubSeq(s, 1, n), s[n + 1])
    BY <2>1, <2>2, <1>1 DEF KeptUpTo
  <2> QED  BY <2>1, <2>3, <1>0
<1>4. S = Nat
  <2>1. S \in SUBSET Nat  OBVIOUS
  <2> HIDE DEF S
  <2> QED  BY <2>1, <1>2, <1>3, SetInduction
<1>5. kept[Len(s)] = SubSeq(s, 1, Len(s))
  BY <1>4, <1>0
<1> QED  BY <1>5, <1>1, <1>0

-----------------------------------------------------------------------------
(* What is written for a file.                                             *)

LEMMA ProcessedType ==
  ASSUME NEW docs \in Contents, Decodes(docs)
  PROVE  /\ Decoded(docs) \in Seq(Manifests)
         /\ \E at : Left(Decoded(docs), docs, {Null}, Len(docs), at)
         /\ processYAML(docs) \in Seq(Manifests)
         /\ DOMAIN processYAML(docs) = DOMAIN Decoded(docs)
<1>1. docs \in Seq(Manifests \cup {Null})
  <2>1. docs \in Seq(Manifests \cup {Null, Bad})
    BY ContentsAssumption
  <2>2. \A i \in 1..Len(docs) : docs[i] \in Manifests \cup {Null}
    BY <2>1 DEF Decodes
  <2> QED  BY <2>1, <2>2
<1>2. /\ Without(docs, {Null}) \in Seq((Manifests \cup {Null}) \ {Null})
      /\ \E at : Left(Without(docs, {Null}), docs, {Null}, Len(docs), at)
  BY <1>1, WithoutProperty
<1>3. (Manifests \cup {Null}) \ {Null} = Manifests
  BY ContentsAssumption
<1>4. Decoded(docs) \in Seq(Manifests)
  BY <1>2, <1>3 DEF Decoded
<1>5. \A u \in Manifests : [filterAnnotations(u) EXCEPT !.placeholder = FALSE] \in Manifests
  BY DEF Manifests, filterAnnotations
<1>6. \A k \in 1..Len(Decoded(docs)) : Decoded(docs)[k] \in Manifests
  BY <1>4
<1>7. processYAML(docs) \in [1..Len(Decoded(docs)) -> Manifests]
  BY <1>4, <1>5, <1>6 DEF processYAML
<1>8. /\ processYAML(docs) \in Seq(Manifests)
      /\ DOMAIN processYAML(docs) = DOMAIN Decoded(docs)
  BY <1>4, <1>7
<1>9. \E at : Left(Decoded(docs), docs, {Null}, Len(docs), at)
  BY <1>2 DEF Decoded
<1> QED  BY <1>4, <1>8, <1>9

(* A manifest without what uptest needs stays as it is. *)
Clean(u) ==
    /\ u \in Manifests /\ u.strings /\ ~u.placeholder
    /\ u.annotations \subseteq Other

LEMMA FilterCleans ==
  ASSUME NEW u \in Manifests
  PROVE  /\ Clean([filterAnnotations(u) EXCEPT !.placeholder = FALSE])
         /\ Clean(u) => [filterAnnotations(u) EXCEPT !.placeholder = FALSE] = u
<1> DEFINE w == [filterAnnotations(u) EXCEPT !.placeholder = FALSE]
<1>1. /\ w \in Manifests /\ w.strings = TRUE /\ w.placeholder = FALSE
      /\ w.annotations = IF u.strings THEN u.annotations \ (Upjet \cup Uptest) ELSE {}
  BY DEF Manifests, filterAnnotations
<1>2. w.annotations \subseteq Other
  BY <1>1 DEF Manifests, Annotations
<1>3. ASSUME Clean(u) PROVE w = u
  <2>1. u.annotations \ (Upjet \cup Uptest) = u.annotations
    BY <1>3, PrefixAssumption DEF Clean
  <2>2. w.annotations = u.annotations /\ w.strings = u.strings /\ w.placeholder = u.placeholder
    BY <1>1, <1>3, <2>1 DEF Clean, Manifests
  <2> QED  BY <1>1, <2>2 DEF Manifests
<1> QED  BY <1>1, <1>2, <1>3 DEF Clean

(* An output that is clean. *)
CleanOutput(out) == out \in Seq(Manifests) /\ \A k \in DOMAIN out : Clean(out[k])

LEMMA ProcessedClean ==
  ASSUME NEW docs \in Contents, Decodes(docs)
  PROVE  CleanOutput(processYAML(docs))
<1>1. \A k \in DOMAIN Decoded(docs) : Decoded(docs)[k] \in Manifests
  BY ProcessedType
<1>2. \A k \in DOMAIN Decoded(docs) : Clean(processYAML(docs)[k])
  BY <1>1, FilterCleans DEF processYAML
<1> QED  BY <1>2, ProcessedType DEF CleanOutput

LEMMA CleanUnchanged ==
  ASSUME NEW out, CleanOutput(out)
  PROVE  processYAML(out) = out
<1>1. Manifests \cap {Null} = {}
  BY ContentsAssumption
<1>2. Decoded(out) = out
  BY <1>1, WithoutNothing DEF CleanOutput, Decoded
<1>3. \A k \in DOMAIN out : [filterAnnotations(out[k]) EXCEPT !.placeholder = FALSE] = out[k]
  BY FilterCleans DEF CleanOutput, Clean
<1>4. processYAML(out) = [k \in DOMAIN out |-> out[k]]
  BY <1>2, <1>3 DEF processYAML
<1> QED  BY <1>4 DEF CleanOutput

LEMMA ProcessedIsCleaned ==
  ASSUME NEW docs \in Contents, Decodes(docs)
  PROVE  IsCleaned(docs, processYAML(docs))
<1> DEFINE out == processYAML(docs)
<1>1. PICK at : Left(Decoded(docs), docs, {Null}, Len(docs), at)
  BY ProcessedType
<1>2. /\ DOMAIN out = 1..Len(Decoded(docs)) /\ DOMAIN docs = 1..Len(docs)
      /\ DOMAIN Decoded(docs) = 1..Len(Decoded(docs))
  BY ProcessedType, ContentsAssumption
<1>3. at \in [DOMAIN out -> DOMAIN docs]
  BY <1>1, <1>2 DEF Left
<1>4. \A k, l \in DOMAIN out : k < l => at[k] < at[l]
  BY <1>1, <1>2 DEF Left, Increasing
<1>5. \A i \in DOMAIN docs : docs[i] # Null <=> \E k \in DOMAIN out : at[k] = i
  BY <1>1, <1>2 DEF Left
<1>6. ASSUME NEW k \in DOMAIN out
      PROVE  /\ out[k].annotations \subseteq docs[at[k]].annotations
             /\ docs[at[k]].strings => docs[at[k]].annotations \cap Other = out[k].annotations
  <2>1. Decoded(docs)[k] = docs[at[k]] /\ Decoded(docs)[k] \in Manifests
    BY <1>1, <1>2, ProcessedType DEF Left
  <2> DEFINE u == Decoded(docs)[k]
  <2>2. out[k] = [filterAnnotations(u) EXCEPT !.placeholder = FALSE]
    BY <1>2 DEF processYAML
  <2>3. out[k].annotations = IF u.strings THEN u.annotations \ (Upjet \cup Uptest) ELSE {}
    BY <2>1, <2>2 DEF filterAnnotations, Manifests
  <2>4. u.annotations \subseteq Upjet \cup Uptest \cup Other
    BY <2>1 DEF Manifests, Annotations
  <2> QED  BY <2>1, <2>3, <2>4, PrefixAssumption
<1> QED  BY <1>3, <1>4, <1>5, <1>6 DEF IsCleaned

-----------------------------------------------------------------------------
(* Types, and that the walk is over files that are there.                  *)

TInv ==
    /\ TypeOK
    /\ output \in [Files -> Seq(Manifests) \cup {NoFile, Truncated}]
    /\ Walking => \A i \in DOMAIN todo : input[todo[i]] # NoFile

LEMMA TInvInit == Init => TInv
BY FilesAssumption DEF Init, TInv, TypeOK, Walking

(* The file that the walk is at. *)
LEMMA AtFile ==
  ASSUME TInv, NEW f \in Files, At(f)
  PROVE  /\ input[f] \in Contents
         /\ Tail(todo) \in Seq(Files)
         /\ \A i \in DOMAIN todo : todo[i] = f \/ \E j \in DOMAIN Tail(todo) : Tail(todo)[j] = todo[i]
         /\ \A j \in DOMAIN Tail(todo) : \E i \in DOMAIN todo : todo[i] = Tail(todo)[j]
<1>1. todo \in Seq(Files) /\ todo # <<>> /\ todo[1] = f /\ 1 \in DOMAIN todo
  BY DEF TInv, TypeOK, At
<1>2. input[f] \in Contents
  BY <1>1 DEF TInv, TypeOK, At
<1>3. /\ Tail(todo) \in Seq(Files) /\ Len(Tail(todo)) = Len(todo) - 1
      /\ \A j \in 1..(Len(todo) - 1) : Tail(todo)[j] = todo[j + 1]
  BY <1>1
<1>4. ASSUME NEW i \in DOMAIN todo, todo[i] # f
      PROVE  \E j \in DOMAIN Tail(todo) : Tail(todo)[j] = todo[i]
  <2>1. i \in 2..Len(todo)
    BY <1>1, <1>4
  <2>2. i - 1 \in 1..(Len(todo) - 1) /\ (i - 1) + 1 = i
    BY <1>1, <2>1
  <2> QED  BY <1>3, <2>2
<1>5. ASSUME NEW j \in DOMAIN Tail(todo)
      PROVE  \E i \in DOMAIN todo : todo[i] = Tail(todo)[j]
  <2>1. j + 1 \in DOMAIN todo /\ j \in 1..(Len(todo) - 1)
    BY <1>1, <1>3
  <2> QED  BY <1>3, <2>1
<1> QED  BY <1>2, <1>3, <1>4, <1>5

(* What the walk begins with: all the files that are there. *)
LEMMA StartFiles ==
  ASSUME TInv, Start
  PROVE  /\ todo' \in Seq(Files)
         /\ \A i \in DOMAIN todo' : input[todo'[i]] # NoFile
         /\ \A f \in Files : input[f] # NoFile => \E i \in DOMAIN todo' : todo'[i] = f
<1> DEFINE Absent == {f \in Files : input[f] = NoFile}
<1>1. todo' = Without(Order, Absent)
  BY DEF Start
<1>2. Order \in Seq(Files)
  BY FilesAssumption
<1>3. PICK at : todo' \in Seq(Files \ Absent) /\ Left(todo', Order, Absent, Len(Order), at)
  <2> HIDE DEF Absent
  <2> QED  BY <1>1, <1>2, WithoutProperty
<1>4. DOMAIN todo' = 1..Len(todo')
  BY <1>3
<1>5. \A i \in DOMAIN todo' : todo'[i] \in Files \ Absent
  BY <1>3
<1>6. ASSUME NEW f \in Files, input[f] # NoFile
      PROVE  \E i \in DOMAIN todo' : todo'[i] = f
  <2>1. PICK n \in 1..Len(Order) : Order[n] = f
    BY <1>2 DEF Files
  <2>2. Order[n] \notin Absent
    BY <2>1, <1>6
  <2>3. PICK i \in 1..Len(todo') : at[i] = n
    BY <2>2, <1>3 DEF Left
  <2>4. todo'[i] = Order[n]
    BY <2>3, <1>3 DEF Left
  <2> QED  BY <2>1, <2>3, <2>4, <1>4
<1> QED  BY <1>3, <1>5, <1>6

LEMMA TInvNext == TInv /\ [Next]_vars => TInv'
<1> SUFFICES ASSUME TInv, [Next]_vars PROVE TInv'  OBVIOUS
<1>1. CASE Start
  <2>1. UNCHANGED <<input, output>> /\ status' = "walk"
    BY <1>1 DEF Start
  <2> QED  BY <1>1, <2>1, StartFiles DEF TInv, TypeOK, Walking
<1>2. CASE Finish
  BY <1>2 DEF Finish, TInv, TypeOK, Walking
<1>3. ASSUME NEW f \in Files, PassOver(f) PROVE TInv'
  <2>1. At(f) /\ todo' = Tail(todo) /\ UNCHANGED <<input, output, status>>
    BY <1>3 DEF PassOver
  <2>2. \A i \in DOMAIN todo' : Walking => input[todo'[i]] # NoFile
    BY <2>1, AtFile DEF TInv
  <2> QED  BY <2>1, <2>2, AtFile DEF TInv, TypeOK, Walking
<1>4. ASSUME NEW f \in Files, ProcessFile(f) PROVE TInv'
  <2>1. /\ At(f) /\ todo' = Tail(todo) /\ UNCHANGED <<input, status>>
        /\ output' = [output EXCEPT ![f] = processYAML(input[f])]
    BY <1>4 DEF ProcessFile
  <2>2. processYAML(input[f]) \in Seq(Manifests) /\ f \in Yaml
    BY <2>1, <1>4, AtFile, ProcessedType DEF ProcessFile, IsYaml
  <2>3. output' \in [Files -> Seq(Manifests) \cup {NoFile, Truncated}]
    BY <2>1, <2>2 DEF TInv
  <2>4. \A g \in Files : g \notin Yaml => output'[g] = NoFile
    BY <2>1, <2>2 DEF TInv, TypeOK
  <2>5. \A i \in DOMAIN todo' : Walking => input[todo'[i]] # NoFile
    BY <2>1, AtFile DEF TInv
  <2> QED  BY <2>1, <2>3, <2>4, <2>5, AtFile DEF TInv, TypeOK, Walking
<1>5. ASSUME NEW f \in Files, ProcessFails(f) PROVE TInv'
  BY <1>5 DEF ProcessFails, TInv, TypeOK, Walking
<1>6. ASSUME NEW f \in Files, WriteFails(f) PROVE TInv'
  BY <1>6 DEF WriteFails, IsYaml, TInv, TypeOK, Walking
<1>7. ASSUME NEW f \in Files, Edit(f) PROVE TInv'
  BY <1>7 DEF Edit, TInv, TypeOK, Walking
<1>8. CASE UNCHANGED vars
  BY <1>8 DEF vars, TInv, TypeOK, Walking
<1> QED  BY <1>1, <1>2, <1>3, <1>4, <1>5, <1>6, <1>7, <1>8 DEF Next

(***************************************************************************)
(* Type correctness: only YAML files are ever written, and what is written *)
(* is whole manifests, or nothing that can be read (65-104, 135-158).      *)
(***************************************************************************)
THEOREM TypeCorrect == Spec => []TypeOK
<1>1. TInv => TypeOK
  BY DEF TInv
<1> QED  BY <1>1, TInvInit, TInvNext, PTL DEF Spec

-----------------------------------------------------------------------------
(* A YAML file that is not in the rest of the walk has its output.         *)

IsDone(f) == output[f] \notin {NoFile, Truncated} /\ IsCleaned(input[f], output[f])

PInv ==
    /\ Walking => \A f \in Yaml : input[f] # NoFile =>
                      IsDone(f) \/ \E i \in DOMAIN todo : todo[i] = f
    /\ AllProcessed

LEMMA PInvNext == TInv /\ PInv /\ [Next]_vars => PInv'
<1> SUFFICES ASSUME TInv, PInv, [Next]_vars PROVE PInv'  OBVIOUS
<1>1. CASE Start
  <2>1. status' = "walk" /\ UNCHANGED <<input, output>>
    BY <1>1 DEF Start
  <2> QED  BY <1>1, <2>1, StartFiles, FilesAssumption DEF PInv, AllProcessed, Walking
<1>2. CASE Finish
  <2>1. /\ Walking /\ todo = <<>> /\ status' = "ok" /\ UNCHANGED <<input, output>>
    BY <1>2 DEF Finish
  <2>2. \A f \in Yaml : input[f] # NoFile => IsDone(f)
    BY <2>1 DEF PInv
  <2> QED  BY <2>1, <2>2 DEF PInv, AllProcessed, IsDone, Walking
<1>3. ASSUME NEW f \in Files, PassOver(f) PROVE PInv'
  <2>1. /\ At(f) /\ f \notin Yaml /\ todo' = Tail(todo) /\ Walking
        /\ UNCHANGED <<input, output, status>>
    BY <1>3 DEF PassOver, IsYaml, At
  <2>2. \A g \in Yaml : input[g] # NoFile =>
           IsDone(g) \/ \E i \in DOMAIN todo' : todo'[i] = g
    BY <2>1, AtFile DEF PInv
  <2> QED  BY <2>1, <2>2 DEF PInv, AllProcessed, IsDone, Walking
<1>4. ASSUME NEW f \in Files, ProcessFile(f) PROVE PInv'
  <2>1. /\ At(f) /\ f \in Yaml /\ todo' = Tail(todo) /\ Walking
        /\ Decodes(input[f]) /\ input[f] \in Contents
        /\ output' = [output EXCEPT ![f] = processYAML(input[f])]
        /\ UNCHANGED <<input, status>>
    BY <1>4, AtFile DEF ProcessFile, IsYaml, At
  <2>2. output'[f] = processYAML(input[f]) /\ \A g \in Files \ {f} : output'[g] = output[g]
    BY <2>1 DEF TInv
  <2>3. output'[f] \notin {NoFile, Truncated} /\ IsCleaned(input[f], output'[f])
    BY <2>1, <2>2, ProcessedType, ProcessedIsCleaned, FilesAssumption
  <2>4. \A g \in Yaml : input[g] # NoFile =>
           \/ output'[g] \notin {NoFile, Truncated} /\ IsCleaned(input[g], output'[g])
           \/ \E i \in DOMAIN todo' : todo'[i] = g
    BY <2>1, <2>2, <2>3, AtFile, FilesAssumption DEF PInv, IsDone
  <2> QED  BY <2>1, <2>4 DEF PInv, AllProcessed, IsDone, Walking
<1>5. ASSUME NEW f \in Files, ProcessFails(f) \/ WriteFails(f) \/ Edit(f) PROVE PInv'
  BY <1>5 DEF ProcessFails, WriteFails, Edit, PInv, AllProcessed, Walking
<1>6. CASE UNCHANGED vars
  BY <1>6 DEF vars, PInv, AllProcessed, IsDone, Walking
<1> QED  BY <1>1, <1>2, <1>3, <1>4, <1>5, <1>6 DEF Next

(***************************************************************************)
(* A run that comes to its end has written every YAML file of its input,   *)
(* with all of its manifests in order and their other annotations, however *)
(* many files, documents and earlier runs there are (65-174).              *)
(***************************************************************************)
THEOREM Processed == Spec => []AllProcessed
<1>1. Init => TInv /\ PInv
  BY TInvInit DEF Init, PInv, AllProcessed, Walking
<1>2. TInv /\ PInv /\ [Next]_vars => (TInv /\ PInv)'
  BY TInvNext, PInvNext
<1>3. PInv => AllProcessed
  BY DEF PInv
<1> QED  BY <1>1, <1>2, <1>3, PTL DEF Spec

-----------------------------------------------------------------------------
(* Outputs are clean, since what is written is.                            *)

CInv == \A f \in Files : output[f] \notin {NoFile, Truncated} => CleanOutput(output[f])

LEMMA CInvNext == TInv /\ CInv /\ [Next]_vars => CInv'
<1> SUFFICES ASSUME TInv, CInv, [Next]_vars PROVE CInv'  OBVIOUS
<1>1. ASSUME NEW f \in Files, ProcessFile(f) PROVE CInv'
  <2>1. CleanOutput(processYAML(input[f]))
    BY <1>1, AtFile, ProcessedClean DEF ProcessFile
  <2> QED  BY <1>1, <2>1 DEF ProcessFile, CInv, TInv
<1>2. ASSUME NEW f \in Files, WriteFails(f) PROVE CInv'
  BY <1>2 DEF WriteFails, CInv, TInv
<1>3. CASE Start \/ Finish \/ UNCHANGED vars
  BY <1>3 DEF Start, Finish, vars, CInv
<1>4. ASSUME NEW f \in Files, PassOver(f) \/ ProcessFails(f) \/ Edit(f) PROVE CInv'
  BY <1>4 DEF PassOver, ProcessFails, Edit, CInv
<1> QED  BY <1>1, <1>2, <1>3, <1>4 DEF Next

(***************************************************************************)
(* No output, of this run or of one that failed, has anything in it that   *)
(* uptest needs, and the command changes nothing in its own output         *)
(* (34-104).                                                               *)
(***************************************************************************)
THEOREM CleanOutputs == Spec => []OutputsAreClean
<1>1. Init => TInv /\ CInv
  BY TInvInit DEF Init, CInv
<1>2. TInv /\ CInv /\ [Next]_vars => (TInv /\ CInv)'
  BY TInvNext, CInvNext
<1>3. CInv => OutputsAreClean
  BY CleanUnchanged DEF CInv, OutputsAreClean, CleanOutput, Clean
<1> QED  BY <1>1, <1>2, <1>3, PTL DEF Spec
=============================================================================
