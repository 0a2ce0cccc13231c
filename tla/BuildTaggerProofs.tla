-------------------------- MODULE BuildTaggerProofs --------------------------
(***************************************************************************)
(* Proofs about BuildTagger for any files, tags, contents and flags, and   *)
(* any sequence of complete and interrupted runs.                          *)
(***************************************************************************)
EXTENDS BuildTagger, SequenceTheorems, TLAPS

Rest(c, k) == SubSeq(c, k, Len(c))

LEMMA RestProperties ==
  ASSUME NEW c \in Seq(Lines), NEW k \in 1..3, k <= Len(c) + 1
  PROVE  /\ Rest(c, k) \in Seq(Lines)
         /\ Len(Rest(c, k)) = Len(c) - k + 1
         /\ \A i \in 1..Len(c) - k + 1 : Rest(c, k)[i] = c[k + i - 1]
<1>1. Len(c) \in Nat /\ \A i \in k..Len(c) : c[i] \in Lines
  BY ElementOfSeq, LenProperties
<1> QED
  BY <1>1, SubSeqProperties DEF Rest

(* Below a tag and an empty line is the source of a file. *)
LEMMA TaggedRest ==
  ASSUME NEW r \in Seq(Lines), NEW t \in Tags, NEW u, u = <<t, Blank>> \o r
  PROVE  u \in Contents /\ u[1] = t /\ EmptyLineFollows(u) /\ Source(u) = Saved(r)
<1>1. <<t, Blank>> \in Seq(Lines) /\ Len(<<t, Blank>>) = 2
  BY DEF Lines
<1>2. /\ u \in Seq(Lines) /\ Len(u) = Len(r) + 2
      /\ \A i \in 1..Len(r) + 2 : u[i] = IF i <= 2 THEN <<t, Blank>>[i] ELSE r[i - 2]
  BY <1>1, ConcatProperties
<1>3. Len(r) \in Nat
  BY LenProperties
<1>4. u[1] = t /\ u[2] = Blank /\ u # <<>>
  BY <1>2, <1>3
<1>5. Rest(u, 3) = r
  <2>1. /\ Rest(u, 3) \in Seq(Lines) /\ Len(Rest(u, 3)) = Len(u) - 3 + 1
        /\ \A i \in 1..Len(u) - 3 + 1 : Rest(u, 3)[i] = u[3 + i - 1]
    <3>1. u \in Seq(Lines) /\ 3 \in 1..3 /\ 3 <= Len(u) + 1
      BY <1>2, <1>3
    <3> QED
      BY <3>1, RestProperties
  <2>2. ASSUME NEW i \in 1..Len(r) PROVE Rest(u, 3)[i] = r[i]
    <3>1. /\ i \in 1..Len(u) - 3 + 1 /\ 3 + i - 1 = i + 2
          /\ i + 2 \in 1..Len(r) + 2 /\ ~(i + 2 <= 2) /\ i + 2 - 2 = i
      BY <1>2, <1>3
    <3>2. Rest(u, 3)[i] = u[i + 2]
      BY <2>1, <3>1
    <3>3. u[i + 2] = r[i + 2 - 2]
      BY <1>2, <3>1
    <3> QED
      BY <3>1, <3>2, <3>3
  <2>3. Len(Rest(u, 3)) = Len(r)
    BY <1>2, <1>3, <2>1
  <2> QED
    BY <2>1, <2>2, <2>3, SeqEqual
<1>6. TagExists(u) /\ EmptyLineFollows(u)
  BY <1>2, <1>3, <1>4 DEF TagExists, EmptyLineFollows
<1>7. Source(u) = Saved(r)
  BY <1>5, <1>6 DEF Source, Rest
<1> QED
  BY <1>2, <1>4, <1>6, <1>7 DEF Contents

LEMMA SourceType ==
  ASSUME NEW c \in Contents
  PROVE  Source(c) \in Contents
<1>1. c \in Seq(Lines) /\ c # <<>> /\ Len(c) \in Nat \ {0}
  BY EmptySeq DEF Contents
<1>2. ASSUME NEW s \in Seq(Lines) PROVE Saved(s) \in Contents
  BY <1>2 DEF Saved, Contents, Lines
<1>3. EmptyLineFollows(c) => 3 <= Len(c) + 1
  BY <1>1 DEF EmptyLineFollows
<1>4. Rest(c, 2) \in Seq(Lines) /\ (EmptyLineFollows(c) => Rest(c, 3) \in Seq(Lines))
  BY <1>1, <1>3, RestProperties
<1> QED
  BY <1>1, <1>2, <1>4 DEF Source, Rest

(***************************************************************************)
(* What one call of updateFileWithBuildTag makes of a file: the same       *)
(* source, under the tag and an empty line, or without.                    *)
(***************************************************************************)
LEMMA UpdatedProperties ==
  ASSUME NEW c \in Contents, ~TagExists(Source(c)), NEW t \in Tags,
         NEW u, u = Updated(c, t), delete \in BOOLEAN
  PROVE  /\ u \in Contents
         /\ Source(u) = Source(c)
         /\ delete => ~TagExists(u)
         /\ ~delete => u[1] = t /\ EmptyLineFollows(u)
<1>1. c \in Seq(Lines) /\ c # <<>> /\ Len(c) \in Nat \ {0}
  BY EmptySeq DEF Contents
<1>2. Rest(c, 1) = c
  BY <1>1, SubSeqFull DEF Rest
<1>3. Rest(c, 2) \in Seq(Lines)
  BY <1>1, RestProperties
<1>4. EmptyLineFollows(c) => Rest(c, 3) \in Seq(Lines) /\ Len(c) > 1
  BY <1>1, RestProperties DEF EmptyLineFollows
<1>5. CASE delete
  <2>1. u = Source(c)
    <3>1. ASSUME NEW k \in 1..3, k = Dropped(c) + 1, Rest(c, k) \in Seq(Lines)
          PROVE  u = Saved(Rest(c, k))
      BY <1>5, <3>1, ConcatEmptySeq DEF Updated, Rest
    <3>2. CASE ~TagExists(c)
      <4>1. Dropped(c) + 1 = 1
        BY <3>2 DEF Dropped
      <4> QED
        BY <1>1, <1>2, <3>1, <3>2, <4>1 DEF Source, Saved
    <3>3. CASE TagExists(c) /\ EmptyLineFollows(c)
      <4>1. Dropped(c) + 1 = 3
        BY <1>5, <3>3 DEF Dropped
      <4> QED
        BY <1>4, <3>1, <3>3, <4>1 DEF Source, Rest
    <3>4. CASE TagExists(c) /\ ~EmptyLineFollows(c)
      <4>1. Dropped(c) + 1 = 2
        BY <3>4 DEF Dropped
      <4> QED
        BY <1>3, <3>1, <3>4, <4>1 DEF Source, Rest
    <3> QED
      BY <3>2, <3>3, <3>4
  <2>2. ~TagExists(u) /\ Source(u) = u /\ u \in Contents
    BY <2>1, SourceType DEF Source
  <2> QED
    BY <1>5, <2>1, <2>2
<1>6. CASE ~delete
  <2>1. PICK r \in Seq(Lines) : u = <<t, Blank>> \o r /\ Saved(r) = Source(c)
    <3>1. ASSUME NEW s \in {<<t>>, <<t, Blank>>}, NEW r \in Seq(Lines)
          PROVE  Saved(s \o r) = s \o r
      <4>1. s \in Seq(Lines) /\ s # <<>>
        <5>1. CASE s = <<t>>
          BY <5>1 DEF Lines
        <5>2. CASE s = <<t, Blank>>
          BY <5>2 DEF Lines
        <5> QED
          BY <5>1, <5>2
      <4> QED
        BY <4>1, ConcatEqualIffEmpty DEF Saved
    <3>2. CASE ~TagExists(c)
      <4>1. Dropped(c) + 1 = 1 /\ Added(c, t) = <<t, Blank>>
        BY <3>2 DEF Dropped, Added
      <4>2. u = <<t, Blank>> \o c
        BY <1>1, <1>2, <1>6, <3>1, <4>1 DEF Updated, Rest
      <4> QED
        BY <1>1, <3>2, <4>2 DEF Source, Saved
    <3>3. CASE TagExists(c) /\ ~EmptyLineFollows(c)
      <4>1. Dropped(c) + 1 = 2 /\ Added(c, t) = <<t, Blank>>
        BY <3>3 DEF Dropped, Added
      <4>2. u = <<t, Blank>> \o Rest(c, 2)
        BY <1>3, <1>6, <3>1, <4>1 DEF Updated, Rest
      <4> QED
        BY <1>3, <3>3, <4>2 DEF Source, Rest
    <3>4. CASE TagExists(c) /\ EmptyLineFollows(c)
      <4>1. Dropped(c) + 1 = 2 /\ Added(c, t) = <<t>>
        BY <1>6, <3>4 DEF Dropped, Added
      <4>2. u = <<t>> \o Rest(c, 2)
        BY <1>3, <1>6, <3>1, <4>1 DEF Updated, Rest
      <4>3. <<t>> \o Rest(c, 2) = <<t, Blank>> \o Rest(c, 3)
        <5> DEFINE a == <<t>> \o Rest(c, 2)
                   b == <<t, Blank>> \o Rest(c, 3)
        <5>1. /\ <<t>> \in Seq(Lines) /\ Len(<<t>>) = 1 /\ <<t>>[1] = t
              /\ <<t, Blank>> \in Seq(Lines) /\ Len(<<t, Blank>>) = 2
              /\ <<t, Blank>>[1] = t /\ <<t, Blank>>[2] = Blank
          BY DEF Lines
        <5>2. /\ Len(Rest(c, 2)) = Len(c) - 1
              /\ \A i \in 1..Len(c) - 1 : Rest(c, 2)[i] = c[i + 1]
              /\ Len(Rest(c, 3)) = Len(c) - 2
              /\ \A i \in 1..Len(c) - 2 : Rest(c, 3)[i] = c[i + 2]
          <6>1. /\ Len(Rest(c, 2)) = Len(c) - 2 + 1
                /\ \A i \in 1..Len(c) - 2 + 1 : Rest(c, 2)[i] = c[2 + i - 1]
            BY <1>1, RestProperties
          <6>2. /\ Len(Rest(c, 3)) = Len(c) - 3 + 1
                /\ \A i \in 1..Len(c) - 3 + 1 : Rest(c, 3)[i] = c[3 + i - 1]
            BY <1>1, <1>4, <3>4, RestProperties
          <6> QED
            BY <1>1, <6>1, <6>2
        <5>3. /\ a \in Seq(Lines) /\ Len(a) = Len(c)
              /\ \A i \in 1..Len(c) : a[i] = IF i <= 1 THEN t ELSE c[i]
          <6>1. /\ a \in Seq(Lines) /\ Len(a) = 1 + (Len(c) - 1)
                /\ \A i \in 1..1 + (Len(c) - 1) :
                     a[i] = IF i <= 1 THEN <<t>>[i] ELSE Rest(c, 2)[i - 1]
            BY <1>3, <5>1, <5>2, ConcatProperties
          <6> QED
            BY <1>1, <5>1, <5>2, <6>1
        <5>4. /\ b \in Seq(Lines) /\ Len(b) = Len(c)
              /\ \A i \in 1..Len(c) : b[i] = IF i <= 2 THEN <<t, Blank>>[i] ELSE c[i]
          <6>1. /\ b \in Seq(Lines) /\ Len(b) = 2 + (Len(c) - 2)
                /\ \A i \in 1..2 + (Len(c) - 2) :
                     b[i] = IF i <= 2 THEN <<t, Blank>>[i] ELSE Rest(c, 3)[i - 2]
            BY <1>4, <3>4, <5>1, <5>2, ConcatProperties
          <6> QED
            BY <1>1, <1>4, <3>4, <5>2, <6>1
        <5>5. c[2] = Blank
          BY <3>4 DEF EmptyLineFollows
        <5> HIDE DEF a, b
        <5>6. \A i \in 1..Len(c) : a[i] = b[i]
          BY <1>1, <5>1, <5>3, <5>4, <5>5
        <5>7. a = b
          BY <5>3, <5>4, <5>6, SeqEqual
        <5> QED
          BY <5>7 DEF a, b
      <4> QED
        BY <1>4, <3>4, <4>2, <4>3 DEF Source, Rest
    <3> QED
      BY <3>2, <3>3, <3>4
  <2> QED
    BY <1>6, <2>1, TaggedRest
<1> QED
  BY <1>5, <1>6

-----------------------------------------------------------------------------
(***************************************************************************)
(* What is left of a file when a run stops: no second tag, and of its      *)
(* source the first lines.                                                 *)
(***************************************************************************)
LEMMA PartialProperties ==
  ASSUME NEW p \in Contents, ~TagExists(Source(p)), NEW c \in Partial(p)
  PROVE  /\ c \in Contents
         /\ ~TagExists(Source(c))
         /\ Tagged!Beginning(Source(c), Source(p))
<1> USE LinesAssumption
<1>1. PICK n \in 1..Len(p), l \in Lines :
        /\ c = [i \in 1..n |-> IF i = n THEN l ELSE p[i]]
        /\ c[Len(c)] \in CutLine(p[Len(c)])
  BY DEF Partial, Prefixes
<1>2. p \in Seq(Lines) /\ Len(p) \in Nat \ {0} /\ \A i \in 1..Len(p) : p[i] \in Lines
  BY EmptySeq, ElementOfSeq DEF Contents
<1>3. /\ c \in Seq(Lines) /\ Len(c) = n /\ n \in Nat \ {0} /\ c[n] = l
      /\ \A i \in 1..(n - 1) : c[i] = p[i]
  <2>1. \A i \in 1..n : (IF i = n THEN l ELSE p[i]) \in Lines
    BY <1>1, <1>2
  <2> QED
    BY <1>1, <1>2, <2>1
<1>4. c \in Contents
  BY <1>3 DEF Contents
<1>5. l \in CutLine(p[n])
  BY <1>1, <1>3
<1>6. /\ p[n] \notin Tags => l \notin Tags
      /\ p[n] = Blank => l = Blank
  BY <1>5 DEF CutLine
<1>7. CASE ~TagExists(p)
  <2>1. c[1] \notin Tags
    BY <1>3, <1>6, <1>7 DEF TagExists
  <2> QED
    BY <1>2, <1>3, <1>4, <1>7, <2>1 DEF Source, TagExists, Tagged!Beginning
<1>8. CASE TagExists(p)
  <2>0. Source(p) \in Contents /\ Len(Source(p)) \in Nat \ {0} /\ Source(p)[1] \notin Tags
    BY SourceType, EmptySeq DEF Contents, TagExists
  <2>1. /\ <<Blank>>[1] \notin Tags /\ <<l>>[1] = l
        /\ Tagged!Beginning(<<Blank>>, Source(p)) /\ Tagged!Beginning(<<l>>, Source(p))
    BY <2>0 DEF Tagged!Beginning
  <2>2. ASSUME NEW k \in 1..3, k <= n, Source(p) = Saved(Rest(p, k)), Source(c) = Saved(Rest(c, k))
        PROVE  ~TagExists(Source(c)) /\ Tagged!Beginning(Source(c), Source(p))
    <3>1. /\ Rest(p, k) \in Seq(Lines) /\ Len(Rest(p, k)) = Len(p) - k + 1
          /\ \A i \in 1..Len(p) - k + 1 : Rest(p, k)[i] = p[k + i - 1]
      <4>1. k <= Len(p) + 1
        BY <1>1, <1>2, <2>2
      <4> QED
        BY <1>2, <4>1, RestProperties
    <3>2. /\ Rest(c, k) \in Seq(Lines) /\ Len(Rest(c, k)) = n - k + 1
          /\ \A i \in 1..n - k + 1 : Rest(c, k)[i] = c[k + i - 1]
      <4>1. k <= Len(c) + 1
        BY <1>3, <2>2
      <4> QED
        BY <1>3, <4>1, RestProperties
    <3>3. Source(p) = Rest(p, k) /\ Source(c) = Rest(c, k)
      BY <1>2, <1>3, <2>2, <3>1, <3>2, EmptySeq DEF Saved
    <3>4. p[k] \notin Tags
      <4>1. 1 \in 1..Len(p) - k + 1 /\ k + 1 - 1 = k
        BY <1>1, <1>2, <2>2
      <4> QED
        BY <2>0, <3>1, <3>3, <4>1
    <3>5. Rest(c, k)[1] = c[k] /\ c[k] \notin Tags
      <4>1. 1 \in 1..n - k + 1 /\ k + 1 - 1 = k
        BY <1>3, <2>2
      <4>2. Rest(c, k)[1] = c[k]
        BY <3>2, <4>1
      <4>3. CASE k = n
        BY <1>3, <1>6, <3>4, <4>2, <4>3
      <4>4. CASE k # n
        BY <1>3, <2>2, <3>4, <4>2, <4>4
      <4> QED
        BY <4>3, <4>4
    <3>6. ASSUME NEW i \in 1..(n - k + 1 - 1) PROVE Rest(c, k)[i] = Rest(p, k)[i]
      <4>1. /\ i \in 1..n - k + 1 /\ i \in 1..Len(p) - k + 1 /\ k + i - 1 \in 1..(n - 1)
        BY <1>1, <1>2, <1>3, <2>2
      <4> QED
        BY <1>3, <3>1, <3>2, <4>1
    <3>7. n - k + 1 <= Len(p) - k + 1
      BY <1>1, <1>2, <1>3
    <3> QED
      BY <3>1, <3>2, <3>3, <3>5, <3>6, <3>7 DEF TagExists, Tagged!Beginning
  <2>3. CASE n = 1
    <3>1. CASE l \in Tags
      <4>1. Source(c) = Saved(Rest(c, 2)) /\ Rest(c, 2) = <<>>
        <5>1. Len(c) = 1 /\ TagExists(c) /\ ~EmptyLineFollows(c)
          BY <1>3, <2>3, <3>1 DEF TagExists, EmptyLineFollows
        <5>2. Rest(c, 2) \in Seq(Lines) /\ Len(Rest(c, 2)) = 0
          <6>1. 2 \in 1..3 /\ 2 <= Len(c) + 1 /\ Len(c) - 2 + 1 = 0
            BY <1>3, <2>3
          <6> QED
            BY <1>3, <6>1, RestProperties
        <5> QED
          BY <5>1, <5>2, EmptySeq DEF Source, Rest
      <4>2. Source(c) = <<Blank>>
        BY <4>1 DEF Saved
      <4> QED
        BY <1>4, <2>1, <4>2 DEF TagExists
    <3>2. CASE l \notin Tags
      <4>1. Source(c) = c /\ c = <<l>>
        BY <1>3, <2>3, <3>2 DEF Source, TagExists
      <4> QED
        BY <1>4, <2>1, <3>2, <4>1 DEF TagExists
    <3> QED
      BY <1>4, <3>1, <3>2
  <2>4. CASE n > 1
    <3>1. TagExists(c) /\ Len(p) > 1
      BY <1>1, <1>2, <1>3, <1>8, <2>4 DEF TagExists
    <3>2. CASE EmptyLineFollows(c) /\ n = 2
      <4>1. Rest(c, 3) \in Seq(Lines) /\ Len(Rest(c, 3)) = 0
        <5>1. 3 \in 1..3 /\ 3 <= Len(c) + 1 /\ Len(c) - 3 + 1 = 0
          BY <1>3, <3>2
        <5> QED
          BY <1>3, <5>1, RestProperties
      <4>2. Source(c) = <<Blank>>
        BY <3>1, <3>2, <4>1, EmptySeq DEF Source, Rest, Saved
      <4> QED
        BY <1>4, <2>1, <4>2 DEF TagExists
    <3>3. CASE EmptyLineFollows(c) /\ n > 2
      <4>1. EmptyLineFollows(p)
        BY <1>1, <1>2, <1>3, <3>1, <3>3 DEF EmptyLineFollows
      <4>2. Source(p) = Saved(Rest(p, 3)) /\ Source(c) = Saved(Rest(c, 3))
        BY <1>8, <3>1, <3>3, <4>1 DEF Source, Rest
      <4> QED
        BY <1>3, <1>4, <2>2, <3>3, <4>2
    <3>4. CASE ~EmptyLineFollows(c)
      <4>1. ~EmptyLineFollows(p)
        <5>1. c[2] # Blank
          BY <1>3, <2>4, <3>4 DEF EmptyLineFollows
        <5>2. CASE n = 2
          BY <1>3, <1>6, <5>1, <5>2 DEF EmptyLineFollows
        <5>3. CASE n > 2
          BY <1>3, <5>1, <5>3 DEF EmptyLineFollows
        <5> QED
          BY <1>3, <2>4, <5>2, <5>3
      <4>2. Source(p) = Saved(Rest(p, 2)) /\ Source(c) = Saved(Rest(c, 2))
        BY <1>8, <3>1, <3>4, <4>1 DEF Source, Rest
      <4> QED
        BY <1>3, <1>4, <2>2, <2>4, <4>2
    <3> QED
      BY <1>3, <2>4, <3>2, <3>3, <3>4
  <2> QED
    BY <1>3, <2>3, <2>4
<1> QED
  BY <1>7, <1>8

-----------------------------------------------------------------------------
(* While a file is truncated, what is to be written has one tag at most.   *)
OneTag ==
    current # NoFile =>
         content[current] = <<Blank>> /\ ~TagExists(Source(pending))

BInv == TypeOK /\ OneTag

LEMMA BlankFile ==
  /\ <<Blank>> \in Contents
  /\ ~TagExists(<<Blank>>) /\ Source(<<Blank>>) = <<Blank>>
<1>1. <<Blank>> \in Contents
  BY DEF Contents, Lines
<1> QED
  BY <1>1, LinesAssumption DEF TagExists, Source

LEMMA BInvInit == Init => BInv
BY InitialAssumption, LinesAssumption DEF Init, BInv, TypeOK, OneTag, Walking

LEMMA BInvNext == BInv /\ [Next]_vars => BInv'
<1> SUFFICES ASSUME BInv, [Next]_vars PROVE BInv'
  OBVIOUS
<1> USE LinesAssumption DEF BInv, TypeOK, OneTag, Walking
<1>1. CASE Start
  BY <1>1 DEF Start
<1>2. ASSUME NEW f \in Files, Truncate(f) PROVE BInv'
  <2>1. /\ current' = f /\ f \in todo /\ f # NoFile
        /\ pending' = Updated(content[f], tagFor[f])
        /\ content' = [content EXCEPT ![f] = <<Blank>>]
        /\ UNCHANGED <<status, flags, todo>> /\ status = "walk"
    BY <1>2 DEF Truncate
  <2>2. content[f] \in Contents /\ ~TagExists(Source(content[f])) /\ tagFor[f] \in Tags
    BY <2>1
  <2>3. pending' \in Contents /\ ~TagExists(Source(pending'))
    <3>1. pending' \in Contents /\ Source(pending') = Source(content[f])
      BY <2>1, <2>2, UpdatedProperties
    <3> QED
      BY <2>2, <3>1
  <2>4. /\ content' \in [Files -> Contents]
        /\ content'[f] = <<Blank>>
        /\ \A g \in Files : ~TagExists(Source(content'[g]))
    BY <2>1, BlankFile
  <2> QED
    BY <2>1, <2>3, <2>4 DEF flags
<1>3. CASE Write
  BY <1>3 DEF Write, flags
<1>4. CASE Finish
  BY <1>4 DEF Finish, flags
<1>5. CASE Stop
  <2>1. content' \in [Files -> Contents] /\ \A f \in Files : ~TagExists(Source(content'[f]))
    <3>1. CASE current = NoFile
      BY <1>5, <3>1 DEF Stop
    <3>2. CASE current # NoFile
      <4>1. PICK c \in Partial(pending) : content' = [content EXCEPT ![current] = c]
        BY <1>5, <3>2 DEF Stop
      <4>2. c \in Contents /\ ~TagExists(Source(c))
        BY <3>2, <4>1, PartialProperties
      <4> QED
        BY <3>2, <4>1, <4>2
    <3> QED
      BY <3>1, <3>2
  <2> QED
    BY <1>5, <2>1 DEF Stop, flags
<1>6. CASE UNCHANGED vars
  BY <1>6 DEF vars, flags
<1> QED
  BY <1>1, <1>2, <1>3, <1>4, <1>5, <1>6 DEF Next

(***************************************************************************)
(* Files hold a line at least and one tag at most, a partly written one,   *)
(* too, and only matched files are written, with                           *)
(* any flags of any number of runs (main.go:47-145).                       *)
(***************************************************************************)
THEOREM TypeCorrect == Spec => []TypeOK
<1>1. BInv => TypeOK
  BY DEF BInv
<1> QED
  BY <1>1, BInvInit, BInvNext, PTL DEF Spec

-----------------------------------------------------------------------------
(* Lines as this run is to leave them in a file. *)
Right(c, f) == IF delete THEN ~TagExists(c) ELSE c[1] = tagFor[f] /\ EmptyLineFollows(c)

(* What was visited is right, and so is what is about to be written. *)
Visited ==
    /\ status \in {"walk", "ok"} => \A f \in matched \ todo : Right(content[f], f)
    /\ status = "ok" => todo = {}
    /\ current # NoFile => Right(pending, current)

LEMMA VisitedNext == BInv /\ Visited /\ [Next]_vars => Visited'
<1> SUFFICES ASSUME BInv, Visited, [Next]_vars PROVE Visited'
  OBVIOUS
<1> USE LinesAssumption DEF BInv, TypeOK, Walking, Visited
<1>1. CASE Start
  BY <1>1 DEF Start
<1>2. ASSUME NEW f \in Files, Truncate(f) PROVE Visited'
  <2>1. /\ current' = f /\ f \in todo
        /\ pending' = Updated(content[f], tagFor[f])
        /\ \A g \in Files \ {f} : content'[g] = content[g]
        /\ UNCHANGED <<status, delete, matched, tagFor, todo>> /\ status = "walk"
    BY <1>2 DEF Truncate, flags
  <2>2. content[f] \in Contents /\ ~TagExists(Source(content[f])) /\ tagFor[f] \in Tags
    BY <2>1 DEF OneTag
  <2>3. Right(pending', f)
    BY <2>1, <2>2, UpdatedProperties DEF Right
  <2> QED
    BY <2>1, <2>3 DEF Right
<1>3. CASE Write
  <2>1. /\ current \in todo /\ content' = [content EXCEPT ![current] = pending]
        /\ todo' = todo \ {current} /\ current' = NoFile /\ status = "walk"
        /\ UNCHANGED <<status, delete, matched, tagFor>>
    BY <1>3 DEF Write, flags
  <2> QED
    BY <2>1 DEF Right
<1>4. CASE Finish
  BY <1>4 DEF Finish, flags, Right
<1>5. CASE Stop
  BY <1>5 DEF Stop, flags
<1>6. CASE UNCHANGED vars
  BY <1>6 DEF vars, flags, Right
<1> QED
  BY <1>1, <1>2, <1>3, <1>4, <1>5, <1>6 DEF Next

(***************************************************************************)
(* A run that succeeds leaves each file that matched with its tag and an   *)
(* empty line below it, or with none, wherever earlier runs stopped.       *)
(***************************************************************************)
THEOREM SuccessTagsAll == Spec => []AllTagged
<1>1. Init => Visited
  BY DEF Init, Visited
<1>2. Visited => AllTagged
  BY DEF Visited, AllTagged, Right
<1> QED
  BY <1>1, <1>2, BInvInit, BInvNext, VisitedNext, PTL DEF Spec

-----------------------------------------------------------------------------
(* The refinement of TaggedSources. *)

LEMMA TagIsTag == \A c \in Contents : TagOf(c) \in Tags \cup {NoTag}
BY DEF TagOf, TagExists

LEMMA InitRefines == Init => Tagged!Init
<1> SUFFICES ASSUME Init PROVE Tagged!Init
  OBVIOUS
<1>1. \A f \in Files : Seen(f) = content[f]
  BY LinesAssumption DEF Init, Seen
<1>2. \A f \in Files : content[f] \in Initial /\ content[f] \in Contents
  BY InitialAssumption DEF Init
<1> QED
  BY <1>1, <1>2, TagIsTag DEF Tagged!Init

(* A step that a reader of one file sees, and of the other files does not. *)
LEMMA SetRefines ==
  ASSUME NEW f \in Files, \A g \in Files \ {f} : Seen(g)' = Seen(g),
         Seen(f)' \in Contents, Source(Seen(f)') = Source(Seen(f))
  PROVE  Tagged!SetTag(f)
<1>1. TagOf(Seen(f)') \in Tags \cup {NoTag}
  BY TagIsTag
<1>2. [g \in Files |-> TagOf(Seen(g))]' =
        [[g \in Files |-> TagOf(Seen(g))] EXCEPT ![f] = TagOf(Seen(f)')]
  <2>1. TagOf(Seen(f))' = TagOf(Seen(f)')
    BY DEF TagOf, TagExists
  <2>2. \A g \in Files \ {f} : TagOf(Seen(g))' = TagOf(Seen(g))
    BY DEF TagOf, TagExists
  <2> QED
    BY <2>1, <2>2
<1>3. [g \in Files |-> Source(Seen(g))]' = [g \in Files |-> Source(Seen(g))]
  OBVIOUS
<1> QED
  BY <1>1, <1>2, <1>3 DEF Tagged!SetTag

LEMMA StepRefines ==
  ASSUME BInv, [Next]_vars
  PROVE  [Tagged!Next]_<<[f \in Files |-> TagOf(Seen(f))],
                         [f \in Files |-> Source(Seen(f))]>>
<1> USE LinesAssumption DEF BInv, TypeOK, Walking
<1>1. ASSUME \A f \in Files : Seen(f)' = Seen(f)
      PROVE  UNCHANGED <<[f \in Files |-> TagOf(Seen(f))],
                         [f \in Files |-> Source(Seen(f))]>>
  BY <1>1
<1>2. CASE Start \/ Finish \/ UNCHANGED vars
  <2>1. content' = content /\ current' = current /\ pending' = pending
    BY <1>2 DEF Start, Finish, vars
  <2> QED
    BY <1>1, <2>1 DEF Seen
<1>3. ASSUME NEW f \in Files, Truncate(f) PROVE Tagged!SetTag(f)
  <2>1. /\ current = NoFile /\ current' = f /\ f \in todo /\ status = "walk"
        /\ pending' = Updated(content[f], tagFor[f])
        /\ \A g \in Files \ {f} : content'[g] = content[g]
    BY <1>3 DEF Truncate
  <2>2. content[f] \in Contents /\ ~TagExists(Source(content[f])) /\ tagFor[f] \in Tags
    BY <2>1 DEF OneTag
  <2>3. Seen(f) = content[f] /\ Seen(f)' = pending' /\ \A g \in Files \ {f} : Seen(g)' = Seen(g)
    BY <2>1 DEF Seen
  <2>4. pending' \in Contents /\ Source(pending') = Source(content[f])
    BY <2>1, <2>2, UpdatedProperties
  <2> QED
    BY <2>3, <2>4, SetRefines
<1>4. CASE Write
  <2>1. \A f \in Files : Seen(f)' = Seen(f)
    BY <1>4 DEF Write, Seen
  <2> QED
    BY <1>1, <2>1
<1>5. CASE Stop /\ current = NoFile
  <2>1. \A f \in Files : Seen(f)' = Seen(f)
    BY <1>5 DEF Stop, Seen
  <2> QED
    BY <1>1, <2>1
<1>6. ASSUME NEW f \in Files, Stop, current = f PROVE Tagged!Lose(f)
  <2>1. PICK c \in Partial(pending) : content' = [content EXCEPT ![f] = c]
    BY <1>6 DEF Stop
  <2>2. /\ c \in Contents /\ Tagged!Beginning(Source(c), Source(pending))
        /\ current' = NoFile
    BY <1>6, <2>1, PartialProperties DEF Stop, OneTag
  <2>3. /\ Seen(f) = pending /\ Seen(f)' = c
        /\ \A g \in Files \ {f} : Seen(g)' = Seen(g)
    BY <1>6, <2>1, <2>2 DEF Seen
  <2>4. TagOf(c) \in Tags \cup {NoTag}
    BY <2>2, TagIsTag
  <2>5. [g \in Files |-> TagOf(Seen(g))]' =
          [[g \in Files |-> TagOf(Seen(g))] EXCEPT ![f] = TagOf(c)]
    <3>1. \A g \in Files : TagOf(Seen(g))' = TagOf(Seen(g)')
      BY DEF TagOf, TagExists
    <3> QED
      BY <2>3, <3>1
  <2>6. [g \in Files |-> Source(Seen(g))]' =
          [[g \in Files |-> Source(Seen(g))] EXCEPT ![f] = Source(c)]
    <3>1. \A g \in Files : Source(Seen(g))' = Source(Seen(g)')
      BY DEF Source, TagExists, EmptyLineFollows, Saved
    <3> QED
      BY <2>3, <3>1
  <2>7. /\ [g \in Files |-> Source(Seen(g))]'[f] = Source(c)
        /\ [g \in Files |-> Source(Seen(g))][f] = Source(pending)
    BY <2>3, <2>6
  <2> QED
    BY <2>2, <2>4, <2>5, <2>6, <2>7 DEF Tagged!Lose
<1> QED
  BY <1>2, <1>3, <1>4, <1>5, <1>6 DEF Next, Tagged!Next

(***************************************************************************)
(* Over any runs the files implement TaggedSources: but for the one that   *)
(* is being written when a run stops, no source is ever changed.           *)
(***************************************************************************)
THEOREM FilesImplementTaggedSources == Spec => ImplementsTaggedSources
<1>1. BInv /\ [Next]_vars
        => [Tagged!Next]_<<[f \in Files |-> TagOf(Seen(f))],
                           [f \in Files |-> Source(Seen(f))]>>
  BY StepRefines
<1> QED
  BY <1>1, BInvInit, BInvNext, InitRefines, PTL
     DEF Spec, ImplementsTaggedSources, Tagged!Spec
=============================================================================
