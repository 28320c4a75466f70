------------------------- MODULE ParseHeaders_proofs -------------------------
(***************************************************************************)
(* ParseHeaders for any headers, texts, splits into batches, failures and   *)
(* crashes: a batch file says what clang made of the texts its name is the  *)
(* digest of (BatchesDescribeTexts); what a run writes with the help of the *)
(* caches is what it would write without them (KeyedSpecIsFresh); and a run *)
(* after a successful one finds everything in them (WarmAfterSuccess).      *)
(***************************************************************************)
EXTENDS ParseHeaders, TLAPS, FiniteSetTheorems, SequenceTheorems

(***************************************************************************)
(* Files describe texts.                                                    *)
(***************************************************************************)
\* A batch's specification p was made of what its digest d names.
Describes(p, d) ==
  /\ DOMAIN p = DOMAIN d.texts
  /\ \A h \in DOMAIN d.texts : p[h].texts[h] = d.texts[h] /\ p[h].flags = d.flags

\* While clang parses a batch, the digest taken before is still that of the
\* batch's headers, unless one was edited meanwhile.
DigestCurrent ==
  "during" \notin unkeyed => (pc = "parse" => digest = Digest(batches[at]))

IInv == BatchesDescribeTexts /\ DigestCurrent

\* What clang makes of a batch now is described by its digest of now.
LEMMA ParsedDescribed ==
  ASSUME NEW b PROVE Describes(Parsed(b), Digest(b))
<1>1. DOMAIN Parsed(b) = Range(b) /\ DOMAIN Digest(b).texts = Range(b)
  BY DEF Parsed, Digest
<1>2. ASSUME NEW h \in Range(b)
      PROVE  /\ Parsed(b)[h].texts[h] = Digest(b).texts[h]
             /\ Parsed(b)[h].flags = Digest(b).flags
  <2>1. h \in Reads(h)
    BY DEF Reads
  <2> QED BY <2>1 DEF Parsed, Digest
<1> QED BY <1>1, <1>2 DEF Describes

\* A file is written, or cut short, among files that are described.
LEMMA FileWritten ==
  ASSUME NEW d, NEW p, p = Corrupt \/ Describes(p, d),
         \A e \in DOMAIN batch : batch[e] # Corrupt => Describes(batch[e], e),
         batch' = Written(d, p)
  PROVE  \A e \in DOMAIN batch' : batch'[e] # Corrupt => Describes(batch'[e], e)
<1>1. DOMAIN batch' = {d} \cup DOMAIN batch
  BY DEF Written
<1>2. ASSUME NEW e \in DOMAIN batch'
      PROVE  batch'[e] = IF e = d THEN p ELSE batch[e]
  BY <1>1 DEF Written
<1> QED BY <1>1, <1>2

\* Every step keeps the invariant.
LEMMA InvariantStep == ASSUME IInv, [Next]_vars PROVE IInv'
<1> DEFINE Described == \A e \in DOMAIN batch :
                          batch[e] # Corrupt => Describes(batch[e], e)
<1>0. BatchesDescribeTexts <=> ("during" \notin unkeyed => Described)
  BY DEF BatchesDescribeTexts, Describes
<1>00. BatchesDescribeTexts' <=> ("during" \notin unkeyed' => Described')
  BY DEF BatchesDescribeTexts, Describes
<1> SUFFICES ASSUME "during" \notin unkeyed'
             PROVE  Described' /\ (pc' = "parse" => digest' = Digest(batches[at])')
  BY <1>00 DEF IInv, DigestCurrent
<1> HIDE DEF Described
<1> DEFINE Goal == Described' /\ (pc' = "parse" => digest' = Digest(batches[at])')
<1>1. ASSUME "during" \notin unkeyed
      PROVE  Described /\ (pc = "parse" => digest = Digest(batches[at]))
  BY <1>1, <1>0 DEF IInv, DigestCurrent
<1>2. CASE UNCHANGED vars
  BY <1>2, <1>1 DEF vars, inputs, disk, run, Described, Digest
<1>3. ASSUME NEW h \in Header, NEW t \in Text, Edit(h, t) PROVE Goal
  <2>1. pc = "idle" /\ "during" \notin unkeyed
    BY <1>3 DEF Edit, Unkeyed
  <2> QED BY <1>1, <1>3, <2>1 DEF Edit, disk, Described
<1>4. ASSUME NEW l \in Lists, NEW f \in Flags, Rebuild(l, f) PROVE Goal
  BY <1>1, <1>4 DEF Rebuild, disk, Described
<1>5. ASSUME NEW x \in Extra, Reconfigure(x) PROVE Goal
  <2>1. pc = "idle" /\ "during" \notin unkeyed
    BY <1>5 DEF Reconfigure, Unkeyed
  <2> QED BY <1>1, <1>5, <2>1 DEF Reconfigure, disk, Described
<1>6. ASSUME NEW f \in BOOLEAN, Start(f) PROVE Goal
  BY <1>1, <1>6 DEF Start, FirstBatch, Nothing, Described
<1>7. CASE ParseSingle
  BY <1>1, <1>7 DEF ParseSingle, Described
<1>8. CASE LookUp
  <2>1. Described'
    BY <1>1, <1>8 DEF LookUp, disk, Described
  <2>2. pc' = "parse" => digest' = Digest(batches[at])'
    BY <1>8 DEF LookUp, inputs, Digest
  <2> QED BY <2>1, <2>2
<1>9. CASE Parse
  <2>1. Described /\ digest = Digest(batches[at]) /\ pc' # "parse"
    BY <1>1, <1>9 DEF Parse
  <2>2. batch' = Written(digest, Parsed(batches[at]))
    BY <1>9 DEF Parse
  <2>3. Described'
    BY <2>1, <2>2, ParsedDescribed, FileWritten DEF Described
  <2> QED BY <2>1, <2>3
<1>10. CASE Recompute
  BY <1>1, <1>10 DEF Recompute, FirstBatch, Described
<1>11. CASE ParseFails
  BY <1>1, <1>11 DEF ParseFails, End, disk, Described
<1>12. CASE Save
  BY <1>1, <1>12 DEF Save, Described
<1>13. CASE Deferred
  <2>1. batch' = Restrict(batch, DOMAIN batch \cap digests) /\ pc' = "idle"
    BY <1>13 DEF Deferred, End
  <2>2. \A e \in DOMAIN batch' : e \in DOMAIN batch /\ batch'[e] = batch[e]
    BY <2>1 DEF Restrict
  <2> QED BY <1>1, <1>13, <2>1, <2>2 DEF Deferred, Described
<1>14. CASE Crash
  <2>1. pc' = "idle" /\ Described
    BY <1>1, <1>14 DEF Crash, End
  <2>2. CASE batch' = batch
    BY <2>1, <2>2 DEF Described
  <2>3. CASE batch' = Written(digest, Corrupt)
    BY <2>1, <2>3, FileWritten DEF Described
  <2> QED BY <1>14, <2>1, <2>2, <2>3 DEF Crash, disk
<1> QED
  BY <1>2, <1>3, <1>4, <1>5, <1>6, <1>7, <1>8, <1>9, <1>10, <1>11, <1>12,
     <1>13, <1>14 DEF Next, Step

\* A batch file that can be read holds what clang makes of the header texts and
\* flags its digest names, whatever failed, was killed or cut short, unless a
\* header was edited between its digest and its parse.
THEOREM BatchFilesDescribe == Spec => []BatchesDescribeTexts
<1>1. Init => IInv
  BY DEF Init, IInv, BatchesDescribeTexts, DigestCurrent, Nothing
<1>2. IInv /\ [Next]_vars => IInv'
  BY InvariantStep
<1>3. IInv => BatchesDescribeTexts
  BY DEF IInv
<1> QED BY <1>1, <1>2, <1>3, PTL DEF Spec
-----------------------------------------------------------------------------
(***************************************************************************)
(* Splitting into batches.                                                  *)
(***************************************************************************)
\* A set of natural numbers that contains each number whose predecessors it
\* contains, contains all: finite sets have no infinite chains.
LEMMA Induction ==
  ASSUME NEW S \in SUBSET Nat, \A n \in Nat : 0 .. n-1 \subseteq S => n \in S
  PROVE  Nat \subseteq S
<1> SUFFICES ASSUME NEW m \in Nat \ S PROVE FALSE
  OBVIOUS
<1> DEFINE F == {X \in FiniteSubsetsOf(Nat) : \E n \in Nat \ S : X = 0 .. n-1}
<1>1. ASSUME NEW n \in Nat \ S PROVE 0 .. n-1 \in F
  <2>1. IsFiniteSet(0 .. n-1) /\ 0 .. n-1 \in SUBSET Nat
    BY FS_Interval
  <2> QED BY <2>1 DEF FiniteSubsetsOf
<1>2. PICK X \in F : \A Y \in F : ~ (<<Y, X>> \in StrictSubsetOrdering(Nat))
  <2>1. F \subseteq FiniteSubsetsOf(Nat) /\ F # {}
    BY <1>1
  <2> HIDE DEF F
  <2> QED BY <2>1, FS_StrictSubsetOrderingWellFounded, WFMin
<1>3. PICK n \in Nat \ S : X = 0 .. n-1
  OBVIOUS
<1>4. ASSUME NEW y \in 0 .. n-1, y \notin S PROVE FALSE
  <2>1. 0 .. y-1 \in F
    BY <1>1, <1>4
  <2>2. y \in X /\ y \notin 0 .. y-1
    BY <1>3
  <2>3. 0 .. y-1 \subseteq X /\ 0 .. y-1 # X /\ X \subseteq Nat /\ 0 .. y-1 \subseteq Nat
    BY <1>3, <2>2
  <2>4. <<0 .. y-1, X>> \in StrictSubsetOrdering(Nat)
    BY <2>3 DEF StrictSubsetOrdering
  <2> QED BY <2>1, <2>4, <1>2
<1> QED BY <1>4

\* The headers of H that compile alone.
Alone(H) == {h \in H : Compiles(<<h>>)}

\* Headers that compile together compile alone.
LEMMA CompileAlone ==
  ASSUME NEW hs, Compiles(hs), NEW h \in Range(hs)
  PROVE  Compiles(<<h>>)
<1>1. Range(<<h>>) = {h}
  BY DEF Range
<1>2. \A g \in Reads(h) : text[g] \notin Broken
  BY DEF Compiles
<1>3. {x \in {h} : text[x] \in Clashing} = IF text[h] \in Clashing THEN {h} ELSE {}
  OBVIOUS
<1>4. Cardinality({h}) = 1 /\ Cardinality({}) = 0
  BY FS_EmptySet, FS_Singleton
<1>5. Cardinality({x \in {h} : text[x] \in Clashing}) <= 1
  BY <1>3, <1>4
<1> QED BY <1>1, <1>2, <1>5 DEF Compiles

\* What Split computes for each part of hs, from what f says of its halves.
Halve(hs, f) ==
  [n \in 0..Len(hs) |->
    [lo \in 1..Len(hs) + 1 - n |->
       IF n = 0 THEN << >>
       ELSE IF Compiles(SubSeq(hs, lo, lo + n - 1)) THEN <<SubSeq(hs, lo, lo + n - 1)>>
       ELSE IF n = 1 THEN << >>
       ELSE f[n \div 2][lo] \o f[n - (n \div 2)][lo + (n \div 2)]]]

\* Split is a function that says of each part what it says of its halves,
LEMMA SplitIs ==
  ASSUME NEW hs PROVE Split(hs) = (CHOOSE f : f = Halve(hs, f))[Len(hs)][1]
BY DEF Split, Halve

\* and there is such a function.
LEMMA HalveExists ==
  ASSUME NEW hs \in Seq(Header)
  PROVE  \E f : f = Halve(hs, f)
<1> DEFINE N == Len(hs)
           Upto(f, n) == \A m \in 0..N : m < n => f[m] = Halve(hs, f)[m]
           Same(f, g, n) == \A m \in 0..N : m < n => f[m] = g[m]
<1>1. N \in Nat
  OBVIOUS
<1>2. ASSUME NEW f, NEW g, NEW n \in 0..N, Same(f, g, n)
      PROVE  Halve(hs, f)[n] = Halve(hs, g)[n]
  <2>1. CASE n <= 1
    BY <2>1 DEF Halve
  <2>2. CASE n > 1
    <3>1. /\ n \div 2 \in 0..N /\ n - (n \div 2) \in 0..N /\ n \div 2 < n
          /\ n - (n \div 2) < n
      BY <1>1, <2>2
    <3>2. f[n \div 2] = g[n \div 2] /\ f[n - (n \div 2)] = g[n - (n \div 2)]
      BY <3>1, <1>2
    <3> QED BY <3>2 DEF Halve
  <2> QED BY <1>1, <2>1, <2>2
<1> DEFINE S == {n \in Nat : \E f : Upto(f, n)}
<1>3. ASSUME NEW n \in Nat, 0 .. n-1 \subseteq S PROVE n \in S
  <2>1. CASE n = 0
    BY <2>1
  <2>2. CASE n > N + 1
    <3>1. n - 1 \in S
      BY <2>2, <1>1, <1>3
    <3>2. PICK f : Upto(f, n - 1)
      BY <3>1
    <3>3. Upto(f, n)
      BY <3>2, <2>2, <1>1
    <3> QED BY <3>3
  <2>3. CASE n \in 1..N + 1
    <3>1. n - 1 \in 0..n - 1 /\ n - 1 \in 0..N
      BY <2>3, <1>1
    <3>0. n - 1 \in S
      BY <3>1, <1>3
    <3>2. PICK f : Upto(f, n - 1)
      BY <3>0
    <3> DEFINE g == [m \in 0..N |-> IF m = n - 1 THEN Halve(hs, f)[m] ELSE f[m]]
    <3>3. \A m \in 0..N : m < n => Same(f, g, m)
      BY <1>1
    <3>4. ASSUME NEW m \in 0..N, m < n PROVE g[m] = Halve(hs, g)[m]
      <4>1. Same(f, g, m)
        BY <3>3, <3>4
      <4>2. Halve(hs, f)[m] = Halve(hs, g)[m]
        BY <1>2, <4>1
      <4>3. m = n - 1 \/ f[m] = Halve(hs, f)[m]
        BY <3>2, <3>4, <1>1
      <4> QED BY <4>2, <4>3
    <3> HIDE DEF g
    <3> QED BY <3>4
  <2> QED BY <1>1, <2>1, <2>2, <2>3
<1>4. N + 1 \in S
  <2> HIDE DEF S
  <2>1. S \subseteq Nat
    BY DEF S
  <2> QED BY <1>1, <1>3, <2>1, Induction
<1>5. PICK f : Upto(f, N + 1)
  BY <1>4
<1> DEFINE g == Halve(hs, f)
<1>6. \A m \in 0..N : f[m] = g[m]
  BY <1>1, <1>5
<1>7. \A m \in 0..N : Same(f, g, m)
  BY <1>6
<1>8. \A m \in 0..N : g[m] = Halve(hs, g)[m]
  BY <1>2, <1>7
<1>9. g = [m \in 0..N |-> g[m]] /\ Halve(hs, g) = [m \in 0..N |-> Halve(hs, g)[m]]
  BY DEF Halve
<1> HIDE DEF g
<1>10. g = Halve(hs, g)
  BY <1>8, <1>9
<1> QED BY <1>10

\* The headers in the batches bs.
Held(bs) == {h \in Header : \E i \in 1..Len(bs) : h \in Range(bs[i])}

\* The batches bs hold the headers of H that compile alone.
Covers(bs, H) == bs \in Seq(Seq(Header)) /\ Held(bs) = Alone(H)

\* The batches of both halves hold what compiles alone in either.
LEMMA CoversBoth ==
  ASSUME NEW G, NEW H, NEW s, NEW t, Covers(s, G), Covers(t, H)
  PROVE  Covers(s \o t, G \cup H)
<1>1. /\ s \o t \in Seq(Seq(Header)) /\ Len(s \o t) = Len(s) + Len(t)
      /\ \A i \in 1 .. Len(s) + Len(t) :
           (s \o t)[i] = IF i <= Len(s) THEN s[i] ELSE t[i - Len(s)]
      /\ Len(s) \in Nat /\ Len(t) \in Nat
  BY ConcatProperties DEF Covers
<1> DEFINE u == s \o t
<1> HIDE DEF u
<1>2. ASSUME NEW i \in 1..Len(s) + Len(t), NEW h \in Range(u[i])
      PROVE  \/ \E j \in 1..Len(s) : h \in Range(s[j])
             \/ \E j \in 1..Len(t) : h \in Range(t[j])
  <2>1. CASE i <= Len(s)
    BY <1>1, <1>2, <2>1 DEF u
  <2>2. CASE i > Len(s)
    <3>1. i - Len(s) \in 1..Len(t)
      BY <1>1, <2>2
    <3> QED BY <1>1, <1>2, <2>2, <3>1 DEF u
  <2> QED BY <1>1, <2>1, <2>2
<1>3. ASSUME NEW i \in 1..Len(s) PROVE i \in 1..Len(u) /\ u[i] = s[i]
  BY <1>1 DEF u
<1>4. ASSUME NEW i \in 1..Len(t) PROVE i + Len(s) \in 1..Len(u) /\ u[i + Len(s)] = t[i]
  <2>1. /\ i + Len(s) \in 1..Len(s) + Len(t) /\ ~ (i + Len(s) <= Len(s))
        /\ i + Len(s) - Len(s) = i
    BY <1>1
  <2> QED BY <1>1, <2>1 DEF u
<1>5. Len(u) = Len(s) + Len(t)
  BY <1>1 DEF u
<1>6. Held(u) \subseteq Held(s) \cup Held(t)
  BY <1>2, <1>5 DEF Held
<1>7. Held(s) \cup Held(t) \subseteq Held(u)
  BY <1>3, <1>4 DEF Held
<1>8. Held(u) = Alone(G \cup H)
  BY <1>6, <1>7 DEF Covers, Alone
<1> QED BY <1>1, <1>8 DEF Covers, u

\* The part of a list from its first lo on, n long.
LEMMA Part ==
  ASSUME NEW hs \in Seq(Header), NEW n \in Nat, NEW lo \in Nat \ {0}, lo + n <= Len(hs) + 1
  PROVE  LET p == SubSeq(hs, lo, lo + n - 1)
         IN  /\ p \in Seq(Header) /\ Len(p) = n /\ \A i \in 1..n : p[i] = hs[lo + i - 1]
             /\ Range(p) = {hs[i] : i \in lo..lo + n - 1}
<1> DEFINE p == SubSeq(hs, lo, lo + n - 1)
<1>1. \A i \in lo..lo + n - 1 : hs[i] \in Header
  <2>1. \A i \in 1..Len(hs) : hs[i] \in Header
    BY ElementOfSeq
  <2> QED BY <2>1
<1>2. /\ p \in Seq(Header) /\ Len(p) = n
      /\ \A i \in 1..n : p[i] = hs[lo + i - 1]
  BY <1>1, SubSeqProperties
<1> HIDE DEF p
<1>3. Range(p) = {p[i] : i \in 1..n}
  BY <1>2, RangeEquality
<1>4. ASSUME NEW i \in lo..lo + n - 1 PROVE hs[i] \in {p[j] : j \in 1..n}
  <2>1. i - lo + 1 \in 1..n /\ lo + (i - lo + 1) - 1 = i
    OBVIOUS
  <2>2. p[i - lo + 1] = hs[i]
    BY <2>1, <1>2
  <2> QED BY <2>1, <2>2
<1>5. ASSUME NEW j \in 1..n PROVE p[j] \in {hs[i] : i \in lo..lo + n - 1}
  <2>1. lo + j - 1 \in lo..lo + n - 1
    OBVIOUS
  <2> QED BY <2>1, <1>2
<1>6. Range(p) = {hs[i] : i \in lo..lo + n - 1}
  BY <1>3, <1>4, <1>5
<1> QED BY <1>2, <1>6 DEF p

\* Whatever clashes with what, each header that compiles alone ends up in a
\* batch, and no other does.
LEMMA SplitCovers ==
  ASSUME NEW hs \in Seq(Header)
  PROVE  Covers(Split(hs), Range(hs))
<1> DEFINE N == Len(hs)
           part(lo, n) == SubSeq(hs, lo, lo + n - 1)
           H(lo, n) == {hs[i] : i \in lo..lo + n - 1}
<1>1. PICK f : f = Halve(hs, f) /\ Split(hs) = f[N][1]
  BY HalveExists, SplitIs
<1>2. N \in Nat
  OBVIOUS
<1> DEFINE S == {n \in Nat : \A lo \in Nat \ {0} :
                   lo + n <= N + 1 => Covers(f[n][lo], H(lo, n))}
<1>3. ASSUME NEW n \in Nat, 0 .. n-1 \subseteq S PROVE n \in S
  <2> SUFFICES ASSUME NEW lo \in Nat \ {0}, lo + n <= N + 1
               PROVE  Covers(f[n][lo], H(lo, n))
    OBVIOUS
  <2>1. n \in 0..N /\ lo \in 1..N + 1 - n
    BY <1>2
  <2>2. f[n][lo] = IF n = 0 THEN << >>
           ELSE IF Compiles(part(lo, n)) THEN <<part(lo, n)>>
           ELSE IF n = 1 THEN << >>
           ELSE f[n \div 2][lo] \o f[n - (n \div 2)][lo + (n \div 2)]
    <3>1. f[n][lo] = Halve(hs, f)[n][lo]
      BY <1>1
    <3> HIDE <1>1
    <3> QED BY <3>1, <2>1 DEF Halve
  <2>3. /\ part(lo, n) \in Seq(Header) /\ Len(part(lo, n)) = n
        /\ \A i \in 1..n : part(lo, n)[i] = hs[lo + i - 1]
        /\ Range(part(lo, n)) = H(lo, n)
    BY Part
  <2> HIDE DEF part, S
  <2>4. CASE n = 0
    <3>1. f[n][lo] = << >> /\ H(lo, n) = {}
      BY <2>2, <2>4
    <3>2. Len(<< >>) = 0 /\ << >> \in Seq(Seq(Header))
      OBVIOUS
    <3>3. Held(<< >>) = {} /\ Alone({}) = {}
      BY <3>2 DEF Held, Alone
    <3> HIDE DEF H
    <3> QED BY <3>1, <3>2, <3>3 DEF Covers
  <2>5. CASE n # 0 /\ Compiles(part(lo, n))
    <3>1. f[n][lo] = <<part(lo, n)>> /\ Alone(H(lo, n)) = H(lo, n)
      BY <2>2, <2>3, <2>5, CompileAlone DEF Alone
    <3> HIDE DEF H
    <3>2. /\ <<part(lo, n)>> \in Seq(Seq(Header)) /\ Len(<<part(lo, n)>>) = 1
          /\ <<part(lo, n)>>[1] = part(lo, n)
      BY <2>3
    <3>3. Range(part(lo, n)) \subseteq Header
      BY <2>3, RangeOfSeq
    <3>4. Held(<<part(lo, n)>>) = Range(part(lo, n))
      BY <3>2, <3>3 DEF Held
    <3> QED BY <2>3, <3>1, <3>2, <3>4 DEF Covers
  <2>6. CASE n = 1 /\ ~ Compiles(part(lo, n))
    <3>1. f[n][lo] = << >>
      BY <2>2, <2>6
    <3>2. H(lo, n) = {hs[lo]}
      BY <2>6
    <3>3. part(lo, n) = <<hs[lo]>>
      <4>1. <<hs[lo]>> \in Seq(Header) /\ Len(<<hs[lo]>>) = 1 /\ <<hs[lo]>>[1] = hs[lo]
        BY <1>2, <2>6, ElementOfSeq
      <4>2. part(lo, n)[1] = hs[lo]
        BY <2>3, <2>6
      <4> QED BY <4>1, <4>2, <2>3, <2>6, SeqEqual
    <3>4. Alone(H(lo, n)) = {}
      BY <2>6, <3>2, <3>3 DEF Alone
    <3>5. Len(<< >>) = 0 /\ << >> \in Seq(Seq(Header))
      OBVIOUS
    <3>6. Held(<< >>) = {}
      BY <3>5 DEF Held
    <3> QED BY <3>1, <3>4, <3>5, <3>6 DEF Covers
  <2>7. CASE n > 1 /\ ~ Compiles(part(lo, n))
    <3> DEFINE m == n \div 2
    <3>1. m \in Nat /\ n - m \in Nat /\ m \in 0..n-1 /\ n - m \in 0..n-1
      BY <2>7
    <3> HIDE DEF m
    <3>2. lo + m \in Nat \ {0} /\ lo + m <= N + 1 /\ (lo + m) + (n - m) <= N + 1
      BY <2>7, <3>1, <1>2
    <3>3. m \in S /\ n - m \in S
      BY <1>3, <3>1
    <3>4. Covers(f[m][lo], H(lo, m)) /\ Covers(f[n - m][lo + m], H(lo + m, n - m))
      BY <3>1, <3>2, <3>3 DEF S
    <3>5. f[n][lo] = f[m][lo] \o f[n - m][lo + m]
      <4>1. n # 0 /\ n # 1
        BY <2>7
      <4> QED BY <2>2, <2>7, <4>1 DEF m
    <3>6. H(lo, n) = H(lo, m) \cup H(lo + m, n - m)
      <4>1. lo..lo + n - 1 = (lo..lo + m - 1) \cup (lo + m..lo + m + (n - m) - 1)
        BY <3>1
      <4> QED BY <4>1
    <3> HIDE DEF H
    <3> QED BY <3>4, <3>5, <3>6, CoversBoth
  <2> QED BY <2>4, <2>5, <2>6, <2>7
<1>4. N \in S
  <2> HIDE DEF S
  <2>1. S \subseteq Nat
    BY DEF S
  <2> QED BY <1>2, <1>3, <2>1, Induction
<1>5. Covers(f[N][1], H(1, N))
  <2>1. 1 \in Nat \ {0} /\ 1 + N <= N + 1
    BY <1>2
  <2> HIDE DEF H, N
  <2> QED BY <1>4, <2>1
<1>6. H(1, N) = Range(hs)
  BY RangeEquality
<1> QED BY <1>1, <1>5, <1>6
-----------------------------------------------------------------------------
(***************************************************************************)
(* Types.                                                                   *)
(***************************************************************************)
\* groups.json, if it can be read.
GroupsFile == [key : [headers : SUBSET Header, flags : Flags], batches : Seq(Seq(Header))]

\* The types, with those of groups.json and of the batches.
Types ==
  /\ TypeOK
  /\ batches \in Seq(Seq(Header))
  /\ groups \notin {None, Corrupt} => groups \in GroupsFile

\* What the constants say.
LEMMA ListTypes ==
  ASSUME found \in Lists
  PROVE  /\ found \in Seq(Header) /\ Range(found) \subseteq Header
         /\ \A h \in Header : Reads(h) \subseteq Header
<1>1. found \in Seq(Header)
  BY ConstantsAssumption
<1>2. Range(found) \subseteq Header
  BY <1>1, RangeOfSeq
<1>3. \A h \in Header : Reads(h) \subseteq Header
  BY ConstantsAssumption DEF Reads
<1> QED BY <1>1, <1>2, <1>3

\* The digest of a batch.
LEMMA DigestType ==
  ASSUME text \in [Header -> Text], flags \in Flags, NEW b \in Seq(Header)
  PROVE  Digest(b) \in BatchDigest
<1>1. Range(b) \in SUBSET Header
  BY RangeOfSeq
<1>2. [h \in Range(b) |-> text[h]] \in [Range(b) -> Text]
  BY <1>1
<1>3. [h \in Range(b) |-> text[h]] \in UNION {[H -> Text] : H \in SUBSET Header}
  BY <1>1, <1>2
<1> QED BY <1>3 DEF Digest, BatchDigest

\* The batch at hand.
LEMMA BatchAtHand ==
  ASSUME Types, at <= Len(batches) \/ pc = "parse"
  PROVE  /\ at \in 1..Len(batches) /\ batches[at] \in Seq(Header)
         /\ Range(batches[at]) \in SUBSET Header
<1>1. at \in 1..Len(batches)
  BY DEF Types, TypeOK
<1>2. batches[at] \in Seq(Header)
  BY <1>1, ElementOfSeq DEF Types
<1> QED BY <1>1, <1>2, RangeOfSeq

\* Every step keeps the types.
LEMMA TypesStep == ASSUME Types, [Next]_vars PROVE Types'
<1>0. /\ text \in [Header -> Text] /\ found \in Lists /\ flags \in Flags
      /\ extra \in Extra
      /\ batches \in Seq(Seq(Header)) /\ Len(batches) \in Nat /\ at \in Nat
      /\ Lists \subseteq Seq(Header)
  BY ConstantsAssumption DEF Types, TypeOK
<1>1. ASSUME NEW r \in {"none", "ok", "regrouped", "empty", "error"}, End(r),
             UNCHANGED <<text, found, flags, extra>>,
             DOMAIN batch' \subseteq BatchDigest,
             groups' \notin {None, Corrupt} => groups' \in GroupsFile
      PROVE  Types'
  <2>1. batches' = << >> /\ << >> \in Seq(Seq(Header)) /\ Len(<< >>) = 0
    BY <1>1 DEF End
  <2>2. at' \in 1..Len(batches') + 1
    BY <1>1, <2>1 DEF End
  <2>3. /\ text' \in [Header -> Text] /\ found' \in Lists /\ flags' \in Flags
        /\ extra' \in Extra
        /\ pc' = "idle" /\ digest' = None /\ result' = r
        /\ digests' = {} /\ force' = FALSE /\ hit' = FALSE /\ retried' = FALSE
    BY <1>0, <1>1 DEF End
  <2> QED BY <1>1, <2>1, <2>2, <2>3 DEF Types, TypeOK
<1>2. CASE UNCHANGED vars
  BY <1>2 DEF vars, inputs, disk, run, Types, TypeOK, GroupsFile
<1>3. ASSUME NEW h \in Header, NEW t \in Text, Edit(h, t) PROVE Types'
  <2>1. text' \in [Header -> Text]
    BY <1>0, <1>3 DEF Edit
  <2> QED BY <1>3, <2>1 DEF Edit, Forget, disk, run, Types, TypeOK, GroupsFile, BatchDigest
<1>4. ASSUME NEW l \in Lists, NEW f \in Flags, Rebuild(l, f) PROVE Types'
  BY <1>4 DEF Rebuild, Forget, disk, run, Types, TypeOK, GroupsFile, BatchDigest
<1>5. ASSUME NEW x \in Extra, Reconfigure(x) PROVE Types'
  BY <1>5 DEF Reconfigure, Forget, disk, run, Types, TypeOK, GroupsFile, BatchDigest
<1>6. ASSUME NEW bs \in Seq(Seq(Header)), FirstBatch(bs),
             UNCHANGED <<text, found, flags, extra>>,
             DOMAIN batch' \subseteq BatchDigest,
             groups' \notin {None, Corrupt} => groups' \in GroupsFile,
             {force', hit', retried'} \subseteq BOOLEAN,
             result' \in {"none", "ok", "regrouped", "empty", "error"}
      PROVE  Types'
  <2>1. at' \in 1..Len(batches') + 1 /\ batches' \in Seq(Seq(Header))
    BY <1>6 DEF FirstBatch
  <2> QED BY <1>6, <2>1 DEF FirstBatch, Types, TypeOK, GroupsFile, BatchDigest
<1>7. Split(found) \in Seq(Seq(Header))
  BY <1>0, SplitCovers DEF Covers
<1>8. ASSUME NEW f \in BOOLEAN, Start(f) PROVE Types'
  <2> DEFINE cached == IF f THEN None ELSE groups
             usable == cached \notin {None, Corrupt} /\ cached.key = GroupKey
             bs == IF usable THEN cached.batches ELSE Split(found)
  <2>1. bs \in Seq(Seq(Header))
    BY <1>7 DEF Types, GroupsFile
  <2>2. /\ FirstBatch(bs) /\ groups' = cached /\ hit' = usable /\ force' = f
        /\ retried' = FALSE
    BY <1>8 DEF Start
  <2>3. /\ UNCHANGED <<text, found, flags, extra>> /\ result' = "none"
        /\ DOMAIN batch' \subseteq BatchDigest
    BY <1>8 DEF Start, inputs, Forget, Nothing, Types, TypeOK
  <2>4. cached \notin {None, Corrupt} => cached \in GroupsFile
    BY DEF Types
  <2> HIDE DEF bs
  <2> QED BY <1>6, <2>1, <2>2, <2>3, <2>4
<1>9. CASE ParseSingle
  BY <1>9 DEF ParseSingle, inputs, run, Types, TypeOK, GroupsFile, BatchDigest
<1>10. CASE LookUp
  <2>1. at \in 1..Len(batches) /\ Digest(batches[at]) \in BatchDigest
    BY <1>0, <1>10, BatchAtHand, DigestType DEF LookUp
  <2>2. /\ UNCHANGED <<text, found, flags, extra, batches, batch, groups, force, hit,
                       retried, result>>
        /\ digests' \subseteq BatchDigest
    BY <1>10, <2>1 DEF LookUp, inputs, disk, Types, TypeOK
  <2>3. \/ at' = at + 1 /\ pc' = pc /\ digest' = digest
        \/ at' = at /\ pc' = "parse" /\ digest' = Digest(batches[at])
    BY <1>10 DEF LookUp
  <2>4. /\ at' \in 1..Len(batches) + 1
        /\ (pc' = "parse" => at' \in 1..Len(batches) /\ digest' \in BatchDigest)
    BY <1>0, <1>10, <2>1, <2>3 DEF LookUp
  <2>5. pc' \in {"lookup", "parse"} /\ (pc' # "parse" => digest' = None)
    BY <1>10, <2>3 DEF LookUp, Types, TypeOK
  <2> QED BY <2>2, <2>4, <2>5 DEF Types, TypeOK, GroupsFile, BatchDigest
<1>11. CASE Parse
  <2>1. at \in 1..Len(batches) /\ digest \in BatchDigest
    BY <1>11 DEF Parse, Types, TypeOK
  <2>2. at' \in 1..Len(batches') + 1
    BY <1>0, <1>11, <2>1 DEF Parse
  <2>3. DOMAIN batch' \subseteq BatchDigest
    BY <1>11, <2>1 DEF Parse, Written, Types, TypeOK
  <2> QED BY <1>11, <2>2, <2>3 DEF Parse, inputs, Types, TypeOK, GroupsFile, BatchDigest
<1>12. CASE Recompute
  <2>1. FirstBatch(Split(found)) /\ groups' = None /\ retried' = TRUE
    BY <1>12 DEF Recompute
  <2>2. UNCHANGED <<text, found, flags, extra, batch, force, hit, result>>
    BY <1>12 DEF Recompute, inputs
  <2>3. /\ DOMAIN batch' \subseteq BatchDigest
        /\ {force', hit', retried'} \subseteq BOOLEAN
        /\ result' \in {"none", "ok", "regrouped", "empty", "error"}
    BY <2>1, <2>2 DEF Types, TypeOK
  <2> QED BY <1>6, <1>7, <2>1, <2>2, <2>3
<1>13. CASE ParseFails
  <2>1. End("error") /\ UNCHANGED <<text, found, flags, extra, batch, groups>>
    BY <1>13 DEF ParseFails, inputs, disk
  <2>2. /\ DOMAIN batch' \subseteq BatchDigest
        /\ (groups' \notin {None, Corrupt} => groups' \in GroupsFile)
    BY <2>1 DEF Types, TypeOK
  <2> QED BY <1>1, <2>1, <2>2
<1>14. CASE Save
  BY <1>14 DEF Save, inputs, run, Types, TypeOK, GroupsFile, BatchDigest
<1>15. NewGroups \notin {None, Corrupt} => NewGroups \in GroupsFile
  BY <1>0, ListTypes DEF NewGroups, GroupKey, Types, GroupsFile
<1>16. CASE Deferred
  <2>1. /\ End(result) /\ UNCHANGED <<text, found, flags, extra>> /\ groups' = NewGroups
        /\ batch' = Restrict(batch, DOMAIN batch \cap digests)
    BY <1>16 DEF Deferred, inputs
  <2>2. /\ DOMAIN batch' \subseteq BatchDigest
        /\ result \in {"none", "ok", "regrouped", "empty", "error"}
    BY <2>1 DEF Restrict, Types, TypeOK
  <2> QED BY <1>1, <1>15, <2>1, <2>2
<1>17. CASE Crash
  <2>1. End("none") /\ UNCHANGED <<text, found, flags, extra>>
    BY <1>17 DEF Crash, inputs
  <2>2. \/ UNCHANGED <<batch, groups>>
        \/ pc = "parse" /\ batch' = Written(digest, Corrupt) /\ UNCHANGED groups
        \/ groups' \in {Corrupt, NewGroups} /\ UNCHANGED batch
    BY <1>17 DEF Crash, disk
  <2>3. DOMAIN batch' \subseteq BatchDigest
    BY <2>2 DEF Written, Types, TypeOK
  <2>4. groups' \notin {None, Corrupt} => groups' \in GroupsFile
    BY <1>15, <2>2 DEF Types
  <2> QED BY <1>1, <2>1, <2>3, <2>4
<1> QED
  BY <1>2, <1>3, <1>4, <1>5, <1>8, <1>9, <1>10, <1>11, <1>12, <1>13, <1>14,
     <1>16, <1>17 DEF Next, Step
-----------------------------------------------------------------------------
(***************************************************************************)
(* What is written is what a run without caches would write.                *)
(***************************************************************************)
\* What clang makes of one header now.
Made(h) == [texts |-> [g \in Reads(h) |-> text[g]], flags |-> flags, extra |-> extra]

\* What it made of h in a batch whose digest is d, if what h includes and what
\* no key covers have not changed since.
MadeOf(d, h) ==
  [texts |-> [g \in Reads(h) |-> IF g = h THEN d.texts[h] ELSE text[g]],
   flags |-> d.flags, extra |-> extra]

\* The headers in the first n batches.
HeldIn(bs, n) == {h \in Header : \E i \in 1..n : h \in Range(bs[i])}

\* What clang makes of the headers of H, each with whatever else.
MadeAll(H) == [h \in H |-> Made(h)]

\* Files that can be read say what clang would make of their headers now, if
\* these had the texts and flags of the digest.
FilesMade ==
  \A d \in DOMAIN batch : batch[d] # Corrupt =>
    batch[d] = [h \in DOMAIN d.texts |-> MadeOf(d, h)]

\* What is in the caches and in hand is what a run without caches would make.
Keyed ==
  /\ pc = "parse" => digest = Digest(batches[at])
  /\ groups \notin {None, Corrupt} => Covers(groups.batches, groups.key.headers)
  /\ pc # "idle" => Covers(batches, Range(found))
  /\ FilesMade
  /\ pc \in {"lookup", "parse"} => merged = MadeAll(HeldIn(batches, at - 1)) /\ result = "none"
  /\ pc \in {"deferred", "idle"} =>
       /\ result \in {"ok", "regrouped"} => spec = Cold
       /\ result = "empty" => Cold = Nothing

\* While no change has been of a kind that no key covers.
KeyedInv == unkeyed = {} => Keyed

\* What clang makes of a batch is what it makes of each header.
LEMMA ParsedMade ==
  ASSUME NEW b PROVE Parsed(b) = MadeAll(Range(b))
BY DEF Parsed, MadeAll, Made

\* So is what a run without caches writes.
LEMMA ColdMade ==
  ASSUME found \in Lists PROVE Cold = MadeAll(Alone(Range(found)))
<1> DEFINE bs == Split(found)
           U == UNION {Range(b) : b \in Range(bs)}
<1>1. bs \in Seq(Seq(Header)) /\ Held(bs) = Alone(Range(found))
  BY ListTypes, SplitCovers DEF Covers
<1>2. DOMAIN bs = 1..Len(bs) /\ \A i \in 1..Len(bs) : bs[i] \in Seq(Header)
  BY <1>1, LenProperties, ElementOfSeq
<1> HIDE DEF bs
<1>3. \A i \in 1..Len(bs) : Range(bs[i]) \subseteq Header
  BY <1>2, RangeOfSeq
<1>4. Range(bs) = {bs[i] : i \in 1..Len(bs)}
  BY <1>2 DEF Range
<1>5. ASSUME NEW h PROVE h \in U <=> h \in Held(bs)
  <2>1. h \in U <=> \E b \in Range(bs) : h \in Range(b)
    OBVIOUS
  <2>2. h \in U <=> \E i \in 1..Len(bs) : h \in Range(bs[i])
    BY <2>1, <1>4
  <2> QED BY <2>2, <1>3 DEF Held
<1>6. U = Alone(Range(found))
  BY <1>1, <1>5
<1>7. ASSUME NEW h PROVE Parsed(<<h>>)[h] = Made(h)
  <2>1. h \in Range(<<h>>)
    BY DEF Range
  <2> QED BY <2>1 DEF Parsed, Made
<1>8. Cold = [h \in U |-> Parsed(<<h>>)[h]]
  BY DEF Cold, bs
<1> QED BY <1>6, <1>7, <1>8 DEF MadeAll

\* The next batch is merged.
LEMMA MergeOne ==
  ASSUME Types, at \in 1..Len(batches)
  PROVE  MergeAPISpec(MadeAll(HeldIn(batches, at - 1)), MadeAll(Range(batches[at])))
           = MadeAll(HeldIn(batches, at))
<1>1. Range(batches[at]) \subseteq Header /\ at \in Nat \ {0}
  BY BatchAtHand
<1>2. HeldIn(batches, at) = HeldIn(batches, at - 1) \cup Range(batches[at])
  BY <1>1 DEF HeldIn
<1> QED BY <1>2 DEF MadeAll, MergeAPISpec

\* Nothing is merged yet, or everything.
LEMMA HeldAll ==
  ASSUME NEW bs, Len(bs) \in Nat
  PROVE  HeldIn(bs, 0) = {} /\ HeldIn(bs, Len(bs)) = Held(bs) /\ MadeAll({}) = Nothing
<1>1. HeldIn(bs, 0) = {}
  BY DEF HeldIn
<1>2. MadeAll({}) = Nothing
  BY DEF MadeAll, Nothing
<1> QED BY <1>1, <1>2 DEF Held, HeldIn

\* A file that was parsed for the digest of a batch says what clang makes of it.
LEMMA FileUsable ==
  ASSUME FilesMade, NEW b, Digest(b) \in DOMAIN batch, batch[Digest(b)] # Corrupt
  PROVE  batch[Digest(b)] = MadeAll(Range(b))
<1> DEFINE d == Digest(b)
<1>1. /\ DOMAIN d.texts = Range(b) /\ d.flags = flags
      /\ \A h \in Range(b) : d.texts[h] = text[h]
  BY DEF Digest
<1>2. \A h \in Range(b) : MadeOf(d, h) = Made(h)
  BY <1>1 DEF MadeOf, Made
<1>3. d \in DOMAIN batch /\ batch[d] # Corrupt
  OBVIOUS
<1>4. batch[d] = [h \in DOMAIN d.texts |-> MadeOf(d, h)]
  BY <1>3 DEF FilesMade
<1> QED BY <1>1, <1>2, <1>4 DEF MadeAll

\* The file of the batch at hand is written.
LEMMA FileMade ==
  ASSUME FilesMade, NEW b, UNCHANGED inputs,
         \/ batch' = Written(Digest(b), Parsed(b))
         \/ batch' = Written(Digest(b), Corrupt)
         \/ DOMAIN batch' \subseteq DOMAIN batch /\ \A d \in DOMAIN batch' : batch'[d] = batch[d]
  PROVE  FilesMade'
<1> SUFFICES ASSUME NEW d \in DOMAIN batch', batch'[d] # Corrupt
             PROVE  batch'[d] = [h \in DOMAIN d.texts |-> MadeOf(d, h)]
  BY DEF FilesMade, MadeOf, inputs
<1>1. CASE d \in DOMAIN batch /\ batch'[d] = batch[d]
  BY <1>1 DEF FilesMade
<1>2. CASE ~ (d \in DOMAIN batch /\ batch'[d] = batch[d])
  <2>1. d = Digest(b) /\ batch'[d] = Parsed(b)
    BY <1>2 DEF Written
  <2>2. /\ DOMAIN d.texts = Range(b) /\ d.flags = flags
        /\ \A h \in Range(b) : d.texts[h] = text[h]
    BY <2>1 DEF Digest
  <2>3. \A h \in Range(b) : MadeOf(d, h) = Made(h)
    BY <2>2 DEF MadeOf, Made
  <2> QED BY <2>1, <2>2, <2>3, ParsedMade DEF MadeAll
<1> QED BY <1>1, <1>2

\* Every step keeps it.
LEMMA KeyedStep == ASSUME Types, KeyedInv, [Next]_vars PROVE KeyedInv'
<1> SUFFICES ASSUME unkeyed' = {} PROVE Keyed'
  BY DEF KeyedInv
<1> DEFINE Fresh == /\ result \in {"ok", "regrouped"} => spec = Cold
                    /\ result = "empty" => Cold = Nothing
           GroupsRight == groups \notin {None, Corrupt}
                            => Covers(groups.batches, groups.key.headers)
<1>0. /\ found \in Lists /\ found \in Seq(Header) /\ batches \in Seq(Seq(Header))
      /\ Len(batches) \in Nat
  BY ListTypes DEF Types, TypeOK
<1>1. unkeyed = {} => Keyed
  BY DEF KeyedInv
<1>3. ASSUME NEW h \in Header, NEW t \in Text, Edit(h, t) PROVE Keyed'
  <2>1. /\ unkeyed = {} /\ pc = "idle" /\ \A g \in Header : h \notin Includes[g]
        /\ \A g \in Header : Compiles(<<g>>)' = Compiles(<<g>>)
    BY <1>3 DEF Edit, Unkeyed
  <2>2. /\ Keyed /\ pc' = "idle" /\ result' = "none"
        /\ UNCHANGED <<found, flags, extra, groups, batch, batches>>
    BY <1>1, <1>3, <2>1 DEF Edit, Forget, disk, run
  <2>3. \A g \in Header : g # h => text'[g] = text[g]
    BY <1>3 DEF Edit, Types, TypeOK
  <2>4. \A H \in SUBSET Header : Alone(H)' = Alone(H)
    BY <2>1 DEF Alone
  <2>5. GroupsRight'
    <3>1. groups \notin {None, Corrupt} => groups.key.headers \in SUBSET Header
      BY DEF Types, GroupsFile
    <3> QED BY <2>2, <2>4, <3>1 DEF Keyed, Covers
  <2>6. FilesMade'
    <3> SUFFICES ASSUME NEW d \in DOMAIN batch, batch[d] # Corrupt
                 PROVE  batch[d] = [x \in DOMAIN d.texts |-> MadeOf(d, x)']
      BY <2>2 DEF FilesMade, MadeOf
    <3>1. DOMAIN d.texts \subseteq Header
      BY DEF Types, TypeOK, BatchDigest
    <3>2. ASSUME NEW x \in DOMAIN d.texts PROVE MadeOf(d, x)' = MadeOf(d, x)
      <4>1. \A g \in Reads(x) : g = x \/ (g \in Header /\ g # h)
        <5>1. x \in Header /\ Reads(x) = {x} \cup Includes[x] /\ h \notin Includes[x]
          BY <2>1, <3>1 DEF Reads
        <5>2. \A y \in Header : Reads(y) \subseteq Header
          BY <1>0, ListTypes
        <5> QED BY <5>1, <5>2
      <4>2. \A g \in Reads(x) : g = x \/ text'[g] = text[g]
        BY <4>1, <2>3
      <4> QED BY <4>2, <2>2 DEF MadeOf
    <3>3. batch[d] = [x \in DOMAIN d.texts |-> MadeOf(d, x)]
      BY <2>2 DEF Keyed, FilesMade
    <3> QED BY <3>2, <3>3
  <2> QED BY <2>2, <2>5, <2>6 DEF Keyed
<1>4. ASSUME NEW l \in Lists, NEW f \in Flags, Rebuild(l, f) PROVE Keyed'
  <2>1. /\ Keyed /\ pc = "idle" /\ pc' = "idle" /\ result' = "none"
        /\ UNCHANGED <<text, extra, groups, batch>>
    BY <1>1, <1>4 DEF Rebuild, Forget, disk
  <2>2. FilesMade'
    BY <2>1 DEF Keyed, FilesMade, MadeOf
  <2> QED BY <2>1, <2>2 DEF Keyed, Covers, Alone, Compiles
<1>5. ASSUME NEW x \in Extra, Reconfigure(x) PROVE Keyed'
  BY <1>5 DEF Reconfigure, Unkeyed
\* What does not change in the steps of the command.
<1>6. ASSUME unkeyed' = unkeyed, UNCHANGED inputs
      PROVE  /\ Keyed /\ Cold' = Cold
             /\ \A H : Alone(H)' = Alone(H) /\ MadeAll(H)' = MadeAll(H)
             /\ \A b : Digest(b)' = Digest(b)
  BY <1>1, <1>6 DEF inputs, Cold, Split, Parsed, Alone, Compiles, MadeAll, Made, Digest
<1>2. CASE UNCHANGED vars
  <2>1. /\ Keyed
        /\ UNCHANGED <<inputs, groups, batch, spec, pc, batches, at, digest, merged,
                       result, unkeyed>>
        /\ Cold' = Cold
    BY <1>2, <1>6 DEF vars, disk, run
  <2>2. GroupsRight' /\ FilesMade' /\ (pc # "idle" => Covers(batches, Range(found))')
    BY <1>6, <2>1 DEF Keyed, Covers, FilesMade, MadeOf, inputs
  <2>3. pc = "parse" => digest' = Digest(batches[at])'
    BY <1>6, <2>1 DEF Keyed
  <2>4. pc \in {"lookup", "parse"} => merged' = MadeAll(HeldIn(batches, at - 1))' /\ result' = "none"
    BY <1>6, <2>1 DEF Keyed
  <2> QED BY <2>1, <2>2, <2>3, <2>4 DEF Keyed
<1>7. ASSUME NEW bs, Covers(bs, Range(found)), FirstBatch(bs), UNCHANGED inputs,
             unkeyed' = unkeyed, GroupsRight', FilesMade', result' = "none"
      PROVE  Keyed'
  <2>1. /\ pc' = "lookup" /\ batches' = bs /\ at' = 1 /\ merged' = Nothing
        /\ bs \in Seq(Seq(Header)) /\ Len(bs) \in Nat
    BY <1>7 DEF FirstBatch, Covers
  <2>2. merged' = MadeAll(HeldIn(batches, at - 1))'
    <3>1. at' - 1 = 0 /\ HeldIn(bs, 0) = {} /\ MadeAll({}) = Nothing
      BY <2>1, HeldAll
    <3>2. HeldIn(batches', at' - 1) = {}
      BY <2>1, <3>1
    <3>3. MadeAll({})' = Nothing
      BY <1>6, <1>7, <3>1
    <3> QED BY <2>1, <3>2, <3>3
  <2>3. Covers(batches, Range(found))'
    BY <1>6, <1>7, <2>1 DEF Covers, inputs
  <2> QED BY <1>7, <2>1, <2>2, <2>3 DEF Keyed
<1>8. Covers(Split(found), Range(found))
  BY <1>0, SplitCovers
<1>9. ASSUME NEW f \in BOOLEAN, Start(f) PROVE Keyed'
  <2> DEFINE cached == IF f THEN None ELSE groups
             usable == cached \notin {None, Corrupt} /\ cached.key = GroupKey
             bs == IF usable THEN cached.batches ELSE Split(found)
  <2>1. /\ FirstBatch(bs) /\ groups' = cached /\ batch' = IF f THEN Nothing ELSE batch
        /\ UNCHANGED inputs /\ unkeyed' = unkeyed /\ result' = "none"
    BY <1>9 DEF Start, Forget
  <2>2. Keyed
    BY <1>6, <2>1
  <2>3. GroupsRight'
    BY <2>1, <2>2, <1>6 DEF Keyed, Covers
  <2>4. Covers(bs, Range(found))
    BY <2>2, <1>8 DEF Keyed, GroupKey
  <2>5. FilesMade'
    <3>1. CASE f
      BY <2>1, <3>1 DEF FilesMade, Nothing
    <3>2. CASE ~ f
      BY <2>1, <2>2, <3>2 DEF Keyed, FilesMade, MadeOf, inputs
    <3> QED BY <3>1, <3>2
  <2> HIDE DEF bs, GroupsRight
  <2> QED BY <1>7, <2>1, <2>3, <2>4, <2>5
<1>10. CASE ParseSingle
  <2>1. /\ Keyed /\ UNCHANGED inputs /\ pc = "idle" /\ Len(found) = 1
        /\ UNCHANGED <<groups, batch, pc, batches>>
    BY <1>6, <1>10 DEF ParseSingle, run
  <2>2. result' = "ok" => spec' = MadeAll(Range(found)) /\ Compiles(found)
    BY <1>10, ParsedMade DEF ParseSingle
  <2>3. Compiles(found) => Alone(Range(found)) = Range(found)
    BY CompileAlone DEF Alone
  <2>4. result' \in {"ok", "error"} /\ (result' = "ok" => spec' = Cold)
    BY <1>0, <1>10, <2>2, <2>3, ColdMade DEF ParseSingle
  <2>5. GroupsRight' /\ FilesMade'
    BY <1>6, <1>10, <2>1 DEF Keyed, Covers, FilesMade, MadeOf, inputs, ParseSingle
  <2>6. Cold' = Cold
    BY <1>6, <1>10, <2>1 DEF ParseSingle
  <2> QED BY <2>1, <2>4, <2>5, <2>6 DEF Keyed
\* The next batch has been merged.
<1>11. ASSUME UNCHANGED <<inputs, groups, result, batches, unkeyed>>, FilesMade',
              pc \in {"lookup", "parse"}, pc' = "lookup", at \in 1..Len(batches), at' = at + 1,
              merged' = MergeAPISpec(merged, MadeAll(Range(batches[at])))
       PROVE  Keyed'
  <2>1. Keyed
    BY <1>6, <1>11
  <2>2. merged = MadeAll(HeldIn(batches, at - 1)) /\ result = "none"
    BY <1>11, <2>1 DEF Keyed
  <2>3. merged' = MadeAll(HeldIn(batches, at))
    BY <1>11, <2>2, MergeOne
  <2>4. at' - 1 = at
    BY <1>11
  <2>5. HeldIn(batches', at' - 1) = HeldIn(batches, at)
    BY <1>11, <2>4
  <2>6. merged' = MadeAll(HeldIn(batches, at - 1))'
    BY <1>6, <1>11, <2>3, <2>5
  <2>7. GroupsRight' /\ Covers(batches, Range(found))'
    BY <1>6, <1>11, <2>1 DEF Keyed, Covers, inputs
  <2> QED BY <1>11, <2>2, <2>6, <2>7 DEF Keyed
<1>12. CASE LookUp
  <2> DEFINE d == Digest(batches[at])
  <2>1. /\ Keyed /\ UNCHANGED <<inputs, groups, batch, result, batches, unkeyed>>
        /\ pc = "lookup"
        /\ at \in 1..Len(batches)
    BY <1>6, <1>12, BatchAtHand DEF LookUp, disk
  <2>2. FilesMade'
    BY <2>1 DEF Keyed, FilesMade, MadeOf, inputs
  <2>3. CASE /\ d \in DOMAIN batch /\ batch[d] # Corrupt
             /\ merged' = MergeAPISpec(merged, batch[d])
             /\ at' = at + 1 /\ pc' = pc
    <3>1. merged' = MergeAPISpec(merged, MadeAll(Range(batches[at])))
      BY <2>1, <2>3, FileUsable DEF Keyed
    <3> QED BY <1>11, <2>1, <2>2, <2>3, <3>1
  <2>4. CASE digest' = d /\ pc' = "parse" /\ UNCHANGED <<merged, at>>
    <3>1. merged' = MadeAll(HeldIn(batches, at - 1))' /\ result' = "none"
      BY <1>6, <2>1, <2>4 DEF Keyed
    <3>2. GroupsRight' /\ Covers(batches, Range(found))'
      BY <1>6, <2>1 DEF Keyed, Covers, inputs
    <3>3. digest' = Digest(batches[at])'
      BY <1>6, <2>1, <2>4
    <3> QED BY <2>1, <2>2, <2>4, <3>1, <3>2, <3>3 DEF Keyed
  <2> QED BY <1>12, <2>3, <2>4 DEF LookUp
<1>13. CASE Parse
  <2>1. /\ Keyed /\ UNCHANGED <<inputs, groups, result, batches, unkeyed>>
        /\ pc = "parse" /\ pc' = "lookup"
        /\ at \in 1..Len(batches) /\ at' = at + 1
        /\ merged' = MergeAPISpec(merged, Parsed(batches[at]))
        /\ batch' = Written(digest, Parsed(batches[at])) /\ digest = Digest(batches[at])
    BY <1>6, <1>13, BatchAtHand DEF Parse, Keyed
  <2>2. FilesMade'
    BY <2>1, FileMade DEF Keyed
  <2>3. merged' = MergeAPISpec(merged, MadeAll(Range(batches[at])))
    BY <2>1, ParsedMade
  <2> QED BY <1>11, <2>1, <2>2, <2>3
<1>14. CASE Recompute
  <2>1. /\ Keyed /\ FirstBatch(Split(found)) /\ groups' = None
        /\ UNCHANGED <<inputs, batch, result, unkeyed>>
        /\ pc = "parse"
    BY <1>6, <1>14 DEF Recompute
  <2>2. FilesMade' /\ result' = "none" /\ GroupsRight'
    BY <2>1 DEF Keyed, FilesMade, MadeOf, inputs
  <2> HIDE DEF GroupsRight
  <2> QED BY <1>7, <1>8, <2>1, <2>2
\* The command is over.
<1>15. ASSUME UNCHANGED <<inputs, unkeyed>>, pc' = "idle", GroupsRight', FilesMade', Fresh'
       PROVE  Keyed'
  BY <1>15 DEF Keyed
<1>16. CASE ParseFails
  <2>1. /\ Keyed /\ UNCHANGED <<inputs, unkeyed, groups, batch>> /\ pc' = "idle"
        /\ result' = "error"
    BY <1>6, <1>16 DEF ParseFails, End, disk
  <2>2. FilesMade' /\ GroupsRight'
    BY <1>6, <2>1 DEF Keyed, FilesMade, MadeOf, inputs, Covers
  <2> HIDE DEF GroupsRight
  <2> QED BY <1>15, <2>1, <2>2
<1>17. CASE Save
  <2>1. /\ Keyed /\ UNCHANGED <<inputs, unkeyed, groups, batch, batches>>
        /\ pc = "lookup" /\ pc' = "deferred"
        /\ at = Len(batches) + 1
    BY <1>0, <1>6, <1>17 DEF Save, run, Types, TypeOK
  <2>2. merged = MadeAll(HeldIn(batches, Len(batches)))
    <3>1. at - 1 = Len(batches)
      BY <1>0, <2>1
    <3> QED BY <2>1, <3>1 DEF Keyed
  <2>3. merged = Cold
    BY <1>0, <2>1, <2>2, HeldAll, ColdMade DEF Keyed, Covers
  <2>4. Fresh'
    BY <1>6, <1>17, <2>1, <2>3 DEF Save
  <2>5. FilesMade' /\ GroupsRight' /\ Covers(batches, Range(found))'
    BY <1>6, <2>1 DEF Keyed, FilesMade, MadeOf, inputs, Covers
  <2> QED BY <2>1, <2>4, <2>5 DEF Keyed
<1>18. Keyed /\ pc # "idle" /\ NewGroups \notin {None, Corrupt}
       => Covers(NewGroups.batches, NewGroups.key.headers)
  BY DEF Keyed, NewGroups, GroupKey
<1>19. CASE Deferred
  <2>1. /\ Keyed /\ UNCHANGED <<inputs, unkeyed, spec>> /\ pc = "deferred"
        /\ pc' = "idle" /\ result' = result
        /\ groups' = NewGroups /\ batch' = Restrict(batch, DOMAIN batch \cap digests)
    BY <1>6, <1>19 DEF Deferred, End
  <2>2. /\ DOMAIN batch' \subseteq DOMAIN batch
        /\ \A d \in DOMAIN batch' : batch'[d] = batch[d]
    BY <2>1 DEF Restrict
  <2>3. FilesMade'
    BY <2>1, <2>2, FileMade DEF Keyed
  <2>4. GroupsRight'
    BY <1>6, <1>18, <2>1 DEF Covers
  <2>5. Fresh'
    BY <1>6, <2>1 DEF Keyed
  <2> HIDE DEF GroupsRight, Fresh
  <2> QED BY <1>15, <2>1, <2>3, <2>4, <2>5
<1>20. CASE Crash
  <2>1. /\ Keyed /\ UNCHANGED <<inputs, unkeyed>> /\ pc # "idle" /\ pc' = "idle"
        /\ result' = "none"
        /\ \/ UNCHANGED <<batch, groups>>
           \/ pc = "parse" /\ batch' = Written(digest, Corrupt) /\ UNCHANGED groups
           \/ groups' \in {Corrupt, NewGroups} /\ UNCHANGED batch
    BY <1>6, <1>20 DEF Crash, End, disk
  <2>2. FilesMade'
    <3>1. CASE batch' = batch
      BY <2>1, <3>1 DEF Keyed, FilesMade, MadeOf, inputs
    <3>2. CASE pc = "parse" /\ batch' = Written(digest, Corrupt)
      BY <2>1, <3>2, FileMade DEF Keyed
    <3> QED BY <2>1, <3>1, <3>2
  <2>3. GroupsRight'
    BY <1>6, <1>18, <2>1 DEF Keyed, Covers
  <2>4. Fresh'
    BY <2>1
  <2> HIDE DEF GroupsRight, Fresh
  <2> QED BY <1>15, <2>1, <2>2, <2>3, <2>4
<1> QED
  BY <1>2, <1>3, <1>4, <1>5, <1>9, <1>10, <1>12, <1>13, <1>14, <1>16, <1>17,
     <1>19, <1>20 DEF Next, Step
-----------------------------------------------------------------------------
(***************************************************************************)
(* After success the caches are warm.                                       *)
(***************************************************************************)
\* The batch b is in the caches, and its file will not be pruned.
Filed(b) ==
  Digest(b) \in DOMAIN batch /\ batch[Digest(b)] # Corrupt /\ Digest(b) \in digests

\* What has been looked up or parsed is in the caches, and groups.json names it.
Warm ==
  /\ pc = "parse" => digest = Digest(batches[at]) /\ digest \in digests
  /\ pc \in {"lookup", "parse"} => result = "none" /\ \A j \in 1..at - 1 : Filed(batches[j])
  /\ pc = "deferred" => /\ result = "ok" => ~retried
                        /\ \A j \in 1..Len(batches) : Filed(batches[j])
  /\ pc # "idle" /\ hit /\ ~retried =>
       groups \notin {None, Corrupt} /\ groups.key = GroupKey /\ groups.batches = batches
  /\ WarmAfterSuccess

\* While no header has been edited during a command.
WarmInv == "during" \notin unkeyed => Warm

\* What is written can be read.
LEMMA Readable ==
  ASSUME Types, NEW b \in Seq(Header)
  PROVE  Parsed(b) # Corrupt
<1>1. Range(b) \in SUBSET Header
  BY RangeOfSeq
<1>2. ASSUME NEW h \in Range(b)
      PROVE  [g \in Reads(h) |-> text[g]] \in UNION {[R -> Text] : R \in SUBSET Header}
  <2>1. Reads(h) \in SUBSET Header
    BY <1>1, ListTypes DEF Types, TypeOK
  <2>2. [g \in Reads(h) |-> text[g]] \in [Reads(h) -> Text]
    BY <2>1 DEF Types, TypeOK
  <2> QED BY <2>1, <2>2
<1> DEFINE T == UNION {[R -> Text] : R \in SUBSET Header}
<1>3. T = UNION {[R -> Text] : R \in SUBSET Header}
  OBVIOUS
<1> HIDE DEF T
<1>4. Parsed(b) \in [Range(b) -> [texts : T, flags : Flags, extra : Extra]]
  BY <1>2, <1>3 DEF Parsed, Types, TypeOK
<1>5. \A H \in SUBSET Header : Corrupt \notin [H -> [texts : T, flags : Flags, extra : Extra]]
  BY <1>3, ConstantsAssumption
<1> QED BY <1>1, <1>4, <1>5

\* The groups of a command that parses can be read.
LEMMA GroupsReadable ==
  ASSUME Types
  PROVE  [key |-> GroupKey, batches |-> batches] \notin {None, Corrupt}
<1>1. [key |-> GroupKey, batches |-> batches] \in GroupsFile
  BY ListTypes DEF GroupsFile, GroupKey, Types, TypeOK
<1> QED BY <1>1, ConstantsAssumption DEF GroupsFile

\* Every step keeps it.
LEMMA WarmStep == ASSUME Types, WarmInv, [Next]_vars PROVE WarmInv'
<1> SUFFICES ASSUME "during" \notin unkeyed' PROVE Warm'
  BY DEF WarmInv
<1>0. batches \in Seq(Seq(Header)) /\ Len(batches) \in Nat
  BY DEF Types
<1>1. "during" \notin unkeyed => Warm
  BY DEF WarmInv
\* What does not change in the steps of the command.
<1>2. ASSUME unkeyed' = unkeyed, UNCHANGED inputs
      PROVE  Warm /\ GroupKey' = GroupKey /\ \A b : Digest(b)' = Digest(b)
  BY <1>1, <1>2 DEF inputs, Digest, GroupKey
<1>3. CASE UNCHANGED vars
  <2>1. /\ Warm /\ GroupKey' = GroupKey /\ \A b : Digest(b)' = Digest(b)
        /\ UNCHANGED <<found, groups, batch, pc, batches, at, digest, digests, result,
                       hit, retried, unkeyed>>
    BY <1>2, <1>3 DEF vars, disk, run, inputs
  <2> QED BY <2>1 DEF Warm, Filed, WarmAfterSuccess
<1>4. ASSUME pc' = "idle", result' # "ok" PROVE Warm'
  BY <1>4 DEF Warm, WarmAfterSuccess
<1>5. ASSUME NEW h \in Header, NEW t \in Text, Edit(h, t) PROVE Warm'
  <2>1. pc' = "idle" /\ result' = "none"
    BY <1>5 DEF Edit, Unkeyed, Forget
  <2> QED BY <1>4, <2>1
<1>6. ASSUME NEW l \in Lists, NEW f \in Flags, Rebuild(l, f) PROVE Warm'
  BY <1>4, <1>6 DEF Rebuild, Forget
<1>7. ASSUME NEW x \in Extra, Reconfigure(x) PROVE Warm'
  BY <1>4, <1>7 DEF Reconfigure, Forget
<1>8. ASSUME NEW f \in BOOLEAN, Start(f) PROVE Warm'
  <2>1. pc' = "lookup" /\ result' = "none" /\ at' - 1 = 0 /\ GroupKey' = GroupKey
    BY <1>8 DEF Start, FirstBatch, Forget, inputs, GroupKey
  <2>2. hit' => /\ groups' \notin {None, Corrupt} /\ groups'.key = GroupKey
                /\ groups'.batches = batches'
    BY <1>8 DEF Start, FirstBatch
  <2> QED BY <2>1, <2>2 DEF Warm, WarmAfterSuccess
<1>9. CASE ParseSingle
  <2>1. pc' = "idle" /\ ~ (Len(found') > 1)
    BY <1>9 DEF ParseSingle, inputs
  <2> QED BY <2>1 DEF Warm, WarmAfterSuccess
\* A batch more is in the caches.
<1>10. ASSUME UNCHANGED <<inputs, groups, result, batches, hit, retried, unkeyed>>,
              pc \in {"lookup", "parse"}, pc' = "lookup", at \in 1..Len(batches), at' = at + 1,
              \A j \in 1..at : Filed(batches[j])'
       PROVE  Warm'
  <2>1. Warm /\ GroupKey' = GroupKey
    BY <1>2, <1>10
  <2>2. at' - 1 = at
    BY <1>10
  <2>3. \A j \in 1..at' - 1 : Filed(batches[j])'
    BY <1>10, <2>2
  <2> QED BY <1>10, <2>1, <2>3 DEF Warm, WarmAfterSuccess
<1>11. CASE LookUp
  <2> DEFINE d == Digest(batches[at])
  <2>1. /\ Warm
        /\ UNCHANGED <<inputs, groups, batch, result, batches, hit, retried, unkeyed>>
        /\ pc = "lookup" /\ at \in 1..Len(batches) /\ digests' = digests \cup {d}
        /\ \A b : Digest(b)' = Digest(b) /\ GroupKey' = GroupKey
    BY <1>2, <1>11, BatchAtHand DEF LookUp, disk
  <2>2. \A j \in 1..at - 1 : Filed(batches[j])'
    BY <2>1 DEF Warm, Filed
  <2>3. CASE d \in DOMAIN batch /\ batch[d] # Corrupt /\ at' = at + 1 /\ pc' = pc
    <3>1. ASSUME NEW j \in 1..at PROVE Filed(batches[j])'
      BY <2>1, <2>2, <2>3 DEF Filed
    <3> QED BY <1>10, <2>1, <2>3, <3>1
  <2>4. CASE digest' = d /\ pc' = "parse" /\ at' = at
    <3>1. digest' = Digest(batches[at])' /\ digest' \in digests'
      BY <2>1, <2>4
    <3>2. \A j \in 1..at' - 1 : Filed(batches[j])'
      BY <2>2, <2>4
    <3> QED BY <2>1, <2>4, <3>1, <3>2 DEF Warm, WarmAfterSuccess
  <2> QED BY <1>11, <2>3, <2>4 DEF LookUp
<1>12. CASE Parse
  <2>1. /\ Warm
        /\ UNCHANGED <<inputs, groups, result, batches, hit, retried, unkeyed, digests>>
        /\ pc = "parse" /\ pc' = "lookup" /\ at \in 1..Len(batches) /\ at' = at + 1
        /\ batch' = Written(digest, Parsed(batches[at])) /\ \A b : Digest(b)' = Digest(b)
    BY <1>2, <1>12, BatchAtHand DEF Parse
  <2>2. /\ digest = Digest(batches[at]) /\ digest \in digests
        /\ Parsed(batches[at]) # Corrupt
    BY <2>1, BatchAtHand, Readable DEF Warm
  <2>3. ASSUME NEW j \in 1..at PROVE Filed(batches[j])'
    <3>1. j = at \/ Filed(batches[j])
      BY <2>1 DEF Warm
    <3> QED BY <2>1, <2>2, <3>1 DEF Filed, Written
  <2> QED BY <1>10, <2>1, <2>3
<1>13. CASE Recompute
  <2>1. /\ Warm /\ pc' = "lookup" /\ at' - 1 = 0 /\ retried' = TRUE /\ result' = "none"
    BY <1>2, <1>13 DEF Recompute, FirstBatch, Warm
  <2> QED BY <2>1 DEF Warm, WarmAfterSuccess
<1>14. CASE ParseFails
  BY <1>4, <1>14 DEF ParseFails, End
<1>15. CASE Save
  <2>1. /\ Warm
        /\ UNCHANGED <<inputs, groups, batch, batches, digests, hit, retried, at>>
        /\ pc = "lookup"
        /\ pc' = "deferred" /\ at = Len(batches) + 1 /\ (result' = "ok" => ~retried)
        /\ \A b : Digest(b)' = Digest(b) /\ GroupKey' = GroupKey
    BY <1>0, <1>2, <1>15 DEF Save, run, Types, TypeOK
  <2>2. at - 1 = Len(batches)
    BY <1>0, <2>1
  <2>3. \A j \in 1..Len(batches) : Filed(batches[j])'
    BY <2>1, <2>2 DEF Warm, Filed
  <2> QED BY <2>1, <2>3 DEF Warm, WarmAfterSuccess
<1>16. CASE Deferred
  <2>1. /\ Warm /\ UNCHANGED inputs /\ pc = "deferred" /\ pc' = "idle" /\ result' = result
        /\ groups' = NewGroups /\ batch' = Restrict(batch, DOMAIN batch \cap digests)
        /\ \A b : Digest(b)' = Digest(b) /\ GroupKey' = GroupKey
    BY <1>2, <1>16 DEF Deferred, End
  <2> SUFFICES ASSUME result = "ok", Len(found) > 1
               PROVE  /\ NewGroups \notin {None, Corrupt} /\ NewGroups.key = GroupKey
                      /\ \A b \in Range(NewGroups.batches) :
                           Digest(b) \in DOMAIN batch' /\ batch'[Digest(b)] # Corrupt
    BY <2>1 DEF Warm, WarmAfterSuccess, inputs
  <2>2. /\ NewGroups \notin {None, Corrupt} /\ NewGroups.key = GroupKey
        /\ NewGroups.batches = batches
    <3>1. CASE ~ hit
      BY <3>1, GroupsReadable DEF NewGroups
    <3>2. CASE hit
      BY <2>1, <3>2 DEF NewGroups, Warm
    <3> QED BY <3>1, <3>2
  <2>3. ASSUME NEW b \in Range(batches)
        PROVE  Digest(b) \in DOMAIN batch' /\ batch'[Digest(b)] # Corrupt
    <3>1. PICK j \in 1..Len(batches) : b = batches[j]
      BY <1>0, RangeEquality
    <3>2. Filed(b)
      BY <2>1, <3>1 DEF Warm
    <3> QED BY <2>1, <3>2 DEF Filed, Restrict
  <2> QED BY <2>2, <2>3
<1>17. CASE Crash
  BY <1>4, <1>17 DEF Crash, End
<1> QED
  BY <1>3, <1>5, <1>6, <1>7, <1>8, <1>9, <1>11, <1>12, <1>13, <1>14, <1>15,
     <1>16, <1>17 DEF Next, Step
-----------------------------------------------------------------------------
(***************************************************************************)
(* The theorems.                                                            *)
(***************************************************************************)
\* The types are right.
LEMMA TypesAlways == Spec => []Types
<1>1. Init => Types
  <2> SUFFICES ASSUME Init PROVE Types
    OBVIOUS
  <2>1. batches \in Seq(Seq(Header)) /\ at \in 1..Len(batches) + 1
    BY DEF Init
  <2>2. DOMAIN batch = {} /\ groups = None
    BY DEF Init, Nothing
  <2> QED BY <2>1, <2>2 DEF Init, Types, TypeOK
<1>2. Types /\ [Next]_vars => Types'
  BY TypesStep
<1> QED BY <1>1, <1>2, PTL DEF Spec

\* What parse-headers writes, whatever it has taken from its two caches, and
\* whatever failed, was killed or was computed afresh before, is what it would
\* write without them, as long as every change was one their keys cover: the
\* headers that compile alone have not changed, nor has a header that others
\* include, nor what no key covers.
THEOREM KeyedAlways == Spec => []KeyedSpecIsFresh
<1>1. Init => KeyedInv
  BY DEF Init, KeyedInv, Keyed, FilesMade, Nothing
<1>2. Types /\ KeyedInv /\ [Next]_vars => KeyedInv'
  BY KeyedStep
<1>3. KeyedInv => KeyedSpecIsFresh
  BY DEF KeyedInv, Keyed, KeyedSpecIsFresh, SpecIsFresh
<1> QED BY <1>1, <1>2, <1>3, TypesAlways, PTL DEF Spec

\* After a successful parse-headers, another one with nothing changed finds
\* every batch in the caches: none of their files has been pruned or lost.
THEOREM WarmAlways == Spec => []WarmAfterSuccess
<1>1. Init => WarmInv
  BY DEF Init, WarmInv, Warm, WarmAfterSuccess
<1>2. Types /\ WarmInv /\ [Next]_vars => WarmInv'
  BY WarmStep
<1>3. WarmInv => WarmAfterSuccess
  BY DEF WarmInv, Warm, WarmAfterSuccess
<1> QED BY <1>1, <1>2, <1>3, TypesAlways, PTL DEF Spec
=============================================================================
