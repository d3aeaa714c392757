------------------------- MODULE HeaderValuesProofs -------------------------
(* The codec of transport/headers.go, for every string: what the server    *)
(* reads is what the client wrote, net/http in between.                    *)
EXTENDS HeaderValues, SequenceTheorems, WellFoundedInduction, TLAPS

LEMMA StringsAreSequences == Strings \subseteq Seq(Int)
<1> SUFFICES ASSUME NEW s \in Strings
             PROVE  s \in Seq(Int)
  OBVIOUS
<1>1. s \in Seq(Chars)
  BY DEF Strings
<1>2. Chars \subseteq Int
  BY DEF Chars
<1> QED
  BY <1>1, <1>2, SeqMonotonic, Zenon

LEMMA CharsOfString ==
  ASSUME NEW s \in Strings, NEW i \in 1 .. Len(s)
  PROVE  s[i] \in 1 .. 31
<1>1. s \in Seq(Chars)
  BY DEF Strings
<1>2. s[i] \in Chars
  BY <1>1, ElementOfSeq, Zenon
<1> QED
  BY <1>2 DEF Chars

LEMMA Joined ==
  ASSUME NEW s \in Seq(Int), NEW t \in Seq(Int)
  PROVE  /\ s \o t \in Seq(Int) /\ Len(s \o t) = Len(s) + Len(t) /\ Len(s) \in Nat
         /\ SubSeq(s \o t, 1, Len(s)) = s
         /\ SubSeq(s \o t, Len(s) + 1, Len(s) + Len(t)) = t
OBVIOUS

LEMMA Shifted ==
  ASSUME NEW s \in Seq(Int), NEW t, t = [i \in 1 .. Len(s) |-> s[i] + 20]
  PROVE  /\ t \in Seq(Int) /\ Len(t) = Len(s)
         /\ [i \in 1 .. Len(t) |-> t[i] - 20] = s
OBVIOUS

LEMMA BitsApart == \A c \in Base64 : c \notin Stray
BY DEF Base64, Stray

(* An encoded string is text in Base64, and that text decodes to it. *)
LEMMA TextDecodes ==
  ASSUME NEW s \in Strings
  PROVE  /\ EncodeString(s) \in Seq(Int)
         /\ Decodable(EncodeString(s))
         /\ DecodeString(EncodeString(s)) = s
<1>1. s \in Seq(Int)
  BY StringsAreSequences
<1>2. /\ EncodeString(s) \in Seq(Int) /\ Len(EncodeString(s)) = Len(s)
      /\ [i \in 1 .. Len(EncodeString(s)) |-> EncodeString(s)[i] - 20] = s
  BY <1>1, Shifted DEF EncodeString
<1>3. ASSUME NEW i \in 1 .. Len(s)
      PROVE  EncodeString(s)[i] \in Base64
  <2>1. EncodeString(s)[i] = s[i] + 20
    BY DEF EncodeString
  <2>2. s[i] \in 1 .. 31
    BY CharsOfString
  <2>3. \A c \in 1 .. 31 : c + 20 \in 21 .. 51
    OBVIOUS
  <2> QED
    BY <2>1, <2>2, <2>3, Zenon DEF Base64
<1>4. \A i \in 1 .. Len(s) : EncodeString(s)[i] \notin Stray
  BY <1>3, BitsApart
<1>5. DecodeString(EncodeString(s)) = [i \in 1 .. Len(EncodeString(s)) |-> EncodeString(s)[i] - 20]
  BY <1>2, <1>4 DEF DecodeString
<1> QED
  BY <1>2, <1>3, <1>5 DEF Decodable

LEMMA PrefixFacts == Prefix \in Seq(Int) /\ Len(Prefix) = 4 /\ Prefix[1] = Equals /\ Prefix[4] = Question
BY DEF Prefix, Equals, Question, Word

LEMMA SuffixFacts == Suffix \in Seq(Int) /\ Len(Suffix) = 2 /\ Suffix[2] = Equals
BY DEF Suffix, Equals, Question

(* The suffix is found at the end of a text it was put behind. *)
LEMMA SuffixTrimmed ==
  ASSUME NEW t \in Seq(Int)
  PROVE  HasSuffix(t \o Suffix) /\ TrimSuffix(t \o Suffix) = t
<1>1. Len(t \o Suffix) = Len(t) + 2 /\ Len(t) \in Nat
  BY SuffixFacts, Joined
<1>2. SubSeq(t \o Suffix, 1, Len(t)) = t
  BY SuffixFacts, Joined
<1>3. SubSeq(t \o Suffix, Len(t) + 1, Len(t) + 2) = Suffix
  BY SuffixFacts, Joined
<1>4. Len(t) + 2 - 1 = Len(t) + 1 /\ Len(t) + 2 - 2 = Len(t) /\ Len(t) + 2 >= 2
  BY <1>1
<1>5. HasSuffix(t \o Suffix)
  BY <1>1, <1>3, <1>4 DEF HasSuffix
<1> QED
  BY <1>1, <1>2, <1>4, <1>5 DEF TrimSuffix

(* So is the prefix before it. *)
LEMMA PrefixTrimmed ==
  ASSUME NEW t \in Seq(Int)
  PROVE  HasPrefix(Prefix \o t) /\ TrimPrefix(Prefix \o t) = t
<1>1. Len(Prefix \o t) = 4 + Len(t) /\ Len(t) \in Nat
  BY PrefixFacts, Joined
<1>2. SubSeq(Prefix \o t, 1, 4) = Prefix
  BY PrefixFacts, Joined
<1>3. SubSeq(Prefix \o t, 5, 4 + Len(t)) = t
  <2>1. SubSeq(Prefix \o t, Len(Prefix) + 1, Len(Prefix) + Len(t)) = t
    BY PrefixFacts, Joined, Zenon
  <2>2. Len(Prefix) + 1 = 5
    BY PrefixFacts
  <2> QED
    BY <2>1, <2>2, PrefixFacts, Zenon
<1>4. 4 + Len(t) >= 4
  BY <1>1
<1> QED
  BY <1>1, <1>2, <1>3, <1>4 DEF HasPrefix, TrimPrefix

LEMMA Rejoined ==
  ASSUME NEW t \in Seq(Int)
  PROVE  Prefix \o (t \o Suffix) = Prefix \o t \o Suffix
<1>1. \A p, u, v \in Seq(Int) : (p \o u) \o v = p \o (u \o v)
  OBVIOUS
<1> QED
  BY <1>1, PrefixFacts, SuffixFacts, Zenon

Wrapped(t) == Prefix \o t \o Suffix

(* Text between the sentinels has both, is what is left without them, and  *)
(* has no blank at its ends.                                               *)
LEMMA WrappedTrims ==
  ASSUME NEW t \in Seq(Int)
  PROVE  /\ Wrapped(t) \in Seq(Int)
         /\ Wrapped(t)[1] = Equals /\ Wrapped(t)[Len(Wrapped(t))] = Equals
         /\ HasPrefix(Wrapped(t)) /\ HasSuffix(Wrapped(t))
         /\ TrimSuffix(TrimPrefix(Wrapped(t))) = t
<1>1. t \o Suffix \in Seq(Int) /\ Prefix \o t \in Seq(Int)
  BY PrefixFacts, SuffixFacts, Joined
<1>2. Wrapped(t) = Prefix \o (t \o Suffix)
  BY Rejoined DEF Wrapped
<1>3. HasPrefix(Wrapped(t)) /\ TrimPrefix(Wrapped(t)) = t \o Suffix
  BY <1>1, <1>2, PrefixTrimmed
<1>4. HasSuffix(Wrapped(t))
  BY <1>1, SuffixTrimmed DEF Wrapped
<1>5. TrimSuffix(t \o Suffix) = t
  BY SuffixTrimmed
<1>6. Wrapped(t) \in Seq(Int)
  BY <1>1, <1>2, PrefixFacts, Joined
<1>7. Wrapped(t)[1] = Equals
  <2>1. \A i \in 1 .. Len(Prefix) : (Prefix \o (t \o Suffix))[i] = Prefix[i]
    <3>1. \A p, u \in Seq(Int) : \A i \in 1 .. Len(p) : (p \o u)[i] = p[i]
      OBVIOUS
    <3> QED
      BY <1>1, <3>1, PrefixFacts, Zenon
  <2>2. 1 \in 1 .. Len(Prefix)
    BY PrefixFacts
  <2>3. (Prefix \o (t \o Suffix))[1] = Prefix[1]
    BY <2>1, <2>2
  <2> QED
    BY <1>2, <2>3, PrefixFacts, Zenon
<1>8. Wrapped(t)[Len(Wrapped(t))] = Equals
  <2>1. Len(Wrapped(t)) = Len(Prefix \o t) + 2 /\ Len(Prefix \o t) \in Nat
    BY <1>1, SuffixFacts, Joined DEF Wrapped
  <2>2. Wrapped(t)[Len(Prefix \o t) + 2] = Suffix[2]
    BY <1>1, <2>1, SuffixFacts, ConcatProperties DEF Wrapped
  <2> QED
    BY <2>1, <2>2, SuffixFacts
<1> QED
  BY <1>3, <1>4, <1>5, <1>6, <1>7, <1>8

(* What neither begins nor ends with a blank is left as it is. *)
LEMMA Untrimmed ==
  ASSUME NEW s \in Seq(Int), s # <<>> => s[1] # Blank /\ s[Len(s)] # Blank
  PROVE  Trimmed(s) = s
<1>1. Len(s) \in Nat
  BY LenProperties
<1>2. CASE s = <<>>
  <2>1. Kept(s) = {}
    BY <1>2 DEF Kept
  <2> QED
    BY <1>2, <2>1 DEF Trimmed
<1>3. CASE s # <<>>
  <2>1. Len(s) \in Nat \ {0}
    BY <1>3, EmptySeq
  <2>2. 1 \in Kept(s) /\ Len(s) \in Kept(s) /\ \A i \in Kept(s) : 1 <= i /\ i <= Len(s) /\ i \in Int
    BY <1>3, <2>1 DEF Kept
  <2> DEFINE first == CHOOSE i \in Kept(s) : \A j \in Kept(s) : i <= j
             final == CHOOSE i \in Kept(s) : \A j \in Kept(s) : i >= j
  <2>3. first = 1
    <3>1. first \in Kept(s) /\ \A j \in Kept(s) : first <= j
      BY <2>2
    <3> QED
      BY <3>1, <2>2
  <2>4. final = Len(s)
    <3>1. final \in Kept(s) /\ \A j \in Kept(s) : final >= j
      BY <2>1, <2>2
    <3> QED
      BY <2>1, <3>1, <2>2
  <2>5. Trimmed(s) = SubSeq(s, first, final)
    BY <2>2 DEF Trimmed
  <2> QED
    BY <2>3, <2>4, <2>5, SubSeqFull
<1> QED
  BY <1>2, <1>3

(* "DecodeHeaderValue reverses EncodeHeaderValue": whatever the string, the*)
(* server reads back the value the client encoded, after net/http has      *)
(* removed the blanks around it, and reports no error.                     *)
THEOREM DecodeReversesEncode ==
  ASSUME NEW s \in Strings
  PROVE  LET h == Trimmed(EncodeHeaderValue(s))
         IN  DecodeHeaderValue(h) = s /\ ~DecodeFails(h)
<1> DEFINE e == EncodeHeaderValue(s)
<1>1. s \in Seq(Int)
  BY StringsAreSequences
<1>2. CASE needsBase64Encoding(s)
  <2> DEFINE t == EncodeString(s)
  <2>1. e = Wrapped(t)
    BY <1>2 DEF EncodeHeaderValue, Wrapped
  <2>2. t \in Seq(Int) /\ Decodable(t) /\ DecodeString(t) = s
    BY TextDecodes
  <2>3. /\ e \in Seq(Int) 
        /\ e[1] = Equals /\ e[Len(e)] = Equals
        /\ HasPrefix(e) /\ HasSuffix(e) /\ TrimSuffix(TrimPrefix(e)) = t
    BY <2>1, <2>2, WrappedTrims
  <2>4. Trimmed(e) = e
    BY <2>3, Untrimmed DEF Equals, Blank
  <2> HIDE DEF e, t
  <2> QED
    BY <2>2, <2>3, <2>4 DEF DecodeHeaderValue, DecodeFails, e, t
<1>3. CASE ~needsBase64Encoding(s)
  <2>1. e = s
    BY <1>3 DEF EncodeHeaderValue
  <2>2. s # <<>> => s[1] # Blank /\ s[Len(s)] # Blank
    BY <1>3 DEF needsBase64Encoding
  <2>3. Trimmed(e) = s
    BY <1>1, <2>1, <2>2, Untrimmed
  <2>4. ~(HasPrefix(s) /\ HasSuffix(s))
    BY <1>3 DEF needsBase64Encoding
  <2> QED
    BY <2>3, <2>4 DEF DecodeHeaderValue, DecodeFails
<1> QED
  BY <1>2, <1>3

LEMMA Split ==
  ASSUME NEW s \in Seq(Int), NEW n \in 0 .. Len(s)
  PROVE  /\ SubSeq(s, 1, n) \in Seq(Int) /\ SubSeq(s, n + 1, Len(s)) \in Seq(Int)
         /\ SubSeq(s, 1, n) \o SubSeq(s, n + 1, Len(s)) = s
         /\ n < Len(s) => /\ Len(SubSeq(s, n + 1, Len(s))) = Len(s) - n
                          /\ SubSeq(s, n + 1, Len(s))[Len(s) - n] = s[Len(s)]
<1>1. SubSeq(s, 1, n) \in Seq(Int) /\ SubSeq(s, n + 1, Len(s)) \in Seq(Int)
  OBVIOUS
<1>2. SubSeq(s, 1, n) \o SubSeq(s, n + 1, Len(s)) = s
  <2>1. SubSeq(s, 1, n) \o SubSeq(s, n + 1, Len(s)) = SubSeq(s, 1, Len(s))
    <3>1. 1 \in 1 .. Len(s) + 1 /\ n \in 1 - 1 .. Len(s) /\ Len(s) \in n .. Len(s)
      OBVIOUS
    <3> QED
      BY <3>1, ConcatAdjacentSubSeq, Zenon
  <2> QED
    BY <2>1, SubSeqFull
<1>3. n < Len(s) => Len(SubSeq(s, n + 1, Len(s))) = Len(s) - n
  OBVIOUS
<1>4. n < Len(s) => SubSeq(s, n + 1, Len(s))[Len(s) - n] = s[Len(s)]
  OBVIOUS
<1> QED
  BY <1>1, <1>2, <1>3, <1>4

LEMMA HeaderTextsAreSequences == HeaderTexts \subseteq Seq(Int)
<1> SUFFICES ASSUME NEW s \in HeaderTexts
             PROVE  s \in Seq(Int)
  OBVIOUS
<1>1. Chars \cup Base64 \cup Stray \subseteq Int
  BY DEF Chars, Base64, Stray
<1> QED
  BY <1>1, SeqMonotonic, Zenon DEF HeaderTexts

LEMMA HasLeast ==
  ASSUME NEW T \in SUBSET Nat, T # {}
  PROVE  \E x \in T : \A y \in T : x <= y
<1> DEFINE R == OpToRel(<, Nat)
<1>1. IsWellFoundedOn(R, Nat)
  BY NatLessThanWellFounded, Zenon
<1>2. \A x, y \in Nat : <<y, x>> \notin R => x <= y
  BY DEF OpToRel
<1> HIDE DEF R
<1>3. \E x \in T : \A y \in T : <<y, x>> \notin R
  BY <1>1, WFMin, Zenon
<1> QED
  BY <1>2, <1>3

LEMMA HasGreatest ==
  ASSUME NEW n \in Nat, NEW T \in SUBSET (1 .. n), T # {}
  PROVE  \E x \in T : \A y \in T : x >= y
<1> DEFINE U == {n - i : i \in T}
<1>1. \A i \in T : i \in Nat /\ i <= n
  OBVIOUS
<1>2. \A i \in T : n - i \in Nat
  BY <1>1
<1>3. U \in SUBSET Nat /\ U # {}
  BY <1>2, Zenon
<1>4. PICK x \in U : \A y \in U : x <= y
  BY <1>3, HasLeast
<1>5. PICK i \in T : x = n - i
  BY <1>4
<1>6. \A j \in T : n - i <= n - j
  BY <1>4, <1>5
<1>7. \A j \in T : i >= j
  BY <1>1, <1>6
<1> QED
  BY <1>7

LEMMA TrimmedType ==
  ASSUME NEW s \in Seq(Int)
  PROVE  Trimmed(s) \in Seq(Int)
<1>1. CASE Kept(s) = {}
  BY <1>1 DEF Trimmed
<1>2. CASE Kept(s) # {}
  <2> DEFINE first == CHOOSE i \in Kept(s) : \A j \in Kept(s) : i <= j
             final == CHOOSE i \in Kept(s) : \A j \in Kept(s) : i >= j
  <2>1. Len(s) \in Nat
    OBVIOUS
  <2>2. Kept(s) \in SUBSET (1 .. Len(s)) /\ Kept(s) \in SUBSET Nat
    BY <2>1 DEF Kept
  <2>3. first \in Kept(s)
    BY <1>2, <2>2, HasLeast
  <2>4. final \in Kept(s)
    BY <1>2, <2>1, <2>2, HasGreatest
  <2>5. \A m, n \in 1 .. Len(s) : SubSeq(s, m, n) \in Seq(Int)
    OBVIOUS
  <2>6. Trimmed(s) = SubSeq(s, first, final)
    BY <1>2 DEF Trimmed
  <2> HIDE DEF first, final
  <2> QED
    BY <2>2, <2>3, <2>4, <2>5, <2>6
<1> QED
  BY <1>1, <1>2

(* The last character of a text that decodes may have been given unused   *)
(* bits; the others are those of the encoding.                             *)
LEMMA TextIsOneOf ==
  ASSUME NEW t \in Seq(Int), Decodable(t)
  PROVE  t \in TextsOf(DecodeString(t))
<1> DEFINE s == DecodeString(t)
           n == Len(t)
<1>1. n \in Nat /\ DOMAIN t = 1 .. n /\ t = [i \in 1 .. n |-> t[i]] /\ \A i \in 1 .. n : t[i] \in Int
  BY LenProperties, ElementOfSeq
<1>2. s = [i \in 1 .. n |-> t[i] - (IF t[i] \in Stray THEN 60 ELSE 20)]
  BY DEF DecodeString
<1>3. s \in Seq(Int) /\ Len(s) = n
  BY <1>1, <1>2
<1>4. EncodeString(s) = [i \in 1 .. n |-> t[i] - (IF t[i] \in Stray THEN 40 ELSE 0)]
  BY <1>1, <1>2, <1>3 DEF EncodeString
<1>5. \A i \in 1 .. n : i # n => t[i] \notin Stray
  BY BitsApart DEF Decodable
<1>6. CASE \A i \in 1 .. n : t[i] \notin Stray
  <2>1. EncodeString(s) = t
    BY <1>1, <1>4, <1>6
  <2> QED
    BY <2>1 DEF TextsOf
<1>7. CASE \E i \in 1 .. n : t[i] \in Stray
  <2>1. n \in 1 .. n /\ t[n] \in Stray
    BY <1>5, <1>7
  <2> DEFINE e == EncodeString(s)
  <2>2. DOMAIN e = 1 .. n /\ Len(e) = n
    BY <1>1, <1>4
  <2>3. [e EXCEPT ![n] = @ + 40] = [i \in 1 .. n |-> IF i = n THEN e[n] + 40 ELSE e[i]]
    BY <2>2
  <2>4. \A i \in 1 .. n : (IF i = n THEN e[n] + 40 ELSE e[i]) = t[i]
    BY <1>1, <1>4, <1>5, <2>1
  <2>5. [e EXCEPT ![n] = @ + 40] = t
    BY <1>1, <2>3, <2>4
  <2> QED
    BY <2>1, <2>2, <2>5 DEF TextsOf
<1> QED
  BY <1>6, <1>7

LEMMA SuffixEnds ==
  ASSUME NEW s \in Seq(Int), HasSuffix(s)
  PROVE  s[Len(s)] = Equals
<1>1. Len(s) \in Nat /\ Len(s) >= 2 /\ SubSeq(s, Len(s) - 1, Len(s)) = Suffix
  BY DEF HasSuffix
<1>2. \A n \in 1 .. Len(s) : SubSeq(s, n, Len(s))[Len(s) - n + 1] = s[Len(s)]
  OBVIOUS
<1>3. Len(s) - 1 \in 1 .. Len(s) /\ Len(s) - (Len(s) - 1) + 1 = 2
  BY <1>1
<1>4. SubSeq(s, Len(s) - 1, Len(s))[2] = s[Len(s)]
  BY <1>2, <1>3
<1> QED
  BY <1>1, <1>4, SuffixFacts

LEMMA PrefixEnds ==
  ASSUME NEW s \in Seq(Int), HasPrefix(s)
  PROVE  s[4] = Question
<1>1. Len(s) \in Nat /\ Len(s) >= 4 /\ SubSeq(s, 1, 4) = Prefix
  BY DEF HasPrefix
<1>2. \A n \in 1 .. Len(s) : SubSeq(s, 1, n)[n] = s[n]
  OBVIOUS
<1> QED
  BY <1>1, <1>2, PrefixFacts

LEMMA EqualsUndecodable ==
  ASSUME NEW u, Len(u) \in Nat \ {0}, u[Len(u)] = Equals
  PROVE  ~Decodable(u)
<1>1. Len(u) \in 1 .. Len(u)
  OBVIOUS
<1>2. Equals \notin Base64 /\ Equals \notin Stray
  BY DEF Equals, Base64, Stray
<1> QED
  BY <1>1, <1>2, Zenon DEF Decodable

LEMMA FourOf == \A n \in Nat : n >= 4 /\ n # 4 => 4 \in 0 .. n /\ 4 < n /\ 4 + 1 = 5
OBVIOUS

(* What is read from a header stands in it plainly, or encoded between the *)
(* sentinels, where only bits that the padding leaves unused may differ    *)
(* from what EncodeHeaderValue writes: StdEncoding ignores those.          *)
THEOREM DecodesOnlyItsForms ==
  ASSUME NEW s \in Seq(Int), ~DecodeFails(s)
  PROVE  \/ s = DecodeHeaderValue(s)
         \/ \E t \in TextsOf(DecodeHeaderValue(s)) : s = Prefix \o t \o Suffix
<1>1. CASE ~(HasPrefix(s) /\ HasSuffix(s))
  BY <1>1 DEF DecodeHeaderValue
<1>2. CASE HasPrefix(s) /\ HasSuffix(s)
  <2> DEFINE u == TrimPrefix(s)
             t == TrimSuffix(u)
  <2>1. Len(s) \in Nat /\ Len(s) >= 4
    BY <1>2 DEF HasPrefix
  <2>2. u \in Seq(Int) /\ s = Prefix \o u
    <3>1. SubSeq(s, 1, 4) = Prefix
      BY <1>2 DEF HasPrefix
    <3>2. 4 \in 0 .. Len(s) /\ 4 + 1 = 5
      BY <2>1
    <3>3. SubSeq(s, 5, Len(s)) \in Seq(Int) /\ SubSeq(s, 1, 4) \o SubSeq(s, 5, Len(s)) = s
      BY <3>2, Split
    <3> QED
      BY <3>1, <3>3 DEF TrimPrefix
  <2>3. HasSuffix(u)
    <3> SUFFICES ASSUME ~HasSuffix(u)
                 PROVE  FALSE
      OBVIOUS
    <3>1. Decodable(u)
      BY <1>2 DEF DecodeFails, TrimSuffix
    <3>2. s[Len(s)] = Equals
      BY <1>2, SuffixEnds
    <3>3. Len(s) # 4
      BY <1>2, <3>2, PrefixEnds DEF Equals, Question
    <3>4. Len(u) \in Nat \ {0} /\ u[Len(u)] = Equals
      <4>1. 4 \in 0 .. Len(s) /\ 4 < Len(s) /\ 4 + 1 = 5
        BY <2>1, <3>3, FourOf
      <4>2. Len(SubSeq(s, 5, Len(s))) = Len(s) - 4 /\ SubSeq(s, 5, Len(s))[Len(s) - 4] = s[Len(s)]
        BY <4>1, Split
      <4>3. Len(u) = Len(s) - 4 /\ u[Len(s) - 4] = s[Len(s)]
        BY <4>2 DEF TrimPrefix
      <4> QED
        BY <4>1, <4>3, <2>1, <3>2
    <3> QED
      BY <3>1, <3>4, EqualsUndecodable, Zenon
  <2>4. t \in Seq(Int) /\ u = t \o Suffix
    <3>1. Len(u) \in Nat /\ Len(u) >= 2 /\ SubSeq(u, Len(u) - 1, Len(u)) = Suffix
      BY <2>2, <2>3 DEF HasSuffix
    <3>2. Len(u) - 2 \in 0 .. Len(u) /\ (Len(u) - 2) + 1 = Len(u) - 1
      BY <3>1
    <3>3. /\ SubSeq(u, 1, Len(u) - 2) \in Seq(Int)
          /\ SubSeq(u, 1, Len(u) - 2) \o SubSeq(u, (Len(u) - 2) + 1, Len(u)) = u
      BY <2>2, <3>2, Split
    <3> QED
      BY <2>3, <3>1, <3>2, <3>3 DEF TrimSuffix
  <2>5. DecodeHeaderValue(s) = DecodeString(t)
    BY <1>2 DEF DecodeHeaderValue
  <2>6. t \in TextsOf(DecodeString(t))
    BY <1>2, <2>4, TextIsOneOf DEF DecodeFails
  <2>7. s = Prefix \o t \o Suffix
    BY <2>2, <2>4, Rejoined
  <2> HIDE DEF t
  <2> QED
    BY <2>5, <2>6, <2>7
<1> QED
  BY <1>1, <1>2
=============================================================================
