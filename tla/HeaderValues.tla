---------------------------- MODULE HeaderValues ----------------------------
(***************************************************************************)
(* transport/headers.go and the comparison of mcp/xmcpheader.go: how a     *)
(* string of the request's body is written as the value of an HTTP header, *)
(* and how the server reads it back.                                       *)
(*                                                                         *)
(* A string is a sequence of characters, each standing for a class of them *)
(* that the code tells apart; "base64" between its question marks is one   *)
(* character.  Base64 text is visible ASCII: 21 is the encoding of 1, and  *)
(* may as well be a character of a plain string.  The last character of a  *)
(* text may have bits that its padding leaves unused; StdEncoding is not   *)
(* strict and ignores them: 61 decodes to 1 like 21, as "QR==" does to the *)
(* "A" of "QQ==".  (A text without padding has no such bits; texts of every*)
(* length are given them here.)                                            *)
(***************************************************************************)
EXTENDS Integers, Sequences

Equals   == 1   \* '='
Question == 2   \* '?'
Word     == 3   \* the text "base64"
Blank    == 4   \* a space or a tab
Other    == 5   \* visible ASCII
Foreign  == 6   \* a control character, or outside ASCII
True     == 7   \* the text "true"
False    == 8   \* the text "false"
One      == 9   \* the text "1"
OneDot   == 10  \* the text "1.0"
Two      == 11  \* the text "2"

Chars       == 1 .. 31
Base64      == 21 .. 51
Stray       == 61 .. 91
Strings     == Seq(Chars)
HeaderTexts == Seq(Chars \cup Base64 \cup Stray)

Prefix == <<Equals, Question, Word, Question>>
Suffix == <<Question, Equals>>

HasPrefix(s) == Len(s) >= 4 /\ SubSeq(s, 1, 4) = Prefix
HasSuffix(s) == Len(s) >= 2 /\ SubSeq(s, Len(s) - 1, Len(s)) = Suffix

(* strings.TrimSuffix leaves alone what does not end in the suffix: the    *)
(* question mark that prefix and suffix may share is trimmed only once.    *)
TrimPrefix(s) == SubSeq(s, 5, Len(s))
TrimSuffix(s) == IF HasSuffix(s) THEN SubSeq(s, 1, Len(s) - 2) ELSE s

EncodeString(s) == [i \in 1 .. Len(s) |-> s[i] + 20]
Decodable(t)    == \A i \in 1 .. Len(t) : t[i] \in Base64 \/ (i = Len(t) /\ t[i] \in Stray)
DecodeString(t) == [i \in 1 .. Len(t) |-> t[i] - (IF t[i] \in Stray THEN 60 ELSE 20)]

(* The texts that decode to s: its encoding, but for unused bits at the end*)
TextsOf(s) ==
  LET t == EncodeString(s)
  IN  {t} \cup {[t EXCEPT ![i] = @ + 40] : i \in {Len(t)} \cap DOMAIN t}

SentinelIgnored(s) ==
  /\ s # <<>>
  /\ s[1] = Blank \/ s[Len(s)] = Blank \/ \E i \in 1 .. Len(s) : s[i] = Foreign

needsBase64Encoding(s) ==
  \/ HasPrefix(s) /\ HasSuffix(s)
  \/ s # <<>> /\ (s[1] = Blank \/ s[Len(s)] = Blank)
  \/ \E i \in 1 .. Len(s) : s[i] = Foreign

EncodeHeaderValue(s) ==
  IF needsBase64Encoding(s) THEN Prefix \o EncodeString(s) \o Suffix ELSE s

(* DecodeHeaderValue: the value it returns, or an error. *)
DecodeFails(s) ==
  HasPrefix(s) /\ HasSuffix(s) /\ ~Decodable(TrimSuffix(TrimPrefix(s)))

DecodeHeaderValue(s) ==
  IF HasPrefix(s) /\ HasSuffix(s) THEN DecodeString(TrimSuffix(TrimPrefix(s))) ELSE s

(* net/http removes the blanks around a header's value. *)
Kept(s) == {i \in 1 .. Len(s) : s[i] # Blank}
Trimmed(s) ==
  IF Kept(s) = {} THEN <<>>
  ELSE LET first == CHOOSE i \in Kept(s) : \A j \in Kept(s) : i <= j
           final == CHOOSE i \in Kept(s) : \A j \in Kept(s) : i >= j
       IN  SubSeq(s, first, final)

-----------------------------------------------------------------------------
(* JSON values of a tool's argument: a type, and the text of the value.    *)

Args == [type: {"string", "boolean", "number", "null"}, text: Strings]
Null == [type |-> "null", text |-> <<>>]

(* What strconv.ParseFloat and json.Number make of a text.  float64 tells  *)
(* apart all integers up to 2^53.                                          *)
Float == [s \in {<<One>>, <<OneDot>>, <<Two>>} |-> IF s = <<Two>> THEN 2 ELSE 1]

(* argValueMatchesHeader: null unmarshals into a string, as ""; numbers    *)
(* are compared as numbers, so that "1" is "1.0".                          *)
argValueMatchesHeader(a, s) ==
  IF a.type = "number" THEN s \in DOMAIN Float /\ Float[s] = Float[a.text]
  ELSE s = a.text
=============================================================================
