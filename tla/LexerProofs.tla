----------------------------- MODULE LexerProofs -----------------------------
(***************************************************************************)
(* That the scanner, for every source, stays in it and makes of it the     *)
(* tokens Lexemes describes.                                               *)
(***************************************************************************)
EXTENDS Lexer, FiniteSetTheorems, TLAPS

Sourced == source \in Seq(Characters \ {NUL})
-----------------------------------------------------------------------------
(* The keywords.                                                           *)

\* Two sequences are equal when they have a length and the same elements.
LEMMA SameSequence ==
    ASSUME NEW S, NEW s \in Seq(S), NEW t \in Seq(S), Len(s) = Len(t),
           \A i \in 1..Len(s) : s[i] = t[i]
    PROVE  s = t
<1>1. s = [i \in 1..Len(s) |-> s[i]] /\ t = [i \in 1..Len(t) |-> t[i]]
    OBVIOUS
<1> QED BY <1>1

LEMMA Spelled1 ==
    ASSUME NEW S, NEW s \in Seq(S), NEW a
    PROVE  s = <<a>> <=> Len(s) = 1 /\ s[1] = a
OBVIOUS

LEMMA Spelled2 ==
    ASSUME NEW S, NEW s \in Seq(S), NEW a, NEW b
    PROVE  s = <<a, b>> <=> Len(s) = 2 /\ s[1] = a /\ s[2] = b
OBVIOUS

LEMMA Spelled3 ==
    ASSUME NEW S, NEW s \in Seq(S), NEW a, NEW b, NEW c
    PROVE  s = <<a, b, c>> <=> Len(s) = 3 /\ s[1] = a /\ s[2] = b /\ s[3] = c
OBVIOUS

LEMMA Spelled4 ==
    ASSUME NEW S, NEW s \in Seq(S), NEW a, NEW b, NEW c, NEW d
    PROVE  s = <<a, b, c, d>> <=> Len(s) = 4 /\ s[1] = a /\ s[2] = b /\ s[3] = c /\ s[4] = d
OBVIOUS

LEMMA Spelled5 ==
    ASSUME NEW S, NEW s \in Seq(S), NEW a, NEW b, NEW c, NEW d, NEW e
    PROVE  s = <<a, b, c, d, e>> <=>
               /\ Len(s) = 5
               /\ s[1] = a /\ s[2] = b /\ s[3] = c /\ s[4] = d /\ s[5] = e
OBVIOUS

LEMMA Spelled6 ==
    ASSUME NEW S, NEW s \in Seq(S), NEW a, NEW b, NEW c, NEW d, NEW e, NEW f
    PROVE  s = <<a, b, c, d, e, f>> <=>
               /\ Len(s) = 6
               /\ s[1] = a /\ s[2] = b /\ s[3] = c /\ s[4] = d /\ s[5] = e /\ s[6] = f
OBVIOUS

\* check_keyword compares what follows the first letters with the rest of the
\* keyword.
LEMMA TailIs ==
    ASSUME NEW S, NEW word \in Seq(S), NEW letters \in 1..2, NEW n \in 1..5,
           Len(word) = letters + n
    PROVE  /\ SubSeq(word, letters + 1, Len(word)) \in Seq(S)
           /\ Len(SubSeq(word, letters + 1, Len(word))) = n
           /\ \A i \in 1..n :
                  SubSeq(word, letters + 1, Len(word))[i] = word[letters + i]
OBVIOUS

LEMMA CheckKeyword1 ==
    ASSUME NEW S, NEW word \in Seq(S), NEW letters \in 1..2, NEW type, NEW a
    PROVE  CheckKeyword(word, letters, <<a>>, type) =
               IF /\ Len(word) = letters + 1
                  /\ word[letters + 1] = a
               THEN type ELSE "IDENTIFIER"
<1>0. Len(<<a>>) = 1
    OBVIOUS
<1>1. CASE Len(word) = letters + 1
    <2> DEFINE tail == SubSeq(word, letters + 1, Len(word))
    <2>w. 1 \in 1..5
        OBVIOUS
    <2>0. /\ tail \in Seq(S) /\ Len(tail) = 1
          /\ \A i \in 1..1 : tail[i] = word[letters + i]
        BY <1>1, <2>w, TailIs, ZenonT(60)
    <2> HIDE DEF tail
    <2>1. /\ tail \in Seq(S) /\ Len(tail) = 1
          /\ tail[1] = word[letters + 1]
        BY <2>0
    <2>2. tail = <<a>> <=> word[letters + 1] = a
        BY <2>1, Spelled1
    <2> QED BY <1>0, <1>1, <2>2 DEF CheckKeyword, tail
<1>2. CASE Len(word) # letters + 1
    BY <1>0, <1>2 DEF CheckKeyword
<1> QED BY <1>1, <1>2

LEMMA CheckKeyword2 ==
    ASSUME NEW S, NEW word \in Seq(S), NEW letters \in 1..2, NEW type, NEW a, NEW b
    PROVE  CheckKeyword(word, letters, <<a, b>>, type) =
               IF /\ Len(word) = letters + 2
                  /\ word[letters + 1] = a /\ word[letters + 2] = b
               THEN type ELSE "IDENTIFIER"
<1>0. Len(<<a, b>>) = 2
    OBVIOUS
<1>1. CASE Len(word) = letters + 2
    <2> DEFINE tail == SubSeq(word, letters + 1, Len(word))
    <2>w. 2 \in 1..5
        OBVIOUS
    <2>0. /\ tail \in Seq(S) /\ Len(tail) = 2
          /\ \A i \in 1..2 : tail[i] = word[letters + i]
        BY <1>1, <2>w, TailIs, ZenonT(60)
    <2> HIDE DEF tail
    <2>1. /\ tail \in Seq(S) /\ Len(tail) = 2
          /\ tail[1] = word[letters + 1] /\ tail[2] = word[letters + 2]
        BY <2>0
    <2>2. tail = <<a, b>> <=> word[letters + 1] = a /\ word[letters + 2] = b
        BY <2>1, Spelled2
    <2> QED BY <1>0, <1>1, <2>2 DEF CheckKeyword, tail
<1>2. CASE Len(word) # letters + 2
    BY <1>0, <1>2 DEF CheckKeyword
<1> QED BY <1>1, <1>2

LEMMA CheckKeyword3 ==
    ASSUME NEW S, NEW word \in Seq(S), NEW letters \in 1..2, NEW type, NEW a, NEW b, NEW c
    PROVE  CheckKeyword(word, letters, <<a, b, c>>, type) =
               IF /\ Len(word) = letters + 3
                  /\ word[letters + 1] = a /\ word[letters + 2] = b /\ word[letters + 3] = c
               THEN type ELSE "IDENTIFIER"
<1>0. Len(<<a, b, c>>) = 3
    OBVIOUS
<1>1. CASE Len(word) = letters + 3
    <2> DEFINE tail == SubSeq(word, letters + 1, Len(word))
    <2>w. 3 \in 1..5
        OBVIOUS
    <2>0. /\ tail \in Seq(S) /\ Len(tail) = 3
          /\ \A i \in 1..3 : tail[i] = word[letters + i]
        BY <1>1, <2>w, TailIs, ZenonT(60)
    <2> HIDE DEF tail
    <2>1. /\ tail \in Seq(S) /\ Len(tail) = 3
          /\ tail[1] = word[letters + 1] /\ tail[2] = word[letters + 2] /\ tail[3] = word[letters + 3]
        BY <2>0
    <2>2. tail = <<a, b, c>> <=> word[letters + 1] = a /\ word[letters + 2] = b /\ word[letters + 3] = c
        BY <2>1, Spelled3
    <2> QED BY <1>0, <1>1, <2>2 DEF CheckKeyword, tail
<1>2. CASE Len(word) # letters + 3
    BY <1>0, <1>2 DEF CheckKeyword
<1> QED BY <1>1, <1>2

LEMMA CheckKeyword4 ==
    ASSUME NEW S, NEW word \in Seq(S), NEW letters \in 1..2, NEW type, NEW a, NEW b, NEW c, NEW d
    PROVE  CheckKeyword(word, letters, <<a, b, c, d>>, type) =
               IF /\ Len(word) = letters + 4
                  /\ word[letters + 1] = a /\ word[letters + 2] = b /\ word[letters + 3] = c /\ word[letters + 4] = d
               THEN type ELSE "IDENTIFIER"
<1>0. Len(<<a, b, c, d>>) = 4
    OBVIOUS
<1>1. CASE Len(word) = letters + 4
    <2> DEFINE tail == SubSeq(word, letters + 1, Len(word))
    <2>w. 4 \in 1..5
        OBVIOUS
    <2>0. /\ tail \in Seq(S) /\ Len(tail) = 4
          /\ \A i \in 1..4 : tail[i] = word[letters + i]
        BY <1>1, <2>w, TailIs, ZenonT(60)
    <2> HIDE DEF tail
    <2>1. /\ tail \in Seq(S) /\ Len(tail) = 4
          /\ tail[1] = word[letters + 1] /\ tail[2] = word[letters + 2] /\ tail[3] = word[letters + 3] /\ tail[4] = word[letters + 4]
        BY <2>0
    <2>2. tail = <<a, b, c, d>> <=> word[letters + 1] = a /\ word[letters + 2] = b /\ word[letters + 3] = c /\ word[letters + 4] = d
        BY <2>1, Spelled4
    <2> QED BY <1>0, <1>1, <2>2 DEF CheckKeyword, tail
<1>2. CASE Len(word) # letters + 4
    BY <1>0, <1>2 DEF CheckKeyword
<1> QED BY <1>1, <1>2

LEMMA CheckKeyword5 ==
    ASSUME NEW S, NEW word \in Seq(S), NEW letters \in 1..2, NEW type, NEW a, NEW b, NEW c, NEW d, NEW e
    PROVE  CheckKeyword(word, letters, <<a, b, c, d, e>>, type) =
               IF /\ Len(word) = letters + 5
                  /\ word[letters + 1] = a /\ word[letters + 2] = b /\ word[letters + 3] = c /\ word[letters + 4] = d /\ word[letters + 5] = e
               THEN type ELSE "IDENTIFIER"
<1>0. Len(<<a, b, c, d, e>>) = 5
    OBVIOUS
<1>1. CASE Len(word) = letters + 5
    <2> DEFINE tail == SubSeq(word, letters + 1, Len(word))
    <2>w. 5 \in 1..5
        OBVIOUS
    <2>0. /\ tail \in Seq(S) /\ Len(tail) = 5
          /\ \A i \in 1..5 : tail[i] = word[letters + i]
        BY <1>1, <2>w, TailIs, ZenonT(60)
    <2> HIDE DEF tail
    <2>1. /\ tail \in Seq(S) /\ Len(tail) = 5
          /\ tail[1] = word[letters + 1] /\ tail[2] = word[letters + 2] /\ tail[3] = word[letters + 3] /\ tail[4] = word[letters + 4] /\ tail[5] = word[letters + 5]
        BY <2>0
    <2>2. tail = <<a, b, c, d, e>> <=> word[letters + 1] = a /\ word[letters + 2] = b /\ word[letters + 3] = c /\ word[letters + 4] = d /\ word[letters + 5] = e
        BY <2>1, Spelled5
    <2> QED BY <1>0, <1>1, <2>2 DEF CheckKeyword, tail
<1>2. CASE Len(word) # letters + 5
    BY <1>0, <1>2 DEF CheckKeyword
<1> QED BY <1>1, <1>2

\* get_identifier_type finds the keyword a word is, if it is one.
LEMMA IdentifierTypeIs ==
    ASSUME NEW S, NEW word \in Seq(S), Len(word) >= 1
    PROVE  /\ Words!WordType(word, IdentifierType(word))
           /\ IdentifierType(word) \in Words!Types /\ IdentifierType(word) # "EOF"
<1> DEFINE second == IF Len(word) > 1 THEN word[2] ELSE NUL
<1>1. \A i \in {1} : Len(word) \in Nat
    OBVIOUS
<1>s1. word = <<"c", "l", "a", "s", "s">> <=> Len(word) = 5 /\ word[1] = "c" /\ word[2] = "l" /\ word[3] = "a" /\ word[4] = "s" /\ word[5] = "s"
    BY Spelled5
<1>s2. word = <<"c", "o", "n", "s", "t">> <=> Len(word) = 5 /\ word[1] = "c" /\ word[2] = "o" /\ word[3] = "n" /\ word[4] = "s" /\ word[5] = "t"
    BY Spelled5
<1>s3. word = <<"d", "e", "f">> <=> Len(word) = 3 /\ word[1] = "d" /\ word[2] = "e" /\ word[3] = "f"
    BY Spelled3
<1>s4. word = <<"e", "l", "s", "e">> <=> Len(word) = 4 /\ word[1] = "e" /\ word[2] = "l" /\ word[3] = "s" /\ word[4] = "e"
    BY Spelled4
<1>s5. word = <<"f", "a", "l", "s", "e">> <=> Len(word) = 5 /\ word[1] = "f" /\ word[2] = "a" /\ word[3] = "l" /\ word[4] = "s" /\ word[5] = "e"
    BY Spelled5
<1>s6. word = <<"i", "f">> <=> Len(word) = 2 /\ word[1] = "i" /\ word[2] = "f"
    BY Spelled2
<1>s7. word = <<"l", "e", "t">> <=> Len(word) = 3 /\ word[1] = "l" /\ word[2] = "e" /\ word[3] = "t"
    BY Spelled3
<1>s8. word = <<"n", "u", "l", "l">> <=> Len(word) = 4 /\ word[1] = "n" /\ word[2] = "u" /\ word[3] = "l" /\ word[4] = "l"
    BY Spelled4
<1>s9. word = <<"r", "e", "t", "u", "r", "n">> <=> Len(word) = 6 /\ word[1] = "r" /\ word[2] = "e" /\ word[3] = "t" /\ word[4] = "u" /\ word[5] = "r" /\ word[6] = "n"
    BY Spelled6
<1>s10. word = <<"s", "u", "p", "e", "r">> <=> Len(word) = 5 /\ word[1] = "s" /\ word[2] = "u" /\ word[3] = "p" /\ word[4] = "e" /\ word[5] = "r"
    BY Spelled5
<1>s11. word = <<"t", "h", "i", "s">> <=> Len(word) = 4 /\ word[1] = "t" /\ word[2] = "h" /\ word[3] = "i" /\ word[4] = "s"
    BY Spelled4
<1>s12. word = <<"t", "r", "u", "e">> <=> Len(word) = 4 /\ word[1] = "t" /\ word[2] = "r" /\ word[3] = "u" /\ word[4] = "e"
    BY Spelled4
<1>s13. word = <<"w", "h", "i", "l", "e">> <=> Len(word) = 5 /\ word[1] = "w" /\ word[2] = "h" /\ word[3] = "i" /\ word[4] = "l" /\ word[5] = "e"
    BY Spelled5
<1>2. /\ "IDENTIFIER" \in Words!Types
      /\ \A keyword \in Words!Keywords : keyword[2] \in Words!Types /\ keyword[2] # "EOF"
    BY DEF Words!Types, Words!Keywords
<1>3. \A type : <<word, type>> \in Words!Keywords => type \in Words!Types /\ type # "EOF"
    BY <1>2
<1>4. SUFFICES Words!WordType(word, IdentifierType(word))
    BY <1>2, <1>3, Zenon DEF Words!WordType
<1>k1. CASE word[1] = "c" /\ second = "l"
    <2>1. IdentifierType(word) = CheckKeyword(word, 2, <<"a", "s", "s">>, "CLASS")
        BY <1>k1 DEF IdentifierType
    <2>2. CheckKeyword(word, 2, <<"a", "s", "s">>, "CLASS") =
              IF Len(word) = 5 /\ word[3] = "a" /\ word[4] = "s" /\ word[5] = "s"
              THEN "CLASS" ELSE "IDENTIFIER"
        BY CheckKeyword3
    <2> QED BY <1>k1, <2>1, <2>2, <1>s1, <1>s2, <1>s3, <1>s4, <1>s5, <1>s6, <1>s7, <1>s8, <1>s9, <1>s10, <1>s11, <1>s12, <1>s13 DEF Words!WordType, Words!Keywords
<1>k2. CASE word[1] = "c" /\ second = "o"
    <2>1. IdentifierType(word) = CheckKeyword(word, 2, <<"n", "s", "t">>, "CONST")
        BY <1>k2 DEF IdentifierType
    <2>2. CheckKeyword(word, 2, <<"n", "s", "t">>, "CONST") =
              IF Len(word) = 5 /\ word[3] = "n" /\ word[4] = "s" /\ word[5] = "t"
              THEN "CONST" ELSE "IDENTIFIER"
        BY CheckKeyword3
    <2> QED BY <1>k2, <2>1, <2>2, <1>s1, <1>s2, <1>s3, <1>s4, <1>s5, <1>s6, <1>s7, <1>s8, <1>s9, <1>s10, <1>s11, <1>s12, <1>s13 DEF Words!WordType, Words!Keywords
<1>k3. CASE word[1] = "d"
    <2>1. IdentifierType(word) = CheckKeyword(word, 1, <<"e", "f">>, "DEF")
        BY <1>k3 DEF IdentifierType
    <2>2. CheckKeyword(word, 1, <<"e", "f">>, "DEF") =
              IF Len(word) = 3 /\ word[2] = "e" /\ word[3] = "f"
              THEN "DEF" ELSE "IDENTIFIER"
        BY CheckKeyword2
    <2> QED BY <1>k3, <2>1, <2>2, <1>s1, <1>s2, <1>s3, <1>s4, <1>s5, <1>s6, <1>s7, <1>s8, <1>s9, <1>s10, <1>s11, <1>s12, <1>s13 DEF Words!WordType, Words!Keywords
<1>k4. CASE word[1] = "e"
    <2>1. IdentifierType(word) = CheckKeyword(word, 1, <<"l", "s", "e">>, "ELSE")
        BY <1>k4 DEF IdentifierType
    <2>2. CheckKeyword(word, 1, <<"l", "s", "e">>, "ELSE") =
              IF Len(word) = 4 /\ word[2] = "l" /\ word[3] = "s" /\ word[4] = "e"
              THEN "ELSE" ELSE "IDENTIFIER"
        BY CheckKeyword3
    <2> QED BY <1>k4, <2>1, <2>2, <1>s1, <1>s2, <1>s3, <1>s4, <1>s5, <1>s6, <1>s7, <1>s8, <1>s9, <1>s10, <1>s11, <1>s12, <1>s13 DEF Words!WordType, Words!Keywords
<1>k5. CASE word[1] = "f"
    <2>1. IdentifierType(word) = CheckKeyword(word, 1, <<"a", "l", "s", "e">>, "FALSE")
        BY <1>k5 DEF IdentifierType
    <2>2. CheckKeyword(word, 1, <<"a", "l", "s", "e">>, "FALSE") =
              IF Len(word) = 5 /\ word[2] = "a" /\ word[3] = "l" /\ word[4] = "s" /\ word[5] = "e"
              THEN "FALSE" ELSE "IDENTIFIER"
        BY CheckKeyword4
    <2> QED BY <1>k5, <2>1, <2>2, <1>s1, <1>s2, <1>s3, <1>s4, <1>s5, <1>s6, <1>s7, <1>s8, <1>s9, <1>s10, <1>s11, <1>s12, <1>s13 DEF Words!WordType, Words!Keywords
<1>k6. CASE word[1] = "i"
    <2>1. IdentifierType(word) = CheckKeyword(word, 1, <<"f">>, "IF")
        BY <1>k6 DEF IdentifierType
    <2>2. CheckKeyword(word, 1, <<"f">>, "IF") =
              IF Len(word) = 2 /\ word[2] = "f"
              THEN "IF" ELSE "IDENTIFIER"
        BY CheckKeyword1
    <2> QED BY <1>k6, <2>1, <2>2, <1>s1, <1>s2, <1>s3, <1>s4, <1>s5, <1>s6, <1>s7, <1>s8, <1>s9, <1>s10, <1>s11, <1>s12, <1>s13 DEF Words!WordType, Words!Keywords
<1>k7. CASE word[1] = "l"
    <2>1. IdentifierType(word) = CheckKeyword(word, 1, <<"e", "t">>, "LET")
        BY <1>k7 DEF IdentifierType
    <2>2. CheckKeyword(word, 1, <<"e", "t">>, "LET") =
              IF Len(word) = 3 /\ word[2] = "e" /\ word[3] = "t"
              THEN "LET" ELSE "IDENTIFIER"
        BY CheckKeyword2
    <2> QED BY <1>k7, <2>1, <2>2, <1>s1, <1>s2, <1>s3, <1>s4, <1>s5, <1>s6, <1>s7, <1>s8, <1>s9, <1>s10, <1>s11, <1>s12, <1>s13 DEF Words!WordType, Words!Keywords
<1>k8. CASE word[1] = "n"
    <2>1. IdentifierType(word) = CheckKeyword(word, 1, <<"u", "l", "l">>, "NULL")
        BY <1>k8 DEF IdentifierType
    <2>2. CheckKeyword(word, 1, <<"u", "l", "l">>, "NULL") =
              IF Len(word) = 4 /\ word[2] = "u" /\ word[3] = "l" /\ word[4] = "l"
              THEN "NULL" ELSE "IDENTIFIER"
        BY CheckKeyword3
    <2> QED BY <1>k8, <2>1, <2>2, <1>s1, <1>s2, <1>s3, <1>s4, <1>s5, <1>s6, <1>s7, <1>s8, <1>s9, <1>s10, <1>s11, <1>s12, <1>s13 DEF Words!WordType, Words!Keywords
<1>k9. CASE word[1] = "r"
    <2>1. IdentifierType(word) = CheckKeyword(word, 1, <<"e", "t", "u", "r", "n">>, "RETURN")
        BY <1>k9 DEF IdentifierType
    <2>2. CheckKeyword(word, 1, <<"e", "t", "u", "r", "n">>, "RETURN") =
              IF Len(word) = 6 /\ word[2] = "e" /\ word[3] = "t" /\ word[4] = "u" /\ word[5] = "r" /\ word[6] = "n"
              THEN "RETURN" ELSE "IDENTIFIER"
        BY CheckKeyword5
    <2> QED BY <1>k9, <2>1, <2>2, <1>s1, <1>s2, <1>s3, <1>s4, <1>s5, <1>s6, <1>s7, <1>s8, <1>s9, <1>s10, <1>s11, <1>s12, <1>s13 DEF Words!WordType, Words!Keywords
<1>k10. CASE word[1] = "s"
    <2>1. IdentifierType(word) = CheckKeyword(word, 1, <<"u", "p", "e", "r">>, "SUPER")
        BY <1>k10 DEF IdentifierType
    <2>2. CheckKeyword(word, 1, <<"u", "p", "e", "r">>, "SUPER") =
              IF Len(word) = 5 /\ word[2] = "u" /\ word[3] = "p" /\ word[4] = "e" /\ word[5] = "r"
              THEN "SUPER" ELSE "IDENTIFIER"
        BY CheckKeyword4
    <2> QED BY <1>k10, <2>1, <2>2, <1>s1, <1>s2, <1>s3, <1>s4, <1>s5, <1>s6, <1>s7, <1>s8, <1>s9, <1>s10, <1>s11, <1>s12, <1>s13 DEF Words!WordType, Words!Keywords
<1>k11. CASE word[1] = "t" /\ second = "h"
    <2>1. IdentifierType(word) = CheckKeyword(word, 2, <<"i", "s">>, "THIS")
        BY <1>k11 DEF IdentifierType
    <2>2. CheckKeyword(word, 2, <<"i", "s">>, "THIS") =
              IF Len(word) = 4 /\ word[3] = "i" /\ word[4] = "s"
              THEN "THIS" ELSE "IDENTIFIER"
        BY CheckKeyword2
    <2> QED BY <1>k11, <2>1, <2>2, <1>s1, <1>s2, <1>s3, <1>s4, <1>s5, <1>s6, <1>s7, <1>s8, <1>s9, <1>s10, <1>s11, <1>s12, <1>s13 DEF Words!WordType, Words!Keywords
<1>k12. CASE word[1] = "t" /\ second = "r"
    <2>1. IdentifierType(word) = CheckKeyword(word, 2, <<"u", "e">>, "TRUE")
        BY <1>k12 DEF IdentifierType
    <2>2. CheckKeyword(word, 2, <<"u", "e">>, "TRUE") =
              IF Len(word) = 4 /\ word[3] = "u" /\ word[4] = "e"
              THEN "TRUE" ELSE "IDENTIFIER"
        BY CheckKeyword2
    <2> QED BY <1>k12, <2>1, <2>2, <1>s1, <1>s2, <1>s3, <1>s4, <1>s5, <1>s6, <1>s7, <1>s8, <1>s9, <1>s10, <1>s11, <1>s12, <1>s13 DEF Words!WordType, Words!Keywords
<1>k13. CASE word[1] = "w"
    <2>1. IdentifierType(word) = CheckKeyword(word, 1, <<"h", "i", "l", "e">>, "WHILE")
        BY <1>k13 DEF IdentifierType
    <2>2. CheckKeyword(word, 1, <<"h", "i", "l", "e">>, "WHILE") =
              IF Len(word) = 5 /\ word[2] = "h" /\ word[3] = "i" /\ word[4] = "l" /\ word[5] = "e"
              THEN "WHILE" ELSE "IDENTIFIER"
        BY CheckKeyword4
    <2> QED BY <1>k13, <2>1, <2>2, <1>s1, <1>s2, <1>s3, <1>s4, <1>s5, <1>s6, <1>s7, <1>s8, <1>s9, <1>s10, <1>s11, <1>s12, <1>s13 DEF Words!WordType, Words!Keywords
<1>5. CASE IdentifierType(word) = "IDENTIFIER" /\ \A keyword \in Words!Keywords : keyword[1] # word
    BY <1>5 DEF Words!WordType
<1>6. ASSUME word[1] \notin {"d", "e", "f", "i", "l", "n", "r", "s", "w"},
             ~(word[1] = "c" /\ second \in {"l", "o"}), ~(word[1] = "t" /\ second \in {"h", "r"})
      PROVE  IdentifierType(word) = "IDENTIFIER" /\ \A keyword \in Words!Keywords : keyword[1] # word
    <2>1. IdentifierType(word) = "IDENTIFIER"
        BY <1>6 DEF IdentifierType
    <2> QED BY <1>6, <2>1, <1>s1, <1>s2, <1>s3, <1>s4, <1>s5, <1>s6, <1>s7, <1>s8, <1>s9, <1>s10, <1>s11, <1>s12, <1>s13 DEF Words!Keywords, NUL
<1> QED BY <1>5, <1>6, <1>k1, <1>k2, <1>k3, <1>k4, <1>k5, <1>k6, <1>k7, <1>k8, <1>k9, <1>k10, <1>k11, <1>k12, <1>k13

\* What follows the last character looked at is where the source ends.
LEMMA HereIs ==
    ASSUME Sourced, NEW place \in 1..End
    PROVE  /\ End \in Nat /\ Len(source) \in Nat
           /\ CharacterAt(place) = NUL <=> place = End
           /\ CharacterAt(place) # NUL => place \in 1..Len(source)
                                          /\ CharacterAt(place) = source[place]
<1>1. Len(source) \in Nat /\ \A i \in 1..Len(source) : source[i] \in Characters \ {NUL}
    BY DEF Sourced
<1> QED BY <1>1 DEF CharacterAt, End
-----------------------------------------------------------------------------
(* What a lexeme is, told by its first character.                          *)

Marked(c) == c \in Singles \/ \E mark \in DoubleMarks : c = mark[1]

\* Lexemes and Lexer mean the same characters.
LEMMA Shared ==
    /\ Words!Letters = Letters /\ Words!Digits = Digits /\ Words!Blanks = Blanks
    /\ Words!Hash = Hash /\ Words!Quote = Quote /\ Words!Dot = Dot
    /\ Words!NewLine = NewLine /\ Words!NUL = NUL
    /\ Words!Singles = Singles /\ (\A c : Words!SingleType(c) = SingleType(c))
    /\ Words!DoubleMarks = DoubleMarks
    /\ Words!End = End
BY DEF Words!Letters, Letters, Words!Digits, Digits, Words!Blanks, Blanks, Words!Hash, Hash,
       Words!Quote, Quote, Words!Dot, Dot, Words!NewLine, NewLine, Words!NUL, NUL,
       Words!Singles, Singles, Words!SingleType, SingleType, Words!DoubleMarks, DoubleMarks, Words!End, End

LEMMA DoubleIs == \A mark \in DoubleMarks : mark[1] \in {"&", "|", "!", "=", "<", ">"}
BY DEF DoubleMarks

LEMMA Distinct ==
    ASSUME NEW c
    PROVE  /\ c \in Letters => c \notin Digits \cup Blanks \cup {Hash, Quote, Dot} /\ ~Marked(c)
           /\ c \in Digits => c \notin Blanks \cup {Hash, Quote, Dot} /\ ~Marked(c)
           /\ c = Quote => c \notin Blanks \cup {Hash, Dot} /\ ~Marked(c)
           /\ Marked(c) => c \notin Blanks \cup {Hash}
           /\ Hash \notin Blanks /\ NewLine \in Blanks
<1>1. ASSUME c \in Letters
      PROVE  c \notin Digits /\ c \notin Blanks /\ c \notin {Hash, Quote, Dot} /\ ~Marked(c)
    BY <1>1, DoubleIs DEF Marked, Singles, Letters, Digits, Blanks, NewLine, Hash, Quote, Dot
<1>2. ASSUME c \in Digits
      PROVE  c \notin Blanks /\ c \notin {Hash, Quote, Dot} /\ ~Marked(c)
    BY <1>2, DoubleIs DEF Marked, Singles, Digits, Blanks, NewLine, Hash, Quote, Dot
<1>3. Quote \notin Blanks /\ Quote \notin {Hash, Dot} /\ ~Marked(Quote)
    BY DoubleIs DEF Marked, Singles, Blanks, NewLine, Hash, Quote, Dot
<1>4. ASSUME Marked(c)
      PROVE  c \notin Blanks /\ c # Hash
    BY <1>4, DoubleIs DEF Marked, Singles, Blanks, NewLine, Hash, Dot
<1>5. Hash \notin Blanks /\ NewLine \in Blanks
    BY DEF Hash, Blanks, NewLine
<1> QED BY <1>1, <1>2, <1>3, <1>4, <1>5

LEMMA DistinctMarks ==
    /\ \A mark \in DoubleMarks : mark[1] \notin Singles
    /\ \A mark \in DoubleMarks : \A other \in DoubleMarks : mark[1] = other[1] => mark = other
BY DEF Singles, DoubleMarks, Dot

LEMMA NoNul ==
    NUL \notin Letters \cup Digits \cup Blanks \cup {Hash, Quote, Dot} /\ ~Marked(NUL)
BY DoubleIs DEF Letters, Digits, Blanks, NewLine, Hash, Quote, Dot, Marked, Singles, NUL

LEMMA WordsOnly ==
    ASSUME NEW text, Len(text) \in Nat \ {0}, text[1] \in Letters, Words!IsLexeme(text)
    PROVE  Words!IsWord(text)
<1>1. text[1] \notin Digits \cup {Quote} /\ ~Marked(text[1])
    BY Distinct
<1>2. ~Words!IsNumber(text) /\ ~Words!IsString(text)
    BY <1>1, Shared DEF Words!IsNumber, Words!IsString
<1>3. \A type : ~Words!MarkType(text, type)
    BY <1>1, Shared DEF Words!MarkType, Marked
<1> QED BY <1>2, <1>3 DEF Words!IsLexeme, Words!Lexeme

LEMMA NumbersOnly ==
    ASSUME NEW text, Len(text) \in Nat \ {0}, text[1] \in Digits, Words!IsLexeme(text)
    PROVE  Words!IsNumber(text)
<1>1. text[1] \notin Letters \cup {Quote} /\ ~Marked(text[1])
    BY Distinct
<1>2. ~Words!IsWord(text) /\ ~Words!IsString(text)
    BY <1>1, Shared DEF Words!IsWord, Words!IsString
<1>3. \A type : ~Words!MarkType(text, type)
    BY <1>1, Shared DEF Words!MarkType, Marked
<1> QED BY <1>2, <1>3 DEF Words!IsLexeme, Words!Lexeme

LEMMA StringsOnly ==
    ASSUME NEW text, Len(text) \in Nat \ {0}, text[1] = Quote, Words!IsLexeme(text)
    PROVE  Words!IsString(text)
<1>1. text[1] \notin Letters \cup Digits /\ ~Marked(text[1])
    BY Distinct
<1>2. ~Words!IsWord(text) /\ ~Words!IsNumber(text)
    BY <1>1, Shared DEF Words!IsWord, Words!IsNumber
<1>3. \A type : ~Words!MarkType(text, type)
    BY <1>1, Shared DEF Words!MarkType, Marked
<1> QED BY <1>2, <1>3 DEF Words!IsLexeme, Words!Lexeme

LEMMA MarksOnly ==
    ASSUME NEW text, Len(text) \in Nat \ {0}, text[1] \notin Letters \cup Digits \cup {Quote},
           Words!IsLexeme(text)
    PROVE  \E type : Words!MarkType(text, type)
<1>1. ~Words!IsWord(text) /\ ~Words!IsNumber(text) /\ ~Words!IsString(text)
    BY Shared DEF Words!IsWord, Words!IsNumber, Words!IsString
<1> QED BY <1>1, Shared DEF Words!IsLexeme, Words!Lexeme
-----------------------------------------------------------------------------
(* Texts of the source.                                                    *)

LEMMA PartIs ==
    ASSUME NEW S, NEW s \in Seq(S), NEW m \in 1..Len(s), NEW n \in m..Len(s)
    PROVE  /\ SubSeq(s, m, n) \in Seq(S)
           /\ Len(SubSeq(s, m, n)) = n - m + 1
           /\ \A i \in 1..n - m + 1 : SubSeq(s, m, n)[i] = s[m + i - 1]
OBVIOUS

LEMMA TextIs ==
    ASSUME Sourced, NEW first \in 1..Len(source), NEW next \in first + 1..End
    PROVE  /\ Words!Text(first, next) \in Seq(Characters \ {NUL})
           /\ Len(Words!Text(first, next)) = next - first
           /\ Len(Words!Text(first, next)) \in Nat \ {0}
           /\ \A i \in 1..next - first : Words!Text(first, next)[i] = source[first + i - 1]
           /\ Words!Text(first, next)[1] = source[first]
<1>1. source \in Seq(Characters \ {NUL}) /\ next - 1 \in first..Len(source)
      /\ first \in Nat /\ next \in Nat /\ (next - 1) - first + 1 = next - first
    BY DEF Sourced, End
<1>2. /\ Words!Text(first, next) \in Seq(Characters \ {NUL})
      /\ Len(Words!Text(first, next)) = next - first
      /\ \A i \in 1..next - first : Words!Text(first, next)[i] = source[first + i - 1]
    BY <1>1, PartIs DEF Words!Text
<1>3. next - first \in Nat \ {0} /\ 1 \in 1..next - first /\ first + 1 - 1 = first
    BY <1>1
<1> QED BY <1>2, <1>3

\* Words of letters and digits.
LEMMA WordAt ==
    ASSUME Sourced, NEW first \in 1..Len(source), NEW next \in first + 1..End,
           source[first] \in Letters,
           \A i \in first + 1..next - 1 : source[i] \in Letters \cup Digits
    PROVE  Words!IsWord(Words!Text(first, next))
<1> DEFINE text == Words!Text(first, next)
<1>1. Len(text) = next - first /\ text[1] = source[first]
      /\ \A i \in 1..next - first : text[i] = source[first + i - 1]
    BY TextIs
<1>2. first \in Nat /\ next \in Nat
    BY DEF Sourced, End
<1> HIDE DEF text
<1>3. ASSUME NEW i \in 2..Len(text)
      PROVE  text[i] \in Letters \cup Digits
    <2>1. i \in 1..next - first /\ first + i - 1 \in first + 1..next - 1
        BY <1>1, <1>2
    <2> QED BY <1>1, <2>1
<1>4. Words!IsWord(text)
    BY <1>1, <1>3, Shared DEF Words!IsWord
<1> QED BY <1>4 DEF text

LEMMA NoLongerWord ==
    ASSUME Sourced, NEW first \in 1..Len(source), NEW next \in first + 1..End,
           source[first] \in Letters, next # End => source[next] \notin Letters \cup Digits,
           NEW longer \in next + 1..End
    PROVE  ~Words!IsLexeme(Words!Text(first, longer))
<1>1. Len(source) \in Nat /\ End = Len(source) + 1
    BY DEF Sourced, End
<1>2. longer \in first + 1..End /\ next # End /\ next - first + 1 \in 2..longer - first
    BY <1>1
<1>3. Words!Text(first, longer)[next - first + 1] = source[next]
    BY <1>1, <1>2, TextIs
<1>4. ~Words!IsWord(Words!Text(first, longer))
    BY <1>2, <1>3, TextIs, Shared DEF Words!IsWord
<1> QED BY <1>2, <1>4, TextIs, WordsOnly

\* Numbers.
LEMMA NumberAt ==
    ASSUME Sourced, NEW first \in 1..Len(source), NEW next \in first + 1..End,
           \A i \in first..next - 1 : source[i] \in Digits
    PROVE  Words!IsNumber(Words!Text(first, next))
<1> DEFINE text == Words!Text(first, next)
<1>1. Len(text) = next - first
      /\ \A i \in 1..next - first : text[i] = source[first + i - 1]
    BY TextIs
<1>2. first \in Nat /\ next \in Nat
    BY DEF Sourced, End
<1> HIDE DEF text
<1>3. ASSUME NEW i \in 1..Len(text)
      PROVE  text[i] \in Digits
    <2>1. i \in 1..next - first /\ first + i - 1 \in first..next - 1
        BY <1>1, <1>2
    <2> QED BY <1>1, <2>1
<1>4. Words!IsNumber(text)
    BY <1>3, Shared DEF Words!IsNumber
<1> QED BY <1>4 DEF text

LEMMA FractionAt ==
    ASSUME Sourced, NEW first \in 1..Len(source), NEW next \in first + 1..End,
           NEW dot \in first + 1..next - 2, source[dot] = Dot,
           \A i \in (first..next - 1) \ {dot} : source[i] \in Digits
    PROVE  Words!IsNumber(Words!Text(first, next))
<1> DEFINE text == Words!Text(first, next)
<1>1. Len(text) = next - first
      /\ \A i \in 1..next - first : text[i] = source[first + i - 1]
    BY TextIs
<1>2. first \in Nat /\ next \in Nat /\ dot \in Nat
    BY DEF Sourced, End
<1> HIDE DEF text
<1> DEFINE at == dot - first + 1
<1>3. at \in 2..Len(text) - 1 /\ text[at] = Dot
    <2>1. at \in 2..Len(text) - 1 /\ at \in 1..next - first /\ first + at - 1 = dot
        BY <1>1, <1>2
    <2> QED BY <1>1, <2>1
<1>4. ASSUME NEW i \in (1..Len(text)) \ {at}
      PROVE  text[i] \in Digits
    <2>1. i \in 1..next - first /\ first + i - 1 \in (first..next - 1) \ {dot}
        BY <1>1, <1>2
    <2> QED BY <1>1, <2>1
<1> HIDE DEF at
<1>5. Words!IsNumber(text)
    BY <1>3, <1>4, Shared DEF Words!IsNumber
<1> QED BY <1>5 DEF text

\* A number has one dot, which is not its last character.
LEMMA NumberIs ==
    ASSUME Sourced, NEW first \in 1..Len(source), NEW next \in first + 1..End,
           Words!IsNumber(Words!Text(first, next)),
           NEW place \in first..next - 1, source[place] \notin Digits
    PROVE  /\ source[place] = Dot
           /\ place + 1 <= next - 1
           /\ \A i \in (first..next - 1) \ {place} : source[i] \in Digits
<1> DEFINE text == Words!Text(first, next)
           at == place - first + 1
<1>1. Len(text) = next - first
      /\ \A i \in 1..next - first : text[i] = source[first + i - 1]
    BY TextIs
<1>2. first \in Nat /\ next \in Nat /\ place \in Nat
    BY DEF Sourced, End
<1> HIDE DEF text
<1>3. at \in 1..Len(text) /\ text[at] = source[place]
    <2>1. at \in 1..Len(text) /\ at \in 1..next - first /\ first + at - 1 = place
        BY <1>1, <1>2
    <2> QED BY <1>1, <2>1
<1>4. \A i \in first..next - 1 : i - first + 1 \in 1..Len(text) /\ text[i - first + 1] = source[i]
    <2> TAKE i \in first..next - 1
    <2>1. i - first + 1 \in 1..next - first /\ first + (i - first + 1) - 1 = i
        BY <1>1, <1>2
    <2> QED BY <1>1, <2>1
<1>5. PICK dot \in 2..Len(text) - 1 :
          text[dot] = Dot /\ \A i \in (1..Len(text)) \ {dot} : text[i] \in Digits
    BY <1>3, Shared DEF Words!IsNumber, text
<1>6. at = dot
    BY <1>3, <1>5
<1>7. source[place] = Dot /\ place + 1 <= next - 1
    BY <1>1, <1>2, <1>3, <1>5, <1>6
<1>8. ASSUME NEW i \in (first..next - 1) \ {place}
      PROVE  source[i] \in Digits
    <2>1. i - first + 1 # dot
        BY <1>2, <1>6
    <2> QED BY <1>4, <1>5, <2>1
<1> QED BY <1>7, <1>8

LEMMA NoLongerNumber ==
    ASSUME Sourced, NEW first \in 1..Len(source), NEW next \in first + 1..End,
           source[first] \in Digits,
           next # End => source[next] \notin Digits,
           \/ ~(source[next] = Dot /\ next < Len(source) /\ source[next + 1] \in Digits)
           \/ \E dot \in first..next - 1 : source[dot] \notin Digits,
           NEW longer \in next + 1..End
    PROVE  ~Words!IsLexeme(Words!Text(first, longer))
<1>1. Len(source) \in Nat /\ End = Len(source) + 1
    BY DEF Sourced, End
<1>2. longer \in first + 1..End /\ next # End /\ next \in first..longer - 1
    BY <1>1
<1>3. ASSUME Words!IsNumber(Words!Text(first, longer))
      PROVE  FALSE
    <2>1. /\ source[next] = Dot
          /\ next + 1 <= longer - 1
          /\ \A i \in (first..longer - 1) \ {next} : source[i] \in Digits
        BY <1>2, <1>3, NumberIs
    <2>2. next + 1 \in (first..longer - 1) \ {next} /\ next < Len(source)
        BY <1>1, <2>1
    <2>3. \A dot \in first..next - 1 : dot \in (first..longer - 1) \ {next}
        BY <1>1, <1>2
    <2> QED BY <2>1, <2>2, <2>3
<1> QED BY <1>2, <1>3, TextIs, NumbersOnly

\* Strings.
LEMMA StringAt ==
    ASSUME Sourced, NEW first \in 1..Len(source), NEW next \in first + 2..End,
           source[first] = Quote, source[next - 1] = Quote,
           \A i \in first + 1..next - 2 : source[i] # Quote
    PROVE  Words!IsString(Words!Text(first, next))
<1> DEFINE text == Words!Text(first, next)
<1>0. first \in Nat /\ next \in first + 1..End /\ next \in Nat
    BY DEF Sourced, End
<1>1. Len(text) = next - first /\ text[1] = source[first]
      /\ \A i \in 1..next - first : text[i] = source[first + i - 1]
    BY <1>0, TextIs
<1> HIDE DEF text
<1>2. Len(text) >= 2 /\ text[Len(text)] = Quote
    <2>1. Len(text) \in 1..next - first /\ first + Len(text) - 1 = next - 1 /\ Len(text) >= 2
        BY <1>0, <1>1
    <2> QED BY <1>1, <2>1
<1>3. ASSUME NEW i \in 2..Len(text) - 1
      PROVE  text[i] # Quote
    <2>1. i \in 1..next - first /\ first + i - 1 \in first + 1..next - 2
        BY <1>0, <1>1
    <2> QED BY <1>1, <2>1
<1>4. Words!IsString(text)
    BY <1>1, <1>2, <1>3, Shared DEF Words!IsString
<1> QED BY <1>4 DEF text

\* No string goes on past a quote after its first.
LEMMA StringIs ==
    ASSUME Sourced, NEW first \in 1..Len(source), NEW next \in first + 1..End,
           Words!IsString(Words!Text(first, next))
    PROVE  /\ next >= first + 2 /\ source[next - 1] = Quote
           /\ \A i \in first + 1..next - 2 : source[i] # Quote
<1> DEFINE text == Words!Text(first, next)
<1>0. first \in Nat /\ next \in Nat
    BY DEF Sourced, End
<1>1. Len(text) = next - first
      /\ \A i \in 1..next - first : text[i] = source[first + i - 1]
    BY TextIs
<1>2. /\ Len(text) >= 2 /\ text[Len(text)] = Quote
      /\ \A i \in 2..Len(text) - 1 : text[i] # Quote
    BY Shared DEF Words!IsString
<1> HIDE DEF text
<1>3. next >= first + 2 /\ source[next - 1] = Quote
    <2>0. Len(text) = next - first /\ next - first >= 2
        BY <1>1, <1>2
    <2>1. next >= first + 2 /\ Len(text) \in 1..next - first /\ first + Len(text) - 1 = next - 1
        BY <1>0, <2>0
    <2> QED BY <1>1, <1>2, <2>1
<1>4. ASSUME NEW i \in first + 1..next - 2
      PROVE  source[i] # Quote
    <2>1. /\ i - first + 1 \in 2..Len(text) - 1 /\ i - first + 1 \in 1..next - first
          /\ first + (i - first + 1) - 1 = i
        BY <1>0, <1>1
    <2> QED BY <1>1, <1>2, <2>1
<1> QED BY <1>3, <1>4
-----------------------------------------------------------------------------
(* The inductive invariant.                                                *)

AllTypes == Words!Types \cup {"ERROR", "EOF"}

Shape ==
    /\ Sourced
    /\ start \in 1..End
    /\ current \in 1..End
    /\ pc \in Loops
    /\ tokens \in Seq([type : AllTypes, first : 1..End, next : 1..End, line : 1..End])

\* The lines are those passed.
Counted == line = Words!LineAt(current)

\* Next to the end of the source nothing is returned.
Open == pc # "ended" => \A i \in DOMAIN tokens : tokens[i].type # "EOF"

\* What is behind the last token is blank or in a comment.
Covered ==
    /\ Words!Place \in 1..current
    /\ \A place \in Words!Place..current - 1 : Words!Skipped(place)

\* No comment is open unless here is its end.
Closed ==
    \A i \in Words!Place..current - 1 :
        source[i] = Hash => \/ current = End
                            \/ \E j \in i..current : j # End /\ source[j] = NewLine

Opened ==
    \E i \in Words!Place..current :
        /\ i # End /\ source[i] = Hash
        /\ \A j \in i..current - 1 : source[j] # NewLine

\* A token starts where it should.
Begun ==
    /\ Words!Place \in 1..start
    /\ start \in 1..Len(source) /\ start < current
    /\ Words!Starts(start)

InIdentifier ==
    /\ source[start] \in Letters
    /\ \A i \in start + 1..current - 1 : source[i] \in Letters \cup Digits

InNumber == \A i \in start..current - 1 : source[i] \in Digits

InFraction ==
    \E dot \in start + 1..current - 1 :
        /\ source[dot] = Dot
        /\ \A i \in (start..current - 1) \ {dot} : source[i] \in Digits
        /\ dot = current - 1 => Here \in Digits

InString ==
    /\ source[start] = Quote
    /\ \A i \in start + 1..current - 1 : source[i] # Quote

Inside ==
    /\ pc = "blanks" => Covered /\ Closed
    /\ pc = "comment" => Covered /\ Opened
    /\ pc = "identifier" => Begun /\ InIdentifier
    /\ pc = "number" => Begun /\ InNumber
    /\ pc = "fraction" => Begun /\ InFraction
    /\ pc = "string" => Begun /\ InString

IInv == Shape /\ Counted /\ Open /\ Inside
-----------------------------------------------------------------------------
(* Lines.                                                                  *)

LEMMA LineIs ==
    ASSUME Sourced, NEW place \in 1..End
    PROVE  /\ Words!LineAt(place) \in 1..place
           /\ place # End =>
                  Words!LineAt(place + 1) =
                      IF source[place] = NewLine THEN Words!LineAt(place) + 1
                      ELSE Words!LineAt(place)
<1> DEFINE Before(p) == {i \in 1..p - 1 : source[i] = NewLine}
<1>1. place \in Nat /\ End \in Nat
    BY DEF Sourced, End
<1>2. IsFiniteSet(1..place - 1) /\ Cardinality(1..place - 1) = place - 1
    <2>1. IsFiniteSet(1..place - 1) /\ Cardinality(1..place - 1) =
              IF 1 <= place - 1 THEN (place - 1) - 1 + 1 ELSE 0
        BY <1>1, FS_Interval
    <2> QED BY <1>1, <2>1
<1>3. IsFiniteSet(Before(place)) /\ Cardinality(Before(place)) <= place - 1
      /\ Cardinality(Before(place)) \in Nat
    <2>1. Before(place) \subseteq 1..place - 1
        OBVIOUS
    <2> QED BY <1>2, <2>1, FS_Subset, FS_CardinalityType
<1>4. ASSUME place # End, source[place] = NewLine
      PROVE  Cardinality(Before(place + 1)) = Cardinality(Before(place)) + 1
    <2>1. Before(place + 1) = Before(place) \cup {place} /\ place \notin Before(place)
        BY <1>1, <1>4
    <2> QED BY <1>3, <2>1, FS_AddElement
<1>5. ASSUME source[place] # NewLine
      PROVE  Before(place + 1) = Before(place)
    BY <1>1, <1>5
<1>6. \A p : Words!LineAt(p) = 1 + Cardinality(Before(p))
    <2> TAKE p
    <2>1. {i \in 1..p - 1 : source[i] = Words!NewLine} = Before(p)
        BY Shared
    <2> HIDE DEF Before
    <2> QED BY <2>1 DEF Words!LineAt, Words!Cardinality, Cardinality
<1> HIDE DEF Before
<1> QED BY <1>1, <1>3, <1>4, <1>5, <1>6
-----------------------------------------------------------------------------
(* The steps that return nothing.                                          *)

LEMMA Same ==
    ASSUME UNCHANGED <<source, tokens>>
    PROVE  /\ Words!Place' = Words!Place
           /\ End' = End
           /\ Sourced' <=> Sourced
           /\ \A place : Words!Skipped(place)' <=> Words!Skipped(place)
           /\ \A place : Words!Starts(place)' <=> Words!Starts(place)
           /\ \A place : Words!LineAt(place)' = Words!LineAt(place)
BY DEF Words!Place, End, Sourced, Words!Skipped, Words!InComment, Words!Starts, Words!LineAt,
       Words!End

\* A character of the source is one place, and not NUL.
LEMMA OneOn ==
    ASSUME Shape, Here # NUL
    PROVE  /\ current \in 1..Len(source) /\ current # End /\ current + 1 \in 1..End
           /\ Here = source[current]
           /\ End \in Nat /\ Len(source) \in Nat /\ End = Len(source) + 1
<1>1. current \in 1..End /\ Sourced
    BY DEF Shape
<1>2. current \in 1..Len(source) /\ Here = source[current] /\ End \in Nat /\ Len(source) \in Nat
    BY <1>1, HereIs DEF Here
<1> QED BY <1>2 DEF End

\* Passing a character that is not the end of a line.
LEMMA CountedOver ==
    ASSUME Shape, Counted, Here # NUL, Here # NewLine
    PROVE  line = Words!LineAt(current + 1)
<1>1. current \in 1..End /\ current # End /\ source[current] # NewLine /\ Sourced
    BY OneOn DEF Shape
<1>2. Words!LineAt(current + 1) = Words!LineAt(current)
    BY <1>1, LineIs
<1> QED BY <1>2 DEF Counted

\* The parts of the invariant on what none of these steps changes.
LEMMA Stays ==
    ASSUME IInv, UNCHANGED <<source, tokens>>, pc # "ended",
           start' \in 1..End, current' \in 1..End, pc' \in Loops, line' = Words!LineAt(current')
    PROVE  Shape' /\ Counted' /\ Open'
<1>1. Shape'
    BY Same DEF IInv, Shape, Sourced, End
<1>2. Counted'
    BY Same DEF Counted, Words!LineAt
<1>3. Open'
    BY DEF IInv, Open
<1> QED BY <1>1, <1>2, <1>3

LEMMA SkipBlankStep ==
    ASSUME IInv, SkipBlank
    PROVE  IInv'
<1>1. /\ pc = "blanks" /\ Here \in Blanks /\ current' = current + 1
      /\ line' = IF Here = NewLine THEN line + 1 ELSE line
      /\ UNCHANGED <<source, start, pc, tokens>>
    BY DEF SkipBlank, AdvanceOverLines
<1>2. Here # NUL /\ Shape /\ Counted /\ Covered /\ Closed
    BY <1>1, NoNul DEF IInv, Inside
<1>3. /\ current \in 1..Len(source) /\ current # End /\ current + 1 \in 1..End
      /\ Here = source[current] /\ End \in Nat /\ End = Len(source) + 1
    BY <1>2, OneOn
<1>4. line' = Words!LineAt(current')
    BY <1>1, <1>2, <1>3, LineIs DEF Shape, Counted
<1>5. Shape' /\ Counted' /\ Open'
    BY <1>1, <1>2, <1>3, <1>4, Stays DEF Shape
<1>6. Words!Skipped(current)
    BY <1>1, <1>3, Shared DEF Words!Skipped
<1>7. Covered'
    <2>1. Words!Place \in 1..current + 1
        BY <1>2, <1>3 DEF Covered
    <2>2. \A place \in Words!Place..current : Words!Skipped(place)
        BY <1>2, <1>3, <1>6 DEF Covered
    <2>3. current' - 1 = current
        BY <1>1, <1>3
    <2> QED BY <1>1, <2>1, <2>2, <2>3, Same DEF Covered
<1>8. Closed'
    <2>1. ASSUME NEW i \in Words!Place..current, source[i] = Hash
          PROVE  \E j \in i..current + 1 : j # End /\ source[j] = NewLine
        <3>1. i # current
            BY <1>1, <1>3, <2>1, Distinct
        <3>2. i \in Words!Place..current - 1
            BY <1>2, <1>3, <3>1 DEF Covered
        <3>3. PICK j \in i..current : j # End /\ source[j] = NewLine
            BY <1>2, <1>3, <2>1, <3>2 DEF Closed
        <3> QED BY <1>3, <3>3
    <2>2. current' - 1 = current
        BY <1>1, <1>3
    <2> QED BY <1>1, <2>1, <2>2, Same DEF Closed
<1> QED BY <1>1, <1>5, <1>7, <1>8 DEF IInv, Inside

LEMMA EnterCommentStep ==
    ASSUME IInv, EnterComment
    PROVE  IInv'
<1>1. /\ pc = "blanks" /\ Here = Hash /\ pc' = "comment"
      /\ UNCHANGED <<source, start, current, line, tokens>>
    BY DEF EnterComment, GoTo
<1>2. Here # NUL /\ Shape /\ Counted /\ Covered
    BY <1>1, NoNul DEF IInv, Inside
<1>3. current # End /\ current \in 1..End /\ source[current] = Hash /\ End \in Nat
    BY <1>1, <1>2, OneOn DEF Shape
<1>4. Shape' /\ Counted' /\ Open'
    BY <1>1, <1>2, Stays DEF Shape, Counted, Loops
<1>5. Covered'
    BY <1>1, <1>2, Same DEF Covered
<1>6. Opened'
    <2>1. current \in Words!Place..current /\ current \in Nat
        BY <1>2, <1>3 DEF Covered
    <2>2. \A j \in current..current - 1 : source[j] # NewLine
        BY <2>1
    <2>3. Opened
        BY <1>3, <2>1, <2>2 DEF Opened
    <2> QED BY <1>1, <2>3, Same DEF Opened
<1> QED BY <1>1, <1>4, <1>5, <1>6 DEF IInv, Inside

LEMMA SkipCommentStep ==
    ASSUME IInv, SkipComment
    PROVE  IInv'
<1>1. /\ pc = "comment" /\ Here # NewLine /\ Here # NUL /\ current' = current + 1
      /\ UNCHANGED <<source, start, line, pc, tokens>>
    BY DEF SkipComment, Advance
<1>2. Shape /\ Counted /\ Covered /\ Opened
    BY <1>1 DEF IInv, Inside
<1>3. /\ current \in 1..Len(source) /\ current # End /\ current + 1 \in 1..End
      /\ Here = source[current] /\ End \in Nat /\ End = Len(source) + 1
    BY <1>1, <1>2, OneOn
<1>4. Shape' /\ Counted' /\ Open'
    BY <1>1, <1>2, <1>3, CountedOver, Stays DEF Shape
<1>5. PICK i \in Words!Place..current :
          /\ i # End /\ source[i] = Hash
          /\ \A j \in i..current - 1 : source[j] # NewLine
    BY <1>2 DEF Opened
<1>6. \A j \in i..current : source[j] # NewLine
    BY <1>1, <1>2, <1>3, <1>5 DEF Covered
<1>7. Words!Skipped(current)
    BY <1>5, <1>6, Shared DEF Words!Skipped, Words!InComment
<1>8. current' - 1 = current
    BY <1>1, <1>3
<1>9. Covered'
    <2>1. Words!Place \in 1..current + 1
        BY <1>2, <1>3 DEF Covered
    <2>2. \A place \in Words!Place..current : Words!Skipped(place)
        BY <1>2, <1>3, <1>7 DEF Covered
    <2> QED BY <1>1, <1>8, <2>1, <2>2, Same DEF Covered
<1>10. Opened'
    <2>1. i \in Words!Place..current + 1
        BY <1>2, <1>3 DEF Covered
    <2> QED BY <1>1, <1>5, <1>6, <1>8, <2>1, Same DEF Opened
<1> QED BY <1>1, <1>4, <1>9, <1>10 DEF IInv, Inside

LEMMA LeaveCommentStep ==
    ASSUME IInv, LeaveComment
    PROVE  IInv'
<1>1. /\ pc = "comment" /\ (Here = NewLine \/ Here = NUL) /\ pc' = "blanks"
      /\ UNCHANGED <<source, start, current, line, tokens>>
    BY DEF LeaveComment, GoTo
<1>2. Shape /\ Counted /\ Covered
    BY <1>1 DEF IInv, Inside
<1>3. Shape' /\ Counted' /\ Open'
    BY <1>1, <1>2, Stays DEF Shape, Counted, Loops
<1>4. Covered'
    BY <1>1, <1>2, Same DEF Covered
<1>5. current = End \/ (current # End /\ source[current] = NewLine)
    BY <1>1, <1>2, HereIs DEF Shape, Here
<1>6. Closed
    <2>0. current \in Nat /\ Words!Place \in Nat
        BY <1>2 DEF Covered, Shape, Sourced, End
    <2>1. \A i \in Words!Place..current - 1 : current \in i..current
        BY <2>0
    <2> QED BY <1>5, <2>1 DEF Closed
<1>7. Closed'
    BY <1>1, <1>6, Same DEF Closed
<1> QED BY <1>1, <1>3, <1>4, <1>7 DEF IInv, Inside

\* Where the blanks end, a token starts.
LEMMA BeginsHere ==
    ASSUME IInv, pc = "blanks", Here # Hash, Here \notin Blanks
    PROVE  Words!Starts(current) /\ Words!Place \in 1..current
<1>1. Shape /\ Covered /\ Closed
    BY DEF IInv, Inside
<1>2. Words!Place \in 1..current /\ \A place \in Words!Place..current - 1 : Words!Skipped(place)
    BY <1>1 DEF Covered
<1>3. CASE current = End
    BY <1>2, <1>3, Shared DEF Words!Starts
<1>4. CASE current # End
    <2>1. current \in 1..Len(source) /\ Here = source[current] /\ Len(source) \in Nat
        BY <1>1, <1>4, HereIs DEF Shape, Here
    <2>2. source[current] \notin Blanks /\ source[current] # Hash /\ source[current] # NewLine
        BY <2>1 DEF Blanks
    <2>3. ~Words!InComment(Words!Place, current)
        <3> SUFFICES ASSUME NEW i \in Words!Place..current, source[i] = Hash,
                            \A j \in i..current : source[j] # NewLine
                     PROVE  FALSE
            BY Shared DEF Words!InComment
        <3>1. i \in Words!Place..current - 1
            BY <1>2, <2>1, <2>2
        <3> QED BY <1>1, <1>4, <3>1 DEF Closed
    <2>4. ~Words!Skipped(current)
        BY <2>2, <2>3, Shared DEF Words!Skipped
    <2> QED BY <1>2, <2>4 DEF Words!Starts
<1> QED BY <1>2, <1>3, <1>4

\* The first character of an identifier, a number or a string.
LEMMA Entered ==
    ASSUME IInv, pc = "blanks", NEW loop \in Loops \ {"ended"}, Enter(loop),
           Here \in Letters \cup Digits \cup {Quote}
    PROVE  /\ Shape' /\ Counted' /\ Open' /\ Begun'
           /\ source' = source /\ start' = current /\ current' = current + 1 /\ pc' = loop
           /\ current \in Nat /\ source'[start'] = Here
<1>1. /\ start' = current /\ current' = current + 1 /\ pc' = loop
      /\ UNCHANGED <<source, line, tokens>>
    BY DEF Enter
<1>2. Here # NUL /\ Here # NewLine /\ Here \notin Blanks /\ Here # Hash
    BY NoNul, Distinct DEF Blanks
<1>3. Shape /\ Counted
    BY DEF IInv
<1>4. /\ current \in 1..Len(source) /\ current # End /\ current + 1 \in 1..End
      /\ Here = source[current] /\ Len(source) \in Nat
    BY <1>2, <1>3, OneOn
<1>5. Shape' /\ Counted' /\ Open'
    BY <1>1, <1>2, <1>3, <1>4, CountedOver, Stays DEF Shape
<1>6. Words!Starts(current) /\ Words!Place \in 1..current
    BY <1>2, BeginsHere
<1>7. Begun'
    BY <1>1, <1>4, <1>6, Same DEF Begun
<1> QED BY <1>1, <1>4, <1>5, <1>7

LEMMA EnterIdentifierStep ==
    ASSUME IInv, EnterIdentifier
    PROVE  IInv'
<1>1. pc = "blanks" /\ Here \in Letters /\ Enter("identifier")
    BY DEF EnterIdentifier
<1>2. /\ Shape' /\ Counted' /\ Open' /\ Begun'
      /\ source' = source /\ start' = current /\ current' = current + 1 /\ pc' = "identifier"
      /\ current \in Nat /\ source'[start'] = Here
    BY <1>1, Entered DEF Loops
<1>3. InIdentifier'
    BY <1>1, <1>2 DEF InIdentifier
<1> QED BY <1>2, <1>3 DEF IInv, Inside

LEMMA EnterNumberStep ==
    ASSUME IInv, EnterNumber
    PROVE  IInv'
<1>1. pc = "blanks" /\ Here \in Digits /\ Enter("number")
    BY DEF EnterNumber
<1>2. /\ Shape' /\ Counted' /\ Open' /\ Begun'
      /\ source' = source /\ start' = current /\ current' = current + 1 /\ pc' = "number"
      /\ current \in Nat /\ source'[start'] = Here
    BY <1>1, Entered DEF Loops
<1>3. InNumber'
    BY <1>1, <1>2 DEF InNumber
<1> QED BY <1>2, <1>3 DEF IInv, Inside

LEMMA EnterStringStep ==
    ASSUME IInv, EnterString
    PROVE  IInv'
<1>1. pc = "blanks" /\ Here = Quote /\ Enter("string")
    BY DEF EnterString
<1>2. /\ Shape' /\ Counted' /\ Open' /\ Begun'
      /\ source' = source /\ start' = current /\ current' = current + 1 /\ pc' = "string"
      /\ current \in Nat /\ source'[start'] = Here
    BY <1>1, Entered DEF Loops
<1>3. InString'
    BY <1>1, <1>2 DEF InString
<1> QED BY <1>2, <1>3 DEF IInv, Inside

\* A character more of a token.
LEMMA Advanced ==
    ASSUME IInv, Begun, pc \notin {"blanks", "comment", "ended"}, Here # NUL,
           current' = current + 1, UNCHANGED <<source, start, tokens>>, pc' \in Loops,
           line' = IF Here = NewLine THEN line + 1 ELSE line
    PROVE  /\ Shape' /\ Counted' /\ Open' /\ Begun'
           /\ current \in Nat /\ start \in Nat /\ start < current /\ current # End
           /\ Here = source[current]
<1>1. Shape /\ Counted
    BY DEF IInv
<1>2. /\ current \in 1..Len(source) /\ current # End /\ current + 1 \in 1..End
      /\ Here = source[current] /\ Len(source) \in Nat
    BY <1>1, OneOn
<1>3. line' = Words!LineAt(current')
    BY <1>1, <1>2, LineIs DEF Shape, Counted
<1>4. Shape' /\ Counted' /\ Open'
    BY <1>1, <1>2, <1>3, Stays DEF Shape
<1>5. start \in Nat /\ start < current
    BY <1>2 DEF Begun
<1>6. Begun'
    BY <1>2, <1>5, Same DEF Begun
<1> QED BY <1>2, <1>4, <1>5, <1>6

LEMMA SkipIdentifierStep ==
    ASSUME IInv, SkipIdentifier
    PROVE  IInv'
<1>1. /\ pc = "identifier" /\ Here \in Letters \cup Digits /\ current' = current + 1
      /\ UNCHANGED <<source, start, line, pc, tokens>>
    BY DEF SkipIdentifier, Advance
<1>2. Begun /\ InIdentifier /\ pc \in Loops
    BY <1>1 DEF IInv, Inside, Shape
<1>3. Here # NUL /\ Here # NewLine
    BY <1>1, NoNul, Distinct DEF Blanks
<1>4. /\ Shape' /\ Counted' /\ Open' /\ Begun'
      /\ current \in Nat /\ start \in Nat /\ start < current /\ Here = source[current]
    BY <1>1, <1>2, <1>3, Advanced
<1>5. InIdentifier'
    BY <1>1, <1>2, <1>4 DEF InIdentifier
<1> QED BY <1>1, <1>4, <1>5 DEF IInv, Inside

LEMMA SkipDigitStep ==
    ASSUME IInv, SkipDigit
    PROVE  IInv'
<1>1. /\ pc \in {"number", "fraction"} /\ Here \in Digits /\ current' = current + 1
      /\ UNCHANGED <<source, start, line, pc, tokens>>
    BY DEF SkipDigit, Advance
<1>2. Begun /\ pc \in Loops
    BY <1>1 DEF IInv, Inside, Shape
<1>3. Here # NUL /\ Here # NewLine
    BY <1>1, NoNul, Distinct DEF Blanks
<1>4. /\ Shape' /\ Counted' /\ Open' /\ Begun'
      /\ current \in Nat /\ start \in Nat /\ start < current /\ Here = source[current]
    BY <1>1, <1>2, <1>3, Advanced
<1>5. CASE pc = "number"
    <2>1. InNumber'
        BY <1>1, <1>4, <1>5 DEF IInv, Inside, InNumber
    <2> QED BY <1>1, <1>4, <1>5, <2>1 DEF IInv, Inside
<1>6. CASE pc = "fraction"
    <2>1. PICK dot \in start + 1..current - 1 :
              /\ source[dot] = Dot
              /\ \A i \in (start..current - 1) \ {dot} : source[i] \in Digits
        BY <1>6 DEF IInv, Inside, InFraction
    <2>2. /\ dot \in start + 1..current' - 1 /\ dot # current' - 1
          /\ \A i \in (start..current' - 1) \ {dot} : source[i] \in Digits
        BY <1>1, <1>4, <2>1
    <2>3. InFraction'
        BY <1>1, <2>1, <2>2 DEF InFraction
    <2> QED BY <1>1, <1>4, <1>6, <2>3 DEF IInv, Inside
<1> QED BY <1>1, <1>5, <1>6

LEMMA EnterFractionStep ==
    ASSUME IInv, EnterFraction
    PROVE  IInv'
<1>1. /\ pc = "number" /\ Here = Dot /\ CharacterAt(current + 1) \in Digits
      /\ current' = current + 1 /\ pc' = "fraction"
      /\ UNCHANGED <<source, start, line, tokens>>
    BY DEF EnterFraction, HasFraction
<1>2. Begun /\ InNumber
    BY <1>1 DEF IInv, Inside
<1>3. Here # NUL /\ Here # NewLine
    BY <1>1, NoNul DEF Dot, NewLine
<1>4. /\ Shape' /\ Counted' /\ Open' /\ Begun'
      /\ current \in Nat /\ start \in Nat /\ start < current /\ Here = source[current]
    BY <1>1, <1>2, <1>3, Advanced DEF Loops
<1>5. /\ current \in start + 1..current' - 1 /\ source[current] = Dot
      /\ \A i \in (start..current' - 1) \ {current} : source[i] \in Digits
    BY <1>1, <1>2, <1>4 DEF InNumber
<1>6. Here' \in Digits
    BY <1>1 DEF Here, CharacterAt, End
<1>7. InFraction'
    BY <1>1, <1>5, <1>6 DEF InFraction
<1> QED BY <1>1, <1>4, <1>7 DEF IInv, Inside

LEMMA SkipCharacterStep ==
    ASSUME IInv, SkipCharacter
    PROVE  IInv'
<1>1. /\ pc = "string" /\ Here # Quote /\ Here # NUL /\ current' = current + 1
      /\ line' = IF Here = NewLine THEN line + 1 ELSE line
      /\ UNCHANGED <<source, start, pc, tokens>>
    BY DEF SkipCharacter, AdvanceOverLines
<1>2. Begun /\ InString /\ pc \in Loops
    BY <1>1 DEF IInv, Inside, Shape
<1>3. /\ Shape' /\ Counted' /\ Open' /\ Begun'
      /\ current \in Nat /\ start \in Nat /\ start < current /\ Here = source[current]
    BY <1>1, <1>2, Advanced
<1>4. InString'
    BY <1>1, <1>2, <1>3 DEF InString
<1> QED BY <1>1, <1>3, <1>4 DEF IInv, Inside
-----------------------------------------------------------------------------
(* The steps that return a token.                                          *)

LEMMA Appended ==
    ASSUME NEW S, NEW s \in Seq(S), NEW e \in S
    PROVE  /\ Append(s, e) \in Seq(S) /\ Append(s, e) # <<>>
           /\ Append(s, e)[Len(Append(s, e))] = e
           /\ DOMAIN Append(s, e) = DOMAIN s \cup {Len(Append(s, e))}
           /\ \A i \in DOMAIN s : Append(s, e)[i] = s[i]
OBVIOUS

\* What holds after it, if it leaves no line uncounted.
LEMMA Returned ==
    ASSUME IInv, pc # "ended", NEW type \in AllTypes, NEW first \in 1..End, NEW next \in 1..End,
           line = Words!LineAt(next), Return(type, first, next)
    PROVE  IInv'
<1>1. /\ tokens' = Append(tokens, [type |-> type, first |-> first, next |-> next, line |-> line])
      /\ start' = first /\ current' = next /\ UNCHANGED <<source, line>>
      /\ pc' = IF type = "EOF" THEN "ended" ELSE "blanks"
    BY DEF Return
<1>2. Shape /\ Open
    BY DEF IInv
<1>3. line \in 1..End /\ End \in Nat /\ next \in Nat
    BY <1>2, LineIs DEF Shape, Sourced, End
<1>4. End' = End /\ (Sourced' <=> Sourced)
    BY <1>1 DEF End, Sourced
<1> DEFINE token == [type |-> type, first |-> first, next |-> next, line |-> line]
<1>5. token \in [type : AllTypes, first : 1..End, next : 1..End, line : 1..End]
      /\ token.type = type /\ token.next = next
    BY <1>3
<1> HIDE DEF token
<1>6. /\ tokens' = Append(tokens, token)
      /\ tokens \in Seq([type : AllTypes, first : 1..End, next : 1..End, line : 1..End])
    BY <1>1, <1>2 DEF Shape, token
<1>7. /\ tokens' \in Seq([type : AllTypes, first : 1..End, next : 1..End, line : 1..End])
      /\ tokens' # <<>> /\ tokens'[Len(tokens')] = token
      /\ DOMAIN tokens' = DOMAIN tokens \cup {Len(tokens')}
      /\ \A i \in DOMAIN tokens : tokens'[i] = tokens[i]
    BY <1>5, <1>6, Appended
<1>8. Shape'
    BY <1>1, <1>2, <1>4, <1>7 DEF Shape, Loops, AllTypes
<1>9. Counted'
    BY <1>1 DEF Counted, Words!LineAt
<1>10. Open'
    BY <1>1, <1>2, <1>5, <1>7 DEF Open
<1>11. Words!Place' = next
    BY <1>5, <1>7 DEF Words!Place
<1>12. Inside'
    <2>1. Words!Place' \in 1..current' /\ current' - 1 < Words!Place' /\ current' \in Nat
        BY <1>1, <1>3, <1>11
    <2>2. \A place \in Words!Place'..current' - 1 : FALSE
        <3>1. \A place \in next..next - 1 : FALSE
            BY <1>3
        <3> QED BY <1>1, <1>11, <3>1
    <2>3. Covered' /\ Closed'
        BY <2>1, <2>2 DEF Covered, Closed
    <2> QED BY <1>1, <2>3 DEF Inside
<1> QED BY <1>8, <1>9, <1>10, <1>12 DEF IInv

\* What it is for Lexemes: the next token, if none before it is the last.
LEMMA Promised ==
    ASSUME IInv, pc # "ended", NEW type, NEW first, NEW next,
           line = Words!LineAt(next), Return(type, first, next)
    PROVE  Words!Add(type, first, next) /\ \A i \in DOMAIN tokens : tokens[i].type # "EOF"
BY DEF Return, Words!Add, IInv, Open

LEMMA TypesAre ==
    /\ Words!Types \subseteq AllTypes /\ "ERROR" \in AllTypes /\ "EOF" \in AllTypes
    /\ "NUMBER" \in Words!Types /\ "STRING" \in Words!Types
    /\ \A c \in Singles : SingleType(c) \in Words!Types
    /\ \A mark \in DoubleMarks : mark[2] \in Words!Types /\ mark[4] \in Words!Types
BY Shared DEF AllTypes, Words!Types

LEMMA ReturnEofStep ==
    ASSUME IInv, ReturnEof
    PROVE  IInv' /\ Words!Next
<1>1. pc = "blanks" /\ Here = NUL /\ Return("EOF", current, current)
    BY DEF ReturnEof
<1>2. current = End /\ current \in 1..End /\ line = Words!LineAt(current)
    BY <1>1, HereIs DEF IInv, Shape, Here, Counted
<1>3. IInv'
    BY <1>1, <1>2, TypesAre, Returned
<1>4. Words!Starts(current)
    BY <1>1, NoNul, BeginsHere
<1>5. Words!Add("EOF", current, current) /\ \A i \in DOMAIN tokens : tokens[i].type # "EOF"
    BY <1>1, <1>2, Promised
<1> QED BY <1>2, <1>3, <1>4, <1>5, Shared DEF Words!Next, Words!Eof

\* A token that is a lexeme, and the longest, is a step of Lexemes.
LEMMA LongestIsNext ==
    ASSUME IInv, pc # "ended", NEW type \in Words!Types, NEW first \in 1..Len(source),
           NEW next \in first + 1..End, Words!Place \in 1..first, Words!Starts(first),
           line = Words!LineAt(next), Return(type, first, next),
           Words!Lexeme(Words!Text(first, next), type),
           \A longer \in next + 1..End : ~Words!IsLexeme(Words!Text(first, longer))
    PROVE  IInv' /\ Words!Next
<1>1. End \in Nat /\ End = Len(source) + 1 /\ first \in 1..End /\ next \in 1..End
      /\ first \in Words!Place..Len(source)
    BY DEF IInv, Shape, Sourced, End
<1>2. IInv'
    BY <1>1, TypesAre, Returned
<1>3. Words!Add(type, first, next) /\ \A i \in DOMAIN tokens : tokens[i].type # "EOF"
    BY Promised
<1>4. Words!Longest(type, first, next)
    BY <1>3, Shared DEF Words!Longest
<1> QED BY <1>1, <1>2, <1>3, <1>4, Shared DEF Words!Next

LEMMA ErrorIsNext ==
    ASSUME IInv, pc # "ended", NEW first \in 1..Len(source),
           NEW next \in first + 1..End, Words!Place \in 1..first, Words!Starts(first),
           line = Words!LineAt(next), Return("ERROR", first, next),
           next = IF source[first] = Quote THEN End ELSE first + 1,
           \A longer \in first + 1..End : ~Words!IsLexeme(Words!Text(first, longer))
    PROVE  IInv' /\ Words!Next
<1>1. End \in Nat /\ End = Len(source) + 1 /\ first \in 1..End /\ next \in 1..End
      /\ first \in Words!Place..Len(source)
    BY DEF IInv, Shape, Sourced, End
<1>2. IInv'
    BY <1>1, TypesAre, Returned
<1>3. Words!Add("ERROR", first, next) /\ \A i \in DOMAIN tokens : tokens[i].type # "EOF"
    BY Promised
<1>4. Words!Error(first, next)
    BY <1>3, Shared DEF Words!Error
<1> QED BY <1>1, <1>2, <1>3, <1>4, Shared DEF Words!Next

\* What next_token knows of a character that is neither blank nor a comment's.
LEMMA AtCharacter ==
    ASSUME IInv, pc = "blanks", Here # NUL, Here # Hash, Here \notin Blanks
    PROVE  /\ current \in 1..Len(source) /\ current + 1 \in current + 1..End
           /\ Words!Place \in 1..current /\ Words!Starts(current) /\ Here = source[current]
           /\ line = Words!LineAt(current + 1)
           /\ Sourced /\ End \in Nat /\ End = Len(source) + 1 /\ Len(source) \in Nat
           /\ current + 1 \in 1..End
<1>1. Here # NewLine
    BY DEF Blanks
<1>2. Shape /\ Counted
    BY DEF IInv
<1>3. line = Words!LineAt(current + 1)
    BY <1>1, <1>2, CountedOver
<1>4. /\ current \in 1..Len(source) /\ current + 1 \in 1..End /\ Here = source[current]
      /\ End \in Nat /\ Len(source) \in Nat /\ End = Len(source) + 1
    BY <1>2, OneOn
<1> QED BY <1>2, <1>3, <1>4, BeginsHere DEF Shape

\* No text that starts with a mark is a lexeme but the mark, or the two.
LEMMA MarkIs ==
    ASSUME Sourced, NEW first \in 1..Len(source), NEW next \in first + 1..End,
           source[first] \notin Letters \cup Digits \cup {Quote},
           Words!IsLexeme(Words!Text(first, next))
    PROVE  \/ next = first + 1 /\ Marked(source[first])
           \/ next = first + 2 /\ \E mark \in DoubleMarks :
                                      mark[1] = source[first] /\ mark[3] = source[first + 1]
<1> DEFINE text == Words!Text(first, next)
<1>1. /\ Len(text) = next - first /\ Len(text) \in Nat \ {0} /\ text[1] = source[first]
      /\ \A i \in 1..next - first : text[i] = source[first + i - 1]
    BY TextIs
<1>2. first \in Nat /\ next \in Nat
    BY DEF Sourced, End
<1>3. Words!IsLexeme(text)
    OBVIOUS
<1> HIDE DEF text
<1>4. PICK type : Words!MarkType(text, type)
    BY <1>1, <1>3, MarksOnly
<1>5. CASE Len(text) = 1
    BY <1>1, <1>2, <1>4, <1>5, Shared DEF Words!MarkType, Marked
<1>6. CASE Len(text) = 2
    <2>1. next = first + 2 /\ text[2] = source[first + 1]
        <3>0. next - first = 2
            BY <1>1, <1>6
        <3>1. next = first + 2 /\ 2 \in 1..next - first /\ first + 2 - 1 = first + 1
            BY <1>2, <3>0
        <3> QED BY <1>1, <3>1
    <2>2. PICK mark \in DoubleMarks : <<text[1], text[2], type>> = <<mark[1], mark[3], mark[4]>>
        BY <1>4, <1>6, Shared DEF Words!MarkType
    <2> QED BY <1>1, <2>1, <2>2
<1> QED BY <1>4, <1>5, <1>6 DEF Words!MarkType

LEMMA OneIs ==
    ASSUME Sourced, NEW place \in 1..Len(source)
    PROVE  /\ Len(Words!Text(place, place + 1)) = 1
           /\ Words!Text(place, place + 1)[1] = source[place]
BY DEF Words!Text, Sourced

LEMMA TwoIs ==
    ASSUME Sourced, NEW place \in 1..Len(source), place + 1 <= Len(source)
    PROVE  /\ Len(Words!Text(place, place + 2)) = 2
           /\ Words!Text(place, place + 2)[1] = source[place]
           /\ Words!Text(place, place + 2)[2] = source[place + 1]
BY DEF Words!Text, Sourced

LEMMA ReturnSingleStep ==
    ASSUME IInv, ReturnSingle
    PROVE  IInv' /\ Words!Next
<1>1. pc = "blanks" /\ Here \in Singles /\ Return(SingleType(Here), current, current + 1)
    BY DEF ReturnSingle
<1>2. Here # NUL /\ Here # Hash /\ Here \notin Blanks /\ Here \notin Letters \cup Digits \cup {Quote}
    BY <1>1, NoNul, Distinct DEF Marked
<1>3. /\ current \in 1..Len(source) /\ current + 1 \in current + 1..End
      /\ Words!Place \in 1..current /\ Words!Starts(current) /\ Here = source[current]
      /\ line = Words!LineAt(current + 1)
      /\ Sourced /\ End \in Nat /\ End = Len(source) + 1 /\ Len(source) \in Nat
    BY <1>1, <1>2, AtCharacter
<1>4. Words!Lexeme(Words!Text(current, current + 1), SingleType(Here))
    <2>1. Len(Words!Text(current, current + 1)) = 1
          /\ Words!Text(current, current + 1)[1] = source[current]
        BY <1>3, OneIs
    <2> QED BY <1>1, <1>3, <2>1, Shared DEF Words!Lexeme, Words!MarkType
<1>5. \A longer \in current + 1 + 1..End : ~Words!IsLexeme(Words!Text(current, longer))
    <2> SUFFICES ASSUME NEW longer \in current + 1 + 1..End,
                        Words!IsLexeme(Words!Text(current, longer))
                 PROVE  FALSE
        OBVIOUS
    <2>1. longer \in current + 1..End /\ longer # current + 1
        BY <1>3
    <2> QED BY <1>1, <1>2, <1>3, <2>1, MarkIs, DistinctMarks
<1>6. SingleType(Here) \in Words!Types
    BY <1>1, TypesAre
<1> QED BY <1>1, <1>3, <1>4, <1>5, <1>6, LongestIsNext

LEMMA ReturnDoubleStep ==
    ASSUME IInv, ReturnDouble
    PROVE  IInv' /\ Words!Next
<1>1. PICK mark \in DoubleMarks :
          /\ pc = "blanks" /\ Here = mark[1]
          /\ \/ /\ CharacterAt(current + 1) = mark[3]
                /\ Return(mark[4], current, current + 2)
             \/ /\ CharacterAt(current + 1) # mark[3]
                /\ Return(mark[2], current, current + 1)
    BY DEF ReturnDouble
<1>2. Marked(Here)
    BY <1>1 DEF Marked
<1>3. Here # NUL /\ Here # Hash /\ Here \notin Blanks /\ Here \notin Letters \cup Digits \cup {Quote}
    BY <1>2, NoNul, Distinct
<1>4. /\ current \in 1..Len(source) /\ current + 1 \in current + 1..End
      /\ Words!Place \in 1..current /\ Words!Starts(current) /\ Here = source[current]
      /\ line = Words!LineAt(current + 1)
      /\ Sourced /\ End \in Nat /\ End = Len(source) + 1 /\ Len(source) \in Nat
      /\ current + 1 \in 1..End
    BY <1>1, <1>3, AtCharacter
<1>5. CASE CharacterAt(current + 1) = mark[3] /\ Return(mark[4], current, current + 2)
    <2>1. mark[3] # NUL /\ mark[3] # NewLine
        BY DEF DoubleMarks, NUL, NewLine
    <2>2. /\ current + 1 \in 1..Len(source) /\ current + 1 # End /\ source[current + 1] = mark[3]
        BY <1>4, <1>5, <2>1, HereIs
    <2>3. current + 2 \in current + 1..End /\ current + 1 + 1 = current + 2
        BY <1>4, <2>2
    <2>4. line = Words!LineAt(current + 2)
        BY <1>4, <2>1, <2>2, <2>3, LineIs
    <2>5. Words!Lexeme(Words!Text(current, current + 2), mark[4])
        <3>1. current + 1 <= Len(source)
            BY <2>2
        <3>2. /\ Len(Words!Text(current, current + 2)) = 2
              /\ Words!Text(current, current + 2)[1] = mark[1]
              /\ Words!Text(current, current + 2)[2] = mark[3]
            BY <1>1, <1>4, <2>2, <3>1, TwoIs
        <3> QED BY <3>2, Shared DEF Words!Lexeme, Words!MarkType
    <2>6. \A longer \in current + 2 + 1..End : ~Words!IsLexeme(Words!Text(current, longer))
        <3> SUFFICES ASSUME NEW longer \in current + 2 + 1..End,
                            Words!IsLexeme(Words!Text(current, longer))
                     PROVE  FALSE
            OBVIOUS
        <3>1. longer \in current + 1..End /\ longer # current + 1 /\ longer # current + 2
            BY <1>4
        <3> QED BY <1>3, <1>4, <3>1, MarkIs
    <2>7. mark[4] \in Words!Types
        BY TypesAre
    <2> QED BY <1>1, <1>4, <1>5, <2>3, <2>4, <2>5, <2>6, <2>7, LongestIsNext
<1>6. CASE CharacterAt(current + 1) # mark[3] /\ Return(mark[2], current, current + 1)
    <2>1. Words!Lexeme(Words!Text(current, current + 1), mark[2])
        <3>1. /\ Len(Words!Text(current, current + 1)) = 1
              /\ Words!Text(current, current + 1)[1] = source[current]
            BY <1>4, OneIs
        <3> QED BY <1>1, <1>4, <3>1, Shared DEF Words!Lexeme, Words!MarkType
    <2>2. \A longer \in current + 1 + 1..End : ~Words!IsLexeme(Words!Text(current, longer))
        <3> SUFFICES ASSUME NEW longer \in current + 1 + 1..End,
                            Words!IsLexeme(Words!Text(current, longer))
                     PROVE  FALSE
            OBVIOUS
        <3>1. longer \in current + 1..End /\ longer # current + 1
              /\ current + 1 # End
            BY <1>4
        <3>2. PICK other \in DoubleMarks : other[1] = source[current] /\ other[3] = source[current + 1]
            BY <1>3, <1>4, <3>1, MarkIs
        <3>3. other = mark
            BY <1>1, <1>4, <3>2, DistinctMarks
        <3>4. CharacterAt(current + 1) = source[current + 1]
            BY <1>4, <3>1, HereIs
        <3> QED BY <1>6, <3>2, <3>3, <3>4
    <2>3. mark[2] \in Words!Types
        BY TypesAre
    <2> QED BY <1>1, <1>4, <1>6, <2>1, <2>2, <2>3, LongestIsNext
<1> QED BY <1>1, <1>5, <1>6

LEMMA ReturnUnexpectedStep ==
    ASSUME IInv, ReturnUnexpected
    PROVE  IInv' /\ Words!Next
<1>1. /\ pc = "blanks" /\ Here \notin Blanks \cup {Hash, NUL} /\ ~StartsToken(Here)
      /\ Return("ERROR", current, current + 1)
    BY DEF ReturnUnexpected
<1>2. Here \notin Letters \cup Digits \cup {Quote} /\ ~Marked(Here)
    BY <1>1 DEF StartsToken, Marked
<1>3. /\ current \in 1..Len(source) /\ current + 1 \in current + 1..End
      /\ Words!Place \in 1..current /\ Words!Starts(current) /\ Here = source[current]
      /\ line = Words!LineAt(current + 1)
      /\ Sourced /\ End \in Nat /\ End = Len(source) + 1 /\ Len(source) \in Nat
    BY <1>1, AtCharacter
<1>4. \A longer \in current + 1..End : ~Words!IsLexeme(Words!Text(current, longer))
    BY <1>2, <1>3, MarkIs DEF Marked
<1>5. current + 1 = IF source[current] = Quote THEN End ELSE current + 1
    BY <1>2, <1>3
<1> QED BY <1>1, <1>3, <1>4, <1>5, ErrorIsNext

\* What the loops of next_token know where they stop.
LEMMA AtStop ==
    ASSUME IInv, Begun
    PROVE  /\ start \in 1..Len(source) /\ current \in start + 1..End
           /\ Words!Place \in 1..start /\ Words!Starts(start)
           /\ line = Words!LineAt(current)
           /\ Sourced /\ End \in Nat /\ End = Len(source) + 1 /\ Len(source) \in Nat
           /\ current \in 1..End
           /\ Here = NUL <=> current = End
           /\ Here # NUL => Here = source[current]
<1>1. Sourced /\ current \in 1..End /\ line = Words!LineAt(current)
    BY DEF IInv, Shape, Counted
<1>2. /\ End \in Nat /\ Len(source) \in Nat /\ (Here = NUL <=> current = End)
      /\ Here # NUL => Here = source[current]
    BY <1>1, HereIs DEF Here
<1> QED BY <1>1, <1>2 DEF Begun, End

LEMMA ReturnIdentifierStep ==
    ASSUME IInv, ReturnIdentifier
    PROVE  IInv' /\ Words!Next
<1> DEFINE type == IdentifierType(SubSeq(source, start, current - 1))
<1>1. /\ pc = "identifier" /\ Here \notin Letters \cup Digits
      /\ Return(type, start, current)
    BY DEF ReturnIdentifier
<1>2. Begun /\ InIdentifier
    BY <1>1 DEF IInv, Inside
<1>3. /\ start \in 1..Len(source) /\ current \in start + 1..End
      /\ Words!Place \in 1..start /\ Words!Starts(start)
      /\ line = Words!LineAt(current)
      /\ Sourced
      /\ Here = NUL <=> current = End
      /\ Here # NUL => Here = source[current]
    BY <1>2, AtStop
<1>4. SubSeq(source, start, current - 1) = Words!Text(start, current)
    BY DEF Words!Text
<1>5. Words!IsWord(Words!Text(start, current))
    BY <1>2, <1>3, WordAt DEF InIdentifier
<1>6. type \in Words!Types /\ Words!WordType(Words!Text(start, current), type)
    <2>1. /\ Words!Text(start, current) \in Seq(Characters \ {NUL})
          /\ Len(Words!Text(start, current)) >= 1
        BY <1>3, TextIs
    <2> QED BY <1>4, <2>1, IdentifierTypeIs
<1> HIDE DEF type
<1>7. Words!Lexeme(Words!Text(start, current), type)
    BY <1>5, <1>6 DEF Words!Lexeme
<1>8. \A longer \in current + 1..End : ~Words!IsLexeme(Words!Text(start, longer))
    BY <1>1, <1>2, <1>3, NoLongerWord DEF InIdentifier
<1> QED BY <1>1, <1>3, <1>6, <1>7, <1>8, LongestIsNext

LEMMA ReturnNumberStep ==
    ASSUME IInv, ReturnNumber
    PROVE  IInv' /\ Words!Next
<1>1. /\ (pc = "number" /\ ~HasFraction) \/ pc = "fraction"
      /\ Here \notin Digits /\ Return("NUMBER", start, current)
    BY DEF ReturnNumber
<1>2. Begun
    BY <1>1 DEF IInv, Inside
<1>3. /\ start \in 1..Len(source) /\ current \in start + 1..End
      /\ Words!Place \in 1..start /\ Words!Starts(start)
      /\ line = Words!LineAt(current)
      /\ Sourced /\ End = Len(source) + 1 /\ Len(source) \in Nat /\ current \in 1..End
      /\ Here = NUL <=> current = End
      /\ Here # NUL => Here = source[current]
    BY <1>2, AtStop
<1>4. /\ Words!IsNumber(Words!Text(start, current)) /\ source[start] \in Digits
      /\ \/ ~(source[current] = Dot /\ current < Len(source) /\ source[current + 1] \in Digits)
         \/ \E dot \in start..current - 1 : source[dot] \notin Digits
    <2>1. CASE pc = "number"
        <3>1. InNumber
            BY <2>1 DEF IInv, Inside
        <3>2. Words!IsNumber(Words!Text(start, current))
            BY <1>3, <3>1, NumberAt DEF InNumber
        <3>3. source[start] \in Digits
            BY <1>3, <3>1 DEF InNumber
        <3>4. ~(source[current] = Dot /\ current < Len(source) /\ source[current + 1] \in Digits)
            <4> SUFFICES ASSUME source[current] = Dot, current < Len(source),
                                source[current + 1] \in Digits
                         PROVE  FALSE
                OBVIOUS
            <4>1. Here = Dot
                BY <1>3
            <4>2. CharacterAt(current + 1) = source[current + 1]
                BY <1>3 DEF CharacterAt
            <4> QED BY <1>1, <2>1, <4>1, <4>2 DEF HasFraction
        <3> QED BY <3>2, <3>3, <3>4
    <2>2. CASE pc = "fraction"
        <3>1. PICK dot \in start + 1..current - 1 :
                  /\ source[dot] = Dot
                  /\ \A i \in (start..current - 1) \ {dot} : source[i] \in Digits
                  /\ dot # current - 1
            BY <1>1, <2>2 DEF IInv, Inside, InFraction
        <3>2. dot \in start + 1..current - 2 /\ start \in (start..current - 1) \ {dot}
              /\ dot \in start..current - 1
            BY <1>3, <3>1
        <3>3. Words!IsNumber(Words!Text(start, current))
            BY <1>3, <3>1, <3>2, FractionAt
        <3>4. source[start] \in Digits /\ source[dot] \notin Digits
            BY <3>1, <3>2, Distinct
        <3> QED BY <3>2, <3>3, <3>4
    <2> QED BY <1>1, <2>1, <2>2
<1>5. Words!Lexeme(Words!Text(start, current), "NUMBER")
    BY <1>4 DEF Words!Lexeme
<1>6. \A longer \in current + 1..End : ~Words!IsLexeme(Words!Text(start, longer))
    BY <1>1, <1>3, <1>4, NoLongerNumber
<1> QED BY <1>1, <1>3, <1>5, <1>6, TypesAre, LongestIsNext

LEMMA ReturnStringStep ==
    ASSUME IInv, ReturnString
    PROVE  IInv' /\ Words!Next
<1>1. pc = "string" /\ Here = Quote /\ Return("STRING", start, current + 1)
    BY DEF ReturnString
<1>2. Begun /\ InString /\ Shape /\ Counted
    BY <1>1 DEF IInv, Inside
<1>3. Here # NUL /\ Here # NewLine
    BY <1>1 DEF Quote, NUL, NewLine
<1>4. /\ start \in 1..Len(source) /\ current \in start + 1..End
      /\ Words!Place \in 1..start /\ Words!Starts(start)
      /\ Sourced /\ End \in Nat /\ End = Len(source) + 1 /\ Len(source) \in Nat
      /\ current # End /\ source[current] = Quote
    BY <1>1, <1>2, <1>3, AtStop
<1>5. line = Words!LineAt(current + 1)
    BY <1>2, <1>3, CountedOver
<1>6. /\ current + 1 \in start + 2..End /\ current + 1 \in start + 1..End
      /\ current + 1 - 1 = current /\ current + 1 - 2 = current - 1
    BY <1>4
<1>7. Words!IsString(Words!Text(start, current + 1))
    BY <1>2, <1>4, <1>6, StringAt DEF InString
<1>8. Words!Lexeme(Words!Text(start, current + 1), "STRING")
    BY <1>7 DEF Words!Lexeme
<1>9. \A longer \in current + 1 + 1..End : ~Words!IsLexeme(Words!Text(start, longer))
    <2> SUFFICES ASSUME NEW longer \in current + 1 + 1..End,
                        Words!IsLexeme(Words!Text(start, longer))
                 PROVE  FALSE
        OBVIOUS
    <2>1. longer \in start + 1..End /\ current \in start + 1..longer - 2
        BY <1>4
    <2>2. Words!IsString(Words!Text(start, longer))
        BY <1>2, <1>4, <2>1, TextIs, StringsOnly DEF InString
    <2> QED BY <1>4, <2>1, <2>2, StringIs
<1> QED BY <1>1, <1>4, <1>5, <1>6, <1>8, <1>9, TypesAre, LongestIsNext

LEMMA ReturnUnterminatedStep ==
    ASSUME IInv, ReturnUnterminated
    PROVE  IInv' /\ Words!Next
<1>1. pc = "string" /\ Here = NUL /\ Return("ERROR", start, current)
    BY DEF ReturnUnterminated
<1>2. Begun /\ InString
    BY <1>1 DEF IInv, Inside
<1>3. /\ start \in 1..Len(source) /\ current \in start + 1..End
      /\ Words!Place \in 1..start /\ Words!Starts(start)
      /\ line = Words!LineAt(current)
      /\ Sourced /\ End \in Nat /\ End = Len(source) + 1 /\ Len(source) \in Nat
      /\ current = End
    BY <1>1, <1>2, AtStop
<1>4. \A longer \in start + 1..End : ~Words!IsLexeme(Words!Text(start, longer))
    <2> SUFFICES ASSUME NEW longer \in start + 1..End,
                        Words!IsLexeme(Words!Text(start, longer))
                 PROVE  FALSE
        OBVIOUS
    <2>1. Words!IsString(Words!Text(start, longer))
        BY <1>2, <1>3, TextIs, StringsOnly DEF InString
    <2>2. longer >= start + 2 /\ source[longer - 1] = Quote
        BY <1>3, <2>1, StringIs
    <2>3. longer - 1 \in start + 1..current - 1
        BY <1>3, <2>2
    <2> QED BY <1>2, <2>2, <2>3 DEF InString
<1>5. current = IF source[start] = Quote THEN End ELSE start + 1
    BY <1>2, <1>3 DEF InString
<1> QED BY <1>1, <1>3, <1>4, <1>5, ErrorIsNext
-----------------------------------------------------------------------------
LEMMA InitInvariant == Init => IInv
<1> SUFFICES ASSUME Init
             PROVE  IInv
    OBVIOUS
<1>1. /\ source \in Sources /\ start = 1 /\ current = 1 /\ line = 1 /\ pc = "blanks"
      /\ tokens = <<>>
    BY DEF Init
<1>2. Sourced /\ End \in Nat /\ 1 \in 1..End
    <2>1. Sourced
        BY <1>1, SourcesAssumption DEF Sourced
    <2> QED BY <2>1 DEF Sourced, End
<1>3. Shape
    BY <1>1, <1>2 DEF Shape, Loops
<1>4. Counted
    BY <1>1, <1>2, LineIs DEF Counted
<1>5. Open
    BY <1>1 DEF Open
<1>6. Inside
    <2>1. Words!Place = 1
        BY <1>1 DEF Words!Place
    <2>2. Covered /\ Closed
        BY <1>1, <2>1 DEF Covered, Closed
    <2> QED BY <1>1, <2>2 DEF Inside
<1> QED BY <1>3, <1>4, <1>5, <1>6 DEF IInv

\* One step keeps the invariant, and is one of Lexemes or leaves its variables
\* alone.
LEMMA NextInvariant == IInv /\ [Next]_vars => IInv' /\ [Words!Next]_(Words!vars)
<1> SUFFICES ASSUME IInv, [Next]_vars
             PROVE  IInv' /\ [Words!Next]_(Words!vars)
    OBVIOUS
<1> USE DEF Words!vars
<1>1. CASE SkipWhitespaces
    <2>1. CASE SkipBlank
        BY <2>1, SkipBlankStep DEF SkipBlank, AdvanceOverLines
    <2>2. CASE EnterComment
        BY <2>2, EnterCommentStep DEF EnterComment, GoTo
    <2>3. CASE SkipComment
        BY <2>3, SkipCommentStep DEF SkipComment, Advance
    <2>4. CASE LeaveComment
        BY <2>4, LeaveCommentStep DEF LeaveComment, GoTo
    <2> QED BY <1>1, <2>1, <2>2, <2>3, <2>4 DEF SkipWhitespaces
<1>2. CASE Dispatch
    <2>1. CASE ReturnEof
        BY <2>1, ReturnEofStep
    <2>2. CASE EnterIdentifier
        BY <2>2, EnterIdentifierStep DEF EnterIdentifier, Enter
    <2>3. CASE EnterNumber
        BY <2>3, EnterNumberStep DEF EnterNumber, Enter
    <2>4. CASE EnterString
        BY <2>4, EnterStringStep DEF EnterString, Enter
    <2>5. CASE ReturnSingle
        BY <2>5, ReturnSingleStep
    <2>6. CASE ReturnDouble
        BY <2>6, ReturnDoubleStep
    <2>7. CASE ReturnUnexpected
        BY <2>7, ReturnUnexpectedStep
    <2> QED BY <1>2, <2>1, <2>2, <2>3, <2>4, <2>5, <2>6, <2>7 DEF Dispatch
<1>3. CASE ScanIdentifier
    <2>1. CASE SkipIdentifier
        BY <2>1, SkipIdentifierStep DEF SkipIdentifier, Advance
    <2>2. CASE ReturnIdentifier
        BY <2>2, ReturnIdentifierStep
    <2> QED BY <1>3, <2>1, <2>2 DEF ScanIdentifier
<1>4. CASE ScanNumber
    <2>1. CASE SkipDigit
        BY <2>1, SkipDigitStep DEF SkipDigit, Advance
    <2>2. CASE EnterFraction
        BY <2>2, EnterFractionStep DEF EnterFraction
    <2>3. CASE ReturnNumber
        BY <2>3, ReturnNumberStep
    <2> QED BY <1>4, <2>1, <2>2, <2>3 DEF ScanNumber
<1>5. CASE ScanString
    <2>1. CASE SkipCharacter
        BY <2>1, SkipCharacterStep DEF SkipCharacter, AdvanceOverLines
    <2>2. CASE ReturnString
        BY <2>2, ReturnStringStep
    <2>3. CASE ReturnUnterminated
        BY <2>3, ReturnUnterminatedStep
    <2> QED BY <1>5, <2>1, <2>2, <2>3 DEF ScanString
<1>6. CASE UNCHANGED vars
    <2>1. Shape'
        BY <1>6 DEF vars, IInv, Shape, Sourced, End
    <2>2. Counted' /\ Open' /\ End' = End /\ Here' = Here
        BY <1>6 DEF vars, IInv, Counted, Words!LineAt, Open, End, Here, CharacterAt
    <2>3. Words!Place' = Words!Place /\ \A place : Words!Skipped(place)' <=> Words!Skipped(place)
        BY <1>6, Same DEF vars
    <2>4. \A place : Words!Starts(place)' <=> Words!Starts(place)
        BY <1>6, Same DEF vars
    <2>5. (Covered' <=> Covered) /\ (Closed' <=> Closed) /\ (Opened' <=> Opened)
          /\ (Begun' <=> Begun)
        BY <1>6, <2>2, <2>3, <2>4 DEF vars, Covered, Closed, Opened, Begun
    <2>6. (InIdentifier' <=> InIdentifier) /\ (InNumber' <=> InNumber)
          /\ (InFraction' <=> InFraction) /\ (InString' <=> InString)
        BY <1>6, <2>2 DEF vars, InIdentifier, InNumber, InFraction, InString
    <2>7. Inside'
        BY <1>6, <2>5, <2>6 DEF vars, IInv, Inside
    <2> QED BY <1>6, <2>1, <2>2, <2>7 DEF vars, IInv
<1> QED BY <1>1, <1>2, <1>3, <1>4, <1>5, <1>6 DEF Next

LEMMA ElementIs == ASSUME NEW S, NEW s \in Seq(S), NEW i \in DOMAIN s PROVE s[i] \in S
OBVIOUS

\* For every source, nothing after its end is looked at.
THEOREM StaysInSource == Spec => []TypeOK
<1>1. IInv => TypeOK
    <2> SUFFICES ASSUME IInv
                 PROVE  TypeOK
        OBVIOUS
    <2>1. Shape /\ Counted
        BY DEF IInv
    <2>2. line \in 1..End
        BY <2>1, LineIs DEF Shape, Counted, Sourced, End
    <2>3. ASSUME NEW i \in DOMAIN tokens
          PROVE  /\ tokens[i].first \in 1..End /\ tokens[i].next \in 1..End
                 /\ tokens[i].line \in 1..End
        <3>1. tokens[i] \in [type : AllTypes, first : 1..End, next : 1..End, line : 1..End]
            BY <2>1, ElementIs DEF Shape
        <3> QED BY <3>1
    <2> QED BY <2>1, <2>2, <2>3 DEF TypeOK, Shape, Sourced
<1> QED BY <1>1, InitInvariant, NextInvariant, PTL DEF Spec

\* For every source, its tokens are its longest lexemes in order, with nothing
\* but blanks and comments between them, each on the line on which it ends.
THEOREM ImplementsLexemesHolds == Spec => ImplementsLexemes
<1>1. Init => Words!Init
    BY SourcesAssumption, Shared DEF Init, Words!Init
<1> QED BY <1>1, InitInvariant, NextInvariant, PTL DEF Spec, ImplementsLexemes, Words!Spec
=============================================================================
