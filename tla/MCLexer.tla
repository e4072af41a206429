------------------------------- MODULE MCLexer -------------------------------
(***************************************************************************)
(* Scans every source made of a few fragments of one of three sets: the    *)
(* characters that mean something in numbers, strings, comments and lines, *)
(* and those that mean nothing; the beginnings and the ends of keywords;   *)
(* the marks.                                                              *)
(***************************************************************************)
EXTENDS Lexer, Tokens

LOCAL INSTANCE SequencesExt

CONSTANTS MaxCharacters, MaxParts   \* fragments in a source of the first two sets

MCCharacters ==
    Digits \cup Letters \cup Blanks \cup {Hash, Quote, "@"}
    \cup Singles \cup {mark[1] : mark \in DoubleMarks}

Fragments(set) ==
    CASE set = "characters" -> {<<c>> : c \in {"a", "1", Dot, Quote, Hash, NewLine, "=", "@"}}
      [] set = "parts" ->
            { <<"c">>, <<"c", "l">>, <<"c", "o">>, <<"t">>, <<"t", "h">>, <<"t", "r">>, <<"d">>,
              <<"e">>, <<"f">>, <<"i">>, <<"f", "_">>, <<"l">>, <<"n">>, <<"r">>, <<"s">>, <<"w">>,
              <<"0">>, <<" ">>, <<"a", "s", "s">>, <<"n", "s", "t">>, <<"e", "f">>, <<"l", "s", "e">>,
              <<"a", "l", "s", "e">>, <<"e", "t">>, <<"u", "l", "l">>,
              <<"e", "t", "u", "r", "n">>, <<"u", "p", "e", "r">>, <<"i", "s">>, <<"u", "e">>,
              <<"h", "i", "l", "e">> }
      [] set = "marks" -> {<<c>> : c \in Singles} \cup {<<mark[1]>> : mark \in DoubleMarks}

Made(set, max) == {FlattenSeq(parts) : parts \in BoundedSeq(Fragments(set), max)}

MCSources == Made("characters", MaxCharacters) \cup Made("parts", MaxParts) \cup Made("marks", 2)
-----------------------------------------------------------------------------
Spelling(token) ==
    FoldLeft(LAMBDA text, character : text \o character, "",
             SubSeq(source, token.first, token.next - 1))

FixedTypes == {Punctuation[s] : s \in DOMAIN Punctuation} \cup {Keywords[s] : s \in DOMAIN Keywords}

\* The lexemes that Scanner gives the compiler's sources are what the scanner
\* makes of characters: a token is a keyword or a mark if and only if it is
\* spelled as that one.
AgreesWithScanner ==
    \A i \in DOMAIN tokens :
        LET token == tokens[i]
            spelling == Spelling(token)
        IN  /\ spelling \in DOMAIN Punctuation => token.type = Punctuation[spelling]
            /\ spelling \in DOMAIN Keywords => token.type = Keywords[spelling]
            /\ token.type \in FixedTypes =>
                   spelling \in DOMAIN Punctuation \cup DOMAIN Keywords
=============================================================================
