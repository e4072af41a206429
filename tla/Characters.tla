----------------------------- MODULE Characters -----------------------------
(***************************************************************************)
(* The characters src/src/scanner.c tells apart.                           *)
(***************************************************************************)
Digits == {"0", "1", "2", "3", "4", "5", "6", "7", "8", "9"}

Letters ==
    {"a", "b", "c", "d", "e", "f", "g", "h", "i", "j", "k", "l", "m",
     "n", "o", "p", "q", "r", "s", "t", "u", "v", "w", "x", "y", "z",
     "A", "B", "C", "D", "E", "F", "G", "H", "I", "J", "K", "L", "M",
     "N", "O", "P", "Q", "R", "S", "T", "U", "V", "W", "X", "Y", "Z", "_"}

NewLine == "\n"
Blanks == {" ", "\r", "\t", NewLine}
Hash == "#"     \* COMMENT_CHAR
Quote == "\""
Dot == "."

\* What follows the last character of a C string; no source has it.
NUL == "NUL"

\* The characters that are a token each.
Singles == {"(", ")", "{", "}", "[", "]", ";", ",", Dot, "-", "+", "/", "*", "%"}

SingleType(c) ==
    CASE c = "(" -> "LEFT_PAREN" [] c = ")" -> "RIGHT_PAREN" [] c = "{" -> "LEFT_BRACE"
      [] c = "}" -> "RIGHT_BRACE" [] c = "[" -> "LEFT_BRACKET" [] c = "]" -> "RIGHT_BRACKET"
      [] c = ";" -> "SEMICOLON" [] c = "," -> "COMMA" [] c = Dot -> "DOT" [] c = "-" -> "MINUS"
      [] c = "+" -> "PLUS" [] c = "/" -> "SLASH" [] c = "*" -> "STAR" [] c = "%" -> "PERCENT"

\* Those that are one alone, and with another that may follow: the character,
\* what it is alone, the other, what the two are.
DoubleMarks ==
    { <<"&", "AMPER", "&", "AMPER_AMPER">>, <<"|", "PIPE", "|", "PIPE_PIPE">>,
      <<"!", "BANG", "=", "BANG_EQUAL">>, <<"=", "EQUAL", "=", "EQUAL_EQUAL">>,
      <<"<", "LESS", "=", "LESS_EQUAL">>, <<">", "GREATER", "=", "GREATER_EQUAL">> }
=============================================================================
