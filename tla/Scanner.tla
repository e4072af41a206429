------------------------------ MODULE Scanner ------------------------------
(***************************************************************************)
(* The tokens of a source, src/src/scanner.c.  A source is taken as the    *)
(* sequence of its lexemes, without blanks and comments: Lexer models how  *)
(* they are read off its characters.                                       *)
(***************************************************************************)
EXTENDS Compiler, Tokens



CONSTANT Identifiers   \* names sources use, besides those of the native functions

\* A string is known by its place in Names; vm_init makes the natives first.
Names == Builtins \o Identifiers

\* The numbers sources use.
Numerals == [n \in {"0", "1", "2", "3"} |->
                CASE n = "0" -> 0 [] n = "1" -> 1 [] n = "2" -> 2 [] n = "3" -> 3]

PlaceOf(name) == Min({i \in DOMAIN Names : Names[i] = name})

\* Anything else is a character that starts no token.
TokenOf(lexeme) ==
    IF lexeme \in DOMAIN Punctuation THEN Token(Punctuation[lexeme], 0)
    ELSE IF lexeme \in DOMAIN Keywords THEN Token(Keywords[lexeme], 0)
    ELSE IF lexeme \in DOMAIN Numerals THEN Token("NUMBER", Numerals[lexeme])
    ELSE IF \E i \in DOMAIN Names : Names[i] = lexeme THEN Token("IDENTIFIER", PlaceOf(lexeme))
    ELSE Token("ERROR", 0)

Scan(lexemes) == [i \in DOMAIN lexemes |-> TokenOf(lexemes[i])]

\* The literal of a string that is also a name.
Quoted(name) == << Token("STRING", PlaceOf(name)) >>
=============================================================================
