------------------------------- MODULE Lexemes -------------------------------
(***************************************************************************)
(* What the scanner promises: the tokens of a source are, from left to     *)
(* right, the longest lexemes at their places, with nothing but blanks and *)
(* comments between them, each with the line on which it ends; what starts *)
(* no lexeme is an error of one character, or of the rest of the source if *)
(* it is a string that has no end.  Nothing here says how they are found.  *)
(***************************************************************************)
EXTENDS Characters, Naturals, Sequences, FiniteSets

CONSTANT Characters   \* those a source may be made of

VARIABLES
    source,   \* a sequence of characters
    tokens    \* its tokens so far: what each is, where it starts, where the
              \* next one can start, and the line it is said to be on

vars == <<source, tokens>>

Keywords ==
    { << <<"c", "l", "a", "s", "s">>, "CLASS">>, << <<"c", "o", "n", "s", "t">>, "CONST">>,
      << <<"d", "e", "f">>, "DEF">>, << <<"e", "l", "s", "e">>, "ELSE">>,
      << <<"f", "a", "l", "s", "e">>, "FALSE">>, << <<"i", "f">>, "IF">>,
      << <<"l", "e", "t">>, "LET">>, << <<"n", "u", "l", "l">>, "NULL">>,
      << <<"r", "e", "t", "u", "r", "n">>, "RETURN">>,
      << <<"s", "u", "p", "e", "r">>, "SUPER">>, << <<"t", "h", "i", "s">>, "THIS">>,
      << <<"t", "r", "u", "e">>, "TRUE">>, << <<"w", "h", "i", "l", "e">>, "WHILE">> }

IsWord(text) ==
    /\ text[1] \in Letters
    /\ \A i \in 2..Len(text) : text[i] \in Letters \cup Digits

WordType(text, type) ==
    \/ <<text, type>> \in Keywords
    \/ type = "IDENTIFIER" /\ \A keyword \in Keywords : keyword[1] # text

IsNumber(text) ==
    \/ \A i \in 1..Len(text) : text[i] \in Digits
    \/ \E dot \in 2..Len(text) - 1 :
           /\ text[dot] = Dot
           /\ \A i \in (1..Len(text)) \ {dot} : text[i] \in Digits

IsString(text) ==
    /\ Len(text) >= 2
    /\ text[1] = Quote /\ text[Len(text)] = Quote
    /\ \A i \in 2..Len(text) - 1 : text[i] # Quote

MarkType(text, type) ==
    \/ Len(text) = 1 /\ text[1] \in Singles /\ type = SingleType(text[1])
    \/ Len(text) = 1 /\ \E mark \in DoubleMarks : mark[1] = text[1] /\ mark[2] = type
    \/ Len(text) = 2 /\ <<text[1], text[2], type>> \in
                            {<<mark[1], mark[3], mark[4]>> : mark \in DoubleMarks}

\* A text that is not empty is a lexeme, of a type.
Lexeme(text, type) ==
    \/ IsWord(text) /\ WordType(text, type)
    \/ type = "NUMBER" /\ IsNumber(text)
    \/ type = "STRING" /\ IsString(text)
    \/ MarkType(text, type)

Types ==
    {"IDENTIFIER", "NUMBER", "STRING"}
    \cup {keyword[2] : keyword \in Keywords} \cup {SingleType(c) : c \in Singles}
    \cup {mark[2] : mark \in DoubleMarks} \cup {mark[4] : mark \in DoubleMarks}

IsLexeme(text) == \E type \in Types : Lexeme(text, type)
-----------------------------------------------------------------------------
End == Len(source) + 1
Text(first, next) == SubSeq(source, first, next - 1)
LineAt(place) == 1 + Cardinality({i \in 1..place - 1 : source[i] = NewLine})

\* Where the next token can start.
Place == IF tokens = <<>> THEN 1 ELSE tokens[Len(tokens)].next

InComment(from, place) ==
    \E i \in from..place : source[i] = Hash /\ \A j \in i..place : source[j] # NewLine

\* A token starts at the first place that is neither blank nor in a comment.
Skipped(place) == source[place] \in Blanks \/ InComment(Place, place)

Starts(first) ==
    /\ \A place \in Place..first - 1 : Skipped(place)
    /\ first = End \/ ~Skipped(first)

Add(type, first, next) ==
    /\ tokens' = Append(tokens, [type |-> type, first |-> first, next |-> next,
                                 line |-> LineAt(next)])
    /\ UNCHANGED source
-----------------------------------------------------------------------------
Init == source \in Seq(Characters \ {NUL}) /\ tokens = <<>>

Longest(type, first, next) ==
    /\ Lexeme(Text(first, next), type)
    /\ \A longer \in next + 1..End : ~IsLexeme(Text(first, longer))
    /\ Add(type, first, next)

Error(first, next) ==
    /\ \A longer \in first + 1..End : ~IsLexeme(Text(first, longer))
    /\ next = IF source[first] = Quote THEN End ELSE first + 1
    /\ Add("ERROR", first, next)

Eof == Starts(End) /\ Add("EOF", End, End)

Next ==
    /\ \A i \in DOMAIN tokens : tokens[i].type # "EOF"
    /\ \/ Eof
       \/ \E first \in Place..Len(source) :
              /\ Starts(first)
              /\ \E next \in first + 1..End :
                     \/ Error(first, next)
                     \/ \E type \in Types : Longest(type, first, next)

Spec == Init /\ [][Next]_vars
=============================================================================
