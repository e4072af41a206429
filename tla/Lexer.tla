-------------------------------- MODULE Lexer --------------------------------
(***************************************************************************)
(* The scanner, src/src/scanner.c, character by character: next_token      *)
(* called until it returns the end of the source.  Places in the source    *)
(* count from 1; the one after the last character holds the NUL that ends  *)
(* a C string.                                                             *)
(***************************************************************************)
EXTENDS Characters, Naturals, Sequences

CONSTANTS
    Characters,   \* those sources are made of
    Sources       \* the sources that may be scanned

ASSUME SourcesAssumption == Sources \subseteq Seq(Characters \ {NUL})

VARIABLES
    source,
    start,     \* where the token being scanned starts
    current,   \* where the next character to look at is
    line,
    pc,        \* the loop next_token is in
    tokens     \* what its calls returned

vars == <<source, start, current, line, pc, tokens>>

Loops == {"blanks", "comment", "identifier", "number", "fraction", "string", "ended"}
-----------------------------------------------------------------------------
End == Len(source) + 1
CharacterAt(place) == IF place < End THEN source[place] ELSE NUL
Here == CharacterAt(current)

\* make_token and make_error_token, and the return to the caller, who calls
\* again.  An error keeps its message in the place of its characters; first and
\* next say of it which they were.
Return(type, first, next) ==
    /\ tokens' = Append(tokens, [type |-> type, first |-> first, next |-> next,
                                 line |-> line])
    /\ start' = first
    /\ current' = next
    /\ pc' = IF type = "EOF" THEN "ended" ELSE "blanks"
    /\ UNCHANGED <<source, line>>

Advance == current' = current + 1 /\ UNCHANGED <<source, start, line, pc, tokens>>

\* The line is counted as its end is passed.
AdvanceOverLines ==
    /\ current' = current + 1
    /\ line' = IF Here = NewLine THEN line + 1 ELSE line
    /\ UNCHANGED <<source, start, pc, tokens>>

GoTo(loop) == pc' = loop /\ UNCHANGED <<source, start, current, line, tokens>>
-----------------------------------------------------------------------------
\* skip_whitespaces
SkipBlank == pc = "blanks" /\ Here \in Blanks /\ AdvanceOverLines
EnterComment == pc = "blanks" /\ Here = Hash /\ GoTo("comment")
SkipComment == pc = "comment" /\ Here \notin {NewLine, NUL} /\ Advance
\* As a bug would have it: a comment on the last line has no end.
LeaveCommentAtNewLine == pc = "comment" /\ Here = NewLine /\ GoTo("blanks")
LeaveComment == pc = "comment" /\ Here \in {NewLine, NUL} /\ GoTo("blanks")

\* next_token, past the blanks: the first character says what is scanned.
ReturnEof == pc = "blanks" /\ Here = NUL /\ Return("EOF", current, current)

Enter(loop) ==
    /\ start' = current
    /\ current' = current + 1
    /\ pc' = loop
    /\ UNCHANGED <<source, line, tokens>>

EnterIdentifier == pc = "blanks" /\ Here \in Letters /\ Enter("identifier")
EnterNumber == pc = "blanks" /\ Here \in Digits /\ Enter("number")
EnterString == pc = "blanks" /\ Here = Quote /\ Enter("string")

ReturnSingle ==
    pc = "blanks" /\ Here \in Singles /\ Return(SingleType(Here), current, current + 1)

\* match takes the second character if it is the one that may follow.
ReturnDouble ==
    /\ pc = "blanks"
    /\ \E mark \in DoubleMarks :
           /\ Here = mark[1]
           /\ \/ /\ CharacterAt(current + 1) = mark[3]
                 /\ Return(mark[4], current, current + 2)
              \/ /\ CharacterAt(current + 1) # mark[3]
                 /\ Return(mark[2], current, current + 1)

StartsToken(character) ==
    \/ character \in Letters \cup Digits \cup {Quote} \cup Singles
    \/ \E mark \in DoubleMarks : character = mark[1]

ReturnUnexpected ==
    /\ pc = "blanks"
    /\ Here \notin Blanks \cup {Hash, NUL}
    /\ ~StartsToken(Here)
    /\ Return("ERROR", current, current + 1)
-----------------------------------------------------------------------------
\* As a bug would have it: the word may go on after rest.
CheckKeywordFromItsStart(word, letters, rest, type) ==
    IF Len(word) >= letters + Len(rest)
       /\ SubSeq(word, letters + 1, letters + Len(rest)) = rest
    THEN type ELSE "IDENTIFIER"

\* check_keyword: the word goes on after its first letters exactly as rest does.
CheckKeyword(word, letters, rest, type) ==
    IF Len(word) = letters + Len(rest) /\ SubSeq(word, letters + 1, Len(word)) = rest
    THEN type ELSE "IDENTIFIER"

\* get_identifier_type
IdentifierType(word) ==
    LET second == IF Len(word) > 1 THEN word[2] ELSE NUL
    IN  CASE word[1] = "c" /\ second = "l" -> CheckKeyword(word, 2, <<"a", "s", "s">>, "CLASS")
          [] word[1] = "c" /\ second = "o" -> CheckKeyword(word, 2, <<"n", "s", "t">>, "CONST")
          [] word[1] = "d" -> CheckKeyword(word, 1, <<"e", "f">>, "DEF")
          [] word[1] = "e" -> CheckKeyword(word, 1, <<"l", "s", "e">>, "ELSE")
          [] word[1] = "f" -> CheckKeyword(word, 1, <<"a", "l", "s", "e">>, "FALSE")
          [] word[1] = "i" -> CheckKeyword(word, 1, <<"f">>, "IF")
          [] word[1] = "l" -> CheckKeyword(word, 1, <<"e", "t">>, "LET")
          [] word[1] = "n" -> CheckKeyword(word, 1, <<"u", "l", "l">>, "NULL")
          [] word[1] = "r" -> CheckKeyword(word, 1, <<"e", "t", "u", "r", "n">>, "RETURN")
          [] word[1] = "s" -> CheckKeyword(word, 1, <<"u", "p", "e", "r">>, "SUPER")
          [] word[1] = "t" /\ second = "h" -> CheckKeyword(word, 2, <<"i", "s">>, "THIS")
          [] word[1] = "t" /\ second = "r" -> CheckKeyword(word, 2, <<"u", "e">>, "TRUE")
          [] word[1] = "w" -> CheckKeyword(word, 1, <<"h", "i", "l", "e">>, "WHILE")
          [] OTHER -> "IDENTIFIER"

\* scan_identifier
SkipIdentifier == pc = "identifier" /\ Here \in Letters \cup Digits /\ Advance
ReturnIdentifier ==
    /\ pc = "identifier"
    /\ Here \notin Letters \cup Digits
    /\ Return(IdentifierType(SubSeq(source, start, current - 1)), start, current)

\* As a bug would have it: whatever the dot is followed by.
HasFractionAtDot == Here = Dot

\* scan_number: a dot belongs to it only before another digit.
HasFraction == Here = Dot /\ CharacterAt(current + 1) \in Digits
SkipDigit == pc \in {"number", "fraction"} /\ Here \in Digits /\ Advance
EnterFraction ==
    /\ pc = "number"
    /\ HasFraction
    /\ current' = current + 1
    /\ pc' = "fraction"
    /\ UNCHANGED <<source, start, line, tokens>>
ReturnNumber ==
    /\ \/ pc = "number" /\ ~HasFraction
       \/ pc = "fraction"
    /\ Here \notin Digits
    /\ Return("NUMBER", start, current)

\* As a bug would have it: the end of the source is not looked for.
SkipCharacterToQuote == pc = "string" /\ Here # Quote /\ AdvanceOverLines

\* scan_string
SkipCharacter == pc = "string" /\ Here \notin {Quote, NUL} /\ AdvanceOverLines
ReturnString == pc = "string" /\ Here = Quote /\ Return("STRING", start, current + 1)
ReturnUnterminated == pc = "string" /\ Here = NUL /\ Return("ERROR", start, current)
-----------------------------------------------------------------------------
\* scanner_init
Init ==
    /\ source \in Sources
    /\ start = 1
    /\ current = 1
    /\ line = 1
    /\ pc = "blanks"
    /\ tokens = <<>>

SkipWhitespaces == SkipBlank \/ EnterComment \/ SkipComment \/ LeaveComment
Dispatch ==
    \/ ReturnEof \/ EnterIdentifier \/ EnterNumber \/ EnterString
    \/ ReturnSingle \/ ReturnDouble \/ ReturnUnexpected
ScanIdentifier == SkipIdentifier \/ ReturnIdentifier
ScanNumber == SkipDigit \/ EnterFraction \/ ReturnNumber
ScanString == SkipCharacter \/ ReturnString \/ ReturnUnterminated

Next == SkipWhitespaces \/ Dispatch \/ ScanIdentifier \/ ScanNumber \/ ScanString

\* The scanner runs alone and never waits.
Spec == Init /\ [][Next]_vars /\ WF_vars(Next)
-----------------------------------------------------------------------------
\* Whatever the source, no character after its NUL is looked at: neither loop
\* of scan_string and of the comments misses the end (scanner.c:47, :153).
TypeOK ==
    /\ source \in Seq(Characters \ {NUL})
    /\ start \in 1..End
    /\ current \in 1..End
    /\ line \in 1..End
    /\ pc \in Loops
    /\ \A i \in DOMAIN tokens :
           tokens[i].first \in 1..End /\ tokens[i].next \in 1..End /\ tokens[i].line \in 1..End

\* The tokens are the longest lexemes of the source from left to right, nothing
\* but blanks and comments is lost between them, and each has the line on which
\* it ends.
Words == INSTANCE Lexemes
ImplementsLexemes == Words!Spec

\* Every source comes to its end (the parser asks for tokens until then).
Scanned == <>(pc = "ended")
=============================================================================
