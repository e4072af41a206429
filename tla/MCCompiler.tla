------------------------------ MODULE MCCompiler ------------------------------
(***************************************************************************)
(* Compiles every source made of a few phrases of a vocabulary, a phrase   *)
(* being one token or some that go together, on a line of its own.  A      *)
(* source is made longer only while the first error, if there is one, is   *)
(* that it ends too soon, and then by MaxBroken phrases more, for what the *)
(* parser does after an error.                                             *)
(***************************************************************************)
EXTENDS Compilation, ExpressionCode, Scanner

CONSTANT Vocabularies   \* the names of those that are used

MCIdentifiers == << "a", "b", "c", "d", "e" >>
MCStrings == DOMAIN Names

One(lexemes) == {Scan(<<lexeme>>) : lexeme \in lexemes}

\* The operators by the levels of precedence, and what can be assigned to.
ExpressionPhrases ==
    One({"a", "b", "+", "-", "*", "==", "<", "&&", "||", "=", "(", ")", "[", "]", ";"})

\* What errors are made of, and what the parser looks for after one.
RecoveryPhrases ==
    One({"a", ";", "+", "(", "{", "}"})
    \cup { Scan(<<"let", "a">>), Scan(<<"def", "b", "(", ")">>),
           Scan(<<"if", "(", "a", ")">>), Scan(<<"a", "@">>) }

\* Statements in blocks, functions, branches and loops, with names that are
\* local, global, hidden and constant.
StatementPhrases ==
    One({"{", "}", "else"})
    \cup { Scan(<<"if", "(", "a", ")">>), Scan(<<"while", "(", "a", ")">>),
           Scan(<<"def", "b", "(", "a", ")", "{">>),
           Scan(<<"let", "a", "=", "b", ";">>), Scan(<<"const", "b", ";">>),
           Scan(<<"a", "=", "b", ";">>), Scan(<<"return", "a", ";">>),
           Scan(<<"b", "&&", "a", "(", "0", ")", ";">>) }

\* For a byte of eight values: more constants, items, arguments and locals than
\* a byte can count, and more code to jump over than two can.
LimitPhrases ==
    One({"{", "}"})
    \cup { Scan(<<"a", ";", "b", ";", "c", ";", "d", ";", "e", ";", "assert", ";", "clock", ";",
                   "input", ";", "int", ";", "ls", ";">>),
           Scan(<<"let", "input", "=", "[">>), Scan(<<"]", ";">>), Scan(<<"a", "(">>),
           Scan(<<")", ";">>), Scan(<<"a", ",", "b", ",", "c">>),
           Scan(<<"a", ",", "b", ",", "c", ",", "d", ",">>),
           Scan(<<"while", "(", "a", ")", "{">>), Scan(<<"if", "(", "str", ")", "{">>),
           Scan(<<"}", "else", "{">>),
           Scan(<<"let", "a", ";", "let", "b", ";", "let", "c", ";">>),
           Scan(<<"let", "d", ";", "let", "e", ";", "let", "clock", ";">>),
           Scan(<<"def", "input", "(", ")", "{", "}">>) }

\* Functions declared after other constants.
FunctionPhrases ==
    {Scan(<<name, ";">>) : name \in {"a", "b", "c", "d"}}
    \cup { Scan(<<"def", "e", "(">>), Scan(<<")", "{", "}">>) }

\* One function and its parameters.
ParameterPhrases ==
    One({"a", "b", "c", "d", ","}) \cup { Scan(<<"def", "e", "(">>), Scan(<<")", "{", "}">>) }

Phrases(vocabulary) ==
    CASE vocabulary = "expressions" -> ExpressionPhrases
      [] vocabulary = "statements" -> StatementPhrases
      [] vocabulary = "recovery" -> RecoveryPhrases
      [] vocabulary = "limits" -> LimitPhrases
      [] vocabulary = "functions" -> FunctionPhrases
      [] vocabulary = "parameters" -> ParameterPhrases

MaxPhrases(vocabulary) ==
    IF vocabulary = "parameters" THEN 7 ELSE IF vocabulary = "limits" THEN 5 ELSE 6
MaxBroken(vocabulary) ==
    IF vocabulary = "recovery" THEN 6 ELSE IF vocabulary = "parameters" THEN 1 ELSE 0
-----------------------------------------------------------------------------
VARIABLES
    vocabulary,
    phrases,     \* how many phrases the source has
    broken       \* how many of them came after the first error

vars == <<vocabulary, tokens, last_line, compiled, phrases, broken>>

\* A file ends with a line end: its end is on a line of its own.  What is typed at
\* the prompt has none, as the sources of the first vocabulary.
EndsOn(n) == IF vocabulary = "expressions" THEN n ELSE n + 1

Viable == \A i \in DOMAIN compiled.reports : i = 1 => compiled.reports[i] = "EOF"

MCInit == Init /\ vocabulary \in Vocabularies /\ phrases = 0 /\ broken = 0

AddPhrase(phrase) ==
    /\ phrases < MaxPhrases(vocabulary)
    /\ ~Viable => broken < MaxBroken(vocabulary)
    /\ phrases' = phrases + 1
    /\ Extend(OnLine(phrase, phrases'), EndsOn(phrases'))
    /\ broken' = IF Viable THEN 0 ELSE broken + 1
    /\ UNCHANGED vocabulary

MCNext == \E phrase \in Phrases(vocabulary) : AddPhrase(phrase)

MCSpec == MCInit /\ [][MCNext]_vars
-----------------------------------------------------------------------------
\* A sequence of expressions is compiled when, and only when, it is a program.
AcceptsPrograms == vocabulary = "expressions" => (compiled.ok <=> IsProgram(tokens))

\* An expression is compiled to the code its operators ask for, by their
\* precedence and associativity: parse_precedence never sees the tree.
KeepsPrecedence ==
    LET n == Len(tokens)
    IN  vocabulary = "expressions" /\ n > 1 /\ tokens[n].type = "SEMICOLON"
           /\ IsPhrase(tokens, "expression", 1, n - 1) =>
            Program[1].code = CodeOf(tokens, 1, n - 1) \o << Code("POP"), Code("RETURN") >>

\* An error at run time is reported at the line of the last byte the machine has
\* read, found by adding up run lengths.  That line is the one of the whole
\* instruction, and on it stands what fails: the name that is read, the closing
\* parenthesis of a call, the closing bracket of an array or an index.  Only the
\* RETURN that ends the script, which cannot fail, has no token: it is on the line
\* where the source ends, after the blanks and comments.  The listing of debug
\* builds passes over no line, though it leaves out those that repeat.
LinesPointAtSource ==
    compiled.ok =>
        \A f \in DOMAIN Program :
            LET fn == Program[f]
                Shown == {LineOf(fn.lines, p) : p \in {q \in Listed(fn) : ShowsLine(fn, q)}}
            IN  /\ Shown = {fn.lines[r].line : r \in DOMAIN fn.lines}
                /\ \A p \in DOMAIN fn.height :
                      LET line == LineOf(fn.lines, NextOffset(fn, p) - 1)
                          there == {k \in DOMAIN tokens : tokens[k].line = line}
                          Closed(type) == \E k \in there : tokens[k].type = type
                          last == f = Len(Program) /\ p = Len(fn.code) - 1
                      IN  /\ line = LineOf(fn.lines, p)
                          /\ IF last THEN line = last_line ELSE there # {}
                          /\ OpAt(fn, p) \in GetGlobalOps =>
                                  \E k \in there : ConstantAt(fn, p) = String(tokens[k].text)
                          /\ OpAt(fn, p) = "CALL" => Closed("RIGHT_PAREN")
                          /\ OpAt(fn, p) \in {"ARRAY", "SUBSCRIPT_GET"} => Closed("RIGHT_BRACKET")

\* The comment of parser.c on global variables says of the instructions on them
\* that their operand "is the index of the Value in the chunk.constants array,
\* representing the global's name as a string": what is declared has a name that
\* follows let, const or def.  function_declaration keeps the index on one byte.
DeclaresItsNames ==
    compiled.ok =>
        \A f \in DOMAIN Program : \A p \in DOMAIN Program[f].height :
            OpAt(Program[f], p) \in DeclGlobalOps =>
                \E k \in DOMAIN tokens \ {1} : /\ tokens[k - 1].type \in {"LET", "CONST", "DEF"}
                                               /\ ConstantAt(Program[f], p) = String(tokens[k].text)

\* The message of parse_function says "Function cannot have more than 255
\* parameters.": a function of so many parameters, all different, compiles.
\* The function itself is one of the 255 locals there may be.
TakesParameters ==
    LET parameters == {k \in 4 .. Len(tokens) : tokens[k].type = "IDENTIFIER"}
    IN  /\ IsProgram(tokens) /\ tokens # <<>> /\ tokens[1].type = "DEF"
        /\ IsPhrase(tokens, "declaration", 1, Len(tokens))
        /\ Cardinality({tokens[k].text : k \in parameters}) = Cardinality(parameters)
        /\ Cardinality(parameters) <= UINT8_MAX
        => compiled.ok
=============================================================================
