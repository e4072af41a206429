----------------------------- MODULE Compilation -----------------------------
(***************************************************************************)
(* What parser_compile makes of a source that grows by some tokens at a    *)
(* time: every source there is, one after the other.  The functions are    *)
(* kept with the heights of the stack.                                     *)
(***************************************************************************)
EXTENDS Loading, Grammar, Debug

VARIABLES
    tokens,      \* the source
    last_line,   \* the line on which it ends, blanks and comments included
    compiled     \* what it is compiled to

Measured(translation) ==
    [translation EXCEPT !.functions = IF translation.ok THEN Annotated(@) ELSE @]

source_vars == <<tokens, last_line, compiled>>

Init == tokens = <<>> /\ last_line = 1 /\ compiled = Measured(Compile(<<>>, 1, 0))

\* The source goes on with a phrase, and ends on a line.
Extend(phrase, line) ==
    /\ tokens' = tokens \o phrase
    /\ last_line' = line
    /\ \E translation \in {Compile(tokens', line, 0)} : compiled' = Measured(translation)

Next == \E phrase \in Seq(SourceToken), line \in Nat : Extend(phrase, line)

Spec == Init /\ [][Next]_source_vars
-----------------------------------------------------------------------------
\* The functions of the source; the last of them is the script itself.
Program == compiled.functions
Script == Program[Len(Program)]

\* The source is read to its end with the calls it is given: what is reported is
\* reported at tokens.
TypeOK ==
    /\ tokens \in Seq(SourceToken) /\ last_line \in Nat
    /\ compiled.ok \in BOOLEAN
    /\ compiled.reports \in Seq(TokenTypes)

\* Whatever way it is reached, an instruction of compiled code finds the stack
\* of its call at the same height, high enough for what it takes, and its
\* operand names something that is there: declarations, scopes, jumps patched
\* later and POPs written on both sides of a branch all agree.
WellFormedCode == compiled.ok /\ FunctionNamesFit(tokens, Script) => WellFormed(Program)

\* What is compiled is a program of the language.
RefusesTheRest == compiled.ok => IsProgram(tokens)

\* An error is reported once, and not again before the parser has found what
\* looks like the beginning of a statement.  What cannot be read, even there, is
\* reported again, and each block that is still open at the end of the source:
\* that of a function is read even when its brace is missing.
NoCascade ==
    LET resume == {"SEMICOLON", "LEFT_BRACE", "ERROR"} \cup StatementStarts
        Tokens(types) == Cardinality({k \in DOMAIN tokens : tokens[k].type \in types})
    IN  Len(compiled.reports) <= 1 + Tokens(resume) + Tokens({"DEF"})

\* The listing of debug builds decodes the bytes on its own and stays in step
\* with the machine: every instruction that can run is listed where it begins,
\* with the constant it uses and the place it jumps to, and nothing outside the
\* chunk is read.
ListingInStep ==
    compiled.ok =>
        \A f \in DOMAIN Program :
            LET fn == Program[f]
                listed == Listed(fn)
            IN  /\ DOMAIN fn.height \subseteq listed
                /\ \A p \in listed :
                      /\ ListedNext(fn, p) <= Len(fn.code)
                      /\ OpAt(fn, p) \in GlobalOps \cup ConstantOps =>
                            /\ ListedConstant(fn, p) \in DOMAIN fn.constants
                            /\ fn.constants[ListedConstant(fn, p)] = ConstantAt(fn, p)
                      /\ OpAt(fn, p) \in ListedJumps => ListedTarget(fn, p) \in Successors(fn, p)
=============================================================================
