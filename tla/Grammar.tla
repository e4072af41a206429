------------------------------- MODULE Grammar -------------------------------
(***************************************************************************)
(* The language, said without a parser: which sequences of tokens are      *)
(* programs.  Compiler is checked against it.  A phrase is the part        *)
(* i .. j of the sequence ts of tokens.                                    *)
(*                                                                         *)
(* The grammar is context-free: it knows nothing of scopes, of constants,  *)
(* of the limits of bytecode, nor that a script may not return.            *)
(*                                                                         *)
(* A phrase is known by the shorter ones it is made of: known has          *)
(* <<kind, i, j>> when the part i .. j is a phrase of that kind, if it is  *)
(* shorter than the one in question.                                       *)
(***************************************************************************)
EXTENDS Compiler

Infix == DOMAIN BinaryCode \cup {"AMPER_AMPER", "PIPE_PIPE"}
Atoms == {"IDENTIFIER", "STRING", "NUMBER", "FALSE", "NULL", "TRUE"}

\* What stands between a pair of brackets.
Encloses(ts, i, j, left, right) == i < j /\ ts[i].type = left /\ ts[j].type = right

IsSubscript(known, ts, i, j) ==
    \E k \in i + 1 .. j - 1 : /\ Encloses(ts, k, j, "LEFT_BRACKET", "RIGHT_BRACKET")
                              /\ <<"postfix", i, k - 1>> \in known
                              /\ <<"expression", k + 1, j - 1>> \in known

IsCall(known, ts, i, j) ==
    \E k \in i + 1 .. j - 1 : /\ Encloses(ts, k, j, "LEFT_PAREN", "RIGHT_PAREN")
                              /\ <<"postfix", i, k - 1>> \in known
                              /\ <<"items", k + 1, j - 1>> \in known

IsPostfix(known, ts, i, j) ==
    \/ i = j /\ ts[i].type \in Atoms
    \/ /\ Encloses(ts, i, j, "LEFT_PAREN", "RIGHT_PAREN")
       /\ <<"expression", i + 1, j - 1>> \in known
    \/ /\ Encloses(ts, i, j, "LEFT_BRACKET", "RIGHT_BRACKET")
       /\ <<"items", i + 1, j - 1>> \in known
    \/ IsSubscript(known, ts, i, j)
    \/ IsCall(known, ts, i, j)

IsOperand(known, ts, i, j) ==
    \/ i < j /\ ts[i].type \in DOMAIN UnaryCode /\ <<"operand", i + 1, j>> \in known
    \/ IsPostfix(known, ts, i, j)

IsOperation(known, ts, i, j) ==
    \/ IsOperand(known, ts, i, j)
    \/ \E k \in i + 1 .. j - 1 : /\ ts[k].type \in Infix
                                 /\ <<"operation", i, k - 1>> \in known
                                 /\ <<"operation", k + 1, j>> \in known

IsTarget(known, ts, i, j) ==
    (i = j /\ ts[i].type = "IDENTIFIER") \/ IsSubscript(known, ts, i, j)

IsExpression(known, ts, i, j) ==
    \/ IsOperation(known, ts, i, j)
    \/ \E k \in i + 1 .. j - 1 : /\ ts[k].type = "EQUAL"
                                 /\ IsTarget(known, ts, i, k - 1)
                                 /\ <<"expression", k + 1, j>> \in known

\* At least one, or none.
IsSome(known, ts, i, j) ==
    \/ IsExpression(known, ts, i, j)
    \/ \E k \in i + 1 .. j - 1 : /\ ts[k].type = "COMMA"
                                 /\ <<"expression", i, k - 1>> \in known
                                 /\ <<"some", k + 1, j>> \in known
IsItems(known, ts, i, j) == i > j \/ IsSome(known, ts, i, j)
-----------------------------------------------------------------------------
IsBlock(known, ts, i, j) ==
    /\ Encloses(ts, i, j, "LEFT_BRACE", "RIGHT_BRACE")
    /\ <<"declarations", i + 1, j - 1>> \in known

IsParameters(known, ts, i, j) ==
    /\ i <= j /\ ts[i].type = "IDENTIFIER"
    /\ i = j \/ (ts[i + 1].type = "COMMA" /\ <<"parameters", i + 2, j>> \in known)

IsVariable(known, ts, i, j) ==
    /\ i + 2 <= j /\ ts[i + 1].type = "IDENTIFIER" /\ ts[j].type = "SEMICOLON"
    /\ i + 2 = j \/ (ts[i + 2].type = "EQUAL" /\ <<"expression", i + 3, j - 1>> \in known)

IsFunction(known, ts, i, j) ==
    /\ i + 4 <= j /\ ts[i + 1].type = "IDENTIFIER" /\ ts[i + 2].type = "LEFT_PAREN"
    /\ \E k \in i + 3 .. j - 1 : /\ ts[k].type = "RIGHT_PAREN"
                                 /\ k = i + 3 \/ <<"parameters", i + 3, k - 1>> \in known
                                 /\ IsBlock(known, ts, k + 1, j)

\* An else belongs to the last if that has none, so it follows any statement.
IsConditional(known, ts, i, j) ==
    /\ i + 3 <= j /\ ts[i + 1].type = "LEFT_PAREN"
    /\ \E k \in i + 3 .. j - 1 :
          /\ ts[k].type = "RIGHT_PAREN" /\ <<"expression", i + 2, k - 1>> \in known
          /\ \/ <<"statement", k + 1, j>> \in known
             \/ /\ ts[i].type = "IF"
                /\ \E e \in k + 2 .. j - 1 : /\ ts[e].type = "ELSE"
                                             /\ <<"statement", k + 1, e - 1>> \in known
                                             /\ <<"statement", e + 1, j>> \in known

IsReturn(known, ts, i, j) ==
    /\ i < j /\ ts[j].type = "SEMICOLON"
    /\ i + 1 = j \/ <<"expression", i + 1, j - 1>> \in known

IsStatement(known, ts, i, j) ==
    /\ i <= j
    /\ \/ IsBlock(known, ts, i, j)
       \/ ts[i].type \in {"IF", "WHILE"} /\ IsConditional(known, ts, i, j)
       \/ ts[i].type = "RETURN" /\ IsReturn(known, ts, i, j)
       \/ ts[j].type = "SEMICOLON" /\ <<"expression", i, j - 1>> \in known

IsDeclaration(known, ts, i, j) ==
    \/ IsStatement(known, ts, i, j)
    \/ i <= j /\ ts[i].type \in {"LET", "CONST"} /\ IsVariable(known, ts, i, j)
    \/ i <= j /\ ts[i].type = "DEF" /\ IsFunction(known, ts, i, j)

IsDeclarations(known, ts, i, j) ==
    \/ i > j
    \/ \E k \in i .. j : IsDeclaration(known, ts, i, k) /\ <<"declarations", k + 1, j>> \in known
-----------------------------------------------------------------------------
Kinds == {"postfix", "operand", "operation", "expression", "some", "items", "parameters",
          "statement", "declaration", "declarations"}

IsOfKind(known, ts, kind, i, j) ==
    CASE kind = "postfix" -> IsPostfix(known, ts, i, j)
      [] kind = "operand" -> IsOperand(known, ts, i, j)
      [] kind = "operation" -> IsOperation(known, ts, i, j)
      [] kind = "expression" -> IsExpression(known, ts, i, j)
      [] kind = "some" -> IsSome(known, ts, i, j)
      [] kind = "items" -> IsItems(known, ts, i, j)
      [] kind = "parameters" -> IsParameters(known, ts, i, j)
      [] kind = "statement" -> IsStatement(known, ts, i, j)
      [] kind = "declaration" -> IsDeclaration(known, ts, i, j)
      [] kind = "declarations" -> IsDeclarations(known, ts, i, j)

\* The phrases that can be told when the shorter ones are known.
Longer(known, ts) ==
    {part \in Kinds \X Nat \X Nat : IsOfKind(known, ts, part[1], part[2], part[3])}

\* The phrases of fewer than n tokens.
PhrasesOf(ts) ==
    LET below[n \in Nat] == IF n = 0 THEN {} ELSE Longer(below[n - 1], ts)
    IN  below

IsPhrase(ts, kind, i, j) == <<kind, i, j>> \in PhrasesOf(ts)[Len(ts) + 1]
IsProgram(ts) == IsPhrase(ts, "declarations", 1, Len(ts))
=============================================================================
