--------------------------- MODULE ExpressionCode ---------------------------
(***************************************************************************)
(* The code an expression stands for, found without a parser: by the       *)
(* outermost of its operators.  Compiler is checked against it.            *)
(***************************************************************************)
EXTENDS Grammar

\* The code of an expression of global variables, with at most one item in an
\* array or a call.  It is found by the outermost operator:
\* an operator that ends an operand is infix, any other is a prefix.
Depth(ts, i, k) ==
    Cardinality({n \in i .. k - 1 : ts[n].type \in {"LEFT_PAREN", "LEFT_BRACKET"}})
    - Cardinality({n \in i .. k : ts[n].type \in {"RIGHT_PAREN", "RIGHT_BRACKET"}})
EndsOperand(token) == token.type \in Atoms \cup {"RIGHT_PAREN", "RIGHT_BRACKET"}
Outermost(ts, i, j) ==
    LET infix == {k \in i + 1 .. j - 1 : /\ ts[k].type \in Infix \cup {"EQUAL"}
                                          /\ Depth(ts, i, k) = 0 /\ EndsOperand(ts[k - 1])}
    IN  {k \in infix : \A n \in infix : Precedence(ts[k].type) <= Precedence(ts[n].type)}

\* Where in the constants a name is: in the order names are first used.
IndexOf(ts, k) ==
    LET names == {n \in 1 .. k : ts[n].type = "IDENTIFIER"}
        first == Min({n \in names : ts[n].text = ts[k].text})
    IN  Cardinality({ts[n].text : n \in {m \in names : m < first}})

RECURSIVE CodeOf(_, _, _)
\* The operands, a jump over the second when the first decides.
ShortCircuit(ts, i, k, j, op) ==
    LET right == << Code("POP") >> \o CodeOf(ts, k + 1, j)
    IN  CodeOf(ts, i, k - 1) \o << Code(op) >> \o TwoBytes(Len(right)) \o right

\* The bracket that the one at j closes.
Opening(ts, i, j) == Max({k \in i .. j - 1 : Depth(ts, k, j) = 0})
\* The one item of an array or a call, if there is one.
ItemCode(ts, i, j, op) ==
    IF i > j THEN << Code(op), 0 >> ELSE CodeOf(ts, i, j) \o << Code(op), 1 >>

\* The collection and the index of the subscript i .. j.
SubscriptCode(ts, i, j) ==
    CodeOf(ts, i, Opening(ts, i, j) - 1) \o CodeOf(ts, Opening(ts, i, j) + 1, j - 1)

AssignmentCode(ts, i, k, j) ==
    LET value == CodeOf(ts, k + 1, j)
    IN  IF i = k - 1 THEN value \o << Code("SET_GLOBAL"), IndexOf(ts, i) >>
        ELSE SubscriptCode(ts, i, k - 1) \o value \o << Code("SUBSCRIPT_SET") >>

InfixCode(ts, i, j) ==
    LET ops == Outermost(ts, i, j)
        first == Min(ops)
        last == Max(ops)
    IN  CASE ts[first].type = "EQUAL" -> AssignmentCode(ts, i, first, j)
          [] ts[first].type = "AMPER_AMPER" -> ShortCircuit(ts, i, first, j, "JUMP_IF_FALSE")
          [] ts[first].type = "PIPE_PIPE" -> ShortCircuit(ts, i, first, j, "JUMP_IF_TRUE")
          [] OTHER -> CodeOf(ts, i, last - 1) \o CodeOf(ts, last + 1, j)
                      \o << Code(BinaryCode[ts[last].type]) >>

CodeOf(ts, i, j) ==
    CASE Outermost(ts, i, j) # {} -> InfixCode(ts, i, j)
      [] ts[i].type \in DOMAIN UnaryCode ->
            CodeOf(ts, i + 1, j) \o << Code(UnaryCode[ts[i].type]) >>
      [] i = j -> << Code("GET_GLOBAL"), IndexOf(ts, i) >>
      [] ts[j].type = "RIGHT_BRACKET" /\ Opening(ts, i, j) = i -> ItemCode(ts, i + 1, j - 1, "ARRAY")
      [] ts[j].type = "RIGHT_BRACKET" /\ Opening(ts, i, j) > i ->
            SubscriptCode(ts, i, j) \o << Code("SUBSCRIPT_GET") >>
      [] ts[j].type = "RIGHT_PAREN" /\ Opening(ts, i, j) = i -> CodeOf(ts, i + 1, j - 1)
      [] ts[j].type = "RIGHT_PAREN" /\ Opening(ts, i, j) > i ->
            CodeOf(ts, i, Opening(ts, i, j) - 1)
            \o ItemCode(ts, Opening(ts, i, j) + 1, j - 1, "CALL")
=============================================================================
