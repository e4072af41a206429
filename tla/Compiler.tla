------------------------------ MODULE Compiler ------------------------------
(***************************************************************************)
(* The compiler, src/src/parser.c: a recursive-descent parser that writes  *)
(* bytecode as it reads tokens and keeps no tree.                          *)
(*                                                                         *)
(* Each C function is an operator from a state of the parser to the next.  *)
(* A state p has the fields of Parser (current, previous, errored,         *)
(* panic_mode), the tokens and the place of the scanner in them, the       *)
(* compiler of the function being read in p.c, those of the functions      *)
(* around it in p.enclosing, and the functions that are complete.  The     *)
(* line the scanner is on when nothing but blanks, comments and line ends  *)
(* is left, p.last_line, is that of the token it then gives.               *)
(*                                                                         *)
(* A token is a type of enum TokenType, its text (the identity of the      *)
(* string it spells, or the number) and its line.  A type "ERROR" is a     *)
(* token the scanner could not read.  Of an error the type of the token it *)
(* is reported at is kept; messages and the names of functions are left    *)
(* out.                                                                    *)
(*                                                                         *)
(* The C functions call each other back, and some of them loop.  Those     *)
(* calls and turns go through the function Parse, which is given a number  *)
(* of them; an operator that makes one takes "parse", which is Parse with  *)
(* one less.  Compile gives it a number that no source exceeds.            *)
(***************************************************************************)
EXTENDS Bytecode, Chunk

\* What next_token gives.
TokenTypes ==
    {"LEFT_PAREN", "RIGHT_PAREN", "LEFT_BRACE", "RIGHT_BRACE", "LEFT_BRACKET", "RIGHT_BRACKET",
     "COMMA", "DOT", "MINUS", "PERCENT", "PLUS", "SEMICOLON", "SLASH", "STAR",
     "AMPER", "AMPER_AMPER", "PIPE", "PIPE_PIPE", "BANG", "BANG_EQUAL", "EQUAL", "EQUAL_EQUAL",
     "GREATER", "GREATER_EQUAL", "LESS", "LESS_EQUAL", "IDENTIFIER", "STRING", "NUMBER",
     "CLASS", "CONST", "DEF", "ELSE", "FALSE", "IF", "LET", "NULL", "RETURN", "SUPER", "THIS",
     "TRUE", "WHILE", "ERROR", "EOF"}
SpelledToken == [type : {"IDENTIFIER", "STRING"}, text : Strings, line : Nat]
SourceToken ==
    SpelledToken \cup [type : TokenTypes \ {"IDENTIFIER", "STRING", "EOF"}, text : Int, line : Nat]
AnyToken == SourceToken \cup [type : {"EOF"}, text : Int, line : Nat]

\* Parser and Compiler.
Local == [name : Int, depth : Int, read_only : BOOLEAN]
Lines == Seq([count : Nat, line : Nat])
FunctionCompiler ==
    [main : BOOLEAN, code : Seq(Nat), lines : Lines, constants : Seq(Value), arity : Nat,
     scope_depth : Nat, locals : Seq(Local)]
Compiled ==
    [arity : Nat, main : BOOLEAN, code : Seq(Nat), lines : Lines, constants : Seq(Value)]
Parser ==
    [tokens : Seq(SourceToken), last_line : Nat, scanned : Nat,
     current : AnyToken, previous : AnyToken,
     errored : BOOLEAN, panic_mode : BOOLEAN, reports : Seq(TokenTypes \cup {"EXHAUSTED"}),
     base : Nat, c : FunctionCompiler, enclosing : Seq(FunctionCompiler),
     functions : Seq(Compiled)]

Token(type, text) == [type |-> type, text |-> text, line |-> 1]
OnLine(tokens, n) == [i \in DOMAIN tokens |-> [tokens[i] EXCEPT !.line = n]]

\* The end of the source.  The scanner has skipped what follows the last token
\* before it makes this one, and has counted the lines.
Eof(line) == [type |-> "EOF", text |-> 0, line |-> line]

Code(op) == (CHOOSE i \in DOMAIN OpCodes : OpCodes[i] = op) - 1

\* A number on two bytes; what does not fit is cut off.
TwoBytes(n) == << (n \div ByteSize) % ByteSize, n % ByteSize >>
-----------------------------------------------------------------------------
(* Tokens and errors. *)

Check(p, type) == p.current.type = type

\* Only the first error is reported until the parser has found its place again.
ErrorAt(p, token) ==
    IF p.panic_mode THEN p
    ELSE [p EXCEPT !.panic_mode = TRUE, !.errored = TRUE, !.reports = Append(@, token.type)]
SyntaxError(p) == ErrorAt(p, p.previous)
ErrorAtCurrent(p) == ErrorAt(p, p.current)

\* Tokens that could not be read are skipped, and are errors.
Advance(p) ==
    LET readable == {i \in p.scanned + 1 .. Len(p.tokens) : p.tokens[i].type # "ERROR"}
        next == IF readable = {} THEN Len(p.tokens) + 1 ELSE Min(readable)
        q == IF \E i \in p.scanned + 1 .. next - 1 : i \in DOMAIN p.tokens
             THEN ErrorAt(p, Token("ERROR", 0)) ELSE p
    IN  [q EXCEPT !.previous = p.current,
                  !.current = IF readable = {} THEN Eof(p.last_line) ELSE p.tokens[next],
                  !.scanned = IF readable = {} THEN Len(p.tokens) ELSE next]

Consume(p, type) == IF Check(p, type) THEN Advance(p) ELSE ErrorAtCurrent(p)
-----------------------------------------------------------------------------
(* Writing bytecode. *)

\* Mutant: a byte is given the line of the token that comes next.
EmitAhead(p, bytes) ==
    [p EXCEPT !.c.code = @ \o bytes,
              !.c.lines = WriteLines(@, Len(bytes), p.current.line)]

\* A byte has the line of the token that was read last.
Emit(p, bytes) ==
    [p EXCEPT !.c.code = @ \o bytes,
              !.c.lines = WriteLines(@, Len(bytes), p.previous.line)]
EmitOp(p, op) == Emit(p, << Code(op) >>)

\* chunk_register_constant: a value that is already there is not added again.
ConstantIndex(p, v) ==
    LET same == {i \in DOMAIN p.c.constants : p.c.constants[i] = v}
    IN  IF same = {} THEN Len(p.c.constants) ELSE Min(same) - 1
RegisterConstant(p, v) ==
    IF ConstantIndex(p, v) < Len(p.c.constants) THEN p
    ELSE [p EXCEPT !.c.constants = Append(@, v)]

\* An instruction that takes the index of a constant on one byte or on two.
EmitIndexed(p, op, op16, index) ==
    IF index <= UINT8_MAX THEN Emit(p, << Code(op), index >>)
    ELSE IF index <= UINT16_MAX THEN Emit(p, << Code(op16) >> \o TwoBytes(index))
    ELSE SyntaxError(p)

EmitConstant(p, v) ==
    EmitIndexed(RegisterConstant(p, v), "CONSTANT", "CONSTANT_16", ConstantIndex(p, v))

EmitReturn(p) == IF p.c.main THEN EmitOp(p, "RETURN") ELSE EmitOp(EmitOp(p, "NULL"), "RETURN")

\* The operand of a forward jump is written once the code it jumps over is.
EmitJump(p, op) == Emit(EmitOp(p, op), << UINT8_MAX, UINT8_MAX >>)
JumpOffset(p) == Len(p.c.code) - 2

PatchJump(p, offset) ==
    LET jump == Len(p.c.code) - offset - 2
        q == IF jump > UINT16_MAX THEN SyntaxError(p) ELSE p
    IN  [q EXCEPT !.c.code[offset + 1] = TwoBytes(jump)[1],
                  !.c.code[offset + 2] = TwoBytes(jump)[2]]

EmitJumpBack(p, offset) ==
    LET q == EmitOp(p, "JUMP_BACK")
        jump == Len(q.c.code) - offset + 2
    IN  Emit(IF jump > UINT16_MAX THEN SyntaxError(q) ELSE q, TwoBytes(jump))
-----------------------------------------------------------------------------
(* Functions, scopes and local variables. *)

\* The first local is the function itself, under a name no token spells.
NoName == -1
NewCompiler(main) ==
    [main |-> main, code |-> <<>>, lines |-> <<>>, constants |-> <<>>, arity |-> 0,
     scope_depth |-> 0,
     locals |-> << [name |-> NoName, depth |-> 0, read_only |-> FALSE] >>]

BeginFunction(p) == [p EXCEPT !.c = NewCompiler(FALSE), !.enclosing = << p.c >> \o @]

\* The function that is complete now is the last of p.functions.
EndCompiler(p) ==
    LET q == EmitReturn(p)
    IN  [q EXCEPT !.functions = Append(@, [arity |-> q.c.arity, main |-> q.c.main,
                                           code |-> q.c.code, lines |-> q.c.lines,
                                           constants |-> q.c.constants]),
                  !.c = IF q.enclosing = <<>> THEN @ ELSE Head(q.enclosing),
                  !.enclosing = IF @ = <<>> THEN @ ELSE Tail(@)]

BeginScope(p) == [p EXCEPT !.c.scope_depth = @ + 1]

\* Mutant: the locals of a scope are forgotten and their values stay.
EndScopeWithoutPops(p) ==
    LET depth == p.c.scope_depth - 1
        inner == {i \in DOMAIN p.c.locals : p.c.locals[i].depth > depth}
    IN  [p EXCEPT !.c.scope_depth = depth,
                  !.c.locals = SubSeq(@, 1, Len(@) - Cardinality(inner))]

\* Every local of the scope goes, and leaves its slot.
EndScope(p) ==
    LET depth == p.c.scope_depth - 1
        outer == {i \in DOMAIN p.c.locals : p.c.locals[i].depth <= depth}
        kept == IF outer = {} THEN 0 ELSE Max(outer)
        pops == [i \in 1 .. Len(p.c.locals) - kept |-> Code("POP")]
    IN  [Emit(p, pops) EXCEPT !.c.scope_depth = depth, !.c.locals = SubSeq(@, 1, kept)]

AddLocal(p, name) ==
    IF Len(p.c.locals) = UINT8_MAX THEN SyntaxError(p)
    ELSE [p EXCEPT !.c.locals = Append(@, [name |-> name, depth |-> -1, read_only |-> TRUE])]

\* Counting from the last, the locals down to the first of an outer scope.
InThisScope(p) ==
    LET outer == {i \in DOMAIN p.c.locals : /\ p.c.locals[i].depth # -1
                                             /\ p.c.locals[i].depth < p.c.scope_depth}
    IN  (IF outer = {} THEN 1 ELSE Max(outer) + 1) .. Len(p.c.locals)

MarkInitialized(p, read_only) ==
    LET last == Len(p.c.locals)
    IN  [p EXCEPT !.c.locals[last] = [@ EXCEPT !.depth = p.c.scope_depth,
                                               !.read_only = read_only]]

\* The parser after the name it has just read is declared, and the index of its
\* constant when it is a global.
DeclareName(p, name) ==
    IF p.c.scope_depth = 0
    THEN [p |-> RegisterConstant(p, String(name)), index |-> ConstantIndex(p, String(name))]
    ELSE [p |-> AddLocal(IF \E i \in InThisScope(p) : p.c.locals[i].name = name
                         THEN SyntaxError(p) ELSE p, name),
          index |-> -1]
ReadName(p) == DeclareName(p, p.previous.text)
ParseVariable(p) == ReadName(Consume(p, "IDENTIFIER"))

DeclareGlobal(p, index, read_only) ==
    IF read_only THEN EmitIndexed(p, "DECL_GLOBAL_CONST", "DECL_GLOBAL_CONST_16", index)
                 ELSE EmitIndexed(p, "DECL_GLOBAL", "DECL_GLOBAL_16", index)

\* The slot of the innermost local of that name, or -1.
GetLocalVariable(c, name) ==
    LET named == {i \in DOMAIN c.locals : c.locals[i].name = name}
    IN  IF named = {} THEN -1 ELSE Max(named) - 1
-----------------------------------------------------------------------------
(* Expressions. *)

PREC_ASSIGNMENT == 1
PREC_OR == 2
PREC_AND == 3

\* Mutant: as a sum does.
PrecedenceOfSums == 6

\* Unary operators bind closer than binary ones.
PREC_UNARY == 8

\* The precedence of a token as an infix operator; 0 is PREC_NONE.
Precedence(type) ==
    CASE type = "PIPE_PIPE" -> PREC_OR
      [] type = "AMPER_AMPER" -> PREC_AND
      [] type \in {"BANG_EQUAL", "EQUAL_EQUAL"} -> 4
      [] type \in {"GREATER", "GREATER_EQUAL", "LESS", "LESS_EQUAL"} -> 5
      [] type \in {"MINUS", "PLUS"} -> 6
      [] type \in {"PERCENT", "SLASH", "STAR"} -> 7
      [] type \in {"LEFT_PAREN", "LEFT_BRACKET"} -> 9
      [] OTHER -> 0

UnaryCode == [BANG |-> "NOT", PLUS |-> "POSITIVE", MINUS |-> "NEGATIVE"]
BinaryCode ==
    [PLUS |-> "ADD", MINUS |-> "SUBTRACT", STAR |-> "MULTIPLY", SLASH |-> "DIVIDE",
     PERCENT |-> "MODULO", BANG_EQUAL |-> "NOT_EQUAL", EQUAL_EQUAL |-> "EQUAL",
     GREATER |-> "GREATER", GREATER_EQUAL |-> "GREATER_EQUAL", LESS |-> "LESS",
     LESS_EQUAL |-> "LESS_EQUAL"]

Expression(parse, p) == parse["expression", p, PREC_ASSIGNMENT]

\* An array or a call has its items counted by a byte.
Closing == [ARRAY |-> "RIGHT_BRACKET", CALL |-> "RIGHT_PAREN"]
EndItems(p, op, count) == Emit(Consume(p, Closing[op]), << Code(op), count >>)

\* The items that follow the first count.
AfterItem(parse, p, op, count) ==
    IF Check(p, "COMMA") THEN parse[op, Advance(p), count] ELSE EndItems(p, op, count)
CountItem(p, count) == IF count = UINT8_MAX THEN SyntaxError(p) ELSE p
ParseItems(parse, p, op, count) ==
    AfterItem(parse, CountItem(Expression(parse, p), count), op, (count + 1) % ByteSize)

ItemList(parse, p, op) ==
    IF Check(p, Closing[op]) THEN EndItems(p, op, 0) ELSE parse[op, p, 0]

RuleGrouping(parse, p) == Consume(Expression(parse, p), "RIGHT_PAREN")

RuleNumber(p, n) ==
    IF n = 0 THEN EmitOp(p, "ZERO") ELSE IF n = 1 THEN EmitOp(p, "ONE")
    ELSE EmitConstant(p, Number(n))

\* An assignment to a local that is constant is not read any further.
LocalVariable(parse, p, slot, assignable) ==
    IF assignable /\ Check(p, "EQUAL")
    THEN IF p.c.locals[slot + 1].read_only THEN SyntaxError(Advance(p))
         ELSE Emit(Expression(parse, Advance(p)), << Code("SET_LOCAL"), slot >>)
    ELSE Emit(p, << Code("GET_LOCAL"), slot >>)

GlobalVariable(parse, p, name, assignable) ==
    LET index == ConstantIndex(p, String(name))
        registered == RegisterConstant(p, String(name))
        q == IF index > UINT16_MAX THEN SyntaxError(registered) ELSE registered
    IN  IF assignable /\ Check(q, "EQUAL")
        THEN EmitIndexed(Expression(parse, Advance(q)), "SET_GLOBAL", "SET_GLOBAL_16", index)
        ELSE EmitIndexed(q, "GET_GLOBAL", "GET_GLOBAL_16", index)

RuleVariable(parse, p, assignable) ==
    LET name == p.previous.text
        slot == GetLocalVariable(p.c, name)
    IN  IF slot = -1 THEN GlobalVariable(parse, p, name, assignable)
        ELSE LocalVariable(parse, IF p.c.locals[slot + 1].depth = -1 THEN SyntaxError(p) ELSE p,
                           slot, assignable)

\* && and ||: the left operand stays on the stack when it decides the result.
RuleShortCircuit(parse, p, op, precedence) ==
    LET q == EmitJump(p, op)
    IN  PatchJump(parse["expression", EmitOp(q, "POP"), precedence], JumpOffset(q))

RuleSubscript(parse, p, assignable) ==
    LET q == Consume(Expression(parse, p), "RIGHT_BRACKET")
    IN  IF assignable /\ Check(q, "EQUAL")
        THEN EmitOp(Expression(parse, Advance(q)), "SUBSCRIPT_SET")
        ELSE EmitOp(q, "SUBSCRIPT_GET")

PrefixTokens == {"LEFT_PAREN", "LEFT_BRACKET", "MINUS", "PLUS", "BANG", "IDENTIFIER",
                 "STRING", "NUMBER", "FALSE", "NULL", "TRUE"}

PrefixRule(parse, p, assignable) ==
    LET token == p.previous
    IN  CASE token.type = "LEFT_PAREN" -> RuleGrouping(parse, p)
          [] token.type = "LEFT_BRACKET" -> ItemList(parse, p, "ARRAY")
          [] token.type \in DOMAIN UnaryCode ->
                EmitOp(parse["expression", p, PREC_UNARY], UnaryCode[token.type])
          [] token.type = "IDENTIFIER" -> RuleVariable(parse, p, assignable)
          [] token.type = "STRING" -> EmitConstant(p, String(token.text))
          [] token.type = "NUMBER" -> RuleNumber(p, token.text)
          [] token.type \in {"FALSE", "NULL", "TRUE"} -> EmitOp(p, token.type)

InfixRule(parse, p, assignable) ==
    LET type == p.previous.type
    IN  CASE type = "LEFT_PAREN" -> ItemList(parse, p, "CALL")
          [] type = "LEFT_BRACKET" -> RuleSubscript(parse, p, assignable)
          [] type = "AMPER_AMPER" -> RuleShortCircuit(parse, p, "JUMP_IF_FALSE", PREC_AND)
          [] type = "PIPE_PIPE" -> RuleShortCircuit(parse, p, "JUMP_IF_TRUE", PREC_OR)
          [] type \in DOMAIN BinaryCode ->
                EmitOp(parse["expression", p, Precedence(type) + 1], BinaryCode[type])

\* Mutant: whatever a precedence ends with may be assigned to.
AssignableAlways(precedence) == TRUE

\* Only an assignment, and what an assignment can begin with, may take "=".
Assignable(precedence) == precedence <= PREC_ASSIGNMENT

InfixRules(parse, p, precedence) ==
    IF precedence <= Precedence(p.current.type)
    THEN parse["infix", InfixRule(parse, Advance(p), Assignable(precedence)), precedence]
    ELSE p

\* What was read cannot be assigned to, or its rule would have taken the token.
RefuseAssignment(p, assignable) ==
    IF assignable /\ Check(p, "EQUAL") THEN SyntaxError(Advance(p)) ELSE p

\* parse_precedence after the token that begins the expression.
AfterFirst(parse, p, precedence) ==
    IF p.previous.type \notin PrefixTokens THEN SyntaxError(p)
    ELSE RefuseAssignment(parse["infix", PrefixRule(parse, p, Assignable(precedence)), precedence],
                          Assignable(precedence))
ParsePrecedence(parse, p, precedence) == AfterFirst(parse, Advance(p), precedence)
-----------------------------------------------------------------------------
(* Statements and declarations. *)

StatementStarts == {"CLASS", "CONST", "DEF", "IF", "LET", "WHILE", "RETURN"}

\* Mutant: one token is skipped.
SynchronizeOnce(parse, p) == Advance(p)

\* After an error, skip to what looks like the beginning of a statement.
Synchronize(parse, p) ==
    IF Check(p, "EOF") \/ p.previous.type = "SEMICOLON" \/ p.current.type \in StatementStarts
    THEN p ELSE parse["synchronize", Advance(p), 0]

ExpressionStatement(parse, p) == EmitOp(Consume(Expression(parse, p), "SEMICOLON"), "POP")

\* The value a variable begins with is on the stack: that is where a local is.
DefineVariable(p, index, read_only) ==
    IF p.c.scope_depth > 0 THEN MarkInitialized(p, read_only)
    ELSE DeclareGlobal(p, index, read_only)

Initializer(parse, p) ==
    IF Check(p, "EQUAL") THEN Expression(parse, Advance(p)) ELSE EmitOp(p, "NULL")

VarDeclaration(parse, p, read_only) ==
    LET v == ParseVariable(p)
    IN  DefineVariable(Consume(Initializer(parse, v.p), "SEMICOLON"), v.index, read_only)

CountParameter(p) ==
    IF p.c.arity >= UINT8_MAX THEN ErrorAtCurrent([p EXCEPT !.c.arity = @ + 1])
                              ELSE [p EXCEPT !.c.arity = @ + 1]
Parameter(p) == MarkInitialized(ParseVariable(CountParameter(p)).p, FALSE)
Parameters(parse, p) ==
    IF Check(p, "COMMA") THEN parse["parameters", Parameter(Advance(p)), 0] ELSE p
ParameterList(parse, p) ==
    IF Check(p, "RIGHT_PAREN") THEN p ELSE parse["parameters", Parameter(p), 0]

\* The function is a constant of the one around it.
EmitFunction(p) == EmitConstant(p, Function(p.base + Len(p.functions)))

ParseFunction(parse, p) ==
    LET header == ParameterList(parse, Consume(BeginScope(BeginFunction(p)), "LEFT_PAREN"))
        body == Consume(Consume(header, "RIGHT_PAREN"), "LEFT_BRACE")
    IN  EmitFunction(EndCompiler(parse["block", body, 0]))

\* The index of the name is kept on one byte, whatever it is.
FunctionDeclaration(parse, p) ==
    LET v == ParseVariable(p)
    IN  IF p.c.scope_depth > 0 THEN ParseFunction(parse, MarkInitialized(v.p, FALSE))
        ELSE DeclareGlobal(ParseFunction(parse, v.p), v.index % ByteSize, FALSE)

\* The condition of if and while, the jump over what follows when it is false,
\* and the statement to do when it is true.
Condition(parse, p) ==
    EmitJump(Consume(Expression(parse, Consume(p, "LEFT_PAREN")), "RIGHT_PAREN"), "JUMP_IF_FALSE")
Body(parse, p) == parse["statement", EmitOp(p, "POP"), 0]

ElseBranch(parse, p) == IF Check(p, "ELSE") THEN parse["statement", Advance(p), 0] ELSE p
EndIf(parse, p, then_jump) ==
    PatchJump(ElseBranch(parse, EmitOp(PatchJump(p, then_jump), "POP")), JumpOffset(p))
IfBranches(parse, p) == EndIf(parse, EmitJump(Body(parse, p), "JUMP"), JumpOffset(p))
IfStatement(parse, p) == IfBranches(parse, Condition(parse, p))

Loop(parse, p, start) ==
    EmitOp(PatchJump(EmitJumpBack(Body(parse, p), start), JumpOffset(p)), "POP")
WhileStatement(parse, p) == Loop(parse, Condition(parse, p), Len(p.c.code))

ReturnValue(parse, p) ==
    IF Check(p, "SEMICOLON") THEN EmitReturn(Advance(p))
    ELSE EmitOp(Consume(Expression(parse, p), "SEMICOLON"), "RETURN")
ReturnStatement(parse, p) == ReturnValue(parse, IF p.c.main THEN SyntaxError(p) ELSE p)

\* Mutant: the end of the source closes a block.
BlockToTheEnd(parse, p) ==
    IF Check(p, "EOF") THEN p
    ELSE IF Check(p, "RIGHT_BRACE") THEN Consume(p, "RIGHT_BRACE")
    ELSE parse["block", parse["declaration", p, 0], 0]

Block(parse, p) ==
    IF p.current.type \in {"RIGHT_BRACE", "EOF"} THEN Consume(p, "RIGHT_BRACE")
    ELSE parse["block", parse["declaration", p, 0], 0]

Statement(parse, p) ==
    CASE Check(p, "LEFT_BRACE") -> EndScope(parse["block", BeginScope(Advance(p)), 0])
      [] Check(p, "IF") -> IfStatement(parse, Advance(p))
      [] Check(p, "WHILE") -> WhileStatement(parse, Advance(p))
      [] Check(p, "RETURN") -> ReturnStatement(parse, Advance(p))
      [] OTHER -> ExpressionStatement(parse, p)

\* The end of every declaration.
Resume(parse, p) ==
    IF p.panic_mode THEN parse["synchronize", [p EXCEPT !.panic_mode = FALSE], 0] ELSE p

Declaration(parse, p) ==
    Resume(parse, IF p.current.type \in {"LET", "CONST"}
                  THEN VarDeclaration(parse, Advance(p), Check(p, "CONST"))
                  ELSE IF Check(p, "DEF") THEN FunctionDeclaration(parse, Advance(p))
                  ELSE Statement(parse, p))

\* The loop of parser_compile: match(TOKEN_EOF) ends it.
Declarations(parse, p) ==
    IF Check(p, "EOF") THEN Advance(p)
    ELSE parse["declarations", parse["declaration", p, 0], 0]
-----------------------------------------------------------------------------
(* The calls. *)

\* What is called, or done once more.
Goals == {"expression", "infix", "ARRAY", "CALL", "statement", "declaration", "block",
          "declarations", "parameters", "synchronize"}

\* No calls are left: the source is too deep.
Exhausted(p) == [p EXCEPT !.errored = TRUE, !.reports = Append(@, "EXHAUSTED")]

\* Number is a precedence, or how many items there were.
Call(parse, goal, p, number) ==
    CASE goal = "expression" -> ParsePrecedence(parse, p, number)
      [] goal = "infix" -> InfixRules(parse, p, number)
      [] goal \in DOMAIN Closing -> ParseItems(parse, p, goal, number)
      [] goal = "statement" -> Statement(parse, p)
      [] goal = "declaration" -> Declaration(parse, p)
      [] goal = "block" -> Block(parse, p)
      [] goal = "declarations" -> Declarations(parse, p)
      [] goal = "parameters" -> Parameters(parse, p)
      [] goal = "synchronize" -> Synchronize(parse, p)

Requests == Goals \X Parser \X Nat
Parse[calls \in Nat] ==
    IF calls = 0 THEN [call \in Requests |-> Exhausted(call[2])]
    ELSE [call \in Requests |-> Call(Parse[calls - 1], call[1], call[2], call[3])]

\* Three for each token, and for the end of the source.
CallsFor(tokens) == 3 * Len(tokens) + 3

\* parser_compile.  The functions of the source, the script itself last, take
\* the places after base in the program.
Translation(p) == [ok |-> ~p.errored, functions |-> p.functions, reports |-> p.reports]
NewParser(tokens, last_line, base) ==
    [tokens |-> tokens, last_line |-> last_line,
     scanned |-> 0, current |-> Eof(1), previous |-> Eof(1),
     errored |-> FALSE, panic_mode |-> FALSE, reports |-> <<>>, base |-> base,
     c |-> NewCompiler(TRUE), enclosing |-> <<>>, functions |-> <<>>]
Compile(tokens, last_line, base) ==
    LET p == Advance(NewParser(tokens, last_line, base))
    IN  Translation(EndCompiler(Parse[CallsFor(tokens)]["declarations", p, 0]))
=============================================================================
