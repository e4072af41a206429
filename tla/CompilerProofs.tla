--------------------------- MODULE CompilerProofs ---------------------------
(***************************************************************************)
(* What a step of the parser may do, for every source, every byte width    *)
(* and every table of names: it reads on and never back, writes bytes and  *)
(* constants of the right kinds, and leaves the functions around it        *)
(* alone. parser.c recurses without a bound of its own; here each call     *)
(* has a number of calls to make.  A goal has a rank, and three calls for  *)
(* each token that is left and its rank are enough: no source makes the    *)
(* parser recurse for ever.                                                *)
(***************************************************************************)
EXTENDS Compilation, FiniteSetTheorems, WellFoundedInduction, TLAPS

-----------------------------------------------------------------------------
(* Numbers. *)

\* A set of numbers that holds 0 and the successor of each of its members holds
\* every number.
LEMMA NatSetInduction ==
    ASSUME NEW T, 0 \in T, \A n \in Nat : n \in T => n + 1 \in T
    PROVE  Nat \subseteq T
<1> SUFFICES ASSUME NEW k \in Nat, k \notin T PROVE FALSE
  OBVIOUS
<1> DEFINE R == OpToRel(<, Nat)
           Missing == Nat \ T
<1>1. IsWellFoundedOn(R, Nat)
  BY NatLessThanWellFounded
<1>2. Missing \subseteq Nat /\ Missing # {}
  OBVIOUS
<1> HIDE DEF Missing
<1>3. PICK m \in Missing : \A y \in Missing : ~(<<y, m>> \in R)
  <2> HIDE DEF R
  <2> QED BY <1>1, <1>2, WFMin, Zenon
<1>4. m # 0 /\ m \in Nat
  BY DEF Missing
<1>5. m - 1 \in Missing
  BY <1>4 DEF Missing
<1>6. <<m - 1, m>> \in R
  BY <1>4 DEF OpToRel
<1> QED BY <1>3, <1>5, <1>6

\* A set of numbers that is not empty has a least member, which Min finds.
LEMMA MinOfNats ==
    ASSUME NEW S \in SUBSET Nat, S # {}
    PROVE  Min(S) \in S /\ \A n \in S : Min(S) <= n
<1> DEFINE T == {n \in Nat : \A m \in S : m >= n}
<1>1. \E n \in S : \A m \in S : n <= m
  <2> SUFFICES ASSUME ~ \E n \in S : \A m \in S : n <= m PROVE FALSE
    OBVIOUS
  <2>1. 0 \in T
    OBVIOUS
  <2>2. ASSUME NEW n \in Nat, n \in T PROVE n + 1 \in T
    <3>1. n \notin S
      BY <2>2
    <3> QED BY <2>2, <3>1
  <2> HIDE DEF T
  <2>3. Nat \subseteq T
    BY <2>1, <2>2, NatSetInduction
  <2>4. PICK m \in S : TRUE
    OBVIOUS
  <2>5. m + 1 \in T
    BY <2>3
  <2> QED BY <2>4, <2>5 DEF T
<1> QED BY <1>1 DEF Min

\* A set of numbers up to n that is not empty has a greatest member, which Max
\* finds.
LEMMA MaxOfNats ==
    ASSUME NEW n \in Nat, NEW S \in SUBSET (0 .. n), S # {}
    PROVE  Max(S) \in S /\ \A m \in S : Max(S) >= m
<1> DEFINE T == {n - m : m \in S}
<1>1. T \in SUBSET Nat /\ T # {}
  <2>1. \A m \in S : m \in Nat /\ n - m \in Nat
    OBVIOUS
  <2>2. PICK m \in S : TRUE
    OBVIOUS
  <2>3. n - m \in T
    OBVIOUS
  <2> QED BY <2>1, <2>3
<1>2. Min(T) \in T /\ \A m \in T : Min(T) <= m
  BY <1>1, MinOfNats
<1>3. PICK x \in S : Min(T) = n - x
  BY <1>2
<1>4. \A m \in S : n - x <= n - m
  BY <1>2, <1>3
<1>5. \A m \in S : x >= m
  BY <1>4
<1> QED BY <1>5 DEF Max
-----------------------------------------------------------------------------
(* Sequences. *)

LEMMA ItemOfSeq ==
    ASSUME NEW S, NEW s \in Seq(S), NEW i \in 1 .. Len(s)
    PROVE  s[i] \in S
OBVIOUS

\* An item of a sequence is replaced; a place outside it makes no difference.
Replaced(s, i, x) == [s EXCEPT ![i] = x]
LEMMA ReplacedItem ==
    ASSUME NEW S, NEW s \in Seq(S), NEW i \in Int, NEW x \in S
    PROVE  /\ Replaced(s, i, x) \in Seq(S)
           /\ Len(Replaced(s, i, x)) = Len(s)
           /\ \A j \in 1 .. Len(s) : Replaced(s, i, x)[j] = IF j = i THEN x ELSE s[j]
<1> DEFINE t == [j \in 1 .. Len(s) |-> IF j = i THEN x ELSE s[j]]
<1>1. Len(s) \in Nat /\ DOMAIN s = 1 .. Len(s)
  OBVIOUS
<1>2. Replaced(s, i, x) = t
  BY <1>1 DEF Replaced
<1>3. t \in Seq(S)
  OBVIOUS
<1>4. Len(t) = Len(s)
  BY <1>1
<1>5. \A j \in 1 .. Len(s) : t[j] = IF j = i THEN x ELSE s[j]
  OBVIOUS
<1> HIDE DEF t
<1> QED BY <1>2, <1>3, <1>4, <1>5
LEMMA ReplacedNowhere ==
    ASSUME NEW S, NEW s \in Seq(S), NEW i, i \notin 1 .. Len(s), NEW x
    PROVE  Replaced(s, i, x) = s
<1>1. DOMAIN s = 1 .. Len(s) /\ s = [j \in DOMAIN s |-> s[j]]
  OBVIOUS
<1>2. Replaced(s, i, x) = [j \in DOMAIN s |-> IF j = i THEN x ELSE s[j]]
  BY <1>1 DEF Replaced
<1> QED BY <1>1, <1>2
-----------------------------------------------------------------------------
(* Operation codes. *)

Ops == {OpCodes[i] : i \in DOMAIN OpCodes}

\* Those the compiler writes.
LEMMA OpsListed ==
    /\ {"RETURN", "POP", "JUMP", "JUMP_IF_TRUE", "JUMP_IF_FALSE", "JUMP_BACK"} \subseteq Ops
    /\ GlobalOps \subseteq Ops
    /\ ConstantOps \subseteq Ops
    /\ {"GET_LOCAL", "SET_LOCAL", "SUBSCRIPT_GET", "SUBSCRIPT_SET", "CALL", "ARRAY"} \subseteq Ops
    /\ Literals \subseteq Ops
    /\ UnaryOps \subseteq Ops
    /\ BinaryOps \subseteq Ops
<1>1. DOMAIN OpCodes = 1 .. 41
  BY DEF OpCodes
<1>2. \A i \in 1 .. 41 : OpCodes[i] \in Ops
  BY <1>1 DEF Ops
<1>3. /\ OpCodes[1] = "RETURN" /\ OpCodes[2] = "POP" /\ OpCodes[3] = "JUMP"
      /\ OpCodes[4] = "JUMP_IF_TRUE" /\ OpCodes[5] = "JUMP_IF_FALSE" /\ OpCodes[6] = "JUMP_BACK"
  BY DEF OpCodes
<1>4. /\ OpCodes[7] = "DECL_GLOBAL" /\ OpCodes[8] = "DECL_GLOBAL_CONST"
      /\ OpCodes[9] = "GET_GLOBAL" /\ OpCodes[10] = "SET_GLOBAL"
      /\ OpCodes[11] = "DECL_GLOBAL_16" /\ OpCodes[12] = "DECL_GLOBAL_CONST_16"
      /\ OpCodes[13] = "GET_GLOBAL_16" /\ OpCodes[14] = "SET_GLOBAL_16"
  BY DEF OpCodes
<1>5. /\ OpCodes[15] = "GET_LOCAL" /\ OpCodes[16] = "SET_LOCAL"
      /\ OpCodes[17] = "CONSTANT" /\ OpCodes[18] = "CONSTANT_16"
      /\ OpCodes[38] = "SUBSCRIPT_GET" /\ OpCodes[39] = "SUBSCRIPT_SET"
      /\ OpCodes[40] = "CALL" /\ OpCodes[41] = "ARRAY"
  BY DEF OpCodes
<1>6. /\ OpCodes[19] = "ZERO" /\ OpCodes[20] = "ONE" /\ OpCodes[21] = "TRUE"
      /\ OpCodes[22] = "FALSE" /\ OpCodes[23] = "NULL"
      /\ OpCodes[24] = "NOT" /\ OpCodes[25] = "POSITIVE" /\ OpCodes[26] = "NEGATIVE"
  BY DEF OpCodes
<1>7. /\ OpCodes[27] = "ADD" /\ OpCodes[28] = "SUBTRACT" /\ OpCodes[29] = "MULTIPLY"
      /\ OpCodes[30] = "DIVIDE" /\ OpCodes[31] = "MODULO" /\ OpCodes[32] = "EQUAL"
      /\ OpCodes[33] = "NOT_EQUAL" /\ OpCodes[34] = "GREATER" /\ OpCodes[35] = "GREATER_EQUAL"
      /\ OpCodes[36] = "LESS" /\ OpCodes[37] = "LESS_EQUAL"
  BY DEF OpCodes
<1> HIDE DEF Ops
<1>8. {"RETURN", "POP", "JUMP", "JUMP_IF_TRUE", "JUMP_IF_FALSE", "JUMP_BACK"} \subseteq Ops
  BY <1>2, <1>3
<1>9. GlobalOps \subseteq Ops
  BY <1>2, <1>4 DEF GlobalOps, DeclGlobalOps, GetGlobalOps, SetGlobalOps
<1>10. ConstantOps \subseteq Ops
  BY <1>2, <1>5 DEF ConstantOps
<1>11. {"GET_LOCAL", "SET_LOCAL", "SUBSCRIPT_GET", "SUBSCRIPT_SET", "CALL", "ARRAY"} \subseteq Ops
  BY <1>2, <1>5
<1>12. Literals \subseteq Ops /\ UnaryOps \subseteq Ops
  BY <1>2, <1>6 DEF Literals, UnaryOps
<1>13. BinaryOps \subseteq Ops
  BY <1>2, <1>7 DEF BinaryOps
<1> QED BY <1>8, <1>9, <1>10, <1>11, <1>12, <1>13

\* The byte of an operation stands for that operation.
LEMMA CodeOfOp ==
    ASSUME NEW op \in Ops
    PROVE  /\ Code(op) \in Nat
           /\ Code(op) + 1 \in DOMAIN OpCodes
           /\ OpCodes[Code(op) + 1] = op
<1>1. DOMAIN OpCodes = 1 .. 41
  BY DEF OpCodes
<1>2. PICK i \in DOMAIN OpCodes : OpCodes[i] = op
  BY DEF Ops
<1> DEFINE j == CHOOSE k \in DOMAIN OpCodes : OpCodes[k] = op
<1>3. j \in DOMAIN OpCodes /\ OpCodes[j] = op
  BY <1>2
<1> HIDE DEF j
<1>4. j \in 1 .. 41
  BY <1>1, <1>3
<1>5. Code(op) = j - 1
  BY DEF Code, j
<1> QED BY <1>3, <1>4, <1>5
-----------------------------------------------------------------------------
(* What every step of the parser keeps. *)

\* A parser that panics has seen an error, and one that is at the end of the
\* source has no tokens left.  It was never short of calls.  Before the first
\* token is read there is no current one.
Begun(p) ==
    /\ p \in Parser
    /\ p.reports \in Seq(TokenTypes)
    /\ p.panic_mode => p.errored
    /\ p.scanned <= Len(p.tokens)

Fine(p) ==
    /\ p \in Parser
    /\ p.reports \in Seq(TokenTypes)
    /\ p.panic_mode => p.errored
    /\ p.scanned <= Len(p.tokens)
    /\ p.current.type = "EOF" => p.scanned = Len(p.tokens)
    /\ p.current.type # "EOF" =>
          p.scanned \in DOMAIN p.tokens /\ p.current = p.tokens[p.scanned]

\* The tokens that are still to be passed.
Left(p) == IF p.current.type = "EOF" THEN 0 ELSE 1 + Len(p.tokens) - p.scanned

\* Nothing is read twice, an error stays an error, and the scope and the
\* functions around it are those that were.
Follows(p, q) ==
    /\ Fine(q)
    /\ q.tokens = p.tokens /\ q.base = p.base
    /\ p.errored => q.errored
    /\ Left(q) <= Left(p)
    /\ q.c.scope_depth = p.c.scope_depth /\ q.c.main = p.c.main
    /\ q.enclosing = p.enclosing

\* A token was passed, if there was one.
Reads(p, q) == Follows(p, q) /\ (Left(p) = 0 \/ Left(q) < Left(p))

LEMMA LeftIsNat == ASSUME NEW p, Fine(p) PROVE Left(p) \in Nat
BY DEF Fine, Left, Parser

LEMMA FollowsItself == ASSUME NEW p, Fine(p) PROVE Follows(p, p)
BY LeftIsNat DEF Follows

LEMMA FollowsOn ==
    ASSUME NEW p, NEW q, NEW r, Follows(p, q), Follows(q, r), Fine(p)
    PROVE  Follows(p, r)
<1>1. Left(p) \in Nat /\ Left(q) \in Nat /\ Left(r) \in Nat
  BY LeftIsNat DEF Follows
<1> QED BY <1>1 DEF Follows

LEMMA ReadsThenFollows ==
    ASSUME NEW p, NEW q, NEW r, Reads(p, q), Follows(q, r), Fine(p)
    PROVE  Reads(p, r)
<1>1. Left(p) \in Nat /\ Left(q) \in Nat /\ Left(r) \in Nat
  BY LeftIsNat DEF Follows, Reads
<1> QED BY <1>1, FollowsOn DEF Reads, Follows

LEMMA FollowsThenReads ==
    ASSUME NEW p, NEW q, NEW r, Follows(p, q), Reads(q, r), Fine(p)
    PROVE  Reads(p, r)
<1>1. Left(p) \in Nat /\ Left(q) \in Nat /\ Left(r) \in Nat
  BY LeftIsNat DEF Follows, Reads
<1> QED BY <1>1, FollowsOn DEF Reads, Follows
-----------------------------------------------------------------------------
(* Tokens and errors. *)

LEMMA TokenIsToken ==
    ASSUME NEW type \in TokenTypes \ {"IDENTIFIER", "STRING"}, NEW text \in Int
    PROVE  Token(type, text) \in AnyToken
BY DEF Token, AnyToken, SourceToken

\* What a token holds; a name and a string have their text among the strings.
LEMMA TokenFields ==
    ASSUME NEW token \in AnyToken
    PROVE  /\ token.type \in TokenTypes /\ token.text \in Int /\ token.line \in Nat
           /\ token.type \in {"IDENTIFIER", "STRING"} => token.text \in Strings
<1>1. CASE token \in SpelledToken
  <2>1. token.type \in {"IDENTIFIER", "STRING"} /\ token.text \in Strings /\ token.line \in Nat
    BY <1>1 DEF SpelledToken
  <2>2. Strings \subseteq Nat
    BY StringsAssumption
  <2>3. token.text \in Nat
    BY <2>1, <2>2
  <2> QED BY <2>1, <2>3 DEF TokenTypes
<1>2. CASE token \notin SpelledToken
  <2>1. CASE token.type = "EOF"
    BY <1>2, <2>1 DEF AnyToken, SourceToken, TokenTypes
  <2>2. CASE token.type # "EOF"
    BY <1>2, <2>2 DEF AnyToken, SourceToken
  <2> QED BY <2>1, <2>2
<1> QED BY <1>1, <1>2

\* The source is made of every token but the one that ends it.
LEMMA SourceTokens ==
    ASSUME NEW token
    PROVE  token \in SourceToken <=> token \in AnyToken /\ token.type # "EOF"
BY DEF AnyToken, SourceToken, SpelledToken

LEMMA EofIsToken ==
    ASSUME NEW line \in Nat
    PROVE  Eof(line) \in AnyToken /\ Eof(line).type = "EOF"
BY DEF Eof, AnyToken

\* An error is remembered, and changes nothing else.
LEMMA ErrorAtBegun ==
    ASSUME NEW p, Begun(p), NEW token \in AnyToken
    PROVE  /\ Begun(ErrorAt(p, token))
           /\ ErrorAt(p, token).errored
           /\ ErrorAt(p, token).tokens = p.tokens /\ ErrorAt(p, token).base = p.base
           /\ ErrorAt(p, token).current = p.current /\ ErrorAt(p, token).previous = p.previous
           /\ ErrorAt(p, token).scanned = p.scanned
           /\ ErrorAt(p, token).c = p.c /\ ErrorAt(p, token).enclosing = p.enclosing
           /\ ErrorAt(p, token).functions = p.functions
<1>1. CASE p.panic_mode
  BY <1>1 DEF ErrorAt, Begun
<1>2. CASE ~p.panic_mode
  <2> DEFINE q == [p EXCEPT !.panic_mode = TRUE, !.errored = TRUE,
                            !.reports = Append(@, token.type)]
  <2>1. token.type \in TokenTypes
    BY TokenFields
  <2>2. q.reports \in Seq(TokenTypes) /\ q.reports \in Seq(TokenTypes \cup {"EXHAUSTED"})
    BY <2>1 DEF Begun, Parser
  <2>3. q \in Parser
    BY <2>2 DEF Begun, Parser
  <2>4. /\ q.tokens = p.tokens /\ q.scanned = p.scanned /\ q.current = p.current
        /\ q.previous = p.previous /\ q.functions = p.functions
        /\ q.base = p.base /\ q.errored /\ q.c = p.c /\ q.enclosing = p.enclosing
    BY DEF Begun, Parser
  <2>5. ErrorAt(p, token) = q
    BY <1>2 DEF ErrorAt
  <2> HIDE DEF q
  <2>6. Begun(q)
    BY <2>2, <2>3, <2>4 DEF Begun
  <2> QED BY <2>4, <2>5, <2>6
<1> QED BY <1>1, <1>2

LEMMA ErrorAtFollows ==
    ASSUME NEW p, Fine(p), NEW token \in AnyToken
    PROVE  /\ Follows(p, ErrorAt(p, token))
           /\ ErrorAt(p, token).errored
           /\ ErrorAt(p, token).current = p.current
           /\ ErrorAt(p, token).scanned = p.scanned
<1> DEFINE q == ErrorAt(p, token)
<1>1. Begun(p)
  BY DEF Begun, Fine
<1>2. /\ Begun(q) /\ q.errored /\ q.tokens = p.tokens /\ q.base = p.base
      /\ q.current = p.current /\ q.scanned = p.scanned /\ q.c = p.c
      /\ q.enclosing = p.enclosing
  BY <1>1, ErrorAtBegun
<1> HIDE DEF q
<1>3. Fine(q) /\ Left(q) = Left(p)
  BY <1>2 DEF Begun, Fine, Left
<1>4. Follows(p, q)
  BY <1>2, <1>3, LeftIsNat DEF Follows
<1> QED BY <1>2, <1>4 DEF q

LEMMA SyntaxErrorFollows ==
    ASSUME NEW p, Fine(p)
    PROVE  Follows(p, SyntaxError(p)) /\ SyntaxError(p).errored
BY ErrorAtFollows DEF SyntaxError, Fine, Parser

LEMMA ErrorAtCurrentFollows ==
    ASSUME NEW p, Fine(p)
    PROVE  Follows(p, ErrorAtCurrent(p)) /\ ErrorAtCurrent(p).errored
BY ErrorAtFollows DEF ErrorAtCurrent, Fine, Parser

\* The next token is read, and what is written stays.
LEMMA AdvanceBegun ==
    ASSUME NEW p, Begun(p)
    PROVE  /\ Fine(Advance(p))
           /\ Advance(p).tokens = p.tokens /\ Advance(p).base = p.base
           /\ Advance(p).enclosing = p.enclosing
           /\ p.errored => Advance(p).errored
           /\ Advance(p).current.type # "EOF" => Advance(p).scanned > p.scanned
           /\ p.scanned = Len(p.tokens) => Advance(p).current.type = "EOF"
           /\ Advance(p).previous = p.current
           /\ Advance(p).c = p.c
           /\ Advance(p).functions = p.functions
<1> DEFINE readable == {i \in p.scanned + 1 .. Len(p.tokens) : p.tokens[i].type # "ERROR"}
           next == IF readable = {} THEN Len(p.tokens) + 1 ELSE Min(readable)
           passed == \E i \in p.scanned + 1 .. next - 1 : i \in DOMAIN p.tokens
           q == IF passed THEN ErrorAt(p, Token("ERROR", 0)) ELSE p
           current == IF readable = {} THEN Eof(p.last_line) ELSE p.tokens[next]
           scanned == IF readable = {} THEN Len(p.tokens) ELSE next
           r == [q EXCEPT !.previous = p.current, !.current = current, !.scanned = scanned]
<1>1. Advance(p) = r
  BY DEF Advance
<1>2. /\ p.tokens \in Seq(SourceToken) /\ p.scanned \in Nat /\ Len(p.tokens) \in Nat
      /\ p.last_line \in Nat
  BY DEF Begun, Parser
<1>3. readable # {} => /\ next \in p.scanned + 1 .. Len(p.tokens)
                       /\ p.tokens[next].type # "ERROR"
  <2>1. readable \subseteq Nat
    BY <1>2
  <2>2. readable # {} => Min(readable) \in readable
    BY <2>1, MinOfNats
  <2> QED BY <2>2
<1>4. Token("ERROR", 0) \in AnyToken
  BY TokenIsToken DEF TokenTypes
<1>5. /\ Begun(q) /\ q.tokens = p.tokens /\ q.base = p.base /\ (p.errored => q.errored)
      /\ q.c = p.c /\ q.functions = p.functions /\ q.enclosing = p.enclosing
  BY <1>4, ErrorAtBegun
<1>6. current \in AnyToken /\ (current.type = "EOF" <=> readable = {})
  <2>1. CASE readable = {}
    BY <1>2, <2>1, EofIsToken
  <2>2. CASE readable # {}
    <3> HIDE DEF readable, next
    <3>1. next \in 1 .. Len(p.tokens)
      BY <1>2, <1>3, <2>2
    <3>2. p.tokens[next] \in SourceToken
      BY <1>2, <3>1
    <3> QED BY <2>2, <3>2, SourceTokens
  <2> QED BY <2>1, <2>2
<1>7. scanned \in Nat /\ scanned <= Len(p.tokens) /\ (readable = {} => scanned = Len(p.tokens))
      /\ (readable # {} => scanned > p.scanned)
  BY <1>2, <1>3
<1>8. readable # {} => scanned \in DOMAIN p.tokens /\ current = p.tokens[scanned]
  BY <1>2, <1>3, SMTT(30)
<1>9. p.scanned = Len(p.tokens) => readable = {}
  BY <1>2
<1> HIDE DEF readable, next, passed, q, current, scanned
<1>10. /\ r.tokens = q.tokens /\ r.scanned = scanned /\ r.current = current /\ r.previous = p.current
       /\ r.errored = q.errored /\ r.panic_mode = q.panic_mode /\ r.reports = q.reports
       /\ r.base = q.base /\ r.c = q.c /\ r.enclosing = q.enclosing /\ r.functions = q.functions
  BY <1>5 DEF Begun, Parser
<1>11. p.current \in AnyToken
  BY DEF Begun, Parser
<1>12. r \in Parser
  BY <1>5, <1>6, <1>7, <1>11 DEF Begun, Parser
<1> HIDE DEF r
<1>13. Fine(r)
  BY <1>5, <1>6, <1>7, <1>8, <1>10, <1>12 DEF Fine, Begun
<1> QED BY <1>1, <1>5, <1>6, <1>7, <1>9, <1>10, <1>13

\* A token is passed, and errors of the scanner before the next one.
LEMMA AdvanceReads ==
    ASSUME NEW p, Fine(p)
    PROVE  /\ Reads(p, Advance(p))
           /\ Advance(p).previous = p.current
           /\ Advance(p).c = p.c
           /\ Advance(p).functions = p.functions
<1> DEFINE r == Advance(p)
<1>1. Begun(p)
  BY DEF Begun, Fine
<1>2. /\ Fine(r) /\ r.tokens = p.tokens /\ r.base = p.base /\ r.enclosing = p.enclosing
      /\ p.errored => r.errored
      /\ r.current.type # "EOF" => r.scanned > p.scanned
      /\ p.scanned = Len(p.tokens) => r.current.type = "EOF"
      /\ r.previous = p.current /\ r.c = p.c /\ r.functions = p.functions
  BY <1>1, AdvanceBegun
<1> HIDE DEF r
<1>3. Left(r) <= Left(p) /\ (Left(p) = 0 \/ Left(r) < Left(p))
  <2>1. /\ p.scanned \in Nat /\ r.scanned \in Nat /\ Len(p.tokens) \in Nat
        /\ p.scanned <= Len(p.tokens) /\ r.scanned <= Len(p.tokens)
    BY <1>2 DEF Fine, Parser
  <2> QED BY <1>2, <2>1 DEF Left, Fine
<1>4. Follows(p, r)
  BY <1>2, <1>3 DEF Follows
<1> QED BY <1>2, <1>3, <1>4 DEF Reads, r

LEMMA AdvancePasses ==
    ASSUME NEW p, Fine(p), p.current.type # "EOF"
    PROVE  Left(Advance(p)) < Left(p)
<1>1. Left(p) # 0
  BY DEF Left, Fine, Parser
<1> QED BY <1>1, AdvanceReads DEF Reads

\* A token that could not be read is an error, so without one it is the next.
LEMMA AdvanceNext ==
    ASSUME NEW p, Fine(p), ~Advance(p).errored, Advance(p).current.type # "EOF"
    PROVE  Advance(p).scanned = p.scanned + 1
<1> DEFINE readable == {i \in p.scanned + 1 .. Len(p.tokens) : p.tokens[i].type # "ERROR"}
           next == IF readable = {} THEN Len(p.tokens) + 1 ELSE Min(readable)
           passed == \E i \in p.scanned + 1 .. next - 1 : i \in DOMAIN p.tokens
           q == IF passed THEN ErrorAt(p, Token("ERROR", 0)) ELSE p
           current == IF readable = {} THEN Eof(p.last_line) ELSE p.tokens[next]
           scanned == IF readable = {} THEN Len(p.tokens) ELSE next
           r == [q EXCEPT !.previous = p.current, !.current = current, !.scanned = scanned]
<1>1. Advance(p) = r
  BY DEF Advance
<1>2. /\ p.tokens \in Seq(SourceToken) /\ p.scanned \in Nat /\ Len(p.tokens) \in Nat /\ Begun(p)
      /\ p.last_line \in Nat
  BY DEF Begun, Fine, Parser
<1>3. readable # {} => next \in p.scanned + 1 .. Len(p.tokens)
  <2>1. readable \subseteq Nat
    BY <1>2
  <2>2. readable # {} => Min(readable) \in readable
    BY <2>1, MinOfNats
  <2> QED BY <2>2
<1>4. Token("ERROR", 0) \in AnyToken
  BY TokenIsToken DEF TokenTypes
<1>5. q \in Parser /\ (passed => q.errored)
  BY <1>2, <1>4, ErrorAtBegun DEF Begun
<1>6. readable = {} => current.type = "EOF"
  BY <1>2, EofIsToken
<1> HIDE DEF q, current, scanned, readable, next, passed
<1>7. r.scanned = scanned /\ r.current = current /\ r.errored = q.errored
  BY <1>5 DEF Parser
<1>8. readable # {} /\ ~passed
  BY <1>1, <1>5, <1>6, <1>7
<1>9. next = p.scanned + 1
  <2>1. next \in p.scanned + 1 .. Len(p.tokens)
    BY <1>3, <1>8
  <2>2. ~(next - 1 \in p.scanned + 1 .. next - 1 /\ next - 1 \in DOMAIN p.tokens)
    BY <1>8 DEF passed
  <2>3. DOMAIN p.tokens = 1 .. Len(p.tokens)
    BY <1>2
  <2> QED BY <1>2, <2>1, <2>2, <2>3
<1> QED BY <1>1, <1>7, <1>8, <1>9 DEF scanned

\* Whether or not the token is there.
LEMMA ConsumeFollows ==
    ASSUME NEW p, Fine(p), NEW type
    PROVE  Follows(p, Consume(p, type))
BY AdvanceReads, ErrorAtCurrentFollows DEF Reads, Consume
-----------------------------------------------------------------------------
(* Writing bytecode. *)

\* The parser with another state of the function it is in.
With(p, c) == [p EXCEPT !.c = c]

LEMMA WithFields ==
    ASSUME NEW p \in Parser, NEW c
    PROVE  /\ With(p, c).tokens = p.tokens /\ With(p, c).scanned = p.scanned
           /\ With(p, c).current = p.current /\ With(p, c).previous = p.previous
           /\ With(p, c).errored = p.errored /\ With(p, c).panic_mode = p.panic_mode
           /\ With(p, c).reports = p.reports /\ With(p, c).base = p.base
           /\ With(p, c).c = c
           /\ With(p, c).enclosing = p.enclosing /\ With(p, c).functions = p.functions
BY DEF With, Parser

LEMMA WithIsFine ==
    ASSUME NEW p, Fine(p), NEW c \in FunctionCompiler
    PROVE  Fine(With(p, c)) /\ Left(With(p, c)) = Left(p)
<1>1. With(p, c) \in Parser
  BY DEF With, Fine, Parser
<1> QED BY <1>1, WithFields DEF Fine, Left

LEMMA WithFollows ==
    ASSUME NEW p, Fine(p), NEW c \in FunctionCompiler,
           c.scope_depth = p.c.scope_depth, c.main = p.c.main
    PROVE  Follows(p, With(p, c))
BY WithIsFine, WithFields, LeftIsNat DEF Fine, Follows

LEMMA WriteLinesType ==
    ASSUME NEW lines \in Lines, NEW n \in Nat, NEW line \in Nat
    PROVE  WriteLines(lines, n, line) \in Lines
<1>1. CASE lines # <<>> /\ n # 0 /\ lines[Len(lines)].line = line
  <2>1. WriteLines(lines, n, line) = [lines EXCEPT ![Len(lines)].count = @ + n]
    BY <1>1 DEF WriteLines
  <2>2. lines \in Seq([count : Nat, line : Nat]) /\ Len(lines) \in 1 .. Len(lines)
    BY <1>1 DEF Lines
  <2>3. lines[Len(lines)] \in [count : Nat, line : Nat]
    BY <2>2, ItemOfSeq
  <2> DEFINE run == [lines[Len(lines)] EXCEPT !.count = @ + n]
  <2>4. run \in [count : Nat, line : Nat]
    BY <2>3
  <2>5. Replaced(lines, Len(lines), run) = WriteLines(lines, n, line)
    BY <2>1 DEF Replaced
  <2> HIDE DEF run
  <2>6. Replaced(lines, Len(lines), run) \in Seq([count : Nat, line : Nat])
    BY <2>2, <2>4, ReplacedItem
  <2> QED BY <2>5, <2>6 DEF Lines
<1>2. CASE n = 0
  BY <1>2 DEF WriteLines
<1>3. CASE n # 0 /\ ~(lines # <<>> /\ lines[Len(lines)].line = line)
  <2>1. WriteLines(lines, n, line) = Append(lines, Run(n, line))
    BY <1>3 DEF WriteLines
  <2>2. Run(n, line) \in [count : Nat, line : Nat]
    BY DEF Run
  <2> QED BY <2>1, <2>2 DEF Lines
<1> QED BY <1>1, <1>2, <1>3

LEMMA EmitIsWith ==
    ASSUME NEW p, Fine(p), NEW bytes \in Seq(Nat)
    PROVE  LET c == [p.c EXCEPT !.code = @ \o bytes,
                                !.lines = WriteLines(@, Len(bytes), p.previous.line)]
           IN  c \in FunctionCompiler /\ Emit(p, bytes) = With(p, c)
<1> DEFINE c == [p.c EXCEPT !.code = @ \o bytes,
                            !.lines = WriteLines(@, Len(bytes), p.previous.line)]
<1>1. p.c \in FunctionCompiler /\ p.previous.line \in Nat /\ Len(bytes) \in Nat
  BY TokenFields DEF Fine, Parser
<1>2. p.c.code \o bytes \in Seq(Nat)
  BY <1>1 DEF FunctionCompiler
<1>3. WriteLines(p.c.lines, Len(bytes), p.previous.line) \in Lines
  BY <1>1, WriteLinesType DEF FunctionCompiler
<1>4. c \in FunctionCompiler
  BY <1>1, <1>2, <1>3 DEF FunctionCompiler
<1>5. Emit(p, bytes) = With(p, c)
  BY <1>1 DEF Emit, With, Fine, Parser, FunctionCompiler
<1> QED BY <1>4, <1>5

LEMMA EmitFollows ==
    ASSUME NEW p, Fine(p), NEW bytes \in Seq(Nat)
    PROVE  Follows(p, Emit(p, bytes))
<1> DEFINE c == [p.c EXCEPT !.code = @ \o bytes,
                            !.lines = WriteLines(@, Len(bytes), p.previous.line)]
<1>1. c.scope_depth = p.c.scope_depth /\ c.main = p.c.main
  BY DEF Fine, Parser, FunctionCompiler
<1>2. c \in FunctionCompiler /\ Emit(p, bytes) = With(p, c)
  BY EmitIsWith
<1> HIDE DEF c
<1> QED BY <1>1, <1>2, WithFollows

LEMMA EmitOpFollows ==
    ASSUME NEW p, Fine(p), NEW op \in Ops
    PROVE  Follows(p, EmitOp(p, op))
<1>1. << Code(op) >> \in Seq(Nat)
  BY CodeOfOp
<1> QED BY <1>1, EmitFollows DEF EmitOp

LEMMA ByteSizeIsNat == ByteSize \in Nat /\ ByteSize > 1 /\ UINT16_MAX \in Nat
<1>1. ByteSize \in Nat /\ ByteSize > 1
  BY ByteAssumption DEF ByteSize
<1>2. ByteSize * ByteSize \in Nat /\ ByteSize * ByteSize >= 1
  BY <1>1, Z3
<1> QED BY <1>1, <1>2 DEF UINT16_MAX

LEMMA TwoBytesType ==
    ASSUME NEW n \in Int
    PROVE  TwoBytes(n) \in Seq(Nat) /\ Len(TwoBytes(n)) = 2
           /\ TwoBytes(n)[1] \in Nat /\ TwoBytes(n)[2] \in Nat
<1>1. n \div ByteSize \in Int
  BY ByteSizeIsNat
<1>2. (n \div ByteSize) % ByteSize \in Nat /\ n % ByteSize \in Nat
  BY <1>1, ByteSizeIsNat
<1> QED BY <1>2 DEF TwoBytes

LEMMA ConstantIndexIsNat ==
    ASSUME NEW p, Fine(p), NEW v
    PROVE  /\ ConstantIndex(p, v) \in Nat
           /\ ConstantIndex(p, v) <= Len(p.c.constants)
           /\ ConstantIndex(p, v) < Len(p.c.constants) =>
                 p.c.constants[ConstantIndex(p, v) + 1] = v
<1> DEFINE same == {i \in DOMAIN p.c.constants : p.c.constants[i] = v}
<1>1. p.c.constants \in Seq(Value)
  BY DEF Fine, Parser, FunctionCompiler
<1>2. DOMAIN p.c.constants = 1 .. Len(p.c.constants) /\ Len(p.c.constants) \in Nat
  BY <1>1
<1>3. CASE same = {}
  BY <1>2, <1>3 DEF ConstantIndex
<1>4. CASE same # {}
  <2>1. same \subseteq Nat
    BY <1>2
  <2>2. Min(same) \in 1 .. Len(p.c.constants) /\ p.c.constants[Min(same)] = v
    BY <1>2, <1>4, <2>1, MinOfNats
  <2>3. ConstantIndex(p, v) = Min(same) - 1
    BY <1>4 DEF ConstantIndex
  <2> HIDE DEF same
  <2>4. (Min(same) - 1) + 1 = Min(same)
    BY <2>2
  <2> QED BY <1>2, <2>2, <2>3, <2>4
<1> QED BY <1>3, <1>4

LEMMA RegisterConstantFollows ==
    ASSUME NEW p, Fine(p), NEW v \in Value
    PROVE  /\ Follows(p, RegisterConstant(p, v))
           /\ RegisterConstant(p, v).current = p.current
<1> DEFINE c == [p.c EXCEPT !.constants = Append(@, v)]
<1>1. CASE ConstantIndex(p, v) < Len(p.c.constants)
  BY <1>1, FollowsItself DEF RegisterConstant
<1>2. CASE ~(ConstantIndex(p, v) < Len(p.c.constants))
  <2>1. p.c \in FunctionCompiler
    BY DEF Fine, Parser
  <2> DEFINE constants == Append(p.c.constants, v)
  <2>4. constants \in Seq(Value)
    BY <2>1 DEF FunctionCompiler
  <2> HIDE DEF constants
  <2>2. c \in FunctionCompiler /\ c.scope_depth = p.c.scope_depth /\ c.main = p.c.main
    BY <2>1, <2>4 DEF FunctionCompiler, constants
  <2>3. RegisterConstant(p, v) = With(p, c)
    BY <1>2 DEF RegisterConstant, With
  <2> HIDE DEF c
  <2> QED BY <2>2, <2>3, WithFollows, WithFields DEF Fine
<1> QED BY <1>1, <1>2

LEMMA EmitIndexedFollows ==
    ASSUME NEW p, Fine(p), NEW op \in Ops, NEW op16 \in Ops, NEW index \in Nat
    PROVE  Follows(p, EmitIndexed(p, op, op16, index))
<1>1. << Code(op), index >> \in Seq(Nat)
  BY CodeOfOp
<1>2. << Code(op16) >> \o TwoBytes(index) \in Seq(Nat)
  BY CodeOfOp, TwoBytesType
<1> QED BY <1>1, <1>2, EmitFollows, SyntaxErrorFollows DEF EmitIndexed

LEMMA EmitConstantFollows ==
    ASSUME NEW p, Fine(p), NEW v \in Value
    PROVE  Follows(p, EmitConstant(p, v))
<1>1. "CONSTANT" \in Ops /\ "CONSTANT_16" \in Ops
  BY OpsListed DEF ConstantOps
<1>2. Follows(p, RegisterConstant(p, v))
  BY RegisterConstantFollows
<1>3. Follows(RegisterConstant(p, v), EmitConstant(p, v))
  BY <1>1, <1>2, ConstantIndexIsNat, EmitIndexedFollows DEF EmitConstant, Follows
<1> QED BY <1>2, <1>3, FollowsOn

LEMMA EmitReturnFollows ==
    ASSUME NEW p, Fine(p)
    PROVE  Follows(p, EmitReturn(p))
<1>1. "RETURN" \in Ops /\ "NULL" \in Ops
  BY OpsListed DEF Literals
<1>2. Follows(p, EmitOp(p, "RETURN")) /\ Follows(p, EmitOp(p, "NULL"))
  BY <1>1, EmitOpFollows
<1>3. Follows(EmitOp(p, "NULL"), EmitOp(EmitOp(p, "NULL"), "RETURN"))
  BY <1>1, <1>2, EmitOpFollows DEF Follows
<1> QED BY <1>2, <1>3, FollowsOn DEF EmitReturn

LEMMA EmitJumpFollows ==
    ASSUME NEW p, Fine(p), NEW op \in Ops
    PROVE  /\ Follows(p, EmitJump(p, op))
           /\ JumpOffset(EmitJump(p, op)) \in Int
<1>1. << UINT8_MAX, UINT8_MAX >> \in Seq(Nat)
  BY ByteAssumption
<1>2. Follows(p, EmitOp(p, op))
  BY EmitOpFollows
<1>3. Follows(EmitOp(p, op), EmitJump(p, op))
  BY <1>1, <1>2, EmitFollows DEF EmitJump, Follows
<1>4. Follows(p, EmitJump(p, op))
  BY <1>2, <1>3, FollowsOn
<1>5. Len(EmitJump(p, op).c.code) \in Nat
  BY <1>4 DEF Follows, Fine, Parser, FunctionCompiler
<1> QED BY <1>4, <1>5 DEF JumpOffset

\* A jump that is patched changes two bytes that are there.
LEMMA PatchJumpFollows ==
    ASSUME NEW p, Fine(p), NEW offset \in Int
    PROVE  Follows(p, PatchJump(p, offset))
<1> DEFINE jump == Len(p.c.code) - offset - 2
           q == IF jump > UINT16_MAX THEN SyntaxError(p) ELSE p
           code == [[q.c.code EXCEPT ![offset + 1] = TwoBytes(jump)[1]]
                        EXCEPT ![offset + 2] = TwoBytes(jump)[2]]
           c == [q.c EXCEPT !.code = code]
<1>1. Follows(p, q)
  BY SyntaxErrorFollows, FollowsItself
<1>2. q.c \in FunctionCompiler /\ Fine(q) /\ q \in Parser
  BY <1>1 DEF Follows, Fine, Parser
<1>3. jump \in Int
  BY DEF Fine, Parser, FunctionCompiler
<1> HIDE DEF jump, q
<1>4. code \in Seq(Nat)
  <2>1. q.c.code \in Seq(Nat)
    BY <1>2 DEF FunctionCompiler
  <2>2. TwoBytes(jump)[1] \in Nat /\ TwoBytes(jump)[2] \in Nat
    BY <1>3, TwoBytesType
  <2>3. Replaced(q.c.code, offset + 1, TwoBytes(jump)[1]) \in Seq(Nat)
    BY <2>1, <2>2, ReplacedItem
  <2>4. Replaced(Replaced(q.c.code, offset + 1, TwoBytes(jump)[1]), offset + 2, TwoBytes(jump)[2])
            \in Seq(Nat)
    BY <2>2, <2>3, ReplacedItem
  <2> QED BY <2>4 DEF Replaced
<1>5. PatchJump(p, offset) = With(q, c)
  BY <1>2 DEF PatchJump, With, jump, q, Parser, FunctionCompiler
<1> HIDE DEF code
<1>6. c \in FunctionCompiler /\ c.scope_depth = q.c.scope_depth /\ c.main = q.c.main
  BY <1>2, <1>4 DEF FunctionCompiler
<1> HIDE DEF c
<1>7. Follows(q, With(q, c))
  BY <1>2, <1>6, WithFollows
<1> QED BY <1>1, <1>5, <1>7, FollowsOn

LEMMA EmitJumpBackFollows ==
    ASSUME NEW p, Fine(p), NEW offset \in Int
    PROVE  Follows(p, EmitJumpBack(p, offset))
<1> DEFINE q == EmitOp(p, "JUMP_BACK")
           jump == Len(q.c.code) - offset + 2
           r == IF jump > UINT16_MAX THEN SyntaxError(q) ELSE q
<1>1. Follows(p, q)
  BY EmitOpFollows, OpsListed
<1>2. Follows(q, r)
  BY <1>1, SyntaxErrorFollows, FollowsItself DEF Follows
<1>3. TwoBytes(jump) \in Seq(Nat)
  <2> HIDE DEF q
  <2>1. jump \in Int
    BY <1>1 DEF Follows, Fine, Parser, FunctionCompiler
  <2> QED BY <2>1, TwoBytesType
<1>4. EmitJumpBack(p, offset) = Emit(r, TwoBytes(jump))
  BY DEF EmitJumpBack
<1> HIDE DEF q, jump, r
<1>5. Follows(r, EmitJumpBack(p, offset))
  BY <1>2, <1>3, <1>4, EmitFollows DEF Follows
<1> QED BY <1>1, <1>2, <1>5, FollowsOn
-----------------------------------------------------------------------------
(* Functions, scopes and local variables. *)

LEMMA NewCompilerType ==
    ASSUME NEW main \in BOOLEAN
    PROVE  NewCompiler(main) \in FunctionCompiler
<1>1. << [name |-> NoName, depth |-> 0, read_only |-> FALSE] >> \in Seq(Local)
  BY DEF NoName, Local
<1> QED BY <1>1 DEF NewCompiler, FunctionCompiler, Lines

\* The step from one function, or one scope, to another.
Moves(p, q) ==
    /\ Fine(q)
    /\ q.tokens = p.tokens /\ q.base = p.base
    /\ p.errored => q.errored
    /\ Left(q) <= Left(p)

LEMMA BeginFunctionMoves ==
    ASSUME NEW p, Fine(p)
    PROVE  /\ Moves(p, BeginFunction(p))
           /\ BeginFunction(p).c = NewCompiler(FALSE)
           /\ BeginFunction(p).enclosing = << p.c >> \o p.enclosing
           /\ BeginFunction(p).functions = p.functions
           /\ BeginFunction(p).errored = p.errored
<1> DEFINE q == BeginFunction(p)
           enclosing == << p.c >> \o p.enclosing
           c == NewCompiler(FALSE)
<1>1. p \in Parser /\ p.c \in FunctionCompiler /\ p.enclosing \in Seq(FunctionCompiler)
  BY DEF Fine, Parser
<1>2. enclosing \in Seq(FunctionCompiler)
  BY <1>1
<1>3. c \in FunctionCompiler
  BY NewCompilerType
<1> HIDE DEF enclosing, c
<1>4. q = [p EXCEPT !.c = c, !.enclosing = enclosing]
  BY DEF BeginFunction, enclosing, c
<1>5. q \in Parser
  BY <1>1, <1>2, <1>3, <1>4 DEF Parser
<1>6. /\ q.tokens = p.tokens /\ q.scanned = p.scanned /\ q.current = p.current
      /\ q.base = p.base /\ q.errored = p.errored /\ q.c = c /\ q.enclosing = enclosing
      /\ q.panic_mode = p.panic_mode /\ q.reports = p.reports /\ q.functions = p.functions
  BY <1>1, <1>4 DEF Parser
<1> HIDE DEF q
<1>7. Fine(q) /\ Left(q) = Left(p)
  BY <1>5, <1>6 DEF Fine, Left
<1> QED BY <1>6, <1>7, LeftIsNat DEF Moves, q, c, enclosing

\* What EndCompiler adds to the functions.
Finished(c) ==
    [arity |-> c.arity, main |-> c.main, code |-> c.code, lines |-> c.lines,
     constants |-> c.constants]

\* A function ends in the code around it.
LEMMA EndCompilerMoves ==
    ASSUME NEW p, Fine(p)
    PROVE  /\ Moves(p, EndCompiler(p))
           /\ p.enclosing # <<>> => /\ EndCompiler(p).c = Head(p.enclosing)
                                    /\ EndCompiler(p).enclosing = Tail(p.enclosing)
           /\ EndCompiler(p).functions = Append(EmitReturn(p).functions, Finished(EmitReturn(p).c))
           /\ EndCompiler(p).errored = EmitReturn(p).errored
           /\ EndCompiler(p).reports \in Seq(TokenTypes)
<1> DEFINE q == EmitReturn(p)
           functions == Append(q.functions, Finished(q.c))
           c == IF q.enclosing = <<>> THEN q.c ELSE Head(q.enclosing)
           enclosing == IF q.enclosing = <<>> THEN q.enclosing ELSE Tail(q.enclosing)
           r == [q EXCEPT !.functions = functions, !.c = c, !.enclosing = enclosing]
<1>1. Follows(p, q)
  BY EmitReturnFollows
<1>2. EndCompiler(p) = r
  BY DEF EndCompiler, Finished
<1> HIDE DEF q
<1>3. /\ q \in Parser /\ q.c \in FunctionCompiler /\ q.enclosing \in Seq(FunctionCompiler)
      /\ q.functions \in Seq(Compiled)
  BY <1>1 DEF Follows, Fine, Parser
<1>4. Finished(q.c) \in Compiled
  BY <1>3 DEF Finished, FunctionCompiler, Compiled
<1>5. functions \in Seq(Compiled)
  BY <1>3, <1>4
<1>6. c \in FunctionCompiler
  BY <1>3
<1>7. enclosing \in Seq(FunctionCompiler)
  BY <1>3
<1> HIDE DEF functions, c, enclosing
<1>8. r \in Parser
  BY <1>3, <1>5, <1>6, <1>7 DEF Parser
<1>9. /\ r.tokens = q.tokens /\ r.scanned = q.scanned /\ r.current = q.current
      /\ r.base = q.base /\ r.errored = q.errored /\ r.c = c /\ r.enclosing = enclosing
      /\ r.panic_mode = q.panic_mode /\ r.reports = q.reports /\ r.functions = functions
  BY <1>3 DEF Parser
<1> HIDE DEF r
<1>10. Fine(r) /\ Left(r) = Left(q)
  BY <1>1, <1>8, <1>9 DEF Fine, Left, Follows
<1>11. Moves(p, r)
  BY <1>1, <1>9, <1>10 DEF Moves, Follows
<1>12. q.enclosing = p.enclosing
  BY <1>1 DEF Follows
<1> QED BY <1>2, <1>9, <1>10, <1>11, <1>12 DEF c, enclosing, functions, q, Fine

\* The function with another scope and other locals.
InScope(c, scope_depth, locals) ==
    [c EXCEPT !.scope_depth = scope_depth, !.locals = locals]

LEMMA InScopeType ==
    ASSUME NEW c \in FunctionCompiler, NEW scope_depth \in Nat, NEW locals \in Seq(Local)
    PROVE  /\ InScope(c, scope_depth, locals) \in FunctionCompiler
           /\ InScope(c, scope_depth, locals).scope_depth = scope_depth
           /\ InScope(c, scope_depth, locals).locals = locals
           /\ InScope(c, scope_depth, locals).main = c.main
           /\ InScope(c, scope_depth, locals).code = c.code
           /\ InScope(c, scope_depth, locals).constants = c.constants
           /\ InScope(c, scope_depth, locals).arity = c.arity
BY DEF InScope, FunctionCompiler

LEMMA BeginScopeMoves ==
    ASSUME NEW p, Fine(p)
    PROVE  /\ BeginScope(p) = With(p, InScope(p.c, p.c.scope_depth + 1, p.c.locals))
           /\ Moves(p, BeginScope(p))
           /\ BeginScope(p).c = InScope(p.c, p.c.scope_depth + 1, p.c.locals)
           /\ BeginScope(p).enclosing = p.enclosing
<1> DEFINE c == InScope(p.c, p.c.scope_depth + 1, p.c.locals)
<1>1. p.c \in FunctionCompiler /\ p \in Parser
  BY DEF Fine, Parser
<1>2. p.c.scope_depth + 1 \in Nat /\ p.c.locals \in Seq(Local)
  BY <1>1 DEF FunctionCompiler
<1>3. c \in FunctionCompiler
  BY <1>1, <1>2, InScopeType
<1>4. BeginScope(p) = With(p, c)
  BY <1>1 DEF BeginScope, With, InScope, Parser, FunctionCompiler
<1> HIDE DEF c
<1>5. Moves(p, With(p, c))
  BY <1>1, <1>3, WithIsFine, WithFields, LeftIsNat DEF Moves
<1> QED BY <1>1, <1>4, <1>5, WithFields DEF c

\* The locals that a scope leaves: a part of those there are.
Kept(p) ==
    LET outer == {i \in DOMAIN p.c.locals : p.c.locals[i].depth <= p.c.scope_depth - 1}
    IN  IF outer = {} THEN 0 ELSE Max(outer)
Popped(p) == [i \in 1 .. Len(p.c.locals) - Kept(p) |-> Code("POP")]

LEMMA KeptIsLength ==
    ASSUME NEW p, Fine(p)
    PROVE  Kept(p) \in 0 .. Len(p.c.locals)
<1> DEFINE outer == {i \in DOMAIN p.c.locals : p.c.locals[i].depth <= p.c.scope_depth - 1}
<1>1. p.c.locals \in Seq(Local)
  BY DEF Fine, Parser, FunctionCompiler
<1>2. DOMAIN p.c.locals = 1 .. Len(p.c.locals) /\ Len(p.c.locals) \in Nat
  BY <1>1
<1>3. outer \in SUBSET (0 .. Len(p.c.locals)) /\ outer \subseteq 0 .. Len(p.c.locals)
  BY <1>2
<1>4. Kept(p) = IF outer = {} THEN 0 ELSE Max(outer)
  BY DEF Kept
<1> HIDE DEF outer
<1>5. outer # {} => Max(outer) \in outer
  BY <1>2, <1>3, MaxOfNats
<1>6. CASE outer = {}
  BY <1>2, <1>4, <1>6
<1>7. CASE outer # {}
  <2>1. Max(outer) \in 0 .. Len(p.c.locals)
    BY <1>3, <1>5, <1>7
  <2> QED BY <1>4, <1>7, <2>1
<1> QED BY <1>6, <1>7

LEMMA PoppedType ==
    ASSUME NEW p, Fine(p)
    PROVE  Popped(p) \in Seq(Nat) /\ Len(Popped(p)) = Len(p.c.locals) - Kept(p)
<1>1. Len(p.c.locals) \in Nat
  BY DEF Fine, Parser, FunctionCompiler
<1>2. Len(p.c.locals) - Kept(p) \in Nat
  BY <1>1, KeptIsLength
<1>3. Code("POP") \in Nat
  BY OpsListed, CodeOfOp
<1> QED BY <1>2, <1>3 DEF Popped

\* A scope that ends is the only thing besides a function that changes the depth.
LEMMA EndScopeMoves ==
    ASSUME NEW p, Fine(p), p.c.scope_depth # 0
    PROVE  LET q == Emit(p, Popped(p))
               c == InScope(q.c, p.c.scope_depth - 1, SubSeq(p.c.locals, 1, Kept(p)))
           IN  /\ Fine(q) /\ EndScope(p) = With(q, c)
               /\ Moves(p, EndScope(p))
               /\ EndScope(p).c = c
               /\ EndScope(p).c.scope_depth = p.c.scope_depth - 1
               /\ EndScope(p).c.main = p.c.main
               /\ EndScope(p).enclosing = p.enclosing
<1> DEFINE q == Emit(p, Popped(p))
           locals == SubSeq(p.c.locals, 1, Kept(p))
           c == InScope(q.c, p.c.scope_depth - 1, locals)
<1>1. Follows(p, q)
  BY PoppedType, EmitFollows
<1>2. EndScope(p) = [q EXCEPT !.c.scope_depth = p.c.scope_depth - 1,
                              !.c.locals = SubSeq(@, 1, Kept(p))]
  BY DEF EndScope, Popped, Kept
<1>3. q.c.locals = p.c.locals
  <2> DEFINE d == [p.c EXCEPT !.code = @ \o Popped(p),
                              !.lines = WriteLines(@, Len(Popped(p)), p.previous.line)]
  <2>1. q = With(p, d) /\ p \in Parser
    BY PoppedType, EmitIsWith DEF Fine
  <2>2. d.locals = p.c.locals
    BY DEF Fine, Parser, FunctionCompiler
  <2> HIDE DEF q, d
  <2> QED BY <2>1, <2>2, WithFields
<1> HIDE DEF q
<1>4. q \in Parser /\ q.c \in FunctionCompiler /\ q.c.locals \in Seq(Local) /\ p.c.scope_depth - 1 \in Nat
  BY <1>1, SMTT(30) DEF Follows, Fine, Parser, FunctionCompiler
<1>5. locals \in Seq(Local)
  <2>1. Kept(p) \in 0 .. Len(p.c.locals)
    BY <1>3, KeptIsLength
  <2> QED BY <1>3, <1>4, <2>1
<1>6. EndScope(p) = With(q, c)
  BY <1>2, <1>3, <1>4 DEF With, InScope, Parser, FunctionCompiler
<1>7. c \in FunctionCompiler /\ c.scope_depth = p.c.scope_depth - 1 /\ c.main = q.c.main
  BY <1>4, <1>5, InScopeType
<1>8. q.c.main = p.c.main /\ q.enclosing = p.enclosing /\ Fine(q)
  BY <1>1 DEF Follows
<1> HIDE DEF c
<1>9. Fine(With(q, c)) /\ Left(With(q, c)) = Left(q)
  BY <1>7, <1>8, WithIsFine
<1>10. Moves(p, With(q, c))
  BY <1>1, <1>4, <1>9, WithFields DEF Moves, Follows
<1> QED BY <1>4, <1>6, <1>7, <1>8, <1>10, WithFields DEF q, c

LEMMA StringIsValue == ASSUME NEW s \in Int PROVE String(s) \in Value
BY DEF String, Value, Types, ObjectTypes

LEMMA NumberIsValue == ASSUME NEW n \in Int PROVE Number(n) \in Value
BY DEF Number, Value, Types, ObjectTypes

LEMMA FunctionIsValue == ASSUME NEW f \in Int PROVE Function(f) \in Value
BY DEF Function, Value, Types, ObjectTypes

LEMMA AddLocalFollows ==
    ASSUME NEW p, Fine(p), NEW name \in Int
    PROVE  Follows(p, AddLocal(p, name))
<1> DEFINE locals == Append(p.c.locals, [name |-> name, depth |-> -1, read_only |-> TRUE])
           c == InScope(p.c, p.c.scope_depth, locals)
<1>1. CASE Len(p.c.locals) = UINT8_MAX
  BY <1>1, SyntaxErrorFollows DEF AddLocal
<1>2. CASE Len(p.c.locals) # UINT8_MAX
  <2>1. p.c \in FunctionCompiler /\ p.c.locals \in Seq(Local) /\ p.c.scope_depth \in Nat /\ p \in Parser
    BY DEF Fine, Parser, FunctionCompiler
  <2>2. [name |-> name, depth |-> -1, read_only |-> TRUE] \in Local
    BY DEF Local
  <2>3. locals \in Seq(Local)
    BY <2>1, <2>2
  <2>4. AddLocal(p, name) = With(p, c)
    BY <1>2, <2>1 DEF AddLocal, With, InScope, Parser, FunctionCompiler
  <2> HIDE DEF locals
  <2>5. c \in FunctionCompiler /\ c.scope_depth = p.c.scope_depth /\ c.main = p.c.main
    BY <2>1, <2>3, InScopeType
  <2> HIDE DEF c
  <2> QED BY <2>4, <2>5, WithFollows
<1> QED BY <1>1, <1>2

\* The locals with the last one marked.
Marked(p, read_only) ==
    Replaced(p.c.locals, Len(p.c.locals),
             [p.c.locals[Len(p.c.locals)] EXCEPT !.depth = p.c.scope_depth,
                                                 !.read_only = read_only])

LEMMA MarkInitializedFollows ==
    ASSUME NEW p, Fine(p), NEW read_only \in BOOLEAN
    PROVE  /\ Marked(p, read_only) \in Seq(Local)
           /\ Len(Marked(p, read_only)) = Len(p.c.locals)
           /\ MarkInitialized(p, read_only)
                  = With(p, InScope(p.c, p.c.scope_depth, Marked(p, read_only)))
           /\ Follows(p, MarkInitialized(p, read_only))
<1> DEFINE locals == p.c.locals
           last == Len(locals)
           local == [locals[last] EXCEPT !.depth = p.c.scope_depth, !.read_only = read_only]
           marked == Marked(p, read_only)
           c == InScope(p.c, p.c.scope_depth, marked)
<1>1. p.c \in FunctionCompiler /\ locals \in Seq(Local) /\ p.c.scope_depth \in Nat /\ p \in Parser
  BY DEF Fine, Parser, FunctionCompiler
<1>2. marked \in Seq(Local) /\ Len(marked) = Len(locals)
  <2>1. CASE last = 0
    <3>1. last \notin 1 .. Len(locals)
      BY <2>1
    <3> QED BY <1>1, <3>1, ReplacedNowhere DEF Marked
  <2>2. CASE last # 0
    <3>1. locals[last] \in Local
      BY <1>1, <2>2
    <3>5. p.c.scope_depth \in Int
      BY <1>1
    <3>2. local \in Local
      BY <3>1, <3>5 DEF Local
    <3>3. marked = Replaced(locals, last, local)
      BY DEF Marked
    <3>4. last \in Int
      BY <1>1
    <3> HIDE DEF local, marked
    <3> QED BY <1>1, <3>2, <3>3, <3>4, ReplacedItem
  <2>3. last \in Nat
    BY <1>1
  <2> QED BY <2>1, <2>2, <2>3
<1>3. MarkInitialized(p, read_only) = With(p, c)
  <2>1. MarkInitialized(p, read_only) = [p EXCEPT !.c = [p.c EXCEPT !.locals = marked]]
    BY DEF MarkInitialized, Marked, Replaced
  <2> HIDE DEF marked
  <2>2. [p.c EXCEPT !.locals = marked] = c
    BY <1>1 DEF InScope, FunctionCompiler
  <2> QED BY <2>1, <2>2 DEF With
<1> HIDE DEF marked
<1>4. c \in FunctionCompiler /\ c.scope_depth = p.c.scope_depth /\ c.main = p.c.main
  BY <1>1, <1>2, InScopeType
<1> HIDE DEF c
<1>5. Follows(p, With(p, c))
  BY <1>4, WithFollows
<1> QED BY <1>2, <1>3, <1>5 DEF marked, c

LEMMA ReadNameFollows ==
    ASSUME NEW p, Fine(p)
    PROVE  /\ Follows(p, ReadName(p).p)
           /\ ReadName(p).index \in Int
           /\ p.c.scope_depth = 0 => ReadName(p).index \in Nat
<1> DEFINE name == p.previous.text
           q == IF \E i \in InThisScope(p) : p.c.locals[i].name = name THEN SyntaxError(p) ELSE p
<1>1. name \in Int
  BY TokenFields DEF Fine, Parser
<1>2. String(name) \in Value
  BY <1>1, StringIsValue
<1>3. Follows(p, q)
  BY SyntaxErrorFollows, FollowsItself
<1> HIDE DEF name, q
<1>4. Follows(p, AddLocal(q, name))
  BY <1>1, <1>3, AddLocalFollows, FollowsOn DEF Follows
<1>5. CASE p.c.scope_depth = 0
  BY <1>2, <1>5, RegisterConstantFollows, ConstantIndexIsNat DEF ReadName, DeclareName, name
<1>6. CASE p.c.scope_depth # 0
  BY <1>4, <1>6 DEF ReadName, DeclareName, name, q
<1> QED BY <1>5, <1>6

LEMMA ParseVariableFollows ==
    ASSUME NEW p, Fine(p)
    PROVE  /\ Follows(p, ParseVariable(p).p)
           /\ ParseVariable(p).index \in Int
           /\ p.c.scope_depth = 0 => ParseVariable(p).index \in Nat
<1> DEFINE q == Consume(p, "IDENTIFIER")
<1>1. Follows(p, q)
  BY ConsumeFollows
<1> HIDE DEF q
<1>2. Follows(q, ReadName(q).p)
  BY <1>1, ReadNameFollows DEF Follows
<1>3. ReadName(q).index \in Int /\ (q.c.scope_depth = 0 => ReadName(q).index \in Nat)
  BY <1>1, ReadNameFollows DEF Follows
<1>4. q.c.scope_depth = p.c.scope_depth
  BY <1>1 DEF Follows
<1> QED BY <1>1, <1>2, <1>3, <1>4, FollowsOn DEF ParseVariable, q

LEMMA DeclareGlobalFollows ==
    ASSUME NEW p, Fine(p), NEW index \in Nat, NEW read_only
    PROVE  Follows(p, DeclareGlobal(p, index, read_only))
<1>1. {"DECL_GLOBAL_CONST", "DECL_GLOBAL_CONST_16", "DECL_GLOBAL", "DECL_GLOBAL_16"} \subseteq Ops
  BY OpsListed DEF GlobalOps, DeclGlobalOps
<1> QED BY <1>1, EmitIndexedFollows DEF DeclareGlobal

LEMMA DefineVariableFollows ==
    ASSUME NEW p, Fine(p), NEW index \in Int, p.c.scope_depth = 0 => index \in Nat,
           NEW read_only \in BOOLEAN
    PROVE  Follows(p, DefineVariable(p, index, read_only))
<1>1. p.c.scope_depth \in Nat
  BY DEF Fine, Parser, FunctionCompiler
<1> QED BY <1>1, MarkInitializedFollows, DeclareGlobalFollows DEF DefineVariable

LEMMA CountParameterFollows ==
    ASSUME NEW p, Fine(p)
    PROVE  LET c == [p.c EXCEPT !.arity = @ + 1]
           IN  /\ Follows(p, With(p, c)) /\ c \in FunctionCompiler
               /\ Follows(p, CountParameter(p))
               /\ CountParameter(p).errored \/ CountParameter(p) = With(p, c)
<1> DEFINE c == [p.c EXCEPT !.arity = @ + 1]
<1>1. p.c \in FunctionCompiler /\ p \in Parser /\ p.c.arity \in Nat
  BY DEF Fine, Parser, FunctionCompiler
<1>2. c \in FunctionCompiler /\ c.scope_depth = p.c.scope_depth /\ c.main = p.c.main
  <2> DEFINE arity == p.c.arity + 1
  <2>1. arity \in Nat
    BY <1>1
  <2> HIDE DEF arity
  <2>2. c = [p.c EXCEPT !.arity = arity]
    BY <1>1 DEF arity, FunctionCompiler
  <2> QED BY <1>1, <2>1, <2>2 DEF FunctionCompiler
<1>3. [p EXCEPT !.c.arity = @ + 1] = With(p, c)
  BY <1>1 DEF With, Parser, FunctionCompiler
<1> HIDE DEF c
<1>4. Follows(p, With(p, c))
  BY <1>2, WithFollows
<1>5. CountParameter(p) = ErrorAtCurrent(With(p, c)) \/ CountParameter(p) = With(p, c)
  BY <1>3 DEF CountParameter
<1>6. Follows(With(p, c), ErrorAtCurrent(With(p, c))) /\ ErrorAtCurrent(With(p, c)).errored
  BY <1>4, ErrorAtCurrentFollows DEF Follows
<1>7. Follows(p, CountParameter(p))
  BY <1>4, <1>5, <1>6, FollowsOn
<1> QED BY <1>2, <1>4, <1>5, <1>6, <1>7 DEF c
-----------------------------------------------------------------------------
(* Calls.  A goal may need as many as three for each token that is left, and *)
(* its rank: a block calls a declaration, that calls an expression, before a *)
(* token has been read.                                                      *)

Rank(goal) ==
    IF goal \in {"expression", "infix", "parameters", "synchronize"} THEN 0
    ELSE IF goal \in {"block", "declarations"} THEN 2 ELSE 1

\* Those that always read something.
ReadingGoals == {"expression", "ARRAY", "CALL", "statement", "declaration"}

\* What a call of the goal does.
Done(goal, p, q) == Follows(p, q) /\ (goal \in ReadingGoals => Reads(p, q))

\* What may be asked of parse with so many calls.
Serves(parse, calls) ==
    \A goal \in Goals, p \in Parser, number \in Nat :
        /\ Fine(p) /\ 3 * Left(p) + Rank(goal) < calls
        /\ goal \in {"expression", "infix"} => number # 0
        => Done(goal, p, parse[goal, p, number])

\* There are calls enough for what is left of the source, and some more.
Room(parse, p, more) ==
    \E calls \in Nat : Serves(parse, calls) /\ 3 * Left(p) + more <= calls

\* Calls that are enough stay enough further on.
LEMMA RoomAfter ==
    ASSUME NEW parse, NEW p, NEW q, Fine(p), Follows(p, q), NEW more \in Nat,
           Room(parse, p, more), NEW fewer \in 0 .. more
    PROVE  Room(parse, q, fewer)
<1>1. PICK calls \in Nat : Serves(parse, calls) /\ 3 * Left(p) + more <= calls
  BY DEF Room
<1>2. Left(p) \in Nat /\ Left(q) \in Nat /\ Left(q) <= Left(p)
  BY LeftIsNat DEF Follows
<1>3. 3 * Left(q) + fewer <= calls
  BY <1>1, <1>2
<1> QED BY <1>1, <1>3 DEF Room

\* A token that is passed makes room for three calls more.
LEMMA RoomPast ==
    ASSUME NEW parse, NEW p, NEW q, Fine(p), Fine(q), Left(q) < Left(p), NEW more \in Nat,
           Room(parse, p, more), NEW fewer \in 0 .. more + 3
    PROVE  Room(parse, q, fewer)
<1>1. PICK calls \in Nat : Serves(parse, calls) /\ 3 * Left(p) + more <= calls
  BY DEF Room
<1>2. Left(p) \in Nat /\ Left(q) \in Nat
  BY LeftIsNat
<1>3. 3 * Left(q) + fewer <= calls
  BY <1>1, <1>2
<1> QED BY <1>1, <1>3 DEF Room

\* What may be asked is done.
LEMMA Served ==
    ASSUME NEW parse, NEW p, Fine(p), NEW goal \in Goals, NEW number \in Nat,
           goal \in {"expression", "infix"} => number # 0,
           Room(parse, p, Rank(goal) + 1)
    PROVE  Done(goal, p, parse[goal, p, number])
<1>1. PICK calls \in Nat : Serves(parse, calls) /\ 3 * Left(p) + (Rank(goal) + 1) <= calls
  BY DEF Room
<1>2. Left(p) \in Nat /\ Rank(goal) \in Nat
  BY LeftIsNat DEF Rank
<1>3. 3 * Left(p) + Rank(goal) < calls
  BY <1>1, <1>2
<1> QED BY <1>1, <1>3 DEF Serves, Fine
-----------------------------------------------------------------------------
(* Expressions. *)

LEMMA ExpressionAt ==
    ASSUME NEW parse, NEW p, Fine(p), NEW precedence \in Nat \ {0}, Room(parse, p, 1)
    PROVE  Reads(p, parse["expression", p, precedence])
<1>1. "expression" \in Goals /\ Rank("expression") + 1 = 1 /\ "expression" \in ReadingGoals
  BY DEF Goals, Rank, ReadingGoals
<1> QED BY <1>1, Served DEF Done

LEMMA ExpressionReads ==
    ASSUME NEW parse, NEW p, Fine(p), Room(parse, p, 1)
    PROVE  Reads(p, Expression(parse, p))
<1>1. PREC_ASSIGNMENT \in Nat \ {0}
  BY DEF PREC_ASSIGNMENT
<1> QED BY <1>1, ExpressionAt DEF Expression

\* The parts of an operator come one after the other.
LEMMA ExpressionFollows ==
    ASSUME NEW parse, NEW p, Fine(p), Room(parse, p, 1)
    PROVE  Follows(p, Expression(parse, p)) /\ Fine(Expression(parse, p))
BY ExpressionReads DEF Reads, Follows

LEMMA ClosingOps ==
    /\ DOMAIN Closing = {"ARRAY", "CALL"}
    /\ DOMAIN Closing \subseteq Ops
    /\ DOMAIN Closing \subseteq Goals
    /\ \A op \in DOMAIN Closing : Rank(op) = 1 /\ op \in ReadingGoals
BY OpsListed DEF Closing, Goals, Rank, ReadingGoals

LEMMA EndItemsFollows ==
    ASSUME NEW p, Fine(p), NEW op \in DOMAIN Closing, NEW count \in Nat
    PROVE  Follows(p, EndItems(p, op, count))
<1>1. << Code(op), count >> \in Seq(Nat)
  BY ClosingOps, CodeOfOp
<1>2. Follows(p, Consume(p, Closing[op]))
  BY ConsumeFollows
<1>3. Follows(Consume(p, Closing[op]), EndItems(p, op, count))
  BY <1>1, <1>2, EmitFollows DEF EndItems, Follows
<1> QED BY <1>2, <1>3, FollowsOn

LEMMA CallItems ==
    ASSUME NEW parse, NEW p, Fine(p), NEW op \in DOMAIN Closing, NEW count \in Nat,
           Room(parse, p, 2)
    PROVE  Reads(p, parse[op, p, count])
<1>1. op \in Goals /\ Rank(op) + 1 = 2 /\ op \in ReadingGoals /\ op \notin {"expression", "infix"}
  BY ClosingOps
<1> QED BY <1>1, Served DEF Done

\* A token that is not the end of the source leaves room for more calls.
LEMMA RoomAfterToken ==
    ASSUME NEW parse, NEW p, Fine(p), p.current.type # "EOF", NEW more \in Nat,
           Room(parse, p, more), NEW fewer \in 0 .. more + 3
    PROVE  Room(parse, Advance(p), fewer)
BY AdvanceReads, AdvancePasses, RoomPast DEF Reads, Follows

LEMMA AdvanceFollows ==
    ASSUME NEW p, Fine(p)
    PROVE  Follows(p, Advance(p)) /\ Fine(Advance(p))
BY AdvanceReads DEF Reads, Follows

LEMMA AfterItemFollows ==
    ASSUME NEW parse, NEW p, Fine(p), NEW op \in DOMAIN Closing, NEW count \in Nat,
           Room(parse, p, 0)
    PROVE  Follows(p, AfterItem(parse, p, op, count))
<1>1. CASE Check(p, "COMMA")
  <2>1. p.current.type # "EOF"
    BY <1>1 DEF Check
  <2>2. Room(parse, Advance(p), 2)
    BY <2>1, RoomAfterToken
  <2>3. Follows(Advance(p), parse[op, Advance(p), count])
    BY <2>2, AdvanceFollows, CallItems DEF Reads
  <2> QED BY <1>1, <2>3, AdvanceFollows, FollowsOn DEF AfterItem
<1>2. CASE ~Check(p, "COMMA")
  BY <1>2, EndItemsFollows DEF AfterItem
<1> QED BY <1>1, <1>2

LEMMA ParseItemsReads ==
    ASSUME NEW parse, NEW p, Fine(p), NEW op \in DOMAIN Closing, NEW count \in Nat,
           Room(parse, p, 1)
    PROVE  Reads(p, ParseItems(parse, p, op, count))
<1> DEFINE q == Expression(parse, p)
           r == CountItem(q, count)
           next == (count + 1) % ByteSize
<1>1. Reads(p, q) /\ Follows(p, q)
  BY ExpressionReads DEF Reads
<1>2. Follows(q, r)
  BY <1>1, SyntaxErrorFollows, FollowsItself DEF CountItem, Follows
<1>3. Reads(p, r) /\ Follows(p, r)
  BY <1>1, <1>2, ReadsThenFollows DEF Reads
<1>4. Room(parse, r, 0)
  BY <1>3, RoomAfter
<1>5. next \in Nat
  BY ByteSizeIsNat
<1> HIDE DEF next, q, r
<1>6. Follows(r, AfterItem(parse, r, op, next))
  BY <1>3, <1>4, <1>5, AfterItemFollows DEF Follows
<1> QED BY <1>3, <1>6, ReadsThenFollows DEF ParseItems, next, q, r

LEMMA ItemListFollows ==
    ASSUME NEW parse, NEW p, Fine(p), NEW op \in DOMAIN Closing, Room(parse, p, 2)
    PROVE  Follows(p, ItemList(parse, p, op))
BY EndItemsFollows, CallItems DEF ItemList, Reads

LEMMA RuleGroupingFollows ==
    ASSUME NEW parse, NEW p, Fine(p), Room(parse, p, 1)
    PROVE  Follows(p, RuleGrouping(parse, p))
BY ExpressionFollows, ConsumeFollows, FollowsOn DEF RuleGrouping

LEMMA RuleNumberFollows ==
    ASSUME NEW p, Fine(p), NEW n \in Int
    PROVE  Follows(p, RuleNumber(p, n))
<1>1. "ZERO" \in Ops /\ "ONE" \in Ops
  BY OpsListed DEF Literals
<1> QED BY <1>1, EmitOpFollows, EmitConstantFollows, NumberIsValue DEF RuleNumber

LEMMA LocalVariableFollows ==
    ASSUME NEW parse, NEW p, Fine(p), NEW slot \in Nat, NEW assignable, Room(parse, p, 0)
    PROVE  Follows(p, LocalVariable(parse, p, slot, assignable))
<1> DEFINE q == Advance(p)
           r == Expression(parse, q)
<1>1. << Code("SET_LOCAL"), slot >> \in Seq(Nat) /\ << Code("GET_LOCAL"), slot >> \in Seq(Nat)
  BY OpsListed, CodeOfOp
<1>2. Follows(p, q) /\ Fine(q) /\ Follows(p, SyntaxError(q))
  BY AdvanceFollows, SyntaxErrorFollows, FollowsOn
<1>3. CASE assignable /\ Check(p, "EQUAL")
  <2>1. Room(parse, q, 1)
    BY <1>3, RoomAfterToken DEF Check
  <2>2. Follows(q, r) /\ Fine(r)
    BY <1>2, <2>1, ExpressionFollows
  <2>3. Follows(p, Emit(r, << Code("SET_LOCAL"), slot >>))
    BY <1>1, <1>2, <2>2, EmitFollows, FollowsOn
  <2> QED BY <1>2, <1>3, <2>3 DEF LocalVariable
<1>4. CASE ~(assignable /\ Check(p, "EQUAL"))
  BY <1>1, <1>4, EmitFollows DEF LocalVariable
<1> QED BY <1>3, <1>4

LEMMA GlobalVariableFollows ==
    ASSUME NEW parse, NEW p, Fine(p), NEW name \in Int, NEW assignable, Room(parse, p, 0)
    PROVE  Follows(p, GlobalVariable(parse, p, name, assignable))
<1> DEFINE index == ConstantIndex(p, String(name))
           registered == RegisterConstant(p, String(name))
           q == IF index > UINT16_MAX THEN SyntaxError(registered) ELSE registered
           r == Expression(parse, Advance(q))
<1>1. {"SET_GLOBAL", "SET_GLOBAL_16", "GET_GLOBAL", "GET_GLOBAL_16"} \subseteq Ops
  BY OpsListed DEF GlobalOps, SetGlobalOps, GetGlobalOps
<1>2. index \in Nat
  BY ConstantIndexIsNat
<1>3. Follows(p, registered)
  BY StringIsValue, RegisterConstantFollows
<1>4. Follows(p, q) /\ Fine(q)
  BY <1>3, SyntaxErrorFollows, FollowsOn DEF Follows
<1>5. GlobalVariable(parse, p, name, assignable) =
        IF assignable /\ Check(q, "EQUAL") THEN EmitIndexed(r, "SET_GLOBAL", "SET_GLOBAL_16", index)
        ELSE EmitIndexed(q, "GET_GLOBAL", "GET_GLOBAL_16", index)
  BY DEF GlobalVariable
<1> HIDE DEF index, registered, q
<1>6. CASE assignable /\ Check(q, "EQUAL")
  <2>1. Room(parse, q, 0)
    BY <1>4, RoomAfter
  <2>2. Room(parse, Advance(q), 1)
    BY <1>4, <1>6, <2>1, RoomAfterToken DEF Check
  <2>3. Follows(q, Advance(q)) /\ Follows(Advance(q), r) /\ Fine(r) /\ Fine(Advance(q))
    BY <1>4, <2>2, AdvanceFollows, ExpressionFollows
  <2>4. Follows(p, r)
    BY <1>4, <2>3, FollowsOn
  <2>5. Follows(r, EmitIndexed(r, "SET_GLOBAL", "SET_GLOBAL_16", index))
    BY <1>1, <1>2, <2>3, EmitIndexedFollows
  <2> QED BY <1>5, <1>6, <2>4, <2>5, FollowsOn
<1>7. CASE ~(assignable /\ Check(q, "EQUAL"))
  <2>1. Follows(q, EmitIndexed(q, "GET_GLOBAL", "GET_GLOBAL_16", index))
    BY <1>1, <1>2, <1>4, EmitIndexedFollows
  <2> QED BY <1>4, <1>5, <1>7, <2>1, FollowsOn
<1> QED BY <1>6, <1>7

LEMMA GetLocalVariableType ==
    ASSUME NEW c \in FunctionCompiler, NEW name
    PROVE  LET slot == GetLocalVariable(c, name)
           IN  \/ slot = -1
               \/ /\ slot \in 0 .. Len(c.locals) - 1
                  /\ slot + 1 \in 1 .. Len(c.locals)
                  /\ c.locals[slot + 1].name = name
<1> DEFINE named == {i \in DOMAIN c.locals : c.locals[i].name = name}
<1>1. DOMAIN c.locals = 1 .. Len(c.locals) /\ Len(c.locals) \in Nat
  BY DEF FunctionCompiler
<1>2. named \in SUBSET (0 .. Len(c.locals))
  BY <1>1
<1>3. GetLocalVariable(c, name) = IF named = {} THEN -1 ELSE Max(named) - 1
  BY DEF GetLocalVariable
<1>4. named # {} => Max(named) \in named
  <2> HIDE DEF named
  <2> QED BY <1>1, <1>2, MaxOfNats
<1>5. CASE named # {}
  <2>1. Max(named) \in 1 .. Len(c.locals) /\ c.locals[Max(named)].name = name
    BY <1>1, <1>4, <1>5
  <2> HIDE DEF named
  <2>2. (Max(named) - 1) + 1 = Max(named)
    BY <2>1
  <2> QED BY <1>1, <1>3, <1>5, <2>1, <2>2
<1> QED BY <1>3, <1>5

LEMMA RuleVariableFollows ==
    ASSUME NEW parse, NEW p, Fine(p), NEW assignable, Room(parse, p, 0)
    PROVE  Follows(p, RuleVariable(parse, p, assignable))
<1> DEFINE name == p.previous.text
           slot == GetLocalVariable(p.c, name)
           q == IF p.c.locals[slot + 1].depth = -1 THEN SyntaxError(p) ELSE p
<1>1. name \in Int
  BY TokenFields DEF Fine, Parser
<1>2. slot = -1 \/ slot \in Nat
  BY GetLocalVariableType DEF Fine, Parser
<1>3. Follows(p, q) /\ Fine(q)
  BY SyntaxErrorFollows, FollowsItself DEF Follows
<1>4. RuleVariable(parse, p, assignable) =
        IF slot = -1 THEN GlobalVariable(parse, p, name, assignable)
        ELSE LocalVariable(parse, q, slot, assignable)
  BY DEF RuleVariable
<1> HIDE DEF name, slot, q
<1>5. Room(parse, q, 0)
  BY <1>3, RoomAfter
<1>6. slot \in Nat => Follows(p, LocalVariable(parse, q, slot, assignable))
  BY <1>3, <1>5, LocalVariableFollows, FollowsOn
<1> QED BY <1>1, <1>2, <1>4, <1>6, GlobalVariableFollows

LEMMA RuleShortCircuitFollows ==
    ASSUME NEW parse, NEW p, Fine(p), NEW op \in Ops, NEW precedence \in Nat \ {0},
           Room(parse, p, 1)
    PROVE  Follows(p, RuleShortCircuit(parse, p, op, precedence))
<1> DEFINE q == EmitJump(p, op)
           r == EmitOp(q, "POP")
           s == parse["expression", r, precedence]
<1>1. Follows(p, q) /\ JumpOffset(q) \in Int /\ Fine(q)
  BY EmitJumpFollows DEF Follows
<1>2. Follows(p, r) /\ Fine(r)
  BY <1>1, OpsListed, EmitOpFollows, FollowsOn DEF Follows
<1>3. Room(parse, r, 1)
  BY <1>2, RoomAfter
<1>4. Follows(r, s) /\ Fine(s)
  <2> HIDE DEF r
  <2>1. Reads(r, s)
    BY <1>2, <1>3, ExpressionAt
  <2> QED BY <2>1 DEF Reads, Follows
<1>5. Follows(s, PatchJump(s, JumpOffset(q)))
  BY <1>1, <1>4, PatchJumpFollows
<1> QED BY <1>2, <1>4, <1>5, FollowsOn DEF RuleShortCircuit

LEMMA RuleSubscriptFollows ==
    ASSUME NEW parse, NEW p, Fine(p), NEW assignable, Room(parse, p, 1)
    PROVE  Follows(p, RuleSubscript(parse, p, assignable))
<1> DEFINE q == Consume(Expression(parse, p), "RIGHT_BRACKET")
           r == Expression(parse, Advance(q))
<1>1. Follows(p, q) /\ Fine(q)
  BY ExpressionFollows, ConsumeFollows, FollowsOn DEF Follows
<1>2. RuleSubscript(parse, p, assignable) =
        IF assignable /\ Check(q, "EQUAL") THEN EmitOp(r, "SUBSCRIPT_SET") ELSE EmitOp(q, "SUBSCRIPT_GET")
  BY DEF RuleSubscript
<1>3. "SUBSCRIPT_SET" \in Ops /\ "SUBSCRIPT_GET" \in Ops
  BY OpsListed
<1> HIDE DEF q
<1>4. CASE assignable /\ Check(q, "EQUAL")
  <2>1. Room(parse, q, 0)
    BY <1>1, RoomAfter
  <2>2. Room(parse, Advance(q), 1)
    BY <1>1, <1>4, <2>1, RoomAfterToken DEF Check
  <2>3. Follows(q, Advance(q)) /\ Follows(Advance(q), r) /\ Fine(r) /\ Fine(Advance(q))
    BY <1>1, <2>2, AdvanceFollows, ExpressionFollows
  <2>4. Follows(r, EmitOp(r, "SUBSCRIPT_SET"))
    BY <1>3, <2>3, EmitOpFollows
  <2> QED BY <1>1, <1>2, <1>4, <2>3, <2>4, FollowsOn
<1>5. CASE ~(assignable /\ Check(q, "EQUAL"))
  BY <1>1, <1>2, <1>3, <1>5, EmitOpFollows, FollowsOn
<1> QED BY <1>4, <1>5

LEMMA OperatorTables ==
    /\ DOMAIN UnaryCode = {"BANG", "PLUS", "MINUS"}
    /\ \A type \in DOMAIN UnaryCode : UnaryCode[type] \in UnaryOps
    /\ \A type \in DOMAIN BinaryCode : BinaryCode[type] \in BinaryOps
BY DEF UnaryCode, BinaryCode, UnaryOps, BinaryOps

\* An operator is written after its last operand.
LEMMA OperandThenOp ==
    ASSUME NEW parse, NEW p, Fine(p), NEW precedence \in Nat \ {0}, NEW op \in Ops,
           Room(parse, p, 1)
    PROVE  Follows(p, EmitOp(parse["expression", p, precedence], op))
<1> DEFINE q == parse["expression", p, precedence]
<1>1. Reads(p, q)
  BY ExpressionAt
<1> HIDE DEF q
<1>2. Follows(p, q) /\ Fine(q)
  BY <1>1 DEF Reads, Follows
<1>3. Follows(p, EmitOp(q, op))
  BY <1>2, EmitOpFollows, FollowsOn
<1> QED BY <1>3 DEF q

LEMMA PrefixRuleFollows ==
    ASSUME NEW parse, NEW p, Fine(p), NEW assignable, p.previous.type \in PrefixTokens,
           Room(parse, p, 2)
    PROVE  Follows(p, PrefixRule(parse, p, assignable))
<1> DEFINE type == p.previous.type
<1>1. Room(parse, p, 1) /\ Room(parse, p, 0)
  BY RoomAfter, FollowsItself
<1>2. p.previous.text \in Int
  BY TokenFields DEF Fine, Parser
<1>3. CASE type = "LEFT_PAREN"
  BY <1>1, <1>3, RuleGroupingFollows, OperatorTables DEF PrefixRule
<1>4. CASE type = "LEFT_BRACKET"
  BY <1>4, ItemListFollows, ClosingOps, OperatorTables DEF PrefixRule
<1>5. CASE type \in DOMAIN UnaryCode
  <2>1. PREC_UNARY \in Nat \ {0} /\ UnaryCode[type] \in Ops
    BY <1>5, OpsListed, OperatorTables DEF PREC_UNARY
  <2>2. PrefixRule(parse, p, assignable)
            = EmitOp(parse["expression", p, PREC_UNARY], UnaryCode[type])
    BY <1>5, OperatorTables DEF PrefixRule
  <2> QED BY <1>1, <2>1, <2>2, OperandThenOp
<1>6. CASE type = "IDENTIFIER"
  BY <1>1, <1>6, RuleVariableFollows, OperatorTables DEF PrefixRule
<1>7. CASE type = "STRING"
  BY <1>2, <1>7, EmitConstantFollows, StringIsValue, OperatorTables DEF PrefixRule
<1>8. CASE type = "NUMBER"
  BY <1>2, <1>8, RuleNumberFollows, OperatorTables DEF PrefixRule
<1>9. CASE type \in {"FALSE", "NULL", "TRUE"}
  <2>1. type \in Ops
    BY <1>9, OpsListed DEF Literals
  <2> QED BY <1>9, <2>1, EmitOpFollows, OperatorTables DEF PrefixRule
<1> QED BY <1>3, <1>4, <1>5, <1>6, <1>7, <1>8, <1>9, OperatorTables DEF PrefixTokens

LEMMA PrecedenceOfOperators ==
    /\ \A type : Precedence(type) \in Nat
    /\ \A type : Precedence(type) # 0 =>
           \/ type \in {"LEFT_PAREN", "LEFT_BRACKET", "AMPER_AMPER", "PIPE_PIPE"}
           \/ type \in DOMAIN BinaryCode
    /\ DOMAIN BinaryCode \cap {"LEFT_PAREN", "LEFT_BRACKET", "AMPER_AMPER", "PIPE_PIPE"} = {}
    /\ Precedence("EOF") = 0
BY DEF Precedence, BinaryCode, PREC_OR, PREC_AND

LEMMA InfixRuleFollows ==
    ASSUME NEW parse, NEW p, Fine(p), NEW assignable, Precedence(p.previous.type) # 0,
           Room(parse, p, 2)
    PROVE  Follows(p, InfixRule(parse, p, assignable))
<1> DEFINE type == p.previous.type
<1>1. Room(parse, p, 1)
  BY RoomAfter, FollowsItself
<1>2. CASE type = "LEFT_PAREN"
  BY <1>2, ItemListFollows, ClosingOps, PrecedenceOfOperators DEF InfixRule
<1>3. CASE type = "LEFT_BRACKET"
  BY <1>1, <1>3, RuleSubscriptFollows, PrecedenceOfOperators DEF InfixRule
<1>4. CASE type = "AMPER_AMPER"
  <2>1. InfixRule(parse, p, assignable) = RuleShortCircuit(parse, p, "JUMP_IF_FALSE", PREC_AND)
    BY <1>4, PrecedenceOfOperators DEF InfixRule
  <2>2. PREC_AND \in Nat \ {0} /\ "JUMP_IF_FALSE" \in Ops
    BY OpsListed DEF PREC_AND
  <2> QED BY <1>1, <2>1, <2>2, RuleShortCircuitFollows
<1>5. CASE type = "PIPE_PIPE"
  <2>1. InfixRule(parse, p, assignable) = RuleShortCircuit(parse, p, "JUMP_IF_TRUE", PREC_OR)
    BY <1>5, PrecedenceOfOperators DEF InfixRule
  <2>2. PREC_OR \in Nat \ {0} /\ "JUMP_IF_TRUE" \in Ops
    BY OpsListed DEF PREC_OR
  <2> QED BY <1>1, <2>1, <2>2, RuleShortCircuitFollows
<1>6. CASE type \in DOMAIN BinaryCode
  <2>1. Precedence(type) + 1 \in Nat \ {0}
    BY PrecedenceOfOperators
  <2>2. BinaryCode[type] \in Ops
    BY <1>6, OpsListed, OperatorTables
  <2>3. type \notin {"LEFT_PAREN", "LEFT_BRACKET", "AMPER_AMPER", "PIPE_PIPE"}
    BY <1>6, PrecedenceOfOperators
  <2>4. InfixRule(parse, p, assignable)
            = EmitOp(parse["expression", p, Precedence(type) + 1], BinaryCode[type])
    BY <1>6, <2>3 DEF InfixRule
  <2> QED BY <1>1, <2>1, <2>2, <2>4, OperandThenOp
<1> QED BY <1>2, <1>3, <1>4, <1>5, <1>6, PrecedenceOfOperators

LEMMA InfixAt ==
    ASSUME NEW parse, NEW p, Fine(p), NEW precedence \in Nat \ {0}, Room(parse, p, 1)
    PROVE  Follows(p, parse["infix", p, precedence])
<1>1. "infix" \in Goals /\ Rank("infix") + 1 = 1
  BY DEF Goals, Rank
<1> QED BY <1>1, Served DEF Done

LEMMA InfixRulesFollows ==
    ASSUME NEW parse, NEW p, Fine(p), NEW precedence \in Nat \ {0}, Room(parse, p, 0)
    PROVE  Follows(p, InfixRules(parse, p, precedence))
<1> DEFINE q == Advance(p)
           r == InfixRule(parse, q, Assignable(precedence))
<1>1. CASE precedence <= Precedence(p.current.type)
  <2>1. Precedence(p.current.type) # 0 /\ p.current.type # "EOF"
    BY <1>1, PrecedenceOfOperators
  <2>2. Follows(p, q) /\ Fine(q) /\ q.previous = p.current
    BY AdvanceFollows, AdvanceReads
  <2>3. Room(parse, q, 2)
    BY <2>1, RoomAfterToken
  <2>4. Follows(q, r) /\ Fine(r)
    BY <2>1, <2>2, <2>3, InfixRuleFollows DEF Follows
  <2>5. Room(parse, r, 1)
    BY <2>2, <2>3, <2>4, RoomAfter
  <2> HIDE DEF r
  <2>6. Follows(r, parse["infix", r, precedence])
    BY <2>4, <2>5, InfixAt
  <2>7. Follows(p, parse["infix", r, precedence])
    BY <2>2, <2>4, <2>6, FollowsOn
  <2> QED BY <1>1, <2>7 DEF InfixRules, r
<1>2. CASE ~(precedence <= Precedence(p.current.type))
  BY <1>2, FollowsItself DEF InfixRules
<1> QED BY <1>1, <1>2

LEMMA RefuseAssignmentFollows ==
    ASSUME NEW p, Fine(p), NEW assignable
    PROVE  Follows(p, RefuseAssignment(p, assignable))
BY AdvanceFollows, SyntaxErrorFollows, FollowsItself, FollowsOn DEF RefuseAssignment

LEMMA AfterFirstFollows ==
    ASSUME NEW parse, NEW p, Fine(p), NEW precedence \in Nat \ {0},
           p.previous.type \in PrefixTokens => Room(parse, p, 2)
    PROVE  Follows(p, AfterFirst(parse, p, precedence))
<1> DEFINE q == PrefixRule(parse, p, Assignable(precedence))
           r == parse["infix", q, precedence]
<1>1. CASE p.previous.type \notin PrefixTokens
  BY <1>1, SyntaxErrorFollows DEF AfterFirst
<1>2. CASE p.previous.type \in PrefixTokens
  <2>1. Follows(p, q) /\ Fine(q)
    BY <1>2, PrefixRuleFollows DEF Follows
  <2>2. Room(parse, q, 1)
    BY <1>2, <2>1, RoomAfter
  <2> HIDE DEF q
  <2>3. Follows(q, r)
    BY <2>1, <2>2, InfixAt
  <2>4. Follows(p, r) /\ Fine(r)
    BY <2>1, <2>3, FollowsOn DEF Follows
  <2> HIDE DEF r
  <2>5. Follows(p, RefuseAssignment(r, Assignable(precedence)))
    BY <2>4, RefuseAssignmentFollows, FollowsOn
  <2> QED BY <1>2, <2>5 DEF AfterFirst, q, r
<1> QED BY <1>1, <1>2

\* An expression reads at least a token.
LEMMA ParsePrecedenceReads ==
    ASSUME NEW parse, NEW p, Fine(p), NEW precedence \in Nat \ {0}, Room(parse, p, 0)
    PROVE  Reads(p, ParsePrecedence(parse, p, precedence))
<1>1. Reads(p, Advance(p)) /\ Fine(Advance(p)) /\ Advance(p).previous = p.current
  BY AdvanceReads, AdvanceFollows
<1>2. p.current.type \in PrefixTokens => Room(parse, Advance(p), 2)
  BY RoomAfterToken DEF PrefixTokens
<1>3. Follows(Advance(p), ParsePrecedence(parse, p, precedence))
  BY <1>1, <1>2, AfterFirstFollows DEF ParsePrecedence
<1> QED BY <1>1, <1>3, ReadsThenFollows
-----------------------------------------------------------------------------
(* Statements and declarations. *)

LEMMA SynchronizeFollows ==
    ASSUME NEW parse, NEW p, Fine(p), Room(parse, p, 0)
    PROVE  Follows(p, Synchronize(parse, p))
<1> DEFINE q == Advance(p)
<1>1. CASE p.current.type = "EOF"
  BY <1>1, FollowsItself DEF Synchronize, Check
<1>2. CASE p.current.type # "EOF"
  <2>1. Follows(p, q) /\ Fine(q) /\ Room(parse, q, 1)
    BY <1>2, AdvanceFollows, RoomAfterToken
  <2>2. "synchronize" \in Goals /\ Rank("synchronize") + 1 = 1
        /\ "synchronize" \notin {"expression", "infix"}
    BY DEF Goals, Rank
  <2> HIDE DEF q
  <2>3. Follows(q, parse["synchronize", q, 0])
    BY <2>1, <2>2, Served DEF Done
  <2>4. Follows(p, parse["synchronize", q, 0])
    BY <2>1, <2>3, FollowsOn
  <2> QED BY <2>4, FollowsItself DEF Synchronize, q
<1> QED BY <1>1, <1>2

LEMMA ExpressionStatementReads ==
    ASSUME NEW parse, NEW p, Fine(p), Room(parse, p, 1)
    PROVE  Reads(p, ExpressionStatement(parse, p))
<1> DEFINE q == Expression(parse, p)
           r == Consume(q, "SEMICOLON")
<1>1. Reads(p, q) /\ Fine(q)
  BY ExpressionReads, ExpressionFollows
<1>2. Follows(q, r) /\ Fine(r)
  BY <1>1, ConsumeFollows DEF Follows
<1>3. Follows(r, EmitOp(r, "POP"))
  BY <1>2, OpsListed, EmitOpFollows
<1> QED BY <1>1, <1>2, <1>3, FollowsOn, ReadsThenFollows DEF ExpressionStatement

LEMMA InitializerFollows ==
    ASSUME NEW parse, NEW p, Fine(p), Room(parse, p, 0)
    PROVE  Follows(p, Initializer(parse, p))
<1> DEFINE q == Advance(p)
<1>1. "NULL" \in Ops
  BY OpsListed DEF Literals
<1>2. CASE Check(p, "EQUAL")
  <2>1. Room(parse, q, 1)
    BY <1>2, RoomAfterToken DEF Check
  <2>2. Follows(p, q) /\ Follows(q, Expression(parse, q))
    BY <2>1, AdvanceFollows, ExpressionFollows
  <2> QED BY <1>2, <2>2, FollowsOn DEF Initializer
<1>3. CASE ~Check(p, "EQUAL")
  BY <1>1, <1>3, EmitOpFollows DEF Initializer
<1> QED BY <1>2, <1>3

LEMMA VarDeclarationFollows ==
    ASSUME NEW parse, NEW p, Fine(p), NEW read_only \in BOOLEAN, Room(parse, p, 0)
    PROVE  Follows(p, VarDeclaration(parse, p, read_only))
<1> DEFINE v == ParseVariable(p)
           q == Initializer(parse, v.p)
           r == Consume(q, "SEMICOLON")
<1>1. Follows(p, v.p) /\ v.index \in Int /\ (p.c.scope_depth = 0 => v.index \in Nat)
  BY ParseVariableFollows
<1>2. VarDeclaration(parse, p, read_only) = DefineVariable(r, v.index, read_only)
  BY DEF VarDeclaration
<1> HIDE DEF v
<1>3. Room(parse, v.p, 0) /\ Fine(v.p)
  BY <1>1, RoomAfter DEF Follows
<1>4. Follows(v.p, q) /\ Fine(q)
  BY <1>3, InitializerFollows DEF Follows
<1>5. Follows(q, r)
  BY <1>4, ConsumeFollows
<1>6. Follows(p, r)
  BY <1>1, <1>4, <1>5, FollowsOn
<1> HIDE DEF r
<1>7. Fine(r) /\ r.c.scope_depth = p.c.scope_depth
  BY <1>6 DEF Follows
<1>8. Follows(r, DefineVariable(r, v.index, read_only))
  BY <1>1, <1>7, DefineVariableFollows
<1> QED BY <1>2, <1>6, <1>8, FollowsOn

LEMMA ParameterFollows ==
    ASSUME NEW p, Fine(p)
    PROVE  Follows(p, Parameter(p))
<1> DEFINE q == CountParameter(p)
           r == ParseVariable(q).p
<1>1. Follows(p, q) /\ Fine(q)
  BY CountParameterFollows DEF Follows
<1>2. Follows(q, r) /\ Fine(r)
  BY <1>1, ParseVariableFollows DEF Follows
<1>3. Follows(r, MarkInitialized(r, FALSE))
  BY <1>2, MarkInitializedFollows
<1> QED BY <1>1, <1>2, <1>3, FollowsOn DEF Parameter

LEMMA ParametersAt ==
    ASSUME NEW parse, NEW p, Fine(p), Room(parse, p, 1)
    PROVE  Follows(p, parse["parameters", Parameter(p), 0])
<1> DEFINE q == Parameter(p)
<1>1. Follows(p, q) /\ Fine(q)
  BY ParameterFollows DEF Follows
<1>2. Room(parse, q, 1)
  BY <1>1, RoomAfter
<1>3. "parameters" \in Goals /\ Rank("parameters") + 1 = 1
      /\ "parameters" \notin {"expression", "infix"}
  BY DEF Goals, Rank
<1> HIDE DEF q
<1>4. Follows(q, parse["parameters", q, 0])
  BY <1>1, <1>2, <1>3, Served DEF Done
<1>5. Follows(p, parse["parameters", q, 0])
  BY <1>1, <1>4, FollowsOn
<1> QED BY <1>5 DEF q

LEMMA ParametersFollows ==
    ASSUME NEW parse, NEW p, Fine(p), Room(parse, p, 0)
    PROVE  Follows(p, Parameters(parse, p))
<1>1. CASE Check(p, "COMMA")
  <2>1. Follows(p, Advance(p)) /\ Fine(Advance(p)) /\ Room(parse, Advance(p), 1)
    BY <1>1, AdvanceFollows, RoomAfterToken DEF Check
  <2> QED BY <1>1, <2>1, ParametersAt, FollowsOn DEF Parameters
<1>2. CASE ~Check(p, "COMMA")
  BY <1>2, FollowsItself DEF Parameters
<1> QED BY <1>1, <1>2

LEMMA ParameterListFollows ==
    ASSUME NEW parse, NEW p, Fine(p), Room(parse, p, 1)
    PROVE  Follows(p, ParameterList(parse, p))
BY FollowsItself, ParametersAt DEF ParameterList

LEMMA EmitFunctionFollows ==
    ASSUME NEW p, Fine(p)
    PROVE  Follows(p, EmitFunction(p))
<1>1. p.base + Len(p.functions) \in Int
  BY DEF Fine, Parser
<1> QED BY <1>1, FunctionIsValue, EmitConstantFollows DEF EmitFunction

LEMMA BlockAt ==
    ASSUME NEW parse, NEW p, Fine(p), Room(parse, p, 3)
    PROVE  Follows(p, parse["block", p, 0])
<1>1. "block" \in Goals /\ Rank("block") + 1 = 3 /\ "block" \notin {"expression", "infix"}
  BY DEF Goals, Rank
<1> QED BY <1>1, Served DEF Done

LEMMA MovesOn ==
    ASSUME NEW p, NEW q, NEW r, Fine(p), Moves(p, q) \/ Follows(p, q), Moves(q, r) \/ Follows(q, r)
    PROVE  Moves(p, r)
<1>1. Left(p) \in Nat /\ Left(q) \in Nat /\ Left(r) \in Nat
  BY LeftIsNat DEF Follows, Moves
<1> QED BY <1>1 DEF Follows, Moves

LEMMA RoomAfterMove ==
    ASSUME NEW parse, NEW p, NEW q, Fine(p), Moves(p, q), NEW more \in Nat,
           Room(parse, p, more), NEW fewer \in 0 .. more
    PROVE  Room(parse, q, fewer)
<1>1. PICK calls \in Nat : Serves(parse, calls) /\ 3 * Left(p) + more <= calls
  BY DEF Room
<1>2. Left(p) \in Nat /\ Left(q) \in Nat /\ Left(q) <= Left(p)
  BY LeftIsNat DEF Moves
<1>3. 3 * Left(q) + fewer <= calls
  BY <1>1, <1>2
<1> QED BY <1>1, <1>3 DEF Room

\* The function around the one that is read is the same when that is complete.
LEMMA ParseFunctionFollows ==
    ASSUME NEW parse, NEW p, Fine(p), Room(parse, p, 3)
    PROVE  Follows(p, ParseFunction(parse, p))
<1> DEFINE q == BeginFunction(p)
           inside == BeginScope(q)
           open == Consume(inside, "LEFT_PAREN")
           header == ParameterList(parse, open)
           close == Consume(header, "RIGHT_PAREN")
           body == Consume(close, "LEFT_BRACE")
           block == parse["block", body, 0]
           end == EndCompiler(block)
<1>1. Moves(p, q) /\ Fine(q) /\ q.enclosing = << p.c >> \o p.enclosing
  BY BeginFunctionMoves DEF Moves
<1>2. Moves(q, inside) /\ Fine(inside) /\ inside.enclosing = q.enclosing
  BY <1>1, BeginScopeMoves DEF Moves
<1>3. ParseFunction(parse, p) = EmitFunction(end)
  BY DEF ParseFunction
<1> HIDE DEF q, inside
<1>4. Moves(p, inside) /\ Room(parse, inside, 3)
  BY <1>1, <1>2, MovesOn, RoomAfterMove
<1>5. Follows(inside, open) /\ Fine(open)
  BY <1>2, ConsumeFollows DEF Follows
<1>6. Room(parse, open, 3) /\ Room(parse, open, 1)
  BY <1>2, <1>4, <1>5, RoomAfter
<1> HIDE DEF open
<1>7. Follows(open, header) /\ Fine(header)
  BY <1>5, <1>6, ParameterListFollows DEF Follows
<1>8. Follows(header, close) /\ Fine(close) /\ Follows(close, body) /\ Fine(body)
  BY <1>7, ConsumeFollows DEF Follows
<1> HIDE DEF header, close, body
<1>9. Follows(open, body)
  BY <1>5, <1>7, <1>8, FollowsOn
<1>10. Room(parse, body, 3)
  BY <1>5, <1>6, <1>9, RoomAfter
<1>11. Follows(body, block)
  BY <1>8, <1>10, BlockAt
<1> HIDE DEF block
<1>12. Follows(inside, block) /\ Fine(block)
  BY <1>2, <1>5, <1>9, <1>11, FollowsOn DEF Follows
<1>13. block.enclosing = << p.c >> \o p.enclosing
  BY <1>1, <1>2, <1>12 DEF Follows
<1>14. p.enclosing \in Seq(FunctionCompiler) /\ p.c \in FunctionCompiler
  BY DEF Fine, Parser
<1>15. block.enclosing # <<>> /\ Head(block.enclosing) = p.c /\ Tail(block.enclosing) = p.enclosing
  BY <1>13, <1>14
<1>16. Moves(block, end) /\ end.c = p.c /\ end.enclosing = p.enclosing
  BY <1>12, <1>15, EndCompilerMoves
<1> HIDE DEF end
<1>17. Moves(p, end)
  BY <1>1, <1>2, <1>4, <1>12, <1>16, MovesOn
<1>18. Follows(p, end) /\ Fine(end)
  BY <1>16, <1>17 DEF Moves, Follows
<1>19. Follows(end, EmitFunction(end))
  BY <1>18, EmitFunctionFollows
<1> QED BY <1>3, <1>18, <1>19, FollowsOn

LEMMA FunctionDeclarationFollows ==
    ASSUME NEW parse, NEW p, Fine(p), Room(parse, p, 3)
    PROVE  Follows(p, FunctionDeclaration(parse, p))
<1> DEFINE v == ParseVariable(p)
           q == MarkInitialized(v.p, FALSE)
           global == ParseFunction(parse, v.p)
           index == v.index % ByteSize
<1>1. Follows(p, v.p) /\ v.index \in Int
  BY ParseVariableFollows
<1>2. FunctionDeclaration(parse, p) =
        IF p.c.scope_depth > 0 THEN ParseFunction(parse, q) ELSE DeclareGlobal(global, index, FALSE)
  BY DEF FunctionDeclaration
<1>3. index \in Nat
  BY <1>1, ByteSizeIsNat
<1> HIDE DEF v, index
<1>4. Fine(v.p) /\ Room(parse, v.p, 3)
  BY <1>1, RoomAfter DEF Follows
<1>5. Follows(v.p, q) /\ Fine(q)
  BY <1>4, MarkInitializedFollows DEF Follows
<1> HIDE DEF q
<1>6. Room(parse, q, 3)
  BY <1>4, <1>5, RoomAfter
<1>7. Follows(p, ParseFunction(parse, q))
  BY <1>1, <1>5, <1>6, ParseFunctionFollows, FollowsOn
<1>8. Follows(p, global) /\ Fine(global)
  BY <1>1, <1>4, ParseFunctionFollows, FollowsOn DEF Follows
<1> HIDE DEF global
<1>9. Follows(p, DeclareGlobal(global, index, FALSE))
  BY <1>3, <1>8, DeclareGlobalFollows, FollowsOn
<1> QED BY <1>2, <1>7, <1>9

LEMMA ConditionFollows ==
    ASSUME NEW parse, NEW p, Fine(p), Room(parse, p, 1)
    PROVE  Follows(p, Condition(parse, p)) /\ Fine(Condition(parse, p))
           /\ JumpOffset(Condition(parse, p)) \in Int
<1> DEFINE q == Consume(p, "LEFT_PAREN")
           r == Expression(parse, q)
           s == Consume(r, "RIGHT_PAREN")
<1>1. Follows(p, q) /\ Fine(q)
  BY ConsumeFollows DEF Follows
<1>2. Room(parse, q, 1)
  BY <1>1, RoomAfter
<1>3. Follows(q, r) /\ Fine(r)
  BY <1>1, <1>2, ExpressionFollows
<1>4. Follows(r, s) /\ Fine(s)
  BY <1>3, ConsumeFollows DEF Follows
<1>5. Follows(p, s)
  BY <1>1, <1>3, <1>4, FollowsOn
<1>6. Condition(parse, p) = EmitJump(s, "JUMP_IF_FALSE")
  BY DEF Condition
<1> HIDE DEF s
<1>7. Follows(s, Condition(parse, p)) /\ JumpOffset(Condition(parse, p)) \in Int
  BY <1>4, <1>6, OpsListed, EmitJumpFollows
<1> QED BY <1>5, <1>7, FollowsOn DEF Follows

LEMMA StatementAt ==
    ASSUME NEW parse, NEW p, Fine(p), Room(parse, p, 2)
    PROVE  Reads(p, parse["statement", p, 0]) /\ Follows(p, parse["statement", p, 0])
           /\ Fine(parse["statement", p, 0])
<1>1. "statement" \in Goals /\ Rank("statement") + 1 = 2
      /\ "statement" \notin {"expression", "infix"} /\ "statement" \in ReadingGoals
  BY DEF Goals, Rank, ReadingGoals
<1>2. Done("statement", p, parse["statement", p, 0])
  BY <1>1, Served
<1> QED BY <1>1, <1>2 DEF Done, Follows

LEMMA BodyFollows ==
    ASSUME NEW parse, NEW p, Fine(p), Room(parse, p, 2)
    PROVE  Follows(p, Body(parse, p)) /\ Fine(Body(parse, p))
<1> DEFINE q == EmitOp(p, "POP")
<1>1. Follows(p, q) /\ Fine(q)
  BY OpsListed, EmitOpFollows DEF Follows
<1>2. Room(parse, q, 2)
  BY <1>1, RoomAfter
<1> HIDE DEF q
<1>3. Follows(q, parse["statement", q, 0])
  BY <1>1, <1>2, StatementAt
<1>4. Follows(p, parse["statement", q, 0])
  BY <1>1, <1>3, FollowsOn
<1> QED BY <1>4 DEF Body, q, Follows

LEMMA ElseBranchFollows ==
    ASSUME NEW parse, NEW p, Fine(p), Room(parse, p, 0)
    PROVE  Follows(p, ElseBranch(parse, p)) /\ Fine(ElseBranch(parse, p))
<1> DEFINE q == Advance(p)
<1>1. CASE Check(p, "ELSE")
  <2>1. Follows(p, q) /\ Fine(q) /\ Room(parse, q, 2)
    BY <1>1, AdvanceFollows, RoomAfterToken DEF Check
  <2>2. Follows(q, parse["statement", q, 0])
    BY <2>1, StatementAt
  <2> QED BY <1>1, <2>1, <2>2, FollowsOn DEF ElseBranch, Follows
<1>2. CASE ~Check(p, "ELSE")
  BY <1>2, FollowsItself DEF ElseBranch
<1> QED BY <1>1, <1>2

LEMMA EndIfFollows ==
    ASSUME NEW parse, NEW p, Fine(p), NEW then_jump \in Int, JumpOffset(p) \in Int,
           Room(parse, p, 0)
    PROVE  Follows(p, EndIf(parse, p, then_jump))
<1> DEFINE q == PatchJump(p, then_jump)
           r == EmitOp(q, "POP")
           s == ElseBranch(parse, r)
<1>1. Follows(p, q) /\ Fine(q)
  BY PatchJumpFollows DEF Follows
<1>2. Follows(q, r) /\ Fine(r)
  BY <1>1, OpsListed, EmitOpFollows DEF Follows
<1>3. Follows(p, r)
  BY <1>1, <1>2, FollowsOn
<1> HIDE DEF r
<1>4. Follows(r, s) /\ Fine(s)
  BY <1>2, <1>3, RoomAfter, ElseBranchFollows
<1> HIDE DEF s
<1>5. Follows(s, PatchJump(s, JumpOffset(p)))
  BY <1>4, PatchJumpFollows
<1>6. Follows(p, PatchJump(s, JumpOffset(p)))
  BY <1>3, <1>4, <1>5, FollowsOn
<1> QED BY <1>6 DEF EndIf, s, r

LEMMA IfBranchesFollows ==
    ASSUME NEW parse, NEW p, Fine(p), JumpOffset(p) \in Int, Room(parse, p, 2)
    PROVE  Follows(p, IfBranches(parse, p))
<1> DEFINE q == Body(parse, p)
           r == EmitJump(q, "JUMP")
<1>1. Follows(p, q) /\ Fine(q)
  BY BodyFollows
<1>2. Follows(q, r) /\ Fine(r) /\ JumpOffset(r) \in Int
  BY <1>1, OpsListed, EmitJumpFollows DEF Follows
<1>3. Follows(p, r)
  BY <1>1, <1>2, FollowsOn
<1> HIDE DEF r
<1>4. Room(parse, r, 0)
  BY <1>3, RoomAfter
<1>5. Follows(r, EndIf(parse, r, JumpOffset(p)))
  BY <1>2, <1>4, EndIfFollows
<1>6. Follows(p, EndIf(parse, r, JumpOffset(p)))
  BY <1>3, <1>5, FollowsOn
<1> QED BY <1>6 DEF IfBranches, r

LEMMA IfStatementFollows ==
    ASSUME NEW parse, NEW p, Fine(p), Room(parse, p, 2)
    PROVE  Follows(p, IfStatement(parse, p))
<1> DEFINE q == Condition(parse, p)
<1>1. Room(parse, p, 1)
  BY RoomAfter, FollowsItself
<1>2. Follows(p, q) /\ Fine(q) /\ JumpOffset(q) \in Int
  BY <1>1, ConditionFollows
<1> HIDE DEF q
<1>3. Follows(q, IfBranches(parse, q))
  BY <1>2, RoomAfter, IfBranchesFollows
<1>4. Follows(p, IfBranches(parse, q))
  BY <1>2, <1>3, FollowsOn
<1> QED BY <1>4 DEF IfStatement, q

LEMMA LoopFollows ==
    ASSUME NEW parse, NEW p, Fine(p), JumpOffset(p) \in Int, NEW start \in Int, Room(parse, p, 2)
    PROVE  Follows(p, Loop(parse, p, start))
<1> DEFINE q == Body(parse, p)
           r == EmitJumpBack(q, start)
           s == PatchJump(r, JumpOffset(p))
<1>1. Follows(p, q) /\ Fine(q)
  BY BodyFollows
<1>2. Follows(q, r) /\ Fine(r)
  BY <1>1, EmitJumpBackFollows DEF Follows
<1>3. Follows(r, s) /\ Fine(s)
  BY <1>2, PatchJumpFollows DEF Follows
<1>4. Follows(p, s)
  BY <1>1, <1>2, <1>3, FollowsOn
<1>5. Loop(parse, p, start) = EmitOp(s, "POP")
  BY DEF Loop
<1> HIDE DEF s
<1>6. Follows(s, EmitOp(s, "POP"))
  BY <1>3, OpsListed, EmitOpFollows
<1> QED BY <1>4, <1>5, <1>6, FollowsOn

LEMMA WhileStatementFollows ==
    ASSUME NEW parse, NEW p, Fine(p), Room(parse, p, 2)
    PROVE  Follows(p, WhileStatement(parse, p))
<1> DEFINE q == Condition(parse, p)
           start == Len(p.c.code)
<1>1. Room(parse, p, 1)
  BY RoomAfter, FollowsItself
<1>2. Follows(p, q) /\ Fine(q) /\ JumpOffset(q) \in Int
  BY <1>1, ConditionFollows
<1>3. start \in Int
  BY DEF Fine, Parser, FunctionCompiler
<1> HIDE DEF q, start
<1>4. Follows(q, Loop(parse, q, start))
  BY <1>2, <1>3, RoomAfter, LoopFollows
<1>5. Follows(p, Loop(parse, q, start))
  BY <1>2, <1>4, FollowsOn
<1> QED BY <1>5 DEF WhileStatement, q, start

LEMMA ReturnStatementFollows ==
    ASSUME NEW parse, NEW p, Fine(p), Room(parse, p, 1)
    PROVE  Follows(p, ReturnStatement(parse, p))
<1> DEFINE q == IF p.c.main THEN SyntaxError(p) ELSE p
           r == Consume(Expression(parse, q), "SEMICOLON")
<1>1. Follows(p, q) /\ Fine(q)
  BY SyntaxErrorFollows, FollowsItself DEF Follows
<1>2. ReturnStatement(parse, p) =
        IF Check(q, "SEMICOLON") THEN EmitReturn(Advance(q)) ELSE EmitOp(r, "RETURN")
  BY DEF ReturnStatement, ReturnValue
<1> HIDE DEF q
<1>3. Room(parse, q, 1)
  BY <1>1, RoomAfter
<1>4. Follows(q, r) /\ Fine(r)
  BY <1>1, <1>3, ExpressionFollows, ConsumeFollows, FollowsOn DEF Follows
<1>5. Follows(r, EmitOp(r, "RETURN"))
  BY <1>4, OpsListed, EmitOpFollows
<1>6. Follows(q, EmitReturn(Advance(q)))
  BY <1>1, AdvanceFollows, EmitReturnFollows, FollowsOn
<1> QED BY <1>1, <1>2, <1>4, <1>5, <1>6, FollowsOn

LEMMA DeclarationAt ==
    ASSUME NEW parse, NEW p, Fine(p), Room(parse, p, 2)
    PROVE  Reads(p, parse["declaration", p, 0]) /\ Follows(p, parse["declaration", p, 0])
           /\ Fine(parse["declaration", p, 0])
<1>1. "declaration" \in Goals /\ Rank("declaration") + 1 = 2
      /\ "declaration" \notin {"expression", "infix"} /\ "declaration" \in ReadingGoals
  BY DEF Goals, Rank, ReadingGoals
<1>2. Done("declaration", p, parse["declaration", p, 0])
  BY <1>1, Served
<1> QED BY <1>1, <1>2 DEF Done, Follows

\* A declaration before the end of the source leaves room for another.
LEMMA DeclarationThenRoom ==
    ASSUME NEW parse, NEW p, Fine(p), p.current.type # "EOF", Room(parse, p, 2)
    PROVE  Room(parse, parse["declaration", p, 0], 3)
<1> DEFINE q == parse["declaration", p, 0]
<1>1. Left(p) # 0
  BY DEF Left, Fine, Parser
<1>2. Reads(p, q) /\ Fine(q)
  BY DeclarationAt
<1> HIDE DEF q
<1>3. Left(q) < Left(p)
  BY <1>1, <1>2 DEF Reads
<1>4. Room(parse, q, 3)
  BY <1>2, <1>3, RoomPast
<1> QED BY <1>4 DEF q

LEMMA BlockFollows ==
    ASSUME NEW parse, NEW p, Fine(p), Room(parse, p, 2)
    PROVE  Follows(p, Block(parse, p))
<1> DEFINE q == parse["declaration", p, 0]
<1>1. CASE p.current.type \in {"RIGHT_BRACE", "EOF"}
  BY <1>1, ConsumeFollows DEF Block
<1>2. CASE p.current.type \notin {"RIGHT_BRACE", "EOF"}
  <2>1. Follows(p, q) /\ Fine(q) /\ Room(parse, q, 3)
    BY <1>2, DeclarationAt, DeclarationThenRoom
  <2> HIDE DEF q
  <2>2. Follows(q, parse["block", q, 0])
    BY <2>1, BlockAt
  <2>3. Follows(p, parse["block", q, 0])
    BY <2>1, <2>2, FollowsOn
  <2> QED BY <1>2, <2>3 DEF Block, q
<1> QED BY <1>1, <1>2

LEMMA DeclarationsFollows ==
    ASSUME NEW parse, NEW p, Fine(p), Room(parse, p, 2)
    PROVE  Follows(p, Declarations(parse, p))
<1> DEFINE q == parse["declaration", p, 0]
<1>1. CASE Check(p, "EOF")
  BY <1>1, AdvanceFollows DEF Declarations
<1>2. CASE ~Check(p, "EOF")
  <2>1. Follows(p, q) /\ Fine(q) /\ Room(parse, q, 3)
    BY <1>2, DeclarationAt, DeclarationThenRoom DEF Check
  <2>2. "declarations" \in Goals /\ Rank("declarations") + 1 = 3
        /\ "declarations" \notin {"expression", "infix"}
    BY DEF Goals, Rank
  <2> HIDE DEF q
  <2>3. Follows(q, parse["declarations", q, 0])
    BY <2>1, <2>2, Served DEF Done
  <2>4. Follows(p, parse["declarations", q, 0])
    BY <2>1, <2>3, FollowsOn
  <2> QED BY <1>2, <2>4 DEF Declarations, q
<1> QED BY <1>1, <1>2

\* A block of its own: the scope is entered and left.
LEMMA ScopedBlockFollows ==
    ASSUME NEW parse, NEW p, Fine(p), Room(parse, p, 3)
    PROVE  Follows(p, EndScope(parse["block", BeginScope(p), 0]))
<1> DEFINE q == BeginScope(p)
           r == parse["block", q, 0]
           s == EndScope(r)
<1>1. p.c.scope_depth \in Nat /\ p.c.locals \in Seq(Local) /\ p.c \in FunctionCompiler
  BY DEF Fine, Parser, FunctionCompiler
<1>2. /\ Moves(p, q) /\ Fine(q) /\ q.c.scope_depth = p.c.scope_depth + 1
      /\ q.c.main = p.c.main /\ q.enclosing = p.enclosing
  <2>1. Moves(p, q) /\ q.c = InScope(p.c, p.c.scope_depth + 1, p.c.locals) /\ q.enclosing = p.enclosing
    BY BeginScopeMoves
  <2>2. p.c.scope_depth + 1 \in Nat
    BY <1>1
  <2> DEFINE depth == p.c.scope_depth + 1
             c == InScope(p.c, depth, p.c.locals)
  <2>3. c.scope_depth = depth /\ c.main = p.c.main
    <3> HIDE DEF depth
    <3> QED BY <1>1, <2>2, InScopeType DEF depth
  <2> HIDE DEF q, c
  <2>4. q.c = c
    BY <2>1 DEF c
  <2> QED BY <2>1, <2>3, <2>4 DEF Moves
<1> HIDE DEF q
<1>3. Room(parse, q, 3)
  BY <1>2, RoomAfterMove
<1>4. Follows(q, r) /\ Fine(r)
  <2>1. Follows(q, r)
    BY <1>2, <1>3, BlockAt
  <2> QED BY <2>1 DEF Follows
<1> HIDE DEF r
<1>5. /\ r.c.scope_depth = p.c.scope_depth + 1 /\ r.c.scope_depth # 0 /\ r.c.main = p.c.main
      /\ r.enclosing = p.enclosing
  BY <1>1, <1>2, <1>4 DEF Follows
<1>6. /\ Moves(r, s) /\ s.c.scope_depth = r.c.scope_depth - 1 /\ s.c.main = r.c.main
      /\ s.enclosing = r.enclosing
  BY <1>4, <1>5, EndScopeMoves
<1> HIDE DEF s
<1>7. Moves(p, s)
  <2>1. Moves(p, r)
    BY <1>2, <1>4, MovesOn
  <2> QED BY <1>6, <2>1, MovesOn
<1>8. s.c.scope_depth = p.c.scope_depth /\ s.c.main = p.c.main /\ s.enclosing = p.enclosing
  BY <1>1, <1>5, <1>6
<1>9. Follows(p, s)
  BY <1>7, <1>8 DEF Moves, Follows
<1> QED BY <1>9 DEF s, r, q

LEMMA StatementReads ==
    ASSUME NEW parse, NEW p, Fine(p), Room(parse, p, 1)
    PROVE  Reads(p, Statement(parse, p))
<1> DEFINE q == Advance(p)
<1>1. Reads(p, q) /\ Follows(p, q) /\ Fine(q)
  BY AdvanceReads, AdvanceFollows
<1>2. p.current.type # "EOF" => Room(parse, q, 3) /\ Room(parse, q, 2) /\ Room(parse, q, 1)
  BY RoomAfterToken
<1>3. CASE Check(p, "LEFT_BRACE")
  <2>1. Statement(parse, p) = EndScope(parse["block", BeginScope(q), 0])
    BY <1>3 DEF Statement, Check
  <2>2. Room(parse, q, 3)
    BY <1>2, <1>3 DEF Check
  <2> HIDE DEF q
  <2>3. Follows(q, EndScope(parse["block", BeginScope(q), 0]))
    BY <1>1, <2>2, ScopedBlockFollows
  <2> QED BY <1>1, <2>1, <2>3, ReadsThenFollows
<1>4. CASE Check(p, "IF")
  <2>1. Statement(parse, p) = IfStatement(parse, q)
    BY <1>4 DEF Statement, Check
  <2> QED BY <1>1, <1>2, <1>4, <2>1, IfStatementFollows, ReadsThenFollows DEF Check
<1>5. CASE Check(p, "WHILE")
  <2>1. Statement(parse, p) = WhileStatement(parse, q)
    BY <1>5 DEF Statement, Check
  <2> QED BY <1>1, <1>2, <1>5, <2>1, WhileStatementFollows, ReadsThenFollows DEF Check
<1>6. CASE Check(p, "RETURN")
  <2>1. Statement(parse, p) = ReturnStatement(parse, q)
    BY <1>6 DEF Statement, Check
  <2> QED BY <1>1, <1>2, <1>6, <2>1, ReturnStatementFollows, ReadsThenFollows DEF Check
<1>7. CASE ~Check(p, "LEFT_BRACE") /\ ~Check(p, "IF") /\ ~Check(p, "WHILE") /\ ~Check(p, "RETURN")
  <2>1. Statement(parse, p) = ExpressionStatement(parse, p)
    BY <1>7 DEF Statement
  <2> QED BY <2>1, ExpressionStatementReads
<1> QED BY <1>3, <1>4, <1>5, <1>6, <1>7

\* The parser without the panic.
Calm(p) == [p EXCEPT !.panic_mode = FALSE]

LEMMA CalmFollows ==
    ASSUME NEW p, Fine(p)
    PROVE  Follows(p, Calm(p)) /\ Fine(Calm(p))
<1> DEFINE q == Calm(p)
<1>1. q \in Parser
  BY DEF Calm, Fine, Parser
<1>2. /\ q.tokens = p.tokens /\ q.scanned = p.scanned /\ q.current = p.current
      /\ q.base = p.base /\ q.errored = p.errored /\ q.c = p.c /\ q.enclosing = p.enclosing
      /\ ~q.panic_mode /\ q.reports = p.reports
  BY DEF Calm, Fine, Parser
<1> HIDE DEF q
<1>3. Fine(q) /\ Left(q) = Left(p)
  BY <1>1, <1>2 DEF Fine, Left
<1> QED BY <1>2, <1>3, LeftIsNat DEF Follows, q

LEMMA ResumeFollows ==
    ASSUME NEW parse, NEW p, Fine(p), Room(parse, p, 1)
    PROVE  Follows(p, Resume(parse, p))
<1> DEFINE q == Calm(p)
<1>1. CASE p.panic_mode
  <2>1. Follows(p, q) /\ Fine(q)
    BY CalmFollows
  <2>2. Room(parse, q, 1)
    BY <2>1, RoomAfter
  <2>3. "synchronize" \in Goals /\ Rank("synchronize") + 1 = 1
        /\ "synchronize" \notin {"expression", "infix"}
    BY DEF Goals, Rank
  <2>4. Resume(parse, p) = parse["synchronize", q, 0]
    BY <1>1 DEF Resume, Calm
  <2> HIDE DEF q
  <2>5. Follows(q, parse["synchronize", q, 0])
    BY <2>1, <2>2, <2>3, Served DEF Done
  <2> QED BY <2>1, <2>4, <2>5, FollowsOn
<1>2. CASE ~p.panic_mode
  BY <1>2, FollowsItself DEF Resume
<1> QED BY <1>1, <1>2

\* A declaration reads at least a token, be it one that cannot begin one.
LEMMA DeclarationReads ==
    ASSUME NEW parse, NEW p, Fine(p), Room(parse, p, 1)
    PROVE  Reads(p, Declaration(parse, p))
<1> DEFINE q == Advance(p)
           r == IF p.current.type \in {"LET", "CONST"}
                THEN VarDeclaration(parse, Advance(p), Check(p, "CONST"))
                ELSE IF Check(p, "DEF") THEN FunctionDeclaration(parse, Advance(p))
                ELSE Statement(parse, p)
<1>1. Reads(p, q) /\ Follows(p, q) /\ Fine(q)
  BY AdvanceReads, AdvanceFollows
<1>2. p.current.type # "EOF" => Room(parse, q, 3) /\ Room(parse, q, 0)
  BY RoomAfterToken
<1>3. Reads(p, r)
  <2>1. CASE p.current.type \in {"LET", "CONST"}
    <3>1. Check(p, "CONST") \in BOOLEAN
      BY DEF Check
    <3>2. Follows(q, VarDeclaration(parse, q, Check(p, "CONST")))
      BY <1>1, <1>2, <2>1, <3>1, VarDeclarationFollows
    <3> QED BY <1>1, <2>1, <3>2, ReadsThenFollows
  <2>2. CASE p.current.type \notin {"LET", "CONST"} /\ Check(p, "DEF")
    <3>1. Follows(q, FunctionDeclaration(parse, q))
      BY <1>1, <1>2, <2>2, FunctionDeclarationFollows DEF Check
    <3> QED BY <1>1, <2>2, <3>1, ReadsThenFollows
  <2>3. CASE p.current.type \notin {"LET", "CONST"} /\ ~Check(p, "DEF")
    BY <2>3, StatementReads
  <2> QED BY <2>1, <2>2, <2>3
<1>4. Declaration(parse, p) = Resume(parse, r)
  BY DEF Declaration
<1> HIDE DEF r
<1>5. Follows(p, r) /\ Fine(r)
  BY <1>3 DEF Reads, Follows
<1>6. Room(parse, r, 1)
  BY <1>5, RoomAfter
<1>7. Follows(r, Resume(parse, r))
  BY <1>5, <1>6, ResumeFollows
<1> QED BY <1>3, <1>4, <1>7, ReadsThenFollows
-----------------------------------------------------------------------------
(* Every source is compiled to its end. *)

\* One more call serves the goal, if those it makes are served.
LEMMA CallDone ==
    ASSUME NEW parse, NEW goal \in Goals, NEW p, Fine(p), NEW number \in Nat,
           goal \in {"expression", "infix"} => number # 0, Room(parse, p, Rank(goal))
    PROVE  Done(goal, p, Call(parse, goal, p, number))
<1>1. Rank(goal) \in Nat
  BY DEF Rank
<1>2. CASE goal = "expression"
  <2>1. Call(parse, goal, p, number) = ParsePrecedence(parse, p, number)
    BY <1>2, ClosingOps DEF Call
  <2>2. Reads(p, ParsePrecedence(parse, p, number))
    BY <1>2, ParsePrecedenceReads DEF Rank
  <2> QED BY <2>1, <2>2 DEF Done, Reads
<1>3. CASE goal = "infix"
  <2>1. Call(parse, goal, p, number) = InfixRules(parse, p, number)
    BY <1>3, ClosingOps DEF Call
  <2>2. Follows(p, InfixRules(parse, p, number))
    BY <1>3, InfixRulesFollows DEF Rank
  <2> QED BY <1>3, <2>1, <2>2 DEF Done, ReadingGoals
<1>4. CASE goal \in DOMAIN Closing
  <2>1. Call(parse, goal, p, number) = ParseItems(parse, p, goal, number)
    BY <1>4, ClosingOps DEF Call
  <2>2. Room(parse, p, 1)
    BY <1>4, ClosingOps
  <2> QED BY <1>4, <2>1, <2>2, ParseItemsReads DEF Done, Reads
<1>5. CASE goal = "statement"
  <2>1. Call(parse, goal, p, number) = Statement(parse, p)
    BY <1>5, ClosingOps DEF Call
  <2> QED BY <1>5, <2>1, StatementReads DEF Done, Reads, Rank
<1>6. CASE goal = "declaration"
  <2>1. Call(parse, goal, p, number) = Declaration(parse, p)
    BY <1>6, ClosingOps DEF Call
  <2> QED BY <1>6, <2>1, DeclarationReads DEF Done, Reads, Rank
<1>7. CASE goal = "block"
  <2>1. Call(parse, goal, p, number) = Block(parse, p)
    BY <1>7, ClosingOps DEF Call
  <2> QED BY <1>7, <2>1, BlockFollows DEF Done, ReadingGoals, Rank
<1>8. CASE goal = "declarations"
  <2>1. Call(parse, goal, p, number) = Declarations(parse, p)
    BY <1>8, ClosingOps DEF Call
  <2> QED BY <1>8, <2>1, DeclarationsFollows DEF Done, ReadingGoals, Rank
<1>9. CASE goal = "parameters"
  <2>1. Call(parse, goal, p, number) = Parameters(parse, p)
    BY <1>9, ClosingOps DEF Call
  <2> QED BY <1>9, <2>1, ParametersFollows DEF Done, ReadingGoals, Rank
<1>10. CASE goal = "synchronize"
  <2>1. Call(parse, goal, p, number) = Synchronize(parse, p)
    BY <1>10, ClosingOps DEF Call
  <2> QED BY <1>10, <2>1, SynchronizeFollows DEF Done, ReadingGoals, Rank
<1> QED BY <1>2, <1>3, <1>4, <1>5, <1>6, <1>7, <1>8, <1>9, <1>10, ClosingOps DEF Goals

\* Parse for no call, and for one more than parse is for.
NoCall == [call \in Requests |-> Exhausted(call[2])]
OneMore(parse) == [call \in Requests |-> Call(parse, call[1], call[2], call[3])]

\* The definition of Parse is a recursion: f is Parse for as many as n calls.
UpTo(f, n) == f[0] = NoCall /\ \A k \in 1 .. n : f[k] = OneMore(f[k - 1])

LEMMA UpToExists == ASSUME NEW n \in Nat PROVE \E f : UpTo(f, n)
<1> DEFINE T == {k \in Nat : \E f : UpTo(f, k)}
<1>1. 0 \in T
  <2> DEFINE f == [k \in {0} |-> NoCall]
  <2>1. UpTo(f, 0)
    BY DEF UpTo
  <2> QED BY <2>1
<1>2. ASSUME NEW k \in Nat, k \in T PROVE k + 1 \in T
  <2>1. PICK f : UpTo(f, k)
    BY <1>2
  <2> DEFINE g == [j \in 0 .. k + 1 |-> IF j = k + 1 THEN OneMore(f[k]) ELSE f[j]]
  <2>2. g[0] = NoCall
    BY <2>1 DEF UpTo
  <2>3. ASSUME NEW j \in 1 .. k + 1 PROVE g[j] = OneMore(g[j - 1])
    <3>1. CASE j = k + 1
      <4>1. g[j] = OneMore(f[k])
        BY <3>1
      <4>2. j - 1 = k /\ g[k] = f[k]
        BY <3>1
      <4> QED BY <4>1, <4>2
    <3>2. CASE j # k + 1
      <4>1. j \in 1 .. k /\ j - 1 \in 0 .. k
        BY <3>2
      <4>2. g[j] = f[j] /\ g[j - 1] = f[j - 1]
        BY <4>1
      <4> QED BY <2>1, <4>1, <4>2 DEF UpTo
    <3> QED BY <3>1, <3>2
  <2> HIDE DEF g
  <2>4. UpTo(g, k + 1)
    BY <2>2, <2>3 DEF UpTo
  <2> QED BY <2>4
<1> HIDE DEF T
<1>3. Nat \subseteq T
  BY <1>1, <1>2, NatSetInduction
<1> QED BY <1>3 DEF T

LEMMA UpToUnique ==
    ASSUME NEW m \in Nat, NEW n \in Nat, NEW f, NEW g, UpTo(f, m), UpTo(g, n),
           NEW i \in Nat, i <= m, i <= n
    PROVE  f[i] = g[i]
<1> DEFINE T == {k \in Nat : k <= m /\ k <= n => f[k] = g[k]}
<1>1. 0 \in T
  BY DEF UpTo
<1>2. ASSUME NEW k \in Nat, k \in T PROVE k + 1 \in T
  <2> SUFFICES ASSUME k + 1 <= m, k + 1 <= n PROVE f[k + 1] = g[k + 1]
    OBVIOUS
  <2>1. f[k] = g[k]
    BY <1>2
  <2>2. k + 1 \in 1 .. m /\ k + 1 \in 1 .. n /\ (k + 1) - 1 = k
    OBVIOUS
  <2>3. f[k + 1] = OneMore(f[k]) /\ g[k + 1] = OneMore(g[k])
    BY <2>2 DEF UpTo
  <2> QED BY <2>1, <2>3
<1> HIDE DEF T
<1>3. Nat \subseteq T
  BY <1>1, <1>2, NatSetInduction
<1> QED BY <1>3 DEF T

\* The definition of Parse is a recursion: what it gives for n calls.
LEMMA ParseUnfolds ==
    /\ Parse[0] = NoCall
    /\ \A n \in Nat : Parse[n + 1] = OneMore(Parse[n])
<1> DEFINE Good(f) == f = [n \in Nat |-> IF n = 0 THEN NoCall ELSE OneMore(f[n - 1])]
           chosen(n) == CHOOSE f : UpTo(f, n)
           limit == [n \in Nat |-> chosen(n)[n]]
<1>1. \A n \in Nat : UpTo(chosen(n), n)
  BY UpToExists
<1> HIDE DEF chosen
<1>2. limit[0] = NoCall
  BY <1>1 DEF UpTo
<1>3. ASSUME NEW n \in Nat PROVE limit[n + 1] = OneMore(limit[n])
  <2>1. UpTo(chosen(n), n) /\ UpTo(chosen(n + 1), n + 1)
    BY <1>1
  <2>2. chosen(n + 1)[n] = chosen(n)[n]
    BY <2>1, UpToUnique
  <2>3. n + 1 \in 1 .. n + 1 /\ (n + 1) - 1 = n
    OBVIOUS
  <2>4. chosen(n + 1)[n + 1] = OneMore(chosen(n + 1)[n])
    BY <2>1, <2>3 DEF UpTo
  <2> QED BY <2>2, <2>4
<1>4. limit = [n \in Nat |-> limit[n]]
  OBVIOUS
<1> HIDE DEF limit
<1>5. \A n \in Nat : limit[n] = IF n = 0 THEN NoCall ELSE OneMore(limit[n - 1])
  <2> TAKE n \in Nat
  <2>1. CASE n = 0
    BY <1>2, <2>1
  <2>2. CASE n # 0
    <3>1. n - 1 \in Nat /\ (n - 1) + 1 = n
      BY <2>2
    <3>2. limit[(n - 1) + 1] = OneMore(limit[n - 1])
      BY <1>3, <3>1
    <3> QED BY <2>2, <3>1, <3>2
  <2> QED BY <2>1, <2>2
<1>6. Good(limit)
  BY <1>4, <1>5
<1>7. Parse = CHOOSE f : Good(f)
  BY DEF Parse, NoCall, OneMore
<1> HIDE DEF Good
<1>8. Good(Parse)
  BY <1>6, <1>7
<1>9. Parse = [n \in Nat |-> IF n = 0 THEN NoCall ELSE OneMore(Parse[n - 1])]
  BY <1>8 DEF Good
<1>10. ASSUME NEW n \in Nat PROVE Parse[n + 1] = OneMore(Parse[n])
  <2>1. n + 1 \in Nat /\ n + 1 # 0 /\ (n + 1) - 1 = n
    OBVIOUS
  <2> QED BY <1>9, <2>1
<1> QED BY <1>9, <1>10

LEMMA OneMoreCalls ==
    ASSUME NEW parse, NEW goal \in Goals, NEW p \in Parser, NEW number \in Nat
    PROVE  OneMore(parse)[goal, p, number] = Call(parse, goal, p, number)
<1>1. <<goal, p, number>> \in Requests
  BY DEF Requests
<1> QED BY <1>1 DEF OneMore

\* With n calls the parser does what it is asked when n are enough, whatever n is.
LEMMA ParseServes == \A n \in Nat : Serves(Parse[n], n)
<1> DEFINE T == {n \in Nat : Serves(Parse[n], n)}
<1>1. 0 \in T
  <2>1. ASSUME NEW goal \in Goals, NEW p, Fine(p) PROVE ~(3 * Left(p) + Rank(goal) < 0)
    <3>1. Left(p) \in Nat /\ Rank(goal) \in Nat
      BY <2>1, LeftIsNat DEF Rank
    <3> QED BY <3>1
  <2>2. Serves(Parse[0], 0)
    BY <2>1 DEF Serves
  <2> QED BY <2>2
<1>2. ASSUME NEW n \in Nat, n \in T PROVE n + 1 \in T
  <2>1. Serves(Parse[n], n)
    BY <1>2
  <2>2. ASSUME NEW goal \in Goals, NEW p \in Parser, NEW number \in Nat, Fine(p),
               3 * Left(p) + Rank(goal) < n + 1,
               goal \in {"expression", "infix"} => number # 0
        PROVE  Done(goal, p, Parse[n + 1][goal, p, number])
    <3>1. Left(p) \in Nat /\ Rank(goal) \in Nat
      BY <2>2, LeftIsNat DEF Rank
    <3>2. 3 * Left(p) + Rank(goal) <= n
      BY <2>2, <3>1
    <3>3. Room(Parse[n], p, Rank(goal))
      BY <2>1, <3>2 DEF Room
    <3>4. Done(goal, p, Call(Parse[n], goal, p, number))
      BY <2>2, <3>3, CallDone
    <3>6. Parse[n + 1] = OneMore(Parse[n])
      BY ParseUnfolds
    <3>5. Parse[n + 1][goal, p, number] = Call(Parse[n], goal, p, number)
      <4> DEFINE before == Parse[n]
                 f == OneMore(before)
                 g == Parse[n + 1]
      <4>1. g = f
        BY <3>6
      <4> HIDE DEF g
      <4>2. f[goal, p, number] = Call(before, goal, p, number)
        <5> HIDE DEF before
        <5> QED BY OneMoreCalls
      <4> HIDE DEF f, before
      <4>3. g[goal, p, number] = Call(before, goal, p, number)
        BY <4>1, <4>2
      <4> QED BY <4>3 DEF g, before
    <3> QED BY <3>4, <3>5
  <2>3. Serves(Parse[n + 1], n + 1)
    BY <2>2 DEF Serves
  <2> QED BY <2>3
<1> HIDE DEF T
<1>3. Nat \subseteq T
  BY <1>1, <1>2, NatSetInduction
<1> QED BY <1>3 DEF T
-----------------------------------------------------------------------------
(* The whole source. *)

LEMMA NewParserBegun ==
    ASSUME NEW source \in Seq(SourceToken), NEW last \in Nat, NEW base \in Nat
    PROVE  Begun(NewParser(source, last, base))
<1> DEFINE p == NewParser(source, last, base)
<1>1. Eof(1) \in AnyToken
  BY EofIsToken
<1>2. NewCompiler(TRUE) \in FunctionCompiler
  BY NewCompilerType
<1>7. /\ <<>> \in Seq(Compiled) /\ <<>> \in Seq(FunctionCompiler)
      /\ <<>> \in Seq(TokenTypes \cup {"EXHAUSTED"})
  OBVIOUS
<1>3. p \in Parser
  BY <1>1, <1>2, <1>7, Zenon DEF NewParser, Parser
<1>4. /\ p.reports = <<>> /\ p.panic_mode = FALSE /\ p.scanned = 0 /\ p.tokens = source
  BY DEF NewParser
<1> HIDE DEF p
<1>5. <<>> \in Seq(TokenTypes) /\ Len(source) \in Nat
  OBVIOUS
<1>6. Begun(p)
  BY <1>3, <1>4, <1>5 DEF Begun
<1> QED BY <1>6 DEF p

\* The parser as parser_compile starts it.
FirstRead(source, last, base) == Advance(NewParser(source, last, base))

LEMMA FirstReadFine ==
    ASSUME NEW source \in Seq(SourceToken), NEW last \in Nat, NEW base \in Nat
    PROVE  /\ Fine(FirstRead(source, last, base))
           /\ FirstRead(source, last, base).tokens = source
           /\ FirstRead(source, last, base).base = base
           /\ FirstRead(source, last, base).c = NewCompiler(TRUE)
           /\ FirstRead(source, last, base).enclosing = <<>>
           /\ FirstRead(source, last, base).functions = <<>>
           /\ Left(FirstRead(source, last, base)) <= Len(source)
<1> DEFINE p == NewParser(source, last, base)
           q == Advance(p)
<1>1. Begun(p)
  BY NewParserBegun
<1>2. /\ p.tokens = source /\ p.base = base /\ p.c = NewCompiler(TRUE) /\ p.enclosing = <<>>
      /\ p.functions = <<>> /\ p.scanned = 0
  BY DEF NewParser
<1> HIDE DEF p
<1>3. /\ Fine(q) /\ q.tokens = source /\ q.base = base /\ q.c = NewCompiler(TRUE)
      /\ q.enclosing = <<>> /\ q.functions = <<>>
      /\ q.current.type # "EOF" => q.scanned > 0
  BY <1>1, <1>2, AdvanceBegun
<1> HIDE DEF q
<1>4. q.scanned \in Nat /\ Len(source) \in Nat
  BY <1>3 DEF Fine, Parser
<1>5. Left(q) <= Len(source)
  BY <1>3, <1>4 DEF Left
<1> QED BY <1>3, <1>5 DEF FirstRead, q, p

\* The script after its last declaration.
LastRead(source, last, base) == Parse[CallsFor(source)]["declarations", FirstRead(source, last, base), 0]

LEMMA LastReadFollows ==
    ASSUME NEW source \in Seq(SourceToken), NEW last \in Nat, NEW base \in Nat
    PROVE  Follows(FirstRead(source, last, base), LastRead(source, last, base))
<1> DEFINE p == FirstRead(source, last, base)
           parse == Parse[CallsFor(source)]
<1>1. Fine(p) /\ Left(p) <= Len(source)
  BY FirstReadFine
<1> HIDE DEF p
<1>7. Left(p) \in Nat /\ Len(source) \in Nat
  BY <1>1, LeftIsNat
<1>2. CallsFor(source) \in Nat /\ 3 * Left(p) + 3 <= CallsFor(source)
  BY <1>1, <1>7 DEF CallsFor
<1>3. Serves(parse, CallsFor(source))
  BY <1>2, ParseServes
<1>4. "declarations" \in Goals /\ Rank("declarations") + 1 = 3
  BY DEF Goals, Rank
<1> HIDE DEF parse
<1>5. Room(parse, p, Rank("declarations") + 1)
  BY <1>2, <1>3, <1>4 DEF Room
<1>6. Done("declarations", p, parse["declarations", p, 0])
  BY <1>1, <1>4, <1>5, Served
<1> QED BY <1>6 DEF Done, LastRead, p, parse

\* Every source is read to its end without running out of calls, and what is
\* reported is reported at tokens.
LEMMA CompileEnds ==
    ASSUME NEW source \in Seq(SourceToken), NEW last \in Nat, NEW base \in Nat
    PROVE  /\ Compile(source, last, base).reports \in Seq(TokenTypes)
           /\ Compile(source, last, base).functions \in Seq(Compiled)
           /\ Len(Compile(source, last, base).functions) \in DOMAIN Compile(source, last, base).functions
           /\ Compile(source, last, base).ok \in BOOLEAN
<1> DEFINE p == LastRead(source, last, base)
           q == EndCompiler(p)
<1>1. Fine(p)
  BY LastReadFollows DEF Follows
<1>2. Compile(source, last, base) = Translation(q)
  BY DEF Compile, LastRead, FirstRead
<1> HIDE DEF p
<1>3. Moves(p, q) /\ q.reports \in Seq(TokenTypes)
  BY <1>1, EndCompilerMoves
<1>5. q.functions = Append(EmitReturn(p).functions, Finished(EmitReturn(p).c))
  BY <1>1, EndCompilerMoves
<1>6. EmitReturn(p).functions \in Seq(Compiled)
  BY <1>1, EmitReturnFollows DEF Follows, Fine, Parser
<1> HIDE DEF q
<1>4. q \in Parser
  BY <1>3 DEF Moves, Fine
<1>7. q.functions \in Seq(Compiled)
  BY <1>4 DEF Parser
<1>8. Len(q.functions) \in DOMAIN q.functions
  BY <1>5, <1>6, <1>7
<1> QED BY <1>2, <1>3, <1>4, <1>8 DEF Translation, Parser

LEMMA MeasuredFields ==
    ASSUME NEW source \in Seq(SourceToken), NEW last, NEW translation,
           translation = Compile(source, last, 0)
    PROVE  /\ Measured(translation).ok = translation.ok
           /\ Measured(translation).reports = translation.reports
           /\ translation.ok => Measured(translation).functions = Annotated(translation.functions)
BY DEF Measured, Compile, Translation

\* What is compiled is what parser_compile makes of the tokens.
CompiledFromTokens ==
    /\ tokens \in Seq(SourceToken) /\ last_line \in Nat
    /\ compiled = Measured(Compile(tokens, last_line, 0))

LEMMA CompilationStarts == Init => CompiledFromTokens
<1>1. <<>> \in Seq(SourceToken)
  OBVIOUS
<1> QED BY <1>1 DEF Init, CompiledFromTokens

LEMMA CompilationGoesOn ==
    CompiledFromTokens /\ [Next]_source_vars => CompiledFromTokens'
<1> SUFFICES ASSUME CompiledFromTokens, [Next]_source_vars PROVE CompiledFromTokens'
  OBVIOUS
<1>1. CASE Next
  <2>1. PICK phrase \in Seq(SourceToken), line \in Nat : Extend(phrase, line)
    BY <1>1 DEF Next
  <2>2. /\ tokens' = tokens \o phrase /\ last_line' = line
        /\ compiled' = Measured(Compile(tokens', last_line', 0))
    BY <2>1 DEF Extend
  <2>3. tokens' \in Seq(SourceToken)
    BY <2>2 DEF CompiledFromTokens
  <2> QED BY <2>2, <2>3 DEF CompiledFromTokens
<1>2. CASE UNCHANGED source_vars
  BY <1>2 DEF CompiledFromTokens, source_vars
<1> QED BY <1>1, <1>2

\* What is compiled depends on the source alone, however it has been extended.
THEOREM CompilationInvariant == Spec => []CompiledFromTokens
BY CompilationStarts, CompilationGoesOn, PTL DEF Spec

\* The parser reads every source to its end, with the calls it is given: no
\* source makes it call itself for ever, and every error is at a token.
THEOREM CompilationTypeOK == Spec => []TypeOK
<1>1. CompiledFromTokens => TypeOK
  <2> SUFFICES ASSUME CompiledFromTokens PROVE TypeOK
    OBVIOUS
  <2> DEFINE result == Compile(tokens, last_line, 0)
  <2>1. tokens \in Seq(SourceToken) /\ last_line \in Nat /\ compiled = Measured(result)
    BY DEF CompiledFromTokens
  <2>2. result.reports \in Seq(TokenTypes) /\ result.ok \in BOOLEAN
    BY <2>1, CompileEnds
  <2>3. compiled.ok = result.ok /\ compiled.reports = result.reports
    BY <2>1, MeasuredFields
  <2> QED BY <2>1, <2>2, <2>3 DEF TypeOK
<1> QED BY <1>1, CompilationInvariant, PTL
=============================================================================
