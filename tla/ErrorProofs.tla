----------------------------- MODULE ErrorProofs -----------------------------
(***************************************************************************)
(* What parser_compile makes of a wrong source, for every source and every *)
(* byte width: how often it reports, and that it refuses.                  *)
(*                                                                         *)
(* Each report is paid for by a token: the parser reports once and then    *)
(* panics, and it calms down only at the end of a declaration, from where  *)
(* it skips to a token that looks like the end or the beginning of a       *)
(* statement.  A block that the end of the source leaves open is one more  *)
(* reason to report, and its brace, or the DEF of its function, is one     *)
(* more token to pay with.                                                 *)
(*                                                                         *)
(* What is not refused is a program of the language: each call that ends   *)
(* without an error has read a phrase of its kind, from the token it began *)
(* at to the one before the current token.                                 *)
(***************************************************************************)
EXTENDS CompilerProofs

-----------------------------------------------------------------------------
(* What is reported and what pays for it. *)

\* The place of the current token in the source.
CurrentAt(p) == IF p.current.type = "EOF" THEN Len(p.tokens) + 1 ELSE p.scanned

\* A statement that begins is known when its first token is the current one; the
\* others pay when they are passed.
Resuming == {"SEMICOLON", "LEFT_BRACE", "ERROR"}
Paid(p) ==
    {k \in DOMAIN p.tokens : \/ p.tokens[k].type \in Resuming /\ k < CurrentAt(p)
                             \/ p.tokens[k].type \in StatementStarts /\ k <= CurrentAt(p)}
Opened(p) == {k \in DOMAIN p.tokens : p.tokens[k].type = "DEF" /\ k < CurrentAt(p)}
Credit(p) == Cardinality(Paid(p)) + Cardinality(Opened(p))

\* A parser that does not panic can report once more.
Debt(p) == Len(p.reports) + (IF p.panic_mode THEN 0 ELSE 1)
Slack(p) == 1 + Credit(p) - Debt(p)

\* The parser has found what it looks for after an error.
Found(p) ==
    IF /\ p.current.type # "EOF"
       /\ p.previous.type = "SEMICOLON" \/ p.current.type \in StatementStarts
    THEN 1 ELSE 0
AtEnd(p) == p.current.type = "EOF"

\* Nothing is read.
Stays(p, q) ==
    /\ q.tokens = p.tokens /\ q.scanned = p.scanned
    /\ q.current = p.current /\ q.previous = p.previous
    /\ Debt(q) = Debt(p)

Keeps(p, q) == Follows(p, q) /\ Stays(p, q)

\* What is reported is paid for, and so is the next report when something that
\* looks like a statement has been reached.
Pays(p, q) ==
    /\ Follows(p, q)
    /\ Stays(p, q) \/ Slack(q) >= Slack(p) + Found(q)

\* What ends with a block: the end of the source may leave the block open, which is
\* one more report.
PaysEnd(p, q) ==
    /\ Follows(p, q)
    /\ Slack(q) >= Slack(p) + (IF AtEnd(q) THEN -1 ELSE Found(q))

\* A block: at the end of the source all there is to report is that.
PaysBlock(p, q) == PaysEnd(p, q) /\ (AtEnd(p) => Slack(q) >= Slack(p))

\* A declaration has calmed down, which counts as a report to come; at the end of
\* the source none comes.
PaysDeclaration(p, q) ==
    /\ Follows(p, q)
    /\ Slack(q) >= Slack(p) \/ (AtEnd(q) /\ ~q.panic_mode /\ Slack(q) + 1 >= Slack(p))

\* What looks like a statement is found, and paid for if it was not there already,
\* or the source has ended.
Finds(p, q) ==
    /\ Follows(p, q)
    /\ Slack(q) >= Slack(p)
    /\ \/ Slack(q) >= Slack(p) + 1
       \/ Found(p) = 1
       \/ AtEnd(q) /\ (q.panic_mode => p.panic_mode)

\* Between two declarations of the script.
Balanced(p) == Len(p.reports) <= 1 + Credit(p)
Solvent(p) == Slack(p) >= 0 \/ (AtEnd(p) /\ Balanced(p))

LEMMA DebtOf ==
    ASSUME NEW p
    PROVE  /\ p.panic_mode => Debt(p) = Len(p.reports) + 0
           /\ ~p.panic_mode => Debt(p) = Len(p.reports) + 1
BY Zenon DEF Debt

LEMMA DebtIsNat == ASSUME NEW p, Fine(p) PROVE Debt(p) \in Nat
<1>1. Len(p.reports) \in Nat
  BY DEF Fine
<1>2. Debt(p) = Len(p.reports) + 0 \/ Debt(p) = Len(p.reports) + 1
  BY DebtOf
<1> QED BY <1>1, <1>2

LEMMA IntervalIsFinite == ASSUME NEW n \in Nat PROVE IsFiniteSet(1 .. n)
BY FS_Interval

LEMMA CreditIsFinite ==
    ASSUME NEW p, Fine(p)
    PROVE  /\ IsFiniteSet(Paid(p)) /\ IsFiniteSet(Opened(p))
           /\ Cardinality(Paid(p)) \in Nat /\ Cardinality(Opened(p)) \in Nat
           /\ Credit(p) \in Nat
<1>1. p.tokens \in Seq(SourceToken)
  BY DEF Fine, Parser
<1>2. DOMAIN p.tokens = 1 .. Len(p.tokens) /\ Len(p.tokens) \in Nat
  BY <1>1
<1>3. IsFiniteSet(DOMAIN p.tokens)
  <2>1. IsFiniteSet(1 .. Len(p.tokens))
    BY <1>2, IntervalIsFinite
  <2> QED BY <1>2, <2>1
<1>4. Paid(p) \subseteq DOMAIN p.tokens /\ Opened(p) \subseteq DOMAIN p.tokens
  BY DEF Paid, Opened
<1>5. IsFiniteSet(Paid(p)) /\ IsFiniteSet(Opened(p))
  BY <1>3, <1>4, FS_Subset
<1>6. Cardinality(Paid(p)) \in Nat /\ Cardinality(Opened(p)) \in Nat
  BY <1>5, FS_CardinalityType
<1> QED BY <1>5, <1>6 DEF Credit

LEMMA SlackIsInt == ASSUME NEW p, Fine(p) PROVE Slack(p) \in Int
BY DebtIsNat, CreditIsFinite DEF Slack

LEMMA StaysSlack ==
    ASSUME NEW p, NEW q, Stays(p, q)
    PROVE  Slack(q) = Slack(p) /\ Found(q) = Found(p) /\ (AtEnd(q) <=> AtEnd(p))
<1>1. Credit(q) = Credit(p)
  BY DEF Stays, Credit, Paid, Opened, CurrentAt
<1> QED BY <1>1 DEF Stays, Slack, Found, AtEnd

LEMMA StaysOn ==
    ASSUME NEW p, NEW q, NEW r, Stays(p, q), Stays(q, r)
    PROVE  Stays(p, r)
BY DEF Stays

LEMMA KeepsItself == ASSUME NEW p, Fine(p) PROVE Keeps(p, p)
BY FollowsItself DEF Keeps, Stays

LEMMA KeepsPays ==
    ASSUME NEW p, NEW q, Keeps(p, q)
    PROVE  Pays(p, q) /\ Follows(p, q) /\ Fine(q)
BY DEF Keeps, Pays, Follows

LEMMA KeepsOn ==
    ASSUME NEW p, NEW q, NEW r, Keeps(p, q), Keeps(q, r), Fine(p)
    PROVE  Keeps(p, r)
BY FollowsOn, StaysOn DEF Keeps

LEMMA PaysItself == ASSUME NEW p, Fine(p) PROVE Pays(p, p)
BY FollowsItself DEF Pays, Stays

LEMMA FoundIsNat == ASSUME NEW p PROVE Found(p) \in 0 .. 1
BY DEF Found

LEMMA PaysOn ==
    ASSUME NEW p, NEW q, NEW r, Pays(p, q), Pays(q, r), Fine(p)
    PROVE  Pays(p, r) /\ Fine(q) /\ Fine(r)
<1>1. Follows(p, r) /\ Fine(q) /\ Fine(r)
  BY FollowsOn DEF Pays, Follows
<1>2. /\ Slack(p) \in Int /\ Slack(q) \in Int /\ Slack(r) \in Int
      /\ Found(q) \in 0 .. 1 /\ Found(r) \in 0 .. 1
  BY <1>1, SlackIsInt, FoundIsNat
<1>3. CASE Stays(q, r)
  BY <1>1, <1>2, <1>3, StaysSlack, StaysOn DEF Pays
<1>4. CASE ~Stays(q, r)
  <2>1. Slack(r) >= Slack(q) + Found(r)
    BY <1>4 DEF Pays
  <2>2. Slack(q) >= Slack(p)
    BY <1>2, StaysSlack DEF Pays
  <2> QED BY <1>1, <1>2, <2>1, <2>2 DEF Pays
<1> QED BY <1>3, <1>4

LEMMA PaysIsFine == ASSUME NEW p, NEW q, Pays(p, q) PROVE Fine(q) /\ Follows(p, q)
BY DEF Pays, Follows
-----------------------------------------------------------------------------
(* Tokens and errors. *)

\* An error is reported at once or not at all: the debt is the same.
LEMMA ErrorAtStays ==
    ASSUME NEW p, Begun(p), NEW token
    PROVE  Stays(p, ErrorAt(p, token))
<1> DEFINE q == [p EXCEPT !.panic_mode = TRUE, !.errored = TRUE,
                          !.reports = Append(@, token.type)]
<1>1. CASE p.panic_mode
  BY <1>1 DEF ErrorAt, Stays
<1>2. CASE ~p.panic_mode
  <2>1. /\ q.tokens = p.tokens /\ q.scanned = p.scanned /\ q.current = p.current
        /\ q.previous = p.previous /\ q.panic_mode = TRUE
        /\ q.reports = Append(p.reports, token.type)
    BY DEF Begun, Parser
  <2>2. Len(Append(p.reports, token.type)) = Len(p.reports) + 1 /\ Len(p.reports) \in Nat
    BY DEF Begun
  <2>3. ErrorAt(p, token) = q
    BY <1>2 DEF ErrorAt
  <2> HIDE DEF q
  <2>4. Debt(p) = Len(p.reports) + 1
    BY <1>2, DebtOf
  <2>5. Debt(q) = Len(q.reports) + 0
    BY <2>1, DebtOf
  <2>6. Debt(q) = Debt(p)
    BY <2>1, <2>2, <2>4, <2>5
  <2> QED BY <2>1, <2>3, <2>6 DEF Stays
<1> QED BY <1>1, <1>2

LEMMA SyntaxErrorKeeps == ASSUME NEW p, Fine(p) PROVE Keeps(p, SyntaxError(p))
<1>1. Begun(p)
  BY DEF Begun, Fine
<1> QED BY <1>1, ErrorAtStays, SyntaxErrorFollows DEF Keeps, SyntaxError

LEMMA ErrorAtCurrentKeeps == ASSUME NEW p, Fine(p) PROVE Keeps(p, ErrorAtCurrent(p))
<1>1. Begun(p)
  BY DEF Begun, Fine
<1> QED BY <1>1, ErrorAtStays, ErrorAtCurrentFollows DEF Keeps, ErrorAtCurrent

\* A token is passed, and errors of the scanner up to the next one: all that is
\* new is what they pay.
LEMMA AdvanceReaches ==
    ASSUME NEW p, Fine(p)
    PROVE  LET q == Advance(p)
           IN  /\ Debt(q) = Debt(p)
               /\ CurrentAt(p) \in Nat /\ CurrentAt(q) \in Nat /\ CurrentAt(p) <= CurrentAt(q)
               /\ p.current.type # "EOF" => CurrentAt(p) < CurrentAt(q)
               /\ q.panic_mode /\ ~p.panic_mode =>
                     \E k \in DOMAIN p.tokens : /\ p.tokens[k].type = "ERROR"
                                                /\ CurrentAt(p) < k /\ k < CurrentAt(q)
<1> DEFINE readable == {i \in p.scanned + 1 .. Len(p.tokens) : p.tokens[i].type # "ERROR"}
           next == IF readable = {} THEN Len(p.tokens) + 1 ELSE Min(readable)
           passed == \E i \in p.scanned + 1 .. next - 1 : i \in DOMAIN p.tokens
           e == IF passed THEN ErrorAt(p, Token("ERROR", 0)) ELSE p
           current == IF readable = {} THEN Eof(p.last_line) ELSE p.tokens[next]
           scanned == IF readable = {} THEN Len(p.tokens) ELSE next
           q == [e EXCEPT !.previous = p.current, !.current = current, !.scanned = scanned]
<1>1. Advance(p) = q
  BY DEF Advance
<1>2. p.tokens \in Seq(SourceToken) /\ p.scanned \in Nat /\ p.last_line \in Nat
      /\ Len(p.tokens) \in Nat /\ Begun(p)
      /\ DOMAIN p.tokens = 1 .. Len(p.tokens) /\ p.scanned <= Len(p.tokens)
  BY DEF Begun, Fine, Parser
<1>3. Token("ERROR", 0) \in AnyToken
  BY TokenIsToken DEF TokenTypes
<1>4. /\ e \in Parser /\ e.tokens = p.tokens /\ Debt(e) = Debt(p)
      /\ ~passed => e.panic_mode = p.panic_mode
  BY <1>2, <1>3, ErrorAtBegun, ErrorAtStays DEF Begun, Stays
<1>5. readable # {} => /\ next \in p.scanned + 1 .. Len(p.tokens)
                       /\ p.tokens[next].type # "ERROR"
                       /\ \A i \in p.scanned + 1 .. next - 1 : i \notin readable
  <2>1. readable \subseteq Nat
    BY <1>2
  <2> SUFFICES ASSUME readable # {}
               PROVE  /\ next \in readable
                      /\ \A i \in p.scanned + 1 .. next - 1 : i \notin readable
    OBVIOUS
  <2>2. next \in readable /\ next \in Nat /\ \A i \in readable : next <= i
    BY <2>1, MinOfNats
  <2> HIDE DEF readable, next
  <2>3. ASSUME NEW i \in p.scanned + 1 .. next - 1 PROVE i \notin readable
    BY <1>2, <2>2
  <2> QED BY <2>2, <2>3
<1>6. current.type = "EOF" <=> readable = {}
  <2>1. CASE readable = {}
    BY <1>2, <2>1, EofIsToken
  <2>2. CASE readable # {}
    <3> HIDE DEF readable, next
    <3>1. next \in 1 .. Len(p.tokens)
      BY <1>2, <1>5, <2>2
    <3>2. p.tokens[next] \in SourceToken
      BY <1>2, <3>1
    <3> QED BY <2>2, <3>2, SourceTokens
  <2> QED BY <2>1, <2>2
<1>7. \A i \in p.scanned + 1 .. next - 1 :
          i \in DOMAIN p.tokens => p.tokens[i].type = "ERROR"
  BY <1>2, <1>5
<1>8. next \in p.scanned + 1 .. Len(p.tokens) + 1
  BY <1>2, <1>5
<1> HIDE DEF e
<1>9. /\ q.tokens = p.tokens /\ q.scanned = scanned /\ q.current = current
      /\ q.reports = e.reports /\ q.panic_mode = e.panic_mode
  BY <1>4 DEF Parser
<1> HIDE DEF q, current
<1>10. Debt(q) = Debt(p)
  BY <1>4, <1>9 DEF Debt
<1>11. CurrentAt(q) = next
  BY <1>6, <1>9 DEF CurrentAt
<1>12. /\ p.current.type # "EOF" => CurrentAt(p) = p.scanned
       /\ p.current.type = "EOF" => CurrentAt(p) = Len(p.tokens) + 1 /\ p.scanned = Len(p.tokens)
  BY DEF CurrentAt, Fine
<1> HIDE DEF next, readable
<1>13. /\ CurrentAt(p) \in Nat /\ CurrentAt(q) \in Nat /\ CurrentAt(p) <= CurrentAt(q)
       /\ p.current.type # "EOF" => CurrentAt(p) < CurrentAt(q)
  BY <1>2, <1>8, <1>11, <1>12
<1>14. ASSUME q.panic_mode, ~p.panic_mode
       PROVE  \E k \in DOMAIN p.tokens : /\ p.tokens[k].type = "ERROR"
                                         /\ CurrentAt(p) < k /\ k < CurrentAt(q)
  <2>1. passed
    BY <1>4, <1>9, <1>14
  <2>2. PICK i \in p.scanned + 1 .. next - 1 : i \in DOMAIN p.tokens
    BY <2>1
  <2>3. p.tokens[i].type = "ERROR"
    BY <1>7, <2>2
  <2>4. p.current.type # "EOF"
    BY <1>2, <1>12, <2>2
  <2> QED BY <1>2, <1>8, <1>11, <1>12, <2>2, <2>3, <2>4
<1> QED BY <1>1, <1>10, <1>13, <1>14

\* What has paid stays, and something new pays more.
LEMMA CreditGrows ==
    ASSUME NEW p, NEW q, Fine(p), Fine(q), q.tokens = p.tokens,
           CurrentAt(p) \in Nat, CurrentAt(q) \in Nat, CurrentAt(p) <= CurrentAt(q)
    PROVE  /\ Credit(p) <= Credit(q)
           /\ Paid(p) # Paid(q) \/ Opened(p) # Opened(q) => Credit(p) + 1 <= Credit(q)
<1>1. Paid(p) \subseteq Paid(q) /\ Opened(p) \subseteq Opened(q)
  <2>1. DOMAIN p.tokens \subseteq Nat
    BY DEF Fine, Parser
  <2>2. \A k \in Nat : (k < CurrentAt(p) => k < CurrentAt(q)) /\ (k <= CurrentAt(p) => k <= CurrentAt(q))
    OBVIOUS
  <2> QED BY <2>1, <2>2 DEF Paid, Opened
<1>2. /\ Cardinality(Paid(p)) <= Cardinality(Paid(q))
      /\ Cardinality(Paid(p)) = Cardinality(Paid(q)) => Paid(p) = Paid(q)
      /\ Cardinality(Opened(p)) <= Cardinality(Opened(q))
      /\ Cardinality(Opened(p)) = Cardinality(Opened(q)) => Opened(p) = Opened(q)
  BY <1>1, CreditIsFinite, FS_Subset
<1>3. /\ Cardinality(Paid(p)) \in Nat /\ Cardinality(Opened(p)) \in Nat
      /\ Cardinality(Paid(q)) \in Nat /\ Cardinality(Opened(q)) \in Nat
  BY CreditIsFinite
<1> QED BY <1>2, <1>3 DEF Credit

\* What makes a step from p to q worth a report.
Gains(p, q) ==
    \/ p.current.type \in {"SEMICOLON", "LEFT_BRACE", "DEF"}
    \/ q.current.type \in StatementStarts
    \/ q.panic_mode /\ ~p.panic_mode

LEMMA AdvanceGains ==
    ASSUME NEW p, Fine(p)
    PROVE  LET q == Advance(p)
           IN  /\ Fine(q) /\ Slack(p) <= Slack(q)
               /\ p.current.type # "EOF" /\ Gains(p, q) => Slack(p) + 1 <= Slack(q)
<1> DEFINE q == Advance(p)
<1>1. /\ Debt(q) = Debt(p)
      /\ CurrentAt(p) \in Nat /\ CurrentAt(q) \in Nat /\ CurrentAt(p) <= CurrentAt(q)
      /\ p.current.type # "EOF" => CurrentAt(p) < CurrentAt(q)
      /\ q.panic_mode /\ ~p.panic_mode =>
            \E k \in DOMAIN p.tokens : /\ p.tokens[k].type = "ERROR"
                                       /\ CurrentAt(p) < k /\ k < CurrentAt(q)
  BY AdvanceReaches
<1>2. Fine(q) /\ q.tokens = p.tokens
  BY AdvanceFollows DEF Follows
<1> HIDE DEF q
<1>3. /\ Credit(p) <= Credit(q)
      /\ Paid(p) # Paid(q) \/ Opened(p) # Opened(q) => Credit(p) + 1 <= Credit(q)
  BY <1>1, <1>2, CreditGrows
<1>4. ASSUME p.current.type # "EOF", Gains(p, q) PROVE Paid(p) # Paid(q) \/ Opened(p) # Opened(q)
  <2>1. /\ CurrentAt(p) = p.scanned /\ p.scanned \in DOMAIN p.tokens
        /\ p.tokens[p.scanned] = p.current
    BY <1>4 DEF Fine, CurrentAt
  <2>2. CASE p.current.type \in {"SEMICOLON", "LEFT_BRACE"}
    <3>1. CurrentAt(p) \in Paid(q)
      BY <1>1, <1>2, <1>4, <2>1, <2>2 DEF Paid, Resuming
    <3>2. CurrentAt(p) \notin Paid(p)
      BY <1>1, <2>1, <2>2 DEF Paid, Resuming, StatementStarts
    <3> QED BY <3>1, <3>2
  <2>3. CASE p.current.type = "DEF"
    <3>1. CurrentAt(p) \in Opened(q)
      BY <1>1, <1>2, <1>4, <2>1, <2>3 DEF Opened
    <3>2. CurrentAt(p) \notin Opened(p)
      BY <1>1 DEF Opened
    <3> QED BY <3>1, <3>2
  <2>4. CASE q.current.type \in StatementStarts
    <3>1. q.current.type # "EOF"
      BY <2>4 DEF StatementStarts
    <3>2. CurrentAt(q) = q.scanned /\ q.scanned \in DOMAIN q.tokens /\ q.tokens[q.scanned] = q.current
      BY <1>2, <3>1 DEF Fine, CurrentAt
    <3>3. CurrentAt(q) \in Paid(q)
      BY <1>1, <1>2, <2>4, <3>2 DEF Paid
    <3>4. CurrentAt(q) \notin Paid(p)
      BY <1>1, <1>2, <1>4, <2>4, <3>2 DEF Paid, Resuming, StatementStarts
    <3> QED BY <3>3, <3>4
  <2>5. CASE q.panic_mode /\ ~p.panic_mode
    <3>1. PICK k \in DOMAIN p.tokens : /\ p.tokens[k].type = "ERROR"
                                       /\ CurrentAt(p) < k /\ k < CurrentAt(q)
      BY <1>1, <2>5
    <3>2. k \in Nat
      BY DEF Fine, Parser
    <3>3. k \in Paid(q)
      BY <1>2, <3>1 DEF Paid, Resuming
    <3>4. k \notin Paid(p)
      BY <1>1, <3>1, <3>2 DEF Paid, Resuming, StatementStarts
    <3> QED BY <3>3, <3>4
  <2> QED BY <1>4, <2>2, <2>3, <2>4, <2>5 DEF Gains
<1>5. /\ Slack(p) = 1 + Credit(p) - Debt(p) /\ Slack(q) = 1 + Credit(q) - Debt(q)
      /\ Credit(p) \in Nat /\ Credit(q) \in Nat /\ Debt(p) \in Nat
  BY <1>2, DebtIsNat, CreditIsFinite DEF Slack
<1>6. Slack(p) <= Slack(q) /\ (Credit(p) + 1 <= Credit(q) => Slack(p) + 1 <= Slack(q))
  BY <1>1, <1>3, <1>5
<1> QED BY <1>2, <1>3, <1>4, <1>6 DEF q

LEMMA AdvancePays ==
    ASSUME NEW p, Fine(p)
    PROVE  Pays(p, Advance(p)) /\ Fine(Advance(p)) /\ Slack(Advance(p)) >= Slack(p) + Found(Advance(p))
<1> DEFINE q == Advance(p)
<1>1. Follows(p, q) /\ Fine(q) /\ q.previous = p.current
  BY AdvanceFollows, AdvanceReads
<1>2. Slack(p) <= Slack(q) /\ (p.current.type # "EOF" /\ Gains(p, q) => Slack(p) + 1 <= Slack(q))
  BY AdvanceGains
<1>3. p.current.type = "EOF" => q.current.type = "EOF"
  BY AdvanceBegun DEF Fine, Begun
<1> HIDE DEF q
<1>4. Slack(p) \in Int /\ Slack(q) \in Int
  BY <1>1, SlackIsInt
<1>5. Slack(q) >= Slack(p) + Found(q)
  <2>1. CASE Found(q) = 1
    <3>1. q.current.type # "EOF" /\ (q.previous.type = "SEMICOLON" \/ q.current.type \in StatementStarts)
      BY <2>1 DEF Found
    <3>2. p.current.type # "EOF" /\ Gains(p, q)
      BY <1>1, <1>3, <3>1 DEF Gains
    <3> QED BY <1>2, <1>4, <2>1, <3>2
  <2>2. CASE Found(q) = 0
    BY <1>2, <1>4, <2>2
  <2> QED BY <2>1, <2>2, FoundIsNat
<1> QED BY <1>1, <1>5 DEF Pays, q

LEMMA ConsumePays == ASSUME NEW p, Fine(p), NEW type PROVE Pays(p, Consume(p, type))
BY AdvancePays, ErrorAtCurrentKeeps, KeepsPays DEF Consume
-----------------------------------------------------------------------------
(* Writing bytecode reads nothing and reports at most once. *)

LEMMA SameReports ==
    ASSUME NEW p, NEW q, q.tokens = p.tokens, q.scanned = p.scanned, q.current = p.current,
           q.previous = p.previous, q.panic_mode = p.panic_mode, q.reports = p.reports
    PROVE  Stays(p, q)
BY DEF Stays, Debt

LEMMA WithStays == ASSUME NEW p \in Parser, NEW c PROVE Stays(p, With(p, c))
BY WithFields, SameReports

LEMMA EmitStays ==
    ASSUME NEW p, Fine(p), NEW bytes
    PROVE  Stays(p, Emit(p, bytes))
<1> DEFINE q == Emit(p, bytes)
<1>1. /\ q.tokens = p.tokens /\ q.scanned = p.scanned /\ q.current = p.current
      /\ q.previous = p.previous /\ q.panic_mode = p.panic_mode /\ q.reports = p.reports
  BY DEF Emit, Fine, Parser
<1> QED BY <1>1, SameReports

LEMMA EmitKeeps ==
    ASSUME NEW p, Fine(p), NEW bytes \in Seq(Nat)
    PROVE  Keeps(p, Emit(p, bytes))
BY EmitStays, EmitFollows DEF Keeps

LEMMA EmitOpKeeps == ASSUME NEW p, Fine(p), NEW op \in Ops PROVE Keeps(p, EmitOp(p, op))
<1>1. << Code(op) >> \in Seq(Nat)
  BY CodeOfOp
<1> QED BY <1>1, EmitKeeps DEF EmitOp

LEMMA RegisterConstantKeeps ==
    ASSUME NEW p, Fine(p), NEW v \in Value
    PROVE  Keeps(p, RegisterConstant(p, v))
<1>1. Stays(p, RegisterConstant(p, v))
  <2> DEFINE q == [p EXCEPT !.c.constants = Append(@, v)]
  <2>1. /\ q.tokens = p.tokens /\ q.scanned = p.scanned /\ q.current = p.current
        /\ q.previous = p.previous /\ q.panic_mode = p.panic_mode /\ q.reports = p.reports
    BY DEF Fine, Parser
  <2>2. RegisterConstant(p, v) = p \/ RegisterConstant(p, v) = q
    BY DEF RegisterConstant
  <2> HIDE DEF q
  <2> QED BY <2>1, <2>2, SameReports
<1> QED BY <1>1, RegisterConstantFollows DEF Keeps

LEMMA EmitIndexedKeeps ==
    ASSUME NEW p, Fine(p), NEW op \in Ops, NEW op16 \in Ops, NEW index \in Nat
    PROVE  Keeps(p, EmitIndexed(p, op, op16, index))
<1>1. << Code(op), index >> \in Seq(Nat)
  BY CodeOfOp
<1>2. << Code(op16) >> \o TwoBytes(index) \in Seq(Nat)
  BY CodeOfOp, TwoBytesType
<1> QED BY <1>1, <1>2, EmitKeeps, SyntaxErrorKeeps DEF EmitIndexed

LEMMA EmitConstantKeeps == ASSUME NEW p, Fine(p), NEW v \in Value PROVE Keeps(p, EmitConstant(p, v))
<1>1. "CONSTANT" \in Ops /\ "CONSTANT_16" \in Ops
  BY OpsListed DEF ConstantOps
<1>2. Keeps(p, RegisterConstant(p, v)) /\ Fine(RegisterConstant(p, v))
  BY RegisterConstantKeeps, KeepsPays
<1>3. ConstantIndex(p, v) \in Nat
  BY ConstantIndexIsNat
<1>4. Keeps(RegisterConstant(p, v), EmitConstant(p, v))
  BY <1>1, <1>2, <1>3, EmitIndexedKeeps DEF EmitConstant
<1> QED BY <1>2, <1>4, KeepsOn

LEMMA EmitReturnKeeps == ASSUME NEW p, Fine(p) PROVE Keeps(p, EmitReturn(p))
<1>1. "RETURN" \in Ops /\ "NULL" \in Ops
  BY OpsListed DEF Literals
<1>2. Keeps(p, EmitOp(p, "RETURN")) /\ Keeps(p, EmitOp(p, "NULL")) /\ Fine(EmitOp(p, "NULL"))
  BY <1>1, EmitOpKeeps, KeepsPays
<1>3. Keeps(EmitOp(p, "NULL"), EmitOp(EmitOp(p, "NULL"), "RETURN"))
  BY <1>1, <1>2, EmitOpKeeps
<1> QED BY <1>2, <1>3, KeepsOn DEF EmitReturn

LEMMA EmitJumpKeeps == ASSUME NEW p, Fine(p), NEW op \in Ops PROVE Keeps(p, EmitJump(p, op))
<1>1. << UINT8_MAX, UINT8_MAX >> \in Seq(Nat)
  BY ByteAssumption
<1>2. Keeps(p, EmitOp(p, op)) /\ Fine(EmitOp(p, op))
  BY EmitOpKeeps, KeepsPays
<1>3. Keeps(EmitOp(p, op), EmitJump(p, op))
  BY <1>1, <1>2, EmitKeeps DEF EmitJump
<1> QED BY <1>2, <1>3, KeepsOn

LEMMA PatchJumpKeeps ==
    ASSUME NEW p, Fine(p), NEW offset \in Int
    PROVE  Keeps(p, PatchJump(p, offset))
<1> DEFINE jump == Len(p.c.code) - offset - 2
           q == IF jump > UINT16_MAX THEN SyntaxError(p) ELSE p
           r == [q EXCEPT !.c.code[offset + 1] = TwoBytes(jump)[1],
                          !.c.code[offset + 2] = TwoBytes(jump)[2]]
<1>1. Keeps(p, q) /\ Fine(q)
  BY SyntaxErrorKeeps, KeepsItself, KeepsPays
<1>2. PatchJump(p, offset) = r
  BY DEF PatchJump
<1> HIDE DEF q
<1>3. /\ r.tokens = q.tokens /\ r.scanned = q.scanned /\ r.current = q.current
      /\ r.previous = q.previous /\ r.panic_mode = q.panic_mode /\ r.reports = q.reports
  BY <1>1 DEF Fine, Parser
<1> HIDE DEF r
<1>4. Stays(p, q)
  <2>1. Begun(p)
    BY DEF Begun, Fine
  <2>2. Stays(p, SyntaxError(p)) /\ Stays(p, p)
    BY <2>1, ErrorAtStays DEF SyntaxError, Stays
  <2> QED BY <2>2 DEF q
<1>5. Stays(p, r)
  BY <1>3, <1>4, SameReports, StaysOn
<1> QED BY <1>2, <1>5, PatchJumpFollows DEF Keeps

LEMMA EmitJumpBackKeeps ==
    ASSUME NEW p, Fine(p), NEW offset \in Int
    PROVE  Keeps(p, EmitJumpBack(p, offset))
<1> DEFINE q == EmitOp(p, "JUMP_BACK")
           jump == Len(q.c.code) - offset + 2
           r == IF jump > UINT16_MAX THEN SyntaxError(q) ELSE q
<1>1. Keeps(p, q) /\ Fine(q)
  BY EmitOpKeeps, OpsListed, KeepsPays
<1>2. Keeps(q, r) /\ Fine(r)
  BY <1>1, SyntaxErrorKeeps, KeepsItself, KeepsPays
<1>3. TwoBytes(jump) \in Seq(Nat)
  <2> HIDE DEF q
  <2>1. jump \in Int
    BY <1>1 DEF Fine, Parser, FunctionCompiler
  <2> QED BY <2>1, TwoBytesType
<1>4. EmitJumpBack(p, offset) = Emit(r, TwoBytes(jump))
  BY DEF EmitJumpBack
<1> HIDE DEF q, jump, r
<1>5. Keeps(r, EmitJumpBack(p, offset))
  BY <1>2, <1>3, <1>4, EmitKeeps
<1> QED BY <1>1, <1>2, <1>5, KeepsOn
-----------------------------------------------------------------------------
(* Functions, scopes and local variables. *)

LEMMA BeginFunctionStays == ASSUME NEW p, Fine(p) PROVE Stays(p, BeginFunction(p))
<1> DEFINE q == BeginFunction(p)
<1>1. /\ q.tokens = p.tokens /\ q.scanned = p.scanned /\ q.current = p.current
      /\ q.previous = p.previous /\ q.panic_mode = p.panic_mode /\ q.reports = p.reports
  BY DEF BeginFunction, Fine, Parser
<1> QED BY <1>1, SameReports

\* The return that ends a function reads nothing either.
LEMMA EmitReturnStays == ASSUME NEW p, Fine(p) PROVE Stays(p, EmitReturn(p))
<1>1. << Code("RETURN") >> \in Seq(Nat) /\ << Code("NULL") >> \in Seq(Nat)
  BY OpsListed, CodeOfOp DEF Literals
<1>2. Stays(p, EmitOp(p, "RETURN")) /\ Stays(p, EmitOp(p, "NULL")) /\ Fine(EmitOp(p, "NULL"))
  BY <1>1, EmitStays, EmitFollows DEF EmitOp, Follows
<1>3. Stays(EmitOp(p, "NULL"), EmitOp(EmitOp(p, "NULL"), "RETURN"))
  BY <1>2, EmitStays DEF EmitOp
<1> QED BY <1>2, <1>3, StaysOn DEF EmitReturn

LEMMA EndCompilerStays == ASSUME NEW p, Fine(p) PROVE Stays(p, EndCompiler(p))
<1> DEFINE q == EmitReturn(p)
           r == EndCompiler(p)
<1>1. Stays(p, q) /\ Fine(q)
  BY EmitReturnStays, EmitReturnFollows DEF Follows
<1>2. /\ r.tokens = q.tokens /\ r.scanned = q.scanned /\ r.current = q.current
      /\ r.previous = q.previous /\ r.panic_mode = q.panic_mode /\ r.reports = q.reports
  <2> HIDE DEF q
  <2>1. r = [q EXCEPT !.functions = Append(@, [arity |-> q.c.arity, main |-> q.c.main,
                                               code |-> q.c.code, lines |-> q.c.lines,
                                               constants |-> q.c.constants]),
                      !.c = IF q.enclosing = <<>> THEN @ ELSE Head(q.enclosing),
                      !.enclosing = IF @ = <<>> THEN @ ELSE Tail(@)]
    BY DEF EndCompiler, q
  <2> QED BY <1>1, <2>1 DEF Fine, Parser
<1> QED BY <1>1, <1>2, SameReports, StaysOn

LEMMA BeginScopeStays == ASSUME NEW p, Fine(p) PROVE Stays(p, BeginScope(p)) /\ Fine(BeginScope(p))
BY BeginScopeMoves, WithStays DEF Fine, Moves

LEMMA EndScopeStays ==
    ASSUME NEW p, Fine(p), p.c.scope_depth # 0
    PROVE  Stays(p, EndScope(p))
<1> DEFINE q == Emit(p, Popped(p))
           c == InScope(q.c, p.c.scope_depth - 1, SubSeq(p.c.locals, 1, Kept(p)))
<1>1. Fine(q) /\ EndScope(p) = With(q, c)
  BY EndScopeMoves
<1>2. Stays(p, q)
  BY EmitStays
<1> HIDE DEF q, c
<1> QED BY <1>1, <1>2, WithStays, StaysOn DEF Fine

LEMMA AddLocalKeeps == ASSUME NEW p, Fine(p), NEW name \in Int PROVE Keeps(p, AddLocal(p, name))
<1> DEFINE q == [p EXCEPT !.c.locals =
                    Append(@, [name |-> name, depth |-> -1, read_only |-> TRUE])]
<1>1. CASE Len(p.c.locals) = UINT8_MAX
  BY <1>1, SyntaxErrorKeeps DEF AddLocal
<1>2. CASE Len(p.c.locals) # UINT8_MAX
  <2>1. AddLocal(p, name) = q
    BY <1>2 DEF AddLocal
  <2>2. /\ q.tokens = p.tokens /\ q.scanned = p.scanned /\ q.current = p.current
        /\ q.previous = p.previous /\ q.panic_mode = p.panic_mode /\ q.reports = p.reports
    BY DEF Fine, Parser
  <2> HIDE DEF q
  <2> QED BY <2>1, <2>2, SameReports, AddLocalFollows DEF Keeps
<1> QED BY <1>1, <1>2

LEMMA MarkInitializedKeeps ==
    ASSUME NEW p, Fine(p), NEW read_only \in BOOLEAN
    PROVE  Keeps(p, MarkInitialized(p, read_only))
BY MarkInitializedFollows, WithStays DEF Keeps, Fine

LEMMA ReadNameKeeps == ASSUME NEW p, Fine(p) PROVE Keeps(p, ReadName(p).p)
<1> DEFINE name == p.previous.text
           q == IF \E i \in InThisScope(p) : p.c.locals[i].name = name THEN SyntaxError(p) ELSE p
<1>1. name \in Int
  BY TokenFields DEF Fine, Parser
<1>2. String(name) \in Value
  BY <1>1, StringIsValue
<1>3. Keeps(p, q) /\ Fine(q)
  BY SyntaxErrorKeeps, KeepsItself, KeepsPays
<1> HIDE DEF name, q
<1>4. Keeps(p, AddLocal(q, name))
  BY <1>1, <1>3, AddLocalKeeps, KeepsOn
<1>5. CASE p.c.scope_depth = 0
  BY <1>2, <1>5, RegisterConstantKeeps DEF ReadName, DeclareName, name
<1>6. CASE p.c.scope_depth # 0
  BY <1>4, <1>6 DEF ReadName, DeclareName, name, q
<1> QED BY <1>5, <1>6

LEMMA ParseVariablePays == ASSUME NEW p, Fine(p) PROVE Pays(p, ParseVariable(p).p)
<1> DEFINE q == Consume(p, "IDENTIFIER")
<1>1. Pays(p, q) /\ Fine(q)
  BY ConsumePays, PaysIsFine
<1> HIDE DEF q
<1> QED BY <1>1, ReadNameKeeps, KeepsPays, PaysOn DEF ParseVariable, q

LEMMA DeclareGlobalKeeps ==
    ASSUME NEW p, Fine(p), NEW index \in Nat, NEW read_only
    PROVE  Keeps(p, DeclareGlobal(p, index, read_only))
<1>1. {"DECL_GLOBAL_CONST", "DECL_GLOBAL_CONST_16", "DECL_GLOBAL", "DECL_GLOBAL_16"} \subseteq Ops
  BY OpsListed DEF GlobalOps, DeclGlobalOps
<1> QED BY <1>1, EmitIndexedKeeps DEF DeclareGlobal

LEMMA DefineVariableKeeps ==
    ASSUME NEW p, Fine(p), NEW index \in Int, p.c.scope_depth = 0 => index \in Nat,
           NEW read_only \in BOOLEAN
    PROVE  Keeps(p, DefineVariable(p, index, read_only))
<1>1. p.c.scope_depth \in Nat
  BY DEF Fine, Parser, FunctionCompiler
<1> QED BY <1>1, MarkInitializedKeeps, DeclareGlobalKeeps DEF DefineVariable

LEMMA CountParameterKeeps == ASSUME NEW p, Fine(p) PROVE Keeps(p, CountParameter(p))
<1> DEFINE c == [p.c EXCEPT !.arity = @ + 1]
<1>1. Follows(p, With(p, c)) /\ Keeps(p, With(p, c))
  BY CountParameterFollows, WithStays DEF Keeps, Fine
<1>2. [p EXCEPT !.c.arity = @ + 1] = With(p, c)
  BY DEF With, Fine, Parser, FunctionCompiler
<1> HIDE DEF c
<1>3. CountParameter(p) = ErrorAtCurrent(With(p, c)) \/ CountParameter(p) = With(p, c)
  BY <1>2 DEF CountParameter
<1>4. Fine(With(p, c))
  BY <1>1 DEF Follows
<1>5. Keeps(p, ErrorAtCurrent(With(p, c)))
  BY <1>1, <1>4, ErrorAtCurrentKeeps, KeepsOn
<1> QED BY <1>1, <1>3, <1>5
-----------------------------------------------------------------------------
(* Blocks and declarations. *)

LEMMA EndStays ==
    ASSUME NEW p, NEW q, Fine(p), Follows(p, q), AtEnd(p)
    PROVE  AtEnd(q) /\ Found(q) = 0
<1>1. Left(p) = 0 /\ Left(q) <= 0
  BY DEF Follows, Left, AtEnd
<1>2. q.current.type = "EOF"
  BY <1>1 DEF Follows, Fine, Left, Parser
<1> QED BY <1>2 DEF AtEnd, Found

LEMMA PaysThenBlock ==
    ASSUME NEW p, NEW q, NEW r, Fine(p), Pays(p, q), PaysBlock(q, r)
    PROVE  PaysEnd(p, r) /\ Fine(r)
<1>1. Follows(p, r) /\ Fine(q) /\ Fine(r)
  BY FollowsOn DEF Pays, PaysBlock, PaysEnd, Follows
<1>2. /\ Slack(p) \in Int /\ Slack(q) \in Int /\ Slack(r) \in Int
      /\ Found(q) \in 0 .. 1 /\ Found(r) \in 0 .. 1
  BY <1>1, SlackIsInt, FoundIsNat
<1>3. Slack(q) >= Slack(p)
  BY <1>2, StaysSlack DEF Pays
<1> QED BY <1>1, <1>2, <1>3 DEF PaysBlock, PaysEnd

LEMMA PaysThenEnd ==
    ASSUME NEW p, NEW q, NEW r, Fine(p), Pays(p, q), PaysEnd(q, r)
    PROVE  PaysEnd(p, r) /\ Fine(r)
<1>1. Follows(p, r) /\ Fine(q) /\ Fine(r)
  BY FollowsOn DEF Pays, PaysEnd, Follows
<1>2. /\ Slack(p) \in Int /\ Slack(q) \in Int /\ Slack(r) \in Int
      /\ Found(q) \in 0 .. 1 /\ Found(r) \in 0 .. 1
  BY <1>1, SlackIsInt, FoundIsNat
<1>3. Slack(q) >= Slack(p)
  BY <1>2, StaysSlack DEF Pays
<1> QED BY <1>1, <1>2, <1>3 DEF PaysEnd

LEMMA EndThenPays ==
    ASSUME NEW p, NEW q, NEW r, Fine(p), PaysEnd(p, q), Pays(q, r)
    PROVE  PaysEnd(p, r) /\ Fine(r)
<1>1. Follows(p, r) /\ Fine(q) /\ Fine(r) /\ Follows(q, r)
  BY FollowsOn DEF Pays, PaysEnd, Follows
<1>2. /\ Slack(p) \in Int /\ Slack(q) \in Int /\ Slack(r) \in Int
      /\ Found(q) \in 0 .. 1 /\ Found(r) \in 0 .. 1
  BY <1>1, SlackIsInt, FoundIsNat
<1>3. CASE Stays(q, r)
  <2>1. Slack(r) = Slack(q) /\ Found(r) = Found(q) /\ (AtEnd(r) <=> AtEnd(q))
    BY <1>3, StaysSlack
  <2> QED BY <1>1, <2>1 DEF PaysEnd
<1>4. CASE ~Stays(q, r)
  <2>1. Slack(r) >= Slack(q) + Found(r)
    BY <1>4 DEF Pays
  <2>2. CASE AtEnd(q)
    <3>1. AtEnd(r)
      BY <1>1, <2>2, EndStays
    <3> QED BY <1>1, <1>2, <2>1, <2>2, <3>1 DEF PaysEnd
  <2>3. CASE ~AtEnd(q)
    BY <1>1, <1>2, <2>1, <2>3 DEF PaysEnd
  <2> QED BY <2>2, <2>3
<1> QED BY <1>3, <1>4

\* A declaration, and the rest of the block.
LEMMA DeclarationThenBlock ==
    ASSUME NEW p, NEW q, NEW r, Fine(p), ~AtEnd(p), PaysDeclaration(p, q), PaysBlock(q, r)
    PROVE  PaysBlock(p, r)
<1>1. Follows(p, r) /\ Fine(q) /\ Fine(r) /\ Follows(q, r)
  BY FollowsOn DEF PaysDeclaration, PaysBlock, PaysEnd, Follows
<1>2. /\ Slack(p) \in Int /\ Slack(q) \in Int /\ Slack(r) \in Int
      /\ Found(q) \in 0 .. 1 /\ Found(r) \in 0 .. 1
  BY <1>1, SlackIsInt, FoundIsNat
<1>3. CASE AtEnd(q)
  <2>1. AtEnd(r) /\ Slack(r) >= Slack(q)
    BY <1>1, <1>3, EndStays DEF PaysBlock
  <2>2. Slack(q) + 1 >= Slack(p)
    BY <1>2 DEF PaysDeclaration
  <2> QED BY <1>1, <1>2, <2>1, <2>2 DEF PaysBlock, PaysEnd
<1>4. CASE ~AtEnd(q)
  <2>1. Slack(q) >= Slack(p)
    BY <1>4 DEF PaysDeclaration
  <2>2. Slack(r) >= Slack(q) + (IF AtEnd(r) THEN -1 ELSE Found(r))
    BY DEF PaysBlock, PaysEnd
  <2> QED BY <1>1, <1>2, <2>1, <2>2 DEF PaysBlock, PaysEnd
<1> QED BY <1>3, <1>4

\* What a declaration reads is paid for before it resumes.
LEMMA ReadsAndPays ==
    ASSUME NEW p, NEW q, Fine(p), Reads(p, q), Pays(p, q)
    PROVE  Slack(q) >= Slack(p) + Found(q)
<1>1. CASE Stays(p, q)
  <2>1. Left(q) = Left(p) /\ Left(p) \in Nat
    BY <1>1, LeftIsNat DEF Stays, Left
  <2>2. Left(p) = 0
    BY <2>1 DEF Reads
  <2>3. AtEnd(p)
    BY <2>2 DEF Left, Fine, Parser, AtEnd
  <2>4. Found(q) = 0 /\ Slack(q) = Slack(p) /\ Slack(p) \in Int
    BY <1>1, <2>3, EndStays, StaysSlack, SlackIsInt DEF Pays
  <2> QED BY <2>4
<1>2. CASE ~Stays(p, q)
  BY <1>2 DEF Pays
<1> QED BY <1>1, <1>2

\* To calm down is to owe one more report.
LEMMA CalmOwes ==
    ASSUME NEW p, Fine(p), p.panic_mode
    PROVE  Slack(Calm(p)) = Slack(p) - 1 /\ Found(Calm(p)) = Found(p) /\ ~Calm(p).panic_mode
<1> DEFINE q == Calm(p)
<1>1. /\ q.tokens = p.tokens /\ q.scanned = p.scanned /\ q.current = p.current
      /\ q.previous = p.previous /\ ~q.panic_mode /\ q.reports = p.reports
  BY DEF Calm, Fine, Parser
<1>2. Fine(q)
  BY CalmFollows
<1> HIDE DEF q
<1>3. Found(q) = Found(p) /\ Credit(q) = Credit(p)
  BY <1>1 DEF Found, Credit, Paid, Opened, CurrentAt
<1>4. Debt(p) = Len(p.reports) + 0 /\ Debt(q) = Len(p.reports) + 1 /\ Len(p.reports) \in Nat
  <2>1. Len(p.reports) \in Nat
    BY DEF Fine
  <2> QED BY <1>1, <2>1, DebtOf
<1>5. Credit(p) \in Nat
  BY CreditIsFinite
<1>6. Slack(q) = Slack(p) - 1
  BY <1>3, <1>4, <1>5 DEF Slack
<1> QED BY <1>1, <1>3, <1>6 DEF q

LEMMA ResumesPaid ==
    ASSUME NEW p, NEW q, NEW r, Fine(p), Follows(p, q), Slack(q) >= Slack(p) + Found(q),
           q.panic_mode, Finds(Calm(q), r)
    PROVE  PaysDeclaration(p, r)
<1>1. Fine(q) /\ Follows(q, Calm(q)) /\ Fine(Calm(q)) /\ Follows(Calm(q), r)
  BY CalmFollows DEF Finds, Follows
<1>2. Slack(Calm(q)) = Slack(q) - 1 /\ Found(Calm(q)) = Found(q) /\ ~Calm(q).panic_mode
  BY <1>1, CalmOwes
<1>3. Follows(p, r) /\ Fine(r)
  <2>1. Follows(p, Calm(q))
    BY <1>1, FollowsOn
  <2> QED BY <1>1, <2>1, FollowsOn DEF Follows
<1>4. /\ Slack(p) \in Int /\ Slack(q) \in Int /\ Slack(r) \in Int /\ Slack(Calm(q)) \in Int
      /\ Found(q) \in 0 .. 1
  BY <1>1, <1>3, SlackIsInt, FoundIsNat
<1>5. Slack(r) >= Slack(Calm(q))
  BY DEF Finds
<1>6. CASE Slack(r) >= Slack(Calm(q)) + 1 \/ Found(q) = 1
  <2>1. Slack(r) >= Slack(p)
    BY <1>2, <1>4, <1>5, <1>6
  <2> QED BY <1>3, <2>1 DEF PaysDeclaration
<1>7. CASE AtEnd(r) /\ ~r.panic_mode
  <2>1. Slack(r) + 1 >= Slack(p)
    BY <1>2, <1>4, <1>5
  <2> QED BY <1>3, <1>7, <2>1 DEF PaysDeclaration
<1> QED BY <1>2, <1>6, <1>7 DEF Finds
-----------------------------------------------------------------------------
(* Calls: as Serves and Room, for what they report. *)

\* What a call of the goal pays.
Bill(goal, p, q) ==
    /\ goal \in {"expression", "infix", "ARRAY", "CALL", "statement", "parameters"} => Pays(p, q)
    /\ goal = "block" => PaysBlock(p, q)
    /\ goal = "declaration" => PaysDeclaration(p, q)
    /\ goal = "synchronize" => Finds(p, q)
    /\ goal = "declarations" => (Solvent(p) => Balanced(q))

Spends(parse, calls) ==
    \A goal \in Goals, p \in Parser, number \in Nat :
        /\ Fine(p) /\ 3 * Left(p) + Rank(goal) < calls
        /\ goal \in {"expression", "infix"} => number # 0
        => Bill(goal, p, parse[goal, p, number])

\* There are calls enough for what is left of the source, and some more.
Funds(parse, p, more) ==
    \E calls \in Nat :
        Serves(parse, calls) /\ Spends(parse, calls) /\ 3 * Left(p) + more <= calls

LEMMA FundsAreRoom ==
    ASSUME NEW parse, NEW p, NEW more, Funds(parse, p, more)
    PROVE  Room(parse, p, more)
BY DEF Funds, Room

LEMMA FundsAfter ==
    ASSUME NEW parse, NEW p, NEW q, Fine(p), Moves(p, q) \/ Follows(p, q), NEW more \in Nat,
           Funds(parse, p, more), NEW fewer \in 0 .. more
    PROVE  Funds(parse, q, fewer)
<1>1. PICK calls \in Nat :
          Serves(parse, calls) /\ Spends(parse, calls) /\ 3 * Left(p) + more <= calls
  BY DEF Funds
<1>2. Left(p) \in Nat /\ Left(q) \in Nat /\ Left(q) <= Left(p)
  BY LeftIsNat DEF Follows, Moves
<1>3. 3 * Left(q) + fewer <= calls
  BY <1>1, <1>2
<1> QED BY <1>1, <1>3 DEF Funds

LEMMA FundsPast ==
    ASSUME NEW parse, NEW p, NEW q, Fine(p), Fine(q), Left(q) < Left(p), NEW more \in Nat,
           Funds(parse, p, more), NEW fewer \in 0 .. more + 3
    PROVE  Funds(parse, q, fewer)
<1>1. PICK calls \in Nat :
          Serves(parse, calls) /\ Spends(parse, calls) /\ 3 * Left(p) + more <= calls
  BY DEF Funds
<1>2. Left(p) \in Nat /\ Left(q) \in Nat
  BY LeftIsNat
<1>3. 3 * Left(q) + fewer <= calls
  BY <1>1, <1>2
<1> QED BY <1>1, <1>3 DEF Funds

LEMMA FundsAfterToken ==
    ASSUME NEW parse, NEW p, Fine(p), p.current.type # "EOF", NEW more \in Nat,
           Funds(parse, p, more), NEW fewer \in 0 .. more + 3
    PROVE  Funds(parse, Advance(p), fewer)
BY AdvanceReads, AdvancePasses, FundsPast DEF Reads, Follows

LEMMA Billed ==
    ASSUME NEW parse, NEW p, Fine(p), NEW goal \in Goals, NEW number \in Nat,
           goal \in {"expression", "infix"} => number # 0,
           Funds(parse, p, Rank(goal) + 1)
    PROVE  Bill(goal, p, parse[goal, p, number]) /\ Done(goal, p, parse[goal, p, number])
<1>1. PICK calls \in Nat :
          /\ Serves(parse, calls) /\ Spends(parse, calls)
          /\ 3 * Left(p) + (Rank(goal) + 1) <= calls
  BY DEF Funds
<1>2. Left(p) \in Nat /\ Rank(goal) \in Nat
  BY LeftIsNat DEF Rank
<1>3. 3 * Left(p) + Rank(goal) < calls
  BY <1>1, <1>2
<1> QED BY <1>1, <1>3 DEF Spends, Serves, Fine
-----------------------------------------------------------------------------
(* Expressions. *)

LEMMA ExpressionAtPays ==
    ASSUME NEW parse, NEW p, Fine(p), NEW precedence \in Nat \ {0}, Funds(parse, p, 1)
    PROVE  Pays(p, parse["expression", p, precedence])
<1>1. "expression" \in Goals /\ Rank("expression") + 1 = 1
  BY DEF Goals, Rank
<1> QED BY <1>1, Billed DEF Bill

LEMMA ExpressionPays ==
    ASSUME NEW parse, NEW p, Fine(p), Funds(parse, p, 1)
    PROVE  Pays(p, Expression(parse, p)) /\ Fine(Expression(parse, p))
<1>1. PREC_ASSIGNMENT \in Nat \ {0}
  BY DEF PREC_ASSIGNMENT
<1> QED BY <1>1, ExpressionAtPays, PaysIsFine DEF Expression

LEMMA EndItemsPays ==
    ASSUME NEW p, Fine(p), NEW op \in DOMAIN Closing, NEW count \in Nat
    PROVE  Pays(p, EndItems(p, op, count))
<1>1. << Code(op), count >> \in Seq(Nat)
  BY ClosingOps, CodeOfOp
<1>2. Pays(p, Consume(p, Closing[op])) /\ Fine(Consume(p, Closing[op]))
  BY ConsumePays, PaysIsFine
<1>3. Pays(Consume(p, Closing[op]), EndItems(p, op, count))
  BY <1>1, <1>2, EmitKeeps, KeepsPays DEF EndItems
<1> QED BY <1>2, <1>3, PaysOn

LEMMA CallItemsPays ==
    ASSUME NEW parse, NEW p, Fine(p), NEW op \in DOMAIN Closing, NEW count \in Nat,
           Funds(parse, p, 2)
    PROVE  Pays(p, parse[op, p, count])
<1>1. op \in Goals /\ Rank(op) + 1 = 2 /\ op \in {"ARRAY", "CALL"} /\ op \notin {"expression", "infix"}
  BY ClosingOps
<1> QED BY <1>1, Billed DEF Bill

LEMMA AfterItemPays ==
    ASSUME NEW parse, NEW p, Fine(p), NEW op \in DOMAIN Closing, NEW count \in Nat,
           Funds(parse, p, 0)
    PROVE  Pays(p, AfterItem(parse, p, op, count))
<1>1. CASE Check(p, "COMMA")
  <2>1. Funds(parse, Advance(p), 2)
    BY <1>1, FundsAfterToken DEF Check
  <2>2. Pays(p, Advance(p)) /\ Fine(Advance(p))
    BY AdvancePays
  <2>3. Pays(Advance(p), parse[op, Advance(p), count])
    BY <2>1, <2>2, CallItemsPays
  <2> QED BY <1>1, <2>2, <2>3, PaysOn DEF AfterItem
<1>2. CASE ~Check(p, "COMMA")
  BY <1>2, EndItemsPays DEF AfterItem
<1> QED BY <1>1, <1>2

LEMMA ParseItemsPays ==
    ASSUME NEW parse, NEW p, Fine(p), NEW op \in DOMAIN Closing, NEW count \in Nat,
           Funds(parse, p, 1)
    PROVE  Pays(p, ParseItems(parse, p, op, count))
<1> DEFINE q == Expression(parse, p)
           r == CountItem(q, count)
           next == (count + 1) % ByteSize
<1>1. Pays(p, q) /\ Fine(q)
  BY ExpressionPays
<1>2. Pays(q, r)
  BY <1>1, SyntaxErrorKeeps, KeepsPays, PaysItself DEF CountItem
<1>3. Pays(p, r) /\ Fine(r) /\ Follows(p, r)
  BY <1>1, <1>2, PaysOn, PaysIsFine
<1>4. Funds(parse, r, 0)
  BY <1>3, FundsAfter
<1>5. next \in Nat
  BY ByteSizeIsNat
<1> HIDE DEF next, q, r
<1>6. Pays(r, AfterItem(parse, r, op, next))
  BY <1>3, <1>4, <1>5, AfterItemPays
<1> QED BY <1>3, <1>6, PaysOn DEF ParseItems, next, q, r

LEMMA ItemListPays ==
    ASSUME NEW parse, NEW p, Fine(p), NEW op \in DOMAIN Closing, Funds(parse, p, 2)
    PROVE  Pays(p, ItemList(parse, p, op))
BY EndItemsPays, CallItemsPays DEF ItemList

LEMMA RuleGroupingPays ==
    ASSUME NEW parse, NEW p, Fine(p), Funds(parse, p, 1)
    PROVE  Pays(p, RuleGrouping(parse, p))
BY ExpressionPays, ConsumePays, PaysOn DEF RuleGrouping

LEMMA RuleNumberPays ==
    ASSUME NEW p, Fine(p), NEW n \in Int
    PROVE  Pays(p, RuleNumber(p, n))
<1>1. "ZERO" \in Ops /\ "ONE" \in Ops
  BY OpsListed DEF Literals
<1> QED BY <1>1, EmitOpKeeps, EmitConstantKeeps, KeepsPays, NumberIsValue DEF RuleNumber

LEMMA LocalVariablePays ==
    ASSUME NEW parse, NEW p, Fine(p), NEW slot \in Nat, NEW assignable, Funds(parse, p, 0)
    PROVE  Pays(p, LocalVariable(parse, p, slot, assignable))
<1> DEFINE q == Advance(p)
           r == Expression(parse, q)
<1>1. << Code("SET_LOCAL"), slot >> \in Seq(Nat) /\ << Code("GET_LOCAL"), slot >> \in Seq(Nat)
  BY OpsListed, CodeOfOp
<1>2. Pays(p, q) /\ Fine(q)
  BY AdvancePays
<1>3. Pays(p, SyntaxError(q))
  BY <1>2, SyntaxErrorKeeps, KeepsPays, PaysOn
<1>4. CASE assignable /\ Check(p, "EQUAL")
  <2>1. Funds(parse, q, 1)
    BY <1>4, FundsAfterToken DEF Check
  <2>2. Pays(q, r) /\ Fine(r)
    BY <1>2, <2>1, ExpressionPays
  <2> HIDE DEF r
  <2>3. Pays(r, Emit(r, << Code("SET_LOCAL"), slot >>))
    BY <1>1, <2>2, EmitKeeps, KeepsPays
  <2>4. Pays(q, Emit(r, << Code("SET_LOCAL"), slot >>))
    BY <1>2, <2>2, <2>3, PaysOn
  <2>5. Pays(p, Emit(r, << Code("SET_LOCAL"), slot >>))
    BY <1>2, <2>4, PaysOn
  <2>6. CASE p.c.locals[slot + 1].read_only
    BY <1>3, <1>4, <2>6 DEF LocalVariable
  <2>7. CASE ~p.c.locals[slot + 1].read_only
    <3>1. LocalVariable(parse, p, slot, assignable) = Emit(r, << Code("SET_LOCAL"), slot >>)
      BY <1>4, <2>7 DEF LocalVariable, r
    <3> QED BY <2>5, <3>1
  <2> QED BY <2>6, <2>7
<1>5. CASE ~(assignable /\ Check(p, "EQUAL"))
  BY <1>1, <1>5, EmitKeeps, KeepsPays DEF LocalVariable
<1> QED BY <1>4, <1>5

LEMMA GlobalVariablePays ==
    ASSUME NEW parse, NEW p, Fine(p), NEW name \in Int, NEW assignable, Funds(parse, p, 0)
    PROVE  Pays(p, GlobalVariable(parse, p, name, assignable))
<1> DEFINE index == ConstantIndex(p, String(name))
           registered == RegisterConstant(p, String(name))
           q == IF index > UINT16_MAX THEN SyntaxError(registered) ELSE registered
           r == Expression(parse, Advance(q))
<1>1. {"SET_GLOBAL", "SET_GLOBAL_16", "GET_GLOBAL", "GET_GLOBAL_16"} \subseteq Ops
  BY OpsListed DEF GlobalOps, SetGlobalOps, GetGlobalOps
<1>2. index \in Nat
  BY ConstantIndexIsNat
<1>3. Pays(p, registered) /\ Fine(registered)
  BY StringIsValue, RegisterConstantKeeps, KeepsPays, PaysIsFine
<1>4. Pays(p, q) /\ Fine(q) /\ Follows(p, q)
  BY <1>3, SyntaxErrorKeeps, KeepsPays, PaysOn, PaysIsFine
<1>5. GlobalVariable(parse, p, name, assignable) =
        IF assignable /\ Check(q, "EQUAL") THEN EmitIndexed(r, "SET_GLOBAL", "SET_GLOBAL_16", index)
        ELSE EmitIndexed(q, "GET_GLOBAL", "GET_GLOBAL_16", index)
  BY DEF GlobalVariable
<1> HIDE DEF index, registered, q
<1>6. CASE assignable /\ Check(q, "EQUAL")
  <2>1. Funds(parse, q, 0)
    BY <1>4, FundsAfter
  <2>2. Funds(parse, Advance(q), 1)
    BY <1>4, <1>6, <2>1, FundsAfterToken DEF Check
  <2>3. Pays(q, Advance(q)) /\ Pays(Advance(q), r) /\ Fine(r) /\ Fine(Advance(q))
    BY <1>4, <2>2, AdvancePays, ExpressionPays
  <2>4. Pays(p, r)
    BY <1>4, <2>3, PaysOn
  <2>5. Pays(r, EmitIndexed(r, "SET_GLOBAL", "SET_GLOBAL_16", index))
    BY <1>1, <1>2, <2>3, EmitIndexedKeeps, KeepsPays
  <2> QED BY <1>5, <1>6, <2>4, <2>5, PaysOn
<1>7. CASE ~(assignable /\ Check(q, "EQUAL"))
  <2>1. Pays(q, EmitIndexed(q, "GET_GLOBAL", "GET_GLOBAL_16", index))
    BY <1>1, <1>2, <1>4, EmitIndexedKeeps, KeepsPays
  <2> QED BY <1>4, <1>5, <1>7, <2>1, PaysOn
<1> QED BY <1>6, <1>7

LEMMA RuleVariablePays ==
    ASSUME NEW parse, NEW p, Fine(p), NEW assignable, Funds(parse, p, 0)
    PROVE  Pays(p, RuleVariable(parse, p, assignable))
<1> DEFINE name == p.previous.text
           slot == GetLocalVariable(p.c, name)
           q == IF p.c.locals[slot + 1].depth = -1 THEN SyntaxError(p) ELSE p
<1>1. name \in Int
  BY TokenFields DEF Fine, Parser
<1>2. slot = -1 \/ slot \in Nat
  BY GetLocalVariableType DEF Fine, Parser
<1>3. Pays(p, q) /\ Fine(q) /\ Follows(p, q)
  BY SyntaxErrorKeeps, KeepsPays, PaysItself, PaysIsFine
<1>4. RuleVariable(parse, p, assignable) =
        IF slot = -1 THEN GlobalVariable(parse, p, name, assignable)
        ELSE LocalVariable(parse, q, slot, assignable)
  BY DEF RuleVariable
<1> HIDE DEF name, slot, q
<1>5. Funds(parse, q, 0)
  BY <1>3, FundsAfter
<1>6. slot \in Nat => Pays(p, LocalVariable(parse, q, slot, assignable))
  BY <1>3, <1>5, LocalVariablePays, PaysOn
<1> QED BY <1>1, <1>2, <1>4, <1>6, GlobalVariablePays

LEMMA RuleShortCircuitPays ==
    ASSUME NEW parse, NEW p, Fine(p), NEW op \in Ops, NEW precedence \in Nat \ {0},
           Funds(parse, p, 1)
    PROVE  Pays(p, RuleShortCircuit(parse, p, op, precedence))
<1> DEFINE q == EmitJump(p, op)
           r == EmitOp(q, "POP")
           s == parse["expression", r, precedence]
<1>1. Pays(p, q) /\ JumpOffset(q) \in Int /\ Fine(q)
  BY EmitJumpFollows, EmitJumpKeeps, KeepsPays, PaysIsFine
<1>2. Pays(p, r) /\ Fine(r) /\ Follows(p, r)
  BY <1>1, OpsListed, EmitOpKeeps, KeepsPays, PaysOn, PaysIsFine
<1>3. Funds(parse, r, 1)
  BY <1>2, FundsAfter
<1>4. Pays(r, s) /\ Fine(s)
  <2> HIDE DEF r
  <2>1. Pays(r, s)
    BY <1>2, <1>3, ExpressionAtPays
  <2> QED BY <2>1, PaysIsFine
<1>5. Pays(s, PatchJump(s, JumpOffset(q)))
  BY <1>1, <1>4, PatchJumpKeeps, KeepsPays
<1>6. RuleShortCircuit(parse, p, op, precedence) = PatchJump(s, JumpOffset(q))
  BY DEF RuleShortCircuit
<1> HIDE DEF r, s
<1>7. Pays(p, s)
  BY <1>2, <1>4, PaysOn
<1> QED BY <1>5, <1>6, <1>7, PaysOn

LEMMA RuleSubscriptPays ==
    ASSUME NEW parse, NEW p, Fine(p), NEW assignable, Funds(parse, p, 1)
    PROVE  Pays(p, RuleSubscript(parse, p, assignable))
<1> DEFINE q == Consume(Expression(parse, p), "RIGHT_BRACKET")
           r == Expression(parse, Advance(q))
<1>1. Pays(p, q) /\ Fine(q) /\ Follows(p, q)
  BY ExpressionPays, ConsumePays, PaysOn, PaysIsFine
<1>2. RuleSubscript(parse, p, assignable) =
        IF assignable /\ Check(q, "EQUAL") THEN EmitOp(r, "SUBSCRIPT_SET") ELSE EmitOp(q, "SUBSCRIPT_GET")
  BY DEF RuleSubscript
<1>3. "SUBSCRIPT_SET" \in Ops /\ "SUBSCRIPT_GET" \in Ops
  BY OpsListed
<1> HIDE DEF q
<1>4. CASE assignable /\ Check(q, "EQUAL")
  <2>1. Funds(parse, q, 0)
    BY <1>1, FundsAfter
  <2>2. Funds(parse, Advance(q), 1)
    BY <1>1, <1>4, <2>1, FundsAfterToken DEF Check
  <2>3. Pays(q, Advance(q)) /\ Pays(Advance(q), r) /\ Fine(r) /\ Fine(Advance(q))
    BY <1>1, <2>2, AdvancePays, ExpressionPays
  <2>4. Pays(r, EmitOp(r, "SUBSCRIPT_SET"))
    BY <1>3, <2>3, EmitOpKeeps, KeepsPays
  <2> QED BY <1>1, <1>2, <1>4, <2>3, <2>4, PaysOn
<1>5. CASE ~(assignable /\ Check(q, "EQUAL"))
  BY <1>1, <1>2, <1>3, <1>5, EmitOpKeeps, KeepsPays, PaysOn
<1> QED BY <1>4, <1>5

LEMMA OperandThenOpPays ==
    ASSUME NEW parse, NEW p, Fine(p), NEW precedence \in Nat \ {0}, NEW op \in Ops,
           Funds(parse, p, 1)
    PROVE  Pays(p, EmitOp(parse["expression", p, precedence], op))
<1> DEFINE q == parse["expression", p, precedence]
<1>1. Pays(p, q) /\ Fine(q)
  BY ExpressionAtPays, PaysIsFine
<1> HIDE DEF q
<1>2. Pays(p, EmitOp(q, op))
  BY <1>1, EmitOpKeeps, KeepsPays, PaysOn
<1> QED BY <1>2 DEF q

LEMMA PrefixRulePays ==
    ASSUME NEW parse, NEW p, Fine(p), NEW assignable, p.previous.type \in PrefixTokens,
           Funds(parse, p, 2)
    PROVE  Pays(p, PrefixRule(parse, p, assignable))
<1> DEFINE type == p.previous.type
<1>1. Funds(parse, p, 1) /\ Funds(parse, p, 0)
  BY FundsAfter, FollowsItself
<1>2. p.previous.text \in Int
  BY TokenFields DEF Fine, Parser
<1>3. CASE type = "LEFT_PAREN"
  BY <1>1, <1>3, RuleGroupingPays, OperatorTables DEF PrefixRule
<1>4. CASE type = "LEFT_BRACKET"
  BY <1>4, ItemListPays, ClosingOps, OperatorTables DEF PrefixRule
<1>5. CASE type \in DOMAIN UnaryCode
  <2>1. PREC_UNARY \in Nat \ {0} /\ UnaryCode[type] \in Ops
    BY <1>5, OpsListed, OperatorTables DEF PREC_UNARY
  <2>2. PrefixRule(parse, p, assignable)
            = EmitOp(parse["expression", p, PREC_UNARY], UnaryCode[type])
    BY <1>5, OperatorTables DEF PrefixRule
  <2> QED BY <1>1, <2>1, <2>2, OperandThenOpPays
<1>6. CASE type = "IDENTIFIER"
  BY <1>1, <1>6, RuleVariablePays, OperatorTables DEF PrefixRule
<1>7. CASE type = "STRING"
  BY <1>2, <1>7, EmitConstantKeeps, KeepsPays, StringIsValue, OperatorTables DEF PrefixRule
<1>8. CASE type = "NUMBER"
  BY <1>2, <1>8, RuleNumberPays, OperatorTables DEF PrefixRule
<1>9. CASE type \in {"FALSE", "NULL", "TRUE"}
  <2>1. type \in Ops
    BY <1>9, OpsListed DEF Literals
  <2> QED BY <1>9, <2>1, EmitOpKeeps, KeepsPays, OperatorTables DEF PrefixRule
<1> QED BY <1>3, <1>4, <1>5, <1>6, <1>7, <1>8, <1>9, OperatorTables DEF PrefixTokens

LEMMA InfixRulePays ==
    ASSUME NEW parse, NEW p, Fine(p), NEW assignable, Precedence(p.previous.type) # 0,
           Funds(parse, p, 2)
    PROVE  Pays(p, InfixRule(parse, p, assignable))
<1> DEFINE type == p.previous.type
<1>1. Funds(parse, p, 1)
  BY FundsAfter, FollowsItself
<1>2. CASE type = "LEFT_PAREN"
  BY <1>2, ItemListPays, ClosingOps, PrecedenceOfOperators DEF InfixRule
<1>3. CASE type = "LEFT_BRACKET"
  BY <1>1, <1>3, RuleSubscriptPays, PrecedenceOfOperators DEF InfixRule
<1>4. CASE type = "AMPER_AMPER"
  <2>1. InfixRule(parse, p, assignable) = RuleShortCircuit(parse, p, "JUMP_IF_FALSE", PREC_AND)
    BY <1>4, PrecedenceOfOperators DEF InfixRule
  <2>2. PREC_AND \in Nat \ {0} /\ "JUMP_IF_FALSE" \in Ops
    BY OpsListed DEF PREC_AND
  <2> QED BY <1>1, <2>1, <2>2, RuleShortCircuitPays
<1>5. CASE type = "PIPE_PIPE"
  <2>1. InfixRule(parse, p, assignable) = RuleShortCircuit(parse, p, "JUMP_IF_TRUE", PREC_OR)
    BY <1>5, PrecedenceOfOperators DEF InfixRule
  <2>2. PREC_OR \in Nat \ {0} /\ "JUMP_IF_TRUE" \in Ops
    BY OpsListed DEF PREC_OR
  <2> QED BY <1>1, <2>1, <2>2, RuleShortCircuitPays
<1>6. CASE type \in DOMAIN BinaryCode
  <2>1. Precedence(type) + 1 \in Nat \ {0}
    BY PrecedenceOfOperators
  <2>2. BinaryCode[type] \in Ops
    BY <1>6, OpsListed, OperatorTables
  <2>3. type \notin {"LEFT_PAREN", "LEFT_BRACKET", "AMPER_AMPER", "PIPE_PIPE"}
    BY <1>6, PrecedenceOfOperators
  <2>4. InfixRule(parse, p, assignable)
            = EmitOp(parse["expression", p, Precedence(type) + 1], BinaryCode[type])
    BY <1>6, <2>3 DEF InfixRule
  <2> QED BY <1>1, <2>1, <2>2, <2>4, OperandThenOpPays
<1> QED BY <1>2, <1>3, <1>4, <1>5, <1>6, PrecedenceOfOperators

LEMMA InfixAtPays ==
    ASSUME NEW parse, NEW p, Fine(p), NEW precedence \in Nat \ {0}, Funds(parse, p, 1)
    PROVE  Pays(p, parse["infix", p, precedence])
<1>1. "infix" \in Goals /\ Rank("infix") + 1 = 1
  BY DEF Goals, Rank
<1> QED BY <1>1, Billed DEF Bill

LEMMA InfixRulesPays ==
    ASSUME NEW parse, NEW p, Fine(p), NEW precedence \in Nat \ {0}, Funds(parse, p, 0)
    PROVE  Pays(p, InfixRules(parse, p, precedence))
<1> DEFINE q == Advance(p)
           r == InfixRule(parse, q, Assignable(precedence))
<1>1. CASE precedence <= Precedence(p.current.type)
  <2>1. Precedence(p.current.type) # 0 /\ p.current.type # "EOF"
    BY <1>1, PrecedenceOfOperators
  <2>2. Pays(p, q) /\ Fine(q) /\ q.previous = p.current
    BY AdvancePays, AdvanceReads
  <2>3. Funds(parse, q, 2)
    BY <2>1, FundsAfterToken
  <2>4. Pays(q, r) /\ Fine(r) /\ Follows(q, r)
    BY <2>1, <2>2, <2>3, InfixRulePays, PaysIsFine
  <2>5. Funds(parse, r, 1)
    BY <2>2, <2>3, <2>4, FundsAfter
  <2> HIDE DEF r
  <2>6. Pays(r, parse["infix", r, precedence])
    BY <2>4, <2>5, InfixAtPays
  <2>7. Pays(p, parse["infix", r, precedence])
    BY <2>2, <2>4, <2>6, PaysOn
  <2> QED BY <1>1, <2>7 DEF InfixRules, r
<1>2. CASE ~(precedence <= Precedence(p.current.type))
  BY <1>2, PaysItself DEF InfixRules
<1> QED BY <1>1, <1>2

LEMMA RefuseAssignmentPays ==
    ASSUME NEW p, Fine(p), NEW assignable
    PROVE  Pays(p, RefuseAssignment(p, assignable))
BY AdvancePays, SyntaxErrorKeeps, KeepsPays, PaysItself, PaysOn DEF RefuseAssignment

LEMMA AfterFirstPays ==
    ASSUME NEW parse, NEW p, Fine(p), NEW precedence \in Nat \ {0},
           p.previous.type \in PrefixTokens => Funds(parse, p, 2)
    PROVE  Pays(p, AfterFirst(parse, p, precedence))
<1> DEFINE q == PrefixRule(parse, p, Assignable(precedence))
           r == parse["infix", q, precedence]
<1>1. CASE p.previous.type \notin PrefixTokens
  BY <1>1, SyntaxErrorKeeps, KeepsPays DEF AfterFirst
<1>2. CASE p.previous.type \in PrefixTokens
  <2>1. Pays(p, q) /\ Fine(q) /\ Follows(p, q)
    BY <1>2, PrefixRulePays, PaysIsFine
  <2>2. Funds(parse, q, 1)
    BY <1>2, <2>1, FundsAfter
  <2> HIDE DEF q
  <2>3. Pays(q, r)
    BY <2>1, <2>2, InfixAtPays
  <2> HIDE DEF r
  <2>4. Pays(p, r) /\ Fine(r)
    BY <2>1, <2>3, PaysOn
  <2>5. Pays(p, RefuseAssignment(r, Assignable(precedence)))
    BY <2>4, RefuseAssignmentPays, PaysOn
  <2> QED BY <1>2, <2>5 DEF AfterFirst, q, r
<1> QED BY <1>1, <1>2

LEMMA ParsePrecedencePays ==
    ASSUME NEW parse, NEW p, Fine(p), NEW precedence \in Nat \ {0}, Funds(parse, p, 0)
    PROVE  Pays(p, ParsePrecedence(parse, p, precedence))
<1>1. Pays(p, Advance(p)) /\ Fine(Advance(p)) /\ Advance(p).previous = p.current
  BY AdvanceReads, AdvancePays
<1>2. p.current.type \in PrefixTokens => Funds(parse, Advance(p), 2)
  BY FundsAfterToken DEF PrefixTokens
<1>3. Pays(Advance(p), ParsePrecedence(parse, p, precedence))
  BY <1>1, <1>2, AfterFirstPays DEF ParsePrecedence
<1> QED BY <1>1, <1>3, PaysOn
-----------------------------------------------------------------------------
(* Statements. *)

LEMMA ExpressionStatementPays ==
    ASSUME NEW parse, NEW p, Fine(p), Funds(parse, p, 1)
    PROVE  Pays(p, ExpressionStatement(parse, p))
<1> DEFINE q == Expression(parse, p)
           r == Consume(q, "SEMICOLON")
<1>1. Pays(p, q) /\ Fine(q)
  BY ExpressionPays
<1>2. Pays(q, r) /\ Fine(r)
  BY <1>1, ConsumePays, PaysIsFine
<1>3. Pays(r, EmitOp(r, "POP"))
  BY <1>2, OpsListed, EmitOpKeeps, KeepsPays
<1> QED BY <1>1, <1>2, <1>3, PaysOn DEF ExpressionStatement

LEMMA InitializerPays ==
    ASSUME NEW parse, NEW p, Fine(p), Funds(parse, p, 0)
    PROVE  Pays(p, Initializer(parse, p))
<1> DEFINE q == Advance(p)
<1>1. "NULL" \in Ops
  BY OpsListed DEF Literals
<1>2. CASE Check(p, "EQUAL")
  <2>1. Funds(parse, q, 1)
    BY <1>2, FundsAfterToken DEF Check
  <2>2. Pays(p, q) /\ Pays(q, Expression(parse, q))
    BY <2>1, AdvancePays, ExpressionPays
  <2> QED BY <1>2, <2>2, PaysOn DEF Initializer
<1>3. CASE ~Check(p, "EQUAL")
  BY <1>1, <1>3, EmitOpKeeps, KeepsPays DEF Initializer
<1> QED BY <1>2, <1>3

LEMMA VarDeclarationPays ==
    ASSUME NEW parse, NEW p, Fine(p), NEW read_only \in BOOLEAN, Funds(parse, p, 0)
    PROVE  Pays(p, VarDeclaration(parse, p, read_only))
<1> DEFINE v == ParseVariable(p)
           q == Initializer(parse, v.p)
           r == Consume(q, "SEMICOLON")
<1>1. Pays(p, v.p) /\ v.index \in Int /\ (p.c.scope_depth = 0 => v.index \in Nat)
  BY ParseVariableFollows, ParseVariablePays
<1>2. VarDeclaration(parse, p, read_only) = DefineVariable(r, v.index, read_only)
  BY DEF VarDeclaration
<1> HIDE DEF v
<1>3. Funds(parse, v.p, 0) /\ Fine(v.p)
  BY <1>1, FundsAfter, PaysIsFine
<1>4. Pays(v.p, q) /\ Fine(q)
  BY <1>3, InitializerPays, PaysIsFine
<1>5. Pays(q, r)
  BY <1>4, ConsumePays
<1>6. Pays(p, r)
  BY <1>1, <1>4, <1>5, PaysOn
<1> HIDE DEF r
<1>7. Fine(r) /\ r.c.scope_depth = p.c.scope_depth
  BY <1>6 DEF Pays, Follows
<1>8. Pays(r, DefineVariable(r, v.index, read_only))
  BY <1>1, <1>7, DefineVariableKeeps, KeepsPays
<1> QED BY <1>2, <1>6, <1>8, PaysOn

LEMMA ParameterPays == ASSUME NEW p, Fine(p) PROVE Pays(p, Parameter(p))
<1> DEFINE q == CountParameter(p)
           r == ParseVariable(q).p
<1>1. Pays(p, q) /\ Fine(q)
  BY CountParameterKeeps, KeepsPays, PaysIsFine
<1>2. Pays(q, r) /\ Fine(r)
  BY <1>1, ParseVariablePays, PaysIsFine
<1>3. Pays(r, MarkInitialized(r, FALSE))
  BY <1>2, MarkInitializedKeeps, KeepsPays
<1> QED BY <1>1, <1>2, <1>3, PaysOn DEF Parameter

LEMMA ParametersAtPays ==
    ASSUME NEW parse, NEW p, Fine(p), Funds(parse, p, 1)
    PROVE  Pays(p, parse["parameters", Parameter(p), 0])
<1> DEFINE q == Parameter(p)
<1>1. Pays(p, q) /\ Fine(q) /\ Follows(p, q)
  BY ParameterPays, PaysIsFine
<1>2. Funds(parse, q, 1)
  BY <1>1, FundsAfter
<1>3. "parameters" \in Goals /\ Rank("parameters") + 1 = 1
      /\ "parameters" \notin {"expression", "infix"}
  BY DEF Goals, Rank
<1> HIDE DEF q
<1>4. Pays(q, parse["parameters", q, 0])
  BY <1>1, <1>2, <1>3, Billed DEF Bill
<1>5. Pays(p, parse["parameters", q, 0])
  BY <1>1, <1>4, PaysOn
<1> QED BY <1>5 DEF q

LEMMA ParametersPays ==
    ASSUME NEW parse, NEW p, Fine(p), Funds(parse, p, 0)
    PROVE  Pays(p, Parameters(parse, p))
<1>1. CASE Check(p, "COMMA")
  <2>1. Pays(p, Advance(p)) /\ Fine(Advance(p)) /\ Funds(parse, Advance(p), 1)
    BY <1>1, AdvancePays, FundsAfterToken DEF Check
  <2> QED BY <1>1, <2>1, ParametersAtPays, PaysOn DEF Parameters
<1>2. CASE ~Check(p, "COMMA")
  BY <1>2, PaysItself DEF Parameters
<1> QED BY <1>1, <1>2

LEMMA ParameterListPays ==
    ASSUME NEW parse, NEW p, Fine(p), Funds(parse, p, 1)
    PROVE  Pays(p, ParameterList(parse, p))
BY PaysItself, ParametersAtPays DEF ParameterList

LEMMA EmitFunctionKeeps == ASSUME NEW p, Fine(p) PROVE Keeps(p, EmitFunction(p))
<1>1. p.base + Len(p.functions) \in Int
  BY DEF Fine, Parser
<1> QED BY <1>1, FunctionIsValue, EmitConstantKeeps DEF EmitFunction

LEMMA BlockAtPays ==
    ASSUME NEW parse, NEW p, Fine(p), Funds(parse, p, 3)
    PROVE  PaysBlock(p, parse["block", p, 0])
<1>1. "block" \in Goals /\ Rank("block") + 1 = 3 /\ "block" \notin {"expression", "infix"}
  BY DEF Goals, Rank
<1> QED BY <1>1, Billed DEF Bill

\* What is begun before a block and ended after it reads nothing.
LEMMA EndAround ==
    ASSUME NEW p, NEW q, NEW r, NEW s, Fine(p), Fine(s), Stays(p, q), PaysEnd(q, r), Stays(r, s)
    PROVE  Slack(s) >= Slack(p) + (IF AtEnd(s) THEN -1 ELSE Found(s))
BY StaysSlack DEF PaysEnd

LEMMA ParseFunctionPays ==
    ASSUME NEW parse, NEW p, Fine(p), Funds(parse, p, 3)
    PROVE  PaysEnd(p, ParseFunction(parse, p))
<1> DEFINE q == BeginFunction(p)
           inside == BeginScope(q)
           open == Consume(inside, "LEFT_PAREN")
           header == ParameterList(parse, open)
           close == Consume(header, "RIGHT_PAREN")
           body == Consume(close, "LEFT_BRACE")
           block == parse["block", body, 0]
           end == EndCompiler(block)
<1>1. Moves(p, q) /\ Fine(q) /\ Stays(p, q)
  BY BeginFunctionMoves, BeginFunctionStays DEF Moves
<1>2. Moves(q, inside) /\ Fine(inside) /\ Stays(q, inside)
  BY <1>1, BeginScopeMoves, BeginScopeStays DEF Moves
<1>3. ParseFunction(parse, p) = EmitFunction(end)
  BY DEF ParseFunction
<1> HIDE DEF q, inside
<1>4. Moves(p, inside) /\ Stays(p, inside)
  BY <1>1, <1>2, MovesOn, StaysOn
<1>5. Pays(inside, open) /\ Fine(open) /\ Follows(inside, open)
  BY <1>2, ConsumePays, PaysIsFine
<1>6. Funds(parse, inside, 3)
  BY <1>4, FundsAfter
<1>7. Funds(parse, open, 3) /\ Funds(parse, open, 1)
  BY <1>2, <1>5, <1>6, FundsAfter
<1> HIDE DEF open
<1>8. Pays(open, header) /\ Fine(header)
  BY <1>5, <1>7, ParameterListPays, PaysIsFine
<1>9. Pays(header, close) /\ Fine(close)
  BY <1>8, ConsumePays, PaysIsFine
<1>10. Pays(close, body) /\ Fine(body)
  BY <1>9, ConsumePays, PaysIsFine
<1> HIDE DEF header, close, body
<1>11. Pays(open, close)
  BY <1>5, <1>8, <1>9, PaysOn
<1>12. Pays(open, body) /\ Follows(open, body)
  BY <1>5, <1>10, <1>11, PaysOn, PaysIsFine
<1>13. Funds(parse, body, 3)
  BY <1>5, <1>7, <1>12, FundsAfter
<1>14. PaysBlock(body, block)
  BY <1>10, <1>13, BlockAtPays
<1> HIDE DEF block
<1>15. Pays(inside, body)
  BY <1>2, <1>5, <1>12, PaysOn
<1>16. PaysEnd(inside, block) /\ Fine(block)
  BY <1>2, <1>14, <1>15, PaysThenBlock
<1>17. Stays(block, end) /\ Fine(end)
  BY <1>16, EndCompilerStays, EndCompilerMoves DEF Moves
<1> HIDE DEF end
<1>18. Slack(end) >= Slack(p) + (IF AtEnd(end) THEN -1 ELSE Found(end))
  BY <1>4, <1>16, <1>17, EndAround
<1>19. Pays(end, EmitFunction(end)) /\ Fine(EmitFunction(end)) /\ Follows(end, EmitFunction(end))
  BY <1>17, EmitFunctionKeeps, KeepsPays, PaysIsFine
<1> DEFINE r == EmitFunction(end)
<1>20. Follows(p, r)
  BY <1>3, FundsAreRoom, ParseFunctionFollows
<1> HIDE DEF r
<1>21. /\ Slack(p) \in Int /\ Slack(end) \in Int /\ Slack(r) \in Int
       /\ Found(end) \in 0 .. 1 /\ Found(r) \in 0 .. 1
  BY <1>17, <1>19, SlackIsInt, FoundIsNat DEF r
<1>22. AtEnd(end) => AtEnd(r)
  BY <1>17, <1>19, EndStays DEF r
<1>23. Slack(r) >= Slack(p) + (IF AtEnd(r) THEN -1 ELSE Found(r))
  <2>1. CASE Stays(end, r)
    BY <1>18, <2>1, StaysSlack
  <2>2. CASE ~Stays(end, r)
    <3>1. Slack(r) >= Slack(end) + Found(r)
      BY <1>19, <2>2 DEF Pays, r
    <3> QED BY <1>18, <1>21, <1>22, <3>1
  <2> QED BY <2>1, <2>2
<1>24. PaysEnd(p, r)
  BY <1>20, <1>23 DEF PaysEnd
<1> QED BY <1>3, <1>24 DEF r

LEMMA FunctionDeclarationPays ==
    ASSUME NEW parse, NEW p, Fine(p), Funds(parse, p, 3)
    PROVE  PaysEnd(p, FunctionDeclaration(parse, p))
<1> DEFINE v == ParseVariable(p)
           q == MarkInitialized(v.p, FALSE)
           global == ParseFunction(parse, v.p)
           index == v.index % ByteSize
<1>1. Pays(p, v.p) /\ v.index \in Int
  BY ParseVariableFollows, ParseVariablePays
<1>2. FunctionDeclaration(parse, p) =
        IF p.c.scope_depth > 0 THEN ParseFunction(parse, q) ELSE DeclareGlobal(global, index, FALSE)
  BY DEF FunctionDeclaration
<1>3. index \in Nat
  BY <1>1, ByteSizeIsNat
<1> HIDE DEF v, index
<1>4. Fine(v.p) /\ Funds(parse, v.p, 3)
  BY <1>1, FundsAfter, PaysIsFine
<1>5. Pays(v.p, q) /\ Fine(q) /\ Follows(v.p, q)
  BY <1>4, MarkInitializedKeeps, KeepsPays, PaysIsFine
<1> HIDE DEF q
<1>6. Funds(parse, q, 3) /\ Pays(p, q)
  BY <1>1, <1>4, <1>5, FundsAfter, PaysOn
<1>7. PaysEnd(p, ParseFunction(parse, q))
  BY <1>5, <1>6, ParseFunctionPays, PaysThenEnd
<1>8. PaysEnd(p, global) /\ Fine(global)
  BY <1>1, <1>4, ParseFunctionPays, PaysThenEnd
<1> HIDE DEF global
<1>9. PaysEnd(p, DeclareGlobal(global, index, FALSE))
  BY <1>3, <1>8, DeclareGlobalKeeps, KeepsPays, EndThenPays
<1> QED BY <1>2, <1>7, <1>9

LEMMA ConditionPays ==
    ASSUME NEW parse, NEW p, Fine(p), Funds(parse, p, 1)
    PROVE  Pays(p, Condition(parse, p)) /\ Fine(Condition(parse, p))
<1> DEFINE q == Consume(p, "LEFT_PAREN")
           r == Expression(parse, q)
           s == Consume(r, "RIGHT_PAREN")
<1>1. Pays(p, q) /\ Fine(q) /\ Follows(p, q)
  BY ConsumePays, PaysIsFine
<1>2. Funds(parse, q, 1)
  BY <1>1, FundsAfter
<1>3. Pays(q, r) /\ Fine(r)
  BY <1>1, <1>2, ExpressionPays
<1>4. Pays(r, s) /\ Fine(s)
  BY <1>3, ConsumePays, PaysIsFine
<1>5. Pays(p, s)
  BY <1>1, <1>3, <1>4, PaysOn
<1>6. Condition(parse, p) = EmitJump(s, "JUMP_IF_FALSE")
  BY DEF Condition
<1> HIDE DEF s
<1>7. Pays(s, Condition(parse, p))
  BY <1>4, <1>6, OpsListed, EmitJumpKeeps, KeepsPays
<1> QED BY <1>5, <1>7, PaysOn

LEMMA StatementAtPays ==
    ASSUME NEW parse, NEW p, Fine(p), Funds(parse, p, 2)
    PROVE  Pays(p, parse["statement", p, 0]) /\ Fine(parse["statement", p, 0])
<1>1. "statement" \in Goals /\ Rank("statement") + 1 = 2 /\ "statement" \notin {"expression", "infix"}
  BY DEF Goals, Rank
<1>2. Pays(p, parse["statement", p, 0])
  BY <1>1, Billed DEF Bill
<1> QED BY <1>2, PaysIsFine

LEMMA BodyPays ==
    ASSUME NEW parse, NEW p, Fine(p), Funds(parse, p, 2)
    PROVE  Pays(p, Body(parse, p)) /\ Fine(Body(parse, p))
<1> DEFINE q == EmitOp(p, "POP")
<1>1. Pays(p, q) /\ Fine(q) /\ Follows(p, q)
  BY OpsListed, EmitOpKeeps, KeepsPays, PaysIsFine
<1>2. Funds(parse, q, 2)
  BY <1>1, FundsAfter
<1> HIDE DEF q
<1>3. Pays(q, parse["statement", q, 0])
  BY <1>1, <1>2, StatementAtPays
<1>4. Pays(p, parse["statement", q, 0])
  BY <1>1, <1>3, PaysOn
<1> QED BY <1>4, PaysIsFine DEF Body, q

LEMMA ElseBranchPays ==
    ASSUME NEW parse, NEW p, Fine(p), Funds(parse, p, 0)
    PROVE  Pays(p, ElseBranch(parse, p)) /\ Fine(ElseBranch(parse, p))
<1> DEFINE q == Advance(p)
<1>1. CASE Check(p, "ELSE")
  <2>1. Pays(p, q) /\ Fine(q) /\ Funds(parse, q, 2)
    BY <1>1, AdvancePays, FundsAfterToken DEF Check
  <2>2. Pays(q, parse["statement", q, 0])
    BY <2>1, StatementAtPays
  <2>3. ElseBranch(parse, p) = parse["statement", q, 0]
    BY <1>1 DEF ElseBranch
  <2> HIDE DEF q
  <2> QED BY <2>1, <2>2, <2>3, PaysOn
<1>2. CASE ~Check(p, "ELSE")
  BY <1>2, PaysItself DEF ElseBranch
<1> QED BY <1>1, <1>2

LEMMA EndIfPays ==
    ASSUME NEW parse, NEW p, Fine(p), NEW then_jump \in Int, JumpOffset(p) \in Int,
           Funds(parse, p, 0)
    PROVE  Pays(p, EndIf(parse, p, then_jump))
<1> DEFINE q == PatchJump(p, then_jump)
           r == EmitOp(q, "POP")
           s == ElseBranch(parse, r)
<1>1. Pays(p, q) /\ Fine(q)
  BY PatchJumpKeeps, KeepsPays, PaysIsFine
<1>2. Pays(q, r) /\ Fine(r)
  BY <1>1, OpsListed, EmitOpKeeps, KeepsPays, PaysIsFine
<1>3. Pays(p, r) /\ Follows(p, r)
  BY <1>1, <1>2, PaysOn, PaysIsFine
<1> HIDE DEF r
<1>4. Pays(r, s) /\ Fine(s)
  BY <1>2, <1>3, FundsAfter, ElseBranchPays
<1> HIDE DEF s
<1>5. Pays(s, PatchJump(s, JumpOffset(p))) /\ Pays(p, s)
  BY <1>3, <1>4, PatchJumpKeeps, KeepsPays, PaysOn
<1>6. Pays(p, PatchJump(s, JumpOffset(p)))
  BY <1>5, PaysOn
<1> QED BY <1>6 DEF EndIf, s, r

LEMMA IfBranchesPays ==
    ASSUME NEW parse, NEW p, Fine(p), JumpOffset(p) \in Int, Funds(parse, p, 2)
    PROVE  Pays(p, IfBranches(parse, p))
<1> DEFINE q == Body(parse, p)
           r == EmitJump(q, "JUMP")
<1>1. Pays(p, q) /\ Fine(q)
  BY BodyPays
<1>2. Pays(q, r) /\ Fine(r) /\ JumpOffset(r) \in Int
  BY <1>1, OpsListed, EmitJumpKeeps, KeepsPays, EmitJumpFollows, PaysIsFine
<1>3. Pays(p, r) /\ Follows(p, r)
  BY <1>1, <1>2, PaysOn, PaysIsFine
<1> HIDE DEF r
<1>4. Funds(parse, r, 0)
  BY <1>3, FundsAfter
<1>5. Pays(r, EndIf(parse, r, JumpOffset(p)))
  BY <1>2, <1>4, EndIfPays
<1>6. Pays(p, EndIf(parse, r, JumpOffset(p)))
  BY <1>3, <1>5, PaysOn
<1> QED BY <1>6 DEF IfBranches, r

LEMMA IfStatementPays ==
    ASSUME NEW parse, NEW p, Fine(p), Funds(parse, p, 2)
    PROVE  Pays(p, IfStatement(parse, p))
<1> DEFINE q == Condition(parse, p)
<1>1. Funds(parse, p, 1)
  BY FundsAfter, FollowsItself
<1>2. Pays(p, q) /\ Fine(q) /\ JumpOffset(q) \in Int /\ Follows(p, q)
  BY <1>1, FundsAreRoom, ConditionFollows, ConditionPays
<1> HIDE DEF q
<1>3. Pays(q, IfBranches(parse, q))
  BY <1>2, FundsAfter, IfBranchesPays
<1>4. Pays(p, IfBranches(parse, q))
  BY <1>2, <1>3, PaysOn
<1> QED BY <1>4 DEF IfStatement, q

LEMMA LoopPays ==
    ASSUME NEW parse, NEW p, Fine(p), JumpOffset(p) \in Int, NEW start \in Int, Funds(parse, p, 2)
    PROVE  Pays(p, Loop(parse, p, start))
<1> DEFINE q == Body(parse, p)
           r == EmitJumpBack(q, start)
           s == PatchJump(r, JumpOffset(p))
<1>1. Pays(p, q) /\ Fine(q)
  BY BodyPays
<1>2. Pays(q, r) /\ Fine(r)
  BY <1>1, EmitJumpBackKeeps, KeepsPays, PaysIsFine
<1>3. Pays(r, s) /\ Fine(s)
  BY <1>2, PatchJumpKeeps, KeepsPays, PaysIsFine
<1>4. Pays(p, s)
  BY <1>1, <1>2, <1>3, PaysOn
<1>5. Loop(parse, p, start) = EmitOp(s, "POP")
  BY DEF Loop
<1> HIDE DEF s
<1>6. Pays(s, EmitOp(s, "POP"))
  BY <1>3, OpsListed, EmitOpKeeps, KeepsPays
<1> QED BY <1>4, <1>5, <1>6, PaysOn

LEMMA WhileStatementPays ==
    ASSUME NEW parse, NEW p, Fine(p), Funds(parse, p, 2)
    PROVE  Pays(p, WhileStatement(parse, p))
<1> DEFINE q == Condition(parse, p)
           start == Len(p.c.code)
<1>1. Funds(parse, p, 1)
  BY FundsAfter, FollowsItself
<1>2. Pays(p, q) /\ Fine(q) /\ JumpOffset(q) \in Int /\ Follows(p, q)
  BY <1>1, FundsAreRoom, ConditionFollows, ConditionPays
<1>3. start \in Int
  BY DEF Fine, Parser, FunctionCompiler
<1> HIDE DEF q, start
<1>4. Pays(q, Loop(parse, q, start))
  BY <1>2, <1>3, FundsAfter, LoopPays
<1>5. Pays(p, Loop(parse, q, start))
  BY <1>2, <1>4, PaysOn
<1> QED BY <1>5 DEF WhileStatement, q, start

LEMMA ReturnStatementPays ==
    ASSUME NEW parse, NEW p, Fine(p), Funds(parse, p, 1)
    PROVE  Pays(p, ReturnStatement(parse, p))
<1> DEFINE q == IF p.c.main THEN SyntaxError(p) ELSE p
           r == Consume(Expression(parse, q), "SEMICOLON")
<1>1. Pays(p, q) /\ Fine(q) /\ Follows(p, q)
  BY SyntaxErrorKeeps, KeepsPays, PaysItself, PaysIsFine
<1>2. ReturnStatement(parse, p) =
        IF Check(q, "SEMICOLON") THEN EmitReturn(Advance(q)) ELSE EmitOp(r, "RETURN")
  BY DEF ReturnStatement, ReturnValue
<1> HIDE DEF q
<1>3. Funds(parse, q, 1)
  BY <1>1, FundsAfter
<1>4. Pays(q, r) /\ Fine(r)
  BY <1>1, <1>3, ExpressionPays, ConsumePays, PaysOn
<1>5. Pays(r, EmitOp(r, "RETURN"))
  BY <1>4, OpsListed, EmitOpKeeps, KeepsPays
<1>6. Pays(q, EmitReturn(Advance(q)))
  BY <1>1, AdvancePays, EmitReturnKeeps, KeepsPays, PaysOn
<1>7. Pays(q, EmitOp(r, "RETURN"))
  BY <1>1, <1>4, <1>5, PaysOn
<1> QED BY <1>1, <1>2, <1>6, <1>7, PaysOn

\* The scope of a block is entered and left without reading.
LEMMA ScopedBlockPays ==
    ASSUME NEW parse, NEW p, Fine(p), Funds(parse, p, 3)
    PROVE  PaysEnd(p, EndScope(parse["block", BeginScope(p), 0]))
<1> DEFINE q == BeginScope(p)
           r == parse["block", q, 0]
           s == EndScope(r)
<1>1. /\ Moves(p, q) /\ Fine(q) /\ Stays(p, q)
      /\ q.c = InScope(p.c, p.c.scope_depth + 1, p.c.locals)
  BY BeginScopeMoves, BeginScopeStays
<1>2. p.c.scope_depth + 1 \in Nat \ {0} /\ p.c \in FunctionCompiler /\ p.c.locals \in Seq(Local)
  BY DEF Fine, Parser, FunctionCompiler
<1>3. q.c.scope_depth # 0
  <2> DEFINE depth == p.c.scope_depth + 1
  <2>1. InScope(p.c, depth, p.c.locals).scope_depth = depth
    <3> HIDE DEF depth
    <3> QED BY <1>2, InScopeType DEF depth
  <2> HIDE DEF q
  <2> QED BY <1>1, <1>2, <2>1
<1> HIDE DEF q
<1>4. Funds(parse, q, 3)
  BY <1>1, FundsAfter
<1>5. PaysEnd(q, r)
  BY <1>1, <1>4, BlockAtPays DEF PaysBlock
<1> HIDE DEF r
<1>6. Fine(r) /\ r.c.scope_depth # 0
  BY <1>3, <1>5 DEF PaysEnd, Follows
<1>7. Stays(r, s)
  BY <1>6, EndScopeStays
<1>8. Follows(p, s) /\ Fine(s)
  <2>1. Follows(p, s)
    BY FundsAreRoom, ScopedBlockFollows DEF q, r
  <2> QED BY <2>1 DEF Follows
<1> HIDE DEF s
<1>9. Slack(s) >= Slack(p) + (IF AtEnd(s) THEN -1 ELSE Found(s))
  BY <1>1, <1>5, <1>7, <1>8, EndAround
<1>10. PaysEnd(p, s)
  BY <1>8, <1>9 DEF PaysEnd
<1> QED BY <1>10 DEF s, r, q

\* The token that begins what may end with a block has paid for its end.
LEMMA TokenThenEnd ==
    ASSUME NEW p, NEW r, Fine(p), p.current.type \in {"LEFT_BRACE", "DEF"},
           PaysEnd(Advance(p), r)
    PROVE  Follows(p, r) /\ Slack(r) >= Slack(p) + Found(r)
<1> DEFINE q == Advance(p)
<1>1. Follows(p, q) /\ Fine(q) /\ Slack(p) + 1 <= Slack(q)
  BY AdvanceFollows, AdvanceGains DEF Gains
<1> HIDE DEF q
<1>2. Follows(q, r) /\ Slack(r) >= Slack(q) + (IF AtEnd(r) THEN -1 ELSE Found(r))
  BY DEF PaysEnd, q
<1>3. Follows(p, r) /\ Fine(r)
  BY <1>1, <1>2, FollowsOn DEF Follows
<1>4. Slack(p) \in Int /\ Slack(q) \in Int /\ Slack(r) \in Int /\ Found(r) \in 0 .. 1
  BY <1>1, <1>3, SlackIsInt, FoundIsNat
<1>5. AtEnd(r) => Found(r) = 0
  BY DEF AtEnd, Found
<1> QED BY <1>1, <1>2, <1>3, <1>4, <1>5

LEMMA StatementPays ==
    ASSUME NEW parse, NEW p, Fine(p), Funds(parse, p, 1)
    PROVE  Pays(p, Statement(parse, p))
<1> DEFINE q == Advance(p)
<1>1. Pays(p, q) /\ Fine(q)
  BY AdvancePays
<1>2. p.current.type # "EOF" => Funds(parse, q, 3) /\ Funds(parse, q, 2) /\ Funds(parse, q, 1)
  BY FundsAfterToken
<1>3. CASE Check(p, "LEFT_BRACE")
  <2>1. Statement(parse, p) = EndScope(parse["block", BeginScope(q), 0])
    BY <1>3 DEF Statement, Check
  <2>2. Funds(parse, q, 3)
    BY <1>2, <1>3 DEF Check
  <2>3. PaysEnd(q, EndScope(parse["block", BeginScope(q), 0]))
    <3> HIDE DEF q
    <3> QED BY <1>1, <2>2, ScopedBlockPays
  <2> QED BY <1>3, <2>1, <2>3, TokenThenEnd DEF Pays, Check
<1>4. CASE Check(p, "IF")
  <2>1. Statement(parse, p) = IfStatement(parse, q)
    BY <1>4 DEF Statement, Check
  <2> QED BY <1>1, <1>2, <1>4, <2>1, IfStatementPays, PaysOn DEF Check
<1>5. CASE Check(p, "WHILE")
  <2>1. Statement(parse, p) = WhileStatement(parse, q)
    BY <1>5 DEF Statement, Check
  <2> QED BY <1>1, <1>2, <1>5, <2>1, WhileStatementPays, PaysOn DEF Check
<1>6. CASE Check(p, "RETURN")
  <2>1. Statement(parse, p) = ReturnStatement(parse, q)
    BY <1>6 DEF Statement, Check
  <2> QED BY <1>1, <1>2, <1>6, <2>1, ReturnStatementPays, PaysOn DEF Check
<1>7. CASE ~Check(p, "LEFT_BRACE") /\ ~Check(p, "IF") /\ ~Check(p, "WHILE") /\ ~Check(p, "RETURN")
  <2>1. Statement(parse, p) = ExpressionStatement(parse, p)
    BY <1>7 DEF Statement
  <2> QED BY <2>1, ExpressionStatementPays
<1> QED BY <1>3, <1>4, <1>5, <1>6, <1>7
-----------------------------------------------------------------------------
(* Declarations, and what is skipped after an error. *)

LEMMA SynchronizeFinds ==
    ASSUME NEW parse, NEW p, Fine(p), Funds(parse, p, 0)
    PROVE  Finds(p, Synchronize(parse, p))
<1> DEFINE q == Advance(p)
           r == parse["synchronize", q, 0]
<1>1. Slack(p) \in Int
  BY SlackIsInt
<1>2. CASE Check(p, "EOF")
  <2>1. Synchronize(parse, p) = p
    BY <1>2 DEF Synchronize
  <2> QED BY <1>1, <1>2, <2>1, FollowsItself DEF Finds, AtEnd, Check
<1>3. CASE ~Check(p, "EOF") /\ (p.previous.type = "SEMICOLON" \/ p.current.type \in StatementStarts)
  <2>1. Synchronize(parse, p) = p
    BY <1>3 DEF Synchronize
  <2>2. Found(p) = 1
    BY <1>3 DEF Found, Check
  <2> QED BY <1>1, <2>1, <2>2, FollowsItself DEF Finds
<1>4. CASE ~Check(p, "EOF") /\ ~(p.previous.type = "SEMICOLON" \/ p.current.type \in StatementStarts)
  <2>1. Synchronize(parse, p) = r
    BY <1>4 DEF Synchronize
  <2>2. p.current.type # "EOF"
    BY <1>4 DEF Check
  <2>3. Follows(p, q) /\ Fine(q) /\ Funds(parse, q, 1)
    BY <2>2, AdvanceFollows, FundsAfterToken
  <2>4. Slack(q) >= Slack(p) + Found(q) /\ Slack(q) \in Int /\ Found(q) \in 0 .. 1
    BY <2>3, AdvancePays, SlackIsInt, FoundIsNat
  <2>5. q.panic_mode /\ ~p.panic_mode => Slack(p) + 1 <= Slack(q)
    BY <2>2, AdvanceGains DEF Gains
  <2>6. "synchronize" \in Goals /\ Rank("synchronize") + 1 = 1
        /\ "synchronize" \notin {"expression", "infix"}
    BY DEF Goals, Rank
  <2> HIDE DEF q
  <2>7. Finds(q, r)
    BY <2>3, <2>6, Billed DEF Bill
  <2> HIDE DEF r
  <2>8. Follows(p, r) /\ Slack(r) \in Int
    <3>1. Follows(p, r) /\ Fine(r)
      BY <2>3, <2>7, FollowsOn DEF Finds, Follows
    <3> QED BY <3>1, SlackIsInt
  <2>9. Slack(r) >= Slack(p)
    BY <1>1, <2>4, <2>7, <2>8 DEF Finds
  <2>10. \/ Slack(r) >= Slack(p) + 1
         \/ AtEnd(r) /\ (r.panic_mode => p.panic_mode)
    <3>1. CASE Slack(r) >= Slack(q) + 1 \/ Found(q) = 1
      BY <1>1, <2>4, <2>7, <2>8, <3>1 DEF Finds
    <3>2. CASE AtEnd(r) /\ (r.panic_mode => q.panic_mode)
      <4>1. CASE q.panic_mode /\ ~p.panic_mode
        BY <1>1, <2>4, <2>5, <2>7, <2>8, <4>1 DEF Finds
      <4>2. CASE ~(q.panic_mode /\ ~p.panic_mode)
        BY <3>2, <4>2
      <4> QED BY <4>1, <4>2
    <3> QED BY <2>7, <3>1, <3>2 DEF Finds
  <2> QED BY <2>1, <2>8, <2>9, <2>10 DEF Finds
<1> QED BY <1>2, <1>3, <1>4

LEMMA DeclarationPays ==
    ASSUME NEW parse, NEW p, Fine(p), Funds(parse, p, 1)
    PROVE  PaysDeclaration(p, Declaration(parse, p))
<1> DEFINE q == Advance(p)
           r == IF p.current.type \in {"LET", "CONST"}
                THEN VarDeclaration(parse, Advance(p), Check(p, "CONST"))
                ELSE IF Check(p, "DEF") THEN FunctionDeclaration(parse, Advance(p))
                ELSE Statement(parse, p)
           s == parse["synchronize", Calm(r), 0]
<1>1. Follows(p, q) /\ Fine(q) /\ Slack(q) >= Slack(p) + Found(q)
  BY AdvanceFollows, AdvancePays
<1>2. p.current.type # "EOF" => Funds(parse, q, 3) /\ Funds(parse, q, 0)
  BY FundsAfterToken
<1>3. Follows(p, r) /\ Slack(r) >= Slack(p) + Found(r)
  <2>1. CASE p.current.type \in {"LET", "CONST"}
    <3>1. Check(p, "CONST") \in BOOLEAN
      BY DEF Check
    <3> DEFINE v == VarDeclaration(parse, q, Check(p, "CONST"))
    <3>2. Pays(q, v) /\ Fine(v) /\ Follows(q, v)
      BY <1>1, <1>2, <2>1, <3>1, VarDeclarationPays, PaysIsFine
    <3>3. r = v
      BY <2>1
    <3> HIDE DEF q, v, r
    <3>4. Follows(p, v)
      BY <1>1, <3>2, FollowsOn
    <3>5. Slack(p) \in Int /\ Slack(q) \in Int /\ Slack(v) \in Int /\ Found(q) \in 0 .. 1 /\ Found(v) \in 0 .. 1
      BY <1>1, <3>2, SlackIsInt, FoundIsNat
    <3>6. Slack(v) >= Slack(p) + Found(v)
      <4>1. CASE Stays(q, v)
        BY <1>1, <4>1, StaysSlack
      <4>2. CASE ~Stays(q, v)
        <5>1. Slack(v) >= Slack(q) + Found(v)
          BY <3>2, <4>2 DEF Pays
        <5> QED BY <1>1, <3>5, <5>1
      <4> QED BY <4>1, <4>2
    <3> QED BY <3>3, <3>4, <3>6
  <2>2. CASE p.current.type \notin {"LET", "CONST"} /\ Check(p, "DEF")
    <3>1. PaysEnd(q, FunctionDeclaration(parse, q))
      BY <1>1, <1>2, <2>2, FunctionDeclarationPays DEF Check
    <3>2. r = FunctionDeclaration(parse, q)
      BY <2>2
    <3> QED BY <2>2, <3>1, <3>2, TokenThenEnd DEF Check
  <2>3. CASE p.current.type \notin {"LET", "CONST"} /\ ~Check(p, "DEF")
    <3>1. r = Statement(parse, p)
      BY <2>3
    <3>2. Pays(p, Statement(parse, p)) /\ Reads(p, Statement(parse, p))
      BY StatementPays, FundsAreRoom, StatementReads
    <3> HIDE DEF r
    <3> QED BY <3>1, <3>2, ReadsAndPays DEF Pays
  <2> QED BY <2>1, <2>2, <2>3
<1>4. Declaration(parse, p) = IF r.panic_mode THEN s ELSE r
  BY DEF Declaration, Resume, Calm
<1> HIDE DEF r
<1>5. Fine(r)
  BY <1>3 DEF Follows
<1>6. CASE r.panic_mode
  <2>1. Follows(r, Calm(r)) /\ Fine(Calm(r))
    BY <1>5, CalmFollows
  <2>2. Follows(p, Calm(r))
    BY <1>3, <2>1, FollowsOn
  <2>3. Funds(parse, Calm(r), 1)
    BY <2>2, FundsAfter
  <2>4. "synchronize" \in Goals /\ Rank("synchronize") + 1 = 1
        /\ "synchronize" \notin {"expression", "infix"}
    BY DEF Goals, Rank
  <2>5. Finds(Calm(r), s)
    BY <2>1, <2>3, <2>4, Billed DEF Bill
  <2> HIDE DEF s
  <2>6. PaysDeclaration(p, s)
    BY <1>3, <1>6, <2>5, ResumesPaid
  <2> QED BY <1>4, <1>6, <2>6
<1>7. CASE ~r.panic_mode
  <2>1. Slack(p) \in Int /\ Slack(r) \in Int /\ Found(r) \in 0 .. 1
    BY <1>5, SlackIsInt, FoundIsNat
  <2>2. PaysDeclaration(p, r)
    BY <1>3, <2>1 DEF PaysDeclaration
  <2> QED BY <1>4, <1>7, <2>2
<1> QED BY <1>6, <1>7

LEMMA DeclarationAtPays ==
    ASSUME NEW parse, NEW p, Fine(p), Funds(parse, p, 2)
    PROVE  PaysDeclaration(p, parse["declaration", p, 0])
<1>1. "declaration" \in Goals /\ Rank("declaration") + 1 = 2
      /\ "declaration" \notin {"expression", "infix"}
  BY DEF Goals, Rank
<1> QED BY <1>1, Billed DEF Bill

\* A declaration before the end of the source leaves calls for another.
LEMMA DeclarationThenFunds ==
    ASSUME NEW parse, NEW p, Fine(p), p.current.type # "EOF", Funds(parse, p, 2)
    PROVE  Funds(parse, parse["declaration", p, 0], 3) /\ Fine(parse["declaration", p, 0])
<1> DEFINE q == parse["declaration", p, 0]
<1>1. Left(p) # 0
  BY DEF Left, Fine, Parser
<1>2. Reads(p, q) /\ Fine(q)
  BY FundsAreRoom, DeclarationAt
<1> HIDE DEF q
<1>3. Left(q) < Left(p)
  BY <1>1, <1>2 DEF Reads
<1>4. Funds(parse, q, 3)
  BY <1>2, <1>3, FundsPast
<1> QED BY <1>2, <1>4 DEF q

LEMMA BlockPays ==
    ASSUME NEW parse, NEW p, Fine(p), Funds(parse, p, 2)
    PROVE  PaysBlock(p, Block(parse, p))
<1> DEFINE q == parse["declaration", p, 0]
           r == Block(parse, p)
<1>1. CASE p.current.type = "EOF"
  <2>1. Follows(p, r) /\ Fine(r)
    BY FundsAreRoom, BlockFollows DEF Follows
  <2>2. r = ErrorAtCurrent(p)
    BY <1>1 DEF Block, Consume, Check
  <2>3. Stays(p, ErrorAtCurrent(p))
    <3>1. Begun(p)
      BY DEF Begun, Fine
    <3> QED BY <3>1, ErrorAtStays DEF ErrorAtCurrent
  <2> HIDE DEF r
  <2>4. Slack(r) = Slack(p) /\ AtEnd(r) /\ Slack(p) \in Int
    BY <1>1, <2>2, <2>3, StaysSlack, SlackIsInt DEF AtEnd
  <2>5. PaysBlock(p, r)
    BY <2>1, <2>4 DEF PaysBlock, PaysEnd
  <2> QED BY <2>5 DEF r
<1>2. CASE p.current.type = "RIGHT_BRACE"
  <2>1. r = Advance(p) /\ ~AtEnd(p)
    BY <1>2 DEF Block, Consume, Check, AtEnd
  <2> HIDE DEF r
  <2>2. Follows(p, r) /\ Fine(r) /\ Slack(r) >= Slack(p) + Found(r)
    BY <2>1, AdvanceFollows, AdvancePays
  <2>3. Slack(p) \in Int /\ Slack(r) \in Int /\ Found(r) \in 0 .. 1
    BY <2>2, SlackIsInt, FoundIsNat
  <2>4. PaysBlock(p, r)
    BY <2>1, <2>2, <2>3 DEF PaysBlock, PaysEnd
  <2> QED BY <2>4 DEF r
<1>3. CASE p.current.type \notin {"RIGHT_BRACE", "EOF"}
  <2>1. PaysDeclaration(p, q) /\ Fine(q) /\ Funds(parse, q, 3)
    BY <1>3, DeclarationAtPays, DeclarationThenFunds
  <2>2. r = parse["block", q, 0] /\ ~AtEnd(p)
    BY <1>3 DEF Block, AtEnd
  <2> HIDE DEF q, r
  <2>3. PaysBlock(q, r)
    BY <2>1, <2>2, BlockAtPays
  <2>4. PaysBlock(p, r)
    BY <2>1, <2>2, <2>3, DeclarationThenBlock
  <2> QED BY <2>4 DEF r
<1> QED BY <1>1, <1>2, <1>3

\* After the end of the source nothing is left to report.
LEMMA AdvanceAtEnd ==
    ASSUME NEW p, Fine(p), AtEnd(p)
    PROVE  Advance(p).reports = p.reports /\ Credit(Advance(p)) = Credit(p)
<1> DEFINE q == Advance(p)
           readable == {i \in p.scanned + 1 .. Len(p.tokens) : p.tokens[i].type # "ERROR"}
<1>1. p.scanned = Len(p.tokens) /\ Len(p.tokens) \in Nat /\ DOMAIN p.tokens = 1 .. Len(p.tokens)
  BY DEF AtEnd, Fine, Parser
<1>2. readable = {}
  BY <1>1
<1>3. ~\E i \in p.scanned + 1 .. (Len(p.tokens) + 1) - 1 : i \in DOMAIN p.tokens
  BY <1>1
<1>4. q = [p EXCEPT !.previous = p.current, !.current = Eof(p.last_line), !.scanned = Len(p.tokens)]
  BY <1>2, <1>3 DEF Advance
<1>5. Eof(p.last_line).type = "EOF"
  BY EofIsToken DEF Fine, Parser
<1> HIDE DEF readable
<1>6. q.reports = p.reports /\ q.tokens = p.tokens /\ q.current = Eof(p.last_line)
  BY <1>4 DEF Fine, Parser
<1> HIDE DEF q
<1>7. CurrentAt(q) = CurrentAt(p)
  BY <1>5, <1>6 DEF CurrentAt, AtEnd
<1> QED BY <1>6, <1>7 DEF Credit, Paid, Opened, q

LEMMA SolventIsBalanced == ASSUME NEW p, Fine(p), Solvent(p) PROVE Balanced(p)
<1>1. Debt(p) = Len(p.reports) + 0 \/ Debt(p) = Len(p.reports) + 1
  BY DebtOf
<1>2. Len(p.reports) \in Nat /\ Credit(p) \in Nat
  BY CreditIsFinite DEF Fine
<1> QED BY <1>1, <1>2 DEF Solvent, Balanced, Slack

LEMMA DeclarationIsSolvent ==
    ASSUME NEW p, NEW q, Fine(p), ~AtEnd(p), Solvent(p), PaysDeclaration(p, q)
    PROVE  Solvent(q)
<1>1. Fine(q)
  BY DEF PaysDeclaration, Follows
<1>2. Slack(p) \in Int /\ Slack(q) \in Int /\ Slack(p) >= 0
  BY <1>1, SlackIsInt DEF Solvent
<1>3. CASE Slack(q) >= Slack(p)
  BY <1>2, <1>3 DEF Solvent
<1>4. CASE AtEnd(q) /\ ~q.panic_mode /\ Slack(q) + 1 >= Slack(p)
  <2>1. Debt(q) = Len(q.reports) + 1
    BY <1>4, DebtOf
  <2>2. Len(q.reports) \in Nat /\ Credit(q) \in Nat
    BY <1>1, CreditIsFinite DEF Fine
  <2>3. Balanced(q)
    BY <1>2, <1>4, <2>1, <2>2 DEF Balanced, Slack
  <2> QED BY <1>4, <2>3 DEF Solvent
<1> QED BY <1>3, <1>4 DEF PaysDeclaration

LEMMA DeclarationsBalance ==
    ASSUME NEW parse, NEW p, Fine(p), Funds(parse, p, 2), Solvent(p)
    PROVE  Balanced(Declarations(parse, p))
<1> DEFINE q == parse["declaration", p, 0]
<1>1. CASE Check(p, "EOF")
  <2>1. Declarations(parse, p) = Advance(p) /\ AtEnd(p)
    BY <1>1 DEF Declarations, Check, AtEnd
  <2> QED BY <2>1, AdvanceAtEnd, SolventIsBalanced DEF Balanced
<1>2. CASE ~Check(p, "EOF")
  <2>1. PaysDeclaration(p, q) /\ Fine(q) /\ Funds(parse, q, 3)
    BY <1>2, DeclarationAtPays, DeclarationThenFunds DEF Check
  <2>2. "declarations" \in Goals /\ Rank("declarations") + 1 = 3
        /\ "declarations" \notin {"expression", "infix"}
    BY DEF Goals, Rank
  <2>3. Declarations(parse, p) = parse["declarations", q, 0]
    BY <1>2 DEF Declarations
  <2> HIDE DEF q
  <2>4. Solvent(q)
    BY <1>2, <2>1, DeclarationIsSolvent DEF Check, AtEnd
  <2> QED BY <2>1, <2>2, <2>3, <2>4, Billed DEF Bill
<1> QED BY <1>1, <1>2
-----------------------------------------------------------------------------
(* Every call pays. *)

LEMMA CallPays ==
    ASSUME NEW parse, NEW goal \in Goals, NEW p, Fine(p), NEW number \in Nat,
           goal \in {"expression", "infix"} => number # 0, Funds(parse, p, Rank(goal))
    PROVE  Bill(goal, p, Call(parse, goal, p, number))
<1>1. CASE goal = "expression"
  <2>1. Call(parse, goal, p, number) = ParsePrecedence(parse, p, number)
    BY <1>1, ClosingOps DEF Call
  <2>2. Pays(p, ParsePrecedence(parse, p, number))
    BY <1>1, ParsePrecedencePays DEF Rank
  <2> QED BY <1>1, <2>1, <2>2 DEF Bill
<1>2. CASE goal = "infix"
  <2>1. Call(parse, goal, p, number) = InfixRules(parse, p, number)
    BY <1>2, ClosingOps DEF Call
  <2>2. Pays(p, InfixRules(parse, p, number))
    BY <1>2, InfixRulesPays DEF Rank
  <2> QED BY <1>2, <2>1, <2>2 DEF Bill
<1>3. CASE goal \in DOMAIN Closing
  <2>1. Call(parse, goal, p, number) = ParseItems(parse, p, goal, number)
    BY <1>3, ClosingOps DEF Call
  <2>2. Funds(parse, p, 1)
    BY <1>3, ClosingOps
  <2>3. Pays(p, ParseItems(parse, p, goal, number))
    BY <1>3, <2>2, ParseItemsPays
  <2> QED BY <1>3, <2>1, <2>3, ClosingOps DEF Bill
<1>4. CASE goal = "statement"
  <2>1. Call(parse, goal, p, number) = Statement(parse, p)
    BY <1>4, ClosingOps DEF Call
  <2>2. Pays(p, Statement(parse, p))
    BY <1>4, StatementPays DEF Rank
  <2> QED BY <1>4, <2>1, <2>2 DEF Bill
<1>5. CASE goal = "declaration"
  <2>1. Call(parse, goal, p, number) = Declaration(parse, p)
    BY <1>5, ClosingOps DEF Call
  <2>2. PaysDeclaration(p, Declaration(parse, p))
    BY <1>5, DeclarationPays DEF Rank
  <2> QED BY <1>5, <2>1, <2>2 DEF Bill
<1>6. CASE goal = "block"
  <2>1. Call(parse, goal, p, number) = Block(parse, p)
    BY <1>6, ClosingOps DEF Call
  <2>2. PaysBlock(p, Block(parse, p))
    BY <1>6, BlockPays DEF Rank
  <2> QED BY <1>6, <2>1, <2>2 DEF Bill
<1>7. CASE goal = "declarations"
  <2>1. Call(parse, goal, p, number) = Declarations(parse, p)
    BY <1>7, ClosingOps DEF Call
  <2>2. Solvent(p) => Balanced(Declarations(parse, p))
    BY <1>7, DeclarationsBalance DEF Rank
  <2> QED BY <1>7, <2>1, <2>2 DEF Bill
<1>8. CASE goal = "parameters"
  <2>1. Call(parse, goal, p, number) = Parameters(parse, p)
    BY <1>8, ClosingOps DEF Call
  <2>2. Pays(p, Parameters(parse, p))
    BY <1>8, ParametersPays DEF Rank
  <2> QED BY <1>8, <2>1, <2>2 DEF Bill
<1>9. CASE goal = "synchronize"
  <2>1. Call(parse, goal, p, number) = Synchronize(parse, p)
    BY <1>9, ClosingOps DEF Call
  <2>2. Finds(p, Synchronize(parse, p))
    BY <1>9, SynchronizeFinds DEF Rank
  <2> QED BY <1>9, <2>1, <2>2 DEF Bill
<1> QED BY <1>1, <1>2, <1>3, <1>4, <1>5, <1>6, <1>7, <1>8, <1>9, ClosingOps DEF Goals

LEMMA ParseSpends == \A n \in Nat : Spends(Parse[n], n)
<1> DEFINE T == {n \in Nat : Spends(Parse[n], n)}
<1>1. 0 \in T
  <2>1. ASSUME NEW goal \in Goals, NEW p, Fine(p) PROVE ~(3 * Left(p) + Rank(goal) < 0)
    <3>1. Left(p) \in Nat /\ Rank(goal) \in Nat
      BY <2>1, LeftIsNat DEF Rank
    <3> QED BY <3>1
  <2>2. Spends(Parse[0], 0)
    BY <2>1 DEF Spends
  <2> QED BY <2>2
<1>2. ASSUME NEW n \in Nat, n \in T PROVE n + 1 \in T
  <2>1. Spends(Parse[n], n) /\ Serves(Parse[n], n)
    BY <1>2, ParseServes
  <2>2. ASSUME NEW goal \in Goals, NEW p \in Parser, NEW number \in Nat, Fine(p),
               3 * Left(p) + Rank(goal) < n + 1,
               goal \in {"expression", "infix"} => number # 0
        PROVE  Bill(goal, p, Parse[n + 1][goal, p, number])
    <3>1. Left(p) \in Nat /\ Rank(goal) \in Nat
      BY <2>2, LeftIsNat DEF Rank
    <3>2. 3 * Left(p) + Rank(goal) <= n
      BY <2>2, <3>1
    <3>3. Funds(Parse[n], p, Rank(goal))
      BY <2>1, <3>2 DEF Funds
    <3>4. Bill(goal, p, Call(Parse[n], goal, p, number))
      BY <2>2, <3>3, CallPays
    <3>5. Parse[n + 1] = OneMore(Parse[n])
      BY ParseUnfolds
    <3>6. Parse[n + 1][goal, p, number] = Call(Parse[n], goal, p, number)
      <4> DEFINE before == Parse[n]
                 f == OneMore(before)
                 g == Parse[n + 1]
      <4>1. g = f
        BY <3>5
      <4> HIDE DEF g
      <4>2. f[goal, p, number] = Call(before, goal, p, number)
        <5> HIDE DEF before
        <5> QED BY OneMoreCalls
      <4> HIDE DEF f, before
      <4>3. g[goal, p, number] = Call(before, goal, p, number)
        BY <4>1, <4>2
      <4> QED BY <4>3 DEF g, before
    <3> QED BY <3>4, <3>6
  <2>3. Spends(Parse[n + 1], n + 1)
    BY <2>2 DEF Spends
  <2> QED BY <2>3
<1> HIDE DEF T
<1>3. Nat \subseteq T
  BY <1>1, <1>2, NatSetInduction
<1> QED BY <1>3 DEF T
-----------------------------------------------------------------------------
(* The whole source. *)

\* The first token may come after some that could not be read.
LEMMA FirstReadSolvent ==
    ASSUME NEW source \in Seq(SourceToken), NEW last \in Nat, NEW base \in Nat
    PROVE  Solvent(FirstRead(source, last, base))
<1> DEFINE p == NewParser(source, last, base)
           e == ErrorAt(p, Token("ERROR", 0))
           q == Advance(p)
<1>1. Begun(p) /\ p.reports = <<>> /\ ~p.panic_mode
  BY NewParserBegun DEF NewParser
<1>2. Fine(q)
  BY <1>1, AdvanceBegun
<1> HIDE DEF p
<1>3. Stays(p, e) /\ e \in Parser
  <2>1. Token("ERROR", 0) \in AnyToken
    BY TokenIsToken DEF TokenTypes
  <2> QED BY <1>1, <2>1, ErrorAtStays, ErrorAtBegun DEF Begun
<1>4. PICK f, current, scanned :
          (f = p \/ f = e) /\ q = [f EXCEPT !.previous = p.current, !.current = current, !.scanned = scanned]
  BY DEF Advance
<1> HIDE DEF e
<1>5. Debt(f) = Debt(p) /\ f \in Parser
  BY <1>1, <1>3, <1>4 DEF Stays, Begun
<1>6. q.reports = f.reports /\ q.panic_mode = f.panic_mode
  BY <1>4, <1>5 DEF Parser
<1> HIDE DEF q
<1>7. Debt(q) = Debt(f)
  BY <1>6 DEF Debt
<1>8. Debt(p) = 1
  BY <1>1, DebtOf
<1>9. Slack(q) >= 0
  BY <1>2, <1>5, <1>7, <1>8, CreditIsFinite DEF Slack
<1> QED BY <1>9 DEF Solvent, FirstRead, q, p

LEMMA LastReadBalanced ==
    ASSUME NEW source \in Seq(SourceToken), NEW last \in Nat, NEW base \in Nat
    PROVE  Balanced(LastRead(source, last, base))
<1> DEFINE p == FirstRead(source, last, base)
           parse == Parse[CallsFor(source)]
<1>1. Fine(p) /\ Left(p) <= Len(source) /\ Solvent(p)
  BY FirstReadFine, FirstReadSolvent
<1> HIDE DEF p
<1>2. Left(p) \in Nat /\ Len(source) \in Nat
  BY <1>1, LeftIsNat
<1>3. CallsFor(source) \in Nat /\ 3 * Left(p) + 3 <= CallsFor(source)
  BY <1>1, <1>2 DEF CallsFor
<1>4. Serves(parse, CallsFor(source)) /\ Spends(parse, CallsFor(source))
  BY <1>3, ParseServes, ParseSpends
<1>5. "declarations" \in Goals /\ Rank("declarations") + 1 = 3
  BY DEF Goals, Rank
<1> HIDE DEF parse
<1>6. Funds(parse, p, Rank("declarations") + 1)
  BY <1>3, <1>4, <1>5 DEF Funds
<1>7. Bill("declarations", p, parse["declarations", p, 0])
  BY <1>1, <1>5, <1>6, Billed
<1> QED BY <1>1, <1>7 DEF Bill, LastRead, p, parse

\* The return that ends the script reports nothing.
LEMMA EndCompilerReports == ASSUME NEW p, Fine(p) PROVE EndCompiler(p).reports = p.reports
<1> DEFINE q == EmitReturn(p)
<1>1. q.reports = p.reports /\ q \in Parser
  <2>1. ASSUME NEW r, Fine(r), NEW bytes PROVE Emit(r, bytes).reports = r.reports
    BY <2>1 DEF Emit, Fine, Parser
  <2>2. << Code("NULL") >> \in Seq(Nat)
    BY OpsListed, CodeOfOp DEF Literals
  <2>3. Fine(EmitOp(p, "NULL")) /\ EmitOp(p, "NULL").reports = p.reports
    BY <2>1, <2>2, EmitFollows DEF EmitOp, Follows
  <2>4. q.reports = p.reports
    BY <2>1, <2>3 DEF EmitReturn, EmitOp
  <2> QED BY <2>4, EmitReturnFollows DEF Follows, Fine
<1> HIDE DEF q
<1> QED BY <1>1 DEF EndCompiler, Parser, q

\* The tokens that pay are among those NoCascade counts.
LEMMA CreditIsCounted ==
    ASSUME NEW p, Fine(p)
    PROVE  LET resume == {"SEMICOLON", "LEFT_BRACE", "ERROR"} \cup StatementStarts
               Among(types) == Cardinality({k \in DOMAIN p.tokens : p.tokens[k].type \in types})
           IN  /\ Credit(p) <= Among(resume) + Among({"DEF"})
               /\ Among(resume) \in Nat /\ Among({"DEF"}) \in Nat
<1> DEFINE resume == {"SEMICOLON", "LEFT_BRACE", "ERROR"} \cup StatementStarts
           starts == {k \in DOMAIN p.tokens : p.tokens[k].type \in resume}
           functions == {k \in DOMAIN p.tokens : p.tokens[k].type \in {"DEF"}}
<1>1. p.tokens \in Seq(SourceToken)
  BY DEF Fine, Parser
<1>2. DOMAIN p.tokens = 1 .. Len(p.tokens) /\ Len(p.tokens) \in Nat
  BY <1>1
<1>3. IsFiniteSet(DOMAIN p.tokens)
  <2>1. IsFiniteSet(1 .. Len(p.tokens))
    BY <1>2, IntervalIsFinite
  <2> QED BY <1>2, <2>1
<1>4. IsFiniteSet(starts) /\ IsFiniteSet(functions)
  <2>1. starts \subseteq DOMAIN p.tokens /\ functions \subseteq DOMAIN p.tokens
    OBVIOUS
  <2> HIDE DEF starts, functions
  <2> QED BY <1>3, <2>1, FS_Subset
<1>5. Paid(p) \subseteq starts /\ Opened(p) \subseteq functions
  BY DEF Paid, Opened, Resuming
<1> HIDE DEF starts, functions
<1>6. /\ Cardinality(Paid(p)) <= Cardinality(starts) /\ Cardinality(Opened(p)) <= Cardinality(functions)
      /\ Cardinality(starts) \in Nat /\ Cardinality(functions) \in Nat
  BY <1>4, <1>5, FS_Subset, FS_CardinalityType
<1>7. Cardinality(Paid(p)) \in Nat /\ Cardinality(Opened(p)) \in Nat
  BY CreditIsFinite
<1>8. Credit(p) <= Cardinality(starts) + Cardinality(functions)
  BY <1>6, <1>7 DEF Credit
<1> QED BY <1>6, <1>8 DEF starts, functions

\* However many tokens are wrong, an error is reported once for each place where
\* the parser can find what looks like a statement, once for each function that is
\* begun, and once more: no source makes the parser report errors without end.
THEOREM NoCascadeHolds == Spec => []NoCascade
<1>1. CompiledFromTokens => NoCascade
  <2> SUFFICES ASSUME CompiledFromTokens PROVE NoCascade
    OBVIOUS
  <2> DEFINE result == Compile(tokens, last_line, 0)
             p == LastRead(tokens, last_line, 0)
             q == EndCompiler(p)
  <2>1. tokens \in Seq(SourceToken) /\ last_line \in Nat /\ compiled = Measured(result) /\ 0 \in Nat
    BY DEF CompiledFromTokens
  <2>2. compiled.reports = result.reports
    BY <2>1, MeasuredFields
  <2>3. result = Translation(q)
    BY DEF Compile, LastRead, FirstRead
  <2>4. result.reports = q.reports
    <3> HIDE DEF q, result
    <3> QED BY <2>3 DEF Translation
  <2>5. Follows(FirstRead(tokens, last_line, 0), p) /\ Balanced(p)
    BY <2>1, LastReadFollows, LastReadBalanced
  <2>6. Fine(p) /\ p.tokens = tokens
    BY <2>1, <2>5, FirstReadFine DEF Follows
  <2> HIDE DEF p
  <2>7. q.reports = p.reports
    BY <2>6, EndCompilerReports
  <2> HIDE DEF q, result
  <2>8. Len(p.reports) \in Nat /\ Credit(p) \in Nat /\ Len(p.reports) <= 1 + Credit(p)
    BY <2>5, <2>6, CreditIsFinite DEF Fine, Balanced
  <2> DEFINE resume == {"SEMICOLON", "LEFT_BRACE", "ERROR"} \cup StatementStarts
             starts == Cardinality({k \in DOMAIN tokens : tokens[k].type \in resume})
             functions == Cardinality({k \in DOMAIN tokens : tokens[k].type \in {"DEF"}})
  <2>9. Credit(p) <= starts + functions /\ starts \in Nat /\ functions \in Nat
    BY <2>6, CreditIsCounted
  <2>10. Len(compiled.reports) <= 1 + starts + functions
    <3> HIDE DEF starts, functions
    <3> QED BY <2>2, <2>4, <2>7, <2>8, <2>9
  <2> QED BY <2>10 DEF NoCascade
<1> QED BY <1>1, CompilationInvariant, PTL
-----------------------------------------------------------------------------
(* The grammar, rule by rule. *)

\* The definition of PhrasesOf is a recursion: f is PhrasesOf for as many as n.
PhrasesUpTo(ts, f, n) ==
    /\ f[0] = {}
    /\ \A k \in 1 .. n : f[k] = Longer(f[k - 1], ts)

\* The definition of PhrasesOf is a recursion over rounds, that has a value.
LEMMA PhrasesUpToExists ==
    ASSUME NEW ts, NEW n \in Nat
    PROVE  \E f : PhrasesUpTo(ts, f, n)
<1> DEFINE T == {k \in Nat : \E f : PhrasesUpTo(ts, f, k)}
<1>1. 0 \in T
  <2> DEFINE f == [k \in {0} |-> {}]
  <2>1. PhrasesUpTo(ts, f, 0)
    BY DEF PhrasesUpTo
  <2> QED BY <2>1
<1>2. ASSUME NEW k \in Nat, k \in T PROVE k + 1 \in T
  <2>1. PICK f : PhrasesUpTo(ts, f, k)
    BY <1>2
  <2> DEFINE g == [j \in 0 .. k + 1 |-> IF j = k + 1 THEN Longer(f[k], ts) ELSE f[j]]
  <2>2. g[0] = {}
    BY <2>1 DEF PhrasesUpTo
  <2>3. ASSUME NEW j \in 1 .. k + 1 PROVE g[j] = Longer(g[j - 1], ts)
    <3>1. CASE j = k + 1
      <4>1. g[j] = Longer(f[k], ts)
        BY <3>1
      <4>2. j - 1 = k /\ g[k] = f[k]
        BY <3>1
      <4> QED BY <4>1, <4>2
    <3>2. CASE j # k + 1
      <4>1. j \in 1 .. k /\ j - 1 \in 0 .. k
        BY <3>2
      <4>2. g[j] = f[j] /\ g[j - 1] = f[j - 1]
        BY <4>1
      <4> QED BY <2>1, <4>1, <4>2 DEF PhrasesUpTo
    <3> QED BY <3>1, <3>2
  <2> HIDE DEF g
  <2>4. PhrasesUpTo(ts, g, k + 1)
    BY <2>2, <2>3 DEF PhrasesUpTo
  <2> QED BY <2>4
<1> HIDE DEF T
<1>3. Nat \subseteq T
  BY <1>1, <1>2, NatSetInduction
<1> QED BY <1>3 DEF T

LEMMA PhrasesUpToUnique ==
    ASSUME NEW ts, NEW m \in Nat, NEW n \in Nat, NEW f, NEW g,
           PhrasesUpTo(ts, f, m), PhrasesUpTo(ts, g, n), NEW i \in Nat, i <= m, i <= n
    PROVE  f[i] = g[i]
<1> DEFINE T == {k \in Nat : k <= m /\ k <= n => f[k] = g[k]}
<1>1. 0 \in T
  BY DEF PhrasesUpTo
<1>2. ASSUME NEW k \in Nat, k \in T PROVE k + 1 \in T
  <2> SUFFICES ASSUME k + 1 <= m, k + 1 <= n PROVE f[k + 1] = g[k + 1]
    OBVIOUS
  <2>1. f[k] = g[k]
    BY <1>2
  <2>2. k + 1 \in 1 .. m /\ k + 1 \in 1 .. n /\ (k + 1) - 1 = k
    OBVIOUS
  <2>3. f[k + 1] = Longer(f[k], ts) /\ g[k + 1] = Longer(g[k], ts)
    BY <2>2 DEF PhrasesUpTo
  <2> QED BY <2>1, <2>3
<1> HIDE DEF T
<1>3. Nat \subseteq T
  BY <1>1, <1>2, NatSetInduction
<1> QED BY <1>3 DEF T

\* What a round finds.
LEMMA PhrasesUnfold ==
    ASSUME NEW ts
    PROVE  /\ PhrasesOf(ts)[0] = {}
           /\ \A n \in Nat : PhrasesOf(ts)[n + 1] = Longer(PhrasesOf(ts)[n], ts)
<1> DEFINE Good(f) == f = [n \in Nat |-> IF n = 0 THEN {} ELSE Longer(f[n - 1], ts)]
           chosen(n) == CHOOSE f : PhrasesUpTo(ts, f, n)
           limit == [n \in Nat |-> chosen(n)[n]]
<1>1. \A n \in Nat : PhrasesUpTo(ts, chosen(n), n)
  BY PhrasesUpToExists
<1> HIDE DEF chosen
<1>2. limit[0] = {}
  BY <1>1 DEF PhrasesUpTo
<1>3. ASSUME NEW n \in Nat PROVE limit[n + 1] = Longer(limit[n], ts)
  <2>1. PhrasesUpTo(ts, chosen(n), n) /\ PhrasesUpTo(ts, chosen(n + 1), n + 1)
    BY <1>1
  <2>2. chosen(n + 1)[n] = chosen(n)[n]
    BY <2>1, PhrasesUpToUnique
  <2>3. n + 1 \in 1 .. n + 1 /\ (n + 1) - 1 = n
    OBVIOUS
  <2>4. chosen(n + 1)[n + 1] = Longer(chosen(n + 1)[n], ts)
    BY <2>1, <2>3 DEF PhrasesUpTo
  <2> QED BY <2>2, <2>4
<1>4. limit = [n \in Nat |-> limit[n]]
  OBVIOUS
<1> HIDE DEF limit
<1>5. \A n \in Nat : limit[n] = IF n = 0 THEN {} ELSE Longer(limit[n - 1], ts)
  <2> TAKE n \in Nat
  <2>1. CASE n = 0
    BY <1>2, <2>1
  <2>2. CASE n # 0
    <3>1. n - 1 \in Nat /\ (n - 1) + 1 = n
      BY <2>2
    <3>2. limit[(n - 1) + 1] = Longer(limit[n - 1], ts)
      BY <1>3, <3>1
    <3> QED BY <2>2, <3>1, <3>2
  <2> QED BY <2>1, <2>2
<1>6. Good(limit)
  BY <1>4, <1>5
<1>7. PhrasesOf(ts) = CHOOSE f : Good(f)
  BY DEF PhrasesOf
<1> HIDE DEF Good
<1>8. Good(PhrasesOf(ts))
  BY <1>6, <1>7
<1>9. PhrasesOf(ts) = [n \in Nat |-> IF n = 0 THEN {} ELSE Longer(PhrasesOf(ts)[n - 1], ts)]
  BY <1>8 DEF Good
<1>10. ASSUME NEW n \in Nat PROVE PhrasesOf(ts)[n + 1] = Longer(PhrasesOf(ts)[n], ts)
  <2>1. n + 1 \in Nat /\ n + 1 # 0 /\ (n + 1) - 1 = n
    OBVIOUS
  <2> QED BY <1>9, <2>1
<1> QED BY <1>9, <1>10
\* The part i .. j is a phrase of that kind, whatever number of tokens it is looked
\* for with.
Spells(ts, kind, i, j) ==
    /\ kind \in Kinds /\ i \in Nat \ {0} /\ j \in Nat /\ i <= j + 1
    /\ \A n \in Nat : n > 1 + j - i => <<kind, i, j>> \in PhrasesOf(ts)[n]

LEMMA TheKinds ==
    /\ "postfix" \in Kinds /\ "operand" \in Kinds /\ "operation" \in Kinds
    /\ "expression" \in Kinds /\ "some" \in Kinds /\ "items" \in Kinds
    /\ "parameters" \in Kinds /\ "statement" \in Kinds /\ "declaration" \in Kinds
    /\ "declarations" \in Kinds
BY DEF Kinds

LEMMA LongerHas ==
    ASSUME NEW known, NEW ts, NEW kind \in Kinds, NEW i \in Nat, NEW j \in Nat
    PROVE  <<kind, i, j>> \in Longer(known, ts) <=> IsOfKind(known, ts, kind, i, j)
<1> DEFINE part == <<kind, i, j>>
<1>1. part \in Kinds \X Nat \X Nat
  OBVIOUS
<1>2. part[1] = kind /\ part[2] = i /\ part[3] = j
  OBVIOUS
<1> HIDE DEF part
<1>3. part \in Longer(known, ts) <=> IsOfKind(known, ts, part[1], part[2], part[3])
  BY <1>1 DEF Longer
<1> QED BY <1>2, <1>3 DEF part

LEMMA KindsOfPhrases ==
    ASSUME NEW known, NEW ts, NEW i, NEW j
    PROVE  /\ IsOfKind(known, ts, "postfix", i, j) <=> IsPostfix(known, ts, i, j)
           /\ IsOfKind(known, ts, "operand", i, j) <=> IsOperand(known, ts, i, j)
           /\ IsOfKind(known, ts, "operation", i, j) <=> IsOperation(known, ts, i, j)
           /\ IsOfKind(known, ts, "expression", i, j) <=> IsExpression(known, ts, i, j)
           /\ IsOfKind(known, ts, "some", i, j) <=> IsSome(known, ts, i, j)
           /\ IsOfKind(known, ts, "items", i, j) <=> IsItems(known, ts, i, j)
           /\ IsOfKind(known, ts, "parameters", i, j) <=> IsParameters(known, ts, i, j)
           /\ IsOfKind(known, ts, "statement", i, j) <=> IsStatement(known, ts, i, j)
           /\ IsOfKind(known, ts, "declaration", i, j) <=> IsDeclaration(known, ts, i, j)
           /\ IsOfKind(known, ts, "declarations", i, j) <=> IsDeclarations(known, ts, i, j)
BY DEF IsOfKind

\* A phrase is what a rule says, with as many tokens as its parts have.
LEMMA SpellsBy ==
    ASSUME NEW ts, NEW kind \in Kinds, NEW i \in Nat \ {0}, NEW j \in Nat, i <= j + 1,
           \A n \in Nat : n >= 1 + j - i => IsOfKind(PhrasesOf(ts)[n], ts, kind, i, j)
    PROVE  Spells(ts, kind, i, j)
<1> SUFFICES ASSUME NEW n \in Nat, n > 1 + j - i PROVE <<kind, i, j>> \in PhrasesOf(ts)[n]
  BY DEF Spells
<1>1. n - 1 \in Nat /\ n - 1 >= 1 + j - i /\ (n - 1) + 1 = n
  OBVIOUS
<1>2. PhrasesOf(ts)[n] = Longer(PhrasesOf(ts)[n - 1], ts)
  BY <1>1, PhrasesUnfold
<1>3. IsOfKind(PhrasesOf(ts)[n - 1], ts, kind, i, j)
  BY <1>1
<1> QED BY <1>2, <1>3, LongerHas

LEMMA SpellsHas ==
    ASSUME NEW ts, NEW kind, NEW i, NEW j, Spells(ts, kind, i, j), NEW n \in Nat, n >= 1 + j - i
    PROVE  IsOfKind(PhrasesOf(ts)[n], ts, kind, i, j)
<1>1. /\ kind \in Kinds /\ i \in Nat /\ j \in Nat
      /\ n + 1 \in Nat /\ n + 1 > 1 + j - i
  BY DEF Spells
<1>2. PhrasesOf(ts)[n + 1] = Longer(PhrasesOf(ts)[n], ts)
  BY PhrasesUnfold
<1>3. <<kind, i, j>> \in PhrasesOf(ts)[n + 1]
  BY <1>1 DEF Spells
<1> QED BY <1>1, <1>2, <1>3, LongerHas

LEMMA SpellsIn ==
    ASSUME NEW ts, NEW kind, NEW i, NEW j, Spells(ts, kind, i, j), NEW n \in Nat, n > 1 + j - i
    PROVE  <<kind, i, j>> \in PhrasesOf(ts)[n]
BY DEF Spells

\* An expression has a token.
LEMMA Between ==
    ASSUME NEW i \in Nat, NEW j \in Nat
    PROVE  \A k : k \in i + 1 .. j - 1 <=> k \in Nat /\ i < k /\ k < j
OBVIOUS

LEMMA ExpressionHasToken ==
    ASSUME NEW known, NEW ts, NEW i \in Nat, NEW j \in Nat,
           \/ IsPostfix(known, ts, i, j)
           \/ IsOperand(known, ts, i, j)
           \/ IsOperation(known, ts, i, j)
           \/ IsExpression(known, ts, i, j)
    PROVE  i <= j
<1> DEFINE middle == i + 1 .. j - 1
<1>1. ASSUME NEW k \in middle PROVE i < j /\ i <= j
  BY Between
<1> HIDE DEF middle
<1>2. IsSubscript(known, ts, i, j) => i < j
  BY <1>1 DEF IsSubscript, middle
<1>3. IsCall(known, ts, i, j) => i < j
  BY <1>1 DEF IsCall, middle
<1>4. Encloses(ts, i, j, "LEFT_PAREN", "RIGHT_PAREN") => i < j
  BY DEF Encloses
<1>5. Encloses(ts, i, j, "LEFT_BRACKET", "RIGHT_BRACKET") => i < j
  BY DEF Encloses
<1>6. IsPostfix(known, ts, i, j) => i <= j
  BY <1>2, <1>3, <1>4, <1>5 DEF IsPostfix
<1>7. IsOperand(known, ts, i, j) => i <= j
  BY <1>6 DEF IsOperand
<1>8. IsOperation(known, ts, i, j) => i <= j
  BY <1>1, <1>7 DEF IsOperation, middle
<1>9. IsExpression(known, ts, i, j) => i <= j
  BY <1>1, <1>8 DEF IsExpression, middle
<1> QED BY <1>6, <1>7, <1>8, <1>9

LEMMA SpellsSomething ==
    ASSUME NEW ts, NEW kind \in {"postfix", "operand", "operation", "expression"},
           NEW i, NEW j, Spells(ts, kind, i, j)
    PROVE  i <= j
<1> DEFINE known == PhrasesOf(ts)[j + 1]
<1>1. i \in Nat \ {0} /\ j \in Nat /\ i <= j + 1 /\ j + 1 \in Nat /\ j + 1 >= 1 + j - i
  BY DEF Spells
<1>2. IsOfKind(known, ts, kind, i, j)
  BY <1>1, SpellsHas
<1> HIDE DEF known
<1> QED BY <1>1, <1>2, ExpressionHasToken, KindsOfPhrases

LEMMA SpellsAtom ==
    ASSUME NEW ts, NEW i \in Nat \ {0}, ts[i].type \in Atoms
    PROVE  Spells(ts, "postfix", i, i)
<1>1. \A n \in Nat : IsOfKind(PhrasesOf(ts)[n], ts, "postfix", i, i)
  BY KindsOfPhrases DEF IsPostfix
<1> QED BY <1>1, SpellsBy, TheKinds

LEMMA SpellsGroup ==
    ASSUME NEW ts, NEW i \in Nat \ {0}, NEW j \in Nat,
           ts[i].type = "LEFT_PAREN", ts[j].type = "RIGHT_PAREN", Spells(ts, "expression", i + 1, j - 1)
    PROVE  Spells(ts, "postfix", i, j)
<1>1. i + 1 <= j - 1
  BY SpellsSomething
<1>2. ASSUME NEW n \in Nat, n >= 1 + j - i PROVE IsOfKind(PhrasesOf(ts)[n], ts, "postfix", i, j)
  <2>1. <<"expression", i + 1, j - 1>> \in PhrasesOf(ts)[n]
    BY <1>2, SpellsIn
  <2>2. IsPostfix(PhrasesOf(ts)[n], ts, i, j)
    BY <1>1, <2>1 DEF IsPostfix, Encloses
  <2> QED BY <2>2, KindsOfPhrases
<1> QED BY <1>1, <1>2, SpellsBy, TheKinds

LEMMA SpellsArray ==
    ASSUME NEW ts, NEW i \in Nat \ {0}, NEW j \in Nat,
           ts[i].type = "LEFT_BRACKET", ts[j].type = "RIGHT_BRACKET", Spells(ts, "items", i + 1, j - 1)
    PROVE  Spells(ts, "postfix", i, j)
<1>1. i < j /\ i <= j + 1
  BY DEF Spells
<1>2. ASSUME NEW n \in Nat, n >= 1 + j - i PROVE IsOfKind(PhrasesOf(ts)[n], ts, "postfix", i, j)
  <2>1. <<"items", i + 1, j - 1>> \in PhrasesOf(ts)[n]
    BY <1>2, SpellsIn
  <2>2. IsPostfix(PhrasesOf(ts)[n], ts, i, j)
    BY <1>1, <2>1 DEF IsPostfix, Encloses
  <2> QED BY <2>2, KindsOfPhrases
<1> QED BY <1>1, <1>2, SpellsBy, TheKinds

\* What is indexed is what a subscript is, and what may be assigned to.
LEMMA SubscriptSpelled ==
    ASSUME NEW ts, NEW i \in Nat \ {0}, NEW j \in Nat, NEW k \in Nat,
           Spells(ts, "postfix", i, k - 1), ts[k].type = "LEFT_BRACKET",
           Spells(ts, "expression", k + 1, j - 1), ts[j].type = "RIGHT_BRACKET",
           NEW n \in Nat, n >= 1 + j - i
    PROVE  IsSubscript(PhrasesOf(ts)[n], ts, i, j) /\ i < j
<1>1. i <= k - 1 /\ k + 1 <= j - 1
  BY SpellsSomething
<1>2. k \in i + 1 .. j - 1 /\ n > 1 + (k - 1) - i /\ n > 1 + (j - 1) - (k + 1)
  BY <1>1
<1>3. <<"postfix", i, k - 1>> \in PhrasesOf(ts)[n] /\ <<"expression", k + 1, j - 1>> \in PhrasesOf(ts)[n]
  BY <1>2, SpellsIn
<1>4. Encloses(ts, k, j, "LEFT_BRACKET", "RIGHT_BRACKET")
  BY <1>1 DEF Encloses
<1>5. IsSubscript(PhrasesOf(ts)[n], ts, i, j)
  BY <1>2, <1>3, <1>4 DEF IsSubscript
<1> QED BY <1>1, <1>5

LEMMA SpellsSubscript ==
    ASSUME NEW ts, NEW i \in Nat \ {0}, NEW j \in Nat, NEW k \in Nat,
           Spells(ts, "postfix", i, k - 1), ts[k].type = "LEFT_BRACKET",
           Spells(ts, "expression", k + 1, j - 1), ts[j].type = "RIGHT_BRACKET"
    PROVE  Spells(ts, "postfix", i, j)
<1>1. \A n \in Nat : n >= 1 + j - i => IsSubscript(PhrasesOf(ts)[n], ts, i, j) /\ i < j
  BY SubscriptSpelled
<1>2. i < j /\ i <= j + 1
  <2>1. 1 + j \in Nat /\ 1 + j >= 1 + j - i
    OBVIOUS
  <2> QED BY <1>1, <2>1
<1>3. \A n \in Nat : n >= 1 + j - i => IsOfKind(PhrasesOf(ts)[n], ts, "postfix", i, j)
  BY <1>1, KindsOfPhrases DEF IsPostfix
<1> QED BY <1>2, <1>3, SpellsBy, TheKinds

LEMMA SpellsCall ==
    ASSUME NEW ts, NEW i \in Nat \ {0}, NEW j \in Nat, NEW k \in Nat,
           Spells(ts, "postfix", i, k - 1), ts[k].type = "LEFT_PAREN",
           Spells(ts, "items", k + 1, j - 1), ts[j].type = "RIGHT_PAREN"
    PROVE  Spells(ts, "postfix", i, j)
<1>1. i <= k - 1 /\ k < j
  BY SpellsSomething DEF Spells
<1>2. ASSUME NEW n \in Nat, n >= 1 + j - i PROVE IsOfKind(PhrasesOf(ts)[n], ts, "postfix", i, j)
  <2>1. k \in i + 1 .. j - 1 /\ n > 1 + (k - 1) - i /\ n > 1 + (j - 1) - (k + 1)
    BY <1>1, <1>2
  <2>2. <<"postfix", i, k - 1>> \in PhrasesOf(ts)[n] /\ <<"items", k + 1, j - 1>> \in PhrasesOf(ts)[n]
    BY <2>1, SpellsIn
  <2>3. IsPostfix(PhrasesOf(ts)[n], ts, i, j)
    BY <1>1, <2>1, <2>2 DEF IsPostfix, IsCall, Encloses
  <2> QED BY <2>3, KindsOfPhrases
<1>3. i <= j + 1
  BY <1>1
<1>4. "postfix" \in Kinds
  BY TheKinds
<1> QED BY <1>2, <1>3, <1>4, SpellsBy

LEMMA SpellsUnary ==
    ASSUME NEW ts, NEW i \in Nat \ {0}, NEW j \in Nat,
           ts[i].type \in DOMAIN UnaryCode, Spells(ts, "operand", i + 1, j)
    PROVE  Spells(ts, "operand", i, j)
<1>1. i < j /\ i <= j + 1
  BY SpellsSomething
<1>2. ASSUME NEW n \in Nat, n >= 1 + j - i PROVE IsOfKind(PhrasesOf(ts)[n], ts, "operand", i, j)
  <2>1. <<"operand", i + 1, j>> \in PhrasesOf(ts)[n]
    BY <1>2, SpellsIn
  <2>2. IsOperand(PhrasesOf(ts)[n], ts, i, j)
    BY <1>1, <2>1 DEF IsOperand
  <2> QED BY <2>2, KindsOfPhrases
<1> QED BY <1>1, <1>2, SpellsBy, TheKinds

\* Where a phrase of one kind is always one of another.
LEMMA SpellsAlso ==
    ASSUME NEW ts, NEW kind, NEW other \in Kinds, NEW i, NEW j, Spells(ts, kind, i, j),
           \A known : IsOfKind(known, ts, kind, i, j) => IsOfKind(known, ts, other, i, j)
    PROVE  Spells(ts, other, i, j)
<1>1. i \in Nat \ {0} /\ j \in Nat /\ i <= j + 1
  BY DEF Spells
<1>2. \A n \in Nat : n >= 1 + j - i => IsOfKind(PhrasesOf(ts)[n], ts, other, i, j)
  BY SpellsHas
<1> QED BY <1>1, <1>2, SpellsBy

LEMMA PostfixIsOperand ==
    ASSUME NEW ts, NEW i, NEW j, Spells(ts, "postfix", i, j)
    PROVE  Spells(ts, "operand", i, j)
<1>1. \A known : IsPostfix(known, ts, i, j) => IsOperand(known, ts, i, j)
  BY DEF IsOperand
<1>2. \A known : IsOfKind(known, ts, "postfix", i, j) => IsOfKind(known, ts, "operand", i, j)
  BY <1>1, KindsOfPhrases
<1> QED BY <1>2, SpellsAlso, TheKinds

LEMMA OperandIsOperation ==
    ASSUME NEW ts, NEW i, NEW j, Spells(ts, "operand", i, j)
    PROVE  Spells(ts, "operation", i, j)
<1>1. \A known : IsOperand(known, ts, i, j) => IsOperation(known, ts, i, j)
  BY DEF IsOperation
<1>2. \A known : IsOfKind(known, ts, "operand", i, j) => IsOfKind(known, ts, "operation", i, j)
  BY <1>1, KindsOfPhrases
<1> QED BY <1>2, SpellsAlso, TheKinds

LEMMA OperationIsExpression ==
    ASSUME NEW ts, NEW i, NEW j, Spells(ts, "operation", i, j)
    PROVE  Spells(ts, "expression", i, j)
<1>1. \A known : IsOperation(known, ts, i, j) => IsExpression(known, ts, i, j)
  BY DEF IsExpression
<1>2. \A known : IsOfKind(known, ts, "operation", i, j) => IsOfKind(known, ts, "expression", i, j)
  BY <1>1, KindsOfPhrases
<1> QED BY <1>2, SpellsAlso, TheKinds

LEMMA SomeAreItems ==
    ASSUME NEW ts, NEW i, NEW j, Spells(ts, "some", i, j)
    PROVE  Spells(ts, "items", i, j)
<1>1. \A known : IsSome(known, ts, i, j) => IsItems(known, ts, i, j)
  BY DEF IsItems
<1>2. \A known : IsOfKind(known, ts, "some", i, j) => IsOfKind(known, ts, "items", i, j)
  BY <1>1, KindsOfPhrases
<1> QED BY <1>2, SpellsAlso, TheKinds

LEMMA StatementIsDeclaration ==
    ASSUME NEW ts, NEW i, NEW j, Spells(ts, "statement", i, j)
    PROVE  Spells(ts, "declaration", i, j)
<1>1. \A known : IsStatement(known, ts, i, j) => IsDeclaration(known, ts, i, j)
  BY DEF IsDeclaration
<1>2. \A known : IsOfKind(known, ts, "statement", i, j) => IsOfKind(known, ts, "declaration", i, j)
  BY <1>1, KindsOfPhrases
<1> QED BY <1>2, SpellsAlso, TheKinds

LEMMA ExpressionIsSome ==
    ASSUME NEW ts, NEW i, NEW j, Spells(ts, "expression", i, j)
    PROVE  Spells(ts, "some", i, j)
<1>1. \A known : IsExpression(known, ts, i, j) => IsSome(known, ts, i, j)
  BY DEF IsSome
<1>2. \A known : IsOfKind(known, ts, "expression", i, j) => IsOfKind(known, ts, "some", i, j)
  BY <1>1, KindsOfPhrases
<1> QED BY <1>2, SpellsAlso, TheKinds

\* The two sides of an infix operator.
LEMMA SidesSpelled ==
    ASSUME NEW ts, NEW left \in {"postfix", "operand", "operation", "expression"}, NEW right \in Kinds,
           NEW i \in Nat \ {0}, NEW j \in Nat, NEW k \in Nat,
           Spells(ts, left, i, k - 1), Spells(ts, right, k + 1, j), k < j,
           NEW n \in Nat, n >= 1 + j - i
    PROVE  /\ <<left, i, k - 1>> \in PhrasesOf(ts)[n] /\ <<right, k + 1, j>> \in PhrasesOf(ts)[n]
           /\ k \in i + 1 .. j - 1
<1>1. i <= k - 1
  BY SpellsSomething
<1>2. n > 1 + (k - 1) - i /\ n > 1 + j - (k + 1)
  BY <1>1
<1>3. <<left, i, k - 1>> \in PhrasesOf(ts)[n] /\ <<right, k + 1, j>> \in PhrasesOf(ts)[n]
  BY <1>2, SpellsIn
<1>4. k \in i + 1 .. j - 1
  BY <1>1, Between
<1> QED BY <1>3, <1>4

LEMMA SpellsInfix ==
    ASSUME NEW ts, NEW i \in Nat \ {0}, NEW j \in Nat, NEW k \in Nat,
           Spells(ts, "operation", i, k - 1), ts[k].type \in Infix, Spells(ts, "operation", k + 1, j)
    PROVE  Spells(ts, "operation", i, j)
<1>1. i < j /\ i <= j + 1 /\ k < j
  BY SpellsSomething
<1>2. ASSUME NEW n \in Nat, n >= 1 + j - i PROVE IsOfKind(PhrasesOf(ts)[n], ts, "operation", i, j)
  <2>1. /\ <<"operation", i, k - 1>> \in PhrasesOf(ts)[n] /\ <<"operation", k + 1, j>> \in PhrasesOf(ts)[n]
        /\ k \in i + 1 .. j - 1
    BY <1>1, <1>2, SidesSpelled, TheKinds
  <2>2. IsOperation(PhrasesOf(ts)[n], ts, i, j)
    BY <2>1 DEF IsOperation
  <2> QED BY <2>2, KindsOfPhrases
<1> QED BY <1>1, <1>2, SpellsBy, TheKinds

LEMMA SpellsCons ==
    ASSUME NEW ts, NEW i \in Nat \ {0}, NEW j \in Nat, NEW k \in Nat,
           Spells(ts, "expression", i, k - 1), ts[k].type = "COMMA", Spells(ts, "some", k + 1, j), k < j
    PROVE  Spells(ts, "some", i, j)
<1>1. i < j /\ i <= j + 1
  BY SpellsSomething
<1>2. ASSUME NEW n \in Nat, n >= 1 + j - i PROVE IsOfKind(PhrasesOf(ts)[n], ts, "some", i, j)
  <2>1. /\ <<"expression", i, k - 1>> \in PhrasesOf(ts)[n] /\ <<"some", k + 1, j>> \in PhrasesOf(ts)[n]
        /\ k \in i + 1 .. j - 1
    BY <1>2, SidesSpelled, TheKinds
  <2>2. IsSome(PhrasesOf(ts)[n], ts, i, j)
    BY <2>1 DEF IsSome
  <2> QED BY <2>2, KindsOfPhrases
<1> QED BY <1>1, <1>2, SpellsBy, TheKinds

LEMMA SpellsAssignName ==
    ASSUME NEW ts, NEW i \in Nat \ {0}, NEW j \in Nat,
           ts[i].type = "IDENTIFIER", ts[i + 1].type = "EQUAL", Spells(ts, "expression", i + 2, j)
    PROVE  Spells(ts, "expression", i, j)
<1>1. i + 2 <= j /\ i <= j + 1
  BY SpellsSomething
<1>2. ASSUME NEW n \in Nat, n >= 1 + j - i PROVE IsOfKind(PhrasesOf(ts)[n], ts, "expression", i, j)
  <2>1. <<"expression", (i + 1) + 1, j>> \in PhrasesOf(ts)[n]
    <3>1. i + 2 = (i + 1) + 1 /\ n > 1 + j - (i + 2)
      BY <1>2
    <3> QED BY <3>1, SpellsIn
  <2>2. i + 1 \in i + 1 .. j - 1 /\ (i + 1) - 1 = i
    BY <1>1
  <2>3. IsTarget(PhrasesOf(ts)[n], ts, i, (i + 1) - 1)
    BY <2>2 DEF IsTarget
  <2>4. IsExpression(PhrasesOf(ts)[n], ts, i, j)
    BY <2>1, <2>2, <2>3 DEF IsExpression
  <2> QED BY <2>4, KindsOfPhrases
<1> QED BY <1>1, <1>2, SpellsBy, TheKinds

LEMMA SpellsAssignItem ==
    ASSUME NEW ts, NEW i \in Nat \ {0}, NEW j \in Nat, NEW k \in Nat, NEW e \in Nat,
           Spells(ts, "postfix", i, k - 1), ts[k].type = "LEFT_BRACKET",
           Spells(ts, "expression", k + 1, e - 2), ts[e - 1].type = "RIGHT_BRACKET",
           ts[e].type = "EQUAL", Spells(ts, "expression", e + 1, j)
    PROVE  Spells(ts, "expression", i, j)
<1>1. i <= k - 1 /\ k + 1 <= e - 2 /\ e + 1 <= j
  BY SpellsSomething
<1>2. i <= j + 1 /\ e - 1 \in Nat /\ (e - 1) - 1 = e - 2
  BY <1>1
<1>3. ASSUME NEW n \in Nat, n >= 1 + j - i PROVE IsOfKind(PhrasesOf(ts)[n], ts, "expression", i, j)
  <2>1. <<"expression", e + 1, j>> \in PhrasesOf(ts)[n]
    <3>1. n > 1 + j - (e + 1)
      BY <1>1, <1>3
    <3> QED BY <3>1, SpellsIn
  <2>2. e \in i + 1 .. j - 1 /\ n >= 1 + (e - 1) - i
    BY <1>1, <1>3
  <2>3. IsSubscript(PhrasesOf(ts)[n], ts, i, e - 1)
    BY <1>2, <2>2, SubscriptSpelled
  <2>4. IsTarget(PhrasesOf(ts)[n], ts, i, e - 1)
    BY <2>3 DEF IsTarget
  <2>5. IsExpression(PhrasesOf(ts)[n], ts, i, j)
    BY <2>1, <2>2, <2>4 DEF IsExpression
  <2> QED BY <2>5, KindsOfPhrases
<1> QED BY <1>2, <1>3, SpellsBy, TheKinds

LEMMA NoItems ==
    ASSUME NEW ts, NEW i \in Nat \ {0}
    PROVE  Spells(ts, "items", i, i - 1)
<1>1. i - 1 \in Nat /\ i > i - 1 /\ i <= (i - 1) + 1
  OBVIOUS
<1>2. \A n \in Nat : IsOfKind(PhrasesOf(ts)[n], ts, "items", i, i - 1)
  BY <1>1, KindsOfPhrases DEF IsItems
<1> QED BY <1>1, <1>2, SpellsBy, TheKinds

LEMMA NoDeclarations ==
    ASSUME NEW ts, NEW i \in Nat \ {0}
    PROVE  Spells(ts, "declarations", i, i - 1)
<1>1. i - 1 \in Nat /\ i > i - 1 /\ i <= (i - 1) + 1
  OBVIOUS
<1>2. \A n \in Nat : IsOfKind(PhrasesOf(ts)[n], ts, "declarations", i, i - 1)
  BY <1>1, KindsOfPhrases DEF IsDeclarations
<1> QED BY <1>1, <1>2, SpellsBy, TheKinds

LEMMA OneParameter ==
    ASSUME NEW ts, NEW i \in Nat \ {0}, ts[i].type = "IDENTIFIER"
    PROVE  Spells(ts, "parameters", i, i)
<1>1. i <= i /\ i <= i + 1
  OBVIOUS
<1>2. ASSUME NEW n \in Nat PROVE IsOfKind(PhrasesOf(ts)[n], ts, "parameters", i, i)
  <2>1. IsParameters(PhrasesOf(ts)[n], ts, i, i)
    BY <1>1 DEF IsParameters
  <2> QED BY <2>1, KindsOfPhrases
<1> QED BY <1>1, <1>2, SpellsBy, TheKinds

LEMMA MoreParameters ==
    ASSUME NEW ts, NEW i \in Nat \ {0}, NEW j \in Nat, i + 2 <= j,
           ts[i].type = "IDENTIFIER", ts[i + 1].type = "COMMA", Spells(ts, "parameters", i + 2, j)
    PROVE  Spells(ts, "parameters", i, j)
<1>1. ASSUME NEW n \in Nat, n >= 1 + j - i PROVE IsOfKind(PhrasesOf(ts)[n], ts, "parameters", i, j)
  <2>1. <<"parameters", i + 2, j>> \in PhrasesOf(ts)[n]
    <3>1. n > 1 + j - (i + 2)
      BY <1>1
    <3> QED BY <3>1, SpellsIn
  <2>2. IsParameters(PhrasesOf(ts)[n], ts, i, j)
    BY <2>1 DEF IsParameters
  <2> QED BY <2>2, KindsOfPhrases
<1>2. i <= j + 1
  OBVIOUS
<1> QED BY <1>1, <1>2, SpellsBy, TheKinds

LEMMA BlockSpelled ==
    ASSUME NEW ts, NEW i \in Nat \ {0}, NEW j \in Nat,
           ts[i].type = "LEFT_BRACE", ts[j].type = "RIGHT_BRACE",
           Spells(ts, "declarations", i + 1, j - 1), NEW n \in Nat, n >= j - i
    PROVE  IsBlock(PhrasesOf(ts)[n], ts, i, j) /\ i < j
<1>1. i < j /\ n > 1 + (j - 1) - (i + 1)
  BY DEF Spells
<1>2. <<"declarations", i + 1, j - 1>> \in PhrasesOf(ts)[n]
  BY <1>1, SpellsIn
<1>3. Encloses(ts, i, j, "LEFT_BRACE", "RIGHT_BRACE")
  BY <1>1 DEF Encloses
<1> QED BY <1>1, <1>2, <1>3 DEF IsBlock

LEMMA SpellsBlock ==
    ASSUME NEW ts, NEW i \in Nat \ {0}, NEW j \in Nat,
           ts[i].type = "LEFT_BRACE", ts[j].type = "RIGHT_BRACE", Spells(ts, "declarations", i + 1, j - 1)
    PROVE  Spells(ts, "statement", i, j)
<1>1. \A n \in Nat : n >= j - i => IsBlock(PhrasesOf(ts)[n], ts, i, j) /\ i < j
  BY BlockSpelled
<1>2. i < j /\ i <= j /\ i <= j + 1
  BY <1>1
<1>3. ASSUME NEW n \in Nat, n >= 1 + j - i PROVE IsOfKind(PhrasesOf(ts)[n], ts, "statement", i, j)
  <2>1. n >= j - i
    BY <1>3
  <2>2. IsStatement(PhrasesOf(ts)[n], ts, i, j)
    BY <1>1, <1>2, <2>1 DEF IsStatement
  <2> QED BY <2>2, KindsOfPhrases
<1> QED BY <1>2, <1>3, SpellsBy, TheKinds

\* What a statement is, and what a declaration is, in one step.
LEMMA SpellsStatement ==
    ASSUME NEW ts, NEW i \in Nat \ {0}, NEW j \in Nat, i <= j,
           \A n \in Nat : n >= 1 + j - i => IsStatement(PhrasesOf(ts)[n], ts, i, j)
    PROVE  Spells(ts, "statement", i, j)
<1>1. \A n \in Nat : n >= 1 + j - i => IsOfKind(PhrasesOf(ts)[n], ts, "statement", i, j)
  BY KindsOfPhrases
<1>2. i <= j + 1
  OBVIOUS
<1> QED BY <1>1, <1>2, SpellsBy, TheKinds

LEMMA SpellsDeclaration ==
    ASSUME NEW ts, NEW i \in Nat \ {0}, NEW j \in Nat, i <= j,
           \A n \in Nat : n >= 1 + j - i => IsDeclaration(PhrasesOf(ts)[n], ts, i, j)
    PROVE  Spells(ts, "declaration", i, j)
<1>1. \A n \in Nat : n >= 1 + j - i => IsOfKind(PhrasesOf(ts)[n], ts, "declaration", i, j)
  BY KindsOfPhrases
<1>2. i <= j + 1
  OBVIOUS
<1> QED BY <1>1, <1>2, SpellsBy, TheKinds

LEMMA SpellsReturnNothing ==
    ASSUME NEW ts, NEW i \in Nat \ {0}, ts[i].type = "RETURN", ts[i + 1].type = "SEMICOLON"
    PROVE  Spells(ts, "statement", i, i + 1)
<1>1. i < i + 1 /\ i <= i + 1
  OBVIOUS
<1>2. ASSUME NEW n \in Nat PROVE IsStatement(PhrasesOf(ts)[n], ts, i, i + 1)
  <2>1. IsReturn(PhrasesOf(ts)[n], ts, i, i + 1)
    BY <1>1 DEF IsReturn
  <2> QED BY <1>1, <2>1 DEF IsStatement
<1> QED BY <1>1, <1>2, SpellsStatement

LEMMA SpellsReturn ==
    ASSUME NEW ts, NEW i \in Nat \ {0}, NEW j \in Nat,
           ts[i].type = "RETURN", Spells(ts, "expression", i + 1, j - 1), ts[j].type = "SEMICOLON"
    PROVE  Spells(ts, "statement", i, j)
<1>1. i < j /\ i <= j
  <2>1. i + 1 <= j - 1
    BY SpellsSomething
  <2> QED BY <2>1
<1>2. ASSUME NEW n \in Nat, n >= 1 + j - i PROVE IsStatement(PhrasesOf(ts)[n], ts, i, j)
  <2>1. <<"expression", i + 1, j - 1>> \in PhrasesOf(ts)[n]
    BY <1>2, SpellsIn
  <2>2. IsReturn(PhrasesOf(ts)[n], ts, i, j)
    BY <1>1, <2>1 DEF IsReturn
  <2> QED BY <1>1, <2>2 DEF IsStatement
<1> QED BY <1>1, <1>2, SpellsStatement

LEMMA SpellsExpressionStatement ==
    ASSUME NEW ts, NEW i \in Nat \ {0}, NEW j \in Nat,
           Spells(ts, "expression", i, j - 1), ts[j].type = "SEMICOLON"
    PROVE  Spells(ts, "statement", i, j)
<1>1. i <= j
  BY SpellsSomething
<1>2. ASSUME NEW n \in Nat, n >= 1 + j - i PROVE IsStatement(PhrasesOf(ts)[n], ts, i, j)
  <2>1. <<"expression", i, j - 1>> \in PhrasesOf(ts)[n]
    BY <1>2, SpellsIn
  <2> QED BY <1>1, <2>1 DEF IsStatement
<1> QED BY <1>1, <1>2, SpellsStatement

\* The condition of if and while, and the statement under it.
LEMMA SpellsConditional ==
    ASSUME NEW ts, NEW i \in Nat \ {0}, NEW j \in Nat, NEW k \in Nat,
           ts[i].type \in {"IF", "WHILE"}, ts[i + 1].type = "LEFT_PAREN",
           Spells(ts, "expression", i + 2, k - 1), ts[k].type = "RIGHT_PAREN",
           Spells(ts, "statement", k + 1, j), k < j
    PROVE  Spells(ts, "statement", i, j)
<1>1. i + 2 <= k - 1
  BY SpellsSomething
<1>2. i <= j /\ i + 3 <= j /\ k \in i + 3 .. j - 1
  BY <1>1
<1>3. ASSUME NEW n \in Nat, n >= 1 + j - i PROVE IsStatement(PhrasesOf(ts)[n], ts, i, j)
  <2>1. n > 1 + (k - 1) - (i + 2) /\ n > 1 + j - (k + 1)
    BY <1>1, <1>3
  <2>2. <<"expression", i + 2, k - 1>> \in PhrasesOf(ts)[n] /\ <<"statement", k + 1, j>> \in PhrasesOf(ts)[n]
    BY <2>1, SpellsIn
  <2>3. IsConditional(PhrasesOf(ts)[n], ts, i, j)
    BY <1>2, <2>2 DEF IsConditional
  <2> QED BY <1>2, <2>3 DEF IsStatement
<1> QED BY <1>2, <1>3, SpellsStatement

LEMMA SpellsIfElse ==
    ASSUME NEW ts, NEW i \in Nat \ {0}, NEW j \in Nat, NEW k \in Nat, NEW e \in Nat,
           ts[i].type = "IF", ts[i + 1].type = "LEFT_PAREN",
           Spells(ts, "expression", i + 2, k - 1), ts[k].type = "RIGHT_PAREN",
           Spells(ts, "statement", k + 1, e - 1), k + 1 < e, ts[e].type = "ELSE",
           Spells(ts, "statement", e + 1, j), e < j
    PROVE  Spells(ts, "statement", i, j)
<1>1. i + 2 <= k - 1
  BY SpellsSomething
<1>2. i <= j /\ i + 3 <= j /\ k \in i + 3 .. j - 1 /\ e \in k + 2 .. j - 1
  BY <1>1
<1>3. ASSUME NEW n \in Nat, n >= 1 + j - i PROVE IsStatement(PhrasesOf(ts)[n], ts, i, j)
  <2>1. n > 1 + (k - 1) - (i + 2) /\ n > 1 + (e - 1) - (k + 1) /\ n > 1 + j - (e + 1)
    BY <1>1, <1>3
  <2>2. <<"expression", i + 2, k - 1>> \in PhrasesOf(ts)[n]
    BY <2>1, SpellsIn
  <2>3. <<"statement", k + 1, e - 1>> \in PhrasesOf(ts)[n]
    BY <2>1, SpellsIn
  <2>4. <<"statement", e + 1, j>> \in PhrasesOf(ts)[n]
    BY <2>1, SpellsIn
  <2>5. IsConditional(PhrasesOf(ts)[n], ts, i, j)
    BY <1>2, <2>2, <2>3, <2>4 DEF IsConditional
  <2> QED BY <1>2, <2>5 DEF IsStatement
<1> QED BY <1>2, <1>3, SpellsStatement

LEMMA SpellsVariable ==
    ASSUME NEW ts, NEW i \in Nat \ {0}, ts[i].type \in {"LET", "CONST"},
           ts[i + 1].type = "IDENTIFIER", ts[i + 2].type = "SEMICOLON"
    PROVE  Spells(ts, "declaration", i, i + 2)
<1>1. i <= i + 2 /\ i + 2 <= i + 2
  OBVIOUS
<1>2. ASSUME NEW n \in Nat PROVE IsDeclaration(PhrasesOf(ts)[n], ts, i, i + 2)
  <2>1. IsVariable(PhrasesOf(ts)[n], ts, i, i + 2)
    BY <1>1 DEF IsVariable
  <2> QED BY <1>1, <2>1 DEF IsDeclaration
<1> QED BY <1>1, <1>2, SpellsDeclaration

LEMMA SpellsInitialized ==
    ASSUME NEW ts, NEW i \in Nat \ {0}, NEW j \in Nat, ts[i].type \in {"LET", "CONST"},
           ts[i + 1].type = "IDENTIFIER", ts[i + 2].type = "EQUAL",
           Spells(ts, "expression", i + 3, j - 1), ts[j].type = "SEMICOLON"
    PROVE  Spells(ts, "declaration", i, j)
<1>1. i <= j /\ i + 2 <= j
  BY SpellsSomething
<1>2. ASSUME NEW n \in Nat, n >= 1 + j - i PROVE IsDeclaration(PhrasesOf(ts)[n], ts, i, j)
  <2>1. n > 1 + (j - 1) - (i + 3)
    BY <1>2
  <2>2. <<"expression", i + 3, j - 1>> \in PhrasesOf(ts)[n]
    BY <2>1, SpellsIn
  <2>3. IsVariable(PhrasesOf(ts)[n], ts, i, j)
    BY <1>1, <2>2 DEF IsVariable
  <2> QED BY <1>1, <2>3 DEF IsDeclaration
<1> QED BY <1>1, <1>2, SpellsDeclaration

LEMMA SpellsFunction ==
    ASSUME NEW ts, NEW i \in Nat \ {0}, NEW j \in Nat, NEW k \in Nat, ts[i].type = "DEF",
           ts[i + 1].type = "IDENTIFIER", ts[i + 2].type = "LEFT_PAREN", i + 3 <= k,
           k = i + 3 \/ Spells(ts, "parameters", i + 3, k - 1), ts[k].type = "RIGHT_PAREN",
           ts[k + 1].type = "LEFT_BRACE", Spells(ts, "declarations", k + 2, j - 1),
           ts[j].type = "RIGHT_BRACE"
    PROVE  Spells(ts, "declaration", i, j)
<1>1. k + 2 <= j
  BY DEF Spells
<1>2. i <= j /\ i + 4 <= j /\ k \in i + 3 .. j - 1 /\ k + 1 \in Nat \ {0} /\ (k + 1) + 1 = k + 2
  BY <1>1
<1>3. ASSUME NEW n \in Nat, n >= 1 + j - i PROVE IsDeclaration(PhrasesOf(ts)[n], ts, i, j)
  <2>1. n > 1 + (k - 1) - (i + 3) /\ n >= j - (k + 1)
    BY <1>1, <1>3
  <2>2. k = i + 3 \/ <<"parameters", i + 3, k - 1>> \in PhrasesOf(ts)[n]
    BY <2>1, SpellsIn
  <2>3. IsBlock(PhrasesOf(ts)[n], ts, k + 1, j)
    BY <1>2, <2>1, BlockSpelled
  <2>4. IsFunction(PhrasesOf(ts)[n], ts, i, j)
    BY <1>2, <2>2, <2>3 DEF IsFunction
  <2> QED BY <1>2, <2>4 DEF IsDeclaration
<1> QED BY <1>2, <1>3, SpellsDeclaration

LEMMA SpellsDeclarations ==
    ASSUME NEW ts, NEW i \in Nat \ {0}, NEW j \in Nat, NEW k \in Nat,
           Spells(ts, "declaration", i, k), i <= k, Spells(ts, "declarations", k + 1, j)
    PROVE  Spells(ts, "declarations", i, j)
<1>1. k <= j /\ i <= j + 1 /\ k \in i .. j
  BY DEF Spells
<1>2. ASSUME NEW n \in Nat, n >= 1 + j - i PROVE IsOfKind(PhrasesOf(ts)[n], ts, "declarations", i, j)
  <2>1. n >= 1 + k - i /\ n > 1 + j - (k + 1)
    BY <1>1, <1>2
  <2>2. <<"declarations", k + 1, j>> \in PhrasesOf(ts)[n]
    BY <2>1, SpellsIn
  <2>3. IsDeclaration(PhrasesOf(ts)[n], ts, i, k)
    BY <2>1, SpellsHas, KindsOfPhrases
  <2>4. IsDeclarations(PhrasesOf(ts)[n], ts, i, j)
    BY <1>1, <2>2, <2>3 DEF IsDeclarations
  <2> QED BY <2>4, KindsOfPhrases
<1> QED BY <1>1, <1>2, SpellsBy, TheKinds

LEMMA SpellsProgram ==
    ASSUME NEW ts, Len(ts) \in Nat, Spells(ts, "declarations", 1, Len(ts))
    PROVE  IsProgram(ts)
<1>1. Len(ts) + 1 \in Nat /\ Len(ts) + 1 > 1 + Len(ts) - 1
  OBVIOUS
<1> QED BY <1>1, SpellsIn DEF IsProgram, IsPhrase

-----------------------------------------------------------------------------
(* Where the parser is. *)

LEMMA PlaceOf ==
    ASSUME NEW p, Fine(p)
    PROVE  /\ CurrentAt(p) \in Nat \ {0} /\ CurrentAt(p) <= Len(p.tokens) + 1
           /\ Len(p.tokens) \in Nat
           /\ p.current.type = "EOF" => CurrentAt(p) = Len(p.tokens) + 1
           /\ p.current.type # "EOF" => /\ CurrentAt(p) <= Len(p.tokens)
                                        /\ p.tokens[CurrentAt(p)] = p.current
<1>1. p.tokens \in Seq(SourceToken) /\ p.scanned \in Nat /\ p.scanned <= Len(p.tokens)
  BY DEF Fine, Parser
<1>2. Len(p.tokens) \in Nat /\ DOMAIN p.tokens = 1 .. Len(p.tokens)
  BY <1>1
<1>3. CASE p.current.type = "EOF"
  BY <1>2, <1>3 DEF CurrentAt
<1>4. CASE p.current.type # "EOF"
  <2>1. p.scanned \in 1 .. Len(p.tokens) /\ p.current = p.tokens[p.scanned]
    BY <1>2, <1>4 DEF Fine
  <2> QED BY <1>1, <1>2, <1>4, <2>1 DEF CurrentAt
<1> QED BY <1>3, <1>4

LEMMA FollowsPlace ==
    ASSUME NEW p, NEW q, Fine(p), Moves(p, q) \/ Follows(p, q)
    PROVE  /\ q.tokens = p.tokens /\ CurrentAt(p) <= CurrentAt(q) /\ Fine(q)
           /\ ~q.errored => ~p.errored
<1>1. q.tokens = p.tokens /\ Fine(q) /\ Left(q) <= Left(p) /\ (~q.errored => ~p.errored)
  BY DEF Follows, Moves
<1>2. \A r : Fine(r) => Len(r.tokens) \in Nat /\ r.scanned \in Nat
  BY DEF Fine, Parser
<1>3. \A r : Fine(r) => CurrentAt(r) = 1 + Len(r.tokens) - Left(r)
  BY <1>2 DEF CurrentAt, Left
<1>4. Left(p) \in Nat /\ Left(q) \in Nat /\ Len(p.tokens) \in Nat
  BY <1>1, <1>2, LeftIsNat
<1>5. CurrentAt(p) = 1 + Len(p.tokens) - Left(p) /\ CurrentAt(q) = 1 + Len(p.tokens) - Left(q)
  BY <1>1, <1>3
<1> QED BY <1>1, <1>4, <1>5

\* What is not a token keeps the place.
LEMMA StaysPlace ==
    ASSUME NEW p, NEW q, Stays(p, q)
    PROVE  /\ q.tokens = p.tokens /\ CurrentAt(q) = CurrentAt(p) /\ q.current = p.current
           /\ q.previous = p.previous
BY DEF Stays, CurrentAt

LEMMA KeepsPlace ==
    ASSUME NEW p, NEW q, Keeps(p, q)
    PROVE  /\ q.tokens = p.tokens /\ CurrentAt(q) = CurrentAt(p) /\ q.current = p.current
           /\ q.previous = p.previous /\ Fine(q) /\ (~q.errored => ~p.errored)
BY StaysPlace DEF Keeps, Follows

\* One token has been read, and no other was skipped.
Passes(p, q) ==
    /\ q.tokens = p.tokens /\ Fine(q) /\ ~p.errored
    /\ CurrentAt(q) = CurrentAt(p) + 1
    /\ q.previous = p.current /\ p.current = p.tokens[CurrentAt(p)]

LEMMA AdvanceMeets ==
    ASSUME NEW p, Fine(p), ~Advance(p).errored, Advance(p).current.type = "EOF"
    PROVE  p.scanned = Len(p.tokens)
<1> DEFINE readable == {i \in p.scanned + 1 .. Len(p.tokens) : p.tokens[i].type # "ERROR"}
           next == IF readable = {} THEN Len(p.tokens) + 1 ELSE Min(readable)
           passed == \E i \in p.scanned + 1 .. next - 1 : i \in DOMAIN p.tokens
           q == IF passed THEN ErrorAt(p, Token("ERROR", 0)) ELSE p
           current == IF readable = {} THEN Eof(p.last_line) ELSE p.tokens[next]
           scanned == IF readable = {} THEN Len(p.tokens) ELSE next
           r == [q EXCEPT !.previous = p.current, !.current = current, !.scanned = scanned]
<1>1. Advance(p) = r
  BY DEF Advance
<1>2. /\ p.tokens \in Seq(SourceToken) /\ p.scanned \in Nat /\ p.last_line \in Nat
      /\ Len(p.tokens) \in Nat /\ Begun(p)
      /\ p.scanned <= Len(p.tokens) /\ DOMAIN p.tokens = 1 .. Len(p.tokens)
  BY DEF Begun, Fine, Parser
<1>3. readable # {} => next \in p.scanned + 1 .. Len(p.tokens)
  <2>1. readable \subseteq Nat
    BY <1>2
  <2>2. readable # {} => Min(readable) \in readable
    BY <2>1, MinOfNats
  <2> QED BY <2>2
<1>4. Token("ERROR", 0) \in AnyToken
  BY TokenIsToken DEF TokenTypes
<1>5. q \in Parser /\ (passed => q.errored)
  BY <1>2, <1>4, ErrorAtBegun DEF Begun
<1>6. readable # {} => current.type # "EOF"
  <2>1. \A i \in 1 .. Len(p.tokens) : p.tokens[i].type # "EOF"
    BY <1>2 DEF SourceToken, SpelledToken
  <2>2. readable # {} => next \in 1 .. Len(p.tokens)
    BY <1>2, <1>3
  <2> QED BY <2>1, <2>2
<1> HIDE DEF q, current, scanned, readable, next, passed
<1>7. r.scanned = scanned /\ r.current = current /\ r.errored = q.errored
  BY <1>5 DEF Parser
<1>8. readable = {} /\ ~passed
  BY <1>1, <1>5, <1>6, <1>7
<1>9. next = Len(p.tokens) + 1
  BY <1>8 DEF next
<1> SUFFICES ASSUME p.scanned # Len(p.tokens) PROVE FALSE
  OBVIOUS
<1>10. Len(p.tokens) \in p.scanned + 1 .. next - 1 /\ Len(p.tokens) \in DOMAIN p.tokens
  BY <1>2, <1>9
<1> QED BY <1>8, <1>10 DEF passed

LEMMA AdvanceTakes ==
    ASSUME NEW p, Fine(p), p.current.type # "EOF", ~Advance(p).errored
    PROVE  Passes(p, Advance(p))
<1> DEFINE q == Advance(p)
<1>1. Fine(q) /\ Follows(p, q) /\ q.previous = p.current
  BY AdvanceReads, AdvanceFollows
<1>2. q.tokens = p.tokens /\ ~p.errored
  BY <1>1, FollowsPlace
<1>3. CurrentAt(p) = p.scanned /\ p.scanned \in Nat /\ p.current = p.tokens[CurrentAt(p)]
  BY PlaceOf DEF CurrentAt, Fine, Parser
<1>4. CASE q.current.type = "EOF"
  <2>1. p.scanned = Len(p.tokens)
    BY <1>4, AdvanceMeets
  <2>2. CurrentAt(q) = Len(p.tokens) + 1
    BY <1>2, <1>4 DEF CurrentAt
  <2> QED BY <1>1, <1>2, <1>3, <2>1, <2>2 DEF Passes
<1>5. CASE q.current.type # "EOF"
  <2>1. CurrentAt(q) = p.scanned + 1
    BY <1>5, AdvanceNext DEF CurrentAt
  <2> QED BY <1>1, <1>2, <1>3, <2>1 DEF Passes
<1> QED BY <1>4, <1>5

LEMMA ConsumeTakes ==
    ASSUME NEW p, Fine(p), NEW type, type # "EOF", ~Consume(p, type).errored
    PROVE  Passes(p, Consume(p, type)) /\ p.current.type = type
<1>1. CASE Check(p, type)
  <2>1. p.current.type = type /\ Consume(p, type) = Advance(p)
    BY <1>1 DEF Check, Consume
  <2> QED BY <2>1, AdvanceTakes
<1>2. CASE ~Check(p, type)
  BY <1>2, ErrorAtCurrentFollows DEF Consume
<1> QED BY <1>1, <1>2

-----------------------------------------------------------------------------
(* Calls: as Serves and Room, for what is read without an error. *)

\* What an expression of that precedence is.
Level(precedence) ==
    IF precedence = 1 THEN "expression" ELSE IF precedence <= 7 THEN "operation" ELSE "operand"

\* What has been read of an expression, from i on: more can follow it only if it binds
\* less than what is there.
Begins(ts, precedence, i, p) ==
    \/ Spells(ts, "postfix", i, CurrentAt(p) - 1)
    \/ /\ Spells(ts, IF precedence <= 7 THEN "operation" ELSE "operand", i, CurrentAt(p) - 1)
       /\ Precedence(p.current.type) < 8
    \/ /\ precedence = 1 /\ Spells(ts, "expression", i, CurrentAt(p) - 1)
       /\ Precedence(p.current.type) = 0

\* An expression has been read, from i on.
Ends(ts, precedence, i, p) ==
    /\ Spells(ts, Level(precedence), i, CurrentAt(p) - 1)
    /\ Precedence(p.current.type) < precedence

\* What has been read when a call of the goal ends, if there was no error.
Says(goal, number, p, q) ==
    LET ts == p.tokens
    IN  /\ goal = "expression" => Ends(ts, number, CurrentAt(p), q)
        /\ goal = "infix" =>
              \A i \in Nat \ {0} : Begins(ts, number, i, p) => Ends(ts, number, i, q)
        /\ goal \in DOMAIN Closing =>
              /\ CurrentAt(q) >= CurrentAt(p) + 2
              /\ Spells(ts, "some", CurrentAt(p), CurrentAt(q) - 2)
              /\ ts[CurrentAt(q) - 1].type = Closing[goal]
        /\ goal \in {"statement", "declaration"} =>
              /\ CurrentAt(q) > CurrentAt(p)
              /\ Spells(ts, goal, CurrentAt(p), CurrentAt(q) - 1)
        /\ goal = "block" =>
              /\ CurrentAt(q) > CurrentAt(p)
              /\ Spells(ts, "declarations", CurrentAt(p), CurrentAt(q) - 2)
              /\ ts[CurrentAt(q) - 1].type = "RIGHT_BRACE"
        /\ goal = "declarations" => Spells(ts, "declarations", CurrentAt(p), Len(ts))
        /\ goal = "parameters" =>
              (CurrentAt(p) > 1 /\ ts[CurrentAt(p) - 1].type = "IDENTIFIER"
                  => Spells(ts, "parameters", CurrentAt(p) - 1, CurrentAt(q) - 1))

Parses(parse, calls) ==
    \A goal \in Goals, p \in Parser, number \in Nat :
        /\ Fine(p) /\ 3 * Left(p) + Rank(goal) < calls
        /\ goal \in {"expression", "infix"} => number \in 1 .. 8
        /\ ~parse[goal, p, number].errored
        => Says(goal, number, p, parse[goal, p, number])

Knows(parse, p, more) ==
    \E calls \in Nat :
        Serves(parse, calls) /\ Parses(parse, calls) /\ 3 * Left(p) + more <= calls

LEMMA KnowsIsRoom ==
    ASSUME NEW parse, NEW p, NEW more, Knows(parse, p, more)
    PROVE  Room(parse, p, more)
BY DEF Knows, Room

LEMMA KnowsAfter ==
    ASSUME NEW parse, NEW p, NEW q, Fine(p), Moves(p, q) \/ Follows(p, q), NEW more \in Nat,
           Knows(parse, p, more), NEW fewer \in 0 .. more
    PROVE  Knows(parse, q, fewer)
<1>1. PICK calls \in Nat :
          Serves(parse, calls) /\ Parses(parse, calls) /\ 3 * Left(p) + more <= calls
  BY DEF Knows
<1>2. Left(p) \in Nat /\ Left(q) \in Nat /\ Left(q) <= Left(p)
  BY LeftIsNat DEF Follows, Moves
<1>3. 3 * Left(q) + fewer <= calls
  BY <1>1, <1>2
<1> QED BY <1>1, <1>3 DEF Knows

LEMMA KnowsPast ==
    ASSUME NEW parse, NEW p, NEW q, Fine(p), Fine(q), Left(q) < Left(p), NEW more \in Nat,
           Knows(parse, p, more), NEW fewer \in 0 .. more + 3
    PROVE  Knows(parse, q, fewer)
<1>1. PICK calls \in Nat :
          Serves(parse, calls) /\ Parses(parse, calls) /\ 3 * Left(p) + more <= calls
  BY DEF Knows
<1>2. Left(p) \in Nat /\ Left(q) \in Nat
  BY LeftIsNat
<1>3. 3 * Left(q) + fewer <= calls
  BY <1>1, <1>2
<1> QED BY <1>1, <1>3 DEF Knows

LEMMA KnowsAfterToken ==
    ASSUME NEW parse, NEW p, Fine(p), p.current.type # "EOF", NEW more \in Nat,
           Knows(parse, p, more), NEW fewer \in 0 .. more + 3
    PROVE  Knows(parse, Advance(p), fewer)
BY AdvanceReads, AdvancePasses, KnowsPast DEF Reads, Follows

LEMMA Known ==
    ASSUME NEW parse, NEW p, Fine(p), NEW goal \in Goals, NEW number \in Nat,
           goal \in {"expression", "infix"} => number \in 1 .. 8,
           Knows(parse, p, Rank(goal) + 1)
    PROVE  /\ Follows(p, parse[goal, p, number])
           /\ ~parse[goal, p, number].errored => Says(goal, number, p, parse[goal, p, number])
<1>1. PICK calls \in Nat :
          /\ Serves(parse, calls) /\ Parses(parse, calls)
          /\ 3 * Left(p) + (Rank(goal) + 1) <= calls
  BY DEF Knows
<1>2. Left(p) \in Nat /\ Rank(goal) \in Nat
  BY LeftIsNat DEF Rank
<1>3. 3 * Left(p) + Rank(goal) < calls
  BY <1>1, <1>2
<1>4. p \in Parser
  BY DEF Fine
<1>5. goal \in {"expression", "infix"} => number # 0
  OBVIOUS
<1>6. Done(goal, p, parse[goal, p, number])
  BY <1>1, <1>3, <1>4, <1>5 DEF Serves
<1>7. ~parse[goal, p, number].errored => Says(goal, number, p, parse[goal, p, number])
  BY <1>1, <1>3, <1>4 DEF Parses
<1> QED BY <1>6, <1>7 DEF Done

-----------------------------------------------------------------------------
(* What expressions read. *)

LEMMA ExpressionAtKnown ==
    ASSUME NEW parse, NEW p, Fine(p), NEW precedence \in 1 .. 8, Knows(parse, p, 1)
    PROVE  /\ Follows(p, parse["expression", p, precedence])
           /\ ~parse["expression", p, precedence].errored =>
                 Ends(p.tokens, precedence, CurrentAt(p), parse["expression", p, precedence])
<1>1. "expression" \in Goals /\ Rank("expression") + 1 = 1 /\ precedence \in Nat
  BY DEF Goals, Rank
<1> DEFINE q == parse["expression", p, precedence]
<1>2. Follows(p, q) /\ (~q.errored => Says("expression", precedence, p, q))
  BY <1>1, Known
<1> HIDE DEF q
<1>3. ~q.errored => Ends(p.tokens, precedence, CurrentAt(p), q)
  BY <1>2 DEF Says
<1> QED BY <1>2, <1>3 DEF q

\* An expression that is no operand of an operator.
LEMMA ExpressionKnown ==
    ASSUME NEW parse, NEW p, Fine(p), Knows(parse, p, 1)
    PROVE  /\ Follows(p, Expression(parse, p))
           /\ ~Expression(parse, p).errored =>
                 /\ Spells(p.tokens, "expression", CurrentAt(p), CurrentAt(Expression(parse, p)) - 1)
                 /\ Precedence(Expression(parse, p).current.type) = 0
<1> DEFINE q == Expression(parse, p)
<1>1. PREC_ASSIGNMENT \in 1 .. 8 /\ PREC_ASSIGNMENT = 1
  BY DEF PREC_ASSIGNMENT
<1>2. Follows(p, q) /\ (~q.errored => Ends(p.tokens, 1, CurrentAt(p), q))
  BY <1>1, ExpressionAtKnown DEF Expression
<1>3. Precedence(q.current.type) \in Nat
  BY PrecedenceOfOperators
<1>4. Level(1) = "expression"
  BY DEF Level
<1> HIDE DEF q
<1>5. ASSUME ~q.errored
      PROVE  Spells(p.tokens, "expression", CurrentAt(p), CurrentAt(q) - 1) /\ Precedence(q.current.type) = 0
  <2>1. Spells(p.tokens, Level(1), CurrentAt(p), CurrentAt(q) - 1) /\ Precedence(q.current.type) < 1
    BY <1>2, <1>5 DEF Ends
  <2> QED BY <1>3, <1>4, <2>1
<1> QED BY <1>2, <1>5 DEF q

\* After the token that ends it.
LEMMA ClosedBy ==
    ASSUME NEW parse, NEW p, Fine(p), Knows(parse, p, 1), NEW type, type # "EOF",
           NEW q, q = Consume(Expression(parse, p), type), ~q.errored
    PROVE  /\ Fine(q) /\ q.tokens = p.tokens /\ ~p.errored
           /\ Spells(p.tokens, "expression", CurrentAt(p), CurrentAt(q) - 2)
           /\ p.tokens[CurrentAt(q) - 1].type = type /\ CurrentAt(q) >= CurrentAt(p) + 2
           /\ Follows(p, q)
<1> DEFINE r == Expression(parse, p)
<1>1. Follows(p, r) /\ Fine(r) /\ r.tokens = p.tokens /\ (~r.errored => ~p.errored)
  BY ExpressionKnown, FollowsPlace
<1>2. /\ ~r.errored =>
           Spells(p.tokens, "expression", CurrentAt(p), CurrentAt(r) - 1)
      /\ q = Consume(r, type)
  BY ExpressionKnown
<1> HIDE DEF r
<1>3. Passes(r, q) /\ r.current.type = type
  BY <1>1, <1>2, ConsumeTakes
<1>4. /\ ~r.errored /\ q.tokens = r.tokens /\ Fine(q) /\ CurrentAt(q) = CurrentAt(r) + 1
      /\ r.current = r.tokens[CurrentAt(r)]
  BY <1>3 DEF Passes
<1>5. CurrentAt(p) \in Nat /\ CurrentAt(r) \in Nat
  BY <1>1, PlaceOf
<1>6. CurrentAt(q) - 2 = CurrentAt(r) - 1 /\ CurrentAt(q) - 1 = CurrentAt(r)
  BY <1>4, <1>5
<1>7. Spells(p.tokens, "expression", CurrentAt(p), CurrentAt(r) - 1)
  BY <1>2, <1>4
<1>8. CurrentAt(p) <= CurrentAt(r) - 1
  BY <1>7, SpellsSomething
<1>9. CurrentAt(q) >= CurrentAt(p) + 2
  BY <1>4, <1>5, <1>8
<1>10. p.tokens[CurrentAt(q) - 1].type = type
  BY <1>1, <1>3, <1>4, <1>6
<1>11. Follows(p, q)
  BY <1>1, <1>2, ConsumeFollows, FollowsOn
<1> QED BY <1>1, <1>4, <1>6, <1>7, <1>9, <1>10, <1>11

\* Between brackets.
LEMMA RuleGroupingKnown ==
    ASSUME NEW parse, NEW p, Fine(p), Knows(parse, p, 1), NEW i \in Nat \ {0}, CurrentAt(p) = i + 1,
           p.tokens[i].type = "LEFT_PAREN", NEW q, q = RuleGrouping(parse, p), ~q.errored
    PROVE  Spells(p.tokens, "postfix", i, CurrentAt(q) - 1)
<1>1. q = Consume(Expression(parse, p), "RIGHT_PAREN")
  BY DEF RuleGrouping
<1>2. /\ Spells(p.tokens, "expression", i + 1, CurrentAt(q) - 2)
      /\ p.tokens[CurrentAt(q) - 1].type = "RIGHT_PAREN"
      /\ Fine(q)
  BY <1>1, ClosedBy
<1>3. CurrentAt(q) \in Nat \ {0}
  BY <1>2, PlaceOf
<1>4. CurrentAt(q) - 1 \in Nat /\ (CurrentAt(q) - 1) - 1 = CurrentAt(q) - 2
  BY <1>3
<1> QED BY <1>2, <1>4, SpellsGroup

LEMMA EndItemsKnown ==
    ASSUME NEW p, Fine(p), NEW op \in DOMAIN Closing, NEW count \in Nat,
           NEW q, q = EndItems(p, op, count), ~q.errored
    PROVE  /\ CurrentAt(q) = CurrentAt(p) + 1 /\ p.tokens[CurrentAt(p)].type = Closing[op]
           /\ ~p.errored
<1> DEFINE r == Consume(p, Closing[op])
<1>1. << Code(op), count >> \in Seq(Nat) /\ Closing[op] # "EOF"
  BY ClosingOps, CodeOfOp DEF Closing
<1>2. Fine(r)
  BY ConsumeFollows DEF Follows
<1>3. Keeps(r, q)
  BY <1>1, <1>2, EmitKeeps DEF EndItems
<1>4. ~r.errored /\ CurrentAt(q) = CurrentAt(r)
  BY <1>3, KeepsPlace
<1>5. Passes(p, r) /\ p.current.type = Closing[op]
  BY <1>1, <1>4, ConsumeTakes
<1> QED BY <1>4, <1>5 DEF Passes

\* Items have been read, and what closes them.
ItemsRead(op, p, q) ==
    /\ CurrentAt(q) >= CurrentAt(p) + 2
    /\ Spells(p.tokens, "some", CurrentAt(p), CurrentAt(q) - 2)
    /\ p.tokens[CurrentAt(q) - 1].type = Closing[op]

LEMMA CallItemsKnown ==
    ASSUME NEW parse, NEW p, Fine(p), NEW op \in DOMAIN Closing, NEW count \in Nat,
           Knows(parse, p, 2)
    PROVE  /\ Follows(p, parse[op, p, count])
           /\ ~parse[op, p, count].errored => ItemsRead(op, p, parse[op, p, count])
<1> DEFINE q == parse[op, p, count]
<1>1. op \in Goals /\ Rank(op) + 1 = 2 /\ op \in {"ARRAY", "CALL"}
  BY ClosingOps
<1>2. op \notin {"expression", "infix"}
  BY <1>1
<1>3. Follows(p, q) /\ (~q.errored => Says(op, count, p, q))
  BY <1>1, <1>2, Known
<1> HIDE DEF q
<1>4. Follows(p, q) /\ (~q.errored => ItemsRead(op, p, q))
  BY <1>3 DEF Says, ItemsRead
<1> QED BY <1>4 DEF q

\* An item that has been read, and those after it.
LEMMA AfterItemKnown ==
    ASSUME NEW parse, NEW p, Fine(p), NEW op \in DOMAIN Closing, NEW count \in Nat,
           Knows(parse, p, 0), NEW i \in Nat \ {0}, Spells(p.tokens, "expression", i, CurrentAt(p) - 1),
           NEW q, q = AfterItem(parse, p, op, count), ~q.errored
    PROVE  /\ CurrentAt(q) >= CurrentAt(p) + 1
           /\ Spells(p.tokens, "some", i, CurrentAt(q) - 2)
           /\ p.tokens[CurrentAt(q) - 1].type = Closing[op]
<1>1. CurrentAt(p) \in Nat \ {0}
  BY PlaceOf
<1>2. CASE Check(p, "COMMA")
  <2> DEFINE r == Advance(p)
             s == parse[op, r, count]
  <2>1. p.current.type = "COMMA" /\ p.current.type # "EOF"
    BY <1>2 DEF Check
  <2>2. Knows(parse, r, 2) /\ Follows(p, r) /\ Fine(r)
    BY <2>1, KnowsAfterToken, AdvanceFollows
  <2>q. q = s
    BY <1>2 DEF AfterItem
  <2> HIDE DEF r
  <2>3. /\ Follows(r, q) /\ CurrentAt(q) >= CurrentAt(r) + 2
        /\ Spells(r.tokens, "some", CurrentAt(r), CurrentAt(q) - 2)
        /\ r.tokens[CurrentAt(q) - 1].type = Closing[op]
    <3>1. Follows(r, s) /\ (~s.errored => ItemsRead(op, r, s))
      BY <2>2, CallItemsKnown
    <3> HIDE DEF s
    <3> QED BY <2>q, <3>1 DEF ItemsRead
  <2> HIDE DEF s
  <2>4. ~r.errored /\ Fine(q)
    BY <2>2, <2>3, FollowsPlace
  <2>5. Passes(p, r)
    BY <2>1, <2>4, AdvanceTakes DEF r
  <2>6. r.tokens = p.tokens /\ CurrentAt(r) = CurrentAt(p) + 1 /\ p.tokens[CurrentAt(p)].type = "COMMA"
    BY <2>1, <2>5 DEF Passes
  <2>7. CurrentAt(q) \in Nat \ {0}
    BY <2>4, PlaceOf
  <2>8. CurrentAt(q) - 2 \in Nat /\ CurrentAt(p) < CurrentAt(q) - 2 /\ CurrentAt(q) >= CurrentAt(p) + 1
    BY <1>1, <2>3, <2>6, <2>7
  <2>9. Spells(p.tokens, "some", CurrentAt(p) + 1, CurrentAt(q) - 2)
    BY <2>3, <2>6
  <2>10. Spells(p.tokens, "some", i, CurrentAt(q) - 2)
    BY <1>1, <2>6, <2>8, <2>9, SpellsCons
  <2> QED BY <2>3, <2>6, <2>8, <2>10
<1>3. CASE ~Check(p, "COMMA")
  <2>1. q = EndItems(p, op, count)
    BY <1>3 DEF AfterItem
  <2>2. CurrentAt(q) = CurrentAt(p) + 1 /\ p.tokens[CurrentAt(p)].type = Closing[op]
    BY <2>1, EndItemsKnown
  <2>3. CurrentAt(q) - 1 = CurrentAt(p) /\ CurrentAt(q) - 2 = CurrentAt(p) - 1 /\ CurrentAt(q) >= CurrentAt(p) + 1
    BY <1>1, <2>2
  <2>4. Spells(p.tokens, "some", i, CurrentAt(p) - 1)
    BY ExpressionIsSome
  <2> QED BY <2>2, <2>3, <2>4
<1> QED BY <1>2, <1>3

LEMMA ParseItemsKnown ==
    ASSUME NEW parse, NEW p, Fine(p), NEW op \in DOMAIN Closing, NEW count \in Nat,
           Knows(parse, p, 1), NEW q, q = ParseItems(parse, p, op, count), ~q.errored
    PROVE  /\ CurrentAt(q) >= CurrentAt(p) + 2
           /\ Spells(p.tokens, "some", CurrentAt(p), CurrentAt(q) - 2)
           /\ p.tokens[CurrentAt(q) - 1].type = Closing[op]
<1> DEFINE e == Expression(parse, p)
           r == CountItem(e, count)
           next == (count + 1) % ByteSize
<1>1. Follows(p, e) /\ Fine(e) /\ CurrentAt(e) >= CurrentAt(p) /\ e.tokens = p.tokens
  BY ExpressionKnown, FollowsPlace
<1>2. Keeps(e, r)
  BY <1>1, SyntaxErrorKeeps, KeepsItself DEF CountItem
<1>3. Follows(p, r) /\ Fine(r)
  BY <1>1, <1>2, FollowsOn DEF Keeps, Follows
<1>4. Knows(parse, r, 0) /\ Room(parse, r, 0)
  BY <1>3, KnowsAfter, KnowsIsRoom
<1>5. next \in Nat
  BY ByteSizeIsNat
<1>6. q = AfterItem(parse, r, op, next)
  BY DEF ParseItems
<1>7. ~e.errored => Spells(p.tokens, "expression", CurrentAt(p), CurrentAt(e) - 1)
  BY ExpressionKnown
<1> HIDE DEF next, r, e
<1>8. Follows(r, q)
  BY <1>3, <1>4, <1>5, <1>6, AfterItemFollows
<1>9. /\ ~r.errored /\ ~e.errored /\ r.tokens = p.tokens /\ CurrentAt(r) = CurrentAt(e) /\ Fine(q)
  BY <1>1, <1>2, <1>3, <1>8, KeepsPlace, FollowsPlace
<1>10. CurrentAt(p) \in Nat \ {0} /\ CurrentAt(e) \in Nat /\ CurrentAt(q) \in Nat
  BY <1>1, <1>9, PlaceOf
<1>11. CurrentAt(p) <= CurrentAt(e) - 1 /\ Spells(r.tokens, "expression", CurrentAt(p), CurrentAt(r) - 1)
  BY <1>7, <1>9, SpellsSomething
<1>12. /\ CurrentAt(q) >= CurrentAt(r) + 1
       /\ Spells(r.tokens, "some", CurrentAt(p), CurrentAt(q) - 2)
       /\ r.tokens[CurrentAt(q) - 1].type = Closing[op]
  BY <1>3, <1>4, <1>5, <1>6, <1>10, <1>11, AfterItemKnown
<1>13. CurrentAt(q) >= CurrentAt(p) + 2
  BY <1>9, <1>10, <1>11, <1>12
<1> QED BY <1>9, <1>12, <1>13

LEMMA ItemListKnown ==
    ASSUME NEW parse, NEW p, Fine(p), NEW op \in DOMAIN Closing, Knows(parse, p, 2),
           NEW q, q = ItemList(parse, p, op), ~q.errored
    PROVE  /\ CurrentAt(q) >= CurrentAt(p) + 1
           /\ Spells(p.tokens, "items", CurrentAt(p), CurrentAt(q) - 2)
           /\ p.tokens[CurrentAt(q) - 1].type = Closing[op]
<1>1. CurrentAt(p) \in Nat \ {0}
  BY PlaceOf
<1>2. CASE Check(p, Closing[op])
  <2>1. q = EndItems(p, op, 0)
    BY <1>2 DEF ItemList
  <2>2. CurrentAt(q) = CurrentAt(p) + 1 /\ p.tokens[CurrentAt(p)].type = Closing[op]
    BY <2>1, EndItemsKnown
  <2>3. CurrentAt(q) - 1 = CurrentAt(p) /\ CurrentAt(q) - 2 = CurrentAt(p) - 1 /\ CurrentAt(q) >= CurrentAt(p) + 1
    BY <1>1, <2>2
  <2>4. Spells(p.tokens, "items", CurrentAt(p), CurrentAt(p) - 1)
    BY <1>1, NoItems
  <2> QED BY <2>2, <2>3, <2>4
<1>3. CASE ~Check(p, Closing[op])
  <2> DEFINE s == parse[op, p, 0]
  <2>1. q = s
    BY <1>3 DEF ItemList
  <2>2. /\ CurrentAt(q) >= CurrentAt(p) + 2
        /\ Spells(p.tokens, "some", CurrentAt(p), CurrentAt(q) - 2)
        /\ p.tokens[CurrentAt(q) - 1].type = Closing[op] /\ Follows(p, q)
    <3>1. Follows(p, s) /\ (~s.errored => ItemsRead(op, p, s))
      BY CallItemsKnown
    <3> HIDE DEF s
    <3> QED BY <2>1, <3>1 DEF ItemsRead
  <2> HIDE DEF s
  <2>3. CurrentAt(q) \in Nat
    BY <2>2, FollowsPlace, PlaceOf
  <2>4. CurrentAt(q) >= CurrentAt(p) + 1
    BY <1>1, <2>2, <2>3
  <2> QED BY <2>2, <2>4, SomeAreItems
<1> QED BY <1>2, <1>3

\* What follows "=".
LEMMA AssignedKnown ==
    ASSUME NEW parse, NEW p, Fine(p), Knows(parse, p, 0), p.current.type = "EQUAL"
    PROVE  LET r == Expression(parse, Advance(p))
           IN  /\ Follows(p, r) /\ Fine(r)
               /\ ~r.errored => /\ p.tokens[CurrentAt(p)].type = "EQUAL"
                                /\ Spells(p.tokens, "expression", CurrentAt(p) + 1, CurrentAt(r) - 1)
                                /\ Precedence(r.current.type) = 0
<1> DEFINE q == Advance(p)
           r == Expression(parse, q)
<1>1. p.current.type # "EOF"
  OBVIOUS
<1>2. Knows(parse, q, 1)
  BY <1>1, KnowsAfterToken
<1>3. Follows(p, q) /\ Fine(q)
  BY AdvanceFollows
<1>4. ~q.errored => Passes(p, q)
  BY <1>1, AdvanceTakes
<1> HIDE DEF q
<1>5. /\ Follows(q, r)
      /\ ~r.errored => /\ Spells(q.tokens, "expression", CurrentAt(q), CurrentAt(r) - 1)
                       /\ Precedence(r.current.type) = 0
  BY <1>2, <1>3, ExpressionKnown
<1> HIDE DEF r
<1>6. Follows(p, r) /\ Fine(r)
  BY <1>3, <1>5, FollowsOn, FollowsPlace
<1>7. ASSUME ~r.errored
      PROVE  /\ p.tokens[CurrentAt(p)].type = "EQUAL"
             /\ Spells(p.tokens, "expression", CurrentAt(p) + 1, CurrentAt(r) - 1)
             /\ Precedence(r.current.type) = 0
  <2>1. ~q.errored
    BY <1>3, <1>5, <1>7, FollowsPlace
  <2>2. q.tokens = p.tokens /\ CurrentAt(q) = CurrentAt(p) + 1 /\ p.tokens[CurrentAt(p)].type = "EQUAL"
    BY <1>4, <2>1 DEF Passes
  <2> QED BY <1>5, <1>7, <2>2
<1> QED BY <1>6, <1>7 DEF r, q

\* What is read of something that may be assigned to, from i on.
Assigned(ts, i, assignable, q) ==
    \/ Spells(ts, "postfix", i, CurrentAt(q) - 1)
    \/ /\ assignable /\ Spells(ts, "expression", i, CurrentAt(q) - 1)
       /\ Precedence(q.current.type) = 0

LEMMA AssignedKept ==
    ASSUME NEW ts, NEW i, NEW assignable, NEW p, NEW q, Keeps(p, q), Assigned(ts, i, assignable, p)
    PROVE  Assigned(ts, i, assignable, q)
BY KeepsPlace DEF Assigned

LEMMA NameKnown ==
    ASSUME NEW p, Fine(p), NEW i \in Nat \ {0}, CurrentAt(p) = i + 1, NEW assignable,
           p.tokens[i].type = "IDENTIFIER"
    PROVE  Assigned(p.tokens, i, assignable, p)
<1>1. CurrentAt(p) - 1 = i
  OBVIOUS
<1>2. p.tokens[i].type \in Atoms
  BY DEF Atoms
<1>3. Spells(p.tokens, "postfix", i, i)
  BY <1>2, SpellsAtom
<1> QED BY <1>1, <1>3 DEF Assigned

LEMMA NameAssigned ==
    ASSUME NEW parse, NEW p, Fine(p), Knows(parse, p, 0), NEW i \in Nat \ {0}, CurrentAt(p) = i + 1,
           p.tokens[i].type = "IDENTIFIER", p.current.type = "EQUAL", NEW assignable, assignable,
           NEW r, r = Expression(parse, Advance(p)), ~r.errored
    PROVE  Assigned(p.tokens, i, assignable, r)
<1>1. /\ p.tokens[i + 1].type = "EQUAL"
      /\ Spells(p.tokens, "expression", (i + 1) + 1, CurrentAt(r) - 1)
      /\ Precedence(r.current.type) = 0 /\ Fine(r)
  BY AssignedKnown
<1>2. CurrentAt(r) - 1 \in Nat /\ (i + 1) + 1 = i + 2
  BY <1>1, PlaceOf
<1>3. Spells(p.tokens, "expression", i, CurrentAt(r) - 1)
  BY <1>1, <1>2, SpellsAssignName
<1> QED BY <1>1, <1>3 DEF Assigned

LEMMA LocalVariableKnown ==
    ASSUME NEW parse, NEW p, Fine(p), Knows(parse, p, 0), NEW slot \in Nat, NEW assignable,
           NEW i \in Nat \ {0}, CurrentAt(p) = i + 1, p.tokens[i].type = "IDENTIFIER",
           NEW q, q = LocalVariable(parse, p, slot, assignable), ~q.errored
    PROVE  Assigned(p.tokens, i, assignable, q)
<1> DEFINE r == Expression(parse, Advance(p))
<1>1. << Code("SET_LOCAL"), slot >> \in Seq(Nat) /\ << Code("GET_LOCAL"), slot >> \in Seq(Nat)
  BY OpsListed, CodeOfOp
<1>2. CASE assignable /\ Check(p, "EQUAL")
  <2>1. p.current.type = "EQUAL"
    BY <1>2 DEF Check
  <2>2. SyntaxError(Advance(p)).errored
    BY AdvanceFollows, SyntaxErrorFollows
  <2>3. ~p.c.locals[slot + 1].read_only
    BY <1>2, <2>2 DEF LocalVariable
  <2>4. q = Emit(r, << Code("SET_LOCAL"), slot >>)
    BY <1>2, <2>3 DEF LocalVariable
  <2>5. Fine(r)
    BY <2>1, AssignedKnown
  <2>6. Keeps(r, q)
    BY <1>1, <2>4, <2>5, EmitKeeps
  <2>7. ~r.errored
    BY <2>6, KeepsPlace
  <2>8. Assigned(p.tokens, i, assignable, r)
    BY <1>2, <2>1, <2>7, NameAssigned
  <2> HIDE DEF r
  <2> QED BY <2>6, <2>8, AssignedKept
<1>3. CASE ~(assignable /\ Check(p, "EQUAL"))
  <2>1. Keeps(p, q)
    BY <1>1, <1>3, EmitKeeps DEF LocalVariable
  <2> QED BY <2>1, NameKnown, AssignedKept
<1> QED BY <1>2, <1>3

LEMMA GlobalVariableKnown ==
    ASSUME NEW parse, NEW p, Fine(p), Knows(parse, p, 0), NEW name \in Int, NEW assignable,
           NEW i \in Nat \ {0}, CurrentAt(p) = i + 1, p.tokens[i].type = "IDENTIFIER",
           NEW q, q = GlobalVariable(parse, p, name, assignable), ~q.errored
    PROVE  Assigned(p.tokens, i, assignable, q)
<1> DEFINE index == ConstantIndex(p, String(name))
           registered == RegisterConstant(p, String(name))
           s == IF index > UINT16_MAX THEN SyntaxError(registered) ELSE registered
           r == Expression(parse, Advance(s))
<1>1. {"SET_GLOBAL", "SET_GLOBAL_16", "GET_GLOBAL", "GET_GLOBAL_16"} \subseteq Ops
  BY OpsListed DEF GlobalOps, SetGlobalOps, GetGlobalOps
<1>2. index \in Nat
  BY ConstantIndexIsNat
<1>3. Keeps(p, registered) /\ Fine(registered)
  BY StringIsValue, RegisterConstantKeeps, KeepsPays
<1>4. Keeps(p, s)
  BY <1>3, SyntaxErrorKeeps, KeepsOn
<1>5. q = IF assignable /\ Check(s, "EQUAL") THEN EmitIndexed(r, "SET_GLOBAL", "SET_GLOBAL_16", index)
          ELSE EmitIndexed(s, "GET_GLOBAL", "GET_GLOBAL_16", index)
  BY DEF GlobalVariable
<1> HIDE DEF index, registered, s
<1>6. /\ Fine(s) /\ Follows(p, s) /\ s.tokens = p.tokens /\ CurrentAt(s) = i + 1
      /\ p.tokens[i].type = "IDENTIFIER"
  BY <1>4, KeepsPlace, KeepsPays
<1>7. CASE assignable /\ Check(s, "EQUAL")
  <2>1. s.current.type = "EQUAL"
    BY <1>7 DEF Check
  <2>2. Knows(parse, s, 0)
    BY <1>6, KnowsAfter
  <2>3. Fine(r)
    BY <1>6, <2>1, <2>2, AssignedKnown
  <2>4. Keeps(r, q)
    BY <1>1, <1>2, <1>5, <1>7, <2>3, EmitIndexedKeeps
  <2>5. ~r.errored
    BY <2>4, KeepsPlace
  <2>6. Assigned(s.tokens, i, assignable, r)
    BY <1>6, <1>7, <2>1, <2>2, <2>5, NameAssigned
  <2> HIDE DEF r
  <2> QED BY <1>6, <2>4, <2>6, AssignedKept
<1>8. CASE ~(assignable /\ Check(s, "EQUAL"))
  <2>1. Keeps(s, q)
    BY <1>1, <1>2, <1>5, <1>6, <1>8, EmitIndexedKeeps
  <2> QED BY <1>6, <2>1, NameKnown, AssignedKept
<1> QED BY <1>7, <1>8

LEMMA RuleVariableKnown ==
    ASSUME NEW parse, NEW p, Fine(p), Knows(parse, p, 0), NEW assignable,
           NEW i \in Nat \ {0}, CurrentAt(p) = i + 1, p.tokens[i].type = "IDENTIFIER",
           NEW q, q = RuleVariable(parse, p, assignable), ~q.errored
    PROVE  Assigned(p.tokens, i, assignable, q)
<1> DEFINE name == p.previous.text
           slot == GetLocalVariable(p.c, name)
           s == IF p.c.locals[slot + 1].depth = -1 THEN SyntaxError(p) ELSE p
<1>1. name \in Int
  BY TokenFields DEF Fine, Parser
<1>2. slot = -1 \/ slot \in Nat
  BY GetLocalVariableType DEF Fine, Parser
<1>3. Keeps(p, s)
  BY SyntaxErrorKeeps, KeepsItself
<1>4. q = IF slot = -1 THEN GlobalVariable(parse, p, name, assignable)
          ELSE LocalVariable(parse, s, slot, assignable)
  BY DEF RuleVariable
<1> HIDE DEF name, slot, s
<1>5. Fine(s) /\ Follows(p, s) /\ s.tokens = p.tokens /\ CurrentAt(s) = i + 1
  BY <1>3, KeepsPlace, KeepsPays
<1>6. Knows(parse, s, 0)
  BY <1>5, KnowsAfter
<1>7. CASE slot = -1
  BY <1>1, <1>4, <1>7, GlobalVariableKnown
<1>8. CASE slot # -1
  <2>1. q = LocalVariable(parse, s, slot, assignable) /\ slot \in Nat
    BY <1>2, <1>4, <1>8
  <2> QED BY <1>5, <1>6, <2>1, LocalVariableKnown
<1> QED BY <1>7, <1>8

LEMMA RuleSubscriptKnown ==
    ASSUME NEW parse, NEW p, Fine(p), Knows(parse, p, 1), NEW assignable,
           NEW i \in Nat \ {0}, NEW k \in Nat, CurrentAt(p) = k + 1,
           Spells(p.tokens, "postfix", i, k - 1), p.tokens[k].type = "LEFT_BRACKET",
           NEW q, q = RuleSubscript(parse, p, assignable), ~q.errored
    PROVE  Assigned(p.tokens, i, assignable, q)
<1> DEFINE s == Consume(Expression(parse, p), "RIGHT_BRACKET")
           r == Expression(parse, Advance(s))
<1>1. q = IF assignable /\ Check(s, "EQUAL") THEN EmitOp(r, "SUBSCRIPT_SET") ELSE EmitOp(s, "SUBSCRIPT_GET")
  BY DEF RuleSubscript
<1>2. "SUBSCRIPT_SET" \in Ops /\ "SUBSCRIPT_GET" \in Ops
  BY OpsListed
<1>3. Follows(p, s) /\ Fine(s)
  BY ExpressionKnown, ConsumeFollows, FollowsOn, FollowsPlace
<1>4. ~s.errored =>
          /\ s.tokens = p.tokens
          /\ Spells(p.tokens, "expression", k + 1, CurrentAt(s) - 2)
          /\ p.tokens[CurrentAt(s) - 1].type = "RIGHT_BRACKET"
          /\ CurrentAt(s) >= CurrentAt(p) + 2
  BY ClosedBy
<1>5. CurrentAt(s) \in Nat \ {0}
  BY <1>3, PlaceOf
<1> HIDE DEF s
<1>6. CASE assignable /\ Check(s, "EQUAL")
  <2>1. s.current.type = "EQUAL"
    BY <1>6 DEF Check
  <2>2. Knows(parse, s, 0)
    BY <1>3, KnowsAfter
  <2>3. /\ Follows(s, r) /\ Fine(r)
        /\ ~r.errored => /\ s.tokens[CurrentAt(s)].type = "EQUAL"
                         /\ Spells(s.tokens, "expression", CurrentAt(s) + 1, CurrentAt(r) - 1)
                         /\ Precedence(r.current.type) = 0
    BY <1>3, <2>1, <2>2, AssignedKnown
  <2> HIDE DEF r
  <2>4. Keeps(r, q)
    BY <1>1, <1>2, <1>6, <2>3, EmitOpKeeps
  <2>5. ~r.errored /\ CurrentAt(q) = CurrentAt(r) /\ q.current = r.current
    BY <2>4, KeepsPlace
  <2>6. ~s.errored
    BY <1>3, <2>3, <2>5, FollowsPlace
  <2>7. CurrentAt(r) \in Nat \ {0} /\ CurrentAt(r) - 1 \in Nat
    BY <2>3, PlaceOf
  <2>8. /\ Spells(p.tokens, "expression", CurrentAt(s) + 1, CurrentAt(r) - 1)
        /\ p.tokens[CurrentAt(s)].type = "EQUAL"
    BY <1>4, <2>3, <2>5, <2>6
  <2>9. Spells(p.tokens, "expression", i, CurrentAt(r) - 1)
    BY <1>4, <1>5, <2>6, <2>7, <2>8, SpellsAssignItem
  <2> QED BY <1>6, <2>3, <2>5, <2>9 DEF Assigned
<1>7. CASE ~(assignable /\ Check(s, "EQUAL"))
  <2>1. Keeps(s, q)
    BY <1>1, <1>2, <1>3, <1>7, EmitOpKeeps
  <2>2. ~s.errored /\ CurrentAt(q) = CurrentAt(s)
    BY <2>1, KeepsPlace
  <2>3. CurrentAt(s) - 1 \in Nat /\ (CurrentAt(s) - 1) - 1 = CurrentAt(s) - 2
    BY <1>5
  <2>4. Spells(p.tokens, "postfix", i, CurrentAt(s) - 1)
    BY <1>4, <2>2, <2>3, SpellsSubscript
  <2> QED BY <2>2, <2>4 DEF Assigned
<1> QED BY <1>6, <1>7

LEMMA PrecedenceOfInfix ==
    /\ \A type \in Infix : Precedence(type) \in 2 .. 7
    /\ Precedence("LEFT_PAREN") = 9 /\ Precedence("LEFT_BRACKET") = 9
    /\ Precedence("EOF") = 0
<1>1. DOMAIN BinaryCode = {"PLUS", "MINUS", "STAR", "SLASH", "PERCENT", "BANG_EQUAL", "EQUAL_EQUAL",
                           "GREATER", "GREATER_EQUAL", "LESS", "LESS_EQUAL"}
  BY DEF BinaryCode
<1>2. \A type \in DOMAIN BinaryCode : Precedence(type) \in 4 .. 7
  BY <1>1 DEF Precedence
<1>3. Precedence("AMPER_AMPER") = 3 /\ Precedence("PIPE_PIPE") = 2
  BY DEF Precedence, PREC_AND, PREC_OR
<1>4. Precedence("LEFT_PAREN") = 9 /\ Precedence("LEFT_BRACKET") = 9 /\ Precedence("EOF") = 0
  BY DEF Precedence
<1>5. ASSUME NEW type \in Infix PROVE Precedence(type) \in 2 .. 7
  <2>1. CASE type \in DOMAIN BinaryCode
    BY <1>2, <2>1
  <2>2. CASE type \in {"AMPER_AMPER", "PIPE_PIPE"}
    BY <1>3, <2>2
  <2> QED BY <2>1, <2>2 DEF Infix
<1> QED BY <1>4, <1>5

\* An operator after its left operand, and the right one.
LEMMA InfixEnds ==
    ASSUME NEW ts, NEW i \in Nat \ {0}, NEW k \in Nat, Spells(ts, "operation", i, k - 1),
           ts[k].type \in Infix, NEW precedence \in 2 .. 8, NEW q, Fine(q),
           Ends(ts, precedence, k + 1, q)
    PROVE  Spells(ts, "operation", i, CurrentAt(q) - 1) /\ Precedence(q.current.type) < 8
<1>1. Spells(ts, Level(precedence), k + 1, CurrentAt(q) - 1) /\ Precedence(q.current.type) < precedence
  BY DEF Ends
<1>2. Level(precedence) = "operation" \/ Level(precedence) = "operand"
  BY DEF Level
<1>3. Spells(ts, "operation", k + 1, CurrentAt(q) - 1)
  BY <1>1, <1>2, OperandIsOperation
<1>4. CurrentAt(q) - 1 \in Nat
  BY PlaceOf
<1>5. Spells(ts, "operation", i, CurrentAt(q) - 1)
  BY <1>3, <1>4, SpellsInfix
<1>6. Precedence(q.current.type) \in Nat
  BY PrecedenceOfOperators
<1> QED BY <1>1, <1>5, <1>6

LEMMA RuleShortCircuitKnown ==
    ASSUME NEW parse, NEW p, Fine(p), NEW op \in Ops, NEW precedence \in 2 .. 8, Knows(parse, p, 1),
           NEW i \in Nat \ {0}, NEW k \in Nat, CurrentAt(p) = k + 1,
           Spells(p.tokens, "operation", i, k - 1), p.tokens[k].type \in Infix,
           NEW q, q = RuleShortCircuit(parse, p, op, precedence), ~q.errored
    PROVE  Spells(p.tokens, "operation", i, CurrentAt(q) - 1) /\ Precedence(q.current.type) < 8
<1> DEFINE jump == EmitJump(p, op)
           r == EmitOp(jump, "POP")
           s == parse["expression", r, precedence]
<1>1. Keeps(p, jump) /\ JumpOffset(jump) \in Int /\ Fine(jump)
  BY EmitJumpFollows, EmitJumpKeeps, KeepsPays
<1>2. Keeps(p, r)
  BY <1>1, OpsListed, EmitOpKeeps, KeepsOn
<1>3. q = PatchJump(s, JumpOffset(jump))
  BY DEF RuleShortCircuit
<1> HIDE DEF jump
<1>4. Fine(r) /\ Follows(p, r) /\ r.tokens = p.tokens /\ CurrentAt(r) = k + 1
  BY <1>2, KeepsPlace, KeepsPays
<1> HIDE DEF r
<1>5. precedence \in 1 .. 8 /\ Knows(parse, r, 1)
  BY <1>4, KnowsAfter
<1>6. Follows(r, s) /\ (~s.errored => Ends(r.tokens, precedence, CurrentAt(r), s))
  BY <1>4, <1>5, ExpressionAtKnown
<1> HIDE DEF s
<1>7. Fine(s)
  BY <1>4, <1>6, FollowsPlace
<1>8. Keeps(s, q)
  BY <1>1, <1>3, <1>7, PatchJumpKeeps
<1>9. ~s.errored /\ CurrentAt(q) = CurrentAt(s) /\ q.current = s.current
  BY <1>8, KeepsPlace
<1> QED BY <1>4, <1>6, <1>7, <1>9, InfixEnds

LEMMA OperandThenOpKnown ==
    ASSUME NEW parse, NEW p, Fine(p), NEW precedence \in 1 .. 8, NEW op \in Ops, Knows(parse, p, 1),
           NEW q, q = EmitOp(parse["expression", p, precedence], op), ~q.errored
    PROVE  Ends(p.tokens, precedence, CurrentAt(p), q) /\ Fine(q)
<1> DEFINE s == parse["expression", p, precedence]
<1>1. Follows(p, s) /\ (~s.errored => Ends(p.tokens, precedence, CurrentAt(p), s))
  BY ExpressionAtKnown
<1>2. q = EmitOp(s, op)
  OBVIOUS
<1> HIDE DEF s
<1>3. Fine(s)
  BY <1>1, FollowsPlace
<1>4. Keeps(s, q)
  BY <1>2, <1>3, EmitOpKeeps
<1>5. ~s.errored /\ CurrentAt(q) = CurrentAt(s) /\ q.current = s.current /\ Fine(q)
  BY <1>4, KeepsPlace
<1> QED BY <1>1, <1>5 DEF Ends

LEMMA RuleNumberKeeps ==
    ASSUME NEW p, Fine(p), NEW n \in Int
    PROVE  Keeps(p, RuleNumber(p, n))
<1>1. "ZERO" \in Ops /\ "ONE" \in Ops
  BY OpsListed DEF Literals
<1> QED BY <1>1, EmitOpKeeps, EmitConstantKeeps, NumberIsValue DEF RuleNumber

\* An expression that has begun with one token.
LEMMA AtomBegins ==
    ASSUME NEW p, Fine(p), NEW q, Keeps(p, q), NEW precedence, NEW i \in Nat \ {0}, CurrentAt(p) = i + 1,
           p.tokens[i].type \in Atoms
    PROVE  Begins(p.tokens, precedence, i, q)
<1>1. CurrentAt(q) - 1 = i
  BY KeepsPlace
<1>2. Spells(p.tokens, "postfix", i, i)
  BY SpellsAtom
<1> QED BY <1>1, <1>2 DEF Begins

LEMMA AssignedBegins ==
    ASSUME NEW ts, NEW i, NEW precedence \in 1 .. 8, NEW q, Assigned(ts, i, Assignable(precedence), q)
    PROVE  Begins(ts, precedence, i, q)
<1>1. Assignable(precedence) => precedence = 1
  BY DEF Assignable, PREC_ASSIGNMENT
<1> QED BY <1>1 DEF Assigned, Begins

LEMMA PrecedenceOfUnary ==
    PREC_UNARY \in 1 .. 8 /\ PREC_UNARY = 8 /\ Level(PREC_UNARY) = "operand"
<1>1. PREC_UNARY \in 1 .. 8 /\ PREC_UNARY = 8
  BY DEF PREC_UNARY
<1> QED BY <1>1 DEF Level

LEMMA UnaryBegins ==
    ASSUME NEW ts, NEW precedence \in 1 .. 8, NEW i \in Nat \ {0}, ts[i].type \in DOMAIN UnaryCode,
           NEW q, Fine(q), Ends(ts, PREC_UNARY, i + 1, q)
    PROVE  Begins(ts, precedence, i, q)
<1>1. Spells(ts, "operand", i + 1, CurrentAt(q) - 1) /\ Precedence(q.current.type) < 8
  BY PrecedenceOfUnary DEF Ends
<1>2. CurrentAt(q) - 1 \in Nat
  BY PlaceOf
<1>3. Spells(ts, "operand", i, CurrentAt(q) - 1)
  BY <1>1, <1>2, SpellsUnary
<1>4. Spells(ts, "operation", i, CurrentAt(q) - 1)
  BY <1>3, OperandIsOperation
<1> QED BY <1>1, <1>3, <1>4 DEF Begins

LEMMA PrefixRuleKnown ==
    ASSUME NEW parse, NEW p, Fine(p), NEW precedence \in 1 .. 8, p.previous.type \in PrefixTokens,
           Knows(parse, p, 2), NEW i \in Nat \ {0}, CurrentAt(p) = i + 1, p.tokens[i] = p.previous,
           NEW q, q = PrefixRule(parse, p, Assignable(precedence)), ~q.errored
    PROVE  Begins(p.tokens, precedence, i, q)
<1> DEFINE type == p.previous.type
<1>1. Knows(parse, p, 1) /\ Knows(parse, p, 0)
  BY KnowsAfter, FollowsItself
<1>2. p.previous.text \in Int
  BY TokenFields DEF Fine, Parser
<1>3. CASE type = "LEFT_PAREN"
  <2>1. q = RuleGrouping(parse, p)
    BY <1>3, OperatorTables DEF PrefixRule
  <2>2. p.tokens[i].type = "LEFT_PAREN"
    BY <1>3
  <2>3. Spells(p.tokens, "postfix", i, CurrentAt(q) - 1)
    BY <1>1, <2>1, <2>2, RuleGroupingKnown
  <2> QED BY <2>3 DEF Begins
<1>4. CASE type = "LEFT_BRACKET"
  <2>1. q = ItemList(parse, p, "ARRAY") /\ "ARRAY" \in DOMAIN Closing
    BY <1>4, ClosingOps, OperatorTables DEF PrefixRule
  <2>2. Closing["ARRAY"] = "RIGHT_BRACKET"
    BY DEF Closing
  <2>3. /\ CurrentAt(q) >= CurrentAt(p) + 1
        /\ Spells(p.tokens, "items", CurrentAt(p), CurrentAt(q) - 2)
        /\ p.tokens[CurrentAt(q) - 1].type = Closing["ARRAY"]
    BY <2>1, ItemListKnown
  <2>4. Fine(q)
    BY <2>1, ItemListFollows, KnowsIsRoom DEF Follows
  <2>5. CurrentAt(q) - 1 \in Nat /\ (CurrentAt(q) - 1) - 1 = CurrentAt(q) - 2
    BY <2>4, PlaceOf
  <2>6. p.tokens[i].type = "LEFT_BRACKET"
    BY <1>4
  <2>7. Spells(p.tokens, "postfix", i, CurrentAt(q) - 1)
    BY <2>2, <2>3, <2>5, <2>6, SpellsArray
  <2> QED BY <2>7 DEF Begins
<1>5. CASE type \in DOMAIN UnaryCode
  <2>1. UnaryCode[type] \in Ops
    BY <1>5, OpsListed, OperatorTables
  <2>2. q = EmitOp(parse["expression", p, PREC_UNARY], UnaryCode[type])
    BY <1>5, OperatorTables DEF PrefixRule
  <2>3. Ends(p.tokens, PREC_UNARY, CurrentAt(p), q) /\ Fine(q)
    BY <1>1, <2>1, <2>2, OperandThenOpKnown, PrecedenceOfUnary
  <2>4. Ends(p.tokens, PREC_UNARY, i + 1, q)
    BY <2>3
  <2>5. p.tokens[i].type \in DOMAIN UnaryCode
    BY <1>5
  <2> QED BY <2>3, <2>4, <2>5, UnaryBegins
<1>6. CASE type = "IDENTIFIER"
  <2>1. q = RuleVariable(parse, p, Assignable(precedence))
    BY <1>6, OperatorTables DEF PrefixRule
  <2>2. p.tokens[i].type = "IDENTIFIER"
    BY <1>6
  <2>3. Assigned(p.tokens, i, Assignable(precedence), q)
    BY <1>1, <2>1, <2>2, RuleVariableKnown
  <2> QED BY <2>3, AssignedBegins
<1>7. CASE type = "STRING"
  <2>1. Keeps(p, q)
    BY <1>2, <1>7, EmitConstantKeeps, StringIsValue, OperatorTables DEF PrefixRule
  <2>2. p.tokens[i].type \in Atoms
    BY <1>7 DEF Atoms
  <2> QED BY <2>1, <2>2, AtomBegins
<1>8. CASE type = "NUMBER"
  <2>1. q = RuleNumber(p, p.previous.text)
    BY <1>8, OperatorTables DEF PrefixRule
  <2>2. Keeps(p, q)
    BY <1>2, <2>1, RuleNumberKeeps
  <2>3. p.tokens[i].type \in Atoms
    BY <1>8 DEF Atoms
  <2> QED BY <2>2, <2>3, AtomBegins
<1>9. CASE type \in {"FALSE", "NULL", "TRUE"}
  <2>1. type \in Ops
    BY <1>9, OpsListed DEF Literals
  <2>2. Keeps(p, q)
    BY <1>9, <2>1, EmitOpKeeps, OperatorTables DEF PrefixRule
  <2>3. p.tokens[i].type \in Atoms
    BY <1>9 DEF Atoms
  <2> QED BY <2>2, <2>3, AtomBegins
<1> QED BY <1>3, <1>4, <1>5, <1>6, <1>7, <1>8, <1>9, OperatorTables DEF PrefixTokens

\* A level of the grammar has what binds closer.
LEMMA PostfixIsLevel ==
    ASSUME NEW ts, NEW precedence \in 1 .. 8, NEW i \in Nat \ {0}, NEW j \in Nat,
           Spells(ts, "postfix", i, j)
    PROVE  Spells(ts, Level(precedence), i, j)
<1>1. Spells(ts, "operand", i, j)
  BY PostfixIsOperand
<1>2. Spells(ts, "operation", i, j)
  BY <1>1, OperandIsOperation
<1>3. Spells(ts, "expression", i, j)
  BY <1>2, OperationIsExpression
<1> QED BY <1>1, <1>2, <1>3 DEF Level

LEMMA OperationIsLevel ==
    ASSUME NEW ts, NEW precedence \in 1 .. 8, NEW i \in Nat \ {0}, NEW j \in Nat,
           Spells(ts, IF precedence <= 7 THEN "operation" ELSE "operand", i, j)
    PROVE  Spells(ts, Level(precedence), i, j)
<1>1. CASE precedence <= 7
  <2>1. Spells(ts, "operation", i, j)
    BY <1>1
  <2>2. Spells(ts, "expression", i, j)
    BY <2>1, OperationIsExpression
  <2>3. Level(precedence) \in {"expression", "operation"}
    BY <1>1 DEF Level
  <2> QED BY <2>1, <2>2, <2>3
<1>2. CASE ~(precedence <= 7)
  BY <1>2 DEF Level
<1> QED BY <1>1, <1>2

\* What is not followed by a closer operator is complete.
LEMMA BeginsEnds ==
    ASSUME NEW ts, NEW precedence \in 1 .. 8, NEW i \in Nat \ {0}, NEW p, Fine(p),
           Begins(ts, precedence, i, p), ~(precedence <= Precedence(p.current.type))
    PROVE  Ends(ts, precedence, i, p)
<1>1. Precedence(p.current.type) < precedence
  BY PrecedenceOfOperators
<1>2. CurrentAt(p) - 1 \in Nat
  BY PlaceOf
<1>3. CASE Spells(ts, "postfix", i, CurrentAt(p) - 1)
  BY <1>1, <1>2, <1>3, PostfixIsLevel DEF Ends
<1>4. CASE Spells(ts, IF precedence <= 7 THEN "operation" ELSE "operand", i, CurrentAt(p) - 1)
  BY <1>1, <1>2, <1>4, OperationIsLevel DEF Ends
<1>5. CASE precedence = 1 /\ Spells(ts, "expression", i, CurrentAt(p) - 1)
  <2>1. Level(precedence) = "expression"
    BY <1>5 DEF Level
  <2> QED BY <1>1, <1>5, <2>1 DEF Ends
<1> QED BY <1>3, <1>4, <1>5 DEF Begins

\* What stands before an operator that is read.
Precedes(ts, precedence, i, k) ==
    \/ Spells(ts, "postfix", i, k - 1)
    \/ /\ Spells(ts, IF precedence <= 7 THEN "operation" ELSE "operand", i, k - 1)
       /\ Precedence(ts[k].type) < 8

LEMMA BeginsPrecedes ==
    ASSUME NEW precedence \in 1 .. 8, NEW i \in Nat \ {0}, NEW p, Fine(p),
           Begins(p.tokens, precedence, i, p), precedence <= Precedence(p.current.type),
           p.current = p.tokens[CurrentAt(p)]
    PROVE  Precedes(p.tokens, precedence, i, CurrentAt(p))
<1>1. Precedence(p.current.type) # 0
  OBVIOUS
<1> QED BY <1>1 DEF Begins, Precedes

LEMMA PrecedesInfix ==
    ASSUME NEW ts, NEW precedence \in 1 .. 8, NEW i \in Nat \ {0}, NEW k \in Nat \ {0},
           Precedes(ts, precedence, i, k), precedence <= Precedence(ts[k].type),
           ts[k].type \in Infix
    PROVE  precedence <= 7 /\ Spells(ts, "operation", i, k - 1)
<1>1. Precedence(ts[k].type) \in 2 .. 7 /\ k - 1 \in Nat
  BY PrecedenceOfInfix
<1>2. precedence <= 7
  BY <1>1
<1>3. CASE Spells(ts, "postfix", i, k - 1)
  BY <1>1, <1>2, <1>3, PostfixIsOperand, OperandIsOperation
<1>4. CASE Spells(ts, IF precedence <= 7 THEN "operation" ELSE "operand", i, k - 1)
  BY <1>2, <1>4
<1> QED BY <1>2, <1>3, <1>4 DEF Precedes

LEMMA PrecedesPostfix ==
    ASSUME NEW ts, NEW precedence, NEW i, NEW k,
           Precedes(ts, precedence, i, k), ts[k].type \in {"LEFT_PAREN", "LEFT_BRACKET"}
    PROVE  Spells(ts, "postfix", i, k - 1)
<1>1. Precedence(ts[k].type) = 9
  BY PrecedenceOfInfix
<1> QED BY <1>1 DEF Precedes

LEMMA CallBegins ==
    ASSUME NEW parse, NEW p, Fine(p), NEW precedence, Knows(parse, p, 2),
           NEW i \in Nat \ {0}, NEW k \in Nat, CurrentAt(p) = k + 1,
           Spells(p.tokens, "postfix", i, k - 1), p.tokens[k].type = "LEFT_PAREN",
           NEW q, q = ItemList(parse, p, "CALL"), ~q.errored
    PROVE  Begins(p.tokens, precedence, i, q)
<1>1. "CALL" \in DOMAIN Closing /\ Closing["CALL"] = "RIGHT_PAREN"
  BY ClosingOps DEF Closing
<1>2. /\ Spells(p.tokens, "items", k + 1, CurrentAt(q) - 2)
      /\ p.tokens[CurrentAt(q) - 1].type = "RIGHT_PAREN"
  BY <1>1, ItemListKnown
<1>3. Fine(q)
  BY <1>1, ItemListFollows, KnowsIsRoom DEF Follows
<1>4. CurrentAt(q) - 1 \in Nat /\ (CurrentAt(q) - 1) - 1 = CurrentAt(q) - 2
  BY <1>3, PlaceOf
<1>5. Spells(p.tokens, "postfix", i, CurrentAt(q) - 1)
  BY <1>2, <1>4, SpellsCall
<1> QED BY <1>5 DEF Begins

LEMMA InfixRuleKnown ==
    ASSUME NEW parse, NEW p, Fine(p), NEW precedence \in 1 .. 8, Knows(parse, p, 2),
           NEW i \in Nat \ {0}, NEW k \in Nat \ {0}, CurrentAt(p) = k + 1, p.tokens[k] = p.previous,
           Precedes(p.tokens, precedence, i, k), precedence <= Precedence(p.previous.type),
           NEW q, q = InfixRule(parse, p, Assignable(precedence)), ~q.errored
    PROVE  Begins(p.tokens, precedence, i, q)
<1> DEFINE type == p.previous.type
<1>1. Knows(parse, p, 1) /\ Precedence(type) # 0
  BY KnowsAfter, FollowsItself
<1>2. type \in {"LEFT_PAREN", "LEFT_BRACKET"} => Spells(p.tokens, "postfix", i, k - 1)
  BY PrecedesPostfix
<1>3. type \in Infix => precedence <= 7 /\ Spells(p.tokens, "operation", i, k - 1)
  BY PrecedesInfix
<1>4. ASSUME type \in Infix, Spells(p.tokens, "operation", i, CurrentAt(q) - 1), Precedence(q.current.type) < 8
      PROVE  Begins(p.tokens, precedence, i, q)
  BY <1>3, <1>4 DEF Begins
<1>5. CASE type = "LEFT_PAREN"
  <2>1. q = ItemList(parse, p, "CALL")
    BY <1>5, PrecedenceOfOperators DEF InfixRule
  <2> QED BY <1>2, <1>5, <2>1, CallBegins
<1>6. CASE type = "LEFT_BRACKET"
  <2>1. q = RuleSubscript(parse, p, Assignable(precedence))
    BY <1>6, PrecedenceOfOperators DEF InfixRule
  <2>2. Assigned(p.tokens, i, Assignable(precedence), q)
    BY <1>1, <1>2, <1>6, <2>1, RuleSubscriptKnown
  <2> QED BY <2>2, AssignedBegins
<1>7. CASE type = "AMPER_AMPER"
  <2>1. q = RuleShortCircuit(parse, p, "JUMP_IF_FALSE", PREC_AND) /\ type \in Infix
    BY <1>7, PrecedenceOfOperators DEF InfixRule, Infix
  <2>2. PREC_AND \in 2 .. 8 /\ "JUMP_IF_FALSE" \in Ops
    BY OpsListed DEF PREC_AND
  <2> QED BY <1>1, <1>3, <1>4, <2>1, <2>2, RuleShortCircuitKnown
<1>8. CASE type = "PIPE_PIPE"
  <2>1. q = RuleShortCircuit(parse, p, "JUMP_IF_TRUE", PREC_OR) /\ type \in Infix
    BY <1>8, PrecedenceOfOperators DEF InfixRule, Infix
  <2>2. PREC_OR \in 2 .. 8 /\ "JUMP_IF_TRUE" \in Ops
    BY OpsListed DEF PREC_OR
  <2> QED BY <1>1, <1>3, <1>4, <2>1, <2>2, RuleShortCircuitKnown
<1>9. CASE type \in DOMAIN BinaryCode
  <2>1. type \in Infix
    BY <1>9 DEF Infix
  <2>2. Precedence(type) \in 2 .. 7
    BY <2>1, PrecedenceOfInfix
  <2>3. Precedence(type) + 1 \in 2 .. 8 /\ Precedence(type) + 1 \in 1 .. 8
    BY <2>2
  <2>4. BinaryCode[type] \in Ops
    BY <1>9, OpsListed, OperatorTables
  <2>5. type \notin {"LEFT_PAREN", "LEFT_BRACKET", "AMPER_AMPER", "PIPE_PIPE"}
    BY <1>9, PrecedenceOfOperators
  <2>6. q = EmitOp(parse["expression", p, Precedence(type) + 1], BinaryCode[type])
    BY <1>9, <2>5 DEF InfixRule
  <2>7. Ends(p.tokens, Precedence(type) + 1, CurrentAt(p), q) /\ Fine(q)
    BY <1>1, <2>3, <2>4, <2>6, OperandThenOpKnown
  <2>8. Spells(p.tokens, "operation", i, CurrentAt(q) - 1) /\ Precedence(q.current.type) < 8
    BY <1>3, <2>1, <2>3, <2>7, InfixEnds
  <2> QED BY <1>4, <2>1, <2>8
<1> QED BY <1>1, <1>5, <1>6, <1>7, <1>8, <1>9, PrecedenceOfOperators

LEMMA InfixAtKnown ==
    ASSUME NEW parse, NEW p, Fine(p), NEW precedence \in 1 .. 8, Knows(parse, p, 1),
           NEW i \in Nat \ {0}
    PROVE  /\ Follows(p, parse["infix", p, precedence])
           /\ ~parse["infix", p, precedence].errored /\ (~p.errored => Begins(p.tokens, precedence, i, p)) =>
                 Ends(p.tokens, precedence, i, parse["infix", p, precedence])
<1> DEFINE q == parse["infix", p, precedence]
<1>1. "infix" \in Goals /\ Rank("infix") + 1 = 1 /\ precedence \in Nat
  BY DEF Goals, Rank
<1>2. Follows(p, q) /\ (~q.errored => Says("infix", precedence, p, q))
  BY <1>1, Known
<1> HIDE DEF q
<1>3. ~q.errored => ~p.errored
  BY <1>2, FollowsPlace
<1>4. ~q.errored /\ Begins(p.tokens, precedence, i, p) => Ends(p.tokens, precedence, i, q)
  BY <1>2 DEF Says
<1> QED BY <1>2, <1>3, <1>4 DEF q

LEMMA InfixRulesKnown ==
    ASSUME NEW parse, NEW p, Fine(p), NEW precedence \in 1 .. 8, Knows(parse, p, 0),
           NEW i \in Nat \ {0}, Begins(p.tokens, precedence, i, p),
           NEW q, q = InfixRules(parse, p, precedence), ~q.errored
    PROVE  Ends(p.tokens, precedence, i, q)
<1> DEFINE r == Advance(p)
           s == InfixRule(parse, r, Assignable(precedence))
<1>1. CASE precedence <= Precedence(p.current.type)
  <2>1. Precedence(p.current.type) # 0 /\ p.current.type # "EOF"
    BY <1>1, PrecedenceOfOperators
  <2>2. Follows(p, r) /\ Fine(r) /\ r.previous = p.current /\ Knows(parse, r, 2)
    BY <2>1, AdvanceReads, AdvanceFollows, KnowsAfterToken
  <2>3. ~r.errored => Passes(p, r)
    BY <2>1, AdvanceTakes
  <2>4. Follows(r, s) /\ Fine(s)
    BY <2>1, <2>2, KnowsIsRoom, InfixRuleFollows DEF Follows
  <2>5. q = parse["infix", s, precedence]
    BY <1>1 DEF InfixRules
  <2>6. CurrentAt(p) \in Nat \ {0}
    BY PlaceOf
  <2> HIDE DEF r
  <2>7. Follows(s, parse["infix", s, precedence]) /\ Knows(parse, s, 1)
    <3>1. Knows(parse, s, 1)
      BY <2>2, <2>4, KnowsAfter
    <3> QED BY <2>4, <3>1, InfixAtKnown
  <2>8. ASSUME ~s.errored
        PROVE  Begins(p.tokens, precedence, i, s)
    <3>1. ~r.errored
      BY <2>2, <2>4, <2>8, FollowsPlace
    <3>2. r.tokens = p.tokens /\ CurrentAt(r) = CurrentAt(p) + 1 /\ p.current = p.tokens[CurrentAt(p)]
      BY <2>3, <3>1 DEF Passes
    <3>3. Precedes(p.tokens, precedence, i, CurrentAt(p))
      BY <1>1, <3>2, BeginsPrecedes
    <3>4. r.tokens[CurrentAt(p)] = r.previous /\ precedence <= Precedence(r.previous.type)
      BY <1>1, <2>2, <3>2
    <3> QED BY <2>2, <2>6, <2>8, <3>2, <3>3, <3>4, InfixRuleKnown
  <2>9. s.tokens = p.tokens
    BY <2>2, <2>4, FollowsPlace
  <2> HIDE DEF s
  <2>10. ~s.errored => Begins(s.tokens, precedence, i, s)
    BY <2>8, <2>9
  <2>11. ~parse["infix", s, precedence].errored => Ends(s.tokens, precedence, i, parse["infix", s, precedence])
    BY <2>4, <2>7, <2>10, InfixAtKnown
  <2> QED BY <2>5, <2>9, <2>11
<1>2. CASE ~(precedence <= Precedence(p.current.type))
  <2>1. q = p
    BY <1>2 DEF InfixRules
  <2> QED BY <1>2, <2>1, BeginsEnds
<1> QED BY <1>1, <1>2

LEMMA AfterFirstKnown ==
    ASSUME NEW parse, NEW p, Fine(p), NEW precedence \in 1 .. 8,
           p.previous.type \in PrefixTokens => Knows(parse, p, 2),
           NEW i \in Nat \ {0}, CurrentAt(p) = i + 1, p.tokens[i] = p.previous,
           NEW q, q = AfterFirst(parse, p, precedence), ~q.errored
    PROVE  Ends(p.tokens, precedence, i, q)
<1> DEFINE r == PrefixRule(parse, p, Assignable(precedence))
           s == parse["infix", r, precedence]
<1>1. p.previous.type \in PrefixTokens
  <2>1. SyntaxError(p).errored
    BY SyntaxErrorFollows
  <2> QED BY <2>1 DEF AfterFirst
<1>2. Follows(p, r) /\ Fine(r)
  BY <1>1, KnowsIsRoom, PrefixRuleFollows DEF Follows
<1>3. q = RefuseAssignment(s, Assignable(precedence))
  BY <1>1 DEF AfterFirst
<1>4. ~r.errored => Begins(p.tokens, precedence, i, r)
  BY <1>1, PrefixRuleKnown
<1> HIDE DEF r
<1>5. Knows(parse, r, 1) /\ r.tokens = p.tokens
  BY <1>1, <1>2, KnowsAfter, FollowsPlace
<1>6. ~r.errored => Begins(r.tokens, precedence, i, r)
  BY <1>4, <1>5
<1>7. Follows(r, s) /\ (~s.errored => Ends(r.tokens, precedence, i, s))
  BY <1>2, <1>5, <1>6, InfixAtKnown
<1> HIDE DEF s
<1>8. Fine(s)
  BY <1>2, <1>7, FollowsPlace
<1>9. SyntaxError(Advance(s)).errored
  BY <1>8, AdvanceFollows, SyntaxErrorFollows
<1>10. q = s
  BY <1>3, <1>9 DEF RefuseAssignment
<1> QED BY <1>5, <1>7, <1>10

LEMMA ParsePrecedenceKnown ==
    ASSUME NEW parse, NEW p, Fine(p), NEW precedence \in 1 .. 8, Knows(parse, p, 0),
           NEW q, q = ParsePrecedence(parse, p, precedence), ~q.errored
    PROVE  Ends(p.tokens, precedence, CurrentAt(p), q)
<1> DEFINE r == Advance(p)
<1>1. Follows(p, r) /\ Fine(r) /\ r.previous = p.current
  BY AdvanceReads, AdvanceFollows
<1>2. p.current.type \in PrefixTokens => Knows(parse, r, 2)
  BY KnowsAfterToken DEF PrefixTokens
<1>3. q = AfterFirst(parse, r, precedence)
  BY DEF ParsePrecedence
<1>4. p.current.type # "EOF" /\ ~r.errored => Passes(p, r)
  BY AdvanceTakes
<1>5. CurrentAt(p) \in Nat \ {0}
  BY PlaceOf
<1> HIDE DEF r
<1>6. r.previous.type \in PrefixTokens
  <2>1. SyntaxError(r).errored
    BY <1>1, SyntaxErrorFollows
  <2> QED BY <1>3, <2>1 DEF AfterFirst
<1>7. p.current.type # "EOF"
  BY <1>1, <1>6 DEF PrefixTokens
<1>8. ~r.errored
  <2>1. r.previous.type \in PrefixTokens => Room(parse, r, 2)
    BY <1>1, <1>2, KnowsIsRoom
  <2>2. precedence \in Nat \ {0}
    OBVIOUS
  <2>3. Follows(r, q)
    BY <1>1, <1>3, <2>1, <2>2, AfterFirstFollows
  <2> QED BY <1>1, <2>3, FollowsPlace
<1>9. r.tokens = p.tokens /\ CurrentAt(r) = CurrentAt(p) + 1 /\ p.tokens[CurrentAt(p)] = r.previous
  BY <1>1, <1>4, <1>7, <1>8 DEF Passes
<1>10. r.tokens[CurrentAt(p)] = r.previous
  BY <1>9
<1>11. r.previous.type \in PrefixTokens => Knows(parse, r, 2)
  BY <1>1, <1>2
<1>12. Ends(r.tokens, precedence, CurrentAt(p), q)
  BY <1>1, <1>3, <1>5, <1>9, <1>10, <1>11, AfterFirstKnown
<1> QED BY <1>9, <1>12

-----------------------------------------------------------------------------
(* What statements read. *)

LEMMA ExpressionStatementKnown ==
    ASSUME NEW parse, NEW p, Fine(p), Knows(parse, p, 1),
           NEW q, q = ExpressionStatement(parse, p), ~q.errored
    PROVE  CurrentAt(q) > CurrentAt(p) /\ Spells(p.tokens, "statement", CurrentAt(p), CurrentAt(q) - 1)
<1> DEFINE r == Consume(Expression(parse, p), "SEMICOLON")
<1>1. q = EmitOp(r, "POP")
  BY DEF ExpressionStatement
<1>2. Follows(p, r) /\ Fine(r)
  BY ExpressionKnown, ConsumeFollows, FollowsOn, FollowsPlace
<1>3. ~r.errored =>
          /\ Spells(p.tokens, "expression", CurrentAt(p), CurrentAt(r) - 2)
          /\ p.tokens[CurrentAt(r) - 1].type = "SEMICOLON" /\ CurrentAt(r) >= CurrentAt(p) + 2
  BY ClosedBy
<1> HIDE DEF r
<1>4. Keeps(r, q)
  BY <1>1, <1>2, OpsListed, EmitOpKeeps
<1>5. ~r.errored /\ CurrentAt(q) = CurrentAt(r)
  BY <1>4, KeepsPlace
<1>6. CurrentAt(p) \in Nat \ {0} /\ CurrentAt(r) \in Nat \ {0}
  BY <1>2, PlaceOf
<1>7. CurrentAt(r) - 1 \in Nat /\ (CurrentAt(r) - 1) - 1 = CurrentAt(r) - 2
  BY <1>6
<1>8. Spells(p.tokens, "statement", CurrentAt(p), CurrentAt(r) - 1)
  BY <1>3, <1>5, <1>6, <1>7, SpellsExpressionStatement
<1>9. CurrentAt(r) > CurrentAt(p)
  BY <1>3, <1>5, <1>6
<1> QED BY <1>5, <1>8, <1>9

\* What has been read of a variable, before the semicolon: the name is at i + 1.
LEMMA InitializerKnown ==
    ASSUME NEW parse, NEW p, Fine(p), Knows(parse, p, 0),
           NEW q, q = Initializer(parse, p), ~q.errored
    PROVE  \/ CurrentAt(q) = CurrentAt(p)
           \/ /\ p.tokens[CurrentAt(p)].type = "EQUAL"
              /\ Spells(p.tokens, "expression", CurrentAt(p) + 1, CurrentAt(q) - 1)
<1>1. CASE Check(p, "EQUAL")
  <2>1. q = Expression(parse, Advance(p)) /\ p.current.type = "EQUAL"
    BY <1>1 DEF Initializer, Check
  <2> QED BY <2>1, AssignedKnown
<1>2. CASE ~Check(p, "EQUAL")
  <2>1. q = EmitOp(p, "NULL") /\ "NULL" \in Ops
    BY <1>2, OpsListed DEF Initializer, Literals
  <2> QED BY <2>1, EmitOpKeeps, KeepsPlace
<1> QED BY <1>1, <1>2

LEMMA ParseVariableKnown ==
    ASSUME NEW p, Fine(p), NEW q, q = ParseVariable(p).p
    PROVE  /\ Follows(p, q)
           /\ ~q.errored => /\ q.tokens = p.tokens /\ CurrentAt(q) = CurrentAt(p) + 1
                            /\ p.tokens[CurrentAt(p)].type = "IDENTIFIER"
<1> DEFINE r == Consume(p, "IDENTIFIER")
<1>1. Follows(p, r) /\ Fine(r)
  BY ConsumeFollows, FollowsPlace
<1>2. ~r.errored => Passes(p, r) /\ p.current.type = "IDENTIFIER"
  BY ConsumeTakes
<1>3. q = ReadName(r).p
  BY DEF ParseVariable
<1> HIDE DEF r
<1>4. Keeps(r, q)
  BY <1>1, <1>3, ReadNameKeeps
<1>5. Follows(p, q)
  BY <1>1, <1>4, FollowsOn DEF Keeps
<1>6. ASSUME ~q.errored
      PROVE  /\ q.tokens = p.tokens /\ CurrentAt(q) = CurrentAt(p) + 1
             /\ p.tokens[CurrentAt(p)].type = "IDENTIFIER"
  <2>1. ~r.errored /\ q.tokens = r.tokens /\ CurrentAt(q) = CurrentAt(r)
    BY <1>4, <1>6, KeepsPlace
  <2> QED BY <1>2, <2>1 DEF Passes
<1> QED BY <1>5, <1>6

LEMMA VarDeclarationKnown ==
    ASSUME NEW parse, NEW p, Fine(p), NEW read_only \in BOOLEAN, Knows(parse, p, 0),
           NEW i \in Nat \ {0}, CurrentAt(p) = i + 1, p.tokens[i].type \in {"LET", "CONST"},
           NEW q, q = VarDeclaration(parse, p, read_only), ~q.errored
    PROVE  CurrentAt(q) > i /\ Spells(p.tokens, "declaration", i, CurrentAt(q) - 1)
<1> DEFINE v == ParseVariable(p)
           r == Initializer(parse, v.p)
           s == Consume(r, "SEMICOLON")
<1>1. /\ Follows(p, v.p) /\ v.index \in Int /\ (p.c.scope_depth = 0 => v.index \in Nat)
      /\ ~v.p.errored => /\ v.p.tokens = p.tokens /\ CurrentAt(v.p) = CurrentAt(p) + 1
                         /\ p.tokens[CurrentAt(p)].type = "IDENTIFIER"
  BY ParseVariableFollows, ParseVariableKnown
<1>2. q = DefineVariable(s, v.index, read_only)
  BY DEF VarDeclaration
<1> HIDE DEF v
<1>3. Knows(parse, v.p, 0) /\ Fine(v.p)
  BY <1>1, KnowsAfter, FollowsPlace
<1>4. Follows(v.p, r) /\ Fine(r)
  BY <1>3, KnowsIsRoom, InitializerFollows DEF Follows
<1>5. ~r.errored =>
        \/ CurrentAt(r) = CurrentAt(v.p)
        \/ /\ v.p.tokens[CurrentAt(v.p)].type = "EQUAL"
           /\ Spells(v.p.tokens, "expression", CurrentAt(v.p) + 1, CurrentAt(r) - 1)
  BY <1>3, InitializerKnown
<1> HIDE DEF r
<1>6. Follows(r, s) /\ Fine(s) /\ (~s.errored => Passes(r, s) /\ r.current.type = "SEMICOLON")
  BY <1>4, ConsumeFollows, ConsumeTakes, FollowsPlace
<1> HIDE DEF s
<1>7. s.c.scope_depth = p.c.scope_depth
  BY <1>1, <1>4, <1>6 DEF Follows
<1>8. Keeps(s, q)
  BY <1>1, <1>2, <1>6, <1>7, DefineVariableKeeps
<1>9. ~s.errored /\ CurrentAt(q) = CurrentAt(s)
  BY <1>8, KeepsPlace
<1>10. ~r.errored /\ CurrentAt(s) = CurrentAt(r) + 1 /\ r.tokens[CurrentAt(r)].type = "SEMICOLON"
  BY <1>6, <1>9 DEF Passes
<1>11. ~v.p.errored /\ r.tokens = v.p.tokens
  BY <1>3, <1>4, <1>10, FollowsPlace
<1>12. r.tokens = p.tokens /\ CurrentAt(v.p) = i + 2 /\ p.tokens[i + 1].type = "IDENTIFIER"
  BY <1>1, <1>11
<1>13. CurrentAt(r) \in Nat /\ CurrentAt(q) - 1 = CurrentAt(r)
  BY <1>4, <1>9, <1>10, PlaceOf
<1>14. ASSUME Spells(p.tokens, "declaration", i, CurrentAt(r)), CurrentAt(r) > i
       PROVE  CurrentAt(q) > i /\ Spells(p.tokens, "declaration", i, CurrentAt(q) - 1)
  <2>1. CurrentAt(q) > i
    BY <1>9, <1>10, <1>13, <1>14
  <2> QED BY <1>13, <1>14, <2>1
<1>15. CASE CurrentAt(r) = CurrentAt(v.p)
  <2>1. CurrentAt(r) = i + 2 /\ p.tokens[i + 2].type = "SEMICOLON"
    BY <1>10, <1>12, <1>15
  <2>2. Spells(p.tokens, "declaration", i, i + 2)
    BY <1>12, <2>1, SpellsVariable
  <2>3. CurrentAt(r) > i
    BY <2>1
  <2> QED BY <1>14, <2>1, <2>2, <2>3
<1>16. CASE CurrentAt(r) # CurrentAt(v.p)
  <2>1. /\ p.tokens[i + 2].type = "EQUAL"
        /\ Spells(p.tokens, "expression", (i + 2) + 1, CurrentAt(r) - 1)
    BY <1>5, <1>10, <1>11, <1>12, <1>16
  <2>2. (i + 2) + 1 = i + 3
    OBVIOUS
  <2>3. Spells(p.tokens, "declaration", i, CurrentAt(r))
    BY <1>10, <1>12, <1>13, <2>1, <2>2, SpellsInitialized
  <2>4. CurrentAt(r) > i
    <3>1. i + 3 <= CurrentAt(r) - 1
      BY <2>1, <2>2, SpellsSomething
    <3> QED BY <1>13, <3>1
  <2> QED BY <1>14, <2>3, <2>4
<1> QED BY <1>15, <1>16

LEMMA ParameterKnown ==
    ASSUME NEW p, Fine(p), NEW q, q = Parameter(p), ~q.errored
    PROVE  /\ q.tokens = p.tokens /\ CurrentAt(q) = CurrentAt(p) + 1
           /\ p.tokens[CurrentAt(p)].type = "IDENTIFIER"
<1> DEFINE r == CountParameter(p)
           s == ParseVariable(r).p
<1>1. Keeps(p, r)
  BY CountParameterKeeps
<1>2. q = MarkInitialized(s, FALSE)
  BY DEF Parameter
<1> HIDE DEF r
<1>3. Fine(r) /\ r.tokens = p.tokens /\ CurrentAt(r) = CurrentAt(p)
  BY <1>1, KeepsPlace
<1>4. /\ Follows(r, s)
      /\ ~s.errored => /\ s.tokens = r.tokens /\ CurrentAt(s) = CurrentAt(r) + 1
                       /\ r.tokens[CurrentAt(r)].type = "IDENTIFIER"
  BY <1>3, ParseVariableKnown
<1> HIDE DEF s
<1>5. Fine(s)
  BY <1>3, <1>4, FollowsPlace
<1>6. Keeps(s, q)
  BY <1>2, <1>5, MarkInitializedKeeps
<1>7. ~s.errored /\ q.tokens = s.tokens /\ CurrentAt(q) = CurrentAt(s)
  BY <1>6, KeepsPlace
<1> QED BY <1>3, <1>4, <1>7

LEMMA ParametersAtKnown ==
    ASSUME NEW parse, NEW p, Fine(p), Knows(parse, p, 1)
    PROVE  LET q == parse["parameters", Parameter(p), 0]
           IN  /\ Follows(p, q) /\ Fine(q)
               /\ ~q.errored => /\ CurrentAt(q) > CurrentAt(p)
                                /\ Spells(p.tokens, "parameters", CurrentAt(p), CurrentAt(q) - 1)
<1> DEFINE r == Parameter(p)
           s == parse["parameters", r, 0]
<1>1. Follows(p, r) /\ Fine(r)
  BY ParameterFollows DEF Follows
<1>2. ~r.errored => /\ r.tokens = p.tokens /\ CurrentAt(r) = CurrentAt(p) + 1
                    /\ p.tokens[CurrentAt(p)].type = "IDENTIFIER"
  BY ParameterKnown
<1>3. Knows(parse, r, 1)
  BY <1>1, KnowsAfter
<1>4. "parameters" \in Goals /\ Rank("parameters") + 1 = 1 /\ "parameters" \notin {"expression", "infix"}
  BY DEF Goals, Rank
<1> HIDE DEF r
<1>6. Follows(r, s) /\ (~s.errored => Says("parameters", 0, r, s))
  BY <1>1, <1>3, <1>4, Known
<1> HIDE DEF s
<1>5. CurrentAt(r) \in Nat
  BY <1>1, PlaceOf
<1>7. Follows(p, s) /\ Fine(s) /\ CurrentAt(r) <= CurrentAt(s) /\ (~s.errored => ~r.errored)
  BY <1>1, <1>6, FollowsOn, FollowsPlace
<1>8. CurrentAt(p) \in Nat \ {0} /\ CurrentAt(s) \in Nat
  BY <1>7, PlaceOf
<1>9. ASSUME ~s.errored
      PROVE  CurrentAt(s) > CurrentAt(p) /\ Spells(p.tokens, "parameters", CurrentAt(p), CurrentAt(s) - 1)
  <2>1. /\ r.tokens = p.tokens /\ CurrentAt(r) = CurrentAt(p) + 1
        /\ p.tokens[CurrentAt(p)].type = "IDENTIFIER"
    BY <1>2, <1>7, <1>9
  <2>2. CurrentAt(r) > 1 /\ CurrentAt(r) - 1 = CurrentAt(p) /\ CurrentAt(s) > CurrentAt(p)
    BY <1>5, <1>7, <1>8, <2>1
  <2>3. Spells(r.tokens, "parameters", CurrentAt(r) - 1, CurrentAt(s) - 1)
    BY <1>6, <1>9, <2>1, <2>2 DEF Says
  <2> QED BY <2>1, <2>2, <2>3
<1> QED BY <1>7, <1>9 DEF s, r

\* After a parameter: i is its place.
LEMMA ParametersKnown ==
    ASSUME NEW parse, NEW p, Fine(p), Knows(parse, p, 0), NEW i \in Nat \ {0}, CurrentAt(p) = i + 1,
           p.tokens[i].type = "IDENTIFIER", NEW q, q = Parameters(parse, p), ~q.errored
    PROVE  Spells(p.tokens, "parameters", i, CurrentAt(q) - 1)
<1> DEFINE r == Advance(p)
<1>1. CASE Check(p, "COMMA")
  <2>1. p.current.type = "COMMA" /\ p.current.type # "EOF"
    BY <1>1 DEF Check
  <2>2. Follows(p, r) /\ Fine(r) /\ Knows(parse, r, 1) /\ (~r.errored => Passes(p, r))
    BY <2>1, AdvanceFollows, AdvanceTakes, KnowsAfterToken
  <2>3. q = parse["parameters", Parameter(r), 0]
    BY <1>1 DEF Parameters
  <2> HIDE DEF r
  <2>4. /\ Follows(r, q) /\ Fine(q) /\ CurrentAt(q) > CurrentAt(r)
        /\ Spells(r.tokens, "parameters", CurrentAt(r), CurrentAt(q) - 1)
    BY <2>2, <2>3, ParametersAtKnown
  <2>5. ~r.errored
    BY <2>2, <2>4, FollowsPlace
  <2>6. r.tokens = p.tokens /\ CurrentAt(r) = i + 2 /\ p.tokens[i + 1].type = "COMMA"
    BY <2>1, <2>2, <2>5 DEF Passes
  <2>7. CurrentAt(q) \in Nat \ {0}
    BY <2>4, PlaceOf
  <2>8. CurrentAt(q) - 1 \in Nat /\ i + 2 <= CurrentAt(q) - 1
    BY <2>4, <2>6, <2>7
  <2>9. Spells(p.tokens, "parameters", i + 2, CurrentAt(q) - 1)
    BY <2>4, <2>6
  <2> QED BY <2>6, <2>8, <2>9, MoreParameters
<1>2. CASE ~Check(p, "COMMA")
  <2>1. q = p
    BY <1>2 DEF Parameters
  <2>2. CurrentAt(q) - 1 = i
    BY <2>1
  <2> QED BY <2>2, OneParameter
<1> QED BY <1>1, <1>2

LEMMA ParameterListKnown ==
    ASSUME NEW parse, NEW p, Fine(p), Knows(parse, p, 1), NEW q, q = ParameterList(parse, p)
    PROVE  /\ Follows(p, q) /\ Fine(q) /\ CurrentAt(p) <= CurrentAt(q)
           /\ ~q.errored => \/ CurrentAt(q) = CurrentAt(p)
                            \/ Spells(p.tokens, "parameters", CurrentAt(p), CurrentAt(q) - 1)
<1>1. Follows(p, q)
  BY KnowsIsRoom, ParameterListFollows
<1>2. CASE Check(p, "RIGHT_PAREN")
  BY <1>1, <1>2, FollowsPlace DEF ParameterList
<1>3. CASE ~Check(p, "RIGHT_PAREN")
  BY <1>1, <1>3, FollowsPlace, ParametersAtKnown DEF ParameterList
<1> QED BY <1>2, <1>3

\* Up to the brace that closes it.
LEMMA BlockAtKnown ==
    ASSUME NEW parse, NEW p, Fine(p), Knows(parse, p, 3)
    PROVE  LET q == parse["block", p, 0]
           IN  /\ Follows(p, q) /\ Fine(q)
               /\ ~q.errored => /\ CurrentAt(q) > CurrentAt(p)
                                /\ Spells(p.tokens, "declarations", CurrentAt(p), CurrentAt(q) - 2)
                                /\ p.tokens[CurrentAt(q) - 1].type = "RIGHT_BRACE"
<1> DEFINE s == parse["block", p, 0]
<1>1. "block" \in Goals /\ Rank("block") + 1 = 3 /\ "block" \notin {"expression", "infix"}
  BY DEF Goals, Rank
<1>3. Follows(p, s) /\ (~s.errored => Says("block", 0, p, s))
  BY <1>1, Known
<1> HIDE DEF s
<1>4. Fine(s)
  BY <1>3, FollowsPlace
<1>5. ~s.errored => /\ CurrentAt(s) > CurrentAt(p)
                    /\ Spells(p.tokens, "declarations", CurrentAt(p), CurrentAt(s) - 2)
                    /\ p.tokens[CurrentAt(s) - 1].type = "RIGHT_BRACE"
  BY <1>3 DEF Says
<1> QED BY <1>3, <1>4, <1>5 DEF s

\* The name of the function is at i + 1.
LEMMA ParseFunctionKnown ==
    ASSUME NEW parse, NEW p, Fine(p), Knows(parse, p, 3), NEW i \in Nat \ {0}, CurrentAt(p) = i + 2,
           p.tokens[i].type = "DEF", p.tokens[i + 1].type = "IDENTIFIER",
           NEW q, q = ParseFunction(parse, p), ~q.errored
    PROVE  CurrentAt(q) > i /\ Spells(p.tokens, "declaration", i, CurrentAt(q) - 1)
<1> DEFINE inside == BeginScope(BeginFunction(p))
           open == Consume(inside, "LEFT_PAREN")
           header == ParameterList(parse, open)
           close == Consume(header, "RIGHT_PAREN")
           body == Consume(close, "LEFT_BRACE")
           block == parse["block", body, 0]
           end == EndCompiler(block)
<1>1. Moves(p, inside) /\ Stays(p, inside) /\ Fine(inside)
  <2>1. Moves(p, BeginFunction(p)) /\ Fine(BeginFunction(p)) /\ Stays(p, BeginFunction(p))
    BY BeginFunctionMoves, BeginFunctionStays DEF Moves
  <2>2. Moves(BeginFunction(p), inside) /\ Fine(inside) /\ Stays(BeginFunction(p), inside)
    BY <2>1, BeginScopeMoves, BeginScopeStays DEF Moves
  <2> QED BY <2>1, <2>2, MovesOn, StaysOn
<1>2. q = EmitFunction(end)
  BY DEF ParseFunction
<1> HIDE DEF inside
<1>3. inside.tokens = p.tokens /\ CurrentAt(inside) = i + 2 /\ Knows(parse, inside, 3)
  BY <1>1, StaysPlace, KnowsAfter
<1>4. Follows(inside, open) /\ Fine(open) /\ (~open.errored => Passes(inside, open) /\ inside.current.type = "LEFT_PAREN")
  BY <1>1, ConsumeFollows, ConsumeTakes, FollowsPlace
<1> HIDE DEF open
<1>5. Knows(parse, open, 3) /\ Knows(parse, open, 1)
  BY <1>1, <1>3, <1>4, KnowsAfter
<1>6. /\ Follows(open, header) /\ Fine(header) /\ CurrentAt(open) <= CurrentAt(header)
      /\ ~header.errored => \/ CurrentAt(header) = CurrentAt(open)
                            \/ Spells(open.tokens, "parameters", CurrentAt(open), CurrentAt(header) - 1)
  BY <1>4, <1>5, ParameterListKnown
<1> HIDE DEF header
<1>7. /\ Follows(header, close) /\ Fine(close)
      /\ ~close.errored => Passes(header, close) /\ header.current.type = "RIGHT_PAREN"
  BY <1>6, ConsumeFollows, ConsumeTakes, FollowsPlace
<1> HIDE DEF close
<1>8. /\ Follows(close, body) /\ Fine(body)
      /\ ~body.errored => Passes(close, body) /\ close.current.type = "LEFT_BRACE"
  BY <1>7, ConsumeFollows, ConsumeTakes, FollowsPlace
<1> HIDE DEF body
<1>9. Knows(parse, body, 3)
  <2>1. Follows(open, close)
    BY <1>4, <1>6, <1>7, FollowsOn
  <2>2. Follows(open, body)
    BY <1>4, <1>8, <2>1, FollowsOn
  <2> QED BY <1>4, <1>5, <2>2, KnowsAfter
<1>10. /\ Follows(body, block) /\ Fine(block)
       /\ ~block.errored => /\ CurrentAt(block) > CurrentAt(body)
                            /\ Spells(body.tokens, "declarations", CurrentAt(body), CurrentAt(block) - 2)
                            /\ body.tokens[CurrentAt(block) - 1].type = "RIGHT_BRACE"
  BY <1>8, <1>9, BlockAtKnown
<1> HIDE DEF block
<1>11. Moves(block, end) /\ Stays(block, end) /\ Fine(end)
  BY <1>10, EndCompilerMoves, EndCompilerStays DEF Moves
<1> HIDE DEF end
<1>12. Keeps(end, q)
  BY <1>2, <1>11, EmitFunctionKeeps
<1>13. ~end.errored /\ CurrentAt(q) = CurrentAt(end)
  BY <1>12, KeepsPlace
<1>14. ~block.errored /\ CurrentAt(q) = CurrentAt(block)
  BY <1>10, <1>11, <1>13, StaysPlace, FollowsPlace
<1>15. ~body.errored /\ ~close.errored /\ ~header.errored /\ ~open.errored
  BY <1>4, <1>6, <1>7, <1>8, <1>10, <1>14, FollowsPlace
<1>16. open.tokens = p.tokens /\ CurrentAt(open) = i + 3 /\ p.tokens[i + 2].type = "LEFT_PAREN"
  <2>1. /\ open.tokens = inside.tokens /\ CurrentAt(open) = (i + 2) + 1
        /\ inside.tokens[i + 2].type = "LEFT_PAREN"
    BY <1>3, <1>4, <1>15 DEF Passes
  <2> QED BY <1>3, <2>1
<1> DEFINE k == CurrentAt(header)
<1>17. k \in Nat /\ CurrentAt(block) \in Nat
  BY <1>6, <1>10, PlaceOf
<1>18. header.tokens = p.tokens /\ i + 3 <= k
       /\ (k = i + 3 \/ Spells(p.tokens, "parameters", i + 3, k - 1))
  BY <1>4, <1>6, <1>15, <1>16, FollowsPlace
<1>19. close.tokens = p.tokens /\ CurrentAt(close) = k + 1 /\ p.tokens[k].type = "RIGHT_PAREN"
  BY <1>7, <1>15, <1>18 DEF Passes
<1>20. body.tokens = p.tokens /\ CurrentAt(body) = (k + 1) + 1 /\ p.tokens[k + 1].type = "LEFT_BRACE"
  BY <1>8, <1>15, <1>19 DEF Passes
<1> DEFINE j == CurrentAt(block) - 1
<1>21. (k + 1) + 1 = k + 2 /\ j \in Nat /\ j - 1 = CurrentAt(block) - 2 /\ CurrentAt(block) > i
  BY <1>10, <1>14, <1>17, <1>18, <1>20
<1>22. Spells(p.tokens, "declarations", k + 2, j - 1) /\ p.tokens[j].type = "RIGHT_BRACE"
  BY <1>10, <1>14, <1>20, <1>21
<1> HIDE DEF k, j
<1>23. k \in Nat
  BY <1>17 DEF k
<1>24. Spells(p.tokens, "declaration", i, j)
  BY <1>16, <1>18, <1>19, <1>20, <1>21, <1>22, <1>23, SpellsFunction
<1> QED BY <1>14, <1>21, <1>24 DEF j

LEMMA FunctionDeclarationKnown ==
    ASSUME NEW parse, NEW p, Fine(p), Knows(parse, p, 3), NEW i \in Nat \ {0}, CurrentAt(p) = i + 1,
           p.tokens[i].type = "DEF", NEW q, q = FunctionDeclaration(parse, p), ~q.errored
    PROVE  CurrentAt(q) > i /\ Spells(p.tokens, "declaration", i, CurrentAt(q) - 1)
<1> DEFINE v == ParseVariable(p)
           local == MarkInitialized(v.p, FALSE)
           global == ParseFunction(parse, v.p)
           index == v.index % ByteSize
<1>1. /\ Follows(p, v.p) /\ v.index \in Int
      /\ ~v.p.errored => /\ v.p.tokens = p.tokens /\ CurrentAt(v.p) = CurrentAt(p) + 1
                         /\ p.tokens[CurrentAt(p)].type = "IDENTIFIER"
  BY ParseVariableFollows, ParseVariableKnown
<1>2. q = IF p.c.scope_depth > 0 THEN ParseFunction(parse, local) ELSE DeclareGlobal(global, index, FALSE)
  BY DEF FunctionDeclaration
<1>3. index \in Nat
  BY <1>1, ByteSizeIsNat
<1> HIDE DEF v, index
<1>4. Fine(v.p) /\ Knows(parse, v.p, 3)
  BY <1>1, KnowsAfter, FollowsPlace
<1>5. ~v.p.errored => CurrentAt(v.p) = i + 2 /\ p.tokens[i + 1].type = "IDENTIFIER" /\ v.p.tokens = p.tokens
  BY <1>1
<1>6. CASE p.c.scope_depth > 0
  <2>1. Keeps(v.p, local)
    BY <1>4, MarkInitializedKeeps
  <2> HIDE DEF local
  <2>2. Fine(local) /\ Follows(v.p, local) /\ (~local.errored => ~v.p.errored)
        /\ local.tokens = v.p.tokens /\ CurrentAt(local) = CurrentAt(v.p)
    BY <2>1, KeepsPlace DEF Keeps
  <2>3. Knows(parse, local, 3)
    BY <1>4, <2>2, KnowsAfter
  <2>4. q = ParseFunction(parse, local)
    BY <1>2, <1>6
  <2>5. ~local.errored
    <3>1. Follows(local, q)
      BY <2>2, <2>3, <2>4, KnowsIsRoom, ParseFunctionFollows
    <3> QED BY <2>2, <3>1, FollowsPlace
  <2>6. local.tokens = p.tokens /\ CurrentAt(local) = i + 2 /\ p.tokens[i + 1].type = "IDENTIFIER"
    BY <1>5, <2>2, <2>5
  <2> QED BY <2>2, <2>3, <2>4, <2>6, ParseFunctionKnown
<1>7. CASE ~(p.c.scope_depth > 0)
  <2>1. Follows(v.p, global) /\ Fine(global)
    BY <1>4, KnowsIsRoom, ParseFunctionFollows DEF Follows
  <2>2. ~global.errored /\ ~v.p.errored =>
           CurrentAt(global) > i /\ Spells(p.tokens, "declaration", i, CurrentAt(global) - 1)
    BY <1>4, <1>5, ParseFunctionKnown
  <2> HIDE DEF global
  <2>3. q = DeclareGlobal(global, index, FALSE)
    BY <1>2, <1>7
  <2>4. Keeps(global, q)
    BY <1>3, <2>1, <2>3, DeclareGlobalKeeps
  <2>5. ~global.errored /\ CurrentAt(q) = CurrentAt(global)
    BY <2>4, KeepsPlace
  <2>6. ~v.p.errored
    BY <1>4, <2>1, <2>5, FollowsPlace
  <2> QED BY <2>2, <2>5, <2>6
<1> QED BY <1>6, <1>7

\* The condition stands between the parentheses at i + 1 and before the end.
LEMMA ConditionKnown ==
    ASSUME NEW parse, NEW p, Fine(p), Knows(parse, p, 1), NEW q, q = Condition(parse, p)
    PROVE  /\ Follows(p, q) /\ Fine(q) /\ JumpOffset(q) \in Int
           /\ ~q.errored => /\ q.tokens = p.tokens
                            /\ p.tokens[CurrentAt(p)].type = "LEFT_PAREN"
                            /\ Spells(p.tokens, "expression", CurrentAt(p) + 1, CurrentAt(q) - 2)
                            /\ p.tokens[CurrentAt(q) - 1].type = "RIGHT_PAREN"
<1> DEFINE r == Consume(p, "LEFT_PAREN")
           s == Consume(Expression(parse, r), "RIGHT_PAREN")
<1>1. Follows(p, q) /\ Fine(q) /\ JumpOffset(q) \in Int
  BY KnowsIsRoom, ConditionFollows
<1>2. q = EmitJump(s, "JUMP_IF_FALSE")
  BY DEF Condition
<1>3. Follows(p, r) /\ Fine(r) /\ (~r.errored => Passes(p, r) /\ p.current.type = "LEFT_PAREN")
  BY ConsumeFollows, ConsumeTakes, FollowsPlace
<1> HIDE DEF r
<1>4. Knows(parse, r, 1)
  BY <1>3, KnowsAfter
<1>5. Follows(r, s) /\ Fine(s)
  BY <1>3, <1>4, ExpressionKnown, ConsumeFollows, FollowsOn, FollowsPlace
<1>6. ~s.errored => /\ Spells(r.tokens, "expression", CurrentAt(r), CurrentAt(s) - 2)
                    /\ r.tokens[CurrentAt(s) - 1].type = "RIGHT_PAREN" /\ s.tokens = r.tokens
  BY <1>3, <1>4, ClosedBy
<1> HIDE DEF s
<1>7. Keeps(s, q)
  BY <1>2, <1>5, OpsListed, EmitJumpKeeps
<1>8. (~q.errored => ~s.errored) /\ CurrentAt(q) = CurrentAt(s) /\ q.tokens = s.tokens
  BY <1>7, KeepsPlace
<1>9. ~s.errored => ~r.errored
  BY <1>3, <1>5, FollowsPlace
<1>10. ASSUME ~q.errored
       PROVE  /\ q.tokens = p.tokens
              /\ p.tokens[CurrentAt(p)].type = "LEFT_PAREN"
              /\ Spells(p.tokens, "expression", CurrentAt(p) + 1, CurrentAt(q) - 2)
              /\ p.tokens[CurrentAt(q) - 1].type = "RIGHT_PAREN"
  <2>1. ~s.errored /\ ~r.errored
    BY <1>8, <1>9, <1>10
  <2>2. r.tokens = p.tokens /\ CurrentAt(r) = CurrentAt(p) + 1 /\ p.tokens[CurrentAt(p)].type = "LEFT_PAREN"
    BY <1>3, <2>1 DEF Passes
  <2> QED BY <1>6, <1>8, <2>1, <2>2
<1> QED BY <1>1, <1>10

LEMMA StatementAtKnown ==
    ASSUME NEW parse, NEW p, Fine(p), Knows(parse, p, 2)
    PROVE  LET q == parse["statement", p, 0]
           IN  /\ Follows(p, q) /\ Fine(q)
               /\ ~q.errored => /\ CurrentAt(q) > CurrentAt(p)
                                /\ Spells(p.tokens, "statement", CurrentAt(p), CurrentAt(q) - 1)
<1> DEFINE q == parse["statement", p, 0]
<1>1. "statement" \in Goals /\ Rank("statement") + 1 = 2 /\ "statement" \notin {"expression", "infix"}
  BY DEF Goals, Rank
<1>2. Follows(p, q) /\ (~q.errored => Says("statement", 0, p, q))
  BY <1>1, Known
<1> HIDE DEF q
<1>3. Fine(q)
  BY <1>2, FollowsPlace
<1>4. "statement" \in {"statement", "declaration"}
  OBVIOUS
<1>5. ~q.errored => /\ CurrentAt(q) > CurrentAt(p)
                    /\ Spells(p.tokens, "statement", CurrentAt(p), CurrentAt(q) - 1)
  BY <1>2, <1>4 DEF Says
<1> QED BY <1>2, <1>3, <1>5 DEF q

LEMMA BodyKnown ==
    ASSUME NEW parse, NEW p, Fine(p), Knows(parse, p, 2)
    PROVE  LET q == Body(parse, p)
           IN  /\ Follows(p, q) /\ Fine(q)
               /\ ~q.errored => /\ q.tokens = p.tokens /\ CurrentAt(q) > CurrentAt(p)
                                /\ Spells(p.tokens, "statement", CurrentAt(p), CurrentAt(q) - 1)
<1> DEFINE r == EmitOp(p, "POP")
           q == parse["statement", r, 0]
<1>1. Body(parse, p) = q
  BY DEF Body
<1>2. Keeps(p, r)
  BY OpsListed, EmitOpKeeps
<1> HIDE DEF r
<1>3. Fine(r) /\ Follows(p, r) /\ r.tokens = p.tokens /\ CurrentAt(r) = CurrentAt(p)
  BY <1>2, KeepsPlace DEF Keeps
<1>4. Knows(parse, r, 2)
  BY <1>3, KnowsAfter
<1>5. /\ Follows(r, q) /\ Fine(q)
      /\ ~q.errored => /\ CurrentAt(q) > CurrentAt(r)
                       /\ Spells(r.tokens, "statement", CurrentAt(r), CurrentAt(q) - 1)
  BY <1>3, <1>4, StatementAtKnown
<1> HIDE DEF q
<1>6. Follows(p, q) /\ q.tokens = p.tokens
  BY <1>3, <1>5, FollowsOn, FollowsPlace
<1> QED BY <1>1, <1>3, <1>5, <1>6

\* Nothing, or an else.
ElseRead(p, q) ==
    \/ CurrentAt(q) = CurrentAt(p)
    \/ /\ p.tokens[CurrentAt(p)].type = "ELSE" /\ CurrentAt(q) > CurrentAt(p) + 1
       /\ Spells(p.tokens, "statement", CurrentAt(p) + 1, CurrentAt(q) - 1)

LEMMA ElseBranchKnown ==
    ASSUME NEW parse, NEW p, Fine(p), Knows(parse, p, 0)
    PROVE  LET q == ElseBranch(parse, p)
           IN  Follows(p, q) /\ Fine(q) /\ (~q.errored => ElseRead(p, q))
<1> DEFINE q == ElseBranch(parse, p)
           r == Advance(p)
           s == parse["statement", r, 0]
<1>1. Follows(p, q) /\ Fine(q)
  BY KnowsIsRoom, ElseBranchFollows
<1>2. CASE Check(p, "ELSE")
  <2>1. p.current.type = "ELSE" /\ p.current.type # "EOF"
    BY <1>2 DEF Check
  <2>2. Follows(p, r) /\ Fine(r) /\ Knows(parse, r, 2) /\ (~r.errored => Passes(p, r))
    BY <2>1, AdvanceFollows, AdvanceTakes, KnowsAfterToken
  <2>3. q = s
    BY <1>2 DEF ElseBranch
  <2> HIDE DEF q, r
  <2>4. /\ Follows(r, s)
        /\ ~s.errored => /\ CurrentAt(s) > CurrentAt(r)
                         /\ Spells(r.tokens, "statement", CurrentAt(r), CurrentAt(s) - 1)
    BY <2>2, StatementAtKnown
  <2> HIDE DEF s
  <2>5. ASSUME ~s.errored PROVE ElseRead(p, s)
    <3>1. ~r.errored
      BY <2>2, <2>4, <2>5, FollowsPlace
    <3>2. r.tokens = p.tokens /\ CurrentAt(r) = CurrentAt(p) + 1 /\ p.tokens[CurrentAt(p)].type = "ELSE"
      BY <2>1, <2>2, <3>1 DEF Passes
    <3> QED BY <2>4, <2>5, <3>2 DEF ElseRead
  <2> QED BY <1>1, <2>3, <2>5 DEF q
<1>3. CASE ~Check(p, "ELSE")
  <2>1. q = p
    BY <1>3 DEF ElseBranch
  <2> QED BY <1>1, <2>1 DEF ElseRead
<1> QED BY <1>2, <1>3

LEMMA ElseReadKept ==
    ASSUME NEW p, NEW q, NEW r, NEW s, Keeps(p, q), Keeps(r, s), ElseRead(q, r)
    PROVE  ElseRead(p, s)
BY KeepsPlace DEF ElseRead

LEMMA EndIfKnown ==
    ASSUME NEW parse, NEW p, Fine(p), NEW then_jump \in Int, JumpOffset(p) \in Int, Knows(parse, p, 0),
           NEW q, q = EndIf(parse, p, then_jump), ~q.errored
    PROVE  ElseRead(p, q) /\ ~p.errored
<1> DEFINE r == EmitOp(PatchJump(p, then_jump), "POP")
           s == ElseBranch(parse, r)
<1>1. q = PatchJump(s, JumpOffset(p))
  BY DEF EndIf
<1>2. Keeps(p, r)
  <2>1. Keeps(p, PatchJump(p, then_jump)) /\ Fine(PatchJump(p, then_jump))
    BY PatchJumpKeeps, KeepsPlace
  <2>2. Keeps(PatchJump(p, then_jump), r)
    BY <2>1, OpsListed, EmitOpKeeps
  <2> QED BY <2>1, <2>2, KeepsOn
<1> HIDE DEF r
<1>3. Fine(r) /\ Follows(p, r) /\ (~r.errored => ~p.errored)
  BY <1>2, KeepsPlace DEF Keeps
<1>4. Knows(parse, r, 0)
  BY <1>3, KnowsAfter
<1>5. Follows(r, s) /\ Fine(s) /\ (~s.errored => ElseRead(r, s))
  BY <1>3, <1>4, ElseBranchKnown
<1> HIDE DEF s
<1>6. Keeps(s, q)
  BY <1>1, <1>5, PatchJumpKeeps
<1>7. ~s.errored /\ ~r.errored
  BY <1>3, <1>5, <1>6, KeepsPlace, FollowsPlace
<1> QED BY <1>2, <1>3, <1>5, <1>6, <1>7, ElseReadKept

LEMMA IfBranchesKnown ==
    ASSUME NEW parse, NEW p, Fine(p), JumpOffset(p) \in Int, Knows(parse, p, 2),
           NEW q, q = IfBranches(parse, p), ~q.errored
    PROVE  \E e \in Nat :
              /\ CurrentAt(p) < e /\ Spells(p.tokens, "statement", CurrentAt(p), e - 1)
              /\ \/ CurrentAt(q) = e
                 \/ /\ p.tokens[e].type = "ELSE" /\ CurrentAt(q) > e + 1
                    /\ Spells(p.tokens, "statement", e + 1, CurrentAt(q) - 1)
<1> DEFINE r == Body(parse, p)
           s == EmitJump(r, "JUMP")
<1>1. /\ Follows(p, r) /\ Fine(r)
      /\ ~r.errored => /\ r.tokens = p.tokens /\ CurrentAt(r) > CurrentAt(p)
                       /\ Spells(p.tokens, "statement", CurrentAt(p), CurrentAt(r) - 1)
  BY BodyKnown
<1>2. q = EndIf(parse, s, JumpOffset(p))
  BY DEF IfBranches
<1> HIDE DEF r
<1>3. Keeps(r, s) /\ JumpOffset(s) \in Int
  BY <1>1, OpsListed, EmitJumpKeeps, EmitJumpFollows
<1> HIDE DEF s
<1>4. Fine(s) /\ Follows(p, s) /\ s.tokens = r.tokens /\ CurrentAt(s) = CurrentAt(r) /\ (~s.errored => ~r.errored)
  BY <1>1, <1>3, KeepsPlace, FollowsOn DEF Keeps
<1>5. Knows(parse, s, 0)
  BY <1>4, KnowsAfter
<1>6. ElseRead(s, q) /\ ~s.errored
  BY <1>2, <1>3, <1>4, <1>5, EndIfKnown
<1>7. CurrentAt(r) \in Nat
  BY <1>1, PlaceOf
<1>8. /\ CurrentAt(p) < CurrentAt(r) /\ Spells(p.tokens, "statement", CurrentAt(p), CurrentAt(r) - 1)
      /\ \/ CurrentAt(q) = CurrentAt(r)
         \/ /\ p.tokens[CurrentAt(r)].type = "ELSE" /\ CurrentAt(q) > CurrentAt(r) + 1
            /\ Spells(p.tokens, "statement", CurrentAt(r) + 1, CurrentAt(q) - 1)
  BY <1>1, <1>4, <1>6 DEF ElseRead
<1> QED BY <1>7, <1>8

LEMMA IfStatementKnown ==
    ASSUME NEW parse, NEW p, Fine(p), Knows(parse, p, 2), NEW i \in Nat \ {0}, CurrentAt(p) = i + 1,
           p.tokens[i].type = "IF", NEW q, q = IfStatement(parse, p), ~q.errored
    PROVE  CurrentAt(q) > i /\ Spells(p.tokens, "statement", i, CurrentAt(q) - 1)
<1> DEFINE c == Condition(parse, p)
<1>1. Knows(parse, p, 1)
  BY KnowsAfter, FollowsItself
<1>2. /\ Follows(p, c) /\ Fine(c) /\ JumpOffset(c) \in Int
      /\ ~c.errored => /\ c.tokens = p.tokens
                       /\ p.tokens[CurrentAt(p)].type = "LEFT_PAREN"
                       /\ Spells(p.tokens, "expression", CurrentAt(p) + 1, CurrentAt(c) - 2)
                       /\ p.tokens[CurrentAt(c) - 1].type = "RIGHT_PAREN"
  BY <1>1, ConditionKnown
<1>3. q = IfBranches(parse, c)
  BY DEF IfStatement
<1> HIDE DEF c
<1>4. Knows(parse, c, 2)
  BY <1>2, KnowsAfter
<1>5. Follows(c, q) /\ Fine(q)
  BY <1>2, <1>3, <1>4, KnowsIsRoom, IfBranchesFollows DEF Follows
<1>6. ~c.errored
  BY <1>2, <1>5, FollowsPlace
<1>7. PICK e \in Nat :
          /\ CurrentAt(c) < e /\ Spells(c.tokens, "statement", CurrentAt(c), e - 1)
          /\ \/ CurrentAt(q) = e
             \/ /\ c.tokens[e].type = "ELSE" /\ CurrentAt(q) > e + 1
                /\ Spells(c.tokens, "statement", e + 1, CurrentAt(q) - 1)
  BY <1>2, <1>3, <1>4, IfBranchesKnown
<1>8. /\ CurrentAt(c) \in Nat \ {0} /\ CurrentAt(q) \in Nat \ {0} /\ CurrentAt(p) <= CurrentAt(c)
  BY <1>2, <1>5, PlaceOf, FollowsPlace
<1> DEFINE k == CurrentAt(c) - 1
           j == CurrentAt(q) - 1
<1>9. k \in Nat /\ j \in Nat /\ k - 1 = CurrentAt(c) - 2 /\ k + 1 = CurrentAt(c) /\ (i + 1) + 1 = i + 2
  BY <1>8
<1>10. /\ p.tokens[i + 1].type = "LEFT_PAREN" /\ Spells(p.tokens, "expression", i + 2, k - 1)
       /\ p.tokens[k].type = "RIGHT_PAREN"
  BY <1>2, <1>6, <1>9
<1>11. i < e /\ k + 1 < e
  BY <1>7, <1>8, <1>9
<1>12. Spells(p.tokens, "statement", k + 1, e - 1)
  BY <1>2, <1>6, <1>7, <1>9
<1>13. CurrentAt(q) > i /\ k < j
  BY <1>7, <1>8, <1>11
<1>14. CASE CurrentAt(q) = e
  <2>1. Spells(p.tokens, "statement", k + 1, j)
    BY <1>12, <1>14
  <2> HIDE DEF k, j
  <2>2. Spells(p.tokens, "statement", i, j)
    BY <1>9, <1>10, <1>13, <2>1, SpellsConditional
  <2> QED BY <1>13, <2>2 DEF j
<1>15. CASE CurrentAt(q) # e
  <2>1. p.tokens[e].type = "ELSE" /\ e < j /\ Spells(p.tokens, "statement", e + 1, j)
    BY <1>2, <1>6, <1>7, <1>8, <1>15
  <2> HIDE DEF k, j
  <2>2. Spells(p.tokens, "statement", i, j)
    BY <1>9, <1>10, <1>11, <1>12, <2>1, SpellsIfElse
  <2> QED BY <1>13, <2>2 DEF j
<1> QED BY <1>14, <1>15

LEMMA LoopKnown ==
    ASSUME NEW parse, NEW p, Fine(p), JumpOffset(p) \in Int, NEW start \in Int, Knows(parse, p, 2),
           NEW q, q = Loop(parse, p, start), ~q.errored
    PROVE  /\ CurrentAt(q) > CurrentAt(p)
           /\ Spells(p.tokens, "statement", CurrentAt(p), CurrentAt(q) - 1)
<1> DEFINE r == Body(parse, p)
           s == EmitJumpBack(r, start)
           t == PatchJump(s, JumpOffset(p))
<1>1. /\ Fine(r)
      /\ ~r.errored => /\ CurrentAt(r) > CurrentAt(p)
                       /\ Spells(p.tokens, "statement", CurrentAt(p), CurrentAt(r) - 1)
  BY BodyKnown
<1>2. q = EmitOp(t, "POP")
  BY DEF Loop
<1> HIDE DEF r
<1>3. Keeps(r, s) /\ Fine(s)
  BY <1>1, EmitJumpBackKeeps, KeepsPlace
<1> HIDE DEF s
<1>4. Keeps(s, t) /\ Fine(t)
  BY <1>3, PatchJumpKeeps, KeepsPlace
<1> HIDE DEF t
<1>5. Keeps(t, q)
  BY <1>2, <1>4, OpsListed, EmitOpKeeps
<1>6. ~r.errored /\ CurrentAt(q) = CurrentAt(r)
  BY <1>3, <1>4, <1>5, KeepsPlace
<1> QED BY <1>1, <1>6

LEMMA WhileStatementKnown ==
    ASSUME NEW parse, NEW p, Fine(p), Knows(parse, p, 2), NEW i \in Nat \ {0}, CurrentAt(p) = i + 1,
           p.tokens[i].type = "WHILE", NEW q, q = WhileStatement(parse, p), ~q.errored
    PROVE  CurrentAt(q) > i /\ Spells(p.tokens, "statement", i, CurrentAt(q) - 1)
<1> DEFINE c == Condition(parse, p)
           start == Len(p.c.code)
<1>1. Knows(parse, p, 1)
  BY KnowsAfter, FollowsItself
<1>2. /\ Follows(p, c) /\ Fine(c) /\ JumpOffset(c) \in Int
      /\ ~c.errored => /\ c.tokens = p.tokens
                       /\ p.tokens[CurrentAt(p)].type = "LEFT_PAREN"
                       /\ Spells(p.tokens, "expression", CurrentAt(p) + 1, CurrentAt(c) - 2)
                       /\ p.tokens[CurrentAt(c) - 1].type = "RIGHT_PAREN"
  BY <1>1, ConditionKnown
<1>3. q = Loop(parse, c, start)
  BY DEF WhileStatement
<1>4. start \in Int
  BY DEF Fine, Parser, FunctionCompiler
<1> HIDE DEF c, start
<1>5. Knows(parse, c, 2)
  BY <1>2, KnowsAfter
<1>6. Follows(c, q) /\ Fine(q)
  BY <1>2, <1>3, <1>4, <1>5, KnowsIsRoom, LoopFollows DEF Follows
<1>7. ~c.errored
  BY <1>2, <1>6, FollowsPlace
<1>8. CurrentAt(q) > CurrentAt(c) /\ Spells(c.tokens, "statement", CurrentAt(c), CurrentAt(q) - 1)
  BY <1>2, <1>3, <1>4, <1>5, LoopKnown
<1>9. /\ CurrentAt(c) \in Nat \ {0} /\ CurrentAt(q) \in Nat \ {0} /\ CurrentAt(p) <= CurrentAt(c)
  BY <1>2, <1>6, PlaceOf, FollowsPlace
<1> DEFINE k == CurrentAt(c) - 1
           j == CurrentAt(q) - 1
<1>10. k \in Nat /\ j \in Nat /\ k - 1 = CurrentAt(c) - 2 /\ k + 1 = CurrentAt(c) /\ (i + 1) + 1 = i + 2
  BY <1>9
<1>11. /\ p.tokens[i + 1].type = "LEFT_PAREN" /\ Spells(p.tokens, "expression", i + 2, k - 1)
       /\ p.tokens[k].type = "RIGHT_PAREN"
  BY <1>2, <1>7, <1>10
<1>12. CurrentAt(q) > i /\ k < j
  BY <1>8, <1>9
<1>13. Spells(p.tokens, "statement", k + 1, j)
  BY <1>2, <1>7, <1>8, <1>10
<1> HIDE DEF k, j
<1>14. Spells(p.tokens, "statement", i, j)
  BY <1>10, <1>11, <1>12, <1>13, SpellsConditional
<1> QED BY <1>12, <1>14 DEF j

LEMMA ReturnStatementKnown ==
    ASSUME NEW parse, NEW p, Fine(p), Knows(parse, p, 1), NEW i \in Nat \ {0}, CurrentAt(p) = i + 1,
           p.tokens[i].type = "RETURN", NEW q, q = ReturnStatement(parse, p), ~q.errored
    PROVE  CurrentAt(q) > i /\ Spells(p.tokens, "statement", i, CurrentAt(q) - 1)
<1> DEFINE r == IF p.c.main THEN SyntaxError(p) ELSE p
           next == Advance(r)
           s == Consume(Expression(parse, r), "SEMICOLON")
<1>1. Keeps(p, r)
  BY SyntaxErrorKeeps, KeepsItself
<1>2. q = IF Check(r, "SEMICOLON") THEN EmitReturn(next) ELSE EmitOp(s, "RETURN")
  BY DEF ReturnStatement, ReturnValue
<1> HIDE DEF r
<1>3. Fine(r) /\ Follows(p, r) /\ r.tokens = p.tokens /\ CurrentAt(r) = i + 1
  BY <1>1, KeepsPlace DEF Keeps
<1>4. Knows(parse, r, 1)
  BY <1>3, KnowsAfter
<1>5. CASE Check(r, "SEMICOLON")
  <2>1. r.current.type = "SEMICOLON" /\ r.current.type # "EOF"
    BY <1>5 DEF Check
  <2>2. Fine(next) /\ (~next.errored => Passes(r, next))
    BY <1>3, <2>1, AdvanceFollows, AdvanceTakes
  <2> HIDE DEF next
  <2>3. Keeps(next, q)
    BY <1>2, <1>5, <2>2, EmitReturnKeeps
  <2>4. ~next.errored /\ CurrentAt(q) = CurrentAt(next)
    BY <2>3, KeepsPlace
  <2>5. CurrentAt(q) = (i + 1) + 1 /\ p.tokens[i + 1].type = "SEMICOLON"
    BY <1>3, <2>1, <2>2, <2>4 DEF Passes
  <2>6. CurrentAt(q) - 1 = i + 1 /\ CurrentAt(q) > i
    BY <2>5
  <2>7. Spells(p.tokens, "statement", i, i + 1)
    BY <2>5, SpellsReturnNothing
  <2> QED BY <2>6, <2>7
<1>6. CASE ~Check(r, "SEMICOLON")
  <2>1. Fine(s)
    BY <1>3, <1>4, ExpressionKnown, ConsumeFollows, FollowsPlace
  <2>2. ~s.errored => /\ Spells(r.tokens, "expression", CurrentAt(r), CurrentAt(s) - 2)
                      /\ r.tokens[CurrentAt(s) - 1].type = "SEMICOLON"
                      /\ CurrentAt(s) >= CurrentAt(r) + 2
    BY <1>3, <1>4, ClosedBy
  <2> HIDE DEF s
  <2>3. Keeps(s, q)
    BY <1>2, <1>6, <2>1, OpsListed, EmitOpKeeps
  <2>4. ~s.errored /\ CurrentAt(q) = CurrentAt(s)
    BY <2>3, KeepsPlace
  <2>5. CurrentAt(s) \in Nat \ {0}
    BY <2>1, PlaceOf
  <2> DEFINE j == CurrentAt(s) - 1
  <2>6. j \in Nat /\ j - 1 = CurrentAt(s) - 2
    BY <2>5
  <2>7. /\ Spells(p.tokens, "expression", i + 1, j - 1) /\ p.tokens[j].type = "SEMICOLON"
        /\ CurrentAt(s) >= (i + 1) + 2
    BY <1>3, <2>2, <2>4, <2>6
  <2>8. CurrentAt(s) > i
    BY <2>5, <2>7
  <2> HIDE DEF j
  <2>9. Spells(p.tokens, "statement", i, j)
    BY <2>6, <2>7, SpellsReturn
  <2> QED BY <2>4, <2>8, <2>9 DEF j
<1> QED BY <1>5, <1>6

LEMMA ScopedBlockKnown ==
    ASSUME NEW parse, NEW p, Fine(p), Knows(parse, p, 3), NEW i \in Nat \ {0}, CurrentAt(p) = i + 1,
           p.tokens[i].type = "LEFT_BRACE"
    PROVE  LET q == EndScope(parse["block", BeginScope(p), 0])
           IN  ~q.errored =>
                   CurrentAt(q) > i /\ Spells(p.tokens, "statement", i, CurrentAt(q) - 1)
<1> DEFINE r == BeginScope(p)
           s == parse["block", r, 0]
<1>1. /\ Moves(p, r) /\ Fine(r) /\ Stays(p, r) /\ r.c = InScope(p.c, p.c.scope_depth + 1, p.c.locals)
  BY BeginScopeMoves, BeginScopeStays
<1>2. p.c.scope_depth + 1 \in Nat \ {0} /\ p.c \in FunctionCompiler /\ p.c.locals \in Seq(Local)
  BY DEF Fine, Parser, FunctionCompiler
<1> DEFINE depth == p.c.scope_depth + 1
           e == EndScope(s)
<1>3. r.c.scope_depth # 0
  <2>1. InScope(p.c, depth, p.c.locals).scope_depth = depth
    <3> HIDE DEF depth
    <3> QED BY <1>2, InScopeType DEF depth
  <2> HIDE DEF r
  <2> QED BY <1>1, <1>2, <2>1
<1> HIDE DEF r
<1>5. Knows(parse, r, 3) /\ r.tokens = p.tokens /\ CurrentAt(r) = i + 1
  BY <1>1, KnowsAfter, StaysPlace
<1>6. /\ Follows(r, s) /\ Fine(s)
      /\ ~s.errored => /\ CurrentAt(s) > CurrentAt(r)
                       /\ Spells(r.tokens, "declarations", CurrentAt(r), CurrentAt(s) - 2)
                       /\ r.tokens[CurrentAt(s) - 1].type = "RIGHT_BRACE"
  BY <1>1, <1>5, BlockAtKnown
<1> HIDE DEF s
<1>7. s.c.scope_depth # 0
  BY <1>3, <1>6 DEF Follows
<1>8. Moves(s, e) /\ Stays(s, e)
  BY <1>6, <1>7, EndScopeMoves, EndScopeStays
<1> HIDE DEF e
<1> SUFFICES ASSUME ~e.errored PROVE CurrentAt(e) > i /\ Spells(p.tokens, "statement", i, CurrentAt(e) - 1)
  BY DEF e, s, r
<1>9. ~s.errored /\ CurrentAt(e) = CurrentAt(s)
  BY <1>6, <1>8, StaysPlace, FollowsPlace
<1>10. CurrentAt(s) \in Nat \ {0}
  BY <1>6, PlaceOf
<1> DEFINE j == CurrentAt(s) - 1
<1>11. j \in Nat /\ j - 1 = CurrentAt(s) - 2
  BY <1>10
<1>12. /\ Spells(p.tokens, "declarations", i + 1, j - 1) /\ p.tokens[j].type = "RIGHT_BRACE"
       /\ CurrentAt(s) > i + 1
  BY <1>5, <1>6, <1>9, <1>11
<1>13. CurrentAt(s) > i
  BY <1>10, <1>12
<1> HIDE DEF j
<1>14. Spells(p.tokens, "statement", i, j)
  BY <1>11, <1>12, SpellsBlock
<1> QED BY <1>9, <1>13, <1>14 DEF j

LEMMA StatementKnown ==
    ASSUME NEW parse, NEW p, Fine(p), Knows(parse, p, 1),
           NEW q, q = Statement(parse, p), ~q.errored
    PROVE  /\ CurrentAt(q) > CurrentAt(p)
           /\ Spells(p.tokens, "statement", CurrentAt(p), CurrentAt(q) - 1)
<1> DEFINE r == Advance(p)
           i == CurrentAt(p)
<1>1. Follows(p, r) /\ Fine(r)
  BY AdvanceFollows
<1>2. p.current.type # "EOF" =>
          Knows(parse, r, 3) /\ Knows(parse, r, 2) /\ Knows(parse, r, 1) /\ (~r.errored => Passes(p, r))
  BY KnowsAfterToken, AdvanceTakes
<1>3. i \in Nat \ {0}
  BY PlaceOf
<1>4. ASSUME p.current.type # "EOF", Follows(r, q)
      PROVE  r.tokens = p.tokens /\ CurrentAt(r) = i + 1 /\ p.tokens[i].type = p.current.type
  <2>1. ~r.errored
    BY <1>1, <1>4, FollowsPlace
  <2> QED BY <1>2, <1>4, <2>1 DEF Passes
<1> HIDE DEF i
<1>5. CASE Check(p, "LEFT_BRACE")
  <2>1. q = EndScope(parse["block", BeginScope(r), 0]) /\ p.current.type = "LEFT_BRACE"
    BY <1>5 DEF Statement, Check
  <2> HIDE DEF r
  <2>2. Follows(r, q)
    BY <1>1, <1>2, <2>1, KnowsIsRoom, ScopedBlockFollows
  <2>3. r.tokens = p.tokens /\ CurrentAt(r) = i + 1 /\ p.tokens[i].type = "LEFT_BRACE"
    BY <1>4, <2>1, <2>2
  <2>4. CurrentAt(q) > i /\ Spells(r.tokens, "statement", i, CurrentAt(q) - 1)
    BY <1>1, <1>2, <1>3, <2>1, <2>3, ScopedBlockKnown
  <2> QED BY <2>3, <2>4 DEF i
<1>6. CASE Check(p, "IF")
  <2>1. q = IfStatement(parse, r) /\ p.current.type = "IF"
    BY <1>6 DEF Statement, Check
  <2> HIDE DEF r
  <2>2. Follows(r, q)
    BY <1>1, <1>2, <2>1, KnowsIsRoom, IfStatementFollows
  <2>3. r.tokens = p.tokens /\ CurrentAt(r) = i + 1 /\ p.tokens[i].type = "IF"
    BY <1>4, <2>1, <2>2
  <2> QED BY <1>1, <1>2, <1>3, <2>1, <2>3, IfStatementKnown DEF i
<1>7. CASE Check(p, "WHILE")
  <2>1. q = WhileStatement(parse, r) /\ p.current.type = "WHILE"
    BY <1>7 DEF Statement, Check
  <2> HIDE DEF r
  <2>2. Follows(r, q)
    BY <1>1, <1>2, <2>1, KnowsIsRoom, WhileStatementFollows
  <2>3. r.tokens = p.tokens /\ CurrentAt(r) = i + 1 /\ p.tokens[i].type = "WHILE"
    BY <1>4, <2>1, <2>2
  <2> QED BY <1>1, <1>2, <1>3, <2>1, <2>3, WhileStatementKnown DEF i
<1>8. CASE Check(p, "RETURN")
  <2>1. q = ReturnStatement(parse, r) /\ p.current.type = "RETURN"
    BY <1>8 DEF Statement, Check
  <2> HIDE DEF r
  <2>2. Follows(r, q)
    BY <1>1, <1>2, <2>1, KnowsIsRoom, ReturnStatementFollows
  <2>3. r.tokens = p.tokens /\ CurrentAt(r) = i + 1 /\ p.tokens[i].type = "RETURN"
    BY <1>4, <2>1, <2>2
  <2> QED BY <1>1, <1>2, <1>3, <2>1, <2>3, ReturnStatementKnown DEF i
<1>9. CASE ~Check(p, "LEFT_BRACE") /\ ~Check(p, "IF") /\ ~Check(p, "WHILE") /\ ~Check(p, "RETURN")
  <2>1. q = ExpressionStatement(parse, p)
    BY <1>9 DEF Statement
  <2> QED BY <2>1, ExpressionStatementKnown
<1> QED BY <1>5, <1>6, <1>7, <1>8, <1>9

\* What the token begins: the declaration without what skips the rest of a wrong one.
Declared(parse, p) ==
    IF p.current.type \in {"LET", "CONST"}
    THEN VarDeclaration(parse, Advance(p), Check(p, "CONST"))
    ELSE IF Check(p, "DEF") THEN FunctionDeclaration(parse, Advance(p))
    ELSE Statement(parse, p)

LEMMA DeclaredKnown ==
    ASSUME NEW parse, NEW p, Fine(p), Knows(parse, p, 1),
           NEW q, q = Declared(parse, p), ~q.errored
    PROVE  /\ CurrentAt(q) > CurrentAt(p)
           /\ Spells(p.tokens, "declaration", CurrentAt(p), CurrentAt(q) - 1)
<1> DEFINE r == Advance(p)
           i == CurrentAt(p)
<1>1. Follows(p, r) /\ Fine(r)
  BY AdvanceFollows
<1>2. p.current.type # "EOF" =>
          Knows(parse, r, 3) /\ Knows(parse, r, 0) /\ (~r.errored => Passes(p, r))
  BY KnowsAfterToken, AdvanceTakes
<1>3. i \in Nat \ {0}
  BY PlaceOf
<1>4. ASSUME p.current.type # "EOF", Follows(r, q)
      PROVE  r.tokens = p.tokens /\ CurrentAt(r) = i + 1 /\ p.tokens[i].type = p.current.type
  <2>1. ~r.errored
    BY <1>1, <1>4, FollowsPlace
  <2> QED BY <1>2, <1>4, <2>1 DEF Passes
<1> HIDE DEF i
<1>5. CASE p.current.type \in {"LET", "CONST"}
  <2> DEFINE constant == Check(p, "CONST")
  <2>1. constant \in BOOLEAN
    BY DEF Check
  <2>2. q = VarDeclaration(parse, r, constant)
    BY <1>5 DEF Declared
  <2> HIDE DEF r, constant
  <2>3. Follows(r, q)
    BY <1>1, <1>2, <1>5, <2>1, <2>2, KnowsIsRoom, VarDeclarationFollows
  <2>4. r.tokens = p.tokens /\ CurrentAt(r) = i + 1 /\ p.tokens[i].type \in {"LET", "CONST"}
    BY <1>4, <1>5, <2>3
  <2>5. Knows(parse, r, 0)
    BY <1>2, <1>5
  <2>6. CurrentAt(q) > i /\ Spells(r.tokens, "declaration", i, CurrentAt(q) - 1)
    BY <1>1, <1>3, <2>1, <2>2, <2>4, <2>5, VarDeclarationKnown
  <2> QED BY <2>4, <2>6 DEF i
<1>6. CASE p.current.type \notin {"LET", "CONST"} /\ Check(p, "DEF")
  <2>1. q = FunctionDeclaration(parse, r) /\ p.current.type = "DEF"
    BY <1>6 DEF Declared, Check
  <2> HIDE DEF r
  <2>2. Follows(r, q)
    BY <1>1, <1>2, <2>1, KnowsIsRoom, FunctionDeclarationFollows
  <2>3. r.tokens = p.tokens /\ CurrentAt(r) = i + 1 /\ p.tokens[i].type = "DEF"
    BY <1>4, <2>1, <2>2
  <2>4. Knows(parse, r, 3)
    BY <1>2, <2>1
  <2>5. CurrentAt(q) > i /\ Spells(r.tokens, "declaration", i, CurrentAt(q) - 1)
    BY <1>1, <1>3, <2>1, <2>3, <2>4, FunctionDeclarationKnown
  <2> QED BY <2>3, <2>5 DEF i
<1>7. CASE p.current.type \notin {"LET", "CONST"} /\ ~Check(p, "DEF")
  <2>1. q = Statement(parse, p)
    BY <1>7 DEF Declared
  <2>2. CurrentAt(q) > CurrentAt(p) /\ Spells(p.tokens, "statement", CurrentAt(p), CurrentAt(q) - 1)
    BY <2>1, StatementKnown
  <2> QED BY <2>2, StatementIsDeclaration
<1> QED BY <1>5, <1>6, <1>7

LEMMA DeclaredFollows ==
    ASSUME NEW parse, NEW p, Fine(p), Room(parse, p, 1)
    PROVE  Follows(p, Declared(parse, p)) /\ Fine(Declared(parse, p))
<1> DEFINE r == Advance(p)
           constant == Check(p, "CONST")
           q == Declared(parse, p)
<1>1. Follows(p, r) /\ Fine(r)
  BY AdvanceFollows
<1>2. p.current.type # "EOF" => Room(parse, r, 3) /\ Room(parse, r, 0)
  BY RoomAfterToken
<1>3. CASE p.current.type \in {"LET", "CONST"}
  <2>1. constant \in BOOLEAN
    BY DEF Check
  <2>2. q = VarDeclaration(parse, r, constant)
    BY <1>3 DEF Declared
  <2>3. Follows(r, q)
    BY <1>1, <1>2, <1>3, <2>1, <2>2, VarDeclarationFollows
  <2> QED BY <1>1, <2>3, FollowsOn DEF Follows
<1>4. CASE p.current.type \notin {"LET", "CONST"} /\ Check(p, "DEF")
  <2>1. q = FunctionDeclaration(parse, r) /\ p.current.type = "DEF"
    BY <1>4 DEF Declared, Check
  <2>2. Follows(r, q)
    BY <1>1, <1>2, <2>1, FunctionDeclarationFollows
  <2> QED BY <1>1, <2>2, FollowsOn DEF Follows
<1>5. CASE p.current.type \notin {"LET", "CONST"} /\ ~Check(p, "DEF")
  <2>1. q = Statement(parse, p)
    BY <1>5 DEF Declared
  <2> QED BY <2>1, StatementReads DEF Reads, Follows
<1> QED BY <1>3, <1>4, <1>5

\* The rest of a wrong declaration is skipped: what is read without an error has no rest.
LEMMA DeclarationKnown ==
    ASSUME NEW parse, NEW p, Fine(p), Knows(parse, p, 1),
           NEW q, q = Declaration(parse, p), ~q.errored
    PROVE  /\ CurrentAt(q) > CurrentAt(p)
           /\ Spells(p.tokens, "declaration", CurrentAt(p), CurrentAt(q) - 1)
<1> DEFINE r == Declared(parse, p)
<1>1. q = Resume(parse, r)
  BY DEF Declaration, Declared
<1>2. Room(parse, p, 1) /\ Follows(p, r) /\ Fine(r)
  BY KnowsIsRoom, DeclaredFollows
<1>3. Room(parse, r, 1)
  BY <1>2, RoomAfter
<1> HIDE DEF r
<1>4. Follows(r, q)
  BY <1>1, <1>2, <1>3, ResumeFollows
<1>5. ~r.errored
  BY <1>2, <1>4, FollowsPlace
<1>6. ~r.panic_mode
  BY <1>2, <1>5 DEF Fine
<1>7. q = r
  BY <1>1, <1>6 DEF Resume
<1> QED BY <1>7, DeclaredKnown DEF r

LEMMA DeclarationAtKnown ==
    ASSUME NEW parse, NEW p, Fine(p), Knows(parse, p, 2)
    PROVE  LET q == parse["declaration", p, 0]
           IN  /\ Follows(p, q) /\ Fine(q)
               /\ p.current.type # "EOF" => Knows(parse, q, 3)
               /\ ~q.errored => /\ CurrentAt(q) > CurrentAt(p)
                                /\ Spells(p.tokens, "declaration", CurrentAt(p), CurrentAt(q) - 1)
<1> DEFINE s == parse["declaration", p, 0]
<1>1. "declaration" \in Goals /\ Rank("declaration") + 1 = 2 /\ "declaration" \notin {"expression", "infix"}
  BY DEF Goals, Rank
<1>2. Follows(p, s) /\ (~s.errored => Says("declaration", 0, p, s))
  BY <1>1, Known
<1>3. Reads(p, s) /\ Fine(s)
  BY KnowsIsRoom, DeclarationAt
<1> HIDE DEF s
<1>4. ~s.errored => /\ CurrentAt(s) > CurrentAt(p)
                    /\ Spells(p.tokens, "declaration", CurrentAt(p), CurrentAt(s) - 1)
  BY <1>2 DEF Says
<1>5. p.current.type # "EOF" => Knows(parse, s, 3)
  <2> SUFFICES ASSUME p.current.type # "EOF" PROVE Knows(parse, s, 3)
    OBVIOUS
  <2>1. Left(p) # 0
    BY DEF Left, Fine, Parser
  <2>2. Left(s) < Left(p)
    BY <1>3, <2>1 DEF Reads
  <2> QED BY <1>3, <2>2, KnowsPast
<1> QED BY <1>2, <1>3, <1>4, <1>5 DEF s

LEMMA BlockKnown ==
    ASSUME NEW parse, NEW p, Fine(p), Knows(parse, p, 2)
    PROVE  LET q == Block(parse, p)
           IN  ~q.errored => /\ CurrentAt(q) > CurrentAt(p)
                             /\ Spells(p.tokens, "declarations", CurrentAt(p), CurrentAt(q) - 2)
                             /\ p.tokens[CurrentAt(q) - 1].type = "RIGHT_BRACE"
<1> DEFINE e == Block(parse, p)
           s == parse["declaration", p, 0]
           i == CurrentAt(p)
<1>1. i \in Nat \ {0}
  BY PlaceOf
<1> SUFFICES ASSUME ~e.errored
             PROVE  /\ CurrentAt(e) > i /\ Spells(p.tokens, "declarations", i, CurrentAt(e) - 2)
                    /\ p.tokens[CurrentAt(e) - 1].type = "RIGHT_BRACE"
  OBVIOUS
<1>2. CASE p.current.type \in {"RIGHT_BRACE", "EOF"}
  <2>1. e = Consume(p, "RIGHT_BRACE")
    BY <1>2 DEF Block
  <2> HIDE DEF e
  <2>2. Passes(p, e) /\ p.current.type = "RIGHT_BRACE"
    BY <2>1, ConsumeTakes
  <2>3. CurrentAt(e) = i + 1 /\ p.tokens[i].type = "RIGHT_BRACE"
    BY <2>2 DEF Passes
  <2> HIDE DEF i
  <2>4. CurrentAt(e) > i /\ CurrentAt(e) - 2 = i - 1 /\ CurrentAt(e) - 1 = i
    BY <1>1, <2>3
  <2> QED BY <1>1, <2>3, <2>4, NoDeclarations
<1>3. CASE p.current.type \notin {"RIGHT_BRACE", "EOF"}
  <2>1. /\ Follows(p, s) /\ Fine(s) /\ Knows(parse, s, 3)
        /\ ~s.errored => CurrentAt(s) > i /\ Spells(p.tokens, "declaration", i, CurrentAt(s) - 1)
    BY <1>3, DeclarationAtKnown
  <2>2. e = parse["block", s, 0]
    BY <1>3 DEF Block
  <2> HIDE DEF s
  <2>3. /\ Follows(s, e) /\ Fine(e)
        /\ /\ CurrentAt(e) > CurrentAt(s)
           /\ Spells(s.tokens, "declarations", CurrentAt(s), CurrentAt(e) - 2)
           /\ s.tokens[CurrentAt(e) - 1].type = "RIGHT_BRACE"
    BY <2>1, <2>2, BlockAtKnown
  <2> HIDE DEF e
  <2>4. ~s.errored /\ s.tokens = p.tokens
    BY <2>1, <2>3, FollowsPlace
  <2>5. CurrentAt(s) \in Nat \ {0} /\ CurrentAt(e) \in Nat \ {0}
    BY <2>1, <2>3, PlaceOf
  <2> DEFINE k == CurrentAt(s) - 1
             j == CurrentAt(e) - 2
  <2> HIDE DEF i
  <2>6. k \in Nat /\ k + 1 = CurrentAt(s) /\ i <= k /\ CurrentAt(e) > i
    BY <1>1, <2>1, <2>3, <2>4, <2>5
  <2>7. j \in Nat
    BY <2>3, <2>5
  <2>8. Spells(p.tokens, "declaration", i, k) /\ Spells(p.tokens, "declarations", k + 1, j)
    BY <2>1, <2>3, <2>4, <2>6
  <2>9. Spells(p.tokens, "declarations", i, j)
    BY <1>1, <2>6, <2>7, <2>8, SpellsDeclarations
  <2> QED BY <2>3, <2>4, <2>6, <2>9
<1> QED BY <1>2, <1>3

LEMMA DeclarationsKnown ==
    ASSUME NEW parse, NEW p, Fine(p), Knows(parse, p, 2)
    PROVE  ~Declarations(parse, p).errored =>
               Spells(p.tokens, "declarations", CurrentAt(p), Len(p.tokens))
<1> DEFINE e == Declarations(parse, p)
           s == parse["declaration", p, 0]
           i == CurrentAt(p)
<1>1. i \in Nat \ {0} /\ Len(p.tokens) \in Nat
  BY PlaceOf
<1> SUFFICES ASSUME ~e.errored PROVE Spells(p.tokens, "declarations", i, Len(p.tokens))
  OBVIOUS
<1>2. CASE Check(p, "EOF")
  <2>1. i = Len(p.tokens) + 1
    BY <1>2, PlaceOf DEF Check
  <2> HIDE DEF i
  <2>2. Len(p.tokens) = i - 1
    BY <1>1, <2>1
  <2> QED BY <1>1, <2>2, NoDeclarations
<1>3. CASE ~Check(p, "EOF")
  <2>1. /\ Follows(p, s) /\ Fine(s) /\ Knows(parse, s, 3)
        /\ ~s.errored => CurrentAt(s) > i /\ Spells(p.tokens, "declaration", i, CurrentAt(s) - 1)
    BY <1>3, DeclarationAtKnown DEF Check
  <2>2. e = parse["declarations", s, 0]
    BY <1>3 DEF Declarations
  <2>3. "declarations" \in Goals /\ Rank("declarations") + 1 = 3 /\ "declarations" \notin {"expression", "infix"}
    BY DEF Goals, Rank
  <2> HIDE DEF s
  <2>4. Follows(s, e) /\ Says("declarations", 0, s, e)
    BY <2>1, <2>2, <2>3, Known
  <2> HIDE DEF e
  <2>5. ~s.errored /\ s.tokens = p.tokens
    BY <2>1, <2>4, FollowsPlace
  <2>6. CurrentAt(s) \in Nat \ {0}
    BY <2>1, PlaceOf
  <2> DEFINE k == CurrentAt(s) - 1
  <2> HIDE DEF i
  <2>7. k \in Nat /\ k + 1 = CurrentAt(s) /\ i <= k
    BY <1>1, <2>1, <2>5, <2>6
  <2>8. Spells(p.tokens, "declarations", k + 1, Len(p.tokens))
    BY <2>4, <2>5, <2>7 DEF Says
  <2> QED BY <1>1, <2>1, <2>5, <2>7, <2>8, SpellsDeclarations
<1> QED BY <1>2, <1>3

-----------------------------------------------------------------------------
(* Every call reads a phrase. *)

\* A call says what it read, if those it makes do.
LEMMA CallParses ==
    ASSUME NEW parse, NEW goal \in Goals, NEW p, Fine(p), NEW number \in Nat,
           goal \in {"expression", "infix"} => number \in 1 .. 8, Knows(parse, p, Rank(goal)),
           NEW q, q = Call(parse, goal, p, number), ~q.errored
    PROVE  Says(goal, number, p, q)
<1>1. CASE goal = "expression"
  <2>1. q = ParsePrecedence(parse, p, number) /\ Knows(parse, p, 0) /\ number \in 1 .. 8
    BY <1>1, ClosingOps DEF Call, Rank
  <2>2. Ends(p.tokens, number, CurrentAt(p), q)
    BY <2>1, ParsePrecedenceKnown
  <2> QED BY <1>1, <2>2, ClosingOps DEF Says
<1>2. CASE goal = "infix"
  <2>1. q = InfixRules(parse, p, number) /\ Knows(parse, p, 0) /\ number \in 1 .. 8
    BY <1>2, ClosingOps DEF Call, Rank
  <2>2. ASSUME NEW i \in Nat \ {0}, Begins(p.tokens, number, i, p) PROVE Ends(p.tokens, number, i, q)
    BY <2>1, <2>2, InfixRulesKnown
  <2> QED BY <1>2, <2>2, ClosingOps DEF Says
<1>3. CASE goal \in DOMAIN Closing
  <2>1. q = ParseItems(parse, p, goal, number) /\ Knows(parse, p, 1)
    BY <1>3, ClosingOps DEF Call
  <2>2. /\ CurrentAt(q) >= CurrentAt(p) + 2
        /\ Spells(p.tokens, "some", CurrentAt(p), CurrentAt(q) - 2)
        /\ p.tokens[CurrentAt(q) - 1].type = Closing[goal]
    BY <1>3, <2>1, ParseItemsKnown
  <2> QED BY <1>3, <2>2, ClosingOps DEF Says
<1>4. CASE goal = "statement"
  <2>1. q = Statement(parse, p) /\ Knows(parse, p, 1)
    BY <1>4, ClosingOps DEF Call, Rank
  <2>2. CurrentAt(q) > CurrentAt(p) /\ Spells(p.tokens, "statement", CurrentAt(p), CurrentAt(q) - 1)
    BY <2>1, StatementKnown
  <2> QED BY <1>4, <2>2, ClosingOps DEF Says
<1>5. CASE goal = "declaration"
  <2>1. q = Declaration(parse, p) /\ Knows(parse, p, 1)
    BY <1>5, ClosingOps DEF Call, Rank
  <2>2. CurrentAt(q) > CurrentAt(p) /\ Spells(p.tokens, "declaration", CurrentAt(p), CurrentAt(q) - 1)
    BY <2>1, DeclarationKnown
  <2> QED BY <1>5, <2>2, ClosingOps DEF Says
<1>6. CASE goal = "block"
  <2>1. q = Block(parse, p) /\ Knows(parse, p, 2)
    BY <1>6, ClosingOps DEF Call, Rank
  <2>2. /\ CurrentAt(q) > CurrentAt(p)
        /\ Spells(p.tokens, "declarations", CurrentAt(p), CurrentAt(q) - 2)
        /\ p.tokens[CurrentAt(q) - 1].type = "RIGHT_BRACE"
    BY <2>1, BlockKnown
  <2> QED BY <1>6, <2>2, ClosingOps DEF Says
<1>7. CASE goal = "declarations"
  <2>1. q = Declarations(parse, p) /\ Knows(parse, p, 2)
    BY <1>7, ClosingOps DEF Call, Rank
  <2>2. Spells(p.tokens, "declarations", CurrentAt(p), Len(p.tokens))
    BY <2>1, DeclarationsKnown
  <2> QED BY <1>7, <2>2, ClosingOps DEF Says
<1>8. CASE goal = "parameters"
  <2>1. q = Parameters(parse, p) /\ Knows(parse, p, 0)
    BY <1>8, ClosingOps DEF Call, Rank
  <2>2. ASSUME CurrentAt(p) > 1, p.tokens[CurrentAt(p) - 1].type = "IDENTIFIER"
        PROVE  Spells(p.tokens, "parameters", CurrentAt(p) - 1, CurrentAt(q) - 1)
    <3> DEFINE i == CurrentAt(p) - 1
    <3>1. CurrentAt(p) \in Nat \ {0}
      BY PlaceOf
    <3>2. i \in Nat \ {0} /\ CurrentAt(p) = i + 1
      BY <2>2, <3>1
    <3>3. p.tokens[i].type = "IDENTIFIER"
      BY <2>2
    <3> HIDE DEF i
    <3>4. Spells(p.tokens, "parameters", i, CurrentAt(q) - 1)
      BY <2>1, <3>2, <3>3, ParametersKnown
    <3> QED BY <3>4 DEF i
  <2> QED BY <1>8, <2>2, ClosingOps DEF Says
<1>9. CASE goal = "synchronize"
  BY <1>9, ClosingOps DEF Says
<1> QED BY <1>1, <1>2, <1>3, <1>4, <1>5, <1>6, <1>7, <1>8, <1>9, ClosingOps DEF Goals

LEMMA ParseParses == \A n \in Nat : Parses(Parse[n], n)
<1> DEFINE T == {n \in Nat : Parses(Parse[n], n)}
<1>1. 0 \in T
  <2>1. ASSUME NEW goal \in Goals, NEW p, Fine(p) PROVE ~(3 * Left(p) + Rank(goal) < 0)
    <3>1. Left(p) \in Nat /\ Rank(goal) \in Nat
      BY <2>1, LeftIsNat DEF Rank
    <3> QED BY <3>1
  <2>2. Parses(Parse[0], 0)
    BY <2>1 DEF Parses
  <2> QED BY <2>2
<1>2. ASSUME NEW n \in Nat, n \in T PROVE n + 1 \in T
  <2>1. Parses(Parse[n], n) /\ Serves(Parse[n], n)
    BY <1>2, ParseServes
  <2>2. ASSUME NEW goal \in Goals, NEW p \in Parser, NEW number \in Nat, Fine(p),
               3 * Left(p) + Rank(goal) < n + 1,
               goal \in {"expression", "infix"} => number \in 1 .. 8,
               ~Parse[n + 1][goal, p, number].errored
        PROVE  Says(goal, number, p, Parse[n + 1][goal, p, number])
    <3>1. Left(p) \in Nat /\ Rank(goal) \in Nat
      BY <2>2, LeftIsNat DEF Rank
    <3>2. 3 * Left(p) + Rank(goal) <= n
      <4>1. 3 * Left(p) + Rank(goal) < n + 1
        BY <2>2
      <4> QED BY <3>1, <4>1
    <3>3. Knows(Parse[n], p, Rank(goal))
      BY <2>1, <3>2 DEF Knows
    <3>4. Parse[n + 1] = OneMore(Parse[n])
      BY ParseUnfolds
    <3>5. Parse[n + 1][goal, p, number] = Call(Parse[n], goal, p, number)
      <4> DEFINE before == Parse[n]
                 f == OneMore(before)
                 g == Parse[n + 1]
      <4>1. g = f
        BY <3>4
      <4> HIDE DEF g
      <4>2. f[goal, p, number] = Call(before, goal, p, number)
        <5> HIDE DEF before
        <5> QED BY OneMoreCalls
      <4> HIDE DEF f, before
      <4>3. g[goal, p, number] = Call(before, goal, p, number)
        BY <4>1, <4>2
      <4> QED BY <4>3 DEF g, before
    <3> QED BY <2>2, <3>3, <3>5, CallParses
  <2>3. Parses(Parse[n + 1], n + 1)
    BY <2>2 DEF Parses
  <2> QED BY <2>3
<1> HIDE DEF T
<1>3. Nat \subseteq T
  BY <1>1, <1>2, NatSetInduction
<1> QED BY <1>3 DEF T

-----------------------------------------------------------------------------
(* The whole source. *)

\* Without an error nothing is skipped before the first token.
LEMMA FirstReadPlace ==
    ASSUME NEW source \in Seq(SourceToken), NEW last \in Nat, NEW base \in Nat
    PROVE  ~FirstRead(source, last, base).errored => CurrentAt(FirstRead(source, last, base)) = 1
<1> DEFINE p == NewParser(source, last, base)
           readable == {i \in p.scanned + 1 .. Len(p.tokens) : p.tokens[i].type # "ERROR"}
           next == IF readable = {} THEN Len(p.tokens) + 1 ELSE Min(readable)
           passed == \E i \in p.scanned + 1 .. next - 1 : i \in DOMAIN p.tokens
           q == IF passed THEN ErrorAt(p, Token("ERROR", 0)) ELSE p
           current == IF readable = {} THEN Eof(p.last_line) ELSE p.tokens[next]
           scanned == IF readable = {} THEN Len(p.tokens) ELSE next
           r == [q EXCEPT !.previous = p.current, !.current = current, !.scanned = scanned]
           first == FirstRead(source, last, base)
<1>1. first = r
  BY DEF Advance, FirstRead
<1>2. p.tokens = source /\ p.scanned = 0 /\ Begun(p) /\ Len(source) \in Nat /\ DOMAIN source = 1 .. Len(source)
  <2>1. p.tokens = source /\ p.scanned = 0
    BY DEF NewParser
  <2>2. Begun(p)
    BY NewParserBegun
  <2>3. Len(source) \in Nat /\ DOMAIN source = 1 .. Len(source)
    OBVIOUS
  <2> QED BY <2>1, <2>2, <2>3
<1> HIDE DEF p
<1>3. readable # {} => next \in 1 .. Len(source)
  <2>1. readable \subseteq 1 .. Len(source)
    BY <1>2
  <2>2. readable \subseteq Nat
    BY <2>1
  <2> HIDE DEF readable
  <2>3. readable # {} => Min(readable) \in readable
    BY <2>2, MinOfNats
  <2> QED BY <2>1, <2>3
<1>4. Token("ERROR", 0) \in AnyToken
  BY TokenIsToken DEF TokenTypes
<1>5. q \in Parser /\ q.tokens = source /\ (passed => q.errored)
  BY <1>2, <1>4, ErrorAtBegun DEF Begun
<1>6. readable = {} => next = Len(source) + 1
  BY <1>2
<1>7. Fine(first) /\ first.tokens = source
  BY FirstReadFine
<1> HIDE DEF q, readable, next, passed, first, current, scanned
<1>8. first.scanned = scanned /\ first.current = current /\ first.errored = q.errored
  BY <1>1, <1>5 DEF Parser
<1> SUFFICES ASSUME ~first.errored PROVE CurrentAt(first) = 1
  BY DEF first
<1>9. ~passed /\ next \in Nat
  BY <1>2, <1>3, <1>5, <1>6, <1>8
<1>10. next = 1
  <2> SUFFICES ASSUME next # 1 PROVE FALSE
    OBVIOUS
  <2>1. 1 \in p.scanned + 1 .. next - 1 /\ 1 \in DOMAIN p.tokens
    BY <1>2, <1>3, <1>6, <1>9
  <2> QED BY <1>9, <2>1 DEF passed
<1>11. CASE readable = {}
  <2>1. Len(source) = 0 /\ scanned = 0
    BY <1>2, <1>6, <1>10, <1>11 DEF scanned
  <2>2. first.current.type = "EOF"
    BY <1>2, <1>7, <1>8, <2>1 DEF Fine
  <2> QED BY <1>7, <2>1, <2>2 DEF CurrentAt
<1>12. CASE readable # {}
  <2>1. scanned = 1
    BY <1>10, <1>12 DEF scanned
  <2>2. CASE first.current.type = "EOF"
    <3>1. first.scanned = Len(source)
      BY <1>7, <2>2 DEF Fine
    <3>2. scanned = Len(source)
      BY <1>8, <3>1
    <3>3. current = source[1]
      BY <1>2, <1>10, <1>12 DEF current
    <3>4. source[1].type # "EOF"
      BY <1>2, <1>3, <1>10, <1>12 DEF SourceToken, SpelledToken
    <3> QED BY <1>8, <2>2, <3>3, <3>4
  <2>3. CASE first.current.type # "EOF"
    BY <1>8, <2>1, <2>3 DEF CurrentAt
  <2> QED BY <2>2, <2>3
<1> QED BY <1>11, <1>12

LEMMA LastReadSays ==
    ASSUME NEW source \in Seq(SourceToken), NEW last \in Nat, NEW base \in Nat, ~LastRead(source, last, base).errored
    PROVE  Spells(source, "declarations", 1, Len(source))
<1> DEFINE p == FirstRead(source, last, base)
           parse == Parse[CallsFor(source)]
           q == parse["declarations", p, 0]
<1>1. Fine(p) /\ Left(p) <= Len(source) /\ p.tokens = source /\ (~p.errored => CurrentAt(p) = 1)
  BY FirstReadFine, FirstReadPlace
<1>2. q = LastRead(source, last, base)
  BY DEF LastRead
<1> HIDE DEF p
<1>3. Left(p) \in Nat /\ Len(source) \in Nat
  BY <1>1, LeftIsNat
<1>4. CallsFor(source) \in Nat /\ 3 * Left(p) + 3 <= CallsFor(source)
  BY <1>1, <1>3 DEF CallsFor
<1>5. Serves(parse, CallsFor(source)) /\ Parses(parse, CallsFor(source))
  BY <1>4, ParseServes, ParseParses
<1>6. "declarations" \in Goals /\ Rank("declarations") + 1 = 3 /\ "declarations" \notin {"expression", "infix"}
  BY DEF Goals, Rank
<1> HIDE DEF parse
<1>7. Knows(parse, p, Rank("declarations") + 1)
  BY <1>4, <1>5, <1>6 DEF Knows
<1>8. Follows(p, q) /\ (~q.errored => Says("declarations", 0, p, q))
  BY <1>1, <1>6, <1>7, Known
<1> HIDE DEF q
<1>9. ~q.errored /\ ~p.errored
  BY <1>1, <1>2, <1>8, FollowsPlace
<1> QED BY <1>1, <1>8, <1>9 DEF Says

\* However it is nested and however long it is, what the parser takes without an
\* error is a program of the language.
THEOREM RefusesTheRestHolds == Spec => []RefusesTheRest
<1>1. CompiledFromTokens => RefusesTheRest
  <2> SUFFICES ASSUME CompiledFromTokens, compiled.ok PROVE IsProgram(tokens)
    BY DEF RefusesTheRest
  <2> DEFINE result == Compile(tokens, last_line, 0)
             p == LastRead(tokens, last_line, 0)
             q == EndCompiler(p)
  <2>1. tokens \in Seq(SourceToken) /\ last_line \in Nat /\ compiled = Measured(result) /\ 0 \in Nat
    BY DEF CompiledFromTokens
  <2>2. result.ok
    BY <2>1, MeasuredFields
  <2>3. result = Translation(q)
    BY DEF Compile, LastRead, FirstRead
  <2>4. Follows(FirstRead(tokens, last_line, 0), p)
    BY <2>1, LastReadFollows
  <2>5. ~q.errored
    <3> HIDE DEF q, result
    <3> QED BY <2>2, <2>3 DEF Translation
  <2> HIDE DEF p
  <2>6. Fine(p)
    BY <2>4 DEF Follows
  <2>7. Moves(p, q)
    BY <2>6, EndCompilerMoves
  <2> HIDE DEF q
  <2>8. ~p.errored
    BY <2>5, <2>6, <2>7, FollowsPlace
  <2>9. Spells(tokens, "declarations", 1, Len(tokens)) /\ Len(tokens) \in Nat
    BY <2>1, <2>8, LastReadSays DEF p
  <2> QED BY <2>9, SpellsProgram
<1> QED BY <1>1, CompilationInvariant, PTL
=============================================================================
