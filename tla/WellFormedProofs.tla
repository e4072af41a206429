--------------------------- MODULE WellFormedProofs ---------------------------
(***************************************************************************)
(* Code that is compiled is well formed, for every source, every byte      *)
(* width and every table of names.  Each piece of code that a rule of the  *)
(* parser writes is a segment, that takes the stack from one height to     *)
(* another: an expression leaves one value, a statement leaves the locals  *)
(* and nothing else, and a declaration the locals it adds.  Segments join  *)
(* as the rules call each other, by induction on the calls of Parse.  At   *)
(* the end of a function its code is closed, and the heights that are      *)
(* found by walking through it are those of its segments.                  *)
(***************************************************************************)
EXTENDS CompilerProofs
-----------------------------------------------------------------------------
(* Pieces of code. *)

\* A byte is too small for the place of the name of a function: the instruction
\* that declares it may name anything.  The source is ts.
Misnamed(ts, c) ==
    c.main /\ \E i \in DOMAIN c.constants : NamesFunction(ts, c.constants[i]) /\ i > ByteSize

\* The constant that operand x stands for is a name, unless that is so.
IsName(ts, c, x) == c.constants[x + 1].type = "STRING" \/ Misnamed(ts, c)

\* The machine can run the instruction at p when the stack has height h.
Runs(ts, c, p, h) ==
    /\ IsOp(c, p)
    /\ OpAt(c, p) \in ByteOperand \cup ShortOperand => Operand(c, p) \in Nat
    /\ OpAt(c, p) \in GlobalOps \cup ConstantOps => Operand(c, p) + 1 \in DOMAIN c.constants
    /\ OpAt(c, p) \in GlobalOps => IsName(ts, c, Operand(c, p))
    /\ OpAt(c, p) \in {"GET_LOCAL", "SET_LOCAL"} => Operand(c, p) \in 1 .. h - Pops(c, p) - 1
    /\ OpAt(c, p) # "RETURN" => h - Pops(c, p) >= 1
    /\ OpAt(c, p) = "RETURN" /\ c.main => h = 1

\* The height it leaves.
After(c, p, h) == h - Pops(c, p) + Pushes(c, p)

\* It goes to where that is the height, or to one of the exits.
Flows(c, p, H, exits) ==
    \A q \in Successors(c, p) :
        \/ q \in DOMAIN H /\ H[q] = After(c, p, H[p])
        \/ <<q, After(c, p, H[p])>> \in exits

\* No instruction begins inside it, and one does after it.
Clear(c, p, D) ==
    /\ NextOffset(c, p) \in D
    /\ \A r \in D : r <= p \/ r >= NextOffset(c, p)

\* H gives the heights of the instructions from a to b, and that at b.
Measures(ts, c, a, b, H, exits) ==
    /\ DOMAIN H \subseteq a .. b /\ a \in DOMAIN H /\ b \in DOMAIN H
    /\ \A p \in DOMAIN H : H[p] \in Nat \ {0}
    /\ \A p \in DOMAIN H \ {b} :
          Runs(ts, c, p, H[p]) /\ Flows(c, p, H, exits) /\ Clear(c, p, DOMAIN H)

\* The code from a to b takes the stack from height h to height k, unless it
\* leaves by an exit, which is an offset with the height there.
Segment(ts, c, a, b, h, k, exits) ==
    /\ a \in Nat /\ b \in Nat /\ a <= b /\ b <= Len(c.code)
    /\ \E H : Measures(ts, c, a, b, H, exits) /\ H[a] = h /\ H[b] = k

\* Where an instruction ends.
LEMMA NextIsLater ==
    ASSUME NEW c, NEW p \in Nat
    PROVE  NextOffset(c, p) \in {p + 1, p + 2, p + 3}
BY DEF NextOffset

\* No code leaves the stack as it is.
LEMMA SegmentIsEmpty ==
    ASSUME NEW ts, NEW c, c.code \in Seq(Nat), NEW a \in Nat, a <= Len(c.code), NEW h \in Nat \ {0}, NEW exits
    PROVE  Segment(ts, c, a, a, h, h, exits)
<1> DEFINE H == [p \in {a} |-> h]
<1>1. Measures(ts, c, a, a, H, exits)
  BY DEF Measures
<1>2. H[a] = h
  OBVIOUS
<1> HIDE DEF H
<1> QED BY <1>1, <1>2 DEF Segment

LEMMA SegmentHeights ==
    ASSUME NEW ts, NEW c, NEW a, NEW b, NEW h, NEW k, NEW exits, Segment(ts, c, a, b, h, k, exits)
    PROVE  h \in Nat \ {0} /\ k \in Nat \ {0} /\ a \in Nat /\ b \in Nat /\ a <= b /\ b <= Len(c.code)
BY DEF Segment, Measures

\* One piece after another.
LEMMA SegmentsJoin ==
    ASSUME NEW ts, NEW c, NEW a, NEW b, NEW d, NEW h, NEW k, NEW m, NEW exits,
           Segment(ts, c, a, b, h, k, exits), Segment(ts, c, b, d, k, m, exits)
    PROVE  Segment(ts, c, a, d, h, m, exits)
<1>1. PICK H : Measures(ts, c, a, b, H, exits) /\ H[a] = h /\ H[b] = k
  BY DEF Segment
<1>2. PICK I : Measures(ts, c, b, d, I, exits) /\ I[b] = k /\ I[d] = m
  BY DEF Segment
<1>3. a \in Nat /\ b \in Nat /\ d \in Nat /\ a <= b /\ b <= d /\ d <= Len(c.code)
  BY DEF Segment
<1> DEFINE J == [p \in DOMAIN H \cup DOMAIN I |-> IF p < b THEN H[p] ELSE I[p]]
<1>4. DOMAIN J = DOMAIN H \cup DOMAIN I
  OBVIOUS
<1>5. DOMAIN H \subseteq a .. b /\ a \in DOMAIN H /\ b \in DOMAIN H
  BY <1>1 DEF Measures
<1>6. DOMAIN I \subseteq b .. d /\ b \in DOMAIN I /\ d \in DOMAIN I
  BY <1>2 DEF Measures
<1>7. \A p \in DOMAIN H : J[p] = H[p]
  <2> TAKE p \in DOMAIN H
  <2>1. p < b \/ p = b
    BY <1>3, <1>5
  <2> QED BY <1>1, <1>2, <1>3, <2>1
<1>8. \A p \in DOMAIN I : J[p] = I[p]
  BY <1>3, <1>6
<1> HIDE DEF J
<1>9. ASSUME NEW p \in DOMAIN J PROVE J[p] \in Nat \ {0}
  BY <1>1, <1>2, <1>4, <1>7, <1>8, <1>9 DEF Measures
<1>10. ASSUME NEW p \in DOMAIN H, p # b
       PROVE  Runs(ts, c, p, J[p]) /\ Flows(c, p, J, exits) /\ Clear(c, p, DOMAIN J)
  <2>1. Runs(ts, c, p, H[p]) /\ Flows(c, p, H, exits) /\ Clear(c, p, DOMAIN H)
    BY <1>1, <1>10 DEF Measures
  <2>2. J[p] = H[p]
    BY <1>7, <1>10
  <2>3. Flows(c, p, J, exits)
    BY <1>4, <1>7, <2>1, <2>2 DEF Flows
  <2>4. Clear(c, p, DOMAIN J)
    <3>1. NextOffset(c, p) \in DOMAIN J /\ NextOffset(c, p) \in a .. b
      BY <1>4, <1>5, <2>1 DEF Clear
    <3>2. ASSUME NEW r \in DOMAIN J PROVE r <= p \/ r >= NextOffset(c, p)
      <4>1. CASE r \in DOMAIN H
        BY <2>1, <4>1 DEF Clear
      <4>2. CASE r \in DOMAIN I
        <5>1. r \in b .. d
          BY <1>6, <4>2
        <5> QED BY <1>3, <3>1, <5>1
      <4> QED BY <1>4, <4>1, <4>2
    <3> QED BY <3>1, <3>2 DEF Clear
  <2> QED BY <2>1, <2>2, <2>3, <2>4
<1>11. ASSUME NEW p \in DOMAIN I, p # d
       PROVE  Runs(ts, c, p, J[p]) /\ Flows(c, p, J, exits) /\ Clear(c, p, DOMAIN J)
  <2>1. Runs(ts, c, p, I[p]) /\ Flows(c, p, I, exits) /\ Clear(c, p, DOMAIN I)
    BY <1>2, <1>11 DEF Measures
  <2>2. J[p] = I[p]
    BY <1>8, <1>11
  <2>3. Flows(c, p, J, exits)
    BY <1>4, <1>8, <2>1, <2>2 DEF Flows
  <2>4. Clear(c, p, DOMAIN J)
    <3>1. NextOffset(c, p) \in DOMAIN J
      BY <1>4, <2>1 DEF Clear
    <3>2. ASSUME NEW r \in DOMAIN J PROVE r <= p \/ r >= NextOffset(c, p)
      <4>1. CASE r \in DOMAIN H
        <5>1. r \in a .. b /\ p \in b .. d
          BY <1>5, <1>6, <4>1
        <5> QED BY <1>3, <5>1
      <4>2. CASE r \in DOMAIN I
        BY <2>1, <4>2 DEF Clear
      <4> QED BY <1>4, <4>1, <4>2
    <3> QED BY <3>1, <3>2 DEF Clear
  <2> QED BY <2>1, <2>2, <2>3, <2>4
<1>12. DOMAIN J \subseteq a .. d /\ a \in DOMAIN J /\ d \in DOMAIN J
  BY <1>3, <1>4, <1>5, <1>6
<1>13. ASSUME NEW p \in DOMAIN J \ {d}
       PROVE  Runs(ts, c, p, J[p]) /\ Flows(c, p, J, exits) /\ Clear(c, p, DOMAIN J)
  <2>1. CASE p \in DOMAIN I
    BY <1>11, <1>13, <2>1
  <2>2. CASE p \notin DOMAIN I
    <3>1. p \in DOMAIN H /\ p # b
      BY <1>4, <1>6, <1>13, <2>2
    <3> QED BY <1>10, <3>1
  <2> QED BY <2>1, <2>2
<1>14. Measures(ts, c, a, d, J, exits)
  BY <1>9, <1>12, <1>13 DEF Measures
<1>15. J[a] = h /\ J[d] = m
  BY <1>1, <1>2, <1>5, <1>6, <1>7, <1>8
<1> QED BY <1>3, <1>14, <1>15 DEF Segment

\* More exits do no harm, and those to where the piece begins or ends are none.
LEMMA SegmentWithExits ==
    ASSUME NEW ts, NEW c, NEW a, NEW b, NEW h, NEW k, NEW exits, NEW more,
           Segment(ts, c, a, b, h, k, exits),
           exits \subseteq more \cup {<<a, h>>, <<b, k>>}
    PROVE  Segment(ts, c, a, b, h, k, more)
<1>1. PICK H : Measures(ts, c, a, b, H, exits) /\ H[a] = h /\ H[b] = k
  BY DEF Segment
<1>2. ASSUME NEW p \in DOMAIN H \ {b} PROVE Flows(c, p, H, more)
  <2>1. Flows(c, p, H, exits)
    BY <1>1, <1>2 DEF Measures
  <2>2. a \in DOMAIN H /\ b \in DOMAIN H
    BY <1>1 DEF Measures
  <2>3. ASSUME NEW q \in Successors(c, p)
        PROVE  \/ q \in DOMAIN H /\ H[q] = After(c, p, H[p])
               \/ <<q, After(c, p, H[p])>> \in more
    <3> DEFINE g == After(c, p, H[p])
    <3>1. (q \in DOMAIN H /\ H[q] = g) \/ <<q, g>> \in exits
      BY <2>1, <2>3 DEF Flows
    <3> HIDE DEF g
    <3>2. <<q, g>> = <<a, h>> => q = a /\ g = h
      OBVIOUS
    <3>3. <<q, g>> = <<b, k>> => q = b /\ g = k
      OBVIOUS
    <3>4. (q \in DOMAIN H /\ H[q] = g) \/ <<q, g>> \in more
      BY <1>1, <2>2, <3>1, <3>2, <3>3
    <3> QED BY <3>4 DEF g
  <2> QED BY <2>3 DEF Flows
<1>3. Measures(ts, c, a, b, H, more)
  BY <1>1, <1>2 DEF Measures
<1> QED BY <1>1, <1>3 DEF Segment

\* One instruction.
LEMMA SegmentOfOne ==
    ASSUME NEW ts, NEW c, NEW a \in Nat, NEW b, b = NextOffset(c, a), b <= Len(c.code),
           NEW h \in Nat \ {0}, NEW k \in Nat \ {0}, NEW exits, Runs(ts, c, a, h),
           \A q \in Successors(c, a) :
              (q = b /\ k = After(c, a, h)) \/ <<q, After(c, a, h)>> \in exits
    PROVE  Segment(ts, c, a, b, h, k, exits)
<1> DEFINE H == [p \in {a, b} |-> IF p = a THEN h ELSE k]
<1>1. b \in Nat /\ a < b
  BY NextIsLater
<1>2. DOMAIN H = {a, b} /\ H[a] = h /\ H[b] = k
  BY <1>1
<1> HIDE DEF H
<1>3. Flows(c, a, H, exits)
  BY <1>2 DEF Flows
<1>4. Clear(c, a, DOMAIN H)
  BY <1>1, <1>2 DEF Clear
<1>5. Measures(ts, c, a, b, H, exits)
  BY <1>1, <1>2, <1>3, <1>4 DEF Measures
<1> QED BY <1>1, <1>2, <1>5 DEF Segment

\* The sequence t is s and perhaps more.
Begins(s, t) == Len(s) <= Len(t) /\ \A i \in 1 .. Len(s) : t[i] = s[i]

\* The bytes of c from a to b are those of d.
SameCode(c, d, a, b) == \A i \in a + 1 .. b : d.code[i] = c.code[i]

\* Bytes that stay are the same instruction.
LEMMA SameInstruction ==
    ASSUME NEW ts, NEW c, NEW d, NEW a \in Nat, NEW b \in Nat, SameCode(c, d, a, b),
           c.main = d.main, c.constants \in Seq(Value), d.constants \in Seq(Value),
           Begins(c.constants, d.constants),
           NEW p \in a .. b, NextOffset(c, p) <= b, NEW h \in Nat, Runs(ts, c, p, h)
    PROVE  /\ Runs(ts, d, p, h)
           /\ NextOffset(d, p) = NextOffset(c, p)
           /\ Successors(d, p) = Successors(c, p)
           /\ After(d, p, h) = After(c, p, h)
<1>1. p \in Nat /\ NextOffset(c, p) \in {p + 1, p + 2, p + 3}
  BY NextIsLater
<1>2. p + 1 \in a + 1 .. b
  BY <1>1
<1>3. Byte(d, p) = Byte(c, p)
  BY <1>2 DEF Byte, SameCode
<1>4. IsOp(d, p) /\ OpAt(d, p) = OpAt(c, p)
  BY <1>3 DEF IsOp, OpAt, Runs
<1>5. NextOffset(d, p) = NextOffset(c, p)
  BY <1>4 DEF NextOffset
<1>6. OpAt(c, p) \in ByteOperand \cup ShortOperand => Operand(d, p) = Operand(c, p)
  <2>1. CASE OpAt(c, p) \in ShortOperand
    <3>1. NextOffset(c, p) = p + 3
      BY <2>1 DEF NextOffset
    <3>2. p + 1 + 1 \in a + 1 .. b /\ p + 2 + 1 \in a + 1 .. b
      BY <1>1, <3>1
    <3>3. Byte(d, p + 1) = Byte(c, p + 1) /\ Byte(d, p + 2) = Byte(c, p + 2)
      BY <3>2 DEF Byte, SameCode
    <3> QED BY <1>4, <2>1, <3>3 DEF Operand
  <2>2. CASE OpAt(c, p) \notin ShortOperand /\ OpAt(c, p) \in ByteOperand
    <3>1. NextOffset(c, p) = p + 2
      BY <2>2 DEF NextOffset
    <3>2. p + 1 + 1 \in a + 1 .. b
      BY <1>1, <3>1
    <3>3. Byte(d, p + 1) = Byte(c, p + 1)
      BY <3>2 DEF Byte, SameCode
    <3> QED BY <1>4, <2>2, <3>3 DEF Operand
  <2> QED BY <2>1, <2>2
<1>7. Pops(d, p) = Pops(c, p) /\ Pushes(d, p) = Pushes(c, p)
  <2>1. "CALL" \in ByteOperand /\ "ARRAY" \in ByteOperand
    BY DEF ByteOperand
  <2> QED BY <1>4, <1>6, <2>1 DEF Pops, Pushes
<1>8. Successors(d, p) = Successors(c, p)
  <2>1. "JUMP" \in ShortOperand /\ "JUMP_BACK" \in ShortOperand /\ ConditionalJumps \subseteq ShortOperand
    BY DEF ShortOperand, ConditionalJumps
  <2> QED BY <1>4, <1>5, <1>6, <2>1 DEF Successors
<1>9. OpAt(c, p) \in GlobalOps \cup ConstantOps =>
         /\ Operand(d, p) + 1 \in DOMAIN d.constants
         /\ ConstantAt(d, p) = ConstantAt(c, p)
  <2> SUFFICES ASSUME OpAt(c, p) \in GlobalOps \cup ConstantOps
               PROVE  /\ Operand(d, p) + 1 \in DOMAIN d.constants
                      /\ ConstantAt(d, p) = ConstantAt(c, p)
    OBVIOUS
  <2>1. GlobalOps \cup ConstantOps \subseteq ByteOperand \cup ShortOperand
    BY DEF GlobalOps, ConstantOps, DeclGlobalOps, GetGlobalOps, SetGlobalOps, ByteOperand, ShortOperand
  <2>2. Operand(d, p) = Operand(c, p)
    BY <1>6, <2>1
  <2>3. Operand(c, p) + 1 \in 1 .. Len(c.constants)
    BY DEF Runs
  <2>4. Len(c.constants) \in Nat /\ Len(d.constants) \in Nat /\ DOMAIN d.constants = 1 .. Len(d.constants)
    OBVIOUS
  <2>5. Operand(c, p) + 1 \in 1 .. Len(d.constants)
    BY <2>3, <2>4 DEF Begins
  <2> QED BY <2>2, <2>3, <2>4, <2>5 DEF Begins, ConstantAt
<1>10. {"GET_LOCAL", "SET_LOCAL"} \subseteq ByteOperand
  BY DEF ByteOperand
<1>11. Misnamed(ts, c) => Misnamed(ts, d)
  BY DEF Misnamed, Begins
<1>12. OpAt(c, p) \in GlobalOps => IsName(ts, d, Operand(d, p))
  <2>1. GlobalOps \subseteq ByteOperand \cup ShortOperand
    BY DEF GlobalOps, DeclGlobalOps, GetGlobalOps, SetGlobalOps, ByteOperand, ShortOperand
  <2> QED BY <1>6, <1>9, <1>11, <2>1 DEF IsName, Runs, ConstantAt
<1>13. Runs(ts, d, p, h)
  BY <1>4, <1>6, <1>7, <1>9, <1>10, <1>12 DEF Runs
<1> QED BY <1>5, <1>7, <1>8, <1>13 DEF After

\* A piece of code stays what it is while constants are added, and other code
\* is written.
LEMMA SegmentStays ==
    ASSUME NEW ts, NEW c, NEW d, NEW a, NEW b, NEW h, NEW k, NEW exits, Segment(ts, c, a, b, h, k, exits),
           SameCode(c, d, a, b), b <= Len(d.code), c.main = d.main,
           c.constants \in Seq(Value), d.constants \in Seq(Value),
           Begins(c.constants, d.constants)
    PROVE  Segment(ts, d, a, b, h, k, exits)
<1>1. PICK H : Measures(ts, c, a, b, H, exits) /\ H[a] = h /\ H[b] = k
  BY DEF Segment
<1>2. a \in Nat /\ b \in Nat
  BY DEF Segment
<1>3. ASSUME NEW p \in DOMAIN H \ {b}
      PROVE  Runs(ts, d, p, H[p]) /\ Flows(d, p, H, exits) /\ Clear(d, p, DOMAIN H)
  <2>1. Runs(ts, c, p, H[p]) /\ Flows(c, p, H, exits) /\ Clear(c, p, DOMAIN H) /\ H[p] \in Nat
    BY <1>1 DEF Measures
  <2>2. p \in a .. b /\ NextOffset(c, p) <= b
    BY <1>1, <2>1 DEF Measures, Clear
  <2>3. /\ Runs(ts, d, p, H[p]) /\ NextOffset(d, p) = NextOffset(c, p)
        /\ Successors(d, p) = Successors(c, p) /\ After(d, p, H[p]) = After(c, p, H[p])
    BY <1>2, <2>1, <2>2, SameInstruction
  <2> QED BY <2>1, <2>3 DEF Flows, Clear
<1>4. Measures(ts, d, a, b, H, exits)
  BY <1>1, <1>3 DEF Measures
<1> QED BY <1>1, <1>4 DEF Segment
-----------------------------------------------------------------------------
(* The heights that are found are those of the code. *)

\* All the code of a function: it ends with the instruction that leaves it.
Closed(ts, fn) ==
    \E b \in Nat, k \in Nat :
        /\ Len(fn.code) = b + 1
        /\ Segment(ts, fn, 0, b, fn.arity + 1, k, {})
        /\ Runs(ts, fn, b, k) /\ OpAt(fn, b) = "RETURN"

\* H gives the heights of a function of which no instruction leads out.
Charts(ts, fn, H) ==
    /\ DOMAIN H \subseteq 0 .. Len(fn.code) - 1
    /\ 0 \in DOMAIN H /\ H[0] = fn.arity + 1
    /\ \A p \in DOMAIN H :
          /\ H[p] \in Nat \ {0} /\ Runs(ts, fn, p, H[p])
          /\ \A q \in Successors(fn, p) : q \in DOMAIN H /\ H[q] = After(fn, p, H[p])

\* The offsets in D tile the code of a function: instructions begin there, each
\* where another ends, and the last is the last byte.
Tiled(fn, D) ==
    /\ D \subseteq 0 .. Len(fn.code) - 1 /\ 0 \in D
    /\ \A p \in D : IsOp(fn, p)
    /\ \A p \in D : Clear(fn, p, D) \/ (NextOffset(fn, p) = Len(fn.code) /\ \A r \in D : r <= p)

\* The heights of closed code are those of a tiling.
LEMMA ClosedIsTiled ==
    ASSUME NEW ts, NEW fn, Closed(ts, fn)
    PROVE  \E H : Charts(ts, fn, H) /\ Tiled(fn, DOMAIN H)
<1>1. PICK b \in Nat, k \in Nat :
          /\ Len(fn.code) = b + 1
          /\ Segment(ts, fn, 0, b, fn.arity + 1, k, {})
          /\ Runs(ts, fn, b, k) /\ OpAt(fn, b) = "RETURN"
  BY DEF Closed
<1>2. PICK H : Measures(ts, fn, 0, b, H, {}) /\ H[0] = fn.arity + 1 /\ H[b] = k
  BY <1>1 DEF Segment
<1>3. Successors(fn, b) = {} /\ NextOffset(fn, b) = b + 1
  BY <1>1 DEF Successors, NextOffset, ShortOperand, ByteOperand
<1>4. ASSUME NEW p \in DOMAIN H
      PROVE  /\ H[p] \in Nat \ {0} /\ Runs(ts, fn, p, H[p])
             /\ \A q \in Successors(fn, p) : q \in DOMAIN H /\ H[q] = After(fn, p, H[p])
  <2>1. H[p] \in Nat \ {0}
    BY <1>2 DEF Measures
  <2>2. CASE p = b
    BY <1>1, <1>2, <1>3, <2>1, <2>2
  <2>3. CASE p # b
    <3>1. Runs(ts, fn, p, H[p]) /\ Flows(fn, p, H, {})
      BY <1>2, <2>3 DEF Measures
    <3> QED BY <2>1, <3>1 DEF Flows
  <2> QED BY <2>2, <2>3
<1>5. DOMAIN H \subseteq 0 .. b /\ 0 \in DOMAIN H
  BY <1>2 DEF Measures
<1>6. DOMAIN H \subseteq 0 .. Len(fn.code) - 1
  BY <1>1, <1>5
<1>7. Charts(ts, fn, H)
  BY <1>2, <1>4, <1>5, <1>6 DEF Charts
<1>8. ASSUME NEW p \in DOMAIN H
      PROVE  Clear(fn, p, DOMAIN H) \/ (NextOffset(fn, p) = Len(fn.code) /\ \A r \in DOMAIN H : r <= p)
  <2>1. CASE p = b
    BY <1>1, <1>3, <1>5, <2>1
  <2>2. CASE p # b
    BY <1>2, <2>2 DEF Measures
  <2> QED BY <2>1, <2>2
<1>9. Tiled(fn, DOMAIN H)
  BY <1>4, <1>5, <1>6, <1>8 DEF Tiled, Runs
<1> QED BY <1>7, <1>9

\* Closed code has a chart of its heights.
LEMMA ClosedHasChart ==
    ASSUME NEW ts, NEW fn, Closed(ts, fn)
    PROVE  \E H : Charts(ts, fn, H)
BY ClosedIsTiled

\* The definition of Rounds is a recursion: f is Rounds for as many as n.
RoundsUpTo(fn, f, n) ==
    /\ f[0] = [all |-> Start(fn), last |-> Start(fn)]
    /\ \A k \in 1 .. n : f[k] = Round(fn, f[k - 1])

\* The definition of Rounds is a recursion over rounds, that has a value.
LEMMA RoundsUpToExists ==
    ASSUME NEW fn, NEW n \in Nat
    PROVE  \E f : RoundsUpTo(fn, f, n)
<1> DEFINE T == {k \in Nat : \E f : RoundsUpTo(fn, f, k)}
<1>1. 0 \in T
  <2> DEFINE f == [k \in {0} |-> [all |-> Start(fn), last |-> Start(fn)]]
  <2>1. RoundsUpTo(fn, f, 0)
    BY DEF RoundsUpTo
  <2> QED BY <2>1
<1>2. ASSUME NEW k \in Nat, k \in T PROVE k + 1 \in T
  <2>1. PICK f : RoundsUpTo(fn, f, k)
    BY <1>2
  <2> DEFINE g == [j \in 0 .. k + 1 |-> IF j = k + 1 THEN Round(fn, f[k]) ELSE f[j]]
  <2>2. g[0] = [all |-> Start(fn), last |-> Start(fn)]
    BY <2>1 DEF RoundsUpTo
  <2>3. ASSUME NEW j \in 1 .. k + 1 PROVE g[j] = Round(fn, g[j - 1])
    <3>1. CASE j = k + 1
      <4>1. g[j] = Round(fn, f[k])
        BY <3>1
      <4>2. j - 1 = k /\ g[k] = f[k]
        BY <3>1
      <4> QED BY <4>1, <4>2
    <3>2. CASE j # k + 1
      <4>1. j \in 1 .. k /\ j - 1 \in 0 .. k
        BY <3>2
      <4>2. g[j] = f[j] /\ g[j - 1] = f[j - 1]
        BY <4>1
      <4> QED BY <2>1, <4>1, <4>2 DEF RoundsUpTo
    <3> QED BY <3>1, <3>2
  <2> HIDE DEF g
  <2>4. RoundsUpTo(fn, g, k + 1)
    BY <2>2, <2>3 DEF RoundsUpTo
  <2> QED BY <2>4
<1> HIDE DEF T
<1>3. Nat \subseteq T
  BY <1>1, <1>2, NatSetInduction
<1> QED BY <1>3 DEF T

LEMMA RoundsUpToUnique ==
    ASSUME NEW fn, NEW m \in Nat, NEW n \in Nat, NEW f, NEW g,
           RoundsUpTo(fn, f, m), RoundsUpTo(fn, g, n), NEW i \in Nat, i <= m, i <= n
    PROVE  f[i] = g[i]
<1> DEFINE T == {k \in Nat : k <= m /\ k <= n => f[k] = g[k]}
<1>1. 0 \in T
  BY DEF RoundsUpTo
<1>2. ASSUME NEW k \in Nat, k \in T PROVE k + 1 \in T
  <2> SUFFICES ASSUME k + 1 <= m, k + 1 <= n PROVE f[k + 1] = g[k + 1]
    OBVIOUS
  <2>1. f[k] = g[k]
    BY <1>2
  <2>2. k + 1 \in 1 .. m /\ k + 1 \in 1 .. n /\ (k + 1) - 1 = k
    OBVIOUS
  <2>3. f[k + 1] = Round(fn, f[k]) /\ g[k + 1] = Round(fn, g[k])
    BY <2>2 DEF RoundsUpTo
  <2> QED BY <2>1, <2>3
<1> HIDE DEF T
<1>3. Nat \subseteq T
  BY <1>1, <1>2, NatSetInduction
<1> QED BY <1>3 DEF T

\* What a round finds.
LEMMA RoundsUnfold ==
    ASSUME NEW fn
    PROVE  /\ Rounds(fn)[0] = [all |-> Start(fn), last |-> Start(fn)]
           /\ \A n \in Nat : Rounds(fn)[n + 1] = Round(fn, Rounds(fn)[n])
<1> DEFINE first == [all |-> Start(fn), last |-> Start(fn)]
           Good(f) == f = [n \in Nat |-> IF n = 0 THEN first ELSE Round(fn, f[n - 1])]
           chosen(n) == CHOOSE f : RoundsUpTo(fn, f, n)
           limit == [n \in Nat |-> chosen(n)[n]]
<1>1. \A n \in Nat : RoundsUpTo(fn, chosen(n), n)
  BY RoundsUpToExists
<1> HIDE DEF chosen
<1>2. limit[0] = first
  BY <1>1 DEF RoundsUpTo
<1>3. ASSUME NEW n \in Nat PROVE limit[n + 1] = Round(fn, limit[n])
  <2>1. RoundsUpTo(fn, chosen(n), n) /\ RoundsUpTo(fn, chosen(n + 1), n + 1)
    BY <1>1
  <2>2. chosen(n + 1)[n] = chosen(n)[n]
    BY <2>1, RoundsUpToUnique
  <2>3. n + 1 \in 1 .. n + 1 /\ (n + 1) - 1 = n
    OBVIOUS
  <2>4. chosen(n + 1)[n + 1] = Round(fn, chosen(n + 1)[n])
    BY <2>1, <2>3 DEF RoundsUpTo
  <2> QED BY <2>2, <2>4
<1>4. limit = [n \in Nat |-> limit[n]]
  OBVIOUS
<1> HIDE DEF limit
<1>5. \A n \in Nat : limit[n] = IF n = 0 THEN first ELSE Round(fn, limit[n - 1])
  <2> TAKE n \in Nat
  <2>1. CASE n = 0
    BY <1>2, <2>1
  <2>2. CASE n # 0
    <3>1. n - 1 \in Nat /\ (n - 1) + 1 = n
      BY <2>2
    <3>2. limit[(n - 1) + 1] = Round(fn, limit[n - 1])
      BY <1>3, <3>1
    <3> QED BY <2>2, <3>1, <3>2
  <2> QED BY <2>1, <2>2
<1>6. Good(limit)
  BY <1>4, <1>5
<1>7. Rounds(fn) = CHOOSE f : Good(f)
  BY DEF Rounds
<1> HIDE DEF Good
<1>8. Good(Rounds(fn))
  BY <1>6, <1>7
<1>9. Rounds(fn) = [n \in Nat |-> IF n = 0 THEN first ELSE Round(fn, Rounds(fn)[n - 1])]
  BY <1>8 DEF Good
<1>10. ASSUME NEW n \in Nat PROVE Rounds(fn)[n + 1] = Round(fn, Rounds(fn)[n])
  <2>1. n + 1 \in Nat /\ n + 1 # 0 /\ (n + 1) - 1 = n
    OBVIOUS
  <2> QED BY <1>9, <2>1
<1> QED BY <1>9, <1>10

Graph(H) == {<<p, H[p]>> : p \in DOMAIN H}

LEMMA GraphIsFinite ==
    ASSUME NEW ts, NEW fn, fn.code \in Seq(Nat), NEW H, Charts(ts, fn, H)
    PROVE  IsFiniteSet(Graph(H)) /\ Cardinality(Graph(H)) <= Len(fn.code)
<1> DEFINE f == [p \in DOMAIN H |-> <<p, H[p]>>]
<1>1. Len(fn.code) \in Nat
  OBVIOUS
<1>2. DOMAIN H \in SUBSET (0 .. Len(fn.code) - 1)
  BY DEF Charts
<1>3. /\ IsFiniteSet(0 .. Len(fn.code) - 1)
      /\ Cardinality(0 .. Len(fn.code) - 1) <= Len(fn.code)
  <2>1. 0 \in Int /\ Len(fn.code) - 1 \in Int
    BY <1>1
  <2>2. /\ IsFiniteSet(0 .. Len(fn.code) - 1)
        /\ Cardinality(0 .. Len(fn.code) - 1) =
              IF 0 > Len(fn.code) - 1 THEN 0 ELSE Len(fn.code) - 1 - 0 + 1
    BY <2>1, FS_Interval
  <2> QED BY <1>1, <2>2
<1>4. IsFiniteSet(DOMAIN H) /\ Cardinality(DOMAIN H) <= Cardinality(0 .. Len(fn.code) - 1)
  BY <1>2, <1>3, FS_Subset
<1>5. f \in Surjection(DOMAIN H, Graph(H))
  BY DEF Surjection, Graph
<1> HIDE DEF f
<1>6. IsFiniteSet(Graph(H)) /\ Cardinality(Graph(H)) <= Cardinality(DOMAIN H)
  BY <1>4, <1>5, FS_Surjection
<1>7. /\ Cardinality(Graph(H)) \in Nat /\ Cardinality(DOMAIN H) \in Nat
      /\ Cardinality(0 .. Len(fn.code) - 1) \in Nat
  BY <1>3, <1>4, <1>6, FS_CardinalityType
<1> QED BY <1>1, <1>3, <1>4, <1>6, <1>7

\* What is found in one round more is on the chart.
LEMMA OnwardIsCharted ==
    ASSUME NEW ts, NEW fn, fn.code \in Seq(Nat), NEW H, Charts(ts, fn, H), NEW p \in DOMAIN H
    PROVE  /\ Onward(fn, p, H[p]) \subseteq Graph(H)
           /\ \A q \in Successors(fn, p) : <<q, H[q]>> \in Onward(fn, p, H[p])
<1>1. p \in 0 .. Len(fn.code) - 1 /\ Len(fn.code) \in Nat /\ DOMAIN fn.code = 1 .. Len(fn.code)
  BY DEF Charts
<1>2. p + 1 \in DOMAIN fn.code
  BY <1>1
<1>3. IsOp(fn, p)
  BY DEF Charts, Runs
<1>4. Onward(fn, p, H[p]) = {<<q, After(fn, p, H[p])>> : q \in Successors(fn, p)}
  BY <1>2, <1>3 DEF Onward, After
<1>5. \A q \in Successors(fn, p) : q \in DOMAIN H /\ H[q] = After(fn, p, H[p])
  BY DEF Charts
<1> QED BY <1>4, <1>5 DEF Graph

\* What a round has found, and that it found one more than there were rounds
\* unless nothing was left to be found.
Found(fn, H, round, n) ==
    /\ round.all \subseteq Graph(H) /\ round.last \subseteq round.all /\ Start(fn) \subseteq round.all
    /\ \A r \in round.all \ round.last : Onward(fn, r[1], r[2]) \subseteq round.all
    /\ round.last = {} \/ Cardinality(round.all) >= n + 1

LEMMA FoundFirst ==
    ASSUME NEW ts, NEW fn, NEW H, Charts(ts, fn, H)
    PROVE  Found(fn, H, [all |-> Start(fn), last |-> Start(fn)], 0)
<1>1. Start(fn) \subseteq Graph(H)
  BY DEF Start, Graph, Charts
<1>2. Cardinality(Start(fn)) = 1
  BY FS_Singleton DEF Start
<1> QED BY <1>1, <1>2 DEF Found

LEMMA FoundNext ==
    ASSUME NEW ts, NEW fn, fn.code \in Seq(Nat), NEW H, Charts(ts, fn, H), NEW n \in Nat, NEW round,
           Found(fn, H, round, n)
    PROVE  Found(fn, H, Round(fn, round), n + 1)
<1> DEFINE new == (UNION {Onward(fn, r[1], r[2]) : r \in round.last}) \ round.all
           all == round.all \cup new
<1>1. Round(fn, round) = [all |-> all, last |-> new]
  BY DEF Round
<1>2. \A r \in round.all : Onward(fn, r[1], r[2]) \subseteq Graph(H)
  <2> TAKE r \in round.all
  <2>1. PICK p \in DOMAIN H : r = <<p, H[p]>>
    BY DEF Found, Graph
  <2>2. r[1] = p /\ r[2] = H[p]
    BY <2>1
  <2> QED BY <2>2, OnwardIsCharted
<1>3. new \subseteq Graph(H)
  BY <1>2 DEF Found
<1>4. all \subseteq Graph(H) /\ new \subseteq all /\ Start(fn) \subseteq all
  BY <1>3 DEF Found
<1>5. ASSUME NEW r \in all \ new PROVE Onward(fn, r[1], r[2]) \subseteq all
  <2>1. r \in round.all
    BY <1>5
  <2>2. CASE r \in round.last
    BY <2>2
  <2>3. CASE r \notin round.last
    BY <2>1, <2>3 DEF Found
  <2> QED BY <2>2, <2>3
<1>6. new = {} \/ Cardinality(all) >= (n + 1) + 1
  <2> SUFFICES ASSUME new # {} PROVE Cardinality(all) >= (n + 1) + 1
    OBVIOUS
  <2>1. round.last # {}
    OBVIOUS
  <2>2. Cardinality(round.all) >= n + 1
    BY <2>1 DEF Found
  <2>3. PICK x \in new : TRUE
    OBVIOUS
  <2>4. x \notin round.all
    OBVIOUS
  <2> HIDE DEF new
  <2>5. IsFiniteSet(Graph(H))
    BY GraphIsFinite
  <2>6. IsFiniteSet(all) /\ IsFiniteSet(round.all)
    <3>1. all \in SUBSET Graph(H) /\ round.all \in SUBSET Graph(H)
      BY <1>4
    <3> QED BY <2>5, <3>1, FS_Subset
  <2>7. Cardinality(round.all \cup {x}) = Cardinality(round.all) + 1
    BY <2>4, <2>6, FS_AddElement
  <2>8. round.all \cup {x} \in SUBSET all
    OBVIOUS
  <2>9. Cardinality(round.all \cup {x}) <= Cardinality(all)
    BY <2>6, <2>8, FS_Subset
  <2>10. Cardinality(round.all) \in Nat /\ Cardinality(all) \in Nat
    BY <2>6, FS_CardinalityType
  <2> HIDE DEF all
  <2> QED BY <2>2, <2>7, <2>9, <2>10
<1> HIDE DEF new, all
<1> QED BY <1>1, <1>4, <1>5, <1>6 DEF Found

\* After as many rounds as there are bytes nothing more is found.
LEMMA ReachedIsClosed ==
    ASSUME NEW ts, NEW fn, fn.code \in Seq(Nat), NEW H, Charts(ts, fn, H)
    PROVE  /\ Reached(fn) \subseteq Graph(H)
           /\ Start(fn) \subseteq Reached(fn)
           /\ \A r \in Reached(fn) : Onward(fn, r[1], r[2]) \subseteq Reached(fn)
<1> DEFINE T == {n \in Nat : Found(fn, H, Rounds(fn)[n], n)}
           round == Rounds(fn)[Len(fn.code)]
<1>1. 0 \in T
  BY RoundsUnfold, FoundFirst
<1>2. ASSUME NEW n \in Nat, n \in T PROVE n + 1 \in T
  <2>1. Rounds(fn)[n + 1] = Round(fn, Rounds(fn)[n])
    BY RoundsUnfold
  <2>2. Found(fn, H, Round(fn, Rounds(fn)[n]), n + 1)
    BY <1>2, FoundNext
  <2> QED BY <2>1, <2>2
<1> HIDE DEF T
<1>3. Nat \subseteq T
  BY <1>1, <1>2, NatSetInduction
<1>4. Len(fn.code) \in Nat
  OBVIOUS
<1>5. Found(fn, H, round, Len(fn.code))
  BY <1>3, <1>4 DEF T
<1> HIDE DEF round
<1>6. round.last = {}
  <2>1. IsFiniteSet(Graph(H)) /\ Cardinality(Graph(H)) <= Len(fn.code)
    BY GraphIsFinite
  <2>2. round.all \in SUBSET Graph(H)
    BY <1>5 DEF Found
  <2>3. IsFiniteSet(round.all) /\ Cardinality(round.all) <= Cardinality(Graph(H))
    BY <2>1, <2>2, FS_Subset
  <2>4. Cardinality(round.all) \in Nat /\ Cardinality(Graph(H)) \in Nat
    BY <2>1, <2>3, FS_CardinalityType
  <2> QED BY <1>4, <1>5, <2>1, <2>3, <2>4 DEF Found
<1>7. Reached(fn) = round.all
  BY DEF Reached, round
<1> QED BY <1>5, <1>6, <1>7 DEF Found

\* HeightsOf finds the height of every offset it reaches.
LEMMA HeightsChart ==
    ASSUME NEW ts, NEW fn, fn.code \in Seq(Nat), Closed(ts, fn)
    PROVE  Charts(ts, fn, HeightsOf(fn))
<1>1. PICK H : Charts(ts, fn, H)
  BY ClosedHasChart
<1> DEFINE R == Reached(fn)
           I == HeightsOf(fn)
<1>2. R \subseteq Graph(H) /\ Start(fn) \subseteq R /\ \A r \in R : Onward(fn, r[1], r[2]) \subseteq R
  BY <1>1, ReachedIsClosed
<1>3. I = [p \in {r[1] : r \in R} |-> (CHOOSE r \in R : r[1] = p)[2]]
  BY DEF HeightsOf
<1> HIDE DEF R, I
<1>4. ASSUME NEW r \in R PROVE r[1] \in DOMAIN H /\ r = <<r[1], H[r[1]]>> /\ r[1] \in DOMAIN I
  BY <1>2, <1>3 DEF Graph
<1>5. ASSUME NEW p \in DOMAIN I PROVE p \in DOMAIN H /\ I[p] = H[p] /\ <<p, H[p]>> \in R
  <2>1. PICK r \in R : r[1] = p
    BY <1>3
  <2> DEFINE s == CHOOSE x \in R : x[1] = p
  <2>2. s \in R /\ s[1] = p
    BY <2>1
  <2>3. I[p] = s[2]
    BY <1>3
  <2> HIDE DEF s
  <2>4. s = <<p, H[p]>> /\ p \in DOMAIN H
    BY <1>4, <2>2
  <2> QED BY <2>2, <2>3, <2>4
<1>6. ASSUME NEW p \in DOMAIN I, NEW q \in Successors(fn, p)
      PROVE  q \in DOMAIN I /\ I[q] = After(fn, p, I[p])
  <2>1. p \in DOMAIN H /\ I[p] = H[p] /\ <<p, H[p]>> \in R
    BY <1>5
  <2>2. <<q, H[q]>> \in Onward(fn, p, H[p])
    BY <1>1, <2>1, OnwardIsCharted
  <2>3. <<q, H[q]>> \in R
    BY <1>2, <2>1, <2>2
  <2>4. q \in DOMAIN I /\ I[q] = H[q]
    BY <1>4, <1>5, <2>3
  <2> QED BY <1>1, <2>1, <2>4 DEF Charts
<1>7. 0 \in DOMAIN I /\ I[0] = fn.arity + 1
  <2>1. <<0, fn.arity + 1>> \in R
    BY <1>2 DEF Start
  <2>2. 0 \in DOMAIN I
    BY <1>4, <2>1
  <2> QED BY <1>1, <1>5, <2>2 DEF Charts
<1>8. ASSUME NEW p \in DOMAIN I PROVE p \in 0 .. Len(fn.code) - 1 /\ I[p] \in Nat \ {0} /\ Runs(ts, fn, p, I[p])
  BY <1>1, <1>5 DEF Charts
<1>9. Charts(ts, fn, I)
  BY <1>6, <1>7, <1>8 DEF Charts
<1> QED BY <1>9 DEF I

\* A function all of whose constants are in order is well formed.
LEMMA ClosedIsWellFormed ==
    ASSUME NEW fn \in Compiled, Closed(<<>>, fn), NEW program, fn.main => fn.arity = 0,
           \A i \in DOMAIN fn.constants : WellFormedConstant(fn.constants[i], program)
    PROVE  WellFormedFunction(WithHeight(fn), program)
<1> DEFINE g == WithHeight(fn)
<1>1. /\ fn.code \in Seq(Nat) /\ fn.arity \in Nat
  BY DEF Compiled
<1>2. /\ g.code = fn.code /\ g.constants = fn.constants /\ g.main = fn.main /\ g.arity = fn.arity
      /\ g.height = HeightsOf(fn)
  BY DEF WithHeight
<1>3. Charts(<<>>, fn, HeightsOf(fn))
  BY <1>1, HeightsChart
<1> HIDE DEF g
<1>4. ASSUME NEW p \in DOMAIN g.height
      PROVE  g.height[p] \in Nat \ {0} /\ WellFormedAt(g, p)
  <2> DEFINE h == g.height[p]
  <2>1. /\ h \in Nat \ {0} /\ Runs(<<>>, fn, p, h)
        /\ \A q \in Successors(fn, p) : q \in DOMAIN g.height /\ g.height[q] = After(fn, p, h)
    BY <1>2, <1>3 DEF Charts
  <2>2. /\ IsOp(g, p) <=> IsOp(fn, p)
        /\ OpAt(g, p) = OpAt(fn, p) /\ Operand(g, p) = Operand(fn, p)
        /\ ConstantAt(g, p) = ConstantAt(fn, p)
        /\ Pops(g, p) = Pops(fn, p) /\ Pushes(g, p) = Pushes(fn, p)
        /\ Successors(g, p) = Successors(fn, p)
    <3>1. /\ IsOp(g, p) <=> IsOp(fn, p)
          /\ OpAt(g, p) = OpAt(fn, p) /\ Operand(g, p) = Operand(fn, p)
      BY <1>2 DEF IsOp, OpAt, Operand, Byte
    <3>2. NextOffset(g, p) = NextOffset(fn, p)
      BY <3>1 DEF NextOffset
    <3> QED BY <1>2, <3>1, <3>2 DEF ConstantAt, Pops, Pushes, Successors
  <2> HIDE DEF h
  <2>3. ~Misnamed(<<>>, fn)
    BY DEF Misnamed, NamesFunction
  <2>4. OpAt(fn, p) \in GlobalOps => ConstantAt(fn, p).type = "STRING"
    BY <2>1, <2>3 DEF Runs, IsName, ConstantAt
  <2>5. OperandFits(g, p)
    BY <1>2, <2>1, <2>2, <2>4 DEF OperandFits, Runs, h
  <2>6. WellFormedAt(g, p)
    BY <1>2, <2>1, <2>2, <2>5 DEF WellFormedAt, Runs, After, h
  <2> QED BY <2>1, <2>6 DEF h
<1>5. DOMAIN g.height \subseteq Nat /\ 0 \in DOMAIN g.height /\ g.height[0] = g.arity + 1
  <2>1. Len(fn.code) \in Nat
    BY <1>1
  <2> QED BY <1>2, <1>3, <2>1 DEF Charts
<1>6. WellFormedFunction(g, program)
  BY <1>1, <1>2, <1>4, <1>5 DEF WellFormedFunction
<1> QED BY <1>6 DEF g
-----------------------------------------------------------------------------
(* What the parser adds to the code. *)

\* The parser of the source ts has found no error.
Healthy(ts, p) == ~p.errored /\ p.tokens = ts

\* A constant is a number, a string, or a function that is complete.
ValidConstant(v, base, functions) ==
    /\ v.type \in {"NUMBER", "STRING", "FUNCTION"}
    /\ v.type = "STRING" => v.as \in Strings
    /\ v.type = "FUNCTION" =>
          v.as - base \in DOMAIN functions /\ ~functions[v.as - base].main
ValidConstants(constants, base, functions) ==
    \A i \in DOMAIN constants : ValidConstant(constants[i], base, functions)
ValidFunctions(ts, base, functions) ==
    \A i \in DOMAIN functions :
        /\ Closed(ts, functions[i]) /\ ~functions[i].main
        /\ ValidConstants(functions[i].constants, base, functions)
Sane(ts, p) ==
    ValidFunctions(ts, p.base, p.functions) /\ ValidConstants(p.c.constants, p.base, p.functions)

\* A parser that has found no error has made no mistake.
Safe(ts, p) == Fine(p) /\ (Healthy(ts, p) => Sane(ts, p))

\* What has been written stays.
Keeps(p, q) ==
    /\ Begins(p.c.code, q.c.code) /\ Begins(p.c.constants, q.c.constants)
    /\ Begins(p.functions, q.functions) /\ q.c.arity = p.c.arity

\* What is written between p and q takes the stack from height h to height k.
Adds(ts, p, q, h, k) ==
    /\ Keeps(p, q) /\ Sane(ts, q) /\ q.c.locals = p.c.locals
    /\ Segment(ts, q.c, Len(p.c.code), Len(q.c.code), h, k, {})
Writes(ts, p, q, h, k) == Follows(p, q) /\ (Healthy(ts, q) => Adds(ts, p, q, h, k))

LEMMA FineTypes ==
    ASSUME NEW p, Fine(p)
    PROVE  /\ p.c.code \in Seq(Nat) /\ Len(p.c.code) \in Nat
           /\ p.c.constants \in Seq(Value) /\ Len(p.c.constants) \in Nat
           /\ p.functions \in Seq(Compiled) /\ Len(p.functions) \in Nat
           /\ p.c.locals \in Seq(Local) /\ Len(p.c.locals) \in Nat
           /\ p.c.arity \in Nat /\ p.c.scope_depth \in Nat /\ p.c.main \in BOOLEAN
           /\ p \in Parser /\ p.c \in FunctionCompiler
<1>1. p \in Parser /\ p.c \in FunctionCompiler /\ p.functions \in Seq(Compiled)
  BY DEF Fine, Parser
<1>2. /\ p.c.code \in Seq(Nat) /\ p.c.constants \in Seq(Value) /\ p.c.locals \in Seq(Local)
      /\ p.c.arity \in Nat /\ p.c.scope_depth \in Nat /\ p.c.main \in BOOLEAN
  BY <1>1 DEF FunctionCompiler
<1> QED BY <1>1, <1>2

LEMMA BeginsItself == ASSUME NEW S, NEW s \in Seq(S) PROVE Begins(s, s)
BY DEF Begins

LEMMA BeginsOn ==
    ASSUME NEW S, NEW s \in Seq(S), NEW t \in Seq(S), NEW u \in Seq(S), Begins(s, t), Begins(t, u)
    PROVE  Begins(s, u)
BY DEF Begins

LEMMA BeginsItems ==
    ASSUME NEW S, NEW s \in Seq(S), NEW t \in Seq(S), Begins(s, t), NEW i \in DOMAIN s
    PROVE  i \in DOMAIN t /\ t[i] = s[i]
BY DEF Begins

LEMMA BeginsAppended ==
    ASSUME NEW S, NEW s \in Seq(S), NEW t \in Seq(S)
    PROVE  Begins(s, s \o t)
BY DEF Begins

LEMMA AppendedItems ==
    ASSUME NEW S, NEW s \in Seq(S), NEW t \in Seq(S)
    PROVE  /\ Len(s \o t) = Len(s) + Len(t)
           /\ \A i \in 1 .. Len(t) : (s \o t)[Len(s) + i] = t[i]
           /\ \A i \in 1 .. Len(s) : (s \o t)[i] = s[i]
OBVIOUS

LEMMA KeepsItself == ASSUME NEW p, Fine(p) PROVE Keeps(p, p)
BY FineTypes, BeginsItself DEF Keeps

LEMMA KeepsOn ==
    ASSUME NEW p, NEW q, NEW r, Fine(p), Fine(q), Fine(r), Keeps(p, q), Keeps(q, r)
    PROVE  Keeps(p, r)
<1>1. Begins(p.c.code, r.c.code)
  BY FineTypes, BeginsOn DEF Keeps
<1>2. Begins(p.c.constants, r.c.constants)
  BY FineTypes, BeginsOn DEF Keeps
<1>3. Begins(p.functions, r.functions)
  BY FineTypes, BeginsOn DEF Keeps
<1> QED BY <1>1, <1>2, <1>3 DEF Keeps

\* No error is lost.
LEMMA HealthyBefore ==
    ASSUME NEW ts, NEW p, NEW q, Follows(p, q), Healthy(ts, q)
    PROVE  Healthy(ts, p)
BY DEF Healthy, Follows

\* A segment is one in longer code too.
LEMMA SegmentAfter ==
    ASSUME NEW q, NEW r, Fine(q), Follows(q, r), Keeps(q, r)
    PROVE  \A ts, a, b, h, k, exits :
              Segment(ts, q.c, a, b, h, k, exits) => Segment(ts, r.c, a, b, h, k, exits)
<1> SUFFICES ASSUME NEW ts, NEW a, NEW b, NEW h, NEW k, NEW exits,
                    Segment(ts, q.c, a, b, h, k, exits)
             PROVE  Segment(ts, r.c, a, b, h, k, exits)
  OBVIOUS
<1>1. Fine(r) /\ r.c.main = q.c.main
  BY DEF Follows
<1>2. a \in Nat /\ b \in Nat /\ b <= Len(q.c.code)
  BY DEF Segment
<1>3. Len(q.c.code) \in Nat /\ Len(r.c.code) \in Nat /\ Len(q.c.code) <= Len(r.c.code)
  BY <1>1, FineTypes DEF Keeps, Begins
<1>4. SameCode(q.c, r.c, a, b)
  BY <1>2, <1>3 DEF SameCode, Keeps, Begins
<1>5. /\ q.c.constants \in Seq(Value) /\ r.c.constants \in Seq(Value)
      /\ Begins(q.c.constants, r.c.constants)
  BY <1>1, FineTypes DEF Keeps
<1>6. b <= Len(r.c.code)
  BY <1>2, <1>3
<1> QED BY <1>1, <1>4, <1>5, <1>6, SegmentStays

LEMMA AddsOn ==
    ASSUME NEW ts, NEW p, NEW q, NEW r, Fine(p), Fine(q), Follows(q, r), NEW h, NEW k, NEW m,
           Adds(ts, p, q, h, k), Adds(ts, q, r, k, m)
    PROVE  Adds(ts, p, r, h, m)
<1>1. Fine(r)
  BY DEF Follows
<1>2. Keeps(p, r)
  BY <1>1, KeepsOn DEF Adds
<1>3. Segment(ts, r.c, Len(p.c.code), Len(q.c.code), h, k, {})
  BY SegmentAfter DEF Adds
<1>4. Segment(ts, r.c, Len(p.c.code), Len(r.c.code), h, m, {})
  BY <1>3, SegmentsJoin DEF Adds
<1> QED BY <1>2, <1>4 DEF Adds

\* What is written by one step and then by another.
LEMMA WritesOn ==
    ASSUME NEW ts, NEW p, NEW q, NEW r, Fine(p), NEW h, NEW k, NEW m,
           Writes(ts, p, q, h, k), Writes(ts, q, r, k, m)
    PROVE  Writes(ts, p, r, h, m)
<1>1. Follows(p, q) /\ Follows(q, r) /\ Fine(q)
  BY DEF Writes, Follows
<1>2. Follows(p, r)
  BY <1>1, FollowsOn
<1>3. ASSUME Healthy(ts, r) PROVE Adds(ts, p, r, h, m)
  <2>1. Adds(ts, q, r, k, m)
    BY <1>3 DEF Writes
  <2>2. Healthy(ts, q)
    BY <1>1, <1>3, <2>1, HealthyBefore DEF Adds, Keeps
  <2>3. Adds(ts, p, q, h, k)
    BY <2>2 DEF Writes
  <2> QED BY <1>1, <2>1, <2>3, AddsOn
<1> QED BY <1>2, <1>3 DEF Writes

LEMMA SafeAfter ==
    ASSUME NEW ts, NEW p, NEW q, NEW h, NEW k, Writes(ts, p, q, h, k)
    PROVE  Safe(ts, q)
BY DEF Writes, Safe, Adds, Follows

\* A step after which there is an error need not be looked at any more.
LEMMA WritesError ==
    ASSUME NEW ts, NEW p, NEW q, Follows(p, q), q.errored, NEW h, NEW k
    PROVE  Writes(ts, p, q, h, k)
BY DEF Writes, Healthy

\* A step that writes nothing.
LEMMA WritesNothing ==
    ASSUME NEW ts, NEW p, NEW q, Safe(ts, p), Follows(p, q), q.c = p.c, q.functions = p.functions,
           NEW h \in Nat \ {0}
    PROVE  Writes(ts, p, q, h, h)
<1>1. Fine(p) /\ Fine(q)
  BY DEF Safe, Follows
<1>2. Keeps(p, q)
  BY <1>1, KeepsItself DEF Keeps
<1>3. ASSUME Healthy(ts, q) PROVE Adds(ts, p, q, h, h)
  <2>1. Healthy(ts, p)
    BY <1>1, <1>2, <1>3, HealthyBefore DEF Keeps
  <2>2. Sane(ts, q)
    BY <2>1 DEF Safe, Sane, Follows
  <2>3. Segment(ts, q.c, Len(p.c.code), Len(q.c.code), h, h, {})
    <3>1. p.c.code \in Seq(Nat) /\ Len(p.c.code) \in Nat
      BY <1>1, FineTypes
    <3>2. Segment(ts, p.c, Len(p.c.code), Len(p.c.code), h, h, {})
      BY <3>1, SegmentIsEmpty
    <3> QED BY <3>2
  <2> QED BY <1>2, <2>2, <2>3 DEF Adds
<1> QED BY <1>3 DEF Writes

LEMMA AdvanceWrites ==
    ASSUME NEW ts, NEW p, Safe(ts, p), NEW h \in Nat \ {0}
    PROVE  Writes(ts, p, Advance(p), h, h)
<1>1. Fine(p)
  BY DEF Safe
<1>2. Follows(p, Advance(p)) /\ Advance(p).c = p.c /\ Advance(p).functions = p.functions
  BY <1>1, AdvanceReads, AdvanceFollows
<1> QED BY <1>2, WritesNothing

LEMMA SyntaxErrorWrites ==
    ASSUME NEW ts, NEW p, Fine(p), NEW h, NEW k
    PROVE  Writes(ts, p, SyntaxError(p), h, k)
BY SyntaxErrorFollows, WritesError

LEMMA ConsumeWrites ==
    ASSUME NEW ts, NEW p, Safe(ts, p), NEW type, NEW h \in Nat \ {0}
    PROVE  Writes(ts, p, Consume(p, type), h, h)
<1>1. Fine(p)
  BY DEF Safe
<1>2. CASE Check(p, type)
  BY <1>2, AdvanceWrites DEF Consume
<1>3. CASE ~Check(p, type)
  BY <1>1, <1>3, ErrorAtCurrentFollows, WritesError DEF Consume
<1> QED BY <1>2, <1>3

\* A constant that is registered is there, and those before it are.
LEMMA RegisterConstantFields ==
    ASSUME NEW p, Fine(p), NEW v \in Value
    PROVE  LET q == RegisterConstant(p, v)
           IN  /\ q.c.code = p.c.code /\ q.c.locals = p.c.locals /\ q.c.arity = p.c.arity
               /\ q.c.main = p.c.main /\ q.c.scope_depth = p.c.scope_depth
               /\ q.functions = p.functions /\ q.errored = p.errored
               /\ q.current = p.current /\ q.previous = p.previous
               /\ Begins(p.c.constants, q.c.constants)
               /\ \A i \in DOMAIN q.c.constants : i \in DOMAIN p.c.constants \/ q.c.constants[i] = v
               /\ ConstantIndex(p, v) + 1 \in DOMAIN q.c.constants
               /\ q.c.constants[ConstantIndex(p, v) + 1] = v
<1> DEFINE q == RegisterConstant(p, v)
           index == ConstantIndex(p, v)
           n == Len(p.c.constants)
<1>1. /\ p.c.constants \in Seq(Value) /\ n \in Nat /\ p \in Parser /\ p.c \in FunctionCompiler
  BY FineTypes
<1>2. DOMAIN p.c.constants = 1 .. n
  BY <1>1
<1>3. index \in Nat /\ index <= n /\ (index < n => p.c.constants[index + 1] = v)
  BY ConstantIndexIsNat
<1>4. CASE index < n
  <2>1. q = p
    BY <1>4 DEF RegisterConstant
  <2>2. index + 1 \in 1 .. n
    BY <1>1, <1>3, <1>4
  <2> HIDE DEF q, index
  <2> QED BY <1>1, <1>2, <1>3, <1>4, <2>1, <2>2, BeginsItself DEF q, index
<1>5. CASE ~(index < n)
  <2> DEFINE constants == Append(p.c.constants, v)
             c == [p.c EXCEPT !.constants = constants]
  <2>1. q = With(p, c)
    BY <1>5 DEF RegisterConstant, With
  <2>2. Len(constants) = n + 1 /\ DOMAIN constants = 1 .. n + 1 /\ constants[n + 1] = v
        /\ \A i \in 1 .. n : constants[i] = p.c.constants[i]
    BY <1>1
  <2> HIDE DEF constants
  <2>3. /\ c.code = p.c.code /\ c.locals = p.c.locals /\ c.arity = p.c.arity /\ c.main = p.c.main
        /\ c.scope_depth = p.c.scope_depth /\ c.constants = constants
    BY <1>1 DEF FunctionCompiler
  <2> HIDE DEF c
  <2>4. /\ q.c = c /\ q.errored = p.errored /\ q.current = p.current /\ q.previous = p.previous
        /\ q.functions = p.functions
    BY <1>1, <2>1 DEF With, Parser
  <2>5. Begins(p.c.constants, constants)
    BY <1>1, <2>2 DEF Begins
  <2>6. index = n
    BY <1>1, <1>3, <1>5
  <2>7. index + 1 \in DOMAIN constants /\ constants[index + 1] = v
    BY <1>1, <2>2, <2>6
  <2>8. \A i \in DOMAIN constants : i \in DOMAIN p.c.constants \/ constants[i] = v
    BY <1>1, <1>2, <2>2
  <2> HIDE DEF q, index
  <2> QED BY <2>3, <2>4, <2>5, <2>7, <2>8 DEF q, index
<1> QED BY <1>4, <1>5

LEMMA RegisterConstantWrites ==
    ASSUME NEW ts, NEW p, Safe(ts, p), NEW v \in Value, ValidConstant(v, p.base, p.functions),
           NEW h \in Nat \ {0}
    PROVE  Writes(ts, p, RegisterConstant(p, v), h, h)
<1> DEFINE q == RegisterConstant(p, v)
<1>1. Fine(p) /\ Follows(p, q) /\ Fine(q)
  BY RegisterConstantFollows DEF Safe, Follows
<1>2. /\ q.c.code = p.c.code /\ q.c.locals = p.c.locals /\ q.c.arity = p.c.arity
      /\ q.functions = p.functions
      /\ Begins(p.c.constants, q.c.constants)
      /\ \A i \in DOMAIN q.c.constants : i \in DOMAIN p.c.constants \/ q.c.constants[i] = v
  BY <1>1, RegisterConstantFields
<1> HIDE DEF q
<1>3. Keeps(p, q)
  BY <1>1, <1>2, FineTypes, BeginsItself DEF Keeps
<1>4. ASSUME Healthy(ts, q) PROVE Adds(ts, p, q, h, h)
  <2>1. Healthy(ts, p)
    BY <1>1, <1>2, <1>4, HealthyBefore
  <2>2. Sane(ts, p) /\ q.base = p.base
    BY <1>1, <2>1 DEF Safe, Follows
  <2>3. ASSUME NEW i \in DOMAIN q.c.constants
        PROVE  ValidConstant(q.c.constants[i], q.base, q.functions)
    <3>1. CASE q.c.constants[i] = v
      BY <1>2, <2>2, <3>1
    <3>2. CASE q.c.constants[i] # v
      <4>1. i \in DOMAIN p.c.constants
        BY <1>2, <3>2
      <4>2. i \in 1 .. Len(p.c.constants)
        BY <1>1, <4>1, FineTypes
      <4>3. q.c.constants[i] = p.c.constants[i]
        BY <1>2, <4>2 DEF Begins
      <4> QED BY <1>2, <2>2, <4>1, <4>3 DEF Sane, ValidConstants
    <3> QED BY <3>1, <3>2
  <2>4. Sane(ts, q)
    BY <1>2, <2>2, <2>3 DEF Sane, ValidConstants
  <2>5. Segment(ts, q.c, Len(p.c.code), Len(q.c.code), h, h, {})
    <3>1. q.c.code \in Seq(Nat) /\ Len(q.c.code) \in Nat
      BY <1>1, FineTypes
    <3>2. Segment(ts, q.c, Len(q.c.code), Len(q.c.code), h, h, {})
      BY <3>1, SegmentIsEmpty
    <3> QED BY <1>2, <3>2
  <2> QED BY <1>2, <1>3, <2>4, <2>5 DEF Adds
<1>5. Writes(ts, p, q, h, h)
  BY <1>1, <1>4 DEF Writes
<1> QED BY <1>5 DEF q
-----------------------------------------------------------------------------
(* Instructions. *)

\* The instruction at a is op with that operand, if it has one.
Holds(c, a, op, x, next) ==
    /\ IsOp(c, a) /\ OpAt(c, a) = op /\ NextOffset(c, a) = next
    /\ op \in ByteOperand \cup ShortOperand => Operand(c, a) = x

\* What an operation that does not jump takes from the stack and puts on it.
Takes(op, x) ==
    IF op \in DeclGlobalOps \cup UnaryOps \cup {"POP", "RETURN"} THEN 1
    ELSE IF op \in SetGlobalOps \cup ConditionalJumps \cup {"SET_LOCAL"} THEN 1
    ELSE IF op \in BinaryOps \cup {"SUBSCRIPT_GET"} THEN 2
    ELSE IF op = "SUBSCRIPT_SET" THEN 3
    ELSE IF op = "CALL" THEN x + 1
    ELSE IF op = "ARRAY" THEN x
    ELSE 0
Gives(op) == IF op \in DeclGlobalOps \cup {"POP", "JUMP", "JUMP_BACK"} THEN 0 ELSE 1

LEMMA HoldsEffect ==
    ASSUME NEW c, NEW a, NEW op, NEW x, NEW next, Holds(c, a, op, x, next)
    PROVE  Pops(c, a) = Takes(op, x) /\ Pushes(c, a) = Gives(op)
<1>1. "CALL" \in ByteOperand /\ "ARRAY" \in ByteOperand
  BY DEF ByteOperand
<1> QED BY <1>1 DEF Holds, Pops, Takes, Pushes, Gives

Jumps == {"JUMP", "JUMP_BACK", "RETURN"} \cup ConditionalJumps

\* An instruction after which the machine goes on to the next one.
LEMMA StraightSegment ==
    ASSUME NEW ts, NEW c, NEW a \in Nat, NEW op, NEW x \in Nat, NEW next, Holds(c, a, op, x, next),
           op \notin Jumps, next <= Len(c.code), NEW h \in Nat, h - Takes(op, x) >= 1,
           op \in GlobalOps \cup ConstantOps => x + 1 \in DOMAIN c.constants,
           op \in GlobalOps => IsName(ts, c, x),
           op \in {"GET_LOCAL", "SET_LOCAL"} => x \in 1 .. h - Takes(op, x) - 1
    PROVE  Segment(ts, c, a, next, h, h - Takes(op, x) + Gives(op), {})
<1>1. Pops(c, a) = Takes(op, x) /\ Pushes(c, a) = Gives(op)
  BY HoldsEffect
<1>2. GlobalOps \cup ConstantOps \cup {"GET_LOCAL", "SET_LOCAL"} \subseteq ByteOperand \cup ShortOperand
  BY DEF GlobalOps, ConstantOps, DeclGlobalOps, GetGlobalOps, SetGlobalOps, ByteOperand, ShortOperand
<1>3. Runs(ts, c, a, h)
  BY <1>1, <1>2 DEF Runs, Holds, Jumps, ConstantAt
<1>4. Successors(c, a) = {next}
  BY DEF Successors, Holds, Jumps
<1>5. Takes(op, x) \in Nat /\ Gives(op) \in Nat
  BY DEF Takes, Gives
<1>6. h \in Nat \ {0} /\ h - Takes(op, x) + Gives(op) \in Nat \ {0}
  BY <1>5
<1>7. h - Takes(op, x) + Gives(op) = After(c, a, h)
  BY <1>1 DEF After
<1>8. next = NextOffset(c, a)
  BY DEF Holds
<1> QED BY <1>3, <1>4, <1>6, <1>7, <1>8, SegmentOfOne

\* The bytes of an instruction.
LEMMA HoldsOp ==
    ASSUME NEW c, NEW a \in Nat, NEW op \in Ops, c.code[a + 1] = Code(op)
    PROVE  /\ IsOp(c, a) /\ OpAt(c, a) = op
           /\ op \notin ByteOperand \cup ShortOperand => \A x : Holds(c, a, op, x, a + 1)
           /\ op \in ByteOperand => Holds(c, a, op, c.code[a + 2], a + 2)
           /\ op \in ShortOperand =>
                 Holds(c, a, op, c.code[a + 2] * ByteSize + c.code[a + 3], a + 3)
<1>1. Code(op) + 1 \in DOMAIN OpCodes /\ OpCodes[Code(op) + 1] = op
  BY CodeOfOp
<1>2. IsOp(c, a) /\ OpAt(c, a) = op
  BY <1>1 DEF IsOp, OpAt, Byte
<1>3. op \notin ByteOperand \cup ShortOperand => NextOffset(c, a) = a + 1
  BY <1>2 DEF NextOffset
<1>4. ByteOperand \cap ShortOperand = {}
  BY DEF ByteOperand, ShortOperand
<1>5. a + 1 + 1 = a + 2 /\ a + 2 + 1 = a + 3
  OBVIOUS
<1>6. op \in ByteOperand => NextOffset(c, a) = a + 2 /\ Operand(c, a) = c.code[a + 2]
  BY <1>2, <1>4, <1>5 DEF NextOffset, Operand, Byte
<1>7. op \in ShortOperand =>
         NextOffset(c, a) = a + 3 /\ Operand(c, a) = c.code[a + 2] * ByteSize + c.code[a + 3]
  BY <1>2, <1>5 DEF NextOffset, Operand, Byte
<1> QED BY <1>2, <1>3, <1>6, <1>7 DEF Holds

\* A number that fits two bytes is read back as it was written.
LEMMA TwoBytesDecode ==
    ASSUME NEW n \in Nat, n <= UINT16_MAX
    PROVE  TwoBytes(n)[1] * ByteSize + TwoBytes(n)[2] = n
<1>1. ByteSize \in Nat /\ ByteSize > 1
  BY ByteSizeIsNat
<1> DEFINE b == ByteSize
           d == n \div b
           m == n % b
<1>2. d \in Nat /\ m \in 0 .. b - 1 /\ n = b * d + m
  BY <1>1, Z3
<1>3. n < b * b
  <2>1. b * b \in Nat
    BY <1>1, Z3
  <2> QED BY <2>1 DEF UINT16_MAX
<1>4. TwoBytes(n) = << d % b, m >>
  BY DEF TwoBytes
<1> HIDE DEF b, d, m
<1>5. d < b
  <2>1. b \in Nat /\ b > 1
    BY <1>1 DEF b
  <2>2. SUFFICES ASSUME d >= b PROVE FALSE
    BY <1>2, <2>1
  <2>3. b * d >= b * b
    BY <1>2, <2>1, <2>2, Z3
  <2>4. b * d \in Nat /\ b * b \in Nat
    BY <1>2, <2>1, Z3
  <2> QED BY <1>2, <1>3, <2>1, <2>3, <2>4
<1>6. d % b = d
  BY <1>1, <1>2, <1>5, Z3 DEF b
<1>7. TwoBytes(n)[1] = d /\ TwoBytes(n)[2] = m
  BY <1>4, <1>6
<1>8. d * b + m = n
  BY <1>1, <1>2, Z3 DEF b
<1> QED BY <1>7, <1>8 DEF b
-----------------------------------------------------------------------------
(* Writing instructions. *)

LEMMA EmitFields ==
    ASSUME NEW p, Fine(p), NEW bytes \in Seq(Nat)
    PROVE  LET q == Emit(p, bytes)
           IN  /\ q.c.code = p.c.code \o bytes /\ q.c.locals = p.c.locals /\ q.c.arity = p.c.arity
               /\ q.c.main = p.c.main /\ q.c.scope_depth = p.c.scope_depth
               /\ q.c.constants = p.c.constants
               /\ q.functions = p.functions /\ q.errored = p.errored /\ q.base = p.base
               /\ q.current = p.current /\ q.previous = p.previous /\ q.tokens = p.tokens
<1> DEFINE c == [p.c EXCEPT !.code = @ \o bytes,
                            !.lines = WriteLines(@, Len(bytes), p.previous.line)]
           q == Emit(p, bytes)
<1>1. p \in Parser /\ p.c \in FunctionCompiler
  BY FineTypes
<1>2. q = With(p, c)
  BY EmitIsWith
<1>3. /\ c.code = p.c.code \o bytes /\ c.locals = p.c.locals /\ c.arity = p.c.arity
      /\ c.main = p.c.main /\ c.scope_depth = p.c.scope_depth /\ c.constants = p.c.constants
  BY <1>1 DEF FunctionCompiler
<1> HIDE DEF c, q
<1>4. /\ q.c = c /\ q.functions = p.functions /\ q.errored = p.errored /\ q.base = p.base
      /\ q.current = p.current /\ q.previous = p.previous /\ q.tokens = p.tokens
  BY <1>1, <1>2 DEF With, Parser
<1> QED BY <1>3, <1>4 DEF q

LEMMA EmittedBytes ==
    ASSUME NEW p, Fine(p), NEW bytes \in Seq(Nat)
    PROVE  \A i \in 1 .. Len(bytes) : Emit(p, bytes).c.code[Len(p.c.code) + i] = bytes[i]
<1> DEFINE s == p.c.code
<1>1. s \in Seq(Nat)
  BY FineTypes
<1>2. Emit(p, bytes).c.code = s \o bytes
  BY EmitFields
<1> HIDE DEF s
<1>3. \A i \in 1 .. Len(bytes) : (s \o bytes)[Len(s) + i] = bytes[i]
  BY ONLY <1>1, bytes \in Seq(Nat), AppendedItems
<1> QED BY <1>2, <1>3 DEF s

LEMMA EmitKeeps ==
    ASSUME NEW ts, NEW p, Fine(p), NEW bytes \in Seq(Nat)
    PROVE  LET q == Emit(p, bytes)
           IN  /\ Follows(p, q) /\ Keeps(p, q) /\ q.c.locals = p.c.locals
               /\ Len(q.c.code) = Len(p.c.code) + Len(bytes)
               /\ Healthy(ts, q) <=> Healthy(ts, p)
               /\ Sane(ts, q) <=> Sane(ts, p)
<1> DEFINE q == Emit(p, bytes)
<1>1. /\ q.c.code = p.c.code \o bytes /\ q.c.locals = p.c.locals /\ q.c.arity = p.c.arity
      /\ q.c.main = p.c.main /\ q.c.constants = p.c.constants
      /\ q.functions = p.functions /\ q.errored = p.errored /\ q.base = p.base
      /\ q.tokens = p.tokens
  BY EmitFields
<1>2. Follows(p, q)
  BY EmitFollows
<1> HIDE DEF q
<1>3. Begins(p.c.code, q.c.code) /\ Len(q.c.code) = Len(p.c.code) + Len(bytes)
  BY <1>1, FineTypes, BeginsAppended
<1>4. Keeps(p, q)
  BY <1>1, <1>3, FineTypes, BeginsItself DEF Keeps
<1> QED BY <1>1, <1>2, <1>3, <1>4 DEF Healthy, Sane, q

\* Bytes that are one instruction, after which the machine goes on.
LEMMA EmitWrites ==
    ASSUME NEW ts, NEW p, Safe(ts, p), NEW bytes \in Seq(Nat), NEW op, NEW x \in Nat, op \notin Jumps,
           Holds(Emit(p, bytes).c, Len(p.c.code), op, x, Len(p.c.code) + Len(bytes)),
           NEW h \in Nat, h - Takes(op, x) >= 1,
           Healthy(ts, p) /\ op \in GlobalOps \cup ConstantOps => x + 1 \in DOMAIN p.c.constants,
           Healthy(ts, p) /\ op \in GlobalOps => IsName(ts, p.c, x),
           Healthy(ts, p) /\ op \in {"GET_LOCAL", "SET_LOCAL"} => x \in 1 .. h - Takes(op, x) - 1
    PROVE  Writes(ts, p, Emit(p, bytes), h, h - Takes(op, x) + Gives(op))
<1> DEFINE q == Emit(p, bytes)
<1>1. Fine(p)
  BY DEF Safe
<1>2. /\ Follows(p, q) /\ Keeps(p, q) /\ q.c.locals = p.c.locals
      /\ Len(q.c.code) = Len(p.c.code) + Len(bytes)
      /\ Healthy(ts, q) => Healthy(ts, p)
      /\ Sane(ts, p) => Sane(ts, q)
      /\ q.c.constants = p.c.constants
  BY <1>1, EmitKeeps, EmitFields
<1> HIDE DEF q
<1>3. Len(p.c.code) \in Nat
  BY <1>1, FineTypes
<1>4. ASSUME Healthy(ts, q) PROVE Adds(ts, p, q, h, h - Takes(op, x) + Gives(op))
  <2>1. Healthy(ts, p) /\ Sane(ts, q)
    BY <1>2, <1>4 DEF Safe
  <2>2. Segment(ts, q.c, Len(p.c.code), Len(q.c.code), h, h - Takes(op, x) + Gives(op), {})
    <3>1. Holds(q.c, Len(p.c.code), op, x, Len(q.c.code))
      BY <1>2 DEF q
    <3>2. Len(q.c.code) <= Len(q.c.code)
      BY <1>2, <1>3
    <3>3. IsName(ts, p.c, x) => IsName(ts, q.c, x)
      BY <1>2 DEF IsName, Misnamed, Follows
    <3> QED BY <1>2, <1>3, <2>1, <3>1, <3>2, <3>3, StraightSegment
  <2> QED BY <1>2, <2>1, <2>2 DEF Adds
<1>5. Writes(ts, p, q, h, h - Takes(op, x) + Gives(op))
  BY <1>2, <1>4 DEF Writes
<1> QED BY <1>5 DEF q

\* Operations without an operand.
PlainOps == {"POP", "SUBSCRIPT_GET", "SUBSCRIPT_SET"} \cup Literals \cup UnaryOps \cup BinaryOps

LEMMA PlainOpsArePlain ==
    /\ PlainOps \subseteq Ops
    /\ PlainOps \cap (ByteOperand \cup ShortOperand \cup Jumps \cup GlobalOps \cup ConstantOps) = {}
<1>1. PlainOps \subseteq Ops
  BY OpsListed DEF PlainOps
<1>2. PlainOps \cap (ByteOperand \cup ShortOperand) = {}
  BY DEF PlainOps, ByteOperand, ShortOperand, Literals, UnaryOps, BinaryOps
<1>3. PlainOps \cap Jumps = {}
  BY DEF PlainOps, Jumps, ConditionalJumps, Literals, UnaryOps, BinaryOps
<1>4. GlobalOps \cup ConstantOps \subseteq ByteOperand \cup ShortOperand
  BY DEF GlobalOps, ConstantOps, DeclGlobalOps, GetGlobalOps, SetGlobalOps, ByteOperand, ShortOperand
<1> QED BY <1>1, <1>2, <1>3, <1>4

LEMMA EmitOpWrites ==
    ASSUME NEW ts, NEW p, Safe(ts, p), NEW op \in PlainOps, NEW h \in Nat, h - Takes(op, 0) >= 1
    PROVE  Writes(ts, p, EmitOp(p, op), h, h - Takes(op, 0) + Gives(op))
<1> DEFINE bytes == << Code(op) >>
           q == Emit(p, bytes)
<1>1. Fine(p) /\ op \in Ops /\ op \notin ByteOperand \cup ShortOperand
  BY PlainOpsArePlain DEF Safe
<1>2. bytes \in Seq(Nat) /\ Len(bytes) = 1
  BY <1>1, CodeOfOp
<1>3. p.c.code \in Seq(Nat) /\ Len(p.c.code) \in Nat
  BY <1>1, FineTypes
<1>4. q.c.code = p.c.code \o bytes
  BY <1>1, <1>2, EmitFields
<1>5. q.c.code[Len(p.c.code) + 1] = Code(op)
  BY <1>2, <1>3, <1>4
<1> HIDE DEF q
<1>6. Holds(q.c, Len(p.c.code), op, 0, Len(p.c.code) + 1)
  BY <1>1, <1>3, <1>5, HoldsOp
<1>7. op \notin Jumps /\ op \notin GlobalOps \cup ConstantOps /\ op \notin {"GET_LOCAL", "SET_LOCAL"}
  BY <1>1, PlainOpsArePlain DEF ByteOperand
<1> HIDE DEF bytes
<1>8. Writes(ts, p, Emit(p, bytes), h, h - Takes(op, 0) + Gives(op))
  BY <1>2, <1>6, <1>7, EmitWrites DEF q
<1> QED BY <1>8 DEF EmitOp, bytes

\* Operations with a byte.
LEMMA EmitByteWrites ==
    ASSUME NEW ts, NEW p, Safe(ts, p), NEW op \in ByteOperand, NEW x \in Nat, NEW h \in Nat,
           h - Takes(op, x) >= 1,
           Healthy(ts, p) /\ op \in GlobalOps \cup ConstantOps => x + 1 \in DOMAIN p.c.constants,
           Healthy(ts, p) /\ op \in GlobalOps => IsName(ts, p.c, x),
           Healthy(ts, p) /\ op \in {"GET_LOCAL", "SET_LOCAL"} => x \in 1 .. h - Takes(op, x) - 1
    PROVE  Writes(ts, p, Emit(p, << Code(op), x >>), h, h - Takes(op, x) + Gives(op))
<1> DEFINE bytes == << Code(op), x >>
           q == Emit(p, bytes)
<1>1. Fine(p) /\ op \in Ops /\ op \notin Jumps
  <2>1. ByteOperand \subseteq Ops
    BY OpsListed DEF ByteOperand, GlobalOps, DeclGlobalOps, GetGlobalOps, SetGlobalOps, ConstantOps
  <2>2. op \notin Jumps
    BY DEF ByteOperand, Jumps, ConditionalJumps
  <2> QED BY <2>1, <2>2 DEF Safe
<1>2. bytes \in Seq(Nat) /\ Len(bytes) = 2
  BY <1>1, CodeOfOp
<1>3. p.c.code \in Seq(Nat) /\ Len(p.c.code) \in Nat
  BY <1>1, FineTypes
<1>4. q.c.code = p.c.code \o bytes
  BY <1>1, <1>2, EmitFields
<1>5. q.c.code[Len(p.c.code) + 1] = Code(op) /\ q.c.code[Len(p.c.code) + 2] = x
  <2>1. bytes[1] = Code(op) /\ bytes[2] = x /\ 1 \in 1 .. Len(bytes) /\ 2 \in 1 .. Len(bytes)
    BY <1>2
  <2> HIDE DEF bytes
  <2>2. \A i \in 1 .. Len(bytes) : q.c.code[Len(p.c.code) + i] = bytes[i]
    BY <1>1, <1>2, EmittedBytes
  <2> HIDE DEF q
  <2> QED BY <2>1, <2>2
<1> HIDE DEF q
<1>6. Holds(q.c, Len(p.c.code), op, x, Len(p.c.code) + 2)
  BY <1>1, <1>3, <1>5, HoldsOp
<1> HIDE DEF bytes
<1>7. Writes(ts, p, Emit(p, bytes), h, h - Takes(op, x) + Gives(op))
  BY <1>1, <1>2, <1>6, EmitWrites DEF q
<1> QED BY <1>7 DEF bytes

\* Operations with two bytes that do not jump.
LEMMA EmitShortWrites ==
    ASSUME NEW ts, NEW p, Safe(ts, p), NEW op \in ShortOperand \ Jumps, NEW x \in Nat, x <= UINT16_MAX,
           NEW h \in Nat, h - Takes(op, x) >= 1,
           Healthy(ts, p) => x + 1 \in DOMAIN p.c.constants,
           Healthy(ts, p) /\ op \in GlobalOps => IsName(ts, p.c, x)
    PROVE  Writes(ts, p, Emit(p, << Code(op) >> \o TwoBytes(x)), h, h - Takes(op, x) + Gives(op))
<1> DEFINE bytes == << Code(op) >> \o TwoBytes(x)
           q == Emit(p, bytes)
<1>1. Fine(p) /\ op \in Ops /\ op \notin {"GET_LOCAL", "SET_LOCAL"}
  <2>1. ShortOperand \subseteq Ops
    BY OpsListed DEF ShortOperand, GlobalOps, DeclGlobalOps, GetGlobalOps, SetGlobalOps, ConstantOps
  <2>2. op \notin {"GET_LOCAL", "SET_LOCAL"}
    BY DEF ShortOperand
  <2> QED BY <2>1, <2>2 DEF Safe
<1>2. /\ TwoBytes(x) \in Seq(Nat) /\ Len(TwoBytes(x)) = 2
      /\ TwoBytes(x)[1] * ByteSize + TwoBytes(x)[2] = x
  BY TwoBytesType, TwoBytesDecode
<1>3. /\ bytes \in Seq(Nat) /\ Len(bytes) = 3 /\ bytes[1] = Code(op)
      /\ bytes[2] = TwoBytes(x)[1] /\ bytes[3] = TwoBytes(x)[2]
  <2>1. << Code(op) >> \in Seq(Nat) /\ Len(<< Code(op) >>) = 1 /\ << Code(op) >>[1] = Code(op)
    BY <1>1, CodeOfOp
  <2> DEFINE s == << Code(op) >>
             t == TwoBytes(x)
  <2>2. /\ s \in Seq(Nat) /\ Len(s) = 1 /\ s[1] = Code(op) /\ t \in Seq(Nat) /\ Len(t) = 2
    BY <1>2, <2>1
  <2>3. bytes = s \o t
    OBVIOUS
  <2> HIDE DEF s, t, bytes
  <2>7. /\ Len(s \o t) = Len(s) + Len(t)
        /\ \A i \in 1 .. Len(t) : (s \o t)[Len(s) + i] = t[i]
        /\ \A i \in 1 .. Len(s) : (s \o t)[i] = s[i]
    <3>1. s \in Seq(Nat) /\ t \in Seq(Nat)
      BY <2>2
    <3> QED BY ONLY <3>1, AppendedItems
  <2>4. /\ Len(bytes) = Len(s) + Len(t)
        /\ \A i \in 1 .. Len(t) : bytes[Len(s) + i] = t[i]
        /\ \A i \in 1 .. Len(s) : bytes[i] = s[i]
    BY <2>3, <2>7
  <2>5. bytes \in Seq(Nat)
    BY <2>2, <2>3
  <2>6. Len(bytes) = 3 /\ bytes[1] = s[1] /\ bytes[1 + 1] = t[1] /\ bytes[1 + 2] = t[2]
    BY <2>2, <2>4
  <2> QED BY <2>2, <2>5, <2>6 DEF t
<1>4. p.c.code \in Seq(Nat) /\ Len(p.c.code) \in Nat
  BY <1>1, FineTypes
<1> HIDE DEF bytes
<1>5. q.c.code = p.c.code \o bytes
  BY <1>1, <1>3, EmitFields
<1>6. /\ q.c.code[Len(p.c.code) + 1] = bytes[1] /\ q.c.code[Len(p.c.code) + 2] = bytes[2]
      /\ q.c.code[Len(p.c.code) + 3] = bytes[3]
  <2>1. \A i \in 1 .. Len(bytes) : q.c.code[Len(p.c.code) + i] = bytes[i]
    BY <1>1, <1>3, EmittedBytes
  <2>2. 1 \in 1 .. Len(bytes) /\ 2 \in 1 .. Len(bytes) /\ 3 \in 1 .. Len(bytes)
    BY <1>3
  <2> HIDE DEF q
  <2> QED BY <2>1, <2>2
<1> HIDE DEF q
<1>7. Holds(q.c, Len(p.c.code), op, x, Len(p.c.code) + 3)
  BY <1>1, <1>2, <1>3, <1>4, <1>6, HoldsOp
<1>8. Writes(ts, p, Emit(p, bytes), h, h - Takes(op, x) + Gives(op))
  BY <1>1, <1>3, <1>7, EmitWrites DEF q
<1> QED BY <1>8 DEF bytes

\* The operations that have an index, on one byte and on two.
IndexedOps ==
    { <<"CONSTANT", "CONSTANT_16">>, <<"DECL_GLOBAL", "DECL_GLOBAL_16">>,
      <<"DECL_GLOBAL_CONST", "DECL_GLOBAL_CONST_16">>, <<"GET_GLOBAL", "GET_GLOBAL_16">>,
      <<"SET_GLOBAL", "SET_GLOBAL_16">> }

LEMMA IndexedOpsEffect ==
    ASSUME NEW op, NEW op16, <<op, op16>> \in IndexedOps, NEW x
    PROVE  /\ op \in ByteOperand /\ op16 \in ShortOperand \ Jumps /\ op \in Ops /\ op16 \in Ops
           /\ op \in GlobalOps <=> op16 \in GlobalOps
           /\ op \notin {"GET_LOCAL", "SET_LOCAL"}
           /\ Takes(op, x) = Takes(op, 0) /\ Takes(op16, x) = Takes(op, 0)
           /\ Takes(op, 0) \in {0, 1}
           /\ Gives(op16) = Gives(op)
<1>1. \/ op = "CONSTANT" /\ op16 = "CONSTANT_16"
      \/ op = "DECL_GLOBAL" /\ op16 = "DECL_GLOBAL_16"
      \/ op = "DECL_GLOBAL_CONST" /\ op16 = "DECL_GLOBAL_CONST_16"
      \/ op = "GET_GLOBAL" /\ op16 = "GET_GLOBAL_16"
      \/ op = "SET_GLOBAL" /\ op16 = "SET_GLOBAL_16"
  BY DEF IndexedOps
<1>2. op \in ByteOperand /\ op16 \in ShortOperand /\ op16 \notin Jumps
  BY <1>1 DEF ByteOperand, ShortOperand, Jumps, ConditionalJumps
<1>3. op \in GlobalOps <=> op16 \in GlobalOps
  BY <1>1 DEF GlobalOps, DeclGlobalOps, GetGlobalOps, SetGlobalOps
<1>4. op \in GlobalOps \cup ConstantOps /\ op16 \in GlobalOps \cup ConstantOps
  BY <1>1 DEF GlobalOps, DeclGlobalOps, GetGlobalOps, SetGlobalOps, ConstantOps
<1>5. op \in Ops /\ op16 \in Ops
  BY <1>4, OpsListed
<1>6. Takes(op, x) = Takes(op, 0) /\ Takes(op16, x) = Takes(op, 0) /\ Takes(op, 0) \in {0, 1}
  BY <1>1 DEF Takes, DeclGlobalOps, SetGlobalOps, UnaryOps, BinaryOps, ConditionalJumps
<1>7. Gives(op16) = Gives(op)
  BY <1>1 DEF Gives, DeclGlobalOps
<1>8. op \notin {"GET_LOCAL", "SET_LOCAL"}
  BY <1>1
<1> QED BY <1>2, <1>3, <1>5, <1>6, <1>7, <1>8

LEMMA EmitIndexedWrites ==
    ASSUME NEW ts, NEW p, Safe(ts, p), NEW op, NEW op16, <<op, op16>> \in IndexedOps, NEW index \in Nat,
           NEW h \in Nat, h - Takes(op, 0) >= 1,
           Healthy(ts, p) => index + 1 \in DOMAIN p.c.constants,
           Healthy(ts, p) /\ op \in GlobalOps => IsName(ts, p.c, index)
    PROVE  Writes(ts, p, EmitIndexed(p, op, op16, index), h, h - Takes(op, 0) + Gives(op))
<1>1. /\ op \in ByteOperand /\ op16 \in ShortOperand \ Jumps /\ op \in Ops /\ op16 \in Ops
      /\ op \in GlobalOps <=> op16 \in GlobalOps
      /\ op \notin {"GET_LOCAL", "SET_LOCAL"}
      /\ Takes(op, index) = Takes(op, 0) /\ Takes(op16, index) = Takes(op, 0)
      /\ Gives(op16) = Gives(op)
  BY IndexedOpsEffect
<1>2. Fine(p)
  BY DEF Safe
<1>3. CASE index <= UINT8_MAX
  <2>1. Writes(ts, p, Emit(p, << Code(op), index >>), h, h - Takes(op, index) + Gives(op))
    BY <1>1, EmitByteWrites
  <2> QED BY <1>1, <1>3, <2>1 DEF EmitIndexed
<1>4. CASE ~(index <= UINT8_MAX) /\ index <= UINT16_MAX
  <2>1. Writes(ts, p, Emit(p, << Code(op16) >> \o TwoBytes(index)), h,
               h - Takes(op16, index) + Gives(op16))
    BY <1>1, <1>4, EmitShortWrites
  <2> QED BY <1>1, <1>4, <2>1 DEF EmitIndexed
<1>5. CASE ~(index <= UINT8_MAX) /\ ~(index <= UINT16_MAX)
  BY <1>2, <1>5, SyntaxErrorWrites DEF EmitIndexed
<1> QED BY <1>3, <1>4, <1>5

LEMMA EmitConstantWrites ==
    ASSUME NEW ts, NEW p, Safe(ts, p), NEW v \in Value, ValidConstant(v, p.base, p.functions),
           NEW h \in Nat \ {0}
    PROVE  Writes(ts, p, EmitConstant(p, v), h, h + 1)
<1> DEFINE q == RegisterConstant(p, v)
           index == ConstantIndex(p, v)
           op == "CONSTANT"
           op16 == "CONSTANT_16"
<1>1. Writes(ts, p, q, h, h) /\ Fine(p)
  BY RegisterConstantWrites DEF Safe
<1>2. Safe(ts, q)
  BY <1>1, SafeAfter
<1>3. index \in Nat /\ index + 1 \in DOMAIN q.c.constants
  BY <1>1, RegisterConstantFields, ConstantIndexIsNat
<1>4. <<op, op16>> \in IndexedOps /\ op \notin GlobalOps
  BY DEF IndexedOps, GlobalOps, DeclGlobalOps, GetGlobalOps, SetGlobalOps
<1>5. Takes(op, 0) = 0 /\ Gives(op) = 1
  BY DEF Takes, Gives, DeclGlobalOps, SetGlobalOps, UnaryOps, BinaryOps, ConditionalJumps
<1>6. EmitConstant(p, v) = EmitIndexed(q, op, op16, index)
  BY DEF EmitConstant
<1> HIDE DEF q, index, op, op16
<1>7. Writes(ts, q, EmitIndexed(q, op, op16, index), h, h - Takes(op, 0) + Gives(op))
  BY <1>2, <1>3, <1>4, <1>5, EmitIndexedWrites
<1>8. h - Takes(op, 0) + Gives(op) = h + 1
  BY <1>5
<1> QED BY <1>1, <1>6, <1>7, <1>8, WritesOn
-----------------------------------------------------------------------------
(* Jumps. *)

JumpsAhead == {"JUMP"} \cup ConditionalJumps

\* A jump of which the operand is not known yet.
LEMMA EmitJumpKeeps ==
    ASSUME NEW ts, NEW p, Safe(ts, p), NEW op \in JumpsAhead
    PROVE  LET q == EmitJump(p, op)
           IN  /\ Follows(p, q) /\ Keeps(p, q) /\ Safe(ts, q) /\ q.c.locals = p.c.locals
               /\ Healthy(ts, q) <=> Healthy(ts, p)
               /\ Len(q.c.code) = Len(p.c.code) + 3
               /\ q.c.code[Len(p.c.code) + 1] = Code(op)
               /\ JumpOffset(q) = Len(p.c.code) + 1
<1> DEFINE q == EmitOp(p, op)
           r == EmitJump(p, op)
           tail == << UINT8_MAX, UINT8_MAX >>
           head == << Code(op) >>
<1>1. op \in Ops
  BY OpsListed DEF JumpsAhead, ConditionalJumps
<1>2. head \in Seq(Nat) /\ Len(head) = 1 /\ head[1] = Code(op) /\ tail \in Seq(Nat) /\ Len(tail) = 2
  BY <1>1, CodeOfOp, ByteAssumption
<1>3. Fine(p) /\ q = Emit(p, head) /\ r = Emit(q, tail)
  BY DEF Safe, EmitOp, EmitJump
<1> HIDE DEF head, tail, q, r
<1>4. /\ Follows(p, q) /\ Keeps(p, q) /\ q.c.locals = p.c.locals
      /\ Len(q.c.code) = Len(p.c.code) + 1
      /\ Healthy(ts, q) <=> Healthy(ts, p)
      /\ Sane(ts, q) <=> Sane(ts, p)
  BY <1>2, <1>3, EmitKeeps
<1>5. q.c.code[Len(p.c.code) + 1] = Code(op)
  <2>1. 1 \in 1 .. Len(head)
    BY <1>2
  <2> QED BY <1>2, <1>3, <2>1, EmittedBytes
<1>6. Fine(q)
  BY <1>4 DEF Follows
<1>7. /\ Follows(q, r) /\ Keeps(q, r) /\ r.c.locals = q.c.locals
      /\ Len(r.c.code) = Len(q.c.code) + 2
      /\ Healthy(ts, r) <=> Healthy(ts, q)
      /\ Sane(ts, r) <=> Sane(ts, q)
  BY <1>2, <1>3, <1>6, EmitKeeps
<1>8. Fine(r)
  BY <1>7 DEF Follows
<1>9. Follows(p, r) /\ Keeps(p, r)
  BY <1>3, <1>4, <1>6, <1>7, <1>8, FollowsOn, KeepsOn
<1>10. Len(p.c.code) \in Nat
  BY <1>3, FineTypes
<1>11. r.c.code[Len(p.c.code) + 1] = Code(op)
  <2>1. Len(p.c.code) + 1 \in 1 .. Len(q.c.code)
    BY <1>4, <1>10
  <2>2. \A i \in 1 .. Len(q.c.code) : r.c.code[i] = q.c.code[i]
    BY <1>7 DEF Keeps, Begins
  <2> QED BY <1>5, <2>1, <2>2
<1>12. Len(r.c.code) = Len(p.c.code) + 3
  BY <1>4, <1>7, <1>10
<1>13. JumpOffset(r) = Len(p.c.code) + 1
  BY <1>10, <1>12 DEF JumpOffset
<1>14. Safe(ts, r)
  BY <1>4, <1>7, <1>8 DEF Safe
<1> QED BY <1>4, <1>7, <1>9, <1>11, <1>12, <1>13, <1>14 DEF r

\* Only the operand of the jump is written.
LEMMA PatchJumpFields ==
    ASSUME NEW ts, NEW p, Fine(p), NEW offset \in Nat, offset + 2 <= Len(p.c.code)
    PROVE  LET q == PatchJump(p, offset)
               jump == Len(p.c.code) - offset - 2
           IN  /\ Follows(p, q)
               /\ Len(q.c.code) = Len(p.c.code)
               /\ \A i \in 1 .. Len(p.c.code) :
                     i # offset + 1 /\ i # offset + 2 => q.c.code[i] = p.c.code[i]
               /\ q.c.code[offset + 1] = TwoBytes(jump)[1]
               /\ q.c.code[offset + 2] = TwoBytes(jump)[2]
               /\ q.c.constants = p.c.constants /\ q.c.locals = p.c.locals /\ q.c.arity = p.c.arity
               /\ q.functions = p.functions
               /\ Healthy(ts, q) => Healthy(ts, p) /\ jump <= UINT16_MAX
<1> DEFINE jump == Len(p.c.code) - offset - 2
           r == IF jump > UINT16_MAX THEN SyntaxError(p) ELSE p
           q == PatchJump(p, offset)
           code1 == Replaced(r.c.code, offset + 1, TwoBytes(jump)[1])
           code2 == Replaced(code1, offset + 2, TwoBytes(jump)[2])
           c == [r.c EXCEPT !.code = code2]
<1>1. Follows(p, q)
  BY PatchJumpFollows
<1>2. p.c.code \in Seq(Nat) /\ Len(p.c.code) \in Nat
  BY FineTypes
<1>3. jump \in Nat
  BY <1>2
<1>4. /\ r.c = p.c /\ r.functions = p.functions /\ Fine(r) /\ (jump > UINT16_MAX => r.errored)
      /\ r.tokens = p.tokens /\ (p.errored => r.errored)
  <2>1. CASE jump > UINT16_MAX
    <3>1. Follows(p, SyntaxError(p)) /\ SyntaxError(p).errored
      BY SyntaxErrorFollows
    <3>2. SyntaxError(p).c = p.c /\ SyntaxError(p).functions = p.functions
      <4>1. Begun(p) /\ p.previous \in AnyToken
        BY DEF Fine, Begun, Parser
      <4> QED BY <4>1, ErrorAtBegun DEF SyntaxError
    <3> QED BY <2>1, <3>1, <3>2 DEF Follows
  <2>2. CASE ~(jump > UINT16_MAX)
    BY <2>2
  <2> QED BY <2>1, <2>2
<1>6. q = With(r, c)
  BY <1>4, FineTypes DEF PatchJump, With, Replaced, Parser, FunctionCompiler
<1> HIDE DEF jump, r, q
<1>5. TwoBytes(jump)[1] \in Nat /\ TwoBytes(jump)[2] \in Nat
  <2>1. jump \in Int
    BY <1>3
  <2> QED BY <2>1, TwoBytesType
<1>7. /\ code1 \in Seq(Nat) /\ Len(code1) = Len(p.c.code)
      /\ \A i \in 1 .. Len(p.c.code) :
            code1[i] = IF i = offset + 1 THEN TwoBytes(jump)[1] ELSE p.c.code[i]
  BY <1>2, <1>4, <1>5, ReplacedItem, SMTT(30)
<1> HIDE DEF code1
<1>8. /\ code2 \in Seq(Nat) /\ Len(code2) = Len(p.c.code)
      /\ \A i \in 1 .. Len(p.c.code) :
            code2[i] = IF i = offset + 2 THEN TwoBytes(jump)[2] ELSE code1[i]
  <2> DEFINE low == TwoBytes(jump)[2]
             place == offset + 2
  <2>1. place \in Int /\ code1 \in Seq(Nat) /\ low \in Nat /\ code2 = Replaced(code1, place, low)
    BY <1>5, <1>7
  <2> HIDE DEF low, place, code2
  <2>2. /\ code2 \in Seq(Nat) /\ Len(code2) = Len(code1)
        /\ \A i \in 1 .. Len(code1) : code2[i] = IF i = place THEN low ELSE code1[i]
    BY <2>1, ReplacedItem
  <2> QED BY <1>7, <2>2 DEF place, low
<1> HIDE DEF code2
<1>9. /\ c.code = code2 /\ c.constants = p.c.constants /\ c.locals = p.c.locals
      /\ c.arity = p.c.arity /\ c.main = p.c.main
  BY <1>4, FineTypes DEF FunctionCompiler
<1> HIDE DEF c
<1>10. /\ q.c = c /\ q.functions = r.functions /\ q.errored = r.errored /\ q.tokens = r.tokens
  BY <1>4, <1>6, FineTypes DEF With, Parser
<1>11. offset + 1 \in 1 .. Len(p.c.code) /\ offset + 2 \in 1 .. Len(p.c.code) /\ offset + 1 # offset + 2
  BY <1>2
<1>12. /\ q.c.code[offset + 1] = TwoBytes(jump)[1]
       /\ q.c.code[offset + 2] = TwoBytes(jump)[2]
  BY <1>7, <1>8, <1>9, <1>10, <1>11
<1>13. \A i \in 1 .. Len(p.c.code) : i # offset + 1 /\ i # offset + 2 => q.c.code[i] = p.c.code[i]
  BY <1>7, <1>8, <1>9, <1>10
<1>14. Healthy(ts, q) => Healthy(ts, p) /\ jump <= UINT16_MAX
  <2>1. UINT16_MAX \in Nat
    BY ByteSizeIsNat
  <2>2. Healthy(ts, q) => ~q.errored
    BY DEF Healthy
  <2>3. Healthy(ts, q) => jump <= UINT16_MAX
    BY <1>3, <1>4, <1>10, <2>1, <2>2
  <2>4. Healthy(ts, q) => Healthy(ts, p)
    BY <1>4, <1>9, <1>10 DEF Healthy
  <2> QED BY <2>3, <2>4
<1> QED BY <1>1, <1>4, <1>8, <1>9, <1>10, <1>12, <1>13, <1>14 DEF q, jump

\* A step that has no error follows one that has none.
LEMMA WritesHealthy ==
    ASSUME NEW ts, NEW p, NEW q, Fine(p), NEW h, NEW k, Writes(ts, p, q, h, k), Healthy(ts, q)
    PROVE  Healthy(ts, p) /\ Adds(ts, p, q, h, k)
BY HealthyBefore DEF Writes, Adds, Keeps

\* No operand that is written mends a parser.
LEMMA PatchJumpHealthy ==
    ASSUME NEW ts, NEW p, Fine(p), NEW offset \in Int, Healthy(ts, PatchJump(p, offset))
    PROVE  Healthy(ts, p)
<1> DEFINE jump == Len(p.c.code) - offset - 2
           r == IF jump > UINT16_MAX THEN SyntaxError(p) ELSE p
           q == PatchJump(p, offset)
           code == [[r.c.code EXCEPT ![offset + 1] = TwoBytes(jump)[1]]
                        EXCEPT ![offset + 2] = TwoBytes(jump)[2]]
           c == [r.c EXCEPT !.code = code]
<1>1. /\ r.c = p.c /\ r \in Parser /\ r.tokens = p.tokens
  <2>1. CASE jump > UINT16_MAX
    <3>1. Follows(p, SyntaxError(p))
      BY SyntaxErrorFollows
    <3>2. SyntaxError(p).c = p.c
      <4>1. Begun(p) /\ p.previous \in AnyToken
        BY DEF Fine, Begun, Parser
      <4> QED BY <4>1, ErrorAtBegun DEF SyntaxError
    <3> QED BY <2>1, <3>1, <3>2 DEF Follows, Fine
  <2>2. CASE ~(jump > UINT16_MAX)
    BY <2>2 DEF Fine
  <2> QED BY <2>1, <2>2
<1>2. q = With(r, c)
  BY <1>1, FineTypes, ZenonT(60) DEF PatchJump, With, Parser, FunctionCompiler
<1> HIDE DEF code
<1>3. c.constants = p.c.constants /\ c.main = p.c.main
  BY <1>1, FineTypes DEF FunctionCompiler
<1>4. Follows(p, q)
  BY PatchJumpFollows
<1> HIDE DEF c, r, q
<1>5. q.c = c /\ q.tokens = p.tokens
  BY <1>1, <1>2 DEF With, Parser
<1>6. ~q.errored /\ (p.errored => q.errored)
  BY <1>4 DEF Healthy, Follows, q
<1> QED BY <1>3, <1>5, <1>6 DEF Healthy, q

\* A jump ahead goes on behind it, if it is conditional, or leaves.
LEMMA JumpSegment ==
    ASSUME NEW ts, NEW c, NEW a \in Nat, NEW op \in JumpsAhead, NEW x \in Nat,
           Holds(c, a, op, x, a + 3), a + 3 <= Len(c.code),
           NEW h \in Nat \ {0}, NEW k \in Nat \ {0},
           op \in ConditionalJumps => h > 1 /\ k = h
    PROVE  Segment(ts, c, a, a + 3, h, k, {<<a + 3 + x, h>>})
<1>1. Pops(c, a) = Takes(op, x) /\ Pushes(c, a) = Gives(op)
  BY HoldsEffect
<1>2. /\ op \in ShortOperand /\ op \notin GlobalOps \cup ConstantOps
      /\ op \notin {"GET_LOCAL", "SET_LOCAL", "RETURN", "JUMP_BACK"}
      /\ op # "JUMP" => op \in ConditionalJumps
  BY DEF JumpsAhead, ConditionalJumps, ShortOperand, GlobalOps, ConstantOps, DeclGlobalOps,
         GetGlobalOps, SetGlobalOps
<1>3. /\ op = "JUMP" => Takes(op, x) = 0 /\ Gives(op) = 0
      /\ op # "JUMP" => Takes(op, x) = 1 /\ Gives(op) = 1
  BY DEF JumpsAhead, ConditionalJumps, Takes, Gives, DeclGlobalOps, UnaryOps, SetGlobalOps, BinaryOps
<1>4. Runs(ts, c, a, h)
  BY <1>1, <1>2, <1>3 DEF Runs, Holds
<1>5. After(c, a, h) = h
  BY <1>1, <1>3 DEF After
<1>6. NextOffset(c, a) = a + 3 /\ Operand(c, a) = x /\ OpAt(c, a) = op
  BY <1>2 DEF Holds
<1>7. \A q \in Successors(c, a) : (q = a + 3 /\ k = h) \/ q = a + 3 + x
  BY <1>2, <1>6 DEF Successors
<1> QED BY <1>4, <1>5, <1>6, <1>7, SegmentOfOne

\* Between r and s only the operand of the jump at a is written.
Patched(r, s, a) ==
    /\ Fine(r) /\ Fine(s)
    /\ Len(s.c.code) = Len(r.c.code)
    /\ s.c.constants = r.c.constants /\ s.c.locals = r.c.locals /\ s.c.arity = r.c.arity
    /\ s.functions = r.functions /\ s.base = r.base /\ s.c.main = r.c.main
    /\ \A i \in 1 .. Len(r.c.code) : i \notin {a + 2, a + 3} => s.c.code[i] = r.c.code[i]

\* POP.
LEMMA PopWrites ==
    ASSUME NEW ts, NEW p, Safe(ts, p), NEW h \in Nat \ {0}
    PROVE  Writes(ts, p, EmitOp(p, "POP"), h + 1, h)
<1>1. "POP" \in PlainOps /\ Takes("POP", 0) = 1 /\ Gives("POP") = 0
  BY DEF PlainOps, Takes, Gives
<1>2. h + 1 - 1 >= 1 /\ h + 1 - 1 + 0 = h /\ h + 1 \in Nat
  OBVIOUS
<1> QED BY <1>1, <1>2, EmitOpWrites

\* What a jump becomes when its operand is known, and what the rest stays.
LEMMA JumpPatched ==
    ASSUME NEW ts, NEW r, Fine(r), NEW a \in Nat, NEW op \in JumpsAhead, a + 3 <= Len(r.c.code),
           r.c.code[a + 1] = Code(op), NEW s, s = PatchJump(r, a + 1), Healthy(ts, s)
    PROVE  /\ Healthy(ts, r) /\ Patched(r, s, a)
           /\ Holds(s.c, a, op, Len(r.c.code) - (a + 3), a + 3)
<1> DEFINE jump == Len(r.c.code) - (a + 1) - 2
<1>1. Len(r.c.code) \in Nat
  BY FineTypes
<1>2. /\ Follows(r, s)
      /\ Len(s.c.code) = Len(r.c.code)
      /\ \A i \in 1 .. Len(r.c.code) :
            i # (a + 1) + 1 /\ i # (a + 1) + 2 => s.c.code[i] = r.c.code[i]
      /\ s.c.code[(a + 1) + 1] = TwoBytes(jump)[1]
      /\ s.c.code[(a + 1) + 2] = TwoBytes(jump)[2]
      /\ s.c.constants = r.c.constants /\ s.c.locals = r.c.locals /\ s.c.arity = r.c.arity
      /\ s.functions = r.functions
      /\ Healthy(ts, r) /\ jump <= UINT16_MAX
  <2>1. a + 1 \in Nat /\ (a + 1) + 2 <= Len(r.c.code)
    BY <1>1
  <2> QED BY <2>1, PatchJumpFields
<1>3. jump \in Nat /\ jump = Len(r.c.code) - (a + 3)
  BY <1>1
<1> HIDE DEF jump
<1>4. TwoBytes(jump)[1] * ByteSize + TwoBytes(jump)[2] = jump
  BY <1>2, <1>3, TwoBytesDecode
<1>5. (a + 1) + 1 = a + 2 /\ (a + 1) + 2 = a + 3
  OBVIOUS
<1>6. s.c.code[a + 1] = Code(op)
  BY <1>1, <1>2
<1>7. op \in Ops /\ op \in ShortOperand
  BY OpsListed DEF JumpsAhead, ConditionalJumps, ShortOperand
<1>8. Holds(s.c, a, op, jump, a + 3)
  <2>1. Holds(s.c, a, op, s.c.code[a + 2] * ByteSize + s.c.code[a + 3], a + 3)
    BY <1>6, <1>7, HoldsOp
  <2> QED BY <1>2, <1>4, <1>5, <2>1
<1>9. Fine(s) /\ s.base = r.base /\ s.c.main = r.c.main
  BY <1>2 DEF Follows
<1>10. \A i \in 1 .. Len(r.c.code) : i \notin {a + 2, a + 3} => s.c.code[i] = r.c.code[i]
  BY <1>2, <1>5
<1>11. Patched(r, s, a)
  BY <1>2, <1>9, <1>10 DEF Patched
<1> QED BY <1>2, <1>3, <1>8, <1>11

\* A piece of code that does not hold the jump stays what it is.
LEMMA SegmentPatched ==
    ASSUME NEW r, NEW s, NEW a \in Nat, Patched(r, s, a)
    PROVE  \A ts, b, d, h, k, exits :
              Segment(ts, r.c, b, d, h, k, exits) /\ (d <= a \/ b >= a + 3) =>
                 Segment(ts, s.c, b, d, h, k, exits)
<1> SUFFICES ASSUME NEW ts, NEW b, NEW d, NEW h, NEW k, NEW exits,
                    Segment(ts, r.c, b, d, h, k, exits), d <= a \/ b >= a + 3
             PROVE  Segment(ts, s.c, b, d, h, k, exits)
  OBVIOUS
<1>1. b \in Nat /\ d \in Nat /\ d <= Len(r.c.code)
  BY DEF Segment
<1>2. /\ Len(r.c.code) \in Nat /\ r.c.constants \in Seq(Value) /\ s.c.constants \in Seq(Value)
      /\ d <= Len(s.c.code) /\ s.c.main = r.c.main /\ s.c.constants = r.c.constants
  BY <1>1, FineTypes DEF Patched
<1>3. SameCode(r.c, s.c, b, d)
  BY <1>1, <1>2 DEF SameCode, Patched
<1>4. Begins(r.c.constants, s.c.constants)
  BY <1>2, BeginsItself
<1> QED BY <1>2, <1>3, <1>4, SegmentStays

\* Nor does anything that was written before the jump change.
LEMMA PatchKeeps ==
    ASSUME NEW ts, NEW p, Fine(p), NEW r, NEW s, NEW a \in Nat, Patched(r, s, a), Keeps(p, r),
           Len(p.c.code) <= a
    PROVE  Keeps(p, s) /\ (Sane(ts, r) => Sane(ts, s))
<1>1. Len(p.c.code) \in Nat /\ Len(r.c.code) \in Nat
  BY FineTypes DEF Patched
<1>2. Begins(p.c.code, s.c.code)
  BY <1>1 DEF Patched, Keeps, Begins
<1> QED BY <1>2 DEF Patched, Keeps, Sane

\* The code that a conditional jump jumps over, and the jump.
LEMMA ShortCircuitWrites ==
    ASSUME NEW ts, NEW p, Safe(ts, p), NEW h \in Nat \ {0}, NEW op \in ConditionalJumps,
           NEW q, q = EmitJump(p, op), NEW r, Writes(ts, EmitOp(q, "POP"), r, h, h + 1),
           NEW s, s = PatchJump(r, JumpOffset(q))
    PROVE  Writes(ts, p, s, h + 1, h + 1)
<1> DEFINE a == Len(p.c.code)
           o == EmitOp(q, "POP")
<1>1. Fine(p) /\ op \in JumpsAhead /\ a \in Nat
  BY FineTypes DEF Safe, JumpsAhead
<1>2. /\ Follows(p, q) /\ Keeps(p, q) /\ Safe(ts, q) /\ q.c.locals = p.c.locals /\ Fine(q)
      /\ Len(q.c.code) = a + 3 /\ q.c.code[a + 1] = Code(op) /\ JumpOffset(q) = a + 1
  BY <1>1, EmitJumpKeeps DEF Follows
<1>3. Writes(ts, q, o, h + 1, h)
  BY <1>2, PopWrites
<1>4. Writes(ts, q, r, h + 1, h + 1)
  BY <1>2, <1>3, WritesOn
<1> HIDE DEF a, o
<1>5. Follows(q, r) /\ Fine(r) /\ Follows(p, r)
  BY <1>1, <1>2, <1>4, FollowsOn DEF Writes, Follows
<1>6. Follows(r, s) /\ Follows(p, s)
  BY <1>1, <1>2, <1>5, PatchJumpFollows, FollowsOn
<1>7. ASSUME Healthy(ts, s) PROVE Adds(ts, p, s, h + 1, h + 1)
  <2>1. Healthy(ts, r)
    BY <1>1, <1>2, <1>5, <1>7, PatchJumpHealthy
  <2>2. Adds(ts, q, r, h + 1, h + 1) /\ Keeps(q, r)
    BY <1>4, <2>1 DEF Writes, Adds
  <2>3. Segment(ts, r.c, a + 3, Len(r.c.code), h + 1, h + 1, {})
    BY <1>2, <2>2 DEF Adds
  <2>4. a + 3 <= Len(r.c.code) /\ r.c.code[a + 1] = Code(op) /\ Len(r.c.code) \in Nat
    <3>1. Len(q.c.code) <= Len(r.c.code) /\ \A i \in 1 .. Len(q.c.code) : r.c.code[i] = q.c.code[i]
      BY <2>2 DEF Keeps, Begins
    <3>2. a + 1 \in 1 .. Len(q.c.code)
      BY <1>1, <1>2
    <3>3. Len(r.c.code) \in Nat
      BY <1>5, FineTypes
    <3> QED BY <1>2, <3>1, <3>2, <3>3
  <2>5. Patched(r, s, a) /\ Holds(s.c, a, op, Len(r.c.code) - (a + 3), a + 3)
    BY <1>1, <1>2, <1>5, <1>7, <2>4, JumpPatched
  <2>6. Len(s.c.code) = Len(r.c.code) /\ s.c.locals = p.c.locals
    BY <1>2, <2>2, <2>5 DEF Patched, Adds
  <2>7. Keeps(p, s) /\ Sane(ts, s)
    <3>1. Keeps(p, r)
      BY <1>1, <1>2, <1>5, <2>2, KeepsOn
    <3> QED BY <1>1, <2>2, <2>5, <3>1, PatchKeeps DEF Adds, a
  <2>8. Segment(ts, s.c, a, a + 3, h + 1, h + 1, {<<Len(s.c.code), h + 1>>})
    <3> DEFINE x == Len(r.c.code) - (a + 3)
    <3>1. x \in Nat /\ a + 3 + x = Len(s.c.code) /\ a + 3 <= Len(s.c.code)
      <4> DEFINE n == Len(r.c.code)
      <4>1. n \in Nat /\ a + 3 <= n /\ Len(s.c.code) = n /\ x = n - (a + 3) /\ a \in Nat
        BY <1>1, <2>4, <2>6
      <4> HIDE DEF n, x
      <4> QED BY <4>1
    <3>2. Holds(s.c, a, op, x, a + 3)
      BY <2>5
    <3> HIDE DEF x
    <3>3. Segment(ts, s.c, a, a + 3, h + 1, h + 1, {<<a + 3 + x, h + 1>>})
      BY <1>1, <3>1, <3>2, JumpSegment
    <3> QED BY <3>1, <3>3
  <2>9. Segment(ts, s.c, a + 3, Len(s.c.code), h + 1, h + 1, {<<Len(s.c.code), h + 1>>})
    <3>1. a \in Nat /\ Patched(r, s, a) /\ a + 3 >= a + 3
      BY <1>1, <2>5
    <3>2. \A b, d, g, k, exits :
             Segment(ts, r.c, b, d, g, k, exits) /\ (d <= a \/ b >= a + 3) =>
                Segment(ts, s.c, b, d, g, k, exits)
      BY ONLY <3>1, SegmentPatched
    <3>3. Segment(ts, s.c, a + 3, Len(r.c.code), h + 1, h + 1, {})
      BY ONLY <2>3, <3>1, <3>2
    <3>4. Segment(ts, s.c, a + 3, Len(s.c.code), h + 1, h + 1, {})
      BY ONLY <2>6, <3>3
    <3> QED BY <3>4, SegmentWithExits
  <2>10. Segment(ts, s.c, a, Len(s.c.code), h + 1, h + 1, {<<Len(s.c.code), h + 1>>})
    BY <2>8, <2>9, SegmentsJoin
  <2>11. Segment(ts, s.c, a, Len(s.c.code), h + 1, h + 1, {})
    BY <2>10, SegmentWithExits
  <2> QED BY <2>6, <2>7, <2>11 DEF Adds, a
<1> QED BY <1>6, <1>7 DEF Writes

\* Both branches of an if begin where the condition ends in e; the first ends at
\* the offset b in v, before the jump over the second.
Forked(ts, e, v, b, h) ==
    /\ Follows(e, v) /\ Safe(ts, v) /\ b \in Nat
    /\ Healthy(ts, v) =>
          /\ Keeps(e, v) /\ v.c.locals = e.c.locals
          /\ Len(e.c.code) <= b /\ Len(v.c.code) = b + 3
          /\ v.c.code[b + 1] = Code("JUMP")
          /\ Segment(ts, v.c, Len(e.c.code), b, h + 1, h, {<<b + 3, h + 1>>})

LEMMA JumpPlace ==
    ASSUME NEW ts, NEW p, Safe(ts, p), NEW op \in JumpsAhead, NEW q, q = EmitJump(p, op), NEW r, Fine(r),
           Keeps(q, r)
    PROVE  Len(p.c.code) + 3 <= Len(r.c.code) /\ r.c.code[Len(p.c.code) + 1] = Code(op)
<1>1. Len(q.c.code) = Len(p.c.code) + 3 /\ q.c.code[Len(p.c.code) + 1] = Code(op)
  BY EmitJumpKeeps
<1>2. Len(q.c.code) <= Len(r.c.code) /\ \A i \in 1 .. Len(q.c.code) : r.c.code[i] = q.c.code[i]
  BY DEF Keeps, Begins
<1>3. Len(p.c.code) \in Nat /\ Len(r.c.code) \in Nat
  BY FineTypes DEF Safe
<1>4. Len(p.c.code) + 1 \in 1 .. Len(q.c.code)
  BY <1>1, <1>3
<1> QED BY <1>1, <1>2, <1>3, <1>4

LEMMA JumpPatchedSegment ==
    ASSUME NEW ts, NEW r, NEW s, NEW a \in Nat, NEW op \in JumpsAhead, Patched(r, s, a),
           Holds(s.c, a, op, Len(r.c.code) - (a + 3), a + 3), a + 3 <= Len(r.c.code),
           NEW h \in Nat \ {0}, NEW k \in Nat \ {0}, op \in ConditionalJumps => h > 1 /\ k = h
    PROVE  Segment(ts, s.c, a, a + 3, h, k, {<<Len(s.c.code), h>>})
<1> DEFINE n == Len(r.c.code)
           x == n - (a + 3)
<1>1. n \in Nat /\ Len(s.c.code) = n
  BY FineTypes DEF Patched
<1>2. Holds(s.c, a, op, x, a + 3) /\ a + 3 <= n
  OBVIOUS
<1> HIDE DEF n
<1>3. x \in Nat /\ a + 3 + x = n
  BY <1>1, <1>2
<1> HIDE DEF x
<1>4. Segment(ts, s.c, a, a + 3, h, k, {<<a + 3 + x, h>>})
  BY <1>1, <1>2, <1>3, JumpSegment
<1> QED BY <1>1, <1>3, <1>4

LEMMA ThenWrites ==
    ASSUME NEW ts, NEW e, Safe(ts, e), NEW h \in Nat \ {0}, NEW j, j = EmitJump(e, "JUMP_IF_FALSE"),
           NEW t, Writes(ts, j, t, h + 1, h), NEW u, u = EmitJump(t, "JUMP"),
           NEW v, v = PatchJump(u, JumpOffset(j))
    PROVE  Forked(ts, e, v, Len(t.c.code), h) /\ JumpOffset(u) = Len(t.c.code) + 1
<1> DEFINE a == Len(e.c.code)
           b == Len(t.c.code)
<1>1. Fine(e) /\ a \in Nat /\ "JUMP_IF_FALSE" \in ConditionalJumps
      /\ "JUMP_IF_FALSE" \in JumpsAhead /\ "JUMP" \in JumpsAhead
  BY FineTypes DEF Safe, JumpsAhead, ConditionalJumps
<1>2. /\ Follows(e, j) /\ Keeps(e, j) /\ Safe(ts, j) /\ j.c.locals = e.c.locals /\ Fine(j)
      /\ Len(j.c.code) = a + 3 /\ JumpOffset(j) = a + 1
  BY <1>1, EmitJumpKeeps DEF Follows
<1>3. Follows(j, t) /\ Fine(t) /\ Safe(ts, t) /\ b \in Nat
  <2>1. Follows(j, t) /\ Fine(t)
    BY DEF Writes, Follows
  <2>2. Safe(ts, t)
    BY <1>2, <2>1, SafeAfter
  <2> QED BY <2>1, <2>2, FineTypes
<1>4. /\ Follows(t, u) /\ Keeps(t, u) /\ Safe(ts, u) /\ u.c.locals = t.c.locals /\ Fine(u)
      /\ Len(u.c.code) = b + 3 /\ JumpOffset(u) = b + 1 /\ (Healthy(ts, u) => Healthy(ts, t))
      /\ u.c.code[b + 1] = Code("JUMP")
  BY <1>1, <1>3, EmitJumpKeeps DEF Follows
<1>5. Follows(e, u) /\ Follows(j, u)
  BY <1>1, <1>2, <1>3, <1>4, FollowsOn
<1>6. Follows(u, v) /\ Fine(v) /\ Follows(e, v)
  <2>1. JumpOffset(j) \in Int
    BY <1>1, <1>2
  <2>2. Follows(u, v)
    BY <1>4, <2>1, PatchJumpFollows
  <2> QED BY <1>1, <1>5, <2>2, FollowsOn, ZenonT(60) DEF Follows
<1> HIDE DEF a, b
<1>7. ASSUME Healthy(ts, v)
      PROVE  /\ Sane(ts, v) /\ Keeps(e, v) /\ v.c.locals = e.c.locals
             /\ a <= b /\ Len(v.c.code) = b + 3
             /\ v.c.code[b + 1] = Code("JUMP")
             /\ Segment(ts, v.c, a, b, h + 1, h, {<<b + 3, h + 1>>})
  <2>1. Healthy(ts, u) /\ Healthy(ts, t)
    BY <1>1, <1>2, <1>4, <1>6, <1>7, PatchJumpHealthy
  <2>2. Adds(ts, j, t, h + 1, h)
    BY <2>1 DEF Writes
  <2>3. Keeps(j, t) /\ Keeps(j, u) /\ Keeps(e, u)
    <3>1. Keeps(j, t)
      BY <2>2 DEF Adds
    <3>2. Keeps(j, u)
      BY <1>2, <1>3, <1>4, <3>1, KeepsOn
    <3> QED BY <1>1, <1>2, <1>4, <3>1, <3>2, KeepsOn
  <2>4. a + 3 <= b
    BY <1>2, <2>3, FineTypes DEF Keeps, Begins, b
  <2>5. a + 3 <= Len(u.c.code) /\ u.c.code[a + 1] = Code("JUMP_IF_FALSE")
    BY <1>1, <1>4, <2>3, JumpPlace DEF a
  <2>6. /\ Patched(u, v, a) /\ Holds(v.c, a, "JUMP_IF_FALSE", Len(u.c.code) - (a + 3), a + 3)
    BY <1>1, <1>2, <1>4, <1>7, <2>5, JumpPatched
  <2>7. Len(v.c.code) = b + 3 /\ v.c.locals = e.c.locals /\ v.c.code[b + 1] = Code("JUMP")
    <3>1. b + 1 \in 1 .. Len(u.c.code) /\ b + 1 \notin {a + 2, a + 3}
      BY <1>1, <1>3, <1>4, <2>4
    <3> QED BY <1>2, <1>4, <2>2, <2>6, <3>1 DEF Patched, Adds
  <2>8. Keeps(e, v) /\ Sane(ts, v)
    <3>1. Sane(ts, u)
      BY <1>4, <2>1 DEF Safe
    <3> QED BY <1>1, <2>3, <2>6, <3>1, PatchKeeps DEF a
  <2>9. Segment(ts, v.c, a, a + 3, h + 1, h + 1, {<<b + 3, h + 1>>})
    <3>1. h + 1 \in Nat \ {0} /\ h + 1 > 1
      OBVIOUS
    <3> QED BY <1>1, <2>5, <2>6, <2>7, <3>1, JumpPatchedSegment
  <2>10. Segment(ts, v.c, a + 3, b, h + 1, h, {<<b + 3, h + 1>>})
    <3>1. Segment(ts, t.c, a + 3, b, h + 1, h, {})
      BY <1>2, <2>2 DEF Adds, b
    <3>2. Segment(ts, u.c, a + 3, b, h + 1, h, {})
      BY <1>3, <1>4, <3>1, SegmentAfter
    <3>3. Segment(ts, v.c, a + 3, b, h + 1, h, {})
      BY <1>1, <2>6, <3>2, SegmentPatched
    <3> QED BY <3>3, SegmentWithExits
  <2>11. Segment(ts, v.c, a, b, h + 1, h, {<<b + 3, h + 1>>})
    BY <2>9, <2>10, SegmentsJoin
  <2>12. a <= b
    BY <1>1, <1>3, <2>4 DEF a, b
  <2> QED BY <2>7, <2>8, <2>11, <2>12
<1>8. Safe(ts, v)
  BY <1>6, <1>7 DEF Safe
<1>9. Forked(ts, e, v, b, h)
  BY <1>3, <1>6, <1>7, <1>8 DEF Forked, a, b
<1> QED BY <1>4, <1>9 DEF b

LEMMA ElseWrites ==
    ASSUME NEW ts, NEW e, Fine(e), NEW h \in Nat \ {0}, NEW v, NEW b, Forked(ts, e, v, b, h),
           NEW x, Writes(ts, v, x, h + 1, h), NEW y, y = PatchJump(x, b + 1)
    PROVE  Writes(ts, e, y, h + 1, h)
<1> DEFINE a == Len(e.c.code)
<1>1. Follows(e, v) /\ Fine(v) /\ Follows(v, x) /\ Fine(x) /\ b \in Nat /\ a \in Nat
  BY FineTypes DEF Forked, Writes, Follows
<1>2. Follows(x, y) /\ Follows(e, x) /\ Follows(e, y) /\ Fine(y)
  <2>1. Follows(x, y) /\ Follows(e, x)
    BY <1>1, PatchJumpFollows, FollowsOn
  <2> QED BY <1>1, <2>1, FollowsOn DEF Follows
<1> HIDE DEF a
<1>3. ASSUME Healthy(ts, y) PROVE Adds(ts, e, y, h + 1, h)
  <2>1. Healthy(ts, x)
    BY <1>1, <1>3, PatchJumpHealthy
  <2>2. Healthy(ts, v) /\ Adds(ts, v, x, h + 1, h)
    BY <1>1, <2>1, WritesHealthy
  <2>3. /\ Keeps(e, v) /\ v.c.locals = e.c.locals /\ a <= b /\ Len(v.c.code) = b + 3
        /\ v.c.code[b + 1] = Code("JUMP")
        /\ Segment(ts, v.c, a, b, h + 1, h, {<<b + 3, h + 1>>})
    BY <2>2 DEF Forked, a
  <2>4. Keeps(v, x) /\ x.c.locals = v.c.locals /\ Sane(ts, x)
    BY <2>2 DEF Adds
  <2>5. Keeps(e, x)
    BY <1>1, <2>3, <2>4, KeepsOn
  <2>6. b + 3 <= Len(x.c.code) /\ x.c.code[b + 1] = Code("JUMP")
    <3>1. Len(v.c.code) <= Len(x.c.code) /\ \A i \in 1 .. Len(v.c.code) : x.c.code[i] = v.c.code[i]
      BY <2>4 DEF Keeps, Begins
    <3>2. b + 1 \in 1 .. Len(v.c.code)
      BY <1>1, <2>3
    <3> QED BY <2>3, <3>1, <3>2
  <2>7. "JUMP" \in JumpsAhead /\ "JUMP" \notin ConditionalJumps
    BY DEF JumpsAhead, ConditionalJumps
  <2>8. Patched(x, y, b) /\ Holds(y.c, b, "JUMP", Len(x.c.code) - (b + 3), b + 3)
    <3>1. Fine(x) /\ b \in Nat /\ "JUMP" \in JumpsAhead /\ y = PatchJump(x, b + 1)
      BY <1>1, <2>7
    <3> QED BY <1>3, <2>6, <3>1, JumpPatched
  <2> DEFINE d == Len(y.c.code)
  <2>9. Len(x.c.code) = d
    BY <2>8 DEF Patched
  <2>10. Segment(ts, y.c, b, b + 3, h, h + 1, {<<d, h>>})
    <3>1. h + 1 \in Nat \ {0}
      OBVIOUS
    <3> QED BY <1>1, <2>6, <2>7, <2>8, <3>1, JumpPatchedSegment
  <2> HIDE DEF d
  <2>11. Segment(ts, y.c, a, b, h + 1, h, {<<b + 3, h + 1>>})
    <3>1. Segment(ts, x.c, a, b, h + 1, h, {<<b + 3, h + 1>>})
      BY <1>1, <2>3, <2>4, SegmentAfter
    <3> QED BY <1>1, <2>8, <3>1, SegmentPatched
  <2>12. Segment(ts, y.c, b + 3, d, h + 1, h, {})
    <3>1. Segment(ts, x.c, b + 3, d, h + 1, h, {})
      BY <2>2, <2>3, <2>9 DEF Adds
    <3> QED BY <1>1, <2>8, <3>1, SegmentPatched, SMTT(30)
  <2> DEFINE exits == {<<b + 3, h + 1>>, <<d, h>>}
  <2>13. Segment(ts, y.c, a, b, h + 1, h, exits) /\ Segment(ts, y.c, b, b + 3, h, h + 1, exits)
    BY <2>10, <2>11, SegmentWithExits
  <2>14. Segment(ts, y.c, a, b + 3, h + 1, h + 1, exits)
    BY <2>13, SegmentsJoin
  <2>15. Segment(ts, y.c, a, b + 3, h + 1, h + 1, {<<d, h>>})
    BY <2>14, SegmentWithExits
  <2>16. Segment(ts, y.c, b + 3, d, h + 1, h, {<<d, h>>})
    BY <2>12, SegmentWithExits
  <2>17. Segment(ts, y.c, a, d, h + 1, h, {<<d, h>>})
    BY <2>15, <2>16, SegmentsJoin
  <2>18. Segment(ts, y.c, a, d, h + 1, h, {})
    BY <2>17, SegmentWithExits
  <2>19. Keeps(e, y) /\ Sane(ts, y)
    BY <1>1, <2>3, <2>4, <2>5, <2>8, PatchKeeps DEF a
  <2>20. y.c.locals = e.c.locals
    BY <2>3, <2>4, <2>8 DEF Patched
  <2> QED BY <2>18, <2>19, <2>20 DEF Adds, a, d
<1> QED BY <1>2, <1>3 DEF Writes

\* A jump back.
LEMMA JumpBackSegment ==
    ASSUME NEW ts, NEW c, NEW a \in Nat, NEW x \in Nat,
           Holds(c, a, "JUMP_BACK", x, a + 3), a + 3 <= Len(c.code),
           NEW h \in Nat \ {0}, NEW k \in Nat \ {0}
    PROVE  Segment(ts, c, a, a + 3, h, k, {<<a + 3 - x, h>>})
<1>1. Pops(c, a) = Takes("JUMP_BACK", x) /\ Pushes(c, a) = Gives("JUMP_BACK")
  BY HoldsEffect
<1>2. /\ "JUMP_BACK" \in ShortOperand
      /\ "JUMP_BACK" \notin GlobalOps \cup ConstantOps
  BY DEF ShortOperand, GlobalOps, ConstantOps, DeclGlobalOps, GetGlobalOps, SetGlobalOps
<1>3. Takes("JUMP_BACK", x) = 0 /\ Gives("JUMP_BACK") = 0
  BY DEF Takes, Gives, DeclGlobalOps, UnaryOps, SetGlobalOps, BinaryOps, ConditionalJumps
<1>4. Runs(ts, c, a, h)
  BY <1>1, <1>2, <1>3 DEF Runs, Holds
<1>5. After(c, a, h) = h
  BY <1>1, <1>3 DEF After
<1>6. NextOffset(c, a) = a + 3 /\ Operand(c, a) = x /\ OpAt(c, a) = "JUMP_BACK"
  BY <1>2 DEF Holds
<1>7. \A q \in Successors(c, a) : q = a + 3 - x
  BY <1>6 DEF Successors
<1> QED BY <1>4, <1>5, <1>6, <1>7, SegmentOfOne

\* A jump back goes to an instruction that has been written.
LEMMA EmitJumpBackAdds ==
    ASSUME NEW ts, NEW p, Safe(ts, p), NEW start \in Nat, NEW q, q = EmitJumpBack(p, start)
    PROVE  /\ Follows(p, q) /\ Fine(q)
           /\ Healthy(ts, q) =>
                 /\ Healthy(ts, p) /\ Keeps(p, q) /\ Sane(ts, q) /\ q.c.locals = p.c.locals
                 /\ Len(q.c.code) = Len(p.c.code) + 3
                 /\ start <= Len(p.c.code) =>
                       \A h \in Nat \ {0}, k \in Nat \ {0} :
                          Segment(ts, q.c, Len(p.c.code), Len(q.c.code), h, k, {<<start, h>>})
<1> DEFINE head == << Code("JUMP_BACK") >>
           a == Len(p.c.code)
           r == Emit(p, head)
           jump == Len(r.c.code) - start + 2
           s == IF jump > UINT16_MAX THEN SyntaxError(r) ELSE r
           tail == TwoBytes(jump)
<1>1. Fine(p) /\ a \in Nat /\ "JUMP_BACK" \in Ops
  BY FineTypes, OpsListed DEF Safe
<1>2. head \in Seq(Nat) /\ Len(head) = 1 /\ head[1] = Code("JUMP_BACK")
  BY <1>1, CodeOfOp
<1>3. q = Emit(s, tail)
  BY DEF EmitJumpBack, EmitOp
<1> HIDE DEF head, r
<1>4. /\ Follows(p, r) /\ Keeps(p, r) /\ r.c.locals = p.c.locals /\ Fine(r)
      /\ Len(r.c.code) = a + 1 /\ (Healthy(ts, r) => Healthy(ts, p)) /\ (Sane(ts, p) => Sane(ts, r))
  BY <1>1, <1>2, EmitKeeps DEF Follows, r
<1>5. r.c.code[a + 1] = Code("JUMP_BACK")
  <2>1. 1 \in 1 .. Len(head)
    BY <1>2
  <2> QED BY <1>1, <1>2, <2>1, EmittedBytes DEF r
<1>6. jump \in Int /\ a + 3 - jump = start /\ (start <= a => jump \in Nat)
  BY <1>1, <1>4
<1> HIDE DEF a, jump
<1>7. Follows(r, s) /\ Fine(s) /\ (jump > UINT16_MAX => s.errored)
  BY <1>4, SyntaxErrorFollows, FollowsItself DEF Follows
<1>8. tail \in Seq(Nat) /\ Len(tail) = 2
  <2>1. jump \in Int
    BY <1>6
  <2> QED BY <2>1, TwoBytesType
<1> HIDE DEF s, tail
<1>9. /\ Follows(s, q) /\ Keeps(s, q) /\ q.c.locals = s.c.locals /\ Fine(q)
      /\ Len(q.c.code) = Len(s.c.code) + 2 /\ (Healthy(ts, q) => Healthy(ts, s)) /\ (Sane(ts, s) => Sane(ts, q))
  <2>1. /\ Follows(s, q) /\ Keeps(s, q) /\ q.c.locals = s.c.locals
        /\ Len(q.c.code) = Len(s.c.code) + Len(tail) /\ (Healthy(ts, q) <=> Healthy(ts, s))
        /\ (Sane(ts, s) <=> Sane(ts, q))
    <3> DEFINE d == Emit(s, tail)
    <3>1. Fine(s) /\ tail \in Seq(Nat)
      BY <1>7, <1>8
    <3>2. /\ Follows(s, d) /\ Keeps(s, d) /\ d.c.locals = s.c.locals
          /\ Len(d.c.code) = Len(s.c.code) + Len(tail) /\ (Healthy(ts, d) <=> Healthy(ts, s))
          /\ (Sane(ts, d) <=> Sane(ts, s))
      BY ONLY <3>1, EmitKeeps
    <3> QED BY <1>3, <3>2
  <2> QED BY <1>8, <2>1 DEF Follows
<1>10. Follows(p, q)
  <2>1. Follows(p, s)
    BY <1>1, <1>4, <1>7, FollowsOn
  <2> QED BY <1>1, <1>9, <2>1, FollowsOn
<1>11. ASSUME Healthy(ts, q)
       PROVE  /\ Healthy(ts, p) /\ Keeps(p, q) /\ Sane(ts, q) /\ q.c.locals = p.c.locals
              /\ Len(q.c.code) = a + 3
              /\ start <= a =>
                    \A h \in Nat \ {0}, k \in Nat \ {0} :
                       Segment(ts, q.c, a, Len(q.c.code), h, k, {<<start, h>>})
  <2>1. Healthy(ts, s)
    BY <1>9, <1>11
  <2>2. ~(jump > UINT16_MAX) /\ jump <= UINT16_MAX
    BY <1>6, <1>7, <2>1, ByteSizeIsNat DEF Healthy
  <2>3. s = r
    BY <2>2 DEF s
  <2>4. Healthy(ts, p) /\ Sane(ts, p) /\ Sane(ts, q)
    BY <1>4, <1>9, <2>1, <2>3 DEF Safe
  <2>5. Keeps(p, q)
    BY <1>1, <1>4, <1>9, <2>3, KeepsOn
  <2>6. Len(q.c.code) = a + 3 /\ Len(r.c.code) = a + 1
    <3>1. Len(r.c.code) = a + 1 /\ Len(q.c.code) = Len(r.c.code) + 2
      BY <1>4, <1>9, <2>3
    <3> QED BY <1>1, <3>1
  <2>7. q.c.code[a + 1] = Code("JUMP_BACK")
    <3>1. a + 1 \in 1 .. Len(r.c.code) /\ \A i \in 1 .. Len(r.c.code) : q.c.code[i] = r.c.code[i]
      BY <1>1, <1>9, <2>3, <2>6 DEF Keeps, Begins
    <3> QED BY <1>5, <3>1
  <2>8. q.c.code[a + 2] = tail[1] /\ q.c.code[a + 3] = tail[2]
    <3>1. \A i \in 1 .. Len(tail) : q.c.code[Len(r.c.code) + i] = tail[i]
      BY <1>3, <1>4, <1>8, <2>3, EmittedBytes
    <3>2. 1 \in 1 .. Len(tail) /\ 2 \in 1 .. Len(tail)
      BY <1>8
    <3>3. q.c.code[Len(r.c.code) + 1] = tail[1] /\ q.c.code[Len(r.c.code) + 2] = tail[2]
      BY <3>1, <3>2
    <3>4. Len(r.c.code) + 1 = a + 2 /\ Len(r.c.code) + 2 = a + 3
      BY <1>1, <2>6
    <3> QED BY <3>3, <3>4
  <2>9. ASSUME start <= a PROVE Holds(q.c, a, "JUMP_BACK", jump, a + 3)
    <3>1. tail[1] * ByteSize + tail[2] = jump
      BY <1>6, <2>2, <2>9, TwoBytesDecode DEF tail
    <3>2. "JUMP_BACK" \in ShortOperand
      BY DEF ShortOperand
    <3>3. Holds(q.c, a, "JUMP_BACK", q.c.code[a + 2] * ByteSize + q.c.code[a + 3], a + 3)
      BY <1>1, <2>7, <3>2, HoldsOp
    <3> QED BY <2>8, <3>1, <3>3
  <2>10. ASSUME start <= a, NEW h \in Nat \ {0}, NEW k \in Nat \ {0}
         PROVE  Segment(ts, q.c, a, Len(q.c.code), h, k, {<<start, h>>})
    <3>1. a + 3 <= Len(q.c.code)
      BY <1>1, <2>6
    <3>2. Segment(ts, q.c, a, a + 3, h, k, {<<a + 3 - jump, h>>})
      BY <1>1, <1>6, <2>9, <2>10, <3>1, JumpBackSegment
    <3> QED BY <1>6, <2>6, <3>2
  <2> QED BY <1>4, <1>9, <2>3, <2>4, <2>5, <2>6, <2>10
<1> QED BY <1>9, <1>10, <1>11 DEF a

\* A loop: the condition from p to e, the body, the jump back.
LEMMA LoopWrites ==
    ASSUME NEW ts, NEW p, Safe(ts, p), NEW h \in Nat \ {0}, NEW e, Writes(ts, p, e, h, h + 1),
           NEW j, j = EmitJump(e, "JUMP_IF_FALSE"), NEW t, Writes(ts, j, t, h + 1, h),
           NEW u, u = EmitJumpBack(t, Len(p.c.code)), NEW v, v = PatchJump(u, JumpOffset(j))
    PROVE  Writes(ts, p, v, h, h + 1)
<1> DEFINE start == Len(p.c.code)
           a == Len(e.c.code)
           b == Len(t.c.code)
<1>1. /\ Fine(p) /\ start \in Nat /\ Follows(p, e) /\ Fine(e) /\ Safe(ts, e) /\ a \in Nat
      /\ "JUMP_IF_FALSE" \in ConditionalJumps /\ "JUMP_IF_FALSE" \in JumpsAhead
  BY FineTypes, SafeAfter DEF Safe, Writes, Follows, JumpsAhead, ConditionalJumps
<1>2. /\ Follows(e, j) /\ Keeps(e, j) /\ Safe(ts, j) /\ j.c.locals = e.c.locals /\ Fine(j)
      /\ Len(j.c.code) = a + 3 /\ JumpOffset(j) = a + 1 /\ (Healthy(ts, j) => Healthy(ts, e))
  BY <1>1, EmitJumpKeeps DEF Follows
<1>3. Follows(j, t) /\ Fine(t) /\ Safe(ts, t) /\ b \in Nat
  BY <1>2, SafeAfter, FineTypes DEF Writes, Follows
<1>4. /\ Follows(t, u) /\ Fine(u)
      /\ Healthy(ts, u) =>
            /\ Healthy(ts, t) /\ Keeps(t, u) /\ Sane(ts, u) /\ u.c.locals = t.c.locals
            /\ Len(u.c.code) = b + 3
            /\ start <= b =>
                  \A g \in Nat \ {0}, k \in Nat \ {0} :
                     Segment(ts, u.c, b, Len(u.c.code), g, k, {<<start, g>>})
  <2>1. u = EmitJumpBack(t, start) /\ b = Len(t.c.code)
    OBVIOUS
  <2> HIDE DEF start, b
  <2>2. Safe(ts, t) /\ start \in Nat
    BY <1>1, <1>3
  <2>3. /\ Follows(t, u) /\ Fine(u)
        /\ Healthy(ts, u) =>
              /\ Healthy(ts, t) /\ Keeps(t, u) /\ Sane(ts, u) /\ u.c.locals = t.c.locals
              /\ Len(u.c.code) = Len(t.c.code) + 3
              /\ start <= Len(t.c.code) =>
                    \A g \in Nat \ {0}, k \in Nat \ {0} :
                       Segment(ts, u.c, Len(t.c.code), Len(u.c.code), g, k, {<<start, g>>})
    <3>1. u = EmitJumpBack(t, start)
      BY ONLY <2>1
    <3> QED BY ONLY <2>2, <3>1, EmitJumpBackAdds
  <2> QED BY <2>1, <2>3
<1>5. Follows(u, v) /\ Fine(v)
  <2>1. JumpOffset(j) \in Int
    BY <1>1, <1>2
  <2> QED BY <1>4, <2>1, PatchJumpFollows DEF Follows
<1>6. Follows(p, v)
  <2>1. Follows(p, j)
    BY <1>1, <1>2, FollowsOn
  <2>2. Follows(p, t)
    BY <1>1, <1>3, <2>1, FollowsOn
  <2>3. Follows(p, u)
    BY <1>1, <1>4, <2>2, FollowsOn
  <2> QED BY <1>1, <1>5, <2>3, FollowsOn
<1> HIDE DEF start, a, b
<1>7. ASSUME Healthy(ts, v) PROVE Adds(ts, p, v, h, h + 1)
  <2>1. Healthy(ts, u)
    BY <1>1, <1>2, <1>4, <1>7, PatchJumpHealthy
  <2>2. Healthy(ts, t) /\ Adds(ts, j, t, h + 1, h) /\ Healthy(ts, j)
    BY <1>2, <1>4, <2>1, WritesHealthy
  <2>3. Adds(ts, p, e, h, h + 1)
    BY <1>2, <2>2 DEF Writes
  <2>4. Keeps(p, e) /\ Keeps(j, t) /\ Keeps(t, u)
    BY <1>4, <2>1, <2>2, <2>3 DEF Adds
  <2>5. Keeps(e, t) /\ Keeps(j, u) /\ Keeps(e, u) /\ Keeps(p, u)
    <3>1. Keeps(e, t)
      BY <1>1, <1>2, <1>3, <2>4, KeepsOn
    <3>2. Keeps(j, u)
      BY <1>2, <1>3, <1>4, <2>4, KeepsOn
    <3>3. Keeps(e, u)
      BY <1>1, <1>3, <1>4, <2>4, <3>1, KeepsOn
    <3> QED BY <1>1, <1>4, <2>4, <3>1, <3>2, <3>3, KeepsOn
  <2>6. start <= a /\ a + 3 <= b
    BY <1>2, <2>4 DEF Keeps, Begins, start, a, b
  <2>7. a + 3 <= Len(u.c.code) /\ u.c.code[a + 1] = Code("JUMP_IF_FALSE")
    BY <1>1, <1>4, <2>5, JumpPlace DEF a
  <2>8. /\ Patched(u, v, a) /\ Holds(v.c, a, "JUMP_IF_FALSE", Len(u.c.code) - (a + 3), a + 3)
    BY <1>1, <1>2, <1>4, <1>7, <2>7, JumpPatched
  <2> DEFINE d == Len(v.c.code)
  <2>9. Len(u.c.code) = b + 3 /\ d = b + 3 /\ v.c.locals = p.c.locals
    BY <1>2, <1>4, <2>1, <2>2, <2>3, <2>8 DEF Patched, Adds
  <2>10. Segment(ts, v.c, a, a + 3, h + 1, h + 1, {<<d, h + 1>>})
    <3>1. h + 1 \in Nat \ {0} /\ h + 1 > 1
      OBVIOUS
    <3> QED BY <1>1, <2>7, <2>8, <3>1, JumpPatchedSegment
  <2> HIDE DEF d
  <2>11. Segment(ts, v.c, a + 3, b, h + 1, h, {})
    <3>1. Segment(ts, t.c, a + 3, b, h + 1, h, {})
      BY <1>2, <2>2 DEF Adds, b
    <3>2. Segment(ts, u.c, a + 3, b, h + 1, h, {})
      BY <1>3, <1>4, <2>4, <3>1, SegmentAfter
    <3>3. a + 3 >= a + 3
      BY <1>1
    <3> DEFINE m == a + 3
    <3>4. Segment(ts, u.c, m, b, h + 1, h, {}) /\ m >= a + 3
      BY <3>2, <3>3
    <3> HIDE DEF m
    <3>5. Segment(ts, v.c, m, b, h + 1, h, {})
      BY <1>1, <2>8, <3>4, SegmentPatched
    <3> QED BY <3>5 DEF m
  <2>12. Segment(ts, v.c, b, d, h, h + 1, {<<start, h>>})
    <3>1. start <= b /\ h + 1 \in Nat \ {0}
      BY <1>1, <1>3, <2>6
    <3>2. Segment(ts, u.c, b, d, h, h + 1, {<<start, h>>})
      BY <1>4, <2>1, <2>9, <3>1
    <3> QED BY <1>1, <2>6, <2>8, <3>2, SegmentPatched
  <2>13. Segment(ts, v.c, start, a, h, h + 1, {})
    <3>1. Segment(ts, e.c, start, a, h, h + 1, {})
      BY <2>3 DEF Adds, start, a
    <3>2. Follows(e, u)
      BY <1>1, <1>2, <1>3, <1>4, FollowsOn
    <3>3. Segment(ts, u.c, start, a, h, h + 1, {})
      BY <1>1, <2>5, <3>1, <3>2, SegmentAfter
    <3> QED BY <1>1, <2>8, <3>3, SegmentPatched
  <2> DEFINE exits == {<<start, h>>, <<d, h + 1>>}
  <2>14. /\ Segment(ts, v.c, start, a, h, h + 1, exits) /\ Segment(ts, v.c, a, a + 3, h + 1, h + 1, exits)
         /\ Segment(ts, v.c, a + 3, b, h + 1, h, exits) /\ Segment(ts, v.c, b, d, h, h + 1, exits)
    BY <2>10, <2>11, <2>12, <2>13, SegmentWithExits
  <2>15. Segment(ts, v.c, start, d, h, h + 1, exits)
    <3> HIDE DEF exits
    <3>1. Segment(ts, v.c, start, a + 3, h, h + 1, exits)
      BY <2>14, SegmentsJoin
    <3>2. Segment(ts, v.c, start, b, h, h, exits)
      BY <2>14, <3>1, SegmentsJoin
    <3> QED BY <2>14, <3>2, SegmentsJoin
  <2>16. Segment(ts, v.c, start, d, h, h + 1, {})
    BY <2>15, SegmentWithExits
  <2>17. Keeps(p, v) /\ Sane(ts, v)
    BY <1>1, <1>4, <2>1, <2>5, <2>6, <2>8, PatchKeeps DEF start
  <2> QED BY <2>9, <2>16, <2>17 DEF Adds, start, d
<1> QED BY <1>6, <1>7 DEF Writes
-----------------------------------------------------------------------------
(* What a call of a goal writes. *)

\* The first local is the function itself.
Rooted(c) == Len(c.locals) >= 1 /\ c.locals[1].name = NoName

\* The stack has height h, and the locals that have a value are on it.
At(ts, p, h) ==
    /\ Safe(ts, p) /\ h \in Nat \ {0}
    /\ Healthy(ts, p) =>
          /\ Rooted(p.c)
          /\ \A i \in DOMAIN p.c.locals : p.c.locals[i].depth # -1 => i <= h

\* Between two statements the stack has the locals and nothing else.
Settled(ts, p) ==
    /\ Safe(ts, p) /\ (p.c.scope_depth = 0 => p.c.main)
    /\ Healthy(ts, p) =>
          /\ Rooted(p.c)
          /\ \A i \in DOMAIN p.c.locals : p.c.locals[i].depth \in 0 .. p.c.scope_depth
Base(p) == Len(p.c.locals)

\* Declarations may add locals.
Declares(ts, p, q) ==
    /\ Follows(p, q)
    /\ Healthy(ts, q) =>
          /\ Keeps(p, q) /\ Sane(ts, q)
          /\ Begins(p.c.locals, q.c.locals)
          /\ p.c.scope_depth = 0 => q.c.locals = p.c.locals
          /\ \A i \in DOMAIN q.c.locals :
                i \in DOMAIN p.c.locals \/ q.c.locals[i].depth = p.c.scope_depth
          /\ Segment(ts, q.c, Len(p.c.code), Len(q.c.code), Base(p), Base(q), {})

\* The parameters are the locals of a function that has no code yet.
Heading(ts, p) ==
    /\ Safe(ts, p) /\ ~p.c.main /\ p.c.scope_depth = 1
    /\ Healthy(ts, p) =>
          /\ Rooted(p.c) /\ p.c.code = <<>> /\ Base(p) = p.c.arity + 1
          /\ \A i \in DOMAIN p.c.locals : p.c.locals[i].depth \in 0 .. 1

\* What a parser writes that does what the goal is, and how high the stack is then.
UnderItems == [ARRAY |-> 0, CALL |-> 1]
Wrote(ts, goal, p, q, number) ==
    /\ goal = "expression" => \A h : At(ts, p, h) => Writes(ts, p, q, h, h + 1)
    /\ goal = "infix" => \A h : At(ts, p, h) => Writes(ts, p, q, h + 1, h + 1)
    /\ goal \in DOMAIN Closing /\ number <= UINT8_MAX =>
          \A h : At(ts, p, h) => Writes(ts, p, q, h + UnderItems[goal] + number, h + 1)
    /\ goal = "statement" => (Settled(ts, p) => Writes(ts, p, q, Base(p), Base(p)))
    /\ goal \in {"declaration", "block", "declarations"} => (Settled(ts, p) => Declares(ts, p, q))
    /\ goal = "parameters" => (Heading(ts, p) => Heading(ts, q) /\ (Healthy(ts, q) => q.functions = p.functions))

Writing(ts, parse, calls) ==
    \A goal \in Goals, p \in Parser, number \in Nat :
        /\ Fine(p) /\ 3 * Left(p) + Rank(goal) < calls
        /\ goal \in {"expression", "infix"} => number # 0
        => Wrote(ts, goal, p, parse[goal, p, number], number)

Space(ts, parse, p, more) ==
    \E calls \in Nat : Serves(parse, calls) /\ Writing(ts, parse, calls) /\ 3 * Left(p) + more <= calls

LEMMA SpaceIsRoom ==
    ASSUME NEW ts, NEW parse, NEW p, NEW more, Space(ts, parse, p, more)
    PROVE  Room(parse, p, more)
BY DEF Space, Room

LEMMA SpaceAfter ==
    ASSUME NEW ts, NEW parse, NEW p, NEW q, Fine(p), Follows(p, q), NEW more \in Nat,
           Space(ts, parse, p, more), NEW fewer \in 0 .. more
    PROVE  Space(ts, parse, q, fewer)
<1>1. PICK calls \in Nat :
          Serves(parse, calls) /\ Writing(ts, parse, calls) /\ 3 * Left(p) + more <= calls
  BY DEF Space
<1>2. Left(p) \in Nat /\ Left(q) \in Nat /\ Left(q) <= Left(p)
  BY LeftIsNat DEF Follows
<1>3. 3 * Left(q) + fewer <= calls
  BY <1>1, <1>2
<1> QED BY <1>1, <1>3 DEF Space

LEMMA SpacePast ==
    ASSUME NEW ts, NEW parse, NEW p, NEW q, Fine(p), Fine(q), Left(q) < Left(p), NEW more \in Nat,
           Space(ts, parse, p, more), NEW fewer \in 0 .. more + 3
    PROVE  Space(ts, parse, q, fewer)
<1>1. PICK calls \in Nat :
          Serves(parse, calls) /\ Writing(ts, parse, calls) /\ 3 * Left(p) + more <= calls
  BY DEF Space
<1>2. Left(p) \in Nat /\ Left(q) \in Nat
  BY LeftIsNat
<1>3. 3 * Left(q) + fewer <= calls
  BY <1>1, <1>2
<1> QED BY <1>1, <1>3 DEF Space

LEMMA SpaceAfterToken ==
    ASSUME NEW ts, NEW parse, NEW p, Fine(p), p.current.type # "EOF", NEW more \in Nat,
           Space(ts, parse, p, more), NEW fewer \in 0 .. more + 3
    PROVE  Space(ts, parse, Advance(p), fewer)
BY AdvanceReads, AdvancePasses, SpacePast DEF Reads, Follows

LEMMA Written ==
    ASSUME NEW ts, NEW parse, NEW p, Fine(p), NEW goal \in Goals, NEW number \in Nat,
           goal \in {"expression", "infix"} => number # 0,
           Space(ts, parse, p, Rank(goal) + 1)
    PROVE  Wrote(ts, goal, p, parse[goal, p, number], number)
<1>1. PICK calls \in Nat :
          Serves(parse, calls) /\ Writing(ts, parse, calls) /\ 3 * Left(p) + (Rank(goal) + 1) <= calls
  BY DEF Space
<1>2. Left(p) \in Nat /\ Rank(goal) \in Nat
  BY LeftIsNat DEF Rank
<1>3. 3 * Left(p) + Rank(goal) < calls
  BY <1>1, <1>2
<1> QED BY <1>1, <1>3 DEF Writing, Fine

LEMMA AtHigher ==
    ASSUME NEW ts, NEW p, NEW h, At(ts, p, h), NEW k \in Nat, k >= h
    PROVE  At(ts, p, k)
<1>1. ASSUME Healthy(ts, p), NEW i \in DOMAIN p.c.locals, p.c.locals[i].depth # -1 PROVE i <= k
  <2>1. i <= h /\ i \in Nat /\ h \in Nat
    BY <1>1, FineTypes DEF At, Safe
  <2> QED BY <2>1
<1>2. k \in Nat \ {0}
  BY DEF At
<1> QED BY <1>1, <1>2 DEF At

LEMMA WritesAt ==
    ASSUME NEW ts, NEW p, NEW h, At(ts, p, h), NEW q, NEW g, NEW k, Writes(ts, p, q, g, k)
    PROVE  At(ts, q, h) /\ Fine(q)
<1>1. Safe(ts, q) /\ Fine(p) /\ Fine(q)
  BY SafeAfter DEF At, Safe
<1>2. ASSUME Healthy(ts, q)
      PROVE  Rooted(q.c) /\ \A i \in DOMAIN q.c.locals : q.c.locals[i].depth # -1 => i <= h
  <2>1. Healthy(ts, p) /\ q.c.locals = p.c.locals
    BY <1>1, <1>2, WritesHealthy DEF Adds
  <2> QED BY <2>1 DEF At, Rooted
<1> QED BY <1>1, <1>2 DEF At

\* An expression leaves one value.
LEMMA PrecedenceWrites ==
    ASSUME NEW ts, NEW parse, NEW p, NEW h, At(ts, p, h), NEW precedence \in Nat \ {0}, Space(ts, parse, p, 1)
    PROVE  Writes(ts, p, parse["expression", p, precedence], h, h + 1)
<1>1. "expression" \in Goals /\ Rank("expression") + 1 = 1
  BY DEF Goals, Rank
<1> QED BY <1>1, Written DEF Wrote, At, Safe

LEMMA ExpressionWrites ==
    ASSUME NEW ts, NEW parse, NEW p, NEW h, At(ts, p, h), Space(ts, parse, p, 1)
    PROVE  /\ Writes(ts, p, Expression(parse, p), h, h + 1)
           /\ At(ts, Expression(parse, p), h + 1) /\ Fine(Expression(parse, p))
           /\ Follows(p, Expression(parse, p))
<1> DEFINE q == Expression(parse, p)
<1>1. PREC_ASSIGNMENT \in Nat \ {0}
  BY DEF PREC_ASSIGNMENT
<1>2. Writes(ts, p, q, h, h + 1)
  BY <1>1, PrecedenceWrites DEF Expression
<1> HIDE DEF q
<1>3. At(ts, q, h) /\ Fine(q)
  BY <1>2, WritesAt
<1>4. h + 1 \in Nat /\ h + 1 >= h
  BY DEF At
<1>5. At(ts, q, h + 1)
  BY <1>3, <1>4, AtHigher
<1> QED BY <1>2, <1>3, <1>5 DEF Writes, q
-----------------------------------------------------------------------------
(* Expressions. *)

\* The heights before and after the operations without an operand.
LEMMA OperationsWrite ==
    ASSUME NEW ts, NEW p, Safe(ts, p), NEW h \in Nat \ {0}
    PROVE  /\ \A op \in Literals : Writes(ts, p, EmitOp(p, op), h, h + 1)
           /\ \A op \in UnaryOps : Writes(ts, p, EmitOp(p, op), h + 1, h + 1)
           /\ \A op \in BinaryOps \cup {"SUBSCRIPT_GET"} : Writes(ts, p, EmitOp(p, op), h + 2, h + 1)
           /\ Writes(ts, p, EmitOp(p, "SUBSCRIPT_SET"), h + 3, h + 1)
<1>1. ASSUME NEW op \in Literals PROVE Writes(ts, p, EmitOp(p, op), h, h + 1)
  <2>1. op \in PlainOps /\ Takes(op, 0) = 0 /\ Gives(op) = 1
    BY DEF PlainOps, Literals, Takes, Gives, DeclGlobalOps, UnaryOps, SetGlobalOps, ConditionalJumps, BinaryOps
  <2>2. h - 0 >= 1 /\ h - 0 + 1 = h + 1 /\ h \in Nat
    OBVIOUS
  <2> QED BY <2>1, <2>2, EmitOpWrites
<1>2. ASSUME NEW op \in UnaryOps PROVE Writes(ts, p, EmitOp(p, op), h + 1, h + 1)
  <2>1. op \in PlainOps /\ Takes(op, 0) = 1 /\ Gives(op) = 1
    BY DEF PlainOps, Takes, Gives, DeclGlobalOps, UnaryOps
  <2>2. h + 1 - 1 >= 1 /\ h + 1 - 1 + 1 = h + 1 /\ h + 1 \in Nat
    OBVIOUS
  <2> QED BY <2>1, <2>2, EmitOpWrites
<1>3. ASSUME NEW op \in BinaryOps \cup {"SUBSCRIPT_GET"} PROVE Writes(ts, p, EmitOp(p, op), h + 2, h + 1)
  <2>1. op \in PlainOps /\ Takes(op, 0) = 2 /\ Gives(op) = 1
    BY DEF PlainOps, Takes, Gives, DeclGlobalOps, UnaryOps, SetGlobalOps, ConditionalJumps, BinaryOps
  <2>2. h + 2 - 2 >= 1 /\ h + 2 - 2 + 1 = h + 1 /\ h + 2 \in Nat
    OBVIOUS
  <2> QED BY <2>1, <2>2, EmitOpWrites
<1>4. Writes(ts, p, EmitOp(p, "SUBSCRIPT_SET"), h + 3, h + 1)
  <2>1. "SUBSCRIPT_SET" \in PlainOps /\ Takes("SUBSCRIPT_SET", 0) = 3 /\ Gives("SUBSCRIPT_SET") = 1
    BY DEF PlainOps, Takes, Gives, DeclGlobalOps, UnaryOps, SetGlobalOps, ConditionalJumps, BinaryOps
  <2>2. h + 3 - 3 >= 1 /\ h + 3 - 3 + 1 = h + 1 /\ h + 3 \in Nat
    OBVIOUS
  <2> QED BY <2>1, <2>2, EmitOpWrites
<1> QED BY <1>1, <1>2, <1>3, <1>4

LEMMA UnderItemsType ==
    /\ DOMAIN UnderItems = DOMAIN Closing
    /\ \A op \in DOMAIN Closing : UnderItems[op] \in Nat
BY DEF UnderItems, Closing

LEMMA EndItemsWrites ==
    ASSUME NEW ts, NEW p, NEW h, At(ts, p, h), NEW op \in DOMAIN Closing, NEW count \in Nat
    PROVE  Writes(ts, p, EndItems(p, op, count), h + UnderItems[op] + count, h + 1)
<1> DEFINE q == Consume(p, Closing[op])
           k == h + UnderItems[op] + count
<1>1. op \in ByteOperand /\ op \notin GlobalOps \cup ConstantOps /\ op \notin {"GET_LOCAL", "SET_LOCAL"}
      /\ Takes(op, count) = UnderItems[op] + count /\ Gives(op) = 1
  BY DEF Closing, UnderItems, ByteOperand, GlobalOps, ConstantOps, GetGlobalOps, Takes, Gives, DeclGlobalOps,
         UnaryOps, SetGlobalOps, ConditionalJumps, BinaryOps
<1>2. Safe(ts, p) /\ h \in Nat \ {0} /\ Fine(p)
  BY DEF At, Safe
<1>3. UnderItems[op] \in Nat
  BY UnderItemsType
<1>4. k \in Nat \ {0} /\ k - (UnderItems[op] + count) = h
  BY <1>2, <1>3
<1> HIDE DEF k
<1>5. Writes(ts, p, q, k, k)
  BY <1>2, <1>4, ConsumeWrites
<1>6. Safe(ts, q)
  BY <1>5, SafeAfter
<1> HIDE DEF q
<1>7. Writes(ts, q, Emit(q, << Code(op), count >>), k, h + 1)
  <2>1. k - Takes(op, count) >= 1 /\ k - Takes(op, count) + Gives(op) = h + 1
    BY <1>1, <1>2, <1>4
  <2>2. Writes(ts, q, Emit(q, << Code(op), count >>), k, k - Takes(op, count) + Gives(op))
    BY <1>1, <1>4, <1>6, <2>1, EmitByteWrites
  <2> QED BY <2>1, <2>2
<1>8. Writes(ts, p, Emit(q, << Code(op), count >>), k, h + 1)
  BY <1>2, <1>5, <1>7, WritesOn
<1> QED BY <1>8 DEF EndItems, q, k

LEMMA ItemsWrite ==
    ASSUME NEW ts, NEW parse, NEW p, NEW h, At(ts, p, h), NEW op \in DOMAIN Closing,
           NEW count \in Nat, count <= UINT8_MAX, Space(ts, parse, p, 2)
    PROVE  Writes(ts, p, parse[op, p, count], h + UnderItems[op] + count, h + 1)
<1>1. op \in Goals /\ Rank(op) + 1 = 2 /\ op \notin {"expression", "infix"}
  BY ClosingOps
<1>2. Fine(p)
  BY DEF At, Safe
<1>3. Wrote(ts, op, p, parse[op, p, count], count)
  BY <1>1, <1>2, Written
<1> QED BY <1>3 DEF Wrote

LEMMA AfterItemWrites ==
    ASSUME NEW ts, NEW parse, NEW p, NEW h, At(ts, p, h), NEW op \in DOMAIN Closing,
           NEW count \in Nat, count <= UINT8_MAX, Space(ts, parse, p, 0)
    PROVE  Writes(ts, p, AfterItem(parse, p, op, count), h + UnderItems[op] + count, h + 1)
<1> DEFINE k == h + UnderItems[op] + count
<1>1. Safe(ts, p) /\ Fine(p) /\ k \in Nat \ {0}
  BY UnderItemsType DEF At, Safe
<1> HIDE DEF k
<1>2. CASE Check(p, "COMMA")
  <2> DEFINE q == Advance(p)
  <2>1. p.current.type # "EOF"
    BY <1>2 DEF Check
  <2>2. Space(ts, parse, q, 2)
    BY <1>1, <2>1, SpaceAfterToken
  <2>3. Writes(ts, p, q, k, k)
    BY <1>1, AdvanceWrites
  <2>4. At(ts, q, h)
    BY <2>3, WritesAt
  <2> HIDE DEF q
  <2>5. Writes(ts, q, parse[op, q, count], k, h + 1)
    BY <2>2, <2>4, ItemsWrite DEF k
  <2>6. Writes(ts, p, parse[op, q, count], k, h + 1)
    BY <1>1, <2>3, <2>5, WritesOn
  <2> QED BY <1>2, <2>6 DEF AfterItem, q, k
<1>3. CASE ~Check(p, "COMMA")
  BY <1>3, EndItemsWrites DEF AfterItem
<1> QED BY <1>2, <1>3

\* Items are counted as they are left on the stack.
LEMMA ParseItemsWrites ==
    ASSUME NEW ts, NEW parse, NEW p, NEW h, At(ts, p, h), NEW op \in DOMAIN Closing,
           NEW count \in Nat, count <= UINT8_MAX, Space(ts, parse, p, 1)
    PROVE  Writes(ts, p, ParseItems(parse, p, op, count), h + UnderItems[op] + count, h + 1)
<1> DEFINE k == h + UnderItems[op] + count
           q == Expression(parse, p)
           r == CountItem(q, count)
           next == (count + 1) % ByteSize
           s == AfterItem(parse, r, op, next)
<1>1. Safe(ts, p) /\ Fine(p) /\ k \in Nat \ {0} /\ k >= h /\ h \in Nat \ {0} /\ UnderItems[op] \in Nat
  BY UnderItemsType DEF At, Safe
<1>2. Writes(ts, p, q, k, k + 1) /\ Fine(q) /\ Follows(p, q)
  <2> HIDE DEF k
  <2>1. At(ts, p, k)
    BY <1>1, AtHigher
  <2> QED BY <2>1, ExpressionWrites
<1>3. At(ts, q, h) /\ Space(ts, parse, q, 0)
  <2> HIDE DEF q, k
  <2>1. At(ts, q, h)
    BY <1>2, WritesAt
  <2>2. Space(ts, parse, q, 0)
    BY <1>1, <1>2, SpaceAfter
  <2> QED BY <2>1, <2>2
<1>4. ParseItems(parse, p, op, count) = s
  BY DEF ParseItems
<1>5. Follows(p, s)
  <2>1. Room(parse, p, 1)
    BY SpaceIsRoom
  <2>2. Reads(p, ParseItems(parse, p, op, count))
    BY <1>1, <2>1, ParseItemsReads
  <2> QED BY <1>4, <2>2 DEF Reads
<1>6. CASE count = UINT8_MAX
  <2>1. r = SyntaxError(q)
    BY <1>6 DEF CountItem
  <2> HIDE DEF q, k
  <2>2. Follows(q, r) /\ r.errored /\ Fine(r)
    BY <1>2, <2>1, SyntaxErrorFollows DEF Follows
  <2>3. Room(parse, r, 0)
    <3>1. Space(ts, parse, r, 0)
      BY <1>2, <1>3, <2>2, SpaceAfter
    <3> QED BY <3>1, SpaceIsRoom
  <2>4. next \in Nat
    BY ByteSizeIsNat
  <2> HIDE DEF r, next
  <2>5. Follows(r, s)
    BY <2>2, <2>3, <2>4, AfterItemFollows
  <2>6. s.errored
    BY <2>2, <2>5 DEF Follows
  <2> HIDE DEF s
  <2> QED BY <1>4, <1>5, <2>6, WritesError
<1>7. CASE count # UINT8_MAX
  <2>1. r = q
    BY <1>7 DEF CountItem
  <2>2. next = count + 1 /\ count + 1 \in Nat /\ count + 1 <= UINT8_MAX
    <3>1. UINT8_MAX \in Nat
      BY ByteAssumption
    <3>2. count + 1 \in 0 .. ByteSize - 1 /\ ByteSize \in Nat \ {0}
      BY <1>7, <3>1 DEF ByteSize
    <3> QED BY <1>7, <3>1, <3>2
  <2> HIDE DEF q, r, next
  <2>3. Writes(ts, q, s, h + UnderItems[op] + (count + 1), h + 1)
    BY <1>3, <2>1, <2>2, AfterItemWrites
  <2>4. h + UnderItems[op] + (count + 1) = k + 1
    BY <1>1
  <2> HIDE DEF s, k
  <2>5. Writes(ts, p, s, k, h + 1)
    BY <1>1, <1>2, <2>3, <2>4, WritesOn
  <2> QED BY <1>4, <2>5 DEF k
<1> QED BY <1>6, <1>7

LEMMA ItemListWrites ==
    ASSUME NEW ts, NEW parse, NEW p, NEW h, At(ts, p, h), NEW op \in DOMAIN Closing, Space(ts, parse, p, 2)
    PROVE  Writes(ts, p, ItemList(parse, p, op), h + UnderItems[op], h + 1)
<1>1. h + UnderItems[op] + 0 = h + UnderItems[op] /\ 0 <= UINT8_MAX /\ 0 \in Nat
  BY UnderItemsType, ByteAssumption DEF At
<1>2. Writes(ts, p, EndItems(p, op, 0), h + UnderItems[op], h + 1)
  BY <1>1, EndItemsWrites
<1>3. Writes(ts, p, parse[op, p, 0], h + UnderItems[op], h + 1)
  BY <1>1, ItemsWrite
<1> QED BY <1>2, <1>3 DEF ItemList

LEMMA AtIsSafe ==
    ASSUME NEW ts, NEW p, NEW h, At(ts, p, h)
    PROVE  Safe(ts, p) /\ Fine(p) /\ h \in Nat \ {0} /\ h + 1 \in Nat \ {0} /\ h + 2 \in Nat \ {0}
BY DEF At, Safe

LEMMA TokenThenExpressionWrites ==
    ASSUME NEW ts, NEW parse, NEW p, NEW h, At(ts, p, h), p.current.type # "EOF", Space(ts, parse, p, 0)
    PROVE  /\ Writes(ts, p, Expression(parse, Advance(p)), h, h + 1)
           /\ At(ts, Expression(parse, Advance(p)), h + 1)
           /\ Fine(Expression(parse, Advance(p)))
           /\ Follows(p, Expression(parse, Advance(p)))
<1> DEFINE q == Advance(p)
           r == Expression(parse, q)
<1>1. Safe(ts, p) /\ Fine(p) /\ h \in Nat \ {0}
  BY AtIsSafe
<1>2. Writes(ts, p, q, h, h)
  BY <1>1, AdvanceWrites
<1>3. At(ts, q, h)
  BY <1>2, WritesAt
<1>4. Space(ts, parse, q, 1)
  BY <1>1, SpaceAfterToken
<1> HIDE DEF q
<1>5. Writes(ts, q, r, h, h + 1) /\ At(ts, r, h + 1) /\ Fine(r)
  BY <1>3, <1>4, ExpressionWrites
<1> HIDE DEF r
<1>6. Writes(ts, p, r, h, h + 1)
  BY <1>1, <1>2, <1>5, WritesOn
<1> QED BY <1>5, <1>6 DEF Writes, q, r

LEMMA RuleGroupingWrites ==
    ASSUME NEW ts, NEW parse, NEW p, NEW h, At(ts, p, h), Space(ts, parse, p, 1)
    PROVE  Writes(ts, p, RuleGrouping(parse, p), h, h + 1)
<1> DEFINE q == Expression(parse, p)
<1>1. Writes(ts, p, q, h, h + 1) /\ At(ts, q, h + 1)
  BY ExpressionWrites
<1>2. Fine(p) /\ Safe(ts, q) /\ h + 1 \in Nat \ {0}
  BY <1>1, AtIsSafe
<1> HIDE DEF q
<1>3. Writes(ts, q, Consume(q, "RIGHT_PAREN"), h + 1, h + 1)
  BY <1>2, ConsumeWrites
<1>4. Writes(ts, p, Consume(q, "RIGHT_PAREN"), h, h + 1)
  BY <1>1, <1>2, <1>3, WritesOn
<1> QED BY <1>4 DEF RuleGrouping, q

LEMMA NumberWrites ==
    ASSUME NEW ts, NEW p, NEW h, At(ts, p, h), NEW n \in Int
    PROVE  Writes(ts, p, RuleNumber(p, n), h, h + 1)
<1>1. Safe(ts, p) /\ h \in Nat \ {0}
  BY AtIsSafe
<1>2. Writes(ts, p, EmitOp(p, "ZERO"), h, h + 1) /\ Writes(ts, p, EmitOp(p, "ONE"), h, h + 1)
  BY <1>1, OperationsWrite DEF Literals
<1>3. Number(n) \in Value /\ ValidConstant(Number(n), p.base, p.functions)
  BY NumberIsValue DEF ValidConstant, Number
<1>4. Writes(ts, p, EmitConstant(p, Number(n)), h, h + 1)
  BY <1>1, <1>3, EmitConstantWrites
<1> QED BY <1>2, <1>4 DEF RuleNumber

LEMMA LocalOps ==
    /\ {"GET_LOCAL", "SET_LOCAL"} \subseteq ByteOperand
    /\ {"GET_LOCAL", "SET_LOCAL"} \cap (GlobalOps \cup ConstantOps) = {}
    /\ \A x : Takes("GET_LOCAL", x) = 0 /\ Takes("SET_LOCAL", x) = 1
    /\ Gives("GET_LOCAL") = 1 /\ Gives("SET_LOCAL") = 1
BY DEF ByteOperand, GlobalOps, ConstantOps, DeclGlobalOps, GetGlobalOps, SetGlobalOps, Takes, Gives,
       UnaryOps, BinaryOps, ConditionalJumps

\* A local that is named has a value on the stack.
LEMMA LocalVariableWrites ==
    ASSUME NEW ts, NEW parse, NEW p, NEW h, At(ts, p, h), NEW slot \in Nat, NEW assignable, Space(ts, parse, p, 0),
           Healthy(ts, p) => slot \in 1 .. h - 1
    PROVE  Writes(ts, p, LocalVariable(parse, p, slot, assignable), h, h + 1)
<1>1. Safe(ts, p) /\ Fine(p) /\ h \in Nat \ {0}
  BY AtIsSafe
<1>2. CASE assignable /\ Check(p, "EQUAL") /\ p.c.locals[slot + 1].read_only
  <2>1. Follows(p, SyntaxError(Advance(p))) /\ SyntaxError(Advance(p)).errored
    BY <1>1, AdvanceFollows, SyntaxErrorFollows, FollowsOn
  <2> QED BY <1>2, <2>1, WritesError DEF LocalVariable
<1>3. CASE assignable /\ Check(p, "EQUAL") /\ ~p.c.locals[slot + 1].read_only
  <2> DEFINE r == Expression(parse, Advance(p))
             s == Emit(r, << Code("SET_LOCAL"), slot >>)
  <2>1. p.current.type # "EOF"
    BY <1>3 DEF Check
  <2>2. Writes(ts, p, r, h, h + 1) /\ At(ts, r, h + 1)
    BY <2>1, TokenThenExpressionWrites
  <2> HIDE DEF r
  <2>3. Safe(ts, r) /\ h + 1 \in Nat
    BY <1>1, <2>2, AtIsSafe
  <2>4. Healthy(ts, r) => slot \in 1 .. h - 1
    BY <1>1, <2>2, WritesHealthy
  <2>6. Writes(ts, r, s, h + 1, h + 1)
    <3> DEFINE op == "SET_LOCAL"
               g == h + 1
    <3>1. op \in ByteOperand /\ op \notin GlobalOps \cup ConstantOps /\ Takes(op, slot) = 1 /\ Gives(op) = 1
      BY LocalOps
    <3>2. g \in Nat /\ g - 1 >= 1 /\ g - 1 + 1 = g /\ (Healthy(ts, r) => slot \in 1 .. g - 1 - 1)
      <4>1. g - 1 - 1 = h - 1
        BY <1>1
      <4>2. Healthy(ts, r) => slot \in 1 .. g - 1 - 1
        BY <2>4, <4>1
      <4> QED BY <1>1, <4>2
    <3> HIDE DEF op, g
    <3>3. Writes(ts, r, Emit(r, << Code(op), slot >>), g, g - Takes(op, slot) + Gives(op))
      BY <2>3, <3>1, <3>2, EmitByteWrites
    <3>4. Writes(ts, r, Emit(r, << Code(op), slot >>), g, g)
      BY <3>1, <3>2, <3>3
    <3> QED BY <3>4 DEF op, g
  <2>7. Writes(ts, p, s, h, h + 1)
    BY <1>1, <2>2, <2>6, WritesOn
  <2> QED BY <1>3, <2>7 DEF LocalVariable, r
<1>4. CASE ~(assignable /\ Check(p, "EQUAL"))
  <2>1. h - 0 >= 1 /\ h - 0 + 1 = h + 1 /\ h - 0 - 1 = h - 1 /\ h \in Nat
    BY <1>1
  <2>2. Writes(ts, p, Emit(p, << Code("GET_LOCAL"), slot >>), h, h + 1)
    BY <1>1, <2>1, LocalOps, EmitByteWrites
  <2> QED BY <1>4, <2>2 DEF LocalVariable
<1> QED BY <1>2, <1>3, <1>4

\* A global has a name among the constants.
LEMMA GlobalVariableWrites ==
    ASSUME NEW ts, NEW parse, NEW p, NEW h, At(ts, p, h), NEW name \in Strings, NEW assignable,
           Space(ts, parse, p, 0)
    PROVE  Writes(ts, p, GlobalVariable(parse, p, name, assignable), h, h + 1)
<1> DEFINE v == String(name)
           index == ConstantIndex(p, v)
           registered == RegisterConstant(p, v)
           q == IF index > UINT16_MAX THEN SyntaxError(registered) ELSE registered
           r == Expression(parse, Advance(q))
           result == GlobalVariable(parse, p, name, assignable)
<1>1. Safe(ts, p) /\ Fine(p) /\ h \in Nat \ {0} /\ h \in Nat /\ h + 1 \in Nat
  BY AtIsSafe
<1>2. v \in Value /\ v.type = "STRING" /\ ValidConstant(v, p.base, p.functions) /\ name \in Int
  BY StringsAssumption, StringIsValue DEF String, ValidConstant
<1>3. /\ Writes(ts, p, registered, h, h) /\ index \in Nat /\ index + 1 \in DOMAIN registered.c.constants
      /\ registered.c.constants[index + 1] = v
  BY <1>1, <1>2, RegisterConstantWrites, RegisterConstantFields, ConstantIndexIsNat
<1>4. result = IF assignable /\ Check(q, "EQUAL")
               THEN EmitIndexed(r, "SET_GLOBAL", "SET_GLOBAL_16", index)
               ELSE EmitIndexed(q, "GET_GLOBAL", "GET_GLOBAL_16", index)
  BY DEF GlobalVariable
<1>5. Follows(p, result)
  BY <1>1, <1>2, SpaceIsRoom, GlobalVariableFollows
<1>6. /\ <<"SET_GLOBAL", "SET_GLOBAL_16">> \in IndexedOps /\ <<"GET_GLOBAL", "GET_GLOBAL_16">> \in IndexedOps
      /\ Takes("SET_GLOBAL", 0) = 1 /\ Gives("SET_GLOBAL") = 1
      /\ Takes("GET_GLOBAL", 0) = 0 /\ Gives("GET_GLOBAL") = 1
  BY DEF IndexedOps, Takes, Gives, DeclGlobalOps, SetGlobalOps, UnaryOps, BinaryOps, ConditionalJumps
<1> HIDE DEF v, index, registered, result
<1>7. Fine(registered) /\ At(ts, registered, h) /\ Safe(ts, registered)
  BY <1>3, WritesAt, AtIsSafe
<1>8. CASE index > UINT16_MAX
  <2>1. ~(index <= UINT8_MAX) /\ ~(index <= UINT16_MAX)
    <3>1. UINT8_MAX \in Nat /\ ByteSize > 1 /\ ByteSize \in Nat /\ UINT16_MAX \in Nat
      BY ByteAssumption, ByteSizeIsNat
    <3>2. ByteSize * ByteSize >= ByteSize
      BY <3>1, Z3
    <3>3. UINT16_MAX >= UINT8_MAX
      <4>1. ByteSize * ByteSize \in Nat
        BY <3>1
      <4> QED BY <3>1, <3>2, <4>1 DEF UINT16_MAX, ByteSize
    <3> QED BY <1>3, <1>8, <3>1, <3>3
  <2>2. q = SyntaxError(registered)
    BY <1>8
  <2>3. Follows(p, q) /\ Fine(q)
    <3>1. Follows(registered, q)
      BY <1>7, <2>2, SyntaxErrorFollows
    <3> QED BY <1>1, <1>3, <3>1, FollowsOn DEF Writes, Follows
  <2> HIDE DEF q
  <2>4. CASE assignable /\ Check(q, "EQUAL")
    <3>1. q.current.type # "EOF"
      BY <2>4 DEF Check
    <3>2. Space(ts, parse, q, 0)
      BY <1>1, <2>3, SpaceAfter
    <3>3. Space(ts, parse, Advance(q), 1)
      BY <2>3, <3>1, <3>2, SpaceAfterToken
    <3>4. Fine(Advance(q)) /\ Room(parse, Advance(q), 1)
      BY <2>3, <3>3, AdvanceFollows, SpaceIsRoom
    <3>5. Fine(r)
      BY <3>4, ExpressionFollows
    <3>6. result = SyntaxError(r)
      BY <1>4, <2>1, <2>4 DEF EmitIndexed
    <3>7. result.errored
      BY <3>5, <3>6, SyntaxErrorFollows
    <3> QED BY <1>5, <3>7, WritesError DEF result
  <2>5. CASE ~(assignable /\ Check(q, "EQUAL"))
    <3>1. result = SyntaxError(q)
      BY <1>4, <2>1, <2>5 DEF EmitIndexed
    <3>2. result.errored
      BY <2>3, <3>1, SyntaxErrorFollows
    <3> QED BY <1>5, <3>2, WritesError DEF result
  <2> QED BY <2>4, <2>5
<1>9. CASE ~(index > UINT16_MAX)
  <2>1. q = registered
    BY <1>9
  <2>2. Space(ts, parse, q, 0)
    BY <1>1, <1>3, <2>1, SpaceAfter DEF Writes
  <2> HIDE DEF q
  <2>3. CASE assignable /\ Check(q, "EQUAL")
    <3>1. q.current.type # "EOF"
      BY <2>3 DEF Check
    <3>2. Writes(ts, q, r, h, h + 1) /\ At(ts, r, h + 1) /\ Fine(r)
      BY <1>7, <2>1, <2>2, <3>1, TokenThenExpressionWrites
    <3> HIDE DEF r
    <3>3. Healthy(ts, r) => index + 1 \in DOMAIN r.c.constants /\ r.c.constants[index + 1] = v
      <4> SUFFICES ASSUME Healthy(ts, r)
                   PROVE  index + 1 \in DOMAIN r.c.constants /\ r.c.constants[index + 1] = v
        OBVIOUS
      <4>1. Begins(q.c.constants, r.c.constants)
        BY <3>2 DEF Writes, Adds, Keeps
      <4> QED BY <1>3, <1>7, <2>1, <3>2, <4>1, BeginsItems, FineTypes
    <3>4. Safe(ts, r) /\ h + 1 - 1 >= 1 /\ h + 1 - 1 + 1 = h + 1
      BY <1>1, <3>2, AtIsSafe
    <3>5. Writes(ts, r, EmitIndexed(r, "SET_GLOBAL", "SET_GLOBAL_16", index), h + 1, h + 1)
      BY <1>1, <1>2, <1>3, <1>6, <3>3, <3>4, EmitIndexedWrites DEF IsName
    <3>6. Writes(ts, registered, result, h, h + 1)
      BY <1>4, <1>7, <2>1, <2>3, <3>2, <3>5, WritesOn
    <3> QED BY <1>1, <1>3, <3>6, WritesOn DEF result
  <2>4. CASE ~(assignable /\ Check(q, "EQUAL"))
    <3>1. h - 0 >= 1 /\ h - 0 + 1 = h + 1
      BY <1>1
    <3>2. Writes(ts, q, EmitIndexed(q, "GET_GLOBAL", "GET_GLOBAL_16", index), h, h + 1)
      BY <1>1, <1>2, <1>3, <1>6, <1>7, <2>1, <3>1, EmitIndexedWrites DEF IsName
    <3>3. Writes(ts, registered, result, h, h + 1)
      BY <1>4, <2>1, <2>4, <3>2
    <3> QED BY <1>1, <1>3, <3>3, WritesOn DEF result
  <2> QED BY <2>3, <2>4
<1> QED BY <1>8, <1>9

LEMMA RuleVariableWrites ==
    ASSUME NEW ts, NEW parse, NEW p, NEW h, At(ts, p, h), p.previous.type = "IDENTIFIER", NEW assignable,
           Space(ts, parse, p, 0)
    PROVE  Writes(ts, p, RuleVariable(parse, p, assignable), h, h + 1)
<1> DEFINE name == p.previous.text
           slot == GetLocalVariable(p.c, name)
           q == IF p.c.locals[slot + 1].depth = -1 THEN SyntaxError(p) ELSE p
           result == RuleVariable(parse, p, assignable)
<1>1. Safe(ts, p) /\ Fine(p) /\ h \in Nat \ {0} /\ p.c \in FunctionCompiler
      /\ p.c.locals \in Seq(Local) /\ Len(p.c.locals) \in Nat
  BY AtIsSafe, FineTypes
<1>2. name \in Strings /\ name \in Nat
  BY <1>1, TokenFields, StringsAssumption DEF Fine, Parser
<1>3. \/ slot = -1
      \/ /\ slot \in 0 .. Len(p.c.locals) - 1
         /\ slot + 1 \in 1 .. Len(p.c.locals)
         /\ p.c.locals[slot + 1].name = name
  BY <1>1, GetLocalVariableType
<1>4. result = IF slot = -1 THEN GlobalVariable(parse, p, name, assignable)
               ELSE LocalVariable(parse, q, slot, assignable)
  BY DEF RuleVariable
<1>5. Follows(p, result)
  BY <1>1, SpaceIsRoom, RuleVariableFollows
<1> HIDE DEF name, slot, result
<1>6. CASE slot = -1
  BY <1>2, <1>4, <1>6, GlobalVariableWrites DEF result
<1>7. CASE slot # -1 /\ p.c.locals[slot + 1].depth = -1
  <2>1. q = SyntaxError(p)
    BY <1>7
  <2> HIDE DEF q
  <2>2. Follows(p, q) /\ q.errored /\ Fine(q)
    BY <1>1, <2>1, SyntaxErrorFollows DEF Follows
  <2>3. Room(parse, q, 0) /\ slot \in Nat
    <3>1. Space(ts, parse, q, 0)
      <4>1. 0 \in Nat /\ 0 \in 0 .. 0
        OBVIOUS
      <4> QED BY <1>1, <2>2, <4>1, SpaceAfter
    <3> QED BY <1>3, <1>7, <3>1, SpaceIsRoom
  <2>4. Follows(q, result)
    BY <1>4, <1>7, <2>2, <2>3, LocalVariableFollows
  <2>5. result.errored
    BY <2>2, <2>4 DEF Follows
  <2> QED BY <1>5, <2>5, WritesError DEF result
<1>8. CASE slot # -1 /\ p.c.locals[slot + 1].depth # -1
  <2>1. q = p
    BY <1>8
  <2>2. slot \in Nat
    BY <1>3, <1>8
  <2>3. ASSUME Healthy(ts, p) PROVE slot \in 1 .. h - 1
    <3>1. slot + 1 <= h
      BY <1>1, <1>3, <1>8, <2>3 DEF At
    <3>2. slot # 0
      <4>1. p.c.locals[1].name = -1
        BY <2>3 DEF At, Rooted, NoName
      <4>2. slot = 0 => p.c.locals[1].name = name
        BY <1>3, <1>8
      <4> QED BY <1>2, <4>1, <4>2
    <3> QED BY <1>1, <2>2, <3>1, <3>2
  <2> HIDE DEF q
  <2>4. Writes(ts, p, LocalVariable(parse, p, slot, assignable), h, h + 1)
    BY <2>2, <2>3, LocalVariableWrites
  <2> QED BY <1>4, <1>8, <2>1, <2>4 DEF result
<1> QED BY <1>6, <1>7, <1>8

LEMMA RuleShortCircuitWrites ==
    ASSUME NEW ts, NEW parse, NEW p, NEW h, At(ts, p, h), NEW op \in ConditionalJumps,
           NEW precedence \in Nat \ {0}, Space(ts, parse, p, 1)
    PROVE  Writes(ts, p, RuleShortCircuit(parse, p, op, precedence), h + 1, h + 1)
<1> DEFINE q == EmitJump(p, op)
           o == EmitOp(q, "POP")
           r == parse["expression", o, precedence]
<1>1. Safe(ts, p) /\ Fine(p) /\ h \in Nat \ {0} /\ op \in JumpsAhead
  BY AtIsSafe DEF JumpsAhead
<1>2. /\ Follows(p, q) /\ Safe(ts, q) /\ q.c.locals = p.c.locals /\ (Healthy(ts, q) => Healthy(ts, p)) /\ Fine(q)
  BY <1>1, EmitJumpKeeps DEF Follows
<1>3. At(ts, q, h)
  BY <1>2 DEF At, Rooted
<1> HIDE DEF q
<1>4. Writes(ts, q, o, h + 1, h)
  BY <1>1, <1>2, PopWrites
<1>5. At(ts, o, h)
  BY <1>3, <1>4, WritesAt
<1>6. Space(ts, parse, o, 1)
  <2>1. Follows(p, o)
    BY <1>1, <1>2, <1>4, FollowsOn DEF Writes
  <2> QED BY <1>1, <2>1, SpaceAfter
<1>7. Writes(ts, o, r, h, h + 1)
  BY <1>5, <1>6, PrecedenceWrites
<1>8. Writes(ts, p, PatchJump(r, JumpOffset(q)), h + 1, h + 1)
  BY <1>1, <1>7, ShortCircuitWrites DEF q
<1> QED BY <1>8 DEF RuleShortCircuit, q

LEMMA RuleSubscriptWrites ==
    ASSUME NEW ts, NEW parse, NEW p, NEW h, At(ts, p, h), NEW assignable, Space(ts, parse, p, 1)
    PROVE  Writes(ts, p, RuleSubscript(parse, p, assignable), h + 1, h + 1)
<1> DEFINE e == Expression(parse, p)
           q == Consume(e, "RIGHT_BRACKET")
           r == Expression(parse, Advance(q))
<1>1. Safe(ts, p) /\ Fine(p) /\ h \in Nat \ {0} /\ h + 1 \in Nat /\ h + 1 >= h /\ h + 1 + 1 = h + 2
      /\ h + 2 \in Nat \ {0} /\ h + 2 + 1 = h + 3 /\ h + 2 >= h
  BY AtIsSafe
<1>2. At(ts, p, h + 1)
  BY <1>1, AtHigher
<1>3. Writes(ts, p, e, h + 1, h + 2) /\ At(ts, e, h + 2) /\ Fine(e) /\ Safe(ts, e) /\ Follows(p, e)
  BY <1>1, <1>2, ExpressionWrites, AtIsSafe
<1> HIDE DEF e
<1>4. Writes(ts, e, q, h + 2, h + 2)
  BY <1>1, <1>3, ConsumeWrites
<1>5. At(ts, q, h + 2) /\ Fine(q) /\ Safe(ts, q)
  BY <1>3, <1>4, WritesAt, AtIsSafe
<1>6. Writes(ts, p, q, h + 1, h + 2)
  BY <1>1, <1>3, <1>4, WritesOn
<1>7. RuleSubscript(parse, p, assignable) =
        IF assignable /\ Check(q, "EQUAL") THEN EmitOp(r, "SUBSCRIPT_SET") ELSE EmitOp(q, "SUBSCRIPT_GET")
  BY DEF RuleSubscript, e
<1> HIDE DEF q
<1>8. CASE assignable /\ Check(q, "EQUAL")
  <2>1. q.current.type # "EOF"
    BY <1>8 DEF Check
  <2>2. Space(ts, parse, q, 0)
    BY <1>1, <1>6, SpaceAfter DEF Writes
  <2>3. Writes(ts, q, r, h + 2, h + 3) /\ Safe(ts, r)
    BY <1>1, <1>5, <2>1, <2>2, TokenThenExpressionWrites, AtIsSafe
  <2> HIDE DEF r
  <2>4. Writes(ts, r, EmitOp(r, "SUBSCRIPT_SET"), h + 3, h + 1)
    BY <1>1, <2>3, OperationsWrite
  <2>5. Writes(ts, p, r, h + 1, h + 3)
    BY <1>1, <1>6, <2>3, WritesOn
  <2> QED BY <1>1, <1>7, <1>8, <2>4, <2>5, WritesOn
<1>9. CASE ~(assignable /\ Check(q, "EQUAL"))
  <2>1. Writes(ts, q, EmitOp(q, "SUBSCRIPT_GET"), h + 2, h + 1)
    BY <1>1, <1>5, OperationsWrite
  <2> QED BY <1>1, <1>6, <1>7, <1>9, <2>1, WritesOn
<1> QED BY <1>8, <1>9

\* An operator with its last operand before it.
LEMMA OperandThenOpWrites ==
    ASSUME NEW ts, NEW parse, NEW p, NEW h, At(ts, p, h), NEW precedence \in Nat \ {0}, NEW op,
           Space(ts, parse, p, 1)
    PROVE  /\ op \in UnaryOps => Writes(ts, p, EmitOp(parse["expression", p, precedence], op), h, h + 1)
           /\ op \in BinaryOps =>
                 Writes(ts, p, EmitOp(parse["expression", p, precedence], op), h + 1, h + 1)
<1> DEFINE q == parse["expression", p, precedence]
<1>1. Fine(p) /\ h \in Nat \ {0} /\ h + 1 \in Nat /\ h + 1 >= h /\ h + 1 + 1 = h + 2
  BY AtIsSafe
<1>2. At(ts, p, h + 1)
  BY <1>1, AtHigher
<1>3. Writes(ts, p, q, h, h + 1) /\ Writes(ts, p, q, h + 1, h + 2)
  <2>1. Writes(ts, p, q, h + 1, h + 1 + 1)
    BY <1>2, PrecedenceWrites
  <2> QED BY <1>1, <2>1, PrecedenceWrites
<1>4. Safe(ts, q)
  BY <1>3, SafeAfter
<1> HIDE DEF q
<1>5. op \in UnaryOps => Writes(ts, q, EmitOp(q, op), h + 1, h + 1)
  BY <1>1, <1>4, OperationsWrite
<1>6. op \in BinaryOps => Writes(ts, q, EmitOp(q, op), h + 2, h + 1)
  BY <1>1, <1>4, OperationsWrite
<1>7. op \in UnaryOps => Writes(ts, p, EmitOp(q, op), h, h + 1)
  BY <1>1, <1>3, <1>5, WritesOn
<1>8. op \in BinaryOps => Writes(ts, p, EmitOp(q, op), h + 1, h + 1)
  BY <1>1, <1>3, <1>6, WritesOn
<1> QED BY <1>7, <1>8 DEF q

LEMMA PrefixRuleWrites ==
    ASSUME NEW ts, NEW parse, NEW p, NEW h, At(ts, p, h), NEW assignable, p.previous.type \in PrefixTokens,
           Space(ts, parse, p, 2)
    PROVE  Writes(ts, p, PrefixRule(parse, p, assignable), h, h + 1)
<1> DEFINE type == p.previous.type
<1>1. Safe(ts, p) /\ Fine(p) /\ h \in Nat \ {0} /\ p.previous \in AnyToken
  BY AtIsSafe DEF Fine, Parser
<1>2. Space(ts, parse, p, 1) /\ Space(ts, parse, p, 0)
  BY <1>1, SpaceAfter, FollowsItself
<1>3. CASE type = "LEFT_PAREN"
  BY <1>2, <1>3, RuleGroupingWrites, OperatorTables DEF PrefixRule
<1>4. CASE type = "LEFT_BRACKET"
  <2>1. "ARRAY" \in DOMAIN Closing /\ h + UnderItems["ARRAY"] = h
    BY <1>1 DEF Closing, UnderItems
  <2>2. PrefixRule(parse, p, assignable) = ItemList(parse, p, "ARRAY")
    BY <1>4, OperatorTables DEF PrefixRule
  <2> QED BY <2>1, <2>2, ItemListWrites
<1>5. CASE type \in DOMAIN UnaryCode
  <2>1. PREC_UNARY \in Nat \ {0} /\ UnaryCode[type] \in UnaryOps
    BY <1>5, OperatorTables DEF PREC_UNARY
  <2>2. PrefixRule(parse, p, assignable)
            = EmitOp(parse["expression", p, PREC_UNARY], UnaryCode[type])
    BY <1>5, OperatorTables DEF PrefixRule
  <2> QED BY <1>2, <2>1, <2>2, OperandThenOpWrites
<1>6. CASE type = "IDENTIFIER"
  <2>1. PrefixRule(parse, p, assignable) = RuleVariable(parse, p, assignable)
    BY <1>6, OperatorTables DEF PrefixRule
  <2> QED BY <1>2, <1>6, <2>1, RuleVariableWrites
<1>7. CASE type = "STRING"
  <2>1. PrefixRule(parse, p, assignable) = EmitConstant(p, String(p.previous.text))
    BY <1>7, OperatorTables DEF PrefixRule
  <2>2. p.previous.text \in Strings /\ p.previous.text \in Int
    BY <1>1, <1>7, TokenFields
  <2>3. String(p.previous.text) \in Value /\ ValidConstant(String(p.previous.text), p.base, p.functions)
    BY <2>2, StringIsValue DEF String, ValidConstant
  <2> QED BY <1>1, <2>1, <2>3, EmitConstantWrites
<1>8. CASE type = "NUMBER"
  <2>1. p.previous.text \in Int
    BY <1>1, TokenFields
  <2> QED BY <1>8, <2>1, NumberWrites, OperatorTables DEF PrefixRule
<1>9. CASE type \in {"FALSE", "NULL", "TRUE"}
  <2>1. type \in Literals
    BY <1>9 DEF Literals
  <2> QED BY <1>1, <1>9, <2>1, OperationsWrite, OperatorTables DEF PrefixRule
<1> QED BY <1>3, <1>4, <1>5, <1>6, <1>7, <1>8, <1>9, OperatorTables DEF PrefixTokens

LEMMA InfixRuleWrites ==
    ASSUME NEW ts, NEW parse, NEW p, NEW h, At(ts, p, h), NEW assignable, Precedence(p.previous.type) # 0,
           Space(ts, parse, p, 2)
    PROVE  Writes(ts, p, InfixRule(parse, p, assignable), h + 1, h + 1)
<1> DEFINE type == p.previous.type
<1>1. Space(ts, parse, p, 1) /\ Fine(p)
  BY SpaceAfter, FollowsItself, AtIsSafe
<1>2. CASE type = "LEFT_PAREN"
  <2>1. "CALL" \in DOMAIN Closing /\ UnderItems["CALL"] = 1
    BY DEF Closing, UnderItems
  <2>2. InfixRule(parse, p, assignable) = ItemList(parse, p, "CALL")
    BY <1>2, PrecedenceOfOperators DEF InfixRule
  <2>3. Writes(ts, p, ItemList(parse, p, "CALL"), h + UnderItems["CALL"], h + 1)
    BY <2>1, ItemListWrites
  <2> QED BY <2>1, <2>2, <2>3
<1>3. CASE type = "LEFT_BRACKET"
  BY <1>1, <1>3, RuleSubscriptWrites, PrecedenceOfOperators DEF InfixRule
<1>4. CASE type = "AMPER_AMPER"
  <2>1. InfixRule(parse, p, assignable) = RuleShortCircuit(parse, p, "JUMP_IF_FALSE", PREC_AND)
    BY <1>4, PrecedenceOfOperators DEF InfixRule
  <2>2. PREC_AND \in Nat \ {0} /\ "JUMP_IF_FALSE" \in ConditionalJumps
    BY DEF PREC_AND, ConditionalJumps
  <2> QED BY <1>1, <2>1, <2>2, RuleShortCircuitWrites
<1>5. CASE type = "PIPE_PIPE"
  <2>1. InfixRule(parse, p, assignable) = RuleShortCircuit(parse, p, "JUMP_IF_TRUE", PREC_OR)
    BY <1>5, PrecedenceOfOperators DEF InfixRule
  <2>2. PREC_OR \in Nat \ {0} /\ "JUMP_IF_TRUE" \in ConditionalJumps
    BY DEF PREC_OR, ConditionalJumps
  <2> QED BY <1>1, <2>1, <2>2, RuleShortCircuitWrites
<1>6. CASE type \in DOMAIN BinaryCode
  <2>1. Precedence(type) + 1 \in Nat \ {0}
    BY PrecedenceOfOperators
  <2>2. BinaryCode[type] \in BinaryOps
    BY <1>6, OperatorTables
  <2>3. type \notin {"LEFT_PAREN", "LEFT_BRACKET", "AMPER_AMPER", "PIPE_PIPE"}
    BY <1>6, PrecedenceOfOperators
  <2>4. InfixRule(parse, p, assignable)
            = EmitOp(parse["expression", p, Precedence(type) + 1], BinaryCode[type])
    BY <1>6, <2>3 DEF InfixRule
  <2> QED BY <1>1, <2>1, <2>2, <2>4, OperandThenOpWrites
<1> QED BY <1>2, <1>3, <1>4, <1>5, <1>6, PrecedenceOfOperators

LEMMA InfixWrites ==
    ASSUME NEW ts, NEW parse, NEW p, NEW h, At(ts, p, h), NEW precedence \in Nat \ {0}, Space(ts, parse, p, 1)
    PROVE  Writes(ts, p, parse["infix", p, precedence], h + 1, h + 1)
<1>1. "infix" \in Goals /\ Rank("infix") + 1 = 1
  BY DEF Goals, Rank
<1> QED BY <1>1, Written, AtIsSafe DEF Wrote

\* Operators go on from one value, and leave one.
LEMMA InfixRulesWrites ==
    ASSUME NEW ts, NEW parse, NEW p, NEW h, At(ts, p, h), NEW precedence \in Nat \ {0}, Space(ts, parse, p, 0)
    PROVE  Writes(ts, p, InfixRules(parse, p, precedence), h + 1, h + 1)
<1> DEFINE q == Advance(p)
           r == InfixRule(parse, q, Assignable(precedence))
           s == parse["infix", r, precedence]
<1>1. Safe(ts, p) /\ Fine(p) /\ h + 1 \in Nat \ {0}
  BY AtIsSafe
<1>2. CASE precedence <= Precedence(p.current.type)
  <2>1. Precedence(p.current.type) # 0 /\ p.current.type # "EOF"
    BY <1>2, PrecedenceOfOperators
  <2>2. q.previous = p.current
    BY <1>1, AdvanceReads
  <2>3. Writes(ts, p, q, h + 1, h + 1)
    BY <1>1, AdvanceWrites
  <2>4. At(ts, q, h) /\ Fine(q)
    BY <2>3, WritesAt
  <2>5. Space(ts, parse, q, 2)
    BY <1>1, <2>1, SpaceAfterToken
  <2> HIDE DEF q
  <2>6. Writes(ts, q, r, h + 1, h + 1)
    BY <2>1, <2>2, <2>4, <2>5, InfixRuleWrites
  <2> HIDE DEF r
  <2>7. At(ts, r, h)
    BY <2>4, <2>6, WritesAt
  <2>8. Space(ts, parse, r, 1)
    BY <2>4, <2>5, <2>6, SpaceAfter DEF Writes
  <2>9. Writes(ts, r, s, h + 1, h + 1)
    BY <2>7, <2>8, InfixWrites
  <2> HIDE DEF s
  <2>10. Writes(ts, p, s, h + 1, h + 1)
    BY <1>1, <2>3, <2>4, <2>6, <2>9, WritesOn
  <2> QED BY <1>2, <2>10 DEF InfixRules, q, r, s
<1>3. CASE ~(precedence <= Precedence(p.current.type))
  BY <1>1, <1>3, WritesNothing, FollowsItself DEF InfixRules
<1> QED BY <1>2, <1>3

LEMMA RefuseAssignmentWrites ==
    ASSUME NEW ts, NEW p, Safe(ts, p), NEW h \in Nat \ {0}, NEW assignable
    PROVE  Writes(ts, p, RefuseAssignment(p, assignable), h, h)
<1>1. Fine(p)
  BY DEF Safe
<1>2. Follows(p, SyntaxError(Advance(p))) /\ SyntaxError(Advance(p)).errored
  BY <1>1, AdvanceFollows, SyntaxErrorFollows, FollowsOn
<1> QED BY <1>1, <1>2, WritesError, WritesNothing, FollowsItself DEF RefuseAssignment

LEMMA AfterFirstWrites ==
    ASSUME NEW ts, NEW parse, NEW p, NEW h, At(ts, p, h), NEW precedence \in Nat \ {0},
           p.previous.type \in PrefixTokens => Space(ts, parse, p, 2)
    PROVE  Writes(ts, p, AfterFirst(parse, p, precedence), h, h + 1)
<1> DEFINE q == PrefixRule(parse, p, Assignable(precedence))
           r == parse["infix", q, precedence]
           s == RefuseAssignment(r, Assignable(precedence))
<1>1. Fine(p) /\ h + 1 \in Nat \ {0}
  BY AtIsSafe
<1>2. CASE p.previous.type \notin PrefixTokens
  BY <1>1, <1>2, SyntaxErrorWrites DEF AfterFirst
<1>3. CASE p.previous.type \in PrefixTokens
  <2>1. Writes(ts, p, q, h, h + 1)
    BY <1>3, PrefixRuleWrites
  <2> HIDE DEF q
  <2>2. At(ts, q, h) /\ Fine(q)
    BY <2>1, WritesAt
  <2>3. Space(ts, parse, q, 1)
    BY <1>1, <1>3, <2>1, SpaceAfter DEF Writes
  <2>4. Writes(ts, q, r, h + 1, h + 1)
    BY <2>2, <2>3, InfixWrites
  <2> HIDE DEF r
  <2>5. Safe(ts, r)
    BY <2>4, SafeAfter
  <2>6. Writes(ts, r, s, h + 1, h + 1)
    BY <1>1, <2>5, RefuseAssignmentWrites
  <2> HIDE DEF s
  <2>7. Writes(ts, p, r, h, h + 1)
    BY <1>1, <2>1, <2>4, WritesOn
  <2>8. Writes(ts, p, s, h, h + 1)
    BY <1>1, <2>6, <2>7, WritesOn
  <2> QED BY <1>3, <2>8 DEF AfterFirst, q, r, s
<1> QED BY <1>2, <1>3

\* An expression leaves one value more.
LEMMA ParsePrecedenceWrites ==
    ASSUME NEW ts, NEW parse, NEW p, NEW h, At(ts, p, h), NEW precedence \in Nat \ {0}, Space(ts, parse, p, 0)
    PROVE  Writes(ts, p, ParsePrecedence(parse, p, precedence), h, h + 1)
<1> DEFINE q == Advance(p)
<1>1. Safe(ts, p) /\ Fine(p) /\ h \in Nat \ {0}
  BY AtIsSafe
<1>2. Writes(ts, p, q, h, h) /\ q.previous = p.current
  BY <1>1, AdvanceWrites, AdvanceReads
<1>3. At(ts, q, h)
  BY <1>2, WritesAt
<1>4. p.current.type \in PrefixTokens => Space(ts, parse, q, 2)
  BY <1>1, SpaceAfterToken DEF PrefixTokens
<1> HIDE DEF q
<1>5. Writes(ts, q, AfterFirst(parse, q, precedence), h, h + 1)
  BY <1>2, <1>3, <1>4, AfterFirstWrites
<1>6. Writes(ts, p, AfterFirst(parse, q, precedence), h, h + 1)
  BY <1>1, <1>2, <1>5, WritesOn
<1> QED BY <1>6 DEF ParsePrecedence, q
-----------------------------------------------------------------------------
(* Statements. *)

LEMMA SpaceAfterMove ==
    ASSUME NEW ts, NEW parse, NEW p, NEW q, Fine(p), Moves(p, q), NEW more \in Nat,
           Space(ts, parse, p, more), NEW fewer \in 0 .. more
    PROVE  Space(ts, parse, q, fewer)
<1>1. PICK calls \in Nat :
          Serves(parse, calls) /\ Writing(ts, parse, calls) /\ 3 * Left(p) + more <= calls
  BY DEF Space
<1>2. Left(p) \in Nat /\ Left(q) \in Nat /\ Left(q) <= Left(p)
  BY LeftIsNat DEF Moves
<1>3. 3 * Left(q) + fewer <= calls
  BY <1>1, <1>2
<1> QED BY <1>1, <1>3 DEF Space

\* Between two statements, with so many locals.
Level(ts, p, h) == Settled(ts, p) /\ h \in Nat \ {0} /\ (Healthy(ts, p) => Base(p) = h)

LEMMA LevelAt ==
    ASSUME NEW ts, NEW p, NEW h, Level(ts, p, h)
    PROVE  /\ At(ts, p, h) /\ Settled(ts, p) /\ Safe(ts, p) /\ Fine(p)
           /\ h \in Nat \ {0} /\ h + 1 \in Nat \ {0} /\ h \in Nat /\ h + 1 \in Nat
<1>1. Safe(ts, p) /\ Fine(p) /\ h \in Nat \ {0} /\ Settled(ts, p)
  BY DEF Level, Settled, Safe
<1>2. ASSUME Healthy(ts, p)
      PROVE  Rooted(p.c) /\ \A i \in DOMAIN p.c.locals : p.c.locals[i].depth # -1 => i <= h
  <2>1. Rooted(p.c) /\ h = Len(p.c.locals)
    BY <1>2 DEF Level, Settled, Base
  <2>2. DOMAIN p.c.locals = 1 .. Len(p.c.locals)
    BY <1>1, FineTypes
  <2> QED BY <2>1, <2>2
<1> QED BY <1>1, <1>2 DEF At

LEMMA LevelAfter ==
    ASSUME NEW ts, NEW p, NEW h, Level(ts, p, h), NEW q, NEW g, NEW k, Writes(ts, p, q, g, k)
    PROVE  Level(ts, q, h) /\ Fine(q)
<1>1. Safe(ts, q) /\ Fine(p) /\ Fine(q)
  BY LevelAt, SafeAfter DEF Safe
<1>2. q.c.scope_depth = p.c.scope_depth /\ q.c.main = p.c.main
  BY DEF Writes, Follows
<1>3. Healthy(ts, q) => Healthy(ts, p) /\ q.c.locals = p.c.locals
  BY <1>1, WritesHealthy DEF Adds
<1>4. Settled(ts, p) /\ h \in Nat \ {0} /\ (Healthy(ts, p) => Base(p) = h)
  BY DEF Level
<1>5. Settled(ts, q)
  BY <1>1, <1>2, <1>3, <1>4 DEF Settled, Rooted
<1> QED BY <1>1, <1>3, <1>4, <1>5 DEF Level, Base

\* Nothing comes after RETURN, so any height will do there.
LEMMA ReturnOpWrites ==
    ASSUME NEW ts, NEW p, Safe(ts, p), ~p.c.main, NEW h \in Nat \ {0}, NEW k \in Nat \ {0}
    PROVE  Writes(ts, p, EmitOp(p, "RETURN"), h, k)
<1> DEFINE bytes == << Code("RETURN") >>
           q == Emit(p, bytes)
           a == Len(p.c.code)
<1>1. Fine(p) /\ "RETURN" \in Ops /\ a \in Nat
  BY OpsListed, FineTypes DEF Safe
<1>2. bytes \in Seq(Nat) /\ Len(bytes) = 1 /\ bytes[1] = Code("RETURN")
  BY <1>1, CodeOfOp
<1> HIDE DEF bytes
<1>3. Follows(p, q) /\ Keeps(p, q) /\ q.c.locals = p.c.locals /\ Len(q.c.code) = a + 1
      /\ (Healthy(ts, q) <=> Healthy(ts, p)) /\ (Sane(ts, q) <=> Sane(ts, p)) /\ q.c.main = p.c.main
  BY <1>1, <1>2, EmitKeeps, EmitFields, ZenonT(60)
<1>4. q.c.code[a + 1] = Code("RETURN")
  BY <1>1, <1>2, EmittedBytes
<1> HIDE DEF q
<1>5. "RETURN" \notin ByteOperand \cup ShortOperand /\ "RETURN" \notin GlobalOps \cup ConstantOps
      /\ "RETURN" \notin {"GET_LOCAL", "SET_LOCAL"}
  BY DEF ByteOperand, ShortOperand, GlobalOps, ConstantOps, DeclGlobalOps, GetGlobalOps, SetGlobalOps
<1>6. IsOp(q.c, a) /\ OpAt(q.c, a) = "RETURN" /\ Holds(q.c, a, "RETURN", 0, a + 1)
  BY <1>1, <1>4, <1>5, HoldsOp
<1>7. NextOffset(q.c, a) = a + 1 /\ Successors(q.c, a) = {}
  BY <1>6 DEF Holds, Successors
<1>8. Runs(ts, q.c, a, h)
  BY <1>3, <1>5, <1>6 DEF Runs
<1>9. a + 1 <= Len(q.c.code) /\ a + 1 = NextOffset(q.c, a)
  BY <1>1, <1>3, <1>7
<1>10. Segment(ts, q.c, a, a + 1, h, k, {})
  BY <1>1, <1>7, <1>8, <1>9, SegmentOfOne
<1>11. Healthy(ts, q) => Adds(ts, p, q, h, k)
  BY <1>3, <1>10 DEF Adds, Safe
<1>12. Writes(ts, p, q, h, k)
  BY <1>3, <1>11 DEF Writes
<1> QED BY <1>12 DEF EmitOp, q, bytes

LEMMA ExpressionStatementWrites ==
    ASSUME NEW ts, NEW parse, NEW p, NEW h, Level(ts, p, h), Space(ts, parse, p, 1)
    PROVE  Writes(ts, p, ExpressionStatement(parse, p), h, h)
<1> DEFINE q == Expression(parse, p)
           r == Consume(q, "SEMICOLON")
<1>1. At(ts, p, h) /\ Fine(p) /\ h \in Nat \ {0} /\ h + 1 \in Nat \ {0}
  BY LevelAt
<1>2. Writes(ts, p, q, h, h + 1) /\ At(ts, q, h + 1) /\ Safe(ts, q)
  BY <1>1, ExpressionWrites, AtIsSafe
<1> HIDE DEF q
<1>3. Writes(ts, q, r, h + 1, h + 1)
  BY <1>1, <1>2, ConsumeWrites
<1>4. Writes(ts, p, r, h, h + 1) /\ Safe(ts, r)
  BY <1>1, <1>2, <1>3, WritesOn, SafeAfter
<1> HIDE DEF r
<1>5. Writes(ts, r, EmitOp(r, "POP"), h + 1, h)
  BY <1>1, <1>4, PopWrites
<1>6. Writes(ts, p, EmitOp(r, "POP"), h, h)
  BY <1>1, <1>4, <1>5, WritesOn
<1> QED BY <1>6 DEF ExpressionStatement, q, r

\* The value a variable begins with.
LEMMA InitializerWrites ==
    ASSUME NEW ts, NEW parse, NEW p, NEW h, At(ts, p, h), Space(ts, parse, p, 0)
    PROVE  Writes(ts, p, Initializer(parse, p), h, h + 1)
<1>1. Safe(ts, p) /\ Fine(p) /\ h \in Nat \ {0}
  BY AtIsSafe
<1>2. CASE Check(p, "EQUAL")
  <2>1. p.current.type # "EOF"
    BY <1>2 DEF Check
  <2>2. Writes(ts, p, Expression(parse, Advance(p)), h, h + 1)
    BY <2>1, TokenThenExpressionWrites
  <2> QED BY <1>2, <2>2 DEF Initializer
<1>3. CASE ~Check(p, "EQUAL")
  <2>1. Writes(ts, p, EmitOp(p, "NULL"), h, h + 1)
    BY <1>1, OperationsWrite DEF Literals
  <2> QED BY <1>3, <2>1 DEF Initializer
<1> QED BY <1>2, <1>3

\* The end of a function that is no script.
LEMMA NullThenReturnWrites ==
    ASSUME NEW ts, NEW p, Safe(ts, p), ~p.c.main, NEW h \in Nat \ {0}, NEW k \in Nat \ {0}
    PROVE  Writes(ts, p, EmitReturn(p), h, k)
<1> DEFINE q == EmitOp(p, "NULL")
<1>1. Writes(ts, p, q, h, h + 1)
  BY OperationsWrite DEF Literals
<1>2. Safe(ts, q) /\ ~q.c.main /\ h + 1 \in Nat \ {0} /\ Fine(p)
  BY <1>1, SafeAfter DEF Writes, Follows, Safe
<1> HIDE DEF q
<1>3. Writes(ts, q, EmitOp(q, "RETURN"), h + 1, k)
  BY <1>2, ReturnOpWrites
<1>4. Writes(ts, p, EmitOp(q, "RETURN"), h, k)
  BY <1>1, <1>2, <1>3, WritesOn
<1> QED BY <1>4 DEF EmitReturn, q

\* A script has no return.
LEMMA ReturnStatementWrites ==
    ASSUME NEW ts, NEW parse, NEW p, NEW h, Level(ts, p, h), Space(ts, parse, p, 1)
    PROVE  Writes(ts, p, ReturnStatement(parse, p), h, h)
<1>1. At(ts, p, h) /\ Safe(ts, p) /\ Fine(p) /\ h \in Nat \ {0} /\ h + 1 \in Nat \ {0}
  BY LevelAt
<1>2. CASE p.c.main
  <2>1. Follows(p, SyntaxError(p)) /\ SyntaxError(p).errored /\ Fine(SyntaxError(p))
    BY <1>1, SyntaxErrorFollows DEF Follows
  <2>2. ReturnStatement(parse, p) = ReturnValue(parse, SyntaxError(p))
    BY <1>2 DEF ReturnStatement
  <2>3. Room(parse, SyntaxError(p), 1)
    BY <1>1, <2>1, SpaceIsRoom, RoomAfter
  <2> DEFINE q == SyntaxError(p)
             r == Expression(parse, q)
             s == Consume(r, "SEMICOLON")
  <2> HIDE DEF q
  <2>4. Follows(q, r) /\ Fine(r)
    BY <2>1, <2>3, ExpressionFollows DEF q
  <2>5. Follows(r, s) /\ Fine(s)
    BY <2>4, ConsumeFollows DEF Follows
  <2>6. Follows(q, s) /\ Fine(q)
    BY <2>1, <2>4, <2>5, FollowsOn DEF q
  <2> HIDE DEF s, r
  <2>7. Follows(s, EmitOp(s, "RETURN"))
    BY <2>5, OpsListed, EmitOpFollows
  <2>8. Follows(q, EmitOp(s, "RETURN"))
    BY <2>6, <2>7, FollowsOn
  <2>9. Follows(q, Advance(q)) /\ Fine(Advance(q))
    BY <2>6, AdvanceFollows
  <2>10. Follows(q, EmitReturn(Advance(q)))
    BY <2>6, <2>9, EmitReturnFollows, FollowsOn
  <2>11. Follows(q, ReturnValue(parse, q))
    BY <2>8, <2>10 DEF ReturnValue, s, r
  <2>12. Follows(p, ReturnValue(parse, q)) /\ ReturnValue(parse, q).errored
    BY <1>1, <2>1, <2>11, FollowsOn DEF q, Follows
  <2>13. Writes(ts, p, ReturnValue(parse, q), h, h)
    BY <2>12, WritesError
  <2> QED BY <2>2, <2>13 DEF q
<1>3. CASE ~p.c.main /\ Check(p, "SEMICOLON")
  <2> DEFINE q == Advance(p)
  <2>1. Writes(ts, p, q, h, h)
    BY <1>1, AdvanceWrites
  <2>2. Safe(ts, q) /\ ~q.c.main
    BY <1>3, <2>1, SafeAfter DEF Writes, Follows
  <2> HIDE DEF q
  <2>3. Writes(ts, q, EmitReturn(q), h, h)
    BY <1>1, <2>2, NullThenReturnWrites
  <2>4. Writes(ts, p, EmitReturn(q), h, h)
    BY <1>1, <2>1, <2>3, WritesOn
  <2> QED BY <1>3, <2>4 DEF ReturnStatement, ReturnValue, q
<1>4. CASE ~p.c.main /\ ~Check(p, "SEMICOLON")
  <2> DEFINE q == Expression(parse, p)
             r == Consume(q, "SEMICOLON")
  <2>1. Writes(ts, p, q, h, h + 1) /\ At(ts, q, h + 1) /\ Safe(ts, q)
    BY <1>1, ExpressionWrites, AtIsSafe
  <2> HIDE DEF q
  <2>2. Writes(ts, q, r, h + 1, h + 1)
    BY <1>1, <2>1, ConsumeWrites
  <2>3. Writes(ts, p, r, h, h + 1)
    BY <1>1, <2>1, <2>2, WritesOn
  <2> HIDE DEF r
  <2>4. Safe(ts, r) /\ ~r.c.main
    BY <1>4, <2>3, SafeAfter DEF Writes, Follows
  <2>5. Writes(ts, r, EmitOp(r, "RETURN"), h + 1, h)
    BY <1>1, <2>4, ReturnOpWrites
  <2>6. Writes(ts, p, EmitOp(r, "RETURN"), h, h)
    BY <1>1, <2>3, <2>5, WritesOn
  <2> QED BY <1>4, <2>6 DEF ReturnStatement, ReturnValue, q, r
<1> QED BY <1>2, <1>3, <1>4

\* The condition of an if or a while, before the jump.
Tested(parse, p) ==
    Consume(Expression(parse, Consume(p, "LEFT_PAREN")), "RIGHT_PAREN")

\* A condition is taken from the stack on both branches.
LEMMA TestedWrites ==
    ASSUME NEW ts, NEW parse, NEW p, NEW h, At(ts, p, h), Space(ts, parse, p, 1)
    PROVE  /\ Writes(ts, p, Tested(parse, p), h, h + 1) /\ Safe(ts, Tested(parse, p))
           /\ Condition(parse, p) = EmitJump(Tested(parse, p), "JUMP_IF_FALSE")
<1> DEFINE q == Consume(p, "LEFT_PAREN")
           r == Expression(parse, q)
           s == Consume(r, "RIGHT_PAREN")
<1>1. Safe(ts, p) /\ Fine(p) /\ h \in Nat \ {0} /\ h + 1 \in Nat \ {0}
  BY AtIsSafe
<1>2. Writes(ts, p, q, h, h)
  BY <1>1, ConsumeWrites
<1>3. At(ts, q, h) /\ Space(ts, parse, q, 1)
  BY <1>1, <1>2, WritesAt, SpaceAfter DEF Writes
<1> HIDE DEF q
<1>4. Writes(ts, q, r, h, h + 1) /\ Safe(ts, r)
  BY <1>3, ExpressionWrites, AtIsSafe
<1> HIDE DEF r
<1>5. Writes(ts, r, s, h + 1, h + 1)
  BY <1>1, <1>4, ConsumeWrites
<1>6. Writes(ts, p, r, h, h + 1)
  BY <1>1, <1>2, <1>4, WritesOn
<1>7. Writes(ts, p, s, h, h + 1) /\ Safe(ts, s)
  BY <1>1, <1>5, <1>6, WritesOn, SafeAfter
<1> QED BY <1>7 DEF Tested, Condition, q, r, s

\* A statement leaves the stack as it was.
LEMMA StatementWrites ==
    ASSUME NEW ts, NEW parse, NEW p, NEW h, Level(ts, p, h), Space(ts, parse, p, 2)
    PROVE  Writes(ts, p, parse["statement", p, 0], h, h)
<1> DEFINE q == parse["statement", p, 0]
<1>1. "statement" \in Goals /\ Rank("statement") + 1 = 2 /\ "statement" \notin {"expression", "infix"}
  BY DEF Goals, Rank
<1>2. Fine(p) /\ Settled(ts, p) /\ (Healthy(ts, p) => Base(p) = h)
  BY LevelAt DEF Level
<1>3. Wrote(ts, "statement", p, q, 0)
  BY <1>1, <1>2, Written
<1> HIDE DEF q
<1>4. Writes(ts, p, q, Base(p), Base(p))
  BY <1>2, <1>3 DEF Wrote
<1>5. Healthy(ts, q) => Healthy(ts, p) /\ Adds(ts, p, q, Base(p), Base(p))
  BY <1>2, <1>4, WritesHealthy
<1>6. Healthy(ts, q) => Adds(ts, p, q, h, h)
  BY <1>2, <1>5
<1>7. Writes(ts, p, q, h, h)
  BY <1>4, <1>6 DEF Writes
<1> QED BY <1>7 DEF q

LEMMA BodyWrites ==
    ASSUME NEW ts, NEW parse, NEW p, NEW h, Level(ts, p, h), Space(ts, parse, p, 2)
    PROVE  Writes(ts, p, Body(parse, p), h + 1, h)
<1> DEFINE q == EmitOp(p, "POP")
<1>1. Safe(ts, p) /\ Fine(p) /\ h \in Nat \ {0}
  BY LevelAt
<1>2. Writes(ts, p, q, h + 1, h)
  BY <1>1, PopWrites
<1>3. Level(ts, q, h) /\ Space(ts, parse, q, 2)
  BY <1>1, <1>2, LevelAfter, SpaceAfter DEF Writes
<1> HIDE DEF q
<1>4. Writes(ts, q, parse["statement", q, 0], h, h)
  BY <1>3, StatementWrites
<1>5. Writes(ts, p, parse["statement", q, 0], h + 1, h)
  BY <1>1, <1>2, <1>4, WritesOn
<1> QED BY <1>5 DEF Body, q

LEMMA ElseBranchWrites ==
    ASSUME NEW ts, NEW parse, NEW p, NEW h, Level(ts, p, h), Space(ts, parse, p, 0)
    PROVE  Writes(ts, p, ElseBranch(parse, p), h, h)
<1> DEFINE q == Advance(p)
<1>1. Safe(ts, p) /\ Fine(p) /\ h \in Nat \ {0}
  BY LevelAt
<1>2. CASE Check(p, "ELSE")
  <2>1. p.current.type # "EOF"
    BY <1>2 DEF Check
  <2>2. Writes(ts, p, q, h, h)
    BY <1>1, AdvanceWrites
  <2>3. Level(ts, q, h) /\ Space(ts, parse, q, 2)
    BY <1>1, <2>1, <2>2, LevelAfter, SpaceAfterToken
  <2> HIDE DEF q
  <2>4. Writes(ts, q, parse["statement", q, 0], h, h)
    BY <2>3, StatementWrites
  <2>5. Writes(ts, p, parse["statement", q, 0], h, h)
    BY <1>1, <2>2, <2>4, WritesOn
  <2> QED BY <1>2, <2>5 DEF ElseBranch, q
<1>3. CASE ~Check(p, "ELSE")
  <2>1. Writes(ts, p, p, h, h)
    BY <1>1, FollowsItself, WritesNothing
  <2> QED BY <1>3, <2>1 DEF ElseBranch
<1> QED BY <1>2, <1>3

LEMMA LevelKept ==
    ASSUME NEW ts, NEW p, NEW h, Level(ts, p, h), NEW q, Follows(p, q), Safe(ts, q),
           Healthy(ts, q) => Keeps(p, q) /\ q.c.locals = p.c.locals
    PROVE  Level(ts, q, h)
<1>1. Fine(p) /\ Settled(ts, p) /\ h \in Nat \ {0} /\ (Healthy(ts, p) => Base(p) = h)
  BY LevelAt DEF Level
<1>2. q.c.scope_depth = p.c.scope_depth /\ q.c.main = p.c.main
  BY DEF Follows
<1>3. Healthy(ts, q) => Healthy(ts, p)
  BY <1>1, HealthyBefore DEF Keeps
<1>4. Settled(ts, q)
  BY <1>1, <1>2, <1>3 DEF Settled, Rooted
<1> QED BY <1>1, <1>3, <1>4 DEF Level, Base

\* Both branches leave the stack as they find it.
LEMMA IfStatementWrites ==
    ASSUME NEW ts, NEW parse, NEW p, NEW h, Level(ts, p, h), Space(ts, parse, p, 2)
    PROVE  Writes(ts, p, IfStatement(parse, p), h, h)
<1> DEFINE e == Tested(parse, p)
           j == EmitJump(e, "JUMP_IF_FALSE")
           t == Body(parse, j)
           u == EmitJump(t, "JUMP")
           v == PatchJump(u, JumpOffset(j))
           w == EmitOp(v, "POP")
           x == ElseBranch(parse, w)
           y == PatchJump(x, JumpOffset(u))
<1>1. At(ts, p, h) /\ Safe(ts, p) /\ Fine(p) /\ h \in Nat \ {0} /\ h + 1 \in Nat \ {0}
  BY LevelAt
<1>2. Space(ts, parse, p, 1)
  BY <1>1, FollowsItself, SpaceAfter
<1>3. Writes(ts, p, e, h, h + 1) /\ Safe(ts, e) /\ Condition(parse, p) = j
  BY <1>1, <1>2, TestedWrites
<1>4. IfStatement(parse, p) = y
  BY <1>3 DEF IfStatement, IfBranches, EndIf
<1> HIDE DEF e
<1>5. Level(ts, e, h) /\ Space(ts, parse, e, 2) /\ Fine(e)
  BY <1>1, <1>3, LevelAfter, SpaceAfter DEF Writes
<1>6. Follows(e, j) /\ Keeps(e, j) /\ Safe(ts, j) /\ j.c.locals = e.c.locals
  BY <1>3, EmitJumpKeeps DEF JumpsAhead, ConditionalJumps
<1>7. j = EmitJump(e, "JUMP_IF_FALSE")
  OBVIOUS
<1> HIDE DEF j
<1>8. Level(ts, j, h) /\ Space(ts, parse, j, 2)
  BY <1>5, <1>6, LevelKept, SpaceAfter
<1>9. Writes(ts, j, t, h + 1, h)
  BY <1>8, BodyWrites
<1>10. Follows(j, t) /\ Fine(t) /\ u = EmitJump(t, "JUMP")
  BY <1>9 DEF Writes, Follows
<1> HIDE DEF t
<1>11. Forked(ts, e, v, Len(t.c.code), h) /\ JumpOffset(u) = Len(t.c.code) + 1
  <2> HIDE DEF u
  <2>1. v = PatchJump(u, JumpOffset(j))
    OBVIOUS
  <2> HIDE DEF v
  <2> QED BY ONLY <1>1, <1>3, <1>7, <1>9, <1>10, <2>1, ThenWrites
<1> HIDE DEF u, v
<1>12. Follows(e, v) /\ Safe(ts, v) /\ (Healthy(ts, v) => Keeps(e, v) /\ v.c.locals = e.c.locals)
  BY <1>11 DEF Forked
<1>13. Level(ts, v, h) /\ Space(ts, parse, v, 0) /\ Fine(v)
  BY <1>5, <1>12, LevelKept, SpaceAfter DEF Safe
<1>14. Writes(ts, v, w, h + 1, h)
  BY <1>1, <1>12, PopWrites
<1>15. Level(ts, w, h) /\ Space(ts, parse, w, 0)
  BY <1>13, <1>14, LevelAfter, SpaceAfter DEF Writes
<1> HIDE DEF w
<1>16. Writes(ts, w, x, h, h)
  BY <1>15, ElseBranchWrites
<1>17. Writes(ts, v, x, h + 1, h)
  BY <1>13, <1>14, <1>16, WritesOn
<1> HIDE DEF x
<1>18. y = PatchJump(x, Len(t.c.code) + 1)
  BY <1>11
<1> HIDE DEF y
<1>19. Writes(ts, e, y, h + 1, h)
  BY ONLY <1>1, <1>5, <1>11, <1>17, <1>18, ElseWrites
<1>20. Writes(ts, p, y, h, h)
  BY <1>1, <1>3, <1>19, WritesOn
<1> QED BY <1>4, <1>20

LEMMA WhileStatementWrites ==
    ASSUME NEW ts, NEW parse, NEW p, NEW h, Level(ts, p, h), Space(ts, parse, p, 2)
    PROVE  Writes(ts, p, WhileStatement(parse, p), h, h)
<1> DEFINE e == Tested(parse, p)
           j == EmitJump(e, "JUMP_IF_FALSE")
           t == Body(parse, j)
           u == EmitJumpBack(t, Len(p.c.code))
           v == PatchJump(u, JumpOffset(j))
<1>1. At(ts, p, h) /\ Safe(ts, p) /\ Fine(p) /\ h \in Nat \ {0} /\ h + 1 \in Nat \ {0}
  BY LevelAt
<1>2. Space(ts, parse, p, 1)
  BY <1>1, FollowsItself, SpaceAfter
<1>3. Writes(ts, p, e, h, h + 1) /\ Safe(ts, e) /\ Condition(parse, p) = j
  BY <1>1, <1>2, TestedWrites
<1>4. WhileStatement(parse, p) = EmitOp(v, "POP")
  BY <1>3 DEF WhileStatement, Loop
<1> HIDE DEF e
<1>5. Level(ts, e, h) /\ Space(ts, parse, e, 2) /\ Fine(e)
  BY <1>1, <1>3, LevelAfter, SpaceAfter DEF Writes
<1>6. Follows(e, j) /\ Keeps(e, j) /\ Safe(ts, j) /\ j.c.locals = e.c.locals
  BY <1>3, EmitJumpKeeps DEF JumpsAhead, ConditionalJumps
<1>7. j = EmitJump(e, "JUMP_IF_FALSE")
  OBVIOUS
<1> HIDE DEF j
<1>8. Level(ts, j, h) /\ Space(ts, parse, j, 2)
  BY <1>5, <1>6, LevelKept, SpaceAfter
<1>9. Writes(ts, j, t, h + 1, h)
  BY <1>8, BodyWrites
<1> HIDE DEF t
<1>10. u = EmitJumpBack(t, Len(p.c.code))
  OBVIOUS
<1> HIDE DEF u
<1>11. v = PatchJump(u, JumpOffset(j))
  OBVIOUS
<1> HIDE DEF v
<1>12. Writes(ts, p, v, h, h + 1)
  BY ONLY <1>1, <1>3, <1>7, <1>9, <1>10, <1>11, LoopWrites
<1>13. Safe(ts, v)
  BY <1>12, SafeAfter
<1>14. Writes(ts, v, EmitOp(v, "POP"), h + 1, h)
  BY <1>1, <1>13, PopWrites
<1>15. Writes(ts, p, EmitOp(v, "POP"), h, h)
  BY <1>1, <1>12, <1>14, WritesOn
<1> QED BY <1>4, <1>15
-----------------------------------------------------------------------------
(* Declarations. *)

\* Nothing is written between p and q.
Same(p, q) ==
    /\ Follows(p, q)
    /\ q.c.code = p.c.code /\ q.c.constants = p.c.constants /\ q.c.arity = p.c.arity
    /\ q.functions = p.functions

LEMMA SameKeeps ==
    ASSUME NEW ts, NEW p, Fine(p), NEW q, Same(p, q)
    PROVE  /\ Keeps(p, q) /\ (Healthy(ts, q) => Healthy(ts, p)) /\ (Sane(ts, p) => Sane(ts, q)) /\ (Safe(ts, p) => Safe(ts, q))
           /\ \A a, b, h, k, exits : Segment(ts, p.c, a, b, h, k, exits) => Segment(ts, q.c, a, b, h, k, exits)
<1>1. Follows(p, q) /\ Fine(q) /\ q.base = p.base
  BY DEF Same, Follows
<1>2. Keeps(p, q)
  BY KeepsItself DEF Keeps, Same
<1>3. Healthy(ts, q) => Healthy(ts, p)
  BY <1>1, <1>2, HealthyBefore DEF Keeps
<1>4. Sane(ts, p) => Sane(ts, q)
  BY <1>1 DEF Sane, Same
<1>5. ASSUME NEW a, NEW b, NEW h, NEW k, NEW exits, Segment(ts, p.c, a, b, h, k, exits)
      PROVE  Segment(ts, q.c, a, b, h, k, exits)
  BY <1>1, <1>2, <1>5, SegmentAfter
<1> QED BY <1>1, <1>2, <1>3, <1>4, <1>5 DEF Safe

\* One local is added, that has no value yet.
Named(p, q) ==
    /\ Follows(p, q)
    /\ ~q.errored =>
          /\ Same(p, q)
          /\ Len(q.c.locals) = Len(p.c.locals) + 1
          /\ Begins(p.c.locals, q.c.locals)
          /\ q.c.locals[Len(p.c.locals) + 1].depth = -1

LEMMA AddLocalNames ==
    ASSUME NEW p, Fine(p), NEW name \in Int
    PROVE  Named(p, AddLocal(p, name))
<1> DEFINE local == [name |-> name, depth |-> -1, read_only |-> TRUE]
           locals == Append(p.c.locals, local)
           q == AddLocal(p, name)
<1>1. Follows(p, q)
  BY AddLocalFollows
<1>2. CASE Len(p.c.locals) = UINT8_MAX
  <2>1. q.errored
    BY <1>2, SyntaxErrorFollows DEF AddLocal
  <2> QED BY <1>1, <2>1 DEF Named
<1>3. CASE Len(p.c.locals) # UINT8_MAX
  <2>1. p.c \in FunctionCompiler /\ p.c.locals \in Seq(Local) /\ p \in Parser
    BY FineTypes
  <2>2. local \in Local /\ local.depth = -1
    BY DEF Local
  <2> HIDE DEF local
  <2>3. Len(locals) = Len(p.c.locals) + 1 /\ locals[Len(p.c.locals) + 1] = local
        /\ \A i \in 1 .. Len(p.c.locals) : locals[i] = p.c.locals[i]
    BY <2>1, <2>2
  <2> HIDE DEF locals
  <2>4. q = [p EXCEPT !.c = [p.c EXCEPT !.locals = locals]]
    BY <1>3 DEF AddLocal, locals, local
  <2> HIDE DEF q
  <2>5. q.c = [p.c EXCEPT !.locals = locals] /\ q.functions = p.functions
    BY <2>1, <2>4 DEF Parser
  <2>6. q.c.code = p.c.code /\ q.c.constants = p.c.constants /\ q.c.arity = p.c.arity
        /\ q.c.locals = locals
    BY <2>1, <2>5 DEF FunctionCompiler
  <2>7. Begins(p.c.locals, q.c.locals)
    <3>1. Len(p.c.locals) \in Nat
      BY <2>1
    <3> QED BY <2>3, <2>6, <3>1 DEF Begins
  <2> QED BY <1>1, <2>2, <2>3, <2>5, <2>6, <2>7 DEF Named, Same, q
<1> QED BY <1>2, <1>3

\* The last local has a value.
LEMMA MarkInitializedLocals ==
    ASSUME NEW p, Fine(p), Base(p) >= 1, NEW read_only \in BOOLEAN
    PROVE  LET q == MarkInitialized(p, read_only)
           IN  /\ Same(p, q) /\ q.errored = p.errored
               /\ Len(q.c.locals) = Len(p.c.locals)
               /\ \A i \in 1 .. Len(p.c.locals) - 1 : q.c.locals[i] = p.c.locals[i]
               /\ q.c.locals[Len(p.c.locals)].depth = p.c.scope_depth
               /\ q.c.locals[Len(p.c.locals)].name = p.c.locals[Len(p.c.locals)].name
<1> DEFINE q == MarkInitialized(p, read_only)
           last == Len(p.c.locals)
           local == [p.c.locals[last] EXCEPT !.depth = p.c.scope_depth, !.read_only = read_only]
           marked == Marked(p, read_only)
           c == InScope(p.c, p.c.scope_depth, marked)
<1>1. p.c \in FunctionCompiler /\ p.c.locals \in Seq(Local) /\ p \in Parser /\ p.c.scope_depth \in Nat
  BY FineTypes
<1>2. marked \in Seq(Local) /\ Len(marked) = last /\ q = With(p, c) /\ Follows(p, q)
  BY MarkInitializedFollows
<1>3. last \in Int /\ last \in 1 .. Len(p.c.locals)
  BY <1>1 DEF Base
<1>4. p.c.locals[last] \in Local /\ p.c.scope_depth \in Int
  BY <1>1, <1>3
<1>5. local \in Local /\ local.depth = p.c.scope_depth /\ local.name = p.c.locals[last].name
  BY <1>4 DEF Local
<1>6. marked = Replaced(p.c.locals, last, local)
  BY DEF Marked
<1> HIDE DEF local, marked, q
<1>7. \A j \in 1 .. Len(p.c.locals) : marked[j] = IF j = last THEN local ELSE p.c.locals[j]
  BY <1>1, <1>3, <1>5, <1>6, ReplacedItem
<1>8. q.c = c /\ q.functions = p.functions /\ q.errored = p.errored
  BY <1>1, <1>2, WithFields
<1>9. c.locals = marked /\ c.code = p.c.code /\ c.constants = p.c.constants /\ c.arity = p.c.arity
  <2>1. p.c \in FunctionCompiler /\ p.c.scope_depth \in Nat /\ marked \in Seq(Local)
    BY <1>1, <1>2
  <2>2. c = InScope(p.c, p.c.scope_depth, marked)
    OBVIOUS
  <2> HIDE DEF c
  <2> QED BY ONLY <2>1, <2>2, InScopeType
<1> HIDE DEF c
<1>10. Same(p, q)
  BY <1>2, <1>8, <1>9 DEF Same
<1>11. \A i \in 1 .. last - 1 : i \in 1 .. Len(p.c.locals) /\ i # last
  BY <1>3
<1>12. \A i \in 1 .. last - 1 : q.c.locals[i] = p.c.locals[i]
  BY <1>7, <1>8, <1>9, <1>11
<1>13. q.c.locals[last] = local
  BY <1>3, <1>7, <1>8, <1>9
<1> QED BY <1>2, <1>5, <1>8, <1>9, <1>10, <1>12, <1>13 DEF q

\* The name that is read was spelled by a token.
LEMMA NameConsumed ==
    ASSUME NEW ts, NEW p, Safe(ts, p), NEW h \in Nat \ {0}
    PROVE  LET q == Consume(p, "IDENTIFIER")
           IN  /\ Writes(ts, p, q, h, h) /\ Fine(q) /\ Safe(ts, q) /\ q.previous.text \in Int
               /\ ~q.errored => q.previous.text \in Strings /\ q.c = p.c /\ q.functions = p.functions
               /\ ~q.errored => q.previous = p.current /\ p.current.type = "IDENTIFIER"
<1> DEFINE q == Consume(p, "IDENTIFIER")
<1>1. Fine(p)
  BY DEF Safe
<1>2. Writes(ts, p, q, h, h) /\ Safe(ts, q) /\ Fine(q)
  BY ConsumeWrites, SafeAfter DEF Safe
<1>3. q.previous \in AnyToken
  BY <1>2 DEF Fine, Parser
<1>4. CASE Check(p, "IDENTIFIER")
  <2>1. q.previous = p.current /\ q.previous.type = "IDENTIFIER" /\ q.c = p.c /\ q.functions = p.functions
    BY <1>1, <1>4, AdvanceReads DEF Consume, Check
  <2>2. p.current.type = "IDENTIFIER"
    BY <1>4 DEF Check
  <2> HIDE DEF q
  <2> QED BY <1>2, <1>3, <2>1, <2>2, TokenFields DEF q
<1>5. CASE ~Check(p, "IDENTIFIER")
  <2>1. q.errored
    BY <1>1, <1>5, ErrorAtCurrentFollows DEF Consume
  <2> HIDE DEF q
  <2> QED BY <1>2, <1>3, <2>1, TokenFields DEF q
<1> QED BY <1>4, <1>5

\* A global has its name among the constants.
LEMMA ParseGlobalWrites ==
    ASSUME NEW ts, NEW p, Safe(ts, p), p.c.scope_depth = 0, NEW h \in Nat \ {0}
    PROVE  LET v == ParseVariable(p)
           IN  /\ Writes(ts, p, v.p, h, h) /\ v.index \in Nat
               /\ Healthy(ts, v.p) => /\ v.index + 1 \in DOMAIN v.p.c.constants
                                  /\ v.p.c.constants[v.index + 1].type = "STRING"
                                  /\ v.p.c.constants[v.index + 1] = String(p.current.text)
                                  /\ p.current.type = "IDENTIFIER"
<1> DEFINE q == Consume(p, "IDENTIFIER")
           value == String(q.previous.text)
           v == ParseVariable(p)
<1>1. Writes(ts, p, q, h, h) /\ Fine(q) /\ Safe(ts, q) /\ q.previous.text \in Int /\ Fine(p)
      /\ (~q.errored => q.previous.text \in Strings)
      /\ (~q.errored => q.previous = p.current /\ p.current.type = "IDENTIFIER")
  BY NameConsumed DEF Safe
<1>2. q.c.scope_depth = 0
  BY <1>1 DEF Writes, Follows
<1>3. v.p = RegisterConstant(q, value) /\ v.index = ConstantIndex(q, value)
  BY <1>2 DEF ParseVariable, ReadName, DeclareName
<1>4. value \in Value /\ value.type = "STRING" /\ value.as = q.previous.text
  BY <1>1, StringIsValue DEF String
<1>10. ~q.errored => value = String(p.current.text)
  BY <1>1
<1> HIDE DEF q, value, v
<1>5. v.index \in Nat
  BY <1>1, <1>3, ConstantIndexIsNat
<1>6. v.index + 1 \in DOMAIN v.p.c.constants /\ v.p.c.constants[v.index + 1] = value
  BY <1>1, <1>3, <1>4, RegisterConstantFields
<1>7. Follows(q, v.p)
  BY <1>1, <1>3, <1>4, RegisterConstantFollows
<1>8. Writes(ts, q, v.p, h, h)
  <2>1. CASE q.errored
    BY <1>7, <2>1, WritesError DEF Follows
  <2>2. CASE ~q.errored
    <3>1. ValidConstant(value, q.base, q.functions)
      BY <1>1, <1>4, <2>2 DEF ValidConstant
    <3> QED BY <1>1, <1>3, <1>4, <3>1, RegisterConstantWrites
  <2> QED BY <2>1, <2>2
<1>9. Writes(ts, p, v.p, h, h)
  BY <1>1, <1>8, WritesOn
<1>11. Healthy(ts, v.p) => ~q.errored
  BY <1>7 DEF Healthy, Follows
<1> QED BY <1>1, <1>4, <1>5, <1>6, <1>9, <1>10, <1>11 DEF v

LEMMA NamedOn ==
    ASSUME NEW p, Fine(p), NEW q, Follows(p, q), ~q.errored => q.c = p.c /\ q.functions = p.functions,
           NEW r, Named(q, r)
    PROVE  Named(p, r)
<1>1. Follows(p, r) /\ Follows(q, r)
  BY FollowsOn DEF Named
<1>2. ASSUME ~r.errored PROVE Same(p, r) /\ ~q.errored
  <2>1. ~q.errored
    BY <1>1, <1>2 DEF Follows
  <2> QED BY <1>1, <1>2, <2>1 DEF Named, Same
<1> QED BY <1>1, <1>2 DEF Named

\* A local is added under its name.
LEMMA ParseLocalNames ==
    ASSUME NEW ts, NEW p, Safe(ts, p), p.c.scope_depth # 0
    PROVE  Named(p, ParseVariable(p).p)
<1> DEFINE q == Consume(p, "IDENTIFIER")
           name == q.previous.text
           r == IF \E i \in InThisScope(q) : q.c.locals[i].name = name THEN SyntaxError(q) ELSE q
<1>1. Writes(ts, p, q, 1, 1) /\ Fine(q) /\ name \in Int /\ Fine(p)
      /\ (~q.errored => q.c = p.c /\ q.functions = p.functions)
  BY NameConsumed DEF Safe
<1>2. Follows(p, q) /\ q.c.scope_depth # 0
  BY <1>1 DEF Writes, Follows
<1>3. ParseVariable(p).p = AddLocal(r, name)
  BY <1>2 DEF ParseVariable, ReadName, DeclareName
<1> HIDE DEF q, name
<1>4. Follows(q, r) /\ Fine(r) /\ (~r.errored => r.c = q.c /\ r.functions = q.functions)
  BY <1>1, SyntaxErrorFollows, FollowsItself DEF Follows
<1> HIDE DEF r
<1>5. Follows(p, r) /\ (~r.errored => r.c = p.c /\ r.functions = p.functions)
  BY <1>1, <1>2, <1>4, FollowsOn DEF Follows
<1>6. Named(r, AddLocal(r, name))
  BY <1>1, <1>4, AddLocalNames
<1> QED BY <1>1, <1>3, <1>5, <1>6, NamedOn

LEMMA SettledLevel == ASSUME NEW ts, NEW p, Settled(ts, p) PROVE \E h : Level(ts, p, h)
<1>1. CASE Healthy(ts, p)
  <2>1. Len(p.c.locals) >= 1 /\ Len(p.c.locals) \in Nat
    BY <1>1, FineTypes DEF Settled, Rooted, Safe
  <2>2. Level(ts, p, Base(p))
    BY <2>1 DEF Level, Base
  <2> QED BY <2>2
<1>2. CASE ~Healthy(ts, p)
  <2>1. Level(ts, p, 1)
    BY <1>2 DEF Level
  <2> QED BY <2>1
<1> QED BY <1>1, <1>2

LEMMA WritesDeclares ==
    ASSUME NEW ts, NEW p, NEW h, Level(ts, p, h), NEW q, Writes(ts, p, q, h, h)
    PROVE  Declares(ts, p, q)
<1>1. Fine(p) /\ Fine(q) /\ Follows(p, q) /\ (Healthy(ts, p) => Base(p) = h)
  BY LevelAt DEF Level, Writes, Follows
<1>2. ASSUME Healthy(ts, q)
      PROVE  /\ Keeps(p, q) /\ Sane(ts, q) /\ q.c.locals = p.c.locals
             /\ Segment(ts, q.c, Len(p.c.code), Len(q.c.code), Base(p), Base(q), {})
  <2>1. Healthy(ts, p) /\ Adds(ts, p, q, h, h)
    BY <1>1, <1>2, WritesHealthy
  <2> QED BY <1>1, <2>1 DEF Adds, Base
<1>3. p.c.locals \in Seq(Local)
  BY <1>1, FineTypes
<1>4. Begins(p.c.locals, p.c.locals)
  BY <1>3, BeginsItself
<1> QED BY <1>1, <1>2, <1>4 DEF Declares

LEMMA DeclaresHealthy ==
    ASSUME NEW ts, NEW p, NEW q, Fine(p), Declares(ts, p, q), Healthy(ts, q)
    PROVE  Healthy(ts, p)
BY HealthyBefore DEF Declares, Keeps

LEMMA DeclaresSettled ==
    ASSUME NEW ts, NEW p, Settled(ts, p), NEW q, Declares(ts, p, q)
    PROVE  Settled(ts, q) /\ Fine(q)
<1>1. Fine(p) /\ Fine(q) /\ Safe(ts, q) /\ q.c.scope_depth = p.c.scope_depth /\ q.c.main = p.c.main
  BY DEF Settled, Safe, Declares, Follows
<1>2. ASSUME Healthy(ts, q)
      PROVE  Rooted(q.c) /\ \A i \in DOMAIN q.c.locals : q.c.locals[i].depth \in 0 .. q.c.scope_depth
  <2>1. Healthy(ts, p) /\ Begins(p.c.locals, q.c.locals)
    BY <1>1, <1>2, DeclaresHealthy DEF Declares
  <2>2. p.c.locals \in Seq(Local) /\ q.c.locals \in Seq(Local) /\ p.c.scope_depth \in Nat
        /\ Len(p.c.locals) \in Nat /\ Len(q.c.locals) \in Nat
    BY <1>1, FineTypes
  <2>3. Rooted(q.c)
    <3>1. Len(p.c.locals) >= 1 /\ p.c.locals[1].name = NoName
      BY <2>1 DEF Settled, Rooted
    <3> QED BY <2>1, <2>2, <3>1 DEF Rooted, Begins
  <2>4. ASSUME NEW i \in DOMAIN q.c.locals PROVE q.c.locals[i].depth \in 0 .. q.c.scope_depth
    <3>1. CASE i \in DOMAIN p.c.locals
      <4>1. q.c.locals[i] = p.c.locals[i]
        BY <2>1, <2>2, <3>1, BeginsItems
      <4> QED BY <1>1, <2>1, <3>1, <4>1 DEF Settled
    <3>2. CASE i \notin DOMAIN p.c.locals
      <4>1. q.c.locals[i].depth = p.c.scope_depth
        BY <1>2, <3>2 DEF Declares
      <4> QED BY <1>1, <2>2, <4>1
    <3> QED BY <3>1, <3>2
  <2> QED BY <2>3, <2>4
<1> QED BY <1>1, <1>2 DEF Settled

LEMMA DeclaresOn ==
    ASSUME NEW ts, NEW p, Settled(ts, p), NEW q, Declares(ts, p, q), NEW r, Declares(ts, q, r)
    PROVE  Declares(ts, p, r)
<1>1. Fine(p) /\ Fine(q) /\ Fine(r) /\ q.c.scope_depth = p.c.scope_depth /\ Follows(q, r) /\ Follows(p, q)
  BY DEF Settled, Safe, Declares, Follows
<1>2. Follows(p, r)
  BY <1>1, FollowsOn
<1>3. ASSUME Healthy(ts, r)
      PROVE  /\ Keeps(p, r) /\ Sane(ts, r) /\ Begins(p.c.locals, r.c.locals)
             /\ p.c.scope_depth = 0 => r.c.locals = p.c.locals
             /\ \A i \in DOMAIN r.c.locals :
                   i \in DOMAIN p.c.locals \/ r.c.locals[i].depth = p.c.scope_depth
             /\ Segment(ts, r.c, Len(p.c.code), Len(r.c.code), Base(p), Base(r), {})
  <2>1. Healthy(ts, q)
    BY <1>1, <1>3, DeclaresHealthy
  <2>2. Keeps(p, q) /\ Keeps(q, r) /\ Sane(ts, r)
        /\ Begins(p.c.locals, q.c.locals) /\ Begins(q.c.locals, r.c.locals)
        /\ (p.c.scope_depth = 0 => q.c.locals = p.c.locals)
        /\ (q.c.scope_depth = 0 => r.c.locals = q.c.locals)
    BY <1>3, <2>1 DEF Declares
  <2>3. p.c.locals \in Seq(Local) /\ q.c.locals \in Seq(Local) /\ r.c.locals \in Seq(Local)
    BY <1>1, FineTypes
  <2>4. Keeps(p, r)
    BY <1>1, <2>2, KeepsOn
  <2>5. Begins(p.c.locals, r.c.locals)
    BY <2>2, <2>3, BeginsOn
  <2>6. ASSUME NEW i \in DOMAIN r.c.locals
        PROVE  i \in DOMAIN p.c.locals \/ r.c.locals[i].depth = p.c.scope_depth
    <3>1. CASE i \in DOMAIN q.c.locals
      <4>1. i \in DOMAIN p.c.locals \/ q.c.locals[i].depth = p.c.scope_depth
        BY <2>1, <3>1 DEF Declares
      <4>2. r.c.locals[i] = q.c.locals[i]
        BY <2>2, <2>3, <3>1, BeginsItems
      <4> QED BY <4>1, <4>2
    <3>2. CASE i \notin DOMAIN q.c.locals
      BY <1>1, <1>3, <3>2 DEF Declares
    <3> QED BY <3>1, <3>2
  <2>7. Segment(ts, q.c, Len(p.c.code), Len(q.c.code), Base(p), Base(q), {})
        /\ Segment(ts, r.c, Len(q.c.code), Len(r.c.code), Base(q), Base(r), {})
    BY <1>3, <2>1 DEF Declares
  <2>8. Segment(ts, r.c, Len(p.c.code), Len(q.c.code), Base(p), Base(q), {})
    BY <1>1, <2>2, <2>7, SegmentAfter
  <2>9. Segment(ts, r.c, Len(p.c.code), Len(r.c.code), Base(p), Base(r), {})
    BY <2>7, <2>8, SegmentsJoin
  <2> QED BY <1>1, <2>2, <2>4, <2>5, <2>6, <2>9
<1> QED BY <1>2, <1>3 DEF Declares

LEMMA LocalDeclares ==
    ASSUME NEW ts, NEW p, NEW h, Level(ts, p, h), p.c.scope_depth # 0, NEW q, Follows(p, q),
           Healthy(ts, q) =>
              /\ Keeps(p, q) /\ Sane(ts, q)
              /\ Segment(ts, q.c, Len(p.c.code), Len(q.c.code), h, h + 1, {})
              /\ Len(q.c.locals) = Len(p.c.locals) + 1
              /\ Begins(p.c.locals, q.c.locals)
              /\ q.c.locals[Len(p.c.locals) + 1].depth = p.c.scope_depth
    PROVE  Declares(ts, p, q)
<1>1. Fine(p) /\ Fine(q) /\ (Healthy(ts, p) => Base(p) = h)
  BY LevelAt DEF Level, Follows
<1>2. ASSUME Healthy(ts, q)
      PROVE  /\ Segment(ts, q.c, Len(p.c.code), Len(q.c.code), Base(p), Base(q), {})
             /\ \A i \in DOMAIN q.c.locals :
                   i \in DOMAIN p.c.locals \/ q.c.locals[i].depth = p.c.scope_depth
  <2>1. Healthy(ts, p)
    BY <1>1, <1>2, HealthyBefore DEF Keeps
  <2>2. Len(p.c.locals) = h /\ Len(q.c.locals) = h + 1
    BY <1>1, <1>2, <2>1 DEF Base
  <2>3. p.c.locals \in Seq(Local) /\ q.c.locals \in Seq(Local) /\ h \in Nat
    BY <1>1, LevelAt, FineTypes
  <2>4. DOMAIN p.c.locals = 1 .. h /\ DOMAIN q.c.locals = 1 .. h + 1
    BY <2>2, <2>3
  <2>5. \A i \in 1 .. h + 1 : i \in 1 .. h \/ i = h + 1
    BY <2>3
  <2>6. q.c.locals[h + 1].depth = p.c.scope_depth
    BY <1>2, <2>2
  <2> QED BY <1>2, <2>2, <2>4, <2>5, <2>6 DEF Base
<1> QED BY <1>2 DEF Declares

LEMMA NamedAt ==
    ASSUME NEW ts, NEW p, NEW h, Level(ts, p, h), NEW r, Named(p, r)
    PROVE  At(ts, r, h) /\ Safe(ts, r) /\ Fine(r) /\ Follows(p, r)
<1>1. Safe(ts, p) /\ Fine(p) /\ Fine(r) /\ Follows(p, r) /\ h \in Nat \ {0} /\ h \in Nat
      /\ (Healthy(ts, p) => Base(p) = h) /\ Settled(ts, p)
  BY LevelAt DEF Named, Follows, Level
<1>2. ASSUME Healthy(ts, r)
      PROVE  /\ Sane(ts, r) /\ Rooted(r.c)
             /\ \A i \in DOMAIN r.c.locals : r.c.locals[i].depth # -1 => i <= h
  <2>1. Same(p, r) /\ Len(r.c.locals) = Len(p.c.locals) + 1 /\ Begins(p.c.locals, r.c.locals)
        /\ r.c.locals[Len(p.c.locals) + 1].depth = -1
    BY <1>2 DEF Named, Healthy
  <2>2. Healthy(ts, p) /\ Sane(ts, r)
    BY <1>1, <1>2, <2>1, SameKeeps DEF Safe
  <2>3. Len(p.c.locals) = h /\ Len(p.c.locals) >= 1 /\ p.c.locals[1].name = NoName
    BY <1>1, <2>2 DEF Base, Settled, Rooted
  <2>4. p.c.locals \in Seq(Local) /\ r.c.locals \in Seq(Local)
    BY <1>1, FineTypes
  <2>5. Rooted(r.c)
    BY <1>1, <2>1, <2>3, <2>4 DEF Rooted, Begins
  <2>6. DOMAIN r.c.locals = 1 .. h + 1 /\ r.c.locals[h + 1].depth = -1
    BY <2>1, <2>3, <2>4
  <2>7. \A i \in 1 .. h + 1 : i # h + 1 => i <= h
    BY <1>1
  <2> QED BY <2>2, <2>5, <2>6, <2>7
<1> QED BY <1>1, <1>2 DEF At, Safe

\* The value on the stack becomes that of a global.
LEMMA DeclareGlobalWrites ==
    ASSUME NEW ts, NEW p, Safe(ts, p), NEW index \in Nat, NEW read_only \in BOOLEAN, NEW h \in Nat \ {0},
           Healthy(ts, p) => index + 1 \in DOMAIN p.c.constants,
           Healthy(ts, p) => IsName(ts, p.c, index)
    PROVE  Writes(ts, p, DeclareGlobal(p, index, read_only), h + 1, h)
<1>1. /\ <<"DECL_GLOBAL", "DECL_GLOBAL_16">> \in IndexedOps
      /\ <<"DECL_GLOBAL_CONST", "DECL_GLOBAL_CONST_16">> \in IndexedOps
  BY DEF IndexedOps
<1>2. /\ Takes("DECL_GLOBAL", 0) = 1 /\ Gives("DECL_GLOBAL") = 0
      /\ Takes("DECL_GLOBAL_CONST", 0) = 1 /\ Gives("DECL_GLOBAL_CONST") = 0
  BY DEF Takes, Gives, DeclGlobalOps
<1>3. (h + 1) - 1 >= 1 /\ h + 1 \in Nat /\ (h + 1) - 1 + 0 = h
  OBVIOUS
<1>4. Writes(ts, p, EmitIndexed(p, "DECL_GLOBAL", "DECL_GLOBAL_16", index), h + 1, h)
  BY <1>1, <1>2, <1>3, EmitIndexedWrites
<1>5. Writes(ts, p, EmitIndexed(p, "DECL_GLOBAL_CONST", "DECL_GLOBAL_CONST_16", index), h + 1, h)
  BY <1>1, <1>2, <1>3, EmitIndexedWrites
<1> QED BY <1>4, <1>5 DEF DeclareGlobal

\* A variable of a scope is where its value was put.
LEMMA VariableDeclares ==
    ASSUME NEW ts, NEW p, NEW h, Level(ts, p, h), p.c.scope_depth # 0, NEW r, Named(p, r),
           NEW s, Writes(ts, r, s, h, h + 1), NEW read_only \in BOOLEAN
    PROVE  Declares(ts, p, MarkInitialized(s, read_only))
<1> DEFINE q == MarkInitialized(s, read_only)
<1>1. Fine(p) /\ Fine(r) /\ Follows(p, r) /\ (Healthy(ts, p) => Base(p) = h) /\ h \in Nat
  BY LevelAt, NamedAt DEF Level
<1>2. Follows(r, s) /\ Fine(s)
  BY DEF Writes, Follows
<1>3. Follows(s, q) /\ Fine(q)
  BY <1>2, MarkInitializedFollows DEF Follows
<1>4. Follows(p, q)
  BY <1>1, <1>2, <1>3, FollowsOn
<1> HIDE DEF q
<1>5. ASSUME Healthy(ts, q)
      PROVE  /\ Keeps(p, q) /\ Sane(ts, q)
             /\ Segment(ts, q.c, Len(p.c.code), Len(q.c.code), h, h + 1, {})
             /\ Len(q.c.locals) = Len(p.c.locals) + 1
             /\ Begins(p.c.locals, q.c.locals)
             /\ q.c.locals[Len(p.c.locals) + 1].depth = p.c.scope_depth
  <2>1. ~r.errored /\ ~s.errored
    BY <1>2, <1>3, <1>5 DEF Healthy, Follows
  <2>2. Same(p, r) /\ Len(r.c.locals) = Len(p.c.locals) + 1 /\ Begins(p.c.locals, r.c.locals)
    BY <2>1 DEF Named
  <2>3. Len(p.c.locals) \in Nat /\ Len(s.c.locals) \in Nat
    BY <1>1, <1>2, FineTypes
  <2>4. Healthy(ts, s)
    <3>1. q.c.constants = s.c.constants
      <4>1. s \in Parser /\ s.c \in FunctionCompiler /\ s.c.scope_depth \in Nat
        BY <1>2, FineTypes
      <4>2. q = With(s, InScope(s.c, s.c.scope_depth, Marked(s, read_only))) /\ Marked(s, read_only) \in Seq(Local)
        BY <1>2, MarkInitializedFollows DEF q
      <4>3. q.c = InScope(s.c, s.c.scope_depth, Marked(s, read_only))
        BY <4>1, <4>2, WithFields
      <4> QED BY <4>1, <4>2, <4>3, InScopeType
    <3> QED BY <1>3, <1>5, <3>1 DEF Healthy, Follows
  <2>5. Healthy(ts, r) /\ Adds(ts, r, s, h, h + 1)
    BY <1>1, <2>4, WritesHealthy
  <2>6. s.c.locals = r.c.locals /\ Keeps(r, s) /\ Sane(ts, s)
        /\ Segment(ts, s.c, Len(r.c.code), Len(s.c.code), h, h + 1, {})
    BY <2>5 DEF Adds
  <2>7. Base(s) >= 1 /\ Len(s.c.locals) = Len(p.c.locals) + 1
    BY <2>2, <2>3, <2>6 DEF Base
  <2>8. /\ Same(s, q) /\ Len(q.c.locals) = Len(s.c.locals)
        /\ \A i \in 1 .. Len(s.c.locals) - 1 : q.c.locals[i] = s.c.locals[i]
        /\ q.c.locals[Len(s.c.locals)].depth = s.c.scope_depth
    BY <1>2, <2>7, MarkInitializedLocals DEF q
  <2>9. Keeps(p, r) /\ Keeps(s, q) /\ Sane(ts, q)
    BY <1>1, <1>2, <2>2, <2>6, <2>8, SameKeeps
  <2>10. Keeps(p, q)
    BY <1>1, <1>2, <1>3, <2>6, <2>9, KeepsOn
  <2>11. Segment(ts, q.c, Len(p.c.code), Len(q.c.code), h, h + 1, {})
    <3>1. Segment(ts, q.c, Len(r.c.code), Len(s.c.code), h, h + 1, {})
      <4>1. \A a, b, g, k, exits : Segment(ts, s.c, a, b, g, k, exits) => Segment(ts, q.c, a, b, g, k, exits)
        BY <1>2, <2>8, SameKeeps
      <4> HIDE DEF q
      <4> QED BY <2>6, <4>1
    <3> QED BY <2>2, <2>8, <3>1 DEF Same
  <2>12. Begins(p.c.locals, q.c.locals)
    <3>1. \A i \in 1 .. Len(p.c.locals) : i \in 1 .. Len(s.c.locals) - 1
      BY <2>3, <2>7
    <3>2. \A i \in 1 .. Len(p.c.locals) : q.c.locals[i] = p.c.locals[i]
      BY <2>2, <2>6, <2>8, <3>1 DEF Begins
    <3> QED BY <2>3, <2>7, <2>8, <3>2, SMTT(30) DEF Begins
  <2>13. s.c.scope_depth = p.c.scope_depth
    BY <1>1, <1>2 DEF Follows
  <2> QED BY <2>7, <2>8, <2>9, <2>10, <2>11, <2>12, <2>13
<1> QED BY <1>4, <1>5, LocalDeclares DEF q

\* A declaration adds a local, or a global that has a name.
LEMMA VarDeclarationDeclares ==
    ASSUME NEW ts, NEW parse, NEW p, NEW h, Level(ts, p, h), NEW read_only \in BOOLEAN, Space(ts, parse, p, 0)
    PROVE  Declares(ts, p, VarDeclaration(parse, p, read_only))
<1> DEFINE v == ParseVariable(p)
           r == v.p
           q == Initializer(parse, r)
           s == Consume(q, "SEMICOLON")
<1>1. Safe(ts, p) /\ Fine(p) /\ At(ts, p, h) /\ h \in Nat \ {0} /\ h + 1 \in Nat \ {0}
  BY LevelAt
<1>2. Follows(p, r) /\ Fine(r)
  BY <1>1, ParseVariableFollows DEF Follows
<1>3. p.c.scope_depth = 0 => /\ Writes(ts, p, r, h, h) /\ v.index \in Nat
                             /\ Healthy(ts, r) => /\ v.index + 1 \in DOMAIN r.c.constants
                                              /\ r.c.constants[v.index + 1].type = "STRING"
  BY <1>1, ParseGlobalWrites
<1>4. p.c.scope_depth # 0 => Named(p, r)
  BY <1>1, ParseLocalNames
<1>5. VarDeclaration(parse, p, read_only) = DefineVariable(s, v.index, read_only)
  BY DEF VarDeclaration
<1> DEFINE index == v.index
<1> HIDE DEF v, r, index
<1>6. At(ts, r, h) /\ Space(ts, parse, r, 0)
  BY <1>1, <1>2, <1>3, <1>4, WritesAt, NamedAt, SpaceAfter
<1>7. Writes(ts, r, q, h, h + 1)
  BY <1>6, InitializerWrites
<1> HIDE DEF q
<1>8. Safe(ts, q)
  BY <1>7, SafeAfter
<1>9. Writes(ts, q, s, h + 1, h + 1)
  BY <1>1, <1>8, ConsumeWrites
<1>10. Writes(ts, r, s, h, h + 1)
  BY <1>2, <1>7, <1>9, WritesOn
<1> HIDE DEF s
<1>11. s.c.scope_depth = p.c.scope_depth /\ p.c.scope_depth \in Nat /\ Safe(ts, s) /\ Fine(s)
  BY <1>1, <1>2, <1>10, FineTypes, SafeAfter DEF Writes, Follows, Safe
<1>12. CASE p.c.scope_depth = 0
  <2>1. Writes(ts, p, r, h, h) /\ index \in Nat
        /\ (Healthy(ts, r) => index + 1 \in DOMAIN r.c.constants /\ r.c.constants[index + 1].type = "STRING")
    BY <1>3, <1>12 DEF index
  <2>2. ASSUME Healthy(ts, s)
        PROVE  index + 1 \in DOMAIN s.c.constants /\ s.c.constants[index + 1].type = "STRING"
    <3>1. Healthy(ts, r) /\ Begins(r.c.constants, s.c.constants)
      BY <1>2, <1>10, <2>2, WritesHealthy DEF Adds, Keeps
    <3>2. r.c.constants \in Seq(Value) /\ s.c.constants \in Seq(Value)
      BY <1>2, <1>11, FineTypes
    <3> QED BY <2>1, <3>1, <3>2, BeginsItems
  <2>3. Writes(ts, s, DeclareGlobal(s, index, read_only), h + 1, h)
    BY <1>1, <1>11, <2>1, <2>2, DeclareGlobalWrites DEF IsName
  <2>4. Writes(ts, p, s, h, h + 1)
    BY <1>1, <1>10, <2>1, WritesOn
  <2>5. Writes(ts, p, DeclareGlobal(s, index, read_only), h, h)
    BY <1>1, <2>3, <2>4, WritesOn
  <2>6. DefineVariable(s, index, read_only) = DeclareGlobal(s, index, read_only)
    BY <1>11, <1>12 DEF DefineVariable
  <2> QED BY <1>5, <2>5, <2>6, WritesDeclares DEF index
<1>13. CASE p.c.scope_depth # 0
  <2>1. Declares(ts, p, MarkInitialized(s, read_only))
    BY <1>4, <1>10, <1>13, VariableDeclares
  <2>2. DefineVariable(s, index, read_only) = MarkInitialized(s, read_only)
    BY <1>11, <1>13 DEF DefineVariable
  <2> QED BY <1>5, <2>1, <2>2 DEF index
<1> QED BY <1>12, <1>13
-----------------------------------------------------------------------------
(* Functions. *)

\* A heading, and no function that was not there.
Heads(ts, p, q) == Heading(ts, q) /\ (Healthy(ts, q) => q.functions = p.functions)

LEMMA CountParameterHeads ==
    ASSUME NEW ts, NEW p, Heading(ts, p)
    PROVE  LET q == CountParameter(p)
           IN  /\ Safe(ts, q) /\ Fine(q) /\ ~q.c.main /\ q.c.scope_depth = 1 /\ q.tokens = p.tokens
               /\ ~q.errored =>
                     /\ ~p.errored /\ q.c.arity = p.c.arity + 1 /\ q.functions = p.functions
                     /\ q.c.code = p.c.code /\ q.c.locals = p.c.locals
<1> DEFINE c == [p.c EXCEPT !.arity = @ + 1]
           q == CountParameter(p)
<1>1. Fine(p) /\ Safe(ts, p) /\ ~p.c.main /\ p.c.scope_depth = 1
  BY DEF Heading, Safe
<1>2. Follows(p, With(p, c)) /\ c \in FunctionCompiler /\ Follows(p, q) /\ (q.errored \/ q = With(p, c))
  BY <1>1, CountParameterFollows
<1>3. p \in Parser /\ p.c \in FunctionCompiler /\ p.c.arity \in Nat
  BY <1>1, FineTypes
<1>4. c.arity = p.c.arity + 1 /\ c.code = p.c.code /\ c.locals = p.c.locals
      /\ c.constants = p.c.constants
  BY <1>3 DEF FunctionCompiler
<1> HIDE DEF c, q
<1>5. Fine(q) /\ q.c.scope_depth = 1 /\ ~q.c.main /\ (~q.errored => ~p.errored) /\ q.base = p.base
      /\ q.tokens = p.tokens
  BY <1>1, <1>2 DEF Follows
<1>6. ~q.errored => q.c = c /\ q.functions = p.functions
  BY <1>2, <1>3, WithFields
<1>7. ASSUME Healthy(ts, q) PROVE Sane(ts, q)
  <2>1. Healthy(ts, p) /\ ~q.errored
    BY <1>1, <1>2, <1>5, <1>7 DEF Healthy, Follows
  <2> QED BY <1>1, <1>4, <1>5, <1>6, <2>1 DEF Safe, Sane
<1> QED BY <1>4, <1>5, <1>6, <1>7 DEF Safe, q

LEMMA ParameterHeads ==
    ASSUME NEW ts, NEW p, Heading(ts, p)
    PROVE  Heads(ts, p, Parameter(p))
<1> DEFINE q == CountParameter(p)
           r == ParseVariable(q).p
           s == MarkInitialized(r, FALSE)
<1>1. Safe(ts, q) /\ Fine(q) /\ ~q.c.main /\ q.c.scope_depth = 1 /\ q.tokens = p.tokens
      /\ (~q.errored => /\ ~p.errored /\ q.c.arity = p.c.arity + 1 /\ q.functions = p.functions
                        /\ q.c.code = p.c.code /\ q.c.locals = p.c.locals)
  BY CountParameterHeads
<1> HIDE DEF q
<1>2. Named(q, r) /\ Fine(r) /\ Follows(q, r)
  BY <1>1, ParseLocalNames DEF Named, Follows
<1> HIDE DEF r
<1>3. Follows(r, s) /\ Fine(s)
  BY <1>2, MarkInitializedFollows DEF Follows
<1>4. ~s.c.main /\ s.c.scope_depth = 1 /\ (~s.errored => ~q.errored /\ ~r.errored)
      /\ r.c.scope_depth = 1 /\ ~r.c.main
  BY <1>1, <1>2, <1>3 DEF Follows
<1>5. ASSUME Healthy(ts, s)
      PROVE  /\ Sane(ts, s) /\ s.functions = p.functions
             /\ Rooted(s.c) /\ s.c.code = <<>> /\ Base(s) = s.c.arity + 1
             /\ \A i \in DOMAIN s.c.locals : s.c.locals[i].depth \in 0 .. 1
  <2>1. ~s.errored /\ ~r.errored /\ ~q.errored /\ ~p.errored
    BY <1>1, <1>4, <1>5 DEF Healthy
  <2>2. Healthy(ts, p) /\ Healthy(ts, q)
    BY <1>1, <1>2, <1>3, <1>5, <2>1 DEF Healthy, Follows
  <2>3. Rooted(p.c) /\ p.c.code = <<>> /\ Len(p.c.locals) = p.c.arity + 1
        /\ \A i \in DOMAIN p.c.locals : p.c.locals[i].depth \in 0 .. 1
    BY <2>2 DEF Heading, Base
  <2>4. Same(q, r) /\ Len(r.c.locals) = Len(q.c.locals) + 1 /\ Begins(q.c.locals, r.c.locals)
    BY <1>2, <2>1 DEF Named
  <2>5. p.c.locals \in Seq(Local) /\ Len(p.c.locals) \in Nat /\ r.c.locals \in Seq(Local)
        /\ s.c.locals \in Seq(Local) /\ p.c.arity \in Nat
    BY <1>1, <1>2, <1>3, FineTypes DEF Heading, Safe
  <2>6. Len(r.c.locals) = p.c.arity + 2 /\ q.c.locals = p.c.locals /\ Base(r) >= 1
    <3>1. q.c.locals = p.c.locals
      BY <1>1, <2>1
    <3>2. Len(r.c.locals) = (p.c.arity + 1) + 1
      BY <2>3, <2>4, <3>1
    <3>3. (p.c.arity + 1) + 1 = p.c.arity + 2 /\ p.c.arity + 2 >= 1
      BY <2>5
    <3> QED BY <3>1, <3>2, <3>3 DEF Base
  <2> HIDE DEF s
  <2>7. /\ Same(r, s) /\ Len(s.c.locals) = Len(r.c.locals)
        /\ \A i \in 1 .. Len(r.c.locals) - 1 : s.c.locals[i] = r.c.locals[i]
        /\ s.c.locals[Len(r.c.locals)].depth = r.c.scope_depth
    BY <1>2, <2>6, MarkInitializedLocals DEF s
  <2>8. Sane(ts, s)
    BY <1>1, <1>2, <2>2, <2>4, <2>7, SameKeeps DEF Safe
  <2>9. s.functions = p.functions /\ s.c.code = <<>> /\ s.c.arity = p.c.arity + 1
    BY <1>1, <2>1, <2>3, <2>4, <2>7 DEF Same
  <2>10. \A i \in 1 .. p.c.arity + 1 : s.c.locals[i] = p.c.locals[i]
    <3>1. \A i \in 1 .. p.c.arity + 1 : i \in 1 .. Len(r.c.locals) - 1 /\ i \in 1 .. Len(p.c.locals)
      BY <2>3, <2>5, <2>6
    <3> QED BY <2>4, <2>6, <2>7, <3>1 DEF Begins
  <2>11. Rooted(s.c)
    <3>1. 1 \in 1 .. p.c.arity + 1 /\ Len(s.c.locals) >= 1
      BY <2>5, <2>6, <2>7
    <3> QED BY <2>3, <2>10, <3>1 DEF Rooted
  <2>12. ASSUME NEW i \in DOMAIN s.c.locals PROVE s.c.locals[i].depth \in 0 .. 1
    <3>1. i \in 1 .. p.c.arity + 2
      BY <2>5, <2>6, <2>7
    <3>2. CASE i = p.c.arity + 2
      BY <1>4, <2>6, <2>7, <3>2
    <3>3. CASE i # p.c.arity + 2
      <4>1. i \in 1 .. p.c.arity + 1 /\ i \in DOMAIN p.c.locals
        BY <2>3, <2>5, <3>1, <3>3
      <4> QED BY <2>3, <2>10, <4>1
    <3> QED BY <3>2, <3>3
  <2>13. Base(s) = s.c.arity + 1
    BY <2>5, <2>6, <2>7, <2>9 DEF Base
  <2> QED BY <2>8, <2>9, <2>11, <2>12, <2>13
<1>6. Heads(ts, p, s)
  BY <1>3, <1>4, <1>5 DEF Heads, Heading, Safe
<1> QED BY <1>6 DEF Parameter, s, r, q

LEMMA HeadsOn ==
    ASSUME NEW ts, NEW p, NEW q, NEW r, Fine(q), Heads(ts, p, q), Heads(ts, q, r), Healthy(ts, r) => Healthy(ts, q)
    PROVE  Heads(ts, p, r)
BY DEF Heads

LEMMA HeadingHealthy ==
    ASSUME NEW ts, NEW p, Heading(ts, p), NEW q, Follows(p, q), Healthy(ts, q)
    PROVE  Healthy(ts, p)
BY DEF Heading, Healthy, Follows

LEMMA AdvanceHeads ==
    ASSUME NEW ts, NEW p, Heading(ts, p)
    PROVE  Heads(ts, p, Advance(p)) /\ Follows(p, Advance(p)) /\ Fine(p)
<1> DEFINE q == Advance(p)
<1>1. Fine(p) /\ Safe(ts, p)
  BY DEF Heading, Safe
<1>2. Follows(p, q) /\ q.c = p.c /\ q.functions = p.functions /\ Fine(q)
  BY <1>1, AdvanceReads, AdvanceFollows
<1> HIDE DEF q
<1>3. Safe(ts, q)
  BY <1>1, <1>2, AdvanceWrites, SafeAfter DEF q
<1>4. Healthy(ts, q) => Healthy(ts, p)
  BY <1>2, HeadingHealthy
<1>5. Heads(ts, p, q)
  BY <1>2, <1>3, <1>4 DEF Heads, Heading, Base
<1> QED BY <1>1, <1>2, <1>5 DEF q

LEMMA ConsumeHeads ==
    ASSUME NEW ts, NEW p, Heading(ts, p), NEW type
    PROVE  Heads(ts, p, Consume(p, type)) /\ Follows(p, Consume(p, type))
<1>1. Fine(p) /\ Safe(ts, p)
  BY DEF Heading, Safe
<1>2. CASE Check(p, type)
  BY <1>2, AdvanceHeads DEF Consume
<1>3. CASE ~Check(p, type)
  <2> DEFINE q == ErrorAtCurrent(p)
  <2>1. Follows(p, q) /\ q.errored /\ Fine(q)
    BY <1>1, ErrorAtCurrentFollows DEF Follows
  <2> HIDE DEF q
  <2>2. Heads(ts, p, q)
    BY <2>1 DEF Heads, Heading, Safe, Healthy, Follows
  <2> QED BY <1>3, <2>1, <2>2 DEF Consume, q
<1> QED BY <1>2, <1>3

LEMMA ParametersHead ==
    ASSUME NEW ts, NEW parse, NEW p, Heading(ts, p), Space(ts, parse, p, 1)
    PROVE  Heads(ts, p, parse["parameters", Parameter(p), 0])
<1> DEFINE q == Parameter(p)
           r == parse["parameters", q, 0]
<1>1. Fine(p)
  BY DEF Heading, Safe
<1>2. Heads(ts, p, q) /\ Follows(p, q) /\ Fine(q)
  BY <1>1, ParameterHeads, ParameterFollows DEF Follows
<1>3. Space(ts, parse, q, 1)
  BY <1>1, <1>2, SpaceAfter
<1>4. "parameters" \in Goals /\ Rank("parameters") + 1 = 1
      /\ "parameters" \notin {"expression", "infix"}
  BY DEF Goals, Rank
<1> HIDE DEF q
<1>5. Wrote(ts, "parameters", q, r, 0) /\ Done("parameters", q, r)
  BY <1>2, <1>3, <1>4, Written, Served, SpaceIsRoom
<1> HIDE DEF r
<1>6. Heads(ts, q, r) /\ Follows(q, r)
  BY <1>2, <1>5 DEF Wrote, Heads, Done
<1>7. Healthy(ts, r) => Healthy(ts, q)
  BY <1>2, <1>6, HeadingHealthy DEF Heads
<1>8. Heads(ts, p, r)
  BY <1>2, <1>6, <1>7, HeadsOn
<1> QED BY <1>8 DEF r, q

LEMMA ParametersHeads ==
    ASSUME NEW ts, NEW parse, NEW p, Heading(ts, p), Space(ts, parse, p, 0)
    PROVE  Heads(ts, p, Parameters(parse, p))
<1>1. CASE Check(p, "COMMA")
  <2> DEFINE q == Advance(p)
             r == parse["parameters", Parameter(q), 0]
  <2>1. p.current.type # "EOF"
    BY <1>1 DEF Check
  <2>2. Heads(ts, p, q) /\ Follows(p, q) /\ Fine(p) /\ Heading(ts, q) /\ Fine(q)
    BY AdvanceHeads DEF Heads, Follows
  <2>3. Space(ts, parse, q, 1)
    BY <2>1, <2>2, SpaceAfterToken
  <2> HIDE DEF q
  <2>4. Heads(ts, q, r)
    BY <2>2, <2>3, ParametersHead
  <2>5. Follows(q, r)
    BY <2>2, <2>3, SpaceIsRoom, ParametersAt
  <2> HIDE DEF r
  <2>6. Healthy(ts, r) => Healthy(ts, q)
    BY <2>2, <2>5, HeadingHealthy
  <2>7. Heads(ts, p, r)
    BY <2>2, <2>4, <2>6, HeadsOn
  <2> QED BY <1>1, <2>7 DEF Parameters, q, r
<1>2. CASE ~Check(p, "COMMA")
  BY <1>2 DEF Parameters, Heads
<1> QED BY <1>1, <1>2

LEMMA ParameterListHeads ==
    ASSUME NEW ts, NEW parse, NEW p, Heading(ts, p), Space(ts, parse, p, 1)
    PROVE  Heads(ts, p, ParameterList(parse, p))
<1>1. Heads(ts, p, p)
  BY DEF Heads
<1> QED BY <1>1, ParametersHead DEF ParameterList

LEMMA FinishedFields ==
    ASSUME NEW c \in FunctionCompiler
    PROVE  /\ Finished(c).code = c.code /\ Finished(c).constants = c.constants
           /\ Finished(c).main = c.main /\ Finished(c).arity = c.arity
           /\ Finished(c) \in Compiled
BY DEF Finished, FunctionCompiler, Compiled

\* The instruction that leaves a function is its last.
LEMMA ReturnCloses ==
    ASSUME NEW ts, NEW w, Fine(w), NEW k, Segment(ts, w.c, 0, Len(w.c.code), w.c.arity + 1, k, {}),
           w.c.main => k = 1, NEW r, r = EmitOp(w, "RETURN")
    PROVE  /\ Closed(ts, Finished(r.c)) /\ Follows(w, r) /\ Keeps(w, r) /\ r.functions = w.functions
           /\ r.c.constants = w.c.constants /\ (Healthy(ts, r) <=> Healthy(ts, w)) /\ (Sane(ts, r) <=> Sane(ts, w))
           /\ r.c.locals = w.c.locals
<1> DEFINE bytes == << Code("RETURN") >>
           b == Len(w.c.code)
           fn == Finished(r.c)
<1>1. "RETURN" \in Ops /\ b \in Nat
  BY OpsListed, FineTypes
<1>2. bytes \in Seq(Nat) /\ Len(bytes) = 1 /\ bytes[1] = Code("RETURN")
  BY <1>1, CodeOfOp
<1>3. r = Emit(w, bytes)
  BY DEF EmitOp
<1> HIDE DEF bytes
<1>4. /\ Follows(w, r) /\ Keeps(w, r) /\ r.c.locals = w.c.locals /\ Len(r.c.code) = b + 1
      /\ (Healthy(ts, r) <=> Healthy(ts, w)) /\ (Sane(ts, r) <=> Sane(ts, w)) /\ r.c.main = w.c.main
      /\ r.c.constants = w.c.constants /\ r.functions = w.functions /\ r.c.arity = w.c.arity
  <2>1. Follows(w, r) /\ Keeps(w, r) /\ r.c.locals = w.c.locals /\ Len(r.c.code) = b + Len(bytes)
        /\ (Healthy(ts, r) <=> Healthy(ts, w)) /\ (Sane(ts, r) <=> Sane(ts, w))
    BY ONLY Fine(w), <1>2, <1>3, EmitKeeps
  <2>2. r.c.main = w.c.main /\ r.c.constants = w.c.constants /\ r.functions = w.functions
        /\ r.c.arity = w.c.arity
    BY ONLY Fine(w), <1>2, <1>3, EmitFields
  <2> QED BY <1>2, <2>1, <2>2
<1>5. r.c.code[b + 1] = Code("RETURN")
  BY <1>1, <1>2, <1>3, EmittedBytes
<1>6. Fine(r)
  BY <1>4 DEF Follows
<1>7. r.c \in FunctionCompiler /\ r.c.constants \in Seq(Value)
  BY <1>6, FineTypes
<1>8. fn.code = r.c.code /\ fn.constants = r.c.constants /\ fn.main = r.c.main /\ fn.arity = r.c.arity
  BY <1>7, FinishedFields
<1> HIDE DEF fn
<1>9. Segment(ts, r.c, 0, b, w.c.arity + 1, k, {})
  BY <1>4, SegmentAfter
<1>10. Segment(ts, fn, 0, b, fn.arity + 1, k, {})
  <2>1. SameCode(r.c, fn, 0, b) /\ b <= Len(fn.code)
    BY <1>1, <1>4, <1>8 DEF SameCode
  <2>2. Begins(r.c.constants, fn.constants) /\ fn.constants \in Seq(Value)
    BY <1>7, <1>8, BeginsItself
  <2>3. Segment(ts, fn, 0, b, w.c.arity + 1, k, {})
    BY <1>7, <1>8, <1>9, <2>1, <2>2, SegmentStays
  <2> QED BY <1>4, <1>8, <2>3
<1>11. "RETURN" \notin ByteOperand \cup ShortOperand /\ "RETURN" \notin GlobalOps \cup ConstantOps
       /\ "RETURN" \notin {"GET_LOCAL", "SET_LOCAL"}
  BY DEF ByteOperand, ShortOperand, GlobalOps, ConstantOps, DeclGlobalOps, GetGlobalOps, SetGlobalOps
<1>12. IsOp(fn, b) /\ OpAt(fn, b) = "RETURN"
  BY <1>1, <1>5, <1>8, HoldsOp
<1>13. k \in Nat /\ Len(fn.code) = b + 1
  BY <1>4, <1>8, <1>9, SegmentHeights
<1>14. Runs(ts, fn, b, k)
  BY <1>4, <1>8, <1>11, <1>12 DEF Runs
<1>15. Closed(ts, fn)
  BY <1>1, <1>10, <1>12, <1>13, <1>14 DEF Closed
<1> QED BY <1>4, <1>15 DEF fn

\* A function that is no script returns null at its end.
LEMMA FunctionCloses ==
    ASSUME NEW ts, NEW q, Safe(ts, q), ~q.c.main, NEW h \in Nat \ {0},
           Healthy(ts, q) => Segment(ts, q.c, 0, Len(q.c.code), q.c.arity + 1, h, {}),
           NEW r, r = EmitReturn(q), Healthy(ts, r)
    PROVE  /\ Closed(ts, Finished(r.c)) /\ ~r.c.main /\ r.c.constants = q.c.constants
           /\ Sane(ts, r) /\ r.functions = q.functions /\ Healthy(ts, q) /\ Fine(r) /\ Sane(ts, q)
<1> DEFINE w == EmitOp(q, "NULL")
           bytes == << Code("NULL") >>
<1>1. Writes(ts, q, w, h, h + 1) /\ Fine(q)
  BY OperationsWrite DEF Literals, Safe
<1>2. bytes \in Seq(Nat)
  BY OpsListed, CodeOfOp DEF Literals
<1>3. w = Emit(q, bytes)
  BY DEF EmitOp
<1> HIDE DEF bytes
<1>4. w.functions = q.functions /\ w.c.constants = q.c.constants /\ (Healthy(ts, w) <=> Healthy(ts, q))
      /\ (Sane(ts, w) <=> Sane(ts, q)) /\ w.c.main = q.c.main
  BY <1>1, <1>2, <1>3, EmitKeeps, EmitFields
<1>5. Fine(w) /\ r = EmitOp(w, "RETURN")
  BY <1>1 DEF EmitReturn, Writes, Follows
<1> HIDE DEF w
<1>6. Follows(w, r)
  BY <1>5, OpsListed, EmitOpFollows
<1>7. Healthy(ts, w) /\ Healthy(ts, q)
  BY <1>4, <1>6 DEF Healthy, Follows
<1>8. Adds(ts, q, w, h, h + 1)
  BY <1>1, <1>7, WritesHealthy
<1>9. Segment(ts, w.c, 0, Len(q.c.code), q.c.arity + 1, h, {})
  BY <1>1, <1>7, <1>8, SegmentAfter DEF Writes, Adds
<1>10. Segment(ts, w.c, Len(q.c.code), Len(w.c.code), h, h + 1, {}) /\ w.c.arity = q.c.arity
  BY <1>8 DEF Adds, Keeps
<1>11. Segment(ts, w.c, 0, Len(w.c.code), w.c.arity + 1, h + 1, {})
  BY <1>9, <1>10, SegmentsJoin
<1>12. /\ Closed(ts, Finished(r.c)) /\ r.functions = w.functions /\ r.c.constants = w.c.constants
       /\ (Sane(ts, r) <=> Sane(ts, w))
  BY <1>4, <1>5, <1>11, ReturnCloses
<1> QED BY <1>4, <1>6, <1>7, <1>12 DEF Safe, Follows

LEMMA BlockDeclares ==
    ASSUME NEW ts, NEW parse, NEW p, Settled(ts, p), Space(ts, parse, p, 3)
    PROVE  Declares(ts, p, parse["block", p, 0])
<1>1. "block" \in Goals /\ Rank("block") + 1 = 3 /\ "block" \notin {"expression", "infix"}
  BY DEF Goals, Rank
<1>2. Fine(p)
  BY DEF Settled, Safe
<1>3. Wrote(ts, "block", p, parse["block", p, 0], 0)
  BY <1>1, <1>2, Written
<1> QED BY <1>3 DEF Wrote

\* A function begins with itself as its only local, in a scope of its own.
LEMMA NewFunctionHeads ==
    ASSUME NEW ts, NEW p, Fine(p), Sane(ts, p)
    PROVE  LET q == BeginScope(BeginFunction(p))
           IN  Heading(ts, q) /\ q.functions = p.functions
<1> DEFINE f == BeginFunction(p)
           q == BeginScope(f)
           c == InScope(f.c, f.c.scope_depth + 1, f.c.locals)
<1>1. Moves(p, f) /\ f.c = NewCompiler(FALSE) /\ f.functions = p.functions /\ Fine(f) /\ f.base = p.base
  BY BeginFunctionMoves DEF Moves
<1>2. f.c.main = FALSE /\ f.c.code = <<>> /\ f.c.constants = <<>> /\ f.c.arity = 0
      /\ f.c.scope_depth = 0 /\ Len(f.c.locals) = 1 /\ f.c.locals[1].name = NoName
      /\ f.c.locals[1].depth = 0
  BY <1>1 DEF NewCompiler
<1> HIDE DEF f
<1>3. q = With(f, c) /\ Fine(q) /\ q.base = f.base /\ q.c = c
  BY <1>1, BeginScopeMoves DEF Moves
<1>4. f \in Parser /\ f.c \in FunctionCompiler /\ f.c.scope_depth + 1 \in Nat /\ f.c.locals \in Seq(Local)
  <2>1. f.c.scope_depth + 1 \in Nat
    BY <1>2
  <2> QED BY <1>1, <2>1, FineTypes
<1>5. q.functions = f.functions
  BY <1>3, <1>4, WithFields
<1>6. c.main = f.c.main /\ c.code = f.c.code /\ c.constants = f.c.constants /\ c.arity = f.c.arity
      /\ c.locals = f.c.locals /\ c.scope_depth = f.c.scope_depth + 1
  BY <1>4, InScopeType
<1> HIDE DEF c, q
<1>7. Sane(ts, q)
  BY <1>1, <1>2, <1>3, <1>5, <1>6 DEF Sane, ValidConstants
<1>8. ~q.c.main /\ q.c.scope_depth = 1 /\ Rooted(q.c) /\ q.c.code = <<>> /\ Base(q) = q.c.arity + 1
  BY <1>2, <1>3, <1>6 DEF Rooted, Base
<1>9. ASSUME NEW i \in DOMAIN q.c.locals PROVE q.c.locals[i].depth \in 0 .. 1
  <2>1. q.c.locals = f.c.locals /\ DOMAIN f.c.locals = 1 .. 1
    BY <1>2, <1>3, <1>4, <1>6
  <2>2. i = 1
    BY <2>1
  <2> QED BY <1>2, <2>1, <2>2
<1> QED BY <1>1, <1>3, <1>5, <1>7, <1>8, <1>9 DEF Heading, Safe, q, f

LEMMA HeadingIsSettled ==
    ASSUME NEW ts, NEW p, Heading(ts, p)
    PROVE  Settled(ts, p)
BY DEF Heading, Settled

\* The parser between the parts of a function, and when the function is complete.
Opened(p) == Consume(BeginScope(BeginFunction(p)), "LEFT_PAREN")
Headed(parse, p) ==
    Consume(Consume(ParameterList(parse, Opened(p)), "RIGHT_PAREN"), "LEFT_BRACE")
Blocked(parse, p) == parse["block", Headed(parse, p), 0]

LEMMA ParseFunctionParts ==
    ASSUME NEW parse, NEW p
    PROVE  ParseFunction(parse, p) = EmitFunction(EndCompiler(Blocked(parse, p)))
BY DEF ParseFunction, Blocked, Headed, Opened

LEMMA FunctionMoves ==
    ASSUME NEW ts, NEW parse, NEW p, Fine(p), Space(ts, parse, p, 3)
    PROVE  LET block == Blocked(parse, p)
               end == EndCompiler(block)
           IN  /\ Fine(Opened(p)) /\ Space(ts, parse, Opened(p), 3)
               /\ Fine(Headed(parse, p)) /\ Space(ts, parse, Headed(parse, p), 3)
               /\ Follows(Opened(p), Headed(parse, p))
               /\ Follows(Headed(parse, p), block) /\ Fine(block) /\ ~block.c.main
               /\ Fine(end) /\ end.c = p.c /\ Follows(p, end)
<1> DEFINE q == BeginFunction(p)
           inside == BeginScope(q)
           open == Opened(p)
           header == ParameterList(parse, open)
           close == Consume(header, "RIGHT_PAREN")
           body == Headed(parse, p)
           block == Blocked(parse, p)
           end == EndCompiler(block)
<1>1. Moves(p, q) /\ Fine(q) /\ q.enclosing = << p.c >> \o p.enclosing /\ ~q.c.main
  BY BeginFunctionMoves DEF Moves, NewCompiler
<1>2. Moves(q, inside) /\ Fine(inside) /\ inside.enclosing = q.enclosing /\ ~inside.c.main
  <2>1. q.c \in FunctionCompiler /\ q.c.scope_depth + 1 \in Nat /\ q.c.locals \in Seq(Local)
    BY <1>1, FineTypes
  <2> HIDE DEF q
  <2>2. inside.c = InScope(q.c, q.c.scope_depth + 1, q.c.locals)
    BY <1>1, BeginScopeMoves
  <2>3. ~inside.c.main
    BY <1>1, <2>1, <2>2, InScopeType, SMTT(30)
  <2> QED BY <1>1, <2>3, BeginScopeMoves DEF Moves
<1>3. open = Consume(inside, "LEFT_PAREN")
  BY DEF Opened
<1> HIDE DEF q, inside, open
<1>4. Moves(p, inside) /\ Space(ts, parse, inside, 3)
  BY <1>1, <1>2, MovesOn, SpaceAfterMove
<1>5. Follows(inside, open) /\ Fine(open)
  BY <1>2, <1>3, ConsumeFollows DEF Follows
<1>6. Space(ts, parse, open, 3) /\ Space(ts, parse, open, 1)
  BY <1>2, <1>4, <1>5, SpaceAfter
<1>7. Follows(open, header) /\ Fine(header)
  BY <1>5, <1>6, SpaceIsRoom, ParameterListFollows DEF Follows
<1> HIDE DEF header
<1>8. Follows(header, close) /\ Fine(close)
  BY <1>7, ConsumeFollows DEF Follows
<1>9. body = Consume(close, "LEFT_BRACE")
  BY DEF Headed, close, header, open
<1> HIDE DEF close, body
<1>10. Follows(close, body) /\ Fine(body)
  BY <1>8, <1>9, ConsumeFollows DEF Follows
<1>11. Follows(open, body)
  BY <1>5, <1>7, <1>8, <1>10, FollowsOn
<1>12. Space(ts, parse, body, 3)
  BY <1>5, <1>6, <1>11, SpaceAfter
<1>13. block = parse["block", body, 0]
  BY DEF Blocked, body
<1> HIDE DEF block
<1>14. Follows(body, block)
  BY <1>10, <1>12, <1>13, SpaceIsRoom, BlockAt
<1>15. Follows(inside, block) /\ Fine(block) /\ ~block.c.main
  BY <1>2, <1>5, <1>11, <1>14, FollowsOn DEF Follows
<1>16. block.enclosing = << p.c >> \o p.enclosing
  BY <1>1, <1>2, <1>15 DEF Follows
<1>17. p.enclosing \in Seq(FunctionCompiler) /\ p.c \in FunctionCompiler
  BY DEF Fine, Parser
<1>18. block.enclosing # <<>> /\ Head(block.enclosing) = p.c /\ Tail(block.enclosing) = p.enclosing
  BY <1>16, <1>17
<1>19. Moves(block, end) /\ end.c = p.c /\ end.enclosing = p.enclosing
  BY <1>15, <1>18, EndCompilerMoves
<1> HIDE DEF end
<1>20. Moves(p, end)
  BY <1>1, <1>2, <1>4, <1>15, <1>19, MovesOn
<1>21. Follows(p, end) /\ Fine(end)
  BY <1>19, <1>20 DEF Moves, Follows
<1> QED BY <1>5, <1>6, <1>10, <1>11, <1>12, <1>14, <1>15, <1>19, <1>21 DEF open, body, block, end

LEMMA HeadedHeads ==
    ASSUME NEW ts, NEW parse, NEW p, Fine(p), Sane(ts, p), Space(ts, parse, p, 3)
    PROVE  Heads(ts, p, Headed(parse, p))
<1> DEFINE inside == BeginScope(BeginFunction(p))
           open == Opened(p)
           header == ParameterList(parse, open)
           close == Consume(header, "RIGHT_PAREN")
           body == Headed(parse, p)
<1>1. Heads(ts, p, inside) /\ Heading(ts, inside)
  BY NewFunctionHeads DEF Heads
<1>2. open = Consume(inside, "LEFT_PAREN")
  BY DEF Opened
<1>3. Fine(open) /\ Space(ts, parse, open, 3)
  BY FunctionMoves
<1>4. body = Consume(close, "LEFT_BRACE")
  BY DEF Headed
<1> HIDE DEF inside, open
<1>5. Heads(ts, inside, open) /\ Follows(inside, open) /\ Heading(ts, open) /\ Fine(inside)
  BY <1>1, <1>2, ConsumeHeads DEF Heads, Heading, Safe
<1>6. Heads(ts, p, open)
  BY <1>1, <1>5, HeadingHealthy, HeadsOn
<1>7. Space(ts, parse, open, 1)
  BY <1>3, FollowsItself, SpaceAfter
<1>8. Heads(ts, open, header) /\ Follows(open, header) /\ Heading(ts, header) /\ Fine(header)
  BY <1>3, <1>5, <1>7, SpaceIsRoom, ParameterListHeads, ParameterListFollows DEF Heads, Follows
<1>9. Heads(ts, p, header)
  BY <1>3, <1>5, <1>6, <1>8, HeadingHealthy, HeadsOn
<1> HIDE DEF header
<1>10. Heads(ts, header, close) /\ Follows(header, close) /\ Heading(ts, close) /\ Fine(close)
  BY <1>8, ConsumeHeads DEF Heads, Follows
<1>11. Heads(ts, p, close)
  BY <1>8, <1>9, <1>10, HeadingHealthy, HeadsOn
<1> HIDE DEF close
<1>12. Heads(ts, close, body) /\ Follows(close, body)
  BY <1>4, <1>10, ConsumeHeads
<1> QED BY <1>10, <1>11, <1>12, HeadingHealthy, HeadsOn

\* The last of the functions is the one that is complete.
LEMMA EndCompilerPlaces ==
    ASSUME NEW p, Fine(p), ~p.c.main, NEW end, end = EndCompiler(p), Fine(end)
    PROVE  LET r == EmitReturn(p)
           IN  /\ end.functions = Append(r.functions, Finished(r.c))
               /\ Follows(p, r) /\ Fine(r) /\ r.errored = end.errored /\ end.base = p.base
               /\ end.tokens = p.tokens
               /\ Len(end.functions) = Len(r.functions) + 1
               /\ \A i \in 1 .. Len(r.functions) : end.functions[i] = r.functions[i]
               /\ end.functions[Len(end.functions)] = Finished(r.c)
               /\ ~Finished(r.c).main
<1> DEFINE r == EmitReturn(p)
<1>1. Follows(p, r) /\ Fine(r)
  BY EmitReturnFollows DEF Follows
<1>2. end.functions = Append(r.functions, Finished(r.c)) /\ r.errored = end.errored /\ end.base = p.base
      /\ end.tokens = p.tokens
  BY EndCompilerMoves DEF Moves
<1>3. ~r.c.main
  BY <1>1 DEF Follows
<1> HIDE DEF r
<1>4. r.functions \in Seq(Compiled) /\ r.c \in FunctionCompiler
  BY <1>1, FineTypes
<1>5. Finished(r.c) \in Compiled /\ ~Finished(r.c).main
  BY <1>3, <1>4, FinishedFields
<1> DEFINE fn == Finished(r.c)
<1> HIDE DEF fn
<1>6. fn \in Compiled /\ end.functions = Append(r.functions, fn)
  BY <1>2, <1>5 DEF fn
<1>7. /\ Len(end.functions) = Len(r.functions) + 1
      /\ \A i \in 1 .. Len(r.functions) : end.functions[i] = r.functions[i]
      /\ end.functions[Len(end.functions)] = fn
  BY ONLY <1>4, <1>6
<1> QED BY <1>1, <1>2, <1>5, <1>7 DEF r, fn

\* The constants of a function stay in order when functions are added.
LEMMA ValidStays ==
    ASSUME NEW base \in Nat, NEW functions \in Seq(Compiled), NEW more \in Seq(Compiled),
           Begins(functions, more)
    PROVE  /\ \A v : ValidConstant(v, base, functions) => ValidConstant(v, base, more)
           /\ \A constants : ValidConstants(constants, base, functions) => ValidConstants(constants, base, more)
<1>1. ASSUME NEW v, ValidConstant(v, base, functions) PROVE ValidConstant(v, base, more)
  BY <1>1, BeginsItems DEF ValidConstant
<1> QED BY <1>1 DEF ValidConstants

\* A function that ends is closed, and one of the functions there are.
LEMMA FunctionEnds ==
    ASSUME NEW ts, NEW parse, NEW p, Safe(ts, p), Space(ts, parse, p, 3)
    PROVE  LET end == EndCompiler(Blocked(parse, p))
           IN  /\ Safe(ts, end) /\ end.c = p.c /\ Follows(p, end)
               /\ Healthy(ts, end) => Begins(p.functions, end.functions)
               /\ Len(end.functions) >= 1 /\ ~end.functions[Len(end.functions)].main
<1> DEFINE body == Headed(parse, p)
           block == Blocked(parse, p)
           r == EmitReturn(block)
           end == EndCompiler(block)
<1>1. Fine(p)
  BY DEF Safe
<1>2. /\ Fine(body) /\ Space(ts, parse, body, 3) /\ Follows(body, block) /\ Fine(block) /\ ~block.c.main
      /\ Fine(end) /\ end.c = p.c /\ Follows(p, end)
  BY <1>1, FunctionMoves
<1>3. block = parse["block", body, 0]
  BY DEF Blocked
<1> HIDE DEF body, block
<1>4. /\ Follows(block, r) /\ Fine(r) /\ r.errored = end.errored /\ end.base = block.base
      /\ end.tokens = block.tokens
      /\ Len(end.functions) = Len(r.functions) + 1
      /\ \A i \in 1 .. Len(r.functions) : end.functions[i] = r.functions[i]
      /\ end.functions[Len(end.functions)] = Finished(r.c)
      /\ ~Finished(r.c).main
  BY <1>2, EndCompilerPlaces
<1>5. r = EmitReturn(block)
  OBVIOUS
<1> HIDE DEF r, end
<1>6. r.functions \in Seq(Compiled) /\ end.functions \in Seq(Compiled) /\ p.functions \in Seq(Compiled)
      /\ Len(r.functions) \in Nat /\ p.base \in Nat /\ end.base = p.base
  BY <1>1, <1>2, <1>4, FineTypes DEF Fine, Parser, Follows
<1>7. Len(end.functions) >= 1 /\ ~end.functions[Len(end.functions)].main
  BY <1>4, <1>6
<1>8. ASSUME Healthy(ts, end) PROVE Sane(ts, end) /\ Begins(p.functions, end.functions)
  <2>1. Healthy(ts, p)
    BY <1>2, <1>8 DEF Healthy, Follows
  <2>2. Sane(ts, p)
    BY <2>1 DEF Safe
  <2>3. Heads(ts, p, body)
    BY <1>1, <2>2, HeadedHeads DEF body
  <2>4. Settled(ts, body) /\ Heading(ts, body)
    BY <2>3, HeadingIsSettled DEF Heads
  <2>5. Declares(ts, body, block)
    BY <1>2, <1>3, <2>4, BlockDeclares
  <2>6. Safe(ts, block)
    BY <2>4, <2>5, DeclaresSettled DEF Settled
  <2>7. ~r.errored /\ ~r.c.main
    BY <1>2, <1>4, <1>8 DEF Healthy, Follows
  <2>8. Healthy(ts, r) /\ Healthy(ts, block)
    BY <1>2, <1>4, <1>8, <2>7 DEF Healthy, Follows
  <2>9. Healthy(ts, body)
    BY <1>2, <2>5, <2>8, DeclaresHealthy
  <2>10. body.functions = p.functions /\ body.c.code = <<>> /\ Base(body) = body.c.arity + 1
    BY <2>3, <2>9 DEF Heads, Heading
  <2>11. Keeps(body, block) /\ Sane(ts, block)
         /\ Segment(ts, block.c, Len(body.c.code), Len(block.c.code), Base(body), Base(block), {})
    BY <2>5, <2>8 DEF Declares
  <2>12. Segment(ts, block.c, 0, Len(block.c.code), block.c.arity + 1, Base(block), {})
    BY <2>10, <2>11 DEF Keeps
  <2>13. Base(block) \in Nat \ {0}
    BY <2>12, SegmentHeights
  <2>14. /\ Closed(ts, Finished(r.c)) /\ r.c.constants = block.c.constants
         /\ Sane(ts, r) /\ r.functions = block.functions
    BY <1>2, <1>5, <2>6, <2>8, <2>12, <2>13, FunctionCloses
  <2>15. r.c.constants \in Seq(Value) /\ r.c \in FunctionCompiler /\ r.base = p.base
    BY <1>2, <1>4, <1>6, FineTypes DEF Follows
  <2>16. Begins(p.functions, r.functions)
    BY <2>10, <2>11, <2>14 DEF Keeps
  <2>17. Begins(r.functions, end.functions)
    BY <1>4, <1>6 DEF Begins
  <2>18. Begins(p.functions, end.functions)
    BY <1>6, <2>16, <2>17, BeginsOn
  <2>19. ASSUME NEW i \in DOMAIN end.functions
         PROVE  /\ Closed(ts, end.functions[i]) /\ ~end.functions[i].main
                /\ ValidConstants(end.functions[i].constants, p.base, end.functions)
    <3>1. CASE i \in DOMAIN r.functions
      <4>1. end.functions[i] = r.functions[i]
        <5>1. i \in 1 .. Len(r.functions)
          BY <1>6, <3>1
        <5> QED BY <1>4, <5>1
      <4>2. Closed(ts, r.functions[i]) /\ ~r.functions[i].main
            /\ ValidConstants(r.functions[i].constants, p.base, r.functions)
        BY <2>14, <2>15, <3>1 DEF Sane, ValidFunctions
      <4> QED BY <1>6, <2>17, <4>1, <4>2, ValidStays
    <3>2. CASE i \notin DOMAIN r.functions
      <4>1. i = Len(end.functions)
        BY <1>4, <1>6, <3>2
      <4>2. Finished(r.c).constants = r.c.constants
        BY <2>15, FinishedFields
      <4>3. ValidConstants(r.c.constants, p.base, r.functions)
        BY <2>14, <2>15 DEF Sane
      <4> QED BY <1>4, <1>6, <2>14, <2>17, <4>1, <4>2, <4>3, ValidStays
    <3> QED BY <3>1, <3>2
  <2>20. ValidConstants(end.c.constants, p.base, end.functions)
    BY <1>2, <1>6, <2>2, <2>18, ValidStays DEF Sane
  <2>21. Sane(ts, end)
    BY <1>6, <2>19, <2>20 DEF Sane, ValidFunctions
  <2> QED BY <2>18, <2>21
<1> QED BY <1>2, <1>7, <1>8 DEF Safe, end, block

LEMMA ParseFunctionWrites ==
    ASSUME NEW ts, NEW parse, NEW p, Safe(ts, p), NEW h \in Nat \ {0}, Space(ts, parse, p, 3)
    PROVE  Writes(ts, p, ParseFunction(parse, p), h, h + 1)
<1> DEFINE end == EndCompiler(Blocked(parse, p))
           f == end.base + Len(end.functions)
           q == EmitFunction(end)
<1>1. /\ Safe(ts, end) /\ end.c = p.c /\ Follows(p, end)
      /\ Healthy(ts, end) => Begins(p.functions, end.functions)
      /\ Len(end.functions) >= 1 /\ ~end.functions[Len(end.functions)].main
  BY FunctionEnds
<1>2. ParseFunction(parse, p) = q
  BY ParseFunctionParts
<1> HIDE DEF end
<1>3. Fine(p) /\ Fine(end) /\ end.base \in Nat /\ end.functions \in Seq(Compiled)
      /\ Len(end.functions) \in Nat
  BY <1>1, FineTypes DEF Safe, Fine, Parser
<1>4. f \in Int /\ f - end.base = Len(end.functions)
  BY <1>3
<1>5. q = EmitConstant(end, Function(f))
  BY DEF EmitFunction
<1> HIDE DEF f, q
<1>6. Function(f) \in Value
  BY <1>4, FunctionIsValue
<1>7. ValidConstant(Function(f), end.base, end.functions)
  <2>1. Len(end.functions) \in DOMAIN end.functions
    BY <1>1, <1>3
  <2> QED BY <1>1, <1>4, <2>1 DEF ValidConstant, Function
<1>8. Writes(ts, end, q, h, h + 1)
  BY <1>1, <1>5, <1>6, <1>7, EmitConstantWrites
<1>9. Follows(p, q) /\ Fine(q)
  BY <1>1, <1>3, <1>8, FollowsOn DEF Writes, Follows
<1>10. ASSUME Healthy(ts, q) PROVE Adds(ts, p, q, h, h + 1)
  <2>1. Healthy(ts, end) /\ Adds(ts, end, q, h, h + 1)
    BY <1>3, <1>8, <1>10, WritesHealthy
  <2>2. p.functions \in Seq(Compiled) /\ q.functions \in Seq(Compiled)
    BY <1>3, <1>9, FineTypes
  <2>3. Begins(p.functions, q.functions)
    BY <1>1, <1>3, <2>1, <2>2, BeginsOn DEF Adds, Keeps
  <2> QED BY <1>1, <2>1, <2>3 DEF Adds, Keeps
<1> QED BY <1>2, <1>9, <1>10 DEF Writes

LEMMA SettledAfterMark ==
    ASSUME NEW ts, NEW p, NEW h, Level(ts, p, h), p.c.scope_depth # 0, NEW r, Named(p, r),
           NEW q, q = MarkInitialized(r, FALSE)
    PROVE  /\ Follows(p, q) /\ Safe(ts, q) /\ Fine(q)
           /\ Healthy(ts, q) =>
                 /\ Keeps(p, q) /\ q.c.code = p.c.code
                 /\ Len(q.c.locals) = Len(p.c.locals) + 1
                 /\ Begins(p.c.locals, q.c.locals)
                 /\ q.c.locals[Len(p.c.locals) + 1].depth = p.c.scope_depth
<1>1. Fine(p) /\ Fine(r) /\ Follows(p, r) /\ Safe(ts, r) /\ Safe(ts, p)
  BY LevelAt, NamedAt
<1>2. Follows(r, q) /\ Fine(q)
  BY <1>1, MarkInitializedFollows DEF Follows
<1>3. Follows(p, q)
  BY <1>1, <1>2, FollowsOn
<1>4. ASSUME Healthy(ts, q)
      PROVE  /\ Sane(ts, q) /\ Keeps(p, q) /\ q.c.code = p.c.code
             /\ Len(q.c.locals) = Len(p.c.locals) + 1
             /\ Begins(p.c.locals, q.c.locals)
             /\ q.c.locals[Len(p.c.locals) + 1].depth = p.c.scope_depth
  <2>1. ~r.errored
    BY <1>2, <1>4 DEF Healthy, Follows
  <2>2. Same(p, r) /\ Len(r.c.locals) = Len(p.c.locals) + 1 /\ Begins(p.c.locals, r.c.locals)
    BY <2>1 DEF Named
  <2>3. Len(p.c.locals) \in Nat /\ Base(r) >= 1
    BY <1>1, <2>2, FineTypes DEF Base
  <2>4. /\ Same(r, q) /\ Len(q.c.locals) = Len(r.c.locals)
        /\ \A i \in 1 .. Len(r.c.locals) - 1 : q.c.locals[i] = r.c.locals[i]
        /\ q.c.locals[Len(r.c.locals)].depth = r.c.scope_depth
    BY <1>1, <2>3, MarkInitializedLocals
  <2>5. Keeps(p, r) /\ Keeps(r, q) /\ Healthy(ts, r) /\ Safe(ts, q)
    BY <1>1, <1>4, <2>2, <2>4, SameKeeps
  <2>6. Keeps(p, q)
    BY <1>1, <1>2, <2>5, KeepsOn
  <2>7. Begins(p.c.locals, q.c.locals)
    <3>1. \A i \in 1 .. Len(p.c.locals) : i \in 1 .. Len(r.c.locals) - 1
      BY <2>2, <2>3
    <3>2. \A i \in 1 .. Len(p.c.locals) : q.c.locals[i] = p.c.locals[i]
      BY <2>2, <2>4, <3>1 DEF Begins
    <3> QED BY <2>2, <2>3, <2>4, <3>2 DEF Begins
  <2> QED BY <1>1, <1>4, <2>2, <2>4, <2>5, <2>6, <2>7 DEF Safe, Same, Follows
<1> QED BY <1>2, <1>3, <1>4 DEF Safe

\* A function is declared before its body is read, and the index of its name is
\* kept on a byte: that is enough for it, or this is no script.
LEMMA FunctionDeclarationDeclares ==
    ASSUME NEW ts, NEW parse, NEW p, NEW h, Level(ts, p, h), Space(ts, parse, p, 3),
           ~p.errored /\ p.current.type = "IDENTIFIER" =>
               p.scanned \in DOMAIN p.tokens \ {1} /\ p.tokens[p.scanned - 1].type = "DEF"
    PROVE  Declares(ts, p, FunctionDeclaration(parse, p))
<1> DEFINE v == ParseVariable(p)
           r == v.p
           q == MarkInitialized(r, FALSE)
           global == ParseFunction(parse, r)
           low == v.index % ByteSize
<1>1. Safe(ts, p) /\ Fine(p) /\ h \in Nat \ {0} /\ h + 1 \in Nat \ {0} /\ Settled(ts, p)
  BY LevelAt
<1>2. Follows(p, r) /\ Fine(r) /\ v.index \in Int
  BY <1>1, ParseVariableFollows DEF Follows
<1>3. p.c.scope_depth \in Nat
  BY <1>1, FineTypes
<1>4. FunctionDeclaration(parse, p) =
        IF p.c.scope_depth > 0 THEN ParseFunction(parse, q) ELSE DeclareGlobal(global, low, FALSE)
  BY DEF FunctionDeclaration
<1> DEFINE index == v.index
<1>5. CASE p.c.scope_depth = 0
  <2>1. /\ Writes(ts, p, r, h, h) /\ index \in Nat
        /\ Healthy(ts, r) => /\ index + 1 \in DOMAIN r.c.constants /\ r.c.constants[index + 1].type = "STRING"
                         /\ r.c.constants[index + 1] = String(p.current.text)
                         /\ p.current.type = "IDENTIFIER"
    BY <1>1, <1>5, ParseGlobalWrites
  <2>2. low = index % ByteSize /\ low \in Nat
    BY <2>1, ByteSizeIsNat
  <2> HIDE DEF v, r, index, low
  <2>3. Safe(ts, r) /\ Space(ts, parse, r, 3)
    BY <1>1, <1>2, <2>1, SafeAfter, SpaceAfter
  <2>4. Writes(ts, r, global, h, h + 1)
    BY <1>1, <2>3, ParseFunctionWrites
  <2> HIDE DEF global
  <2>5. Safe(ts, global) /\ Fine(global) /\ Writes(ts, p, global, h, h + 1)
    BY <1>1, <2>1, <2>4, SafeAfter, WritesOn DEF Safe
  <2>6. ASSUME Healthy(ts, global)
        PROVE  low + 1 \in DOMAIN global.c.constants /\ IsName(ts, global.c, low)
    <3>1. Healthy(ts, r) /\ Begins(r.c.constants, global.c.constants)
      BY <1>2, <2>4, <2>6, WritesHealthy DEF Adds, Keeps
    <3>2. r.c.constants \in Seq(Value) /\ global.c.constants \in Seq(Value)
          /\ Len(global.c.constants) \in Nat
      BY <1>2, <2>5, FineTypes
    <3>3. index + 1 \in DOMAIN global.c.constants /\ global.c.constants[index + 1].type = "STRING"
      BY <2>1, <3>1, <3>2, BeginsItems
    <3>4. global.c.main /\ global.tokens = p.tokens /\ p.tokens = ts
      BY <1>1, <1>5, <2>5, <2>6 DEF Settled, Writes, Follows, Healthy
    <3>5. NamesFunction(ts, global.c.constants[index + 1])
      <4>1. ~p.errored
        BY <2>5, <2>6 DEF Healthy, Writes, Follows
      <4>2. global.c.constants[index + 1] = String(p.current.text) /\ p.current.type = "IDENTIFIER"
        BY <2>1, <3>1, <3>2, BeginsItems
      <4>3. p.scanned \in DOMAIN p.tokens \ {1} /\ p.tokens[p.scanned - 1].type = "DEF"
        BY <4>1, <4>2
      <4>4. p.current = p.tokens[p.scanned]
        BY <1>1, <4>2 DEF Fine
      <4> QED BY <3>4, <4>2, <4>3, <4>4 DEF NamesFunction
    <3>6. CASE index < ByteSize
      <4>1. low = index
        BY <2>1, <2>2, <3>6, ByteSizeIsNat
      <4> QED BY <3>3, <4>1 DEF IsName
    <3>7. CASE ~(index < ByteSize)
      <4>1. index + 1 > ByteSize /\ low \in 0 .. index
        BY <2>1, <2>2, <3>7, ByteSizeIsNat
      <4>2. low + 1 \in DOMAIN global.c.constants
        BY <2>1, <3>2, <3>3, <4>1
      <4>3. Misnamed(ts, global.c)
        BY <3>3, <3>4, <3>5, <4>1 DEF Misnamed
      <4> QED BY <4>2, <4>3 DEF IsName
    <3> QED BY <3>6, <3>7
  <2>7. Writes(ts, global, DeclareGlobal(global, low, FALSE), h + 1, h)
    BY <1>1, <2>2, <2>5, <2>6, DeclareGlobalWrites
  <2>8. Writes(ts, p, DeclareGlobal(global, low, FALSE), h, h)
    BY <1>1, <2>5, <2>7, WritesOn
  <2>9. FunctionDeclaration(parse, p) = DeclareGlobal(global, low, FALSE)
    BY <1>4, <1>5 DEF global, low, r, v, index
  <2>10. Declares(ts, p, DeclareGlobal(global, low, FALSE))
    BY <2>8, WritesDeclares
  <2> QED BY <2>9, <2>10
<1>6. CASE p.c.scope_depth # 0
  <2> DEFINE s == ParseFunction(parse, q)
  <2>1. Named(p, r)
    BY <1>1, <1>6, ParseLocalNames
  <2>2. q = MarkInitialized(r, FALSE)
    OBVIOUS
  <2> HIDE DEF v, r, q
  <2>11. Level(ts, p, h)
    OBVIOUS
  <2>3. /\ Follows(p, q) /\ Safe(ts, q) /\ Fine(q)
        /\ Healthy(ts, q) =>
              /\ Keeps(p, q) /\ q.c.code = p.c.code
              /\ Len(q.c.locals) = Len(p.c.locals) + 1
              /\ Begins(p.c.locals, q.c.locals)
              /\ q.c.locals[Len(p.c.locals) + 1].depth = p.c.scope_depth
    BY ONLY <1>6, <2>11, <2>1, <2>2, SettledAfterMark
  <2>4. Space(ts, parse, q, 3)
    BY <1>1, <2>3, SpaceAfter
  <2>5. Writes(ts, q, s, h, h + 1)
    BY <1>1, <2>3, <2>4, ParseFunctionWrites
  <2> HIDE DEF s
  <2>6. Fine(s) /\ Follows(p, s)
    BY <1>1, <2>3, <2>5, FollowsOn DEF Writes, Follows
  <2>7. ASSUME Healthy(ts, s)
        PROVE  /\ Keeps(p, s) /\ Sane(ts, s)
               /\ Segment(ts, s.c, Len(p.c.code), Len(s.c.code), h, h + 1, {})
               /\ Len(s.c.locals) = Len(p.c.locals) + 1
               /\ Begins(p.c.locals, s.c.locals)
               /\ s.c.locals[Len(p.c.locals) + 1].depth = p.c.scope_depth
    <3>1. Healthy(ts, q) /\ Adds(ts, q, s, h, h + 1)
      BY <2>3, <2>5, <2>7, WritesHealthy
    <3>2. Keeps(p, s)
      BY <1>1, <2>3, <2>6, <3>1, KeepsOn DEF Adds
    <3> QED BY <2>3, <3>1, <3>2 DEF Adds
  <2>8. Declares(ts, p, s)
    BY <1>6, <2>6, <2>7, LocalDeclares
  <2>9. p.c.scope_depth > 0
    BY <1>3, <1>6
  <2>10. FunctionDeclaration(parse, p) = s
    BY <1>4, <2>9 DEF s, q, r, v
  <2> QED BY <2>8, <2>10
<1> QED BY <1>5, <1>6
-----------------------------------------------------------------------------
(* Scopes. *)

\* As many values are taken from the stack as there are POPs.
LEMMA PopsSegment ==
    ASSUME NEW ts, NEW c, c.code \in Seq(Nat), NEW a \in Nat, NEW n \in Nat, NEW k \in Nat \ {0},
           a + n <= Len(c.code), \A i \in 1 .. n : c.code[a + i] = Code("POP")
    PROVE  Segment(ts, c, a, a + n, k + n, k, {})
<1> DEFINE T == {j \in Nat : j <= n => Segment(ts, c, a, a + j, k + n, (k + n) - j, {})}
<1>1. Len(c.code) \in Nat
  OBVIOUS
<1>2. 0 \in T
  <2>1. k + n \in Nat \ {0} /\ a <= Len(c.code) /\ a + 0 = a /\ (k + n) - 0 = k + n
    BY <1>1
  <2>2. Segment(ts, c, a, a, k + n, k + n, {})
    BY <2>1, SegmentIsEmpty
  <2> QED BY <2>1, <2>2
<1>3. ASSUME NEW j \in Nat, j \in T PROVE j + 1 \in T
  <2> SUFFICES ASSUME j + 1 <= n PROVE Segment(ts, c, a, a + (j + 1), k + n, (k + n) - (j + 1), {})
    OBVIOUS
  <2> DEFINE b == a + j
             h == (k + n) - j
  <2>1. b \in Nat /\ h \in Nat /\ h - 1 >= 1 /\ h - 1 = (k + n) - (j + 1) /\ b + 1 = a + (j + 1)
        /\ b + 1 <= Len(c.code) /\ j + 1 \in 1 .. n
    BY <1>1
  <2>2. Segment(ts, c, a, b, k + n, h, {})
    BY <1>3
  <2>3. c.code[b + 1] = Code("POP")
    BY <2>1
  <2> HIDE DEF b, h
  <2>4. "POP" \in Ops /\ "POP" \notin ByteOperand \cup ShortOperand /\ "POP" \notin Jumps
        /\ "POP" \notin GlobalOps \cup ConstantOps /\ "POP" \notin {"GET_LOCAL", "SET_LOCAL"}
    BY OpsListed DEF ByteOperand, ShortOperand, Jumps, ConditionalJumps, GlobalOps, ConstantOps,
       DeclGlobalOps, GetGlobalOps, SetGlobalOps
  <2>5. Holds(c, b, "POP", 0, b + 1)
    BY <2>1, <2>3, <2>4, HoldsOp
  <2>6. Takes("POP", 0) = 1 /\ Gives("POP") = 0
    BY DEF Takes, Gives
  <2> DEFINE next == b + 1
             takes == Takes("POP", 0)
             gives == Gives("POP")
  <2>7. takes = 1 /\ gives = 0 /\ next \in Nat /\ next <= Len(c.code) /\ h - takes >= 1 /\ 0 \in Nat
    BY <2>1, <2>6
  <2>8. Holds(c, b, "POP", 0, next)
    BY <2>5
  <2> HIDE DEF next
  <2>9. Segment(ts, c, b, next, h, (h - takes) + gives, {})
    BY <2>1, <2>4, <2>7, <2>8, StraightSegment
  <2> HIDE DEF takes, gives
  <2>10. (h - takes) + gives = (k + n) - (j + 1)
    BY <2>1, <2>7
  <2>11. Segment(ts, c, b, next, h, (k + n) - (j + 1), {})
    BY <2>9, <2>10
  <2>12. Segment(ts, c, a, next, k + n, (k + n) - (j + 1), {})
    BY <2>2, <2>11, SegmentsJoin
  <2> QED BY <2>1, <2>12 DEF next
<1>4. n \in T
  <2> HIDE DEF T
  <2> QED BY <1>2, <1>3, NatSetInduction
<1>5. (k + n) - n = k /\ n <= n
  OBVIOUS
<1> QED BY <1>4, <1>5

\* A scope is entered.
LEMMA BeginScopeSettles ==
    ASSUME NEW ts, NEW p, Settled(ts, p)
    PROVE  LET q == BeginScope(p)
           IN  /\ Settled(ts, q) /\ Moves(p, q) /\ (Healthy(ts, q) => Healthy(ts, p))
               /\ q.c.code = p.c.code /\ q.c.constants = p.c.constants /\ q.c.arity = p.c.arity
               /\ q.c.locals = p.c.locals /\ q.functions = p.functions /\ q.c.main = p.c.main
               /\ q.c.scope_depth = p.c.scope_depth + 1 /\ q.enclosing = p.enclosing
<1> DEFINE c == InScope(p.c, p.c.scope_depth + 1, p.c.locals)
           q == BeginScope(p)
<1>1. Fine(p) /\ Safe(ts, p)
  BY DEF Settled, Safe
<1>2. q = With(p, c) /\ Moves(p, q) /\ q.c = c /\ q.enclosing = p.enclosing
  BY <1>1, BeginScopeMoves
<1>3. p \in Parser /\ p.c \in FunctionCompiler /\ p.c.scope_depth \in Nat /\ p.c.scope_depth + 1 \in Nat
      /\ p.c.locals \in Seq(Local)
  BY <1>1, FineTypes
<1>4. q.functions = p.functions /\ q.errored = p.errored
  BY <1>2, <1>3, WithFields
<1>5. c.main = p.c.main /\ c.code = p.c.code /\ c.constants = p.c.constants /\ c.arity = p.c.arity
      /\ c.locals = p.c.locals /\ c.scope_depth = p.c.scope_depth + 1
  BY <1>3, InScopeType, ZenonT(60)
<1> HIDE DEF c, q
<1>6. Fine(q) /\ q.tokens = p.tokens /\ q.base = p.base
  BY <1>2 DEF Moves
<1>7. Healthy(ts, q) => Healthy(ts, p)
  BY <1>2, <1>4, <1>5, <1>6 DEF Healthy
<1>8. Healthy(ts, q) => Sane(ts, q)
  BY <1>1, <1>2, <1>4, <1>5, <1>6, <1>7 DEF Safe, Sane
<1>9. ASSUME Healthy(ts, q)
      PROVE  Rooted(q.c) /\ \A i \in DOMAIN q.c.locals : q.c.locals[i].depth \in 0 .. q.c.scope_depth
  <2>1. Rooted(p.c) /\ \A i \in DOMAIN p.c.locals : p.c.locals[i].depth \in 0 .. p.c.scope_depth
    BY <1>7, <1>9 DEF Settled
  <2>2. \A d \in 0 .. p.c.scope_depth : d \in 0 .. p.c.scope_depth + 1
    BY <1>3
  <2> QED BY <1>2, <1>5, <2>1, <2>2 DEF Rooted
<1>10. q.c.scope_depth # 0
  BY <1>2, <1>3, <1>5
<1> QED BY <1>2, <1>4, <1>5, <1>6, <1>7, <1>8, <1>9, <1>10 DEF Settled, Safe, q

\* The locals that a scope leaves are those it found.
LEMMA KeptIsBase ==
    ASSUME NEW q, Fine(q), NEW d \in Nat, q.c.scope_depth = d + 1, NEW locals \in Seq(Local),
           Len(locals) >= 1, Begins(locals, q.c.locals),
           \A i \in DOMAIN locals : locals[i].depth \in 0 .. d,
           \A i \in DOMAIN q.c.locals : i \in DOMAIN locals \/ q.c.locals[i].depth = d + 1
    PROVE  Kept(q) = Len(locals) /\ SubSeq(q.c.locals, 1, Kept(q)) = locals
<1> DEFINE outer == {i \in DOMAIN q.c.locals : q.c.locals[i].depth <= q.c.scope_depth - 1}
           n == Len(locals)
           most == Len(q.c.locals)
<1>1. q.c.locals \in Seq(Local) /\ most \in Nat /\ n \in Nat /\ n <= most
      /\ DOMAIN q.c.locals = 1 .. most /\ DOMAIN locals = 1 .. n
  BY FineTypes DEF Begins
<1>2. q.c.scope_depth - 1 = d
  OBVIOUS
<1>3. outer = 1 .. n
  <2>1. ASSUME NEW i \in 1 .. n PROVE i \in outer
    <3>1. i \in DOMAIN q.c.locals /\ q.c.locals[i] = locals[i]
      BY <1>1, <2>1, BeginsItems
    <3>2. locals[i].depth \in 0 .. d
      BY <1>1, <2>1
    <3> QED BY <1>2, <3>1, <3>2
  <2>2. ASSUME NEW i \in outer PROVE i \in 1 .. n
    <3>1. i \in DOMAIN q.c.locals /\ q.c.locals[i].depth <= d
      BY <1>2, <2>2
    <3>2. q.c.locals[i].depth # d + 1
      BY <3>1
    <3> QED BY <1>1, <3>1, <3>2
  <2> QED BY <2>1, <2>2
<1>4. Kept(q) = n
  <2>1. outer # {} /\ n \in outer
    BY <1>1, <1>3
  <2>2. outer \in SUBSET (0 .. n)
    BY <1>1, <1>3
  <2>3. Kept(q) = Max(outer)
    BY <2>1 DEF Kept
  <2> HIDE DEF outer
  <2>4. Max(outer) \in outer /\ Max(outer) >= n
    BY <1>1, <2>1, <2>2, MaxOfNats
  <2> QED BY <1>1, <1>3, <2>3, <2>4
<1>5. SubSeq(q.c.locals, 1, n) = locals
  <2> DEFINE s == SubSeq(q.c.locals, 1, n)
  <2>1. s \in Seq(Local) /\ Len(s) = n /\ \A i \in 1 .. n : s[i] = q.c.locals[i]
    BY <1>1
  <2>2. \A i \in 1 .. n : q.c.locals[i] = locals[i]
    BY <1>1, BeginsItems
  <2> HIDE DEF s
  <2>3. s = locals
    BY <1>1, <2>1, <2>2
  <2> QED BY <2>3 DEF s
<1> QED BY <1>4, <1>5

\* A scope that is left takes its locals with it.
LEMMA EndScopeFields ==
    ASSUME NEW b, Fine(b), b.c.scope_depth # 0
    PROVE  LET q == EndScope(b)
           IN  /\ q.c.constants = b.c.constants /\ q.c.arity = b.c.arity /\ q.c.main = b.c.main
               /\ q.c.locals = SubSeq(b.c.locals, 1, Kept(b))
               /\ q.functions = b.functions /\ q.errored = b.errored
               /\ q.base = b.base /\ q.tokens = b.tokens /\ Fine(q)
               /\ q.c.code = b.c.code \o Popped(b)
<1> DEFINE e == Emit(b, Popped(b))
           c == InScope(e.c, b.c.scope_depth - 1, SubSeq(b.c.locals, 1, Kept(b)))
           q == EndScope(b)
<1>1. Fine(e) /\ q = With(e, c) /\ Moves(b, q) /\ q.c = c
  BY EndScopeMoves
<1>2. Popped(b) \in Seq(Nat)
  BY PoppedType
<1>3. /\ e.c.code = b.c.code \o Popped(b) /\ e.c.arity = b.c.arity
      /\ e.c.main = b.c.main /\ e.c.constants = b.c.constants
      /\ e.functions = b.functions /\ e.errored = b.errored
  BY <1>2, EmitFields
<1>4. e \in Parser /\ e.c \in FunctionCompiler
  BY <1>1, FineTypes
<1>5. q.functions = e.functions /\ q.errored = e.errored
  BY <1>1, <1>4, WithFields
<1>6. b.c.scope_depth - 1 \in Nat /\ b.c.locals \in Seq(Local) /\ Kept(b) \in 0 .. Len(b.c.locals)
  BY FineTypes, KeptIsLength
<1>7. SubSeq(b.c.locals, 1, Kept(b)) \in Seq(Local)
  BY <1>6
<1> DEFINE depth == b.c.scope_depth - 1
           left == SubSeq(b.c.locals, 1, Kept(b))
<1> HIDE DEF e, depth, left
<1>8. /\ c.locals = SubSeq(b.c.locals, 1, Kept(b)) /\ c.main = e.c.main /\ c.code = e.c.code
      /\ c.constants = e.c.constants /\ c.arity = e.c.arity
  <2>1. depth \in Nat /\ left \in Seq(Local)
    BY <1>6, <1>7 DEF depth, left
  <2>2. LET z == InScope(e.c, depth, left)
        IN  /\ z.locals = left /\ z.main = e.c.main /\ z.code = e.c.code
            /\ z.constants = e.c.constants /\ z.arity = e.c.arity
    BY <1>4, <2>1, InScopeType
  <2>3. c = InScope(e.c, depth, left)
    BY DEF depth, left
  <2> QED BY <2>2, <2>3 DEF left
<1> HIDE DEF c, q
<1>9. q.base = b.base /\ q.tokens = b.tokens /\ Fine(q)
  BY <1>1 DEF Moves
<1> QED BY <1>1, <1>3, <1>5, <1>8, <1>9 DEF q

\* A block leaves the stack as it was: the values of its locals are taken from it.
LEMMA ScopedBlockWrites ==
    ASSUME NEW ts, NEW parse, NEW p, NEW h, Level(ts, p, h), Space(ts, parse, p, 3)
    PROVE  Writes(ts, p, EndScope(parse["block", BeginScope(p), 0]), h, h)
<1> DEFINE s == BeginScope(p)
           b == parse["block", s, 0]
           q == EndScope(b)
           d == p.c.scope_depth
<1>1. Settled(ts, p) /\ Safe(ts, p) /\ Fine(p) /\ h \in Nat \ {0} /\ h \in Nat
  BY LevelAt
<1>2. /\ Settled(ts, s) /\ Moves(p, s) /\ (Healthy(ts, s) => Healthy(ts, p))
      /\ s.c.code = p.c.code /\ s.c.constants = p.c.constants /\ s.c.arity = p.c.arity
      /\ s.c.locals = p.c.locals /\ s.functions = p.functions /\ s.c.main = p.c.main
      /\ s.c.scope_depth = d + 1
  BY <1>1, BeginScopeSettles
<1>3. Follows(p, q)
  BY <1>1, SpaceIsRoom, ScopedBlockFollows
<1>4. Space(ts, parse, s, 3)
  BY <1>1, <1>2, SpaceAfterMove
<1>5. Fine(s) /\ d \in Nat
  BY <1>1, <1>2, FineTypes DEF Moves
<1> HIDE DEF s
<1>6. Declares(ts, s, b)
  BY <1>2, <1>4, BlockDeclares
<1>7. Settled(ts, b) /\ Fine(b)
  BY <1>2, <1>6, DeclaresSettled
<1>8. Follows(s, b) /\ b.c.scope_depth = d + 1 /\ b.c.main = s.c.main
  BY <1>2, <1>6 DEF Declares, Follows
<1> HIDE DEF b
<1>9. b.c.scope_depth # 0
  BY <1>5, <1>8
<1>10. /\ q.c.constants = b.c.constants /\ q.c.arity = b.c.arity /\ q.c.main = b.c.main
       /\ q.c.locals = SubSeq(b.c.locals, 1, Kept(b))
       /\ q.functions = b.functions /\ q.errored = b.errored
       /\ q.base = b.base /\ q.tokens = b.tokens /\ Fine(q)
       /\ q.c.code = b.c.code \o Popped(b)
  BY <1>7, <1>9, EndScopeFields
<1> HIDE DEF q
<1>11. ASSUME Healthy(ts, q) PROVE Adds(ts, p, q, h, h)
  <2>1. Healthy(ts, b)
    BY <1>10, <1>11 DEF Healthy
  <2>2. Healthy(ts, s) /\ Healthy(ts, p)
    BY <1>2, <1>5, <1>6, <2>1, DeclaresHealthy
  <2>3. Base(p) = h /\ \A i \in DOMAIN p.c.locals : p.c.locals[i].depth \in 0 .. d
    BY <1>1, <2>2 DEF Level, Settled
  <2>4. /\ Keeps(s, b) /\ Sane(ts, b) /\ Begins(s.c.locals, b.c.locals)
        /\ \A i \in DOMAIN b.c.locals :
              i \in DOMAIN s.c.locals \/ b.c.locals[i].depth = d + 1
        /\ Segment(ts, b.c, Len(s.c.code), Len(b.c.code), Base(s), Base(b), {})
    BY <1>2, <1>6, <2>1 DEF Declares
  <2>5. /\ p.c.locals \in Seq(Local) /\ b.c.locals \in Seq(Local)
        /\ p.c.code \in Seq(Nat) /\ b.c.code \in Seq(Nat) /\ q.c.code \in Seq(Nat)
        /\ b.c.constants \in Seq(Value) /\ Popped(b) \in Seq(Nat)
        /\ Len(Popped(b)) = Len(b.c.locals) - Kept(b) /\ Len(b.c.code) \in Nat
        /\ Len(b.c.locals) \in Nat /\ Len(p.c.code) \in Nat
    BY <1>1, <1>7, <1>10, FineTypes, PoppedType
  <2>6. Len(p.c.locals) = h /\ Len(p.c.locals) >= 1
    BY <1>1, <2>3 DEF Base
  <2>7. Kept(b) = h /\ SubSeq(b.c.locals, 1, Kept(b)) = p.c.locals
    <3> DEFINE outer == p.c.locals
    <3>1. /\ outer \in Seq(Local) /\ Len(outer) >= 1 /\ Len(outer) = h
          /\ Begins(outer, b.c.locals)
          /\ \A i \in DOMAIN outer : outer[i].depth \in 0 .. d
          /\ \A i \in DOMAIN b.c.locals : i \in DOMAIN outer \/ b.c.locals[i].depth = d + 1
      BY <1>2, <2>3, <2>4, <2>5, <2>6
    <3> HIDE DEF outer, d
    <3>2. Kept(b) = Len(outer) /\ SubSeq(b.c.locals, 1, Kept(b)) = outer
      BY ONLY <1>5, <1>7, <1>8, <3>1, KeptIsBase
    <3> QED BY <3>1, <3>2 DEF outer
  <2> DEFINE n == Len(b.c.locals) - h
             a == Len(b.c.code)
  <2>8. n \in Nat /\ h + n = Len(b.c.locals) /\ Len(Popped(b)) = n
    <3>1. Len(p.c.locals) <= Len(b.c.locals)
      BY <1>2, <2>4 DEF Begins
    <3> QED BY <1>1, <2>5, <2>6, <2>7, <3>1
  <2>9. /\ Len(q.c.code) = a + n
        /\ \A i \in 1 .. n : q.c.code[a + i] = Popped(b)[i]
        /\ Begins(b.c.code, q.c.code)
    <3>1. /\ Len(b.c.code \o Popped(b)) = a + Len(Popped(b))
          /\ \A i \in 1 .. Len(Popped(b)) : (b.c.code \o Popped(b))[a + i] = Popped(b)[i]
      <4> DEFINE u == b.c.code
                 t == Popped(b)
      <4>1. u \in Seq(Nat) /\ t \in Seq(Nat)
        BY <2>5
      <4> HIDE DEF u, t
      <4>2. Len(u \o t) = Len(u) + Len(t) /\ \A i \in 1 .. Len(t) : (u \o t)[Len(u) + i] = t[i]
        BY <4>1, AppendedItems
      <4> QED BY <4>2 DEF u, t, a
    <3>2. Begins(b.c.code, b.c.code \o Popped(b))
      BY <2>5, BeginsAppended
    <3> QED BY <1>10, <2>8, <3>1, <3>2
  <2>10. \A i \in 1 .. n : q.c.code[a + i] = Code("POP")
    <3>1. Popped(b) = [i \in 1 .. n |-> Code("POP")]
      BY <2>7 DEF Popped
    <3> QED BY <2>9, <3>1
  <2> HIDE DEF n, a
  <2>11. a \in Nat /\ a + n <= Len(q.c.code)
    BY <2>5, <2>8, <2>9 DEF a
  <2>12. Segment(ts, q.c, a, a + n, h + n, h, {})
    BY <1>1, <2>5, <2>8, <2>10, <2>11, PopsSegment
  <2>13. Segment(ts, b.c, Len(p.c.code), a, h, h + n, {})
    BY <1>2, <2>4, <2>6, <2>8 DEF Base, a
  <2>14. Segment(ts, q.c, Len(p.c.code), a, h, h + n, {})
    <3>1. SameCode(b.c, q.c, Len(p.c.code), a)
      <4>1. \A i \in 1 .. Len(b.c.code) : q.c.code[i] = b.c.code[i]
        BY <2>9 DEF Begins
      <4>2. ASSUME NEW i \in Len(p.c.code) + 1 .. a PROVE q.c.code[i] = b.c.code[i]
        <5>1. i \in 1 .. a
          BY <2>5, <2>11
        <5> QED BY <4>1, <5>1 DEF a
      <4> QED BY <4>2 DEF SameCode
    <3>2. a <= Len(q.c.code)
      BY <2>8, <2>9, <2>11
    <3>3. Begins(b.c.constants, q.c.constants) /\ q.c.constants \in Seq(Value)
      BY <1>10, <2>5, BeginsItself
    <3> QED BY <1>10, <2>5, <2>13, <3>1, <3>2, <3>3, SegmentStays
  <2>15. Segment(ts, q.c, Len(p.c.code), Len(q.c.code), h, h, {})
    BY <2>9, <2>12, <2>14, SegmentsJoin
  <2>16. Keeps(p, q)
    <3>1. Begins(p.c.code, b.c.code) /\ Begins(p.c.constants, b.c.constants)
          /\ Begins(p.functions, b.functions) /\ b.c.arity = p.c.arity
      BY <1>2, <2>4 DEF Keeps
    <3>2. Begins(p.c.code, q.c.code)
      BY <2>5, <2>9, <3>1, BeginsOn
    <3> QED BY <1>10, <3>1, <3>2 DEF Keeps
  <2>17. Sane(ts, q)
    BY <1>10, <2>4 DEF Sane
  <2>18. q.c.locals = p.c.locals
    BY <1>10, <2>7
  <2> QED BY <2>15, <2>16, <2>17, <2>18 DEF Adds
<1>12. Writes(ts, p, q, h, h)
  BY <1>3, <1>11 DEF Writes, q
<1> QED BY <1>12 DEF q, b, s
-----------------------------------------------------------------------------
(* What a call writes. *)

\* The token that begins the statement is passed first.
LEMMA TokenThenWrites ==
    ASSUME NEW ts, NEW p, NEW h, Level(ts, p, h), NEW r, Writes(ts, Advance(p), r, h, h)
    PROVE  Writes(ts, p, r, h, h)
<1>1. Safe(ts, p) /\ Fine(p) /\ h \in Nat \ {0}
  BY LevelAt
<1>2. Writes(ts, p, Advance(p), h, h)
  BY <1>1, AdvanceWrites
<1> QED BY <1>1, <1>2, WritesOn

\* A statement leaves the stack as it finds it.
LEMMA StatementRuleWrites ==
    ASSUME NEW ts, NEW parse, NEW p, NEW h, Level(ts, p, h), Space(ts, parse, p, 1)
    PROVE  Writes(ts, p, Statement(parse, p), h, h)
<1> DEFINE q == Advance(p)
<1>1. Safe(ts, p) /\ Fine(p) /\ h \in Nat \ {0}
  BY LevelAt
<1>2. Level(ts, q, h)
  BY <1>1, AdvanceWrites, LevelAfter
<1>3. p.current.type # "EOF" => Space(ts, parse, q, 3) /\ Space(ts, parse, q, 2) /\ Space(ts, parse, q, 1)
  BY <1>1, SpaceAfterToken
<1>4. CASE Check(p, "LEFT_BRACE")
  <2>1. Statement(parse, p) = EndScope(parse["block", BeginScope(q), 0])
    BY <1>4 DEF Statement, Check
  <2>2. Space(ts, parse, q, 3)
    BY <1>3, <1>4 DEF Check
  <2> HIDE DEF q
  <2>3. Writes(ts, q, EndScope(parse["block", BeginScope(q), 0]), h, h)
    BY <1>2, <2>2, ScopedBlockWrites
  <2> QED BY <2>1, <2>3, TokenThenWrites DEF q
<1>5. CASE Check(p, "IF")
  <2>1. Statement(parse, p) = IfStatement(parse, q)
    BY <1>5 DEF Statement, Check
  <2> QED BY <1>2, <1>3, <1>5, <2>1, IfStatementWrites, TokenThenWrites DEF Check
<1>6. CASE Check(p, "WHILE")
  <2>1. Statement(parse, p) = WhileStatement(parse, q)
    BY <1>6 DEF Statement, Check
  <2> QED BY <1>2, <1>3, <1>6, <2>1, WhileStatementWrites, TokenThenWrites DEF Check
<1>7. CASE Check(p, "RETURN")
  <2>1. Statement(parse, p) = ReturnStatement(parse, q)
    BY <1>7 DEF Statement, Check
  <2> QED BY <1>2, <1>3, <1>7, <2>1, ReturnStatementWrites, TokenThenWrites DEF Check
<1>8. CASE ~Check(p, "LEFT_BRACE") /\ ~Check(p, "IF") /\ ~Check(p, "WHILE") /\ ~Check(p, "RETURN")
  <2>1. Statement(parse, p) = ExpressionStatement(parse, p)
    BY <1>8 DEF Statement
  <2> QED BY <2>1, ExpressionStatementWrites
<1> QED BY <1>4, <1>5, <1>6, <1>7, <1>8

\* What is skipped after an error declares nothing that counts.
LEMMA ResumeDeclares ==
    ASSUME NEW ts, NEW parse, NEW p, Settled(ts, p), NEW r, Declares(ts, p, r), Space(ts, parse, r, 1)
    PROVE  Declares(ts, p, Resume(parse, r))
<1>1. Fine(p) /\ Fine(r) /\ Follows(p, r)
  BY DEF Settled, Safe, Declares, Follows
<1>2. CASE r.panic_mode
  <2>1. Follows(r, Resume(parse, r)) /\ r.errored
    BY <1>1, <1>2, SpaceIsRoom, ResumeFollows DEF Fine
  <2>2. Follows(p, Resume(parse, r))
    BY <1>1, <2>1, FollowsOn
  <2>3. ~Healthy(ts, Resume(parse, r))
    BY <2>1 DEF Follows, Healthy
  <2> QED BY <2>2, <2>3 DEF Declares
<1>3. CASE ~r.panic_mode
  BY <1>3 DEF Resume
<1> QED BY <1>2, <1>3

LEMMA TokenThenDeclares ==
    ASSUME NEW ts, NEW p, NEW h, Level(ts, p, h), NEW r, Declares(ts, Advance(p), r)
    PROVE  Declares(ts, p, r)
<1>1. Safe(ts, p) /\ Settled(ts, p) /\ h \in Nat \ {0}
  BY LevelAt
<1>2. Writes(ts, p, Advance(p), h, h)
  BY <1>1, AdvanceWrites
<1>3. Declares(ts, p, Advance(p))
  BY <1>2, WritesDeclares
<1> QED BY <1>1, <1>3, DeclaresOn

LEMMA DeclarationRuleDeclares ==
    ASSUME NEW ts, NEW parse, NEW p, Settled(ts, p), Space(ts, parse, p, 1)
    PROVE  Declares(ts, p, Declaration(parse, p))
<1>1. PICK h : Level(ts, p, h)
  BY SettledLevel
<1> DEFINE q == Advance(p)
           r == IF p.current.type \in {"LET", "CONST"}
                THEN VarDeclaration(parse, Advance(p), Check(p, "CONST"))
                ELSE IF Check(p, "DEF") THEN FunctionDeclaration(parse, Advance(p))
                ELSE Statement(parse, p)
<1>2. Safe(ts, p) /\ Fine(p) /\ h \in Nat \ {0}
  BY <1>1, LevelAt
<1>3. Level(ts, q, h)
  BY <1>1, <1>2, AdvanceWrites, LevelAfter
<1>4. p.current.type # "EOF" => Space(ts, parse, q, 3) /\ Space(ts, parse, q, 0)
  BY <1>2, SpaceAfterToken
<1>5. Declares(ts, p, r)
  <2>1. CASE p.current.type \in {"LET", "CONST"}
    <3>1. Check(p, "CONST") \in BOOLEAN
      BY DEF Check
    <3>2. Declares(ts, q, VarDeclaration(parse, q, Check(p, "CONST")))
      BY <1>3, <1>4, <2>1, <3>1, VarDeclarationDeclares
    <3>3. r = VarDeclaration(parse, q, Check(p, "CONST"))
      BY <2>1
    <3> QED BY <1>1, <3>2, <3>3, TokenThenDeclares
  <2>2. CASE p.current.type \notin {"LET", "CONST"} /\ Check(p, "DEF")
    <3>1. p.current.type # "EOF" /\ p.current.type = "DEF"
      BY <2>2 DEF Check
    <3>2. p.scanned \in DOMAIN p.tokens /\ p.tokens[p.scanned].type = "DEF"
      BY <1>2, <3>1 DEF Fine
    <3>3. q.tokens = p.tokens
      BY <1>2, AdvanceFollows DEF Follows
    <3>4. ~q.errored /\ q.current.type = "IDENTIFIER" =>
              q.scanned \in DOMAIN q.tokens \ {1} /\ q.tokens[q.scanned - 1].type = "DEF"
      <4>1. SUFFICES ASSUME ~q.errored, q.current.type = "IDENTIFIER"
                     PROVE  q.scanned \in DOMAIN q.tokens \ {1} /\ q.tokens[q.scanned - 1].type = "DEF"
        OBVIOUS
      <4>2. q.scanned = p.scanned + 1
        BY <1>2, <4>1, AdvanceNext
      <4>3. Fine(q)
        BY <1>2, AdvanceFollows
      <4>4. q.scanned \in DOMAIN q.tokens /\ p.scanned \in Nat
        BY <1>2, <4>1, <4>3 DEF Fine, Parser
      <4>5. p.scanned >= 1
        BY <1>2, <3>2 DEF Fine, Parser
      <4> HIDE DEF q
      <4> QED BY <3>2, <3>3, <4>2, <4>4, <4>5
    <3>5. Space(ts, parse, q, 3)
      BY <1>4, <3>1
    <3>6. r = FunctionDeclaration(parse, q)
      BY <2>2
    <3> HIDE DEF q
    <3>7. Declares(ts, q, FunctionDeclaration(parse, q))
      BY <1>3, <3>4, <3>5, FunctionDeclarationDeclares
    <3> QED BY <1>1, <3>6, <3>7, TokenThenDeclares DEF q
  <2>3. CASE p.current.type \notin {"LET", "CONST"} /\ ~Check(p, "DEF")
    <3>1. r = Statement(parse, p)
      BY <2>3
    <3>2. Writes(ts, p, Statement(parse, p), h, h)
      BY <1>1, StatementRuleWrites
    <3> QED BY <1>1, <3>1, <3>2, WritesDeclares
  <2> QED BY <2>1, <2>2, <2>3
<1>6. Declaration(parse, p) = Resume(parse, r)
  BY DEF Declaration
<1> HIDE DEF r
<1>7. Follows(p, r)
  BY <1>5 DEF Declares
<1>8. Space(ts, parse, r, 1)
  BY <1>2, <1>7, SpaceAfter
<1> QED BY <1>5, <1>6, <1>8, ResumeDeclares

\* One declaration, and room for what comes after it.
LEMMA DeclarationDeclares ==
    ASSUME NEW ts, NEW parse, NEW p, Settled(ts, p), p.current.type # "EOF", Space(ts, parse, p, 2)
    PROVE  LET q == parse["declaration", p, 0]
           IN  Declares(ts, p, q) /\ Settled(ts, q) /\ Fine(q) /\ Space(ts, parse, q, 3)
<1> DEFINE q == parse["declaration", p, 0]
<1>1. "declaration" \in Goals /\ Rank("declaration") + 1 = 2
      /\ "declaration" \notin {"expression", "infix"}
  BY DEF Goals, Rank
<1>2. Fine(p)
  BY DEF Settled, Safe
<1>3. Wrote(ts, "declaration", p, q, 0)
  BY <1>1, <1>2, Written
<1>4. Reads(p, q) /\ Fine(q)
  BY <1>2, SpaceIsRoom, DeclarationAt
<1> HIDE DEF q
<1>5. Declares(ts, p, q)
  BY <1>3 DEF Wrote
<1>6. Left(p) # 0
  BY <1>2 DEF Left, Fine, Parser
<1>7. Left(q) < Left(p)
  BY <1>4, <1>6 DEF Reads
<1>8. Space(ts, parse, q, 3)
  BY <1>2, <1>4, <1>7, SpacePast
<1> QED BY <1>4, <1>5, <1>8, DeclaresSettled DEF q

\* A block declares what its declarations do, one after the other.
LEMMA BlockRuleDeclares ==
    ASSUME NEW ts, NEW parse, NEW p, Settled(ts, p), Space(ts, parse, p, 2)
    PROVE  Declares(ts, p, Block(parse, p))
<1>1. PICK h : Level(ts, p, h)
  BY SettledLevel
<1>2. Safe(ts, p) /\ h \in Nat \ {0}
  BY <1>1, LevelAt
<1>3. CASE p.current.type \in {"RIGHT_BRACE", "EOF"}
  <2>1. Writes(ts, p, Consume(p, "RIGHT_BRACE"), h, h)
    BY <1>2, ConsumeWrites
  <2>2. Declares(ts, p, Consume(p, "RIGHT_BRACE"))
    BY <1>1, <2>1, WritesDeclares
  <2> QED BY <1>3, <2>2 DEF Block
<1>4. CASE p.current.type \notin {"RIGHT_BRACE", "EOF"}
  <2> DEFINE q == parse["declaration", p, 0]
  <2>1. Declares(ts, p, q) /\ Settled(ts, q) /\ Space(ts, parse, q, 3)
    BY <1>4, DeclarationDeclares
  <2> HIDE DEF q
  <2> DEFINE r == parse["block", q, 0]
  <2>2. Declares(ts, q, r)
    BY <2>1, BlockDeclares
  <2> HIDE DEF r
  <2>3. Declares(ts, p, r)
    BY <2>1, <2>2, DeclaresOn
  <2> QED BY <1>4, <2>3 DEF Block, q, r
<1> QED BY <1>3, <1>4

LEMMA DeclarationsRuleDeclares ==
    ASSUME NEW ts, NEW parse, NEW p, Settled(ts, p), Space(ts, parse, p, 2)
    PROVE  Declares(ts, p, Declarations(parse, p))
<1>1. PICK h : Level(ts, p, h)
  BY SettledLevel
<1>2. Safe(ts, p) /\ h \in Nat \ {0}
  BY <1>1, LevelAt
<1>3. CASE Check(p, "EOF")
  <2>1. Writes(ts, p, Advance(p), h, h)
    BY <1>2, AdvanceWrites
  <2>2. Declares(ts, p, Advance(p))
    BY <1>1, <2>1, WritesDeclares
  <2> QED BY <1>3, <2>2 DEF Declarations
<1>4. CASE ~Check(p, "EOF")
  <2> DEFINE q == parse["declaration", p, 0]
  <2>1. Declares(ts, p, q) /\ Settled(ts, q) /\ Space(ts, parse, q, 3) /\ Fine(q)
    BY <1>4, DeclarationDeclares DEF Check
  <2> HIDE DEF q
  <2>2. "declarations" \in Goals /\ Rank("declarations") + 1 = 3
        /\ "declarations" \notin {"expression", "infix"}
    BY DEF Goals, Rank
  <2>3. Wrote(ts, "declarations", q, parse["declarations", q, 0], 0)
    BY <2>1, <2>2, Written
  <2> DEFINE r == parse["declarations", q, 0]
  <2>4. Declares(ts, q, r)
    BY <2>1, <2>3 DEF Wrote
  <2> HIDE DEF r
  <2>5. Declares(ts, p, r)
    BY <2>1, <2>4, DeclaresOn
  <2> QED BY <1>4, <2>5 DEF Declarations, q, r
<1> QED BY <1>3, <1>4

\* One more call writes what the goal is, if those it makes do.
LEMMA CallWrites ==
    ASSUME NEW ts, NEW parse, NEW goal \in Goals, NEW p, Fine(p), NEW number \in Nat,
           goal \in {"expression", "infix"} => number # 0, Space(ts, parse, p, Rank(goal))
    PROVE  Wrote(ts, goal, p, Call(parse, goal, p, number), number)
<1> DEFINE q == Call(parse, goal, p, number)
<1>1. ASSUME goal = "expression", NEW h, At(ts, p, h) PROVE Writes(ts, p, q, h, h + 1)
  <2>1. q = ParsePrecedence(parse, p, number)
    BY <1>1, ClosingOps DEF Call
  <2>2. Space(ts, parse, p, 0) /\ number \in Nat \ {0}
    BY <1>1 DEF Rank
  <2>3. Writes(ts, p, ParsePrecedence(parse, p, number), h, h + 1)
    BY <1>1, <2>2, ParsePrecedenceWrites
  <2> QED BY <2>1, <2>3
<1>2. ASSUME goal = "infix", NEW h, At(ts, p, h) PROVE Writes(ts, p, q, h + 1, h + 1)
  <2>1. q = InfixRules(parse, p, number)
    BY <1>2, ClosingOps DEF Call
  <2>2. Space(ts, parse, p, 0) /\ number \in Nat \ {0}
    BY <1>2 DEF Rank
  <2>3. Writes(ts, p, InfixRules(parse, p, number), h + 1, h + 1)
    BY <1>2, <2>2, InfixRulesWrites
  <2> QED BY <2>1, <2>3
<1>3. ASSUME goal \in DOMAIN Closing, number <= UINT8_MAX, NEW h, At(ts, p, h)
      PROVE  Writes(ts, p, q, h + UnderItems[goal] + number, h + 1)
  <2>1. q = ParseItems(parse, p, goal, number)
    BY <1>3, ClosingOps DEF Call
  <2>2. Space(ts, parse, p, 1)
    BY <1>3, ClosingOps
  <2>3. Writes(ts, p, ParseItems(parse, p, goal, number), h + UnderItems[goal] + number, h + 1)
    BY <1>3, <2>2, ParseItemsWrites
  <2> QED BY <2>1, <2>3
<1>4. ASSUME goal = "statement", Settled(ts, p) PROVE Writes(ts, p, q, Base(p), Base(p))
  <2>1. q = Statement(parse, p)
    BY <1>4, ClosingOps DEF Call
  <2>2. PICK h : Level(ts, p, h)
    BY <1>4, SettledLevel
  <2>3. Space(ts, parse, p, 1)
    BY <1>4 DEF Rank
  <2>4. Writes(ts, p, Statement(parse, p), h, h)
    BY <2>2, <2>3, StatementRuleWrites
  <2> HIDE DEF q
  <2>5. Writes(ts, p, q, h, h)
    BY <2>1, <2>4
  <2>6. Healthy(ts, q) => Adds(ts, p, q, Base(p), Base(p))
    BY <2>2, <2>5, WritesHealthy DEF Level
  <2> QED BY <2>5, <2>6 DEF Writes
<1>5. ASSUME goal = "declaration", Settled(ts, p) PROVE Declares(ts, p, q)
  <2>1. q = Declaration(parse, p)
    BY <1>5, ClosingOps DEF Call
  <2> QED BY <1>5, <2>1, DeclarationRuleDeclares DEF Rank
<1>6. ASSUME goal = "block", Settled(ts, p) PROVE Declares(ts, p, q)
  <2>1. q = Block(parse, p)
    BY <1>6, ClosingOps DEF Call
  <2> QED BY <1>6, <2>1, BlockRuleDeclares DEF Rank
<1>7. ASSUME goal = "declarations", Settled(ts, p) PROVE Declares(ts, p, q)
  <2>1. q = Declarations(parse, p)
    BY <1>7, ClosingOps DEF Call
  <2> QED BY <1>7, <2>1, DeclarationsRuleDeclares DEF Rank
<1>8. ASSUME goal = "parameters", Heading(ts, p)
      PROVE  Heading(ts, q) /\ (Healthy(ts, q) => q.functions = p.functions)
  <2>1. q = Parameters(parse, p)
    BY <1>8, ClosingOps DEF Call
  <2>2. Heads(ts, p, Parameters(parse, p))
    BY <1>8, ParametersHeads DEF Rank
  <2> QED BY <2>1, <2>2 DEF Heads
<1> HIDE DEF q
<1>9. Wrote(ts, goal, p, q, number)
  BY <1>1, <1>2, <1>3, <1>4, <1>5, <1>6, <1>7, <1>8 DEF Wrote
<1> QED BY <1>9 DEF q

\* With n calls the parser writes what it is asked when n are enough.
LEMMA ParseWrites ==
    ASSUME NEW ts
    PROVE  \A n \in Nat : Writing(ts, Parse[n], n)
<1> DEFINE T == {n \in Nat : Writing(ts, Parse[n], n)}
<1>1. 0 \in T
  <2>1. ASSUME NEW goal \in Goals, NEW p, Fine(p) PROVE ~(3 * Left(p) + Rank(goal) < 0)
    <3>1. Left(p) \in Nat /\ Rank(goal) \in Nat
      BY <2>1, LeftIsNat DEF Rank
    <3> QED BY <3>1
  <2>2. Writing(ts, Parse[0], 0)
    BY <2>1 DEF Writing
  <2> QED BY <2>2
<1>2. ASSUME NEW n \in Nat, n \in T PROVE n + 1 \in T
  <2>1. Writing(ts, Parse[n], n) /\ Serves(Parse[n], n)
    BY <1>2, ParseServes
  <2>2. ASSUME NEW goal \in Goals, NEW p \in Parser, NEW number \in Nat, Fine(p),
               3 * Left(p) + Rank(goal) < n + 1,
               goal \in {"expression", "infix"} => number # 0
        PROVE  Wrote(ts, goal, p, Parse[n + 1][goal, p, number], number)
    <3>1. Left(p) \in Nat /\ Rank(goal) \in Nat
      BY <2>2, LeftIsNat DEF Rank
    <3>2. 3 * Left(p) + Rank(goal) <= n
      BY <2>2, <3>1
    <3>3. Space(ts, Parse[n], p, Rank(goal))
      BY <2>1, <3>2 DEF Space
    <3>4. Wrote(ts, goal, p, Call(Parse[n], goal, p, number), number)
      BY <2>2, <3>3, CallWrites
    <3>5. Parse[n + 1] = OneMore(Parse[n])
      BY ParseUnfolds
    <3>6. Parse[n + 1][goal, p, number] = Call(Parse[n], goal, p, number)
      <4> DEFINE before == Parse[n]
                 f == OneMore(before)
                 g == Parse[n + 1]
      <4>1. g = f
        BY <3>5
      <4> HIDE DEF g
      <4>2. f[goal, p, number] = Call(before, goal, p, number)
        <5> HIDE DEF before
        <5> QED BY OneMoreCalls
      <4> HIDE DEF f, before
      <4>3. g[goal, p, number] = Call(before, goal, p, number)
        BY <4>1, <4>2
      <4> QED BY <4>3 DEF g, before
    <3> QED BY <3>4, <3>6
  <2>3. Writing(ts, Parse[n + 1], n + 1)
    BY <2>2 DEF Writing
  <2> QED BY <2>3
<1> HIDE DEF T
<1>3. Nat \subseteq T
  BY <1>1, <1>2, NatSetInduction
<1> QED BY <1>3 DEF T
-----------------------------------------------------------------------------
(* The whole source. *)

LEMMA FirstReadSettled ==
    ASSUME NEW ts, NEW source \in Seq(SourceToken), NEW last \in Nat, NEW base \in Nat
    PROVE  LET p == FirstRead(source, last, base)
           IN  /\ Settled(ts, p) /\ Fine(p) /\ Base(p) = 1 /\ p.c.scope_depth = 0 /\ p.c.main
               /\ Len(p.c.code) = 0 /\ p.c.arity = 0
<1> DEFINE p == FirstRead(source, last, base)
<1>1. Fine(p) /\ p.c = NewCompiler(TRUE) /\ p.functions = <<>>
  BY FirstReadFine
<1> HIDE DEF p
<1>2. /\ p.c.code = <<>> /\ p.c.constants = <<>> /\ p.c.main = TRUE /\ p.c.arity = 0
      /\ p.c.scope_depth = 0 /\ Len(p.c.locals) = 1
      /\ p.c.locals[1].name = NoName /\ p.c.locals[1].depth = 0 /\ DOMAIN p.c.locals = {1}
  BY <1>1 DEF NewCompiler
<1>3. Sane(ts, p)
  <2>4. DOMAIN <<>> = {}
    OBVIOUS
  <2>1. DOMAIN p.functions = {} /\ DOMAIN p.c.constants = {}
    BY <1>1, <1>2, <2>4
  <2>2. ValidFunctions(ts, p.base, p.functions)
    BY <2>1 DEF ValidFunctions
  <2>3. ValidConstants(p.c.constants, p.base, p.functions)
    BY <2>1 DEF ValidConstants
  <2> QED BY <2>2, <2>3 DEF Sane
<1>5. Rooted(p.c)
  BY <1>2 DEF Rooted
<1>6. ASSUME NEW i \in DOMAIN p.c.locals PROVE p.c.locals[i].depth \in 0 .. p.c.scope_depth
  <2>1. i = 1 /\ 0 \in 0 .. 0
    BY <1>2
  <2> QED BY <1>2, <2>1
<1>4. Settled(ts, p)
  BY <1>1, <1>2, <1>3, <1>5, <1>6 DEF Settled, Safe
<1> QED BY <1>1, <1>2, <1>4 DEF Base, p

\* All declarations of a source.
LEMMA LastReadDeclares ==
    ASSUME NEW ts, NEW source \in Seq(SourceToken), NEW last \in Nat, NEW base \in Nat
    PROVE  Declares(ts, FirstRead(source, last, base), LastRead(source, last, base))
<1> DEFINE p == FirstRead(source, last, base)
           parse == Parse[CallsFor(source)]
<1>1. Fine(p) /\ Left(p) <= Len(source) /\ Settled(ts, p)
  BY FirstReadFine, FirstReadSettled
<1> HIDE DEF p
<1>2. Left(p) \in Nat /\ Len(source) \in Nat
  BY <1>1, LeftIsNat
<1>3. CallsFor(source) \in Nat /\ 3 * Left(p) + 3 <= CallsFor(source)
  BY <1>1, <1>2 DEF CallsFor
<1>4. Serves(parse, CallsFor(source)) /\ Writing(ts, parse, CallsFor(source))
  BY <1>3, ParseServes, ParseWrites
<1>5. "declarations" \in Goals /\ Rank("declarations") + 1 = 3
      /\ "declarations" \notin {"expression", "infix"}
  BY DEF Goals, Rank
<1> HIDE DEF parse
<1>6. Space(ts, parse, p, Rank("declarations") + 1)
  BY <1>3, <1>4, <1>5 DEF Space
<1>7. Wrote(ts, "declarations", p, parse["declarations", p, 0], 0)
  BY <1>1, <1>5, <1>6, Written
<1>8. Declares(ts, p, parse["declarations", p, 0])
  BY <1>1, <1>7 DEF Wrote
<1> QED BY <1>8 DEF LastRead, p, parse

\* The functions of a source that compiles.
Valid(ts, functions, base) ==
    /\ functions \in Seq(Compiled)
    /\ \A f \in DOMAIN functions :
          /\ Closed(ts, functions[f]) /\ (functions[f].main => functions[f].arity = 0)
          /\ ValidConstants(functions[f].constants, base, functions)

\* What parser_compile makes of a source that compiles is closed, with its constants
\* in order, and one script.
LEMMA CompileIsValid ==
    ASSUME NEW source \in Seq(SourceToken), NEW last \in Nat, NEW base \in Nat, NEW result,
           result = Compile(source, last, base), result.ok
    PROVE  /\ Valid(source, result.functions, base)
           /\ \A f \in DOMAIN result.functions :
                 result.functions[f].main => f = Len(result.functions)
<1> DEFINE p == FirstRead(source, last, base)
           q == LastRead(source, last, base)
           r == EmitReturn(q)
           end == EndCompiler(q)
           functions == result.functions
<1>1. /\ Settled(source, p) /\ Fine(p) /\ Base(p) = 1 /\ p.c.scope_depth = 0 /\ p.c.main
      /\ Len(p.c.code) = 0 /\ p.c.arity = 0
  BY FirstReadSettled
<1>2. Declares(source, p, q) /\ p.tokens = source /\ p.base = base
  BY LastReadDeclares, FirstReadFine
<1>3. result.ok = ~end.errored /\ result.functions = end.functions
  BY DEF Compile, Translation, LastRead, FirstRead
<1> HIDE DEF p, q
<1>4. Fine(q) /\ q.tokens = source /\ q.base = base /\ q.c.main /\ q.c.scope_depth = 0
  BY <1>1, <1>2 DEF Declares, Follows
<1>5. end.functions = Append(r.functions, Finished(r.c)) /\ end.errored = r.errored
  BY <1>4, EndCompilerMoves
<1>6. r = EmitOp(q, "RETURN")
  BY <1>4 DEF EmitReturn
<1>7. Follows(q, r)
  BY <1>4, EmitReturnFollows
<1> HIDE DEF r, end
<1>8. /\ r \in Parser /\ r.c \in FunctionCompiler /\ r.functions \in Seq(Compiled) /\ Fine(r)
      /\ Len(r.functions) \in Nat /\ Finished(r.c) \in Compiled
  BY <1>7, FineTypes, FinishedFields DEF Follows
<1>9. functions = Append(r.functions, Finished(r.c))
  BY <1>3, <1>5
<1> DEFINE n == Len(r.functions)
<1> HIDE DEF functions
<1>10. /\ functions \in Seq(Compiled) /\ Len(functions) = n + 1 /\ functions[n + 1] = Finished(r.c)
       /\ \A f \in 1 .. n : functions[f] = r.functions[f]
       /\ DOMAIN functions = 1 .. n + 1
  BY <1>8, <1>9
<1>11. Healthy(source, r)
  <2>1. ~r.errored
    BY <1>3, <1>5
  <2>2. r.tokens = source
    BY <1>4, <1>7 DEF Follows
  <2> QED BY <2>1, <2>2 DEF Healthy
<1>12. Healthy(source, q)
  BY <1>7, <1>11, HealthyBefore
<1>13. /\ Keeps(p, q) /\ Sane(source, q) /\ q.c.locals = p.c.locals
       /\ Segment(source, q.c, Len(p.c.code), Len(q.c.code), Base(p), Base(q), {})
  BY <1>1, <1>2, <1>12 DEF Declares
<1>14. q.c.arity + 1 = 1 /\ Base(q) = 1
  BY <1>1, <1>13 DEF Keeps, Base
<1>15. Segment(source, q.c, 0, Len(q.c.code), q.c.arity + 1, 1, {})
  BY <1>1, <1>13, <1>14
<1>16. /\ Closed(source, Finished(r.c)) /\ r.functions = q.functions /\ r.c.constants = q.c.constants
       /\ Keeps(q, r) /\ Sane(source, r)
  BY <1>4, <1>6, <1>13, <1>15, ReturnCloses
<1>17. Finished(r.c).arity = 0 /\ Finished(r.c).constants = r.c.constants
  <2>1. r.c.arity = q.c.arity /\ q.c.arity \in Nat
    BY <1>4, <1>16, FineTypes DEF Keeps
  <2>2. Finished(r.c).arity = r.c.arity /\ Finished(r.c).constants = r.c.constants
    BY <1>8, FinishedFields
  <2> QED BY <1>14, <2>1, <2>2
<1>18. r.base = base
  BY <1>4, <1>7 DEF Follows
<1>19. Begins(r.functions, functions)
  BY <1>8, <1>10 DEF Begins
<1>20. \A constants : ValidConstants(constants, base, r.functions) => ValidConstants(constants, base, functions)
  BY <1>8, <1>10, <1>19, ValidStays
<1>21. ASSUME NEW f \in DOMAIN functions
       PROVE  /\ Closed(source, functions[f]) /\ (functions[f].main => functions[f].arity = 0)
              /\ ValidConstants(functions[f].constants, base, functions)
  <2>1. CASE f = n + 1
    <3>1. ValidConstants(r.c.constants, base, r.functions)
      BY <1>16, <1>18 DEF Sane
    <3> QED BY <1>10, <1>16, <1>17, <1>20, <2>1, <3>1
  <2>2. CASE f # n + 1
    <3>1. f \in 1 .. n /\ f \in DOMAIN r.functions
      BY <1>8, <1>10, <2>2
    <3>2. Closed(source, r.functions[f]) /\ ~r.functions[f].main
          /\ ValidConstants(r.functions[f].constants, base, r.functions)
      BY <1>16, <1>18, <3>1 DEF Sane, ValidFunctions
    <3> QED BY <1>10, <1>20, <3>1, <3>2
  <2> QED BY <2>1, <2>2
<1>22. Valid(source, functions, base)
  BY <1>10, <1>21 DEF Valid
<1>23. ASSUME NEW f \in DOMAIN functions, f # Len(functions)
       PROVE  ~functions[f].main
  <2>1. f \in 1 .. n /\ f \in DOMAIN r.functions
    BY <1>8, <1>10, <1>23
  <2> QED BY <1>10, <1>16, <2>1 DEF Sane, ValidFunctions
<1> QED BY <1>22, <1>23 DEF functions

\* The names of the functions a script declares fit a byte, so that nothing is
\* misnamed: that is so of no source at all.
LEMMA RunsExactly ==
    ASSUME NEW ts, NEW c, NEW p, NEW h, Runs(ts, c, p, h), ~Misnamed(ts, c)
    PROVE  Runs(<<>>, c, p, h)
BY DEF Runs, IsName

LEMMA ClosedExactly ==
    ASSUME NEW ts, NEW fn, Closed(ts, fn), ~Misnamed(ts, fn)
    PROVE  Closed(<<>>, fn)
<1>1. PICK b \in Nat, k \in Nat :
          /\ Len(fn.code) = b + 1
          /\ Segment(ts, fn, 0, b, fn.arity + 1, k, {})
          /\ Runs(ts, fn, b, k) /\ OpAt(fn, b) = "RETURN"
  BY DEF Closed
<1>2. PICK H : Measures(ts, fn, 0, b, H, {}) /\ H[0] = fn.arity + 1 /\ H[b] = k
  BY <1>1 DEF Segment
<1>3. Measures(<<>>, fn, 0, b, H, {})
  BY <1>2, RunsExactly DEF Measures
<1>4. Segment(<<>>, fn, 0, b, fn.arity + 1, k, {})
  BY <1>1, <1>2, <1>3 DEF Segment
<1> QED BY <1>1, <1>4, RunsExactly DEF Closed

LEMMA ValidExactly ==
    ASSUME NEW source, NEW functions, NEW base, Valid(source, functions, base),
           \A f \in DOMAIN functions : functions[f].main => f = Len(functions),
           FunctionNamesFit(source, functions[Len(functions)])
    PROVE  Valid(<<>>, functions, base)
<1>1. ASSUME NEW f \in DOMAIN functions PROVE ~Misnamed(source, functions[f])
  <2> DEFINE fn == functions[f]
  <2> SUFFICES ASSUME fn.main, NEW i \in DOMAIN fn.constants,
                      NamesFunction(source, fn.constants[i]), i > ByteSize
               PROVE  FALSE
    BY DEF Misnamed
  <2>1. f = Len(functions)
    OBVIOUS
  <2>2. i <= ByteSize
    BY <2>1 DEF FunctionNamesFit
  <2>3. i \in Nat /\ ByteSize \in Nat
    <3>1. fn \in Compiled
      BY DEF Valid
    <3>2. fn.constants \in Seq(Value)
      BY <3>1 DEF Compiled
    <3> QED BY <3>2, ByteSizeIsNat
  <2> HIDE DEF fn
  <2> QED BY <2>2, <2>3
<1> QED BY <1>1, ClosedExactly DEF Valid

\* Functions that are in order are so wherever they come in a program.
LEMMA ValidIsWellFormed ==
    ASSUME NEW functions, NEW base \in Nat, Valid(<<>>, functions, base), NEW program,
           \A f \in DOMAIN functions :
              base + f \in DOMAIN program /\ program[base + f].main = functions[f].main,
           NEW f \in DOMAIN functions
    PROVE  WellFormedFunction(WithHeight(functions[f]), program)
<1>1. functions[f] \in Compiled /\ Closed(<<>>, functions[f]) /\ (functions[f].main => functions[f].arity = 0)
      /\ ValidConstants(functions[f].constants, base, functions)
  BY DEF Valid
<1>2. functions[f].constants \in Seq(Value)
  BY <1>1 DEF Compiled
<1> DEFINE constants == functions[f].constants
<1>3. ASSUME NEW i \in DOMAIN constants PROVE WellFormedConstant(constants[i], program)
  <2> DEFINE v == constants[i]
  <2>1. v \in Value
    BY <1>2
  <2>2. ValidConstant(v, base, functions)
    BY <1>1 DEF ValidConstants
  <2>3. v.as \in Int
    BY <2>1 DEF Value
  <2> HIDE DEF v
  <2>4. v.type = "FUNCTION" => v.as \in DOMAIN program /\ ~program[v.as].main
    <3>1. ASSUME v.type = "FUNCTION" PROVE v.as \in DOMAIN program /\ ~program[v.as].main
      <4> DEFINE g == v.as - base
      <4>1. g \in DOMAIN functions /\ ~functions[g].main
        BY <2>2, <3>1 DEF ValidConstant
      <4>2. base + g = v.as
        BY <2>3
      <4> HIDE DEF g
      <4>3. base + g \in DOMAIN program /\ program[base + g].main = functions[g].main
        BY <4>1
      <4> QED BY <4>1, <4>2, <4>3
    <3> QED BY <3>1
  <2>5. WellFormedConstant(v, program)
    BY <2>1, <2>2, <2>4 DEF WellFormedConstant, ValidConstant
  <2> QED BY <2>5 DEF v
<1> DEFINE fn == functions[f]
<1> HIDE DEF fn
<1>4. /\ fn \in Compiled /\ Closed(<<>>, fn) /\ (fn.main => fn.arity = 0)
      /\ \A i \in DOMAIN fn.constants : WellFormedConstant(fn.constants[i], program)
  BY <1>1, <1>3 DEF fn
<1>5. WellFormedFunction(WithHeight(fn), program)
  BY <1>4, ClosedIsWellFormed
<1> QED BY <1>5 DEF fn

\* A source compiled from nothing is a program of its own.
LEMMA CompiledIsWellFormed ==
    ASSUME NEW functions, Valid(<<>>, functions, 0)
    PROVE  WellFormed(Annotated(functions))
<1> DEFINE program == Annotated(functions)
<1>1. functions \in Seq(Compiled)
  BY DEF Valid
<1>2. DOMAIN program = DOMAIN functions /\ DOMAIN functions \subseteq Nat
  BY <1>1 DEF Annotated
<1>3. \A f \in DOMAIN functions : program[f] = WithHeight(functions[f])
  BY DEF Annotated
<1> HIDE DEF program
<1>4. \A f \in DOMAIN functions : 0 + f \in DOMAIN program /\ program[0 + f].main = functions[f].main
  <2>1. ASSUME NEW f \in DOMAIN functions
        PROVE  0 + f \in DOMAIN program /\ program[0 + f].main = functions[f].main
    <3>1. 0 + f = f
      BY <1>2
    <3>2. program[f] = WithHeight(functions[f])
      BY <1>3
    <3>3. WithHeight(functions[f]).main = functions[f].main
      BY DEF WithHeight
    <3> QED BY <1>2, <3>1, <3>2, <3>3
  <2> QED BY <2>1
<1>5. ASSUME NEW f \in DOMAIN functions PROVE WellFormedFunction(WithHeight(functions[f]), program)
  BY <1>4, ValidIsWellFormed
<1>6. WellFormed(program)
  BY <1>2, <1>3, <1>5 DEF WellFormed
<1> QED BY <1>6 DEF program

\* What is loaded after n sources is in order, if each of them compiles: functions
\* are found among those before them.
LEMMA JoinedAreValid ==
    ASSUME NEW before, Valid(<<>>, before, 0), NEW functions, Valid(<<>>, functions, Len(before))
    PROVE  Valid(<<>>, before \o functions, 0)
<1> DEFINE all == before \o functions
           n == Len(before)
<1>1. before \in Seq(Compiled) /\ functions \in Seq(Compiled) /\ n \in Nat
  BY DEF Valid
<1>2. /\ all \in Seq(Compiled)
      /\ Len(all) = n + Len(functions)
      /\ \A f \in DOMAIN before : f \in DOMAIN all /\ all[f] = before[f]
      /\ \A f \in DOMAIN functions : n + f \in DOMAIN all /\ all[n + f] = functions[f]
      /\ \A f \in DOMAIN all : f \in DOMAIN before \/ f - n \in DOMAIN functions
  BY <1>1
<1> HIDE DEF all, n
<1>3. ASSUME NEW v \in Value, ValidConstant(v, 0, before) PROVE ValidConstant(v, 0, all)
  <2>1. v.as \in Int
    BY <1>3 DEF Value
  <2>2. v.as - 0 = v.as
    BY <2>1
  <2> QED BY <1>2, <1>3, <2>2 DEF ValidConstant
<1>4. ASSUME NEW v \in Value, ValidConstant(v, n, functions) PROVE ValidConstant(v, 0, all)
  <2>1. v.as \in Int
    BY <1>4 DEF Value
  <2>2. v.as - 0 = n + (v.as - n)
    BY <1>1, <2>1
  <2> QED BY <1>2, <1>4, <2>2 DEF ValidConstant
<1>5. ASSUME NEW f \in DOMAIN all
      PROVE  /\ Closed(<<>>, all[f]) /\ (all[f].main => all[f].arity = 0)
             /\ ValidConstants(all[f].constants, 0, all)
  <2>1. CASE f \in DOMAIN before
    <3> DEFINE fn == before[f]
    <3>1. fn \in Compiled /\ all[f] = fn
      BY <1>1, <1>2, <2>1
    <3>2. Closed(<<>>, fn) /\ (fn.main => fn.arity = 0) /\ ValidConstants(fn.constants, 0, before)
      BY <2>1 DEF Valid
    <3> HIDE DEF fn
    <3>3. ValidConstants(fn.constants, 0, all)
      <4>1. fn.constants \in Seq(Value)
        BY <3>1 DEF Compiled
      <4> QED BY <1>3, <3>2, <4>1 DEF ValidConstants
    <3> QED BY <3>1, <3>2, <3>3
  <2>2. CASE f \notin DOMAIN before
    <3> DEFINE fn == functions[f - n]
    <3>1. f - n \in DOMAIN functions
      BY <1>2, <2>2
    <3>2. n + (f - n) = f
      BY <1>1, <1>2
    <3>3. fn \in Compiled /\ all[f] = fn
      BY <1>1, <1>2, <3>1, <3>2
    <3>4. Closed(<<>>, fn) /\ (fn.main => fn.arity = 0) /\ ValidConstants(fn.constants, n, functions)
      BY <3>1 DEF Valid, n
    <3> HIDE DEF fn
    <3>5. ValidConstants(fn.constants, 0, all)
      <4>1. fn.constants \in Seq(Value)
        BY <3>3 DEF Compiled
      <4> QED BY <1>4, <3>4, <4>1 DEF ValidConstants
    <3> QED BY <3>3, <3>4, <3>5
  <2> QED BY <2>1, <2>2
<1>6. Valid(<<>>, all, 0)
  BY <1>2, <1>5 DEF Valid
<1> QED BY <1>6 DEF all

\* The definition of Loads is a recursion: f is Loads for as many as n sources.
NextLoad(sources, n, before) == before \o Compile(sources[n], LastLine(sources[n]), Len(before)).functions
LoadsUpTo(sources, f, n) ==
    f[0] = <<>> /\ \A k \in 1 .. n : f[k] = NextLoad(sources, k, f[k - 1])

\* There is a function that says what is loaded, source by source.
LEMMA LoadsUpToExists ==
    ASSUME NEW sources, NEW n \in Nat
    PROVE  \E f : LoadsUpTo(sources, f, n)
<1> DEFINE T == {k \in Nat : \E f : LoadsUpTo(sources, f, k)}
<1>1. 0 \in T
  <2> DEFINE f == [k \in {0} |-> <<>>]
  <2>1. LoadsUpTo(sources, f, 0)
    BY DEF LoadsUpTo
  <2> QED BY <2>1
<1>2. ASSUME NEW k \in Nat, k \in T PROVE k + 1 \in T
  <2>1. PICK f : LoadsUpTo(sources, f, k)
    BY <1>2
  <2> DEFINE g == [j \in 0 .. k + 1 |-> IF j = k + 1 THEN NextLoad(sources, j, f[k]) ELSE f[j]]
  <2>2. g[0] = <<>>
    BY <2>1 DEF LoadsUpTo
  <2>3. ASSUME NEW j \in 1 .. k + 1 PROVE g[j] = NextLoad(sources, j, g[j - 1])
    <3>1. CASE j = k + 1
      <4>1. g[j] = NextLoad(sources, j, f[k])
        BY <3>1
      <4>2. j - 1 = k /\ g[k] = f[k]
        BY <3>1
      <4> QED BY <4>1, <4>2
    <3>2. CASE j # k + 1
      <4>1. j \in 1 .. k /\ j - 1 \in 0 .. k
        BY <3>2
      <4>2. g[j] = f[j] /\ g[j - 1] = f[j - 1]
        BY <4>1
      <4> QED BY <2>1, <4>1, <4>2 DEF LoadsUpTo
    <3> QED BY <3>1, <3>2
  <2> HIDE DEF g
  <2>4. LoadsUpTo(sources, g, k + 1)
    BY <2>2, <2>3 DEF LoadsUpTo
  <2> QED BY <2>4
<1> HIDE DEF T
<1>3. Nat \subseteq T
  BY <1>1, <1>2, NatSetInduction
<1> QED BY <1>3 DEF T

\* Loads is that function.
LEMMA LoadsUnfold ==
    ASSUME NEW sources, Len(sources) \in Nat
    PROVE  LoadsUpTo(sources, Loads(sources), Len(sources))
<1> DEFINE N == Len(sources)
           Good(f) == f = [n \in 0 .. N |-> IF n = 0 THEN <<>> ELSE NextLoad(sources, n, f[n - 1])]
<1>1. PICK g : LoadsUpTo(sources, g, N)
  BY LoadsUpToExists
<1> DEFINE f == [n \in 0 .. N |-> g[n]]
<1>2. ASSUME NEW n \in 0 .. N
      PROVE  f[n] = IF n = 0 THEN <<>> ELSE NextLoad(sources, n, f[n - 1])
  <2>1. CASE n = 0
    BY <1>1, <2>1 DEF LoadsUpTo
  <2>2. CASE n # 0
    <3>1. n \in 1 .. N /\ n - 1 \in 0 .. N
      BY <2>2
    <3>2. f[n] = g[n] /\ f[n - 1] = g[n - 1]
      BY <3>1
    <3> QED BY <1>1, <2>2, <3>1, <3>2 DEF LoadsUpTo
  <2> QED BY <2>1, <2>2
<1>3. f = [n \in 0 .. N |-> f[n]]
  OBVIOUS
<1> HIDE DEF f
<1>4. Good(f)
  BY <1>2, <1>3
<1>5. Loads(sources) = CHOOSE h : Good(h)
  BY DEF Loads, NextLoad
<1> HIDE DEF Good
<1>6. Good(Loads(sources))
  BY <1>4, <1>5
<1> DEFINE loads == Loads(sources)
<1>7. loads = [n \in 0 .. N |-> IF n = 0 THEN <<>> ELSE NextLoad(sources, n, loads[n - 1])]
  BY <1>6 DEF Good
<1> HIDE DEF loads
<1>8. loads[0] = <<>>
  BY <1>7
<1>9. ASSUME NEW k \in 1 .. N PROVE loads[k] = NextLoad(sources, k, loads[k - 1])
  <2>1. k \in 0 .. N /\ k # 0
    OBVIOUS
  <2> QED BY <1>7, <2>1
<1> QED BY <1>8, <1>9 DEF LoadsUpTo, loads

LEMMA LastLineIsNat ==
    ASSUME NEW source \in Seq(SourceToken)
    PROVE  LastLine(source) \in Nat
<1>1. CASE source = <<>>
  BY <1>1 DEF LastLine
<1>2. CASE source # <<>>
  <2>1. source[Len(source)] \in SourceToken
    BY <1>2
  <2> QED BY <1>2, <2>1, SourceTokens, TokenFields DEF LastLine
<1> QED BY <1>1, <1>2

\* Whatever scripts are loaded, one after the other, if they compile, what the
\* machine is given is what its theorems assume of a program.
THEOREM LoadedIsWellFormed ==
    ASSUME NEW sources \in Seq(Seq(SourceToken)), AllCompile(sources)
    PROVE  WellFormed(Loaded(sources))
<1> DEFINE N == Len(sources)
           loads == Loads(sources)
           T == {n \in Nat : n <= N => Valid(<<>>, loads[n], 0)}
<1>1. loads[0] = <<>> /\ \A k \in 1 .. N : loads[k] = NextLoad(sources, k, loads[k - 1])
  BY LoadsUnfold DEF LoadsUpTo
<1> HIDE DEF loads
<1>2. 0 \in T
  <2>1. Valid(<<>>, <<>>, 0)
    BY DEF Valid
  <2> QED BY <1>1, <2>1
<1>3. ASSUME NEW n \in Nat, n \in T PROVE n + 1 \in T
  <2> SUFFICES ASSUME n + 1 <= N PROVE Valid(<<>>, loads[n + 1], 0)
    OBVIOUS
  <2> DEFINE before == loads[n]
             source == sources[n + 1]
             base == Len(before)
             last == LastLine(source)
             result == Compile(source, last, base)
             functions == result.functions
  <2>1. Valid(<<>>, before, 0)
    BY <1>3
  <2>2. n + 1 \in 1 .. N /\ n + 1 \in DOMAIN sources /\ (n + 1) - 1 = n
    OBVIOUS
  <2>3. source \in Seq(SourceToken) /\ base \in Nat /\ last \in Nat
    <3>1. source \in Seq(SourceToken) /\ base \in Nat
      BY <2>1, <2>2 DEF Valid
    <3> HIDE DEF source
    <3> QED BY <3>1, LastLineIsNat
  <2>4. Compiles(source, base)
    BY <2>2 DEF AllCompile, loads
  <2>5. loads[n + 1] = before \o functions
    BY <1>1, <2>2 DEF NextLoad
  <2> HIDE DEF before, source
  <2>6. result.ok /\ FunctionNamesFit(source, functions[Len(functions)])
    BY <2>4 DEF Compiles
  <2>7. Valid(<<>>, functions, base)
    BY <2>3, <2>6, CompileIsValid, ValidExactly
  <2> HIDE DEF functions
  <2>8. Valid(<<>>, before \o functions, 0)
    BY <2>1, <2>7, JoinedAreValid
  <2> QED BY <2>5, <2>8
<1> HIDE DEF T
<1>4. N \in T
  BY <1>2, <1>3, NatSetInduction
<1>5. Valid(<<>>, loads[N], 0)
  BY <1>4 DEF T
<1>6. WellFormed(Annotated(loads[N]))
  BY <1>5, CompiledIsWellFormed
<1> QED BY <1>6 DEF Loaded, loads

\* The code of a source that compiles keeps the stack in order, whatever the
\* source and however wide a byte is, if the names of its functions fit a byte.
THEOREM CompiledCodeIsWellFormed == Spec => []WellFormedCode
<1>1. CompiledFromTokens => WellFormedCode
  <2> SUFFICES ASSUME CompiledFromTokens, compiled.ok, FunctionNamesFit(tokens, Script)
               PROVE  WellFormed(Program)
    BY DEF WellFormedCode
  <2> DEFINE result == Compile(tokens, last_line, 0)
  <2>1. tokens \in Seq(SourceToken) /\ last_line \in Nat /\ compiled = Measured(result)
    BY DEF CompiledFromTokens
  <2>2. result.functions \in Seq(Compiled) /\ Len(result.functions) \in DOMAIN result.functions
    BY <2>1, CompileEnds
  <2>3. result.ok /\ compiled.functions = Annotated(result.functions)
    BY <2>1, MeasuredFields
  <2> HIDE DEF result
  <2> DEFINE n == Len(result.functions)
             functions == result.functions
  <2>4. FunctionNamesFit(tokens, functions[n])
    <3>1. Program = Annotated(functions) /\ Len(Program) = n
      BY <2>2, <2>3 DEF Program, Annotated
    <3>2. Script.constants = functions[n].constants
      BY <2>2, <3>1 DEF Script, Annotated, WithHeight
    <3> QED BY <3>2 DEF FunctionNamesFit
  <2>5. Valid(<<>>, functions, 0)
    BY <2>1, <2>3, <2>4, CompileIsValid, ValidExactly DEF result
  <2>6. WellFormed(Annotated(functions))
    BY <2>5, CompiledIsWellFormed
  <2> QED BY <2>3, <2>6 DEF Program
<1> QED BY <1>1, CompilationInvariant, PTL
-----------------------------------------------------------------------------
(* The listing of the code stays in step with it. *)

\* There are no operations but those of the listing.
LEMMA ListedAll ==
    Ops \subseteq ListedAlone \cup ListedWithByte \cup ListedWithConstant \cup ListedWithConstant16 \cup ListedJumps
<1> DEFINE L == ListedAlone \cup ListedWithByte \cup ListedWithConstant \cup ListedWithConstant16 \cup ListedJumps
<1>1. DOMAIN OpCodes = 1 .. 41
  BY DEF OpCodes
<1>2. ASSUME NEW i \in 1 .. 41 PROVE OpCodes[i] \in L
  <2>1. CASE i \in 1 .. 6
    <3>1. OpCodes[i] \in {"RETURN", "POP", "JUMP", "JUMP_IF_TRUE", "JUMP_IF_FALSE", "JUMP_BACK"}
      BY <2>1 DEF OpCodes
    <3> QED BY <3>1 DEF ListedAlone, ListedJumps
  <2>2. CASE i \in 7 .. 14
    <3>1. OpCodes[i] \in {"DECL_GLOBAL", "DECL_GLOBAL_CONST", "GET_GLOBAL", "SET_GLOBAL",
              "DECL_GLOBAL_16", "DECL_GLOBAL_CONST_16", "GET_GLOBAL_16", "SET_GLOBAL_16"}
      BY <2>2 DEF OpCodes
    <3> QED BY <3>1 DEF ListedWithConstant, ListedWithConstant16
  <2>3. CASE i \in 15 .. 18
    <3>1. OpCodes[i] \in {"GET_LOCAL", "SET_LOCAL", "CONSTANT", "CONSTANT_16"}
      BY <2>3 DEF OpCodes
    <3> QED BY <3>1 DEF ListedWithByte, ListedWithConstant, ListedWithConstant16
  <2>4. CASE i \in 19 .. 26
    <3>1. OpCodes[i] \in {"ZERO", "ONE", "TRUE", "FALSE", "NULL", "NOT", "POSITIVE", "NEGATIVE"}
      BY <2>4 DEF OpCodes
    <3> QED BY <3>1 DEF ListedAlone
  <2>5. CASE i \in 27 .. 37
    <3>1. OpCodes[i] \in {"ADD", "SUBTRACT", "MULTIPLY", "DIVIDE", "MODULO", "EQUAL", "NOT_EQUAL",
              "GREATER", "GREATER_EQUAL", "LESS", "LESS_EQUAL"}
      BY <2>5 DEF OpCodes
    <3> QED BY <3>1 DEF ListedAlone
  <2>6. CASE i \in 38 .. 41
    <3>1. OpCodes[i] \in {"SUBSCRIPT_GET", "SUBSCRIPT_SET", "CALL", "ARRAY"}
      BY <2>6 DEF OpCodes
    <3> QED BY <3>1 DEF ListedAlone, ListedWithByte
  <2> QED BY <2>1, <2>2, <2>3, <2>4, <2>5, <2>6
<1> HIDE DEF L
<1> QED BY <1>1, <1>2 DEF Ops, L

\* The listing passes over an instruction as the machine does.
LEMMA ListedNextIsNext ==
    ASSUME NEW fn, NEW p, IsOp(fn, p)
    PROVE  ListedNext(fn, p) = NextOffset(fn, p)
<1>1. OpAt(fn, p) \in Ops
  BY DEF IsOp, OpAt, Ops
<1>2. OpAt(fn, p) \in ListedAlone \cup ListedWithByte \cup ListedWithConstant \cup ListedWithConstant16 \cup ListedJumps
  BY <1>1, ListedAll
<1>3. /\ ShortOperand = ListedWithConstant16 \cup ListedJumps
      /\ ByteOperand = ListedWithByte \cup ListedWithConstant
  BY DEF ShortOperand, ByteOperand, ListedWithByte, ListedWithConstant, ListedWithConstant16, ListedJumps
<1>4. /\ ListedAlone \cap (ShortOperand \cup ByteOperand) = {}
      /\ ShortOperand \cap ByteOperand = {}
  BY DEF ListedAlone, ShortOperand, ByteOperand
<1> QED BY <1>1, <1>2, <1>3, <1>4 DEF ListedNext, NextOffset

\* The constant and the target that are listed are those of the machine.
LEMMA ListedOperands ==
    ASSUME NEW ts, NEW fn, NEW p \in Nat, NEW h, Runs(ts, fn, p, h)
    PROVE  /\ OpAt(fn, p) \in GlobalOps \cup ConstantOps =>
                 /\ ListedConstant(fn, p) \in DOMAIN fn.constants
                 /\ fn.constants[ListedConstant(fn, p)] = ConstantAt(fn, p)
           /\ OpAt(fn, p) \in ListedJumps => ListedTarget(fn, p) \in Successors(fn, p)
<1>1. ASSUME OpAt(fn, p) \in GlobalOps \cup ConstantOps
      PROVE  ListedConstant(fn, p) = Operand(fn, p) + 1
  <2>1. OpAt(fn, p) \in ShortOperand <=> OpAt(fn, p) \in ListedWithConstant16
    BY <1>1 DEF GlobalOps, ConstantOps, DeclGlobalOps, GetGlobalOps, SetGlobalOps,
                ShortOperand, ListedWithConstant16
  <2> QED BY <2>1 DEF ListedConstant, ListedShort, Operand
<1>2. ASSUME OpAt(fn, p) \in ListedJumps PROVE ListedTarget(fn, p) \in Successors(fn, p)
  <2>1. OpAt(fn, p) \in ShortOperand /\ OpAt(fn, p) \in ListedJumps
    BY <1>2 DEF ListedJumps, ShortOperand
  <2>2. ListedShort(fn, p) = Operand(fn, p) /\ Operand(fn, p) \in Nat /\ NextOffset(fn, p) = p + 3
    BY <2>1 DEF ListedShort, Operand, NextOffset, Runs
  <2>3. CASE OpAt(fn, p) = "JUMP_BACK"
    <3>1. ListedTarget(fn, p) = p + 3 - Operand(fn, p)
      BY <2>2, <2>3 DEF ListedTarget
    <3> QED BY <2>2, <2>3, <3>1 DEF Successors
  <2>4. CASE OpAt(fn, p) # "JUMP_BACK"
    <3>1. ListedTarget(fn, p) = p + 3 + Operand(fn, p)
      BY <2>2, <2>4 DEF ListedTarget
    <3>2. OpAt(fn, p) = "JUMP" \/ OpAt(fn, p) \in ConditionalJumps
      BY <2>1, <2>4 DEF ListedJumps, ConditionalJumps
    <3> QED BY <2>2, <3>1, <3>2 DEF Successors, ConditionalJumps
  <2> QED BY <2>3, <2>4
<1> QED BY <1>1, <1>2 DEF Runs, ConstantAt

\* The definition of Listing is a recursion: f is Listing for as many as n.
ListingUpTo(fn, f, n) ==
    /\ f[0] = [at |-> 0, listed |-> {}]
    /\ \A k \in 1 .. n : f[k] = ListedOn(fn, f[k - 1])

\* There is a function that says how far the listing is after n instructions.
LEMMA ListingUpToExists ==
    ASSUME NEW fn, NEW n \in Nat
    PROVE  \E f : ListingUpTo(fn, f, n)
<1> DEFINE T == {k \in Nat : \E f : ListingUpTo(fn, f, k)}
<1>1. 0 \in T
  <2> DEFINE f == [k \in {0} |-> [at |-> 0, listed |-> {}]]
  <2>1. ListingUpTo(fn, f, 0)
    BY DEF ListingUpTo
  <2> QED BY <2>1
<1>2. ASSUME NEW k \in Nat, k \in T PROVE k + 1 \in T
  <2>1. PICK f : ListingUpTo(fn, f, k)
    BY <1>2
  <2> DEFINE g == [j \in 0 .. k + 1 |-> IF j = k + 1 THEN ListedOn(fn, f[k]) ELSE f[j]]
  <2>2. g[0] = [at |-> 0, listed |-> {}]
    BY <2>1 DEF ListingUpTo
  <2>3. ASSUME NEW j \in 1 .. k + 1 PROVE g[j] = ListedOn(fn, g[j - 1])
    <3>1. CASE j = k + 1
      <4>1. g[j] = ListedOn(fn, f[k])
        BY <3>1
      <4>2. j - 1 = k /\ g[k] = f[k]
        BY <3>1
      <4> QED BY <4>1, <4>2
    <3>2. CASE j # k + 1
      <4>1. j \in 1 .. k /\ j - 1 \in 0 .. k
        BY <3>2
      <4>2. g[j] = f[j] /\ g[j - 1] = f[j - 1]
        BY <4>1
      <4> QED BY <2>1, <4>1, <4>2 DEF ListingUpTo
    <3> QED BY <3>1, <3>2
  <2> HIDE DEF g
  <2>4. ListingUpTo(fn, g, k + 1)
    BY <2>2, <2>3 DEF ListingUpTo
  <2> QED BY <2>4
<1> HIDE DEF T
<1>3. Nat \subseteq T
  BY <1>1, <1>2, NatSetInduction
<1> QED BY <1>3 DEF T

LEMMA ListingUpToUnique ==
    ASSUME NEW fn, NEW m \in Nat, NEW n \in Nat, NEW f, NEW g,
           ListingUpTo(fn, f, m), ListingUpTo(fn, g, n), NEW i \in Nat, i <= m, i <= n
    PROVE  f[i] = g[i]
<1> DEFINE T == {k \in Nat : k <= m /\ k <= n => f[k] = g[k]}
<1>1. 0 \in T
  BY DEF ListingUpTo
<1>2. ASSUME NEW k \in Nat, k \in T PROVE k + 1 \in T
  <2> SUFFICES ASSUME k + 1 <= m, k + 1 <= n PROVE f[k + 1] = g[k + 1]
    OBVIOUS
  <2>1. f[k] = g[k]
    BY <1>2
  <2>2. k + 1 \in 1 .. m /\ k + 1 \in 1 .. n /\ (k + 1) - 1 = k
    OBVIOUS
  <2>3. f[k + 1] = ListedOn(fn, f[k]) /\ g[k + 1] = ListedOn(fn, g[k])
    BY <2>2 DEF ListingUpTo
  <2> QED BY <2>1, <2>3
<1> HIDE DEF T
<1>3. Nat \subseteq T
  BY <1>1, <1>2, NatSetInduction
<1> QED BY <1>3 DEF T

\* Listing is that function.
LEMMA ListingUnfold ==
    ASSUME NEW fn
    PROVE  /\ Listing(fn)[0] = [at |-> 0, listed |-> {}]
           /\ \A n \in Nat : Listing(fn)[n + 1] = ListedOn(fn, Listing(fn)[n])
<1> DEFINE first == [at |-> 0, listed |-> {}]
           Good(f) == f = [n \in Nat |-> IF n = 0 THEN first ELSE ListedOn(fn, f[n - 1])]
           chosen(n) == CHOOSE f : ListingUpTo(fn, f, n)
           limit == [n \in Nat |-> chosen(n)[n]]
<1>1. \A n \in Nat : ListingUpTo(fn, chosen(n), n)
  BY ListingUpToExists
<1> HIDE DEF chosen
<1>2. limit[0] = first
  BY <1>1 DEF ListingUpTo
<1>3. ASSUME NEW n \in Nat PROVE limit[n + 1] = ListedOn(fn, limit[n])
  <2>1. ListingUpTo(fn, chosen(n), n) /\ ListingUpTo(fn, chosen(n + 1), n + 1)
    BY <1>1
  <2>2. chosen(n + 1)[n] = chosen(n)[n]
    BY <2>1, ListingUpToUnique
  <2>3. n + 1 \in 1 .. n + 1 /\ (n + 1) - 1 = n
    OBVIOUS
  <2>4. chosen(n + 1)[n + 1] = ListedOn(fn, chosen(n + 1)[n])
    BY <2>1, <2>3 DEF ListingUpTo
  <2> QED BY <2>2, <2>4
<1>4. limit = [n \in Nat |-> limit[n]]
  OBVIOUS
<1> HIDE DEF limit
<1>5. \A n \in Nat : limit[n] = IF n = 0 THEN first ELSE ListedOn(fn, limit[n - 1])
  <2> TAKE n \in Nat
  <2>1. CASE n = 0
    BY <1>2, <2>1
  <2>2. CASE n # 0
    <3>1. n - 1 \in Nat /\ (n - 1) + 1 = n
      BY <2>2
    <3>2. limit[(n - 1) + 1] = ListedOn(fn, limit[n - 1])
      BY <1>3, <3>1
    <3> QED BY <2>2, <3>1, <3>2
  <2> QED BY <2>1, <2>2
<1>6. Good(limit)
  BY <1>4, <1>5
<1>7. Listing(fn) = CHOOSE f : Good(f)
  BY DEF Listing
<1> HIDE DEF Good
<1>8. Good(Listing(fn))
  BY <1>6, <1>7
<1>9. Listing(fn) = [n \in Nat |-> IF n = 0 THEN first ELSE ListedOn(fn, Listing(fn)[n - 1])]
  BY <1>8 DEF Good
<1>10. ASSUME NEW n \in Nat PROVE Listing(fn)[n + 1] = ListedOn(fn, Listing(fn)[n])
  <2>1. n + 1 \in Nat /\ n + 1 # 0 /\ (n + 1) - 1 = n
    OBVIOUS
  <2> QED BY <1>9, <2>1
<1> QED BY <1>9, <1>10

\* After n instructions of a tiling, or when the end is reached, those that begin
\* before the place where the listing is have been listed.
ListedTo(fn, D, so_far, n) ==
    /\ so_far.at \in D \cup {Len(fn.code)}
    /\ so_far.at >= n \/ so_far.at = Len(fn.code)
    /\ so_far.listed = {p \in D : p < so_far.at}

LEMMA ListedOneMore ==
    ASSUME NEW fn, fn.code \in Seq(Nat), NEW D, Tiled(fn, D), NEW n \in Nat,
           NEW so_far, ListedTo(fn, D, so_far, n)
    PROVE  ListedTo(fn, D, ListedOn(fn, so_far), n + 1)
<1> DEFINE len == Len(fn.code)
           at == so_far.at
           next == NextOffset(fn, at)
<1>1. len \in Nat /\ \A p \in D : p \in Nat /\ p < len
  <2>1. len \in Nat
    OBVIOUS
  <2>2. D \subseteq 0 .. len - 1
    BY DEF Tiled
  <2> HIDE DEF len
  <2> QED BY <2>1, <2>2
<1>2. at \in D \cup {len} /\ (at >= n \/ at = len) /\ so_far.listed = {p \in D : p < at}
  BY DEF ListedTo
<1>3. CASE at >= len
  <2>1. at = len
    BY <1>1, <1>2, <1>3
  <2>2. ListedOn(fn, so_far) = so_far
    BY <1>3 DEF ListedOn
  <2> QED BY <1>2, <2>1, <2>2 DEF ListedTo
<1>4. CASE ~(at >= len)
  <2>1. at \in D /\ at \in Nat /\ at < len /\ at >= n
    <3> HIDE DEF at, len
    <3> QED BY <1>1, <1>2, <1>4
  <2>2. ListedNext(fn, at) = next
    BY <2>1, ListedNextIsNext DEF Tiled
  <2>3. next \in {at + 1, at + 2, at + 3}
    BY <2>1, NextIsLater
  <2>4. ListedOn(fn, so_far) = [at |-> next, listed |-> so_far.listed \cup {at}]
    BY <1>4, <2>2 DEF ListedOn
  <2>5. next \in D \cup {len} /\ \A r \in D : r <= at \/ r >= next
    BY <2>1 DEF Tiled, Clear
  <2> HIDE DEF next, at, len
  <2>6. next >= n + 1
    BY <2>1, <2>3
  <2>7. so_far.listed \cup {at} = {p \in D : p < next}
    <3>1. \A p \in D : (p < at \/ p = at) <=> p < next
      BY <1>1, <2>1, <2>3, <2>5
    <3> QED BY <1>2, <2>1, <3>1
  <2> QED BY <2>4, <2>5, <2>6, <2>7 DEF ListedTo, len, at
<1> QED BY <1>3, <1>4

\* What is listed are the instructions of the tiling.
LEMMA ListedAreTiles ==
    ASSUME NEW fn, fn.code \in Seq(Nat), NEW D, Tiled(fn, D)
    PROVE  Listed(fn) = D
<1> DEFINE T == {n \in Nat : ListedTo(fn, D, Listing(fn)[n], n)}
           len == Len(fn.code)
           end == Listing(fn)[len]
<1>1. len \in Nat /\ 0 \in D /\ \A p \in D : p \in Nat /\ p < len
  <2>1. len \in Nat
    OBVIOUS
  <2>2. D \subseteq 0 .. len - 1 /\ 0 \in D
    BY DEF Tiled
  <2> HIDE DEF len
  <2> QED BY <2>1, <2>2
<1>2. 0 \in T
  <2>1. Listing(fn)[0] = [at |-> 0, listed |-> {}]
    BY ListingUnfold
  <2>2. {p \in D : p < 0} = {}
    <3>1. \A p \in D : ~(p < 0)
      BY <1>1
    <3> QED BY <3>1
  <2> QED BY <1>1, <2>1, <2>2 DEF ListedTo
<1>3. ASSUME NEW n \in Nat, n \in T PROVE n + 1 \in T
  <2>1. Listing(fn)[n + 1] = ListedOn(fn, Listing(fn)[n])
    BY ListingUnfold
  <2>2. ListedTo(fn, D, ListedOn(fn, Listing(fn)[n]), n + 1)
    BY <1>3, ListedOneMore
  <2> QED BY <2>1, <2>2
<1> HIDE DEF T
<1>4. len \in T
  BY <1>1, <1>2, <1>3, NatSetInduction
<1>5. ListedTo(fn, D, end, len)
  BY <1>4 DEF T
<1>6. Listed(fn) = end.listed
  BY DEF Listed
<1> HIDE DEF end
<1>7. end.at \in D \cup {len} /\ (end.at >= len \/ end.at = len) /\ end.listed = {p \in D : p < end.at}
  BY <1>5 DEF ListedTo
<1> HIDE DEF len
<1>8. end.at = len
  <2>1. CASE end.at \in D
    BY <1>1, <1>7, <2>1
  <2> QED BY <1>7, <2>1
<1>9. \A p \in D : p < len
  BY <1>1
<1> QED BY <1>6, <1>7, <1>8, <1>9

\* The listing of a function in step with the machine.
InStep(fn) ==
    LET listed == Listed(fn)
    IN  /\ DOMAIN fn.height \subseteq listed
        /\ \A p \in listed :
              /\ ListedNext(fn, p) <= Len(fn.code)
              /\ OpAt(fn, p) \in GlobalOps \cup ConstantOps =>
                    /\ ListedConstant(fn, p) \in DOMAIN fn.constants
                    /\ fn.constants[ListedConstant(fn, p)] = ConstantAt(fn, p)
              /\ OpAt(fn, p) \in ListedJumps => ListedTarget(fn, p) \in Successors(fn, p)

\* Closed code is listed in step.
LEMMA ClosedIsInStep ==
    ASSUME NEW ts, NEW fn \in Compiled, Closed(ts, fn)
    PROVE  InStep(WithHeight(fn))
<1> DEFINE g == WithHeight(fn)
<1>1. fn.code \in Seq(Nat)
  BY DEF Compiled
<1>2. /\ g.code = fn.code /\ g.constants = fn.constants /\ g.main = fn.main
      /\ g.height = HeightsOf(fn)
  BY DEF WithHeight
<1> HIDE DEF g
<1>3. PICK H : Charts(ts, fn, H) /\ Tiled(fn, DOMAIN H)
  BY ClosedIsTiled
<1> DEFINE D == DOMAIN H
<1>4. ASSUME NEW p
      PROVE  /\ IsOp(g, p) <=> IsOp(fn, p)
             /\ OpAt(g, p) = OpAt(fn, p) /\ Operand(g, p) = Operand(fn, p)
             /\ NextOffset(g, p) = NextOffset(fn, p)
  <2>1. /\ IsOp(g, p) <=> IsOp(fn, p)
        /\ OpAt(g, p) = OpAt(fn, p) /\ Operand(g, p) = Operand(fn, p)
    BY <1>2 DEF IsOp, OpAt, Operand, Byte
  <2> QED BY <2>1 DEF NextOffset
<1>5. Tiled(g, D)
  BY <1>2, <1>3, <1>4 DEF Tiled, Clear
<1>6. Listed(g) = D
  BY <1>1, <1>2, <1>5, ListedAreTiles
<1>7. DOMAIN g.height \subseteq D
  <2>1. Reached(fn) \subseteq Graph(H)
    BY <1>1, <1>3, ReachedIsClosed
  <2>2. DOMAIN HeightsOf(fn) = {r[1] : r \in Reached(fn)}
    BY DEF HeightsOf
  <2>3. \A r \in Graph(H) : r[1] \in D
    BY DEF Graph
  <2> QED BY <1>2, <2>1, <2>2, <2>3
<1>8. ASSUME NEW p \in D
      PROVE  /\ ListedNext(g, p) <= Len(g.code)
             /\ OpAt(g, p) \in GlobalOps \cup ConstantOps =>
                   /\ ListedConstant(g, p) \in DOMAIN g.constants
                   /\ g.constants[ListedConstant(g, p)] = ConstantAt(g, p)
             /\ OpAt(g, p) \in ListedJumps => ListedTarget(g, p) \in Successors(g, p)
  <2>1. p \in Nat /\ Len(g.code) \in Nat /\ D \subseteq 0 .. Len(g.code) - 1
    BY <1>1, <1>2, <1>5 DEF Tiled
  <2>2. ListedNext(g, p) = NextOffset(g, p)
    BY <1>5, ListedNextIsNext DEF Tiled
  <2>3. NextOffset(g, p) \in D \cup {Len(g.code)}
    BY <1>5 DEF Tiled, Clear
  <2>4. ListedNext(g, p) <= Len(g.code)
    BY <2>1, <2>2, <2>3
  <2>5. Runs(ts, g, p, H[p])
    <3>1. Runs(ts, fn, p, H[p])
      BY <1>3 DEF Charts
    <3>2. Pops(g, p) = Pops(fn, p)
      BY <1>4 DEF Pops
    <3>3. Misnamed(ts, g) <=> Misnamed(ts, fn)
      BY <1>2 DEF Misnamed
    <3> QED BY <1>2, <1>4, <3>1, <3>2, <3>3 DEF Runs, IsName
  <2> QED BY <2>1, <2>4, <2>5, ListedOperands
<1>9. InStep(g)
  BY <1>6, <1>7, <1>8 DEF InStep
<1> QED BY <1>9 DEF g

\* Whatever source compiles, the listing of each of its functions decodes the code
\* as the machine does: what can run is listed, and nothing outside is read.
THEOREM ListingInStepHolds == Spec => []ListingInStep
<1>1. CompiledFromTokens => ListingInStep
  <2> SUFFICES ASSUME CompiledFromTokens, compiled.ok, NEW f \in DOMAIN Program
               PROVE  InStep(Program[f])
    BY DEF ListingInStep, InStep
  <2> DEFINE result == Compile(tokens, last_line, 0)
             functions == result.functions
  <2>1. tokens \in Seq(SourceToken) /\ last_line \in Nat /\ compiled = Measured(result)
    BY DEF CompiledFromTokens
  <2>2. result.ok /\ Program = Annotated(functions)
    BY <2>1, MeasuredFields DEF Program
  <2>3. Valid(tokens, functions, 0)
    BY <2>1, <2>2, CompileIsValid
  <2> HIDE DEF functions
  <2>4. f \in DOMAIN functions /\ Program[f] = WithHeight(functions[f])
    BY <2>2 DEF Annotated
  <2>5. functions[f] \in Compiled /\ Closed(tokens, functions[f])
    BY <2>3, <2>4 DEF Valid
  <2> QED BY <2>4, <2>5, ClosedIsInStep
<1> QED BY <1>1, CompilationInvariant, PTL
=============================================================================
