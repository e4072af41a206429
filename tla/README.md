# A formal model of Aspic

Aspic is a scripting language in C: a scanner and a one-pass compiler from source
to bytecode (`src/src/scanner.c`, `src/src/parser.c`), a stack machine that runs
it (`src/src/vm.c`), a hash table for the global variables, a pool of strings, a
few native functions, and a prompt. This directory holds TLA+ modules translated
from that code, TLC configurations that check them on small instances, and
theorems about them checked by TLAPS.

    tlc -workers 2 -config MCRepl.cfg MCRepl.tla     # one run
    tlapm HashtableProofs.tla                        # the proofs of one module

Paths below are relative to `src/src/`.

## 1. The system

| component | state it keeps | operations | what makes it correct |
|---|---|---|---|
| Scanner, `scanner.c` | a cursor and a line number | `next_token` | longest lexemes, keywords told from names, each token on its line, no character read past the end |
| Compiler, `parser.c` | current and previous token, `errored`, `panic_mode`; per function being compiled: locals, scope depth, chunk | `parser_compile` and one function per grammar rule | accepts the language and nothing else; code follows precedence; slots of locals agree with the height of the stack at run time; operands fit their byte or two |
| Chunk, `chunk.c`, `op_code.h` | bytes, constants, run-length table of lines | write, register a constant, line of an offset | constants are shared, the table gives back the line of each byte |
| Listing, `debug.c` | none | lists a chunk in debug builds | decodes the bytes as the machine does |
| Virtual machine, `vm.c` | value stack, stack of call frames, globals, string pool, list of objects | `vm_interpret`, one case of `vm_run` per instruction | windows of calls lie where the compiler reckons; errors end the script and are never values; callers' slots are safe; limits hold |
| Global table, `hashtable.c` | open-addressing array with tombstones, two counters | set, update, get, delete, growth inside set | it is a map; every probe ends; no key is lost or doubled |
| Values and operators, `value.c`, `object.c`, `value_array.c`, `op_code.c` | heap objects: strings, arrays, functions | operators on one to three values; growing, comparing and printing arrays | types checked before use, error values otherwise; comparing and printing end on arrays that hold themselves |
| Native functions, `stdlib/` | none of their own; they change arrays | thirteen functions, `(argv, argc)` to a value | argument checks, error values |
| String pool, `stringset.c` | open-addressing set with tombstone flags | add, look up by content, delete | equal strings are one object |
| REPL, command line, `repl.c`, `main.c` | the verdict of the script | calls `vm_interpret`, shows `vm_last_value`, exits | a failed line does not harm the next; the exit status tells the outcome |
| Utilities, `utils.c` | none | checked allocation, printing a line of the source | |

**How they interact.** `vm_interpret` resets both stacks and calls
`parser_compile`, which pulls tokens from the scanner and writes one chunk per
function, itself a constant of the chunk around it. `vm_run` then fetches from
the chunk of the top frame. Globals go through the hash table by name; locals
are slots of the frame's window on the value stack, a number the compiler fixed.
Every string, literal or computed, is looked up in the pool by its characters
before an object is made, so that strings are compared by pointer.
Operators and native functions return a value; an error is a value of type
`TYPE_ERROR`, and the only link between a failure and the end of the script is
the test of the top of the stack after each instruction.

**What is hard here.** Nothing runs concurrently and nothing is persisted, so
there is no interleaving and no crash recovery. What is hard is:

* *agreement without communication*: the compiler assigns slots and emits POPs
  without computing the height of the stack; the machine trusts it without
  looking. Branches, `&&`, loops, scopes, returns and refused calls must all
  keep the two in step;
* *long sequences of legal calls*: tombstones and growth of the table, the
  machine used again and again by the REPL after scripts that failed halfway;
* *limits*: one-byte and two-byte operands, 255 locals, 64 frames, a stack that
  is never tested for its end;
* *recursion over data that can be circular*: an array may hold itself;
* *error recovery* in the parser;
* *partial failure*: an instruction that fails after changing something.

`PROJECT.json` lists each of these hazards at its line with the properties that
cover it, or the reason why none does.

## 2. The modules

| module | extends | instantiates |
|---|---|---|
| Stdlib, Bytecode, VM, Repl | Values, Stdlib, Bytecode, VM in turn | VM uses GlobalTable |
| Hashtable | | implements GlobalTable |
| StringSet | | implements StringPool and Hashtable |
| Debug, Compiler | Bytecode and Chunk | |
| Scanner | Compiler, Tokens | |
| Heights, Grammar | Bytecode; Compiler | |
| Loading, then Compilation | Compiler, Heights; then Grammar, Debug | |
| ExpressionCode | Grammar | |
| Lexemes, Lexer | Characters | Lexer implements Lexemes |
| Arrays | | |
| MCCompiler | Compilation, ExpressionCode, Scanner | |
| MCVM, then MCRepl | VM, Scanner, Loading; then Repl | |
| MCHashtable, MCStringSet, MCLexer, MCArrays | the module they are named after | |
| HashtableProofs | Hashtable | |
| StringSetProofs | StringSet | HashtableProofs |
| VMProofs | Repl | |
| LexerProofs, ArraysProofs | Lexer, Arrays | |
| CompilerProofs, then ErrorProofs and WellFormedProofs | Compilation | |

**GlobalTable** is the abstract specification: a map from names to a value and
a flag, one step per call, with the call's answer. The machine uses it in place
of the table; `Hashtable` is shown to implement it.

**Hashtable** is `hashtable.c`. A call is one step, except `hashtable_set`: its
rehash loop takes one step per bucket (`BeginSet`, `Rehash`, `Install`,
`Insert`), so that what holds inside the loop can be said and proved.
`Finds(E, cap, k, b)` is `find_entry`: bucket `b` is what the probe of `k`
returns. When no bucket satisfies it the C loop does not end and the model's
action is disabled. `entries`, `capacity`, `count`, `count_with_tombstones` are
the C fields. `hashtable_delete` is modelled although the program has no caller
for it, since the tombstones are what the table's code is about.
`hashtable_copy`, `_free` and `_print` are left out.

**StringPool** is the second abstract specification: asked for characters, the
pool answers the one object that has them, and makes one only if there is none.
**StringSet** is `stringset.c` under `string_new` and `string_ctor`, in the same
steps as `Hashtable`: `Reuse` finds a string by its characters, `Allocate` does
not and begins `stringset_add`. An object is known by its address, and `Chars`
says what it holds. It is shown to implement two specifications: StringPool,
which is what `string_equal` rests on, and Hashtable, with pointers for keys and
no values, of which it is a second copy in C. The two copies differ in one
thing, the flag for tombstones that `stringset_add` does not clear; the mapping
`AsEntry` does not look at the flag of an entry in use, so the refinement says
that the difference does not matter.

**Values** and **Stdlib** are the operators and the native functions. A value is
a type and a payload. Arithmetic may give any of `Numbers`, building a string
any of `Strings`; such an operator is the set of its possible results. Types,
truthiness, error results, indices and the sharing of arrays are exact; comparing
two arrays gives either answer here and is the subject of Arrays. Where C
behaviour is undefined (`% 0`, a negative repeat count, an object used as
something it is not) the result is `Undefined`, and the machine may do anything
from there: `pc = "undefined"`, and no property is claimed of what follows.

**Arrays** is `value_array.c`, `make_array`, and the two recursions over arrays,
`value_equal` and `value_rprinter`. A step of a walk is the treatment of one item;
its calls are on a stack, which holds `MaxDepth` of them, as the C stack does: a
call too many is `work = "crashed"`. Arrays may hold themselves and each other in
any way. `value_equal` remembers nothing of where it was; `value_rprinter` tracks
the arrays it met in a list of `PRINT_MAX_COLLECTIONS`. The program waits for a
walk to end, so no array changes during one.

**Bytecode** is the instruction set: operand widths, operands, successors and
the effect of each instruction on the stack, as `vm_run` has them.
`WellFormed(program)` says that every reachable instruction finds the stack of
its call at one height whatever way it was reached, that it leaves the function
in slot 0, and that its operand names something that exists. The compiler
computes nothing of the kind: **Heights** finds the heights by following the
code and is part of the analysis, not of the program.

**Compiler** is `parser.c`. Each C function is an operator from a parser state
to the next. The C functions call each other back and loop over tokens; those
calls and turns go through the function `Parse`, which is given the number of
them, so that the recursion is one over numbers and can be reasoned about. No
source makes more than three for each of its tokens and three more (`CallsFor`):
that is proved, and a parser that ran out would report `EXHAUSTED`, which it
never does. All control is kept: panic mode, the early return of
`parse_precedence`, an assignment to a constant local that is not read any
further, the truncation of a function's name index, the unsigned wrap of item
counts, jump operands patched later, the line each byte is written with. Left
out: message texts and the names functions carry. Of an error report the type of its token is kept.

**Chunk** is the run-length table of lines, written byte by byte and read by
offset. **Debug** is the listing of debug builds, which decodes the bytes with
tables of its own.

**Lexer** is `scanner.c`, a step for each character of a loop and for each token
`next_token` returns; the place after the last character holds the NUL.
**Lexemes** says what the tokens of a source are without saying how they are
found: the longest lexemes from left to right, with nothing but blanks and
comments between. **Scanner** gives the sources of the compiler's runs, as
sequences of lexemes with the table of **Tokens**; `AgreesWithScanner` checks
that table against Lexer.

**Grammar** is the reference for the parser, written without looking at its method:
the language as sets of phrases, stretches of tokens that are an operation, an
expression, a statement and so on. The rules of the language, applied to the shorter
phrases, give the longer ones; `IsProgram` says that the whole source is one. **ExpressionCode** says what code an
expression has, by precedence and associativity of its syntax tree (`CodeOf`).

**VM** is `vm_interpret` and `vm_run`: one step per iteration of its loop, one
action per instruction, in the order fetch, execute, look for an error. What is
above `stack_top` is kept, as it is in memory. `pushed` is a history variable.
`CompileError` is `parser_compile` returning NULL, which the machine can meet at
any call. A script may be run at any time the machine is idle, whatever the last
one did.

**Repl** is `main` and `repl` around the machine: the prompt gives it a line,
waits for `vm_interpret`, shows `vm_last_value` and reads on; `main` runs one
source and makes its result the exit status. A line that does not compile is
`CompileError`. A file that cannot be read ends the program at once.

**Loading** is what `vm_interpret` makes of one source after the other: the
functions of each join those there are (`Loaded`). **Compilation** is the
compiler on its own: a source that grows, and what it is compiled to.
`FunctionNamesFit` is the premise of `WellFormedCode`: the functions of a script
are declared while a byte can still count their names among its constants. Past
that the compiler declares them under another constant (see `MCFunctionName`),
which may be a number, and then its code is not well formed.

**MCVM** composes compiler and machine: scripts are given as source, `Compile`
makes the program, the machine runs it. The compiled program is a constant given
by the configuration (`LoadedSources <- CompiledSources`) so that TLC compiles
once; assumption `LoadedAssumption` says it is nothing else, `SourcesAssumption`
that the sources compile. `ProgramAssumption` in VM (`WellFormed(Program)`), the
machine's only premise about code, is evaluated by TLC on each such run, and
`LoadedIsWellFormed` below proves it of all sequences of scripts that compile. **MCRepl** puts Repl
around it: the whole program from the command line to the exit status.

Operators whose comment begins with *Mutant* are wrong on purpose: each is a
plausible mistake in the definition that follows it, and the property that goes
with it in `PROJECT.json` fails when it takes that definition's place.

## 3. What is checked

Passing runs:

| run | question | instance | states |
|---|---|---|---|
| `MCHashtable` | is the table a map, in spite of tombstones and growth, and does `hashtable_set` return? | 3 keys, two with the same hash; sizes 3 and 6; two values, one of which looks like an empty bucket's and one like a tombstone's | 125,915 |
| `MCStringSet` | does the pool never hold two strings of the same characters, does it implement its specification, and Hashtable? | 5 strings of 3 contents, all hashing to one bucket of the first array; sizes 3 and 6; deleted strings made again | 16,440 |
| `MCSources` | does the parser accept the language and nothing else, compile it to the right code, with the right lines, and does the listing keep in step? | the sources of four vocabularies, below | 1,826,524 |
| `MCLexer` | are sources cut into their longest lexemes, to the end? | all sources of at most 5 of 8 characters, of at most 2 of 30 pieces of keywords and words, and of at most 2 of 20 marks | 329,531 |
| `MCArrays` | are comparing and printing right on arrays that share and hold each other, and do they end? | 3 arrays, 2 items each, 4 in all; 5 arrays each in the next; a number and a native function; a C stack of 3 calls, a list of 2 printed arrays | 512,017 |
| `MCRepl` | do calls, returns, refused calls, globals and errors keep stack, frames and constants in order, over several lines? does the prompt come back, and the exit status tell what happened? | ten compiled scripts, 5 in any order at the prompt or one from the command line, 3 frames of 6 slots | 36,752 |
| `MCValues` | the same with every operator, native function and instruction | 15 compiled scripts, 3 in any order, 3 arrays of at most 3 items | 1,632,979 |

`MCSources` compiles every source of at most six phrases (five for the last
vocabulary), a phrase being a token or some that go together, on a line of its
own. A source ends on the line after its last token, as a file does, or on that of its
last token, as a line of the prompt (*expressions*). The vocabularies are: *expressions*, a token of each level of precedence, assignment, call,
subscript and array; *statements*, blocks, branches, loops, functions, shadowing
and constants; *recovery*, errors anywhere, and what the parser looks for after
one; *limits*, for a byte of eight values, more constants, items, arguments and
locals than a byte can count, jumps over more code than two can, and a function
declared before and after its name fits a byte. A source is
made longer only while its first error, if any, is that it ends too soon, but for
*recovery*, which goes on after any.

*Why the bounds are enough.* The tables grow and lose their free space within
two sizes: with 3 keys, two of them colliding, and unlimited deletes, arrays full
of tombstones, wrap-around of the probe, reuse of a tombstone with the key behind
it and rehashing with tombstones all occur. In the compiler's run six phrases are
enough to nest any two constructs and to have an error inside, before and after
each. The width of a byte is a parameter, so that constants, items, arguments,
locals and jumps pass their limits within a few phrases; the bytes of operation
codes are not limited by it. The loops of the scanner look one character ahead:
five characters hold any two tokens with what may stand between them, and two
pieces of words spell each keyword, its prefixes and what it is a prefix of.
Three arrays are enough for one that holds itself, for two that hold each other, for
sharing, and for two circular ones that are alike without being the same; the list
of printed arrays is shorter than the arrays there are, so its limit is met. The C
stack is finite, but no code bounds what `value_equal` asks of it. It has room here
for three calls: of three arrays only circular ones exhaust it; of the five that
`Nest` makes, as `a = [a];` over and over does, the last two do, and are not
circular. In the machine three frames show a caller of a caller, and a recursion
that runs out of frames; the scripts of `MCRepl` cover each kind of refusal.
`CHECK_DEADLOCK FALSE` is set where the system may stop (a source scanned to its
end, a program that has exited, a C stack that ran out, undefined behaviour) or
where the bounds stop it (keys, phrases, sessions).

What the main properties say:

* `ProbeEnds`, `Reachable`, `UniqueKeys`, `LoadBounded`, `ShortcutSound`: why the
  table may probe without a bound, stop at an empty bucket, reuse the first
  tombstone, and answer without probing when `count` is 0. `ImplementsMap`: it is
  the map of GlobalTable. `SetReturns`: `hashtable_set` ends.
* `Deduplicated`: no two strings in use have the same characters, which is what
  comparing them by pointer needs. `StaysInterned`: none is lost in growth or
  reuse of buckets. `ImplementsPool`, `ImplementsTable`: the two refinements.
* `ImplementsLexemes`: the scanner against the longest lexemes, with their lines.
  `TypeOK` of Lexer says that it reads nothing past the NUL, `Scanned` that it
  comes to the end of every source, `AgreesWithScanner` that the table the
  compiler's sources are written with is the scanner's.
* `AcceptsPrograms`, `RefusesTheRest`, `KeepsPrecedence`, `NoCascade`: the parser
  against the grammar. `NoCascade`: one mistake is not reported over and over. There
  is at most one report more than there are tokens that look like the end or the
  beginning of a statement or could not be read, and functions: `def` counts because
  the parser reads the block of a function even where its `{` is missing, so that the
  source `} def b ( )` with `a` on the next line has three reports.
* `WellFormedCode`: slots and operands of compiled code. `LinesPointAtSource`: the
  line reported for an error, looked up from the last byte the machine has read,
  is the line on which stands what fails, and the listing leaves out no line that has
  code. The RETURN that ends a script, which cannot fail, has the line of the token EOF,
  where the source ends once blanks and comments are skipped. `ListingInStep`: the listing shows every instruction where it begins, with the
  right constant and jump target, and reads nothing outside the chunk.
* `EqualIsBisimilar`: an answer of `value_equal` is true exactly when there is a way
  of pairing the arrays in which nothing differs; sharing, circular arrays and the
  shortcut for the same object change nothing, but for native functions, which are
  equal to nothing. `OverflowsOnlyOnDeep`: the C stack runs out only when two
  arrays are compared that are nested, alike, deeper than it has room for calls and
  nowhere share the array at that place (`DeepTogether`); printing never exhausts it,
  and if it has room for as many calls as there are arrays, only circular ones do. `PrintsAllOnce`: printing reaches every array once, up
  to its limit. `WalksEnd`: every walk ends, if only with the C stack.
* `WindowsMatch`: in every state each call's window begins where its caller put
  the callee and ends at the height its code counts on.
  `CalleeInSlotZero`, `CallersUntouched`: a call never reaches below its window.
* `ErrorsDoNotEscape`: no error value below the top of the stack, in a global or
  in an array, though only the top is looked at.
* `StackFits`: if no function needs more than its share of the stack
  (`FitsWindows`), the unchecked `vm_push` stays inside it. `ValueSources` holds a
  program that needs more, and there the machine does leave its stack.
* `ConstantsKept`: a constant changes only in a step that ends in a reported
  error. `ComesBack`: without loops the prompt comes back after every line and a
  program given one source ends, since recursion runs out of frames. `ExitTells`:
  the exit status is 0 exactly when the one script ended well, which is what
  `spec.sh` takes it for; a session at the prompt always ends with 0.

Runs with a counterexample, each a disagreement between the code and its own
comments or messages: `MCFunctionName` (the name of a global function is cut to
one byte of constant index), `MCParameters` (255 parameters are allowed by the
message and refused by the locals), `MCReadOnly` (declaring a constant again
overwrites it before the error), `MCLastValue` (the REPL shows a stale slot, not
the last value pushed), `MCArguments` (`&&` for `||` in `push` and `pop`).
The first was also seen on the built program. Two more are in the models and need
no run of their own: `value_equal` reaches the case marked unreachable for two
native functions, so that an array of one equals itself and not its copy
(`EqualIsBisimilar` says what holds instead), and `type()` drops the error it
builds for a wrong number of arguments.

### Fairness

The program has one thread, so fairness only says that a call that was made goes
on. `Hashtable` assumes weak fairness of the steps inside `hashtable_set`.
`Lexer` assumes weak fairness of `Next`, the parser asking for tokens until the
end; `Arrays` of `Walk`, the steps inside a comparison or a print. `Repl` assumes
weak fairness of `Iterate`, an iteration of `vm_run`, stated on the frames because
every instruction moves an instruction pointer, and of `Main`, the steps of `main`
and of the prompt that wait for nobody. Nobody is obliged to call the table, to
make or compare arrays, to give the prompt a line or to leave it. `VM` alone
assumes the same of `Step`, for the runs with a counterexample.

## 4. What is proved

`HashtableProofs` proves of `Spec`, for every set of keys, every hash function,
every set of values with the two markers, every minimal size of at least 2 and
every bound:

| theorem | |
|---|---|
| `TypeCorrect` | `Spec => []TypeOK` |
| `ProbeEndsHolds` | `Spec => []ProbeEnds` |
| `ReachableHolds` | `Spec => []Reachable` |
| `UniqueKeysHolds` | `Spec => []UniqueKeys` |
| `LoadBoundedHolds` | `Spec => []LoadBounded` |

*Assumptions*: `HashAssumption`, `KeyAssumption`, `ValueAssumption`,
`SizeAssumption` and `MaxAssumption` of Hashtable. `MIN_SIZE >= 2` is needed: with
one bucket the load factor 3/4 would leave no empty one.

*Argument*. `ProbeEnds` is not inductive: that a bucket is empty follows from the
counter being exact and bounded by 3/4 of the capacity, and the counter is exact
only if a key is never inserted twice, which needs every probe path closed. The
inductive invariant `IInv` therefore joins, for the array in use and for the one
being filled, exactness of the counter, closed paths, unique keys, and in the
loop of `adjust_capacity` the bound "after `i` iterations at most `i` buckets are
used" together with the fact that the new size has room for all of the old one.
Lemmas about arrays alone carry the work: `BucketInjective` and `BucketOnto`
(the probe visits each bucket once), `FindEntry` (an empty bucket makes
`find_entry` return one), `WriteKeeps` (writing where it points keeps the paths
closed and keys unique) and `FewerKeysKeeps` (so does turning an entry into a
tombstone).

The same module proves, from the same assumptions:

| theorem | |
|---|---|
| `ShortcutSoundHolds` | `Spec => []ShortcutSound` |
| `ImplementsMapHolds` | `Spec => ImplementsMap` |

*Argument*. While the table grows, the map is read off the old array; at `Install`
the new one takes its place, and the step must change nothing. `MovedInv` says of
the loop that the entries it has passed are in the new array and nothing else is;
`CountedInv`, that `count` is never below the number of live keys, which
`hashtable_delete` leaves too high and nothing leaves too low. With unique keys and
closed paths, what `find_entry` returns is what the map binds, so each call maps to
a call of GlobalTable, and the rest to stuttering.

`StringSetProofs` proves of StringSet's `Spec`, for any objects, contents, hash
function and bounds:

| theorem | |
|---|---|
| `TypeCorrect` | `Spec => []TypeOK` |
| `ImplementsTableHolds` | `Spec => ImplementsTable` |
| `SearchEnds` | `Spec => []TableP!ProbeEnds` |
| `DeduplicatedHolds` | `Spec => []Deduplicated` |
| `StaysInternedHolds` | `Spec => []StaysInterned` |
| `ImplementsPoolHolds` | `Spec => ImplementsPool` |

*Assumptions*: `CharsAssumption`, `HashOfAssumption`, `NullAssumption`,
`MinSizeAssumption`, `BoundAssumption`. *Argument*. Nothing of the probing is
proved twice: every step is shown to be the same step of Hashtable under the
mapping, and the theorems of HashtableProofs are then used through `INSTANCE`. What is left is the search by characters, which Hashtable does
not have: two strings of the same characters have the same probe path, so closed
paths lead it to the string if there is one, and `PoolInv` (the strings in the set
differ in their characters) makes that the only one.

`LexerProofs` proves of Lexer's `Spec`, for every set of sources and any characters
(`SourcesAssumption`):

| theorem | |
|---|---|
| `StaysInSource` | `Spec => []TypeOK` |
| `ImplementsLexemesHolds` | `Spec => ImplementsLexemes` |

*Argument*. `IInv` says for each loop what the text from `start` to `current` is
(`InNumber`, `InString`, ...), that only blanks and comments lie behind the last
token, and that `line` counts the ends of lines before `current`. When a loop ends,
lemmas on texts show that what was read is a lexeme and that nothing longer is.
That `CheckKeyword` on the letters left finds exactly the keywords is proved word
by word.

`ArraysProofs` proves of Arrays' `Spec`, for any number of arrays and items, any
capacity, any limit of printed arrays and any C stack that the assumptions allow:

| theorem | |
|---|---|
| `TypeCorrect` | `Spec => []TypeOK` |
| `EqualIsBisimilarHolds` | `Spec => []EqualIsBisimilar` |
| `OverflowsOnlyOnDeepHolds` | `Spec => []OverflowsOnlyOnDeep` |
| `PrintsAllOnceHolds` | `Spec => []PrintsAllOnce` |

*Assumptions*: `ScalarsAssumption`, `CapacityAssumption`, `BoundsAssumption`, and
`DepthAssumption`: the C stack holds as many calls as the list of printed arrays has
places (20 in the code). The number of arrays, which the code does not bound, is not
compared with it.
*Argument*. A comparison that says "false" has found a difference that no pairing
of the arrays can avoid: every pairing that takes the first two for alike takes all
that are on the stack for it (`Followed`). One that says "true" has a pairing to
show: all pairs that were compared, those under comparison assumed alike until
they are done (`Settled`). When the stack is full its calls form, on either side, a way from
array to array that is one longer than the stack, at the same places and never with the
same array on both sides; a way longer than there are arrays meets one twice (`LongWay`). A print is complete
when no call is left, because what a tracked array holds is tracked but for what a
call has still to print (`Complete`); it never needs more calls than it tracks.

`VMProofs` proves of VM's `Spec`, for every well-formed program, every byte width,
number of frames, set of numbers and strings, and every bound:

| theorem | |
|---|---|
| `TypeCorrect` | `Spec => []TypeOK` |
| `WindowsMatchHolds` | `Spec => []WindowsMatch` |
| `ErrorsDoNotEscapeHolds` | `Spec => []ErrorsDoNotEscape` |
| `CallersUntouchedHolds` | `Spec => CallersUntouched` |
| `CalleeInSlotZeroHolds` | `Spec => []CalleeInSlotZero` |
| `StackFitsHolds` | `Spec => []StackFits` |
| `ConstantsKeptHolds` | `Spec => ConstantsKept` |

*Assumptions*: `ProgramAssumption` (`WellFormed(Program)`), `ByteAssumption`,
`FramesAssumption`, `SessionsAssumption`, `BoundsAssumption`,
`NumbersAssumption`, `StringsAssumption`. `WellFormed` asks for one height at each
offset that can be reached, agreeing along every path; that what the compiler
makes has such heights is proved in WellFormedProofs (`LoadedIsWellFormed`), so that
nothing is taken on trust between compiler and machine. Nothing is assumed about what natives answer beyond
`Stdlib`, nor about `Absent`.

*Argument*. None of `TypeOK`, `WindowsMatch` and `ErrorsDoNotEscape` is inductive
alone. An instruction pops what it needs only if the top of the stack is where
the code reckons (`WindowsMatch`); an operator gets values with a meaning only if
no error or dangling reference lies on the stack, in a global or in an array
(`Good`); and the next window matches only if the function that was called is one
of the program's, which is again a matter of values. `IInv` joins the three with
the types. `WindowsMatch` speaks of the top of the stack only while the script
runs: an instruction that pushes an error above its result, or more than its
share, is let off because the step ends the script. Lemmas about values alone
come first (`UnaryGood`, `BinaryGood`, `SubscriptSetGood`, `BuiltinFine`: whatever
values in use an operator or native is given, it gives one, an error or
undefined behaviour, and leaves a good heap), then two about a step (`Advances`
for the frames, `PopAndPushKeeps` for the stack), then one per instruction.

The last four sort the steps by what they do to the calls: `Stays`, `Enters`,
`Leaves` (`StepShape`). From that, `CallersUntouched` follows at once. The
strengthening `WInv` adds that windows are nested (`Nested`), and that window `n`
begins at most at `n * (UINT8_MAX - 1)` (`WithinShares`). `StackFits` needs two
frames: each call but the first shares its slot 0 with its caller, which leaves
the one slot a refused call or an unknown global needs for its error.

`CompilerProofs`, `ErrorProofs` and `WellFormedProofs` prove of Compilation's `Spec`, for every
sequence of tokens the scanner can give, every byte width, and any numbers and
strings:

| theorem | |
|---|---|
| `CompilationInvariant` | `Spec => []CompiledFromTokens` |
| `CompilationTypeOK` | `Spec => []TypeOK` |
| `NoCascadeHolds` | `Spec => []NoCascade` |
| `RefusesTheRestHolds` | `Spec => []RefusesTheRest` |
| `CompiledCodeIsWellFormed` | `Spec => []WellFormedCode` |
| `ListingInStepHolds` | `Spec => []ListingInStep` |
| `LoadedIsWellFormed` | `sources \in Seq(Seq(SourceToken)) /\ AllCompile(sources) => WellFormed(Loaded(sources))` |

*Assumptions*: `ByteAssumption`, `NumbersAssumption`, `StringsAssumption`.
`CompiledCodeIsWellFormed` and `LoadedIsWellFormed` speak of sources that compile and of
which `FunctionNamesFit` holds: `WellFormedCode` has these as premises, and TLC shows that
it fails without the second. `ListingInStepHolds` does not need it: a wrong name is still
a constant.

*Argument for termination* (CompilerProofs). `Fine` says what holds between two
steps of the parser: the token it looks at is the one the scanner is at, a parser
that panics has seen an error, and it was never short of calls. `Follows` says what
a step may do: tokens are only passed, errors stay, the scope and the functions
around are those that were. Each of the ten goals of `Parse` has a rank, the number
of calls that may be made before a token is passed (a block calls a declaration, that
calls an expression, that reads one); `Serves` says that `3 * Left(p) + Rank(goal)` is
less than the calls there are. `ReadingGoals` always pass a token if there is one,
which for a declaration needs `Synchronize`: it may stop at once, but only after
something was read. `ParseServes` is the induction over calls, and `CompileEnds` what
it means for a source.

*Argument for the reports* (ErrorProofs). A report is made only by a parser that is
not in panic, and panic ends only in `Synchronize`, which stops at a token where a
statement seems to begin or behind one where it seems to end. Reports are therefore
paid for: `Credit` counts the tokens up to the current one that pay, `Debt` the
reports, and one more that a parser not in panic may make at once. `Slack`, what is
left, must stay as it is in every step (`Pays`), or grow by what `Synchronize` has
found. The one rule that does not keep to it is the block: at the end of the source it
may lose one, which its `{`, or the `def` before it, has paid in advance (`PaysBlock`).
`CallPays` shows that a call pays if those it makes do, `ParseSpends` is the induction.

*Argument for the grammar* (ErrorProofs). A parser without an error has only called
rules that found what they looked for. `Spells` says that a stretch of tokens is a
phrase, whatever number of rounds of the grammar's rules beyond its length it is looked
for with, so that a phrase may be made of others of any lengths; each rule of the parser
has a lemma (`...Known`) that says which phrase it has read. The one place where method and grammar
differ is `parse_precedence`, a loop over operators by how they bind, where the grammar
only says what stands on the two sides of one. `Begins` says what may lie to the left of
the current token at a precedence, and what may not follow it, `Ends` what has been
read when the loop is left. `Says` puts this together for each goal, `CallParses` and
`ParseParses` are the induction over calls again. Nothing is skipped: only
`Synchronize` passes a token without looking at it, and that only after an error
(`FirstReadPlace`, `LastReadSays` for both ends of the source).

*Argument for the code* (WellFormedProofs). The heights of the stack are nowhere in
the parser, and those of `HeightsOf` are found by walking through finished code, so
neither can be followed through a source. Instead `Segment(c, a, b, h, k, exits)` says
that the code from `a` to `b` takes the stack from height `h` to height `k`, wherever a
jump inside it leads, but for jumps not patched yet, which leave through `exits`.
Segments join, survive what is written after them and the patching of jumps in
others (`SegmentStays`), and one with an exit closes when its jump is patched
(`JumpPatchedSegment`). Each rule then has a contract: an expression `Writes` from `h`
to `h + 1`; a statement leaves the height of the locals (`Settled`), though after the
code of a `return` nothing comes; a declaration `Declares`, that is, adds as many locals
as values; the heading of a function makes its parameters its locals (`Heads`). The
contracts hold only of a parser without an error (`Healthy`), since after one nothing
the parser writes is used; that it reports an error whenever an operand would not fit
is what makes them hold. `CallWrites` shows that one call keeps its contract if those
it makes do, and `ParseWrites` is the induction. At the end the code of a function
is one segment and a RETURN (`Closed`), its chart has the heights that `HeightsOf`
finds (`HeightsChart`), and constants that are functions are among those already
complete, so the program is `WellFormed`, and stays so when scripts are loaded after one
another (`JoinedAreValid`). An operand that names a global may be a constant that is no
name, but then the source breaks `FunctionNamesFit`; segments therefore carry the source
(`Misnamed`), and what is said of the listing needs no premise.

*Argument for the listing* (WellFormedProofs). The instructions of a chart, with their
operands, cover the code without gap or overlap (`Tiled`). `ListedAreTiles` is an
induction over what `chunk_dump` has printed: it stands at the beginning of an
instruction of the chart, and `instruction_dump` passes over it with the width that
`vm_run` gives it, or is at the end.

The library's induction theorems take an operator as a parameter and cannot be used;
`NatSetInduction`, which says the same of a set of numbers, is proved once from the
well-foundedness of the numbers. It also gives the recursive functions `Parse`, `Loads`
and `Rounds` their values (`ParseUnfolds`, `LoadsUnfold`, `RoundsUnfold`).

`VMProofs` also proves of Repl, from the same assumptions:

| theorem | |
|---|---|
| `RunsTheMachine` | `ReplSpec => Spec` |
| `SafeAtThePrompt` | `ReplSpec => [](TypeOK /\ WindowsMatch /\ CalleeInSlotZero /\ ErrorsDoNotEscape /\ StackFits)` |
| `ExitTellsHolds` | `ReplSpec => []ExitTells` |

*Argument*. The prompt and `main` only call `vm_interpret` when it is idle, so a
step of the program is a step of the machine or leaves it as it is, and what is
proved of the machine holds at the prompt. `ExitInv` follows the result from
`vm_interpret` through `main`'s variable to the status.

*Only model-checked*: that the parser accepts what the grammar has, and gives it the code
of its syntax tree (`AcceptsPrograms`, `KeepsPrecedence`); the lines of its code
(`LinesPointAtSource`); that Scanner's table agrees with Lexer
(`AgreesWithScanner`); and all liveness (`SetReturns`, `ComesBack`, `WalksEnd`,
`Scanned`): liveness under fairness and ENABLED are beyond the prover. `ExpressionCode` has
RECURSIVE operators, with which the prover cannot work; the table is
spelt out character by character, which is TLC's kind of work.

## 5. What is not modelled

* The text of messages, of stack traces and of what is printed; `print_line` and
  the checked allocations of `utils.c`, which exit on failure.
* `hashtable_copy`, which has no caller; `hashtable_print`, `stringset_print` and
  `print_token`; `vm_free` and the freeing of objects, which happens once, when
  the program ends.
* Floating point: numbers are integers, results of arithmetic any of a set.
* The characters of strings after the scanner: contents are model values, and the
  hash of a string is any function of its contents.
* The machine does not step through `value_equal` and `value_print`: in VM a
  comparison of arrays gives either answer at once. Arrays says what the answer
  is and that the program waits for it.
* Which source a line of a stack trace is printed from: `vm.source` is that of the
  current line of the prompt, also for functions compiled from an earlier one.

## 6. What could follow

Everything the program does to its own state is in a module. What is left is to
prove rather than to model: that lines point at the
source, for which segments would have to say where each instruction comes from; that the parser
accepts what the grammar has, for which the limits of a byte must be brought into the
grammar. `FitsWindows`, the premise of `StackFits`, is something
the compiler does not enforce, so it stays a premise.
