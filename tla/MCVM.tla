-------------------------------- MODULE MCVM --------------------------------
(***************************************************************************)
(* The compiler and the machine together: scripts are given as source, the *)
(* program is what Compiler makes of them, and the machine may run them in *)
(* any order, as many as MaxSessions, without the prompt that MCRepl adds. *)
(***************************************************************************)
EXTENDS VM, Scanner, Loading

CONSTANTS
    Sources,         \* a sequence of sources
    LoadedSources    \* what they compile to; a constant, so that TLC compiles once

CompiledSources == Loaded(Sources)
MCProgram == CompiledSources

ASSUME LoadedAssumption == LoadedSources = CompiledSources
ASSUME SourcesAssumption == AllCompile(Sources)

MCIdentifiers == << "a", "b", "f", "r", "x" >>
MCStrings == DOMAIN Names
-----------------------------------------------------------------------------
\* Globals and constants, functions with parameters and locals, branches,
\* recursion, calls that are refused, and a script that is empty.
CallSources ==
    << Scan(<< "let", "x", "=", "1", ";" >>),
       Scan(<< "const", "x", "=", "2", ";" >>),
       Scan(<< "x", "=", "x", "-", "1", ";" >>),
       Scan(<< "def", "f", "(", "a", ")", "{",
                   "if", "(", "a", ")", "{", "let", "b", "=", "!", "x", ";",
                                             "a", "=", "b", ";", "return", "a", ";", "}",
                   "return", "f", "(", "2", ")", "&&", "x", ";", "}" >>),
       Scan(<< "f", "(", "x", ")", ";" >>),
       Scan(<< "f", "(", ")", ";" >>),
       Scan(<< "{", "let", "a", "=", "0", ";", "let", "b", "=", "f", ";",
                   "a", "=", "x", "==", "b", "(", "a", ")", ";", "}" >>),
       Scan(<< "def", "r", "(", ")", "{", "return", "r", "(", ")", "-", "1", ";", "}",
               "r", "(", ")", ";" >>),
       Scan(<< "def", "b", "(", ")", "{", "return", "b", ";", "}", "b", "(", ")", ";" >>),
       <<>> >>

\* Arrays of seven items, the last one being such an array in its turn.
RECURSIVE Nested(_)
Nested(n) ==
    IF n = 0 THEN << "0" >>
    ELSE << "[", "0", ",", "0", ",", "0", ",", "0", ",", "0", ",", "0", "," >>
         \o Nested(n - 1) \o << "]" >>

\* Arrays that are shared and circular, indices at and past both ends, every
\* native function, arguments natives do not expect, loops, all the operators,
\* and an expression that needs more of the stack than there is.
ValueSources ==
    << Scan(<< "let", "x", "=", "[", "1", ",", "true", "]", ";" >>),
       Scan(<< "x", "[", "0", "]", "=", "x", "[", "-", "2", "]", "=", "x", ";" >>),
       Scan(<< "x", "[", "2", "]", "=", "x", "[", "x", "[", "0", "]", "]", ";" >>),
       Scan(<< "push", "(", "x", ",", "[", "x", "]", ")", ";" >>),
       Scan(<< "while", "(", "len", "(", "x", ")", "!=", "0", ")", "pop", "(", "x", ")", ";" >>),
       Scan(<< "push", "(", "pop", "(", "x", ")", ",", "null", ")", ";" >>),
       Scan(<< "def", "f", "(", "a", ")", "{", "a", "[", "1", "]", "=", "f", ";",
                                               "x", "=", "a", "=", "a", "==", "x", ";",
                                               "return", "a", ";", "}" >>),
       Scan(<< "f", "(", ")", ";" >>),
       Scan(<< "assert", "(", "f", "(", "x", ")", "||", "len", "==", "len", ")", ";" >>),
       Scan(<< "type", "(", ")", "+", "str", "(", "+", "1", ")", ">=", "getenv", "(" >>)
       \o Quoted("x") \o Scan(<< ")", ";" >>),
       Scan(<< "let", "b", "=", "ls", "(", "input", "(", ")", ")", ";" >>),
       Scan(<< "print", "(", "cd", "(", "b", ")", ",", "int", "(", "clock", "(", ")", ",", "2", ")",
               ")", ";" >>),
       Scan(<< "2", "*", "str", "(", "x", ")", "/", "x", "[", "0", "]", ";" >>),
       Scan(<< "int", "(", "1", "<", "2", ")", "%", "(", "1", "-", "1", ")", "<=", "1", ";" >>),
       Scan(Nested(3) \o << ";" >>) >>

\* The last value pushed is not the lowest one.
BlockSources ==
    << Scan(<< "1", ";" >>),
       Scan(<< "{", "let", "a", "=", "1", ";", "let", "b", "=", "2", ";", "}" >>) >>
=============================================================================
