------------------------------- MODULE Loading -------------------------------
(***************************************************************************)
(* The functions the machine meets: those of the scripts vm_interpret is   *)
(* given, each compiled when the ones before it have been.  They are kept  *)
(* with the heights of the stack, which the program does not compute.      *)
(***************************************************************************)
EXTENDS Compiler, Heights

\* These end with their last token, as what is typed at the prompt does.  The
\* machine asks for no line.
LastLine(source) == IF source = <<>> THEN 1 ELSE source[Len(source)].line

\* After n sources.
Loads(sources) ==
    LET upto[n \in 0 .. Len(sources)] ==
            IF n = 0 THEN <<>>
            ELSE LET before == upto[n - 1]
                 IN  before \o Compile(sources[n], LastLine(sources[n]), Len(before)).functions
    IN  upto

Loaded(sources) == Annotated(Loads(sources)[Len(sources)])

\* function_declaration keeps the index of a name on one byte, and takes that of
\* another constant if the script has too many before it.
NamesFunction(source, v) ==
    \E k \in DOMAIN source \ {1} :
        source[k - 1].type = "DEF" /\ source[k].type = "IDENTIFIER" /\ v = String(source[k].text)
FunctionNamesFit(source, script) ==
    \A i \in DOMAIN script.constants : NamesFunction(source, script.constants[i]) => i <= ByteSize

\* The source compiles, and declares no function too late.
Compiles(source, base) ==
    LET translation == Compile(source, LastLine(source), base)
    IN  translation.ok /\ FunctionNamesFit(source, translation.functions[Len(translation.functions)])

AllCompile(sources) ==
    \A n \in DOMAIN sources : Compiles(sources[n], Len(Loads(sources)[n - 1]))
=============================================================================
