-------------------------------- MODULE Repl --------------------------------
(***************************************************************************)
(* The program around the machine: main (src/src/main.c), which runs one   *)
(* source and exits, or repl (src/src/repl.c), which reads lines, runs each*)
(* of them on the machine the last one left, and shows its value.          *)
(*                                                                         *)
(* The lines "strings" and "globals" only print and are stuttering steps.  *)
(***************************************************************************)
EXTENDS VM

VARIABLES
    arguments,  \* the command line: "none", "source" of one script (a file or -c),
                \* a "file" that cannot be read, or anything "else"
    mode,       \* "start", at the prompt "reading" or "interpreting", "once",
                \* "leaving" main, "ended"
    shown,      \* what the prompt shows of the last line: <<>> or one value
    verdict,    \* main's variable result
    status      \* the exit status, or -1 before it

main_vars == <<arguments, mode, shown, verdict, status>>
repl_vars == <<vars, main_vars>>

\* vm_init
ReplInit ==
    /\ Init
    /\ arguments \in {"none", "source", "file", "else"}
    /\ mode = "start"
    /\ shown = <<>>
    /\ verdict = "OK"
    /\ status = -1

\* vm_interpret is called, and compiles the source or not.
Given == (\E script \in Scripts : Interpret(script)) \/ CompileError

Turn(from, to) == mode = from /\ mode' = to /\ UNCHANGED arguments
-----------------------------------------------------------------------------
(* main *)

StartPrompt ==
    /\ arguments = "none" /\ Turn("start", "reading")
    /\ UNCHANGED <<vars, shown, verdict, status>>

RunSource ==
    /\ arguments = "source" /\ Turn("start", "once")
    /\ Given
    /\ UNCHANGED <<shown, verdict, status>>

\* read_file exits the program.
CannotRead ==
    /\ arguments = "file" /\ Turn("start", "ended")
    /\ status' = 1
    /\ UNCHANGED <<vars, shown, verdict>>

\* The version, the usage, or that the source after -c is missing.
OnlyPrint ==
    /\ arguments = "else" /\ Turn("start", "leaving")
    /\ UNCHANGED <<vars, shown, verdict, status>>

\* Mutant: what vm_interpret returned is lost.
RunForgotten ==
    /\ Turn("once", "leaving") /\ pc = "idle"
    /\ UNCHANGED <<vars, shown, verdict, status>>

\* vm_interpret has returned to main.
HasRun ==
    /\ Turn("once", "leaving") /\ pc = "idle"
    /\ verdict' = result
    /\ UNCHANGED <<vars, shown, status>>

\* vm_free; nothing looks at the machine after it.
Leave ==
    /\ Turn("leaving", "ended")
    /\ status' = IF verdict = "OK" THEN 0 ELSE 1
    /\ UNCHANGED <<vars, shown, verdict>>
-----------------------------------------------------------------------------
(* repl *)

ReadLine ==
    /\ Turn("reading", "interpreting")
    /\ Given
    /\ shown' = <<>>
    /\ UNCHANGED <<verdict, status>>

LastValue == stack[stack_top]

\* vm_interpret has returned to the prompt.
Show ==
    /\ Turn("interpreting", "reading") /\ pc = "idle"
    /\ shown' = IF result = "OK" /\ LastValue.type # "NULL" THEN <<LastValue>> ELSE <<>>
    /\ UNCHANGED <<vars, verdict, status>>

\* The line "exit", or no more input.
Exit ==
    /\ Turn("reading", "leaving")
    /\ shown' = <<>>
    /\ UNCHANGED <<vars, verdict, status>>
-----------------------------------------------------------------------------
Iterate == Step /\ UNCHANGED main_vars

Main == StartPrompt \/ CannotRead \/ OnlyPrint \/ HasRun \/ Leave \/ Show

ReplNext == Main \/ RunSource \/ ReadLine \/ Exit \/ Iterate

ReplSpec == ReplInit /\ [][ReplNext]_repl_vars

\* The program is one thread: what it does next it does; but nobody has to give
\* it a line, or to leave.
ReplFairSpec == ReplSpec /\ WF_frame_vars(Iterate) /\ WF_repl_vars(Main)
-----------------------------------------------------------------------------
(* Properties. *)

\* spec.sh takes the exit status for the verdict on a test: it is 0 if and only
\* if the script compiled and no instruction of it, however deep in calls, left
\* an error.  A session at the prompt ends with 0 whatever went wrong in it.
ExitTells ==
    mode = "ended" =>
        (status = 0 <=> arguments # "file" /\ (arguments = "source" => result = "OK"))

\* Scripts without loops: whatever a script does, and whatever those before it
\* left, the prompt comes back after it, and a program that was given one source
\* ends.  Calls that never return run out of frames.
ComesBack == mode \in {"interpreting", "once"} ~> mode \in {"reading", "ended"}
=============================================================================
