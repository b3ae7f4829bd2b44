------------------------------ MODULE PythonHelper ------------------------------
(****************************************************************************)
(* ide/pythonhelper.cpp with ide/pythonembed.c: the commands the IDE gives  *)
(* the one embedded interpreter, what of an error is left when a command    *)
(* returns, and the two functions of module lmice that change sys.stdout    *)
(* and sys.stderr.  What a program does to windows is in WindowCalls.       *)
(*                                                                          *)
(* Everything runs in the thread of the user interface, so commands do not  *)
(* overlap; a command is taken statement by statement.  stdout stands for   *)
(* both streams, which are only ever changed together.  m_retobj is left    *)
(* out: nothing reads the object; what callModel leaves there is given up   *)
(* at once, where the code gives it up with the next command.               *)
(****************************************************************************)
EXTENDS WindowCalls

\* What is lost by those who give away references that are not theirs: module
\* sys, the integer LMICE_TRACE_ERROR, and the two truth values.
Objects == {"sys", "ERROR", "True", "False"}

CONSTANTS
  Refs           (* object -> references others have to it before the first  *)
                 (* helper is made                                           *)

ASSUME RefsAssumption == Refs \in [Objects -> Nat \ {0}]

VARIABLES
  running,       (* "no", or the command that runs: "exec", also for eval,   *)
                 (* "first" and "second" for the two runs of interpreter     *)
  unchecked,     (* whether the last command, which is over, was interpreter,*)
                 (* which leaves its error pending                           *)
  stdout,        (* sys.stdout: "orig", "redirect" or "user", a stream a     *)
                 (* program put there                                        *)
  saved,         (* g_py_stdout: {} for NULL, or {s}                         *)
  meddled,       (* history: a program assigned sys.stdout                   *)
  helpers,       (* helpers made; the dictionary of each refers to sys       *)
  refs           (* object -> references left                                *)

streams == <<stdout, saved, meddled, refs>>
windows == <<registry, proxies, helpers>>
vars == <<windows, err, defined, running, unchecked, streams>>

\* main has made its helper.
Init ==
  /\ WindowInit
  /\ running = "no"
  /\ unchecked = FALSE
  /\ stdout = "orig"
  /\ saved = {}
  /\ meddled = FALSE
  /\ helpers = 1
  /\ refs = [Refs EXCEPT !["sys"] = @ + 1]

Idle == defined /\ running = "no"

\* Defect for mutation: the error stays.
LeftPending == err' \in {err, TRUE}

\* checkError after a command that may have raised an error: none is left.
CheckError == err' = FALSE

-------------------------------------------------------------------------------
(* ioredirect and ioreset *)

\* References are given away that are not owned: the last one takes the object
\* away under those who still use it.
Lose(lost) ==
  /\ refs' = [o \in Objects |-> refs[o] - (IF o \in lost THEN 1 ELSE 0)]
  /\ defined' = \A o \in Objects : refs'[o] > 0

\* Defect for mutation: a second call saves the stream again.
SavesAgain ==
  /\ saved' = {stdout}
  /\ stdout' = "redirect"
  /\ Lose({"True", "sys", "ERROR"})
  /\ UNCHANGED meddled

\* stdio_redirect; a second call does nothing but return True.
Redirect ==
  /\ \/ /\ saved = {}
        /\ saved' = {stdout}
        /\ stdout' = "redirect"
        /\ Lose({"True", "sys", "ERROR"})
     \/ /\ saved # {}
        /\ Lose({"True"})
        /\ UNCHANGED <<saved, stdout>>
  /\ UNCHANGED meddled

\* Defect for mutation: sys is given away whether or not there is a stream.
ResetLosesAlways ==
  /\ stdout' \in IF saved = {} THEN {stdout} ELSE saved
  /\ saved' = {}
  /\ Lose({"True", "sys"})
  /\ UNCHANGED meddled

\* stdio_reset.
Reset ==
  /\ \/ /\ saved # {}
        /\ stdout' \in saved
        /\ saved' = {}
        /\ Lose({"True", "sys"})
     \/ /\ saved = {}
        /\ Lose({"True"})
        /\ UNCHANGED <<saved, stdout>>
  /\ UNCHANGED meddled

\* load of a ChinaL1Source (module ChinaL1Source) returns one of the two without
\* owning it either, and False with an error pending if its argument is no text.
LoadReturns ==
  /\ \/ \E answer \in {"True", "False"} : Lose({answer}) /\ UNCHANGED err
     \/ Lose({"False"}) /\ err' = TRUE
  /\ UNCHANGED <<stdout, saved, meddled>>

-------------------------------------------------------------------------------
(* Commands *)

\* exec, eval or interpreter is called with a text that compiles.
Begin(command) ==
  /\ Idle
  /\ running' = command
  /\ unchecked' = FALSE
  /\ UNCHANGED <<windows, err, defined, streams>>

\* With one that does not: only an error comes of it.
DoesNotCompile ==
  /\ Idle
  /\ CheckError
  /\ unchecked' = FALSE
  /\ UNCHANGED <<windows, defined, running, streams>>

\* interpreter compiles the text as one statement and, if that worked, runs it a
\* first time; otherwise the error stays and only the second run takes place.
InterpreterOnce ==
  /\ Idle
  /\ err' = TRUE
  /\ running' = "second"
  /\ unchecked' = FALSE
  /\ UNCHANGED <<windows, defined, streams>>

\* A statement about windows.
Windowing ==
  /\ defined /\ running # "no"
  /\ Statement
  /\ UNCHANGED <<running, unchecked, helpers, streams>>

\* A statement that changes the streams, or loads a capture.
Streaming ==
  /\ defined /\ running # "no"
  /\ \/ (Redirect \/ Reset) /\ UNCHANGED err
     \/ LoadReturns
     \/ /\ stdout' = "user"
        /\ meddled' = TRUE
        /\ UNCHANGED <<saved, refs, defined, err>>
  /\ UNCHANGED <<windows, running, unchecked>>

\* A pending error is found and handled by the program.
Swallow ==
  /\ defined /\ running # "no" /\ err
  /\ err' = FALSE
  /\ UNCHANGED <<windows, defined, running, unchecked, streams>>

\* exec or eval comes back: with a result, with an error of its own, or with
\* both, for a window call that failed does not stop the program.
End ==
  /\ defined /\ running = "exec"
  /\ CheckError
  /\ running' = "no"
  /\ unchecked' = FALSE
  /\ UNCHANGED <<windows, defined, streams>>

\* The first run of interpreter ends, with or without an error.
EndFirst ==
  /\ defined /\ running = "first"
  /\ err' \in {err, TRUE}
  /\ running' = "second"
  /\ UNCHANGED <<windows, defined, unchecked, streams>>

\* The second ends, and nobody looks at the error.
EndSecond ==
  /\ defined /\ running = "second"
  /\ err' \in {err, TRUE}
  /\ running' = "no"
  /\ unchecked' = TRUE
  /\ UNCHANGED <<windows, defined, streams>>

\* callModel of a function of lmice, or of one that is not there.
CallModel ==
  /\ Idle
  /\ Redirect \/ Reset \/ UNCHANGED <<defined, streams>>
  /\ CheckError
  /\ unchecked' = FALSE
  /\ UNCHANGED <<windows, running>>

-------------------------------------------------------------------------------
(* Windows *)

\* The menu opens a chart or the logging output.  The constructor of the helper
\* refers to sys again and gives its first command.
NewWindow(a) ==
  /\ Idle
  /\ OpenWindow(a)
  /\ CheckError
  /\ unchecked' = FALSE
  /\ helpers' = helpers + 1
  /\ refs' = [refs EXCEPT !["sys"] = @ + 1]
  /\ UNCHANGED <<defined, running, stdout, saved, meddled>>

\* "Remove candle" of a chart.
RemoveWindow(a) ==
  /\ Idle
  /\ CloseWindow(a)
  /\ UNCHANGED <<err, defined, running, unchecked, helpers, streams>>

Next ==
  \/ \E command \in {"exec", "first"} : Begin(command)
  \/ DoesNotCompile
  \/ InterpreterOnce
  \/ Windowing
  \/ Streaming
  \/ Swallow
  \/ End
  \/ EndFirst
  \/ EndSecond
  \/ CallModel
  \/ \E a \in Addrs : NewWindow(a) \/ RemoveWindow(a)

Spec == Init /\ [][Next]_vars

-------------------------------------------------------------------------------
(* Properties *)

\* Types.
TypeOK ==
  /\ open \subseteq Addrs
  /\ funcs \in [Numbers -> Nat]
  /\ proxies \in Seq([win : Numbers, slot : Methods \cup {NoName}])
  /\ err \in BOOLEAN /\ defined \in BOOLEAN
  /\ unchecked \in BOOLEAN /\ meddled \in BOOLEAN
  /\ running \in {"no", "exec", "first", "second"}
  /\ stdout \in {"orig", "redirect", "user"}
  /\ saved \subseteq {"orig", "redirect", "user"}
  /\ helpers \in Nat
  /\ refs \in [Objects -> Nat]

\* An error a program ran into, also one of a window call that did not stop it,
\* is reported by the command it belongs to: between two commands none is
\* pending that a later command of another window would report as its own.
\* Only interpreter leaves one.
ErrorsReported == running = "no" /\ err => unchecked

\* However often a program or the IDE redirects and resets, sys.stdout is the
\* redirected one exactly while the original is saved, and the original comes
\* back; unless a program assigned the stream itself.
RedirectRestores ==
  ~meddled => /\ stdout = IF saved = {} THEN "orig" ELSE "redirect"
              /\ saved \subseteq {"orig"}

\* What has been given away of an object.
Owed(o) == Refs[o] + IF o = "sys" THEN helpers ELSE 0
Lost(o) == Owed(o) - refs[o]

\* What redirecting costs, whoever asks for it and in whatever order: a pair of
\* ioredirect and ioreset takes two references from sys and one from the
\* integer LMICE_TRACE_ERROR, a call that finds nothing to do takes none from
\* either, and sys never pays more often than True.
LossesMatch ==
  /\ 2 * Lost("ERROR") = Lost("sys") + IF saved = {} THEN 0 ELSE 1
  /\ Lost("sys") <= Lost("True")
===============================================================================
