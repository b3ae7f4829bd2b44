----------------------------- MODULE MCPythonHelper -----------------------------
(* Model checking of PythonHelper: the constants are in PythonHelper.cfg. *)
EXTENDS PythonHelper

\* A pair of calls leaves something of every object, another redirection does
\* not; which object ends then depends on the calls and on the helpers.
FewRefs ==
  [o \in Objects |-> CASE o = "True" -> 4 [] o = "sys" -> 2 [] o = "ERROR" -> 2 [] o = "False" -> 2]
===============================================================================
