--------------------------- MODULE MCServiceLogging ---------------------------
(* Small instances of ServiceLogging: the configurations choose which         *)
(* processes log and which print.                                             *)
EXTENDS ServiceLogging
===============================================================================
