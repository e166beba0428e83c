--------------------------- MODULE MCSystemCalls ---------------------------
(***************************************************************************)
(* TLC instance of SystemCalls.                                            *)
(***************************************************************************)
EXTENDS SystemCalls

CONSTANTS f1, f2

Request(fn, file, exists, ends) == [fn |-> fn, outputfile |-> file, exists |-> exists, ends |-> ends]

(* Commands that exit with 0 and with something else, that are killed and  *)
(* that do not exist, and two output files.                                *)
MCRequests ==
  {Request("do_system", f1, TRUE, "nonzero"),
   Request("do_exec", f1, TRUE, "zero"),
   Request("do_exec", f1, FALSE, "zero"),
   Request("do_exec_redirect", f1, TRUE, "zero"),
   Request("do_exec_redirect", f2, TRUE, "killed")}
=============================================================================
