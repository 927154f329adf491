------------------------------ MODULE Handlers ------------------------------
(***************************************************************************)
(* What the components have in common: requests are handled concurrently,  *)
(* and between two statements a request holds what it has read.            *)
(***************************************************************************)
CONSTANTS Workers,   \* concurrent request handlers
          None       \* no row: no part, no line, no time, ...

VARIABLE req         \* what each worker's request has read and where it stands
=============================================================================
