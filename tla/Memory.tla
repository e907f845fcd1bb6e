------------------------------- MODULE Memory -------------------------------
(***************************************************************************)
(* What words of memory hold that are no value of the program's: NULL, and *)
(* what is found in memory that was never written or is out of use.        *)
(***************************************************************************)
CONSTANTS
    NULL,
    Junk    \* anything
=============================================================================
