-------------------------- MODULE MCContextCompaction --------------------------
(* Two texts of any length below and above the limit of one text.          *)
EXTENDS ContextCompaction

CONSTANTS k1, k2

ShortTexts == 0..140
===============================================================================
