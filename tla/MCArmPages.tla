------------------------------ MODULE MCArmPages ------------------------------
(* An instance of ArmPages for TLC: three pages on the management host, one  *)
(* link outside it, and a ceiling below or above the number of pages.        *)
EXTENDS ArmPages
=============================================================================
