----------------------------- MODULE MCZcStream -----------------------------
(***************************************************************************)
(* Instances of ZcStream for TLC.  The values that a .cfg cannot write are *)
(* defined here.                                                           *)
(***************************************************************************)
EXTENDS ZcStreamInv

NoLimit == -1
=============================================================================
