------------------------------- MODULE MCLoader -------------------------------
(* Model-checking instances of Loader.                                     *)
EXTENDS Loader
===============================================================================
