---------------------------- MODULE MCBuildCommand ----------------------------
(* A disk of a few bytes, and limits within it and beyond it. *)
EXTENDS BuildCommand

\* A quarter of a byte rounds to none, 10 quarters to three bytes; 36 allow
\* what twice is more than MaxBytes.
FlagValues == {None, -4, 1, 10, 36}
EnvValues == {None, Garbage, 0, 1}
SomeSizes == {1, 2, 3, 9}
===============================================================================
