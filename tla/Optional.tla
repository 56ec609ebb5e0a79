------------------------------ MODULE Optional ------------------------------
(* The absent value of the component modules: Python's None.                 *)
CONSTANT None

Maybe(S) == S \cup {None}
=============================================================================
