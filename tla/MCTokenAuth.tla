---------------------------- MODULE MCTokenAuth ----------------------------
(* TokenAuth on small instances. *)
EXTENDS TokenAuth, TLC

\* The defaults, and one explicit scope that only the role "user" may ask for.
MCScopeRequests == {{}, {<<"workspace", "read">>}}

DefaultsOnly == {{}}

SubjectSymmetry == Permutations(Subjects)
=============================================================================
