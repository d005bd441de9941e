---------------------------- MODULE MCUserSession ----------------------------
(* Instance of UserSession for TLC. *)
EXTENDS UserSession

CONSTANTS MaxParts     \* bound: parts of a path the client gives

Parts == {"a", "b", "..", ".", ""}

AllParams == UNION {[1 .. n -> Parts] : n \in 1 .. MaxParts}

Renames == {<<"">>, <<"a">>}

\* Three roots: one with a part to clean, one that is relative, and the empty
\* string.
UserAccounts ==
  {[password_ |-> "p", local_root_path_ |-> <<"", "srv", ".", "a">>,
    permissions_ |-> {"DirList", "FileRename"}],
   [password_ |-> "q", local_root_path_ |-> <<"..", "b">>,
    permissions_ |-> {"DirList", "DirRename"}],
   [password_ |-> "p", local_root_path_ |-> <<"">>,
    permissions_ |-> {"DirList"}]}
=============================================================================
