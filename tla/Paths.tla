------------------------------- MODULE Paths -------------------------------
(***************************************************************************)
(* The path arithmetic of filesystem.cpp, in its Unix branch.              *)
(*                                                                         *)
(* A path is the sequence of its parts between slashes: "/a" is <<"","a">>,*)
(* "/" is <<"","">>, "a" is <<"a">> and the empty string is <<"">>.  The   *)
(* string x + "/" + y is then the concatenation of the two sequences.      *)
(***************************************************************************)
EXTENDS Integers, Sequences, FiniteSets, SequencesExt

Root == <<"", "">>

IsAbsolute(path) == Len(path) > 1 /\ path[1] = ""

-----------------------------------------------------------------------------
(***************************************************************************)
(* cleanPath: one part of the path after the other is pushed onto the      *)
(* stack of components.                                                    *)
(***************************************************************************)
\* Faulty variant: ".." is pushed when the stack is empty, absolute or not.
PushDotDot(absolute, components, part) ==
  CASE part \in {"", "."} -> components
    [] part = ".." -> IF components # <<>> /\ Last(components) # ".."
                      THEN Front(components)
                      ELSE Append(components, "..")
    [] OTHER -> Append(components, part)

\* Faulty variant: a ".." that could not be resolved is removed by the next.
PushPopDotDot(absolute, components, part) ==
  CASE part \in {"", "."} -> components
    [] part = ".." /\ components # <<>> -> Front(components)
    [] part = ".." /\ components = <<>> -> IF absolute THEN <<>> ELSE <<"..">>
    [] OTHER -> Append(components, part)

Push(absolute, components, part) ==
  CASE part \in {"", "."} -> components
    [] part = ".." /\ absolute -> IF components # <<>>
                                  THEN Front(components)
                                  ELSE <<>>
    [] part = ".." /\ ~absolute -> IF components # <<>> /\ Last(components) # ".."
                                   THEN Front(components)
                                   ELSE Append(components, "..")
    [] OTHER -> Append(components, part)

\* The stack after each number of parts.
Stacks(absolute, path) ==
  LET stack[n \in 0 .. Len(path)] ==
        IF n = 0 THEN <<>> ELSE Push(absolute, stack[n - 1], path[n])
  IN stack

Components(path) == Stacks(IsAbsolute(path), path)[Len(path)]

\* The components joined again.
Joined(absolute, components) ==
  CASE absolute  -> <<"">> \o (IF components = <<>> THEN <<"">> ELSE components)
    [] ~absolute -> IF components = <<>> THEN <<".">> ELSE components

cleanPath(path) == Joined(IsAbsolute(path), Components(path))

(***************************************************************************)
(* A path the client gives, in its working directory, and the place it     *)
(* stands for below the user's root.                                       *)
(***************************************************************************)
\* Faulty variant: an absolute path is taken as it is.
toAbsoluteTrusting(working_directory, path) ==
  IF IsAbsolute(path) THEN path ELSE cleanPath(working_directory \o path)

toAbsoluteFtpPath(working_directory, path) ==
  cleanPath(IF IsAbsolute(path) THEN path ELSE working_directory \o path)

toLocalPath(local_root_path, working_directory, path) ==
  cleanPath(local_root_path \o toAbsoluteFtpPath(working_directory, path))

-----------------------------------------------------------------------------
(***************************************************************************)
(* What a clean path should be, without a stack: as a bracket closes a     *)
(* bracket, a ".." takes back the name from which on the path has been     *)
(* deeper than it is behind the "..".  What is left are the names that are *)
(* not taken back and, in a relative path, the ".." that take nothing      *)
(* back, in the order in which they are in the path.                       *)
(***************************************************************************)
IsName(part) == part \notin {"", ".", ".."}

\* How deep the first n parts lead: negative above where the path begins.
Depth(path, n) == Cardinality({m \in 1 .. n : IsName(path[m])})
                    - Cardinality({m \in 1 .. n : path[m] = ".."})

TakesBack(path, i, j) ==
  /\ i < j /\ IsName(path[i]) /\ path[j] = ".."
  /\ Depth(path, j) = Depth(path, i - 1)
  /\ \A n \in i .. j - 1 : Depth(path, n) > Depth(path, j)

Remains(path, n) ==
  \/ /\ IsName(path[n])
     /\ \A j \in DOMAIN path : ~TakesBack(path, n, j)
  \/ /\ path[n] = ".." /\ ~IsAbsolute(path)
     /\ \A i \in DOMAIN path : ~TakesBack(path, i, n)

ReferencePath(path) ==
  LET left   == {n \in DOMAIN path : Remains(path, n)}
      nth[k \in 1 .. Cardinality(left)] ==
        CHOOSE n \in left : Cardinality({m \in left : m <= n}) = k
  IN Joined(IsAbsolute(path), [k \in DOMAIN nth |-> path[nth[k]]])
=============================================================================
