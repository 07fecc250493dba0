------------------------------ MODULE MCDocuments ------------------------------
(***************************************************************************)
(* A folder of two notes that link to each other or to one another, a note *)
(* outside it, two clients, renames there and back.                        *)
(***************************************************************************)
EXTENDS Documents, TLC

CONSTANTS a, b, x, y, t1, t2, c1, c2

MCFolder == a :> x @@ b :> y
MCRenames == {<<a, x>>, <<x, a>>, <<b, y>>}
Note(t, to) == [text |-> t, to |-> to]
MCSaved == {Note(t2, a)}
MCFirstDisk ==
  {a :> Note(t1, None) @@ b :> Note(t1, a) @@ x :> Absent @@ y :> Absent,
   a :> Note(t1, a) @@ b :> Absent @@ x :> Absent @@ y :> Absent}

ClientSymmetry == Permutations(Client)

=============================================================================
