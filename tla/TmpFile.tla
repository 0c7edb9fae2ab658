------------------------------ MODULE TmpFile ------------------------------
(***************************************************************************)
(* A file replaced by way of one temporary file: every writer empties or   *)
(* makes the same <file>.tmp, dumps its document there and renames it over *)
(* the file.  Nothing keeps two processes from doing so together, and a    *)
(* descriptor follows the file it opened through a rename.  omr_metrics.py *)
(* writes its metrics, its model and the configuration this way.           *)
(***************************************************************************)

CONSTANTS
    Writers,
    None,   \* no temporary file
    Torn    \* what is in a file when it is not one whole document

\* file and tmp: what the two paths hold; fd[w]: where the descriptor that w
\* writes through leads, "gone" when its file has been renamed over.
Paths(docs) ==
    [file : docs \cup {Torn}, tmp : docs \cup {None, Torn},
     fd : [Writers -> {"closed", "tmp", "file", "gone"}]]

Holding(d) == [file |-> d, tmp |-> None, fd |-> [w \in Writers |-> "closed"]]

Closed(s, W) == [s EXCEPT !.fd = [w \in Writers |-> IF w \in W THEN "closed" ELSE s.fd[w]]]

\* open(tmp, 'w')
Opened(s, w) == [s EXCEPT !.tmp = Torn, !.fd[w] = "tmp"]

\* open(file, 'w'), by a writer that does not use the temporary file.
OpenedInPlace(s, w) == [s EXCEPT !.file = Torn, !.fd[w] = "file"]

Put(s, place, d) ==
    CASE place = "tmp" -> [s EXCEPT !.tmp = d]
      [] place = "file" -> [s EXCEPT !.file = d]
      [] OTHER -> s

Content(s, place) == IF place = "tmp" THEN s.tmp ELSE s.file

\* The document replaces what is there, unless another descriptor wrote or is
\* writing to the same file: then the two texts may be mixed.
Clean(s, w) ==
    \/ s.fd[w] = "gone"
    \/ /\ Content(s, s.fd[w]) = Torn
       /\ \A v \in Writers \ {w} : s.fd[v] # s.fd[w]

Dumped(s, w, d) ==
    {Put(Closed(s, {w}), s.fd[w], x) : x \in IF Clean(s, w) THEN {d} ELSE {d, Torn}}

\* A dump that breaks off leaves a part of the document.
BrokenOff(s, w) == Put(Closed(s, {w}), s.fd[w], Torn)

\* os.replace(tmp, file); it raises when the temporary file is not there.
Replaced(s) ==
    [file |-> s.tmp, tmp |-> None,
     fd |-> [w \in Writers |-> CASE s.fd[w] = "tmp" -> "file"
                                 [] s.fd[w] = "file" -> "gone"
                                 [] OTHER -> s.fd[w]]]
=============================================================================
