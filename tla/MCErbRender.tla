----------------------------- MODULE MCErbRender -----------------------------
(***************************************************************************)
(* Instances of ErbRender.                                                 *)
(***************************************************************************)
EXTENDS ErbRender, TLC

CONSTANTS simple, loop, a, b, file1, file2

\* Two template files that keep their text, one of them in the native subset.
FileContents == file1 :> {simple} @@ file2 :> {loop}
=============================================================================
