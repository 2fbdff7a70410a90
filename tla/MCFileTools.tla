---------------------------- MODULE MCFileTools -----------------------------
(***************************************************************************)
(* FileTools over a workspace /w with the file a, a link b to it, and a    *)
(* file outside; spellings that are plain, redundant, and escaping.        *)
(***************************************************************************)
EXTENDS FileTools

WRoot == <<"w">>

path(abs, parts) == [abs |-> abs, parts |-> parts]

Spellings == {path(FALSE, <<"x", "..", "a">>), path(TRUE, <<"w", ".", "a">>),
              path(FALSE, <<"..", "e">>), path(TRUE, <<"w", "..", "e">>),
              path(FALSE, <<"..", "..", "w", "a">>), path(TRUE, <<"e">>),
              path(FALSE, <<>>), path(TRUE, <<"w", "b">>)}

InAndOut == {"a", "e"}

\* b is a link to a; whatever is not under /w is the file e.
Linked(key) == IF IsPrefix(WRoot, key) THEN "a" ELSE "e"
=============================================================================
