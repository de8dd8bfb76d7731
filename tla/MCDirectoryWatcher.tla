------------------------- MODULE MCDirectoryWatcher -------------------------
(* A root with one subdirectory: a file in each, or in the subdirectory    *)
(* alone.                                                                  *)
EXTENDS DirectoryWatcher, TLC

CONSTANTS root, sub, f, g

MCHome == f :> root @@ g :> sub
MCHomeSub == g :> sub
=============================================================================
