---------------------------- MODULE MCSceneAnalysis ----------------------------
(***************************************************************************)
(* SceneAnalysis on small instances: a scene of at most two chunks, which  *)
(* the author can rewrite, shorten, lengthen and empty.                    *)
(***************************************************************************)
EXTENDS SceneAnalysis, TLC

CONSTANTS a, b

NeverEmpty == {<<a>>, <<b>>}
TwoChunks == {<<a>>, <<a, b>>, <<>>}
=============================================================================
