-------------------------------- MODULE MCParts --------------------------------
(***************************************************************************)
(* The variables of a composition of components that share no state: part  *)
(* is the one a behaviour is of, whose variables are the first of the      *)
(* others.                                                                 *)
(***************************************************************************)
VARIABLES part, v1, v2, v3, v4, v5, v6, v7, v8, v9, v10, v11
=============================================================================
