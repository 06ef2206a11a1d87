---------------------------- MODULE MCDataArray ----------------------------
(***************************************************************************)
(* A pool of three slots and two keys: small enough that the free list      *)
(* takes every shape, the pool fills up and the key counter wraps several   *)
(* times, before and after a save and a load. The mutants are the bugs the  *)
(* properties are there to catch.                                           *)
(***************************************************************************)
EXTENDS DataArray
=============================================================================
