-------------------------- MODULE MCAuthSession --------------------------
(* A small instance of AuthSession: see the .cfg file. *)
EXTENDS AuthSession

CONSTANTS b1, b2, t1, t2

BothOnOne == t1 :> b1 @@ t2 :> b1
===========================================================================
