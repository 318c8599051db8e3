------------------------------ MODULE KeyedLease ------------------------------
(***************************************************************************)
(* The redislock client: a key holding an owner token (SET NX PX) and the  *)
(* Lua scripts that refresh and release it only for the owner.  A token    *)
(* is minted per acquisition attempt (redislock.Token, 128 random bits);   *)
(* here it is the worker and its incarnation, which never repeats after a  *)
(* restart.  NoToken is the absent key.                                    *)
(***************************************************************************)
NoToken == [w |-> "none", inc |-> 0]

\* Client.Acquire: SETNX succeeds only on an absent key.
CanAcquire(l) == l = NoToken

\* Client.Release: releaseScript deletes the key only if it holds token t.
ReleaseIfOwner(l, t) == IF l = t THEN NoToken ELSE l
=============================================================================
