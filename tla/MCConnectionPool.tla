-------------------------- MODULE MCConnectionPool --------------------------
(***************************************************************************)
(* A small pool: the configuration gives fewer connections than requests.  *)
(***************************************************************************)
EXTENDS ConnectionPool
=============================================================================
