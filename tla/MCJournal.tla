----------------------------- MODULE MCJournal -----------------------------
(* Journal for TLC: the constants of each run are in its .cfg.             *)
EXTENDS Journal
=============================================================================
