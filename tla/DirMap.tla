------------------------------- MODULE DirMap -------------------------------
(***************************************************************************)
(* What a directory promises its callers: a map from names to inode        *)
(* numbers (0: no such entry) that each call changes as a whole or not at  *)
(* all.  `op` is the last call and `ret` its result; a call may always     *)
(* fail with ENOSPC, and then nothing has changed.                         *)
(***************************************************************************)
EXTENDS Naturals

CONSTANTS Dirs, Names

VARIABLES entries, op, ret

\* <<"add", d, n, i>>: a fresh name, as create and link ask for it.
Adding(E, o, F, c) ==
  /\ o[1] = "add"
  /\ LET d == o[2]  n == o[3]
     IN  \/ E[d][n] # 0 /\ F = E /\ c = "EEXIST"
         \/ E[d][n] = 0 /\ F = [E EXCEPT ![d][n] = o[4]] /\ c = "ok"

\* <<"remove", d, n>>: unlink and rmdir.
Removing(E, o, F, c) ==
  /\ o[1] = "remove"
  /\ LET d == o[2]  n == o[3]
     IN  \/ E[d][n] = 0 /\ F = E /\ c = "ENOENT"
         \/ E[d][n] # 0 /\ F = [E EXCEPT ![d][n] = 0] /\ c = "ok"

\* The three renames of (d, n) to (e, m): the entry moves (over an existing
\* one), two entries change places, or the entry moves and leaves w behind.
Moving(E, o, F, c) ==
  /\ o[1] \in {"move", "exchange", "whiteout"}
  /\ LET d == o[2]  n == o[3]  e == o[4]  m == o[5]
         left == CASE o[1] = "exchange" -> E[e][m]
                   [] o[1] = "whiteout" -> o[6]
                   [] OTHER -> 0
     IN  IF E[d][n] = 0 \/ (o[1] = "exchange" /\ E[e][m] = 0)
           THEN F = E /\ c = "ENOENT"
           ELSE F = [[E EXCEPT ![d][n] = left] EXCEPT ![e][m] = E[d][n]] /\ c = "ok"

Call(E, o, F, c) ==
  \/ o # <<>> /\ (Adding(E, o, F, c) \/ Removing(E, o, F, c) \/ Moving(E, o, F, c))
  \/ o # <<>> /\ F = E /\ c = "ENOSPC"
  \/ o = <<>> /\ F = E /\ c = "ok"          \* nothing a caller could see

Init == entries = [d \in Dirs |-> [n \in Names |-> 0]] /\ op = <<>> /\ ret = "ok"

Next == \E E \in {entries}, F \in {entries'}, o \in {op'}, c \in {ret'} : Call(E, o, F, c)

Spec == Init /\ [][Next]_<<entries, op, ret>>
=============================================================================
