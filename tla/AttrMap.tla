------------------------------- MODULE AttrMap -------------------------------
(***************************************************************************)
(* What extended attributes promise: every inode has a map from names to   *)
(* values, one call at a time changes one name of it, a call that has      *)
(* returned success survives any crash, and a call that a crash or an I/O  *)
(* error cuts short has happened entirely or not at all.                   *)
(***************************************************************************)
CONSTANTS Inos, Names, Values, Absent

VARIABLES attrs,   \* inode -> name -> value, or Absent
          call     \* inode -> the call running on it, <<>> when none is

Calls == [name : Names, value : Values \cup {Absent}, flag : {"", "create", "replace"}]

\* The flags of setxattr, and removexattr (a value of Absent).
Allowed(has, c) ==
  /\ c.flag = "create"  => has[c.name] = Absent
  /\ c.flag = "replace" => has[c.name] # Absent
  /\ c.value = Absent   => has[c.name] # Absent

Done(has, c) == [has EXCEPT ![c.name] = c.value]

Init == attrs = [i \in Inos |-> [n \in Names |-> Absent]] /\ call = [i \in Inos |-> <<>>]

\* The steps of one inode, from attributes A and call c to B and d.
Enter(A, c, B, d)   == c = <<>> /\ d # <<>> /\ d \in Calls /\ Allowed(A, d) /\ B = A
Succeed(A, c, B, d) == c # <<>> /\ d = <<>> /\ B = Done(A, c)
Refuse(A, c, B, d)  == c # <<>> /\ d = <<>> /\ B = A          \* ENOSPC, EIO

OneCall(A, C, B, D) ==
  \E i \in Inos :
    /\ \/ Enter(A[i], C[i], B[i], D[i])
       \/ Succeed(A[i], C[i], B[i], D[i])
       \/ Refuse(A[i], C[i], B[i], D[i])
    /\ \A j \in Inos \ {i} : B[j] = A[j] /\ D[j] = C[j]

Crash(A, C, B, D) ==
  \A i \in Inos : /\ D[i] = <<>>
                  /\ B[i] = A[i] \/ (C[i] # <<>> /\ B[i] = Done(A[i], C[i]))

Next ==
  \E A \in {attrs}, C \in {call}, B \in {attrs'}, D \in {call'} :
    OneCall(A, C, B, D) \/ Crash(A, C, B, D)

Spec == Init /\ [][Next]_<<attrs, call>>
==============================================================================
