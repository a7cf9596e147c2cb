------------------------------ MODULE FileData ------------------------------
(***************************************************************************)
(* What a file promises to its users: a size and one value per byte, with  *)
(* zeros where nothing was written.  Extents.tla implements it.            *)
(***************************************************************************)
EXTENDS Integers, FiniteSets, FiniteSetsExt

CONSTANTS
  MaxSize,     \* the largest file, in units
  Vals         \* the values a client writes; 0 is the value of a hole

VARIABLES size, bytes
fileVars == <<size, bytes>>

Offsets == 1..MaxSize
Spans   == {r \in (0..MaxSize) \X (0..MaxSize) : r[1] < r[2]}

Init == size = 0 /\ bytes = [i \in Offsets |-> 0]

(* Byte i of the sequence is the one at offset i - 1.                      *)
In(i, r) == r[1] < i /\ i <= r[2]

(* What each call makes of the contents b of a file of size n.             *)
Writing(b, r, v)  == [i \in Offsets |-> IF In(i, r) THEN v ELSE b[i]]
Sizing(b, n)      == [i \in Offsets |-> IF i <= n THEN b[i] ELSE 0]
Collapsing(b, r)  == [i \in Offsets |->
                        IF i <= r[1] THEN b[i]
                        ELSE IF i + (r[2] - r[1]) <= MaxSize THEN b[i + (r[2] - r[1])] ELSE 0]
Inserting(b, r)   == [i \in Offsets |-> IF i <= r[1] THEN b[i]
                                        ELSE IF i <= r[2] THEN 0 ELSE b[i - (r[2] - r[1])]]

(* A failed call may have reached some bytes of its range, and no others.  *)
Reached(b, c, n, r, v) == \A i \in Offsets : c[i] = b[i] \/ (In(i, r) /\ i <= n /\ c[i] = v)

(* One call, from n bytes b to m bytes c.  Preallocation leaves the bytes  *)
(* alone; punching and zeroing a range write zeros to it.                  *)
Call(n, b, m, c) ==
  \/ \E r \in Spans :
       \/ m = Max({n, r[2]}) /\ \E v \in Vals \cup {0} : c = Writing(b, r, v)
       \/ m = n /\ c = Writing(b, r, 0)
       \/ m = Max({n, r[2]}) /\ c = b
       \/ r[2] < n /\ m = n - (r[2] - r[1]) /\ c = Collapsing(b, r)
       \/ r[1] < n /\ m = n + (r[2] - r[1]) /\ m <= MaxSize /\ c = Inserting(b, r)
       \/ m = n /\ \E v \in Vals \cup {0} : Reached(b, c, n, r, v)
  \/ m \in 0..MaxSize /\ c = Sizing(b, m)

Next == \E n \in {size}, m \in {size'}, b \in {bytes}, c \in {bytes'} : Call(n, b, m, c)

Spec == Init /\ [][Next]_fileVars
=============================================================================
