-------------------------------- MODULE Slots --------------------------------
(***************************************************************************)
(* The engine keeps its tables in C arrays and looks for a slot with a     *)
(* loop from index 0 that stops at the first hit.                          *)
(***************************************************************************)
EXTENDS Integers

(* The indices of an array of n slots. *)
Indices(n) == 0 .. (n - 1)

(* The slot at which a scan from index 0 for a member of S stops. *)
First(S) == CHOOSE s \in S : \A t \in S : s <= t

(* The slots of S whose value under f is least. *)
Least(f, S) == {s \in S : \A t \in S : f[s] <= f[t]}
=============================================================================
