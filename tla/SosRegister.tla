----------------------------- MODULE SosRegister -----------------------------
(***************************************************************************)
(* What the SOS subsystem promises, without its network: for each node the *)
(* latest command ordered is on record, nodes carry commands out, and a    *)
(* command is confirmed only for a node it was ordered for, while it is    *)
(* still the latest one, and after that node has carried it out.           *)
(***************************************************************************)
EXTENDS Naturals

CONSTANT Node

VARIABLES
  count,       (* commands ordered so far; the latest has this number      *)
  ordered,     (* latest command of each node, 0 when there is none        *)
  carriedOut,  (* commands each node has carried out                       *)
  confirmed    (* commands known to have been carried out                  *)

vars == <<count, ordered, carriedOut, confirmed>>

Init ==
  /\ count = 0
  /\ ordered = [n \in Node |-> 0]
  /\ carriedOut = [n \in Node |-> {}]
  /\ confirmed = {}

Order(n) ==
  /\ count' = count + 1
  /\ ordered' = [ordered EXCEPT ![n] = count']
  /\ UNCHANGED <<carriedOut, confirmed>>

CarryOut(n) ==
  /\ \E c \in 1 .. count : carriedOut' = [carriedOut EXCEPT ![n] = @ \cup {c}]
  /\ UNCHANGED <<count, ordered, confirmed>>

Confirm(n) ==
  /\ ordered[n] \in carriedOut[n]
  /\ confirmed' = confirmed \cup {ordered[n]}
  /\ UNCHANGED <<count, ordered, carriedOut>>

\* The record is kept in memory only.
Forget ==
  /\ ordered' = [n \in Node |-> 0]
  /\ UNCHANGED <<count, carriedOut, confirmed>>

Next ==
  \/ \E n \in Node : Order(n) \/ CarryOut(n) \/ Confirm(n)
  \/ Forget

Spec == Init /\ [][Next]_vars

=============================================================================
