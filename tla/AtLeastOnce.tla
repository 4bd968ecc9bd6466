----------------------------- MODULE AtLeastOnce ------------------------------
(***************************************************************************)
(* What the dream curator promises of one scope, without runs, watermarks  *)
(* or commits: events arrive in an order, are delivered to governance in   *)
(* that order without gaps, and are acknowledged only once delivered.  An  *)
(* event may be delivered again while it is not acknowledged; an           *)
(* acknowledgement is never taken back; and an event leaves only because   *)
(* a privacy deletion removes it.                                          *)
(***************************************************************************)
EXTENDS Integers

CONSTANT Events    \* a set of integers, in the order of their arrival

VARIABLES arrived, delivered, acked

vars == <<arrived, delivered, acked>>

\* S has no gap before any of its events.
Prefix(S) == \A x \in S, y \in arrived : y < x => y \in S

Init == arrived = {} /\ delivered = {} /\ acked = {}

Arrive == \E e \in Events : /\ \A x \in arrived : x < e
                            /\ arrived' = arrived \cup {e}
                            /\ UNCHANGED <<delivered, acked>>

Deliver == \E S \in SUBSET arrived : /\ delivered' = delivered \cup S
                                     /\ Prefix(delivered')
                                     /\ UNCHANGED <<arrived, acked>>

Acknowledge == /\ acked' \in SUBSET delivered
               /\ acked \subseteq acked' /\ Prefix(acked')
               /\ UNCHANGED <<arrived, delivered>>

Remove == \E S \in SUBSET arrived : /\ arrived' = arrived \ S
                                    /\ delivered' = delivered \ S
                                    /\ acked' = acked \ S

Next == Arrive \/ Deliver \/ Acknowledge \/ Remove

Spec == Init /\ [][Next]_vars
=============================================================================
