------------------------------- MODULE CommitLog -------------------------------
(***************************************************************************)
(* What the conversation store promises, without files, locks or crashes:  *)
(* every branch has a log of committed turns that only grows, and a head,  *)
(* the checkpoint the next turn continues from.  The head moves to the     *)
(* latest committed turn before that turn's caller is told, and a turn     *)
(* that is handed a branch is handed its head.  So a turn continues from   *)
(* the last commit that was reported, or from a later one.                 *)
(***************************************************************************)
EXTENDS Naturals, Sequences

CONSTANTS Branch, Turn, None

VARIABLES
  log,      (* the committed turns of each branch, oldest first *)
  head,     (* the checkpoint of each branch                    *)
  acked,    (* the turns whose caller was told of the commit    *)
  handed    (* the branch and checkpoint each turn was handed   *)

vars == <<log, head, acked, handed>>

Unhanded == [branch |-> None, checkpoint |-> None]

Latest(b)    == IF log[b] = <<>> THEN [turn |-> None, response |-> None] ELSE log[b][Len(log[b])]
Logged(b, t) == \E i \in 1..Len(log[b]) : log[b][i].turn = t

Init ==
  /\ log    = [b \in Branch |-> <<>>]
  /\ head   = [b \in Branch |-> None]
  /\ acked  = {}
  /\ handed = [t \in Turn |-> Unhanded]

Hand(t, b) ==
  /\ handed[t].branch \in {None, b}
  /\ handed' = [handed EXCEPT ![t] = [branch |-> b, checkpoint |-> head[b]]]
  /\ UNCHANGED <<log, head, acked>>

Commit(t, b) ==
  /\ handed[t].branch = b
  /\ ~Logged(b, t)
  /\ \E response \in {t, None} :
       log' = [log EXCEPT ![b] = Append(@, [turn |-> t, response |-> response])]
  /\ UNCHANGED <<head, acked, handed>>

Publish(t, b) ==
  /\ Latest(b).turn = t
  /\ Latest(b).response = t
  /\ head' = [head EXCEPT ![b] = t]
  /\ UNCHANGED <<log, acked, handed>>

(* A commit without a response leaves the head where it is. *)
Acknowledge(t, b) ==
  /\ handed[t].branch = b
  /\ Latest(b).turn = t
  /\ Latest(b).response # None => head[b] = t
  /\ acked' = acked \cup {t}
  /\ UNCHANGED <<log, head, handed>>

Invalidate(b) ==
  /\ head' = [head EXCEPT ![b] = None]
  /\ UNCHANGED <<log, acked, handed>>

Next ==
  \E b \in Branch :
    \/ \E t \in Turn : Hand(t, b) \/ Commit(t, b) \/ Publish(t, b) \/ Acknowledge(t, b)
    \/ Invalidate(b)

Spec == Init /\ [][Next]_vars
===============================================================================
