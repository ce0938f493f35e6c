-------------------------- MODULE AccountRegistry --------------------------
(***************************************************************************)
(* What the accounts of the app promise to the administrator's list of     *)
(* users, without pages, handlers or messages: every account goes through  *)
(* its life once and in this order,                                        *)
(*                                                                         *)
(*   none -> new -> listed -> unlisted -> gone                             *)
(*                                                                         *)
(* where a new account may also miss the list for good.  A listed account  *)
(* leaves the list before it goes, and nothing lists it again.             *)
(***************************************************************************)
CONSTANT Uids  \* the accounts that may ever be created

VARIABLE life  \* per account: where it is in its life

Init == life = [uid \in Uids |-> "none"]

Moves(uid, from, to) ==
  /\ life[uid] \in from
  /\ life' = [life EXCEPT ![uid] = to]

Create(uid) == Moves(uid, {"none"}, "new")

\* Its document appears in the list.
Enlist(uid) == Moves(uid, {"new"}, "listed")

\* The document is deleted, by the user or the administrator, or refused.
Unlist(uid) == Moves(uid, {"new", "listed"}, "unlisted")

Delete(uid) == Moves(uid, {"unlisted"}, "gone")

Next == \E uid \in Uids : Create(uid) \/ Enlist(uid) \/ Unlist(uid) \/ Delete(uid)

Spec == Init /\ [][Next]_life
=============================================================================
