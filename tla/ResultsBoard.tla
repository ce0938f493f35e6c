---------------------------- MODULE ResultsBoard ---------------------------
(***************************************************************************)
(* What the practice exam promises of its results, without pages, devices  *)
(* or messages: one entry per user, kept for good; an entry is only ever   *)
(* written for its own user, and its score is that of an answer sheet this *)
(* user really handed in for that exam.                                    *)
(***************************************************************************)
CONSTANTS
  Users,    \* those who take exams
  Entries,  \* what can be stored for a user
  Nothing   \* no entry yet

VARIABLES
  board,    \* per user: the stored entry
  handedIn  \* the <<user, exam version, answer sheet>> triples handed in

bvars == <<board, handedIn>>

Init ==
  /\ board = [u \in Users |-> Nothing]
  /\ handedIn = {}

\* A user hands in an answer sheet.
HandIn(u) ==
  /\ handedIn \subseteq handedIn'
  /\ \A t \in handedIn' \ handedIn : t[1] = u
  /\ UNCHANGED board

\* A sheet that was handed in comes to be the user's entry.
Enter(u) ==
  /\ board'[u] \in Entries
  /\ <<u, board'[u].version, board'[u].scored>> \in handedIn
  /\ \A w \in Users \ {u} : board'[w] = board[w]
  /\ UNCHANGED handedIn

Next ==
  /\ board' \in [Users -> Entries \union {Nothing}]
  /\ \E u \in Users : HandIn(u) \/ Enter(u)

Spec == Init /\ [][Next]_bvars
=============================================================================
