---------------------------- MODULE CanvasRecords ----------------------------
(***************************************************************************)
(* Canvas (external): the submission records of one assignment, as far as  *)
(* the client code can see them.  Every user has one record, with an ID of *)
(* its own from the same numbers as user IDs; users come and go.  The      *)
(* endpoint of a single submission is keyed by USER ID, the list of all    *)
(* submissions is served page by page, in a fixed order of the users.      *)
(***************************************************************************)
EXTENDS Naturals, FiniteSets

CONSTANTS
  Users,     \* user IDs
  SubOf,     \* user -> ID of its submission record
  Order,     \* user -> what the list of submissions is ordered by
  PerPage    \* length of a page

ASSUME UsersAssumption ==
  /\ Users \subseteq Nat /\ IsFiniteSet(Users)
  /\ SubOf \in [Users -> Nat]
  /\ \A u, v \in Users : SubOf[u] = SubOf[v] => u = v
ASSUME PagesAssumption ==
  /\ PerPage \in Nat \ {0}
  /\ Order \in [Users -> Nat]
  /\ \A u, v \in Users : Order[u] = Order[v] => u = v

VARIABLE assigned   \* users the assignment is assigned to

Records == {SubOf[u] : u \in assigned}

\* GET .../submissions/:user_id answers with a record, or 404.
HasSubmission(user) == user \in assigned

\* The place of a user in the list as it is now, counted from 0; the page that
\* begins at a place, and whether the answer with that page links to a next one.
Place(u) == Cardinality({v \in assigned : Order[v] < Order[u]})
Page(start) == {u \in assigned : Place(u) \in start..(start + PerPage - 1)}
HasNext(start) == start + PerPage < Cardinality(assigned)

Enrol(u) ==
  /\ u \notin assigned
  /\ assigned' = assigned \cup {u}

Leave(u) ==
  /\ u \in assigned
  /\ assigned' = assigned \ {u}
==============================================================================
