-------------------------- MODULE SubmissionLookup --------------------------
(***************************************************************************)
(* resolve_submission_for_assignment: every task of a flow run that needs  *)
(* a submission resolves its record ID with an endpoint that is keyed by   *)
(* user ID, and falls back to a scan of the list of all submissions.  Each *)
(* call to Canvas is a step of its own, and users are assigned and         *)
(* unassigned between any two.                                             *)
(***************************************************************************)
EXTENDS CanvasRecords

CONSTANTS
  Asked,     \* submission IDs tasks ask for
  NoRecord   \* no ID asked, nothing found

ASSUME AskedAssumption == Asked \subseteq Nat /\ NoRecord \notin Nat

VARIABLES
  at,        \* where the lookup is, or how it ended
  asked,     \* the submission ID asked for
  next,      \* place in the list at which the next page begins
  queue,     \* users of that page whose records are still to be compared
  more,      \* whether that page linked to a next one
  candidate, \* user whose record the scan found to be the one asked for
  found,     \* ID of the record returned
  steady     \* history: nobody has left since the lookup began, and the record
             \* asked for was there from its beginning

lookup == <<at, asked, next, queue, more, candidate, found, steady>>
lookupVars == <<assigned, lookup>>

Ended == {"found", "missing", "failed"}

LookupTypeOK ==
  /\ assigned \subseteq Users
  /\ at \in {"idle", "direct", "list", "compare", "fetch"} \cup Ended
  /\ asked \in Asked \cup {NoRecord}
  /\ next \in Nat
  /\ queue \subseteq Users
  /\ more \in BOOLEAN
  /\ candidate \in Users \cup {NoRecord}
  /\ found \in {SubOf[u] : u \in Users} \cup {NoRecord}
  /\ steady \in BOOLEAN

LookupInit ==
  /\ assigned \in SUBSET Users
  /\ at = "idle"
  /\ asked = NoRecord
  /\ next = 0
  /\ queue = {}
  /\ more = FALSE
  /\ candidate = NoRecord
  /\ found = NoRecord
  /\ steady = FALSE

Ask(id) ==
  /\ at = "idle"
  /\ at' = "direct"
  /\ asked' = id
  /\ steady' = (id \in Records)
  /\ UNCHANGED <<assigned, next, queue, more, candidate, found>>

\* Mutant: whatever the direct lookup returns is taken for the record.
IsAsked_Unchecked(user) == TRUE

\* submission.id == submission_id
IsAsked(user) == SubOf[user] = asked

\* The direct lookup treats the submission ID as a user ID.
FindDirectly ==
  /\ at = "direct"
  /\ HasSubmission(asked)
  /\ IsAsked(asked)
  /\ at' = "found"
  /\ found' = SubOf[asked]
  /\ UNCHANGED <<assigned, asked, next, queue, more, candidate, steady>>

\* 404, which is suppressed, or the record of somebody else.
FallBack ==
  /\ at = "direct"
  /\ HasSubmission(asked) => ~IsAsked(asked)
  /\ at' = "list"
  /\ UNCHANGED <<assigned, asked, next, queue, more, candidate, found, steady>>

\* The next page of the list, as Canvas has it now.
ReadPage ==
  /\ at = "list"
  /\ next' = next + PerPage
  /\ queue' = Page(next)
  /\ more' = HasNext(next)
  /\ at' = "compare"
  /\ UNCHANGED <<assigned, asked, candidate, found, steady>>

\* Mutant: candidate.id in the place of candidate.user_id.
PickCandidate_ByRecord ==
  /\ at = "compare"
  /\ \E u \in queue : SubOf[u] = asked /\ candidate' = SubOf[u]
  /\ at' = "fetch"
  /\ UNCHANGED <<assigned, asked, next, queue, more, found, steady>>

\* A record on the page is the one asked for.
PickCandidate ==
  /\ at = "compare"
  /\ \E u \in queue : SubOf[u] = asked /\ candidate' = u
  /\ at' = "fetch"
  /\ UNCHANGED <<assigned, asked, next, queue, more, found, steady>>

NotOnPage == \A u \in queue : SubOf[u] # asked

\* Mutant: only the first page of the list is scanned.
NextPage_FirstOnly ==
  /\ at = "compare" /\ NotOnPage /\ more
  /\ at' = "missing"
  /\ UNCHANGED <<assigned, asked, next, queue, more, candidate, found, steady>>

NextPage ==
  /\ at = "compare" /\ NotOnPage /\ more
  /\ at' = "list"
  /\ UNCHANGED <<assigned, asked, next, queue, more, candidate, found, steady>>

\* The list is exhausted: ResourceDoesNotExist.
GiveUp ==
  /\ at = "compare" /\ NotOnPage /\ ~more
  /\ at' = "missing"
  /\ UNCHANGED <<assigned, asked, next, queue, more, candidate, found, steady>>

\* The record is fetched by its user and returned without another look at it.
FetchCandidate ==
  /\ at = "fetch"
  /\ IF HasSubmission(candidate)
     THEN at' = "found" /\ found' = SubOf[candidate]
     ELSE at' = "missing" /\ UNCHANGED found
  /\ UNCHANGED <<assigned, asked, next, queue, more, candidate, steady>>

\* Any other error of a call, also of the direct one, ends the lookup.
CallFails ==
  /\ at \in {"direct", "list", "fetch"}
  /\ at' = "failed"
  /\ UNCHANGED <<assigned, asked, next, queue, more, candidate, found, steady>>

\* The task goes on with what it got; another one may ask.
Forget ==
  /\ at \in Ended
  /\ at' = "idle"
  /\ asked' = NoRecord
  /\ next' = 0
  /\ queue' = {}
  /\ more' = FALSE
  /\ candidate' = NoRecord
  /\ found' = NoRecord
  /\ steady' = FALSE
  /\ UNCHANGED assigned

\* Canvas's side: users come and go during a lookup.
Reassign ==
  \E u \in Users :
    \/ Enrol(u) /\ UNCHANGED lookup
    \/ /\ Leave(u)
       /\ steady' = FALSE
       /\ UNCHANGED <<at, asked, next, queue, more, candidate, found>>

Lookup ==
  \/ \E id \in Asked : Ask(id)
  \/ FindDirectly \/ FallBack
  \/ ReadPage \/ PickCandidate \/ NextPage \/ GiveUp
  \/ FetchCandidate \/ CallFails \/ Forget

LookupNext == Lookup \/ Reassign

LookupSpec == LookupInit /\ [][LookupNext]_lookupVars

------------------------------------------------------------------------------
(* Properties *)

\* A task works on the submission it was asked for and on no other student's,
\* although the direct lookup may answer with the record of the user whose ID
\* the submission ID happens to be ("Verify the record ID we got back").
FoundIsAsked == at = "found" => found = asked

\* A lookup denies a record that exists only if a user left while it ran: new
\* users, who shift the pages under the scan, make it see records twice but
\* never miss one, and a foreign record at the direct endpoint ends nothing.
MissingIsGone == at = "missing" => ~steady

\* Why both hold.  The scan fetches nothing but the record asked for, and while
\* nobody leaves, that record is on the page in hand or behind it: a user's
\* place in the list can only grow.
Ahead(u) == IF at = "compare" THEN u \in queue \/ (more /\ Place(u) >= next)
                             ELSE at = "list" => Place(u) >= next

LookupInv ==
  /\ FoundIsAsked
  /\ MissingIsGone
  /\ at \in {"idle", "direct"} => next = 0
  /\ at = "fetch" => candidate \in Users /\ SubOf[candidate] = asked
  /\ steady /\ at \in {"direct", "list", "compare", "fetch"} =>
       \E u \in assigned : SubOf[u] = asked /\ Ahead(u)
=============================================================================
