--------------------------- MODULE MCCanvasAccess ---------------------------
(***************************************************************************)
(* The instance of CanvasAccess for TLC.  Verification and lookups share   *)
(* nothing but Canvas, so of AccessNext each takes the steps where its own *)
(* part of Canvas moves: signed events while keys rotate, API verification *)
(* and lookups while users come and go; and requests that share no cache   *)
(* run one at a time.                                                      *)
(***************************************************************************)
EXTENDS CanvasAccess, TLC

CONSTANTS q1, q2, kNew, kEc

TwoRequests == {q1, q2}
\* Canvas's key set has one key for RS256, which comes and goes, and another.
TwoKeys == {kNew, kEc}
RsaKeys == {kNew}

\* User 2's ID is the ID of user 1's record, user 3's that of user 2's; user 3
\* has a record whose ID is no user's, and user 4 one whose ID is its own.
FourUsers == 1..4
RecordOf == [u \in FourUsers |-> CASE u = 1 -> 2 [] u = 2 -> 3 [] u = 3 -> 9 [] u = 4 -> 4]
ByName == [u \in FourUsers |-> CASE u = 3 -> 1 [] u = 1 -> 2 [] u = 4 -> 3 [] u = 2 -> 4]
AskedIds == {2, 3, 4, 9, 1}

\* A local course ID, the global ID of that course, and another course's.
CourseContexts == {3, 13, 4}

\* Explicit signed verification has the precedence over everything else, which
\* one of its setups shows, of a course that does not allow the fallback.
SomeSetups == {s \in AllSetups : s.authMode = "canvas-signed-jwt" =>
                 s.requireJwt /\ s.secret /\ ~s.fallback}

\* Bodies vary with the submission they name, headers on a body that parses.
SomePosts ==
  {p \in SignedPosts : p.signed /\ p.timely /\ (p.header \/ p.kid = kNew)}
    \cup {[header |-> TRUE, kid |-> kNew, signed |-> FALSE, timely |-> TRUE],
          [header |-> TRUE, kid |-> kNew, signed |-> TRUE, timely |-> FALSE]}
    \cup [json : {"broken", "mismatch", "other", "event"}, bearer : {"none"},
          canvasMac : {"none"}, hubMac : {"none"}, submission : AskedIds]
    \cup [json : {"event"}, bearer : {"none", "basic", "bad", "good"},
          canvasMac : Macs, hubMac : {"none", "good"}, submission : {2}]

RequestSymmetry == Permutations(Requests)

\* Where events are signed, one body stands for all that are no token: they are
\* refused without another look.
NoToken == {p \in PlainPosts : p.json = "event" /\ p.bearer = "good" /\ p.submission = 2
                                 /\ p.canvasMac = "good" /\ p.hubMac = "good"}
MayArrive(p) == SignedMode => p \in SignedPosts \cup NoToken \cup {None}

\* ... and of two requests at a time both look at keys, signed with one they name,
\* and one is genuine: what else may be wrong with one the other cannot see.
LooksAtKeys(p) == IsSigned(p) /\ p.header /\ p.signed /\ p.timely
Together(p, q) ==
  None \in {p, q} \/ (LooksAtKeys(p) /\ LooksAtKeys(q) /\ (Genuine(p) \/ Genuine(q)))

\* Canvas starts out in any state where it matters, in one where it does not.
Init ==
  /\ AccessInit
  /\ SignedMode \/ published = Keys
  /\ EffectiveMode = "canvas-api" \/ assigned = Users

\* One request, or one lookup, and none beside it.
OneAtATime ==
  \/ \A r \in Requests : step[r] = "idle"
  \/ at = "idle" /\ \E r \in Requests : \A q \in Requests \ {r} : step[q] = "idle"

\* Requests on signed events share the cache; others share nothing.  Canvas does
\* not rotate its keys while an answer that was no key set may still matter.
Next ==
  /\ AccessNext
  /\ EffectiveMode # "canvas-api" => UNCHANGED <<assigned, lookup>>
  /\ ~SignedMode => UNCHANGED published /\ OneAtATime'
  /\ \A r \in Requests : MayArrive(post'[r])
  /\ \A r, q \in Requests : r # q => Together(post'[r], post'[q])
  /\ garbled <= Lifespan + 1 => UNCHANGED published

Spec == Init /\ [][Next]_accessVars
=============================================================================
